\* Two commands of any kind, two responses, one kill, a cancellation, expiry.
SPECIFICATION FairSpec
CONSTANTS
    p1 = p1  p2 = p2  r1 = r1  r2 = r2
    NoProc = NoProc
    NoResponse = NoResponse
    Proc = {p1, p2}
    Response = {r1, r2}
    MaxKills = 1
INVARIANTS NeverDrifts ResultIsAccepted MismatchMeansAmend
PROPERTIES OneResponse RetryRecovers
CHECK_DEADLOCK FALSE
