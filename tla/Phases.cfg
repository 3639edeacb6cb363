\* Two lanes, two attempts each, one kill anywhere and a cancellation.
SPECIFICATION FairSpec
CONSTANTS
    l1 = l1  l2 = l2  cc = cc
    NoAnswer = NoAnswer
    NoLane = NoLane
    Lane = {l1, l2}
    Counterpart = cc
    Supervised = {l1}
    Answers <- MCAnswers
    MaxAttempts = 2
    Carrier = {"direct", "envelope", "codewhale", "chat", "events"}
    MaxPieces = 3
    MaxKills = 1
INVARIANTS RisksSurvive
PROPERTIES DeliberationSpec FinalCandidateDecides CooldownKept PacedUnlessKilled LanesJoined SessionEnds
CHECK_DEADLOCK FALSE
