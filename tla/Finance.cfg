\* Two processes, two schools of which one is concerned, an arbiter, evidence
\* or none; one kill, and two outputs rewritten.
SPECIFICATION FairSpec
CONSTANTS
    p1 = p1  p2 = p2  s1 = s1  s2 = s2  w1 = w1  e1 = e1
    NoProc = NoProc
    Nothing = Nothing
    Proc = {p1, p2}
    School = {s1, s2}
    Rule <- MCRule
    Evidence = {e1}
    Arbiter = {w1}
    Inputs <- MCInputs
    Answers <- MCAnswers
    MaxKills = 1
    MaxRewrites = 2
INVARIANTS JournalHolds BlockersKept
PROPERTIES ReviewSpec RetryCompletes
CHECK_DEADLOCK FALSE
