\* One process nobody kills, one accepted evidence item, everybody agrees and
\* nothing is rewritten: the review finance-advance is made for.
SPECIFICATION FairSpec
CONSTANTS
    p1 = p1  p2 = p2  s1 = s1  s2 = s2  w1 = w1  e1 = e1
    NoProc = NoProc
    Nothing = Nothing
    Proc = {p1}
    School = {s1, s2}
    Rule <- MCRule
    Evidence = {e1}
    Arbiter = {w1}
    Inputs <- MCCited
    Answers <- MCAgreeing
    MaxKills = 0
    MaxRewrites = 0
PROPERTIES AdvanceCompletes
CHECK_DEADLOCK FALSE
