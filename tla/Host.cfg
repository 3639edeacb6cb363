\* Three commands at a time, three runs, one kill.
SPECIFICATION Spec
CONSTANTS
    h1 = h1  h2 = h2  h3 = h3
    NoProc = NoProc
    Nothing = Nothing
    Proc = {h1, h2, h3}
    MaxRuns = 3
    MaxKills = 1
SYMMETRY Symmetry
INVARIANTS OneActive ReconcileIsTrue
CHECK_DEADLOCK FALSE
