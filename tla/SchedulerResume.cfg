\* Two workers that compete for the run lock, one kill, and a cancellation.
SPECIFICATION SchedSpec
CONSTANTS
    w1 = w1  w2 = w2  c1 = c1  l1 = l1
    NoProc = NoProc
    NoPending = NoPending
    NoManifest = NoManifest
    Proc = {w1, w2, c1}
    Worker = {w1, w2}
    Canceller = {c1}
    Reader = {}
    Lane = {l1}
    StartStatus = {"Queued"}
    MaxTransitions = 40
    MaxData = 3
    MaxCrashes = 1
    MaxFaults = 0
    AutoPrimary = TRUE
    MaxSessions = 2
SYMMETRY Symmetry
INVARIANTS TransitionsAreLegal ResultHasEvidence LocksInOrder
PROPERTIES StoreRules
CHECK_DEADLOCK FALSE
