\* A worker, and a command that cancels the run or only loads its manifest,
\* under fairness; nothing crashes.
SPECIFICATION FairSchedSpec
CONSTANTS
    w1 = w1  w2 = w2  c1 = c1  l1 = l1
    NoProc = NoProc
    NoPending = NoPending
    NoManifest = NoManifest
    Proc = {w1, c1}
    Worker = {w1}
    Canceller = {c1}
    Reader = {c1}
    Lane = {l1}
    StartStatus = {"Queued"}
    MaxTransitions = 40
    MaxData = 3
    MaxCrashes = 0
    MaxFaults = 0
    AutoPrimary = FALSE
    MaxSessions = 2
INVARIANTS RequestIsOwned
PROPERTIES CancellationEnds SessionEnds
CHECK_DEADLOCK FALSE
