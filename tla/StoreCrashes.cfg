\* Two processes that may call anything at any time; one is killed, and one
\* append fails.
SPECIFICATION Spec
CONSTANTS
    p1 = p1  p2 = p2  l1 = l1
    NoProc = NoProc
    NoPending = NoPending
    NoManifest = NoManifest
    Proc = {p1, p2}
    Lane = {l1}
    StartStatus = {"Merging"}
    MaxTransitions = 2
    MaxData = 0
    MaxCrashes = 1
    MaxFaults = 1
SYMMETRY Symmetry
INVARIANTS PendingFitsManifest LogIsFaithful LogIsComplete NoResultAfterCancel CompletedHasResult SnapshotCoversProcesses
PROPERTIES LifecycleSpec
CHECK_DEADLOCK FALSE
