\* Two requests for one task.
SPECIFICATION Spec
CONSTANTS
    r1 = r1  r2 = r2
    NoRecord = NoRecord
    Thread = {r1, r2}
    MaxIds = 3
INVARIANT ArtifactIdsAreStable
CHECK_DEADLOCK FALSE
