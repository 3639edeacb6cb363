\* Two lanes, one of which may retry, for one slot; the seat is killed once.
SPECIFICATION SystemSpec
CONSTANTS
    l1 = l1  l2 = l2
    Lane = {l1, l2}
    Limit = 1
    MaxCalls = 2
    MaxTransport = 2
    MaxLimited = 2
    MaxSeatFaults = 1
INVARIANTS CallsWithinLimit QueuedKeepsBudget AnswerSurvives
PROPERTIES LanesReturn
CHECK_DEADLOCK FALSE
