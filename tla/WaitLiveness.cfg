SPECIFICATION FairSpec
CONSTANT MaxKills = 1
PROPERTY WaitEnds
CHECK_DEADLOCK FALSE
