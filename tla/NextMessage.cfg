SPECIFICATION Spec
CONSTANTS
    Turns = {t1, t2}
    Nobody = nobody
    Asks <- TwoAsks
    MaxDrafts = 2
    MaxEvents = 3
    MaxCalls = 2
    MaxWaits = 0
INVARIANT NextMessageIsTheAnswer
CHECK_DEADLOCK FALSE
