SPECIFICATION Spec
CONSTANTS
    Threads = {"job1", "job2", "targeted"}
    Work <- MCWork
    Retriers = {"r1"}
    MaxFailures = 1
CHECK_DEADLOCK FALSE
INVARIANT TypeOK
INVARIANT EveryMessageIsAccountedFor
INVARIANT ConsumedIsLoggedOrDropped
INVARIANT RemindersFollowFailures
PROPERTY ThreadsEnd
