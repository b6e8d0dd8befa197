SPECIFICATION Spec
CONSTANTS
    Threads = {"overdue"}
    Work <- MCWork
    Retriers = {"r1", "r2"}
    MaxFailures = 1
CHECK_DEADLOCK FALSE
INVARIANT EveryMessageIsAccountedFor
PROPERTY FailuresSettle
