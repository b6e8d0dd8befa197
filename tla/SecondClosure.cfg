SPECIFICATION Spec
CONSTANTS
    Threads = {"closed1", "closed2"}
    Work <- MCWork
    Retriers = {}
    MaxFailures = 0
CHECK_DEADLOCK FALSE
INVARIANT EveryClosureIsAnnounced
