SPECIFICATION Spec
CONSTANTS
    Threads = {"assigned"}
    Work <- MCWork
    Retriers = {"r1", "r2"}
    MaxFailures = 0
CHECK_DEADLOCK FALSE
INVARIANT OneReminder
