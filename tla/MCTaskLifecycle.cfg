SPECIFICATION Spec
CONSTANTS
    People = {"ann", "meg", "bob"}
    NoOne = "noone"
    Notes = {"n1"}
    NoNotes = "none"
    ManagerOf <- MCManagerOf
    VerifierMode = "graph_manager"
    SelfVerify = TRUE
    Loops = {"l1"}
    WriteLock = TRUE
    MaxAudit = 8
INVARIANT TypeOK
INVARIANT AuditExplainsStatus
INVARIANT DecisionsAreFresh
INVARIANT LockedReadsAreFresh
INVARIANT EntriesAreEntitled
PROPERTY EndedTaskIsNotFlagged
PROPERTY ImplementsPromise
