SPECIFICATION Spec
CONSTANTS
    People = {"ann", "meg"}
    NoOne = "noone"
    Notes = {"n1", "n2"}
    NoNotes = "none"
    ManagerOf <- MCManagerOf
    VerifierMode = "graph_manager"
    SelfVerify = TRUE
    Loops = {"l1"}
    WriteLock = TRUE
    MaxAudit = 6
PROPERTY NotesChangeIsRecorded
