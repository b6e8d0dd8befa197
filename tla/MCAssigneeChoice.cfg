SPECIFICATION Spec
CONSTANTS
    ann = ann
    ben = ben
    sam = sam
    tom = tom
    Nobody = Nobody
    Anyone = Nobody
    AnyDept = AnyDept
    NoDept = NoDept
    CeoDept = "CEO"
    Kinds <- MCKinds
    MaxFound = 3
    NameOrders <- MCNameOrders
    Askers <- MCAskers
    Conversations <- MCConversations
    Limits <- MCLimits
    People = {ann, ben, sam, tom}
    Actors = {ann, ben}
    Turns = {t1, t2}
    Names <- MCNames
    Messages <- MCMessages
    Searches <- MCSearches
    Exact <- MCExact
    Mail <- MCMail
    GraphDept <- MCGraphDept
    Artefacts <- MCArtefacts
INVARIANT TypeOK
INVARIANT PickIsHonoured
INVARIANT PickIgnoresOrder
INVARIANT TrimKeepsTheNewest
PROPERTY NobodyIsGuessed
PROPERTY TasksAreAllowed
SYMMETRY TurnSymmetry
CHECK_DEADLOCK FALSE
