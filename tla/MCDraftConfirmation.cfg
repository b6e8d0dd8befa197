SPECIFICATION Spec
CONSTANTS
    People = {"ann", "bob"}
    Drafts = {"d1", "d2"}
    Requester <- MCRequester
    Loops = {"l1", "l2"}
    Nobody = "nobody"
    WriteLock = FALSE
    MaxRequests = 3
INVARIANT TypeOK
INVARIANT OneTaskPerDraft
INVARIANT DraftNamesItsTask
INVARIANT NumbersAreDense
INVARIANT AnswersAreTrue
INVARIANT NoCircularWait
PROPERTY ImplementsPromise
PROPERTY EveryRequestAnswered
CHECK_DEADLOCK FALSE
