SPECIFICATION Spec
CONSTANTS
    Turns = {t1, t2}
    Nobody = nobody
    Asks <- OneAsk
    MaxDrafts = 2
    MaxEvents = 4
    MaxCalls = 2
    MaxWaits = 1
SYMMETRY Symmetry
INVARIANT TypeOK
INVARIANT RevisedCardIsDead
INVARIANT AnswersWereAskedFor
INVARIANT ReceiptsTellTheTruth
PROPERTY StaleTurnsChangeNothing
PROPERTY StaleTurnsBeginNoAnswer
\* The bounds leave nothing to be done in the end.
CHECK_DEADLOCK FALSE
