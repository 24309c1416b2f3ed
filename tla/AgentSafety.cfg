SPECIFICATION Spec
CONSTANTS
    Asks = {a1, a2}
    NoAsk = NoAsk
    Ids = {i1, i2}
    NoId = NoId
    ReuseIds = FALSE
    ResendActions = FALSE
    Outcomes <- EdgeOutcomes
    MaxRequests = 0
SYMMETRY Symmetry
INVARIANTS
    TypeOK
    AnswerIsUsersOwn
    NoStrayReply
    NoOrphanRequest
    NoForgottenAsk
    CloseIsLast
PROPERTIES
    ImplementsContract
    CleanStopAbandonsNothing
