SPECIFICATION Spec
CONSTANTS
    Asks = {a1, a2}
    NoAsk = NoAsk
    Ids = {i1}
    NoId = NoId
    ReuseIds = TRUE
    ResendActions = TRUE
    Outcomes <- OneButton
    MaxRequests = 2
INVARIANTS
    NoOrphanRequest
    NoForgottenAsk
    CloseIsLast
PROPERTIES
    CleanStopAbandonsNothing
