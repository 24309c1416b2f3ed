SPECIFICATION Spec
CONSTANTS
    Asks = {a1}
    NoAsk = NoAsk
    Ids = {i1}
    NoId = NoId
    ReuseIds = FALSE
    ResendActions = FALSE
    Outcomes <- OneButton
    MaxRequests = 0
PROPERTIES
    StopFailsOnlyOnLiveTalker
