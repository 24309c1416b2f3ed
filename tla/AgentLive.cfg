SPECIFICATION FairSpec
CONSTANTS
    Asks = {a1, a2}
    NoAsk = NoAsk
    Ids = {i1, i2}
    NoId = NoId
    ReuseIds = FALSE
    ResendActions = FALSE
    Outcomes <- OneButton
    MaxRequests = 0
PROPERTIES
    EveryAskConcluded
    SigtermStops
    LostLinkEndsAgent
