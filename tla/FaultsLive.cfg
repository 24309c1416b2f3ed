SPECIFICATION FairFaultSpec
CONSTANTS
    Asks = {a1, a2}
    NoAsk = NoAsk
    Ids = {i1}
    NoId = NoId
    ReuseIds = TRUE
    ResendActions = FALSE
    Outcomes <- OneButton
    MaxRequests = 0
PROPERTIES
    ConcludedUnlessAnswerLost
    CancelIsConcluded
    UnwindingEnds
