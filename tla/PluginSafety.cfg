SPECIFICATION Spec
CONSTANTS
    Keys = {k1, k2, k3}
    Values <- LifePolicies
    NoValue = NoValue
    m_capacity = 2
    Answers <- AllAnswers
    MaxAsking = 2
INVARIANTS
    TypeOK
    UsageMatchesValues
    ReadyAnswerIsLastDecision
    CacheIsCurrent
    LifeStaysInService
    EvictsLeastRecentlyUsed
