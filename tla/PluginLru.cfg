SPECIFICATION Spec
CONSTANTS
    Keys = {k1, k2, k3}
    Values <- LifePolicies
    NoValue = NoValue
    m_capacity = 2
    Answers <- LifeAnswers
    MaxAsking = 2
INVARIANTS
    IsLruCache
