SPECIFICATION FairSpec
CONSTANTS
    Asks = {a1, a2}
    Outcomes <- LiveOutcomes
    Procs = {p1, p2}
    Sessions = {s1}
    Keys = {k1}
    NoValue = NoValue
    m_capacity = 1
    LibraryForgets = TRUE
PROPERTIES
    EveryCallReturns
