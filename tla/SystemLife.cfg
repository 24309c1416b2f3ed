SPECIFICATION Spec
CONSTANTS
    Asks = {a1, a2, a3}
    Outcomes <- LifeOutcomes
    Procs = {p1, p2}
    Sessions = {s1}
    Keys = {k1, k2}
    NoValue = NoValue
    m_capacity = 1
    LibraryForgets = FALSE
SYMMETRY Symmetry
VIEW WithoutHistory
INVARIANTS
    AllowedOnlyByUser
    DeniedForAReason
    FailsOnlyWithoutAgent
