SPECIFICATION Spec
CONSTANTS
    Asks = {a1, a2, a3}
    Outcomes <- SessionOutcomes
    Procs = {p1}
    Sessions = {s1, s2}
    Keys = {k1}
    NoValue = NoValue
    m_capacity = 1
    LibraryForgets = FALSE
SYMMETRY Symmetry
INVARIANTS
    TypeOK
    AllowedOnlyByUser
    DeniedForAReason
PROPERTIES
    SessionIsAskedOnce
    ImplementsAskUserContract
