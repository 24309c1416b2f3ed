SPECIFICATION Spec
CONSTANTS
    Names <- TrickyNames
INVARIANTS
    HitIsSameCheck
    DialogShowsTheCheck
CHECK_DEADLOCK FALSE
