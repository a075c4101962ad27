SPECIFICATION Spec
CONSTANTS
    Creators = {e1, e2, e3}
    Deleters = {d1}
    Finders = {f1}
    Overlap = 3
    DefaultCapacity = 1
    Null = Null
    Unknown = Unknown
SYMMETRY Symmetry
INVARIANTS
    IInv
PROPERTIES
    SettledSurvive
    SettledFound
CHECK_DEADLOCK FALSE
