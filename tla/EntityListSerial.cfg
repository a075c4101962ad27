SPECIFICATION Spec
CONSTANTS
    Creators = {e1, e2, e3}
    Deleters = {d1, d2}
    Finders = {f1, f2}
    Overlap = 1
    DefaultCapacity = 1
    Null = Null
    Unknown = Unknown
SYMMETRY Symmetry
INVARIANTS
    SerialInv
PROPERTIES
    ImplementsStore
CHECK_DEADLOCK FALSE
