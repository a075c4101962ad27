SPECIFICATION Spec
CONSTANTS
    Creators = {e1, e2}
    Deleters = {}
    Finders = {}
    Overlap = 2
    DefaultCapacity = 4
    Null = Null
    Unknown = Unknown
INVARIANTS
    CreatedPersist
CHECK_DEADLOCK FALSE
