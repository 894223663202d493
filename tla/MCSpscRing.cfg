CONSTANTS
    MaxSize = 4
    WordSize = 16
    Elems = {e1, e2}
    Empty = empty
SYMMETRY MCSymmetry
SPECIFICATION Spec
INVARIANTS
    TypeOK
    NoSlotRace
    FreeIsConservative
PROPERTIES
    ImplementsFifo
