SPECIFICATION Spec
CONSTANTS
    NumPages = 8
    PageSize = 4
    MaxSize = 12
    Cap = 30
    Sizes = {3, 8, 9, 13}
INVARIANTS
    TypeOK
    NoOverlap
    NothingLostInSmall
PROPERTIES
    
    ImplementsHeap
CHECK_DEADLOCK FALSE
