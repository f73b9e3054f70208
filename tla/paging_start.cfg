SPECIFICATION Spec
CONSTANT
    NumPages = 256
PROPERTY
    CreateReturns
CHECK_DEADLOCK FALSE
