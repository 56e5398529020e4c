SPECIFICATION Spec
CONSTANTS
    Size = 3
    MaxBytes = 4
    SizeT = 16
    MaxFragment = 2
CHECK_DEADLOCK FALSE
INVARIANT PrintedOnceInOrder
