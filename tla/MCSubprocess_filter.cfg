\* A filter whose requests and responses are larger than a pipe.
SPECIFICATION Spec
CONSTANTS
    NULL = NULL
    Capacity = 2
    MaxRequest = 5
    MaxResponse = 4
    MaxFiltered = 5
INVARIANTS NoMutualWait
CHECK_DEADLOCK FALSE
