SPECIFICATION Spec
CONSTANTS
    a = a
    b = b
    NULL = NULL
    Ends = {a, b}
    Relayers = {a}
    MaxLength = 33554432
    MaxRelays = 1
INVARIANTS
    OneWrite
    QueueMoves
    FramesInOrder
    NoWrongType
PROPERTY Delivered
CHECK_DEADLOCK FALSE
