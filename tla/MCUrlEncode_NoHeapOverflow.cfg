CONSTANTS
    Bytes <- AllBytes
    MaxLen = 3
    SignedChar = TRUE
    FmtSize = 7

SPECIFICATION Spec

CHECK_DEADLOCK FALSE
INVARIANT NoHeapOverflow
