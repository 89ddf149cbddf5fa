CONSTANTS
    Bytes <- AsciiBytes
    MaxLen = 3
    SignedChar = TRUE
    FmtSize = 7

SPECIFICATION Spec

INVARIANT TypeOK
INVARIANT EncodesAsSpec
INVARIANT NoHeapOverflow
PROPERTY StepEmitsSpecChunk
CHECK_DEADLOCK FALSE
