\* A buffer is written to after it was handed back.
CONSTANTS
    small = small
    large = large
    another = another
    Headers <- ThreeHeaders
    NoHeader = NoHeader
    BufferLength <- MCBufferLength
    DumpLengths = {1, 2}
    MaxBytes = 3
    Sessions <- ShortSession
    MayRecycle = FALSE
SPECIFICATION Spec
INVARIANT CopyIntoQueued
