\* An application that adds a buffer again after reading it.
CONSTANTS
    small = small
    large = large
    another = another
    Headers <- ThreeHeaders
    NoHeader = NoHeader
    BufferLength <- MCBufferLength
    DumpLengths = {1, 2}
    MaxBytes = 3
    Sessions <- ShortSession
    MayRecycle = TRUE
SPECIFICATION FairSpec
PROPERTY MidiInReturns
