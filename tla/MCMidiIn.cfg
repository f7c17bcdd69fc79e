\* An application that takes a filled buffer back for good.
CONSTANTS
    small = small
    large = large
    another = another
    Headers <- ThreeHeaders
    NoHeader = NoHeader
    BufferLength <- MCBufferLength
    DumpLengths = {1, 2}
    MaxBytes = 3
    Sessions <- MCSessions
    MayRecycle = FALSE
SPECIFICATION FairSpec
INVARIANT DumpsInOrder
INVARIANT NothingWaits
PROPERTY MidiInReturns
