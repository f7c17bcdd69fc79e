\* The driver's use of the synth when two messages may be far apart in time.
CONSTANTS
    Modulus = 16
    MaxSamplesPerRun = 2
    MaxRender = 3
    DefaultQueueSize = 4
    MaxQueueSize = 4
    Uses <- OnlyDriverUse
    TransferTime <- MCTransferTime
    MaxBacklog = 2
    LongSilence = TRUE
SPECIFICATION Spec
INVARIANT NotBeforeTimestamp
