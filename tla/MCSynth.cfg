\* Both uses; the clock wraps after 14 samples; a request is longer than a run.
CONSTANTS
    Modulus = 14
    MaxSamplesPerRun = 2
    MaxRender = 3
    DefaultQueueSize = 4
    MaxQueueSize = 4
    Uses <- BothUses
    TransferTime <- MCTransferTime
    MaxBacklog = 2
    LongSilence = FALSE
SPECIFICATION FairSpec
INVARIANT PlayedOnTime
INVARIANT InterfaceBandwidth
PROPERTY MessagesDrain
