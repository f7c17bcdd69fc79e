\* The synth is closed and opened again.
CONSTANTS
    Threads <- BothThreads
    WrapModulus = 8
    DwordModulus = 64
    Jitters = {0}
    FallsAcrossWrap = FALSE
    MaxPlayed = 12
    BufferSize = 4
    ChunkSize = 2
    MidiLatency = 4
    SynthRate = 320
    OutputRate = 441
    QuadModulus = 1024
    DeviceModes <- ExactDevice
    MaxSessions = 2
SPECIFICATION ReopeningSpec
INVARIANT NeverWaitsLonger
