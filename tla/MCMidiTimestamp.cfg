\* Chunks and a ring buffer, an exact device or one that falls back by a sample.
CONSTANTS
    Threads <- BothThreads
    WrapModulus = 8
    DwordModulus = 64
    Jitters = {0, 1}
    FallsAcrossWrap = FALSE
    MaxPlayed = 18
    BufferSize = 4
    ChunkSize = 2
    MidiLatency = 4
    SynthRate = 320
    OutputRate = 441
    QuadModulus = 1024
    DeviceModes <- ExactRing
    MaxSessions = 1
SPECIFICATION TimestampSpec
INVARIANT PositionIsTrue
INVARIANT RendersPlayedFrames
INVARIANT ConstantLatency
INVARIANT NeverWaitsLonger
