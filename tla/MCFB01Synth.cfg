\* Two threads that play and reset, two chunks, whether open() fails or not.
CONSTANTS
    a = a
    b = b
    AppThreads <- TwoThreads
    Chunks = 2
    OpenMayFail = TRUE
SPECIFICATION FairSpec
INVARIANT RenderExcludesReset
INVARIANT SynthOutlivesThread
INVARIANT ChunkOwnership
PROPERTY ChunksKeepPlaying
PROPERTY CallsReturn
