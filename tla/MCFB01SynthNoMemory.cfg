\* Synth::open() may fail during a reset.
CONSTANTS
    a = a
    b = b
    AppThreads <- TwoThreads
    Chunks = 2
    OpenMayFail = TRUE
SPECIFICATION Spec
INVARIANT RenderNeedsOpenSynth
