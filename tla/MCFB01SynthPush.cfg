\* A thread plays while another one resets.
CONSTANTS
    a = a
    b = b
    AppThreads <- TwoThreads
    Chunks = 2
    OpenMayFail = FALSE
SPECIFICATION Spec
INVARIANT QueueOutlivesPush
