\* The calls of two threads interleave (fails).
SPECIFICATION Spec
CONSTANTS
    MAX_DRIVERS = 2
    MAX_CLIENTS = 2
    Callers = {t1, t2}
    Handles = {h1, h2}
    NoHandle = NoHandle
    Serial = FALSE
    MayReopen = FALSE
    ResetMayFail = FALSE
INVARIANT OneSynth
SYMMETRY Alike
