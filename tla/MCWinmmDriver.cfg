\* Two drivers, two clients and two callers, one call at a time.
SPECIFICATION Spec
CONSTANTS
    MAX_DRIVERS = 2
    MAX_CLIENTS = 2
    Callers = {t1, t2}
    Handles = {h1, h2}
    NoHandle = NoHandle
    Serial = TRUE
    MayReopen = FALSE
    ResetMayFail = FALSE
INVARIANT Counted
INVARIANT OneSynth
INVARIANT LostOnlyToFullQueue
SYMMETRY Alike
