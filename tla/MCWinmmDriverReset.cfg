\* The synth fails to open in the reset of a close (fails).
SPECIFICATION Spec
CONSTANTS
    MAX_DRIVERS = 2
    MAX_CLIENTS = 2
    Callers = {t1, t2}
    Handles = {h1, h2}
    NoHandle = NoHandle
    Serial = TRUE
    MayReopen = FALSE
    ResetMayFail = TRUE
INVARIANT LostOnlyToFullQueue
SYMMETRY Alike
