\* All Sound Off after the numbers of notes have changed.
SPECIFICATION Spec
CONSTANTS
    FmSlots = 2
    Channels = {0, 1, 2}
    Uses <- Resets
CHECK_DEADLOCK FALSE
INVARIANT NonePronouncing
