\* Notes while their numbers change, and all messages with one key.
SPECIFICATION Spec
CONSTANTS
    FmSlots = 2
    Channels = {0, 1, 2}
    Uses <- PlayingAndControl
CHECK_DEADLOCK FALSE
INVARIANT VoicesDisjoint
INVARIANT PressedKeysSound
INVARIANT HeldKeysPressed
INVARIANT ProgramLoaded
PROPERTY OldestKeyStolen
