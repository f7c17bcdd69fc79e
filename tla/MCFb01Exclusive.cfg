\* Control changes, and dumps that are sent back over a line that spoils bytes.
SPECIFICATION ExclusiveSpec
CONSTANTS
    FmSlots = 2
    Channels = {0, 1}
    Banks = {0, 1}
    VoiceCount = 2
    Uses <- AllUses
INVARIANT SelectionIsHeard
INVARIANT DumpRestoresBank
INVARIANT HarmIsReported
CHECK_DEADLOCK FALSE
