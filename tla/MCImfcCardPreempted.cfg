\* The callback runs amid a read of the empty FIFO (fails).
SPECIFICATION Spec
CONSTANTS
    Size = 4
    Hosts <- MCHosts
    MayBreakOff = FALSE
INVARIANT BytesInOrder
