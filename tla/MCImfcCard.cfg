\* Six programs; a FIFO of four bytes.
SPECIFICATION FairSpec
CONSTANTS
    Size = 4
    Hosts <- MCHosts
    MayBreakOff = FALSE
INVARIANT HeldBytesInOrder
PROPERTY BytesConserved
PROPERTY InterruptsGoOn
