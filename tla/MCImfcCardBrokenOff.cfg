\* A program breaks off a message or a list (fails).
SPECIFICATION Spec
CONSTANTS
    Size = 4
    Hosts <- MCHosts
    MayBreakOff = TRUE
PROPERTY BytesConserved
