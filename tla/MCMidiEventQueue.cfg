\* Four slots hold three events: the positions wrap many times.
CONSTANTS
    e1 = e1
    e2 = e2
    e3 = e3
    Events <- MCEvents
    NoEvent = NoEvent
    Torn = Torn
    RingBufferSize = 4
SYMMETRY EventSymmetry
SPECIFICATION QueueSpec
INVARIANT NoDataRace
INVARIANT QueueInv
PROPERTY HeldEventStable
PROPERTY ImplementsFifo
