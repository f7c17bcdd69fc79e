\* Three programs; counts of two bytes with one bit each.
SPECIFICATION Spec
CONSTANTS
    Base = 2
    Samples = {1, 2}
    Fresh <- MCFresh
    Programs <- MCPrograms
INVARIANT LoadedCount
INVARIANT ReadsWhole
INVARIANT StatusLatchOwned
INVARIANT TimersRun
