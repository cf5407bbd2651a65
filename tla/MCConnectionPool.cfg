\* Three calls on one connection or two, every fault.
CONSTANTS
    Calls = {c1, c2, c3}
    Programs <- TwoPrograms
    RawValues <- Settings
    DefaultMax = 2
    LargestMax = 2
    None = None
    Faults <- AllFaults
SPECIFICATION FairSpec
INVARIANT TypeOK
INVARIANT ConnectionsSound
PROPERTY EverythingEnds
