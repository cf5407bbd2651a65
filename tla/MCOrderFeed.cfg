\* Three orders on two instants, so that two have the same created_at, one
\* screen, pages of one order and of two, every fault.
CONSTANTS
    Orders = {1, 2, 3}
    Screens = {s1}
    Limits = {1, 2}
    MaxTime = 1
    None = None
    Faults <- AllFaults
SPECIFICATION FairSpec
INVARIANT TypeOK
INVARIANT ScrollExact
INVARIANT ScreenMissesNothing
PROPERTY EventuallyListed
