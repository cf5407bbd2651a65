\* Three calls with two request ids, one content written in two ways and one
\* that does not fit its column, all faults, two days; the catalogue stands still.
CONSTANTS
    Menus <- TwoMenus
    MenuIds <- ThreeIds
    Prices <- WithFree
    Admins = {}
    Dtos <- AllDtos
    Requests = {r1, r2, r3}
    Keys = {k1, k2}
    Bodies <- AllBodies
    Sent <- RetypedBodies
    LowerCase <- Spelled
    NormalizeText <- Named
    MaxInt = 14
    LastDay = 1
    DayLabel <- TwoDays
    Absent = Absent
    Faults <- AllFaults
SYMMETRY MCSymmetry
SPECIFICATION FreeSpec
INVARIANT TypeOK
INVARIANT IdempotentAnswers
INVARIANT NumbersUniqueAndDense
PROPERTY ImplementsIntake
INVARIANT AnnouncedOnce
INVARIANT NormalisationFaithful
