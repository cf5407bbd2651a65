\* One row, no faults: the counterexample is two PATCHes of the same menu.
CONSTANTS
    Menus <- OneMenu
    MenuIds <- ThreeIds
    Prices <- TwoPrices
    Admins = {a1, a2}
    Dtos <- AllDtos
    Requests = {r1}
    Keys = {k1}
    Bodies <- OneBody
    Sent <- OneBody
    LowerCase <- Spelled
    NormalizeText <- Named
    MaxInt = 9
    LastDay = 0
    DayLabel <- OneDay
    Absent = Absent
    Faults <- NoFaults
SPECIFICATION MCSpec
INVARIANT ChangedAtIsCommitOrder
