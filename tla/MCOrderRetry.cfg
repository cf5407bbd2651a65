\* The counterexample needs two calls with one id and a PATCH.
CONSTANTS
    Menus <- OneMenu
    MenuIds <- ThreeIds
    Prices <- OnePrice
    Admins = {a1}
    Dtos <- AllDtos
    Requests = {r1, r2}
    Keys = {k1}
    Bodies <- OneBody
    Sent <- OneBody
    LowerCase <- Spelled
    NormalizeText <- Named
    MaxInt = 9
    LastDay = 0
    DayLabel <- OneDay
    Absent = Absent
    Faults <- NoFaults
SPECIFICATION MCSpec
PROPERTY RetryReturnsExisting
