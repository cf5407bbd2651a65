\* Two orders of overlapping menus, one of them with an unknown menu, while two
\* administrators change the catalogue; at the higher prices a total is too
\* large.  The two days bear the same MMDD, as one date of two years does.
CONSTANTS
    Menus <- TwoMenus
    MenuIds <- ThreeIds
    Prices <- TwoPrices
    Admins = {a1, a2}
    Dtos <- OneFieldDtos
    Requests = {r1, r2}
    Keys = {k1}
    Bodies <- RepricedBodies
    Sent <- RepricedBodies
    LowerCase <- Spelled
    NormalizeText <- Named
    MaxInt = 17
    LastDay = 1
    DayLabel <- TwoYears
    Absent = Absent
    Faults <- NoFaults
SPECIFICATION MCFairSpec
INVARIANT SnapshotsFresh
INVARIANT HistoryAccountsForRows
PROPERTY NoLostUpdate
PROPERTY ChargesCurrentPrices
PROPERTY ServerErrorsExplained
PROPERTY EveryCallAnswered
