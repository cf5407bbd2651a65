\* Two terminals, two releases, one kill or lost answer.
CONSTANTS
    Releases <- TwoReleases
    Requires <- AfterFirst
    Repeatable <- Defaults
    MenusFile = 3
    SettingsFile = 3
    Runners = {r1, r2}
    Seeders = {s1, s2}
    MenuNames <- OneMenu
    InitialPrice = 3000
    InitialAccount = a0
    Prices = {3500}
    Accounts = {a1}
    None = None
    MaxFaults = 1
SPECIFICATION FairSpec
INVARIANT SchemaSound
INVARIANT SeedsKeepChanges
PROPERTY EveryReleaseApplied
