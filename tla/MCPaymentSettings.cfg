\* Three PATCHes of two accounts, before and after the first registration,
\* with every fault.
CONSTANTS
    Calls = {c1, c2, c3}
    Accounts = {bankA, bankB}
    Absent = Absent
    Faults <- AllFaults
SPECIFICATION FairSpec
INVARIANT TypeOK
PROPERTY AuditTrue
PROPERTY EveryCallEnds
