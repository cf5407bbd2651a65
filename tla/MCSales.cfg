\* One query, three orders, a festival of two days and the day after it;
\* midnight in Seoul is not midnight in UTC.
CONSTANTS
    o1 = o1
    o2 = o2
    o3 = o3
    Queries = {q1}
    Orders = {o1, o2, o3}
    Refundable = {o1}
    Items <- MCItems
    DayLength = 2
    Offset = 1
    FirstDay = 0
    LastDay = 1
    LastInstant = 4
    LongestTx = 2
    Faults <- AllFaults
    Absent = Absent
SPECIFICATION Spec
INVARIANT TypeOK
INVARIANT ViewConsistent
INVARIANT ViewExact
