\* Two orders that are refunded under the same request id, by two calls in
\* flight at a time; the process does not die.
CONSTANTS
    o1 = o1
    o2 = o2
    none = none
    Orders <- TwoOrders
    OrderIds <- TwoOrders
    RefundKeys = {k1}
    Calls = {c1, c2}
    Absent = Absent
    Faults <- NoCrash
    MaxTicks = 3
SPECIFICATION FairSpec
INVARIANT RefundsSound
PROPERTY RefundAnswersTrue
PROPERTY EveryCallAnswered
