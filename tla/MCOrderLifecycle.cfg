\* One order and an unknown id, two refund request ids; two calls in flight at
\* a time, one after another until five history rows are written: enough to take
\* the order to its end and refund it.
CONSTANTS
    o1 = o1
    o2 = o2
    none = none
    Orders <- OneOrder
    OrderIds <- WithUnknown
    RefundKeys = {k1, k2}
    Calls = {c1, c2}
    Absent = Absent
    Faults <- AllFaults
    MaxTicks = 5
SYMMETRY MCSymmetry
SPECIFICATION Spec
INVARIANT TypeOK
INVARIANT HistoryTellsStatus
PROPERTY PaymentInstantFixed
PROPERTY ImplementsBook
PROPERTY AnnouncedChangesHappened
