-------------------------- MODULE MCOrderLifecycle --------------------------
(* Small instances of OrderLifecycle for TLC.                               *)
EXTENDS OrderLifecycle, TLC

CONSTANTS o1, o2, none

AllFaults == {"abort", "ackLost", "crash"}
NoCrash   == {"abort", "ackLost"}

OneOrder  == {o1}
TwoOrders == {o1, o2}
WithUnknown == {o1, none}

MCSymmetry == Permutations(Calls) \cup Permutations(RefundKeys) \cup Permutations(Orders)
=============================================================================
