------------------------------- MODULE MCSales -------------------------------
(* Small instances of Sales for TLC.                                       *)
EXTENDS Sales, TLC

CONSTANTS o1, o2, o3

AllFaults == {"abort", "crash"}

Item(menu, quantity, unitPrice) == [menu |-> menu, quantity |-> quantity, unitPrice |-> unitPrice]

\* Orders with a menu in common, whose price has changed in between.
MCItems == o1 :> {Item("coffee", 2, 3)} @@ o2 :> {Item("coffee", 1, 5), Item("waffle", 1, 7)}
           @@ o3 :> {Item("waffle", 2, 7)}
=============================================================================
