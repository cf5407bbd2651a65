----------------------------- MODULE OrderBook -----------------------------
(***************************************************************************)
(* What the order administration promises of every order, with nothing of  *)
(* how: payment is confirmed or the order is cancelled, once and not both; *)
(* a paid order goes through cooking, ready and completed in that order;   *)
(* and a paid order may be refunded once, under a refund request id that   *)
(* no other order has used.  Every operation happens at an instant.        *)
(***************************************************************************)
CONSTANTS Orders, RefundKeys, Absent

VARIABLES
    status,     \* the OrderStatus of each order
    paid,       \* whether its payment has been confirmed
    refundedBy  \* the refundRequestId of its refund, Absent before

bookVars == <<status, paid, refundedBy>>

Move(o, from, to) ==
    /\ status[o] = from
    /\ status' = [status EXCEPT ![o] = to]
    /\ UNCHANGED refundedBy

ConfirmPayment(o) ==
    /\ Move(o, "PAYMENT_PENDING", "ACCEPTED")
    /\ paid' = [paid EXCEPT ![o] = TRUE]

Cancel(o) == Move(o, "PAYMENT_PENDING", "CANCELLED") /\ UNCHANGED paid

Progress(o) ==
    /\ \/ Move(o, "ACCEPTED", "COOKING")
       \/ Move(o, "COOKING", "READY")
       \/ Move(o, "READY", "COMPLETED")
    /\ UNCHANGED paid

Refund(o, k) ==
    /\ paid[o]
    /\ refundedBy[o] = Absent
    /\ \A p \in Orders : refundedBy[p] # k
    /\ refundedBy' = [refundedBy EXCEPT ![o] = k]
    /\ UNCHANGED <<status, paid>>

BookInit ==
    /\ status = [o \in Orders |-> "PAYMENT_PENDING"]
    /\ paid = [o \in Orders |-> FALSE]
    /\ refundedBy = [o \in Orders |-> Absent]

BookNext ==
    \E o \in Orders :
        \/ ConfirmPayment(o)
        \/ Cancel(o)
        \/ Progress(o)
        \/ \E k \in RefundKeys : Refund(o, k)

BookSpec == BookInit /\ [][BookNext]_bookVars
=============================================================================
