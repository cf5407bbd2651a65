---------------------------- MODULE OrderIntake -----------------------------
(***************************************************************************)
(* What POST /orders promises its callers, without a word of how: a        *)
(* request id names at most one order, which comes into being at an        *)
(* instant; a call is answered with that order if it asked for the same,   *)
(* and is told of a conflict if it asked for something else; the kitchen   *)
(* hears of an order once, from the call that made it and just as that     *)
(* call is answered.                                                       *)
(*                                                                         *)
(* OrderPlacement implements it.                                           *)
(***************************************************************************)
EXTENDS Sequences

CONSTANTS
    Calls,      \* the calls; an order bears the name of the call that made it
    Keys,       \* the request ids
    Contents,   \* what can be ordered
    None        \* no request yet, no answer yet, no order

VARIABLES
    asked,      \* the request of each call: [key, content]
    answer,     \* what it was answered: [code, order]
    taken,      \* the orders in being
    heard       \* the orders the kitchen heard of, in that order

intakeVars == <<asked, answer, taken, heard>>

Questions == [key : Keys, content : Contents]

Unanswered == [code |-> None, order |-> None]

Waiting(c) == asked[c] # None /\ answer[c] = Unanswered

TakenFor(key) == {o \in taken : asked[o].key = key}

Reply(c, code, order) == answer' = [answer EXCEPT ![c] = [code |-> code, order |-> order]]

Ask(c, request) ==
    /\ asked[c] = None
    /\ asked' = [asked EXCEPT ![c] = request]
    /\ UNCHANGED <<answer, taken, heard>>

\* The order comes into being; its call may never learn of it.
Take(c) ==
    /\ Waiting(c)
    /\ TakenFor(asked[c].key) = {}
    /\ taken' = taken \cup {c}
    /\ \/ UNCHANGED answer
       \/ Reply(c, "INTERNAL_ERROR", None)
    /\ UNCHANGED <<asked, heard>>

\* The call that made the order announces it and is answered.
Announce(c) ==
    /\ Waiting(c) /\ c \in taken
    /\ \A i \in DOMAIN heard : heard[i] # c
    /\ heard' = Append(heard, c)
    /\ Reply(c, "OK", c)
    /\ UNCHANGED <<asked, taken>>

\* Another call with the same id is answered about that order.
Resolve(c) ==
    /\ Waiting(c) /\ c \notin taken
    /\ \E o \in TakenFor(asked[c].key) :
        IF asked[c] = asked[o] THEN Reply(c, "OK", o)
                               ELSE Reply(c, "IDEMPOTENCY_CONFLICT", None)
    /\ UNCHANGED <<asked, taken, heard>>

\* A call fails before it has made an order.
Fail(c) ==
    /\ Waiting(c) /\ c \notin taken
    /\ \E code \in {"MENU_UNAVAILABLE", "INTERNAL_ERROR"} : Reply(c, code, None)
    /\ UNCHANGED <<asked, taken, heard>>

Init ==
    /\ asked = [c \in Calls |-> None]
    /\ answer = [c \in Calls |-> Unanswered]
    /\ taken = {}
    /\ heard = <<>>

Next ==
    \E c \in Calls :
        \/ \E request \in Questions : Ask(c, request)
        \/ Take(c) \/ Announce(c) \/ Resolve(c) \/ Fail(c)

Spec == Init /\ [][Next]_intakeVars
=============================================================================
