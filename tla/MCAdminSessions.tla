-------------------------- MODULE MCAdminSessions --------------------------
(* A small instance of AdminSessions for TLC.                              *)
EXTENDS AdminSessions, TLC

CONSTANTS b1, b2, c1, c2, c3

AllFaults == {"lost", "crash"}

MCBrowser == c1 :> b1 @@ c2 :> b1 @@ c3 :> b2
=============================================================================
