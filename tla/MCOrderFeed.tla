---------------------------- MODULE MCOrderFeed -----------------------------
(* A small instance of OrderFeed for TLC.                                   *)
EXTENDS OrderFeed

AllFaults == {"abort", "ackLost", "crash", "drop"}
=============================================================================
