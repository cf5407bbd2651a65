------------------------- MODULE MCPaymentSettings -------------------------
(* A small instance of PaymentSettings for TLC.                            *)
EXTENDS PaymentSettings

AllFaults == {"abort", "ackLost", "crash"}
=============================================================================
