-------------------------- MODULE MCConnectionPool --------------------------
(* A small instance of ConnectionPool for TLC.                              *)
EXTENDS ConnectionPool

AllFaults == {"abort", "break", "timeout"}

\* create() and refund() with their lookups; listForAdmin.
Creates == <<"query", "transaction", "query">>
Lists   == <<"query", "query">>
TwoPrograms == {Creates, Lists}

\* Not set; one or two connections; too few and too many.
Settings == {None, 0, 1, 2, 3}
=============================================================================
