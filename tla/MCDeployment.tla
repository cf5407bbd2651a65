---------------------------- MODULE MCDeployment ----------------------------
(* A small instance of Deployment for TLC.                                  *)
EXTENDS Deployment

\* 1 b1_006 creates order_history, 3 b2_002 and b2_005 create menus and
\* payment_settings.  The next release adds 2, like b1_007: it alters the
\* default of a column, which can be repeated, and its name comes before
\* that of a file that is already applied.
TwoReleases == <<{1, 3}, {1, 2, 3}>>
AfterFirst  == [f \in 1 .. 3 |-> IF f = 2 THEN {1} ELSE {}]
Defaults    == {2}

\* The menus of a seed are independent of each other; one is enough.
OneMenu == <<"croffle">>
=============================================================================
