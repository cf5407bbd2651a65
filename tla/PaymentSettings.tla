--------------------------- MODULE PaymentSettings ---------------------------
(***************************************************************************)
(* The account customers pay to: one row at most, that PATCH               *)
(* /admin/settings/payment registers or changes, and its audit trail.      *)
(*                                                                         *)
(* A PATCH is one transaction: SELECT ... FOR UPDATE, an upsert, and a row *)
(* in payment_settings_history if the SELECT found other values.  As long  *)
(* as there is no row the SELECT locks nothing, and several calls get as   *)
(* far as the upsert, where they wait for one another.  From the lock to   *)
(* COMMIT nobody else can see or change the row, so what a call does there *)
(* is one step.  GET changes nothing: it shows row, or answers NOT_FOUND.  *)
(***************************************************************************)

CONSTANTS
    Calls,     \* the PATCH calls
    Accounts,  \* bank, number and holder together: what two bodies differ in
    Absent,
    Faults     \* which faults occur: "abort", "ackLost", "crash"

ASSUME SettingsAssumption ==
    /\ Absent \notin Accounts
    /\ Faults \subseteq {"abort", "ackLost", "crash"}

VARIABLES
    step,     \* where each call is; at the end, what it answered
    dto,      \* its body
    current,  \* what its SELECT ... FOR UPDATE found
    row,      \* the row of payment_settings, Absent if there is none
    history   \* the rows of payment_settings_history

vars == <<step, dto, current, row, history>>

Answers == {"OK", "INTERNAL_ERROR"}
InFlight == {"begun", "unlocked", "written"}
Steps == {"idle", "lost"} \cup InFlight \cup Answers

\* Mutants: nobody waits for the row; a call that failed never lets go.
RowNotLocked == TRUE
RowNotReleased == \A d \in Calls : step[d] \notin {"written", "INTERNAL_ERROR"}

\* No transaction has the row, or its unique index entry, and may commit.
RowFree == \A d \in Calls : step[d] # "written"

Goto(c, s) == step' = [step EXCEPT ![c] = s]

Begin(c) ==
    /\ step[c] = "idle"
    /\ Goto(c, "begun")
    /\ UNCHANGED <<dto, current, row, history>>

\* findCurrentForUpdate finds no row, or none that is committed: it neither
\* waits nor locks.
FindNone(c) ==
    /\ step[c] = "begun"
    /\ row = Absent
    /\ Goto(c, "unlocked")
    /\ UNCHANGED <<dto, current, row, history>>

\* findCurrentForUpdate, then the upsert and the history row.
LockAndUpdate(c) ==
    /\ step[c] = "begun"
    /\ row # Absent /\ RowFree
    /\ current' = [current EXCEPT ![c] = row]
    /\ Goto(c, "written")
    /\ UNCHANGED <<dto, row, history>>

\* The upsert of a call that found no row: it inserts one, or changes the
\* one that is there by now.  No history row.
Upsert(c) ==
    /\ step[c] = "unlocked"
    /\ RowFree
    /\ Goto(c, "written")
    /\ UNCHANGED <<dto, current, row, history>>

\* Mutant: if (current) is left out.
AuditUnguarded(c) ==
    IF current[c] = dto[c] THEN {} ELSE {[by |-> c, old |-> current[c], new |-> dto[c]]}

\* The history row a call writes, if any.
Audit(c) ==
    IF current[c] \in {Absent, dto[c]} THEN {}
    ELSE {[by |-> c, old |-> current[c], new |-> dto[c]]}

\* COMMIT, acknowledged or not.
CommitAs(c, answer) ==
    /\ step[c] = "written"
    /\ row' = dto[c]
    /\ history' = history \cup Audit(c)
    /\ Goto(c, answer)
    /\ UNCHANGED <<dto, current>>

Commit(c) == CommitAs(c, "OK")
CommitAckLost(c) == "ackLost" \in Faults /\ CommitAs(c, "INTERNAL_ERROR")

\* A query fails, the history row's foreign key included: ROLLBACK.
Abort(c) ==
    /\ "abort" \in Faults
    /\ step[c] \in InFlight
    /\ Goto(c, "INTERNAL_ERROR")
    /\ UNCHANGED <<dto, current, row, history>>

\* The process dies.
Crash ==
    /\ "crash" \in Faults
    /\ step' = [c \in Calls |-> IF step[c] \in InFlight THEN "lost" ELSE step[c]]
    /\ UNCHANGED <<dto, current, row, history>>

\* Every call has ended; only then may it stop.
Finished ==
    /\ \A c \in Calls : step[c] \in Answers \cup {"lost"}
    /\ UNCHANGED vars

Proceed(c) == FindNone(c) \/ LockAndUpdate(c) \/ Upsert(c) \/ Commit(c)

\* The seed may or may not have run before.
Init ==
    /\ step = [c \in Calls |-> "idle"]
    /\ dto \in [Calls -> Accounts]
    /\ current = [c \in Calls |-> Absent]
    /\ row \in Accounts \cup {Absent}
    /\ history = {}

Next ==
    \/ \E c \in Calls : Begin(c) \/ Proceed(c) \/ CommitAckLost(c) \/ Abort(c)
    \/ Crash
    \/ Finished

Spec == Init /\ [][Next]_vars

\* The process runs every call on.  The calls are finitely many, so a call
\* that waits for the row gets it in the end.
FairSpec == Spec /\ \A c \in Calls : WF_vars(Proceed(c))

----------------------------------------------------------------------------
(* Properties.                                                             *)

TypeOK ==
    /\ step \in [Calls -> Steps]
    /\ dto \in [Calls -> Accounts]
    /\ current \in [Calls -> Accounts \cup {Absent}]
    /\ row \in Accounts \cup {Absent}
    /\ history \subseteq [by : Calls, old : Accounts, new : Accounts]

(* The audit trail tells what happened: a row that is added names the      *)
(* account customers saw until that COMMIT and the one they see from it    *)
(* on, though the call read it earlier; and an account that was shown is   *)
(* replaced without a row only by a call that had found none registered,   *)
(* which the unique index makes change the row another one has inserted.   *)
AuditTrue ==
    [][/\ \A h \in history' \ history : h.old = row /\ h.new = row' /\ row' # row
       /\ row # Absent /\ row' # row /\ history' = history =>
            \E c \in Calls : step[c] = "written" /\ step'[c] \in Answers /\ current[c] = Absent]_vars

(* Every call ends, those that wait for the first registration as well as  *)
(* those that wait for the row: with an answer, or with the process.       *)
EveryCallEnds ==
    \A c \in Calls : step[c] \in InFlight ~> step[c] \in Answers \cup {"lost"}

----------------------------------------------------------------------------
(* What makes AuditTrue inductive.                                         *)

\* One call at a time has the row.
OneWriter == \A c, d \in Calls : step[c] = "written" /\ step[d] = "written" => c = d

\* What a call read under its lock is still so; each call audits once.
ReadStillTrue ==
    \A c \in Calls :
        /\ step[c] \in {"idle", "begun", "unlocked"} => current[c] = Absent
        /\ step[c] = "written" => current[c] \in {Absent, row}
        /\ step[c] \in InFlight \cup {"idle"} => \A h \in history : h.by # c

IInv == TypeOK /\ OneWriter /\ ReadStillTrue
=============================================================================
