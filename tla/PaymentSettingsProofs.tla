----------------------- MODULE PaymentSettingsProofs -----------------------
(***************************************************************************)
(* Proofs about PaymentSettings, for any calls, accounts and faults.       *)
(***************************************************************************)
EXTENDS PaymentSettings, TLAPS

USE SettingsAssumption

(* A call that does not commit leaves the row and its history alone; what  *)
(* it read under its lock is what is there.                                *)
LEMMA QuietStep ==
    ASSUME IInv, NEW c \in Calls,
           Begin(c) \/ FindNone(c) \/ LockAndUpdate(c) \/ Upsert(c) \/ Abort(c)
    PROVE  IInv'
  <1>0. TypeOK /\ OneWriter /\ ReadStillTrue
    BY DEF IInv
  <1>1. TypeOK'
    BY <1>0 DEF TypeOK, Begin, FindNone, LockAndUpdate, Upsert, Abort, Goto, Steps, InFlight, Answers
  <1>2. OneWriter'
    BY <1>0 DEF TypeOK, OneWriter, Begin, FindNone, LockAndUpdate, Upsert, Abort, Goto, RowFree
  <1>3. ReadStillTrue'
    BY <1>0 DEF TypeOK, ReadStillTrue, Begin, FindNone, LockAndUpdate, Upsert, Abort, Goto, InFlight
  <1> QED
    BY <1>1, <1>2, <1>3 DEF IInv

(* At COMMIT no other call has the row, so none has read what is replaced. *)
LEMMA CommitStep ==
    ASSUME IInv, NEW c \in Calls, Commit(c) \/ CommitAckLost(c)
    PROVE  IInv'
  <1>0. TypeOK /\ OneWriter /\ ReadStillTrue
    BY DEF IInv
  <1>1. PICK answer \in Answers : CommitAs(c, answer)
    BY DEF Commit, CommitAckLost, Answers
  <1>2. /\ step[c] = "written" /\ row' = dto[c]
        /\ step' = [step EXCEPT ![c] = answer]
        /\ dto' = dto /\ current' = current
        /\ history' = history \cup Audit(c)
        /\ answer \notin InFlight \cup {"idle"}
    BY <1>1 DEF CommitAs, Goto, Answers, InFlight
  <1>3. \A h \in Audit(c) : h.by = c /\ h \in [by : Calls, old : Accounts, new : Accounts]
    BY <1>0, <1>2 DEF TypeOK, Audit
  <1>4. TypeOK'
    BY <1>0, <1>2, <1>3 DEF TypeOK, Steps
  <1>5. OneWriter'
    BY <1>0, <1>2 DEF TypeOK, OneWriter, InFlight
  <1>6. ReadStillTrue'
    <2> SUFFICES ASSUME NEW d \in Calls
                 PROVE  /\ step'[d] \in {"idle", "begun", "unlocked"} => current[d] = Absent
                        /\ step'[d] = "written" => current[d] \in {Absent, row'}
                        /\ step'[d] \in InFlight \cup {"idle"} => \A h \in history' : h.by # d
      BY <1>2 DEF ReadStillTrue
    <2>1. CASE d = c
      BY <1>0, <1>2, <2>1 DEF TypeOK, InFlight
    <2>2. CASE d # c
      <3>1. step'[d] = step[d] /\ step[d] # "written"
        BY <1>0, <1>2, <2>2 DEF TypeOK, OneWriter
      <3> QED
        BY <1>0, <1>2, <1>3, <2>2, <3>1 DEF ReadStillTrue
    <2> QED
      BY <2>1, <2>2
  <1> QED
    BY <1>4, <1>5, <1>6 DEF IInv

(* Every step preserves the invariant.                                     *)
LEMMA InvStep ==
    ASSUME IInv, [Next]_vars
    PROVE  IInv'
  <1>1. CASE Crash
    <2>0. TypeOK /\ OneWriter /\ ReadStillTrue
      BY DEF IInv
    <2>1. TypeOK' /\ OneWriter'
      BY <1>1, <2>0 DEF Crash, TypeOK, OneWriter, Steps, InFlight
    <2>2. ReadStillTrue'
      BY <1>1, <2>0 DEF Crash, TypeOK, ReadStillTrue, InFlight
    <2> QED
      BY <2>1, <2>2 DEF IInv
  <1>2. CASE Finished \/ UNCHANGED vars
    BY <1>2 DEF Finished, vars, IInv, TypeOK, OneWriter, ReadStillTrue
  <1> QED
    BY <1>1, <1>2, QuietStep, CommitStep DEF Next, Proceed

(* The invariant holds in every reachable state.                           *)
THEOREM Invariance == Spec => []IInv
  <1>1. Init => IInv
    BY DEF Init, IInv, TypeOK, OneWriter, ReadStillTrue, Steps
  <1>2. IInv /\ [Next]_vars => IInv'
    BY InvStep
  <1> QED
    BY <1>1, <1>2, PTL DEF Spec

(* Every variable keeps its type; an audit row always has an account it    *)
(* replaces.                                                               *)
THEOREM TypeCorrect == Spec => []TypeOK
  <1>1. IInv => TypeOK
    BY DEF IInv
  <1> QED
    BY <1>1, Invariance, PTL

(* The audit trail tells what happened, for any number of calls: nothing   *)
(* is replaced silently but by a call that found none registered.          *)
THEOREM AuditCorrect == Spec => AuditTrue
  <1> DEFINE A == /\ \A h \in history' \ history : h.old = row /\ h.new = row' /\ row' # row
                  /\ row # Absent /\ row' # row /\ history' = history =>
                        \E c \in Calls : step[c] = "written" /\ step'[c] \in Answers /\ current[c] = Absent
  <1>1. IInv /\ [Next]_vars => [A]_vars
    <2> SUFFICES ASSUME IInv, [Next]_vars
                 PROVE  A
      OBVIOUS
    <2>1. ASSUME NEW c \in Calls, NEW answer \in Answers, CommitAs(c, answer)
          PROVE  A
      <3>1. /\ step[c] = "written" /\ row' = dto[c] /\ history' = history \cup Audit(c)
            /\ step'[c] \in Answers
            /\ current[c] \in {Absent, row}
            /\ \A h \in history : h.by # c
        BY <2>1 DEF CommitAs, Goto, IInv, TypeOK, ReadStillTrue, InFlight
      <3>2. \A h \in Audit(c) : h.old = row /\ h.new = row' /\ row' # row
        BY <3>1 DEF Audit
      <3>3. current[c] # Absent /\ row' # row => \E h \in Audit(c) : h.by = c
        BY <3>1 DEF Audit
      <3> QED
        BY <3>1, <3>2, <3>3
    <2>2. (\E c \in Calls : Begin(c) \/ FindNone(c) \/ LockAndUpdate(c) \/ Upsert(c) \/ Abort(c))
              \/ Crash \/ Finished \/ UNCHANGED vars
          => UNCHANGED <<row, history>>
      BY DEF Begin, FindNone, LockAndUpdate, Upsert, Abort, Crash, Finished, vars
    <2> QED
      BY <2>1, <2>2 DEF Next, Proceed, Commit, CommitAckLost, Answers
  <1> QED
    BY <1>1, Invariance, PTL DEF Spec, AuditTrue
=============================================================================
