------------------------ MODULE OrderLifecycleProofs ------------------------
(***************************************************************************)
(* Proofs about OrderLifecycle, for any orders, calls, request ids and     *)
(* faults, and with no bound but MaxTicks, whose value does not matter.    *)
(***************************************************************************)
EXTENDS OrderLifecycle, TLAPS

USE OrderLifecycleAssumption

Statuses == OrderStatus \cup {Absent}

----------------------------------------------------------------------------
(* Type correctness.                                                       *)

(* An operation on statuses gives an order a status.                       *)
LEMMA NewStatusType ==
    ASSUME NEW op \in StatusOps
    PROVE  NewStatus(op) \in OrderStatus
  BY DEF StatusOps, NewStatus, OrderStatus, REFUNDABLE_STATUSES

(* A call's answer, and the end of its transaction, keep the types of what *)
(* belongs to the call.                                                    *)
LEMMA AnswerType ==
    ASSUME TypeOK, NEW c \in Calls, NEW code \in Steps, Answer(c, code)
    PROVE  /\ step' \in [Calls -> Steps]
           /\ req' \in [Calls -> [op : Ops, order : OrderIds \cup {Absent},
                                  key : RefundKeys \cup {Absent}]]
           /\ tx' \in [Calls -> [now : Nat, status : Statuses, at : Nat]]
  <1>1. NoReq \in [op : Ops, order : OrderIds \cup {Absent}, key : RefundKeys \cup {Absent}]
    BY DEF NoReq, Ops, StatusOps
  <1>2. NoTx \in [now : Nat, status : Statuses, at : Nat]
    BY DEF NoTx, Statuses
  <1> QED
    BY <1>1, <1>2 DEF TypeOK, Answer, EndTx, Goto, Statuses

(* COMMIT keeps the types of the rows.                                     *)
LEMMA CommitRowsType ==
    ASSUME IInv, NEW c \in Calls, step[c] = "written", CommitRows(c)
    PROVE  /\ status' \in [Orders -> OrderStatus]
           /\ confirmedAt' \in [Orders -> Nat \cup {Absent}]
           /\ refunds' \subseteq Refund
           /\ history' \in [Orders -> SUBSET Row]
  <1> DEFINE o == req[c].order
  <1>0. /\ TypeOK
        /\ o \in Orders
        /\ req[c].op \in Ops /\ tx[c].now \in Nat /\ tx[c].at \in Nat
        /\ tx[c].status \in OrderStatus
    BY DEF IInv, TypeOK, ReadStillTrue, Holding
  <1>1. CASE req[c].op = "refund"
    <2>1. HistoryRow(c) \in Row
      BY <1>0, <1>1 DEF HistoryRow, Row
    <2>2. [order |-> o, key |-> req[c].key, processedAt |-> tx[c].now] \in Refund
      BY <1>0, <1>1 DEF IInv, RefundSteps, Refund
    <2> QED
      BY <1>0, <1>1, <2>1, <2>2 DEF CommitRows, RefundRow, TypeOK
  <1>2. CASE req[c].op # "refund"
    <2>1. req[c].op \in StatusOps
      BY <1>0, <1>2 DEF Ops
    <2>2. NewStatus(req[c].op) \in OrderStatus
      BY <2>1, NewStatusType
    <2>3. HistoryRow(c) \in Row
      BY <1>0, <1>2, <2>2 DEF HistoryRow, Row
    <2>4. ConfirmedNow(c) \in Nat \cup {Absent}
      BY <1>0 DEF ConfirmedNow, TypeOK
    <2>5. /\ status' = [status EXCEPT ![o] = NewStatus(req[c].op)]
          /\ confirmedAt' = [confirmedAt EXCEPT ![o] = ConfirmedNow(c)]
          /\ refunds' = refunds
          /\ history' = [history EXCEPT ![o] = @ \cup {HistoryRow(c)}]
      BY <1>2 DEF CommitRows
    <2>6. status' \in [Orders -> OrderStatus] /\ confirmedAt' \in [Orders -> Nat \cup {Absent}]
      BY <1>0, <2>2, <2>4, <2>5 DEF TypeOK
    <2>7. history[o] \cup {HistoryRow(c)} \in SUBSET Row
      BY <1>0, <2>3 DEF TypeOK
    <2>8. history' \in [Orders -> SUBSET Row]
      BY <1>0, <2>5, <2>7 DEF TypeOK
    <2> QED
      BY <1>0, <2>5, <2>6, <2>8 DEF TypeOK
  <1> QED
    BY <1>1, <1>2

(* Every step keeps the types.  COMMIT needs the invariant: the row that   *)
(* is updated is one that was locked.                                      *)
LEMMA TypeStep ==
    ASSUME IInv, [Next]_vars
    PROVE  TypeOK'
  <1>0. TypeOK
    BY DEF IInv
  <1> DEFINE Reqs == [op : Ops, order : OrderIds \cup {Absent}, key : RefundKeys \cup {Absent}]
             Txs  == [now : Nat, status : Statuses, at : Nat]
             Types == /\ step' \in [Calls -> Steps]
                      /\ req' \in [Calls -> Reqs]
                      /\ tx' \in [Calls -> Txs]
  <1>1. SUFFICES ASSUME Types,
                        clock' \in Nat,
                        UnchangedRows \/ TypeOK'
                 PROVE  TypeOK'
    <2> SUFFICES Types /\ clock' \in Nat /\ (UnchangedRows \/ TypeOK')
      OBVIOUS
    <2>a. \A c \in Calls, code \in Steps : Answer(c, code) => Types
      BY <1>0, AnswerType
    <2>b. \A c \in Calls, s \in Steps : EndTx(c, s) /\ UNCHANGED req => Types
      <3>1. NoTx \in Txs
        BY DEF NoTx, Statuses
      <3> QED
        BY <1>0, <3>1 DEF EndTx, Goto, TypeOK, Statuses
    <2>c. \A c \in Calls, code \in Answers : Refuse(c, code)
                => Types /\ clock' \in Nat /\ UnchangedRows
      BY <1>0, <2>a DEF Refuse, Steps, TypeOK
    <2>d. \A c \in Calls, s \in InFlight : Rollback(c, s)
                => Types /\ clock' \in Nat /\ UnchangedRows
      BY <1>0, <2>b DEF Rollback, Steps, TypeOK
    <2>e. \A c \in Calls, f \in refunds : Resolved(c, f) \in Answers /\ ResolvedByKey(c, f) \in Answers
      BY DEF Resolved, ResolvedByKey, Answers
    <2>1. ASSUME NEW c \in Calls, ArriveSome(c)
          PROVE  Types /\ clock' \in Nat /\ UnchangedRows
      <3>1. PICK op \in Ops, o \in OrderIds, k \in RefundKeys \cup {Absent} : Arrive(c, op, o, k)
        BY <2>1 DEF ArriveSome, Ops
      <3>2. req' \in [Calls -> Reqs]
        BY <1>0, <3>1 DEF Arrive, TypeOK
      <3>3. CASE op = "refund"
        BY <1>0, <3>1, <3>2, <3>3 DEF Arrive, Goto, TypeOK, Steps, InFlight, Statuses
      <3>4. CASE op # "refund"
        <4>1. Begin(c) /\ UnchangedRows /\ clock' = clock
          BY <3>1, <3>4 DEF Arrive
        <4>2. step' \in [Calls -> Steps]
          BY <1>0, <4>1 DEF Begin, Goto, TypeOK, Steps, InFlight
        <4>3. tx' \in [Calls -> Txs]
          BY <1>0, <4>1 DEF Begin, TypeOK, Statuses
        <4> QED
          BY <1>0, <3>2, <4>1, <4>2, <4>3 DEF TypeOK
      <3> QED
        BY <3>3, <3>4
    <2>2. ASSUME NEW c \in Calls, TakeLock(c)
          PROVE  Types /\ clock' \in Nat /\ UnchangedRows
      <3>1. CASE OrderStateConflict(c)
        BY <2>c, <3>1 DEF OrderStateConflict, Answers
      <3>2. CASE WriteStatus(c)
        BY <1>0, <3>2 DEF WriteStatus, LockOrder, OccurredAt, Goto, TypeOK, Steps, InFlight, Holding, Statuses
      <3>3. CASE LockForRefund(c)
        BY <1>0, <3>3 DEF LockForRefund, LockOrder, Goto, TypeOK, Steps, InFlight, Holding, Statuses
      <3> QED
        BY <2>2, <3>1, <3>2, <3>3 DEF TakeLock
    <2>3. ASSUME NEW c \in Calls, Insert(c)
          PROVE  Types /\ clock' \in Nat /\ UnchangedRows
      <3>1. CASE InsertRefund(c)
        BY <1>0, <3>1 DEF InsertRefund, WriteRefund, UnchangedRows, Goto, TypeOK, Steps, InFlight,
                          Holding, Statuses
      <3>2. CASE RefundOrderTaken(c) \/ RefundKeyTaken(c)
        BY <2>d, <3>2 DEF RefundOrderTaken, RefundKeyTaken, InFlight
      <3> QED
        BY <2>3, <3>1, <3>2 DEF Insert
    <2>4. ASSUME NEW c \in Calls, Proceed(c), ~Commit(c)
          PROVE  Types /\ clock' \in Nat /\ UnchangedRows
      <3>1. CASE LookupRefund(c)
        <4>1. CASE Begin(c) /\ UNCHANGED req
          BY <1>0, <3>1, <4>1 DEF LookupRefund, Begin, Goto, TypeOK, Steps, InFlight, Statuses
        <4>2. CASE \E f \in RefundOf(req[c].order) : Answer(c, Resolved(c, f))
          BY <1>0, <2>a, <2>e, <3>1, <4>2 DEF LookupRefund, RefundOf, TypeOK, Steps
        <4> QED
          BY <3>1, <4>1, <4>2 DEF LookupRefund
      <3>2. CASE OrderNotFound(c)
        BY <2>c, <3>2 DEF OrderNotFound, Answers
      <3>3. CASE ResolveOrderRace(c)
        BY <1>0, <2>a, <2>e, <3>3 DEF ResolveOrderRace, RefundOf, TypeOK, Steps, Answers
      <3>4. CASE ResolveKeyRace(c)
        BY <1>0, <2>a, <2>e, <3>4 DEF ResolveKeyRace, RefundBy, TypeOK, Steps, Answers
      <3>5. CASE Return(c)
        BY <1>0, <2>a, <3>5 DEF Return, TypeOK, Steps, Answers
      <3>6. CASE RecordRefund(c)
        BY <1>0, <3>6 DEF RecordRefund, OccurredAt, Goto, TypeOK, Steps, InFlight, Holding, Statuses
      <3> QED
        BY <2>4, <3>1, <3>2, <3>3, <3>4, <3>5, <3>6 DEF Proceed
    <2>5. ASSUME NEW c \in Calls, Commit(c) \/ CommitAckLost(c)
          PROVE  Types /\ clock' \in Nat /\ TypeOK'
      <3>1. Types /\ clock' \in Nat
        BY <1>0, <2>a, <2>b, <2>5 DEF Commit, CommitAckLost, TypeOK, Steps, InFlight, Answers
      <3>2. step[c] = "written" /\ CommitRows(c)
        BY <2>5 DEF Commit, CommitAckLost
      <3> QED
        BY <3>1, <3>2, CommitRowsType DEF TypeOK, Statuses
    <2>6. ASSUME NEW c \in Calls, Abort(c)
          PROVE  Types /\ clock' \in Nat /\ UnchangedRows
      BY <2>c, <2>6 DEF Abort, Answers
    <2>7. CASE Crash
      <3>1. NoReq \in Reqs /\ NoTx \in Txs
        BY DEF NoReq, NoTx, Ops, StatusOps, Statuses
      <3> QED
        BY <1>0, <2>7, <3>1 DEF Crash, TypeOK, Steps
    <2>8. CASE Finished \/ UNCHANGED vars
      BY <1>0, <2>8 DEF Finished, vars, UnchangedRows, TypeOK, Statuses
    <2> QED
      BY <2>1, <2>2, <2>3, <2>4, <2>5, <2>6, <2>7, <2>8 DEF Next
  <1> QED
    BY <1>0, <1>1 DEF TypeOK, UnchangedRows, Statuses

----------------------------------------------------------------------------
(* The inductive invariant: steps that commit nothing.                     *)

(* What is said of the rows alone holds while they do not change.          *)
LEMMA RowsKept ==
    ASSUME IInv, UnchangedRows, clock' \in Nat, clock' >= clock
    PROVE  HistoryInThePast' /\ ConfirmedIsPaid' /\ HistoryTellsStatus' /\ RefundsSound'
  <1>1. HistoryInThePast'
    <2> SUFFICES ASSUME NEW o \in Orders, NEW h \in history[o]
                 PROVE  h.at <= clock'
      BY DEF HistoryInThePast, UnchangedRows
    <2>1. h.at \in Nat /\ clock \in Nat /\ h.at <= clock
      BY DEF IInv, TypeOK, Row, HistoryInThePast
    <2> QED
      BY <2>1
  <1>2. ConfirmedIsPaid' /\ HistoryTellsStatus' /\ RefundsSound'
    BY DEF IInv, UnchangedRows, ConfirmedIsPaid, HistoryTellsStatus, RefundsSound,
           StatusRows, NextRow, RefundOf
  <1> QED
    BY <1>1, <1>2

(* A step in which every call stays as it is, or is left without a lock,   *)
(* preserves the invariant: the answers, arrivals, lookups and crashes.    *)
LEMMA QuietStep ==
    ASSUME IInv, TypeOK', UnchangedRows, clock' = clock,
           \A d \in Calls :
              \/ step'[d] = step[d] /\ req'[d] = req[d] /\ tx'[d] = tx[d]
              \/ /\ step'[d] \notin Holding
                 /\ req'[d].op = "refund" => req'[d].key \in RefundKeys
                 /\ step'[d] \in {"lookup", "orderRace", "keyRace"} => req'[d].op = "refund"
    PROVE  IInv'
  <1>1. HistoryInThePast' /\ ConfirmedIsPaid' /\ HistoryTellsStatus' /\ RefundsSound'
    <2>1. clock' \in Nat /\ clock' >= clock
      BY DEF IInv, TypeOK
    <2> QED
      BY <2>1, RowsKept
  <1>2. \A d \in Calls : step'[d] \in Holding =>
            step'[d] = step[d] /\ req'[d] = req[d] /\ tx'[d] = tx[d]
    OBVIOUS
  <1>3. RowLockExclusive' /\ RefundSteps'
    <2>1. RowLockExclusive'
      BY <1>2 DEF IInv, RowLockExclusive
    <2>2. RefundSteps'
      BY DEF IInv, RefundSteps, Holding
    <2> QED
      BY <2>1, <2>2
  <1>4. ReadStillTrue'
    BY <1>2 DEF IInv, ReadStillTrue, UnchangedRows, OpenStatuses
  <1>5. \A d \in Calls : step'[d] \in Inserted \/ step'[d] = "written" =>
            step'[d] = step[d] /\ req'[d] = req[d] /\ tx'[d] = tx[d]
    BY <1>2 DEF Holding, Inserted
  <1>6. WrittenIsLatest'
    BY <1>5 DEF IInv, WrittenIsLatest, UnchangedRows
  <1>7. WrittenIsUnique'
    BY <1>5 DEF IInv, WrittenIsUnique, UnchangedRows, RefundOf, RefundBy
  <1> QED
    BY <1>1, <1>3, <1>4, <1>6, <1>7 DEF IInv

\* Only c moves.
OthersKept(c) ==
    \A d \in Calls \ {c} : step'[d] = step[d] /\ req'[d] = req[d] /\ tx'[d] = tx[d]

(* A call that locks its order, and a call that goes on to write, keep the *)
(* invariant.                                                              *)
LEMMA LockStep ==
    ASSUME IInv, TypeOK', NEW c \in Calls, WriteStatus(c) \/ LockForRefund(c)
    PROVE  IInv'
  <1> DEFINE o == req[c].order
  <1>0. /\ TypeOK /\ clock \in Nat /\ o \in Orders
        /\ OthersKept(c) /\ req' = req
        /\ UnchangedRows
        /\ status[o] \in OpenStatuses(req[c].op)
        /\ RowFree(o)
    BY DEF IInv, TypeOK, WriteStatus, LockForRefund, LockOrder, Goto, OthersKept
  <1>1. clock' \in Nat /\ clock' >= clock
    BY <1>0 DEF WriteStatus, LockForRefund
  <1>2. HistoryInThePast' /\ ConfirmedIsPaid' /\ HistoryTellsStatus' /\ RefundsSound'
    BY <1>0, <1>1, RowsKept
  <1>3. /\ step'[c] \in Holding /\ tx'[c].status = status[o]
        /\ step'[c] = "insertRefund" => req[c].op = "refund"
        /\ step'[c] # "recordRefund"
        /\ step'[c] = "written" => req[c].op # "refund" /\ tx'[c].at = clock + 1 /\ clock' = clock + 1
        /\ step'[c] \notin {"lookup", "orderRace", "keyRace"}
    <2>1. CASE WriteStatus(c)
      BY <2>1, <1>0 DEF WriteStatus, LockOrder, Goto, OccurredAt, TypeOK, Holding, StatusOps
    <2>2. CASE LockForRefund(c)
      BY <2>2, <1>0 DEF LockForRefund, LockOrder, Goto, TypeOK, Holding
    <2> QED
      BY <2>1, <2>2
  <1>4. RowLockExclusive'
    BY <1>0 DEF IInv, RowLockExclusive, RowFree, OthersKept
  <1>5. RefundSteps'
    BY <1>0, <1>3 DEF IInv, RefundSteps, OthersKept
  <1>6. ReadStillTrue'
    <2>1. status' = status
      BY <1>0 DEF UnchangedRows
    <2>2. ASSUME NEW d \in Calls \ {c}, step'[d] \in Holding
          PROVE  /\ req'[d].order \in Orders
                 /\ tx'[d].status = status'[req'[d].order]
                 /\ tx'[d].status \in OpenStatuses(req'[d].op)
      BY <1>0, <2>1, <2>2 DEF IInv, ReadStillTrue, OthersKept
    <2>3. /\ req'[c].order \in Orders
          /\ tx'[c].status = status'[req'[c].order]
          /\ tx'[c].status \in OpenStatuses(req'[c].op)
      BY <1>0, <1>3, <2>1
    <2> QED
      BY <2>2, <2>3 DEF ReadStillTrue
  <1>7. WrittenIsLatest'
    <2> SUFFICES ASSUME NEW d \in Calls, step'[d] = "written"
                 PROVE  /\ tx'[d].at <= clock'
                        /\ \A h \in history[req[d].order] : h.at < tx'[d].at
      BY <1>0 DEF WrittenIsLatest, UnchangedRows
    <2>1. CASE d = c
      <3>1. \A h \in history[o] : h.at \in Nat /\ h.at <= clock
        BY <1>0 DEF IInv, TypeOK, Row, HistoryInThePast
      <3> QED
        BY <1>0, <1>3, <2>1, <3>1
    <2>2. CASE d # c
      <3>1. step[d] = "written" /\ tx'[d] = tx[d]
        BY <1>0, <2>2 DEF OthersKept
      <3>2. tx[d].at \in Nat /\ tx[d].at <= clock
        BY <1>0, <3>1 DEF IInv, TypeOK, WrittenIsLatest
      <3> QED
        BY <1>0, <1>1, <3>1, <3>2 DEF IInv, WrittenIsLatest
    <2> QED
      BY <2>1, <2>2
  <1>8. WrittenIsUnique'
    <2>1. \A d \in Calls : step'[d] \in Inserted /\ req[d].op = "refund" => step[d] \in Inserted
      BY <1>0, <1>3 DEF OthersKept, Inserted
    <2> QED
      BY <1>0, <2>1 DEF IInv, WrittenIsUnique, UnchangedRows, RefundOf, RefundBy
  <1> QED
    BY <1>2, <1>4, <1>5, <1>6, <1>7, <1>8 DEF IInv

(* A call that inserts its refund keeps the invariant: no other refund has *)
(* the order or the request id.                                            *)
LEMMA InsertRefundStep ==
    ASSUME IInv, TypeOK', NEW c \in Calls, InsertRefund(c)
    PROVE  IInv'
  <1>0. /\ TypeOK /\ clock \in Nat /\ clock' = clock
        /\ OthersKept(c) /\ req' = req /\ tx' = tx /\ UnchangedRows
        /\ step[c] = "insertRefund" /\ step'[c] = "recordRefund"
        /\ RefundOf(req[c].order) = {} /\ RefundBy(req[c].key) = {} /\ PendingTwins(c) = {}
    BY DEF IInv, TypeOK, InsertRefund, WriteRefund, UnchangedRows, Goto, OthersKept
  <1>1. HistoryInThePast' /\ ConfirmedIsPaid' /\ HistoryTellsStatus' /\ RefundsSound'
    BY <1>0, RowsKept
  <1>2. \A d \in Calls : step'[d] \in Holding => step[d] \in Holding
    BY <1>0 DEF OthersKept, Holding
  <1>3. RowLockExclusive'
    BY <1>0, <1>2 DEF IInv, RowLockExclusive
  <1>4. RefundSteps'
    BY <1>0 DEF IInv, RefundSteps, OthersKept
  <1>5. ReadStillTrue'
    BY <1>0, <1>2 DEF IInv, ReadStillTrue, UnchangedRows, OpenStatuses
  <1>6. WrittenIsLatest'
    <2>1. \A d \in Calls : step'[d] = "written" => step[d] = "written"
      BY <1>0 DEF OthersKept
    <2> QED
      BY <1>0, <2>1 DEF IInv, WrittenIsLatest, UnchangedRows
  <1>7. WrittenIsUnique'
    <2>1. \A d \in Calls \ {c} : ~(step[d] \in Inserted /\ req[d].op = "refund" /\ req[d].key = req[c].key)
      BY <1>0 DEF PendingTwins
    <2>2. \A d \in Calls \ {c} : step'[d] = step[d]
      BY <1>0 DEF OthersKept
    <2> QED
      BY <1>0, <2>1, <2>2 DEF IInv, WrittenIsUnique, UnchangedRows, RefundOf, RefundBy
  <1> QED
    BY <1>1, <1>3, <1>4, <1>5, <1>6, <1>7 DEF IInv

(* So does a refund that goes on to its history row: that row is the last. *)
LEMMA RecordRefundStep ==
    ASSUME IInv, TypeOK', NEW c \in Calls, RecordRefund(c)
    PROVE  IInv'
  <1> DEFINE o == req[c].order
  <1>0. /\ TypeOK /\ clock \in Nat
        /\ OthersKept(c) /\ req' = req /\ UnchangedRows
        /\ step[c] = "recordRefund" /\ step'[c] = "written"
        /\ tx'[c].at = clock + 1 /\ tx'[c].status = tx[c].status
        /\ clock' = clock + 1
    BY DEF IInv, TypeOK, RecordRefund, Goto, OthersKept, OccurredAt
  <1>1. HistoryInThePast' /\ ConfirmedIsPaid' /\ HistoryTellsStatus' /\ RefundsSound'
    BY <1>0, RowsKept
  <1>2. \A d \in Calls : step'[d] \in Holding => step[d] \in Holding /\ tx'[d].status = tx[d].status
    BY <1>0 DEF OthersKept, Holding
  <1>3. RowLockExclusive'
    BY <1>0, <1>2 DEF IInv, RowLockExclusive
  <1>4. RefundSteps'
    BY <1>0 DEF IInv, RefundSteps, OthersKept
  <1>5. ReadStillTrue'
    BY <1>0, <1>2 DEF IInv, ReadStillTrue, UnchangedRows, OpenStatuses
  <1>6. o \in Orders
    BY <1>0 DEF IInv, ReadStillTrue, Holding
  <1>7. WrittenIsLatest'
    <2> SUFFICES ASSUME NEW d \in Calls, step'[d] = "written"
                 PROVE  /\ tx'[d].at <= clock'
                        /\ \A h \in history[req[d].order] : h.at < tx'[d].at
      BY <1>0 DEF WrittenIsLatest, UnchangedRows
    <2>1. CASE d = c
      <3>1. \A h \in history[o] : h.at \in Nat /\ h.at <= clock
        BY <1>0, <1>6 DEF IInv, TypeOK, Row, HistoryInThePast
      <3> QED
        BY <1>0, <2>1, <3>1
    <2>2. CASE d # c
      <3>1. step[d] = "written" /\ tx'[d] = tx[d]
        BY <1>0, <2>2 DEF OthersKept
      <3>2. tx[d].at \in Nat /\ tx[d].at <= clock
        BY <1>0, <3>1 DEF IInv, TypeOK, WrittenIsLatest
      <3> QED
        BY <1>0, <3>1, <3>2 DEF IInv, WrittenIsLatest
    <2> QED
      BY <2>1, <2>2
  <1>8. WrittenIsUnique'
    <2>1. \A d \in Calls : step'[d] \in Inserted => step[d] \in Inserted
      BY <1>0 DEF OthersKept, Inserted
    <2> QED
      BY <1>0, <2>1 DEF IInv, WrittenIsUnique, UnchangedRows, RefundOf, RefundBy
  <1> QED
    BY <1>1, <1>3, <1>4, <1>5, <1>7, <1>8 DEF IInv

----------------------------------------------------------------------------
(* The inductive invariant: COMMIT.                                        *)

\* What is known when the transaction of c commits.
Commits(c) ==
    /\ req[c].order \in Orders /\ req[c].op \in Ops
    /\ step[c] = "written" /\ step'[c] \notin Holding \cup {"lookup", "orderRace", "keyRace"}
    /\ CommitRows(c) /\ clock' = clock
    /\ tx[c].status = status[req[c].order]
    /\ tx[c].status \in OpenStatuses(req[c].op)
    /\ OthersKept(c)
    /\ \A d \in Calls \ {c} : step[d] \in Holding => req[d].order # req[c].order
    /\ req'[c].op = "refund" => req'[c].key \in RefundKeys

(* It follows from the invariant, whether or not the acknowledgement       *)
(* arrives.                                                                *)
LEMMA CommitFacts ==
    ASSUME IInv, NEW c \in Calls, Commit(c) \/ CommitAckLost(c)
    PROVE  Commits(c)
  <1>1. /\ step[c] = "written" /\ CommitRows(c) /\ clock' = clock
        /\ step'[c] \in {"committed", "INTERNAL_ERROR"}
        /\ OthersKept(c)
        /\ req'[c] = req[c] \/ req'[c] = NoReq
    BY DEF IInv, TypeOK, Commit, CommitAckLost, Answer, EndTx, Goto, OthersKept
  <1>2. \A d \in Calls \ {c} : step[d] \in Holding => req[d].order # req[c].order
    BY <1>1 DEF IInv, RowLockExclusive, Holding
  <1>3. req'[c].op = "refund" => req'[c].key \in RefundKeys
    BY <1>1 DEF IInv, RefundSteps, NoReq
  <1>4. req[c].op \in Ops
    BY DEF IInv, TypeOK
  <1> QED
    BY <1>1, <1>2, <1>3, <1>4 DEF IInv, ReadStillTrue, Holding, Commits

(* The transactions still open do not notice: they hold other orders, and  *)
(* a refund among them has another request id.                             *)
LEMMA CommitKeepsOthers ==
    ASSUME IInv, TypeOK', NEW c \in Calls, Commits(c)
    PROVE  RowLockExclusive' /\ RefundSteps' /\ ReadStillTrue'
               /\ WrittenIsLatest' /\ WrittenIsUnique'
  <1> DEFINE o == req[c].order
  <1>0. TypeOK /\ OthersKept(c) /\ step'[c] \notin Holding
    BY DEF IInv, Commits
  <1>1. ASSUME NEW d \in Calls, step'[d] \in Holding
        PROVE  /\ d # c /\ step[d] = step'[d] /\ req'[d] = req[d] /\ tx'[d] = tx[d]
               /\ req[d].order \in Orders /\ req[d].order # o
    BY <1>0, <1>1 DEF OthersKept, IInv, ReadStillTrue, Commits
  <1>2. \A p \in Orders \ {o} : status'[p] = status[p] /\ history'[p] = history[p]
    BY <1>0 DEF CommitRows, TypeOK, Commits
  <1>3. RowLockExclusive'
    BY <1>1 DEF IInv, RowLockExclusive
  <1>4. RefundSteps'
    BY <1>0 DEF IInv, RefundSteps, OthersKept, Holding, Commits
  <1>5. ReadStillTrue'
    <2> SUFFICES ASSUME NEW d \in Calls, step'[d] \in Holding
                 PROVE  /\ req'[d].order \in Orders
                        /\ tx'[d].status = status'[req'[d].order]
                        /\ tx'[d].status \in OpenStatuses(req'[d].op)
      BY DEF ReadStillTrue, OpenStatuses
    <2>1. /\ d # c /\ step[d] \in Holding /\ req'[d] = req[d] /\ tx'[d] = tx[d]
          /\ req[d].order \in Orders \ {o}
      BY <1>1
    <2> QED
      BY <1>2, <2>1 DEF IInv, ReadStillTrue
  <1>6. WrittenIsLatest'
    <2> SUFFICES ASSUME NEW d \in Calls, step'[d] = "written"
                 PROVE  /\ tx'[d].at <= clock'
                        /\ \A h \in history'[req'[d].order] : h.at < tx'[d].at
      BY DEF WrittenIsLatest
    <2>1. step'[d] \in Holding
      BY DEF Holding
    <2> QED
      BY <1>1, <1>2, <2>1 DEF IInv, WrittenIsLatest, Commits
  <1>7. WrittenIsUnique'
    <2> SUFFICES ASSUME NEW d \in Calls, step'[d] \in Inserted, req'[d].op = "refund"
                 PROVE  /\ \A f \in refunds' : f.order # req'[d].order /\ f.key # req'[d].key
                        /\ \A e \in Calls : step'[e] \in Inserted /\ req'[e].op = "refund"
                                            /\ req'[e].key = req'[d].key => e = d
      BY DEF WrittenIsUnique, RefundOf, RefundBy
    <2>0. \A s \in Inserted : s \in Holding
      BY DEF Inserted, Holding
    <2>1. /\ d # c /\ step[d] \in Inserted /\ req'[d] = req[d] /\ req[d].order # o
      BY <1>1, <2>0
    <2>2. /\ RefundOf(req[d].order) = {} /\ RefundBy(req[d].key) = {}
          /\ \A e \in Calls : step[e] \in Inserted /\ req[e].op = "refund"
                                /\ req[e].key = req[d].key => e = d
      BY <2>1 DEF IInv, WrittenIsUnique
    <2>3. \A e \in Calls : step'[e] \in Inserted => step[e] \in Inserted /\ req'[e] = req[e]
      BY <1>1, <2>0
    <2>4. CASE req[c].op = "refund"
      <3>1. refunds' = refunds \cup
                {[order |-> o, key |-> req[c].key, processedAt |-> tx[c].now]}
        BY <2>4 DEF CommitRows, RefundRow, Commits
      <3>2. req[c].key # req[d].key
        BY <2>1, <2>2, <2>4 DEF Commits, Inserted
      <3> QED
        BY <2>1, <2>2, <2>3, <3>1, <3>2 DEF RefundOf, RefundBy
    <2>5. CASE req[c].op # "refund"
      <3>1. refunds' = refunds
        BY <2>5 DEF CommitRows, Commits
      <3> QED
        BY <2>1, <2>2, <2>3, <3>1 DEF RefundOf, RefundBy
    <2> QED
      BY <2>4, <2>5
  <1> QED
    BY <1>3, <1>4, <1>5, <1>6, <1>7

(* The history row that is added is the latest of its order, and, for a    *)
(* change of status, goes on from the status the order had.                *)
LEMMA CommitKeepsHistory ==
    ASSUME IInv, TypeOK', NEW c \in Calls, Commits(c)
    PROVE  HistoryTellsStatus' /\ HistoryInThePast'
  <1> PICK o, row : o = req[c].order /\ row = HistoryRow(c)
    OBVIOUS
  <1>0. /\ TypeOK /\ o \in Orders /\ clock' = clock /\ clock \in Nat
        /\ history' = [history EXCEPT ![o] = @ \cup {row}]
        /\ row.at = tx[c].at /\ row.at \in Nat /\ row.at <= clock
        /\ \A h \in history[o] : h.at \in Nat /\ h.at < row.at
    <2>1. row.at = tx[c].at
      BY DEF HistoryRow
    <2>2. /\ TypeOK /\ o \in Orders /\ clock' = clock
          /\ history' = [history EXCEPT ![o] = @ \cup {row}]
          /\ step[c] = "written"
      BY DEF IInv, CommitRows, Commits
    <2> QED
      BY <2>1, <2>2 DEF IInv, WrittenIsLatest, TypeOK, Row
  <1>1. history'[o] = history[o] \cup {row}
    BY <1>0 DEF TypeOK
  <1>2. \A p \in Orders \ {o} : history'[p] = history[p] /\ status'[p] = status[p]
    BY <1>0 DEF CommitRows, TypeOK, Commits
  <1>3. HistoryInThePast'
    BY <1>0, <1>1, <1>2 DEF IInv, HistoryInThePast
  <1>4. /\ \A g, h \in history'[o] : g.at = h.at => g = h
        /\ Created \in history'[o]
    BY <1>0, <1>1 DEF IInv, HistoryTellsStatus
  <1>5. CASE req[c].op = "refund"
    <2>1. StatusRows(o)' = StatusRows(o) /\ status' = status
      BY <1>1, <1>5 DEF StatusRows, HistoryRow, CommitRows, Commits
    <2>2. \A p \in Orders : StatusRows(p)' = StatusRows(p)
      BY <1>2, <2>1 DEF StatusRows
    <2> QED
      BY <1>2, <1>3, <1>4, <2>1, <2>2 DEF IInv, HistoryTellsStatus, NextRow
  <1>6. CASE req[c].op # "refund"
    <2>1. /\ status'[o] = NewStatus(req[c].op) /\ row.to = status'[o]
          /\ row.from = status[o] /\ row.to # Absent
      <3>1. req[c].op \in StatusOps
        BY <1>6 DEF Ops, Commits
      <3>2. NewStatus(req[c].op) # Absent
        BY <3>1, NewStatusType
      <3>3. /\ row.to = NewStatus(req[c].op) /\ row.from = tx[c].status
        BY <1>6 DEF HistoryRow
      <3> QED
        BY <1>0, <1>6, <3>2, <3>3 DEF CommitRows, TypeOK, Commits
    <2>2. StatusRows(o)' = StatusRows(o) \cup {row}
      BY <1>1, <2>1 DEF StatusRows
    <2>3. /\ \A g \in StatusRows(o) : g.at \in Nat /\ g.at < row.at
          /\ \A g, h \in StatusRows(o) : NextRow(o, g, h) => h.from = g.to
          /\ \A g \in StatusRows(o) :
                (\A h \in StatusRows(o) : h.at <= g.at) => g.to = status[o]
      BY <1>0 DEF IInv, HistoryTellsStatus, StatusRows
    <2>4. ASSUME NEW g \in StatusRows(o)', NEW h \in StatusRows(o)', NextRow(o, g, h)'
          PROVE  h.from = g.to
      <3>1. g.at < h.at /\ g \in StatusRows(o)
        BY <1>0, <2>2, <2>3, <2>4 DEF NextRow
      <3>2. CASE h = row
        <4>1. \A x \in StatusRows(o) : x.at <= g.at
          BY <1>0, <2>2, <2>3, <2>4, <3>1, <3>2 DEF NextRow
        <4> QED
          BY <2>1, <2>3, <3>1, <3>2, <4>1
      <3>3. CASE h # row
        <4>1. h \in StatusRows(o) /\ NextRow(o, g, h)
          BY <2>2, <2>4, <3>3 DEF NextRow
        <4> QED
          BY <2>3, <3>1, <4>1
      <3> QED
        BY <3>2, <3>3
    <2>5. ASSUME NEW g \in StatusRows(o)', \A h \in StatusRows(o)' : h.at <= g.at
          PROVE  g.to = status'[o]
      <3>1. g = row
        BY <1>0, <2>2, <2>3, <2>5
      <3> QED
        BY <2>1, <3>1
    <2>6. \A p \in Orders \ {o} : StatusRows(p)' = StatusRows(p)
      BY <1>2 DEF StatusRows
    <2>7. ASSUME NEW p \in Orders
          PROVE  /\ \A g, h \in history'[p] : g.at = h.at => g = h
                 /\ Created \in history'[p]
                 /\ \A g, h \in StatusRows(p)' : NextRow(p, g, h)' => h.from = g.to
                 /\ \A g \in StatusRows(p)' :
                        (\A h \in StatusRows(p)' : h.at <= g.at) => g.to = status'[p]
      <3>1. CASE p = o
        BY <1>4, <2>4, <2>5, <3>1
      <3>2. CASE p # o
        BY <1>2, <2>6, <3>2 DEF IInv, HistoryTellsStatus, NextRow
      <3> QED
        BY <3>1, <3>2
    <2> QED
      BY <1>3, <2>7 DEF HistoryTellsStatus
  <1> QED
    BY <1>5, <1>6

(* Only an order whose payment is confirmed is refunded, and once.         *)
LEMMA CommitKeepsMoney ==
    ASSUME IInv, TypeOK', NEW c \in Calls, Commits(c)
    PROVE  ConfirmedIsPaid' /\ RefundsSound'
  <1> PICK o, row : o = req[c].order /\ row = HistoryRow(c)
    OBVIOUS
  <1>0. /\ TypeOK /\ o \in Orders
        /\ row.action = req[c].op
        /\ history' = [history EXCEPT ![o] = @ \cup {row}]
        /\ status[o] \in OpenStatuses(req[c].op)
    BY DEF IInv, CommitRows, Commits, HistoryRow
  <1>1. /\ history'[o] = history[o] \cup {row}
        /\ \A p \in Orders \ {o} : history'[p] = history[p]
    BY <1>0 DEF TypeOK
  <1>2. /\ \A f, g \in refunds : f.order = g.order \/ f.key = g.key => f = g
        /\ \A f \in refunds : /\ f.order \in Orders
                              /\ status[f.order] \in REFUNDABLE_STATUSES
                              /\ confirmedAt[f.order] # Absent
        /\ \A p \in Orders :
            (\E f \in refunds : f.order = p) <=> \E h \in history[p] : h.action = "refund"
        /\ \A p \in Orders : confirmedAt[p] # Absent <=> status[p] \in REFUNDABLE_STATUSES
    <2>1. ConfirmedIsPaid /\ RefundsSound
      BY DEF IInv
    <2>2. \A f \in refunds : f.order \in Orders
      BY <1>0 DEF TypeOK, Refund
    <2>3. \A p \in Orders : status[p] \in OrderStatus
      BY <1>0 DEF TypeOK
    <2>4. \A f \in refunds : /\ status[f.order] \in REFUNDABLE_STATUSES
                             /\ confirmedAt[f.order] # Absent
      BY <2>1, <2>2, <2>3 DEF RefundsSound, OrderStatus
    <2> QED
      BY <2>1, <2>2, <2>4 DEF RefundsSound, RefundOf, ConfirmedIsPaid
  <1>3. CASE req[c].op = "refund"
    <2> PICK f0 : f0 = [order |-> o, key |-> req[c].key, processedAt |-> tx[c].now]
      OBVIOUS
    <2>1. /\ refunds' = refunds \cup {f0} /\ f0.order = o /\ f0.key = req[c].key
          /\ status' = status /\ confirmedAt' = confirmedAt
      BY <1>3 DEF CommitRows, RefundRow, Commits
    <2>2. \A f \in refunds : f.order # o /\ f.key # req[c].key
      <3>1. RefundOf(o) = {} /\ RefundBy(req[c].key) = {}
        BY <1>3 DEF IInv, WrittenIsUnique, Inserted, Commits
      <3> QED
        BY <3>1 DEF RefundOf, RefundBy
    <2>3. status[o] \in REFUNDABLE_STATUSES
      BY <1>0, <1>3 DEF OpenStatuses
    <2>4. \A f, g \in refunds' : f.order = g.order \/ f.key = g.key => f = g
      BY <1>2, <2>1, <2>2
    <2>5. \A f \in refunds' : /\ status'[f.order] \notin {"PAYMENT_PENDING", "CANCELLED"}
                              /\ confirmedAt'[f.order] # Absent
      BY <1>0, <1>2, <2>1, <2>3 DEF REFUNDABLE_STATUSES
    <2>6. \A p \in Orders :
            (\E f \in refunds' : f.order = p) <=> \E h \in history'[p] : h.action = "refund"
      BY <1>0, <1>1, <1>2, <1>3, <2>1
    <2> QED
      BY <1>2, <2>1, <2>4, <2>5, <2>6 DEF ConfirmedIsPaid, RefundsSound, RefundOf
  <1>4. CASE req[c].op # "refund"
    <2>1. /\ refunds' = refunds
          /\ status' = [status EXCEPT ![o] = NewStatus(req[c].op)]
          /\ confirmedAt' = [confirmedAt EXCEPT ![o] = ConfirmedNow(c)]
          /\ req[c].op \in StatusOps
      BY <1>4 DEF CommitRows, Commits, Ops
    <2>2. tx[c].now \in Nat
      BY <1>0 DEF TypeOK
    <2>3. ConfirmedNow(c) # Absent <=> NewStatus(req[c].op) \in REFUNDABLE_STATUSES
      BY <1>0, <1>2, <2>1, <2>2
         DEF ConfirmedNow, NewStatus, StatusOps, REFUNDABLE_STATUSES, OpenStatuses
    <2>4. confirmedAt[o] # Absent => NewStatus(req[c].op) \in REFUNDABLE_STATUSES
      BY <1>0, <1>2, <2>1 DEF NewStatus, StatusOps, REFUNDABLE_STATUSES, OpenStatuses
    <2>5. \A p \in Orders :
              /\ confirmedAt'[p] # Absent <=> status'[p] \in REFUNDABLE_STATUSES
              /\ confirmedAt[p] # Absent => confirmedAt'[p] # Absent
      BY <1>0, <1>2, <2>1, <2>3, <2>4 DEF TypeOK
    <2>6. \A f \in refunds' : /\ status'[f.order] \notin {"PAYMENT_PENDING", "CANCELLED"}
                              /\ confirmedAt'[f.order] # Absent
      BY <1>2, <2>1, <2>5 DEF REFUNDABLE_STATUSES
    <2>7. \A p \in Orders :
            (\E f \in refunds' : f.order = p) <=> \E h \in history'[p] : h.action = "refund"
      BY <1>0, <1>1, <1>2, <1>4, <2>1
    <2> QED
      BY <1>2, <2>1, <2>5, <2>6, <2>7 DEF ConfirmedIsPaid, RefundsSound, RefundOf
  <1> QED
    BY <1>3, <1>4

(* So COMMIT preserves the invariant, acknowledged or not.                 *)
LEMMA CommitStep ==
    ASSUME IInv, TypeOK', NEW c \in Calls, Commit(c) \/ CommitAckLost(c)
    PROVE  IInv'
  <1>1. Commits(c)
    BY CommitFacts
  <1> QED
    BY <1>1, CommitKeepsOthers, CommitKeepsHistory, CommitKeepsMoney DEF IInv

----------------------------------------------------------------------------
(* The inductive invariant.                                                *)

(* A call that is answered, rolled back, or arrives, changes nothing that  *)
(* the invariant says of the others.                                       *)
LEMMA LeavesQuietly ==
    ASSUME IInv, TypeOK', UnchangedRows, clock' = clock, NEW c \in Calls, OthersKept(c),
           step'[c] \notin Holding,
           req'[c].op = "refund" => req'[c].key \in RefundKeys,
           step'[c] \in {"lookup", "orderRace", "keyRace"} => req'[c].op = "refund"
    PROVE  IInv'
  BY QuietStep DEF OthersKept

LEMMA AnswerStep ==
    ASSUME IInv, TypeOK', UnchangedRows, clock' = clock,
           NEW c \in Calls, NEW code \in Answers, Answer(c, code)
    PROVE  IInv'
  <1>1. OthersKept(c) /\ step'[c] = code /\ req'[c] = NoReq
    BY DEF IInv, TypeOK, Answer, EndTx, Goto, OthersKept
  <1> QED
    BY <1>1, LeavesQuietly DEF Answers, Holding, NoReq

(* Every step preserves the invariant.                                     *)
LEMMA InvStep ==
    ASSUME IInv, [Next]_vars
    PROVE  IInv'
  <1>0. TypeOK /\ TypeOK'
    BY TypeStep DEF IInv
  <1>a. ASSUME NEW c \in Calls, NEW code \in Answers, Refuse(c, code)
        PROVE  IInv'
    BY <1>0, <1>a, AnswerStep DEF Refuse
  <1>b. \A c \in Calls, f \in refunds : Resolved(c, f) \in Answers /\ ResolvedByKey(c, f) \in Answers
    BY DEF Resolved, ResolvedByKey, Answers
  <1>1. ASSUME NEW c \in Calls, ArriveSome(c)
        PROVE  IInv'
    <2>1. PICK op \in Ops, o \in OrderIds, k \in RefundKeys \cup {Absent} :
              Arrive(c, op, o, k) /\ (op = "refund" => k \in RefundKeys)
      BY <1>1 DEF ArriveSome, Ops, StatusOps
    <2>2. /\ OthersKept(c) /\ UnchangedRows /\ clock' = clock
          /\ req'[c].op = op /\ req'[c].key = k
          /\ step'[c] = IF op = "refund" THEN "lookup" ELSE "begun"
      BY <1>0, <2>1 DEF Arrive, Begin, Goto, TypeOK, OthersKept
    <2> QED
      BY <1>0, <2>1, <2>2, LeavesQuietly DEF Holding
  <1>2. ASSUME NEW c \in Calls, TakeLock(c)
        PROVE  IInv'
    BY <1>0, <1>a, <1>2, LockStep DEF TakeLock, OrderStateConflict, Answers
  <1>3. ASSUME NEW c \in Calls, Insert(c)
        PROVE  IInv'
    <2>1. CASE InsertRefund(c)
      BY <1>0, <2>1, InsertRefundStep
    <2>2. CASE RefundOrderTaken(c) \/ RefundKeyTaken(c)
      <3>1. /\ OthersKept(c) /\ UnchangedRows /\ clock' = clock /\ req' = req
            /\ step'[c] \in {"orderRace", "keyRace"}
        BY <1>0, <2>2 DEF RefundOrderTaken, RefundKeyTaken, Rollback, EndTx, Goto, TypeOK, OthersKept
      <3>2. req[c].op = "refund" /\ req[c].key \in RefundKeys
        BY <2>2 DEF RefundOrderTaken, RefundKeyTaken, IInv, RefundSteps
      <3> QED
        BY <1>0, <3>1, <3>2, LeavesQuietly DEF Holding
    <2> QED
      BY <1>3, <2>1, <2>2 DEF Insert
  <1>4. ASSUME NEW c \in Calls, Proceed(c)
        PROVE  IInv'
    <2>1. CASE LookupRefund(c)
      <3>1. CASE Begin(c) /\ UNCHANGED req
        <4>1. /\ OthersKept(c) /\ UnchangedRows /\ clock' = clock /\ req' = req
              /\ step'[c] = "begun"
          BY <1>0, <2>1, <3>1 DEF LookupRefund, Begin, Goto, TypeOK, OthersKept
        <4> QED
          BY <1>0, <4>1, LeavesQuietly DEF Holding, IInv, RefundSteps
      <3>2. CASE \E f \in RefundOf(req[c].order) : Answer(c, Resolved(c, f))
        BY <1>0, <1>b, <2>1, <3>2, AnswerStep DEF LookupRefund, RefundOf
      <3> QED
        BY <2>1, <3>1, <3>2 DEF LookupRefund
    <2>2. CASE OrderNotFound(c)
      BY <1>a, <2>2 DEF OrderNotFound, Answers
    <2>3. CASE ResolveOrderRace(c)
      BY <1>0, <1>b, <2>3, AnswerStep DEF ResolveOrderRace, RefundOf, Answers
    <2>4. CASE ResolveKeyRace(c)
      BY <1>0, <1>b, <2>4, AnswerStep DEF ResolveKeyRace, RefundBy, Answers
    <2>5. CASE Commit(c)
      BY <1>0, <2>5, CommitStep
    <2>6. CASE Return(c)
      BY <1>0, <2>6, AnswerStep DEF Return, Answers
    <2>7. CASE RecordRefund(c)
      BY <1>0, <2>7, RecordRefundStep
    <2> QED
      BY <1>4, <2>1, <2>2, <2>3, <2>4, <2>5, <2>6, <2>7 DEF Proceed
  <1>5. ASSUME NEW c \in Calls, CommitAckLost(c)
        PROVE  IInv'
    BY <1>0, <1>5, CommitStep
  <1>6. ASSUME NEW c \in Calls, Abort(c)
        PROVE  IInv'
    BY <1>a, <1>6 DEF Abort, Answers
  <1>7. CASE Crash
    <2>1. \A c \in Calls : /\ step'[c] \notin Holding \cup {"lookup", "orderRace", "keyRace"}
                           /\ req'[c].op # "refund"
      BY <1>7 DEF Crash, InFlight, Holding, NoReq
    <2> QED
      BY <1>0, <1>7, <2>1, QuietStep DEF Crash
  <1>8. CASE Finished \/ UNCHANGED vars
    <2>1. UNCHANGED vars
      BY <1>8 DEF Finished
    <2> QED
      BY <1>0, <2>1, QuietStep DEF vars, UnchangedRows, IInv, RefundSteps
  <1> QED
    BY <1>1, <1>2, <1>3, <1>4, <1>5, <1>6, <1>7, <1>8 DEF Next

(* It holds of the orders as they are placed.                              *)
LEMMA InitInv ==
    ASSUME Init
    PROVE  IInv
  <1>1. TypeOK
    BY DEF Init, TypeOK, Steps, NoReq, NoTx, Ops, StatusOps, OrderStatus, Created, Row
  <1>2. HistoryTellsStatus
    <2>1. \A o \in Orders : history[o] = {Created} /\ status[o] = Created.to
      BY DEF Init, Created
    <2>2. Created.to # Absent
      BY DEF Created, OrderStatus
    <2>3. \A o \in Orders : StatusRows(o) = {Created}
      BY <2>1, <2>2 DEF StatusRows
    <2>4. \A o \in Orders : ~NextRow(o, Created, Created)
      BY DEF NextRow, Created
    <2>5. ASSUME NEW o \in Orders
          PROVE  /\ \A g, h \in history[o] : g.at = h.at => g = h
                 /\ Created \in history[o]
                 /\ \A g, h \in StatusRows(o) : NextRow(o, g, h) => h.from = g.to
                 /\ \A g \in StatusRows(o) : g.to = status[o]
      BY <2>1, <2>3, <2>4
    <2> QED
      BY <2>5 DEF HistoryTellsStatus
  <1>3. RowLockExclusive /\ RefundSteps /\ ReadStillTrue /\ WrittenIsLatest /\ WrittenIsUnique
    BY DEF Init, RowLockExclusive, RefundSteps, ReadStillTrue, WrittenIsLatest,
           WrittenIsUnique, Holding, NoReq
  <1>4. HistoryInThePast /\ ConfirmedIsPaid /\ RefundsSound
    BY DEF Init, HistoryInThePast, ConfirmedIsPaid, RefundsSound, RefundOf, Created,
           REFUNDABLE_STATUSES
  <1> QED
    BY <1>1, <1>2, <1>3, <1>4 DEF IInv

----------------------------------------------------------------------------
(* Theorems.                                                               *)

(* The invariant holds in every reachable state.                           *)
THEOREM Invariance == Spec => []IInv
  <1>1. Init => IInv
    BY InitInv
  <1>2. IInv /\ [Next]_vars => IInv'
    BY InvStep
  <1> QED
    BY <1>1, <1>2, PTL DEF Spec

(* Every variable keeps its type, for any orders, calls and faults.        *)
THEOREM TypeCorrect == Spec => []TypeOK
  <1>1. IInv => TypeOK
    BY DEF IInv
  <1> QED
    BY <1>1, Invariance, PTL

(* The history of an order, as GET .../history returns it, is a chain of   *)
(* status changes that ends in the order's status.                         *)
THEOREM HistoryCorrect == Spec => []HistoryTellsStatus
  <1>1. IInv => HistoryTellsStatus
    BY DEF IInv
  <1> QED
    BY <1>1, Invariance, PTL

(* Only paid orders are refunded, once, with a request id of their own and *)
(* a REFUNDED row in their history.                                        *)
THEOREM RefundsCorrect == Spec => []RefundsSound
  <1>1. IInv => RefundsSound
    BY DEF IInv
  <1> QED
    BY <1>1, Invariance, PTL

----------------------------------------------------------------------------
(* What a step may do to the rows.                                         *)

(* Only COMMIT changes them.                                               *)
LEMMA OnlyCommitChangesRows ==
    ASSUME IInv, [Next]_vars
    PROVE  UnchangedRows \/ \E c \in Calls : Commits(c)
  <1>1. ASSUME NEW c \in Calls,
               ArriveSome(c) \/ TakeLock(c) \/ Insert(c) \/ Abort(c)
        PROVE  UnchangedRows
    BY <1>1 DEF ArriveSome, Arrive, TakeLock, OrderStateConflict, WriteStatus, LockForRefund,
           LockOrder, Insert, InsertRefund, WriteRefund, UnchangedRows, RefundOrderTaken, RefundKeyTaken, Rollback, Abort, Refuse
  <1>2. ASSUME NEW c \in Calls, Proceed(c)
        PROVE  UnchangedRows \/ Commits(c)
    BY <1>2, CommitFacts DEF Proceed, LookupRefund, OrderNotFound, Refuse, ResolveOrderRace,
           ResolveKeyRace, RecordRefund, Return
  <1>3. ASSUME NEW c \in Calls, CommitAckLost(c)
        PROVE  Commits(c)
    BY <1>3, CommitFacts
  <1>4. CASE Crash \/ Finished \/ UNCHANGED vars
    BY <1>4 DEF Crash, Finished, vars, UnchangedRows
  <1> QED
    BY <1>1, <1>2, <1>3, <1>4 DEF Next

(* A transaction that changes a status makes one of the moves of the book, *)
(* and sets payment_confirmed_at only when it confirms the payment.        *)
LEMMA StatusMove ==
    ASSUME IInv, NEW c \in Calls, Commits(c), req[c].op # "refund"
    PROVE  LET o == req[c].order IN
           /\ refunds' = refunds
           /\ status' = [status EXCEPT ![o] = NewStatus(req[c].op)]
           /\ \/ /\ status[o] = "PAYMENT_PENDING" /\ NewStatus(req[c].op) = "ACCEPTED"
                 /\ confirmedAt' = [confirmedAt EXCEPT ![o] = tx[c].now]
              \/ /\ <<status[o], NewStatus(req[c].op)>> \in
                        {<<"PAYMENT_PENDING", "CANCELLED">>, <<"ACCEPTED", "COOKING">>,
                         <<"COOKING", "READY">>, <<"READY", "COMPLETED">>}
                 /\ confirmedAt' = confirmedAt
  <1> DEFINE o == req[c].order
  <1>1. /\ refunds' = refunds
        /\ status' = [status EXCEPT ![o] = NewStatus(req[c].op)]
        /\ confirmedAt' = [confirmedAt EXCEPT ![o] = ConfirmedNow(c)]
        /\ req[c].op \in StatusOps /\ status[o] \in OpenStatuses(req[c].op)
    BY DEF CommitRows, Commits, Ops
  <1>2. CASE req[c].op = "confirmPayment"
    BY <1>1, <1>2 DEF NewStatus, OpenStatuses, ConfirmedNow
  <1>3. CASE req[c].op # "confirmPayment"
    <2>1. <<status[o], NewStatus(req[c].op)>> \in
              {<<"PAYMENT_PENDING", "CANCELLED">>, <<"ACCEPTED", "COOKING">>,
               <<"COOKING", "READY">>, <<"READY", "COMPLETED">>}
      BY <1>1, <1>3 DEF NewStatus, OpenStatuses, StatusOps
    <2>2. ConfirmedNow(c) = confirmedAt[o]
      BY <2>1 DEF ConfirmedNow
    <2>3. confirmedAt' = confirmedAt
      BY <1>1, <2>2 DEF IInv, TypeOK
    <2> QED
      BY <1>1, <2>1, <2>3
  <1> QED
    BY <1>2, <1>3

(* Once an order is paid, the instant of its payment is fixed.             *)
THEOREM PaymentInstantCorrect == Spec => PaymentInstantFixed
  <1> DEFINE A == \A o \in Orders :
                    /\ confirmedAt'[o] # Absent <=> status'[o] \in REFUNDABLE_STATUSES
                    /\ confirmedAt[o] # Absent => confirmedAt'[o] = confirmedAt[o]
  <1>1. IInv /\ [Next]_vars => [A]_vars
    <2> SUFFICES ASSUME IInv, [Next]_vars, NEW o \in Orders
                 PROVE  /\ confirmedAt'[o] # Absent <=> status'[o] \in REFUNDABLE_STATUSES
                        /\ confirmedAt[o] # Absent => confirmedAt'[o] = confirmedAt[o]
      OBVIOUS
    <2>1. confirmedAt'[o] # Absent <=> status'[o] \in REFUNDABLE_STATUSES
      BY InvStep DEF IInv, ConfirmedIsPaid
    <2>2. confirmedAt[o] # Absent => confirmedAt'[o] = confirmedAt[o]
      <3>1. CASE UnchangedRows
        BY <3>1 DEF UnchangedRows
      <3>2. ASSUME NEW c \in Calls, Commits(c), req[c].op = "refund"
            PROVE  confirmedAt' = confirmedAt
        BY <3>2 DEF CommitRows, Commits
      <3>3. ASSUME NEW c \in Calls, Commits(c), req[c].op # "refund", confirmedAt[o] # Absent
            PROVE  confirmedAt'[o] = confirmedAt[o]
        <4>1. status[o] # "PAYMENT_PENDING"
          BY <3>3 DEF IInv, ConfirmedIsPaid, REFUNDABLE_STATUSES
        <4> QED
          BY <3>3, <4>1, StatusMove DEF IInv, TypeOK
      <3> QED
        BY <3>1, <3>2, <3>3, OnlyCommitChangesRows
    <2> QED
      BY <2>1, <2>2
  <1> QED
    BY <1>1, Invariance, PTL DEF Spec, PaymentInstantFixed

----------------------------------------------------------------------------
(* The answers to refunds.                                                 *)

\* A refund that has been committed and is about to be answered is there.
CommittedStands ==
    \A c \in Calls : step[c] = "committed" /\ req[c].op = "refund" =>
        \E f \in refunds : f.order = req[c].order /\ f.key = req[c].key

\* The actions that commit or answer the call c.
Ends(c) ==
    \/ LookupRefund(c) \/ OrderNotFound(c) \/ OrderStateConflict(c)
    \/ ResolveOrderRace(c) \/ ResolveKeyRace(c)
    \/ Commit(c) \/ CommitAckLost(c) \/ Return(c) \/ Abort(c)

(* No other action does, and no action does it to another call.            *)
LEMMA OnlyEndsEnd ==
    ASSUME IInv, [Next]_vars, NEW c \in Calls,
           step'[c] \in Answers \cup {"committed"}
    PROVE  \/ Ends(c)
           \/ step'[c] = step[c] /\ (step[c] = "committed" => req'[c] = req[c])
  <1> DEFINE Stays(d) == step'[d] = step[d] /\ req'[d] = req[d]
  <1>0. TypeOK
    BY DEF IInv
  <1>1. ASSUME NEW d \in Calls, d # c,
               \/ ArriveSome(d) \/ TakeLock(d) \/ Insert(d)
               \/ Proceed(d) \/ CommitAckLost(d) \/ Abort(d)
        PROVE  Stays(c)
    <2>1. CASE ArriveSome(d)
      BY <1>0, <1>1, <2>1 DEF ArriveSome, Arrive, Begin, Goto, TypeOK
    <2>2. CASE TakeLock(d)
      BY <1>0, <1>1, <2>2 DEF TakeLock, OrderStateConflict, WriteStatus, LockForRefund, LockOrder,
             Refuse, Answer, EndTx, Goto, TypeOK
    <2>3. CASE Insert(d)
      BY <1>0, <1>1, <2>3 DEF Insert, InsertRefund, RefundOrderTaken, RefundKeyTaken, Rollback,
             EndTx, Goto, TypeOK
    <2>4. CASE LookupRefund(d) \/ OrderNotFound(d)
      BY <1>0, <1>1, <2>4 DEF LookupRefund, OrderNotFound, Begin, Refuse, Answer, EndTx, Goto, TypeOK
    <2>5. CASE ResolveOrderRace(d) \/ ResolveKeyRace(d)
      BY <1>0, <1>1, <2>5 DEF ResolveOrderRace, ResolveKeyRace, Answer, EndTx, Goto, TypeOK
    <2>6. CASE RecordRefund(d)
      BY <1>0, <1>1, <2>6 DEF RecordRefund, Goto, TypeOK
    <2>7. CASE Commit(d) \/ CommitAckLost(d) \/ Return(d) \/ Abort(d)
      BY <1>0, <1>1, <2>7 DEF Commit, CommitAckLost, Return, Abort, Refuse, Answer, EndTx, Goto, TypeOK
    <2> QED
      BY <1>1, <2>1, <2>2, <2>3, <2>4, <2>5, <2>6, <2>7 DEF Proceed
  <1>2. ~ArriveSome(c)
    BY <1>0 DEF ArriveSome, Arrive, Begin, Goto, TypeOK, Answers
  <1>3. ~(WriteStatus(c) \/ LockForRefund(c) \/ InsertRefund(c) \/ RecordRefund(c))
    BY <1>0 DEF WriteStatus, LockForRefund, LockOrder, InsertRefund, RecordRefund, Goto, TypeOK, Answers
  <1>4. ~(RefundOrderTaken(c) \/ RefundKeyTaken(c))
    BY <1>0 DEF RefundOrderTaken, RefundKeyTaken, Rollback, EndTx, Goto, TypeOK, Answers
  <1>5. CASE Crash
    BY <1>5 DEF Crash, InFlight, Answers
  <1>6. CASE Finished \/ UNCHANGED vars
    BY <1>6 DEF Finished, vars
  <1> QED
    BY <1>1, <1>2, <1>3, <1>4, <1>5, <1>6 DEF Next, TakeLock, Insert, Proceed, Ends

(* Refunds are never removed, so a committed one stands.                   *)
LEMMA CommittedStandsStep ==
    ASSUME IInv, CommittedStands, [Next]_vars
    PROVE  CommittedStands'
  <1> SUFFICES ASSUME NEW c \in Calls, step'[c] = "committed", req'[c].op = "refund"
               PROVE  \E f \in refunds' : f.order = req'[c].order /\ f.key = req'[c].key
    BY DEF CommittedStands
  <1>0. TypeOK
    BY DEF IInv
  <1>1. refunds \subseteq refunds'
    BY OnlyCommitChangesRows DEF UnchangedRows, Commits, CommitRows
  <1>2. CASE Commit(c)
    <2>1. req' = req /\ CommitRows(c)
      BY <1>2 DEF Commit
    <2>2. PICK f : f = [order |-> req[c].order, key |-> req[c].key, processedAt |-> tx[c].now]
      OBVIOUS
    <2>3. f \in refunds'
      BY <2>1, <2>2 DEF CommitRows, RefundRow
    <2> QED
      BY <2>1, <2>2, <2>3
  <1>3. CASE step[c] = "committed" /\ req'[c] = req[c]
    BY <1>1, <1>3 DEF CommittedStands
  <1>4. \A code \in Answers : ~Answer(c, code)
    BY <1>0 DEF Answer, EndTx, Goto, TypeOK, Answers
  <1>5. \A f \in refunds : Resolved(c, f) \in Answers /\ ResolvedByKey(c, f) \in Answers
    BY DEF Resolved, ResolvedByKey, Answers
  <1>6. ~(OrderNotFound(c) \/ OrderStateConflict(c) \/ CommitAckLost(c) \/ Return(c) \/ Abort(c))
    BY <1>4 DEF OrderNotFound, OrderStateConflict, CommitAckLost, Return, Abort, Refuse, Answers
  <1>7. ~(LookupRefund(c) \/ ResolveOrderRace(c) \/ ResolveKeyRace(c))
    BY <1>0, <1>4, <1>5 DEF LookupRefund, ResolveOrderRace, ResolveKeyRace, RefundOf, RefundBy,
           Begin, Goto, TypeOK, Answers
  <1>8. Ends(c) \/ (step[c] = "committed" /\ req'[c] = req[c])
    BY OnlyEndsEnd
  <1> QED
    BY <1>2, <1>3, <1>6, <1>7, <1>8 DEF Ends

\* What RefundAnswersTrue says of one call, in one step.
AnswerIsTrue(c) ==
    /\ Told(c, "OK") =>
        \E f \in refunds : f.order = req[c].order /\ f.key = req[c].key
    /\ Told(c, "ORDER_STATE_CONFLICT") =>
        \/ status[req[c].order] \notin REFUNDABLE_STATUSES
        \/ \E f \in refunds : f.order = req[c].order /\ f.key # req[c].key
    /\ Told(c, "IDEMPOTENCY_CONFLICT") =>
        \E f \in refunds : f.order # req[c].order /\ f.key = req[c].key

(* A refund is told the truth, by whichever of the actions that answer it. *)
LEMMA RefundAnswerStep ==
    ASSUME IInv, CommittedStands, [Next]_vars, NEW c \in Calls, req[c].op = "refund"
    PROVE  AnswerIsTrue(c)
  <1>0. TypeOK
    BY DEF IInv
  <1>1. ASSUME NEW code, Answer(c, code)
        PROVE  step'[c] = code
    BY <1>0, <1>1 DEF Answer, EndTx, Goto, TypeOK
  <1>2. SUFFICES ASSUME step[c] \in InFlight,
                        step'[c] \in {"OK", "ORDER_STATE_CONFLICT", "IDEMPOTENCY_CONFLICT"}
                 PROVE  AnswerIsTrue(c)
    BY DEF AnswerIsTrue, Told
  <1>3. Ends(c)
    BY <1>2, OnlyEndsEnd DEF InFlight, Holding, Answers
  <1>4. ~(OrderNotFound(c) \/ CommitAckLost(c) \/ Abort(c))
    BY <1>1, <1>2 DEF OrderNotFound, CommitAckLost, Abort, Refuse
  <1>5. ~Commit(c)
    BY <1>0, <1>2 DEF Commit, EndTx, Goto, TypeOK
  <1>6. CASE OrderStateConflict(c)
    BY <1>1, <1>6 DEF OrderStateConflict, Refuse, OpenStatuses, AnswerIsTrue, Told
  <1>7. CASE Return(c)
    BY <1>1, <1>7 DEF Return, CommittedStands, AnswerIsTrue, Told
  <1>8. ASSUME NEW f \in refunds, f.order = req[c].order, step'[c] = Resolved(c, f)
        PROVE  AnswerIsTrue(c)
    BY <1>8 DEF Resolved, AnswerIsTrue, Told
  <1>9. CASE LookupRefund(c)
    BY <1>0, <1>1, <1>2, <1>8, <1>9 DEF LookupRefund, RefundOf, Begin, Goto, TypeOK
  <1>10. CASE ResolveOrderRace(c)
    BY <1>1, <1>2, <1>8, <1>10 DEF ResolveOrderRace, RefundOf
  <1>11. CASE ResolveKeyRace(c)
    <2>1. PICK f \in refunds : f.key = req[c].key /\ step'[c] = ResolvedByKey(c, f)
      BY <1>1, <1>2, <1>11 DEF ResolveKeyRace, RefundBy
    <2>2. CASE f.order = req[c].order
      BY <1>8, <2>1, <2>2 DEF ResolvedByKey
    <2>3. CASE f.order # req[c].order
      BY <2>1, <2>3 DEF ResolvedByKey, AnswerIsTrue, Told
    <2> QED
      BY <2>2, <2>3
  <1> QED
    BY <1>3, <1>4, <1>5, <1>6, <1>7, <1>9, <1>10, <1>11 DEF Ends

(* Every answer to a refund is true, whichever race it lost.               *)
THEOREM RefundsAnswered == Spec => RefundAnswersTrue
  <1> DEFINE A == \A c \in Calls : req[c].op = "refund" => AnswerIsTrue(c)
  <1>1. Init => CommittedStands
    BY DEF Init, CommittedStands
  <1>2. IInv /\ CommittedStands /\ [Next]_vars => CommittedStands'
    BY CommittedStandsStep
  <1>3. IInv /\ CommittedStands /\ [Next]_vars => [A]_vars
    BY RefundAnswerStep
  <1>4. [A]_vars <=> [\A c \in Calls : req[c].op = "refund" =>
            /\ Told(c, "OK") =>
                \E f \in refunds : f.order = req[c].order /\ f.key = req[c].key
            /\ Told(c, "ORDER_STATE_CONFLICT") =>
                \/ status[req[c].order] \notin REFUNDABLE_STATUSES
                \/ \E f \in refunds : f.order = req[c].order /\ f.key # req[c].key
            /\ Told(c, "IDEMPOTENCY_CONFLICT") =>
                \E f \in refunds : f.order # req[c].order /\ f.key = req[c].key]_vars
    BY DEF AnswerIsTrue
  <1> QED
    BY <1>1, <1>2, <1>3, <1>4, Invariance, PTL DEF Spec, RefundAnswersTrue

----------------------------------------------------------------------------
(* What is announced has happened.                                         *)

(* History rows are never removed, so a committed change stays in it.      *)
LEMMA CommittedIsInHistoryStep ==
    ASSUME IInv, CommittedIsInHistory, [Next]_vars
    PROVE  CommittedIsInHistory'
  <1> SUFFICES ASSUME NEW c \in Calls, step'[c] = "committed", req'[c].op \in StatusOps
               PROVE  /\ req'[c].order \in Orders
                      /\ \E g \in history'[req'[c].order] :
                            g.action = req'[c].op /\ g.to = NewStatus(req'[c].op)
    BY DEF CommittedIsInHistory
  <1>0. TypeOK
    BY DEF IInv
  <1>1. \A o \in Orders : history[o] \subseteq history'[o]
    <2>1. CASE UnchangedRows
      BY <2>1 DEF UnchangedRows
    <2>2. ASSUME NEW d \in Calls, CommitRows(d)
          PROVE  \A o \in Orders : history[o] \subseteq history'[o]
      <3>1. history' = [history EXCEPT ![req[d].order] = @ \cup {HistoryRow(d)}]
        BY <2>2 DEF CommitRows
      <3> QED
        BY <1>0, <3>1 DEF TypeOK
    <2> QED
      BY <2>1, <2>2, OnlyCommitChangesRows DEF Commits
  <1>2. CASE Commit(c)
    <2>1. req' = req /\ CommitRows(c) /\ req[c].order \in Orders /\ step[c] = "written"
      BY <1>2 DEF Commit, IInv, ReadStillTrue, Holding
    <2>2. HistoryRow(c) \in history'[req[c].order]
      BY <1>0, <2>1 DEF CommitRows, TypeOK
    <2>3. HistoryRow(c).action = req[c].op /\ HistoryRow(c).to = NewStatus(req[c].op)
      BY <2>1 DEF HistoryRow, StatusOps
    <2> QED
      BY <2>1, <2>2, <2>3
  <1>3. CASE step[c] = "committed" /\ req'[c] = req[c]
    BY <1>1, <1>3 DEF CommittedIsInHistory
  <1>4. \A code \in Answers : ~Answer(c, code)
    BY <1>0 DEF Answer, EndTx, Goto, TypeOK, Answers
  <1>5. \A f \in refunds : Resolved(c, f) \in Answers /\ ResolvedByKey(c, f) \in Answers
    BY DEF Resolved, ResolvedByKey, Answers
  <1>6. ~(OrderNotFound(c) \/ OrderStateConflict(c) \/ CommitAckLost(c) \/ Return(c) \/ Abort(c))
    BY <1>4 DEF OrderNotFound, OrderStateConflict, CommitAckLost, Return, Abort, Refuse, Answers
  <1>7. ~(LookupRefund(c) \/ ResolveOrderRace(c) \/ ResolveKeyRace(c))
    BY <1>0, <1>4, <1>5 DEF LookupRefund, ResolveOrderRace, ResolveKeyRace, RefundOf, RefundBy,
           Begin, Goto, TypeOK, Answers
  <1>8. Ends(c) \/ (step[c] = "committed" /\ req'[c] = req[c])
    BY OnlyEndsEnd
  <1> QED
    BY <1>2, <1>3, <1>6, <1>7, <1>8 DEF Ends

\* What AnnouncedChangesHappened says of one call, in one step.
AnnouncementIsTrue(c) ==
    Told(c, "OK") /\ req[c].op \in StatusOps =>
        \E g \in StatusRows(req[c].order) :
            /\ g.action = req[c].op /\ g.to = NewStatus(req[c].op)
            /\ status[req[c].order] # g.to =>
                    \E h \in StatusRows(req[c].order) : g.at < h.at

(* Only Return tells a change of status OK, and the history has its row.   *)
LEMMA AnnouncementStep ==
    ASSUME IInv, CommittedIsInHistory, [Next]_vars, NEW c \in Calls
    PROVE  AnnouncementIsTrue(c)
  <1> SUFFICES ASSUME step[c] \in InFlight, step'[c] = "OK", req[c].op \in StatusOps
               PROVE  \E g \in StatusRows(req[c].order) :
                          /\ g.action = req[c].op /\ g.to = NewStatus(req[c].op)
                          /\ status[req[c].order] # g.to =>
                                \E h \in StatusRows(req[c].order) : g.at < h.at
    BY DEF AnnouncementIsTrue, Told
  <1>0. TypeOK
    BY DEF IInv
  <1>1. ASSUME NEW code, Answer(c, code)
        PROVE  code = "OK"
    BY <1>0, <1>1 DEF Answer, EndTx, Goto, TypeOK
  <1>2. step[c] \notin {"lookup", "insertRefund", "orderRace", "keyRace"}
    BY DEF IInv, RefundSteps, StatusOps
  <1>3. Ends(c)
    BY OnlyEndsEnd DEF InFlight, Holding, Answers
  <1>4. ~(OrderNotFound(c) \/ OrderStateConflict(c) \/ CommitAckLost(c) \/ Abort(c))
    BY <1>1 DEF OrderNotFound, OrderStateConflict, CommitAckLost, Abort, Refuse
  <1>5. ~Commit(c)
    BY <1>0 DEF Commit, EndTx, Goto, TypeOK
  <1>6. step[c] = "committed"
    BY <1>2, <1>3, <1>4, <1>5 DEF Ends, LookupRefund, ResolveOrderRace, ResolveKeyRace, Return
  <1>7. req[c].order \in Orders
    BY <1>6 DEF CommittedIsInHistory
  <1>8. PICK g \in history[req[c].order] :
            g.action = req[c].op /\ g.to = NewStatus(req[c].op)
    BY <1>6 DEF CommittedIsInHistory
  <1>9. g \in StatusRows(req[c].order)
    <2>1. NewStatus(req[c].op) \in OrderStatus
      BY NewStatusType
    <2> QED
      BY <1>8, <2>1 DEF StatusRows
  <1>10. ASSUME status[req[c].order] # g.to
         PROVE  \E h \in StatusRows(req[c].order) : g.at < h.at
    <2>1. PICK h \in StatusRows(req[c].order) : ~(h.at <= g.at)
      BY <1>7, <1>9, <1>10 DEF IInv, HistoryTellsStatus
    <2>2. g \in Row /\ h \in Row
      BY <1>0, <1>7, <1>8 DEF TypeOK, StatusRows
    <2> QED
      BY <2>1, <2>2 DEF Row
  <1> QED
    BY <1>8, <1>9, <1>10

(* Every change that is announced has happened, in whatever order the      *)
(* announcements are made.                                                 *)
THEOREM AnnouncementsCorrect == Spec => AnnouncedChangesHappened
  <1> DEFINE A == \A c \in Calls : AnnouncementIsTrue(c)
  <1>1. Init => CommittedIsInHistory
    BY DEF Init, CommittedIsInHistory
  <1>2. IInv /\ CommittedIsInHistory /\ [Next]_vars => CommittedIsInHistory'
    BY CommittedIsInHistoryStep
  <1>3. IInv /\ CommittedIsInHistory /\ [Next]_vars => [A]_vars
    BY AnnouncementStep
  <1>4. [A]_vars <=> [\A c \in Calls : Told(c, "OK") /\ req[c].op \in StatusOps =>
            \E g \in StatusRows(req[c].order) :
                /\ g.action = req[c].op /\ g.to = NewStatus(req[c].op)
                /\ status[req[c].order] # g.to =>
                        \E h \in StatusRows(req[c].order) : g.at < h.at]_vars
    BY DEF AnnouncementIsTrue
  <1> QED
    BY <1>1, <1>2, <1>3, <1>4, Invariance, PTL DEF Spec, AnnouncedChangesHappened

----------------------------------------------------------------------------
(* The calls implement the book.                                           *)

(* As an order has at most one refund, the book's refundedBy is that       *)
(* refund's request id.                                                    *)
LEMMA RefundedByIs ==
    ASSUME RefundsSound, NEW o \in Orders
    PROVE  /\ \A f \in refunds : f.order = o => RefundedBy[o] = f.key
           /\ (\A f \in refunds : f.order # o) => RefundedBy[o] = Absent
  <1>1. ASSUME NEW f \in refunds, f.order = o
        PROVE  RefundedBy[o] = f.key
    <2>1. RefundOf(o) = {f}
      BY <1>1 DEF RefundsSound, RefundOf
    <2>2. (CHOOSE g \in RefundOf(o) : TRUE) = f
      BY <2>1
    <2> QED
      BY <2>1, <2>2 DEF RefundedBy, KeyOf
  <1>2. (\A f \in refunds : f.order # o) => RefundedBy[o] = Absent
    BY DEF RefundedBy, RefundOf, KeyOf
  <1> QED
    BY <1>1, <1>2

(* The orders as they are placed are the book's initial state.             *)
LEMMA InitBook ==
    ASSUME Init
    PROVE  Book!BookInit
  <1>1. \A o \in Orders : RefundOf(o) = {}
    BY DEF Init, RefundOf
  <1>2. RefundedBy = [o \in Orders |-> Absent]
    BY <1>1 DEF RefundedBy, KeyOf
  <1>3. Paid = [o \in Orders |-> FALSE]
    BY DEF Init, Paid
  <1> QED
    BY <1>2, <1>3 DEF Init, Book!BookInit

(* A COMMIT that changes a status is a move of the book.                   *)
LEMMA StatusCommitBook ==
    ASSUME IInv, TypeOK', NEW c \in Calls, Commits(c), req[c].op # "refund"
    PROVE  Book!BookNext
  <1> PICK o : o = req[c].order
    OBVIOUS
  <1>0. /\ o \in Orders /\ status \in [Orders -> OrderStatus]
        /\ confirmedAt \in [Orders -> Nat \cup {Absent}]
        /\ refunds' = refunds /\ tx[c].now \in Nat
    BY StatusMove DEF IInv, TypeOK, Commits
  <1>1. RefundedBy' = RefundedBy
    BY <1>0 DEF RefundedBy, RefundOf
  <1>2. CASE /\ status[o] = "PAYMENT_PENDING"
             /\ status' = [status EXCEPT ![o] = "ACCEPTED"]
             /\ confirmedAt' = [confirmedAt EXCEPT ![o] = tx[c].now]
    <2>1. Paid' = [Paid EXCEPT ![o] = TRUE]
      BY <1>0, <1>2 DEF Paid
    <2>2. Book!ConfirmPayment(o)
      BY <1>1, <1>2, <2>1 DEF Book!ConfirmPayment, Book!Move
    <2> QED
      BY <1>0, <2>2 DEF Book!BookNext
  <1>3. CASE /\ \E from, to \in OrderStatus :
                    /\ <<from, to>> \in {<<"PAYMENT_PENDING", "CANCELLED">>, <<"ACCEPTED", "COOKING">>,
                                         <<"COOKING", "READY">>, <<"READY", "COMPLETED">>}
                    /\ status[o] = from
                    /\ status' = [status EXCEPT ![o] = to]
             /\ confirmedAt' = confirmedAt
    <2>1. Paid' = Paid
      BY <1>3 DEF Paid
    <2>2. Book!Cancel(o) \/ Book!Progress(o)
      BY <1>1, <1>3, <2>1 DEF Book!Cancel, Book!Progress, Book!Move
    <2> QED
      BY <1>0, <2>2 DEF Book!BookNext
  <1>4. NewStatus(req[c].op) \in OrderStatus /\ status[o] \in OrderStatus
    BY <1>0, NewStatusType DEF Commits, Ops
  <1> QED
    BY <1>2, <1>3, <1>4, StatusMove

(* A COMMIT of a refund is the book's refund.                              *)
LEMMA RefundCommitBook ==
    ASSUME IInv, IInv', NEW c \in Calls, Commits(c), req[c].op = "refund"
    PROVE  Book!BookNext
  <1> PICK o, k, f0 : /\ o = req[c].order /\ k = req[c].key
                      /\ f0 = [order |-> o, key |-> k, processedAt |-> tx[c].now]
    OBVIOUS
  <1>0. /\ o \in Orders /\ k \in RefundKeys
        /\ status' = status /\ confirmedAt' = confirmedAt
        /\ refunds' = refunds \cup {f0} /\ f0.order = o /\ f0.key = k
        /\ status[o] \in REFUNDABLE_STATUSES
    BY DEF IInv, RefundSteps, CommitRows, RefundRow, Commits, OpenStatuses
  <1>1. \A f \in refunds : f.order # o /\ f.key # k
    <2>1. RefundOf(o) = {} /\ RefundBy(k) = {}
      BY DEF IInv, WrittenIsUnique, Inserted, Commits
    <2> QED
      BY <2>1 DEF RefundOf, RefundBy
  <1>2. Paid' = Paid /\ Paid[o]
    BY <1>0 DEF Paid, IInv, ConfirmedIsPaid
  <1>3. RefundsSound /\ RefundsSound'
    BY DEF IInv
  <1>4. RefundedBy[o] = Absent
    BY <1>0, <1>1, <1>3, RefundedByIs
  <1>5. \A p \in Orders : RefundedBy[p] # k
    <2> SUFFICES ASSUME NEW p \in Orders
                 PROVE  RefundedBy[p] # k
      OBVIOUS
    <2>1. CASE \E f \in refunds : f.order = p
      BY <1>1, <1>3, <2>1, RefundedByIs
    <2>2. CASE \A f \in refunds : f.order # p
      <3>1. k # Absent
        BY <1>0
      <3> QED
        BY <1>3, <2>2, <3>1, RefundedByIs
    <2> QED
      BY <2>1, <2>2
  <1>6. RefundedBy' = [RefundedBy EXCEPT ![o] = k]
    <2>1. \A p \in Orders \ {o} : RefundOf(p)' = RefundOf(p)
      BY <1>0 DEF RefundOf
    <2>2. RefundOf(o)' = {f0}
      BY <1>0, <1>1 DEF RefundOf
    <2>3. KeyOf({f0}) = k
      BY <1>0 DEF KeyOf
    <2> QED
      BY <1>0, <2>1, <2>2, <2>3 DEF RefundedBy
  <1>7. Book!Refund(o, k)
    BY <1>0, <1>2, <1>4, <1>5, <1>6 DEF Book!Refund
  <1> QED
    BY <1>0, <1>7 DEF Book!BookNext

(* The calls, with their locks and races, implement the book: every COMMIT *)
(* is one of its operations and every other step leaves it alone.          *)
THEOREM Implementation == Spec => ImplementsBook
  <1>1. Init => Book!BookInit
    BY InitBook
  <1>2. IInv /\ [Next]_vars => [Book!BookNext]_Book!bookVars
    <2> SUFFICES ASSUME IInv, [Next]_vars
                 PROVE  Book!BookNext \/ UNCHANGED Book!bookVars
      OBVIOUS
    <2>1. CASE UnchangedRows
      BY <2>1 DEF UnchangedRows, Book!bookVars, Paid, RefundedBy, RefundOf
    <2>2. ASSUME NEW c \in Calls, Commits(c)
          PROVE  Book!BookNext
      <3>1. IInv' /\ TypeOK'
        BY InvStep DEF IInv
      <3> QED
        BY <2>2, <3>1, StatusCommitBook, RefundCommitBook
    <2> QED
      BY <2>1, <2>2, OnlyCommitChangesRows
  <1> QED
    BY <1>1, <1>2, Invariance, PTL DEF Spec, ImplementsBook, Book!BookSpec
=============================================================================
