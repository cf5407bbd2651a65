--------------------------- MODULE OrderLifecycle ---------------------------
(***************************************************************************)
(* What administrators do to an order after it is placed: confirm its      *)
(* payment, cancel it, move it on (PATCH .../status) and refund it, several *)
(* calls at a time.                                                        *)
(*                                                                         *)
(* Each call is one transaction that first locks the order's row FOR       *)
(* UPDATE, so from there to COMMIT nobody else can see or change the       *)
(* order; what it does in between is one step here.  A refund also         *)
(* inserts into order_refunds, whose unique index on refund_request_id     *)
(* makes it wait for refunds of other orders, and looks for an existing    *)
(* refund before its transaction, where nothing is locked.                 *)
(*                                                                         *)
(* now() is the instant of BEGIN, clock_timestamp() that of the statement; *)
(* the clock counts history rows written, which is all that their order    *)
(* depends on.  Nobody listens to order.updated, published after COMMIT.   *)
(***************************************************************************)
EXTENDS Integers

CONSTANTS
    Orders,      \* the ids of the rows of orders
    OrderIds,    \* the ids a call may name: those and unknown ones
    RefundKeys,  \* the values of refundRequestId
    Calls,       \* the calls that may be in flight at a time; each name is
                 \* used again when its call has ended
    Absent,
    Faults,      \* which faults occur: "abort", "ackLost", "crash"
    MaxTicks     \* bounds the history rows written, to keep TLC finite

VARIABLES
    step,         \* where each call is; at the end, the code it answered
    req,          \* its operation, orderId and refundRequestId, to its end
    tx,           \* its transaction: now(), the status it read under the
                  \* lock, and the occurred_at of the history row it wrote
    status,       \* orders.status
    confirmedAt,  \* orders.payment_confirmed_at, Absent for NULL
    refunds,      \* the rows of order_refunds
    history,      \* the order_history rows of each order
    clock

vars == <<step, req, tx, status, confirmedAt, refunds, history, clock>>

REFUNDABLE_STATUSES == {"ACCEPTED", "COOKING", "READY", "COMPLETED"}
OrderStatus == {"PAYMENT_PENDING", "CANCELLED"} \cup REFUNDABLE_STATUSES

ASSUME OrderLifecycleAssumption ==
    /\ Orders \subseteq OrderIds
    /\ Absent \notin OrderIds /\ Absent \notin RefundKeys
    /\ Absent \notin Nat /\ Absent \notin OrderStatus
    /\ Faults \subseteq {"abort", "ackLost", "crash"}
    /\ MaxTicks \in Nat

StatusOps == {"confirmPayment", "cancel", "COOKING", "READY", "COMPLETED"}
Ops == StatusOps \cup {"refund"}

Answers == {"OK", "ORDER_NOT_FOUND", "ORDER_STATE_CONFLICT", "IDEMPOTENCY_CONFLICT",
            "INTERNAL_ERROR"}
Holding == {"insertRefund", "recordRefund", "written"}
Inserted == {"recordRefund", "written"}
InFlight == Holding \cup {"lookup", "begun", "committed", "orderRace", "keyRace"}
Steps == {"idle", "lost"} \cup InFlight \cup Answers

NoReq == [op |-> "cancel", order |-> Absent, key |-> Absent]
NoTx  == [now |-> 0, status |-> Absent, at |-> 0]

RefundOf(o)  == {f \in refunds : f.order = o}
RefundBy(k)  == {f \in refunds : f.key = k}

\* Mutant: another call's lock is not waited for.
RowLockIgnored(o) == TRUE

\* SELECT ... FOR UPDATE returns once no other transaction has the row.
RowFree(o) == \A c \in Calls : ~(step[c] \in Holding /\ req[c].order = o)

\* The statuses in which an operation is accepted: the tests of
\* confirmPayment and cancel, STATUS_TRANSITIONS, REFUNDABLE_STATUSES.
OpenStatuses(op) ==
    CASE op \in {"confirmPayment", "cancel"} -> {"PAYMENT_PENDING"}
      [] op = "COOKING"   -> {"ACCEPTED"}
      [] op = "READY"     -> {"COOKING"}
      [] op = "COMPLETED" -> {"READY"}
      [] op = "refund"    -> REFUNDABLE_STATUSES

\* Mutant: the operation's name is written as the status.
NewStatusUnmapped(op) == op

\* The status a StatusOp gives the order.
NewStatus(op) ==
    CASE op = "confirmPayment" -> "ACCEPTED"
      [] op = "cancel"         -> "CANCELLED"
      [] OTHER                 -> op

----------------------------------------------------------------------------
Goto(c, s) == step' = [step EXCEPT ![c] = s]

UnchangedRows == UNCHANGED <<status, confirmedAt, refunds, history>>

\* The transaction of c ends, with this step next.
EndTx(c, s) == Goto(c, s) /\ tx' = [tx EXCEPT ![c] = NoTx]

\* The call c ends, inside its transaction or not, and this is its answer.
Answer(c, code) == EndTx(c, code) /\ req' = [req EXCEPT ![c] = NoReq]

\* ROLLBACK, and the error is the answer.
Refuse(c, code) == Answer(c, code) /\ UnchangedRows /\ UNCHANGED clock

\* ROLLBACK, and refund() looks for the row that was in the way.
Rollback(c, s) == EndTx(c, s) /\ UnchangedRows /\ UNCHANGED <<req, clock>>

Begin(c) == Goto(c, "begun") /\ tx' = [tx EXCEPT ![c] = [now |-> clock, status |-> Absent, at |-> 0]]

\* A call arrives: a refund goes to its lookup, any other to BEGIN.
Arrive(c, op, o, k) ==
    /\ step[c] \notin InFlight
    /\ clock < MaxTicks
    /\ req' = [req EXCEPT ![c] = [op |-> op, order |-> o, key |-> k]]
    /\ IF op = "refund" THEN Goto(c, "lookup") /\ UNCHANGED tx ELSE Begin(c)
    /\ UnchangedRows /\ UNCHANGED clock

\* resolveExistingRefund: the same refundRequestId gets the order back.
Resolved(c, f) == IF f.key = req[c].key THEN "OK" ELSE "ORDER_STATE_CONFLICT"

\* refund(): findByOrderId before the transaction.
LookupRefund(c) ==
    /\ step[c] = "lookup"
    /\ \/ /\ RefundOf(req[c].order) = {}
          /\ Begin(c)
          /\ UNCHANGED req
       \/ \E f \in RefundOf(req[c].order) : Answer(c, Resolved(c, f))
    /\ UnchangedRows /\ UNCHANGED clock

\* findByIdForUpdate finds no row.
OrderNotFound(c) ==
    /\ step[c] = "begun"
    /\ req[c].order \notin Orders
    /\ Refuse(c, "ORDER_NOT_FOUND")

\* It finds the order in a status the operation does not accept.
OrderStateConflict(c) ==
    /\ step[c] = "begun"
    /\ req[c].order \in Orders
    /\ RowFree(req[c].order)
    /\ status[req[c].order] \notin OpenStatuses(req[c].op)
    /\ Refuse(c, "ORDER_STATE_CONFLICT")

\* Mutant: before migration b1_007 the default of occurred_at was now().
OccurredAtBegin(c) == tx[c].now

\* occurred_at is the column's default, clock_timestamp().
OccurredAt(c) == clock + 1

\* It locks the order and reads its status, the call's operation accepted.
LockOrder(c, next) ==
    /\ step[c] = "begun"
    /\ req[c].order \in Orders
    /\ RowFree(req[c].order)
    /\ status[req[c].order] \in OpenStatuses(req[c].op)
    /\ Goto(c, next)
    /\ UnchangedRows /\ UNCHANGED req

\* confirmPayment, cancel and changeStatus: lock, updateStatus and the
\* history row.
WriteStatus(c) ==
    /\ req[c].op \in StatusOps
    /\ LockOrder(c, "written")
    /\ tx' = [tx EXCEPT ![c] = [now |-> @.now, status |-> status[req[c].order],
                                at |-> OccurredAt(c)]]
    /\ clock' = clock + 1

LockForRefund(c) ==
    /\ req[c].op = "refund"
    /\ LockOrder(c, "insertRefund")
    /\ tx' = [tx EXCEPT ![c] = [now |-> @.now, status |-> status[req[c].order], at |-> 0]]
    /\ UNCHANGED clock

\* Mutant: a refund waits for one that has not inserted its row yet.
PendingTwinsEarly(c) ==
    {d \in Calls \ {c} : step[d] \in Holding /\ req[d].key = req[c].key}

\* A refund of another order, with the same key, that may still commit.
PendingTwins(c) ==
    {d \in Calls \ {c} : step[d] \in Inserted /\ req[d].op = "refund"
                         /\ req[d].key = req[c].key}

RefundRow(c) == [order |-> req[c].order, key |-> req[c].key, processedAt |-> tx[c].now]

\* Mutant: order_refunds is written through the pool, outside the transaction.
WriteRefundAtOnce(c) == refunds' = refunds \cup {RefundRow(c)}

\* order_refunds is written through the client of the transaction.
WriteRefund(c) == UNCHANGED refunds

\* INSERT INTO order_refunds
InsertRefund(c) ==
    /\ step[c] = "insertRefund"
    /\ RefundOf(req[c].order) = {}
    /\ PendingTwins(c) = {} /\ RefundBy(req[c].key) = {}
    /\ Goto(c, "recordRefund")
    /\ WriteRefund(c)
    /\ UNCHANGED <<status, confirmedAt, history, req, tx, clock>>

\* The REFUNDED history row, a query of its own that may fail.
RecordRefund(c) ==
    /\ step[c] = "recordRefund"
    /\ Goto(c, "written")
    /\ tx' = [tx EXCEPT ![c] = [now |-> @.now, status |-> @.status, at |-> OccurredAt(c)]]
    /\ clock' = clock + 1
    /\ UnchangedRows /\ UNCHANGED req

\* order_refunds_order_id_key is violated: it is the older of the two
\* indexes, and is checked first.
RefundOrderTaken(c) ==
    /\ step[c] = "insertRefund"
    /\ RefundOf(req[c].order) # {}
    /\ Rollback(c, "orderRace")

\* order_refunds_refund_request_id_key is violated.
RefundKeyTaken(c) ==
    /\ step[c] = "insertRefund"
    /\ RefundOf(req[c].order) = {}
    /\ PendingTwins(c) = {} /\ RefundBy(req[c].key) # {}
    /\ Rollback(c, "keyRace")

\* After the violation on order_id: findByOrderId, finding nothing rethrows.
ResolveOrderRace(c) ==
    /\ step[c] = "orderRace"
    /\ IF RefundOf(req[c].order) = {} THEN Answer(c, "INTERNAL_ERROR")
       ELSE \E f \in RefundOf(req[c].order) : Answer(c, Resolved(c, f))
    /\ UnchangedRows /\ UNCHANGED clock

\* Mutant: the order of the refund that was found is not looked at.
ResolvedByKeyOnly(c, f) == Resolved(c, f)

\* The refund with this refundRequestId may be another order's.
ResolvedByKey(c, f) ==
    IF f.order # req[c].order THEN "IDEMPOTENCY_CONFLICT" ELSE Resolved(c, f)

\* After the violation on refund_request_id: findByRefundRequestId.
ResolveKeyRace(c) ==
    /\ step[c] = "keyRace"
    /\ IF RefundBy(req[c].key) = {} THEN Answer(c, "INTERNAL_ERROR")
       ELSE \E f \in RefundBy(req[c].key) : Answer(c, ResolvedByKey(c, f))
    /\ UnchangedRows /\ UNCHANGED clock

----------------------------------------------------------------------------
(* COMMIT                                                                  *)

\* Mutant: payment_confirmed_at is set on every update.
ConfirmedNowAlways(c) == tx[c].now

\* CASE WHEN $1 = 'ACCEPTED' THEN now() ELSE payment_confirmed_at END
ConfirmedNow(c) ==
    IF NewStatus(req[c].op) = "ACCEPTED" THEN tx[c].now ELSE confirmedAt[req[c].order]

HistoryRow(c) ==
    [action |-> req[c].op, at |-> tx[c].at,
     from |-> IF req[c].op = "refund" THEN Absent ELSE tx[c].status,
     to   |-> IF req[c].op = "refund" THEN Absent ELSE NewStatus(req[c].op)]

\* What the transaction of c wrote becomes visible, all of it at once.
CommitRows(c) ==
    LET o == req[c].order IN
    /\ history' = [history EXCEPT ![o] = @ \cup {HistoryRow(c)}]
    /\ IF req[c].op = "refund"
       THEN /\ refunds' = refunds \cup {RefundRow(c)}
            /\ UNCHANGED <<status, confirmedAt>>
       ELSE /\ status' = [status EXCEPT ![o] = NewStatus(req[c].op)]
            /\ confirmedAt' = [confirmedAt EXCEPT ![o] = ConfirmedNow(c)]
            /\ UNCHANGED refunds

Commit(c) ==
    /\ step[c] = "written"
    /\ CommitRows(c)
    /\ EndTx(c, "committed")
    /\ UNCHANGED <<req, clock>>

\* COMMIT takes effect, but its acknowledgement does not arrive.
CommitAckLost(c) ==
    /\ "ackLost" \in Faults
    /\ step[c] = "written"
    /\ CommitRows(c)
    /\ Answer(c, "INTERNAL_ERROR")
    /\ UNCHANGED clock

\* Mutant: order.updated is published before COMMIT.
ReturnEarly(c) ==
    /\ step[c] \in {"written", "committed"}
    /\ Answer(c, "OK")
    /\ UnchangedRows /\ UNCHANGED clock

\* order.updated is published and the view returned.
Return(c) ==
    /\ step[c] = "committed"
    /\ Answer(c, "OK")
    /\ UnchangedRows /\ UNCHANGED clock

\* A query fails, or a lock wait exceeds statement_timeout.
Abort(c) ==
    /\ "abort" \in Faults
    /\ step[c] \in InFlight \ {"committed"}
    /\ Refuse(c, "INTERNAL_ERROR")

\* The process dies: no call in flight is answered.
Crash ==
    /\ "crash" \in Faults
    /\ step' = [c \in Calls |-> IF step[c] \in InFlight THEN "lost" ELSE step[c]]
    /\ req' = [c \in Calls |-> NoReq]
    /\ tx' = [c \in Calls |-> NoTx]
    /\ UnchangedRows /\ UNCHANGED clock

\* The bound is reached and every call has ended; only then may it stop.
Finished ==
    /\ clock >= MaxTicks
    /\ \A c \in Calls : step[c] \notin InFlight
    /\ UNCHANGED vars

----------------------------------------------------------------------------
Created == [action |-> "create", at |-> 0, from |-> Absent, to |-> "PAYMENT_PENDING"]

\* Orders as OrdersService.create leaves them.
Init ==
    /\ step = [c \in Calls |-> "idle"]
    /\ req = [c \in Calls |-> NoReq]
    /\ tx = [c \in Calls |-> NoTx]
    /\ status = [o \in Orders |-> "PAYMENT_PENDING"]
    /\ confirmedAt = [o \in Orders |-> Absent]
    /\ refunds = {}
    /\ history = [o \in Orders |-> {Created}]
    /\ clock = 0

ArriveSome(c) ==
    \E o \in OrderIds :
        \/ \E op \in StatusOps : Arrive(c, op, o, Absent)
        \/ \E k \in RefundKeys : Arrive(c, "refund", o, k)

TakeLock(c) == OrderStateConflict(c) \/ WriteStatus(c) \/ LockForRefund(c)

Insert(c) == InsertRefund(c) \/ RefundOrderTaken(c) \/ RefundKeyTaken(c)

Proceed(c) ==
    \/ LookupRefund(c)
    \/ OrderNotFound(c)
    \/ ResolveOrderRace(c)
    \/ ResolveKeyRace(c)
    \/ RecordRefund(c)
    \/ Commit(c)
    \/ Return(c)

Next ==
    \/ \E c \in Calls :
        \/ ArriveSome(c)
        \/ TakeLock(c)
        \/ Insert(c)
        \/ Proceed(c)
        \/ CommitAckLost(c)
        \/ Abort(c)
    \/ Crash
    \/ Finished

Spec == Init /\ [][Next]_vars

\* The process runs every call on.  PostgreSQL queues the transactions that
\* wait for a row, so that none is passed over for ever: strong fairness for
\* what waits.
Fairness ==
    \A c \in Calls : /\ WF_vars(Proceed(c))
                     /\ SF_vars(TakeLock(c))
                     /\ SF_vars(Insert(c))

FairSpec == Spec /\ Fairness

----------------------------------------------------------------------------
(* Properties.                                                             *)

Row == [action : Ops \cup {"create"}, at : Nat,
        from : OrderStatus \cup {Absent}, to : OrderStatus \cup {Absent}]
Refund == [order : Orders, key : RefundKeys, processedAt : Nat]

TypeOK ==
    /\ step \in [Calls -> Steps]
    /\ req \in [Calls -> [op : Ops, order : OrderIds \cup {Absent},
                          key : RefundKeys \cup {Absent}]]
    /\ tx \in [Calls -> [now : Nat, status : OrderStatus \cup {Absent}, at : Nat]]
    /\ status \in [Orders -> OrderStatus]
    /\ confirmedAt \in [Orders -> Nat \cup {Absent}]
    /\ refunds \subseteq Refund
    /\ history \in [Orders -> SUBSET Row]
    /\ clock \in Nat

\* The rows of a status change (or the creation) among those of an order.
StatusRows(o) == {h \in history[o] : h.to # Absent}

\* h is the next of them after g in the order GET .../history returns.
NextRow(o, g, h) ==
    g.at < h.at /\ ~ \E x \in StatusRows(o) : g.at < x.at /\ x.at < h.at

(* docs/03: GET /admin/orders/:orderId/history returns the events in the   *)
(* order they happened.  Sorted by occurred_at, no two rows of an order    *)
(* are equal, each status change starts where the one before it ended,     *)
(* from the creation on, and the last one ends in the order's status, even *)
(* when calls waited for one another's row lock.                           *)
HistoryTellsStatus ==
    \A o \in Orders :
        /\ \A g, h \in history[o] : g.at = h.at => g = h
        /\ Created \in history[o]
        /\ \A g, h \in StatusRows(o) : NextRow(o, g, h) => h.from = g.to
        /\ \A g \in StatusRows(o) :
                (\A h \in StatusRows(o) : h.at <= g.at) => g.to = status[o]

(* docs/02 2-2: only an order whose payment was confirmed can be refunded, *)
(* and once.  An order has at most one refund; it was paid, and is not     *)
(* cancelled, before it or after; no two refunds share a request id; and   *)
(* the REFUNDED row is in the history exactly when the refund is there,    *)
(* though each is a query of its own and a call may fail between them.     *)
RefundsSound ==
    /\ \A f, g \in refunds : f.order = g.order \/ f.key = g.key => f = g
    /\ \A f \in refunds : /\ status[f.order] \notin {"PAYMENT_PENDING", "CANCELLED"}
                          /\ confirmedAt[f.order] # Absent
    /\ \A o \in Orders :
        RefundOf(o) # {} <=> \E h \in history[o] : h.action = "refund"

\* The answer c gets in this step, if it gets one.
Told(c, code) == step[c] \in InFlight /\ step'[c] = code

(* A refund answered OK has been made, for that order and under that       *)
(* request id, whichever of the concurrent calls or retries made it; it is *)
(* told that the order is refunded already only if another request id did  *)
(* it, or that the order is not to be refunded only if it is not; and that *)
(* its id is used elsewhere only if another order's refund has it.         *)
RefundAnswersTrue ==
    [][\A c \in Calls : req[c].op = "refund" =>
        /\ Told(c, "OK") =>
            \E f \in refunds : f.order = req[c].order /\ f.key = req[c].key
        /\ Told(c, "ORDER_STATE_CONFLICT") =>
            \/ status[req[c].order] \notin REFUNDABLE_STATUSES
            \/ \E f \in refunds : f.order = req[c].order /\ f.key # req[c].key
        /\ Told(c, "IDEMPOTENCY_CONFLICT") =>
            \E f \in refunds : f.order # req[c].order /\ f.key = req[c].key]_vars

(* order.updated is published, and the call answered OK, after COMMIT and  *)
(* outside the lock, so that a later change may be announced first.  What  *)
(* is announced has happened all the same: the history has the row of the  *)
(* change, and if the order's status is another one by now, it is because  *)
(* of a later row, so that an announcement can be old but never wrong.     *)
AnnouncedChangesHappened ==
    [][\A c \in Calls : Told(c, "OK") /\ req[c].op \in StatusOps =>
        \E g \in StatusRows(req[c].order) :
            /\ g.action = req[c].op /\ g.to = NewStatus(req[c].op)
            /\ status[req[c].order] # g.to =>
                    \E h \in StatusRows(req[c].order) : g.at < h.at]_vars

(* payment_confirmed_at is there exactly for the orders that were paid,    *)
(* and once set it never changes: a later change of status, a refund or a  *)
(* second confirmation does not move a sale to another day.                *)
PaymentInstantFixed ==
    [][\A o \in Orders :
        /\ confirmedAt'[o] # Absent <=> status'[o] \in REFUNDABLE_STATUSES
        /\ confirmedAt[o] # Absent => confirmedAt'[o] = confirmedAt[o]]_vars

\* The abstract state: what is committed.
Paid == [o \in Orders |-> confirmedAt[o] # Absent]
KeyOf(rows) == IF rows = {} THEN Absent ELSE (CHOOSE f \in rows : TRUE).key
RefundedBy == [o \in Orders |-> KeyOf(RefundOf(o))]

Book == INSTANCE OrderBook WITH paid <- Paid, refundedBy <- RefundedBy

(* The calls, with their locks, races and failures, implement the book in  *)
(* which every operation is instantaneous: two administrators who confirm  *)
(* and cancel the same order, or confirm it twice, never both succeed.     *)
ImplementsBook == Book!BookSpec

(* Unless the process dies, every call is answered: no set of calls waits  *)
(* for one another's rows and refund request ids for ever.                 *)
EveryCallAnswered ==
    \A c \in Calls : step[c] \in InFlight ~> step[c] \in Answers

----------------------------------------------------------------------------
(* What makes these properties inductive.                                  *)

\* Between the lock and COMMIT a call is the only one to have the order.
RowLockExclusive ==
    \A c, d \in Calls :
        step[c] \in Holding /\ step[d] \in Holding /\ req[c].order = req[d].order => c = d

\* Only refunds go through the steps of refund(), and they have a key.
RefundSteps ==
    \A c \in Calls :
        /\ req[c].op = "refund" => req[c].key \in RefundKeys
        /\ step[c] \in {"lookup", "insertRefund", "recordRefund", "orderRace", "keyRace"} =>
                req[c].op = "refund"

\* What a call read under its lock is still so.
ReadStillTrue ==
    \A c \in Calls : step[c] \in Holding =>
        /\ req[c].order \in Orders
        /\ tx[c].status = status[req[c].order]
        /\ tx[c].status \in OpenStatuses(req[c].op)

\* Its history row is later than those the order has.
WrittenIsLatest ==
    \A c \in Calls : step[c] = "written" =>
        /\ tx[c].at <= clock
        /\ \A h \in history[req[c].order] : h.at < tx[c].at

\* Its refund is in nobody's way.
WrittenIsUnique ==
    \A c \in Calls : step[c] \in Inserted /\ req[c].op = "refund" =>
        /\ RefundOf(req[c].order) = {} /\ RefundBy(req[c].key) = {}
        /\ \A d \in Calls : step[d] \in Inserted /\ req[d].op = "refund"
                            /\ req[d].key = req[c].key => d = c

\* The change a call is about to announce is in the history.
CommittedIsInHistory ==
    \A c \in Calls : step[c] = "committed" /\ req[c].op \in StatusOps =>
        /\ req[c].order \in Orders
        /\ \E g \in history[req[c].order] :
                g.action = req[c].op /\ g.to = NewStatus(req[c].op)

HistoryInThePast == \A o \in Orders : \A h \in history[o] : h.at <= clock

ConfirmedIsPaid ==
    \A o \in Orders : confirmedAt[o] # Absent <=> status[o] \in REFUNDABLE_STATUSES

IInv ==
    /\ TypeOK
    /\ RowLockExclusive /\ RefundSteps /\ ReadStillTrue
    /\ WrittenIsLatest /\ WrittenIsUnique /\ HistoryInThePast
    /\ ConfirmedIsPaid /\ HistoryTellsStatus /\ RefundsSound
=============================================================================
