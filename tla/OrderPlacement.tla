--------------------------- MODULE OrderPlacement ---------------------------
(***************************************************************************)
(* POST /orders: how a customer's request becomes exactly one order.       *)
(*                                                                         *)
(* OrdersService.create looks for an order with the request's              *)
(* orderRequestId, and when there is none opens a transaction that reads   *)
(* and locks the menus, issues the day's next number and inserts the       *)
(* order.  After COMMIT it publishes order.created.  Nothing but the       *)
(* database keeps two calls apart: the FOR SHARE locks on menus, the lock  *)
(* on the row of order_daily_counters that lasts from the upsert to the    *)
(* end of the transaction, and the unique indexes of orders, where an      *)
(* INSERT waits for an uncommitted row with the same value.  Each action   *)
(* is the stretch of one call between two such points.                     *)
(*                                                                         *)
(* The administrators' PATCHes of MenuCatalog run at the same time.        *)
(***************************************************************************)
EXTENDS MenuCatalog, OrderRequest

CONSTANTS
    Keys,       \* the values of orderRequestId
    Sent,       \* bound: those of the Bodies that calls are made with
    LastDay,    \* the days are 0 .. LastDay
    DayLabel    \* DayLabel[d]: the MMDD that starts the numbers of day d

Days == 0 .. LastDay

ASSUME OrderPlacementAssumption ==
    /\ Keys # {} /\ LastDay \in Nat
    /\ \A s \in DOMAIN LowerCase : LowerCase[s] \in MenuIds
    /\ Sent \subseteq Bodies /\ Absent \notin Bodies
    /\ DOMAIN DayLabel = Days
    /\ Absent \notin Requests

VARIABLES
    step,       \* where each call is; at the end, the code it answered
    body,       \* the orderRequestId and the body of each call
    number,     \* the day and the number its transaction was issued
    returned,   \* the order its answer describes
    orders,     \* the committed rows of orders, with their order_items
    counter,    \* the committed last_number of each day, 0 for no row
    today,      \* the date in Asia/Seoul
    events      \* the order.created events, in the order they were published

placementVars == <<step, body, number, returned, orders, counter, today, events>>
vars == <<menuVars, placementVars>>

Answers == {"OK", "MENU_UNAVAILABLE", "IDEMPOTENCY_CONFLICT", "INTERNAL_ERROR"}
InTransaction == {"menus", "number", "insert", "written"}
InFlight == InTransaction \cup {"lookup", "publish", "raceLookup"}
Steps == {"idle", "lost"} \cup InFlight \cup Answers

NoNumber == [day |-> 0, seq |-> 0]
NoBody   == [key |-> Absent, dto |-> Absent]

\* A call's orderRequestId and DTO, with mergedItems and fingerprint.
Body(k, dto) == [key |-> k, dto |-> dto, quantity |-> Quantity(dto),
                 fingerprint |-> RequestFingerprint(dto)]

\* The menus of the merged items.
Wanted(r) == DOMAIN body[r].quantity

Goto(r, s) == step' = [step EXCEPT ![r] = s]

Answer(r, code, order) ==
    /\ step' = [step EXCEPT ![r] = code]
    /\ returned' = [returned EXCEPT ![r] = order]

\* The transaction of r ends: its locks go.
EndTransaction(r) ==
    /\ ReleaseRows(r)
    /\ UNCHANGED <<menus, menuHistory, patchStep, patchReq, patchRow, txClock>>

\* Mutant: the counter is bumped outside the transaction.
RollbackAllButCounter(r) ==
    /\ EndTransaction(r) /\ UNCHANGED orders
    /\ counter' = IF step[r] = "insert"
                  THEN [counter EXCEPT ![number[r].day] = number[r].seq] ELSE counter

Rollback(r) == EndTransaction(r) /\ UNCHANGED <<orders, counter>>

----------------------------------------------------------------------------
(* What the database makes a call wait for.                                *)

\* Mutant: the counter is read by a SELECT that locks nothing.
CounterUnlocked(d) == {}

\* The upsert of a day's counter row locks it to the end of the transaction.
CounterHolders(d) ==
    {r \in Requests : step[r] \in {"insert", "written"} /\ number[r].day = d}

OrderNumber(n) == <<DayLabel[n.day], n.seq>>

\* Uncommitted rows an INSERT of r collides with in a unique index.
PendingTwins(r) ==
    {q \in Requests \ {r} :
        /\ step[q] = "written"
        /\ \/ body[q].key = body[r].key
           \/ OrderNumber(number[q]) = OrderNumber(number[r])}

WithKey(k) == {o \in orders : o.key = k}
WithNumber(n) == {o \in orders : OrderNumber(o.number) = OrderNumber(n)}

\* The row of r violates orders_order_request_id_key; the index of the order
\* numbers is the older one and is checked first.
DuplicateKey(r) ==
    /\ PendingTwins(r) = {}
    /\ WithNumber(number[r]) = {} /\ WithKey(body[r].key) # {}

\* Nobody has the request id or the number of r, committed or not.
Unique(r) ==
    /\ PendingTwins(r) = {}
    /\ WithNumber(number[r]) = {} /\ WithKey(body[r].key) = {}

----------------------------------------------------------------------------
(* OrdersService.create                                                    *)

Arrive(r, k, dto) ==
    /\ step[r] = "idle"
    /\ Goto(r, "lookup")
    /\ body' = [body EXCEPT ![r] = Body(k, dto)]
    /\ UNCHANGED <<menuVars, number, returned, orders, counter, today, events>>

\* Mutant: a retry publishes too.
ResolveAndPublish(r, o) == Answer(r, "OK", o.id) /\ events' = Append(events, o.id)

\* resolveExistingOrder: the same content gets the order back, another one
\* is a conflict.
Resolve(r, o) ==
    /\ IF o.fingerprint = body[r].fingerprint THEN Answer(r, "OK", o.id)
                                      ELSE Answer(r, "IDEMPOTENCY_CONFLICT", Absent)
    /\ UNCHANGED events

\* findByOrderRequestId before the transaction: there is such an order ...
FindExisting(r) ==
    /\ step[r] = "lookup"
    /\ \E o \in WithKey(body[r].key) : Resolve(r, o)
    /\ UNCHANGED <<menuVars, body, number, orders, counter, today>>

\* ... or there is none yet, and the transaction begins.
FindNone(r) ==
    /\ step[r] = "lookup"
    /\ WithKey(body[r].key) = {}
    /\ Goto(r, "menus")
    /\ UNCHANGED <<menuVars, body, number, returned, orders, counter, today, events>>

\* insertOrder: getSnapshotsForOrder locks and reads one more menu row.
ReadMenu(r) ==
    /\ step[r] = "menus"
    /\ \E m \in NextRow(r, Wanted(r)) : ShareRow(r, m)
    /\ UNCHANGED placementVars

AllRead(r) == NextRow(r, Wanted(r)) = {}

Orderable(r) ==
    /\ DOMAIN snapshot[r] = Wanted(r)
    /\ \A m \in DOMAIN snapshot[r] : snapshot[r][m].isAvailable

\* A menu is missing or sold out.
RefuseMenus(r) ==
    /\ step[r] = "menus" /\ AllRead(r)
    /\ ~Orderable(r)
    /\ Answer(r, "MENU_UNAVAILABLE", Absent)
    /\ Rollback(r)
    /\ UNCHANGED <<body, number, today, events>>

\* All can be ordered.  OrderNumberService.issue takes the date from the
\* process's clock before its query waits for anybody.
AcceptMenus(r) ==
    /\ step[r] = "menus" /\ AllRead(r)
    /\ Orderable(r)
    /\ Goto(r, "number")
    /\ number' = [number EXCEPT ![r] = [day |-> today, seq |-> 0]]
    /\ UNCHANGED <<menuVars, body, returned, orders, counter, today, events>>

\* Mutant: the value before the increment is used.
StaleNumber(d) == counter[d]

\* RETURNING last_number
NextNumber(d) == counter[d] + 1

\* INSERT ... ON CONFLICT DO UPDATE, when the day's row is free.
IssueNumber(r) ==
    /\ step[r] = "number"
    /\ CounterHolders(number[r].day) = {}
    /\ Goto(r, "insert")
    /\ LET d == number[r].day IN
       number' = [number EXCEPT ![r] = [day |-> d, seq |-> NextNumber(d)]]
    /\ UNCHANGED <<menuVars, body, returned, orders, counter, today, events>>

\* mergedItems.reduce
Total(unitPrice, quantity) ==
    SumFunction([m \in DOMAIN quantity |-> unitPrice[m] * quantity[m]])

UnitPrices(r) == [m \in Wanted(r) |-> snapshot[r][m].price]
TotalPrice(r) == Total(UnitPrices(r), body[r].quantity)

\* total_price and quantity are INTEGER columns.  The DTO has no upper bound
\* for a quantity, nor the menus one for a price.
TotalFits(r) == TotalPrice(r) <= MaxInt
QuantitiesFit(r) == \A m \in Wanted(r) : body[r].quantity[m] <= MaxInt

\* INSERT INTO orders, and then, in the same transaction and with nobody to
\* wait for, its order_items and the ORDER_CREATED row of order_history.
InsertOrder(r) ==
    /\ step[r] = "insert"
    /\ TotalFits(r) /\ QuantitiesFit(r) /\ Unique(r)
    /\ Goto(r, "written")
    /\ UNCHANGED <<menuVars, body, number, returned, orders, counter, today, events>>

\* A value is out of range: the total before any index is looked at, a
\* quantity when the row of orders is in already.
InsertOutOfRange(r) ==
    /\ step[r] = "insert"
    /\ \/ ~TotalFits(r)
       \/ TotalFits(r) /\ Unique(r) /\ ~QuantitiesFit(r)
    /\ Answer(r, "INTERNAL_ERROR", Absent)
    /\ Rollback(r)
    /\ UNCHANGED <<body, number, today, events>>

\* orders_order_number_key is violated, which create() does not handle.
InsertNumberTaken(r) ==
    /\ step[r] = "insert"
    /\ TotalFits(r)
    /\ PendingTwins(r) = {}
    /\ WithNumber(number[r]) # {}
    /\ Answer(r, "INTERNAL_ERROR", Absent)
    /\ Rollback(r)
    /\ UNCHANGED <<body, number, today, events>>

\* Another call has committed this orderRequestId.
InsertKeyTaken(r) ==
    /\ step[r] = "insert"
    /\ TotalFits(r)
    /\ DuplicateKey(r)
    /\ Goto(r, "raceLookup")
    /\ Rollback(r)
    /\ UNCHANGED <<body, number, returned, today, events>>

\* The second findByOrderRequestId; finding nothing rethrows the violation.
RaceLookup(r) ==
    /\ step[r] = "raceLookup"
    /\ IF WithKey(body[r].key) = {}
       THEN Answer(r, "INTERNAL_ERROR", Absent) /\ UNCHANGED events
       ELSE \E o \in WithKey(body[r].key) : Resolve(r, o)
    /\ UNCHANGED <<menuVars, body, number, orders, counter, today>>

\* The row the transaction of r inserts, and its order_items.
NewOrder(r) ==
    [id |-> r, key |-> body[r].key, fingerprint |-> body[r].fingerprint,
     number |-> number[r],
     unitPrice |-> UnitPrices(r),
     quantity |-> body[r].quantity, totalPrice |-> TotalPrice(r)]

CommitRows(r) ==
    /\ orders' = orders \cup {NewOrder(r)}
    /\ counter' = [counter EXCEPT ![number[r].day] = number[r].seq]

Commit(r) ==
    /\ step[r] = "written"
    /\ CommitRows(r)
    /\ EndTransaction(r)
    /\ Goto(r, "publish")
    /\ UNCHANGED <<body, number, returned, today, events>>

\* COMMIT takes effect but the connection breaks before it is acknowledged:
\* withTransaction rethrows, and create() with it.
CommitAckLost(r) ==
    /\ "ackLost" \in Faults
    /\ step[r] = "written"
    /\ CommitRows(r)
    /\ EndTransaction(r)
    /\ Answer(r, "INTERNAL_ERROR", Absent)
    /\ UNCHANGED <<body, number, today, events>>

\* Mutant: the event is forgotten.
EmitNothing(r) == UNCHANGED events

Emit(r) == events' = Append(events, r)

\* this.events.publish('order.created'), and the new order is returned.
Publish(r) ==
    /\ step[r] = "publish"
    /\ Emit(r)
    /\ Answer(r, "OK", r)
    /\ UNCHANGED <<menuVars, body, number, orders, counter, today>>

\* A query fails, or a lock wait exceeds statement_timeout.
Abort(r) ==
    /\ "abort" \in Faults
    /\ step[r] \in InTransaction \cup {"lookup", "raceLookup"}
    /\ Answer(r, "INTERNAL_ERROR", Absent)
    /\ Rollback(r)
    /\ UNCHANGED <<body, number, today, events>>

----------------------------------------------------------------------------
(* The surroundings.                                                       *)

Midnight ==
    /\ today < LastDay
    /\ today' = today + 1
    /\ UNCHANGED <<menuVars, step, body, number, returned, orders, counter, events>>

\* The process dies.  What had not committed is rolled back, what had is not
\* announced any more, and no call in flight is answered.
Crash ==
    /\ "crash" \in Faults
    /\ LosePatches
    /\ shared' = [r \in Requests |-> {}]
    /\ snapshot' = [r \in Requests |-> EmptySnapshot]
    /\ step' = [r \in Requests |-> IF step[r] \in InFlight THEN "lost" ELSE step[r]]
    /\ UNCHANGED <<menus, menuHistory, patchReq, patchRow, txClock>>
    /\ UNCHANGED <<body, number, returned, orders, counter, today, events>>

\* Every call has been made and has ended; only then may the system stop.
Finished ==
    /\ \A r \in Requests : step[r] \in Answers \cup {"lost"}
    /\ \A a \in Admins : patchStep[a] \in PatchAnswers \cup {"lost"}
    /\ UNCHANGED vars

----------------------------------------------------------------------------
Init ==
    /\ MenuInit
    /\ step = [r \in Requests |-> "idle"]
    /\ body = [r \in Requests |-> NoBody]
    /\ number = [r \in Requests |-> NoNumber]
    /\ returned = [r \in Requests |-> Absent]
    /\ orders = {}
    /\ counter = [d \in Days |-> 0]
    /\ today = 0
    /\ events = <<>>

\* What the program does for the call without anything going wrong.
Proceed(r) ==
    \/ FindExisting(r)
    \/ FindNone(r)
    \/ ReadMenu(r)
    \/ RefuseMenus(r)
    \/ AcceptMenus(r)
    \/ IssueNumber(r)
    \/ InsertOrder(r)
    \/ InsertOutOfRange(r)
    \/ InsertNumberTaken(r)
    \/ InsertKeyTaken(r)
    \/ RaceLookup(r)
    \/ Commit(r)
    \/ Publish(r)

Next ==
    \/ \E r \in Requests :
        \/ \E k \in Keys, dto \in Sent : Arrive(r, k, dto)
        \/ Proceed(r)
        \/ CommitAckLost(r)
        \/ Abort(r)
    \/ PatchNext /\ UNCHANGED placementVars
    \/ Midnight
    \/ Crash
    \/ Finished

Spec == Init /\ [][Next]_vars

\* The process runs every call on, and PostgreSQL grants a lock that is free.
\* Customers need not call, nor administrators, and no fault has to happen.
Fairness ==
    /\ \A r \in Requests : WF_vars(Proceed(r))
    /\ \A a \in Admins :
        WF_vars((PatchNotFound(a) \/ PatchLock(a) \/ PatchOutOfRange(a) \/ PatchCommit(a))
                    /\ UNCHANGED placementVars)

FairSpec == Spec /\ Fairness

----------------------------------------------------------------------------
(* Properties.                                                             *)

CallBodies == {Body(k, dto) : k \in Keys, dto \in Sent}
RequestFingerprints == {RequestFingerprint(dto) : dto \in Sent}
OrderedQuantities == {Quantity(dto) : dto \in Sent}
PossibleTotals ==
    UNION {{Total(p, q) : p \in [DOMAIN q -> Prices]} : q \in OrderedQuantities}

Order == [id : Requests, key : Keys, fingerprint : RequestFingerprints,
          number : [day : Days, seq : Nat \ {0}],
          unitPrice : UNION {[S -> Prices] : S \in SUBSET Menus},
          quantity : OrderedQuantities,
          totalPrice : {n \in PossibleTotals : n <= MaxInt}]

TypeOK ==
    /\ MenuTypeOK
    /\ step \in [Requests -> Steps]
    /\ body \in [Requests -> CallBodies \cup {NoBody}]
    /\ number \in [Requests -> [day : Days, seq : Nat]]
    /\ returned \in [Requests -> Requests \cup {Absent}]
    /\ orders \subseteq Order
    /\ counter \in [Days -> Nat]
    /\ today \in Days
    /\ events \in Seq(Requests)

Contents == [dto \in Sent |-> Content(dto)]

(* Merging loses no menu and no quantity, and a fingerprint tells apart    *)
(* exactly the bodies that order something else (mergeOrderItems,          *)
(* computeRequestFingerprint): for each of them, and each two.  This is    *)
(* the same in every state, so it is evaluated while nobody has called.    *)
NormalisationFaithful ==
    (\A r \in Requests : body[r] = NoBody) => FaithfulFor(Bodies)

\* The call r asked for what the order o was made of, or for something else.
SameContent(o, r) == Contents[body[o.id].dto] = Contents[body[r].dto]

(* docs/02 3-1: however many calls carry an orderRequestId, at the same    *)
(* time or as retries, one order comes of them; every call answered OK is  *)
(* given that order, which has the content the call sent, however it       *)
(* spelled, split or sorted it; and a call is told of a conflict only when *)
(* the order has another content.                                          *)
IdempotentAnswers ==
    /\ \A o, p \in orders : o.key = p.key => o = p
    /\ \A r \in Requests :
        /\ step[r] = "OK" =>
            \E o \in orders : /\ o.id = returned[r] /\ o.key = body[r].key
                              /\ SameContent(o, r)
        /\ step[r] = "IDEMPOTENCY_CONFLICT" =>
            \E o \in orders : o.key = body[r].key /\ ~SameContent(o, r)

\* The number issued to r bears the MMDD of another day, whose order has it.
NumberOfAnotherDay(r) ==
    \E o \in WithNumber(number[r]) : o.number.day # number[r].day

(* When no query fails and no acknowledgement is lost, a call is told      *)
(* INTERNAL_ERROR only because a value of its order does not fit its       *)
(* column, or because its number was given on the same MMDD of another     *)
(* year.  The races of create() never end in one: not two calls that want  *)
(* a number at the same time, for a violation of orders_order_number_key   *)
(* is rethrown; and not two with one orderRequestId, for the loser finds   *)
(* the order that was in its way.                                          *)
ServerErrorsExplained ==
    [][Faults \subseteq {"crash"} =>
        \A r \in Requests :
            step[r] # "INTERNAL_ERROR" /\ step'[r] = "INTERNAL_ERROR" =>
                /\ step[r] = "insert"
                /\ \/ ~TotalFits(r) \/ ~QuantitiesFit(r)
                   \/ NumberOfAnotherDay(r)]_vars

(* Order numbers are unique, and those of a day are exactly 1 up to the    *)
(* day's counter: calls that roll back leave no gap and none is issued     *)
(* twice, because the row lock of the upsert lasts until COMMIT.           *)
NumbersUniqueAndDense ==
    /\ \A o, p \in orders : OrderNumber(o.number) = OrderNumber(p.number) => o = p
    /\ \A d \in Days :
        {o.number.seq : o \in {p \in orders : p.number.day = d}} = 1 .. counter[d]

(* At the instant an order commits, every menu its body names is on sale   *)
(* at the unit price the order records, whatever the administrators did    *)
(* between its reading the menus and its COMMIT, and the total is what the *)
(* quantities cost at these prices.                                        *)
ChargesCurrentPrices ==
    [][\A o \in orders' \ orders :
        LET wanted == Contents[body[o.id].dto].quantity IN
        /\ DOMAIN o.unitPrice = DOMAIN wanted
        /\ \A m \in DOMAIN wanted :
                menus[m] = [price |-> o.unitPrice[m], isAvailable |-> TRUE]
        /\ o.totalPrice = Total(o.unitPrice, wanted)]_vars

(* order.created is published for committed orders only, and for none of   *)
(* them twice, however often its customer retries.  An order the kitchen   *)
(* was not told of is one whose own call is about to publish, died with    *)
(* the process or lost the acknowledgement of its COMMIT; a retry answered *)
(* OK does not make up for it.                                             *)
AnnouncedOnce ==
    /\ \A i \in DOMAIN events : \E o \in orders : o.id = events[i]
    /\ \A i, j \in DOMAIN events : events[i] = events[j] => i = j
    /\ \A o \in orders :
        \/ \E i \in DOMAIN events : events[i] = o.id
        \/ step[o.id] = "publish"
        \/ step[o.id] = "lost" /\ "crash" \in Faults
        \/ step[o.id] = "INTERNAL_ERROR" /\ "ackLost" \in Faults

ASSUME AbsentAssumption ==
    /\ Absent \notin [key : Keys, content : RequestFingerprints]
    /\ Absent \notin Answers

\* What a caller and the kitchen see of a state.
Asked == [r \in Requests |->
            IF body[r] = NoBody THEN Absent
            ELSE [key |-> body[r].key, content |-> body[r].fingerprint]]
Answered == [r \in Requests |->
               IF step[r] \in Answers THEN [code |-> step[r], order |-> returned[r]]
                                      ELSE [code |-> Absent, order |-> Absent]]

Intake == INSTANCE OrderIntake WITH
    Calls <- Requests, Contents <- RequestFingerprints, None <- Absent,
    asked <- Asked, answer <- Answered, taken <- {o.id : o \in orders}, heard <- events

(* However the calls interleave, fail and are retried, each seems to       *)
(* happen at an instant: an order comes into being at the COMMIT of its    *)
(* transaction, order.created is published once, after that and by the     *)
(* call that made the order, and every other answer is about an order that *)
(* stood when it was given.                                                *)
ImplementsIntake == Intake!Spec

(* Unless the process dies, every call is answered: the locks a call waits *)
(* for are all released, in spite of the different orders in which menus,  *)
(* counter and unique indexes are locked by calls and PATCHes.             *)
EveryCallAnswered ==
    \A r \in Requests : step[r] = "lookup" ~> step[r] \in Answers

(* docs/02 3-1: the same id with the same content returns the existing     *)
(* order.  So a call is not told MENU_UNAVAILABLE when there is one.       *)
RetryReturnsExisting ==
    [][\A r \in Requests :
            step[r] # "MENU_UNAVAILABLE" /\ step'[r] = "MENU_UNAVAILABLE" =>
                ~ \E o \in orders : o.key = body[r].key /\ SameContent(o, r)]_vars

----------------------------------------------------------------------------
(* What makes these properties inductive.                                  *)

\* What a call knows, and what it has locked, at each of its steps.
CallsConsistent ==
    \A r \in Requests :
        /\ step[r] = "idle" <=> body[r] = NoBody
        /\ step[r] \notin InTransaction => shared[r] = {}
        /\ step[r] \in {"number", "insert", "written"} => Orderable(r)
        /\ step[r] \in {"insert", "written"} =>
                number[r].seq = counter[number[r].day] + 1
        /\ step[r] = "written" =>
                Unique(r) /\ TotalPrice(r) <= MaxInt
        /\ step[r] = "publish" => \E o \in orders : o.id = r

\* A call that met the unique violation finds the winner's order: the INSERT
\* waited until the winner had committed.
RaceLookupFindsWinner ==
    \A r \in Requests : step[r] = "raceLookup" => WithKey(body[r].key) # {}

\* At most one call holds the row of a day's counter.
CounterExclusive ==
    \A d \in Days : \A q, r \in CounterHolders(d) : q = r

\* An order is what its call asked for, and one call makes one order.
OrdersConsistent ==
    /\ \A o \in orders :
        /\ body[o.id] # NoBody /\ o.key = body[o.id].key
        /\ o.fingerprint = body[o.id].fingerprint
        /\ step[o.id] \in {"publish", "OK", "lost", "INTERNAL_ERROR"}
    /\ \A o, p \in orders : o.id = p.id => o = p

\* IdempotentAnswers, with the fingerprints in place of the contents.
AnswersConsistent ==
    /\ \A o, p \in orders : o.key = p.key => o = p
    /\ \A r \in Requests :
        /\ step[r] = "OK" =>
            \E o \in orders : /\ o.id = returned[r] /\ o.key = body[r].key
                              /\ o.fingerprint = body[r].fingerprint
        /\ step[r] = "IDEMPOTENCY_CONFLICT" =>
            \E o \in orders : o.key = body[r].key /\ o.fingerprint # body[r].fingerprint

\* An order is announced by the call that made it, as its last step.
EventsConsistent == \A i \in DOMAIN events : step[events[i]] = "OK"

IInv ==
    /\ TypeOK /\ MenusConsistent
    /\ CallsConsistent /\ CounterExclusive /\ OrdersConsistent /\ EventsConsistent
    /\ AnswersConsistent /\ RaceLookupFindsWinner /\ NumbersUniqueAndDense
    /\ AnnouncedOnce
=============================================================================
