-------------------------------- MODULE Sales --------------------------------
(***************************************************************************)
(* POST /admin/sales/query: five aggregates of the orders paid, one query  *)
(* after another, while payments are confirmed, refunds made and midnight  *)
(* passes.                                                                 *)
(*                                                                         *)
(* The queries run in one REPEATABLE READ transaction, whose snapshot is   *)
(* taken by the first of them, not by BEGIN.  A sale belongs to the day,   *)
(* in Asia/Seoul, of payment_confirmed_at: the instant of BEGIN of the     *)
(* transaction that confirmed it, which may be long before its COMMIT.     *)
(* Instants are counted in UTC from some day's 00:00.  Orders are confirmed *)
(* and refunded by OrderLifecycle, of which only the two instants matter.  *)
(***************************************************************************)
EXTENDS Integers, FiniteSets, Functions

CONSTANTS
    Queries,
    Orders,
    Refundable,          \* the orders whose refund somebody asks for
    Items,               \* the order_items rows of each order
    DayLength, Offset,   \* of a day, and of 00:00 in Seoul before 00:00 UTC
    FirstDay, LastDay,   \* FESTIVAL_START_AT and FESTIVAL_END_AT
    LastInstant,         \* bounds the clock, to keep TLC finite
    LongestTx,           \* bounds how long a transaction runs, for the same
    Faults,              \* which faults occur: "abort", "crash"
    Absent

ASSUME SalesAssumption ==
    /\ Items \in [Orders -> SUBSET [menu : STRING, quantity : Nat \ {0}, unitPrice : Nat]]
    /\ IsFiniteSet(Orders)
    /\ \A o \in Orders : Items[o] # {} /\ IsFiniteSet(Items[o])
    /\ Refundable \subseteq Orders
    /\ DayLength \in Nat \ {0} /\ Offset \in 0 .. DayLength - 1
    /\ FirstDay \in Int /\ LastDay \in Int /\ FirstDay <= LastDay
    /\ LastInstant \in Nat /\ LongestTx \in Nat /\ Absent \notin Nat

VARIABLES
    now,
    confirmedAt,   \* orders.payment_confirmed_at, Absent for NULL
    processedAt,   \* order_refunds.processed_at, Absent without a refund
    step,          \* the query each call runs next; at the end, its answer
    asOf,          \* the instant at which it looked at the clock
    snapshot,      \* the payments and refunds its transaction sees
    view           \* what it has aggregated

vars == <<now, confirmedAt, processedAt, step, asOf, snapshot, view>>

Answers == {"OK", "SALES_PASSWORD_INVALID", "INTERNAL_ERROR"}
InTransaction == {"today", "festival", "daily", "menusToday", "menusFestival", "commit"}
Steps == {"password", "lost"} \cup InTransaction \cup Answers

----------------------------------------------------------------------------
(* Days and aggregates.                                                    *)

\* toKstDateString, and kstDateStringToRange of its result.
KstDate(t) == (t + Offset) \div DayLength
KstRange(d) == [from |-> d * DayLength - Offset, to |-> (d + 1) * DayLength - Offset]

FestivalPeriod == [from |-> KstRange(FirstDay).from, to |-> KstRange(LastDay).to]

\* Mutant: a payment at midnight belongs to no day.
InOpenRange(t, range) == range.from < t /\ t < range.to

\* payment_confirmed_at >= $1 AND payment_confirmed_at < $2
InRange(t, range) == range.from <= t /\ t < range.to

PaidIn(paid, range) == {o \in Orders : paid[o] # Absent /\ InRange(paid[o], range)}

\* orders JOIN order_items
Join(os) == UNION {{[order |-> o, item |-> i] : i \in Items[o]} : o \in os}

Quantity(rows) == SumFunction([r \in rows |-> r.item.quantity])
Amount(rows) == SumFunction([r \in rows |-> r.item.unitPrice * r.item.quantity])

\* Mutant: the sum of no rows is NULL.
SumOrNull(rows) ==
    IF rows = {} THEN [quantity |-> Absent, amount |-> Absent]
    ELSE [quantity |-> Quantity(rows), amount |-> Amount(rows)]

Sum(rows) == [quantity |-> Quantity(rows), amount |-> Amount(rows)]

Totals(paid, range) == Sum(Join(PaidIn(paid, range)))

\* date_trunc('day', payment_confirmed_at AT TIME ZONE 'Asia/Seoul')
SqlDate(t) == (t + Offset) \div DayLength

\* GROUP BY date: a day without a sale has no row.
DailyBreakdown(paid, range) ==
    LET os == PaidIn(paid, range) IN
    [d \in {SqlDate(paid[o]) : o \in os} |-> Sum(Join({o \in os : SqlDate(paid[o]) = d}))]

\* GROUP BY menu_id, menu_name.
ByMenu(paid, range) ==
    LET rows == Join(PaidIn(paid, range)) IN
    [m \in {r.item.menu : r \in rows} |-> Sum({r \in rows : r.item.menu = m})]

\* RefundAggregationService.getRefundedAmount does not look at the refunds.
RefundedAmount(refunded, range) == 0

----------------------------------------------------------------------------
(* The orders.                                                             *)

\* Only an order that is not paid can be confirmed, see PaymentInstantFixed.
Unpaid(o) == confirmedAt[o] = Absent

\* When a transaction that commits now may have begun.
Began == {t \in now - LongestTx .. now : t >= 0}

\* A confirmation commits.
ConfirmPayment(o) ==
    /\ Unpaid(o)
    /\ \E t \in Began : confirmedAt' = [confirmedAt EXCEPT ![o] = t]
    /\ UNCHANGED <<now, processedAt, step, asOf, snapshot, view>>

\* A refund of a paid order commits, its first.
Refund(o) ==
    /\ confirmedAt[o] # Absent /\ processedAt[o] = Absent
    /\ \E t \in Began : processedAt' = [processedAt EXCEPT ![o] = t]
    /\ UNCHANGED <<now, confirmedAt, step, asOf, snapshot, view>>

Tick ==
    /\ now < LastInstant
    /\ now' = now + 1
    /\ UNCHANGED <<confirmedAt, processedAt, step, asOf, snapshot, view>>

----------------------------------------------------------------------------
(* The query.                                                              *)

Goto(q, s) == step' = [step EXCEPT ![q] = s]
UnchangedOrders == UNCHANGED <<now, confirmedAt, processedAt>>

Nothing == [quantity |-> 0, amount |-> 0]
NoView == [today |-> Nothing, festival |-> Nothing, daily |-> <<>>, menusToday |-> <<>>,
           menusFestival |-> <<>>, todayRefunded |-> 0, festivalRefunded |-> 0]
NoSnapshot == [paid |-> <<>>, refunded |-> <<>>]

\* verifyAdminPassword says no.
PasswordWrong(q) ==
    /\ step[q] = "password"
    /\ Goto(q, "SALES_PASSWORD_INVALID")
    /\ UnchangedOrders /\ UNCHANGED <<asOf, snapshot, view>>

\* It says yes; the clock is read, and the transaction begins.
PasswordRight(q) ==
    /\ step[q] = "password"
    /\ asOf' = [asOf EXCEPT ![q] = now]
    /\ Goto(q, "today")
    /\ UnchangedOrders /\ UNCHANGED <<snapshot, view>>

Today(q) == KstRange(KstDate(asOf[q]))

\* The first query takes the snapshot.
TotalsToday(q) ==
    /\ step[q] = "today"
    /\ snapshot' = [snapshot EXCEPT ![q] = [paid |-> confirmedAt, refunded |-> processedAt]]
    /\ view' = [view EXCEPT ![q].today = Totals(confirmedAt, Today(q))]
    /\ Goto(q, "festival")
    /\ UnchangedOrders /\ UNCHANGED asOf

\* Mutant: READ COMMITTED, every query has a snapshot of its own.
PaidNow(q) == confirmedAt

\* The payments the queries after the first one see.
PaidSeen(q) == snapshot[q].paid

\* One more query, whose result goes to a field of the view.
Read(q, here, next, field, result) ==
    /\ step[q] = here
    /\ view' = [view EXCEPT ![q] = [@ EXCEPT ![field] = result]]
    /\ Goto(q, next)
    /\ UnchangedOrders /\ UNCHANGED <<asOf, snapshot>>

TotalsFestival(q) ==
    Read(q, "festival", "daily", "festival", Totals(PaidSeen(q), FestivalPeriod))

Daily(q) ==
    Read(q, "daily", "menusToday", "daily", DailyBreakdown(PaidSeen(q), FestivalPeriod))

MenusToday(q) ==
    Read(q, "menusToday", "menusFestival", "menusToday", ByMenu(PaidSeen(q), Today(q)))

MenusFestival(q) ==
    Read(q, "menusFestival", "commit", "menusFestival", ByMenu(PaidSeen(q), FestivalPeriod))

\* The refunded amounts are asked for, COMMIT, and the view is the answer.
Answer(q) ==
    /\ step[q] = "commit"
    /\ view' = [view EXCEPT
          ![q].todayRefunded = RefundedAmount(snapshot[q].refunded, Today(q)),
          ![q].festivalRefunded = RefundedAmount(snapshot[q].refunded, FestivalPeriod)]
    /\ Goto(q, "OK")
    /\ UnchangedOrders /\ UNCHANGED <<asOf, snapshot>>

\* The local variables of these calls are gone.
Forget(qs) ==
    /\ asOf' = [q \in Queries |-> IF q \in qs THEN Absent ELSE asOf[q]]
    /\ snapshot' = [q \in Queries |-> IF q \in qs THEN NoSnapshot ELSE snapshot[q]]
    /\ view' = [q \in Queries |-> IF q \in qs THEN NoView ELSE view[q]]

\* A query fails.
Abort(q) ==
    /\ "abort" \in Faults
    /\ step[q] \in {"password"} \cup InTransaction
    /\ Goto(q, "INTERNAL_ERROR")
    /\ Forget({q})
    /\ UnchangedOrders

\* The process dies.
Crash ==
    /\ "crash" \in Faults
    /\ step' = [q \in Queries |-> IF step[q] \in InTransaction THEN "lost" ELSE step[q]]
    /\ Forget({q \in Queries : step[q] \in InTransaction})
    /\ UnchangedOrders

\* Every query has been answered; only then may it stop.
Finished ==
    /\ \A q \in Queries : step[q] \in Answers \cup {"lost"}
    /\ UNCHANGED vars

Init ==
    /\ now = 0
    /\ confirmedAt = [o \in Orders |-> Absent]
    /\ processedAt = [o \in Orders |-> Absent]
    /\ step = [q \in Queries |-> "password"]
    /\ asOf = [q \in Queries |-> Absent]
    /\ snapshot = [q \in Queries |-> NoSnapshot]
    /\ view = [q \in Queries |-> NoView]

Aggregate(q) ==
    TotalsToday(q) \/ TotalsFestival(q) \/ Daily(q) \/ MenusToday(q) \/ MenusFestival(q)

Next ==
    \/ \E o \in Orders : ConfirmPayment(o)
    \/ \E o \in Refundable : Refund(o)
    \/ \E q \in Queries :
        \/ PasswordWrong(q) \/ PasswordRight(q)
        \/ Aggregate(q) \/ Answer(q)
        \/ Abort(q)
    \/ Tick
    \/ Crash
    \/ Finished

Spec == Init /\ [][Next]_vars

----------------------------------------------------------------------------
(* Properties.                                                             *)

TotalsType == [quantity : Nat, amount : Nat]

TypeOK ==
    /\ now \in 0 .. LastInstant
    /\ confirmedAt \in [Orders -> 0 .. now \cup {Absent}]
    /\ processedAt \in [Orders -> 0 .. now \cup {Absent}]
    /\ step \in [Queries -> Steps]
    /\ asOf \in [Queries -> 0 .. now \cup {Absent}]
    /\ \A q \in Queries :
        /\ view[q].today \in TotalsType /\ view[q].festival \in TotalsType
        /\ \A d \in DOMAIN view[q].daily : d \in Int /\ view[q].daily[d] \in TotalsType

\* The total of totals, one for each key of f.
TotalOf(f) ==
    [quantity |-> SumFunction([k \in DOMAIN f |-> f[k].quantity]),
     amount   |-> SumFunction([k \in DOMAIN f |-> f[k].amount])]

\* The days and the menus of the festival each add up to its total, the
\* menus of today to today's.
TotalsAgree(v) ==
    /\ v.festival = TotalOf(v.daily) /\ v.festival = TotalOf(v.menusFestival)
    /\ v.today = TotalOf(v.menusToday)

\* The days are those of the festival, and today's row is today's total.
DaysAgree(v, today) ==
    /\ DOMAIN v.daily \subseteq FirstDay .. LastDay
    /\ today \in FirstDay .. LastDay =>
          v.today = (IF today \in DOMAIN v.daily THEN v.daily[today] ELSE Sum({}))

(* The numbers of one answer agree, though payments are confirmed and      *)
(* midnight passes between its queries: the days and the menus of the      *)
(* festival each add up to its total, the menus of today to today's; and   *)
(* during the festival the row of today in daily is today's total.         *)
ViewConsistent ==
    \A q \in Queries : step[q] = "OK" =>
        TotalsAgree(view[q]) /\ DaysAgree(view[q], KstDate(asOf[q]))

\* What was sold on these days, by the calendar in Seoul.
Sold(paid, days) ==
    Amount(Join({o \in Orders : paid[o] # Absent /\ KstDate(paid[o]) \in days}))

(* An answer counts every payment its snapshot has on the days it is       *)
(* about, the first and the last instant of each included, and no other;   *)
(* and a payment that it counts is never taken back or moved afterwards.   *)
ViewExact ==
    \A q \in Queries : step[q] = "OK" =>
        /\ view[q].festival.amount = Sold(snapshot[q].paid, FirstDay .. LastDay)
        /\ view[q].today.amount = Sold(snapshot[q].paid, {KstDate(asOf[q])})
        /\ \A o \in Orders : snapshot[q].paid[o] \in {Absent, confirmedAt[o]}
=============================================================================
