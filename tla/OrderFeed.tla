----------------------------- MODULE OrderFeed ------------------------------
(***************************************************************************)
(* How the operators' screens learn of orders: GET /admin/orders, page by  *)
(* page, and the event order.created, which the realtime gateway emits to  *)
(* the sockets in the admin room.                                          *)
(*                                                                         *)
(* orders.created_at is now(), the instant of BEGIN, so an order may       *)
(* commit behind a page that has been read already; a page starts from the *)
(* row the cursor names, which the database looks up again; the event      *)
(* follows COMMIT and is kept nowhere.  The contract of docs/03 chapter 3  *)
(* makes up for what a list or a socket misses: a screen lists the orders  *)
(* again after every connection and after every event.                     *)
(*                                                                         *)
(* A call of POST /orders is one order here; OrderPlacement has the rest.  *)
(***************************************************************************)
EXTENDS Integers, FiniteSets

CONSTANTS
    Orders,     \* the ids of the orders to come; ids are ordered as uuids are,
                \* and no call knows the place of its own
    Screens,    \* the operators' browsers, each with one socket at a time
    Limits,     \* the values of the query parameter limit
    MaxTime,    \* the instants are 0 .. MaxTime
    None,       \* no cursor, no scroll
    Faults      \* which faults occur: "abort", "ackLost", "crash", "drop"

\* A list being read, see scroll.
Scroll == [limit : Limits, cursor : Orders \cup {None},
           seen : SUBSET Orders, since : SUBSET Orders]

ASSUME OrderFeedAssumption ==
    /\ Orders \subseteq Nat /\ IsFiniteSet(Orders)
    /\ Limits \subseteq Nat \ {0}
    /\ MaxTime \in Nat
    /\ None \notin Orders \cup Scroll
    /\ Faults \subseteq {"abort", "ackLost", "crash", "drop"}

VARIABLES
    call,       \* where the call that makes each order is
    createdAt,  \* orders.created_at, of a row that is or may come
    clock,      \* the clock of the database
    announced,  \* the orders whose order.created was emitted
    joined,     \* the screens with a socket in the admin room
    wire,       \* the events each socket was sent and has not received
    refetch,    \* the screens that must list the orders again
    scroll,     \* the list a screen is reading: limit, cursor, the orders on
                \* its pages so far, and the rows there were at its first page
    shown       \* the orders on the last complete list of each screen

vars == <<call, createdAt, clock, announced, joined, wire, refetch, scroll, shown>>

serverVars == <<call, createdAt, clock, announced>>
screenVars == <<joined, wire, refetch, scroll, shown>>

CallSteps == {"idle", "open", "committed", "silent", "failed"}

\* Mutant: READ UNCOMMITTED.
WrittenRows == {o \in Orders : call[o] \in CallSteps \ {"idle", "failed"}}

\* The committed rows of orders.
Rows == {o \in Orders : call[o] \in {"committed", "silent"}}

----------------------------------------------------------------------------
(* POST /orders, as far as the screens are concerned.                      *)

\* BEGIN, which fixes now() for the transaction.
Begin(o) ==
    /\ call[o] = "idle"
    /\ call' = [call EXCEPT ![o] = "open"]
    /\ createdAt' = [createdAt EXCEPT ![o] = clock]
    /\ UNCHANGED <<clock, announced, screenVars>>

\* COMMIT; with its acknowledgement lost, create() throws and does not publish.
Commit(o) ==
    /\ call[o] = "open"
    /\ \/ call' = [call EXCEPT ![o] = "committed"]
       \/ "ackLost" \in Faults /\ call' = [call EXCEPT ![o] = "silent"]
    /\ UNCHANGED <<createdAt, clock, announced, screenVars>>

Rollback(o) ==
    /\ "abort" \in Faults
    /\ call[o] = "open"
    /\ call' = [call EXCEPT ![o] = "failed"]
    /\ createdAt' = [createdAt EXCEPT ![o] = 0]
    /\ UNCHANGED <<clock, announced, screenVars>>

\* Mutant: order.created is published inside the transaction.
MayPublishEarly(o) == call[o] \in {"open", "committed"} /\ o \notin announced

MayPublish(o) == call[o] = "committed" /\ o \notin announced

\* events.publish, OrderEventListener, RealtimeService and emitToAdmins are
\* one synchronous call: every socket in the room is sent the event.
Publish(o) ==
    /\ MayPublish(o)
    /\ announced' = announced \cup {o}
    /\ wire' = [s \in Screens |-> IF s \in joined THEN wire[s] \cup {o} ELSE wire[s]]
    /\ UNCHANGED <<call, createdAt, clock, joined, refetch, scroll, shown>>

Tick ==
    /\ clock < MaxTime
    /\ clock' = clock + 1
    /\ UNCHANGED <<call, createdAt, announced, screenVars>>

----------------------------------------------------------------------------
(* GET /admin/orders                                                       *)

\* Mutant: ties of created_at are not broken by id.
OlderByTime(p, q) == createdAt[p] < createdAt[q]

\* (created_at, id) < (created_at, id)
Older(p, q) ==
    \/ createdAt[p] < createdAt[q]
    \/ createdAt[p] = createdAt[q] /\ p < q

\* Mutant: the page starts with the row of the cursor, <= in place of <.
FromCursor(cursor) ==
    IF cursor = None THEN Rows
    ELSE {o \in Rows : cursor \in Rows /\ (Older(o, cursor) \/ o = cursor)}

\* The rows of the WHERE clause; a cursor that names no row selects none.
Behind(cursor) ==
    IF cursor = None THEN Rows ELSE {o \in Rows : cursor \in Rows /\ Older(o, cursor)}

\* page is what ORDER BY created_at DESC, id DESC LIMIT n leaves of S: all of
\* it, or n rows with none older than a row left out.
IsPage(page, S, n) ==
    /\ page \subseteq S
    /\ \/ Cardinality(page) = n
       \/ page = S /\ Cardinality(S) < n
    /\ \A p \in page, q \in S \ page : ~Older(p, q)

\* The last row of the page.
Last(page) == {o \in page : \A p \in page : ~Older(p, o)}

\* A screen begins to list the orders.
StartScroll(s) ==
    /\ s \in refetch /\ scroll[s] = None
    /\ refetch' = refetch \ {s}
    /\ \E limit \in Limits :
        scroll' = [scroll EXCEPT ![s] =
                     [limit |-> limit, cursor |-> None, seen |-> {}, since |-> {}]]
    /\ UNCHANGED <<serverVars, joined, wire, shown>>

\* listForAdmin: one row more than the limit is read to know whether there is
\* a next page.  Without one the list is complete.
FetchPage(s) ==
    /\ scroll[s] # None
    /\ LET read  == scroll[s]
           since == IF read.cursor = None THEN Rows ELSE read.since
       IN \E rows \in SUBSET Behind(read.cursor) :
            /\ IsPage(rows, Behind(read.cursor), read.limit + 1)
            /\ \E page \in SUBSET rows :
                /\ IsPage(page, rows, read.limit)
                /\ IF Cardinality(rows) > read.limit
                   THEN /\ \E last \in Last(page) :
                            scroll' = [scroll EXCEPT ![s] =
                                         [limit |-> read.limit, cursor |-> last,
                                          seen |-> read.seen \cup page, since |-> since]]
                        /\ UNCHANGED shown
                   ELSE /\ scroll' = [scroll EXCEPT ![s] = None]
                        /\ shown' = [shown EXCEPT ![s] = read.seen \cup page]
    /\ UNCHANGED <<serverVars, joined, wire, refetch>>

----------------------------------------------------------------------------
(* The sockets.                                                            *)

\* handleConnection puts the socket into the room; the screen, once it is
\* connected, lists the orders.
Connect(s) ==
    /\ s \notin joined
    /\ joined' = joined \cup {s}
    /\ refetch' = refetch \cup {s}
    /\ UNCHANGED <<serverVars, wire, scroll, shown>>

\* An event arrives: the screen is to list the orders again.
Deliver(s) ==
    /\ \E o \in wire[s] : wire' = [wire EXCEPT ![s] = @ \ {o}]
    /\ refetch' = refetch \cup {s}
    /\ UNCHANGED <<serverVars, joined, scroll, shown>>

\* The connection breaks, the session expires or is logged out.
Drop(s) ==
    /\ "drop" \in Faults
    /\ s \in joined
    /\ joined' = joined \ {s}
    /\ wire' = [wire EXCEPT ![s] = {}]
    /\ UNCHANGED <<serverVars, refetch, scroll, shown>>

\* The server dies: open transactions roll back, an order not yet announced
\* stays so, and all sockets break.  The screens go on with their lists, by
\* asking for the page again, when it is back.
Crash ==
    /\ "crash" \in Faults
    /\ call' = [o \in Orders |->
                  IF call[o] = "open" THEN "failed"
                  ELSE IF MayPublish(o) THEN "silent" ELSE call[o]]
    /\ createdAt' = [o \in Orders |-> IF call[o] = "open" THEN 0 ELSE createdAt[o]]
    /\ joined' = {}
    /\ wire' = [s \in Screens |-> {}]
    /\ UNCHANGED <<clock, announced, refetch, scroll, shown>>

----------------------------------------------------------------------------
Init ==
    /\ call = [o \in Orders |-> "idle"]
    /\ createdAt = [o \in Orders |-> 0]
    /\ clock = 0
    /\ announced = {}
    /\ joined = {}
    /\ wire = [s \in Screens |-> {}]
    /\ refetch = {}
    /\ scroll = [s \in Screens |-> None]
    /\ shown = [s \in Screens |-> {}]

Next ==
    \/ \E o \in Orders :
        \/ Begin(o) \/ Commit(o) \/ Rollback(o) \/ Publish(o)
    \/ \E s \in Screens :
        \/ Connect(s) \/ Deliver(s) \/ Drop(s) \/ StartScroll(s) \/ FetchPage(s)
    \/ Tick
    \/ Crash

Spec == Init /\ [][Next]_vars

\* The process goes on from COMMIT to the event, the network delivers, and a
\* screen asks for the pages it needs and is answered.
Fairness ==
    /\ \A o \in Orders : WF_vars(Publish(o))
    /\ \A s \in Screens :
        WF_vars(Deliver(s)) /\ WF_vars(StartScroll(s)) /\ WF_vars(FetchPage(s))

FairSpec == Spec /\ Fairness

----------------------------------------------------------------------------
(* Properties.                                                             *)

\* Besides the types: nothing is listed or announced that has not committed.
TypeOK ==
    /\ call \in [Orders -> CallSteps]
    /\ createdAt \in [Orders -> Nat]
    /\ clock \in Nat
    /\ announced \in SUBSET Orders
    /\ joined \in SUBSET Screens
    /\ wire \in [Screens -> SUBSET Orders]
    /\ refetch \in SUBSET Screens
    /\ scroll \in [Screens -> Scroll \cup {None}]
    /\ shown \in [Screens -> SUBSET Orders]
    /\ \A o \in announced \cup UNION {shown[s] : s \in Screens} :
            call[o] \notin {"idle", "open", "failed"}

Scrolling(s) == scroll[s] # None /\ scroll[s].cursor # None

(* A list read page by page misses none of the orders that had committed   *)
(* when its first page was read, and repeats none, whatever the limit and  *)
(* the ties of created_at, while orders commit behind the cursor and ahead *)
(* of it: what has not been read yet is behind the cursor, and what has    *)
(* been read is not (orders.repository.ts findPage).                       *)
ScrollExact ==
    \A s \in Screens : Scrolling(s) =>
        /\ \A o \in scroll[s].since \ scroll[s].seen : Older(o, scroll[s].cursor)
        /\ \A o \in scroll[s].seen : ~Older(o, scroll[s].cursor)

(* docs/03 chapter 3: an event that got lost is made up for by listing the *)
(* orders again.  So a connected screen that has nothing to wait for shows *)
(* every order there is, except one whose event is about to be emitted or  *)
(* never will be, because the process died or the acknowledgement of its   *)
(* COMMIT was lost.  This needs the event to follow COMMIT, the socket to  *)
(* be in the room before the list is read, and the list to be complete.    *)
ScreenMissesNothing ==
    \A s \in joined :
        scroll[s] = None /\ s \notin refetch /\ wire[s] = {} =>
            Rows \ shown[s] \subseteq Orders \ announced

(* A connected screen comes to show every order whose call goes on after   *)
(* COMMIT, unless it loses its connection: the event is emitted, and       *)
(* listing the orders ends although new orders and events keep coming in.  *)
EventuallyListed ==
    \A s \in Screens, o \in Orders :
        call[o] = "committed" /\ s \in joined ~> o \in shown[s] \/ s \notin joined

----------------------------------------------------------------------------
(* What makes these properties inductive.                                  *)

\* What a screen has read, and what was announced, is committed.
OnlyCommitted ==
    /\ announced \subseteq Rows
    /\ \A s \in Screens :
        /\ shown[s] \subseteq Rows
        /\ scroll[s] # None =>
            /\ scroll[s].seen \subseteq Rows /\ scroll[s].since \subseteq Rows
            /\ scroll[s].cursor \in Rows \cup {None}
            /\ scroll[s].cursor = None => scroll[s].seen = {}

\* Why the screen s will show the order o, or does.
Covered(s, o) ==
    \/ o \in wire[s]
    \/ s \in refetch
    \/ scroll[s] # None /\ (scroll[s].cursor = None \/ o \in scroll[s].since)
    \/ scroll[s] = None /\ o \in shown[s]

AnnouncedCovered == \A s \in joined, o \in announced : Covered(s, o)

IInv == TypeOK /\ OnlyCommitted /\ ScrollExact /\ AnnouncedCovered
=============================================================================
