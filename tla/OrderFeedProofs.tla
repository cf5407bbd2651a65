-------------------------- MODULE OrderFeedProofs ---------------------------
(***************************************************************************)
(* Proofs about OrderFeed, for any orders, screens, limits of a page,      *)
(* instants and faults.                                                    *)
(***************************************************************************)
EXTENDS OrderFeed, FiniteSetTheorems, TLAPS

USE OrderFeedAssumption

----------------------------------------------------------------------------
(* The order of the rows, and a page of them.                              *)

(* Rows are totally ordered by (created_at, id), in spite of ties.         *)
LEMMA OlderTotal ==
    ASSUME TypeOK, NEW p \in Orders, NEW q \in Orders
    PROVE  /\ ~Older(p, q) /\ p # q => Older(q, p)
           /\ Older(p, q) => ~Older(q, p)
  <1>1. createdAt[p] \in Nat /\ createdAt[q] \in Nat /\ p \in Nat /\ q \in Nat
    BY DEF TypeOK
  <1> QED
    BY <1>1 DEF Older

LEMMA OlderTransitive ==
    ASSUME TypeOK, NEW p \in Orders, NEW q \in Orders, NEW x \in Orders,
           Older(p, q), Older(q, x)
    PROVE  Older(p, x)
  <1>1. /\ createdAt[p] \in Nat /\ createdAt[q] \in Nat /\ createdAt[x] \in Nat
        /\ p \in Nat /\ q \in Nat /\ x \in Nat
    BY DEF TypeOK
  <1> QED
    BY <1>1 DEF Older

(* With LIMIT limit + 1 rows read and limit of them kept, nothing that was *)
(* left out is younger than a row of the page.                             *)
LEMMA PageOfPage ==
    ASSUME NEW S, NEW rows, NEW page, NEW n,
           IsPage(rows, S, n + 1), IsPage(page, rows, n)
    PROVE  page \subseteq S /\ \A p \in page, q \in S \ page : ~Older(p, q)
  BY DEF IsPage

(* When no more than limit rows were found, the page has all of them.      *)
LEMMA LastPageHasAll ==
    ASSUME NEW S \in SUBSET Orders, NEW n \in Nat, NEW rows, NEW page,
           IsPage(rows, S, n + 1), IsPage(page, rows, n), ~(Cardinality(rows) > n)
    PROVE  page = S
  <1>1. rows \subseteq Orders /\ page \subseteq rows
    BY DEF IsPage
  <1>2. IsFiniteSet(rows) /\ Cardinality(rows) \in Nat
    BY <1>1, FS_Subset, FS_CardinalityType
  <1>3. rows = S
    BY <1>2 DEF IsPage
  <1>4. /\ Cardinality(page) <= Cardinality(rows)
        /\ Cardinality(rows) = Cardinality(page) => rows = page
    BY <1>1, <1>2, FS_Subset
  <1>5. IsFiniteSet(page) /\ Cardinality(page) \in Nat
    BY <1>1, <1>2, FS_Subset, FS_CardinalityType
  <1>6. CASE Cardinality(page) = n
    BY <1>2, <1>3, <1>4, <1>5, <1>6
  <1> QED
    BY <1>3, <1>6 DEF IsPage

----------------------------------------------------------------------------
(* Type correctness.                                                       *)

(* The rows a page is taken from are committed.                            *)
LEMMA BehindIsCommitted ==
    ASSUME NEW cursor
    PROVE  Behind(cursor) \subseteq Rows /\ Rows \subseteq Orders
  BY DEF Behind, Rows

\* What FetchPage does for the screen s: limit, page and all it read.
Fetches(s, page, S) ==
    /\ scroll[s] \in Scroll /\ scroll[s] # None
    /\ S = Behind(scroll[s].cursor) /\ page \subseteq S
    /\ \A p \in page, q \in S \ page : ~Older(p, q)
    /\ UNCHANGED <<serverVars, joined, wire, refetch>>

(* FetchPage either goes on from the last row of a page or ends the list   *)
(* with all the rows there are behind the cursor.                          *)
LEMMA FetchCases ==
    ASSUME IInv, NEW s \in Screens, FetchPage(s)
    PROVE  \E page \in SUBSET Orders :
             /\ Fetches(s, page, Behind(scroll[s].cursor))
             /\ \/ /\ \E last \in Last(page) :
                        scroll' = [scroll EXCEPT ![s] =
                            [limit |-> scroll[s].limit, cursor |-> last,
                             seen  |-> scroll[s].seen \cup page,
                             since |-> IF scroll[s].cursor = None THEN Rows
                                                                  ELSE scroll[s].since]]
                   /\ UNCHANGED shown
                \/ /\ page = Behind(scroll[s].cursor)
                   /\ scroll' = [scroll EXCEPT ![s] = None]
                   /\ shown' = [shown EXCEPT ![s] = scroll[s].seen \cup page]
  <1> DEFINE read == scroll[s]
             S == Behind(scroll[s].cursor)
             since == IF read.cursor = None THEN Rows ELSE read.since
  <1>1. read \in Scroll /\ read # None /\ read.limit \in Nat
    BY DEF IInv, TypeOK, FetchPage, Scroll
  <1>2. S \in SUBSET Orders
    BY BehindIsCommitted
  <1>3. PICK rows \in SUBSET S, page \in SUBSET S :
            /\ page \subseteq rows
            /\ IsPage(rows, S, read.limit + 1) /\ IsPage(page, rows, read.limit)
            /\ IF Cardinality(rows) > read.limit
               THEN /\ \E last \in Last(page) :
                            scroll' = [scroll EXCEPT ![s] =
                                         [limit |-> read.limit, cursor |-> last,
                                          seen |-> read.seen \cup page, since |-> since]]
                    /\ UNCHANGED shown
               ELSE /\ scroll' = [scroll EXCEPT ![s] = None]
                    /\ shown' = [shown EXCEPT ![s] = read.seen \cup page]
    BY DEF FetchPage
  <1>4. page \in SUBSET Orders /\ Fetches(s, page, S)
    BY <1>1, <1>2, <1>3, PageOfPage DEF Fetches, FetchPage
  <1>5. CASE Cardinality(rows) > read.limit
    BY <1>3, <1>4, <1>5
  <1>6. CASE ~(Cardinality(rows) > read.limit)
    <2>1. page = S
      BY <1>1, <1>2, <1>3, <1>6, LastPageHasAll
    <2> QED
      BY <1>3, <1>4, <1>6, <2>1
  <1> QED
    BY <1>5, <1>6

(* Rows only come, and keep their created_at.                              *)
LEMMA RowsStep ==
    ASSUME TypeOK, [Next]_vars
    PROVE  Rows \subseteq Rows' /\ \A o \in Rows : createdAt'[o] = createdAt[o]
  <1> USE DEF TypeOK, Rows
  <1>1. ASSUME NEW o \in Orders, Begin(o) \/ Commit(o) \/ Rollback(o) \/ Publish(o)
        PROVE  Rows \subseteq Rows' /\ \A p \in Rows : createdAt'[p] = createdAt[p]
    BY <1>1 DEF Begin, Commit, Rollback, Publish
  <1>2. ASSUME NEW s \in Screens,
               Connect(s) \/ Deliver(s) \/ Drop(s) \/ StartScroll(s) \/ FetchPage(s)
        PROVE  Rows \subseteq Rows' /\ \A p \in Rows : createdAt'[p] = createdAt[p]
    <2>1. call' = call /\ createdAt' = createdAt
      BY <1>2 DEF Connect, Deliver, Drop, StartScroll, FetchPage, serverVars
    <2> QED
      BY <2>1
  <1>3. CASE Tick \/ Crash \/ UNCHANGED vars
    BY <1>3 DEF Tick, Crash, MayPublish, vars
  <1> QED
    BY <1>1, <1>2, <1>3 DEF Next

(* What becomes of the list a screen is reading keeps its type.            *)
LEMMA ScrollStep ==
    ASSUME IInv, [Next]_vars
    PROVE  /\ scroll' \in [Screens -> Scroll \cup {None}]
           /\ shown' \in [Screens -> SUBSET Orders]
           /\ \A s \in Screens :
                /\ shown'[s] \subseteq Rows
                /\ scroll'[s] # None =>
                    /\ scroll'[s].seen \subseteq Rows /\ scroll'[s].since \subseteq Rows
                    /\ scroll'[s].cursor \in Rows \cup {None}
                    /\ scroll'[s].cursor = None => scroll'[s].seen = {}
  <1> USE DEF IInv, TypeOK, OnlyCommitted
  <1>1. CASE UNCHANGED <<scroll, shown>>
    BY <1>1
  <1>2. ASSUME NEW s \in Screens, StartScroll(s)
        PROVE  /\ scroll' \in [Screens -> Scroll \cup {None}] /\ shown' = shown
               /\ \A t \in Screens \ {s} : scroll'[t] = scroll[t]
               /\ scroll'[s].cursor = None /\ scroll'[s].seen = {} /\ scroll'[s].since = {}
    <2>1. PICK limit \in Limits :
            scroll' = [scroll EXCEPT ![s] =
                        [limit |-> limit, cursor |-> None, seen |-> {}, since |-> {}]]
      BY <1>2 DEF StartScroll
    <2>2. [limit |-> limit, cursor |-> None, seen |-> {}, since |-> {}] \in Scroll
      BY DEF Scroll
    <2>3. shown' = shown
      BY <1>2 DEF StartScroll
    <2> QED
      BY <2>1, <2>2, <2>3
  <1>3. ASSUME NEW s \in Screens, FetchPage(s)
        PROVE  /\ scroll' \in [Screens -> Scroll \cup {None}]
               /\ shown' \in [Screens -> SUBSET Orders]
               /\ \A t \in Screens \ {s} : scroll'[t] = scroll[t] /\ shown'[t] = shown[t]
               /\ shown'[s] \subseteq Rows
               /\ scroll'[s] # None =>
                    /\ scroll'[s].seen \subseteq Rows /\ scroll'[s].since \subseteq Rows
                    /\ scroll'[s].cursor \in Rows
    <2> DEFINE read == scroll[s]
               since == IF read.cursor = None THEN Rows ELSE read.since
    <2>1. PICK page \in SUBSET Orders :
             /\ Fetches(s, page, Behind(read.cursor))
             /\ \/ /\ \E last \in Last(page) :
                        scroll' = [scroll EXCEPT ![s] =
                            [limit |-> read.limit, cursor |-> last,
                             seen  |-> read.seen \cup page, since |-> since]]
                   /\ UNCHANGED shown
                \/ /\ page = Behind(read.cursor)
                   /\ scroll' = [scroll EXCEPT ![s] = None]
                   /\ shown' = [shown EXCEPT ![s] = read.seen \cup page]
      BY <1>3, FetchCases
    <2>2. page \subseteq Rows /\ read \in Scroll /\ read # None /\ Rows \subseteq Orders
      BY <2>1, BehindIsCommitted DEF Fetches
    <2>3. read.seen \subseteq Rows /\ since \subseteq Rows /\ read.limit \in Limits
      BY <2>2 DEF Scroll
    <2> HIDE DEF since
    <2>4. CASE shown' = shown /\ \E last \in Last(page) :
                        scroll' = [scroll EXCEPT ![s] =
                            [limit |-> read.limit, cursor |-> last,
                             seen  |-> read.seen \cup page, since |-> since]]
      <3>1. PICK last \in Last(page) :
                scroll' = [scroll EXCEPT ![s] =
                            [limit |-> read.limit, cursor |-> last,
                             seen  |-> read.seen \cup page, since |-> since]]
        BY <2>4
      <3>2. last \in Rows
        BY <2>2, <3>1 DEF Last
      <3>3. [limit |-> read.limit, cursor |-> last,
             seen  |-> read.seen \cup page, since |-> since] \in Scroll
        BY <2>2, <2>3, <3>2 DEF Scroll
      <3> QED
        BY <2>2, <2>3, <2>4, <3>1, <3>2, <3>3
    <2>5. CASE /\ scroll' = [scroll EXCEPT ![s] = None]
               /\ shown' = [shown EXCEPT ![s] = read.seen \cup page]
      BY <2>2, <2>3, <2>5
    <2> QED
      BY <2>1, <2>4, <2>5 DEF since
  <1>4. \/ UNCHANGED <<scroll, shown>>
        \/ \E s \in Screens : StartScroll(s) \/ FetchPage(s)
    BY DEF Next, Begin, Commit, Rollback, Publish, Connect, Deliver, Drop, Tick, Crash,
           screenVars, vars
  <1>5. CASE \E s \in Screens : StartScroll(s)
    <2>1. PICK s \in Screens : StartScroll(s)
      BY <1>5
    <2>2. shown' = shown /\ \A t \in Screens \ {s} : scroll'[t] = scroll[t]
      BY <1>2, <2>1
    <2>3. /\ scroll' \in [Screens -> Scroll \cup {None}]
          /\ scroll'[s].cursor = None /\ scroll'[s].seen = {} /\ scroll'[s].since = {}
      BY <1>2, <2>1
    <2>4. ASSUME NEW t \in Screens
          PROVE  /\ shown'[t] \subseteq Rows
                 /\ scroll'[t] # None =>
                    /\ scroll'[t].seen \subseteq Rows /\ scroll'[t].since \subseteq Rows
                    /\ scroll'[t].cursor \in Rows \cup {None}
                    /\ scroll'[t].cursor = None => scroll'[t].seen = {}
      BY <2>2, <2>3
    <2> QED
      BY <2>2, <2>3, <2>4
  <1>6. CASE \E s \in Screens : FetchPage(s)
    <2>1. PICK s \in Screens : FetchPage(s)
      BY <1>6
    <2>2. None \notin Rows
      BY DEF Rows
    <2> QED
      BY <1>3, <2>1, <2>2
  <1> QED
    BY <1>1, <1>4, <1>5, <1>6

(* Types are kept, and nothing uncommitted is listed or announced.         *)
LEMMA TypeStep ==
    ASSUME IInv, [Next]_vars
    PROVE  TypeOK' /\ OnlyCommitted'
  <1>0. TypeOK
    BY DEF IInv
  <1>1. /\ call' \in [Orders -> CallSteps] /\ createdAt' \in [Orders -> Nat] /\ clock' \in Nat
        /\ announced' \in SUBSET Orders /\ announced' \subseteq Rows'
    <2> USE DEF TypeOK, CallSteps
    <2>0. announced \subseteq Rows'
      BY <1>0, RowsStep DEF IInv, OnlyCommitted
    <2>1. ASSUME NEW o \in Orders, Begin(o) \/ Commit(o) \/ Rollback(o)
          PROVE  /\ call' \in [Orders -> CallSteps] /\ createdAt' \in [Orders -> Nat]
                 /\ clock' = clock /\ announced' = announced
      BY <1>0, <2>1 DEF Begin, Commit, Rollback
    <2>2. ASSUME NEW o \in Orders, Publish(o)
          PROVE  /\ call' = call /\ createdAt' = createdAt /\ clock' = clock
                 /\ announced' = announced \cup {o} /\ o \in Rows'
      BY <1>0, <2>2 DEF Publish, MayPublish, Rows
    <2>3. ASSUME NEW s \in Screens,
                 Connect(s) \/ Deliver(s) \/ Drop(s) \/ StartScroll(s) \/ FetchPage(s)
          PROVE  UNCHANGED <<call, createdAt, clock, announced>>
      BY <2>3 DEF Connect, Deliver, Drop, StartScroll, FetchPage, serverVars
    <2>4. CASE Tick
      <3>1. /\ clock' = clock + 1 /\ announced' = announced /\ call' = call
            /\ createdAt' = createdAt
        BY <2>4 DEF Tick
      <3> QED
        BY <1>0, <2>0, <3>1
    <2>5. CASE Crash
      <3>1. call' \in [Orders -> CallSteps]
        BY <1>0, <2>5 DEF Crash
      <3>2. createdAt' \in [Orders -> Nat]
        BY <1>0, <2>5 DEF Crash
      <3>3. clock' = clock /\ announced' = announced
        BY <2>5 DEF Crash
      <3> QED
        BY <1>0, <2>0, <3>1, <3>2, <3>3
    <2>6. CASE UNCHANGED vars
      <3>1. clock' = clock /\ announced' = announced /\ call' = call /\ createdAt' = createdAt
        BY <2>6 DEF vars
      <3> QED
        BY <1>0, <2>0, <3>1
    <2>7. /\ call \in [Orders -> CallSteps] /\ createdAt \in [Orders -> Nat] /\ clock \in Nat
          /\ announced \in SUBSET Orders
      BY <1>0
    <2> HIDE DEF TypeOK, CallSteps
    <2> QED
      BY <2>0, <2>1, <2>2, <2>3, <2>4, <2>5, <2>6, <2>7 DEF Next
  <1>2. joined' \in SUBSET Screens /\ wire' \in [Screens -> SUBSET Orders]
        /\ refetch' \in SUBSET Screens
    <2> USE DEF TypeOK
    <2>1. ASSUME NEW o \in Orders, Publish(o)
          PROVE  wire' \in [Screens -> SUBSET Orders] /\ joined' = joined /\ refetch' = refetch
      BY <1>0, <2>1 DEF Publish
    <2>2. ASSUME NEW s \in Screens, Connect(s) \/ Drop(s)
          PROVE  /\ joined' \in SUBSET Screens /\ wire' \in [Screens -> SUBSET Orders]
                 /\ refetch' \in SUBSET Screens
      BY <1>0, <2>2 DEF Connect, Drop
    <2>3. ASSUME NEW s \in Screens, Deliver(s)
          PROVE  /\ joined' = joined /\ wire' \in [Screens -> SUBSET Orders]
                 /\ refetch' \in SUBSET Screens
      <3>1. PICK o : wire' = [wire EXCEPT ![s] = @ \ {o}]
        BY <2>3 DEF Deliver
      <3> QED
        BY <1>0, <2>3, <3>1 DEF Deliver
    <2>4. ASSUME NEW s \in Screens, StartScroll(s) \/ FetchPage(s)
          PROVE  joined' = joined /\ wire' = wire /\ refetch' \in SUBSET Screens
      BY <1>0, <2>4 DEF StartScroll, FetchPage
    <2>5. CASE \E o \in Orders : Begin(o) \/ Commit(o) \/ Rollback(o)
      BY <1>0, <2>5 DEF Begin, Commit, Rollback, screenVars
    <2>6. CASE Tick \/ Crash \/ UNCHANGED vars
      BY <1>0, <2>6 DEF Tick, Crash, screenVars, vars
    <2>7. /\ joined \in SUBSET Screens /\ wire \in [Screens -> SUBSET Orders]
          /\ refetch \in SUBSET Screens
      BY <1>0
    <2> HIDE DEF TypeOK
    <2> QED
      BY <2>1, <2>2, <2>3, <2>4, <2>5, <2>6, <2>7 DEF Next
  <1>3. OnlyCommitted'
    BY <1>0, <1>1, RowsStep, ScrollStep DEF OnlyCommitted
  <1>4. \A o \in announced' \cup UNION {shown'[s] : s \in Screens} :
            call'[o] \notin {"idle", "open", "failed"}
    <2>1. ASSUME NEW o \in announced' \cup UNION {shown'[s] : s \in Screens}
          PROVE  o \in Rows'
      BY <1>3, <2>1 DEF OnlyCommitted
    <2> QED
      BY <2>1 DEF Rows
  <1> QED
    BY <1>1, <1>2, <1>3, <1>4, ScrollStep DEF TypeOK

----------------------------------------------------------------------------
(* Lists.                                                                  *)

(* Where a list has been, no row is read or missed later.                  *)
LEMMA ScrollExactStep ==
    ASSUME IInv, [Next]_vars
    PROVE  ScrollExact'
  <1>0. TypeOK /\ TypeOK' /\ OnlyCommitted /\ ScrollExact
    BY TypeStep DEF IInv
  <1>1. \A p, q \in Rows : Older(p, q)' <=> Older(p, q)
    BY <1>0, RowsStep DEF Older
  <1>2. ASSUME NEW s \in Screens, scroll'[s] = scroll[s], Scrolling(s)'
        PROVE  /\ \A o \in scroll'[s].since \ scroll'[s].seen : Older(o, scroll[s].cursor)'
               /\ \A o \in scroll'[s].seen : ~Older(o, scroll[s].cursor)'
    <2>1. /\ scroll[s].seen \subseteq Rows /\ scroll[s].since \subseteq Rows
          /\ scroll[s].cursor \in Rows /\ Scrolling(s)
      BY <1>0, <1>2 DEF Scrolling, OnlyCommitted
    <2> QED
      BY <1>0, <1>1, <1>2, <2>1 DEF ScrollExact
  <1>3. ASSUME NEW s \in Screens, FetchPage(s), Scrolling(s)'
        PROVE  /\ \A o \in scroll'[s].since \ scroll'[s].seen : Older(o, scroll[s].cursor)'
               /\ \A o \in scroll'[s].seen : ~Older(o, scroll[s].cursor)'
    <2> DEFINE read == scroll[s]
               since == IF read.cursor = None THEN Rows ELSE read.since
    <2>0. PICK page \in SUBSET Orders :
             /\ Fetches(s, page, Behind(read.cursor))
             /\ \/ \E last \in Last(page) :
                        scroll' = [scroll EXCEPT ![s] =
                            [limit |-> read.limit, cursor |-> last,
                             seen  |-> read.seen \cup page, since |-> since]]
                \/ scroll' = [scroll EXCEPT ![s] = None]
      BY <1>3, FetchCases
    <2>a. scroll' # [scroll EXCEPT ![s] = None]
      BY <1>0, <1>3 DEF Scrolling, TypeOK
    <2>1. PICK last \in Last(page) :
             scroll' = [scroll EXCEPT ![s] =
                            [limit |-> read.limit, cursor |-> last,
                             seen  |-> read.seen \cup page, since |-> since]]
      BY <2>0, <2>a
    <2>2. /\ page \subseteq Behind(read.cursor) /\ read \in Scroll /\ read # None
          /\ \A p \in page, q \in Behind(read.cursor) \ page : ~Older(p, q)
      BY <2>0 DEF Fetches
    <2>3. /\ Behind(read.cursor) \subseteq Rows /\ Rows \subseteq Orders
          /\ last \in page /\ \A p \in page : ~Older(p, last)
      BY <2>1, <2>2, BehindIsCommitted DEF Last
    <2>4. /\ scroll'[s].cursor = last /\ scroll'[s].since = since
          /\ scroll'[s].seen = read.seen \cup page
      BY <1>0, <2>1 DEF TypeOK
    <2>5. read.seen \subseteq Rows /\ since \subseteq Rows
      BY <1>0, <2>2 DEF OnlyCommitted
    <2>6. ASSUME NEW o \in since \ (read.seen \cup page)
          PROVE  Older(o, last)
      <3>1. o \in Behind(read.cursor)
        <4>1. CASE read.cursor = None
          BY <4>1, <2>6 DEF Behind
        <4>2. CASE read.cursor # None
          <5>1. read.cursor \in Rows /\ Older(o, read.cursor)
            BY <1>0, <2>2, <2>6, <4>2 DEF OnlyCommitted, ScrollExact, Scrolling
          <5> QED
            BY <2>5, <2>6, <4>2, <5>1 DEF Behind
        <4> QED
          BY <4>1, <4>2
      <3>2. ~Older(last, o) /\ o # last /\ o \in Orders /\ last \in Orders
        BY <2>2, <2>3, <2>6, <3>1
      <3> QED
        BY <1>0, <3>2, OlderTotal
    <2>7. ASSUME NEW o \in read.seen
          PROVE  ~Older(o, last)
      <3>1. read.cursor # None
        BY <1>0, <2>2, <2>7 DEF OnlyCommitted
      <3>2. ~Older(o, read.cursor) /\ Older(last, read.cursor)
        BY <1>0, <2>2, <2>3, <2>7, <3>1 DEF ScrollExact, Scrolling, Behind
      <3>3. o \in Orders /\ last \in Orders /\ read.cursor \in Orders
        BY <1>0, <2>2, <2>3, <2>5, <2>7, <3>1 DEF OnlyCommitted
      <3> QED
        BY <1>0, <3>2, <3>3, OlderTransitive
    <2>8. \A o \in since \cup read.seen \cup page : o \in Rows /\ last \in Rows
      BY <2>2, <2>3, <2>5
    <2> QED
      BY <1>1, <2>3, <2>4, <2>6, <2>7, <2>8
  <1>4. ASSUME NEW s \in Screens, StartScroll(s)
        PROVE  ~Scrolling(s)'
    BY <1>0, <1>4 DEF StartScroll, Scrolling, TypeOK
  <1>5. \A s \in Screens : scroll'[s] = scroll[s] \/ StartScroll(s) \/ FetchPage(s)
    <2>1. ASSUME NEW t \in Screens, StartScroll(t) \/ FetchPage(t)
          PROVE  \A s \in Screens \ {t} : scroll'[s] = scroll[s]
      BY <1>0, <2>1 DEF StartScroll, FetchPage, TypeOK
    <2> QED
      BY <2>1 DEF Next, Begin, Commit, Rollback, Publish, Connect, Deliver, Drop, Tick, Crash,
             screenVars, vars
  <1>6. \A s \in Screens : Scrolling(s)' =>
            /\ \A o \in scroll'[s].since \ scroll'[s].seen : Older(o, scroll[s].cursor)'
            /\ \A o \in scroll'[s].seen : ~Older(o, scroll[s].cursor)'
    BY <1>2, <1>3, <1>4, <1>5
  <1> QED
    BY <1>6 DEF ScrollExact

----------------------------------------------------------------------------
(* Events.                                                                 *)

(* An order that was announced stays covered: the event is on its way, the *)
(* screen is to list the orders, is doing so, or has done so.              *)
LEMMA CoveredStep ==
    ASSUME IInv, [Next]_vars
    PROVE  AnnouncedCovered'
  <1>0. TypeOK /\ TypeOK' /\ OnlyCommitted /\ ScrollExact /\ AnnouncedCovered
    BY TypeStep DEF IInv
  <1> SUFFICES ASSUME NEW s \in joined', NEW o \in announced'
               PROVE  Covered(s, o)'
    BY DEF AnnouncedCovered
  <1> USE DEF Covered
  <1>1. s \in Screens
    BY <1>0 DEF TypeOK
  <1>2. ASSUME NEW p \in Orders, Begin(p) \/ Commit(p) \/ Rollback(p)
        PROVE  Covered(s, o)'
    BY <1>0, <1>2 DEF Begin, Commit, Rollback, screenVars, AnnouncedCovered
  <1>3. ASSUME NEW p \in Orders, Publish(p)
        PROVE  Covered(s, o)'
    BY <1>0, <1>1, <1>3 DEF Publish, AnnouncedCovered
  <1>4. ASSUME NEW t \in Screens, Connect(t) \/ Drop(t)
        PROVE  Covered(s, o)'
    BY <1>0, <1>1, <1>4 DEF Connect, Drop, serverVars, AnnouncedCovered, TypeOK
  <1>5. ASSUME NEW t \in Screens, Deliver(t)
        PROVE  Covered(s, o)'
    <2>1. PICK p : wire' = [wire EXCEPT ![t] = @ \ {p}]
      BY <1>5 DEF Deliver
    <2> QED
      BY <1>0, <1>1, <1>5, <2>1 DEF Deliver, serverVars, AnnouncedCovered, TypeOK
  <1>6. ASSUME NEW t \in Screens, StartScroll(t)
        PROVE  Covered(s, o)'
    <2>1. PICK limit \in Limits :
            scroll' = [scroll EXCEPT ![t] =
                        [limit |-> limit, cursor |-> None, seen |-> {}, since |-> {}]]
      BY <1>6 DEF StartScroll
    <2>2. [limit |-> limit, cursor |-> None, seen |-> {}, since |-> {}] # None
      BY DEF Scroll
    <2>3. o \in announced /\ s \in joined /\ wire' = wire /\ shown' = shown
          /\ refetch' = refetch \ {t}
      BY <1>6 DEF StartScroll, serverVars
    <2>4. Covered(s, o)
      BY <1>0, <2>3 DEF AnnouncedCovered
    <2>5. CASE s = t
      BY <1>0, <1>1, <2>1, <2>2, <2>5 DEF TypeOK
    <2>6. CASE s # t
      BY <1>0, <1>1, <2>1, <2>3, <2>4, <2>6 DEF TypeOK
    <2> QED
      BY <2>5, <2>6
  <1>7. ASSUME NEW t \in Screens, FetchPage(t)
        PROVE  Covered(s, o)'
    <2> DEFINE read == scroll[t]
               since == IF read.cursor = None THEN Rows ELSE read.since
    <2>1. PICK page \in SUBSET Orders :
             /\ Fetches(t, page, Behind(read.cursor))
             /\ \/ /\ \E last \in Last(page) :
                        scroll' = [scroll EXCEPT ![t] =
                            [limit |-> read.limit, cursor |-> last,
                             seen  |-> read.seen \cup page, since |-> since]]
                   /\ UNCHANGED shown
                \/ /\ page = Behind(read.cursor)
                   /\ scroll' = [scroll EXCEPT ![t] = None]
                   /\ shown' = [shown EXCEPT ![t] = read.seen \cup page]
      BY <1>7, FetchCases
    <2>2. /\ UNCHANGED <<announced, joined, wire, refetch>> /\ read # None
          /\ page \subseteq Behind(read.cursor) /\ read \in Scroll
      BY <2>1 DEF Fetches, serverVars
    <2>3. Covered(s, o) /\ o \in Rows
      BY <1>0, <2>2 DEF AnnouncedCovered, OnlyCommitted
    <2>4. CASE s # t
      <3>1. scroll'[s] = scroll[s] /\ shown'[s] = shown[s]
        BY <1>0, <1>1, <2>1, <2>4 DEF TypeOK
      <3> QED
        BY <2>2, <2>3, <3>1
    <2>5. CASE s = t /\ (o \in wire[s] \/ s \in refetch)
      BY <2>2, <2>5
    <2>6. CASE s = t /\ o \in since
      <3>1. CASE \E last \in Last(page) :
                        scroll' = [scroll EXCEPT ![t] =
                            [limit |-> read.limit, cursor |-> last,
                             seen  |-> read.seen \cup page, since |-> since]]
        <4>1. PICK last \in Last(page) :
                        scroll'[s] = [limit |-> read.limit, cursor |-> last,
                                      seen  |-> read.seen \cup page, since |-> since]
          BY <1>0, <1>1, <2>6, <3>1 DEF TypeOK
        <4>2. scroll'[s].since = since
          BY <4>1
        <4>3. scroll'[s] # None
          <5>1. last \in Orders
            BY <4>1 DEF Last
          <5>2. read.limit \in Limits /\ read.seen \in SUBSET Orders /\ since \in SUBSET Orders
            BY <2>2 DEF Scroll, Rows
          <5>3. [limit |-> read.limit, cursor |-> last,
                 seen  |-> read.seen \cup page, since |-> since] \in Scroll
            BY <5>1, <5>2 DEF Scroll
          <5> QED
            BY <4>1, <5>3
        <4> QED
          BY <2>6, <4>2, <4>3
      <3>2. CASE /\ page = Behind(read.cursor)
                 /\ scroll' = [scroll EXCEPT ![t] = None]
                 /\ shown' = [shown EXCEPT ![t] = read.seen \cup page]
        <4>1. o \in read.seen \cup page
          <5>1. CASE read.cursor = None
            BY <2>3, <3>2, <5>1 DEF Behind
          <5>2. CASE read.cursor # None /\ o \notin read.seen
            <6>1. Older(o, read.cursor) /\ read.cursor \in Rows
              BY <1>0, <2>2, <2>6, <5>2 DEF ScrollExact, Scrolling, OnlyCommitted
            <6> QED
              BY <2>3, <3>2, <5>2, <6>1 DEF Behind
          <5> QED
            BY <5>1, <5>2
        <4> QED
          BY <1>0, <1>1, <2>6, <3>2, <4>1 DEF TypeOK
      <3> QED
        BY <2>1, <3>1, <3>2
    <2>7. o \in since \/ o \in wire[s] \/ s \in refetch \/ s # t
      BY <2>2, <2>3
    <2> QED
      BY <2>4, <2>5, <2>6, <2>7
  <1>8. CASE Tick \/ Crash \/ UNCHANGED vars
    BY <1>0, <1>8 DEF Tick, Crash, screenVars, vars, AnnouncedCovered
  <1> QED
    BY <1>2, <1>3, <1>4, <1>5, <1>6, <1>7, <1>8 DEF Next

----------------------------------------------------------------------------
(* The theorems.                                                           *)

LEMMA InitInv ==
    ASSUME Init
    PROVE  IInv
  <1>1. TypeOK
    BY DEF Init, TypeOK, CallSteps
  <1>2. OnlyCommitted /\ ScrollExact /\ AnnouncedCovered
    BY DEF Init, OnlyCommitted, Rows, ScrollExact, Scrolling, AnnouncedCovered
  <1> QED
    BY <1>1, <1>2 DEF IInv

(* The invariant is inductive.                                             *)
THEOREM Invariance == Spec => []IInv
  <1>1. Init => IInv
    BY InitInv
  <1>2. IInv /\ [Next]_vars => IInv'
    BY TypeStep, ScrollExactStep, CoveredStep DEF IInv
  <1> QED
    BY <1>1, <1>2, PTL DEF Spec

(* Types, and that nothing is listed or announced before it has committed. *)
THEOREM TypeCorrect == Spec => []TypeOK
  <1>1. IInv => TypeOK
    BY DEF IInv
  <1> QED
    BY <1>1, Invariance, PTL

(* A list read page by page misses and repeats nothing.                    *)
THEOREM ScrollCorrect == Spec => []ScrollExact
  <1>1. IInv => ScrollExact
    BY DEF IInv
  <1> QED
    BY <1>1, Invariance, PTL

(* A connected screen with nothing to wait for shows what was announced.   *)
THEOREM ScreensCorrect == Spec => []ScreenMissesNothing
  <1>1. IInv => ScreenMissesNothing
    BY DEF IInv, TypeOK, AnnouncedCovered, Covered, ScreenMissesNothing, Rows
  <1> QED
    BY <1>1, Invariance, PTL
=============================================================================
