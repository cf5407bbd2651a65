---------------------------- MODULE OrderRequest ----------------------------
(***************************************************************************)
(* What POST /orders makes of a request body before it touches the         *)
(* database.  The DTO writes the name and the menu ids in one spelling,    *)
(* mergeOrderItems adds up the items that name one menu, and               *)
(* computeRequestFingerprint reduces the body to a value that is stored    *)
(* with the order and tells a retry from another order with the same id.   *)
(*                                                                         *)
(* SHA-256 is taken to be injective: a fingerprint is the payload itself.  *)
(***************************************************************************)
EXTENDS Integers, Sequences, Functions

CONSTANTS
    Bodies,         \* the request bodies: [customer, items]
    LowerCase,      \* LowerCase[s]: the menu id that s spells, a number, as
                    \* localeCompare puts the ids in an order
    NormalizeText   \* NormalizeText[s]: the customer that s spells; the phone
                    \* number is part of it and is compared as it was typed

ASSUME OrderRequestAssumption ==
    /\ \A spelled \in DOMAIN LowerCase : LowerCase[spelled] \in Int
    /\ \A body \in Bodies :
        /\ body.customer \in DOMAIN NormalizeText
        /\ body.items \in Seq([menuId : DOMAIN LowerCase, quantity : Nat \ {0}])
        /\ body.items # <<>>

----------------------------------------------------------------------------
\* Mutant: the last item that names a menu wins.
OverwriteItem(merged, item) ==
    LET id == LowerCase[item.menuId] IN
    IF \E i \in DOMAIN merged : merged[i].menuId = id
    THEN [i \in DOMAIN merged |->
            IF merged[i].menuId = id THEN [merged[i] EXCEPT !.quantity = item.quantity]
                                     ELSE merged[i]]
    ELSE Append(merged, [menuId |-> id, quantity |-> item.quantity])

\* quantityByMenuId.set(menuId, (quantityByMenuId.get(menuId) ?? 0) + quantity):
\* a Map keeps its keys in the order in which they were first set.
AddItem(merged, item) ==
    LET id == LowerCase[item.menuId] IN
    IF \E i \in DOMAIN merged : merged[i].menuId = id
    THEN [i \in DOMAIN merged |->
            IF merged[i].menuId = id
            THEN [merged[i] EXCEPT !.quantity = @ + item.quantity] ELSE merged[i]]
    ELSE Append(merged, [menuId |-> id, quantity |-> item.quantity])

\* The Map after the first n items.
MergedItems(body) ==
    LET merged[n \in 0 .. Len(body.items)] ==
            IF n = 0 THEN <<>> ELSE AddItem(merged[n - 1], body.items[n])
    IN  merged

MergeOrderItems(body) == MergedItems(body)[Len(body.items)]

\* menuId.localeCompare, then quantity.
SortsBefore(a, b) == \/ a.menuId < b.menuId
                     \/ a.menuId = b.menuId /\ a.quantity < b.quantity

\* What sort() makes of lines that differ: the same ones, in order.
Sort(lines) ==
    CHOOSE sorted \in [DOMAIN lines -> Range(lines)] :
        /\ Range(sorted) = Range(lines)
        /\ \A i, j \in DOMAIN lines : i < j => SortsBefore(sorted[i], sorted[j])

\* Mutant: the items as the customer ordered them.
FingerprintUnsorted(body) ==
    [customer |-> NormalizeText[body.customer], items |-> MergeOrderItems(body)]

RequestFingerprint(body) ==
    [customer |-> NormalizeText[body.customer],
     items    |-> Sort(MergeOrderItems(body))]

\* The menu ids of the merged items, and the quantity of each.
MenuIdsOf(body) ==
    LET merged == MergeOrderItems(body) IN {merged[i].menuId : i \in DOMAIN merged}
Quantity(body) ==
    LET merged == MergeOrderItems(body) IN
    [m \in MenuIdsOf(body) |->
        (CHOOSE line \in Range(merged) : line.menuId = m).quantity]

----------------------------------------------------------------------------
(* What the two algorithms are for, said without them.                     *)

NamedMenus(body) == {LowerCase[body.items[n].menuId] : n \in DOMAIN body.items}

\* How much of m the first n items add up to.
Ordered(body, m) ==
    LET total[n \in 0 .. Len(body.items)] ==
            IF n = 0 THEN 0
            ELSE total[n - 1] + (IF LowerCase[body.items[n].menuId] = m
                                 THEN body.items[n].quantity ELSE 0)
    IN  total

\* What a customer orders: so much of every menu, in whatever order, spelling
\* and number of items it was written down.
Content(body) ==
    [customer |-> NormalizeText[body.customer],
     quantity |-> [m \in NamedMenus(body) |-> Ordered(body, m)[Len(body.items)]]]

\* For the bodies of S, merging keeps every menu and its total, and the
\* fingerprint tells apart exactly what differs.
FaithfulFor(S) ==
    LET pairs == {<<Content(a), RequestFingerprint(a)>> : a \in S}
    IN  /\ \A a \in S : Quantity(a) = Content(a).quantity
        /\ \A p, q \in pairs : p[1] = q[1] <=> p[2] = q[2]
=============================================================================
