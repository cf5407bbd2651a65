------------------------ MODULE OrderPlacementProofs ------------------------
(***************************************************************************)
(* Proofs about OrderPlacement, for any calls, request ids, bodies, menus, *)
(* prices, PATCHes, days and faults:                                       *)
(*   - what the normalisation of a request body computes (OrderRequest);   *)
(*   - what the steps of the catalogue preserve, whatever the rest of the  *)
(*     system is (MenuCatalog);                                            *)
(*   - the orders, on top of the two.                                      *)
(***************************************************************************)
EXTENDS OrderPlacement, SequenceTheorems, FiniteSetTheorems, WellFoundedInduction, TLAPS

----------------------------------------------------------------------------
(* Induction over the items of a body.  The induction theorems of the      *)
(* library take an operator; this one takes a set, and follows from a      *)
(* finite set having a smallest subset with a property.                    *)

LEMMA SmallestSet ==
    ASSUME NEW S, IsFiniteSet(S), NEW F, \A T \in F : T \subseteq S, F # {}
    PROVE  \E T \in F : \A U \in F : U \subseteq T => U = T
  <1>1. IsWellFoundedOn(StrictSubsetOrdering(S), SUBSET S)
    BY FS_StrictSubsetOrderingWellFounded, FS_FiniteSubsetsOfFinite
  <1>2. \E T \in F : \A U \in F : <<U, T>> \notin StrictSubsetOrdering(S)
    BY <1>1, WFMin
  <1> QED
    BY <1>2 DEF StrictSubsetOrdering

\* The least of some numbers up to N.
LEMMA LeastNumber ==
    ASSUME NEW N \in Nat, NEW B \in SUBSET (0 .. N), B # {}
    PROVE  \E b \in B : \A c \in B : b <= c
  <1>1. PICK F : F = {0 .. n : n \in B}
    OBVIOUS
  <1>2. \A T \in F : T \subseteq 0 .. N
    BY <1>1
  <1>3. PICK T \in F : \A U \in F : U \subseteq T => U = T
    <2>1. IsFiniteSet(0 .. N)
      BY FS_Interval
    <2>2. F # {}
      BY <1>1
    <2> QED
      BY <1>2, <2>1, <2>2, SmallestSet
  <1>4. PICK b \in B : T = 0 .. b
    BY <1>1, <1>3
  <1>5. ASSUME NEW c \in B, c < b
        PROVE  FALSE
    <2>1. 0 .. c \subseteq 0 .. b /\ b \in 0 .. b /\ b \notin 0 .. c /\ 0 .. c \in F
      BY <1>1, <1>5
    <2> QED
      BY <1>3, <1>4, <2>1
  <1> QED
    BY <1>5

LEMMA UpTo ==
    ASSUME NEW N \in Nat, NEW T \in SUBSET (0 .. N), 0 \in T,
           \A n \in 1 .. N : n - 1 \in T => n \in T
    PROVE  T = 0 .. N
  <1> SUFFICES ASSUME (0 .. N) \ T # {}
               PROVE  FALSE
    OBVIOUS
  <1>1. PICK n \in (0 .. N) \ T : \A m \in (0 .. N) \ T : n <= m
    BY LeastNumber
  <1> QED
    BY <1>1

MergedUpTo(dto, g, k) ==
    g = [n \in 0 .. k |-> IF n = 0 THEN <<>> ELSE AddItem(g[n - 1], dto.items[n])]

LEMMA MergedItemsDef ==
    ASSUME NEW dto, Len(dto.items) \in Nat
    PROVE  MergedUpTo(dto, MergedItems(dto), Len(dto.items))
  <1> DEFINE N == Len(dto.items)
             T == {k \in 0 .. N : \E g : MergedUpTo(dto, g, k)}
  <1>1. 0 \in T
    <2>1. MergedUpTo(dto, [n \in 0 .. 0 |-> <<>>], 0)
      BY DEF MergedUpTo
    <2> QED
      BY <2>1
  <1>2. ASSUME NEW k \in 1 .. N, k - 1 \in T
        PROVE  k \in T
    <2>1. PICK g : MergedUpTo(dto, g, k - 1)
      BY <1>2
    <2> DEFINE h == [n \in 0 .. k |-> IF n = k THEN AddItem(g[k - 1], dto.items[k]) ELSE g[n]]
    <2>2. \A n \in 0 .. k - 1 : h[n] = g[n]
      OBVIOUS
    <2>3. \A n \in 0 .. k - 1 : g[n] = IF n = 0 THEN <<>> ELSE AddItem(g[n - 1], dto.items[n])
      BY <2>1 DEF MergedUpTo
    <2>4. \A n \in 0 .. k : h[n] = IF n = 0 THEN <<>> ELSE AddItem(h[n - 1], dto.items[n])
      BY <2>2, <2>3
    <2>5. MergedUpTo(dto, h, k)
      BY <2>4 DEF MergedUpTo
    <2> QED
      BY <2>5
  <1>3. T = 0 .. N
    BY <1>1, <1>2, UpTo
  <1>4. \E g : MergedUpTo(dto, g, N)
    BY <1>3
  <1> QED
    BY <1>4 DEF MergedItems, MergedUpTo

OrderedUpTo(dto, m, g, k) ==
    g = [n \in 0 .. k |->
            IF n = 0 THEN 0
            ELSE g[n - 1] + (IF LowerCase[dto.items[n].menuId] = m
                             THEN dto.items[n].quantity ELSE 0)]

LEMMA OrderedDef ==
    ASSUME NEW dto, NEW m, Len(dto.items) \in Nat
    PROVE  OrderedUpTo(dto, m, Ordered(dto, m), Len(dto.items))
  <1> DEFINE N == Len(dto.items)
             T == {k \in 0 .. N : \E g : OrderedUpTo(dto, m, g, k)}
  <1>1. 0 \in T
    <2>1. OrderedUpTo(dto, m, [n \in 0 .. 0 |-> 0], 0)
      BY DEF OrderedUpTo
    <2> QED
      BY <2>1
  <1>2. ASSUME NEW k \in 1 .. N, k - 1 \in T
        PROVE  k \in T
    <2> DEFINE After(g, n) == g[n - 1] + (IF LowerCase[dto.items[n].menuId] = m
                                         THEN dto.items[n].quantity ELSE 0)
    <2>1. PICK g : OrderedUpTo(dto, m, g, k - 1)
      BY <1>2
    <2> DEFINE h == [n \in 0 .. k |-> IF n = k THEN After(g, k) ELSE g[n]]
    <2>2. \A n \in 0 .. k - 1 : h[n] = g[n]
      OBVIOUS
    <2>3. \A n \in 0 .. k - 1 : g[n] = IF n = 0 THEN 0 ELSE After(g, n)
      BY <2>1 DEF OrderedUpTo
    <2>4. \A n \in 0 .. k : h[n] = IF n = 0 THEN 0 ELSE After(h, n)
      BY <2>2, <2>3
    <2>5. OrderedUpTo(dto, m, h, k)
      BY <2>4 DEF OrderedUpTo
    <2> QED
      BY <2>5
  <1>3. T = 0 .. N
    BY <1>1, <1>2, UpTo
  <1>4. \E g : OrderedUpTo(dto, m, g, N)
    BY <1>3
  <1> QED
    BY <1>4 DEF Ordered, OrderedUpTo

Line == [menuId : Int, quantity : Nat]
Item == [menuId : DOMAIN LowerCase, quantity : Nat \ {0}]

\* The lines of one menu each.
OnePerMenu(lines) ==
    /\ lines \in Seq(Line)
    /\ \A i, j \in DOMAIN lines : lines[i].menuId = lines[j].menuId => i = j

MenusIn(lines) == {lines[i].menuId : i \in DOMAIN lines}

\* The total of m grows by what the n-th item asks of it.
LEMMA OrderedStep ==
    ASSUME NEW dto, dto.items \in Seq(Item), NEW m
    PROVE  /\ Ordered(dto, m)[0] = 0
           /\ \A n \in 1 .. Len(dto.items) :
                Ordered(dto, m)[n] =
                    Ordered(dto, m)[n - 1] + (IF LowerCase[dto.items[n].menuId] = m
                                               THEN dto.items[n].quantity ELSE 0)
  <1>1. OrderedUpTo(dto, m, Ordered(dto, m), Len(dto.items))
    BY OrderedDef
  <1> QED
    BY <1>1 DEF OrderedUpTo

LEMMA OrderedNat ==
    ASSUME NEW dto, dto.items \in Seq(Item), NEW m
    PROVE  \A n \in 0 .. Len(dto.items) : Ordered(dto, m)[n] \in Nat
  <1> DEFINE N == Len(dto.items)
             T == {n \in 0 .. N : Ordered(dto, m)[n] \in Nat}
  <1>1. 0 \in T
    BY OrderedStep
  <1>2. ASSUME NEW n \in 1 .. N, n - 1 \in T
        PROVE  n \in T
    <2>1. dto.items[n].quantity \in Nat
      <3>1. dto.items[n] \in Item
        OBVIOUS
      <3> QED
        BY <3>1 DEF Item
    <2>2. Ordered(dto, m)[n - 1] \in Nat /\ n \in 0 .. N
      BY <1>2
    <2>3. Ordered(dto, m)[n] = Ordered(dto, m)[n - 1]
                                + (IF LowerCase[dto.items[n].menuId] = m
                                   THEN dto.items[n].quantity ELSE 0)
      BY OrderedStep
    <2>4. Ordered(dto, m)[n] \in Nat
      BY <2>1, <2>2, <2>3
    <2> QED
      BY <2>2, <2>4
  <1>3. N \in Nat
    OBVIOUS
  <1>4. T = 0 .. N
    BY <1>1, <1>2, <1>3, UpTo
  <1> QED
    BY <1>4

LEMMA MergedStep ==
    ASSUME NEW dto, dto.items \in Seq(Item)
    PROVE  /\ MergedItems(dto)[0] = <<>>
           /\ \A n \in 1 .. Len(dto.items) :
                MergedItems(dto)[n] = AddItem(MergedItems(dto)[n - 1], dto.items[n])
  <1>1. MergedUpTo(dto, MergedItems(dto), Len(dto.items))
    BY MergedItemsDef
  <1> QED
    BY <1>1 DEF MergedUpTo

\* new is lines with the item counted: a menu that has a line gets a larger
\* one, any other gets its first.
Adds(lines, item, new) ==
    LET id == LowerCase[item.menuId]
    IN  /\ OnePerMenu(new)
        /\ MenusIn(new) = MenusIn(lines) \cup {id}
        /\ \A i \in DOMAIN new : new[i].menuId # id =>
             \E j \in DOMAIN lines : new[i] = lines[j]
        /\ \A i \in DOMAIN new : new[i].menuId = id =>
             \/ id \notin MenusIn(lines) /\ new[i].quantity = item.quantity
             \/ \E j \in DOMAIN lines :
                  /\ lines[j].menuId = id
                  /\ new[i].quantity = lines[j].quantity + item.quantity

LEMMA AddItemCorrect ==
    ASSUME NEW lines, OnePerMenu(lines), NEW item \in Item
    PROVE  Adds(lines, item, AddItem(lines, item))
  <1> DEFINE id  == LowerCase[item.menuId]
             new == AddItem(lines, item)
  <1>0. id \in Int /\ item.quantity \in Nat
    BY OrderRequestAssumption DEF Item
  <1>a. lines \in Seq(Line) /\ DOMAIN lines = 1 .. Len(lines) /\ Len(lines) \in Nat
    BY DEF OnePerMenu
  <1>b. \A i \in DOMAIN lines : lines[i] \in Line
    BY <1>a
  <1>1. CASE \E i \in DOMAIN lines : lines[i].menuId = id
    <2>1. PICK k \in DOMAIN lines : lines[k].menuId = id
      BY <1>1
    <2>2. \A i \in DOMAIN lines : lines[i].menuId = id <=> i = k
      BY <2>1 DEF OnePerMenu
    <2>3. new = [i \in DOMAIN lines |->
                    IF lines[i].menuId = id
                    THEN [lines[i] EXCEPT !.quantity = @ + item.quantity] ELSE lines[i]]
      BY <1>1 DEF AddItem
    <2>4. DOMAIN new = DOMAIN lines
      BY <2>3
    <2>5. new[k] = [menuId |-> id, quantity |-> lines[k].quantity + item.quantity]
      BY <1>b, <2>1, <2>3 DEF Line
    <2>6. \A i \in DOMAIN lines : i # k => new[i] = lines[i]
      BY <2>2, <2>3
    <2>7. \A i \in DOMAIN lines : new[i] \in Line /\ new[i].menuId = lines[i].menuId
      BY <1>0, <1>b, <2>1, <2>5, <2>6 DEF Line
    <2>8. new \in Seq(Line)
      <3>1. new = [i \in 1 .. Len(lines) |-> new[i]]
        BY <1>a, <2>3, <2>4
      <3> QED
        BY <1>a, <2>7, <3>1
    <2>9. OnePerMenu(new)
      BY <2>4, <2>7, <2>8 DEF OnePerMenu
    <2>10. MenusIn(new) = MenusIn(lines) /\ id \in MenusIn(lines)
      BY <2>1, <2>4, <2>7 DEF MenusIn
    <2>11. \A i \in DOMAIN new : new[i].menuId # id => new[i] = lines[i]
      BY <2>4, <2>5, <2>6
    <2>12. \A i \in DOMAIN new : new[i].menuId = id =>
                new[i].quantity = lines[k].quantity + item.quantity
      BY <2>2, <2>4, <2>5, <2>7
    <2> HIDE DEF new, id
    <2> QED
      BY <2>1, <2>4, <2>9, <2>10, <2>11, <2>12 DEF new, id, Adds
  <1>2. CASE ~ \E i \in DOMAIN lines : lines[i].menuId = id
    <2>1. new = Append(lines, [menuId |-> id, quantity |-> item.quantity])
      BY <1>2 DEF AddItem
    <2>2. [menuId |-> id, quantity |-> item.quantity] \in Line
      BY <1>0 DEF Line
    <2>3. /\ new \in Seq(Line)
          /\ DOMAIN new = 1 .. Len(lines) + 1
          /\ \A i \in DOMAIN lines : new[i] = lines[i]
          /\ new[Len(lines) + 1] = [menuId |-> id, quantity |-> item.quantity]
      BY <1>a, <2>1, <2>2
    <2>4. \A i \in DOMAIN new : i \in DOMAIN lines \/ i = Len(lines) + 1
      BY <1>a, <2>3
    <2>5. OnePerMenu(new)
      BY <1>2, <2>3, <2>4 DEF OnePerMenu
    <2>6. MenusIn(new) = MenusIn(lines) \cup {id} /\ id \notin MenusIn(lines)
      BY <1>2, <1>a, <2>3, <2>4 DEF MenusIn
    <2>7. \A i \in DOMAIN new : new[i].menuId # id => i \in DOMAIN lines /\ new[i] = lines[i]
      BY <2>3, <2>4
    <2>8. \A i \in DOMAIN new : new[i].menuId = id => new[i].quantity = item.quantity
      BY <1>2, <2>3, <2>4
    <2> QED
      BY <2>5, <2>6, <2>7, <2>8 DEF Adds
  <1> QED
    BY <1>1, <1>2

\* What the first n items come to: one line per menu they name, with its total.
MergesTo(dto, n) ==
    LET lines == MergedItems(dto)[n]
    IN  /\ OnePerMenu(lines)
        /\ MenusIn(lines) = {LowerCase[dto.items[k].menuId] : k \in 1 .. n}
        /\ \A i \in DOMAIN lines : lines[i].quantity = Ordered(dto, lines[i].menuId)[n]
        /\ \A m \in Int \ MenusIn(lines) : Ordered(dto, m)[n] = 0

LEMMA MergedCorrect ==
    ASSUME NEW dto, dto.items \in Seq(Item)
    PROVE  \A n \in 0 .. Len(dto.items) : MergesTo(dto, n)
  <1> DEFINE N == Len(dto.items)
             T == {n \in 0 .. N : MergesTo(dto, n)}
  <1>1. 0 \in T
    <2>1. MergedItems(dto)[0] = <<>>
      BY MergedStep
    <2>2. OnePerMenu(<<>>) /\ MenusIn(<<>>) = {}
      BY DEF OnePerMenu, MenusIn
    <2>3. {LowerCase[dto.items[k].menuId] : k \in 1 .. 0} = {}
      OBVIOUS
    <2>4. \A m : Ordered(dto, m)[0] = 0
      BY OrderedStep
    <2>5. MergesTo(dto, 0)
      BY <2>1, <2>2, <2>3, <2>4 DEF MergesTo
    <2> QED
      BY <2>5
  <1>2. ASSUME NEW n \in 1 .. N, n - 1 \in T
        PROVE  n \in T
    <2> DEFINE old  == MergedItems(dto)[n - 1]
               new  == MergedItems(dto)[n]
               item == dto.items[n]
               id   == LowerCase[item.menuId]
    <2>1. /\ OnePerMenu(old)
          /\ MenusIn(old) = {LowerCase[dto.items[k].menuId] : k \in 1 .. n - 1}
          /\ \A i \in DOMAIN old : old[i].quantity = Ordered(dto, old[i].menuId)[n - 1]
          /\ \A m \in Int \ MenusIn(old) : Ordered(dto, m)[n - 1] = 0
      BY <1>2 DEF MergesTo
    <2>2. item \in Item /\ new = AddItem(old, item)
      BY MergedStep
    <2>3. item.quantity \in Nat /\ id \in Int
      BY <2>2, OrderRequestAssumption DEF Item
    <2>4. /\ OnePerMenu(new)
          /\ MenusIn(new) = MenusIn(old) \cup {id}
          /\ \A i \in DOMAIN new : new[i].menuId # id =>
               \E j \in DOMAIN old : new[i] = old[j]
          /\ \A i \in DOMAIN new : new[i].menuId = id =>
               \/ id \notin MenusIn(old) /\ new[i].quantity = item.quantity
               \/ \E j \in DOMAIN old :
                    /\ old[j].menuId = id
                    /\ new[i].quantity = old[j].quantity + item.quantity
      <3>1. Adds(old, item, new)
        BY <2>1, <2>2, AddItemCorrect
      <3> QED
        BY <3>1 DEF Adds
    <2>5. \A m : Ordered(dto, m)[n] =
                    Ordered(dto, m)[n - 1] + (IF id = m THEN item.quantity ELSE 0)
      BY OrderedStep
    <2>6. MenusIn(new) = {LowerCase[dto.items[k].menuId] : k \in 1 .. n}
      <3>1. 1 .. n = (1 .. n - 1) \cup {n}
        OBVIOUS
      <3> QED
        BY <2>1, <2>4, <3>1
    <2>7. \A m : Ordered(dto, m)[n - 1] \in Nat
      BY OrderedNat
    <2>8. ASSUME NEW i \in DOMAIN new
          PROVE  new[i].quantity = Ordered(dto, new[i].menuId)[n]
      <3>1. CASE new[i].menuId # id
        BY <2>1, <2>4, <2>5, <2>7, <3>1
      <3>2. CASE new[i].menuId = id
        <4>1. Ordered(dto, id)[n] = Ordered(dto, id)[n - 1] + item.quantity
          BY <2>5
        <4>2. CASE id \notin MenusIn(old) /\ new[i].quantity = item.quantity
          <5>1. Ordered(dto, id)[n - 1] = 0
            BY <2>1, <2>3, <4>2
          <5> QED
            BY <2>3, <3>2, <4>1, <4>2, <5>1
        <4>3. CASE \E j \in DOMAIN old : /\ old[j].menuId = id
                                         /\ new[i].quantity = old[j].quantity + item.quantity
          BY <2>1, <3>2, <4>1, <4>3
        <4> QED
          BY <2>4, <3>2, <4>2, <4>3
      <3> QED
        BY <3>1, <3>2
    <2>9. ASSUME NEW m \in Int \ MenusIn(new)
          PROVE  Ordered(dto, m)[n] = 0
      <3>1. m # id /\ m \in Int \ MenusIn(old)
        BY <2>4
      <3>2. Ordered(dto, m)[n - 1] = 0
        BY <2>1, <3>1
      <3>3. Ordered(dto, m)[n] = Ordered(dto, m)[n - 1] + (IF id = m THEN item.quantity ELSE 0)
        BY <2>5
      <3> QED
        BY <3>1, <3>2, <3>3
    <2>10. MergesTo(dto, n)
      BY <2>4, <2>6, <2>8, <2>9 DEF MergesTo
    <2> QED
      BY <2>10
  <1>3. N \in Nat
    OBVIOUS
  <1>4. T = 0 .. N
    BY <1>1, <1>2, <1>3, UpTo
  <1> QED
    BY <1>4

LEMMA MergeOrderItemsCorrect ==
    ASSUME NEW dto, dto.items \in Seq(Item)
    PROVE  LET lines == MergeOrderItems(dto)
           IN  /\ OnePerMenu(lines)
               /\ MenusIn(lines) = NamedMenus(dto)
               /\ \A i \in DOMAIN lines :
                    lines[i].quantity = Ordered(dto, lines[i].menuId)[Len(dto.items)]
  <1>1. MergesTo(dto, Len(dto.items)) /\ DOMAIN dto.items = 1 .. Len(dto.items)
    BY MergedCorrect
  <1> QED
    BY <1>1 DEF MergesTo, MergeOrderItems, NamedMenus

\* f has the first n lines, in order.
Sorts(f, lines, n) ==
    /\ f \in [1 .. n -> {lines[i] : i \in 1 .. n}]
    /\ \A i \in 1 .. n : \E j \in 1 .. n : f[j] = lines[i]
    /\ \A i, j \in 1 .. n : i < j => f[i].menuId < f[j].menuId

\* Lines of different menus can be put in order.
LEMMA Sortable ==
    ASSUME NEW lines, OnePerMenu(lines)
    PROVE  \E sorted \in [DOMAIN lines -> Range(lines)] :
             /\ Range(sorted) = Range(lines)
             /\ \A i, j \in DOMAIN lines : i < j => SortsBefore(sorted[i], sorted[j])
  <1> DEFINE N == Len(lines)
             T == {n \in 0 .. N : \E f : Sorts(f, lines, n)}
  <1>a. N \in Nat /\ DOMAIN lines = 1 .. N
    BY DEF OnePerMenu
  <1>b. \A i \in 1 .. N : lines[i].menuId \in Int
    <2>1. \A i \in 1 .. N : lines[i] \in Line
      BY <1>a DEF OnePerMenu
    <2> QED
      BY <2>1 DEF Line
  <1>1. 0 \in T
    <2> DEFINE f == [i \in 1 .. 0 |-> 0]
    <2>1. Sorts(f, lines, 0)
      BY DEF Sorts
    <2> QED
      BY <1>a, <2>1
  <1>2. ASSUME NEW n \in 1 .. N, n - 1 \in T
        PROVE  n \in T
    <2>1. PICK f : Sorts(f, lines, n - 1)
      BY <1>2
    <2> DEFINE later == {p \in 1 .. n : p = n \/ f[p].menuId > lines[n].menuId}
    <2>2. PICK p \in later : \A q \in later : p <= q
      <3>1. later \in SUBSET (0 .. n) /\ later # {} /\ n \in Nat
        BY <1>a
      <3> HIDE DEF later
      <3> QED
        BY <3>1, LeastNumber
    <2> DEFINE h == [i \in 1 .. n |-> IF i < p THEN f[i]
                                      ELSE IF i = p THEN lines[n] ELSE f[i - 1]]
    <2>3. \A i \in 1 .. n - 1 : \E j \in 1 .. n - 1 : f[i] = lines[j]
      <3>1. f \in [1 .. n - 1 -> {lines[j] : j \in 1 .. n - 1}]
        BY <2>1 DEF Sorts
      <3>2. \A i \in 1 .. n - 1 : f[i] \in {lines[j] : j \in 1 .. n - 1}
        BY <3>1
      <3> QED
        BY <3>2
    <2>4. \A i \in 1 .. n - 1 : f[i].menuId \in Int /\ f[i].menuId # lines[n].menuId
      <3> SUFFICES ASSUME NEW i \in 1 .. n - 1
                   PROVE  f[i].menuId \in Int /\ f[i].menuId # lines[n].menuId
        OBVIOUS
      <3>1. PICK j \in 1 .. n - 1 : f[i] = lines[j]
        BY <2>3
      <3>2. j \in 1 .. N /\ n \in 1 .. N /\ j # n
        BY <1>a
      <3> QED
        BY <1>a, <1>b, <3>1, <3>2 DEF OnePerMenu
    <2>5. \A i \in 1 .. n - 1 : i < p => f[i].menuId < lines[n].menuId
      BY <1>a, <1>b, <2>2, <2>4
    <2>6. p <= n - 1 => f[p].menuId > lines[n].menuId
      BY <1>a, <2>2
    <2>7. \A i, j \in 1 .. n - 1 : i < j => f[i].menuId < f[j].menuId
      BY <2>1 DEF Sorts
    <2>8. \A i \in 1 .. n - 1 : i >= p => f[i].menuId > lines[n].menuId
      BY <1>a, <1>b, <2>2, <2>4, <2>6, <2>7
    <2>9. \A i, j \in 1 .. n : i < j => h[i].menuId < h[j].menuId
      BY <1>a, <1>b, <2>2, <2>4, <2>5, <2>7, <2>8
    <2>10. h \in [1 .. n -> {lines[i] : i \in 1 .. n}]
      <3>1. \A i \in 1 .. n - 1 : f[i] \in {lines[j] : j \in 1 .. n}
        BY <1>a, <2>3
      <3>2. \A i \in 1 .. n : /\ i < p => i \in 1 .. n - 1
                              /\ i > p => i - 1 \in 1 .. n - 1
        BY <1>a, <2>2
      <3>3. lines[n] \in {lines[j] : j \in 1 .. n}
        BY <1>a
      <3>4. \A i \in 1 .. n : h[i] \in {lines[j] : j \in 1 .. n}
        BY <2>2, <3>1, <3>2, <3>3
      <3> QED
        BY <3>4
    <2>11. ASSUME NEW i \in 1 .. n
           PROVE  \E j \in 1 .. n : h[j] = lines[i]
      <3>1. CASE i = n
        BY <2>2, <3>1
      <3>2. CASE i # n
        <4>1. PICK j \in 1 .. n - 1 : f[j] = lines[i]
          <5>1. i \in 1 .. n - 1
            BY <1>a, <3>2
          <5> QED
            BY <2>1, <5>1 DEF Sorts
        <4>2. j < p => h[j] = lines[i]
          BY <1>a, <4>1
        <4>3. j >= p => j + 1 \in 1 .. n /\ h[j + 1] = lines[i]
          BY <1>a, <2>2, <4>1
        <4>4. j \in 1 .. n /\ (j < p \/ j >= p)
          BY <1>a, <2>2
        <4> HIDE DEF h
        <4> QED
          BY <4>2, <4>3, <4>4
      <3> QED
        BY <3>1, <3>2
    <2>12. Sorts(h, lines, n)
      BY <2>9, <2>10, <2>11 DEF Sorts
    <2> QED
      BY <2>12
  <1>3. N \in T
    <2>1. T = 0 .. N
      BY <1>a, <1>1, <1>2, UpTo
    <2> QED
      BY <1>a, <2>1
  <1>4. PICK f : Sorts(f, lines, N)
    BY <1>3
  <1>5. {lines[i] : i \in 1 .. N} = Range(lines)
    BY <1>a DEF Range
  <1>6. f \in [DOMAIN lines -> Range(lines)] /\ Range(f) = Range(lines)
    BY <1>a, <1>4, <1>5 DEF Range, Sorts
  <1>7. \A i, j \in DOMAIN lines : i < j => SortsBefore(f[i], f[j])
    BY <1>a, <1>4 DEF SortsBefore, Sorts
  <1> QED
    BY <1>6, <1>7

LEMMA SortCorrect ==
    ASSUME NEW lines, OnePerMenu(lines)
    PROVE  Range(Sort(lines)) = Range(lines)
  <1>1. \E sorted \in [DOMAIN lines -> Range(lines)] :
             /\ Range(sorted) = Range(lines)
             /\ \A i, j \in DOMAIN lines : i < j => SortsBefore(sorted[i], sorted[j])
    BY Sortable
  <1> QED
    BY <1>1 DEF Sort

\* As many lines as menus, so the set of lines says how many there are.
LEMMA SameLength ==
    ASSUME NEW s, OnePerMenu(s), NEW t, OnePerMenu(t), Range(s) = Range(t)
    PROVE  DOMAIN s = DOMAIN t
  <1>1. ASSUME NEW lines, OnePerMenu(lines)
        PROVE  Len(lines) \in Nat /\ DOMAIN lines = 1 .. Len(lines)
               /\ Cardinality(Range(lines)) = Len(lines)
    <2>1. lines \in [1 .. Len(lines) -> Range(lines)] /\ Len(lines) \in Nat
      BY <1>1 DEF OnePerMenu, Range
    <2>2. lines \in Bijection(1 .. Len(lines), Range(lines))
      <3>1. \A i, j \in 1 .. Len(lines) : lines[i] = lines[j] => i = j
        BY <1>1, <2>1 DEF OnePerMenu
      <3>2. \A r \in Range(lines) : \E i \in 1 .. Len(lines) : lines[i] = r
        BY <2>1 DEF Range
      <3> QED
        BY <2>1, <3>1, <3>2 DEF Bijection, Injection, Surjection, IsInjective
    <2>3. ExistsBijection(1 .. Len(lines), Range(lines))
      BY <2>2 DEF ExistsBijection
    <2> QED
      BY <2>1, <2>3, FS_CountingElements
  <1> QED
    BY <1>1

\* A line of the merged items is a menu the body names with what it orders of it.
LEMMA MergedLines ==
    ASSUME NEW dto \in Bodies
    PROVE  /\ OnePerMenu(MergeOrderItems(dto))
           /\ Range(MergeOrderItems(dto)) =
                {[menuId |-> m, quantity |-> Content(dto).quantity[m]] : m \in NamedMenus(dto)}
  <1> DEFINE lines == MergeOrderItems(dto)
  <1>1. dto.items \in Seq(Item)
    BY OrderRequestAssumption DEF Item
  <1>2. /\ OnePerMenu(lines)
        /\ MenusIn(lines) = NamedMenus(dto)
        /\ \A i \in DOMAIN lines :
             lines[i].quantity = Ordered(dto, lines[i].menuId)[Len(dto.items)]
    BY <1>1, MergeOrderItemsCorrect
  <1>3. \A m \in NamedMenus(dto) : Content(dto).quantity[m] = Ordered(dto, m)[Len(dto.items)]
    BY DEF Content
  <1>4. ASSUME NEW i \in DOMAIN lines
        PROVE  /\ lines[i].menuId \in NamedMenus(dto)
               /\ lines[i] = [menuId   |-> lines[i].menuId,
                              quantity |-> Content(dto).quantity[lines[i].menuId]]
    <2>1. lines[i] \in Line
      BY <1>2 DEF OnePerMenu
    <2>2. lines[i].menuId \in NamedMenus(dto)
      BY <1>2 DEF MenusIn
    <2>3. lines[i].quantity = Content(dto).quantity[lines[i].menuId]
      BY <1>2, <1>3, <2>2
    <2> QED
      BY <2>1, <2>2, <2>3 DEF Line
  <1>5. ASSUME NEW m \in NamedMenus(dto)
        PROVE  \E i \in DOMAIN lines :
                 lines[i] = [menuId |-> m, quantity |-> Content(dto).quantity[m]]
    <2>1. PICK i \in DOMAIN lines : lines[i].menuId = m
      BY <1>2 DEF MenusIn
    <2> QED
      BY <1>4, <2>1
  <1> QED
    BY <1>2, <1>4, <1>5 DEF Range

LEMMA QuantityCorrect ==
    ASSUME NEW dto \in Bodies
    PROVE  Quantity(dto) = Content(dto).quantity
  <1> DEFINE lines == MergeOrderItems(dto)
             LineOf(m) == [menuId |-> m, quantity |-> Content(dto).quantity[m]]
  <1>1. OnePerMenu(lines) /\ Range(lines) = {LineOf(m) : m \in NamedMenus(dto)}
    BY MergedLines
  <1>2. MenuIdsOf(dto) = NamedMenus(dto)
    <2>1. MenuIdsOf(dto) = {line.menuId : line \in Range(lines)}
      BY DEF MenuIdsOf, Range
    <2>2. \A line \in Range(lines) : line.menuId \in NamedMenus(dto)
      BY <1>1
    <2>3. \A m \in NamedMenus(dto) : LineOf(m) \in Range(lines) /\ LineOf(m).menuId = m
      BY <1>1
    <2> QED
      BY <2>1, <2>2, <2>3
  <1>3. ASSUME NEW m \in NamedMenus(dto)
        PROVE  (CHOOSE line \in Range(lines) : line.menuId = m).quantity
                 = Content(dto).quantity[m]
    <2>1. LineOf(m) \in Range(lines) /\ LineOf(m).menuId = m
      BY <1>1
    <2>2. \A line \in Range(lines) : line.menuId = m => line = LineOf(m)
      BY <1>1
    <2> QED
      BY <2>1, <2>2
  <1>4. Quantity(dto) = [m \in NamedMenus(dto) |->
            (CHOOSE line \in Range(lines) : line.menuId = m).quantity]
    BY <1>2 DEF Quantity
  <1>5. Content(dto).quantity = [m \in NamedMenus(dto) |-> Ordered(dto, m)[Len(dto.items)]]
    BY DEF Content
  <1> QED
    BY <1>3, <1>4, <1>5

LEMMA NormalisationCorrect == FaithfulFor(Bodies)
  <1>1. ASSUME NEW a \in Bodies, NEW b \in Bodies, Content(a) = Content(b)
        PROVE  RequestFingerprint(a) = RequestFingerprint(b)
    <2>1. NamedMenus(a) = NamedMenus(b)
      BY <1>1 DEF Content
    <2>2. Range(MergeOrderItems(a)) = Range(MergeOrderItems(b))
      BY <1>1, <2>1, MergedLines
    <2>3. DOMAIN MergeOrderItems(a) = DOMAIN MergeOrderItems(b)
      BY <2>2, MergedLines, SameLength
    <2>4. Sort(MergeOrderItems(a)) = Sort(MergeOrderItems(b))
      BY <2>2, <2>3 DEF Sort
    <2> QED
      BY <1>1, <2>4 DEF Content, RequestFingerprint
  <1>2. ASSUME NEW a \in Bodies, NEW b \in Bodies, RequestFingerprint(a) = RequestFingerprint(b)
        PROVE  Content(a) = Content(b)
    <2>1. Range(MergeOrderItems(a)) = Range(MergeOrderItems(b))
      BY <1>2, MergedLines, SortCorrect DEF RequestFingerprint
    <2>2. Quantity(a) = Quantity(b)
      <3>1. \A dto : MenuIdsOf(dto) = {line.menuId : line \in Range(MergeOrderItems(dto))}
        BY DEF MenuIdsOf, Range
      <3>2. MenuIdsOf(a) = MenuIdsOf(b)
        BY <2>1, <3>1
      <3> QED
        BY <2>1, <3>2 DEF Quantity
    <2> QED
      BY <1>2, <2>2, QuantityCorrect DEF Content, RequestFingerprint
  <1> QED
    BY <1>1, <1>2, QuantityCorrect DEF FaithfulFor

----------------------------------------------------------------------------
(* The catalogue: all that happens to it.                                  *)

Snapshots == UNION {[S -> Row] : S \in SUBSET Menus}

MenuInv == MenuTypeOK /\ MenusConsistent

\* The transaction of the order r ends.
EndOrder(r) ==
    /\ ReleaseRows(r)
    /\ UNCHANGED <<menus, menuHistory, patchStep, patchReq, patchRow, txClock>>

\* The process dies.
LoseAll ==
    /\ LosePatches
    /\ shared' = [r \in Requests |-> {}]
    /\ snapshot' = [r \in Requests |-> EmptySnapshot]
    /\ UNCHANGED <<menus, menuHistory, patchReq, patchRow, txClock>>

\* All that happens to the catalogue.
MenuStep ==
    \/ PatchNext
    \/ \E r \in Requests, m \in Menus : ShareRow(r, m)
    \/ \E r \in Requests : EndOrder(r)
    \/ LoseAll
    \/ UNCHANGED menuVars

----------------------------------------------------------------------------
(* Snapshots and rows.                                                     *)

LEMMA SnapshotType ==
    ASSUME NEW f \in Snapshots
    PROVE  /\ DOMAIN f \subseteq Menus
           /\ \A m \in DOMAIN f : f[m] \in Row
  BY DEF Snapshots

LEMMA EmptyIsSnapshot == EmptySnapshot \in Snapshots /\ DOMAIN EmptySnapshot = {}
  <1>1. EmptySnapshot \in [{} -> Row]
    BY DEF EmptySnapshot
  <1> QED
    BY <1>1 DEF Snapshots

(* Reading one more row makes a snapshot of a snapshot.                    *)
LEMMA SnapshotExtends ==
    ASSUME NEW f \in Snapshots, NEW m \in Menus, NEW row \in Row
    PROVE  [n \in DOMAIN f \cup {m} |-> IF n = m THEN row ELSE f[n]] \in Snapshots
  <1> DEFINE S == DOMAIN f \cup {m}
             g == [n \in S |-> IF n = m THEN row ELSE f[n]]
  <1>1. S \in SUBSET Menus
    BY SnapshotType
  <1>2. g \in [S -> Row]
    BY SnapshotType
  <1> QED
    BY <1>1, <1>2 DEF Snapshots

(* A row added to a history of rows.                                       *)
LEMMA AppendKeepsType ==
    ASSUME NEW S, NEW s \in Seq(S), NEW e \in S
    PROVE  Append(s, e) \in Seq(S)
  BY AppendProperties

(* The row a PATCH is going to write is a row, and keeps the fields that   *)
(* its body leaves out.                                                    *)
LEMMA MergedType ==
    ASSUME MenuInv, NEW a \in Admins, patchStep[a] = "locked"
    PROVE  /\ patchReq[a].menu \in Menus /\ patchReq[a].begunAt \in Nat
           /\ Merged(a).price <= MaxInt => Merged(a) \in Row
           /\ patchReq[a].dto.price = Absent =>
                Merged(a).price = menus[patchReq[a].menu].price
           /\ patchReq[a].dto.isAvailable = Absent =>
                Merged(a).isAvailable = menus[patchReq[a].menu].isAvailable
  <1>1. patchReq[a].menu \in Menus /\ patchRow[a] = menus[patchReq[a].menu]
    BY DEF MenuInv, MenusConsistent, ReadUnderLock
  <1>2. patchRow[a] \in Row
    BY <1>1 DEF MenuInv, MenuTypeOK
  <1>3. patchReq[a].menu # Absent
    BY <1>1, MenuCatalogAssumption
  <1>4. patchReq[a] \in [menu : MenuIds, dto : Dtos, begunAt : Nat]
    BY <1>3 DEF MenuInv, MenuTypeOK, NoRequest
  <1>5. patchReq[a].dto \in Dtos
    BY <1>4
  <1>6. ASSUME Merged(a).price <= MaxInt
        PROVE  Merged(a) \in Row
    <2> DEFINE dto == patchReq[a].dto
    <2>1. /\ dto.price \in Nat \cup {Absent} /\ dto.isAvailable \in BOOLEAN \cup {Absent}
          /\ dto.price \in 0 .. MaxInt => dto.price \in Prices
      BY <1>5, DtosAssumption DEF Dto
    <2>2. Merged(a).price \in Prices
      BY <1>2, <1>6, <2>1, MenuCatalogAssumption DEF Merged, Row
    <2>3. Merged(a).isAvailable \in BOOLEAN
      BY <1>2, <2>1 DEF Merged, Row
    <2> QED
      BY <2>2, <2>3 DEF Merged, Row
  <1> QED
    BY <1>1, <1>4, <1>6 DEF Merged

----------------------------------------------------------------------------
(* The types.                                                              *)

LEMMA MenuTypeStep ==
    ASSUME MenuInv, MenuStep
    PROVE  MenuTypeOK'
  <1>0. MenuTypeOK
    BY DEF MenuInv
  <1> USE DEF MenuTypeOK, PatchSteps, PatchAnswers, Snapshots
  <1>1. ASSUME NEW a \in Admins, NEW m \in MenuIds, NEW dto \in Dtos,
               PatchBegin(a, m, dto)
        PROVE  MenuTypeOK'
    <2>2. CASE dto.price = Absent /\ dto.isAvailable = Absent
      BY <1>0, <1>1, <2>2 DEF PatchBegin
    <2>3. CASE ~(dto.price = Absent /\ dto.isAvailable = Absent)
      <3>1. patchReq' = [patchReq EXCEPT ![a] =
                           [menu |-> m, dto |-> dto, begunAt |-> txClock + 1]]
        BY <1>1, <2>3 DEF PatchBegin
      <3>2. [menu |-> m, dto |-> dto, begunAt |-> txClock + 1]
                \in [menu : MenuIds, dto : Dtos, begunAt : Nat]
        BY <1>0
      <3>3. patchReq' \in [Admins -> [menu : MenuIds, dto : Dtos, begunAt : Nat]
                                        \cup {NoRequest}]
        BY <1>0, <3>1, <3>2
      <3>4. /\ patchStep' \in [Admins -> PatchSteps] /\ txClock' \in Nat
            /\ UNCHANGED <<menus, menuHistory, patchRow, shared, snapshot>>
        BY <1>0, <1>1, <2>3 DEF PatchBegin
      <3> QED
        BY <1>0, <3>3, <3>4
    <2> QED
      BY <2>2, <2>3
  <1>2. ASSUME NEW a \in Admins, PatchNotFound(a) \/ PatchOutOfRange(a) \/ PatchAbort(a)
        PROVE  MenuTypeOK'
    BY <1>0, <1>2 DEF PatchNotFound, PatchOutOfRange, PatchAbort
  <1>3. ASSUME NEW a \in Admins, PatchLock(a)
        PROVE  MenuTypeOK'
    BY <1>0, <1>3 DEF PatchLock
  <1>4. ASSUME NEW a \in Admins, PatchCommit(a)
        PROVE  MenuTypeOK'
    <2> DEFINE m == patchReq[a].menu
               entry == [menu |-> m, old |-> patchRow[a], new |-> Merged(a),
                         changedAt |-> ChangedAt(a)]
    <2>1. patchStep[a] = "locked" /\ Merged(a).price <= MaxInt
          /\ menus' = [menus EXCEPT ![m] = Merged(a)]
          /\ menuHistory' \in {menuHistory, Append(menuHistory, entry)}
      BY <1>4 DEF PatchCommit
    <2>2. m \in Menus /\ Merged(a) \in Row /\ patchReq[a].begunAt \in Nat
      BY <2>1, MergedType
    <2>3. patchRow[a] \in Row
      BY <1>0, <2>1, <2>2 DEF MenuInv, MenusConsistent, ReadUnderLock
    <2>4. entry \in HistoryRow
      BY <2>2, <2>3 DEF HistoryRow, ChangedAt
    <2>5. menuHistory' \in Seq(HistoryRow)
      <3> HIDE DEF entry
      <3>1. menuHistory \in Seq(HistoryRow)
        BY <1>0
      <3>2. Append(menuHistory, entry) \in Seq(HistoryRow)
        BY <2>4, <3>1, AppendKeepsType
      <3> QED
        BY <2>1, <3>1, <3>2
    <2>6. menus' \in [Menus -> Row]
      BY <1>0, <2>1, <2>2
    <2>7. patchStep' \in [Admins -> PatchSteps]
      BY <1>0, <1>4 DEF PatchCommit
    <2> QED
      BY <1>0, <1>4, <2>5, <2>6, <2>7 DEF PatchCommit
  <1>5. ASSUME NEW r \in Requests, NEW m \in Menus, ShareRow(r, m)
        PROVE  MenuTypeOK'
    <2>1. snapshot[r] \in Snapshots /\ menus[m] \in Row
      BY <1>0
    <2>2. snapshot' = [snapshot EXCEPT ![r] =
                  [n \in DOMAIN snapshot[r] \cup {m} |->
                     IF n = m THEN menus[m] ELSE snapshot[r][n]]]
      BY <1>5 DEF ShareRow
    <2>3. [n \in DOMAIN snapshot[r] \cup {m} |->
             IF n = m THEN menus[m] ELSE snapshot[r][n]] \in Snapshots
      BY <2>1, SnapshotExtends
    <2>4. snapshot' \in [Requests -> Snapshots]
      BY <1>0, <2>2, <2>3
    <2>5. shared' \in [Requests -> SUBSET Menus]
      BY <1>0, <1>5 DEF ShareRow, ShareLock
    <2> QED
      BY <1>0, <1>5, <2>4, <2>5 DEF ShareRow
  <1>6. ASSUME NEW r \in Requests, EndOrder(r)
        PROVE  MenuTypeOK'
    BY <1>0, <1>6, EmptyIsSnapshot DEF EndOrder, ReleaseRows
  <1>7. CASE LoseAll
    BY <1>0, <1>7, EmptyIsSnapshot DEF LoseAll, LosePatches
  <1>8. CASE UNCHANGED menuVars
    BY <1>0, <1>8 DEF menuVars
  <1> QED
    BY <1>1, <1>2, <1>3, <1>4, <1>5, <1>6, <1>7, <1>8 DEF MenuStep, PatchNext

----------------------------------------------------------------------------
(* The locks and what they protect.                                        *)

(* A row changes only by the COMMIT of a PATCH of it, which holds its lock. *)
LEMMA RowsChange ==
    ASSUME MenuInv, MenuStep, NEW m \in Menus, menus'[m] # menus[m]
    PROVE  \E a \in Admins : PatchCommit(a) /\ patchReq[a].menu = m
  <1>1. menus' # menus
    OBVIOUS
  <1>2. PICK a \in Admins : PatchCommit(a)
    BY <1>1 DEF MenuStep, PatchNext, PatchBegin, PatchNotFound, PatchLock, PatchOutOfRange,
                PatchAbort, ShareRow, EndOrder, LoseAll, menuVars
  <1>3. patchStep[a] = "locked" /\ menus' = [menus EXCEPT ![patchReq[a].menu] = Merged(a)]
    BY <1>2 DEF PatchCommit
  <1>4. patchReq[a].menu = m
    BY <1>3, MergedType DEF MenuInv, MenuTypeOK
  <1> QED
    BY <1>2, <1>4

(* Whoever has read a row keeps PATCHes of it from committing.             *)
LEMMA ReadersKeepRows ==
    ASSUME MenuInv, MenuStep, NEW r \in Requests, NEW m \in shared[r]
    PROVE  menus'[m] = menus[m]
  <1>1. m \in Menus
    BY DEF MenuInv, MenuTypeOK
  <1>2. RowWriters(m) = {}
    BY <1>1 DEF MenuInv, MenusConsistent, LocksExclusive, RowSharers
  <1> QED
    BY <1>1, <1>2, RowsChange DEF PatchCommit, RowWriters

\* a has the lock of the row of its request, as before the step.
KeepsLock(a) ==
    /\ patchStep[a] = "locked"
    /\ patchReq'[a] = patchReq[a]
    /\ patchRow'[a] = patchRow[a]

(* Only SELECT ... FOR UPDATE locks: who has the lock of a row after any   *)
(* other step had it before, for the same request and with the same row.   *)
LEMMA StillLocked ==
    ASSUME MenuInv, MenuStep, NEW a \in Admins, patchStep'[a] = "locked", ~PatchLock(a)
    PROVE  KeepsLock(a)
  <1> USE DEF MenuInv, MenuTypeOK
  <1>1. ASSUME NEW b \in Admins, NEW m \in MenuIds, NEW dto \in Dtos, PatchBegin(b, m, dto)
        PROVE  KeepsLock(a)
    BY <1>1 DEF KeepsLock, PatchBegin
  <1>2. ASSUME NEW b \in Admins, PatchNotFound(b)
        PROVE  KeepsLock(a)
    BY <1>2 DEF KeepsLock, PatchNotFound
  <1>3. ASSUME NEW b \in Admins, PatchLock(b)
        PROVE  KeepsLock(a)
    BY <1>3 DEF KeepsLock, PatchLock
  <1>4. ASSUME NEW b \in Admins, PatchCommit(b)
        PROVE  KeepsLock(a)
    BY <1>4 DEF KeepsLock, PatchCommit
  <1>5. ASSUME NEW b \in Admins, PatchOutOfRange(b) \/ PatchAbort(b)
        PROVE  KeepsLock(a)
    BY <1>5 DEF KeepsLock, PatchOutOfRange, PatchAbort
  <1>6. CASE UNCHANGED <<patchStep, patchReq, patchRow>>
    BY <1>6 DEF KeepsLock
  <1>7. CASE LoseAll
    BY <1>7 DEF KeepsLock, LoseAll, LosePatches
  <1>8. CASE PatchNext
    <2>1. PICK b \in Admins : \/ \E m \in MenuIds, dto \in Dtos : PatchBegin(b, m, dto)
                             \/ PatchNotFound(b) \/ PatchLock(b)
                             \/ PatchOutOfRange(b) \/ PatchCommit(b) \/ PatchAbort(b)
      BY <1>8 DEF PatchNext
    <2> QED
      BY <1>1, <1>2, <1>3, <1>4, <1>5, <2>1, Zenon
  <1>9. PatchNext \/ LoseAll \/ UNCHANGED <<patchStep, patchReq, patchRow>>
    BY DEF MenuStep, ShareRow, EndOrder, menuVars
  <1> QED
    BY <1>6, <1>7, <1>8, <1>9, Zenon

(* The locks of a step: only SELECT ... FOR UPDATE makes a writer, only    *)
(* SELECT ... FOR SHARE a sharer.                                          *)
LEMMA LocksStep ==
    ASSUME MenuInv, MenuStep
    PROVE  LocksExclusive'
  <1> USE DEF MenuInv, MenuTypeOK, MenusConsistent
  <1>1. ASSUME NEW a \in Admins, PatchLock(a)
        PROVE  LocksExclusive'
    <2>1. MayUpdate(patchReq[a].menu) /\ shared' = shared /\ patchReq' = patchReq
          /\ patchStep' = [patchStep EXCEPT ![a] = "locked"]
      BY <1>1 DEF PatchLock
    <2>2. ASSUME NEW m \in Menus
          PROVE  /\ RowSharers(m)' = RowSharers(m)
                 /\ m = patchReq[a].menu => RowWriters(m)' = {a} /\ RowSharers(m) = {}
                 /\ m # patchReq[a].menu => RowWriters(m)' = RowWriters(m)
      BY <2>1 DEF MayUpdate, RowWriters, RowSharers
    <2> QED
      BY <2>2 DEF LocksExclusive
  <1>2. ASSUME NEW r \in Requests, NEW m \in Menus, ShareRow(r, m)
        PROVE  LocksExclusive'
    <2>1. RowWriters(m) = {} /\ patchStep' = patchStep /\ patchReq' = patchReq
          /\ shared' = [shared EXCEPT ![r] = @ \cup {m}]
      BY <1>2 DEF ShareRow, MayShare, ShareLock
    <2>2. ASSUME NEW n \in Menus
          PROVE  /\ RowWriters(n)' = RowWriters(n)
                 /\ n # m => RowSharers(n)' = RowSharers(n)
      BY <2>1 DEF RowWriters, RowSharers
    <2> QED
      BY <2>1, <2>2 DEF LocksExclusive
  <1>3. CASE ~ \E a \in Admins : PatchLock(a)
    <2>1. CASE ~ \E r \in Requests, m \in Menus : ShareRow(r, m)
      <3>1. ASSUME NEW a \in Admins, patchStep'[a] = "locked"
            PROVE  patchStep[a] = "locked" /\ patchReq'[a] = patchReq[a]
        BY <1>3, <3>1, StillLocked DEF KeepsLock
      <3>2. ASSUME NEW r \in Requests
            PROVE  shared'[r] \subseteq shared[r]
        BY <1>3, <2>1
           DEF MenuStep, PatchNext, PatchBegin, PatchNotFound, PatchOutOfRange, PatchCommit,
               PatchAbort, EndOrder, ReleaseRows, LoseAll, menuVars
      <3>3. ASSUME NEW m \in Menus
            PROVE  RowWriters(m)' \subseteq RowWriters(m) /\ RowSharers(m)' \subseteq RowSharers(m)
        BY <3>1, <3>2 DEF RowWriters, RowSharers
      <3> QED
        BY <3>3 DEF LocksExclusive
    <2> QED
      BY <1>2, <2>1
  <1> QED
    BY <1>1, <1>3

LEMMA ReadUnderLockStep ==
    ASSUME MenuInv, MenuStep
    PROVE  ReadUnderLock'
  <1> USE DEF MenuInv, MenuTypeOK, MenusConsistent
  <1>1. ASSUME NEW r \in Requests
        PROVE  DOMAIN (snapshot'[r]) \subseteq shared'[r]
    <2>1. ASSUME NEW q \in Requests, NEW m \in Menus, ShareRow(q, m)
          PROVE  DOMAIN (snapshot'[r]) \subseteq shared'[r]
      BY <2>1 DEF ShareRow, ShareLock, ReadUnderLock
    <2>2. ASSUME NEW q \in Requests, EndOrder(q)
          PROVE  DOMAIN (snapshot'[r]) \subseteq shared'[r]
      BY <2>2, EmptyIsSnapshot DEF EndOrder, ReleaseRows, ReadUnderLock
    <2>3. CASE LoseAll
      BY <2>3, EmptyIsSnapshot DEF LoseAll
    <2>4. CASE UNCHANGED <<shared, snapshot>>
      BY <2>4 DEF ReadUnderLock
    <2> QED
      BY <2>1, <2>2, <2>3, <2>4
         DEF MenuStep, PatchNext, PatchBegin, PatchNotFound, PatchLock, PatchOutOfRange, PatchCommit,
             PatchAbort, menuVars
  <1>2. ASSUME NEW a \in Admins, patchStep'[a] = "locked"
        PROVE  patchReq'[a].menu \in Menus /\ patchRow'[a] = menus'[patchReq'[a].menu]
    <2>1. CASE PatchLock(a)
      BY <2>1 DEF PatchLock
    <2>2. CASE ~PatchLock(a)
      <3>1. patchStep[a] = "locked" /\ patchReq'[a] = patchReq[a] /\ patchRow'[a] = patchRow[a]
        BY <1>2, <2>2, StillLocked DEF KeepsLock
      <3>2. patchReq[a].menu \in Menus /\ patchRow[a] = menus[patchReq[a].menu]
        BY <3>1 DEF ReadUnderLock
      <3>3. menus'[patchReq[a].menu] = menus[patchReq[a].menu]
        <4>1. SUFFICES ASSUME menus'[patchReq[a].menu] # menus[patchReq[a].menu]
                       PROVE  FALSE
          OBVIOUS
        <4>2. PICK b \in Admins : PatchCommit(b) /\ patchReq[b].menu = patchReq[a].menu
          BY <3>2, <4>1, RowsChange
        <4>3. patchStep[b] = "locked" /\ patchStep'[b] # "locked"
          BY <4>2 DEF PatchCommit
        <4>4. a \in RowWriters(patchReq[a].menu) /\ b \in RowWriters(patchReq[a].menu)
          BY <3>1, <4>2, <4>3 DEF RowWriters
        <4> QED
          BY <1>2, <3>2, <4>3, <4>4 DEF LocksExclusive
      <3> QED
        BY <3>1, <3>2, <3>3
    <2> QED
      BY <2>1, <2>2
  <1> QED
    BY <1>1, <1>2 DEF ReadUnderLock

LEMMA SnapshotsFreshStep ==
    ASSUME MenuInv, MenuStep
    PROVE  SnapshotsFresh'
  <1> USE DEF MenuInv, MenuTypeOK, MenusConsistent
  <1>0. SUFFICES ASSUME NEW r \in Requests, NEW m \in DOMAIN (snapshot'[r])
                 PROVE  snapshot'[r][m] = menus'[m]
    BY DEF SnapshotsFresh
  <1>1. CASE m \in DOMAIN snapshot[r] /\ snapshot'[r][m] = snapshot[r][m]
    <2>1. m \in shared[r] /\ snapshot[r][m] = menus[m]
      BY <1>1 DEF ReadUnderLock, SnapshotsFresh
    <2> QED
      BY <1>1, <2>1, ReadersKeepRows
  <1>2. ASSUME NEW q \in Requests, NEW n \in Menus, ShareRow(q, n)
        PROVE  \/ m \in DOMAIN snapshot[r] /\ snapshot'[r][m] = snapshot[r][m]
               \/ snapshot'[r][m] = menus'[m]
    BY <1>2 DEF ShareRow
  <1>3. ASSUME ~ \E q \in Requests, n \in Menus : ShareRow(q, n)
        PROVE  m \in DOMAIN snapshot[r] /\ snapshot'[r][m] = snapshot[r][m]
    BY <1>3, EmptyIsSnapshot
       DEF MenuStep, PatchNext, PatchBegin, PatchNotFound, PatchLock, PatchOutOfRange, PatchCommit,
           PatchAbort, EndOrder, ReleaseRows, LoseAll, menuVars
  <1> QED
    BY <1>1, <1>2, <1>3

----------------------------------------------------------------------------
(* The history.                                                            *)

LEMMA HistoryStep ==
    ASSUME MenuInv, MenuStep
    PROVE  HistoryAccountsForRows'
  <1> USE DEF MenuInv, MenusConsistent
  <1>1. ASSUME NEW a \in Admins, PatchCommit(a)
        PROVE  HistoryAccountsForRows'
    <2> DEFINE m == patchReq[a].menu
               entry == [menu |-> m, old |-> patchRow[a], new |-> Merged(a),
                         changedAt |-> ChangedAt(a)]
               n == Len(menuHistory)
    <2>1. patchStep[a] = "locked" /\ Merged(a).price <= MaxInt
          /\ menus' = [menus EXCEPT ![m] = Merged(a)]
          /\ IF Merged(a) = patchRow[a] THEN menuHistory' = menuHistory
             ELSE menuHistory' = Append(menuHistory, entry)
      BY <1>1 DEF PatchCommit
    <2>2. m \in Menus /\ Merged(a) \in Row /\ patchRow[a] = menus[m] /\ menus \in [Menus -> Row]
          /\ patchReq[a].begunAt \in Nat /\ menuHistory \in Seq(HistoryRow)
      BY <2>1, MergedType DEF ReadUnderLock, MenuTypeOK
    <2>3. CASE Merged(a) = patchRow[a]
      <3>1. menus' = menus /\ menuHistory' = menuHistory
        BY <2>1, <2>2, <2>3
      <3> QED
        BY <3>1 DEF HistoryAccountsForRows, NextEntry
    <2>4. CASE Merged(a) # patchRow[a]
      <3> DEFINE h == menuHistory'
      <3>1. entry \in HistoryRow
        BY <2>2 DEF HistoryRow, ChangedAt
      <3>2. /\ n \in Nat /\ DOMAIN menuHistory = 1 .. n /\ DOMAIN h = 1 .. (n + 1)
            /\ \A i \in 1 .. n : h[i] = menuHistory[i]
            /\ h[n + 1] = entry
        BY <2>1, <2>2, <2>4, <3>1, AppendProperties, LenProperties
      <3>3. ASSUME NEW i \in 1 .. (n + 1), NEW j \in 1 .. (n + 1), NextEntry(i, j)'
            PROVE  h[i].new = h[j].old
        <4>1. /\ i < j /\ h[i].menu = h[j].menu /\ i \in 1 .. n
              /\ \A k \in (i + 1) .. (j - 1) : h[k].menu # h[i].menu
          BY <3>2, <3>3 DEF NextEntry
        <4>2. CASE j \in 1 .. n
          <5>1. \A k \in (i + 1) .. (j - 1) : k \in 1 .. n /\ h[k] = menuHistory[k]
            BY <3>2, <4>1, <4>2
          <5>2. NextEntry(i, j)
            BY <3>2, <4>1, <4>2, <5>1 DEF NextEntry
          <5> QED
            BY <3>2, <4>1, <4>2, <5>2 DEF HistoryAccountsForRows
        <4>3. CASE j = n + 1
          <5>1. \A k \in 1 .. n : i < k => menuHistory[k].menu # menuHistory[i].menu
            BY <3>2, <4>1, <4>3
          <5>2. menuHistory[i].new = menus[menuHistory[i].menu] /\ menuHistory[i].menu = m
            BY <3>2, <4>1, <4>3, <5>1 DEF HistoryAccountsForRows
          <5> QED
            BY <2>2, <3>2, <4>1, <4>3, <5>2
        <4> QED
          BY <4>2, <4>3, <3>2
      <3>4. ASSUME NEW i \in 1 .. (n + 1),
                   \A j \in 1 .. (n + 1) : i < j => h[j].menu # h[i].menu
            PROVE  h[i].new = menus'[h[i].menu]
        <4>1. CASE i = n + 1
          BY <2>1, <2>2, <3>2, <4>1
        <4>2. CASE i \in 1 .. n
          <5>1. \A j \in 1 .. n : i < j => menuHistory[j].menu # menuHistory[i].menu
            BY <3>2, <3>4, <4>2
          <5>2. menuHistory[i].new = menus[menuHistory[i].menu]
            BY <3>2, <4>2, <5>1 DEF HistoryAccountsForRows
          <5>3. menuHistory[i].menu # m
            BY <3>2, <3>4, <4>2
          <5>4. menuHistory[i] \in HistoryRow
            BY <2>2, <3>2, <4>2, ElementOfSeq
          <5>5. menuHistory[i].menu \in Menus
            BY <5>4 DEF HistoryRow
          <5> QED
            BY <2>1, <2>2, <3>2, <4>2, <5>2, <5>3, <5>5
        <4> QED
          BY <4>1, <4>2, <3>2
      <3> QED
        BY <3>2, <3>3, <3>4 DEF HistoryAccountsForRows
    <2> QED
      BY <2>3, <2>4
  <1>2. CASE UNCHANGED <<menus, menuHistory>>
    BY <1>2 DEF HistoryAccountsForRows, NextEntry
  <1> QED
    BY <1>1, <1>2
       DEF MenuStep, PatchNext, PatchBegin, PatchNotFound, PatchLock, PatchOutOfRange,
           PatchAbort, ShareRow, EndOrder, LoseAll, menuVars

----------------------------------------------------------------------------
(* Together.                                                               *)

LEMMA MenuInitInv ==
    ASSUME MenuInit
    PROVE  MenuInv
  <1>1. MenuTypeOK
    <2>1. snapshot \in [Requests -> Snapshots]
      BY EmptyIsSnapshot DEF MenuInit
    <2>2. menuHistory \in Seq(HistoryRow)
      BY EmptySeq DEF MenuInit
    <2> QED
      BY <2>1, <2>2 DEF MenuInit, MenuTypeOK, PatchSteps, PatchAnswers, Snapshots
  <1>2. LocksExclusive /\ ReadUnderLock /\ SnapshotsFresh
    BY EmptyIsSnapshot
       DEF MenuInit, LocksExclusive, RowWriters, RowSharers, ReadUnderLock, SnapshotsFresh
  <1>3. HistoryAccountsForRows
    BY DEF MenuInit, HistoryAccountsForRows
  <1> QED
    BY <1>1, <1>2, <1>3 DEF MenuInv, MenusConsistent

LEMMA MenuInvStep ==
    ASSUME MenuInv, MenuStep
    PROVE  MenuInv'
  BY MenuTypeStep, LocksStep, ReadUnderLockStep, SnapshotsFreshStep, HistoryStep
     DEF MenuInv, MenusConsistent

(* A PATCH that leaves a field out does not change it.                     *)
LEMMA NoLostUpdateStep ==
    ASSUME MenuInv, MenuStep, NEW m \in Menus, menus'[m] # menus[m]
    PROVE  \E a \in Admins : ChangesOnlyNamedFields(a, m)
  <1>1. PICK a \in Admins : PatchCommit(a) /\ patchReq[a].menu = m
    BY RowsChange
  <1>2. /\ patchStep[a] = "locked" /\ patchStep'[a] # "locked"
        /\ menus' = [menus EXCEPT ![m] = Merged(a)]
    BY <1>1 DEF PatchCommit, MenuInv, MenuTypeOK
  <1>3. menus'[m] = Merged(a)
    BY <1>2 DEF MenuInv, MenuTypeOK
  <1>4. ChangesOnlyNamedFields(a, m)
    BY <1>1, <1>2, <1>3, MergedType DEF ChangesOnlyNamedFields
  <1> QED
    BY <1>4

----------------------------------------------------------------------------
(* What a step is, seen from outside of the catalogue.                     *)

\* A step of the call r.
CallStep(r) ==
    \/ \E k \in Keys, dto \in Sent : Arrive(r, k, dto)
    \/ Proceed(r)
    \/ CommitAckLost(r)
    \/ Abort(r)

\* A step that concerns no call.
Quiet == UNCHANGED <<step, body, number, returned, orders, counter, events, shared, snapshot>>

OthersKeep(r) ==
    \A q \in Requests \ {r} :
        /\ step'[q] = step[q] /\ body'[q] = body[q] /\ number'[q] = number[q]
        /\ returned'[q] = returned[q]
        /\ shared'[q] = shared[q] /\ snapshot'[q] = snapshot[q]

\* The ways a call can go on.
Goes(r) ==
    /\ step[r] \in {"idle", "lookup", "menus", "number", "insert"}
    /\ step'[r] \in InTransaction \cup {"lookup", "raceLookup"}
    /\ step'[r] = "raceLookup" => step[r] = "insert" /\ DuplicateKey(r)
    /\ UNCHANGED <<orders, counter, events, returned>>

Fails(r) ==
    /\ step[r] \in InTransaction \cup {"lookup", "raceLookup"}
    /\ step'[r] \in {"MENU_UNAVAILABLE", "INTERNAL_ERROR"}
    /\ returned'[r] = Absent
    /\ UNCHANGED <<orders, counter, events>>

Resolves(r) ==
    /\ step[r] \in {"lookup", "raceLookup"}
    /\ \E o \in WithKey(body[r].key) :
        \/ /\ o.fingerprint = body[r].fingerprint
           /\ step'[r] = "OK" /\ returned'[r] = o.id
        \/ /\ o.fingerprint # body[r].fingerprint
           /\ step'[r] = "IDEMPOTENCY_CONFLICT" /\ returned'[r] = Absent
    /\ UNCHANGED <<orders, counter, events>>

Commits(r) ==
    /\ step[r] = "written"
    /\ CommitRows(r)
    /\ \/ step'[r] = "publish" /\ returned'[r] = returned[r]
       \/ "ackLost" \in Faults /\ step'[r] = "INTERNAL_ERROR" /\ returned'[r] = Absent
    /\ UNCHANGED <<body, number, events>>

Publishes(r) ==
    /\ step[r] = "publish"
    /\ step'[r] = "OK" /\ returned'[r] = r
    /\ events' = Append(events, r)
    /\ UNCHANGED <<orders, counter>>

GoesOn(r) == Goes(r) \/ Fails(r) \/ Resolves(r) \/ Commits(r) \/ Publishes(r)

LEMMA Cases ==
    ASSUME IInv, [Next]_vars
    PROVE  (\E r \in Requests : CallStep(r)) \/ Crash \/ (Quiet /\ today' \in Days)
  <1>1. CASE PatchNext /\ UNCHANGED placementVars
    <2>1. UNCHANGED <<shared, snapshot>>
      BY <1>1 DEF PatchNext, PatchBegin, PatchNotFound, PatchLock, PatchOutOfRange,
                PatchCommit, PatchAbort
    <2> QED
      BY <1>1, <2>1 DEF Quiet, placementVars, IInv, TypeOK
  <1>2. CASE Midnight
    BY <1>2, OrderPlacementAssumption DEF Midnight, Quiet, menuVars, IInv, TypeOK, Days
  <1>3. CASE Finished \/ UNCHANGED vars
    BY <1>3 DEF Finished, vars, menuVars, placementVars, Quiet, IInv, TypeOK
  <1> QED
    BY <1>1, <1>2, <1>3 DEF Next, CallStep

(* All that happens to the catalogue is what MenuCatalog says.             *)
LEMMA StepsOfMenus ==
    ASSUME IInv, [Next]_vars
    PROVE  MenuInv /\ MenuStep
  <1>1. MenuInv
    BY DEF IInv, TypeOK, MenuInv
  <1>2. ASSUME NEW r \in Requests, CallStep(r)
        PROVE  MenuStep
    <2>1. CASE ReadMenu(r)
      <3>1. PICK m \in Menus : ShareRow(r, m)
        BY <2>1 DEF ReadMenu, NextRow
      <3> QED
        BY <3>1 DEF MenuStep
    <2>2. CASE EndTransaction(r)
      BY <2>2 DEF EndTransaction, EndOrder, MenuStep
    <2>3. CASE UNCHANGED menuVars
      BY <2>3 DEF MenuStep
    <2> QED
      BY <1>2, <2>1, <2>2, <2>3
         DEF CallStep, Proceed, Arrive, CommitAckLost, Abort, FindExisting, FindNone,
             RefuseMenus, AcceptMenus, IssueNumber, InsertOrder, InsertOutOfRange,
             InsertNumberTaken, InsertKeyTaken, RaceLookup, Commit, Publish, Rollback
  <1>3. CASE Crash
    BY <1>1, <1>3 DEF Crash, LoseAll, MenuStep
  <1>4. CASE PatchNext \/ Midnight \/ Finished \/ UNCHANGED vars
    BY <1>1, <1>4 DEF Midnight, Finished, vars, MenuStep
  <1> QED
    BY <1>1, <1>2, <1>3, <1>4 DEF Next, CallStep

LEMMA OthersKeepStep ==
    ASSUME IInv, NEW r \in Requests, CallStep(r)
    PROVE  /\ OthersKeep(r) /\ today' = today
           /\ step[r] # "idle" => body' = body
           /\ step \in [Requests -> Steps] /\ step' \in [Requests -> Steps]
  <1> USE DEF IInv, TypeOK, MenuTypeOK, OthersKeep
  <1>1. CASE \E k \in Keys, dto \in Sent : Arrive(r, k, dto)
    BY <1>1 DEF Arrive, Goto, menuVars, Steps, InFlight
  <1>2. CASE FindExisting(r) \/ RaceLookup(r)
    BY <1>2 DEF FindExisting, RaceLookup, Resolve, Answer, menuVars, Steps, Answers
  <1>3. CASE FindNone(r) \/ AcceptMenus(r) \/ IssueNumber(r) \/ InsertOrder(r)
    BY <1>3 DEF FindNone, AcceptMenus, IssueNumber, InsertOrder, Goto, menuVars, Steps,
                InFlight, InTransaction
  <1>4. CASE ReadMenu(r)
    BY <1>4 DEF ReadMenu, ShareRow, ShareLock, placementVars
  <1>5. CASE RefuseMenus(r) \/ InsertOutOfRange(r) \/ InsertNumberTaken(r) \/ Abort(r)
    <2>1. /\ \E code \in {"MENU_UNAVAILABLE", "INTERNAL_ERROR"} : Answer(r, code, Absent)
          /\ ReleaseRows(r) /\ UNCHANGED <<body, number, today>>
      BY <1>5 DEF RefuseMenus, InsertOutOfRange, InsertNumberTaken, Abort, Rollback,
                  EndTransaction
    <2> QED
      BY <2>1 DEF Answer, ReleaseRows, Steps, Answers
  <1>6. CASE InsertKeyTaken(r) \/ Commit(r)
    BY <1>6 DEF InsertKeyTaken, Commit, Goto, Rollback, EndTransaction, ReleaseRows, Steps,
                InFlight
  <1>7. CASE CommitAckLost(r)
    BY <1>7 DEF CommitAckLost, Answer, EndTransaction, ReleaseRows, Steps, Answers
  <1>8. CASE Publish(r)
    BY <1>8 DEF Publish, Answer, menuVars, Steps, Answers
  <1> QED
    BY <1>1, <1>2, <1>3, <1>4, <1>5, <1>6, <1>7, <1>8 DEF CallStep, Proceed

LEMMA GoesOnStep ==
    ASSUME IInv, NEW r \in Requests, CallStep(r)
    PROVE  GoesOn(r)
  <1>0. step \in [Requests -> Steps] /\ returned \in [Requests -> Requests \cup {Absent}]
    BY DEF IInv, TypeOK
  <1> USE DEF GoesOn
  <1>1. CASE \E k \in Keys, dto \in Sent : Arrive(r, k, dto)
    BY <1>0, <1>1 DEF Arrive, Goto, Goes
  <1>2. ASSUME \E o \in WithKey(body[r].key) : Resolve(r, o),
               step[r] \in {"lookup", "raceLookup"}, UNCHANGED <<orders, counter>>
        PROVE  Resolves(r)
    BY <1>0, <1>2 DEF Resolve, Answer, Resolves
  <1>3. CASE FindExisting(r)
    BY <1>2, <1>3 DEF FindExisting
  <1>4. CASE RaceLookup(r)
    <2>1. CASE WithKey(body[r].key) = {}
      BY <1>0, <1>4, <2>1 DEF RaceLookup, Answer, Fails
    <2>2. CASE WithKey(body[r].key) # {}
      BY <1>2, <1>4, <2>2 DEF RaceLookup
    <2> QED
      BY <2>1, <2>2
  <1>5. CASE FindNone(r) \/ AcceptMenus(r) \/ IssueNumber(r) \/ InsertOrder(r)
    BY <1>0, <1>5 DEF FindNone, AcceptMenus, IssueNumber, InsertOrder, Goto, Goes,
                      InTransaction
  <1>6. CASE ReadMenu(r)
    BY <1>6 DEF ReadMenu, placementVars, Goes, InTransaction
  <1>7. CASE RefuseMenus(r) \/ InsertOutOfRange(r) \/ InsertNumberTaken(r) \/ Abort(r)
    BY <1>0, <1>7 DEF RefuseMenus, InsertOutOfRange, InsertNumberTaken, Abort, Answer,
                      Rollback, Fails, InTransaction
  <1>8. CASE InsertKeyTaken(r)
    BY <1>0, <1>8 DEF InsertKeyTaken, Goto, Rollback, Goes
  <1>9. CASE Commit(r)
    BY <1>0, <1>9 DEF Commit, Goto, Commits
  <1>10. CASE CommitAckLost(r)
    BY <1>0, <1>10 DEF CommitAckLost, Answer, Commits
  <1>11. CASE Publish(r)
    BY <1>0, <1>11 DEF Publish, Answer, Emit, Publishes
  <1> QED
    BY <1>1, <1>3, <1>4, <1>5, <1>6, <1>7, <1>8, <1>9, <1>10, <1>11 DEF CallStep, Proceed

LEMMA CrashEffect ==
    ASSUME IInv, Crash
    PROVE  /\ "crash" \in Faults /\ UNCHANGED <<body, number, returned, orders, counter, today, events>>
           /\ \A r \in Requests :
                /\ shared'[r] = {}
                /\ step'[r] = IF step[r] \in InFlight THEN "lost" ELSE step[r]
           /\ step' \in [Requests -> Steps]
  <1>1. \A r \in Requests : step[r] \in Steps
    BY DEF IInv, TypeOK
  <1> QED
    BY <1>1 DEF Crash, Steps, InFlight, InTransaction

----------------------------------------------------------------------------
(* The bodies of the calls and the orders.                                 *)

LEMMA BodyFacts ==
    ASSUME NEW b \in CallBodies
    PROVE  /\ b # NoBody
           /\ b.key \in Keys /\ b.dto \in Sent /\ b.dto \in Bodies
           /\ b.quantity = Quantity(b.dto) /\ b.quantity \in OrderedQuantities
           /\ b.fingerprint = RequestFingerprint(b.dto)
           /\ b.fingerprint \in RequestFingerprints
  <1>1. PICK k \in Keys, dto \in Sent : b = Body(k, dto)
    BY DEF CallBodies
  <1>2. b.key = k /\ b.dto = dto /\ b.quantity = Quantity(dto)
        /\ b.fingerprint = RequestFingerprint(dto)
    BY <1>1 DEF Body
  <1>3. Quantity(dto) \in OrderedQuantities /\ RequestFingerprint(dto) \in RequestFingerprints
    BY DEF OrderedQuantities, RequestFingerprints
  <1>4. b # NoBody
    BY <1>2, OrderPlacementAssumption DEF NoBody
  <1>5. dto \in Bodies
    BY OrderPlacementAssumption
  <1> QED
    BY <1>2, <1>3, <1>4, <1>5

LEMMA CallBody ==
    ASSUME IInv, NEW r \in Requests, step[r] # "idle"
    PROVE  body[r] \in CallBodies
  BY DEF IInv, TypeOK, CallsConsistent

LEMMA OrderFields ==
    ASSUME IInv, NEW o \in orders
    PROVE  /\ o.id \in Requests /\ o.key \in Keys /\ o.number \in [day : Days, seq : Nat \ {0}]
           /\ o.key = body[o.id].key /\ o.fingerprint = body[o.id].fingerprint
           /\ step[o.id] \in {"publish", "OK", "lost", "INTERNAL_ERROR"}
           /\ body[o.id] \in CallBodies
  <1>1. o \in Order
    BY DEF IInv, TypeOK
  <1>2. o.id \in Requests /\ o.key \in Keys /\ o.number \in [day : Days, seq : Nat \ {0}]
    BY <1>1 DEF Order
  <1> QED
    BY <1>2, CallBody DEF IInv, OrdersConsistent

(* A body, once it has arrived, stays.                                     *)
LEMMA BodiesStay ==
    ASSUME IInv, [Next]_vars, NEW r \in Requests, step[r] # "idle"
    PROVE  body'[r] = body[r] /\ step'[r] # "idle"
  <1>1. ASSUME NEW q \in Requests, CallStep(q)
        PROVE  body'[r] = body[r] /\ step'[r] # "idle"
    <2>1. GoesOn(q) /\ OthersKeep(q) /\ (step[q] # "idle" => body' = body)
      BY <1>1, GoesOnStep, OthersKeepStep
    <2> QED
      BY <2>1 DEF OthersKeep, GoesOn, Goes, Fails, Resolves, Commits, Publishes, InTransaction
  <1>2. CASE Crash
    BY <1>2, CrashEffect
  <1>3. CASE Quiet
    BY <1>3 DEF Quiet
  <1> QED
    BY <1>1, <1>2, <1>3, Cases

(* Orders come, one per COMMIT, and never go.                              *)
LEMMA OrdersGrow ==
    ASSUME IInv, [Next]_vars
    PROVE  \/ orders' = orders /\ counter' = counter
           \/ \E r \in Requests : CallStep(r) /\ Commits(r)
  <1>1. ASSUME NEW r \in Requests, CallStep(r)
        PROVE  (orders' = orders /\ counter' = counter) \/ Commits(r)
    BY <1>1, GoesOnStep DEF GoesOn, Goes, Fails, Resolves, Publishes
  <1> QED
    BY <1>1, Cases, CrashEffect DEF Quiet

LEMMA OrdersStay ==
    ASSUME IInv, [Next]_vars
    PROVE  orders \subseteq orders'
  BY OrdersGrow DEF Commits, CommitRows

(* The order that a COMMIT makes.                                          *)
LEMMA NewOrderType ==
    ASSUME IInv, NEW r \in Requests, step[r] = "written"
    PROVE  /\ NewOrder(r) \in Order
           /\ NewOrder(r).id = r /\ NewOrder(r).key = body[r].key
           /\ NewOrder(r).fingerprint = body[r].fingerprint
           /\ NewOrder(r).number = number[r]
           /\ number[r] = [day |-> number[r].day, seq |-> counter[number[r].day] + 1]
           /\ number[r].day \in Days /\ counter[number[r].day] \in Nat
           /\ UnitPrices(r) \in [Wanted(r) -> Prices]
  <1>1. body[r] \in CallBodies
    BY CallBody
  <1>2. number[r] \in [day : Days, seq : Nat] /\ counter \in [Days -> Nat]
        /\ number[r].seq = counter[number[r].day] + 1
    BY DEF IInv, TypeOK, CallsConsistent
  <1>3. number[r] \in [day : Days, seq : Nat \ {0}]
    BY <1>2
  <1>4. snapshot[r] \in Snapshots /\ DOMAIN snapshot[r] = Wanted(r)
    BY DEF IInv, TypeOK, MenuTypeOK, Snapshots, CallsConsistent, Orderable
  <1>5. Wanted(r) \subseteq Menus /\ \A m \in Wanted(r) : snapshot[r][m].price \in Prices
    BY <1>4, SnapshotType DEF Row
  <1>6. UnitPrices(r) \in [Wanted(r) -> Prices]
    BY <1>5 DEF UnitPrices
  <1>7. UnitPrices(r) \in UNION {[S -> Prices] : S \in SUBSET Menus}
    BY <1>5, <1>6
  <1>8. TotalPrice(r) \in PossibleTotals
    BY <1>1, <1>6, BodyFacts DEF TotalPrice, PossibleTotals, Wanted
  <1>9. TotalPrice(r) <= MaxInt
    BY DEF IInv, CallsConsistent
  <1>10. NewOrder(r) \in Order
    BY <1>1, <1>3, <1>7, <1>8, <1>9, BodyFacts DEF NewOrder, Order
  <1> QED
    BY <1>2, <1>6, <1>10 DEF NewOrder

----------------------------------------------------------------------------
(* The types.                                                              *)

LEMMA TypeStep ==
    ASSUME IInv, [Next]_vars
    PROVE  TypeOK'
  <1>0. TypeOK
    BY DEF IInv
  <1>1. MenuTypeOK'
    BY StepsOfMenus, MenuTypeStep
  <1>2. step' \in [Requests -> Steps] /\ today' \in Days
    BY <1>0, Cases, CrashEffect, OthersKeepStep DEF Quiet, TypeOK
  <1>3. body' \in [Requests -> CallBodies \cup {NoBody}]
    <2>1. ASSUME NEW r \in Requests, CallStep(r), step[r] = "idle"
          PROVE  \E k \in Keys, dto \in Sent : body' = [body EXCEPT ![r] = Body(k, dto)]
      BY <2>1 DEF CallStep, Proceed, Arrive, CommitAckLost, Abort, FindExisting, FindNone,
               ReadMenu, RefuseMenus, AcceptMenus, IssueNumber, InsertOrder,
               InsertOutOfRange, InsertNumberTaken, InsertKeyTaken, RaceLookup, Commit,
               Publish, InTransaction
    <2>2. ASSUME NEW k \in Keys, NEW dto \in Sent
          PROVE  Body(k, dto) \in CallBodies
      BY DEF CallBodies
    <2>3. ASSUME NEW r \in Requests, CallStep(r)
          PROVE  body' \in [Requests -> CallBodies \cup {NoBody}]
      <3>1. CASE step[r] = "idle"
        <4>1. PICK k \in Keys, dto \in Sent : body' = [body EXCEPT ![r] = Body(k, dto)]
          BY <2>1, <2>3, <3>1
        <4> QED
          BY <1>0, <2>2, <4>1 DEF TypeOK
      <3>2. CASE step[r] # "idle"
        BY <1>0, <2>3, <3>2, OthersKeepStep DEF TypeOK
      <3> QED
        BY <3>1, <3>2
    <2> QED
      BY <1>0, <2>3, Cases, CrashEffect DEF Quiet, TypeOK
  <1>4. number' \in [Requests -> [day : Days, seq : Nat]]
    <2>1. ASSUME NEW r \in Requests, AcceptMenus(r)
          PROVE  number' \in [Requests -> [day : Days, seq : Nat]]
      BY <1>0, <2>1 DEF AcceptMenus, TypeOK
    <2>2. ASSUME NEW r \in Requests, IssueNumber(r)
          PROVE  number' \in [Requests -> [day : Days, seq : Nat]]
      <3>1. number[r].day \in Days /\ counter[number[r].day] \in Nat
        BY <1>0 DEF TypeOK
      <3>2. number' = [number EXCEPT ![r] = [day |-> number[r].day,
                                             seq |-> counter[number[r].day] + 1]]
        BY <2>2 DEF IssueNumber, NextNumber
      <3> QED
        BY <1>0, <3>1, <3>2 DEF TypeOK
    <2>3. ASSUME NEW r \in Requests, CallStep(r), ~AcceptMenus(r), ~IssueNumber(r)
          PROVE  number' = number
      BY <2>3 DEF CallStep, Proceed, Arrive, CommitAckLost, Abort, FindExisting, FindNone,
               ReadMenu, RefuseMenus, InsertOrder, placementVars,
               InsertOutOfRange, InsertNumberTaken, InsertKeyTaken, RaceLookup, Commit,
               Publish
    <2> QED
      BY <1>0, <2>1, <2>2, <2>3, Cases, CrashEffect DEF Quiet, TypeOK
  <1>5. returned' \in [Requests -> Requests \cup {Absent}]
    <2>1. ASSUME NEW r \in Requests, CallStep(r)
          PROVE  \E x \in Requests \cup {Absent} : returned' \in {returned, [returned EXCEPT ![r] = x]}
      <3>1. ASSUME NEW o \in orders, Resolve(r, o)
            PROVE  \E x \in Requests \cup {Absent} : returned' = [returned EXCEPT ![r] = x]
        BY <3>1, OrderFields DEF Resolve, Answer
      <3>2. CASE FindExisting(r) \/ RaceLookup(r)
        BY <3>1, <3>2 DEF FindExisting, RaceLookup, WithKey, Answer
      <3>3. CASE RefuseMenus(r) \/ InsertOutOfRange(r) \/ InsertNumberTaken(r) \/ Abort(r)
                 \/ CommitAckLost(r) \/ Publish(r)
        BY <3>3 DEF RefuseMenus, InsertOutOfRange, InsertNumberTaken, Abort,
                    CommitAckLost, Publish, Answer
      <3>4. CASE UNCHANGED returned
        BY <3>4
      <3> QED
        BY <2>1, <3>2, <3>3, <3>4
           DEF CallStep, Proceed, Arrive, FindNone, ReadMenu, AcceptMenus, IssueNumber,
               InsertOrder, InsertKeyTaken, Commit, placementVars
    <2>2. ASSUME NEW r \in Requests, CallStep(r)
          PROVE  returned' \in [Requests -> Requests \cup {Absent}]
      BY <1>0, <2>1, <2>2 DEF TypeOK
    <2> QED
      BY <1>0, <2>2, Cases, CrashEffect DEF Quiet, TypeOK
  <1>6. orders' \subseteq Order /\ counter' \in [Days -> Nat]
    <2>1. ASSUME NEW r \in Requests, Commits(r)
          PROVE  orders' \subseteq Order /\ counter' \in [Days -> Nat]
      BY <1>0, <2>1, NewOrderType DEF Commits, CommitRows, TypeOK
    <2> QED
      BY <1>0, <2>1, OrdersGrow DEF TypeOK
  <1>7. events' \in Seq(Requests)
    <2>1. ASSUME NEW r \in Requests, CallStep(r)
          PROVE  events' = events \/ events' = Append(events, r)
      BY <2>1, GoesOnStep DEF GoesOn, Goes, Fails, Resolves, Commits, Publishes
    <2>2. ASSUME NEW r \in Requests
          PROVE  Append(events, r) \in Seq(Requests)
      BY <1>0, AppendProperties DEF TypeOK
    <2> QED
      BY <1>0, <2>1, <2>2, Cases, CrashEffect DEF Quiet, TypeOK
  <1> QED
    BY <1>1, <1>2, <1>3, <1>4, <1>5, <1>6, <1>7 DEF TypeOK

----------------------------------------------------------------------------
(* The calls and what they hold.                                           *)

\* What a call has read and been given does not change in this step.
Kept(q) ==
    /\ step'[q] = step[q] /\ body'[q] = body[q] /\ number'[q] = number[q]
    /\ snapshot'[q] = snapshot[q]

LEMMA Enters ==
    ASSUME IInv, NEW r \in Requests, CallStep(r)
    PROVE  /\ step'[r] = "number" => AcceptMenus(r)
           /\ step'[r] = "insert" => IssueNumber(r)
           /\ step'[r] = "written" => InsertOrder(r)
           /\ step'[r] = "publish" => Commits(r)
  <1>0. step \in [Requests -> Steps]
    BY DEF IInv, TypeOK
  <1>1. GoesOn(r)
    BY GoesOnStep
  <1>2. step'[r] = "publish" => Commits(r)
    BY <1>1 DEF GoesOn, Goes, Fails, Resolves, Publishes, InTransaction
  <1>3. CASE AcceptMenus(r) \/ IssueNumber(r) \/ InsertOrder(r)
    BY <1>0, <1>2, <1>3 DEF AcceptMenus, IssueNumber, InsertOrder, Goto
  <1>4. CASE FindNone(r) \/ InsertKeyTaken(r) \/ Commit(r)
                 \/ \E k \in Keys, dto \in Sent : Arrive(r, k, dto)
    BY <1>0, <1>2, <1>4 DEF FindNone, InsertKeyTaken, Commit, Arrive, Goto
  <1>5. CASE ReadMenu(r)
    BY <1>2, <1>5 DEF ReadMenu, placementVars
  <1>6. CASE FindExisting(r) \/ RaceLookup(r)
    BY <1>0, <1>2, <1>6 DEF FindExisting, RaceLookup, Resolve, Answer
  <1>7. CASE RefuseMenus(r) \/ InsertOutOfRange(r) \/ InsertNumberTaken(r) \/ Abort(r)
                 \/ CommitAckLost(r) \/ Publish(r)
    BY <1>0, <1>2, <1>7 DEF RefuseMenus, InsertOutOfRange, InsertNumberTaken, Abort,
                            CommitAckLost, Publish, Answer
  <1> QED
    BY <1>3, <1>4, <1>5, <1>6, <1>7 DEF CallStep, Proceed

LEMMA EntersOrKept ==
    ASSUME IInv, [Next]_vars, NEW q \in Requests,
           step'[q] \in {"number", "insert", "written", "publish"}
    PROVE  \/ Kept(q)
           \/ AcceptMenus(q) /\ step'[q] = "number"
           \/ IssueNumber(q) /\ step'[q] = "insert"
           \/ InsertOrder(q) /\ step'[q] = "written"
           \/ Commits(q) /\ step'[q] = "publish"
  <1>1. ASSUME NEW r \in Requests, CallStep(r), r # q
        PROVE  Kept(q)
    BY <1>1, OthersKeepStep DEF OthersKeep, Kept
  <1>2. CASE CallStep(q)
    BY <1>2, Enters
  <1>3. CASE Quiet
    BY <1>3 DEF Quiet, Kept
  <1>4. ~Crash
    BY CrashEffect DEF InFlight, InTransaction
  <1> QED
    BY <1>1, <1>2, <1>3, <1>4, Cases

(* The day's counter is locked by one call.                                *)
LEMMA CounterStep ==
    ASSUME IInv, [Next]_vars
    PROVE  CounterExclusive'
  <1>0. SUFFICES ASSUME NEW d \in Days, NEW q \in Requests, NEW r \in Requests,
                        q \in CounterHolders(d)', r \in CounterHolders(d)'
                 PROVE  q = r
    BY DEF CounterExclusive, CounterHolders
  <1>1. number \in [Requests -> [day : Days, seq : Nat]]
    BY DEF IInv, TypeOK
  <1>2. ASSUME NEW p \in Requests, p \in CounterHolders(d)'
        PROVE  p \in CounterHolders(d) \/ (IssueNumber(p) /\ CounterHolders(d) = {})
    <2>1. step'[p] \in {"insert", "written"} /\ number'[p].day = d
      BY <1>2 DEF CounterHolders
    <2>2. CASE Kept(p)
      BY <2>1, <2>2 DEF Kept, CounterHolders
    <2>3. CASE IssueNumber(p)
      BY <1>1, <2>1, <2>3 DEF IssueNumber
    <2>4. CASE InsertOrder(p)
      BY <2>1, <2>4 DEF InsertOrder, CounterHolders
    <2> QED
      BY <2>1, <2>2, <2>3, <2>4, EntersOrKept
  <1>3. ASSUME NEW p \in Requests, IssueNumber(p)
        PROVE  \A x \in Requests \ {p} : step'[x] = step[x]
    <2>1. CallStep(p)
      BY <1>3 DEF CallStep, Proceed
    <2> QED
      BY <2>1, OthersKeepStep DEF OthersKeep
  <1>4. CASE q \in CounterHolders(d) /\ r \in CounterHolders(d)
    BY <1>4 DEF IInv, CounterExclusive
  <1>5. CASE IssueNumber(q) /\ IssueNumber(r)
    <2>1. step[q] = "number" /\ step[r] = "number" /\ step'[r] = "insert"
      BY <1>5, <1>0 DEF IssueNumber, Goto, IInv, TypeOK
    <2> QED
      BY <1>3, <1>5, <2>1
  <1> QED
    BY <1>0, <1>2, <1>4, <1>5

(* A row that is written and not committed keeps its request id and its    *)
(* number to itself.                                                       *)
LEMMA UniqueStep ==
    ASSUME IInv, [Next]_vars, NEW q \in Requests, step'[q] = "written"
    PROVE  Unique(q)' /\ TotalPrice(q)' <= MaxInt
  <1>1. CASE InsertOrder(q)
    <2>1. Unique(q) /\ TotalPrice(q) <= MaxInt
          /\ UNCHANGED <<menuVars, body, number, orders>>
          /\ step' = [step EXCEPT ![q] = "written"]
      BY <1>1 DEF InsertOrder, TotalFits, Goto
    <2>2. snapshot' = snapshot
      BY <2>1 DEF menuVars
    <2>3. TotalPrice(q)' = TotalPrice(q)
      BY <2>1, <2>2 DEF TotalPrice, UnitPrices, Wanted
    <2>4. PendingTwins(q)' = {}
      BY <2>1 DEF Unique, PendingTwins, OrderNumber, IInv, TypeOK
    <2> QED
      BY <2>1, <2>3, <2>4 DEF Unique, WithKey, WithNumber, OrderNumber
  <1>2. CASE Kept(q)
    <2>1. step[q] = "written" /\ Unique(q) /\ TotalPrice(q) <= MaxInt
          /\ body'[q] = body[q] /\ number'[q] = number[q] /\ snapshot'[q] = snapshot[q]
      BY <1>2 DEF Kept, IInv, CallsConsistent
    <2>2. TotalPrice(q)' = TotalPrice(q)
      BY <2>1 DEF TotalPrice, UnitPrices, Wanted
    <2>3. PendingTwins(q)' = {}
      <3>1. SUFFICES ASSUME NEW p \in Requests \ {q}, step'[p] = "written",
                            \/ body'[p].key = body'[q].key
                            \/ OrderNumber(number'[p]) = OrderNumber(number'[q])
                     PROVE  FALSE
        BY DEF PendingTwins, OrderNumber
      <3>2. CASE Kept(p)
        BY <2>1, <3>1, <3>2 DEF Kept, Unique, PendingTwins, OrderNumber
      <3>3. CASE InsertOrder(p)
        <4>1. PendingTwins(p) = {} /\ body' = body /\ number' = number
          BY <3>3 DEF InsertOrder, Unique
        <4> QED
          BY <2>1, <3>1, <4>1 DEF PendingTwins, OrderNumber
      <3> QED
        BY <3>1, <3>2, <3>3, EntersOrKept
    <2>4. ASSUME NEW o \in orders'
          PROVE  o.key # body'[q].key /\ OrderNumber(o.number) # OrderNumber(number'[q])
      <3>1. CASE o \in orders
        BY <2>1, <3>1 DEF Unique, WithKey, WithNumber
      <3>2. ASSUME NEW p \in Requests, CallStep(p), Commits(p), o = NewOrder(p)
            PROVE  o.key # body'[q].key /\ OrderNumber(o.number) # OrderNumber(number'[q])
        <4>1. step[p] = "written" /\ p # q
          BY <1>2, <2>1, <3>2 DEF Commits, Kept
        <4>2. p \notin PendingTwins(q)
          BY <2>1 DEF Unique
        <4> QED
          BY <2>1, <3>2, <4>1, <4>2, NewOrderType DEF PendingTwins
      <3> QED
        BY <3>1, <3>2, OrdersGrow DEF Commits, CommitRows
    <2> QED
      BY <2>1, <2>2, <2>3, <2>4 DEF Unique, WithKey, WithNumber, OrderNumber
  <1> QED
    BY <1>1, <1>2, EntersOrKept

LEMMA HoldsNextNumber ==
    ASSUME IInv, [Next]_vars, NEW q \in Requests, step'[q] \in {"insert", "written"}
    PROVE  number'[q].seq = counter'[number'[q].day] + 1
  <1>0. number \in [Requests -> [day : Days, seq : Nat]] /\ counter \in [Days -> Nat]
    BY DEF IInv, TypeOK
  <1>1. CASE IssueNumber(q)
    <2>1. number' = [number EXCEPT ![q] = [day |-> number[q].day,
                                           seq |-> counter[number[q].day] + 1]]
          /\ counter' = counter
      BY <1>1 DEF IssueNumber, NextNumber
    <2>2. number'[q] = [day |-> number[q].day, seq |-> counter[number[q].day] + 1]
      BY <1>0, <2>1
    <2> QED
      BY <2>1, <2>2
  <1>2. CASE InsertOrder(q)
    BY <1>2 DEF InsertOrder, IInv, CallsConsistent
  <1>3. CASE Kept(q)
    <2>1. q \in CounterHolders(number[q].day) /\ number'[q] = number[q]
          /\ number[q].seq = counter[number[q].day] + 1 /\ number[q].day \in Days
      BY <1>0, <1>3 DEF Kept, CounterHolders, IInv, CallsConsistent
    <2>2. ASSUME NEW r \in Requests, CallStep(r), Commits(r)
          PROVE  counter'[number[q].day] = counter[number[q].day]
      <3>1. r # q /\ r \in CounterHolders(number[r].day)
        BY <1>3, <2>2 DEF Commits, Kept, CounterHolders
      <3>2. number[r].day # number[q].day
        BY <2>1, <3>1 DEF IInv, CounterExclusive, CounterHolders
      <3> QED
        BY <1>0, <2>1, <2>2, <3>2 DEF Commits, CommitRows
    <2> QED
      BY <2>1, <2>2, OrdersGrow
  <1> QED
    BY <1>1, <1>2, <1>3, EntersOrKept

LEMMA CallsStep ==
    ASSUME IInv, [Next]_vars
    PROVE  CallsConsistent'
  <1>0. TypeOK /\ CallsConsistent
    BY DEF IInv
  <1>1. ASSUME NEW q \in Requests
        PROVE  step'[q] = "idle" <=> body'[q] = NoBody
    <2>1. CASE step[q] # "idle"
      BY <1>0, <2>1, BodiesStay DEF CallsConsistent
    <2>2. CASE step[q] = "idle"
      <3>1. CASE CallStep(q)
        <4>1. PICK k \in Keys, dto \in Sent : Arrive(q, k, dto)
          BY <2>2, <3>1
             DEF CallStep, Proceed, CommitAckLost, Abort, FindExisting, FindNone,
                 ReadMenu, RefuseMenus, AcceptMenus, IssueNumber, InsertOrder,
                 InsertOutOfRange, InsertNumberTaken, InsertKeyTaken, RaceLookup, Commit,
                 Publish, InTransaction
        <4>2. step'[q] = "lookup" /\ body'[q] = Body(k, dto)
          BY <1>0, <4>1 DEF Arrive, Goto, TypeOK
        <4>3. Body(k, dto) \in CallBodies
          BY DEF CallBodies
        <4> QED
          BY <4>2, <4>3, BodyFacts
      <3>2. CASE ~CallStep(q)
        <4>1. step'[q] = step[q] /\ body'[q] = body[q]
          BY <2>2, <3>2, Cases, OthersKeepStep, CrashEffect
             DEF OthersKeep, Quiet, InFlight, InTransaction
        <4> QED
          BY <1>0, <2>2, <4>1 DEF CallsConsistent
      <3> QED
        BY <3>1, <3>2
    <2> QED
      BY <2>1, <2>2
  <1>2. ASSUME NEW q \in Requests, step'[q] \notin InTransaction
        PROVE  shared'[q] = {}
    <2>1. CASE CallStep(q)
      <3>1. CASE EndTransaction(q)
        BY <1>0, <3>1 DEF EndTransaction, ReleaseRows, TypeOK, MenuTypeOK
      <3>2. CASE step[q] \notin InTransaction /\ UNCHANGED menuVars
        BY <1>0, <3>2 DEF menuVars, CallsConsistent
      <3>3. CASE ReadMenu(q) \/ AcceptMenus(q) \/ IssueNumber(q) \/ InsertOrder(q)
        BY <1>0, <1>2, <3>3 DEF ReadMenu, AcceptMenus, IssueNumber, InsertOrder, Goto,
                                placementVars, InTransaction, TypeOK
      <3> QED
        BY <2>1, <3>1, <3>2, <3>3
           DEF CallStep, Proceed, Arrive, CommitAckLost, Abort, FindExisting, FindNone,
               RefuseMenus, InsertOutOfRange, InsertNumberTaken, InsertKeyTaken,
               RaceLookup, Commit, Publish, Rollback, InTransaction
    <2>2. CASE Crash
      BY <2>2, CrashEffect
    <2>3. CASE step'[q] = step[q] /\ shared'[q] = shared[q]
      BY <1>0, <1>2, <2>3 DEF CallsConsistent
    <2> QED
      BY <2>1, <2>2, <2>3, Cases, OthersKeepStep DEF OthersKeep, Quiet
  <1>3. ASSUME NEW q \in Requests, step'[q] \in {"number", "insert", "written"}
        PROVE  Orderable(q)'
    <2>1. CASE AcceptMenus(q) \/ IssueNumber(q) \/ InsertOrder(q)
      <3>1. Orderable(q) /\ UNCHANGED <<menuVars, body>>
        BY <1>0, <2>1 DEF AcceptMenus, IssueNumber, InsertOrder, CallsConsistent
      <3> QED
        BY <3>1 DEF Orderable, Wanted, menuVars
    <2>2. CASE Kept(q)
      BY <1>0, <1>3, <2>2 DEF Kept, CallsConsistent, Orderable, Wanted
    <2> QED
      BY <1>3, <2>1, <2>2, EntersOrKept
  <1>4. ASSUME NEW q \in Requests, step'[q] = "publish"
        PROVE  \E o \in orders' : o.id = q
    <2>1. CASE Commits(q)
      BY <2>1, NewOrderType DEF Commits, CommitRows
    <2>2. CASE Kept(q)
      BY <1>0, <1>4, <2>2, OrdersStay DEF Kept, CallsConsistent
    <2> QED
      BY <1>4, <2>1, <2>2, EntersOrKept
  <1> QED
    BY <1>1, <1>2, <1>3, <1>4, HoldsNextNumber, UniqueStep DEF CallsConsistent

----------------------------------------------------------------------------
(* The orders, the answers and the events.                                 *)

(* What a COMMIT adds is new in every respect.                             *)
LEMMA NewOrderIsNew ==
    ASSUME IInv, [Next]_vars, NEW r \in Requests, CallStep(r), Commits(r)
    PROVE  /\ orders' = orders \cup {NewOrder(r)} /\ body' = body
           /\ NewOrder(r).id = r /\ NewOrder(r).number = number[r]
           /\ NewOrder(r).key = body[r].key /\ NewOrder(r).fingerprint = body[r].fingerprint
           /\ step'[r] \in {"publish", "INTERNAL_ERROR"}
           /\ \A o \in orders : /\ o.id # r /\ o.key # body[r].key
                                /\ OrderNumber(o.number) # OrderNumber(number[r])
           /\ \A q \in Requests \ {r} : step'[q] = step[q]
  <1>1. step[r] = "written"
    BY DEF Commits
  <1>2. Unique(r)
    BY <1>1 DEF IInv, CallsConsistent
  <1>3. \A o \in orders : /\ o.id # r /\ o.key # body[r].key
                          /\ OrderNumber(o.number) # OrderNumber(number[r])
    BY <1>1, <1>2, OrderFields DEF Unique, WithKey, WithNumber
  <1> QED
    BY <1>1, <1>3, NewOrderType, OthersKeepStep DEF Commits, CommitRows, OthersKeep

LEMMA OrdersStep ==
    ASSUME IInv, [Next]_vars
    PROVE  OrdersConsistent'
  <1>1. ASSUME NEW o \in orders
        PROVE  /\ body'[o.id] # NoBody /\ o.key = body'[o.id].key
               /\ o.fingerprint = body'[o.id].fingerprint
               /\ step'[o.id] \in {"publish", "OK", "lost", "INTERNAL_ERROR"}
    <2> DEFINE r == o.id
    <2>1. /\ r \in Requests /\ o.key = body[r].key /\ o.fingerprint = body[r].fingerprint
          /\ step[r] \in {"publish", "OK", "lost", "INTERNAL_ERROR"}
          /\ body[r] \in CallBodies
      BY OrderFields
    <2>2. body'[r] = body[r] /\ body[r] # NoBody
      BY <2>1, BodiesStay, BodyFacts
    <2>3. ASSUME NEW q \in Requests, CallStep(q)
          PROVE  step'[r] \in {"publish", "OK", "lost", "INTERNAL_ERROR"}
      <3>1. CASE q # r
        BY <2>1, <2>3, <3>1, OthersKeepStep DEF OthersKeep
      <3>2. CASE q = r
        BY <2>1, <2>3, <3>2, GoesOnStep
           DEF GoesOn, Goes, Fails, Resolves, Commits, Publishes, InTransaction
      <3> QED
        BY <3>1, <3>2
    <2>4. step'[r] \in {"publish", "OK", "lost", "INTERNAL_ERROR"}
      BY <2>1, <2>3, Cases, CrashEffect DEF Quiet
    <2> QED
      BY <2>1, <2>2, <2>4
  <1>2. CASE orders' = orders
    BY <1>1, <1>2 DEF IInv, OrdersConsistent
  <1>3. ASSUME NEW r \in Requests, CallStep(r), Commits(r)
        PROVE  OrdersConsistent'
    <2>1. body[r] # NoBody
      BY <1>3, CallBody, BodyFacts DEF Commits
    <2> QED
      BY <1>1, <1>3, <2>1, NewOrderIsNew DEF IInv, OrdersConsistent
  <1> QED
    BY <1>2, <1>3, OrdersGrow

LEMMA EventsGrow ==
    ASSUME IInv, [Next]_vars
    PROVE  /\ events \in Seq(Requests)
           /\ \/ events' = events
              \/ \E r \in Requests : /\ CallStep(r) /\ Publishes(r)
                                     /\ events' = Append(events, r)
           /\ \A i \in DOMAIN events : i \in DOMAIN events' /\ events'[i] = events[i]
  <1>1. events \in Seq(Requests)
    BY DEF IInv, TypeOK
  <1>2. \/ events' = events
        \/ \E r \in Requests : CallStep(r) /\ Publishes(r) /\ events' = Append(events, r)
    <2>1. ASSUME NEW r \in Requests, CallStep(r)
          PROVE  events' = events \/ (Publishes(r) /\ events' = Append(events, r))
      BY <2>1, GoesOnStep DEF GoesOn, Goes, Fails, Resolves, Commits, Publishes
    <2> QED
      BY <2>1, Cases, CrashEffect DEF Quiet
  <1>3. ASSUME NEW r \in Requests, events' = Append(events, r)
        PROVE  \A i \in DOMAIN events : i \in DOMAIN events' /\ events'[i] = events[i]
    BY <1>1, <1>3, AppendProperties, LenProperties
  <1> QED
    BY <1>1, <1>2, <1>3

LEMMA EventsStep ==
    ASSUME IInv, [Next]_vars
    PROVE  EventsConsistent'
  <1>0. events \in Seq(Requests) /\ DOMAIN events = 1 .. Len(events)
        /\ \A i \in DOMAIN events : events[i] \in Requests
    BY LenProperties DEF IInv, TypeOK
  <1>1. ASSUME NEW r \in Requests, step[r] = "OK"
        PROVE  step'[r] = "OK"
    <2>1. ASSUME NEW q \in Requests, CallStep(q)
          PROVE  step'[r] = "OK"
      <3>1. CASE q # r
        BY <1>1, <2>1, <3>1, OthersKeepStep DEF OthersKeep
      <3>2. CASE q = r
        BY <1>1, <2>1, <3>2, GoesOnStep
           DEF GoesOn, Goes, Fails, Resolves, Commits, Publishes, InTransaction
      <3> QED
        BY <3>1, <3>2
    <2> QED
      BY <1>1, <2>1, Cases, CrashEffect DEF Quiet, InFlight, InTransaction
  <1>2. CASE events' = events
    BY <1>0, <1>1, <1>2 DEF IInv, EventsConsistent
  <1>3. ASSUME NEW r \in Requests, Publishes(r), events' = Append(events, r)
        PROVE  EventsConsistent'
    <2>1. /\ DOMAIN events' = 1 .. (Len(events) + 1) /\ Len(events) \in Nat
          /\ events'[Len(events) + 1] = r
          /\ \A i \in 1 .. Len(events) : events'[i] = events[i]
      <3>1. Append(events, r) \in Seq(Requests)
        BY <1>0, AppendProperties
      <3> QED
        BY <1>0, <1>3, <3>1, AppendProperties, LenProperties
    <2>2. step'[r] = "OK"
      BY <1>3 DEF Publishes
    <2> QED
      BY <1>0, <1>1, <2>1, <2>2 DEF IInv, EventsConsistent
  <1> QED
    BY <1>2, <1>3, EventsGrow

LEMMA AnswersStep ==
    ASSUME IInv, [Next]_vars
    PROVE  AnswersConsistent'
  <1>1. \A o, p \in orders' : o.key = p.key => o = p
    BY OrdersGrow, NewOrderIsNew DEF IInv, AnswersConsistent
  <1>2. ASSUME NEW r \in Requests, step'[r] \in {"OK", "IDEMPOTENCY_CONFLICT"}
        PROVE  /\ step'[r] = "OK" =>
                    \E o \in orders' : /\ o.id = returned'[r] /\ o.key = body'[r].key
                                       /\ o.fingerprint = body'[r].fingerprint
               /\ step'[r] = "IDEMPOTENCY_CONFLICT" =>
                    \E o \in orders' : /\ o.key = body'[r].key
                                       /\ o.fingerprint # body'[r].fingerprint
    <2>1. CASE step'[r] = step[r] /\ returned'[r] = returned[r]
      BY <1>2, <2>1, OrdersStay, BodiesStay DEF IInv, AnswersConsistent
    <2>2. CASE CallStep(r)
      <3>1. CASE Resolves(r)
        BY <1>2, <3>1, OrdersStay, BodiesStay DEF Resolves, WithKey
      <3>2. CASE Publishes(r)
        <4>1. PICK o \in orders : o.id = r
          BY <3>2 DEF Publishes, IInv, CallsConsistent
        <4>2. body'[r] = body[r] /\ orders' = orders /\ returned'[r] = r /\ step'[r] = "OK"
          BY <3>2, BodiesStay DEF Publishes
        <4> QED
          BY <4>1, <4>2, OrderFields
      <3> QED
        BY <1>2, <2>2, <3>1, <3>2, GoesOnStep
           DEF GoesOn, Goes, Fails, Commits, InTransaction
    <2> QED
      BY <1>2, <2>1, <2>2, Cases, OthersKeepStep, CrashEffect DEF OthersKeep, Quiet
  <1> QED
    BY <1>1, <1>2 DEF AnswersConsistent

LEMMA RaceLookupStep ==
    ASSUME IInv, [Next]_vars
    PROVE  RaceLookupFindsWinner'
  <1> SUFFICES ASSUME NEW r \in Requests, step'[r] = "raceLookup"
               PROVE  \E o \in orders' : o.key = body'[r].key
    BY DEF RaceLookupFindsWinner, WithKey
  <1>1. CASE step'[r] = step[r]
    BY <1>1, OrdersStay, BodiesStay DEF IInv, RaceLookupFindsWinner, WithKey
  <1>2. CASE CallStep(r)
    <2>1. step[r] = "insert" /\ DuplicateKey(r)
      BY <1>2, GoesOnStep DEF GoesOn, Goes, Fails, Resolves, Commits, Publishes
    <2> QED
      BY <2>1, OrdersStay, BodiesStay DEF DuplicateKey, WithKey
  <1> QED
    BY <1>1, <1>2, Cases, OthersKeepStep, CrashEffect
       DEF OthersKeep, Quiet, InFlight, InTransaction

LEMMA NumbersStep ==
    ASSUME IInv, [Next]_vars
    PROVE  NumbersUniqueAndDense'
  <1>1. \A o, p \in orders' : OrderNumber(o.number) = OrderNumber(p.number) => o = p
    BY OrdersGrow, NewOrderIsNew DEF IInv, NumbersUniqueAndDense
  <1>2. ASSUME NEW d \in Days
        PROVE  {o.number.seq : o \in {p \in orders' : p.number.day = d}} = 1 .. counter'[d]
    <2>0. {o.number.seq : o \in {p \in orders : p.number.day = d}} = 1 .. counter[d]
          /\ counter \in [Days -> Nat]
      BY DEF IInv, NumbersUniqueAndDense, TypeOK
    <2>1. CASE orders' = orders /\ counter' = counter
      BY <2>0, <2>1
    <2>2. ASSUME NEW r \in Requests, CallStep(r), Commits(r)
          PROVE  {o.number.seq : o \in {p \in orders' : p.number.day = d}} = 1 .. counter'[d]
      <3>1. /\ orders' = orders \cup {NewOrder(r)} /\ NewOrder(r).number = number[r]
            /\ number[r].seq = counter[number[r].day] + 1 /\ number[r].day \in Days
        <4>1. number[r].seq = counter[number[r].day] + 1 /\ number[r].day \in Days
          BY <2>2 DEF Commits, IInv, CallsConsistent, TypeOK
        <4> QED
          BY <2>2, <4>1, NewOrderIsNew
      <3>2. counter' = [counter EXCEPT ![number[r].day] = number[r].seq]
        BY <2>2 DEF Commits, CommitRows
      <3>3. CASE number[r].day # d
        <4>1. {p \in orders' : p.number.day = d} = {p \in orders : p.number.day = d}
          BY <3>1, <3>3
        <4>2. counter'[d] = counter[d]
          BY <2>0, <3>2, <3>3
        <4> QED
          BY <2>0, <4>1, <4>2
      <3>4. CASE number[r].day = d
        <4>1. {p \in orders' : p.number.day = d}
                = {p \in orders : p.number.day = d} \cup {NewOrder(r)}
          BY <3>1, <3>4
        <4>2. {o.number.seq : o \in {p \in orders' : p.number.day = d}}
                = 1 .. counter[d] \cup {counter[d] + 1}
          BY <2>0, <3>1, <3>4, <4>1
        <4>3. counter'[d] = counter[d] + 1 /\ counter[d] \in Nat
          BY <2>0, <3>1, <3>2, <3>4
        <4> QED
          BY <4>2, <4>3
      <3> QED
        BY <3>3, <3>4
    <2> QED
      BY <2>1, <2>2, OrdersGrow
  <1> QED
    BY <1>1, <1>2 DEF NumbersUniqueAndDense

(* An order that was not announced has a fault to blame.                   *)
LEMMA SilentStep ==
    ASSUME IInv, [Next]_vars, NEW o \in orders
    PROVE  \/ \E i \in DOMAIN events' : events'[i] = o.id
           \/ step'[o.id] = "publish"
           \/ step'[o.id] = "lost" /\ "crash" \in Faults
           \/ step'[o.id] = "INTERNAL_ERROR" /\ "ackLost" \in Faults
  <1>0. o.id \in Requests
    BY OrderFields
  <1>1. CASE \E i \in DOMAIN events : events[i] = o.id
    BY <1>1, EventsGrow
  <1>2. CASE step'[o.id] = step[o.id] /\ ~ \E i \in DOMAIN events : events[i] = o.id
    BY <1>2 DEF IInv, AnnouncedOnce
  <1>3. CASE Crash /\ ~ \E i \in DOMAIN events : events[i] = o.id
    <2>1. step[o.id] = "publish" => step'[o.id] = "lost" /\ "crash" \in Faults
      BY <1>0, <1>3, CrashEffect DEF InFlight
    <2>2. step[o.id] \in {"lost", "INTERNAL_ERROR"} => step'[o.id] = step[o.id]
      BY <1>0, <1>3, CrashEffect DEF InFlight, InTransaction
    <2> QED
      BY <1>3, <2>1, <2>2 DEF IInv, AnnouncedOnce
  <1>4. CASE CallStep(o.id) /\ ~ \E i \in DOMAIN events : events[i] = o.id
    <2>1. Publishes(o.id)
      BY <1>0, <1>4, GoesOnStep, OrderFields
         DEF GoesOn, Goes, Fails, Resolves, Commits, InTransaction
    <2>2. Append(events, o.id) \in Seq(Requests) /\ events \in Seq(Requests)
      BY <1>0, AppendProperties DEF IInv, TypeOK
    <2>3. Len(events) + 1 \in DOMAIN events' /\ events'[Len(events) + 1] = o.id
      BY <1>0, <2>1, <2>2, AppendProperties, LenProperties DEF Publishes
    <2> QED
      BY <2>3
  <1> QED
    BY <1>0, <1>1, <1>2, <1>3, <1>4, Cases, OthersKeepStep DEF OthersKeep, Quiet

(* An event is of a committed order, and comes once: the call that makes   *)
(* an order publishes it as its last step.                                 *)
LEMMA AnnouncedStep ==
    ASSUME IInv, [Next]_vars
    PROVE  AnnouncedOnce'
  <1>0. /\ \A i \in DOMAIN events : \E o \in orders : o.id = events[i]
        /\ \A i, j \in DOMAIN events : events[i] = events[j] => i = j
        /\ \A i \in DOMAIN events : step[events[i]] = "OK"
    BY DEF IInv, AnnouncedOnce, EventsConsistent
  <1>1. /\ \A i \in DOMAIN events' : \E o \in orders' : o.id = events'[i]
        /\ \A i, j \in DOMAIN events' : events'[i] = events'[j] => i = j
    <2>1. CASE events' = events
      BY <1>0, <2>1, OrdersStay
    <2>2. ASSUME NEW r \in Requests, Publishes(r), events' = Append(events, r)
          PROVE  /\ \A i \in DOMAIN events' : \E o \in orders' : o.id = events'[i]
                 /\ \A i, j \in DOMAIN events' : events'[i] = events'[j] => i = j
      <3> DEFINE n == Len(events)
      <3>1. /\ n \in Nat /\ DOMAIN events = 1 .. n /\ DOMAIN events' = 1 .. (n + 1)
            /\ events'[n + 1] = r
            /\ \A i \in 1 .. n : events'[i] = events[i]
        <4>1. events \in Seq(Requests) /\ Append(events, r) \in Seq(Requests)
          BY AppendProperties DEF IInv, TypeOK
        <4> QED
          BY <2>2, <4>1, AppendProperties, LenProperties
      <3>2. step[r] = "publish" /\ \E o \in orders : o.id = r
        BY <2>2 DEF Publishes, IInv, CallsConsistent
      <3>3. \A i \in 1 .. n : events[i] # r
        BY <1>0, <3>1, <3>2
      <3> HIDE DEF n
      <3>4. \A i \in 1 .. (n + 1) : i \in 1 .. n \/ i = n + 1
        BY <3>1
      <3>5. \A i \in DOMAIN events' : \E o \in orders' : o.id = events'[i]
        BY <1>0, <3>1, <3>2, <3>4, OrdersStay
      <3>6. \A i, j \in DOMAIN events' : events'[i] = events'[j] => i = j
        BY <1>0, <3>1, <3>3, <3>4
      <3> QED
        BY <3>5, <3>6
    <2> QED
      BY <2>1, <2>2, EventsGrow
  <1>2. ASSUME NEW r \in Requests, CallStep(r), Commits(r)
        PROVE  \/ step'[r] = "publish"
               \/ step'[r] = "INTERNAL_ERROR" /\ "ackLost" \in Faults
    BY <1>2 DEF Commits
  <1>3. ASSUME NEW o \in orders'
        PROVE  \/ \E i \in DOMAIN events' : events'[i] = o.id
               \/ step'[o.id] = "publish"
               \/ step'[o.id] = "lost" /\ "crash" \in Faults
               \/ step'[o.id] = "INTERNAL_ERROR" /\ "ackLost" \in Faults
    BY <1>2, <1>3, SilentStep, OrdersGrow, NewOrderIsNew
  <1> QED
    BY <1>1, <1>3 DEF AnnouncedOnce

(* Where a call fails although no query does: at its INSERT, for a value   *)
(* that does not fit or the number of another day.  The number cannot be   *)
(* one of its own day, which go up to the counter only, and the lookup     *)
(* after a violation of the request id finds the order of the winner.      *)
LEMMA ErrorStep ==
    ASSUME IInv, [Next]_vars, Faults \subseteq {"crash"},
           NEW r \in Requests, step[r] # "INTERNAL_ERROR", step'[r] = "INTERNAL_ERROR"
    PROVE  /\ step[r] = "insert"
           /\ \/ ~TotalFits(r) \/ ~QuantitiesFit(r)
              \/ NumberOfAnotherDay(r)
  <1>0. step \in [Requests -> Steps] /\ "abort" \notin Faults /\ "ackLost" \notin Faults
    BY DEF IInv, TypeOK
  <1>1. CallStep(r)
    BY Cases, OthersKeepStep, CrashEffect DEF OthersKeep, Quiet
  <1>2. CASE InsertOutOfRange(r)
    BY <1>2 DEF InsertOutOfRange
  <1>3. CASE InsertNumberTaken(r)
    <2>1. PICK o \in WithNumber(number[r]) : TRUE
      BY <1>3 DEF InsertNumberTaken
    <2>2. /\ o \in orders /\ OrderNumber(o.number) = OrderNumber(number[r])
          /\ step[r] = "insert"
      BY <1>3, <2>1 DEF InsertNumberTaken, WithNumber
    <2>3. CASE o.number.day = number[r].day
      <3> DEFINE d == number[r].day
      <3>1. d \in Days /\ counter[d] \in Nat /\ number[r].seq = counter[d] + 1
        BY <2>2 DEF IInv, TypeOK, CallsConsistent
      <3>2. o.number.seq = counter[d] + 1
        BY <2>2, <3>1 DEF OrderNumber
      <3>3. o.number.seq \in {p.number.seq : p \in {q \in orders : q.number.day = d}}
        BY <2>2, <2>3
      <3>4. o.number.seq \in 1 .. counter[d]
        BY <3>1, <3>3 DEF IInv, NumbersUniqueAndDense
      <3> QED
        BY <3>1, <3>2, <3>4
    <2> QED
      BY <2>1, <2>2, <2>3 DEF NumberOfAnotherDay
  <1>4. CASE FindExisting(r) \/ RaceLookup(r)
    <2>1. PICK o \in WithKey(body[r].key) : Resolve(r, o)
      BY <1>4 DEF FindExisting, RaceLookup, IInv, RaceLookupFindsWinner
    <2> QED
      BY <1>0, <2>1 DEF Resolve, Answer
  <1>5. CASE RefuseMenus(r) \/ Publish(r)
    BY <1>0, <1>5 DEF RefuseMenus, Publish, Answer
  <1>6. CASE ReadMenu(r)
    BY <1>6 DEF ReadMenu, placementVars
  <1>7. CASE \/ FindNone(r) \/ AcceptMenus(r) \/ IssueNumber(r) \/ InsertOrder(r)
             \/ InsertKeyTaken(r) \/ Commit(r)
             \/ \E k \in Keys, dto \in Sent : Arrive(r, k, dto)
    BY <1>0, <1>7 DEF FindNone, AcceptMenus, IssueNumber, InsertOrder, InsertKeyTaken,
                      Commit, Arrive, Goto
  <1>8. ~CommitAckLost(r) /\ ~Abort(r)
    BY <1>0 DEF CommitAckLost, Abort
  <1> QED
    BY <1>1, <1>2, <1>3, <1>4, <1>5, <1>6, <1>7, <1>8 DEF CallStep, Proceed

----------------------------------------------------------------------------
(* The theorems.                                                           *)

LEMMA InitInv ==
    ASSUME Init
    PROVE  IInv
  <1>1. MenuInv
    BY MenuInitInv DEF Init
  <1>2. 0 \in Days /\ NoNumber \in [day : Days, seq : Nat]
    BY OrderPlacementAssumption DEF Days, NoNumber
  <1>3. events \in Seq(Requests) /\ DOMAIN events = {}
    BY EmptySeq DEF Init
  <1>4. TypeOK
    BY <1>1, <1>2, <1>3 DEF Init, TypeOK, MenuInv, Steps
  <1>5. \A r \in Requests : step[r] = "idle" /\ body[r] = NoBody /\ shared[r] = {}
    BY DEF Init, MenuInit
  <1>6. CallsConsistent /\ CounterExclusive /\ RaceLookupFindsWinner
    BY <1>5 DEF CallsConsistent, CounterExclusive, CounterHolders, RaceLookupFindsWinner
  <1>7. OrdersConsistent /\ EventsConsistent /\ AnswersConsistent /\ AnnouncedOnce
    BY <1>3, <1>5 DEF Init, OrdersConsistent, EventsConsistent, AnswersConsistent,
                      AnnouncedOnce
  <1>8. NumbersUniqueAndDense
    BY DEF Init, NumbersUniqueAndDense
  <1> QED
    BY <1>1, <1>4, <1>6, <1>7, <1>8 DEF IInv, MenuInv

LEMMA InvStep ==
    ASSUME IInv, [Next]_vars
    PROVE  IInv'
  <1>1. MenusConsistent'
    BY StepsOfMenus, MenuInvStep DEF MenuInv
  <1> QED
    BY <1>1, TypeStep, CallsStep, CounterStep, OrdersStep, EventsStep, AnswersStep,
       RaceLookupStep, NumbersStep, AnnouncedStep
       DEF IInv

(* The inductive invariant of POST /orders and PATCH /admin/menus.         *)
THEOREM Invariance == Spec => []IInv
  <1>1. Init => IInv
    BY InitInv
  <1>2. IInv /\ [Next]_vars => IInv'
    BY InvStep
  <1> QED
    BY <1>1, <1>2, PTL DEF Spec

(* All variables keep their types; in particular every order that commits  *)
(* has a total that fits its column.                                       *)
THEOREM TypeCorrect == Spec => []TypeOK
  BY Invariance, PTL DEF IInv

(* What a call has read of the menus is current until it ends, and the     *)
(* history of the menus accounts for their rows.                           *)
THEOREM SnapshotsCurrent == Spec => []SnapshotsFresh
  <1>1. IInv => SnapshotsFresh
    BY DEF IInv, MenusConsistent
  <1> QED
    BY <1>1, Invariance, PTL

THEOREM HistoryComplete == Spec => []HistoryAccountsForRows
  <1>1. IInv => HistoryAccountsForRows
    BY DEF IInv, MenusConsistent
  <1> QED
    BY <1>1, Invariance, PTL

(* Of the PATCHes of a menu none undoes another.                           *)
THEOREM UpdatesKept == Spec => NoLostUpdate
  <1>1. IInv /\ [Next]_vars =>
          [\A m \in Menus : menus'[m] # menus[m]
                => \E a \in Admins : ChangesOnlyNamedFields(a, m)]_menuVars
    BY StepsOfMenus, NoLostUpdateStep
  <1> QED
    BY <1>1, Invariance, PTL DEF Spec, NoLostUpdate

(* Without a failing query or a lost acknowledgement, calls fail for what  *)
(* they ask for or for another year's number: no race of create() for a    *)
(* number or an orderRequestId ends in INTERNAL_ERROR.                     *)
THEOREM ErrorsExplained == Spec => ServerErrorsExplained
  <1>1. IInv /\ [Next]_vars =>
          [Faults \subseteq {"crash"} =>
            \A r \in Requests :
                step[r] # "INTERNAL_ERROR" /\ step'[r] = "INTERNAL_ERROR" =>
                    /\ step[r] = "insert"
                    /\ \/ ~TotalFits(r) \/ ~QuantitiesFit(r)
                       \/ NumberOfAnotherDay(r)]_vars
    BY ErrorStep
  <1> QED
    BY <1>1, Invariance, PTL DEF Spec, ServerErrorsExplained

(* Order numbers are unique, and those of a day have no gap.               *)
THEOREM NumbersDense == Spec => []NumbersUniqueAndDense
  <1>1. IInv => NumbersUniqueAndDense
    BY DEF IInv
  <1> QED
    BY <1>1, Invariance, PTL

(* The kitchen is told of committed orders only, of none of them twice,    *)
(* and of every one but those whose own call is about to publish, or died  *)
(* or lost its acknowledgement before it could.                            *)
THEOREM Announced == Spec => []AnnouncedOnce
  <1>1. IInv => AnnouncedOnce
    BY DEF IInv
  <1> QED
    BY <1>1, Invariance, PTL

(* Where the fingerprint is faithful, equal fingerprints mean one content, *)
(* and the merged quantities are those the customer wrote down.            *)
LEMMA Faithful ==
    ASSUME NEW a \in CallBodies, NEW b \in CallBodies
    PROVE  /\ a.fingerprint = b.fingerprint <=> Contents[a.dto] = Contents[b.dto]
           /\ a.quantity = Contents[a.dto].quantity
  <1>1. /\ a.dto \in Sent /\ a.dto \in Bodies /\ a.fingerprint = RequestFingerprint(a.dto)
        /\ b.dto \in Sent /\ b.dto \in Bodies /\ b.fingerprint = RequestFingerprint(b.dto)
        /\ a.quantity = Quantity(a.dto)
    BY BodyFacts
  <1>2. Contents[a.dto] = Content(a.dto) /\ Contents[b.dto] = Content(b.dto)
    BY <1>1 DEF Contents
  <1>3. /\ Quantity(a.dto) = Content(a.dto).quantity
        /\ RequestFingerprint(a.dto) = RequestFingerprint(b.dto)
              <=> Content(a.dto) = Content(b.dto)
    <2> DEFINE pairs == {<<Content(x), RequestFingerprint(x)>> : x \in Bodies}
               p == <<Content(a.dto), RequestFingerprint(a.dto)>>
               q == <<Content(b.dto), RequestFingerprint(b.dto)>>
    <2>1. p \in pairs /\ q \in pairs
      BY <1>1
    <2>2. Quantity(a.dto) = Content(a.dto).quantity /\ (p[1] = q[1] <=> p[2] = q[2])
      BY <1>1, <2>1, NormalisationCorrect DEF FaithfulFor
    <2> QED
      BY <2>2
  <1> QED
    BY <1>1, <1>2, <1>3

(* However a body spells, splits and sorts its items, merging them keeps   *)
(* every menu and its total, and the fingerprint tells apart exactly what  *)
(* orders something else (mergeOrderItems, computeRequestFingerprint).     *)
THEOREM NormalisationHolds == Spec => []NormalisationFaithful
  <1>1. NormalisationFaithful
    BY NormalisationCorrect DEF NormalisationFaithful
  <1> QED
    BY <1>1, PTL

(* One order per request id; every answer is about that order, and says    *)
(* truly whether it has the content that the call sent.                    *)
THEOREM Idempotence == Spec => []IdempotentAnswers
  <1>1. IInv => IdempotentAnswers
    <2> SUFFICES ASSUME IInv
                 PROVE  IdempotentAnswers
      OBVIOUS
    <2>1. ASSUME NEW r \in Requests, step[r] # "idle", NEW o \in orders
          PROVE  SameContent(o, r) <=> o.fingerprint = body[r].fingerprint
      <3>1. body[r] \in CallBodies /\ body[o.id] \in CallBodies
            /\ o.fingerprint = body[o.id].fingerprint
        BY <2>1, CallBody, OrderFields
      <3> QED
        BY <3>1, Faithful DEF SameContent
    <2> QED
      BY <2>1 DEF IInv, AnswersConsistent, IdempotentAnswers
  <1> QED
    BY <1>1, Invariance, PTL

(* An order is charged what its menus cost at the instant it commits.      *)
THEOREM ChargesCorrect == Spec => ChargesCurrentPrices
  <1>1. IInv /\ [Next]_vars =>
          [\A o \in orders' \ orders :
            LET wanted == Contents[body[o.id].dto].quantity IN
            /\ DOMAIN o.unitPrice = DOMAIN wanted
            /\ \A m \in DOMAIN wanted :
                    menus[m] = [price |-> o.unitPrice[m], isAvailable |-> TRUE]
            /\ o.totalPrice = Total(o.unitPrice, wanted)]_vars
    <2> SUFFICES ASSUME IInv, [Next]_vars, NEW o \in orders' \ orders
                 PROVE  LET wanted == Contents[body[o.id].dto].quantity IN
                        /\ DOMAIN o.unitPrice = DOMAIN wanted
                        /\ \A m \in DOMAIN wanted :
                             menus[m] = [price |-> o.unitPrice[m], isAvailable |-> TRUE]
                        /\ o.totalPrice = Total(o.unitPrice, wanted)
      OBVIOUS
    <2>1. PICK r \in Requests : CallStep(r) /\ Commits(r)
      BY OrdersGrow
    <2>2. o = NewOrder(r) /\ o.id = r /\ step[r] = "written"
      BY <2>1, NewOrderIsNew DEF Commits
    <2>3. body[r].quantity = Contents[body[r].dto].quantity
      BY <2>2, CallBody, Faithful
    <2>4. /\ o.unitPrice = [m \in Wanted(r) |-> snapshot[r][m].price]
          /\ o.totalPrice = Total(o.unitPrice, body[r].quantity)
      BY <2>2 DEF NewOrder, TotalPrice, UnitPrices
    <2>5. ASSUME NEW m \in Wanted(r)
          PROVE  menus[m] = [price |-> snapshot[r][m].price, isAvailable |-> TRUE]
      <3>1. /\ DOMAIN snapshot[r] = Wanted(r) /\ snapshot[r][m].isAvailable
            /\ snapshot[r] \in Snapshots
        BY <2>2 DEF IInv, CallsConsistent, Orderable, TypeOK, MenuTypeOK, Snapshots
      <3>2. menus[m] = snapshot[r][m] /\ snapshot[r][m] \in Row
        BY <3>1, SnapshotType DEF IInv, MenusConsistent, SnapshotsFresh
      <3> QED
        BY <3>1, <3>2 DEF Row
    <2> QED
      BY <2>2, <2>3, <2>4, <2>5 DEF Wanted
  <1> QED
    BY <1>1, Invariance, PTL DEF Spec, ChargesCurrentPrices

----------------------------------------------------------------------------
(* The refinement.                                                         *)

(* What the intake sees of a call.                                         *)
LEMMA SeenOf ==
    ASSUME IInv, NEW r \in Requests
    PROVE  /\ step[r] = "idle" => Asked[r] = Absent
           /\ step[r] # "idle" =>
                /\ Asked[r] = [key |-> body[r].key, content |-> body[r].fingerprint]
                /\ Asked[r] # Absent
           /\ step[r] \notin Answers => Answered[r] = Intake!Unanswered
           /\ step[r] \in Answers => Answered[r] = [code |-> step[r], order |-> returned[r]]
  <1>1. step[r] = "idle" <=> body[r] = NoBody
    BY DEF IInv, CallsConsistent
  <1>2. ASSUME step[r] # "idle"
        PROVE  [key |-> body[r].key, content |-> body[r].fingerprint]
                  \in [key : Keys, content : RequestFingerprints]
    BY <1>2, CallBody, BodyFacts
  <1> QED
    BY <1>1, <1>2, AbsentAssumption DEF Asked, Answered, Intake!Unanswered

(* Only the call that makes a step is seen to make one.                    *)
LEMMA SeenOfOthers ==
    ASSUME IInv, NEW r \in Requests, CallStep(r)
    PROVE  /\ \A q \in Requests \ {r} : Asked'[q] = Asked[q] /\ Answered'[q] = Answered[q]
           /\ step[r] # "idle" => Asked' = Asked
  <1>1. OthersKeep(r) /\ (step[r] # "idle" => body' = body)
    BY OthersKeepStep
  <1> QED
    BY <1>1 DEF OthersKeep, Asked, Answered

LEMMA IntakeInit ==
    ASSUME Init
    PROVE  Intake!Init
  <1>1. Asked = [r \in Requests |-> Absent]
    BY DEF Init, Asked
  <1>2. Answered = [r \in Requests |-> Intake!Unanswered]
    BY DEF Init, Answered, Answers, Intake!Unanswered
  <1>3. {o.id : o \in orders} = {} /\ events = <<>>
    BY DEF Init
  <1> QED
    BY <1>1, <1>2, <1>3 DEF Intake!Init

LEMMA AskStep ==
    ASSUME IInv, IInv', [Next]_vars, NEW r \in Requests, CallStep(r), step[r] = "idle"
    PROVE  Intake!Next
  <1>1. Goes(r)
    BY GoesOnStep DEF GoesOn, Fails, Resolves, Commits, Publishes, InTransaction
  <1>2. step'[r] # "idle" /\ step'[r] \notin Answers
    BY <1>1 DEF Goes, InTransaction, Answers
  <1>3. body'[r] \in CallBodies
    BY <1>2 DEF IInv, TypeOK, CallsConsistent
  <1> DEFINE request == [key |-> body'[r].key, content |-> body'[r].fingerprint]
  <1>4. request \in Intake!Questions
    BY <1>3, BodyFacts DEF Intake!Questions
  <1>5. Asked[r] = Absent /\ Asked' = [Asked EXCEPT ![r] = request]
    <2>1. body'[r] # NoBody
      BY <1>3, BodyFacts
    <2>2. Asked'[r] = request
      BY <2>1 DEF Asked
    <2>3. Asked[r] = Absent
      BY SeenOf
    <2> QED
      BY <2>2, <2>3, SeenOfOthers DEF Asked
  <1>6. Answered' = Answered
    <2>1. step[r] \notin Answers
      BY DEF Answers
    <2>2. Answered'[r] = Answered[r]
      BY <1>2, <2>1 DEF Answered
    <2> QED
      BY <2>2, SeenOfOthers DEF Answered
  <1>7. orders' = orders /\ events' = events
    BY <1>1 DEF Goes
  <1>8. Intake!Ask(r, request)
    BY <1>5, <1>6, <1>7 DEF Intake!Ask
  <1> QED
    BY <1>4, <1>8 DEF Intake!Next

(* A step that answers is a reply, any other step leaves the answers alone. *)
LEMMA ReplyStep ==
    ASSUME IInv, IInv', NEW r \in Requests, CallStep(r), step[r] # "idle"
    PROVE  /\ step'[r] \in Answers =>
                Intake!Reply(r, step'[r], returned'[r])
           /\ step[r] \notin Answers /\ step'[r] \notin Answers => Answered' = Answered
  <1>1. ASSUME step'[r] \in Answers
        PROVE  Intake!Reply(r, step'[r], returned'[r])
    <2>1. Answered'[r] = [code |-> step'[r], order |-> returned'[r]]
      BY <1>1 DEF Answered
    <2>2. Answered' = [Answered EXCEPT ![r] = [code |-> step'[r], order |-> returned'[r]]]
      BY <2>1, SeenOfOthers DEF Answered
    <2> QED
      BY <2>2 DEF Intake!Reply
  <1>2. ASSUME step[r] \notin Answers, step'[r] \notin Answers
        PROVE  Answered' = Answered
    <2>1. Answered'[r] = Answered[r]
      BY <1>2 DEF Answered
    <2> QED
      BY <2>1, SeenOfOthers DEF Answered
  <1> QED
    BY <1>1, <1>2

LEMMA IntakeStep ==
    ASSUME IInv, IInv', [Next]_vars, NEW r \in Requests, CallStep(r), step[r] # "idle"
    PROVE  Intake!Next \/ UNCHANGED Intake!intakeVars
  <1> DEFINE taken == {o.id : o \in orders}
  <1>0. /\ Asked' = Asked /\ Asked[r] # Absent
        /\ Asked[r] = [key |-> body[r].key, content |-> body[r].fingerprint]
    BY SeenOf, SeenOfOthers
  <1>1. step[r] \notin Answers => Intake!Waiting(r)
    BY <1>0, SeenOf DEF Intake!Waiting
  <1>2. r \in taken => step[r] \in {"publish", "OK", "lost", "INTERNAL_ERROR"}
    BY OrderFields
  <1>3. ASSUME NEW o \in orders
        PROVE  /\ o.id \in Requests /\ Asked[o.id] = [key |-> o.key, content |-> o.fingerprint]
    <2>1. /\ o.id \in Requests /\ step[o.id] # "idle"
          /\ o.key = body[o.id].key /\ o.fingerprint = body[o.id].fingerprint
      BY OrderFields
    <2>2. Asked[o.id] = [key |-> body[o.id].key, content |-> body[o.id].fingerprint]
      BY <2>1, SeenOf
    <2> QED
      BY <2>1, <2>2
  <1>4. CASE Goes(r)
    <2>1. step[r] \notin Answers /\ step'[r] \notin Answers
      BY <1>4 DEF Goes, Answers, InTransaction
    <2>2. Answered' = Answered /\ orders' = orders /\ events' = events
      BY <1>4, <2>1, ReplyStep DEF Goes
    <2> QED
      BY <1>0, <2>2 DEF Intake!intakeVars
  <1>5. CASE Fails(r)
    <2>1. step[r] \notin Answers /\ step'[r] \in Answers /\ r \notin taken
      BY <1>2, <1>5 DEF Fails, Answers, InTransaction
    <2>2. Intake!Reply(r, step'[r], Absent) /\ orders' = orders /\ events' = events
      BY <1>5, <2>1, ReplyStep DEF Fails
    <2>3. Intake!Fail(r)
      BY <1>0, <1>1, <1>5, <2>1, <2>2 DEF Intake!Fail, Fails
    <2> QED
      BY <2>3 DEF Intake!Next
  <1>6. CASE Resolves(r)
    <2>1. step[r] \notin Answers /\ step'[r] \in Answers /\ r \notin taken
      BY <1>2, <1>6 DEF Resolves, Answers
    <2>2. Intake!Reply(r, step'[r], returned'[r]) /\ orders' = orders /\ events' = events
      BY <1>6, <2>1, ReplyStep DEF Resolves
    <2>3. PICK o \in orders :
             /\ o.key = body[r].key
             /\ \/ /\ o.fingerprint = body[r].fingerprint
                   /\ step'[r] = "OK" /\ returned'[r] = o.id
                \/ /\ o.fingerprint # body[r].fingerprint
                   /\ step'[r] = "IDEMPOTENCY_CONFLICT" /\ returned'[r] = Absent
      BY <1>6 DEF Resolves, WithKey
    <2>4. o.id \in Intake!TakenFor(Asked[r].key)
          /\ (Asked[r] = Asked[o.id] <=> o.fingerprint = body[r].fingerprint)
      <3>1. Asked[o.id] = [key |-> o.key, content |-> o.fingerprint]
        BY <1>3
      <3>2. Asked[r] = Asked[o.id] <=> o.fingerprint = body[r].fingerprint
        <4>1. ASSUME o.fingerprint = body[r].fingerprint
              PROVE  Asked[r] = Asked[o.id]
          BY <1>0, <2>3, <3>1, <4>1
        <4>2. Asked[r].content = body[r].fingerprint /\ Asked[o.id].content = o.fingerprint
          BY <1>0, <3>1
        <4> QED
          BY <4>1, <4>2
      <3>3. Asked[o.id].key = o.key /\ Asked[r].key = body[r].key
        BY <1>0, <3>1
      <3>4. o.id \in taken
        OBVIOUS
      <3> QED
        BY <2>3, <3>2, <3>3, <3>4 DEF Intake!TakenFor
    <2>5. Intake!Resolve(r)
      BY <1>0, <1>1, <2>1, <2>2, <2>3, <2>4 DEF Intake!Resolve
    <2> QED
      BY <2>5 DEF Intake!Next
  <1>7. CASE Commits(r)
    <2>1. step[r] = "written" /\ step[r] \notin Answers
      BY <1>7 DEF Commits, Answers
    <2>2. Intake!TakenFor(Asked[r].key) = {}
      <3>1. Asked[r].key = body[r].key
        BY <1>0
      <3>2. ASSUME NEW o \in orders
            PROVE  Asked[o.id].key # body[r].key
        <4>1. Asked[o.id] = [key |-> o.key, content |-> o.fingerprint]
          BY <1>3
        <4> QED
          BY <1>7, <4>1, NewOrderIsNew
      <3> QED
        BY <3>1, <3>2 DEF Intake!TakenFor
    <2>3. {o.id : o \in orders'} = taken \cup {r} /\ events' = events
      BY <1>7, NewOrderIsNew DEF Commits
    <2>4. Answered' = Answered \/ Intake!Reply(r, "INTERNAL_ERROR", Absent)
      BY <1>7, <2>1, ReplyStep DEF Commits, Answers
    <2>5. Intake!Take(r)
      BY <1>0, <1>1, <2>1, <2>2, <2>3, <2>4 DEF Intake!Take
    <2> QED
      BY <2>5 DEF Intake!Next
  <1>8. CASE Publishes(r)
    <2>1. step[r] = "publish" /\ step[r] \notin Answers /\ r \in taken
      BY <1>8 DEF Publishes, Answers, IInv, CallsConsistent
    <2>2. \A i \in DOMAIN events : events[i] # r
      BY <2>1 DEF IInv, EventsConsistent
    <2>3. Intake!Reply(r, "OK", r) /\ orders' = orders /\ events' = Append(events, r)
      BY <1>8, ReplyStep DEF Publishes, Answers
    <2>4. Intake!Announce(r)
      BY <1>0, <1>1, <2>1, <2>2, <2>3 DEF Intake!Announce
    <2> QED
      BY <2>4 DEF Intake!Next
  <1> QED
    BY <1>4, <1>5, <1>6, <1>7, <1>8, GoesOnStep DEF GoesOn

(* POST /orders, with all that goes on inside, implements the intake:      *)
(* each call seems to happen at an instant.                                *)
THEOREM Implementation == Spec => ImplementsIntake
  <1>1. Init => Intake!Init
    BY IntakeInit
  <1>2. IInv /\ IInv' /\ [Next]_vars => [Intake!Next]_Intake!intakeVars
    <2> SUFFICES ASSUME IInv, IInv', [Next]_vars
                 PROVE  Intake!Next \/ UNCHANGED Intake!intakeVars
      OBVIOUS
    <2>1. ASSUME NEW r \in Requests, CallStep(r)
          PROVE  Intake!Next \/ UNCHANGED Intake!intakeVars
      BY <2>1, AskStep, IntakeStep
    <2>2. CASE Crash
      <3>1. /\ UNCHANGED <<body, returned, orders, events>>
            /\ \A r \in Requests : /\ step'[r] \in Answers <=> step[r] \in Answers
                                   /\ step[r] \in Answers => step'[r] = step[r]
        BY <2>2, CrashEffect DEF Answers, InFlight, InTransaction
      <3>2. Asked' = Asked /\ Answered' = Answered
        BY <3>1 DEF Asked, Answered
      <3> QED
        BY <3>1, <3>2 DEF Intake!intakeVars
    <2>3. CASE Quiet
      BY <2>3 DEF Quiet, Asked, Answered, Intake!intakeVars
    <2> QED
      BY <2>1, <2>2, <2>3, Cases
  <1> QED
    BY <1>1, <1>2, Invariance, PTL DEF Spec, ImplementsIntake, Intake!Spec
=============================================================================
