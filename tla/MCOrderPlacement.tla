-------------------------- MODULE MCOrderPlacement --------------------------
(* Small instances of OrderPlacement for TLC.                               *)
EXTENDS OrderPlacement, TLC

AllFaults == {"abort", "ackLost", "crash"}
NoCrash   == {"abort", "ackLost"}
NoFaults  == {}

OneMenu   == {1}
TwoMenus  == {1, 2}
ThreeIds  == {1, 2, 3}   \* with TwoMenus, 3 is the id of no row
OnePrice  == {5}
TwoPrices == {5, 6}
WithFree  == {0, 5}

\* Spellings of menu ids and of customers.
Spelled == ("m1" :> 1) @@ ("M1" :> 1) @@ ("m2" :> 2) @@ ("m3" :> 3)
Named   == ("kim" :> "kim") @@ (" kim" :> "kim") @@ ("lee" :> "lee")

Item(id, n) == [menuId |-> id, quantity |-> n]
OrderDto(name, items) == [customer |-> name, items |-> items]

\* One content written in two ways; one with more of a menu than fits.
OneItem  == OrderDto("kim", <<Item("m1", 1)>>)
Plain    == OrderDto("kim", <<Item("m1", 1), Item("m2", 2)>>)
Retyped  == OrderDto(" kim", <<Item("m2", 1), Item("M1", 1), Item("m2", 1)>>)
TooMany  == OrderDto("kim", <<Item("m2", 7), Item("m2", 8)>>)
Unknown  == OrderDto("lee", <<Item("m2", 1), Item("m3", 1)>>)
Others   == OrderDto("lee", <<Item("m1", 1)>>)

RetypedBodies  == {Plain, Retyped, TooMany}
RepricedBodies == {Retyped, Unknown}
TwoBodies      == {OneItem, Others}
OneBody        == {OneItem}

\* And every body of up to three items of two menus.
AllBodies == RetypedBodies \cup
    {OrderDto(name, items) :
        name \in DOMAIN Named,
        items \in UNION {[1 .. n -> {Item(id, q) : id \in {"m1", "M1", "m2"}, q \in 1 .. 2}]
                            : n \in 1 .. 3}}

\* Two days of one festival; the same day of two years, with the same MMDD.
TwoDays  == (0 :> "0519") @@ (1 :> "0520")
TwoYears == (0 :> "0519") @@ (1 :> "0519")
OneDay   == 0 :> "0519"

\* PATCHes of one field each; one price is greater than MaxInt.
OneFieldDtos == {[price |-> 6, isAvailable |-> Absent],
                 [price |-> 18, isAvailable |-> Absent],
                 [price |-> Absent, isAvailable |-> FALSE],
                 [price |-> Absent, isAvailable |-> Absent]}
AllDtos == [price : Prices \cup {Absent}, isAvailable : BOOLEAN \cup {Absent}]

MCSymmetry == Permutations(Requests) \cup Permutations(Keys) \cup Permutations(Admins)

\* Every menu starts on sale at the lowest price.
OnSale == menus = [m \in Menus |-> [price |-> 5, isAvailable |-> TRUE]]
MCInit == Init /\ OnSale
MCSpec == MCInit /\ [][Next]_vars
MCFairSpec == MCSpec /\ Fairness

\* Menu 1 costs 5, menu 2 nothing.
FreeSecond == menus = [m \in Menus |-> [price |-> IF m = 1 THEN 5 ELSE 0, isAvailable |-> TRUE]]
FreeInit == Init /\ FreeSecond
FreeSpec == FreeInit /\ [][Next]_vars
=============================================================================
