---------------------------- MODULE MenuCatalog ----------------------------
(***************************************************************************)
(* The menu catalogue: the rows of the table menus, the administrators'    *)
(* PATCH /admin/menus/:menuId, and MENU_READER, the contract by which an   *)
(* order transaction reads the rows it is going to charge.                 *)
(*                                                                         *)
(* Both sides run in READ COMMITTED transactions on the same rows.  A      *)
(* PATCH locks its row FOR UPDATE, an order locks each of its rows FOR     *)
(* SHARE, one after the other in the order of the ids.  A step below is    *)
(* the stretch between two points where another transaction can get in:    *)
(* taking a row lock, and COMMIT.  What a transaction wrote and has not    *)
(* committed is visible to nobody, so it is kept with the transaction and  *)
(* reaches menus at COMMIT.                                                *)
(***************************************************************************)
EXTENDS Integers, Sequences

CONSTANTS
    Menus,      \* the ids of the rows of menus; an id is a number because
                \* uuids are ordered and the locks are taken in that order
    MenuIds,    \* the ids a request may name: those rows and unknown ones
    Prices,     \* the prices in use
    MaxInt,     \* the greatest INTEGER, 2147483647 in PostgreSQL
    Admins,     \* the PATCH calls, one model value each
    Dtos,       \* the PATCH bodies, see Dto
    Requests,   \* the POST /orders calls, one model value each
    Absent,     \* a field the request leaves undefined
    Faults      \* which faults occur: "abort", "ackLost", "crash"

ASSUME MenuCatalogAssumption ==
    /\ MenuIds \subseteq Nat /\ Menus \subseteq MenuIds
    /\ MaxInt \in Nat /\ Prices \subseteq 0 .. MaxInt
    /\ Absent \notin Nat /\ Absent \notin BOOLEAN /\ Absent \notin MenuIds
    /\ Faults \subseteq {"abort", "ackLost", "crash"}

Row == [price : Prices, isAvailable : BOOLEAN]

\* A PATCH body: at least one field must be present (the service checks it).
\* The DTO puts no upper bound on a price.
Dto == [price : Nat \cup {Absent}, isAvailable : BOOLEAN \cup {Absent}]

ASSUME DtosAssumption ==
    /\ Dtos \subseteq Dto
    /\ \A dto \in Dtos : dto.price \in 0 .. MaxInt => dto.price \in Prices

VARIABLES
    menus,        \* the committed rows
    menuHistory,  \* the rows of menu_history, in the order they committed
    patchStep,    \* where each PATCH is; at the end, the code it answered
    patchReq,     \* its menuId and dto, and the instant of its BEGIN
    patchRow,     \* the row it read under its lock
    txClock,      \* the database clock: the number of PATCHes begun so far
    shared,       \* the rows each order transaction has locked FOR SHARE
    snapshot      \* what it read of them

menuVars == <<menus, menuHistory, patchStep, patchReq, patchRow, txClock,
              shared, snapshot>>

PatchAnswers == {"OK", "NOT_FOUND", "VALIDATION_ERROR", "INTERNAL_ERROR"}
PatchSteps   == {"idle", "begun", "locked", "lost"} \cup PatchAnswers

NoRequest == [menu |-> Absent, dto |-> [price |-> Absent, isAvailable |-> Absent],
              begunAt |-> 0]
EmptySnapshot == [m \in {} |-> Absent]

----------------------------------------------------------------------------
(* Row locks.                                                              *)

\* Mutant: a PATCH that fails is not rolled back and keeps its lock.
RowWritersLeaking(m) ==
    {a \in Admins : patchStep[a] \in {"locked", "INTERNAL_ERROR"} /\ patchReq[a].menu = m}

\* The PATCH holding the row's FOR UPDATE lock, if any: it keeps it from the
\* SELECT to the end of its transaction.
RowWriters(m) == {a \in Admins : patchStep[a] = "locked" /\ patchReq[a].menu = m}
RowSharers(m) == {r \in Requests : m \in shared[r]}

\* FOR SHARE waits for a FOR UPDATE of another transaction.
MayShare(m) == RowWriters(m) = {}

\* Mutants: the PATCH's SELECT does not wait for orders; nor for PATCHes.
MayUpdateDespiteOrders(m)  == RowWriters(m) = {}
MayUpdateDespitePatches(m) == RowSharers(m) = {}

\* FOR UPDATE waits for both kinds of lock.
MayUpdate(m) == RowWriters(m) = {} /\ RowSharers(m) = {}

----------------------------------------------------------------------------
(* PATCH /admin/menus/:menuId                                              *)

\* The service refuses a body with neither field before it opens a
\* transaction; otherwise BEGIN fixes now() for everything the call writes.
PatchBegin(a, m, dto) ==
    /\ patchStep[a] = "idle"
    /\ IF dto.price = Absent /\ dto.isAvailable = Absent
       THEN /\ patchStep' = [patchStep EXCEPT ![a] = "VALIDATION_ERROR"]
            /\ UNCHANGED <<patchReq, txClock>>
       ELSE /\ patchStep' = [patchStep EXCEPT ![a] = "begun"]
            /\ patchReq' = [patchReq EXCEPT ![a] =
                               [menu |-> m, dto |-> dto, begunAt |-> txClock + 1]]
            /\ txClock' = txClock + 1
    /\ UNCHANGED <<menus, menuHistory, patchRow, shared, snapshot>>

\* SELECT ... FOR UPDATE finds no row.
PatchNotFound(a) ==
    /\ patchStep[a] = "begun"
    /\ patchReq[a].menu \notin Menus
    /\ patchStep' = [patchStep EXCEPT ![a] = "NOT_FOUND"]
    /\ UNCHANGED <<menus, menuHistory, patchReq, patchRow, txClock, shared, snapshot>>

\* SELECT ... FOR UPDATE obtains the lock, and with it the latest committed row.
PatchLock(a) ==
    /\ patchStep[a] = "begun"
    /\ patchReq[a].menu \in Menus
    /\ MayUpdate(patchReq[a].menu)
    /\ patchStep' = [patchStep EXCEPT ![a] = "locked"]
    /\ patchRow'  = [patchRow EXCEPT ![a] = menus[patchReq[a].menu]]
    /\ UNCHANGED <<menus, menuHistory, patchReq, txClock, shared, snapshot>>

\* dto.price ?? current.price, dto.isAvailable ?? current.isAvailable
Merged(a) ==
    LET current == patchRow[a]
        dto     == patchReq[a].dto
    IN  [price       |-> IF dto.price = Absent THEN current.price ELSE dto.price,
         isAvailable |-> IF dto.isAvailable = Absent THEN current.isAvailable
                                                     ELSE dto.isAvailable]

\* changed_at is the column's default, now(): the instant of the BEGIN.
ChangedAt(a) == patchReq[a].begunAt

\* price is an INTEGER column: the UPDATE fails, ROLLBACK.
PatchOutOfRange(a) ==
    /\ patchStep[a] = "locked"
    /\ Merged(a).price > MaxInt
    /\ patchStep' = [patchStep EXCEPT ![a] = "INTERNAL_ERROR"]
    /\ UNCHANGED <<menus, menuHistory, patchReq, patchRow, txClock, shared, snapshot>>

\* UPDATE, the history row when a value really changed, COMMIT.  When the
\* acknowledgement of the COMMIT is lost the change stands and the caller
\* is answered with an error.
PatchCommit(a) ==
    /\ patchStep[a] = "locked"
    /\ Merged(a).price <= MaxInt
    /\ LET m == patchReq[a].menu IN
       /\ menus' = [menus EXCEPT ![m] = Merged(a)]
       /\ menuHistory' =
            IF Merged(a) = patchRow[a] THEN menuHistory
            ELSE Append(menuHistory, [menu |-> m, old |-> patchRow[a],
                                      new |-> Merged(a), changedAt |-> ChangedAt(a)])
    /\ \/ patchStep' = [patchStep EXCEPT ![a] = "OK"]
       \/ /\ "ackLost" \in Faults
          /\ patchStep' = [patchStep EXCEPT ![a] = "INTERNAL_ERROR"]
    /\ UNCHANGED <<patchReq, patchRow, txClock, shared, snapshot>>

\* A statement fails or times out: ROLLBACK.
PatchAbort(a) ==
    /\ "abort" \in Faults
    /\ patchStep[a] \in {"begun", "locked"}
    /\ patchStep' = [patchStep EXCEPT ![a] = "INTERNAL_ERROR"]
    /\ UNCHANGED <<menus, menuHistory, patchReq, patchRow, txClock, shared, snapshot>>

----------------------------------------------------------------------------
(* MENU_READER.getSnapshotsForOrder                                        *)

\* Mutant: the SELECT without FOR SHARE.
NoShareLock(r, m) == UNCHANGED shared

ShareLock(r, m) == shared' = [shared EXCEPT ![r] = @ \cup {m}]

\* One row of SELECT ... ORDER BY id FOR SHARE: wait for the row's writer,
\* lock it, and read its latest committed version.
ShareRow(r, m) ==
    /\ MayShare(m)
    /\ ShareLock(r, m)
    /\ snapshot' = [snapshot EXCEPT ![r] =
                      [n \in DOMAIN @ \cup {m} |-> IF n = m THEN menus[m] ELSE @[n]]]
    /\ UNCHANGED <<menus, menuHistory, patchStep, patchReq, patchRow, txClock>>

\* The next row the SELECT must lock: the least id of those wanted and present.
NextRow(r, wanted) ==
    {m \in (wanted \cap Menus) \ DOMAIN snapshot[r] :
        \A n \in (wanted \cap Menus) \ DOMAIN snapshot[r] : m <= n}

\* The end of the order's transaction, either way, releases its locks.
ReleaseRows(r) ==
    /\ shared' = [shared EXCEPT ![r] = {}]
    /\ snapshot' = [snapshot EXCEPT ![r] = EmptySnapshot]

----------------------------------------------------------------------------
MenuInit ==
    /\ menus \in [Menus -> Row]
    /\ menuHistory = <<>>
    /\ patchStep = [a \in Admins |-> "idle"]
    /\ patchReq = [a \in Admins |-> NoRequest]
    /\ patchRow = [a \in Admins |-> Absent]
    /\ txClock = 0
    /\ shared = [r \in Requests |-> {}]
    /\ snapshot = [r \in Requests |-> EmptySnapshot]

PatchNext ==
    \E a \in Admins :
        \/ \E m \in MenuIds, dto \in Dtos : PatchBegin(a, m, dto)
        \/ PatchNotFound(a)
        \/ PatchLock(a)
        \/ PatchOutOfRange(a)
        \/ PatchCommit(a)
        \/ PatchAbort(a)

\* The process dies: PostgreSQL rolls back what had not committed, and the
\* callers are never answered.
LosePatches ==
    patchStep' = [a \in Admins |->
                    IF patchStep[a] \in {"begun", "locked"} THEN "lost"
                                                            ELSE patchStep[a]]

----------------------------------------------------------------------------
(* Properties.                                                             *)

HistoryRow == [menu : Menus, old : Row, new : Row, changedAt : Nat]

MenuTypeOK ==
    /\ menus \in [Menus -> Row]
    /\ menuHistory \in Seq(HistoryRow)
    /\ patchStep \in [Admins -> PatchSteps]
    /\ patchReq \in [Admins -> [menu : MenuIds, dto : Dtos, begunAt : Nat] \cup {NoRequest}]
    /\ patchRow \in [Admins -> Row \cup {Absent}]
    /\ txClock \in Nat
    /\ shared \in [Requests -> SUBSET Menus]
    /\ snapshot \in [Requests -> UNION {[S -> Row] : S \in SUBSET Menus}]

(* The price and the availability an order in progress has read are the    *)
(* committed ones until its transaction ends, however many PATCHes are in  *)
(* flight: the FOR SHARE of menus.repository.ts getSnapshotsForOrder holds *)
(* off every FOR UPDATE.                                                   *)
SnapshotsFresh ==
    \A r \in Requests : \A m \in DOMAIN snapshot[r] : snapshot[r][m] = menus[m]

\* Entry j is the next one after entry i about the same menu.
NextEntry(i, j) ==
    /\ i < j
    /\ menuHistory[i].menu = menuHistory[j].menu
    /\ \A k \in (i + 1) .. (j - 1) : menuHistory[k].menu # menuHistory[i].menu

(* menu_history accounts for every change: each entry starts from the      *)
(* values the entry before it ended with, and the last one ends with the   *)
(* values of the row.  This is what menus.service.ts update() takes the    *)
(* row lock before its read for.                                           *)
HistoryAccountsForRows ==
    \A i \in DOMAIN menuHistory :
        /\ \A j \in DOMAIN menuHistory :
                NextEntry(i, j) => menuHistory[i].new = menuHistory[j].old
        /\ (\A j \in DOMAIN menuHistory :
                i < j => menuHistory[j].menu # menuHistory[i].menu)
                => menuHistory[i].new = menus[menuHistory[i].menu]

\* In this step a changes m, and only the fields its body names.
ChangesOnlyNamedFields(a, m) ==
    /\ patchReq[a].menu = m
    /\ patchStep[a] = "locked" /\ patchStep'[a] # "locked"
    /\ patchReq[a].dto.price = Absent => menus'[m].price = menus[m].price
    /\ patchReq[a].dto.isAvailable = Absent
            => menus'[m].isAvailable = menus[m].isAvailable

(* A row changes only when a PATCH of that row commits, and in no field    *)
(* the PATCH left out: of two administrators, one changing the price and   *)
(* the other the availability at the same time, neither undoes the other,  *)
(* although applyChanges writes both columns from values read earlier.     *)
NoLostUpdate ==
    [][\A m \in Menus : menus'[m] # menus[m]
            => \E a \in Admins : ChangesOnlyNamedFields(a, m)]_menuVars

(* docs/04_DB: changed_at is the instant the change was committed.  Then   *)
(* the entries of one menu, in the order they committed, have increasing   *)
(* changed_at.                                                             *)
ChangedAtIsCommitOrder ==
    \A i, j \in DOMAIN menuHistory :
        NextEntry(i, j) => menuHistory[i].changedAt < menuHistory[j].changedAt

----------------------------------------------------------------------------
(* What makes these properties inductive.                                  *)

\* A row is locked by one PATCH or by orders; who has read it has locked it.
LocksExclusive ==
    \A m \in Menus :
        /\ RowWriters(m) = {} \/ RowSharers(m) = {}
        /\ \A a, b \in RowWriters(m) : a = b

ReadUnderLock ==
    /\ \A r \in Requests : DOMAIN snapshot[r] \subseteq shared[r]
    /\ \A a \in Admins : patchStep[a] = "locked" =>
        patchReq[a].menu \in Menus /\ patchRow[a] = menus[patchReq[a].menu]

MenusConsistent ==
    /\ LocksExclusive /\ ReadUnderLock
    /\ SnapshotsFresh /\ HistoryAccountsForRows
=============================================================================
