--------------------------- MODULE ConnectionPool ---------------------------
(***************************************************************************)
(* DatabaseService: the bounded pool of connections that every call of the *)
(* server shares, from the start of the process to its shutdown.           *)
(*                                                                         *)
(* A call is a sequence of operations, each on a connection of its own:    *)
(* query(), one statement, or withTransaction(), in which the call waits   *)
(* for a row that another call's transaction may have locked.  The service *)
(* methods are such sequences: create() looks for an order, runs its       *)
(* transaction and after a unique violation looks again.  The models of    *)
(* the services speak of transactions only; whether the connections for    *)
(* them suffice is the question here.                                      *)
(*                                                                         *)
(* The pool of the library pg serves waiting calls first come, first       *)
(* served, and drops a connection that is broken when it is given back.    *)
(* A connection that breaks emits 'error': the pool listens for it on the  *)
(* idle ones and during query(), nobody does in withTransaction.           *)
(***************************************************************************)
EXTENDS Integers, FiniteSets, SequencesExt

CONSTANTS
    Calls,          \* the calls
    Programs,       \* the sequences of operations a call may consist of
    RawValues,      \* what DB_POOL_MAX may be set to
    DefaultMax,     \* the library's size of a pool, 10, without DB_POOL_MAX
    LargestMax,     \* the greatest value validateEnv accepts, 100
    None,           \* DB_POOL_MAX not set; nobody
    Faults          \* which faults occur: "abort", "break", "timeout"

ASSUME ConnectionPoolAssumption ==
    /\ Programs \subseteq Seq({"query", "transaction"}) \ {<<>>}
    /\ DefaultMax \in Nat \ {0} /\ LargestMax \in Nat \ {0}
    /\ None \notin Calls \cup Int \cup {"pool"} /\ "pool" \notin Calls
    /\ Faults \subseteq {"abort", "break", "timeout"}

Connections == 1 .. (IF LargestMax > DefaultMax THEN LargestMax ELSE DefaultMax)

VARIABLES
    server,     \* "starting", "refused", "up", "closing", "ending", "exited",
                \* "crashed"
    max,        \* the size of the pool
    pc,         \* where each call is
    todo,       \* its operations from the one under way
    queue,      \* the calls waiting for a connection
    holder,     \* the call each connection is checked out to, "pool" while
                \* it is idle there, None while it does not exist
    session     \* the database's end of it: "clean", "open" in a transaction,
                \* "locked" when that has locked the row, or "broken"

vars == <<server, max, pc, todo, queue, holder, session>>

InTransaction == {"begin", "work", "commit", "rollback", "release"}
Steps == {"idle", "queued", "query", "answered"} \cup InTransaction

Held(c) == {k \in Connections : holder[k] = c}
Existing == {k \in Connections : holder[k] # None}

Goto(c, step) == pc' = [pc EXCEPT ![c] = step]

----------------------------------------------------------------------------
(* The start of the process.                                               *)

\* Mutant: the bounds of the entry are not looked at.
ParsePoolMaxUnbounded(raw) == {IF raw = None THEN DefaultMax ELSE raw}

\* parseNumericEnv with the entry of DB_POOL_MAX: no default, at least 1.
ParsePoolMax(raw) == IF raw = None THEN {DefaultMax} ELSE {raw} \cap (1 .. LargestMax)

\* validateEnv ends the process on a value it does not accept.
Start(raw) ==
    /\ server = "starting"
    /\ IF ParsePoolMax(raw) = {}
       THEN server' = "refused" /\ UNCHANGED max
       ELSE server' = "up" /\ max' \in ParsePoolMax(raw)
    /\ UNCHANGED <<pc, todo, queue, holder, session>>

----------------------------------------------------------------------------
(* pool.connect and client.release                                         *)

\* The call is answered, or has another operation, which needs a connection.
Proceed(c, rest) ==
    /\ todo' = [todo EXCEPT ![c] = rest]
    /\ IF rest = <<>> THEN Goto(c, "answered") /\ UNCHANGED queue
                      ELSE Goto(c, "queued") /\ queue' = Append(queue, c)

Arrive(c) ==
    /\ server = "up"
    /\ pc[c] = "idle"
    /\ \E program \in Programs : Proceed(c, program)
    /\ UNCHANGED <<server, max, holder, session>>

\* An idle connection, or a new one while there is room.
Available ==
    {k \in Connections : \/ holder[k] = "pool"
                         \/ holder[k] = None /\ Cardinality(Existing) < max}

\* The first in the queue gets a connection.
Connect(c) ==
    /\ pc[c] = "queued" /\ queue # <<>> /\ Head(queue) = c
    /\ queue' = Tail(queue)
    /\ \E k \in Available : holder' = [holder EXCEPT ![k] = c]
    /\ Goto(c, IF Head(todo[c]) = "query" THEN "query" ELSE "begin")
    /\ UNCHANGED <<server, max, todo, session>>

\* connectionTimeoutMillis passes, or no connection can be opened.
ConnectFails(c) ==
    /\ "timeout" \in Faults
    /\ pc[c] = "queued"
    /\ \E i \in DOMAIN queue : queue[i] = c /\ queue' = RemoveAt(queue, i)
    /\ Goto(c, "answered")
    /\ UNCHANGED <<server, max, todo, holder, session>>

\* The library keeps the connection, unless it is broken.
GiveBack(k) ==
    /\ holder' = [holder EXCEPT ![k] = IF session[k] = "broken" THEN None ELSE "pool"]
    /\ session' = [session EXCEPT ![k] = IF @ = "broken" THEN "clean" ELSE @]

\* query(): the statement has ended.  What it returned decides whether the
\* call goes on, and on a broken connection it threw.
QueryEnds(c) ==
    /\ pc[c] = "query"
    /\ \E k \in Held(c), rest \in {<<>>, Tail(todo[c])} :
        /\ session[k] = "broken" => rest = <<>>
        /\ GiveBack(k)
        /\ Proceed(c, rest)
    /\ UNCHANGED <<server, max>>

----------------------------------------------------------------------------
(* withTransaction                                                         *)

Begin(c) ==
    /\ pc[c] = "begin"
    /\ \E k \in Held(c) :
        /\ session[k] # "broken"
        /\ session' = [session EXCEPT ![k] = "open"]
    /\ Goto(c, "work")
    /\ UNCHANGED <<server, max, todo, queue, holder>>

RowFree == \A k \in Connections : session[k] # "locked"

\* Mutant: the work reads through the pool while it holds its connection.
WorkNested(c) ==
    /\ pc[c] = "work"
    /\ RowFree /\ Available # {}
    /\ \E k \in Held(c) :
        /\ session[k] # "broken"
        /\ session' = [session EXCEPT ![k] = "locked"]
    /\ Goto(c, "commit")
    /\ UNCHANGED <<server, max, todo, queue, holder>>

\* work(client): the call locks the row, when it is free, on its own client.
Work(c) ==
    /\ pc[c] = "work"
    /\ RowFree
    /\ \E k \in Held(c) :
        /\ session[k] # "broken"
        /\ session' = [session EXCEPT ![k] = "locked"]
    /\ Goto(c, "commit")
    /\ UNCHANGED <<server, max, todo, queue, holder>>

\* The transaction of connection k is over, if the connection still lives.
EndSession(k) == session' = [session EXCEPT ![k] = IF @ = "broken" THEN @ ELSE "clean"]

Commit(c) ==
    /\ pc[c] = "commit"
    /\ \E k \in Held(c) : session[k] # "broken" /\ EndSession(k)
    /\ Goto(c, "release")
    /\ UNCHANGED <<server, max, todo, queue, holder>>

\* BEGIN, work or COMMIT throws: a statement failed or was cancelled by
\* statement_timeout, the service refused, or the connection broke.
Throw(c) ==
    /\ pc[c] \in {"begin", "work", "commit"}
    /\ \E k \in Held(c) : session[k] = "broken" \/ "abort" \in Faults
    /\ Goto(c, "rollback")
    /\ UNCHANGED <<server, max, todo, queue, holder, session>>

\* Mutant: the error is thrown on without a ROLLBACK.
NoRollback(k) == UNCHANGED session

RollbackSession(k) == EndSession(k)

\* catch: ROLLBACK, and what goes wrong with it is not reported.
Rollback(c) ==
    /\ pc[c] = "rollback"
    /\ \E k \in Held(c) : RollbackSession(k)
    /\ Goto(c, "release")
    /\ UNCHANGED <<server, max, todo, queue, holder>>

\* finally: the connection is given back.  The call is answered, or, after a
\* violation of a unique index, looks up what it collided with.
Release(c) ==
    /\ pc[c] = "release"
    /\ \E k \in Held(c) : GiveBack(k)
    /\ \E rest \in {<<>>, Tail(todo[c])} : Proceed(c, rest)
    /\ UNCHANGED <<server, max>>

\* A connection breaks; the database rolls back and unlocks.  An idle one
\* is dropped by the library, and pool.on('error') keeps the process alive.
Break(k) ==
    /\ "break" \in Faults
    /\ holder[k] # None /\ session[k] # "broken"
    /\ IF holder[k] = "pool"
       THEN holder' = [holder EXCEPT ![k] = None] /\ UNCHANGED session
       ELSE session' = [session EXCEPT ![k] = "broken"] /\ UNCHANGED holder
    /\ UNCHANGED <<server, max, pc, todo, queue>>

\* A connection breaks in a transaction, and the 'error' nobody listens for
\* ends the process; the database ends all its sessions.
Crash(k) ==
    /\ "break" \in Faults
    /\ \E c \in Calls : k \in Held(c) /\ pc[c] \in InTransaction
    /\ server' = "crashed"
    /\ pc' = [c \in Calls |-> IF pc[c] = "idle" THEN "idle" ELSE "answered"]
    /\ todo' = [c \in Calls |-> <<>>]
    /\ queue' = <<>>
    /\ holder' = [l \in Connections |-> None]
    /\ session' = [l \in Connections |-> "clean"]
    /\ UNCHANGED max

----------------------------------------------------------------------------
(* The shutdown.                                                           *)

\* SIGTERM: the HTTP server takes no new calls.
Terminate ==
    /\ server = "up"
    /\ server' = "closing"
    /\ UNCHANGED <<max, pc, todo, queue, holder, session>>

\* When the last one is answered, onApplicationShutdown ends the pool, which
\* closes the idle connections ...
EndPool ==
    /\ server = "closing"
    /\ \A c \in Calls : pc[c] \in {"idle", "answered"}
    /\ server' = "ending"
    /\ holder' = [k \in Connections |-> IF holder[k] = "pool" THEN None ELSE holder[k]]
    /\ UNCHANGED <<max, pc, todo, queue, session>>

\* ... and waits for the others to be given back.
Exit ==
    /\ server = "ending"
    /\ Existing = {}
    /\ server' = "exited"
    /\ UNCHANGED <<max, pc, todo, queue, holder, session>>

Stopped ==
    /\ server \in {"refused", "exited", "crashed"}
    /\ UNCHANGED vars

----------------------------------------------------------------------------
Init ==
    /\ server = "starting"
    /\ max = 0
    /\ pc = [c \in Calls |-> "idle"]
    /\ todo = [c \in Calls |-> <<>>]
    /\ queue = <<>>
    /\ holder = [k \in Connections |-> None]
    /\ session = [k \in Connections |-> "clean"]

\* A call's own progress, without anything going wrong or timing out.
Advance(c) ==
    \/ Connect(c)
    \/ QueryEnds(c)
    \/ Begin(c)
    \/ Work(c)
    \/ Commit(c)
    \/ Rollback(c)
    \/ Release(c)

Next ==
    \/ \E raw \in RawValues : Start(raw)
    \/ \E c \in Calls : Arrive(c) \/ Advance(c) \/ Throw(c) \/ ConnectFails(c)
    \/ \E k \in Connections : Break(k) \/ Crash(k)
    \/ Terminate \/ EndPool \/ Exit
    \/ Stopped

Spec == Init /\ [][Next]_vars

\* The process and the database go on, and an operation on a connection that
\* broke does throw.  No timeout has to fire.
Fairness ==
    /\ \A c \in Calls :
        /\ WF_vars(Advance(c))
        /\ WF_vars(Throw(c) /\ \E k \in Held(c) : session[k] = "broken")
    /\ WF_vars(EndPool) /\ WF_vars(Exit)

FairSpec == Spec /\ Fairness

----------------------------------------------------------------------------
(* Properties.                                                             *)

TypeOK ==
    /\ server \in {"starting", "refused", "up", "closing", "ending",
                   "exited", "crashed"}
    /\ max \in Nat /\ (server \in {"up", "closing", "ending"} => max \in Connections)
    /\ pc \in [Calls -> Steps]
    /\ todo \in [Calls -> Seq({"query", "transaction"})]
    /\ queue \in Seq(Calls)
    /\ holder \in [Connections -> Calls \cup {"pool", None}]
    /\ session \in [Connections -> {"clean", "open", "locked", "broken"}]

\* The steps at which a call has a connection.
Connected == {"query"} \cup InTransaction

(* A connection belongs to the call that uses it and to nobody else: a     *)
(* call in an operation has exactly one, one that waits for a connection   *)
(* or has been answered has none, on any path, and there are never more    *)
(* than the pool allows.  A connection in the pool is in no transaction,   *)
(* so nobody inherits the locks or the uncommitted rows of another call,   *)
(* although the errors of ROLLBACK are ignored.                            *)
ConnectionsSound ==
    /\ \A c \in Calls : Cardinality(Held(c)) = (IF pc[c] \in Connected THEN 1 ELSE 0)
    /\ \A k \in Connections : holder[k] \in {"pool", None} => session[k] = "clean"
    /\ Cardinality(Existing) <= max

(* Every call is answered however few connections there are, and without   *)
(* the help of a timeout: whoever holds the row that all wait for already  *)
(* has the connection it needs (docs/backend/001: no query through the     *)
(* pool inside a transaction).  And a shutdown ends, as all connections    *)
(* come back (unless the process crashes, which drops everybody).          *)
EverythingEnds ==
    /\ \A c \in Calls : pc[c] = "queued" ~> pc[c] = "answered"
    /\ server = "closing" ~> server \in {"exited", "crashed"}

----------------------------------------------------------------------------
(* What makes ConnectionsSound inductive.                                  *)

\* One connection for a call at a step that has one, no more and no less.
Ownership ==
    \A c \in Calls :
        /\ pc[c] \in Connected => \E k \in Connections : Held(c) = {k}
        /\ pc[c] \notin Connected => Held(c) = {}
        /\ pc[c] \in Connected \cup {"queued"} => todo[c] # <<>>

\* A transaction is over, or has not begun, where the connection changes hands.
SessionsClosed ==
    \A k \in Connections :
        /\ holder[k] \in {"pool", None} => session[k] = "clean"
        /\ holder[k] \in Calls /\ pc[holder[k]] \in {"query", "begin", "release"} =>
                session[k] \in {"clean", "broken"}

PoolBounded ==
    /\ Cardinality(Existing) <= max
    /\ server = "starting" => max = 0

IInv == TypeOK /\ Ownership /\ SessionsClosed /\ PoolBounded
=============================================================================
