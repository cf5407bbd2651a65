------------------------ MODULE ConnectionPoolProofs ------------------------
(***************************************************************************)
(* Proofs about ConnectionPool, for any calls and programs, any size of    *)
(* the pool and any faults.  That everything ends is left to TLC.          *)
(***************************************************************************)
EXTENDS ConnectionPool, FiniteSetTheorems, SequenceTheorems, TLAPS

USE ConnectionPoolAssumption

Operations == {"query", "transaction"}

----------------------------------------------------------------------------
(* Finitely many connections, and the steps of a call.                     *)

LEMMA ConnectionsFinite ==
    /\ IsFiniteSet(Connections)
    /\ \A S \in SUBSET Connections : IsFiniteSet(S) /\ Cardinality(S) \in Nat
  <1>1. IsFiniteSet(Connections)
    BY FS_Interval DEF Connections
  <1> QED
    BY <1>1, FS_Subset, FS_CardinalityType

LEMMA ProceedFacts ==
    ASSUME TypeOK, NEW c \in Calls, NEW rest \in Seq(Operations), Proceed(c, rest)
    PROVE  /\ todo' \in [Calls -> Seq(Operations)] /\ pc' \in [Calls -> Steps]
           /\ queue' \in Seq(Calls)
           /\ pc'[c] \in {"queued", "answered"} /\ (pc'[c] = "queued" => todo'[c] # <<>>)
           /\ \A d \in Calls \ {c} : pc'[d] = pc[d] /\ todo'[d] = todo[d]
  <1>1. Append(queue, c) \in Seq(Calls)
    BY AppendProperties DEF TypeOK
  <1> QED
    BY <1>1 DEF Proceed, Goto, TypeOK, Steps, Operations

LEMMA RestFacts ==
    ASSUME TypeOK, Ownership, NEW c \in Calls, pc[c] \in Connected,
           NEW rest \in {<<>>, Tail(todo[c])}
    PROVE  rest \in Seq(Operations)
  <1>1. todo[c] \in Seq(Operations) /\ todo[c] # <<>>
    BY DEF TypeOK, Ownership, Operations
  <1>2. Tail(todo[c]) \in Seq(Operations) /\ <<>> \in Seq(Operations)
    BY <1>1, HeadTailProperties, EmptySeq
  <1> QED
    BY <1>2

\* The step of a call that keeps its connection.
Works(c) == Begin(c) \/ Work(c) \/ Commit(c) \/ Rollback(c) \/ Throw(c)

(* Giving back a connection whose transaction is over.                     *)
LEMMA GiveBackFacts ==
    ASSUME TypeOK, SessionsClosed, NEW k \in Connections, NEW c \in Calls,
           k \in Held(c), pc[c] \in {"query", "release"}, GiveBack(k)
    PROVE  /\ holder' \in [Connections -> Calls \cup {"pool", None}]
           /\ session' \in [Connections -> {"clean", "open", "locked", "broken"}]
           /\ holder'[k] \in {"pool", None} /\ session'[k] = "clean"
           /\ \A l \in Connections \ {k} : holder'[l] = holder[l] /\ session'[l] = session[l]
  <1>1. session[k] \in {"clean", "broken"} /\ holder[k] = c
    BY DEF SessionsClosed, Held
  <1> QED
    BY <1>1 DEF GiveBack, TypeOK

----------------------------------------------------------------------------
(* The types.                                                              *)

LEMMA TypeStep ==
    ASSUME IInv, [Next]_vars
    PROVE  TypeOK'
  <1>0. TypeOK /\ Ownership /\ SessionsClosed
    BY DEF IInv
  <1>1. ASSUME NEW raw \in RawValues, Start(raw)
        PROVE  TypeOK'
    <2>1. ParsePoolMax(raw) \subseteq Connections
      BY DEF ParsePoolMax, Connections
    <2>2. Connections \subseteq Nat
      BY DEF Connections
    <2> QED
      BY <1>0, <1>1, <2>1, <2>2 DEF Start, TypeOK
  <1>2. ASSUME NEW c \in Calls, Arrive(c)
        PROVE  TypeOK'
    <2>1. PICK program \in Programs : Proceed(c, program)
      BY <1>2 DEF Arrive
    <2>2. program \in Seq(Operations)
      BY DEF Operations
    <2> QED
      BY <1>0, <1>2, <2>1, <2>2, ProceedFacts DEF Arrive, TypeOK, Operations
  <1>3. ASSUME NEW c \in Calls, Connect(c)
        PROVE  TypeOK'
    <2>1. queue' \in Seq(Calls)
      BY <1>0, <1>3, HeadTailProperties DEF Connect, TypeOK
    <2>2. /\ \E k \in Connections : holder' = [holder EXCEPT ![k] = c]
          /\ \E s \in {"query", "begin"} : pc' = [pc EXCEPT ![c] = s]
          /\ UNCHANGED <<server, max, todo, session>>
      BY <1>3 DEF Connect, Goto, Available
    <2> QED
      BY <1>0, <2>1, <2>2 DEF TypeOK, Steps, InTransaction
  <1>4. ASSUME NEW c \in Calls, ConnectFails(c)
        PROVE  TypeOK'
    <2>1. PICK i \in DOMAIN queue : queue' = RemoveAt(queue, i)
      BY <1>4 DEF ConnectFails
    <2>2. queue' \in Seq(Calls)
      <3>1. queue \in Seq(Calls) /\ i \in 1 .. Len(queue) /\ Len(queue) \in Nat
        BY <1>0, LenProperties DEF TypeOK
      <3>2. /\ SubSeq(queue, 1, i - 1) \in Seq(Calls)
            /\ SubSeq(queue, i + 1, Len(queue)) \in Seq(Calls)
        BY <3>1
      <3> QED
        BY <2>1, <3>1, <3>2 DEF RemoveAt
    <2> QED
      BY <1>0, <1>4, <2>2 DEF ConnectFails, Goto, TypeOK, Steps
  <1>5. ASSUME NEW c \in Calls, QueryEnds(c) \/ Release(c)
        PROVE  TypeOK'
    <2>1. PICK k \in Held(c), rest \in {<<>>, Tail(todo[c])} :
             GiveBack(k) /\ Proceed(c, rest)
      BY <1>5 DEF QueryEnds, Release
    <2>2. pc[c] \in {"query", "release"}
      BY <1>5 DEF QueryEnds, Release
    <2>3. rest \in Seq(Operations)
      BY <1>0, <2>2, RestFacts DEF Connected, InTransaction
    <2> QED
      BY <1>0, <1>5, <2>1, <2>2, <2>3, ProceedFacts, GiveBackFacts
         DEF QueryEnds, Release, TypeOK, Held, Operations
  <1>6. ASSUME NEW c \in Calls, Works(c)
        PROVE  TypeOK'
    <2>1. /\ UNCHANGED <<server, max, todo, queue, holder>>
          /\ \E s \in Steps : pc' = [pc EXCEPT ![c] = s]
      BY <1>6 DEF Works, Begin, Work, Commit, Rollback, Throw, Goto, Steps, InTransaction
    <2>2. CASE UNCHANGED session
      BY <1>0, <2>1, <2>2 DEF TypeOK
    <2>3. ASSUME NEW k \in Connections, NEW s \in {"clean", "open", "locked", "broken"},
                 session' = [session EXCEPT ![k] = s]
          PROVE  TypeOK'
      BY <1>0, <2>1, <2>3 DEF TypeOK
    <2>4. UNCHANGED session \/ \E k \in Connections :
             \E s \in {"clean", "open", "locked", "broken"} :
                session' = [session EXCEPT ![k] = s]
      <3>1. CASE Begin(c) \/ Work(c) \/ Throw(c)
        BY <3>1 DEF Begin, Work, Throw, Held
      <3>2. CASE Commit(c) \/ Rollback(c)
        <4>1. PICK k \in Connections : EndSession(k)
          BY <3>2 DEF Commit, Rollback, RollbackSession, Held
        <4> QED
          BY <1>0, <4>1 DEF EndSession, TypeOK
      <3> QED
        BY <1>6, <3>1, <3>2 DEF Works
    <2> QED
      BY <2>2, <2>3, <2>4
  <1>7. ASSUME NEW k \in Connections, Break(k)
        PROVE  TypeOK'
    BY <1>0, <1>7 DEF Break, TypeOK
  <1>8. ASSUME NEW k \in Connections, Crash(k)
        PROVE  TypeOK'
    <2>1. queue' \in Seq(Calls) /\ <<>> \in Seq(Operations)
      BY <1>8, EmptySeq DEF Crash
    <2> QED
      BY <1>0, <1>8, <2>1 DEF Crash, TypeOK, Steps, Operations
  <1>9. CASE Terminate \/ EndPool \/ Exit \/ Stopped \/ UNCHANGED vars
    BY <1>0, <1>9 DEF Terminate, EndPool, Exit, Stopped, vars, TypeOK
  <1> QED
    BY <1>1, <1>2, <1>3, <1>4, <1>5, <1>6, <1>7, <1>8, <1>9 DEF Next, Advance, Works

----------------------------------------------------------------------------
(* Who has which connection.                                               *)

LEMMA OwnershipStep ==
    ASSUME IInv, [Next]_vars
    PROVE  Ownership'
  <1>0. TypeOK /\ Ownership /\ SessionsClosed
    BY DEF IInv
  <1> USE DEF Connected, InTransaction
  <1>1. ASSUME NEW c \in Calls, Arrive(c)
        PROVE  Ownership'
    <2>1. PICK program \in Programs : Proceed(c, program)
      BY <1>1 DEF Arrive
    <2>2. program \in Seq(Operations)
      BY DEF Operations
    <2>3. \A d \in Calls : Held(d)' = Held(d)
      BY <1>1 DEF Arrive, Held
    <2>4. /\ pc[c] = "idle" /\ pc'[c] \notin Connected
          /\ pc'[c] = "queued" => todo'[c] # <<>>
          /\ \A d \in Calls \ {c} : pc'[d] = pc[d] /\ todo'[d] = todo[d]
      BY <1>0, <1>1, <2>1, <2>2, ProceedFacts DEF Arrive
    <2>5. Held(c) = {}
      BY <1>0, <2>4 DEF Ownership
    <2> QED
      BY <1>0, <2>3, <2>4, <2>5 DEF Ownership
  <1>2. ASSUME NEW c \in Calls, Connect(c)
        PROVE  Ownership'
    <2>1. PICK k \in Available : holder' = [holder EXCEPT ![k] = c]
      BY <1>2 DEF Connect
    <2>2. k \in Connections /\ holder[k] \in {"pool", None}
      BY DEF Available
    <2>3. /\ pc' = [pc EXCEPT ![c] = IF Head(todo[c]) = "query" THEN "query" ELSE "begin"]
          /\ todo' = todo /\ pc[c] = "queued"
      BY <1>2 DEF Connect, Goto
    <2>4. Held(c) = {} /\ \A d \in Calls : k \notin Held(d)
      BY <1>0, <2>2, <2>3 DEF Ownership, Held
    <2>5. Held(c)' = {k} /\ \A d \in Calls \ {c} : Held(d)' = Held(d)
      BY <1>0, <2>1, <2>2, <2>4 DEF Held, TypeOK
    <2>6. /\ pc'[c] \in Connected /\ todo[c] # <<>>
          /\ \A d \in Calls \ {c} : pc'[d] = pc[d]
      BY <1>0, <2>3 DEF Ownership, TypeOK
    <2> QED
      BY <1>0, <2>2, <2>3, <2>5, <2>6 DEF Ownership
  <1>3. ASSUME NEW c \in Calls, ConnectFails(c)
        PROVE  Ownership'
    <2>1. \A d \in Calls : Held(d)' = Held(d)
      BY <1>3 DEF ConnectFails, Held
    <2>2. pc[c] = "queued" /\ todo' = todo
      BY <1>3 DEF ConnectFails
    <2>3. pc'[c] = "answered" /\ \A d \in Calls \ {c} : pc'[d] = pc[d]
      <3>1. pc' = [pc EXCEPT ![c] = "answered"]
        BY <1>3 DEF ConnectFails, Goto
      <3>2. pc \in [Calls -> Steps]
        BY <1>0 DEF TypeOK
      <3> QED
        BY <3>1, <3>2
    <2>4. Held(c) = {}
      BY <1>0, <2>2 DEF Ownership
    <2> QED
      BY <1>0, <2>1, <2>2, <2>3, <2>4 DEF Ownership
  <1>4. ASSUME NEW c \in Calls, QueryEnds(c) \/ Release(c)
        PROVE  Ownership'
    <2>1. PICK k \in Held(c), rest \in {<<>>, Tail(todo[c])} :
             GiveBack(k) /\ Proceed(c, rest)
      BY <1>4 DEF QueryEnds, Release
    <2>2. pc[c] \in {"query", "release"}
      BY <1>4 DEF QueryEnds, Release
    <2>3. rest \in Seq(Operations)
      BY <1>0, <2>2, RestFacts
    <2>4. Held(c) = {k} /\ k \in Connections
      BY <1>0, <2>1, <2>2 DEF Ownership, Held
    <2>5. /\ holder'[k] \in {"pool", None}
          /\ \A l \in Connections \ {k} : holder'[l] = holder[l]
      BY <1>0, <2>1, <2>2, <2>4, GiveBackFacts
    <2>6. Held(c)' = {} /\ \A d \in Calls \ {c} : Held(d)' = Held(d)
      BY <2>4, <2>5 DEF Held
    <2>7. /\ pc'[c] \notin Connected
          /\ pc'[c] = "queued" => todo'[c] # <<>>
          /\ \A d \in Calls \ {c} : pc'[d] = pc[d] /\ todo'[d] = todo[d]
      BY <1>0, <2>1, <2>3, ProceedFacts
    <2> QED
      BY <1>0, <2>6, <2>7 DEF Ownership
  <1>5. ASSUME NEW c \in Calls, Works(c)
        PROVE  Ownership'
    <2>1. \A d \in Calls : Held(d)' = Held(d)
      BY <1>5 DEF Works, Begin, Work, Commit, Rollback, Throw, Held
    <2>2. /\ pc[c] \in Connected /\ \E s \in Connected : pc' = [pc EXCEPT ![c] = s]
          /\ todo' = todo
      BY <1>5 DEF Works, Begin, Work, Commit, Rollback, Throw, Goto
    <2> QED
      BY <1>0, <2>1, <2>2 DEF Ownership, TypeOK
  <1>6. ASSUME NEW k \in Connections, Break(k)
        PROVE  Ownership'
    <2>1. \A d \in Calls : Held(d)' = Held(d)
      BY <1>0, <1>6 DEF Break, Held, TypeOK
    <2> QED
      BY <1>0, <1>6, <2>1 DEF Break, Ownership
  <1>7. ASSUME NEW k \in Connections, Crash(k)
        PROVE  Ownership'
    BY <1>7 DEF Crash, Ownership, Held
  <1>8. CASE EndPool
    <2>1. \A d \in Calls : Held(d)' = Held(d)
      BY <1>0, <1>8 DEF EndPool, Held, TypeOK
    <2> QED
      BY <1>0, <1>8, <2>1 DEF EndPool, Ownership
  <1>9. CASE UNCHANGED <<pc, todo, holder>>
    BY <1>0, <1>9 DEF Ownership, Held
  <1> QED
    BY <1>1, <1>2, <1>3, <1>4, <1>5, <1>6, <1>7, <1>8, <1>9
       DEF Next, Advance, Works, Start, Terminate, Exit, Stopped, vars

LEMMA SessionsStep ==
    ASSUME IInv, [Next]_vars
    PROVE  SessionsClosed'
  <1>0. TypeOK /\ Ownership /\ SessionsClosed
    BY DEF IInv
  <1> USE DEF Connected, InTransaction
  <1>1. ASSUME NEW c \in Calls, Arrive(c) \/ ConnectFails(c)
        PROVE  SessionsClosed'
    <2>1. holder' = holder /\ session' = session /\ pc'[c] \notin Connected
          /\ \A d \in Calls \ {c} : pc'[d] = pc[d]
      BY <1>0, <1>1 DEF Arrive, Proceed, ConnectFails, Goto, TypeOK
    <2> QED
      BY <1>0, <2>1 DEF SessionsClosed
  <1>2. ASSUME NEW c \in Calls, Connect(c)
        PROVE  SessionsClosed'
    <2>1. PICK k \in Available : holder' = [holder EXCEPT ![k] = c]
      BY <1>2 DEF Connect
    <2>2. k \in Connections /\ session[k] = "clean"
      BY <1>0 DEF Available, SessionsClosed
    <2>3. session' = session /\ \A d \in Calls \ {c} : pc'[d] = pc[d]
      BY <1>0, <1>2 DEF Connect, Goto, TypeOK
    <2>4. Held(c) = {}
      BY <1>0, <1>2 DEF Connect, Ownership
    <2> QED
      BY <1>0, <2>1, <2>2, <2>3, <2>4 DEF SessionsClosed, TypeOK, Held
  <1>3. ASSUME NEW c \in Calls, QueryEnds(c) \/ Release(c)
        PROVE  SessionsClosed'
    <2>1. PICK k \in Held(c), rest \in {<<>>, Tail(todo[c])} :
             GiveBack(k) /\ Proceed(c, rest)
      BY <1>3 DEF QueryEnds, Release
    <2>2. pc[c] \in {"query", "release"}
      BY <1>3 DEF QueryEnds, Release
    <2>3. k \in Connections /\ Held(c) = {k}
      BY <1>0, <2>1, <2>2 DEF Ownership, Held
    <2>4. /\ holder'[k] \in {"pool", None} /\ session'[k] = "clean"
          /\ \A l \in Connections \ {k} : holder'[l] = holder[l] /\ session'[l] = session[l]
      BY <1>0, <2>1, <2>2, <2>3, GiveBackFacts
    <2>5. \A d \in Calls \ {c} : pc'[d] = pc[d]
      BY <1>0, <2>1 DEF Proceed, Goto, TypeOK
    <2> QED
      BY <1>0, <2>3, <2>4, <2>5 DEF SessionsClosed, Held
  <1>4. ASSUME NEW c \in Calls, Works(c)
        PROVE  SessionsClosed'
    <2>1. PICK k \in Connections : Held(c) = {k}
      BY <1>0, <1>4 DEF Works, Begin, Work, Commit, Rollback, Throw, Ownership
    <2>2. holder' = holder /\ holder[k] = c
          /\ \A l \in Connections \ {k} : session'[l] = session[l]
      BY <1>0, <1>4, <2>1 DEF Works, Begin, Work, Commit, Rollback, Throw, RollbackSession,
                              EndSession, TypeOK, Held
    <2>3. /\ \A d \in Calls \ {c} : pc'[d] = pc[d]
          /\ pc'[c] \in {"work", "commit", "rollback", "release"}
      BY <1>0, <1>4 DEF Works, Begin, Work, Commit, Rollback, Throw, Goto, TypeOK
    <2>4. pc'[c] = "release" => session'[k] \in {"clean", "broken"}
      BY <1>0, <1>4, <2>1 DEF Works, Begin, Work, Commit, Rollback, Throw, RollbackSession,
                              EndSession, Goto, TypeOK
    <2> QED
      BY <1>0, <2>1, <2>2, <2>3, <2>4 DEF SessionsClosed, Held
  <1>5. ASSUME NEW k \in Connections, Break(k)
        PROVE  SessionsClosed'
    BY <1>0, <1>5 DEF Break, SessionsClosed, TypeOK
  <1>6. ASSUME NEW k \in Connections, Crash(k)
        PROVE  SessionsClosed'
    BY <1>6 DEF Crash, SessionsClosed
  <1>7. CASE EndPool
    BY <1>0, <1>7 DEF EndPool, SessionsClosed, TypeOK
  <1>8. CASE UNCHANGED <<pc, holder, session>>
    BY <1>0, <1>8 DEF SessionsClosed
  <1> QED
    BY <1>1, <1>2, <1>3, <1>4, <1>5, <1>6, <1>7, <1>8
       DEF Next, Advance, Works, Start, Terminate, Exit, Stopped, vars

(* Connections that exist only become fewer, but for one that is opened    *)
(* where there is room.                                                    *)
LEMMA BoundedStep ==
    ASSUME IInv, [Next]_vars
    PROVE  PoolBounded'
  <1>0. TypeOK /\ Ownership /\ PoolBounded /\ Existing \subseteq Connections
        /\ Existing' \subseteq Connections
    BY DEF IInv, Existing
  <1>1. Cardinality(Existing) \in Nat /\ IsFiniteSet(Existing)
    BY <1>0, ConnectionsFinite
  <1>2. ASSUME NEW raw \in RawValues, Start(raw)
        PROVE  PoolBounded'
    <2>1. Existing' = Existing /\ server' # "starting"
      BY <1>2 DEF Start, Existing
    <2>2. (max' \in Nat /\ max = 0) \/ max' = max
      BY <1>0, <1>2, TypeStep DEF Start, PoolBounded, TypeOK
    <2> QED
      BY <1>0, <1>1, <2>1, <2>2 DEF PoolBounded
  <1>3. ASSUME Existing' \subseteq Existing, max' = max,
               server' = "starting" => server = "starting"
        PROVE  PoolBounded'
    <2>1. Cardinality(Existing') <= Cardinality(Existing) /\ Cardinality(Existing') \in Nat
      BY <1>1, <1>3, FS_Subset, FS_CardinalityType
    <2> QED
      BY <1>0, <1>1, <1>3, <2>1 DEF PoolBounded, TypeOK
  <1>4. ASSUME NEW c \in Calls, Connect(c)
        PROVE  PoolBounded'
    <2>1. PICK k \in Available : holder' = [holder EXCEPT ![k] = c]
      BY <1>4 DEF Connect
    <2>2. k \in Connections /\ max' = max /\ server' = server
      BY <1>4 DEF Connect, Available
    <2>3. CASE holder[k] = "pool"
      BY <1>0, <1>3, <2>1, <2>2, <2>3 DEF Existing, TypeOK
    <2>4. CASE holder[k] = None /\ Cardinality(Existing) < max
      <3>1. Existing' = Existing \cup {k} /\ k \notin Existing
        BY <1>0, <2>1, <2>2, <2>4 DEF Existing, TypeOK
      <3>2. Cardinality(Existing') = Cardinality(Existing) + 1
        BY <1>1, <3>1, FS_AddElement
      <3> QED
        BY <1>0, <1>1, <2>2, <2>4, <3>2 DEF PoolBounded, TypeOK
    <2> QED
      BY <2>3, <2>4 DEF Available
  <1>5. CASE UNCHANGED <<holder, max, server>>
    BY <1>0, <1>5 DEF PoolBounded, Existing
  <1>6. ASSUME NEW c \in Calls, QueryEnds(c) \/ Release(c)
        PROVE  PoolBounded'
    <2>1. PICK k \in Held(c) : GiveBack(k)
      BY <1>6 DEF QueryEnds, Release
    <2>2. Existing' \subseteq Existing
      BY <1>0, <2>1 DEF GiveBack, Existing, Held, TypeOK
    <2> QED
      BY <1>3, <1>6, <2>2 DEF QueryEnds, Release
  <1>7. ASSUME NEW k \in Connections, Break(k) \/ Crash(k)
        PROVE  PoolBounded'
    <2>1. Existing' \subseteq Existing
      BY <1>0, <1>7 DEF Break, Crash, Existing, TypeOK
    <2> QED
      BY <1>3, <1>7, <2>1 DEF Break, Crash
  <1>8. CASE EndPool \/ Terminate \/ Exit
    <2>1. Existing' \subseteq Existing
      BY <1>0, <1>8 DEF EndPool, Terminate, Exit, Existing, TypeOK
    <2> QED
      BY <1>3, <1>8, <2>1 DEF EndPool, Terminate, Exit
  <1> QED
    BY <1>2, <1>4, <1>5, <1>6, <1>7, <1>8
       DEF Next, Advance, Arrive, ConnectFails, Begin, Work, Commit, Rollback, Throw,
           Stopped, vars

----------------------------------------------------------------------------
(* The theorems.                                                           *)

LEMMA InitInv ==
    ASSUME Init
    PROVE  IInv
  <1>1. <<>> \in Seq(Calls) /\ <<>> \in Seq(Operations)
    BY EmptySeq
  <1>2. TypeOK
    BY <1>1 DEF Init, TypeOK, Steps, Operations
  <1>3. Ownership /\ SessionsClosed
    BY DEF Init, Ownership, Held, SessionsClosed, Connected, InTransaction
  <1>4. Existing = {}
    BY DEF Init, Existing
  <1>5. PoolBounded
    BY <1>4, FS_EmptySet DEF Init, PoolBounded
  <1> QED
    BY <1>2, <1>3, <1>5 DEF IInv

THEOREM Invariance == Spec => []IInv
  <1>1. IInv /\ [Next]_vars => IInv'
    BY TypeStep, OwnershipStep, SessionsStep, BoundedStep DEF IInv
  <1> QED
    BY <1>1, InitInv, PTL DEF Spec

(* The size of the pool is one the configuration allows, and all variables *)
(* keep their types.                                                       *)
THEOREM TypeCorrect == Spec => []TypeOK
  BY Invariance, PTL DEF IInv

(* Each connection belongs to at most one call, a call has one exactly     *)
(* while it uses one, nothing of a transaction is left behind on it, and   *)
(* there are no more than the pool allows.                                 *)
THEOREM PoolSound == Spec => []ConnectionsSound
  <1>1. IInv => ConnectionsSound
    <2> SUFFICES ASSUME IInv
                 PROVE  ConnectionsSound
      OBVIOUS
    <2>1. ASSUME NEW c \in Calls
          PROVE  Cardinality(Held(c)) = (IF pc[c] \in Connected THEN 1 ELSE 0)
      <3>1. CASE pc[c] \in Connected
        <4>1. PICK k \in Connections : Held(c) = {k}
          BY <3>1 DEF IInv, Ownership
        <4> QED
          BY <3>1, <4>1, FS_Singleton
      <3>2. CASE pc[c] \notin Connected
        <4>1. Held(c) = {}
          BY <3>2 DEF IInv, Ownership
        <4> QED
          BY <3>2, <4>1, FS_EmptySet
      <3> QED
        BY <3>1, <3>2
    <2> QED
      BY <2>1 DEF IInv, SessionsClosed, PoolBounded, ConnectionsSound
  <1> QED
    BY <1>1, Invariance, PTL
=============================================================================
