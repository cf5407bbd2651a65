------------------------ MODULE AdminSessionsProofs ------------------------
(***************************************************************************)
(* Proofs about AdminSessions, for any browsers, sessions, sockets, calls  *)
(* and faults.                                                             *)
(***************************************************************************)
EXTENDS AdminSessions, TLAPS

USE SessionsAssumption

(* A step of a request that touches no socket.                             *)
LEMMA CallStep ==
    ASSUME IInv, NEW c \in Calls,
           SendLogin(c) \/ SendLogout(c) \/ RefuseLogin(c) \/ ReceiveToken(c)
               \/ ReceiveLogout(c) \/ Lose(c)
    PROVE  IInv'
  <1>0. TypeOK /\ TokensSigned /\ TimersSet /\ LogoutMissesNone
    BY DEF IInv
  <1>1. now' = now /\ UNCHANGED <<expiresAt, loggedOut, socket, timer, late>>
    BY DEF SendLogin, SendLogout, RefuseLogin, ReceiveToken, ReceiveLogout, Lose,
           UnchangedSockets, UnchangedSessions
  <1>2. \E step \in CallSteps, s \in Signed \cup {Absent} :
            call' = [call EXCEPT ![c] = [step |-> step, session |-> s]]
    BY <1>0 DEF SendLogin, SendLogout, RefuseLogin, ReceiveToken, ReceiveLogout, Lose, EndCall,
                Become, TokensSigned, CallSteps
  <1>3. cookie' = cookie \/ \E s \in Signed \cup {Absent} : cookie' = [cookie EXCEPT ![Browser[c]] = s]
    BY <1>0 DEF SendLogin, SendLogout, RefuseLogin, ReceiveToken, ReceiveLogout, Lose, TokensSigned
  <1>4. TypeOK'
    BY <1>0, <1>1, <1>2, <1>3 DEF TypeOK, Signed
  <1>5. TokensSigned'
    BY <1>0, <1>1, <1>2, <1>3 DEF TypeOK, TokensSigned, Signed, Open
  <1>6. TimersSet' /\ LogoutMissesNone'
    BY <1>0, <1>1 DEF TimersSet, LogoutMissesNone, Open
  <1> QED
    BY <1>4, <1>5, <1>6 DEF IInv

(* A token is signed for a session that had none.                          *)
LEMMA SignStep ==
    ASSUME IInv, NEW c \in Calls, SignToken(c)
    PROVE  IInv'
  <1>0. TypeOK /\ TokensSigned /\ TimersSet /\ LogoutMissesNone
    BY DEF IInv
  <1>1. PICK s \in Sessions :
            /\ expiresAt[s] = Absent
            /\ expiresAt' = [expiresAt EXCEPT ![s] = now + Lifetime]
            /\ call' = [call EXCEPT ![c] = [step |-> "loginAnswered", session |-> s]]
    BY DEF SignToken, Fresh, Become
  <1>2. /\ UNCHANGED <<now, cookie, loggedOut, socket, timer, late>>
        /\ now + Lifetime \in 0 .. LastInstant
    BY <1>0 DEF SignToken, UnchangedSockets, TypeOK
  <1>3. s \notin Signed /\ Signed' = Signed \cup {s}
    BY <1>0, <1>1, <1>2 DEF Signed, TypeOK
  <1>4. TypeOK'
    BY <1>0, <1>1, <1>2 DEF TypeOK, CallSteps
  <1>5. TokensSigned'
    BY <1>0, <1>1, <1>2, <1>3 DEF TypeOK, TokensSigned, Open
  <1>6. TimersSet'
    <2>1. \A k \in Open : expiresAt'[socket[k].session] = expiresAt[socket[k].session]
      BY <1>0, <1>1, <1>3 DEF TokensSigned, TypeOK, Signed
    <2> QED
      BY <1>0, <1>2, <2>1 DEF TimersSet, Open
  <1>7. LogoutMissesNone'
    BY <1>0, <1>2 DEF LogoutMissesNone, Open
  <1> QED
    BY <1>4, <1>5, <1>6, <1>7 DEF IInv

(* Sockets that end take their timers and their tokens with them.          *)
LEMMA EndStep ==
    ASSUME IInv, NEW ks \in SUBSET Sockets,
           NEW state \in {"refused", "closed", "gone"}, End(ks, state),
           UNCHANGED <<now, expiresAt, cookie>>,
           call' \in [Calls -> [step : CallSteps, session : Signed \cup {Absent}]],
           loggedOut' \subseteq Sessions,
           \A k \in Open \ ks : socket[k].session \in loggedOut' => socket[k].session \in loggedOut
    PROVE  IInv'
  <1>0. TypeOK /\ TokensSigned /\ TimersSet /\ LogoutMissesNone
    BY DEF IInv
  <1>1. /\ socket' = [k \in Sockets |->
               IF k \in ks THEN [state |-> state, session |-> Absent] ELSE socket[k]]
        /\ timer' = [k \in Sockets |-> IF k \in ks THEN Absent ELSE timer[k]]
        /\ late' = late \ ks
    BY DEF End
  <1>2. Open' = Open \ ks /\ Signed' = Signed
    BY <1>1 DEF Open, Signed
  <1>3. TypeOK'
    BY <1>0, <1>1 DEF TypeOK, SocketStates, Signed
  <1>4. TokensSigned'
    BY <1>0, <1>1, <1>2 DEF TokensSigned, Open
  <1>5. TimersSet'
    BY <1>0, <1>1, <1>2 DEF TimersSet, Open
  <1>6. LogoutMissesNone'
    BY <1>0, <1>1, <1>2 DEF LogoutMissesNone, Open
  <1> QED
    BY <1>3, <1>4, <1>5, <1>6 DEF IInv

(* Whatever ends sockets.                                                  *)
LEMMA EndingStep ==
    ASSUME IInv,
           \/ \E c \in Calls : ServeLogout(c)
           \/ \E k \in Sockets : RefuseHandshake(k) \/ TimerFires(k) \/ Drop(k)
           \/ Crash
    PROVE  IInv'
  <1>0. TypeOK /\ TokensSigned /\ TimersSet /\ LogoutMissesNone
    BY DEF IInv
  <1>1. call \in [Calls -> [step : CallSteps, session : Signed \cup {Absent}]]
    BY <1>0 DEF TypeOK, TokensSigned
  <1>2. ASSUME NEW c \in Calls, ServeLogout(c)
        PROVE  IInv'
    <2> DEFINE s == call[c].session
    <2>1. /\ UNCHANGED <<now, expiresAt, cookie>>
          /\ call' \in [Calls -> [step : CallSteps, session : Signed \cup {Absent}]]
      BY <1>1, <1>2 DEF ServeLogout, Become, CallSteps
    <2>2. CASE Verified(s)
      <3>1. End(SocketsOf(s), "closed") /\ loggedOut' = loggedOut \cup {s}
        BY <1>2, <2>2 DEF ServeLogout, Disconnect
      <3>2. s \in Sessions /\ SocketsOf(s) \subseteq Sockets
        BY <1>1, <2>2 DEF Verified, Signed, SocketsOf, Open
      <3>3. \A k \in Open \ SocketsOf(s) : socket[k].session # s
        BY DEF SocketsOf, SameSession
      <3> QED
        BY <1>0, <2>1, <3>1, <3>2, <3>3, EndStep DEF TypeOK
    <2>3. CASE ~Verified(s)
      <3>1. UNCHANGED <<socket, timer, late, loggedOut>>
        BY <1>2, <2>3 DEF ServeLogout, UnchangedSockets
      <3> QED
        BY <1>0, <2>1, <3>1 DEF IInv, TypeOK, TokensSigned, TimersSet, LogoutMissesNone, Open, Signed
    <2> QED
      BY <2>2, <2>3
  <1>3. ASSUME NEW k \in Sockets, RefuseHandshake(k) \/ TimerFires(k) \/ Drop(k)
        PROVE  IInv'
    <2>1. UNCHANGED <<now, expiresAt, cookie, call, loggedOut>>
      BY <1>3 DEF RefuseHandshake, TimerFires, Drop, UnchangedCalls, UnchangedSessions
    <2>2. \E state \in {"refused", "closed", "gone"} : End({k}, state)
      BY <1>3 DEF RefuseHandshake, TimerFires, Drop, Disconnect
    <2> QED
      BY <1>0, <1>1, <2>1, <2>2, EndStep DEF TypeOK
  <1>4. ASSUME Crash
        PROVE  IInv'
    <2>1. UNCHANGED <<now, expiresAt, cookie, loggedOut>>
      BY <1>4 DEF Crash, UnchangedSessions
    <2>2. call' \in [Calls -> [step : CallSteps, session : Signed \cup {Absent}]]
      BY <1>1, <1>4 DEF Crash, CallSteps
    <2>3. \E ks \in SUBSET Sockets : End(ks, "gone")
      BY <1>4 DEF Crash
    <2> QED
      BY <1>0, <2>1, <2>2, <2>3, EndStep DEF TypeOK
  <1> QED
    BY <1>2, <1>3, <1>4

(* A handshake, and the connection it leads to.                            *)
LEMMA ConnectStep ==
    ASSUME IInv, NEW k \in Sockets, Connect(k) \/ \E b \in Browsers : Handshake(k, b)
    PROVE  IInv'
  <1>0. TypeOK /\ TokensSigned /\ TimersSet /\ LogoutMissesNone
    BY DEF IInv
  <1>1. CASE \E b \in Browsers : Handshake(k, b)
    <2>1. PICK b \in Browsers : Handshake(k, b)
      BY <1>1
    <2>2. /\ socket[k].state = "none"
          /\ socket' = [socket EXCEPT ![k] = [state |-> "handshake", session |-> cookie[b]]]
          /\ UNCHANGED <<now, expiresAt, cookie, call, timer, loggedOut, late>>
      BY <2>1 DEF Handshake, UnchangedCalls, UnchangedSessions
    <2>3. Open' = Open /\ Signed' = Signed /\ k \notin Open
      BY <1>0, <2>2 DEF Open, Signed, TypeOK
    <2>4. TypeOK'
      BY <1>0, <2>2 DEF TypeOK, SocketStates
    <2>5. TokensSigned' /\ TimersSet' /\ LogoutMissesNone'
      BY <1>0, <2>2, <2>3 DEF TypeOK, TokensSigned, TimersSet, LogoutMissesNone
    <2> QED
      BY <2>4, <2>5 DEF IInv
  <1>2. CASE Connect(k)
    <2>1. PICK s \in Sessions : s = socket[k].session /\ s \in Signed
      BY <1>0, <1>2 DEF Connect, Verified, TokensSigned, Signed
    <2>2. /\ socket[k].state = "handshake"
          /\ socket' = [socket EXCEPT ![k] = [state |-> "open", session |-> s]]
          /\ timer' = [timer EXCEPT ![k] = expiresAt[s]]
          /\ late' = IF s \in loggedOut THEN late \cup {k} ELSE late
          /\ UNCHANGED <<now, expiresAt, cookie, call, loggedOut>>
      BY <1>0, <1>2, <2>1 DEF Connect, Armed, UnchangedCalls, UnchangedSessions, TypeOK
    <2>3. Open' = Open \cup {k} /\ Signed' = Signed
      BY <1>0, <2>2 DEF Open, Signed, TypeOK
    <2>4. TypeOK'
      BY <1>0, <2>2 DEF TypeOK, SocketStates
    <2>5. TokensSigned'
      BY <1>0, <2>1, <2>2, <2>3 DEF TypeOK, TokensSigned
    <2>6. TimersSet' /\ LogoutMissesNone'
      BY <1>0, <2>2, <2>3 DEF TypeOK, TimersSet, LogoutMissesNone
    <2> QED
      BY <2>4, <2>5, <2>6 DEF IInv
  <1> QED
    BY <1>1, <1>2

(* Every step preserves the invariant.                                     *)
LEMMA InvStep ==
    ASSUME IInv, [Next]_vars
    PROVE  IInv'
  <1>0. TypeOK /\ TokensSigned /\ TimersSet /\ LogoutMissesNone
    BY DEF IInv
  <1>1. CASE Tick \/ Finished \/ UNCHANGED vars \/ \E b \in Browsers : DropCookie(b)
    <2>1. /\ UNCHANGED <<expiresAt, call, socket, timer, loggedOut, late>>
          /\ now' \in 0 .. LastInstant
          /\ cookie' = cookie \/ \E b \in Browsers : cookie' = [cookie EXCEPT ![b] = Absent]
      BY <1>0, <1>1 DEF Tick, Finished, vars, DropCookie, UnchangedSockets, UnchangedCalls,
                        UnchangedSessions, TypeOK
    <2>2. TypeOK'
      BY <1>0, <2>1 DEF TypeOK
    <2>3. TokensSigned'
      BY <1>0, <2>1 DEF TypeOK, TokensSigned, Signed, Open
    <2>4. TimersSet' /\ LogoutMissesNone'
      BY <1>0, <2>1 DEF TimersSet, LogoutMissesNone, Open
    <2> QED
      BY <2>2, <2>3, <2>4 DEF IInv
  <1>2. CASE \E c \in Calls : SendLogin(c) \/ SendLogout(c) \/ SignToken(c) \/ RefuseLogin(c)
                 \/ ReceiveToken(c) \/ ReceiveLogout(c) \/ Lose(c)
    BY <1>2, CallStep, SignStep
  <1>3. CASE \E k \in Sockets : Connect(k) \/ \E b \in Browsers : Handshake(k, b)
    BY <1>3, ConnectStep
  <1> QED
    BY <1>1, <1>2, <1>3, EndingStep DEF Next

(* The invariant holds in every reachable state.                           *)
THEOREM Invariance == Spec => []IInv
  <1>1. Init => IInv
    BY DEF Init, IInv, TypeOK, TokensSigned, TimersSet, LogoutMissesNone, Open, CallSteps, SocketStates
  <1>2. IInv /\ [Next]_vars => IInv'
    BY InvStep
  <1> QED
    BY <1>1, <1>2, PTL DEF Spec

(* Every variable keeps its type: no timer is set beyond the clock's end.  *)
THEOREM TypeCorrect == Spec => []TypeOK
  <1>1. IInv => TypeOK
    BY DEF IInv
  <1> QED
    BY <1>1, Invariance, PTL

(* A logout misses no socket that is open, on any number of devices.       *)
THEOREM LogoutCorrect == Spec => []LogoutMissesNone
  <1>1. IInv => LogoutMissesNone
    BY DEF IInv
  <1> QED
    BY <1>1, Invariance, PTL

(* The server closes no socket for the sake of another session, nor one    *)
(* whose token is still good unless its own session logs out.              *)
THEOREM ClosingCorrect == Spec => ClosesOnlyItsOwn
  <1> DEFINE A == \A k \in Open : socket'[k].state = "closed" =>
        \/ \E c \in Calls :
            /\ call[c].step = "logout" /\ call'[c].step = "logoutAnswered"
            /\ call[c].session = socket[k].session
        \/ now >= expiresAt[socket[k].session]
  <1>1. IInv /\ [Next]_vars => [A]_vars
    <2> SUFFICES ASSUME IInv, [Next]_vars, NEW k \in Open, socket'[k].state = "closed"
                 PROVE  \/ \E c \in Calls :
                            /\ call[c].step = "logout" /\ call'[c].step = "logoutAnswered"
                            /\ call[c].session = socket[k].session
                        \/ now >= expiresAt[socket[k].session]
      OBVIOUS
    <2>0. TypeOK /\ TimersSet /\ k \in Sockets /\ socket[k].state = "open" /\ socket' # socket
      BY DEF IInv, Open
    <2>1. ASSUME NEW c \in Calls, ServeLogout(c)
          PROVE  /\ call[c].step = "logout" /\ call'[c].step = "logoutAnswered"
                 /\ call[c].session = socket[k].session
      <3>1. k \in SocketsOf(call[c].session)
        BY <2>0, <2>1 DEF ServeLogout, Disconnect, End, UnchangedSockets
      <3> QED
        BY <2>0, <2>1, <3>1 DEF ServeLogout, Become, SocketsOf, SameSession, TypeOK
    <2>2. ASSUME NEW j \in Sockets, TimerFires(j)
          PROVE  now >= expiresAt[socket[k].session]
      <3>1. k = j
        BY <2>0, <2>2 DEF TimerFires, Disconnect, End
      <3> QED
        BY <2>0, <2>2, <3>1 DEF TimerFires, TimersSet
    <2>3. ASSUME NEW j \in Sockets, RefuseHandshake(j) \/ Drop(j) \/ Connect(j)
                     \/ \E b \in Browsers : Handshake(j, b)
          PROVE  FALSE
      BY <2>0, <2>3 DEF RefuseHandshake, Drop, Connect, Handshake, End, TypeOK
    <2>4. ASSUME Crash
          PROVE  FALSE
      BY <2>0, <2>4 DEF Crash, End
    <2>5. UNCHANGED socket \/ Crash \/ (\E c \in Calls : ServeLogout(c))
              \/ \E j \in Sockets : \/ \E b \in Browsers : Handshake(j, b)
                                    \/ Connect(j) \/ RefuseHandshake(j) \/ TimerFires(j) \/ Drop(j)
      BY DEF Next, vars, SendLogin, SendLogout, SignToken, RefuseLogin, ReceiveToken, ReceiveLogout,
             Lose, DropCookie, Tick, Finished, UnchangedSockets
    <2> QED
      BY <2>0, <2>1, <2>2, <2>3, <2>4, <2>5
  <1> QED
    BY <1>1, Invariance, PTL DEF Spec, ClosesOnlyItsOwn
=============================================================================
