---------------------------- MODULE AdminSessions ----------------------------
(***************************************************************************)
(* The sessions of one administrator on several devices, and the sockets   *)
(* through which they hear of orders.                                      *)
(*                                                                         *)
(* A login signs a token with a fresh session id (jti) and an expiry, and  *)
(* its response puts the token into the browser's cookie.  The server      *)
(* keeps no list of sessions: a token is good until it expires, and all a  *)
(* logout does is to close the sockets of the token's session that are     *)
(* open and to have the cookie cleared.  A socket's handshake carries the  *)
(* cookie of the moment it was sent; the token is verified, the socket     *)
(* joins the room and its timer is set when it arrives, in one turn of the *)
(* event loop.  Requests, responses and handshakes take their time, in any *)
(* order, and may be lost.  AdminGuard verifies the tokens of other calls  *)
(* in the same way and keeps nothing.                                      *)
(***************************************************************************)
EXTENDS Naturals

CONSTANTS
    Browsers,
    Sessions,      \* the session ids there are to issue
    Sockets,       \* the sockets the browsers open, once each
    Calls,         \* the login and logout requests, once each
    Browser,       \* the browser each of them comes from
    Lifetime,      \* ADMIN_JWT_EXPIRES_IN_SECONDS
    LastInstant,   \* bounds the clock, to keep TLC finite
    Faults,        \* which faults occur: "lost", "crash"
    Absent

ASSUME SessionsAssumption ==
    /\ Absent \notin Sessions /\ Absent \notin Nat
    /\ Browser \in [Calls -> Browsers]
    /\ Lifetime \in Nat \ {0} /\ LastInstant \in Nat
    /\ Faults \subseteq {"lost", "crash"}

VARIABLES
    now,
    expiresAt,   \* exp of the tokens signed so far
    cookie,      \* the session whose token each browser holds
    call,        \* each call's step and token, if any
    socket,      \* each socket's state and token
    timer,       \* when each socket's expiryTimer fires
    loggedOut,   \* the sessions a logout has been served for, with
    late         \* the sockets that were opened for such a session

vars == <<now, expiresAt, cookie, call, socket, timer, loggedOut, late>>

CallSteps == {"idle", "login", "logout", "loginAnswered", "logoutAnswered", "ended"}
\* A socket is closed by the server, or gone by itself.
SocketStates == {"none", "handshake", "open", "refused", "closed", "gone"}

Open == {k \in Sockets : socket[k].state = "open"}

\* verifyAdminJwt.
Verified(s) == s # Absent /\ now < expiresAt[s]

\* Mutant: a logout closes all sockets of the administrator.
SameAdmin(s, t) == TRUE

\* data.adminId === adminId && data.sessionId === sessionId
SameSession(s, t) == s = t

\* handleDisconnect clears the timer.
End(ks, state) ==
    /\ socket' = [k \in Sockets |->
          IF k \in ks THEN [state |-> state, session |-> Absent] ELSE socket[k]]
    /\ timer' = [k \in Sockets |-> IF k \in ks THEN Absent ELSE timer[k]]
    /\ late' = late \ ks

\* socket.disconnect(true)
Disconnect(ks) == End(ks, "closed")

UnchangedSockets == UNCHANGED <<socket, timer, late>>
UnchangedCalls == UNCHANGED <<cookie, call>>
UnchangedSessions == UNCHANGED <<expiresAt, loggedOut>>

----------------------------------------------------------------------------
(* Login.                                                                  *)

Become(c, step, s) == call' = [call EXCEPT ![c] = [step |-> step, session |-> s]]

EndCall(c) == Become(c, "ended", Absent)

SendLogin(c) ==
    /\ call[c].step = "idle"
    /\ Become(c, "login", Absent)
    /\ UNCHANGED <<now, cookie>> /\ UnchangedSockets /\ UnchangedSessions

\* randomUUID()
Fresh ==
    LET unused == {s \in Sessions : expiresAt[s] = Absent} IN
    IF unused = {} THEN {} ELSE {CHOOSE s \in unused : TRUE}

\* The password is right: a token is signed.
SignToken(c) ==
    /\ call[c].step = "login"
    /\ now + Lifetime <= LastInstant
    /\ \E s \in Fresh :
        /\ expiresAt' = [expiresAt EXCEPT ![s] = now + Lifetime]
        /\ Become(c, "loginAnswered", s)
    /\ UNCHANGED <<now, cookie, loggedOut>> /\ UnchangedSockets

\* ADMIN_LOGIN_FAILED.
RefuseLogin(c) ==
    /\ call[c].step = "login"
    /\ EndCall(c)
    /\ UNCHANGED <<now, cookie>> /\ UnchangedSockets /\ UnchangedSessions

ReceiveToken(c) ==
    /\ call[c].step = "loginAnswered"
    /\ cookie' = [cookie EXCEPT ![Browser[c]] = call[c].session]
    /\ EndCall(c)
    /\ UNCHANGED now /\ UnchangedSockets /\ UnchangedSessions

\* The cookie's maxAge has passed.
DropCookie(b) ==
    /\ cookie[b] # Absent /\ ~Verified(cookie[b])
    /\ cookie' = [cookie EXCEPT ![b] = Absent]
    /\ UNCHANGED <<now, call>> /\ UnchangedSockets /\ UnchangedSessions

----------------------------------------------------------------------------
(* Logout.                                                                 *)

SendLogout(c) ==
    /\ call[c].step = "idle"
    /\ Become(c, "logout", cookie[Browser[c]])
    /\ UNCHANGED <<now, cookie>> /\ UnchangedSockets /\ UnchangedSessions

\* Mutant: only one socket of the session is closed.
OneOf(s) ==
    LET ks == {k \in Open : SameSession(socket[k].session, s)} IN
    IF ks = {} THEN {} ELSE {CHOOSE k \in ks : TRUE}

\* The sockets disconnectAdmin closes.
SocketsOf(s) == {k \in Open : SameSession(socket[k].session, s)}

\* notifyLogout: admin.logged_out is handled before emit returns.  A token
\* that is no good is ignored; the answer is 204 in any case.
ServeLogout(c) ==
    LET s == call[c].session IN
    /\ call[c].step = "logout"
    /\ Become(c, "logoutAnswered", s)
    /\ IF Verified(s)
       THEN Disconnect(SocketsOf(s)) /\ loggedOut' = loggedOut \cup {s}
       ELSE UnchangedSockets /\ UNCHANGED loggedOut
    /\ UNCHANGED <<now, cookie, expiresAt>>

\* clearCookie, whatever the cookie is by now.
ReceiveLogout(c) ==
    /\ call[c].step = "logoutAnswered"
    /\ cookie' = [cookie EXCEPT ![Browser[c]] = Absent]
    /\ EndCall(c)
    /\ UNCHANGED now /\ UnchangedSockets /\ UnchangedSessions

\* A request or its response is lost.
Lose(c) ==
    /\ "lost" \in Faults
    /\ call[c].step \notin {"idle", "ended"}
    /\ EndCall(c)
    /\ UNCHANGED <<now, cookie>> /\ UnchangedSockets /\ UnchangedSessions

----------------------------------------------------------------------------
(* Sockets.                                                                *)

Handshake(k, b) ==
    /\ socket[k].state = "none"
    /\ socket' = [socket EXCEPT ![k] = [state |-> "handshake", session |-> cookie[b]]]
    /\ UNCHANGED <<now, timer, late>> /\ UnchangedCalls /\ UnchangedSessions

\* Mutants: the timer is forgotten; the expiry is taken for the delay.
NoTimer(k) == timer
LateTimer(k) == [timer EXCEPT ![k] = now + expiresAt[socket[k].session]]

\* setTimeout for the rest of the token's life.
Armed(k) == [timer EXCEPT ![k] = expiresAt[socket[k].session]]

\* The middleware lets it pass, and handleConnection joins it to the room.
Connect(k) ==
    /\ socket[k].state = "handshake"
    /\ Verified(socket[k].session)
    /\ socket' = [socket EXCEPT ![k] = [state |-> "open", session |-> socket[k].session]]
    /\ timer' = Armed(k)
    /\ late' = IF socket[k].session \in loggedOut THEN late \cup {k} ELSE late
    /\ UNCHANGED now /\ UnchangedCalls /\ UnchangedSessions

\* ADMIN_UNAUTHORIZED.
RefuseHandshake(k) ==
    /\ socket[k].state = "handshake"
    /\ ~Verified(socket[k].session)
    /\ End({k}, "refused")
    /\ UNCHANGED now /\ UnchangedCalls /\ UnchangedSessions

TimerFires(k) ==
    /\ timer[k] # Absent /\ now >= timer[k]
    /\ Disconnect({k})
    /\ UNCHANGED now /\ UnchangedCalls /\ UnchangedSessions

\* The browser goes away, or its connection does.
Drop(k) ==
    /\ socket[k].state \in {"handshake", "open"}
    /\ End({k}, "gone")
    /\ UNCHANGED now /\ UnchangedCalls /\ UnchangedSessions

----------------------------------------------------------------------------

\* The process dies, and its sockets, timers and calls with it; tokens are
\* as good as before when it is back.
Crash ==
    /\ "crash" \in Faults
    /\ End({k \in Sockets : socket[k].state \in {"handshake", "open"}}, "gone")
    /\ call' = [c \in Calls |->
          IF call[c].step \in {"login", "logout"}
          THEN [step |-> "ended", session |-> Absent] ELSE call[c]]
    /\ UNCHANGED <<now, cookie>> /\ UnchangedSessions

Tick ==
    /\ now < LastInstant
    /\ now' = now + 1
    /\ UnchangedSockets /\ UnchangedCalls /\ UnchangedSessions

\* Nothing is under way; only then may it stop.
Finished ==
    /\ now = LastInstant /\ Open = {}
    /\ UNCHANGED vars

Init ==
    /\ now = 0
    /\ expiresAt = [s \in Sessions |-> Absent]
    /\ cookie = [b \in Browsers |-> Absent]
    /\ call = [c \in Calls |-> [step |-> "idle", session |-> Absent]]
    /\ socket = [k \in Sockets |-> [state |-> "none", session |-> Absent]]
    /\ timer = [k \in Sockets |-> Absent]
    /\ loggedOut = {} /\ late = {}

Next ==
    \/ \E c \in Calls :
        \/ SendLogin(c) \/ SendLogout(c)
        \/ SignToken(c) \/ RefuseLogin(c) \/ ReceiveToken(c)
        \/ ServeLogout(c) \/ ReceiveLogout(c)
        \/ Lose(c)
    \/ \E k \in Sockets :
        \/ \E b \in Browsers : Handshake(k, b)
        \/ Connect(k) \/ RefuseHandshake(k) \/ TimerFires(k) \/ Drop(k)
    \/ \E b \in Browsers : DropCookie(b)
    \/ Crash
    \/ Tick
    \/ Finished

Spec == Init /\ [][Next]_vars

\* Time passes, and the event loop runs timers that are due.
FairSpec == Spec /\ WF_vars(Tick) /\ \A k \in Sockets : WF_vars(TimerFires(k))

----------------------------------------------------------------------------
(* Properties.                                                             *)

TypeOK ==
    /\ now \in 0 .. LastInstant
    /\ expiresAt \in [Sessions -> 0 .. LastInstant \cup {Absent}]
    /\ cookie \in [Browsers -> Sessions \cup {Absent}]
    /\ call \in [Calls -> [step : CallSteps, session : Sessions \cup {Absent}]]
    /\ socket \in [Sockets -> [state : SocketStates, session : Sessions \cup {Absent}]]
    /\ timer \in [Sockets -> 0 .. LastInstant \cup {Absent}]
    /\ loggedOut \subseteq Sessions /\ late \subseteq Sockets

(* docs/backend/003 10: a logout does not concern other devices.  The      *)
(* server itself closes a socket only in a logout that carries the token   *)
(* of the socket's own session, whatever the browser's cookie is by then,  *)
(* or when its token has expired: not sooner, and not for another one.     *)
ClosesOnlyItsOwn ==
    [][\A k \in Open : socket'[k].state = "closed" =>
        \/ \E c \in Calls :
            /\ call[c].step = "logout" /\ call'[c].step = "logoutAnswered"
            /\ call[c].session = socket[k].session
        \/ now >= expiresAt[socket[k].session]]_vars

(* A logout misses no socket of its session: those that are open later     *)
(* come from a handshake that was under way, or from a browser that has    *)
(* not had the answer.                                                     *)
LogoutMissesNone ==
    \A k \in Open : socket[k].session \in loggedOut => k \in late

(* A token that has expired has no open socket in the end, and gets none:  *)
(* not one that a logout missed, nor one whose browser is logged in anew   *)
(* and cannot log it out any more.                                         *)
SessionsEnd ==
    \A s \in Sessions :
        [](expiresAt[s] # Absent => <>[](\A k \in Open : socket[k].session # s))
----------------------------------------------------------------------------
(* What makes ClosesOnlyItsOwn and LogoutMissesNone inductive.             *)

Signed == {s \in Sessions : expiresAt[s] # Absent}

\* Whatever a browser, a request or a socket carries, the server has signed.
TokensSigned ==
    /\ \A b \in Browsers : cookie[b] \in Signed \cup {Absent}
    /\ \A c \in Calls : call[c].session \in Signed \cup {Absent}
    /\ \A k \in Sockets : socket[k].session \in Signed \cup {Absent}
    /\ \A k \in Open : socket[k].session \in Signed

\* A timer is set as long as its socket is open, for the expiry of its token.
TimersSet ==
    \A k \in Sockets :
        timer[k] = IF k \in Open THEN expiresAt[socket[k].session] ELSE Absent

IInv == TypeOK /\ TokensSigned /\ TimersSet /\ LogoutMissesNone
=============================================================================
