------------------------------- MODULE Relay -------------------------------
(***************************************************************************)
(* The relay: connections (websocket/index.ts), the session store          *)
(* (session/store.ts), the handle mailboxes (session/handles.ts, module    *)
(* HandleStore) and the request handlers and timers that tie them together *)
(* (handlers/messages.ts).                                                 *)
(*                                                                         *)
(* Node runs one callback at a time, so a step is one whole callback: a    *)
(* frame handled, a socket event, a setTimeout or setInterval that fires,  *)
(* or the clock moving.  What interleaves is the callbacks: a socket dies  *)
(* some time before its close event is delivered, and a timer may fire any *)
(* time after it is due.                                                   *)
(***************************************************************************)
EXTENDS HandleStore, Integers

CONSTANTS
    SESSION_TTL,                    \* life of a session from its creation
    RECONNECT_GRACE,                \* how long an emptied session is kept
    JOIN_RETRY,                     \* delay of the second try of a full join
    MAX_RELAY_SESSIONS,
    MAX_RELAY_CONNECTIONS,
    PREMIUM_MAX_CONCURRENT_CHATS,   \* rung sessions per claim
    MaxTime,                        \* bound: the clock stops here
    MaxJoinRetries                  \* bound: join retries armed at once

ASSUME TimeAssumption ==
    /\ SESSION_TTL \in Nat \ {0}
    /\ RECONNECT_GRACE \in Nat \ {0}
    /\ JOIN_RETRY \in Nat \ {0}
    /\ MaxTime \in Nat
    /\ MaxJoinRetries \in Nat

ASSUME LimitAssumption ==
    /\ MAX_RELAY_SESSIONS \in Nat
    /\ MAX_RELAY_CONNECTIONS \in Nat
    /\ PREMIUM_MAX_CONCURRENT_CHATS \in Nat

VARIABLES
    now,                \* Date.now()
    \* Connections.
    conn,               \* state of each WebSocket object
    connectionCounter,  \* connectionCounter.current
    \* The session store; a session that is not live has no other state.
    live,               \* keys of the sessions map
    participants,       \* session -> sockets seated in it
    expiresAt,          \* session -> end of its life
    \* Timers.
    pendingDestroy,     \* session -> due time of the timer in the map
    graceTimers,        \* armed setTimeout of scheduleDestroyIfEmpty
    joinRetries,        \* armed setTimeout of handleJoinSession
    \* What the relay wrote to sockets in the last step.
    out

connVars    == <<conn, connectionCounter>>
sessionVars == <<live, participants, expiresAt>>
timerVars   == <<pendingDestroy, graceTimers>>
storeVars   == <<connVars, sessionVars, timerVars, joinRetries, handleVars>>
vars        == <<now, storeVars, out>>

NoTimer == -1

(***************************************************************************)
(* A WebSocket is                                                          *)
(*   closed    not connected; its close event has been delivered           *)
(*   open      readyState OPEN                                             *)
(*   shutting  the relay called close(): CLOSING, frames still delivered   *)
(*   closing   the peer is gone: CLOSING, nothing more is delivered, the   *)
(*             close event is still to come                                *)
(*   failed    its error event was delivered, the close event is to come   *)
(***************************************************************************)
ConnState == {"closed", "open", "shutting", "closing", "failed"}

\* An ERROR frame is named by its code.
FrameType ==
    {"SESSION_CREATED", "PARTNER_JOINED", "PARTNER_LEFT", "SESSION_EXPIRED",
     "MESSAGE", "HANDLE_CLAIMED", "RING_READY", "INCOMING_RING",
     "ERR_SESSION_EXPIRED", "SESSION_EXISTS", "SESSION_FULL",
     "SESSION_NOT_FOUND", "ALREADY_IN_SESSION", "NOT_IN_SESSION",
     "HANDLE_TAKEN", "HANDLE_FORBIDDEN", "HANDLE_UNAVAILABLE", "HANDLE_BUSY",
     "SERVER_BUSY", "RATE_LIMITED"}

Frame      == [to : Sockets, type : FrameType]
GraceTimer == [sid : SessionIds, at : Nat]
JoinTimer  == [socket : Sockets, sid : SessionIds, at : Nat]

ConnTypeOK ==
    /\ conn \in [Sockets -> ConnState]
    /\ connectionCounter \in Nat

SessionTypeOK ==
    /\ live \subseteq SessionIds
    /\ participants \in [SessionIds -> SUBSET Sockets]
    /\ expiresAt \in [SessionIds -> Nat]

TimerTypeOK ==
    /\ pendingDestroy \in [SessionIds -> Nat \cup {NoTimer}]
    /\ graceTimers \subseteq GraceTimer

TypeOK ==
    /\ now \in 0..MaxTime
    /\ ConnTypeOK
    /\ SessionTypeOK
    /\ TimerTypeOK
    /\ joinRetries \subseteq JoinTimer
    /\ HandleTypeOK
    /\ out \subseteq Frame

Init ==
    /\ now = 0
    /\ conn = [w \in Sockets |-> "closed"]
    /\ connectionCounter = 0
    /\ live = {}
    /\ participants = [s \in SessionIds |-> {}]
    /\ expiresAt = [s \in SessionIds |-> 0]
    /\ pendingDestroy = [s \in SessionIds |-> NoTimer]
    /\ graceTimers = {}
    /\ joinRetries = {}
    /\ HandleInit
    /\ out = {}

----------------------------------------------------------------------------
(* Helpers of the handlers.                                                *)

\* sendToSocket and broadcast: a frame for a socket that is not open is lost.
Send(ws, t) == {[to |-> w, type |-> t] : w \in {v \in ws : conn[v] = "open"}}

Hears(w) == conn[w] \in {"open", "shutting"}

\* Mutant of IsExpired: one instant late.
IsExpiredLate(s) == now > expiresAt[s]

IsExpired(s) == now >= expiresAt[s]
Seated(w) == \E s \in live : w \in participants[s]

\* Mutant of Busy: a mailbox may ring, create and join.
BusySeatedOnly(w) == Seated(w)

Busy(w) == Seated(w) \/ bySocket[w] # NoHandle

\* The handler answers w with an error and changes nothing.
Refuse(w, code) == out' = Send({w}, code) /\ UNCHANGED storeVars

\* The timers clearTimeout stops when pendingDestroy loses the entries of S.
Cleared(S) == {[sid |-> s, at |-> pendingDestroy[s]] : s \in S}

\* Mutant of CancelPendingDestroy: the map entry goes, the timer keeps running.
CancelKeepsTimer(S) ==
    /\ pendingDestroy' = [s \in SessionIds |->
           IF s \in S THEN NoTimer ELSE pendingDestroy[s]]
    /\ UNCHANGED graceTimers

CancelPendingDestroy(S) ==
    /\ graceTimers' = graceTimers \ Cleared(S)
    /\ pendingDestroy' = [s \in SessionIds |->
           IF s \in S THEN NoTimer ELSE pendingDestroy[s]]

ScheduleDestroyIfEmpty(s) ==
    /\ graceTimers' = (graceTimers \ Cleared({s}))
                          \cup {[sid |-> s, at |-> now + RECONNECT_GRACE]}
    /\ pendingDestroy' = [pendingDestroy EXCEPT ![s] = now + RECONNECT_GRACE]

\* store.destroy for each session of S.
Destroy(S) ==
    /\ live' = live \ S
    /\ participants' = [s \in SessionIds |-> IF s \in S THEN {} ELSE participants[s]]
    /\ expiresAt' = [s \in SessionIds |-> IF s \in S THEN 0 ELSE expiresAt[s]]

SeatedIn(S) == UNION {participants[s] : s \in S}

\* expireSession for each session of S, but for the frames it sends, which
\* are ExpiryFrames(S): they leave before the sockets are closed.
ExpireSessions(S) ==
    /\ CancelPendingDestroy(S)
    /\ Destroy(S)
    /\ DropInbound(S)
    /\ conn' = [w \in Sockets |->
           IF w \in SeatedIn(S) /\ conn[w] = "open" THEN "shutting" ELSE conn[w]]
    /\ UNCHANGED connectionCounter

ExpiryFrames(S) == Send(SeatedIn(S), "SESSION_EXPIRED")

\* Mutant of Create: the lifetime is subtracted.
CreateBackdated(w, s) ==
    /\ live' = live \cup {s}
    /\ participants' = [participants EXCEPT ![s] = {w}]
    /\ expiresAt' = [expiresAt EXCEPT ![s] = now - SESSION_TTL]

\* store.create: the session starts with w alone in it.
Create(w, s) ==
    /\ live' = live \cup {s}
    /\ participants' = [participants EXCEPT ![s] = {w}]
    /\ expiresAt' = [expiresAt EXCEPT ![s] = now + SESSION_TTL]

\* Bound: no session is created that would outlive the clock.
CreationInTime == now + SESSION_TTL <= MaxTime

----------------------------------------------------------------------------
(* Connections.                                                            *)

\* A socket object is reused for a new connection only when nothing in the
\* relay refers to the old one.
Unreferenced(w) == /\ ~Seated(w)
                   /\ \A r \in joinRetries : r.socket # w

Connect(w) ==
    /\ conn[w] = "closed" /\ Unreferenced(w)
    /\ \/ /\ connectionCounter < MAX_RELAY_CONNECTIONS
          /\ conn' = [conn EXCEPT ![w] = "open"]
          /\ connectionCounter' = connectionCounter + 1
          /\ out' = {}
       \/ \* turned away: written to, closed, never given a handler
          /\ connectionCounter >= MAX_RELAY_CONNECTIONS
          /\ out' = {[to |-> w, type |-> "SERVER_BUSY"]}
          /\ UNCHANGED connVars
    /\ UNCHANGED <<now, sessionVars, timerVars, joinRetries, handleVars>>

\* The client closes, or its TCP connection is reset.
PeerCloses(w) ==
    /\ Hears(w)
    /\ conn' = [conn EXCEPT ![w] = "closing"]
    /\ out' = {}
    /\ UNCHANGED <<now, connectionCounter, sessionVars, timerVars, joinRetries,
                   handleVars>>

\* handleLeave: the last one out arms the grace timer.
HandleLeave(w) ==
    \/ /\ ~Seated(w)
       /\ out' = {}
       /\ UNCHANGED <<sessionVars, timerVars>>
    \/ \E s \in live :
          /\ w \in participants[s]
          /\ participants' = [participants EXCEPT ![s] = @ \ {w}]
          /\ UNCHANGED <<live, expiresAt>>
          /\ \/ /\ participants[s] # {w}
                /\ out' = Send(participants[s] \ {w}, "PARTNER_LEFT")
                /\ UNCHANGED timerVars
             \/ /\ participants[s] = {w}
                /\ out' = {}
                /\ ScheduleDestroyIfEmpty(s)

\* onEnd, the first time it runs for a socket.
OnEnd(w) ==
    /\ connectionCounter' = IF connectionCounter > 0 THEN connectionCounter - 1 ELSE 0
    /\ ReleaseBySocket(w)
    /\ HandleLeave(w)
    /\ UNCHANGED <<now, joinRetries>>

\* A protocol or TCP error: ws moves to CLOSING and emits error before close.
ErrorEvent(w) ==
    /\ Hears(w)
    /\ conn' = [conn EXCEPT ![w] = "failed"]
    /\ OnEnd(w)

\* Mutant of CloseEvent: no "closed" flag, an error's close is an end again.
CloseEventCountsAgain(w) ==
    /\ conn[w] \in {"shutting", "closing", "failed"}
    /\ conn' = [conn EXCEPT ![w] = "closed"]
    /\ OnEnd(w)

\* The close event; its handler is spent when the error event came first.
CloseEvent(w) ==
    /\ conn[w] \in {"shutting", "closing", "failed"}
    /\ conn' = [conn EXCEPT ![w] = "closed"]
    /\ \/ conn[w] # "failed" /\ OnEnd(w)
       \/ /\ conn[w] = "failed"
          /\ out' = {}
          /\ UNCHANGED <<now, connectionCounter, sessionVars, timerVars,
                         joinRetries, handleVars>>

----------------------------------------------------------------------------
(* Requests of the clients.                                                *)

\* allowAction or canCreateSessionFromIP says no (module RateLimits).
RateLimited(w) ==
    /\ Hears(w)
    /\ Refuse(w, "RATE_LIMITED")
    /\ UNCHANGED now

\* CREATE_SESSION of an id whose session stands empty: the reconnect grace.
ReclaimEmpty(w, s) ==
    /\ s \in live /\ participants[s] = {}
    /\ \/ /\ IsExpired(s)
          /\ out' = ExpiryFrames({s}) \cup Send({w}, "ERR_SESSION_EXPIRED")
          /\ ExpireSessions({s})
       \/ /\ ~IsExpired(s)
          /\ CancelPendingDestroy({s})
          /\ participants' = [participants EXCEPT ![s] = {w}]
          /\ out' = Send({w}, "SESSION_CREATED")
          /\ UNCHANGED <<live, expiresAt, connVars, handleVars>>
    /\ UNCHANGED joinRetries

CreateSession(w, s) ==
    /\ Hears(w)
    /\ \/ Busy(w) /\ Refuse(w, "ALREADY_IN_SESSION")
       \/ /\ ~Busy(w)
          /\ \/ ReclaimEmpty(w, s)
             \/ /\ s \in live /\ participants[s] # {}
                /\ Refuse(w, "SESSION_EXISTS")
             \/ /\ s \notin live
                /\ Cardinality(live) >= MAX_RELAY_SESSIONS
                /\ Refuse(w, "SERVER_BUSY")
             \/ /\ s \notin live
                /\ Cardinality(live) < MAX_RELAY_SESSIONS
                /\ CreationInTime
                /\ Create(w, s)
                /\ out' = Send({w}, "SESSION_CREATED")
                /\ UNCHANGED <<connVars, timerVars, joinRetries, handleVars>>
    /\ UNCHANGED now

\* Mutant of Alive: the dead are not pruned.
AliveUnpruned(s) == participants[s]

\* pruneDeadParticipants: who is left of the session.
Alive(s) == {p \in participants[s] : conn[p] = "open"}

\* Mutant of Full: room for a third.
FullAtThree(s) == Cardinality(Alive(s)) > 2

Full(s) == Cardinality(Alive(s)) >= 2

\* tryJoinSession: prune, cancel the grace timer, and seat w if there is room.
TryJoin(w, s) ==
    /\ CancelPendingDestroy({s})
    /\ participants' = [participants EXCEPT ![s] =
           IF Full(s) THEN Alive(s) ELSE Alive(s) \cup {w}]
    /\ UNCHANGED <<live, expiresAt, connVars, handleVars>>

\* Mutant of JoinFrames: only the newcomer hears of the meeting.
JoinFramesToNewcomer(w, s) ==
    Send({w}, IF Alive(s) = {} THEN "SESSION_CREATED" ELSE "PARTNER_JOINED")

JoinFrames(w, s) == IF Alive(s) = {} THEN Send({w}, "SESSION_CREATED")
                    ELSE Send(Alive(s) \cup {w}, "PARTNER_JOINED")

\* What both tries of a join do with a missing or an expired session.
JoinGone(w, s) ==
    \/ s \notin live /\ out' = Send({w}, "SESSION_NOT_FOUND")
                     /\ UNCHANGED <<connVars, sessionVars, timerVars, handleVars>>
    \/ /\ s \in live /\ IsExpired(s)
       /\ out' = ExpiryFrames({s}) \cup Send({w}, "ERR_SESSION_EXPIRED")
       /\ ExpireSessions({s})

JoinSession(w, s) ==
    /\ Hears(w)
    /\ \/ Busy(w) /\ Refuse(w, "ALREADY_IN_SESSION")
       \/ /\ ~Busy(w)
          /\ \/ JoinGone(w, s) /\ UNCHANGED joinRetries
             \/ /\ s \in live /\ ~IsExpired(s) /\ ~Full(s)
                /\ TryJoin(w, s)
                /\ out' = JoinFrames(w, s)
                /\ UNCHANGED joinRetries
             \/ /\ s \in live /\ ~IsExpired(s) /\ Full(s)
                /\ Cardinality(joinRetries) < MaxJoinRetries
                /\ TryJoin(w, s)
                /\ joinRetries' = joinRetries \cup
                       {[socket |-> w, sid |-> s, at |-> now + JOIN_RETRY]}
                /\ out' = {}
    /\ UNCHANGED now

\* The timer of a full join: it asks whether the socket has found a seat or
\* a handle meanwhile, never whether it is still connected.
JoinRetryFires(r) ==
    /\ now >= r.at
    /\ joinRetries' = joinRetries \ {r}
    /\ \/ /\ Busy(r.socket)
          /\ out' = {}
          /\ UNCHANGED <<connVars, sessionVars, timerVars, handleVars>>
       \/ /\ ~Busy(r.socket)
          /\ \/ JoinGone(r.socket, r.sid)
             \/ /\ r.sid \in live /\ ~IsExpired(r.sid)
                /\ TryJoin(r.socket, r.sid)
                /\ out' = IF Full(r.sid) THEN Send({r.socket}, "SESSION_FULL")
                          ELSE JoinFrames(r.socket, r.sid)
    /\ UNCHANGED now

SendMessage(w) ==
    /\ Hears(w)
    /\ \/ ~Seated(w) /\ Refuse(w, "NOT_IN_SESSION")
       \/ \E s \in live :
             /\ w \in participants[s]
             /\ \/ /\ IsExpired(s)
                   /\ out' = ExpiryFrames({s})
                   /\ ExpireSessions({s})
                \/ /\ ~IsExpired(s)
                   /\ out' = Send(participants[s] \ {w}, "MESSAGE")
                   /\ UNCHANGED <<connVars, sessionVars, timerVars, handleVars>>
             /\ UNCHANGED joinRetries
    /\ UNCHANGED now

LeaveSession(w) ==
    /\ Hears(w)
    /\ HandleLeave(w)
    /\ UNCHANGED <<now, connVars, joinRetries, handleVars>>

\* CLAIM_HANDLE; "authorised" is the verdict of the lease proof, or of the
\* allow list and the claim secret for a name without a lease.
ClaimHandle(w, h, authorised) ==
    /\ Hears(w)
    /\ \/ Seated(w) /\ Refuse(w, "ALREADY_IN_SESSION")
       \/ ~Seated(w) /\ ~authorised /\ Refuse(w, "HANDLE_FORBIDDEN")
       \/ ~Seated(w) /\ authorised /\ Taken(h, w) /\ Refuse(w, "HANDLE_TAKEN")
       \/ /\ ~Seated(w) /\ authorised /\ ~Taken(h, w)
          /\ Claim(h, w)
          /\ out' = Send({w}, "HANDLE_CLAIMED")
          /\ UNCHANGED <<connVars, sessionVars, timerVars, joinRetries>>
    /\ UNCHANGED now

UnclaimHandle(w) ==
    /\ Hears(w)
    /\ ReleaseBySocket(w)
    /\ out' = {}
    /\ UNCHANGED <<now, connVars, sessionVars, timerVars, joinRetries>>

\* crypto.randomUUID() never returns an id that is, or was recently, in use.
FreshId(s) ==
    /\ s \notin live
    /\ \A r \in joinRetries : r.sid # s
    /\ \A t \in graceTimers : t.sid # s

RingHandle(w, h, s) ==
    /\ Hears(w)
    /\ \/ Busy(w) /\ Refuse(w, "ALREADY_IN_SESSION")
       \/ /\ ~Busy(w) /\ byHandle[h] = NoSocket
          /\ Refuse(w, "HANDLE_UNAVAILABLE")
       \/ /\ ~Busy(w) /\ byHandle[h] # NoSocket
          /\ InboundCount(h) >= PREMIUM_MAX_CONCURRENT_CHATS
          /\ Refuse(w, "HANDLE_BUSY")
       \/ /\ ~Busy(w) /\ byHandle[h] # NoSocket
          /\ InboundCount(h) < PREMIUM_MAX_CONCURRENT_CHATS
          /\ \/ /\ Cardinality(live) >= MAX_RELAY_SESSIONS
                /\ Refuse(w, "SERVER_BUSY")
             \/ /\ Cardinality(live) < MAX_RELAY_SESSIONS
                /\ CreationInTime /\ FreshId(s)
                /\ Create(w, s)
                /\ AddInbound(h, s)
                /\ out' = Send({w}, "RING_READY")
                              \cup Send({byHandle[h]}, "INCOMING_RING")
                /\ UNCHANGED <<connVars, timerVars, joinRetries>>
    /\ UNCHANGED now

----------------------------------------------------------------------------
(* Timers and the clock.                                                   *)

\* The timer's closure drops the map entry of its session, whichever timer
\* put it there, and destroys the session if it is still empty.
GraceTimerFires(t) ==
    /\ now >= t.at
    /\ graceTimers' = graceTimers \ {t}
    /\ pendingDestroy' = [pendingDestroy EXCEPT ![t.sid] = NoTimer]
    /\ \/ /\ t.sid \in live /\ participants[t.sid] = {}
          /\ Destroy({t.sid})
          /\ DropInbound({t.sid})
       \/ /\ ~(t.sid \in live /\ participants[t.sid] = {})
          /\ UNCHANGED <<sessionVars, handleVars>>
    /\ out' = {}
    /\ UNCHANGED <<now, connVars, joinRetries>>

\* Mutant of Expired: the sweeper passes over sessions someone sits in.
ExpiredEmptyOnly == {s \in live : IsExpired(s) /\ participants[s] = {}}

Expired == {s \in live : IsExpired(s)}

\* sweepExpiredSessions, run by setInterval.
Sweep ==
    /\ Expired # {}
    /\ out' = ExpiryFrames(Expired)
    /\ ExpireSessions(Expired)
    /\ UNCHANGED <<now, joinRetries>>

Tick ==
    /\ now < MaxTime
    /\ now' = now + 1
    /\ out' = {}
    /\ UNCHANGED storeVars

----------------------------------------------------------------------------

Request ==
    \E w \in Sockets :
        \/ RateLimited(w) \/ SendMessage(w) \/ LeaveSession(w) \/ UnclaimHandle(w)
        \/ \E s \in SessionIds : CreateSession(w, s) \/ JoinSession(w, s)
        \/ \E h \in Handles, authorised \in BOOLEAN : ClaimHandle(w, h, authorised)
        \/ \E h \in Handles, s \in SessionIds : RingHandle(w, h, s)

Connection ==
    \E w \in Sockets : Connect(w) \/ PeerCloses(w) \/ ErrorEvent(w) \/ CloseEvent(w)

Timer ==
    \/ \E t \in graceTimers : GraceTimerFires(t)
    \/ \E r \in joinRetries : JoinRetryFires(r)
    \/ Sweep

Next == Request \/ Connection \/ Timer \/ Tick

Spec == Init /\ [][Next]_vars

(***************************************************************************)
(* The event loop keeps running: the clock advances, a due timer fires in  *)
(* the end, the sweeper's interval comes round, and ws delivers the close  *)
(* event of a socket that is closing (it times the handshake out itself).  *)
(* Nothing is asked of the clients.                                        *)
(***************************************************************************)
Fairness ==
    /\ WF_vars(Tick)
    /\ WF_vars(Sweep)
    /\ WF_vars(\E t \in graceTimers : GraceTimerFires(t))
    /\ WF_vars(\E r \in joinRetries : JoinRetryFires(r))
    /\ \A w \in Sockets : WF_vars(CloseEvent(w))

FairSpec == Spec /\ Fairness
============================================================================
