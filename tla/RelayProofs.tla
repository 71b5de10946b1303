---------------------------- MODULE RelayProofs ----------------------------
(***************************************************************************)
(* Proofs about the relay, for every set of sockets, sessions and handles, *)
(* every limit and every setting of the times: its types; who holds what,  *)
(* seats against handles and the tables of the handle store against each   *)
(* other and against the session store; the grace timers and the two seats *)
(* of a session and the documented life cycle they follow; and what the    *)
(* relay tells its clients: no frame comes late, no refusal is a lie, and  *)
(* whoever sits in a session knows whether it sits there alone.            *)
(***************************************************************************)
EXTENDS RelayViews, FiniteSetTheorems, TLAPS

----------------------------------------------------------------------------
(* What the helpers of the handlers return.                                *)

(* Frames are well formed, whoever they are meant for.                     *)
LEMMA SendTyped ==
    ASSUME NEW ws \in SUBSET Sockets, NEW t \in FrameType
    PROVE  Send(ws, t) \subseteq Frame
BY DEF Send, Frame

LEMMA SendOneTyped ==
    ASSUME NEW w \in Sockets, NEW t \in FrameType
    PROVE  Send({w}, t) \subseteq Frame
BY DEF Send, Frame

LEMMA SeatedInTyped ==
    ASSUME SessionTypeOK, NEW S \in SUBSET SessionIds
    PROVE  SeatedIn(S) \subseteq Sockets
BY DEF SessionTypeOK, SeatedIn

LEMMA ExpiryFramesTyped ==
    ASSUME SessionTypeOK, NEW S \in SUBSET SessionIds
    PROVE  ExpiryFrames(S) \subseteq Frame
BY SeatedInTyped, SendTyped, "SESSION_EXPIRED" \in FrameType
   DEF ExpiryFrames, FrameType

(* Every operation of the handle store keeps its tables well typed.        *)
LEMMA ReleaseTyped ==
    ASSUME HandleTypeOK, NEW h \in Handles, Release(h)
    PROVE  HandleTypeOK'
BY DEF HandleTypeOK, Release

LEMMA ReleaseBySocketTyped ==
    ASSUME HandleTypeOK, NEW w \in Sockets, ReleaseBySocket(w)
    PROVE  HandleTypeOK'
<1>1. CASE bySocket[w] = NoHandle /\ UNCHANGED handleVars
    BY <1>1 DEF HandleTypeOK, handleVars
<1>2. CASE bySocket[w] # NoHandle /\ Release(bySocket[w])
    BY <1>2, ReleaseTyped, bySocket[w] \in Handles DEF HandleTypeOK
<1> QED BY <1>1, <1>2 DEF ReleaseBySocket

LEMMA ClaimTyped ==
    ASSUME HandleTypeOK, NEW h \in Handles, NEW w \in Sockets, Claim(h, w)
    PROVE  HandleTypeOK'
<1>1. CASE byHandle[h] = w
    BY <1>1 DEF HandleTypeOK, Claim, handleVars
<1>2. CASE byHandle[h] # w
    <2>1. byHandle' \in [Handles -> Sockets \cup {NoSocket}]
        BY <1>2 DEF HandleTypeOK, Claim
    <2>2. inboundSessionIds' \in [Handles -> SUBSET SessionIds]
        BY <1>2 DEF HandleTypeOK, Claim
    <2>3. bySocket' \in [Sockets -> Handles \cup {NoHandle}]
        BY <1>2 DEF HandleTypeOK, Claim
    <2>4. sessionToHandle' \in [SessionIds -> Handles \cup {NoHandle}]
        BY <1>2 DEF HandleTypeOK, Claim
    <2> QED BY <2>1, <2>2, <2>3, <2>4 DEF HandleTypeOK
<1> QED BY <1>1, <1>2

LEMMA AddInboundTyped ==
    ASSUME HandleTypeOK, NEW h \in Handles, NEW s \in SessionIds, AddInbound(h, s)
    PROVE  HandleTypeOK'
BY DEF HandleTypeOK, AddInbound

LEMMA DropInboundTyped ==
    ASSUME HandleTypeOK, NEW S, DropInbound(S)
    PROVE  HandleTypeOK'
BY DEF HandleTypeOK, DropInbound

(* What an operation does not touch stays well typed.                      *)
LEMMA UnchangedTyped ==
    ASSUME TypeOK
    PROVE  /\ UNCHANGED connVars => ConnTypeOK'
           /\ UNCHANGED sessionVars => SessionTypeOK'
           /\ UNCHANGED timerVars => TimerTypeOK'
           /\ UNCHANGED handleVars => HandleTypeOK'
           /\ UNCHANGED joinRetries => (joinRetries \subseteq JoinTimer)'
           /\ UNCHANGED now => (now \in 0..MaxTime)'
<1>1. UNCHANGED connVars => ConnTypeOK'
    BY DEF TypeOK, ConnTypeOK, connVars
<1>2. UNCHANGED sessionVars => SessionTypeOK'
    BY DEF TypeOK, SessionTypeOK, sessionVars
<1>3. UNCHANGED timerVars => TimerTypeOK'
    BY DEF TypeOK, TimerTypeOK, timerVars
<1>4. UNCHANGED handleVars => HandleTypeOK'
    BY DEF TypeOK, HandleTypeOK, handleVars
<1>5. UNCHANGED joinRetries => (joinRetries \subseteq JoinTimer)'
    BY DEF TypeOK
<1>6. UNCHANGED now => (now \in 0..MaxTime)'
    BY DEF TypeOK
<1> QED BY <1>1, <1>2, <1>3, <1>4, <1>5, <1>6

(* The clock shows a natural number.                                       *)
LEMMA NowIsNat ==
    ASSUME TypeOK
    PROVE  now \in Nat
BY TimeAssumption DEF TypeOK

(* The operations on sessions and timers keep them well typed.             *)
LEMMA CancelTyped ==
    ASSUME TimerTypeOK, NEW S, CancelPendingDestroy(S)
    PROVE  TimerTypeOK'
BY DEF TimerTypeOK, CancelPendingDestroy

LEMMA ScheduleTyped ==
    ASSUME TypeOK, NEW s \in SessionIds, ScheduleDestroyIfEmpty(s)
    PROVE  TimerTypeOK'
<1>1. now + RECONNECT_GRACE \in Nat
    BY NowIsNat, TimeAssumption
<1> QED BY <1>1 DEF TypeOK, TimerTypeOK, ScheduleDestroyIfEmpty, GraceTimer

LEMMA DestroyTyped ==
    ASSUME SessionTypeOK, NEW S, Destroy(S)
    PROVE  SessionTypeOK'
BY DEF SessionTypeOK, Destroy

LEMMA CreateTyped ==
    ASSUME TypeOK, NEW w \in Sockets, NEW s \in SessionIds, Create(w, s)
    PROVE  SessionTypeOK'
<1>1. now + SESSION_TTL \in Nat
    BY NowIsNat, TimeAssumption
<1> QED BY <1>1 DEF TypeOK, SessionTypeOK, Create

LEMMA ExpireTyped ==
    ASSUME TypeOK, NEW S, ExpireSessions(S)
    PROVE  ConnTypeOK' /\ SessionTypeOK' /\ TimerTypeOK' /\ HandleTypeOK'
<1>1. ConnTypeOK'
    BY DEF TypeOK, ConnTypeOK, ExpireSessions, ConnState
<1>2. SessionTypeOK'
    BY DestroyTyped DEF TypeOK, ExpireSessions
<1>3. TimerTypeOK'
    BY CancelTyped DEF TypeOK, ExpireSessions
<1>4. HandleTypeOK'
    BY DropInboundTyped DEF TypeOK, ExpireSessions
<1> QED BY <1>1, <1>2, <1>3, <1>4

(* An error answer changes nothing but what was sent.                      *)
LEMMA RefuseTyped ==
    ASSUME TypeOK, NEW w \in Sockets, NEW code \in FrameType, Refuse(w, code),
           UNCHANGED now
    PROVE  TypeOK'
BY UnchangedTyped, SendOneTyped DEF TypeOK, Refuse, storeVars

LEMMA HandleLeaveTyped ==
    ASSUME TypeOK, NEW w \in Sockets, HandleLeave(w)
    PROVE  SessionTypeOK' /\ TimerTypeOK' /\ (out \subseteq Frame)'
<1>1. CASE UNCHANGED <<sessionVars, timerVars>> /\ out' = {}
    BY <1>1, UnchangedTyped
<1>2. CASE \E s \in live :
              /\ w \in participants[s]
              /\ participants' = [participants EXCEPT ![s] = @ \ {w}]
              /\ UNCHANGED <<live, expiresAt>>
              /\ \/ /\ participants[s] # {w}
                    /\ out' = Send(participants[s] \ {w}, "PARTNER_LEFT")
                    /\ UNCHANGED timerVars
                 \/ /\ participants[s] = {w}
                    /\ out' = {}
                    /\ ScheduleDestroyIfEmpty(s)
    <2>1. PICK s \in live :
              /\ participants' = [participants EXCEPT ![s] = @ \ {w}]
              /\ UNCHANGED <<live, expiresAt>>
              /\ \/ /\ out' = Send(participants[s] \ {w}, "PARTNER_LEFT")
                    /\ UNCHANGED timerVars
                 \/ /\ out' = {}
                    /\ ScheduleDestroyIfEmpty(s)
        BY <1>2
    <2>2. s \in SessionIds /\ participants[s] \ {w} \in SUBSET Sockets
        BY DEF TypeOK, SessionTypeOK
    <2>3. SessionTypeOK'
        BY <2>1, <2>2 DEF TypeOK, SessionTypeOK
    <2>4. TimerTypeOK'
        BY <2>1, <2>2, ScheduleTyped, UnchangedTyped
    <2>5. (out \subseteq Frame)'
        BY <2>1, <2>2, SendTyped, "PARTNER_LEFT" \in FrameType DEF FrameType
    <2> QED BY <2>3, <2>4, <2>5
<1> QED BY <1>1, <1>2 DEF HandleLeave

LEMMA OnEndTyped ==
    ASSUME TypeOK, NEW w \in Sockets, OnEnd(w), conn' \in [Sockets -> ConnState]
    PROVE  TypeOK'
<1>1. ConnTypeOK'
    BY DEF TypeOK, ConnTypeOK, OnEnd
<1>2. HandleTypeOK'
    BY ReleaseBySocketTyped DEF TypeOK, OnEnd
<1>3. SessionTypeOK' /\ TimerTypeOK' /\ (out \subseteq Frame)'
    BY HandleLeaveTyped DEF OnEnd
<1>4. (now \in 0..MaxTime)' /\ (joinRetries \subseteq JoinTimer)'
    BY UnchangedTyped DEF OnEnd
<1> QED BY <1>1, <1>2, <1>3, <1>4 DEF TypeOK

(* Both tries of a join, whatever they find.                               *)
LEMMA TryJoinTyped ==
    ASSUME TypeOK, NEW w \in Sockets, NEW s \in SessionIds, TryJoin(w, s)
    PROVE  ConnTypeOK' /\ SessionTypeOK' /\ TimerTypeOK' /\ HandleTypeOK'
<1>1. ConnTypeOK' /\ HandleTypeOK'
    BY UnchangedTyped DEF TryJoin
<1>2. SessionTypeOK'
    BY DEF TypeOK, SessionTypeOK, TryJoin, Alive
<1>3. TimerTypeOK'
    BY CancelTyped DEF TypeOK, TryJoin
<1> QED BY <1>1, <1>2, <1>3

LEMMA JoinFramesTyped ==
    ASSUME TypeOK, NEW w \in Sockets, NEW s \in SessionIds
    PROVE  JoinFrames(w, s) \subseteq Frame
<1>1. Alive(s) \cup {w} \in SUBSET Sockets
    BY DEF TypeOK, SessionTypeOK, Alive
<1>2. {"SESSION_CREATED", "PARTNER_JOINED"} \subseteq FrameType
    BY DEF FrameType
<1> QED BY <1>1, <1>2, SendTyped, SendOneTyped DEF JoinFrames

LEMMA JoinGoneTyped ==
    ASSUME TypeOK, NEW w \in Sockets, NEW s \in SessionIds, JoinGone(w, s)
    PROVE  /\ ConnTypeOK' /\ SessionTypeOK' /\ TimerTypeOK' /\ HandleTypeOK'
           /\ (out \subseteq Frame)'
<1>0. {"SESSION_NOT_FOUND", "ERR_SESSION_EXPIRED"} \subseteq FrameType
    BY DEF FrameType
<1>1. CASE /\ out' = Send({w}, "SESSION_NOT_FOUND")
           /\ UNCHANGED <<connVars, sessionVars, timerVars, handleVars>>
    BY <1>0, <1>1, UnchangedTyped, SendOneTyped
<1>2. CASE /\ out' = ExpiryFrames({s}) \cup Send({w}, "ERR_SESSION_EXPIRED")
           /\ ExpireSessions({s})
    <2>1. ExpiryFrames({s}) \subseteq Frame
        BY ExpiryFramesTyped DEF TypeOK
    <2> QED BY <1>0, <1>2, <2>1, ExpireTyped, SendOneTyped
<1> QED BY <1>1, <1>2 DEF JoinGone

(***************************************************************************)
(* Type correctness: whatever arrives in whatever order, no handler and no *)
(* timer leaves a table of the relay with a value of the wrong kind.       *)
(***************************************************************************)
THEOREM TypeCorrect == Spec => []TypeOK
<1>1. Init => TypeOK
    BY TimeAssumption DEF Init, HandleInit, TypeOK, ConnTypeOK, ConnState,
        SessionTypeOK, TimerTypeOK, HandleTypeOK
<1>2. TypeOK /\ [Next]_vars => TypeOK'
    <2> SUFFICES ASSUME TypeOK, [Next]_vars
                 PROVE  TypeOK'
        OBVIOUS
    <2>1. CASE UNCHANGED vars
        BY <2>1, UnchangedTyped DEF vars, storeVars, TypeOK
    <2>2. CASE Tick
        BY <2>2, UnchangedTyped, TimeAssumption DEF Tick, storeVars, TypeOK
    <2>3. CASE Sweep
        <3>1. Expired \in SUBSET SessionIds
            BY DEF Expired, TypeOK, SessionTypeOK
        <3> QED BY <2>3, <3>1, ExpireTyped, ExpiryFramesTyped, UnchangedTyped
                DEF Sweep, TypeOK
    <2>4. ASSUME NEW t \in graceTimers, GraceTimerFires(t)
          PROVE  TypeOK'
        <3>1. t.sid \in SessionIds
            BY DEF TypeOK, TimerTypeOK, GraceTimer
        <3>2. TimerTypeOK'
            BY <2>4, <3>1 DEF GraceTimerFires, TypeOK, TimerTypeOK
        <3>3. SessionTypeOK' /\ HandleTypeOK'
            BY <2>4, UnchangedTyped, DestroyTyped, DropInboundTyped
               DEF GraceTimerFires, TypeOK
        <3> QED BY <2>4, <3>2, <3>3, UnchangedTyped DEF GraceTimerFires, TypeOK
    <2>5. ASSUME NEW r \in joinRetries, JoinRetryFires(r)
          PROVE  TypeOK'
        <3>1. r.socket \in Sockets /\ r.sid \in SessionIds
            BY DEF TypeOK, JoinTimer
        <3>2. (joinRetries \subseteq JoinTimer)' /\ (now \in 0..MaxTime)'
            BY <2>5, UnchangedTyped DEF JoinRetryFires, TypeOK
        <3>3. CASE /\ out' = {}
                   /\ UNCHANGED <<connVars, sessionVars, timerVars, handleVars>>
            BY <3>2, <3>3, UnchangedTyped DEF TypeOK
        <3>4. CASE JoinGone(r.socket, r.sid)
            BY <3>1, <3>2, <3>4, JoinGoneTyped DEF TypeOK
        <3>5. CASE /\ TryJoin(r.socket, r.sid)
                   /\ out' = IF Full(r.sid) THEN Send({r.socket}, "SESSION_FULL")
                             ELSE JoinFrames(r.socket, r.sid)
            <4>1. (out \subseteq Frame)'
                BY <3>1, <3>5, JoinFramesTyped, SendOneTyped,
                   "SESSION_FULL" \in FrameType DEF FrameType
            <4> QED BY <3>1, <3>2, <3>5, <4>1, TryJoinTyped DEF TypeOK
        <3> QED BY <2>5, <3>3, <3>4, <3>5 DEF JoinRetryFires
    <2>6. ASSUME NEW w \in Sockets, Connect(w)
          PROVE  TypeOK'
        <3>1. ConnTypeOK'
            BY <2>6 DEF Connect, TypeOK, ConnTypeOK, connVars, ConnState
        <3>2. (out \subseteq Frame)'
            BY <2>6 DEF Connect, Frame, FrameType
        <3> QED BY <2>6, <3>1, <3>2, UnchangedTyped DEF Connect, TypeOK
    <2>7. ASSUME NEW w \in Sockets, PeerCloses(w)
          PROVE  TypeOK'
        <3>1. ConnTypeOK'
            BY <2>7 DEF PeerCloses, TypeOK, ConnTypeOK, ConnState
        <3> QED BY <2>7, <3>1, UnchangedTyped DEF PeerCloses, TypeOK
    <2>8. ASSUME NEW w \in Sockets, ErrorEvent(w)
          PROVE  TypeOK'
        <3>1. conn' \in [Sockets -> ConnState]
            BY <2>8 DEF ErrorEvent, TypeOK, ConnTypeOK, ConnState
        <3> QED BY <2>8, <3>1, OnEndTyped DEF ErrorEvent
    <2>9. ASSUME NEW w \in Sockets, CloseEvent(w)
          PROVE  TypeOK'
        <3>1. conn' \in [Sockets -> ConnState]
            BY <2>9 DEF CloseEvent, TypeOK, ConnTypeOK, ConnState
        <3>2. CASE OnEnd(w)
            BY <3>1, <3>2, OnEndTyped
        <3>3. CASE ~OnEnd(w)
            BY <2>9, <3>1, <3>3, UnchangedTyped DEF CloseEvent, TypeOK, ConnTypeOK
        <3> QED BY <3>2, <3>3
    <2>10. ASSUME NEW w \in Sockets, RateLimited(w)
           PROVE  TypeOK'
        BY <2>10, RefuseTyped, "RATE_LIMITED" \in FrameType
           DEF RateLimited, FrameType
    <2>11. ASSUME NEW w \in Sockets, SendMessage(w)
           PROVE  TypeOK'
        <3>1. CASE ~Seated(w) /\ Refuse(w, "NOT_IN_SESSION")
            BY <2>11, <3>1, RefuseTyped, "NOT_IN_SESSION" \in FrameType
               DEF SendMessage, FrameType
        <3>2. ASSUME NEW s \in live, IsExpired(s), out' = ExpiryFrames({s}),
                     ExpireSessions({s}), UNCHANGED joinRetries
              PROVE  TypeOK'
            <4>1. {s} \in SUBSET SessionIds
                BY DEF TypeOK, SessionTypeOK
            <4> QED BY <2>11, <3>2, <4>1, ExpireTyped, ExpiryFramesTyped,
                       UnchangedTyped DEF SendMessage, TypeOK
        <3>3. ASSUME NEW s \in live,
                     out' = Send(participants[s] \ {w}, "MESSAGE"),
                     UNCHANGED <<connVars, sessionVars, timerVars, handleVars>>,
                     UNCHANGED joinRetries
              PROVE  TypeOK'
            <4>1. participants[s] \ {w} \in SUBSET Sockets
                BY DEF TypeOK, SessionTypeOK
            <4>2. (out \subseteq Frame)'
                BY <3>3, <4>1, SendTyped, "MESSAGE" \in FrameType DEF FrameType
            <4> QED BY <2>11, <3>3, <4>2, UnchangedTyped DEF SendMessage, TypeOK
        <3> QED BY <2>11, <3>1, <3>2, <3>3 DEF SendMessage
    <2>12. ASSUME NEW w \in Sockets, LeaveSession(w)
           PROVE  TypeOK'
        BY <2>12, HandleLeaveTyped, UnchangedTyped DEF LeaveSession, TypeOK
    <2>13. ASSUME NEW w \in Sockets, UnclaimHandle(w)
           PROVE  TypeOK'
        BY <2>13, ReleaseBySocketTyped, UnchangedTyped DEF UnclaimHandle, TypeOK
    <2>14. ASSUME NEW w \in Sockets, NEW s \in SessionIds, CreateSession(w, s)
           PROVE  TypeOK'
        <3>0. {"ALREADY_IN_SESSION", "SESSION_EXISTS", "SERVER_BUSY",
               "SESSION_CREATED", "ERR_SESSION_EXPIRED"} \subseteq FrameType
            BY DEF FrameType
        <3>1. UNCHANGED now
            BY <2>14 DEF CreateSession
        <3>2. ASSUME NEW code \in FrameType, Refuse(w, code)
              PROVE  TypeOK'
            BY <3>1, <3>2, RefuseTyped
        <3>3. CASE ReclaimEmpty(w, s)
            <4>1. CASE /\ out' = ExpiryFrames({s}) \cup Send({w}, "ERR_SESSION_EXPIRED")
                       /\ ExpireSessions({s})
                <5>1. ExpiryFrames({s}) \subseteq Frame
                    BY ExpiryFramesTyped DEF TypeOK
                <5> QED BY <3>0, <3>1, <3>3, <4>1, <5>1, ExpireTyped, SendOneTyped,
                           UnchangedTyped DEF ReclaimEmpty, TypeOK
            <4>2. CASE /\ CancelPendingDestroy({s})
                       /\ participants' = [participants EXCEPT ![s] = {w}]
                       /\ out' = Send({w}, "SESSION_CREATED")
                       /\ UNCHANGED <<live, expiresAt, connVars, handleVars>>
                <5>1. SessionTypeOK'
                    BY <4>2 DEF TypeOK, SessionTypeOK
                <5>2. TimerTypeOK'
                    BY <4>2, CancelTyped DEF TypeOK
                <5> QED BY <3>0, <3>1, <3>3, <4>2, <5>1, <5>2, SendOneTyped,
                           UnchangedTyped DEF ReclaimEmpty, TypeOK
            <4> QED BY <3>3, <4>1, <4>2 DEF ReclaimEmpty
        <3>4. CASE /\ Create(w, s)
                   /\ out' = Send({w}, "SESSION_CREATED")
                   /\ UNCHANGED <<connVars, timerVars, joinRetries, handleVars>>
            BY <3>0, <3>1, <3>4, CreateTyped, SendOneTyped, UnchangedTyped DEF TypeOK
        <3> QED BY <2>14, <3>0, <3>2, <3>3, <3>4 DEF CreateSession
    <2>15. ASSUME NEW w \in Sockets, NEW s \in SessionIds, JoinSession(w, s)
           PROVE  TypeOK'
        <3>1. UNCHANGED now
            BY <2>15 DEF JoinSession
        <3>2. CASE Refuse(w, "ALREADY_IN_SESSION")
            BY <3>1, <3>2, RefuseTyped, "ALREADY_IN_SESSION" \in FrameType
               DEF FrameType
        <3>3. CASE JoinGone(w, s) /\ UNCHANGED joinRetries
            BY <3>1, <3>3, JoinGoneTyped, UnchangedTyped DEF TypeOK
        <3>4. CASE TryJoin(w, s) /\ out' = JoinFrames(w, s) /\ UNCHANGED joinRetries
            BY <3>1, <3>4, TryJoinTyped, JoinFramesTyped, UnchangedTyped DEF TypeOK
        <3>5. CASE /\ TryJoin(w, s)
                   /\ joinRetries' = joinRetries \cup
                          {[socket |-> w, sid |-> s, at |-> now + JOIN_RETRY]}
                   /\ out' = {}
            <4>1. now + JOIN_RETRY \in Nat
                BY NowIsNat, TimeAssumption
            <4>2. (joinRetries \subseteq JoinTimer)'
                BY <3>5, <4>1 DEF TypeOK, JoinTimer
            <4> QED BY <3>1, <3>5, <4>2, TryJoinTyped, UnchangedTyped DEF TypeOK
        <3> QED BY <2>15, <3>2, <3>3, <3>4, <3>5 DEF JoinSession
    <2>16. ASSUME NEW w \in Sockets, NEW h \in Handles, NEW authorised \in BOOLEAN,
                  ClaimHandle(w, h, authorised)
           PROVE  TypeOK'
        <3>0. {"ALREADY_IN_SESSION", "HANDLE_FORBIDDEN", "HANDLE_TAKEN",
               "HANDLE_CLAIMED"} \subseteq FrameType
            BY DEF FrameType
        <3>1. UNCHANGED now
            BY <2>16 DEF ClaimHandle
        <3>2. ASSUME NEW code \in FrameType, Refuse(w, code)
              PROVE  TypeOK'
            BY <3>1, <3>2, RefuseTyped
        <3>3. CASE /\ Claim(h, w)
                   /\ out' = Send({w}, "HANDLE_CLAIMED")
                   /\ UNCHANGED <<connVars, sessionVars, timerVars, joinRetries>>
            BY <3>0, <3>1, <3>3, ClaimTyped, SendOneTyped, UnchangedTyped DEF TypeOK
        <3> QED BY <2>16, <3>0, <3>2, <3>3 DEF ClaimHandle
    <2>17. ASSUME NEW w \in Sockets, NEW h \in Handles, NEW s \in SessionIds,
                  RingHandle(w, h, s)
           PROVE  TypeOK'
        <3>0. {"ALREADY_IN_SESSION", "HANDLE_UNAVAILABLE", "HANDLE_BUSY",
               "SERVER_BUSY", "RING_READY", "INCOMING_RING"} \subseteq FrameType
            BY DEF FrameType
        <3>1. UNCHANGED now
            BY <2>17 DEF RingHandle
        <3>2. ASSUME NEW code \in FrameType, Refuse(w, code)
              PROVE  TypeOK'
            BY <3>1, <3>2, RefuseTyped
        <3>3. CASE /\ byHandle[h] # NoSocket
                   /\ Create(w, s)
                   /\ AddInbound(h, s)
                   /\ out' = Send({w}, "RING_READY")
                                 \cup Send({byHandle[h]}, "INCOMING_RING")
                   /\ UNCHANGED <<connVars, timerVars, joinRetries>>
            <4>1. byHandle[h] \in Sockets
                BY <3>3 DEF TypeOK, HandleTypeOK
            <4>2. (out \subseteq Frame)'
                BY <3>0, <3>3, <4>1, SendOneTyped
            <4>3. HandleTypeOK'
                BY <3>3, AddInboundTyped DEF TypeOK
            <4> QED BY <3>1, <3>3, <4>2, <4>3, CreateTyped, UnchangedTyped DEF TypeOK
        <3> QED BY <2>17, <3>0, <3>2, <3>3 DEF RingHandle
    <2> QED BY <2>1, <2>2, <2>3, <2>4, <2>5, <2>6, <2>7, <2>8, <2>9, <2>10,
               <2>11, <2>12, <2>13, <2>14, <2>15, <2>16, <2>17
            DEF Next, Request, Connection, Timer
<1> QED BY <1>1, <1>2, PTL DEF Spec

----------------------------------------------------------------------------
(* Seats and handles.                                                      *)

(* Losing seats, sessions and claims breaks nothing.                       *)
LEMMA SeatsShrink ==
    ASSUME TypeOK, OneSeat, live' \subseteq live,
           \A s \in live' : participants'[s] \subseteq participants[s],
           \A w \in Sockets : bySocket'[w] \in {bySocket[w], NoHandle}
    PROVE  OneSeat'
BY DEF OneSeat, Seated

LEMMA SeatsUnchanged ==
    ASSUME OneSeat, UNCHANGED <<live, participants, bySocket>>
    PROVE  OneSeat'
BY DEF OneSeat, Seated

(* A socket that was not busy may take a seat.                             *)
LEMMA SeatOne ==
    ASSUME TypeOK, OneSeat, NEW w \in Sockets, ~Busy(w), NEW s,
           live' = live \cup {s}, bySocket' = bySocket,
           \A t \in live : t # s => participants'[t] = participants[t],
           \A p \in participants'[s] : p = w \/ (s \in live /\ p \in participants[s])
    PROVE  OneSeat'
<1>1. ~Seated(w) /\ bySocket[w] = NoHandle
    BY DEF Busy
<1>2. \A p \in Sockets \ {w}, t \in live' :
          p \in participants'[t] => t \in live /\ p \in participants[t]
    OBVIOUS
<1>3. \A t \in live' : w \in participants'[t] => t = s
    BY <1>1 DEF Seated
<1> QED BY <1>1, <1>2, <1>3 DEF OneSeat, Seated

LEMMA SeatsTryJoin ==
    ASSUME TypeOK, OneSeat, NEW w \in Sockets, ~Busy(w), NEW s \in live,
           TryJoin(w, s)
    PROVE  OneSeat'
<1>1. s \in SessionIds
    BY DEF TypeOK, SessionTypeOK
<1>2. /\ live' = live
      /\ bySocket' = bySocket
      /\ \A t \in live : t # s => participants'[t] = participants[t]
      /\ participants'[s] \subseteq participants[s] \cup {w}
    BY <1>1 DEF TryJoin, handleVars, Alive, TypeOK, SessionTypeOK
<1> QED BY <1>2, SeatOne

LEMMA SeatsExpire ==
    ASSUME TypeOK, OneSeat, NEW S, Destroy(S), DropInbound(S)
    PROVE  OneSeat'
<1>1. /\ live' \subseteq live
      /\ \A s \in live' : participants'[s] \subseteq participants[s]
      /\ bySocket' = bySocket
    BY DEF Destroy, DropInbound, TypeOK, SessionTypeOK
<1> QED BY <1>1, SeatsShrink

LEMMA SeatsJoinGone ==
    ASSUME TypeOK, OneSeat, NEW w \in Sockets, NEW s \in SessionIds,
           JoinGone(w, s)
    PROVE  OneSeat'
BY SeatsUnchanged, SeatsExpire DEF JoinGone, ExpireSessions, sessionVars, handleVars

LEMMA HandleLeaveShrinks ==
    ASSUME TypeOK, NEW w \in Sockets, HandleLeave(w)
    PROVE  /\ live' = live
           /\ \A s \in live : participants'[s] \subseteq participants[s]
BY DEF HandleLeave, sessionVars, TypeOK, SessionTypeOK

LEMMA ReleaseBySocketShrinks ==
    ASSUME HandleTypeOK, NEW w \in Sockets, ReleaseBySocket(w)
    PROVE  \A v \in Sockets : bySocket'[v] \in {bySocket[v], NoHandle}
BY DEF HandleTypeOK, ReleaseBySocket, Release, handleVars

(***************************************************************************)
(* Nobody sits twice, and no mailbox sits: OneSeat is inductive given      *)
(* TypeOK, because each of the four ways into a session, and the way into  *)
(* a handle, asks first; the join's second try asks again.                 *)
(***************************************************************************)
THEOREM NobodySitsTwice == Spec => []OneSeat
<1>1. Init => OneSeat
    BY DEF Init, OneSeat, Seated
<1>2. TypeOK /\ OneSeat /\ [Next]_vars => OneSeat'
    <2> SUFFICES ASSUME TypeOK, OneSeat, [Next]_vars
                 PROVE  OneSeat'
        OBVIOUS
    <2>0. CASE UNCHANGED <<live, participants, bySocket>>
        BY <2>0, SeatsUnchanged
    <2>1. CASE UNCHANGED vars \/ Tick
        BY <2>0, <2>1 DEF vars, storeVars, Tick, sessionVars, handleVars
    <2>2. CASE Sweep
        BY <2>2, SeatsExpire DEF Sweep, ExpireSessions
    <2>3. ASSUME NEW t \in graceTimers, GraceTimerFires(t)
          PROVE  OneSeat'
        BY <2>0, <2>3, SeatsExpire DEF GraceTimerFires, sessionVars, handleVars
    <2>4. ASSUME NEW r \in joinRetries, JoinRetryFires(r)
          PROVE  OneSeat'
        <3>1. r.socket \in Sockets /\ r.sid \in SessionIds
            BY DEF TypeOK, JoinTimer
        <3> QED BY <2>0, <2>4, <3>1, SeatsJoinGone, SeatsTryJoin
                DEF JoinRetryFires, sessionVars, handleVars
    <2>5. ASSUME NEW w \in Sockets, Connect(w) \/ PeerCloses(w) \/ RateLimited(w)
          PROVE  OneSeat'
        BY <2>0, <2>5 DEF Connect, PeerCloses, RateLimited, Refuse, storeVars,
           sessionVars, handleVars
    <2>6. ASSUME NEW w \in Sockets, UnclaimHandle(w)
          PROVE  OneSeat'
        BY <2>6, ReleaseBySocketShrinks, SeatsShrink DEF UnclaimHandle,
           sessionVars, TypeOK
    <2>7. ASSUME NEW w \in Sockets, LeaveSession(w)
          PROVE  OneSeat'
        BY <2>7, HandleLeaveShrinks, SeatsShrink DEF LeaveSession, handleVars
    <2>8. ASSUME NEW w \in Sockets, ErrorEvent(w) \/ CloseEvent(w)
          PROVE  OneSeat'
        <3>1. CASE OnEnd(w)
            <4>1. ReleaseBySocket(w) /\ HandleLeave(w)
                BY <3>1 DEF OnEnd
            <4> QED BY <4>1, HandleLeaveShrinks, ReleaseBySocketShrinks,
                       SeatsShrink DEF TypeOK
        <3>2. CASE ~OnEnd(w)
            BY <2>0, <2>8, <3>2 DEF ErrorEvent, CloseEvent, sessionVars, handleVars
        <3> QED BY <3>1, <3>2
    <2>9. ASSUME NEW w \in Sockets, SendMessage(w)
          PROVE  OneSeat'
        BY <2>0, <2>9, SeatsExpire DEF SendMessage, Refuse, storeVars,
           ExpireSessions, sessionVars, handleVars
    <2>10. ASSUME NEW w \in Sockets, NEW h \in Handles, NEW authorised \in BOOLEAN,
                  ClaimHandle(w, h, authorised)
           PROVE  OneSeat'
        <3>1. CASE UNCHANGED <<sessionVars, handleVars>>
            BY <2>0, <3>1 DEF sessionVars, handleVars
        <3>2. CASE ~Seated(w) /\ Claim(h, w) /\ UNCHANGED sessionVars
            <4>1. \A v \in Sockets \ {w} : bySocket'[v] = bySocket[v]
                BY <3>2 DEF Claim, handleVars, TypeOK, HandleTypeOK
            <4> QED BY <3>2, <4>1 DEF OneSeat, Seated, sessionVars
        <3> QED BY <2>10, <3>1, <3>2 DEF ClaimHandle, Refuse, storeVars
    <2>11. ASSUME NEW w \in Sockets, NEW s \in SessionIds, CreateSession(w, s)
           PROVE  OneSeat'
        <3>1. CASE UNCHANGED storeVars
            BY <2>0, <3>1 DEF storeVars, sessionVars, handleVars
        <3>2. CASE Destroy({s}) /\ DropInbound({s})
            BY <3>2, SeatsExpire
        <3>3. CASE /\ ~Busy(w)
                   /\ live' = live \cup {s}
                   /\ participants' = [participants EXCEPT ![s] = {w}]
                   /\ UNCHANGED handleVars
            <4>1. /\ participants'[s] = {w}
                  /\ \A t \in live : t # s => participants'[t] = participants[t]
                BY <3>3 DEF TypeOK, SessionTypeOK
            <4> QED BY <3>3, <4>1, SeatOne DEF handleVars
        <3> QED BY <2>11, <3>1, <3>2, <3>3
                DEF CreateSession, ReclaimEmpty, ExpireSessions, Refuse, Create
    <2>12. ASSUME NEW w \in Sockets, NEW s \in SessionIds, JoinSession(w, s)
           PROVE  OneSeat'
        BY <2>0, <2>12, SeatsJoinGone, SeatsTryJoin
           DEF JoinSession, Refuse, storeVars, sessionVars, handleVars
    <2>13. ASSUME NEW w \in Sockets, NEW h \in Handles, NEW s \in SessionIds,
                  RingHandle(w, h, s)
           PROVE  OneSeat'
        <3>1. CASE UNCHANGED storeVars
            BY <2>0, <3>1 DEF storeVars, sessionVars, handleVars
        <3>2. CASE ~Busy(w) /\ Create(w, s) /\ AddInbound(h, s)
            <4>1. /\ participants'[s] = {w}
                  /\ \A t \in live : t # s => participants'[t] = participants[t]
                BY <3>2 DEF Create, TypeOK, SessionTypeOK
            <4> QED BY <3>2, <4>1, SeatOne DEF Create, AddInbound
        <3> QED BY <2>13, <3>1, <3>2 DEF RingHandle, Refuse
    <2> QED BY <2>1, <2>2, <2>3, <2>4, <2>5, <2>6, <2>7, <2>8, <2>9, <2>10,
               <2>11, <2>12, <2>13
            DEF Next, Request, Connection, Timer
<1> QED BY <1>1, <1>2, TypeCorrect, PTL DEF Spec

----------------------------------------------------------------------------
(* The tables of the handle store.                                         *)

(* A claim counts live sessions only, at most the cap of them.  As in      *)
(* TwoSeats, the count says something because the set is finite.           *)
CountsAreLive   == \A h \in Handles : inboundSessionIds[h] \subseteq live
CountsAreCapped ==
    \A h \in Handles : /\ IsFiniteSet(inboundSessionIds[h])
                       /\ InboundCount(h) <= PREMIUM_MAX_CONCURRENT_CHATS

HandlesInv == HandleTablesAgree /\ CountsAreLive /\ CountsAreCapped

LEMMA TablesUnchanged ==
    ASSUME HandlesInv, UNCHANGED <<live, handleVars>>
    PROVE  HandlesInv'
BY DEF HandlesInv, HandleTablesAgree, CountsAreLive, CountsAreCapped, handleVars,
       InboundCount

(* Counting fewer sessions keeps within the cap.                           *)
LEMMA CapShrinks ==
    ASSUME CountsAreCapped,
           \A h \in Handles : inboundSessionIds'[h] \subseteq inboundSessionIds[h]
    PROVE  CountsAreCapped'
<1> SUFFICES ASSUME NEW h \in Handles
             PROVE  /\ IsFiniteSet(inboundSessionIds'[h])
                    /\ Cardinality(inboundSessionIds'[h])
                           <= PREMIUM_MAX_CONCURRENT_CHATS
    BY DEF CountsAreCapped, InboundCount
<1> DEFINE old == inboundSessionIds[h]
           new == inboundSessionIds'[h]
<1>1. IsFiniteSet(old) /\ Cardinality(old) <= PREMIUM_MAX_CONCURRENT_CHATS
    BY DEF CountsAreCapped, InboundCount
<1>2. new \in SUBSET old
    OBVIOUS
<1> HIDE DEF old, new
<1>3. IsFiniteSet(new) /\ Cardinality(new) <= Cardinality(old)
    BY <1>1, <1>2, FS_Subset
<1>4. Cardinality(new) \in Nat /\ Cardinality(old) \in Nat
    BY <1>1, <1>3, FS_CardinalityType
<1>5. IsFiniteSet(new) /\ Cardinality(new) <= PREMIUM_MAX_CONCURRENT_CHATS
    BY <1>1, <1>3, <1>4, LimitAssumption
<1> QED BY <1>5 DEF new

(* A claim that goes takes its entries in all the tables with it.          *)
LEMMA TablesRelease ==
    ASSUME HandleTypeOK, HandlesInv, NEW h \in Handles, byHandle[h] # NoSocket,
           Release(h), live' = live
    PROVE  HandlesInv'
<1>1. byHandle[h] \in Sockets
    BY DEF HandleTypeOK
<1>2. \A g \in Handles : inboundSessionIds'[g] \subseteq inboundSessionIds[g]
    BY DEF Release, HandleTypeOK
<1>3. \A g \in Handles, w \in Sockets : byHandle'[g] = w <=> bySocket'[w] = g
    BY <1>1, NullAssumption DEF HandlesInv, HandleTablesAgree, HandleTypeOK, Release
<1>4. \A g \in Handles, s \in SessionIds :
          s \in inboundSessionIds'[g] <=> sessionToHandle'[s] = g
    BY NullAssumption DEF HandlesInv, HandleTablesAgree, HandleTypeOK, Release
<1>5. \A g \in Handles : byHandle'[g] = NoSocket => inboundSessionIds'[g] = {}
    BY DEF HandlesInv, HandleTablesAgree, HandleTypeOK, Release
<1>6. CountsAreLive'
    BY <1>2 DEF HandlesInv, CountsAreLive
<1>7. CountsAreCapped'
    BY <1>2, CapShrinks DEF HandlesInv
<1> QED BY <1>3, <1>4, <1>5, <1>6, <1>7 DEF HandlesInv, HandleTablesAgree

LEMMA TablesReleaseBySocket ==
    ASSUME HandleTypeOK, HandlesInv, NEW w \in Sockets, ReleaseBySocket(w),
           live' = live
    PROVE  HandlesInv'
<1>1. CASE UNCHANGED handleVars
    BY <1>1, TablesUnchanged
<1>2. CASE bySocket[w] # NoHandle /\ Release(bySocket[w])
    <2>1. bySocket[w] \in Handles /\ byHandle[bySocket[w]] = w
        BY <1>2 DEF HandlesInv, HandleTablesAgree, HandleTypeOK
    <2>2. byHandle[bySocket[w]] # NoSocket
        BY <2>1, NullAssumption
    <2> QED BY <1>2, <2>1, <2>2, TablesRelease
<1> QED BY <1>1, <1>2 DEF ReleaseBySocket

(* A claim of a free name, in exchange for the socket's previous one.      *)
LEMMA TablesClaim ==
    ASSUME HandleTypeOK, HandlesInv, NEW h \in Handles, NEW w \in Sockets,
           ~Taken(h, w), Claim(h, w), live' = live
    PROVE  HandlesInv'
<1>1. CASE byHandle[h] = w
    BY <1>1, TablesUnchanged DEF Claim
<1>2. CASE byHandle[h] # w
    <2>1. byHandle[h] = NoSocket /\ inboundSessionIds[h] = {}
        BY <1>2 DEF Taken, HandlesInv, HandleTablesAgree
    <2> DEFINE kept == {g \in Handles : g # h /\ g # bySocket[w]}
    <2>2. /\ byHandle'[h] = w
          /\ \A g \in kept : byHandle'[g] = byHandle[g]
          /\ \A g \in Handles \ kept : g # h => byHandle'[g] = NoSocket
        BY <1>2 DEF Claim, HandleTypeOK
    <2>3. /\ \A g \in kept : inboundSessionIds'[g] = inboundSessionIds[g]
          /\ \A g \in Handles \ kept : inboundSessionIds'[g] = {}
        BY <1>2 DEF Claim
    <2>4. /\ bySocket'[w] = h
          /\ \A v \in Sockets : v # w => bySocket'[v] = bySocket[v]
        BY <1>2 DEF Claim, HandleTypeOK
    <2>5. \A s \in SessionIds :
              sessionToHandle'[s] =
                  IF sessionToHandle[s] \in Handles /\ sessionToHandle[s] = bySocket[w]
                  THEN NoHandle ELSE sessionToHandle[s]
        <3>1. SUFFICES ASSUME NEW s \in SessionIds
                       PROVE  s \in UNION {inboundSessionIds[g] :
                                              g \in {f \in Handles : f = bySocket[w]}}
                                  <=> /\ sessionToHandle[s] \in Handles
                                      /\ sessionToHandle[s] = bySocket[w]
            BY <1>2 DEF Claim
        <3> QED BY DEF HandlesInv, HandleTablesAgree
    <2>6. \A g \in Handles, v \in Sockets : byHandle'[g] = v <=> bySocket'[v] = g
        BY <2>1, <2>2, <2>4, NullAssumption
           DEF HandlesInv, HandleTablesAgree, HandleTypeOK
    <2>7. \A g \in Handles, s \in SessionIds :
              s \in inboundSessionIds'[g] <=> sessionToHandle'[s] = g
        BY <2>1, <2>3, <2>5, NullAssumption
           DEF HandlesInv, HandleTablesAgree, HandleTypeOK
    <2>8. \A g \in Handles : byHandle'[g] = NoSocket => inboundSessionIds'[g] = {}
        BY <2>2, <2>3 DEF HandlesInv, HandleTablesAgree
    <2>9. \A g \in Handles : inboundSessionIds'[g] \subseteq inboundSessionIds[g]
        BY <2>3
    <2>10. CountsAreLive'
        BY <2>9 DEF HandlesInv, CountsAreLive
    <2>11. CountsAreCapped'
        BY <2>9, CapShrinks DEF HandlesInv
    <2> QED BY <2>6, <2>7, <2>8, <2>10, <2>11 DEF HandlesInv, HandleTablesAgree
<1> QED BY <1>1, <1>2

(* A ring adds a session that no claim counts, as it did not exist.        *)
LEMMA TablesRing ==
    ASSUME HandleTypeOK, HandlesInv, NEW h \in Handles, NEW s \in SessionIds,
           byHandle[h] # NoSocket, s \notin live, live' = live \cup {s},
           InboundCount(h) < PREMIUM_MAX_CONCURRENT_CHATS, AddInbound(h, s)
    PROVE  HandlesInv'
<1>1. sessionToHandle[s] = NoHandle
    BY DEF HandlesInv, HandleTablesAgree, CountsAreLive, HandleTypeOK
<1>2. HandleTablesAgree'
    BY <1>1, NullAssumption
       DEF HandlesInv, HandleTablesAgree, HandleTypeOK, AddInbound
<1>3. CountsAreLive'
    BY DEF HandlesInv, CountsAreLive, HandleTypeOK, AddInbound
<1>4. /\ inboundSessionIds'[h] = inboundSessionIds[h] \cup {s}
      /\ \A g \in Handles : g # h => inboundSessionIds'[g] = inboundSessionIds[g]
    BY DEF AddInbound, HandleTypeOK
<1>5. IsFiniteSet(inboundSessionIds[h]) /\ Cardinality(inboundSessionIds[h]) \in Nat
    BY FS_CardinalityType DEF HandlesInv, CountsAreCapped
<1>6. /\ IsFiniteSet(inboundSessionIds[h] \cup {s})
      /\ Cardinality(inboundSessionIds[h] \cup {s}) =
             IF s \in inboundSessionIds[h] THEN Cardinality(inboundSessionIds[h])
             ELSE Cardinality(inboundSessionIds[h]) + 1
    BY <1>5, FS_AddElement
<1>7. Cardinality(inboundSessionIds[h] \cup {s}) <= PREMIUM_MAX_CONCURRENT_CHATS
    BY <1>5, <1>6, LimitAssumption DEF InboundCount
<1>8. CountsAreCapped'
    BY <1>4, <1>6, <1>7 DEF HandlesInv, CountsAreCapped, InboundCount
<1> QED BY <1>2, <1>3, <1>8 DEF HandlesInv

(* Sessions that end leave the count of the claim they were rung through.  *)
LEMMA TablesDrop ==
    ASSUME HandleTypeOK, HandlesInv, NEW S, DropInbound(S), live' = live \ S
    PROVE  HandlesInv'
<1>1. HandleTablesAgree'
    BY NullAssumption DEF HandlesInv, HandleTablesAgree, HandleTypeOK, DropInbound
<1>2. CountsAreLive'
    BY DEF HandlesInv, HandleTablesAgree, HandleTypeOK, CountsAreLive, DropInbound
<1>3. \A h \in Handles : inboundSessionIds'[h] \subseteq inboundSessionIds[h]
    BY DEF DropInbound
<1> QED BY <1>1, <1>2, <1>3, CapShrinks DEF HandlesInv

LEMMA TablesJoinGone ==
    ASSUME HandleTypeOK, HandlesInv, NEW w, NEW s, JoinGone(w, s)
    PROVE  HandlesInv'
BY TablesUnchanged, TablesDrop DEF JoinGone, ExpireSessions, Destroy, sessionVars

(* HandlesInv is inductive given TypeOK.  Each of its parts needs the      *)
(* others: an ended session leaves the count because sessionToHandle knows *)
(* the claim, and a ring keeps the indexes in step because no claim counts *)
(* a session that is not live.                                             *)
LEMMA HandlesInvHolds == Spec => []HandlesInv
<1>1. Init => HandlesInv
    BY NullAssumption, FS_EmptySet, LimitAssumption
       DEF Init, HandleInit, HandlesInv, HandleTablesAgree, CountsAreLive,
           CountsAreCapped, InboundCount
<1>2. TypeOK /\ HandlesInv /\ [Next]_vars => HandlesInv'
    <2> SUFFICES ASSUME TypeOK, HandlesInv, [Next]_vars
                 PROVE  HandlesInv'
        OBVIOUS
    <2> HandleTypeOK
        BY DEF TypeOK
    <2>0. CASE UNCHANGED <<live, handleVars>>
        BY <2>0, TablesUnchanged
    <2>1. CASE UNCHANGED vars \/ Tick
        BY <2>0, <2>1 DEF vars, storeVars, Tick, sessionVars
    <2>2. CASE Sweep
        BY <2>2, TablesDrop DEF Sweep, ExpireSessions, Destroy
    <2>3. ASSUME NEW t \in graceTimers, GraceTimerFires(t)
          PROVE  HandlesInv'
        BY <2>0, <2>3, TablesDrop DEF GraceTimerFires, Destroy, sessionVars
    <2>4. ASSUME NEW r \in joinRetries, JoinRetryFires(r)
          PROVE  HandlesInv'
        BY <2>0, <2>4, TablesJoinGone DEF JoinRetryFires, TryJoin, sessionVars
    <2>5. ASSUME NEW w \in Sockets, Connect(w) \/ PeerCloses(w) \/ RateLimited(w)
          PROVE  HandlesInv'
        BY <2>0, <2>5 DEF Connect, PeerCloses, RateLimited, Refuse, storeVars,
           sessionVars
    <2>6. ASSUME NEW w \in Sockets, UnclaimHandle(w)
          PROVE  HandlesInv'
        BY <2>6, TablesReleaseBySocket DEF UnclaimHandle, sessionVars
    <2>7. ASSUME NEW w \in Sockets,
                 ErrorEvent(w) \/ CloseEvent(w) \/ LeaveSession(w)
          PROVE  HandlesInv'
        <3>1. ASSUME HandleLeave(w)
              PROVE  live' = live
            BY <3>1 DEF HandleLeave, sessionVars
        <3> QED BY <2>0, <2>7, <3>1, TablesReleaseBySocket
                DEF ErrorEvent, CloseEvent, LeaveSession, OnEnd, sessionVars
    <2>8. ASSUME NEW w \in Sockets, SendMessage(w)
          PROVE  HandlesInv'
        BY <2>0, <2>8, TablesDrop DEF SendMessage, Refuse, storeVars,
           ExpireSessions, Destroy, sessionVars
    <2>9. ASSUME NEW w \in Sockets, NEW h \in Handles, NEW authorised \in BOOLEAN,
                 ClaimHandle(w, h, authorised)
          PROVE  HandlesInv'
        BY <2>0, <2>9, TablesClaim DEF ClaimHandle, Refuse, storeVars, sessionVars
    <2>10. ASSUME NEW w \in Sockets, NEW s \in SessionIds, CreateSession(w, s)
           PROVE  HandlesInv'
        <3>1. CASE UNCHANGED handleVars /\ live' = live
            BY <2>0, <3>1
        <3>2. CASE DropInbound({s}) /\ live' = live \ {s}
            BY <3>2, TablesDrop
        <3>3. CASE UNCHANGED handleVars /\ live' = live \cup {s}
            BY <3>3 DEF HandlesInv, HandleTablesAgree, CountsAreLive,
               CountsAreCapped, InboundCount, handleVars
        <3> QED BY <2>10, <3>1, <3>2, <3>3
                DEF CreateSession, ReclaimEmpty, ExpireSessions, Destroy, Refuse,
                    storeVars, sessionVars, Create
    <2>11. ASSUME NEW w \in Sockets, NEW s \in SessionIds, JoinSession(w, s)
           PROVE  HandlesInv'
        BY <2>0, <2>11, TablesJoinGone
           DEF JoinSession, TryJoin, Refuse, storeVars, sessionVars
    <2>12. ASSUME NEW w \in Sockets, NEW h \in Handles, NEW s \in SessionIds,
                  RingHandle(w, h, s)
           PROVE  HandlesInv'
        BY <2>0, <2>12, TablesRing
           DEF RingHandle, FreshId, Create, Refuse, storeVars, sessionVars
    <2> QED BY <2>1, <2>2, <2>3, <2>4, <2>5, <2>6, <2>7, <2>8, <2>9, <2>10,
               <2>11, <2>12
            DEF Next, Request, Connection, Timer
<1> QED BY <1>1, <1>2, TypeCorrect, PTL DEF Spec

(***************************************************************************)
(* The three indexes of the handle store never come apart, whatever        *)
(* releases, re-claims and endings of rung sessions follow each other.     *)
(***************************************************************************)
THEOREM HandleTablesStayInStep == Spec => []HandleTablesAgree
<1>1. HandlesInv => HandleTablesAgree
    BY DEF HandlesInv
<1> QED BY <1>1, HandlesInvHolds, PTL

(***************************************************************************)
(* A caller is turned away as busy on account of sessions that exist, and  *)
(* a claim counts no more of them than the cap.                            *)
(***************************************************************************)
THEOREM InboundCountIsHonest == Spec => []InboundAreLive
<1>1. HandlesInv => InboundAreLive
    BY DEF HandlesInv, CountsAreLive, CountsAreCapped, InboundAreLive
<1> QED BY <1>1, HandlesInvHolds, PTL

(***************************************************************************)
(* No step hands a name from one socket to another.                        *)
(***************************************************************************)
THEOREM ClaimsStay == Spec => ClaimsAreNotStolen
<1> DEFINE Kept == \A h \in Handles : byHandle[h] # NoSocket
                       => byHandle'[h] \in {byHandle[h], NoSocket}
<1>1. TypeOK /\ [Next]_vars => Kept \/ UNCHANGED vars
    <2> SUFFICES ASSUME TypeOK, Next
                 PROVE  Kept
        OBVIOUS
    <2>1. HandleTypeOK
        BY DEF TypeOK
    <2>2. ASSUME UNCHANGED byHandle
          PROVE  Kept
        BY <2>2
    <2>3. ASSUME NEW w \in Sockets, ReleaseBySocket(w)
          PROVE  Kept
        BY <2>1, <2>3 DEF ReleaseBySocket, Release, handleVars, HandleTypeOK
    <2>4. ASSUME NEW w \in Sockets, NEW h \in Handles, NEW authorised \in BOOLEAN,
                 ClaimHandle(w, h, authorised)
          PROVE  Kept
        <3>1. CASE UNCHANGED handleVars
            BY <2>2, <3>1 DEF handleVars
        <3>2. CASE ~Taken(h, w) /\ byHandle[h] # w /\ Claim(h, w)
            BY <2>1, <3>2 DEF Taken, Claim, HandleTypeOK
        <3> QED BY <2>4, <3>1, <3>2 DEF ClaimHandle, Refuse, storeVars, Claim
    <2>5. ASSUME UNCHANGED handleVars
          PROVE  Kept
        BY <2>2, <2>5 DEF handleVars
    <2>6. ASSUME NEW S, DropInbound(S)
          PROVE  Kept
        BY <2>2, <2>6 DEF DropInbound
    <2>7. CASE Request
        <3>1. ASSUME NEW w \in Sockets, NEW s \in SessionIds, JoinGone(w, s)
              PROVE  Kept
            BY <2>5, <2>6, <3>1 DEF JoinGone, ExpireSessions
        <3>2. ASSUME NEW w \in Sockets, NEW s \in SessionIds,
                     CreateSession(w, s) \/ JoinSession(w, s)
              PROVE  Kept
            BY <2>5, <2>6, <3>1, <3>2 DEF CreateSession, ReclaimEmpty,
               ExpireSessions, JoinSession, TryJoin, Refuse, storeVars
        <3>3. ASSUME NEW w \in Sockets, RateLimited(w) \/ SendMessage(w)
              PROVE  Kept
            BY <2>5, <2>6, <3>3 DEF RateLimited, SendMessage, ExpireSessions,
               Refuse, storeVars
        <3>4. ASSUME NEW w \in Sockets, LeaveSession(w) \/ UnclaimHandle(w)
              PROVE  Kept
            BY <2>3, <2>5, <3>4 DEF LeaveSession, UnclaimHandle
        <3>5. ASSUME NEW w \in Sockets, NEW h \in Handles, NEW s \in SessionIds,
                     RingHandle(w, h, s)
              PROVE  Kept
            BY <2>2, <2>5, <3>5 DEF RingHandle, AddInbound, Refuse, storeVars
        <3> QED BY <2>4, <2>7, <3>2, <3>3, <3>4, <3>5 DEF Request
    <2>8. CASE Connection
        BY <2>3, <2>5, <2>8 DEF Connection, Connect, PeerCloses, ErrorEvent,
           CloseEvent, OnEnd
    <2>9. CASE Timer
        <3>1. ASSUME NEW r \in joinRetries, JoinRetryFires(r)
              PROVE  Kept
            BY <2>5, <2>6, <3>1 DEF JoinRetryFires, JoinGone, TryJoin, ExpireSessions
        <3>2. ASSUME NEW t \in graceTimers, GraceTimerFires(t)
              PROVE  Kept
            BY <2>5, <2>6, <3>2 DEF GraceTimerFires
        <3>3. CASE Sweep
            BY <2>6, <3>3 DEF Sweep, ExpireSessions
        <3> QED BY <2>9, <3>1, <3>2, <3>3 DEF Timer
    <2>10. CASE Tick
        BY <2>5, <2>10 DEF Tick, storeVars
    <2> QED BY <2>4, <2>7, <2>8, <2>9, <2>10 DEF Next
<1> QED BY <1>1, TypeCorrect, PTL DEF Spec, ClaimsAreNotStolen

----------------------------------------------------------------------------
(* Owners are connected.                                                   *)

(* The socket whose end is handled has no claim afterwards, and no other   *)
(* socket gets one.                                                        *)
LEMMA EndReleases ==
    ASSUME HandleTypeOK, HandleTablesAgree, NEW w \in Sockets, ReleaseBySocket(w)
    PROVE  /\ bySocket'[w] = NoHandle
           /\ \A v \in Sockets : bySocket'[v] \in {bySocket[v], NoHandle}
<1>1. CASE bySocket[w] = NoHandle /\ UNCHANGED handleVars
    BY <1>1 DEF handleVars
<1>2. CASE bySocket[w] # NoHandle /\ Release(bySocket[w])
    <2>1. bySocket[w] \in Handles /\ byHandle[bySocket[w]] = w
        BY <1>2 DEF HandleTablesAgree, HandleTypeOK
    <2> QED BY <1>2, <2>1 DEF Release, HandleTypeOK
<1> QED BY <1>1, <1>2 DEF ReleaseBySocket

(* A socket that stays, or becomes, a connection the relay has not seen    *)
(* end may own a handle; the others keep none.                             *)
LEMMA OwnersKept ==
    ASSUME OwnersConnected,
           \A w \in Sockets : bySocket'[w] \in {bySocket[w], NoHandle},
           \A w \in Sockets :
               conn[w] \in {"open", "shutting", "closing"} /\ bySocket'[w] # NoHandle
                   => conn'[w] \in {"open", "shutting", "closing"}
    PROVE  OwnersConnected'
BY DEF OwnersConnected

(***************************************************************************)
(* A name is never owned by a connection that is gone: whichever of error  *)
(* and close comes first releases it.                                      *)
(***************************************************************************)
THEOREM OwnersStayConnected == Spec => []OwnersConnected
<1>1. Init => OwnersConnected
    BY DEF Init, HandleInit, OwnersConnected
<1>2. TypeOK /\ HandlesInv /\ OwnersConnected /\ [Next]_vars => OwnersConnected'
    <2> SUFFICES ASSUME TypeOK, HandlesInv, OwnersConnected, [Next]_vars
                 PROVE  OwnersConnected'
        OBVIOUS
    <2>0. HandleTypeOK /\ HandleTablesAgree /\ conn \in [Sockets -> ConnState]
        BY DEF TypeOK, HandlesInv, ConnTypeOK
    <2>1. ASSUME UNCHANGED <<conn, bySocket>>
          PROVE  OwnersConnected'
        BY <2>1 DEF OwnersConnected
    <2>2. ASSUME NEW S, ExpireSessions(S)
          PROVE  OwnersConnected'
        <3>1. bySocket' = bySocket
            BY <2>2 DEF ExpireSessions, DropInbound
        <3>2. \A w \in Sockets : conn'[w] = conn[w] \/ conn'[w] = "shutting"
            BY <2>2 DEF ExpireSessions
        <3> QED BY <3>1, <3>2, OwnersKept
    <2>3. ASSUME NEW w, NEW s, JoinGone(w, s)
          PROVE  OwnersConnected'
        BY <2>1, <2>2, <2>3 DEF JoinGone, connVars, handleVars
    <2>4. ASSUME NEW w \in Sockets, ErrorEvent(w) \/ CloseEvent(w)
          PROVE  OwnersConnected'
        <3>1. \A v \in Sockets : v # w => conn'[v] = conn[v]
            BY <2>0, <2>4 DEF ErrorEvent, CloseEvent
        <3>2. CASE OnEnd(w)
            <4>1. ReleaseBySocket(w)
                BY <3>2 DEF OnEnd
            <4> QED BY <2>0, <3>1, <4>1, EndReleases, OwnersKept
        <3>3. CASE ~OnEnd(w)
            <4>1. conn[w] = "failed" /\ UNCHANGED handleVars
                BY <2>4, <3>3 DEF ErrorEvent, CloseEvent
            <4> QED BY <3>1, <4>1, OwnersKept DEF handleVars
        <3> QED BY <3>2, <3>3
    <2>5. ASSUME NEW w \in Sockets, Connect(w) \/ PeerCloses(w)
          PROVE  OwnersConnected'
        <3>1. UNCHANGED handleVars
            BY <2>5 DEF Connect, PeerCloses
        <3>2. \A v \in Sockets : conn'[v] = conn[v] \/ conn'[v] \in {"open", "closing"}
            BY <2>0, <2>5 DEF Connect, PeerCloses, connVars
        <3> QED BY <3>1, <3>2, OwnersKept DEF handleVars
    <2>6. ASSUME NEW w \in Sockets,
                 RateLimited(w) \/ SendMessage(w) \/ LeaveSession(w)
          PROVE  OwnersConnected'
        BY <2>1, <2>2, <2>6 DEF RateLimited, SendMessage, LeaveSession, Refuse,
           storeVars, connVars, handleVars
    <2>7. ASSUME NEW w \in Sockets, UnclaimHandle(w)
          PROVE  OwnersConnected'
        <3>1. ReleaseBySocket(w) /\ conn' = conn
            BY <2>7 DEF UnclaimHandle, connVars
        <3> QED BY <2>0, <3>1, EndReleases, OwnersKept
    <2>8. ASSUME NEW w \in Sockets, NEW s \in SessionIds,
                 CreateSession(w, s) \/ JoinSession(w, s)
          PROVE  OwnersConnected'
        BY <2>1, <2>2, <2>3, <2>8 DEF CreateSession, ReclaimEmpty, JoinSession,
           TryJoin, Refuse, storeVars, connVars, handleVars
    <2>9. ASSUME NEW w \in Sockets, NEW h \in Handles, NEW authorised \in BOOLEAN,
                 ClaimHandle(w, h, authorised)
          PROVE  OwnersConnected'
        <3>1. conn' = conn /\ Hears(w)
            BY <2>9 DEF ClaimHandle, Refuse, storeVars, connVars
        <3>2. \A v \in Sockets : v # w => bySocket'[v] = bySocket[v]
            BY <2>0, <2>9 DEF ClaimHandle, Claim, Refuse, storeVars, handleVars,
               HandleTypeOK
        <3> QED BY <3>1, <3>2 DEF OwnersConnected, Hears
    <2>10. ASSUME NEW w \in Sockets, NEW h \in Handles, NEW s \in SessionIds,
                  RingHandle(w, h, s)
           PROVE  OwnersConnected'
        BY <2>1, <2>10 DEF RingHandle, AddInbound, Refuse, storeVars, connVars,
           handleVars
    <2>11. ASSUME NEW r \in joinRetries, JoinRetryFires(r)
           PROVE  OwnersConnected'
        BY <2>1, <2>3, <2>11 DEF JoinRetryFires, TryJoin, connVars, handleVars
    <2>12. ASSUME NEW t \in graceTimers, GraceTimerFires(t)
           PROVE  OwnersConnected'
        BY <2>1, <2>12 DEF GraceTimerFires, DropInbound, connVars, handleVars
    <2>13. CASE Sweep \/ Tick \/ UNCHANGED vars
        BY <2>1, <2>2, <2>13 DEF Sweep, Tick, vars, storeVars, connVars, handleVars
    <2> QED BY <2>4, <2>5, <2>6, <2>7, <2>8, <2>9, <2>10, <2>11, <2>12, <2>13
            DEF Next, Request, Connection, Timer
<1> QED BY <1>1, <1>2, TypeCorrect, HandlesInvHolds, PTL DEF Spec
----------------------------------------------------------------------------
(* Empty sessions and their grace timers.                                  *)

LEMMA DoomUnchanged ==
    ASSUME EmptyIffDoomed, UNCHANGED <<sessionVars, timerVars>>
    PROVE  EmptyIffDoomed'
BY DEF EmptyIffDoomed, EmptyIffPending, ArmedIffPending, sessionVars, timerVars

(* A timer that is cancelled in the map is cancelled on the event loop,    *)
(* because the map knows every timer that is armed.                        *)
LEMMA CancelKeepsArmed ==
    ASSUME TypeOK, ArmedIffPending, NEW S \in SUBSET SessionIds,
           CancelPendingDestroy(S)
    PROVE  ArmedIffPending'
BY DEF TypeOK, TimerTypeOK, ArmedIffPending, CancelPendingDestroy, Cleared

LEMMA DoomExpire ==
    ASSUME TypeOK, EmptyIffDoomed, NEW S \in SUBSET SessionIds,
           CancelPendingDestroy(S), Destroy(S)
    PROVE  EmptyIffDoomed'
<1>1. ArmedIffPending'
    BY CancelKeepsArmed DEF EmptyIffDoomed
<1>2. EmptyIffPending'
    BY DEF TypeOK, TimerTypeOK, SessionTypeOK, EmptyIffDoomed, EmptyIffPending,
           CancelPendingDestroy, Destroy
<1> QED BY <1>1, <1>2 DEF EmptyIffDoomed

(* Whoever is seated in a session calls its grace off.                     *)
LEMMA DoomSeat ==
    ASSUME TypeOK, EmptyIffDoomed, NEW s \in live, NEW P, P # {},
           CancelPendingDestroy({s}), live' = live,
           participants' = [participants EXCEPT ![s] = P]
    PROVE  EmptyIffDoomed'
<1>1. {s} \in SUBSET SessionIds
    BY DEF TypeOK, SessionTypeOK
<1>2. ArmedIffPending'
    BY <1>1, CancelKeepsArmed DEF EmptyIffDoomed
<1>3. EmptyIffPending'
    BY DEF TypeOK, TimerTypeOK, SessionTypeOK, EmptyIffDoomed, EmptyIffPending,
           CancelPendingDestroy
<1> QED BY <1>2, <1>3 DEF EmptyIffDoomed

LEMMA DoomCreate ==
    ASSUME TypeOK, EmptyIffDoomed, NEW w \in Sockets, NEW s \in SessionIds,
           s \notin live, Create(w, s), UNCHANGED timerVars
    PROVE  EmptyIffDoomed'
BY DEF TypeOK, SessionTypeOK, EmptyIffDoomed, EmptyIffPending, ArmedIffPending,
       Create, timerVars

(* A full session has someone alive in it: pruning leaves it occupied.     *)
LEMMA FullIsOccupied ==
    ASSUME NEW s, Full(s)
    PROVE  Alive(s) # {}
BY FS_EmptySet DEF Full

LEMMA DoomTryJoin ==
    ASSUME TypeOK, EmptyIffDoomed, NEW w \in Sockets, NEW s \in live, TryJoin(w, s)
    PROVE  EmptyIffDoomed'
<1>1. (IF Full(s) THEN Alive(s) ELSE Alive(s) \cup {w}) # {}
    BY FullIsOccupied
<1> QED BY <1>1, DoomSeat DEF TryJoin

LEMMA DoomJoinGone ==
    ASSUME TypeOK, EmptyIffDoomed, NEW w \in Sockets, NEW s \in SessionIds,
           JoinGone(w, s)
    PROVE  EmptyIffDoomed'
BY DoomUnchanged, DoomExpire DEF JoinGone, ExpireSessions

(* The last one out arms the only timer of the session; a session that     *)
(* someone was sitting in had none.                                        *)
LEMMA DoomLeave ==
    ASSUME TypeOK, EmptyIffDoomed, NEW w \in Sockets, HandleLeave(w)
    PROVE  EmptyIffDoomed'
<1>1. CASE UNCHANGED <<sessionVars, timerVars>>
    BY <1>1, DoomUnchanged
<1>2. ASSUME NEW s \in live, w \in participants[s],
             participants' = [participants EXCEPT ![s] = @ \ {w}],
             live' = live, participants[s] # {w}, UNCHANGED timerVars
      PROVE  EmptyIffDoomed'
    BY <1>2 DEF TypeOK, SessionTypeOK, EmptyIffDoomed, EmptyIffPending,
                ArmedIffPending, timerVars
<1>3. ASSUME NEW s \in live, participants' = [participants EXCEPT ![s] = @ \ {w}],
             live' = live, participants[s] = {w}, ScheduleDestroyIfEmpty(s)
      PROVE  EmptyIffDoomed'
    <2>1. s \in SessionIds /\ pendingDestroy[s] = NoTimer
        BY <1>3 DEF TypeOK, SessionTypeOK, EmptyIffDoomed, EmptyIffPending
    <2>2. now + RECONNECT_GRACE # NoTimer
        BY NowIsNat, TimeAssumption DEF NoTimer
    <2>3. EmptyIffPending'
        BY <1>3, <2>1, <2>2 DEF TypeOK, SessionTypeOK, TimerTypeOK,
           EmptyIffDoomed, EmptyIffPending, ScheduleDestroyIfEmpty
    <2>4. graceTimers' = graceTimers \cup
                             {[sid |-> s, at |-> now + RECONNECT_GRACE]}
        BY <1>3, <2>1 DEF EmptyIffDoomed, ArmedIffPending,
           ScheduleDestroyIfEmpty, Cleared
    <2>5. ArmedIffPending'
        BY <1>3, <2>1, <2>2, <2>4 DEF TypeOK, TimerTypeOK, EmptyIffDoomed,
           ArmedIffPending, ScheduleDestroyIfEmpty
    <2> QED BY <2>3, <2>5 DEF EmptyIffDoomed
<1> QED BY <1>1, <1>2, <1>3 DEF HandleLeave

(***************************************************************************)
(* No empty session is forgotten and no occupied one is doomed.  The       *)
(* invariant is inductive given TypeOK: the second half, that the map      *)
(* knows every armed timer, is what lets the cancellations of the first    *)
(* half reach the event loop.                                              *)
(***************************************************************************)
THEOREM EmptySessionsAreDoomed == Spec => []EmptyIffDoomed
<1>1. Init => EmptyIffDoomed
    BY DEF Init, EmptyIffDoomed, EmptyIffPending, ArmedIffPending
<1>2. TypeOK /\ EmptyIffDoomed /\ [Next]_vars => EmptyIffDoomed'
    <2> SUFFICES ASSUME TypeOK, EmptyIffDoomed, [Next]_vars
                 PROVE  EmptyIffDoomed'
        OBVIOUS
    <2>0. CASE UNCHANGED <<sessionVars, timerVars>>
        BY <2>0, DoomUnchanged
    <2>1. CASE UNCHANGED vars \/ Tick
        BY <2>0, <2>1 DEF vars, storeVars, Tick
    <2>2. CASE Sweep
        <3>1. Expired \in SUBSET SessionIds
            BY DEF Expired, TypeOK, SessionTypeOK
        <3> QED BY <2>2, <3>1, DoomExpire DEF Sweep, ExpireSessions
    <2>3. ASSUME NEW t \in graceTimers, GraceTimerFires(t)
          PROVE  EmptyIffDoomed'
        <3>1. t.sid \in live /\ participants[t.sid] = {}
            BY DEF EmptyIffDoomed, EmptyIffPending, ArmedIffPending
        <3>2. {t.sid} \in SUBSET SessionIds /\ Cleared({t.sid}) = {t}
            BY DEF TypeOK, TimerTypeOK, GraceTimer, EmptyIffDoomed,
                   ArmedIffPending, Cleared
        <3>3. CancelPendingDestroy({t.sid}) /\ Destroy({t.sid})
            BY <2>3, <3>1, <3>2 DEF GraceTimerFires, CancelPendingDestroy,
               TypeOK, TimerTypeOK
        <3> QED BY <3>2, <3>3, DoomExpire
    <2>4. ASSUME NEW r \in joinRetries, JoinRetryFires(r)
          PROVE  EmptyIffDoomed'
        <3>1. r.socket \in Sockets /\ r.sid \in SessionIds
            BY DEF TypeOK, JoinTimer
        <3> QED BY <2>0, <2>4, <3>1, DoomJoinGone, DoomTryJoin DEF JoinRetryFires
    <2>5. ASSUME NEW w \in Sockets, Connect(w) \/ PeerCloses(w) \/ RateLimited(w)
                 \/ UnclaimHandle(w)
          PROVE  EmptyIffDoomed'
        BY <2>0, <2>5 DEF Connect, PeerCloses, RateLimited, Refuse, UnclaimHandle,
           storeVars
    <2>6. ASSUME NEW w \in Sockets, ErrorEvent(w) \/ CloseEvent(w) \/ LeaveSession(w)
          PROVE  EmptyIffDoomed'
        BY <2>0, <2>6, DoomLeave DEF ErrorEvent, CloseEvent, LeaveSession, OnEnd
    <2>7. ASSUME NEW w \in Sockets, SendMessage(w)
          PROVE  EmptyIffDoomed'
        <3>1. \A s \in live : {s} \in SUBSET SessionIds
            BY DEF TypeOK, SessionTypeOK
        <3> QED BY <2>0, <2>7, <3>1, DoomExpire
                DEF SendMessage, Refuse, storeVars, ExpireSessions
    <2>8. ASSUME NEW w \in Sockets, NEW h \in Handles, NEW authorised \in BOOLEAN,
                 ClaimHandle(w, h, authorised)
          PROVE  EmptyIffDoomed'
        BY <2>0, <2>8 DEF ClaimHandle, Refuse, storeVars
    <2>9. ASSUME NEW w \in Sockets, NEW s \in SessionIds, CreateSession(w, s)
          PROVE  EmptyIffDoomed'
        <3>1. CASE UNCHANGED storeVars
            BY <2>0, <3>1 DEF storeVars
        <3>2. CASE ReclaimEmpty(w, s)
            BY <3>2, DoomExpire, DoomSeat DEF ReclaimEmpty, ExpireSessions
        <3>3. CASE s \notin live /\ Create(w, s) /\ UNCHANGED timerVars
            BY <3>3, DoomCreate
        <3> QED BY <2>9, <3>1, <3>2, <3>3 DEF CreateSession, Refuse
    <2>10. ASSUME NEW w \in Sockets, NEW s \in SessionIds, JoinSession(w, s)
           PROVE  EmptyIffDoomed'
        BY <2>0, <2>10, DoomJoinGone, DoomTryJoin DEF JoinSession, Refuse, storeVars
    <2>11. ASSUME NEW w \in Sockets, NEW h \in Handles, NEW s \in SessionIds,
                  RingHandle(w, h, s)
           PROVE  EmptyIffDoomed'
        BY <2>0, <2>11, DoomCreate DEF RingHandle, FreshId, Refuse, storeVars
    <2> QED BY <2>1, <2>2, <2>3, <2>4, <2>5, <2>6, <2>7, <2>8, <2>9, <2>10, <2>11
            DEF Next, Request, Connection, Timer
<1> QED BY <1>1, <1>2, TypeCorrect, PTL DEF Spec

----------------------------------------------------------------------------
(* Two seats.                                                              *)

(* TwoSeats as it is inductive: Cardinality says nothing of an infinite    *)
(* set, so the participants are finite as well.                            *)
AtMostTwo(P) == IsFiniteSet(P) /\ Cardinality(P) <= 2

SeatsInv == \A s \in live : AtMostTwo(participants[s])

LEMMA FewerAreAtMostTwo ==
    ASSUME NEW P, AtMostTwo(P), NEW Q \in SUBSET P
    PROVE  AtMostTwo(Q)
<1>1. IsFiniteSet(Q) /\ Cardinality(Q) <= Cardinality(P)
    BY FS_Subset DEF AtMostTwo
<1>2. Cardinality(Q) \in Nat /\ Cardinality(P) \in Nat
    BY <1>1, FS_CardinalityType DEF AtMostTwo
<1> QED BY <1>1, <1>2 DEF AtMostTwo

(* Sessions may end and lose participants.                                 *)
LEMMA SeatsInvShrinks ==
    ASSUME SeatsInv, live' \subseteq live,
           \A s \in live' : participants'[s] \subseteq participants[s]
    PROVE  SeatsInv'
BY FewerAreAtMostTwo DEF SeatsInv

(* One session may be seated anew, with two at most.                       *)
LEMMA SeatsInvSeat ==
    ASSUME TypeOK, SeatsInv, NEW s \in SessionIds, NEW P, AtMostTwo(P),
           live' = live \cup {s}, participants' = [participants EXCEPT ![s] = P]
    PROVE  SeatsInv'
BY DEF TypeOK, SessionTypeOK, SeatsInv

LEMMA OneIsAtMostTwo ==
    ASSUME NEW w
    PROVE  AtMostTwo({w})
<1>1. IsFiniteSet({w}) /\ Cardinality({w}) = 1
    BY FS_Singleton, Zenon
<1> QED BY <1>1 DEF AtMostTwo

(* A join fills a seat only when fewer than two are alive.                 *)
LEMMA SeatsInvTryJoin ==
    ASSUME TypeOK, SeatsInv, NEW w, NEW s \in live, TryJoin(w, s)
    PROVE  SeatsInv'
<1>1. AtMostTwo(Alive(s))
    BY FewerAreAtMostTwo DEF SeatsInv, Alive
<1>2. ASSUME ~Full(s)
      PROVE  AtMostTwo(Alive(s) \cup {w})
    <2>1. Cardinality(Alive(s)) \in Nat /\ Cardinality(Alive(s)) < 2
        BY <1>1, <1>2, FS_CardinalityType DEF AtMostTwo, Full
    <2>2. /\ IsFiniteSet(Alive(s) \cup {w})
          /\ Cardinality(Alive(s) \cup {w}) =
                 IF w \in Alive(s) THEN Cardinality(Alive(s))
                                   ELSE Cardinality(Alive(s)) + 1
        BY <1>1, FS_AddElement DEF AtMostTwo
    <2> QED BY <2>1, <2>2 DEF AtMostTwo
<1>3. AtMostTwo(IF Full(s) THEN Alive(s) ELSE Alive(s) \cup {w})
    BY <1>1, <1>2
<1>4. live' = live \cup {s} /\ s \in SessionIds
    BY DEF TryJoin, TypeOK, SessionTypeOK
<1> QED BY <1>3, <1>4, SeatsInvSeat DEF TryJoin

LEMMA SeatsInvDestroy ==
    ASSUME TypeOK, SeatsInv, NEW S, Destroy(S)
    PROVE  SeatsInv'
<1>1. live' \subseteq live /\ \A s \in live' : participants'[s] = participants[s]
    BY DEF Destroy, TypeOK, SessionTypeOK
<1> QED BY <1>1, SeatsInvShrinks

LEMMA SeatsInvJoinGone ==
    ASSUME TypeOK, SeatsInv, NEW w, NEW s, JoinGone(w, s)
    PROVE  SeatsInv'
BY SeatsInvDestroy, SeatsInvShrinks DEF JoinGone, ExpireSessions, sessionVars

(***************************************************************************)
(* No session ever seats a third participant.  Of the four operations that *)
(* add one only the join meets an occupied session, and it counts the      *)
(* participants it has not just pruned.                                    *)
(***************************************************************************)
THEOREM SeatsCorrect == Spec => []SeatsInv
<1>1. Init => SeatsInv
    BY DEF Init, SeatsInv
<1>2. TypeOK /\ SeatsInv /\ [Next]_vars => SeatsInv'
    <2> SUFFICES ASSUME TypeOK, SeatsInv, [Next]_vars
                 PROVE  SeatsInv'
        OBVIOUS
    <2>0. CASE UNCHANGED sessionVars
        BY <2>0, SeatsInvShrinks DEF sessionVars
    <2>1. CASE UNCHANGED vars \/ Tick
        BY <2>0, <2>1 DEF vars, storeVars, Tick
    <2>2. CASE Sweep
        BY <2>2, SeatsInvDestroy DEF Sweep, ExpireSessions
    <2>3. ASSUME NEW t \in graceTimers, GraceTimerFires(t)
          PROVE  SeatsInv'
        BY <2>0, <2>3, SeatsInvDestroy DEF GraceTimerFires
    <2>4. ASSUME NEW r \in joinRetries, JoinRetryFires(r)
          PROVE  SeatsInv'
        BY <2>0, <2>4, SeatsInvJoinGone, SeatsInvTryJoin DEF JoinRetryFires
    <2>5. ASSUME NEW w \in Sockets, Connect(w) \/ PeerCloses(w) \/ RateLimited(w)
                 \/ UnclaimHandle(w)
          PROVE  SeatsInv'
        BY <2>0, <2>5 DEF Connect, PeerCloses, RateLimited, Refuse, UnclaimHandle,
           storeVars
    <2>6. ASSUME NEW w \in Sockets, ErrorEvent(w) \/ CloseEvent(w) \/ LeaveSession(w)
          PROVE  SeatsInv'
        <3>1. CASE HandleLeave(w)
            <4>1. live' = live /\ \A s \in live : participants'[s] \subseteq participants[s]
                BY <3>1 DEF HandleLeave, sessionVars, TypeOK, SessionTypeOK
            <4> QED BY <4>1, SeatsInvShrinks
        <3> QED BY <2>0, <2>6, <3>1 DEF ErrorEvent, CloseEvent, LeaveSession, OnEnd
    <2>7. ASSUME NEW w \in Sockets, SendMessage(w)
          PROVE  SeatsInv'
        BY <2>0, <2>7, SeatsInvDestroy
           DEF SendMessage, Refuse, storeVars, ExpireSessions
    <2>8. ASSUME NEW w \in Sockets, NEW h \in Handles, NEW authorised \in BOOLEAN,
                 ClaimHandle(w, h, authorised)
          PROVE  SeatsInv'
        BY <2>0, <2>8 DEF ClaimHandle, Refuse, storeVars
    <2>9. ASSUME NEW w \in Sockets, NEW s \in SessionIds, CreateSession(w, s)
          PROVE  SeatsInv'
        <3>1. CASE UNCHANGED storeVars
            BY <2>0, <3>1 DEF storeVars
        <3>2. CASE Destroy({s})
            BY <3>2, SeatsInvDestroy
        <3>3. CASE /\ live' = live \cup {s}
                   /\ participants' = [participants EXCEPT ![s] = {w}]
            BY <3>3, OneIsAtMostTwo, SeatsInvSeat
        <3> QED BY <2>9, <3>1, <3>2, <3>3
                DEF CreateSession, ReclaimEmpty, ExpireSessions, Refuse, Create
    <2>10. ASSUME NEW w \in Sockets, NEW s \in SessionIds, JoinSession(w, s)
           PROVE  SeatsInv'
        BY <2>0, <2>10, SeatsInvJoinGone, SeatsInvTryJoin
           DEF JoinSession, Refuse, storeVars
    <2>11. ASSUME NEW w \in Sockets, NEW h \in Handles, NEW s \in SessionIds,
                  RingHandle(w, h, s)
           PROVE  SeatsInv'
        <3>1. CASE UNCHANGED storeVars
            BY <2>0, <3>1 DEF storeVars
        <3>2. CASE Create(w, s)
            BY <3>2, OneIsAtMostTwo, SeatsInvSeat DEF Create
        <3> QED BY <2>11, <3>1, <3>2 DEF RingHandle, Refuse
    <2> QED BY <2>1, <2>2, <2>3, <2>4, <2>5, <2>6, <2>7, <2>8, <2>9, <2>10, <2>11
            DEF Next, Request, Connection, Timer
<1> QED BY <1>1, <1>2, TypeCorrect, PTL DEF Spec

THEOREM NoThirdSeat == Spec => []TwoSeats
<1>1. SeatsInv => TwoSeats
    BY DEF SeatsInv, AtMostTwo, TwoSeats
<1> QED BY <1>1, SeatsCorrect, PTL

----------------------------------------------------------------------------
(* Counters and caps.                                                      *)

(* The sockets whose end the relay has not seen.                           *)
Counted == {w \in Sockets : conn[w] \in {"open", "shutting", "closing"}}

(* WithinCaps as it is inductive: the sets that are counted are finite,    *)
(* though neither Sockets nor SessionIds need be.                          *)
ConnectionInv ==
    /\ IsFiniteSet(Counted)
    /\ connectionCounter = Cardinality(Counted)
    /\ connectionCounter <= MAX_RELAY_CONNECTIONS

LiveInv == IsFiniteSet(live) /\ Cardinality(live) <= MAX_RELAY_SESSIONS

LEMMA ConnectionKept ==
    ASSUME ConnectionInv, UNCHANGED <<connectionCounter, Counted>>
    PROVE  ConnectionInv'
BY DEF ConnectionInv

(* A session that expires shuts its sockets, which are counted until their *)
(* close events arrive.                                                    *)
LEMMA ExpireKeepsCounted ==
    ASSUME TypeOK, NEW S, ExpireSessions(S)
    PROVE  UNCHANGED <<connectionCounter, Counted>>
BY DEF TypeOK, ConnTypeOK, ExpireSessions, Counted

(* The first event that ends a socket takes one off the counter, which is  *)
(* not yet zero.                                                           *)
LEMMA EndCounts ==
    ASSUME TypeOK, ConnectionInv, NEW w \in Counted, OnEnd(w),
           NEW state \in {"failed", "closed"}, conn' = [conn EXCEPT ![w] = state]
    PROVE  ConnectionInv'
<1>1. Counted' = Counted \ {w}
    BY DEF Counted, TypeOK, ConnTypeOK
<1>2. IsFiniteSet(Counted') /\ Cardinality(Counted') = connectionCounter - 1
    BY <1>1, FS_RemoveElement DEF ConnectionInv
<1>3. connectionCounter \in Nat /\ connectionCounter - 1 \in Nat
    BY <1>2, FS_CardinalityType DEF TypeOK, ConnTypeOK
<1>4. connectionCounter' = connectionCounter - 1
    BY <1>3 DEF OnEnd
<1> QED BY <1>2, <1>3, <1>4, LimitAssumption DEF ConnectionInv

LEMMA ConnectionStep ==
    ASSUME TypeOK, ConnectionInv, [Next]_vars
    PROVE  ConnectionInv'
<1>0. CASE UNCHANGED connVars
    BY <1>0, ConnectionKept DEF connVars, Counted
<1>1. CASE UNCHANGED vars \/ Tick
    BY <1>0, <1>1 DEF vars, storeVars, Tick
<1>2. ASSUME NEW S, ExpireSessions(S)
      PROVE  ConnectionInv'
    BY <1>2, ExpireKeepsCounted, ConnectionKept
<1>3. CASE Timer
    BY <1>0, <1>2, <1>3 DEF Timer, GraceTimerFires, JoinRetryFires, JoinGone, TryJoin, Sweep
<1>4. CASE Request
    <2>1. ASSUME NEW w \in Sockets, NEW s \in SessionIds, CreateSession(w, s)
          PROVE  ConnectionInv'
        BY <1>0, <1>2, <2>1 DEF CreateSession, ReclaimEmpty, Refuse, storeVars
    <2>2. ASSUME NEW w \in Sockets, NEW s \in SessionIds, JoinSession(w, s)
          PROVE  ConnectionInv'
        BY <1>0, <1>2, <2>2 DEF JoinSession, JoinGone, TryJoin, Refuse, storeVars
    <2>3. ASSUME NEW w \in Sockets, NEW h \in Handles, NEW authorised \in BOOLEAN,
                 ClaimHandle(w, h, authorised)
          PROVE  ConnectionInv'
        BY <1>0, <2>3 DEF ClaimHandle, Refuse, storeVars
    <2>4. ASSUME NEW w \in Sockets, NEW h \in Handles, NEW s \in SessionIds,
                 RingHandle(w, h, s)
          PROVE  ConnectionInv'
        BY <1>0, <2>4 DEF RingHandle, Refuse, storeVars
    <2>5. ASSUME NEW w \in Sockets, RateLimited(w) \/ SendMessage(w) \/ LeaveSession(w)
                 \/ UnclaimHandle(w)
          PROVE  ConnectionInv'
        BY <1>0, <1>2, <2>5 DEF RateLimited, SendMessage, LeaveSession, UnclaimHandle,
           Refuse, storeVars
    <2> QED BY <1>4, <2>1, <2>2, <2>3, <2>4, <2>5 DEF Request
<1>5. ASSUME NEW w \in Sockets, Connect(w)
      PROVE  ConnectionInv'
    <2>1. CASE UNCHANGED connVars
        BY <1>0, <2>1
    <2>2. CASE /\ connectionCounter < MAX_RELAY_CONNECTIONS
               /\ conn' = [conn EXCEPT ![w] = "open"]
               /\ connectionCounter' = connectionCounter + 1
        <3>1. Counted' = Counted \cup {w} /\ w \notin Counted
            BY <1>5, <2>2 DEF Connect, Counted, TypeOK, ConnTypeOK
        <3>2. IsFiniteSet(Counted') /\ Cardinality(Counted') = connectionCounter + 1
            BY <3>1, FS_AddElement DEF ConnectionInv
        <3> QED BY <2>2, <3>2, LimitAssumption DEF ConnectionInv, TypeOK, ConnTypeOK
    <2> QED BY <1>5, <2>1, <2>2 DEF Connect
<1>6. ASSUME NEW w \in Sockets, PeerCloses(w)
      PROVE  ConnectionInv'
    BY <1>6, ConnectionKept DEF PeerCloses, Hears, Counted, TypeOK, ConnTypeOK
<1>7. ASSUME NEW w \in Sockets, ErrorEvent(w)
      PROVE  ConnectionInv'
    BY <1>7, EndCounts DEF ErrorEvent, Hears, Counted
<1>8. ASSUME NEW w \in Sockets, CloseEvent(w)
      PROVE  ConnectionInv'
    <2>1. CASE conn[w] = "failed"
        BY <1>8, <2>1, ConnectionKept DEF CloseEvent, Counted, TypeOK, ConnTypeOK
    <2>2. CASE conn[w] # "failed"
        BY <1>8, <2>2, EndCounts DEF CloseEvent, Counted
    <2> QED BY <2>1, <2>2
<1> QED BY <1>1, <1>3, <1>4, <1>5, <1>6, <1>7, <1>8 DEF Next, Connection

LEMMA LiveShrinks ==
    ASSUME LiveInv, live' \subseteq live
    PROVE  LiveInv'
<1>1. IsFiniteSet(live') /\ Cardinality(live') <= Cardinality(live)
    BY FS_Subset DEF LiveInv
<1>2. Cardinality(live') \in Nat /\ Cardinality(live) \in Nat
    BY <1>1, FS_CardinalityType DEF LiveInv
<1> QED BY <1>1, <1>2, LimitAssumption DEF LiveInv

LEMMA LiveCreate ==
    ASSUME LiveInv, NEW s, Cardinality(live) < MAX_RELAY_SESSIONS,
           live' = live \cup {s}
    PROVE  LiveInv'
<1>1. IsFiniteSet(live') /\ Cardinality(live') <= Cardinality(live) + 1
      /\ Cardinality(live) \in Nat /\ Cardinality(live') \in Nat
    BY FS_AddElement, FS_CardinalityType DEF LiveInv
<1> QED BY <1>1, LimitAssumption DEF LiveInv

(* What a step does to the set of sessions: it makes one when there is     *)
(* room, or makes none.                                                    *)
LEMMA LiveChange ==
    ASSUME [Next]_vars
    PROVE  \/ live' \subseteq live
           \/ /\ Cardinality(live) < MAX_RELAY_SESSIONS
              /\ \E s \in SessionIds : live' = live \cup {s}
<1>0. UNCHANGED sessionVars => live' \subseteq live
    BY DEF sessionVars
<1>1. CASE UNCHANGED vars \/ Tick
    BY <1>0, <1>1 DEF vars, storeVars, Tick
<1>2. CASE Timer
    BY <1>0, <1>2 DEF Timer, GraceTimerFires, JoinRetryFires, JoinGone, TryJoin,
       Sweep, ExpireSessions, Destroy
<1>3. CASE Connection
    BY <1>0, <1>3 DEF Connection, Connect, PeerCloses, ErrorEvent, CloseEvent, OnEnd,
       HandleLeave
<1>4. CASE Request
    <2>1. ASSUME NEW w \in Sockets, NEW s \in SessionIds, CreateSession(w, s)
          PROVE  \/ live' \subseteq live
                 \/ Cardinality(live) < MAX_RELAY_SESSIONS /\ live' = live \cup {s}
        BY <1>0, <2>1 DEF CreateSession, ReclaimEmpty, ExpireSessions, Destroy,
           Create, Refuse, storeVars
    <2>2. ASSUME NEW w \in Sockets, NEW s \in SessionIds, JoinSession(w, s)
          PROVE  live' \subseteq live
        BY <1>0, <2>2 DEF JoinSession, JoinGone, TryJoin, ExpireSessions, Destroy,
           Refuse, storeVars
    <2>3. ASSUME NEW w \in Sockets, NEW h \in Handles, NEW authorised \in BOOLEAN,
                 ClaimHandle(w, h, authorised)
          PROVE  live' \subseteq live
        BY <1>0, <2>3 DEF ClaimHandle, Refuse, storeVars
    <2>4. ASSUME NEW w \in Sockets, NEW h \in Handles, NEW s \in SessionIds,
                 RingHandle(w, h, s)
          PROVE  \/ live' \subseteq live
                 \/ Cardinality(live) < MAX_RELAY_SESSIONS /\ live' = live \cup {s}
        BY <1>0, <2>4 DEF RingHandle, Create, Refuse, storeVars
    <2>5. ASSUME NEW w \in Sockets, RateLimited(w) \/ SendMessage(w) \/ LeaveSession(w)
                 \/ UnclaimHandle(w)
          PROVE  live' \subseteq live
        BY <1>0, <2>5 DEF RateLimited, SendMessage, LeaveSession, UnclaimHandle,
           ExpireSessions, Destroy, HandleLeave, Refuse, storeVars
    <2> QED BY <1>4, <2>1, <2>2, <2>3, <2>4, <2>5 DEF Request
<1> QED BY <1>1, <1>2, <1>3, <1>4 DEF Next

(***************************************************************************)
(* The connection counter never drifts from the sockets it counts, and no  *)
(* more connections or sessions are admitted than the caps allow.          *)
(***************************************************************************)
THEOREM CapsHold == Spec => []WithinCaps
<1>1. Init => ConnectionInv /\ LiveInv
    <2> SUFFICES ASSUME Init PROVE ConnectionInv /\ LiveInv
        OBVIOUS
    <2>1. Counted = {} /\ live = {}
        BY DEF Init, Counted
    <2> QED BY <2>1, FS_EmptySet, LimitAssumption DEF Init, ConnectionInv, LiveInv
<1>2. LiveInv /\ [Next]_vars => LiveInv'
    BY LiveChange, LiveShrinks, LiveCreate
<1>3. ConnectionInv /\ LiveInv => WithinCaps
    BY DEF ConnectionInv, LiveInv, Counted, WithinCaps
<1> QED BY <1>1, <1>2, <1>3, ConnectionStep, TypeCorrect, PTL DEF Spec

----------------------------------------------------------------------------
(* The documented life of a session.                                       *)

LEMMA Counting ==
    /\ Cardinality({}) = 0
    /\ \A w : Cardinality({w}) = 1
<1>1. Cardinality({}) = 0
    BY FS_EmptySet
<1>2. ASSUME NEW w PROVE Cardinality({w}) = 1
    BY FS_Singleton, Zenon
<1> QED BY <1>1, <1>2

(* Whoever leaves takes one off; whoever leaves alone was the only one.    *)
LEMMA CountLeaving ==
    ASSUME NEW P, AtMostTwo(P), NEW w \in P
    PROVE  /\ Cardinality(P \ {w}) = Cardinality(P) - 1
           /\ Cardinality(P) > 0
           /\ Cardinality(P) = 1 <=> P = {w}
<1>1. IsFiniteSet(P \ {w}) /\ Cardinality(P \ {w}) = Cardinality(P) - 1
    BY FS_RemoveElement DEF AtMostTwo
<1>2. Cardinality(P) \in Nat /\ Cardinality(P \ {w}) \in Nat
    BY <1>1, FS_CardinalityType DEF AtMostTwo
<1>3. Cardinality(P) = 1 => P \ {w} = {}
    BY <1>1, <1>2, FS_EmptySet
<1>4. Cardinality({w}) = 1
    BY Counting
<1> QED BY <1>1, <1>2, <1>3, <1>4

LEMMA CreateIsOpen ==
    ASSUME TypeOK, NEW w, NEW s \in SessionIds, s \notin live, Create(w, s),
           UNCHANGED <<now, timerVars>>
    PROVE  Lifecycle!Open(s)
<1>1. \A x \in SessionIds :
          Cardinality(participants'[x]) = IF x = s THEN 1 ELSE Cardinality(participants[x])
    BY Counting DEF Create, TypeOK, SessionTypeOK
<1> QED BY <1>1 DEF Lifecycle!Open, Create, timerVars

LEMMA ReseatIsEnter ==
    ASSUME TypeOK, NEW s \in live, ~IsExpired(s), CancelPendingDestroy({s}), NEW P,
           participants' = [participants EXCEPT ![s] = P],
           Cardinality(P) \in 1..2, Cardinality(P) <= Cardinality(participants[s]) + 1,
           UNCHANGED <<now, live, expiresAt>>
    PROVE  Lifecycle!Enter(s)
<1>1. s \in SessionIds /\ expiresAt[s] \in Nat /\ now \in Nat
    BY NowIsNat DEF TypeOK, SessionTypeOK
<1>2. \A x \in SessionIds :
          Cardinality(participants'[x]) =
              IF x = s THEN Cardinality(P) ELSE Cardinality(participants[x])
    BY DEF TypeOK, SessionTypeOK
<1>3. now < expiresAt[s]
    BY <1>1 DEF IsExpired
<1>4. pendingDestroy' = [pendingDestroy EXCEPT ![s] = Lifecycle!Never]
    BY DEF CancelPendingDestroy, TypeOK, TimerTypeOK, NoTimer, Lifecycle!Never
<1>5. [x \in SessionIds |-> Cardinality(participants'[x])] =
          [[x \in SessionIds |-> Cardinality(participants[x])] EXCEPT ![s] = Cardinality(P)]
    BY <1>2
<1> QED BY <1>1, <1>3, <1>4, <1>5 DEF Lifecycle!Enter

LEMMA TryJoinIsEnter ==
    ASSUME TypeOK, SeatsInv, NEW w, NEW s \in live, ~IsExpired(s), TryJoin(w, s),
           UNCHANGED now
    PROVE  Lifecycle!Enter(s)
<1> DEFINE P == IF Full(s) THEN Alive(s) ELSE Alive(s) \cup {w}
<1>1. IsFiniteSet(participants[s]) /\ Cardinality(participants[s]) \in Nat
      /\ Cardinality(participants[s]) <= 2
    BY FS_CardinalityType DEF SeatsInv, AtMostTwo
<1>2. IsFiniteSet(Alive(s)) /\ Cardinality(Alive(s)) <= Cardinality(participants[s])
      /\ Cardinality(Alive(s)) \in Nat
    BY <1>1, FS_Subset, FS_CardinalityType DEF Alive
<1>3. Cardinality(P) \in 1..2 /\ Cardinality(P) <= Cardinality(participants[s]) + 1
    <2>1. CASE Full(s)
        BY <1>1, <1>2, <2>1 DEF Full
    <2>2. CASE ~Full(s)
        <3>1. Cardinality(P) = IF w \in Alive(s) THEN Cardinality(Alive(s))
                                                 ELSE Cardinality(Alive(s)) + 1
            BY <1>2, <2>2, FS_AddElement
        <3>2. Cardinality(Alive(s)) < 2
            BY <1>2, <2>2 DEF Full
        <3>3. w \in Alive(s) => Cardinality(Alive(s)) # 0
            BY <1>2, FS_EmptySet
        <3> QED BY <1>1, <1>2, <3>1, <3>2, <3>3
    <2> QED BY <2>1, <2>2
<1> HIDE DEF P
<1>4. participants' = [participants EXCEPT ![s] = P]
    BY DEF TryJoin, P
<1> QED BY <1>3, <1>4, ReseatIsEnter DEF TryJoin

LEMMA DestroyIsEnd ==
    ASSUME TypeOK, NEW S \in SUBSET SessionIds, Destroy(S), UNCHANGED now,
           pendingDestroy' = [x \in SessionIds |-> IF x \in S THEN NoTimer
                                                   ELSE pendingDestroy[x]]
    PROVE  Lifecycle!End(S)
<1>1. \A x \in SessionIds :
          Cardinality(participants'[x]) = IF x \in S THEN 0 ELSE Cardinality(participants[x])
    BY Counting DEF Destroy
<1> QED BY <1>1 DEF Lifecycle!End, Lifecycle!Never, Destroy, NoTimer

LEMMA ExpireIsExpire ==
    ASSUME TypeOK, NEW S \in SUBSET live, \A s \in S : IsExpired(s), ExpireSessions(S),
           UNCHANGED now
    PROVE  S \in SUBSET SessionIds /\ Lifecycle!Expire(S)
<1>1. S \in SUBSET SessionIds
    BY DEF TypeOK, SessionTypeOK
<1>2. Lifecycle!End(S)
    BY <1>1, DestroyIsEnd DEF ExpireSessions, CancelPendingDestroy
<1> QED BY <1>1, <1>2 DEF Lifecycle!Expire, IsExpired

LEMMA GraceTimerIsGraceEnds ==
    ASSUME TypeOK, EmptyIffDoomed, NEW t \in graceTimers, GraceTimerFires(t)
    PROVE  t.sid \in SessionIds /\ Lifecycle!GraceEnds(t.sid)
<1>1. t.sid \in SessionIds /\ t.sid \in live /\ participants[t.sid] = {}
      /\ pendingDestroy[t.sid] = t.at
    BY DEF TypeOK, TimerTypeOK, GraceTimer, EmptyIffDoomed, EmptyIffPending, ArmedIffPending
<1>2. Destroy({t.sid}) /\ UNCHANGED now /\ now >= t.at
    BY <1>1 DEF GraceTimerFires
<1>3. pendingDestroy' = [x \in SessionIds |-> IF x \in {t.sid} THEN NoTimer
                                              ELSE pendingDestroy[x]]
    BY DEF GraceTimerFires, TypeOK, TimerTypeOK
<1>4. Lifecycle!End({t.sid})
    BY <1>1, <1>2, <1>3, DestroyIsEnd
<1> QED BY <1>1, <1>2, <1>4, Counting DEF Lifecycle!GraceEnds

LEMMA HandleLeaveIsLeave ==
    ASSUME TypeOK, SeatsInv, EmptyIffDoomed, NEW w, HandleLeave(w), UNCHANGED now
    PROVE  \/ UNCHANGED <<sessionVars, timerVars>>
           \/ \E s \in SessionIds : Lifecycle!Leave(s)
<1>1. CASE UNCHANGED <<sessionVars, timerVars>>
    BY <1>1
<1>2. ASSUME NEW s \in live, w \in participants[s],
             participants' = [participants EXCEPT ![s] = @ \ {w}],
             UNCHANGED <<live, expiresAt>>,
             \/ participants[s] # {w} /\ UNCHANGED timerVars
             \/ participants[s] = {w} /\ ScheduleDestroyIfEmpty(s)
      PROVE  s \in SessionIds /\ Lifecycle!Leave(s)
    <2> DEFINE n == Cardinality(participants[s])
    <2>1. s \in SessionIds /\ pendingDestroy \in [SessionIds -> Nat \cup {NoTimer}]
        BY DEF TypeOK, SessionTypeOK, TimerTypeOK
    <2>2. n > 0 /\ Cardinality(participants[s] \ {w}) = n - 1 /\ (n = 1 <=> participants[s] = {w})
        BY <1>2, CountLeaving DEF SeatsInv
    <2>3. \A x \in SessionIds :
              Cardinality(participants'[x]) = IF x = s THEN n - 1 ELSE Cardinality(participants[x])
        BY <1>2, <2>1, <2>2 DEF TypeOK, SessionTypeOK
    <2>4. pendingDestroy' = [pendingDestroy EXCEPT ![s] =
              IF n = 1 THEN now + RECONNECT_GRACE ELSE Lifecycle!Never]
        <3>1. CASE participants[s] = {w}
            BY <1>2, <2>2, <3>1 DEF ScheduleDestroyIfEmpty
        <3>2. CASE participants[s] # {w}
            <4>1. pendingDestroy[s] = Lifecycle!Never /\ pendingDestroy' = pendingDestroy
                BY <1>2, <2>1, <3>2 DEF EmptyIffDoomed, EmptyIffPending, timerVars,
                   NoTimer, Lifecycle!Never
            <4> QED BY <2>1, <2>2, <3>2, <4>1
        <3> QED BY <3>1, <3>2
    <2>5. [x \in SessionIds |-> Cardinality(participants'[x])] =
              [[x \in SessionIds |-> Cardinality(participants[x])] EXCEPT ![s] = n - 1]
        BY <2>1, <2>3
    <2> QED BY <1>2, <2>1, <2>2, <2>4, <2>5 DEF Lifecycle!Leave
<1> QED BY <1>1, <1>2 DEF HandleLeave

LEMMA LifecycleStep ==
    ASSUME TypeOK, SeatsInv, EmptyIffDoomed, [Next]_vars
    PROVE  [Lifecycle!Next]_(Lifecycle!lifecycleVars)
<1>0. CASE UNCHANGED <<now, sessionVars, timerVars>>
    BY <1>0 DEF sessionVars, timerVars, Lifecycle!lifecycleVars
<1>1. CASE UNCHANGED vars
    BY <1>0, <1>1 DEF vars, storeVars
<1>2. CASE Tick
    <2>1. Lifecycle!Tick
        BY <1>2 DEF Tick, storeVars, sessionVars, timerVars, Lifecycle!Tick
    <2> QED BY <2>1 DEF Lifecycle!Next
<1>3. ASSUME NEW S \in SUBSET live, \A s \in S : IsExpired(s), ExpireSessions(S),
             UNCHANGED now
      PROVE  Lifecycle!Next
    BY <1>3, ExpireIsExpire DEF Lifecycle!Next
<1>4. ASSUME NEW w, NEW s \in live, ~IsExpired(s), TryJoin(w, s), UNCHANGED now
      PROVE  Lifecycle!Next
    <2>1. s \in SessionIds
        BY DEF TypeOK, SessionTypeOK
    <2> QED BY <1>4, <2>1, TryJoinIsEnter DEF Lifecycle!Next
<1>5. ASSUME NEW w, NEW s \in SessionIds, s \notin live, Create(w, s),
             UNCHANGED <<now, timerVars>>
      PROVE  Lifecycle!Next
    BY <1>5, CreateIsOpen DEF Lifecycle!Next
<1>6. ASSUME NEW w \in Sockets, NEW s \in SessionIds, JoinGone(w, s), UNCHANGED now
      PROVE  [Lifecycle!Next]_(Lifecycle!lifecycleVars)
    <2>1. CASE UNCHANGED <<sessionVars, timerVars>>
        BY <1>0, <1>6, <2>1
    <2>2. CASE s \in live /\ IsExpired(s) /\ ExpireSessions({s})
        <3>1. {s} \in SUBSET live
            BY <2>2
        <3> QED BY <1>3, <1>6, <2>2, <3>1
    <2> QED BY <1>6, <2>1, <2>2 DEF JoinGone
<1>7. ASSUME NEW w, HandleLeave(w), UNCHANGED now
      PROVE  [Lifecycle!Next]_(Lifecycle!lifecycleVars)
    BY <1>0, <1>7, HandleLeaveIsLeave DEF Lifecycle!Next
<1>8. CASE Sweep
    <2>1. Expired \in SUBSET live /\ \A s \in Expired : IsExpired(s)
        BY DEF Expired
    <2> QED BY <1>3, <1>8, <2>1 DEF Sweep
<1>9. ASSUME NEW t \in graceTimers, GraceTimerFires(t)
      PROVE  Lifecycle!Next
    BY <1>9, GraceTimerIsGraceEnds DEF Lifecycle!Next
<1>10. ASSUME NEW r \in joinRetries, JoinRetryFires(r)
       PROVE  [Lifecycle!Next]_(Lifecycle!lifecycleVars)
    <2>1. r.socket \in Sockets /\ r.sid \in SessionIds
        BY DEF TypeOK, JoinTimer
    <2> QED BY <1>0, <1>4, <1>6, <1>10, <2>1 DEF JoinRetryFires
<1>11. CASE Connection
    BY <1>0, <1>7, <1>11 DEF Connection, Connect, PeerCloses, ErrorEvent, CloseEvent, OnEnd
<1>12. ASSUME NEW w \in Sockets, NEW s \in SessionIds, CreateSession(w, s)
       PROVE  [Lifecycle!Next]_(Lifecycle!lifecycleVars)
    <2>1. CASE UNCHANGED storeVars
        BY <1>0, <1>12, <2>1 DEF CreateSession, storeVars
    <2>2. CASE s \in live /\ IsExpired(s) /\ ExpireSessions({s})
        <3>1. {s} \in SUBSET live
            BY <2>2
        <3> QED BY <1>3, <1>12, <2>2, <3>1 DEF CreateSession
    <2>3. CASE /\ s \in live /\ participants[s] = {} /\ ~IsExpired(s)
               /\ CancelPendingDestroy({s})
               /\ participants' = [participants EXCEPT ![s] = {w}]
               /\ UNCHANGED <<live, expiresAt>>
        <3>1. Cardinality({w}) = 1 /\ Cardinality(participants[s]) = 0
            BY <2>3, Counting, Zenon
        <3>2. /\ Cardinality({w}) \in 1..2
              /\ Cardinality({w}) <= Cardinality(participants[s]) + 1
              /\ UNCHANGED now
            BY <1>12, <3>1 DEF CreateSession
        <3> DEFINE P == {w}
        <3> HIDE DEF P
        <3>3. participants' = [participants EXCEPT ![s] = P] /\ Cardinality(P) \in 1..2
              /\ Cardinality(P) <= Cardinality(participants[s]) + 1
            BY <2>3, <3>2 DEF P
        <3>4. Lifecycle!Enter(s)
            BY <2>3, <3>2, <3>3, ReseatIsEnter
        <3> QED BY <3>4 DEF Lifecycle!Next
    <2>4. CASE s \notin live /\ Create(w, s) /\ UNCHANGED timerVars
        BY <1>5, <1>12, <2>4 DEF CreateSession
    <2> QED BY <1>12, <2>1, <2>2, <2>3, <2>4 DEF CreateSession, ReclaimEmpty, Refuse
<1>13. ASSUME NEW w \in Sockets, NEW s \in SessionIds, JoinSession(w, s)
       PROVE  [Lifecycle!Next]_(Lifecycle!lifecycleVars)
    BY <1>0, <1>4, <1>6, <1>13 DEF JoinSession, Refuse, storeVars
<1>14. ASSUME NEW w \in Sockets, NEW h \in Handles, NEW authorised \in BOOLEAN,
              ClaimHandle(w, h, authorised)
       PROVE  [Lifecycle!Next]_(Lifecycle!lifecycleVars)
    BY <1>0, <1>14 DEF ClaimHandle, Refuse, storeVars
<1>15. ASSUME NEW w \in Sockets, NEW h \in Handles, NEW s \in SessionIds, RingHandle(w, h, s)
       PROVE  [Lifecycle!Next]_(Lifecycle!lifecycleVars)
    BY <1>0, <1>5, <1>15 DEF RingHandle, FreshId, Refuse, storeVars
<1>16. ASSUME NEW w \in Sockets, RateLimited(w) \/ UnclaimHandle(w) \/ LeaveSession(w)
       PROVE  [Lifecycle!Next]_(Lifecycle!lifecycleVars)
    BY <1>0, <1>7, <1>16 DEF RateLimited, UnclaimHandle, LeaveSession, Refuse, storeVars
<1>17. ASSUME NEW w \in Sockets, SendMessage(w)
       PROVE  [Lifecycle!Next]_(Lifecycle!lifecycleVars)
    <2>1. \A s \in live : {s} \in SUBSET live /\ \A x \in {s} : x = s
        OBVIOUS
    <2> QED BY <1>0, <1>3, <1>17, <2>1 DEF SendMessage, Refuse, storeVars
<1> QED BY <1>1, <1>2, <1>8, <1>9, <1>10, <1>11, <1>12, <1>13, <1>14, <1>15, <1>16, <1>17
        DEF Next, Request, Timer

(***************************************************************************)
(* The relay implements the documented life of a session: whatever the     *)
(* sockets, handles and timers do, a step opens one session for one        *)
(* person, lets someone in before the end of its lifetime, lets someone    *)
(* out, or ends it when its grace or its lifetime is over.                 *)
(***************************************************************************)
THEOREM RelayImplementsLifecycle == Spec => ImplementsLifecycle
<1>1. Init => Lifecycle!Init
    <2>1. Init => \A s \in SessionIds : Cardinality(participants[s]) = 0
        BY Counting DEF Init
    <2> QED BY <2>1 DEF Init, Lifecycle!Init, Lifecycle!Never, NoTimer
<1> QED BY <1>1, LifecycleStep, SeatsCorrect, EmptySessionsAreDoomed, TypeCorrect, PTL
        DEF Spec, ImplementsLifecycle, Lifecycle!Spec

----------------------------------------------------------------------------
(* Frames.                                                                 *)

LEMMA SentIs ==
    ASSUME NEW ws, NEW t, NEW f \in Send(ws, t)
    PROVE  f.type = t /\ f.to \in ws
BY DEF Send

LEMMA OpenIsSent ==
    ASSUME NEW ws, NEW t, NEW w \in ws, conn[w] = "open"
    PROVE  \E f \in Send(ws, t) : f.to = w /\ f.type = t
<1>1. [to |-> w, type |-> t] \in Send(ws, t)
    BY DEF Send
<1> QED BY <1>1

\* What a seated client takes as news of its session.
News == {"SESSION_CREATED", "RING_READY", "PARTNER_JOINED", "PARTNER_LEFT"}

\* A step that sends none of these frames.
Silent == \A f \in out' : f.type \notin News \cup {"MESSAGE", "SESSION_FULL"}

LEMMA SilentFrames ==
    /\ \A S : \A f \in ExpiryFrames(S) : f.type = "SESSION_EXPIRED"
    /\ \A w, code : Refuse(w, code) => \A f \in out' : f.type = code
BY SentIs DEF ExpiryFrames, Refuse

LEMMA JoinGoneSilent ==
    ASSUME NEW w, NEW s, JoinGone(w, s)
    PROVE  Silent
BY SilentFrames, SentIs DEF JoinGone, Silent, News

(* The steps that send nothing a client acts on as news.                   *)
LEMMA SilentTimers ==
    ASSUME NEW t, Tick \/ Sweep \/ GraceTimerFires(t)
    PROVE  Silent
BY SilentFrames DEF Tick, Sweep, GraceTimerFires, Silent, News

LEMMA SilentConnections ==
    ASSUME NEW w, Connect(w) \/ PeerCloses(w) \/ RateLimited(w) \/ UnclaimHandle(w)
    PROVE  Silent
BY SilentFrames DEF Connect, PeerCloses, RateLimited, UnclaimHandle, Silent, News

LEMMA SilentClaims ==
    ASSUME NEW w, NEW h, NEW authorised \in BOOLEAN,
           ClaimHandle(w, h, authorised)
    PROVE  Silent
BY SilentFrames, SentIs DEF ClaimHandle, Silent, News

LEMMA LeaveFrames ==
    ASSUME NEW w, HandleLeave(w)
    PROVE  \A f \in out' : f.type = "PARTNER_LEFT"
<1>1. out' = {} \/ \E s \in live : out' = Send(participants[s] \ {w}, "PARTNER_LEFT")
    BY Zenon DEF HandleLeave
<1>2. ASSUME NEW s, out' = Send(participants[s] \ {w}, "PARTNER_LEFT")
      PROVE  \A f \in out' : f.type = "PARTNER_LEFT"
    BY <1>2, SentIs
<1> QED BY <1>1, <1>2

LEMMA JoinFrameTypes ==
    ASSUME NEW w, NEW s, NEW f \in JoinFrames(w, s)
    PROVE  f.type \in {"SESSION_CREATED", "PARTNER_JOINED"} /\ f.to \in Alive(s) \cup {w}
BY SentIs DEF JoinFrames

----------------------------------------------------------------------------
(* SESSION_FULL.                                                           *)

\* A set of two or more has two different members.
LEMMA TwoOfThem ==
    ASSUME NEW P, IsFiniteSet(P), Cardinality(P) >= 2
    PROVE  \E p, q \in P : p # q
<1>1. PICK p \in P : TRUE
    BY FS_EmptySet
<1>2. Cardinality({p}) = 1
    BY Counting
<1>3. P # {p}
    BY <1>2
<1> QED BY <1>1, <1>3

FullHonestly ==
    \A w \in Sockets :
        [to |-> w, type |-> "SESSION_FULL"] \in out'
            => \E s \in live : \E p, q \in participants[s] :
                   p # q /\ conn[p] = "open" /\ conn[q] = "open"

LEMMA NoneFull ==
    ASSUME \A f \in out' : f.type # "SESSION_FULL"
    PROVE  FullHonestly
BY DEF FullHonestly

LEMMA FullStep ==
    ASSUME TypeOK, SeatsInv, Next
    PROVE  FullHonestly
<1>0. CASE Silent
    BY <1>0, NoneFull DEF Silent
<1>1. CASE Tick \/ Sweep
    BY <1>0, <1>1, SilentTimers
<1>2. ASSUME NEW t \in graceTimers, GraceTimerFires(t)
      PROVE  FullHonestly
    BY <1>0, <1>2, SilentTimers
<1>3. ASSUME NEW r \in joinRetries, JoinRetryFires(r)
      PROVE  FullHonestly
    <2>1. CASE out' = {}
        BY <2>1, NoneFull
    <2>2. CASE JoinGone(r.socket, r.sid)
        BY <1>0, <2>2, JoinGoneSilent
    <2>3. CASE out' = JoinFrames(r.socket, r.sid)
        BY <2>3, JoinFrameTypes, NoneFull
    <2>4. CASE r.sid \in live /\ Full(r.sid)
        <3>1. IsFiniteSet(Alive(r.sid))
            BY <2>4, FewerAreAtMostTwo DEF SeatsInv, Alive, AtMostTwo
        <3>2. PICK p \in Alive(r.sid), q \in Alive(r.sid) : p # q
            BY <2>4, <3>1, TwoOfThem DEF Full
        <3> QED BY <2>4, <3>2 DEF FullHonestly, Alive
    <2> QED BY <1>3, <2>1, <2>2, <2>3, <2>4 DEF JoinRetryFires
<1>4. ASSUME NEW w \in Sockets, Connect(w) \/ PeerCloses(w) \/ RateLimited(w) \/ UnclaimHandle(w)
      PROVE  FullHonestly
    BY <1>0, <1>4, SilentConnections
<1>5. ASSUME NEW w \in Sockets, ErrorEvent(w) \/ CloseEvent(w) \/ LeaveSession(w)
      PROVE  FullHonestly
    BY <1>5, LeaveFrames, NoneFull DEF ErrorEvent, CloseEvent, LeaveSession, OnEnd
<1>6. ASSUME NEW w \in Sockets, SendMessage(w)
      PROVE  FullHonestly
    <2>1. CASE Refuse(w, "NOT_IN_SESSION")
        BY <2>1, SilentFrames, NoneFull
    <2>2. ASSUME NEW s, out' = ExpiryFrames({s}) \/ out' = Send(participants[s] \ {w}, "MESSAGE")
          PROVE  FullHonestly
        BY <2>2, SilentFrames, SentIs, NoneFull
    <2> QED BY <1>6, <2>1, <2>2 DEF SendMessage
<1>7. ASSUME NEW w \in Sockets, NEW h \in Handles, NEW authorised \in BOOLEAN,
             ClaimHandle(w, h, authorised)
      PROVE  FullHonestly
    BY <1>0, <1>7, SilentClaims
<1>8. ASSUME NEW w \in Sockets, NEW s \in SessionIds, CreateSession(w, s)
      PROVE  FullHonestly
    BY <1>8, SilentFrames, SentIs, NoneFull DEF CreateSession, ReclaimEmpty
<1>9. ASSUME NEW w \in Sockets, NEW s \in SessionIds, JoinSession(w, s)
      PROVE  FullHonestly
    <2>1. CASE JoinGone(w, s)
        BY <1>0, <2>1, JoinGoneSilent
    <2> QED BY <1>9, <2>1, SilentFrames, JoinFrameTypes, NoneFull DEF JoinSession
<1>10. ASSUME NEW w \in Sockets, NEW h \in Handles, NEW s \in SessionIds, RingHandle(w, h, s)
       PROVE  FullHonestly
    BY <1>10, SilentFrames, SentIs, NoneFull DEF RingHandle
<1> QED BY <1>1, <1>2, <1>3, <1>4, <1>5, <1>6, <1>7, <1>8, <1>9, <1>10
        DEF Next, Request, Connection, Timer

(***************************************************************************)
(* Nobody is turned away with SESSION_FULL by the seats of the dead.       *)
(***************************************************************************)
THEOREM FullMeansFull == Spec => FullIsHonest
<1>1. TypeOK /\ SeatsInv /\ [Next]_vars => [FullHonestly]_vars
    BY FullStep
<1> QED BY <1>1, SeatsCorrect, TypeCorrect, PTL DEF Spec, FullIsHonest, FullHonestly
----------------------------------------------------------------------------
(* Nothing is served late.                                                 *)

ServedTimely ==
    \A f \in out' :
        f.type \in {"SESSION_CREATED", "RING_READY", "PARTNER_JOINED", "MESSAGE"}
            => \E s \in live' : f.to \in participants'[s] /\ now < expiresAt'[s]

LEMMA NoneLate ==
    ASSUME \A f \in out' : f.type \notin {"SESSION_CREATED", "RING_READY",
                                          "PARTNER_JOINED", "MESSAGE"}
    PROVE  ServedTimely
BY DEF ServedTimely

LEMMA NotExpired ==
    ASSUME TypeOK, NEW s \in live, ~IsExpired(s)
    PROVE  s \in SessionIds /\ now < expiresAt[s]
<1>1. s \in SessionIds /\ expiresAt[s] \in Nat /\ now \in Nat
    BY NowIsNat DEF TypeOK, SessionTypeOK
<1> QED BY <1>1 DEF IsExpired

LEMMA CreatedTimely ==
    ASSUME TypeOK, NEW w, NEW s \in SessionIds, Create(w, s)
    PROVE  s \in live' /\ w \in participants'[s] /\ now < expiresAt'[s]
BY NowIsNat, TimeAssumption DEF Create, TypeOK, SessionTypeOK

LEMMA JoinedTimely ==
    ASSUME TypeOK, NEW w, NEW s \in live, ~IsExpired(s), ~Full(s), TryJoin(w, s),
           out' = JoinFrames(w, s)
    PROVE  ServedTimely
<1>1. s \in live' /\ participants'[s] = Alive(s) \cup {w} /\ now < expiresAt'[s]
    BY NotExpired DEF TryJoin, TypeOK, SessionTypeOK
<1> QED BY <1>1, JoinFrameTypes DEF ServedTimely

LEMMA TimelyStep ==
    ASSUME TypeOK, Next
    PROVE  ServedTimely
<1>0. CASE Silent
    BY <1>0, NoneLate DEF Silent, News
<1>1. CASE Tick \/ Sweep
    BY <1>0, <1>1, SilentTimers
<1>2. ASSUME NEW t \in graceTimers, GraceTimerFires(t)
      PROVE  ServedTimely
    BY <1>0, <1>2, SilentTimers
<1>3. ASSUME NEW r \in joinRetries, JoinRetryFires(r)
      PROVE  ServedTimely
    <2>1. CASE out' = {} \/ out' = Send({r.socket}, "SESSION_FULL")
        BY <2>1, SentIs, NoneLate
    <2>2. CASE JoinGone(r.socket, r.sid)
        BY <1>0, <2>2, JoinGoneSilent
    <2>3. CASE /\ r.sid \in live /\ ~IsExpired(r.sid) /\ ~Full(r.sid)
               /\ TryJoin(r.socket, r.sid) /\ out' = JoinFrames(r.socket, r.sid)
        BY <2>3, JoinedTimely
    <2> QED BY <1>3, <2>1, <2>2, <2>3 DEF JoinRetryFires
<1>4. ASSUME NEW w \in Sockets, Connect(w) \/ PeerCloses(w) \/ RateLimited(w) \/ UnclaimHandle(w)
      PROVE  ServedTimely
    BY <1>0, <1>4, SilentConnections
<1>5. ASSUME NEW w \in Sockets, ErrorEvent(w) \/ CloseEvent(w) \/ LeaveSession(w)
      PROVE  ServedTimely
    BY <1>5, LeaveFrames, NoneLate DEF ErrorEvent, CloseEvent, LeaveSession, OnEnd
<1>6. ASSUME NEW w \in Sockets, SendMessage(w)
      PROVE  ServedTimely
    <2>1. CASE Refuse(w, "NOT_IN_SESSION")
        BY <2>1, SilentFrames, NoneLate
    <2>2. ASSUME NEW s, out' = ExpiryFrames({s})
          PROVE  ServedTimely
        BY <2>2, SilentFrames, NoneLate
    <2>3. ASSUME NEW s \in live, ~IsExpired(s), UNCHANGED sessionVars,
                 out' = Send(participants[s] \ {w}, "MESSAGE")
          PROVE  ServedTimely
        BY <2>3, NotExpired, SentIs DEF sessionVars, ServedTimely
    <2> QED BY <1>6, <2>1, <2>2, <2>3 DEF SendMessage
<1>7. ASSUME NEW w \in Sockets, NEW h \in Handles, NEW authorised \in BOOLEAN,
             ClaimHandle(w, h, authorised)
      PROVE  ServedTimely
    BY <1>0, <1>7, SilentClaims
<1>8. ASSUME NEW w \in Sockets, NEW s \in SessionIds, CreateSession(w, s)
      PROVE  ServedTimely
    <2>1. ASSUME NEW code \in {"ALREADY_IN_SESSION", "SESSION_EXISTS", "SERVER_BUSY"},
                 Refuse(w, code)
          PROVE  ServedTimely
        BY <2>1, SilentFrames, NoneLate
    <2>2. CASE out' = ExpiryFrames({s}) \cup Send({w}, "ERR_SESSION_EXPIRED")
        BY <2>2, SilentFrames, SentIs, NoneLate
    <2>3. CASE /\ s \in live /\ ~IsExpired(s) /\ UNCHANGED <<live, expiresAt>>
               /\ participants' = [participants EXCEPT ![s] = {w}]
               /\ out' = Send({w}, "SESSION_CREATED")
        <3>1. s \in live' /\ w \in participants'[s] /\ now < expiresAt'[s]
            BY <2>3, NotExpired DEF TypeOK, SessionTypeOK
        <3> QED BY <2>3, <3>1, SentIs DEF ServedTimely
    <2>4. CASE Create(w, s) /\ out' = Send({w}, "SESSION_CREATED")
        BY <2>4, CreatedTimely, SentIs DEF ServedTimely
    <2> QED BY <1>8, <2>1, <2>2, <2>3, <2>4 DEF CreateSession, ReclaimEmpty
<1>9. ASSUME NEW w \in Sockets, NEW s \in SessionIds, JoinSession(w, s)
      PROVE  ServedTimely
    <2>1. CASE JoinGone(w, s)
        BY <1>0, <2>1, JoinGoneSilent
    <2>2. CASE Refuse(w, "ALREADY_IN_SESSION") \/ out' = {}
        BY <2>2, SilentFrames, NoneLate
    <2> QED BY <1>9, <2>1, <2>2, JoinedTimely DEF JoinSession
<1>10. ASSUME NEW w \in Sockets, NEW h \in Handles, NEW s \in SessionIds, RingHandle(w, h, s)
       PROVE  ServedTimely
    <2>1. ASSUME NEW code \in {"ALREADY_IN_SESSION", "HANDLE_UNAVAILABLE", "HANDLE_BUSY",
                               "SERVER_BUSY"}, Refuse(w, code)
          PROVE  ServedTimely
        BY <2>1, SilentFrames, NoneLate
    <2>2. CASE /\ Create(w, s)
               /\ out' = Send({w}, "RING_READY") \cup Send({byHandle[h]}, "INCOMING_RING")
        BY <2>2, CreatedTimely, SentIs DEF ServedTimely
    <2> QED BY <1>10, <2>1, <2>2 DEF RingHandle
<1> QED BY <1>1, <1>2, <1>3, <1>4, <1>5, <1>6, <1>7, <1>8, <1>9, <1>10
        DEF Next, Request, Connection, Timer

(***************************************************************************)
(* Nobody is seated, or given a partner's message, in a session whose      *)
(* lifetime is over, however late the sweeper comes.                       *)
(***************************************************************************)
THEOREM NothingIsServedLate == Spec => ServedInTime
<1>1. TypeOK /\ [Next]_vars => [ServedTimely]_vars
    BY TimelyStep
<1> QED BY <1>1, TypeCorrect, PTL DEF Spec, ServedInTime, ServedTimely

----------------------------------------------------------------------------
(* Alone or paired.                                                        *)

AloneNews == {"SESSION_CREATED", "RING_READY", "PARTNER_LEFT"}

\* How ViewNext updates the history.
Retold ==
    told' = [w \in Sockets |->
        IF ~Seated(w)' \/ conn'[w] # "open" THEN "nothing"
        ELSE IF WasSent(w, AloneNews) THEN "alone"
        ELSE IF WasSent(w, {"PARTNER_JOINED"}) THEN "paired"
        ELSE told[w]]

\* A participant hears nothing new of a session that is as full as before, or
\* hears what it has become.
RightlyTold(s, p) ==
    \/ /\ s \in live /\ p \in participants[s] /\ conn[p] = "open"
       /\ Cardinality(participants'[s]) = Cardinality(participants[s])
       /\ ~WasSent(p, News)
    \/ /\ Cardinality(participants'[s]) = 2
       /\ WasSent(p, {"PARTNER_JOINED"}) /\ ~WasSent(p, AloneNews)
    \/ /\ Cardinality(participants'[s]) # 2
       /\ WasSent(p, AloneNews)

AllTold ==
    \A s \in live' : \A p \in participants'[s] : conn'[p] = "open" => RightlyTold(s, p)

LEMMA ToldInStep ==
    ASSUME TypeOK', ToldTheTruth, Retold, AllTold
    PROVE  ToldTheTruth'
<1> SUFFICES ASSUME NEW s \in live', NEW p \in participants'[s], conn'[p] = "open"
             PROVE  told'[p] = IF Cardinality(participants'[s]) = 2 THEN "paired" ELSE "alone"
    BY DEF ToldTheTruth
<1>1. p \in Sockets /\ Seated(p)'
    BY DEF TypeOK, SessionTypeOK, Seated
<1>2. told'[p] = IF WasSent(p, AloneNews) THEN "alone"
                 ELSE IF WasSent(p, {"PARTNER_JOINED"}) THEN "paired" ELSE told[p]
    BY <1>1 DEF Retold
<1>3. RightlyTold(s, p)
    BY DEF AllTold
<1>4. ~WasSent(p, News) => ~WasSent(p, AloneNews) /\ ~WasSent(p, {"PARTNER_JOINED"})
    BY DEF WasSent, News, AloneNews
<1>5. s \in live /\ p \in participants[s] /\ conn[p] = "open" =>
          told[p] = IF Cardinality(participants[s]) = 2 THEN "paired" ELSE "alone"
    BY DEF ToldTheTruth
<1> QED BY <1>2, <1>3, <1>4, <1>5 DEF RightlyTold

\* No socket that sits in a session becomes open by this step.
NoneOpens == \A v \in Sockets : Seated(v) /\ conn'[v] = "open" => conn[v] = "open"

LEMMA QuietStep ==
    ASSUME TypeOK, NoneOpens, live' \subseteq live,
           \A s \in live' : participants'[s] = participants[s],
           \A f \in out' : f.type \notin News
    PROVE  AllTold
<1> SUFFICES ASSUME NEW s \in live', NEW p \in participants'[s], conn'[p] = "open"
             PROVE  RightlyTold(s, p)
    BY DEF AllTold
<1>1. s \in live /\ p \in participants[s] /\ p \in Sockets /\ Seated(p)
    BY DEF Seated, TypeOK, SessionTypeOK
<1> QED BY <1>1 DEF RightlyTold, NoneOpens, WasSent

LEMMA ExpireQuiet ==
    ASSUME TypeOK, NEW S, ExpireSessions(S), \A f \in out' : f.type \notin News
    PROVE  AllTold
<1>1. live' \subseteq live /\ \A s \in live' : participants'[s] = participants[s]
    BY DEF ExpireSessions, Destroy, TypeOK, SessionTypeOK
<1>2. NoneOpens
    BY DEF NoneOpens, ExpireSessions
<1> QED BY <1>1, <1>2, QuietStep

LEMMA SameQuiet ==
    ASSUME TypeOK, UNCHANGED <<conn, sessionVars>>, \A f \in out' : f.type \notin News
    PROVE  AllTold
BY QuietStep DEF NoneOpens, sessionVars

LEMMA JoinGoneQuiet ==
    ASSUME TypeOK, NEW w, NEW s, JoinGone(w, s)
    PROVE  AllTold
<1>1. \A f \in out' : f.type \notin News
    BY JoinGoneSilent DEF Silent
<1> QED BY <1>1, SameQuiet, ExpireQuiet DEF JoinGone, connVars

\* One newcomer has a session to itself and is told so.
LEMMA NewSeatTold ==
    ASSUME TypeOK, NEW w, ~Seated(w), NEW s \in SessionIds,
           live' = live \cup {s}, participants' = [participants EXCEPT ![s] = {w}],
           conn' = conn, NEW T \in AloneNews, Send({w}, T) \subseteq out',
           \A f \in out' : f.type \in News => f.to = w
    PROVE  AllTold
<1> SUFFICES ASSUME NEW t \in live', NEW p \in participants'[t], conn'[p] = "open"
             PROVE  RightlyTold(t, p)
    BY DEF AllTold
<1>1. CASE t = s
    <2>1. p = w /\ participants'[t] = {w}
        BY <1>1 DEF TypeOK, SessionTypeOK
    <2>2. Cardinality(participants'[t]) # 2
        <3>1. Cardinality({w}) = 1
            BY Counting, Zenon
        <3>2. Cardinality(participants'[t]) = 1
            BY <2>1, <3>1, Zenon
        <3> QED BY <3>2
    <2>3. WasSent(p, AloneNews)
        BY <2>1, OpenIsSent DEF WasSent
    <2> QED BY <2>2, <2>3 DEF RightlyTold
<1>2. CASE t # s
    <2>1. t \in live /\ participants'[t] = participants[t] /\ p # w
        BY <1>2 DEF TypeOK, SessionTypeOK, Seated
    <2>2. ~WasSent(p, News)
        BY <2>1 DEF WasSent
    <2> QED BY <2>1, <2>2 DEF RightlyTold
<1> QED BY <1>1, <1>2

\* A join that finds room tells everybody it has just counted.
LEMMA JoinTold ==
    ASSUME TypeOK, SeatsInv, OneSeat, NEW w \in Sockets, ~Seated(w), NEW s \in live,
           ~Full(s), TryJoin(w, s), out' = JoinFrames(w, s)
    PROVE  AllTold
<1>1. s \in SessionIds /\ live' = live /\ conn' = conn
      /\ participants' = [participants EXCEPT ![s] = Alive(s) \cup {w}]
    BY DEF TryJoin, connVars, TypeOK, SessionTypeOK
<1>2. CASE Alive(s) = {}
    <2>1. participants' = [participants EXCEPT ![s] = {w}] /\ out' = Send({w}, "SESSION_CREATED")
        BY <1>1, <1>2 DEF JoinFrames
    <2>2. \A f \in out' : f.to = w
        BY <2>1, SentIs
    <2>3. live' = live \cup {s} /\ "SESSION_CREATED" \in AloneNews
        BY <1>1 DEF AloneNews
    <2>4. Send({w}, "SESSION_CREATED") \subseteq out'
        BY <2>1
    <2> QED BY <1>1, <2>1, <2>2, <2>3, <2>4, NewSeatTold
<1>3. CASE Alive(s) # {}
    <2>1. out' = Send(Alive(s) \cup {w}, "PARTNER_JOINED")
        BY <1>3 DEF JoinFrames
    <2>2. IsFiniteSet(Alive(s)) /\ Cardinality(Alive(s)) \in Nat /\ Cardinality(Alive(s)) < 2
          /\ Cardinality(Alive(s)) # 0
        BY <1>3, FewerAreAtMostTwo, FS_CardinalityType, FS_EmptySet
           DEF SeatsInv, Alive, AtMostTwo, Full
    <2>3. w \notin Alive(s)
        BY DEF Seated, Alive
    <2>4. Cardinality(Alive(s) \cup {w}) = 2
        BY <2>2, <2>3, FS_AddElement
    <2> SUFFICES ASSUME NEW t \in live', NEW p \in participants'[t], conn'[p] = "open"
                 PROVE  RightlyTold(t, p)
        BY DEF AllTold
    <2>5. CASE t = s
        <3>1. p \in Alive(s) \cup {w} /\ Cardinality(participants'[t]) = 2
            BY <1>1, <2>4, <2>5 DEF TypeOK, SessionTypeOK
        <3>2. WasSent(p, {"PARTNER_JOINED"})
            BY <1>1, <2>1, <3>1, OpenIsSent DEF WasSent
        <3>3. ~WasSent(p, AloneNews)
            BY <2>1, SentIs DEF WasSent, AloneNews
        <3> QED BY <3>1, <3>2, <3>3 DEF RightlyTold
    <2>6. CASE t # s
        <3>1. t \in live /\ participants'[t] = participants[t] /\ p \in Sockets
            BY <1>1, <2>6 DEF TypeOK, SessionTypeOK
        <3>2. p \notin Alive(s) \cup {w}
            BY <2>6, <3>1 DEF OneSeat, Seated, Alive
        <3>3. ~WasSent(p, News)
            BY <2>1, <3>2, SentIs DEF WasSent
        <3> QED BY <1>1, <3>1, <3>3 DEF RightlyTold
    <2> QED BY <2>5, <2>6
<1> QED BY <1>2, <1>3

\* A full session has no dead to prune: everybody in it is counted.
LEMMA FullJoinTold ==
    ASSUME TypeOK, SeatsInv, NEW w, NEW s \in live, Full(s), TryJoin(w, s),
           \A f \in out' : f.type \notin News
    PROVE  AllTold
<1>1. IsFiniteSet(participants[s]) /\ Cardinality(participants[s]) \in Nat
      /\ Cardinality(participants[s]) <= 2
    BY FS_CardinalityType DEF SeatsInv, AtMostTwo
<1>2. Alive(s) \in SUBSET participants[s]
    BY DEF Alive
<1>3. Cardinality(Alive(s)) \in Nat /\ Cardinality(Alive(s)) <= Cardinality(participants[s])
      /\ (Cardinality(participants[s]) = Cardinality(Alive(s)) => participants[s] = Alive(s))
    BY <1>1, <1>2, FS_Subset, FS_CardinalityType
<1>4. Alive(s) = participants[s]
    BY <1>1, <1>3 DEF Full
<1>5. UNCHANGED <<conn, sessionVars>>
    BY <1>4 DEF TryJoin, connVars, sessionVars, TypeOK, SessionTypeOK
<1> QED BY <1>5, SameQuiet

\* Whoever stays behind is told, and is alone.
LEMMA LeaveTold ==
    ASSUME TypeOK, SeatsInv, OneSeat, NEW w \in Sockets, HandleLeave(w), NoneOpens
    PROVE  AllTold
<1>1. CASE out' = {} /\ UNCHANGED sessionVars
    BY <1>1, QuietStep DEF sessionVars
<1>2. ASSUME NEW s \in live, w \in participants[s], UNCHANGED <<live, expiresAt>>,
             participants' = [participants EXCEPT ![s] = @ \ {w}],
             \/ out' = Send(participants[s] \ {w}, "PARTNER_LEFT")
             \/ participants[s] = {w} /\ out' = {}
      PROVE  AllTold
    <2> SUFFICES ASSUME NEW t \in live', NEW p \in participants'[t], conn'[p] = "open"
                 PROVE  RightlyTold(t, p)
        BY DEF AllTold
    <2>1. t \in live /\ t \in SessionIds /\ p \in participants[t] /\ p \in Sockets
          /\ conn[p] = "open"
        BY <1>2 DEF TypeOK, SessionTypeOK, NoneOpens, Seated
    <2>2. CASE t = s
        <3>1. participants'[t] = participants[s] \ {w} /\ p \in participants[s] \ {w}
            BY <1>2, <2>1, <2>2 DEF TypeOK, SessionTypeOK
        <3>2. Cardinality(participants[s]) \in Nat /\ Cardinality(participants[s]) <= 2
              /\ Cardinality(participants'[t]) = Cardinality(participants[s]) - 1
            BY <1>2, <3>1, CountLeaving, FS_CardinalityType DEF SeatsInv, AtMostTwo
        <3>3. out' = Send(participants[s] \ {w}, "PARTNER_LEFT")
            BY <1>2, <3>1
        <3>4. WasSent(p, AloneNews)
            BY <2>1, <3>1, <3>3, OpenIsSent DEF WasSent, AloneNews
        <3> QED BY <3>2, <3>4 DEF RightlyTold
    <2>3. CASE t # s
        <3>1. participants'[t] = participants[t] /\ p \notin participants[s]
            BY <1>2, <2>1, <2>3 DEF TypeOK, SessionTypeOK, OneSeat
        <3>2. ~WasSent(p, News)
            BY <1>2, <3>1, SentIs DEF WasSent
        <3> QED BY <2>1, <3>1, <3>2 DEF RightlyTold
    <2> QED BY <2>2, <2>3
<1> QED BY <1>1, <1>2 DEF HandleLeave

LEMMA AllToldStep ==
    ASSUME TypeOK, SeatsInv, OneSeat, Next
    PROVE  AllTold
<1>0. ASSUME Silent
      PROVE  \A f \in out' : f.type \notin News
    BY <1>0 DEF Silent
<1>1. CASE Tick
    BY <1>0, <1>1, SilentTimers, SameQuiet DEF Tick, storeVars, connVars
<1>2. CASE Sweep
    BY <1>0, <1>2, SilentTimers, ExpireQuiet DEF Sweep
<1>3. ASSUME NEW t \in graceTimers, GraceTimerFires(t)
      PROVE  AllTold
    <2>1. NoneOpens /\ live' \subseteq live /\ \A s \in live' : participants'[s] = participants[s]
        BY <1>3 DEF GraceTimerFires, NoneOpens, connVars, sessionVars, Destroy,
           TypeOK, SessionTypeOK
    <2> QED BY <1>0, <1>3, <2>1, SilentTimers, QuietStep
<1>4. ASSUME NEW r \in joinRetries, JoinRetryFires(r)
      PROVE  AllTold
    <2>1. r.socket \in Sockets
        BY DEF TypeOK, JoinTimer
    <2>2. CASE out' = {} /\ UNCHANGED <<connVars, sessionVars>>
        BY <2>2, SameQuiet DEF connVars
    <2>3. CASE JoinGone(r.socket, r.sid)
        BY <2>3, JoinGoneQuiet
    <2>4. CASE /\ ~Busy(r.socket) /\ r.sid \in live /\ TryJoin(r.socket, r.sid)
               /\ out' = IF Full(r.sid) THEN Send({r.socket}, "SESSION_FULL")
                         ELSE JoinFrames(r.socket, r.sid)
        <3>1. CASE Full(r.sid)
            BY <2>4, <3>1, SentIs, FullJoinTold DEF News
        <3>2. CASE ~Full(r.sid)
            BY <2>1, <2>4, <3>2, JoinTold DEF Busy
        <3> QED BY <3>1, <3>2
    <2> QED BY <1>4, <2>2, <2>3, <2>4 DEF JoinRetryFires
<1>5. ASSUME NEW w \in Sockets, Connect(w) \/ PeerCloses(w)
      PROVE  AllTold
    <2>1. NoneOpens /\ UNCHANGED sessionVars
        BY <1>5 DEF Connect, PeerCloses, Unreferenced, NoneOpens, connVars, TypeOK, ConnTypeOK
    <2> QED BY <1>0, <1>5, <2>1, SilentConnections, QuietStep DEF sessionVars
<1>6. ASSUME NEW w \in Sockets, RateLimited(w) \/ UnclaimHandle(w)
      PROVE  AllTold
    BY <1>0, <1>6, SilentConnections, SameQuiet
       DEF RateLimited, UnclaimHandle, Refuse, storeVars, connVars
<1>7. ASSUME NEW w \in Sockets, ErrorEvent(w) \/ CloseEvent(w) \/ LeaveSession(w)
      PROVE  AllTold
    <2>1. NoneOpens
        BY <1>7 DEF ErrorEvent, CloseEvent, LeaveSession, NoneOpens, connVars, TypeOK, ConnTypeOK
    <2>2. CASE HandleLeave(w)
        BY <2>1, <2>2, LeaveTold
    <2>3. CASE out' = {} /\ UNCHANGED sessionVars
        BY <2>1, <2>3, QuietStep DEF sessionVars
    <2> QED BY <1>7, <2>2, <2>3 DEF ErrorEvent, CloseEvent, LeaveSession, OnEnd
<1>8. ASSUME NEW w \in Sockets, SendMessage(w)
      PROVE  AllTold
    <2>1. CASE Refuse(w, "NOT_IN_SESSION")
        <3>1. UNCHANGED <<conn, sessionVars>>
            BY <2>1 DEF Refuse, storeVars, connVars
        <3>2. \A f \in out' : f.type \notin News
            BY <2>1, SilentFrames DEF News
        <3> QED BY <3>1, <3>2, SameQuiet
    <2>2. ASSUME NEW s \in live, out' = ExpiryFrames({s}), ExpireSessions({s})
          PROVE  AllTold
        BY <2>2, SilentFrames, ExpireQuiet DEF News
    <2>3. ASSUME NEW s \in live, out' = Send(participants[s] \ {w}, "MESSAGE"),
                 UNCHANGED <<connVars, sessionVars>>
          PROVE  AllTold
        BY <2>3, SentIs, SameQuiet DEF connVars, News
    <2> QED BY <1>8, <2>1, <2>2, <2>3 DEF SendMessage
<1>9. ASSUME NEW w \in Sockets, NEW h \in Handles, NEW authorised \in BOOLEAN,
             ClaimHandle(w, h, authorised)
      PROVE  AllTold
    BY <1>0, <1>9, SilentClaims, SameQuiet DEF ClaimHandle, Refuse, storeVars, connVars
<1>10. ASSUME NEW w \in Sockets, NEW s \in SessionIds, CreateSession(w, s)
       PROVE  AllTold
    <2>1. ASSUME NEW code \in {"ALREADY_IN_SESSION", "SESSION_EXISTS", "SERVER_BUSY"},
                 Refuse(w, code)
          PROVE  AllTold
        BY <2>1, SilentFrames, SameQuiet DEF Refuse, storeVars, connVars, News
    <2>2. CASE /\ out' = ExpiryFrames({s}) \cup Send({w}, "ERR_SESSION_EXPIRED")
               /\ ExpireSessions({s})
        BY <2>2, SilentFrames, SentIs, ExpireQuiet DEF News
    <2>3. CASE /\ ~Busy(w) /\ live' = live \cup {s} /\ UNCHANGED connVars
               /\ participants' = [participants EXCEPT ![s] = {w}]
               /\ out' = Send({w}, "SESSION_CREATED")
        <3>1. \A f \in out' : f.to = w
            BY <2>3, SentIs
        <3> QED BY <2>3, <3>1, NewSeatTold DEF Busy, connVars, AloneNews
    <2> QED BY <1>10, <2>1, <2>2, <2>3 DEF CreateSession, ReclaimEmpty, Create
<1>11. ASSUME NEW w \in Sockets, NEW s \in SessionIds, JoinSession(w, s)
       PROVE  AllTold
    <2>1. CASE JoinGone(w, s)
        BY <2>1, JoinGoneQuiet
    <2>2. CASE Refuse(w, "ALREADY_IN_SESSION")
        BY <2>2, SilentFrames, SameQuiet DEF Refuse, storeVars, connVars, News
    <2>3. CASE ~Busy(w) /\ s \in live /\ ~Full(s) /\ TryJoin(w, s) /\ out' = JoinFrames(w, s)
        BY <2>3, JoinTold DEF Busy
    <2>4. CASE s \in live /\ Full(s) /\ TryJoin(w, s) /\ out' = {}
        BY <2>4, FullJoinTold
    <2> QED BY <1>11, <2>1, <2>2, <2>3, <2>4 DEF JoinSession
<1>12. ASSUME NEW w \in Sockets, NEW h \in Handles, NEW s \in SessionIds, RingHandle(w, h, s)
       PROVE  AllTold
    <2>1. ASSUME NEW code \in {"ALREADY_IN_SESSION", "HANDLE_UNAVAILABLE", "HANDLE_BUSY",
                               "SERVER_BUSY"}, Refuse(w, code)
          PROVE  AllTold
        BY <2>1, SilentFrames, SameQuiet DEF Refuse, storeVars, connVars, News
    <2>2. CASE /\ ~Busy(w) /\ Create(w, s) /\ UNCHANGED connVars
               /\ out' = Send({w}, "RING_READY") \cup Send({byHandle[h]}, "INCOMING_RING")
        <3>1. \A f \in out' : f.type \in News => f.to = w
            BY <2>2, SentIs DEF News
        <3> QED BY <2>2, <3>1, NewSeatTold DEF Create, Busy, connVars, AloneNews
    <2> QED BY <1>12, <2>1, <2>2 DEF RingHandle
<1> QED BY <1>1, <1>2, <1>3, <1>4, <1>5, <1>6, <1>7, <1>8, <1>9, <1>10, <1>11, <1>12
        DEF Next, Request, Connection, Timer

(***************************************************************************)
(* Whoever sits in a session on an open socket was last told the truth of  *)
(* it: "paired" exactly when two sit there.                                *)
(***************************************************************************)
THEOREM ClientsAreToldTheTruth == ViewSpec => []ToldTheTruth
<1>1. ViewInit => Init /\ ToldTheTruth
    BY DEF ViewInit, Init, ToldTheTruth
<1>2. [ViewNext]_<<vars, told>> => [Next]_vars
    BY DEF ViewNext
<1>3. /\ TypeOK /\ TypeOK' /\ SeatsInv /\ OneSeat /\ ToldTheTruth
      /\ [ViewNext]_<<vars, told>>
      => ToldTheTruth'
    <2>1. ToldTheTruth /\ UNCHANGED <<vars, told>> => ToldTheTruth'
        BY DEF ToldTheTruth, vars, storeVars, connVars, sessionVars
    <2>2. ViewNext => Next /\ Retold
        BY DEF ViewNext, Retold, AloneNews
    <2> QED BY <2>1, <2>2, AllToldStep, ToldInStep
<1>4. ViewSpec => Spec
    BY <1>1, <1>2, PTL DEF ViewSpec, Spec
<1> QED BY <1>1, <1>3, <1>4, TypeCorrect, SeatsCorrect, NobodySitsTwice, PTL DEF ViewSpec

=============================================================================
