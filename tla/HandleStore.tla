---------------------------- MODULE HandleStore ----------------------------
(***************************************************************************)
(* The in-memory handle mailbox of the relay (session/handles.ts).  A      *)
(* claim is the record {handle, socket, inboundSessionIds}; the store      *)
(* indexes it three ways, and every operation updates the indexes it       *)
(* touches.  The three JavaScript maps and the claim's set are total       *)
(* functions here, "absent" being NoSocket, NoHandle or the empty set.     *)
(*                                                                         *)
(* The operators are action conjuncts: each one fixes the next value of    *)
(* all four tables.  Relay.tla calls them where the handlers call the      *)
(* store.                                                                  *)
(***************************************************************************)
EXTENDS FiniteSets

CONSTANTS
    Sockets,        \* WebSocket objects
    SessionIds,     \* session ids
    Handles,        \* claimable names
    NoSocket,       \* "no claim" in byHandle
    NoHandle        \* "no entry" in bySocket and sessionToHandle

ASSUME NullAssumption == NoSocket \notin Sockets /\ NoHandle \notin Handles

VARIABLES
    byHandle,           \* handle -> the socket of its claim
    inboundSessionIds,  \* handle -> the rung sessions its claim counts
    bySocket,           \* socket -> the handle it has claimed
    sessionToHandle     \* session -> the handle it was rung through

handleVars == <<byHandle, inboundSessionIds, bySocket, sessionToHandle>>

HandleTypeOK ==
    /\ byHandle \in [Handles -> Sockets \cup {NoSocket}]
    /\ inboundSessionIds \in [Handles -> SUBSET SessionIds]
    /\ bySocket \in [Sockets -> Handles \cup {NoHandle}]
    /\ sessionToHandle \in [SessionIds -> Handles \cup {NoHandle}]

HandleInit ==
    /\ byHandle = [h \in Handles |-> NoSocket]
    /\ inboundSessionIds = [h \in Handles |-> {}]
    /\ bySocket = [w \in Sockets |-> NoHandle]
    /\ sessionToHandle = [s \in SessionIds |-> NoHandle]

----------------------------------------------------------------------------

\* Mutant of Taken: a claim takes the name over.
TakenNever(h, w) == FALSE

Taken(h, w) == byHandle[h] \notin {w, NoSocket}

InboundCount(h) == Cardinality(inboundSessionIds[h])

\* Mutant of Release: the sessions of the claim stay in sessionToHandle.
ReleaseKeepsIndex(h) ==
    /\ byHandle' = [byHandle EXCEPT ![h] = NoSocket]
    /\ bySocket' = [bySocket EXCEPT ![byHandle[h]] = NoHandle]
    /\ inboundSessionIds' = [inboundSessionIds EXCEPT ![h] = {}]
    /\ UNCHANGED sessionToHandle

\* release(handle), for a handle that is claimed: all three indexes forget it.
Release(h) ==
    /\ byHandle' = [byHandle EXCEPT ![h] = NoSocket]
    /\ bySocket' = [bySocket EXCEPT ![byHandle[h]] = NoHandle]
    /\ sessionToHandle' = [s \in SessionIds |->
           IF s \in inboundSessionIds[h] THEN NoHandle ELSE sessionToHandle[s]]
    /\ inboundSessionIds' = [inboundSessionIds EXCEPT ![h] = {}]

\* Mutant of ReleaseBySocket: the claim outlives its socket.
ReleaseBySocketNothing(w) == UNCHANGED handleVars

\* releaseBySocket(socket): nothing when the socket has no claim.
ReleaseBySocket(w) ==
    \/ bySocket[w] = NoHandle /\ UNCHANGED handleVars
    \/ bySocket[w] # NoHandle /\ Release(bySocket[w])

\* claim(handle, socket), past the HANDLE_TAKEN check: a repeated claim is
\* returned as it is, any other releases the socket's previous handle first.
Claim(h, w) ==
    \/ /\ byHandle[h] = w
       /\ UNCHANGED handleVars
    \/ /\ byHandle[h] # w
       /\ LET previous == {g \in Handles : g = bySocket[w]}
              dropped  == UNION {inboundSessionIds[g] : g \in previous}
          IN  /\ byHandle' = [[g \in Handles |->
                     IF g \in previous THEN NoSocket ELSE byHandle[g]] EXCEPT ![h] = w]
              /\ inboundSessionIds' = [g \in Handles |->
                     IF g = h \/ g \in previous THEN {} ELSE inboundSessionIds[g]]
              /\ bySocket' = [bySocket EXCEPT ![w] = h]
              /\ sessionToHandle' = [s \in SessionIds |->
                     IF s \in dropped THEN NoHandle ELSE sessionToHandle[s]]

\* addInbound(handle, sessionId), for a handle that is claimed.
AddInbound(h, s) ==
    /\ inboundSessionIds' = [inboundSessionIds EXCEPT ![h] = @ \cup {s}]
    /\ sessionToHandle' = [sessionToHandle EXCEPT ![s] = h]
    /\ UNCHANGED <<byHandle, bySocket>>

\* Mutant of DropInbound: the owner's count keeps the session.
DropInboundNothing(S) == UNCHANGED handleVars

\* dropInbound(sessionId), for each session of S.
DropInbound(S) ==
    /\ inboundSessionIds' = [h \in Handles |->
           {s \in inboundSessionIds[h] : ~(s \in S /\ sessionToHandle[s] = h)}]
    /\ sessionToHandle' = [s \in SessionIds |->
           IF s \in S THEN NoHandle ELSE sessionToHandle[s]]
    /\ UNCHANGED <<byHandle, bySocket>>

----------------------------------------------------------------------------

(* The indexes describe one set of claims: a handle maps to the socket     *)
(* that maps back to it, a session to the handle whose claim counts it,    *)
(* and no unclaimed handle counts sessions.  release, claim over an older  *)
(* claim and dropInbound each update several maps; one forgotten map       *)
(* leaves a name taken for ever or a caller turned away by a stale count.  *)
HandleTablesAgree ==
    /\ \A h \in Handles, w \in Sockets : byHandle[h] = w <=> bySocket[w] = h
    /\ \A h \in Handles, s \in SessionIds :
           s \in inboundSessionIds[h] <=> sessionToHandle[s] = h
    /\ \A h \in Handles : byHandle[h] = NoSocket => inboundSessionIds[h] = {}
============================================================================
