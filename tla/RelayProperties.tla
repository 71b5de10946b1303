-------------------------- MODULE RelayProperties --------------------------
(***************************************************************************)
(* What the relay promises, over the state of module Relay.                *)
(***************************************************************************)
EXTENDS Relay

----------------------------------------------------------------------------
(* Invariants.                                                             *)

(* A socket sits in at most one session, and one that sits owns no handle. *)
(* findBySocket returns the first match only: a second seat would never be *)
(* released.  The busy check runs when a request arrives and again when a  *)
(* join is retried 40 ms later, with claims and creates in between.        *)
OneSeat ==
    \A w \in Sockets :
        /\ \A s, t \in live : w \in participants[s] /\ w \in participants[t] => s = t
        /\ Seated(w) => bySocket[w] = NoHandle

(* A session never holds more than two participants, though joins, their   *)
(* retries and reclaims by CREATE all add one.                             *)
TwoSeats == \A s \in live : Cardinality(participants[s]) <= 2

(* The two halves of EmptyIffDoomed, below.                               *)
EmptyIffPending ==
    \A s \in SessionIds :
        (s \in live /\ participants[s] = {}) <=> pendingDestroy[s] # NoTimer

ArmedIffPending ==
    graceTimers = {[sid |-> s, at |-> pendingDestroy[s]] :
                      s \in {x \in SessionIds : pendingDestroy[x] # NoTimer}}

(* A session is empty exactly when the pendingDestroy map has an entry for *)
(* it, and the armed grace timers are exactly the ones that map knows: no  *)
(* empty session is forgotten, no occupied one is doomed, and no timer of  *)
(* an earlier life of an id is left to destroy a later one.                *)
EmptyIffDoomed == EmptyIffPending /\ ArmedIffPending

(* A claim counts only sessions that exist, and never more than the cap:   *)
(* every way a session ends (expiry met by a request, the sweeper, the     *)
(* grace timer) takes it off the owner's count.                            *)
InboundAreLive ==
    \A h \in Handles :
        /\ inboundSessionIds[h] \subseteq live
        /\ InboundCount(h) <= PREMIUM_MAX_CONCURRENT_CHATS

(* A claim's owner is still connected (handles.ts:23): its socket's close  *)
(* or error event has not been delivered yet.                              *)
OwnersConnected ==
    \A w \in Sockets :
        bySocket[w] # NoHandle => conn[w] \in {"open", "shutting", "closing"}

(* The connection counter is the number of sockets whose end the relay has *)
(* not seen (an error followed by a close is counted once), and it and the *)
(* session map stay within their caps.                                     *)
WithinCaps ==
    /\ connectionCounter =
           Cardinality({w \in Sockets : conn[w] \in {"open", "shutting", "closing"}})
    /\ connectionCounter <= MAX_RELAY_CONNECTIONS
    /\ Cardinality(live) <= MAX_RELAY_SESSIONS

(* A session whose participants are all disconnected has its grace timer   *)
(* running (docs/protocol/sessions.md, "After the grace period, an empty   *)
(* session is destroyed").  The code breaks this: a join retry seats a     *)
(* socket whose close event has already been delivered.                    *)
AbandonedIsDoomed ==
    \A s \in live :
        (\A p \in participants[s] : conn[p] \in {"failed", "closed"})
            => pendingDestroy[s] # NoTimer

----------------------------------------------------------------------------
(* Action properties.                                                      *)

(* Nobody is admitted to a session, or given a partner's message, once its *)
(* lifetime is over, though the sweeper may be seconds late.               *)
ServedInTime ==
    [][\A f \in out' :
          f.type \in {"SESSION_CREATED", "RING_READY", "PARTNER_JOINED", "MESSAGE"}
              => \E s \in live' : f.to \in participants'[s] /\ now < expiresAt'[s]]_vars

(* A joiner is told SESSION_FULL only when some session has two seats whose *)
(* sockets are open: a reconnect is not counted as a third person.         *)
FullIsHonest ==
    [][\A w \in Sockets :
          [to |-> w, type |-> "SESSION_FULL"] \in out'
              => \E s \in live : \E p, q \in participants[s] :
                     p # q /\ conn[p] = "open" /\ conn[q] = "open"]_vars

(* A claim is never taken over: a handle passes from one socket to another *)
(* only by way of nobody holding it.                                       *)
ClaimsAreNotStolen ==
    [][\A h \in Handles :
          byHandle[h] # NoSocket => byHandle'[h] \in {byHandle[h], NoSocket}]_vars

(* Whoever leaves a session, its remaining participant is told so          *)
(* (docs/protocol/packet-format.md, PARTNER_LEFT, "Peer disconnected").    *)
(* The code breaks this: a join prunes a closing participant in silence.   *)
PartnerLeftSent ==
    [][\A s \in live \cap live' :
          participants[s] \ participants'[s] # {} =>
              \A q \in participants[s] \cap participants'[s] :
                  conn[q] = "open" => [to |-> q, type |-> "PARTNER_LEFT"] \in out']_vars

----------------------------------------------------------------------------
(* Refinement.                                                             *)

Lifecycle == INSTANCE SessionLifecycle WITH
    occupancy <- [s \in SessionIds |-> Cardinality(participants[s])],
    keepUntil <- pendingDestroy

(* The relay implements the documented life of a session: the grace is     *)
(* honoured to its end, the lifetime is never extended, and no session     *)
(* ends for any other reason.                                              *)
ImplementsLifecycle == Lifecycle!Spec

----------------------------------------------------------------------------
(* Liveness, under FairSpec.                                               *)

(* Every session ends, whatever its participants do.                       *)
SessionsEnd == \A s \in SessionIds : s \in live ~> s \notin live

(* A name comes free once its owner's connection is gone; no timer frees a *)
(* claim, so the owner's close or error event has to.                      *)
NamesComeFree ==
    \A h \in Handles :
        (\E w \in Sockets : byHandle[h] = w /\ conn[w] = "closing")
            ~> byHandle[h] = NoSocket
============================================================================
