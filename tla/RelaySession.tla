---------------------------- MODULE RelaySession ----------------------------
(***************************************************************************)
(* What two clients of one conversation see of the relay: one session, the *)
(* connections seated in it and the frames on their way to each client.    *)
(* The store, the handlers and the timers are those of Relay, reduced to   *)
(* one session id; a frame of a client is handled in the step that sends   *)
(* it, and any delay is in the delivery of the answer.                     *)
(***************************************************************************)
EXTENDS Integers, Sequences, FiniteSets

CONSTANTS
    Clients,            \* the two ends
    MaxConnections,     \* bound: connections one end opens
    MaxFaults           \* bound: faults and endings, of whatever kind

ASSUME SessionAssumption == MaxConnections \in Nat /\ MaxFaults \in Nat

ASSUME EndsAssumption == \E c, d \in Clients : c # d /\ Clients = {c, d}

\* Connections are named by the client that opened them and a count.
Connections == Clients \X (1..MaxConnections)

VARIABLE relay

(***************************************************************************)
(* exists   the session is in the store                                    *)
(* seats    connections that participate in it                             *)
(* wired    connections on which frames still travel                       *)
(* dying    connections whose socket is not OPEN for the relay             *)
(* ended    those of them whose close event has been handled               *)
(* retries  connections whose full join is about to be tried again         *)
(* net      frames on their way to each client                             *)
(* pruned   history: a participant was removed and nobody was told         *)
(* refused  history: a public key was refused with RATE_LIMITED            *)
(* faults   counts the failures, refusals and endings so far               *)
(***************************************************************************)
RelayInit == relay = [exists |-> FALSE, seats |-> {}, wired |-> {}, dying |-> {},
                      ended |-> {}, retries |-> {}, net |-> [c \in Clients |-> <<>>],
                      pruned |-> FALSE, refused |-> FALSE, faults |-> 0]

MayFail(R) == R.faults < MaxFaults
Fault(R)   == [R EXCEPT !.faults = @ + 1]

Frame(type)  == [type |-> type]
Failure(code) == [type |-> "ERROR", code |-> code]

\* sendToSocket and broadcast: only to sockets that are OPEN.
Deliver(R, K, frame) == [R EXCEPT !.net = [c \in Clients |->
    IF \E k \in (K \cap R.wired) \ R.dying : k[1] = c
    THEN Append(R.net[c], frame) ELSE R.net[c]]]

\* expireSession; the sockets are closed behind the frame.
Expired(R) ==
    LET told == Deliver(Deliver(R, R.seats, Frame("SESSION_EXPIRED")),
                        R.seats, Frame("close"))
    IN  [Fault(told) EXCEPT !.exists = FALSE, !.seats = {}, !.dying = @ \cup R.seats]

\* Whether a request passes the rate limits, and whether it finds its session
\* past its time, is a choice; both are faults.
Limited(R, k) ==
    {Fault(Deliver(Q, {k}, Failure("RATE_LIMITED"))) : Q \in {Q \in {R} : MayFail(Q)}}

TooLate(R, k) ==
    {Deliver(Expired(Q), {k}, Failure("SESSION_EXPIRED")) : Q \in {Q \in {R} : Q.exists /\ MayFail(Q)}}

RelayCreate(R, k) ==
    IF R.exists /\ R.seats # {}
    THEN Deliver(R, {k}, Failure("SESSION_EXISTS"))
    ELSE Deliver([R EXCEPT !.exists = TRUE, !.seats = {k}], {k}, Frame("SESSION_CREATED"))

\* Only a create that claims an empty session back looks at its time.
CreateAnswers(R, k) ==
    {RelayCreate(R, k)} \cup Limited(R, k) \cup (IF R.seats = {} THEN TooLate(R, k) ELSE {})

Full(R) == Cardinality(R.seats \ R.dying) >= 2

TryJoin(R, k) ==
    LET alive == R.seats \ R.dying
        pruned == [R EXCEPT !.seats = alive \cup {k}, !.pruned = @ \/ alive # R.seats]
    IN  IF alive = {}
        THEN Deliver(pruned, {k}, Frame("SESSION_CREATED"))
        ELSE Deliver(pruned, alive \cup {k}, Frame("PARTNER_JOINED"))

RelayJoin(R, k) ==
    IF ~R.exists THEN Deliver(R, {k}, Failure("SESSION_NOT_FOUND"))
    ELSE IF Full(R) THEN [R EXCEPT !.retries = @ \cup {k}]
    ELSE TryJoin(R, k)

JoinAnswers(R, k) == {RelayJoin(R, k)} \cup Limited(R, k) \cup TooLate(R, k)

\* Mutant of RelaySend: the sender is one of the peers.
RelaySendEchoes(R, k, frame) ==
    IF k \in R.seats /\ k \in R.wired THEN {Deliver(R, R.seats, frame)} ELSE {R}

\* Mutant of RelaySend: a frame is forwarded twice.
RelaySendTwice(R, k, frame) ==
    IF k \in R.seats /\ k \in R.wired
    THEN {Deliver(Deliver(R, R.seats \ {k}, frame), R.seats \ {k}, frame)} ELSE {R}

RelaySend(R, k, frame) ==
    IF k \notin R.wired THEN {R}
    ELSE IF k \notin R.seats THEN {Deliver(R, {k}, Failure("NOT_IN_SESSION"))}
    ELSE {Deliver(R, R.seats \ {k}, frame)} \cup
         {[Fault(Deliver(Q, {k}, Failure("RATE_LIMITED"))) EXCEPT
             !.refused = @ \/ frame.type = "key"] : Q \in {Q \in {R} : MayFail(Q)}}

RelayLeave(R, k) ==
    IF k \notin R.seats THEN R
    ELSE Deliver([R EXCEPT !.seats = @ \ {k}], R.seats \ {k}, Frame("PARTNER_LEFT"))

\* Mutant of HangUp: the frames of the old socket are still heard.
HangUpKeepsFrames(R, k) == [R EXCEPT !.wired = @ \ {k}]

\* The client closes its socket, or opens another in its place.
HangUp(R, k) == [R EXCEPT !.wired = @ \ {k}, !.net[k[1]] = <<>>]

----------------------------------------------------------------------------
(* What the relay does of its own accord.                                  *)

\* The relay sees the close frame of a connection that is gone.
SocketDies(k) ==
    /\ k \in relay.seats \cup relay.retries
    /\ k \notin relay.wired \cup relay.dying
    /\ relay' = [relay EXCEPT !.dying = @ \cup {k}]

CloseEvent(k) ==
    /\ k \in relay.dying \ relay.ended
    /\ relay' = [RelayLeave(relay, k) EXCEPT !.ended = @ \cup {k}]

JoinRetryFires(k) ==
    /\ k \in relay.retries
    /\ LET R == [relay EXCEPT !.retries = @ \ {k}] IN
       \/ relay' = IF k \in R.seats THEN R
                   ELSE IF ~R.exists THEN Deliver(R, {k}, Failure("SESSION_NOT_FOUND"))
                   ELSE IF Full(R) THEN Deliver(R, {k}, Failure("SESSION_FULL"))
                   ELSE TryJoin(R, k)
       \/ k \notin R.seats /\ relay' \in TooLate(R, k)

GraceEnds ==
    /\ relay.exists /\ relay.seats = {}
    /\ relay' = [relay EXCEPT !.exists = FALSE]

\* The sweeper finds the session past its time.
Expire ==
    /\ relay.exists /\ MayFail(relay)
    /\ relay' = Expired(relay)
=============================================================================
