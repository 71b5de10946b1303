-------------------------- MODULE TransportProofs --------------------------
(***************************************************************************)
(* The transport leaks no socket and is silent once closed, however many   *)
(* connect() and close() there are.                                        *)
(***************************************************************************)
EXTENDS Transport, TLAPS

TypeOK ==
    /\ generation \in 0..MaxGeneration
    /\ socket \in 0..MaxGeneration
    /\ ws \in [Attempts -> SocketState]
    /\ detached \subseteq Attempts
    /\ settled \subseteq Attempts
    /\ timers \subseteq Attempts

(* What an attempt leaves behind is of this or of an earlier generation.   *)
NothingAhead ==
    \A a \in Attempts : a > generation => ws[a] = "none" /\ a \notin settled

(* The promise of the current attempt outlives its connecting: only then   *)
(* does its open event store the socket.                                   *)
PendingWhileConnecting ==
    \A a \in Attempts : ws[a] = "connecting" /\ a = generation => a \notin settled

(* After close() the generation is that of no attempt.                     *)
ClosedHasNoSocket ==
    ~wanted => \A a \in Attempts : a = generation => ws[a] = "none"

(***************************************************************************)
(* The inductive invariant.  NoLeakedSocket alone is not one: an open      *)
(* event with its promise settled would open a socket nobody stores, and   *)
(* a number used twice would make an old attempt the current one.          *)
(***************************************************************************)
TransportInv ==
    /\ TypeOK
    /\ NothingAhead
    /\ PendingWhileConnecting
    /\ ClosedHasNoSocket
    /\ NoLeakedSocket

(* socket.close() on one socket or none.                                   *)
LEMMA ClosedTyped ==
    ASSUME TypeOK, NEW A
    PROVE  Closed(A) \in [Attempts -> SocketState]
BY DEF TypeOK, Closed, SocketState

LEMMA InitInv == Init => TransportInv
BY GenerationAssumption
   DEF Init, TransportInv, TypeOK, NothingAhead, PendingWhileConnecting,
       ClosedHasNoSocket, NoLeakedSocket, SocketState, Attempts, None

LEMMA StepInv ==
    ASSUME TransportInv, [Next]_vars
    PROVE  TransportInv'
<1> USE DEF TransportInv, Attempts, None
<1>1. CASE UNCHANGED vars
    BY <1>1 DEF vars, transportVars, TypeOK, NothingAhead, PendingWhileConnecting,
                ClosedHasNoSocket, NoLeakedSocket
<1>2. CASE Connect
    <2>1. TypeOK'
        BY <1>2, ClosedTyped, GenerationAssumption
           DEF Connect, Current, TypeOK, SocketState
    <2>2. NothingAhead' /\ PendingWhileConnecting' /\ ClosedHasNoSocket'
        BY <1>2, <2>1, GenerationAssumption DEF Connect, Closed, Current, TypeOK, NothingAhead,
           PendingWhileConnecting, ClosedHasNoSocket
    <2>3. NoLeakedSocket'
        BY <1>2, GenerationAssumption DEF Connect, Closed, Current, TypeOK, NoLeakedSocket
    <2> QED BY <2>1, <2>2, <2>3
<1>3. CASE Close
    <2>1. TypeOK'
        BY <1>3, ClosedTyped, GenerationAssumption DEF Close, Current, TypeOK
    <2>2. NothingAhead' /\ PendingWhileConnecting' /\ ClosedHasNoSocket'
        BY <1>3, GenerationAssumption DEF Close, Closed, Current, TypeOK, NothingAhead,
           PendingWhileConnecting, ClosedHasNoSocket
    <2>3. NoLeakedSocket'
        BY <1>3 DEF Close, Closed, Current, TypeOK, NoLeakedSocket
    <2> QED BY <2>1, <2>2, <2>3
<1>4. ASSUME NEW a \in Attempts, OnOpen(a)
      PROVE  TransportInv'
    <2>1. TypeOK'
        BY <1>4 DEF OnOpen, TypeOK, SocketState
    <2>2. NothingAhead' /\ PendingWhileConnecting' /\ ClosedHasNoSocket'
        BY <1>4 DEF OnOpen, TypeOK, NothingAhead, PendingWhileConnecting, ClosedHasNoSocket
    <2>3. NoLeakedSocket'
        BY <1>4 DEF OnOpen, TypeOK, PendingWhileConnecting, NoLeakedSocket
    <2> QED BY <2>1, <2>2, <2>3
<1>5. ASSUME NEW a \in Attempts, OnError(a)
      PROVE  TransportInv'
    BY <1>5 DEF OnError, Ignored, TypeOK, NothingAhead, PendingWhileConnecting,
                ClosedHasNoSocket, NoLeakedSocket, SocketState
<1>6. ASSUME NEW a \in Attempts, OnMessage(a)
      PROVE  TransportInv'
    BY <1>6 DEF OnMessage, transportVars, TypeOK, NothingAhead,
                PendingWhileConnecting, ClosedHasNoSocket, NoLeakedSocket
<1>7. ASSUME NEW a \in Attempts, OnClose(a)
      PROVE  TransportInv'
    <2>1. TypeOK'
        <3>1. ws' \in [Attempts -> SocketState]
            BY <1>7 DEF OnClose, TypeOK, SocketState
        <3>2. settled' \subseteq Attempts /\ timers' \subseteq Attempts
            BY <1>7 DEF OnClose, TypeOK
        <3>3. socket' \in 0..MaxGeneration /\ UNCHANGED <<generation, detached>>
            BY <1>7, GenerationAssumption DEF OnClose, TypeOK
        <3> QED BY <3>1, <3>2, <3>3 DEF TypeOK
    <2>2. \A b \in Attempts : b # a => ws'[b] = ws[b] /\ (b \in settled' <=> b \in settled)
        BY <1>7 DEF OnClose, TypeOK
    <2>3. ws[a] # "none" /\ ws'[a] = "closed" /\ UNCHANGED <<generation, wanted>>
        BY <1>7 DEF OnClose, TypeOK
    <2>4. NothingAhead' /\ PendingWhileConnecting' /\ ClosedHasNoSocket'
        BY <2>2, <2>3 DEF NothingAhead, PendingWhileConnecting, ClosedHasNoSocket
    <2>5. NoLeakedSocket'
        BY <1>7, <2>2, <2>3 DEF OnClose, Ignored, NoLeakedSocket
    <2> QED BY <2>1, <2>4, <2>5
<1>8. ASSUME NEW a \in Attempts, TimerFires(a)
      PROVE  TransportInv'
    <2>1. TypeOK'
        BY <1>8, ClosedTyped DEF TimerFires, TypeOK
    <2> QED BY <1>8, <2>1 DEF TimerFires, Closed, TypeOK, NothingAhead,
               PendingWhileConnecting, ClosedHasNoSocket, NoLeakedSocket
<1> QED BY <1>1, <1>2, <1>3, <1>4, <1>5, <1>6, <1>7, <1>8 DEF Next

(***************************************************************************)
(* No attempt leaves an open connection behind that close() and send() do  *)
(* not know: what is open is the stored socket, of the last connect().     *)
(***************************************************************************)
THEOREM NothingLeaks == Spec => []NoLeakedSocket
<1>1. TransportInv => NoLeakedSocket
    BY DEF TransportInv
<1> QED BY <1>1, InitInv, StepInv, PTL DEF Spec

(***************************************************************************)
(* After close(), and until the next connect(), no handler of the owner is *)
(* called, because close() takes a generation that no socket has.          *)
(***************************************************************************)
THEOREM SilentOnceClosed == Spec => QuietAfterClose
<1>1. ASSUME TransportInv, [Next]_vars
      PROVE  [~wanted => called' = {}]_vars
    <2> SUFFICES ASSUME Next, ~wanted
                 PROVE  called' = {}
        BY <1>1
    <2>1. \A a \in Attempts : ws[a] # "none" => Ignored(a)
        BY <1>1 DEF TransportInv, ClosedHasNoSocket, Ignored
    <2> QED BY <2>1 DEF Next, Connect, Close, OnOpen, OnError, OnMessage, OnClose,
               TimerFires
<1> QED BY <1>1, InitInv, StepInv, PTL DEF Spec, QuietAfterClose
============================================================================
