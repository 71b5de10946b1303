----------------------------- MODULE Transport -----------------------------
(***************************************************************************)
(* WebSocketTransport (packages/sdk/src/transport.ts): one object that     *)
(* opens a WebSocket per connect(), and whose generation counter tells the *)
(* callbacks of the current socket from those of the sockets it has given  *)
(* up.  Every connect() bumps the counter, so the attempt is named by the  *)
(* generation it was given; close() bumps it too, and that number names no *)
(* attempt.                                                                *)
(***************************************************************************)
EXTENDS Integers

CONSTANT MaxGeneration      \* bound: calls of connect() and close()

ASSUME GenerationAssumption == MaxGeneration \in Nat

Attempts == 1..MaxGeneration
None     == 0

VARIABLES
    generation,     \* this.generation
    socket,         \* this.socket, by the attempt that opened it
    ws,             \* attempt -> state of its WebSocket
    detached,       \* attempts whose handlers detachSocket has removed
    settled,        \* attempts whose promise is resolved or rejected
    timers,         \* attempts whose connect timeout is armed
    called,         \* the owner's handlers called in the last step
    wanted          \* history: connect() came after the last close()

transportVars == <<generation, socket, ws, detached, settled, timers>>
vars          == <<transportVars, called, wanted>>

(***************************************************************************)
(* A WebSocket of the platform is connecting, open, closing (close() was   *)
(* called on it), failing (its error event is delivered, the close event   *)
(* follows) or closed; "none" before it is made.                           *)
(***************************************************************************)
SocketState == {"none", "connecting", "open", "closing", "failing", "closed"}

Init ==
    /\ generation = 0
    /\ socket = None
    /\ ws = [a \in Attempts |-> "none"]
    /\ detached = {}
    /\ settled = {}
    /\ timers = {}
    /\ called = {}
    /\ wanted = FALSE

\* socket.close() on the sockets of A.
Closed(A) == [a \in Attempts |->
    IF a \in A /\ ws[a] \in {"connecting", "open"} THEN "closing" ELSE ws[a]]

\* detachSocket: the current socket loses its handlers and is closed.
Current == {socket} \ {None}

----------------------------------------------------------------------------
(* Calls of the owner.                                                     *)

Connect ==
    /\ generation < MaxGeneration
    /\ generation' = generation + 1
    /\ ws' = [Closed(Current) EXCEPT ![generation + 1] = "connecting"]
    /\ detached' = detached \cup Current
    /\ socket' = None
    /\ timers' = timers \cup {generation + 1}
    /\ called' = {}
    /\ wanted' = TRUE
    /\ UNCHANGED settled

\* Mutant of Close: the counter stays.
CloseSameGeneration ==
    /\ generation < MaxGeneration
    /\ ws' = Closed(Current)
    /\ detached' = detached \cup Current
    /\ socket' = None
    /\ called' = {}
    /\ wanted' = FALSE
    /\ UNCHANGED <<generation, settled, timers>>

Close ==
    /\ generation < MaxGeneration
    /\ generation' = generation + 1
    /\ ws' = Closed(Current)
    /\ detached' = detached \cup Current
    /\ socket' = None
    /\ called' = {}
    /\ wanted' = FALSE
    /\ UNCHANGED <<settled, timers>>

----------------------------------------------------------------------------
(* Callbacks of the sockets and of the timers.                             *)

\* A handler that does nothing: removed, or of an earlier generation.
Ignored(a) == a \in detached \/ a # generation

OnOpen(a) ==
    /\ ws[a] = "connecting"
    /\ \/ /\ a # generation         \* given up meanwhile: close it
          /\ ws' = [ws EXCEPT ![a] = "closing"]
          /\ UNCHANGED <<socket, settled, timers>>
       \/ /\ a = generation /\ a \in settled
          /\ ws' = [ws EXCEPT ![a] = "open"]
          /\ UNCHANGED <<socket, settled, timers>>
       \/ /\ a = generation /\ a \notin settled
          /\ ws' = [ws EXCEPT ![a] = "open"]
          /\ socket' = a
          /\ settled' = settled \cup {a}
          /\ timers' = timers \ {a}
    /\ called' = {}
    /\ UNCHANGED <<generation, detached, wanted>>

OnError(a) ==
    /\ ws[a] \in {"connecting", "open", "closing"}
    /\ ws' = [ws EXCEPT ![a] = "failing"]
    /\ \/ /\ Ignored(a)
          /\ called' = {}
          /\ UNCHANGED <<settled, timers>>
       \/ /\ ~Ignored(a)
          /\ called' = {"error"}
          /\ settled' = settled \cup {a}
          /\ timers' = IF a \in settled THEN timers ELSE timers \ {a}
    /\ UNCHANGED <<generation, socket, detached, wanted>>

OnMessage(a) ==
    /\ ws[a] = "open"
    /\ called' = IF Ignored(a) THEN {} ELSE {"message"}
    /\ UNCHANGED <<transportVars, wanted>>

OnClose(a) ==
    /\ ws[a] \in {"connecting", "open", "closing", "failing"}
    /\ ws' = [ws EXCEPT ![a] = "closed"]
    /\ \/ /\ Ignored(a)
          /\ called' = {}
          /\ UNCHANGED <<socket, settled, timers>>
       \/ /\ ~Ignored(a) /\ a \notin settled
          /\ socket' = None
          /\ settled' = settled \cup {a}
          /\ timers' = timers \ {a}
          /\ called' = {}
       \/ /\ ~Ignored(a) /\ a \in settled
          /\ socket' = None
          /\ called' = {"close"}
          /\ UNCHANGED <<settled, timers>>
    /\ UNCHANGED <<generation, detached, wanted>>

\* Mutant of TimerFires: the socket is closed, the close event left to settle.
TimerOnlyCloses(a) ==
    /\ a \in timers
    /\ timers' = timers \ {a}
    /\ ws' = IF a \in settled \/ a # generation THEN ws ELSE Closed({a})
    /\ called' = {}
    /\ UNCHANGED <<generation, socket, detached, settled, wanted>>

\* Mutant of TimerFires: the promise is rejected, the socket left to open.
TimerLeavesSocket(a) ==
    /\ a \in timers
    /\ timers' = timers \ {a}
    /\ settled' = IF a \in settled \/ a # generation THEN settled ELSE settled \cup {a}
    /\ called' = {}
    /\ UNCHANGED <<generation, socket, ws, detached, wanted>>

TimerFires(a) ==
    /\ a \in timers
    /\ timers' = timers \ {a}
    /\ \/ /\ a \in settled \/ a # generation
          /\ UNCHANGED <<ws, settled>>
       \/ /\ a \notin settled /\ a = generation
          /\ settled' = settled \cup {a}
          /\ ws' = Closed({a})
    /\ called' = {}
    /\ UNCHANGED <<generation, socket, detached, wanted>>

----------------------------------------------------------------------------

Next ==
    \/ Connect \/ Close
    \/ \E a \in Attempts : \/ OnOpen(a) \/ OnError(a) \/ OnMessage(a) \/ OnClose(a)
                           \/ TimerFires(a)

\* A timeout fires in the end; nothing is asked of the network.
Spec     == Init /\ [][Next]_vars
FairSpec == Spec /\ \A a \in Attempts : WF_vars(TimerFires(a))

----------------------------------------------------------------------------

(* A socket that is open is the one send() writes to, and of the latest    *)
(* connect(): no attempt that timed out, failed or was superseded leaves   *)
(* an open connection behind, which the relay would count as a third       *)
(* person in the session.                                                  *)
NoLeakedSocket ==
    \A a \in Attempts : ws[a] = "open" => socket = a /\ a = generation

(* After close() the owner's handlers are not called until it connects     *)
(* again, whatever the sockets it gave up still deliver.                   *)
QuietAfterClose == [][~wanted => called' = {}]_vars

(* A connect() that is neither closed nor superseded settles, even when    *)
(* the network never answers.                                              *)
ConnectSettles ==
    \A a \in Attempts : a \notin settled /\ a = generation /\ ws[a] # "none"
                            ~> a \in settled \/ a # generation
============================================================================
