-------------------------- MODULE SessionLifecycle --------------------------
(***************************************************************************)
(* The life of a session as docs/protocol/sessions.md promises it, with no *)
(* sockets, handles, frames or timers: a session is opened by one person,  *)
(* holds at most two, stands empty for RECONNECT_GRACE at least before it  *)
(* is given up, admits nobody after SESSION_TTL, and its lifetime, set     *)
(* when it is opened, is never extended.  Module Relay implements it.      *)
(***************************************************************************)
EXTENDS Integers

CONSTANTS SessionIds, SESSION_TTL, RECONNECT_GRACE

VARIABLES
    now,
    live,           \* the sessions that exist
    occupancy,      \* session -> number of participants
    expiresAt,      \* session -> end of its lifetime
    keepUntil       \* session -> end of the grace of an empty session

lifecycleVars == <<now, live, occupancy, expiresAt, keepUntil>>

Never == -1         \* keepUntil of a session that is not empty

Init ==
    /\ now = 0
    /\ live = {}
    /\ occupancy = [s \in SessionIds |-> 0]
    /\ expiresAt = [s \in SessionIds |-> 0]
    /\ keepUntil = [s \in SessionIds |-> Never]

Open(s) ==
    /\ s \notin live
    /\ live' = live \cup {s}
    /\ occupancy' = [occupancy EXCEPT ![s] = 1]
    /\ expiresAt' = [expiresAt EXCEPT ![s] = now + SESSION_TTL]
    /\ UNCHANGED <<now, keepUntil>>

\* Someone comes in, and may take the place of participants that are dead.
Enter(s) ==
    /\ s \in live /\ now < expiresAt[s]
    /\ \E n \in 1..2 : /\ n <= occupancy[s] + 1
                       /\ occupancy' = [occupancy EXCEPT ![s] = n]
    /\ keepUntil' = [keepUntil EXCEPT ![s] = Never]
    /\ UNCHANGED <<now, live, expiresAt>>

Leave(s) ==
    /\ s \in live /\ occupancy[s] > 0
    /\ occupancy' = [occupancy EXCEPT ![s] = @ - 1]
    /\ keepUntil' = [keepUntil EXCEPT ![s] =
           IF occupancy[s] = 1 THEN now + RECONNECT_GRACE ELSE Never]
    /\ UNCHANGED <<now, live, expiresAt>>

End(S) ==
    /\ live' = live \ S
    /\ occupancy' = [s \in SessionIds |-> IF s \in S THEN 0 ELSE occupancy[s]]
    /\ expiresAt' = [s \in SessionIds |-> IF s \in S THEN 0 ELSE expiresAt[s]]
    /\ keepUntil' = [s \in SessionIds |-> IF s \in S THEN Never ELSE keepUntil[s]]
    /\ UNCHANGED now

GraceEnds(s) ==
    /\ s \in live /\ occupancy[s] = 0
    /\ now >= keepUntil[s]
    /\ End({s})

\* The sweeper may end several sessions at once.
Expire(S) ==
    /\ S \subseteq live
    /\ \A s \in S : now >= expiresAt[s]
    /\ End(S)

Tick ==
    /\ now' = now + 1
    /\ UNCHANGED <<live, occupancy, expiresAt, keepUntil>>

Next ==
    \/ \E s \in SessionIds : Open(s) \/ Enter(s) \/ Leave(s) \/ GraceEnds(s)
    \/ \E S \in SUBSET SessionIds : Expire(S)
    \/ Tick

Spec == Init /\ [][Next]_lifecycleVars
============================================================================
