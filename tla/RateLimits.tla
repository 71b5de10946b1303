----------------------------- MODULE RateLimits -----------------------------
(***************************************************************************)
(* The relay's rate limits (services/limits.ts) and the order in which     *)
(* handlers/messages.ts asks them.  A bucket is a fixed window: it opens   *)
(* with the first request after the previous one ran out, and counts the   *)
(* requests let through until resetAt.  Every request kind has a bucket    *)
(* per address; CREATE and RING also draw on one bucket per address for    *)
(* new sessions.                                                           *)
(***************************************************************************)
EXTENDS Integers, Sequences, FiniteSets

CONSTANTS
    IPs,                        \* client addresses
    Metered,                    \* request kinds: "create", "join", ...
    Creating,                   \* those that start a session
    RATE_LIMIT_WINDOW,
    RATE_LIMIT_MAX_ACTIONS,
    SESSION_CREATION_WINDOW,
    MAX_SESSIONS_PER_IP,
    MaxTime                     \* bound: the clock stops here

ASSUME RateAssumption ==
    /\ RATE_LIMIT_WINDOW \in Nat \ {0}
    /\ RATE_LIMIT_MAX_ACTIONS \in Nat \ {0}
    /\ SESSION_CREATION_WINDOW \in Nat \ {0}
    /\ MAX_SESSIONS_PER_IP \in Nat \ {0}
    /\ MaxTime \in Nat
    /\ Creating \subseteq Metered

VARIABLES
    now,
    actionBuckets,          \* address, kind -> bucket
    sessionCreationByIP,    \* address -> bucket
    admitted                \* history: address, kind -> when one was let through

vars == <<now, actionBuckets, sessionCreationByIP, admitted>>

ActionKeys == IPs \X Metered
Bucket     == [count : Nat, resetAt : Nat]
NoBucket   == [count |-> 0, resetAt |-> 0]     \* not in the map

Init ==
    /\ now = 0
    /\ actionBuckets = [k \in ActionKeys |-> NoBucket]
    /\ sessionCreationByIP = [ip \in IPs |-> NoBucket]
    /\ admitted = [k \in ActionKeys |-> <<>>]

----------------------------------------------------------------------------

\* The body allowAction and canCreateSessionFromIP share: is the request let
\* through, and what becomes of the bucket.  An absent bucket has run out.
RanOut(bucket) == now >= bucket.resetAt

\* Mutant of Allows: one too many.
AllowsOneMore(bucket, max) == RanOut(bucket) \/ bucket.count <= max

Allows(bucket, max) == RanOut(bucket) \/ bucket.count < max

Charged(bucket, max, window) ==
    IF RanOut(bucket) THEN [count |-> 1, resetAt |-> now + window]
    ELSE IF bucket.count < max THEN [bucket EXCEPT !.count = @ + 1]
    ELSE bucket

AllowAction(ip, kind) ==
    Allows(actionBuckets[<<ip, kind>>], RATE_LIMIT_MAX_ACTIONS)

\* Mutant of CanCreateSessionFromIP: no limit of its own.
CanCreateAlways(ip) == TRUE

CanCreateSessionFromIP(ip) ==
    Allows(sessionCreationByIP[ip], MAX_SESSIONS_PER_IP)

\* A metered request: the kind's bucket is charged before the session bucket
\* is asked, and stays charged when that one refuses.
Request(ip, kind) ==
    /\ actionBuckets' = [actionBuckets EXCEPT ![<<ip, kind>>] =
           Charged(@, RATE_LIMIT_MAX_ACTIONS, RATE_LIMIT_WINDOW)]
    /\ \/ /\ AllowAction(ip, kind) /\ kind \in Creating
          /\ sessionCreationByIP' = [sessionCreationByIP EXCEPT ![ip] =
                 Charged(@, MAX_SESSIONS_PER_IP, SESSION_CREATION_WINDOW)]
       \/ /\ ~(AllowAction(ip, kind) /\ kind \in Creating)
          /\ UNCHANGED sessionCreationByIP
    /\ \/ /\ AllowAction(ip, kind)
          /\ kind \in Creating => CanCreateSessionFromIP(ip)
          /\ admitted' = [admitted EXCEPT ![<<ip, kind>>] = Append(@, now)]
       \/ /\ ~(AllowAction(ip, kind) /\ (kind \in Creating => CanCreateSessionFromIP(ip)))
          /\ UNCHANGED admitted
    /\ UNCHANGED now

\* Mutant of SweepRateLimits: every bucket goes.
SweepEverything ==
    /\ actionBuckets' = [k \in ActionKeys |-> NoBucket]
    /\ sessionCreationByIP' = [ip \in IPs |-> NoBucket]
    /\ UNCHANGED <<now, admitted>>

\* sweepRateLimits, run by the sweeper: buckets that have run out are deleted.
SweepRateLimits ==
    /\ actionBuckets' = [k \in ActionKeys |->
           IF RanOut(actionBuckets[k]) THEN NoBucket ELSE actionBuckets[k]]
    /\ sessionCreationByIP' = [ip \in IPs |->
           IF RanOut(sessionCreationByIP[ip]) THEN NoBucket ELSE sessionCreationByIP[ip]]
    /\ UNCHANGED <<now, admitted>>

Tick ==
    /\ now < MaxTime
    /\ now' = now + 1
    /\ UNCHANGED <<actionBuckets, sessionCreationByIP, admitted>>

Next ==
    \/ \E ip \in IPs, kind \in Metered : Request(ip, kind)
    \/ SweepRateLimits
    \/ Tick

Spec == Init /\ [][Next]_vars

----------------------------------------------------------------------------

\* The requests of the keys K let through: key, number and time.
Admissions(K) == UNION {{<<k, i, admitted[k][i]>> : i \in DOMAIN admitted[k]} : k \in K}

\* How many of them fall in the instants from..to.
Through(K, from, to) == Cardinality({r \in Admissions(K) : r[3] \in from..to})

(* Whichever way a window of RATE_LIMIT_WINDOW falls, less than twice the  *)
(* limit of one kind gets through from one address: a window meets at most *)
(* two buckets, and if two, not the request that opened the first.         *)
AtMostTwiceTheLimit ==
    \A k \in ActionKeys, t \in 0..MaxTime :
        Through({k}, t, t + RATE_LIMIT_WINDOW - 1) < 2 * RATE_LIMIT_MAX_ACTIONS

(* The same for the sessions an address may start, over all kinds that     *)
(* start one: the two kinds share a bucket.                                *)
SessionsPerAddress ==
    \A ip \in IPs, t \in 0..MaxTime :
        Through({ip} \X Creating, t, t + SESSION_CREATION_WINDOW - 1)
            < 2 * MAX_SESSIONS_PER_IP

(* The periodic cleanup changes no verdict: what would have been let       *)
(* through or refused before it is let through or refused after it.        *)
SweepIsInvisible ==
    [][SweepRateLimits =>
          /\ \A ip \in IPs, kind \in Metered :
                 AllowAction(ip, kind)' = AllowAction(ip, kind)
          /\ \A ip \in IPs :
                 CanCreateSessionFromIP(ip)' = CanCreateSessionFromIP(ip)]_vars
============================================================================
