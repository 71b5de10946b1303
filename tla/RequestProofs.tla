---------------------------- MODULE RequestProofs ----------------------------
(***************************************************************************)
(* Proofs about the relay's front door, for any limits, windows, addresses *)
(* and request kinds, and any names, pages and texts: what a fixed-window  *)
(* bucket promises of every window, that the links of the apps lead home   *)
(* and that what the apps send is understood.                              *)
(***************************************************************************)
EXTENDS Requests, FiniteSetTheorems, TLAPS

----------------------------------------------------------------------------
(* Counting.                                                               *)

LEMMA CountFewer ==
    ASSUME NEW Y, IsFiniteSet(Y), NEW X \in SUBSET Y
    PROVE  /\ IsFiniteSet(X)
           /\ Cardinality(X) \in Nat /\ Cardinality(Y) \in Nat
           /\ Cardinality(X) <= Cardinality(Y)
BY FS_Subset, FS_CardinalityType

LEMMA CountBoth ==
    ASSUME NEW Y, NEW Z, IsFiniteSet(Y), IsFiniteSet(Z), NEW X \in SUBSET (Y \cup Z)
    PROVE  /\ Cardinality(X) \in Nat
           /\ Cardinality(X) <= Cardinality(Y) + Cardinality(Z)
<1>1. /\ IsFiniteSet(Y \cup Z) /\ IsFiniteSet(Y \cap Z)
      /\ Cardinality(Y \cup Z) = Cardinality(Y) + Cardinality(Z) - Cardinality(Y \cap Z)
    BY FS_Union, FS_Intersection
<1>2. Cardinality(Y \cap Z) \in Nat /\ Cardinality(Y) \in Nat /\ Cardinality(Z) \in Nat
    BY <1>1, FS_CardinalityType
<1>3. Cardinality(X) \in Nat /\ Cardinality(X) <= Cardinality(Y \cup Z)
    BY <1>1, CountFewer
<1> QED BY <1>1, <1>2, <1>3

LEMMA CountOneMore ==
    ASSUME NEW Y, IsFiniteSet(Y), NEW x, NEW X \in SUBSET (Y \cup {x})
    PROVE  Cardinality(X) \in Nat /\ Cardinality(X) <= Cardinality(Y) + 1
<1>1. IsFiniteSet(Y \cup {x}) /\ Cardinality(Y \cup {x}) <= Cardinality(Y) + 1
      /\ Cardinality(Y) \in Nat
    BY FS_AddElement, FS_CardinalityType
<1> QED BY <1>1, CountFewer

----------------------------------------------------------------------------
(* One bucket.  A is a set of admissions, as Admissions returns it, b a    *)
(* bucket that has been charged for each of them, n the time.              *)

Admission(A) == IsFiniteSet(A) /\ \A r \in A : r[3] \in Nat

Since(A, t)         == {r \in A : r[3] >= t}
After(A, t)         == {r \in A : r[3] > t}
Between(A, from, to) == {r \in A : r[3] \in from..to}

(* A bucket that has run out may open anew at once: nothing was let        *)
(* through at this instant, and less than the limit in the window before.  *)
Closed(A, n, max, window) ==
    /\ \A r \in A : r[3] < n
    /\ Cardinality(After(A, n - window)) < max

(* An open one, which opened at opening: its count is what it has let      *)
(* through, the request that opened it among them, and less than the limit *)
(* was let through in the window before it opened.                         *)
Opened(A, b, n, max, window) ==
    LET opening == b.resetAt - window IN
    /\ opening <= n /\ b.count <= max
    /\ \A r \in A : r[3] <= n
    /\ Cardinality(Since(A, opening)) <= b.count
    /\ Cardinality(After(A, opening)) < b.count
    /\ Cardinality(Between(A, opening - window + 1, opening - 1)) < max

BucketInv(A, b, n, max, window) ==
    /\ n >= b.resetAt => Closed(A, n, max, window)
    /\ n < b.resetAt => Opened(A, b, n, max, window)
    /\ \A t \in Nat : Cardinality(Between(A, t, t + window - 1)) < 2 * max

LEMMA PartsFinite ==
    ASSUME NEW A, Admission(A), NEW t, NEW u
    PROVE  /\ Since(A, t) \in SUBSET A /\ IsFiniteSet(Since(A, t)) /\ Cardinality(Since(A, t)) \in Nat
           /\ After(A, t) \in SUBSET A /\ IsFiniteSet(After(A, t)) /\ Cardinality(After(A, t)) \in Nat
           /\ Between(A, t, u) \in SUBSET A /\ IsFiniteSet(Between(A, t, u))
           /\ Cardinality(Between(A, t, u)) \in Nat
<1>1. Since(A, t) \in SUBSET A /\ After(A, t) \in SUBSET A /\ Between(A, t, u) \in SUBSET A
    BY DEF Since, After, Between
<1> QED BY <1>1, CountFewer DEF Admission

LEMMA BucketEmpty ==
    ASSUME NEW n \in Nat, NEW max \in Nat \ {0}, NEW window \in Nat \ {0}
    PROVE  Admission({}) /\ BucketInv({}, NoBucket, n, max, window)
<1>1. IsFiniteSet({}) /\ Cardinality({}) = 0
    BY FS_EmptySet
<1>2. \A t, u : After({}, t) = {} /\ Between({}, t, u) = {}
    BY DEF After, Between
<1>3. Closed({}, n, max, window)
    BY <1>1, <1>2 DEF Closed
<1>4. \A t \in Nat : Cardinality(Between({}, t, t + window - 1)) < 2 * max
    <2>1. 0 < 2 * max
        OBVIOUS
    <2>2. \A t \in Nat : Cardinality(Between({}, t, t + window - 1)) = 0
        BY <1>1, <1>2
    <2> QED BY <2>1, <2>2
<1> QED BY <1>1, <1>3, <1>4 DEF BucketInv, NoBucket, Admission

(* The cleanup forgets a bucket that has run out.                          *)
LEMMA BucketSwept ==
    ASSUME NEW A, NEW b, NEW n \in Nat, NEW max, NEW window,
           BucketInv(A, b, n, max, window), n >= b.resetAt
    PROVE  BucketInv(A, NoBucket, n, max, window)
BY DEF BucketInv, NoBucket

(* Time passes; when the bucket runs out, its opening is a window ago.     *)
LEMMA BucketTick ==
    ASSUME NEW A, Admission(A), NEW b \in Bucket, NEW n \in Nat, NEW max \in Nat \ {0},
           NEW window \in Nat \ {0}, BucketInv(A, b, n, max, window)
    PROVE  BucketInv(A, b, n + 1, max, window)
<1>1. b.resetAt \in Nat /\ b.count \in Nat
    BY DEF Bucket
<1>2. CASE n >= b.resetAt
    <2>1. \A r \in A : r[3] < n + 1
        BY <1>2 DEF BucketInv, Closed, Admission
    <2>2. After(A, n + 1 - window) \in SUBSET After(A, n - window)
        BY DEF After, Admission
    <2>3. Cardinality(After(A, n + 1 - window)) <= Cardinality(After(A, n - window))
        BY <2>2, PartsFinite, CountFewer
    <2>4. /\ Cardinality(After(A, n + 1 - window)) \in Nat
          /\ Cardinality(After(A, n - window)) \in Nat
        BY PartsFinite
    <2>5. Cardinality(After(A, n - window)) < max
        BY <1>2, <1>1 DEF BucketInv, Closed
    <2>6. Cardinality(After(A, n + 1 - window)) < max
        BY <2>3, <2>4, <2>5
    <2> QED BY <1>1, <1>2, <2>1, <2>6 DEF BucketInv, Closed
<1>3. CASE n < b.resetAt /\ n + 1 >= b.resetAt
    <2>1. b.resetAt - window = n + 1 - window
        BY <1>1, <1>3
    <2>2. Cardinality(After(A, n + 1 - window)) < b.count /\ b.count <= max
        BY <1>3, <2>1 DEF BucketInv, Opened
    <2>3. Cardinality(After(A, n + 1 - window)) < max
        BY <1>1, <2>2, PartsFinite
    <2>4. \A r \in A : r[3] < n + 1
        BY <1>3 DEF BucketInv, Opened, Admission
    <2> QED BY <1>1, <1>3, <2>3, <2>4 DEF BucketInv, Closed
<1>4. CASE n + 1 < b.resetAt
    <2>1. Opened(A, b, n, max, window)
        BY <1>1, <1>4 DEF BucketInv
    <2>2. Opened(A, b, n + 1, max, window)
        BY <1>1, <2>1 DEF Opened, Admission
    <2> QED BY <1>1, <1>4, <2>2 DEF BucketInv
<1> QED BY <1>1, <1>2, <1>3, <1>4

(* Nothing new falls in a part that ends before the instant of the new     *)
(* admission, and at most one more in any part.                            *)
LEMMA OneMoreAdmission ==
    ASSUME NEW A, Admission(A), NEW x, x[3] \in Nat
    PROVE  /\ Admission(A \cup {x})
           /\ \A t \in Int : /\ Cardinality(Since(A \cup {x}, t)) <= Cardinality(Since(A, t)) + 1
                             /\ Cardinality(After(A \cup {x}, t)) <= Cardinality(After(A, t)) + 1
                             /\ t >= x[3] => After(A \cup {x}, t) = After(A, t)
           /\ \A t, u \in Int :
                  x[3] \notin t..u => Between(A \cup {x}, t, u) = Between(A, t, u)
<1> DEFINE B == A \cup {x}
<1>1. Admission(B)
    BY FS_AddElement DEF Admission
<1>2. ASSUME NEW t \in Int
      PROVE  /\ Cardinality(Since(B, t)) <= Cardinality(Since(A, t)) + 1
             /\ Cardinality(After(B, t)) <= Cardinality(After(A, t)) + 1
    <2>1. Since(B, t) \in SUBSET (Since(A, t) \cup {x}) /\ After(B, t) \in SUBSET (After(A, t) \cup {x})
        BY DEF Since, After
    <2>2. IsFiniteSet(Since(A, t)) /\ IsFiniteSet(After(A, t))
        BY PartsFinite
    <2> HIDE DEF B
    <2> QED BY <2>1, <2>2, CountOneMore
<1>3. ASSUME NEW t \in Int, t >= x[3]
      PROVE  After(B, t) = After(A, t)
    BY <1>3 DEF After
<1>4. ASSUME NEW t \in Int, NEW u \in Int, x[3] \notin t..u
      PROVE  Between(B, t, u) = Between(A, t, u)
    BY <1>4 DEF Between
<1> QED BY <1>1, <1>2, <1>3, <1>4

(* A request charges the bucket; it may be let through only if the bucket  *)
(* allows it, and a request that was charged may yet be refused elsewhere. *)
LEMMA BucketCharged ==
    ASSUME now \in Nat, NEW A, Admission(A), NEW b \in Bucket, NEW max \in Nat \ {0},
           NEW window \in Nat \ {0}, BucketInv(A, b, now, max, window),
           NEW B, NEW x, x[3] = now, B = A \/ (Allows(b, max) /\ B = A \cup {x})
    PROVE  BucketInv(B, Charged(b, max, window), now, max, window)
<1> DEFINE c == Charged(b, max, window)
<1>1. b.resetAt \in Nat /\ b.count \in Nat
    BY DEF Bucket
<1>2. Admission(B)
    BY OneMoreAdmission
<1>3. \A r \in A : r[3] <= now
    BY <1>1 DEF BucketInv, Closed, Opened, Admission
<1>4. \A r \in B : r[3] <= now
    BY <1>3
<1>5. \A t \in Int : /\ Cardinality(Since(A, t)) \in Nat /\ Cardinality(Since(B, t)) \in Nat
                     /\ Cardinality(After(A, t)) \in Nat /\ Cardinality(After(B, t)) \in Nat
    BY <1>2, PartsFinite
<1>6. \A t, u \in Int : Cardinality(Between(A, t, u)) \in Nat /\ Cardinality(Between(B, t, u)) \in Nat
    BY <1>2, PartsFinite
<1>7. \A t \in Int : /\ Cardinality(Since(B, t)) <= Cardinality(Since(A, t)) + 1
                     /\ Cardinality(After(B, t)) <= Cardinality(After(A, t)) + 1
                     /\ t >= now => After(B, t) = After(A, t)
    <2>1. CASE B = A
        BY <1>5, <2>1
    <2>2. CASE B = A \cup {x}
        BY <2>2, OneMoreAdmission
    <2> QED BY <2>1, <2>2
<1>8. \A t, u \in Int : u < now => Between(B, t, u) = Between(A, t, u)
    <2>1. SUFFICES ASSUME NEW t \in Int, NEW u \in Int, u < now
                   PROVE  Between(B, t, u) = Between(A, t, u)
        OBVIOUS
    <2>2. x[3] \notin t..u
        BY <2>1
    <2>3. CASE B = A
        BY <2>3
    <2>4. CASE B = A \cup {x}
        BY <2>2, <2>4 DEF Between
    <2> QED BY <2>3, <2>4
<1>9. CASE now >= b.resetAt
    <2>1. c = [count |-> 1, resetAt |-> now + window]
        <3>1. RanOut(b)
            BY <1>9 DEF RanOut
        <3> QED BY <3>1, Zenon DEF Charged
    <2>2. Closed(A, now, max, window)
        BY <1>9 DEF BucketInv
    <2>3. Since(A, now) = {} /\ After(A, now) = {}
        BY <2>2, <1>3 DEF Since, After, Closed, Admission
    <2>4. Cardinality(Since(B, now)) <= 1 /\ Cardinality(After(B, now)) < 1
        <3>1. Cardinality(Since(A, now)) = 0 /\ Cardinality(After(A, now)) = 0
            BY <2>3, FS_EmptySet
        <3>2. now \in Int /\ now >= now
            OBVIOUS
        <3>3. /\ Cardinality(Since(B, now)) <= Cardinality(Since(A, now)) + 1
              /\ After(B, now) = After(A, now)
            BY <1>7, <3>2
        <3> QED BY <3>1, <3>3
    <2>5. Between(B, now - window + 1, now - 1) \in SUBSET After(A, now - window)
        BY <1>8 DEF Between, After, Admission
    <2>6. Cardinality(Between(B, now - window + 1, now - 1)) <= Cardinality(After(A, now - window))
        BY <2>5, PartsFinite, CountFewer
    <2>7. Cardinality(After(A, now - window)) < max
        BY <2>2 DEF Closed
    <2>8. Cardinality(Between(B, now - window + 1, now - 1)) < max
        BY <2>6, <2>7, <1>5, <1>6
    <2>9. Opened(B, c, now, max, window)
        <3>1. c.count = 1 /\ c.resetAt - window = now
            BY <2>1
        <3> HIDE DEF c
        <3> QED BY <3>1, <1>4, <2>4, <2>8 DEF Opened
    <2>10. ASSUME NEW t \in Nat
           PROVE  Cardinality(Between(B, t, t + window - 1)) < 2 * max
        <3>1. CASE t + window - 1 < now
            <4>1. t + window - 1 \in Int
                OBVIOUS
            <4>2. Between(B, t, t + window - 1) = Between(A, t, t + window - 1)
                BY <3>1, <4>1, <1>8
            <4> QED BY <4>2 DEF BucketInv
        <3>2. CASE t + window - 1 >= now
            <4>1. Between(B, t, t + window - 1) \in SUBSET After(B, now - window)
                BY <3>2, <1>2 DEF Between, After, Admission
            <4>2. Cardinality(Between(B, t, t + window - 1)) <= Cardinality(After(B, now - window))
                BY <4>1, <1>2, PartsFinite, CountFewer
            <4>3. Cardinality(After(B, now - window)) <= Cardinality(After(A, now - window)) + 1
                BY <1>7
            <4>5. /\ Cardinality(After(A, now - window)) \in Nat
                  /\ Cardinality(After(B, now - window)) \in Nat
                  /\ Cardinality(Between(B, t, t + window - 1)) \in Nat
                BY <1>2, PartsFinite
            <4>6. Cardinality(Between(B, t, t + window - 1)) <= max
                <5> DEFINE i == Cardinality(Between(B, t, t + window - 1))
                           j == Cardinality(After(B, now - window))
                           k == Cardinality(After(A, now - window))
                <5>1. i \in Nat /\ j \in Nat /\ k \in Nat /\ i <= j /\ j <= k + 1 /\ k < max
                    BY <4>2, <4>3, <4>5, <2>7
                <5> HIDE DEF i, j, k
                <5>2. i <= max
                    BY <5>1
                <5> QED BY <5>2 DEF i
            <4> QED BY <4>5, <4>6
        <3> QED BY <3>1, <3>2
    <2> QED BY <2>1, <2>9, <2>10 DEF BucketInv
<1>10. CASE now < b.resetAt /\ b.count < max
    <2> DEFINE opening == b.resetAt - window
    <2>1. c.count = b.count + 1 /\ c.resetAt = b.resetAt
        BY <1>10, <1>1 DEF Charged, RanOut, Bucket
    <2>2. Opened(A, b, now, max, window)
        BY <1>10 DEF BucketInv
    <2>3. opening \in Int /\ opening <= now
        BY <2>2, <1>1 DEF Opened
    <2>4. Cardinality(Since(B, opening)) <= c.count /\ Cardinality(After(B, opening)) < c.count
        BY <2>1, <2>2, <2>3, <1>1, <1>5, <1>7 DEF Opened
    <2>5. Cardinality(Between(B, opening - window + 1, opening - 1)) < max
        BY <2>2, <2>3, <1>8 DEF Opened
    <2>6. Opened(B, c, now, max, window)
        <3>1. c.resetAt - window = opening /\ c.count <= max
            BY <2>1, <1>1, <1>10
        <3> HIDE DEF c, opening
        <3> QED BY <3>1, <1>4, <2>3, <2>4, <2>5 DEF Opened
    <2>7. c.count \in Nat /\ c.count <= max
        BY <2>1, <1>1, <1>10
    <2>8. ASSUME NEW t \in Nat
          PROVE  Cardinality(Between(B, t, t + window - 1)) < 2 * max
        <3> DEFINE P == Between(B, t, t + window - 1)
        <3>1. CASE t + window - 1 < now
            <4>1. t + window - 1 \in Int
                OBVIOUS
            <4>2. Between(B, t, t + window - 1) = Between(A, t, t + window - 1)
                BY <3>1, <4>1, <1>8
            <4> QED BY <4>2 DEF BucketInv
        <3>2. CASE t > opening
            <4>1. P \in SUBSET After(B, opening)
                BY <3>2, <2>3, <1>2 DEF Between, After, Admission
            <4>2. Cardinality(P) <= Cardinality(After(B, opening))
                BY <4>1, <1>2, PartsFinite, CountFewer
            <4>4. Cardinality(P) \in Nat /\ Cardinality(After(B, opening)) \in Nat
                BY <1>2, PartsFinite
            <4> HIDE DEF c
            <4>5. Cardinality(P) < max
                <5> DEFINE i == Cardinality(P)
                           j == Cardinality(After(B, opening))
                <5>1. i \in Nat /\ j \in Nat /\ i <= j /\ j < c.count /\ c.count <= max /\ c.count \in Nat
                    BY <4>2, <4>4, <2>4, <2>7
                <5> HIDE DEF i, j
                <5>2. i < max
                    BY <5>1
                <5> QED BY <5>2 DEF i
            <4> HIDE DEF P
            <4>6. Cardinality(P) < 2 * max
                BY <4>4, <4>5
            <4> QED BY <4>6 DEF P
        <3>3. CASE t + window - 1 >= now /\ t <= opening
            <4> DEFINE Y == Between(B, opening - window + 1, opening - 1)
            <4> DEFINE Z == Since(B, opening)
            <4>1. P \in SUBSET (Y \cup Z)
                BY <3>3, <2>3, <1>2 DEF Between, Since, Admission
            <4>2. IsFiniteSet(Y) /\ IsFiniteSet(Z)
                BY <1>2, PartsFinite
            <4>3. Cardinality(Y) \in Nat /\ Cardinality(Z) \in Nat
                BY <4>2, FS_CardinalityType
            <4>4. Cardinality(Y) < max /\ Cardinality(Z) <= max
                BY <2>4, <2>5, <2>7, <4>3
            <4> HIDE DEF P, Y, Z
            <4>5. Cardinality(P) \in Nat /\ Cardinality(P) <= Cardinality(Y) + Cardinality(Z)
                BY <4>1, <4>2, CountBoth
            <4>6. Cardinality(P) < max + max
                BY <4>3, <4>4, <4>5
            <4>7. Cardinality(P) < 2 * max
                BY <4>6
            <4> QED BY <4>7 DEF P
        <3> QED BY <3>1, <3>2, <3>3, <2>3
    <2>9. ~(now >= c.resetAt)
        BY <2>1, <1>1, <1>10
    <2> HIDE DEF c
    <2>10. BucketInv(B, c, now, max, window)
        BY <2>6, <2>8, <2>9 DEF BucketInv
    <2> QED BY <2>10 DEF c
<1>11. CASE now < b.resetAt /\ ~(b.count < max)
    <2>1. c = b /\ B = A
        BY <1>11, <1>1 DEF Charged, Allows, RanOut
    <2> QED BY <2>1
<1> QED BY <1>1, <1>9, <1>10, <1>11

----------------------------------------------------------------------------
(* The state.                                                              *)

LimitsTypeOK ==
    /\ now \in Nat
    /\ actionBuckets \in [ActionKeys -> Bucket]
    /\ sessionCreationByIP \in [IPs -> Bucket]
    /\ admitted \in [ActionKeys -> Seq(Nat)]

\* The bucket of every request kind of every address, and what it let through.
ActionsInv ==
    \A k \in ActionKeys :
        /\ Admission(Admissions({k}))
        /\ BucketInv(Admissions({k}), actionBuckets[k], now,
                     RATE_LIMIT_MAX_ACTIONS, RATE_LIMIT_WINDOW)

\* The bucket the kinds that start a session share.
SessionsInv ==
    \A ip \in IPs :
        /\ Admission(Admissions({ip} \X Creating))
        /\ BucketInv(Admissions({ip} \X Creating), sessionCreationByIP[ip], now,
                     MAX_SESSIONS_PER_IP, SESSION_CREATION_WINDOW)

LimitInv == LimitsTypeOK /\ ActionsInv /\ SessionsInv

LEMMA CreatingKeys ==
    \A ip \in IPs : {ip} \X Creating \in SUBSET ActionKeys
BY RateAssumption DEF ActionKeys

(* What is let through next is one admission more, of its own key.         *)
LEMMA AdmissionsGrow ==
    ASSUME LimitsTypeOK, NEW key \in ActionKeys, NEW K \in SUBSET ActionKeys,
           admitted' = [admitted EXCEPT ![key] = Append(@, now)]
    PROVE  /\ key \in K => Admissions(K)' =
                               Admissions(K) \cup {<<key, Len(admitted[key]) + 1, now>>}
           /\ key \notin K => Admissions(K)' = Admissions(K)
<1> DEFINE s == admitted[key]
           x == <<key, Len(s) + 1, now>>
<1>1. s \in Seq(Nat) /\ now \in Nat
    BY DEF LimitsTypeOK
<1>2. \A k \in K : k # key => admitted'[k] = admitted[k]
    BY DEF LimitsTypeOK
<1>3. admitted'[key] = Append(s, now)
    BY DEF LimitsTypeOK
<1>4. /\ DOMAIN admitted'[key] = DOMAIN s \cup {Len(s) + 1}
      /\ \A i \in DOMAIN s : admitted'[key][i] = s[i]
      /\ admitted'[key][Len(s) + 1] = now
    BY <1>1, <1>3
<1>5. {<<key, i, admitted'[key][i]>> : i \in DOMAIN admitted'[key]}
          = {<<key, i, s[i]>> : i \in DOMAIN s} \cup {x}
    BY <1>4, Zenon
<1>6. ASSUME key \notin K
      PROVE  Admissions(K)' = Admissions(K)
    BY <1>2, <1>6 DEF Admissions
<1>7. ASSUME key \in K
      PROVE  Admissions(K)' = Admissions(K) \cup {x}
    <2> DEFINE Of(k) == {<<k, i, admitted[k][i]>> : i \in DOMAIN admitted[k]}
               OfNext(k) == {<<k, i, admitted'[k][i]>> : i \in DOMAIN admitted'[k]}
    <2>1. OfNext(key) = Of(key) \cup {x}
        BY <1>5
    <2>2. \A k \in K : k # key => OfNext(k) = Of(k)
        BY <1>2
    <2>3. Admissions(K) = UNION {Of(k) : k \in K} /\ Admissions(K)' = UNION {OfNext(k) : k \in K}
        BY DEF Admissions
    <2> HIDE DEF Of, OfNext
    <2>4. \A k \in K : OfNext(k) = IF k = key THEN Of(k) \cup {x} ELSE Of(k)
        BY <2>1, <2>2
    <2>5. \A y : y \in UNION {OfNext(k) : k \in K} <=> y \in UNION {Of(k) : k \in K} \/ y = x
        BY <2>4, <1>7
    <2>6. \A y : y \in Admissions(K)' <=> y \in Admissions(K) \/ y = x
        BY <2>3, <2>5, Zenon
    <2> QED BY <2>6, Zenon
<1> QED BY <1>6, <1>7

LEMMA LimitsStart == ASSUME Init PROVE LimitInv
<1>1. NoBucket \in Bucket
    BY DEF NoBucket, Bucket
<1>2. LimitsTypeOK
    BY <1>1 DEF Init, LimitsTypeOK
<1>3. \A K \in SUBSET ActionKeys : Admissions(K) = {}
    BY DEF Init, Admissions
<1>4. now \in Nat
    BY DEF Init
<1>5. ActionsInv
    <2>1. \A k \in ActionKeys : Admissions({k}) = {} /\ actionBuckets[k] = NoBucket
        BY <1>3 DEF Init
    <2> QED BY <2>1, <1>4, BucketEmpty, RateAssumption DEF ActionsInv
<1>6. SessionsInv
    <2>1. \A ip \in IPs : Admissions({ip} \X Creating) = {} /\ sessionCreationByIP[ip] = NoBucket
        BY <1>3, CreatingKeys DEF Init
    <2> QED BY <2>1, <1>4, BucketEmpty, RateAssumption DEF SessionsInv
<1> QED BY <1>2, <1>5, <1>6 DEF LimitInv

LEMMA ChargedType ==
    ASSUME now \in Nat, NEW b \in Bucket, NEW max \in Nat, NEW window \in Nat
    PROVE  Charged(b, max, window) \in Bucket
BY DEF Charged, Bucket

LEMMA RequestKeeps ==
    ASSUME LimitInv, NEW ip \in IPs, NEW kind \in Metered, Request(ip, kind)
    PROVE  LimitInv'
<1> DEFINE key == <<ip, kind>>
           x == <<key, Len(admitted[key]) + 1, now>>
           through == AllowAction(ip, kind) /\ (kind \in Creating => CanCreateSessionFromIP(ip))
<1> USE RateAssumption
<1>1. LimitsTypeOK /\ ActionsInv /\ SessionsInv /\ key \in ActionKeys /\ now' = now /\ x[3] = now
    BY DEF LimitInv, Request, ActionKeys
<1>2. now \in Nat /\ (\A k \in ActionKeys : actionBuckets[k] \in Bucket)
      /\ (\A a \in IPs : sessionCreationByIP[a] \in Bucket)
    BY <1>1 DEF LimitsTypeOK
<1>3. actionBuckets' = [actionBuckets EXCEPT ![key] =
          Charged(@, RATE_LIMIT_MAX_ACTIONS, RATE_LIMIT_WINDOW)]
    BY DEF Request
<1>4. /\ through => admitted' = [admitted EXCEPT ![key] = Append(@, now)]
      /\ ~through => admitted' = admitted
    BY DEF Request
<1>5. ASSUME NEW K \in SUBSET ActionKeys
      PROVE  /\ key \in K /\ through => Admissions(K)' = Admissions(K) \cup {x}
             /\ key \notin K \/ ~through => Admissions(K)' = Admissions(K)
    <2>1. CASE through
        BY <2>1, <1>1, <1>4, AdmissionsGrow
    <2>2. CASE ~through
        BY <2>2, <1>4 DEF Admissions
    <2> QED BY <2>1, <2>2
<1>6. LimitsTypeOK'
    <2>1. actionBuckets' \in [ActionKeys -> Bucket]
        <3>1. Charged(actionBuckets[key], RATE_LIMIT_MAX_ACTIONS, RATE_LIMIT_WINDOW) \in Bucket
            BY <1>1, <1>2, ChargedType
        <3> QED BY <1>1, <1>3, <3>1 DEF LimitsTypeOK
    <2>2. sessionCreationByIP' \in [IPs -> Bucket]
        <3>1. Charged(sessionCreationByIP[ip], MAX_SESSIONS_PER_IP, SESSION_CREATION_WINDOW) \in Bucket
            BY <1>1, <1>2, ChargedType
        <3> QED BY <1>1, <3>1 DEF LimitsTypeOK, Request
    <2>3. admitted' \in [ActionKeys -> Seq(Nat)]
        <3>1. admitted[key] \in Seq(Nat) /\ admitted \in [ActionKeys -> Seq(Nat)]
            BY <1>1 DEF LimitsTypeOK
        <3>2. Append(admitted[key], now) \in Seq(Nat)
            BY <3>1, <1>2
        <3> HIDE DEF through, key
        <3>3. CASE through
            BY <3>1, <3>2, <3>3, <1>4, Zenon
        <3>4. CASE ~through
            BY <3>1, <3>4, <1>4
        <3> QED BY <3>3, <3>4
    <2> QED BY <1>1, <1>2, <2>1, <2>2, <2>3 DEF LimitsTypeOK
<1>7. ASSUME NEW k \in ActionKeys
      PROVE  /\ Admission(Admissions({k})')
             /\ BucketInv(Admissions({k})', actionBuckets'[k], now,
                          RATE_LIMIT_MAX_ACTIONS, RATE_LIMIT_WINDOW)
    <2> DEFINE A == Admissions({k})
               B == Admissions({k})'
    <2>1. Admission(A) /\ BucketInv(A, actionBuckets[k], now,
                                    RATE_LIMIT_MAX_ACTIONS, RATE_LIMIT_WINDOW)
        BY <1>1 DEF ActionsInv
    <2>2. /\ k = key /\ through => B = A \cup {x}
          /\ k # key \/ ~through => B = A
        BY <1>5
    <2>3. CASE k = key
        <3>1. actionBuckets'[k] = Charged(actionBuckets[k], RATE_LIMIT_MAX_ACTIONS, RATE_LIMIT_WINDOW)
            BY <2>3, <1>1, <1>3 DEF LimitsTypeOK
        <3>2. B = A \/ (Allows(actionBuckets[k], RATE_LIMIT_MAX_ACTIONS) /\ B = A \cup {x})
            BY <2>2, <2>3 DEF AllowAction
        <3> HIDE DEF A, B, x
        <3>3. Admission(B)
            BY <2>1, <3>2, <1>1, <1>2, OneMoreAdmission
        <3>4. BucketInv(B, actionBuckets'[k], now, RATE_LIMIT_MAX_ACTIONS, RATE_LIMIT_WINDOW)
            BY <2>1, <3>1, <3>2, <1>1, <1>2, BucketCharged
        <3> QED BY <3>3, <3>4 DEF B
    <2>4. CASE k # key
        <3>1. actionBuckets'[k] = actionBuckets[k] /\ B = A
            BY <2>2, <2>4, <1>1, <1>3 DEF LimitsTypeOK
        <3> QED BY <2>1, <3>1
    <2> QED BY <2>3, <2>4
<1>8. ASSUME NEW a \in IPs
      PROVE  /\ Admission(Admissions({a} \X Creating)')
             /\ BucketInv(Admissions({a} \X Creating)', sessionCreationByIP'[a], now,
                          MAX_SESSIONS_PER_IP, SESSION_CREATION_WINDOW)
    <2> DEFINE A == Admissions({a} \X Creating)
               B == Admissions({a} \X Creating)'
    <2>1. Admission(A) /\ BucketInv(A, sessionCreationByIP[a], now,
                                    MAX_SESSIONS_PER_IP, SESSION_CREATION_WINDOW)
        BY <1>1 DEF SessionsInv
    <2>2. {a} \X Creating \in SUBSET ActionKeys
        BY CreatingKeys
    <2>3. key \in {a} \X Creating <=> a = ip /\ kind \in Creating
        OBVIOUS
    <2>4. /\ a = ip /\ kind \in Creating /\ through => B = A \cup {x}
          /\ ~(a = ip /\ kind \in Creating /\ through) => B = A
        BY <1>5, <2>2, <2>3
    <2>5. CASE a = ip /\ kind \in Creating /\ AllowAction(ip, kind)
        <3>1. sessionCreationByIP'[a] =
                  Charged(sessionCreationByIP[a], MAX_SESSIONS_PER_IP, SESSION_CREATION_WINDOW)
            BY <2>5, <1>1 DEF LimitsTypeOK, Request
        <3>2. B = A \/ (Allows(sessionCreationByIP[a], MAX_SESSIONS_PER_IP) /\ B = A \cup {x})
            BY <2>4, <2>5 DEF CanCreateSessionFromIP
        <3> HIDE DEF A, B, x
        <3>3. Admission(B)
            BY <2>1, <3>2, <1>1, <1>2, OneMoreAdmission
        <3>4. BucketInv(B, sessionCreationByIP'[a], now, MAX_SESSIONS_PER_IP, SESSION_CREATION_WINDOW)
            BY <2>1, <3>1, <3>2, <1>1, <1>2, BucketCharged
        <3> QED BY <3>3, <3>4 DEF B
    <2>6. CASE ~(a = ip /\ kind \in Creating /\ AllowAction(ip, kind))
        <3>1. sessionCreationByIP'[a] = sessionCreationByIP[a]
            BY <2>6, <1>1 DEF LimitsTypeOK, Request
        <3>2. B = A
            BY <2>4, <2>6
        <3> QED BY <2>1, <3>1, <3>2
    <2> QED BY <2>5, <2>6
<1>9. ActionsInv' /\ SessionsInv'
    BY <1>1, <1>7, <1>8 DEF ActionsInv, SessionsInv
<1> QED BY <1>6, <1>9 DEF LimitInv

LEMMA SweepKeeps == ASSUME LimitInv, SweepRateLimits PROVE LimitInv'
<1> USE RateAssumption
<1>1. /\ LimitsTypeOK /\ ActionsInv /\ SessionsInv
      /\ now' = now /\ \A K : Admissions(K)' = Admissions(K)
    BY DEF LimitInv, SweepRateLimits, Admissions
<1>2. NoBucket \in Bucket /\ now \in Nat
    BY <1>1 DEF NoBucket, Bucket, LimitsTypeOK
<1>3. LimitsTypeOK'
    BY <1>1, <1>2 DEF LimitsTypeOK, SweepRateLimits
<1>4. ActionsInv'
    <2> SUFFICES ASSUME NEW k \in ActionKeys
                 PROVE  BucketInv(Admissions({k}), actionBuckets'[k], now,
                                  RATE_LIMIT_MAX_ACTIONS, RATE_LIMIT_WINDOW)
        BY <1>1 DEF ActionsInv
    <2>1. BucketInv(Admissions({k}), actionBuckets[k], now,
                    RATE_LIMIT_MAX_ACTIONS, RATE_LIMIT_WINDOW)
        BY <1>1 DEF ActionsInv
    <2>2. actionBuckets'[k] = IF now >= actionBuckets[k].resetAt THEN NoBucket
                              ELSE actionBuckets[k]
        BY DEF SweepRateLimits, RanOut
    <2> QED BY <2>1, <2>2, <1>2, BucketSwept
<1>5. SessionsInv'
    <2> SUFFICES ASSUME NEW a \in IPs
                 PROVE  BucketInv(Admissions({a} \X Creating), sessionCreationByIP'[a], now,
                                  MAX_SESSIONS_PER_IP, SESSION_CREATION_WINDOW)
        BY <1>1 DEF SessionsInv
    <2>1. BucketInv(Admissions({a} \X Creating), sessionCreationByIP[a], now,
                    MAX_SESSIONS_PER_IP, SESSION_CREATION_WINDOW)
        BY <1>1 DEF SessionsInv
    <2>2. sessionCreationByIP'[a] = IF now >= sessionCreationByIP[a].resetAt THEN NoBucket
                                    ELSE sessionCreationByIP[a]
        BY DEF SweepRateLimits, RanOut
    <2> QED BY <2>1, <2>2, <1>2, BucketSwept
<1> QED BY <1>3, <1>4, <1>5 DEF LimitInv

LEMMA TickKeeps == ASSUME LimitInv, Tick PROVE LimitInv'
<1> USE RateAssumption
<1>1. /\ LimitsTypeOK /\ ActionsInv /\ SessionsInv /\ now' = now + 1
      /\ UNCHANGED <<actionBuckets, sessionCreationByIP, admitted>>
      /\ \A K : Admissions(K)' = Admissions(K)
    BY DEF LimitInv, Tick, Admissions
<1>2. LimitsTypeOK' /\ now \in Nat
    BY <1>1 DEF LimitsTypeOK
<1>3. ActionsInv'
    <2> SUFFICES ASSUME NEW k \in ActionKeys
                 PROVE  BucketInv(Admissions({k}), actionBuckets[k], now + 1,
                                  RATE_LIMIT_MAX_ACTIONS, RATE_LIMIT_WINDOW)
        BY <1>1 DEF ActionsInv
    <2>1. /\ Admission(Admissions({k})) /\ actionBuckets[k] \in Bucket
          /\ BucketInv(Admissions({k}), actionBuckets[k], now,
                       RATE_LIMIT_MAX_ACTIONS, RATE_LIMIT_WINDOW)
        BY <1>1 DEF ActionsInv, LimitsTypeOK
    <2> QED BY <2>1, <1>2, BucketTick
<1>4. SessionsInv'
    <2> SUFFICES ASSUME NEW a \in IPs
                 PROVE  BucketInv(Admissions({a} \X Creating), sessionCreationByIP[a], now + 1,
                                  MAX_SESSIONS_PER_IP, SESSION_CREATION_WINDOW)
        BY <1>1 DEF SessionsInv
    <2>1. /\ Admission(Admissions({a} \X Creating)) /\ sessionCreationByIP[a] \in Bucket
          /\ BucketInv(Admissions({a} \X Creating), sessionCreationByIP[a], now,
                       MAX_SESSIONS_PER_IP, SESSION_CREATION_WINDOW)
        BY <1>1 DEF SessionsInv, LimitsTypeOK
    <2> QED BY <2>1, <1>2, BucketTick
<1> QED BY <1>2, <1>3, <1>4 DEF LimitInv

(* The buckets and the history stay in step, whatever the clients send and *)
(* whenever the sweeper runs.                                              *)
THEOREM BucketsCorrect == Spec => []LimitInv
<1>1. LimitInv /\ [Next]_vars => LimitInv'
    <2> SUFFICES ASSUME LimitInv, [Next]_vars PROVE LimitInv'
        OBVIOUS
    <2>1. CASE UNCHANGED vars
        <3>1. /\ now' = now /\ actionBuckets' = actionBuckets
              /\ sessionCreationByIP' = sessionCreationByIP /\ admitted' = admitted
            BY <2>1 DEF vars
        <3>2. \A K : Admissions(K)' = Admissions(K)
            BY <3>1 DEF Admissions
        <3>3. LimitsTypeOK'
            BY <3>1 DEF LimitInv, LimitsTypeOK
        <3>4. ActionsInv'
            BY <3>1, <3>2 DEF LimitInv, ActionsInv
        <3>5. SessionsInv'
            BY <3>1, <3>2 DEF LimitInv, SessionsInv
        <3> QED BY <3>3, <3>4, <3>5 DEF LimitInv
    <2>2. ASSUME NEW ip \in IPs, NEW kind \in Metered, Request(ip, kind)
          PROVE  LimitInv'
        BY <2>2, RequestKeeps
    <2>3. CASE SweepRateLimits
        BY <2>3, SweepKeeps
    <2>4. CASE Tick
        BY <2>4, TickKeeps
    <2> QED BY <2>1, <2>2, <2>3, <2>4 DEF Next
<1> QED BY <1>1, LimitsStart, PTL DEF Spec

(* Whichever window of RATE_LIMIT_WINDOW one looks at, less than twice the *)
(* limit of one request kind got through from one address (allowAction).   *)
THEOREM ActionsAreLimited == Spec => []AtMostTwiceTheLimit
<1>1. LimitInv => AtMostTwiceTheLimit
    BY DEF LimitInv, ActionsInv, BucketInv, Between, AtMostTwiceTheLimit, Through
<1> QED BY <1>1, BucketsCorrect, PTL

(* The same for the sessions an address starts, over all the kinds that    *)
(* draw on canCreateSessionFromIP.                                         *)
THEOREM SessionsAreLimited == Spec => []SessionsPerAddress
<1>1. LimitInv => SessionsPerAddress
    BY DEF LimitInv, SessionsInv, BucketInv, Between, SessionsPerAddress, Through
<1> QED BY <1>1, BucketsCorrect, PTL

(* sweepRateLimits decides nothing: the buckets it deletes would have let  *)
(* the next request through anyway.                                        *)
THEOREM SweepDecidesNothing == Spec => SweepIsInvisible
<1>1. LimitInv /\ SweepRateLimits =>
          /\ \A ip \in IPs, kind \in Metered : AllowAction(ip, kind)' = AllowAction(ip, kind)
          /\ \A ip \in IPs : CanCreateSessionFromIP(ip)' = CanCreateSessionFromIP(ip)
    <2> SUFFICES ASSUME LimitInv, SweepRateLimits
                 PROVE  /\ \A ip \in IPs, kind \in Metered :
                               AllowAction(ip, kind)' = AllowAction(ip, kind)
                        /\ \A ip \in IPs :
                               CanCreateSessionFromIP(ip)' = CanCreateSessionFromIP(ip)
        OBVIOUS
    <2>1. now \in Nat /\ now' = now
        BY DEF LimitInv, LimitsTypeOK, SweepRateLimits
    <2>2. Allows(NoBucket, RATE_LIMIT_MAX_ACTIONS)' /\ Allows(NoBucket, MAX_SESSIONS_PER_IP)'
        BY <2>1 DEF Allows, RanOut, NoBucket
    <2>3. ASSUME NEW ip \in IPs, NEW kind \in Metered
          PROVE  AllowAction(ip, kind)' = AllowAction(ip, kind)
        <3> DEFINE k == <<ip, kind>>
        <3>1. actionBuckets'[k] = IF RanOut(actionBuckets[k]) THEN NoBucket ELSE actionBuckets[k]
            BY DEF SweepRateLimits, ActionKeys
        <3>2. CASE RanOut(actionBuckets[k])
            BY <3>1, <3>2, <2>2 DEF AllowAction, Allows, RanOut
        <3>3. CASE ~RanOut(actionBuckets[k])
            BY <3>1, <3>3, <2>1 DEF AllowAction, Allows, RanOut
        <3> QED BY <3>2, <3>3
    <2>4. ASSUME NEW ip \in IPs
          PROVE  CanCreateSessionFromIP(ip)' = CanCreateSessionFromIP(ip)
        <3>1. sessionCreationByIP'[ip] =
                  IF RanOut(sessionCreationByIP[ip]) THEN NoBucket ELSE sessionCreationByIP[ip]
            BY DEF SweepRateLimits
        <3>2. CASE RanOut(sessionCreationByIP[ip])
            BY <3>1, <3>2, <2>2 DEF CanCreateSessionFromIP, Allows, RanOut
        <3>3. CASE ~RanOut(sessionCreationByIP[ip])
            BY <3>1, <3>3, <2>1 DEF CanCreateSessionFromIP, Allows, RanOut
        <3> QED BY <3>2, <3>3
    <2> QED BY <2>3, <2>4
<1> QED BY <1>1, BucketsCorrect, PTL DEF SweepIsInvisible

----------------------------------------------------------------------------
(* Links.  A word alone in a path is what most readers meet.               *)

LEMMA NormalizedWord ==
    ASSUME NEW w \in Words
    PROVE  /\ NormalizeHandle(w) \in Words
           /\ NormalizeHandle(NormalizeHandle(w)) = NormalizeHandle(w)
           /\ IsHandleSlug(NormalizeHandle(w)) = IsHandleSlug(w)
           /\ IsReservedPath(NormalizeHandle(w)) = IsReservedPath(w)
           /\ IsSessionId(NormalizeHandle(w)) = IsSessionId(w)
           /\ IsHandleSlug(w) => NormalizeHandle(w) # NoWord
BY DEF Words, NormalizeHandle, IsHandleSlug, HandlePattern, IsReservedPath, IsSessionId,
       NoWord, Word

LEMMA Places ==
    /\ \A w : Chat(w) # Nowhere /\ Name(w) # Nowhere
    /\ ~IsSessionId(NoWord) /\ IfId(NoWord) = NoWord /\ IfId(IfId(NoWord)) = NoWord
    /\ \A w : FirstOf(NoWord, w) = w
BY DEF Chat, Name, Nowhere, IsSessionId, NoWord, Word, IfId, FirstOf

LEMMA LinkIs ==
    ASSUME NEW scheme, NEW host, NEW path
    PROVE  /\ Link(scheme, host, path).scheme = scheme
           /\ Link(scheme, host, path).host = host
           /\ Link(scheme, host, path).path = path
BY DEF Link

LEMMA AloneIs ==
    ASSUME NEW w
    PROVE  Len(<<w>>) = 1 /\ <<w>>[1] = w /\ AfterChat(<<w>>) = NoWord /\ <<w>> # <<>>
BY DEF AfterChat

\* What each extractor makes of it.
LEMMA AloneIsRead ==
    ASSUME NEW w \in Words, NEW scheme \in {"https", "word", "path"}, NEW host
    PROVE  LET link == Link(scheme, host, <<w>>) IN
           /\ ExtractHandle(link) = IF scheme # "path" /\ IsHandleSlug(w)
                                    THEN NormalizeHandle(w) ELSE NoWord
           /\ ExtractSessionId(link) = IF scheme = "word" THEN IfId(w) ELSE NoWord
           /\ ExtractSessionIdWeb(link) = IF scheme = "word" THEN w ELSE NoWord
           /\ Route(<<w>>) = IF IsHandleSlug(w) THEN Name(NormalizeHandle(w)) ELSE Nowhere
<1> DEFINE link == Link(scheme, host, <<w>>)
<1>1. link.scheme = scheme /\ link.host = host /\ link.path = <<w>>
    BY LinkIs
<1> HIDE DEF link
<1>2. Len(<<w>>) = 1 /\ <<w>>[1] = w /\ AfterChat(<<w>>) = NoWord
    BY AloneIs
<1>3. ExtractHandle(link) = IF scheme # "path" /\ IsHandleSlug(w)
                            THEN NormalizeHandle(w) ELSE NoWord
    BY <1>1, <1>2 DEF ExtractHandle
<1>4. ExtractSessionId(link) = IF scheme = "word" THEN IfId(w) ELSE NoWord
    BY <1>1, <1>2, Places DEF ExtractSessionId, SessionIdFromUrl
<1>5. ~(NoWord.hex > 0)
    BY DEF NoWord, Word
<1>6. ExtractSessionIdWeb(link) = IF scheme = "word" THEN w ELSE NoWord
    BY <1>1, <1>2, <1>5 DEF ExtractSessionIdWeb
<1>7. Route(<<w>>) = IF IsHandleSlug(w) THEN Name(NormalizeHandle(w)) ELSE Nowhere
    BY <1>2 DEF Route
<1> QED BY <1>3, <1>4, <1>6, <1>7 DEF link

\* Alone in a path, or pasted alone, a name leads to its owner everywhere.
LEMMA NameLeads ==
    ASSUME NEW w \in Words, IsHandleSlug(w), NEW reader \in Readers,
           NEW link \in {Link("https", ORIGIN, <<w>>), Bare(w), Path(<<w>>)},
           MayRead(reader, link)
    PROVE  Leads(reader, link) = Name(NormalizeHandle(w))
<1>1. NormalizeHandle(w) # NoWord
    BY NormalizedWord
<1>2. PICK scheme \in {"https", "word", "path"}, host \in {ORIGIN, NoWord} :
        link = Link(scheme, host, <<w>>)
    BY DEF Bare, Path
<1>3. link.scheme = scheme /\ link.path = <<w>> /\ AfterChat(link.path) = NoWord
    BY <1>2, LinkIs, AloneIs
<1>4. /\ ExtractHandle(link) = IF scheme # "path" THEN NormalizeHandle(w) ELSE NoWord
      /\ ExtractSessionId(link) = IF scheme = "word" THEN IfId(w) ELSE NoWord
      /\ ExtractSessionIdWeb(link) = IF scheme = "word" THEN w ELSE NoWord
      /\ Route(link.path) = Name(NormalizeHandle(w))
    BY <1>2, <1>3, AloneIsRead
<1>5. reader = "browser" => Leads(reader, link) = Name(NormalizeHandle(w))
    BY <1>4 DEF Leads
<1>6. reader = "join form" => Leads(reader, link) = Name(NormalizeHandle(w))
    BY <1>1, <1>3, <1>4 DEF Leads, MayRead, HandleSubmit
<1>7. reader = "join screen" => Leads(reader, link) = Name(NormalizeHandle(w))
    <2> SUFFICES ASSUME reader = "join screen" PROVE HandleJoin(HandleTextChange(link))
                                                     = Name(NormalizeHandle(w))
        BY DEF Leads
    <2>1. scheme \in {"https", "word"}
        BY <1>3 DEF MayRead
    <2>2. HandleTextChange(link) = link \/ HandleTextChange(link) = Bare(w)
        BY <1>4 DEF HandleTextChange, IfId
    <2>3. ExtractHandle(link) = NormalizeHandle(w)
        BY <2>1, <1>4
    <2>4. ExtractHandle(Link("word", NoWord, <<w>>)) = NormalizeHandle(w)
        <3>1. "word" \in {"https", "word", "path"} /\ "word" # "path"
            OBVIOUS
        <3> QED BY <3>1, AloneIsRead
    <2>5. ExtractHandle(HandleTextChange(link)) = NormalizeHandle(w)
        BY <2>2, <2>3, <2>4 DEF Bare
    <2> QED BY <2>5, <1>1 DEF HandleJoin
<1>8. reader = "deep link" => Leads(reader, link) = Name(NormalizeHandle(w))
    BY <1>1, <1>3, <1>4, Places DEF Leads, MayRead, ParseDeepLink
<1>9. reader = "system path" => Leads(reader, link) = Name(NormalizeHandle(w))
    BY <1>1, <1>3, <1>4, Places DEF Leads, MayRead, RedirectSystemPath, ParseDeepLink
<1> QED BY <1>5, <1>6, <1>7, <1>8, <1>9 DEF Readers

\* What is neither a name nor an id leads nowhere.
LEMMA PageLeads ==
    ASSUME NEW w \in Words, ~IsHandleSlug(w), ~IsSessionId(w), NEW reader \in Readers,
           NEW link \in {Link("https", ORIGIN, <<w>>), Bare(w), Path(<<w>>)},
           MayRead(reader, link)
    PROVE  Leads(reader, link) = Nowhere
<1>2. PICK scheme \in {"https", "word", "path"}, host \in {ORIGIN, NoWord} :
        link = Link(scheme, host, <<w>>)
    BY DEF Bare, Path
<1>3. link.scheme = scheme /\ link.path = <<w>>
    BY <1>2, LinkIs
<1>4. /\ ExtractHandle(link) = NoWord
      /\ ExtractSessionId(link) = NoWord
      /\ ExtractSessionIdWeb(link) \in {NoWord, w}
      /\ Route(link.path) = Nowhere
    BY <1>2, <1>3, AloneIsRead DEF IfId
<1>5. HandleSubmit(link) = Nowhere /\ ParseDeepLink(link) = Nowhere
      /\ HandleTextChange(link) = link /\ HandleJoin(link) = Nowhere
    BY <1>4, Places DEF HandleSubmit, ParseDeepLink, HandleTextChange, HandleJoin
<1> QED BY <1>4, <1>5 DEF Leads, Readers, RedirectSystemPath

\* An id is an id and no name; the readers that cut a text short leave it whole.
LEMMA IdIs ==
    ASSUME NEW id \in {Generated(TRUE), Generated(FALSE)}
    PROVE  /\ id \in Words /\ IsSessionId(id) /\ IsValidSessionId(id) /\ ~IsHandleSlug(id)
           /\ IfId(id) = id /\ id # NoWord /\ id.hex = 32
           /\ Digits(id, 64) = id /\ Digits(id, id.hex) = id
<1>1. id \in Words /\ id.len = 32 /\ id.hex = 32
    <2>1. PICK letter \in BOOLEAN : id = Word(32, 32, TRUE, letter, FALSE, FALSE)
        BY DEF Generated
    <2> QED BY <2>1 DEF Word, Words
<1>2. IsSessionId(id) /\ IsValidSessionId(id) /\ ~IsHandleSlug(id)
    BY <1>1 DEF IsSessionId, IsValidSessionId, IsHandleSlug, HandlePattern
<1>3. IfId(id) = id /\ id # NoWord
    BY <1>1, <1>2 DEF IfId, NoWord, Word
<1>4. Digits(id, 64) = id /\ Digits(id, 32) = id
    BY <1>1 DEF Digits
<1> QED BY <1>1, <1>2, <1>3, <1>4

LEMMA BehindChat ==
    ASSUME NEW w
    PROVE  /\ Len(<<CHAT, w>>) = 2 /\ <<CHAT, w>>[1] = CHAT /\ <<CHAT, w>>[2] = w
           /\ AfterChat(<<CHAT, w>>) = w /\ First(<<w>>) = w
BY DEF AfterChat, First

\* A link of a chat: the id follows "chat" or stands alone.
LEMMA ChatIsRead ==
    ASSUME NEW id \in {Generated(TRUE), Generated(FALSE)}, NEW link \in ChatLinks(id)
    PROVE  /\ link.scheme \in {"https", "app", "word", "path"}
           /\ ExtractHandle(link) = NoWord
           /\ ExtractSessionId(link) = id
           /\ ExtractSessionIdWeb(link) = id
           /\ link.scheme \in {"https", "path"} => Route(link.path) = Chat(id)
<1>1. /\ IfId(id) = id /\ id # NoWord /\ id.hex = 32 /\ Digits(id, 64) = id
      /\ Digits(id, id.hex) = id /\ ~IsHandleSlug(id)
    BY IdIs
<1>2. FirstOf(id, NoWord) = id /\ FirstOf(NoWord, id) = id /\ \A w : FirstOf(id, w) = id
    BY <1>1 DEF FirstOf
<1>3. CASE link = PublicChatUrl(id)
    <2>1. link.scheme = "https" /\ link.host = ORIGIN /\ link.path = <<CHAT, id>>
        BY <1>3, LinkIs DEF PublicChatUrl
    <2>2. Len(link.path) = 2 /\ AfterChat(link.path) = id
        BY <2>1, BehindChat
    <2> QED BY <1>1, <1>2, <2>1, <2>2
            DEF ExtractHandle, ExtractSessionId, SessionIdFromUrl, ExtractSessionIdWeb, Route
<1>4. CASE link = CustomSchemeUrl(id)
    <2>1. link.scheme = "app" /\ link.host = CHAT /\ link.path = <<id>>
        BY <1>4, LinkIs DEF CustomSchemeUrl
    <2>2. AfterChat(link.path) = NoWord /\ First(link.path) = id /\ IfId(NoWord) = NoWord
        BY <2>1, BehindChat, AloneIs, Places
    <2>3. ExtractHandle(link) = NoWord
        BY <2>1 DEF ExtractHandle
    <2>4. SessionIdFromUrl(link) = id
        BY <1>1, <1>2, <2>1, <2>2 DEF SessionIdFromUrl
    <2> QED BY <1>1, <2>1, <2>2, <2>3, <2>4 DEF ExtractSessionId, ExtractSessionIdWeb
<1>5. CASE link = Bare(id)
    <2>1. link.scheme = "word" /\ link = Link("word", NoWord, <<id>>)
        BY <1>5, LinkIs DEF Bare
    <2> QED BY <1>1, <2>1, AloneIsRead, IdIs
<1>6. CASE link = Path(<<CHAT, id>>)
    <2>1. link.scheme = "path" /\ link.path = <<CHAT, id>>
        BY <1>6, LinkIs DEF Path
    <2>2. Len(link.path) = 2 /\ AfterChat(link.path) = id
        BY <2>1, BehindChat
    <2> QED BY <1>1, <2>1, <2>2
            DEF ExtractHandle, ExtractSessionId, ExtractSessionIdWeb, Route
<1> QED BY <1>3, <1>4, <1>5, <1>6 DEF ChatLinks

LEMMA ChatLeads ==
    ASSUME NEW id \in {Generated(TRUE), Generated(FALSE)}, NEW link \in ChatLinks(id),
           NEW reader \in Readers, MayRead(reader, link)
    PROVE  Leads(reader, link) = Chat(id)
<1>1. id # NoWord /\ IsSessionId(id)
    BY IdIs
<1>2. /\ ExtractHandle(link) = NoWord /\ ExtractSessionId(link) = id
      /\ ExtractSessionIdWeb(link) = id
      /\ link.scheme \in {"https", "path"} => Route(link.path) = Chat(id)
    BY ChatIsRead
<1>3. HandleSubmit(link) = Chat(id) /\ ParseDeepLink(link) = Chat(id)
    BY <1>1, <1>2 DEF HandleSubmit, ParseDeepLink
<1>4. HandleTextChange(link) = Bare(id) /\ Bare(id) \in ChatLinks(id)
    BY <1>1, <1>2 DEF HandleTextChange, ChatLinks
<1>5. ExtractHandle(Bare(id)) = NoWord /\ ExtractSessionId(Bare(id)) = id
    BY <1>4, ChatIsRead
<1>6. HandleJoin(Bare(id)) = Chat(id)
    BY <1>1, <1>5 DEF HandleJoin
<1> QED BY <1>2, <1>3, <1>4, <1>6, Places DEF Leads, Readers, MayRead, RedirectSystemPath

\* Every link the apps show leads home at every reader that it reaches.
LEMMA VisitsLeadHome ==
    ASSUME NEW visit \in ChatVisits \cup NameVisits \cup PageVisits
    PROVE  visit.place = visit.home
<1>1. ASSUME NEW home, NEW links, visit \in Visit(home, links),
             \A reader \in Readers, link \in links :
                 MayRead(reader, link) => Leads(reader, link) = home
      PROVE  visit.place = home /\ visit.home = home
    BY <1>1 DEF Visit
<1>2. CASE visit \in ChatVisits
    <2>1. PICK id \in Ids : visit \in Visit(Chat(id), ChatLinks(id))
        BY <1>2 DEF ChatVisits
    <2> QED BY <1>1, <2>1, ChatLeads, RequestAssumption
<1>3. CASE visit \in NameVisits
    <2>1. PICK name \in Names : visit \in Visit(Name(NormalizeHandle(name)), NameLinks(name))
        BY <1>3 DEF NameVisits
    <2>2. name \in Words /\ IsHandleSlug(name)
        BY <2>1, RequestAssumption
    <2> DEFINE slug == NormalizeHandle(name)
    <2>3. slug \in Words /\ IsHandleSlug(slug) /\ NormalizeHandle(slug) = slug
        BY <2>2, NormalizedWord
    <2>4. PublicHandleUrl(name) = Link("https", ORIGIN, <<slug>>)
        BY DEF PublicHandleUrl
    <2> HIDE DEF slug
    <2>5. ASSUME NEW reader \in Readers, NEW link \in NameLinks(name), MayRead(reader, link)
          PROVE  Leads(reader, link) = Name(slug)
        <3>1. CASE link = Link("https", ORIGIN, <<slug>>)
            BY <2>3, <2>5, <3>1, NameLeads
        <3>2. CASE link \in {Bare(name), Path(<<name>>)}
            BY <2>2, <2>5, <3>2, NameLeads DEF slug
        <3> QED BY <2>4, <2>5, <3>1, <3>2 DEF NameLinks
    <2> QED BY <1>1, <2>1, <2>5 DEF slug
<1>4. CASE visit \in PageVisits
    <2>1. PICK page \in Pages : visit \in Visit(Nowhere, PageLinks(page))
        BY <1>4 DEF PageVisits
    <2>2. page \in Words /\ ~IsHandleSlug(page) /\ ~IsSessionId(page)
        BY <2>1, RequestAssumption DEF IsHandleSlug
    <2> DEFINE slug == NormalizeHandle(page)
    <2>3. slug \in Words /\ ~IsHandleSlug(slug) /\ ~IsSessionId(slug)
        BY <2>2, NormalizedWord
    <2>4. PublicHandleUrl(page) = Link("https", ORIGIN, <<slug>>)
        BY DEF PublicHandleUrl
    <2> HIDE DEF slug
    <2>5. ASSUME NEW reader \in Readers, NEW link \in PageLinks(page), MayRead(reader, link)
          PROVE  Leads(reader, link) = Nowhere
        <3>1. CASE link = Link("https", ORIGIN, <<slug>>)
            BY <2>3, <2>5, <3>1, PageLeads
        <3>2. CASE link \in {Bare(page), Path(<<page>>)}
            BY <2>2, <2>5, <3>2, PageLeads
        <3> QED BY <2>4, <2>5, <3>1, <3>2 DEF PageLinks
    <2> QED BY <1>1, <2>1, <2>5
<1> QED BY <1>2, <1>3, <1>4

\* Where they lead, there is something to join, something to ring, or nothing.
LEMMA VisitsAreOf ==
    ASSUME NEW visit \in ChatVisits \cup NameVisits \cup PageVisits
    PROVE  /\ visit.place.at = "chat" => visit.place.word \in {Generated(TRUE), Generated(FALSE)}
           /\ visit.place.at = "name" => visit.place.word \in Words /\ IsHandleSlug(visit.place.word)
<1>1. \A w : /\ Chat(w).at = "chat" /\ Chat(w).word = w
             /\ Name(w).at = "name" /\ Name(w).word = w
             /\ Nowhere.at = "nowhere"
    BY DEF Chat, Name, Nowhere
<1>2. \A home, links : visit \in Visit(home, links) => visit.home = home
    BY DEF Visit
<1>3. visit.place = visit.home
    BY VisitsLeadHome
<1>4. \A id \in Ids : id \in {Generated(TRUE), Generated(FALSE)}
    BY RequestAssumption
<1>5. \A name \in Names : NormalizeHandle(name) \in Words /\ IsHandleSlug(NormalizeHandle(name))
    BY NormalizedWord, RequestAssumption
<1>6. visit \in ChatVisits => \E id \in Ids : visit.place = Chat(id)
    BY <1>2, <1>3 DEF ChatVisits
<1>7. visit \in NameVisits => \E name \in Names : visit.place = Name(NormalizeHandle(name))
    BY <1>2, <1>3 DEF NameVisits
<1>8. visit \in PageVisits => visit.place = Nowhere
    BY <1>2, <1>3 DEF PageVisits
<1>9. CASE visit \in ChatVisits
    <2>1. PICK id \in Ids : visit.place = Chat(id)
        BY <1>6, <1>9
    <2>2. visit.place.at = "chat" /\ visit.place.word = id
        BY <1>1, <2>1
    <2> QED BY <1>4, <2>1, <2>2
<1>10. CASE visit \in NameVisits
    <2>1. PICK name \in Names : visit.place = Name(NormalizeHandle(name))
        BY <1>7, <1>10
    <2>2. visit.place.at = "name" /\ visit.place.word = NormalizeHandle(name)
        BY <1>1, <2>1
    <2> QED BY <1>5, <2>1, <2>2
<1>11. CASE visit \in PageVisits
    <2>1. visit.place.at = "nowhere"
        BY <1>1, <1>8, <1>11
    <2> QED BY <2>1
<1> QED BY <1>9, <1>10, <1>11

----------------------------------------------------------------------------
(* What the apps send is read as it was sent.                              *)

Understood(frame) == ParseClientMessage(frame) = Read(frame)

\* How the limits are related.
LEMMA LimitsAre ==
    /\ MAX_CHAT_TEXT_CHARS \in Nat /\ MAX_ENCRYPTED_PAYLOAD_CHARS \in Nat
    /\ MAX_WS_MESSAGE_BYTES \in Nat /\ MAX_MESSAGE_ID_LENGTH \in Nat
    /\ 3 * MAX_CHAT_TEXT_CHARS <= 12000 /\ 24000 <= MAX_ENCRYPTED_PAYLOAD_CHARS
    /\ MAX_ENCRYPTED_PAYLOAD_CHARS + 200 <= MAX_WS_MESSAGE_BYTES
    /\ 36 <= MAX_MESSAGE_ID_LENGTH
BY SMT DEF MAX_CHAT_TEXT_CHARS, MAX_ENCRYPTED_PAYLOAD_CHARS, MAX_WS_MESSAGE_BYTES,
           MAX_MESSAGE_ID_LENGTH

\* A frame that is JSON and not too long is judged by its payload.
LEMMA ParsedBy ==
    ASSUME NEW frame, frame.length \in Nat, frame.length <= MAX_WS_MESSAGE_BYTES, frame.json = TRUE,
           frame.type # NoType
    PROVE  ParseClientMessage(frame) = ParsePayload(frame)
<1>1. ~(frame.length > MAX_WS_MESSAGE_BYTES)
    BY LimitsAre
<1> QED BY <1>1 DEF ParseClientMessage

Typed == {"CREATE_SESSION", "JOIN_SESSION", "LEAVE_SESSION", "RING_HANDLE", "CLAIM_HANDLE",
          "SEND_MESSAGE", "UNCLAIM_HANDLE", "PING"}

LEMMA PayloadIsRead ==
    ASSUME NEW f, f.type \in Typed, f.payload = "object",
           f.type \in {"CREATE_SESSION", "JOIN_SESSION"} => IsValidSessionId(f.sessionId),
           f.type \in {"RING_HANDLE", "CLAIM_HANDLE"} => IsHandleSlug(f.handle),
           f.type = "CLAIM_HANDLE" => f.proof.given = FALSE,
           f.type = "SEND_MESSAGE" => IsValidEncryptedMessage(f.message)
    PROVE  ParsePayload(f) = Read(f)
<1>1. CASE f.type = "CREATE_SESSION"
    BY <1>1 DEF ParsePayload, ReadIf
<1>2. CASE f.type = "JOIN_SESSION"
    BY <1>2 DEF ParsePayload, ReadIf, IsRecord
<1>3. CASE f.type = "LEAVE_SESSION"
    BY <1>3 DEF ParsePayload, ReadIf
<1>4. CASE f.type = "RING_HANDLE"
    BY <1>4 DEF ParsePayload, ReadIf, IsRecord
<1>5. CASE f.type = "CLAIM_HANDLE"
    BY <1>5 DEF ParsePayload, ReadIf, IsRecord
<1>6. CASE f.type = "SEND_MESSAGE"
    BY <1>6 DEF ParsePayload, ReadIf, IsRecord
<1>7. CASE f.type \in {"UNCLAIM_HANDLE", "PING"}
    BY <1>7 DEF ParsePayload
<1> QED BY <1>1, <1>2, <1>3, <1>4, <1>5, <1>6, <1>7 DEF Typed

LEMMA FrameIsRead ==
    ASSUME NEW f, f.length \in Nat, f.length <= MAX_WS_MESSAGE_BYTES, f.json = TRUE, f.type \in Typed, f.payload = "object",
           f.type \in {"CREATE_SESSION", "JOIN_SESSION"} => IsValidSessionId(f.sessionId),
           f.type \in {"RING_HANDLE", "CLAIM_HANDLE"} => IsHandleSlug(f.handle),
           f.type = "CLAIM_HANDLE" => f.proof.given = FALSE,
           f.type = "SEND_MESSAGE" => IsValidEncryptedMessage(f.message)
    PROVE  Understood(f)
<1>1. f.type # NoType
    BY DEF Typed, NoType
<1>2. ParseClientMessage(f) = ParsePayload(f)
    BY <1>1, ParsedBy
<1>3. ParsePayload(f) = Read(f)
    BY PayloadIsRead
<1> QED BY <1>2, <1>3 DEF Understood

LEMMA IdsAreUnderstood ==
    ASSUME NEW id, IsValidSessionId(id)
    PROVE  /\ Understood(CREATE_SESSION(id)) /\ Understood(JOIN_SESSION(id))
           /\ Understood(LEAVE_SESSION(id))
<1>1. ASSUME NEW f, NEW type \in {"CREATE_SESSION", "JOIN_SESSION", "LEAVE_SESSION"},
             f = [Frame(type) EXCEPT !.sessionId = id]
      PROVE  Understood(f)
    <2>1. /\ f.length = 200 /\ f.json = TRUE /\ f.type = type /\ f.payload = "object"
          /\ f.sessionId = id
        BY <1>1 DEF Frame, EmptyFrame, ENVELOPE
    <2>2. f.length \in Nat /\ f.length <= MAX_WS_MESSAGE_BYTES /\ f.type \in Typed
        BY <2>1, LimitsAre DEF Typed
    <2> QED BY <2>1, <2>2, FrameIsRead
<1> QED BY <1>1 DEF CREATE_SESSION, JOIN_SESSION, LEAVE_SESSION

LEMMA NamesAreUnderstood ==
    ASSUME NEW name, IsHandleSlug(name)
    PROVE  Understood(RING_HANDLE(name)) /\ Understood(CLAIM_HANDLE(name, NoProof))
<1>1. NoProof.given = FALSE
    BY DEF NoProof
<1>2. ASSUME NEW f, NEW type \in {"RING_HANDLE", "CLAIM_HANDLE"},
             f = [Frame(type) EXCEPT !.handle = name]
                 \/ f = [Frame(type) EXCEPT !.handle = name, !.proof = NoProof]
      PROVE  Understood(f)
    <2>1. /\ f.length = 200 /\ f.json = TRUE /\ f.type = type /\ f.payload = "object"
          /\ f.handle = name /\ f.proof = NoProof
        <3>1. CASE f = [Frame(type) EXCEPT !.handle = name]
            BY <3>1 DEF Frame, EmptyFrame, ENVELOPE
        <3>2. CASE f = [Frame(type) EXCEPT !.handle = name, !.proof = NoProof]
            BY <3>2 DEF Frame, EmptyFrame, ENVELOPE
        <3> QED BY <1>2, <3>1, <3>2
    <2>2. f.length \in Nat /\ f.length <= MAX_WS_MESSAGE_BYTES /\ f.type \in Typed
        BY <2>1, LimitsAre DEF Typed
    <2> QED BY <1>1, <2>1, <2>2, FrameIsRead
<1> QED BY <1>2 DEF RING_HANDLE, CLAIM_HANDLE

LEMMA OthersAreUnderstood == Understood(UNCLAIM_HANDLE) /\ Understood(PING)
<1>1. ASSUME NEW f, NEW type \in {"UNCLAIM_HANDLE", "PING"}, f = Frame(type)
      PROVE  Understood(f)
    <2>1. f.length = 200 /\ f.json = TRUE /\ f.type = type /\ f.payload = "object"
        BY <1>1 DEF Frame, EmptyFrame, ENVELOPE
    <2>2. f.length \in Nat /\ f.length <= MAX_WS_MESSAGE_BYTES /\ f.type \in Typed
        BY <2>1, LimitsAre DEF Typed
    <2> QED BY <2>1, <2>2, FrameIsRead
<1> QED BY <1>1 DEF UNCLAIM_HANDLE, PING

LEMMA MessagesAreUnderstood ==
    ASSUME NEW size \in 1..MAX_ENCRYPTED_PAYLOAD_CHARS
    PROVE  Understood(SEND_MESSAGE(Message(MESSAGE_ID, size)))
<1> DEFINE m == Message(MESSAGE_ID, size)
           f == SEND_MESSAGE(m)
<1>1. m.id = 36 /\ m.payload = size /\ m.timestamp = TRUE
    BY DEF Message, MESSAGE_ID
<1>2. IsValidEncryptedMessage(m)
    BY <1>1, LimitsAre DEF IsValidEncryptedMessage
<1> HIDE DEF m
<1>3. /\ f.length = 200 + size /\ f.json = TRUE /\ f.type = "SEND_MESSAGE"
      /\ f.payload = "object" /\ f.message = m
    BY <1>1 DEF SEND_MESSAGE, Frame, EmptyFrame, ENVELOPE
<1> HIDE DEF f
<1>4. f.length \in Nat /\ f.length <= MAX_WS_MESSAGE_BYTES /\ f.type \in Typed
    BY <1>3, LimitsAre DEF Typed
<1> QED BY <1>2, <1>3, <1>4, FrameIsRead DEF f, m

\* A character the composers count is at most three bytes, once control
\* characters are gone.
LEMMA TextsFit ==
    ASSUME NEW t \in Writings, Composes(t), t.controls = 0
    PROVE  ChatMessage(t).payload \in 1..MAX_ENCRYPTED_PAYLOAD_CHARS
           /\ ChatMessage(t) = Message(MESSAGE_ID, ChatMessage(t).payload)
<1>1. Bytes(t) \in Nat /\ Bytes(t) <= 12000
    <2>2. /\ t.plain \in Nat /\ t.quotes \in Nat /\ t.wide \in Nat /\ t.pairs \in Nat
          /\ t.ampersands \in Nat
        BY DEF Writings
    <2>3. t.plain + t.quotes + 0 + t.wide + 2 * t.pairs + t.ampersands <= MAX_CHAT_TEXT_CHARS
        BY <2>2, LimitsAre DEF Composes, Length
    <2>4. Bytes(t) = t.plain + 2 * t.quotes + 6 * 0 + 3 * t.wide + 4 * t.pairs + t.ampersands
        BY DEF Bytes
    <2> QED BY <2>2, <2>3, <2>4, LimitsAre
<1>2. ChatMessage(t).payload = 4 * ((28 + (25 + Bytes(t)) + 2) \div 3)
      /\ ChatMessage(t) = Message(MESSAGE_ID, ChatMessage(t).payload)
    BY DEF ChatMessage, Message, Encrypted, Base64, IV_AND_TAG, CHAT_JSON
<1> HIDE DEF Bytes
<1>3. ASSUME NEW b \in Nat, b <= 12000
      PROVE  LET size == 4 * ((28 + (25 + b) + 2) \div 3)
             IN  size \in Nat /\ 1 <= size /\ size <= 24000
    <2> DEFINE n == 28 + (25 + b) + 2
               k == n \div 3
    <2>1. n \in Nat /\ 55 <= n /\ n <= 12055
        BY <1>3
    <2> HIDE DEF n
    <2>2. k \in Int /\ 3 * k <= n /\ n < 3 * k + 3
        BY <2>1
    <2> HIDE DEF k
    <2>3. 4 * k \in Nat /\ 1 <= 4 * k /\ 4 * k <= 24000
        BY <2>1, <2>2
    <2> QED BY <2>3 DEF k, n
<1> QED BY <1>1, <1>2, <1>3, LimitsAre

LEMMA Sanitized ==
    ASSUME NEW t \in Writings
    PROVE  SanitizedWeb(t) \in Writings /\ SanitizedPhone(t) \in Writings
<1>1. ASSUME NEW u \in Writings, NEW x \in Nat
      PROVE  /\ [u EXCEPT !.plain = x] \in Writings
             /\ [u EXCEPT !.ampersands = x] \in Writings
             /\ [u EXCEPT !.controls = x] \in Writings
    BY DEF Writings
<1> DEFINE escaped == [t EXCEPT !.plain = t.plain + 5 * t.ampersands]
<1>2. t.plain + 5 * t.ampersands \in Nat
    BY DEF Writings
<1>3. escaped \in Writings
    BY <1>1, <1>2
<1>4. SanitizedWeb(t) = [escaped EXCEPT !.ampersands = 0]
    BY DEF SanitizedWeb
<1> HIDE DEF escaped
<1> QED BY <1>1, <1>3, <1>4 DEF SanitizedPhone

----------------------------------------------------------------------------
(* The door.                                                               *)

LEMMA HandleMessageKeeps ==
    ASSUME NEW ip, NEW frame, NEW by, HandleMessage(ip, frame, by), AppsAreUnderstood,
           by = "app" => Understood(frame)
    PROVE  AppsAreUnderstood'
<1>1. by = "app" => ParseClientMessage(frame).ok = TRUE
    BY DEF Understood, Read
<1>2. told' = told \/ told' = told \cup {"RATE_LIMITED"}
    BY <1>1 DEF HandleMessage, Refuses
<1> QED BY <1>2 DEF AppsAreUnderstood

LEMMA OpensKeeps ==
    ASSUME NEW ip, NEW visit \in ChatVisits \cup NameVisits \cup PageVisits,
           Opens(ip, visit), LinksLeadHome, AppsAreUnderstood
    PROVE  LinksLeadHome' /\ AppsAreUnderstood'
<1>1. LinksLeadHome'
    BY VisitsLeadHome DEF Opens, LinksLeadHome
<1>2. CASE visit.place.at = "chat" /\ HandleMessage(ip, JOIN_SESSION(visit.place.word), "app")
    <2>1. IsValidSessionId(visit.place.word)
        BY <1>2, VisitsAreOf, IdIs
    <2> QED BY <1>1, <1>2, <2>1, IdsAreUnderstood, HandleMessageKeeps
<1>3. CASE visit.place.at = "name" /\ HandleMessage(ip, RING_HANDLE(visit.place.word), "app")
    <2>1. IsHandleSlug(visit.place.word)
        BY <1>3, VisitsAreOf
    <2> QED BY <1>1, <1>3, <2>1, NamesAreUnderstood, HandleMessageKeeps
<1>4. CASE told' = told
    BY <1>1, <1>4 DEF AppsAreUnderstood
<1> QED BY <1>1, <1>2, <1>3, <1>4 DEF Opens

LEMMA SendsKeeps ==
    ASSUME NEW ip, NEW frame, NEW by, Sends(ip, frame, by), LinksLeadHome, AppsAreUnderstood,
           by = "app" => Understood(frame)
    PROVE  LinksLeadHome' /\ AppsAreUnderstood'
BY HandleMessageKeeps DEF Sends, LinksLeadHome

LEMMA DoorKeeps ==
    ASSUME LinksLeadHome, AppsAreUnderstood, [DoorNext]_allVars
    PROVE  LinksLeadHome' /\ AppsAreUnderstood'
<1>1. CASE UNCHANGED doorVars
    BY <1>1 DEF doorVars, LinksLeadHome, AppsAreUnderstood
<1>2. ASSUME NEW ip \in IPs, OpensChat(ip) \/ OpensName(ip) \/ OpensPage(ip)
      PROVE  LinksLeadHome' /\ AppsAreUnderstood'
    BY <1>2, OpensKeeps DEF OpensChat, OpensName, OpensPage
<1>3. \A id \in Ids : IsValidSessionId(id)
    BY IdIs, RequestAssumption
<1>4. ASSUME NEW ip \in IPs, StartsChat(ip) \/ Leaves(ip)
      PROVE  LinksLeadHome' /\ AppsAreUnderstood'
    BY <1>3, <1>4, SendsKeeps, IdsAreUnderstood, OthersAreUnderstood DEF StartsChat, Leaves
<1>5. ASSUME NEW ip \in IPs, SendsKey(ip)
      PROVE  LinksLeadHome' /\ AppsAreUnderstood'
    <2>1. 160 \in 1..MAX_ENCRYPTED_PAYLOAD_CHARS /\ KeyMessage = Message(MESSAGE_ID, 160)
        BY LimitsAre DEF KeyMessage, KEY_JSON
    <2> QED BY <1>5, <2>1, MessagesAreUnderstood, SendsKeeps DEF SendsKey
<1>6. ASSUME NEW ip \in IPs, Says(ip)
      PROVE  LinksLeadHome' /\ AppsAreUnderstood'
    <2>1. PICK written \in Texts, sanitized \in {"web", "phone"} :
              LET text == IF sanitized = "web" THEN SanitizedWeb(written)
                          ELSE SanitizedPhone(written)
              IN  /\ Composes(text)
                  /\ Sends(ip, SEND_MESSAGE(ChatMessage(text)),
                           IF text.controls = 0 THEN "app" ELSE "pasted")
        BY <1>6 DEF Says
    <2>2. PICK text \in Writings :
              /\ Composes(text)
              /\ Sends(ip, SEND_MESSAGE(ChatMessage(text)),
                       IF text.controls = 0 THEN "app" ELSE "pasted")
        BY <2>1, Sanitized, RequestAssumption
    <2>3. text.controls = 0 => Understood(SEND_MESSAGE(ChatMessage(text)))
        BY <2>2, TextsFit, MessagesAreUnderstood
    <2> QED BY <2>2, <2>3, SendsKeeps
<1>7. ASSUME NEW ip \in IPs, Claims(ip)
      PROVE  LinksLeadHome' /\ AppsAreUnderstood'
    <2>1. PICK name \in Names \cup Pages :
              \/ /\ IsAllowedHandle(name)
                 /\ Sends(ip, CLAIM_HANDLE(NormalizeHandle(name), NoProof), "app")
              \/ Sends(ip, CLAIM_HANDLE(NormalizeHandle(name), Proof(124, 88)), "pasted")
        BY <1>7 DEF Claims
    <2> QED BY <2>1, NamesAreUnderstood, SendsKeeps DEF IsAllowedHandle
<1>8. ASSUME NEW ip \in IPs, SendsOther(ip)
      PROVE  LinksLeadHome' /\ AppsAreUnderstood'
    BY <1>8, SendsKeeps DEF SendsOther
<1> QED BY <1>1, <1>2, <1>4, <1>5, <1>6, <1>7, <1>8 DEF DoorNext, allVars, doorVars

LEMMA DoorInv == DoorSpec => [](LinksLeadHome /\ AppsAreUnderstood)
<1>1. DoorInit => LinksLeadHome /\ AppsAreUnderstood
    BY DEF DoorInit, LinksLeadHome, AppsAreUnderstood
<1> QED BY <1>1, DoorKeeps, PTL DEF DoorSpec

(* Whatever name a user chose and whatever page or chat a link is made     *)
(* for: no app shows a link that leads anywhere but there.                 *)
THEOREM LinksLead == DoorSpec => []LinksLeadHome
BY DoorInv, PTL

(* Whatever a user writes: the relay never refuses a frame of an app for   *)
(* what it says, but in the cases the property excepts.                    *)
THEOREM NothingIsMisread == DoorSpec => []AppsAreUnderstood
BY DoorInv, PTL

(* The front door keeps the rules of the limits: what is proved above of   *)
(* every sequence of metered requests holds of what comes in through it.   *)
THEOREM DoorKeepsTheLimits == DoorSpec => Spec
<1>1. DoorInit => Init
    BY DEF DoorInit
<1>2. [DoorNext]_allVars => [Next]_vars
    <2>1. ASSUME NEW ip \in IPs, NEW frame, NEW by, HandleMessage(ip, frame, by)
          PROVE  [Next]_vars
        BY <2>1 DEF HandleMessage, Next
    <2>2. ASSUME NEW ip \in IPs, NEW visit, Opens(ip, visit)
          PROVE  [Next]_vars
        BY <2>1, <2>2 DEF Opens, vars
    <2>3. ASSUME NEW ip \in IPs, NEW frame, NEW by, Sends(ip, frame, by)
          PROVE  [Next]_vars
        BY <2>1, <2>3 DEF Sends
    <2>4. ASSUME NEW ip \in IPs, OpensChat(ip) \/ OpensName(ip) \/ OpensPage(ip)
          PROVE  [Next]_vars
        BY <2>2, <2>4 DEF OpensChat, OpensName, OpensPage
    <2>5. ASSUME NEW ip \in IPs, StartsChat(ip) \/ SendsKey(ip) \/ Says(ip) \/ Claims(ip)
                                 \/ Leaves(ip) \/ SendsOther(ip)
          PROVE  [Next]_vars
        BY <2>3, <2>5 DEF StartsChat, SendsKey, Says, Claims, Leaves, SendsOther
    <2>6. CASE SweepRateLimits \/ Tick
        BY <2>6 DEF Next
    <2>7. CASE UNCHANGED allVars
        BY <2>7 DEF allVars
    <2> QED BY <2>4, <2>5, <2>6, <2>7 DEF DoorNext
<1> QED BY <1>1, <1>2, PTL DEF DoorSpec, Spec
=============================================================================
