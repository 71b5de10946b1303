--------------------------- MODULE HandshakeProofs ---------------------------
(***************************************************************************)
(* Proofs about the handshake: which keys a client holds, in each task of  *)
(* its lock and between them, whose fingerprints it shows, that two        *)
(* clients who are ready hold one secret, and that two who have met do     *)
(* not offer the seat.                                                     *)
(***************************************************************************)
EXTENDS ChatScreen, RelayClientProofs, SequenceTheorems, FiniteSetTheorems

----------------------------------------------------------------------------
(* Both providers write the same public keys, read what either has         *)
(* written, and derive one secret from two key pairs.                      *)

Spki(pair)     == ToBase64(P256_SPKI_PREFIX \o Raw(pair))
Published(key) == \E pair : key = Spki(pair)

LEMMA Exported ==
    ASSUME NEW p, NEW pair
    PROVE  ExportPublicKey(p, pair) = Spki(pair)
BY DEF ExportPublicKey, NativeExport, WebExport, RawToSpki, Spki

LEMMA SpkiIs ==
    ASSUME NEW pair
    PROVE  /\ Spki(pair).base64 = <<"P-256", "04", pair>>
           /\ Spki(pair) # NoKey
<1> DEFINE S == {"P-256", "04", pair}
           a == <<"P-256">>
           b == <<"04", pair>>
           c == <<"P-256", "04", pair>>
<1>1. /\ a \in Seq(S) /\ Len(a) = 1 /\ a[1] = "P-256"
      /\ b \in Seq(S) /\ Len(b) = 2 /\ b[1] = "04" /\ b[2] = pair
      /\ c \in Seq(S) /\ Len(c) = 3 /\ c[1] = "P-256" /\ c[2] = "04" /\ c[3] = pair
    OBVIOUS
<1>2. a \o b = c
    <2> HIDE DEF a, b, c, S
    <2>1. /\ a \o b \in Seq(S) /\ Len(a \o b) = 3
          /\ \A i \in 1..3 : (a \o b)[i] = IF i <= 1 THEN a[i] ELSE b[i - 1]
        <3>1. /\ a \o b \in Seq(S) /\ Len(a \o b) = Len(a) + Len(b)
              /\ \A i \in 1..Len(a) + Len(b) :
                    (a \o b)[i] = IF i <= Len(a) THEN a[i] ELSE b[i - Len(a)]
            BY <1>1, ConcatProperties
        <3>2. Len(a) + Len(b) = 3
            BY <1>1
        <3> QED BY <1>1, <3>1, <3>2
    <2>2. \A i \in 1..3 : (a \o b)[i] = c[i]
        BY <1>1, <2>1
    <2>3. Len(a \o b) = Len(c) /\ \A i \in 1..Len(a \o b) : (a \o b)[i] = c[i]
        BY <1>1, <2>1, <2>2
    <2>4. a \o b \in Seq(S) /\ c \in Seq(S)
        BY <1>1, <2>1
    <2> QED BY <2>3, <2>4, SeqEqual
<1>3. Spki(pair) = [base64 |-> a \o b]
    BY DEF Spki, ToBase64, P256_SPKI_PREFIX, Raw
<1> QED BY <1>2, <1>3 DEF NoKey

LEMMA SpkiOnce ==
    ASSUME NEW p, NEW q, Spki(p) = Spki(q)
    PROVE  p = q
<1>1. <<"P-256", "04", p>> = <<"P-256", "04", q>>
    BY SpkiIs
<1> QED BY <1>1

LEMMA Imported ==
    ASSUME NEW p, NEW pair
    PROVE  /\ ImportPublicKey(p, Spki(pair)) = CryptoKey(Raw(pair))
           /\ CryptoKey(Raw(pair)) # Failed
<1> DEFINE s == <<"P-256", "04", pair>>
<1>1. FromBase64(Spki(pair)) = s
    BY SpkiIs DEF FromBase64
<1>2. /\ Len(s) = 3 /\ SubSeq(s, 1, 1) = <<"P-256">>
      /\ SubSeq(s, 2, 3) = <<"04", pair>> /\ s[3] = pair
    <2> DEFINE S == {"P-256", "04", pair}
               a == <<"P-256">>
               b == <<"04", pair>>
    <2>1. /\ s \in Seq(S) /\ Len(s) = 3 /\ s[1] = "P-256" /\ s[2] = "04" /\ s[3] = pair
          /\ a \in Seq(S) /\ Len(a) = 1 /\ a[1] = "P-256"
          /\ b \in Seq(S) /\ Len(b) = 2 /\ b[1] = "04" /\ b[2] = pair
        OBVIOUS
    <2> HIDE DEF s, S, a, b
    <2>2. \A i \in 1..3 : s[i] \in S
        BY <2>1
    <2>3. /\ SubSeq(s, 1, 1) \in Seq(S) /\ Len(SubSeq(s, 1, 1)) = 1
          /\ \A i \in 1..1 : SubSeq(s, 1, 1)[i] = s[i]
        BY <2>2, SubSeqProperties
    <2>4. /\ SubSeq(s, 2, 3) \in Seq(S) /\ Len(SubSeq(s, 2, 3)) = 2
          /\ \A i \in 1..2 : SubSeq(s, 2, 3)[i] = s[i + 1]
        BY <2>2, SubSeqProperties
    <2>5. SubSeq(s, 1, 1) = a
        BY <2>1, <2>3, SeqEqual
    <2>6. SubSeq(s, 2, 3) = b
        <3>1. \A i \in 1..2 : SubSeq(s, 2, 3)[i] = b[i]
            BY <2>1, <2>4
        <3> QED BY <2>1, <2>4, <3>1, SeqEqual
    <2> QED BY <2>1, <2>5, <2>6 DEF a, b
<1>3. SPKI_LEN = 3 /\ RAW_LEN = 2 /\ Len(P256_SPKI_PREFIX) = 1
    BY DEF SPKI_LEN, RAW_LEN, P256_SPKI_PREFIX
<1>4. HasPrefix(s)
    BY <1>2, <1>3 DEF HasPrefix, P256_SPKI_PREFIX
<1>5. Raw(pair) # Failed /\ CryptoKey(Raw(pair)) # Failed
    BY DEF Raw, Failed, CryptoKey
<1> HIDE DEF s
<1>6. SpkiToRaw(s) = Raw(pair)
    BY <1>2, <1>3, <1>4 DEF SpkiToRaw, Raw
<1>7. NativeImport(Spki(pair)) = CryptoKey(Raw(pair))
    BY <1>1, <1>5, <1>6 DEF NativeImport
<1>8. WebImport(Spki(pair)) = CryptoKey(Raw(pair))
    BY <1>1, <1>2, <1>3, <1>4 DEF WebImport
<1> QED BY <1>5, <1>7, <1>8 DEF ImportPublicKey

LEMMA Derived ==
    ASSUME NEW p, NEW mine, NEW theirs
    PROVE  DeriveSharedSecret(p, mine, CryptoKey(Raw(theirs))) = {mine, theirs}
<1>1. CryptoKey(Raw(theirs)).raw[RAW_LEN] = theirs
    BY DEF CryptoKey, Raw, RAW_LEN
<1>2. P256ScalarFromPkcs8(Pkcs8(mine)) = mine
    <2> DEFINE der == Pkcs8(mine)
               At3(i) == /\ der[i] = "020101" /\ der[i + 1] = "0420"
                         /\ \A j \in 1..i - 1 : ~(der[j] = "020101" /\ der[j + 1] = "0420")
    <2>1. /\ Len(der) = 6 /\ der[1] = "020100" /\ der[2] = "P-256"
          /\ der[3] = "020101" /\ der[4] = "0420" /\ der[5] = mine
        BY DEF Pkcs8
    <2>2. P256ScalarFromPkcs8(der) = der[(CHOOSE i \in 1..Len(der) - 2 : At3(i)) + 2]
        BY DEF P256ScalarFromPkcs8
    <2> HIDE DEF der
    <2>3. At3(3)
        BY <2>1
    <2>4. \A i \in 1..Len(der) - 2 : At3(i) => i = 3
        BY <2>1
    <2> HIDE DEF At3
    <2>5. (CHOOSE i \in 1..Len(der) - 2 : At3(i)) = 3
        BY <2>1, <2>3, <2>4
    <2>6. P256ScalarFromPkcs8(der) = der[3 + 2]
        BY <2>2, <2>5
    <2> QED BY <2>1, <2>6 DEF der
<1>3. EcdhP256SharedX(mine, CryptoKey(Raw(theirs)).raw) = {mine, theirs}
    BY <1>1 DEF EcdhP256SharedX, Shared
<1> QED BY <1>1, <1>2, <1>3 DEF DeriveSharedSecret, Shared

----------------------------------------------------------------------------
(* What the relay adds to the frames on their way.                         *)

IsNotFound(f) == f.type = "ERROR" /\ f.code = "SESSION_NOT_FOUND"
NotFound(s)   == \E f \in Elements(s) : IsNotFound(f)
KeysKnown(s)  == \A f \in Elements(s) : f.type = "key" => Published(f.key)

(* A step of the relay in which no connection but those in X asks for      *)
(* anything.  A seat is had by the retry of a join only, and news are for  *)
(* those who have one; only such a retry is told that there is no session. *)
Heeds(R, Q, X) ==
    /\ Q.wired \subseteq R.wired
    /\ \A c \in Clients :
        /\ KeysKnown(R.net[c]) => KeysKnown(Q.net[c])
        /\ Socket(c) \in Q.wired \ X =>
            /\ Socket(c) \in Q.retries => Socket(c) \in R.retries
            /\ Socket(c) \in Q.dying => Socket(c) \in R.dying \cup R.seats
            /\ Socket(c) \in Q.seats => Socket(c) \in R.seats \cup (R.retries \ Q.retries)
            /\ News(Q.net[c]) => News(R.net[c]) \/ Socket(c) \in Q.seats
            /\ NotFound(Q.net[c]) =>
                  NotFound(R.net[c]) \/ Socket(c) \in R.retries \ (Q.retries \cup Q.seats)

\* The tables of S are those of R but for what a request or a retry has changed.
Near(R, S, X) ==
    /\ RelayShaped(S) /\ S.wired = R.wired /\ S.net = R.net
    /\ \A k \in R.wired \ X :
        /\ k \in S.retries => k \in R.retries
        /\ k \in S.dying => k \in R.dying \cup R.seats
        /\ k \in S.seats => k \in R.seats \cup (R.retries \ S.retries)

LEMMA NearHeeds ==
    ASSUME NEW R, NEW S, NEW X, Near(R, S, X)
    PROVE  Heeds(R, S, X)
BY DEF Near, Heeds

LEMMA DeliverHeeds ==
    ASSUME NEW R, RelayOK(R), NEW S, NEW X, Near(R, S, X), NEW K, NEW f,
           f.type = "ERROR" \/ K \subseteq S.seats,
           IsNotFound(f) => \A k \in K \ X : k \in R.retries \ (S.retries \cup S.seats),
           f.type = "key" => Published(f.key)
    PROVE  Heeds(R, Deliver(S, K, f), X)
<1> DEFINE Q == Deliver(S, K, f)
<1>1. /\ Q.seats = S.seats /\ Q.wired = S.wired /\ Q.dying = S.dying /\ Q.retries = S.retries
      /\ \A c \in Clients :
           Q.net[c] = IF Socket(c) \in (K \cap S.wired) \ S.dying
                      THEN Append(S.net[c], f) ELSE S.net[c]
    <2>1. RelayShaped(S) /\ S.wired \subseteq Sockets
        BY DEF Near, RelayOK
    <2> QED BY <2>1, DeliverIs
<1> HIDE DEF Q
<1>2. ASSUME NEW c \in Clients
      PROVE  /\ KeysKnown(R.net[c]) => KeysKnown(Q.net[c])
             /\ News(Q.net[c]) => News(R.net[c]) \/ (f.type # "ERROR" /\ Socket(c) \in K)
             /\ NotFound(Q.net[c]) => NotFound(R.net[c]) \/ (IsNotFound(f) /\ Socket(c) \in K)
    <2>1. CASE Socket(c) \in (K \cap S.wired) \ S.dying
        <3>1. IsSeq(R.net[c])
            BY DEF RelayOK, LinesOK, LineOK
        <3>2. Elements(Q.net[c]) = Elements(R.net[c]) \cup {f}
            BY <1>1, <2>1, <3>1, Appended DEF Near
        <3> QED BY <2>1, <3>2 DEF KeysKnown, News, NotFound
    <2>2. CASE Socket(c) \notin (K \cap S.wired) \ S.dying
        BY <1>1, <2>2 DEF Near
    <2> QED BY <2>1, <2>2
<1>3. ASSUME NEW c \in Clients, Socket(c) \in Q.wired \ X
      PROVE  /\ Socket(c) \in Q.retries => Socket(c) \in R.retries
             /\ Socket(c) \in Q.dying => Socket(c) \in R.dying \cup R.seats
             /\ Socket(c) \in Q.seats => Socket(c) \in R.seats \cup (R.retries \ Q.retries)
             /\ News(Q.net[c]) => News(R.net[c]) \/ Socket(c) \in Q.seats
             /\ NotFound(Q.net[c]) =>
                  NotFound(R.net[c]) \/ Socket(c) \in R.retries \ (Q.retries \cup Q.seats)
    BY <1>1, <1>2, <1>3 DEF Near
<1> QED BY <1>1, <1>2, <1>3 DEF Q, Heeds, Near

\* Frames that are consumed or lost, connections that break.
Hushed(Q, P) ==
    /\ P.wired \subseteq Q.wired
    /\ P.seats = Q.seats /\ P.dying = Q.dying /\ P.retries = Q.retries
    /\ \A c \in Clients : Elements(P.net[c]) \subseteq Elements(Q.net[c])

LEMMA HushedHeeds ==
    ASSUME NEW R, NEW Q, NEW P, NEW X, Heeds(R, Q, X), Hushed(Q, P)
    PROVE  Heeds(R, P, X)
<1>1. ASSUME NEW c \in Clients
      PROVE  /\ KeysKnown(Q.net[c]) => KeysKnown(P.net[c])
             /\ News(P.net[c]) => News(Q.net[c])
             /\ NotFound(P.net[c]) => NotFound(Q.net[c])
    BY DEF Hushed, KeysKnown, News, NotFound
<1> QED BY <1>1 DEF Heeds, Hushed

LEMMA HushedTwice ==
    ASSUME NEW R, NEW Q, NEW P, Hushed(R, Q), Hushed(Q, P)
    PROVE  Hushed(R, P)
BY DEF Hushed

LEMMA HeedsNot ==
    ASSUME NEW R, NEW X
    PROVE  Heeds(R, R, X) /\ Hushed(R, R)
BY DEF Heeds, Hushed

LEMMA FaultHushed ==
    ASSUME NEW R, RelayOK(R)
    PROVE  Hushed(R, Fault(R))
<1> DEFINE Q == Fault(R)
<1>1. /\ Q.seats = R.seats /\ Q.wired = R.wired
      /\ Q.dying = R.dying /\ Q.retries = R.retries /\ Q.net = R.net
    BY DEF Fault, RelayOK, RelayShaped, RelayFields
<1> HIDE DEF Q
<1> QED BY <1>1 DEF Q, Hushed

LEMMA HungUpHushed ==
    ASSUME NEW R, RelayOK(R), NEW c \in Clients
    PROVE  /\ Hushed(R, HangUp(R, Socket(c)))
           /\ Socket(c) \notin HangUp(R, Socket(c)).wired
<1> DEFINE Q == HangUp(R, Socket(c))
           net == [R.net EXCEPT ![c] = <<>>]
           wired == R.wired \ {Socket(c)}
<1>1. net[c] = <<>> /\ \A d \in Clients \ {c} : net[d] = R.net[d]
    BY DEF RelayOK, RelayShaped
<1>2. Q = [R EXCEPT !.wired = wired, !.net = net]
    BY SocketIs DEF HangUp
<1> HIDE DEF Q, net, wired
<1>3. /\ Q.seats = R.seats /\ Q.wired = wired
      /\ Q.dying = R.dying /\ Q.retries = R.retries /\ Q.net = net
    BY <1>2 DEF RelayOK, RelayShaped, RelayFields
<1>4. \A d \in Clients : Elements(Q.net[d]) \subseteq Elements(R.net[d])
    BY <1>1, <1>3, Empty
<1> QED BY <1>3, <1>4 DEF Q, wired, Hushed

LEMMA ConsumedHushed ==
    ASSUME RelayOK(relay), NEW c \in Clients, relay.net[c] # <<>>
    PROVE  /\ Hushed(relay, Consumed(c)) /\ Consumed(c).wired = relay.wired
           /\ Consumed(c).net[c] = Tail(relay.net[c])
<1> DEFINE Q == Consumed(c)
           net == [relay.net EXCEPT ![c] = Tail(@)]
<1>1. net[c] = Tail(relay.net[c]) /\ \A d \in Clients \ {c} : net[d] = relay.net[d]
    BY DEF RelayOK, RelayShaped
<1>2. Q = [relay EXCEPT !.net = net]
    BY DEF Consumed
<1> HIDE DEF Q, net
<1>3. /\ Q.seats = relay.seats /\ Q.wired = relay.wired
      /\ Q.dying = relay.dying /\ Q.retries = relay.retries /\ Q.net = net
    BY <1>2 DEF RelayOK, RelayShaped, RelayFields
<1>4. Elements(Tail(relay.net[c])) \subseteq Elements(relay.net[c])
    BY Taken DEF RelayOK, LinesOK, LineOK
<1>5. \A d \in Clients : Elements(Q.net[d]) \subseteq Elements(relay.net[d])
    BY <1>1, <1>3, <1>4
<1> QED BY <1>1, <1>3, <1>5 DEF Q, Hushed

LEMMA CodesAre ==
    /\ \A code : Failure(code).code = code /\ Failure(code).type = "ERROR"
    /\ \A type : Frame(type).type = type
BY DEF Failure, Frame

LEMMA CreateHeeds ==
    ASSUME NEW R, RelayOK(R), NEW k
    PROVE  Heeds(R, RelayCreate(R, k), {k}) /\ RelayCreate(R, k).retries = R.retries
<1>1. CASE R.exists /\ R.seats # {}
    <2>1. Near(R, R, {k})
        BY DEF Near, RelayOK
    <2>2. ~IsNotFound(Failure("SESSION_EXISTS"))
        BY CodesAre DEF IsNotFound
    <2>3. Heeds(R, Deliver(R, {k}, Failure("SESSION_EXISTS")), {k})
        BY <2>1, <2>2, CodesAre, DeliverHeeds
    <2> QED BY <1>1, <2>3, DeliverIs DEF RelayCreate, RelayOK
<1>2. CASE ~(R.exists /\ R.seats # {})
    <2> DEFINE S == [R EXCEPT !.exists = TRUE, !.seats = {k}]
    <2>1. /\ RelayShaped(S) /\ S.seats = {k} /\ S.wired = R.wired
          /\ S.dying = R.dying /\ S.retries = R.retries /\ S.net = R.net
        BY DEF RelayOK, RelayShaped, RelayFields
    <2>2. RelayCreate(R, k) = Deliver(S, {k}, Frame("SESSION_CREATED"))
        BY <1>2 DEF RelayCreate
    <2> HIDE DEF S
    <2>3. Near(R, S, {k})
        BY <2>1 DEF Near
    <2>4. ~IsNotFound(Frame("SESSION_CREATED")) /\ Frame("SESSION_CREATED").type # "key"
        BY CodesAre DEF IsNotFound
    <2>5. Heeds(R, Deliver(S, {k}, Frame("SESSION_CREATED")), {k})
        BY <2>1, <2>3, <2>4, DeliverHeeds
    <2>6. Deliver(S, {k}, Frame("SESSION_CREATED")).retries = S.retries
        BY <2>1, DeliverIs DEF RelayOK
    <2> QED BY <2>1, <2>2, <2>5, <2>6
<1> QED BY <1>1, <1>2

\* A join that finds room takes a seat: R is what the relay has made of B.
LEMMA TryJoinHeeds ==
    ASSUME NEW B, RelayOK(B), NEW R, NEW X, Near(B, R, X), NEW k,
           k \in X \/ k \in B.retries \ R.retries
    PROVE  LET Q == TryJoin(R, k) IN
           /\ Heeds(B, Q, X) /\ Q.retries = R.retries
           /\ \A c \in Clients : NotFound(Q.net[c]) => NotFound(R.net[c])
<1> DEFINE alive == R.seats \ R.dying
           S == [R EXCEPT !.seats = alive \cup {k}, !.pruned = @ \/ alive # R.seats]
           Q == TryJoin(R, k)
<1>1. /\ RelayShaped(S) /\ S.seats = alive \cup {k}
      /\ S.wired = R.wired /\ S.dying = R.dying /\ S.retries = R.retries /\ S.net = R.net
    <2> HIDE DEF alive
    <2> QED BY DEF Near, RelayShaped, RelayFields
<1>2. PICK f \in {Frame("SESSION_CREATED"), Frame("PARTNER_JOINED")} :
         \E K \in SUBSET S.seats : Q = Deliver(S, K, f)
    <2>1. \/ Q = Deliver(S, {k}, Frame("SESSION_CREATED"))
          \/ Q = Deliver(S, alive \cup {k}, Frame("PARTNER_JOINED"))
        BY DEF TryJoin
    <2> HIDE DEF Q, S
    <2> QED BY <1>1, <2>1
<1> HIDE DEF S
<1>3. PICK K \in SUBSET S.seats : Q = Deliver(S, K, f)
    BY <1>2
<1> HIDE DEF Q
<1>4. ~IsNotFound(f) /\ f.type # "key" /\ f.type # "ERROR"
    BY <1>2, CodesAre DEF IsNotFound
<1>5. Near(B, S, X)
    BY <1>1 DEF Near
<1>6. Heeds(B, Q, X)
    BY <1>3, <1>4, <1>5, DeliverHeeds
<1>7. /\ Q.retries = S.retries
      /\ \A c \in Clients :
           Q.net[c] = IF Socket(c) \in (K \cap S.wired) \ S.dying
                      THEN Append(S.net[c], f) ELSE S.net[c]
    BY <1>1, <1>3, DeliverIs DEF RelayOK, Near
<1>8. ASSUME NEW c \in Clients, NotFound(Q.net[c])
      PROVE  NotFound(R.net[c])
    <2>1. IsSeq(R.net[c])
        BY DEF RelayOK, LinesOK, LineOK, Near
    <2>2. Elements(Q.net[c]) \subseteq Elements(R.net[c]) \cup {f}
        BY <1>1, <1>7, <2>1, Appended
    <2> QED BY <1>4, <1>8, <2>2 DEF NotFound
<1> QED BY <1>1, <1>6, <1>7, <1>8 DEF Q

\* A join of a connection that has not asked before.
LEMMA JoinHeeds ==
    ASSUME NEW R, RelayOK(R), NEW c \in Clients
    PROVE  LET Q == RelayJoin(R, Socket(c)) IN
           /\ Heeds(R, Q, {Socket(c)})
           /\ /\ Socket(c) \notin R.seats \cup R.dying \cup R.retries
              /\ ~News(R.net[c]) /\ ~NotFound(R.net[c])
              => /\ Socket(c) \in Q.retries \/ NotFound(Q.net[c])
                    => Socket(c) \notin Q.seats \cup Q.dying /\ ~News(Q.net[c])
                 /\ NotFound(Q.net[c]) => Socket(c) \notin Q.retries
<1> DEFINE k == Socket(c)
           Q == RelayJoin(R, k)
<1>1. Near(R, R, {k})
    BY DEF Near, RelayOK
<1>2. CASE ~R.exists
    <2> DEFINE f == Failure("SESSION_NOT_FOUND")
    <2>1. Q = Deliver(R, {k}, f) /\ f.type = "ERROR"
        BY <1>2, CodesAre DEF RelayJoin
    <2>r. RelayShaped(R) /\ R.wired \subseteq Sockets
        BY DEF RelayOK
    <2> HIDE DEF f, Q
    <2>2. Heeds(R, Q, {k})
        BY <1>1, <2>1, DeliverHeeds
    <2>3. /\ Q.seats = R.seats /\ Q.dying = R.dying /\ Q.retries = R.retries
          /\ Q.net[c] = IF Socket(c) \in ({k} \cap R.wired) \ R.dying
                         THEN Append(R.net[c], f) ELSE R.net[c]
        BY <2>r, <2>1, DeliverIs
    <2>4. IsSeq(R.net[c])
        BY DEF RelayOK, LinesOK, LineOK
    <2>6. Elements(Append(R.net[c], f)) = Elements(R.net[c]) \cup {f}
        BY <2>4, Appended
    <2>5. News(Q.net[c]) => News(R.net[c])
        <3>1. CASE Q.net[c] = R.net[c]
            BY <3>1
        <3>2. CASE Q.net[c] = Append(R.net[c], f)
            BY <2>1, <2>6, <3>2 DEF News
        <3> QED BY <2>3, <3>1, <3>2
    <2> QED BY <2>2, <2>3, <2>5 DEF Q
<1>3. CASE R.exists /\ Full(R)
    <2> DEFINE S == [R EXCEPT !.retries = @ \cup {k}]
    <2>1. /\ RelayShaped(S) /\ S.seats = R.seats /\ S.wired = R.wired
          /\ S.dying = R.dying /\ S.retries = R.retries \cup {k} /\ S.net = R.net
        BY DEF RelayOK, RelayShaped, RelayFields
    <2>2. Q = S
        BY <1>3 DEF RelayJoin
    <2> HIDE DEF S
    <2>3. Near(R, S, {k})
        BY <2>1 DEF Near
    <2> HIDE DEF Q
    <2> QED BY <2>1, <2>2, <2>3, NearHeeds DEF Q
<1>4. CASE R.exists /\ ~Full(R)
    <2>1. Q = TryJoin(R, k)
        BY <1>4 DEF RelayJoin
    <2>2. /\ Heeds(R, Q, {k}) /\ Q.retries = R.retries
          /\ NotFound(Q.net[c]) => NotFound(R.net[c])
        BY <1>1, <2>1, TryJoinHeeds
    <2> HIDE DEF Q
    <2> QED BY <2>2 DEF Q
<1> QED BY <1>2, <1>3, <1>4

LEMMA SendHeeds ==
    ASSUME NEW R, RelayOK(R), NEW k, NEW f, f.type \in {"chat", "key"},
           f.type = "key" => Published(f.key), NEW Q \in RelaySend(R, k, f)
    PROVE  Heeds(R, Q, {})
<1>1. Near(R, R, {})
    BY DEF Near, RelayOK
<1>2. ~IsNotFound(f) /\ f.type # "ERROR"
    BY DEF IsNotFound
<1>3. \A K \in SUBSET R.seats : Heeds(R, Deliver(R, K, f), {})
    BY <1>1, <1>2, DeliverHeeds
<1>4. \A code : code # "SESSION_NOT_FOUND" => Heeds(R, Deliver(R, {k}, Failure(code)), {})
    BY <1>1, CodesAre, DeliverHeeds DEF IsNotFound
<1>5. CASE k \notin R.wired
    BY <1>5, HeedsNot DEF RelaySend
<1>6. CASE k \in R.wired /\ k \notin R.seats
    BY <1>4, <1>6 DEF RelaySend
<1>7. CASE k \in R.wired /\ k \in R.seats /\ Q = Deliver(R, R.seats \ {k}, f)
    BY <1>3, <1>7
<1>8. CASE \E S \in {R} : Q = [Fault(Deliver(S, {k}, Failure("RATE_LIMITED")))
                                 EXCEPT !.refused = @ \/ f.type = "key"]
    <2> DEFINE D == Deliver(R, {k}, Failure("RATE_LIMITED"))
               E == Fault(D)
    <2>1. Heeds(R, D, {})
        BY <1>4
    <2>2. RelayOK(D)
        BY DeliverServes, FramesAre DEF Last, Refusal, Served
    <2> HIDE DEF D
    <2>3. DOMAIN E = RelayFields /\ Hushed(D, E)
        BY <2>2, FaultHushed, FaultServes DEF Served, RelayOK, RelayShaped
    <2>4. Q = [E EXCEPT !.refused = @ \/ f.type = "key"]
        BY <1>8 DEF D
    <2> HIDE DEF E
    <2>5. Hushed(E, Q)
        <3>1. /\ Q.seats = E.seats /\ Q.wired = E.wired
              /\ Q.dying = E.dying /\ Q.retries = E.retries /\ Q.net = E.net
            BY <2>3, <2>4 DEF RelayFields
        <3> QED BY <3>1 DEF Hushed
    <2> QED BY <2>1, <2>3, <2>5, HushedHeeds
<1>9. k \in R.wired /\ k \in R.seats =>
      Q = Deliver(R, R.seats \ {k}, f)
      \/ \E S \in {R} : Q = [Fault(Deliver(S, {k}, Failure("RATE_LIMITED")))
                               EXCEPT !.refused = @ \/ f.type = "key"]
    BY DEF RelaySend
<1> QED BY <1>5, <1>6, <1>7, <1>8, <1>9

LEMMA LeaveHeeds ==
    ASSUME NEW R, RelayOK(R), NEW k
    PROVE  Heeds(R, RelayLeave(R, k), {})
<1>1. CASE k \notin R.seats
    BY <1>1, HeedsNot DEF RelayLeave
<1>2. CASE k \in R.seats
    <2> DEFINE S == [R EXCEPT !.seats = @ \ {k}]
    <2>1. /\ RelayShaped(S) /\ S.seats = R.seats \ {k}
          /\ S.wired = R.wired /\ S.dying = R.dying /\ S.retries = R.retries /\ S.net = R.net
        BY DEF RelayOK, RelayShaped, RelayFields
    <2>2. RelayLeave(R, k) = Deliver(S, S.seats, Frame("PARTNER_LEFT"))
        BY <1>2, <2>1 DEF RelayLeave
    <2> HIDE DEF S
    <2>3. Near(R, S, {})
        BY <2>1 DEF Near
    <2>4. ~IsNotFound(Frame("PARTNER_LEFT")) /\ Frame("PARTNER_LEFT").type # "key"
        BY CodesAre DEF IsNotFound
    <2> QED BY <2>2, <2>3, <2>4, DeliverHeeds
<1> QED BY <1>1, <1>2

LEMMA CloseEventHeeds ==
    ASSUME RelayOK(relay), NEW k, CloseEvent(k)
    PROVE  Heeds(relay, relay', {})
<1> DEFINE S == RelayLeave(relay, k)
           Q == [S EXCEPT !.ended = @ \cup {k}]
<1>1. Heeds(relay, S, {}) /\ Served(relay, S, {k}, {})
    BY LeaveHeeds, LeaveServes
<1>2. relay' = Q
    BY DEF CloseEvent
<1> HIDE DEF S
<1>3. Hushed(S, Q)
    <2>1. /\ Q.seats = S.seats /\ Q.wired = S.wired
          /\ Q.dying = S.dying /\ Q.retries = S.retries /\ Q.net = S.net
        BY <1>1 DEF Served, RelayOK, RelayShaped, RelayFields
    <2> QED BY <2>1 DEF Hushed
<1> QED BY <1>1, <1>2, <1>3, HushedHeeds

\* The session found past its time: nobody is told that there is none.
LEMMA ExpiredHeeds ==
    ASSUME NEW B, NEW R, RelayOK(R), NEW X, Near(B, R, X), R.seats \subseteq B.seats
    PROVE  LET Q == Expired(R) IN
           /\ Heeds(B, Q, X) /\ Q.retries = R.retries
           /\ \A c \in Clients : NotFound(Q.net[c]) => NotFound(R.net[c])
<1> DEFINE K == R.seats
           A == Deliver(R, K, Frame("SESSION_EXPIRED"))
           D == Deliver(A, K, Frame("close"))
           C == Fault(D)
           Q == [C EXCEPT !.exists = FALSE, !.seats = {}, !.dying = @ \cup K]
<1>1. Expired(R) = Q
    BY DEF Expired
<1>2. /\ RelayShaped(A) /\ A.wired = R.wired /\ A.dying = R.dying
      /\ A.retries = R.retries
      /\ \A c \in Clients :
           A.net[c] = IF Socket(c) \in (K \cap R.wired) \ R.dying
                      THEN Append(R.net[c], Frame("SESSION_EXPIRED")) ELSE R.net[c]
    BY DeliverIs DEF RelayOK
<1> HIDE DEF A
<1>3. /\ RelayShaped(D) /\ D.wired = A.wired /\ D.dying = A.dying /\ D.retries = A.retries
      /\ \A c \in Clients :
           D.net[c] = IF Socket(c) \in (K \cap A.wired) \ A.dying
                      THEN Append(A.net[c], Frame("close")) ELSE A.net[c]
    BY <1>2, DeliverIs DEF RelayOK
<1> HIDE DEF D
<1>4. /\ RelayShaped(C) /\ C.wired = D.wired /\ C.dying = D.dying /\ C.retries = D.retries
      /\ C.net = D.net
    BY <1>3 DEF Fault, RelayShaped, RelayFields
<1> HIDE DEF C
<1>5. /\ Q.seats = {} /\ Q.wired = C.wired
      /\ Q.dying = C.dying \cup K /\ Q.retries = C.retries /\ Q.net = C.net
    <2> HIDE DEF K
    <2> QED BY <1>4 DEF RelayShaped, RelayFields
<1> HIDE DEF Q
<1>6. ASSUME NEW c \in Clients
      PROVE  /\ KeysKnown(R.net[c]) => KeysKnown(Q.net[c])
             /\ News(Q.net[c]) => News(R.net[c])
             /\ NotFound(Q.net[c]) => NotFound(R.net[c])
    <2>1. IsSeq(R.net[c])
        BY DEF RelayOK, LinesOK, LineOK
    <2>2. /\ IsSeq(A.net[c])
          /\ Elements(A.net[c]) \subseteq Elements(R.net[c]) \cup {Frame("SESSION_EXPIRED")}
        BY <1>2, <2>1, Appended
    <2>3. Elements(D.net[c]) \subseteq Elements(A.net[c]) \cup {Frame("close")}
        BY <1>3, <2>2, Appended
    <2>4. /\ Frame("SESSION_EXPIRED").type = "SESSION_EXPIRED" /\ Frame("close").type = "close"
        BY CodesAre
    <2>5. Elements(Q.net[c]) \subseteq
             Elements(R.net[c]) \cup {Frame("SESSION_EXPIRED"), Frame("close")}
        BY <1>4, <1>5, <2>2, <2>3
    <2> QED BY <2>4, <2>5 DEF KeysKnown, News, NotFound, IsNotFound, Last
<1>7. /\ Q.wired = R.wired /\ Q.dying = R.dying \cup R.seats /\ Q.retries = R.retries
    BY <1>2, <1>3, <1>4, <1>5
<1>8. Heeds(B, Q, X)
    BY <1>5, <1>6, <1>7 DEF Near, Heeds
<1> QED BY <1>1, <1>6, <1>7, <1>8

\* Another failure than that there is no session.
LEMMA FailureHeeds ==
    ASSUME NEW B, NEW R, RelayOK(R), NEW X, Heeds(B, R, X), NEW K,
           NEW code, code # "SESSION_NOT_FOUND"
    PROVE  LET Q == Deliver(R, K, Failure(code)) IN
           /\ Heeds(B, Q, X) /\ Q.retries = R.retries
           /\ \A c \in Clients : NotFound(Q.net[c]) => NotFound(R.net[c])
<1> DEFINE f == Failure(code)
           Q == Deliver(R, K, f)
<1>1. f.type = "ERROR" /\ ~IsNotFound(f)
    BY CodesAre DEF IsNotFound
<1> HIDE DEF f
<1>2. /\ Q.seats = R.seats /\ Q.wired = R.wired /\ Q.dying = R.dying /\ Q.retries = R.retries
      /\ \A c \in Clients :
           Q.net[c] = IF Socket(c) \in (K \cap R.wired) \ R.dying
                      THEN Append(R.net[c], f) ELSE R.net[c]
    BY DeliverIs DEF RelayOK
<1> HIDE DEF Q
<1>3. ASSUME NEW c \in Clients
      PROVE  /\ KeysKnown(R.net[c]) => KeysKnown(Q.net[c])
             /\ News(Q.net[c]) => News(R.net[c])
             /\ NotFound(Q.net[c]) => NotFound(R.net[c])
    <2>1. IsSeq(R.net[c])
        BY DEF RelayOK, LinesOK, LineOK
    <2>2. Elements(Q.net[c]) \subseteq Elements(R.net[c]) \cup {f}
        BY <1>2, <2>1, Appended
    <2> QED BY <1>1, <2>2 DEF KeysKnown, News, NotFound
<1>4. Heeds(B, Q, X)
    BY <1>2, <1>3 DEF Heeds
<1> QED BY <1>2, <1>3, <1>4 DEF Q, f

LEMMA LimitedHeeds ==
    ASSUME NEW R, RelayOK(R), NEW k, NEW X, NEW Q \in Limited(R, k)
    PROVE  /\ Heeds(R, Q, X) /\ Q.retries = R.retries
           /\ \A c \in Clients : NotFound(Q.net[c]) => NotFound(R.net[c])
<1> DEFINE S == Deliver(R, {k}, Failure("RATE_LIMITED"))
<1>1. Q = Fault(S)
    BY DEF Limited
<1>2. /\ Heeds(R, S, X) /\ S.retries = R.retries
      /\ \A c \in Clients : NotFound(S.net[c]) => NotFound(R.net[c])
    BY HeedsNot, FailureHeeds
<1>3. RelayOK(S)
    BY DeliverServes, FramesAre DEF Last, Refusal, Served
<1> HIDE DEF S
<1>4. Hushed(S, Q)
    BY <1>1, <1>3, FaultHushed
<1>5. Heeds(R, Q, X) /\ Q.retries = S.retries
    BY <1>2, <1>4, HushedHeeds DEF Hushed
<1>6. \A c \in Clients : NotFound(Q.net[c]) => NotFound(S.net[c])
    BY <1>4 DEF Hushed, NotFound
<1> QED BY <1>2, <1>5, <1>6

LEMMA TooLateHeeds ==
    ASSUME NEW B, NEW R, RelayOK(R), NEW k, NEW X, Near(B, R, X), R.seats \subseteq B.seats,
           NEW Q \in TooLate(R, k)
    PROVE  /\ Heeds(B, Q, X) /\ Q.retries = R.retries
           /\ \A c \in Clients : NotFound(Q.net[c]) => NotFound(R.net[c])
<1> DEFINE S == Expired(R)
<1>1. Q = Deliver(S, {k}, Failure("SESSION_EXPIRED"))
    BY DEF TooLate
<1>2. /\ Heeds(B, S, X) /\ S.retries = R.retries
      /\ \A c \in Clients : NotFound(S.net[c]) => NotFound(R.net[c])
    BY ExpiredHeeds
<1>3. RelayOK(S)
    BY ExpiredServes DEF Served
<1> HIDE DEF S
<1>4. /\ Heeds(B, Q, X) /\ Q.retries = S.retries
      /\ \A c \in Clients : NotFound(Q.net[c]) => NotFound(S.net[c])
    <2>1. Heeds(B, S, X) /\ "SESSION_EXPIRED" # "SESSION_NOT_FOUND"
        BY <1>2
    <2> DEFINE P == Deliver(S, {k}, Failure("SESSION_EXPIRED"))
    <2>2. /\ Heeds(B, P, X) /\ P.retries = S.retries
          /\ \A c \in Clients : NotFound(P.net[c]) => NotFound(S.net[c])
        BY <1>3, <2>1, FailureHeeds
    <2> HIDE DEF P
    <2> QED BY <1>1, <2>2 DEF P
<1> QED BY <1>2, <1>4

\* Any answer to a request; only a join is put off, or told that there is none.
LEMMA CreateAnswered ==
    ASSUME NEW R, RelayOK(R), NEW k, NEW Q \in CreateAnswers(R, k)
    PROVE  Heeds(R, Q, {k}) /\ Q.retries = R.retries
<1>1. Q = RelayCreate(R, k) \/ Q \in Limited(R, k) \/ Q \in TooLate(R, k)
    BY DEF CreateAnswers
<1>2. Near(R, R, {k})
    BY DEF Near, RelayOK
<1> QED BY <1>1, <1>2, CreateHeeds, LimitedHeeds, TooLateHeeds

LEMMA JoinAnswered ==
    ASSUME NEW R, RelayOK(R), NEW k, NEW Q \in JoinAnswers(R, k), Q # RelayJoin(R, k)
    PROVE  /\ Heeds(R, Q, {k}) /\ Q.retries = R.retries
           /\ \A c \in Clients : NotFound(Q.net[c]) => NotFound(R.net[c])
<1>1. Q \in Limited(R, k) \/ Q \in TooLate(R, k)
    BY DEF JoinAnswers
<1>2. Near(R, R, {k})
    BY DEF Near, RelayOK
<1> QED BY <1>1, <1>2, LimitedHeeds, TooLateHeeds

LEMMA JoinRetryHeeds ==
    ASSUME RelayOK(relay), NEW k, JoinRetryFires(k)
    PROVE  Heeds(relay, relay', {})
<1> DEFINE R == [relay EXCEPT !.retries = @ \ {k}]
<1>1. /\ RelayShaped(R) /\ R.seats = relay.seats /\ R.exists = relay.exists
      /\ R.wired = relay.wired /\ R.dying = relay.dying
      /\ R.retries = relay.retries \ {k} /\ R.net = relay.net
    BY DEF RelayOK, RelayShaped, RelayFields
<1>2. /\ k \in relay.retries
      /\ \/ relay' = IF k \in R.seats THEN R
                     ELSE IF ~R.exists THEN Deliver(R, {k}, Failure("SESSION_NOT_FOUND"))
                     ELSE IF Full(R) THEN Deliver(R, {k}, Failure("SESSION_FULL"))
                     ELSE TryJoin(R, k)
         \/ relay' \in TooLate(R, k)
    BY DEF JoinRetryFires
<1> HIDE DEF R
<1>3. Near(relay, R, {})
    BY <1>1 DEF Near
<1>4. k \notin R.seats => \A code : Heeds(relay, Deliver(R, {k}, Failure(code)), {})
    BY <1>1, <1>2, <1>3, CodesAre, DeliverHeeds
<1>5. Heeds(relay, TryJoin(R, k), {})
    BY <1>1, <1>2, <1>3, TryJoinHeeds
<1>6. RelayOK(R)
    <2>1. Served(relay, R, {}, {})
        BY <1>1, TablesServe DEF RelayOK, Known
    <2> QED BY <2>1 DEF Served
<1>7. relay' \in TooLate(R, k) => Heeds(relay, relay', {})
    BY <1>1, <1>3, <1>6, TooLateHeeds
<1> QED BY <1>2, <1>3, <1>4, <1>5, <1>7, NearHeeds

LEMMA RelayStepHeeds ==
    ASSUME RelayOK(relay), RelayStep
    PROVE  Heeds(relay, relay', {})
<1>1. ASSUME NEW k, SocketDies(k) PROVE Heeds(relay, relay', {})
    <2> DEFINE Q == [relay EXCEPT !.dying = @ \cup {k}]
    <2>1. /\ RelayShaped(Q) /\ Q.seats = relay.seats
          /\ Q.wired = relay.wired /\ Q.dying = relay.dying \cup {k}
          /\ Q.retries = relay.retries /\ Q.net = relay.net
        BY DEF RelayOK, RelayShaped, RelayFields
    <2>2. relay' = Q /\ k \notin relay.wired
        BY <1>1 DEF SocketDies
    <2> HIDE DEF Q
    <2>3. Near(relay, Q, {})
        BY <2>1, <2>2 DEF Near
    <2> QED BY <2>2, <2>3, NearHeeds
<1>2. ASSUME GraceEnds PROVE Heeds(relay, relay', {})
    <2> DEFINE Q == [relay EXCEPT !.exists = FALSE]
    <2>1. /\ RelayShaped(Q) /\ Q.seats = relay.seats
          /\ Q.wired = relay.wired /\ Q.dying = relay.dying
          /\ Q.retries = relay.retries /\ Q.net = relay.net
        BY DEF RelayOK, RelayShaped, RelayFields
    <2>2. relay' = Q
        BY <1>2 DEF GraceEnds
    <2> HIDE DEF Q
    <2>3. Near(relay, Q, {})
        BY <2>1 DEF Near
    <2> QED BY <2>2, <2>3, NearHeeds
<1>3. ASSUME Expire PROVE Heeds(relay, relay', {})
    <2>1. relay' = Expired(relay) /\ Near(relay, relay, {})
        BY <1>3 DEF Expire, Near, RelayOK
    <2> QED BY <2>1, ExpiredHeeds
<1> QED BY <1>1, <1>2, <1>3, CloseEventHeeds, JoinRetryHeeds DEF RelayStep

----------------------------------------------------------------------------
(* What a client knows in each task of its handshake lock.                 *)

\* Nothing of a handshake has happened on this connection.
Fresh(r) == r.lock = <<>> /\ r.sent = FALSE /\ r.received = FALSE /\ r.shared = {}
            /\ r.status # "ready"

\* The secret is that of the own key pair and of the one whose key was imported.
Holds(r) == /\ r.received = TRUE
            /\ \E q : r.peerKey = Spki(q) /\ r.shared = {r.keyPair, q}

LocalOK(r) == r.localKey = Spki(r.keyPair)

Told(r) == /\ Holds(r) /\ LocalOK(r)
           /\ r.seen = <<GenerateFingerprint(r.localKey), GenerateFingerprint(r.peerKey)>>

\* The task t of the client r, at the await it has come to.
TaskOK(r, t) ==
    /\ t.pc = "import" => t.key = r.peerKey /\ r.status # "ready" /\ Published(t.key)
    /\ t.pc = "derive" =>
          /\ t.my = r.keyPair /\ r.status # "ready"
          /\ \E q : r.peerKey = Spki(q) /\ t.key = CryptoKey(Raw(q))
    /\ t.pc = "export" => /\ t.my = r.keyPair
                          /\ t.kind # "send" => r.status # "ready" /\ Holds(r)
    /\ t.pc \in {"print", "print_peer"} => Holds(r) /\ LocalOK(r) /\ t.my = r.localKey
    /\ t.pc = "print_peer" => t.key = r.peerKey
    /\ t.pc \in {"import", "derive", "export"} => r.keyPair # NoKey

Prints == {"print", "print_peer"}

\* A task that waits for the lock; the key of one that handles a key is a key.
Waiting(t) == t.pc = "start" /\ (t.kind = "key" => Published(t.key))

LockOK(s) == /\ IsSeq(s)
             /\ \A t \in Elements(s) : DOMAIN t = TaskFields
             /\ s # <<>> => /\ Head(s).pc = "start" => Waiting(Head(s))
                            /\ \A t \in Elements(Tail(s)) : Waiting(t)

HandshakeOK(r) ==
    /\ LockOK(r.lock)
    /\ r.call = "keygen" \/ r.transport = "opening" => Fresh(r)
    /\ r.lock # <<>> => TaskOK(r, Head(r.lock))
    /\ r.sent \in BOOLEAN /\ r.received \in BOOLEAN
    /\ r.sent = TRUE => LocalOK(r)
    /\ r.status = "ready" /\ (r.lock = <<>> \/ Head(r.lock).pc \notin Prints) => Told(r)

(* Before its request is answered: the connection k has no seat and was    *)
(* sent nothing but failures.                                              *)
Early(r, k, R, s) == k \notin R.seats \cup R.dying /\ ~News(s) /\ Fresh(r)

\* So it is while the request is made, while the relay tries the join again,
\* and when the relay has found no session for it.
EarlyOK(r, k, R, s) ==
    k \in R.wired =>
        /\ r.call = "keygen" => /\ Early(r, k, R, s) /\ k \notin R.retries
                                /\ r.asked = "join" => ~NotFound(s)
        /\ k \in R.retries => Early(r, k, R, s)
        /\ NotFound(s) /\ r.asked = "join" => Early(r, k, R, s) /\ k \notin R.retries

HandledAs(r, k, R, s) ==
    /\ KeysKnown(s)
    /\ ~r.raced => HandshakeOK(r) /\ EarlyOK(r, k, R, s)

AllHandled(R) == \A d \in Clients : HandledAs(client[d], Socket(d), R, R.net[d])

HandInv == SeatInv /\ AllHandled(relay)

----------------------------------------------------------------------------
(* Between a client and the relay.                                         *)

LEMMA FreshOK ==
    ASSUME NEW r, Fresh(r)
    PROVE  HandshakeOK(r)
<1>1. LockOK(<<>>)
    BY Empty DEF LockOK
<1> QED BY <1>1 DEF Fresh, HandshakeOK

\* A step in which the client does not ask for anything.
LEMMA EarlyHeeds ==
    ASSUME NEW c \in Clients, NEW R, NEW Q, NEW X, Heeds(R, Q, X), Socket(c) \notin X,
           NEW r, EarlyOK(r, Socket(c), R, R.net[c]), NEW s,
           Fresh(r) => Fresh(s), s.call = "keygen" => r.call = "keygen",
           s.asked = "join" => r.asked = "join"
    PROVE  EarlyOK(s, Socket(c), Q, Q.net[c])
<1>1. SUFFICES ASSUME Socket(c) \in Q.wired
               PROVE  EarlyOK(s, Socket(c), Q, Q.net[c])
    BY DEF EarlyOK
<1>2. /\ Socket(c) \in R.wired
      /\ Socket(c) \in Q.retries => Socket(c) \in R.retries
      /\ Socket(c) \in Q.dying => Socket(c) \in R.dying \cup R.seats
      /\ Socket(c) \in Q.seats => Socket(c) \in R.seats \cup (R.retries \ Q.retries)
      /\ News(Q.net[c]) => News(R.net[c]) \/ Socket(c) \in Q.seats
      /\ NotFound(Q.net[c]) =>
            NotFound(R.net[c]) \/ Socket(c) \in R.retries \ (Q.retries \cup Q.seats)
    BY <1>1 DEF Heeds
<1>3. ASSUME s.call = "keygen"
      PROVE  /\ Early(s, Socket(c), Q, Q.net[c]) /\ Socket(c) \notin Q.retries
             /\ s.asked = "join" => ~NotFound(Q.net[c])
    BY <1>2, <1>3 DEF EarlyOK, Early
<1>4. ASSUME Socket(c) \in Q.retries
      PROVE  Early(s, Socket(c), Q, Q.net[c])
    BY <1>2, <1>4 DEF EarlyOK, Early
<1>5. ASSUME NotFound(Q.net[c]), s.asked = "join"
      PROVE  Early(s, Socket(c), Q, Q.net[c]) /\ Socket(c) \notin Q.retries
    <2>1. CASE NotFound(R.net[c])
        BY <1>2, <1>5, <2>1 DEF EarlyOK, Early
    <2>2. CASE Socket(c) \in R.retries \ (Q.retries \cup Q.seats)
        BY <1>2, <1>5, <2>2 DEF EarlyOK, Early
    <2> QED BY <1>2, <1>5, <2>1, <2>2
<1> QED BY <1>3, <1>4, <1>5 DEF EarlyOK

\* A client that has news of its session, or a handshake, is not early.
LEMMA BusyHeeds ==
    ASSUME NEW c \in Clients, NEW R, NEW Q, NEW X, Heeds(R, Q, X), Socket(c) \notin X,
           NEW r, EarlyOK(r, Socket(c), R, R.net[c]), News(R.net[c]) \/ ~Fresh(r),
           NEW s, s.call = "keygen" => r.call = "keygen",
           s.asked = "join" => r.asked = "join"
    PROVE  EarlyOK(s, Socket(c), Q, Q.net[c])
<1>1. SUFFICES ASSUME Socket(c) \in Q.wired
               PROVE  EarlyOK(s, Socket(c), Q, Q.net[c])
    BY DEF EarlyOK
<1>2. Socket(c) \in R.wired /\ (Socket(c) \in Q.retries => Socket(c) \in R.retries)
      /\ (NotFound(Q.net[c]) => NotFound(R.net[c]) \/ Socket(c) \in R.retries)
    BY <1>1 DEF Heeds
<1>3. ~Early(r, Socket(c), R, R.net[c])
    BY DEF Early
<1>4. /\ r.call # "keygen" /\ Socket(c) \notin R.retries
      /\ ~(NotFound(R.net[c]) /\ r.asked = "join")
    BY <1>2, <1>3 DEF EarlyOK
<1> QED BY <1>2, <1>4 DEF EarlyOK

LEMMA HandedOver ==
    ASSUME HandInv, SeatInv', NEW c \in Clients, NEW s, Becomes(c, s),
           s.conn = client[c].conn, Heeds(relay, relay', {Socket(c)}),
           ~s.raced => HandshakeOK(s) /\ EarlyOK(s, Socket(c), relay', relay'.net[c])
    PROVE  HandInv'
<1>1. /\ client'[c] = s /\ \A d \in Clients \ {c} : client'[d] = client[d]
    BY DEF Becomes, HandInv, SeatInv, ClientsOK
<1>2. \A d \in Clients : Socket(d)' = Socket(d)
    BY <1>1 DEF Socket
<1>3. ASSUME NEW d \in Clients
      PROVE  HandledAs(client[d], Socket(d), relay, relay.net[d])'
    <2>1. HandledAs(client[d], Socket(d), relay, relay.net[d])
        BY DEF HandInv, AllHandled
    <2>2. KeysKnown(relay'.net[d])
        BY <2>1 DEF HandledAs, Heeds
    <2>3. CASE d = c
        BY <1>1, <1>2, <2>2, <2>3 DEF HandledAs
    <2>4. CASE d # c
        <3>1. Socket(d) \notin {Socket(c)} /\ client'[d] = client[d]
            BY <1>1, <2>4, SocketIs
        <3>2. ~client[d].raced => EarlyOK(client[d], Socket(d), relay', relay'.net[d])
            BY <2>1, <3>1, EarlyHeeds DEF HandledAs
        <3>3. HandledAs(client[d], Socket(d), relay', relay'.net[d])
            BY <2>1, <2>2, <3>2 DEF HandledAs
        <3> QED BY <1>2, <3>1, <3>3
    <2> QED BY <2>3, <2>4
<1> QED BY <1>3 DEF HandInv, AllHandled

LEMMA HeedsWider ==
    ASSUME NEW R, NEW Q, NEW X, Heeds(R, Q, {})
    PROVE  Heeds(R, Q, X)
BY DEF Heeds

\* A client that does not ask, whatever its own step was.
LEMMA UnwiredKeeps ==
    ASSUME HandInv, SeatInv', NEW c \in Clients, NEW s, Becomes(c, s),
           s.conn = client[c].conn, Heeds(relay, relay', {Socket(c)}),
           Socket(c) \notin relay'.wired, ~s.raced => HandshakeOK(s)
    PROVE  HandInv'
BY HandedOver DEF EarlyOK

\* A step of a client that leaves what it knows in order.
Gentle(r, s) ==
    /\ s.conn = r.conn
    /\ ~s.raced => /\ ~r.raced
                   /\ HandshakeOK(r) => HandshakeOK(s)
                   /\ Fresh(r) => Fresh(s)
                   /\ s.call = "keygen" => r.call = "keygen"
                   /\ s.asked = "join" => r.asked = "join"

LEMMA GentleTwice ==
    ASSUME NEW r, NEW s, NEW t, Gentle(r, s), Gentle(s, t)
    PROVE  Gentle(r, t)
BY DEF Gentle

LEMMA HandedIs ==
    ASSUME HandInv, NEW c \in Clients
    PROVE  /\ SeatInv /\ KeysKnown(relay.net[c])
           /\ ~client[c].raced => /\ HandshakeOK(client[c])
                                  /\ EarlyOK(client[c], Socket(c), relay, relay.net[c])
BY DEF HandInv, AllHandled, HandledAs

LEMMA GentleKeeps ==
    ASSUME HandInv, SeatInv', NEW c \in Clients, NEW s, Becomes(c, s),
           Gentle(client[c], s), Heeds(relay, relay', {})
    PROVE  HandInv'
<1>1. ASSUME ~s.raced
      PROVE  HandshakeOK(s) /\ EarlyOK(s, Socket(c), relay', relay'.net[c])
    <2>1. /\ HandshakeOK(client[c]) /\ EarlyOK(client[c], Socket(c), relay, relay.net[c])
        BY <1>1, HandedIs DEF Gentle
    <2> QED BY <1>1, <2>1, EarlyHeeds DEF Gentle
<1> QED BY <1>1, HeedsWider, HandedOver DEF Gentle

\* A step of a client that is past the answer of its request.
LEMMA BusyKeeps ==
    ASSUME HandInv, SeatInv', NEW c \in Clients, NEW s, Becomes(c, s),
           News(relay.net[c]) \/ ~Fresh(client[c]), Heeds(relay, relay', {}),
           s.conn = client[c].conn,
           ~s.raced => /\ ~client[c].raced /\ HandshakeOK(s)
                       /\ s.call = "keygen" => client[c].call = "keygen"
                       /\ s.asked = "join" => client[c].asked = "join"
    PROVE  HandInv'
<1>1. ASSUME ~s.raced
      PROVE  EarlyOK(s, Socket(c), relay', relay'.net[c])
    <2>1. EarlyOK(client[c], Socket(c), relay, relay.net[c])
        BY <1>1, HandedIs
    <2> QED BY <1>1, <2>1, BusyHeeds
<1> QED BY <1>1, HeedsWider, HandedOver

LEMMA RelayHands ==
    ASSUME HandInv, SeatInv', UNCHANGED client, Heeds(relay, relay', {})
    PROVE  HandInv'
<1>1. \A d \in Clients : Socket(d)' = Socket(d)
    BY DEF Socket
<1>2. ASSUME NEW d \in Clients
      PROVE  HandledAs(client[d], Socket(d), relay, relay.net[d])'
    <2>1. HandledAs(client[d], Socket(d), relay, relay.net[d])
        BY DEF HandInv, AllHandled
    <2>2. KeysKnown(relay'.net[d])
        BY <2>1 DEF HandledAs, Heeds
    <2>3. ~client[d].raced => EarlyOK(client[d], Socket(d), relay', relay'.net[d])
        BY <2>1, EarlyHeeds DEF HandledAs
    <2> QED BY <1>1, <2>1, <2>2, <2>3 DEF HandledAs
<1> QED BY <1>2 DEF HandInv, AllHandled

LEMMA HungUpHeeds ==
    ASSUME NEW R, RelayOK(R), NEW c \in Clients, NEW s
    PROVE  /\ Heeds(R, HangUp(R, Socket(c)), {}) /\ Heeds(R, HangsUpIf(c, s, R), {})
           /\ RelayOK(HangUp(R, Socket(c))) /\ RelayOK(HangsUpIf(c, s, R))
           /\ Hushed(R, HangsUpIf(c, s, R))
<1>1. Hushed(R, HangUp(R, Socket(c))) /\ Hushed(R, R) /\ Heeds(R, R, {})
    BY HungUpHushed, HeedsNot
<1>2. RelayOK(HangUp(R, Socket(c)))
    BY HangUpIs
<1> QED BY <1>1, <1>2, HushedHeeds DEF HangsUpIf

\* What one field after the other makes of a client.
SameHand(r, s) ==
    /\ Shaped(s) /\ s.conn = r.conn /\ s.raced = r.raced /\ s.call = r.call
    /\ s.asked = r.asked /\ s.transport = r.transport /\ s.status = r.status
    /\ s.lock = r.lock /\ s.sent = r.sent /\ s.received = r.received /\ s.shared = r.shared
    /\ s.keyPair = r.keyPair /\ s.localKey = r.localKey /\ s.peerKey = r.peerKey
    /\ s.seen = r.seen

LEMMA SameIsGentle ==
    ASSUME NEW r, NEW s, SameHand(r, s)
    PROVE  Gentle(r, s)
<1>1. Fresh(r) => Fresh(s)
    BY DEF SameHand, Fresh
<1>2. Told(r) => Told(s)
    BY DEF SameHand, Told, Holds, LocalOK
<1>3. \A t : TaskOK(r, t) => TaskOK(s, t)
    BY DEF SameHand, TaskOK, Holds, LocalOK
<1>4. HandshakeOK(r) => HandshakeOK(s)
    BY <1>1, <1>2, <1>3 DEF SameHand, HandshakeOK, LocalOK
<1> QED BY <1>1, <1>4 DEF Gentle, SameHand

LEMMA ResetHand ==
    ASSUME NEW r, Shaped(r)
    PROVE  LET s == ResetCryptoState(r) IN
           /\ Shaped(s) /\ s.conn = r.conn /\ s.call = r.call /\ s.asked = r.asked
           /\ s.lock = r.lock /\ s.status = r.status /\ s.raced = (r.raced \/ r.lock # <<>>)
           /\ s.sent = FALSE /\ s.received = FALSE /\ s.shared = {}
BY DEF Shaped, Fields, ResetCryptoState

LEMMA DropHand ==
    ASSUME NEW r, Shaped(r)
    PROVE  LET s == Drop(r) IN
           /\ Fresh(s) /\ s.asked = r.asked /\ s.call = "idle" /\ s.conn = r.conn
           /\ s.raced = (r.raced \/ r.lock # <<>>)
<1> DEFINE q == ResetCryptoState(r)
           d == [q EXCEPT !.transport = "closed", !.named = FALSE, !.isHost = FALSE,
                          !.status = IF @ = "expired" THEN @ ELSE "disconnected"]
           s == [d EXCEPT !.dropped = TRUE, !.call = "idle", !.lock = <<>>, !.sealing = <<>>,
                          !.seen = NoPrints, !.partner = FALSE]
<1>1. /\ Shaped(q) /\ q.asked = r.asked
      /\ q.sent = FALSE /\ q.received = FALSE /\ q.shared = {}
    BY ResetHand
<1> HIDE DEF q
<1>2. /\ Shaped(d) /\ d.asked = q.asked /\ d.status # "ready"
      /\ d.sent = q.sent /\ d.received = q.received /\ d.shared = q.shared
    BY <1>1 DEF Shaped, Fields
<1> HIDE DEF d
<1>3. /\ s.asked = d.asked /\ s.lock = <<>> /\ s.status = d.status
      /\ s.sent = d.sent /\ s.received = d.received /\ s.shared = d.shared
    BY <1>2 DEF Shaped, Fields
<1>4. Drop(r) = s
    BY DEF Drop, Disconnect, d, q
<1> HIDE DEF s
<1> QED BY <1>1, <1>2, <1>3, <1>4, DropIs DEF Fresh

LEMMA DropGentle ==
    ASSUME NEW r, Shaped(r)
    PROVE  Gentle(r, Drop(r)) /\ HandshakeOK(Drop(r))
<1> DEFINE s == Drop(r)
<1>1. /\ Fresh(s) /\ s.asked = r.asked /\ s.call = "idle" /\ s.conn = r.conn
      /\ s.raced = (r.raced \/ r.lock # <<>>)
    BY DropHand
<1> HIDE DEF s
<1>2. HandshakeOK(s)
    BY <1>1, FreshOK
<1> QED BY <1>1, <1>2 DEF s, Gentle, Shaped

LEMMA IdleGentle ==
    ASSUME NEW r, Shaped(r)
    PROVE  Gentle(r, [r EXCEPT !.call = "idle"])
<1> DEFINE s == [r EXCEPT !.call = "idle"]
<1>1. /\ s.conn = r.conn /\ s.raced = r.raced /\ s.call = "idle" /\ s.asked = r.asked
      /\ s.transport = r.transport /\ s.status = r.status /\ s.lock = r.lock
      /\ s.sent = r.sent /\ s.received = r.received /\ s.shared = r.shared
      /\ s.keyPair = r.keyPair /\ s.localKey = r.localKey /\ s.peerKey = r.peerKey
      /\ s.seen = r.seen
    BY DEF Shaped, Fields
<1> HIDE DEF s
<1>2. Fresh(r) => Fresh(s)
    BY <1>1 DEF Fresh
<1>3. Told(r) => Told(s)
    BY <1>1 DEF Told, Holds, LocalOK
<1>4. \A t : TaskOK(r, t) => TaskOK(s, t)
    BY <1>1 DEF TaskOK, Holds, LocalOK
<1>5. HandshakeOK(r) => HandshakeOK(s)
    BY <1>1, <1>2, <1>3, <1>4 DEF HandshakeOK, LocalOK
<1> QED BY <1>1, <1>2, <1>5 DEF s, Gentle

LEMMA RejectedGentle ==
    ASSUME NEW r, Shaped(r), NEW code, code # "SESSION_NOT_FOUND"
    PROVE  Gentle(r, Rejected(r, code))
<1>1. CASE r.call # "request"
    BY <1>1 DEF Rejected, Gentle
<1>2. CASE r.call = "request" /\ r.opening
    BY <1>2, DropGentle DEF Rejected
<1>3. CASE r.call = "request" /\ ~r.opening
    BY <1>3, IdleGentle DEF Rejected
<1> QED BY <1>1, <1>2, <1>3

----------------------------------------------------------------------------
(* Calls of the owner, and the requests they make.                         *)

LEMMA HandsOfOpen ==
    ASSUME HandInv, SeatInv', NEW c \in Clients, Open(c)
    PROVE  HandInv'
<1> DEFINE r == client[c]
           s == [NewClient EXCEPT
                    !.status = "connecting", !.transport = "opening",
                    !.call = "dial", !.opening = TRUE,
                    !.asked = IF c = Host THEN "create" ELSE "join",
                    !.conn = r.conn, !.made = r.made, !.said = r.said, !.shown = r.shown,
                    !.displays = r.displays]
<1>1. Becomes(c, s) /\ relay' = relay /\ r.dropped
    BY DEF Open
<1>2. s.conn = r.conn /\ Fresh(s)
    <2>1. /\ DOMAIN NewClient = Fields /\ NewClient.lock = <<>> /\ NewClient.sent = FALSE
          /\ NewClient.received = FALSE /\ NewClient.shared = {}
        BY DEF NewClient, Fields
    <2>2. /\ s.conn = r.conn /\ s.status = "connecting" /\ s.lock = <<>> /\ s.sent = FALSE
          /\ s.received = FALSE /\ s.shared = {}
        BY <2>1 DEF Fields
    <2> HIDE DEF s
    <2> QED BY <2>2 DEF Fresh
<1> HIDE DEF s
<1>3. Socket(c) \notin relay.wired
    BY <1>1, HandedIs, ClientIs DEF ClientOK
<1>4. Heeds(relay, relay', {Socket(c)})
    BY <1>1, HeedsNot
<1> QED BY <1>1, <1>2, <1>3, <1>4, FreshOK, UnwiredKeeps

LEMMA HandsOfReconnect ==
    ASSUME HandInv, SeatInv', NEW c \in Clients, Reconnect(c)
    PROVE  HandInv'
<1> DEFINE r == client[c]
           q == ResetCryptoState(r)
           s == [q EXCEPT !.status = "connecting", !.transport = "opening",
                          !.call = "dial", !.opening = FALSE, !.asked = "join"]
<1>1. Becomes(c, s) /\ relay' = HangUp(relay, Socket(c))
    BY DEF Reconnect
<1>2. /\ Shaped(q) /\ q.conn = r.conn /\ q.lock = r.lock /\ q.raced = (r.raced \/ r.lock # <<>>)
      /\ q.sent = FALSE /\ q.received = FALSE /\ q.shared = {}
    BY HandedIs, ClientIs, ResetHand
<1> HIDE DEF q
<1>3. /\ s.conn = q.conn /\ s.raced = q.raced /\ s.lock = q.lock /\ s.sent = q.sent
      /\ s.received = q.received /\ s.shared = q.shared /\ s.status = "connecting"
    BY <1>2 DEF Shaped, Fields
<1> HIDE DEF s
<1>4. ~s.raced => Fresh(s)
    BY <1>2, <1>3 DEF Fresh
<1>5. RelayOK(relay)
    BY HandedIs, ClientIs DEF Fine
<1>6. Heeds(relay, relay', {Socket(c)}) /\ Socket(c) \notin relay'.wired
    BY <1>1, <1>5, HungUpHeeds, HungUpHushed, HeedsWider
<1> QED BY <1>1, <1>2, <1>3, <1>4, <1>6, FreshOK, UnwiredKeeps

LEMMA HandsOfAttempt ==
    ASSUME HandInv, SeatInv', NEW c \in Clients, AttemptFails(c)
    PROVE  HandInv'
<1> DEFINE r == client[c]
           q == ResetCryptoState(r)
           s == [q EXCEPT !.status = "disconnected"]
<1>1. Becomes(c, s) /\ relay' = Fault(relay) /\ r.call = "dial"
    BY DEF AttemptFails
<1>2. /\ Shaped(q) /\ q.conn = r.conn /\ q.lock = r.lock /\ q.raced = (r.raced \/ r.lock # <<>>)
      /\ q.sent = FALSE /\ q.received = FALSE /\ q.shared = {}
    BY HandedIs, ClientIs, ResetHand
<1> HIDE DEF q
<1>3. /\ s.conn = q.conn /\ s.raced = q.raced /\ s.lock = q.lock /\ s.sent = q.sent
      /\ s.received = q.received /\ s.shared = q.shared /\ s.status = "disconnected"
    BY <1>2 DEF Shaped, Fields
<1> HIDE DEF s
<1>4. ~s.raced => Fresh(s)
    BY <1>2, <1>3 DEF Fresh
<1>5. RelayOK(relay) /\ Socket(c) \notin relay.wired
    BY <1>1, HandedIs, ClientIs DEF Fine, ClientOK
<1>6. Heeds(relay, relay', {Socket(c)}) /\ Socket(c) \notin relay'.wired
    BY <1>1, <1>5, FaultHushed, HeedsNot, HushedHeeds DEF Hushed
<1> QED BY <1>1, <1>2, <1>3, <1>4, <1>6, FreshOK, UnwiredKeeps

LEMMA HandsOfConnectFails ==
    ASSUME HandInv, SeatInv', NEW c \in Clients, ConnectFails(c)
    PROVE  HandInv'
<1> DEFINE r == [client[c] EXCEPT !.status = "error", !.transport = "closed"]
           i == [r EXCEPT !.call = "idle"]
<1>1. /\ Becomes(c, IF r.opening THEN Drop(r) ELSE i)
      /\ relay' = Fault(relay) /\ client[c].call = "dial"
    BY DEF ConnectFails
<1>2. /\ Shaped(r) /\ r.conn = client[c].conn /\ r.raced = client[c].raced
      /\ r.status = "error" /\ r.lock = client[c].lock /\ r.sent = client[c].sent
      /\ r.received = client[c].received /\ r.shared = client[c].shared
    BY HandedIs, ClientIs DEF Shaped, Fields
<1>3. client[c].transport = "opening" /\ Socket(c) \notin relay.wired /\ RelayOK(relay)
    BY <1>1, HandedIs, ClientIs DEF Fine, ClientOK
<1> HIDE DEF r
<1>4. ~r.raced => HandshakeOK(r)
    <2>1. ~client[c].raced => Fresh(client[c])
        BY <1>3, HandedIs DEF HandshakeOK
    <2> QED BY <1>2, <2>1, FreshOK DEF Fresh
<1>5. PICK s \in {Drop(r), i} : Becomes(c, s)
    BY <1>1
<1>6. Gentle(r, s)
    BY <1>2, <1>5, DropGentle, IdleGentle
<1>7. s.conn = client[c].conn /\ (~s.raced => HandshakeOK(s))
    BY <1>2, <1>4, <1>6 DEF Gentle
<1>8. Heeds(relay, relay', {Socket(c)}) /\ Socket(c) \notin relay'.wired
    BY <1>1, <1>3, FaultHushed, HeedsNot, HushedHeeds DEF Hushed
<1> QED BY <1>5, <1>7, <1>8, UnwiredKeeps

LEMMA HandsOfConnected ==
    ASSUME HandInv, SeatInv', NEW c \in Clients, Connected(c)
    PROVE  HandInv'
<1> DEFINE r == client[c]
           s == [r EXCEPT
                    !.conn = @ + 1, !.transport = "open", !.status = "connected",
                    !.call = "keygen", !.named = TRUE,
                    !.isHost = (r.asked = "create") \/ (~r.opening /\ @)]
           k == <<c, r.conn + 1>>
           Q == [relay EXCEPT !.wired = @ \cup {k}]
<1>1. Becomes(c, s) /\ relay' = Q /\ r.call = "dial"
    BY DEF Connected
<1>2. /\ s.conn = r.conn + 1 /\ s.raced = r.raced /\ s.status = "connected" /\ s.lock = r.lock
      /\ s.sent = r.sent /\ s.received = r.received /\ s.shared = r.shared
    BY HandedIs, ClientIs DEF Shaped, Fields
<1>3. /\ Q.seats = relay.seats /\ Q.wired = relay.wired \cup {k} /\ Q.dying = relay.dying
      /\ Q.retries = relay.retries /\ Q.net = relay.net
    BY HandedIs, ClientIs DEF Fine, RelayOK, RelayShaped, RelayFields
<1> HIDE DEF s, Q
<1>4. r.transport = "opening" /\ Socket(c) \notin relay.wired /\ r.conn \in Nat
    BY <1>1, HandedIs, ClientIs DEF ClientOK, Shaped
<1>5. relay.net[c] = <<>>
    BY <1>4, HandedIs, ClientIs DEF Fine, RelayOK, LinesOK, LineOK
<1>6. /\ client'[c] = s /\ \A d \in Clients \ {c} : client'[d] = client[d]
    BY <1>1, HandedIs DEF Becomes, SeatInv, ClientsOK
<1>7. Socket(c)' = k /\ \A d \in Clients \ {c} : Socket(d)' = Socket(d) /\ Socket(d) # k
    BY <1>2, <1>6, SocketIs DEF Socket
<1>8. k \notin relay.seats \cup relay.dying \cup relay.retries
    <2>1. k \notin Past
        BY <1>4 DEF Past
    <2> QED BY <2>1, HandedIs, ClientIs DEF Fine, RelayOK
<1>9. ~s.raced => Fresh(s)
    <2>1. ~r.raced => Fresh(r)
        BY <1>4, HandedIs DEF HandshakeOK
    <2> QED BY <1>2, <2>1 DEF Fresh
<1>10. ~News(<<>>) /\ ~NotFound(<<>>) /\ KeysKnown(<<>>)
    BY Empty DEF News, NotFound, KeysKnown
<1>11. ASSUME NEW d \in Clients
       PROVE  HandledAs(client[d], Socket(d), relay, relay.net[d])'
    <2>1. CASE d = c
        <3>1. HandledAs(s, k, Q, <<>>)
            BY <1>3, <1>8, <1>9, <1>10, FreshOK DEF HandledAs, EarlyOK, Early
        <3> QED BY <1>1, <1>3, <1>5, <1>6, <1>7, <2>1, <3>1
    <2>2. CASE d # c
        <3>1. HandledAs(client[d], Socket(d), relay, relay.net[d])
            BY DEF HandInv, AllHandled
        <3>2. HandledAs(client[d], Socket(d), Q, Q.net[d])
            BY <1>3, <1>7, <2>2, <3>1 DEF HandledAs, EarlyOK, Early
        <3> QED BY <1>1, <1>6, <1>7, <2>2, <3>2
    <2> QED BY <2>1, <2>2
<1> QED BY <1>11 DEF HandInv, AllHandled

\* The key pair is made before anything of the handshake has happened.
LEMMA HandsOfRequest ==
    ASSUME HandInv, SeatInv', NEW c \in Clients, CreateSession(c) \/ JoinSession(c)
    PROVE  HandInv'
<1> DEFINE b == client[c]
           q == [b EXCEPT !.made = @ + 1, !.keyPair = <<c, b.made + 1>>]
           j == [q EXCEPT !.received = FALSE, !.sent = FALSE, !.shared = {}]
           k == Socket(c)
<1>1. /\ Shaped(q) /\ q.conn = b.conn /\ q.raced = b.raced /\ q.asked = b.asked
      /\ q.transport = b.transport /\ q.status = b.status /\ q.lock = b.lock
      /\ q.sent = b.sent /\ q.received = b.received /\ q.shared = b.shared
    BY HandedIs, ClientIs DEF Shaped, Fields
<1>2. NewKeyPair(c) = q
    BY DEF NewKeyPair
<1> HIDE DEF q
<1>3. /\ Shaped(j) /\ j.conn = q.conn /\ j.raced = q.raced /\ j.asked = q.asked
      /\ j.transport = q.transport /\ j.status = q.status /\ j.lock = q.lock
      /\ j.sent = FALSE /\ j.received = FALSE /\ j.shared = {}
    BY <1>1 DEF Shaped, Fields
<1>4. \/ b.asked = "create" /\ KeyGenerated(c, q, CreateAnswers(relay, k))
      \/ b.asked = "join" /\ KeyGenerated(c, j, JoinAnswers(relay, k))
    BY <1>2 DEF CreateSession, JoinSession
<1> HIDE DEF j
<1>5. PICK r \in {q, j}, H \in {CreateAnswers(relay, k), JoinAnswers(relay, k)} :
         /\ KeyGenerated(c, r, H)
         /\ \/ b.asked = "create" /\ H = CreateAnswers(relay, k)
            \/ b.asked = "join" /\ H = JoinAnswers(relay, k)
    BY <1>4
<1>6. /\ Shaped(r) /\ r.conn = b.conn /\ r.raced = b.raced /\ r.asked = b.asked
      /\ r.transport = b.transport
    BY <1>1, <1>3
<1>7. RelayOK(relay) /\ b.call = "keygen" /\ (k \in relay.wired => b.transport = "open")
    BY <1>5, HandedIs, ClientIs DEF Fine, KeyGenerated
<1>8. ~b.raced => Fresh(r) /\ EarlyOK(b, k, relay, relay.net[c])
    <2>1. ~b.raced => Fresh(b) /\ EarlyOK(b, k, relay, relay.net[c])
        BY <1>7, HandedIs DEF HandshakeOK
    <2> QED BY <1>1, <1>3, <2>1 DEF Fresh
<1>9. CASE r.transport = "open"
    <2> DEFINE s == [r EXCEPT !.call = "request"]
    <2>1. Becomes(c, s) /\ IF k \in relay.wired THEN relay' \in H ELSE relay' = relay
        BY <1>5, <1>9 DEF KeyGenerated
    <2>2. /\ s.conn = r.conn /\ s.raced = r.raced /\ s.asked = r.asked /\ s.call = "request"
          /\ s.status = r.status /\ s.lock = r.lock
          /\ s.sent = r.sent /\ s.received = r.received /\ s.shared = r.shared
        BY <1>6 DEF Shaped, Fields
    <2> HIDE DEF s
    <2>3. ~s.raced => Fresh(s)
        BY <1>6, <1>8, <2>2 DEF Fresh
    <2>4. CASE k \notin relay.wired
        BY <1>6, <2>1, <2>2, <2>3, <2>4, FreshOK, HeedsNot, UnwiredKeeps
    <2>5. CASE k \in relay.wired
        <3>1. /\ Heeds(relay, relay', {k})
              /\ \/ relay'.retries = relay.retries
                 \/ b.asked = "join" /\ relay' = RelayJoin(relay, k)
              /\ \/ b.asked # "join"
                 \/ relay' = RelayJoin(relay, k)
                 \/ NotFound(relay'.net[c]) => NotFound(relay.net[c])
            <4>1. relay' \in H
                BY <2>1, <2>5
            <4>2. CASE b.asked = "create" /\ relay' \in CreateAnswers(relay, k)
                <5>1. Heeds(relay, relay', {k}) /\ relay'.retries = relay.retries
                    BY <1>7, <4>2, CreateAnswered
                <5> QED BY <4>2, <5>1
            <4>3. CASE b.asked = "join" /\ relay' = RelayJoin(relay, k)
                <5>1. Heeds(relay, RelayJoin(relay, k), {k})
                    BY <1>7, JoinHeeds
                <5> QED BY <4>3, <5>1
            <4>4. CASE /\ b.asked = "join" /\ relay' \in JoinAnswers(relay, k)
                       /\ relay' # RelayJoin(relay, k)
                <5>1. /\ Heeds(relay, relay', {k}) /\ relay'.retries = relay.retries
                      /\ NotFound(relay'.net[c]) => NotFound(relay.net[c])
                    BY <1>7, <4>4, JoinAnswered
                <5> QED BY <5>1
            <4> QED BY <1>5, <4>1, <4>2, <4>3, <4>4
        <3>2. ASSUME ~s.raced
              PROVE  EarlyOK(s, k, relay', relay'.net[c])
            <4>1. /\ k \notin relay.seats \cup relay.dying \cup relay.retries
                  /\ ~News(relay.net[c]) /\ (b.asked = "join" => ~NotFound(relay.net[c]))
                BY <1>6, <1>7, <1>8, <2>2, <2>5, <3>2 DEF EarlyOK, Early
            <4>2. CASE b.asked = "join" /\ relay' = RelayJoin(relay, k)
                <5>2. /\ k \in relay'.retries \/ NotFound(relay'.net[c])
                            => k \notin relay'.seats \cup relay'.dying /\ ~News(relay'.net[c])
                      /\ NotFound(relay'.net[c]) => k \notin relay'.retries
                    BY <1>7, <4>1, <4>2, JoinHeeds
                <5> QED BY <2>2, <2>3, <3>2, <5>2 DEF EarlyOK, Early
            <4>3. CASE /\ relay'.retries = relay.retries
                       /\ b.asked # "join" \/ ~NotFound(relay'.net[c])
                BY <1>6, <2>2, <4>1, <4>3 DEF EarlyOK
            <4> QED BY <3>1, <4>1, <4>2, <4>3
        <3> QED BY <1>6, <2>1, <2>2, <2>3, <3>1, <3>2, FreshOK, HandedOver
    <2> QED BY <2>4, <2>5
<1>10. CASE r.transport # "open"
    <2>1. PICK s \in {Drop(r), [r EXCEPT !.call = "idle"]} : Becomes(c, s) /\ relay' = relay
        BY <1>5, <1>10 DEF KeyGenerated
    <2>2. Gentle(r, s)
        BY <1>6, <2>1, DropGentle, IdleGentle
    <2>3. s.conn = b.conn /\ (~s.raced => HandshakeOK(s))
        BY <1>6, <1>8, <2>2, FreshOK DEF Gentle
    <2>4. k \notin relay'.wired /\ Heeds(relay, relay', {k})
        BY <1>6, <1>7, <1>10, <2>1, HeedsNot
    <2> QED BY <2>1, <2>3, <2>4, UnwiredKeeps
<1> QED BY <1>9, <1>10

LEMMA HandsOfTimeout ==
    ASSUME HandInv, SeatInv', NEW c \in Clients, RequestTimesOut(c)
    PROVE  HandInv'
<1> DEFINE s == Rejected(client[c], "TIMEOUT")
           Q == HangsUpIf(c, s, relay)
<1>1. Becomes(c, s) /\ relay' = Fault(Q)
    BY DEF RequestTimesOut
<1>2. Gentle(client[c], s)
    BY HandedIs, ClientIs, RejectedGentle
<1>3. RelayOK(relay)
    BY HandedIs, ClientIs DEF Fine
<1> HIDE DEF s
<1>4. RelayOK(Q) /\ Heeds(relay, Q, {})
    BY <1>3, HungUpHeeds
<1> HIDE DEF Q
<1>5. Heeds(relay, relay', {})
    BY <1>1, <1>4, FaultHushed, HushedHeeds
<1> QED BY <1>1, <1>2, <1>5, GentleKeeps

LEMMA HandsOfChat ==
    ASSUME HandInv, SeatInv', NEW c \in Clients, Say(c) \/ Seals(c)
    PROVE  HandInv'
<1> DEFINE r == client[c]
           q == [r EXCEPT !.sealing = Append(@, r.shared)]
<1>1. SameHand(r, q)
    BY HandedIs, ClientIs DEF SameHand, Shaped, Fields
<1>2. RelayOK(relay)
    BY HandedIs, ClientIs DEF Fine
<1>3. CASE Say(c)
    <2>1. Becomes(c, q) /\ relay' = relay
        BY <1>3 DEF Say
    <2> HIDE DEF q
    <2> QED BY <1>1, <2>1, SameIsGentle, HeedsNot, GentleKeeps
<1>4. ASSUME NEW i, Sealed(c, i) PROVE HandInv'
    <2> DEFINE s == [r EXCEPT !.said = @ + 1, !.sealing = Without(@, i)]
               chat == Encrypt([from |-> c, n |-> r.said + 1], r.sealing[i])
               f == [type |-> "chat", chat |-> chat]
    <2>1. Becomes(c, s) /\ (relay' = relay \/ relay' \in RelaySend(relay, Socket(c), f))
        BY <1>4 DEF Sealed
    <2>2. f.type = "chat"
        OBVIOUS
    <2>3. SameHand(r, s)
        BY HandedIs, ClientIs DEF SameHand, Shaped, Fields
    <2> HIDE DEF s, f
    <2>4. Heeds(relay, relay', {})
        BY <1>2, <2>1, <2>2, HeedsNot, SendHeeds
    <2> QED BY <2>1, <2>3, <2>4, SameIsGentle, GentleKeeps
<1> QED BY <1>3, <1>4 DEF Seals

LEMMA HandsOfLeave ==
    ASSUME HandInv, SeatInv', NEW c \in Clients, LeaveSession(c)
    PROVE  HandInv'
<1> DEFINE s == Drop(client[c])
           L == RelayLeave(relay, Socket(c))
<1>1. Becomes(c, s) /\ \E R \in {L, relay} : relay' = Fault(HangUp(R, Socket(c)))
    BY DEF LeaveSession
<1>2. Gentle(client[c], s)
    BY HandedIs, ClientIs, DropGentle
<1> HIDE DEF s
<1>3. RelayOK(relay)
    BY HandedIs, ClientIs DEF Fine
<1>4. RelayOK(L) /\ Heeds(relay, L, {}) /\ Heeds(relay, relay, {})
    BY <1>3, LeaveHeeds, LeaveServes, HeedsNot DEF Served
<1> HIDE DEF L
<1>5. PICK R \in {L, relay} : relay' = Fault(HangUp(R, Socket(c)))
    BY <1>1
<1> DEFINE Q == HangUp(R, Socket(c))
<1>6. RelayOK(Q) /\ Hushed(R, Q)
    BY <1>3, <1>4, HungUpHushed, HangUpIs
<1> HIDE DEF Q
<1>7. Hushed(R, relay')
    BY <1>5, <1>6, FaultHushed, HushedTwice DEF Q
<1>8. Heeds(relay, relay', {})
    BY <1>4, <1>7, HushedHeeds
<1> QED BY <1>1, <1>2, <1>8, GentleKeeps

----------------------------------------------------------------------------
(* Frames and events of the socket.                                        *)

\* A frame that is heard, and what is left behind it.
LEMMA HeardIs ==
    ASSUME HandInv, NEW c \in Clients, NEW type, Hears(c, type)
    PROVE  /\ Shaped(client[c]) /\ RelayOK(relay) /\ Heeds(relay, Consumed(c), {})
           /\ client[c].transport = "open" /\ Socket(c) \in relay.wired
           /\ Head(relay.net[c]) \in Elements(relay.net[c]) /\ Head(relay.net[c]).type = type
           /\ type \notin Last \cup {"ERROR"} =>
                /\ News(relay.net[c])
                /\ ~client[c].raced => client[c].call # "keygen"
<1>1. relay.net[c] # <<>> /\ Head(relay.net[c]).type = type /\ client[c].transport = "open"
    BY DEF Hears
<1>2. RelayOK(relay) /\ Shaped(client[c]) /\ IsSeq(relay.net[c])
    BY HandedIs, ClientIs DEF Fine
<1>3. Socket(c) \in relay.wired
    BY <1>1, <1>2 DEF RelayOK, LinesOK, LineOK
<1>4. Head(relay.net[c]) \in Elements(relay.net[c])
    BY <1>1, <1>2, Taken
<1>5. Heeds(relay, Consumed(c), {})
    BY <1>1, <1>2, ConsumedHushed, HeedsNot, HushedHeeds
<1>6. ASSUME type \notin Last \cup {"ERROR"}
      PROVE  News(relay.net[c])
    BY <1>1, <1>4, <1>6 DEF News
<1>7. ASSUME News(relay.net[c]), ~client[c].raced
      PROVE  client[c].call # "keygen"
    BY <1>3, <1>7, HandedIs DEF EarlyOK, Early
<1> QED BY <1>1, <1>2, <1>3, <1>4, <1>5, <1>6, <1>7

LEMMA HandsOfCreated ==
    ASSUME HandInv, SeatInv', NEW c \in Clients, OnSessionCreated(c)
    PROVE  HandInv'
<1> DEFINE r == client[c]
           q == Resolved(r, {"create", "join"})
           s == [q EXCEPT !.named = TRUE, !.isHost = TRUE, !.status = "awaiting_partner"]
<1>1. Becomes(c, s) /\ Hears(c, "SESSION_CREATED") /\ relay' = Consumed(c)
    BY DEF OnSessionCreated
<1>2. /\ Shaped(r) /\ Heeds(relay, relay', {}) /\ News(relay.net[c])
      /\ r.transport = "open" /\ (~r.raced => r.call # "keygen")
    BY <1>1, HeardIs DEF Last
<1>3. /\ Shaped(q) /\ q.conn = r.conn /\ q.raced = r.raced /\ q.asked = r.asked
      /\ q.call \in {r.call, "idle"}
      /\ q.transport = r.transport /\ q.lock = r.lock
      /\ q.sent = r.sent /\ q.received = r.received /\ q.shared = r.shared
      /\ q.keyPair = r.keyPair /\ q.localKey = r.localKey /\ q.peerKey = r.peerKey
    BY <1>2 DEF Resolved, Shaped, Fields
<1> HIDE DEF q
<1>4. /\ s.conn = q.conn /\ s.raced = q.raced /\ s.asked = q.asked /\ s.call = q.call
      /\ s.transport = q.transport /\ s.lock = q.lock /\ s.status = "awaiting_partner"
      /\ s.sent = q.sent /\ s.received = q.received /\ s.shared = q.shared
      /\ s.keyPair = q.keyPair /\ s.localKey = q.localKey /\ s.peerKey = q.peerKey
    BY <1>3 DEF Shaped, Fields
<1> HIDE DEF s
<1>5. ASSUME ~s.raced
      PROVE  HandshakeOK(s)
    <2>1. HandshakeOK(r) /\ r.call # "keygen"
        BY <1>2, <1>3, <1>4, <1>5, HandedIs
    <2>2. \A t : TaskOK(r, t) => TaskOK(s, t)
        BY <1>3, <1>4 DEF TaskOK, Holds, LocalOK
    <2> QED BY <1>2, <1>3, <1>4, <2>1, <2>2 DEF HandshakeOK, LocalOK
<1>6. s.call = "keygen" => r.call = "keygen"
    BY <1>3, <1>4
<1> QED BY <1>1, <1>2, <1>3, <1>4, <1>5, <1>6, BusyKeeps

\* A task of the lock has the fields of one, whatever it is about.
LEMMA TaskIs ==
    ASSUME NEW kind, NEW key, NEW chats
    PROVE  LET t == Task(kind, key, chats) IN
           DOMAIN t = TaskFields /\ t.kind = kind /\ t.pc = "start" /\ t.key = key
BY DEF Task, TaskFields

\* One more task waits: nothing is known or forgotten by it.
LEMMA QueuedHand ==
    ASSUME NEW r, Shaped(r), NEW t, DOMAIN t = TaskFields, t.pc = "start", Waiting(t),
           r.call # "keygen", r.transport = "open", HandshakeOK(r)
    PROVE  HandshakeOK(WithHandshakeLock(r, t))
<1> DEFINE s == WithHandshakeLock(r, t)
<1>1. /\ s.lock = Append(r.lock, t) /\ s.call = r.call /\ s.transport = r.transport
      /\ s.status = r.status
      /\ s.sent = r.sent /\ s.received = r.received /\ s.shared = r.shared
      /\ s.keyPair = r.keyPair /\ s.localKey = r.localKey /\ s.peerKey = r.peerKey
      /\ s.seen = r.seen
    BY DEF WithHandshakeLock, Shaped, Fields
<1> HIDE DEF s
<1> DEFINE l == r.lock
           a == Append(l, t)
<1>2. LockOK(l)
    BY DEF HandshakeOK
<1>3. /\ IsSeq(a) /\ Elements(a) = Elements(l) \cup {t}
      /\ Len(a) = Len(l) + 1 /\ Len(l) \in Nat
      /\ \A i \in 1..Len(l) : a[i] = l[i]
      /\ a[Len(l) + 1] = t
    BY <1>2, Appended DEF LockOK
<1>4. a # <<>> /\ Len(a) # 0
    <2>1. Len(a) # 0
        BY <1>3
    <2>2. Len(<<>>) = 0
        OBVIOUS
    <2> HIDE DEF a
    <2> QED BY <2>1, <2>2
<1>5. /\ Head(a) = a[1] /\ Len(Tail(a)) = Len(a) - 1
      /\ \A i \in 1..Len(Tail(a)) : Tail(a)[i] = a[i + 1]
    BY <1>3, <1>4, Taken
<1> HIDE DEF a, l
<1>6. CASE l = <<>>
    <2>1. Len(l) = 0
        BY <1>6
    <2>2. Head(a) = t /\ Elements(Tail(a)) = {}
        <3>1. Len(a) = 1 /\ a[1] = t /\ Len(Tail(a)) = 0
            BY <1>3, <1>5, <2>1
        <3> QED BY <1>5, <3>1 DEF Elements
    <2>3. Elements(l) = {}
        BY <1>6, Empty
    <2>4. LockOK(a)
        BY <1>3, <2>2, <2>3 DEF LockOK
    <2>5. \A x : TaskOK(x, t)
        BY DEF TaskOK
    <2>6. Told(r) => Told(s)
        BY <1>1 DEF Told, Holds, LocalOK
    <2> QED BY <1>1, <1>6, <2>2, <2>4, <2>5, <2>6 DEF s, a, l, HandshakeOK, LocalOK
<1>7. CASE l # <<>>
    <2>1. /\ Head(l) = l[1] /\ Len(Tail(l)) = Len(l) - 1 /\ Len(l) >= 1
          /\ \A i \in 1..Len(Tail(l)) : Tail(l)[i] = l[i + 1]
        BY <1>2, <1>7, Taken DEF LockOK
    <2>2. Head(a) = Head(l)
        BY <1>3, <1>5, <2>1
    <2>3. ASSUME NEW x \in Elements(Tail(a)) PROVE x \in Elements(Tail(l)) \/ x = t
        <3>1. PICK i \in 1..Len(Tail(a)) : x = a[i + 1]
            BY <1>5, <2>3 DEF Elements
        <3>2. CASE i = Len(l)
            BY <1>3, <3>1, <3>2
        <3>3. CASE i < Len(l)
            <4>1. i \in 1..Len(Tail(l)) /\ x = Tail(l)[i]
                BY <1>3, <1>5, <2>1, <3>1, <3>3
            <4> QED BY <4>1 DEF Elements
        <3> QED BY <1>3, <1>5, <3>1, <3>2, <3>3
    <2>4. LockOK(a)
        BY <1>2, <1>3, <1>7, <2>2, <2>3 DEF LockOK
    <2>5. TaskOK(r, Head(l)) => TaskOK(s, Head(l))
        BY <1>1 DEF TaskOK, Holds, LocalOK
    <2>6. Told(r) => Told(s)
        BY <1>1 DEF Told, Holds, LocalOK
    <2> QED BY <1>1, <1>4, <1>7, <2>2, <2>4, <2>5, <2>6 DEF s, a, l, HandshakeOK, LocalOK
<1> QED BY <1>6, <1>7

LEMMA HandsOfJoined ==
    ASSUME HandInv, SeatInv', NEW c \in Clients, OnPartnerJoined(c)
    PROVE  HandInv'
<1> DEFINE r == client[c]
           t == Task("send", NoKey, <<>>)
           q == Resolved(r, {"join"})
           p == [q EXCEPT !.status = "handshaking", !.partner = TRUE]
           s == WithHandshakeLock(p, t)
<1>1. Becomes(c, s) /\ Hears(c, "PARTNER_JOINED") /\ relay' = Consumed(c)
    BY DEF OnPartnerJoined
<1>2. /\ Shaped(r) /\ Heeds(relay, relay', {}) /\ News(relay.net[c])
      /\ r.transport = "open" /\ (~r.raced => r.call # "keygen")
    BY <1>1, HeardIs DEF Last
<1>3. /\ Shaped(q) /\ q.conn = r.conn /\ q.raced = r.raced /\ q.asked = r.asked
      /\ q.call \in {r.call, "idle"}
      /\ q.transport = r.transport /\ q.lock = r.lock
      /\ q.sent = r.sent /\ q.received = r.received /\ q.shared = r.shared
      /\ q.keyPair = r.keyPair /\ q.localKey = r.localKey /\ q.peerKey = r.peerKey
    BY <1>2 DEF Resolved, Shaped, Fields
<1> HIDE DEF q
<1>4. /\ Shaped(p) /\ p.conn = q.conn /\ p.raced = q.raced /\ p.asked = q.asked
      /\ p.call = q.call
      /\ p.transport = q.transport /\ p.lock = q.lock /\ p.status = "handshaking"
      /\ p.sent = q.sent /\ p.received = q.received /\ p.shared = q.shared
      /\ p.keyPair = q.keyPair /\ p.localKey = q.localKey /\ p.peerKey = q.peerKey
    BY <1>3 DEF Shaped, Fields
<1> HIDE DEF p
<1>5. s.conn = p.conn /\ s.raced = p.raced /\ s.asked = p.asked /\ s.call = p.call
    BY <1>4 DEF WithHandshakeLock, Shaped, Fields
<1>6. ASSUME ~s.raced
      PROVE  HandshakeOK(s)
    <2>1. HandshakeOK(r) /\ r.call # "keygen"
        BY <1>2, <1>3, <1>4, <1>5, <1>6, HandedIs
    <2>2. \A x : TaskOK(r, x) => TaskOK(p, x)
        BY <1>3, <1>4 DEF TaskOK, Holds, LocalOK
    <2>3. HandshakeOK(p) /\ p.call # "keygen" /\ p.transport = "open"
        BY <1>2, <1>3, <1>4, <2>1, <2>2 DEF HandshakeOK, LocalOK
    <2>4. DOMAIN t = TaskFields /\ t.pc = "start" /\ Waiting(t)
        BY TaskIs DEF Waiting
    <2> HIDE DEF t
    <2> QED BY <1>4, <2>3, <2>4, QueuedHand
<1> HIDE DEF s
<1>7. s.call = "keygen" => r.call = "keygen"
    BY <1>3, <1>4, <1>5
<1> QED BY <1>1, <1>2, <1>3, <1>4, <1>5, <1>6, <1>7, BusyKeeps

\* The key of a frame is a key that some client has published.
LEMMA HandsOfQueued ==
    ASSUME HandInv, SeatInv', NEW c \in Clients, OnPublicKey(c) \/ OnChat(c)
    PROVE  HandInv'
<1> DEFINE r == client[c]
           f == Head(relay.net[c])
<1>1. PICK type \in {"key", "chat"}, t \in
          {Task("key", f.key, <<>>), Task("chat", NoKey, <<f.chat>>)} :
          /\ Hears(c, type) /\ Becomes(c, WithHandshakeLock(r, t)) /\ relay' = Consumed(c)
          /\ t.kind = "key" => type = "key" /\ t.key = f.key
    BY TaskIs DEF OnPublicKey, OnChat
<1> DEFINE s == WithHandshakeLock(r, t)
<1>2. /\ Shaped(r) /\ Heeds(relay, relay', {}) /\ News(relay.net[c])
      /\ r.transport = "open" /\ (~r.raced => r.call # "keygen")
      /\ f \in Elements(relay.net[c]) /\ f.type = type
    BY <1>1, HeardIs DEF Last
<1>3. DOMAIN t = TaskFields /\ t.pc = "start" /\ Waiting(t)
    <2>1. t.kind = "key" => Published(t.key)
        BY <1>1, <1>2, HandedIs DEF KeysKnown
    <2> QED BY <1>1, <2>1, TaskIs DEF Waiting
<1>4. s.conn = r.conn /\ s.raced = r.raced /\ s.asked = r.asked /\ s.call = r.call
    BY <1>2 DEF WithHandshakeLock, Shaped, Fields
<1>5. ~s.raced => HandshakeOK(s)
    BY <1>2, <1>3, <1>4, HandedIs, QueuedHand
<1> HIDE DEF s
<1> QED BY <1>1, <1>2, <1>4, <1>5, BusyKeeps DEF s

LEMMA HandsOfLeft ==
    ASSUME HandInv, SeatInv', NEW c \in Clients, OnPartnerLeft(c)
    PROVE  HandInv'
<1> DEFINE r == client[c]
           s == [r EXCEPT
                    !.shared = {}, !.received = FALSE, !.sent = FALSE, !.queue = <<>>,
                    !.partner = FALSE, !.status = "awaiting_partner",
                    !.raced = @ \/ r.lock # <<>>]
<1>1. Becomes(c, s) /\ Hears(c, "PARTNER_LEFT") /\ relay' = Consumed(c)
    BY DEF OnPartnerLeft
<1>2. /\ Shaped(r) /\ Heeds(relay, relay', {}) /\ News(relay.net[c])
    BY <1>1, HeardIs DEF Last
<1>3. /\ s.conn = r.conn /\ s.raced = (r.raced \/ r.lock # <<>>) /\ s.asked = r.asked
      /\ s.call = r.call /\ s.lock = r.lock /\ s.status = "awaiting_partner"
      /\ s.sent = FALSE /\ s.received = FALSE /\ s.shared = {}
    BY <1>2 DEF Shaped, Fields
<1> HIDE DEF s
<1>4. ~s.raced => ~r.raced /\ HandshakeOK(s)
    BY <1>2, <1>3, FreshOK DEF Fresh, Shaped
<1> QED BY <1>1, <1>2, <1>3, <1>4, BusyKeeps

LEMMA HandsOfExpired ==
    ASSUME HandInv, SeatInv', NEW c \in Clients, OnSessionExpired(c)
    PROVE  HandInv'
<1> DEFINE r == client[c]
           q == ResetCryptoState(r)
           s == [q EXCEPT !.status = "expired"]
<1>1. Becomes(c, s) /\ Hears(c, "SESSION_EXPIRED") /\ relay' = Consumed(c)
    BY DEF OnSessionExpired
<1>2. Shaped(r) /\ Heeds(relay, relay', {})
    BY <1>1, HeardIs
<1>3. /\ Shaped(q) /\ q.conn = r.conn /\ q.lock = r.lock /\ q.raced = (r.raced \/ r.lock # <<>>)
      /\ q.sent = FALSE /\ q.received = FALSE /\ q.shared = {}
      /\ q.asked = r.asked /\ q.call = r.call
    BY <1>2, ResetHand
<1> HIDE DEF q
<1>4. /\ s.conn = q.conn /\ s.raced = q.raced /\ s.lock = q.lock /\ s.sent = q.sent
      /\ s.received = q.received /\ s.shared = q.shared /\ s.status = "expired"
      /\ s.asked = q.asked /\ s.call = q.call
    BY <1>3 DEF Shaped, Fields
<1> HIDE DEF s
<1>5. ~s.raced => ~r.raced /\ Fresh(s)
    BY <1>2, <1>3, <1>4 DEF Fresh, Shaped
<1>6. Gentle(r, s)
    BY <1>3, <1>4, <1>5, FreshOK DEF Gentle
<1> QED BY <1>1, <1>2, <1>6, GentleKeeps

\* The relay has no such session: a host makes it anew over this connection,
\* which has not been told of anything else.
LEMMA CreatedAnew ==
    ASSUME HandInv, SeatInv', NEW c \in Clients, Hears(c, "ERROR"),
           IsNotFound(Head(relay.net[c])), relay' = Consumed(c), client[c].asked = "join",
           NEW e, SameHand(client[c], e),
           Becomes(c, [e EXCEPT !.call = "keygen", !.asked = "create"])
    PROVE  HandInv'
<1> DEFINE r == client[c]
           s == [e EXCEPT !.call = "keygen", !.asked = "create"]
<1>1. /\ Shaped(r) /\ RelayOK(relay) /\ Heeds(relay, relay', {})
      /\ Socket(c) \in relay.wired /\ Head(relay.net[c]) \in Elements(relay.net[c])
    BY HeardIs
<1>2. /\ s.conn = r.conn /\ s.raced = r.raced /\ s.call = "keygen" /\ s.asked = "create"
      /\ s.status = r.status /\ s.lock = r.lock
      /\ s.sent = r.sent /\ s.received = r.received /\ s.shared = r.shared
    BY DEF SameHand, Shaped, Fields
<1> HIDE DEF s
<1>3. ASSUME ~s.raced
      PROVE  HandshakeOK(s) /\ EarlyOK(s, Socket(c), relay', relay'.net[c])
    <2>1. EarlyOK(r, Socket(c), relay, relay.net[c]) /\ NotFound(relay.net[c])
        BY <1>1, <1>2, <1>3, HandedIs DEF NotFound
    <2>2. Early(r, Socket(c), relay, relay.net[c]) /\ Socket(c) \notin relay.retries
        BY <1>1, <2>1 DEF EarlyOK
    <2>3. relay.net[c] # <<>>
        BY DEF Hears
    <2>4. Hushed(relay, relay')
        BY <1>1, <2>3, ConsumedHushed
    <2>5. News(relay'.net[c]) => News(relay.net[c])
        BY <2>4 DEF Hushed, News
    <2>6. Fresh(s)
        BY <1>2, <2>2 DEF Early, Fresh
    <2>7. EarlyOK(s, Socket(c), relay', relay'.net[c])
        BY <1>2, <2>2, <2>4, <2>5, <2>6 DEF Hushed, Early, EarlyOK
    <2> QED BY <2>6, <2>7, FreshOK
<1> QED BY <1>1, <1>2, <1>3, HeedsWider, HandedOver DEF s

LEMMA HandsOfError ==
    ASSUME HandInv, SeatInv', NEW c \in Clients, OnError(c)
    PROVE  HandInv'
<1> DEFINE f == Head(relay.net[c])
           b == client[c]
           e == [b EXCEPT !.status = StatusAfter(f.code, @)]
           s == Rejected(e, f.code)
<1>1. /\ Hears(c, "ERROR") /\ Becomes(c, s) /\ relay' = HangsUpIf(c, s, Consumed(c))
    BY DEF OnError
<1>2. /\ Shaped(b) /\ RelayOK(relay) /\ Heeds(relay, Consumed(c), {}) /\ f.type = "ERROR"
    BY <1>1, HeardIs
<1>3. /\ Shaped(e) /\ e.conn = b.conn /\ e.raced = b.raced /\ e.call = b.call
      /\ e.asked = b.asked /\ e.transport = b.transport /\ e.status \in {b.status, "error", "expired"}
      /\ e.lock = b.lock /\ e.sent = b.sent /\ e.received = b.received /\ e.shared = b.shared
      /\ e.keyPair = b.keyPair /\ e.localKey = b.localKey /\ e.peerKey = b.peerKey
      /\ e.seen = b.seen /\ e.dropped = b.dropped
      /\ f.code = "SESSION_NOT_FOUND" => e.status = b.status
    BY <1>2 DEF Shaped, Fields, StatusAfter
<1> HIDE DEF e
<1>4. Gentle(b, e)
    <2>1. Fresh(b) => Fresh(e)
        BY <1>3 DEF Fresh
    <2>2. \A t : TaskOK(b, t) => TaskOK(e, t)
        BY <1>3 DEF TaskOK, Holds, LocalOK
    <2>3. Told(b) => Told(e)
        BY <1>3 DEF Told, Holds, LocalOK
    <2>4. HandshakeOK(b) => HandshakeOK(e)
        BY <1>3, <2>1, <2>2, <2>3 DEF HandshakeOK, LocalOK
    <2> QED BY <1>3, <2>1, <2>4 DEF Gentle
<1>6. RelayOK(Consumed(c))
    <2>1. relay.net[c] # <<>> /\ f.type # "close"
        BY <1>1, <1>2 DEF Hears
    <2> QED BY <1>2, <2>1, ConsumedIs
<1>7. Heeds(relay, relay', {})
    <2>1. Hushed(Consumed(c), relay')
        BY <1>1, <1>6, HungUpHeeds
    <2> QED BY <1>2, <2>1, HushedHeeds
<1>8. CASE Gentle(e, s)
    <2>1. Gentle(b, s)
        BY <1>4, <1>8, GentleTwice
    <2> HIDE DEF s
    <2> QED BY <1>1, <1>7, <2>1, GentleKeeps
<1>9. CASE f.code # "SESSION_NOT_FOUND"
    BY <1>3, <1>8, <1>9, RejectedGentle
<1>10. CASE f.code = "SESSION_NOT_FOUND"
    <2>1. s \in {e, Drop(e), [e EXCEPT !.call = "keygen", !.asked = "create"],
                 [e EXCEPT !.call = "idle"]}
        BY <1>10 DEF Rejected
    <2>2. CASE s \in {e, Drop(e), [e EXCEPT !.call = "idle"]}
        <3>1. Gentle(e, e) /\ Gentle(e, Drop(e)) /\ Gentle(e, [e EXCEPT !.call = "idle"])
            BY <1>3, DropGentle, IdleGentle DEF Gentle
        <3> QED BY <1>8, <2>2, <3>1
    <2>3. CASE s = [e EXCEPT !.call = "keygen", !.asked = "create"]
               /\ s \notin {e, Drop(e), [e EXCEPT !.call = "idle"]}
        <3>1. e.asked = "join"
            BY <1>10, <2>3 DEF Rejected
        <3>2. s.dropped = e.dropped
            BY <1>3, <2>3 DEF Shaped, Fields
        <3>3. b.dropped = FALSE
            <4>1. ClientOK(b) /\ b.transport = "open"
                BY <1>1, HandedIs, ClientIs DEF Hears
            <4> QED BY <4>1 DEF ClientOK, Shaped
        <3>4. relay' = Consumed(c)
            BY <1>1, <1>3, <3>2, <3>3 DEF HangsUpIf
        <3>5. IsNotFound(f)
            BY <1>2, <1>10 DEF IsNotFound
        <3>6. SameHand(b, e)
            BY <1>3, <1>10 DEF SameHand
        <3> QED BY <1>1, <1>3, <2>3, <3>1, <3>4, <3>5, <3>6, CreatedAnew
    <2> QED BY <2>1, <2>2, <2>3
<1> QED BY <1>9, <1>10

LEMMA HandsOfSocket ==
    ASSUME HandInv, SeatInv', NEW c \in Clients, WireBreaks(c) \/ RelayHangsUp(c)
    PROVE  HandInv'
<1> DEFINE Q == HangUp(relay, Socket(c))
<1>1. relay' \in {Q, Fault(Q)} /\ UNCHANGED client
    BY DEF WireBreaks, RelayHangsUp
<1>2. RelayOK(relay)
    BY HandedIs, ClientIs DEF Fine
<1>3. RelayOK(Q) /\ Heeds(relay, Q, {})
    BY <1>2, HungUpHeeds
<1> HIDE DEF Q
<1> QED BY <1>1, <1>3, FaultHushed, HushedHeeds, RelayHands

LEMMA HandsOfClosing ==
    ASSUME HandInv, SeatInv', NEW c \in Clients, SocketClosing(c) \/ PingFails(c)
    PROVE  HandInv'
<1> DEFINE r == client[c]
<1>1. PICK s \in {[r EXCEPT !.transport = "closing"],
                  [r EXCEPT !.transport = "closed", !.deaf = TRUE]} : Becomes(c, s)
    BY DEF SocketClosing, PingFails
<1>2. /\ s.conn = r.conn /\ s.raced = r.raced /\ s.call = r.call
      /\ s.asked = r.asked /\ s.transport \in {"closing", "closed"} /\ s.status = r.status
      /\ s.lock = r.lock /\ s.sent = r.sent /\ s.received = r.received
      /\ s.shared = r.shared /\ s.keyPair = r.keyPair /\ s.localKey = r.localKey
      /\ s.peerKey = r.peerKey /\ s.seen = r.seen
    BY <1>1, HandedIs, ClientIs DEF Shaped, Fields
<1>3. Heeds(relay, relay', {})
    BY HeedsNot DEF SocketClosing, PingFails
<1>4. Gentle(r, s)
    <2>1. Fresh(r) => Fresh(s)
        BY <1>2 DEF Fresh
    <2>2. \A t : TaskOK(r, t) => TaskOK(s, t)
        BY <1>2 DEF TaskOK, Holds, LocalOK
    <2>3. Told(r) => Told(s)
        BY <1>2 DEF Told, Holds, LocalOK
    <2>4. HandshakeOK(r) => HandshakeOK(s)
        BY <1>2, <2>1, <2>2, <2>3 DEF HandshakeOK, LocalOK
    <2> QED BY <1>2, <2>1, <2>4 DEF Gentle
<1> QED BY <1>1, <1>3, <1>4, GentleKeeps

LEMMA HandsOfClosed ==
    ASSUME HandInv, SeatInv', NEW c \in Clients, OnTransportClose(c)
    PROVE  HandInv'
<1> DEFINE r == client[c]
           q == [r EXCEPT !.transport = "closed"]
           p == ResetCryptoState(q)
           s == [p EXCEPT !.status = "disconnected"]
<1>1. /\ Becomes(c, IF q.status = "expired" THEN q ELSE s)
      /\ relay' = relay
    BY DEF OnTransportClose
<1>2. /\ Shaped(q) /\ q.conn = r.conn /\ q.raced = r.raced /\ q.call = r.call
      /\ q.asked = r.asked /\ q.transport = "closed" /\ q.status = r.status
      /\ q.lock = r.lock /\ q.sent = r.sent /\ q.received = r.received
      /\ q.shared = r.shared /\ q.keyPair = r.keyPair /\ q.localKey = r.localKey
      /\ q.peerKey = r.peerKey /\ q.seen = r.seen
    BY HandedIs, ClientIs DEF Shaped, Fields
<1> HIDE DEF q
<1>3. Gentle(r, q)
    <2>1. Fresh(r) => Fresh(q)
        BY <1>2 DEF Fresh
    <2>2. \A t : TaskOK(r, t) => TaskOK(q, t)
        BY <1>2 DEF TaskOK, Holds, LocalOK
    <2>3. Told(r) => Told(q)
        BY <1>2 DEF Told, Holds, LocalOK
    <2>4. HandshakeOK(r) => HandshakeOK(q)
        BY <1>2, <2>1, <2>2, <2>3 DEF HandshakeOK, LocalOK
    <2> QED BY <1>2, <2>1, <2>4 DEF Gentle
<1>4. /\ Shaped(p) /\ p.conn = q.conn /\ p.lock = q.lock /\ p.raced = (q.raced \/ q.lock # <<>>)
      /\ p.sent = FALSE /\ p.received = FALSE /\ p.shared = {}
      /\ p.asked = q.asked /\ p.call = q.call
    BY <1>2, ResetHand
<1> HIDE DEF p
<1>5. /\ s.conn = p.conn /\ s.raced = p.raced /\ s.lock = p.lock /\ s.sent = p.sent
      /\ s.received = p.received /\ s.shared = p.shared /\ s.status = "disconnected"
      /\ s.asked = p.asked /\ s.call = p.call
    BY <1>4 DEF Shaped, Fields
<1> HIDE DEF s
<1>6. ~s.raced => ~r.raced /\ Fresh(s)
    BY <1>2, <1>4, <1>5 DEF Fresh, Shaped
<1>7. Gentle(r, s)
    BY <1>2, <1>4, <1>5, <1>6, FreshOK DEF Gentle
<1>8. Heeds(relay, relay', {})
    BY <1>1, HeedsNot
<1>9. CASE q.status = "expired"
    BY <1>1, <1>3, <1>8, <1>9, GentleKeeps
<1>10. CASE q.status # "expired"
    BY <1>1, <1>7, <1>8, <1>10, GentleKeeps
<1> QED BY <1>9, <1>10

----------------------------------------------------------------------------
(* The tasks of the handshake lock.                                        *)

\* The next task in the place of the one that runs.
LEMMA Replaced ==
    ASSUME NEW s, IsSeq(s), s # <<>>, NEW t
    PROVE  LET a == <<t>> \o Tail(s) IN
           /\ IsSeq(a) /\ a # <<>> /\ Head(a) = t
           /\ Elements(Tail(a)) = Elements(Tail(s))
           /\ Elements(a) = {t} \cup Elements(Tail(s))
<1>1. PICK T : s \in Seq(T)
    BY DEF IsSeq
<1> DEFINE S == T \cup {t}
           l == Tail(s)
           h == <<t>>
           a == h \o l
<1>2. l \in Seq(S) /\ h \in Seq(S) /\ Len(h) = 1 /\ h[1] = t
    <2>1. l \in Seq(T)
        BY <1>1
    <2> QED BY <2>1
<1>3. Len(l) \in Nat /\ Len(h) = 1
    BY <1>2
<1> HIDE DEF l, h, S
<1>4. /\ a \in Seq(S) /\ Len(a) = Len(h) + Len(l)
      /\ \A i \in 1..Len(h) + Len(l) : a[i] = IF i <= Len(h) THEN h[i] ELSE l[i - Len(h)]
    BY <1>2, ConcatProperties
<1>5. /\ Len(a) = 1 + Len(l) /\ a[1] = t
      /\ \A i \in 1..Len(l) : a[i + 1] = l[i]
    BY <1>2, <1>3, <1>4
<1>6. Len(<<>>) = 0
    OBVIOUS
<1>7. IsSeq(a)
    BY <1>4 DEF IsSeq
<1> HIDE DEF a
<1>8. a # <<>>
    BY <1>3, <1>5, <1>6
<1>9. /\ Head(a) = t /\ Len(Tail(a)) = Len(l)
      /\ \A i \in 1..Len(l) : Tail(a)[i] = l[i]
    BY <1>3, <1>5, <1>7, <1>8, Taken
<1>10. Elements(Tail(a)) = Elements(l)
    BY <1>9 DEF Elements
<1>11. Elements(a) = {t} \cup Elements(l)
    <2>1. ASSUME NEW i \in 1..Len(a) PROVE a[i] \in {t} \cup Elements(l)
        <3>1. CASE i = 1
            BY <1>5, <3>1
        <3>2. CASE i # 1
            <4>1. i - 1 \in 1..Len(l) /\ a[(i - 1) + 1] = l[i - 1] /\ (i - 1) + 1 = i
                BY <1>3, <1>5, <2>1, <3>2
            <4> QED BY <4>1 DEF Elements
        <3> QED BY <3>1, <3>2
    <2>2. 1 \in 1..Len(a) /\ \A i \in 1..Len(l) : i + 1 \in 1..Len(a)
        BY <1>3, <1>5
    <2>3. {t} \cup Elements(l) \subseteq Elements(a)
        BY <1>5, <2>2 DEF Elements
    <2> QED BY <2>1, <2>3 DEF Elements
<1> QED BY <1>7, <1>8, <1>9, <1>10, <1>11 DEF a, l, h

\* The client while a task of its lock runs, but for what the task waits for.
Between(r) ==
    /\ Shaped(r) /\ IsSeq(r.lock) /\ r.lock # <<>>
    /\ \A t \in Elements(r.lock) : DOMAIN t = TaskFields
    /\ \A t \in Elements(Tail(r.lock)) : Waiting(t)
    /\ r.call # "keygen" /\ r.transport # "opening"
    /\ r.sent \in BOOLEAN /\ r.received \in BOOLEAN
    /\ r.sent = TRUE => LocalOK(r)

\* Nothing is lost between the handshake and the lock.
SameButLock(r, s) ==
    /\ Shaped(s) /\ s.conn = r.conn /\ s.raced = r.raced /\ s.call = r.call
    /\ s.asked = r.asked /\ s.transport = r.transport /\ s.status = r.status
    /\ s.sent = r.sent /\ s.received = r.received /\ s.shared = r.shared
    /\ s.keyPair = r.keyPair /\ s.localKey = r.localKey /\ s.peerKey = r.peerKey
    /\ s.seen = r.seen

LEMMA LockHand ==
    ASSUME NEW r, Shaped(r), NEW l
    PROVE  LET s == [r EXCEPT !.lock = l] IN SameButLock(r, s) /\ s.lock = l
BY DEF SameButLock, Shaped, Fields

LEMMA ToldStill ==
    ASSUME NEW r, NEW s, SameButLock(r, s)
    PROVE  /\ Told(r) => Told(s)
           /\ LocalOK(r) => LocalOK(s)
           /\ \A t : TaskOK(r, t) => TaskOK(s, t)
BY DEF SameButLock, Told, Holds, LocalOK, TaskOK

LEMMA FinishedHand ==
    ASSUME NEW r, Between(r), r.status = "ready" => Told(r)
    PROVE  SameButLock(r, Finished(r)) /\ HandshakeOK(Finished(r))
<1> DEFINE s == Finished(r)
           l == Tail(r.lock)
<1>1. SameButLock(r, s) /\ s.lock = l
    BY LockHand DEF Finished, Between
<1> HIDE DEF s
<1>2. /\ IsSeq(l) /\ Elements(l) \subseteq Elements(r.lock)
    BY Taken DEF Between
<1>3. ASSUME l # <<>>
      PROVE  /\ Head(l) \in Elements(l) /\ Elements(Tail(l)) \subseteq Elements(l)
    BY <1>2, <1>3, Taken
<1>4. LockOK(l)
    BY <1>2, <1>3 DEF Between, LockOK
<1>5. l # <<>> => TaskOK(s, Head(l))
    BY <1>3 DEF Between, Waiting, TaskOK
<1>6. Told(r) => Told(s)
    BY <1>1, ToldStill
<1>7. s.sent = TRUE => LocalOK(s)
    BY <1>1, ToldStill DEF Between, SameButLock
<1> HIDE DEF l
<1>8. HandshakeOK(s)
    BY <1>1, <1>4, <1>5, <1>6, <1>7 DEF HandshakeOK, SameButLock, Between
<1> QED BY <1>1, <1>8 DEF s

LEMMA AtHand ==
    ASSUME NEW r, Between(r), NEW t, DOMAIN t = TaskFields, t.pc # "start", TaskOK(r, t),
           r.status = "ready" => Told(r) \/ t.pc \in Prints
    PROVE  SameButLock(r, At(r, t)) /\ HandshakeOK(At(r, t))
<1> DEFINE s == At(r, t)
           l == <<t>> \o Tail(r.lock)
<1>1. SameButLock(r, s) /\ s.lock = l
    BY LockHand DEF At, Between
<1> HIDE DEF s
<1>2. /\ IsSeq(l) /\ l # <<>> /\ Head(l) = t /\ Elements(Tail(l)) = Elements(Tail(r.lock))
      /\ Elements(l) = {t} \cup Elements(Tail(r.lock))
    BY Replaced DEF Between
<1> HIDE DEF l
<1>3. Elements(Tail(r.lock)) \subseteq Elements(r.lock)
    BY Taken DEF Between
<1>4. LockOK(l)
    BY <1>2, <1>3 DEF Between, LockOK
<1>5. TaskOK(s, Head(l))
    BY <1>1, <1>2, ToldStill
<1>6. Told(r) => Told(s)
    BY <1>1, ToldStill
<1>7. s.sent = TRUE => LocalOK(s)
    BY <1>1, ToldStill DEF Between, SameButLock
<1>8. HandshakeOK(s)
    BY <1>1, <1>2, <1>4, <1>5, <1>6, <1>7 DEF HandshakeOK, SameButLock, Between
<1> QED BY <1>1, <1>8 DEF s

LEMMA SameButTwice ==
    ASSUME NEW r, NEW s, NEW t, SameButLock(r, s), SameButLock(s, t)
    PROVE  SameButLock(r, t)
BY DEF SameButLock

\* Fields that the handshake does not read.
LEMMA OtherFields ==
    ASSUME NEW r, Between(r), NEW v, NEW w
    PROVE  \A s \in {[r EXCEPT !.queue = v], [r EXCEPT !.shown = v, !.displays = w]} :
              SameButLock(r, s) /\ Between(s)
<1>1. ASSUME NEW s \in {[r EXCEPT !.queue = v], [r EXCEPT !.shown = v, !.displays = w]}
      PROVE  SameButLock(r, s) /\ Between(s)
    <2>1. SameButLock(r, s) /\ s.lock = r.lock
        BY <1>1 DEF Between, SameButLock, Shaped, Fields
    <2>2. LocalOK(r) => LocalOK(s)
        BY <2>1, ToldStill
    <2> QED BY <2>1, <2>2 DEF Between, SameButLock
<1> QED BY <1>1

LEMMA DecryptHand ==
    ASSUME NEW r, Between(r), r.status = "ready" => Told(r),
           NEW t, DOMAIN t = TaskFields, NEW chats
    PROVE  LET s == DecryptNext(r, t, chats) IN SameButLock(r, s) /\ HandshakeOK(s)
<1> DEFINE q == [r EXCEPT !.queue = @ \o chats]
           u == [t EXCEPT !.pc = "decrypt", !.chats = chats, !.secret = r.shared]
           s == DecryptNext(r, t, chats)
<1>1. DOMAIN u = TaskFields /\ u.pc = "decrypt"
    BY DEF TaskFields
<1>2. s \in {Finished(r), Finished(q), At(r, u)}
    BY DEF DecryptNext
<1>3. SameButLock(r, q) /\ Between(q)
    BY OtherFields
<1> HIDE DEF q, u, s
<1>4. SameButLock(r, Finished(r)) /\ HandshakeOK(Finished(r))
    BY FinishedHand
<1>5. SameButLock(r, Finished(q)) /\ HandshakeOK(Finished(q))
    <2>1. q.status = "ready" => Told(q)
        BY <1>3, ToldStill DEF SameButLock
    <2> QED BY <1>3, <2>1, FinishedHand, SameButTwice
<1>6. SameButLock(r, At(r, u)) /\ HandshakeOK(At(r, u))
    <2>1. TaskOK(r, u)
        BY <1>1 DEF TaskOK
    <2> QED BY <1>1, <2>1, AtHand
<1> QED BY <1>2, <1>4, <1>5, <1>6 DEF s

LEMMA FlushHand ==
    ASSUME NEW r, Between(r), r.status = "ready" => Told(r), NEW t, DOMAIN t = TaskFields
    PROVE  LET s == FlushInboundQueue(r, t) IN SameButLock(r, s) /\ HandshakeOK(s)
<1> DEFINE q == [r EXCEPT !.queue = <<>>]
           s == FlushInboundQueue(r, t)
<1>1. SameButLock(r, q) /\ Between(q)
    BY OtherFields
<1>2. s = DecryptNext(q, t, r.queue)
    BY DEF FlushInboundQueue
<1> HIDE DEF q, s
<1>3. q.status = "ready" => Told(q)
    BY <1>1, ToldStill DEF SameButLock
<1>4. SameButLock(q, s) /\ HandshakeOK(s)
    BY <1>1, <1>2, <1>3, DecryptHand
<1> QED BY <1>1, <1>4, SameButTwice DEF s

\* Ready, the client holds the secret and is about to print both keys.
LEMMA ReadyHand ==
    ASSUME NEW r, Between(r), Holds(r), LocalOK(r), NEW t, DOMAIN t = TaskFields
    PROVE  LET s == BecomeReady(r, t) IN
           /\ HandshakeOK(s) /\ s.conn = r.conn /\ s.raced = r.raced /\ s.call = r.call
           /\ s.asked = r.asked
<1> DEFINE q == [r EXCEPT !.status = "ready"]
           u == [t EXCEPT !.pc = "print", !.my = r.localKey]
<1>1. r.localKey # NoKey /\ r.peerKey # NoKey
    BY SpkiIs DEF Holds, LocalOK
<1>2. BecomeReady(r, t) = At(q, u)
    BY <1>1 DEF BecomeReady
<1>3. /\ Shaped(q) /\ q.conn = r.conn /\ q.raced = r.raced /\ q.call = r.call
      /\ q.asked = r.asked /\ q.transport = r.transport /\ q.lock = r.lock
      /\ q.sent = r.sent /\ q.received = r.received /\ q.shared = r.shared
      /\ q.keyPair = r.keyPair /\ q.localKey = r.localKey /\ q.peerKey = r.peerKey
    BY DEF Between, Shaped, Fields
<1>4. DOMAIN u = TaskFields /\ u.pc = "print" /\ u.my = r.localKey
    BY DEF TaskFields
<1> HIDE DEF q, u
<1>5. Between(q)
    BY <1>3 DEF Between, LocalOK
<1>6. TaskOK(q, u)
    BY <1>3, <1>4 DEF TaskOK, Holds, LocalOK
<1>7. SameButLock(q, At(q, u)) /\ HandshakeOK(At(q, u))
    BY <1>4, <1>5, <1>6, AtHand DEF Prints
<1> QED BY <1>2, <1>3, <1>7 DEF SameButLock

LEMMA RunningIs ==
    ASSUME HandInv, NEW c \in Clients, client[c].lock # <<>>, ~client[c].raced
    PROVE  /\ Between(client[c]) /\ DOMAIN Running(c) = TaskFields
           /\ TaskOK(client[c], Running(c))
           /\ Running(c).pc = "start" => Waiting(Running(c))
           /\ client[c].status = "ready" => Told(client[c]) \/ Running(c).pc \in Prints
<1>1. HandshakeOK(client[c]) /\ Shaped(client[c])
    BY HandedIs, ClientIs
<1>2. IsSeq(client[c].lock)
    BY <1>1 DEF HandshakeOK, LockOK
<1>3. Running(c) \in Elements(client[c].lock)
    BY <1>2, Taken DEF Running
<1> QED BY <1>1, <1>3 DEF HandshakeOK, LockOK, Between, Fresh, Running

\* A step of a task, after which its request may have failed.
LEMMA TaskHands ==
    ASSUME HandInv, SeatInv', NEW c \in Clients, client[c].lock # <<>>,
           NEW q, TaskStep(client[c], q),
           ~client[c].raced => HandshakeOK(q) /\ q.asked = client[c].asked,
           NEW s, Becomes(c, s), Gentle(q, s), Heeds(relay, relay', {})
    PROVE  HandInv'
<1>1. ~Fresh(client[c])
    BY DEF Fresh
<1>2. q.conn = client[c].conn /\ q.raced = client[c].raced /\ q.call = client[c].call
    BY DEF TaskStep, SameCore
<1>3. ~s.raced => /\ ~client[c].raced /\ HandshakeOK(s)
                  /\ s.call = "keygen" => client[c].call = "keygen"
                  /\ s.asked = "join" => client[c].asked = "join"
    BY <1>2 DEF Gentle
<1> QED BY <1>1, <1>2, <1>3, BusyKeeps DEF Gentle

LEMMA GentleNot ==
    ASSUME NEW r
    PROVE  Gentle(r, r)
BY DEF Gentle

LEMMA HandsOfStart ==
    ASSUME HandInv, SeatInv', NEW c \in Clients, StartTask(c)
    PROVE  HandInv'
<1> DEFINE r == client[c]
           t == Running(c)
           p == [r EXCEPT !.peerKey = t.key]
           e == [t EXCEPT !.pc = "export", !.my = r.keyPair]
           i == [t EXCEPT !.pc = "import"]
<1>1. r.lock # <<>> /\ relay' = relay /\ t.pc = "start"
    BY DEF StartTask
<1>2. Shaped(r) /\ TaskStep(r, p) /\ Heeds(relay, relay', {})
    BY <1>1, HandedIs, ClientIs, FieldsStep, HeedsNot
<1>3. ASSUME ~r.raced
      PROVE  /\ Between(r) /\ DOMAIN t = TaskFields /\ Waiting(t)
             /\ r.status = "ready" => Told(r)
    BY <1>1, <1>3, RunningIs DEF Prints
<1>4. CASE t.kind = "send" /\ ~(r.keyPair = NoKey \/ r.sent)
    <2>1. Becomes(c, At(r, e))
        BY <1>4 DEF StartTask
    <2>2. TaskStep(r, At(r, e))
        BY <1>2, FinishedStep
    <2>3. ASSUME ~r.raced PROVE HandshakeOK(At(r, e)) /\ At(r, e).asked = r.asked
        <3>1. /\ DOMAIN e = TaskFields /\ e.pc = "export" /\ e.my = r.keyPair /\ e.kind = "send"
            BY <1>3, <1>4, <2>3 DEF TaskFields
        <3> HIDE DEF e
        <3>2. TaskOK(r, e)
            BY <1>4, <3>1 DEF TaskOK
        <3> QED BY <1>3, <2>3, <3>1, <3>2, AtHand DEF SameButLock
    <2> QED BY <1>1, <1>2, <2>1, <2>2, <2>3, GentleNot, TaskHands
<1>5. CASE t.kind = "key" /\ ~(r.keyPair = NoKey \/ r.received)
    <2>1. Becomes(c, At(p, i))
        BY <1>5 DEF StartTask
    <2>2. TaskStep(r, At(p, i))
        BY <1>2, StaysShaped, FinishedStep, TaskTwice
    <2>3. ASSUME ~r.raced PROVE HandshakeOK(At(p, i)) /\ At(p, i).asked = r.asked
        <3>1. /\ DOMAIN i = TaskFields /\ i.pc = "import" /\ i.key = t.key
            BY <1>3, <2>3 DEF TaskFields
        <3>2. Published(t.key)
            BY <1>3, <1>5, <2>3 DEF Waiting
        <3>3. r.status # "ready"
            BY <1>3, <1>5, <2>3 DEF Told, Holds
        <3>4. /\ Shaped(p) /\ p.call = r.call /\ p.transport = r.transport
              /\ p.asked = r.asked /\ p.status = r.status /\ p.lock = r.lock
              /\ p.sent = r.sent /\ p.received = r.received
              /\ p.keyPair = r.keyPair /\ p.localKey = r.localKey /\ p.peerKey = t.key
            BY <1>2 DEF Shaped, Fields
        <3> HIDE DEF i, p
        <3>5. Between(p)
            BY <1>3, <2>3, <3>4 DEF Between, LocalOK
        <3>6. TaskOK(p, i)
            BY <1>5, <3>1, <3>2, <3>3, <3>4 DEF TaskOK
        <3>7. SameButLock(p, At(p, i)) /\ HandshakeOK(At(p, i))
            BY <3>1, <3>3, <3>4, <3>5, <3>6, AtHand
        <3> QED BY <3>4, <3>7 DEF SameButLock
    <2> HIDE DEF p, i
    <2> QED BY <1>1, <1>2, <2>1, <2>2, <2>3, GentleNot, TaskHands
<1>6. CASE ~(t.kind = "send" /\ ~(r.keyPair = NoKey \/ r.sent))
           /\ ~(t.kind = "key" /\ ~(r.keyPair = NoKey \/ r.received))
    <2>1. PICK s \in {Finished(r), FlushInboundQueue(r, t), DecryptNext(r, t, t.chats)} :
             Becomes(c, s)
        BY <1>6 DEF StartTask
    <2>2. TaskStep(r, s)
        BY <1>2, <2>1, FinishedStep, FlushStep, DecryptStep
    <2>3. ASSUME ~r.raced PROVE SameButLock(r, s) /\ HandshakeOK(s)
        BY <1>3, <2>1, <2>3, FinishedHand, FlushHand, DecryptHand
    <2> QED BY <1>1, <1>2, <2>1, <2>2, <2>3, GentleNot, TaskHands DEF SameButLock
<1> QED BY <1>4, <1>5, <1>6

LEMMA HandsOfExport ==
    ASSUME HandInv, SeatInv', NEW c \in Clients, KeyExported(c)
    PROVE  HandInv'
<1> DEFINE b == client[c]
           t == Running(c)
           key == ExportPublicKey(Provider[c], t.my)
           f == [type |-> "key", key |-> key]
           r == [b EXCEPT !.localKey = key]
           s == [r EXCEPT !.sent = TRUE]
<1>1. b.lock # <<>> /\ t.pc = "export"
    BY DEF KeyExported, Awaits
<1>2. /\ r.transport = "open" =>
            /\ Becomes(c, IF t.kind = "send" THEN Finished(s) ELSE BecomeReady(s, t))
            /\ relay' \in RelaySend(relay, Socket(c), f)
      /\ r.transport # "open" =>
            /\ Becomes(c, IF t.kind = "send" THEN Finished(r) ELSE HandshakeFailed(r))
            /\ relay' = relay
    BY DEF KeyExported
<1>3. key = Spki(t.my)
    BY Exported
<1>4. Heeds(relay, relay', {})
    <2>1. RelayOK(relay)
        BY HandedIs, ClientIs DEF Fine
    <2>2. f.type = "key" /\ Published(f.key)
        BY <1>3 DEF Published
    <2> HIDE DEF f
    <2> QED BY <1>2, <2>1, <2>2, SendHeeds, HeedsNot
<1> HIDE DEF key
<1>5. Shaped(b) /\ TaskStep(b, r)
    BY HandedIs, ClientIs, FieldsStep
<1>6. /\ Shaped(r) /\ r.call = b.call /\ r.transport = b.transport
      /\ r.asked = b.asked /\ r.status = b.status /\ r.lock = b.lock
      /\ r.sent = b.sent /\ r.received = b.received /\ r.shared = b.shared
      /\ r.keyPair = b.keyPair /\ r.localKey = key /\ r.peerKey = b.peerKey
      /\ r.seen = b.seen
    BY <1>5 DEF Shaped, Fields
<1> HIDE DEF r
<1>7. TaskStep(r, s)
    BY <1>6, FieldsStep
<1>8. /\ Shaped(s) /\ s.call = r.call /\ s.transport = r.transport
      /\ s.asked = r.asked /\ s.status = r.status /\ s.lock = r.lock
      /\ s.sent = TRUE /\ s.received = r.received /\ s.shared = r.shared
      /\ s.keyPair = r.keyPair /\ s.localKey = r.localKey /\ s.peerKey = r.peerKey
      /\ s.seen = r.seen
    BY <1>6 DEF Shaped, Fields
<1> HIDE DEF s
<1>9. TaskStep(b, s)
    BY <1>5, <1>7, TaskTwice
<1>10. ASSUME ~b.raced
       PROVE  /\ DOMAIN t = TaskFields /\ Between(r) /\ Between(s)
              /\ LocalOK(s) /\ (t.kind # "send" => r.status # "ready" /\ Holds(s))
              /\ r.status = "ready" => Told(r) /\ Told(s)
    <2>1. /\ Between(b) /\ DOMAIN t = TaskFields /\ TaskOK(b, t)
          /\ b.status = "ready" => Told(b)
        BY <1>1, <1>10, RunningIs DEF Prints
    <2>2. t.my = b.keyPair /\ (t.kind # "send" => b.status # "ready" /\ Holds(b))
        BY <1>1, <2>1 DEF TaskOK
    <2>3. LocalOK(r) /\ LocalOK(s)
        BY <1>3, <1>6, <1>8, <2>2 DEF LocalOK
    <2>4. Between(r) /\ Between(s)
        BY <1>6, <1>8, <2>1, <2>3 DEF Between
    <2>5. Holds(b) => Holds(r) /\ Holds(s)
        BY <1>6, <1>8 DEF Holds
    <2>6. Told(b) => r.localKey = b.localKey
        BY <1>3, <1>6, <2>2 DEF Told, LocalOK
    <2>7. Told(b) => Told(r) /\ Told(s)
        BY <1>6, <1>8, <2>3, <2>5, <2>6 DEF Told
    <2> QED BY <1>6, <2>1, <2>2, <2>3, <2>4, <2>5, <2>7
<1>11. CASE r.transport = "open" /\ t.kind = "send"
    <2>1. Becomes(c, Finished(s)) /\ TaskStep(b, Finished(s))
        BY <1>2, <1>8, <1>9, <1>11, FinishedStep, TaskTwice
    <2>2. ~b.raced => HandshakeOK(Finished(s)) /\ Finished(s).asked = b.asked
        BY <1>6, <1>8, <1>10, FinishedHand DEF SameButLock
    <2> QED BY <1>1, <1>4, <2>1, <2>2, GentleNot, TaskHands
<1>12. CASE r.transport = "open" /\ t.kind # "send"
    <2>1. Becomes(c, BecomeReady(s, t)) /\ TaskStep(b, BecomeReady(s, t))
        BY <1>2, <1>8, <1>9, <1>12, ReadyStep, TaskTwice
    <2>2. ~b.raced => HandshakeOK(BecomeReady(s, t)) /\ BecomeReady(s, t).asked = b.asked
        BY <1>6, <1>8, <1>10, <1>12, ReadyHand
    <2> QED BY <1>1, <1>4, <2>1, <2>2, GentleNot, TaskHands
<1>13. CASE r.transport # "open"
    <2> DEFINE q == Finished(r)
    <2>1. PICK p \in {q, HandshakeFailed(r)} : Becomes(c, p)
        BY <1>2, <1>13
    <2>2. TaskStep(b, q) /\ Shaped(q)
        BY <1>5, <1>6, FinishedStep, TaskTwice, StaysShaped
    <2>3. ~b.raced => HandshakeOK(q) /\ q.asked = b.asked
        BY <1>6, <1>10, FinishedHand DEF SameButLock
    <2>4. Gentle(q, p)
        BY <2>1, <2>2, GentleNot, RejectedGentle DEF HandshakeFailed
    <2> QED BY <1>1, <1>4, <2>1, <2>2, <2>3, <2>4, TaskHands
<1> QED BY <1>11, <1>12, <1>13

\* A handler that goes on, or that fails and takes the request with it.
LEMMA HandsOfAwait ==
    ASSUME HandInv, SeatInv', NEW c \in Clients, client[c].lock # <<>>,
           NEW t, NEW s, s \in {HandshakeFailed(client[c]), At(client[c], t)},
           Becomes(c, s), relay' = HangsUpIf(c, s, relay),
           ~client[c].raced => /\ DOMAIN t = TaskFields /\ t.pc # "start"
                               /\ TaskOK(client[c], t)
                               /\ client[c].status = "ready" => t.pc \in Prints
                               /\ s = At(client[c], t)
    PROVE  HandInv'
<1> DEFINE r == client[c]
<1>1. Shaped(r) /\ Heeds(relay, relay', {})
    <2>1. RelayOK(relay)
        BY HandedIs, ClientIs DEF Fine
    <2> QED BY <2>1, HandedIs, ClientIs, HungUpHeeds
<1>2. PICK q \in {Finished(r), At(r, t)} : Gentle(q, s) /\ (~r.raced => q = At(r, t))
    <2>1. CASE s = At(r, t)
        BY <2>1, GentleNot
    <2>2. CASE s = HandshakeFailed(r) /\ s # At(r, t)
        <3>1. Shaped(Finished(r))
            BY <1>1, FinishedStep, StaysShaped
        <3> QED BY <2>2, <3>1, RejectedGentle DEF HandshakeFailed
    <2> QED BY <2>1, <2>2
<1>3. TaskStep(r, q)
    BY <1>1, <1>2, FinishedStep
<1>4. ~r.raced => HandshakeOK(q) /\ q.asked = r.asked
    BY <1>2, RunningIs, AtHand DEF SameButLock
<1> QED BY <1>1, <1>2, <1>3, <1>4, TaskHands

LEMMA HandsOfImport ==
    ASSUME HandInv, SeatInv', NEW c \in Clients, KeyImported(c)
    PROVE  HandInv'
<1> DEFINE r == client[c]
           key == ImportPublicKey(Provider[c], Running(c).key)
           u == [Running(c) EXCEPT !.pc = "derive", !.my = r.keyPair, !.key = key]
           s == IF key = Failed \/ r.keyPair = NoKey THEN HandshakeFailed(r) ELSE At(r, u)
<1>1. /\ r.lock # <<>> /\ Running(c).pc = "import"
      /\ Becomes(c, s) /\ relay' = HangsUpIf(c, s, relay)
    BY DEF KeyImported, Awaits
<1>2. ASSUME ~r.raced
      PROVE  /\ DOMAIN u = TaskFields /\ u.pc = "derive" /\ TaskOK(r, u)
             /\ r.status # "ready" /\ s = At(r, u)
    <2>1. DOMAIN Running(c) = TaskFields /\ TaskOK(r, Running(c))
        BY <1>1, <1>2, RunningIs
    <2>2. /\ Running(c).key = r.peerKey /\ r.status # "ready" /\ Published(r.peerKey)
          /\ r.keyPair # NoKey
        BY <1>1, <2>1 DEF TaskOK
    <2>3. PICK q : r.peerKey = Spki(q)
        BY <2>2 DEF Published
    <2>4. key = CryptoKey(Raw(q)) /\ key # Failed
        BY <2>2, <2>3, Imported
    <2> HIDE DEF key
    <2>5. DOMAIN u = TaskFields /\ u.pc = "derive" /\ u.my = r.keyPair /\ u.key = key
        BY <2>1 DEF TaskFields
    <2> HIDE DEF u
    <2>6. TaskOK(r, u)
        BY <2>2, <2>3, <2>4, <2>5 DEF TaskOK
    <2> QED BY <2>2, <2>4, <2>5, <2>6
<1>3. s \in {HandshakeFailed(r), At(r, u)}
    OBVIOUS
<1> HIDE DEF s, u
<1> QED BY <1>1, <1>2, <1>3, HandsOfAwait

LEMMA HandsOfPrint ==
    ASSUME HandInv, SeatInv', NEW c \in Clients, LocalPrinted(c)
    PROVE  HandInv'
<1> DEFINE r == client[c]
           u == [Running(c) EXCEPT !.pc = "print_peer", !.key = r.peerKey]
           s == IF r.peerKey = NoKey /\ Provider[c] = "native" THEN HandshakeFailed(r)
                ELSE At(r, u)
<1>1. /\ r.lock # <<>> /\ Running(c).pc = "print"
      /\ Becomes(c, s) /\ relay' = HangsUpIf(c, s, relay)
    BY DEF LocalPrinted, Awaits
<1>2. ASSUME ~r.raced
      PROVE  /\ DOMAIN u = TaskFields /\ u.pc = "print_peer" /\ TaskOK(r, u)
             /\ s = At(r, u)
    <2>1. DOMAIN Running(c) = TaskFields /\ TaskOK(r, Running(c))
        BY <1>1, <1>2, RunningIs
    <2>2. Holds(r) /\ LocalOK(r) /\ Running(c).my = r.localKey
        BY <1>1, <2>1 DEF TaskOK
    <2>3. r.peerKey # NoKey
        BY <2>2, SpkiIs DEF Holds
    <2>4. /\ DOMAIN u = TaskFields /\ u.pc = "print_peer" /\ u.my = r.localKey
          /\ u.key = r.peerKey
        BY <2>1, <2>2 DEF TaskFields
    <2> HIDE DEF u
    <2>5. TaskOK(r, u)
        BY <2>2, <2>4 DEF TaskOK
    <2> QED BY <2>3, <2>4, <2>5
<1>3. s \in {HandshakeFailed(r), At(r, u)}
    OBVIOUS
<1> HIDE DEF s, u
<1> QED BY <1>1, <1>2, <1>3, HandsOfAwait DEF Prints

LEMMA HandsOfDerive ==
    ASSUME HandInv, SeatInv', NEW c \in Clients, SecretDerived(c)
    PROVE  HandInv'
<1> DEFINE b == client[c]
           t == Running(c)
           secret == DeriveSharedSecret(Provider[c], t.my, t.key)
           r == [b EXCEPT !.received = TRUE, !.shared = secret]
           u == [t EXCEPT !.pc = "export", !.my = r.keyPair]
<1>1. /\ b.lock # <<>> /\ t.pc = "derive" /\ relay' = relay
      /\ Becomes(c, IF r.sent \/ r.keyPair = NoKey THEN BecomeReady(r, t) ELSE At(r, u))
    BY DEF SecretDerived, Awaits
<1>2. Shaped(b) /\ TaskStep(b, r) /\ Heeds(relay, relay', {})
    BY <1>1, HandedIs, ClientIs, FieldsStep, HeedsNot
<1>3. /\ Shaped(r) /\ r.call = b.call /\ r.transport = b.transport
      /\ r.asked = b.asked /\ r.status = b.status /\ r.lock = b.lock
      /\ r.sent = b.sent /\ r.received = TRUE /\ r.shared = secret
      /\ r.keyPair = b.keyPair /\ r.localKey = b.localKey /\ r.peerKey = b.peerKey
    <2> HIDE DEF secret
    <2> QED BY <1>2 DEF Shaped, Fields
<1>4. ASSUME ~b.raced
      PROVE  /\ DOMAIN t = TaskFields /\ Between(r) /\ Holds(r) /\ r.status # "ready"
             /\ r.keyPair # NoKey
    <2>1. Between(b) /\ DOMAIN t = TaskFields /\ TaskOK(b, t)
        BY <1>1, <1>4, RunningIs
    <2>2. /\ t.my = b.keyPair /\ b.status # "ready" /\ b.keyPair # NoKey
          /\ \E q : b.peerKey = Spki(q) /\ t.key = CryptoKey(Raw(q))
        BY <1>1, <2>1 DEF TaskOK
    <2>3. Holds(r)
        BY <1>3, <2>2, Derived DEF Holds
    <2> HIDE DEF r
    <2>4. Between(r)
        BY <1>3, <2>1 DEF Between, LocalOK
    <2> QED BY <1>3, <2>1, <2>2, <2>3, <2>4
<1> HIDE DEF r
<1>5. CASE r.sent \/ r.keyPair = NoKey
    <2>1. Becomes(c, BecomeReady(r, t)) /\ TaskStep(b, BecomeReady(r, t))
        BY <1>1, <1>2, <1>3, <1>5, ReadyStep, TaskTwice
    <2>2. ASSUME ~b.raced
          PROVE  HandshakeOK(BecomeReady(r, t)) /\ BecomeReady(r, t).asked = b.asked
        <3>1. LocalOK(r)
            BY <1>4, <1>5, <2>2 DEF Between
        <3> QED BY <1>3, <1>4, <2>2, <3>1, ReadyHand
    <2> QED BY <1>1, <1>2, <2>1, <2>2, GentleNot, TaskHands
<1>6. CASE ~(r.sent \/ r.keyPair = NoKey)
    <2>1. Becomes(c, At(r, u)) /\ TaskStep(b, At(r, u))
        BY <1>1, <1>2, <1>3, <1>6, FinishedStep, TaskTwice
    <2>2. ASSUME ~b.raced
          PROVE  HandshakeOK(At(r, u)) /\ At(r, u).asked = b.asked
        <3>1. DOMAIN u = TaskFields /\ u.pc = "export" /\ u.my = r.keyPair
            BY <1>4, <2>2 DEF TaskFields
        <3> HIDE DEF u
        <3>2. TaskOK(r, u)
            BY <1>4, <2>2, <3>1 DEF TaskOK
        <3>3. SameButLock(r, At(r, u)) /\ HandshakeOK(At(r, u))
            BY <1>4, <2>2, <3>1, <3>2, AtHand
        <3> QED BY <1>3, <3>3 DEF SameButLock
    <2> HIDE DEF u
    <2> QED BY <1>1, <1>2, <2>1, <2>2, GentleNot, TaskHands
<1> QED BY <1>5, <1>6

LEMMA HandsOfPrints ==
    ASSUME HandInv, SeatInv', NEW c \in Clients, FingerprintsMade(c)
    PROVE  HandInv'
<1> DEFINE b == client[c]
           t == Running(c)
           prints == <<GenerateFingerprint(t.my), GenerateFingerprint(t.key)>>
           r == [b EXCEPT !.seen = prints]
           s == FlushInboundQueue(r, t)
<1>1. b.lock # <<>> /\ t.pc = "print_peer" /\ relay' = relay /\ Becomes(c, s)
    BY DEF FingerprintsMade, Awaits
<1>2. Shaped(b) /\ TaskStep(b, r) /\ Heeds(relay, relay', {})
    BY <1>1, HandedIs, ClientIs, FieldsStep, HeedsNot
<1>3. /\ Shaped(r) /\ r.call = b.call /\ r.transport = b.transport
      /\ r.asked = b.asked /\ r.status = b.status /\ r.lock = b.lock
      /\ r.sent = b.sent /\ r.received = b.received /\ r.shared = b.shared
      /\ r.keyPair = b.keyPair /\ r.localKey = b.localKey /\ r.peerKey = b.peerKey
      /\ r.seen = prints
    <2> HIDE DEF prints
    <2> QED BY <1>2 DEF Shaped, Fields
<1> HIDE DEF r
<1>4. TaskStep(b, s)
    BY <1>2, <1>3, FlushStep, TaskTwice
<1>5. ASSUME ~b.raced
      PROVE  HandshakeOK(s) /\ s.asked = b.asked
    <2>1. Between(b) /\ DOMAIN t = TaskFields /\ TaskOK(b, t)
        BY <1>1, <1>5, RunningIs
    <2>2. Holds(b) /\ LocalOK(b) /\ t.my = b.localKey /\ t.key = b.peerKey
        BY <1>1, <2>1 DEF TaskOK
    <2>3. Told(r)
        BY <1>3, <2>2 DEF Told, Holds, LocalOK
    <2>4. Between(r)
        BY <1>3, <2>1 DEF Between, LocalOK
    <2>5. SameButLock(r, s) /\ HandshakeOK(s)
        BY <2>1, <2>3, <2>4, FlushHand
    <2> QED BY <1>3, <2>5 DEF SameButLock
<1> HIDE DEF s
<1> QED BY <1>1, <1>2, <1>4, <1>5, GentleNot, TaskHands

LEMMA HandsOfDecrypt ==
    ASSUME HandInv, SeatInv', NEW c \in Clients, ChatDecrypted(c)
    PROVE  HandInv'
<1> DEFINE r == client[c]
           t == Running(c)
           chat == Head(t.chats)
           q == [r EXCEPT !.shown = Decrypt(chat).n, !.displays = @ + 1]
           rest == Tail(t.chats)
           s == IF Decrypts(chat, t.secret) THEN DecryptNext(q, t, rest)
                ELSE Rejected(DecryptNext(r, t, rest), "DECRYPT_FAILED")
<1>1. /\ r.lock # <<>> /\ t.pc = "decrypt" /\ Becomes(c, s)
      /\ relay' = HangsUpIf(c, s, relay)
    BY DEF ChatDecrypted, Awaits
<1>2. Shaped(r) /\ TaskStep(r, q) /\ Heeds(relay, relay', {})
    <2>1. RelayOK(relay)
        BY HandedIs, ClientIs DEF Fine
    <2> QED BY <1>1, <2>1, HandedIs, ClientIs, FieldsStep, HungUpHeeds
<1>3. ASSUME ~r.raced
      PROVE  /\ Between(r) /\ DOMAIN t = TaskFields /\ (r.status = "ready" => Told(r))
             /\ SameButLock(r, q) /\ Between(q)
    <2>1. Between(r) /\ DOMAIN t = TaskFields /\ (r.status = "ready" => Told(r))
        BY <1>1, <1>3, RunningIs DEF Prints
    <2> QED BY <2>1, OtherFields
<1> HIDE DEF q, chat, rest
<1>4. PICK p \in {DecryptNext(q, t, rest), DecryptNext(r, t, rest)} : Gentle(p, s)
    <2>1. Shaped(DecryptNext(r, t, rest))
        BY <1>2, DecryptStep, StaysShaped
    <2> QED BY <2>1, GentleNot, RejectedGentle
<1> HIDE DEF s
<1>5. TaskStep(r, p)
    BY <1>2, <1>4, DecryptStep, StaysShaped, TaskTwice
<1>6. ASSUME ~r.raced
      PROVE  HandshakeOK(p) /\ p.asked = r.asked
    <2>1. q.status = "ready" => Told(q)
        BY <1>3, <1>6, ToldStill DEF SameButLock
    <2>2. /\ SameButLock(r, DecryptNext(r, t, rest)) /\ HandshakeOK(DecryptNext(r, t, rest))
          /\ SameButLock(q, DecryptNext(q, t, rest)) /\ HandshakeOK(DecryptNext(q, t, rest))
        BY <1>3, <1>6, <2>1, DecryptHand
    <2> QED BY <1>3, <1>4, <1>6, <2>2 DEF SameButLock
<1> QED BY <1>1, <1>2, <1>4, <1>5, <1>6, TaskHands

----------------------------------------------------------------------------
(* The specification, and what it says of one client.                      *)

LEMMA HandInit == Init => HandInv
<1> SUFFICES ASSUME Init PROVE HandInv
    OBVIOUS
<1> DEFINE r == [NewClient EXCEPT !.dropped = TRUE]
<1>1. r.lock = <<>> /\ r.sent = FALSE /\ r.received = FALSE /\ r.shared = {}
      /\ r.status = "disconnected"
    BY DEF NewClient
<1>2. client = [c \in Clients |-> r] /\ relay.wired = {}
      /\ relay.net = [c \in Clients |-> <<>>]
    BY DEF Init, RelayInit
<1> HIDE DEF r
<1>3. HandshakeOK(r)
    BY <1>1, FreshOK DEF Fresh
<1>4. KeysKnown(<<>>)
    BY Empty DEF KeysKnown
<1>5. AllHandled(relay)
    BY <1>2, <1>3, <1>4 DEF AllHandled, HandledAs, EarlyOK
<1> QED BY <1>5, SeatInit DEF HandInv

LEMMA HandStep == HandInv /\ [Next]_vars => HandInv'
<1> SUFFICES ASSUME HandInv, [Next]_vars PROVE HandInv'
    OBVIOUS
<1>1. SeatInv'
    BY SeatStep DEF HandInv
<1>2. ASSUME NEW c \in Clients, Owner(c) PROVE HandInv'
    BY <1>1, <1>2, HandsOfOpen, HandsOfReconnect, HandsOfChat, HandsOfLeave DEF Owner
<1>3. ASSUME NEW c \in Clients, Request(c) PROVE HandInv'
    BY <1>1, <1>3, HandsOfAttempt, HandsOfConnectFails, HandsOfConnected, HandsOfRequest,
       HandsOfTimeout, HandsOfChat DEF Request
<1>4. ASSUME NEW c \in Clients, Event(c) PROVE HandInv'
    BY <1>1, <1>4, HandsOfCreated, HandsOfJoined, HandsOfQueued, HandsOfLeft, HandsOfExpired,
       HandsOfError, HandsOfSocket, HandsOfClosing, HandsOfClosed DEF Event, FrameArrives
<1>5. ASSUME NEW c \in Clients, LockStep(c) PROVE HandInv'
    BY <1>1, <1>5, HandsOfStart, HandsOfExport, HandsOfImport, HandsOfPrint, HandsOfDerive,
       HandsOfPrints, HandsOfDecrypt DEF LockStep
<1>6. ASSUME NEW c \in Clients, WireBreaks(c) PROVE HandInv'
    BY <1>1, <1>6, HandsOfSocket
<1>7. CASE RelayStep
    <2>1. RelayOK(relay) /\ UNCHANGED client
        BY <1>7 DEF RelayStep, HandInv, SeatInv, Fine
    <2> QED BY <1>1, <1>7, <2>1, RelayStepHeeds, RelayHands
<1>8. CASE UNCHANGED vars
    BY <1>1, <1>8, HeedsNot, RelayHands DEF vars
<1> QED BY <1>2, <1>3, <1>4, <1>5, <1>6, <1>7, <1>8 DEF Next

(* In every order of calls, frames, handlers and failures: a client whose  *)
(* handshake no reset has overtaken imports, derives, exports and hashes   *)
(* the keys of one handshake and no other, and nothing of a handshake      *)
(* precedes the answer to its request.                                     *)
THEOREM HandshakesAreWhole == Spec => []HandInv
<1> QED BY HandInit, HandStep, PTL DEF Spec

(* Where a page lets its user write, the fingerprints it shows or keeps    *)
(* for comparing are those of the two key pairs whose secret will seal the *)
(* message, on both platforms.                                             *)
THEOREM FingerprintsAreTrue == Spec => []FingerprintsAreOfTheSecret
<1>1. ASSUME HandInv, NEW c \in Clients, Composes(c), client[c].lock = <<>>, ~client[c].raced
      PROVE  /\ ShowsFingerprints(c)
             /\ client[c].seen[1] = Fingerprint(c, client[c].keyPair)
             /\ {client[c].seen[1], client[c].seen[2]} =
                    {Fingerprint(pair[1], pair) : pair \in client[c].shared}
    <2> DEFINE r == client[c]
               G(pair) == GenerateFingerprint(Spki(pair))
    <2>1. r.status = "ready"
        BY <1>1 DEF Composes, Ready
    <2>2. Told(r)
        BY <1>1, <2>1, HandedIs DEF HandshakeOK
    <2>3. PICK q : r.peerKey = Spki(q) /\ r.shared = {r.keyPair, q}
        BY <2>2 DEF Told, Holds
    <2>4. r.seen = <<G(r.keyPair), G(q)>>
        BY <2>2, <2>3 DEF Told, LocalOK
    <2>5. \A p, pair : Fingerprint(p, pair) = G(pair)
        BY Exported DEF Fingerprint
    <2> HIDE DEF G
    <2>6. r.seen # NoPrints /\ r.seen[1] = G(r.keyPair) /\ r.seen[2] = G(q)
        BY <2>4 DEF NoPrints
    <2>7. {G(r.keyPair), G(q)} = {Fingerprint(pair[1], pair) : pair \in r.shared}
        BY <2>3, <2>5
    <2> QED BY <2>1, <2>5, <2>6, <2>7 DEF ShowsFingerprints, Ready
<1>2. HandInv => FingerprintsAreOfTheSecret
    BY <1>1 DEF FingerprintsAreOfTheSecret
<1> QED BY <1>2, HandshakesAreWhole, PTL

----------------------------------------------------------------------------
(* Whose key a client goes by, and who sits opposite.                      *)

HasLeft(s) == \E f \in Elements(s) : f.type = "PARTNER_LEFT"

\* Every key on its way is one of K, or is forgotten once it has arrived.
KeysAmong(s, K) == \A i \in 1..Len(s) : s[i].type = "key" /\ s[i].key \notin K
                       => \E j \in i..Len(s) : s[j].type = "PARTNER_LEFT"

\* The keys of others that the client has taken, or is about to take.
Trusted(r) ==
    {k \in {r.peerKey} : \/ r.received = TRUE
                         \/ r.lock # <<>> /\ Head(r.lock).pc \in {"import", "derive"}}
    \cup {t.key : t \in {t \in Elements(r.lock) : t.kind = "key" /\ t.pc = "start"}}

\* The client r, once it has heard of those who left, goes by no key but K.
Agrees(r, s, K) == KeysAmong(s, K) /\ (~HasLeft(s) => Trusted(r) \subseteq K)

Seat(C, c) == <<c, C[c].conn>>

\* The seats whose owners are there.
Alive(R) == (R.seats \cap R.wired) \ R.dying

(* Who sits alone goes by no key, who has somebody opposite by theirs.     *)
(* Keys of a client that a reset has overtaken may be of an older pair,    *)
(* and after a silent removal those of the one removed are still there.    *)
Opposite(C, R, c) ==
    /\ R.seats = {Seat(C, c)} => Agrees(C[c], R.net[c], {})
    /\ \A d \in Clients \ {c} : Seat(C, d) \in Alive(R) /\ ~C[d].raced
                                    => Agrees(C[c], R.net[c], {Spki(C[d].keyPair)})

\* The line s has a frame of the type that nothing of ends comes behind, or
\* nothing of ends is on its way and what such a frame brings is held already.
Stands(s, type, ends, held) ==
    \/ \E i \in 1..Len(s) : s[i].type = type /\ \A j \in i..Len(s) : s[j].type \notin ends
    \/ held /\ \A j \in 1..Len(s) : s[j].type \notin ends

Leaving == {"PARTNER_LEFT"}
Parting == {"PARTNER_LEFT", "SESSION_CREATED"}

\* The client shows that its partner is there.
Greets(r) == r.partner = TRUE /\ r.status \in {"handshaking", "ready", "error"}

\* It has sent its key or is about to.
Due(r) == r.sent = TRUE \/ \E t \in Elements(r.lock) : t.kind = "send"

(* What will be so once the client r has heard the line s: it shows a      *)
(* partner, it has sent or sends its key, it has taken or takes a key.     *)
Greeted(r, s) == Stands(s, "PARTNER_JOINED", Parting, Greets(r))
Owes(r, s)    == Stands(s, "PARTNER_JOINED", Leaving, Due(r))
Keyed(r, s)   == Stands(s, "key", Leaving, Trusted(r) # {})

\* A client hears of its partner before it is sent the partner's key.
Prompt(r, s) == \A i \in 1..Len(s) : s[i].type = "PARTNER_JOINED" =>
    /\ \A j \in 1..i : s[j].type = "key" => \E m \in j..i : s[m].type = "PARTNER_LEFT"
    /\ (\A j \in 1..i : s[j].type # "PARTNER_LEFT") => Trusted(r) = {}

\* Whoever has taken a key and is not ready is about to send its own, and the
\* task that sends a key does nothing else.
Diligent(r) ==
    /\ r.status = "handshaking" /\ r.received = TRUE
       => r.lock # <<>> /\ Head(r.lock).pc = "export" /\ Head(r.lock).kind # "send"
    /\ r.lock # <<>> /\ Head(r.lock).kind = "send" => Head(r.lock).pc \in {"start", "export"}

\* Unless a key was refused, whoever sits opposite has one, or one comes.
Informed(C, R, c) == ~R.refused => \A d \in Clients \ {c} :
    Seat(C, d) \in Alive(R) /\ ~C[d].raced => Keyed(C[d], R.net[d])

(* Who sits alone will have sent no key when it has heard everything, who  *)
(* has somebody opposite shows it and sends one.  A key that was sent has  *)
(* reached the other, until that one is gone.                              *)
Expecting(C, R, c) ==
    /\ Prompt(C[c], R.net[c]) /\ Diligent(C[c])
    /\ R.seats = {Seat(C, c)} => ~Owes(C[c], R.net[c])
    /\ R.seats # {Seat(C, c)} => Greeted(C[c], R.net[c]) /\ Owes(C[c], R.net[c])
    /\ C[c].sent = TRUE /\ ~HasLeft(R.net[c]) => Informed(C, R, c)

AtMostTwo(S) == \A x, y, z \in S : x = y \/ y = z \/ x = z

PairsOK(C, R) ==
    /\ IsFiniteSet(R.seats)
    /\ ~R.pruned =>
        /\ AtMostTwo(R.seats)
        /\ \A c \in Clients : Seat(C, c) \in Alive(R) /\ ~C[c].raced
                                => Opposite(C, R, c) /\ Expecting(C, R, c)

PairInv == HandInv /\ PairsOK(client, relay)

----------------------------------------------------------------------------
(* Frames and keys.                                                        *)

LEMMA AppendAgrees ==
    ASSUME NEW s, IsSeq(s), NEW f, NEW r, NEW K, Agrees(r, s, K),
           f.type = "key" => f.key \in K
    PROVE  Agrees(r, Append(s, f), K)
<1> DEFINE t == Append(s, f)
<1>1. /\ Elements(t) = Elements(s) \cup {f}
      /\ Len(t) = Len(s) + 1 /\ Len(s) \in Nat
      /\ \A i \in 1..Len(s) : t[i] = s[i]
      /\ t[Len(s) + 1] = f
    BY Appended
<1> HIDE DEF t
<1>2. ~HasLeft(t) => ~HasLeft(s)
    BY <1>1 DEF HasLeft
<1>3. ASSUME NEW i \in 1..Len(t), t[i].type = "key", t[i].key \notin K
      PROVE  \E j \in i..Len(t) : t[j].type = "PARTNER_LEFT"
    <2>1. i \in 1..Len(s) /\ s[i] = t[i]
        BY <1>1, <1>3
    <2>2. PICK j \in i..Len(s) : s[j].type = "PARTNER_LEFT"
        BY <1>3, <2>1 DEF Agrees, KeysAmong
    <2>3. j \in i..Len(t) /\ t[j] = s[j]
        BY <1>1, <2>1, <2>2
    <2> QED BY <2>2, <2>3
<1> QED BY <1>2, <1>3 DEF t, Agrees, KeysAmong

\* After PARTNER_LEFT nothing that came before it counts.
LEMMA LeftAgrees ==
    ASSUME NEW s, IsSeq(s), NEW f, f.type = "PARTNER_LEFT", NEW r, NEW K
    PROVE  Agrees(r, Append(s, f), K)
<1> DEFINE t == Append(s, f)
<1>1. /\ Elements(t) = Elements(s) \cup {f}
      /\ Len(t) = Len(s) + 1 /\ Len(s) \in Nat
      /\ t[Len(s) + 1] = f
    BY Appended
<1> HIDE DEF t
<1>2. HasLeft(t)
    BY <1>1 DEF HasLeft
<1>3. \A i \in 1..Len(t) : Len(t) \in i..Len(t) /\ t[Len(t)].type = "PARTNER_LEFT"
    BY <1>1
<1> QED BY <1>2, <1>3 DEF t, Agrees, KeysAmong

LEMMA WiderAgrees ==
    ASSUME NEW r, NEW s, NEW K, Agrees(r, s, {})
    PROVE  Agrees(r, s, K)
BY DEF Agrees, KeysAmong

LEMMA FreshAgrees ==
    ASSUME NEW r, Fresh(r), NEW s, ~News(s), NEW K
    PROVE  Agrees(r, s, K)
<1>1. \A i \in 1..Len(s) : s[i].type # "key"
    BY DEF News, Last, Elements
<1>2. Trusted(r) = {}
    <2>1. r.lock = <<>> /\ Elements(<<>>) = {} /\ r.received = FALSE
        BY Empty DEF Fresh
    <2> QED BY <2>1 DEF Trusted
<1> QED BY <1>1, <1>2 DEF Agrees, KeysAmong

\* A frame arrives.
LEMMA TailAgrees ==
    ASSUME NEW s, IsSeq(s), s # <<>>, NEW r, NEW K, Agrees(r, s, K), NEW q,
           \/ Trusted(q) = {}
           \/ /\ Head(s).type # "PARTNER_LEFT"
              /\ Trusted(q) \subseteq Trusted(r) \cup {k \in {Head(s).key} : Head(s).type = "key"}
    PROVE  Agrees(q, Tail(s), K)
<1> DEFINE t == Tail(s)
<1>1. /\ Elements(t) \subseteq Elements(s)
      /\ Len(t) = Len(s) - 1 /\ Len(s) \in Nat /\ Len(s) >= 1
      /\ \A i \in 1..Len(t) : t[i] = s[i + 1]
      /\ Head(s) = s[1] /\ Head(s) \in Elements(s)
    BY Taken
<1> HIDE DEF t
<1>2. ASSUME NEW i \in 1..Len(t), t[i].type = "key", t[i].key \notin K
      PROVE  \E j \in i..Len(t) : t[j].type = "PARTNER_LEFT"
    <2>1. i + 1 \in 1..Len(s) /\ s[i + 1] = t[i]
        BY <1>1
    <2>2. PICK j \in (i + 1)..Len(s) : s[j].type = "PARTNER_LEFT"
        BY <1>2, <2>1 DEF Agrees, KeysAmong
    <2>3. j - 1 \in i..Len(t) /\ j - 1 \in 1..Len(t) /\ (j - 1) + 1 = j
        BY <1>1, <2>2
    <2>4. t[j - 1] = s[j]
        BY <1>1, <2>3
    <2> QED BY <2>2, <2>3, <2>4
<1>3. ASSUME ~HasLeft(t), Head(s).type # "PARTNER_LEFT",
             Trusted(q) \subseteq Trusted(r) \cup {k \in {Head(s).key} : Head(s).type = "key"}
      PROVE  Trusted(q) \subseteq K
    <2>1. \A j \in 1..Len(s) : s[j].type # "PARTNER_LEFT"
        <3>1. ASSUME NEW j \in 1..Len(s), j # 1 PROVE s[j].type # "PARTNER_LEFT"
            <4>1. j - 1 \in 1..Len(t) /\ (j - 1) + 1 = j
                BY <1>1, <3>1
            <4>2. t[j - 1] = s[j] /\ t[j - 1] \in Elements(t)
                BY <1>1, <4>1 DEF Elements
            <4> QED BY <1>3, <4>2 DEF HasLeft
        <3> QED BY <1>1, <1>3, <3>1
    <2>2. ~HasLeft(s)
        BY <2>1 DEF HasLeft, Elements
    <2>3. Head(s).type = "key" => Head(s).key \in K
        <3>1. 1 \in 1..Len(s) /\ \A j \in 1..Len(s) : j \in 1..Len(s)
            BY <1>1
        <3> QED BY <1>1, <2>1, <3>1 DEF Agrees, KeysAmong
    <2>4. Trusted(r) \subseteq K
        BY <2>2 DEF Agrees
    <2> QED BY <1>3, <2>3, <2>4
<1> QED BY <1>2, <1>3 DEF t, Agrees, KeysAmong

LEMMA StandsAppended ==
    ASSUME NEW s, IsSeq(s), NEW f, NEW type, NEW ends, type \notin ends, NEW held
    PROVE  LET t == Append(s, f) IN
           /\ f.type = type => Stands(t, type, ends, held)
           /\ f.type \in ends => ~Stands(t, type, ends, held)
           /\ f.type # type /\ f.type \notin ends =>
                (Stands(t, type, ends, held) <=> Stands(s, type, ends, held))
<1> DEFINE t == Append(s, f)
<1>1. /\ Len(t) = Len(s) + 1 /\ Len(s) \in Nat
      /\ \A i \in 1..Len(s) : t[i] = s[i]
      /\ t[Len(s) + 1] = f
    BY Appended
<1> HIDE DEF t
<1>2. ASSUME f.type = type PROVE Stands(t, type, ends, held)
    <2>1. Len(t) \in 1..Len(t) /\ t[Len(t)] = f /\ \A j \in Len(t)..Len(t) : j = Len(t)
        BY <1>1
    <2> QED BY <1>2, <2>1 DEF Stands
<1>3. ASSUME f.type \in ends PROVE ~Stands(t, type, ends, held)
    <2>1. \A i \in 1..Len(t) : Len(t) \in i..Len(t)
        BY <1>1
    <2>2. Len(t) \in 1..Len(t) /\ t[Len(t)] = f
        BY <1>1
    <2> QED BY <1>3, <2>1, <2>2 DEF Stands
<1>4. ASSUME f.type # type, f.type \notin ends
      PROVE  Stands(t, type, ends, held) <=> Stands(s, type, ends, held)
    <2>1. \A i \in 1..Len(s) : (\A j \in i..Len(s) : s[j].type \notin ends)
                                 <=> (\A j \in i..Len(t) : t[j].type \notin ends)
        BY <1>1, <1>4
    <2>2. (\A j \in 1..Len(s) : s[j].type \notin ends)
             <=> (\A j \in 1..Len(t) : t[j].type \notin ends)
        BY <1>1, <1>4
    <2>3. \A i \in 1..Len(t) : t[i].type = type => i \in 1..Len(s) /\ s[i] = t[i]
        BY <1>1, <1>4
    <2>4. \A i \in 1..Len(s) : i \in 1..Len(t) /\ t[i] = s[i]
        BY <1>1
    <2> QED BY <2>1, <2>2, <2>3, <2>4 DEF Stands
<1> QED BY <1>2, <1>3, <1>4 DEF t

\* A frame is heard.
LEMMA StandsTaken ==
    ASSUME NEW s, IsSeq(s), s # <<>>, NEW type, NEW ends, type \notin ends, NEW held, NEW had
    PROVE  LET f == Head(s)
               t == Tail(s)
           IN
           /\ Stands(s, type, ends, had) /\ (f.type = type \/ (f.type \notin ends /\ had) => held)
              => Stands(t, type, ends, held)
           /\ Stands(t, type, ends, held) /\ (held => f.type = type \/ (f.type \notin ends /\ had))
              => Stands(s, type, ends, had)
<1> DEFINE f == Head(s)
           t == Tail(s)
<1>1. /\ Len(t) = Len(s) - 1 /\ Len(s) \in Nat /\ Len(s) >= 1
      /\ \A i \in 1..Len(t) : t[i] = s[i + 1]
      /\ f = s[1]
    BY Taken
<1> HIDE DEF f, t
<1>2. ASSUME NEW i \in 1..Len(t)
      PROVE  /\ i + 1 \in 1..Len(s) /\ t[i] = s[i + 1]
             /\ (\A j \in i..Len(t) : t[j].type \notin ends)
                  <=> (\A j \in (i + 1)..Len(s) : s[j].type \notin ends)
    <2>1. i + 1 \in 1..Len(s) /\ t[i] = s[i + 1]
        BY <1>1
    <2>2. ASSUME NEW j \in i..Len(t) PROVE j + 1 \in (i + 1)..Len(s) /\ t[j] = s[j + 1]
        BY <1>1
    <2>3. ASSUME NEW j \in (i + 1)..Len(s) PROVE j - 1 \in i..Len(t) /\ s[j] = t[j - 1]
        <3>1. j - 1 \in i..Len(t) /\ j - 1 \in 1..Len(t) /\ (j - 1) + 1 = j
            BY <1>1
        <3> QED BY <1>1, <3>1
    <2> QED BY <2>1, <2>2, <2>3
<1>3. (\A j \in 1..Len(s) : s[j].type \notin ends)
         <=> f.type \notin ends /\ \A j \in 1..Len(t) : t[j].type \notin ends
    <2>1. ASSUME NEW j \in 1..Len(t) PROVE j + 1 \in 1..Len(s) /\ t[j] = s[j + 1]
        BY <1>1
    <2>2. ASSUME NEW j \in 1..Len(s), j # 1 PROVE j - 1 \in 1..Len(t) /\ s[j] = t[j - 1]
        <3>1. j - 1 \in 1..Len(t) /\ (j - 1) + 1 = j
            BY <1>1, <2>2
        <3> QED BY <1>1, <3>1
    <2>3. 1 \in 1..Len(s)
        BY <1>1
    <2> QED BY <1>1, <2>1, <2>2, <2>3
<1>4. \A i \in 1..Len(s) : i = 1 \/ (i - 1 \in 1..Len(t) /\ (i - 1) + 1 = i)
    BY <1>1
<1>5. 1 \in 1..Len(s)
    BY <1>1
<1>6. ASSUME Stands(s, type, ends, had), f.type = type \/ (f.type \notin ends /\ had) => held
      PROVE  Stands(t, type, ends, held)
    <2>1. CASE had /\ \A j \in 1..Len(s) : s[j].type \notin ends
        BY <1>3, <1>6, <2>1 DEF Stands
    <2>2. ASSUME NEW i \in 1..Len(s), s[i].type = type, \A j \in i..Len(s) : s[j].type \notin ends
          PROVE  Stands(t, type, ends, held)
        <3>1. CASE i = 1
            BY <1>1, <1>3, <1>6, <2>2, <3>1 DEF Stands
        <3>2. CASE i # 1
            <4>1. i - 1 \in 1..Len(t) /\ (i - 1) + 1 = i
                BY <1>4, <3>2
            <4>2. t[i - 1].type = type /\ \A j \in (i - 1)..Len(t) : t[j].type \notin ends
                BY <1>2, <2>2, <4>1
            <4> QED BY <4>1, <4>2 DEF Stands
        <3> QED BY <3>1, <3>2
    <2> QED BY <1>6, <2>1, <2>2 DEF Stands
<1>7. ASSUME Stands(t, type, ends, held), held => f.type = type \/ (f.type \notin ends /\ had)
      PROVE  Stands(s, type, ends, had)
    <2>1. CASE held /\ \A j \in 1..Len(t) : t[j].type \notin ends
        <3>1. CASE f.type = type
            <4>1. \A j \in 1..Len(s) : s[j].type \notin ends
                BY <1>3, <2>1, <3>1
            <4> QED BY <1>1, <1>5, <3>1, <4>1 DEF Stands
        <3>2. CASE f.type # type
            BY <1>3, <1>7, <2>1, <3>2 DEF Stands
        <3> QED BY <3>1, <3>2
    <2>2. ASSUME NEW i \in 1..Len(t), t[i].type = type, \A j \in i..Len(t) : t[j].type \notin ends
          PROVE  Stands(s, type, ends, had)
        <3>1. i + 1 \in 1..Len(s) /\ s[i + 1].type = type
              /\ \A j \in (i + 1)..Len(s) : s[j].type \notin ends
            BY <1>2, <2>2
        <3> QED BY <3>1 DEF Stands
    <2> QED BY <1>7, <2>1, <2>2 DEF Stands
<1> QED BY <1>6, <1>7 DEF f, t

LEMMA LeftAppended ==
    ASSUME NEW s, IsSeq(s), NEW f
    PROVE  HasLeft(Append(s, f)) <=> HasLeft(s) \/ f.type = "PARTNER_LEFT"
<1>1. Elements(Append(s, f)) = Elements(s) \cup {f}
    BY Appended
<1> QED BY <1>1 DEF HasLeft

\* What one more frame brings.
LEMMA ToldMore ==
    ASSUME NEW s, IsSeq(s), NEW f, NEW r
    PROVE  LET t == Append(s, f) IN
           /\ f.type = "PARTNER_JOINED" => Greeted(r, t) /\ Owes(r, t)
           /\ f.type = "PARTNER_LEFT" => ~Owes(r, t)
           /\ f.type = "key" => Keyed(r, t)
           /\ f.type \notin {"PARTNER_JOINED", "PARTNER_LEFT"} => (Owes(r, t) <=> Owes(r, s))
           /\ f.type \notin {"PARTNER_JOINED", "PARTNER_LEFT", "SESSION_CREATED"}
                => (Greeted(r, t) <=> Greeted(r, s))
           /\ f.type \notin {"key", "PARTNER_LEFT"} => (Keyed(r, t) <=> Keyed(r, s))
<1> DEFINE t == Append(s, f)
<1>1. /\ "PARTNER_JOINED" \notin Leaving /\ "PARTNER_JOINED" \notin Parting
      /\ "key" \notin Leaving
      /\ \A x : x \in Leaving <=> x = "PARTNER_LEFT"
      /\ \A x : x \in Parting <=> x = "PARTNER_LEFT" \/ x = "SESSION_CREATED"
    BY DEF Leaving, Parting
<1>2. /\ f.type = "PARTNER_JOINED" => Greeted(r, t)
      /\ f.type \notin {"PARTNER_JOINED", "PARTNER_LEFT", "SESSION_CREATED"}
             => (Greeted(r, t) <=> Greeted(r, s))
    BY <1>1, StandsAppended DEF Greeted
<1>3. /\ f.type = "PARTNER_JOINED" => Owes(r, t)
      /\ f.type = "PARTNER_LEFT" => ~Owes(r, t)
      /\ f.type \notin {"PARTNER_JOINED", "PARTNER_LEFT"} => (Owes(r, t) <=> Owes(r, s))
    BY <1>1, StandsAppended DEF Owes
<1>4. /\ f.type = "key" => Keyed(r, t)
      /\ f.type \notin {"key", "PARTNER_LEFT"} => (Keyed(r, t) <=> Keyed(r, s))
    BY <1>1, StandsAppended DEF Keyed
<1> QED BY <1>2, <1>3, <1>4

LEMMA PromptAppended ==
    ASSUME NEW s, IsSeq(s), NEW f, NEW r, Prompt(r, s),
           f.type = "PARTNER_JOINED" => Agrees(r, s, {})
    PROVE  Prompt(r, Append(s, f))
<1> DEFINE t == Append(s, f)
<1>1. /\ Len(t) = Len(s) + 1 /\ Len(s) \in Nat
      /\ \A i \in 1..Len(s) : t[i] = s[i]
      /\ t[Len(s) + 1] = f
    BY Appended
<1> HIDE DEF t
<1>2. SUFFICES ASSUME NEW i \in 1..Len(t), t[i].type = "PARTNER_JOINED"
               PROVE  /\ \A j \in 1..i : t[j].type = "key" => \E m \in j..i : t[m].type = "PARTNER_LEFT"
                      /\ (\A j \in 1..i : t[j].type # "PARTNER_LEFT") => Trusted(r) = {}
    BY DEF t, Prompt
<1>3. CASE i \in 1..Len(s)
    <2>1. \A j \in 1..i : j \in 1..Len(s) /\ t[j] = s[j]
        BY <1>1, <1>3
    <2>2. \A j \in 1..i : \A m \in j..i : m \in 1..i
        BY <1>1, <1>3
    <2>3. s[i].type = "PARTNER_JOINED"
        BY <1>1, <1>2, <1>3
    <2> QED BY <1>3, <2>1, <2>2, <2>3 DEF Prompt
<1>4. CASE i \notin 1..Len(s)
    <2>1. i = Len(s) + 1 /\ Agrees(r, s, {})
        BY <1>1, <1>2, <1>4
    <2>2. ASSUME NEW j \in 1..i, t[j].type = "key"
          PROVE  \E m \in j..i : t[m].type = "PARTNER_LEFT"
        <3>1. j \in 1..Len(s) /\ s[j] = t[j]
            BY <1>1, <1>2, <2>1, <2>2
        <3>2. PICK m \in j..Len(s) : s[m].type = "PARTNER_LEFT"
            BY <2>1, <2>2, <3>1 DEF Agrees, KeysAmong
        <3>3. m \in j..i /\ t[m] = s[m]
            BY <1>1, <2>1, <3>1, <3>2
        <3> QED BY <3>2, <3>3
    <2>3. ASSUME \A j \in 1..i : t[j].type # "PARTNER_LEFT" PROVE Trusted(r) = {}
        <3>1. \A j \in 1..Len(s) : j \in 1..i /\ t[j] = s[j]
            BY <1>1, <2>1
        <3>2. ~HasLeft(s)
            BY <2>3, <3>1 DEF HasLeft, Elements
        <3> QED BY <2>1, <3>2 DEF Agrees
    <2> QED BY <2>2, <2>3
<1> QED BY <1>3, <1>4

LEMMA PromptTaken ==
    ASSUME NEW s, IsSeq(s), s # <<>>, NEW r, Prompt(r, s), NEW q,
           \/ Trusted(q) = {}
           \/ /\ Head(s).type # "PARTNER_LEFT"
              /\ Trusted(q) \subseteq Trusted(r) \cup {k \in {Head(s).key} : Head(s).type = "key"}
    PROVE  Prompt(q, Tail(s))
<1> DEFINE t == Tail(s)
<1>1. /\ Len(t) = Len(s) - 1 /\ Len(s) \in Nat /\ Len(s) >= 1
      /\ \A i \in 1..Len(t) : t[i] = s[i + 1]
      /\ Head(s) = s[1]
    BY Taken
<1> HIDE DEF t
<1>2. SUFFICES ASSUME NEW i \in 1..Len(t), t[i].type = "PARTNER_JOINED"
               PROVE  /\ \A j \in 1..i : t[j].type = "key" => \E m \in j..i : t[m].type = "PARTNER_LEFT"
                      /\ (\A j \in 1..i : t[j].type # "PARTNER_LEFT") => Trusted(q) = {}
    BY DEF t, Prompt
<1> DEFINE n == i + 1
<1>3. n \in 1..Len(s) /\ s[n].type = "PARTNER_JOINED" /\ 1 \in 1..n
    BY <1>1, <1>2
<1>4. \A m \in 1..n : m # 1 => m - 1 \in 1..i /\ t[m - 1] = s[m]
    <2>1. ASSUME NEW m \in 1..n, m # 1 PROVE m - 1 \in 1..i /\ t[m - 1] = s[m]
        <3>1. m - 1 \in 1..i /\ m - 1 \in 1..Len(t) /\ (m - 1) + 1 = m
            BY <1>1, <2>1
        <3> QED BY <1>1, <3>1
    <2> QED BY <2>1
<1>5. ASSUME NEW j \in 1..i, t[j].type = "key"
      PROVE  \E m \in j..i : t[m].type = "PARTNER_LEFT"
    <2>1. j + 1 \in 1..n /\ s[j + 1] = t[j]
        BY <1>1, <1>2, <1>5
    <2>2. PICK m \in (j + 1)..n : s[m].type = "PARTNER_LEFT"
        BY <1>3, <1>5, <2>1 DEF Prompt
    <2>3. m \in 1..n /\ m # 1 /\ m - 1 \in j..i
        BY <1>2, <1>5, <2>2
    <2> QED BY <1>4, <2>2, <2>3
<1>6. ASSUME \A j \in 1..i : t[j].type # "PARTNER_LEFT" PROVE Trusted(q) = {}
    <2> SUFFICES ASSUME Head(s).type # "PARTNER_LEFT",
                        Trusted(q) \subseteq Trusted(r) \cup {k \in {Head(s).key} : Head(s).type = "key"}
                 PROVE  Trusted(q) = {}
        OBVIOUS
    <2>1. \A m \in 1..n : s[m].type # "PARTNER_LEFT"
        BY <1>1, <1>4, <1>6
    <2>2. Trusted(r) = {}
        BY <1>3, <2>1 DEF Prompt
    <2>3. Head(s).type # "key"
        <3>1. \A m \in 1..n : m \in 1..n
            OBVIOUS
        <3> QED BY <1>1, <1>3, <2>1 DEF Prompt
    <2> QED BY <2>2, <2>3
<1> HIDE DEF n
<1> QED BY <1>5, <1>6

(* As far as keys and partners go, the line t tells no more than s.        *)
Alike(s, t) ==
    /\ HasLeft(t) <=> HasLeft(s)
    /\ \A r : /\ \A K : Agrees(r, s, K) => Agrees(r, t, K)
              /\ Prompt(r, s) => Prompt(r, t)
              /\ Greeted(r, t) <=> Greeted(r, s)
              /\ Owes(r, t) <=> Owes(r, s)
              /\ Keyed(r, t) <=> Keyed(r, s)

\* The frames that tell of keys and partners.
Telling == {"key", "PARTNER_JOINED", "PARTNER_LEFT", "SESSION_CREATED"}

LEMMA PlainAlike ==
    ASSUME NEW s, IsSeq(s), NEW f, f.type \notin Telling
    PROVE  Alike(s, Append(s, f))
<1> DEFINE t == Append(s, f)
<1>1. f.type # "key" /\ f.type # "PARTNER_JOINED" /\ f.type # "PARTNER_LEFT"
    BY DEF Telling
<1>2. HasLeft(t) <=> HasLeft(s)
    BY <1>1, LeftAppended
<1>3. ASSUME NEW r
      PROVE  /\ \A K : Agrees(r, s, K) => Agrees(r, t, K)
             /\ Prompt(r, s) => Prompt(r, t)
    BY <1>1, AppendAgrees, PromptAppended
<1>4. ASSUME NEW r
      PROVE  /\ Greeted(r, t) <=> Greeted(r, s)
             /\ Owes(r, t) <=> Owes(r, s)
             /\ Keyed(r, t) <=> Keyed(r, s)
    BY ToldMore DEF Telling
<1> QED BY <1>2, <1>3, <1>4 DEF Alike

LEMMA AlikeTwice ==
    ASSUME NEW s, NEW t, NEW u, Alike(s, t), Alike(t, u)
    PROVE  Alike(s, u)
BY DEF Alike

LEMMA AlikeSame ==
    ASSUME NEW s
    PROVE  Alike(s, s)
BY DEF Alike

\* After PARTNER_LEFT the client owes nothing and goes by no key.
Parted(s, t) == \A r : /\ \A K : Agrees(r, t, K)
                       /\ ~Owes(r, t)
                       /\ Prompt(r, s) => Prompt(r, t)

LEMMA LeftParts ==
    ASSUME NEW s, IsSeq(s), NEW f, f.type = "PARTNER_LEFT"
    PROVE  Parted(s, Append(s, f))
<1>1. ASSUME NEW r
      PROVE  /\ \A K : Agrees(r, Append(s, f), K)
             /\ ~Owes(r, Append(s, f))
             /\ Prompt(r, s) => Prompt(r, Append(s, f))
    BY LeftAgrees, ToldMore, PromptAppended
<1> QED BY <1>1 DEF Parted

----------------------------------------------------------------------------
(* What a step of the relay means for those who are seated.                *)

\* Nobody takes a seat and no key is sent; who is left hears of it.
Quiet(R, Q) ==
    /\ Q.seats \subseteq R.seats
    /\ R.pruned => Q.pruned
    /\ R.refused => Q.refused
    /\ \A k \in Alive(Q) :
        /\ k \in Alive(R)
        /\ IF Q.seats = R.seats THEN Alike(R.net[k[1]], Q.net[k[1]])
           ELSE Parted(R.net[k[1]], Q.net[k[1]])

\* The connection k takes a seat, and whoever is seated then is told so.  A
\* removal is forgiven: nobody is told of it.
Seated(R, Q, k) ==
    /\ IsFiniteSet(R.seats) => IsFiniteSet(Q.seats)
    /\ ~Q.pruned =>
        /\ ~R.pruned /\ (R.refused => Q.refused)
        /\ \A x, y \in R.seats : x = y
        /\ Q.seats = R.seats \cup {k}
        /\ \A j \in Alive(Q) :
            /\ j \in Alive(R) \cup {k} /\ IsSeq(R.net[j[1]])
            /\ k \notin R.seats =>
                 \E f : /\ f.type = IF R.seats = {} THEN "SESSION_CREATED" ELSE "PARTNER_JOINED"
                        /\ Q.net[j[1]] = Append(R.net[j[1]], f)

LEMMA QuietNot ==
    ASSUME NEW R
    PROVE  Quiet(R, R)
BY AlikeSame DEF Quiet

LEMMA QuietTwice ==
    ASSUME NEW R, NEW Q, NEW P, Quiet(R, Q), Quiet(Q, P)
    PROVE  Quiet(R, P)
<1>1. ASSUME NEW k \in Alive(P)
      PROVE  /\ k \in Alive(R)
             /\ IF P.seats = R.seats THEN Alike(R.net[k[1]], P.net[k[1]])
                ELSE Parted(R.net[k[1]], P.net[k[1]])
    <2>1. /\ k \in Alive(Q) /\ k \in Alive(R)
          /\ P.seats \subseteq Q.seats /\ Q.seats \subseteq R.seats
        BY <1>1 DEF Quiet
    <2> DEFINE s == R.net[k[1]]
               l == Q.net[k[1]]
               u == P.net[k[1]]
    <2>2. /\ IF Q.seats = R.seats THEN Alike(s, l) ELSE Parted(s, l)
          /\ IF P.seats = Q.seats THEN Alike(l, u) ELSE Parted(l, u)
        BY <1>1, <2>1 DEF Quiet
    <2> HIDE DEF s, l, u
    <2>3. CASE P.seats = R.seats
        <3>1. Q.seats = R.seats /\ P.seats = Q.seats
            BY <2>1, <2>3
        <3> QED BY <2>1, <2>2, <2>3, <3>1, AlikeTwice DEF s, u
    <2>4. CASE P.seats # R.seats
        <3>1. Parted(s, u)
            <4>1. CASE P.seats # Q.seats
                <5>1. \A r : Prompt(r, s) => Prompt(r, l)
                    BY <2>2 DEF Alike, Parted
                <5> QED BY <2>2, <4>1, <5>1 DEF Parted
            <4>2. CASE P.seats = Q.seats
                <5>1. Parted(s, l) /\ Alike(l, u)
                    BY <2>2, <2>4, <4>2
                <5> QED BY <5>1 DEF Parted, Alike
            <4> QED BY <4>1, <4>2
        <3> QED BY <2>1, <2>4, <3>1 DEF s, u
    <2> QED BY <2>3, <2>4
<1> QED BY <1>1 DEF Quiet

LEMMA SeatedSame ==
    ASSUME NEW B, NEW R, NEW Q, NEW k, Seated(R, Q, k),
           B.seats = R.seats, B.pruned = R.pruned, B.refused = R.refused, B.net = R.net,
           Alive(B) = Alive(R)
    PROVE  Seated(B, Q, k)
BY DEF Seated

\* The tables as they were.
LEMMA TablesQuiet ==
    ASSUME NEW R, NEW Q, Q.seats = R.seats, R.pruned => Q.pruned, R.refused => Q.refused,
           Q.net = R.net, Alive(Q) \subseteq Alive(R)
    PROVE  Quiet(R, Q)
BY AlikeSame DEF Quiet

----------------------------------------------------------------------------
(* The operations of the relay.                                            *)

LEMMA FaultQuiet ==
    ASSUME NEW R, RelayShaped(R)
    PROVE  Quiet(R, Fault(R)) /\ RelayShaped(Fault(R)) /\ Fault(R).pruned = R.pruned
           /\ Fault(R).wired = R.wired /\ Fault(R).seats = R.seats
           /\ Fault(R).refused = R.refused
<1> DEFINE Q == Fault(R)
<1>1. /\ RelayShaped(Q) /\ Q.seats = R.seats /\ Q.wired = R.wired /\ Q.dying = R.dying
      /\ Q.pruned = R.pruned /\ Q.refused = R.refused /\ Q.net = R.net
    BY DEF Fault, RelayShaped, RelayFields
<1> HIDE DEF Q
<1> QED BY <1>1, TablesQuiet DEF Q, Alive

\* The connection of c is gone, and its frames with it.
LEMMA GoneQuiet ==
    ASSUME NEW R, RelayOK(R), NEW c \in Clients, NEW Q,
           Q.seats = R.seats, Q.dying = R.dying, R.pruned => Q.pruned, R.refused => Q.refused,
           Q.wired = R.wired \ {Socket(c)},
           \A d \in Clients \ {c} : Q.net[d] = R.net[d]
    PROVE  Quiet(R, Q)
<1>1. ASSUME NEW k \in Alive(Q)
      PROVE  k \in Alive(R) /\ Q.net[k[1]] = R.net[k[1]]
    <2>1. k \in R.wired /\ k # Socket(c)
        BY <1>1 DEF Alive
    <2>2. PICK d \in Clients : k = Socket(d)
        BY <2>1 DEF RelayOK, Sockets
    <2>3. k[1] = d /\ d # c
        BY <2>1, <2>2, SocketIs
    <2> QED BY <1>1, <2>3 DEF Alive
<1> QED BY <1>1, AlikeSame DEF Quiet

LEMMA HungUpQuiet ==
    ASSUME NEW R, RelayOK(R), NEW c \in Clients
    PROVE  /\ Quiet(R, HangUp(R, Socket(c)))
           /\ RelayShaped(HangUp(R, Socket(c)))
           /\ Socket(c) \notin HangUp(R, Socket(c)).wired
<1> DEFINE Q == HangUp(R, Socket(c))
           net == [R.net EXCEPT ![c] = <<>>]
           wired == R.wired \ {Socket(c)}
<1>1. Q = [R EXCEPT !.wired = wired, !.net = net]
    BY SocketIs DEF HangUp
<1>2. \A d \in Clients \ {c} : net[d] = R.net[d]
    BY DEF RelayOK, RelayShaped
<1>3. RelayShaped(Q)
    BY HangUpIs DEF RelayOK
<1> HIDE DEF Q, net, wired
<1>4. /\ Q.seats = R.seats /\ Q.dying = R.dying /\ Q.pruned = R.pruned
      /\ Q.refused = R.refused /\ Q.wired = wired /\ Q.net = net
    BY <1>1 DEF RelayOK, RelayShaped, RelayFields
<1> QED BY <1>2, <1>3, <1>4, GoneQuiet DEF Q, wired

LEMMA DeliverLeaves ==
    ASSUME NEW R, RelayShaped(R), NEW K, NEW f
    PROVE  Deliver(R, K, f).pruned = R.pruned /\ Deliver(R, K, f).refused = R.refused
BY DEF Deliver, RelayShaped, RelayFields

\* Every line of the relay, and every seated connection that is alive.
LEMMA LineIs ==
    ASSUME NEW R, RelayOK(R), NEW k \in R.wired
    PROVE  k[1] \in Clients /\ k = Socket(k[1]) /\ IsSeq(R.net[k[1]])
BY SocketIs DEF RelayOK, Sockets, LinesOK, LineOK

\* A frame that tells of nobody.
LEMMA DeliverQuiet ==
    ASSUME NEW R, RelayOK(R), NEW K, NEW f, f.type \notin Telling
    PROVE  Quiet(R, Deliver(R, K, f))
<1> DEFINE Q == Deliver(R, K, f)
<1>1. /\ Q.seats = R.seats /\ Q.wired = R.wired /\ Q.dying = R.dying
      /\ \A c \in Clients :
           Q.net[c] = IF Socket(c) \in (K \cap R.wired) \ R.dying
                      THEN Append(R.net[c], f) ELSE R.net[c]
    BY DeliverIs DEF RelayOK
<1>2. Q.pruned = R.pruned /\ Q.refused = R.refused
    BY DeliverLeaves DEF RelayOK
<1> HIDE DEF Q
<1>3. ASSUME NEW k \in Alive(Q)
      PROVE  k \in Alive(R) /\ Alike(R.net[k[1]], Q.net[k[1]])
    <2>1. k[1] \in Clients /\ IsSeq(R.net[k[1]])
        BY <1>1, <1>3, LineIs DEF Alive
    <2>2. Q.net[k[1]] \in {R.net[k[1]], Append(R.net[k[1]], f)}
        BY <1>1, <2>1
    <2>3. Alike(R.net[k[1]], Append(R.net[k[1]], f)) /\ Alike(R.net[k[1]], R.net[k[1]])
        BY <2>1, PlainAlike, AlikeSame
    <2> QED BY <1>1, <1>3, <2>2, <2>3 DEF Alive
<1> QED BY <1>1, <1>2, <1>3 DEF Q, Quiet

LEMMA LeaveQuiet ==
    ASSUME NEW R, RelayOK(R), NEW k
    PROVE  Quiet(R, RelayLeave(R, k))
<1>1. CASE k \notin R.seats
    BY <1>1, QuietNot DEF RelayLeave
<1>2. CASE k \in R.seats
    <2> DEFINE S == [R EXCEPT !.seats = @ \ {k}]
               f == Frame("PARTNER_LEFT")
               Q == Deliver(S, S.seats, f)
    <2>1. /\ RelayShaped(S) /\ S.seats = R.seats \ {k} /\ S.pruned = R.pruned
          /\ S.refused = R.refused
          /\ S.wired = R.wired /\ S.dying = R.dying /\ S.net = R.net
        BY DEF RelayOK, RelayShaped, RelayFields
    <2>2. RelayLeave(R, k) = Q
        BY <1>2, <2>1 DEF RelayLeave
    <2> HIDE DEF S
    <2>3. /\ Q.seats = S.seats /\ Q.wired = S.wired /\ Q.dying = S.dying
          /\ \A c \in Clients :
               Q.net[c] = IF Socket(c) \in (S.seats \cap S.wired) \ S.dying
                          THEN Append(S.net[c], f) ELSE S.net[c]
        BY <2>1, DeliverIs DEF RelayOK
    <2>4. Q.pruned = S.pruned /\ Q.refused = S.refused /\ f.type = "PARTNER_LEFT"
        BY <2>1, DeliverLeaves, CodesAre
    <2> HIDE DEF Q, f
    <2>5. ASSUME NEW j \in Alive(Q)
          PROVE  j \in Alive(R) /\ Parted(R.net[j[1]], Q.net[j[1]])
        <3>1. j \in Alive(R) /\ j \in (S.seats \cap S.wired) \ S.dying
            BY <2>1, <2>3, <2>5 DEF Alive
        <3>2. j[1] \in Clients /\ j = Socket(j[1]) /\ IsSeq(R.net[j[1]])
            BY <3>1, LineIs DEF Alive
        <3>3. Q.net[j[1]] = Append(R.net[j[1]], f)
            BY <2>1, <2>3, <3>1, <3>2
        <3> QED BY <2>4, <3>1, <3>2, <3>3, LeftParts
    <2>6. Q.seats # R.seats
        BY <1>2, <2>1, <2>3
    <2> QED BY <2>1, <2>2, <2>3, <2>4, <2>5, <2>6 DEF Quiet
<1> QED BY <1>1, <1>2

\* Neither chats nor refusals move anybody.
LEMMA SendQuiet ==
    ASSUME NEW R, RelayOK(R), NEW k, NEW f, NEW Q \in RelaySend(R, k, f),
           \/ f.type \notin Telling
           \/ ~(k \in R.wired /\ k \in R.seats /\ Q = Deliver(R, R.seats \ {k}, f))
    PROVE  /\ Quiet(R, Q)
           /\ \/ k \notin R.wired \/ k \notin R.seats
              \/ Q = Deliver(R, R.seats \ {k}, f)
              \/ f.type = "key" => Q.refused
<1>1. \A code : Quiet(R, Deliver(R, {k}, Failure(code)))
    <2>1. \A code : Failure(code).type \notin Telling
        BY CodesAre DEF Telling
    <2> QED BY <2>1, DeliverQuiet
<1>2. CASE k \notin R.wired
    BY <1>2, QuietNot DEF RelaySend
<1>3. CASE k \in R.wired /\ k \notin R.seats
    BY <1>1, <1>3 DEF RelaySend
<1>4. CASE k \in R.wired /\ k \in R.seats /\ Q = Deliver(R, R.seats \ {k}, f)
    BY <1>4, DeliverQuiet
<1>5. CASE \E S \in {R} : Q = [Fault(Deliver(S, {k}, Failure("RATE_LIMITED")))
                                 EXCEPT !.refused = @ \/ f.type = "key"]
    <2> DEFINE D == Deliver(R, {k}, Failure("RATE_LIMITED"))
               E == Fault(D)
    <2>1. Quiet(R, D) /\ RelayShaped(D)
        BY <1>1, DeliverIs DEF RelayOK
    <2>2. Q = [E EXCEPT !.refused = @ \/ f.type = "key"]
        BY <1>5
    <2> HIDE DEF D
    <2>3. Quiet(D, E) /\ RelayShaped(E)
        BY <2>1, FaultQuiet
    <2> HIDE DEF E
    <2>4. /\ Q.seats = E.seats /\ Q.wired = E.wired /\ Q.dying = E.dying
          /\ Q.pruned = E.pruned /\ Q.net = E.net
          /\ Q.refused = (E.refused \/ f.type = "key")
        BY <2>2, <2>3 DEF RelayShaped, RelayFields
    <2>5. Quiet(E, Q)
        BY <2>4, TablesQuiet DEF Alive
    <2> QED BY <2>1, <2>3, <2>4, <2>5, QuietTwice
<1>6. k \in R.wired /\ k \in R.seats =>
      Q = Deliver(R, R.seats \ {k}, f)
      \/ \E S \in {R} : Q = [Fault(Deliver(S, {k}, Failure("RATE_LIMITED")))
                               EXCEPT !.refused = @ \/ f.type = "key"]
    BY DEF RelaySend
<1> QED BY <1>2, <1>3, <1>4, <1>5, <1>6

LEMMA CloseEventQuiet ==
    ASSUME RelayOK(relay), NEW k, CloseEvent(k)
    PROVE  Quiet(relay, relay')
<1> DEFINE S == RelayLeave(relay, k)
           Q == [S EXCEPT !.ended = @ \cup {k}]
<1>1. Quiet(relay, S) /\ RelayShaped(S)
    BY LeaveQuiet, LeaveServes DEF Served, RelayOK
<1>2. relay' = Q
    BY DEF CloseEvent
<1> HIDE DEF S
<1>3. /\ Q.seats = S.seats /\ Q.wired = S.wired /\ Q.dying = S.dying
      /\ Q.pruned = S.pruned /\ Q.refused = S.refused /\ Q.net = S.net
    BY <1>1 DEF RelayShaped, RelayFields
<1> HIDE DEF Q
<1>4. Quiet(S, Q)
    BY <1>3, TablesQuiet DEF Alive
<1> QED BY <1>1, <1>2, <1>4, QuietTwice

\* Nobody is left of an expired session.
LEMMA ExpiredQuiet ==
    ASSUME NEW R, RelayOK(R)
    PROVE  Quiet(R, Expired(R)) /\ RelayOK(Expired(R))
<1> DEFINE K == R.seats
           A == Deliver(R, K, Frame("SESSION_EXPIRED"))
           B == Deliver(A, K, Frame("close"))
           C == Fault(B)
           Q == [C EXCEPT !.exists = FALSE, !.seats = {}, !.dying = @ \cup K]
<1>1. Expired(R) = Q
    BY DEF Expired
<1>2. /\ RelayShaped(A) /\ A.wired \subseteq Sockets
      /\ A.pruned = R.pruned /\ A.refused = R.refused
    BY DeliverIs, DeliverLeaves DEF RelayOK
<1> HIDE DEF A
<1>3. RelayShaped(B) /\ B.pruned = A.pruned /\ B.refused = A.refused
    BY <1>2, DeliverIs, DeliverLeaves
<1> HIDE DEF B
<1>4. RelayShaped(C) /\ C.pruned = B.pruned /\ C.refused = B.refused
    BY <1>3, FaultQuiet
<1> HIDE DEF C
<1>5. Q.seats = {} /\ Q.pruned = C.pruned /\ Q.refused = C.refused
    <2> HIDE DEF K
    <2> QED BY <1>4 DEF RelayShaped, RelayFields
<1> HIDE DEF Q
<1>6. RelayOK(Expired(R))
    BY ExpiredServes DEF Served
<1> QED BY <1>1, <1>2, <1>3, <1>4, <1>5, <1>6 DEF Quiet, Alive

\* A failure tells of nobody.
LEMMA FailureQuiet ==
    ASSUME NEW R, RelayOK(R), NEW K, NEW code
    PROVE  Quiet(R, Deliver(R, K, Failure(code)))
<1>1. Failure(code).type \notin Telling
    BY CodesAre DEF Telling
<1> QED BY <1>1, DeliverQuiet

LEMMA LimitedQuiet ==
    ASSUME NEW R, RelayOK(R), NEW k, NEW Q \in Limited(R, k)
    PROVE  Quiet(R, Q)
<1> DEFINE S == Deliver(R, {k}, Failure("RATE_LIMITED"))
<1>1. Q = Fault(S)
    BY DEF Limited
<1>2. Quiet(R, S) /\ RelayShaped(S)
    BY FailureQuiet, DeliverIs DEF RelayOK
<1> HIDE DEF S
<1> QED BY <1>1, <1>2, FaultQuiet, QuietTwice

LEMMA TooLateQuiet ==
    ASSUME NEW R, RelayOK(R), NEW k, NEW Q \in TooLate(R, k)
    PROVE  Quiet(R, Q)
<1>1. Q = Deliver(Expired(R), {k}, Failure("SESSION_EXPIRED"))
    BY DEF TooLate
<1> QED BY <1>1, ExpiredQuiet, FailureQuiet, QuietTwice

\* A session with room has one participant at most.
LEMMA RoomIsFor ==
    ASSUME NEW R, IsFiniteSet(R.seats), ~Full(R)
    PROVE  \A x, y \in R.seats \ R.dying : x = y
<1> DEFINE S == R.seats \ R.dying
<1> SUFFICES ASSUME NEW x \in S, NEW y \in S, x # y PROVE FALSE
    OBVIOUS
<1>1. IsFiniteSet(S) /\ Cardinality(S) \in Nat
    BY FS_Subset, FS_CardinalityType
<1>2. Cardinality({x, y}) = 2
    <2>1. IsFiniteSet({x}) /\ Cardinality({x}) = 1
        BY FS_Singleton
    <2>2. Cardinality({x} \cup {y}) = Cardinality({x}) + 1
        BY <2>1, FS_AddElement
    <2>3. {x} \cup {y} = {x, y}
        OBVIOUS
    <2> QED BY <2>1, <2>2, <2>3
<1>3. Cardinality({x, y}) <= Cardinality(S)
    <2>1. {x, y} \subseteq S
        OBVIOUS
    <2> QED BY <1>1, <2>1, FS_Subset
<1> QED BY <1>1, <1>2, <1>3 DEF Full

\* Q is S but for a frame that everyone seated is sent, with the lines of R.
Tells(R, S, Q, f) ==
    /\ Q.seats = S.seats /\ Q.pruned = S.pruned /\ Q.refused = S.refused
    /\ Alive(Q) = Alive(S)
    /\ \A j \in Alive(Q) : IsSeq(R.net[j[1]]) /\ Q.net[j[1]] = Append(R.net[j[1]], f)

LEMMA DeliverTells ==
    ASSUME NEW R, RelayOK(R), NEW S, RelayShaped(S), S.wired = R.wired, S.net = R.net,
           NEW f
    PROVE  Tells(R, S, Deliver(S, S.seats, f), f)
<1> DEFINE Q == Deliver(S, S.seats, f)
<1>1. /\ Q.seats = S.seats /\ Q.wired = S.wired /\ Q.dying = S.dying
      /\ \A c \in Clients :
           Q.net[c] = IF Socket(c) \in (S.seats \cap S.wired) \ S.dying
                      THEN Append(S.net[c], f) ELSE S.net[c]
    BY DeliverIs DEF RelayOK
<1>2. Q.pruned = S.pruned /\ Q.refused = S.refused
    BY DeliverLeaves
<1> HIDE DEF Q
<1>3. ASSUME NEW j \in Alive(Q)
      PROVE  IsSeq(R.net[j[1]]) /\ Q.net[j[1]] = Append(R.net[j[1]], f)
    <2>1. j[1] \in Clients /\ j = Socket(j[1]) /\ IsSeq(R.net[j[1]])
        BY <1>1, <1>3, LineIs DEF Alive
    <2>2. j \in (S.seats \cap S.wired) \ S.dying
        BY <1>1, <1>3 DEF Alive
    <2> QED BY <1>1, <2>1, <2>2
<1> QED BY <1>1, <1>2, <1>3 DEF Q, Alive, Tells

LEMMA TryJoinSeats ==
    ASSUME NEW R, RelayOK(R), IsFiniteSet(R.seats), ~Full(R), NEW k
    PROVE  Seated(R, TryJoin(R, k), k)
<1> DEFINE alive == R.seats \ R.dying
           S == [R EXCEPT !.seats = alive \cup {k}, !.pruned = @ \/ alive # R.seats]
           f == Frame(IF alive = {} THEN "SESSION_CREATED" ELSE "PARTNER_JOINED")
           Q == TryJoin(R, k)
<1>1. /\ RelayShaped(S) /\ S.seats = alive \cup {k}
      /\ S.pruned = (R.pruned \/ alive # R.seats) /\ S.refused = R.refused
      /\ S.wired = R.wired /\ S.dying = R.dying /\ S.net = R.net
    <2> HIDE DEF alive
    <2> QED BY DEF RelayOK, RelayShaped, RelayFields
<1>2. Q = Deliver(S, S.seats, f)
    <2>1. CASE alive = {}
        BY <1>1, <2>1 DEF TryJoin
    <2>2. CASE alive # {}
        BY <1>1, <2>2 DEF TryJoin
    <2> QED BY <2>1, <2>2
<1>3. f.type = IF alive = {} THEN "SESSION_CREATED" ELSE "PARTNER_JOINED"
    BY DEF Frame
<1> HIDE DEF S, Q, f
<1>4. Tells(R, S, Q, f)
    BY <1>1, <1>2, DeliverTells
<1>5. IsFiniteSet(alive \cup {k})
    <2>1. IsFiniteSet(alive)
        BY FS_Subset
    <2> QED BY <2>1, FS_AddElement
<1>6. \A x, y \in alive : x = y
    BY RoomIsFor
<1>7. Alive(S) \subseteq Alive(R) \cup {k}
    BY <1>1 DEF Alive
<1> QED BY <1>1, <1>3, <1>4, <1>5, <1>6, <1>7 DEF Seated, Tells, Q

LEMMA JoinSeats ==
    ASSUME NEW R, RelayOK(R), IsFiniteSet(R.seats), NEW k
    PROVE  Quiet(R, RelayJoin(R, k)) \/ Seated(R, RelayJoin(R, k), k)
<1>1. CASE ~R.exists
    BY <1>1, CodesAre, DeliverQuiet DEF RelayJoin, Telling
<1>2. CASE R.exists /\ Full(R)
    <2> DEFINE S == [R EXCEPT !.retries = @ \cup {k}]
    <2>1. /\ S.seats = R.seats /\ S.wired = R.wired /\ S.dying = R.dying
          /\ S.pruned = R.pruned /\ S.refused = R.refused /\ S.net = R.net
        BY DEF RelayOK, RelayShaped, RelayFields
    <2>2. RelayJoin(R, k) = S
        BY <1>2 DEF RelayJoin
    <2> HIDE DEF S
    <2> QED BY <2>1, <2>2, TablesQuiet DEF Alive
<1>3. CASE R.exists /\ ~Full(R)
    BY <1>3, TryJoinSeats DEF RelayJoin
<1> QED BY <1>1, <1>2, <1>3

LEMMA CreateSeats ==
    ASSUME NEW R, RelayOK(R), NEW k
    PROVE  Quiet(R, RelayCreate(R, k)) \/ Seated(R, RelayCreate(R, k), k)
<1>1. CASE R.exists /\ R.seats # {}
    BY <1>1, CodesAre, DeliverQuiet DEF RelayCreate, Telling
<1>2. CASE ~(R.exists /\ R.seats # {})
    <2> DEFINE S == [R EXCEPT !.exists = TRUE, !.seats = {k}]
               f == Frame("SESSION_CREATED")
               Q == Deliver(S, S.seats, f)
    <2>1. /\ RelayShaped(S) /\ S.seats = {k} /\ S.pruned = R.pruned /\ S.refused = R.refused
          /\ S.wired = R.wired /\ S.dying = R.dying /\ S.net = R.net
        BY DEF RelayOK, RelayShaped, RelayFields
    <2>2. RelayCreate(R, k) = Q
        BY <1>2, <2>1 DEF RelayCreate
    <2>3. f.type = "SESSION_CREATED"
        BY DEF Frame
    <2> HIDE DEF S, f
    <2>4. Tells(R, S, Q, f)
        BY <2>1, DeliverTells
    <2> HIDE DEF Q
    <2>5. R.seats = {}
        BY <1>2 DEF RelayOK
    <2>6. IsFiniteSet({k})
        BY FS_Singleton
    <2>7. Alive(S) \subseteq {k}
        BY <2>1 DEF Alive
    <2> QED BY <2>1, <2>2, <2>3, <2>4, <2>5, <2>6, <2>7 DEF Seated, Tells
<1> QED BY <1>1, <1>2

\* Whatever a request is answered with.
LEMMA AnswersSeat ==
    ASSUME NEW R, RelayOK(R), IsFiniteSet(R.seats), NEW k,
           NEW Q \in CreateAnswers(R, k) \cup JoinAnswers(R, k)
    PROVE  Quiet(R, Q) \/ Seated(R, Q, k)
<1>1. Q \in {RelayCreate(R, k), RelayJoin(R, k)} \cup Limited(R, k) \cup TooLate(R, k)
    BY DEF CreateAnswers, JoinAnswers
<1> QED BY <1>1, CreateSeats, JoinSeats, LimitedQuiet, TooLateQuiet

LEMMA JoinRetrySeats ==
    ASSUME RelayOK(relay), IsFiniteSet(relay.seats), NEW k, JoinRetryFires(k)
    PROVE  Quiet(relay, relay') \/ Seated(relay, relay', k)
<1> DEFINE R == [relay EXCEPT !.retries = @ \ {k}]
<1>1. /\ RelayShaped(R) /\ R.exists = relay.exists /\ R.seats = relay.seats
      /\ R.wired = relay.wired /\ R.dying = relay.dying /\ R.pruned = relay.pruned
      /\ R.retries = relay.retries \ {k} /\ R.refused = relay.refused /\ R.net = relay.net
    BY DEF RelayOK, RelayShaped, RelayFields
<1>2. \/ relay' = IF k \in R.seats THEN R
                  ELSE IF ~R.exists THEN Deliver(R, {k}, Failure("SESSION_NOT_FOUND"))
                  ELSE IF Full(R) THEN Deliver(R, {k}, Failure("SESSION_FULL"))
                  ELSE TryJoin(R, k)
      \/ relay' \in TooLate(R, k)
    BY DEF JoinRetryFires
<1> HIDE DEF R
<1>3. Quiet(relay, R) /\ RelayOK(R) /\ Alive(R) = Alive(relay)
    <2>1. Served(relay, R, {}, {})
        BY <1>1, TablesServe DEF RelayOK, Known
    <2> QED BY <1>1, <2>1, TablesQuiet DEF Alive, Served
<1>4. \A code : Quiet(relay, Deliver(R, {k}, Failure(code)))
    <2>1. \A code : Failure(code).type \notin Telling
        BY CodesAre DEF Telling
    <2> QED BY <1>3, <2>1, DeliverQuiet, QuietTwice
<1>5. ~Full(R) => Seated(relay, TryJoin(R, k), k)
    <2>1. ASSUME ~Full(R) PROVE Seated(R, TryJoin(R, k), k)
        BY <1>1, <1>3, <2>1, TryJoinSeats
    <2> QED BY <1>1, <1>3, <2>1, SeatedSame
<1>6. relay' \in TooLate(R, k) => Quiet(relay, relay')
    BY <1>3, TooLateQuiet, QuietTwice
<1> QED BY <1>2, <1>3, <1>4, <1>5, <1>6

LEMMA RelayStepSeats ==
    ASSUME RelayOK(relay), IsFiniteSet(relay.seats), RelayStep
    PROVE  \/ Quiet(relay, relay')
           \/ \E k : JoinRetryFires(k) /\ Seated(relay, relay', k)
<1>1. ASSUME NEW k, SocketDies(k) PROVE Quiet(relay, relay')
    <2> DEFINE Q == [relay EXCEPT !.dying = @ \cup {k}]
    <2>1. /\ Q.seats = relay.seats /\ Q.wired = relay.wired /\ Q.pruned = relay.pruned
          /\ Q.refused = relay.refused
          /\ Q.dying = relay.dying \cup {k} /\ Q.net = relay.net
        BY DEF RelayOK, RelayShaped, RelayFields
    <2>2. relay' = Q
        BY <1>1 DEF SocketDies
    <2> HIDE DEF Q
    <2> QED BY <2>1, <2>2, TablesQuiet DEF Alive
<1>2. ASSUME GraceEnds PROVE Quiet(relay, relay')
    <2> DEFINE Q == [relay EXCEPT !.exists = FALSE]
    <2>1. /\ Q.seats = relay.seats /\ Q.wired = relay.wired /\ Q.pruned = relay.pruned
          /\ Q.refused = relay.refused
          /\ Q.dying = relay.dying /\ Q.net = relay.net
        BY DEF RelayOK, RelayShaped, RelayFields
    <2>2. relay' = Q
        BY <1>2 DEF GraceEnds
    <2> HIDE DEF Q
    <2> QED BY <2>1, <2>2, TablesQuiet DEF Alive
<1> QED BY <1>1, <1>2, CloseEventQuiet, JoinRetrySeats, ExpiredQuiet DEF RelayStep, Expire

----------------------------------------------------------------------------
(* Whoever is seated goes by the right key, step by step.                  *)

LEMMA SeatIs ==
    ASSUME NEW C, NEW c, NEW d
    PROVE  /\ Seat(C, c)[1] = c
           /\ Seat(C, c) = Seat(C, d) => c = d
           /\ Seat(client, c) = Socket(c)
BY DEF Seat, Socket

LEMMA QuietPairs ==
    ASSUME NEW C, NEW R, PairsOK(C, R), NEW Q, Quiet(R, Q)
    PROVE  PairsOK(C, Q)
<1>1. IsFiniteSet(Q.seats)
    BY FS_Subset DEF Quiet, PairsOK
<1>2. ASSUME ~Q.pruned PROVE ~R.pruned /\ AtMostTwo(R.seats) /\ AtMostTwo(Q.seats)
    BY <1>2 DEF Quiet, PairsOK, AtMostTwo
<1>3. ASSUME ~Q.pruned, NEW c \in Clients, Seat(C, c) \in Alive(Q), ~C[c].raced
      PROVE  Opposite(C, Q, c) /\ Expecting(C, Q, c)
    <2> DEFINE r == C[c]
               s == R.net[c]
               l == Q.net[c]
    <2>1. Seat(C, c) \in Alive(R) /\ ~R.pruned /\ Seat(C, c)[1] = c
        BY <1>3, SeatIs DEF Quiet
    <2>2. Opposite(C, R, c) /\ Expecting(C, R, c)
        BY <1>3, <2>1 DEF PairsOK
    <2>3. CASE Q.seats = R.seats
        <3>1. Alike(s, l)
            BY <1>3, <2>1, <2>3 DEF Quiet
        <3>2. ASSUME NEW d \in Clients \ {c}, Seat(C, d) \in Alive(Q)
              PROVE  Seat(C, d) \in Alive(R) /\ (Keyed(C[d], R.net[d]) => Keyed(C[d], Q.net[d]))
            <4>1. Seat(C, d) \in Alive(R) /\ Alike(R.net[d], Q.net[d])
                BY <2>3, <3>2, SeatIs DEF Quiet
            <4> QED BY <4>1 DEF Alike
        <3>3. Opposite(C, Q, c)
            BY <2>2, <2>3, <3>1, <3>2 DEF Opposite, Alike
        <3>4. r.sent = TRUE /\ ~HasLeft(l) => Informed(C, Q, c)
            <4>1. R.refused => Q.refused
                BY DEF Quiet
            <4>2. Informed(C, R, c) => Informed(C, Q, c)
                BY <3>2, <4>1 DEF Informed
            <4> QED BY <2>2, <3>1, <4>2 DEF Expecting, Alike
        <3>5. Prompt(r, l) /\ Diligent(r)
            BY <2>2, <3>1 DEF Expecting, Alike
        <3>6. /\ Q.seats = {Seat(C, c)} => ~Owes(r, l)
              /\ Q.seats # {Seat(C, c)} => Greeted(r, l) /\ Owes(r, l)
            BY <2>2, <2>3, <3>1 DEF Expecting, Alike
        <3> QED BY <3>3, <3>4, <3>5, <3>6 DEF Expecting
    <2>4. CASE Q.seats # R.seats
        <3>1. Parted(s, l)
            BY <1>3, <2>1, <2>4 DEF Quiet
        <3>2. Q.seats = {Seat(C, c)}
            <4>1. PICK x \in R.seats : x \notin Q.seats
                BY <2>4 DEF Quiet
            <4>2. Seat(C, c) \in Q.seats
                BY <1>3 DEF Alive
            <4>3. \A y \in Q.seats : y = Seat(C, c)
                BY <1>2, <1>3, <4>1, <4>2 DEF AtMostTwo, Quiet
            <4> QED BY <4>2, <4>3
        <3>3. \A d \in Clients \ {c} : Seat(C, d) \notin Alive(Q)
            BY <3>2, SeatIs DEF Alive
        <3>4. Opposite(C, Q, c) /\ Informed(C, Q, c)
            BY <3>1, <3>3 DEF Opposite, Informed, Parted
        <3>5. Prompt(r, l) /\ Diligent(r) /\ ~Owes(r, l)
            BY <2>2, <3>1 DEF Expecting, Parted
        <3> QED BY <3>2, <3>4, <3>5 DEF Expecting
    <2> QED BY <2>3, <2>4
<1> QED BY <1>1, <1>2, <1>3 DEF PairsOK

\* What whoever has heard of nobody makes of the frame that greets it.
LEMMA FreshExpects ==
    ASSUME NEW r, Fresh(r), NEW s, IsSeq(s), ~News(s), NEW f
    PROVE  LET l == Append(s, f) IN
           /\ f.type = "SESSION_CREATED" => Prompt(r, l) /\ Diligent(r) /\ ~Owes(r, l)
           /\ f.type = "PARTNER_JOINED" =>
                Prompt(r, l) /\ Diligent(r) /\ Greeted(r, l) /\ Owes(r, l)
<1> DEFINE l == Append(s, f)
<1>1. \A i \in 1..Len(s) : s[i].type \notin {"key", "PARTNER_JOINED", "PARTNER_LEFT"}
    BY DEF News, Last, Elements
<1>2. Diligent(r) /\ ~Due(r)
    <2>1. r.lock = <<>> /\ r.received = FALSE /\ r.sent = FALSE
        BY DEF Fresh
    <2> QED BY <2>1, Empty DEF Diligent, Due
<1>3. Prompt(r, s) /\ ~Owes(r, s)
    BY <1>1, <1>2 DEF Prompt, Owes, Stands
<1>4. Agrees(r, s, {})
    BY FreshAgrees
<1>5. Prompt(r, l)
    BY <1>3, <1>4, PromptAppended
<1>6. /\ f.type = "SESSION_CREATED" => ~Owes(r, l)
      /\ f.type = "PARTNER_JOINED" => Greeted(r, l) /\ Owes(r, l)
    BY <1>3, ToldMore
<1> QED BY <1>2, <1>5, <1>6

\* Who takes a seat has heard of nobody, and finds one other at most.
LEMMA SeatedPairs ==
    ASSUME NEW C, NEW R, PairsOK(C, R), NEW Q, NEW k, Seated(R, Q, k),
           \A e \in Clients : Seat(C, e) = k /\ k \in Alive(Q) /\ ~C[e].raced
                                => k \notin R.seats /\ Fresh(C[e]) /\ ~News(R.net[e])
    PROVE  PairsOK(C, Q)
<1>1. IsFiniteSet(Q.seats)
    BY DEF Seated, PairsOK
<1> SUFFICES ASSUME ~Q.pruned
             PROVE  /\ AtMostTwo(Q.seats)
                    /\ \A c \in Clients :
                         Seat(C, c) \in Alive(Q) /\ ~C[c].raced
                            => Opposite(C, Q, c) /\ Expecting(C, Q, c)
    BY <1>1 DEF PairsOK
<1>2. /\ ~R.pruned /\ Q.seats = R.seats \cup {k}
      /\ \A x, y \in R.seats : x = y
    BY DEF Seated
<1>3. AtMostTwo(Q.seats)
    BY <1>2 DEF AtMostTwo
<1>4. ASSUME NEW c \in Clients, Seat(C, c) \in Alive(Q), ~C[c].raced
      PROVE  Opposite(C, Q, c) /\ Expecting(C, Q, c)
    <2> DEFINE r == C[c]
               s == R.net[c]
               l == Q.net[c]
    <2>1. /\ Seat(C, c)[1] = c /\ Seat(C, c) \in Alive(R) \cup {k} /\ IsSeq(s)
        BY <1>4, SeatIs DEF Seated
    <2>2. k \notin R.seats
        <3>1. CASE Seat(C, c) = k
            BY <1>4, <3>1
        <3>2. CASE Seat(C, c) # k
            BY <1>2, <2>1, <3>2 DEF Alive
        <3> QED BY <3>1, <3>2
    <2>3. PICK f : /\ f.type = IF R.seats = {} THEN "SESSION_CREATED" ELSE "PARTNER_JOINED"
                   /\ l = Append(s, f)
        BY <1>4, <2>1, <2>2 DEF Seated
    <2>4. CASE Seat(C, c) = k
        <3>1. Fresh(r) /\ ~News(s)
            BY <1>4, <2>4
        <3>2. \A K : Agrees(r, l, K)
            <4>1. \A K : Agrees(r, s, K)
                BY <3>1, FreshAgrees
            <4> QED BY <2>1, <2>3, <4>1, AppendAgrees
        <3>3. r.sent # TRUE
            BY <3>1 DEF Fresh
        <3>4. /\ f.type = "SESSION_CREATED" => Prompt(r, l) /\ Diligent(r) /\ ~Owes(r, l)
              /\ f.type = "PARTNER_JOINED" =>
                   Prompt(r, l) /\ Diligent(r) /\ Greeted(r, l) /\ Owes(r, l)
            BY <2>1, <2>3, <3>1, FreshExpects
        <3>5. R.seats = {} <=> Q.seats = {Seat(C, c)}
            BY <1>2, <2>2, <2>4
        <3> HIDE DEF r, l
        <3>6. Prompt(r, l) /\ Diligent(r)
              /\ (Q.seats = {Seat(C, c)} => ~Owes(r, l))
              /\ (Q.seats # {Seat(C, c)} => Greeted(r, l) /\ Owes(r, l))
            BY <2>3, <3>4, <3>5
        <3> QED BY <3>2, <3>3, <3>6 DEF Opposite, Expecting, r, l
    <2>5. CASE Seat(C, c) # k
        <3>1. /\ Seat(C, c) \in Alive(R) /\ Seat(C, c) \in R.seats
              /\ Opposite(C, R, c) /\ Expecting(C, R, c)
            BY <1>2, <1>4, <2>1, <2>5 DEF PairsOK, Alive
        <3>2. R.seats = {Seat(C, c)} /\ Q.seats # {Seat(C, c)}
            BY <1>2, <2>5, <3>1
        <3>3. f.type = "PARTNER_JOINED"
            BY <2>3, <3>1
        <3>4. Agrees(r, s, {}) /\ ~Owes(r, s) /\ Prompt(r, s) /\ Diligent(r)
            BY <3>1, <3>2 DEF Opposite, Expecting
        <3>5. \A K : Agrees(r, l, K)
            <4>1. \A K : Agrees(r, s, K)
                BY <3>4, WiderAgrees
            <4> QED BY <2>1, <2>3, <3>3, <4>1, AppendAgrees
        <3>6. Prompt(r, l) /\ Greeted(r, l) /\ Owes(r, l)
            <4>1. Prompt(r, l)
                BY <2>1, <2>3, <3>4, PromptAppended
            <4>2. Greeted(r, l) /\ Owes(r, l)
                BY <2>1, <2>3, <3>3, ToldMore
            <4> QED BY <4>1, <4>2
        <3>7. r.sent = TRUE => HasLeft(l)
            <4>1. r.sent = TRUE => HasLeft(s)
                BY <3>4 DEF Owes, Due, Stands, HasLeft, Elements, Leaving
            <4> QED BY <2>1, <2>3, <4>1, LeftAppended
        <3> QED BY <3>2, <3>4, <3>5, <3>6, <3>7 DEF Opposite, Expecting
    <2> QED BY <2>4, <2>5
<1> QED BY <1>3, <1>4

\* The sender of a key is the only one opposite those it is for.
LEMMA KeyPairs ==
    ASSUME RelayOK(relay), PairsOK(client, relay), NEW c \in Clients,
           Socket(c) \in relay.seats, NEW f, f.type = "key",
           ~client[c].raced => f.key = Spki(client[c].keyPair)
    PROVE  LET Q == Deliver(relay, relay.seats \ {Socket(c)}, f)
           IN  PairsOK(client, Q) /\ Informed(client, Q, c)
<1> DEFINE R == relay
           K == R.seats \ {Socket(c)}
           Q == Deliver(R, K, f)
<1>1. /\ Q.seats = R.seats /\ Q.wired = R.wired /\ Q.dying = R.dying
      /\ \A d \in Clients :
           Q.net[d] = IF Socket(d) \in (K \cap R.wired) \ R.dying
                      THEN Append(R.net[d], f) ELSE R.net[d]
    BY DeliverIs DEF RelayOK
<1>2. Q.pruned = R.pruned /\ Q.refused = R.refused /\ Alive(Q) = Alive(R)
    <2>1. RelayShaped(R)
        BY DEF RelayOK
    <2>2. Q.pruned = R.pruned /\ Q.refused = R.refused
        BY <2>1, DeliverLeaves
    <2> HIDE DEF Q, R, K
    <2> QED BY <1>1, <2>2 DEF Alive
<1> HIDE DEF Q
<1>3. \A d \in Clients : Seat(client, d) = Socket(d) /\ (d # c => Socket(d) # Socket(c))
    BY SeatIs, SocketIs
<1>4. \A d \in Clients : IsSeq(R.net[d])
    BY DEF RelayOK, LinesOK, LineOK
<1>5. Q.net[c] = R.net[c]
    BY <1>1
<1>6. ASSUME NEW d \in Clients, d # c, Seat(client, d) \in Alive(Q)
      PROVE  Q.net[d] = Append(R.net[d], f)
    BY <1>1, <1>2, <1>3, <1>6 DEF Alive
<1>7. ASSUME NEW d \in Clients, d # c, Seat(client, d) \in Alive(Q), NEW r
      PROVE  /\ Keyed(r, Q.net[d])
             /\ Prompt(r, R.net[d]) => Prompt(r, Q.net[d])
             /\ Greeted(r, R.net[d]) => Greeted(r, Q.net[d])
             /\ Owes(r, Q.net[d]) <=> Owes(r, R.net[d])
             /\ HasLeft(Q.net[d]) <=> HasLeft(R.net[d])
    <2>1. Q.net[d] = Append(R.net[d], f) /\ IsSeq(R.net[d])
        BY <1>4, <1>6, <1>7
    <2>2. /\ Keyed(r, Q.net[d])
          /\ Greeted(r, Q.net[d]) <=> Greeted(r, R.net[d])
          /\ Owes(r, Q.net[d]) <=> Owes(r, R.net[d])
        BY <2>1, ToldMore
    <2>3. Prompt(r, R.net[d]) => Prompt(r, Q.net[d])
        BY <2>1, PromptAppended
    <2>4. HasLeft(Q.net[d]) <=> HasLeft(R.net[d])
        BY <2>1, LeftAppended
    <2> QED BY <2>2, <2>3, <2>4
<1>8. Informed(client, Q, c)
    BY <1>7 DEF Informed
<1>9. ASSUME ~Q.pruned, NEW d \in Clients, Seat(client, d) \in Alive(Q), ~client[d].raced
      PROVE  Opposite(client, Q, d) /\ Expecting(client, Q, d)
    <2>1. /\ Opposite(client, R, d) /\ Expecting(client, R, d)
          /\ Seat(client, d) = Socket(d) /\ AtMostTwo(R.seats)
        BY <1>2, <1>3, <1>9 DEF PairsOK
    <2>2. CASE d = c
        <3>1. Q.net[d] = R.net[d]
            BY <1>1, <2>2
        <3> QED BY <1>1, <1>2, <1>8, <2>1, <2>2, <3>1 DEF Opposite, Expecting
    <2>3. CASE d # c
        <3>1. Socket(d) # Socket(c) /\ Socket(d) \in R.seats
            BY <1>2, <1>9, <2>1, <2>3, SocketIs DEF Alive
        <3>2. Q.seats # {Seat(client, d)} /\ R.seats # {Seat(client, d)}
            BY <1>1, <2>1, <3>1
        <3>3. ASSUME NEW e \in Clients \ {d}, Seat(client, e) \in Alive(Q)
              PROVE  e = c
            <4>1. Seat(client, e) = Socket(e) /\ Socket(e) \in R.seats
                BY <1>2, <3>3, SeatIs DEF Alive
            <4> QED BY <2>1, <3>1, <3>3, <4>1, SocketIs DEF AtMostTwo
        <3>4. ASSUME NEW e \in Clients \ {d}, Seat(client, e) \in Alive(Q), ~client[e].raced
              PROVE  Agrees(client[d], Q.net[d], {Spki(client[e].keyPair)})
            <4>1. e = c
                BY <3>3, <3>4
            <4>2. Q.net[d] = Append(R.net[d], f) /\ IsSeq(R.net[d])
                BY <1>4, <1>6, <1>9, <2>3
            <4>3. Agrees(client[d], R.net[d], {Spki(client[e].keyPair)})
                BY <1>2, <2>1, <3>4 DEF Opposite
            <4>4. f.key \in {Spki(client[e].keyPair)}
                BY <3>4, <4>1
            <4> QED BY <4>2, <4>3, <4>4, AppendAgrees
        <3>5. Informed(client, R, d) => Informed(client, Q, d)
            BY <1>2, <1>5, <3>3 DEF Informed
        <3>6. Opposite(client, Q, d)
            BY <3>2, <3>4 DEF Opposite
        <3>7. /\ Prompt(client[d], Q.net[d]) /\ Diligent(client[d])
              /\ Greeted(client[d], Q.net[d]) /\ Owes(client[d], Q.net[d])
              /\ HasLeft(Q.net[d]) <=> HasLeft(R.net[d])
            BY <1>7, <1>9, <2>1, <2>3, <3>2 DEF Expecting
        <3> QED BY <2>1, <3>2, <3>5, <3>6, <3>7 DEF Expecting
    <2> QED BY <2>2, <2>3
<1> QED BY <1>1, <1>2, <1>8, <1>9 DEF Q, PairsOK

----------------------------------------------------------------------------
(* What a step of a client means for who sits opposite.                    *)

\* The key pair stays, no key of another is taken up or lost, a partner is
\* still shown, and who was to send a key is still, with nobody new among them.
Steady(r, s) ==
    /\ s.conn = r.conn
    /\ ~s.raced =>
        /\ ~r.raced /\ s.keyPair = r.keyPair
        /\ Trusted(s) \subseteq Trusted(r) /\ (Trusted(r) # {} => Trusted(s) # {})
        /\ Due(s) => Due(r) \/ Trusted(r) # {}
        /\ Greets(r) => Greets(s)
        /\ Diligent(r) => Diligent(s) /\ (Due(r) => Due(s))

\* Nor is a key sent.
Loyal(r, s) == Steady(r, s) /\ (~s.raced /\ s.sent = TRUE => r.sent = TRUE)

LEMMA LoyalTwice ==
    ASSUME NEW r, NEW q, NEW s, Loyal(r, q), Loyal(q, s)
    PROVE  Loyal(r, s)
BY DEF Loyal, Steady

\* What its line brings to a client that is steady.
LEMMA SteadyHears ==
    ASSUME NEW r, NEW s, Steady(r, s), ~s.raced, NEW l
    PROVE  /\ \A K : Agrees(r, l, K) => Agrees(s, l, K)
           /\ Prompt(r, l) => Prompt(s, l)
           /\ Agrees(r, l, {}) /\ ~Owes(r, l) => ~Owes(s, l)
           /\ Greeted(r, l) => Greeted(s, l)
           /\ Keyed(r, l) => Keyed(s, l)
           /\ Diligent(r) => Diligent(s) /\ (Owes(r, l) => Owes(s, l))
<1>1. /\ Trusted(s) \subseteq Trusted(r) /\ (Trusted(r) # {} => Trusted(s) # {})
      /\ Due(s) => Due(r) \/ Trusted(r) # {}
      /\ Greets(r) => Greets(s)
      /\ Diligent(r) => Diligent(s) /\ (Due(r) => Due(s))
    BY DEF Steady
<1>2. /\ \A K : Agrees(r, l, K) => Agrees(s, l, K)
      /\ Prompt(r, l) => Prompt(s, l)
    BY <1>1 DEF Agrees, Prompt
<1>3. ASSUME Agrees(r, l, {}), ~Owes(r, l) PROVE ~Owes(s, l)
    <2>1. (\A j \in 1..Len(l) : l[j].type \notin Leaving) => Trusted(r) = {}
        BY <1>3 DEF Agrees, HasLeft, Elements, Leaving
    <2> QED BY <1>1, <1>3, <2>1 DEF Owes, Stands
<1>4. /\ Greeted(r, l) => Greeted(s, l)
      /\ Diligent(r) => (Owes(r, l) => Owes(s, l))
      /\ Keyed(r, l) => Keyed(s, l)
    BY <1>1 DEF Greeted, Owes, Keyed, Stands
<1> QED BY <1>1, <1>2, <1>3, <1>4

\* The client c has become s, the others are as they were.
Now(C, D, c, s) == D[c] = s /\ \A d \in Clients \ {c} : D[d] = C[d]

LEMMA StepPairs ==
    ASSUME NEW C, NEW R, PairsOK(C, R), NEW c \in Clients, NEW s, NEW D, Now(C, D, c, s),
           \/ s.raced
           \/ <<c, s.conn>> \notin Alive(R)
           \/ /\ Steady(C[c], s)
              /\ s.sent = TRUE => C[c].sent = TRUE \/ Informed(C, R, c)
    PROVE  PairsOK(D, R)
<1>1. \A d \in Clients \ {c} : Seat(D, d) = Seat(C, d) /\ D[d] = C[d]
    BY DEF Now, Seat
<1>2. ASSUME Seat(D, c) \in Alive(R), ~D[c].raced
      PROVE  /\ Seat(C, c) = Seat(D, c) /\ ~C[c].raced /\ Steady(C[c], D[c])
             /\ D[c].sent = TRUE => C[c].sent = TRUE \/ Informed(C, R, c)
    <2>1. /\ Steady(C[c], s) /\ D[c] = s
          /\ s.sent = TRUE => C[c].sent = TRUE \/ Informed(C, R, c)
        BY <1>2 DEF Now, Seat
    <2> QED BY <1>2, <2>1 DEF Steady, Seat
<1>3. ASSUME NEW e \in Clients, Seat(D, e) \in Alive(R), ~D[e].raced
      PROVE  /\ Seat(C, e) = Seat(D, e) /\ ~C[e].raced /\ D[e].keyPair = C[e].keyPair
             /\ D[e].sent = TRUE => C[e].sent = TRUE \/ Informed(C, R, e)
             /\ \A l : /\ \A K : Agrees(C[e], l, K) => Agrees(D[e], l, K)
                       /\ Prompt(C[e], l) => Prompt(D[e], l)
                       /\ Agrees(C[e], l, {}) /\ ~Owes(C[e], l) => ~Owes(D[e], l)
                       /\ Greeted(C[e], l) => Greeted(D[e], l)
                       /\ Keyed(C[e], l) => Keyed(D[e], l)
                       /\ Diligent(C[e]) => Diligent(D[e]) /\ (Owes(C[e], l) => Owes(D[e], l))
    <2>1. CASE e = c
        <3>1. /\ Seat(C, e) = Seat(D, e) /\ ~C[e].raced /\ Steady(C[e], D[e])
              /\ D[e].sent = TRUE => C[e].sent = TRUE \/ Informed(C, R, e)
            BY <1>2, <1>3, <2>1
        <3>2. D[e].keyPair = C[e].keyPair
            BY <1>3, <3>1 DEF Steady
        <3> QED BY <1>3, <3>1, <3>2, SteadyHears
    <2>2. CASE e # c
        BY <1>1, <1>3, <2>2
    <2> QED BY <2>1, <2>2
<1>4. ASSUME ~R.pruned, NEW e \in Clients, Seat(D, e) \in Alive(R), ~D[e].raced
      PROVE  Opposite(D, R, e) /\ Expecting(D, R, e)
    <2> DEFINE l == R.net[e]
    <2>1. /\ Seat(C, e) = Seat(D, e) /\ ~C[e].raced
          /\ D[e].sent = TRUE => C[e].sent = TRUE \/ Informed(C, R, e)
          /\ \A K : Agrees(C[e], l, K) => Agrees(D[e], l, K)
          /\ Prompt(C[e], l) => Prompt(D[e], l)
          /\ Agrees(C[e], l, {}) /\ ~Owes(C[e], l) => ~Owes(D[e], l)
          /\ Greeted(C[e], l) => Greeted(D[e], l)
          /\ Diligent(C[e]) => Diligent(D[e]) /\ (Owes(C[e], l) => Owes(D[e], l))
        BY <1>3, <1>4
    <2>2. Opposite(C, R, e) /\ Expecting(C, R, e)
        BY <1>4, <2>1 DEF PairsOK
    <2>3. ASSUME NEW d \in Clients \ {e}, Seat(D, d) \in Alive(R), ~D[d].raced
          PROVE  /\ Seat(C, d) \in Alive(R) /\ ~C[d].raced /\ D[d].keyPair = C[d].keyPair
                 /\ Keyed(C[d], R.net[d]) => Keyed(D[d], R.net[d])
        BY <1>3, <2>3
    <2>4. ASSUME NEW d \in Clients \ {e}, Seat(D, d) \in Alive(R), ~D[d].raced
          PROVE  Agrees(D[e], l, {Spki(D[d].keyPair)})
        <3>1. Seat(C, d) \in Alive(R) /\ ~C[d].raced /\ D[d].keyPair = C[d].keyPair
            BY <2>3, <2>4
        <3>2. Agrees(C[e], l, {Spki(C[d].keyPair)})
            BY <2>2, <3>1 DEF Opposite
        <3> QED BY <2>1, <3>1, <3>2
    <2>5. Informed(C, R, e) => Informed(D, R, e)
        BY <2>3 DEF Informed
    <2>6. Opposite(D, R, e)
        BY <2>1, <2>2, <2>4 DEF Opposite
    <2>7. D[e].sent = TRUE /\ ~HasLeft(l) => Informed(D, R, e)
        BY <2>1, <2>2, <2>5 DEF Expecting
    <2>8. R.seats = {Seat(D, e)} => ~Owes(D[e], l)
        BY <2>1, <2>2 DEF Expecting, Opposite
    <2>9. /\ Prompt(D[e], l) /\ Diligent(D[e])
          /\ R.seats # {Seat(D, e)} => Greeted(D[e], l) /\ Owes(D[e], l)
        BY <2>1, <2>2 DEF Expecting
    <2> QED BY <2>6, <2>7, <2>8, <2>9 DEF Expecting
<1> QED BY <1>4 DEF PairsOK

\* What a frame tells the client leaves it with the right keys.
Hearing(r, s, f) ==
    /\ s.conn = r.conn
    /\ ~s.raced =>
        /\ ~r.raced /\ s.keyPair = r.keyPair
        /\ IF f.type = "PARTNER_LEFT"
           THEN Trusted(s) = {} /\ ~Due(s) /\ Diligent(s) /\ s.sent # TRUE
           ELSE /\ Trusted(s) \subseteq Trusted(r) \cup {k \in {f.key} : f.type = "key"}
                /\ f.type = "key" \/ Trusted(r) # {} => Trusted(s) # {}
                /\ f.type = "PARTNER_JOINED" \/ Due(r) => Due(s)
                /\ Due(s) => f.type = "PARTNER_JOINED" \/ Due(r) \/ Trusted(r) # {}
                /\ s.sent = TRUE => r.sent = TRUE
                /\ f.type = "PARTNER_JOINED" \/ (f.type # "SESSION_CREATED" /\ Greets(r))
                     => Greets(s)
                /\ Diligent(r) /\ (f.type = "PARTNER_JOINED" => Trusted(r) = {}) => Diligent(s)

\* The rest of its line, to a client that has heard the head of it.
LEMMA TailHears ==
    ASSUME NEW l, IsSeq(l), l # <<>>, NEW r, NEW s, Hearing(r, s, Head(l)), ~s.raced
    PROVE  LET t == Tail(l) IN
           /\ \A K : Agrees(r, l, K) => Agrees(s, t, K)
           /\ Prompt(r, l) => Prompt(s, t)
           /\ Agrees(r, l, {}) /\ ~Owes(r, l) => ~Owes(s, t)
           /\ Greeted(r, l) => Greeted(s, t)
           /\ Owes(r, l) => Owes(s, t)
           /\ Keyed(r, l) => Keyed(s, t)
           /\ Prompt(r, l) /\ Diligent(r) => Diligent(s)
           /\ s.sent = TRUE /\ ~HasLeft(t) => r.sent = TRUE /\ ~HasLeft(l)
<1> DEFINE t == Tail(l)
           f == Head(l)
<1>1. /\ Len(t) = Len(l) - 1 /\ Len(l) \in Nat /\ Len(l) >= 1
      /\ \A i \in 1..Len(t) : t[i] = l[i + 1]
      /\ f = l[1]
    BY Taken
<1>2. \/ Trusted(s) = {}
      \/ f.type # "PARTNER_LEFT"
         /\ Trusted(s) \subseteq Trusted(r) \cup {k \in {f.key} : f.type = "key"}
    BY DEF Hearing
<1>3. /\ \A K : Agrees(r, l, K) => Agrees(s, t, K)
      /\ Prompt(r, l) => Prompt(s, t)
    BY <1>2, TailAgrees, PromptTaken
<1>4. /\ "PARTNER_JOINED" \notin Leaving /\ "PARTNER_JOINED" \notin Parting
      /\ "key" \notin Leaving
      /\ \A x : x \in Leaving <=> x = "PARTNER_LEFT"
      /\ \A x : x \in Parting <=> x = "PARTNER_LEFT" \/ x = "SESSION_CREATED"
    BY DEF Leaving, Parting
<1>5. HasLeft(l) <=> f.type = "PARTNER_LEFT" \/ HasLeft(t)
    <2>1. ASSUME NEW i \in 1..Len(l), i # 1 PROVE l[i] \in Elements(t)
        <3>1. i - 1 \in 1..Len(t) /\ (i - 1) + 1 = i
            BY <1>1, <2>1
        <3> QED BY <1>1, <3>1 DEF Elements
    <2>2. Elements(t) \subseteq Elements(l) /\ f \in Elements(l)
        BY Taken
    <2> QED BY <1>1, <2>1, <2>2 DEF HasLeft, Elements
<1> HIDE DEF t, f
<1>6. Greeted(r, l) => Greeted(s, t)
    <2>1. f.type = "PARTNER_JOINED" \/ (f.type \notin Parting /\ Greets(r)) => Greets(s)
        BY <1>4 DEF Hearing, f
    <2> QED BY <1>4, <2>1, StandsTaken DEF Greeted, t, f
<1>7. Owes(r, l) => Owes(s, t)
    <2>1. f.type = "PARTNER_JOINED" \/ (f.type \notin Leaving /\ Due(r)) => Due(s)
        BY <1>4 DEF Hearing, f
    <2> QED BY <1>4, <2>1, StandsTaken DEF Owes, t, f
<1>8. Keyed(r, l) => Keyed(s, t)
    <2>1. f.type = "key" \/ (f.type \notin Leaving /\ Trusted(r) # {}) => Trusted(s) # {}
        BY <1>4 DEF Hearing, f
    <2> QED BY <1>4, <2>1, StandsTaken DEF Keyed, t, f
<1>9. ASSUME Agrees(r, l, {}), ~Owes(r, l), Owes(s, t) PROVE FALSE
    <2>1. CASE Due(s) => f.type = "PARTNER_JOINED" \/ (f.type \notin Leaving /\ Due(r))
        BY <1>4, <1>9, <2>1, StandsTaken DEF Owes, t, f
    <2>2. CASE ~(Due(s) => f.type = "PARTNER_JOINED" \/ (f.type \notin Leaving /\ Due(r)))
        <3>1. f.type # "PARTNER_LEFT" /\ Trusted(r) # {}
            BY <1>4, <2>2 DEF Hearing, f
        <3>2. HasLeft(t)
            BY <1>5, <1>9, <3>1 DEF Agrees
        <3>3. \E i \in 1..Len(t) : t[i].type \in Leaving
            BY <1>4, <3>2 DEF HasLeft, Elements
        <3>4. Stands(t, "PARTNER_JOINED", Leaving, FALSE)
            BY <1>9, <3>3 DEF Owes, Stands
        <3>5. Stands(l, "PARTNER_JOINED", Leaving, Due(r))
            BY <1>4, <3>4, StandsTaken DEF t
        <3> QED BY <1>9, <3>5 DEF Owes
    <2> QED BY <2>1, <2>2
<1>10. ASSUME Prompt(r, l), Diligent(r) PROVE Diligent(s)
    <2>1. f.type = "PARTNER_JOINED" => Trusted(r) = {}
        <3>1. 1 \in 1..Len(l) /\ \A j \in 1..1 : j = 1
            BY <1>1
        <3> QED BY <1>1, <1>10, <3>1 DEF Prompt
    <2> QED BY <1>10, <2>1 DEF Hearing, f
<1>11. s.sent = TRUE /\ ~HasLeft(t) => r.sent = TRUE /\ ~HasLeft(l)
    BY <1>5 DEF Hearing, f
<1> QED BY <1>3, <1>6, <1>7, <1>8, <1>9, <1>10, <1>11 DEF t

\* A frame is heard: it is at the head of the line of c, and then it is not.
LEMMA HeardPairs ==
    ASSUME RelayOK(relay), PairsOK(client, relay), NEW c \in Clients, relay.net[c] # <<>>,
           Head(relay.net[c]).type # "close",
           NEW s, NEW D, Now(client, D, c, s), s.conn = client[c].conn,
           Hearing(client[c], s, Head(relay.net[c])) \/ Socket(c) \notin Alive(relay)
    PROVE  PairsOK(D, Consumed(c))
<1> DEFINE R == relay
           Q == Consumed(c)
<1>1. /\ Q.wired = R.wired /\ Q.dying = R.dying /\ Q.seats = R.seats
      /\ Q.net[c] = Tail(R.net[c])
      /\ \A d \in Clients \ {c} : Q.net[d] = R.net[d]
    BY ConsumedIs
<1>2. Q.pruned = R.pruned /\ Q.refused = R.refused
    BY DEF Consumed, RelayOK, RelayShaped, RelayFields
<1> HIDE DEF Q
<1>3. Alive(Q) = Alive(R)
    BY <1>1 DEF Alive
<1>4. \A d \in Clients : Seat(D, d) = Seat(client, d) /\ Seat(client, d) = Socket(d)
    BY DEF Now, Seat, Socket
<1>5. \A d \in Clients \ {c} : D[d] = client[d]
    BY DEF Now
<1>6. ASSUME NEW e \in Clients, Seat(D, e) \in Alive(Q), ~D[e].raced
      PROVE  /\ ~client[e].raced /\ D[e].keyPair = client[e].keyPair
             /\ \A K : Agrees(client[e], R.net[e], K) => Agrees(D[e], Q.net[e], K)
             /\ Prompt(client[e], R.net[e]) => Prompt(D[e], Q.net[e])
             /\ Agrees(client[e], R.net[e], {}) /\ ~Owes(client[e], R.net[e])
                   => ~Owes(D[e], Q.net[e])
             /\ Greeted(client[e], R.net[e]) => Greeted(D[e], Q.net[e])
             /\ Owes(client[e], R.net[e]) => Owes(D[e], Q.net[e])
             /\ Keyed(client[e], R.net[e]) => Keyed(D[e], Q.net[e])
             /\ Prompt(client[e], R.net[e]) /\ Diligent(client[e]) => Diligent(D[e])
             /\ D[e].sent = TRUE /\ ~HasLeft(Q.net[e])
                   => client[e].sent = TRUE /\ ~HasLeft(R.net[e])
    <2>1. CASE e = c
        <3>1. D[e] = s /\ Q.net[e] = Tail(R.net[e]) /\ IsSeq(R.net[e]) /\ R.net[e] # <<>>
            BY <1>1, <2>1 DEF Now, RelayOK, LinesOK, LineOK
        <3>2. Hearing(client[e], D[e], Head(R.net[e]))
            BY <1>3, <1>4, <1>6, <2>1, <3>1
        <3>3. ~client[e].raced /\ D[e].keyPair = client[e].keyPair
            BY <1>6, <3>2 DEF Hearing
        <3> DEFINE l == R.net[e]
                   a == client[e]
                   b == D[e]
        <3>4. /\ IsSeq(l) /\ l # <<>> /\ Q.net[e] = Tail(l)
              /\ Hearing(a, b, Head(l)) /\ ~b.raced
            BY <1>6, <3>1, <3>2
        <3> HIDE DEF l, a, b
        <3>5. /\ \A K : Agrees(a, l, K) => Agrees(b, Tail(l), K)
              /\ Prompt(a, l) => Prompt(b, Tail(l))
              /\ Agrees(a, l, {}) /\ ~Owes(a, l) => ~Owes(b, Tail(l))
              /\ Greeted(a, l) => Greeted(b, Tail(l))
              /\ Owes(a, l) => Owes(b, Tail(l))
              /\ Keyed(a, l) => Keyed(b, Tail(l))
              /\ Prompt(a, l) /\ Diligent(a) => Diligent(b)
              /\ b.sent = TRUE /\ ~HasLeft(Tail(l)) => a.sent = TRUE /\ ~HasLeft(l)
            BY <3>4, TailHears
        <3> QED BY <3>3, <3>4, <3>5 DEF l, a, b
    <2>2. CASE e # c
        BY <1>1, <1>5, <1>6, <2>2
    <2> QED BY <2>1, <2>2
<1>7. ASSUME ~Q.pruned, NEW e \in Clients, Seat(D, e) \in Alive(Q), ~D[e].raced
      PROVE  Opposite(D, Q, e) /\ Expecting(D, Q, e)
    <2> DEFINE l == R.net[e]
               m == Q.net[e]
    <2>1. /\ ~client[e].raced
          /\ \A K : Agrees(client[e], l, K) => Agrees(D[e], m, K)
          /\ Prompt(client[e], l) => Prompt(D[e], m)
          /\ Agrees(client[e], l, {}) /\ ~Owes(client[e], l) => ~Owes(D[e], m)
          /\ Greeted(client[e], l) => Greeted(D[e], m)
          /\ Owes(client[e], l) => Owes(D[e], m)
          /\ Prompt(client[e], l) /\ Diligent(client[e]) => Diligent(D[e])
          /\ D[e].sent = TRUE /\ ~HasLeft(m) => client[e].sent = TRUE /\ ~HasLeft(l)
        BY <1>6, <1>7
    <2>2. Opposite(client, R, e) /\ Expecting(client, R, e)
        BY <1>2, <1>3, <1>4, <1>7, <2>1 DEF PairsOK
    <2>3. ASSUME NEW d \in Clients \ {e}, Seat(D, d) \in Alive(Q), ~D[d].raced
          PROVE  /\ Seat(client, d) \in Alive(R) /\ ~client[d].raced
                 /\ D[d].keyPair = client[d].keyPair
                 /\ Keyed(client[d], R.net[d]) => Keyed(D[d], Q.net[d])
        BY <1>3, <1>4, <1>6, <2>3
    <2>4. ASSUME NEW d \in Clients \ {e}, Seat(D, d) \in Alive(Q), ~D[d].raced
          PROVE  Agrees(D[e], m, {Spki(D[d].keyPair)})
        <3>1. /\ Seat(client, d) \in Alive(R) /\ ~client[d].raced
              /\ D[d].keyPair = client[d].keyPair
            BY <2>3, <2>4
        <3>2. Agrees(client[e], l, {Spki(client[d].keyPair)})
            BY <2>2, <3>1 DEF Opposite
        <3> QED BY <2>1, <3>1, <3>2
    <2>5. Informed(client, R, e) => Informed(D, Q, e)
        BY <1>2, <2>3 DEF Informed
    <2>6. Opposite(D, Q, e)
        BY <1>1, <1>4, <2>1, <2>2, <2>4 DEF Opposite
    <2>7. D[e].sent = TRUE /\ ~HasLeft(m) => Informed(D, Q, e)
        BY <2>1, <2>2, <2>5 DEF Expecting
    <2>8. Q.seats = {Seat(D, e)} => ~Owes(D[e], m)
        BY <1>1, <1>4, <2>1, <2>2 DEF Expecting, Opposite
    <2>9. /\ Prompt(D[e], m) /\ Diligent(D[e])
          /\ Q.seats # {Seat(D, e)} => Greeted(D[e], m) /\ Owes(D[e], m)
        BY <1>1, <1>4, <2>1, <2>2 DEF Expecting
    <2> QED BY <2>6, <2>7, <2>8, <2>9 DEF Expecting
<1> QED BY <1>1, <1>2, <1>7 DEF Q, PairsOK

----------------------------------------------------------------------------
(* The keys of both ends: calls of the owner, and the requests they make.  *)

LEMMA PairIs ==
    ASSUME PairInv, NEW c \in Clients
    PROVE  /\ HandInv /\ SeatInv /\ RelayOK(relay) /\ PairsOK(client, relay)
           /\ Shaped(client[c]) /\ ClientOK(client[c])
           /\ Socket(c) \in relay.wired => client[c].transport = "open"
           /\ IsFiniteSet(relay.seats)
BY HandedIs, ClientIs DEF PairInv, Fine, PairsOK

LEMMA BecomesIs ==
    ASSUME PairInv, NEW c \in Clients, NEW s, Becomes(c, s)
    PROVE  Now(client, client', c, s)
BY DEF PairInv, HandInv, SeatInv, ClientsOK, Becomes, Now

\* A step that is quiet at the relay.
LEMMA QuietKeeps ==
    ASSUME PairInv, NEW c \in Clients, NEW s, Becomes(c, s), Quiet(relay, relay'),
           s.raced \/ <<c, s.conn>> \notin Alive(relay') \/ Loyal(client[c], s)
    PROVE  PairsOK(client', relay')
<1>1. PairsOK(client, relay')
    BY PairIs, QuietPairs
<1>2. \/ s.raced \/ <<c, s.conn>> \notin Alive(relay')
      \/ Steady(client[c], s) /\ (s.sent = TRUE => client[c].sent = TRUE)
    BY DEF Loyal
<1> QED BY <1>1, <1>2, BecomesIs, StepPairs

\* A client whose connection is gone.
LEMMA DownKeeps ==
    ASSUME PairInv, NEW c \in Clients, NEW s, Becomes(c, s), Quiet(relay, relay'),
           s.conn = client[c].conn, Socket(c) \notin relay'.wired
    PROVE  PairsOK(client', relay')
<1>1. <<c, s.conn>> \notin Alive(relay')
    BY DEF Socket, Alive
<1> QED BY <1>1, QuietKeeps

LEMMA StillKeeps ==
    ASSUME PairInv, UNCHANGED client, Quiet(relay, relay')
    PROVE  PairsOK(client', relay')
BY QuietPairs DEF PairInv

\* A key pair, a connection and keys that a step leaves alone.
SameKeys(r, s) ==
    /\ s.conn = r.conn /\ s.raced = r.raced /\ s.keyPair = r.keyPair /\ s.lock = r.lock
    /\ s.received = r.received /\ s.peerKey = r.peerKey
    /\ s.sent = r.sent /\ s.partner = r.partner /\ s.status \in {r.status, "error", "ready"}

LEMMA SameKeysLoyal ==
    ASSUME NEW r, NEW s, SameKeys(r, s)
    PROVE  Loyal(r, s)
<1>1. Trusted(s) = Trusted(r) /\ (Due(s) <=> Due(r))
    BY DEF SameKeys, Trusted, Due
<1>2. (Greets(r) => Greets(s)) /\ (Diligent(r) => Diligent(s))
    BY DEF SameKeys, Greets, Diligent
<1> QED BY <1>1, <1>2 DEF SameKeys, Steady, Loyal

LEMMA RejectedSame ==
    ASSUME NEW r, Shaped(r), NEW code
    PROVE  LET s == Rejected(r, code) IN
           s.conn = r.conn /\ (SameKeys(r, s) \/ s.dropped = TRUE)
<1> DEFINE k == [r EXCEPT !.call = "keygen", !.asked = "create"]
           i == [r EXCEPT !.call = "idle"]
           s == Rejected(r, code)
<1>1. s \in {r, Drop(r), k, i}
    BY DEF Rejected
<1>2. SameKeys(r, r) /\ SameKeys(r, i) /\ SameKeys(r, k)
    BY DEF SameKeys, Shaped, Fields
<1> HIDE DEF k, i, s
<1>3. Drop(r).conn = r.conn /\ Drop(r).dropped = TRUE
    BY DropIs
<1>4. SameKeys(r, s) \/ s = Drop(r)
    BY <1>1, <1>2
<1>5. SameKeys(r, s) => s.conn = r.conn
    BY DEF SameKeys
<1> QED BY <1>3, <1>4, <1>5 DEF s

LEMMA PairsOfOpen ==
    ASSUME PairInv, NEW c \in Clients, Open(c)
    PROVE  PairsOK(client', relay')
<1> DEFINE r == client[c]
           s == [NewClient EXCEPT
                    !.status = "connecting", !.transport = "opening",
                    !.call = "dial", !.opening = TRUE,
                    !.asked = IF c = Host THEN "create" ELSE "join",
                    !.conn = r.conn, !.made = r.made, !.said = r.said, !.shown = r.shown,
                    !.displays = r.displays]
<1>1. Becomes(c, s) /\ relay' = relay /\ r.dropped
    BY DEF Open
<1>2. s.conn = r.conn
    BY DEF NewClient
<1> HIDE DEF s
<1>3. Socket(c) \notin relay'.wired /\ Quiet(relay, relay')
    BY <1>1, PairIs, QuietNot DEF ClientOK
<1> QED BY <1>1, <1>2, <1>3, DownKeeps

LEMMA PairsOfReconnect ==
    ASSUME PairInv, NEW c \in Clients, Reconnect(c)
    PROVE  PairsOK(client', relay')
<1> DEFINE r == client[c]
           q == ResetCryptoState(r)
           s == [q EXCEPT !.status = "connecting", !.transport = "opening",
                          !.call = "dial", !.opening = FALSE, !.asked = "join"]
<1>1. Becomes(c, s) /\ relay' = HangUp(relay, Socket(c))
    BY DEF Reconnect
<1>2. Shaped(q) /\ q.conn = r.conn
    BY PairIs, ResetHand
<1> HIDE DEF q
<1>3. s.conn = q.conn
    BY <1>2 DEF Shaped, Fields
<1> HIDE DEF s
<1> QED BY <1>1, <1>2, <1>3, PairIs, HungUpQuiet, DownKeeps

LEMMA PairsOfDial ==
    ASSUME PairInv, NEW c \in Clients, AttemptFails(c) \/ ConnectFails(c)
    PROVE  PairsOK(client', relay')
<1> DEFINE b == client[c]
           q == ResetCryptoState(b)
           a == [q EXCEPT !.status = "disconnected"]
           r == [b EXCEPT !.status = "error", !.transport = "closed"]
           i == [r EXCEPT !.call = "idle"]
<1>1. PICK s \in {a, Drop(r), i} : Becomes(c, s) /\ relay' = Fault(relay) /\ b.call = "dial"
    BY DEF AttemptFails, ConnectFails
<1>2. Shaped(q) /\ q.conn = b.conn
    BY PairIs, ResetHand
<1>3. Shaped(r) /\ r.conn = b.conn
    BY PairIs DEF Shaped, Fields
<1> HIDE DEF q, r
<1>4. a.conn = q.conn /\ i.conn = r.conn /\ Drop(r).conn = r.conn
    BY <1>2, <1>3, DropIs DEF Shaped, Fields
<1> HIDE DEF a, i
<1>5. s.conn = b.conn
    BY <1>1, <1>2, <1>3, <1>4
<1>6. RelayShaped(relay) /\ Socket(c) \notin relay.wired
    BY <1>1, PairIs DEF RelayOK, ClientOK
<1>7. Quiet(relay, relay') /\ Socket(c) \notin relay'.wired
    BY <1>1, <1>6, FaultQuiet
<1> QED BY <1>1, <1>5, <1>7, DownKeeps

\* A new connection has no seat.
LEMMA PairsOfConnected ==
    ASSUME PairInv, NEW c \in Clients, Connected(c)
    PROVE  PairsOK(client', relay')
<1> DEFINE r == client[c]
           s == [r EXCEPT
                    !.conn = @ + 1, !.transport = "open", !.status = "connected",
                    !.call = "keygen", !.named = TRUE,
                    !.isHost = (r.asked = "create") \/ (~r.opening /\ @)]
           k == <<c, r.conn + 1>>
           Q == [relay EXCEPT !.wired = @ \cup {k}]
<1>1. Becomes(c, s) /\ relay' = Q
    BY DEF Connected
<1>2. s.conn = r.conn + 1 /\ r.conn \in Nat
    BY PairIs DEF Shaped, Fields
<1>3. /\ Q.seats = relay.seats /\ Q.wired = relay.wired \cup {k} /\ Q.dying = relay.dying
      /\ Q.pruned = relay.pruned /\ Q.net = relay.net
    BY PairIs DEF RelayOK, RelayShaped, RelayFields
<1> HIDE DEF s, Q
<1>4. k \notin relay.seats
    <2>1. k \notin Past
        BY <1>2 DEF Past
    <2> QED BY <2>1, PairIs DEF RelayOK
<1>5. Alive(Q) \subseteq Alive(relay)
    BY <1>3, <1>4 DEF Alive
<1>6. Q.refused = relay.refused
    BY PairIs DEF Q, RelayOK, RelayShaped, RelayFields
<1>7. Quiet(relay, Q)
    BY <1>3, <1>5, <1>6, TablesQuiet
<1>8. <<c, s.conn>> \notin Alive(Q)
    BY <1>2, <1>3, <1>4 DEF Alive
<1> QED BY <1>1, <1>7, <1>8, QuietKeeps

\* The new key pair is made before the connection has a seat.
LEMMA PairsOfRequest ==
    ASSUME PairInv, NEW c \in Clients, CreateSession(c) \/ JoinSession(c)
    PROVE  PairsOK(client', relay')
<1> DEFINE b == client[c]
           q == [b EXCEPT !.made = @ + 1, !.keyPair = <<c, b.made + 1>>]
           j == [q EXCEPT !.received = FALSE, !.sent = FALSE, !.shared = {}]
           k == Socket(c)
<1>1. /\ Shaped(q) /\ q.conn = b.conn /\ q.raced = b.raced /\ q.transport = b.transport
      /\ q.status = b.status /\ q.lock = b.lock
      /\ q.sent = b.sent /\ q.received = b.received /\ q.shared = b.shared
    BY PairIs DEF Shaped, Fields
<1>2. NewKeyPair(c) = q
    BY DEF NewKeyPair
<1> HIDE DEF q
<1>3. /\ Shaped(j) /\ j.conn = q.conn /\ j.raced = q.raced /\ j.transport = q.transport
      /\ j.status = q.status /\ j.lock = q.lock
      /\ j.sent = FALSE /\ j.received = FALSE /\ j.shared = {}
    BY <1>1 DEF Shaped, Fields
<1>4. \/ KeyGenerated(c, q, CreateAnswers(relay, k))
      \/ KeyGenerated(c, j, JoinAnswers(relay, k))
    BY <1>2 DEF CreateSession, JoinSession
<1> HIDE DEF j
<1>5. PICK r \in {q, j}, H \in {CreateAnswers(relay, k), JoinAnswers(relay, k)} :
         KeyGenerated(c, r, H)
    BY <1>4
<1>6. /\ Shaped(r) /\ r.conn = b.conn /\ r.raced = b.raced /\ r.transport = b.transport
    BY <1>1, <1>3, <1>5
<1>7. b.call = "keygen" /\ HandInv /\ (k \in relay.wired => b.transport = "open")
    BY <1>5, PairIs DEF KeyGenerated
<1>8. ~b.raced => Fresh(r) /\ EarlyOK(b, k, relay, relay.net[c])
    <2>1. ~b.raced => Fresh(b) /\ EarlyOK(b, k, relay, relay.net[c])
        BY <1>7, HandedIs DEF HandshakeOK
    <2> QED BY <1>1, <1>3, <1>5, <2>1 DEF Fresh
<1>9. CASE k \in relay.wired
    <2> DEFINE s == [r EXCEPT !.call = "request"]
    <2>1. Becomes(c, s) /\ relay' \in CreateAnswers(relay, k) \cup JoinAnswers(relay, k)
        <3>1. Becomes(c, s) /\ relay' \in H
            BY <1>5, <1>6, <1>7, <1>9 DEF KeyGenerated
        <3> QED BY <1>5, <3>1
    <2>2. /\ s.conn = r.conn /\ s.raced = r.raced /\ s.status = r.status /\ s.lock = r.lock
          /\ s.sent = r.sent /\ s.received = r.received /\ s.shared = r.shared
        BY <1>6 DEF Shaped, Fields
    <2> HIDE DEF s
    <2>3. ASSUME ~s.raced
          PROVE  Fresh(s) /\ k \notin relay.seats /\ ~News(relay.net[c])
        BY <1>6, <1>7, <1>8, <1>9, <2>2, <2>3 DEF Fresh, EarlyOK, Early
    <2>4. Now(client, client', c, s)
        BY <2>1, BecomesIs
    <2>5. <<c, s.conn>> = k
        BY <1>6, <2>2 DEF Socket
    <2>6. PairsOK(client', relay)
        BY <2>3, <2>4, <2>5, PairIs, StepPairs DEF Alive
    <2>7. Quiet(relay, relay') \/ Seated(relay, relay', k)
        <3>1. RelayOK(relay) /\ IsFiniteSet(relay.seats)
            BY PairIs DEF PairsOK
        <3> QED BY <2>1, <3>1, AnswersSeat
    <2>8. ASSUME NEW e \in Clients, Seat(client', e) = k, ~client'[e].raced
          PROVE  k \notin relay.seats /\ Fresh(client'[e]) /\ ~News(relay.net[e])
        <3>1. e = c
            BY <2>8, SeatIs, SocketIs
        <3> QED BY <2>3, <2>4, <2>8, <3>1 DEF Now
    <2> QED BY <2>6, <2>7, <2>8, QuietPairs, SeatedPairs
<1>10. CASE k \notin relay.wired
    <2>1. PICK s \in {Drop(r), [r EXCEPT !.call = "idle"], [r EXCEPT !.call = "request"]} :
             Becomes(c, s) /\ relay' = relay
        BY <1>5, <1>10 DEF KeyGenerated
    <2>2. Drop(r).conn = r.conn
        BY <1>6, DropIs
    <2>3. [r EXCEPT !.call = "idle"].conn = r.conn /\ [r EXCEPT !.call = "request"].conn = r.conn
        BY <1>6 DEF Shaped, Fields
    <2>4. s.conn = b.conn
        BY <1>6, <2>1, <2>2, <2>3
    <2> QED BY <1>10, <2>1, <2>4, QuietNot, DownKeeps
<1> QED BY <1>9, <1>10

\* A request that fails takes the connection along, or nothing.
LEMMA FailedPairs ==
    ASSUME PairInv, NEW c \in Clients, NEW q, Shaped(q), q.conn = client[c].conn,
           Socket(c) \in Alive(relay) => Loyal(client[c], q), NEW code,
           NEW s, s \in {q, Rejected(q, code)}, Becomes(c, s),
           relay' \in {HangsUpIf(c, s, relay), Fault(HangsUpIf(c, s, relay))}
    PROVE  PairsOK(client', relay')
<1> DEFINE Q == HangsUpIf(c, s, relay)
<1>1. Q \in {relay, HangUp(relay, Socket(c))} /\ (s.dropped = TRUE => Q = HangUp(relay, Socket(c)))
    BY DEF HangsUpIf
<1>2. RelayShaped(relay) /\ Quiet(relay, HangUp(relay, Socket(c)))
      /\ RelayShaped(HangUp(relay, Socket(c))) /\ Socket(c) \notin HangUp(relay, Socket(c)).wired
    BY PairIs, HungUpQuiet DEF RelayOK
<1>3. /\ Quiet(relay, Q) /\ RelayShaped(Q)
      /\ s.dropped = TRUE => Socket(c) \notin Q.wired
    BY <1>1, <1>2, QuietNot
<1>4. /\ s.conn = client[c].conn
      /\ Socket(c) \in Alive(relay) => Loyal(client[c], s) \/ s.dropped = TRUE
    <2>1. SameKeys(q, q)
        BY DEF SameKeys
    <2>2. Rejected(q, code).conn = q.conn
          /\ (SameKeys(q, Rejected(q, code)) \/ Rejected(q, code).dropped = TRUE)
        BY RejectedSame
    <2>3. s.conn = q.conn /\ (Loyal(q, s) \/ s.dropped = TRUE)
        BY <2>1, <2>2, SameKeysLoyal
    <2> QED BY <2>3, LoyalTwice
<1> HIDE DEF Q
<1>5. Quiet(relay, relay') /\ (s.dropped = TRUE => Socket(c) \notin relay'.wired)
    <2>1. Quiet(Q, Fault(Q)) /\ Fault(Q).wired = Q.wired
        BY <1>3, FaultQuiet
    <2> QED BY <1>3, <2>1, QuietTwice DEF Q
<1>6. Socket(c) \in Alive(relay') => Socket(c) \in Alive(relay)
    BY <1>5 DEF Quiet
<1>7. <<c, s.conn>> = Socket(c)
    BY <1>4 DEF Socket
<1> QED BY <1>4, <1>5, <1>6, <1>7, DownKeeps, QuietKeeps

LEMMA PairsOfTimeout ==
    ASSUME PairInv, NEW c \in Clients, RequestTimesOut(c)
    PROVE  PairsOK(client', relay')
<1> DEFINE r == client[c]
           s == Rejected(r, "TIMEOUT")
<1>1. Becomes(c, s) /\ relay' = Fault(HangsUpIf(c, s, relay))
    BY DEF RequestTimesOut
<1>2. Shaped(r) /\ Loyal(r, r)
    BY PairIs, SameKeysLoyal DEF SameKeys
<1> HIDE DEF s
<1> QED BY <1>1, <1>2, FailedPairs DEF s

LEMMA PairsOfChat ==
    ASSUME PairInv, NEW c \in Clients, Say(c) \/ Seals(c)
    PROVE  PairsOK(client', relay')
<1> DEFINE r == client[c]
           q == [r EXCEPT !.sealing = Append(@, r.shared)]
<1>1. CASE Say(c)
    <2>1. Becomes(c, q) /\ relay' = relay
        BY <1>1 DEF Say
    <2>2. SameKeys(r, q)
        BY PairIs DEF SameKeys, Shaped, Fields
    <2> HIDE DEF q
    <2> QED BY <2>1, <2>2, QuietNot, SameKeysLoyal, QuietKeeps
<1>2. ASSUME NEW i, Sealed(c, i) PROVE PairsOK(client', relay')
    <2> DEFINE s == [r EXCEPT !.said = @ + 1, !.sealing = Without(@, i)]
               chat == Encrypt([from |-> c, n |-> r.said + 1], r.sealing[i])
               f == [type |-> "chat", chat |-> chat]
    <2>1. Becomes(c, s) /\ (relay' = relay \/ relay' \in RelaySend(relay, Socket(c), f))
        BY <1>2 DEF Sealed
    <2>2. SameKeys(r, s)
        BY PairIs DEF SameKeys, Shaped, Fields
    <2>3. f.type \notin Telling
        BY DEF Telling
    <2> HIDE DEF s, f
    <2>4. Quiet(relay, relay')
        BY <2>1, <2>3, PairIs, QuietNot, SendQuiet
    <2> QED BY <2>1, <2>2, <2>4, SameKeysLoyal, QuietKeeps
<1> QED BY <1>1, <1>2 DEF Seals

LEMMA PairsOfLeave ==
    ASSUME PairInv, NEW c \in Clients, LeaveSession(c)
    PROVE  PairsOK(client', relay')
<1> DEFINE s == Drop(client[c])
           L == RelayLeave(relay, Socket(c))
<1>1. Becomes(c, s) /\ \E R \in {L, relay} : relay' = Fault(HangUp(R, Socket(c)))
    BY DEF LeaveSession
<1>2. s.conn = client[c].conn
    BY PairIs, DropIs
<1> HIDE DEF s
<1>3. RelayOK(relay) /\ RelayOK(L) /\ Quiet(relay, L) /\ Quiet(relay, relay)
    BY PairIs, LeaveServes, LeaveQuiet, QuietNot DEF Served
<1> HIDE DEF L
<1>4. PICK R \in {L, relay} : relay' = Fault(HangUp(R, Socket(c)))
    BY <1>1
<1> DEFINE Q == HangUp(R, Socket(c))
<1>5. Quiet(R, Q) /\ RelayShaped(Q) /\ Socket(c) \notin Q.wired
    BY <1>3, <1>4, HungUpQuiet
<1>6. relay' = Fault(Q)
    BY <1>4
<1> HIDE DEF Q
<1>7. Quiet(Q, relay') /\ relay'.wired = Q.wired
    BY <1>5, <1>6, FaultQuiet
<1>8. Quiet(relay, relay')
    BY <1>3, <1>4, <1>5, <1>7, QuietTwice
<1> QED BY <1>1, <1>2, <1>5, <1>7, <1>8, DownKeeps

----------------------------------------------------------------------------
(* The keys of both ends: frames, and events of the socket.                *)

LEMMA HeardKeeps ==
    ASSUME PairInv, NEW c \in Clients, NEW type, type # "close", Hears(c, type),
           relay' = Consumed(c), NEW s, Becomes(c, s), s.conn = client[c].conn,
           Hearing(client[c], s, Head(relay.net[c])) \/ Socket(c) \notin Alive(relay)
    PROVE  PairsOK(client', relay')
<1>1. relay.net[c] # <<>> /\ Head(relay.net[c]).type # "close"
    BY DEF Hears
<1>2. RelayOK(relay) /\ PairsOK(client, relay) /\ Now(client, client', c, s)
    BY PairIs, BecomesIs
<1> QED BY <1>1, <1>2, HeardPairs

LEMMA SameKeysHears ==
    ASSUME NEW r, NEW s, SameKeys(r, s), NEW f,
           f.type \notin {"PARTNER_LEFT", "key", "PARTNER_JOINED"}
    PROVE  Hearing(r, s, f)
<1>1. Trusted(s) = Trusted(r) /\ (Due(s) <=> Due(r))
    BY DEF SameKeys, Trusted, Due
<1>2. (Greets(r) => Greets(s)) /\ (Diligent(r) => Diligent(s))
    BY DEF SameKeys, Greets, Diligent
<1> QED BY <1>1, <1>2 DEF SameKeys, Hearing

\* A handler that queues up has done nothing yet.
Queued(r, t, s) ==
    /\ s.conn = r.conn /\ s.raced = r.raced /\ s.keyPair = r.keyPair /\ s.sent = r.sent
    /\ s.received = r.received /\ s.partner = r.partner /\ s.status = r.status
    /\ IsSeq(r.lock) =>
        /\ Trusted(s) = Trusted(r) \cup {k \in {t.key} : t.kind = "key"}
        /\ Due(s) <=> Due(r) \/ t.kind = "send"
        /\ s.lock # <<>> /\ Head(s.lock) = IF r.lock = <<>> THEN t ELSE Head(r.lock)

LEMMA QueuedIs ==
    ASSUME NEW r, Shaped(r), NEW t, t.pc = "start"
    PROVE  Queued(r, t, WithHandshakeLock(r, t))
<1> DEFINE s == WithHandshakeLock(r, t)
           l == r.lock
           a == Append(l, t)
<1>1. /\ s.conn = r.conn /\ s.raced = r.raced /\ s.keyPair = r.keyPair
      /\ s.received = r.received /\ s.peerKey = r.peerKey /\ s.lock = a
      /\ s.sent = r.sent /\ s.partner = r.partner /\ s.status = r.status
    BY DEF WithHandshakeLock, Shaped, Fields
<1> HIDE DEF s
<1>2. ASSUME IsSeq(l)
      PROVE  /\ Trusted(s) = Trusted(r) \cup {k \in {t.key} : t.kind = "key"}
             /\ Due(s) <=> Due(r) \/ t.kind = "send"
             /\ a # <<>> /\ Head(a) = IF l = <<>> THEN t ELSE Head(l)
    <2>1. /\ IsSeq(a) /\ Elements(a) = Elements(l) \cup {t}
          /\ Len(a) = Len(l) + 1 /\ Len(l) \in Nat
          /\ \A i \in 1..Len(l) : a[i] = l[i]
          /\ a[Len(l) + 1] = t
        BY <1>2, Appended
    <2>2. a # <<>>
        <3>1. Len(a) # 0 /\ Len(<<>>) = 0
            BY <2>1
        <3> HIDE DEF a
        <3> QED BY <3>1
    <2> HIDE DEF a
    <2>3. Head(a) = a[1]
        BY <2>1, <2>2, Taken
    <2>4. Head(a) = IF l = <<>> THEN t ELSE Head(l)
        <3>1. CASE l = <<>>
            <4>1. Len(l) = 0
                BY <3>1
            <4> QED BY <2>1, <2>3, <3>1, <4>1
        <3>2. CASE l # <<>>
            <4>1. Head(l) = l[1] /\ Len(l) >= 1
                BY <1>2, <3>2, Taken
            <4> QED BY <2>1, <2>3, <3>2, <4>1
        <3> QED BY <3>1, <3>2
    <2> HIDE DEF l
    <2>5. (a # <<>> /\ Head(a).pc \in {"import", "derive"})
             <=> (l # <<>> /\ Head(l).pc \in {"import", "derive"})
        BY <2>2, <2>4
    <2>6. {x.key : x \in {x \in Elements(a) : x.kind = "key" /\ x.pc = "start"}}
             = {x.key : x \in {x \in Elements(l) : x.kind = "key" /\ x.pc = "start"}}
               \cup {k \in {t.key} : t.kind = "key"}
        BY <2>1
    <2>7. Trusted(s) = Trusted(r) \cup {k \in {t.key} : t.kind = "key"}
        BY <1>1, <2>5, <2>6 DEF Trusted, l
    <2>8. Due(s) <=> Due(r) \/ t.kind = "send"
        BY <1>1, <2>1 DEF Due, l
    <2> QED BY <2>2, <2>4, <2>7, <2>8
<1> QED BY <1>1, <1>2 DEF s, Queued

LEMMA QueuedHears ==
    ASSUME NEW r, Shaped(r), ~r.raced => IsSeq(r.lock), NEW t, t.pc = "start", NEW f,
           f.type \in {"key", "chat"}, t.kind = f.type, t.kind = "key" => t.key = f.key
    PROVE  Hearing(r, WithHandshakeLock(r, t), f)
<1> DEFINE s == WithHandshakeLock(r, t)
<1>1. Queued(r, t, s)
    BY QueuedIs
<1> HIDE DEF s
<1>2. ASSUME ~r.raced
      PROVE  /\ Trusted(s) = Trusted(r) \cup {k \in {f.key} : f.type = "key"}
             /\ Due(s) <=> Due(r)
    BY <1>1, <1>2 DEF Queued
<1>3. ASSUME ~r.raced, Diligent(r) PROVE Diligent(s)
    BY <1>1, <1>3 DEF Queued, Diligent
<1>4. Greets(r) => Greets(s)
    BY <1>1 DEF Queued, Greets
<1> QED BY <1>1, <1>2, <1>3, <1>4 DEF s, Queued, Hearing

LEMMA LockIs ==
    ASSUME PairInv, NEW c \in Clients
    PROVE  ~client[c].raced => IsSeq(client[c].lock)
BY PairIs, HandedIs DEF HandshakeOK, LockOK

LEMMA PairsOfCreated ==
    ASSUME PairInv, NEW c \in Clients, OnSessionCreated(c)
    PROVE  PairsOK(client', relay')
<1> DEFINE r == client[c]
           q == Resolved(r, {"create", "join"})
           s == [q EXCEPT !.named = TRUE, !.isHost = TRUE, !.status = "awaiting_partner"]
<1>1. Becomes(c, s) /\ Hears(c, "SESSION_CREATED") /\ relay' = Consumed(c)
    BY DEF OnSessionCreated
<1>2. Shaped(q) /\ SameKeys(r, q)
    BY PairIs DEF Resolved, SameKeys, Shaped, Fields
<1> HIDE DEF q
<1>3. /\ s.conn = r.conn /\ s.raced = r.raced /\ s.keyPair = r.keyPair /\ s.lock = r.lock
      /\ s.received = r.received /\ s.peerKey = r.peerKey /\ s.sent = r.sent
      /\ s.status = "awaiting_partner"
    BY <1>2 DEF SameKeys, Shaped, Fields
<1> HIDE DEF s
<1>4. Trusted(s) = Trusted(r) /\ (Due(s) <=> Due(r))
    BY <1>3 DEF Trusted, Due
<1>5. Diligent(r) => Diligent(s)
    BY <1>3 DEF Diligent
<1>6. Head(relay.net[c]).type = "SESSION_CREATED"
    BY <1>1 DEF Hears
<1>7. Hearing(r, s, Head(relay.net[c]))
    BY <1>3, <1>4, <1>5, <1>6 DEF Hearing
<1> QED BY <1>1, <1>3, <1>7, HeardKeeps

LEMMA PairsOfJoined ==
    ASSUME PairInv, NEW c \in Clients, OnPartnerJoined(c)
    PROVE  PairsOK(client', relay')
<1> DEFINE r == client[c]
           t == Task("send", NoKey, <<>>)
           q == Resolved(r, {"join"})
           p == [q EXCEPT !.status = "handshaking", !.partner = TRUE]
           s == WithHandshakeLock(p, t)
           f == Head(relay.net[c])
<1>1. Becomes(c, s) /\ Hears(c, "PARTNER_JOINED") /\ relay' = Consumed(c)
    BY DEF OnPartnerJoined
<1>2. Shaped(q) /\ SameKeys(r, q)
    BY PairIs DEF Resolved, SameKeys, Shaped, Fields
<1> HIDE DEF q
<1>3. /\ Shaped(p) /\ p.conn = r.conn /\ p.raced = r.raced /\ p.keyPair = r.keyPair
      /\ p.lock = r.lock /\ p.received = r.received /\ p.peerKey = r.peerKey
      /\ p.sent = r.sent /\ p.status = "handshaking" /\ p.partner = TRUE
    BY <1>2 DEF SameKeys, Shaped, Fields
<1> HIDE DEF p
<1>4. t.pc = "start" /\ t.kind = "send" /\ f.type = "PARTNER_JOINED"
    BY <1>1, TaskIs DEF Hears
<1> HIDE DEF t
<1>5. Queued(p, t, s)
    BY <1>3, <1>4, QueuedIs
<1> HIDE DEF s
<1>6. /\ s.conn = r.conn /\ s.raced = r.raced /\ s.keyPair = r.keyPair
      /\ s.sent = r.sent /\ s.received = r.received /\ Greets(s)
    BY <1>3, <1>5 DEF Queued, Greets
<1>7. ASSUME ~r.raced
      PROVE  /\ Trusted(s) = Trusted(r) /\ Due(s)
             /\ s.lock # <<>> /\ Head(s.lock) = IF r.lock = <<>> THEN t ELSE Head(r.lock)
    <2>1. IsSeq(r.lock)
        BY <1>7, LockIs
    <2>2. Trusted(p) = Trusted(r)
        BY <1>3 DEF Trusted
    <2> QED BY <1>3, <1>4, <1>5, <2>1, <2>2 DEF Queued
<1>8. ASSUME ~r.raced, Diligent(r), Trusted(r) = {} PROVE Diligent(s)
    <2>1. s.received # TRUE
        BY <1>6, <1>8 DEF Trusted
    <2> QED BY <1>4, <1>7, <1>8, <2>1 DEF Diligent
<1>9. Hearing(r, s, f)
    BY <1>4, <1>6, <1>7, <1>8 DEF Hearing
<1> QED BY <1>1, <1>6, <1>9, HeardKeeps

LEMMA PairsOfQueued ==
    ASSUME PairInv, NEW c \in Clients, OnPublicKey(c) \/ OnChat(c)
    PROVE  PairsOK(client', relay')
<1> DEFINE r == client[c]
           f == Head(relay.net[c])
<1>1. PICK type \in {"key", "chat"}, t \in
          {Task("key", f.key, <<>>), Task("chat", NoKey, <<f.chat>>)} :
          /\ Hears(c, type) /\ Becomes(c, WithHandshakeLock(r, t)) /\ relay' = Consumed(c)
          /\ t.kind = type /\ (t.kind = "key" => t.key = f.key)
    BY TaskIs DEF OnPublicKey, OnChat
<1>2. t.pc = "start" /\ f.type = type /\ Shaped(r)
    BY <1>1, PairIs, TaskIs DEF Hears
<1>3. Hearing(r, WithHandshakeLock(r, t), f)
    BY <1>1, <1>2, LockIs, QueuedHears
<1>4. WithHandshakeLock(r, t).conn = r.conn
    BY <1>3 DEF Hearing
<1> QED BY <1>1, <1>3, <1>4, HeardKeeps

\* Who hears that the partner has left goes by no key.
LEMMA PairsOfLeft ==
    ASSUME PairInv, NEW c \in Clients, OnPartnerLeft(c)
    PROVE  PairsOK(client', relay')
<1> DEFINE r == client[c]
           s == [r EXCEPT
                    !.shared = {}, !.received = FALSE, !.sent = FALSE, !.queue = <<>>,
                    !.partner = FALSE, !.status = "awaiting_partner",
                    !.raced = @ \/ r.lock # <<>>]
<1>1. Becomes(c, s) /\ Hears(c, "PARTNER_LEFT") /\ relay' = Consumed(c)
    BY DEF OnPartnerLeft
<1>2. Shaped(r)
    BY PairIs
<1>3. /\ s.conn = r.conn /\ s.raced = (r.raced \/ r.lock # <<>>) /\ s.keyPair = r.keyPair
      /\ s.lock = r.lock /\ s.received = FALSE /\ s.sent = FALSE
    BY <1>2 DEF Shaped, Fields
<1> HIDE DEF s
<1>4. ASSUME ~s.raced
      PROVE  ~r.raced /\ Trusted(s) = {} /\ ~Due(s) /\ Diligent(s)
    <2>1. ~r.raced /\ s.lock = <<>> /\ Elements(s.lock) = {}
        BY <1>2, <1>3, <1>4, Empty DEF Shaped
    <2> QED BY <1>3, <2>1 DEF Trusted, Due, Diligent
<1>5. Head(relay.net[c]).type = "PARTNER_LEFT"
    BY <1>1 DEF Hears
<1>6. Hearing(r, s, Head(relay.net[c]))
    BY <1>3, <1>4, <1>5 DEF Hearing
<1> QED BY <1>1, <1>3, <1>6, HeardKeeps

\* The connection of an expired session is as good as gone.
LEMMA PairsOfExpired ==
    ASSUME PairInv, NEW c \in Clients, OnSessionExpired(c)
    PROVE  PairsOK(client', relay')
<1> DEFINE r == client[c]
           q == ResetCryptoState(r)
           s == [q EXCEPT !.status = "expired"]
<1>1. Becomes(c, s) /\ Hears(c, "SESSION_EXPIRED") /\ relay' = Consumed(c)
    BY DEF OnSessionExpired
<1>2. Shaped(q) /\ q.conn = r.conn
    BY PairIs, ResetHand
<1> HIDE DEF q
<1>3. s.conn = q.conn
    BY <1>2 DEF Shaped, Fields
<1> HIDE DEF s
<1>4. Head(relay.net[c]) \in Elements(relay.net[c]) /\ Head(relay.net[c]).type = "SESSION_EXPIRED"
    BY <1>1, PairIs, HeardIs
<1>5. HasLast(relay.net[c])
    BY <1>4 DEF HasLast, Last
<1>6. Socket(c) \notin Alive(relay)
    BY <1>5, PairIs, ClientIs DEF Alive
<1> QED BY <1>1, <1>2, <1>3, <1>6, HeardKeeps

LEMMA PairsOfError ==
    ASSUME PairInv, NEW c \in Clients, OnError(c)
    PROVE  PairsOK(client', relay')
<1> DEFINE f == Head(relay.net[c])
           b == client[c]
           e == [b EXCEPT !.status = StatusAfter(f.code, @)]
           R == Consumed(c)
           Q == HangUp(R, Socket(c))
           s == Rejected(e, f.code)
<1>1. Hears(c, "ERROR") /\ Becomes(c, s) /\ relay' = HangsUpIf(c, s, R)
    BY DEF OnError
<1>2. /\ Shaped(e) /\ e.conn = b.conn
      /\ f.code # "SESSION_EXPIRED" => SameKeys(b, e)
    BY PairIs DEF SameKeys, Shaped, Fields, StatusAfter
<1> HIDE DEF e
<1>3. s.conn = b.conn /\ (SameKeys(b, s) \/ s.dropped = TRUE \/ f.code = "SESSION_EXPIRED")
    <2>1. s.conn = e.conn /\ (SameKeys(e, s) \/ s.dropped = TRUE)
        BY <1>2, RejectedSame
    <2> HIDE DEF s
    <2> QED BY <1>2, <2>1 DEF SameKeys
<1> HIDE DEF s
<1>4. relay' = Q \/ (relay' = R /\ (SameKeys(b, s) \/ f.code = "SESSION_EXPIRED"))
    BY <1>1, <1>3 DEF HangsUpIf
<1>5. RelayOK(relay) /\ relay.net[c] # <<>> /\ f.type = "ERROR"
    BY <1>1, PairIs DEF Hears
<1>6. CASE relay' = Q
    <2>1. /\ RelayOK(R) /\ R.wired = relay.wired /\ R.dying = relay.dying
          /\ R.seats = relay.seats /\ \A d \in Clients \ {c} : R.net[d] = relay.net[d]
        BY <1>5, ConsumedIs
    <2>2. R.pruned = relay.pruned /\ R.refused = relay.refused
        BY <1>5 DEF Consumed, RelayOK, RelayShaped, RelayFields
    <2> HIDE DEF R
    <2>3. /\ Q.wired = R.wired \ {Socket(c)} /\ Q.dying = R.dying /\ Q.seats = R.seats
          /\ \A d \in Clients \ {c} : Q.net[d] = R.net[d]
          /\ (R.pruned => Q.pruned) /\ (R.refused => Q.refused)
        BY <2>1, HangUpIs, HungUpQuiet DEF Quiet
    <2> HIDE DEF Q
    <2>4. Quiet(relay, Q)
        BY <1>5, <2>1, <2>2, <2>3, GoneQuiet
    <2>5. Socket(c) \notin relay'.wired
        BY <1>6, <2>3
    <2> QED BY <1>1, <1>3, <1>6, <2>4, <2>5, DownKeeps
<1>7. CASE relay' = R /\ SameKeys(b, s)
    <2>1. Hearing(b, s, f)
        BY <1>5, <1>7, SameKeysHears
    <2> QED BY <1>1, <1>3, <1>7, <2>1, HeardKeeps
<1>8. CASE relay' = R /\ f.code = "SESSION_EXPIRED"
    <2>1. Refused(relay.net[c])
        <3>1. f \in Elements(relay.net[c])
            BY <1>5, Taken DEF RelayOK, LinesOK, LineOK
        <3> QED BY <1>5, <1>8, <3>1 DEF Refusal, Refused
    <2>2. Socket(c) \notin Alive(relay)
        BY <1>5, <2>1 DEF RelayOK, RefusalsOK, Known, Alive
    <2> QED BY <1>1, <1>3, <1>8, <2>2, HeardKeeps
<1> QED BY <1>4, <1>6, <1>7, <1>8

LEMMA PairsOfSocket ==
    ASSUME PairInv, NEW c \in Clients, WireBreaks(c) \/ RelayHangsUp(c)
    PROVE  PairsOK(client', relay')
<1> DEFINE Q == HangUp(relay, Socket(c))
<1>1. relay' \in {Q, Fault(Q)} /\ UNCHANGED client
    BY DEF WireBreaks, RelayHangsUp
<1>2. Quiet(relay, Q) /\ RelayShaped(Q)
    BY PairIs, HungUpQuiet
<1> HIDE DEF Q
<1>3. Quiet(relay, relay')
    BY <1>1, <1>2, FaultQuiet, QuietTwice
<1> QED BY <1>1, <1>3, StillKeeps

LEMMA PairsOfClosing ==
    ASSUME PairInv, NEW c \in Clients, SocketClosing(c) \/ PingFails(c) \/ OnTransportClose(c)
    PROVE  PairsOK(client', relay')
<1> DEFINE r == client[c]
           q == [r EXCEPT !.transport = "closed"]
           p == ResetCryptoState(q)
           s == [p EXCEPT !.status = "disconnected"]
           i == [r EXCEPT !.transport = "closing"]
           d == [r EXCEPT !.transport = "closed", !.deaf = TRUE]
<1>1. /\ relay' = relay /\ Socket(c) \notin relay.wired
      /\ \E x \in {q, s, i, d} : Becomes(c, x)
    BY PairIs DEF SocketClosing, PingFails, OnTransportClose
<1>2. Shaped(q) /\ q.conn = r.conn /\ i.conn = r.conn /\ d.conn = r.conn
    BY PairIs DEF Shaped, Fields
<1> HIDE DEF q, i, d
<1>3. Shaped(p) /\ p.conn = q.conn
    BY <1>2, ResetHand
<1> HIDE DEF p
<1>4. s.conn = p.conn
    BY <1>3 DEF Shaped, Fields
<1> HIDE DEF s
<1>5. PICK x \in {q, s, i, d} : Becomes(c, x)
    BY <1>1
<1>6. x.conn = r.conn
    BY <1>2, <1>3, <1>4
<1> QED BY <1>1, <1>5, <1>6, QuietNot, DownKeeps

----------------------------------------------------------------------------
(* The keys of both ends: the tasks of the handshake lock.                 *)

Handling == {"import", "derive"}

\* The task at the head of the lock gives way to the next, or goes on itself.
Turns(r, s) ==
    \/ s.lock = Tail(r.lock)
    \/ \E u : /\ u.pc # "start" /\ u.kind = Head(r.lock).kind
              /\ u.pc \in Handling => s.peerKey \in Trusted(r)
              /\ s.lock = <<u>> \o Tail(r.lock)

LEMMA LockTurns ==
    ASSUME NEW r, Between(r), NEW s, Turns(r, s)
    PROVE  LET h == Head(r.lock)
               T == Tail(r.lock)
           IN
           /\ Elements(r.lock) = {h} \cup Elements(T)
           /\ \A t \in Elements(T) : t.pc = "start"
           /\ Elements(T) \subseteq Elements(s.lock)
           /\ \A t \in Elements(s.lock) : t \in Elements(T) \/ (t.kind = h.kind /\ t.pc # "start")
           /\ s.lock # <<>> =>
                /\ Head(s.lock) \in Elements(s.lock)
                /\ Head(s.lock).pc \in Handling => s.peerKey \in Trusted(r)
<1> DEFINE h == Head(r.lock)
           T == Tail(r.lock)
           l == s.lock
<1>1. IsSeq(T) /\ \A t \in Elements(T) : t.pc = "start"
    BY Taken DEF Between, Waiting
<1>2. Elements(r.lock) = {h} \cup Elements(T)
    <2>1. /\ Len(T) = Len(r.lock) - 1 /\ Len(r.lock) \in Nat /\ Len(r.lock) >= 1
          /\ \A i \in 1..Len(T) : T[i] = r.lock[i + 1]
          /\ h = r.lock[1] /\ h \in Elements(r.lock) /\ Elements(T) \subseteq Elements(r.lock)
        BY Taken DEF Between
    <2> HIDE DEF h, T
    <2>2. ASSUME NEW i \in 1..Len(r.lock), i # 1 PROVE r.lock[i] \in Elements(T)
        <3>1. i - 1 \in 1..Len(T) /\ (i - 1) + 1 = i
            BY <2>1, <2>2
        <3> QED BY <2>1, <3>1 DEF Elements
    <2>3. ASSUME NEW t \in Elements(r.lock) PROVE t \in {h} \cup Elements(T)
        BY <2>1, <2>2, <2>3 DEF Elements
    <2> QED BY <2>1, <2>3
<1>3. CASE l = T
    <2>1. l # <<>> => Head(l) \in Elements(T)
        <3> HIDE DEF T
        <3> QED BY <1>1, <1>3, Taken
    <2> QED BY <1>1, <1>2, <1>3, <2>1 DEF Handling
<1>4. ASSUME NEW u, u.pc # "start", u.kind = h.kind, u.pc \in Handling => s.peerKey \in Trusted(r),
             l = <<u>> \o T
      PROVE  /\ Elements(T) \subseteq Elements(l)
             /\ \A t \in Elements(l) : t \in Elements(T) \/ (t.kind = h.kind /\ t.pc # "start")
             /\ Head(l) \in Elements(l)
             /\ Head(l).pc \in Handling => s.peerKey \in Trusted(r)
    <2>1. Head(l) = u /\ Elements(l) = {u} \cup Elements(T)
        BY <1>4, Replaced DEF Between
    <2> HIDE DEF l, T, h
    <2> QED BY <1>4, <2>1
<1> HIDE DEF h, T, l
<1> QED BY <1>1, <1>2, <1>3, <1>4 DEF h, T, l, Turns

\* A task that handles a key, or is about to.
HandlesKey(t) == t.pc \in Handling \/ (t.kind = "key" /\ t.pc = "start")

\* The key that it handles is taken or still being handled.
Carried(r, s) == HandlesKey(Head(r.lock)) =>
    s.received = TRUE \/ (s.lock # <<>> /\ Head(s.lock).pc \in Handling)

\* The task that sends the key sends it, and whoever has the other's is about to.
Dutiful(r, s) ==
    /\ Head(r.lock).kind = "send" =>
         \/ s.sent = TRUE /\ s.lock = Tail(r.lock)
         \/ s.lock # <<>> /\ Head(s.lock).kind = "send" /\ Head(s.lock).pc = "export"
    /\ s.status = "handshaking" /\ s.received = TRUE =>
         s.lock # <<>> /\ Head(s.lock).pc = "export" /\ Head(s.lock).kind # "send"

MovesOn(r, s) ==
    /\ s.conn = r.conn /\ s.raced = r.raced /\ s.keyPair = r.keyPair /\ s.partner = r.partner
    /\ s.status \in {r.status, "error", "ready"}
    /\ r.received = TRUE => s.received = TRUE
    /\ r.sent = TRUE => s.sent = TRUE
    /\ s.received = TRUE => s.peerKey \in Trusted(r)
    /\ s.sent = TRUE => r.sent = TRUE \/ Head(r.lock).kind = "send" \/ r.received = TRUE
    /\ Turns(r, s) /\ Carried(r, s) /\ (Diligent(r) => Dutiful(r, s))

LEMMA MovesSteady ==
    ASSUME NEW r, Between(r), NEW s, MovesOn(r, s)
    PROVE  Steady(r, s)
<1> DEFINE h == Head(r.lock)
           T == Tail(r.lock)
           l == s.lock
<1>1. /\ Elements(r.lock) = {h} \cup Elements(T)
      /\ \A t \in Elements(T) : t.pc = "start"
      /\ Elements(T) \subseteq Elements(l)
      /\ \A t \in Elements(l) : t \in Elements(T) \/ (t.kind = h.kind /\ t.pc # "start")
      /\ l # <<>> => /\ Head(l) \in Elements(l)
                     /\ Head(l).pc \in Handling => s.peerKey \in Trusted(r)
    BY LockTurns DEF MovesOn
<1>2. IsSeq(T) /\ r.lock # <<>>
    BY Taken DEF Between
<1>3. T # <<>> => Head(T) \in Elements(T)
    <2> HIDE DEF T
    <2> QED BY <1>2, Taken
<1> HIDE DEF h, T, l
<1>4. Trusted(s) \subseteq Trusted(r)
    <2>1. ASSUME NEW k \in Trusted(s) PROVE k \in Trusted(r)
        <3>1. CASE k = s.peerKey /\ (s.received = TRUE \/ (l # <<>> /\ Head(l).pc \in Handling))
            BY <1>1, <3>1 DEF MovesOn
        <3>2. CASE \E t \in Elements(l) : t.kind = "key" /\ t.pc = "start" /\ k = t.key
            BY <1>1, <3>2 DEF Trusted
        <3> QED BY <2>1, <3>1, <3>2 DEF Trusted, Handling, l
    <2> QED BY <2>1
<1>5. ASSUME Trusted(r) # {} PROVE Trusted(s) # {}
    <2>1. CASE s.received = TRUE \/ (l # <<>> /\ Head(l).pc \in Handling)
        BY <2>1 DEF Trusted, Handling, l
    <2>2. CASE \E t \in Elements(T) : t.kind = "key" /\ t.pc = "start"
        <3>1. PICK t \in Elements(T) : t.kind = "key" /\ t.pc = "start"
            BY <2>2
        <3>2. t \in Elements(s.lock)
            BY <1>1, <3>1 DEF l
        <3>3. t.key \in Trusted(s)
            BY <3>1, <3>2 DEF Trusted
        <3> QED BY <3>3
    <2>3. CASE r.received = TRUE \/ HandlesKey(h)
        BY <2>1, <2>3 DEF MovesOn, Carried, h, l
    <2>4. \/ r.received = TRUE \/ h.pc \in Handling
          \/ \E t \in Elements(r.lock) : t.kind = "key" /\ t.pc = "start"
        BY <1>5 DEF Trusted, Handling, h
    <2> QED BY <1>1, <2>2, <2>3, <2>4 DEF HandlesKey
<1>6. ASSUME Due(s) PROVE Due(r) \/ Trusted(r) # {}
    <2>1. CASE s.sent = TRUE
        <3>1. r.received = TRUE => Trusted(r) # {}
            BY DEF Trusted
        <3> QED BY <1>1, <2>1, <3>1 DEF MovesOn, Due, h
    <2>2. CASE \E t \in Elements(l) : t.kind = "send"
        BY <1>1, <2>2 DEF Due
    <2> QED BY <1>6, <2>1, <2>2 DEF Due, l
<1>7. Greets(r) => Greets(s)
    BY DEF MovesOn, Greets
<1>8. ASSUME Diligent(r) PROVE Diligent(s)
    <2>1. Dutiful(r, s)
        BY <1>8 DEF MovesOn
    <2>2. ASSUME l # <<>>, Head(l).kind = "send" PROVE Head(l).pc \in {"start", "export"}
        <3>1. CASE Head(l) \in Elements(T)
            BY <1>1, <3>1
        <3>2. CASE Head(l) \notin Elements(T)
            <4>1. h.kind = "send" /\ l # T
                BY <1>1, <1>3, <2>2, <3>2
            <4> QED BY <2>1, <4>1 DEF Dutiful, h, T, l
        <3> QED BY <3>1, <3>2
    <2> QED BY <2>1, <2>2 DEF Dutiful, Diligent, l
<1>9. ASSUME Diligent(r), Due(r) PROVE Due(s)
    <2>1. CASE r.sent = TRUE
        BY <2>1 DEF MovesOn, Due
    <2>2. CASE h.kind = "send"
        <3>1. s.sent = TRUE \/ (l # <<>> /\ Head(l).kind = "send")
            BY <1>9, <2>2 DEF MovesOn, Dutiful, h, l
        <3> QED BY <1>1, <3>1 DEF Due, l
    <2>3. CASE \E t \in Elements(T) : t.kind = "send"
        BY <1>1, <2>3 DEF Due, l
    <2> QED BY <1>1, <1>9, <2>1, <2>2, <2>3 DEF Due
<1> QED BY <1>4, <1>5, <1>6, <1>7, <1>8, <1>9 DEF Steady, MovesOn

\* What a task does once the keys are settled.
Onward(r, s) ==
    /\ s.conn = r.conn /\ s.raced = r.raced /\ s.keyPair = r.keyPair
    /\ s.received = r.received /\ s.peerKey = r.peerKey /\ s.sent = r.sent
    /\ s.partner = r.partner /\ s.status \in {r.status, "error", "ready"}
    /\ \/ s.lock = Tail(r.lock)
       \/ \E u : /\ u.pc \notin Handling \cup {"start"} /\ u.kind = Head(r.lock).kind
                 /\ s.lock = <<u>> \o Tail(r.lock)

LEMMA OnwardLoyal ==
    ASSUME NEW r, Between(r), NEW s, Onward(r, s),
           HandlesKey(Head(r.lock)) => r.received = TRUE, Diligent(r) => Dutiful(r, s)
    PROVE  Loyal(r, s)
<1>1. s.received = TRUE => s.peerKey \in Trusted(r)
    BY DEF Onward, Trusted
<1>2. Turns(r, s)
    BY DEF Onward, Turns
<1>3. MovesOn(r, s)
    BY <1>1, <1>2 DEF Onward, MovesOn, Carried
<1> QED BY <1>3, MovesSteady DEF Onward, Loyal

\* A task that neither handles a key nor sends one.
LEMMA LaterLoyal ==
    ASSUME NEW r, Between(r), NEW s, Onward(r, s),
           Head(r.lock).pc \in {"print", "print_peer", "decrypt"}
    PROVE  Loyal(r, s)
<1>1. ~HandlesKey(Head(r.lock))
    BY DEF HandlesKey, Handling
<1>2. Diligent(r) => Dutiful(r, s)
    BY DEF Between, Diligent, Dutiful, Onward
<1> QED BY <1>1, <1>2, OnwardLoyal

LEMMA OnwardFrom ==
    ASSUME NEW r, NEW q, NEW s, SameKeys(r, q), Onward(q, s)
    PROVE  Onward(r, s)
BY DEF SameKeys, Onward

LEMMA LockOnward ==
    ASSUME NEW r, Shaped(r)
    PROVE  /\ Onward(r, Finished(r)) /\ Finished(r).lock = Tail(r.lock)
           /\ \A u : u.pc \notin Handling \cup {"start"} /\ u.kind = Head(r.lock).kind
                     => Onward(r, At(r, u))
<1>1. ASSUME NEW l
      PROVE  LET s == [r EXCEPT !.lock = l] IN
             /\ s.conn = r.conn /\ s.raced = r.raced /\ s.keyPair = r.keyPair
             /\ s.received = r.received /\ s.peerKey = r.peerKey /\ s.lock = l
             /\ s.sent = r.sent /\ s.partner = r.partner /\ s.status = r.status
    BY DEF Shaped, Fields
<1>2. Onward(r, Finished(r)) /\ Finished(r).lock = Tail(r.lock)
    BY <1>1 DEF Finished, Onward
<1>3. ASSUME NEW u, u.pc \notin Handling \cup {"start"}, u.kind = Head(r.lock).kind
      PROVE  Onward(r, At(r, u))
    <2> DEFINE l == <<u>> \o Tail(r.lock)
    <2>1. At(r, u) = [r EXCEPT !.lock = l]
        BY DEF At
    <2> QED BY <1>1, <1>3, <2>1 DEF Onward
<1> QED BY <1>2, <1>3

LEMMA DecryptOnward ==
    ASSUME NEW r, Shaped(r), NEW t, DOMAIN t = TaskFields, t.kind = Head(r.lock).kind, NEW chats
    PROVE  Onward(r, DecryptNext(r, t, chats))
<1> DEFINE q == [r EXCEPT !.queue = @ \o chats]
           u == [t EXCEPT !.pc = "decrypt", !.chats = chats, !.secret = r.shared]
<1>1. u.pc = "decrypt" /\ u.kind = Head(r.lock).kind
    BY DEF TaskFields
<1>2. Shaped(q) /\ SameKeys(r, q)
    BY DEF SameKeys, Shaped, Fields
<1>3. DecryptNext(r, t, chats) \in {Finished(r), Finished(q), At(r, u)}
    BY DEF DecryptNext
<1> HIDE DEF q, u
<1>4. Onward(r, Finished(r)) /\ Onward(r, Finished(q)) /\ Onward(r, At(r, u))
    BY <1>1, <1>2, LockOnward, OnwardFrom DEF Handling
<1> QED BY <1>3, <1>4

LEMMA FlushOnward ==
    ASSUME NEW r, Shaped(r), NEW t, DOMAIN t = TaskFields, t.kind = Head(r.lock).kind
    PROVE  Onward(r, FlushInboundQueue(r, t))
<1> DEFINE q == [r EXCEPT !.queue = <<>>]
<1>1. Shaped(q) /\ SameKeys(r, q)
    BY DEF SameKeys, Shaped, Fields
<1>2. FlushInboundQueue(r, t) = DecryptNext(q, t, r.queue)
    BY DEF FlushInboundQueue
<1>3. t.kind = Head(q.lock).kind
    BY <1>1 DEF SameKeys
<1> HIDE DEF q
<1> QED BY <1>1, <1>2, <1>3, DecryptOnward, OnwardFrom

LEMMA ReadyOnward ==
    ASSUME NEW r, Shaped(r), NEW t, DOMAIN t = TaskFields, t.kind = Head(r.lock).kind
    PROVE  Onward(r, BecomeReady(r, t)) /\ BecomeReady(r, t).status \in {"ready", "error"}
<1> DEFINE q == [r EXCEPT !.status = "ready"]
           u == [t EXCEPT !.pc = "print", !.my = r.localKey]
<1>1. u.pc = "print" /\ u.kind = t.kind
    BY DEF TaskFields
<1>2. Shaped(q) /\ SameKeys(r, q) /\ q.status = "ready"
    BY DEF SameKeys, Shaped, Fields
<1>3. BecomeReady(r, t) \in {At(q, u), FlushInboundQueue(q, t)}
    BY DEF BecomeReady
<1>4. t.kind = Head(q.lock).kind
    BY <1>2 DEF SameKeys
<1> HIDE DEF q, u
<1>5. Onward(q, At(q, u)) /\ Onward(q, FlushInboundQueue(q, t))
    BY <1>1, <1>2, <1>4, LockOnward, FlushOnward DEF Handling
<1>6. \A s : Onward(q, s) => s.status \in {"ready", "error"}
    BY <1>2 DEF Onward
<1> QED BY <1>2, <1>3, <1>5, <1>6, OnwardFrom

\* A client that a reset has overtaken is not asked, nor one without a seat.
LEMMA TaskPairs ==
    ASSUME PairInv, NEW c \in Clients, NEW s, Becomes(c, s), TaskStep(client[c], s),
           relay' = relay,
           ~client[c].raced /\ Socket(c) \in Alive(relay) => Loyal(client[c], s)
    PROVE  PairsOK(client', relay')
<1>1. s.conn = client[c].conn /\ s.raced = client[c].raced
    BY DEF TaskStep, SameCore
<1>2. <<c, s.conn>> = Socket(c)
    BY <1>1 DEF Socket
<1> QED BY <1>1, <1>2, QuietNot, QuietKeeps

LEMMA TaskLoyal ==
    ASSUME NEW r, NEW s, TaskStep(r, s), ~r.raced => Loyal(r, s)
    PROVE  Loyal(r, s)
BY DEF Loyal, Steady, TaskStep, SameCore

LEMMA RunsIs ==
    ASSUME PairInv, NEW c \in Clients, client[c].lock # <<>>, ~client[c].raced
    PROVE  /\ Between(client[c]) /\ Shaped(client[c]) /\ DOMAIN Running(c) = TaskFields
           /\ TaskOK(client[c], Running(c)) /\ Running(c) \in Elements(client[c].lock)
           /\ Running(c) = Head(client[c].lock)
           /\ Socket(c) \in Alive(relay) => client[c].keyPair # NoKey
<1>1. Between(client[c]) /\ DOMAIN Running(c) = TaskFields /\ TaskOK(client[c], Running(c))
    BY RunningIs DEF PairInv
<1>2. Head(client[c].lock) \in Elements(client[c].lock)
    BY <1>1, Taken DEF Between
<1>3. Socket(c) \in Alive(relay) => client[c].keyPair # NoKey
    <2>1. SeatedAs(client[c], Socket(c), relay, relay.net[c])
        BY PairIs DEF SeatInv, Fine, AllSeated
    <2> QED BY <1>1, <2>1 DEF SeatedAs, Alive, Between
<1> QED BY <1>1, <1>2, <1>3 DEF Between, Running

\* A client that takes up a key takes up one that it was sent.
LEMMA PairsOfStart ==
    ASSUME PairInv, NEW c \in Clients, StartTask(c)
    PROVE  PairsOK(client', relay')
<1> DEFINE r == client[c]
           t == Running(c)
           p == [r EXCEPT !.peerKey = t.key]
           e == [t EXCEPT !.pc = "export", !.my = r.keyPair]
           i == [t EXCEPT !.pc = "import"]
<1>1. r.lock # <<>> /\ relay' = relay /\ t.pc = "start" /\ Shaped(r)
    BY PairIs DEF StartTask
<1>2. PICK s : /\ Becomes(c, s)
               /\ \/ /\ t.kind = "send"
                     /\ \/ s = Finished(r) /\ (r.keyPair = NoKey \/ r.sent)
                        \/ s = At(r, e)
                  \/ /\ t.kind = "key"
                     /\ \/ s = FlushInboundQueue(r, t) /\ (r.keyPair = NoKey \/ r.received)
                        \/ s = At(p, i) /\ ~r.received
                  \/ t.kind = "chat" /\ s = DecryptNext(r, t, t.chats)
    BY DEF StartTask
<1>3. TaskStep(r, p)
    BY <1>1, FieldsStep
<1>4. TaskStep(r, s)
    <2>1. TaskStep(r, At(p, i))
        BY <1>3, StaysShaped, FinishedStep, TaskTwice
    <2> HIDE DEF p, e, i
    <2> QED BY <1>1, <1>2, <2>1, FinishedStep, FlushStep, DecryptStep
<1>5. ASSUME ~r.raced, Socket(c) \in Alive(relay) PROVE Loyal(r, s)
    <2>1. /\ Between(r) /\ DOMAIN t = TaskFields /\ t \in Elements(r.lock) /\ t = Head(r.lock)
          /\ r.keyPair # NoKey
        BY <1>1, <1>5, RunsIs
    <2>2. /\ e.pc = "export" /\ i.pc = "import" /\ e.kind = t.kind /\ i.kind = t.kind
        BY <2>1 DEF TaskFields
    <2>3. r.sent \in BOOLEAN /\ r.received \in BOOLEAN
        BY <2>1 DEF Between
    <2>4. HandlesKey(t) => t.kind = "key"
        BY <1>1 DEF HandlesKey, Handling
    <2>5. ASSUME Diligent(r) PROVE ~(r.status = "handshaking" /\ r.received = TRUE)
        BY <1>1, <2>1, <2>5 DEF Diligent
    <2>6. CASE t.kind = "send" /\ s = Finished(r) /\ r.sent
        <3>1. Onward(r, s) /\ s.lock = Tail(r.lock)
            BY <1>1, <2>6, LockOnward
        <3>2. Diligent(r) => Dutiful(r, s)
            BY <2>5, <2>6, <3>1 DEF Dutiful, Onward
        <3> QED BY <2>1, <2>4, <2>6, <3>1, <3>2, OnwardLoyal
    <2>7. CASE t.kind = "send" /\ s = At(r, e)
        <3> HIDE DEF e
        <3>1. Onward(r, s)
            BY <1>1, <2>1, <2>2, <2>7, LockOnward DEF Handling
        <3>2. s.lock = <<e>> \o Tail(r.lock)
            BY <1>1, <2>7 DEF At, Shaped, Fields
        <3>3. s.lock # <<>> /\ Head(s.lock) = e
            BY <2>1, <3>2, Replaced DEF Between
        <3>4. Diligent(r) => Dutiful(r, s)
            BY <2>2, <2>5, <2>7, <3>1, <3>3 DEF Dutiful, Onward
        <3> QED BY <2>1, <2>4, <2>7, <3>1, <3>4, OnwardLoyal
    <2>8. CASE t.kind = "key" /\ s = FlushInboundQueue(r, t) /\ r.received
        <3>1. Onward(r, s)
            BY <1>1, <2>1, <2>8, FlushOnward
        <3>2. Diligent(r) => Dutiful(r, s)
            BY <2>1, <2>5, <2>8, <3>1 DEF Dutiful, Onward
        <3> QED BY <2>1, <2>3, <2>8, <3>1, <3>2, OnwardLoyal
    <2>9. CASE t.kind = "chat" /\ s = DecryptNext(r, t, t.chats)
        <3>1. Onward(r, s)
            BY <1>1, <2>1, <2>9, DecryptOnward
        <3>2. Diligent(r) => Dutiful(r, s)
            BY <2>1, <2>5, <2>9, <3>1 DEF Dutiful, Onward
        <3> QED BY <2>1, <2>4, <2>9, <3>1, <3>2, OnwardLoyal
    <2>10. CASE t.kind = "key" /\ s = At(p, i) /\ ~r.received
        <3>1. /\ Shaped(p) /\ p.conn = r.conn /\ p.raced = r.raced /\ p.keyPair = r.keyPair
              /\ p.received = r.received /\ p.peerKey = t.key /\ p.lock = r.lock
              /\ p.sent = r.sent /\ p.partner = r.partner /\ p.status = r.status
            BY <1>1 DEF Shaped, Fields
        <3> HIDE DEF p, i
        <3> DEFINE l == <<i>> \o Tail(p.lock)
        <3>2. s = [p EXCEPT !.lock = l]
            BY <2>10 DEF At
        <3> HIDE DEF l
        <3>3. /\ s.conn = p.conn /\ s.raced = p.raced /\ s.keyPair = p.keyPair
              /\ s.received = p.received /\ s.peerKey = p.peerKey /\ s.lock = l
              /\ s.sent = p.sent /\ s.partner = p.partner /\ s.status = p.status
            BY <3>1, <3>2 DEF Shaped, Fields
        <3>4. l = <<i>> \o Tail(r.lock)
            BY <3>1 DEF l
        <3>5. l # <<>> /\ Head(l) = i
            BY <2>1, <3>4, Replaced DEF Between
        <3>6. t.key \in Trusted(r)
            BY <1>1, <2>1, <2>10 DEF Trusted
        <3>7. Turns(r, s)
            BY <2>1, <2>2, <3>1, <3>3, <3>4, <3>6 DEF Turns
        <3>8. Carried(r, s) /\ Dutiful(r, s)
            BY <2>1, <2>2, <2>3, <2>10, <3>1, <3>3, <3>5 DEF Carried, Dutiful, Handling
        <3>9. MovesOn(r, s)
            BY <2>3, <2>10, <3>1, <3>3, <3>7, <3>8 DEF MovesOn
        <3>10. s.sent = r.sent
            BY <3>1, <3>3
        <3> QED BY <2>1, <3>9, <3>10, MovesSteady DEF Loyal
    <2> QED BY <1>2, <2>1, <2>6, <2>7, <2>8, <2>9, <2>10
<1> QED BY <1>1, <1>2, <1>4, <1>5, TaskPairs

\* The imported key is the one that the client is handling.
LEMMA PairsOfImport ==
    ASSUME PairInv, NEW c \in Clients, KeyImported(c)
    PROVE  PairsOK(client', relay')
<1> DEFINE r == client[c]
           t == Running(c)
           key == ImportPublicKey(Provider[c], t.key)
           u == [t EXCEPT !.pc = "derive", !.my = r.keyPair, !.key = key]
           s == IF key = Failed \/ r.keyPair = NoKey THEN HandshakeFailed(r) ELSE At(r, u)
<1>1. /\ r.lock # <<>> /\ t.pc = "import"
      /\ Becomes(c, s) /\ relay' = HangsUpIf(c, s, relay) /\ Shaped(r)
    BY PairIs DEF KeyImported, Awaits
<1>2. s \in {At(r, u), Rejected(Finished(r), "HANDSHAKE_FAILED")}
    BY DEF HandshakeFailed
<1>3. ASSUME ~r.raced PROVE s = At(r, u) /\ Loyal(r, s)
    <2>1. /\ Between(r) /\ DOMAIN t = TaskFields /\ t = Head(r.lock) /\ TaskOK(r, t)
        BY <1>1, <1>3, RunsIs
    <2>2. key # Failed /\ r.keyPair # NoKey
        BY <1>1, <2>1, Imported DEF TaskOK, Published
    <2>3. u.pc = "derive" /\ u.kind = t.kind
        BY <2>1 DEF TaskFields
    <2>4. r.peerKey \in Trusted(r)
        BY <1>1, <2>1 DEF Trusted
    <2>5. s = At(r, u)
        BY <2>2
    <2> HIDE DEF u, key, s
    <2> DEFINE l == <<u>> \o Tail(r.lock)
    <2>6. s = [r EXCEPT !.lock = l]
        BY <2>5 DEF At
    <2> HIDE DEF l
    <2>7. /\ s.conn = r.conn /\ s.raced = r.raced /\ s.keyPair = r.keyPair
          /\ s.received = r.received /\ s.peerKey = r.peerKey /\ s.lock = l
          /\ s.sent = r.sent /\ s.partner = r.partner /\ s.status = r.status
        BY <1>1, <2>6 DEF Shaped, Fields
    <2>8. l # <<>> /\ Head(l) = u
        BY <2>1, Replaced DEF Between, l
    <2>9. Turns(r, s)
        BY <2>1, <2>3, <2>4, <2>7 DEF Turns, l
    <2>10. Carried(r, s)
        BY <2>3, <2>7, <2>8 DEF Carried, Handling
    <2>11. Diligent(r) => Dutiful(r, s)
        BY <1>1, <2>1, <2>7 DEF Diligent, Dutiful
    <2>12. MovesOn(r, s)
        BY <2>4, <2>7, <2>9, <2>10, <2>11 DEF MovesOn
    <2> QED BY <2>1, <2>5, <2>7, <2>12, MovesSteady DEF Loyal
<1>4. TaskStep(r, Finished(r)) /\ TaskStep(r, At(r, u))
    BY <1>1, FinishedStep
<1> HIDE DEF u, s
<1>5. CASE s = At(r, u)
    <2>1. Loyal(r, At(r, u)) /\ Shaped(At(r, u)) /\ At(r, u).conn = r.conn
        BY <1>3, <1>4, <1>5, TaskLoyal, StaysShaped DEF TaskStep, SameCore
    <2> QED BY <1>1, <1>5, <2>1, FailedPairs
<1>6. CASE s = Rejected(Finished(r), "HANDSHAKE_FAILED") /\ s # At(r, u)
    <2>1. Loyal(r, Finished(r)) /\ Shaped(Finished(r)) /\ Finished(r).conn = r.conn
        BY <1>3, <1>4, <1>6, TaskLoyal, StaysShaped DEF TaskStep, SameCore
    <2> QED BY <1>1, <1>6, <2>1, FailedPairs
<1> QED BY <1>2, <1>5, <1>6

\* The secret is that of the key that the client was handling.
LEMMA PairsOfDerive ==
    ASSUME PairInv, NEW c \in Clients, SecretDerived(c)
    PROVE  PairsOK(client', relay')
<1> DEFINE b == client[c]
           t == Running(c)
           secret == DeriveSharedSecret(Provider[c], t.my, t.key)
           r == [b EXCEPT !.received = TRUE, !.shared = secret]
           u == [t EXCEPT !.pc = "export", !.my = r.keyPair]
<1>1. /\ b.lock # <<>> /\ t.pc = "derive" /\ relay' = relay /\ Shaped(b)
      /\ Becomes(c, IF r.sent \/ r.keyPair = NoKey THEN BecomeReady(r, t) ELSE At(r, u))
    BY PairIs DEF SecretDerived, Awaits
<1>2. TaskStep(b, r)
    BY <1>1, FieldsStep
<1>3. /\ Shaped(r) /\ r.conn = b.conn /\ r.raced = b.raced /\ r.keyPair = b.keyPair
      /\ r.received = TRUE /\ r.peerKey = b.peerKey /\ r.lock = b.lock
      /\ r.sent = b.sent /\ r.partner = b.partner /\ r.status = b.status
    <2> HIDE DEF secret
    <2> QED BY <1>1 DEF Shaped, Fields
<1> HIDE DEF r
<1>4. PICK s \in {BecomeReady(r, t), At(r, u)} : Becomes(c, s)
    BY <1>1
<1>5. TaskStep(b, s)
    <2> HIDE DEF u
    <2> QED BY <1>2, <1>3, <1>4, FinishedStep, ReadyStep, TaskTwice
<1>6. ASSUME ~b.raced PROVE Loyal(b, s)
    <2>1. Between(b) /\ DOMAIN t = TaskFields /\ t = Head(b.lock)
        BY <1>1, <1>6, RunsIs
    <2>2. u.pc = "export" /\ u.kind = t.kind /\ t.kind = Head(r.lock).kind
        BY <1>3, <2>1 DEF TaskFields
    <2> HIDE DEF u
    <2>3. Onward(r, s)
        BY <1>3, <1>4, <2>1, <2>2, ReadyOnward, LockOnward DEF Handling
    <2>4. b.peerKey \in Trusted(b)
        BY <1>1, <2>1 DEF Trusted
    <2>5. Turns(b, s)
        BY <1>3, <2>3 DEF Onward, Turns
    <2>6. ASSUME Diligent(b) PROVE Dutiful(b, s)
        <3>1. t.kind # "send"
            BY <1>1, <2>1, <2>6 DEF Diligent
        <3>2. CASE s = BecomeReady(r, t)
            <4>1. s.status # "handshaking"
                BY <1>3, <2>1, <2>2, <3>2, ReadyOnward
            <4> QED BY <2>1, <3>1, <4>1 DEF Dutiful
        <3>3. CASE s = At(r, u)
            <4>1. s.lock = <<u>> \o Tail(b.lock)
                BY <1>3, <3>3 DEF At, Shaped, Fields
            <4>2. s.lock # <<>> /\ Head(s.lock) = u
                BY <2>1, <4>1, Replaced DEF Between
            <4> QED BY <2>1, <2>2, <3>1, <4>2 DEF Dutiful
        <3> QED BY <1>4, <3>2, <3>3
    <2>7. MovesOn(b, s)
        BY <1>3, <2>3, <2>4, <2>5, <2>6 DEF Onward, MovesOn, Carried
    <2>8. s.sent = b.sent
        BY <1>3, <2>3 DEF Onward
    <2> QED BY <2>1, <2>7, <2>8, MovesSteady DEF Loyal
<1> QED BY <1>1, <1>4, <1>5, <1>6, TaskPairs

LEMMA PairsOfPrint ==
    ASSUME PairInv, NEW c \in Clients, LocalPrinted(c)
    PROVE  PairsOK(client', relay')
<1> DEFINE r == client[c]
           t == Running(c)
           u == [t EXCEPT !.pc = "print_peer", !.key = r.peerKey]
           s == IF r.peerKey = NoKey /\ Provider[c] = "native" THEN HandshakeFailed(r)
                ELSE At(r, u)
<1>1. /\ r.lock # <<>> /\ t.pc = "print"
      /\ Becomes(c, s) /\ relay' = HangsUpIf(c, s, relay) /\ Shaped(r)
    BY PairIs DEF LocalPrinted, Awaits
<1>2. s \in {At(r, u), Rejected(Finished(r), "HANDSHAKE_FAILED")}
    BY DEF HandshakeFailed
<1>3. ASSUME ~r.raced PROVE Loyal(r, Finished(r)) /\ Loyal(r, At(r, u))
    <2>1. Between(r) /\ DOMAIN t = TaskFields /\ t = Head(r.lock)
        BY <1>1, <1>3, RunsIs
    <2>2. u.pc = "print_peer" /\ u.kind = t.kind
        BY <2>1 DEF TaskFields
    <2> HIDE DEF u
    <2>3. Onward(r, Finished(r)) /\ Onward(r, At(r, u))
        BY <1>1, <2>1, <2>2, LockOnward DEF Handling
    <2> QED BY <1>1, <2>1, <2>3, LaterLoyal
<1> HIDE DEF u
<1>4. TaskStep(r, Finished(r)) /\ TaskStep(r, At(r, u))
    BY <1>1, FinishedStep
<1>5. /\ Loyal(r, Finished(r)) /\ Shaped(Finished(r)) /\ Finished(r).conn = r.conn
      /\ Loyal(r, At(r, u)) /\ Shaped(At(r, u)) /\ At(r, u).conn = r.conn
    BY <1>3, <1>4, TaskLoyal, StaysShaped DEF TaskStep, SameCore
<1> HIDE DEF s
<1>6. CASE s = At(r, u)
    BY <1>1, <1>5, <1>6, FailedPairs
<1>7. CASE s = Rejected(Finished(r), "HANDSHAKE_FAILED")
    BY <1>1, <1>5, <1>7, FailedPairs
<1> QED BY <1>2, <1>6, <1>7

LEMMA PairsOfPrints ==
    ASSUME PairInv, NEW c \in Clients, FingerprintsMade(c)
    PROVE  PairsOK(client', relay')
<1> DEFINE b == client[c]
           t == Running(c)
           prints == <<GenerateFingerprint(t.my), GenerateFingerprint(t.key)>>
           r == [b EXCEPT !.seen = prints]
           s == FlushInboundQueue(r, t)
<1>1. b.lock # <<>> /\ t.pc = "print_peer" /\ relay' = relay /\ Becomes(c, s) /\ Shaped(b)
    BY PairIs DEF FingerprintsMade, Awaits
<1>2. TaskStep(b, r)
    BY <1>1, FieldsStep
<1>3. Shaped(r) /\ SameKeys(b, r)
    <2> HIDE DEF prints
    <2> QED BY <1>1 DEF Shaped, Fields, SameKeys
<1> HIDE DEF r
<1>4. TaskStep(b, s)
    BY <1>2, <1>3, FlushStep, TaskTwice
<1>5. ASSUME ~b.raced PROVE Loyal(b, s)
    <2>1. Between(b) /\ DOMAIN t = TaskFields /\ t = Head(b.lock)
        BY <1>1, <1>5, RunsIs
    <2>2. t.kind = Head(r.lock).kind
        BY <1>3, <2>1 DEF SameKeys
    <2>3. Onward(b, s)
        BY <1>3, <2>1, <2>2, FlushOnward, OnwardFrom
    <2> QED BY <1>1, <2>1, <2>3, LaterLoyal
<1> HIDE DEF s
<1> QED BY <1>1, <1>4, <1>5, TaskPairs

LEMMA PairsOfDecrypt ==
    ASSUME PairInv, NEW c \in Clients, ChatDecrypted(c)
    PROVE  PairsOK(client', relay')
<1> DEFINE r == client[c]
           t == Running(c)
           chat == Head(t.chats)
           q == [r EXCEPT !.shown = Decrypt(chat).n, !.displays = @ + 1]
           rest == Tail(t.chats)
           a == DecryptNext(q, t, rest)
           d == DecryptNext(r, t, rest)
           s == IF Decrypts(chat, t.secret) THEN a ELSE Rejected(d, "DECRYPT_FAILED")
<1>1. /\ r.lock # <<>> /\ t.pc = "decrypt"
      /\ Becomes(c, s) /\ relay' = HangsUpIf(c, s, relay) /\ Shaped(r)
    BY PairIs DEF ChatDecrypted, Awaits
<1>2. Shaped(q) /\ SameKeys(r, q) /\ TaskStep(r, q)
    <2>1. TaskStep(r, q)
        BY <1>1, FieldsStep
    <2>2. Shaped(q) /\ SameKeys(r, q)
        BY <1>1 DEF Shaped, Fields, SameKeys
    <2> QED BY <2>1, <2>2
<1> HIDE DEF q, chat, rest
<1>3. TaskStep(r, a) /\ TaskStep(r, d)
    BY <1>1, <1>2, DecryptStep, TaskTwice
<1>4. ASSUME ~r.raced PROVE Loyal(r, a) /\ Loyal(r, d)
    <2>1. Between(r) /\ DOMAIN t = TaskFields /\ t = Head(r.lock)
        BY <1>1, <1>4, RunsIs
    <2>2. t.kind = Head(q.lock).kind
        BY <1>2, <2>1 DEF SameKeys
    <2>3. Onward(r, a) /\ Onward(r, d)
        BY <1>1, <1>2, <2>1, <2>2, DecryptOnward, OnwardFrom
    <2> QED BY <1>1, <2>1, <2>3, LaterLoyal
<1>5. s \in {a, Rejected(d, "DECRYPT_FAILED")}
    OBVIOUS
<1> HIDE DEF a, d
<1>6. /\ Loyal(r, a) /\ Shaped(a) /\ a.conn = r.conn
      /\ Loyal(r, d) /\ Shaped(d) /\ d.conn = r.conn
    BY <1>3, <1>4, TaskLoyal, StaysShaped DEF TaskStep, SameCore
<1> HIDE DEF s
<1>7. CASE s = a
    BY <1>1, <1>6, <1>7, FailedPairs
<1>8. CASE s = Rejected(d, "DECRYPT_FAILED")
    BY <1>1, <1>6, <1>8, FailedPairs
<1> QED BY <1>5, <1>7, <1>8

\* The key that is sent is that of the pair the client has, and whoever sits
\* opposite is sent it, unless it is refused.
LEMMA PairsOfExport ==
    ASSUME PairInv, NEW c \in Clients, KeyExported(c)
    PROVE  PairsOK(client', relay')
<1> DEFINE b == client[c]
           t == Running(c)
           key == ExportPublicKey(Provider[c], t.my)
           f == [type |-> "key", key |-> key]
           r == [b EXCEPT !.localKey = key]
           s == [r EXCEPT !.sent = TRUE]
           k == Socket(c)
           Q == Deliver(relay, relay.seats \ {k}, f)
<1>1. b.lock # <<>> /\ t.pc = "export" /\ Shaped(b)
    BY PairIs DEF KeyExported, Awaits
<1>2. /\ r.transport = "open" =>
            /\ Becomes(c, IF t.kind = "send" THEN Finished(s) ELSE BecomeReady(s, t))
            /\ relay' \in RelaySend(relay, k, f)
      /\ r.transport # "open" =>
            /\ Becomes(c, IF t.kind = "send" THEN Finished(r) ELSE HandshakeFailed(r))
            /\ relay' = relay
    BY DEF KeyExported
<1>3. key = Spki(t.my) /\ f.type = "key" /\ f.key = key
    BY Exported
<1> HIDE DEF f, key
<1>4. TaskStep(b, r) /\ Shaped(r) /\ SameKeys(b, r) /\ r.transport = b.transport
    <2>1. TaskStep(b, r)
        BY <1>1, FieldsStep
    <2>2. Shaped(r) /\ SameKeys(b, r) /\ r.transport = b.transport
        BY <1>1 DEF Shaped, Fields, SameKeys
    <2> QED BY <2>1, <2>2
<1> HIDE DEF r
<1>5. /\ TaskStep(b, s) /\ Shaped(s)
      /\ s.conn = b.conn /\ s.raced = b.raced /\ s.keyPair = b.keyPair /\ s.lock = b.lock
      /\ s.received = b.received /\ s.peerKey = b.peerKey
      /\ s.sent = TRUE /\ s.partner = b.partner /\ s.status = b.status
    <2>1. TaskStep(b, s)
        BY <1>4, FieldsStep, TaskTwice
    <2>2. r.status = b.status
        BY <1>1 DEF r, Shaped, Fields
    <2>3. /\ Shaped(s)
          /\ s.conn = r.conn /\ s.raced = r.raced /\ s.keyPair = r.keyPair /\ s.lock = r.lock
          /\ s.received = r.received /\ s.peerKey = r.peerKey
          /\ s.sent = TRUE /\ s.partner = r.partner /\ s.status = r.status
        BY <1>4 DEF Shaped, Fields
    <2> QED BY <1>4, <2>1, <2>2, <2>3 DEF SameKeys
<1> HIDE DEF s
<1>6. CASE r.transport = "open"
    <2> DEFINE p == IF t.kind = "send" THEN Finished(s) ELSE BecomeReady(s, t)
    <2>1. Becomes(c, p) /\ p \in {Finished(s), BecomeReady(s, t)}
        BY <1>2, <1>6
    <2>2. TaskStep(b, p)
        BY <1>5, <2>1, FinishedStep, ReadyStep, TaskTwice
    <2>3. ASSUME ~b.raced PROVE Steady(b, p)
        <3>1. Between(b) /\ DOMAIN t = TaskFields /\ t = Head(b.lock) /\ TaskOK(b, t)
            BY <1>1, <2>3, RunsIs
        <3>2. t.kind = Head(s.lock).kind
            BY <1>5, <3>1
        <3>3. Onward(s, p)
            BY <1>5, <2>1, <3>1, <3>2, LockOnward, ReadyOnward
        <3>4. t.kind = "send" => p.lock = Tail(b.lock)
            BY <1>5, LockOnward
        <3>5. t.kind # "send" => p.status # "handshaking" /\ b.received = TRUE
            BY <1>1, <1>5, <3>1, <3>2, ReadyOnward DEF TaskOK, Holds
        <3> HIDE DEF p
        <3>6. Turns(b, p)
            BY <1>5, <3>3 DEF Onward, Turns
        <3>7. Carried(b, p)
            BY <1>1, <3>1 DEF Carried, HandlesKey, Handling
        <3>8. p.sent = TRUE /\ p.received = b.received
            BY <1>5, <3>3 DEF Onward
        <3>9. ASSUME Diligent(b) PROVE Dutiful(b, p)
            <4>1. CASE t.kind # "send"
                BY <3>1, <3>5, <4>1 DEF Dutiful
            <4>2. CASE t.kind = "send"
                <5>1. ~(b.status = "handshaking" /\ b.received = TRUE)
                    BY <3>1, <3>9, <4>2 DEF Diligent
                <5>2. p.status \in {b.status, "error", "ready"}
                    BY <1>5, <3>3 DEF Onward
                <5> QED BY <3>1, <3>4, <3>8, <4>2, <5>1, <5>2 DEF Dutiful
            <4> QED BY <4>1, <4>2
        <3>10. p.received = TRUE => p.peerKey \in Trusted(b)
            BY <1>5, <3>3 DEF Onward, Trusted
        <3>11. MovesOn(b, p)
            BY <1>5, <3>1, <3>3, <3>5, <3>6, <3>7, <3>8, <3>9, <3>10 DEF Onward, MovesOn
        <3> QED BY <3>1, <3>11, MovesSteady
    <2> HIDE DEF p
    <2>4. p.raced = b.raced /\ <<c, p.conn>> = k
        BY <2>2 DEF TaskStep, SameCore, Socket
    <2>5. Now(client, client', c, p)
        BY <2>1, BecomesIs
    <2>6. relay' \in RelaySend(relay, k, f) /\ RelayOK(relay)
        BY <1>2, <1>6, PairIs
    <2>7. CASE k \in relay.wired /\ k \in relay.seats /\ relay' = Q
        <3>1. ~b.raced => f.key = Spki(b.keyPair)
            BY <1>1, <1>3, RunsIs DEF TaskOK
        <3>2. PairsOK(client, Q) /\ Informed(client, Q, c)
            BY <1>3, <2>7, <3>1, PairIs, KeyPairs
        <3> HIDE DEF Q
        <3> QED BY <2>3, <2>4, <2>5, <2>7, <3>2, StepPairs
    <2>8. CASE ~(k \in relay.wired /\ k \in relay.seats /\ relay' = Q)
        <3>1. /\ Quiet(relay, relay')
              /\ k \notin relay.wired \/ k \notin relay.seats \/ relay'.refused
            BY <1>3, <2>6, <2>8, SendQuiet
        <3>2. PairsOK(client, relay')
            BY <3>1, PairIs, QuietPairs
        <3>3. k \notin Alive(relay') \/ relay'.refused
            BY <3>1 DEF Quiet, Alive
        <3>4. relay'.refused => Informed(client, relay', c)
            BY DEF Informed
        <3> QED BY <2>3, <2>4, <2>5, <3>2, <3>3, <3>4, StepPairs
    <2> QED BY <2>7, <2>8
<1>7. CASE r.transport # "open"
    <2>1. PICK p \in {Finished(r), Rejected(Finished(r), "HANDSHAKE_FAILED")} : Becomes(c, p)
        BY <1>2, <1>7 DEF HandshakeFailed
    <2>2. TaskStep(b, Finished(r))
        BY <1>4, FinishedStep, TaskTwice
    <2>3. Finished(r).conn = b.conn /\ Shaped(Finished(r))
        BY <2>2 DEF TaskStep, SameCore
    <2>4. Rejected(Finished(r), "HANDSHAKE_FAILED").conn = Finished(r).conn
        BY <2>3, RejectedSame
    <2>5. p.conn = b.conn
        BY <2>1, <2>3, <2>4
    <2>6. relay' = relay /\ k \notin relay'.wired
        BY <1>2, <1>4, <1>7, PairIs
    <2> QED BY <2>1, <2>5, <2>6, QuietNot, DownKeeps
<1> QED BY <1>6, <1>7

----------------------------------------------------------------------------
(* The specification, and what it says of two.                             *)

\* A seat taken late is taken by one who has heard nothing since.
LEMMA PairsOfRelay ==
    ASSUME PairInv, RelayStep
    PROVE  PairsOK(client', relay')
<1>1. RelayOK(relay) /\ IsFiniteSet(relay.seats) /\ PairsOK(client, relay) /\ HandInv
      /\ client' = client
    BY DEF PairInv, HandInv, SeatInv, Fine, PairsOK, RelayStep
<1>2. CASE Quiet(relay, relay')
    BY <1>1, <1>2, StillKeeps
<1>3. ASSUME NEW k, JoinRetryFires(k), Seated(relay, relay', k)
      PROVE  PairsOK(client', relay')
    <2>1. k \in relay.retries /\ relay'.wired = relay.wired
        BY <1>1, <1>3, JoinRetryServes DEF JoinRetryFires, Served
    <2>2. ASSUME NEW e \in Clients, Seat(client, e) = k, k \in Alive(relay'), ~client[e].raced
          PROVE  k \notin relay.seats /\ Fresh(client[e]) /\ ~News(relay.net[e])
        <3>1. Socket(e) = k /\ k \in relay.wired
            BY <2>1, <2>2, SeatIs DEF Alive
        <3>2. EarlyOK(client[e], k, relay, relay.net[e])
            BY <1>1, <2>2, <3>1, HandedIs
        <3> QED BY <2>1, <3>1, <3>2 DEF EarlyOK, Early
    <2> QED BY <1>1, <1>3, <2>2, SeatedPairs
<1> QED BY <1>1, <1>2, <1>3, RelayStepSeats

LEMMA PairInit == Init => PairInv
<1> SUFFICES ASSUME Init PROVE PairInv
    OBVIOUS
<1>1. relay.seats = {} /\ IsFiniteSet({})
    BY FS_EmptySet DEF Init, RelayInit
<1>2. PairsOK(client, relay)
    BY <1>1 DEF PairsOK, AtMostTwo, Alive
<1> QED BY <1>2, HandInit DEF PairInv

LEMMA PairStep == PairInv /\ [Next]_vars => PairInv'
<1> SUFFICES ASSUME PairInv, [Next]_vars PROVE PairsOK(client', relay')
    BY HandStep DEF PairInv
<1>1. ASSUME NEW c \in Clients, Owner(c) PROVE PairsOK(client', relay')
    BY <1>1, PairsOfOpen, PairsOfReconnect, PairsOfChat, PairsOfLeave DEF Owner
<1>2. ASSUME NEW c \in Clients, Request(c) PROVE PairsOK(client', relay')
    BY <1>2, PairsOfDial, PairsOfConnected, PairsOfRequest, PairsOfTimeout, PairsOfChat
       DEF Request
<1>3. ASSUME NEW c \in Clients, Event(c) PROVE PairsOK(client', relay')
    BY <1>3, PairsOfCreated, PairsOfJoined, PairsOfQueued, PairsOfLeft, PairsOfExpired,
       PairsOfError, PairsOfSocket, PairsOfClosing DEF Event, FrameArrives
<1>4. ASSUME NEW c \in Clients, LockStep(c) PROVE PairsOK(client', relay')
    BY <1>4, PairsOfStart, PairsOfExport, PairsOfImport, PairsOfDerive, PairsOfPrint,
       PairsOfPrints, PairsOfDecrypt DEF LockStep
<1>5. ASSUME NEW c \in Clients, WireBreaks(c) PROVE PairsOK(client', relay')
    BY <1>5, PairsOfSocket
<1>6. CASE RelayStep
    BY <1>6, PairsOfRelay
<1>7. CASE UNCHANGED vars
    BY <1>7, QuietNot, StillKeeps DEF vars
<1> QED BY <1>1, <1>2, <1>3, <1>4, <1>5, <1>6, <1>7 DEF Next

(* Unless the relay has removed somebody without a word, there are never   *)
(* more than two in the session, and a client that is connected and has    *)
(* not been overtaken goes by no key but that of the one opposite, as soon *)
(* as it has heard of those who have left.  Once it has heard everything   *)
(* it shows whether somebody is opposite, and sends its key if so; a key   *)
(* that was sent and not refused is taken.                                 *)
THEOREM KeysAreOfThePartner == Spec => []PairInv
<1> QED BY PairInit, PairStep, PTL DEF Spec

(* Once both ends are ready and nothing is on its way, they hold the same  *)
(* secret, whatever leaves, reconnects, refusals and timeouts came before. *)
THEOREM SecretsAreTheSame == Spec => []SameSecret
<1>1. ASSUME PairInv, ~relay.pruned, ~Raced,
             \A e \in Clients : Settled(e) /\ client[e].status = "ready",
             NEW c \in Clients, NEW d \in Clients
      PROVE  client[c].shared = client[d].shared
    <2>1. ASSUME NEW e \in Clients
          PROVE  /\ Seat(client, e) \in Alive(relay) /\ ~client[e].raced
                 /\ relay.net[e] = <<>> /\ Told(client[e])
        <3>1. /\ client[e].status = "ready" /\ client[e].lock = <<>> /\ ~client[e].raced
              /\ Socket(e) \in relay.wired /\ relay.net[e] = <<>>
            BY <1>1 DEF Settled, Raced
        <3>2. HandshakeOK(client[e]) /\ SeatInv
            BY <1>1, <3>1, HandedIs DEF PairInv
        <3>3. /\ SeatedAs(client[e], Socket(e), relay, relay.net[e])
              /\ LineOK(relay.net[e], Socket(e) \in relay.wired, Socket(e) \in relay.dying)
            BY <3>2 DEF SeatInv, Fine, AllSeated, RelayOK, LinesOK
        <3>4. Socket(e) \in relay.seats \ relay.dying
            <4>1. ~HasClose(<<>>)
                BY Empty DEF HasClose
            <4> QED BY <3>1, <3>3, <4>1 DEF SeatedAs, LineOK, Believing
        <3>5. Told(client[e])
            BY <3>1, <3>2 DEF HandshakeOK
        <3> QED BY <3>1, <3>4, <3>5, SeatIs DEF Alive
    <2>2. ASSUME NEW x \in Clients, NEW y \in Clients, x # y
          PROVE  client[x].shared = {client[x].keyPair, client[y].keyPair}
        <3>1. Opposite(client, relay, x)
            BY <1>1, <2>1 DEF PairInv, PairsOK
        <3>2. Agrees(client[x], <<>>, {Spki(client[y].keyPair)})
            BY <2>1, <2>2, <3>1 DEF Opposite
        <3>3. Trusted(client[x]) \subseteq {Spki(client[y].keyPair)}
            BY <3>2, Empty DEF Agrees, HasLeft
        <3>4. Holds(client[x])
            BY <2>1 DEF Told
        <3>5. PICK q : client[x].peerKey = Spki(q) /\ client[x].shared = {client[x].keyPair, q}
            BY <3>4 DEF Holds
        <3>6. client[x].peerKey \in Trusted(client[x])
            BY <3>4 DEF Holds, Trusted
        <3> QED BY <3>3, <3>5, <3>6, SpkiOnce
    <2>3. CASE c = d
        BY <2>3
    <2>4. CASE c # d
        <3>1. /\ client[c].shared = {client[c].keyPair, client[d].keyPair}
              /\ client[d].shared = {client[d].keyPair, client[c].keyPair}
            BY <2>2, <2>4
        <3>2. \A x, y : {x, y} = {y, x}
            OBVIOUS
        <3> QED BY <3>1, <3>2
    <2> QED BY <2>3, <2>4
<1>2. PairInv => SameSecret
    <2> SUFFICES ASSUME PairInv, ~relay.pruned, ~Raced,
                        \A e \in Clients : Settled(e) /\ client[e].status = "ready"
                 PROVE  \A c, d \in Clients : client[c].shared = client[d].shared
        BY DEF SameSecret
    <2> QED BY <1>1
<1> QED BY <1>2, KeysAreOfThePartner, PTL

\* Whoever is seated and has heard everything shows its partner, has sent its
\* key, and unless one was refused has taken that of whoever is settled too.
LEMMA SettledKnows ==
    ASSUME PairInv, ~relay.pruned, NEW e \in Clients, Settled(e), ~client[e].raced,
           Socket(e) \in relay.seats
    PROVE  /\ Seat(client, e) = Socket(e) /\ Seat(client, e) \in Alive(relay)
           /\ Diligent(client[e])
           /\ relay.seats # {Socket(e)} => Greets(client[e]) /\ client[e].sent = TRUE
           /\ client[e].sent = TRUE => Informed(client, relay, e)
<1>1. /\ client[e].lock = <<>> /\ Socket(e) \in relay.wired /\ relay.net[e] = <<>>
    BY DEF Settled
<1>2. LineOK(relay.net[e], Socket(e) \in relay.wired, Socket(e) \in relay.dying)
    BY PairIs DEF RelayOK, LinesOK
<1>3. Socket(e) \notin relay.dying
    <2>1. ~HasClose(<<>>)
        BY Empty DEF HasClose
    <2> QED BY <1>1, <1>2, <2>1 DEF LineOK
<1>4. Seat(client, e) = Socket(e) /\ Seat(client, e) \in Alive(relay)
    BY <1>1, <1>3, SeatIs DEF Alive
<1>5. Expecting(client, relay, e)
    BY <1>4, PairIs DEF PairsOK
<1>6. Len(<<>>) = 0 /\ Elements(<<>>) = {} /\ \A i : i \notin 1..0
    BY Empty
<1>7. \A r : (Greeted(r, <<>>) => Greets(r)) /\ (Owes(r, <<>>) => Due(r))
    BY <1>6 DEF Greeted, Owes, Stands
<1>8. ~HasLeft(<<>>)
    BY <1>6 DEF HasLeft
<1>9. Due(client[e]) => client[e].sent = TRUE
    BY <1>1, <1>6 DEF Due
<1> QED BY <1>1, <1>4, <1>5, <1>7, <1>8, <1>9 DEF Expecting

(* A page that has heard everything offers its link only while it sits     *)
(* alone: two people who talk do not see the invitation, for every number  *)
(* of clients, connections, faults and messages.                           *)
THEOREM InvitationsAreForFreeSeats == Spec => []OffersAFreeSeat
<1>1. ASSUME PairInv, NEW c \in Clients, Settled(c), OffersLink(c),
             Socket(c) \in relay.seats,
             client[c].status = "handshaking" => \A d \in Clients : Settled(d),
             ~relay.pruned, ~relay.refused, ~Raced, relay.seats \subseteq relay.wired,
             ~(OnPhone(c) /\ client[c].status = "error"),
             relay.seats # {Socket(c)}
      PROVE  FALSE
    <2>1. \A e \in Clients : ~client[e].raced
        BY <1>1 DEF Raced
    <2>2. Greets(client[c]) /\ Diligent(client[c]) /\ Seat(client, c) \in Alive(relay)
        BY <1>1, <2>1, SettledKnows
    <2>3. client[c].status = "handshaking"
        BY <1>1, <2>2 DEF Greets, OffersLink, ShowsShare, Ready
    <2>4. PICK d \in Clients : Socket(d) \in relay.seats /\ Socket(d) # Socket(c)
        <3>1. PICK k \in relay.seats : k # Socket(c)
            BY <1>1
        <3>2. k \in Sockets
            BY <1>1, PairIs DEF RelayOK
        <3> QED BY <3>1, <3>2 DEF Sockets
    <2>5. d # c /\ relay.seats # {Socket(d)}
        BY <1>1, <2>4
    <2>6. Informed(client, relay, d)
        BY <1>1, <2>1, <2>3, <2>4, <2>5, SettledKnows
    <2>7. Keyed(client[c], <<>>)
        BY <1>1, <2>1, <2>2, <2>5, <2>6 DEF Informed, Settled
    <2>8. Trusted(client[c]) # {}
        BY <2>7 DEF Keyed, Stands
    <2>9. client[c].received = TRUE
        BY <1>1, <2>8, Empty DEF Trusted, Settled
    <2> QED BY <1>1, <2>2, <2>3, <2>9 DEF Diligent, Settled
<1>2. PairInv => OffersAFreeSeat
    BY <1>1 DEF OffersAFreeSeat
<1> QED BY <1>2, KeysAreOfThePartner, PTL
=============================================================================
