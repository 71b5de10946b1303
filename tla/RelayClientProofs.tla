------------------------- MODULE RelayClientProofs --------------------------
(***************************************************************************)
(* Proofs about two ends of a conversation, for any number of connections, *)
(* messages and faults: what a client believes of its seat at the relay    *)
(* and of its own transport, and the order in which it shows its chats.    *)
(***************************************************************************)
EXTENDS RelayClient, TLAPS

----------------------------------------------------------------------------
(* Frames on their way.                                                    *)

IsSeq(s)    == \E T : s \in Seq(T)
Elements(s) == {s[i] : i \in 1..Len(s)}

LEMMA Empty == IsSeq(<<>>) /\ Elements(<<>>) = {}
<1>1. <<>> \in Seq({}) /\ Len(<<>>) = 0
    OBVIOUS
<1> QED BY <1>1 DEF IsSeq, Elements

LEMMA Appended ==
    ASSUME NEW s, IsSeq(s), NEW e
    PROVE  /\ IsSeq(Append(s, e)) /\ Elements(Append(s, e)) = Elements(s) \cup {e}
           /\ Len(Append(s, e)) = Len(s) + 1 /\ Len(s) \in Nat
           /\ \A i \in 1..Len(s) : Append(s, e)[i] = s[i]
           /\ Append(s, e)[Len(s) + 1] = e
<1>1. PICK T : s \in Seq(T)
    BY DEF IsSeq
<1>2. s \in Seq(T \cup {e}) /\ e \in T \cup {e}
    BY <1>1
<1>3. /\ Append(s, e) \in Seq(T \cup {e})
      /\ Len(Append(s, e)) = Len(s) + 1 /\ Len(s) \in Nat
      /\ \A i \in 1..Len(s) : Append(s, e)[i] = s[i]
      /\ Append(s, e)[Len(s) + 1] = e
    BY <1>2
<1>4. Elements(Append(s, e)) = Elements(s) \cup {e}
    BY <1>3 DEF Elements
<1> QED BY <1>3, <1>4 DEF IsSeq

LEMMA Taken ==
    ASSUME NEW s, IsSeq(s), s # <<>>
    PROVE  /\ IsSeq(Tail(s)) /\ Elements(Tail(s)) \subseteq Elements(s)
           /\ Len(Tail(s)) = Len(s) - 1 /\ Len(s) \in Nat /\ Len(s) >= 1
           /\ \A i \in 1..Len(Tail(s)) : Tail(s)[i] = s[i + 1]
           /\ Head(s) = s[1] /\ Head(s) \in Elements(s)
<1>1. PICK T : s \in Seq(T)
    BY DEF IsSeq
<1>2. /\ Tail(s) \in Seq(T) /\ Len(Tail(s)) = Len(s) - 1 /\ Len(s) \in Nat /\ Len(s) # 0
      /\ \A i \in 1..Len(Tail(s)) : Tail(s)[i] = s[i + 1]
      /\ Head(s) = s[1]
    BY <1>1
<1>3. Elements(Tail(s)) \subseteq Elements(s) /\ Head(s) \in Elements(s)
    BY <1>2 DEF Elements
<1> QED BY <1>2, <1>3 DEF IsSeq

\* The relay ends a connection with SESSION_EXPIRED and closes it.
Last == {"SESSION_EXPIRED", "close"}

HasLast(s)  == \E f \in Elements(s) : f.type \in Last
HasClose(s) == \E f \in Elements(s) : f.type = "close"
AllClose(s) == \A f \in Elements(s) : f.type = "close"
Ordered(s)  == \A i, j \in 1..Len(s) : i < j /\ s[i].type \in Last => s[j].type = "close"

\* The two refusals after which a connection has nothing more to expect.
Refusal(f) == f.type = "ERROR" /\ f.code \in {"SESSION_NOT_FOUND", "SESSION_EXPIRED"}

Refused(s)     == \E f \in Elements(s) : Refusal(f)
RefusedOnce(s) == \A i, j \in 1..Len(s) : Refusal(s[i]) /\ Refusal(s[j]) => i = j

\* A frame that only a seated client is sent.
News(s) == \E f \in Elements(s) : f.type \notin Last \cup {"ERROR"}

LEMMA AppendedFrame ==
    ASSUME NEW s, IsSeq(s), Ordered(s), NEW e, e.type = "close" \/ ~HasLast(s)
    PROVE  LET t == Append(s, e) IN
           /\ IsSeq(t) /\ Ordered(t)
           /\ HasLast(t) => HasLast(s) \/ e.type \in Last
           /\ HasClose(t) <=> HasClose(s) \/ e.type = "close"
           /\ News(t) => News(s) \/ e.type \notin Last \cup {"ERROR"}
           /\ Refused(t) <=> Refused(s) \/ Refusal(e)
           /\ RefusedOnce(s) /\ ~(Refused(s) /\ Refusal(e)) => RefusedOnce(t)
<1> DEFINE t == Append(s, e)
<1>1. IsSeq(t) /\ Elements(t) = Elements(s) \cup {e}
    BY Appended
<1>2. /\ Len(t) = Len(s) + 1 /\ Len(s) \in Nat
      /\ \A i \in 1..Len(s) : t[i] = s[i]
      /\ t[Len(s) + 1] = e
    BY Appended
<1>3. \A i \in 1..Len(s) : s[i] \in Elements(s)
    BY DEF Elements
<1> HIDE DEF t
<1>4. Ordered(t)
    <2> SUFFICES ASSUME NEW i \in 1..Len(t), NEW j \in 1..Len(t), i < j, t[i].type \in Last
                 PROVE  t[j].type = "close"
        BY DEF Ordered
    <2>1. i \in 1..Len(s) /\ t[i] = s[i]
        BY <1>2
    <2>2. CASE j \in 1..Len(s)
        BY <1>2, <2>1, <2>2 DEF Ordered
    <2>3. CASE j = Len(s) + 1
        BY <1>2, <1>3, <2>1, <2>3 DEF HasLast
    <2> QED BY <1>2, <2>2, <2>3
<1>5. Refused(t) <=> Refused(s) \/ Refusal(e)
    BY <1>1 DEF Refused
<1>6. RefusedOnce(s) /\ ~(Refused(s) /\ Refusal(e)) => RefusedOnce(t)
    BY <1>2, <1>3 DEF Refused, RefusedOnce
<1> QED BY <1>1, <1>4, <1>5, <1>6 DEF t, HasLast, HasClose, News

LEMMA TakenFrame ==
    ASSUME NEW s, IsSeq(s), Ordered(s), s # <<>>
    PROVE  LET t == Tail(s) IN
           /\ IsSeq(t) /\ Ordered(t)
           /\ HasLast(t) => HasLast(s)
           /\ Head(s).type # "close" /\ HasClose(s) => HasClose(t)
           /\ News(t) => News(s)
           /\ Head(s).type \in Last => HasLast(s) /\ AllClose(t)
           /\ Head(s).type \notin Last \cup {"ERROR"} => News(s)
           /\ AllClose(s) => Head(s).type = "close"
           /\ Refused(t) => Refused(s)
           /\ RefusedOnce(s) => RefusedOnce(t) /\ (Refusal(Head(s)) => Refused(s) /\ ~Refused(t))
<1> DEFINE t == Tail(s)
<1>1. IsSeq(t) /\ Elements(t) \subseteq Elements(s) /\ Head(s) \in Elements(s)
    BY Taken
<1>2. /\ Len(t) = Len(s) - 1 /\ Len(s) \in Nat /\ Len(s) >= 1
      /\ \A i \in 1..Len(t) : t[i] = s[i + 1]
      /\ Head(s) = s[1]
    BY Taken
<1> HIDE DEF t
<1>3. Ordered(t)
    BY <1>2 DEF Ordered
<1>4. Head(s).type # "close" /\ HasClose(s) => HasClose(t)
    <2> SUFFICES ASSUME Head(s).type # "close", NEW i \in 1..Len(s), s[i].type = "close"
                 PROVE  HasClose(t)
        BY DEF HasClose, Elements
    <2>1. i # 1 /\ i - 1 \in 1..Len(t) /\ t[i - 1] = s[i]
        BY <1>2
    <2> QED BY <2>1 DEF HasClose, Elements
<1>5. Head(s).type \in Last => AllClose(t)
    BY <1>2 DEF Ordered, AllClose, Elements
<1>6. Refused(t) => Refused(s)
    BY <1>1 DEF Refused
<1>7. RefusedOnce(s) => RefusedOnce(t)
    BY <1>2 DEF RefusedOnce
<1>8. RefusedOnce(s) /\ Refusal(Head(s)) => Refused(s) /\ ~Refused(t)
    BY <1>1, <1>2 DEF Refused, RefusedOnce, Elements
<1> QED BY <1>1, <1>3, <1>4, <1>5, <1>6, <1>7, <1>8 DEF t, HasLast, News, AllClose

----------------------------------------------------------------------------
(* What the relay keeps in order, whatever the clients do.                 *)

RelayFields == {"exists", "seats", "wired", "dying", "ended", "retries", "net",
                "pruned", "refused", "faults"}

Sockets == {Socket(c) : c \in Clients}
Past    == {k \in Clients \X Nat : k[2] <= client[k[1]].conn}

\* The frames on their way over a connection that is or is not wired or dying.
LineOK(s, wired, dying) ==
    /\ IsSeq(s) /\ Ordered(s)
    /\ ~wired => s = <<>>
    /\ HasLast(s) => dying
    /\ wired /\ dying => HasClose(s)

RelayShaped(R) == DOMAIN R = RelayFields /\ DOMAIN R.net = Clients

LinesOK(R) == \A c \in Clients : LineOK(R.net[c], Socket(c) \in R.wired, Socket(c) \in R.dying)

\* The connections in the tables of the relay.
Known(R) == R.seats \cup R.retries \cup R.dying

\* A request is refused once, and only on a connection that is in no table.
RefusalsOK(R) == \A c \in Clients :
    /\ RefusedOnce(R.net[c])
    /\ Refused(R.net[c]) => Socket(c) \notin Known(R)

RelayOK(R) ==
    /\ RelayShaped(R)
    /\ R.wired \subseteq Sockets
    /\ R.seats \cup R.dying \cup R.retries \subseteq Past
    /\ ~R.exists => R.seats = {}
    /\ LinesOK(R) /\ RefusalsOK(R)

(* A step of the relay on behalf of the connections X or of none: nobody   *)
(* else loses a seat but to the end of its connection, and what a client   *)
(* is sent as news of its session, it is sent in its seat.  Only the       *)
(* connections Y, which ask for a session, may become known or be refused. *)
Served(R, Q, X, Y) ==
    /\ RelayOK(Q)
    /\ Q.wired = R.wired /\ R.dying \subseteq Q.dying
    /\ \A c \in Clients :
        /\ Socket(c) \in R.dying => Q.net[c] = R.net[c]
        /\ Socket(c) \in Q.wired \ (Q.dying \cup X) =>
            /\ Socket(c) \in R.seats => Socket(c) \in Q.seats
            /\ News(Q.net[c]) => News(R.net[c]) \/ Socket(c) \in Q.seats
        /\ Socket(c) \notin Known(R) \cup Y =>
            Socket(c) \notin Known(Q) /\ (Refused(Q.net[c]) => Refused(R.net[c]))

\* The connection k is in no table but for its end, and has not been refused.
Asks(R, k) ==
    /\ k \notin R.seats \cup R.retries
    /\ \A c \in Clients : Socket(c) = k => ~Refused(R.net[c])

LEMMA SocketIs ==
    /\ \A c : Socket(c)[1] = c
    /\ \A c, d : Socket(c) = Socket(d) => c = d
BY DEF Socket

LEMMA SocketPast ==
    ASSUME \A c \in Clients : client[c].conn \in Nat
    PROVE  \A c \in Clients : Socket(c) \in Past
BY DEF Socket, Past

LEMMA DeliverIs ==
    ASSUME NEW R, RelayShaped(R), R.wired \subseteq Sockets, NEW K, NEW f
    PROVE  LET Q == Deliver(R, K, f) IN
           /\ RelayShaped(Q)
           /\ Q.exists = R.exists /\ Q.seats = R.seats /\ Q.wired = R.wired
           /\ Q.dying = R.dying /\ Q.retries = R.retries
           /\ \A c \in Clients :
                Q.net[c] = IF Socket(c) \in (K \cap R.wired) \ R.dying
                           THEN Append(R.net[c], f) ELSE R.net[c]
<1> DEFINE net == [c \in Clients |-> IF \E k \in (K \cap R.wired) \ R.dying : k[1] = c
                                     THEN Append(R.net[c], f) ELSE R.net[c]]
           Q == [R EXCEPT !.net = net]
<1>1. /\ DOMAIN Q = RelayFields /\ Q.net = net
      /\ Q.exists = R.exists /\ Q.seats = R.seats /\ Q.wired = R.wired
      /\ Q.dying = R.dying /\ Q.retries = R.retries
    <2> HIDE DEF net
    <2> QED BY DEF RelayShaped, RelayFields
<1>2. DOMAIN net = Clients
    OBVIOUS
<1>3. ASSUME NEW c \in Clients
      PROVE  (\E k \in (K \cap R.wired) \ R.dying : k[1] = c)
             <=> Socket(c) \in (K \cap R.wired) \ R.dying
    <2>1. ASSUME NEW k \in R.wired, k[1] = c PROVE k = Socket(c)
        BY <2>1, SocketIs DEF Sockets
    <2> QED BY <2>1, SocketIs
<1>4. \A c \in Clients : net[c] = IF Socket(c) \in (K \cap R.wired) \ R.dying
                                  THEN Append(R.net[c], f) ELSE R.net[c]
    BY <1>3
<1>5. Deliver(R, K, f) = Q
    BY DEF Deliver
<1> HIDE DEF net, Q
<1> QED BY <1>1, <1>2, <1>4, <1>5 DEF RelayShaped

\* Frames to seated clients, and failures to anybody.
LEMMA DeliverServes ==
    ASSUME NEW R, RelayOK(R), NEW K, NEW f, f.type \notin Last, ~Refusal(f),
           f.type = "ERROR" \/ K \subseteq R.seats
    PROVE  Served(R, Deliver(R, K, f), {}, {})
<1> DEFINE Q == Deliver(R, K, f)
<1>1. /\ RelayShaped(Q)
      /\ Q.exists = R.exists /\ Q.seats = R.seats /\ Q.wired = R.wired
      /\ Q.dying = R.dying /\ Q.retries = R.retries
      /\ \A c \in Clients :
           Q.net[c] = IF Socket(c) \in (K \cap R.wired) \ R.dying
                      THEN Append(R.net[c], f) ELSE R.net[c]
    BY DeliverIs DEF RelayOK
<1> HIDE DEF Q
<1>2. ASSUME NEW c \in Clients
      PROVE  /\ LineOK(Q.net[c], Socket(c) \in Q.wired, Socket(c) \in Q.dying)
             /\ Socket(c) \in R.dying => Q.net[c] = R.net[c]
             /\ News(Q.net[c]) => News(R.net[c]) \/ Socket(c) \in Q.seats
             /\ RefusedOnce(Q.net[c]) /\ (Refused(Q.net[c]) => Refused(R.net[c]))
    <2>1. LineOK(R.net[c], Socket(c) \in R.wired, Socket(c) \in R.dying)
          /\ RefusedOnce(R.net[c])
        BY DEF RelayOK, LinesOK, RefusalsOK
    <2>2. CASE Socket(c) \in (K \cap R.wired) \ R.dying
        <3>1. Q.net[c] = Append(R.net[c], f) /\ ~HasLast(R.net[c])
            BY <1>1, <2>1, <2>2 DEF LineOK
        <3>2. LET t == Append(R.net[c], f) IN
              /\ IsSeq(t) /\ Ordered(t) /\ ~HasLast(t)
              /\ News(t) => News(R.net[c]) \/ f.type # "ERROR"
              /\ RefusedOnce(t) /\ (Refused(t) => Refused(R.net[c]))
            BY <2>1, <3>1, AppendedFrame DEF LineOK
        <3> QED BY <1>1, <2>2, <3>1, <3>2 DEF LineOK
    <2>3. CASE Socket(c) \notin (K \cap R.wired) \ R.dying
        BY <1>1, <2>1, <2>3
    <2> QED BY <2>2, <2>3
<1>3. RelayOK(Q) /\ Known(Q) = Known(R)
    BY <1>1, <1>2 DEF RelayOK, LinesOK, RefusalsOK, Known
<1> QED BY <1>1, <1>2, <1>3 DEF Q, Served

\* A refusal, to the one that asks.
LEMMA RefusalServes ==
    ASSUME NEW R, RelayOK(R), NEW k, Asks(R, k), NEW f, f.type = "ERROR"
    PROVE  Served(R, Deliver(R, {k}, f), {}, {k})
<1> DEFINE Q == Deliver(R, {k}, f)
<1>1. /\ RelayShaped(Q)
      /\ Q.exists = R.exists /\ Q.seats = R.seats /\ Q.wired = R.wired
      /\ Q.dying = R.dying /\ Q.retries = R.retries
      /\ \A c \in Clients :
           Q.net[c] = IF Socket(c) \in ({k} \cap R.wired) \ R.dying
                      THEN Append(R.net[c], f) ELSE R.net[c]
    BY DeliverIs DEF RelayOK
<1> HIDE DEF Q
<1>2. ASSUME NEW c \in Clients
      PROVE  /\ LineOK(Q.net[c], Socket(c) \in Q.wired, Socket(c) \in Q.dying)
             /\ Socket(c) \in R.dying => Q.net[c] = R.net[c]
             /\ News(Q.net[c]) => News(R.net[c]) \/ Socket(c) \in Q.seats
             /\ RefusedOnce(Q.net[c])
             /\ Refused(Q.net[c]) => Refused(R.net[c]) \/ (Socket(c) = k /\ k \notin Known(R))
    <2>1. LineOK(R.net[c], Socket(c) \in R.wired, Socket(c) \in R.dying)
          /\ RefusedOnce(R.net[c])
        BY DEF RelayOK, LinesOK, RefusalsOK
    <2>2. CASE Socket(c) \in ({k} \cap R.wired) \ R.dying
        <3>1. Q.net[c] = Append(R.net[c], f) /\ ~HasLast(R.net[c])
            BY <1>1, <2>1, <2>2 DEF LineOK
        <3>2. LET t == Append(R.net[c], f) IN
              /\ IsSeq(t) /\ Ordered(t) /\ ~HasLast(t)
              /\ News(t) => News(R.net[c]) \/ f.type # "ERROR"
              /\ RefusedOnce(t)
            <4>1. Socket(c) = k /\ ~Refused(R.net[c])
                BY <2>2 DEF Asks
            <4> QED BY <2>1, <3>1, <4>1, AppendedFrame DEF LineOK, Last
        <3>3. Socket(c) = k /\ k \notin Known(R)
            BY <2>2 DEF Asks, Known
        <3> QED BY <1>1, <2>2, <3>1, <3>2, <3>3 DEF LineOK
    <2>3. CASE Socket(c) \notin ({k} \cap R.wired) \ R.dying
        BY <1>1, <2>1, <2>3
    <2> QED BY <2>2, <2>3
<1>3. RelayOK(Q) /\ Known(Q) = Known(R)
    BY <1>1, <1>2 DEF RelayOK, LinesOK, RefusalsOK, Known
<1> QED BY <1>1, <1>2, <1>3 DEF Q, Served

LEMMA ServedNot ==
    ASSUME NEW R, RelayOK(R), NEW X, NEW Y
    PROVE  Served(R, R, X, Y)
BY DEF Served

LEMMA ServedTwice ==
    ASSUME NEW R, NEW Q, NEW P, NEW X, NEW Y, Served(R, Q, X, Y), Served(Q, P, X, Y)
    PROVE  Served(R, P, X, Y)
BY DEF Served

LEMMA ServedWider ==
    ASSUME NEW R, NEW Q, NEW X, NEW Y, Served(R, Q, {}, {})
    PROVE  Served(R, Q, X, Y)
BY DEF Served

----------------------------------------------------------------------------
(* The operations of the relay.                                            *)

\* New entries in the tables, the lines as they were.
LEMMA TablesServe ==
    ASSUME NEW R, RelayOK(R), NEW Q, RelayShaped(Q), NEW X, NEW Y,
           Q.wired = R.wired, Q.net = R.net, Q.dying = R.dying,
           Q.seats \cup Q.retries \subseteq Past,
           ~Q.exists => Q.seats = {},
           \A k \in R.seats \ (Q.dying \cup X) : k \in Q.seats,
           Q.seats \cup Q.retries \subseteq Known(R) \cup Y,
           \A c \in Clients : Socket(c) \in Y => ~Refused(R.net[c])
    PROVE  Served(R, Q, X, Y)
<1>1. Known(Q) \subseteq Known(R) \cup Y
    BY DEF Known
<1>2. RelayOK(Q)
    BY <1>1 DEF RelayOK, LinesOK, RefusalsOK
<1> QED BY <1>1, <1>2 DEF Served

LEMMA FaultServes ==
    ASSUME NEW R, RelayOK(R)
    PROVE  Served(R, Fault(R), {}, {}) /\ Fault(R).net = R.net /\ Fault(R).wired = R.wired
<1> DEFINE Q == Fault(R)
<1>1. /\ RelayShaped(Q)
      /\ Q.exists = R.exists /\ Q.seats = R.seats /\ Q.wired = R.wired
      /\ Q.dying = R.dying /\ Q.retries = R.retries /\ Q.net = R.net
    BY DEF Fault, RelayOK, RelayShaped, RelayFields
<1> HIDE DEF Q
<1> QED BY <1>1, TablesServe DEF Q, RelayOK, Known

LEMMA FramesAre ==
    /\ \A type : Frame(type).type = type
    /\ \A code : Failure(code).type = "ERROR" /\ Failure(code).code = code
BY DEF Frame, Failure

LEMMA ExpiredServes ==
    ASSUME NEW R, RelayOK(R)
    PROVE  /\ Served(R, Expired(R), {}, {})
           /\ Expired(R).seats = {} /\ Expired(R).retries = R.retries
           /\ \A c \in Clients : Refused(Expired(R).net[c]) => Refused(R.net[c])
<1> DEFINE K == R.seats
           A == Deliver(R, K, Frame("SESSION_EXPIRED"))
           B == Deliver(A, K, Frame("close"))
           C == Fault(B)
           Q == [C EXCEPT !.exists = FALSE, !.seats = {}, !.dying = @ \cup K]
<1>1. Expired(R) = Q
    BY DEF Expired
<1>2. /\ RelayShaped(A) /\ A.wired = R.wired /\ A.dying = R.dying
      /\ A.retries = R.retries
      /\ \A c \in Clients :
           A.net[c] = IF Socket(c) \in (K \cap R.wired) \ R.dying
                      THEN Append(R.net[c], Frame("SESSION_EXPIRED")) ELSE R.net[c]
    BY DeliverIs DEF RelayOK
<1> HIDE DEF A
<1>3. /\ RelayShaped(B) /\ B.wired = A.wired /\ B.dying = A.dying /\ B.retries = A.retries
      /\ \A c \in Clients :
           B.net[c] = IF Socket(c) \in (K \cap A.wired) \ A.dying
                      THEN Append(A.net[c], Frame("close")) ELSE A.net[c]
    BY <1>2, DeliverIs DEF RelayOK
<1> HIDE DEF B
<1>4. /\ RelayShaped(C) /\ C.wired = B.wired /\ C.dying = B.dying /\ C.retries = B.retries
      /\ C.net = B.net
    BY <1>3 DEF Fault, RelayShaped, RelayFields
<1> HIDE DEF C
<1>5. /\ RelayShaped(Q) /\ Q.exists = FALSE /\ Q.seats = {} /\ Q.wired = C.wired
      /\ Q.dying = C.dying \cup K /\ Q.retries = C.retries /\ Q.net = C.net
    <2> HIDE DEF K
    <2> QED BY <1>4 DEF RelayShaped, RelayFields
<1> HIDE DEF Q
<1>6. /\ Q.wired = R.wired /\ Q.dying = R.dying \cup K /\ Q.retries = R.retries
      /\ \A c \in Clients :
           Q.net[c] = IF Socket(c) \in (K \cap R.wired) \ R.dying
                      THEN Append(Append(R.net[c], Frame("SESSION_EXPIRED")), Frame("close"))
                      ELSE R.net[c]
    BY <1>2, <1>3, <1>4, <1>5
<1>7. ASSUME NEW c \in Clients
      PROVE  /\ LineOK(Q.net[c], Socket(c) \in Q.wired, Socket(c) \in Q.dying)
             /\ RefusedOnce(Q.net[c]) /\ (Refused(Q.net[c]) => Refused(R.net[c]))
    <2>1. LineOK(R.net[c], Socket(c) \in R.wired, Socket(c) \in R.dying)
          /\ RefusedOnce(R.net[c])
        BY DEF RelayOK, LinesOK, RefusalsOK
    <2>2. CASE Socket(c) \in (K \cap R.wired) \ R.dying
        <3> DEFINE s == R.net[c]
                   t == Append(s, Frame("SESSION_EXPIRED"))
                   u == Append(t, Frame("close"))
        <3>1. IsSeq(s) /\ Ordered(s) /\ ~HasLast(s) /\ RefusedOnce(s)
            BY <2>1, <2>2 DEF LineOK
        <3>4. ~Refusal(Frame("SESSION_EXPIRED")) /\ ~Refusal(Frame("close"))
            BY FramesAre DEF Refusal
        <3>2. IsSeq(t) /\ Ordered(t) /\ RefusedOnce(t) /\ (Refused(t) => Refused(s))
            BY <3>1, <3>4, AppendedFrame
        <3> HIDE DEF t
        <3>3. IsSeq(u) /\ Ordered(u) /\ HasClose(u)
              /\ RefusedOnce(u) /\ (Refused(u) => Refused(s))
            BY <3>2, <3>4, FramesAre, AppendedFrame
        <3> HIDE DEF u
        <3> QED BY <1>6, <2>2, <3>3 DEF LineOK, u, t
    <2>3. CASE Socket(c) \notin (K \cap R.wired) \ R.dying
        BY <1>6, <2>1, <2>3 DEF LineOK
    <2> QED BY <2>2, <2>3
<1>8. RelayOK(Q) /\ Known(Q) = Known(R)
    <2>1. Known(Q) = Known(R)
        BY <1>5, <1>6 DEF Known
    <2> QED BY <1>5, <1>6, <1>7, <2>1 DEF RelayOK, LinesOK, RefusalsOK
<1>9. ASSUME NEW c \in Clients
      PROVE  /\ Socket(c) \in R.dying => Q.net[c] = R.net[c]
             /\ Socket(c) \in Q.wired \ Q.dying =>
                    Socket(c) \notin R.seats /\ Q.net[c] = R.net[c]
    BY <1>6
<1> QED BY <1>1, <1>5, <1>6, <1>7, <1>8, <1>9 DEF Served

LEMMA LimitedServes ==
    ASSUME NEW R, RelayOK(R), NEW k, NEW Q \in Limited(R, k)
    PROVE  Served(R, Q, {}, {})
<1> DEFINE S == Deliver(R, {k}, Failure("RATE_LIMITED"))
<1>1. Q = Fault(S)
    BY DEF Limited
<1>2. Served(R, S, {}, {})
    BY DeliverServes, FramesAre DEF Last, Refusal
<1> HIDE DEF S
<1>3. Served(S, Fault(S), {}, {})
    BY <1>2, FaultServes DEF Served
<1> QED BY <1>1, <1>2, <1>3, ServedTwice

LEMMA TooLateServes ==
    ASSUME NEW R, RelayOK(R), NEW k, Asks(R, k), NEW Q \in TooLate(R, k)
    PROVE  Served(R, Q, {}, {k})
<1> DEFINE S == Expired(R)
<1>1. Q = Deliver(S, {k}, Failure("SESSION_EXPIRED"))
    BY DEF TooLate
<1>2. Served(R, S, {}, {}) /\ Asks(S, k)
    BY ExpiredServes DEF Asks
<1> HIDE DEF S
<1>3. Served(S, Q, {}, {k})
    <2>1. RelayOK(S)
        BY <1>2 DEF Served
    <2> QED BY <1>1, <1>2, <2>1, RefusalServes, FramesAre
<1>4. Served(R, S, {}, {k})
    BY <1>2, ServedWider
<1> QED BY <1>3, <1>4, ServedTwice

LEMMA CreateServes ==
    ASSUME NEW R, RelayOK(R), NEW k \in Past, Asks(R, k)
    PROVE  Served(R, RelayCreate(R, k), {}, {k})
<1>1. CASE R.exists /\ R.seats # {}
    BY <1>1, RefusalServes, FramesAre DEF RelayCreate
<1>2. CASE ~(R.exists /\ R.seats # {})
    <2> DEFINE S == [R EXCEPT !.exists = TRUE, !.seats = {k}]
    <2>1. /\ RelayShaped(S) /\ S.exists = TRUE /\ S.seats = {k} /\ S.wired = R.wired
          /\ S.dying = R.dying /\ S.retries = R.retries /\ S.net = R.net
        BY DEF RelayOK, RelayShaped, RelayFields
    <2>2. RelayCreate(R, k) = Deliver(S, {k}, Frame("SESSION_CREATED"))
        BY <1>2 DEF RelayCreate
    <2> HIDE DEF S
    <2>3. R.seats = {} /\ R.retries \subseteq Past
        BY <1>2 DEF RelayOK
    <2>4. Served(R, S, {}, {k})
        BY <2>1, <2>3, TablesServe DEF Asks, Known
    <2>5. Served(S, Deliver(S, {k}, Frame("SESSION_CREATED")), {}, {})
        BY <2>1, <2>4, DeliverServes, FramesAre DEF Served, Last, Refusal
    <2> QED BY <2>2, <2>4, <2>5, ServedWider, ServedTwice
<1> QED BY <1>1, <1>2

LEMMA TryJoinServes ==
    ASSUME NEW R, RelayOK(R), R.exists, NEW k \in Past, Asks(R, k)
    PROVE  Served(R, TryJoin(R, k), {}, {k})
<1> DEFINE alive == R.seats \ R.dying
           S == [R EXCEPT !.seats = alive \cup {k}, !.pruned = @ \/ alive # R.seats]
<1>1. /\ RelayShaped(S) /\ S.exists = R.exists /\ S.seats = alive \cup {k}
      /\ S.wired = R.wired /\ S.dying = R.dying /\ S.retries = R.retries /\ S.net = R.net
    <2> HIDE DEF alive
    <2> QED BY DEF RelayOK, RelayShaped, RelayFields
<1>2. TryJoin(R, k) = IF alive = {} THEN Deliver(S, {k}, Frame("SESSION_CREATED"))
                      ELSE Deliver(S, alive \cup {k}, Frame("PARTNER_JOINED"))
    BY DEF TryJoin
<1>3. R.seats \cup R.retries \subseteq Past
    BY DEF RelayOK
<1> HIDE DEF S
<1>4. Served(R, S, {}, {k})
    BY <1>1, <1>3, TablesServe DEF Asks, Known
<1>5. \A K, f : f.type \notin Last /\ ~Refusal(f) /\ K \subseteq S.seats =>
                 Served(S, Deliver(S, K, f), {}, {})
    BY <1>4, DeliverServes DEF Served
<1>6. /\ Frame("SESSION_CREATED").type \notin Last /\ Frame("PARTNER_JOINED").type \notin Last
      /\ ~Refusal(Frame("SESSION_CREATED")) /\ ~Refusal(Frame("PARTNER_JOINED"))
    BY FramesAre DEF Last, Refusal
<1>7. Served(S, TryJoin(R, k), {}, {})
    BY <1>1, <1>2, <1>5, <1>6
<1> QED BY <1>4, <1>7, ServedWider, ServedTwice

LEMMA JoinServes ==
    ASSUME NEW R, RelayOK(R), NEW k \in Past, Asks(R, k)
    PROVE  Served(R, RelayJoin(R, k), {}, {k})
<1>1. CASE ~R.exists
    BY <1>1, RefusalServes, FramesAre DEF RelayJoin
<1>2. CASE R.exists /\ Full(R)
    <2> DEFINE S == [R EXCEPT !.retries = @ \cup {k}]
    <2>1. /\ RelayShaped(S) /\ S.exists = R.exists /\ S.seats = R.seats /\ S.wired = R.wired
          /\ S.dying = R.dying /\ S.retries = R.retries \cup {k} /\ S.net = R.net
        BY DEF RelayOK, RelayShaped, RelayFields
    <2>2. RelayJoin(R, k) = S
        BY <1>2 DEF RelayJoin
    <2> HIDE DEF S
    <2>3. R.seats \cup R.retries \subseteq Past /\ (~R.exists => R.seats = {})
        BY DEF RelayOK
    <2> QED BY <2>1, <2>2, <2>3, TablesServe DEF Asks, Known
<1>3. CASE R.exists /\ ~Full(R)
    BY <1>3, TryJoinServes DEF RelayJoin
<1> QED BY <1>1, <1>2, <1>3

\* Whatever a request is answered with.
LEMMA AnswersServe ==
    ASSUME NEW R, RelayOK(R), NEW k \in Past, Asks(R, k),
           NEW Q \in CreateAnswers(R, k) \cup JoinAnswers(R, k)
    PROVE  Served(R, Q, {}, {k})
<1>1. Q \in {RelayCreate(R, k), RelayJoin(R, k)} \cup Limited(R, k) \cup TooLate(R, k)
    BY DEF CreateAnswers, JoinAnswers
<1> QED BY <1>1, CreateServes, JoinServes, LimitedServes, TooLateServes, ServedWider

LEMMA SendServes ==
    ASSUME NEW R, RelayOK(R), NEW k, NEW f, f.type \in {"chat", "key"}, NEW Q \in RelaySend(R, k, f)
    PROVE  Served(R, Q, {}, {})
<1>1. CASE k \notin R.wired
    BY <1>1, ServedNot DEF RelaySend
<1>2. CASE k \in R.wired /\ k \notin R.seats
    BY <1>2, DeliverServes, FramesAre DEF RelaySend, Last, Refusal
<1>3. CASE k \in R.wired /\ k \in R.seats /\ Q = Deliver(R, R.seats \ {k}, f)
    BY <1>3, DeliverServes DEF Last, Refusal
<1>4. CASE \E S \in {R} : Q = [Fault(Deliver(S, {k}, Failure("RATE_LIMITED")))
                               EXCEPT !.refused = @ \/ f.type = "key"]
    <2> DEFINE S == Deliver(R, {k}, Failure("RATE_LIMITED"))
               P == Fault(S)
               Z == [P EXCEPT !.refused = @ \/ f.type = "key"]
    <2>0. Q = Z
        BY <1>4
    <2>1. Served(R, S, {}, {})
        BY DeliverServes, FramesAre DEF Last, Refusal
    <2> HIDE DEF S
    <2>2. Served(S, P, {}, {})
        BY <2>1, FaultServes DEF Served
    <2> HIDE DEF P
    <2>3. /\ RelayShaped(Z)
          /\ Z.exists = P.exists /\ Z.seats = P.seats /\ Z.wired = P.wired
          /\ Z.dying = P.dying /\ Z.retries = P.retries /\ Z.net = P.net
        BY <2>2 DEF Served, RelayOK, RelayShaped, RelayFields
    <2> HIDE DEF Z
    <2>4. Served(P, Z, {}, {})
        <3>1. RelayOK(P)
            BY <2>2 DEF Served
        <3>2. /\ P.seats \cup P.retries \subseteq Past /\ (~P.exists => P.seats = {})
              /\ P.seats \cup P.retries \subseteq Known(P)
            BY <3>1 DEF RelayOK, Known
        <3> QED BY <2>3, <3>1, <3>2, TablesServe
    <2> QED BY <2>0, <2>1, <2>2, <2>4, ServedTwice
<1>5. k \in R.wired /\ k \in R.seats =>
      Q = Deliver(R, R.seats \ {k}, f)
      \/ \E S \in {R} : Q = [Fault(Deliver(S, {k}, Failure("RATE_LIMITED")))
                               EXCEPT !.refused = @ \/ f.type = "key"]
    BY DEF RelaySend
<1> QED BY <1>1, <1>2, <1>3, <1>4, <1>5

LEMMA LeaveServes ==
    ASSUME NEW R, RelayOK(R), NEW k
    PROVE  Served(R, RelayLeave(R, k), {k}, {})
<1>1. CASE k \notin R.seats
    BY <1>1, ServedNot DEF RelayLeave
<1>2. CASE k \in R.seats
    <2> DEFINE S == [R EXCEPT !.seats = @ \ {k}]
    <2>1. /\ RelayShaped(S) /\ S.exists = R.exists /\ S.seats = R.seats \ {k}
          /\ S.wired = R.wired /\ S.dying = R.dying /\ S.retries = R.retries /\ S.net = R.net
        BY DEF RelayOK, RelayShaped, RelayFields
    <2>2. RelayLeave(R, k) = Deliver(S, S.seats, Frame("PARTNER_LEFT"))
        BY <1>2, <2>1 DEF RelayLeave
    <2> HIDE DEF S
    <2>3. R.seats \cup R.retries \subseteq Past /\ (~R.exists => R.seats = {})
        BY DEF RelayOK
    <2>4. Served(R, S, {k}, {})
        BY <2>1, <2>3, TablesServe DEF Known
    <2>5. Served(S, Deliver(S, S.seats, Frame("PARTNER_LEFT")), {}, {})
        BY <2>4, DeliverServes, FramesAre DEF Served, Last, Refusal
    <2> QED BY <2>2, <2>4, <2>5, ServedTwice, ServedWider
<1> QED BY <1>1, <1>2

----------------------------------------------------------------------------
(* What the relay does of its own accord, and what ends a connection.      *)

LEMMA SocketDiesServes ==
    ASSUME RelayOK(relay), NEW k, SocketDies(k)
    PROVE  Served(relay, relay', {}, {})
<1> DEFINE Q == [relay EXCEPT !.dying = @ \cup {k}]
<1>1. /\ RelayShaped(Q) /\ Q.exists = relay.exists /\ Q.seats = relay.seats
      /\ Q.wired = relay.wired /\ Q.dying = relay.dying \cup {k}
      /\ Q.retries = relay.retries /\ Q.net = relay.net
    BY DEF RelayOK, RelayShaped, RelayFields
<1>2. relay' = Q /\ k \in relay.seats \cup relay.retries /\ k \notin relay.wired
    BY DEF SocketDies
<1> HIDE DEF Q
<1>3. LinesOK(Q)
    BY <1>1, <1>2 DEF RelayOK, LinesOK, LineOK
<1>4. Known(Q) = Known(relay)
    BY <1>1, <1>2 DEF Known
<1> QED BY <1>1, <1>2, <1>3, <1>4 DEF Served, RelayOK, RefusalsOK

LEMMA CloseEventServes ==
    ASSUME RelayOK(relay), NEW k, CloseEvent(k)
    PROVE  Served(relay, relay', {}, {})
<1> DEFINE S == RelayLeave(relay, k)
           Q == [S EXCEPT !.ended = @ \cup {k}]
<1>1. Served(relay, S, {k}, {})
    BY LeaveServes
<1>2. relay' = Q /\ k \in relay.dying
    BY DEF CloseEvent
<1> HIDE DEF S
<1>3. /\ RelayShaped(Q) /\ Q.exists = S.exists /\ Q.seats = S.seats /\ Q.wired = S.wired
      /\ Q.dying = S.dying /\ Q.retries = S.retries /\ Q.net = S.net
    BY <1>1 DEF Served, RelayOK, RelayShaped, RelayFields
<1> HIDE DEF Q
<1>4. Served(relay, S, {}, {})
    BY <1>1, <1>2 DEF Served
<1>5. Served(S, Q, {}, {})
    <2>1. RelayOK(S)
        BY <1>4 DEF Served
    <2>2. /\ S.seats \cup S.retries \subseteq Past /\ (~S.exists => S.seats = {})
          /\ S.seats \cup S.retries \subseteq Known(S)
        BY <2>1 DEF RelayOK, Known
    <2> QED BY <1>3, <2>1, <2>2, TablesServe
<1> QED BY <1>2, <1>4, <1>5, ServedTwice

LEMMA JoinRetryServes ==
    ASSUME RelayOK(relay), NEW k, JoinRetryFires(k)
    PROVE  Served(relay, relay', {}, {})
<1> DEFINE R == [relay EXCEPT !.retries = @ \ {k}]
<1>1. /\ RelayShaped(R) /\ R.exists = relay.exists /\ R.seats = relay.seats
      /\ R.wired = relay.wired /\ R.dying = relay.dying
      /\ R.retries = relay.retries \ {k} /\ R.net = relay.net
    BY DEF RelayOK, RelayShaped, RelayFields
<1>2. /\ k \in Past /\ k \in relay.retries
      /\ \/ relay' = IF k \in R.seats THEN R
                     ELSE IF ~R.exists THEN Deliver(R, {k}, Failure("SESSION_NOT_FOUND"))
                     ELSE IF Full(R) THEN Deliver(R, {k}, Failure("SESSION_FULL"))
                     ELSE TryJoin(R, k)
         \/ k \notin R.seats /\ relay' \in TooLate(R, k)
    BY DEF JoinRetryFires, RelayOK
<1> HIDE DEF R
<1>3. Served(relay, R, {}, {})
    BY <1>1, TablesServe DEF RelayOK, Known
<1>4. Served(R, relay', {}, {k})
    <2>1. RelayOK(R)
        BY <1>3 DEF Served
    <2>2. k \notin R.seats => Asks(R, k)
        BY <1>1, <1>2 DEF Asks, RelayOK, RefusalsOK, Known
    <2>3. k \notin R.seats => \A code : Served(R, Deliver(R, {k}, Failure(code)), {}, {k})
        BY <2>1, <2>2, RefusalServes, FramesAre
    <2> QED BY <1>2, <2>1, <2>2, <2>3, ServedNot, TryJoinServes, TooLateServes
<1>5. Served(relay, relay', {}, {k})
    BY <1>3, <1>4, ServedWider, ServedTwice
<1> QED BY <1>2, <1>5 DEF Served, Known

LEMMA GraceServes ==
    ASSUME RelayOK(relay), GraceEnds
    PROVE  Served(relay, relay', {}, {})
<1> DEFINE Q == [relay EXCEPT !.exists = FALSE]
<1>1. /\ RelayShaped(Q) /\ Q.exists = FALSE /\ Q.seats = relay.seats
      /\ Q.wired = relay.wired /\ Q.dying = relay.dying
      /\ Q.retries = relay.retries /\ Q.net = relay.net
    BY DEF RelayOK, RelayShaped, RelayFields
<1>2. relay' = Q /\ relay.seats = {}
    BY DEF GraceEnds
<1> HIDE DEF Q
<1> QED BY <1>1, <1>2, TablesServe DEF RelayOK, Known

LEMMA RelayStepServes ==
    ASSUME RelayOK(relay), RelayStep
    PROVE  Served(relay, relay', {}, {}) /\ UNCHANGED client
BY SocketDiesServes, CloseEventServes, JoinRetryServes, GraceServes, ExpiredServes
   DEF RelayStep, Expire

\* The end of a connection takes its frames along.
LEMMA HangUpIs ==
    ASSUME NEW R, RelayOK(R), NEW c \in Clients
    PROVE  LET Q == HangUp(R, Socket(c)) IN
           /\ RelayOK(Q)
           /\ Q.wired = R.wired \ {Socket(c)} /\ Q.dying = R.dying /\ Q.seats = R.seats
           /\ Q.retries = R.retries /\ ~Refused(Q.net[c])
           /\ Q.net[c] = <<>> /\ \A d \in Clients \ {c} : Q.net[d] = R.net[d]
<1> DEFINE wired == R.wired \ {Socket(c)}
           net == [R.net EXCEPT ![c] = <<>>]
           Q == [R EXCEPT !.wired = wired, !.net = net]
<1>1. /\ DOMAIN net = Clients
      /\ net[c] = <<>> /\ \A d \in Clients \ {c} : net[d] = R.net[d]
    BY DEF RelayOK, RelayShaped
<1>2. Socket(c)[1] = c
    BY SocketIs
<1>3. HangUp(R, Socket(c)) = Q
    BY <1>2 DEF HangUp
<1> HIDE DEF wired, net
<1>4. /\ DOMAIN Q = RelayFields /\ Q.exists = R.exists /\ Q.seats = R.seats
      /\ Q.wired = wired /\ Q.dying = R.dying /\ Q.retries = R.retries /\ Q.net = net
    BY DEF RelayOK, RelayShaped, RelayFields
<1> HIDE DEF Q
<1>5. LineOK(<<>>, FALSE, Socket(c) \in R.dying)
    BY Empty DEF LineOK, Ordered, HasLast
<1>8. ~Refused(<<>>) /\ RefusedOnce(<<>>)
    BY Empty DEF Refused, RefusedOnce
<1>6. ASSUME NEW d \in Clients
      PROVE  LineOK(Q.net[d], Socket(d) \in Q.wired, Socket(d) \in Q.dying)
    <2>1. CASE d = c
        BY <1>1, <1>4, <1>5, <2>1 DEF wired, LineOK
    <2>2. CASE d # c
        BY <1>1, <1>4, <2>2, SocketIs DEF wired, RelayOK, LinesOK
    <2> QED BY <2>1, <2>2
<1>7. RelayOK(Q)
    BY <1>1, <1>4, <1>6, <1>8 DEF RelayOK, RelayShaped, LinesOK, RefusalsOK, Known, wired
<1> QED BY <1>1, <1>3, <1>4, <1>7, <1>8 DEF wired

LEMMA ConsumedIs ==
    ASSUME RelayOK(relay), NEW c \in Clients, relay.net[c] # <<>>,
           Head(relay.net[c]).type # "close"
    PROVE  LET Q == Consumed(c) IN
           /\ RelayOK(Q)
           /\ Q.wired = relay.wired /\ Q.dying = relay.dying /\ Q.seats = relay.seats
           /\ Q.retries = relay.retries /\ Q.net[c] = Tail(relay.net[c])
           /\ \A d \in Clients \ {c} : Q.net[d] = relay.net[d]
<1> DEFINE net == [relay.net EXCEPT ![c] = Tail(@)]
           Q == [relay EXCEPT !.net = net]
<1>1. /\ DOMAIN net = Clients
      /\ net[c] = Tail(relay.net[c]) /\ \A d \in Clients \ {c} : net[d] = relay.net[d]
    BY DEF RelayOK, RelayShaped
<1>2. Consumed(c) = Q
    BY DEF Consumed
<1> HIDE DEF net
<1>3. /\ DOMAIN Q = RelayFields /\ Q.exists = relay.exists /\ Q.seats = relay.seats
      /\ Q.wired = relay.wired /\ Q.dying = relay.dying /\ Q.retries = relay.retries
      /\ Q.net = net
    BY DEF RelayOK, RelayShaped, RelayFields
<1> HIDE DEF Q
<1>4. ASSUME NEW d \in Clients
      PROVE  /\ LineOK(Q.net[d], Socket(d) \in Q.wired, Socket(d) \in Q.dying)
             /\ RefusedOnce(Q.net[d]) /\ (Refused(Q.net[d]) => Refused(relay.net[d]))
    <2>1. LineOK(relay.net[d], Socket(d) \in relay.wired, Socket(d) \in relay.dying)
          /\ RefusedOnce(relay.net[d])
        BY DEF RelayOK, LinesOK, RefusalsOK
    <2>2. CASE d = c
        <3>1. LET t == Tail(relay.net[c]) IN
              /\ IsSeq(t) /\ Ordered(t) /\ (HasLast(t) => HasLast(relay.net[c]))
              /\ (HasClose(relay.net[c]) => HasClose(t))
              /\ RefusedOnce(t) /\ (Refused(t) => Refused(relay.net[c]))
            BY <2>1, <2>2, TakenFrame DEF LineOK
        <3> QED BY <1>1, <1>3, <2>1, <2>2, <3>1 DEF LineOK
    <2>3. CASE d # c
        BY <1>1, <1>3, <2>1, <2>3
    <2> QED BY <2>2, <2>3
<1>5. RelayOK(Q)
    BY <1>1, <1>3, <1>4 DEF RelayOK, RelayShaped, LinesOK, RefusalsOK, Known
<1> QED BY <1>1, <1>2, <1>3, <1>5

----------------------------------------------------------------------------
(* What a client keeps in order.                                           *)

Fields == {"dropped", "named", "isHost", "status", "transport", "conn", "call", "asked",
           "opening", "keyPair", "shared", "received", "sent", "localKey", "peerKey", "queue",
           "lock", "sealing", "seen", "partner", "made", "said", "shown",
           "displays", "raced", "deaf"}

Shaped(r) == DOMAIN r = Fields /\ r.dropped \in BOOLEAN /\ r.raced \in BOOLEAN
             /\ r.deaf \in BOOLEAN /\ r.conn \in Nat

(* A client without a transport runs no handler of the lock and does not   *)
(* look alive, but after an overtaken handler or a failed ping.            *)
ClientOK(r) ==
    /\ Shaped(r)
    /\ r.dropped => r.transport = "closed" /\ r.call = "idle" /\ r.lock = <<>>
    /\ r.call = "dial" <=> r.transport = "opening"
    /\ r.call = "keygen" => r.status # "expired"
    /\ ~r.raced =>
        /\ r.transport = "opening" => r.lock = <<>>
        /\ r.transport = "closed" /\ ~r.deaf => r.lock = <<>> /\ ~Live(r)
        /\ r.status = "expired" => r.lock = <<>>

Believing == {"awaiting_partner", "handshaking", "ready"}

\* A step that gives a client no new reason to believe in its seat, ...
Mild(r, s) ==
    /\ ClientOK(s) /\ s.conn = r.conn
    /\ s.transport = "open" => r.transport = "open"
    /\ ~s.raced => /\ ~r.raced
                   /\ s.lock # <<>> => r.lock # <<>>
                   /\ s.status \in Believing => r.status \in Believing \/ r.lock # <<>>
                   /\ s.transport = "open" /\ s.call # "keygen" =>
                         r.call # "keygen" /\ s.keyPair = r.keyPair

\* ... and is no answer that ends a request for good.
Calm(r, s) ==
    /\ Mild(r, s)
    /\ s.status = "expired" => r.status = "expired"
    /\ s.call = "keygen" => r.call = "keygen"

LEMMA CalmTwice ==
    ASSUME NEW r, NEW s, NEW t, Calm(r, s), Calm(s, t)
    PROVE  Calm(r, t)
BY DEF Calm, Mild

LEMMA NewClientIs ==
    /\ DOMAIN NewClient = Fields
    /\ NewClient.dropped = FALSE /\ NewClient.raced = FALSE /\ NewClient.deaf = FALSE
    /\ NewClient.status = "disconnected" /\ NewClient.transport = "closed"
    /\ NewClient.conn = 0 /\ NewClient.call = "idle" /\ NewClient.lock = <<>>
BY DEF Fields, NewClient

\* The core of a record: what the invariant reads.
SameCore(r, s) ==
    /\ Shaped(s)
    /\ s.dropped = r.dropped /\ s.raced = r.raced /\ s.deaf = r.deaf /\ s.conn = r.conn
    /\ s.transport = r.transport /\ s.call = r.call

LEMMA ResetIs ==
    ASSUME NEW r, Shaped(r)
    PROVE  LET s == ResetCryptoState(r) IN
           /\ Shaped(s)
           /\ s.dropped = r.dropped /\ s.status = r.status /\ s.transport = r.transport
           /\ s.conn = r.conn /\ s.call = r.call /\ s.lock = r.lock /\ s.deaf = r.deaf
           /\ s.raced = (r.raced \/ r.lock # <<>>)
BY DEF Shaped, Fields, ResetCryptoState

LEMMA DropIs ==
    ASSUME NEW r, Shaped(r)
    PROVE  LET s == Drop(r) IN
           /\ Shaped(s)
           /\ s.dropped = TRUE /\ s.transport = "closed" /\ s.conn = r.conn /\ s.call = "idle"
           /\ s.lock = <<>> /\ s.deaf = r.deaf /\ s.raced = (r.raced \/ r.lock # <<>>)
           /\ s.status = IF r.status = "expired" THEN "expired" ELSE "disconnected"
<1> DEFINE q == ResetCryptoState(r)
           d == [q EXCEPT !.transport = "closed", !.named = FALSE, !.isHost = FALSE,
                          !.status = IF @ = "expired" THEN @ ELSE "disconnected"]
           s == [d EXCEPT !.dropped = TRUE, !.call = "idle", !.lock = <<>>, !.sealing = <<>>,
                          !.seen = NoPrints, !.partner = FALSE]
<1>1. /\ Shaped(q) /\ q.status = r.status /\ q.conn = r.conn /\ q.deaf = r.deaf
      /\ q.raced = (r.raced \/ r.lock # <<>>)
    BY ResetIs
<1> HIDE DEF q
<1>2. /\ Shaped(d) /\ d.transport = "closed" /\ d.conn = q.conn /\ d.deaf = q.deaf
      /\ d.raced = q.raced
      /\ d.status = IF r.status = "expired" THEN "expired" ELSE "disconnected"
    BY <1>1 DEF Shaped, Fields
<1> HIDE DEF d
<1>3. /\ Shaped(s) /\ s.dropped = TRUE /\ s.transport = d.transport /\ s.conn = d.conn
      /\ s.call = "idle" /\ s.lock = <<>> /\ s.deaf = d.deaf /\ s.raced = d.raced
      /\ s.status = d.status
    BY <1>2 DEF Shaped, Fields
<1>4. Drop(r) = s
    BY DEF Drop, Disconnect, d, q
<1> HIDE DEF s
<1> QED BY <1>1, <1>2, <1>3, <1>4

\* Disconnected, a client believes nothing.
LEMMA DropCalm ==
    ASSUME NEW r, ClientOK(r)
    PROVE  Calm(r, Drop(r)) /\ Drop(r).dropped = TRUE /\ Drop(r).transport = "closed"
BY DropIs DEF ClientOK, Calm, Mild, Shaped, Live, Believing

\* A client without a request in flight is at rest.
LEMMA IdleCalm ==
    ASSUME NEW r, ClientOK(r), r.call = "request"
    PROVE  LET s == [r EXCEPT !.call = "idle"] IN
           Calm(r, s) /\ s.transport = r.transport /\ s.dropped = r.dropped
<1> DEFINE s == [r EXCEPT !.call = "idle"]
<1>1. Shaped(s) /\ s.dropped = r.dropped /\ s.raced = r.raced /\ s.deaf = r.deaf
      /\ s.conn = r.conn /\ s.transport = r.transport /\ s.call = "idle"
      /\ s.status = r.status /\ s.lock = r.lock /\ s.keyPair = r.keyPair
    BY DEF ClientOK, Shaped, Fields
<1> HIDE DEF s
<1> QED BY <1>1 DEF s, Calm, Mild, ClientOK, Shaped, Live

\* The failure of a request leaves a client calm, dropped or not, ...
LEMMA RejectedCalm ==
    ASSUME NEW r, ClientOK(r), NEW code, code # "SESSION_NOT_FOUND"
    PROVE  LET s == Rejected(r, code) IN
           /\ Calm(r, s)
           /\ s.dropped = TRUE => s.transport = "closed"
           /\ s.dropped = FALSE => s.transport = r.transport
           /\ r.call # "request" => s = r
           /\ s.call = "keygen" => r.call = "keygen"
<1>1. CASE r.call # "request"
    BY <1>1 DEF Rejected, Calm, Mild, ClientOK, Shaped
<1>2. CASE r.call = "request" /\ r.opening
    <2>1. Rejected(r, code) = Drop(r)
        BY <1>2 DEF Rejected
    <2> QED BY <1>2, <2>1, DropCalm DEF Calm
<1>3. CASE r.call = "request" /\ ~r.opening
    <2>1. Rejected(r, code) = [r EXCEPT !.call = "idle"]
        BY <1>3 DEF Rejected
    <2> QED BY <1>3, <2>1, IdleCalm DEF ClientOK, Calm
<1> QED BY <1>1, <1>2, <1>3

\* ... but a host may create a session that is gone.
LEMMA GoneMild ==
    ASSUME NEW r, ClientOK(r), r.status # "expired"
    PROVE  LET s == Rejected(r, "SESSION_NOT_FOUND") IN
           /\ Mild(r, s) /\ (s.status = "expired" => r.status = "expired")
           /\ s.dropped = TRUE => s.transport = "closed"
           /\ s.dropped = FALSE => s.transport = r.transport
<1> DEFINE s == [r EXCEPT !.call = "keygen", !.asked = "create"]
<1>1. CASE r.call # "request"
    BY <1>1 DEF Rejected, Mild, ClientOK, Shaped
<1>2. CASE r.call = "request" /\ r.opening
    BY <1>2, DropCalm DEF Rejected, Calm, ClientOK
<1>3. CASE r.call = "request" /\ ~r.opening
    <2>1. Mild(r, s) /\ s.transport = r.transport /\ s.dropped = r.dropped /\ s.status = r.status
        <3>1. Shaped(s) /\ s.dropped = r.dropped /\ s.raced = r.raced /\ s.deaf = r.deaf
              /\ s.conn = r.conn /\ s.transport = r.transport /\ s.call = "keygen"
              /\ s.status = r.status /\ s.lock = r.lock
            BY DEF ClientOK, Shaped, Fields
        <3> HIDE DEF s
        <3> QED BY <1>3, <3>1 DEF Mild, ClientOK, Shaped, Live
    <2>2. \/ Rejected(r, "SESSION_NOT_FOUND") = s
          \/ Rejected(r, "SESSION_NOT_FOUND") = [r EXCEPT !.call = "idle"]
        BY <1>3 DEF Rejected
    <2> HIDE DEF s
    <2> QED BY <1>3, <2>1, <2>2, IdleCalm DEF ClientOK, Calm
<1> QED BY <1>1, <1>2, <1>3

----------------------------------------------------------------------------
(* The tasks of the handshake lock.                                        *)

TaskStep(r, s) ==
    SameCore(r, s) /\ s.keyPair = r.keyPair /\ s.status \in {r.status, "ready"}

LEMMA TaskCalm ==
    ASSUME NEW r, ClientOK(r), r.lock # <<>>, NEW s, TaskStep(r, s)
    PROVE  Calm(r, s) /\ s.dropped = FALSE /\ s.transport = r.transport
BY DEF ClientOK, TaskStep, SameCore, Calm, Mild, Shaped, Believing

LEMMA TaskNot ==
    ASSUME NEW r, Shaped(r)
    PROVE  TaskStep(r, r)
BY DEF TaskStep, SameCore

LEMMA TaskTwice ==
    ASSUME NEW r, NEW s, NEW t, TaskStep(r, s), TaskStep(s, t)
    PROVE  TaskStep(r, t)
BY DEF TaskStep, SameCore

LEMMA FieldsStep ==
    ASSUME NEW r, Shaped(r), NEW v, NEW w
    PROVE  /\ TaskStep(r, [r EXCEPT !.lock = v])
           /\ TaskStep(r, [r EXCEPT !.queue = v])
           /\ TaskStep(r, [r EXCEPT !.peerKey = v])
           /\ TaskStep(r, [r EXCEPT !.localKey = v])
           /\ TaskStep(r, [r EXCEPT !.sent = v])
           /\ TaskStep(r, [r EXCEPT !.seen = v])
           /\ TaskStep(r, [r EXCEPT !.shown = v, !.displays = w])
           /\ TaskStep(r, [r EXCEPT !.status = "ready"])
           /\ TaskStep(r, [r EXCEPT !.received = v, !.shared = w])
BY DEF Shaped, Fields, TaskStep, SameCore

LEMMA StaysShaped ==
    ASSUME NEW r, NEW s, TaskStep(r, s)
    PROVE  Shaped(s)
BY DEF TaskStep, SameCore

LEMMA FinishedStep ==
    ASSUME NEW r, Shaped(r)
    PROVE  TaskStep(r, Finished(r)) /\ \A task : TaskStep(r, At(r, task))
BY FieldsStep DEF Finished, At

LEMMA DecryptStep ==
    ASSUME NEW r, Shaped(r), NEW task, NEW chats
    PROVE  TaskStep(r, DecryptNext(r, task, chats))
<1> DEFINE q == [r EXCEPT !.queue = @ \o chats]
<1>1. TaskStep(r, q)
    BY FieldsStep
<1> HIDE DEF q
<1>2. TaskStep(r, Finished(q))
    BY <1>1, FinishedStep, StaysShaped, TaskTwice
<1>3. DecryptNext(r, task, chats) = Finished(r) \/ DecryptNext(r, task, chats) = Finished(q)
      \/ \E t : DecryptNext(r, task, chats) = At(r, t)
    BY DEF DecryptNext, q
<1> QED BY <1>2, <1>3, FinishedStep

LEMMA FlushStep ==
    ASSUME NEW r, Shaped(r), NEW task
    PROVE  TaskStep(r, FlushInboundQueue(r, task))
<1> DEFINE q == [r EXCEPT !.queue = <<>>]
<1>1. TaskStep(r, q)
    BY FieldsStep
<1>2. FlushInboundQueue(r, task) = DecryptNext(q, task, r.queue)
    BY DEF FlushInboundQueue
<1> HIDE DEF q
<1>3. TaskStep(q, DecryptNext(q, task, r.queue))
    BY <1>1, StaysShaped, DecryptStep
<1> QED BY <1>1, <1>2, <1>3, TaskTwice

LEMMA ReadyStep ==
    ASSUME NEW r, Shaped(r), NEW task
    PROVE  TaskStep(r, BecomeReady(r, task))
<1> DEFINE q == [r EXCEPT !.status = "ready"]
<1>1. TaskStep(r, q)
    BY FieldsStep
<1>2. BecomeReady(r, task) = FlushInboundQueue(q, task)
      \/ \E t : BecomeReady(r, task) = At(q, t)
    BY DEF BecomeReady
<1> HIDE DEF q
<1>3. TaskStep(q, FlushInboundQueue(q, task)) /\ \A t : TaskStep(q, At(q, t))
    BY <1>1, StaysShaped, FlushStep, FinishedStep
<1> QED BY <1>1, <1>2, <1>3, TaskTwice

\* A failed handshake fails the request that is waiting.
LEMMA FailedCalm ==
    ASSUME NEW r, ClientOK(r), r.lock # <<>>, NEW q, TaskStep(r, q),
           NEW code, code # "SESSION_NOT_FOUND"
    PROVE  LET s == Rejected(q, code) IN
           /\ Calm(r, s)
           /\ s.dropped = TRUE => s.transport = "closed"
           /\ s.dropped = FALSE => s.transport = r.transport
<1>1. Calm(r, q) /\ q.transport = r.transport
    BY TaskCalm
<1>2. ClientOK(q)
    BY <1>1 DEF Calm, Mild
<1> DEFINE s == Rejected(q, code)
<1>3. /\ Calm(q, s)
      /\ s.dropped = TRUE => s.transport = "closed"
      /\ s.dropped = FALSE => s.transport = q.transport
    BY <1>2, RejectedCalm
<1> HIDE DEF s
<1>4. Calm(r, s)
    BY <1>1, <1>3, CalmTwice
<1> QED BY <1>1, <1>3, <1>4 DEF s

----------------------------------------------------------------------------
(* The two together.                                                       *)

(* The client r over its connection k, s the frames on their way to it: it *)
(* believes in its seat, has a handler running or news on its way only     *)
(* while it is seated, has a key pair once it has asked for one, is known  *)
(* to no table before it asks or once it was told that the session it asks *)
(* for is over, and hears nothing but the end of the connection once the   *)
(* session it was in is over.                                              *)
SeatedAs(r, k, R, s) ==
    /\ k \in R.wired => r.transport = "open"
    /\ r.call = "keygen" \/ (r.status = "expired" /\ k \notin R.dying)
       => k \notin Known(R) /\ ~Refused(s)
    /\ ~r.raced =>
        /\ r.status = "expired" /\ r.transport = "open" /\ k \in R.dying => AllClose(s)
        /\ k \in R.wired \ R.dying /\ (r.status \in Believing \/ r.lock # <<>> \/ News(s))
           => k \in R.seats
        /\ k \in R.wired \ R.dying /\ r.call # "keygen" => r.keyPair # NoKey

AllSeated(R) == \A d \in Clients : SeatedAs(client[d], Socket(d), R, R.net[d])

ClientsOK == DOMAIN client = Clients /\ \A d \in Clients : ClientOK(client[d])

Fine(R) == RelayOK(R) /\ AllSeated(R)

SeatInv == ClientsOK /\ Fine(relay)

LEMMA ServedSeated ==
    ASSUME NEW R, Fine(R), NEW Q, NEW Y, Served(R, Q, {}, Y), NEW d \in Clients, Socket(d) \notin Y
    PROVE  SeatedAs(client[d], Socket(d), Q, Q.net[d])
<1>1. SeatedAs(client[d], Socket(d), R, R.net[d])
    BY DEF Fine, AllSeated
<1>2. /\ Q.wired = R.wired /\ R.dying \subseteq Q.dying
      /\ Socket(d) \in R.dying => Q.net[d] = R.net[d]
      /\ Socket(d) \in Q.wired \ Q.dying =>
            /\ Socket(d) \in R.seats => Socket(d) \in Q.seats
            /\ News(Q.net[d]) => News(R.net[d]) \/ Socket(d) \in Q.seats
      /\ Socket(d) \notin Known(R) =>
            Socket(d) \notin Known(Q) /\ (Refused(Q.net[d]) => Refused(R.net[d]))
    BY DEF Served
<1>3. Socket(d) \notin Known(Q) => Socket(d) \notin Q.dying
    BY DEF Known
<1> QED BY <1>1, <1>2, <1>3 DEF SeatedAs

LEMMA ServedFine ==
    ASSUME NEW R, Fine(R), NEW Q, Served(R, Q, {}, {})
    PROVE  Fine(Q)
<1>1. \A d \in Clients : SeatedAs(client[d], Socket(d), Q, Q.net[d])
    BY ServedSeated
<1>2. RelayOK(Q)
    BY DEF Served
<1> QED BY <1>1, <1>2 DEF Fine, AllSeated

LEMMA HungUpFine ==
    ASSUME NEW R, Fine(R), NEW c \in Clients
    PROVE  Fine(HangUp(R, Socket(c)))
<1> DEFINE Q == HangUp(R, Socket(c))
<1>1. /\ RelayOK(Q)
      /\ Q.wired = R.wired \ {Socket(c)} /\ Q.dying = R.dying /\ Q.seats = R.seats
      /\ Q.retries = R.retries /\ ~Refused(Q.net[c]) /\ Q.net[c] = <<>>
      /\ \A d \in Clients \ {c} : Q.net[d] = R.net[d]
    BY HangUpIs DEF Fine
<1> HIDE DEF Q
<1>2. AllClose(<<>>)
    BY Empty DEF AllClose
<1>3. ASSUME NEW d \in Clients
      PROVE  SeatedAs(client[d], Socket(d), Q, Q.net[d])
    <2>1. SeatedAs(client[d], Socket(d), R, R.net[d])
        BY DEF Fine, AllSeated
    <2> QED BY <1>1, <1>2, <2>1 DEF SeatedAs, Known
<1> QED BY <1>1, <1>3 DEF Q, Fine, AllSeated

LEMMA LeftFine ==
    ASSUME NEW R, Fine(R), NEW c \in Clients
    PROVE  Fine(HangUp(RelayLeave(R, Socket(c)), Socket(c)))
<1> DEFINE S == RelayLeave(R, Socket(c))
           Q == HangUp(S, Socket(c))
<1>1. Served(R, S, {Socket(c)}, {})
    BY LeaveServes DEF Fine
<1> HIDE DEF S
<1>2. /\ RelayOK(Q)
      /\ Q.wired = S.wired \ {Socket(c)} /\ Q.dying = S.dying /\ Q.seats = S.seats
      /\ Q.retries = S.retries /\ ~Refused(Q.net[c]) /\ Q.net[c] = <<>>
      /\ \A d \in Clients \ {c} : Q.net[d] = S.net[d]
    BY <1>1, HangUpIs DEF Served
<1> HIDE DEF Q
<1>3. AllClose(<<>>)
    BY Empty DEF AllClose
<1>4. ASSUME NEW d \in Clients
      PROVE  SeatedAs(client[d], Socket(d), Q, Q.net[d])
    <2>1. SeatedAs(client[d], Socket(d), R, R.net[d])
        BY DEF Fine, AllSeated
    <2>2. /\ S.wired = R.wired /\ R.dying \subseteq S.dying
          /\ Socket(d) \in R.dying => S.net[d] = R.net[d]
          /\ Socket(d) \in S.wired \ (S.dying \cup {Socket(c)}) =>
                /\ Socket(d) \in R.seats => Socket(d) \in S.seats
                /\ News(S.net[d]) => News(R.net[d]) \/ Socket(d) \in S.seats
          /\ Socket(d) \notin Known(R) =>
                Socket(d) \notin Known(S) /\ (Refused(S.net[d]) => Refused(R.net[d]))
        BY <1>1 DEF Served
    <2>5. Known(Q) = Known(S) /\ (Socket(d) \notin Known(Q) => Socket(d) \notin Q.dying)
        BY <1>2 DEF Known
    <2>3. CASE d = c
        BY <1>2, <1>3, <2>1, <2>2, <2>3, <2>5 DEF SeatedAs
    <2>4. CASE d # c
        <3>1. Q.net[d] = S.net[d] /\ Socket(d) # Socket(c)
            BY <1>2, <2>4, SocketIs
        <3> QED BY <1>2, <2>1, <2>2, <2>5, <3>1 DEF SeatedAs
    <2> QED BY <2>3, <2>4
<1> QED BY <1>2, <1>4 DEF Q, S, Fine, AllSeated

LEMMA ConsumedFine ==
    ASSUME Fine(relay), NEW c \in Clients, relay.net[c] # <<>>, Head(relay.net[c]).type # "close"
    PROVE  Fine(Consumed(c))
<1> DEFINE Q == Consumed(c)
<1>1. /\ RelayOK(Q)
      /\ Q.wired = relay.wired /\ Q.dying = relay.dying /\ Q.seats = relay.seats
      /\ Q.retries = relay.retries /\ Q.net[c] = Tail(relay.net[c])
      /\ \A d \in Clients \ {c} : Q.net[d] = relay.net[d]
    BY ConsumedIs DEF Fine
<1> HIDE DEF Q
<1>2. IsSeq(relay.net[c])
    BY DEF Fine, RelayOK, LinesOK, LineOK
<1>3. /\ News(Tail(relay.net[c])) => News(relay.net[c])
      /\ AllClose(relay.net[c]) => AllClose(Tail(relay.net[c]))
      /\ Refused(Tail(relay.net[c])) => Refused(relay.net[c])
    BY <1>2, Taken DEF News, AllClose, Refused
<1>4. ASSUME NEW d \in Clients
      PROVE  SeatedAs(client[d], Socket(d), Q, Q.net[d])
    <2>1. SeatedAs(client[d], Socket(d), relay, relay.net[d])
        BY DEF Fine, AllSeated
    <2>2. /\ News(Q.net[d]) => News(relay.net[d])
          /\ AllClose(relay.net[d]) => AllClose(Q.net[d])
          /\ Refused(Q.net[d]) => Refused(relay.net[d])
        BY <1>1, <1>3
    <2> QED BY <1>1, <2>1, <2>2 DEF SeatedAs, Known
<1> QED BY <1>1, <1>4 DEF Q, Fine, AllSeated

\* Nothing of this depends on more of the clients than their connections.
LEMMA SameConnections ==
    ASSUME \A d \in Clients : client'[d].conn = client[d].conn, RelayOK(relay')
    PROVE  RelayOK(relay)' /\ \A d \in Clients : Socket(d)' = Socket(d)
<1>1. \A d \in Clients : Socket(d)' = Socket(d)
    BY DEF Socket
<1>2. Past' = Past
    BY DEF Past
<1>3. Sockets' = Sockets
    BY <1>1 DEF Sockets
<1>4. LinesOK(relay') => LinesOK(relay)'
    BY <1>1 DEF LinesOK
<1>5. RefusalsOK(relay') => RefusalsOK(relay)'
    BY <1>1 DEF RefusalsOK, Known
<1> QED BY <1>1, <1>2, <1>3, <1>4, <1>5 DEF RelayOK

LEMMA AloneKeeps ==
    ASSUME SeatInv, NEW c \in Clients, NEW s, Becomes(c, s), ClientOK(s),
           s.conn = client[c].conn, RelayOK(relay'),
           SeatedAs(s, Socket(c), relay', relay'.net[c]),
           \A d \in Clients \ {c} : SeatedAs(client[d], Socket(d), relay', relay'.net[d])
    PROVE  SeatInv'
<1>1. /\ DOMAIN client' = Clients /\ client'[c] = s
      /\ \A d \in Clients \ {c} : client'[d] = client[d]
    BY DEF Becomes, SeatInv, ClientsOK
<1>2. ClientsOK'
    BY <1>1 DEF ClientsOK, SeatInv
<1>3. RelayOK(relay)' /\ \A d \in Clients : Socket(d)' = Socket(d)
    BY <1>1, SameConnections
<1>4. ASSUME NEW d \in Clients
      PROVE  SeatedAs(client[d], Socket(d), relay, relay.net[d])'
    <2>1. CASE d = c
        BY <1>1, <1>3, <2>1 DEF SeatedAs, Known
    <2>2. CASE d # c
        BY <1>1, <1>3, <2>2 DEF SeatedAs, Known
    <2> QED BY <2>1, <2>2
<1> QED BY <1>2, <1>3, <1>4 DEF SeatInv, Fine, AllSeated

LEMMA ClientKeeps ==
    ASSUME SeatInv, NEW c \in Clients, NEW s, Becomes(c, s), ClientOK(s),
           s.conn = client[c].conn, Fine(relay'),
           SeatedAs(s, Socket(c), relay', relay'.net[c])
    PROVE  SeatInv'
BY AloneKeeps DEF Fine, AllSeated

\* A calm step of a client that has a transport while it is wired.
LEMMA CalmKeeps ==
    ASSUME SeatInv, NEW c \in Clients, NEW s, Becomes(c, s), Calm(client[c], s),
           Fine(relay'), Socket(c) \in relay'.wired => s.transport = "open"
    PROVE  SeatInv'
<1>1. SeatedAs(client[c], Socket(c), relay', relay'.net[c])
    BY DEF Fine, AllSeated
<1>2. SeatedAs(s, Socket(c), relay', relay'.net[c])
    BY <1>1 DEF SeatedAs, Calm, Mild
<1> QED BY <1>2, ClientKeeps DEF Calm, Mild

\* An answer that ends a request for good.
LEMMA MildKeeps ==
    ASSUME SeatInv, NEW c \in Clients, NEW s, Becomes(c, s), Mild(client[c], s),
           Fine(relay'), Socket(c) \in relay'.wired => s.transport = "open",
           Socket(c) \notin Known(relay'), ~Refused(relay'.net[c])
    PROVE  SeatInv'
<1>1. SeatedAs(client[c], Socket(c), relay', relay'.net[c])
    BY DEF Fine, AllSeated
<1>2. SeatedAs(s, Socket(c), relay', relay'.net[c])
    BY <1>1 DEF SeatedAs, Mild, Known
<1> QED BY <1>2, ClientKeeps DEF Mild

----------------------------------------------------------------------------
(* Calls of the owner and the steps of requests.                           *)

LEMMA RelayKeeps ==
    ASSUME SeatInv, UNCHANGED client, Fine(relay')
    PROVE  SeatInv'
<1>1. RelayOK(relay)' /\ \A d \in Clients : Socket(d)' = Socket(d)
    BY SameConnections DEF Fine
<1>2. ClientsOK'
    BY DEF SeatInv, ClientsOK
<1>3. AllSeated(relay)'
    BY <1>1 DEF Fine, AllSeated, SeatedAs, Known
<1> QED BY <1>1, <1>2, <1>3 DEF SeatInv, Fine

\* What an action may take for granted of its client.
LEMMA ClientIs ==
    ASSUME SeatInv, NEW c \in Clients
    PROVE  /\ ClientOK(client[c]) /\ Shaped(client[c]) /\ Fine(relay)
           /\ SeatedAs(client[c], Socket(c), relay, relay.net[c])
           /\ Socket(c) \in relay.wired => client[c].transport = "open"
           /\ Socket(c) \in Past /\ IsSeq(relay.net[c]) /\ Ordered(relay.net[c])
           /\ HasLast(relay.net[c]) => Socket(c) \in relay.dying
           /\ RefusedOnce(relay.net[c])
           /\ relay.net[c] # <<>> => Socket(c) \in relay.wired
           /\ Refused(relay.net[c]) => Socket(c) \notin Known(relay)
<1>1. \A d \in Clients : client[d].conn \in Nat
    BY DEF SeatInv, ClientsOK, ClientOK, Shaped
<1>2. Socket(c) \in Past
    BY <1>1, SocketPast
<1> QED BY <1>2 DEF SeatInv, ClientsOK, ClientOK, Fine, AllSeated, SeatedAs, RelayOK, LinesOK,
                    LineOK, RefusalsOK

LEMMA FaultFine ==
    ASSUME NEW R, Fine(R)
    PROVE  Fine(Fault(R)) /\ Fault(R).wired = R.wired
BY FaultServes, ServedFine DEF Fine

\* A client that changes none of the fields that matter.
LEMMA SameCalm ==
    ASSUME NEW r, ClientOK(r), NEW s, SameCore(r, s), s.status = r.status, s.lock = r.lock,
           s.call = "keygen" \/ s.keyPair = r.keyPair
    PROVE  Calm(r, s)
BY DEF SameCore, Calm, Mild, ClientOK, Shaped, Live

LEMMA OpenKeeps ==
    ASSUME SeatInv, NEW c \in Clients, Open(c)
    PROVE  SeatInv'
<1> DEFINE r == client[c]
           s == [NewClient EXCEPT
                    !.status = "connecting", !.transport = "opening",
                    !.call = "dial", !.opening = TRUE,
                    !.asked = IF c = Host THEN "create" ELSE "join",
                    !.conn = r.conn, !.made = r.made, !.said = r.said, !.shown = r.shown,
                    !.displays = r.displays]
<1>1. Becomes(c, s) /\ relay' = relay /\ r.dropped = TRUE
    BY ClientIs DEF Open, Shaped
<1>2. /\ DOMAIN s = Fields /\ s.status = "connecting" /\ s.transport = "opening"
      /\ s.call = "dial" /\ s.conn = r.conn /\ s.dropped = FALSE /\ s.raced = FALSE
      /\ s.deaf = FALSE /\ s.lock = <<>>
    <2>1. /\ DOMAIN NewClient = Fields /\ NewClient.dropped = FALSE /\ NewClient.raced = FALSE
          /\ NewClient.deaf = FALSE /\ NewClient.lock = <<>>
        BY NewClientIs
    <2> QED BY <2>1 DEF Fields
<1> HIDE DEF s
<1>3. ClientOK(s)
    BY <1>2, ClientIs DEF ClientOK, Shaped, Live
<1>4. Socket(c) \notin relay.wired
    BY <1>1, ClientIs DEF ClientOK
<1>5. SeatedAs(s, Socket(c), relay', relay'.net[c])
    BY <1>1, <1>2, <1>4 DEF SeatedAs
<1> QED BY <1>1, <1>2, <1>3, <1>5, ClientIs, ClientKeeps

LEMMA ReconnectKeeps ==
    ASSUME SeatInv, NEW c \in Clients, Reconnect(c)
    PROVE  SeatInv'
<1> DEFINE r == client[c]
           q == ResetCryptoState(r)
           s == [q EXCEPT !.status = "connecting", !.transport = "opening",
                          !.call = "dial", !.opening = FALSE, !.asked = "join"]
<1>1. Becomes(c, s) /\ relay' = HangUp(relay, Socket(c)) /\ r.dropped = FALSE
    BY ClientIs DEF Reconnect, Shaped
<1>2. /\ Shaped(q) /\ q.dropped = r.dropped /\ q.conn = r.conn /\ q.lock = r.lock
      /\ q.deaf = r.deaf /\ q.raced = (r.raced \/ r.lock # <<>>)
    BY ClientIs, ResetIs
<1> HIDE DEF q
<1>3. /\ Shaped(s) /\ s.status = "connecting" /\ s.transport = "opening" /\ s.call = "dial"
      /\ s.conn = r.conn /\ s.dropped = r.dropped /\ s.deaf = r.deaf /\ s.lock = r.lock
      /\ s.raced = (r.raced \/ r.lock # <<>>)
    BY <1>2 DEF Shaped, Fields
<1> HIDE DEF s
<1>4. Calm(r, s)
    BY <1>1, <1>3, ClientIs DEF Calm, Mild, ClientOK, Shaped, Live, Believing
<1>5. Fine(relay') /\ Socket(c) \notin relay'.wired
    BY <1>1, ClientIs, HungUpFine, HangUpIs DEF Fine
<1> QED BY <1>1, <1>4, <1>5, CalmKeeps

LEMMA AttemptFailsKeeps ==
    ASSUME SeatInv, NEW c \in Clients, AttemptFails(c)
    PROVE  SeatInv'
<1> DEFINE r == client[c]
           q == ResetCryptoState(r)
           s == [q EXCEPT !.status = "disconnected"]
<1>1. Becomes(c, s) /\ relay' = Fault(relay) /\ r.call = "dial" /\ r.status = "connecting"
    BY DEF AttemptFails
<1>2. /\ Shaped(q) /\ q.dropped = r.dropped /\ q.transport = r.transport /\ q.conn = r.conn
      /\ q.lock = r.lock /\ q.call = r.call
      /\ q.deaf = r.deaf /\ q.raced = (r.raced \/ r.lock # <<>>)
    BY ClientIs, ResetIs
<1> HIDE DEF q
<1>3. /\ Shaped(s) /\ s.status = "disconnected" /\ s.transport = r.transport /\ s.call = r.call
      /\ s.conn = r.conn /\ s.dropped = r.dropped /\ s.deaf = r.deaf /\ s.lock = r.lock
      /\ s.raced = (r.raced \/ r.lock # <<>>)
    BY <1>2 DEF Shaped, Fields
<1> HIDE DEF s
<1>4. Calm(r, s)
    BY <1>1, <1>3, ClientIs DEF Calm, Mild, ClientOK, Shaped, Live, Believing
<1>5. Fine(relay') /\ (Socket(c) \in relay'.wired => s.transport = "open")
    BY <1>1, <1>3, ClientIs, FaultFine
<1> QED BY <1>1, <1>4, <1>5, CalmKeeps

LEMMA ConnectFailsKeeps ==
    ASSUME SeatInv, NEW c \in Clients, ConnectFails(c)
    PROVE  SeatInv'
<1> DEFINE r == client[c]
           q == [r EXCEPT !.status = "error", !.transport = "closed"]
           s == IF q.opening THEN Drop(q) ELSE [q EXCEPT !.call = "idle"]
<1>1. Becomes(c, s) /\ relay' = Fault(relay) /\ r.call = "dial"
    BY DEF ConnectFails
<1>2. /\ Shaped(q) /\ q.dropped = r.dropped /\ q.transport = "closed" /\ q.conn = r.conn
      /\ q.lock = r.lock /\ q.deaf = r.deaf /\ q.raced = r.raced /\ q.status = "error"
    BY ClientIs DEF Shaped, Fields
<1> HIDE DEF q
<1>3. /\ r.transport = "opening" /\ Socket(c) \notin relay.wired
      /\ r.dropped = FALSE /\ (~r.raced => r.lock = <<>>)
    BY <1>1, ClientIs DEF ClientOK, Shaped
<1>4. CASE q.opening
    <2>1. s = Drop(q)
        BY <1>4
    <2> HIDE DEF s
    <2>2. /\ Shaped(s) /\ s.dropped = TRUE /\ s.transport = "closed" /\ s.conn = q.conn
          /\ s.call = "idle" /\ s.lock = <<>> /\ s.deaf = q.deaf
          /\ s.raced = (q.raced \/ q.lock # <<>>) /\ s.status = "disconnected"
        BY <1>2, <2>1, DropIs
    <2>3. Calm(r, s)
        BY <1>2, <2>2 DEF Calm, Mild, ClientOK, Shaped, Live, Believing
    <2> QED BY <1>1, <1>3, <2>3, ClientIs, FaultFine, CalmKeeps
<1>5. CASE ~q.opening
    <2>1. /\ Shaped(s) /\ s.dropped = q.dropped /\ s.transport = "closed" /\ s.conn = q.conn
          /\ s.call = "idle" /\ s.lock = q.lock /\ s.deaf = q.deaf
          /\ s.raced = q.raced /\ s.status = "error"
        BY <1>2, <1>5 DEF Shaped, Fields
    <2> HIDE DEF s
    <2>2. Calm(r, s)
        BY <1>2, <1>3, <2>1 DEF Calm, Mild, ClientOK, Shaped, Live, Believing
    <2> QED BY <1>1, <1>3, <2>2, ClientIs, FaultFine, CalmKeeps
<1> QED BY <1>4, <1>5

\* A new connection has brought nothing yet, and no table knows it.
LEMMA ConnectedKeeps ==
    ASSUME SeatInv, NEW c \in Clients, Connected(c)
    PROVE  SeatInv'
<1> DEFINE r == client[c]
           s == [r EXCEPT
                    !.conn = @ + 1, !.transport = "open", !.status = "connected",
                    !.call = "keygen", !.named = TRUE,
                    !.isHost = (r.asked = "create") \/ (~r.opening /\ @)]
           k == <<c, r.conn + 1>>
           Q == [relay EXCEPT !.wired = @ \cup {k}]
<1>1. Becomes(c, s) /\ relay' = Q /\ r.call = "dial"
    BY DEF Connected
<1>2. /\ Shaped(s) /\ s.status = "connected" /\ s.transport = "open" /\ s.call = "keygen"
      /\ s.conn = r.conn + 1 /\ s.dropped = r.dropped /\ s.deaf = r.deaf /\ s.lock = r.lock
      /\ s.raced = r.raced
    BY ClientIs DEF Shaped, Fields
<1>3. /\ RelayShaped(Q) /\ Q.exists = relay.exists /\ Q.seats = relay.seats
      /\ Q.wired = relay.wired \cup {k} /\ Q.dying = relay.dying
      /\ Q.retries = relay.retries /\ Q.net = relay.net
    BY ClientIs DEF Fine, RelayOK, RelayShaped, RelayFields
<1> HIDE DEF s, Q
<1>4. /\ r.transport = "opening" /\ Socket(c) \notin relay.wired /\ r.dropped = FALSE
      /\ (~r.raced => r.lock = <<>>) /\ r.conn \in Nat
    BY <1>1, ClientIs DEF ClientOK, Shaped
<1>5. relay.net[c] = <<>>
    BY <1>4, ClientIs DEF Fine, RelayOK, LinesOK, LineOK
<1>6. /\ DOMAIN client' = Clients /\ client'[c] = s
      /\ \A d \in Clients \ {c} : client'[d] = client[d]
    BY <1>1 DEF Becomes, SeatInv, ClientsOK
<1>7. ClientOK(s)
    BY <1>2, <1>4, ClientIs DEF ClientOK, Shaped
<1>8. Socket(c)' = k /\ \A d \in Clients \ {c} : Socket(d)' = Socket(d)
    BY <1>2, <1>6 DEF Socket
<1>9. k \notin Past /\ Past \subseteq Past'
    <2>1. k \notin Past
        BY <1>4 DEF Past
    <2>2. \A d \in Clients : client[d].conn \in Nat /\ client'[d].conn \in Nat
                            /\ client[d].conn <= client'[d].conn
        BY <1>2, <1>4, <1>6, ClientIs DEF Shaped
    <2>3. ASSUME NEW j \in Past PROVE j \in Past'
        <3>1. j \in Clients \X Nat /\ j[1] \in Clients /\ j[2] \in Nat
              /\ j[2] <= client[j[1]].conn
            BY DEF Past
        <3>2. j[2] <= client'[j[1]].conn
            BY <2>2, <3>1
        <3> QED BY <3>1, <3>2 DEF Past
    <2> QED BY <2>1, <2>3
<1>10. Q.wired \subseteq Sockets'
    <2>1. relay.wired \subseteq Sockets
        BY ClientIs DEF Fine, RelayOK
    <2> QED BY <1>3, <1>4, <1>8, <2>1 DEF Sockets
<1>11. k \notin Known(Q) /\ k \notin Q.dying
    BY <1>3, <1>9, ClientIs DEF Fine, RelayOK, Known
<1>12. ASSUME NEW d \in Clients
       PROVE  /\ LineOK(relay.net[d], Socket(d) \in relay.wired, Socket(d) \in relay.dying)'
              /\ SeatedAs(client[d], Socket(d), relay, relay.net[d])'
              /\ RefusedOnce(relay'.net[d])
              /\ Refused(relay'.net[d]) => Socket(d)' \notin Known(relay')
    <2>1. CASE d = c
        <3>1. /\ IsSeq(<<>>) /\ Ordered(<<>>) /\ ~HasLast(<<>>) /\ ~News(<<>>)
              /\ ~Refused(<<>>) /\ RefusedOnce(<<>>)
            BY Empty DEF Ordered, HasLast, News, Refused, RefusedOnce
        <3> QED BY <1>1, <1>2, <1>3, <1>4, <1>5, <1>6, <1>8, <1>11, <2>1, <3>1
                DEF LineOK, SeatedAs, Believing
    <2>2. CASE d # c
        <3>1. Socket(d) # k
            BY <1>8, <2>2, SocketIs DEF Socket
        <3>2. /\ LineOK(relay.net[d], Socket(d) \in relay.wired, Socket(d) \in relay.dying)
              /\ SeatedAs(client[d], Socket(d), relay, relay.net[d])
              /\ RefusedOnce(relay.net[d])
              /\ Refused(relay.net[d]) => Socket(d) \notin Known(relay)
            BY ClientIs DEF Fine, RelayOK, LinesOK
        <3>3. Known(relay') = Known(relay)
            BY <1>1, <1>3 DEF Known
        <3> QED BY <1>1, <1>3, <1>6, <1>8, <2>2, <3>1, <3>2, <3>3 DEF LineOK, SeatedAs
    <2> QED BY <2>1, <2>2
<1>13. RelayOK(relay)'
    <2>1. LinesOK(relay)' /\ RefusalsOK(relay)'
        BY <1>12 DEF LinesOK, RefusalsOK, Known
    <2>2. relay.seats \cup relay.dying \cup relay.retries \subseteq Past
          /\ (~relay.exists => relay.seats = {})
        BY ClientIs DEF Fine, RelayOK
    <2> QED BY <1>1, <1>3, <1>9, <1>10, <2>1, <2>2 DEF RelayOK, RelayShaped
<1>14. ClientsOK'
    BY <1>6, <1>7 DEF ClientsOK, SeatInv
<1> QED BY <1>12, <1>13, <1>14 DEF SeatInv, Fine, AllSeated

LEMMA KeyGeneratedKeeps ==
    ASSUME SeatInv, NEW c \in Clients, NEW r, NEW handled, KeyGenerated(c, r, handled),
           SameCore(client[c], r), r.status = client[c].status, r.lock = client[c].lock,
           r.keyPair # NoKey, \A Q \in handled : Served(relay, Q, {}, {Socket(c)})
    PROVE  SeatInv'
<1>1. client[c].call = "keygen" /\ r.call = "keygen" /\ ClientOK(client[c]) /\ Fine(relay)
    BY ClientIs DEF KeyGenerated, SameCore
<1>2. Calm(client[c], r)
    BY <1>1, SameCalm
<1>3. CASE r.transport = "open"
    <2> DEFINE s == [r EXCEPT !.call = "request"]
    <2>1. /\ Becomes(c, s) /\ (relay' \in handled \/ relay' = relay)
        BY <1>3 DEF KeyGenerated
    <2>2. /\ Shaped(s) /\ s.dropped = r.dropped /\ s.raced = r.raced /\ s.deaf = r.deaf
          /\ s.conn = r.conn /\ s.transport = r.transport /\ s.call = "request"
          /\ s.status = r.status /\ s.lock = r.lock /\ s.keyPair = r.keyPair
        BY <1>2 DEF Calm, Mild, ClientOK, Shaped, Fields
    <2> HIDE DEF s
    <2>3. ClientOK(s) /\ s.conn = client[c].conn
        BY <1>1, <1>2, <1>3, <2>2 DEF Calm, Mild, ClientOK
    <2>4. Served(relay, relay', {}, {Socket(c)})
        BY <1>1, <2>1, ServedNot DEF Fine
    <2>5. \A d \in Clients \ {c} : SeatedAs(client[d], Socket(d), relay', relay'.net[d])
        BY <1>1, <2>4, ServedSeated, SocketIs
    <2>6. SeatedAs(s, Socket(c), relay', relay'.net[c])
        <3>1. SeatedAs(client[c], Socket(c), relay, relay.net[c])
            BY ClientIs
        <3>2. s.status # "expired" /\ relay'.wired = relay.wired
            BY <1>1, <2>2, <2>4 DEF ClientOK, Served
        <3>3. Socket(c) \in relay'.wired \ relay'.dying =>
                /\ Socket(c) \in relay.wired \ relay.dying
                /\ Socket(c) \in relay.seats => Socket(c) \in relay'.seats
                /\ News(relay'.net[c]) => News(relay.net[c]) \/ Socket(c) \in relay'.seats
            BY <2>4 DEF Served
        <3> QED BY <1>3, <2>2, <3>1, <3>2, <3>3 DEF SeatedAs, SameCore
    <2> QED BY <2>1, <2>3, <2>4, <2>5, <2>6, AloneKeeps DEF Served
<1>4. CASE r.transport # "open"
    <2> DEFINE s == IF r.opening THEN Drop(r) ELSE [r EXCEPT !.call = "idle"]
    <2>1. Becomes(c, s) /\ relay' = relay
        BY <1>4 DEF KeyGenerated
    <2>2. Calm(r, s)
        <3>1. CASE r.opening
            <4>1. ClientOK(r)
                BY <1>2 DEF Calm, Mild
            <4> QED BY <3>1, <4>1, DropCalm
        <3>2. CASE ~r.opening
            <4>1. /\ Shaped(s) /\ s.dropped = r.dropped /\ s.raced = r.raced /\ s.deaf = r.deaf
                  /\ s.conn = r.conn /\ s.transport = r.transport /\ s.call = "idle"
                  /\ s.status = r.status /\ s.lock = r.lock
                BY <1>2, <3>2 DEF Calm, Mild, ClientOK, Shaped, Fields
            <4> HIDE DEF s
            <4> QED BY <1>1, <1>2, <1>4, <4>1 DEF Calm, Mild, ClientOK, Live
        <3> QED BY <3>1, <3>2
    <2> HIDE DEF s
    <2>3. Socket(c) \notin relay.wired
        BY <1>4, ClientIs DEF SameCore
    <2> QED BY <1>1, <1>2, <2>1, <2>2, <2>3, CalmTwice, CalmKeeps
<1> QED BY <1>3, <1>4

LEMMA RequestKeeps ==
    ASSUME SeatInv, NEW c \in Clients, CreateSession(c) \/ JoinSession(c)
    PROVE  SeatInv'
<1> DEFINE q == [client[c] EXCEPT !.made = @ + 1, !.keyPair = <<c, client[c].made + 1>>]
           s == [q EXCEPT !.received = FALSE, !.sent = FALSE, !.shared = {}]
<1>1. /\ SameCore(client[c], q) /\ q.status = client[c].status /\ q.lock = client[c].lock
      /\ q.keyPair = <<c, client[c].made + 1>>
    BY ClientIs DEF SameCore, Shaped, Fields
<1>2. NewKeyPair(c) = q
    BY DEF NewKeyPair
<1> HIDE DEF q
<1>3. /\ SameCore(client[c], s) /\ s.status = client[c].status /\ s.lock = client[c].lock
      /\ s.keyPair = q.keyPair
    BY <1>1 DEF SameCore, Shaped, Fields
<1>7. q.keyPair # NoKey /\ s.keyPair # NoKey
    BY <1>1, <1>3 DEF NoKey
<1>4. \A Q \in CreateAnswers(relay, Socket(c)) \cup JoinAnswers(relay, Socket(c)) :
          Served(relay, Q, {}, {Socket(c)})
    <2>1. client[c].call = "keygen"
        BY DEF CreateSession, JoinSession, KeyGenerated
    <2>2. Asks(relay, Socket(c))
        BY <2>1, ClientIs, SocketIs DEF SeatedAs, Asks, Known
    <2> QED BY <2>2, ClientIs, AnswersServe DEF Fine
<1>5. CASE CreateSession(c)
    BY <1>1, <1>2, <1>4, <1>5, <1>7, KeyGeneratedKeeps DEF CreateSession
<1>6. CASE JoinSession(c)
    <2>1. KeyGenerated(c, s, JoinAnswers(relay, Socket(c)))
        BY <1>2, <1>6 DEF JoinSession
    <2> HIDE DEF s
    <2> QED BY <1>3, <1>4, <1>7, <2>1, KeyGeneratedKeeps
<1> QED BY <1>5, <1>6

\* The answer to a request, or the lack of one.
LEMMA AnswerKeeps ==
    ASSUME SeatInv, NEW c \in Clients, NEW s, Becomes(c, s), Calm(client[c], s),
           s.dropped = FALSE => s.transport = client[c].transport,
           NEW R, Fine(R), NEW Q, Q = HangsUpIf(c, s, R), Fine(Q) => Fine(relay'),
           relay'.wired = Q.wired
    PROVE  SeatInv'
<1>1. CASE s.dropped = FALSE
    <2>1. Fine(Q)
        BY <1>1 DEF HangsUpIf
    <2>2. Socket(c) \in relay'.wired => s.transport = "open"
        BY <1>1, <2>1 DEF HangsUpIf, Fine, AllSeated, SeatedAs
    <2> QED BY <2>1, <2>2, CalmKeeps
<1>2. CASE s.dropped = TRUE
    <2>1. Fine(Q) /\ Socket(c) \notin Q.wired
        BY <1>2, HungUpFine, HangUpIs DEF HangsUpIf, Fine
    <2> QED BY <2>1, CalmKeeps
<1> QED BY <1>1, <1>2 DEF Calm, Mild, ClientOK, Shaped

LEMMA TimesOutKeeps ==
    ASSUME SeatInv, NEW c \in Clients, RequestTimesOut(c)
    PROVE  SeatInv'
<1> DEFINE s == Rejected(client[c], "TIMEOUT")
           Q == HangsUpIf(c, s, relay)
<1>1. Becomes(c, s) /\ relay' = Fault(Q)
    BY DEF RequestTimesOut
<1>2. Calm(client[c], s) /\ (s.dropped = FALSE => s.transport = client[c].transport)
    BY ClientIs, RejectedCalm
<1> HIDE DEF s
<1>3. RelayOK(Q)
    BY ClientIs, HungUpFine DEF HangsUpIf, Fine
<1>4. Fault(Q).wired = Q.wired /\ (Fine(Q) => Fine(Fault(Q)))
    BY <1>3, FaultServes, FaultFine
<1> HIDE DEF Q
<1> QED BY <1>1, <1>2, <1>4, ClientIs, AnswerKeeps DEF Q

LEMMA SayKeeps ==
    ASSUME SeatInv, NEW c \in Clients, Say(c) \/ Seals(c)
    PROVE  SeatInv'
<1> DEFINE r == client[c]
           chat(i) == Encrypt([from |-> c, n |-> r.said + 1], r.sealing[i])
           q == [r EXCEPT !.sealing = Append(@, r.shared)]
           s(i) == [r EXCEPT !.said = @ + 1, !.sealing = Without(@, i)]
<1>1. /\ SameCore(r, q) /\ q.status = r.status /\ q.lock = r.lock /\ q.keyPair = r.keyPair
      /\ \A i : /\ SameCore(r, s(i)) /\ s(i).status = r.status /\ s(i).lock = r.lock
                /\ s(i).keyPair = r.keyPair
    BY ClientIs DEF SameCore, Shaped, Fields
<1>2. CASE Say(c)
    <2>1. Becomes(c, q) /\ relay' = relay
        BY <1>2 DEF Say
    <2> HIDE DEF q
    <2>2. Calm(r, q) /\ q.transport = r.transport
        BY <1>1, ClientIs, SameCalm DEF SameCore
    <2> QED BY <2>1, <2>2, ClientIs, CalmKeeps
<1>3. CASE Seals(c)
    <2>1. PICK i : Sealed(c, i)
        BY <1>3 DEF Seals
    <2>2. Becomes(c, s(i))
          /\ (relay' = relay
              \/ relay' \in RelaySend(relay, Socket(c), [type |-> "chat", chat |-> chat(i)]))
        BY <2>1 DEF Sealed
    <2> HIDE DEF s
    <2>3. Calm(r, s(i)) /\ s(i).transport = r.transport
        BY <1>1, ClientIs, SameCalm DEF SameCore
    <2>4. Fine(relay')
        BY <2>2, ClientIs, SendServes, ServedFine DEF Fine
    <2>5. Socket(c) \in relay'.wired => r.transport = "open"
        BY <2>4 DEF Fine, AllSeated, SeatedAs
    <2> QED BY <2>2, <2>3, <2>4, <2>5, CalmKeeps
<1> QED BY <1>2, <1>3

LEMMA LeaveKeeps ==
    ASSUME SeatInv, NEW c \in Clients, LeaveSession(c)
    PROVE  SeatInv'
<1> DEFINE s == Drop(client[c])
           Q == HangUp(RelayLeave(relay, Socket(c)), Socket(c))
           P == HangUp(relay, Socket(c))
<1>1. Becomes(c, s) /\ (relay' = Fault(Q) \/ relay' = Fault(P))
    BY DEF LeaveSession
<1>2. Calm(client[c], s)
    BY ClientIs, DropCalm
<1>3. Fine(Q) /\ Fine(P)
    BY ClientIs, LeftFine, HungUpFine
<1>4. Socket(c) \notin Q.wired /\ Socket(c) \notin P.wired
    <2>1. RelayOK(relay) /\ RelayOK(RelayLeave(relay, Socket(c)))
        BY ClientIs, LeaveServes DEF Fine, Served
    <2> QED BY <2>1, HangUpIs
<1> HIDE DEF s, P, Q
<1>5. Fine(relay') /\ Socket(c) \notin relay'.wired
    BY <1>1, <1>3, <1>4, FaultFine
<1> QED BY <1>1, <1>2, <1>5, CalmKeeps

----------------------------------------------------------------------------
(* Frames and events of the socket.                                        *)

\* A frame that only a seated client is sent: it may change what the client
\* believes, for the client is seated.
LEMMA NewsKeeps ==
    ASSUME SeatInv, NEW c \in Clients, NEW type, Hears(c, type),
           type \notin Last \cup {"ERROR"}, relay' = Consumed(c),
           NEW s, Becomes(c, s), Shaped(s), s.conn = client[c].conn,
           s.transport = client[c].transport, s.dropped = client[c].dropped,
           client[c].call # "dial" => s.call # "dial",
           client[c].call = "keygen" <=> s.call = "keygen", s.keyPair = client[c].keyPair,
           ~s.raced => ~client[c].raced,
           s.status = "expired" => client[c].status = "expired"
    PROVE  SeatInv'
<1> DEFINE r == client[c]
           net == relay.net[c]
<1>1. net # <<>> /\ Head(net).type = type /\ r.transport = "open"
    BY DEF Hears
<1>2. News(net) /\ (~AllClose(net)) /\ type # "close"
    BY <1>1, ClientIs, TakenFrame DEF Last
<1>3. Fine(relay')
    BY <1>1, <1>2, ClientIs, ConsumedFine
<1>4. /\ relay'.wired = relay.wired /\ relay'.dying = relay.dying /\ relay'.seats = relay.seats
      /\ Known(relay') = Known(relay) /\ (Refused(relay'.net[c]) => Refused(net))
    <2>1. relay'.retries = relay.retries /\ relay'.wired = relay.wired
          /\ relay'.dying = relay.dying /\ relay'.seats = relay.seats
          /\ relay'.net[c] = Tail(net)
        BY <1>1, <1>2, ClientIs, ConsumedIs DEF Fine
    <2>2. Refused(Tail(net)) => Refused(net)
        BY <1>1, ClientIs, TakenFrame
    <2> QED BY <2>1, <2>2 DEF Known
<1>5. ~r.raced => r.status # "expired"
                  /\ (Socket(c) \in relay.wired \ relay.dying => Socket(c) \in relay.seats)
                  /\ (Socket(c) \in relay.wired \ relay.dying /\ r.call # "keygen"
                        => r.keyPair # NoKey)
    BY <1>1, <1>2, ClientIs DEF SeatedAs, Known
<1> HIDE DEF net
<1>6. ClientOK(s)
    BY <1>1, <1>5, ClientIs DEF ClientOK
<1>8. s.call = "keygen" \/ (s.status = "expired" /\ Socket(c) \notin relay.dying)
      => Socket(c) \notin Known(relay) /\ ~Refused(relay.net[c])
    BY ClientIs DEF SeatedAs
<1>7. SeatedAs(s, Socket(c), relay', relay'.net[c])
    BY <1>1, <1>4, <1>5, <1>8 DEF SeatedAs, net
<1> QED BY <1>3, <1>6, <1>7, ClientKeeps

LEMMA ResolvedIs ==
    ASSUME NEW r, Shaped(r), NEW requests
    PROVE  LET s == Resolved(r, requests) IN
           /\ Shaped(s) /\ s.conn = r.conn /\ s.transport = r.transport
           /\ s.dropped = r.dropped /\ (r.call # "dial" => s.call # "dial")
           /\ (r.call = "keygen" <=> s.call = "keygen") /\ s.keyPair = r.keyPair
           /\ s.raced = r.raced /\ s.status = r.status
BY DEF Resolved, Shaped, Fields

LEMMA CreatedKeeps ==
    ASSUME SeatInv, NEW c \in Clients, OnSessionCreated(c)
    PROVE  SeatInv'
<1> DEFINE q == Resolved(client[c], {"create", "join"})
           s == [q EXCEPT !.named = TRUE, !.isHost = TRUE, !.status = "awaiting_partner"]
<1>1. Becomes(c, s) /\ Hears(c, "SESSION_CREATED") /\ relay' = Consumed(c)
    BY DEF OnSessionCreated
<1>2. /\ Shaped(q) /\ q.conn = client[c].conn /\ q.transport = client[c].transport
      /\ q.dropped = client[c].dropped /\ (client[c].call # "dial" => q.call # "dial")
      /\ (client[c].call = "keygen" <=> q.call = "keygen") /\ q.keyPair = client[c].keyPair
      /\ q.raced = client[c].raced
    BY ClientIs, ResolvedIs
<1> HIDE DEF q
<1>3. /\ Shaped(s) /\ s.conn = q.conn /\ s.transport = q.transport
      /\ s.dropped = q.dropped /\ s.call = q.call /\ s.raced = q.raced
      /\ s.status = "awaiting_partner" /\ s.keyPair = q.keyPair
    BY <1>2 DEF Shaped, Fields
<1> HIDE DEF s
<1> QED BY <1>1, <1>2, <1>3, NewsKeeps DEF Last

LEMMA JoinedKeeps ==
    ASSUME SeatInv, NEW c \in Clients, OnPartnerJoined(c)
    PROVE  SeatInv'
<1> DEFINE q == Resolved(client[c], {"join"})
           p == [q EXCEPT !.status = "handshaking", !.partner = TRUE]
           s == WithHandshakeLock(p, Task("send", NoKey, <<>>))
<1>1. Becomes(c, s) /\ Hears(c, "PARTNER_JOINED") /\ relay' = Consumed(c)
    BY DEF OnPartnerJoined
<1>2. /\ Shaped(q) /\ q.conn = client[c].conn /\ q.transport = client[c].transport
      /\ q.dropped = client[c].dropped /\ (client[c].call # "dial" => q.call # "dial")
      /\ (client[c].call = "keygen" <=> q.call = "keygen") /\ q.keyPair = client[c].keyPair
      /\ q.raced = client[c].raced
    BY ClientIs, ResolvedIs
<1> HIDE DEF q
<1>3. /\ Shaped(p) /\ p.conn = q.conn /\ p.transport = q.transport
      /\ p.dropped = q.dropped /\ p.call = q.call /\ p.raced = q.raced
      /\ p.status = "handshaking" /\ p.keyPair = q.keyPair
    BY <1>2 DEF Shaped, Fields
<1> HIDE DEF p
<1>4. /\ Shaped(s) /\ s.conn = p.conn /\ s.transport = p.transport
      /\ s.dropped = p.dropped /\ s.call = p.call /\ s.raced = p.raced
      /\ s.status = p.status /\ s.keyPair = p.keyPair
    BY <1>3 DEF WithHandshakeLock, Shaped, Fields
<1> HIDE DEF s
<1> QED BY <1>1, <1>2, <1>3, <1>4, NewsKeeps DEF Last

LEMMA QueuedKeeps ==
    ASSUME SeatInv, NEW c \in Clients, OnPublicKey(c) \/ OnChat(c)
    PROVE  SeatInv'
<1>1. PICK type \in {"key", "chat"}, task \in
          {Task("key", Head(relay.net[c]).key, <<>>), Task("chat", NoKey, <<Head(relay.net[c]).chat>>)} :
          Hears(c, type) /\ Becomes(c, WithHandshakeLock(client[c], task)) /\ relay' = Consumed(c)
    BY DEF OnPublicKey, OnChat
<1> DEFINE s == WithHandshakeLock(client[c], task)
<1>2. /\ Shaped(s) /\ s.conn = client[c].conn /\ s.transport = client[c].transport
      /\ s.dropped = client[c].dropped /\ s.call = client[c].call /\ s.raced = client[c].raced
      /\ s.status = client[c].status /\ s.keyPair = client[c].keyPair
    BY ClientIs DEF WithHandshakeLock, Shaped, Fields
<1> HIDE DEF s
<1> QED BY <1>1, <1>2, NewsKeeps DEF Last, s

LEMMA LeftKeeps ==
    ASSUME SeatInv, NEW c \in Clients, OnPartnerLeft(c)
    PROVE  SeatInv'
<1> DEFINE s == [client[c] EXCEPT
            !.shared = {}, !.received = FALSE, !.sent = FALSE, !.queue = <<>>,
            !.partner = FALSE, !.status = "awaiting_partner", !.raced = @ \/ client[c].lock # <<>>]
<1>1. Becomes(c, s) /\ Hears(c, "PARTNER_LEFT") /\ relay' = Consumed(c)
    BY DEF OnPartnerLeft
<1>2. /\ Shaped(s) /\ s.conn = client[c].conn /\ s.transport = client[c].transport
      /\ s.dropped = client[c].dropped /\ s.call = client[c].call
      /\ s.raced = (client[c].raced \/ client[c].lock # <<>>) /\ s.status = "awaiting_partner"
      /\ s.keyPair = client[c].keyPair
    BY ClientIs DEF Shaped, Fields
<1> HIDE DEF s
<1> QED BY <1>1, <1>2, NewsKeeps DEF Last

LEMMA ExpiredKeeps ==
    ASSUME SeatInv, NEW c \in Clients, OnSessionExpired(c)
    PROVE  SeatInv'
<1> DEFINE r == client[c]
           net == relay.net[c]
           q == ResetCryptoState(r)
           s == [q EXCEPT !.status = "expired"]
<1>1. Becomes(c, s) /\ Hears(c, "SESSION_EXPIRED") /\ relay' = Consumed(c)
    BY DEF OnSessionExpired
<1>2. net # <<>> /\ Head(net).type = "SESSION_EXPIRED" /\ r.transport = "open"
    BY <1>1 DEF Hears
<1>3. HasLast(net) /\ AllClose(Tail(net)) /\ Socket(c) \in relay.dying
    <2>1. HasLast(net) /\ AllClose(Tail(net))
        BY <1>2, ClientIs, TakenFrame DEF Last
    <2> QED BY <2>1, ClientIs
<1>4. /\ Shaped(q) /\ q.dropped = r.dropped /\ q.transport = r.transport /\ q.conn = r.conn
      /\ q.lock = r.lock /\ q.call = r.call
      /\ q.deaf = r.deaf /\ q.raced = (r.raced \/ r.lock # <<>>)
    BY ClientIs, ResetIs
<1> HIDE DEF q
<1>5. /\ Shaped(s) /\ s.status = "expired" /\ s.transport = r.transport /\ s.call = r.call
      /\ s.conn = r.conn /\ s.dropped = r.dropped /\ s.deaf = r.deaf /\ s.lock = r.lock
      /\ s.raced = (r.raced \/ r.lock # <<>>)
    BY <1>4 DEF Shaped, Fields
<1> HIDE DEF s
<1>9. r.call # "keygen"
    BY <1>3, ClientIs DEF SeatedAs, Known
<1>6. ClientOK(s)
    BY <1>2, <1>5, <1>9, ClientIs DEF ClientOK
<1>7. Fine(relay') /\ relay'.dying = relay.dying /\ relay'.net[c] = Tail(net)
    BY <1>1, <1>2, ClientIs, ConsumedFine, ConsumedIs DEF Fine
<1> HIDE DEF net
<1>8. SeatedAs(s, Socket(c), relay', relay'.net[c])
    BY <1>2, <1>3, <1>5, <1>7, <1>9 DEF SeatedAs
<1> QED BY <1>1, <1>5, <1>6, <1>7, <1>8, ClientKeeps

\* Any refusal but the two that end a request for good.
LEMMA ErrorKeepsOther ==
    ASSUME SeatInv, NEW c \in Clients, OnError(c), ~Refusal(Head(relay.net[c]))
    PROVE  SeatInv'
<1> DEFINE r == client[c]
           code == Head(relay.net[c]).code
           p == [r EXCEPT !.status = StatusAfter(code, @)]
           s == Rejected(p, code)
<1>1. Becomes(c, s) /\ Hears(c, "ERROR") /\ relay' = HangsUpIf(c, s, Consumed(c))
    BY DEF OnError
<1>2. code # "SESSION_NOT_FOUND" /\ code # "SESSION_EXPIRED"
    BY <1>1 DEF Hears, Refusal
<1>3. SameCore(r, p) /\ p.status = "error" /\ p.lock = r.lock /\ p.keyPair = r.keyPair
    BY <1>2, ClientIs DEF SameCore, Shaped, Fields, StatusAfter
<1> HIDE DEF p, code
<1>4. Calm(r, p) /\ p.transport = r.transport
    <2>1. r.transport = "open"
        BY <1>1 DEF Hears
    <2>2. Calm(r, p)
        BY <1>3, <2>1, ClientIs DEF SameCore, Calm, Mild, ClientOK, Believing
    <2> QED BY <1>3, <2>2 DEF SameCore
<1>5. Calm(p, s) /\ (s.dropped = FALSE => s.transport = p.transport)
    <2>1. ClientOK(p)
        BY <1>4 DEF Calm, Mild
    <2> QED BY <1>2, <2>1, RejectedCalm
<1> HIDE DEF s
<1>6. Fine(Consumed(c))
    BY <1>1, ClientIs, ConsumedFine DEF Hears
<1> QED BY <1>1, <1>4, <1>5, <1>6, CalmTwice, AnswerKeeps

\* The end of a request: the connection is in no table, so nothing is to
\* come and no handler runs.
LEMMA RefusedKeeps ==
    ASSUME SeatInv, NEW c \in Clients, OnError(c), Refusal(Head(relay.net[c]))
    PROVE  SeatInv'
<1> DEFINE r == client[c]
           net == relay.net[c]
           code == Head(net).code
           p == [r EXCEPT !.status = StatusAfter(code, @)]
           s == Rejected(p, code)
           Q == Consumed(c)
<1>1. Becomes(c, s) /\ Hears(c, "ERROR") /\ relay' = HangsUpIf(c, s, Q)
      /\ code \in {"SESSION_NOT_FOUND", "SESSION_EXPIRED"}
    BY DEF OnError, Refusal
<1>2. net # <<>> /\ Head(net).type = "ERROR" /\ r.transport = "open"
    BY <1>1 DEF Hears
<1>3. Refused(net) /\ ~Refused(Tail(net))
    BY <1>2, ClientIs, TakenFrame
<1>4. /\ Socket(c) \notin Known(relay) /\ Socket(c) \in relay.wired
      /\ r.status # "expired" /\ r.call # "keygen" /\ (~r.raced => r.lock = <<>>)
    BY <1>2, <1>3, ClientIs DEF SeatedAs, Known
<1>5. /\ Fine(Q) /\ Q.wired = relay.wired /\ Socket(c) \notin Known(Q) /\ ~Refused(Q.net[c])
    <2>1. /\ Q.wired = relay.wired /\ Q.dying = relay.dying /\ Q.seats = relay.seats
          /\ Q.retries = relay.retries /\ Q.net[c] = Tail(net)
        BY <1>2, ClientIs, ConsumedIs DEF Fine
    <2>2. Fine(Q)
        BY <1>2, ClientIs, ConsumedFine
    <2> HIDE DEF Q
    <2> QED BY <1>3, <1>4, <2>1, <2>2 DEF Known
<1> HIDE DEF Q, net
<1>6. /\ Mild(r, s) /\ (s.dropped = FALSE => s.transport = r.transport)
      /\ s.dropped \in BOOLEAN
    <2>1. CASE code = "SESSION_NOT_FOUND"
        <3>1. SameCore(r, p) /\ p.status = r.status /\ p.lock = r.lock /\ p.keyPair = r.keyPair
            BY <2>1, ClientIs DEF SameCore, Shaped, Fields, StatusAfter
        <3> HIDE DEF p
        <3>2. Mild(r, p) /\ p.transport = r.transport
            BY <3>1, ClientIs DEF SameCore, Mild, ClientOK, Live
        <3>3. ClientOK(p) /\ p.status # "expired"
            BY <1>4, <3>1, <3>2 DEF Mild
        <3>4. Mild(p, s) /\ (s.dropped = FALSE => s.transport = p.transport)
            BY <2>1, <3>3, GoneMild
        <3> HIDE DEF s
        <3>5. Mild(r, s)
            BY <3>2, <3>4 DEF Mild
        <3>6. s.dropped \in BOOLEAN
            BY <3>5 DEF Mild, ClientOK, Shaped
        <3> QED BY <3>2, <3>4, <3>5, <3>6
    <2>2. CASE code = "SESSION_EXPIRED"
        <3>1. SameCore(r, p) /\ p.status = "expired" /\ p.lock = r.lock /\ p.keyPair = r.keyPair
            BY <2>2, ClientIs DEF SameCore, Shaped, Fields, StatusAfter
        <3> HIDE DEF p
        <3>2. Mild(r, p) /\ p.transport = r.transport
            BY <1>2, <1>4, <3>1, ClientIs DEF SameCore, Mild, ClientOK, Believing
        <3>3. Calm(p, s) /\ (s.dropped = FALSE => s.transport = p.transport)
            <4>1. ClientOK(p) /\ code # "SESSION_NOT_FOUND"
                BY <2>2, <3>2 DEF Mild
            <4> HIDE DEF code
            <4> QED BY <4>1, RejectedCalm
        <3> HIDE DEF s
        <3> QED BY <3>2, <3>3 DEF Calm, Mild, ClientOK, Shaped
    <2> QED BY <1>1, <2>1, <2>2
<1> HIDE DEF s
<1>7. CASE s.dropped = FALSE
    <2>1. relay' = Q
        BY <1>1, <1>7 DEF HangsUpIf
    <2> QED BY <1>1, <1>2, <1>5, <1>6, <1>7, <2>1, MildKeeps
<1>8. CASE s.dropped = TRUE
    <2>1. relay' = HangUp(Q, Socket(c))
        BY <1>1, <1>8 DEF HangsUpIf
    <2>2. /\ Fine(relay') /\ Socket(c) \notin relay'.wired
          /\ Known(relay') = Known(Q) /\ ~Refused(relay'.net[c])
        BY <1>5, <2>1, HungUpFine, HangUpIs DEF Fine, Known
    <2> QED BY <1>1, <1>5, <1>6, <2>2, MildKeeps
<1> QED BY <1>6, <1>7, <1>8

LEMMA ErrorKeeps ==
    ASSUME SeatInv, NEW c \in Clients, OnError(c)
    PROVE  SeatInv'
BY ErrorKeepsOther, RefusedKeeps

LEMMA SocketKeeps ==
    ASSUME SeatInv, NEW c \in Clients, WireBreaks(c) \/ RelayHangsUp(c)
    PROVE  SeatInv'
<1> DEFINE Q == HangUp(relay, Socket(c))
<1>1. UNCHANGED client /\ (relay' = Q \/ relay' = Fault(Q))
    BY DEF WireBreaks, RelayHangsUp
<1>2. Fine(Q)
    BY ClientIs, HungUpFine
<1> HIDE DEF Q
<1> QED BY <1>1, <1>2, FaultFine, RelayKeeps

LEMMA ClosingKeeps ==
    ASSUME SeatInv, NEW c \in Clients, SocketClosing(c) \/ PingFails(c)
    PROVE  SeatInv'
<1> DEFINE r == client[c]
           q == [r EXCEPT !.transport = "closing"]
           s == [r EXCEPT !.transport = "closed", !.deaf = TRUE]
<1>1. /\ Shaped(q) /\ q.transport = "closing" /\ q.deaf = r.deaf
      /\ q.status = r.status /\ q.conn = r.conn /\ q.dropped = r.dropped /\ q.lock = r.lock
      /\ q.raced = r.raced /\ q.call = r.call
      /\ Shaped(s) /\ s.transport = "closed" /\ s.deaf = TRUE
      /\ s.status = r.status /\ s.conn = r.conn /\ s.dropped = r.dropped /\ s.lock = r.lock
      /\ s.raced = r.raced /\ s.call = r.call
    BY ClientIs DEF Shaped, Fields
<1>2. CASE SocketClosing(c)
    <2>1. Becomes(c, q) /\ relay' = relay /\ r.transport = "open" /\ Socket(c) \notin relay.wired
        BY <1>2 DEF SocketClosing
    <2> HIDE DEF q, s
    <2>2. Calm(r, q)
        BY <1>1, <2>1, ClientIs DEF Calm, Mild, ClientOK, Believing
    <2> QED BY <2>1, <2>2, ClientIs, CalmKeeps
<1>3. CASE PingFails(c)
    <2>1. Becomes(c, s) /\ relay' = relay /\ r.transport = "closing"
        BY <1>3 DEF PingFails
    <2> HIDE DEF q, s
    <2>2. Calm(r, s)
        BY <1>1, <2>1, ClientIs DEF Calm, Mild, ClientOK, Believing
    <2>3. Socket(c) \notin relay.wired
        BY <2>1, ClientIs
    <2> QED BY <2>1, <2>2, <2>3, ClientIs, CalmKeeps
<1> QED BY <1>2, <1>3

LEMMA ClosedKeeps ==
    ASSUME SeatInv, NEW c \in Clients, OnTransportClose(c)
    PROVE  SeatInv'
<1> DEFINE r == client[c]
           q == [r EXCEPT !.transport = "closed"]
           p == ResetCryptoState(q)
           s == [p EXCEPT !.status = "disconnected"]
<1>1. /\ Becomes(c, IF q.status = "expired" THEN q ELSE s)
      /\ relay' = relay /\ r.transport \in {"open", "closing"} /\ Socket(c) \notin relay.wired
    BY DEF OnTransportClose
<1>2. /\ Shaped(q) /\ q.transport = "closed" /\ q.deaf = r.deaf
      /\ q.status = r.status /\ q.conn = r.conn /\ q.dropped = r.dropped /\ q.lock = r.lock
      /\ q.raced = r.raced /\ q.call = r.call
    BY ClientIs DEF Shaped, Fields
<1> HIDE DEF q
<1>3. /\ Shaped(p) /\ p.dropped = q.dropped /\ p.transport = q.transport /\ p.conn = q.conn
      /\ p.lock = q.lock /\ p.call = q.call
      /\ p.deaf = q.deaf /\ p.raced = (q.raced \/ q.lock # <<>>)
    BY <1>2, ResetIs
<1> HIDE DEF p
<1>4. /\ Shaped(s) /\ s.status = "disconnected" /\ s.transport = p.transport /\ s.call = p.call
      /\ s.conn = p.conn /\ s.dropped = p.dropped /\ s.deaf = p.deaf /\ s.lock = p.lock
      /\ s.raced = p.raced
    BY <1>3 DEF Shaped, Fields
<1> HIDE DEF s
<1>5. CASE q.status = "expired"
    <2>1. Becomes(c, q)
        BY <1>1, <1>5
    <2>2. Calm(r, q)
        BY <1>1, <1>2, <1>5, ClientIs DEF Calm, Mild, ClientOK, Live
    <2> QED BY <1>1, <2>1, <2>2, ClientIs, CalmKeeps
<1>6. CASE q.status # "expired"
    <2>1. Becomes(c, s)
        BY <1>1, <1>6
    <2>2. Calm(r, s)
        BY <1>1, <1>2, <1>3, <1>4, ClientIs DEF Calm, Mild, ClientOK, Live, Believing
    <2> QED BY <1>1, <2>1, <2>2, ClientIs, CalmKeeps
<1> QED BY <1>5, <1>6

----------------------------------------------------------------------------
(* The tasks of the handshake lock, step by step.                          *)

\* A step of a task, after which the client has no new reason to believe.
LEMMA TaskKeeps ==
    ASSUME SeatInv, NEW c \in Clients, client[c].lock # <<>>,
           NEW s, Becomes(c, s), TaskStep(client[c], s), Fine(relay')
    PROVE  SeatInv'
<1>1. Calm(client[c], s) /\ s.transport = client[c].transport
    BY ClientIs, TaskCalm
<1>2. Socket(c) \in relay'.wired => client[c].transport = "open"
    BY DEF Fine, AllSeated, SeatedAs
<1> QED BY <1>1, <1>2, CalmKeeps

\* A task that fails.
LEMMA TaskFails ==
    ASSUME SeatInv, NEW c \in Clients, client[c].lock # <<>>,
           NEW q, TaskStep(client[c], q), NEW code, code # "SESSION_NOT_FOUND",
           Becomes(c, Rejected(q, code)), relay' = HangsUpIf(c, Rejected(q, code), relay)
    PROVE  SeatInv'
<1> DEFINE s == Rejected(q, code)
<1>1. Calm(client[c], s) /\ (s.dropped = FALSE => s.transport = client[c].transport)
    <2>1. ClientOK(client[c])
        BY ClientIs
    <2> QED BY <2>1, FailedCalm
<1> HIDE DEF s
<1> QED BY <1>1, ClientIs, AnswerKeeps DEF s

LEMMA StartKeeps ==
    ASSUME SeatInv, NEW c \in Clients, StartTask(c)
    PROVE  SeatInv'
<1> DEFINE r == client[c]
           t == Running(c)
           q == [r EXCEPT !.peerKey = t.key]
<1>1. r.lock # <<>> /\ relay' = relay
    BY DEF StartTask
<1>2. TaskStep(r, q) /\ Shaped(r)
    BY ClientIs, FieldsStep
<1>3. PICK s \in {Finished(r), At(r, [t EXCEPT !.pc = "export", !.my = r.keyPair]),
                  FlushInboundQueue(r, t), At(q, [t EXCEPT !.pc = "import"]),
                  DecryptNext(r, t, t.chats)} : Becomes(c, s)
    BY DEF StartTask
<1> HIDE DEF q
<1>4. TaskStep(q, At(q, [t EXCEPT !.pc = "import"]))
    BY <1>2, StaysShaped, FinishedStep
<1>5. TaskStep(r, s)
    BY <1>2, <1>3, <1>4, FinishedStep, FlushStep, DecryptStep, TaskTwice
<1> QED BY <1>1, <1>3, <1>5, ClientIs, TaskKeeps

LEMMA ExportedKeeps ==
    ASSUME SeatInv, NEW c \in Clients, KeyExported(c)
    PROVE  SeatInv'
<1> DEFINE t == Running(c)
           key == ExportPublicKey(Provider[c], t.my)
           r == [client[c] EXCEPT !.localKey = key]
           s == [r EXCEPT !.sent = TRUE]
<1>1. client[c].lock # <<>>
    BY DEF KeyExported, Awaits
<1>2. /\ r.transport = "open" =>
            /\ Becomes(c, IF t.kind = "send" THEN Finished(s) ELSE BecomeReady(s, t))
            /\ relay' \in RelaySend(relay, Socket(c), [type |-> "key", key |-> key])
      /\ r.transport # "open" =>
            /\ Becomes(c, IF t.kind = "send" THEN Finished(r) ELSE HandshakeFailed(r))
            /\ relay' = relay
    BY DEF KeyExported
<1> HIDE DEF key
<1>3. TaskStep(client[c], r)
    BY ClientIs, FieldsStep
<1> HIDE DEF r
<1>4. Shaped(r) /\ TaskStep(r, s)
    BY <1>3, StaysShaped, FieldsStep
<1> HIDE DEF s
<1>5. TaskStep(client[c], s) /\ Shaped(s)
    BY <1>3, <1>4, StaysShaped, TaskTwice
<1>6. CASE r.transport = "open"
    <2>1. Fine(relay')
        BY <1>2, <1>6, ClientIs, SendServes, ServedFine DEF Fine
    <2>2. TaskStep(client[c], Finished(s)) /\ TaskStep(client[c], BecomeReady(s, t))
        BY <1>5, FinishedStep, ReadyStep, TaskTwice
    <2> QED BY <1>1, <1>2, <1>6, <2>1, <2>2, TaskKeeps
<1>7. CASE r.transport # "open"
    <2>1. TaskStep(client[c], Finished(r))
        BY <1>3, <1>4, FinishedStep, TaskTwice
    <2>2. CASE t.kind = "send"
        BY <1>1, <1>2, <1>7, <2>1, <2>2, ClientIs, TaskKeeps
    <2>3. CASE t.kind # "send"
        <3> DEFINE p == HandshakeFailed(r)
        <3>1. Calm(client[c], p)
            BY <1>1, <2>1, ClientIs, FailedCalm DEF HandshakeFailed
        <3>2. Becomes(c, p) /\ relay' = relay
            BY <1>2, <1>7, <2>3
        <3> HIDE DEF p
        <3>3. Socket(c) \notin relay.wired
            BY <1>3, <1>7, ClientIs DEF TaskStep, SameCore
        <3> QED BY <3>1, <3>2, <3>3, ClientIs, CalmKeeps
    <2> QED BY <2>2, <2>3
<1> QED BY <1>6, <1>7

LEMMA ImportedKeeps ==
    ASSUME SeatInv, NEW c \in Clients, KeyImported(c) \/ LocalPrinted(c)
    PROVE  SeatInv'
<1>1. PICK t, s : /\ client[c].lock # <<>> /\ Becomes(c, s) /\ relay' = HangsUpIf(c, s, relay)
                  /\ s = HandshakeFailed(client[c]) \/ s = At(client[c], t)
    BY DEF KeyImported, LocalPrinted, Awaits
<1>2. /\ TaskStep(client[c], Finished(client[c])) /\ TaskStep(client[c], At(client[c], t))
      /\ client[c].dropped = FALSE
    BY <1>1, ClientIs, FinishedStep DEF ClientOK, Shaped
<1>3. CASE s = HandshakeFailed(client[c])
    BY <1>1, <1>2, <1>3, TaskFails DEF HandshakeFailed
<1>4. CASE s = At(client[c], t)
    <2>1. s.dropped = FALSE
        BY <1>2, <1>4 DEF TaskStep, SameCore
    <2>2. relay' = relay
        BY <1>1, <2>1 DEF HangsUpIf
    <2> QED BY <1>1, <1>2, <1>4, <2>2, ClientIs, TaskKeeps
<1> QED BY <1>1, <1>3, <1>4

LEMMA DerivedKeeps ==
    ASSUME SeatInv, NEW c \in Clients, SecretDerived(c) \/ FingerprintsMade(c)
    PROVE  SeatInv'
<1> DEFINE t == Running(c)
           secret == DeriveSharedSecret(Provider[c], t.my, t.key)
           prints == <<GenerateFingerprint(t.my), GenerateFingerprint(t.key)>>
           r == [client[c] EXCEPT !.received = TRUE, !.shared = secret]
           q == [client[c] EXCEPT !.seen = prints]
<1>1. client[c].lock # <<>> /\ relay' = relay
    BY DEF SecretDerived, FingerprintsMade, Awaits
<1>2. \/ Becomes(c, BecomeReady(r, t))
      \/ Becomes(c, At(r, [t EXCEPT !.pc = "export", !.my = r.keyPair]))
      \/ Becomes(c, FlushInboundQueue(q, t))
    BY DEF SecretDerived, FingerprintsMade
<1> HIDE DEF secret, prints
<1>3. TaskStep(client[c], r) /\ TaskStep(client[c], q)
    BY ClientIs, FieldsStep
<1> HIDE DEF r, q
<1>4. /\ TaskStep(client[c], BecomeReady(r, t))
      /\ \A task : TaskStep(client[c], At(r, task))
      /\ TaskStep(client[c], FlushInboundQueue(q, t))
    BY <1>3, StaysShaped, ReadyStep, FinishedStep, FlushStep, TaskTwice
<1> QED BY <1>1, <1>2, <1>4, ClientIs, TaskKeeps

LEMMA DecryptedKeeps ==
    ASSUME SeatInv, NEW c \in Clients, ChatDecrypted(c)
    PROVE  SeatInv'
<1> DEFINE r == client[c]
           t == Running(c)
           chat == Head(t.chats)
           q == [r EXCEPT !.shown = Decrypt(chat).n, !.displays = @ + 1]
           p == DecryptNext(r, t, Tail(t.chats))
           s == IF Decrypts(chat, t.secret) THEN DecryptNext(q, t, Tail(t.chats))
                ELSE Rejected(p, "DECRYPT_FAILED")
<1>1. r.lock # <<>> /\ Becomes(c, s) /\ relay' = HangsUpIf(c, s, relay)
    BY DEF ChatDecrypted, Awaits
<1>2. TaskStep(r, q) /\ Shaped(r) /\ r.dropped = FALSE
    BY <1>1, ClientIs, FieldsStep DEF ClientOK, Shaped
<1> HIDE DEF q
<1>3. TaskStep(r, p) /\ TaskStep(r, DecryptNext(q, t, Tail(t.chats)))
    BY <1>2, StaysShaped, DecryptStep, TaskTwice
<1> HIDE DEF p
<1>4. CASE Decrypts(chat, t.secret)
    <2>1. s = DecryptNext(q, t, Tail(t.chats))
        BY <1>4
    <2> HIDE DEF s
    <2>2. s.dropped = FALSE
        BY <1>2, <1>3, <2>1 DEF TaskStep, SameCore
    <2>3. relay' = relay
        BY <1>1, <2>2 DEF HangsUpIf
    <2> QED BY <1>1, <1>3, <2>1, <2>3, ClientIs, TaskKeeps
<1>5. CASE ~Decrypts(chat, t.secret)
    BY <1>1, <1>3, <1>5, TaskFails
<1> QED BY <1>4, <1>5

----------------------------------------------------------------------------
(* The specification.                                                      *)

LEMMA SeatInit == Init => SeatInv
<1> SUFFICES ASSUME Init PROVE SeatInv
    OBVIOUS
<1> DEFINE r == [NewClient EXCEPT !.dropped = TRUE]
<1>1. /\ DOMAIN r = Fields /\ r.dropped = TRUE /\ r.raced = FALSE /\ r.deaf = FALSE
      /\ r.status = "disconnected" /\ r.transport = "closed"
      /\ r.conn = 0 /\ r.call = "idle" /\ r.lock = <<>>
    <2>1. /\ DOMAIN NewClient = Fields
          /\ NewClient.dropped = FALSE /\ NewClient.raced = FALSE /\ NewClient.deaf = FALSE
          /\ NewClient.status = "disconnected" /\ NewClient.transport = "closed"
          /\ NewClient.conn = 0 /\ NewClient.call = "idle" /\ NewClient.lock = <<>>
        BY NewClientIs
    <2> QED BY <2>1 DEF Fields
<1>2. client = [c \in Clients |-> r]
    BY DEF Init
<1> HIDE DEF r
<1>3. ClientOK(r)
    <2>1. Shaped(r)
        <3>1. r.dropped \in BOOLEAN
            BY <1>1
        <3>2. r.raced \in BOOLEAN
            BY <1>1
        <3>4. r.deaf \in BOOLEAN
            BY <1>1
        <3>3. r.conn \in Nat
            BY <1>1
        <3> QED BY <1>1, <3>1, <3>2, <3>3, <3>4 DEF Shaped
    <2>2. ~Live(r)
        BY <1>1 DEF Live
    <2> QED BY <1>1, <2>1, <2>2 DEF ClientOK
<1>4. ClientsOK
    BY <1>2, <1>3 DEF ClientsOK
<1>5. /\ DOMAIN relay = RelayFields /\ relay.seats = {} /\ relay.wired = {}
      /\ relay.dying = {} /\ relay.retries = {} /\ relay.net = [c \in Clients |-> <<>>]
    BY DEF Init, RelayInit, RelayFields
<1>6. LineOK(<<>>, FALSE, FALSE)
    BY Empty DEF LineOK, Ordered, HasLast
<1>7. RelayOK(relay)
    <2>1. \A c \in Clients : LineOK(relay.net[c], Socket(c) \in relay.wired,
                                    Socket(c) \in relay.dying)
        BY <1>5, <1>6 DEF LineOK
    <2>2. ~Refused(<<>>) /\ RefusedOnce(<<>>)
        BY Empty DEF Refused, RefusedOnce
    <2> QED BY <1>5, <2>1, <2>2 DEF RelayOK, RelayShaped, LinesOK, RefusalsOK
<1>8. AllSeated(relay)
    BY <1>1, <1>2, <1>5 DEF AllSeated, SeatedAs
<1> QED BY <1>4, <1>7, <1>8 DEF SeatInv, Fine

LEMMA SeatStep == SeatInv /\ [Next]_vars => SeatInv'
<1> SUFFICES ASSUME SeatInv, [Next]_vars PROVE SeatInv'
    OBVIOUS
<1>1. ASSUME NEW c \in Clients, Owner(c) PROVE SeatInv'
    BY <1>1, OpenKeeps, ReconnectKeeps, SayKeeps, LeaveKeeps DEF Owner
<1>2. ASSUME NEW c \in Clients, Request(c) PROVE SeatInv'
    BY <1>2, AttemptFailsKeeps, ConnectFailsKeeps, ConnectedKeeps, RequestKeeps,
       TimesOutKeeps, SayKeeps DEF Request
<1>3. ASSUME NEW c \in Clients, Event(c) PROVE SeatInv'
    BY <1>3, CreatedKeeps, JoinedKeeps, QueuedKeeps, LeftKeeps, ExpiredKeeps, ErrorKeeps,
       SocketKeeps, ClosingKeeps, ClosedKeeps DEF Event, FrameArrives
<1>4. ASSUME NEW c \in Clients, LockStep(c) PROVE SeatInv'
    BY <1>4, StartKeeps, ExportedKeeps, ImportedKeeps, DerivedKeeps, DecryptedKeeps DEF LockStep
<1>5. ASSUME NEW c \in Clients, WireBreaks(c) PROVE SeatInv'
    BY <1>5, SocketKeeps
<1>6. CASE RelayStep
    <2>1. Served(relay, relay', {}, {}) /\ UNCHANGED client /\ Fine(relay)
        BY <1>6, RelayStepServes DEF SeatInv, Fine
    <2> QED BY <2>1, ServedFine, RelayKeeps
<1>7. CASE UNCHANGED vars
    <2>1. UNCHANGED client /\ relay' = relay /\ Fine(relay)
        BY <1>7 DEF vars, SeatInv
    <2> QED BY <2>1, RelayKeeps
<1> QED BY <1>1, <1>2, <1>3, <1>4, <1>5, <1>6, <1>7 DEF Next

(* In every order of calls, frames, handlers and failures: what a client   *)
(* believes, what is on its way to it and what the relay has seated fit.   *)
THEOREM SeatsAreKnown == Spec => []SeatInv
<1> QED BY SeatInit, SeatStep, PTL DEF Spec

(* A client that takes its transport for alive hears of its end: none is   *)
(* left in a live status, in which reconnect() would leave it alone,       *)
(* behind a transport that has been closed, but for two: one whose ping    *)
(* failed, and one that a reset has overtaken in a handler of its lock,    *)
(* which may write "ready" over the status of the reset.                   *)
THEOREM LiveClientsAreHeard == Spec => []LiveIsHeard
<1>1. SeatInv => LiveIsHeard
    BY DEF SeatInv, ClientsOK, ClientOK, LiveIsHeard
<1> QED BY <1>1, SeatsAreKnown, PTL

(* A client that waits for, greets or talks to a partner has its seat in   *)
(* the session, on the connection it uses.                                 *)
THEOREM BelieversAreSeated == Spec => []BelievesWhatIsSo
<1>1. ASSUME SeatInv, NEW c \in Clients, Settled(c), ~client[c].raced,
             client[c].status \in {"awaiting_partner", "handshaking", "ready"}
      PROVE  Socket(c) \in relay.seats
    <2>1. SeatedAs(client[c], Socket(c), relay, relay.net[c])
          /\ LineOK(relay.net[c], Socket(c) \in relay.wired, Socket(c) \in relay.dying)
        BY <1>1 DEF SeatInv, Fine, AllSeated, RelayOK, LinesOK
    <2>2. ~HasClose(<<>>)
        BY Empty DEF HasClose
    <2> QED BY <1>1, <2>1, <2>2 DEF Settled, SeatedAs, LineOK, Believing
<1>2. SeatInv => BelievesWhatIsSo
    BY <1>1 DEF BelievesWhatIsSo
<1> QED BY <1>2, SeatsAreKnown, PTL

----------------------------------------------------------------------------
(* The order of the chats, from the end that seals them to the page.       *)

Number(chat) == Decrypt(chat).n
Numbers(s)   == {Number(chat) : chat \in Elements(s)}
Rising(s)    == IsSeq(s) /\ \A i, j \in 1..Len(s) : i < j => Number(s[i]) < Number(s[j])
Below(S, T)  == \A m \in S, n \in T : m < n

Stored(s)    == UNION {Numbers(t.chats) : t \in Elements(s)}
OnTheWay(s)  == {Number(f.chat) : f \in {g \in Elements(s) : g.type = "chat"}}
\* What a client has received, whether it has shown it or not.
Heard(r) == {r.shown} \cup Numbers(r.queue) \cup Stored(r.lock)

NetRising(s) == \A i, j \in 1..Len(s) :
    i < j /\ s[i].type = "chat" /\ s[j].type = "chat" => Number(s[i].chat) < Number(s[j].chat)

TaskFields == {"kind", "pc", "key", "my", "secret", "chats"}

TaskKept(t) == /\ DOMAIN t = TaskFields /\ IsSeq(t.chats)
               /\ t.pc = "decrypt" => t.chats # <<>>

Kept(r) == IsSeq(r.queue) /\ IsSeq(r.lock) /\ \A t \in Elements(r.lock) : TaskKept(t)

\* Tasks that wait behind the one at the head.
Behind(s) ==
    /\ \A t \in Elements(s) : t.pc = "start" /\ Rising(t.chats)
    /\ \A i, j \in 1..Len(s) : i < j => Below(Numbers(s[i].chats), Numbers(s[j].chats))

\* Shown, then queued for a key, then in the hands of a task, then waiting.
Chain(shown, queue, chats, rest) ==
    /\ Rising(queue) /\ Rising(chats) /\ Behind(rest)
    /\ Below({shown}, Numbers(queue) \cup Numbers(chats) \cup Stored(rest))
    /\ Below(Numbers(queue), Numbers(chats) \cup Stored(rest))
    /\ Below(Numbers(chats), Stored(rest))

Stage(r, t) ==
    /\ t.kind = "send" => t.pc \in {"start", "export"}
    /\ t.pc = "decrypt" => r.queue = <<>>
    /\ r.queue # <<>> => r.shared = {} \/ (t.kind # "send" /\ t.pc \in {"export", "print", "print_peer"})
    /\ t.pc = "print" => r.peerKey # NoKey

InLine(r) ==
    IF r.lock = <<>>
    THEN Chain(r.shown, r.queue, <<>>, <<>>) /\ (r.queue # <<>> => r.shared = {})
    ELSE Chain(r.shown, r.queue, Head(r.lock).chats, Tail(r.lock)) /\ Stage(r, Head(r.lock))

Orderly(r) ==
    /\ Kept(r)
    /\ ~r.raced => /\ r.transport = "opening" => r.queue = <<>>
                   /\ r.transport = "open" => InLine(r)

\* Of the client r, the frames s on their way to it, and the other end q.
Passes(r, s, q) ==
    /\ q.said \in Nat
    /\ Heard(r) \cup OnTheWay(s) \subseteq 0..q.said
    /\ NetRising(s)
    /\ Below(Heard(r), OnTheWay(s))

OrderInv ==
    /\ SeatInv
    /\ \A c \in Clients : Orderly(client[c])
    /\ \A c, d \in Clients : c # d => Passes(client[c], relay.net[c], client[d])

----------------------------------------------------------------------------
(* Sequences of chats, and of tasks that have some.                        *)

LEMMA Joined ==
    ASSUME NEW s, IsSeq(s), NEW t, IsSeq(t)
    PROVE  /\ IsSeq(s \o t) /\ Elements(s \o t) = Elements(s) \cup Elements(t)
           /\ Len(s) \in Nat /\ Len(t) \in Nat /\ Len(s \o t) = Len(s) + Len(t)
           /\ \A i \in 1..Len(s) : (s \o t)[i] = s[i]
           /\ \A i \in Len(s) + 1 .. Len(s) + Len(t) : (s \o t)[i] = t[i - Len(s)]
<1>1. PICK S : s \in Seq(S)
    BY DEF IsSeq
<1>2. PICK T : t \in Seq(T)
    BY DEF IsSeq
<1>3. s \in Seq(S \cup T) /\ t \in Seq(S \cup T)
    BY <1>1, <1>2
<1>4. /\ s \o t \in Seq(S \cup T)
      /\ Len(s) \in Nat /\ Len(t) \in Nat /\ Len(s \o t) = Len(s) + Len(t)
      /\ \A i \in 1..Len(s) : (s \o t)[i] = s[i]
      /\ \A i \in Len(s) + 1 .. Len(s) + Len(t) : (s \o t)[i] = t[i - Len(s)]
    BY <1>3
<1> DEFINE u == s \o t
<1> HIDE DEF u
<1>5. Elements(u) = Elements(s) \cup Elements(t)
    <2>1. ASSUME NEW i \in 1..Len(u) PROVE u[i] \in Elements(s) \cup Elements(t)
        <3>1. CASE i \in 1..Len(s)
            BY <1>4, <3>1 DEF u, Elements
        <3>2. CASE i \notin 1..Len(s)
            <4>1. i \in Len(s) + 1 .. Len(s) + Len(t) /\ i - Len(s) \in 1..Len(t)
                BY <1>4, <3>2 DEF u
            <4> QED BY <1>4, <4>1 DEF u, Elements
        <3> QED BY <3>1, <3>2
    <2>2. ASSUME NEW i \in 1..Len(s) PROVE s[i] \in Elements(u)
        <3>1. i \in 1..Len(u) /\ u[i] = s[i]
            BY <1>4 DEF u
        <3> QED BY <3>1 DEF Elements
    <2>3. ASSUME NEW i \in 1..Len(t) PROVE t[i] \in Elements(u)
        <3>1. i + Len(s) \in Len(s) + 1 .. Len(s) + Len(t) /\ i + Len(s) - Len(s) = i
            BY <1>4
        <3>2. i + Len(s) \in 1..Len(u) /\ u[i + Len(s)] = t[i]
            BY <1>4, <3>1 DEF u
        <3> QED BY <3>2 DEF Elements
    <2> QED BY <2>1, <2>2, <2>3 DEF Elements
<1> QED BY <1>3, <1>4, <1>5 DEF u, IsSeq

LEMMA NoNumbers ==
    /\ IsSeq(<<>>) /\ Rising(<<>>) /\ Behind(<<>>)
    /\ Numbers(<<>>) = {} /\ Stored(<<>>) = {} /\ OnTheWay(<<>>) = {}
    /\ NetRising(<<>>)
<1>1. IsSeq(<<>>) /\ Elements(<<>>) = {} /\ Len(<<>>) = 0
    BY Empty
<1> QED BY <1>1 DEF Rising, Behind, Numbers, Stored, OnTheWay, NetRising

LEMMA NumbersJoined ==
    ASSUME NEW s, IsSeq(s), NEW t, IsSeq(t)
    PROVE  /\ Numbers(s \o t) = Numbers(s) \cup Numbers(t)
           /\ Rising(s) /\ Rising(t) /\ Below(Numbers(s), Numbers(t)) => Rising(s \o t)
<1> DEFINE u == s \o t
<1>1. /\ IsSeq(u) /\ Elements(u) = Elements(s) \cup Elements(t)
      /\ Len(s) \in Nat /\ Len(t) \in Nat /\ Len(u) = Len(s) + Len(t)
      /\ \A i \in 1..Len(s) : u[i] = s[i]
      /\ \A i \in Len(s) + 1 .. Len(s) + Len(t) : u[i] = t[i - Len(s)]
    BY Joined
<1> HIDE DEF u
<1>2. Numbers(u) = Numbers(s) \cup Numbers(t)
    BY <1>1 DEF Numbers
<1>3. ASSUME Rising(s), Rising(t), Below(Numbers(s), Numbers(t)),
             NEW i \in 1..Len(u), NEW j \in 1..Len(u), i < j
      PROVE  Number(u[i]) < Number(u[j])
    <2>1. CASE j \in 1..Len(s)
        <3>1. i \in 1..Len(s) /\ u[i] = s[i] /\ u[j] = s[j]
            BY <1>1, <1>3, <2>1
        <3> QED BY <1>3, <2>1, <3>1 DEF Rising
    <2>2. CASE j \notin 1..Len(s)
        <3>1. j - Len(s) \in 1..Len(t) /\ u[j] = t[j - Len(s)]
            BY <1>1, <2>2
        <3>2. CASE i \in 1..Len(s)
            <4>1. u[i] = s[i] /\ u[i] \in Elements(s) /\ u[j] \in Elements(t)
                BY <1>1, <3>1, <3>2 DEF Elements
            <4> QED BY <1>3, <4>1 DEF Below, Numbers
        <3>3. CASE i \notin 1..Len(s)
            <4>1. i - Len(s) \in 1..Len(t) /\ u[i] = t[i - Len(s)] /\ i - Len(s) < j - Len(s)
                BY <1>1, <1>3, <3>3
            <4> QED BY <1>3, <3>1, <4>1 DEF Rising
        <3> QED BY <3>2, <3>3
    <2> QED BY <2>1, <2>2
<1> QED BY <1>1, <1>2, <1>3 DEF u, Rising

LEMMA NumbersTaken ==
    ASSUME NEW s, IsSeq(s), s # <<>>
    PROVE  /\ IsSeq(Tail(s)) /\ Numbers(Tail(s)) \subseteq Numbers(s)
           /\ Number(Head(s)) \in Numbers(s)
           /\ Rising(s) => Rising(Tail(s)) /\ Below({Number(Head(s))}, Numbers(Tail(s)))
<1>1. /\ IsSeq(Tail(s)) /\ Elements(Tail(s)) \subseteq Elements(s)
      /\ Len(Tail(s)) = Len(s) - 1 /\ Len(s) \in Nat /\ Len(s) >= 1
      /\ \A i \in 1..Len(Tail(s)) : Tail(s)[i] = s[i + 1]
      /\ Head(s) = s[1] /\ Head(s) \in Elements(s)
    BY Taken
<1>2. ASSUME Rising(s) PROVE Rising(Tail(s))
    BY <1>1, <1>2 DEF Rising
<1>3. ASSUME Rising(s), NEW i \in 1..Len(Tail(s))
      PROVE  Number(Head(s)) < Number(Tail(s)[i])
    <2>1. i + 1 \in 1..Len(s) /\ 1 \in 1..Len(s) /\ 1 < i + 1
        BY <1>1
    <2> QED BY <1>1, <1>3, <2>1 DEF Rising
<1> QED BY <1>1, <1>2, <1>3 DEF Numbers, Below, Elements

LEMMA StoredTaken ==
    ASSUME NEW s, IsSeq(s), s # <<>>
    PROVE  /\ Stored(s) = Numbers(Head(s).chats) \cup Stored(Tail(s))
           /\ Behind(s) => /\ Behind(Tail(s)) /\ Below(Numbers(Head(s).chats), Stored(Tail(s)))
                           /\ Head(s).pc = "start" /\ Rising(Head(s).chats)
<1>1. /\ Elements(Tail(s)) \subseteq Elements(s)
      /\ Len(Tail(s)) = Len(s) - 1 /\ Len(s) \in Nat /\ Len(s) >= 1
      /\ \A i \in 1..Len(Tail(s)) : Tail(s)[i] = s[i + 1]
      /\ Head(s) = s[1] /\ Head(s) \in Elements(s)
    BY Taken
<1>2. Elements(s) = {Head(s)} \cup Elements(Tail(s))
    <2>1. ASSUME NEW i \in 1..Len(s) PROVE s[i] \in {Head(s)} \cup Elements(Tail(s))
        <3>1. i = 1 \/ (i - 1 \in 1..Len(Tail(s)) /\ Tail(s)[i - 1] = s[i])
            BY <1>1
        <3> QED BY <1>1, <3>1 DEF Elements
    <2> QED BY <1>1, <2>1 DEF Elements
<1>3. Stored(s) = Numbers(Head(s).chats) \cup Stored(Tail(s))
    BY <1>2 DEF Stored
<1>4. ASSUME Behind(s) PROVE Behind(Tail(s))
    BY <1>1, <1>4 DEF Behind
<1>5. ASSUME Behind(s), NEW u \in Elements(Tail(s))
      PROVE  Below(Numbers(Head(s).chats), Numbers(u.chats))
    <2>1. PICK i \in 1..Len(Tail(s)) : u = Tail(s)[i]
        BY DEF Elements
    <2>2. i + 1 \in 1..Len(s) /\ 1 \in 1..Len(s) /\ 1 < i + 1 /\ u = s[i + 1]
        BY <1>1, <2>1
    <2> QED BY <1>1, <1>5, <2>2 DEF Behind
<1>6. Behind(s) => Below(Numbers(Head(s).chats), Stored(Tail(s)))
    BY <1>5 DEF Stored, Below
<1> QED BY <1>1, <1>3, <1>4, <1>6 DEF Behind

----------------------------------------------------------------------------
(* The chain of a client, as its tasks go on.                              *)

LEMMA ChainStart ==
    ASSUME NEW shown
    PROVE  Chain(shown, <<>>, <<>>, <<>>)
BY NoNumbers DEF Chain, Below

\* A task hands on what is queued, or what it has itself.
LEMMA ChainMoves ==
    ASSUME NEW shown, NEW queue, NEW chats, NEW rest, Chain(shown, queue, chats, rest)
    PROVE  /\ Chain(shown, queue, <<>>, rest)
           /\ Chain(shown, <<>>, queue, rest)
           /\ Chain(shown, queue \o chats, <<>>, rest)
<1>1. /\ Chain(shown, queue, <<>>, rest) /\ Chain(shown, <<>>, queue, rest)
    BY NoNumbers DEF Chain, Below
<1>2. /\ Numbers(queue \o chats) = Numbers(queue) \cup Numbers(chats)
      /\ Rising(queue \o chats)
    <2>1. IsSeq(queue) /\ IsSeq(chats) /\ Rising(queue) /\ Rising(chats)
          /\ Below(Numbers(queue), Numbers(chats))
        BY DEF Chain, Rising, Below
    <2> QED BY <2>1, NumbersJoined
<1>3. Chain(shown, queue \o chats, <<>>, rest)
    BY <1>2, NoNumbers DEF Chain, Below
<1> QED BY <1>1, <1>3

\* A task decrypts its first chat, which is shown or is refused.
LEMMA ChainShows ==
    ASSUME NEW shown, NEW chats, chats # <<>>, NEW rest, NEW queue,
           Chain(shown, queue, chats, rest)
    PROVE  /\ shown < Number(Head(chats))
           /\ Chain(shown, queue, Tail(chats), rest)
           /\ queue = <<>> => Chain(Number(Head(chats)), queue, Tail(chats), rest)
<1>1. /\ IsSeq(Tail(chats)) /\ Numbers(Tail(chats)) \subseteq Numbers(chats)
      /\ Number(Head(chats)) \in Numbers(chats)
      /\ Rising(Tail(chats)) /\ Below({Number(Head(chats))}, Numbers(Tail(chats)))
    BY NumbersTaken DEF Chain, Rising
<1>2. shown < Number(Head(chats))
    BY <1>1 DEF Chain, Below
<1>3. Chain(shown, queue, Tail(chats), rest)
    BY <1>1 DEF Chain, Below
<1>4. ASSUME queue = <<>> PROVE Chain(Number(Head(chats)), queue, Tail(chats), rest)
    BY <1>1, <1>4, NoNumbers DEF Chain, Below
<1> QED BY <1>2, <1>3, <1>4

\* The next task has its turn.
LEMMA ChainNext ==
    ASSUME NEW shown, NEW queue, NEW rest, IsSeq(rest), rest # <<>>,
           Chain(shown, queue, <<>>, rest)
    PROVE  Chain(shown, queue, Head(rest).chats, Tail(rest)) /\ Head(rest).pc = "start"
<1>1. /\ Stored(rest) = Numbers(Head(rest).chats) \cup Stored(Tail(rest))
      /\ Behind(Tail(rest)) /\ Below(Numbers(Head(rest).chats), Stored(Tail(rest)))
      /\ Head(rest).pc = "start" /\ Rising(Head(rest).chats)
    BY StoredTaken DEF Chain
<1> QED BY <1>1 DEF Chain, Below

LEMMA BehindAppended ==
    ASSUME NEW s, IsSeq(s), NEW t
    PROVE  /\ Stored(Append(s, t)) = Stored(s) \cup Numbers(t.chats)
           /\ (Behind(s) /\ t.pc = "start" /\ Rising(t.chats)
               /\ Below(Stored(s), Numbers(t.chats))) => Behind(Append(s, t))
<1> DEFINE u == Append(s, t)
<1>1. /\ IsSeq(u) /\ Elements(u) = Elements(s) \cup {t}
      /\ Len(u) = Len(s) + 1 /\ Len(s) \in Nat
      /\ \A i \in 1..Len(s) : u[i] = s[i]
      /\ u[Len(s) + 1] = t
    BY Appended
<1> HIDE DEF u
<1>2. Stored(u) = Stored(s) \cup Numbers(t.chats)
    BY <1>1 DEF Stored
<1>3. ASSUME Behind(s), t.pc = "start", Rising(t.chats), Below(Stored(s), Numbers(t.chats))
      PROVE  Behind(u)
    <2>1. ASSUME NEW i \in 1..Len(u), NEW j \in 1..Len(u), i < j
          PROVE  Below(Numbers(u[i].chats), Numbers(u[j].chats))
        <3>1. i \in 1..Len(s) /\ u[i] = s[i]
            BY <1>1, <2>1
        <3>2. CASE j \in 1..Len(s)
            BY <1>1, <1>3, <2>1, <3>1, <3>2 DEF Behind
        <3>3. CASE j = Len(s) + 1
            <4>1. s[i] \in Elements(s)
                BY <3>1 DEF Elements
            <4>2. Numbers(u[i].chats) \subseteq Stored(s)
                BY <3>1, <4>1 DEF Stored
            <4> QED BY <1>1, <1>3, <3>3, <4>2 DEF Below
        <3> QED BY <1>1, <3>2, <3>3
    <2>2. \A w \in Elements(u) : w.pc = "start" /\ Rising(w.chats)
        BY <1>1, <1>3 DEF Behind
    <2> QED BY <2>1, <2>2 DEF Behind
<1> QED BY <1>2, <1>3 DEF u

\* A task queues behind everything the client has heard.
LEMMA ChainGrows ==
    ASSUME NEW shown, NEW queue, NEW chats, NEW rest, IsSeq(rest), NEW t,
           Chain(shown, queue, chats, rest), t.pc = "start", Rising(t.chats),
           Below({shown} \cup Numbers(queue) \cup Numbers(chats) \cup Stored(rest),
                 Numbers(t.chats))
    PROVE  Chain(shown, queue, chats, Append(rest, t))
<1>1. /\ Stored(Append(rest, t)) = Stored(rest) \cup Numbers(t.chats)
      /\ Behind(Append(rest, t))
    <2>1. Behind(rest) /\ Below(Stored(rest), Numbers(t.chats))
        BY DEF Chain, Below
    <2> QED BY <2>1, BehindAppended
<1> QED BY <1>1 DEF Chain, Below

----------------------------------------------------------------------------
(* What a client keeps of the chats it has heard.                          *)

LEMMA SameSeq ==
    ASSUME NEW s, IsSeq(s), NEW t, IsSeq(t), Len(s) = Len(t), \A i \in 1..Len(s) : s[i] = t[i]
    PROVE  s = t
<1>1. PICK S : s \in Seq(S)
    BY DEF IsSeq
<1>2. PICK T : t \in Seq(T)
    BY DEF IsSeq
<1>3. s \in Seq(S \cup T) /\ t \in Seq(S \cup T)
    BY <1>1, <1>2
<1> QED BY <1>3

LEMMA LockMoves ==
    ASSUME NEW s, IsSeq(s), s # <<>>, NEW t
    PROVE  LET u == <<t>> \o Tail(s) IN
           /\ IsSeq(u) /\ u # <<>> /\ Head(u) = t /\ Tail(u) = Tail(s)
           /\ Elements(u) = {t} \cup Elements(Tail(s))
<1> DEFINE l == Tail(s)
           h == <<t>>
           u == h \o l
<1>1. IsSeq(l)
    BY Taken
<1>2. IsSeq(h) /\ Len(h) = 1 /\ h[1] = t /\ Elements(h) = {t}
    <2>1. h \in Seq({t}) /\ Len(h) = 1 /\ h[1] = t
        OBVIOUS
    <2>2. IsSeq(h)
        BY <2>1 DEF IsSeq
    <2> HIDE DEF h
    <2>3. Elements(h) = {t}
        BY <2>1 DEF Elements
    <2> QED BY <2>1, <2>2, <2>3
<1> HIDE DEF l, h
<1>3. /\ IsSeq(u) /\ Elements(u) = {t} \cup Elements(l)
      /\ Len(l) \in Nat /\ Len(u) = 1 + Len(l) /\ u[1] = t
      /\ \A i \in 2 .. 1 + Len(l) : u[i] = l[i - 1]
    <2>1. /\ IsSeq(h \o l) /\ Elements(h \o l) = Elements(h) \cup Elements(l)
          /\ Len(l) \in Nat /\ Len(h \o l) = Len(h) + Len(l)
          /\ \A i \in 1..Len(h) : (h \o l)[i] = h[i]
          /\ \A i \in Len(h) + 1 .. Len(h) + Len(l) : (h \o l)[i] = l[i - Len(h)]
        BY <1>1, <1>2, Joined
    <2> QED BY <1>2, <2>1
<1>4. u # <<>>
    BY <1>3, Empty
<1> HIDE DEF u
<1>5. /\ IsSeq(Tail(u)) /\ Len(Tail(u)) = Len(l) /\ Head(u) = t
      /\ \A i \in 1..Len(l) : Tail(u)[i] = l[i]
    <2>1. /\ IsSeq(Tail(u)) /\ Len(Tail(u)) = Len(u) - 1
          /\ \A i \in 1..Len(Tail(u)) : Tail(u)[i] = u[i + 1]
          /\ Head(u) = u[1]
        BY <1>3, <1>4, Taken
    <2> QED BY <1>3, <2>1
<1>6. Tail(u) = l
    BY <1>1, <1>5, SameSeq
<1> QED BY <1>3, <1>4, <1>5, <1>6 DEF u, h, l

LEMMA LockGrows ==
    ASSUME NEW s, IsSeq(s), NEW t
    PROVE  LET u == Append(s, t) IN
           /\ IsSeq(u) /\ u # <<>> /\ Elements(u) = Elements(s) \cup {t}
           /\ s = <<>> => Head(u) = t /\ Tail(u) = <<>>
           /\ s # <<>> => Head(u) = Head(s) /\ Tail(u) = Append(Tail(s), t)
<1> DEFINE u == Append(s, t)
<1>1. /\ IsSeq(u) /\ Elements(u) = Elements(s) \cup {t}
      /\ Len(u) = Len(s) + 1 /\ Len(s) \in Nat
      /\ \A i \in 1..Len(s) : u[i] = s[i]
      /\ u[Len(s) + 1] = t
    BY Appended
<1> HIDE DEF u
<1>2. u # <<>>
    BY <1>1, Empty
<1>3. /\ IsSeq(Tail(u)) /\ Len(Tail(u)) = Len(s)
      /\ \A i \in 1..Len(Tail(u)) : Tail(u)[i] = u[i + 1]
      /\ Head(u) = u[1]
    BY <1>1, <1>2, Taken
<1>4. ASSUME s = <<>> PROVE Head(u) = t /\ Tail(u) = <<>>
    <2>1. Len(s) = 0
        BY <1>4
    <2>2. Head(u) = t
        BY <1>1, <1>3, <2>1
    <2>3. IsSeq(<<>>) /\ Len(<<>>) = 0
        BY Empty
    <2>4. \A i \in 1..Len(Tail(u)) : Tail(u)[i] = <<>>[i]
        BY <1>3, <2>1
    <2>5. Tail(u) = <<>>
        BY <1>3, <2>1, <2>3, <2>4, SameSeq
    <2> QED BY <2>2, <2>5
<1>5. ASSUME s # <<>> PROVE Head(u) = Head(s) /\ Tail(u) = Append(Tail(s), t)
    <2>1. /\ IsSeq(Tail(s)) /\ Len(Tail(s)) = Len(s) - 1 /\ Len(s) >= 1
          /\ \A i \in 1..Len(Tail(s)) : Tail(s)[i] = s[i + 1]
          /\ Head(s) = s[1]
        BY <1>5, Taken
    <2> DEFINE l == Tail(s)
               v == Append(l, t)
    <2>2. /\ IsSeq(v) /\ Len(v) = Len(l) + 1
          /\ \A i \in 1..Len(l) : v[i] = l[i]
          /\ v[Len(l) + 1] = t
        BY <2>1, Appended
    <2> HIDE DEF v, l
    <2>3. Len(l) = Len(s) - 1 /\ (\A i \in 1..Len(l) : l[i] = s[i + 1])
        BY <2>1 DEF l
    <2>4. Len(Tail(u)) = Len(v)
        BY <1>1, <1>3, <2>2, <2>3
    <2>5. ASSUME NEW i \in 1..Len(Tail(u)) PROVE Tail(u)[i] = v[i]
        <3>1. CASE i = Len(s)
            BY <1>1, <1>3, <2>2, <2>3, <3>1
        <3>2. CASE i # Len(s)
            <4>1. i \in 1..Len(l) /\ i + 1 \in 1..Len(s)
                BY <1>1, <1>3, <2>1, <2>3, <3>2
            <4> QED BY <1>1, <1>3, <2>2, <2>3, <4>1
        <3> QED BY <3>1, <3>2
    <2>6. Tail(u) = v
        BY <1>3, <2>2, <2>4, <2>5, SameSeq
    <2> QED BY <1>1, <1>3, <2>1, <2>6 DEF v, l
<1> QED BY <1>1, <1>2, <1>4, <1>5 DEF u

----------------------------------------------------------------------------
(* Steps of a client that bring it no chat.                                *)

Keeps(r, s) ==
    /\ s.shown = r.shown /\ s.said = r.said /\ s.displays = r.displays
    /\ Orderly(s) /\ Heard(s) \subseteq Heard(r)

LEMMA KeepsTwice ==
    ASSUME NEW r, NEW s, NEW t, Keeps(r, s), Keeps(s, t)
    PROVE  Keeps(r, t)
BY DEF Keeps

\* The fields the order of the chats depends on.
SameChats(r, s) ==
    /\ s.shown = r.shown /\ s.said = r.said /\ s.displays = r.displays
    /\ s.queue = r.queue /\ s.lock = r.lock

LEMMA SameKeeps ==
    ASSUME NEW r, Orderly(r), NEW s, SameChats(r, s), s.raced = r.raced,
           s.transport = r.transport, s.shared \in {r.shared, {}}, s.peerKey = r.peerKey
    PROVE  Keeps(r, s)
<1>1. Kept(s) /\ Heard(s) = Heard(r)
    BY DEF SameChats, Orderly, Kept, Heard
<1>2. ASSUME InLine(r) PROVE InLine(s)
    <2>1. CASE r.lock = <<>>
        BY <1>2, <2>1 DEF SameChats, InLine
    <2>2. CASE r.lock # <<>>
        <3>1. Stage(r, Head(r.lock)) => Stage(s, Head(r.lock))
            BY DEF SameChats, Stage
        <3> QED BY <1>2, <2>2, <3>1 DEF SameChats, InLine
    <2> QED BY <2>1, <2>2
<1>3. Orderly(s)
    BY <1>1, <1>2 DEF SameChats, Orderly
<1> QED BY <1>1, <1>3 DEF Keeps, SameChats

\* A client whose transport does not send, or that has been overtaken.
LEMMA ShutKeeps ==
    ASSUME NEW r, Orderly(r), NEW s, SameChats(r, s),
           s.raced = TRUE \/ s.transport \notin {"open", "opening"}
    PROVE  Keeps(r, s)
<1>1. Kept(s) /\ Heard(s) = Heard(r)
    BY DEF SameChats, Orderly, Kept, Heard
<1> QED BY <1>1 DEF Keeps, SameChats, Orderly

\* A reset, after which a client that has not been overtaken starts anew.
LEMMA EmptiedKeeps ==
    ASSUME NEW r, Orderly(r), NEW s,
           s.shown = r.shown, s.said = r.said, s.displays = r.displays,
           s.queue = <<>>, s.lock \in {r.lock, <<>>},
           s.raced # TRUE => s.raced = FALSE /\ s.lock = <<>>
    PROVE  Keeps(r, s)
<1>1. IsSeq(s.queue) /\ IsSeq(s.lock) /\ Elements(s.lock) \subseteq Elements(r.lock)
    BY Empty DEF Orderly, Kept
<1>2. Kept(s)
    BY <1>1 DEF Orderly, Kept
<1>3. Heard(s) \subseteq Heard(r)
    BY NoNumbers DEF Heard
<1>4. s.raced # TRUE => InLine(s)
    BY ChainStart DEF InLine
<1>5. Orderly(s)
    BY <1>2, <1>4 DEF Orderly
<1> QED BY <1>3, <1>5 DEF Keeps

LEMMA ResetChats ==
    ASSUME NEW r, Shaped(r)
    PROVE  LET s == ResetCryptoState(r) IN
           /\ Shaped(s) /\ s.shown = r.shown /\ s.said = r.said /\ s.displays = r.displays
           /\ s.queue = <<>> /\ s.lock = r.lock /\ s.raced = (r.raced \/ r.lock # <<>>)
           /\ s.raced \in BOOLEAN
BY DEF Shaped, Fields, ResetCryptoState

LEMMA DropChats ==
    ASSUME NEW r, Shaped(r)
    PROVE  LET s == Drop(r) IN
           /\ s.shown = r.shown /\ s.said = r.said /\ s.displays = r.displays
           /\ s.queue = <<>> /\ s.lock = <<>> /\ s.raced \in BOOLEAN
<1> DEFINE q == ResetCryptoState(r)
           d == [q EXCEPT !.transport = "closed", !.named = FALSE, !.isHost = FALSE,
                          !.status = IF @ = "expired" THEN @ ELSE "disconnected"]
           s == [d EXCEPT !.dropped = TRUE, !.call = "idle", !.lock = <<>>, !.sealing = <<>>,
                          !.seen = NoPrints, !.partner = FALSE]
<1>1. /\ Shaped(q) /\ q.shown = r.shown /\ q.said = r.said /\ q.queue = <<>>
      /\ q.displays = r.displays /\ q.raced \in BOOLEAN
    BY ResetChats
<1> HIDE DEF q
<1>2. /\ Shaped(d) /\ d.shown = q.shown /\ d.said = q.said /\ d.queue = q.queue
      /\ d.displays = q.displays /\ d.raced = q.raced
    BY <1>1 DEF Shaped, Fields
<1> HIDE DEF d
<1>3. /\ s.shown = d.shown /\ s.said = d.said /\ s.queue = d.queue
      /\ s.displays = d.displays /\ s.raced = d.raced /\ s.lock = <<>>
    BY <1>2 DEF Shaped, Fields
<1>4. Drop(r) = s
    BY DEF Drop, Disconnect, d, q
<1> HIDE DEF s
<1> QED BY <1>1, <1>2, <1>3, <1>4

LEMMA DropKeeps ==
    ASSUME NEW r, Shaped(r), Orderly(r)
    PROVE  Keeps(r, Drop(r))
<1> DEFINE s == Drop(r)
<1>1. /\ s.shown = r.shown /\ s.said = r.said /\ s.displays = r.displays
      /\ s.queue = <<>> /\ s.lock = <<>> /\ s.raced \in BOOLEAN
    BY DropChats
<1> HIDE DEF s
<1> QED BY <1>1, EmptiedKeeps DEF s

\* Fields that the chats do not depend on.
LEMMA OthersKeep ==
    ASSUME NEW r, Shaped(r), Orderly(r), NEW v, NEW w
    PROVE  /\ Keeps(r, r) /\ Keeps(r, [r EXCEPT !.call = v])
           /\ Keeps(r, [r EXCEPT !.call = v, !.asked = w])
           /\ Keeps(r, [r EXCEPT !.status = v])
<1> DEFINE a == [r EXCEPT !.call = v]
           b == [r EXCEPT !.call = v, !.asked = w]
           e == [r EXCEPT !.status = v]
<1>1. \A s \in {r, a, b, e} :
          /\ SameChats(r, s) /\ s.raced = r.raced /\ s.transport = r.transport
          /\ s.shared = r.shared /\ s.peerKey = r.peerKey
    BY DEF Shaped, Fields, SameChats
<1> HIDE DEF a, b, e
<1>2. \A s \in {r, a, b, e} : Keeps(r, s)
    BY <1>1, SameKeeps
<1> QED BY <1>2 DEF a, b, e

LEMMA RejectedKeeps ==
    ASSUME NEW r, Shaped(r), Orderly(r), NEW code
    PROVE  Keeps(r, Rejected(r, code))
BY DropKeeps, OthersKeep DEF Rejected

----------------------------------------------------------------------------
(* The tasks of the lock, and the chats they have.                         *)

\* A client whose task at the head is to be replaced.
Holding(r) == /\ Shaped(r) /\ Kept(r) /\ r.lock # <<>>
              /\ ~r.raced => r.transport # "opening"

Heeded(r) == ~r.raced /\ r.transport = "open"

\* What was heard, if the task at the head has these chats.
Within(r, chats) ==
    {r.shown} \cup Numbers(r.queue) \cup Numbers(chats) \cup Stored(Tail(r.lock))

Went(r, chats, s) ==
    /\ s.shown = r.shown /\ s.said = r.said /\ s.displays = r.displays
    /\ Orderly(s) /\ Heard(s) \subseteq Within(r, chats)

LEMMA FinishedWent ==
    ASSUME NEW r, Holding(r),
           Heeded(r) => /\ Chain(r.shown, r.queue, <<>>, Tail(r.lock))
                        /\ r.queue # <<>> => r.shared = {}
    PROVE  Went(r, <<>>, Finished(r))
<1> DEFINE s == Finished(r)
           l == Tail(r.lock)
<1>1. /\ s.shown = r.shown /\ s.said = r.said /\ s.displays = r.displays /\ s.queue = r.queue
      /\ s.lock = l /\ s.raced = r.raced /\ s.transport = r.transport
      /\ s.shared = r.shared /\ s.peerKey = r.peerKey
    BY DEF Finished, Holding, Shaped, Fields
<1> HIDE DEF s
<1>2. IsSeq(l) /\ Elements(l) \subseteq Elements(r.lock)
    BY Taken DEF Holding, Kept
<1>3. Kept(s)
    BY <1>1, <1>2 DEF Holding, Kept
<1>4. Heard(s) = Within(r, <<>>)
    BY <1>1, NoNumbers DEF Heard, Within
<1>5. ASSUME Heeded(r) PROVE InLine(s)
    <2>1. Chain(r.shown, r.queue, <<>>, l) /\ (r.queue # <<>> => r.shared = {})
        BY <1>5
    <2>2. CASE l = <<>>
        BY <1>1, <2>1, <2>2 DEF InLine
    <2>3. CASE l # <<>>
        <3>1. Chain(r.shown, r.queue, Head(l).chats, Tail(l)) /\ Head(l).pc = "start"
            BY <1>2, <2>1, <2>3, ChainNext
        <3>2. Stage(s, Head(l))
            BY <1>1, <2>1, <3>1 DEF Stage
        <3> QED BY <1>1, <2>3, <3>1, <3>2 DEF InLine
    <2> QED BY <2>2, <2>3
<1>6. Orderly(s)
    BY <1>1, <1>3, <1>5 DEF Orderly, Heeded, Holding
<1> QED BY <1>1, <1>4, <1>6 DEF s, Went

LEMMA AtWent ==
    ASSUME NEW r, Holding(r), NEW t, TaskKept(t),
           Heeded(r) => Chain(r.shown, r.queue, t.chats, Tail(r.lock)) /\ Stage(r, t)
    PROVE  Went(r, t.chats, At(r, t))
<1> DEFINE s == At(r, t)
           l == Tail(r.lock)
           u == <<t>> \o l
<1>1. /\ s.shown = r.shown /\ s.said = r.said /\ s.displays = r.displays /\ s.queue = r.queue
      /\ s.lock = u /\ s.raced = r.raced /\ s.transport = r.transport
      /\ s.shared = r.shared /\ s.peerKey = r.peerKey
    BY DEF At, Holding, Shaped, Fields
<1> HIDE DEF s
<1>2. /\ IsSeq(u) /\ u # <<>> /\ Head(u) = t /\ Tail(u) = l
      /\ Elements(u) = {t} \cup Elements(l)
    BY LockMoves DEF Holding, Kept
<1>3. IsSeq(l) /\ Elements(l) \subseteq Elements(r.lock)
    BY Taken DEF Holding, Kept
<1> HIDE DEF u, l
<1>4. Kept(s)
    BY <1>1, <1>2, <1>3 DEF Holding, Kept
<1>5. Stored(u) = Numbers(t.chats) \cup Stored(l)
    BY <1>2, StoredTaken
<1>6. Heard(s) = Within(r, t.chats)
    BY <1>1, <1>5 DEF Heard, Within, l
<1>7. ASSUME Heeded(r) PROVE InLine(s)
    <2>1. Chain(r.shown, r.queue, t.chats, l) /\ Stage(r, t)
        BY <1>7 DEF l
    <2>2. Stage(s, t)
        BY <1>1, <2>1 DEF Stage
    <2> QED BY <1>1, <1>2, <2>1, <2>2 DEF InLine
<1>8. Orderly(s)
    BY <1>1, <1>4, <1>7 DEF Orderly, Heeded, Holding
<1> QED BY <1>1, <1>6, <1>8 DEF s, Went

LEMMA DecryptWent ==
    ASSUME NEW r, Holding(r), NEW t, DOMAIN t = TaskFields, NEW chats, IsSeq(chats),
           Heeded(r) => /\ Chain(r.shown, r.queue, chats, Tail(r.lock))
                        /\ r.shared # {} => r.queue = <<>>
                        /\ t.kind # "send"
    PROVE  Went(r, chats, DecryptNext(r, t, chats))
<1> DEFINE q == [r EXCEPT !.queue = @ \o chats]
           u == [t EXCEPT !.pc = "decrypt", !.chats = chats, !.secret = r.shared]
<1>1. CASE chats = <<>>
    <2>1. DecryptNext(r, t, chats) = Finished(r)
        BY <1>1 DEF DecryptNext
    <2>2. Went(r, <<>>, Finished(r))
        BY <1>1, FinishedWent
    <2> QED BY <1>1, <2>1, <2>2
<1>2. CASE chats # <<>> /\ r.shared = {}
    <2>1. DecryptNext(r, t, chats) = Finished(q)
        BY <1>2 DEF DecryptNext
    <2>2. /\ q.shown = r.shown /\ q.said = r.said /\ q.displays = r.displays
          /\ q.queue = r.queue \o chats
          /\ q.lock = r.lock /\ q.raced = r.raced /\ q.transport = r.transport
          /\ q.shared = r.shared /\ Shaped(q)
        BY DEF Holding, Shaped, Fields
    <2> HIDE DEF q
    <2>3. IsSeq(r.queue \o chats) /\ Numbers(r.queue \o chats) = Numbers(r.queue) \cup Numbers(chats)
        BY Joined, NumbersJoined DEF Holding, Kept
    <2>4. Holding(q)
        BY <2>2, <2>3 DEF Holding, Kept
    <2>5. Heeded(q) => Chain(q.shown, q.queue, <<>>, Tail(q.lock))
        BY <2>2, ChainMoves DEF Heeded
    <2>6. Went(q, <<>>, Finished(q))
        BY <1>2, <2>2, <2>4, <2>5, FinishedWent
    <2>7. Within(q, <<>>) \subseteq Within(r, chats)
        BY <2>2, <2>3, NoNumbers DEF Within
    <2> QED BY <2>1, <2>2, <2>6, <2>7 DEF Went
<1>3. CASE chats # <<>> /\ r.shared # {}
    <2>1. DecryptNext(r, t, chats) = At(r, u)
        BY <1>3 DEF DecryptNext
    <2>2. DOMAIN u = TaskFields /\ u.kind = t.kind /\ u.pc = "decrypt" /\ u.chats = chats
        BY DEF TaskFields
    <2> HIDE DEF u
    <2>3. TaskKept(u)
        BY <1>3, <2>2 DEF TaskKept
    <2>4. Heeded(r) => Chain(r.shown, r.queue, u.chats, Tail(r.lock)) /\ Stage(r, u)
        BY <1>3, <2>2 DEF Stage
    <2> QED BY <2>1, <2>2, <2>3, <2>4, AtWent
<1> QED BY <1>1, <1>2, <1>3

LEMMA FlushWent ==
    ASSUME NEW r, Holding(r), NEW t, DOMAIN t = TaskFields,
           Heeded(r) => Chain(r.shown, r.queue, <<>>, Tail(r.lock)) /\ t.kind # "send"
    PROVE  Went(r, <<>>, FlushInboundQueue(r, t))
<1> DEFINE q == [r EXCEPT !.queue = <<>>]
<1>1. FlushInboundQueue(r, t) = DecryptNext(q, t, r.queue)
    BY DEF FlushInboundQueue
<1>2. /\ q.shown = r.shown /\ q.said = r.said /\ q.displays = r.displays /\ q.queue = <<>>
      /\ q.lock = r.lock /\ q.raced = r.raced /\ q.transport = r.transport /\ Shaped(q)
    BY DEF Holding, Shaped, Fields
<1> HIDE DEF q
<1>3. Holding(q) /\ IsSeq(r.queue)
    BY <1>2, Empty DEF Holding, Kept
<1>4. Heeded(q) => Chain(q.shown, q.queue, r.queue, Tail(q.lock)) /\ t.kind # "send"
    BY <1>2, ChainMoves DEF Heeded
<1>5. Went(q, r.queue, DecryptNext(q, t, r.queue))
    BY <1>2, <1>3, <1>4, DecryptWent
<1>6. Within(q, r.queue) \subseteq Within(r, <<>>)
    BY <1>2, NoNumbers DEF Within
<1> QED BY <1>1, <1>2, <1>5, <1>6 DEF Went

LEMMA ReadyWent ==
    ASSUME NEW r, Holding(r), NEW t, DOMAIN t = TaskFields, IsSeq(t.chats),
           Heeded(r) => Chain(r.shown, r.queue, t.chats, Tail(r.lock)) /\ t.kind # "send"
    PROVE  Went(r, t.chats, BecomeReady(r, t))
<1> DEFINE q == [r EXCEPT !.status = "ready"]
           u == [t EXCEPT !.pc = "print", !.my = r.localKey]
<1>1. /\ q.shown = r.shown /\ q.said = r.said /\ q.displays = r.displays /\ q.queue = r.queue
      /\ q.lock = r.lock /\ q.raced = r.raced /\ q.transport = r.transport
      /\ q.shared = r.shared /\ q.peerKey = r.peerKey /\ q.localKey = r.localKey /\ Shaped(q)
    BY DEF Holding, Shaped, Fields
<1>2. BecomeReady(r, t) = IF r.localKey # NoKey /\ r.peerKey # NoKey THEN At(q, u)
                          ELSE FlushInboundQueue(q, t)
    BY <1>1 DEF BecomeReady
<1> HIDE DEF q
<1>3. Holding(q) /\ (Heeded(q) <=> Heeded(r))
    BY <1>1 DEF Holding, Kept, Heeded
<1>4. \A chats : Within(q, chats) = Within(r, chats)
    BY <1>1 DEF Within
<1>5. CASE r.localKey # NoKey /\ r.peerKey # NoKey
    <2>1. DOMAIN u = TaskFields /\ u.kind = t.kind /\ u.pc = "print" /\ u.chats = t.chats
        BY DEF TaskFields
    <2> HIDE DEF u
    <2>2. TaskKept(u)
        BY <2>1 DEF TaskKept
    <2>3. Heeded(q) => Chain(q.shown, q.queue, u.chats, Tail(q.lock)) /\ Stage(q, u)
        BY <1>1, <1>3, <1>5, <2>1 DEF Stage
    <2>4. Went(q, u.chats, At(q, u))
        BY <1>3, <2>2, <2>3, AtWent
    <2> QED BY <1>1, <1>2, <1>4, <1>5, <2>1, <2>4 DEF Went
<1>6. CASE ~(r.localKey # NoKey /\ r.peerKey # NoKey)
    <2>1. Heeded(q) => Chain(q.shown, q.queue, <<>>, Tail(q.lock)) /\ t.kind # "send"
        BY <1>1, <1>3, ChainMoves
    <2>2. Went(q, <<>>, FlushInboundQueue(q, t))
        BY <1>3, <2>1, FlushWent
    <2>3. Within(q, <<>>) \subseteq Within(r, t.chats)
        BY <1>4, NoNumbers DEF Within
    <2>4. BecomeReady(r, t) = FlushInboundQueue(q, t)
        BY <1>2, <1>6
    <2> QED BY <1>1, <2>2, <2>3, <2>4 DEF Went
<1> QED BY <1>5, <1>6

----------------------------------------------------------------------------
(* The chats on their way to each client.                                  *)

Thins(s, t) == IsSeq(t) /\ OnTheWay(t) \subseteq OnTheWay(s) /\ (NetRising(s) => NetRising(t))

\* A step of the relay that brings nobody a chat.
Mutes(R, Q) == RelayShaped(Q) /\ \A c \in Clients : Thins(R.net[c], Q.net[c])

Lined(R) == RelayShaped(R) /\ R.wired \subseteq Sockets /\ \A c \in Clients : IsSeq(R.net[c])

LEMMA OKLined ==
    ASSUME NEW R, RelayOK(R)
    PROVE  Lined(R)
BY DEF RelayOK, LinesOK, LineOK, Lined

LEMMA ThinsNot ==
    ASSUME NEW s, IsSeq(s)
    PROVE  Thins(s, s) /\ Thins(s, <<>>)
BY NoNumbers DEF Thins

LEMMA MutesTwice ==
    ASSUME NEW R, NEW Q, NEW P, Mutes(R, Q), Mutes(Q, P)
    PROVE  Mutes(R, P)
BY DEF Mutes, Thins

LEMMA MutesLined ==
    ASSUME NEW R, NEW Q, Mutes(R, Q), Q.wired \subseteq Sockets
    PROVE  Lined(Q)
BY DEF Mutes, Thins, Lined

LEMMA WayAppended ==
    ASSUME NEW s, IsSeq(s), NEW f
    PROVE  LET t == Append(s, f) IN
           /\ IsSeq(t)
           /\ f.type # "chat" => Thins(s, t)
           /\ f.type = "chat" => /\ OnTheWay(t) = OnTheWay(s) \cup {Number(f.chat)}
                                 /\ (NetRising(s) /\ Below(OnTheWay(s), {Number(f.chat)}))
                                    => NetRising(t)
<1> DEFINE t == Append(s, f)
<1>1. /\ IsSeq(t) /\ Elements(t) = Elements(s) \cup {f}
      /\ Len(t) = Len(s) + 1 /\ Len(s) \in Nat
      /\ \A i \in 1..Len(s) : t[i] = s[i]
      /\ t[Len(s) + 1] = f
    BY Appended
<1> HIDE DEF t
<1>2. ASSUME f.type # "chat", NetRising(s) PROVE NetRising(t)
    <2>1. ASSUME NEW i \in 1..Len(t), NEW j \in 1..Len(t), i < j,
                 t[i].type = "chat", t[j].type = "chat"
          PROVE  Number(t[i].chat) < Number(t[j].chat)
        <3>1. i \in 1..Len(s) /\ j \in 1..Len(s) /\ t[i] = s[i] /\ t[j] = s[j]
            BY <1>1, <1>2, <2>1
        <3> QED BY <1>2, <2>1, <3>1 DEF NetRising
    <2> QED BY <2>1 DEF NetRising
<1>3. f.type # "chat" => OnTheWay(t) = OnTheWay(s)
    BY <1>1 DEF OnTheWay
<1>4. f.type = "chat" => OnTheWay(t) = OnTheWay(s) \cup {Number(f.chat)}
    BY <1>1 DEF OnTheWay
<1>5. ASSUME f.type = "chat", NetRising(s), Below(OnTheWay(s), {Number(f.chat)})
      PROVE  NetRising(t)
    <2>1. ASSUME NEW i \in 1..Len(t), NEW j \in 1..Len(t), i < j,
                 t[i].type = "chat", t[j].type = "chat"
          PROVE  Number(t[i].chat) < Number(t[j].chat)
        <3>1. i \in 1..Len(s) /\ t[i] = s[i]
            BY <1>1, <2>1
        <3>2. CASE j \in 1..Len(s)
            <4>1. t[j] = s[j]
                BY <1>1, <3>2
            <4> QED BY <1>5, <2>1, <3>1, <3>2, <4>1 DEF NetRising
        <3>3. CASE j = Len(s) + 1
            <4>1. s[i] \in Elements(s) /\ t[j] = f
                BY <1>1, <3>1, <3>3 DEF Elements
            <4>2. Number(s[i].chat) \in OnTheWay(s)
                BY <2>1, <3>1, <4>1 DEF OnTheWay
            <4> QED BY <1>5, <3>1, <4>1, <4>2 DEF Below
        <3> QED BY <1>1, <3>2, <3>3
    <2> QED BY <2>1 DEF NetRising
<1> QED BY <1>1, <1>2, <1>3, <1>4, <1>5 DEF t, Thins

LEMMA WayTaken ==
    ASSUME NEW s, IsSeq(s), s # <<>>
    PROVE  /\ Thins(s, Tail(s))
           /\ Head(s).type = "chat" =>
                /\ Number(Head(s).chat) \in OnTheWay(s)
                /\ NetRising(s) => Below({Number(Head(s).chat)}, OnTheWay(Tail(s)))
<1> DEFINE t == Tail(s)
<1>1. /\ IsSeq(t) /\ Elements(t) \subseteq Elements(s)
      /\ Len(t) = Len(s) - 1 /\ Len(s) \in Nat /\ Len(s) >= 1
      /\ \A i \in 1..Len(t) : t[i] = s[i + 1]
      /\ Head(s) = s[1] /\ Head(s) \in Elements(s)
    BY Taken
<1> HIDE DEF t
<1>2. OnTheWay(t) \subseteq OnTheWay(s)
    BY <1>1 DEF OnTheWay
<1>3. ASSUME NetRising(s) PROVE NetRising(t)
    <2>1. ASSUME NEW i \in 1..Len(t), NEW j \in 1..Len(t), i < j,
                 t[i].type = "chat", t[j].type = "chat"
          PROVE  Number(t[i].chat) < Number(t[j].chat)
        <3>1. i + 1 \in 1..Len(s) /\ j + 1 \in 1..Len(s) /\ i + 1 < j + 1
              /\ t[i] = s[i + 1] /\ t[j] = s[j + 1]
            BY <1>1, <2>1
        <3> QED BY <1>3, <2>1, <3>1 DEF NetRising
    <2> QED BY <2>1 DEF NetRising
<1>4. ASSUME Head(s).type = "chat", NetRising(s), NEW i \in 1..Len(t), t[i].type = "chat"
      PROVE  Number(Head(s).chat) < Number(t[i].chat)
    <2>1. i + 1 \in 1..Len(s) /\ 1 \in 1..Len(s) /\ 1 < i + 1 /\ t[i] = s[i + 1]
        BY <1>1
    <2> QED BY <1>1, <1>4, <2>1 DEF NetRising
<1>5. Head(s).type = "chat" => Number(Head(s).chat) \in OnTheWay(s)
    BY <1>1 DEF OnTheWay
<1>6. ASSUME Head(s).type = "chat", NetRising(s)
      PROVE  Below({Number(Head(s).chat)}, OnTheWay(t))
    BY <1>4, <1>6 DEF Below, OnTheWay, Elements
<1> QED BY <1>1, <1>2, <1>3, <1>5, <1>6 DEF t, Thins

\* A frame that is not a chat.
LEMMA DeliverMutes ==
    ASSUME NEW R, Lined(R), NEW K, NEW f, f.type # "chat"
    PROVE  Mutes(R, Deliver(R, K, f)) /\ Lined(Deliver(R, K, f))
<1> DEFINE Q == Deliver(R, K, f)
<1>1. /\ RelayShaped(Q) /\ Q.wired = R.wired
      /\ \A c \in Clients : Q.net[c] = Append(R.net[c], f) \/ Q.net[c] = R.net[c]
    <2>1. RelayShaped(R) /\ R.wired \subseteq Sockets
        BY DEF Lined
    <2>2. /\ RelayShaped(Q) /\ Q.wired = R.wired
          /\ \A c \in Clients : Q.net[c] = IF Socket(c) \in (K \cap R.wired) \ R.dying
                                          THEN Append(R.net[c], f) ELSE R.net[c]
        BY <2>1, DeliverIs
    <2> QED BY <2>2
<1> HIDE DEF Q
<1>2. \A c \in Clients : Thins(R.net[c], Q.net[c])
    BY <1>1, WayAppended, ThinsNot DEF Lined
<1> QED BY <1>1, <1>2, MutesLined DEF Q, Mutes, Lined

\* New entries in the tables, the lines as they were.
LEMMA TablesMute ==
    ASSUME NEW R, Lined(R), NEW Q, RelayShaped(Q), Q.net = R.net, Q.wired \subseteq Sockets
    PROVE  Mutes(R, Q) /\ Lined(Q)
BY ThinsNot DEF Mutes, Lined

LEMMA FaultMutes ==
    ASSUME NEW R, Lined(R)
    PROVE  Mutes(R, Fault(R)) /\ Lined(Fault(R))
<1> DEFINE Q == Fault(R)
<1>1. RelayShaped(Q) /\ Q.net = R.net /\ Q.wired = R.wired
    BY DEF Fault, Lined, RelayShaped, RelayFields
<1> HIDE DEF Q
<1> QED BY <1>1, TablesMute DEF Q, Lined

LEMMA MutesNot ==
    ASSUME NEW R, Lined(R)
    PROVE  Mutes(R, R)
BY ThinsNot DEF Mutes, Lined

LEMMA LinesAre ==
    /\ \A type : Frame(type).type = type
    /\ \A code : Failure(code).type = "ERROR" /\ Failure(code).type # "chat"
BY DEF Frame, Failure

LEMMA CreateMutes ==
    ASSUME NEW R, Lined(R), NEW k
    PROVE  Mutes(R, RelayCreate(R, k))
<1> DEFINE S == [R EXCEPT !.exists = TRUE, !.seats = {k}]
<1>1. RelayShaped(S) /\ S.net = R.net /\ S.wired = R.wired
    BY DEF Lined, RelayShaped, RelayFields
<1>2. \/ RelayCreate(R, k) = Deliver(R, {k}, Failure("SESSION_EXISTS"))
      \/ RelayCreate(R, k) = Deliver(S, {k}, Frame("SESSION_CREATED"))
    BY DEF RelayCreate
<1> HIDE DEF S
<1>3. Mutes(R, S) /\ Lined(S)
    BY <1>1, TablesMute DEF Lined
<1>4. /\ Mutes(R, Deliver(R, {k}, Failure("SESSION_EXISTS")))
      /\ Mutes(S, Deliver(S, {k}, Frame("SESSION_CREATED")))
    BY <1>3, DeliverMutes, LinesAre
<1> QED BY <1>2, <1>3, <1>4, MutesTwice

LEMMA TryJoinMutes ==
    ASSUME NEW R, Lined(R), NEW k
    PROVE  Mutes(R, TryJoin(R, k))
<1> DEFINE alive == R.seats \ R.dying
           S == [R EXCEPT !.seats = alive \cup {k}, !.pruned = @ \/ alive # R.seats]
<1>1. RelayShaped(S) /\ S.net = R.net /\ S.wired = R.wired
    <2> HIDE DEF alive
    <2> QED BY DEF Lined, RelayShaped, RelayFields
<1>2. \/ TryJoin(R, k) = Deliver(S, {k}, Frame("SESSION_CREATED"))
      \/ TryJoin(R, k) = Deliver(S, alive \cup {k}, Frame("PARTNER_JOINED"))
    BY DEF TryJoin
<1> HIDE DEF S
<1>3. Mutes(R, S) /\ Lined(S)
    BY <1>1, TablesMute DEF Lined
<1>4. /\ Mutes(S, Deliver(S, {k}, Frame("SESSION_CREATED")))
      /\ Mutes(S, Deliver(S, alive \cup {k}, Frame("PARTNER_JOINED")))
    BY <1>3, DeliverMutes, LinesAre
<1> QED BY <1>2, <1>3, <1>4, MutesTwice

LEMMA JoinMutes ==
    ASSUME NEW R, Lined(R), NEW k
    PROVE  Mutes(R, RelayJoin(R, k))
<1> DEFINE S == [R EXCEPT !.retries = @ \cup {k}]
<1>1. RelayShaped(S) /\ S.net = R.net /\ S.wired = R.wired
    BY DEF Lined, RelayShaped, RelayFields
<1>2. \/ RelayJoin(R, k) = Deliver(R, {k}, Failure("SESSION_NOT_FOUND"))
      \/ RelayJoin(R, k) = S
      \/ RelayJoin(R, k) = TryJoin(R, k)
    BY DEF RelayJoin
<1> HIDE DEF S
<1>3. Mutes(R, S)
    BY <1>1, TablesMute DEF Lined
<1>4. Mutes(R, Deliver(R, {k}, Failure("SESSION_NOT_FOUND")))
    BY DeliverMutes, LinesAre
<1> QED BY <1>2, <1>3, <1>4, TryJoinMutes

LEMMA ExpiredMutes ==
    ASSUME NEW R, Lined(R)
    PROVE  Mutes(R, Expired(R)) /\ Lined(Expired(R))
<1> DEFINE A == Deliver(R, R.seats, Frame("SESSION_EXPIRED"))
           B == Deliver(A, R.seats, Frame("close"))
           S == Fault(B)
           K == R.seats
           Q == [S EXCEPT !.exists = FALSE, !.seats = {}, !.dying = @ \cup K]
<1>1. Expired(R) = Q
    BY DEF Expired
<1>2. Mutes(R, A) /\ Lined(A)
    BY DeliverMutes, LinesAre
<1> HIDE DEF A
<1>3. Mutes(A, B) /\ Lined(B)
    BY <1>2, DeliverMutes, LinesAre
<1> HIDE DEF B
<1>4. Mutes(B, S) /\ Lined(S)
    BY <1>3, FaultMutes
<1> HIDE DEF S, K
<1>5. RelayShaped(Q) /\ Q.net = S.net /\ Q.wired = S.wired
    BY <1>4 DEF Lined, RelayShaped, RelayFields
<1> HIDE DEF Q
<1>6. Mutes(S, Q) /\ Lined(Q)
    BY <1>4, <1>5, TablesMute DEF Lined
<1>7. Mutes(R, B)
    BY <1>2, <1>3, MutesTwice
<1>8. Mutes(R, S)
    BY <1>4, <1>7, MutesTwice
<1>9. Mutes(R, Q)
    BY <1>6, <1>8, MutesTwice
<1> QED BY <1>1, <1>6, <1>9

LEMMA LimitedMutes ==
    ASSUME NEW R, Lined(R), NEW k, NEW Q \in Limited(R, k)
    PROVE  Mutes(R, Q)
<1> DEFINE S == Deliver(R, {k}, Failure("RATE_LIMITED"))
<1>1. Q = Fault(S)
    BY DEF Limited
<1>2. Mutes(R, S) /\ Lined(S)
    BY DeliverMutes, LinesAre
<1> HIDE DEF S
<1> QED BY <1>1, <1>2, FaultMutes, MutesTwice

LEMMA TooLateMutes ==
    ASSUME NEW R, Lined(R), NEW k, NEW Q \in TooLate(R, k)
    PROVE  Mutes(R, Q)
<1>1. Q = Deliver(Expired(R), {k}, Failure("SESSION_EXPIRED"))
    BY DEF TooLate
<1> QED BY <1>1, ExpiredMutes, DeliverMutes, LinesAre, MutesTwice

LEMMA AnswersMute ==
    ASSUME NEW R, Lined(R), NEW k, NEW Q \in CreateAnswers(R, k) \cup JoinAnswers(R, k)
    PROVE  Mutes(R, Q)
<1>1. Q \in {RelayCreate(R, k), RelayJoin(R, k)} \cup Limited(R, k) \cup TooLate(R, k)
    BY DEF CreateAnswers, JoinAnswers
<1> QED BY <1>1, CreateMutes, JoinMutes, LimitedMutes, TooLateMutes

LEMMA LeaveMutes ==
    ASSUME NEW R, Lined(R), NEW k
    PROVE  Mutes(R, RelayLeave(R, k)) /\ Lined(RelayLeave(R, k))
<1> DEFINE S == [R EXCEPT !.seats = @ \ {k}]
<1>1. RelayShaped(S) /\ S.net = R.net /\ S.wired = R.wired
    BY DEF Lined, RelayShaped, RelayFields
<1>2. \/ RelayLeave(R, k) = R
      \/ RelayLeave(R, k) = Deliver(S, R.seats \ {k}, Frame("PARTNER_LEFT"))
    BY DEF RelayLeave
<1> HIDE DEF S
<1>3. Mutes(R, S) /\ Lined(S)
    BY <1>1, TablesMute DEF Lined
<1>4. /\ Mutes(S, Deliver(S, R.seats \ {k}, Frame("PARTNER_LEFT")))
      /\ Lined(Deliver(S, R.seats \ {k}, Frame("PARTNER_LEFT")))
    BY <1>3, DeliverMutes, LinesAre
<1> QED BY <1>2, <1>3, <1>4, MutesTwice, MutesNot

\* A frame reaches the other end behind what is on its way, or nobody.
LEMMA SendCarries ==
    ASSUME NEW R, Lined(R), NEW c \in Clients, NEW f, NEW Q,
           Q \in RelaySend(R, Socket(c), f)
    PROVE  /\ RelayShaped(Q)
           /\ \A d \in Clients : \/ Thins(R.net[d], Q.net[d])
                                 \/ d # c /\ Q.net[d] = Append(R.net[d], f)
<1>1. Q = R \/ Q = Deliver(R, {Socket(c)}, Failure("NOT_IN_SESSION"))
      \/ Q = Deliver(R, R.seats \ {Socket(c)}, f)
      \/ Q = [Fault(Deliver(R, {Socket(c)}, Failure("RATE_LIMITED"))) EXCEPT
                !.refused = @ \/ f.type = "key"]
    BY DEF RelaySend
<1>2. CASE Q = R
    BY <1>2, MutesNot DEF Mutes, Lined
<1>3. CASE Q = Deliver(R, {Socket(c)}, Failure("NOT_IN_SESSION"))
    BY <1>3, DeliverMutes, LinesAre DEF Mutes
<1>4. CASE Q = Deliver(R, R.seats \ {Socket(c)}, f)
    <2>1. RelayShaped(R) /\ R.wired \subseteq Sockets
        BY DEF Lined
    <2>2. /\ RelayShaped(Q)
          /\ \A d \in Clients :
                Q.net[d] = IF Socket(d) \in ((R.seats \ {Socket(c)}) \cap R.wired) \ R.dying
                           THEN Append(R.net[d], f) ELSE R.net[d]
        BY <1>4, <2>1, DeliverIs
    <2>3. \A d \in Clients : Thins(R.net[d], R.net[d])
        BY ThinsNot DEF Lined
    <2> QED BY <2>2, <2>3
<1>5. CASE Q = [Fault(Deliver(R, {Socket(c)}, Failure("RATE_LIMITED"))) EXCEPT
                    !.refused = @ \/ f.type = "key"]
    <2> DEFINE S == Deliver(R, {Socket(c)}, Failure("RATE_LIMITED"))
               T == Fault(S)
    <2>1. Mutes(R, S) /\ Lined(S)
        BY DeliverMutes, LinesAre
    <2> HIDE DEF S
    <2>2. Mutes(S, T) /\ Lined(T)
        BY <2>1, FaultMutes
    <2>3. Q = [T EXCEPT !.refused = @ \/ f.type = "key"]
        BY <1>5 DEF S
    <2> HIDE DEF T
    <2>4. RelayShaped(Q) /\ Q.net = T.net
        BY <2>2, <2>3 DEF Lined, RelayShaped, RelayFields
    <2> QED BY <2>1, <2>2, <2>4, MutesTwice DEF Mutes
<1> QED BY <1>1, <1>2, <1>3, <1>4, <1>5

LEMMA HangUpMutes ==
    ASSUME NEW R, RelayOK(R), NEW c \in Clients
    PROVE  Mutes(R, HangUp(R, Socket(c)))
<1> DEFINE Q == HangUp(R, Socket(c))
<1>1. /\ RelayOK(Q) /\ Q.net[c] = <<>> /\ \A d \in Clients \ {c} : Q.net[d] = R.net[d]
    BY HangUpIs
<1> HIDE DEF Q
<1>2. \A d \in Clients : Thins(R.net[d], R.net[d]) /\ Thins(R.net[d], <<>>)
    BY OKLined, ThinsNot DEF Lined
<1> QED BY <1>1, <1>2 DEF Q, Mutes, RelayOK

LEMMA ConsumedMutes ==
    ASSUME RelayOK(relay), NEW c \in Clients, relay.net[c] # <<>>
    PROVE  /\ Mutes(relay, Consumed(c)) /\ Consumed(c).net[c] = Tail(relay.net[c])
           /\ \A d \in Clients \ {c} : Consumed(c).net[d] = relay.net[d]
<1> DEFINE net == [relay.net EXCEPT ![c] = Tail(@)]
           Q == [relay EXCEPT !.net = net]
<1>1. /\ DOMAIN net = Clients
      /\ net[c] = Tail(relay.net[c]) /\ \A d \in Clients \ {c} : net[d] = relay.net[d]
    BY DEF RelayOK, RelayShaped
<1>2. Consumed(c) = Q
    BY DEF Consumed
<1> HIDE DEF net
<1>3. RelayShaped(Q) /\ Q.net = net
    BY <1>1 DEF RelayOK, RelayShaped, RelayFields
<1> HIDE DEF Q
<1>4. \A d \in Clients : Thins(relay.net[d], net[d])
    BY <1>1, OKLined, ThinsNot, WayTaken DEF Lined
<1> QED BY <1>1, <1>2, <1>3, <1>4 DEF Mutes

LEMMA HangsUpMutes ==
    ASSUME NEW R, Lined(R), NEW Q, RelayOK(Q), Mutes(R, Q), NEW c \in Clients, NEW s
    PROVE  Mutes(R, HangsUpIf(c, s, Q)) /\ Lined(HangsUpIf(c, s, Q))
<1>1. RelayOK(HangUp(Q, Socket(c))) /\ Mutes(Q, HangUp(Q, Socket(c)))
    BY HangUpIs, HangUpMutes
<1> QED BY <1>1, OKLined, MutesTwice DEF HangsUpIf

LEMMA RelayStepMutes ==
    ASSUME RelayOK(relay), RelayStep
    PROVE  Mutes(relay, relay')
<1>1. Lined(relay)
    BY OKLined
<1>2. ASSUME NEW k, SocketDies(k) PROVE Mutes(relay, relay')
    <2> DEFINE Q == [relay EXCEPT !.dying = @ \cup {k}]
    <2>1. RelayShaped(Q) /\ Q.net = relay.net /\ Q.wired = relay.wired
        BY <1>1 DEF Lined, RelayShaped, RelayFields
    <2>2. relay' = Q
        BY <1>2 DEF SocketDies
    <2> HIDE DEF Q
    <2> QED BY <1>1, <2>1, <2>2, TablesMute DEF Lined
<1>3. ASSUME NEW k, CloseEvent(k) PROVE Mutes(relay, relay')
    <2> DEFINE S == RelayLeave(relay, k)
               Q == [S EXCEPT !.ended = @ \cup {k}]
    <2>1. relay' = Q
        BY <1>3 DEF CloseEvent
    <2>2. Mutes(relay, S) /\ Lined(S)
        BY <1>1, LeaveMutes
    <2> HIDE DEF S
    <2>3. RelayShaped(Q) /\ Q.net = S.net /\ Q.wired = S.wired
        BY <2>2 DEF Lined, RelayShaped, RelayFields
    <2> HIDE DEF Q
    <2>4. Mutes(S, Q)
        BY <2>2, <2>3, TablesMute DEF Lined
    <2> QED BY <2>1, <2>2, <2>4, MutesTwice
<1>4. ASSUME NEW k, JoinRetryFires(k) PROVE Mutes(relay, relay')
    <2> DEFINE R == [relay EXCEPT !.retries = @ \ {k}]
    <2>1. RelayShaped(R) /\ R.net = relay.net /\ R.wired = relay.wired
        BY <1>1 DEF Lined, RelayShaped, RelayFields
    <2>2. \/ relay' = R \/ relay' = Deliver(R, {k}, Failure("SESSION_NOT_FOUND"))
          \/ relay' = Deliver(R, {k}, Failure("SESSION_FULL")) \/ relay' = TryJoin(R, k)
          \/ relay' \in TooLate(R, k)
        BY <1>4 DEF JoinRetryFires
    <2> HIDE DEF R
    <2>3. Mutes(relay, R) /\ Lined(R)
        BY <1>1, <2>1, TablesMute DEF Lined
    <2>4. Mutes(R, relay')
        BY <2>2, <2>3, MutesNot, DeliverMutes, TryJoinMutes, TooLateMutes, LinesAre
    <2> QED BY <2>3, <2>4, MutesTwice
<1>5. ASSUME GraceEnds PROVE Mutes(relay, relay')
    <2> DEFINE Q == [relay EXCEPT !.exists = FALSE]
    <2>1. RelayShaped(Q) /\ Q.net = relay.net /\ Q.wired = relay.wired
        BY <1>1 DEF Lined, RelayShaped, RelayFields
    <2>2. relay' = Q
        BY <1>5 DEF GraceEnds
    <2> HIDE DEF Q
    <2> QED BY <1>1, <2>1, <2>2, TablesMute DEF Lined
<1>6. ASSUME Expire PROVE Mutes(relay, relay')
    BY <1>1, <1>6, ExpiredMutes DEF Expire
<1> QED BY <1>2, <1>3, <1>4, <1>5, <1>6 DEF RelayStep

----------------------------------------------------------------------------
(* The order of the chats, through every step.                             *)

LEMMA StillPasses ==
    ASSUME NEW r, NEW s, NEW q, Passes(r, s, q),
           NEW r2, Heard(r2) \subseteq Heard(r), NEW s2, Thins(s, s2),
           NEW q2, q2.said = q.said
    PROVE  Passes(r2, s2, q2)
<1>1. OnTheWay(s2) \subseteq OnTheWay(s) /\ NetRising(s2)
    BY DEF Thins, Passes
<1> QED BY <1>1 DEF Passes, Below

\* What a client shows comes after what it has shown.
Forward(r, s) ==
    s.displays # r.displays /\ ~r.raced /\ r.transport = "open" => s.shown > r.shown

OrderedStep == OrderInv' /\ \A c \in Clients : Forward(client[c], client'[c])

\* One client moves, and nobody has heard more than before.
Carries(r, s) == s.said = r.said /\ Orderly(s) /\ Heard(s) \subseteq Heard(r)

LEMMA OneMoves ==
    ASSUME OrderInv, SeatInv', NEW c \in Clients, NEW s, Becomes(c, s),
           Carries(client[c], s), Forward(client[c], s), Mutes(relay, relay')
    PROVE  OrderedStep
<1>1. /\ client'[c] = s /\ \A d \in Clients \ {c} : client'[d] = client[d]
    BY DEF Becomes, OrderInv, SeatInv, ClientsOK
<1>2. \A d \in Clients : Orderly(client'[d])
    BY <1>1 DEF OrderInv, Carries
<1>3. \A d \in Clients : /\ Heard(client'[d]) \subseteq Heard(client[d])
                         /\ client'[d].said = client[d].said
    BY <1>1 DEF Carries
<1>4. ASSUME NEW d \in Clients, NEW e \in Clients, d # e
      PROVE  Passes(client'[d], relay'.net[d], client'[e])
    <2>1. Passes(client[d], relay.net[d], client[e]) /\ Thins(relay.net[d], relay'.net[d])
        BY <1>4 DEF OrderInv, Mutes
    <2> QED BY <1>3, <2>1, StillPasses
<1>5. (\A d \in Clients : Orderly(client[d]))'
    BY <1>2
<1>6. (\A d, e \in Clients : d # e => Passes(client[d], relay.net[d], client[e]))'
    <2>1. \A d, e \in Clients : d # e => Passes(client'[d], relay'.net[d], client'[e])
        BY <1>4
    <2> QED BY <2>1
<1>7. \A d \in Clients : Forward(client[d], client'[d])
    BY <1>1 DEF Forward
<1> QED BY <1>5, <1>6, <1>7 DEF OrderInv, OrderedStep

LEMMA StillOrdered ==
    ASSUME OrderInv, SeatInv', NEW c \in Clients, NEW s, Becomes(c, s), Keeps(client[c], s),
           Mutes(relay, relay')
    PROVE  OrderedStep
BY OneMoves DEF Keeps, Carries, Forward

LEMMA NobodyMoves ==
    ASSUME OrderInv, SeatInv', UNCHANGED client, Mutes(relay, relay')
    PROVE  OrderedStep
<1>1. \A d \in Clients : Orderly(client'[d])
    BY DEF OrderInv
<1>2. ASSUME NEW d \in Clients, NEW e \in Clients, d # e
      PROVE  Passes(client'[d], relay'.net[d], client'[e])
    <2>1. Passes(client[d], relay.net[d], client[e]) /\ Thins(relay.net[d], relay'.net[d])
        BY <1>2 DEF OrderInv, Mutes
    <2> QED BY <2>1, StillPasses
<1>3. (\A d, e \in Clients : d # e => Passes(client[d], relay.net[d], client[e]))'
    <2>1. \A d, e \in Clients : d # e => Passes(client'[d], relay'.net[d], client'[e])
        BY <1>2
    <2> QED BY <2>1
<1>4. (\A d \in Clients : Orderly(client[d]))'
    BY <1>1
<1>5. \A d \in Clients : Forward(client[d], client'[d])
    BY DEF Forward
<1> QED BY <1>3, <1>4, <1>5 DEF OrderInv, OrderedStep

\* What a step may take for granted.
LEMMA OrderIs ==
    ASSUME OrderInv, NEW c \in Clients
    PROVE  /\ SeatInv /\ Shaped(client[c]) /\ ClientOK(client[c]) /\ Orderly(client[c])
           /\ RelayOK(relay) /\ Lined(relay)
BY ClientIs, OKLined DEF OrderInv, Fine

LEMMA OpenOrdered ==
    ASSUME OrderInv, SeatInv', NEW c \in Clients, Open(c)
    PROVE  OrderedStep
<1> DEFINE r == client[c]
           s == [NewClient EXCEPT
                    !.status = "connecting", !.transport = "opening",
                    !.call = "dial", !.opening = TRUE,
                    !.asked = IF c = Host THEN "create" ELSE "join",
                    !.conn = r.conn, !.made = r.made, !.said = r.said, !.shown = r.shown,
                    !.displays = r.displays]
<1>1. Becomes(c, s) /\ relay' = relay
    BY DEF Open
<1>2. /\ s.queue = <<>> /\ s.lock = <<>> /\ s.raced = FALSE
      /\ s.shown = r.shown /\ s.said = r.said /\ s.displays = r.displays
    BY DEF NewClient
<1> HIDE DEF s
<1>3. Keeps(r, s)
    BY <1>2, OrderIs, EmptiedKeeps
<1> QED BY <1>1, <1>3, OrderIs, MutesNot, StillOrdered

LEMMA ReconnectOrdered ==
    ASSUME OrderInv, SeatInv', NEW c \in Clients, Reconnect(c)
    PROVE  OrderedStep
<1> DEFINE r == client[c]
           q == ResetCryptoState(r)
           s == [q EXCEPT !.status = "connecting", !.transport = "opening",
                          !.call = "dial", !.opening = FALSE, !.asked = "join"]
<1>1. Becomes(c, s) /\ relay' = HangUp(relay, Socket(c))
    BY DEF Reconnect
<1>2. /\ Shaped(q) /\ q.shown = r.shown /\ q.said = r.said /\ q.displays = r.displays
      /\ q.queue = <<>> /\ q.lock = r.lock /\ q.raced = (r.raced \/ r.lock # <<>>)
      /\ q.raced \in BOOLEAN
    BY OrderIs, ResetChats
<1> HIDE DEF q
<1>3. /\ s.shown = q.shown /\ s.said = q.said /\ s.displays = q.displays
      /\ s.queue = q.queue /\ s.lock = q.lock /\ s.raced = q.raced
    BY <1>2 DEF Shaped, Fields
<1> HIDE DEF s
<1>4. Keeps(r, s)
    BY <1>2, <1>3, OrderIs, EmptiedKeeps
<1> QED BY <1>1, <1>4, OrderIs, HangUpMutes, StillOrdered

LEMMA AttemptOrdered ==
    ASSUME OrderInv, SeatInv', NEW c \in Clients, AttemptFails(c)
    PROVE  OrderedStep
<1> DEFINE r == client[c]
           q == ResetCryptoState(r)
           s == [q EXCEPT !.status = "disconnected"]
<1>1. Becomes(c, s) /\ relay' = Fault(relay)
    BY DEF AttemptFails
<1>2. /\ Shaped(q) /\ q.shown = r.shown /\ q.said = r.said /\ q.displays = r.displays
      /\ q.queue = <<>> /\ q.lock = r.lock /\ q.raced = (r.raced \/ r.lock # <<>>)
      /\ q.raced \in BOOLEAN
    BY OrderIs, ResetChats
<1> HIDE DEF q
<1>3. /\ s.shown = q.shown /\ s.said = q.said /\ s.displays = q.displays
      /\ s.queue = q.queue /\ s.lock = q.lock /\ s.raced = q.raced
    BY <1>2 DEF Shaped, Fields
<1> HIDE DEF s
<1>4. Keeps(r, s)
    BY <1>2, <1>3, OrderIs, EmptiedKeeps
<1> QED BY <1>1, <1>4, OrderIs, FaultMutes, StillOrdered

LEMMA ConnectFailsOrdered ==
    ASSUME OrderInv, SeatInv', NEW c \in Clients, ConnectFails(c)
    PROVE  OrderedStep
<1> DEFINE r == client[c]
           q == [r EXCEPT !.status = "error", !.transport = "closed"]
           s == IF q.opening THEN Drop(q) ELSE [q EXCEPT !.call = "idle"]
<1>1. Becomes(c, s) /\ relay' = Fault(relay)
    BY DEF ConnectFails
<1>2. Shaped(q) /\ SameChats(r, q) /\ q.transport = "closed"
    BY OrderIs DEF SameChats, Shaped, Fields
<1> HIDE DEF q
<1>3. Keeps(r, q)
    BY <1>2, OrderIs, ShutKeeps
<1>4. Keeps(q, s)
    BY <1>2, <1>3, DropKeeps, OthersKeep DEF Keeps
<1> HIDE DEF s
<1> QED BY <1>1, <1>3, <1>4, KeepsTwice, OrderIs, FaultMutes, StillOrdered

\* An end that has not been overtaken starts a connection with nothing kept.
LEMMA ConnectedOrdered ==
    ASSUME OrderInv, SeatInv', NEW c \in Clients, Connected(c)
    PROVE  OrderedStep
<1> DEFINE r == client[c]
           s == [r EXCEPT
                    !.conn = @ + 1, !.transport = "open", !.status = "connected",
                    !.call = "keygen", !.named = TRUE,
                    !.isHost = (r.asked = "create") \/ (~r.opening /\ @)]
           Q == [relay EXCEPT !.wired = @ \cup {<<c, r.conn + 1>>}]
<1>1. Becomes(c, s) /\ relay' = Q /\ r.call = "dial"
    BY DEF Connected
<1>2. SameChats(r, s) /\ s.raced = r.raced /\ s.raced \in BOOLEAN
    BY OrderIs DEF SameChats, Shaped, Fields
<1>3. RelayShaped(Q) /\ Q.net = relay.net
    BY OrderIs DEF RelayOK, RelayShaped, RelayFields
<1> HIDE DEF s, Q
<1>4. Mutes(relay, relay')
    BY <1>1, <1>3, OrderIs, ThinsNot DEF Mutes, Lined
<1>5. ~r.raced => r.queue = <<>> /\ r.lock = <<>>
    BY <1>1, OrderIs DEF ClientOK, Orderly
<1>6. Keeps(r, s)
    <2>1. CASE r.raced = TRUE
        BY <1>2, <2>1, OrderIs, ShutKeeps
    <2>2. CASE r.raced = FALSE
        BY <1>2, <1>5, <2>2, OrderIs, EmptiedKeeps DEF SameChats
    <2> QED BY <1>2, <2>1, <2>2
<1> QED BY <1>1, <1>4, <1>6, StillOrdered

LEMMA KeyGeneratedOrdered ==
    ASSUME OrderInv, SeatInv', NEW c \in Clients, NEW r, NEW handled,
           KeyGenerated(c, r, handled), Shaped(r), Keeps(client[c], r),
           \A Q \in handled : Mutes(relay, Q)
    PROVE  OrderedStep
<1> DEFINE s == [r EXCEPT !.call = "request"]
           p == IF r.opening THEN Drop(r) ELSE [r EXCEPT !.call = "idle"]
<1>1. Keeps(r, s) /\ Keeps(r, p)
    BY DropKeeps, OthersKeep DEF Keeps
<1>2. (Becomes(c, s) \/ Becomes(c, p)) /\ (relay' \in handled \/ relay' = relay)
    BY DEF KeyGenerated
<1> HIDE DEF s, p
<1>3. Keeps(client[c], s) /\ Keeps(client[c], p)
    BY <1>1, KeepsTwice
<1>4. Mutes(relay, relay')
    BY <1>2, OrderIs, MutesNot
<1> QED BY <1>2, <1>3, <1>4, StillOrdered

LEMMA RequestOrdered ==
    ASSUME OrderInv, SeatInv', NEW c \in Clients, CreateSession(c) \/ JoinSession(c)
    PROVE  OrderedStep
<1> DEFINE r == client[c]
           q == [r EXCEPT !.made = @ + 1, !.keyPair = <<c, r.made + 1>>]
           s == [q EXCEPT !.received = FALSE, !.sent = FALSE, !.shared = {}]
<1>1. NewKeyPair(c) = q
    BY DEF NewKeyPair
<1>2. /\ Shaped(q) /\ SameChats(r, q) /\ q.raced = r.raced /\ q.transport = r.transport
      /\ q.shared = r.shared /\ q.peerKey = r.peerKey
    BY OrderIs DEF SameChats, Shaped, Fields
<1> HIDE DEF q
<1>3. /\ Shaped(s) /\ SameChats(r, s) /\ s.raced = r.raced /\ s.transport = r.transport
      /\ s.shared = {} /\ s.peerKey = r.peerKey
    BY <1>2 DEF SameChats, Shaped, Fields
<1>4. Keeps(r, q) /\ Keeps(r, s)
    <2> HIDE DEF s
    <2>1. Keeps(r, q)
        BY <1>2, OrderIs, SameKeeps
    <2>2. Keeps(r, s)
        BY <1>3, OrderIs, SameKeeps
    <2> QED BY <2>1, <2>2
<1>5. CASE CreateSession(c)
    <2>1. KeyGenerated(c, q, CreateAnswers(relay, Socket(c)))
        BY <1>1, <1>5 DEF CreateSession
    <2> QED BY <1>2, <1>4, <2>1, OrderIs, AnswersMute, KeyGeneratedOrdered
<1>6. CASE JoinSession(c)
    <2>1. KeyGenerated(c, s, JoinAnswers(relay, Socket(c)))
        BY <1>1, <1>6 DEF JoinSession
    <2> HIDE DEF s
    <2> QED BY <1>3, <1>4, <2>1, OrderIs, AnswersMute, KeyGeneratedOrdered
<1> QED BY <1>5, <1>6

LEMMA TimesOutOrdered ==
    ASSUME OrderInv, SeatInv', NEW c \in Clients, RequestTimesOut(c)
    PROVE  OrderedStep
<1> DEFINE s == Rejected(client[c], "TIMEOUT")
           Q == HangsUpIf(c, s, relay)
<1>1. Becomes(c, s) /\ relay' = Fault(Q)
    BY DEF RequestTimesOut
<1>2. Keeps(client[c], s)
    BY OrderIs, RejectedKeeps
<1> HIDE DEF s
<1>3. Mutes(relay, Q) /\ Lined(Q)
    BY OrderIs, MutesNot, HangsUpMutes
<1> HIDE DEF Q
<1>4. Mutes(relay, relay')
    BY <1>1, <1>3, FaultMutes, MutesTwice
<1> QED BY <1>1, <1>2, <1>4, StillOrdered

LEMMA SealedNumber ==
    ASSUME NEW c, NEW n, NEW key
    PROVE  Number(Encrypt([from |-> c, n |-> n], key)) = n
<1> DEFINE p == [from |-> c, n |-> n]
           e == Encrypt(p, key)
<1>1. e = [base64 |-> <<"iv", [sealed |-> p, with |-> key]>>]
    BY DEF Encrypt, ToBase64
<1>2. e.base64[2].sealed = p
    BY <1>1
<1> QED BY <1>2 DEF Number, Decrypt, FromBase64

\* What is being sealed has no number yet.
LEMMA SayOrdered ==
    ASSUME OrderInv, SeatInv', NEW c \in Clients, Say(c)
    PROVE  OrderedStep
<1> DEFINE r == client[c]
           s == [r EXCEPT !.sealing = Append(@, r.shared)]
<1>1. Becomes(c, s) /\ relay' = relay
    BY DEF Say
<1>2. SameChats(r, s) /\ s.raced = r.raced /\ s.transport = r.transport
      /\ s.shared = r.shared /\ s.peerKey = r.peerKey
    BY OrderIs DEF SameChats, Shaped, Fields
<1> HIDE DEF s
<1> QED BY <1>1, <1>2, OrderIs, SameKeeps, MutesNot, StillOrdered

\* A chat that is sent has a number above all that went before, and goes to the
\* other end behind those that are on their way to it.
LEMMA SealedOrdered ==
    ASSUME OrderInv, SeatInv', NEW c \in Clients, Seals(c)
    PROVE  OrderedStep
<1> PICK i : Sealed(c, i)
    BY DEF Seals
<1> DEFINE r == client[c]
           e == Encrypt([from |-> c, n |-> r.said + 1], r.sealing[i])
           s == [r EXCEPT !.said = @ + 1, !.sealing = Without(@, i)]
           f == [type |-> "chat", chat |-> e]
<1>1. Becomes(c, s) /\ (relay' = relay \/ relay' \in RelaySend(relay, Socket(c), f))
    BY DEF Sealed
<1>2. f.type = "chat" /\ f.chat = e /\ Number(e) = r.said + 1
    BY SealedNumber
<1> HIDE DEF e, f
<1>3. /\ s.said = r.said + 1 /\ s.displays = r.displays
      /\ s.shown = r.shown /\ s.queue = r.queue /\ s.lock = r.lock /\ s.raced = r.raced
      /\ s.transport = r.transport /\ s.shared = r.shared /\ s.peerKey = r.peerKey
    BY OrderIs DEF Shaped, Fields
<1> HIDE DEF s
<1>4. Orderly(s) /\ Heard(s) = Heard(r)
    <2>1. Orderly(r)
        BY OrderIs
    <2>2. Kept(s) /\ Heard(s) = Heard(r)
        BY <1>3, <2>1 DEF Orderly, Kept, Heard
    <2>3. InLine(r) => InLine(s)
        BY <1>3 DEF InLine, Stage
    <2> QED BY <1>3, <2>1, <2>2, <2>3 DEF Orderly
<1>5. /\ client'[c] = s /\ \A d \in Clients \ {c} : client'[d] = client[d]
    BY <1>1 DEF Becomes, OrderInv, SeatInv, ClientsOK
<1>6. (\A d \in Clients : Orderly(client[d]))'
    BY <1>4, <1>5 DEF OrderInv
<1>7. \A d \in Clients : \/ Thins(relay.net[d], relay'.net[d])
                         \/ d # c /\ relay'.net[d] = Append(relay.net[d], f)
    BY <1>1, <1>2, OrderIs, SendCarries, MutesNot DEF Mutes
<1>8. ASSUME NEW d \in Clients, NEW b \in Clients, d # b
      PROVE  Passes(client'[d], relay'.net[d], client'[b])
    <2>1. Passes(client[d], relay.net[d], client[b])
        BY <1>8 DEF OrderInv
    <2>2. Heard(client'[d]) = Heard(client[d])
        BY <1>4, <1>5
    <2>3. client[b].said \in Nat /\ client'[b].said \in {client[b].said, client[b].said + 1}
        BY <1>3, <1>5, <2>1 DEF Passes
    <2>4. CASE Thins(relay.net[d], relay'.net[d])
        <3>1. OnTheWay(relay'.net[d]) \subseteq OnTheWay(relay.net[d])
              /\ NetRising(relay'.net[d])
            BY <2>1, <2>4 DEF Thins, Passes
        <3>2. 0..client[b].said \subseteq 0..client'[b].said /\ client'[b].said \in Nat
            BY <2>3
        <3> QED BY <2>1, <2>2, <3>1, <3>2 DEF Passes, Below
    <2>5. CASE d # c /\ relay'.net[d] = Append(relay.net[d], f)
        <3>1. client[b] = r /\ client'[b] = s
            BY <1>5, <1>8, <2>5, EndsAssumption
        <3>2. /\ r.said \in Nat /\ s.said = r.said + 1
              /\ Heard(client[d]) \cup OnTheWay(relay.net[d]) \subseteq 0..r.said
            BY <1>3, <2>1, <3>1 DEF Passes
        <3>3. Below(OnTheWay(relay.net[d]), {r.said + 1})
              /\ Below(Heard(client[d]), {r.said + 1})
            BY <3>2 DEF Below
        <3>4. IsSeq(relay.net[d])
            BY OrderIs DEF Lined
        <3>5. /\ OnTheWay(relay'.net[d]) = OnTheWay(relay.net[d]) \cup {r.said + 1}
              /\ NetRising(relay'.net[d])
            BY <1>2, <2>1, <2>5, <3>3, <3>4, WayAppended DEF Passes
        <3>6. Heard(client[d]) \cup OnTheWay(relay'.net[d]) \subseteq 0..s.said /\ s.said \in Nat
            BY <3>2, <3>5
        <3>7. Below(Heard(client[d]), OnTheWay(relay'.net[d]))
            BY <2>1, <3>3, <3>5 DEF Passes, Below
        <3> QED BY <2>2, <3>1, <3>5, <3>6, <3>7 DEF Passes
    <2> QED BY <1>7, <2>4, <2>5
<1>9. (\A d, b \in Clients : d # b => Passes(client[d], relay.net[d], client[b]))'
    <2>1. \A d, b \in Clients : d # b => Passes(client'[d], relay'.net[d], client'[b])
        BY <1>8
    <2> QED BY <2>1
<1>10. \A d \in Clients : Forward(client[d], client'[d])
    BY <1>3, <1>5 DEF Forward
<1> QED BY <1>6, <1>9, <1>10 DEF OrderInv, OrderedStep

LEMMA LeaveOrdered ==
    ASSUME OrderInv, SeatInv', NEW c \in Clients, LeaveSession(c)
    PROVE  OrderedStep
<1> DEFINE s == Drop(client[c])
           S == RelayLeave(relay, Socket(c))
           Q == HangUp(S, Socket(c))
           P == HangUp(relay, Socket(c))
<1>1. Becomes(c, s) /\ (relay' = Fault(Q) \/ relay' = Fault(P))
    BY DEF LeaveSession
<1>2. Keeps(client[c], s)
    BY OrderIs, DropKeeps
<1>3. RelayOK(relay) /\ RelayOK(S)
    BY OrderIs, LeaveServes DEF Served
<1>4. Mutes(relay, S) /\ Mutes(S, Q) /\ RelayOK(Q)
    <2>1. Mutes(relay, S)
        BY OrderIs, LeaveMutes
    <2> HIDE DEF S
    <2> QED BY <1>3, <2>1, HangUpMutes, HangUpIs
<1>5. Mutes(relay, P) /\ RelayOK(P)
    BY <1>3, HangUpMutes, HangUpIs
<1> HIDE DEF s, S, P, Q
<1>6. Mutes(relay, Q) /\ Lined(Q) /\ Lined(P)
    BY <1>4, <1>5, MutesTwice, OKLined
<1>7. Mutes(relay, relay')
    BY <1>1, <1>5, <1>6, FaultMutes, MutesTwice
<1> QED BY <1>1, <1>2, <1>7, StillOrdered

----------------------------------------------------------------------------
(* Frames and events of the socket.                                        *)

LEMMA CreatedOrdered ==
    ASSUME OrderInv, SeatInv', NEW c \in Clients, OnSessionCreated(c)
    PROVE  OrderedStep
<1> DEFINE r == client[c]
           q == Resolved(r, {"create", "join"})
           s == [q EXCEPT !.named = TRUE, !.isHost = TRUE, !.status = "awaiting_partner"]
<1>1. Becomes(c, s) /\ relay' = Consumed(c) /\ relay.net[c] # <<>>
    BY DEF OnSessionCreated, Hears
<1>2. /\ Shaped(q) /\ SameChats(r, q) /\ q.raced = r.raced /\ q.transport = r.transport
      /\ q.shared = r.shared /\ q.peerKey = r.peerKey
    BY OrderIs DEF Resolved, SameChats, Shaped, Fields
<1> HIDE DEF q
<1>3. /\ SameChats(q, s) /\ s.raced = q.raced /\ s.transport = q.transport
      /\ s.shared = q.shared /\ s.peerKey = q.peerKey
    BY <1>2 DEF SameChats, Shaped, Fields
<1> HIDE DEF s
<1>4. Keeps(r, q)
    BY <1>2, OrderIs, SameKeeps
<1>5. Keeps(q, s)
    BY <1>3, <1>4, SameKeeps DEF Keeps
<1> QED BY <1>1, <1>4, <1>5, KeepsTwice, OrderIs, ConsumedMutes, StillOrdered

LEMMA LeftOrdered ==
    ASSUME OrderInv, SeatInv', NEW c \in Clients, OnPartnerLeft(c)
    PROVE  OrderedStep
<1> DEFINE r == client[c]
           s == [r EXCEPT
            !.shared = {}, !.received = FALSE, !.sent = FALSE, !.queue = <<>>,
            !.partner = FALSE, !.status = "awaiting_partner", !.raced = @ \/ r.lock # <<>>]
<1>1. Becomes(c, s) /\ relay' = Consumed(c) /\ relay.net[c] # <<>>
    BY DEF OnPartnerLeft, Hears
<1>2. /\ s.shown = r.shown /\ s.said = r.said /\ s.displays = r.displays
      /\ s.queue = <<>> /\ s.lock = r.lock /\ s.raced = (r.raced \/ r.lock # <<>>)
      /\ s.raced \in BOOLEAN
    BY OrderIs DEF Shaped, Fields
<1> HIDE DEF s
<1>3. Keeps(r, s)
    BY <1>2, OrderIs, EmptiedKeeps
<1> QED BY <1>1, <1>3, OrderIs, ConsumedMutes, StillOrdered

LEMMA ExpiredOrdered ==
    ASSUME OrderInv, SeatInv', NEW c \in Clients, OnSessionExpired(c)
    PROVE  OrderedStep
<1> DEFINE r == client[c]
           q == ResetCryptoState(r)
           s == [q EXCEPT !.status = "expired"]
<1>1. Becomes(c, s) /\ relay' = Consumed(c) /\ relay.net[c] # <<>>
    BY DEF OnSessionExpired, Hears
<1>2. /\ Shaped(q) /\ q.shown = r.shown /\ q.said = r.said /\ q.displays = r.displays
      /\ q.queue = <<>> /\ q.lock = r.lock /\ q.raced = (r.raced \/ r.lock # <<>>)
      /\ q.raced \in BOOLEAN
    BY OrderIs, ResetChats
<1> HIDE DEF q
<1>3. /\ s.shown = q.shown /\ s.said = q.said /\ s.displays = q.displays
      /\ s.queue = q.queue /\ s.lock = q.lock /\ s.raced = q.raced
    BY <1>2 DEF Shaped, Fields
<1> HIDE DEF s
<1>4. Keeps(r, s)
    BY <1>2, <1>3, OrderIs, EmptiedKeeps
<1> QED BY <1>1, <1>4, OrderIs, ConsumedMutes, StillOrdered

LEMMA ErrorOrdered ==
    ASSUME OrderInv, SeatInv', NEW c \in Clients, OnError(c)
    PROVE  OrderedStep
<1> DEFINE r == client[c]
           code == Head(relay.net[c]).code
           p == [r EXCEPT !.status = StatusAfter(code, @)]
           s == Rejected(p, code)
<1>1. /\ Becomes(c, s) /\ relay' = HangsUpIf(c, s, Consumed(c)) /\ relay.net[c] # <<>>
      /\ Hears(c, "ERROR")
    BY DEF OnError, Hears
<1>3. Shaped(p) /\ Keeps(r, p)
    <2>1. Shaped(p)
        BY OrderIs DEF Shaped, Fields
    <2>2. \A v : Keeps(r, [r EXCEPT !.status = v])
        BY OrderIs, OthersKeep
    <2> QED BY <2>1, <2>2
<1> HIDE DEF p
<1>4. Keeps(p, s)
    BY <1>3, RejectedKeeps DEF Keeps
<1> HIDE DEF s
<1>5. Mutes(relay, Consumed(c)) /\ RelayOK(Consumed(c))
    <2>1. Fine(relay)
        BY OrderIs, ClientIs
    <2>2. Fine(Consumed(c))
        BY <1>1, <2>1, ConsumedFine DEF Hears
    <2> QED BY <1>1, <2>2, OrderIs, ConsumedMutes DEF Fine
<1> QED BY <1>1, <1>3, <1>4, <1>5, KeepsTwice, OrderIs, HangsUpMutes, StillOrdered

LEMMA SocketOrdered ==
    ASSUME OrderInv, SeatInv', NEW c \in Clients, WireBreaks(c) \/ RelayHangsUp(c)
    PROVE  OrderedStep
<1> DEFINE Q == HangUp(relay, Socket(c))
<1>1. UNCHANGED client /\ (relay' = Q \/ relay' = Fault(Q))
    BY DEF WireBreaks, RelayHangsUp
<1>2. Mutes(relay, Q) /\ RelayOK(Q)
    BY OrderIs, HangUpMutes, HangUpIs
<1> HIDE DEF Q
<1>3. Mutes(relay, relay')
    BY <1>1, <1>2, OKLined, FaultMutes, MutesTwice
<1> QED BY <1>1, <1>3, NobodyMoves

LEMMA ClosingOrdered ==
    ASSUME OrderInv, SeatInv', NEW c \in Clients, SocketClosing(c) \/ PingFails(c)
    PROVE  OrderedStep
<1> DEFINE r == client[c]
           q == [r EXCEPT !.transport = "closing"]
           s == [r EXCEPT !.transport = "closed", !.deaf = TRUE]
<1>1. (Becomes(c, q) \/ Becomes(c, s)) /\ relay' = relay
    BY DEF SocketClosing, PingFails
<1>2. /\ SameChats(r, q) /\ q.transport = "closing"
      /\ SameChats(r, s) /\ s.transport = "closed"
    BY OrderIs DEF SameChats, Shaped, Fields
<1> HIDE DEF q, s
<1>3. Keeps(r, q) /\ Keeps(r, s)
    BY <1>2, OrderIs, ShutKeeps
<1> QED BY <1>1, <1>3, OrderIs, MutesNot, StillOrdered

LEMMA ClosedOrdered ==
    ASSUME OrderInv, SeatInv', NEW c \in Clients, OnTransportClose(c)
    PROVE  OrderedStep
<1> DEFINE r == client[c]
           q == [r EXCEPT !.transport = "closed"]
           p == ResetCryptoState(q)
           s == [p EXCEPT !.status = "disconnected"]
<1>1. (Becomes(c, q) \/ Becomes(c, s)) /\ relay' = relay
    BY DEF OnTransportClose
<1>2. Shaped(q) /\ SameChats(r, q) /\ q.transport = "closed"
    BY OrderIs DEF SameChats, Shaped, Fields
<1> HIDE DEF q
<1>3. Keeps(r, q)
    BY <1>2, OrderIs, ShutKeeps
<1>4. /\ Shaped(p) /\ p.shown = q.shown /\ p.said = q.said /\ p.displays = q.displays
      /\ p.queue = <<>> /\ p.lock = q.lock /\ p.raced = (q.raced \/ q.lock # <<>>)
      /\ p.raced \in BOOLEAN
    BY <1>2, ResetChats
<1> HIDE DEF p
<1>5. /\ s.shown = p.shown /\ s.said = p.said /\ s.displays = p.displays
      /\ s.queue = p.queue /\ s.lock = p.lock /\ s.raced = p.raced
    BY <1>4 DEF Shaped, Fields
<1> HIDE DEF s
<1>6. Keeps(q, s)
    BY <1>3, <1>4, <1>5, EmptiedKeeps DEF Keeps
<1> QED BY <1>1, <1>3, <1>6, KeepsTwice, OrderIs, MutesNot, StillOrdered

\* A task of the lock that is new.
Newcomer(t) == DOMAIN t = TaskFields /\ IsSeq(t.chats) /\ t.pc = "start" /\ Rising(t.chats)

LEMMA NewcomerIs ==
    /\ \A kind, key : /\ Newcomer(Task(kind, key, <<>>))
                      /\ Numbers(Task(kind, key, <<>>).chats) = {}
    /\ \A chat : /\ Newcomer(Task("chat", NoKey, <<chat>>))
                 /\ Numbers(Task("chat", NoKey, <<chat>>).chats) = {Number(chat)}
<1>1. ASSUME NEW kind, NEW key, NEW chats
      PROVE  LET t == Task(kind, key, chats) IN
             DOMAIN t = TaskFields /\ t.pc = "start" /\ t.chats = chats
    BY DEF Task, TaskFields
<1>2. ASSUME NEW chat PROVE IsSeq(<<chat>>) /\ Rising(<<chat>>) /\ Numbers(<<chat>>) = {Number(chat)}
    <2> DEFINE s == <<chat>>
    <2>1. s \in Seq({chat}) /\ Len(s) = 1 /\ s[1] = chat
        OBVIOUS
    <2>2. IsSeq(s)
        BY <2>1 DEF IsSeq
    <2> HIDE DEF s
    <2>3. Elements(s) = {chat}
        BY <2>1 DEF Elements
    <2>4. Numbers(s) = {Number(chat)} /\ Rising(s)
        BY <2>1, <2>2, <2>3 DEF Numbers, Rising
    <2> QED BY <2>2, <2>4 DEF s
<1> QED BY <1>1, <1>2, NoNumbers DEF Newcomer

LEMMA QueuedTask ==
    ASSUME NEW r, Shaped(r), Orderly(r), r.transport = "open", NEW t, Newcomer(t),
           Below(Heard(r), Numbers(t.chats))
    PROVE  LET s == WithHandshakeLock(r, t) IN
           /\ Orderly(s) /\ Heard(s) = Heard(r) \cup Numbers(t.chats)
           /\ s.shown = r.shown /\ s.said = r.said /\ s.displays = r.displays
<1> DEFINE s == WithHandshakeLock(r, t)
           l == Append(r.lock, t)
<1>1. /\ s.shown = r.shown /\ s.said = r.said /\ s.displays = r.displays /\ s.queue = r.queue
      /\ s.lock = l /\ s.raced = r.raced /\ s.transport = r.transport
      /\ s.shared = r.shared /\ s.peerKey = r.peerKey
    BY DEF WithHandshakeLock, Shaped, Fields
<1> HIDE DEF s
<1>2. IsSeq(r.lock) /\ IsSeq(r.queue) /\ \A u \in Elements(r.lock) : TaskKept(u)
    BY DEF Orderly, Kept
<1>3. /\ IsSeq(l) /\ l # <<>> /\ Elements(l) = Elements(r.lock) \cup {t}
      /\ r.lock = <<>> => Head(l) = t /\ Tail(l) = <<>>
      /\ r.lock # <<>> => Head(l) = Head(r.lock) /\ Tail(l) = Append(Tail(r.lock), t)
    BY <1>2, LockGrows
<1>4. Stored(l) = Stored(r.lock) \cup Numbers(t.chats)
    BY <1>2, BehindAppended
<1> HIDE DEF l
<1>5. Kept(s)
    BY <1>1, <1>2, <1>3 DEF Kept, TaskKept, Newcomer
<1>6. Heard(s) = Heard(r) \cup Numbers(t.chats)
    BY <1>1, <1>4 DEF Heard
<1>7. ASSUME InLine(r) PROVE InLine(s)
    <2>1. CASE r.lock = <<>>
        <3>1. /\ Chain(r.shown, r.queue, <<>>, <<>>) /\ (r.queue # <<>> => r.shared = {})
            BY <1>7, <2>1 DEF InLine
        <3>2. Below({r.shown} \cup Numbers(r.queue), Numbers(t.chats))
            BY DEF Heard, Below
        <3>3. Chain(r.shown, r.queue, t.chats, <<>>)
            BY <3>1, <3>2, NoNumbers DEF Chain, Below, Newcomer
        <3>4. Stage(s, t)
            BY <1>1, <3>1 DEF Stage, Newcomer
        <3> QED BY <1>1, <1>3, <2>1, <3>3, <3>4 DEF InLine
    <2>2. CASE r.lock # <<>>
        <3>1. Chain(r.shown, r.queue, Head(r.lock).chats, Tail(r.lock)) /\ Stage(r, Head(r.lock))
            BY <1>7, <2>2 DEF InLine
        <3>2. /\ IsSeq(Tail(r.lock))
              /\ Stored(r.lock) = Numbers(Head(r.lock).chats) \cup Stored(Tail(r.lock))
            BY <1>2, <2>2, Taken, StoredTaken
        <3>3. Below({r.shown} \cup Numbers(r.queue) \cup Numbers(Head(r.lock).chats)
                        \cup Stored(Tail(r.lock)), Numbers(t.chats))
            BY <3>2 DEF Heard, Below
        <3>4. Chain(r.shown, r.queue, Head(r.lock).chats, Append(Tail(r.lock), t))
            BY <3>1, <3>2, <3>3, ChainGrows DEF Newcomer
        <3>5. Stage(s, Head(r.lock))
            BY <1>1, <3>1 DEF Stage
        <3> QED BY <1>1, <1>3, <2>2, <3>4, <3>5 DEF InLine
    <2> QED BY <2>1, <2>2
<1>8. Orderly(s)
    BY <1>1, <1>5, <1>7 DEF Orderly
<1> QED BY <1>1, <1>6, <1>8 DEF s

LEMMA NoneBelow == \A S : Below(S, {})
BY DEF Below

LEMMA JoinedOrdered ==
    ASSUME OrderInv, SeatInv', NEW c \in Clients, OnPartnerJoined(c)
    PROVE  OrderedStep
<1> DEFINE r == client[c]
           q == Resolved(r, {"join"})
           p == [q EXCEPT !.status = "handshaking", !.partner = TRUE]
           t == Task("send", NoKey, <<>>)
           s == WithHandshakeLock(p, t)
<1>1. /\ Becomes(c, s) /\ relay' = Consumed(c) /\ relay.net[c] # <<>>
      /\ r.transport = "open"
    BY DEF OnPartnerJoined, Hears
<1>2. /\ Shaped(q) /\ SameChats(r, q) /\ q.raced = r.raced /\ q.transport = r.transport
      /\ q.shared = r.shared /\ q.peerKey = r.peerKey
    BY OrderIs DEF Resolved, SameChats, Shaped, Fields
<1> HIDE DEF q
<1>3. /\ Shaped(p) /\ SameChats(q, p) /\ p.raced = q.raced /\ p.transport = q.transport
      /\ p.shared = q.shared /\ p.peerKey = q.peerKey
    BY <1>2 DEF SameChats, Shaped, Fields
<1> HIDE DEF p
<1>4. Keeps(r, q)
    BY <1>2, OrderIs, SameKeeps
<1>5. Keeps(r, p) /\ Orderly(p)
    <2>1. Keeps(q, p)
        BY <1>3, <1>4, SameKeeps DEF Keeps
    <2> QED BY <1>4, <2>1, KeepsTwice DEF Keeps
<1>6. Newcomer(t) /\ Numbers(t.chats) = {}
    BY NewcomerIs
<1> HIDE DEF t
<1>7. Orderly(s) /\ Heard(s) = Heard(p) /\ s.shown = p.shown /\ s.said = p.said
      /\ s.displays = p.displays
    BY <1>1, <1>2, <1>3, <1>5, <1>6, NoneBelow, QueuedTask
<1> HIDE DEF s
<1>8. Keeps(r, s)
    BY <1>5, <1>7 DEF Keeps
<1> QED BY <1>1, <1>8, OrderIs, ConsumedMutes, StillOrdered

LEMMA KeyHeardOrdered ==
    ASSUME OrderInv, SeatInv', NEW c \in Clients, OnPublicKey(c)
    PROVE  OrderedStep
<1> DEFINE r == client[c]
           t == Task("key", Head(relay.net[c]).key, <<>>)
           s == WithHandshakeLock(r, t)
<1>1. /\ Becomes(c, s) /\ relay' = Consumed(c) /\ relay.net[c] # <<>>
      /\ r.transport = "open"
    BY DEF OnPublicKey, Hears
<1>2. Newcomer(t) /\ Numbers(t.chats) = {}
    BY NewcomerIs
<1> HIDE DEF t
<1>3. Orderly(s) /\ Heard(s) = Heard(r) /\ s.shown = r.shown /\ s.said = r.said
      /\ s.displays = r.displays
    BY <1>1, <1>2, OrderIs, NoneBelow, QueuedTask
<1> HIDE DEF s
<1>4. Keeps(r, s)
    BY <1>3 DEF Keeps
<1> QED BY <1>1, <1>4, OrderIs, ConsumedMutes, StillOrdered

\* The chat at the head of the line is above all the client has heard.
LEMMA ChatHeardOrdered ==
    ASSUME OrderInv, SeatInv', NEW c \in Clients, OnChat(c)
    PROVE  OrderedStep
<1> DEFINE r == client[c]
           net == relay.net[c]
           chat == Head(net).chat
           t == Task("chat", NoKey, <<chat>>)
           s == WithHandshakeLock(r, t)
<1>1. /\ Becomes(c, s) /\ relay' = Consumed(c) /\ net # <<>> /\ Head(net).type = "chat"
      /\ r.transport = "open"
    BY DEF OnChat, Hears
<1>2. Newcomer(t) /\ Numbers(t.chats) = {Number(chat)}
    BY NewcomerIs
<1>3. /\ Mutes(relay, relay') /\ relay'.net[c] = Tail(net)
      /\ \A d \in Clients \ {c} : relay'.net[d] = relay.net[d]
    BY <1>1, OrderIs, ConsumedMutes
<1>4. /\ Thins(net, Tail(net)) /\ Number(chat) \in OnTheWay(net)
      /\ NetRising(net) => Below({Number(chat)}, OnTheWay(Tail(net)))
    BY <1>1, OrderIs, WayTaken DEF Lined
<1>5. /\ client'[c] = s /\ \A d \in Clients \ {c} : client'[d] = client[d]
    BY <1>1 DEF Becomes, OrderInv, SeatInv, ClientsOK
<1> HIDE DEF net, chat, t, s
<1>6. \A d \in Clients \ {c} : /\ Passes(r, net, client[d])
                              /\ Below(Heard(r), {Number(chat)}) /\ NetRising(net)
    <2>1. \A d \in Clients \ {c} : Passes(r, net, client[d])
        BY DEF OrderInv, net
    <2> QED BY <1>4, <2>1 DEF Passes, Below
<1>7. \E d \in Clients : d # c
    BY EndsAssumption
<1>8. Below(Heard(r), Numbers(t.chats))
    BY <1>2, <1>6, <1>7
<1>9. /\ Orderly(s) /\ Heard(s) = Heard(r) \cup {Number(chat)}
      /\ s.shown = r.shown /\ s.said = r.said /\ s.displays = r.displays
    BY <1>1, <1>2, <1>8, OrderIs, QueuedTask DEF s
<1>10. (\A d \in Clients : Orderly(client[d]))'
    BY <1>5, <1>9 DEF OrderInv
<1>11. ASSUME NEW d \in Clients, NEW b \in Clients, d # b
       PROVE  Passes(client'[d], relay'.net[d], client'[b])
    <2>1. Passes(client[d], relay.net[d], client[b])
        BY <1>11 DEF OrderInv
    <2>2. client'[b].said = client[b].said /\ client'[b].displays = client[b].displays
        BY <1>5, <1>9
    <2>3. CASE d = c
        <3>1. Passes(r, net, client[b]) /\ client'[d] = s /\ relay'.net[d] = Tail(net)
            BY <1>3, <1>5, <2>1, <2>3 DEF net
        <3>2. OnTheWay(Tail(net)) \subseteq OnTheWay(net) /\ NetRising(Tail(net))
              /\ Below({Number(chat)}, OnTheWay(Tail(net)))
            BY <1>4, <3>1 DEF Thins, Passes
        <3> QED BY <1>4, <1>9, <2>2, <3>1, <3>2 DEF Passes, Below
    <2>4. CASE d # c
        <3>1. Heard(client'[d]) = Heard(client[d]) /\ relay'.net[d] = relay.net[d]
              /\ Thins(relay.net[d], relay'.net[d])
            BY <1>3, <1>5, <2>4 DEF Mutes
        <3> QED BY <2>1, <2>2, <3>1, StillPasses
    <2> QED BY <2>3, <2>4
<1>12. (\A d, b \in Clients : d # b => Passes(client[d], relay.net[d], client[b]))'
    <2>1. \A d, b \in Clients : d # b => Passes(client'[d], relay'.net[d], client'[b])
        BY <1>11
    <2> QED BY <2>1
<1>13. \A d \in Clients : Forward(client[d], client'[d])
    BY <1>5, <1>9 DEF Forward
<1> QED BY <1>10, <1>12, <1>13 DEF OrderInv, OrderedStep

----------------------------------------------------------------------------
(* The tasks of the lock, step by step.                                    *)

LEMMA HolderIs ==
    ASSUME OrderInv, NEW c \in Clients, client[c].lock # <<>>
    PROVE  LET r == client[c]
               t == Running(c)
           IN  /\ Holding(r) /\ Shaped(r) /\ DOMAIN t = TaskFields /\ IsSeq(t.chats) /\ TaskKept(t)
               /\ Within(r, t.chats) = Heard(r) /\ Within(r, <<>>) \subseteq Heard(r)
               /\ Heeded(r) => Chain(r.shown, r.queue, t.chats, Tail(r.lock)) /\ Stage(r, t)
<1> DEFINE r == client[c]
           t == Head(r.lock)
<1>1. Shaped(r) /\ ClientOK(r) /\ Orderly(r) /\ r.lock # <<>>
    BY OrderIs
<1>2. Holding(r)
    BY <1>1 DEF Holding, Orderly, ClientOK
<1>3. t \in Elements(r.lock) /\ Stored(r.lock) = Numbers(t.chats) \cup Stored(Tail(r.lock))
    BY <1>1, Taken, StoredTaken DEF Orderly, Kept
<1>4. TaskKept(t)
    BY <1>1, <1>3 DEF Orderly, Kept
<1>5. Within(r, t.chats) = Heard(r) /\ Within(r, <<>>) \subseteq Heard(r)
    BY <1>3, NoNumbers DEF Within, Heard
<1>6. Heeded(r) => Chain(r.shown, r.queue, t.chats, Tail(r.lock)) /\ Stage(r, t)
    BY <1>1 DEF Heeded, Orderly, InLine
<1>7. Running(c) = t
    BY DEF Running
<1> QED BY <1>1, <1>2, <1>4, <1>5, <1>6, <1>7 DEF TaskKept

\* Fields of a client that its tasks set before they hand on the chats.
SameHolder(r, q) ==
    /\ Shaped(q) /\ q.shown = r.shown /\ q.said = r.said /\ q.displays = r.displays
    /\ q.queue = r.queue /\ q.lock = r.lock /\ q.raced = r.raced /\ q.transport = r.transport

LEMMA SameHolding ==
    ASSUME NEW r, Holding(r), NEW q, SameHolder(r, q)
    PROVE  /\ Holding(q) /\ (Heeded(q) <=> Heeded(r))
           /\ \A chats : Within(q, chats) = Within(r, chats)
BY DEF SameHolder, Holding, Kept, Heeded, Within

LEMMA WentKeeps ==
    ASSUME NEW r, NEW q, q.shown = r.shown, q.said = r.said, q.displays = r.displays,
           NEW chats, Within(q, chats) \subseteq Heard(r), NEW s, Went(q, chats, s)
    PROVE  Keeps(r, s)
BY DEF Went, Keeps

\* A frame that is not a chat, to the other end.
LEMMA SendMutes ==
    ASSUME NEW R, Lined(R), NEW c \in Clients, NEW f, f.type # "chat",
           NEW Q, Q \in RelaySend(R, Socket(c), f)
    PROVE  Mutes(R, Q)
<1>1. /\ RelayShaped(Q)
      /\ \A d \in Clients : \/ Thins(R.net[d], Q.net[d])
                            \/ d # c /\ Q.net[d] = Append(R.net[d], f)
    BY SendCarries
<1>2. \A d \in Clients : Thins(R.net[d], Append(R.net[d], f))
    BY WayAppended DEF Lined
<1> QED BY <1>1, <1>2 DEF Mutes

LEMMA FailedKeeps ==
    ASSUME NEW r, NEW s, Shaped(s), Keeps(r, s), NEW code
    PROVE  Keeps(r, Rejected(s, code))
BY RejectedKeeps, KeepsTwice DEF Keeps

LEMMA StartOrdered ==
    ASSUME OrderInv, SeatInv', NEW c \in Clients, StartTask(c)
    PROVE  OrderedStep
<1> DEFINE r == client[c]
           t == Running(c)
           l == Tail(r.lock)
           q == [r EXCEPT !.peerKey = t.key]
           e == [t EXCEPT !.pc = "export", !.my = r.keyPair]
           i == [t EXCEPT !.pc = "import"]
<1>1. r.lock # <<>> /\ t.pc = "start" /\ relay' = relay
    BY DEF StartTask
<1>2. /\ Holding(r) /\ Shaped(r) /\ DOMAIN t = TaskFields /\ IsSeq(t.chats)
      /\ Within(r, t.chats) = Heard(r) /\ Within(r, <<>>) \subseteq Heard(r)
      /\ Heeded(r) => Chain(r.shown, r.queue, t.chats, l) /\ Stage(r, t)
    BY <1>1, HolderIs
<1>3. Heeded(r) => /\ Chain(r.shown, r.queue, <<>>, l)
                   /\ r.queue # <<>> => r.shared = {}
    BY <1>1, <1>2, ChainMoves DEF Stage
<1>4. \/ t.kind = "send" /\ Becomes(c, Finished(r))
      \/ t.kind = "send" /\ Becomes(c, At(r, e))
      \/ t.kind = "key" /\ Becomes(c, FlushInboundQueue(r, t))
      \/ t.kind = "key" /\ Becomes(c, At(q, i))
      \/ t.kind = "chat" /\ Becomes(c, DecryptNext(r, t, t.chats))
    BY DEF StartTask
<1>5. /\ TaskKept(e) /\ e.kind = t.kind /\ e.pc = "export" /\ e.chats = t.chats
      /\ TaskKept(i) /\ i.kind = t.kind /\ i.pc = "import" /\ i.chats = t.chats
    BY <1>2 DEF TaskKept, TaskFields
<1>6. SameHolder(r, q) /\ q.shared = r.shared
    BY <1>2 DEF SameHolder, Shaped, Fields
<1> HIDE DEF t, q, e, i, l
<1>7. CASE t.kind = "send" /\ Becomes(c, Finished(r))
    <2>1. Went(r, <<>>, Finished(r))
        BY <1>2, <1>3, FinishedWent DEF l
    <2>2. Keeps(r, Finished(r))
        BY <1>2, <2>1, WentKeeps
    <2> QED BY <1>1, <1>7, <2>2, OrderIs, MutesNot, StillOrdered
<1>8. CASE t.kind = "send" /\ Becomes(c, At(r, e))
    <2>1. Heeded(r) => Chain(r.shown, r.queue, e.chats, l) /\ Stage(r, e)
        BY <1>2, <1>3, <1>5, <1>8 DEF Stage
    <2>2. Went(r, e.chats, At(r, e))
        BY <1>2, <1>5, <2>1, AtWent DEF l
    <2>3. Keeps(r, At(r, e))
        BY <1>2, <1>5, <2>2, WentKeeps
    <2> QED BY <1>1, <1>8, <2>3, OrderIs, MutesNot, StillOrdered
<1>9. CASE t.kind = "key" /\ Becomes(c, FlushInboundQueue(r, t))
    <2>1. Went(r, <<>>, FlushInboundQueue(r, t))
        BY <1>2, <1>3, <1>9, FlushWent DEF l
    <2>2. Keeps(r, FlushInboundQueue(r, t))
        BY <1>2, <2>1, WentKeeps
    <2> QED BY <1>1, <1>9, <2>2, OrderIs, MutesNot, StillOrdered
<1>10. CASE t.kind = "key" /\ Becomes(c, At(q, i))
    <2>1. /\ Holding(q) /\ (Heeded(q) <=> Heeded(r))
          /\ \A chats : Within(q, chats) = Within(r, chats)
        BY <1>2, <1>6, SameHolding
    <2>2. Heeded(q) => Chain(q.shown, q.queue, i.chats, Tail(q.lock)) /\ Stage(q, i)
        BY <1>2, <1>3, <1>5, <1>6, <1>10, <2>1 DEF Stage, SameHolder, l
    <2>3. Went(q, i.chats, At(q, i))
        BY <1>5, <2>1, <2>2, AtWent
    <2>4. Keeps(r, At(q, i))
        BY <1>2, <1>5, <1>6, <2>1, <2>3, WentKeeps DEF SameHolder
    <2> QED BY <1>1, <1>10, <2>4, OrderIs, MutesNot, StillOrdered
<1>11. CASE t.kind = "chat" /\ Becomes(c, DecryptNext(r, t, t.chats))
    <2>1. Heeded(r) => /\ Chain(r.shown, r.queue, t.chats, l)
                       /\ r.shared # {} => r.queue = <<>>
                       /\ t.kind # "send"
        BY <1>2, <1>3, <1>11
    <2>2. Went(r, t.chats, DecryptNext(r, t, t.chats))
        BY <1>2, <2>1, DecryptWent DEF l
    <2>3. Keeps(r, DecryptNext(r, t, t.chats))
        BY <1>2, <2>2, WentKeeps
    <2> QED BY <1>1, <1>11, <2>3, OrderIs, MutesNot, StillOrdered
<1> QED BY <1>4, <1>7, <1>8, <1>9, <1>10, <1>11

LEMMA ExportedOrdered ==
    ASSUME OrderInv, SeatInv', NEW c \in Clients, KeyExported(c)
    PROVE  OrderedStep
<1> DEFINE p == client[c]
           t == Running(c)
           key == ExportPublicKey(Provider[c], t.my)
           r == [p EXCEPT !.localKey = key]
           s == [r EXCEPT !.sent = TRUE]
           f == [type |-> "key", key |-> key]
           l == Tail(p.lock)
<1>1. p.lock # <<>> /\ t.pc = "export"
    BY DEF KeyExported, Awaits
<1>2. /\ Holding(p) /\ DOMAIN t = TaskFields /\ IsSeq(t.chats)
      /\ Within(p, t.chats) = Heard(p) /\ Within(p, <<>>) \subseteq Heard(p)
      /\ Heeded(p) => Chain(p.shown, p.queue, t.chats, l) /\ Stage(p, t)
    BY <1>1, HolderIs
<1>3. /\ p.transport = "open" =>
            /\ Becomes(c, IF t.kind = "send" THEN Finished(s) ELSE BecomeReady(s, t))
            /\ relay' \in RelaySend(relay, Socket(c), f)
      /\ p.transport # "open" =>
            /\ Becomes(c, IF t.kind = "send" THEN Finished(r) ELSE HandshakeFailed(r))
            /\ relay' = relay
    <2>1. r.transport = p.transport
        BY <1>2 DEF Holding, Shaped, Fields
    <2> QED BY <2>1 DEF KeyExported
<1> HIDE DEF key
<1>4. SameHolder(p, r) /\ r.shared = p.shared
    BY <1>2 DEF SameHolder, Holding, Shaped, Fields
<1> HIDE DEF r
<1>5. SameHolder(p, s) /\ s.shared = p.shared
    BY <1>4 DEF SameHolder, Shaped, Fields
<1>6. f.type = "key"
    OBVIOUS
<1> HIDE DEF s, t, f, l
<1>7. /\ Holding(r) /\ Holding(s) /\ (Heeded(r) <=> Heeded(p)) /\ (Heeded(s) <=> Heeded(p))
      /\ \A chats : Within(r, chats) = Within(p, chats) /\ Within(s, chats) = Within(p, chats)
    BY <1>2, <1>4, <1>5, SameHolding
<1>8. CASE p.transport = "open"
    <2>1. Mutes(relay, relay')
        BY <1>3, <1>6, <1>8, OrderIs, SendMutes
    <2>2. CASE t.kind = "send"
        <3>1. Heeded(s) => /\ Chain(s.shown, s.queue, <<>>, Tail(s.lock))
                           /\ s.queue # <<>> => s.shared = {}
            BY <1>2, <1>5, <1>7, <2>2, ChainMoves DEF Stage, SameHolder, l
        <3>2. Went(s, <<>>, Finished(s))
            BY <1>7, <3>1, FinishedWent
        <3>3. Keeps(p, Finished(s))
            BY <1>2, <1>5, <1>7, <3>2, WentKeeps DEF SameHolder
        <3> QED BY <1>3, <1>8, <2>1, <2>2, <3>3, StillOrdered
    <2>3. CASE t.kind # "send"
        <3>1. Heeded(s) => Chain(s.shown, s.queue, t.chats, Tail(s.lock)) /\ t.kind # "send"
            BY <1>2, <1>5, <1>7, <2>3 DEF SameHolder, l
        <3>2. Went(s, t.chats, BecomeReady(s, t))
            BY <1>2, <1>7, <3>1, ReadyWent
        <3>3. Keeps(p, BecomeReady(s, t))
            BY <1>2, <1>5, <1>7, <3>2, WentKeeps DEF SameHolder
        <3> QED BY <1>3, <1>8, <2>1, <2>3, <3>3, StillOrdered
    <2> QED BY <2>2, <2>3
<1>9. CASE p.transport # "open"
    <2>1. Mutes(relay, relay')
        BY <1>3, <1>9, OrderIs, MutesNot
    <2>2. ~Heeded(r)
        BY <1>7, <1>9 DEF Heeded
    <2>3. Went(r, <<>>, Finished(r))
        BY <1>7, <2>2, FinishedWent
    <2>4. Keeps(p, Finished(r))
        BY <1>2, <1>4, <1>7, <2>3, WentKeeps DEF SameHolder
    <2>5. Shaped(Finished(r))
        BY <1>7, FinishedStep DEF Holding, TaskStep, SameCore
    <2>6. Keeps(p, HandshakeFailed(r))
        BY <2>4, <2>5, FailedKeeps DEF HandshakeFailed
    <2> QED BY <1>3, <1>9, <2>1, <2>4, <2>6, StillOrdered
<1> QED BY <1>8, <1>9

\* A handshake that fails leaves the chats where they are.
LEMMA HandshakeFailedKeeps ==
    ASSUME OrderInv, NEW c \in Clients, client[c].lock # <<>>,
           Heeded(client[c]) /\ client[c].queue # <<>> => client[c].shared = {}
    PROVE  Keeps(client[c], HandshakeFailed(client[c]))
<1> DEFINE r == client[c]
           t == Running(c)
<1>1. /\ Holding(r) /\ Shaped(r) /\ Within(r, <<>>) \subseteq Heard(r)
      /\ Heeded(r) => Chain(r.shown, r.queue, t.chats, Tail(r.lock))
    BY HolderIs
<1>2. Heeded(r) => Chain(r.shown, r.queue, <<>>, Tail(r.lock))
    BY <1>1, ChainMoves
<1>3. Went(r, <<>>, Finished(r))
    BY <1>1, <1>2, FinishedWent
<1>4. Keeps(r, Finished(r))
    BY <1>1, <1>3, WentKeeps
<1>5. Shaped(Finished(r))
    BY <1>1, FinishedStep DEF TaskStep, SameCore
<1> QED BY <1>4, <1>5, FailedKeeps DEF HandshakeFailed

LEMMA ImportedOrdered ==
    ASSUME OrderInv, SeatInv', NEW c \in Clients, KeyImported(c) \/ LocalPrinted(c)
    PROVE  OrderedStep
<1> DEFINE r == client[c]
           t == Running(c)
           key == ImportPublicKey(Provider[c], t.key)
           u == [t EXCEPT !.pc = "derive", !.my = r.keyPair, !.key = key]
           w == [t EXCEPT !.pc = "print_peer", !.key = r.peerKey]
<1>1. /\ r.lock # <<>>
      /\ \/ t.pc = "import" /\ (\/ Becomes(c, HandshakeFailed(r))
                                   /\ relay' = HangsUpIf(c, HandshakeFailed(r), relay)
                                \/ Becomes(c, At(r, u)) /\ relay' = HangsUpIf(c, At(r, u), relay))
         \/ t.pc = "print" /\ (\/ Becomes(c, HandshakeFailed(r)) /\ r.peerKey = NoKey
                                  /\ relay' = HangsUpIf(c, HandshakeFailed(r), relay)
                               \/ Becomes(c, At(r, w)) /\ relay' = HangsUpIf(c, At(r, w), relay))
    BY DEF KeyImported, LocalPrinted, Awaits
<1>2. /\ Holding(r) /\ Shaped(r) /\ DOMAIN t = TaskFields /\ IsSeq(t.chats)
      /\ Within(r, t.chats) = Heard(r)
      /\ Heeded(r) => Chain(r.shown, r.queue, t.chats, Tail(r.lock)) /\ Stage(r, t)
    BY <1>1, HolderIs
<1> HIDE DEF key
<1>3. /\ TaskKept(u) /\ u.kind = t.kind /\ u.pc = "derive" /\ u.chats = t.chats
      /\ TaskKept(w) /\ w.kind = t.kind /\ w.pc = "print_peer" /\ w.chats = t.chats
    BY <1>2 DEF TaskKept, TaskFields
<1> HIDE DEF t, u, w
<1>4. \A s : Mutes(relay, HangsUpIf(c, s, relay))
    BY OrderIs, MutesNot, HangsUpMutes
<1>5. CASE Becomes(c, HandshakeFailed(r)) /\ relay' = HangsUpIf(c, HandshakeFailed(r), relay)
           /\ (t.pc = "import" \/ (t.pc = "print" /\ r.peerKey = NoKey))
    <2>1. Heeded(r) /\ r.queue # <<>> => r.shared = {}
        BY <1>2, <1>5 DEF Stage
    <2>2. Keeps(r, HandshakeFailed(r))
        BY <1>1, <2>1, HandshakeFailedKeeps
    <2> QED BY <1>4, <1>5, <2>2, StillOrdered
<1>6. CASE t.pc = "import" /\ Becomes(c, At(r, u)) /\ relay' = HangsUpIf(c, At(r, u), relay)
    <2>1. Heeded(r) => Chain(r.shown, r.queue, u.chats, Tail(r.lock)) /\ Stage(r, u)
        BY <1>2, <1>3, <1>6 DEF Stage
    <2>2. Went(r, u.chats, At(r, u))
        BY <1>2, <1>3, <2>1, AtWent
    <2>3. Keeps(r, At(r, u))
        BY <1>2, <1>3, <2>2, WentKeeps
    <2> QED BY <1>4, <1>6, <2>3, StillOrdered
<1>7. CASE t.pc = "print" /\ Becomes(c, At(r, w)) /\ relay' = HangsUpIf(c, At(r, w), relay)
    <2>1. Heeded(r) => Chain(r.shown, r.queue, w.chats, Tail(r.lock)) /\ Stage(r, w)
        BY <1>2, <1>3, <1>7 DEF Stage
    <2>2. Went(r, w.chats, At(r, w))
        BY <1>2, <1>3, <2>1, AtWent
    <2>3. Keeps(r, At(r, w))
        BY <1>2, <1>3, <2>2, WentKeeps
    <2> QED BY <1>4, <1>7, <2>3, StillOrdered
<1> QED BY <1>1, <1>5, <1>6, <1>7

LEMMA DerivedOrdered ==
    ASSUME OrderInv, SeatInv', NEW c \in Clients, SecretDerived(c)
    PROVE  OrderedStep
<1> DEFINE p == client[c]
           t == Running(c)
           secret == DeriveSharedSecret(Provider[c], t.my, t.key)
           r == [p EXCEPT !.received = TRUE, !.shared = secret]
           e == [t EXCEPT !.pc = "export", !.my = r.keyPair]
<1>1. p.lock # <<>> /\ t.pc = "derive" /\ relay' = relay
    BY DEF SecretDerived, Awaits
<1>2. /\ Holding(p) /\ DOMAIN t = TaskFields /\ IsSeq(t.chats)
      /\ Within(p, t.chats) = Heard(p)
      /\ Heeded(p) => Chain(p.shown, p.queue, t.chats, Tail(p.lock)) /\ Stage(p, t)
    BY <1>1, HolderIs
<1>3. Becomes(c, BecomeReady(r, t)) \/ Becomes(c, At(r, e))
    BY DEF SecretDerived
<1> HIDE DEF secret
<1>4. SameHolder(p, r)
    BY <1>2 DEF SameHolder, Holding, Shaped, Fields
<1> HIDE DEF r
<1>5. TaskKept(e) /\ e.kind = t.kind /\ e.pc = "export" /\ e.chats = t.chats
    BY <1>2 DEF TaskKept, TaskFields
<1> HIDE DEF t, e
<1>6. /\ Holding(r) /\ (Heeded(r) <=> Heeded(p))
      /\ \A chats : Within(r, chats) = Within(p, chats)
    BY <1>2, <1>4, SameHolding
<1>7. Heeded(r) => Chain(r.shown, r.queue, t.chats, Tail(r.lock)) /\ t.kind # "send"
    BY <1>1, <1>2, <1>4, <1>6 DEF Stage, SameHolder
<1>8. Keeps(p, BecomeReady(r, t))
    <2>1. Went(r, t.chats, BecomeReady(r, t))
        BY <1>2, <1>6, <1>7, ReadyWent
    <2> QED BY <1>2, <1>4, <1>6, <2>1, WentKeeps DEF SameHolder
<1>9. Keeps(p, At(r, e))
    <2>1. Heeded(r) => Chain(r.shown, r.queue, e.chats, Tail(r.lock)) /\ Stage(r, e)
        BY <1>5, <1>7 DEF Stage
    <2>2. Went(r, e.chats, At(r, e))
        BY <1>5, <1>6, <2>1, AtWent
    <2> QED BY <1>2, <1>4, <1>5, <1>6, <2>2, WentKeeps DEF SameHolder
<1> QED BY <1>1, <1>3, <1>8, <1>9, OrderIs, MutesNot, StillOrdered

LEMMA PrintedOrdered ==
    ASSUME OrderInv, SeatInv', NEW c \in Clients, FingerprintsMade(c)
    PROVE  OrderedStep
<1> DEFINE p == client[c]
           t == Running(c)
           prints == <<GenerateFingerprint(t.my), GenerateFingerprint(t.key)>>
           r == [p EXCEPT !.seen = prints]
<1>1. p.lock # <<>> /\ t.pc = "print_peer" /\ relay' = relay
    BY DEF FingerprintsMade, Awaits
<1>2. /\ Holding(p) /\ DOMAIN t = TaskFields /\ Within(p, <<>>) \subseteq Heard(p)
      /\ Heeded(p) => Chain(p.shown, p.queue, t.chats, Tail(p.lock)) /\ Stage(p, t)
    BY <1>1, HolderIs
<1>3. Becomes(c, FlushInboundQueue(r, t))
    BY DEF FingerprintsMade
<1> HIDE DEF prints
<1>4. SameHolder(p, r)
    BY <1>2 DEF SameHolder, Holding, Shaped, Fields
<1> HIDE DEF r, t
<1>5. /\ Holding(r) /\ (Heeded(r) <=> Heeded(p))
      /\ \A chats : Within(r, chats) = Within(p, chats)
    BY <1>2, <1>4, SameHolding
<1>6. Heeded(p) => Chain(p.shown, p.queue, <<>>, Tail(p.lock)) /\ t.kind # "send"
    BY <1>1, <1>2, ChainMoves DEF Stage
<1>7. Heeded(r) => Chain(r.shown, r.queue, <<>>, Tail(r.lock)) /\ t.kind # "send"
    BY <1>4, <1>5, <1>6 DEF SameHolder
<1>8. Went(r, <<>>, FlushInboundQueue(r, t))
    BY <1>2, <1>5, <1>7, FlushWent
<1>9. Keeps(p, FlushInboundQueue(r, t))
    BY <1>2, <1>4, <1>5, <1>8, WentKeeps DEF SameHolder
<1> QED BY <1>1, <1>3, <1>9, OrderIs, MutesNot, StillOrdered

\* The only step that shows a chat.
LEMMA DecryptedOrdered ==
    ASSUME OrderInv, SeatInv', NEW c \in Clients, ChatDecrypted(c)
    PROVE  OrderedStep
<1> DEFINE r == client[c]
           t == Running(c)
           chat == Head(t.chats)
           rest == Tail(t.chats)
           n == Number(chat)
           q == [r EXCEPT !.shown = n, !.displays = @ + 1]
           p == DecryptNext(r, t, rest)
           s == Rejected(p, "DECRYPT_FAILED")
           d == DecryptNext(q, t, rest)
<1>1. /\ r.lock # <<>> /\ t.pc = "decrypt"
      /\ \/ Becomes(c, d) /\ relay' = HangsUpIf(c, d, relay)
         \/ Becomes(c, s) /\ relay' = HangsUpIf(c, s, relay)
    BY DEF ChatDecrypted, Awaits, Number
<1>2. /\ Holding(r) /\ Shaped(r) /\ DOMAIN t = TaskFields /\ IsSeq(t.chats) /\ TaskKept(t)
      /\ Within(r, t.chats) = Heard(r)
      /\ Heeded(r) => Chain(r.shown, r.queue, t.chats, Tail(r.lock)) /\ Stage(r, t)
    BY <1>1, HolderIs
<1>3. t.chats # <<>>
    BY <1>1, <1>2 DEF TaskKept
<1>4. IsSeq(rest) /\ Numbers(rest) \subseteq Numbers(t.chats) /\ n \in Numbers(t.chats)
    BY <1>2, <1>3, NumbersTaken
<1>5. Heeded(r) => r.queue = <<>> /\ t.kind # "send"
    BY <1>1, <1>2 DEF Stage
<1>6. Heeded(r) => /\ r.shown < n
                   /\ Chain(r.shown, r.queue, rest, Tail(r.lock))
                   /\ Chain(n, r.queue, rest, Tail(r.lock))
    BY <1>2, <1>3, <1>5, ChainShows
<1> HIDE DEF n
<1>7. /\ Shaped(q) /\ q.shown = n /\ q.said = r.said
      /\ q.queue = r.queue /\ q.lock = r.lock /\ q.raced = r.raced /\ q.transport = r.transport
    BY <1>2 DEF Shaped, Fields
<1> HIDE DEF q, t, rest
<1>8. \A x : Mutes(relay, HangsUpIf(c, x, relay))
    BY OrderIs, MutesNot, HangsUpMutes
<1>9. Within(r, rest) \subseteq Heard(r) /\ Within(q, rest) \subseteq Heard(r)
    BY <1>2, <1>4, <1>7 DEF Within
<1>10. Keeps(r, s)
    <2>1. Heeded(r) => /\ Chain(r.shown, r.queue, rest, Tail(r.lock))
                       /\ r.shared # {} => r.queue = <<>>
                       /\ t.kind # "send"
        BY <1>5, <1>6
    <2>2. Went(r, rest, p)
        BY <1>2, <1>4, <2>1, DecryptWent
    <2>3. Shaped(p)
        BY <1>2, DecryptStep, StaysShaped
    <2> HIDE DEF p
    <2>4. Keeps(r, p)
        BY <1>9, <2>2, WentKeeps
    <2> QED BY <2>3, <2>4, FailedKeeps
<1>11. Carries(r, d) /\ Forward(r, d)
    <2>1. Holding(q) /\ (Heeded(q) <=> Heeded(r))
        BY <1>2, <1>7 DEF Holding, Kept, Heeded
    <2>2. Heeded(q) => /\ Chain(q.shown, q.queue, rest, Tail(q.lock))
                       /\ q.shared # {} => q.queue = <<>>
                       /\ t.kind # "send"
        BY <1>5, <1>6, <1>7, <2>1
    <2>3. Went(q, rest, d)
        BY <1>2, <1>4, <2>1, <2>2, DecryptWent
    <2> HIDE DEF d
    <2>4. Carries(r, d)
        BY <1>7, <1>9, <2>3 DEF Went, Carries
    <2>5. Forward(r, d)
        BY <1>6, <1>7, <2>3 DEF Went, Forward, Heeded
    <2> QED BY <2>4, <2>5
<1> HIDE DEF s, d
<1>12. CASE Becomes(c, d) /\ relay' = HangsUpIf(c, d, relay)
    BY <1>8, <1>11, <1>12, OneMoves
<1>13. CASE Becomes(c, s) /\ relay' = HangsUpIf(c, s, relay)
    BY <1>8, <1>10, <1>13, StillOrdered
<1> QED BY <1>1, <1>12, <1>13

LEMMA OrderInit == Init => OrderInv
<1> SUFFICES ASSUME Init PROVE OrderInv
    OBVIOUS
<1> DEFINE r == [NewClient EXCEPT !.dropped = TRUE]
<1>1. client = [c \in Clients |-> r] /\ relay.net = [c \in Clients |-> <<>>]
    BY DEF Init, RelayInit
<1>2. /\ r.queue = <<>> /\ r.lock = <<>> /\ r.transport = "closed"
      /\ r.shown = 0 /\ r.said = 0
    BY DEF NewClient
<1> HIDE DEF r
<1>3. Orderly(r)
    BY <1>2, Empty DEF Orderly, Kept
<1>4. Heard(r) = {0}
    BY <1>2, NoNumbers DEF Heard
<1>5. Passes(r, <<>>, r)
    BY <1>2, <1>4, NoNumbers DEF Passes, Below
<1> QED BY <1>1, <1>3, <1>5, SeatInit DEF OrderInv

LEMMA OrderStep == OrderInv /\ [Next]_vars => OrderedStep
<1> SUFFICES ASSUME OrderInv, [Next]_vars PROVE OrderedStep
    OBVIOUS
<1>1. SeatInv'
    BY SeatStep DEF OrderInv
<1>2. ASSUME NEW c \in Clients, Owner(c) PROVE OrderedStep
    BY <1>1, <1>2, OpenOrdered, ReconnectOrdered, SayOrdered, LeaveOrdered DEF Owner
<1>3. ASSUME NEW c \in Clients, Request(c) PROVE OrderedStep
    BY <1>1, <1>3, AttemptOrdered, ConnectFailsOrdered, ConnectedOrdered, RequestOrdered,
       TimesOutOrdered, SealedOrdered DEF Request
<1>4. ASSUME NEW c \in Clients, Event(c) PROVE OrderedStep
    BY <1>1, <1>4, CreatedOrdered, JoinedOrdered, KeyHeardOrdered, ChatHeardOrdered, LeftOrdered,
       ExpiredOrdered, ErrorOrdered, SocketOrdered, ClosingOrdered, ClosedOrdered DEF Event, FrameArrives
<1>5. ASSUME NEW c \in Clients, LockStep(c) PROVE OrderedStep
    BY <1>1, <1>5, StartOrdered, ExportedOrdered, ImportedOrdered, DerivedOrdered,
       PrintedOrdered, DecryptedOrdered DEF LockStep
<1>6. ASSUME NEW c \in Clients, WireBreaks(c) PROVE OrderedStep
    BY <1>1, <1>6, SocketOrdered
<1>7. CASE RelayStep
    <2>1. RelayOK(relay) /\ UNCHANGED client
        BY <1>7 DEF OrderInv, SeatInv, Fine, RelayStep
    <2>2. Mutes(relay, relay')
        BY <1>7, <2>1, RelayStepMutes
    <2> QED BY <1>1, <2>1, <2>2, NobodyMoves
<1>8. CASE UNCHANGED vars
    <2>1. UNCHANGED client /\ relay' = relay /\ RelayOK(relay)
        BY <1>8 DEF vars, OrderInv, SeatInv, Fine
    <2>2. Mutes(relay, relay')
        BY <2>1, OKLined, MutesNot
    <2> QED BY <1>1, <2>1, <2>2, NobodyMoves
<1> QED BY <1>2, <1>3, <1>4, <1>5, <1>6, <1>7, <1>8 DEF Next

(* In every order of calls, frames, handlers and failures: the chats an    *)
(* end has heard are below those on their way to it, and none is above     *)
(* what its partner has sent; what it has heard and not shown stands in    *)
(* line.                                                                   *)
THEOREM ChatsStandInLine == Spec => []OrderInv
<1>1. OrderInv /\ [Next]_vars => OrderInv'
    BY OrderStep DEF OrderedStep
<1> QED BY <1>1, OrderInit, PTL DEF Spec

(* Each time an end that no reset has overtaken and whose socket sends     *)
(* shows a chat, it is one sent after the chat it showed before: the order *)
(* is kept and none is shown twice, not even twice in a row, however often *)
(* they were queued for a key on the way.                                  *)
THEOREM ChatsAreShownInOrder == Spec => InOrder
<1> DEFINE Turn == \A c \in Clients :
        client'[c].displays # client[c].displays /\ ~client[c].raced
            /\ client[c].transport = "open"
        => client'[c].shown > client[c].shown
<1>1. OrderInv /\ [Next]_vars => Turn
    BY OrderStep DEF OrderedStep, Forward
<1>2. InOrder <=> [][Turn]_vars
    BY DEF InOrder
<1> HIDE DEF Turn
<1> QED BY <1>1, <1>2, ChatsStandInLine, PTL DEF Spec
=============================================================================
