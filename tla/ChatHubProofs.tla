--------------------------- MODULE ChatHubProofs ----------------------------
(***************************************************************************)
(* Proofs about the chat hub: every socket has somebody to close it, the   *)
(* cap on chats holds and the store follows the hub, for any number of     *)
(* chats, clients and calls in flight, and any caps.                       *)
(***************************************************************************)
EXTENDS ChatHub, FiniteSetTheorems, TLAPS

----------------------------------------------------------------------------
(* The inductive invariant, of any state A of the app.                     *)

Status   == {"disconnected", "connecting", "live", "expired"}
SomeChat == Chats \union {None}
Numbers  == 1..MaxClients
Op == {"none", "create", "join", "ensure", "retry", "send", "inbox", "ring"}
ClientT == [
    chat : SomeChat, phase : {"idle", "attempt", "pause", "rpc", "hung"},
    asked : {"none", "open", "ring", "reconnect"}, tries : Nat,
    status : Status,
    socket : BOOLEAN, named : BOOLEAN, late : BOOLEAN, undead : BOOLEAN,
    crowded : BOOLEAN]
CallT == [pc : {"idle", "opens", "reconnects", "waits", "resumes"},
          op : Op, chat : SomeChat, on : Nat]
AppT == [
    platform : {"web", "mobile"}, held : [Chats -> Nat],
    opening : [Chats -> Tasks \union {None}], client : [Numbers -> ClientT],
    made : 0..MaxClients, task : [Tasks -> CallT], shown : SUBSET Chats,
    unread : [Chats -> Nat], active : SomeChat, sealing : [Chats -> Nat],
    resumed : SUBSET Numbers, calls : Nat, events : Nat, returned : SUBSET Chats]

Made(A) == 1..A.made

\* The client of a chat exists, is of that chat and is not being rung.
HeldOK(A) == \A s \in Chats : A.held[s] # 0 =>
    /\ A.held[s] \in Made(A)
    /\ A.client[A.held[s]].chat = s
    /\ A.client[A.held[s]].asked # "ring"

\* The task that runs openNow for a chat has not ended.
OpeningOK(A) == \A s \in Chats : A.opening[s] # None =>
    /\ A.task[A.opening[s]].pc \in {"opens", "reconnects"}
    /\ A.task[A.opening[s]].chat = s

\* A call is on a client of its chat.  While it opens the chat nobody else
\* does, so that the hub holds its client or none for that chat.
OpensOK(A, t) == LET c == A.task[t] IN
    /\ c.on \in Made(A) /\ A.client[c.on].chat = c.chat
    /\ IF c.chat = None
       THEN A.client[c.on].asked = "ring" /\ c.op = "ring"
       ELSE A.opening[c.chat] = t /\ A.held[c.chat] \in {0, c.on}

ReconnectsOK(A, t) == LET c == A.task[t] IN
    /\ c.on \in Made(A) /\ c.chat # None /\ A.client[c.on].chat = c.chat

\* A call waits for somebody else's open, never for a ring.
WaitsOK(c) == c.chat # None /\ c.op # "ring"

ResumesOK(A, t) == LET c == A.task[t] IN
    A.held[c.chat] # 0 \/ A.opening[c.chat] = None

CallsOK(A) == \A t \in Tasks : LET c == A.task[t] IN
    /\ c.pc = "opens" => OpensOK(A, t)
    /\ c.pc = "reconnects" => ReconnectsOK(A, t)
    /\ c.pc \in {"waits", "resumes"} => WaitsOK(c)
    /\ c.pc = "resumes" => ResumesOK(A, t)

\* A client that can still come to a socket, or has one, is held, was
\* disconnected between two attempts, or is being rung by a call that waits.
ClientOK(A, o) == LET c == A.client[o] IN
    /\ c.asked = "ring" => c.chat = None /\ \E t \in Tasks :
           A.task[t].pc = "opens" /\ A.task[t].on = o
    /\ c.chat = None => (c.asked = "ring" \/ c.phase = "idle") /\ ~c.late
    /\ c.phase \in {"attempt", "pause"} \/ c.socket =>
           IsHeld(A, o) \/ c.undead \/ c.asked = "ring"

ClientsOK(A) == \A o \in Made(A) : ClientOK(A, o)

\* Each waiting call may need a client of its own.
Pending(A) == {t \in Tasks : A.task[t].pc \in {"waits", "resumes"}}
RoomOK(A)  == A.made + Cardinality(Pending(A)) <= MaxClients

HeldChats(A) == {s \in Chats : A.held[s] # 0}
Counted(A)   == {s \in HeldChats(A) : ~A.client[A.held[s]].crowded}
CapOK(A)     == IsFiniteSet(HeldChats(A)) /\ Cardinality(Counted(A)) <= MAX_CHATS

StoreOK(A) ==
    /\ HeldChats(A) \subseteq A.shown
    /\ \A s \in A.shown : A.held[s] = 0 => s \in A.returned
    /\ \A s \in Chats : A.unread[s] > 0 => s \in A.shown /\ A.active # s

HubOK(A) == A \in AppT /\ HeldOK(A) /\ OpeningOK(A) /\ CallsOK(A) /\ ClientsOK(A)

HubInv == HubOK(app) /\ RoomOK(app) /\ CapOK(app) /\ StoreOK(app)

----------------------------------------------------------------------------
(* What the operators of the store and of the hub do to a typed app.       *)

SameHub(A, B) ==
    /\ B.held = A.held /\ B.opening = A.opening /\ B.client = A.client
    /\ B.made = A.made /\ B.task = A.task

SameStore(A, B) ==
    /\ B.shown = A.shown /\ B.returned = A.returned
    /\ B.unread = A.unread /\ B.active = A.active

WithStatus(c, st) == [c EXCEPT !.status = st]

LEMMA ClientTyped == Client \in ClientT /\ NoCall \in CallT
BY DEF Status, Client, ClientT, NoCall, CallT, SomeChat, Op

LEMMA MadeTyped ==
    ASSUME NEW A \in AppT
    PROVE  A.made \in Nat /\ A.made <= MaxClients /\ Made(A) \subseteq Numbers
<1>1. A.made \in 0..MaxClients /\ MaxClients \in Nat
  BY HubAssumption DEF AppT
<1> QED BY <1>1 DEF Made, Numbers

LEMMA UpsertIs ==
    ASSUME NEW A \in AppT, NEW s \in Chats
    PROVE  /\ UpsertChat(A, s) \in AppT /\ SameHub(A, UpsertChat(A, s))
           /\ UpsertChat(A, s).shown = A.shown \union {s}
           /\ UpsertChat(A, s).returned = A.returned
           /\ UpsertChat(A, s).unread = A.unread
           /\ UpsertChat(A, s).active = A.active
           /\ UpsertChat(A, s).platform = A.platform
BY DEF UpsertChat, AppT, SameHub

LEMMA RemoveIs ==
    ASSUME NEW A \in AppT, NEW s \in Chats
    PROVE  /\ RemoveChat(A, s) \in AppT /\ SameHub(A, RemoveChat(A, s))
           /\ RemoveChat(A, s).shown = A.shown \ {s}
           /\ RemoveChat(A, s).returned = A.returned \ {s}
           /\ RemoveChat(A, s).unread = [A.unread EXCEPT ![s] = 0]
           /\ RemoveChat(A, s).active \in {A.active, None}
           /\ RemoveChat(A, s).platform = A.platform
BY DEF RemoveChat, AppT, SameHub, SomeChat

LEMMA SetActiveIs ==
    ASSUME NEW A \in AppT, NEW s \in Chats
    PROVE  /\ SetActive(A, s) \in AppT /\ SameHub(A, SetActive(A, s))
           /\ SetActive(A, s).shown = A.shown
           /\ SetActive(A, s).returned = A.returned
           /\ SetActive(A, s).unread = [A.unread EXCEPT ![s] = 0]
           /\ SetActive(A, s).active = s
           /\ SetActive(A, s).platform = A.platform
BY DEF SetActive, AppT, SameHub, SomeChat

LEMMA PatchIs ==
    ASSUME NEW A \in AppT, NEW c \in ClientT
    PROVE  /\ Patch(A, c) \in AppT /\ SameHub(A, Patch(A, c))
           /\ Patch(A, c).shown = A.shown \union ChatOf(c)
           /\ Patch(A, c).returned =
                A.returned \union IF c.undead \/ c.late THEN ChatOf(c) ELSE {}
           /\ Patch(A, c).unread = A.unread
           /\ Patch(A, c).active = A.active
           /\ Patch(A, c).platform = A.platform
<1>1. ChatOf(c) \subseteq Chats
  BY DEF ChatOf, ClientT, SomeChat
<1> QED BY <1>1 DEF Patch, AppT, SameHub

----------------------------------------------------------------------------
(* The store.                                                              *)

\* The store follows the hub, for all chats but s.
StoreBut(A, s) ==
    /\ HeldChats(A) \ {s} \subseteq A.shown
    /\ \A x \in A.shown \ {s} : A.held[x] = 0 => x \in A.returned
    /\ \A x \in Chats \ {s} : A.unread[x] > 0 => x \in A.shown /\ A.active # x

LEMMA StoreSame ==
    ASSUME NEW A, NEW B, StoreOK(A), SameStore(A, B), B.held = A.held
    PROVE  StoreOK(B)
BY DEF StoreOK, SameStore, HeldChats

LEMMA StoreUpsert ==
    ASSUME NEW A \in AppT, NEW s \in Chats, StoreOK(A),
           A.held[s] # 0 \/ s \in A.returned
    PROVE  StoreOK(UpsertChat(A, s))
BY UpsertIs DEF StoreOK, HeldChats, SameHub, AppT

LEMMA StoreSetActive ==
    ASSUME NEW A \in AppT, NEW s \in Chats, StoreOK(A)
    PROVE  StoreOK(SetActive(A, s))
<1> DEFINE B == SetActive(A, s)
<1>1. /\ B.held = A.held /\ B.shown = A.shown /\ B.returned = A.returned
      /\ B.unread = [A.unread EXCEPT ![s] = 0] /\ B.active = s
  BY SetActiveIs DEF SameHub
<1>2. A.unread \in [Chats -> Nat]
  BY DEF AppT
<1> HIDE DEF B
<1>3. \A x \in Chats : B.unread[x] > 0 => x # s /\ A.unread[x] > 0
  BY <1>1, <1>2
<1>4. HeldChats(B) = HeldChats(A)
  BY <1>1 DEF HeldChats
<1>5. StoreOK(B)
  BY <1>1, <1>3, <1>4 DEF StoreOK
<1> QED BY <1>5 DEF B

LEMMA StorePatch ==
    ASSUME NEW A \in AppT, NEW c \in ClientT, StoreOK(A),
           c.chat # None => A.held[c.chat] # 0 \/ c.undead \/ c.late
    PROVE  StoreOK(Patch(A, c))
BY PatchIs DEF StoreOK, HeldChats, SameHub, AppT, ChatOf

LEMMA StoreButPatch ==
    ASSUME NEW A \in AppT, NEW c \in ClientT, StoreBut(A, c.chat)
    PROVE  StoreBut(Patch(A, c), c.chat)
BY PatchIs DEF StoreBut, HeldChats, SameHub, AppT, ChatOf

LEMMA StoreRemove ==
    ASSUME NEW A \in AppT, NEW s \in Chats, StoreBut(A, s), A.held[s] = 0
    PROVE  StoreOK(RemoveChat(A, s))
<1> DEFINE B == RemoveChat(A, s)
<1>1. /\ B.held = A.held /\ B.shown = A.shown \ {s} /\ B.returned = A.returned \ {s}
      /\ B.unread = [A.unread EXCEPT ![s] = 0] /\ B.active \in {A.active, None}
  BY RemoveIs DEF SameHub
<1>2. A.unread \in [Chats -> Nat] /\ A.shown \subseteq Chats /\ None \notin Chats
  BY HubAssumption DEF AppT
<1> HIDE DEF B
<1>3. \A x \in Chats : B.unread[x] > 0 => x # s /\ A.unread[x] > 0
  BY <1>1, <1>2
<1>4. HeldChats(B) \subseteq B.shown
  BY <1>1 DEF StoreBut, HeldChats
<1>5. \A x \in B.shown : B.held[x] = 0 => x \in B.returned
  BY <1>1 DEF StoreBut
<1>6. \A x \in Chats : B.unread[x] > 0 => x \in B.shown /\ B.active # x
  BY <1>1, <1>2, <1>3 DEF StoreBut
<1>7. StoreOK(B)
  BY <1>4, <1>5, <1>6 DEF StoreOK
<1> QED BY <1>7 DEF B

----------------------------------------------------------------------------
(* Clients that are disconnected, and calls that end.                      *)

LEMMA RestatusIs ==
    ASSUME NEW A \in AppT, NEW o \in Numbers,
           NEW st \in Status
    PROVE  LET P == [A EXCEPT !.client[o] = WithStatus(@, st)] IN
           /\ P \in AppT
           /\ P.client = [A.client EXCEPT ![o] = WithStatus(@, st)]
           /\ P.held = A.held /\ P.opening = A.opening
           /\ P.made = A.made /\ P.task = A.task
           /\ SameStore(A, P)
<1>1. A.client[o] \in ClientT
  BY DEF AppT
<1>2. WithStatus(A.client[o], st) \in ClientT
  BY <1>1 DEF ClientT, WithStatus
<1>3. [A EXCEPT !.client[o] = WithStatus(@, st)] \in AppT
  BY <1>2 DEF AppT
<1> QED BY <1>3 DEF AppT, SameStore

LEMMA SetStatusIs ==
    ASSUME NEW A \in AppT, NEW o \in Numbers, app \in AppT,
           NEW st \in Status
    PROVE  LET B == SetStatus(A, o, st) IN
           /\ B \in AppT
           /\ B.client = [A.client EXCEPT ![o] = WithStatus(@, st)]
           /\ B.held = A.held /\ B.opening = A.opening
           /\ B.made = A.made /\ B.task = A.task
           /\ app.client[o].undead => ChatOf(app.client[o]) \subseteq B.returned
<1> DEFINE P == [A EXCEPT !.client[o] = WithStatus(@, st)]
<1>1. /\ P \in AppT /\ P.client = [A.client EXCEPT ![o] = WithStatus(@, st)]
      /\ P.held = A.held /\ P.opening = A.opening
      /\ P.made = A.made /\ P.task = A.task
  BY RestatusIs
<1>2. app.client[o] \in ClientT
  BY DEF AppT
<1>3. SetStatus(A, o, st) = Patch(P, app.client[o])
  BY DEF SetStatus, WithStatus
<1> HIDE DEF P
<1>4. /\ Patch(P, app.client[o]) \in AppT /\ SameHub(P, Patch(P, app.client[o]))
      /\ app.client[o].undead => ChatOf(app.client[o]) \subseteq Patch(P, app.client[o]).returned
  BY <1>1, <1>2, PatchIs
<1> QED BY <1>1, <1>3, <1>4 DEF SameHub

LEMMA SetStatusStore ==
    ASSUME NEW A \in AppT, NEW o \in Numbers, app \in AppT,
           NEW st \in Status,
           StoreOK(A), LET c == app.client[o] IN
               c.chat # None => A.held[c.chat] # 0 \/ c.undead \/ c.late
    PROVE  StoreOK(SetStatus(A, o, st))
<1> DEFINE P == [A EXCEPT !.client[o] = WithStatus(@, st)]
<1>1. P \in AppT /\ P.held = A.held /\ SameStore(A, P)
  BY RestatusIs
<1>2. app.client[o] \in ClientT
  BY DEF AppT
<1>3. SetStatus(A, o, st) = Patch(P, app.client[o])
  BY DEF SetStatus, WithStatus
<1> HIDE DEF P
<1>4. StoreOK(P)
  BY <1>1, StoreSame
<1>5. StoreOK(Patch(P, app.client[o]))
  BY <1>1, <1>2, <1>4, StorePatch
<1> QED BY <1>3, <1>5

LEMMA ClosedTyped ==
    ASSUME NEW c \in ClientT
    PROVE  /\ Closed(c) \in ClientT /\ Closed(c).chat = c.chat
           /\ Closed(c).asked = c.asked /\ Closed(c).late = c.late
           /\ Closed(c).crowded = c.crowded
           /\ ~Closed(c).socket
           /\ c.phase = "idle" => Closed(c).phase = "idle"
           /\ Closed(c).phase # "attempt"
           /\ Closed(c).phase = "pause" => Closed(c).undead
           /\ c.undead => Closed(c).undead
<1>1. Closed(c) \in ClientT
  BY DEF Closed, ClientT, Status
<1>2. /\ Closed(c).chat = c.chat /\ Closed(c).asked = c.asked /\ Closed(c).late = c.late
      /\ Closed(c).crowded = c.crowded /\ Closed(c).socket = FALSE
  BY DEF Closed, ClientT
<1>3. /\ Closed(c).phase = IF c.phase = "attempt" THEN "hung" ELSE c.phase
      /\ Closed(c).undead = (c.undead \/ c.phase = "pause")
  BY DEF Closed, ClientT
<1> QED BY <1>1, <1>2, <1>3

LEMMA DisconnectIs ==
    ASSUME NEW A \in AppT, NEW o \in Numbers, app \in AppT
    PROVE  LET B == Disconnect(A, o) IN
           /\ B \in AppT
           /\ B.client = [A.client EXCEPT ![o] = Closed(@)]
           /\ B.held = A.held /\ B.opening = A.opening
           /\ B.made = A.made /\ B.task = A.task
           /\ StoreBut(A, app.client[o].chat) => StoreBut(B, app.client[o].chat)
           /\ StoreOK(A) /\ app.client[o].chat = None => StoreOK(B)
<1> DEFINE P == [A EXCEPT !.client[o] = Closed(@)]
<1>0. A.client[o] \in ClientT
  BY DEF AppT
<1>1. P \in AppT /\ P.client = [A.client EXCEPT ![o] = Closed(@)]
  BY <1>0, ClosedTyped DEF AppT
<1>2. /\ P.held = A.held /\ P.opening = A.opening /\ P.made = A.made /\ P.task = A.task
      /\ SameStore(A, P)
  BY DEF AppT, SameStore
<1>3. app.client[o] \in ClientT
  BY DEF AppT
<1>4. StoreOK(A) => StoreOK(P)
  BY <1>2, StoreSame
<1>5. StoreBut(A, app.client[o].chat) => StoreBut(P, app.client[o].chat)
  BY <1>2 DEF StoreBut, SameStore, HeldChats
<1> HIDE DEF P
<1>6. Patch(P, app.client[o]) \in AppT /\ SameHub(P, Patch(P, app.client[o]))
  BY <1>1, <1>3, PatchIs
<1>7. Disconnect(A, o) \in {P, Patch(P, app.client[o])}
  BY DEF Disconnect, P
<1>8. StoreBut(P, app.client[o].chat) => StoreBut(Patch(P, app.client[o]), app.client[o].chat)
  BY <1>1, <1>3, StoreButPatch
<1>9. StoreOK(P) /\ app.client[o].chat = None => StoreOK(Patch(P, app.client[o]))
  BY <1>1, <1>3, StorePatch
<1> QED BY <1>1, <1>2, <1>4, <1>5, <1>6, <1>7, <1>8, <1>9 DEF SameHub

LEMMA DropIs ==
    ASSUME NEW A \in AppT, NEW s \in Chats
    PROVE  LET B == Drop(A, s) IN
           /\ B \in AppT /\ B.client = A.client
           /\ B.held = [A.held EXCEPT ![s] = 0]
           /\ B.opening = A.opening /\ B.made = A.made /\ B.task = A.task
           /\ StoreBut(A, s) => StoreOK(B)
<1> DEFINE P == [A EXCEPT !.held[s] = 0]
<1>1. /\ P \in AppT /\ P.held = [A.held EXCEPT ![s] = 0] /\ P.client = A.client
      /\ P.opening = A.opening /\ P.made = A.made /\ P.task = A.task
      /\ SameStore(A, P) /\ P.held[s] = 0
  BY DEF AppT, SameStore
<1>2. StoreBut(A, s) => StoreBut(P, s)
  BY <1>1 DEF StoreBut, SameStore, HeldChats, AppT
<1>3. Drop(A, s) = RemoveChat(P, s)
  BY DEF Drop
<1> HIDE DEF P
<1>4. RemoveChat(P, s) \in AppT /\ SameHub(P, RemoveChat(P, s))
  BY <1>1, RemoveIs
<1>5. StoreBut(A, s) => StoreOK(RemoveChat(P, s))
  BY <1>1, <1>2, StoreRemove
<1> QED BY <1>1, <1>3, <1>4, <1>5 DEF SameHub

LEMMA EndsWellIs ==
    ASSUME NEW A \in AppT, NEW s \in Chats, NEW ops
    PROVE  LET B == EndsWell(A, s, ops) IN
           /\ B \in AppT /\ SameHub(A, B)
           /\ StoreOK(A) /\ (A.held[s] # 0 \/ s \in A.returned) => StoreOK(B)
<1> DEFINE U == UpsertChat(A, s)
<1>1. /\ U \in AppT /\ SameHub(A, U)
      /\ StoreOK(A) /\ (A.held[s] # 0 \/ s \in A.returned) => StoreOK(U)
  BY UpsertIs, StoreUpsert
<1>2. EndsWell(A, s, ops) \in {A, SetActive(U, s)}
  BY DEF EndsWell
<1> HIDE DEF U
<1>3. /\ SetActive(U, s) \in AppT /\ SameHub(U, SetActive(U, s))
      /\ StoreOK(U) => StoreOK(SetActive(U, s))
  BY <1>1, SetActiveIs, StoreSetActive
<1>4. SameHub(A, A) /\ SameHub(A, SetActive(U, s))
  BY <1>1, <1>3 DEF SameHub
<1> QED BY <1>1, <1>2, <1>3, <1>4

LEMMA EndsBadlyIs ==
    ASSUME NEW A \in AppT, NEW s, NEW ops,
           s \in Chats \/ ops \subseteq {"ring"}
    PROVE  LET B == EndsBadly(A, s, ops) IN
           /\ B \in AppT /\ SameHub(A, B)
           /\ StoreOK(A) => StoreOK(B)
<1>1. CASE EndsBadly(A, s, ops) = A
  BY <1>1 DEF SameHub
<1>2. CASE s \in Chats /\ EndsBadly(A, s, ops) = [UpsertChat(A, s) EXCEPT !.returned = @ \union {s}]
  <2> DEFINE U == UpsertChat(A, s)
             B == [U EXCEPT !.returned = @ \union {s}]
  <2>1. /\ U \in AppT /\ SameHub(A, U) /\ U.shown = A.shown \union {s}
        /\ U.returned = A.returned /\ U.unread = A.unread /\ U.active = A.active
    BY <1>2, UpsertIs
  <2> HIDE DEF U
  <2>2. /\ B \in AppT /\ SameHub(U, B) /\ B.shown = U.shown /\ B.unread = U.unread
        /\ B.active = U.active /\ B.returned = U.returned \union {s}
    BY <1>2, <2>1 DEF AppT, SameHub
  <2> HIDE DEF B
  <2>3. SameHub(A, B)
    BY <2>1, <2>2 DEF SameHub
  <2>4. StoreOK(A) => StoreOK(B)
    BY <2>1, <2>2, <2>3 DEF StoreOK, HeldChats, SameHub
  <2>5. EndsBadly(A, s, ops) = B
    BY <1>2 DEF B, U
  <2> QED BY <2>2, <2>3, <2>4, <2>5
<1> QED BY <1>1, <1>2 DEF EndsBadly

\* The calls T end; a call that waited ends too or goes on.
Ends(A, B, T) ==
    /\ \A x \in Chats : B.opening[x] = IF A.opening[x] \in T THEN None ELSE A.opening[x]
    /\ \A t \in T : B.task[t] = NoCall
    /\ \A t \in Tasks \ T :
          \/ B.task[t] = A.task[t]
          \/ A.task[t].pc = "waits" /\ B.task[t] = NoCall
          \/ /\ A.task[t].pc = "waits" /\ A.opening[A.task[t].chat] \in T
             /\ B.task[t] = [A.task[t] EXCEPT !.pc = "resumes"]

LEMMA FinishIs ==
    ASSUME NEW A \in AppT, NEW T \in SUBSET Tasks, NEW s \in SomeChat, NEW ok \in BOOLEAN,
           A.opening = app.opening, A.task = app.task,
           s \in Chats \/ (~ok /\ \A t \in T : A.task[t].op = "ring"),
           \A t \in T : A.task[t].pc # "waits"
    PROVE  LET B == Finish(A, T, s, ok) IN
           /\ B \in AppT /\ Ends(A, B, T)
           /\ B.held = A.held /\ B.client = A.client /\ B.made = A.made
           /\ StoreOK(A) /\ (ok => A.held[s] # 0 \/ s \in A.returned) => StoreOK(B)
<1> DEFINE waiters == {t \in Tasks : /\ s # None /\ app.opening[s] \in T
                                     /\ app.task[t].pc = "waits" /\ app.task[t].chat = s}
           again == IF ok /\ A.held[s] = 0 THEN waiters ELSE {}
           ended == (T \union waiters) \ again
           ops == {app.task[t].op : t \in ended}
           P == [A EXCEPT
                !.opening = [x \in Chats |-> IF @[x] \in T THEN None ELSE @[x]],
                !.task = [t \in Tasks |-> IF t \in ended THEN NoCall
                                          ELSE IF t \in again THEN [@[t] EXCEPT !.pc = "resumes"]
                                          ELSE @[t]]]
<1>1. Finish(A, T, s, ok) = IF ok THEN EndsWell(P, s, ops) ELSE EndsBadly(P, s, ops)
  BY Zenon DEF Finish
<1>2. ended \subseteq Tasks /\ again \subseteq waiters /\ T \subseteq ended
  OBVIOUS
<1>3. /\ A.opening \in [Chats -> Tasks \union {None}]
      /\ A.task \in [Tasks -> CallT]
  BY DEF AppT
<1>4. \A t \in Tasks : [A.task[t] EXCEPT !.pc = "resumes"] \in CallT
  BY <1>3 DEF CallT
<1>5. /\ [x \in Chats |-> IF A.opening[x] \in T THEN None ELSE A.opening[x]]
            \in [Chats -> Tasks \union {None}]
      /\ [t \in Tasks |-> IF t \in ended THEN NoCall
                          ELSE IF t \in again THEN [A.task[t] EXCEPT !.pc = "resumes"]
                          ELSE A.task[t]] \in [Tasks -> CallT]
  BY <1>3, <1>4, ClientTyped
<1>6. s \in Chats \/ (~ok /\ ops \subseteq {"ring"})
  BY HubAssumption DEF SomeChat
<1>7. \A t \in waiters : A.task[t].pc = "waits" /\ A.opening[A.task[t].chat] \in T
  OBVIOUS
<1> HIDE DEF ended, again, waiters, ops
<1>8. /\ P.opening = [x \in Chats |-> IF A.opening[x] \in T THEN None ELSE A.opening[x]]
      /\ P.task = [t \in Tasks |-> IF t \in ended THEN NoCall
                                   ELSE IF t \in again THEN [A.task[t] EXCEPT !.pc = "resumes"]
                                   ELSE A.task[t]]
      /\ P.held = A.held /\ P.client = A.client /\ P.made = A.made /\ SameStore(A, P)
  BY DEF AppT, SameStore
<1>9. P \in AppT
  BY <1>5 DEF AppT
<1>10. ended \subseteq T \union waiters
  BY DEF ended
<1> HIDE DEF P
<1>11. Ends(A, P, T)
  BY <1>2, <1>7, <1>8, <1>10 DEF Ends
<1>12. StoreOK(A) => StoreOK(P)
  BY <1>8, StoreSame
<1>13. ASSUME NEW B, SameHub(P, B)
       PROVE  Ends(A, B, T) /\ B.held = A.held /\ B.client = A.client /\ B.made = A.made
  <2>1. /\ B.opening = P.opening /\ B.task = P.task /\ B.held = A.held
        /\ B.client = A.client /\ B.made = A.made
    BY <1>8, <1>13 DEF SameHub
  <2>2. Ends(A, B, T)
    BY <1>11, <2>1 DEF Ends
  <2> QED BY <2>1, <2>2
<1>14. P.returned = A.returned
  BY <1>8 DEF SameStore
<1>15. CASE ok
  <2>1. s \in Chats
    BY <1>6, <1>15
  <2>2. EndsWell(P, s, ops) \in AppT /\ SameHub(P, EndsWell(P, s, ops))
    BY <2>1, <1>9, EndsWellIs
  <2>3. StoreOK(P) /\ (P.held[s] # 0 \/ s \in P.returned) => StoreOK(EndsWell(P, s, ops))
    BY <2>1, <1>9, EndsWellIs
  <2> QED BY <1>1, <1>8, <1>12, <1>13, <1>14, <1>15, <2>2, <2>3
<1>16. CASE ~ok
  <2>1. s \in Chats \/ ops \subseteq {"ring"}
    BY <1>6
  <2>2. EndsBadly(P, s, ops) \in AppT /\ SameHub(P, EndsBadly(P, s, ops))
    BY <2>1, <1>9, EndsBadlyIs
  <2>3. StoreOK(P) => StoreOK(EndsBadly(P, s, ops))
    BY <2>1, <1>9, EndsBadlyIs
  <2> QED BY <1>1, <1>12, <1>13, <1>16, <2>2, <2>3
<1> QED BY <1>15, <1>16

LEMMA EndsRoom ==
    ASSUME NEW A, NEW B, NEW T, Ends(A, B, T), B.made = A.made, RoomOK(A),
           A.made \in Nat
    PROVE  RoomOK(B)
<1>1. ASSUME NEW t \in Pending(B)
      PROVE  t \in Pending(A)
  <2>1. t \in Tasks /\ B.task[t].pc \in {"waits", "resumes"}
    BY <1>1 DEF Pending
  <2>2. B.task[t] # NoCall
    BY <2>1 DEF NoCall
  <2>3. B.task[t] = A.task[t] \/ A.task[t].pc = "waits"
    BY <2>1, <2>2 DEF Ends
  <2> QED BY <2>1, <2>3 DEF Pending
<1>2. IsFiniteSet(Pending(A)) /\ IsFiniteSet(Pending(B))
  BY HubAssumption, FS_Subset DEF Pending
<1>3. /\ Cardinality(Pending(B)) <= Cardinality(Pending(A))
      /\ Cardinality(Pending(B)) \in Nat /\ Cardinality(Pending(A)) \in Nat
  BY <1>1, <1>2, FS_Subset, FS_CardinalityType
<1> QED BY <1>3, HubAssumption DEF RoomOK

----------------------------------------------------------------------------
(* A step of one client o of the hub: its request goes on or ends, with    *)
(* the calls T that waited for it, or the hub lets go of it.               *)

Silent(A) == \A t \in Tasks : A.task[t].pc # "resumes"

\* What such a step must respect.
ClientStep(A, B, o, T) ==
    LET c == A.client[o]
        d == B.client[o]
    IN
    /\ B \in AppT /\ B.made = A.made /\ Ends(A, B, T)
    /\ \A p \in Numbers \ {o} : B.client[p] = A.client[p]
    /\ \A x \in Chats : B.held[x] = A.held[x] \/ (B.held[x] = 0 /\ A.held[x] = o)
    /\ d.chat = c.chat /\ d.crowded = c.crowded
    /\ \A t \in T : A.task[t].on = o
    /\ d.asked = "ring" => c.asked = "ring" /\ T = {}
    /\ c.asked = "ring" /\ d.asked # "ring" =>
         \A t \in Tasks : A.task[t].pc = "opens" /\ A.task[t].on = o => t \in T
    /\ d.chat = None => (d.asked = "ring" \/ d.phase = "idle") /\ ~d.late
    /\ d.phase \in {"attempt", "pause"} \/ d.socket =>
         IsHeld(B, o) \/ d.undead \/ d.asked = "ring"

LEMMA HubAfterClientStep ==
    ASSUME NEW A, NEW B, NEW o \in Made(A), NEW T \in SUBSET Tasks,
           HubOK(A), Silent(A), ClientStep(A, B, o, T)
    PROVE  HubOK(B)
<1> DEFINE c == A.client[o]
           d == B.client[o]
<1>1. A \in AppT /\ B \in AppT /\ Made(A) \subseteq Numbers /\ B.made = A.made
  BY MadeTyped DEF HubOK, ClientStep
<1>2. \A p \in Made(A) : B.client[p].chat = A.client[p].chat
  BY <1>1 DEF ClientStep
<1>3. \A x \in Chats : B.held[x] \in {0, A.held[x]}
  BY DEF ClientStep
<1>4. \A t \in Tasks : A.task[t].pc \in {"opens", "reconnects"} /\ t \notin T
                         => B.task[t] = A.task[t]
  BY DEF ClientStep, Ends
<1>5. HeldOK(B)
  <2> SUFFICES ASSUME NEW s \in Chats, B.held[s] # 0
               PROVE  /\ B.held[s] \in Made(B)
                      /\ B.client[B.held[s]].chat = s
                      /\ B.client[B.held[s]].asked # "ring"
    BY DEF HeldOK
  <2>1. B.held[s] = A.held[s]
    BY <1>3
  <2>2. /\ A.held[s] \in Made(A) /\ A.client[A.held[s]].chat = s
        /\ A.client[A.held[s]].asked # "ring"
    BY <2>1 DEF HubOK, HeldOK
  <2>3. B.client[B.held[s]].asked # "ring"
    BY <1>1, <2>1, <2>2 DEF ClientStep
  <2> QED BY <1>1, <1>2, <2>1, <2>2, <2>3 DEF Made
<1>6. OpeningOK(B)
  <2> SUFFICES ASSUME NEW s \in Chats, B.opening[s] # None
               PROVE  /\ B.task[B.opening[s]].pc \in {"opens", "reconnects"}
                      /\ B.task[B.opening[s]].chat = s
    BY DEF OpeningOK
  <2>1. B.opening[s] = A.opening[s] /\ A.opening[s] \notin T
    BY DEF ClientStep, Ends
  <2>2. A.opening[s] \in Tasks
    BY <1>1, <2>1 DEF AppT
  <2>3. /\ A.task[A.opening[s]].pc \in {"opens", "reconnects"}
        /\ A.task[A.opening[s]].chat = s
    BY <2>1 DEF HubOK, OpeningOK
  <2> QED BY <1>4, <2>1, <2>2, <2>3
<1>7. CallsOK(B)
  <2> SUFFICES ASSUME NEW t \in Tasks
               PROVE  /\ B.task[t].pc = "opens" => OpensOK(B, t)
                      /\ B.task[t].pc = "reconnects" => ReconnectsOK(B, t)
                      /\ B.task[t].pc \in {"waits", "resumes"} => WaitsOK(B.task[t])
                      /\ B.task[t].pc = "resumes" => ResumesOK(B, t)
    BY DEF CallsOK
  <2>1. CASE B.task[t] = NoCall
    BY <2>1 DEF NoCall
  <2>2. CASE B.task[t] # NoCall /\ B.task[t] = A.task[t]
    <3>1. t \notin T
      BY <2>2 DEF ClientStep, Ends
    <3>2. A.task[t].chat \in SomeChat
      BY <1>1 DEF AppT, CallT
    <3>3. ASSUME A.task[t].pc = "opens"
          PROVE  OpensOK(B, t)
      <4>1. OpensOK(A, t)
        BY <3>3 DEF HubOK, CallsOK
      <4>2. CASE A.task[t].chat = None
        BY <1>1, <1>2, <2>2, <3>1, <3>3, <4>1, <4>2 DEF OpensOK, ClientStep, Made
      <4>3. CASE A.task[t].chat # None
        <5>1. A.task[t].chat \in Chats
          BY <3>2, <4>3 DEF SomeChat
        <5>2. B.opening[A.task[t].chat] = t
          BY <3>1, <4>1, <4>3, <5>1 DEF OpensOK, ClientStep, Ends
        <5> QED BY <1>1, <1>2, <1>3, <2>2, <4>1, <4>3, <5>1, <5>2 DEF OpensOK, Made
      <4> QED BY <4>2, <4>3
    <3>4. ASSUME A.task[t].pc = "reconnects"
          PROVE  ReconnectsOK(B, t)
      BY <1>1, <1>2, <2>2, <3>4 DEF HubOK, CallsOK, ReconnectsOK, Made
    <3>5. A.task[t].pc \in {"waits", "resumes"} => WaitsOK(A.task[t])
      BY DEF HubOK, CallsOK
    <3> QED BY <2>2, <3>3, <3>4, <3>5 DEF Silent
  <2>3. CASE /\ A.task[t].pc = "waits" /\ A.opening[A.task[t].chat] \in T
             /\ B.task[t] = [A.task[t] EXCEPT !.pc = "resumes"]
    <3>1. A.task[t] \in CallT
      BY <1>1 DEF AppT
    <3>2. /\ B.task[t].pc = "resumes" /\ B.task[t].chat = A.task[t].chat
          /\ B.task[t].op = A.task[t].op
      BY <2>3, <3>1 DEF CallT
    <3>3. A.task[t].chat # None /\ WaitsOK(B.task[t])
      BY <2>3, <3>2 DEF HubOK, CallsOK, WaitsOK
    <3>4. A.task[t].chat \in Chats
      BY <3>1, <3>3 DEF CallT, SomeChat
    <3>5. B.opening[A.task[t].chat] = None
      BY <2>3, <3>4 DEF ClientStep, Ends
    <3> QED BY <3>2, <3>3, <3>5 DEF ResumesOK
  <2> QED BY <2>1, <2>2, <2>3 DEF ClientStep, Ends
<1>8. ClientsOK(B)
  <2> SUFFICES ASSUME NEW p \in Made(A)
               PROVE  ClientOK(B, p)
    BY <1>1 DEF ClientsOK, Made
  <2>0. ClientOK(A, p)
    BY DEF HubOK, ClientsOK
  <2>1. CASE p # o
    <3>1. B.client[p] = A.client[p]
      BY <1>1, <2>1 DEF ClientStep
    <3>2. IsHeld(A, p) => IsHeld(B, p)
      BY <2>1 DEF IsHeld, ClientStep
    <3>3. \A t \in Tasks : A.task[t].pc = "opens" /\ A.task[t].on = p
                             => B.task[t] = A.task[t]
      BY <1>4, <2>1 DEF ClientStep
    <3> QED BY <2>0, <3>1, <3>2, <3>3 DEF ClientOK
  <2>2. CASE p = o
    <3>1. d.asked = "ring" => /\ d.chat = None
                              /\ \E t \in Tasks : B.task[t].pc = "opens" /\ B.task[t].on = o
      BY <1>4, <2>0, <2>2 DEF ClientStep, ClientOK
    <3> QED BY <2>2, <3>1 DEF ClientStep, ClientOK
  <2> QED BY <2>1, <2>2
<1> QED BY <1>1, <1>5, <1>6, <1>7, <1>8 DEF HubOK

----------------------------------------------------------------------------
(* The cap.                                                                *)

LEMMA CapShrinks ==
    ASSUME NEW A, NEW B, CapOK(A),
           \A x \in Chats : B.held[x] \in {0, A.held[x]},
           \A x \in Chats : B.held[x] # 0 =>
               B.client[B.held[x]].crowded = A.client[A.held[x]].crowded
    PROVE  CapOK(B)
<1>1. HeldChats(B) \subseteq HeldChats(A) /\ Counted(B) \subseteq Counted(A)
  BY DEF HeldChats, Counted
<1>2. IsFiniteSet(HeldChats(B)) /\ IsFiniteSet(Counted(A))
  BY <1>1, FS_Subset DEF CapOK, Counted
<1>3. IsFiniteSet(Counted(B)) /\ Cardinality(Counted(B)) <= Cardinality(Counted(A))
  BY <1>1, <1>2, FS_Subset
<1>4. Cardinality(Counted(B)) \in Nat /\ Cardinality(Counted(A)) \in Nat /\ MAX_CHATS \in Nat
  BY <1>2, <1>3, FS_CardinalityType, HubAssumption
<1> QED BY <1>2, <1>3, <1>4 DEF CapOK

LEMMA CapGrows ==
    ASSUME NEW A, NEW B, NEW s \in Chats, CapOK(A), A.held[s] = 0,
           \A x \in Chats \ {s} : B.held[x] = A.held[x],
           \A x \in Chats \ {s} : B.held[x] # 0 =>
               B.client[B.held[x]].crowded = A.client[A.held[x]].crowded,
           s \in Counted(B) => CanOpenChat(A)
    PROVE  CapOK(B)
<1>1. /\ HeldChats(B) \subseteq HeldChats(A) \union {s}
      /\ Counted(B) \subseteq Counted(A) \union {s}
      /\ s \notin Counted(B) => Counted(B) \subseteq Counted(A)
      /\ Counted(A) \subseteq HeldChats(A)
  BY DEF HeldChats, Counted
<1>2. /\ IsFiniteSet(HeldChats(A)) /\ IsFiniteSet(HeldChats(A) \union {s})
      /\ IsFiniteSet(HeldChats(B))
  BY <1>1, FS_Subset, FS_AddElement DEF CapOK
<1>3. /\ IsFiniteSet(Counted(A)) /\ IsFiniteSet(Counted(A) \union {s}) /\ IsFiniteSet(Counted(B))
      /\ Cardinality(Counted(A)) <= Cardinality(HeldChats(A))
  BY <1>1, <1>2, FS_Subset, FS_AddElement
<1>4. /\ Cardinality(Counted(A)) \in Nat /\ Cardinality(HeldChats(A)) \in Nat
      /\ Cardinality(Counted(B)) \in Nat /\ Cardinality(Counted(A) \union {s}) \in Nat
      /\ MAX_CHATS \in Nat
  BY <1>2, <1>3, FS_CardinalityType, HubAssumption
<1>5. CASE s \in Counted(B)
  <2>1. Cardinality(HeldChats(A)) < MAX_CHATS
    BY <1>5 DEF CanOpenChat, Size, HeldChats
  <2>2. Cardinality(Counted(A) \union {s}) <= Cardinality(Counted(A)) + 1
    BY <1>3, <1>4, FS_AddElement
  <2>3. Cardinality(Counted(B)) <= Cardinality(Counted(A) \union {s})
    BY <1>1, <1>3, FS_Subset
  <2> QED BY <1>2, <1>3, <1>4, <2>1, <2>2, <2>3 DEF CapOK
<1>6. CASE s \notin Counted(B)
  <2>1. Cardinality(Counted(B)) <= Cardinality(Counted(A))
    BY <1>1, <1>3, <1>6, FS_Subset
  <2> QED BY <1>2, <1>4, <2>1 DEF CapOK
<1> QED BY <1>5, <1>6

\* The parts of the invariant about the hub.
HubsOK(A) == HubOK(A) /\ RoomOK(A) /\ CapOK(A)

LEMMA HubsAfterClientStep ==
    ASSUME NEW A, NEW B, NEW o \in Made(A), NEW T \in SUBSET Tasks,
           HubsOK(A), Silent(A), ClientStep(A, B, o, T)
    PROVE  HubsOK(B)
<1>1. HubOK(B)
  BY HubAfterClientStep DEF HubsOK
<1>2. A \in AppT /\ Made(A) \subseteq Numbers /\ A.made \in Nat
  BY MadeTyped DEF HubsOK, HubOK
<1>3. RoomOK(B)
  BY <1>2, EndsRoom DEF HubsOK, ClientStep
<1>4. \A p \in Numbers : B.client[p].crowded = A.client[p].crowded
  BY DEF ClientStep
<1>5. \A x \in Chats : B.held[x] \in {0, A.held[x]}
  BY DEF ClientStep
<1>6. \A x \in Chats : A.held[x] # 0 => A.held[x] \in Numbers
  BY <1>2 DEF HubsOK, HubOK, HeldOK
<1>7. CapOK(B)
  BY <1>4, <1>5, <1>6, CapShrinks DEF HubsOK
<1> QED BY <1>1, <1>3, <1>7 DEF HubsOK

LEMMA HubsSame ==
    ASSUME NEW A, NEW B \in AppT, SameHub(A, B), HubsOK(A)
    PROVE  HubsOK(B)
<1>1. HeldOK(B) /\ OpeningOK(B)
  BY DEF HubsOK, HubOK, SameHub, HeldOK, OpeningOK, Made
<1>2. CallsOK(B)
  BY DEF HubsOK, HubOK, SameHub, CallsOK, OpensOK, ReconnectsOK, ResumesOK, Made
<1>3. ClientsOK(B)
  BY DEF HubsOK, HubOK, SameHub, ClientsOK, ClientOK, IsHeld, Made
<1>4. RoomOK(B)
  BY DEF HubsOK, SameHub, RoomOK, Pending
<1>5. CapOK(B)
  BY CapShrinks DEF HubsOK, SameHub
<1> QED BY <1>1, <1>2, <1>3, <1>4, <1>5 DEF HubsOK, HubOK

\* A client that is held, is held for its chat.
LEMMA HeldForItsChat ==
    ASSUME NEW A, HubOK(A), NEW o \in Made(A), IsHeld(A, o)
    PROVE  /\ A.client[o].chat \in Chats /\ A.held[A.client[o].chat] = o
           /\ A.client[o].asked # "ring" /\ o # 0
BY DEF IsHeld, HubOK, HeldOK, Made

\* A step of a client that ends no call and lets go of nothing.
LEMMA StepAlone ==
    ASSUME NEW B \in AppT, NEW o \in Made(app), HubOK(app), NEW e,
           B.held = app.held, B.opening = app.opening, B.made = app.made,
           B.task = app.task, B.client = [app.client EXCEPT ![o] = e],
           e.chat = app.client[o].chat, e.asked = app.client[o].asked,
           e.crowded = app.client[o].crowded,
           e.chat = None => (e.asked = "ring" \/ e.phase = "idle") /\ ~e.late,
           e.phase \in {"attempt", "pause"} \/ e.socket =>
               IsHeld(app, o) \/ e.undead \/ e.asked = "ring"
    PROVE  ClientStep(app, B, o, {})
<1>1. /\ o \in Numbers /\ app.client \in [Numbers -> ClientT]
      /\ app.opening \in [Chats -> Tasks \union {None}]
  BY MadeTyped DEF HubOK, AppT
<1>2. B.client[o] = e /\ \A p \in Numbers \ {o} : B.client[p] = app.client[p]
  BY <1>1
<1>3. Ends(app, B, {})
  BY DEF Ends
<1>4. IsHeld(app, o) => IsHeld(B, o)
  BY DEF IsHeld
<1> QED BY <1>2, <1>3, <1>4 DEF ClientStep

----------------------------------------------------------------------------
(* Requests that end.                                                      *)

\* The request of client o is done with.
Done(A, o) == [A EXCEPT !.client[o] = [@ EXCEPT !.phase = "idle", !.asked = "none"],
                        !.resumed = @ \ {o}]

LEMMA DoneIs ==
    ASSUME NEW A \in AppT, NEW o \in Numbers
    PROVE  /\ Done(A, o) \in AppT
           /\ Done(A, o).client = [A.client EXCEPT ![o] = [@ EXCEPT !.phase = "idle", !.asked = "none"]]
           /\ Done(A, o).held = A.held /\ Done(A, o).opening = A.opening
           /\ Done(A, o).made = A.made /\ Done(A, o).task = A.task
           /\ SameStore(A, Done(A, o))
<1>1. A.client[o] \in ClientT
  BY DEF AppT
<1>2. [A.client[o] EXCEPT !.phase = "idle", !.asked = "none"] \in ClientT
  BY <1>1 DEF ClientT
<1>3. Done(A, o) \in AppT
  BY <1>2 DEF Done, AppT
<1> QED BY <1>3 DEF Done, AppT, SameStore

\* The app after a change of a client's status.
Restated(A, o) ==
    /\ A \in AppT /\ StoreOK(A)
    /\ A.held = app.held /\ A.opening = app.opening /\ A.made = app.made
    /\ A.task = app.task
    /\ \E st \in Status :
          A.client = [app.client EXCEPT ![o] = WithStatus(@, st)]

LEMMA RestatedIs ==
    ASSUME NEW A, NEW o \in Made(app), app \in AppT, Restated(A, o)
    PROVE  /\ \A p \in Numbers \ {o} : A.client[p] = app.client[p]
           /\ A.client[o] \in ClientT /\ app.client[o] \in ClientT
           /\ A.client[o].chat = app.client[o].chat
           /\ A.client[o].phase = app.client[o].phase
           /\ A.client[o].asked = app.client[o].asked
           /\ A.client[o].socket = app.client[o].socket
           /\ A.client[o].late = app.client[o].late
           /\ A.client[o].undead = app.client[o].undead
           /\ A.client[o].crowded = app.client[o].crowded
<1>1. o \in Numbers /\ app.client \in [Numbers -> ClientT]
  BY MadeTyped DEF AppT
<1>2. PICK st \in Status :
          A.client = [app.client EXCEPT ![o] = WithStatus(@, st)]
  BY DEF Restated
<1>3. A.client[o] = WithStatus(app.client[o], st)
      /\ \A p \in Numbers \ {o} : A.client[p] = app.client[p]
  BY <1>1, <1>2
<1>4. app.client[o] \in ClientT
  BY <1>1
<1> QED BY <1>3, <1>4 DEF ClientT, WithStatus

LEMMA NowIsRestated ==
    ASSUME app \in AppT, StoreOK(app), NEW o \in Made(app)
    PROVE  Restated(app, o)
<1>1. o \in Numbers /\ app.client \in [Numbers -> ClientT]
  BY MadeTyped DEF AppT
<1>2. app.client[o] \in ClientT
  BY <1>1
<1>3. WithStatus(app.client[o], app.client[o].status) = app.client[o]
  BY <1>2 DEF ClientT, WithStatus
<1>4. app.client = [app.client EXCEPT ![o] = WithStatus(@, app.client[o].status)]
  BY <1>1, <1>3
<1>5. app.client[o].status \in Status
  BY <1>2 DEF ClientT
<1> QED BY <1>4, <1>5 DEF Restated

\* The calls of client o that end with its request: all that open its chat if
\* it was rung.
Waiting(T, o) ==
    /\ T \subseteq Tasks
    /\ \A t \in T : app.task[t].on = o /\ app.task[t].pc \in {"opens", "reconnects"}
    /\ app.client[o].asked = "ring" =>
         \A t \in Tasks : app.task[t].pc = "opens" /\ app.task[t].on = o => t \in T

\* What C has of app when the request of client o is over.
Ended(C, o) ==
    LET c == app.client[o]
        d == C.client[o]
    IN
    /\ C \in AppT /\ C.opening = app.opening /\ C.made = app.made
    /\ C.task = app.task /\ StoreOK(C)
    /\ \A p \in Numbers \ {o} : C.client[p] = app.client[p]
    /\ \A x \in Chats : C.held[x] = app.held[x] \/ (C.held[x] = 0 /\ app.held[x] = o)
    /\ d.chat = c.chat /\ d.asked # "ring" /\ d.late = c.late /\ d.crowded = c.crowded
    /\ d.chat = None => d.phase = "idle"
    /\ d.phase \in {"attempt", "pause"} \/ d.socket => IsHeld(C, o) \/ d.undead

LEMMA EndStep ==
    ASSUME HubOK(app), NEW o \in Made(app), NEW T, Waiting(T, o), NEW C, Ended(C, o),
           NEW ok \in BOOLEAN,
           ok => LET s == app.client[o].chat IN
                 s \in Chats /\ (C.held[s] # 0 \/ s \in C.returned)
    PROVE  LET F == Finish(C, T, app.client[o].chat, ok) IN
           ClientStep(app, F, o, T) /\ StoreOK(F)
<1> DEFINE c == app.client[o]
           s == c.chat
           F == Finish(C, T, s, ok)
<1>2. /\ o \in Numbers /\ app \in AppT /\ T \in SUBSET Tasks /\ s \in SomeChat
      /\ C \in AppT /\ C.opening = app.opening /\ C.task = app.task /\ StoreOK(C)
  <2>1. o \in Numbers /\ app \in AppT
    BY MadeTyped DEF HubOK
  <2>2. c \in ClientT
    BY <2>1 DEF AppT
  <2> QED BY <2>1, <2>2 DEF ClientT, Waiting, Ended
<1>5. ClientOK(app, o)
  BY DEF HubOK, ClientsOK
<1>7. s \in Chats \/ (~ok /\ \A t \in T : C.task[t].op = "ring")
  <2> SUFFICES ASSUME s = None, NEW t \in T
               PROVE  app.task[t].op = "ring"
    BY <1>2, HubAssumption DEF SomeChat
  <2>1. t \in Tasks /\ app.task[t].on = o /\ app.task[t].pc \in {"opens", "reconnects"}
    BY <1>2 DEF Waiting
  <2>2. app.task[t].pc # "reconnects"
    BY <2>1 DEF HubOK, CallsOK, ReconnectsOK
  <2>3. OpensOK(app, t)
    BY <2>1, <2>2 DEF HubOK, CallsOK
  <2> QED BY <2>1, <2>3 DEF OpensOK
<1>8. \A t \in T : C.task[t].pc # "waits"
  BY <1>2 DEF Waiting
<1>9. /\ F \in AppT /\ Ends(C, F, T) /\ F.held = C.held /\ F.client = C.client
      /\ F.made = C.made /\ StoreOK(F)
  BY <1>2, <1>7, <1>8, FinishIs
<1> HIDE DEF F
<1>10. Ends(app, F, T)
  BY <1>2, <1>9 DEF Ends
<1>11. IsHeld(C, o) => IsHeld(F, o)
  BY <1>9 DEF IsHeld
<1>12. c.chat = None => ~c.late
  BY <1>5 DEF ClientOK
<1>13. ClientStep(app, F, o, T)
  BY <1>9, <1>10, <1>11, <1>12 DEF ClientStep, Waiting, Ended
<1> QED BY <1>9, <1>13 DEF F

LEMMA FailStep ==
    ASSUME HubOK(app), NEW o \in Made(app), NEW A, Restated(A, o),
           NEW T, Waiting(T, o)
    PROVE  ClientStep(app, Fail(A, o, T), o, T) /\ StoreOK(Fail(A, o, T))
<1> DEFINE c == app.client[o]
           s == c.chat
           B == Done(A, o)
           opened == \E t \in T : app.task[t].pc = "opens"
           C == IF ~opened THEN B
                ELSE IF s = None THEN Disconnect(B, o) ELSE Drop(Disconnect(B, o), s)
           F == Finish(C, T, s, FALSE)
<1>1. Fail(A, o, T) = F
  BY Zenon DEF Fail, Done
<1>2. /\ o \in Numbers /\ o # 0 /\ app \in AppT /\ A \in AppT /\ StoreOK(A)
      /\ c \in ClientT /\ T \in SUBSET Tasks /\ s \in SomeChat
  <2>1. o \in Numbers /\ o # 0 /\ app \in AppT
    BY MadeTyped DEF HubOK, Made
  <2>2. A \in AppT /\ StoreOK(A) /\ T \in SUBSET Tasks
    BY DEF Restated, Waiting
  <2>3. c \in ClientT
    BY <2>1 DEF AppT
  <2>4. s \in SomeChat
    BY <2>3 DEF ClientT
  <2> QED BY <2>1, <2>2, <2>3, <2>4
<1>3. /\ B \in AppT /\ B.held = app.held /\ B.opening = app.opening
      /\ B.made = app.made /\ B.task = app.task /\ StoreOK(B)
  BY <1>2, DoneIs, StoreSame DEF Restated
<1>4. /\ \A p \in Numbers \ {o} : B.client[p] = app.client[p]
      /\ B.client[o] \in ClientT
      /\ B.client[o].chat = s /\ B.client[o].phase = "idle" /\ B.client[o].asked = "none"
      /\ B.client[o].socket = c.socket /\ B.client[o].late = c.late
      /\ B.client[o].undead = c.undead /\ B.client[o].crowded = c.crowded
  <2>1. B.client = [A.client EXCEPT ![o] = [@ EXCEPT !.phase = "idle", !.asked = "none"]]
    BY <1>2, DoneIs
  <2>2. A.client \in [Numbers -> ClientT] /\ B.client \in [Numbers -> ClientT]
    BY <1>2, <1>3 DEF AppT
  <2>3. /\ B.client[o] = [A.client[o] EXCEPT !.phase = "idle", !.asked = "none"]
        /\ \A p \in Numbers \ {o} : B.client[p] = A.client[p]
    BY <1>2, <2>1, <2>2
  <2>4. A.client[o] \in ClientT /\ B.client[o] \in ClientT
    BY <1>2, <2>2
  <2>5. /\ B.client[o].phase = "idle" /\ B.client[o].asked = "none"
        /\ B.client[o].chat = A.client[o].chat /\ B.client[o].socket = A.client[o].socket
        /\ B.client[o].late = A.client[o].late /\ B.client[o].undead = A.client[o].undead
        /\ B.client[o].crowded = A.client[o].crowded
    BY <2>3, <2>4 DEF ClientT
  <2> QED BY <1>2, <2>3, <2>4, <2>5, RestatedIs
<1>5. ClientOK(app, o)
  BY DEF HubOK, ClientsOK
<1> HIDE DEF B
<1>6. /\ C \in AppT /\ C.opening = app.opening /\ C.made = app.made
      /\ C.task = app.task /\ StoreOK(C)
      /\ \A p \in Numbers \ {o} : C.client[p] = app.client[p]
      /\ \A x \in Chats : C.held[x] = app.held[x] \/ (C.held[x] = 0 /\ app.held[x] = o)
      /\ C.client[o].chat = s /\ C.client[o].phase = "idle" /\ C.client[o].asked = "none"
      /\ C.client[o].late = c.late /\ C.client[o].crowded = c.crowded
      /\ C.client[o].socket => IsHeld(C, o) \/ C.client[o].undead
  <2>1. CASE ~opened
    <3>1. C = B
      BY <2>1
    <3>2. c.asked # "ring"
      BY <1>5, <2>1 DEF ClientOK, Waiting
    <3>3. c.socket => IsHeld(B, o) \/ c.undead
      BY <1>3, <1>5, <3>2 DEF ClientOK, IsHeld
    <3> QED BY <1>3, <1>4, <3>1, <3>3
  <2>2. CASE opened
    <3> DEFINE D == Disconnect(B, o)
    <3>1. /\ D \in AppT /\ D.client = [B.client EXCEPT ![o] = Closed(@)]
          /\ D.held = app.held /\ D.opening = app.opening
          /\ D.made = app.made /\ D.task = app.task
          /\ StoreBut(B, s) => StoreBut(D, s)
          /\ StoreOK(B) /\ s = None => StoreOK(D)
      BY <1>2, <1>3, DisconnectIs
    <3>2. B.client \in [Numbers -> ClientT]
      BY <1>3 DEF AppT
    <3>3. D.client[o] = Closed(B.client[o]) /\ \A p \in Numbers \ {o} : D.client[p] = B.client[p]
      BY <1>2, <3>1, <3>2
    <3> HIDE DEF D
    <3>4. /\ D.client[o].chat = s /\ D.client[o].phase = "idle" /\ D.client[o].asked = "none"
          /\ D.client[o].late = c.late /\ D.client[o].crowded = c.crowded
          /\ ~D.client[o].socket
      BY <1>4, <3>3, ClosedTyped
    <3>5. CASE s = None
      <4>1. C = D
        BY <2>2, <3>5 DEF D
      <4> QED BY <1>3, <1>4, <3>1, <3>3, <3>4, <3>5, <4>1
    <3>6. CASE s # None
      <4>1. C = Drop(D, s)
        BY <2>2, <3>6 DEF D
      <4>2. s \in Chats
        BY <1>2, <3>6 DEF SomeChat
      <4>3. /\ C \in AppT /\ C.client = D.client /\ C.held = [D.held EXCEPT ![s] = 0]
            /\ C.opening = D.opening /\ C.made = D.made /\ C.task = D.task
            /\ StoreBut(D, s) => StoreOK(C)
        <5>1. \A X : X = Drop(D, s) =>
                /\ X \in AppT /\ X.client = D.client /\ X.held = [D.held EXCEPT ![s] = 0]
                /\ X.opening = D.opening /\ X.made = D.made /\ X.task = D.task
                /\ StoreBut(D, s) => StoreOK(X)
          BY <3>1, <4>2, DropIs
        <5> HIDE DEF C
        <5> QED BY <4>1, <5>1
      <4>4. StoreBut(B, s)
        BY <1>3 DEF StoreOK, StoreBut
      <4>5. app.held[s] \in {0, o}
        <5>1. PICK t \in T : app.task[t].pc = "opens"
          BY <2>2
        <5>2. t \in Tasks /\ OpensOK(app, t) /\ app.task[t].on = o
          BY <1>2, <5>1 DEF HubOK, CallsOK, Waiting
        <5> QED BY <3>6, <5>2 DEF OpensOK
      <4>6. app.held \in [Chats -> Nat]
        BY <1>2 DEF AppT
      <4>7. \A x \in Chats : C.held[x] = app.held[x] \/ (C.held[x] = 0 /\ app.held[x] = o)
        BY <3>1, <4>2, <4>3, <4>5, <4>6
      <4> HIDE DEF C
      <4>8. /\ C.client[o] = D.client[o]
            /\ \A p \in Numbers \ {o} : C.client[p] = B.client[p]
        BY <3>3, <4>3
      <4>9. StoreOK(C)
        BY <3>1, <4>3, <4>4
      <4>10. ~C.client[o].socket
        BY <3>4, <4>8
      <4> QED BY <1>4, <3>1, <3>4, <4>3, <4>7, <4>8, <4>9, <4>10
    <3> QED BY <3>5, <3>6
  <2> QED BY <2>1, <2>2
<1> HIDE DEF C
<1>7. Ended(C, o)
  BY <1>6 DEF Ended
<1> QED BY <1>1, <1>7, EndStep

----------------------------------------------------------------------------
(* The steps of a client's requests keep the invariant.                    *)

LEMMA StatusSafe ==
    ASSUME HubOK(app), NEW o \in Made(app),
           app.client[o].phase \in {"attempt", "pause"} \/ app.client[o].socket
    PROVE  app.client[o].chat # None =>
               app.held[app.client[o].chat] # 0 \/ app.client[o].undead
<1>1. ClientOK(app, o)
  BY DEF HubOK, ClientsOK
<1>2. IsHeld(app, o) => app.held[app.client[o].chat] # 0
  BY HeldForItsChat
<1> QED BY <1>1, <1>2 DEF ClientOK

LEMMA StatusStep ==
    ASSUME HubOK(app), StoreOK(app), NEW o \in Made(app),
           NEW st \in Status,
           app.client[o].chat # None =>
               app.held[app.client[o].chat] # 0 \/ app.client[o].undead \/ app.client[o].late
    PROVE  Restated(SetStatus(app, o, st), o)
<1>1. app \in AppT /\ o \in Numbers
  BY MadeTyped DEF HubOK
<1>2. /\ SetStatus(app, o, st) \in AppT
      /\ SetStatus(app, o, st).client = [app.client EXCEPT ![o] = WithStatus(@, st)]
      /\ SetStatus(app, o, st).held = app.held
      /\ SetStatus(app, o, st).opening = app.opening
      /\ SetStatus(app, o, st).made = app.made
      /\ SetStatus(app, o, st).task = app.task
  BY <1>1, SetStatusIs
<1>3. StoreOK(SetStatus(app, o, st))
  BY <1>1, SetStatusStore
<1> QED BY <1>2, <1>3 DEF Restated

LEMMA AwaitedIsWaiting ==
    ASSUME HubOK(app), NEW o \in Made(app)
    PROVE  /\ Waiting(AwaitedBy(o), o)
           /\ Waiting(Listening(o), o)
           /\ app.client[o].asked # "ring" => Waiting(Joined(o), o)
<1>1. Waiting(AwaitedBy(o), o)
  BY DEF Waiting, AwaitedBy, Awaiting
<1>2. Waiting(Listening(o), o)
  BY DEF Waiting, Listening, Awaiting
<1>3. Joined(o) \subseteq Listening(o)
  BY DEF Joined
<1>4. app.client[o].asked # "ring" => Waiting(Joined(o), o)
  BY <1>2, <1>3 DEF Waiting
<1> QED BY <1>1, <1>2, <1>4

LEMMA InvAfterClientStep ==
    ASSUME HubInv, Quiet, NEW o \in Made(app), NEW T \in SUBSET Tasks,
           ClientStep(app, app', o, T), StoreOK(app')
    PROVE  HubInv'
<1>1. HubsOK(app) /\ Silent(app)
  BY DEF HubInv, HubsOK, Quiet, Silent
<1>2. HubsOK(app')
  BY <1>1, HubsAfterClientStep
<1> QED BY <1>2 DEF HubInv, HubsOK

LEMMA FailInv ==
    ASSUME HubInv, Quiet, NEW o \in Made(app), NEW A, Restated(A, o),
           NEW T, Waiting(T, o), app' = Fail(A, o, T)
    PROVE  HubInv'
<1>1. ClientStep(app, app', o, T) /\ StoreOK(app')
  BY FailStep DEF HubInv
<1>2. T \in SUBSET Tasks
  BY DEF Waiting
<1> QED BY <1>1, <1>2, InvAfterClientStep

LEMMA FailuresInv ==
    ASSUME HubInv, NEW o \in Made(app), ConnectFails(o) \/ Refused(o) \/ TimesOut(o)
    PROVE  HubInv'
<1>1. HubOK(app) /\ StoreOK(app) /\ app \in AppT
  BY DEF HubInv, HubOK
<1>2. CASE ConnectFails(o)
  <2>1. Restated(SetStatus(app, o, "disconnected"), o)
    BY <1>1, <1>2, StatusSafe, StatusStep DEF ConnectFails, Status
  <2> QED BY <1>1, <1>2, <2>1, AwaitedIsWaiting, FailInv DEF ConnectFails
<1>3. CASE Refused(o)
  <2>1. ASSUME NEW st \in {"disconnected", "expired"}
        PROVE  Restated(SetStatus(app, o, st), o)
    BY <1>1, <1>3, StatusSafe, StatusStep DEF Refused, Status
  <2>2. PICK A \in {app, SetStatus(app, o, "disconnected"), SetStatus(app, o, "expired")} :
          app' = Fail(A, o, Listening(o))
    BY <1>3 DEF Refused
  <2>3. Restated(A, o)
    BY <1>1, <2>1, <2>2, NowIsRestated
  <2> QED BY <1>1, <1>3, <2>2, <2>3, AwaitedIsWaiting, FailInv DEF Refused
<1>4. CASE TimesOut(o)
  <2>1. Restated(app, o)
    BY <1>1, NowIsRestated
  <2> QED BY <1>1, <1>4, <2>1, AwaitedIsWaiting, FailInv DEF TimesOut
<1> QED BY <1>2, <1>3, <1>4

\* The same client with other fields, then with another status.
LEMMA AloneInv ==
    ASSUME HubInv, Quiet, NEW o \in Made(app), NEW e \in ClientT,
           app' \in AppT, StoreOK(app'),
           app'.held = app.held, app'.opening = app.opening, app'.made = app.made,
           app'.task = app.task, app'.client = [app.client EXCEPT ![o] = e],
           e.chat = app.client[o].chat, e.asked = app.client[o].asked,
           e.crowded = app.client[o].crowded,
           e.late => app.client[o].late \/ e.chat # None,
           e.phase = app.client[o].phase \/ app.client[o].phase # "idle",
           app.client[o].undead => e.undead,
           e.phase \in {"attempt", "pause"} \/ e.socket =>
               app.client[o].phase \in {"attempt", "pause"} \/ app.client[o].socket
    PROVE  HubInv'
<1>1. HubOK(app) /\ ClientOK(app, o)
  BY DEF HubInv, HubOK, ClientsOK
<1>2. /\ e.chat = None => (e.asked = "ring" \/ e.phase = "idle") /\ ~e.late
      /\ e.phase \in {"attempt", "pause"} \/ e.socket =>
               IsHeld(app, o) \/ e.undead \/ e.asked = "ring"
  BY <1>1 DEF ClientOK
<1>3. ClientStep(app, app', o, {})
  BY <1>1, <1>2, StepAlone
<1> QED BY <1>3, InvAfterClientStep

LEMMA ClientIs ==
    ASSUME HubInv, NEW o \in Made(app)
    PROVE  /\ app \in AppT /\ o \in Numbers /\ app.client[o] \in ClientT
           /\ HubOK(app) /\ StoreOK(app) /\ ClientOK(app, o)
           /\ app.client \in [Numbers -> ClientT]
<1>1. app \in AppT /\ HubOK(app) /\ StoreOK(app) /\ ClientOK(app, o)
  BY DEF HubInv, HubOK, ClientsOK
<1>2. o \in Numbers
  BY <1>1, MadeTyped
<1>3. app.client \in [Numbers -> ClientT]
  BY <1>1 DEF AppT
<1> QED BY <1>1, <1>2, <1>3

\* A client changes, and tells the store its status if st is one.
LEMMA ChangedIs ==
    ASSUME HubInv, NEW o \in Made(app), NEW e \in ClientT
    PROVE  LET A == [app EXCEPT !.client[o] = e] IN
           /\ A \in AppT /\ StoreOK(A) /\ A.client = [app.client EXCEPT ![o] = e]
           /\ A.held = app.held /\ A.opening = app.opening /\ A.made = app.made
           /\ A.task = app.task
<1> DEFINE A == [app EXCEPT !.client[o] = e]
<1>1. app \in AppT /\ StoreOK(app)
  BY ClientIs
<1>2. A \in AppT /\ A.client = [app.client EXCEPT ![o] = e]
  BY <1>1 DEF AppT
<1>3. /\ A.held = app.held /\ A.opening = app.opening /\ A.made = app.made
      /\ A.task = app.task /\ SameStore(app, A)
  BY <1>1 DEF AppT, SameStore
<1>4. StoreOK(A)
  BY <1>1, <1>3, StoreSame
<1> QED BY <1>2, <1>3, <1>4

\* Other fields of a client that belongs to the hub as before.
LikeBefore(e, c) ==
    /\ e \in ClientT
    /\ e.chat = c.chat /\ e.asked = c.asked /\ e.crowded = c.crowded
    /\ e.late => c.late \/ e.chat # None
    /\ e.phase = c.phase \/ c.phase # "idle"
    /\ c.undead => e.undead
    /\ e.phase \in {"attempt", "pause"} \/ e.socket =>
           c.phase \in {"attempt", "pause"} \/ c.socket

LEMMA Itself ==
    ASSUME NEW A
    PROVE  SameHub(A, A) /\ SameStore(A, A)
BY DEF SameHub, SameStore

LEMMA LikeItself ==
    ASSUME NEW e, NEW c, LikeBefore(e, c), NEW st \in Status
    PROVE  LikeBefore(WithStatus(e, st), c)
BY DEF LikeBefore, WithStatus, ClientT

\* The app with another state of client o.
Changed(o, e) == [app EXCEPT !.client[o] = e]

LEMMA ChangedInv ==
    ASSUME HubInv, Quiet, NEW o \in Made(app), NEW e, LikeBefore(e, app.client[o]),
           app' \in AppT, NEW A, A = Changed(o, e),
           SameHub(A, app'), SameStore(A, app')
    PROVE  HubInv'
<1>0. e \in ClientT
  BY DEF LikeBefore
<1>1. /\ StoreOK(A) /\ A.client = [app.client EXCEPT ![o] = e]
      /\ A.held = app.held /\ A.opening = app.opening /\ A.made = app.made
      /\ A.task = app.task
  BY <1>0, ChangedIs DEF Changed
<1>2. /\ app'.held = app.held /\ app'.opening = app.opening /\ app'.made = app.made
      /\ app'.task = app.task /\ app'.client = [app.client EXCEPT ![o] = e]
  BY <1>1 DEF SameHub
<1>3. StoreOK(app')
  BY <1>1, StoreSame DEF SameHub
<1> QED BY <1>0, <1>2, <1>3, AloneInv DEF LikeBefore

LEMMA ToldInv ==
    ASSUME HubInv, Quiet, NEW o \in Made(app), NEW e, LikeBefore(e, app.client[o]),
           app.client[o].chat # None =>
               app.held[app.client[o].chat] # 0 \/ app.client[o].undead \/ app.client[o].late,
           app' \in AppT, NEW A \in AppT, NEW st \in Status,
           SameHub(Changed(o, e), A), SameStore(Changed(o, e), A),
           SameHub(SetStatus(A, o, st), app'), SameStore(SetStatus(A, o, st), app')
    PROVE  HubInv'
<1> DEFINE f == WithStatus(e, st)
<1>1. e \in ClientT /\ o \in Numbers /\ app \in AppT /\ app.client \in [Numbers -> ClientT]
  BY ClientIs DEF LikeBefore
<1>2. LET C == Changed(o, e) IN
      /\ StoreOK(C) /\ C.client = [app.client EXCEPT ![o] = e]
      /\ C.held = app.held /\ C.opening = app.opening /\ C.made = app.made
      /\ C.task = app.task
  BY <1>1, ChangedIs DEF Changed
<1>3. /\ StoreOK(A) /\ A.client = [app.client EXCEPT ![o] = e]
      /\ A.held = app.held /\ A.opening = app.opening /\ A.made = app.made
      /\ A.task = app.task
  BY <1>2, StoreSame DEF SameHub
<1>4. LikeBefore(f, app.client[o])
  BY LikeItself
<1>5. /\ SetStatus(A, o, st).client = [A.client EXCEPT ![o] = WithStatus(@, st)]
      /\ SetStatus(A, o, st).held = A.held
      /\ SetStatus(A, o, st).opening = A.opening
      /\ SetStatus(A, o, st).made = A.made
      /\ SetStatus(A, o, st).task = A.task
  BY <1>1, <1>3, SetStatusIs
<1>6. StoreOK(SetStatus(A, o, st))
  BY <1>1, <1>3, SetStatusStore
<1> HIDE DEF f
<1>7. [A.client EXCEPT ![o] = WithStatus(@, st)] = [app.client EXCEPT ![o] = f]
  BY <1>1, <1>3 DEF f
<1>8. /\ app'.held = app.held /\ app'.opening = app.opening /\ app'.made = app.made
      /\ app'.task = app.task /\ app'.client = [app.client EXCEPT ![o] = f]
  BY <1>3, <1>5, <1>7 DEF SameHub
<1>9. StoreOK(app')
  BY <1>6, StoreSame DEF SameHub
<1> QED BY <1>4, <1>8, <1>9, AloneInv DEF LikeBefore

LEMMA EventIs ==
    ASSUME NEW A \in AppT
    PROVE  /\ Event(A) \in AppT /\ SameHub(A, Event(A)) /\ SameStore(A, Event(A))
           /\ Called(A) \in AppT /\ SameHub(A, Called(A)) /\ SameStore(A, Called(A))
<1>1. Event(A) \in AppT /\ SameHub(A, Event(A)) /\ SameStore(A, Event(A))
  BY DEF Event, AppT, SameHub, SameStore
<1>2. Called(A) \in AppT /\ SameHub(A, Called(A)) /\ SameStore(A, Called(A))
  BY DEF Called, AppT, SameHub, SameStore
<1> QED BY <1>1, <1>2

LEMMA AttemptsInv ==
    ASSUME HubInv, NEW o \in Made(app),
           AttemptFails(o) \/ PauseEnds(o) \/ Connects(o)
    PROVE  HubInv'
<1> DEFINE c == app.client[o]
<1>0. app \in AppT /\ o \in Numbers /\ c \in ClientT /\ HubOK(app) /\ ClientOK(app, o)
  BY ClientIs
<1>1. CASE AttemptFails(o)
  <2> DEFINE e == [c EXCEPT !.phase = "pause", !.tries = @ + 1]
             A == [app EXCEPT !.client[o] = e]
  <2>1. c.phase = "attempt"
    BY <1>1 DEF AttemptFails
  <2>2. c.tries + 1 \in Nat
    BY <1>0 DEF ClientT
  <2>3. e \in ClientT /\ e.chat = c.chat /\ e.asked = c.asked /\ e.crowded = c.crowded
    BY <1>0, <2>2 DEF ClientT
  <2>4. e.late = c.late /\ e.undead = c.undead /\ e.socket = c.socket
    BY <1>0 DEF ClientT
  <2>5. LikeBefore(e, c)
    BY <2>1, <2>4, <2>3 DEF LikeBefore
  <2>6. A \in AppT
    BY <2>5, ChangedIs DEF LikeBefore
  <2>7. app' = IF c.undead THEN A ELSE SetStatus(A, o, "disconnected")
    BY <1>1 DEF AttemptFails
  <2>8. Quiet /\ c.phase = "attempt"
    BY <1>1 DEF AttemptFails
  <2> HIDE DEF e
  <2>9. CASE c.undead
    BY <2>5, <2>6, <2>7, <2>8, <2>9, ChangedInv, Itself DEF Changed
  <2>10. CASE ~c.undead
    <3>1. c.chat # None => app.held[c.chat] # 0 \/ c.undead
      BY <1>0, <2>8, StatusSafe
    <3> HIDE DEF A
    <3>2. A = Changed(o, e) /\ app' = SetStatus(A, o, "disconnected")
      BY <2>7, <2>10 DEF A, Changed
    <3>3. "disconnected" \in Status
      BY DEF Status
    <3>4. app' \in AppT
      BY <1>0, <2>6, <3>2, <3>3, SetStatusIs
    <3> QED BY <2>5, <2>6, <2>8, <3>1, <3>2, <3>3, <3>4, ToldInv, Itself
  <2> QED BY <2>9, <2>10
<1>2. CASE PauseEnds(o)
  <2> DEFINE e == [c EXCEPT !.phase = "attempt"]
  <2>1. LikeBefore(e, c)
    BY <1>0, <1>2 DEF LikeBefore, ClientT, PauseEnds
  <2>2. app' = [app EXCEPT !.client[o] = e] /\ Quiet
    BY <1>2 DEF PauseEnds
  <2> HIDE DEF e
  <2>3. app' \in AppT
    BY <2>1, <2>2, ChangedIs DEF LikeBefore
  <2> QED BY <2>1, <2>2, <2>3, ChangedInv, Itself DEF Changed
<1>3. CASE Connects(o)
  <2> DEFINE e == [c EXCEPT !.phase = "rpc", !.socket = TRUE, !.named = (c.asked # "ring")]
             A == [app EXCEPT !.client[o] = e]
  <2>1. LikeBefore(e, c)
    BY <1>0, <1>3 DEF LikeBefore, ClientT, Connects
  <2>2. A \in AppT
    BY <2>1, ChangedIs DEF LikeBefore
  <2>3. app' = SetStatus(A, o, "live") /\ Quiet /\ c.phase = "attempt"
    BY <1>3 DEF Connects
  <2>4. c.chat # None => app.held[c.chat] # 0 \/ c.undead
    BY <1>0, <2>3, StatusSafe
  <2> HIDE DEF e
  <2>5. A = Changed(o, e)
    BY DEF Changed
  <2> HIDE DEF A
  <2>6. "live" \in Status
    BY DEF Status
  <2>7. app' \in AppT
    BY <1>0, <2>2, <2>3, <2>6, SetStatusIs
  <2> QED BY <2>1, <2>2, <2>3, <2>4, <2>5, <2>6, <2>7, ToldInv, Itself
<1> QED BY <1>1, <1>2, <1>3

----------------------------------------------------------------------------
(* The events of a client keep the invariant.                              *)

LEMMA StoreInv ==
    ASSUME HubInv, app' \in AppT, SameHub(app, app'), StoreOK(app')
    PROVE  HubInv'
<1>1. HubsOK(app)
  BY DEF HubInv, HubsOK
<1>2. HubsOK(app')
  BY <1>1, HubsSame
<1> QED BY <1>2 DEF HubInv, HubsOK

LEMMA IngestIs ==
    ASSUME NEW A \in AppT, NEW s \in Chats, NEW unlocked \in BOOLEAN
    PROVE  /\ Ingest(A, s, unlocked) \in AppT /\ SameHub(A, Ingest(A, s, unlocked))
           /\ StoreOK(A) => StoreOK(Ingest(A, s, unlocked))
<1> DEFINE B == Ingest(A, s, unlocked)
<1>1. A.sealing[s] + 1 \in Nat
  BY DEF AppT
<1>2. [A EXCEPT !.sealing[s] = @ + 1] \in AppT
  BY <1>1 DEF AppT
<1>3. [A EXCEPT !.shown = @ \union {s},
                !.returned = IF A.held[s] = 0 THEN @ \union {s} ELSE @] \in AppT
  BY DEF AppT
<1>4. B \in AppT /\ SameHub(A, B)
  BY <1>2, <1>3 DEF Ingest, AppT, SameHub
<1>5. CASE unlocked
  <2>1. SameStore(A, B)
    BY <1>5 DEF Ingest, SameStore, AppT
  <2>2. B.held = A.held
    BY <1>4 DEF SameHub
  <2> HIDE DEF B
  <2>3. StoreOK(A) => StoreOK(B)
    BY <2>1, <2>2, StoreSame
  <2> QED BY <1>4, <2>3 DEF B
<1>6. CASE ~unlocked
  <2>1. /\ B.shown = A.shown \union {s} /\ B.unread = A.unread /\ B.active = A.active
        /\ B.returned = IF A.held[s] = 0 THEN A.returned \union {s} ELSE A.returned
    BY <1>6 DEF Ingest, AppT
  <2>2. B.held = A.held
    BY <1>4 DEF SameHub
  <2> HIDE DEF B
  <2>3. StoreOK(A) => StoreOK(B)
    BY <2>1, <2>2 DEF StoreOK, HeldChats
  <2> QED BY <1>4, <2>3 DEF B
<1> QED BY <1>5, <1>6

LEMMA MessagesInv ==
    ASSUME HubInv, (\E o \in Made(app) : Message(o)) \/ LeavePage
    PROVE  HubInv'
<1>1. app \in AppT /\ StoreOK(app)
  BY DEF HubInv, HubOK
<1>2. ASSUME NEW o \in Made(app), Message(o)
      PROVE  HubInv'
  <2>1. app.client[o].chat \in Chats
    BY <1>2, ClientIs DEF Message, ClientT, SomeChat
  <2> DEFINE s == app.client[o].chat
  <2>2. PICK unlocked \in BOOLEAN : app' = Event(Ingest(app, s, unlocked))
    BY <1>2 DEF Message
  <2> HIDE DEF s
  <2>3. /\ Ingest(app, s, unlocked) \in AppT /\ SameHub(app, Ingest(app, s, unlocked))
        /\ StoreOK(Ingest(app, s, unlocked))
    BY <1>1, <2>1, IngestIs DEF s
  <2>4. /\ app' \in AppT /\ SameHub(Ingest(app, s, unlocked), app')
        /\ SameStore(Ingest(app, s, unlocked), app')
    BY <2>2, <2>3, EventIs
  <2>5. SameHub(app, app') /\ StoreOK(app')
    BY <2>3, <2>4, StoreSame DEF SameHub
  <2> QED BY <2>4, <2>5, StoreInv
<1>3. CASE LeavePage
  <2>1. app' = [app EXCEPT !.active = None]
    BY <1>3 DEF LeavePage
  <2>2. /\ app' \in AppT /\ SameHub(app, app')
        /\ app'.shown = app.shown /\ app'.returned = app.returned
        /\ app'.unread = app.unread /\ app'.active = None
    BY <1>1, <2>1 DEF AppT, SameHub, SomeChat
  <2>3. \A x \in Chats : x # None
    BY HubAssumption
  <2>4. StoreOK(app')
    BY <1>1, <2>2, <2>3 DEF StoreOK, HeldChats, SameHub
  <2> QED BY <2>2, <2>4, StoreInv
<1> QED BY <1>2, <1>3

LEMMA SealedInv ==
    ASSUME HubInv, NEW s \in Chats, Sealed(s)
    PROVE  HubInv'
<1> DEFINE R == IF app.held[s] = 0 THEN app.returned \union {s} ELSE app.returned
           A == [app EXCEPT !.sealing[s] = @ - 1, !.returned = R]
           U == UpsertChat(A, s)
           n == IF A.active = s THEN U.unread[s] ELSE U.unread[s] + 1
<1>1. app \in AppT /\ StoreOK(app) /\ app.sealing[s] \in Nat
  BY DEF HubInv, HubOK, AppT
<1>2. app' = AddMessage(A, s)
  BY DEF Sealed
<1>3. app.sealing[s] - 1 \in Nat /\ R \in SUBSET Chats
  BY <1>1 DEF Sealed, AppT
<1> HIDE DEF R
<1>4. /\ A \in AppT /\ SameHub(app, A) /\ A.shown = app.shown /\ A.returned = R
      /\ A.unread = app.unread /\ A.active = app.active
  BY <1>1, <1>3 DEF AppT, SameHub
<1> HIDE DEF A
<1>5. StoreOK(A) /\ (A.held[s] # 0 \/ s \in A.returned)
  BY <1>1, <1>4 DEF StoreOK, HeldChats, SameHub, R
<1>6. U \in AppT /\ SameHub(A, U) /\ StoreOK(U) /\ s \in U.shown /\ U.active = A.active
  BY <1>4, <1>5, UpsertIs, StoreUpsert
<1>7. app' = [U EXCEPT !.unread[s] = IF A.active = s THEN @ ELSE @ + 1]
  BY <1>2 DEF AddMessage
<1> HIDE DEF U
<1>8. n \in Nat /\ U.unread \in [Chats -> Nat]
  BY <1>6 DEF AppT
<1>9. app' = [U EXCEPT !.unread[s] = n]
  BY <1>7
<1> HIDE DEF n
<1>10. /\ app' \in AppT /\ SameHub(U, app') /\ app'.unread = [U.unread EXCEPT ![s] = n]
       /\ app'.shown = U.shown /\ app'.returned = U.returned /\ app'.active = U.active
  BY <1>6, <1>8, <1>9 DEF AppT, SameHub
<1>11. U.active = s => n = U.unread[s]
  BY <1>6 DEF n
<1>12. \A x \in Chats : app'.unread[x] > 0 => x \in app'.shown /\ app'.active # x
  BY <1>6, <1>8, <1>10, <1>11 DEF StoreOK
<1>13. StoreOK(app')
  BY <1>6, <1>10, <1>12 DEF StoreOK, HeldChats, SameHub
<1>14. SameHub(app, app')
  BY <1>4, <1>6, <1>10 DEF SameHub
<1> QED BY <1>10, <1>13, <1>14, StoreInv

\* A step that sets the status of client o and nothing else.
LEMMA StatusInv ==
    ASSUME HubInv, Quiet, NEW o \in Made(app), NEW st \in Status,
           app.client[o].chat # None =>
               app.held[app.client[o].chat] # 0 \/ app.client[o].undead \/ app.client[o].late,
           app' = Event(SetStatus(app, o, st))
    PROVE  HubInv'
<1> DEFINE c == app.client[o]
<1>1. app \in AppT /\ o \in Numbers /\ c \in ClientT /\ app.client \in [Numbers -> ClientT]
  BY ClientIs
<1>2. LikeBefore(c, c)
  BY <1>1 DEF LikeBefore
<1>3. Changed(o, c) = app
  BY <1>1 DEF Changed, AppT
<1>4. SetStatus(app, o, st) \in AppT
  BY <1>1, SetStatusIs
<1>5. /\ app' \in AppT /\ SameHub(SetStatus(app, o, st), app')
      /\ SameStore(SetStatus(app, o, st), app')
  BY <1>4, EventIs
<1>6. SameHub(Changed(o, c), app) /\ SameStore(Changed(o, c), app)
  BY <1>3, Itself
<1> QED BY <1>1, <1>2, <1>5, <1>6, ToldInv

LEMMA ClientEventsInv ==
    ASSUME HubInv, NEW o \in Made(app),
           CloseEvent(o) \/ SessionExpired(o) \/ ErrorFrame(o)
    PROVE  HubInv'
<1> DEFINE c == app.client[o]
<1>0. app \in AppT /\ o \in Numbers /\ c \in ClientT /\ HubOK(app) /\ StoreOK(app)
  BY ClientIs
<1>1. "disconnected" \in Status /\ "expired" \in Status
  BY DEF Status
<1>2. Quiet /\ c.socket
  BY DEF CloseEvent, SessionExpired, ErrorFrame
<1>3. c.chat # None => app.held[c.chat] # 0 \/ c.undead
  BY <1>0, <1>2, StatusSafe
<1>4. CASE CloseEvent(o)
  <2> DEFINE e == [c EXCEPT !.socket = FALSE]
             A == Event(Changed(o, e))
  <2>1. LikeBefore(e, c)
    BY <1>0 DEF LikeBefore, ClientT
  <2>2. Changed(o, e) \in AppT
    BY <2>1, ChangedIs DEF LikeBefore, Changed
  <2>3. A \in AppT /\ SameHub(Changed(o, e), A) /\ SameStore(Changed(o, e), A)
    BY <2>2, EventIs
  <2>4. app' \in {A, SetStatus(A, o, "disconnected")}
    BY <1>4 DEF CloseEvent, Changed
  <2> HIDE DEF e, A
  <2>5. CASE app' = A
    BY <1>2, <2>1, <2>3, <2>5, ChangedInv
  <2>6. CASE app' = SetStatus(A, o, "disconnected")
    <3>1. app' \in AppT
      BY <1>0, <1>1, <2>3, <2>6, SetStatusIs
    <3> QED BY <1>1, <1>2, <1>3, <2>1, <2>3, <2>6, <3>1, ToldInv, Itself
  <2> QED BY <2>4, <2>5, <2>6
<1>5. CASE SessionExpired(o)
  <2>1. app' = Event(SetStatus(app, o, "expired"))
    BY <1>5 DEF SessionExpired
  <2> QED BY <1>1, <1>2, <1>3, <2>1, StatusInv
<1>6. CASE ErrorFrame(o)
  <2>1. CASE app' = Event(SetStatus(app, o, "disconnected"))
    BY <1>1, <1>2, <1>3, <2>1, StatusInv
  <2>2. CASE app' = Fail(SetStatus(app, o, "disconnected"), o, Listening(o))
    <3>1. Restated(SetStatus(app, o, "disconnected"), o)
      BY <1>0, <1>1, <1>3, StatusStep
    <3> QED BY <1>0, <1>2, <2>2, <3>1, AwaitedIsWaiting, FailInv
  <2> QED BY <1>6, <2>1, <2>2 DEF ErrorFrame
<1> QED BY <1>4, <1>5, <1>6

LEMMA LateEventInv ==
    ASSUME HubInv, NEW o \in Made(app), LateEvent(o)
    PROVE  HubInv'
<1> DEFINE c == app.client[o]
           e == [c EXCEPT !.late = FALSE]
           A == Changed(o, e)
<1>0. /\ app \in AppT /\ o \in Numbers /\ c \in ClientT /\ HubOK(app) /\ StoreOK(app)
      /\ ClientOK(app, o)
  BY ClientIs
<1>1. Quiet /\ c.late
  BY DEF LateEvent
<1>2. c.chat \in Chats
  BY <1>0, <1>1 DEF ClientOK, ClientT, SomeChat
<1>3. LikeBefore(e, c)
  BY <1>0 DEF LikeBefore, ClientT
<1>4. \/ app' = SetStatus(A, o, "live")
      \/ \E unlocked \in BOOLEAN : app' = Ingest(A, c.chat, unlocked)
  BY DEF LateEvent, Changed
<1>5. /\ A \in AppT /\ StoreOK(A) /\ A.client = [app.client EXCEPT ![o] = e]
      /\ A.held = app.held /\ A.opening = app.opening /\ A.made = app.made
      /\ A.task = app.task
  BY <1>3, ChangedIs DEF LikeBefore, Changed
<1> HIDE DEF e
<1>6. SameHub(Changed(o, e), A) /\ SameStore(Changed(o, e), A)
  BY Itself
<1> HIDE DEF A
<1>7. CASE app' = SetStatus(A, o, "live")
  <2>1. "live" \in Status
    BY DEF Status
  <2>2. app' \in AppT
    BY <1>0, <1>5, <1>7, <2>1, SetStatusIs
  <2> QED BY <1>1, <1>3, <1>5, <1>6, <1>7, <2>1, <2>2, ToldInv, Itself
<1>8. ASSUME NEW unlocked \in BOOLEAN, app' = Ingest(A, c.chat, unlocked)
      PROVE  HubInv'
  <2>1. /\ app' \in AppT /\ SameHub(A, app') /\ StoreOK(app')
    BY <1>2, <1>5, <1>8, IngestIs
  <2>2. /\ app'.client = [app.client EXCEPT ![o] = e]
        /\ app'.held = app.held /\ app'.opening = app.opening /\ app'.made = app.made
        /\ app'.task = app.task
    BY <1>5, <2>1 DEF SameHub
  <2> QED BY <1>1, <1>3, <2>1, <2>2, AloneInv DEF LikeBefore
<1> QED BY <1>4, <1>7, <1>8

----------------------------------------------------------------------------
(* Requests that succeed, and the timer of an open that was overtaken.     *)

LEMMA SucceedsInv ==
    ASSUME HubInv, NEW o \in Made(app), Succeeds(o)
    PROVE  HubInv'
<1> DEFINE c == app.client[o]
           s == c.chat
           A == Done(app, o)
           C == SetStatus(A, o, "live")
<1>0. /\ app \in AppT /\ o \in Numbers /\ c \in ClientT /\ HubOK(app) /\ StoreOK(app)
      /\ ClientOK(app, o) /\ app.client \in [Numbers -> ClientT]
  BY ClientIs
<1>1. Quiet /\ c.phase = "rpc" /\ c.socket /\ c.asked # "ring"
  BY DEF Succeeds
<1>2. s \in Chats
  BY <1>0, <1>1 DEF ClientOK, ClientT, SomeChat
<1>3. app.held[s] # 0 \/ c.undead
  BY <1>0, <1>1, <1>2, HubAssumption, StatusSafe
<1>4. PICK T \in {Listening(o), Joined(o)} : app' = Finish(C, T, s, TRUE)
  <2>1. \E T \in {Listening(o)} \cup (IF c.asked = "reconnect" THEN {Joined(o)} ELSE {}) :
          app' = Finish(C, T, s, TRUE)
    BY Zenon DEF Succeeds, Done
  <2> QED BY <2>1
<1>5. "live" \in Status
  BY DEF Status
<1>6. /\ A \in AppT /\ A.held = app.held /\ A.opening = app.opening
      /\ A.made = app.made /\ A.task = app.task /\ SameStore(app, A)
      /\ A.client = [app.client EXCEPT ![o] = [@ EXCEPT !.phase = "idle", !.asked = "none"]]
  BY <1>0, DoneIs
<1>7. StoreOK(A)
  BY <1>0, <1>6, StoreSame
<1> HIDE DEF A
<1>8. /\ C \in AppT /\ C.client = [A.client EXCEPT ![o] = WithStatus(@, "live")]
      /\ C.held = A.held /\ C.opening = A.opening /\ C.made = A.made /\ C.task = A.task
      /\ c.undead => ChatOf(c) \subseteq C.returned
  BY <1>0, <1>5, <1>6, SetStatusIs
<1>9. StoreOK(C)
  BY <1>0, <1>3, <1>5, <1>6, <1>7, SetStatusStore
<1> HIDE DEF C
<1>10. /\ \A p \in Numbers \ {o} : C.client[p] = app.client[p]
       /\ C.client[o] = WithStatus([c EXCEPT !.phase = "idle", !.asked = "none"], "live")
  BY <1>0, <1>6, <1>8
<1>11. /\ C.client[o].chat = s /\ C.client[o].asked = "none" /\ C.client[o].phase = "idle"
       /\ C.client[o].late = c.late /\ C.client[o].crowded = c.crowded
       /\ C.client[o].undead = c.undead
  BY <1>0, <1>10 DEF WithStatus, ClientT
<1>12. IsHeld(app, o) => IsHeld(C, o)
  BY <1>6, <1>8 DEF IsHeld
<1>13. Ended(C, o)
  BY <1>0, <1>1, <1>6, <1>8, <1>9, <1>10, <1>11, <1>12 DEF Ended, ClientOK
<1>14. Waiting(T, o)
  BY <1>0, <1>1, <1>4, AwaitedIsWaiting
<1>15. C.held[s] # 0 \/ s \in C.returned
  BY <1>2, <1>3, <1>6, <1>8, HubAssumption DEF ChatOf
<1>16. ClientStep(app, app', o, T) /\ StoreOK(app')
  BY <1>0, <1>2, <1>4, <1>13, <1>14, <1>15, EndStep
<1>17. T \in SUBSET Tasks
  BY <1>14 DEF Waiting
<1> QED BY <1>1, <1>16, <1>17, InvAfterClientStep

LEMMA OldRequestInv ==
    ASSUME HubInv, NEW t \in Tasks, OldRequestTimesOut(t)
    PROVE  HubInv'
<1> DEFINE o == app.task[t].on
           c == app.client[o]
           s == app.task[t].chat
           D == Disconnect(app, o)
           C == Drop(D, s)
<1>1. Quiet /\ app.task[t].pc = "opens" /\ c.asked \in {"reconnect", "none"}
  BY DEF OldRequestTimesOut
<1>2. OpensOK(app, t)
  BY <1>1 DEF HubInv, HubOK, CallsOK
<1>3. o \in Made(app) /\ c.chat = s
  BY <1>2 DEF OpensOK
<1>4. /\ app \in AppT /\ o \in Numbers /\ c \in ClientT /\ HubOK(app) /\ StoreOK(app)
      /\ ClientOK(app, o) /\ app.client \in [Numbers -> ClientT]
  BY <1>3, ClientIs
<1>5. s \in Chats /\ app.held[s] \in {0, o} /\ s # None
  <2>1. s # None
    BY <1>1, <1>2 DEF OpensOK
  <2> QED BY <1>2, <1>3, <1>4, <2>1 DEF OpensOK, ClientT, SomeChat
<1>6. app' = Finish(C, {t}, s, FALSE)
  BY Zenon DEF OldRequestTimesOut
<1>7. StoreBut(app, s)
  BY <1>4 DEF StoreOK, StoreBut
<1>8. /\ D \in AppT /\ D.client = [app.client EXCEPT ![o] = Closed(@)]
      /\ D.held = app.held /\ D.opening = app.opening
      /\ D.made = app.made /\ D.task = app.task /\ StoreBut(D, s)
  BY <1>3, <1>4, <1>7, DisconnectIs
<1> HIDE DEF D
<1>9. /\ C \in AppT /\ C.client = D.client /\ C.held = [D.held EXCEPT ![s] = 0]
      /\ C.opening = D.opening /\ C.made = D.made /\ C.task = D.task /\ StoreOK(C)
  BY <1>5, <1>8, DropIs
<1> HIDE DEF C
<1>10. C.client[o] = Closed(c) /\ \A p \in Numbers \ {o} : C.client[p] = app.client[p]
  BY <1>4, <1>8, <1>9
<1>11. /\ C.client[o].chat = s /\ C.client[o].asked = c.asked /\ C.client[o].late = c.late
       /\ C.client[o].crowded = c.crowded /\ ~C.client[o].socket
       /\ C.client[o].phase # "attempt"
       /\ C.client[o].phase = "pause" => C.client[o].undead
  BY <1>3, <1>4, <1>10, ClosedTyped
<1>12. app.held \in [Chats -> Nat]
  BY <1>4 DEF AppT
<1>13. \A x \in Chats : C.held[x] = app.held[x] \/ (C.held[x] = 0 /\ app.held[x] = o)
  BY <1>5, <1>8, <1>9, <1>12
<1>14. Ended(C, o)
  BY <1>1, <1>3, <1>5, <1>8, <1>9, <1>10, <1>11, <1>13 DEF Ended
<1>15. Waiting({t}, o)
  BY <1>1 DEF Waiting
<1> HIDE DEF o
<1>16. ClientStep(app, app', o, {t}) /\ StoreOK(app')
  BY <1>3, <1>4, <1>6, <1>14, <1>15, EndStep
<1> QED BY <1>1, <1>3, <1>16, InvAfterClientStep

\* A ring is answered: the hub now holds the client, for a chat that is new.
LEMMA HubAfterRing ==
    ASSUME HubOK(app), Silent(app), NEW o \in Made(app), NEW s \in Chats,
           NEW T \in SUBSET Tasks, NEW e, NEW B \in AppT,
           app.client[o].asked = "ring", Unused(s),
           e.chat = s, e.phase = "idle", e.asked = "none", ~e.late,
           B.held = [app.held EXCEPT ![s] = o], B.client = [app.client EXCEPT ![o] = e],
           B.made = app.made, Ends(app, B, T),
           T = {t \in Tasks : app.task[t].on = o /\ app.task[t].pc = "opens"}
    PROVE  HubOK(B)
<1>1. /\ app \in AppT /\ Made(app) \subseteq Numbers /\ s # None /\ o # 0
      /\ app.client \in [Numbers -> ClientT] /\ app.held \in [Chats -> Nat]
      /\ app.task \in [Tasks -> CallT]
  BY MadeTyped, HubAssumption DEF HubOK, AppT, Made
<1>2. /\ app.held[s] = 0 /\ app.opening[s] = None
      /\ \A p \in Made(app) : app.client[p].chat # s
  BY DEF Unused, Made
<1>3. app.client[o].chat = None
  BY DEF HubOK, ClientsOK, ClientOK
<1>4. B.client[o] = e /\ \A p \in Made(app) \ {o} : B.client[p] = app.client[p]
  BY <1>1
<1>5. B.held[s] = o /\ \A x \in Chats \ {s} : B.held[x] = app.held[x] /\ app.held[x] # o
  <2>1. \A x \in Chats : app.held[x] # o
    BY <1>1, <1>3, HubAssumption DEF HubOK, HeldOK
  <2> QED BY <1>1, <2>1
<1>6. \A t \in Tasks : app.task[t].pc \in {"opens", "reconnects"} /\ t \notin T
                         => B.task[t] = app.task[t]
  BY DEF Ends
<1>7. HeldOK(B)
  <2> SUFFICES ASSUME NEW x \in Chats, B.held[x] # 0
               PROVE  /\ B.held[x] \in Made(B) /\ B.client[B.held[x]].chat = x
                      /\ B.client[B.held[x]].asked # "ring"
    BY DEF HeldOK
  <2>1. CASE x = s
    BY <1>4, <1>5, <2>1 DEF Made
  <2>2. CASE x # s
    <3>1. B.held[x] = app.held[x] /\ app.held[x] # o
      BY <1>5, <2>2
    <3>2. /\ app.held[x] \in Made(app) /\ app.client[app.held[x]].chat = x
          /\ app.client[app.held[x]].asked # "ring"
      BY <3>1 DEF HubOK, HeldOK
    <3> QED BY <1>4, <3>1, <3>2 DEF Made
  <2> QED BY <2>1, <2>2
<1>8. OpeningOK(B)
  <2> SUFFICES ASSUME NEW x \in Chats, B.opening[x] # None
               PROVE  /\ B.task[B.opening[x]].pc \in {"opens", "reconnects"}
                      /\ B.task[B.opening[x]].chat = x
    BY DEF OpeningOK
  <2>1. B.opening[x] = app.opening[x] /\ app.opening[x] \notin T
    BY DEF Ends
  <2>2. app.opening[x] \in Tasks
    BY <1>1, <2>1 DEF AppT
  <2>3. /\ app.task[app.opening[x]].pc \in {"opens", "reconnects"}
        /\ app.task[app.opening[x]].chat = x
    BY <2>1 DEF HubOK, OpeningOK
  <2> QED BY <1>6, <2>1, <2>2, <2>3
<1>9. CallsOK(B)
  <2> SUFFICES ASSUME NEW t \in Tasks
               PROVE  /\ B.task[t].pc = "opens" => OpensOK(B, t)
                      /\ B.task[t].pc = "reconnects" => ReconnectsOK(B, t)
                      /\ B.task[t].pc \in {"waits", "resumes"} => WaitsOK(B.task[t])
                      /\ B.task[t].pc = "resumes" => ResumesOK(B, t)
    BY DEF CallsOK
  <2>1. CASE B.task[t] = NoCall
    BY <2>1 DEF NoCall
  <2>2. CASE B.task[t] # NoCall /\ B.task[t] = app.task[t]
    <3>1. t \notin T
      BY <2>2 DEF Ends
    <3>2. app.task[t].chat \in SomeChat
      BY <1>1 DEF CallT
    <3>3. ASSUME app.task[t].pc = "opens"
          PROVE  OpensOK(B, t)
      <4>1. OpensOK(app, t) /\ app.task[t].on \in Made(app) \ {o}
        BY <3>1, <3>3 DEF HubOK, CallsOK, OpensOK
      <4>2. CASE app.task[t].chat = None
        BY <1>4, <2>2, <4>1, <4>2 DEF OpensOK, Made
      <4>3. CASE app.task[t].chat # None
        <5>1. app.task[t].chat \in Chats
          BY <3>2, <4>3 DEF SomeChat
        <5>2. app.opening[app.task[t].chat] = t /\ app.task[t].chat # s
          BY <1>2, <4>1, <4>3, HubAssumption DEF OpensOK
        <5>3. B.opening[app.task[t].chat] = t
          BY <3>1, <5>1, <5>2 DEF Ends
        <5> QED BY <1>4, <1>5, <2>2, <4>1, <4>3, <5>1, <5>2, <5>3 DEF OpensOK, Made
      <4> QED BY <4>2, <4>3
    <3>4. ASSUME app.task[t].pc = "reconnects"
          PROVE  ReconnectsOK(B, t)
      <4>1. ReconnectsOK(app, t)
        BY <3>4 DEF HubOK, CallsOK
      <4>2. app.task[t].on \in Made(app) \ {o}
        BY <1>3, <4>1 DEF ReconnectsOK
      <4> QED BY <1>4, <2>2, <4>1, <4>2 DEF ReconnectsOK, Made
    <3>5. app.task[t].pc \in {"waits", "resumes"} => WaitsOK(app.task[t])
      BY DEF HubOK, CallsOK
    <3> QED BY <2>2, <3>3, <3>4, <3>5 DEF Silent
  <2>3. CASE /\ app.task[t].pc = "waits" /\ app.opening[app.task[t].chat] \in T
             /\ B.task[t] = [app.task[t] EXCEPT !.pc = "resumes"]
    <3>1. app.task[t] \in CallT
      BY <1>1
    <3>2. /\ B.task[t].pc = "resumes" /\ B.task[t].chat = app.task[t].chat
          /\ B.task[t].op = app.task[t].op
      BY <2>3, <3>1 DEF CallT
    <3>3. app.task[t].chat # None /\ WaitsOK(B.task[t])
      BY <2>3, <3>2 DEF HubOK, CallsOK, WaitsOK
    <3>4. app.task[t].chat \in Chats
      BY <3>1, <3>3 DEF CallT, SomeChat
    <3>5. B.opening[app.task[t].chat] = None
      BY <2>3, <3>4 DEF Ends
    <3> QED BY <3>2, <3>3, <3>5 DEF ResumesOK
  <2> QED BY <2>1, <2>2, <2>3 DEF Ends
<1>10. ClientsOK(B)
  <2> SUFFICES ASSUME NEW p \in Made(app)
               PROVE  ClientOK(B, p)
    BY DEF ClientsOK, Made
  <2>0. ClientOK(app, p)
    BY DEF HubOK, ClientsOK
  <2>1. CASE p # o
    <3>1. B.client[p] = app.client[p]
      BY <1>4, <2>1
    <3>2. IsHeld(app, p) => IsHeld(B, p)
      BY <1>2, <1>5 DEF IsHeld, Made
    <3>3. \A t \in Tasks : app.task[t].pc = "opens" /\ app.task[t].on = p
                             => B.task[t] = app.task[t]
      BY <1>6, <2>1
    <3> QED BY <2>0, <3>1, <3>2, <3>3 DEF ClientOK
  <2>2. CASE p = o
    BY <1>1, <1>4, <1>5, <2>2 DEF ClientOK, IsHeld
  <2> QED BY <2>1, <2>2
<1> QED BY <1>7, <1>8, <1>9, <1>10 DEF HubOK

LEMMA RingInv ==
    ASSUME HubInv, NEW o \in Made(app), NEW s \in Chats, RingSucceeds(o, s)
    PROVE  HubInv'
<1> DEFINE c == app.client[o]
           e == [c EXCEPT !.chat = s, !.phase = "idle", !.asked = "none",
                          !.named = TRUE, !.crowded = ~CanOpenChat(app)]
           A == [app EXCEPT !.held[s] = o, !.client[o] = e]
           U == UpsertChat(A, s)
           T == Awaiting(app, o, {"opens"})
<1>1. /\ app \in AppT /\ o \in Numbers /\ c \in ClientT /\ HubOK(app) /\ StoreOK(app)
      /\ ClientOK(app, o) /\ app.client \in [Numbers -> ClientT]
      /\ app.held \in [Chats -> Nat] /\ RoomOK(app) /\ CapOK(app) /\ o \in Nat /\ o # 0
  BY ClientIs DEF AppT, HubInv, Made
<1>2. Quiet /\ c.asked = "ring" /\ Unused(s)
  BY DEF RingSucceeds, Fresh, Unknown
<1>3. app' = Finish(U, T, s, TRUE)
  BY DEF RingSucceeds
<1>4. /\ e \in ClientT /\ e.chat = s /\ e.phase = "idle" /\ e.asked = "none"
      /\ e.late = c.late /\ (e.crowded <=> ~CanOpenChat(app))
  BY <1>1 DEF ClientT, SomeChat
<1> HIDE DEF e
<1>5. /\ A \in AppT /\ A.held = [app.held EXCEPT ![s] = o]
      /\ A.client = [app.client EXCEPT ![o] = e]
      /\ A.opening = app.opening /\ A.made = app.made /\ A.task = app.task
      /\ SameStore(app, A)
  BY <1>1, <1>4 DEF AppT, SameStore
<1> HIDE DEF A
<1>6. /\ U \in AppT /\ SameHub(A, U) /\ U.shown = A.shown \union {s}
      /\ U.returned = A.returned /\ U.unread = A.unread /\ U.active = A.active
  BY <1>5, UpsertIs
<1> HIDE DEF U
<1>7. /\ U.held = [app.held EXCEPT ![s] = o] /\ U.client = [app.client EXCEPT ![o] = e]
      /\ U.opening = app.opening /\ U.made = app.made /\ U.task = app.task
      /\ U.shown = app.shown \union {s} /\ U.returned = app.returned
      /\ U.unread = app.unread /\ U.active = app.active
  BY <1>5, <1>6 DEF SameHub, SameStore
<1>8. StoreOK(U)
  BY <1>1, <1>7 DEF StoreOK, HeldChats
<1>9. T \in SUBSET Tasks /\ \A t \in T : U.task[t].pc # "waits"
  BY <1>7 DEF Awaiting
<1>10. U.held[s] = o
  BY <1>1, <1>7
<1>11. s \in SomeChat
  BY DEF SomeChat
<1>12. T = {t \in Tasks : app.task[t].on = o /\ app.task[t].pc = "opens"}
  BY DEF Awaiting
<1> HIDE DEF T
<1>13. /\ U.opening = app.opening /\ U.task = app.task /\ U.held[s] # 0
  BY <1>1, <1>7, <1>10
<1>14. /\ app' \in AppT /\ Ends(U, app', T) /\ app'.held = U.held
       /\ app'.client = U.client /\ app'.made = U.made /\ StoreOK(app')
  <2> DEFINE F == Finish(U, T, s, TRUE)
  <2>1. /\ F \in AppT /\ Ends(U, F, T) /\ F.held = U.held
        /\ F.client = U.client /\ F.made = U.made /\ StoreOK(F)
    BY <1>6, <1>8, <1>9, <1>11, <1>13, FinishIs
  <2> HIDE DEF F
  <2>2. app' = F
    BY <1>3 DEF F
  <2> QED BY <2>1, <2>2
<1>15. Ends(app, app', T)
  BY <1>7, <1>14 DEF Ends
<1>16. HubOK(app')
  <2>1. ~e.late
    BY <1>1, <1>2, <1>4 DEF ClientOK
  <2>2. Silent(app)
    BY <1>2 DEF Quiet, Silent
  <2> QED BY <1>1, <1>2, <1>4, <1>7, <1>14, <1>15, <1>12, <2>1, <2>2, HubAfterRing
<1>17. RoomOK(app')
  <2>1. app.made \in Nat
    BY <1>1, MadeTyped
  <2> QED BY <1>1, <1>7, <1>14, <1>15, <2>1, EndsRoom
<1>18. CapOK(app')
  <2>1. app.held[s] = 0
    BY <1>2 DEF Unused
  <2>2. \A x \in Chats \ {s} : app'.held[x] = app.held[x]
    BY <1>1, <1>7, <1>14
  <2>3. c.chat = None
    BY <1>1, <1>2 DEF ClientOK
  <2>4. \A x \in Chats : app.held[x] # o
    BY <1>1, <2>3, HubAssumption DEF HubOK, HeldOK
  <2>5. \A x \in Chats : app.held[x] # 0 => app.held[x] \in Numbers
    BY <1>1, MadeTyped DEF HubOK, HeldOK
  <2>6. \A x \in Chats \ {s} : app'.held[x] # 0 =>
            app'.client[app'.held[x]].crowded = app.client[app.held[x]].crowded
    BY <1>1, <1>7, <1>14, <2>2, <2>4, <2>5
  <2>7. s \in Counted(app') => ~e.crowded
    BY <1>1, <1>7, <1>10, <1>14 DEF Counted
  <2>8. s \in Counted(app') => CanOpenChat(app)
    BY <1>4, <2>7
  <2> QED BY <1>1, <2>1, <2>2, <2>6, <2>8, CapGrows
<1> QED BY <1>14, <1>16, <1>17, <1>18 DEF HubInv

----------------------------------------------------------------------------
(* A chat is left.                                                         *)

LEMMA LateIs ==
    ASSUME NEW C \in AppT, NEW o \in Numbers
    PROVE  LET B == Event([C EXCEPT !.client[o].late = TRUE]) IN
           /\ B \in AppT /\ SameStore(C, B)
           /\ B.held = C.held /\ B.opening = C.opening /\ B.made = C.made /\ B.task = C.task
           /\ B.client = [C.client EXCEPT ![o] = [@ EXCEPT !.late = TRUE]]
<1> DEFINE L == [C EXCEPT !.client[o].late = TRUE]
<1>1. C.client[o] \in ClientT
  BY DEF AppT
<1>2. [C.client[o] EXCEPT !.late = TRUE] \in ClientT
  BY <1>1 DEF ClientT
<1>3. /\ L \in AppT /\ SameStore(C, L)
      /\ L.held = C.held /\ L.opening = C.opening /\ L.made = C.made /\ L.task = C.task
      /\ L.client = [C.client EXCEPT ![o] = [@ EXCEPT !.late = TRUE]]
  BY <1>2 DEF AppT, SameStore
<1> HIDE DEF L
<1>4. Event(L) \in AppT /\ SameHub(L, Event(L)) /\ SameStore(L, Event(L))
  BY <1>3, EventIs
<1>5. \A B : SameHub(L, B) /\ SameStore(L, B) =>
        /\ SameStore(C, B)
        /\ B.held = C.held /\ B.opening = C.opening /\ B.made = C.made /\ B.task = C.task
        /\ B.client = [C.client EXCEPT ![o] = [@ EXCEPT !.late = TRUE]]
  BY <1>3 DEF SameHub, SameStore
<1> QED BY <1>4, <1>5 DEF L

LEMMA LeftInv ==
    ASSUME HubInv, Quiet, NEW s \in Chats, NEW late \in BOOLEAN, Left(s, late)
    PROVE  HubInv'
<1> DEFINE o == app.held[s]
           D == Disconnect(app, o)
           C == Drop(D, s)
<1>1. /\ app \in AppT /\ HubOK(app) /\ StoreOK(app)
      /\ app.held \in [Chats -> Nat] /\ StoreBut(app, s)
  BY DEF HubInv, HubOK, AppT, StoreOK, StoreBut
<1>2. CASE o = 0
  <2>1. app' = Drop(app, s)
    BY <1>2, Zenon DEF Left, LeaveSession
  <2>2. /\ app' \in AppT /\ app'.client = app.client
        /\ app'.held = [app.held EXCEPT ![s] = 0] /\ app'.opening = app.opening
        /\ app'.made = app.made /\ app'.task = app.task /\ StoreOK(app')
    BY <1>1, <2>1, DropIs
  <2>3. app'.held = app.held
    BY <1>1, <1>2, <2>2
  <2> QED BY <2>2, <2>3, StoreInv DEF SameHub
<1>3. CASE o # 0
  <2> DEFINE c == app.client[o]
  <2>1. o \in Made(app) /\ c.chat = s /\ c.asked # "ring" /\ s # None
    BY <1>1, <1>3, HubAssumption DEF HubOK, HeldOK
  <2>2. o \in Numbers /\ c \in ClientT /\ app.client \in [Numbers -> ClientT]
    BY <2>1, ClientIs
  <2> HIDE DEF o
  <2>3. /\ D \in AppT /\ D.client = [app.client EXCEPT ![o] = Closed(@)]
        /\ D.held = app.held /\ D.opening = app.opening
        /\ D.made = app.made /\ D.task = app.task /\ StoreBut(D, s)
    BY <1>1, <2>1, <2>2, DisconnectIs
  <2> HIDE DEF D
  <2>4. /\ C \in AppT /\ C.client = D.client /\ C.held = [D.held EXCEPT ![s] = 0]
        /\ C.opening = D.opening /\ C.made = D.made /\ C.task = D.task /\ StoreOK(C)
    BY <2>3, DropIs
  <2> HIDE DEF C
  <2>5. C.client[o] = Closed(c) /\ \A p \in Numbers \ {o} : C.client[p] = app.client[p]
    BY <2>2, <2>3, <2>4
  <2>6. /\ C.client[o].chat = s /\ C.client[o].asked = c.asked
        /\ C.client[o].crowded = c.crowded /\ ~C.client[o].socket
        /\ C.client[o].phase # "attempt"
        /\ C.client[o].phase = "pause" => C.client[o].undead
        /\ C.client[o] \in ClientT
    BY <2>1, <2>2, <2>5, ClosedTyped
  <2>7. \A x \in Chats : C.held[x] = app.held[x] \/ (C.held[x] = 0 /\ app.held[x] = o)
    BY <1>1, <2>3, <2>4 DEF o
  <2>8. app' = IF late THEN Event([C EXCEPT !.client[o].late = TRUE]) ELSE C
    BY <1>3, Zenon DEF Left, LeaveSession, o, D, C
  <2>9. ASSUME NEW B \in AppT, B.held = C.held, B.opening = C.opening, B.made = C.made,
               B.task = C.task, StoreOK(B),
               \A p \in Numbers \ {o} : B.client[p] = C.client[p],
               B.client[o] \in {C.client[o], [C.client[o] EXCEPT !.late = TRUE]}
        PROVE  ClientStep(app, B, o, {}) /\ StoreOK(B)
    <3>1. /\ B.client[o].chat = s /\ B.client[o].asked = c.asked
          /\ B.client[o].crowded = c.crowded /\ ~B.client[o].socket
          /\ B.client[o].phase # "attempt"
          /\ B.client[o].phase = "pause" => B.client[o].undead
      BY <2>6, <2>9 DEF ClientT
    <3>2. Ends(app, B, {})
      BY <2>3, <2>4, <2>9 DEF Ends
    <3> QED BY <2>1, <2>3, <2>4, <2>5, <2>7, <2>9, <3>1, <3>2 DEF ClientStep
  <2>10. ClientStep(app, app', o, {}) /\ StoreOK(app')
    <3>1. CASE ~late
      BY <2>4, <2>8, <2>9, <3>1
    <3>2. CASE late
      <4> DEFINE B == Event([C EXCEPT !.client[o].late = TRUE])
      <4>1. /\ B \in AppT /\ SameStore(C, B)
            /\ B.held = C.held /\ B.opening = C.opening /\ B.made = C.made /\ B.task = C.task
            /\ B.client = [C.client EXCEPT ![o] = [@ EXCEPT !.late = TRUE]]
        BY <2>2, <2>4, LateIs
      <4>2. app' = B
        BY <2>8, <3>2
      <4> HIDE DEF B
      <4>3. StoreOK(B) /\ C.client \in [Numbers -> ClientT]
        BY <2>4, <4>1, StoreSame DEF AppT
      <4>4. /\ B.client[o] = [C.client[o] EXCEPT !.late = TRUE]
            /\ \A p \in Numbers \ {o} : B.client[p] = C.client[p]
        BY <2>2, <4>1, <4>3
      <4> QED BY <2>9, <4>1, <4>2, <4>3, <4>4
    <3> QED BY <3>1, <3>2
  <2> QED BY <2>1, <2>10, InvAfterClientStep
<1> QED BY <1>2, <1>3

LEMMA LeavingInv ==
    ASSUME HubInv, NEW s \in Chats, LeaveChat(s) \/ ExpireSession(s)
    PROVE  HubInv'
BY LeftInv DEF LeaveChat, ExpireSession

----------------------------------------------------------------------------
(* Calls that start or end without a client of their own.                  *)

\* There is room for a client of the call t.
RoomFor(A, t) == A.made + Cardinality(Pending(A) \ {t}) < MaxClients

\* The call t becomes k.
CallIs(A, B, t, k) == B.task = [A.task EXCEPT ![t] = k]

\* Then no other call is pending than before.
LEMMA PendingIs ==
    ASSUME NEW A \in AppT, NEW B, NEW t \in Tasks, NEW k,
           CallIs(A, B, t, k)
    PROVE  /\ Pending(B) = IF k.pc \in {"waits", "resumes"} THEN Pending(A) \union {t}
                           ELSE Pending(A) \ {t}
           /\ IsFiniteSet(Pending(A)) /\ IsFiniteSet(Pending(B))
           /\ Cardinality(Pending(A)) \in Nat /\ Cardinality(Pending(A) \ {t}) \in Nat
           /\ Cardinality(Pending(A) \ {t}) <= Cardinality(Pending(A))
           /\ t \in Pending(A) => Cardinality(Pending(A)) = Cardinality(Pending(A) \ {t}) + 1
           /\ Cardinality(Pending(A) \union {t}) = Cardinality(Pending(A) \ {t}) + 1
<1>1. A.task \in [Tasks -> CallT]
  BY DEF AppT
<1>2. Pending(B) = IF k.pc \in {"waits", "resumes"} THEN Pending(A) \union {t}
                   ELSE Pending(A) \ {t}
  BY <1>1 DEF Pending, CallIs
<1>3. IsFiniteSet(Pending(A)) /\ IsFiniteSet(Pending(B)) /\ IsFiniteSet(Pending(A) \ {t})
  BY HubAssumption, FS_Subset DEF Pending
<1>4. /\ Cardinality(Pending(A)) \in Nat /\ Cardinality(Pending(A) \ {t}) \in Nat
      /\ Cardinality(Pending(A) \ {t}) <= Cardinality(Pending(A))
  BY <1>3, FS_CardinalityType, FS_Subset
<1>5. (Pending(A) \ {t}) \union {t} = Pending(A) \union {t}
  OBVIOUS
<1>6. Cardinality(Pending(A) \union {t}) = Cardinality(Pending(A) \ {t}) + 1
  BY <1>3, <1>5, FS_AddElement
<1>7. t \in Pending(A) => Pending(A) \union {t} = Pending(A)
  OBVIOUS
<1> QED BY <1>2, <1>3, <1>4, <1>6, <1>7

LEMMA RoomBy ==
    ASSUME NEW A \in AppT, NEW B, NEW t \in Tasks, NEW k,
           CallIs(A, B, t, k),
           \/ B.made = A.made /\ RoomFor(A, t)
           \/ B.made = A.made /\ RoomOK(A) /\ k.pc \notin {"waits", "resumes"}
           \/ B.made = A.made + 1 /\ RoomFor(A, t) /\ k.pc \notin {"waits", "resumes"}
    PROVE  RoomOK(B)
<1>1. A.made \in Nat /\ MaxClients \in Nat
  BY MadeTyped, HubAssumption
<1> DEFINE P == Pending(A)
           Q == Pending(A) \ {t}
<1>2. /\ Pending(B) = IF k.pc \in {"waits", "resumes"} THEN P \union {t} ELSE Q
      /\ Cardinality(P) \in Nat /\ Cardinality(Q) \in Nat
      /\ Cardinality(Q) <= Cardinality(P)
      /\ Cardinality(P \union {t}) = Cardinality(Q) + 1
  BY PendingIs
<1>3. /\ RoomOK(A) => A.made + Cardinality(P) <= MaxClients
      /\ RoomFor(A, t) => A.made + Cardinality(Q) < MaxClients
  BY DEF RoomOK, RoomFor
<1> HIDE DEF P, Q
<1>4. B.made + Cardinality(Pending(B)) <= MaxClients
  BY <1>1, <1>2, <1>3
<1> QED BY <1>4 DEF RoomOK

\* Calls that opened no chat end, wait, or reconnect a client of their chat.
LEMMA HubAfterCalls ==
    ASSUME NEW A, NEW B \in AppT, HubOK(A),
           B.held = A.held, B.opening = A.opening, B.client = A.client, B.made = A.made,
           \A u \in Tasks : B.task[u] # A.task[u] =>
               /\ A.task[u].pc \in {"idle", "waits", "resumes"}
               /\ \/ B.task[u].pc = "idle"
                  \/ B.task[u].pc = "waits" /\ WaitsOK(B.task[u])
                  \/ B.task[u].pc = "reconnects" /\ ReconnectsOK(B, u)
    PROVE  HubOK(B)
<1>1. HeldOK(B)
  BY DEF HubOK, HeldOK, Made
<1>2. OpeningOK(B)
  <2> SUFFICES ASSUME NEW x \in Chats, B.opening[x] # None
               PROVE  /\ B.task[B.opening[x]].pc \in {"opens", "reconnects"}
                      /\ B.task[B.opening[x]].chat = x
    BY DEF OpeningOK
  <2>1. /\ A.task[A.opening[x]].pc \in {"opens", "reconnects"}
        /\ A.task[A.opening[x]].chat = x
    BY DEF HubOK, OpeningOK
  <2>2. A.opening[x] \in Tasks
    BY DEF HubOK, AppT
  <2>3. B.task[A.opening[x]] = A.task[A.opening[x]]
    BY <2>1, <2>2
  <2> QED BY <2>1, <2>3
<1>3. CallsOK(B)
  <2> SUFFICES ASSUME NEW t \in Tasks
               PROVE  /\ B.task[t].pc = "opens" => OpensOK(B, t)
                      /\ B.task[t].pc = "reconnects" => ReconnectsOK(B, t)
                      /\ B.task[t].pc \in {"waits", "resumes"} => WaitsOK(B.task[t])
                      /\ B.task[t].pc = "resumes" => ResumesOK(B, t)
    BY DEF CallsOK
  <2>1. CASE B.task[t] # A.task[t]
    BY <2>1
  <2>2. CASE B.task[t] = A.task[t]
    BY <2>2 DEF HubOK, CallsOK, OpensOK, ReconnectsOK, ResumesOK, Made
  <2> QED BY <2>1, <2>2
<1>4. ClientsOK(B)
  <2> SUFFICES ASSUME NEW p \in Made(A)
               PROVE  ClientOK(B, p)
    BY DEF ClientsOK, Made
  <2>1. ClientOK(A, p)
    BY DEF HubOK, ClientsOK
  <2>2. \A u \in Tasks : A.task[u].pc = "opens" => B.task[u] = A.task[u]
    OBVIOUS
  <2>3. IsHeld(A, p) <=> IsHeld(B, p)
    BY DEF IsHeld
  <2> QED BY <2>1, <2>2, <2>3 DEF ClientOK
<1> QED BY <1>1, <1>2, <1>3, <1>4 DEF HubOK

LEMMA RedialledTyped ==
    ASSUME NEW c \in ClientT
    PROVE  /\ Redialled(c) \in ClientT /\ Redialled(c).chat = c.chat
           /\ Redialled(c).asked = "reconnect" /\ Redialled(c).crowded = c.crowded
           /\ Redialled(c).late = c.late
<1>1. CASE c.asked = "reconnect"
  BY <1>1 DEF Redialled
<1>2. CASE c.asked # "reconnect"
  <2> DEFINE d == [c EXCEPT !.phase = "attempt", !.asked = "reconnect", !.tries = 0,
                            !.socket = FALSE, !.status = "connecting"]
  <2>1. d \in ClientT
    BY DEF ClientT, Status
  <2>2. /\ d.chat = c.chat /\ d.asked = "reconnect"
        /\ d.crowded = c.crowded /\ d.late = c.late
    BY DEF ClientT
  <2>3. Redialled(c) = d
    BY <1>2 DEF Redialled
  <2> HIDE DEF d
  <2> QED BY <2>1, <2>2, <2>3
<1> QED BY <1>1, <1>2

\* Clients of the hub are made to reconnect.
LEMMA HubsAfterRedial ==
    ASSUME NEW A, NEW B \in AppT, HubsOK(A),
           B.held = A.held, B.opening = A.opening, B.made = A.made, B.task = A.task,
           \A p \in Numbers : \/ B.client[p] = A.client[p]
                              \/ IsHeld(A, p) /\ B.client[p] = Redialled(A.client[p])
    PROVE  HubsOK(B)
<1>1. A \in AppT /\ Made(A) \subseteq Numbers /\ HubOK(A)
  BY MadeTyped DEF HubsOK, HubOK
<1>2. \A p \in Numbers : A.client[p] \in ClientT
  BY <1>1 DEF AppT
<1>3. \A p \in Numbers : /\ B.client[p].chat = A.client[p].chat
                         /\ B.client[p].crowded = A.client[p].crowded
                         /\ B.client[p].late = A.client[p].late
  BY <1>2, RedialledTyped
<1>4. \A p \in Numbers : B.client[p] = A.client[p] \/ B.client[p].asked = "reconnect"
  BY <1>2, RedialledTyped
<1>5. HeldOK(B)
  BY <1>1, <1>3, <1>4 DEF HubOK, HeldOK, Made
<1>6. OpeningOK(B)
  BY <1>1 DEF HubOK, OpeningOK
<1>7. CallsOK(B)
  <2> SUFFICES ASSUME NEW t \in Tasks
               PROVE  /\ B.task[t].pc = "opens" => OpensOK(B, t)
                      /\ B.task[t].pc = "reconnects" => ReconnectsOK(B, t)
                      /\ B.task[t].pc \in {"waits", "resumes"} => WaitsOK(B.task[t])
                      /\ B.task[t].pc = "resumes" => ResumesOK(B, t)
    BY DEF CallsOK
  <2>1. ASSUME A.task[t].pc = "opens"
        PROVE  OpensOK(B, t)
    <3>1. OpensOK(A, t)
      BY <1>1, <2>1 DEF HubOK, CallsOK
    <3>2. A.task[t].on \in Made(A) /\ A.task[t].on \in Numbers
      BY <1>1, <3>1 DEF OpensOK
    <3>3. A.task[t].chat = None => B.client[A.task[t].on] = A.client[A.task[t].on]
      <4>1. IsHeld(A, A.task[t].on) => A.client[A.task[t].on].chat \in Chats
        BY <1>1, <3>2, HeldForItsChat
      <4> QED BY <3>1, <3>2, <4>1, HubAssumption DEF OpensOK
    <3> QED BY <1>3, <3>1, <3>2, <3>3 DEF OpensOK, Made
  <2>2. ASSUME A.task[t].pc = "reconnects"
        PROVE  ReconnectsOK(B, t)
    BY <1>1, <1>3, <2>2 DEF HubOK, CallsOK, ReconnectsOK, Made
  <2>3. /\ A.task[t].pc \in {"waits", "resumes"} => WaitsOK(A.task[t])
        /\ A.task[t].pc = "resumes" => ResumesOK(B, t)
    BY <1>1 DEF HubOK, CallsOK, ResumesOK
  <2> QED BY <2>1, <2>2, <2>3
<1>8. ClientsOK(B)
  <2> SUFFICES ASSUME NEW p \in Made(A)
               PROVE  ClientOK(B, p)
    BY DEF ClientsOK, Made
  <2>1. ClientOK(A, p) /\ p \in Numbers
    BY <1>1 DEF HubOK, ClientsOK
  <2>2. IsHeld(A, p) <=> IsHeld(B, p)
    BY DEF IsHeld
  <2>3. CASE B.client[p] = A.client[p]
    BY <2>1, <2>2, <2>3 DEF ClientOK
  <2>4. CASE IsHeld(A, p) /\ B.client[p] = Redialled(A.client[p])
    <3>1. B.client[p].chat # None /\ B.client[p].asked = "reconnect"
      BY <1>1, <1>2, <1>3, <2>1, <2>4, HeldForItsChat, RedialledTyped, HubAssumption
    <3> QED BY <2>2, <2>4, <3>1 DEF ClientOK
  <2> QED BY <2>1, <2>3, <2>4
<1>9. RoomOK(B)
  BY DEF HubsOK, RoomOK, Pending
<1>10. CapOK(B)
  BY <1>1, <1>3, CapShrinks DEF HubsOK, HubOK, HeldOK
<1> QED BY <1>5, <1>6, <1>7, <1>8, <1>9, <1>10 DEF HubsOK, HubOK

----------------------------------------------------------------------------
(* Calls that start a client.                                              *)

\* The client of a new request, for chat s or, while it is rung, for none.
LEMMA HubAfterOpening ==
    ASSUME NEW A, NEW B \in AppT, HubOK(A), NEW t \in Tasks, NEW s \in SomeChat,
           NEW n, n = A.made + 1, B.made = n,
           A.task[t].pc \in {"idle", "resumes"},
           \A u \in Tasks \ {t} : B.task[u] = A.task[u],
           B.task[t].pc = "opens", B.task[t].chat = s, B.task[t].on = n,
           \A p \in Made(A) : B.client[p] = A.client[p],
           B.client[n].chat = s, ~B.client[n].late,
           \A x \in Chats \ {s} : B.held[x] = A.held[x] /\ B.opening[x] = A.opening[x],
           IF s = None THEN B.client[n].asked = "ring" /\ B.task[t].op = "ring"
           ELSE /\ A.held[s] = 0 /\ A.opening[s] = None
                /\ B.held[s] = n /\ B.opening[s] = t /\ B.client[n].asked = "open"
    PROVE  HubOK(B)
<1>1. /\ A \in AppT /\ A.made \in Nat /\ n \notin Made(A) /\ n # 0
      /\ Made(B) = Made(A) \union {n}
  BY MadeTyped DEF HubOK, Made
<1>2. s # None => s \in Chats
  BY DEF SomeChat
<1>3. None \notin Chats
  BY HubAssumption
<1>4. HeldOK(B)
  <2> SUFFICES ASSUME NEW x \in Chats, B.held[x] # 0
               PROVE  /\ B.held[x] \in Made(B) /\ B.client[B.held[x]].chat = x
                      /\ B.client[B.held[x]].asked # "ring"
    BY DEF HeldOK
  <2>1. CASE x = s
    BY <1>1, <1>3, <2>1
  <2>2. CASE x # s
    BY <1>1, <2>2 DEF HubOK, HeldOK
  <2> QED BY <2>1, <2>2
<1>5. OpeningOK(B)
  <2> SUFFICES ASSUME NEW x \in Chats, B.opening[x] # None
               PROVE  /\ B.task[B.opening[x]].pc \in {"opens", "reconnects"}
                      /\ B.task[B.opening[x]].chat = x
    BY DEF OpeningOK
  <2>1. CASE x = s
    BY <1>3, <2>1
  <2>2. CASE x # s
    <3>1. /\ B.opening[x] = A.opening[x]
          /\ A.task[A.opening[x]].pc \in {"opens", "reconnects"}
          /\ A.task[A.opening[x]].chat = x
      BY <2>2 DEF HubOK, OpeningOK
    <3>2. A.opening[x] \in Tasks \ {t}
      BY <1>1, <3>1 DEF AppT
    <3> QED BY <3>1, <3>2
  <2> QED BY <2>1, <2>2
<1>6. CallsOK(B)
  <2> SUFFICES ASSUME NEW u \in Tasks
               PROVE  /\ B.task[u].pc = "opens" => OpensOK(B, u)
                      /\ B.task[u].pc = "reconnects" => ReconnectsOK(B, u)
                      /\ B.task[u].pc \in {"waits", "resumes"} => WaitsOK(B.task[u])
                      /\ B.task[u].pc = "resumes" => ResumesOK(B, u)
    BY DEF CallsOK
  <2>1. CASE u = t
    BY <1>1, <1>2, <2>1 DEF OpensOK
  <2>2. CASE u # t
    <3>1. B.task[u] = A.task[u] /\ A.task[u].chat \in SomeChat
      BY <1>1, <2>2 DEF AppT, CallT
    <3>2. ASSUME A.task[u].pc = "opens"
          PROVE  OpensOK(B, u)
      <4>1. OpensOK(A, u)
        BY <3>2 DEF HubOK, CallsOK
      <4>2. A.task[u].chat # None => A.task[u].chat \in Chats \ {s}
        BY <1>2, <2>2, <3>1, <4>1, HubAssumption DEF OpensOK, SomeChat
      <4> QED BY <1>1, <3>1, <4>1, <4>2 DEF OpensOK
    <3>3. ASSUME A.task[u].pc = "reconnects"
          PROVE  ReconnectsOK(B, u)
      BY <1>1, <3>1, <3>3 DEF HubOK, CallsOK, ReconnectsOK
    <3>4. A.task[u].pc \in {"waits", "resumes"} => WaitsOK(A.task[u])
      BY DEF HubOK, CallsOK
    <3>5. ASSUME A.task[u].pc = "resumes"
          PROVE  ResumesOK(B, u)
      <4>1. ResumesOK(A, u) /\ A.task[u].chat \in Chats
        BY <3>1, <3>4, <3>5 DEF HubOK, CallsOK, SomeChat, WaitsOK
      <4>2. CASE A.task[u].chat = s
        BY <1>1, <1>3, <3>1, <4>1, <4>2 DEF ResumesOK
      <4>3. CASE A.task[u].chat # s
        BY <3>1, <4>1, <4>3 DEF ResumesOK
      <4> QED BY <4>2, <4>3
    <3> QED BY <3>1, <3>2, <3>3, <3>4, <3>5
  <2> QED BY <2>1, <2>2
<1>7. ClientsOK(B)
  <2> SUFFICES ASSUME NEW p \in Made(A) \union {n}
               PROVE  ClientOK(B, p)
    BY <1>1 DEF ClientsOK
  <2>1. CASE p = n
    <3>1. s # None => IsHeld(B, n)
      BY <1>2 DEF IsHeld
    <3> QED BY <2>1, <3>1 DEF ClientOK
  <2>2. CASE p # n
    <3>1. p \in Made(A) /\ p # 0 /\ B.client[p] = A.client[p] /\ ClientOK(A, p)
      BY <2>2 DEF HubOK, ClientsOK, Made
    <3>2. ASSUME NEW x \in Chats, A.held[x] = p
          PROVE  B.held[x] = p
      <4>1. x # s
        BY <1>3, <3>1, <3>2
      <4> QED BY <3>2, <4>1
    <3>3. IsHeld(A, p) => IsHeld(B, p)
      BY <3>2 DEF IsHeld
    <3>4. \A u \in Tasks : A.task[u].pc = "opens" => B.task[u] = A.task[u]
      OBVIOUS
    <3> QED BY <3>1, <3>4, <3>3 DEF ClientOK
  <2> QED BY <2>1, <2>2
<1> QED BY <1>4, <1>5, <1>6, <1>7 DEF HubOK

LEMMA NewClientIs ==
    ASSUME NEW A \in AppT, NEW t \in Tasks, NEW s \in SomeChat, NEW op \in Op,
           A.made < MaxClients
    PROVE  LET B == NewClient(A, t, s, op)
               n == A.made + 1
           IN
           /\ B \in AppT /\ n \in Numbers /\ n \notin Made(A)
           /\ B.made = n /\ B.held = A.held /\ B.opening = A.opening /\ SameStore(A, B)
           /\ CallIs(A, B, t, [pc |-> "opens", op |-> op, chat |-> s, on |-> n])
           /\ \A p \in Numbers \ {n} : B.client[p] = A.client[p]
           /\ B.client[n].chat = s /\ ~B.client[n].late /\ ~B.client[n].crowded
           /\ B.client[n].asked = IF op = "ring" THEN "ring" ELSE "open"
<1> DEFINE B == NewClient(A, t, s, op)
           n == A.made + 1
           d == [Client EXCEPT !.chat = s, !.phase = "attempt", !.status = "connecting",
                               !.asked = IF op = "ring" THEN "ring" ELSE "open"]
           k == [pc |-> "opens", op |-> op, chat |-> s, on |-> n]
<1>1. n \in Numbers /\ n \notin Made(A) /\ n \in 0..MaxClients /\ n \in Nat
  BY MadeTyped, HubAssumption DEF Numbers, Made
<1>2. /\ d \in ClientT /\ d.chat = s /\ ~d.late /\ ~d.crowded
      /\ d.asked = IF op = "ring" THEN "ring" ELSE "open"
  BY DEF Client, ClientT, Status
<1>3. k \in CallT
  BY <1>1 DEF CallT
<1>4. B = [A EXCEPT !.made = n, !.client[n] = d, !.task[t] = k]
  BY DEF NewClient
<1> HIDE DEF B, d, k, n
<1>5. B \in AppT
  BY <1>1, <1>2, <1>3, <1>4 DEF AppT
<1>6. /\ B.made = n /\ B.held = A.held /\ B.opening = A.opening /\ SameStore(A, B)
      /\ B.task = [A.task EXCEPT ![t] = k] /\ B.client = [A.client EXCEPT ![n] = d]
  BY <1>4 DEF AppT, SameStore
<1>7. A.client \in [Numbers -> ClientT]
  BY DEF AppT
<1>8. B.client[n] = d /\ \A p \in Numbers \ {n} : B.client[p] = A.client[p]
  BY <1>1, <1>6, <1>7
<1> QED BY <1>1, <1>2, <1>5, <1>6, <1>8 DEF B, n, k, CallIs

----------------------------------------------------------------------------
(* The operators that start a call keep the invariant.                     *)

InvOf(A) == HubsOK(A) /\ StoreOK(A)

LEMMA InvIs ==
    ASSUME NEW A, InvOf(A)
    PROVE  /\ A \in AppT /\ HubOK(A) /\ HubsOK(A) /\ StoreOK(A)
           /\ A.held \in [Chats -> Nat] /\ A.client \in [Numbers -> ClientT]
           /\ A.task \in [Tasks -> CallT] /\ A.made \in Nat
BY MadeTyped DEF InvOf, HubsOK, HubOK, AppT

\* What is shown changes, the hub does not.
LEMMA InvSame ==
    ASSUME NEW A, InvOf(A), NEW B \in AppT, SameHub(A, B), StoreOK(B)
    PROVE  InvOf(B)
BY HubsSame DEF InvOf

\* The call t is over.
Over(A, t) == [A EXCEPT !.task[t] = NoCall]

LEMMA OverIs ==
    ASSUME NEW A, InvOf(A), NEW t \in Tasks, A.task[t].pc \in {"idle", "resumes"}
    PROVE  /\ InvOf(Over(A, t)) /\ Over(A, t) \in AppT
           /\ Over(A, t).held = A.held /\ Over(A, t).returned = A.returned
<1> DEFINE B == Over(A, t)
<1>1. A \in AppT /\ HubOK(A) /\ StoreOK(A) /\ RoomOK(A) /\ CapOK(A) /\ A.task \in [Tasks -> CallT]
  BY InvIs DEF HubsOK
<1>2. /\ B \in AppT /\ B.task = [A.task EXCEPT ![t] = NoCall]
      /\ B.held = A.held /\ B.opening = A.opening /\ B.client = A.client /\ B.made = A.made
      /\ SameStore(A, B)
  BY <1>1, ClientTyped DEF Over, AppT, SameStore
<1>3. NoCall.pc = "idle"
  BY DEF NoCall
<1> HIDE DEF B
<1>4. \A u \in Tasks : B.task[u] # A.task[u] => u = t /\ B.task[u].pc = "idle"
  BY <1>1, <1>2, <1>3
<1>5. HubOK(B)
  BY <1>1, <1>2, <1>4, HubAfterCalls
<1>6. CallIs(A, B, t, NoCall)
  BY <1>2 DEF CallIs
<1>7. RoomOK(B)
  BY <1>1, <1>2, <1>3, <1>6, RoomBy
<1>8. CapOK(B)
  BY <1>1, <1>2, CapShrinks
<1>9. StoreOK(B)
  BY <1>1, <1>2, StoreSame
<1>10. B.returned = A.returned
  BY <1>2 DEF SameStore
<1> QED BY <1>2, <1>5, <1>7, <1>8, <1>9, <1>10 DEF InvOf, HubsOK, B

LEMMA ReconnectIs ==
    ASSUME NEW A, InvOf(A), NEW t \in Tasks, A.task[t].pc = "idle",
           NEW s \in Chats, A.held[s] # 0, NEW op \in Op
    PROVE  InvOf(Reconnect(A, t, s, op))
<1> DEFINE o == A.held[s]
           c == A.client[o]
           B == Over(A, t)
           U == UpsertChat(A, s)
           P == [U EXCEPT !.client[o] = Redialled(@)]
           k == [pc |-> "reconnects", op |-> op, chat |-> s, on |-> o]
           R == [P EXCEPT !.task[t] = k]
<1>1. /\ A \in AppT /\ HubOK(A) /\ HubsOK(A) /\ StoreOK(A)
      /\ A.client \in [Numbers -> ClientT] /\ A.task \in [Tasks -> CallT]
  BY InvIs
<1>2. o \in Made(A) /\ c.chat = s /\ o \in Numbers /\ o \in Nat /\ s # None
  BY <1>1, MadeTyped, HubAssumption DEF HubOK, HeldOK, Made
<1>3. \/ Reconnect(A, t, s, op) = EndsWell(B, s, {op})
      \/ Reconnect(A, t, s, op) = EndsBadly(B, s, {op})
      \/ Reconnect(A, t, s, op) = [U EXCEPT !.client[o] = Redialled(@), !.task[t] = k]
  BY DEF Reconnect, Over
<1>4. InvOf(B) /\ B \in AppT /\ B.held = A.held /\ StoreOK(B)
  BY OverIs DEF InvOf
<1>5. CASE Reconnect(A, t, s, op) = EndsWell(B, s, {op})
  <2> HIDE DEF B
  <2>1. /\ EndsWell(B, s, {op}) \in AppT /\ SameHub(B, EndsWell(B, s, {op}))
        /\ StoreOK(EndsWell(B, s, {op}))
    BY <1>4, EndsWellIs
  <2> QED BY <1>4, <1>5, <2>1, InvSame
<1>6. CASE Reconnect(A, t, s, op) = EndsBadly(B, s, {op})
  <2> HIDE DEF B
  <2>1. /\ EndsBadly(B, s, {op}) \in AppT /\ SameHub(B, EndsBadly(B, s, {op}))
        /\ StoreOK(EndsBadly(B, s, {op}))
    BY <1>4, EndsBadlyIs
  <2> QED BY <1>4, <1>6, <2>1, InvSame
<1>7. CASE Reconnect(A, t, s, op) = [U EXCEPT !.client[o] = Redialled(@), !.task[t] = k]
  <2>1. U \in AppT /\ SameHub(A, U) /\ StoreOK(U)
    BY <1>1, UpsertIs, StoreUpsert
  <2>2. InvOf(U)
    BY <2>1, InvSame
  <2> HIDE DEF U
  <2>3. U.client = A.client /\ U.held = A.held /\ U.task = A.task /\ U.made = A.made
    BY <2>1 DEF SameHub
  <2>4. Redialled(c) \in ClientT /\ Redialled(c).chat = s
    BY <1>1, <1>2, RedialledTyped
  <2>5. /\ P \in AppT /\ P.client = [U.client EXCEPT ![o] = Redialled(@)]
        /\ P.held = U.held /\ P.opening = U.opening /\ P.made = U.made /\ P.task = U.task
        /\ SameStore(U, P)
    BY <1>2, <2>1, <2>3, <2>4 DEF AppT, SameStore
  <2> HIDE DEF P
  <2>6. \A p \in Numbers : \/ P.client[p] = U.client[p]
                           \/ IsHeld(U, p) /\ P.client[p] = Redialled(U.client[p])
    <3>1. IsHeld(U, o)
      BY <2>3 DEF IsHeld
    <3> HIDE DEF o
    <3> QED BY <1>1, <1>2, <2>3, <2>5, <3>1
  <2>7. HubsOK(P) /\ StoreOK(P)
    BY <2>1, <2>2, <2>5, <2>6, HubsAfterRedial, StoreSame DEF InvOf
  <2>8. P.client[o].chat = s
    BY <1>1, <1>2, <2>3, <2>4, <2>5
  <2> HIDE DEF o
  <2>9. k \in CallT /\ k.pc = "reconnects" /\ k.on = o /\ k.chat = s
    BY <1>2 DEF CallT, SomeChat
  <2> HIDE DEF k
  <2>10. /\ R \in AppT /\ R.task = [P.task EXCEPT ![t] = k]
         /\ R.held = P.held /\ R.opening = P.opening /\ R.client = P.client
         /\ R.made = P.made /\ SameStore(P, R)
    BY <2>5, <2>9 DEF AppT, SameStore
  <2>11. Reconnect(A, t, s, op) = R
    BY <1>7, <2>1 DEF P, AppT
  <2> HIDE DEF R
  <2>12. R.task[t] = k /\ \A u \in Tasks \ {t} : R.task[u] = P.task[u]
    BY <1>1, <2>3, <2>5, <2>10
  <2>13. P.task[t].pc = "idle"
    BY <2>3, <2>5
  <2>14. ReconnectsOK(R, t)
    BY <1>2, <2>3, <2>5, <2>8, <2>9, <2>10, <2>12 DEF ReconnectsOK, Made
  <2>15. HubOK(R)
    BY <2>7, <2>9, <2>10, <2>12, <2>13, <2>14, HubAfterCalls DEF HubsOK
  <2>16. RoomOK(R)
    <3>1. CallIs(P, R, t, k) /\ k.pc \notin {"waits", "resumes"}
      BY <2>9, <2>10 DEF CallIs
    <3> QED BY <2>5, <2>7, <2>10, <3>1, RoomBy DEF HubsOK
  <2>17. CapOK(R) /\ StoreOK(R)
    BY <2>7, <2>10, CapShrinks, StoreSame DEF HubsOK
  <2> QED BY <2>11, <2>15, <2>16, <2>17 DEF InvOf, HubsOK
<1> QED BY <1>3, <1>5, <1>6, <1>7

LEMMA OpenNowIs ==
    ASSUME NEW A, InvOf(A), NEW t \in Tasks, A.task[t].pc \in {"idle", "resumes"},
           NEW s \in Chats, A.held[s] = 0, A.opening[s] = None, RoomFor(A, t),
           NEW op \in Op, op # "ring"
    PROVE  InvOf(OpenNow(A, t, s, op))
<1> DEFINE n == A.made + 1
           N == NewClient(A, t, s, op)
           H == [N EXCEPT !.held[s] = n]
           U == UpsertChat(H, s)
           R == [U EXCEPT !.opening[s] = t]
           k == [pc |-> "opens", op |-> op, chat |-> s, on |-> n]
<1>1. /\ A \in AppT /\ HubOK(A) /\ HubsOK(A) /\ StoreOK(A) /\ A.held \in [Chats -> Nat]
      /\ A.client \in [Numbers -> ClientT] /\ A.task \in [Tasks -> CallT] /\ A.made \in Nat
      /\ s \in SomeChat /\ s # None
  BY InvIs, HubAssumption DEF SomeChat
<1>2. CASE ~CanOpenChat(A)
  <2> DEFINE B == Over(A, t)
  <2>1. InvOf(B) /\ B \in AppT /\ StoreOK(B)
    BY OverIs DEF InvOf
  <2>2. OpenNow(A, t, s, op) = EndsBadly(B, s, {op})
    BY <1>2 DEF OpenNow, Over
  <2> HIDE DEF B
  <2>3. /\ EndsBadly(B, s, {op}) \in AppT /\ SameHub(B, EndsBadly(B, s, {op}))
        /\ StoreOK(EndsBadly(B, s, {op}))
    BY <2>1, EndsBadlyIs
  <2> QED BY <2>1, <2>2, <2>3, InvSame
<1>3. CASE CanOpenChat(A)
  <2>1. A.made < MaxClients
    <3>1. CallIs(A, [A EXCEPT !.task = [@ EXCEPT ![t] = NoCall]], t, NoCall)
      BY <1>1 DEF CallIs, AppT
    <3>2. Cardinality(Pending(A) \ {t}) \in Nat
      BY <1>1, <3>1, PendingIs
    <3> QED BY <1>1, <3>2, HubAssumption DEF RoomFor
  <2>2. /\ N \in AppT /\ n \in Numbers /\ n \notin Made(A)
        /\ N.made = n /\ N.held = A.held /\ N.opening = A.opening /\ SameStore(A, N)
        /\ CallIs(A, N, t, k)
        /\ \A p \in Numbers \ {n} : N.client[p] = A.client[p]
        /\ N.client[n].chat = s /\ ~N.client[n].late /\ ~N.client[n].crowded
        /\ N.client[n].asked = "open"
    BY <1>1, <2>1, NewClientIs
  <2>3. OpenNow(A, t, s, op) = Opening(U, t, s)
    BY <1>3 DEF OpenNow
  <2>4. n \in Nat /\ n # 0
    BY <1>1
  <2>5. k.pc = "opens" /\ k.chat = s /\ k.on = n
    OBVIOUS
  <2> HIDE DEF N, n, k
  <2>6. /\ H \in AppT /\ H.held = [A.held EXCEPT ![s] = n] /\ H.opening = A.opening
        /\ H.made = n /\ H.task = N.task /\ H.client = N.client /\ SameStore(A, H)
    BY <2>2, <2>4 DEF AppT, SameStore
  <2> HIDE DEF H
  <2>7. H.held[s] = n /\ \A x \in Chats \ {s} : H.held[x] = A.held[x]
    BY <1>1, <2>6
  <2>8. /\ U \in AppT /\ SameHub(H, U) /\ U.shown = H.shown \union {s}
        /\ U.returned = H.returned /\ U.unread = H.unread /\ U.active = H.active
    BY <2>6, UpsertIs
  <2> HIDE DEF U
  <2>9. StoreOK(U)
    BY <1>1, <2>4, <2>6, <2>7, <2>8 DEF StoreOK, HeldChats, SameHub, SameStore
  <2>10. /\ R \in AppT /\ R.opening = [A.opening EXCEPT ![s] = t]
         /\ R.held = H.held /\ R.made = n /\ R.task = N.task /\ R.client = N.client
         /\ SameStore(U, R)
    BY <2>6, <2>8 DEF AppT, SameHub, SameStore
  <2>11. U.task[t] = k /\ N.task[t] = k /\ \A u \in Tasks \ {t} : N.task[u] = A.task[u]
    BY <1>1, <2>2, <2>6, <2>8 DEF SameHub, CallIs
  <2>12. OpenNow(A, t, s, op) = R
    BY <2>3, <2>5, <2>11 DEF Opening
  <2> HIDE DEF R
  <2>13. A.opening \in [Chats -> Tasks \union {None}]
    BY <1>1 DEF AppT
  <2>14. R.opening[s] = t /\ \A x \in Chats \ {s} : R.opening[x] = A.opening[x]
    BY <2>10, <2>13
  <2>15. \A p \in Made(A) : R.client[p] = A.client[p]
    BY <1>1, <2>2, <2>10, MadeTyped
  <2>16. HubOK(R)
    <3>1. /\ n = A.made + 1 /\ R.made = n
          /\ \A u \in Tasks \ {t} : R.task[u] = A.task[u]
          /\ R.task[t].pc = "opens" /\ R.task[t].chat = s /\ R.task[t].on = n
      BY <2>5, <2>10, <2>11 DEF n
    <3>2. /\ R.client[n].chat = s /\ ~R.client[n].late /\ R.client[n].asked = "open"
          /\ R.held[s] = n
          /\ \A x \in Chats \ {s} : R.held[x] = A.held[x] /\ R.opening[x] = A.opening[x]
      BY <2>2, <2>7, <2>10, <2>14
    <3>3. IF s = None THEN R.client[n].asked = "ring" /\ R.task[t].op = "ring"
          ELSE /\ A.held[s] = 0 /\ A.opening[s] = None
               /\ R.held[s] = n /\ R.opening[s] = t /\ R.client[n].asked = "open"
      BY <1>1, <2>14, <3>2
    <3>4. R \in AppT /\ HubOK(A) /\ s \in SomeChat
      BY <1>1, <2>10
    <3> QED BY <2>15, <3>1, <3>2, <3>3, <3>4, HubAfterOpening
  <2>17. RoomOK(R)
    <3>1. CallIs(A, R, t, k) /\ R.made = A.made + 1 /\ k.pc \notin {"waits", "resumes"}
      BY <2>2, <2>5, <2>10 DEF CallIs, n
    <3> QED BY <1>1, <3>1, RoomBy
  <2>18. CapOK(R)
    <3>1. \A x \in Chats \ {s} : R.held[x] = A.held[x]
      BY <2>7, <2>10
    <3>2. \A x \in Chats : A.held[x] # 0 => A.held[x] \in Made(A)
      BY <1>1 DEF HubOK, HeldOK
    <3>3. \A x \in Chats \ {s} : R.held[x] # 0 =>
              R.client[R.held[x]].crowded = A.client[A.held[x]].crowded
      BY <2>15, <3>1, <3>2
    <3> QED BY <1>1, <1>3, <3>1, <3>3, CapGrows DEF HubsOK
  <2>19. StoreOK(R)
    BY <2>8, <2>9, <2>10, StoreSame DEF SameHub
  <2> QED BY <2>12, <2>16, <2>17, <2>18, <2>19 DEF InvOf, HubsOK
<1> QED BY <1>2, <1>3

LEMMA OpenChatIs ==
    ASSUME NEW A, InvOf(A), NEW t \in Tasks, A.task[t].pc = "idle",
           NEW s \in Chats, A.held[s] = 0, RoomFor(A, t), NEW op \in Op, op # "ring"
    PROVE  InvOf(OpenChat(A, t, s, op))
<1>1. CASE A.opening[s] = None
  <2>1. OpenChat(A, t, s, op) = OpenNow(A, t, s, op)
    BY <1>1 DEF OpenChat
  <2> QED BY <1>1, <2>1, OpenNowIs
<1>2. CASE A.opening[s] # None
  <2> DEFINE k == [pc |-> "waits", op |-> op, chat |-> s, on |-> 0]
             B == [A EXCEPT !.task[t] = k]
  <2>1. /\ A \in AppT /\ HubOK(A) /\ RoomOK(A) /\ CapOK(A) /\ StoreOK(A)
        /\ A.task \in [Tasks -> CallT] /\ s # None
    BY InvIs, HubAssumption DEF HubsOK
  <2>2. OpenChat(A, t, s, op) = B
    BY <1>2 DEF OpenChat
  <2>3. k \in CallT /\ k.pc = "waits" /\ WaitsOK(k)
    BY <2>1 DEF CallT, SomeChat, WaitsOK
  <2> HIDE DEF k
  <2>4. /\ B \in AppT /\ B.task = [A.task EXCEPT ![t] = k]
        /\ B.held = A.held /\ B.opening = A.opening /\ B.client = A.client
        /\ B.made = A.made /\ SameStore(A, B)
    BY <2>1, <2>3 DEF AppT, SameStore
  <2> HIDE DEF B
  <2>5. B.task[t] = k /\ \A u \in Tasks \ {t} : B.task[u] = A.task[u]
    BY <2>1, <2>4
  <2>6. HubOK(B)
    BY <2>1, <2>3, <2>4, <2>5, HubAfterCalls
  <2>7. RoomOK(B)
    <3>1. CallIs(A, B, t, k)
      BY <2>4 DEF CallIs
    <3> QED BY <2>1, <2>4, <3>1, RoomBy
  <2>8. CapOK(B) /\ StoreOK(B)
    BY <2>1, <2>4, CapShrinks, StoreSame
  <2> QED BY <2>2, <2>6, <2>7, <2>8 DEF InvOf, HubsOK
<1> QED BY <1>1, <1>2

LEMMA RingHandleIs ==
    ASSUME NEW A, InvOf(A), NEW t \in Tasks, A.task[t].pc = "idle", RoomFor(A, t)
    PROVE  InvOf(RingHandle(A, t))
<1> DEFINE n == A.made + 1
           N == NewClient(A, t, None, "ring")
           k == [pc |-> "opens", op |-> "ring", chat |-> None, on |-> n]
<1>1. /\ A \in AppT /\ HubOK(A) /\ HubsOK(A) /\ StoreOK(A) /\ A.held \in [Chats -> Nat]
      /\ A.client \in [Numbers -> ClientT] /\ A.task \in [Tasks -> CallT] /\ A.made \in Nat
      /\ None \in SomeChat /\ "ring" \in Op
  BY InvIs DEF SomeChat, Op
<1>2. A.made < MaxClients
  <2>1. CallIs(A, [A EXCEPT !.task = [@ EXCEPT ![t] = NoCall]], t, NoCall)
    BY <1>1 DEF CallIs, AppT
  <2>2. Cardinality(Pending(A) \ {t}) \in Nat
    BY <1>1, <2>1, PendingIs
  <2> QED BY <1>1, <2>2, HubAssumption DEF RoomFor
<1>3. /\ N \in AppT /\ n \in Numbers /\ n \notin Made(A)
      /\ N.made = n /\ N.held = A.held /\ N.opening = A.opening /\ SameStore(A, N)
      /\ CallIs(A, N, t, k)
      /\ \A p \in Numbers \ {n} : N.client[p] = A.client[p]
      /\ N.client[n].chat = None /\ ~N.client[n].late /\ ~N.client[n].crowded
      /\ N.client[n].asked = "ring"
  BY <1>1, <1>2, NewClientIs
<1>4. k.pc = "opens" /\ k.chat = None /\ k.on = n /\ k.op = "ring"
  OBVIOUS
<1>5. RingHandle(A, t) = N
  BY DEF RingHandle
<1> HIDE DEF N, n, k
<1>6. N.task[t] = k /\ \A u \in Tasks \ {t} : N.task[u] = A.task[u]
  BY <1>1, <1>3 DEF CallIs
<1>7. \A p \in Made(A) : N.client[p] = A.client[p]
  BY <1>1, <1>3, MadeTyped
<1>8. HubOK(N)
  <2>1. /\ n = A.made + 1
        /\ N.task[t].pc = "opens" /\ N.task[t].chat = None /\ N.task[t].on = n
        /\ N.task[t].op = "ring"
    BY <1>4, <1>6 DEF n
  <2> QED BY <1>1, <1>3, <1>6, <1>7, <2>1, HubAfterOpening
<1>9. RoomOK(N)
  <2>1. N.made = A.made + 1 /\ k.pc \notin {"waits", "resumes"}
    BY <1>3, <1>4 DEF n
  <2> QED BY <1>1, <1>3, <2>1, RoomBy
<1>10. CapOK(N)
  <2>1. \A x \in Chats : A.held[x] # 0 => A.held[x] \in Made(A)
    BY <1>1 DEF HubOK, HeldOK
  <2>2. \A x \in Chats : N.held[x] # 0 =>
            N.client[N.held[x]].crowded = A.client[A.held[x]].crowded
    BY <1>3, <1>7, <2>1
  <2> QED BY <1>1, <1>3, <2>2, CapShrinks DEF HubsOK
<1>11. StoreOK(N)
  BY <1>1, <1>3, StoreSame
<1> QED BY <1>5, <1>8, <1>9, <1>10, <1>11 DEF InvOf, HubsOK

----------------------------------------------------------------------------
(* The steps of the screens keep the invariant.                            *)

LEMMA RoomIs ==
    ASSUME HubInv, Quiet, Room, NEW t \in Tasks
    PROVE  RoomFor(app, t)
<1> DEFINE W == {u \in Tasks : app.task[u].pc = "waits"}
<1>1. Pending(app) = W
  BY DEF Pending, Quiet
<1>2. app.made + Cardinality(W) < MaxClients
  BY DEF Room
<1>3. IsFiniteSet(W)
  BY HubAssumption, FS_Subset
<1> HIDE DEF W
<1>4. /\ Cardinality(W \ {t}) <= Cardinality(W)
      /\ Cardinality(W) \in Nat /\ Cardinality(W \ {t}) \in Nat
  BY <1>3, FS_Subset, FS_CardinalityType
<1>5. app.made \in Nat /\ MaxClients \in Nat
  BY MadeTyped, HubAssumption DEF HubInv, HubOK
<1> QED BY <1>1, <1>2, <1>4, <1>5 DEF RoomFor

\* The app as a call finds it: the call is counted, a page may have opened.
LEMMA CalledIs ==
    ASSUME NEW A, InvOf(A)
    PROVE  InvOf(Called(A)) /\ SameHub(A, Called(A))
<1>1. A \in AppT /\ StoreOK(A)
  BY InvIs
<1>2. Called(A) \in AppT /\ SameHub(A, Called(A)) /\ SameStore(A, Called(A))
  BY <1>1, EventIs
<1>3. StoreOK(Called(A))
  BY <1>1, <1>2, StoreSame DEF SameHub
<1> QED BY <1>2, <1>3, InvSame

LEMMA ActiveIs ==
    ASSUME NEW A, InvOf(A), NEW s \in Chats
    PROVE  InvOf(SetActive(A, s)) /\ SameHub(A, SetActive(A, s))
<1>1. A \in AppT /\ StoreOK(A)
  BY InvIs
<1>2. SetActive(A, s) \in AppT /\ SameHub(A, SetActive(A, s)) /\ StoreOK(SetActive(A, s))
  BY <1>1, SetActiveIs, StoreSetActive
<1> QED BY <1>2, InvSame

LEMMA SameHubs ==
    ASSUME NEW A, NEW B, NEW C, SameHub(A, B), SameHub(B, C)
    PROVE  SameHub(A, C)
BY DEF SameHub

\* What a call relies on is about the hub.
LEMMA SameStart ==
    ASSUME NEW A, NEW B, SameHub(A, B), NEW t, NEW s
    PROVE  /\ A.task[t].pc = "idle" => B.task[t].pc = "idle"
           /\ RoomFor(A, t) => RoomFor(B, t)
           /\ B.held[s] = A.held[s]
BY DEF SameHub, RoomFor, Pending

LEMMA ScreensInv ==
    ASSUME HubInv, NEW t \in Tasks, Screen(t)
    PROVE  HubInv'
<1>1. InvOf(app) /\ app \in AppT
  BY DEF HubInv, InvOf, HubsOK, HubOK
<1>2. Quiet /\ app.task[t].pc = "idle"
  BY DEF Screen, CreateSessionButton, StartConversation, ChatPage, ChatScreen, Retry,
         SendMessage, IncomingRing, HandlePage, HandleScreen, MayCreate, MayJoin, Free, Idle
<1>3. Room => RoomFor(app, t)
  BY <1>2, RoomIs
<1>4. InvOf(Called(app)) /\ SameHub(app, Called(app))
  BY <1>1, CalledIs
<1>5. SUFFICES InvOf(app')
  BY DEF HubInv, InvOf, HubsOK
<1>6. \A s \in Chats : Fresh(s) => app.held[s] = 0
  BY DEF Fresh, Unknown, Unused
<1>7. {"create", "join", "ensure", "retry", "send", "inbox"} \subseteq Op
  BY DEF Op
<1>8. Called(app).task[t].pc = "idle" /\ (Room => RoomFor(Called(app), t))
  BY <1>2, <1>3, <1>4, SameStart
<1>9. \A s : Called(app).held[s] = app.held[s]
  BY <1>4 DEF SameHub
<1>10. ASSUME NEW s \in Chats, CreateSessionButton(t, s) \/ StartConversation(t, s)
       PROVE  InvOf(app')
  <2>1. Room /\ Fresh(s) /\ app' = OpenChat(Called(app), t, s, "create")
    BY <1>10 DEF CreateSessionButton, StartConversation, CreateSession, StartHostChat, MayCreate
  <2> QED BY <1>4, <1>6, <1>7, <1>8, <1>9, <2>1, OpenChatIs
<1>11. ASSUME NEW s \in Chats, ChatPage(t, s) \/ ChatScreen(t, s)
       PROVE  InvOf(app')
  <2> DEFINE P == SetActive(app, s)
             A == Called(P)
             R == SetActive(A, s)
  <2>1. InvOf(P) /\ SameHub(app, P)
    BY <1>1, ActiveIs
  <2>2. app.held[s] # 0 \/ Room
    BY <1>11 DEF ChatPage, ChatScreen, MayJoin
  <2>3. app' = JoinSession(A, t, s) \/ app' = EnsureChat(A, t, s)
    BY <1>11 DEF ChatPage, ChatScreen
  <2> HIDE DEF P
  <2>4. InvOf(A) /\ SameHub(app, A)
    BY <2>1, CalledIs, SameHubs
  <2> HIDE DEF A
  <2>5. InvOf(R) /\ SameHub(app, R)
    BY <2>4, ActiveIs, SameHubs
  <2>6. \/ app' = Reconnect(A, t, s, "join") /\ A.held[s] # 0
        \/ app' = Reconnect(R, t, s, "ensure") /\ A.held[s] # 0
        \/ app' = OpenChat(A, t, s, "join") /\ A.held[s] = 0
    BY <2>3 DEF JoinSession, EnsureChat
  <2> HIDE DEF R
  <2>7. /\ A.task[t].pc = "idle" /\ R.task[t].pc = "idle"
        /\ A.held[s] = app.held[s] /\ R.held[s] = app.held[s]
        /\ Room => RoomFor(A, t)
    BY <1>2, <1>3, <2>4, <2>5, SameStart
  <2> QED BY <1>7, <2>2, <2>4, <2>5, <2>6, <2>7, ReconnectIs, OpenChatIs
<1>12. ASSUME NEW s \in Chats, Retry(t, s)
       PROVE  InvOf(app')
  <2>1. CASE app.held[s] = 0
    BY <1>1, <1>12, <2>1 DEF Retry
  <2>2. CASE app.held[s] # 0
    <3>1. app' = Reconnect(Called(app), t, s, "retry")
      BY <1>12, <2>2 DEF Retry
    <3> QED BY <1>4, <1>7, <1>8, <1>9, <2>2, <3>1, ReconnectIs
  <2> QED BY <2>1, <2>2
<1>13. ASSUME NEW s \in Chats, SendMessage(t, s)
       PROVE  InvOf(app')
  <2>1. app.held[s] # 0 /\ app' = Reconnect(Called(app), t, s, "send")
    BY <1>13 DEF SendMessage
  <2> QED BY <1>4, <1>7, <1>8, <1>9, <2>1, ReconnectIs
<1>14. ASSUME NEW s \in Chats, IncomingRing(t, s)
       PROVE  InvOf(app')
  <2>1. Room /\ Fresh(s) /\ app' = Called(OpenChat(app, t, s, "inbox"))
    BY <1>14 DEF IncomingRing
  <2>2. InvOf(OpenChat(app, t, s, "inbox"))
    BY <1>1, <1>2, <1>3, <1>6, <1>7, <2>1, OpenChatIs
  <2> QED BY <2>1, <2>2, CalledIs
<1>15. CASE HandlePage(t) \/ HandleScreen(t)
  <2>1. Room /\ app' = RingHandle(Called(app), t)
    BY <1>15 DEF HandlePage, HandleScreen, StartHandleChat
  <2> QED BY <1>4, <1>8, <2>1, RingHandleIs
<1> QED BY <1>10, <1>11, <1>12, <1>13, <1>14, <1>15 DEF Screen

LEMMA WaiterInv ==
    ASSUME HubInv, NEW t \in Tasks, WaiterGoesOn(t)
    PROVE  HubInv'
<1> DEFINE s == app.task[t].chat
<1>1. InvOf(app) /\ RoomOK(app)
  BY DEF HubInv, InvOf, HubsOK
<1>2. /\ app \in AppT /\ HubOK(app) /\ StoreOK(app) /\ app.task \in [Tasks -> CallT]
      /\ app.made \in Nat /\ CapOK(app)
  BY <1>1, InvIs DEF HubsOK
<1>3. app.task[t].pc = "resumes"
  BY DEF WaiterGoesOn
<1>4. s # None /\ app.task[t].op # "ring" /\ ResumesOK(app, t)
  BY <1>2, <1>3 DEF HubOK, CallsOK, WaitsOK
<1>5. s \in Chats /\ s \in SomeChat
  BY <1>2, <1>4 DEF CallT, SomeChat
<1>6. CASE app.held[s] # 0
  <2>1. app' = Finish(app, {t}, s, TRUE)
    BY <1>6 DEF WaiterGoesOn
  <2>2. /\ app' \in AppT /\ Ends(app, app', {t}) /\ app'.held = app.held
        /\ app'.client = app.client /\ app'.made = app.made /\ StoreOK(app')
    <3> DEFINE F == Finish(app, {t}, s, TRUE)
    <3>1. /\ F \in AppT /\ Ends(app, F, {t}) /\ F.held = app.held
          /\ F.client = app.client /\ F.made = app.made /\ StoreOK(F)
      BY <1>2, <1>3, <1>5, <1>6, FinishIs
    <3> QED BY <2>1, <3>1
  <2>3. \A x \in Chats : app.opening[x] # t
    BY <1>2, <1>3, HubAssumption DEF HubOK, OpeningOK
  <2>4. app'.opening = app.opening
    <3>1. \A x \in Chats : app'.opening[x] = app.opening[x]
      BY <2>2, <2>3 DEF Ends
    <3> QED BY <1>2, <2>2, <3>1 DEF AppT
  <2>5. \A u \in Tasks : app'.task[u] # app.task[u] =>
            /\ app.task[u].pc \in {"idle", "waits", "resumes"} /\ app'.task[u].pc = "idle"
    <3> SUFFICES ASSUME NEW u \in Tasks, app'.task[u] # app.task[u]
                 PROVE  app.task[u].pc \in {"waits", "resumes"} /\ app'.task[u] = NoCall
      BY DEF NoCall
    <3>1. CASE u = t
      BY <1>3, <2>2, <3>1 DEF Ends
    <3>2. CASE u # t
      <4>1. app.task[u].pc = "waits" => app.task[u].chat \in Chats
        BY <1>2 DEF HubOK, CallsOK, CallT, SomeChat, WaitsOK
      <4> QED BY <2>2, <2>3, <3>2, <4>1 DEF Ends
    <3> QED BY <3>1, <3>2
  <2>6. HubOK(app')
    BY <1>2, <2>2, <2>4, <2>5, HubAfterCalls
  <2>7. RoomOK(app')
    BY <1>1, <1>2, <2>2, EndsRoom
  <2>8. CapOK(app')
    BY <1>2, <2>2, CapShrinks
  <2> QED BY <2>2, <2>6, <2>7, <2>8 DEF HubInv
<1>7. CASE app.held[s] = 0
  <2>1. app' = OpenNow(app, t, s, app.task[t].op)
    BY <1>7 DEF WaiterGoesOn
  <2>2. app.opening[s] = None
    BY <1>4, <1>7 DEF ResumesOK
  <2>3. RoomFor(app, t)
    <3>1. t \in Pending(app)
      BY <1>3 DEF Pending
    <3>2. CallIs(app, Over(app, t), t, NoCall)
      BY <1>2 DEF CallIs, Over, AppT
    <3>3. /\ Cardinality(Pending(app)) = Cardinality(Pending(app) \ {t}) + 1
          /\ Cardinality(Pending(app) \ {t}) \in Nat
      BY <1>2, <3>1, <3>2, PendingIs
    <3> QED BY <1>1, <1>2, <3>3, HubAssumption DEF RoomOK, RoomFor
  <2>4. app.task[t].op \in Op /\ app.task[t].op # "ring"
    BY <1>2, <1>4 DEF CallT
  <2>5. InvOf(app')
    BY <1>1, <1>3, <1>5, <1>7, <2>1, <2>2, <2>3, <2>4, OpenNowIs
  <2> QED BY <2>5 DEF HubInv, InvOf, HubsOK
<1> QED BY <1>6, <1>7

LEMMA ResumeInv ==
    ASSUME HubInv, ResumeSessions \/ BindAppState
    PROVE  HubInv'
<1> DEFINE A == Called(app)
           due == {o \in Made(A) :
                     IsHeld(A, o) /\ A.client[o].named /\ A.client[o].status = "disconnected"}
           new == {o \in due : A.client[o].asked # "reconnect"}
           client == [o \in DOMAIN A.client |-> IF o \in new THEN Redialled(A.client[o]) ELSE A.client[o]]
           shown == A.shown \union {A.client[o].chat : o \in new}
           resumed == IF A.platform = "web" THEN due ELSE {}
           B == [A EXCEPT !.client = client, !.shown = shown, !.resumed = resumed]
<1>1. InvOf(app)
  BY DEF HubInv, InvOf, HubsOK
<1>2. InvOf(A)
  BY <1>1, CalledIs
<1>3. app' = B
  BY Zenon DEF ResumeSessions, BindAppState, ReconnectAll, Made
<1> HIDE DEF A
<1>4. /\ A \in AppT /\ HubOK(A) /\ HubsOK(A) /\ StoreOK(A) /\ A.client \in [Numbers -> ClientT]
      /\ Made(A) \subseteq Numbers
  BY <1>2, InvIs, MadeTyped
<1>5. new \subseteq due /\ due \subseteq Numbers /\ \A o \in due : IsHeld(A, o) /\ o \in Made(A)
  BY <1>4
<1> HIDE DEF due, new
<1>6. \A o \in new : A.client[o].chat \in Chats /\ A.held[A.client[o].chat] # 0
  BY <1>4, <1>5, HeldForItsChat
<1>7. /\ client \in [Numbers -> ClientT]
      /\ \A p \in Numbers : client[p] = IF p \in new THEN Redialled(A.client[p]) ELSE A.client[p]
  BY <1>4, RedialledTyped
<1>8. shown \in SUBSET Chats
  BY <1>4, <1>6 DEF AppT
<1>9. resumed \in SUBSET Numbers
  BY <1>5
<1>10. shown \subseteq A.shown
  BY <1>4, <1>6 DEF StoreOK, HeldChats
<1>11. A.shown \subseteq shown
  OBVIOUS
<1> HIDE DEF client, shown, resumed
<1>12. /\ B \in AppT /\ B.client = client /\ B.shown = shown
       /\ B.held = A.held /\ B.opening = A.opening /\ B.made = A.made /\ B.task = A.task
       /\ B.returned = A.returned /\ B.unread = A.unread /\ B.active = A.active
  BY <1>4, <1>7, <1>8, <1>9 DEF AppT
<1> HIDE DEF B
<1>13. \A p \in Numbers : \/ B.client[p] = A.client[p]
                          \/ IsHeld(A, p) /\ B.client[p] = Redialled(A.client[p])
  BY <1>5, <1>7, <1>12
<1>14. HubsOK(B)
  BY <1>4, <1>12, <1>13, HubsAfterRedial
<1>15. StoreOK(B)
  <2>1. B.shown = A.shown
    BY <1>10, <1>12, <1>11
  <2> QED BY <1>4, <1>12, <2>1, StoreSame DEF SameStore
<1> QED BY <1>3, <1>14, <1>15 DEF HubInv, HubsOK

----------------------------------------------------------------------------
(* The theorems.                                                           *)

LEMMA InitInv == Init => HubInv
<1> SUFFICES ASSUME Init PROVE HubInv
  OBVIOUS
<1> PICK platform \in {"web", "mobile"} : app = [
    platform |-> platform,
    held    |-> [s \in Chats |-> 0],
    opening |-> [s \in Chats |-> None],
    client  |-> [o \in 1..MaxClients |-> Client],
    made    |-> 0,
    task    |-> [t \in Tasks |-> NoCall],
    shown   |-> {},
    unread  |-> [s \in Chats |-> 0],
    active  |-> None,
    sealing |-> [s \in Chats |-> 0],
    resumed |-> {},
    calls   |-> 0,
    events  |-> 0,
    returned |-> {}]
  BY DEF Init
<1>1. MaxClients \in Nat /\ MAX_CHATS \in Nat
  BY HubAssumption
<1>2. app \in AppT
  BY <1>1, ClientTyped DEF AppT, Numbers, SomeChat
<1>3. HeldOK(app) /\ OpeningOK(app)
  BY DEF HeldOK, OpeningOK
<1>4. CallsOK(app)
  BY DEF CallsOK, NoCall
<1>5. ClientsOK(app)
  BY DEF ClientsOK, Made
<1>6. RoomOK(app)
  <2>1. Pending(app) = {}
    BY DEF Pending, NoCall
  <2> QED BY <1>1, <2>1, FS_EmptySet DEF RoomOK
<1>7. CapOK(app)
  <2>1. HeldChats(app) = {} /\ Counted(app) = {}
    BY DEF HeldChats, Counted
  <2> QED BY <1>1, <2>1, FS_EmptySet DEF CapOK
<1>8. StoreOK(app)
  BY DEF StoreOK, HeldChats
<1> QED BY <1>2, <1>3, <1>4, <1>5, <1>6, <1>7, <1>8 DEF HubInv, HubOK

LEMMA NextInv == HubInv /\ [Next]_app => HubInv'
<1> SUFFICES ASSUME HubInv, [Next]_app PROVE HubInv'
  OBVIOUS
<1>1. ASSUME NEW t \in Tasks, Screen(t) \/ WaiterGoesOn(t) \/ OldRequestTimesOut(t)
      PROVE  HubInv'
  BY <1>1, ScreensInv, WaiterInv, OldRequestInv
<1>2. ASSUME NEW s \in Chats, LeaveChat(s) \/ ExpireSession(s) \/ Sealed(s)
      PROVE  HubInv'
  BY <1>2, LeavingInv, SealedInv
<1>3. CASE LeavePage
  BY <1>3, MessagesInv
<1>4. CASE ResumeSessions \/ BindAppState
  BY <1>4, ResumeInv
<1>5. ASSUME NEW o \in 1..app.made, Progress(o)
      PROVE  HubInv'
  <2>1. o \in Made(app)
    BY DEF Made
  <2>2. CASE AttemptFails(o) \/ PauseEnds(o) \/ Connects(o)
    BY <2>1, <2>2, AttemptsInv
  <2>3. CASE ConnectFails(o) \/ Refused(o) \/ TimesOut(o)
    BY <2>1, <2>3, FailuresInv
  <2>4. CASE Succeeds(o)
    BY <2>1, <2>4, SucceedsInv
  <2>5. ASSUME NEW s \in Chats, RingSucceeds(o, s)
        PROVE  HubInv'
    BY <2>1, <2>5, RingInv
  <2> QED BY <1>5, <2>2, <2>3, <2>4, <2>5 DEF Progress
<1>6. ASSUME NEW o \in 1..app.made, ClientEvent(o)
      PROVE  HubInv'
  <2>1. o \in Made(app)
    BY DEF Made
  <2>2. CASE CloseEvent(o) \/ SessionExpired(o) \/ ErrorFrame(o)
    BY <2>1, <2>2, ClientEventsInv
  <2>3. CASE Message(o)
    BY <2>1, <2>3, MessagesInv
  <2>4. CASE LateEvent(o)
    BY <2>1, <2>4, LateEventInv
  <2> QED BY <1>6, <2>2, <2>3, <2>4 DEF ClientEvent
<1>7. CASE UNCHANGED app
  BY <1>7 DEF HubInv
<1> QED BY <1>1, <1>2, <1>3, <1>4, <1>5, <1>6, <1>7 DEF Next

LEMMA InvImplies == HubInv => NoOrphans /\ WithinCap /\ StoreFollowsHub
<1> SUFFICES ASSUME HubInv PROVE NoOrphans /\ WithinCap /\ StoreFollowsHub
  OBVIOUS
<1>1. NoOrphans
  <2> SUFFICES ASSUME NEW o \in Made(app), app.client[o].socket
               PROVE  IsHeld(app, o) \/ app.client[o].undead \/ app.client[o].asked = "ring"
    BY DEF NoOrphans, Made
  <2> QED BY ClientIs DEF ClientOK
<1>2. WithinCap
  <2>1. Counted(app) = {s \in Chats : app.held[s] # 0 /\ ~app.client[app.held[s]].crowded}
    BY DEF Counted, HeldChats
  <2> QED BY <2>1 DEF HubInv, CapOK, WithinCap
<1>3. StoreFollowsHub
  BY DEF HubInv, StoreOK, HeldChats, StoreFollowsHub
<1> QED BY <1>1, <1>2, <1>3

\* Whatever the screens, the relay and the timers do, the hub's maps stay in
\* step with its clients, its calls and the store.
THEOREM HubCorrect == Spec => []HubInv
<1> QED BY InitInv, NextInv, PTL DEF Spec

\* No socket is left that nobody will close: leaving a chat, a call that fails
\* and a ring that is not answered disconnect their client, unless it was
\* between two attempts (ChatHub.leaveSession, openNow, ringHandle).
THEOREM SocketsHaveOwners == Spec => []NoOrphans
<1> QED BY HubCorrect, InvImplies, PTL

\* The hub holds at most MAX_CHATS chats beyond the rings that found it full
\* when they were answered, though the cap is asked before an open begins and
\* several of them wait for one another (ChatHub.assertCanOpenChat, openChat).
THEOREM CapHolds == Spec => []WithinCap
<1> QED BY HubCorrect, InvImplies, PTL

\* The store shows every chat of the hub, and of the others only those that a
\* failure or a late message brought back; no message counts as unread in the
\* chat on the screen or in one that is gone (useAppStore, ChatHub.emit).
THEOREM StoreInStep == Spec => []StoreFollowsHub
<1> QED BY HubCorrect, InvImplies, PTL
=============================================================================
