------------------------------ MODULE ChatHub ------------------------------
(***************************************************************************)
(* ChatHub (packages/sdk/src/chat-hub.ts) with the store and the hooks of  *)
(* the apps that sit on it: one relay client per conversation, the calls   *)
(* the screens make, and what happens when a chat is left, refused, rung   *)
(* or resumed while such a call is pending.                                *)
(*                                                                         *)
(* One step is one macrotask: it runs to the next await of everything it   *)
(* wakes.  "app" is the state of one page or app: the hub, its clients,    *)
(* the store and the calls in flight; the operators below say what becomes *)
(* of it.  The clients are those of RelayClient, reduced to their requests *)
(* and sockets; the relay, the vault and the mailbox are choices.          *)
(***************************************************************************)
EXTENDS Integers, FiniteSets

CONSTANTS
    Chats,          \* session ids
    Tasks,          \* bound: calls of screens in flight
    None,           \* no chat, no task
    MaxClients,     \* bound: clients created
    MaxCalls,       \* bound: calls made
    MaxEvents,      \* bound: messages, closes, expiries, errors and late handlers
    CONNECT_ATTEMPTS,
    MAX_CHATS       \* concurrent chats: 7 with a claimed name, else 3

ASSUME HubAssumption ==
    /\ {MaxClients, MaxCalls, MaxEvents, MAX_CHATS} \subseteq Nat
    /\ CONNECT_ATTEMPTS \in Nat \ {0}
    /\ None \notin Chats \cup Tasks /\ IsFiniteSet(Tasks)

VARIABLE app

(***************************************************************************)
(* platform  the web page or the mobile app: the screens differ            *)
(* held      ChatHub.clients: the client of each chat, 0 if none           *)
(* opening   ChatHub.opening: the task that runs openNow for the chat      *)
(* client    the clients by number, "made" of them exist                   *)
(* task      the calls in flight                                           *)
(* shown     the chats of the store (each patch and drop of a snapshot     *)
(*           reaches the store in the same step)                           *)
(* unread    their unread counts; active: the chat on the screen           *)
(* sealing   messages being encrypted for the store                        *)
(* resumed   the clients the last resume of the page waits for             *)
(* calls     counts the calls made                                         *)
(* events    counts what MaxEvents bounds                                  *)
(* returned  history: chats shown since something of a chat not held came  *)
(***************************************************************************)
Client == [
    chat  |-> None,             \* known once its events are attached
    phase |-> "idle",           \* idle attempt pause rpc hung
    asked |-> "none",           \* none open ring reconnect
    tries |-> 0,
    status |-> "disconnected",  \* connecting live expired; "error" counts as disconnected
    socket |-> FALSE,           \* its transport is open
    named |-> FALSE,            \* it knows its session id
    late  |-> FALSE,            \* a handler outlives its disconnect()
    undead |-> FALSE,           \* history: disconnected between two attempts
    crowded |-> FALSE]          \* history: rung, and the hub was full by then

NoCall == [pc |-> "idle", op |-> "none", chat |-> None, on |-> 0]

Init == \E platform \in {"web", "mobile"} : app = [
    platform |-> platform,
    held    |-> [s \in Chats |-> 0],
    opening |-> [s \in Chats |-> None],
    client  |-> [o \in 1..MaxClients |-> Client],
    made    |-> 0,
    task    |-> [t \in Tasks |-> NoCall],
    shown   |-> {},
    unread  |-> [s \in Chats |-> 0],
    active  |-> None,
    sealing |-> [s \in Chats |-> 0],
    resumed |-> {},
    calls   |-> 0,
    events  |-> 0,
    returned |-> {}]

Live(c)      == c.status \in {"connecting", "live"}
IsHeld(A, o) == \E s \in Chats : A.held[s] = o
Size(A)      == Cardinality({s \in Chats : A.held[s] # 0})

\* assertCanOpenChat(): the cap is that of now, with a name claimed or without.
CanOpenChat(A) == Size(A) < MAX_CHATS

Awaiting(A, o, pcs) == {t \in Tasks : A.task[t].on = o /\ A.task[t].pc \in pcs}

----------------------------------------------------------------------------
(* The store.                                                              *)

UpsertChat(A, s) == [A EXCEPT !.shown = @ \cup {s}]

RemoveChat(A, s) == [A EXCEPT
    !.shown = @ \ {s}, !.returned = @ \ {s}, !.unread[s] = 0,
    !.active = IF @ = s THEN None ELSE @]

SetActive(A, s) == [A EXCEPT !.active = s, !.unread[s] = 0]

AddMessage(A, s) == [UpsertChat(A, s) EXCEPT !.unread[s] = IF A.active = s THEN @ ELSE @ + 1]

----------------------------------------------------------------------------
(* The hub.                                                                *)

ChatOf(c) == {c.chat} \ {None}

\* A client with handlers attached reports, and the snapshot reaches the
\* store; "returned" notes what comes from a client that was disconnected.
Patch(A, c) == [A EXCEPT
    !.shown    = @ \cup ChatOf(c),
    !.returned = @ \cup IF c.undead \/ c.late THEN ChatOf(c) ELSE {}]

SetStatus(A, o, status) ==
    Patch([A EXCEPT !.client[o].status = status], app.client[o])

\* disconnect(): an attempt under way never settles, a pause is not ended.
Closed(c) == [c EXCEPT
    !.socket = FALSE, !.named = FALSE,
    !.phase  = IF @ = "attempt" THEN "hung" ELSE @,
    !.undead = @ \/ c.phase = "pause",
    !.status = IF @ = "expired" THEN @ ELSE "disconnected"]

Disconnect(A, o) ==
    LET B == [A EXCEPT !.client[o] = Closed(@)] IN
    IF app.client[o].status = "expired" THEN B ELSE Patch(B, app.client[o])

Drop(A, s) == RemoveChat([A EXCEPT !.held[s] = 0], s)

\* What the hooks do after the await of a call that succeeds.
EndsWell(A, s, ops) ==
    IF ops \cap {"create", "join", "ring"} # {} THEN SetActive(UpsertChat(A, s), s) ELSE A

\* The error of a page is shown in its chat; mobile drops that of a page left.
EndsBadly(A, s, ops) ==
    IF \/ "retry" \in ops
       \/ ops \cap {"join", "ensure"} # {} /\ (app.platform = "web" \/ app.active = s)
    THEN [UpsertChat(A, s) EXCEPT !.returned = @ \cup {s}] ELSE A

\* The calls T for chat s end; whoever waited for one of them goes on.
Finish(A, T, s, ok) ==
    LET waiters == {t \in Tasks : /\ s # None /\ app.opening[s] \in T
                                  /\ app.task[t].pc = "waits" /\ app.task[t].chat = s}
        again   == IF ok /\ A.held[s] = 0 THEN waiters ELSE {}
        ended   == (T \cup waiters) \ again
        ops     == {app.task[t].op : t \in ended}
        B == [A EXCEPT
                !.opening = [x \in Chats |-> IF @[x] \in T THEN None ELSE @[x]],
                !.task = [t \in Tasks |-> IF t \in ended THEN NoCall
                                          ELSE IF t \in again THEN [@[t] EXCEPT !.pc = "resumes"]
                                          ELSE @[t]]]
    IN  IF ok THEN EndsWell(B, s, ops) ELSE EndsBadly(B, s, ops)

NewClient(A, t, s, op) ==
    [A EXCEPT !.made = @ + 1,
        !.client[A.made + 1] = [Client EXCEPT
            !.chat = s, !.phase = "attempt", !.status = "connecting",
            !.asked = IF op = "ring" THEN "ring" ELSE "open"],
        !.task[t] = [pc |-> "opens", op |-> op, chat |-> s, on |-> A.made + 1]]

\* RelayClient.reconnect, unless one is in flight.
Redialled(c) ==
    IF c.asked = "reconnect" THEN c
    ELSE [c EXCEPT !.phase = "attempt", !.asked = "reconnect", !.tries = 0,
                   !.socket = FALSE, !.status = "connecting"]

\* The task t is done with, should it have been waiting.
Reconnect(A, t, s, op) ==
    LET o == A.held[s]
        c == A.client[o]
        B == [A EXCEPT !.task[t] = NoCall]
    IN  IF c.status = "expired" \/ Live(c) THEN EndsWell(B, s, {op})
        ELSE IF ~c.named THEN EndsBadly(B, s, {op})
        ELSE [UpsertChat(A, s) EXCEPT
                !.client[o] = Redialled(@),
                !.task[t] = [pc |-> "reconnects", op |-> op, chat |-> s, on |-> o]]

\* What ends at once is not left in "opening".
Opening(A, t, s) == IF A.task[t].pc = "idle" THEN A ELSE [A EXCEPT !.opening[s] = t]

\* Mutant of OpenNow: the cap is not asked.
OpenNowUncapped(A, t, s, op) ==
    IF A.held[s] # 0 THEN Opening(Reconnect(A, t, s, op), t, s)
    ELSE Opening(UpsertChat([NewClient(A, t, s, op) EXCEPT !.held[s] = A.made + 1], s), t, s)

OpenNow(A, t, s, op) ==
    IF A.held[s] # 0 THEN Opening(Reconnect(A, t, s, op), t, s)
    ELSE IF ~CanOpenChat(A) THEN EndsBadly([A EXCEPT !.task[t] = NoCall], s, {op})
    ELSE Opening(UpsertChat([NewClient(A, t, s, op) EXCEPT !.held[s] = A.made + 1], s), t, s)

\* Mutant of OpenChat: an open in flight is not waited for.
OpenChatAtOnce(A, t, s, op) == OpenNow(A, t, s, op)

OpenChat(A, t, s, op) ==
    IF A.opening[s] # None
    THEN [A EXCEPT !.task[t] = [pc |-> "waits", op |-> op, chat |-> s, on |-> 0]]
    ELSE OpenNow(A, t, s, op)

\* Mutant of LeaveSession: the chat is dropped, then its client disconnected.
LeaveSessionDropsFirst(A, s) ==
    IF A.held[s] = 0 THEN Drop(A, s) ELSE Disconnect(Drop(A, s), A.held[s])

LeaveSession(A, s) ==
    Drop(IF A.held[s] = 0 THEN A ELSE Disconnect(A, A.held[s]), s)

\* The request of the calls T at client o fails: openNow and ringHandle
\* disconnect the client, openNow drops the chat.
Fail(A, o, T) ==
    LET s == app.client[o].chat
        B == [A EXCEPT !.client[o] = [@ EXCEPT !.phase = "idle", !.asked = "none"],
                       !.resumed = @ \ {o}]
        opened == \E t \in T : app.task[t].pc = "opens"
    IN  Finish(IF ~opened THEN B
               ELSE IF s = None THEN Disconnect(B, o) ELSE Drop(Disconnect(B, o), s),
               T, s, FALSE)

----------------------------------------------------------------------------
(* What the screens do.                                                    *)

\* Idle tasks are interchangeable, and so are ids nobody has used.
Idle(t) == app.task[t].pc = "idle"
Free(t) == Idle(t) /\ app.calls < MaxCalls /\ t = CHOOSE x \in Tasks : Idle(x)
Called(A) == [A EXCEPT !.calls = @ + 1]
Event(A) == [A EXCEPT !.events = @ + 1]
MoreEvents == app.events < MaxEvents
\* Microtasks come before any other step.
Quiet    == \A t \in Tasks : app.task[t].pc # "resumes"
\* A waiting call may need a client of its own.
Room     == app.made + Cardinality({t \in Tasks : app.task[t].pc = "waits"}) < MaxClients
Unused(s) == /\ app.held[s] = 0 /\ app.opening[s] = None
             /\ \A o \in 1..app.made : app.client[o].chat # s
Unknown(s) == Unused(s) /\ s \notin app.shown /\ app.active # s
Fresh(s)   == Unknown(s) /\ s = CHOOSE x \in Chats : Unknown(x)

\* A fresh id; the buttons count the chats they show.
MayCreate(t, s) ==
    /\ Quiet /\ Free(t) /\ Room /\ Fresh(s) /\ Cardinality(app.shown) < MAX_CHATS

CreateSession(A, t, s) == OpenChat(A, t, s, "create")

CreateSessionButton(t, s) ==
    /\ app.platform = "web" /\ MayCreate(t, s)
    /\ app' = CreateSession(Called(app), t, s)

StartHostChat(A, t, s) == OpenChat(A, t, s, "create")

StartConversation(t, s) ==
    /\ app.platform = "mobile" /\ MayCreate(t, s)
    /\ app' = StartHostChat(Called(app), t, s)

JoinSession(A, t, s) ==
    IF A.held[s] # 0 THEN Reconnect(A, t, s, "join") ELSE OpenChat(A, t, s, "join")

MayJoin(t, s) ==
    /\ Quiet /\ Free(t) /\ (app.held[s] # 0 \/ Room) /\ (Unknown(s) => Fresh(s))

\* The page of a chat: it becomes the active one, then it is joined.
ChatPage(t, s) ==
    /\ app.platform = "web" /\ MayJoin(t, s)
    /\ app' = JoinSession(Called(SetActive(app, s)), t, s)

\* The host's flag decides between two requests, not between two outcomes.
EnsureChat(A, t, s) ==
    IF A.held[s] # 0 THEN Reconnect(SetActive(A, s), t, s, "ensure") ELSE OpenChat(A, t, s, "join")

ChatScreen(t, s) ==
    /\ app.platform = "mobile" /\ MayJoin(t, s)
    /\ app' = EnsureChat(Called(SetActive(app, s)), t, s)

Retry(t, s) ==
    /\ app.platform = "mobile" /\ Quiet /\ Free(t) /\ s \in app.shown
    /\ app' = IF app.held[s] = 0 THEN app ELSE Reconnect(Called(app), t, s, "retry")

\* sendMessage of a client that is not connected.
SendMessage(t, s) ==
    /\ app.platform = "web" /\ Quiet /\ Free(t) /\ app.held[s] # 0
    /\ ~app.client[app.held[s]].socket
    /\ app' = Reconnect(Called(app), t, s, "send")

LeavePage ==
    /\ Quiet /\ app.active # None
    /\ app' = [app EXCEPT !.active = None]

\* INCOMING_RING: the hub joins, whatever the screens show.
IncomingRing(t, s) ==
    /\ Quiet /\ Free(t) /\ Room /\ Fresh(s)
    /\ app' = Called(OpenChat(app, t, s, "inbox"))

RingHandle(A, t) == NewClient(A, t, None, "ring")

HandlePage(t) ==
    /\ app.platform = "web" /\ Quiet /\ Free(t) /\ Room /\ CanOpenChat(app)
    /\ app' = RingHandle(Called(app), t)

\* The store hears of the chat after the ring (EndsWell).
StartHandleChat(A, t) == RingHandle(A, t)

HandleScreen(t) ==
    /\ app.platform = "mobile" /\ Quiet /\ Free(t) /\ Room /\ CanOpenChat(app)
    /\ app' = StartHandleChat(Called(app), t)

\* A handler of the client may still hold the handshake lock.
Left(s, late) ==
    LET o == app.held[s] IN
    /\ late => MoreEvents /\ o # 0 /\ app.client[o].status = "live" /\ app.client[o].socket
    /\ app' = IF late THEN Event([LeaveSession(app, s) EXCEPT !.client[o].late = TRUE])
              ELSE LeaveSession(app, s)

\* The leave button, an ended chat dismissed.
LeaveChat(s) ==
    /\ Quiet /\ (s \in app.shown \/ app.held[s] # 0)
    /\ \E late \in BOOLEAN : Left(s, late)

\* The timer on the page of a chat fires once, by the clock of the page.
ExpireSession(s) ==
    /\ app.platform = "web" /\ Quiet /\ app.active = s /\ s \in app.shown
    /\ \E late \in BOOLEAN : Left(s, late)

ReconnectAll(A) ==
    LET due == {o \in 1..A.made :
                  IsHeld(A, o) /\ A.client[o].named /\ A.client[o].status = "disconnected"}
        new == {o \in due : A.client[o].asked # "reconnect"} IN
    [A EXCEPT !.client = [o \in DOMAIN @ |-> IF o \in new THEN Redialled(@[o]) ELSE @[o]],
              !.shown = @ \cup {A.client[o].chat : o \in new},
              !.resumed = IF A.platform = "web" THEN due ELSE {}]

\* A resume that would dial nobody changes nothing.
MayResume ==
    Quiet /\ app.calls < MaxCalls /\ ReconnectAll(app).client # app.client

\* The page is in front again, or the network is back; one resume at a time
\* (resumeInFlight).
ResumeSessions ==
    /\ app.platform = "web" /\ MayResume /\ Size(app) > 0 /\ app.resumed = {}
    /\ app' = ReconnectAll(Called(app))

\* The app is in front again.
BindAppState ==
    /\ app.platform = "mobile" /\ MayResume
    /\ app' = ReconnectAll(Called(app))

\* A microtask: the open that was waited for has ended without a client.
WaiterGoesOn(t) ==
    LET c == app.task[t] IN
    /\ c.pc = "resumes"
    /\ app' = IF app.held[c.chat] # 0
              THEN Finish(app, {t}, c.chat, TRUE)
              ELSE OpenNow(app, t, c.chat, c.op)

----------------------------------------------------------------------------
(* What becomes of a client's requests.                                    *)

AwaitedBy(o) == LET c == app.client[o] IN
    Awaiting(app, o, IF c.asked = "reconnect" THEN {"reconnects"} ELSE {"opens"})

AttemptFails(o) ==
    LET c == app.client[o]
        paused == [app EXCEPT !.client[o] = [c EXCEPT !.phase = "pause", !.tries = @ + 1]]
    IN
    /\ Quiet /\ c.phase = "attempt" /\ c.tries + 1 < CONNECT_ATTEMPTS
    /\ app' = IF c.undead THEN paused ELSE SetStatus(paused, o, "disconnected")

PauseEnds(o) ==
    /\ Quiet /\ app.client[o].phase = "pause"
    /\ app' = [app EXCEPT !.client[o].phase = "attempt"]

ConnectFails(o) ==
    LET c == app.client[o] IN
    /\ Quiet /\ c.phase = "attempt" /\ c.tries + 1 = CONNECT_ATTEMPTS
    /\ app' = Fail(SetStatus(app, o, "disconnected"), o, AwaitedBy(o))

\* Connected; the request is sent once its key pair is made.
Connects(o) ==
    LET c == app.client[o] IN
    /\ Quiet /\ c.phase = "attempt"
    /\ app' = SetStatus([app EXCEPT !.client[o] = [c EXCEPT
                !.phase = "rpc", !.socket = TRUE, !.named = (c.asked # "ring")]], o, "live")

\* All that waits for an answer at client o: a request that a reconnect has
\* overtaken still listens.
Listening(o) == Awaiting(app, o, {"opens", "reconnects"})

\* PARTNER_JOINED is no answer to a create, SESSION_CREATED is one to all.
Joined(o) == {t \in Listening(o) : app.task[t].pc = "opens" => app.task[t].op # "create"}

Succeeds(o) ==
    LET c == app.client[o]
        A == [app EXCEPT !.client[o] = [@ EXCEPT !.phase = "idle", !.asked = "none"],
                         !.resumed = @ \ {o}]
    IN
    /\ Quiet /\ c.phase = "rpc" /\ c.socket /\ c.asked # "ring"
    /\ \E T \in {Listening(o)} \cup (IF c.asked = "reconnect" THEN {Joined(o)} ELSE {}) :
          app' = Finish(SetStatus(A, o, "live"), T, c.chat, TRUE)

\* SESSION_CREATED for a ring: only now does the hub hold the client.
RingSucceeds(o, s) ==
    LET c == app.client[o]
        A == [app EXCEPT
                !.held[s] = o,
                !.client[o] = [c EXCEPT !.chat = s, !.phase = "idle", !.asked = "none",
                    !.named = TRUE, !.crowded = ~CanOpenChat(app)]]
    IN
    /\ Quiet /\ c.phase = "rpc" /\ c.socket /\ c.asked = "ring" /\ Fresh(s)
    /\ app' = Finish(UpsertChat(A, s), Awaiting(app, o, {"opens"}), s, TRUE)

\* An ERROR frame rejects all that waits.  SESSION_NOT_FOUND sets no status,
\* SESSION_EXPIRED sets "expired".
Refused(o) ==
    LET c == app.client[o] IN
    /\ Quiet /\ c.phase = "rpc" /\ c.socket
    /\ \/ app' = Fail(app, o, Listening(o))
       \/ \E status \in {"disconnected", "expired"} :
             app' = Fail(SetStatus(app, o, status), o, Listening(o))

\* Mutant of TimesOut: a ring has no timer.
TimesOutUnlessRung(o) ==
    /\ Quiet /\ app.client[o].phase = "rpc" /\ app.client[o].asked # "ring"
    /\ app' = Fail(app, o, AwaitedBy(o))

\* No answer in time, or nothing could be sent.
TimesOut(o) ==
    /\ Quiet /\ app.client[o].phase = "rpc"
    /\ app' = Fail(app, o, AwaitedBy(o))

\* The timer of an open whose client was made to reconnect meanwhile.
OldRequestTimesOut(t) ==
    LET c == app.task[t] IN
    /\ Quiet /\ c.pc = "opens" /\ app.client[c.on].asked \in {"reconnect", "none"}
    /\ app' = Finish(Drop(Disconnect(app, c.on), c.chat), {t}, c.chat, FALSE)

----------------------------------------------------------------------------
(* Events of a client at work.                                             *)

CloseEvent(o) ==
    LET A == Event([app EXCEPT !.client[o].socket = FALSE]) IN
    /\ Quiet /\ MoreEvents /\ app.client[o].socket
    /\ app' = IF app.client[o].status = "expired" \/ app.client[o].undead THEN A
              ELSE SetStatus(A, o, "disconnected")

SessionExpired(o) ==
    /\ Quiet /\ MoreEvents /\ app.client[o].socket /\ app.client[o].chat # None
    /\ app.client[o].status # "expired"
    /\ app' = Event(SetStatus(app, o, "expired"))

\* It also rejects a create that a reconnect was answered before.
ErrorFrame(o) ==
    /\ Quiet /\ app.client[o].socket /\ app.client[o].phase = "idle"
    /\ app.client[o].status = "live"
    /\ \/ /\ Listening(o) = {} /\ MoreEvents
          /\ app' = Event(SetStatus(app, o, "disconnected"))
       \/ /\ Listening(o) # {}
          /\ app' = Fail(SetStatus(app, o, "disconnected"), o, Listening(o))

\* ingestPlaintextMessage up to its await; the vault may be locked.
Ingest(A, s, unlocked) ==
    IF unlocked THEN [A EXCEPT !.sealing[s] = @ + 1]
    ELSE [A EXCEPT !.shown = @ \cup {s},
                   !.returned = IF A.held[s] = 0 THEN @ \cup {s} ELSE @]

Message(o) ==
    LET s == app.client[o].chat IN
    /\ Quiet /\ app.client[o].socket /\ app.client[o].phase = "idle" /\ s # None
    /\ app.client[o].status = "live" /\ MoreEvents
    /\ \E unlocked \in BOOLEAN : app' = Event(Ingest(app, s, unlocked))

\* encrypt() is done: the message goes to the store, chat or no chat.
Sealed(s) ==
    /\ Quiet /\ app.sealing[s] > 0
    /\ app' = AddMessage([app EXCEPT
                !.sealing[s] = @ - 1,
                !.returned = IF app.held[s] = 0 THEN @ \cup {s} ELSE @], s)

\* A task of the handshake lock ends after disconnect(): "ready", or a chat.
LateEvent(o) ==
    /\ Quiet /\ app.client[o].late
    /\ \/ app' = SetStatus([app EXCEPT !.client[o].late = FALSE], o, "live")
       \/ \E unlocked \in BOOLEAN :
             app' = Ingest([app EXCEPT !.client[o].late = FALSE], app.client[o].chat, unlocked)

----------------------------------------------------------------------------

Screen(t) ==
    \/ \E s \in Chats : \/ CreateSessionButton(t, s) \/ StartConversation(t, s)
                        \/ ChatPage(t, s) \/ ChatScreen(t, s) \/ Retry(t, s)
                        \/ SendMessage(t, s) \/ IncomingRing(t, s)
    \/ HandlePage(t) \/ HandleScreen(t)

Progress(o) ==
    \/ AttemptFails(o) \/ PauseEnds(o) \/ ConnectFails(o) \/ Connects(o)
    \/ Succeeds(o) \/ Refused(o) \/ TimesOut(o)
    \/ \E s \in Chats : RingSucceeds(o, s)

ClientEvent(o) ==
    CloseEvent(o) \/ SessionExpired(o) \/ ErrorFrame(o) \/ Message(o) \/ LateEvent(o)

Next ==
    \/ \E t \in Tasks : Screen(t) \/ WaiterGoesOn(t) \/ OldRequestTimesOut(t)
    \/ \E s \in Chats : LeaveChat(s) \/ ExpireSession(s) \/ Sealed(s)
    \/ LeavePage \/ ResumeSessions \/ BindAppState
    \/ \E o \in 1..app.made : Progress(o) \/ ClientEvent(o)

Spec == Init /\ [][Next]_app

\* Attempts, pauses and requests end: each has a timer.  Nobody has to act.
FairSpec == Spec /\ WF_app(\/ \E o \in 1..app.made : Progress(o)
                           \/ \E t \in Tasks : WaiterGoesOn(t) \/ OldRequestTimesOut(t))

----------------------------------------------------------------------------
(* Properties.                                                             *)

\* Every socket has somebody to close it: a client that is not held by the hub
\* is closed, unless it is still being rung or was disconnected between two
\* attempts of connect() (see LeavingEndsIt).
NoOrphans == \A o \in 1..app.made :
    app.client[o].socket => \/ IsHeld(app, o) \/ app.client[o].undead
                            \/ app.client[o].asked = "ring"

\* "while you are available with a claimed name you can keep 7"
\* (docs/user-guide.md:25): the cap is passed only by rings that found the hub
\* full when they were answered, since it is asked before the two awaits.
WithinCap == Cardinality({s \in Chats :
    app.held[s] # 0 /\ ~app.client[app.held[s]].crowded}) <= MAX_CHATS

\* The store shows the chats of the hub; beyond those, only a failure to join
\* or what arrived late for a chat that was left.  Nothing is unread in the
\* chat on the screen or in a chat that is gone.
StoreFollowsHub ==
    /\ {s \in Chats : app.held[s] # 0} \subseteq app.shown
    /\ \A s \in app.shown : app.held[s] = 0 => s \in app.returned
    /\ \A s \in Chats : app.unread[s] > 0 => s \in app.shown /\ app.active # s

\* A call that can never end: its chat was left during an attempt of connect().
Stuck(t) == LET c == app.task[t] IN
    \/ c.pc \in {"opens", "reconnects"} /\ app.client[c.on].phase = "hung"
    \/ /\ c.pc = "waits"
       /\ LET d == app.task[app.opening[c.chat]] IN d.on # 0 /\ app.client[d.on].phase = "hung"

\* Every call of a screen ends, in a chat or in an error, and so does every
\* resume of the page, whatever happens to the chat meanwhile; only a chat left
\* while its socket is being opened leaves its callers, later callers for the
\* same chat, and all later resumes of the web page, waiting for good.
CallsEnd ==
    /\ \A t \in Tasks : app.task[t].pc # "idle" ~> (app.task[t].pc = "idle" \/ Stuck(t))
    /\ app.resumed # {} ~>
          (app.resumed = {} \/ \E o \in app.resumed : app.client[o].phase = "hung")

\* "Leaving ends your side" (docs/user-guide.md:80).  Not when the chat is left
\* between two attempts to connect: the client goes on, and takes its seat.
LeavingEndsIt == \A o \in 1..app.made :
    app.client[o].socket /\ app.client[o].phase = "idle" => IsHeld(app, o)
=============================================================================
