---------------------------- MODULE RelayClient ----------------------------
(***************************************************************************)
(* RelayClient (packages/sdk/src/relay-client.ts): the two ends of one     *)
(* conversation, their requests, their key exchange and what each does     *)
(* when its partner, its session or its socket goes away.                  *)
(*                                                                         *)
(* A client runs on an event loop.  One step is one macrotask: a frame, a  *)
(* socket event, a timer, a call of the owner, or the end of one operation *)
(* of the crypto provider.  Everything the code does between two such      *)
(* awaits is in one step, except that the next task of the handshake lock  *)
(* starts in a step of its own (StartTask), before any other event of that *)
(* client.                                                                 *)
(*                                                                         *)
(* The relay's end of the session is RelaySession, an abstraction of       *)
(* Relay.                                                                  *)
(***************************************************************************)
EXTENDS RelaySession, Crypto

CONSTANTS
    Host,           \* the client that opens the session
    Provider,       \* the crypto provider each end runs on
    MaxMessages     \* bound: chat messages one client sends

ASSUME ClientAssumption ==
    /\ Host \in Clients
    /\ Provider \in [Clients -> {"web", "native"}]
    /\ MaxMessages \in [Clients -> Nat]

NoKey    == <<>>
NoPrints == <<>>

VARIABLE client         \* the RelayClient of each end

vars == <<client, relay>>

(***************************************************************************)
(* The fields of a client.  "call" is how far the request in flight is:    *)
(* connect() pending, generateKeyPair() pending, or the frame sent and its *)
(* answer awaited; "opening" tells openNow of the chat hub, which drops    *)
(* the client when the request fails, from reconnect().  A key pair is     *)
(* named by the end that made it and a count; localKey and peerKey are     *)
(* exported public keys.  "seen" and "partner" are what the events of the  *)
(* client have put into the store of its app; "sealing" holds the secret of *)
(* each sendMessage whose encryption is awaited.  The rest is history for  *)
(* the properties: "shown" is the number of the chat the page showed last, *)
(* "displays" how often it showed one.                                     *)
(***************************************************************************)
NewClient == [
    dropped  |-> FALSE,  named |-> FALSE,    isHost |-> FALSE,
    status   |-> "disconnected",             transport |-> "closed",
    conn     |-> 0,      call |-> "idle",    asked |-> "join",   opening |-> FALSE,
    keyPair  |-> NoKey,  shared |-> {},      received |-> FALSE, sent |-> FALSE,
    localKey |-> NoKey,  peerKey |-> NoKey,  queue |-> <<>>,     lock |-> <<>>,
    sealing  |-> <<>>,   seen |-> NoPrints,  partner |-> FALSE,
    made     |-> 0,      said |-> 0,         shown |-> 0,
    displays |-> 0,      raced |-> FALSE,    deaf |-> FALSE]

Init ==
    /\ client = [c \in Clients |-> [NewClient EXCEPT !.dropped = TRUE]]
    /\ RelayInit

Task(kind, key, chats) ==
    [kind |-> kind, pc |-> "start", key |-> key, my |-> NoKey,
     secret |-> {}, chats |-> chats]

Live(r)    == r.status \in {"connecting", "connected", "awaiting_partner",
                            "handshaking", "ready"}
Socket(c)  == <<c, client[c].conn>>
Running(c) == Head(client[c].lock)

\* Between two macrotasks.  StartTask touches nothing but its own client, so
\* the other end is made to wait for it too: no interleaving is lost.
Idle == \A c \in Clients : client[c].lock # <<>> => Running(c).pc # "start"

Becomes(c, r) == client' = [client EXCEPT ![c] = r]

----------------------------------------------------------------------------
(* Pieces of the handlers: what becomes of one client.                     *)

ResetCryptoState(r) == [r EXCEPT
    !.keyPair = NoKey, !.shared = {}, !.received = FALSE, !.sent = FALSE,
    !.localKey = NoKey, !.peerKey = NoKey, !.queue = <<>>,
    !.raced = @ \/ r.lock # <<>>]

Disconnect(r) == [ResetCryptoState(r) EXCEPT
    !.transport = "closed", !.named = FALSE, !.isHost = FALSE,
    !.status = IF @ = "expired" THEN @ ELSE "disconnected"]

\* The chat hub lets go of the client: nothing it still runs can be heard,
\* and the app removes the chat.
Drop(r) == [Disconnect(r) EXCEPT
    !.dropped = TRUE, !.call = "idle", !.lock = <<>>, !.sealing = <<>>,
    !.seen = NoPrints, !.partner = FALSE]

\* The pending request fails: openNow disconnects and drops the client,
\* runReconnect lets a host create the session anew if it is gone.
Rejected(r, code) ==
    IF r.call # "request" THEN r
    ELSE IF r.opening THEN Drop(r)
    ELSE IF r.asked = "join" /\ r.isHost /\ code = "SESSION_NOT_FOUND"
         THEN [r EXCEPT !.call = "keygen", !.asked = "create"]
         ELSE [r EXCEPT !.call = "idle"]

Resolved(r, requests) ==
    IF r.call = "request" /\ r.asked \in requests
    THEN [r EXCEPT !.call = "idle"] ELSE r

\* Mutant of WithHandshakeLock: a handler jumps the queue.
WithoutHandshakeLock(r, task) == [r EXCEPT !.lock =
    IF @ = <<>> THEN <<task>> ELSE <<Head(@), task>> \o Tail(@)]

WithHandshakeLock(r, task) == [r EXCEPT !.lock = Append(@, task)]

Finished(r) == [r EXCEPT !.lock = Tail(@)]
At(r, task) == [r EXCEPT !.lock = <<task>> \o Tail(@)]

\* decryptChat for each of the chats left, up to the first await.
DecryptNext(r, task, chats) ==
    IF chats = <<>> THEN Finished(r)
    ELSE IF r.shared = {} THEN Finished([r EXCEPT !.queue = @ \o chats])
    ELSE At(r, [task EXCEPT !.pc = "decrypt", !.chats = chats, !.secret = r.shared])

FlushInboundQueue(r, task) ==
    DecryptNext([r EXCEPT !.queue = <<>>], task, r.queue)

\* Mutant of BecomeReady: no fingerprints for another partner's key.
BecomeReadyPrintsOnce(r, task) ==
    LET s == [r EXCEPT !.status = "ready"] IN
    IF r.localKey # NoKey /\ r.peerKey # NoKey /\ r.seen = NoPrints
    THEN At(s, [task EXCEPT !.pc = "print", !.my = r.localKey])
    ELSE FlushInboundQueue(s, task)

\* The end of handlePeerPublicKey: ready, then fingerprints, then the queue.
BecomeReady(r, task) ==
    LET s == [r EXCEPT !.status = "ready"] IN
    IF r.localKey # NoKey /\ r.peerKey # NoKey
    THEN At(s, [task EXCEPT !.pc = "print", !.my = r.localKey])
    ELSE FlushInboundQueue(s, task)

HandshakeFailed(r) == Rejected(Finished(r), "HANDSHAKE_FAILED")

\* The socket of a client that is dropped goes with it.
HangsUpIf(c, r, R) == IF r.dropped THEN HangUp(R, Socket(c)) ELSE R

----------------------------------------------------------------------------
(* Calls of the owner, and the steps of the requests they make.            *)

Open(c) ==
    LET r == client[c] IN
    /\ r.dropped /\ r.conn < MaxConnections
    /\ c # Host /\ r.conn = 0 => relay.exists      \* the host's link
    /\ Becomes(c, [NewClient EXCEPT
            !.status = "connecting", !.transport = "opening",
            !.call = "dial", !.opening = TRUE,
            !.asked = IF c = Host THEN "create" ELSE "join",
            !.conn = r.conn, !.made = r.made, !.said = r.said, !.shown = r.shown,
            !.displays = r.displays])
    /\ UNCHANGED relay

\* Not while a request is pending: a reconnect() beside openNow's request, and
\* which of the two an answer then settles, is in ChatHub.
Reconnect(c) ==
    LET r == client[c] IN
    /\ Idle /\ ~r.dropped /\ r.named /\ r.call = "idle"
    /\ r.status # "expired" /\ ~Live(r) /\ r.conn < MaxConnections
    /\ Becomes(c, [ResetCryptoState(r) EXCEPT
            !.status = "connecting", !.transport = "opening",
            !.call = "dial", !.opening = FALSE, !.asked = "join"])
    /\ relay' = HangUp(relay, Socket(c))

\* An attempt ends without a connection; its close event is reported.
AttemptFails(c) ==
    LET r == client[c] IN
    /\ Idle /\ r.call = "dial" /\ r.status = "connecting"
    /\ Becomes(c, [ResetCryptoState(r) EXCEPT !.status = "disconnected"])
    /\ MayFail(relay) /\ relay' = Fault(relay)

ConnectFails(c) ==
    LET r == [client[c] EXCEPT !.status = "error", !.transport = "closed"] IN
    /\ Idle /\ r.call = "dial"
    /\ Becomes(c, IF r.opening THEN Drop(r) ELSE [r EXCEPT !.call = "idle"])
    /\ MayFail(relay) /\ relay' = Fault(relay)

Connected(c) ==
    LET r == client[c] IN
    /\ Idle /\ r.call = "dial"
    /\ Becomes(c, [r EXCEPT
            !.conn = @ + 1, !.transport = "open", !.status = "connected",
            !.call = "keygen", !.named = TRUE,
            !.isHost = (r.asked = "create") \/ (~r.opening /\ @)])
    /\ relay' = [relay EXCEPT !.wired = @ \cup {<<c, r.conn + 1>>}]

\* generateKeyPair() resolves and the frame is sent, or send() throws.
KeyGenerated(c, r, handled) ==
    /\ Idle /\ client[c].call = "keygen"
    /\ IF r.transport = "open"
       THEN /\ Becomes(c, [r EXCEPT !.call = "request"])
            /\ IF Socket(c) \in relay.wired THEN relay' \in handled ELSE UNCHANGED relay
       ELSE /\ Becomes(c, IF r.opening THEN Drop(r) ELSE [r EXCEPT !.call = "idle"])
            /\ UNCHANGED relay

NewKeyPair(c) ==
    [client[c] EXCEPT !.made = @ + 1, !.keyPair = <<c, client[c].made + 1>>]

CreateSession(c) ==
    /\ client[c].asked = "create"
    /\ KeyGenerated(c, NewKeyPair(c), CreateAnswers(relay, Socket(c)))

\* A join starts a new handshake.
JoinSession(c) ==
    /\ client[c].asked = "join"
    /\ KeyGenerated(c, [NewKeyPair(c) EXCEPT !.received = FALSE, !.sent = FALSE, !.shared = {}],
                    JoinAnswers(relay, Socket(c)))

RequestTimesOut(c) ==
    LET r == Rejected(client[c], "TIMEOUT") IN
    /\ Idle /\ client[c].call = "request"
    /\ Becomes(c, r)
    /\ MayFail(relay)
    /\ relay' = Fault(HangsUpIf(c, r, relay))

\* sendMessage: the secret is read before the encryption is awaited, and the
\* sends of one page may overlap.  Nothing keeps the encryptions in order: a
\* chat takes its number, and its place on the sender's own page, when it is
\* sent.
Say(c) ==
    LET r == client[c] IN
    /\ Idle /\ r.shared # {} /\ r.said + Len(r.sealing) < MaxMessages[c]
    /\ Becomes(c, [r EXCEPT !.sealing = Append(@, r.shared)])
    /\ UNCHANGED relay

Without(s, i) == SubSeq(s, 1, i - 1) \o SubSeq(s, i + 1, Len(s))

Sealed(c, i) ==
    LET r    == client[c]
        chat == Encrypt([from |-> c, n |-> r.said + 1], r.sealing[i])
    IN
    /\ Idle /\ i \in DOMAIN r.sealing
    /\ Becomes(c, [r EXCEPT !.said = @ + 1, !.sealing = Without(@, i)])
    /\ IF r.transport = "open"
       THEN relay' \in RelaySend(relay, Socket(c), [type |-> "chat", chat |-> chat])
       ELSE UNCHANGED relay

\* Not between two attempts of connect(), where the loop goes on without the
\* client having been told: that is in ChatHub.
LeaveSession(c) ==
    LET r == client[c] IN
    /\ Idle /\ ~r.dropped /\ ~(r.call = "dial" /\ r.status = "disconnected")
    /\ Becomes(c, Drop(r))
    /\ MayFail(relay)
    /\ relay' = Fault(HangUp(IF r.named /\ r.transport = "open" /\ Socket(c) \in relay.wired
                             THEN RelayLeave(relay, Socket(c)) ELSE relay, Socket(c)))

----------------------------------------------------------------------------
(* Frames of the relay and events of the socket.                           *)

Hears(c, type) ==
    /\ Idle /\ client[c].transport = "open"
    /\ relay.net[c] # <<>> /\ Head(relay.net[c]).type = type

Consumed(c) == [relay EXCEPT !.net[c] = Tail(@)]

OnSessionCreated(c) ==
    /\ Hears(c, "SESSION_CREATED")
    /\ Becomes(c, [Resolved(client[c], {"create", "join"}) EXCEPT
            !.named = TRUE, !.isHost = TRUE, !.status = "awaiting_partner"])
    /\ relay' = Consumed(c)

OnPartnerJoined(c) ==
    /\ Hears(c, "PARTNER_JOINED")
    /\ Becomes(c, WithHandshakeLock(
            [Resolved(client[c], {"join"}) EXCEPT !.status = "handshaking", !.partner = TRUE],
            Task("send", NoKey, <<>>)))
    /\ relay' = Consumed(c)

OnPublicKey(c) ==
    /\ Hears(c, "key")
    /\ Becomes(c, WithHandshakeLock(client[c], Task("key", Head(relay.net[c]).key, <<>>)))
    /\ relay' = Consumed(c)

OnChat(c) ==
    /\ Hears(c, "chat")
    /\ Becomes(c, WithHandshakeLock(client[c], Task("chat", NoKey, <<Head(relay.net[c]).chat>>)))
    /\ relay' = Consumed(c)

\* The secret goes, the key pair stays; the handshake lock is not taken.
OnPartnerLeft(c) ==
    /\ Hears(c, "PARTNER_LEFT")
    /\ Becomes(c, [client[c] EXCEPT
            !.shared = {}, !.received = FALSE, !.sent = FALSE, !.queue = <<>>,
            !.partner = FALSE, !.status = "awaiting_partner", !.raced = @ \/ client[c].lock # <<>>])
    /\ relay' = Consumed(c)

OnSessionExpired(c) ==
    /\ Hears(c, "SESSION_EXPIRED")
    /\ Becomes(c, [ResetCryptoState(client[c]) EXCEPT !.status = "expired"])
    /\ relay' = Consumed(c)

\* SESSION_NOT_FOUND is left to the callers of join.
StatusAfter(code, status) ==
    CASE code = "SESSION_EXPIRED"   -> "expired"
      [] code = "SESSION_NOT_FOUND" -> status
      [] OTHER                      -> "error"

\* A failed request of openNow ends in disconnect(), after the status.
OnError(c) ==
    LET code == Head(relay.net[c]).code
        r    == Rejected([client[c] EXCEPT !.status = StatusAfter(code, @)], code)
    IN
    /\ Hears(c, "ERROR")
    /\ Becomes(c, r)
    /\ relay' = HangsUpIf(c, r, Consumed(c))

\* The network loses the connection; neither end knows yet.
WireBreaks(c) ==
    /\ Socket(c) \in relay.wired
    /\ Idle /\ MayFail(relay)
    /\ relay' = Fault(HangUp(relay, Socket(c)))
    /\ UNCHANGED client

\* The socket of the relay is closed behind its last frame.
RelayHangsUp(c) ==
    /\ Hears(c, "close")
    /\ relay' = HangUp(relay, Socket(c))
    /\ UNCHANGED client

\* The socket is CLOSING: it no longer sends, its close event is to come.
SocketClosing(c) ==
    /\ Idle /\ client[c].transport = "open" /\ Socket(c) \notin relay.wired
    /\ Becomes(c, [client[c] EXCEPT !.transport = "closing"])
    /\ UNCHANGED relay

\* Mutant of OnTransportClose: no new status.
OnTransportCloseKeepsStatus(c) ==
    /\ Idle /\ client[c].transport \in {"open", "closing"}
    /\ Socket(c) \notin relay.wired
    /\ Becomes(c, ResetCryptoState([client[c] EXCEPT !.transport = "closed"]))
    /\ UNCHANGED relay

\* handleTransportClose; after disconnect() no close event is reported.
OnTransportClose(c) ==
    LET r == [client[c] EXCEPT !.transport = "closed"] IN
    /\ Idle /\ client[c].transport \in {"open", "closing"}
    /\ Socket(c) \notin relay.wired
    /\ Becomes(c, IF r.status = "expired" THEN r
                  ELSE [ResetCryptoState(r) EXCEPT !.status = "disconnected"])
    /\ UNCHANGED relay

\* A ping that cannot be sent closes the transport, which then reports
\* no close event.
PingFails(c) ==
    /\ Idle /\ client[c].transport = "closing"
    /\ Becomes(c, [client[c] EXCEPT !.transport = "closed", !.deaf = TRUE])
    /\ UNCHANGED relay

----------------------------------------------------------------------------
(* The tasks of the handshake lock, one at a time.                         *)

StartTask(c) ==
    LET r == client[c]
        t == Running(c)
    IN
    /\ client[c].lock # <<>> /\ t.pc = "start"
    /\ UNCHANGED relay
    /\ \/ /\ t.kind = "send"
          /\ Becomes(c, IF r.keyPair = NoKey \/ r.sent THEN Finished(r)
                        ELSE At(r, [t EXCEPT !.pc = "export", !.my = r.keyPair]))
       \/ /\ t.kind = "key"
          /\ Becomes(c, IF r.keyPair = NoKey \/ r.received THEN FlushInboundQueue(r, t)
                        ELSE At([r EXCEPT !.peerKey = t.key], [t EXCEPT !.pc = "import"]))
       \/ /\ t.kind = "chat"
          /\ Becomes(c, DecryptNext(r, t, t.chats))

Awaits(c, pc) == Idle /\ client[c].lock # <<>> /\ Running(c).pc = pc

\* sendPublicKeyNow after exportPublicKey.
KeyExported(c) ==
    LET t == Running(c)
        key == ExportPublicKey(Provider[c], t.my)
        r == [client[c] EXCEPT !.localKey = key]
        s == [r EXCEPT !.sent = TRUE]
    IN
    /\ Awaits(c, "export")
    /\ IF r.transport = "open"
       THEN /\ Becomes(c, IF t.kind = "send" THEN Finished(s) ELSE BecomeReady(s, t))
            /\ relay' \in RelaySend(relay, Socket(c), [type |-> "key", key |-> key])
       ELSE /\ Becomes(c, IF t.kind = "send" THEN Finished(r) ELSE HandshakeFailed(r))
            /\ UNCHANGED relay

\* The private key is read again after importPublicKey.
KeyImported(c) ==
    LET r   == client[c]
        key == ImportPublicKey(Provider[c], Running(c).key)
        s   == IF key = Failed \/ r.keyPair = NoKey THEN HandshakeFailed(r)
               ELSE At(r, [Running(c) EXCEPT !.pc = "derive", !.my = r.keyPair, !.key = key])
    IN
    /\ Awaits(c, "import")
    /\ Becomes(c, s)
    /\ relay' = HangsUpIf(c, s, relay)

SecretDerived(c) ==
    LET t == Running(c)
        r == [client[c] EXCEPT !.received = TRUE,
                !.shared = DeriveSharedSecret(Provider[c], t.my, t.key)]
    IN
    /\ Awaits(c, "derive")
    /\ Becomes(c, IF r.sent \/ r.keyPair = NoKey THEN BecomeReady(r, t)
                  ELSE At(r, [t EXCEPT !.pc = "export", !.my = r.keyPair]))
    /\ UNCHANGED relay

\* Between the two fingerprints a reset may forget the peer's key.  A browser
\* then hashes the word "null", a phone throws.
LocalPrinted(c) ==
    LET r == client[c]
        s == IF r.peerKey = NoKey /\ Provider[c] = "native" THEN HandshakeFailed(r)
             ELSE At(r, [Running(c) EXCEPT !.pc = "print_peer", !.key = r.peerKey])
    IN
    /\ Awaits(c, "print")
    /\ Becomes(c, s)
    /\ relay' = HangsUpIf(c, s, relay)

\* fingerprintsReady puts both into the store.
FingerprintsMade(c) ==
    LET t == Running(c) IN
    /\ Awaits(c, "print_peer")
    /\ Becomes(c, FlushInboundQueue([client[c] EXCEPT !.seen =
            <<GenerateFingerprint(t.my), GenerateFingerprint(t.key)>>], t))
    /\ UNCHANGED relay

\* A chat of another secret does not decrypt: DECRYPT_FAILED.
ChatDecrypted(c) ==
    LET t    == Running(c)
        chat == Head(t.chats)
        r    == client[c]
        s    == IF Decrypts(chat, t.secret)
                THEN DecryptNext([r EXCEPT !.shown = Decrypt(chat).n, !.displays = @ + 1],
                                 t, Tail(t.chats))
                ELSE Rejected(DecryptNext(r, t, Tail(t.chats)), "DECRYPT_FAILED")
    IN
    /\ Awaits(c, "decrypt")
    /\ Becomes(c, s)
    /\ relay' = HangsUpIf(c, s, relay)

----------------------------------------------------------------------------

Owner(c) == Open(c) \/ Reconnect(c) \/ Say(c) \/ LeaveSession(c)

Seals(c) == \E i \in DOMAIN client[c].sealing : Sealed(c, i)

Request(c) ==
    \/ AttemptFails(c) \/ ConnectFails(c) \/ Connected(c)
    \/ CreateSession(c) \/ JoinSession(c) \/ RequestTimesOut(c) \/ Seals(c)

FrameArrives(c) ==
    \/ OnSessionCreated(c) \/ OnPartnerJoined(c) \/ OnPublicKey(c) \/ OnChat(c)
    \/ OnPartnerLeft(c) \/ OnSessionExpired(c) \/ OnError(c) \/ RelayHangsUp(c)

Event(c) == FrameArrives(c) \/ SocketClosing(c) \/ OnTransportClose(c) \/ PingFails(c)

LockStep(c) ==
    \/ StartTask(c) \/ KeyExported(c) \/ KeyImported(c) \/ SecretDerived(c)
    \/ LocalPrinted(c) \/ FingerprintsMade(c) \/ ChatDecrypted(c)

RelayStep ==
    /\ Idle
    /\ \/ \E k \in Connections : SocketDies(k) \/ CloseEvent(k) \/ JoinRetryFires(k)
       \/ GraceEnds \/ Expire
    /\ UNCHANGED client

Next ==
    \/ \E c \in Clients : Owner(c) \/ Request(c) \/ Event(c) \/ LockStep(c) \/ WireBreaks(c)
    \/ RelayStep

Spec == Init /\ [][Next]_vars

(***************************************************************************)
(* Fairness: the event loops deliver what has arrived, the crypto provider *)
(* and the network settle what was asked of them.  That one of the two     *)
(* ends moves while either can is enough: each has only so much to do.     *)
(* Owners, failures and the end of a session are not fair.                 *)
(***************************************************************************)
Progress(c) ==
    \/ client[c].lock # <<>> /\ LockStep(c)
    \/ /\ Idle
       /\ \/ client[c].call # "idle" /\ (Connected(c) \/ CreateSession(c) \/ JoinSession(c))
          \/ client[c].sealing # <<>> /\ Seals(c)
          \/ relay.net[c] # <<>> /\ FrameArrives(c)
          \/ OnTransportClose(c)

FairSpec == Spec /\ WF_vars(\E c \in Clients : Progress(c))

----------------------------------------------------------------------------
(* Properties.                                                             *)

\* Nothing that was sent or awaited on behalf of the client is outstanding.
Settled(c) ==
    /\ client[c].lock = <<>> /\ client[c].call = "idle"
    /\ client[c].transport = "open" /\ Socket(c) \in relay.wired
    /\ relay.net[c] = <<>>

\* No reset of a handshake has overtaken a handler of the handshake lock.
Raced == \E c \in Clients : client[c].raced

\* The two ends agree.  Once both are ready and nothing is on its way they
\* hold the same secret, whatever leaves, reconnects, refusals and timeouts
\* came before, unless a reset overtook a handler that held the handshake lock
\* or the relay removed a participant without PARTNER_LEFT: in both cases an
\* end can be ready with the key of a partner that is gone.
SameSecret ==
    /\ ~relay.pruned /\ ~Raced
    /\ \A c \in Clients : Settled(c) /\ client[c].status = "ready"
    => \A c, d \in Clients : client[c].shared = client[d].shared

\* A client that believes it waits for, greets or talks to a partner has its
\* seat: an ERROR, a late close of an older socket or a failed request never
\* leaves it waiting on a connection the session does not know.  The exception
\* is a client of which a reset has overtaken a handler of the handshake lock:
\* that handler may write "ready" over the status of the reset.
BelievesWhatIsSo == \A c \in Clients :
    /\ Settled(c) /\ ~client[c].raced
    /\ client[c].status \in {"awaiting_partner", "handshaking", "ready"}
    => Socket(c) \in relay.seats

\* A client whose status is live, which reconnect() therefore leaves alone,
\* still has a transport that will report its close; the exceptions are a
\* failed ping, which closes the transport silently, and an overtaken handler.
LiveIsHeard == \A c \in Clients :
    LET r == client[c] IN
    Live(r) /\ r.transport = "closed" => r.deaf \/ r.raced

\* Chats are shown in the order they were sent and never twice, though they
\* are decrypted asynchronously, wait for keys and are queued again: whenever
\* the page shows a chat, it is a later one than it showed before.  The
\* exception is an end that a reset has overtaken, or whose socket no longer
\* sends: its handshake may fail behind the secret it has set, and the chats
\* queued for that secret are shown by a later key, after newer ones.
InOrder == [][\A c \in Clients :
    client'[c].displays # client[c].displays /\ ~client[c].raced
        /\ client[c].transport = "open"
    => client'[c].shown > client[c].shown]_vars

\* Both ends are connected and seated, and nobody spoilt the handshake.
Together ==
    /\ ~relay.pruned /\ ~relay.refused /\ ~Raced
    /\ \A c \in Clients : /\ client[c].transport = "open"
                          /\ Socket(c) \in relay.seats \cap relay.wired

\* Not necessarily "ready": a refused chat leaves the status at "error".
Secured == \A c, d \in Clients :
    client[c].shared # {} /\ client[c].shared = client[d].shared

\* Two ends that stay seated finish their handshake, on whichever of their
\* connections that is and whatever the earlier ones left behind.
HandshakeCompletes == []Together ~> Secured
=============================================================================
