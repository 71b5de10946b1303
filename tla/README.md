# Formal models of goPrivate

goPrivate is a two-person chat: two clients meet in a short-lived *session* on
a relay that holds everything in memory, exchange public keys, and from then on
the relay forwards envelopes it cannot read. A client may also claim a *handle*
(a name) and be rung through it. This directory models the parts where order
matters, on both sides of the wire: the relay's state machine, its door and its
limits; the transport, the client, the chat hub and the vault of the apps. TLC
checks the models on small instances; TLAPS proves what matters most of the
relay, its door and its limits, the transport, the client, the hub, the mailbox
and the vault for instances of any size.

    tlc -workers 4 -config relay_sessions.cfg MCRelay.tla
    tlapm RelayProofs.tla

## 1. The system

| Part | Source | State | Operations |
| --- | --- | --- | --- |
| Relay connections | `apps/relay/src/websocket/index.ts`, `index.ts` | the `connectionCounter`; per socket the `closed` flag and `readyState` | accept or turn away, deliver a frame, `error`, `close`, `onEnd` |
| Session store | `apps/relay/src/session/store.ts` | `sessions`: participants and `expiresAt` | create, addParticipant, removeParticipant, findBySocket, destroy, getExpired |
| Handle store | `apps/relay/src/session/handles.ts` | `byHandle`, `bySocket`, `sessionToHandle`, and the `inboundSessionIds` of each claim | claim, release, addInbound, dropInbound |
| Request handlers | `apps/relay/src/handlers/messages.ts` | `pendingDestroy` and its timers; the join-retry timers | CREATE, JOIN, SEND, LEAVE, CLAIM, UNCLAIM, RING, PING; grace timer, join retry, sweep |
| Rate limits | `apps/relay/src/services/limits.ts` | `actionBuckets`, `sessionCreationByIP` | allowAction, canCreateSessionFromIP, sweepRateLimits |
| Validation | `apps/relay/src/services/validate.ts` | none | shape checks of a frame |
| Handle registry | `apps/relay/src/services/handle-registry.ts`, `packages/crypto/src/handle-lease.ts`, `tools/issue-handle.mjs` | a file read again at every claim | issue a lease, verify a lease proof |
| SDK transport | `packages/sdk/src/transport.ts` | `socket`, `generation`, one promise and timeout per connect | connect, close, send, socket callbacks |
| SDK relay client | `packages/sdk/src/relay-client.ts` | status, pending requests, handshake lock, keys, inbound queue | createSession, joinSession, sendMessage, key exchange, reconnect |
| Crypto providers | `packages/crypto/src/web-crypto.ts`, `native-crypto.ts`, `ec-spki.ts`, `ecdh-shared.ts` | none | export, import, derive, encrypt, fingerprint |
| SDK chat hub | `packages/sdk/src/chat-hub.ts` | clients by id, `opening`, snapshots, pending claims, mailbox | openChat, leave, ring, reconnectAll, claim, unclaim |
| App stores and hooks | `apps/*/…/store/session.ts`, `use-chat-session.ts`, `apps/mobile/services/chat-hub.ts` | chats, unread counts, the active chat | events of the hub, some applied after awaits |
| Handle leases | `apps/*/…/services/handle-lease.ts`, `ClaimHandleControl.tsx`, `ClaimHandleCard.tsx` | stored keys, preferred name | paste, prove, go available, go offline |
| Vault | `apps/*/…/services/vault.ts` | wrapped key, failed attempts, lock | setup, unlock, verifyPin, rewrap, encrypt, lock |
| Links | `session-link.ts`, `deeplink.ts`, `JoinSessionForm.tsx`, `packages/config` | none | write and read links to chats and names |
| Screens | `ChatPage.tsx`, `app/chat/[sessionId].tsx`, … | what the stores hold | offer the link, the composer, the PIN pad |

How they meet: a client's transport opens a WebSocket; the relay registers it
and gives every frame to the handlers, which update the session store, the
handle store and the timers in one synchronous run, and answer on the sockets
involved. The relay's timers (5 s sweep, 60 s reconnect grace, 40 ms
join retry) call the same stores. Clients learn of anything only from frames:
the relay client turns them into requests resolved, keys derived and events;
the hub keeps one client per chat and a mailbox connection of its own, and
patches snapshots; the hooks of the apps apply these to the store the screens
show, and encrypt messages with the vault's key on the way.

What is hard here:

* **A socket dies before the relay hears of it.** Between the two, its
  `readyState` is not OPEN while it still sits in its session and still owns its
  name. Joins look at `readyState`; everything else waits for the close event.
* **Timers outlive what they were armed for.** A grace timer meets a session
  that was reclaimed, expired, or made anew under the same id; a join retry
  meets a socket that has closed, sits elsewhere, or has claimed a name.
* **A session ends in many places**: the sweeper, the grace timer, and whichever
  request first finds it expired. Each must undo timers, inbound counts, seats
  and sockets.
* **Tables that mirror each other**: four maps of the handle store, the
  `pendingDestroy` map and the event loop's timers, the counter and the sockets.
* **A transport whose callbacks arrive after it has moved on**: the timeout, a
  late open, a close of a socket that was given up.
* **Everything on the client side awaits.** A key derivation, a signature, a
  connect or an encryption is pending while a reset, a second call or a leave
  happens, and its result is applied to whatever is there by then.
* **Answers are matched by kind, not by request.** An `ERROR` belongs to no
  request in particular, a `HANDLE_CLAIMED` to whichever claim is pending.
* **Two platforms with one protocol**: keys, links and screens are written
  twice and have to meet.

`PROJECT.json` lists each hazard at its line with the property that covers it,
or why none does.

## 2. The modules

| Module | Models | Notes |
| --- | --- | --- |
| `HandleStore` | `session/handles.ts` | the four maps; operations as action conjuncts |
| `Relay` | `websocket/index.ts`, `session/store.ts`, `handlers/messages.ts` | EXTENDS `HandleStore`; one action per request, socket event and timer |
| `RelayProperties` | – | invariants, action properties and liveness of `Relay`, and its refinement mapping |
| `SessionLifecycle` | `docs/protocol/sessions.md` as a machine | the abstract specification: occupancy, lifetime and grace, no sockets or timers |
| `RelayViews` | – | `Relay` with a history variable: what each seated client was last told |
| `RateLimits` | `services/limits.ts` and the order `messages.ts` asks it in | |
| `Links` | `session-link.ts`, `deeplink.ts`, the join forms, patterns of `packages/config` | pure operators: what each reader makes of each link |
| `Frames` | `packages/protocol`, `services/validate.ts`, the composers | EXTENDS `Links`; what the apps send, and what the parser lets through |
| `Requests` | the way in: `handleMessage` up to its handlers | EXTENDS `RateLimits`, `Frames` |
| `Transport` | `packages/sdk/src/transport.ts` | |
| `Crypto` | `packages/crypto` | both providers, symbolically |
| `RelaySession` | the relay as two clients see it | one session of `Relay`, with the frames on their way |
| `RelayClient` | `packages/sdk/src/relay-client.ts` | EXTENDS `RelaySession`, `Crypto`; two clients and one session |
| `ChatScreen` | `ChatPage.tsx`, `app/chat/[sessionId].tsx` | EXTENDS `RelayClient`; what a page shows of its client |
| `ChatHub` | `packages/sdk/src/chat-hub.ts`, the app stores and hooks | clients reduced to their requests and sockets |
| `Mailbox` | the claims of `chat-hub.ts`, handle leases of the apps, the registry | with the relay's side of a claim |
| `Vault` | `services/vault.ts` of both apps and the screens that use it | |
| `MCRelay`, `MCRelayViews`, `MCRequests`, `MCRelayClient`, `MCChatHub` | – | instances for TLC |
| `RelayProofs` | – | theorems about `Relay`: types, seats, handles, sessions, timers, caps, the refinement, what clients are told |
| `RequestProofs` | – | theorems about the rate limits, the links and the frames |
| `TransportProofs`, `RelayClientProofs`, `ChatHubProofs`, `MailboxProofs`, `VaultProofs` | – | theorems about the module in the name |
| `HandshakeProofs` | – | EXTENDS `RelayClientProofs`, `ChatScreen`; theorems about the keys and fingerprints of a client, and the keys of the two ends and what their pages offer |

### Relay

Node runs one callback at a time, so an action is one whole callback: a frame
handled to its end, a socket event, a timer that fires. Interleaving is
between callbacks. The correspondence:

* `conn[w]` is the WebSocket object as `ws` sees it. `open` is `readyState ===
  OPEN`; `shutting` a socket the relay has called `close()` on, which still
  delivers frames until the peer answers; `closing` one whose peer is gone;
  `failed` one whose error event came and whose close event is due; `closed` no
  connection. The `closed` flag of `registerWebsocket` is `failed`: the close
  event of a failed socket ends nothing a second time.
* `live`, `participants`, `expiresAt` are the `sessions` map. A session not in
  `live` has an empty participant set and 0 for a lifetime, so that an absent
  entry has one representation only.
* `pendingDestroy[s]` is the due time of the timer the map holds for `s`, and
  `graceTimers` are the timers really armed on the event loop. They are kept
  apart because the code could let them come apart: `clearTimeout` reaches only
  the timer in the map. `joinRetries` are the 40 ms timers, which no map knows.
* `out` is what the last step wrote to sockets. `Send` drops a frame for a
  socket that is not open, as `sendToSocket` and `broadcast` do.
* A request is the action of its name, e.g. `JoinSession(w, s)`: its disjuncts
  are the early returns of `handleJoinSession`, in its order. What two handlers
  share is an operator, e.g. `ExpireSessions` for `expireSession`, and `JoinGone`,
  `TryJoin` for the part of a join that runs again 40 ms later.
* The verdicts of the rate limit (`RateLimited`) and of the claim proof or
  allow list (`authorised`) are choices: `RateLimits` says when the first one
  falls, and no safety property may rest on either.

Sessions that run out at the same instant are swept together in the model; the
code sweeps them in one synchronous loop. Frames are named by type and error
code; payloads, ids of participants and times inside frames are left out, as
no property tells them apart. `PING` changes nothing and is left out.

A WebSocket object is never used twice, and the model has few of them: `Connect`
takes a closed one again only if nothing in the relay refers to it
(`Unreferenced`), so a reused name is a new object. `FreshId` is the same for
`crypto.randomUUID()`.

### RateLimits

A bucket is `[count, resetAt]`; a missing entry is `NoBucket`, whose window has
run out, which is how the code treats a missing entry. `Request` keeps the
order of the handler: the bucket of the request's kind is charged first and
stays charged when the per-address bucket of new sessions refuses.
`admitted` is a history variable: per address and kind, when each request was
let through.

### Transport

Each `connect()` bumps `generation`, so a connect attempt *is* the generation it
was given; `close()` bumps it too. `OnOpen`, `OnError`, `OnMessage`, `OnClose`
and `TimerFires` are the five callbacks of `connect`, each with its generation
check. Failed sockets deliver error, then close; any socket may also close
without an error. `called` is the owner's handlers that the last step called,
`wanted` a history variable: the last call of the owner was `connect()`.

### Links, Frames and Requests

A word of a link is what the patterns of the apps ask of it: its length, how
many of its first characters are hex digits, whether it is a slug, begins with
a letter, is written with capitals, is reserved. `Leads(reader, link)` is where a
reader ends up, with the readers in the order in which their code tries things
(both join forms try a name first, the phone's other readers an id). A text is
counted by what JSON and UTF-8 make of its characters, so that `Encrypted` of it
has the length the relay's limit is compared with. `ParseClientMessage` is the
parser, case by case. `Requests` lets users open links, write, claim and leave,
and other frames arrive; each goes through the parser and then through
`RateLimits`. Kinds outside `Metered` get an arbitrary verdict of the limits.

### Crypto

A key pair is a name, a byte string the sequence of its pieces, and a secret the
set of the two pairs it was derived from. The SPKI and PKCS#8 conversions that
the phone does by hand are kept piece by piece, since whether the two platforms meet
hangs on them.

### RelayClient and RelaySession

An action is one macrotask of one client: a frame, a socket event, a timer, a
call of the owner, or the end of one operation of the crypto provider. The
handshake lock is the queue `lock` of tasks; a task has a program counter for the
awaits inside it (`export`, `import`, `derive`, `print`, `decrypt`), and
`StartTask` begins the next one. `ResetCryptoState`, `Disconnect`, `Rejected` and
`Drop` are what the handlers share. The handlers that take the lock append a
task; `OnPartnerLeft`, `OnTransportClose`, `OnSessionExpired` and the calls of the
owner do not take it and may overtake a task, as in the code.

`RelaySession` is `Relay` with one session: an action of a client that sends a frame
includes its handling, and any delay is in the delivery of what comes back (`net`).
Grace, expiry, the join retry and the order *socket no longer open – close event
handled* are kept. Lines of the relay's handlers are therefore mapped twice, once
from `Relay` and once from its abstraction. Clients have `MaxConnections`
connections, faults and endings of any kind are counted by `faults`. A request may be refused by
the limits, and a join, or a create that claims an empty session back, may find its session past its time;
both are faults.

`Say` and `Sealed` are the two halves of `sendMessage`: any number of calls may await their
encryption at a time (`sealing`), each with the secret it found, and end in any order. A message is numbered
when it is sent, which is also when the sender's own page shows it.
`Reconnect` is for a client without a request in flight; a `reconnect()` that overtakes a
request of `openNow` still pending is in `ChatHub` only.

History: `raced` (a reset overtook a task that held the lock), `deaf` (a failed
ping closed the transport), `shown` and `displays` (the number of the message shown last, and how
often one was shown), `pruned` and `refused` in the relay.

### ChatScreen

Pure operators over the state of `RelayClient`: when a page offers the invitation,
the composer and the fingerprints, on each platform.

### ChatHub

One record `app` holds the hub, the store and the calls in flight, and each
function of the code is an operator from one such record to the next
(`OpenChat`, `OpenNow`, `Drop`, `Patch`, `UpsertChat`, …), so that an action reads as
the composition the code is. A client is reduced to its request (`phase`: an
attempt to connect, the pause before the next, the request sent, or hung for good)
and its socket. A request that a `reconnect()` has overtaken still listens: the answer to the
reconnect settles both (`Listening`), but for a pending create, which `PARTNER_JOINED` leaves waiting
(`Joined`), and an `ERROR` rejects both. The difference between the platforms is in what the screens do
after an await (on the phone, `cancelled` is "the page's chat is no longer the
active one"). Whether a name is claimed, and so which cap applies, is
`MAX_CHATS`. `LeaveChat` stands for leaving and dismissing; `ExpireSession` is the timer on the web
page, `BindAppState` and `ResumeSessions` the return to the foreground on the phone and
in the browser.

History: `undead` (disconnected between two attempts of `connect()`), `late` (a
handler still running at the disconnect), `crowded` (rung into a full hub), `returned`
(shown because of something that came for a chat not held).

### Mailbox

A claim is a *call*: connect, sign, send, wait. A *box* is one transport of the
hub with the two channels of its connection; the relay's side consumes one and fills the
other. One that failed to connect may still report its close later (`phase` "failed"). Lease keys are symbolic: a signature can be made with the private half only.
`IssueHandle` is the operator's tool, `LeaseEnds` an entry that expires, is
removed or is unreadable while the file is rewritten. Claim secrets, the clock skew of a
proof and the recovery of old stores are left out.

### Vault

An operation is a *call* that starts (reads and draws its salt), waits for the
key derivation and ends in a later step, so that calls overlap as the pads let
them. `vaultKey` and `meta` are the memory, `saved` the `localStorage` of the web.
No screen of the phone reads what the phone stores, so it is not a variable
there. The PIN a set-up or change was made with last is `chosen`. `tries` counts the wrong
PINs typed since the vault last cleared its counter, for whatever reason.

## 3. What TLC checks

| Run | Instance | Properties |
| --- | --- | --- |
| `relay_sessions` | 4 sockets, 3 connections, 2 session ids, cap 1 session, no handles, clock 0..5, lifetime 3, grace 2, 2 join retries | `TypeOK`, `TwoSeats`, `EmptyIffDoomed`, `WithinCaps`, `FullIsHonest`, `ServedInTime`, `ImplementsLifecycle` |
| `relay_handles` | 3 sockets, 2 sessions, 2 names, 1 rung session per claim, clock 0..3 | `OneSeat`, `HandleTablesAgree`, `InboundAreLive`, `OwnersConnected`, `ClaimsAreNotStolen`, `ToldTheTruth` |
| `relay_liveness` | 2 sockets, 1 session, 2 names, clock 0..4 | `SessionsEnd`, `NamesComeFree` |
| `rate_limits` | 1 address, 3 metered kinds, limits 2 and 2, windows 2 and 3, clock 0..3; 2 ids, 4 names, 2 pages, 8 texts, 12 odd frames | `LinksLeadHome`, `AppsAreUnderstood`, `AtMostTwiceTheLimit`, `SessionsPerAddress`, `SweepIsInvisible` |
| `transport` | 4 calls of connect and close | `NoLeakedSocket`, `QuietAfterClose`, `ConnectSettles` |
| `two_clients` | a phone that opens and a browser that joins, 2 connections each, 1 fault, the browser writes 2 messages | `SameSecret`, `FingerprintsAreOfTheSecret`, `OffersAFreeSeat`, `BelievesWhatIsSo`, `LiveIsHeard`, `InOrder`, `HandshakeCompletes` |
| `chat_hub` | 2 chats, 2 calls at a time, 3 in all, 2 clients, 1 event, 2 attempts to connect, cap 1 | `NoOrphans`, `WithinCap`, `StoreFollowsHub`, `CallsEnd` |
| `vault` | 2 PINs, 2 overlapping calls, 3 salts, pause after 2 wrong PINs, 4 guesses | `Readable`, `OpensWithTheChosenPin`, `GuessesAreLimited` |
| `mailbox` | 2 names, 1 leased, 2 keys, 2 connections, 2 calls, 2 events | `ShownIsOwned`, `OfflineIsFinal`, `ClaimsSettle` |
| `relay_ghost` | 3 sockets, 1 session | `AbandonedIsDoomed`, violated (section 6) |
| `relay_silent_prune` | 3 sockets, 1 session | `PartnerLeftSent`, violated (section 6) |
| `chat_left` | as `chat_hub` | `LeavingEndsIt`, violated (section 6) |

What they show, in a sentence each:

* `EmptyIffDoomed`: no empty session is forgotten, no occupied one has a grace
  timer running, and no timer of an earlier life of an id is left to fire.
* `TwoSeats`, `OneSeat`: never a third participant in a session, never a second
  seat of a socket, and no seated mailbox, though four operations seat.
* `WithinCaps`: the connection counter is the number of connections; an error
  followed by its close is counted once.
* `FullIsHonest`: `SESSION_FULL` is said only of a session with two open sockets,
  so a reconnecting client is never taken for a third person.
* `ServedInTime`: nobody is seated and no message is forwarded after the
  lifetime, however late the sweeper is.
* `ImplementsLifecycle`: the relay refines `SessionLifecycle` under
  `occupancy <- Cardinality(participants[s])`, `keepUntil <- pendingDestroy`: the
  grace is honoured to its end, the lifetime never extended, and a session ends
  for no other reason.
* `HandleTablesAgree`, `InboundAreLive`, `OwnersConnected`,
  `ClaimsAreNotStolen`: who has a name, which sessions it counts, and that the
  owner is still connected and never robbed of it.
* `ToldTheTruth`: a seated client with an open socket was last told "alone" or
  "paired" as its session really is.
* `SessionsEnd`, `NamesComeFree`: every session ends whatever its clients do; a
  name comes free once its owner's connection is gone.
* `AtMostTwiceTheLimit`, `SessionsPerAddress`: the exact guarantee of a fixed
  window. (The comment at `packages/config/src/index.ts:160` calls the window
  sliding; it is not, and one less than twice the limit really gets through around a
  boundary.) `SweepIsInvisible`: deleting old buckets changes no verdict.
* `NoLeakedSocket`, `QuietAfterClose`, `ConnectSettles`: a transport leaves no
  open socket behind, says nothing after `close()`, and a connect that is not
  given up settles even if the network stays silent.
* `LinksLeadHome`: whatever an app shows for a chat, a name or a page leads there
  in every app and through every reader. It rests on lengths: a generated id has
  32 digits and a name at most 31 characters. `AppsAreUnderstood`: the longest
  text both composers let through still fits the relay's limit. Excepted are what a
  user pasted unseen: a lease key typed with an invalid name, and control
  characters, which the web page keeps (more than about 1,980 of them make a
  message the relay refuses after the page has shown it as sent). Lone surrogates, which JSON
  writes as six bytes as well, are not among the characters of the model.
* `SameSecret`, `FingerprintsAreOfTheSecret`: two ends that are ready, with nothing
  on its way, hold one secret, and the fingerprints each holds are of its keys;
  `HandshakeCompletes`: two ends that stay seated get there, on whichever
  connection. Excepted, and named in the properties: a reset that overtook a
  handler inside the lock, the silent prune, a key refused by the rate limit
  (nobody sends it again).
* `BelievesWhatIsSo`, `LiveIsHeard`: a client that waits, greets or talks has its seat,
  and one whose status is live will hear of its transport's end. Both except a client that a
  reset has overtaken in a handler of its lock (`raced`), which may write "ready" over the
  status of the reset; the second excepts a client whose ping failed (`deaf`): its
  `transport.close()` reports nothing and leaves a status that `reconnect()` takes for live.
* `InOrder`: whenever a page shows a message, it was sent after the one shown before, so none is shown
  twice, not even in a row; by an end that no reset has overtaken and whose socket sends. Nothing in the
  code orders two encryptions, so the order is that of sending, not of the calls of `sendMessage`.
* `OffersAFreeSeat`: a page offers its link while the other seat is free; its
  comment lists when it may not, among them a phone whose status an `ERROR` changed.
* `NoOrphans`, `WithinCap`, `StoreFollowsHub`: a client outside the hub has no
  socket, more chats than the cap are open only by rings answered late, and the
  store shows the hub's chats. `CallsEnd`: every call and every resume ends, but for
  those that wait for a client left while its socket was being opened.
* `Readable`, `OpensWithTheChosenPin`: overlapping set-ups, unlocks and changes
  of PIN leave the shown messages readable and the last PIN in force; `collided`
  and `overtaken` mark the only steps that break this (a set-up over a vault unlocked
  meanwhile, a change that ends over another key, a lock under a sealing message,
  an unlock that puts back the wrapping it started from). `GuessesAreLimited`: from
  one clearing of the counter to the next, the limit on wrong PINs is passed by less than the
  calls that overlap. A right PIN and the end of a pause clear it, but so do a set-up, a lock
  and a load of the page, across which nothing is limited (end of section 6).
* `ShownIsOwned`, `OfflineIsFinal`, `ClaimsSettle`: the name on the screen is the one
  the relay gives to this connection, going offline is final, and a claim ends,
  unless a reclaim closed the connection it was waiting for.

**Bounds.** `MaxTime` stops the clock, `MaxJoinRetries` bounds the join retries armed at
once, `CreationInTime` allows a new session only if the clock can reach its
expiry (so `SessionsEnd` is not missed for lack of time), `MaxGeneration` bounds
the calls on the transport; `MaxConnections`, `MaxFaults`, `MaxMessages`, `MaxClients`,
`MaxCalls`, `MaxEvents`, `MaxSalts`, `MaxGuesses`, `MaxBoxes` bound what their comments say.
One fault between two clients is one crash, break, refusal, timeout or ending at any
point, which with two connections each is enough for a reconnect to meet what the first
connection left behind; two messages are the least that can change places. Two calls in
flight, on one chat or on two, are the least that interleave, and each of the
hazards listed at the hub, the vault and the mailbox needs two. The code's 4 attempts
to connect are 2 here (a pause between them), its 5 wrong PINs 2. Four sockets are the two of a session, a third that finds
it full and a fourth that is turned away at the cap; three are enough for the
handle run (owner, caller, rival). Two ids under a cap of one session let
an id come back after another one lived, and make `SERVER_BUSY` happen. The times of
`relay_sessions` keep the order the code's have (retry < grace < lifetime; its clock
lasts for a whole lifetime after a second session began).

**Symmetry and view.** Sockets, session ids and names are interchangeable in the code, and
the safety runs use `SYMMETRY`; the liveness runs do not. The safety runs of the relay also
take a `VIEW` without `out`: no action or invariant reads it, and TLC evaluates the action
properties, which do, on every step it takes, also on steps to a state it has seen.

**Deadlock** is checked in `vault` only: with the clock at its bound and every
socket closed the modelled relay has nothing left to do, a transport or a mailbox may
be left alone, and two clients may both have left.

**Fairness.** `Relay!Fairness`: the clock advances, a due timer fires, the sweeper's
interval comes round, and a closing socket's close event is delivered (`ws`
times the closing handshake out itself). That is the event loop of Node and
nothing else: no client is assumed to act, none to disconnect. In
`Transport` only timeouts are fair; no network event is. In `RelayClient` what has
arrived is delivered, crypto operations end, and a pending connect or request goes on;
owners, failures, the end of a session and timeouts are not fair. In `ChatHub` and
`Mailbox` the steps of a pending call are fair, failures among them, since each has a
timer that ends it; users, the network and the relay's answers are not.

## 4. What is proved

For every value of the constants that the assumptions allow (any sets of sockets,
ids, names, chats and PINs, infinite ones among them where no assumption says
finite; any limits, caps, times and bounds of the models):

| Module | Theorem | States |
| --- | --- | --- |
| `RelayProofs` | `TypeCorrect` | `Spec => []TypeOK` |
| | `NobodySitsTwice` | `Spec => []OneSeat` |
| | `HandleTablesStayInStep` | `Spec => []HandleTablesAgree` |
| | `InboundCountIsHonest` | `Spec => []InboundAreLive` |
| | `ClaimsStay` | `Spec => ClaimsAreNotStolen` |
| | `OwnersStayConnected` | `Spec => []OwnersConnected` |
| | `EmptySessionsAreDoomed` | `Spec => []EmptyIffDoomed` |
| | `NoThirdSeat` | `Spec => []TwoSeats` |
| | `CapsHold` | `Spec => []WithinCaps` |
| | `RelayImplementsLifecycle` | `Spec => ImplementsLifecycle` |
| | `FullMeansFull` | `Spec => FullIsHonest` |
| | `NothingIsServedLate` | `Spec => ServedInTime` |
| | `ClientsAreToldTheTruth` | `ViewSpec => []ToldTheTruth` |
| `RequestProofs` | `ActionsAreLimited` | `Spec => []AtMostTwiceTheLimit` |
| | `SessionsAreLimited` | `Spec => []SessionsPerAddress` |
| | `SweepDecidesNothing` | `Spec => SweepIsInvisible` |
| | `LinksLead` | `DoorSpec => []LinksLeadHome` |
| | `NothingIsMisread` | `DoorSpec => []AppsAreUnderstood` |
| | `DoorKeepsTheLimits` | `DoorSpec => Spec` |
| `TransportProofs` | `NothingLeaks` | `Spec => []NoLeakedSocket` |
| | `SilentOnceClosed` | `Spec => QuietAfterClose` |
| `RelayClientProofs` | `LiveClientsAreHeard` | `Spec => []LiveIsHeard` |
| | `BelieversAreSeated` | `Spec => []BelievesWhatIsSo` |
| | `ChatsAreShownInOrder` | `Spec => InOrder` |
| `HandshakeProofs` | `FingerprintsAreTrue` | `Spec => []FingerprintsAreOfTheSecret` |
| | `SecretsAreTheSame` | `Spec => []SameSecret` |
| | `InvitationsAreForFreeSeats` | `Spec => []OffersAFreeSeat` |
| `ChatHubProofs` | `SocketsHaveOwners` | `Spec => []NoOrphans` |
| | `CapHolds` | `Spec => []WithinCap` |
| | `StoreInStep` | `Spec => []StoreFollowsHub` |
| `MailboxProofs` | `TheNameShownIsOwned` | `Spec => []ShownIsOwned` |
| | `OfflineStays` | `Spec => []OfflineIsFinal` |
| `VaultProofs` | `CounterLimitsGuesses` | `Spec => []GuessesAreLimited` |
| | `ChosenPinOpens` | `Spec => []OpensWithTheChosenPin` |
| | `MessagesStayReadable` | `Spec => []Readable` |

The inductive invariants they rest on are theorems too: `SeatsCorrect`,
`BucketsCorrect`, `SeatsAreKnown`, `ChatsStandInLine`, `HandshakesAreWhole`, `KeysAreOfThePartner`,
`HubCorrect`, `MailboxCorrect`, `VaultTypeCorrect` and `FlightCorrect`.

**Assumptions** are those of the modules, and TLC evaluates them in every run:
`NullAssumption` (null values are not sockets or names), `TimeAssumption` and
`RateAssumption` (times, windows and limits are positive naturals, the kinds that
create sessions are metered), `LimitAssumption` (caps are naturals), `GenerationAssumption`,
`VaultAssumption`, `HubAssumption` and `MailboxAssumption` (bounds are naturals, null values
are nothing else; the hub's tasks are a finite set, as those of a running program are;
the leased name is one of the names), and `RequestAssumption` (generated ids have 32 hex
digits, a name is what `isHandleSlug` accepts, a page is a reserved path and no id; texts
may have any number of characters of each kind). `EndsAssumption` says that a session has two
ends, the host and its guest; only the order of messages rests on it.

**The relay.** `RelayProofs` shows that each operation of the stores keeps its
tables well typed and puts these together per handler. The other theorems take
`TypeOK` as known.

* `EmptyIffDoomed` is inductive as it stands, but only as a whole: that a
  reclaimed session has no timer left holds because cancelling through the map
  reaches every armed timer (`CancelKeepsArmed`), and that holds because
  the map knows them all. A join leaves its session occupied even when the session is
  full (`FullIsOccupied`: the pruned rest has two members).
* `OneSeat` is inductive: all ways into a session, and into a handle, ask for
  both, and `SeatOne` is the one lemma they share.
* `TwoSeats` needs the strengthening `SeatsInv`, in which participants are also
  finite sets: of an infinite set `Cardinality` says nothing. `WithinCaps` needs the
  same of the sessions and of the counted sockets (`LiveInv`, `ConnectionInv`), and
  `EndCounts`: the error and the close of one socket are counted once.
* `HandleTablesAgree` and `InboundAreLive` are proved together, as `HandlesInv`:
  a session that ends leaves the right count because `sessionToHandle` agrees
  with the claims, and a ring keeps the indexes in step because no claim counts
  a session that does not exist yet. `OwnersConnected` follows with it: when a
  socket ends, its claim goes because `byHandle` leads back to that socket.
* The refinement: each way of seating, leaving or ending is shown to be the step of
  `SessionLifecycle` it should be (`TryJoinIsEnter`, `HandleLeaveIsLeave`,
  `GraceTimerIsGraceEnds`, …), every other action a stutter. It needs `SeatsInv` (the
  occupancy is a number), and `EmptyIffDoomed`: that the timer which fires is the one the map
  holds, of a session that stands empty, is what makes its firing the end of a grace.
* `FullIsHonest` and `ServedInTime` are about single steps from a state where `TypeOK`
  and, for the first, `SeatsInv` hold.
  `ToldTheTruth` is inductive once told about steps: whoever sits after a step was
  there before, in a session as full as now, and hears nothing new, or hears what the
  session has become (`RightlyTold`). A prune followed by a seat is the hard case: the
  number stays and the frame is the right one all the same.

**Rate limits.** `BucketInv` says what one bucket promises of every window: a bucket
that has run out (`Closed`) may open at once, so less than the limit got through in
the window before; an open one (`Opened`) counts what it let through since it opened
and adds to it less than a limit in the window before that. The bucket of new sessions follows by the same lemmas over two
kinds. `SweepIsInvisible` needs no invariant but the types: a bucket that has run out
and none at all give the same verdict.

**Links and frames.** `LinksLeadHome` and `AppsAreUnderstood` speak of what has happened so far;
they hold because every visit and every frame of an app is right by itself (`VisitsLeadHome`,
`Understood`). An id of 32 digits is no name (`IdIs`), so a reader that tries a name first does not
take one for the other; a word alone in a path is read the same by every reader
(`AloneIsRead`). `TextsFit`: a character that a composer counts is at most three bytes once control
characters are gone, so the longest text is 12,000 bytes, 12,053 with its envelope and seal, and
its base64 fits the 24,000 the relay accepts. `DoorKeepsTheLimits` carries the theorems about the
limits over to requests that come in through the parser.

**Transport.** `NoLeakedSocket` is strengthened by what an attempt leaves behind: none
is of a later generation (`NothingAhead`), the promise of the current attempt outlives its
connecting (`PendingWhileConnecting`: otherwise an open event would open a socket that
nobody stores), and a closed transport has no attempt of its generation
(`ClosedHasNoSocket`).

**Relay client.** `SeatInv` says how a client and the relay know of one another: a client that takes
itself for a participant sits in its session, or has news on its way (of the end of its
session or of its connection), or a handler was overtaken by a reset, and it has a key pair
once it has made its request (`SeatedAs`). `SESSION_NOT_FOUND` and an `ERROR`
`SESSION_EXPIRED` leave the connection in no table of the relay, and one of them is on its way at most
(`RefusalsOK`): the first leaves the status as it is, and the request fails behind it. That what is
on its way is told in time holds because the relay writes only to connections it has
not seen end, writes a close exactly when one does, and writes nothing but the close after
`SESSION_EXPIRED` (`LineOK`). Every operation of the relay keeps a connection's
line and its seat together (`Served`); most steps of a client make it believe no more than before
(`Calm`), and a task of the lock does so but for `ready`, which a reset in between
turns into `raced` (`TaskStep`). Nothing in it counts clients, connections or faults, and
it needs no assumption about the constants.

**Handshake.** `FingerprintsAreOfTheSecret` is about single clients, but its invariant is not: `HandInv`
adds to `SeatInv` that, until a reset overtakes its handler, a client holds the keys
of one handshake, and at most as far as the task of its lock has come (`HandshakeOK`,
`TaskOK`: an exported key is of the pair, a derived secret and each fingerprint
is of that pair and the one peer key it took). That this is so when the answer to a request arrives and
makes a new pair needs the relay: until that answer nothing of a handshake has
begun (`EarlyOK`), since the relay sends a connection without a seat no key and no partner,
and a retried join, the only thing that happens to it meanwhile, leaves it with a seat or
with `SESSION_NOT_FOUND` (`Heeds`; every operation of the relay heeds it). The steps of a client
either leave its keys alone (`Gentle`) or are those of a task (`Between`, `TaskStep`). The providers
come in by three lemmas: what either writes is the same text (`Exported`), either reads
what any of them wrote (`Imported`), and both derive one secret from the pair and that key
(`Derived`); by `SpkiOnce` no two pairs write the same.

`SameSecret` is about both ends, and so is `PairInv`, which adds to `HandInv` whose keys a client
goes by. The keys it goes by (`Trusted`) are the one it has taken, the one a handler is
importing or deriving from, and those waiting for the lock. Those on their way count too, up to
the last `PARTNER_LEFT` among the frames, which will make the client forget (`Agrees`). A
client that sits alone goes by no key; one with somebody opposite goes by theirs (`Opposite`). Seats of
connections that have ended may still be there, so this is said only of those who are `Alive`; and
that the sender of a key is the only one opposite its receiver needs that nobody else sits
there (`AtMostTwo`). The steps of the relay are of two kinds: nobody takes a seat and whoever is left
behind hears of it (`Quiet`), or one connection takes a seat next to one other at most
(`Seated`), whose owner, by `EarlyOK` of `HandInv`, goes by no key yet. The one step that is
neither is the sending of a key, which by `TaskOK` is of the sender's pair (`KeyPairs`). A
step of a client keeps its pair and takes up no key (`Steady`, `Loyal`), or takes up the key it
hears (`Hearing`). What is excepted is where each part fails: a handler overtaken by a reset may
send or take a key of an older pair (`raced`), and a participant removed in silence is one whose
leaving no `PARTNER_LEFT` announces (`pruned`).

`OffersAFreeSeat` says the converse, that two who have met know it, so `PairInv` also
says what will be so once a client has heard what is on its way (`Expecting`). The
form is the same each time (`Stands`): a frame is on its way that brings it and none
behind it ends it, or nothing that ends it is on its way and it is so already. In this sense a
client with somebody opposite shows a partner (`Greeted`) and sends its key (`Owes`), one that sits
alone does not send, and whoever sits opposite a client that has sent its key has taken it (`Keyed`,
`Informed`). The last is lost when the relay refuses a key, which is not sent again
(`refused`). Two parts are about one client. `PARTNER_JOINED` is heard before the partner's
key (`Prompt`): heard after it, it would set back to "handshaking" a client that is ready. And
a client that is "handshaking" with the partner's key is one whose task is exporting its own
(`Diligent`), so with an empty lock it has not taken any. Two who have heard everything and sit
opposite each other have then both sent, so both have taken, so neither is "handshaking"; what
offers the link in another state is that no partner is shown, and it is. Which steps
preserve this is said of a task of the lock by `MovesOn`: it goes on or gives way to the
next (`Turns`), loses no key it carries (`Carried`), and ends its duty to send by sending
(`Dutiful`). The relay's steps append to a line (`Alike`, `Parted`) what leaves each part as
it was, or what its end or beginning needs. TLC checked the part `PairInv` adds, `PairsOK`, on the
instance of `two_clients` before it was proved.

`InOrder` follows from `OrderInv`, which numbers the messages and says where each of them is. One
that was sent is shown, queued for a key, in the hands of the task that runs, with a task that waits,
or on its way, and whatever stands further down that line has a higher number; a message being
sealed has none yet. `Chain` and
`Behind` say this of the first four places, for one end, `Passes` of the rest, for both. A step that
shows a message takes it from that line, so its number is above that of the one shown before
and `displays` counts it. What makes the
line hard to keep is that messages go back in it: a flush takes the whole queue into its task,
and puts what it cannot decrypt into the queue again. That this overtakes nothing rests on
`Stage`: while messages are queued there is no secret, or the task at the head is the one
that has just set it and will flush them before the next task runs; a task that decrypts has emptied the
queue. A step of a client brings it no message (`Keeps`), or takes the one at the head of its line
(`ChatHeardOrdered`); a step of the relay puts none in (`Mutes`) but the one sent, which goes to
the other end only. Here it matters that there are two ends (`EndsAssumption`). The exceptions are
where `Stage` fails: a reset, or a socket that no longer sends, lets the handler that set the
secret fail and leave its queue behind. TLC checked `OrderInv` on the instance of `two_clients`, and on
one with two faults as far as it got.

**Chat hub.** `HubOK` says of the tables that the client of a chat is of that chat
(`HeldOK`), that the entry in `opening` is a call which has not ended (`OpeningOK`),
that a call which opens a chat is the only one to do so (`CallsOK`), and that a client which can still come to
a socket is held, was disconnected between two attempts, or is being rung
(`ClientsOK`). The last is what `NoOrphans` needs and what a failure, a timeout or a
leave could break; it rests on the others because a second opener would replace a client
whose call still runs. `CapOK` counts by the same tables. `RoomOK` belongs to the model:
a waiting call will find a client left within `MaxClients`. Most steps are
those of one client (`HubAfterClientStep`).

**Mailbox.** `ToldInv` relates four tables: what the relay holds, what is on its way to
the device, what the device was last told and by which connection. It holds of an open
connection only, and rests on `BoxInv` (one connection at most is alive, and a new one
has brought nothing) and `UpInv` (names are never given up over a connection in use, they
go with it). `CallInv` and `OfflineInv` say that a call which outlives its connection, or
the user's going offline, changes nothing.

**Vault.** `FlightInv` says what a call in flight carries. On it rest three independent
arguments: `GuessInv` (the wrong PINs typed are those counted and those whose call has not
ended, until a pause begins; during a pause no PIN is tried), `ChosenInv` (the wrapping in memory opens with the PIN chosen last, unless
an unlock was overtaken) and `OneKeyInv` (until a collision one key is in use, by the
wrapping, the messages, those being sealed and the unlocks in flight).

**Checked by TLC only.**

* The liveness properties (`SessionsEnd`, `NamesComeFree`, `ConnectSettles`, `CallsEnd`,
  `ClaimsSettle`, `HandshakeCompletes`): they rest on fairness, so on `ENABLED`, which
  the provers do not reason about.
* What the three runs of section 6 violate.

## 5. What is not modelled

* **Static pages** (`TermsPage`, `PrivacyPage`, `MarketingPage`, `GuidePage`), styles, JSX and
  device settings: they keep no state that anything else reads. They are a large part
  of the repository's lines.
* **Primitives of cryptography**: `Crypto` is symbolic, and says what the conversions
  around them do.
* **Shutdown of the relay**, CORS and headers: all its state ends with the process.
* **Several tabs** of one browser over one `localStorage`; the phone's `SecureStore` copy of
  the wrapped key, which no screen reads.
* **Composition of all parts**: `RelayClient` runs over an abstraction of `Relay`, `ChatHub`
  over one of `RelayClient`. That `RelaySession` allows what one session of `Relay` does is
  argued in its comments and by the lines both are mapped to; it is not checked.

## 6. What the code does differently from its documentation

* **A ghost takes a seat** (`relay_ghost`). A join that finds its session full is
  tried again 40 ms later. The retry asks whether the socket sits somewhere or
  owns a name, not whether it is still connected. If it closed in between, its
  close event has come and gone, and the retry seats it for good; if the
  session stood empty, its grace timer is cancelled as well. `sessions.md:21`
  has empty sessions destroyed after the grace period, and `store.ts:5` has
  sessions exist only while participants are connected: this one lives on to
  its lifetime, and `SessionsEnd` holds thanks to the sweeper alone.
* **A partner is dropped in silence** (`relay_silent_prune`). A join prunes
  participants whose sockets are not open without telling the one who stays;
  their close event later finds no seat, so `PARTNER_LEFT` is never sent
  (`packet-format.md:34`). The one who stays is told `PARTNER_JOINED` of the
  newcomer, so `ToldTheTruth` holds; that a second partner came is what it misses.
* **A chat that was left comes back** (`chat_left`). `connect()` sleeps between its
  attempts and nothing ends the loop (`relay-client.ts:154`). If the chat is left in
  such a pause, the next attempt connects, the call that waited for it creates, joins
  or rings its session, and the client, which the hub no longer holds, keeps a connection
  and a seat; its status events bring the chat back to the screen.
  `user-guide.md:80`: "Leaving ends your side."

What the exceptions in the properties say about the code, besides: after a
silent prune the staying end keeps `peerPublicKeyReceived` and never sends its key to
the newcomer, who stays at "handshaking"; a `PUBLIC_KEY` refused by the rate limit is
not sent again; a handshake that fails after it has set the secret does not flush the messages
queued for it (`relay-client.ts:580`), which a later key brings up after newer ones; a host that reconnects while its lost connection still holds a seat is told
`SESSION_FULL`; a chat left while its socket is being opened leaves its callers, and the
web's `resumeInFlight`, pending for good; a load of the page forgets the counter of wrong PINs and its pause, which
are fields in memory (`vault.ts:134`) while the wrapped key is in `localStorage`, so any number of wrong
PINs can be tried without a pause, where `vault.ts:9` says "the UI also rate-limits PIN
attempts"; an unlock overtaken by a change of PIN takes
the change back; a reclaim that meets a connecting mailbox leaves the claim, and the
screen's "busy", pending.

Two notes that are no findings: the inbound cap counts per *claim*, so
unclaiming and claiming again starts from zero while older rung sessions live
on; and `Transport.close()` leaves the promise of a pending `connect()`
unsettled for ever (`ConnectSettles` says what does hold).

## 7. Plan

1. The refinement of `RelaySession` by `Relay` restricted to one session and two clients,
   as a run in place of `relay_silent_prune`.
2. The inbound cap over several claims of one name, with a history variable.
3. Larger instances of `two_clients` (two faults, both ends writing) as time allows.
4. Several tabs over one `localStorage`.

Every invariant and every safety property of a passing run is a theorem; of the plan's proofs
none is left.
