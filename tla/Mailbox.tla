------------------------------ MODULE Mailbox ------------------------------
(***************************************************************************)
(* The mailbox of a lasting name: ChatHub's claims (claimHandle to         *)
(* closeMailbox in packages/sdk/src/chat-hub.ts), the control that makes   *)
(* them and the lease keys it stores (apps/web and apps/mobile), and the   *)
(* relay's side of a claim (handlers/messages.ts, handle-registry.ts).     *)
(*                                                                         *)
(* A claim is a CALL: it waits for a connection, then for the signature of *)
(* its proof, then for the relay's answer; the screen, a second claim, the *)
(* reclaim after a resume, a ping and the end of the connection all act in *)
(* between.  A box is one transport of the hub with the two FIFO channels  *)
(* of its connection; the vault is taken to be unlocked (see Vault).       *)
(***************************************************************************)
EXTENDS Naturals, Sequences, FiniteSets

CONSTANTS NAMES, ALLOWED,   \* names; those of the allow list
          LEASED,           \* the name reserved at first, with lease key 1
          KEYS,             \* bound: lease keys, named by numbers from 1
          NoName, Rival,    \* no name; the connection of somebody else
          MaxBoxes,         \* bound: transports the hub creates
          MaxCalls,         \* bound: claims and reclaims
          MaxEvents         \* bound: failures, refusals, rivals, pastes, new leases

ASSUME MailboxAssumption ==
  /\ ALLOWED \subseteq NAMES /\ LEASED \in NAMES
  /\ 1 \in KEYS /\ KEYS \subseteq Nat \ {0} /\ NoName \notin NAMES
  /\ {MaxBoxes, MaxCalls, MaxEvents} \subseteq Nat /\ Rival \notin Nat

VARIABLES desired, claimed,     \* ChatHub.desiredHandle, claimedHandle
          inFlight, pending,    \* claimInFlight; pendingClaim, as its call
          mailbox,              \* the box in use, 0 if none
          call,                 \* the calls by number
          phase, up, down,      \* of each box
          atRelay, owner,       \* the relay: its connections and the names' owners
          registry, issuedFor,  \* the relay's file of leases; the name of each key
          lease, preferred,     \* the device: stored keys, remembered name
          busy,                 \* the control waits for its claim
          made, events,         \* count boxes and events
          grantedOn,            \* history: the box that brought "claimed"
          offline               \* history: gone offline and nothing asked since

hub     == <<desired, claimed, inFlight, pending, mailbox, call>>
wire    == <<phase, up, down>>
leases  == <<registry, issuedFor>>
relay   == <<atRelay, owner, leases>>
device  == <<lease, preferred, busy>>
bounds  == <<made, events>>
history == <<grantedOn, offline>>
vars    == <<hub, wire, relay, device, bounds, history>>

Boxes   == 1..MaxBoxes
Calls   == 1..MaxCalls

-----------------------------------------------------------------------------
(* The lease keys, symbolic: a key pair is its number, a signature is only *)
(* made with the private half.                                             *)

ImportLeasePrivateKey(pkcs8) == [private |-> pkcs8]
ExportLeasePublicKey(key)    == [public |-> key.private]
PublicKey(k) == ExportLeasePublicKey(ImportLeasePrivateKey(k))
NoKey        == PublicKey(0)

SignHandleClaim(privateKey, message) == [message |-> message, by |-> PublicKey(privateKey)]

\* A lease as a device stores it.
NoLease == [privateKey |-> 0, publicKey |-> NoKey]

\* What the operator prints for key k, and what a user pastes of it: the
\* lines, the same fields as JSON, or the private key alone.
Block(k) == [handle |-> issuedFor[k], publicKey |-> PublicKey(k), privateKey |-> k]
Pastes   == {[text |-> form, of |-> Block(k)] :
               form \in {"fields", "key"}, k \in {k \in KEYS : issuedFor[k] # NoName}}
NoPaste  == [text |-> "none"]

ParseHandleLeasePaste(paste) ==
  IF paste.text = "fields" THEN paste.of
  ELSE [handle |-> NoName, publicKey |-> NoKey, privateKey |-> paste.of.privateKey]

\* createHandleProof(): what it signs for name n, and what it stores again, a
\* lease whose public half was not pasted with it.
NoProof == [publicKey |-> NoKey, signature |-> SignHandleClaim(0, NoName)]
WithPublicKey(l) ==
  IF l.publicKey # NoKey THEN l ELSE [l EXCEPT !.publicKey = PublicKey(l.privateKey)]
HandleProof(n, l) ==
  IF l = NoLease THEN NoProof
  ELSE [publicKey |-> WithPublicKey(l).publicKey, signature |-> SignHandleClaim(l.privateKey, n)]

\* The relay's file: an entry is a public key and an expiry.
Free         == [publicKey |-> NoKey, expired |-> FALSE]
Reserved(k)  == [publicKey |-> PublicKey(k), expired |-> FALSE]

VerifyHandleLeaseProof(entry, n, proof) ==
  /\ ~entry.expired
  /\ proof.publicKey = entry.publicKey
  /\ proof.signature = [message |-> n, by |-> entry.publicKey]

-----------------------------------------------------------------------------
NoCall  == [kind |-> "none", name |-> NoName, pc |-> "none", on |-> 0, lease |-> NoLease]

Init ==
  /\ desired = NoName /\ claimed = NoName /\ inFlight = 0 /\ pending = 0 /\ mailbox = 0
  /\ call = [c \in Calls |-> NoCall]
  /\ phase = [b \in Boxes |-> "none"]
  /\ up = [b \in Boxes |-> <<>>] /\ down = [b \in Boxes |-> <<>>]
  /\ atRelay = {} /\ owner = [n \in NAMES |-> 0]
  /\ registry = [n \in NAMES |-> IF n = LEASED THEN Reserved(1) ELSE Free]
  /\ issuedFor = [k \in KEYS |-> IF k = 1 THEN LEASED ELSE NoName]
  /\ lease = [n \in NAMES |-> NoLease] /\ preferred = NoName /\ busy = FALSE
  /\ made = 0 /\ events = 0
  /\ grantedOn = 0 /\ offline = TRUE

Active(c) == call[c].pc \in {"connect", "proof", "wait"}
Fresh     == {c \in Calls : call[c].pc = "none"}
NextCall  == CHOOSE c \in Fresh : TRUE

Happens == events < MaxEvents /\ events' = events + 1

-----------------------------------------------------------------------------
\* The hub's connection.

\* closeMailbox(): the transport's events are detached.  A connect() still
\* pending on it never settles.
Abandoned(calls) ==
  [c \in Calls |-> IF calls[c].pc = "connect" /\ calls[c].on = mailbox
                   THEN [calls[c] EXCEPT !.pc = "hung"] ELSE calls[c]]

\* ensureMailbox() and what follows it, for call c: the mailbox that is open
\* is used, any other is closed and a new one connects.  A broken one may
\* still look open.
Begin(c, kind, n) ==
  LET new == [kind |-> kind, name |-> n, pc |-> "proof", on |-> mailbox, lease |-> lease'[n]]
  IN  \/ /\ mailbox # 0 /\ phase[mailbox] \in {"open", "broken"}
         /\ call' = [call EXCEPT ![c] = new]
         /\ UNCHANGED <<mailbox, made, phase>>
      \/ /\ mailbox # 0 => phase[mailbox] # "open"
         /\ made < MaxBoxes
         /\ made' = made + 1 /\ mailbox' = made + 1
         /\ call' = [Abandoned(call) EXCEPT ![c] =
                       [new EXCEPT !.pc = "connect", !.on = made + 1]]
         /\ phase' = [b \in Boxes |-> IF b = made + 1 THEN "connecting"
                                      ELSE IF b = mailbox THEN "closed" ELSE phase[b]]

CloseMailbox(calls) ==
  /\ mailbox' = 0
  /\ phase' = [b \in Boxes |-> IF b = mailbox THEN "closed" ELSE phase[b]]
  /\ call' = Abandoned(calls)

-----------------------------------------------------------------------------
\* The end of a call: claimHandle's catch and finally, and its callers, the
\* screen among them.

Fulfilled(c, n) ==
  /\ call' = [call EXCEPT ![c].pc = "done"]
  /\ IF call[c].kind = "claim"
     THEN inFlight' = 0 /\ busy' = FALSE /\ preferred' = n
     ELSE UNCHANGED <<inFlight, busy, preferred>>
  /\ UNCHANGED desired

Rejected(c) ==
  /\ call' = [call EXCEPT ![c].pc = "done"]
  /\ IF call[c].kind = "claim"
     THEN /\ inFlight' = 0 /\ busy' = FALSE
          /\ desired' = IF desired = call[c].name /\ claimed # call[c].name
                        THEN NoName ELSE desired
     ELSE UNCHANGED <<inFlight, busy, desired>>

-----------------------------------------------------------------------------
\* The screen.

\* ChatHub.claimHandle(n).  A claim in flight is returned as it is, whatever
\* its name.
Claim(n) ==
  /\ Fresh # {}
  /\ busy' = TRUE
  /\ desired' = n
  /\ offline' = FALSE
  /\ IF inFlight # 0
     THEN UNCHANGED <<inFlight, call, mailbox, made, phase>>
     ELSE inFlight' = NextCall /\ Begin(NextCall, "claim", n)

\* saveHandleLease(): the lease of a name, which is remembered as well.
SaveHandleLease(n, l) == lease' = [lease EXCEPT ![n] = l] /\ preferred' = n

\* A pasted lease is stored under the name it is for, which need not be the
\* one typed.
SaveHandleLeaseFromPaste(n, paste) ==
  LET parsed == ParseHandleLeasePaste(paste) IN
  SaveHandleLease(IF parsed.handle # NoName THEN parsed.handle ELSE n,
                  [privateKey |-> parsed.privateKey, publicKey |-> parsed.publicKey])

\* "Go available" as name n: a pasted key is stored, without one the name has
\* to be on the allow list or have a key here.  Then the name typed is
\* claimed, unless the pad of a locked vault is cancelled.
HandleSubmit(n, paste) ==
  /\ claimed = NoName /\ ~busy
  /\ IF paste # NoPaste
     THEN SaveHandleLeaseFromPaste(n, paste) /\ Happens
     ELSE (n \in ALLOWED \/ lease[n] # NoLease) /\ UNCHANGED <<lease, preferred, events>>
  /\ \/ Claim(n)
     \/ paste # NoPaste
        /\ UNCHANGED <<desired, inFlight, call, mailbox, busy, made, phase, offline>>
  /\ UNCHANGED <<claimed, pending, up, down, relay, grantedOn>>

\* "Use a different name": the name is forgotten, its key stays.
ForgetName ==
  /\ claimed = NoName /\ preferred # NoName
  /\ preferred' = NoName
  /\ UNCHANGED <<hub, wire, relay, lease, busy, bounds, history>>

\* The control is left and shown again: its "busy" is lost.
Remount ==
  /\ busy /\ busy' = FALSE
  /\ UNCHANGED <<hub, wire, relay, lease, preferred, bounds, history>>

\* "Go offline": unclaimHandle().
\* Mutant of GoOffline: the wish for the name survives.
GoOfflineKeepsTheWish ==
  /\ claimed # NoName /\ ~busy
  /\ claimed' = NoName
  /\ up' = IF mailbox # 0 /\ phase[mailbox] = "open"
           THEN [up EXCEPT ![mailbox] = Append(@, [type |-> "unclaim"])] ELSE up
  /\ CloseMailbox(call)
  /\ offline' = TRUE
  /\ UNCHANGED <<desired, inFlight, pending, down, relay, device, bounds, grantedOn>>

GoOffline ==
  /\ claimed # NoName /\ ~busy
  /\ desired' = NoName /\ claimed' = NoName
  /\ up' = IF mailbox # 0 /\ phase[mailbox] = "open"
           THEN [up EXCEPT ![mailbox] = Append(@, [type |-> "unclaim"])] ELSE up
  /\ CloseMailbox(call)
  /\ offline' = TRUE
  /\ UNCHANGED <<inFlight, pending, down, relay, device, bounds, grantedOn>>

\* reconnectAll() when the page or the app comes back: the name is claimed
\* again, beside any claim in flight.
Reclaim ==
  /\ desired # NoName /\ Fresh # {}
  /\ UNCHANGED device
  /\ Begin(NextCall, "reclaim", desired)
  /\ UNCHANGED <<desired, claimed, inFlight, pending, up, down, relay, events, history>>

-----------------------------------------------------------------------------
\* The steps of a call.

Connects(c) ==
  /\ call[c].pc = "connect"
  /\ phase' = [phase EXCEPT ![call[c].on] = "open"]
  /\ atRelay' = atRelay \union {call[c].on}
  /\ call' = [call EXCEPT ![c].pc = "proof", ![c].lease = lease[call[c].name]]
  /\ UNCHANGED <<desired, claimed, inFlight, pending, mailbox, up, down,
                 owner, leases, device, bounds, history>>

\* The socket closed before it opened, and the dead box stays in place; or its
\* error or the transport's own 45 seconds came first, and it still reports its
\* close.
ConnectFails(c) ==
  /\ call[c].pc = "connect"
  /\ \E end \in {"closed", "failed"} : phase' = [phase EXCEPT ![call[c].on] = end]
  /\ Rejected(c)
  /\ UNCHANGED <<claimed, pending, mailbox, up, down, relay, lease, preferred, bounds, history>>

\* createHandleProof() puts back the lease it read before the signature.
StoreWithPublicKey(c) ==
  LET read == call[c].lease IN
  IF read # WithPublicKey(read) /\ read # NoLease
  THEN SaveHandleLease(call[c].name, WithPublicKey(read))
  ELSE UNCHANGED <<lease, preferred>>

\* The proof is signed and the frame sent; the call takes over pendingClaim.
Sends(c) ==
  /\ call[c].pc = "proof" /\ phase[call[c].on] \in {"open", "broken"}
  /\ StoreWithPublicKey(c)
  /\ pending' = c
  /\ up' = IF phase[call[c].on] = "open"
           THEN [up EXCEPT ![call[c].on] =
                  Append(@, [type |-> "claim", name |-> call[c].name,
                             proof |-> HandleProof(call[c].name, call[c].lease)])]
           ELSE up
  /\ call' = [call EXCEPT ![c].pc = "wait"]
  /\ UNCHANGED <<desired, claimed, inFlight, mailbox, phase, down, relay, busy, bounds, history>>

\* send() throws when the socket has gone: pendingClaim is left behind.
SendThrows(c) ==
  /\ call[c].pc = "proof" /\ phase[call[c].on] \in {"closed", "broken"}
  /\ StoreWithPublicKey(c)
  /\ pending' = c
  /\ Rejected(c)
  /\ UNCHANGED <<claimed, mailbox, wire, relay, bounds, history>>

\* The stored key is not one: the signature throws.
ProofFails(c) ==
  /\ call[c].pc = "proof" /\ call[c].lease # NoLease
  /\ Happens
  /\ Rejected(c)
  /\ UNCHANGED <<claimed, pending, mailbox, wire, relay, lease, preferred, made, history>>

\* The 45 seconds of a claim are over.  It gives up pendingClaim if that is
\* for the same name.
\* Mutant of TimesOut: only the call that pendingClaim is for times out.
TimesOutIfPending(c) ==
  /\ call[c].pc = "wait" /\ pending = c
  /\ pending' = 0
  /\ Rejected(c)
  /\ UNCHANGED <<claimed, mailbox, wire, relay, lease, preferred, bounds, history>>

TimesOut(c) ==
  /\ call[c].pc = "wait"
  /\ pending' = IF pending # 0 /\ call[pending].name = call[c].name THEN 0 ELSE pending
  /\ Rejected(c)
  /\ UNCHANGED <<claimed, mailbox, wire, relay, lease, preferred, bounds, history>>

\* The timer of a call whose send threw.
PendingExpires ==
  /\ pending # 0 /\ call[pending].pc = "done"
  /\ pending' = 0
  /\ UNCHANGED <<desired, claimed, inFlight, mailbox, call, wire, relay, device, bounds, history>>

-----------------------------------------------------------------------------
\* handleMailboxMessage and the ends of the connection.

Reads(b, type) ==
  /\ phase[b] = "open" /\ down[b] # <<>> /\ Head(down[b]).type = type
  /\ down' = [down EXCEPT ![b] = Tail(@)]

OnHandleClaimed(b) ==
  /\ Reads(b, "claimed")
  /\ LET n == Head(down[b]).name IN
     /\ claimed' = n
     /\ IF pending # 0 /\ Active(pending) THEN Fulfilled(pending, n)
        ELSE UNCHANGED <<desired, inFlight, call, preferred, busy>>
  /\ pending' = 0
  /\ grantedOn' = b
  /\ UNCHANGED <<mailbox, phase, up, relay, lease, bounds, offline>>

\* An ERROR is taken for the answer to the claim sent last.
OnError(b) ==
  /\ Reads(b, "error")
  /\ IF pending # 0 /\ Active(pending) THEN Rejected(pending)
     ELSE UNCHANGED <<desired, inFlight, call, busy>>
  /\ pending' = 0
  /\ UNCHANGED <<claimed, mailbox, phase, up, relay, lease, preferred, bounds, history>>

\* The connection is lost; what was under way may be lost with it.
Breaks(b) ==
  /\ phase[b] = "open"
  /\ Happens
  /\ phase' = [phase EXCEPT ![b] = "broken"]
  /\ up' \in {up, [up EXCEPT ![b] = <<>>]}
  /\ down' = [down EXCEPT ![b] = <<>>]
  /\ UNCHANGED <<hub, relay, device, made, history>>

\* The transport reports it: the name is shown as gone.
OnClose(b) ==
  /\ phase[b] \in {"broken", "failed"}
  /\ phase' = [phase EXCEPT ![b] = "closed"]
  /\ mailbox' = IF mailbox = b THEN 0 ELSE mailbox
  /\ claimed' = IF mailbox = b THEN NoName ELSE claimed
  /\ UNCHANGED <<desired, inFlight, pending, call, up, down, relay, device, bounds, history>>

\* A ping throws first: the mailbox is closed, the name is still shown.
PingFails ==
  /\ mailbox # 0 /\ phase[mailbox] = "broken"
  /\ CloseMailbox(call)
  /\ UNCHANGED <<desired, claimed, inFlight, pending, up, down, relay, device, bounds, history>>

-----------------------------------------------------------------------------
\* The relay.

Released(b) == [n \in NAMES |-> IF owner[n] = b THEN 0 ELSE owner[n]]

Handles(b, type) ==
  /\ b \in atRelay /\ up[b] # <<>> /\ Head(up[b]).type = type
  /\ up' = [up EXCEPT ![b] = Tail(@)]

Answer(b, event) ==
  down' = IF phase[b] = "open" THEN [down EXCEPT ![b] = Append(@, event)] ELSE down

\* A reserved name takes the key of its lease, any other has to be allowed.
Proven(n, proof) ==
  IF registry[n] # Free
  THEN proof # NoProof /\ VerifyHandleLeaseProof(registry[n], n, proof)
  ELSE n \in ALLOWED

\* Mutant of RelayClaim: the previous name of the connection is not released.
RelayClaimKeepsPrevious(b) ==
  /\ Handles(b, "claim")
  /\ LET n == Head(up[b]).name IN
     IF Proven(n, Head(up[b]).proof) /\ owner[n] \in {0, b}
     THEN /\ owner' = [owner EXCEPT ![n] = b]
          /\ Answer(b, [type |-> "claimed", name |-> n])
     ELSE UNCHANGED owner /\ Answer(b, [type |-> "error"])
  /\ UNCHANGED <<hub, phase, atRelay, leases, device, bounds, history>>

RelayClaim(b) ==
  /\ Handles(b, "claim")
  /\ LET n == Head(up[b]).name IN
     IF Proven(n, Head(up[b]).proof) /\ owner[n] \in {0, b}
     THEN /\ owner' = [Released(b) EXCEPT ![n] = b]
          /\ Answer(b, [type |-> "claimed", name |-> n])
     ELSE UNCHANGED owner /\ Answer(b, [type |-> "error"])
  /\ UNCHANGED <<hub, phase, atRelay, leases, device, bounds, history>>

RelayUnclaim(b) ==
  /\ Handles(b, "unclaim")
  /\ owner' = Released(b)
  /\ UNCHANGED <<hub, phase, down, atRelay, leases, device, bounds, history>>

\* The claim comes too often from its address.
RelayRefuses(b) ==
  /\ Handles(b, "claim")
  /\ Happens
  /\ Answer(b, [type |-> "error"])
  /\ UNCHANGED <<hub, phase, relay, device, made, history>>

\* The relay sees the end of a connection after the frames that preceded it.
RelaySees(b) ==
  /\ b \in atRelay /\ phase[b] \in {"broken", "closed"} /\ up[b] = <<>>
  /\ atRelay' = atRelay \ {b} /\ owner' = Released(b)
  /\ UNCHANGED <<hub, wire, leases, device, bounds, history>>

\* The relay ends the connection itself.
RelayHangsUp(b) ==
  /\ b \in atRelay /\ phase[b] = "open"
  /\ Happens
  /\ atRelay' = atRelay \ {b} /\ owner' = Released(b)
  /\ phase' = [phase EXCEPT ![b] = "broken"]
  /\ up' = [up EXCEPT ![b] = <<>>] /\ down' = [down EXCEPT ![b] = <<>>]
  /\ UNCHANGED <<hub, leases, device, made, history>>

\* Somebody else claims the name, and leaves it.
RivalClaims(n) ==
  /\ owner[n] = 0 /\ Happens
  /\ owner' = [owner EXCEPT ![n] = Rival]
  /\ UNCHANGED <<hub, wire, atRelay, leases, device, made, history>>

RivalLeaves(n) ==
  /\ owner[n] = Rival /\ owner' = [owner EXCEPT ![n] = 0]
  /\ UNCHANGED <<hub, wire, atRelay, leases, device, bounds, history>>

\* The operator issues a lease (tools/issue-handle.mjs), which takes the name
\* from the key before.
IssueHandle(n, k) ==
  /\ issuedFor[k] = NoName /\ Happens
  /\ issuedFor' = [issuedFor EXCEPT ![k] = n]
  /\ registry' = [registry EXCEPT ![n] = Reserved(k)]
  /\ UNCHANGED <<hub, wire, atRelay, owner, device, made, history>>

\* A lease runs out, or its entry is not there when the file is read: it was
\* taken out, or the file did not parse.
LeaseEnds(n) ==
  /\ registry[n] # Free /\ Happens
  /\ registry' \in {[registry EXCEPT ![n].expired = TRUE], [registry EXCEPT ![n] = Free]}
  /\ UNCHANGED <<hub, wire, atRelay, owner, issuedFor, device, made, history>>

-----------------------------------------------------------------------------
Screen ==
  \/ \E n \in NAMES, paste \in Pastes \union {NoPaste} : HandleSubmit(n, paste)
  \/ ForgetName \/ Remount \/ GoOffline \/ Reclaim

\* What ends a call sooner or later: the transport's timer, the signature
\* and the claim's own timer.
CallStep(c) ==
  \/ Connects(c) \/ ConnectFails(c)
  \/ Sends(c) \/ SendThrows(c) \/ ProofFails(c)
  \/ TimesOut(c)

Hub == \E b \in Boxes : OnHandleClaimed(b) \/ OnError(b) \/ Breaks(b) \/ OnClose(b)

RelayStep ==
  \/ \E b \in Boxes : RelayClaim(b) \/ RelayUnclaim(b) \/ RelayRefuses(b)
                         \/ RelaySees(b) \/ RelayHangsUp(b)
  \/ \E n \in NAMES : RivalClaims(n) \/ RivalLeaves(n)
  \/ \E n \in NAMES : LeaseEnds(n) \/ \E k \in KEYS : IssueHandle(n, k)

Next ==
  \/ Screen \/ Hub \/ PingFails \/ PendingExpires \/ RelayStep
  \/ \E c \in Calls : CallStep(c)

Spec == Init /\ [][Next]_vars

\* Timers and signatures end; no answer is relied on.
FairSpec == Spec /\ WF_vars(\E c \in Calls : CallStep(c))

-----------------------------------------------------------------------------
\* Once nothing is on its way, the name the device shows is the one the relay
\* gives to its connection, and a device that shows none owns none: after any
\* overlap of claims, reclaims, answers taken for each other, timeouts and
\* refusals.  The name has to have come over the connection in use: a ping
\* that fails drops the connection and leaves the old name on the screen.
ShownIsOwned ==
  (/\ mailbox \in atRelay /\ phase[mailbox] = "open"
   /\ up[mailbox] = <<>> /\ down[mailbox] = <<>>
   /\ claimed = NoName \/ grantedOn = mailbox)
  => {n \in NAMES : owner[n] = mailbox} = {claimed} \ {NoName}

\* Going offline is final until the user asks again: no call still running,
\* no resume of the page and no late answer makes the device available.
OfflineIsFinal ==
  offline => /\ claimed = NoName
             /\ \A n \in NAMES : owner[n] \in Boxes => phase[owner[n]] = "closed"

\* A claim or reclaim ends, also when another took over pendingClaim, when
\* the relay never answers and when the connection goes.  The exception is a
\* call whose connecting mailbox is closed under it, by a reclaim that finds
\* it not yet open: transport.ts settles no connect() after close(), so
\* claimInFlight, and the screen, wait for ever.
ClaimsSettle ==
  \A c \in Calls : Active(c) ~> call[c].pc \in {"done", "hung"}
=============================================================================
