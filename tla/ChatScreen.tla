----------------------------- MODULE ChatScreen -----------------------------
(***************************************************************************)
(* What the page of a chat makes of its client: ChatPage.tsx in a browser, *)
(* app/chat/[sessionId].tsx on a phone.  A page is a function of the       *)
(* store, and the events of the client fill the store (attach and patch in *)
(* the hub, wireHub in the app).                                           *)
(***************************************************************************)
EXTENDS RelayClient

OnPhone(c) == Provider[c] = "native"

Ready(c) == client[c].status = "ready"

\* The page that says the conversation is over; leaving it is Drop.
ConversationEnded(c) == client[c].dropped \/ client[c].status = "expired"

\* Until joinSession of a page that was opened by its link settles.
Joining(c) == c # Host /\ client[c].opening /\ client[c].call # "idle"

\* Mutant of ShowsShare: as on the phone, whether the partner is there or not.
ShowsShareUntilReady(c) == ~Joining(c) /\ ~Ready(c)

ShowsShare(c) ==
    /\ ~Joining(c)
    /\ \/ client[c].status \in {"awaiting_partner", "handshaking"}
       \/ ~client[c].partner /\ ~Ready(c)

\* The invitation, on a phone while the channel is not ready.
OffersLink(c) ==
    /\ ~ConversationEnded(c)
    /\ IF OnPhone(c) THEN ~Ready(c) ELSE ShowsShare(c)

\* Phones show the two fingerprints, browsers keep them in the store.
ShowsFingerprints(c) == Ready(c) /\ client[c].seen # NoPrints

\* The composer is enabled.
Composes(c) == Ready(c) /\ ~ConversationEnded(c)

-----------------------------------------------------------------------------
Fingerprint(c, pair) == GenerateFingerprint(ExportPublicKey(Provider[c], pair))

\* Where a page lets its user write, the fingerprints it holds for comparing
\* are those of the secret that will seal the message: "You" of the key pair
\* in use, "Them" of the partner's, and the same two on both platforms.  They
\* are never cleared, so those of an earlier partner stay until the new ones
\* are made; the handshake lock says when they are.
FingerprintsAreOfTheSecret == \A c \in Clients :
    Composes(c) /\ client[c].lock = <<>> /\ ~client[c].raced
    => /\ ShowsFingerprints(c)
       /\ client[c].seen[1] = Fingerprint(c, client[c].keyPair)
       /\ {client[c].seen[1], client[c].seen[2]} =
              {Fingerprint(pair[1], pair) : pair \in client[c].shared}

\* A seated page offers its link while the other seat is to be had with it:
\* two people who talk do not see the invitation, once what is on its way has
\* arrived and the keys are exchanged.  Not while a lost connection still holds
\* the other seat, nor after a refused key or a silent removal, which leave a
\* page waiting in a full session, nor on a phone whose status an ERROR has
\* changed.
OffersAFreeSeat == \A c \in Clients :
    /\ Settled(c) /\ OffersLink(c) /\ Socket(c) \in relay.seats
    /\ client[c].status = "handshaking" => \A d \in Clients : Settled(d)
    /\ ~relay.pruned /\ ~relay.refused /\ ~Raced /\ relay.seats \subseteq relay.wired
    /\ ~(OnPhone(c) /\ client[c].status = "error")
    => relay.seats = {Socket(c)}
=============================================================================
