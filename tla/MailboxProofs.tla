--------------------------- MODULE MailboxProofs ----------------------------
(***************************************************************************)
(* Proofs about the mailbox of a lasting name: what the device shows once  *)
(* all is quiet, and that going offline is final, for any number of names, *)
(* keys, connections and calls.                                            *)
(***************************************************************************)
EXTENDS Mailbox, TLAPS

----------------------------------------------------------------------------
(* Types.                                                                  *)

SomeName == NAMES \union {NoName}
Key      == [public : Nat]
Lease    == [privateKey : Nat, publicKey : Key]
Proof    == [publicKey : Key, signature : [message : SomeName, by : Key]]
Entry    == [publicKey : Key, expired : BOOLEAN]
Call     == [kind : {"none", "claim", "reclaim"}, name : SomeName,
             pc : {"none", "connect", "proof", "wait", "done", "hung"},
             on : 0..MaxBoxes, lease : Lease]
UpFrame   == [type : {"claim"}, name : NAMES, proof : Proof] \union [type : {"unclaim"}]
DownFrame == [type : {"claimed"}, name : NAMES] \union [type : {"error"}]

HubTypeOK ==
  /\ desired \in SomeName /\ claimed \in SomeName
  /\ inFlight \in {0} \union Calls /\ pending \in {0} \union Calls
  /\ mailbox \in 0..MaxBoxes
  /\ call \in [Calls -> Call]

WireTypeOK ==
  /\ phase \in [Boxes -> {"none", "connecting", "open", "broken", "failed", "closed"}]
  /\ up \in [Boxes -> Seq(UpFrame)] /\ down \in [Boxes -> Seq(DownFrame)]

RelayTypeOK ==
  /\ atRelay \in SUBSET Boxes
  /\ owner \in [NAMES -> {0, Rival} \union Boxes]
  /\ registry \in [NAMES -> Entry]
  /\ issuedFor \in [KEYS -> SomeName]

DeviceTypeOK ==
  /\ lease \in [NAMES -> Lease] /\ preferred \in SomeName /\ busy \in BOOLEAN

CountTypeOK ==
  /\ made \in 0..MaxBoxes /\ events \in Nat
  /\ grantedOn \in 0..MaxBoxes /\ offline \in BOOLEAN

TypeOK == HubTypeOK /\ WireTypeOK /\ RelayTypeOK /\ DeviceTypeOK /\ CountTypeOK

----------------------------------------------------------------------------
(* The inductive invariant.                                                *)

OwnedBy(b) == {n \in NAMES : owner[n] = b}

\* The box in use is the only one that is alive, and one nobody has connected
\* yet is unknown to the relay and has brought nothing.
BoxInv ==
  /\ mailbox <= made
  /\ \A b \in Boxes :
       /\ b > made <=> phase[b] = "none"
       /\ phase[b] \in {"connecting", "open", "broken", "failed"} => b = mailbox
       /\ phase[b] \in {"none", "connecting"} =>
            b \notin atRelay /\ up[b] = <<>> /\ down[b] = <<>> /\ grantedOn # b
  /\ \A n \in NAMES : owner[n] \in Boxes => owner[n] \in atRelay

\* One call at most waits for a connection, that of the box in use.
CallInv ==
  /\ \A c \in Calls : call[c].pc \in {"connect", "proof", "wait"} =>
                        call[c].on \in Boxes /\ call[c].name \in NAMES
  /\ \A c \in Calls : call[c].pc = "connect" =>
                        call[c].on = mailbox /\ phase[mailbox] = "connecting"
  /\ \A c, d \in Calls : call[c].pc = "connect" /\ call[d].pc = "connect" => c = d

\* Offline, nothing is wished for, shown or connected.
OfflineInv == offline => desired = NoName /\ claimed = NoName /\ mailbox = 0

\* What the device has been told, or is about to be told, of an open box is
\* what the relay holds: the last name on its way to the device counts, else
\* the name the box has brought.
Told(b, i) == down[b][i].type = "claimed"
ToldInv ==
  \A b \in Boxes : phase[b] = "open" =>
    /\ \A i \in DOMAIN down[b] :
         Told(b, i) /\ (\A j \in DOMAIN down[b] : Told(b, j) => j <= i)
         => OwnedBy(b) = {down[b][i].name}
    /\ (\A i \in DOMAIN down[b] : ~Told(b, i))
       => OwnedBy(b) = IF grantedOn = b THEN {claimed} ELSE {}

\* A name is given up only by closing its box.
UpInv == \A b \in Boxes : phase[b] = "open" => \A i \in DOMAIN up[b] : up[b][i].type = "claim"

ShownInv == ToldInv /\ UpInv

MailboxInv == TypeOK /\ BoxInv /\ CallInv /\ OfflineInv /\ ShownInv

----------------------------------------------------------------------------
(* Helpers.                                                                *)

LEMMA Bounds ==
  /\ MaxBoxes \in Nat /\ MaxCalls \in Nat /\ MaxEvents \in Nat
  /\ Boxes \subseteq Nat \ {0} /\ Calls \subseteq Nat \ {0}
  /\ Rival \notin Nat /\ NoName \notin NAMES
BY MailboxAssumption DEF Boxes, Calls

LEMMA NextCallIsFresh == ASSUME Fresh # {} PROVE NextCall \in Calls /\ call[NextCall].pc = "none"
<1>1. NextCall \in Fresh
  BY DEF NextCall
<1> QED BY <1>1 DEF Fresh

\* A frame more on a channel, and one less.
LEMMA Appended ==
  ASSUME NEW S, NEW f \in [Boxes -> Seq(S)], NEW b, NEW e \in S
  PROVE  [f EXCEPT ![b] = Append(@, e)] \in [Boxes -> Seq(S)]
<1>1. \A x \in Boxes : Append(f[x], e) \in Seq(S)
  OBVIOUS
<1> QED BY <1>1, Zenon

LEMMA Emptied ==
  ASSUME NEW S, NEW f \in [Boxes -> Seq(S)], NEW b
  PROVE  [f EXCEPT ![b] = <<>>] \in [Boxes -> Seq(S)]
<1>1. <<>> \in Seq(S)
  OBVIOUS
<1> QED BY <1>1, Zenon

LEMMA Taken ==
  ASSUME NEW S, NEW f \in [Boxes -> Seq(S)], NEW b \in Boxes, f[b] # <<>>
  PROVE  [f EXCEPT ![b] = Tail(@)] \in [Boxes -> Seq(S)]
<1>1. Tail(f[b]) \in Seq(S)
  OBVIOUS
<1> QED BY <1>1

\* One call moves on.
LEMMA CallMoves ==
  ASSUME HubTypeOK, NEW c \in Calls, NEW p \in {"none", "connect", "proof", "wait", "done", "hung"},
         call' = [call EXCEPT ![c].pc = p]
  PROVE  /\ call' \in [Calls -> Call]
         /\ \A d \in Calls : /\ call'[d].on = call[d].on /\ call'[d].name = call[d].name
                             /\ call'[d].pc = IF d = c THEN p ELSE call[d].pc
<1>1. call \in [Calls -> Call]
  BY DEF HubTypeOK
<1>2. [call[c] EXCEPT !.pc = p] \in Call
  BY <1>1 DEF Call
<1>3. call' \in [Calls -> Call]
  BY <1>1, <1>2
<1>4. ASSUME NEW d \in Calls
      PROVE  /\ call'[d].on = call[d].on /\ call'[d].name = call[d].name
             /\ call'[d].pc = IF d = c THEN p ELSE call[d].pc
  BY <1>1 DEF Call
<1> QED BY <1>3, <1>4

\* When the box is closed nobody waits for its connection any more.
LEMMA NobodyConnects ==
  ASSUME HubTypeOK, CallInv
  PROVE  /\ Abandoned(call) \in [Calls -> Call]
         /\ \A c \in Calls :
              /\ Abandoned(call)[c].on = call[c].on /\ Abandoned(call)[c].name = call[c].name
              /\ Abandoned(call)[c].pc = IF call[c].pc = "connect" THEN "hung" ELSE call[c].pc
<1>1. call \in [Calls -> Call]
  BY DEF HubTypeOK
<1>2. \A c \in Calls : [call[c] EXCEPT !.pc = "hung"] \in Call
  BY <1>1 DEF Call
<1>3. Abandoned(call) \in [Calls -> Call]
  BY <1>1, <1>2 DEF Abandoned
<1>4. ASSUME NEW c \in Calls
      PROVE  /\ Abandoned(call)[c].on = call[c].on /\ Abandoned(call)[c].name = call[c].name
             /\ Abandoned(call)[c].pc = IF call[c].pc = "connect" THEN "hung" ELSE call[c].pc
  <2>1. Abandoned(call)[c] = IF call[c].pc = "connect" THEN [call[c] EXCEPT !.pc = "hung"]
                             ELSE call[c]
    BY DEF Abandoned, CallInv
  <2> QED BY <1>1, <2>1 DEF Call
<1> QED BY <1>3, <1>4

\* Nothing the open box is about has changed.
LEMMA StillTold ==
  ASSUME ToldInv,
         \A b \in Boxes : phase'[b] = "open" =>
           /\ phase[b] = "open" /\ down'[b] = down[b]
           /\ claimed' = claimed /\ grantedOn' = grantedOn
           /\ \A n \in NAMES : owner'[n] = b <=> owner[n] = b
  PROVE  ToldInv'
<1> SUFFICES ASSUME NEW b \in Boxes, phase'[b] = "open"
             PROVE  /\ \A i \in DOMAIN down'[b] :
                         Told(b, i)' /\ (\A j \in DOMAIN down'[b] : Told(b, j)' => j <= i)
                         => OwnedBy(b)' = {down'[b][i].name}
                    /\ (\A i \in DOMAIN down'[b] : ~Told(b, i)')
                       => OwnedBy(b)' = IF grantedOn' = b THEN {claimed'} ELSE {}
  BY DEF ToldInv
<1>1. OwnedBy(b)' = OwnedBy(b)
  BY DEF OwnedBy
<1>2. /\ phase[b] = "open" /\ down'[b] = down[b]
      /\ claimed' = claimed /\ grantedOn' = grantedOn
  OBVIOUS
<1>3. \A i : Told(b, i)' <=> Told(b, i)
  BY <1>2 DEF Told
<1>4. /\ \A i \in DOMAIN down[b] :
           Told(b, i) /\ (\A j \in DOMAIN down[b] : Told(b, j) => j <= i)
           => OwnedBy(b) = {down[b][i].name}
      /\ (\A i \in DOMAIN down[b] : ~Told(b, i))
         => OwnedBy(b) = IF grantedOn = b THEN {claimed} ELSE {}
  BY <1>2 DEF ToldInv
<1>5. DOMAIN down'[b] = DOMAIN down[b]
  BY <1>2
<1>6. ASSUME NEW i \in DOMAIN down'[b], Told(b, i)',
             \A j \in DOMAIN down'[b] : Told(b, j)' => j <= i
      PROVE  OwnedBy(b)' = {down'[b][i].name}
  BY <1>1, <1>2, <1>3, <1>4, <1>5, <1>6
<1>7. ASSUME \A i \in DOMAIN down'[b] : ~Told(b, i)'
      PROVE  OwnedBy(b)' = IF grantedOn' = b THEN {claimed'} ELSE {}
  BY <1>1, <1>2, <1>3, <1>4, <1>5, <1>7
<1> QED BY <1>6, <1>7

LEMMA StillShown ==
  ASSUME ShownInv,
         \A b \in Boxes : phase'[b] = "open" =>
           /\ phase[b] = "open" /\ up'[b] = up[b] /\ down'[b] = down[b]
           /\ claimed' = claimed /\ grantedOn' = grantedOn
           /\ \A n \in NAMES : owner'[n] = b <=> owner[n] = b
  PROVE  ShownInv'
<1>1. ToldInv'
  BY StillTold DEF ShownInv
<1>2. UpInv'
  BY DEF ShownInv, UpInv
<1> QED BY <1>1, <1>2 DEF ShownInv

\* Calls that end, or go on without a connection, leave the invariant of the
\* calls alone.
LEMMA StillCalling ==
  ASSUME CallInv, UNCHANGED <<mailbox, phase>>,
         \A c \in Calls : /\ call'[c].on = call[c].on /\ call'[c].name = call[c].name
                          /\ call'[c].pc \in {call[c].pc, "done"}
  PROVE  CallInv'
BY Zenon DEF CallInv

----------------------------------------------------------------------------
(* Claims and reclaims begin.                                              *)

LEMMA BeginKeeps ==
  ASSUME MailboxInv, NEW c \in Calls, call[c].pc = "none",
         NEW kind \in {"claim", "reclaim"}, NEW n \in NAMES,
         lease' \in [NAMES -> Lease], Begin(c, kind, n),
         UNCHANGED <<up, down, atRelay, owner, grantedOn, claimed>>
  PROVE  /\ call' \in [Calls -> Call] /\ mailbox' \in 0..MaxBoxes /\ made' \in 0..MaxBoxes
         /\ phase' \in [Boxes -> {"none", "connecting", "open", "broken", "failed", "closed"}]
         /\ BoxInv' /\ CallInv' /\ ShownInv'
<1> DEFINE new == [kind |-> kind, name |-> n, pc |-> "proof", on |-> mailbox, lease |-> lease'[n]]
<1>1. HubTypeOK /\ WireTypeOK /\ BoxInv /\ CallInv /\ ShownInv /\ made \in 0..MaxBoxes
  BY DEF MailboxInv, TypeOK, CountTypeOK
<1>2. call \in [Calls -> Call] /\ mailbox \in 0..MaxBoxes
      /\ phase \in [Boxes -> {"none", "connecting", "open", "broken", "failed", "closed"}]
  BY <1>1 DEF HubTypeOK, WireTypeOK
<1>3. new \in Call /\ new.pc = "proof" /\ new.on = mailbox /\ new.name = n
  BY <1>2 DEF Call, SomeName
<1>4. \A o \in 0..MaxBoxes :
        LET next == [new EXCEPT !.pc = "connect", !.on = o]
        IN  next \in Call /\ next.pc = "connect" /\ next.on = o /\ next.name = n
  BY <1>2 DEF Call, SomeName
<1> HIDE DEF new
<1>5. CASE /\ mailbox # 0 /\ phase[mailbox] \in {"open", "broken"}
           /\ call' = [call EXCEPT ![c] = new]
           /\ UNCHANGED <<mailbox, made, phase>>
  <2>2. call' \in [Calls -> Call] /\ \A d \in Calls : call'[d] = IF d = c THEN new ELSE call[d]
    BY <1>2, <1>3, <1>5
  <2>3. mailbox \in Boxes
    BY <1>2, <1>5, Bounds DEF Boxes
  <2>4. CallInv'
    BY <1>1, <1>3, <1>5, <2>2, <2>3, Zenon DEF CallInv
  <2>5. BoxInv'
    BY <1>1, <1>5 DEF BoxInv
  <2>6. ShownInv'
    BY <1>1, <1>5, StillShown
  <2> QED BY <1>1, <1>2, <1>5, <2>2, <2>4, <2>5, <2>6
<1>6. CASE /\ mailbox # 0 => phase[mailbox] # "open"
           /\ made < MaxBoxes
           /\ made' = made + 1 /\ mailbox' = made + 1
           /\ call' = [Abandoned(call) EXCEPT ![c] = [new EXCEPT !.pc = "connect", !.on = made + 1]]
           /\ phase' = [b \in Boxes |-> IF b = made + 1 THEN "connecting"
                                        ELSE IF b = mailbox THEN "closed" ELSE phase[b]]
  <2> DEFINE next == [new EXCEPT !.pc = "connect", !.on = made + 1]
  <2>1. made + 1 \in Boxes /\ made + 1 \in 0..MaxBoxes
    BY <1>1, <1>6, Bounds DEF Boxes
  <2>2. next \in Call /\ next.pc = "connect" /\ next.on = made + 1 /\ next.name = n
    BY <1>4, <2>1
  <2> HIDE DEF next
  <2>3. /\ Abandoned(call) \in [Calls -> Call]
        /\ \A d \in Calls :
             /\ Abandoned(call)[d].on = call[d].on /\ Abandoned(call)[d].name = call[d].name
             /\ Abandoned(call)[d].pc = IF call[d].pc = "connect" THEN "hung" ELSE call[d].pc
    BY <1>1, NobodyConnects
  <2>4. call' = [Abandoned(call) EXCEPT ![c] = next]
    BY <1>6 DEF next
  <2>5. /\ call' \in [Calls -> Call] /\ call'[c] = next
        /\ \A d \in Calls : d # c => call'[d] = Abandoned(call)[d]
    BY <2>2, <2>3, <2>4
  <2>6. phase' \in [Boxes -> {"none", "connecting", "open", "broken", "failed", "closed"}]
    BY <1>2, <1>6
  <2>7. CallInv'
    <3>1. \A d \in Calls : call'[d].pc = "connect" => d = c
      BY <2>3, <2>5
    <3>2. phase'[mailbox'] = "connecting" /\ mailbox' = made + 1
      BY <1>6, <2>1
    <3>3. \A d \in Calls : call'[d].pc \in {"connect", "proof", "wait"} =>
                             call'[d].on \in Boxes /\ call'[d].name \in NAMES
      BY <1>1, <2>1, <2>2, <2>3, <2>5 DEF CallInv
    <3> QED BY <2>2, <2>5, <3>1, <3>2, <3>3 DEF CallInv
  <2>8. BoxInv'
    <3>1. \A b \in Boxes : phase[b] \in {"open", "broken", "failed", "connecting"} => b = mailbox
      BY <1>1 DEF BoxInv
    <3>2. \A b \in Boxes : phase'[b] = IF b = made + 1 THEN "connecting"
                                       ELSE IF b = mailbox THEN "closed" ELSE phase[b]
      BY <1>6
    <3>3. phase[made + 1] = "none"
      BY <1>1, <2>1 DEF BoxInv
    <3>4. mailbox' <= made'
      BY <1>1, <1>6
    <3>5. ASSUME NEW b \in Boxes
          PROVE  b > made' <=> phase'[b] = "none"
      <4>1. b \in Nat /\ made \in Nat /\ mailbox \in Nat
        BY <1>1, <1>2, Bounds
      <4>2. mailbox <= made /\ (b > made <=> phase[b] = "none")
        BY <1>1 DEF BoxInv
      <4> QED BY <1>6, <3>2, <4>1, <4>2
    <3>6. \A b \in Boxes : phase'[b] \in {"connecting", "open", "broken", "failed"} => b = mailbox'
      BY <1>6, <3>1, <3>2
    <3>7. \A b \in Boxes : phase'[b] \in {"none", "connecting"} =>
            b \notin atRelay /\ up[b] = <<>> /\ down[b] = <<>> /\ grantedOn # b
      BY <1>1, <3>2, <3>3 DEF BoxInv
    <3> QED BY <1>1, <3>4, <3>5, <3>6, <3>7 DEF BoxInv
  <2>9. ShownInv'
    <3>1. \A b \in Boxes : phase'[b] = "open" => phase[b] = "open"
      BY <1>6
    <3> QED BY <1>1, <3>1, StillShown
  <2> QED BY <1>6, <2>1, <2>5, <2>6, <2>7, <2>8, <2>9
<1> QED BY <1>5, <1>6 DEF Begin, new

LEMMA PasteType ==
  ASSUME RelayTypeOK, DeviceTypeOK, NEW n \in NAMES, NEW paste \in Pastes,
         SaveHandleLeaseFromPaste(n, paste)
  PROVE  lease' \in [NAMES -> Lease] /\ preferred' \in SomeName
<1>1. PICK form \in {"fields", "key"}, k \in KEYS : paste = [text |-> form, of |-> Block(k)]
  BY DEF Pastes
<1> DEFINE parsed == ParseHandleLeasePaste(paste)
<1>2. k \in Nat /\ PublicKey(k) \in Key /\ NoKey \in Key /\ issuedFor[k] \in SomeName
  BY MailboxAssumption DEF PublicKey, ExportLeasePublicKey, ImportLeasePrivateKey, NoKey, Key, RelayTypeOK
<1>3. parsed.handle \in SomeName /\ parsed.publicKey \in Key /\ parsed.privateKey \in Nat
  BY <1>1, <1>2 DEF ParseHandleLeasePaste, Block, SomeName
<1> HIDE DEF parsed
<1>4. [privateKey |-> parsed.privateKey, publicKey |-> parsed.publicKey] \in Lease
  BY <1>3 DEF Lease
<1> DEFINE m == IF parsed.handle # NoName THEN parsed.handle ELSE n
           l == [privateKey |-> parsed.privateKey, publicKey |-> parsed.publicKey]
<1>5. m \in NAMES
  BY <1>3 DEF SomeName
<1>6. lease' = [lease EXCEPT ![m] = l] /\ preferred' = m
  BY DEF SaveHandleLeaseFromPaste, SaveHandleLease, parsed
<1> HIDE DEF m, l
<1> QED BY <1>4, <1>5, <1>6 DEF DeviceTypeOK, SomeName, l

LEMMA ClaimKeeps ==
  ASSUME MailboxInv, NEW n \in NAMES, Claim(n),
         lease' \in [NAMES -> Lease], preferred' \in SomeName, events' \in Nat,
         UNCHANGED <<claimed, pending, up, down, relay, grantedOn>>
  PROVE  MailboxInv'
<1>1. /\ HubTypeOK /\ WireTypeOK /\ RelayTypeOK /\ DeviceTypeOK /\ CountTypeOK
      /\ BoxInv /\ CallInv /\ ShownInv /\ n \in SomeName
  BY DEF MailboxInv, TypeOK, SomeName
<1>2. busy' = TRUE /\ desired' = n /\ offline' = FALSE
      /\ atRelay' = atRelay /\ owner' = owner /\ registry' = registry /\ issuedFor' = issuedFor
  BY DEF Claim, relay, leases
<1>3. /\ call' \in [Calls -> Call] /\ mailbox' \in 0..MaxBoxes /\ made' \in 0..MaxBoxes
      /\ phase' \in [Boxes -> {"none", "connecting", "open", "broken", "failed", "closed"}]
      /\ inFlight' \in {0} \union Calls
      /\ BoxInv' /\ CallInv' /\ ShownInv'
  <2>1. CASE inFlight # 0
    <3>1. UNCHANGED <<inFlight, call, mailbox, made, phase>>
      BY <2>1 DEF Claim
    <3>2. BoxInv'
      BY <1>1, <1>2, <3>1 DEF BoxInv
    <3>3. CallInv'
      BY <1>1, <3>1 DEF CallInv
    <3>4. ShownInv'
      BY <1>1, <1>2, <3>1, StillShown
    <3> QED BY <1>1, <3>1, <3>2, <3>3, <3>4 DEF HubTypeOK, WireTypeOK, CountTypeOK
  <2>2. CASE inFlight = 0
    <3>1. NextCall \in Calls /\ call[NextCall].pc = "none" /\ inFlight' = NextCall
          /\ Begin(NextCall, "claim", n)
      BY <2>2, NextCallIsFresh DEF Claim
    <3> QED BY <1>2, <3>1, BeginKeeps
  <2> QED BY <2>1, <2>2
<1>4. HubTypeOK'
  BY <1>1, <1>2, <1>3 DEF HubTypeOK
<1>5. WireTypeOK'
  BY <1>1, <1>3 DEF WireTypeOK
<1>6. RelayTypeOK'
  BY <1>1, <1>2 DEF RelayTypeOK
<1>7. DeviceTypeOK' /\ CountTypeOK'
  BY <1>1, <1>2, <1>3 DEF DeviceTypeOK, CountTypeOK
<1> QED BY <1>2, <1>3, <1>4, <1>5, <1>6, <1>7 DEF MailboxInv, TypeOK, OfflineInv

\* Steps that leave the wires, the calls and what is shown alone.
LEMMA StillMailbox ==
  ASSUME MailboxInv, TypeOK',
         desired' \in {desired, NoName},
         UNCHANGED <<claimed, offline, mailbox, made, phase, up, down, atRelay, grantedOn>>,
         \A n \in NAMES : owner'[n] # owner[n] => owner[n] \notin Boxes /\ owner'[n] \notin Boxes,
         \A c \in Calls : /\ call'[c].on = call[c].on /\ call'[c].name = call[c].name
                          /\ call'[c].pc \in {call[c].pc, "done"}
  PROVE  MailboxInv'
<1>1. BoxInv /\ CallInv /\ OfflineInv /\ ShownInv
  BY DEF MailboxInv
<1>2. BoxInv'
  BY <1>1, Zenon DEF BoxInv
<1>3. CallInv'
  BY <1>1, StillCalling
<1>4. OfflineInv'
  BY <1>1 DEF OfflineInv
<1>5. ShownInv'
  BY <1>1, StillShown
<1> QED BY <1>2, <1>3, <1>4, <1>5 DEF MailboxInv

LEMMA HandleSubmitKeeps ==
  ASSUME MailboxInv, NEW n \in NAMES, NEW paste \in Pastes \union {NoPaste}, HandleSubmit(n, paste)
  PROVE  MailboxInv'
<1>1. TypeOK
  BY DEF MailboxInv
<1>2. lease' \in [NAMES -> Lease] /\ preferred' \in SomeName /\ events' \in Nat
  <2>1. CASE paste # NoPaste
    BY <1>1, <2>1, PasteType DEF HandleSubmit, TypeOK, CountTypeOK, Happens
  <2>2. CASE paste = NoPaste
    BY <1>1, <2>2 DEF HandleSubmit, TypeOK, DeviceTypeOK, CountTypeOK
  <2> QED BY <2>1, <2>2
<1>3. UNCHANGED <<claimed, pending, up, down, relay, grantedOn>>
  BY DEF HandleSubmit
<1>4. CASE Claim(n)
  BY <1>2, <1>3, <1>4, ClaimKeeps
<1>5. CASE UNCHANGED <<desired, inFlight, call, mailbox, busy, made, phase, offline>>
  <2>1. TypeOK'
    BY <1>1, <1>2, <1>3, <1>5
    DEF TypeOK, HubTypeOK, WireTypeOK, RelayTypeOK, DeviceTypeOK, CountTypeOK, relay, leases
  <2> QED BY <1>3, <1>5, <2>1, StillMailbox DEF relay
<1> QED BY <1>4, <1>5 DEF HandleSubmit

LEMMA ForgetKeeps == ASSUME MailboxInv, ForgetName \/ Remount PROVE MailboxInv'
<1>1. TypeOK'
  BY DEF MailboxInv, ForgetName, Remount, TypeOK, HubTypeOK, WireTypeOK, RelayTypeOK, DeviceTypeOK,
         CountTypeOK, hub, wire, relay, leases, bounds, history, SomeName
<1> QED BY <1>1, StillMailbox DEF ForgetName, Remount, hub, wire, relay, bounds, history

LEMMA ReclaimKeeps == ASSUME MailboxInv, Reclaim PROVE MailboxInv'
<1>1. /\ HubTypeOK /\ WireTypeOK /\ RelayTypeOK /\ DeviceTypeOK /\ CountTypeOK /\ OfflineInv
  BY DEF MailboxInv, TypeOK
<1>2. /\ desired \in NAMES /\ lease' \in [NAMES -> Lease]
      /\ NextCall \in Calls /\ call[NextCall].pc = "none" /\ Begin(NextCall, "reclaim", desired)
      /\ UNCHANGED <<desired, claimed, inFlight, pending, up, down, relay, device, events, grantedOn, offline>>
  BY <1>1, NextCallIsFresh DEF Reclaim, HubTypeOK, DeviceTypeOK, SomeName, device, history
<1>3. /\ call' \in [Calls -> Call] /\ mailbox' \in 0..MaxBoxes /\ made' \in 0..MaxBoxes
      /\ phase' \in [Boxes -> {"none", "connecting", "open", "broken", "failed", "closed"}]
      /\ BoxInv' /\ CallInv' /\ ShownInv'
  BY <1>2, BeginKeeps DEF relay
<1>4. HubTypeOK' /\ WireTypeOK' /\ CountTypeOK'
  BY <1>1, <1>2, <1>3 DEF HubTypeOK, WireTypeOK, CountTypeOK
<1>5. RelayTypeOK' /\ DeviceTypeOK'
  BY <1>1, <1>2 DEF RelayTypeOK, DeviceTypeOK, relay, leases, device
<1>6. OfflineInv'
  BY <1>1, <1>2, Bounds DEF OfflineInv, Reclaim
<1> QED BY <1>3, <1>4, <1>5, <1>6 DEF MailboxInv, TypeOK

LEMMA GoOfflineKeeps == ASSUME MailboxInv, GoOffline PROVE MailboxInv'
<1>1. /\ HubTypeOK /\ WireTypeOK /\ RelayTypeOK /\ DeviceTypeOK /\ CountTypeOK
      /\ BoxInv /\ CallInv /\ ShownInv
  BY DEF MailboxInv, TypeOK
<1>2. /\ desired' = NoName /\ claimed' = NoName /\ mailbox' = 0 /\ offline' = TRUE
      /\ phase' = [b \in Boxes |-> IF b = mailbox THEN "closed" ELSE phase[b]]
      /\ call' = Abandoned(call)
      /\ UNCHANGED <<inFlight, pending, down, atRelay, owner, registry, issuedFor,
                     lease, preferred, busy, made, events, grantedOn>>
      /\ up' \in {up, [up EXCEPT ![mailbox] = Append(@, [type |-> "unclaim"])]}
  BY DEF GoOffline, CloseMailbox, relay, leases, device, bounds
<1>3. /\ call' \in [Calls -> Call]
      /\ \A c \in Calls :
           /\ call'[c].on = call[c].on /\ call'[c].name = call[c].name
           /\ call'[c].pc = IF call[c].pc = "connect" THEN "hung" ELSE call[c].pc
  BY <1>1, <1>2, NobodyConnects
<1>4. up' \in [Boxes -> Seq(UpFrame)]
  <2>1. [type |-> "unclaim"] \in UpFrame
    BY DEF UpFrame
  <2>2. up \in [Boxes -> Seq(UpFrame)]
    BY <1>1 DEF WireTypeOK
  <2>3. [up EXCEPT ![mailbox] = Append(@, [type |-> "unclaim"])] \in [Boxes -> Seq(UpFrame)]
    BY <2>1, <2>2, Appended
  <2> QED BY <1>2, <2>2, <2>3
<1>5. HubTypeOK'
  BY <1>1, <1>2, <1>3, Bounds DEF HubTypeOK, SomeName
<1>6. WireTypeOK'
  BY <1>1, <1>2, <1>4 DEF WireTypeOK
<1>7. RelayTypeOK' /\ DeviceTypeOK' /\ CountTypeOK'
  BY <1>1, <1>2 DEF RelayTypeOK, DeviceTypeOK, CountTypeOK
<1>8. CallInv'
  BY <1>1, <1>3, Zenon DEF CallInv
<1>9. \A b \in Boxes : /\ phase'[b] = IF b = mailbox THEN "closed" ELSE phase[b]
                       /\ b # mailbox => up'[b] = up[b]
  BY <1>1, <1>2 DEF WireTypeOK
<1>10. BoxInv'
  <2>1. mailbox' <= made'
    BY <1>1, <1>2 DEF CountTypeOK
  <2>2. \A b \in Boxes : /\ b > made' <=> phase'[b] = "none"
                         /\ phase'[b] \in {"connecting", "open", "broken", "failed"} => b = mailbox'
    BY <1>1, <1>2, <1>9, Bounds DEF BoxInv, HubTypeOK, CountTypeOK
  <2>3. \A b \in Boxes : phase'[b] \in {"none", "connecting"} =>
            b \notin atRelay' /\ up'[b] = <<>> /\ down'[b] = <<>> /\ grantedOn' # b
    BY <1>1, <1>2, <1>9 DEF BoxInv
  <2> QED BY <1>1, <1>2, <2>1, <2>2, <2>3 DEF BoxInv
<1>11. ShownInv'
  BY <1>1, <1>2, <1>9, StillShown DEF BoxInv
<1> QED BY <1>2, <1>5, <1>6, <1>7, <1>8, <1>10, <1>11 DEF MailboxInv, TypeOK, OfflineInv

----------------------------------------------------------------------------
(* The steps of a call.                                                    *)

LEMMA RejectedType ==
  ASSUME HubTypeOK, DeviceTypeOK, NEW c \in Calls, Rejected(c)
  PROVE  /\ call' \in [Calls -> Call]
         /\ \A d \in Calls : /\ call'[d].on = call[d].on /\ call'[d].name = call[d].name
                             /\ call'[d].pc = IF d = c THEN "done" ELSE call[d].pc
         /\ inFlight' \in {0} \union Calls /\ busy' \in BOOLEAN
         /\ desired' \in {desired, NoName} /\ desired' \in SomeName
<1>1. call' = [call EXCEPT ![c].pc = "done"]
  BY DEF Rejected
<1>2. /\ inFlight' \in {0} \union Calls /\ busy' \in BOOLEAN
      /\ desired' \in {desired, NoName}
  BY DEF Rejected, HubTypeOK, DeviceTypeOK
<1>3. desired' \in SomeName
  BY <1>2 DEF HubTypeOK, SomeName
<1> HIDE DEF Rejected
<1> QED BY <1>1, <1>2, <1>3, CallMoves

LEMMA PublicKeyType == \A k \in Nat : PublicKey(k) \in Key /\ NoKey \in Key
BY DEF PublicKey, ExportLeasePublicKey, ImportLeasePrivateKey, NoKey, Key

LEMMA LeaseType ==
  \A l \in Lease : WithPublicKey(l) \in Lease /\ \A n \in SomeName : HandleProof(n, l) \in Proof
<1> SUFFICES ASSUME NEW l \in Lease, NEW n \in SomeName
             PROVE  WithPublicKey(l) \in Lease /\ HandleProof(n, l) \in Proof
  BY DEF SomeName
<1>1. l.privateKey \in Nat /\ l.publicKey \in Key /\ PublicKey(l.privateKey) \in Key
  BY PublicKeyType DEF Lease
<1>2. WithPublicKey(l) \in Lease
  BY <1>1 DEF WithPublicKey, Lease
<1>3. NoProof \in Proof
  BY PublicKeyType DEF NoProof, Proof, SignHandleClaim, SomeName
<1>4. [publicKey |-> WithPublicKey(l).publicKey, signature |-> SignHandleClaim(l.privateKey, n)] \in Proof
  BY <1>1, <1>2 DEF Proof, SignHandleClaim, Lease
<1> QED BY <1>2, <1>3, <1>4 DEF HandleProof

LEMMA StoredType ==
  ASSUME HubTypeOK, DeviceTypeOK, NEW c \in Calls, call[c].name \in NAMES, StoreWithPublicKey(c)
  PROVE  lease' \in [NAMES -> Lease] /\ preferred' \in SomeName
<1>1. call[c].lease \in Lease
  BY DEF HubTypeOK, Call
<1>2. WithPublicKey(call[c].lease) \in Lease
  BY <1>1, LeaseType
<1> QED BY <1>2 DEF StoreWithPublicKey, SaveHandleLease, DeviceTypeOK, SomeName

LEMMA ConnectsKeeps == ASSUME MailboxInv, NEW c \in Calls, Connects(c) PROVE MailboxInv'
<1> DEFINE b == mailbox
<1>1. /\ HubTypeOK /\ WireTypeOK /\ RelayTypeOK /\ DeviceTypeOK /\ CountTypeOK
      /\ BoxInv /\ CallInv /\ OfflineInv /\ ToldInv /\ UpInv
  BY DEF MailboxInv, TypeOK, ShownInv
<1>2. call[c].on = b /\ b \in Boxes /\ phase[b] = "connecting" /\ call[c].name \in NAMES
      /\ \A d \in Calls : call[d].pc = "connect" => d = c
  BY <1>1 DEF CallInv, Connects
<1>3. /\ phase' = [phase EXCEPT ![b] = "open"] /\ atRelay' = atRelay \union {b}
      /\ UNCHANGED <<desired, claimed, inFlight, pending, mailbox, up, down, owner,
                     registry, issuedFor, lease, preferred, busy, made, events, grantedOn, offline>>
  BY <1>2 DEF Connects, leases, device, bounds, history
<1>4. /\ call' \in [Calls -> Call]
      /\ \A d \in Calls : /\ call'[d].on = call[d].on /\ call'[d].name = call[d].name
                          /\ call'[d].pc = IF d = c THEN "proof" ELSE call[d].pc
  <2>1. call \in [Calls -> Call] /\ lease[call[c].name] \in Lease
    BY <1>1, <1>2 DEF HubTypeOK, DeviceTypeOK
  <2>2. call' = [call EXCEPT ![c] = [@ EXCEPT !.pc = "proof", !.lease = lease[call[c].name]]]
    BY DEF Connects
  <2>3. [call[c] EXCEPT !.pc = "proof", !.lease = lease[call[c].name]] \in Call
    BY <2>1 DEF Call
  <2> QED BY <2>1, <2>2, <2>3 DEF Call
<1>5. HubTypeOK' /\ WireTypeOK'
  BY <1>1, <1>3, <1>4 DEF HubTypeOK, WireTypeOK
<1>6. RelayTypeOK' /\ DeviceTypeOK' /\ CountTypeOK'
  BY <1>1, <1>2, <1>3 DEF RelayTypeOK, DeviceTypeOK, CountTypeOK
<1>7. CallInv'
  BY <1>1, <1>2, <1>3, <1>4 DEF CallInv
<1>8. \A x \in Boxes : phase'[x] = IF x = b THEN "open" ELSE phase[x]
  BY <1>1, <1>3 DEF WireTypeOK
<1>9. BoxInv'
  BY <1>1, <1>2, <1>3, <1>8 DEF BoxInv
<1>10. UpInv'
  <2>1. up[b] = <<>>
    BY <1>1, <1>2 DEF BoxInv
  <2> QED BY <1>1, <1>3, <1>8, <2>1 DEF UpInv
<1>11. ToldInv'
  <2>1. \A x \in Boxes : phase'[x] = "open" => x = b
    BY <1>1, <1>8 DEF BoxInv
  <2>2. down[b] = <<>> /\ grantedOn # b /\ b \notin atRelay
    BY <1>1, <1>2 DEF BoxInv
  <2>3. OwnedBy(b)' = {}
    BY <1>1, <1>2, <1>3, <2>2 DEF OwnedBy, BoxInv
  <2> QED BY <1>3, <2>1, <2>2, <2>3 DEF ToldInv
<1>12. OfflineInv'
  BY <1>1, <1>3 DEF OfflineInv
<1> QED BY <1>5, <1>6, <1>7, <1>9, <1>10, <1>11, <1>12 DEF MailboxInv, TypeOK, ShownInv

LEMMA ConnectFailsKeeps == ASSUME MailboxInv, NEW c \in Calls, ConnectFails(c) PROVE MailboxInv'
<1> DEFINE b == mailbox
<1>1. /\ HubTypeOK /\ WireTypeOK /\ RelayTypeOK /\ DeviceTypeOK /\ CountTypeOK
      /\ BoxInv /\ CallInv /\ OfflineInv /\ ShownInv
  BY DEF MailboxInv, TypeOK
<1>2. call[c].on = b /\ b \in Boxes /\ phase[b] = "connecting" /\ call[c].pc = "connect"
      /\ \A d \in Calls : call[d].pc = "connect" => d = c
  BY <1>1 DEF CallInv, ConnectFails
<1>3. PICK end \in {"closed", "failed"} :
         /\ phase' = [phase EXCEPT ![b] = end] /\ Rejected(c)
         /\ UNCHANGED <<claimed, pending, mailbox, up, down, atRelay, owner,
                        registry, issuedFor, lease, preferred, made, events, grantedOn, offline>>
  BY <1>2 DEF ConnectFails, relay, leases, bounds, history
<1>4. /\ call' \in [Calls -> Call]
      /\ \A d \in Calls : /\ call'[d].on = call[d].on /\ call'[d].name = call[d].name
                          /\ call'[d].pc = IF d = c THEN "done" ELSE call[d].pc
      /\ inFlight' \in {0} \union Calls /\ busy' \in BOOLEAN
      /\ desired' \in {desired, NoName} /\ desired' \in SomeName
  BY <1>1, <1>3, RejectedType
<1>5. HubTypeOK' /\ WireTypeOK'
  BY <1>1, <1>3, <1>4 DEF HubTypeOK, WireTypeOK
<1>6. RelayTypeOK' /\ DeviceTypeOK' /\ CountTypeOK'
  BY <1>1, <1>3, <1>4 DEF RelayTypeOK, DeviceTypeOK, CountTypeOK
<1>7. CallInv'
  BY <1>1, <1>2, <1>3, <1>4 DEF CallInv
<1>8. \A x \in Boxes : phase'[x] = IF x = b THEN end ELSE phase[x]
  BY <1>1, <1>3 DEF WireTypeOK
<1>9. BoxInv'
  BY <1>1, <1>2, <1>3, <1>8 DEF BoxInv
<1>10. ShownInv'
  BY <1>1, <1>3, <1>8, StillShown
<1>11. OfflineInv'
  BY <1>1, <1>3, <1>4 DEF OfflineInv
<1> QED BY <1>5, <1>6, <1>7, <1>9, <1>10, <1>11 DEF MailboxInv, TypeOK

LEMMA SendsKeeps == ASSUME MailboxInv, NEW c \in Calls, Sends(c) PROVE MailboxInv'
<1> DEFINE b == call[c].on
           frame == [type |-> "claim", name |-> call[c].name,
                     proof |-> HandleProof(call[c].name, call[c].lease)]
<1>1. /\ HubTypeOK /\ WireTypeOK /\ RelayTypeOK /\ DeviceTypeOK /\ CountTypeOK
      /\ BoxInv /\ CallInv /\ OfflineInv /\ ToldInv /\ UpInv
  BY DEF MailboxInv, TypeOK, ShownInv
<1>2. b \in Boxes /\ call[c].name \in NAMES /\ call[c].pc = "proof"
      /\ phase[b] \in {"open", "broken"}
  BY <1>1 DEF CallInv, Sends
<1>3. /\ pending' = c /\ call' = [call EXCEPT ![c].pc = "wait"] /\ StoreWithPublicKey(c)
      /\ up' = IF phase[b] = "open" THEN [up EXCEPT ![b] = Append(@, frame)] ELSE up
      /\ UNCHANGED <<desired, claimed, inFlight, mailbox, phase, down, atRelay, owner,
                     registry, issuedFor, busy, made, events, grantedOn, offline>>
  BY DEF Sends, relay, leases, bounds, history
<1>4. frame \in UpFrame /\ frame.type = "claim"
  <2>1. call[c].lease \in Lease /\ call[c].name \in SomeName
    BY <1>1 DEF HubTypeOK, Call
  <2> QED BY <1>2, <2>1, LeaseType DEF UpFrame
<1> HIDE DEF frame
<1>5. /\ call' \in [Calls -> Call]
      /\ \A d \in Calls : /\ call'[d].on = call[d].on /\ call'[d].name = call[d].name
                          /\ call'[d].pc = IF d = c THEN "wait" ELSE call[d].pc
  BY <1>1, <1>3, CallMoves
<1>6. up' \in [Boxes -> Seq(UpFrame)]
  BY <1>1, <1>3, <1>4, Appended DEF WireTypeOK
<1>7. HubTypeOK' /\ WireTypeOK'
  BY <1>1, <1>3, <1>5, <1>6 DEF HubTypeOK, WireTypeOK
<1>8. RelayTypeOK' /\ DeviceTypeOK' /\ CountTypeOK'
  BY <1>1, <1>2, <1>3, StoredType DEF RelayTypeOK, DeviceTypeOK, CountTypeOK
<1>9. CallInv'
  BY <1>1, <1>2, <1>3, <1>5 DEF CallInv
<1>10. \A x \in Boxes : x # b => up'[x] = up[x]
  BY <1>1, <1>3 DEF WireTypeOK
<1>11. phase[b] = "open" => up'[b] = Append(up[b], frame)
  BY <1>1, <1>2, <1>3 DEF WireTypeOK
<1>12. BoxInv'
  BY <1>1, <1>2, <1>3, <1>10 DEF BoxInv
<1>13. UpInv'
  <2>1. ASSUME NEW x \in Boxes, phase[x] = "open", NEW i \in DOMAIN up'[x]
        PROVE  up'[x][i].type = "claim"
    <3>1. CASE x # b
      BY <1>1, <1>10, <2>1, <3>1 DEF UpInv
    <3>2. CASE x = b
      <4>1. up[b] \in Seq(UpFrame) /\ up'[b] = Append(up[b], frame)
        BY <1>1, <1>2, <1>11, <2>1, <3>2 DEF WireTypeOK
      <4>2. i \in 1..Len(up[b]) + 1
        BY <2>1, <3>2, <4>1, <1>4
      <4>3. i = Len(up[b]) + 1 => up'[b][i] = frame
        BY <4>1, <1>4
      <4>4. i \in 1..Len(up[b]) => up'[b][i] = up[b][i] /\ i \in DOMAIN up[b]
        BY <4>1, <1>4
      <4>5. \A j \in DOMAIN up[b] : up[b][j].type = "claim"
        BY <1>1, <1>2, <2>1, <3>2 DEF UpInv
      <4> QED BY <3>2, <4>1, <4>2, <4>3, <4>4, <4>5, <1>4
    <3> QED BY <3>1, <3>2
  <2> QED BY <1>3, <2>1 DEF UpInv
<1>14. ToldInv'
  BY <1>1, <1>3, StillTold
<1>15. OfflineInv'
  BY <1>1, <1>3 DEF OfflineInv
<1> QED BY <1>7, <1>8, <1>9, <1>12, <1>13, <1>14, <1>15 DEF MailboxInv, TypeOK, ShownInv

\* A call that fails short of the relay changes nothing the invariant is about.
LEMMA FailureKeeps ==
  ASSUME MailboxInv, NEW c \in Calls, SendThrows(c) \/ ProofFails(c) \/ TimesOut(c)
  PROVE  MailboxInv'
<1>1. /\ HubTypeOK /\ WireTypeOK /\ RelayTypeOK /\ DeviceTypeOK /\ CountTypeOK /\ CallInv
  BY DEF MailboxInv, TypeOK
<1>2. /\ Rejected(c) /\ pending' \in {0} \union Calls
      /\ UNCHANGED <<claimed, mailbox, phase, up, down, atRelay, owner, registry, issuedFor,
                     made, grantedOn, offline>>
      /\ events' \in Nat
  BY <1>1 DEF SendThrows, ProofFails, TimesOut, wire, relay, leases, bounds, history, HubTypeOK,
              CountTypeOK, Happens
<1>3. lease' \in [NAMES -> Lease] /\ preferred' \in SomeName
  <2>1. CASE SendThrows(c)
    BY <1>1, <2>1, StoredType DEF SendThrows, CallInv
  <2>2. CASE ProofFails(c) \/ TimesOut(c)
    BY <1>1, <2>2 DEF ProofFails, TimesOut, DeviceTypeOK
  <2> QED BY <2>1, <2>2
<1>4. /\ call' \in [Calls -> Call]
      /\ \A d \in Calls : /\ call'[d].on = call[d].on /\ call'[d].name = call[d].name
                          /\ call'[d].pc = IF d = c THEN "done" ELSE call[d].pc
      /\ inFlight' \in {0} \union Calls /\ busy' \in BOOLEAN
      /\ desired' \in {desired, NoName} /\ desired' \in SomeName
  BY <1>1, <1>2, RejectedType
<1>5. TypeOK'
  BY <1>1, <1>2, <1>3, <1>4
  DEF TypeOK, HubTypeOK, WireTypeOK, RelayTypeOK, DeviceTypeOK, CountTypeOK
<1> QED BY <1>2, <1>4, <1>5, StillMailbox

LEMMA PendingExpiresKeeps == ASSUME MailboxInv, PendingExpires PROVE MailboxInv'
<1>1. TypeOK'
  BY DEF MailboxInv, PendingExpires, TypeOK, HubTypeOK, WireTypeOK, RelayTypeOK, DeviceTypeOK,
         CountTypeOK, wire, relay, leases, device, bounds, history
<1> QED BY <1>1, StillMailbox DEF PendingExpires, wire, relay, bounds, history

----------------------------------------------------------------------------
(* What the device hears.                                                  *)

LEMMA FulfilledType ==
  ASSUME HubTypeOK, DeviceTypeOK, NEW c \in Calls, NEW n \in NAMES, Fulfilled(c, n)
  PROVE  /\ call' \in [Calls -> Call]
         /\ \A d \in Calls : /\ call'[d].on = call[d].on /\ call'[d].name = call[d].name
                             /\ call'[d].pc = IF d = c THEN "done" ELSE call[d].pc
         /\ inFlight' \in {0} \union Calls /\ busy' \in BOOLEAN
         /\ desired' = desired /\ preferred' \in SomeName
<1>1. call' = [call EXCEPT ![c].pc = "done"] /\ desired' = desired
  BY DEF Fulfilled
<1>2. inFlight' \in {0} \union Calls /\ busy' \in BOOLEAN /\ preferred' \in SomeName
  BY DEF Fulfilled, HubTypeOK, DeviceTypeOK, SomeName
<1> HIDE DEF Fulfilled
<1> QED BY <1>1, <1>2, CallMoves

\* A frame is read: what is left is what came behind it.
LEMMA ReadsType ==
  ASSUME WireTypeOK, NEW b \in Boxes, NEW type, Reads(b, type)
  PROVE  /\ phase[b] = "open" /\ down[b] # <<>> /\ Head(down[b]).type = type
         /\ down[b] \in Seq(DownFrame) /\ Head(down[b]) \in DownFrame
         /\ down' \in [Boxes -> Seq(DownFrame)]
         /\ \A x \in Boxes : x # b => down'[x] = down[x]
         /\ down'[b] \in Seq(DownFrame) /\ Len(down[b]) = Len(down'[b]) + 1
         /\ \A i \in 1..Len(down'[b]) : down'[b][i] = down[b][i + 1]
         /\ 1 \in DOMAIN down[b] /\ Head(down[b]) = down[b][1]
<1>1. phase[b] = "open" /\ down[b] # <<>> /\ Head(down[b]).type = type
      /\ down' = [down EXCEPT ![b] = Tail(@)]
  BY DEF Reads
<1>2. down \in [Boxes -> Seq(DownFrame)]
  BY DEF WireTypeOK
<1>3. down' \in [Boxes -> Seq(DownFrame)]
  BY <1>1, <1>2, Taken
<1>4. down'[b] = Tail(down[b]) /\ \A x \in Boxes : x # b => down'[x] = down[x]
  BY <1>1, <1>2
<1>5. down[b] \in Seq(DownFrame)
  BY <1>2
<1>6. /\ Head(down[b]) \in DownFrame /\ Tail(down[b]) \in Seq(DownFrame)
      /\ Len(down[b]) = Len(Tail(down[b])) + 1
      /\ \A i \in 1..Len(Tail(down[b])) : Tail(down[b])[i] = down[b][i + 1]
      /\ 1 \in DOMAIN down[b] /\ Head(down[b]) = down[b][1]
  BY <1>1, <1>5
<1> QED BY <1>1, <1>3, <1>4, <1>5, <1>6

\* The last name on its way is the same, unless it is the one being read.
LEMMA ReadsTold ==
  ASSUME WireTypeOK, ToldInv, NEW b \in Boxes, NEW type, Reads(b, type),
         owner' = owner
  PROVE  /\ \A i \in DOMAIN down'[b] :
              Told(b, i)' /\ (\A j \in DOMAIN down'[b] : Told(b, j)' => j <= i)
              => OwnedBy(b)' = {down'[b][i].name}
         /\ (\A i \in DOMAIN down'[b] : ~Told(b, i)') =>
              OwnedBy(b)' = IF type = "claimed" THEN {Head(down[b]).name}
                            ELSE IF grantedOn = b THEN {claimed} ELSE {}
<1>1. /\ phase[b] = "open" /\ Head(down[b]).type = type
      /\ down[b] \in Seq(DownFrame) /\ down'[b] \in Seq(DownFrame)
      /\ Len(down[b]) = Len(down'[b]) + 1
      /\ \A i \in 1..Len(down'[b]) : down'[b][i] = down[b][i + 1]
      /\ 1 \in DOMAIN down[b] /\ Head(down[b]) = down[b][1]
  BY ReadsType
<1>2. /\ DOMAIN down'[b] = 1..Len(down'[b]) /\ DOMAIN down[b] = 1..Len(down[b])
      /\ Len(down'[b]) \in Nat
  BY <1>1
<1>3. OwnedBy(b)' = OwnedBy(b)
  BY DEF OwnedBy
<1>4. \A i \in DOMAIN down'[b] : i + 1 \in DOMAIN down[b] /\ (Told(b, i)' <=> Told(b, i + 1))
  BY <1>1, <1>2 DEF Told
<1>5. Told(b, 1) <=> type = "claimed"
  BY <1>1 DEF Told
<1>6. \A j \in DOMAIN down[b] : j = 1 \/ (j - 1 \in DOMAIN down'[b] /\ (j - 1) + 1 = j)
  BY <1>1, <1>2
<1>7. ASSUME NEW i \in DOMAIN down'[b], Told(b, i)',
             \A j \in DOMAIN down'[b] : Told(b, j)' => j <= i
      PROVE  OwnedBy(b)' = {down'[b][i].name}
  <2>1. i + 1 \in DOMAIN down[b] /\ Told(b, i + 1)
    BY <1>4, <1>7
  <2>2. \A j \in DOMAIN down[b] : Told(b, j) => j <= i + 1
    <3> SUFFICES ASSUME NEW j \in DOMAIN down[b], Told(b, j) PROVE j <= i + 1
      OBVIOUS
    <3>1. CASE j = 1
      BY <3>1, <1>2, <1>7
    <3>2. CASE j # 1
      <4>1. j - 1 \in DOMAIN down'[b] /\ (j - 1) + 1 = j
        BY <3>2, <1>6
      <4>2. Told(b, j - 1)'
        BY <4>1, <1>4
      <4>3. j - 1 <= i
        BY <4>1, <4>2, <1>7
      <4> QED BY <4>1, <4>3, <1>2
    <3> QED BY <3>1, <3>2
  <2>3. OwnedBy(b) = {down[b][i + 1].name}
    BY <1>1, <2>1, <2>2 DEF ToldInv
  <2>4. down'[b][i] = down[b][i + 1]
    BY <1>1, <1>2
  <2> QED BY <1>3, <2>3, <2>4
<1>8. ASSUME \A i \in DOMAIN down'[b] : ~Told(b, i)'
      PROVE  OwnedBy(b)' = IF type = "claimed" THEN {Head(down[b]).name}
                           ELSE IF grantedOn = b THEN {claimed} ELSE {}
  <2>1. \A j \in DOMAIN down[b] : Told(b, j) => j = 1
    BY <1>4, <1>6, <1>8
  <2>2. CASE type = "claimed"
    <3>1. \A j \in DOMAIN down[b] : Told(b, j) => j <= 1
      BY <2>1
    <3>2. OwnedBy(b) = {down[b][1].name}
      BY <1>1, <1>5, <2>2, <3>1 DEF ToldInv
    <3> QED BY <1>1, <1>3, <2>2, <3>2
  <2>3. CASE type # "claimed"
    <3>1. \A j \in DOMAIN down[b] : ~Told(b, j)
      BY <1>5, <2>1, <2>3
    <3>2. OwnedBy(b) = IF grantedOn = b THEN {claimed} ELSE {}
      BY <1>1, <3>1 DEF ToldInv
    <3> QED BY <1>3, <2>3, <3>2
  <2> QED BY <2>2, <2>3
<1> QED BY <1>7, <1>8

LEMMA OnHandleClaimedKeeps ==
  ASSUME MailboxInv, NEW b \in Boxes, OnHandleClaimed(b) PROVE MailboxInv'
<1> DEFINE n == Head(down[b]).name
<1>1. /\ HubTypeOK /\ WireTypeOK /\ RelayTypeOK /\ DeviceTypeOK /\ CountTypeOK
      /\ BoxInv /\ CallInv /\ OfflineInv /\ ToldInv /\ UpInv
  BY DEF MailboxInv, TypeOK, ShownInv
<1>2. Reads(b, "claimed")
  BY DEF OnHandleClaimed
<1>3. /\ phase[b] = "open" /\ n \in NAMES
      /\ down' \in [Boxes -> Seq(DownFrame)]
      /\ \A x \in Boxes : x # b => down'[x] = down[x]
  BY <1>1, <1>2, ReadsType DEF DownFrame
<1>4. /\ claimed' = n /\ pending' = 0 /\ grantedOn' = b
      /\ (pending # 0 /\ Active(pending) /\ Fulfilled(pending, n))
         \/ UNCHANGED <<desired, inFlight, call, preferred, busy>>
      /\ UNCHANGED <<mailbox, phase, up, atRelay, owner, registry, issuedFor, lease, made, events, offline>>
  BY DEF OnHandleClaimed, relay, leases, bounds
<1>5. /\ call' \in [Calls -> Call]
      /\ \A d \in Calls : /\ call'[d].on = call[d].on /\ call'[d].name = call[d].name
                          /\ call'[d].pc \in {call[d].pc, "done"}
      /\ inFlight' \in {0} \union Calls /\ busy' \in BOOLEAN
      /\ desired' = desired /\ preferred' \in SomeName
  <2>1. CASE pending # 0 /\ Fulfilled(pending, n)
    <3>1. pending \in Calls
      BY <1>1, <2>1 DEF HubTypeOK
    <3> QED BY <1>1, <1>3, <2>1, <3>1, FulfilledType
  <2>2. CASE UNCHANGED <<desired, inFlight, call, preferred, busy>>
    BY <1>1, <2>2 DEF HubTypeOK, DeviceTypeOK
  <2> QED BY <1>4, <2>1, <2>2
<1> HIDE DEF n
<1>6. HubTypeOK' /\ WireTypeOK'
  BY <1>1, <1>3, <1>4, <1>5 DEF HubTypeOK, WireTypeOK, SomeName
<1>7. b \in 0..MaxBoxes
  BY Bounds DEF Boxes
<1>8. RelayTypeOK' /\ DeviceTypeOK' /\ CountTypeOK'
  BY <1>1, <1>4, <1>5, <1>7 DEF RelayTypeOK, DeviceTypeOK, CountTypeOK
<1>9. CallInv'
  BY <1>1, <1>4, <1>5, StillCalling
<1>10. BoxInv'
  BY <1>1, <1>3, <1>4 DEF BoxInv
<1>11. b = mailbox /\ \A x \in Boxes : phase[x] = "open" => x = b
  BY <1>1, <1>3 DEF BoxInv
<1>12. ToldInv'
  <2>1. /\ \A i \in DOMAIN down'[b] :
              Told(b, i)' /\ (\A j \in DOMAIN down'[b] : Told(b, j)' => j <= i)
              => OwnedBy(b)' = {down'[b][i].name}
        /\ (\A i \in DOMAIN down'[b] : ~Told(b, i)') => OwnedBy(b)' = {n}
    BY <1>1, <1>2, <1>4, ReadsTold DEF n
  <2> QED BY <1>4, <1>11, <2>1, Zenon DEF ToldInv
<1>13. UpInv'
  BY <1>1, <1>4 DEF UpInv
<1>14. OfflineInv'
  BY <1>1, <1>4, <1>11, Bounds DEF OfflineInv
<1> QED BY <1>6, <1>8, <1>9, <1>10, <1>12, <1>13, <1>14 DEF MailboxInv, TypeOK, ShownInv

LEMMA OnErrorKeeps ==
  ASSUME MailboxInv, NEW b \in Boxes, OnError(b) PROVE MailboxInv'
<1>1. /\ HubTypeOK /\ WireTypeOK /\ RelayTypeOK /\ DeviceTypeOK /\ CountTypeOK
      /\ BoxInv /\ CallInv /\ OfflineInv /\ ToldInv /\ UpInv
  BY DEF MailboxInv, TypeOK, ShownInv
<1>2. Reads(b, "error")
  BY DEF OnError
<1>3. /\ phase[b] = "open"
      /\ down' \in [Boxes -> Seq(DownFrame)]
      /\ \A x \in Boxes : x # b => down'[x] = down[x]
  BY <1>1, <1>2, ReadsType
<1>4. /\ pending' = 0
      /\ (pending # 0 /\ Active(pending) /\ Rejected(pending))
         \/ UNCHANGED <<desired, inFlight, call, busy>>
      /\ UNCHANGED <<claimed, mailbox, phase, up, atRelay, owner, registry, issuedFor,
                     lease, preferred, made, events, grantedOn, offline>>
  BY DEF OnError, relay, leases, bounds, history
<1>5. /\ call' \in [Calls -> Call]
      /\ \A d \in Calls : /\ call'[d].on = call[d].on /\ call'[d].name = call[d].name
                          /\ call'[d].pc \in {call[d].pc, "done"}
      /\ inFlight' \in {0} \union Calls /\ busy' \in BOOLEAN
      /\ desired' \in {desired, NoName} /\ desired' \in SomeName
  <2>1. CASE pending # 0 /\ Rejected(pending)
    <3>1. pending \in Calls
      BY <1>1, <2>1 DEF HubTypeOK
    <3> QED BY <1>1, <2>1, <3>1, RejectedType
  <2>2. CASE UNCHANGED <<desired, inFlight, call, busy>>
    BY <1>1, <2>2 DEF HubTypeOK, DeviceTypeOK
  <2> QED BY <1>4, <2>1, <2>2
<1>6. HubTypeOK' /\ WireTypeOK'
  BY <1>1, <1>3, <1>4, <1>5 DEF HubTypeOK, WireTypeOK
<1>7. RelayTypeOK' /\ DeviceTypeOK' /\ CountTypeOK'
  BY <1>1, <1>4, <1>5 DEF RelayTypeOK, DeviceTypeOK, CountTypeOK
<1>8. CallInv'
  BY <1>1, <1>4, <1>5, StillCalling
<1>9. BoxInv'
  BY <1>1, <1>3, <1>4 DEF BoxInv
<1>10. \A x \in Boxes : phase[x] = "open" => x = b
  BY <1>1, <1>3 DEF BoxInv
<1>11. ToldInv'
  <2>1. /\ \A i \in DOMAIN down'[b] :
              Told(b, i)' /\ (\A j \in DOMAIN down'[b] : Told(b, j)' => j <= i)
              => OwnedBy(b)' = {down'[b][i].name}
        /\ (\A i \in DOMAIN down'[b] : ~Told(b, i)')
             => OwnedBy(b)' = IF grantedOn = b THEN {claimed} ELSE {}
    <3>1. owner' = owner /\ "error" # "claimed"
      BY <1>4
    <3> QED BY <1>1, <1>2, <3>1, ReadsTold
  <2> QED BY <1>4, <1>10, <2>1, Zenon DEF ToldInv
<1>12. UpInv'
  BY <1>1, <1>4 DEF UpInv
<1>13. OfflineInv'
  BY <1>1, <1>4, <1>5 DEF OfflineInv
<1> QED BY <1>6, <1>7, <1>8, <1>9, <1>11, <1>12, <1>13 DEF MailboxInv, TypeOK, ShownInv

\* A box that breaks or closes.
LEMMA BreaksKeeps == ASSUME MailboxInv, NEW b \in Boxes, Breaks(b) PROVE MailboxInv'
<1>1. /\ HubTypeOK /\ WireTypeOK /\ RelayTypeOK /\ DeviceTypeOK /\ CountTypeOK
      /\ BoxInv /\ CallInv /\ OfflineInv /\ ShownInv
  BY DEF MailboxInv, TypeOK
<1>2. /\ phase[b] = "open" /\ phase' = [phase EXCEPT ![b] = "broken"]
      /\ up' \in {up, [up EXCEPT ![b] = <<>>]} /\ down' = [down EXCEPT ![b] = <<>>]
      /\ UNCHANGED <<desired, claimed, inFlight, pending, mailbox, call, atRelay, owner, registry,
                     issuedFor, lease, preferred, busy, made, grantedOn, offline>>
      /\ events' \in Nat
  BY <1>1 DEF Breaks, Happens, hub, relay, leases, device, history, CountTypeOK
<1>3. TypeOK'
  <2>1. up' \in [Boxes -> Seq(UpFrame)] /\ down' \in [Boxes -> Seq(DownFrame)]
    <3>1. up \in [Boxes -> Seq(UpFrame)] /\ down \in [Boxes -> Seq(DownFrame)]
      BY <1>1 DEF WireTypeOK
    <3>2. /\ [up EXCEPT ![b] = <<>>] \in [Boxes -> Seq(UpFrame)]
          /\ [down EXCEPT ![b] = <<>>] \in [Boxes -> Seq(DownFrame)]
      BY <3>1, Emptied
    <3> QED BY <1>2, <3>1, <3>2
  <2>2. WireTypeOK'
    BY <1>1, <1>2, <2>1 DEF WireTypeOK
  <2> QED BY <1>1, <1>2, <2>2 DEF TypeOK, HubTypeOK, RelayTypeOK, DeviceTypeOK, CountTypeOK
<1>4. \A x \in Boxes : /\ phase'[x] = IF x = b THEN "broken" ELSE phase[x]
                       /\ x # b => up'[x] = up[x] /\ down'[x] = down[x]
  BY <1>1, <1>2 DEF WireTypeOK
<1>5. b = mailbox
  BY <1>1, <1>2 DEF BoxInv
<1>6. BoxInv'
  BY <1>1, <1>2, <1>4 DEF BoxInv
<1>7. CallInv'
  BY <1>1, <1>2, <1>5 DEF CallInv
<1>8. ShownInv'
  BY <1>1, <1>2, <1>4, StillShown
<1>9. OfflineInv'
  BY <1>1, <1>2 DEF OfflineInv
<1> QED BY <1>3, <1>6, <1>7, <1>8, <1>9 DEF MailboxInv

LEMMA OnCloseKeeps == ASSUME MailboxInv, NEW b \in Boxes, OnClose(b) PROVE MailboxInv'
<1>1. /\ HubTypeOK /\ WireTypeOK /\ RelayTypeOK /\ DeviceTypeOK /\ CountTypeOK
      /\ BoxInv /\ CallInv /\ OfflineInv /\ ShownInv
  BY DEF MailboxInv, TypeOK
<1>2. phase[b] \in {"broken", "failed"} /\ b = mailbox
  BY <1>1 DEF OnClose, BoxInv
<1>3. /\ phase' = [phase EXCEPT ![b] = "closed"] /\ mailbox' = 0 /\ claimed' = NoName
      /\ UNCHANGED <<desired, inFlight, pending, call, up, down, atRelay, owner, registry,
                     issuedFor, lease, preferred, busy, made, events, grantedOn, offline>>
  BY <1>2 DEF OnClose, relay, leases, device, bounds, history
<1>4. TypeOK'
  BY <1>1, <1>3, Bounds
  DEF TypeOK, HubTypeOK, WireTypeOK, RelayTypeOK, DeviceTypeOK, CountTypeOK, SomeName
<1>5. \A x \in Boxes : phase'[x] = IF x = b THEN "closed" ELSE phase[x]
  BY <1>1, <1>3 DEF WireTypeOK
<1>6. BoxInv'
  <2>1. mailbox' <= made'
    BY <1>1, <1>3 DEF CountTypeOK
  <2> QED BY <1>1, <1>2, <1>3, <1>5, <2>1 DEF BoxInv
<1>7. CallInv'
  BY <1>1, <1>2, <1>3 DEF CallInv
<1>8. ShownInv'
  <2>1. \A x \in Boxes : phase'[x] # "open"
    BY <1>1, <1>2, <1>5 DEF BoxInv
  <2> QED BY <1>1, <2>1, StillShown
<1>9. OfflineInv'
  BY <1>1, <1>3 DEF OfflineInv
<1> QED BY <1>4, <1>6, <1>7, <1>8, <1>9 DEF MailboxInv

LEMMA PingFailsKeeps == ASSUME MailboxInv, PingFails PROVE MailboxInv'
<1>1. /\ HubTypeOK /\ WireTypeOK /\ RelayTypeOK /\ DeviceTypeOK /\ CountTypeOK
      /\ BoxInv /\ CallInv /\ OfflineInv /\ ShownInv
  BY DEF MailboxInv, TypeOK
<1>2. /\ mailbox # 0 /\ phase[mailbox] = "broken" /\ mailbox' = 0
      /\ phase' = [b \in Boxes |-> IF b = mailbox THEN "closed" ELSE phase[b]]
      /\ call' = Abandoned(call)
      /\ UNCHANGED <<desired, claimed, inFlight, pending, up, down, atRelay, owner, registry,
                     issuedFor, lease, preferred, busy, made, events, grantedOn, offline>>
  BY DEF PingFails, CloseMailbox, relay, leases, device, bounds, history
<1>3. /\ call' \in [Calls -> Call]
      /\ \A c \in Calls :
           /\ call'[c].on = call[c].on /\ call'[c].name = call[c].name
           /\ call'[c].pc = IF call[c].pc = "connect" THEN "hung" ELSE call[c].pc
  BY <1>1, <1>2, NobodyConnects
<1>4. TypeOK'
  BY <1>1, <1>2, <1>3, Bounds
  DEF TypeOK, HubTypeOK, WireTypeOK, RelayTypeOK, DeviceTypeOK, CountTypeOK
<1>5. \A x \in Boxes : phase'[x] = IF x = mailbox THEN "closed" ELSE phase[x]
  BY <1>2
<1>6. BoxInv'
  <2>1. mailbox' <= made'
    BY <1>1, <1>2 DEF CountTypeOK
  <2> QED BY <1>1, <1>2, <1>5, <2>1 DEF BoxInv
<1>7. CallInv'
  BY <1>1, <1>3, Zenon DEF CallInv
<1>8. ShownInv'
  <2>1. \A x \in Boxes : phase'[x] # "open"
    BY <1>1, <1>5 DEF BoxInv
  <2> QED BY <1>1, <2>1, StillShown
<1>9. OfflineInv'
  BY <1>1, <1>2 DEF OfflineInv
<1> QED BY <1>4, <1>6, <1>7, <1>8, <1>9 DEF MailboxInv

----------------------------------------------------------------------------
(* The relay.                                                              *)

LEMMA HandlesType ==
  ASSUME WireTypeOK, NEW b \in Boxes, NEW type, Handles(b, type)
  PROVE  /\ b \in atRelay /\ up[b] # <<>> /\ Head(up[b]).type = type /\ Head(up[b]) \in UpFrame
         /\ 1 \in DOMAIN up[b] /\ Head(up[b]) = up[b][1]
         /\ up' \in [Boxes -> Seq(UpFrame)]
         /\ \A x \in Boxes : x # b => up'[x] = up[x]
         /\ \A i \in DOMAIN up'[b] : i + 1 \in DOMAIN up[b] /\ up'[b][i] = up[b][i + 1]
<1>1. /\ b \in atRelay /\ up[b] # <<>> /\ Head(up[b]).type = type
      /\ up' = [up EXCEPT ![b] = Tail(@)]
  BY DEF Handles
<1>2. up \in [Boxes -> Seq(UpFrame)]
  BY DEF WireTypeOK
<1>3. up' \in [Boxes -> Seq(UpFrame)]
  BY <1>1, <1>2, Taken
<1>4. up'[b] = Tail(up[b]) /\ \A x \in Boxes : x # b => up'[x] = up[x]
  BY <1>1, <1>2
<1>5. up[b] \in Seq(UpFrame)
  BY <1>2
<1>6. /\ Head(up[b]) \in UpFrame /\ 1 \in DOMAIN up[b] /\ Head(up[b]) = up[b][1]
      /\ \A i \in DOMAIN Tail(up[b]) : i + 1 \in DOMAIN up[b] /\ Tail(up[b])[i] = up[b][i + 1]
  BY <1>1, <1>5
<1> QED BY <1>1, <1>3, <1>4, <1>6

LEMMA StillClaims ==
  ASSUME WireTypeOK, UpInv, NEW b \in Boxes, NEW type, Handles(b, type), phase' = phase
  PROVE  UpInv'
<1> SUFFICES ASSUME NEW x \in Boxes, phase[x] = "open", NEW i \in DOMAIN up'[x]
             PROVE  up'[x][i].type = "claim"
  BY DEF UpInv
<1>1. CASE x = b
  BY <1>1, HandlesType DEF UpInv
<1>2. CASE x # b
  BY <1>2, HandlesType DEF UpInv
<1> QED BY <1>1, <1>2

LEMMA AnswerType ==
  ASSUME WireTypeOK, NEW b \in Boxes, NEW event \in DownFrame, Answer(b, event)
  PROVE  /\ down' \in [Boxes -> Seq(DownFrame)]
         /\ \A x \in Boxes : x # b \/ phase[b] # "open" => down'[x] = down[x]
         /\ phase[b] = "open" => down'[b] = Append(down[b], event)
<1>1. down \in [Boxes -> Seq(DownFrame)]
  BY DEF WireTypeOK
<1>2. CASE phase[b] = "open"
  <2>1. down' = [down EXCEPT ![b] = Append(@, event)]
    BY <1>2 DEF Answer
  <2> QED BY <1>1, <1>2, <2>1, Appended
<1>3. CASE phase[b] # "open"
  BY <1>1, <1>3 DEF Answer
<1> QED BY <1>2, <1>3

\* An answer is appended: a name if the relay gave it, else an error.
LEMMA AnswerTold ==
  ASSUME WireTypeOK, ToldInv, NEW b \in Boxes, phase[b] = "open", NEW event \in DownFrame,
         Answer(b, event), claimed' = claimed, grantedOn' = grantedOn,
         OwnedBy(b)' = IF event.type = "claimed" THEN {event.name} ELSE OwnedBy(b)
  PROVE  /\ \A i \in DOMAIN down'[b] :
              Told(b, i)' /\ (\A j \in DOMAIN down'[b] : Told(b, j)' => j <= i)
              => OwnedBy(b)' = {down'[b][i].name}
         /\ (\A i \in DOMAIN down'[b] : ~Told(b, i)') =>
              OwnedBy(b)' = IF grantedOn' = b THEN {claimed'} ELSE {}
<1> PICK k : k = Len(down[b]) + 1
  OBVIOUS
<1>1. down[b] \in Seq(DownFrame) /\ down'[b] = Append(down[b], event)
  BY AnswerType DEF WireTypeOK
<1>2. /\ Len(down[b]) \in Nat /\ DOMAIN down[b] = 1..Len(down[b]) /\ DOMAIN down'[b] = 1..k
      /\ down'[b][k] = event
      /\ \A i \in DOMAIN down[b] : down'[b][i] = down[b][i]
  BY <1>1
<1>3. /\ \A i \in DOMAIN down[b] : Told(b, i)' <=> Told(b, i)
      /\ Told(b, k)' <=> event.type = "claimed"
  BY <1>2 DEF Told
<1>4. k \in DOMAIN down'[b] /\ \A i \in DOMAIN down'[b] : i <= k /\ (i = k \/ i \in DOMAIN down[b])
  BY <1>2
<1>5. DOMAIN down[b] \subseteq DOMAIN down'[b]
  BY <1>2
<1>6. CASE event.type = "claimed"
  <2>1. ASSUME NEW i \in DOMAIN down'[b], \A j \in DOMAIN down'[b] : Told(b, j)' => j <= i
        PROVE  OwnedBy(b)' = {down'[b][i].name}
    <3>1. i = k
      <4>1. k <= i /\ i <= k
        BY <1>3, <1>4, <1>6, <2>1
      <4> QED BY <1>2, <4>1
    <3> QED BY <1>2, <1>6, <3>1
  <2>2. Told(b, k)' /\ k \in DOMAIN down'[b]
    BY <1>3, <1>4, <1>6
  <2> QED BY <2>1, <2>2
<1>7. CASE event.type # "claimed"
  <2>1. ASSUME NEW i \in DOMAIN down'[b], Told(b, i)',
               \A j \in DOMAIN down'[b] : Told(b, j)' => j <= i
        PROVE  OwnedBy(b)' = {down'[b][i].name}
    <3>1. i \in DOMAIN down[b] /\ Told(b, i) /\ down'[b][i] = down[b][i]
      BY <1>2, <1>3, <1>4, <1>7, <2>1
    <3>2. \A j \in DOMAIN down[b] : Told(b, j) => j <= i
      BY <1>3, <1>5, <2>1
    <3> QED BY <1>7, <3>1, <3>2 DEF ToldInv
  <2>2. ASSUME \A i \in DOMAIN down'[b] : ~Told(b, i)'
        PROVE  OwnedBy(b)' = IF grantedOn' = b THEN {claimed'} ELSE {}
    <3>1. \A i \in DOMAIN down[b] : ~Told(b, i)
      BY <1>3, <1>5, <2>2
    <3> QED BY <1>7, <3>1 DEF ToldInv
  <2> QED BY <2>1, <2>2
<1> QED BY <1>6, <1>7

LEMMA ReleasedNames ==
  ASSUME RelayTypeOK, NEW b \in Boxes
  PROVE  /\ Released(b) \in [NAMES -> {0, Rival} \union Boxes]
         /\ \A n \in NAMES : Released(b)[n] = IF owner[n] = b THEN 0 ELSE owner[n]
BY DEF Released, RelayTypeOK

\* A claim: granted and told, or refused, and told as well.
LEMMA RelayClaimKeeps ==
  ASSUME MailboxInv, NEW b \in Boxes, RelayClaim(b) PROVE MailboxInv'
<1> DEFINE n == Head(up[b]).name
<1>1. /\ HubTypeOK /\ WireTypeOK /\ RelayTypeOK /\ DeviceTypeOK /\ CountTypeOK
      /\ BoxInv /\ CallInv /\ OfflineInv /\ ToldInv /\ UpInv
  BY DEF MailboxInv, TypeOK, ShownInv
<1>2. Handles(b, "claim")
  BY DEF RelayClaim
<1>3. /\ b \in atRelay /\ n \in NAMES /\ up[b] # <<>>
      /\ up' \in [Boxes -> Seq(UpFrame)]
      /\ \A x \in Boxes : x # b => up'[x] = up[x]
  BY <1>1, <1>2, HandlesType DEF UpFrame
<1>4. /\ UNCHANGED <<desired, claimed, inFlight, pending, mailbox, call, phase, atRelay, registry,
                     issuedFor, lease, preferred, busy, made, events, grantedOn, offline>>
      /\ \/ /\ owner[n] \in {0, b} /\ owner' = [Released(b) EXCEPT ![n] = b]
            /\ Answer(b, [type |-> "claimed", name |-> n])
         \/ owner' = owner /\ Answer(b, [type |-> "error"])
  BY DEF RelayClaim, hub, leases, device, bounds, history
<1> HIDE DEF n
<1>5. PICK event \in DownFrame :
        /\ Answer(b, event)
        /\ \/ /\ event.type = "claimed" /\ event.name = n
              /\ owner[n] \in {0, b} /\ owner' = [Released(b) EXCEPT ![n] = b]
           \/ event.type = "error" /\ owner' = owner
  <2>1. [type |-> "claimed", name |-> n] \in DownFrame /\ [type |-> "error"] \in DownFrame
    BY <1>3 DEF DownFrame
  <2> QED BY <1>4, <2>1
<1>6. /\ owner' \in [NAMES -> {0, Rival} \union Boxes]
      /\ \A m \in NAMES : owner'[m] = IF event.type = "error" THEN owner[m]
                                      ELSE IF m = n THEN b
                                      ELSE IF owner[m] = b THEN 0 ELSE owner[m]
  <2>1. CASE event.type = "error" /\ owner' = owner
    BY <1>1, <2>1 DEF RelayTypeOK
  <2>2. CASE event.type = "claimed" /\ owner' = [Released(b) EXCEPT ![n] = b]
    BY <1>1, <1>3, <2>2, ReleasedNames
  <2> QED BY <1>5, <2>1, <2>2
<1>7. /\ down' \in [Boxes -> Seq(DownFrame)]
      /\ \A x \in Boxes : x # b \/ phase[b] # "open" => down'[x] = down[x]
  BY <1>1, <1>5, AnswerType
<1>8. HubTypeOK' /\ WireTypeOK' /\ DeviceTypeOK' /\ CountTypeOK'
  BY <1>1, <1>3, <1>4, <1>7 DEF HubTypeOK, WireTypeOK, DeviceTypeOK, CountTypeOK
<1>9. RelayTypeOK'
  BY <1>1, <1>4, <1>6 DEF RelayTypeOK
<1>10. CallInv' /\ OfflineInv'
  BY <1>1, <1>4 DEF CallInv, OfflineInv
<1>11. BoxInv'
  <2>1. phase[b] \notin {"none", "connecting"}
    BY <1>1, <1>3 DEF BoxInv
  <2>2. \A m \in NAMES : owner'[m] \in Boxes => owner'[m] \in atRelay
    BY <1>1, <1>3, <1>6, Bounds DEF BoxInv
  <2> QED BY <1>1, <1>3, <1>4, <1>7, <2>1, <2>2 DEF BoxInv
<1>12. UpInv'
  BY <1>1, <1>2, <1>4, StillClaims
<1>13. ToldInv'
  <2>1. CASE phase[b] = "open"
    <3>1. \A x \in Boxes : phase[x] = "open" => x = b
      BY <1>1, <2>1 DEF BoxInv
    <3>2. OwnedBy(b)' = IF event.type = "claimed" THEN {event.name} ELSE OwnedBy(b)
      <4>1. CASE event.type = "claimed" /\ event.name = n
        <5>1. \A m \in NAMES : owner'[m] = b <=> m = n
          BY <1>6, <4>1, Bounds
        <5> QED BY <1>3, <4>1, <5>1 DEF OwnedBy
      <4>2. CASE event.type = "error" /\ owner' = owner
        BY <4>2 DEF OwnedBy
      <4> QED BY <1>5, <4>1, <4>2
    <3>3. claimed' = claimed /\ grantedOn' = grantedOn /\ phase' = phase
      BY <1>4
    <3>4. /\ \A i \in DOMAIN down'[b] :
                Told(b, i)' /\ (\A j \in DOMAIN down'[b] : Told(b, j)' => j <= i)
                => OwnedBy(b)' = {down'[b][i].name}
          /\ (\A i \in DOMAIN down'[b] : ~Told(b, i)') =>
                OwnedBy(b)' = IF grantedOn' = b THEN {claimed'} ELSE {}
      BY <1>1, <1>5, <2>1, <3>2, <3>3, AnswerTold
    <3> QED BY <3>1, <3>3, <3>4, Zenon DEF ToldInv
  <2>2. CASE phase[b] # "open"
    <3>1. \A x \in Boxes : phase[x] = "open" => x # b
      BY <2>2
    <3>2. \A x \in Boxes, m \in NAMES : x # b => (owner'[m] = x <=> owner[m] = x)
      BY <1>5, <1>6, Bounds
    <3> QED BY <1>1, <1>4, <1>7, <3>1, <3>2, StillTold
  <2> QED BY <2>1, <2>2
<1> QED BY <1>8, <1>9, <1>10, <1>11, <1>12, <1>13 DEF MailboxInv, TypeOK, ShownInv

\* The name of a box is given up.
LEMMA RelayUnclaimKeeps ==
  ASSUME MailboxInv, NEW b \in Boxes, RelayUnclaim(b) PROVE MailboxInv'
<1>1. /\ HubTypeOK /\ WireTypeOK /\ RelayTypeOK /\ DeviceTypeOK /\ CountTypeOK
      /\ BoxInv /\ CallInv /\ OfflineInv /\ ToldInv /\ UpInv
  BY DEF MailboxInv, TypeOK, ShownInv
<1>2. Handles(b, "unclaim") /\ owner' = Released(b)
      /\ UNCHANGED <<desired, claimed, inFlight, pending, mailbox, call, phase, down, atRelay, registry,
                     issuedFor, lease, preferred, busy, made, events, grantedOn, offline>>
  BY DEF RelayUnclaim, hub, leases, device, bounds, history
<1>3. /\ up' \in [Boxes -> Seq(UpFrame)] /\ b \in atRelay
      /\ \A x \in Boxes : x # b => up'[x] = up[x]
      /\ 1 \in DOMAIN up[b] /\ up[b][1].type = "unclaim"
  BY <1>1, <1>2, HandlesType
<1>4. phase[b] \notin {"open", "none", "connecting"}
  BY <1>1, <1>3 DEF UpInv, BoxInv
<1>5. /\ owner' \in [NAMES -> {0, Rival} \union Boxes]
      /\ \A n \in NAMES : owner'[n] = IF owner[n] = b THEN 0 ELSE owner[n]
  BY <1>1, <1>2, ReleasedNames
<1>6. HubTypeOK' /\ WireTypeOK' /\ RelayTypeOK' /\ DeviceTypeOK' /\ CountTypeOK'
  BY <1>1, <1>2, <1>3, <1>5 DEF HubTypeOK, WireTypeOK, RelayTypeOK, DeviceTypeOK, CountTypeOK
<1>7. CallInv' /\ OfflineInv'
  BY <1>1, <1>2 DEF CallInv, OfflineInv
<1>8. BoxInv'
  BY <1>1, <1>2, <1>3, <1>4, <1>5, Bounds DEF BoxInv
<1>9. UpInv'
  BY <1>1, <1>2, StillClaims
<1>10. ToldInv'
  <2>1. \A x \in Boxes, n \in NAMES : x # b => (owner'[n] = x <=> owner[n] = x)
    BY <1>5, Bounds
  <2> QED BY <1>1, <1>2, <1>4, <2>1, StillTold
<1> QED BY <1>6, <1>7, <1>8, <1>9, <1>10 DEF MailboxInv, TypeOK, ShownInv

LEMMA RelayRefusesKeeps ==
  ASSUME MailboxInv, NEW b \in Boxes, RelayRefuses(b) PROVE MailboxInv'
<1>1. /\ HubTypeOK /\ WireTypeOK /\ RelayTypeOK /\ DeviceTypeOK /\ CountTypeOK
      /\ BoxInv /\ CallInv /\ OfflineInv /\ ToldInv /\ UpInv
  BY DEF MailboxInv, TypeOK, ShownInv
<1> DEFINE event == [type |-> "error"]
<1>2. event \in DownFrame /\ event.type = "error"
  BY DEF DownFrame
<1> HIDE DEF event
<1>3. /\ Handles(b, "claim") /\ Answer(b, event) /\ events' \in Nat
      /\ UNCHANGED <<desired, claimed, inFlight, pending, mailbox, call, phase, atRelay, owner, registry,
                     issuedFor, lease, preferred, busy, made, grantedOn, offline>>
  BY <1>1 DEF RelayRefuses, event, Happens, CountTypeOK, hub, relay, leases, device, history
<1>4. /\ up' \in [Boxes -> Seq(UpFrame)] /\ b \in atRelay
      /\ \A x \in Boxes : x # b => up'[x] = up[x]
  BY <1>1, <1>3, HandlesType
<1>5. /\ down' \in [Boxes -> Seq(DownFrame)]
      /\ \A x \in Boxes : x # b \/ phase[b] # "open" => down'[x] = down[x]
  BY <1>1, <1>2, <1>3, AnswerType
<1>6. HubTypeOK' /\ WireTypeOK' /\ RelayTypeOK' /\ DeviceTypeOK' /\ CountTypeOK'
  BY <1>1, <1>3, <1>4, <1>5 DEF HubTypeOK, WireTypeOK, RelayTypeOK, DeviceTypeOK, CountTypeOK
<1>7. CallInv' /\ OfflineInv'
  BY <1>1, <1>3 DEF CallInv, OfflineInv
<1>8. BoxInv'
  <2>1. phase[b] \notin {"none", "connecting"}
    BY <1>1, <1>4 DEF BoxInv
  <2> QED BY <1>1, <1>3, <1>4, <1>5, <2>1 DEF BoxInv
<1>9. UpInv'
  BY <1>1, <1>3, StillClaims
<1>10. ToldInv'
  <2>1. CASE phase[b] = "open"
    <3>1. \A x \in Boxes : phase[x] = "open" => x = b
      BY <1>1, <2>1 DEF BoxInv
    <3>2. OwnedBy(b)' = IF event.type = "claimed" THEN {event.name} ELSE OwnedBy(b)
      BY <1>2, <1>3 DEF OwnedBy
    <3>3. claimed' = claimed /\ grantedOn' = grantedOn /\ phase' = phase
      BY <1>3
    <3>4. /\ \A i \in DOMAIN down'[b] :
                Told(b, i)' /\ (\A j \in DOMAIN down'[b] : Told(b, j)' => j <= i)
                => OwnedBy(b)' = {down'[b][i].name}
          /\ (\A i \in DOMAIN down'[b] : ~Told(b, i)') =>
                OwnedBy(b)' = IF grantedOn' = b THEN {claimed'} ELSE {}
      BY <1>1, <1>2, <1>3, <2>1, <3>2, <3>3, AnswerTold
    <3> QED BY <3>1, <3>3, <3>4, Zenon DEF ToldInv
  <2>2. CASE phase[b] # "open"
    BY <1>1, <1>3, <1>5, <2>2, StillTold
  <2> QED BY <2>1, <2>2
<1> QED BY <1>6, <1>7, <1>8, <1>9, <1>10 DEF MailboxInv, TypeOK, ShownInv

\* The relay sees, or makes, the end of a connection: its name is free.
LEMMA RelaySeesKeeps ==
  ASSUME MailboxInv, NEW b \in Boxes, RelaySees(b) PROVE MailboxInv'
<1>1. /\ HubTypeOK /\ WireTypeOK /\ RelayTypeOK /\ DeviceTypeOK /\ CountTypeOK
      /\ BoxInv /\ CallInv /\ OfflineInv /\ ShownInv
  BY DEF MailboxInv, TypeOK
<1>2. /\ phase[b] \in {"broken", "closed"}
      /\ atRelay' = atRelay \ {b} /\ owner' = Released(b)
      /\ UNCHANGED <<desired, claimed, inFlight, pending, mailbox, call, phase, up, down, registry,
                     issuedFor, lease, preferred, busy, made, events, grantedOn, offline>>
  BY DEF RelaySees, hub, wire, leases, device, bounds, history
<1>3. /\ owner' \in [NAMES -> {0, Rival} \union Boxes]
      /\ \A n \in NAMES : owner'[n] = IF owner[n] = b THEN 0 ELSE owner[n]
  BY <1>1, <1>2, ReleasedNames
<1>4. HubTypeOK' /\ WireTypeOK' /\ RelayTypeOK' /\ DeviceTypeOK' /\ CountTypeOK'
  BY <1>1, <1>2, <1>3 DEF HubTypeOK, WireTypeOK, RelayTypeOK, DeviceTypeOK, CountTypeOK
<1>5. CallInv' /\ OfflineInv'
  BY <1>1, <1>2 DEF CallInv, OfflineInv
<1>6. BoxInv'
  BY <1>1, <1>2, <1>3, Bounds DEF BoxInv
<1>7. ShownInv'
  <2>1. \A x \in Boxes, n \in NAMES : x # b => (owner'[n] = x <=> owner[n] = x)
    BY <1>3, Bounds
  <2> QED BY <1>1, <1>2, <2>1, StillShown
<1> QED BY <1>4, <1>5, <1>6, <1>7 DEF MailboxInv, TypeOK

LEMMA RelayHangsUpKeeps ==
  ASSUME MailboxInv, NEW b \in Boxes, RelayHangsUp(b) PROVE MailboxInv'
<1>1. /\ HubTypeOK /\ WireTypeOK /\ RelayTypeOK /\ DeviceTypeOK /\ CountTypeOK
      /\ BoxInv /\ CallInv /\ OfflineInv /\ ShownInv
  BY DEF MailboxInv, TypeOK
<1>2. /\ phase[b] = "open" /\ phase' = [phase EXCEPT ![b] = "broken"]
      /\ atRelay' = atRelay \ {b} /\ owner' = Released(b)
      /\ up' = [up EXCEPT ![b] = <<>>] /\ down' = [down EXCEPT ![b] = <<>>]
      /\ events' \in Nat
      /\ UNCHANGED <<desired, claimed, inFlight, pending, mailbox, call, registry,
                     issuedFor, lease, preferred, busy, made, grantedOn, offline>>
  BY <1>1 DEF RelayHangsUp, Happens, CountTypeOK, hub, leases, device, history
<1>3. /\ owner' \in [NAMES -> {0, Rival} \union Boxes]
      /\ \A n \in NAMES : owner'[n] = IF owner[n] = b THEN 0 ELSE owner[n]
  BY <1>1, <1>2, ReleasedNames
<1>4. up' \in [Boxes -> Seq(UpFrame)] /\ down' \in [Boxes -> Seq(DownFrame)]
  BY <1>1, <1>2, Emptied DEF WireTypeOK
<1>5. WireTypeOK'
  BY <1>1, <1>2, <1>4 DEF WireTypeOK
<1>6. HubTypeOK' /\ RelayTypeOK' /\ DeviceTypeOK' /\ CountTypeOK'
  BY <1>1, <1>2, <1>3 DEF HubTypeOK, RelayTypeOK, DeviceTypeOK, CountTypeOK
<1>7. \A x \in Boxes : /\ phase'[x] = IF x = b THEN "broken" ELSE phase[x]
                       /\ x # b => up'[x] = up[x] /\ down'[x] = down[x]
  BY <1>1, <1>2 DEF WireTypeOK
<1>8. b = mailbox
  BY <1>1, <1>2 DEF BoxInv
<1>9. CallInv' /\ OfflineInv'
  BY <1>1, <1>2, <1>8 DEF CallInv, OfflineInv
<1>10. BoxInv'
  BY <1>1, <1>2, <1>3, <1>7, Bounds DEF BoxInv
<1>11. ShownInv'
  <2>1. \A x \in Boxes, n \in NAMES : x # b => (owner'[n] = x <=> owner[n] = x)
    BY <1>3, Bounds
  <2> QED BY <1>1, <1>2, <1>7, <2>1, StillShown
<1> QED BY <1>5, <1>6, <1>9, <1>10, <1>11 DEF MailboxInv, TypeOK

\* Somebody else takes the name and leaves it; leases are issued and end.
LEMMA OthersKeep ==
  ASSUME MailboxInv, NEW n \in NAMES, NEW k \in KEYS,
         RivalClaims(n) \/ RivalLeaves(n) \/ IssueHandle(n, k) \/ LeaseEnds(n)
  PROVE  MailboxInv'
<1>1. /\ HubTypeOK /\ WireTypeOK /\ RelayTypeOK /\ DeviceTypeOK /\ CountTypeOK
  BY DEF MailboxInv, TypeOK
<1>2. /\ UNCHANGED <<desired, claimed, inFlight, pending, mailbox, call, phase, up, down, atRelay,
                     lease, preferred, busy, made, grantedOn, offline>>
      /\ events' \in Nat
  BY <1>1 DEF RivalClaims, RivalLeaves, IssueHandle, LeaseEnds, Happens, CountTypeOK,
              hub, wire, leases, device, bounds, history
<1>3. /\ owner' \in [NAMES -> {0, Rival} \union Boxes]
      /\ \A m \in NAMES : owner'[m] # owner[m] => owner[m] \notin Boxes /\ owner'[m] \notin Boxes
  BY <1>1, Bounds DEF RivalClaims, RivalLeaves, IssueHandle, LeaseEnds, RelayTypeOK
<1>4. registry' \in [NAMES -> Entry] /\ issuedFor' \in [KEYS -> SomeName]
  <2>1. registry \in [NAMES -> Entry] /\ issuedFor \in [KEYS -> SomeName]
    BY <1>1 DEF RelayTypeOK
  <2>2. CASE RivalClaims(n) \/ RivalLeaves(n)
    BY <2>1, <2>2 DEF RivalClaims, RivalLeaves, leases
  <2>3. CASE IssueHandle(n, k)
    <3>1. Reserved(k) \in Entry /\ n \in SomeName
      BY MailboxAssumption, PublicKeyType DEF Reserved, Entry, SomeName
    <3> QED BY <2>1, <2>3, <3>1 DEF IssueHandle
  <2>4. CASE LeaseEnds(n)
    <3>1. Free \in Entry
      BY PublicKeyType DEF Free, Entry
    <3>2. [registry[n] EXCEPT !.expired = TRUE] \in Entry
      BY <2>1 DEF Entry
    <3> QED BY <2>1, <2>4, <3>1, <3>2 DEF LeaseEnds
  <2> QED BY <2>2, <2>3, <2>4
<1>5. TypeOK'
  BY <1>1, <1>2, <1>3, <1>4
  DEF TypeOK, HubTypeOK, WireTypeOK, RelayTypeOK, DeviceTypeOK, CountTypeOK
<1> QED BY <1>2, <1>3, <1>5, StillMailbox

----------------------------------------------------------------------------
(* The theorems.                                                           *)

LEMMA MailboxStart == ASSUME Init PROVE MailboxInv
<1>1. NoLease \in Lease /\ NoKey \in Key
  BY PublicKeyType DEF NoLease, Lease
<1>2. NoCall \in Call
  BY <1>1, Bounds DEF NoCall, Call, SomeName
<1>3. Free \in Entry /\ Reserved(1) \in Entry
  BY PublicKeyType DEF Free, Reserved, Entry
<1>4. HubTypeOK
  BY <1>2, Bounds DEF Init, HubTypeOK, SomeName
<1>5. WireTypeOK
  <2>1. <<>> \in Seq(UpFrame) /\ <<>> \in Seq(DownFrame)
    OBVIOUS
  <2> QED BY <2>1 DEF Init, WireTypeOK
<1>6. RelayTypeOK
  BY <1>3, MailboxAssumption DEF Init, RelayTypeOK, SomeName
<1>7. DeviceTypeOK /\ CountTypeOK
  <2>1. DeviceTypeOK
    BY <1>1 DEF Init, DeviceTypeOK, SomeName
  <2>2. made \in 0..MaxBoxes /\ grantedOn \in 0..MaxBoxes
    BY Bounds DEF Init
  <2> QED BY <2>1, <2>2 DEF Init, CountTypeOK
<1>8. BoxInv
  BY Bounds DEF Init, BoxInv
<1>9. CallInv
  BY DEF Init, CallInv, NoCall
<1>10. OfflineInv /\ ShownInv
  BY DEF Init, OfflineInv, ShownInv, ToldInv, UpInv
<1> QED BY <1>4, <1>5, <1>6, <1>7, <1>8, <1>9, <1>10 DEF MailboxInv, TypeOK

(* The invariant above: types, one live connection at a time, one call at  *)
(* most waiting for it, nothing wished for once offline, and what the      *)
(* device is told of the name it owns.                                     *)
THEOREM MailboxCorrect == Spec => []MailboxInv
<1>1. MailboxInv /\ [Next]_vars => MailboxInv'
  <2> SUFFICES ASSUME MailboxInv, [Next]_vars PROVE MailboxInv'
    OBVIOUS
  <2>1. CASE Screen
    BY <2>1, HandleSubmitKeeps, ForgetKeeps, GoOfflineKeeps, ReclaimKeeps DEF Screen
  <2>2. CASE Hub
    BY <2>2, OnHandleClaimedKeeps, OnErrorKeeps, BreaksKeeps, OnCloseKeeps DEF Hub
  <2>3. CASE PingFails \/ PendingExpires
    BY <2>3, PingFailsKeeps, PendingExpiresKeeps
  <2>4. CASE \E c \in Calls : CallStep(c)
    BY <2>4, ConnectsKeeps, ConnectFailsKeeps, SendsKeeps, FailureKeeps DEF CallStep
  <2>5. CASE RelayStep
    <3>1. 1 \in KEYS
      BY MailboxAssumption
    <3> QED BY <2>5, <3>1, RelayClaimKeeps, RelayUnclaimKeeps, RelayRefusesKeeps, RelaySeesKeeps,
               RelayHangsUpKeeps, OthersKeep DEF RelayStep
  <2>6. CASE UNCHANGED vars
    <3>1. TypeOK'
      BY <2>6 DEF MailboxInv, TypeOK, HubTypeOK, WireTypeOK, RelayTypeOK, DeviceTypeOK, CountTypeOK,
                  vars, hub, wire, relay, leases, device, bounds, history
    <3> QED BY <2>6, <3>1, StillMailbox DEF vars, hub, wire, relay, bounds, history, MailboxInv, TypeOK
  <2> QED BY <2>1, <2>2, <2>3, <2>4, <2>5, <2>6 DEF Next
<1> QED BY <1>1, MailboxStart, PTL DEF Spec

(* Once nothing is on its way over a connection in good order, the name on *)
(* the screen is the name the relay rings it for, whatever claims,         *)
(* reclaims, refusals and mistaken answers came before (claimHandle,       *)
(* handleMailboxMessage, handleClaimHandle).                               *)
THEOREM TheNameShownIsOwned == Spec => []ShownIsOwned
<1>1. MailboxInv => ShownIsOwned
  <2> SUFFICES ASSUME MailboxInv, mailbox \in atRelay, phase[mailbox] = "open",
                      down[mailbox] = <<>>, claimed = NoName \/ grantedOn = mailbox
               PROVE  OwnedBy(mailbox) = {claimed} \ {NoName}
    BY DEF ShownIsOwned, OwnedBy
  <2>1. mailbox \in Boxes
    BY DEF MailboxInv, TypeOK, RelayTypeOK
  <2>2. OwnedBy(mailbox) = IF grantedOn = mailbox THEN {claimed} ELSE {}
    BY <2>1 DEF MailboxInv, ShownInv, ToldInv
  <2>3. NoName \notin OwnedBy(mailbox)
    BY Bounds DEF OwnedBy
  <2> QED BY <2>2, <2>3
<1> QED BY <1>1, MailboxCorrect, PTL

(* Going offline is final: until the user asks again no name is shown, and *)
(* whatever the relay still holds belongs to a connection that is closed   *)
(* (unclaimHandle, reconnectAll).                                          *)
THEOREM OfflineStays == Spec => []OfflineIsFinal
<1>1. MailboxInv => OfflineIsFinal
  <2> SUFFICES ASSUME MailboxInv, offline, NEW n \in NAMES, owner[n] \in Boxes
               PROVE  claimed = NoName /\ phase[owner[n]] = "closed"
    BY DEF OfflineIsFinal, MailboxInv, OfflineInv
  <2>1. claimed = NoName /\ mailbox = 0
    BY DEF MailboxInv, OfflineInv
  <2>2. phase[owner[n]] \in {"none", "connecting", "open", "broken", "failed", "closed"}
    BY DEF MailboxInv, TypeOK, WireTypeOK
  <2>3. phase[owner[n]] \notin {"none", "connecting"}
    BY DEF MailboxInv, BoxInv
  <2>4. phase[owner[n]] \notin {"open", "broken", "failed"}
    BY <2>1, Bounds DEF MailboxInv, BoxInv
  <2> QED BY <2>1, <2>2, <2>3, <2>4
<1> QED BY <1>1, MailboxCorrect, PTL
=============================================================================
