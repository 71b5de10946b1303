------------------------------- MODULE Vault -------------------------------
(***************************************************************************)
(* The message vault of the two apps (services/vault.ts of apps/web and of *)
(* apps/mobile) and the screens that use it: the PIN pad, the settings,    *)
(* the list that reveals a message and the hub that stores one.            *)
(*                                                                         *)
(* A vault is a random key, held in memory, and its wrapping by a PIN,     *)
(* kept by the browser.  Each operation derives a key from the PIN, which  *)
(* takes a noticeable time, and JavaScript serves other events meanwhile:  *)
(* an operation is a CALL that starts, waits and ends in separate steps,   *)
(* and MaxCalls of them may overlap, as the pads stay on the screen while  *)
(* a call is pending and nothing but the mobile settings refuses a second. *)
(* The key made by a set-up is named by the salt drawn for it.             *)
(***************************************************************************)
EXTENDS Naturals, FiniteSets

CONSTANTS PINS,          \* the PINs the user may type
          MAX_FAILED,    \* wrong PINs before the vault pauses (5 in the code)
          MaxCalls,      \* bound: operations in flight
          MaxSalts,      \* bound: set-ups and changes of PIN
          MaxGuesses     \* bound: wrong PINs typed since the counter was cleared

ASSUME VaultAssumption ==
  /\ MAX_FAILED \in Nat \ {0} /\ MaxCalls \in Nat \ {0}
  /\ MaxSalts \in Nat \ {0} /\ MaxGuesses \in Nat

VARIABLES platform,       \* "web" or "mobile", fixed
          vaultKey,       \* the key in memory, NoKey when the vault is locked
          meta,           \* the wrapped key in memory
          saved,          \* the wrapped key in localStorage (web)
          failedAttempts, lockedOut,    \* lockedOut: Date.now() < lockUntil
          pad,            \* a screen is asking for the PIN
          step, hasPin,   \* the settings: their dialogue, what they last read
          chats, messages,        \* a chat is open; its messages, as stored
          calls, nextSalt,
          chosen,         \* history: the PIN of the last set-up or change
          tries,          \* history: wrong PINs typed since the counter was cleared
          collided,       \* history: a call ended over the vault another one made
          overtaken       \* history: an unlock ended after a change of the PIN

vault   == <<vaultKey, meta, saved>>
lockout == <<failedAttempts, lockedOut, tries>>
ui      == <<pad, step, hasPin>>
store   == <<chats, messages>>
history == <<chosen, collided, overtaken>>
vars    == <<platform, vault, lockout, ui, store, calls, nextSalt, history>>

NoKey == 0
AnyPin == CHOOSE p \in PINS : TRUE
Slots == 1..MaxCalls

\* The platform's primitives: a key derived from a PIN and a salt, the vault's
\* key encrypted with it, a message encrypted with the vault's key.
DerivePinKey(pin, salt)   == <<pin, salt>>
WrapVaultKey(key, pinKey) == [key |-> key, with |-> pinKey]
Unwraps(wrapped, pinKey)  == wrapped.with = pinKey
Encrypt(key)              == [with |-> key]

Meta(pin, salt, key) ==
  [salt |-> salt, wrappedKey |-> WrapVaultKey(key, DerivePinKey(pin, salt))]
NoMeta == Meta(AnyPin, 0, NoKey)

Opens(pin, m) == Unwraps(m.wrappedKey, DerivePinKey(pin, m.salt))

Idle == [op |-> "none", from |-> "none", stage |-> "none",
         pin |-> AnyPin, salt |-> 0, key |-> NoKey, meta |-> NoMeta]

Init ==
  /\ platform \in {"web", "mobile"}
  /\ vaultKey = NoKey /\ meta = NoMeta /\ saved = NoMeta
  /\ failedAttempts = 0 /\ lockedOut = FALSE
  /\ tries = 0
  /\ pad = FALSE /\ step = "closed" /\ hasPin = FALSE
  /\ chats = FALSE /\ messages = {}
  /\ calls = [s \in Slots |-> Idle] /\ nextSalt = 1
  /\ chosen = AnyPin /\ collided = FALSE /\ overtaken = FALSE

HasVault   == meta # NoMeta
IsUnlocked == vaultKey # NoKey
Sealing    == \E s \in Slots : calls[s].op = "seal"

-----------------------------------------------------------------------------
\* The calls.

Start(c) ==
  /\ \E s \in Slots : calls[s] = Idle
  /\ calls' = [calls EXCEPT ![CHOOSE s \in Slots : calls[s] = Idle] = c]

End(s) == calls' = [calls EXCEPT ![s] = Idle]

\* setup(pin) and rewrap(pin) draw their salt before they derive.
StartWithSalt(op, from, p) ==
  /\ nextSalt <= MaxSalts
  /\ Start([Idle EXCEPT !.op = op, !.from = from, !.stage = "derive",
                        !.pin = p, !.salt = nextSalt])
  /\ nextSalt' = nextSalt + 1
  /\ UNCHANGED lockout

\* unlock(pin) and verifyPin(pin): refused during a pause and without a vault.
\* Mutant of Attempt: a pause refuses nobody.
AttemptDuringAPause(op, from, p) ==
  /\ HasVault
  /\ tries < MaxGuesses
  /\ Start([Idle EXCEPT !.op = op, !.from = from, !.stage = "derive",
                        !.pin = p, !.meta = meta])
  /\ tries' = IF ~Opens(p, meta) THEN tries + 1 ELSE tries
  /\ UNCHANGED <<nextSalt, failedAttempts, lockedOut>>

Attempt(op, from, p) ==
  /\ HasVault
  /\ ~lockedOut
  /\ tries < MaxGuesses
  /\ Start([Idle EXCEPT !.op = op, !.from = from, !.stage = "derive",
                        !.pin = p, !.meta = meta])
  /\ tries' = IF ~Opens(p, meta) THEN tries + 1 ELSE tries
  /\ UNCHANGED <<nextSalt, failedAttempts, lockedOut>>

\* unlockOrSetupVault(pin), the web's way into the vault.
UnlockOrSetup(from, p) ==
  IF HasVault THEN Attempt("unlock", from, p) ELSE StartWithSalt("setup", from, p)

Right == failedAttempts' = 0 /\ tries' = 0 /\ UNCHANGED lockedOut

Wrong ==
  /\ failedAttempts' = (failedAttempts + 1) % MAX_FAILED
  /\ lockedOut' = (lockedOut \/ failedAttempts + 1 = MAX_FAILED)
  /\ UNCHANGED tries

\* A set-up, a lock and a reload clear the counter and the pause with it.
NoFailures == failedAttempts' = 0 /\ lockedOut' = FALSE /\ tries' = 0

\* What the screen that made the call does when it succeeds.
Succeeded(from) ==
  /\ pad' = (pad /\ from # "pad")
  /\ hasPin' = (hasPin \/ from \in {"set", "new"})
  /\ step' = CASE from \in {"set", "new"} -> "closed"
               [] from = "verify" -> "new"
               [] OTHER -> step

-----------------------------------------------------------------------------
\* The screens.

\* A screen that needs the vault asks for the PIN unless it is unlocked.
OpenPad ==
  /\ ~IsUnlocked /\ ~pad /\ pad' = TRUE
  /\ UNCHANGED <<platform, vault, lockout, step, hasPin, store, calls, nextSalt, history>>

CancelPad ==
  /\ pad /\ pad' = FALSE
  /\ UNCHANGED <<platform, vault, lockout, step, hasPin, store, calls, nextSalt, history>>

\* On the web the pad unlocks the vault of this browser or makes one.
EnterPin(p) ==
  /\ platform = "web" /\ pad
  /\ UnlockOrSetup("pad", p)
  /\ UNCHANGED <<platform, vault, ui, store, history>>

\* On the phone it always makes one.  The home screen refuses a second press
\* while the first is pending (isCreating); join, chat and name do not.
EnterNewPin(p) ==
  /\ platform = "mobile" /\ pad
  /\ StartWithSalt("setup", "pad", p)
  /\ UNCHANGED <<platform, vault, ui, store, history>>

OpenSettings ==
  /\ step = "closed" /\ hasPin # HasVault /\ hasPin' = HasVault
  /\ UNCHANGED <<platform, vault, lockout, pad, step, store, calls, nextSalt, history>>

ChangePin ==
  /\ step = "closed"
  /\ step' = IF hasPin THEN "verify" ELSE "set"
  /\ UNCHANGED <<platform, vault, lockout, pad, hasPin, store, calls, nextSalt, history>>

ClosePin ==
  /\ step # "closed" /\ step' = "closed"
  /\ UNCHANGED <<platform, vault, lockout, pad, hasPin, store, calls, nextSalt, history>>

\* The three dialogues of the settings on the web: handleSetPin,
\* handleVerifyCurrent and handleSetNew.
SettingsPin(p) ==
  /\ platform = "web"
  /\ \/ step \in {"set", "verify"} /\ UnlockOrSetup(step, p)
     \/ step = "new" /\ IsUnlocked /\ StartWithSalt("rewrap", "new", p)
  /\ UNCHANGED <<platform, vault, ui, store, history>>

\* The same three on the phone, one at a time (isProcessing).
SettingsPinOnPhone(p) ==
  /\ platform = "mobile"
  /\ \A s \in Slots : calls[s].from \notin {"set", "verify", "new"}
  /\ \/ step = "set" /\ StartWithSalt("setup", "set", p)
     \/ step = "verify" /\ Attempt("verify", "verify", p)
     \/ step = "new" /\ IsUnlocked /\ StartWithSalt("rewrap", "new", p)
  /\ UNCHANGED <<platform, vault, ui, store, history>>

\* A masked message is tapped and a PIN typed to reveal it.
Reveal(p) ==
  /\ messages # {}
  /\ Attempt("verify", "reveal", p)
  /\ UNCHANGED <<platform, vault, ui, store, history>>

-----------------------------------------------------------------------------
\* The ends of the calls.

\* setup: the new vault replaces whatever is there.  The web saves it in the
\* same step, the phone in a further call.
SetupEnds(s) ==
  /\ calls[s].op = "setup" /\ calls[s].stage = "derive"
  /\ vaultKey' = calls[s].salt
  /\ meta' = Meta(calls[s].pin, calls[s].salt, vaultKey')
  /\ saved' = IF platform = "web" THEN meta' ELSE saved
  /\ NoFailures
  /\ chosen' = calls[s].pin
  /\ collided' = (collided \/ IsUnlocked)
  /\ IF platform = "web"
     THEN Succeeded(calls[s].from) /\ End(s)
     ELSE calls' = [calls EXCEPT ![s].stage = "save"] /\ UNCHANGED ui
  /\ UNCHANGED <<platform, store, nextSalt, overtaken>>

\* unlock: the wrapping it started from is put back in memory and saved.
UnlockEnds(s) ==
  /\ calls[s].op = "unlock"
  /\ End(s)
  /\ IF Opens(calls[s].pin, calls[s].meta)
     THEN /\ vaultKey' = calls[s].meta.wrappedKey.key
          /\ meta' = calls[s].meta
          /\ saved' = calls[s].meta
          /\ overtaken' = (overtaken \/ calls[s].meta # meta)
          /\ Right
          /\ Succeeded(calls[s].from)
     ELSE Wrong /\ UNCHANGED <<vault, ui, overtaken>>
  /\ UNCHANGED <<platform, store, nextSalt, chosen, collided>>

\* verifyPin: the salt is read when it starts, the wrapped key when it ends.
VerifyEnds(s) ==
  /\ calls[s].op = "verify"
  /\ End(s)
  /\ IF HasVault /\ Unwraps(meta.wrappedKey, DerivePinKey(calls[s].pin, calls[s].meta.salt))
     THEN Right /\ Succeeded(calls[s].from)
     ELSE Wrong /\ UNCHANGED ui
  /\ UNCHANGED <<platform, vault, store, nextSalt, history>>

\* rewrap, after the derivation: the key is exported and wrapped.  It fails on
\* a vault locked meanwhile.
RewrapTakesKey(s) ==
  /\ calls[s].op = "rewrap" /\ calls[s].stage = "derive"
  /\ IF IsUnlocked
     THEN calls' = [calls EXCEPT ![s].stage = "wrap", ![s].key = vaultKey]
     ELSE End(s)
  /\ UNCHANGED <<platform, vault, lockout, ui, store, nextSalt, history>>

\* Then the new wrapping takes the place of the old, whatever the vault holds
\* by now.
\* Mutant of RewrapEnds: the new wrapping is not saved.
RewrapEndsUnsaved(s) ==
  /\ calls[s].op = "rewrap" /\ calls[s].stage = "wrap"
  /\ meta' = Meta(calls[s].pin, calls[s].salt, calls[s].key)
  /\ chosen' = calls[s].pin
  /\ collided' = (collided \/ calls[s].key # vaultKey)
  /\ IF platform = "web"
     THEN Succeeded(calls[s].from) /\ End(s)
     ELSE calls' = [calls EXCEPT ![s].stage = "save"] /\ UNCHANGED ui
  /\ UNCHANGED <<platform, vaultKey, saved, lockout, store, nextSalt, overtaken>>

RewrapEnds(s) ==
  /\ calls[s].op = "rewrap" /\ calls[s].stage = "wrap"
  /\ meta' = Meta(calls[s].pin, calls[s].salt, calls[s].key)
  /\ saved' = IF platform = "web" THEN meta' ELSE saved
  /\ chosen' = calls[s].pin
  /\ collided' = (collided \/ calls[s].key # vaultKey)
  /\ IF platform = "web"
     THEN Succeeded(calls[s].from) /\ End(s)
     ELSE calls' = [calls EXCEPT ![s].stage = "save"] /\ UNCHANGED ui
  /\ UNCHANGED <<platform, vaultKey, lockout, store, nextSalt, overtaken>>

\* The phone has stored the wrapped key.  A screen goes on to open its chat.
Saved(s) ==
  /\ calls[s].stage = "save"
  /\ Succeeded(calls[s].from)
  /\ IF calls[s].from = "pad"
     THEN calls' = [calls EXCEPT ![s].stage = "open"]
     ELSE End(s)
  /\ UNCHANGED <<platform, vault, lockout, store, nextSalt, history>>

\* lock() on the phone forgets the wrapped key as well.
Lock ==
  /\ vaultKey' = NoKey /\ meta' = NoMeta /\ saved' = saved
  /\ NoFailures

\* The chat a new PIN was chosen for is opened.
ChatOpened(s) ==
  /\ calls[s].stage = "open"
  /\ chats' = TRUE
  /\ End(s)
  /\ UNCHANGED <<platform, vault, lockout, ui, messages, nextSalt, history>>

\* It could not be opened, or the wrapped key not stored: clearVault().
SetupFailed(s) ==
  /\ \/ calls[s].stage = "open"
     \/ calls[s].stage = "save" /\ calls[s].from = "pad"
  /\ Lock
  /\ End(s)
  /\ collided' = (collided \/ messages # {} \/ Sealing)
  /\ UNCHANGED <<platform, ui, store, nextSalt, chosen, overtaken>>

\* The settings could not store the wrapped key and say so.
SaveFailed(s) ==
  /\ calls[s].stage = "save" /\ calls[s].from # "pad"
  /\ End(s)
  /\ UNCHANGED <<platform, vault, lockout, ui, store, nextSalt, history>>

-----------------------------------------------------------------------------
\* The chats, the clock and the page.

OpenChat ==
  /\ IsUnlocked /\ ~chats /\ chats' = TRUE
  /\ UNCHANGED <<platform, vault, lockout, ui, messages, calls, nextSalt, history>>

\* ingestPlaintextMessage: encrypt() takes the key of this moment.
Receive ==
  /\ chats /\ IsUnlocked
  /\ Start([Idle EXCEPT !.op = "seal", !.from = "hub", !.stage = "seal", !.key = vaultKey])
  /\ UNCHANGED <<platform, vault, lockout, ui, store, nextSalt, history>>

\* addMessage, which brings back a chat that was closed meanwhile.
Stored(s) ==
  /\ calls[s].op = "seal"
  /\ messages' = messages \union {Encrypt(calls[s].key)}
  /\ chats' = TRUE
  /\ End(s)
  /\ UNCHANGED <<platform, vault, lockout, ui, nextSalt, history>>

\* The last chat is removed.  maybeLockVault locks the phone's vault unless a
\* name is claimed; the web's does nothing.
\* Mutant of CloseChat: the vault is locked with a chat still open.
CloseChatLocksEarly ==
  /\ chats
  /\ chats' \in BOOLEAN /\ messages' = IF chats' THEN messages ELSE {}
  /\ IF platform = "mobile"
     THEN Lock /\ collided' = (collided \/ Sealing)
     ELSE UNCHANGED <<vault, lockout, collided>>
  /\ UNCHANGED <<platform, ui, calls, nextSalt, chosen, overtaken>>

CloseChat ==
  /\ chats
  /\ chats' = FALSE /\ messages' = {}
  /\ \/ platform = "mobile" /\ Lock /\ collided' = (collided \/ Sealing)
     \/ UNCHANGED <<vault, lockout, collided>>
  /\ UNCHANGED <<platform, ui, calls, nextSalt, chosen, overtaken>>

\* The name is released with no chat left: the phone's vault is locked.
ReleaseName ==
  /\ platform = "mobile" /\ ~chats /\ IsUnlocked
  /\ Lock
  /\ collided' = (collided \/ Sealing)
  /\ UNCHANGED <<platform, ui, store, calls, nextSalt, chosen, overtaken>>

\* The 30 seconds of a pause are over.
PauseEnds ==
  /\ lockedOut /\ lockedOut' = FALSE /\ tries' = 0
  /\ UNCHANGED <<platform, vault, failedAttempts, ui, store, calls, nextSalt, history>>

\* The page is loaded again, or the app started again.  Only the web reads
\* what was saved (no screen of the phone calls unlock).
Reload ==
  /\ nextSalt > 1
  /\ vaultKey' = NoKey
  /\ meta' = IF platform = "web" THEN saved ELSE NoMeta
  /\ NoFailures
  /\ pad' = FALSE /\ step' = "closed" /\ hasPin' = FALSE
  /\ chats' = FALSE /\ messages' = {}
  /\ calls' = [s \in Slots |-> Idle]
  /\ UNCHANGED <<platform, saved, nextSalt, history>>

Screens ==
  \/ OpenPad \/ CancelPad \/ OpenSettings \/ ChangePin \/ ClosePin
  \/ \E p \in PINS : \/ EnterPin(p) \/ EnterNewPin(p) \/ Reveal(p)
                     \/ SettingsPin(p) \/ SettingsPinOnPhone(p)

Ends(s) ==
  \/ SetupEnds(s) \/ UnlockEnds(s) \/ VerifyEnds(s)
  \/ RewrapTakesKey(s) \/ RewrapEnds(s)
  \/ Saved(s) \/ ChatOpened(s) \/ SetupFailed(s) \/ SaveFailed(s)
  \/ Stored(s)

Next ==
  \/ Screens
  \/ \E s \in Slots : Ends(s)
  \/ OpenChat \/ Receive \/ CloseChat \/ ReleaseName \/ PauseEnds \/ Reload

Spec == Init /\ [][Next]_vars

-----------------------------------------------------------------------------
\* messageVault.decrypt() returns the text, and what a message bubble shows.
Decrypts(message) == IsUnlocked /\ message.with = vaultKey
Body(message) == IF Decrypts(message) THEN "text" ELSE "Unable to decrypt"

\* Whatever attempts, changes of PIN, locks and reloads overlap, the messages
\* on the screen are sealed with the key in memory and the PIN opens that same
\* key.  Only four steps can cost the user a message, and collided marks them:
\* a set-up that ends over a vault unlocked meanwhile and a change of PIN that
\* ends over another key than it wrapped (vault.ts looks at the vault before
\* the derivation and not again), and, on the phone, a lock or a failed set-up
\* while a chat still holds, or is sealing, a message.
Readable ==
  messages # {} /\ ~collided => /\ \A m \in messages : Body(m) = "text"
                                /\ meta.wrappedKey.key = vaultKey

\* The PIN that opens the vault, now or after the page is loaded again, is the
\* one the user chose last.  unlock() is the one exception: it saves the
\* wrapping it started from, and so takes back a change of PIN that ended
\* while it was deriving; overtaken marks it.
OpensWithTheChosenPin ==
  /\ HasVault /\ ~overtaken => Opens(chosen, meta)
  /\ saved # NoMeta /\ ~overtaken => Opens(chosen, saved)

\* The counter of wrong PINs and lockUntil are read before the derivation and
\* written after it, and attempts overlap: from one clearing of the counter to
\* the next, at most MAX_FAILED wrong PINs are tried, and as many more as
\* overlap the last of them.  This limits the guesses between two pauses only
\* while nothing else clears the counter, which is held in memory alone: a
\* right PIN does, and so do a set-up, a lock and a load of the page, after
\* which the guesses go on without a pause.
GuessesAreLimited == tries < MAX_FAILED + MaxCalls
=============================================================================
