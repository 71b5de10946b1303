---------------------------- MODULE VaultProofs ----------------------------
(***************************************************************************)
(* What the vault promises, for any number of PINs, of operations in       *)
(* flight and of attempts before a pause.                                  *)
(***************************************************************************)
EXTENDS Vault, FiniteSetTheorems, TLAPS

-----------------------------------------------------------------------------
(* Types.                                                                  *)

\* Also when there is no PIN to type: an idle call has AnyPin all the same.
Pins  == PINS \cup {AnyPin}
Metas == [salt : Nat, wrappedKey : [key : Nat, with : Pins \X Nat]]

Ops     == {"none", "setup", "rewrap", "unlock", "verify", "seal"}
Origins == {"none", "pad", "set", "verify", "new", "reveal", "hub"}
Stages  == {"none", "derive", "wrap", "save", "open", "seal"}
CallT   == [op : Ops, from : Origins, stage : Stages,
            pin : Pins, salt : Nat, key : Nat, meta : Metas]

VaultTypeOK ==
  /\ platform \in {"web", "mobile"}
  /\ vaultKey \in Nat /\ meta \in Metas /\ saved \in Metas
  /\ failedAttempts \in 0..MAX_FAILED - 1 /\ lockedOut \in BOOLEAN
  /\ tries \in Nat
  /\ pad \in BOOLEAN /\ hasPin \in BOOLEAN /\ step \in {"closed", "set", "verify", "new"}
  /\ chats \in BOOLEAN /\ messages \subseteq [with : Nat]
  /\ calls \in [Slots -> CallT] /\ nextSalt \in Nat
  /\ chosen \in Pins /\ collided \in BOOLEAN /\ overtaken \in BOOLEAN

LEMMA MetaTyped ==
  ASSUME NEW p \in Pins, NEW salt \in Nat, NEW key \in Nat
  PROVE  Meta(p, salt, key) \in Metas
BY DEF Meta, Metas, WrapVaultKey, DerivePinKey

LEMMA IdleTyped == Idle \in CallT /\ NoMeta \in Metas
<1>1. NoMeta \in Metas
  BY MetaTyped DEF NoMeta, NoKey, Pins
<1> QED BY <1>1 DEF Idle, CallT, Ops, Origins, Stages, NoKey, Pins

\* A call starts in a slot that was idle.
LEMMA StartTakesASlot ==
  ASSUME NEW c, Start(c)
  PROVE  \E s \in Slots : calls[s] = Idle /\ calls' = [calls EXCEPT ![s] = c]
<1> DEFINE slot == CHOOSE s \in Slots : calls[s] = Idle
<1>1. slot \in Slots /\ calls[slot] = Idle
  BY DEF Start
<1>2. calls' = [calls EXCEPT ![slot] = c]
  BY DEF Start
<1> QED BY <1>1, <1>2

LEMMA StartTyped ==
  ASSUME calls \in [Slots -> CallT], NEW c \in CallT, Start(c)
  PROVE  calls' \in [Slots -> CallT]
BY StartTakesASlot

LEMMA SaltTyped ==
  ASSUME VaultTypeOK, NEW op \in Ops, NEW from \in Origins, NEW p \in PINS,
         StartWithSalt(op, from, p)
  PROVE  calls' \in [Slots -> CallT] /\ nextSalt' \in Nat /\ UNCHANGED lockout
<1> DEFINE c == [Idle EXCEPT !.op = op, !.from = from, !.stage = "derive",
                             !.pin = p, !.salt = nextSalt]
<1>1. c \in CallT
  BY IdleTyped DEF CallT, Stages, Pins, VaultTypeOK
<1> QED BY <1>1, StartTyped DEF StartWithSalt, VaultTypeOK

LEMMA AttemptTyped ==
  ASSUME VaultTypeOK, NEW op \in Ops, NEW from \in Origins, NEW p \in PINS,
         Attempt(op, from, p)
  PROVE  calls' \in [Slots -> CallT] /\ tries' \in Nat
<1> DEFINE c == [Idle EXCEPT !.op = op, !.from = from, !.stage = "derive",
                             !.pin = p, !.meta = meta]
<1>1. c \in CallT
  BY IdleTyped DEF CallT, Stages, Pins, VaultTypeOK
<1> QED BY <1>1, StartTyped DEF Attempt, VaultTypeOK

LEMMA EndTyped ==
  ASSUME calls \in [Slots -> CallT], NEW s \in Slots, End(s)
  PROVE  calls' \in [Slots -> CallT]
BY IdleTyped DEF End

LEMMA SucceededTyped ==
  ASSUME VaultTypeOK, NEW from \in Origins, Succeeded(from)
  PROVE  /\ pad' \in BOOLEAN /\ hasPin' \in BOOLEAN
         /\ step' \in {"closed", "set", "verify", "new"}
BY DEF VaultTypeOK, Succeeded

LEMMA WrongTyped ==
  ASSUME VaultTypeOK, Wrong
  PROVE  failedAttempts' \in 0..MAX_FAILED - 1 /\ lockedOut' \in BOOLEAN
BY VaultAssumption DEF VaultTypeOK, Wrong

LEMMA NoFailuresTyped ==
  ASSUME VaultTypeOK, NoFailures
  PROVE  /\ failedAttempts' \in 0..MAX_FAILED - 1 /\ lockedOut' \in BOOLEAN
         /\ tries' \in Nat
<1>1. lockedOut' \in BOOLEAN
  BY Zenon DEF NoFailures
<1>2. failedAttempts' \in 0..MAX_FAILED - 1 /\ tries' \in Nat
  BY VaultAssumption DEF VaultTypeOK, NoFailures
<1> QED BY <1>1, <1>2

LEMMA ScreensTyped ==
  ASSUME VaultTypeOK, Screens
  PROVE  VaultTypeOK'
<1>0. {"setup", "unlock", "verify", "rewrap"} \subseteq Ops
      /\ {"pad", "set", "verify", "new", "reveal"} \subseteq Origins
  BY DEF Ops, Origins
<1>1. CASE OpenPad \/ CancelPad \/ OpenSettings \/ ChangePin \/ ClosePin
  <2>1. CASE OpenPad \/ CancelPad
    BY <2>1 DEF OpenPad, CancelPad, VaultTypeOK, vault, lockout, store, history
  <2>2. CASE OpenSettings
    BY <2>2 DEF OpenSettings, HasVault, VaultTypeOK, vault, lockout, store, history
  <2>3. CASE ChangePin \/ ClosePin
    BY <2>3 DEF ChangePin, ClosePin, VaultTypeOK, vault, lockout, store, history
  <2> QED BY <1>1, <2>1, <2>2, <2>3
<1>2. ASSUME NEW p \in PINS, NEW op \in Ops, NEW from \in Origins,
             StartWithSalt(op, from, p),
             UNCHANGED <<platform, vault, ui, store, history>>
      PROVE  VaultTypeOK'
  BY <1>2, SaltTyped DEF VaultTypeOK, vault, lockout, ui, store, history
<1>3. ASSUME NEW p \in PINS, NEW op \in Ops, NEW from \in Origins,
             Attempt(op, from, p),
             UNCHANGED <<platform, vault, ui, store, history>>
      PROVE  VaultTypeOK'
  BY <1>3, AttemptTyped DEF Attempt, VaultTypeOK, vault, lockout, ui, store, history
<1>4. ASSUME NEW p \in PINS, EnterPin(p) \/ EnterNewPin(p) \/ Reveal(p)
      PROVE  VaultTypeOK'
  BY <1>0, <1>2, <1>3, <1>4 DEF EnterPin, EnterNewPin, Reveal, UnlockOrSetup
<1>5. ASSUME NEW p \in PINS, SettingsPin(p) \/ SettingsPinOnPhone(p)
      PROVE  VaultTypeOK'
  BY <1>0, <1>2, <1>3, <1>5 DEF SettingsPin, SettingsPinOnPhone, UnlockOrSetup
<1> QED BY <1>1, <1>4, <1>5 DEF Screens

LEMMA EndsAreTyped ==
  ASSUME VaultTypeOK, NEW s \in Slots, Ends(s)
  PROVE  VaultTypeOK'
<1> DEFINE c == calls[s]
<1>0. c \in CallT
  BY DEF VaultTypeOK
<1>1. /\ c.from \in Origins /\ c.salt \in Nat /\ c.pin \in Pins /\ c.key \in Nat
      /\ c.meta \in Metas /\ c.meta.wrappedKey.key \in Nat
  BY <1>0 DEF CallT, Metas
<1>2. 0 \in 0..MAX_FAILED - 1
  BY VaultAssumption
<1>3. NoFailures => failedAttempts' \in 0..MAX_FAILED - 1 /\ lockedOut' \in BOOLEAN
                    /\ tries' \in Nat
  BY NoFailuresTyped
<1>4. Right => failedAttempts' \in 0..MAX_FAILED - 1 /\ lockedOut' \in BOOLEAN
               /\ tries' \in Nat
  BY <1>2 DEF Right, VaultTypeOK
<1>5. Wrong => failedAttempts' \in 0..MAX_FAILED - 1 /\ lockedOut' \in BOOLEAN
               /\ tries' \in Nat
  BY WrongTyped DEF Wrong, VaultTypeOK
<1>6. UNCHANGED ui \/ Succeeded(c.from) =>
          /\ pad' \in BOOLEAN /\ hasPin' \in BOOLEAN
          /\ step' \in {"closed", "set", "verify", "new"}
  BY <1>1, SucceededTyped DEF ui, VaultTypeOK
<1>7. End(s) => calls' \in [Slots -> CallT]
  BY EndTyped DEF VaultTypeOK
<1>8. \A stage \in Stages : [calls EXCEPT ![s].stage = stage] \in [Slots -> CallT]
  BY <1>0 DEF VaultTypeOK, CallT
<1>9. {"wrap", "save", "open"} \subseteq Stages
  BY DEF Stages
<1>10. CASE SetupEnds(s)
  <2>1. vaultKey' \in Nat /\ meta' \in Metas
    BY <1>1, <1>10, MetaTyped DEF SetupEnds
  <2>2. calls' \in [Slots -> CallT] /\ (UNCHANGED ui \/ Succeeded(c.from))
    BY <1>7, <1>8, <1>9, <1>10 DEF SetupEnds
  <2> QED BY <1>1, <1>3, <1>6, <1>10, <2>1, <2>2 DEF SetupEnds, VaultTypeOK, store
<1>11. CASE UnlockEnds(s)
  <2>1. vaultKey' \in Nat /\ meta' \in Metas /\ saved' \in Metas /\ overtaken' \in BOOLEAN
    BY <1>1, <1>11 DEF UnlockEnds, VaultTypeOK, vault
  <2>2. (Right \/ Wrong) /\ (UNCHANGED ui \/ Succeeded(c.from))
    BY <1>11 DEF UnlockEnds
  <2> QED BY <1>4, <1>5, <1>6, <1>7, <1>11, <2>1, <2>2 DEF UnlockEnds, VaultTypeOK, store
<1>12. CASE VerifyEnds(s)
  <2>1. (Right \/ Wrong) /\ (UNCHANGED ui \/ Succeeded(c.from))
    BY <1>12 DEF VerifyEnds
  <2> QED BY <1>4, <1>5, <1>6, <1>7, <1>12, <2>1 DEF VerifyEnds, VaultTypeOK, vault, store, history
<1>13. CASE RewrapTakesKey(s)
  <2>1. [calls EXCEPT ![s].stage = "wrap", ![s].key = vaultKey] \in [Slots -> CallT]
    BY <1>0, <1>9 DEF VaultTypeOK, CallT
  <2>2. calls' \in [Slots -> CallT]
    BY <1>7, <1>13, <2>1 DEF RewrapTakesKey
  <2> QED BY <1>13, <2>2 DEF RewrapTakesKey, VaultTypeOK, vault, lockout, ui, store, history
<1>14. CASE RewrapEnds(s)
  <2>1. meta' \in Metas
    BY <1>1, <1>14, MetaTyped DEF RewrapEnds
  <2>2. calls' \in [Slots -> CallT] /\ (UNCHANGED ui \/ Succeeded(c.from))
    BY <1>7, <1>8, <1>9, <1>14 DEF RewrapEnds
  <2> QED BY <1>1, <1>6, <1>14, <2>1, <2>2 DEF RewrapEnds, VaultTypeOK, lockout, store
<1>15. CASE Saved(s)
  <2>1. calls' \in [Slots -> CallT]
    BY <1>7, <1>8, <1>9, <1>15 DEF Saved
  <2> QED BY <1>6, <1>15, <2>1 DEF Saved, VaultTypeOK, vault, lockout, store, history
<1>16. CASE ChatOpened(s)
  BY <1>7, <1>16 DEF ChatOpened, VaultTypeOK, vault, lockout, ui, history
<1>17. CASE SetupFailed(s)
  <2>1. collided' \in BOOLEAN
    BY <1>17, Zenon DEF SetupFailed, VaultTypeOK, Sealing
  <2> QED BY <1>3, <1>7, <1>17, <2>1, IdleTyped DEF SetupFailed, Lock, VaultTypeOK, ui, store, NoKey
<1>18. CASE SaveFailed(s)
  BY <1>7, <1>18 DEF SaveFailed, VaultTypeOK, vault, lockout, ui, store, history
<1>19. CASE Stored(s)
  BY <1>1, <1>7, <1>19 DEF Stored, Encrypt, VaultTypeOK, vault, lockout, ui, history
<1> QED BY <1>10, <1>11, <1>12, <1>13, <1>14, <1>15, <1>16, <1>17, <1>18, <1>19 DEF Ends

LEMMA OthersAreTyped ==
  ASSUME VaultTypeOK,
         OpenChat \/ Receive \/ CloseChat \/ ReleaseName \/ PauseEnds \/ Reload
  PROVE  VaultTypeOK'
<1>1. CASE OpenChat
  BY <1>1 DEF OpenChat, VaultTypeOK, vault, lockout, ui, history
<1>2. CASE Receive
  <2>1. [Idle EXCEPT !.op = "seal", !.from = "hub", !.stage = "seal", !.key = vaultKey] \in CallT
    BY IdleTyped DEF CallT, Ops, Origins, Stages, VaultTypeOK
  <2>2. calls' \in [Slots -> CallT]
    BY <1>2, <2>1, StartTyped DEF Receive, VaultTypeOK
  <2> QED BY <1>2, <2>2 DEF Receive, VaultTypeOK, vault, lockout, ui, store, history
<1>3. CASE PauseEnds
  <2>1. lockedOut' \in BOOLEAN
    BY <1>3, Zenon DEF PauseEnds
  <2> QED BY <1>3, <2>1 DEF PauseEnds, VaultTypeOK, vault, ui, store, history
<1>4. Lock => /\ vaultKey' \in Nat /\ meta' \in Metas /\ saved' \in Metas
              /\ failedAttempts' \in 0..MAX_FAILED - 1
              /\ lockedOut' \in BOOLEAN /\ tries' \in Nat
  BY IdleTyped, NoFailuresTyped DEF Lock, NoKey, VaultTypeOK
<1>5. (collided \/ Sealing) \in BOOLEAN
  OBVIOUS
<1>6. CASE CloseChat
  BY <1>4, <1>5, <1>6 DEF CloseChat, VaultTypeOK, vault, lockout, ui
<1>7. CASE ReleaseName
  BY <1>4, <1>5, <1>7 DEF ReleaseName, VaultTypeOK, ui, store
<1>8. CASE Reload
  BY <1>8, IdleTyped, NoFailuresTyped DEF Reload, NoKey, VaultTypeOK, history
<1> QED BY <1>1, <1>2, <1>3, <1>6, <1>7, <1>8

THEOREM VaultTypeCorrect == Spec => []VaultTypeOK
<1>1. Init => VaultTypeOK
  <2>1. Init => lockedOut \in BOOLEAN /\ collided \in BOOLEAN /\ overtaken \in BOOLEAN
                /\ pad \in BOOLEAN /\ hasPin \in BOOLEAN /\ chats \in BOOLEAN
    BY Zenon DEF Init
  <2>2. Init => calls \in [Slots -> CallT] /\ meta \in Metas /\ saved \in Metas
    BY IdleTyped DEF Init
  <2>3. Init => failedAttempts \in 0..MAX_FAILED - 1
    BY VaultAssumption DEF Init
  <2> QED BY <2>1, <2>2, <2>3 DEF Init, VaultTypeOK, NoKey, Pins
<1>2. VaultTypeOK /\ [Next]_vars => VaultTypeOK'
  <2>1. VaultTypeOK /\ UNCHANGED vars => VaultTypeOK'
    BY DEF vars, vault, lockout, ui, store, history, VaultTypeOK
  <2> QED BY <2>1, ScreensTyped, EndsAreTyped, OthersAreTyped DEF Next
<1> QED BY <1>1, <1>2, PTL DEF Spec

-----------------------------------------------------------------------------
(* What is in flight.  The safety properties need to know which calls can  *)
(* be at which stage, and that no wrapping of a missing key is ever made.  *)

Guessing == {"unlock", "verify"}

CallInv(c) ==
  /\ c.op = "none" => c.stage = "none"
  /\ c.op \in Guessing => c.stage = "derive"
  /\ c.op = "seal" => c.stage = "seal"
  /\ c.op = "setup" => c.salt # 0
  /\ c.op = "unlock" => c.meta.wrappedKey.key # NoKey
  /\ c.op = "rewrap" /\ c.stage = "wrap" => c.key # NoKey
  /\ platform = "web" => c.stage \notin {"save", "open"}
  /\ platform = "mobile" => c.op # "unlock"

FlightInv ==
  /\ nextSalt # 0
  /\ HasVault => meta.wrappedKey.key # NoKey
  /\ saved # NoMeta => saved.wrappedKey.key # NoKey
  /\ platform = "web" => meta = saved
  /\ platform = "mobile" => saved = NoMeta
  /\ messages # {} => chats
  /\ \A s \in Slots : CallInv(calls[s])

\* The wrong PINs typed are those counted and those whose call has not ended.
Attempting == {s \in Slots : calls[s].op \in Guessing}

GuessInv ==
  /\ ~lockedOut => tries <= failedAttempts + Cardinality(Attempting)
  /\ lockedOut => tries < MAX_FAILED + MaxCalls

\* A change of the PIN is lost to an unlock only if the unlock is overtaken.
ChosenInv == HasVault /\ ~overtaken => Opens(chosen, meta)

\* Until a collision one key is in use: the wrapping in memory, the messages
\* stored and those being sealed are all of it, and an unlock in flight will
\* bring back no other.  On the web a set-up that has been overtaken by the
\* making of a vault finds it unlocked.
OneKeyInv ==
  ~collided =>
    /\ IsUnlocked => meta.wrappedKey.key = vaultKey
    /\ messages # {} => IsUnlocked
    /\ \A m \in messages : m.with = vaultKey
    /\ \A s \in Slots :
         /\ calls[s].op = "seal" => IsUnlocked /\ calls[s].key = vaultKey
         /\ calls[s].op = "unlock" =>
              HasVault /\ calls[s].meta.wrappedKey.key = meta.wrappedKey.key
         /\ platform = "web" /\ calls[s].op = "setup" /\ HasVault => IsUnlocked

-----------------------------------------------------------------------------
(* One step changes one call.                                              *)

Only(s) == \A t \in Slots \ {s} : calls'[t] = calls[t]

LEMMA SaltCall ==
  ASSUME VaultTypeOK, NEW op, NEW from, NEW p, StartWithSalt(op, from, p)
  PROVE  \E s \in Slots :
           /\ Only(s) /\ calls[s] = Idle
           /\ calls'[s].op = op /\ calls'[s].stage = "derive" /\ calls'[s].salt = nextSalt
<1> DEFINE c == [Idle EXCEPT !.op = op, !.from = from, !.stage = "derive",
                             !.pin = p, !.salt = nextSalt]
<1>1. c.op = op /\ c.stage = "derive" /\ c.salt = nextSalt
  BY DEF Idle
<1>2. Start(c)
  BY DEF StartWithSalt
<1> HIDE DEF c
<1>3. PICK s \in Slots : calls[s] = Idle /\ calls' = [calls EXCEPT ![s] = c]
  BY <1>2, StartTakesASlot
<1>4. calls'[s] = c /\ Only(s)
  BY <1>3 DEF Only, VaultTypeOK
<1> QED BY <1>1, <1>3, <1>4

LEMMA AttemptCall ==
  ASSUME VaultTypeOK, NEW op, NEW from, NEW p, Attempt(op, from, p)
  PROVE  \E s \in Slots :
           /\ Only(s) /\ calls[s] = Idle
           /\ calls'[s].op = op /\ calls'[s].stage = "derive" /\ calls'[s].meta = meta
<1> DEFINE c == [Idle EXCEPT !.op = op, !.from = from, !.stage = "derive",
                             !.pin = p, !.meta = meta]
<1>1. c.op = op /\ c.stage = "derive" /\ c.meta = meta
  BY DEF Idle
<1>2. Start(c)
  BY DEF Attempt
<1> HIDE DEF c
<1>3. PICK s \in Slots : calls[s] = Idle /\ calls' = [calls EXCEPT ![s] = c]
  BY <1>2, StartTakesASlot
<1>4. calls'[s] = c /\ Only(s)
  BY <1>3 DEF Only, VaultTypeOK
<1> QED BY <1>1, <1>3, <1>4

LEMMA ReceiveCall ==
  ASSUME VaultTypeOK, Receive
  PROVE  \E s \in Slots :
           /\ Only(s) /\ calls[s] = Idle
           /\ calls'[s].op = "seal" /\ calls'[s].stage = "seal" /\ calls'[s].key = vaultKey
<1> DEFINE c == [Idle EXCEPT !.op = "seal", !.from = "hub", !.stage = "seal", !.key = vaultKey]
<1>1. c.op = "seal" /\ c.stage = "seal" /\ c.key = vaultKey
  BY DEF Idle
<1>2. Start(c)
  BY DEF Receive
<1> HIDE DEF c
<1>3. PICK s \in Slots : calls[s] = Idle /\ calls' = [calls EXCEPT ![s] = c]
  BY <1>2, StartTakesASlot
<1>4. calls'[s] = c /\ Only(s)
  BY <1>3 DEF Only, VaultTypeOK
<1> QED BY <1>1, <1>3, <1>4

LEMMA EndCall ==
  ASSUME VaultTypeOK, NEW s \in Slots, End(s)
  PROVE  Only(s) /\ calls'[s] = Idle
BY DEF End, Only, VaultTypeOK

LEMMA StageCall ==
  ASSUME VaultTypeOK, NEW s \in Slots, NEW stage,
         calls' = [calls EXCEPT ![s].stage = stage]
  PROVE  /\ Only(s) /\ calls'[s].stage = stage
         /\ calls'[s].op = calls[s].op /\ calls'[s].salt = calls[s].salt
         /\ calls'[s].key = calls[s].key /\ calls'[s].meta = calls[s].meta
BY DEF Only, VaultTypeOK, CallT

LEMMA WrapCall ==
  ASSUME VaultTypeOK, NEW s \in Slots, NEW stage, NEW key,
         calls' = [calls EXCEPT ![s].stage = stage, ![s].key = key]
  PROVE  /\ Only(s) /\ calls'[s].stage = stage /\ calls'[s].key = key
         /\ calls'[s].op = calls[s].op
BY DEF Only, VaultTypeOK, CallT

\* What a screen can start, and where.
ScreenCalls ==
  \/ UNCHANGED <<calls, nextSalt, lockout>>
  \/ \E p, from : StartWithSalt("setup", from, p) /\ (platform = "web" => ~HasVault)
  \/ \E p, from : StartWithSalt("rewrap", from, p)
  \/ \E p, from : Attempt("unlock", from, p) /\ platform = "web"
  \/ \E p, from : Attempt("verify", from, p)

LEMMA ScreenStep ==
  ASSUME Screens
  PROVE  UNCHANGED <<platform, vault, store, history>> /\ ScreenCalls
<1>1. CASE OpenPad \/ CancelPad \/ OpenSettings \/ ChangePin \/ ClosePin
  BY <1>1 DEF OpenPad, CancelPad, OpenSettings, ChangePin, ClosePin, ScreenCalls
<1>2. ASSUME NEW p \in PINS, EnterPin(p) \/ EnterNewPin(p) \/ Reveal(p)
      PROVE  UNCHANGED <<platform, vault, store, history>> /\ ScreenCalls
  BY <1>2 DEF EnterPin, EnterNewPin, Reveal, UnlockOrSetup, ScreenCalls
<1>3. ASSUME NEW p \in PINS, SettingsPin(p) \/ SettingsPinOnPhone(p)
      PROVE  UNCHANGED <<platform, vault, store, history>> /\ ScreenCalls
  BY <1>3 DEF SettingsPin, SettingsPinOnPhone, UnlockOrSetup, ScreenCalls
<1> QED BY <1>1, <1>2, <1>3 DEF Screens

-----------------------------------------------------------------------------
(* The calls in flight.                                                    *)

LEMMA IdleCallInv == CallInv(Idle) /\ CallInv(Idle)'
BY DEF CallInv, Idle, Guessing

LEMMA CallInvKept ==
  ASSUME NEW s \in Slots, Only(s), UNCHANGED platform, FlightInv, CallInv(calls[s])'
  PROVE  \A t \in Slots : CallInv(calls[t])'
<1> SUFFICES ASSUME NEW t \in Slots \ {s} PROVE CallInv(calls[t])'
  OBVIOUS
<1>1. calls'[t] = calls[t] /\ CallInv(calls[t])
  BY DEF Only, FlightInv
<1> QED BY <1>1 DEF CallInv

LEMMA FlightScreens ==
  ASSUME VaultTypeOK, FlightInv, Screens
  PROVE  FlightInv'
<1>1. UNCHANGED <<platform, vault, store, history>> /\ ScreenCalls
  BY ScreenStep
<1>2. nextSalt' # 0
  <2>1. \A op, from, p : StartWithSalt(op, from, p) => nextSalt' = nextSalt + 1
    BY Zenon DEF StartWithSalt
  <2>2. \A op, from, p : Attempt(op, from, p) => nextSalt' = nextSalt
    BY Zenon DEF Attempt
  <2>3. nextSalt' \in {nextSalt, nextSalt + 1}
    BY <1>1, <2>1, <2>2 DEF ScreenCalls
  <2> QED BY <2>3 DEF FlightInv, VaultTypeOK
<1>3. \A s \in Slots : CallInv(calls[s])'
  <2>1. CASE UNCHANGED <<calls, nextSalt, lockout>>
    BY <1>1, <2>1 DEF FlightInv, CallInv
  <2>2. ASSUME NEW p, NEW from, NEW op \in {"setup", "rewrap"}, StartWithSalt(op, from, p)
        PROVE  \A s \in Slots : CallInv(calls[s])'
    <3>1. PICK s \in Slots : Only(s) /\ calls'[s].op = op /\ calls'[s].stage = "derive"
                             /\ calls'[s].salt = nextSalt
      BY <2>2, SaltCall
    <3>2. CallInv(calls[s])'
      BY <3>1 DEF CallInv, FlightInv, Guessing
    <3> QED BY <1>1, <3>1, <3>2, CallInvKept
  <2>3. ASSUME NEW p, NEW from, NEW op \in Guessing, Attempt(op, from, p),
               op = "unlock" => platform = "web"
        PROVE  \A s \in Slots : CallInv(calls[s])'
    <3>1. PICK s \in Slots : Only(s) /\ calls'[s].op = op /\ calls'[s].stage = "derive"
                             /\ calls'[s].meta = meta
      BY <2>3, AttemptCall
    <3>2. HasVault
      BY <2>3 DEF Attempt
    <3>3. CallInv(calls[s])'
      BY <1>1, <2>3, <3>1, <3>2 DEF CallInv, FlightInv, Guessing
    <3> QED BY <1>1, <3>1, <3>3, CallInvKept
  <2> QED BY <1>1, <2>1, <2>2, <2>3 DEF ScreenCalls, Guessing
<1> QED BY <1>1, <1>2, <1>3 DEF FlightInv, HasVault, vault, store

LEMMA FlightEnds ==
  ASSUME VaultTypeOK, FlightInv, NEW s \in Slots, Ends(s)
  PROVE  FlightInv'
<1>1. CallInv(calls[s]) /\ UNCHANGED <<platform, nextSalt>>
  BY DEF FlightInv, Ends, SetupEnds, UnlockEnds, VerifyEnds, RewrapTakesKey,
     RewrapEnds, Saved, ChatOpened, SetupFailed, SaveFailed, Stored
<1>2. ASSUME End(s)
      PROVE  \A t \in Slots : CallInv(calls[t])'
  BY <1>1, <1>2, EndCall, IdleCallInv, CallInvKept
<1>3. ASSUME NEW stage \in {"save", "open"}, platform = "mobile",
             calls[s].op \notin Guessing, calls[s].op # "seal", calls[s].op # "none",
             calls' = [calls EXCEPT ![s].stage = stage]
      PROVE  \A t \in Slots : CallInv(calls[t])'
  <2>1. Only(s) /\ calls'[s].stage = stage
        /\ calls'[s].op = calls[s].op /\ calls'[s].salt = calls[s].salt
    BY <1>3, StageCall
  <2>2. CallInv(calls[s])'
    BY <1>1, <1>3, <2>1 DEF CallInv, Guessing
  <2> QED BY <1>1, <2>1, <2>2, CallInvKept
<1>4. \A p, salt, key : Meta(p, salt, key).wrappedKey.key = key
  BY DEF Meta, WrapVaultKey
<1>5. NoMeta.wrappedKey.key = NoKey
  BY <1>4 DEF NoMeta
<1>6. CASE SetupEnds(s)
  <2>1. \A t \in Slots : CallInv(calls[t])'
    BY <1>1, <1>2, <1>3, <1>6 DEF SetupEnds, VaultTypeOK, Guessing
  <2>2. meta'.wrappedKey.key # NoKey
    BY <1>1, <1>4, <1>6 DEF SetupEnds, CallInv, NoKey
  <2> QED BY <1>1, <1>6, <2>1, <2>2 DEF SetupEnds, FlightInv, VaultTypeOK, store
<1>7. CASE UnlockEnds(s)
  <2>1. \A t \in Slots : CallInv(calls[t])'
    BY <1>2, <1>7 DEF UnlockEnds
  <2>2. calls[s].meta.wrappedKey.key # NoKey /\ platform # "mobile"
    BY <1>1, <1>7 DEF UnlockEnds, CallInv
  <2> QED BY <1>1, <1>7, <2>1, <2>2 DEF UnlockEnds, FlightInv, HasVault, VaultTypeOK, vault, store
<1>8. CASE VerifyEnds(s)
  BY <1>1, <1>2, <1>8 DEF VerifyEnds, FlightInv, HasVault, vault, store
<1>9. CASE RewrapTakesKey(s)
  <2>1. CASE IsUnlocked
    <3>1. Only(s) /\ calls'[s].stage = "wrap" /\ calls'[s].key = vaultKey
          /\ calls'[s].op = "rewrap"
      BY <1>9, <2>1, WrapCall DEF RewrapTakesKey
    <3>2. CallInv(calls[s])'
      BY <2>1, <3>1 DEF CallInv, Guessing, IsUnlocked
    <3>3. \A t \in Slots : CallInv(calls[t])'
      BY <1>1, <3>1, <3>2, CallInvKept
    <3> QED BY <1>1, <1>9, <3>3 DEF RewrapTakesKey, FlightInv, HasVault, vault, store
  <2>2. CASE ~IsUnlocked
    BY <1>1, <1>2, <1>9, <2>2 DEF RewrapTakesKey, FlightInv, HasVault, vault, store
  <2> QED BY <2>1, <2>2
<1>10. CASE RewrapEnds(s)
  <2>1. \A t \in Slots : CallInv(calls[t])'
    BY <1>1, <1>2, <1>3, <1>10 DEF RewrapEnds, VaultTypeOK, Guessing
  <2>2. meta'.wrappedKey.key # NoKey
    BY <1>1, <1>4, <1>10 DEF RewrapEnds, CallInv
  <2> QED BY <1>1, <1>10, <2>1, <2>2 DEF RewrapEnds, FlightInv, VaultTypeOK, store
<1>11. CASE Saved(s)
  <2>1. platform = "mobile" /\ calls[s].op \notin Guessing
        /\ calls[s].op # "seal" /\ calls[s].op # "none"
    BY <1>1, <1>11 DEF Saved, CallInv, VaultTypeOK
  <2>2. \A t \in Slots : CallInv(calls[t])'
    BY <1>2, <1>3, <1>11, <2>1 DEF Saved
  <2> QED BY <1>1, <1>11, <2>2 DEF Saved, FlightInv, HasVault, vault, store
<1>12. CASE ChatOpened(s) \/ SaveFailed(s)
  BY <1>1, <1>2, <1>12 DEF ChatOpened, SaveFailed, FlightInv, HasVault, vault, store
<1>13. CASE SetupFailed(s)
  <2>1. platform = "mobile"
    BY <1>1, <1>13 DEF SetupFailed, CallInv, VaultTypeOK
  <2> QED BY <1>1, <1>2, <1>13, <2>1 DEF SetupFailed, Lock, FlightInv, HasVault, store
<1>14. CASE Stored(s)
  BY <1>1, <1>2, <1>14 DEF Stored, FlightInv, HasVault, vault
<1> QED BY <1>6, <1>7, <1>8, <1>9, <1>10, <1>11, <1>12, <1>13, <1>14 DEF Ends

LEMMA FlightOthers ==
  ASSUME VaultTypeOK, FlightInv,
         OpenChat \/ Receive \/ CloseChat \/ ReleaseName \/ PauseEnds \/ Reload
  PROVE  FlightInv'
<1>1. CASE OpenChat \/ PauseEnds
  BY <1>1 DEF OpenChat, PauseEnds, FlightInv, CallInv, HasVault, vault, store
<1>2. CASE Receive
  <2>1. PICK s \in Slots : Only(s) /\ calls'[s].op = "seal" /\ calls'[s].stage = "seal"
    BY <1>2, ReceiveCall
  <2>2. CallInv(calls[s])' /\ UNCHANGED platform
    BY <1>2, <2>1 DEF CallInv, Guessing, Receive
  <2>3. \A t \in Slots : CallInv(calls[t])'
    BY <2>1, <2>2, CallInvKept
  <2> QED BY <1>2, <2>3 DEF Receive, FlightInv, HasVault, vault, store
<1>3. CASE CloseChat
  BY <1>3 DEF CloseChat, Lock, FlightInv, CallInv, HasVault, vault
<1>4. CASE ReleaseName
  BY <1>4 DEF ReleaseName, Lock, FlightInv, CallInv, HasVault, store
<1>5. CASE Reload
  <2>1. \A s \in Slots : CallInv(calls[s])'
    BY <1>5, IdleCallInv DEF Reload
  <2> QED BY <1>5, <2>1 DEF Reload, FlightInv, HasVault, VaultTypeOK
<1> QED BY <1>1, <1>2, <1>3, <1>4, <1>5

\* The calls in flight are always of the kinds above.
THEOREM FlightCorrect == Spec => []FlightInv
<1>1. Init => FlightInv
  <2>1. Init => \A s \in Slots : CallInv(calls[s])
    BY IdleCallInv DEF Init
  <2> QED BY <2>1 DEF Init, FlightInv, HasVault
<1>2. VaultTypeOK /\ FlightInv /\ [Next]_vars => FlightInv'
  <2>1. FlightInv /\ UNCHANGED vars => FlightInv'
    BY DEF vars, vault, store, FlightInv, CallInv, HasVault
  <2> QED BY <2>1, FlightScreens, FlightEnds, FlightOthers DEF Next
<1> QED BY <1>1, <1>2, VaultTypeCorrect, PTL DEF Spec

-----------------------------------------------------------------------------
(* The pause after too many wrong PINs.                                    *)

LEMMA SlotsCounted ==
  ASSUME NEW S \in SUBSET Slots
  PROVE  IsFiniteSet(S) /\ Cardinality(S) \in Nat /\ Cardinality(S) <= MaxCalls
<1>1. IsFiniteSet(Slots) /\ Cardinality(Slots) = MaxCalls
  BY VaultAssumption, FS_Interval DEF Slots
<1> QED BY <1>1, FS_Subset, FS_CardinalityType

LEMMA AttemptStarts ==
  ASSUME NEW s \in Slots, Only(s), calls[s].op \notin Guessing, calls'[s].op \in Guessing
  PROVE  Cardinality(Attempting') = Cardinality(Attempting) + 1
<1>1. Attempting' = Attempting \cup {s} /\ s \notin Attempting
  BY DEF Attempting, Only
<1>2. IsFiniteSet(Attempting)
  BY SlotsCounted DEF Attempting
<1> QED BY <1>1, <1>2, FS_AddElement

LEMMA AttemptEnds ==
  ASSUME NEW s \in Slots, Only(s), calls[s].op \in Guessing, calls'[s].op \notin Guessing
  PROVE  Cardinality(Attempting') = Cardinality(Attempting) - 1
<1>1. Attempting' = Attempting \ {s} /\ s \in Attempting
  BY DEF Attempting, Only
<1>2. IsFiniteSet(Attempting)
  BY SlotsCounted DEF Attempting
<1> QED BY <1>1, <1>2, FS_RemoveElement

LEMMA NoAttempt ==
  ASSUME NEW s \in Slots, Only(s), calls[s].op \notin Guessing, calls'[s].op \notin Guessing
  PROVE  Attempting' = Attempting
BY DEF Attempting, Only

\* Without an attempt or with the counters at zero nothing is to be shown.
LEMMA GuessKept ==
  ASSUME GuessInv, UNCHANGED <<lockout, Attempting>>
  PROVE  GuessInv'
BY DEF GuessInv, lockout

LEMMA GuessForgiven ==
  ASSUME VaultTypeOK', tries' = 0
  PROVE  GuessInv'
<1>1. Cardinality(Attempting') \in Nat /\ Cardinality(Attempting') <= MaxCalls
  BY SlotsCounted DEF Attempting
<1>2. failedAttempts' \in Nat
  BY VaultAssumption DEF VaultTypeOK
<1>3. tries' <= failedAttempts' + Cardinality(Attempting')
  BY <1>1, <1>2
<1>4. tries' < MAX_FAILED + MaxCalls
  BY VaultAssumption
<1> QED BY <1>3, <1>4 DEF GuessInv

LEMMA IdleGuess == Idle.op = "none" /\ "none" \notin Guessing /\ "seal" \notin Guessing
BY DEF Idle, Guessing

LEMMA GuessScreens ==
  ASSUME VaultTypeOK, GuessInv, Screens
  PROVE  GuessInv'
<1>1. CASE UNCHANGED <<calls, nextSalt, lockout>>
  BY <1>1, GuessKept DEF Attempting
<1>2. ASSUME NEW p, NEW from, NEW op \in {"setup", "rewrap"}, StartWithSalt(op, from, p)
      PROVE  GuessInv'
  <2>1. UNCHANGED lockout
    BY <1>2 DEF StartWithSalt
  <2>2. Attempting' = Attempting
    BY <1>2, SaltCall, NoAttempt, IdleGuess DEF Guessing
  <2> QED BY <2>1, <2>2, GuessKept
<1>3. ASSUME NEW p, NEW from, NEW op \in Guessing, Attempt(op, from, p)
      PROVE  GuessInv'
  <2>1. Cardinality(Attempting') = Cardinality(Attempting) + 1
    BY <1>3, AttemptCall, AttemptStarts, IdleGuess
  <2>2. ~lockedOut /\ UNCHANGED <<failedAttempts, lockedOut>>
    BY <1>3 DEF Attempt
  <2>3. tries' \in {tries, tries + 1}
    BY <1>3, Zenon DEF Attempt
  <2>4. Cardinality(Attempting) \in Nat /\ failedAttempts \in Nat /\ tries \in Nat
    BY SlotsCounted, VaultAssumption DEF Attempting, VaultTypeOK
  <2>5. tries <= failedAttempts + Cardinality(Attempting)
    BY <2>2 DEF GuessInv
  <2>6. tries' <= failedAttempts' + Cardinality(Attempting')
    BY <2>1, <2>2, <2>3, <2>4, <2>5
  <2> QED BY <2>2, <2>6 DEF GuessInv
<1> QED BY <1>1, <1>2, <1>3, ScreenStep DEF ScreenCalls, Guessing

LEMMA GuessEnds ==
  ASSUME VaultTypeOK, VaultTypeOK', FlightInv, GuessInv, NEW s \in Slots, Ends(s)
  PROVE  GuessInv'
<1>1. CallInv(calls[s])
  BY DEF FlightInv
<1>2. CASE SetupEnds(s) \/ SetupFailed(s)
  BY <1>2, GuessForgiven DEF SetupEnds, SetupFailed, Lock, NoFailures
<1>3. CASE UnlockEnds(s) \/ VerifyEnds(s)
  <2>1. Cardinality(Attempting') = Cardinality(Attempting) - 1
    BY <1>3, EndCall, AttemptEnds, IdleGuess DEF UnlockEnds, VerifyEnds, Guessing
  <2>2. CASE Right
    BY <2>2, GuessForgiven DEF Right
  <2>3. CASE Wrong
    <3>1. Cardinality(Attempting) \in Nat /\ Cardinality(Attempting) <= MaxCalls
          /\ failedAttempts \in 0..MAX_FAILED - 1 /\ tries \in Nat
      BY SlotsCounted DEF Attempting, VaultTypeOK
    <3>2. CASE lockedOut
      BY <2>3, <3>2 DEF Wrong, GuessInv
    <3>3. CASE ~lockedOut /\ failedAttempts + 1 = MAX_FAILED
      <4>1. lockedOut' = TRUE /\ tries' = tries
        BY <2>3, <3>3 DEF Wrong
      <4>2. tries <= failedAttempts + Cardinality(Attempting)
        BY <3>3 DEF GuessInv
      <4>3. tries < MAX_FAILED + MaxCalls
        BY <3>1, <3>3, <4>2, VaultAssumption
      <4> QED BY <4>1, <4>3 DEF GuessInv
    <3>4. CASE ~lockedOut /\ failedAttempts + 1 # MAX_FAILED
      <4>1. ~lockedOut' /\ tries' = tries
        BY <2>3, <3>4 DEF Wrong
      <4>2. failedAttempts' = failedAttempts + 1
        BY <2>3, <3>1, <3>4, VaultAssumption DEF Wrong
      <4>3. tries <= failedAttempts + Cardinality(Attempting)
        BY <3>4 DEF GuessInv
      <4>4. tries <= failedAttempts' + Cardinality(Attempting')
        BY <2>1, <3>1, <4>2, <4>3
      <4> QED BY <4>1, <4>4 DEF GuessInv
    <3> QED BY <3>2, <3>3, <3>4
  <2> QED BY <1>3, <2>2, <2>3 DEF UnlockEnds, VerifyEnds
<1>4. ASSUME calls[s].op \notin Guessing, UNCHANGED lockout, Only(s),
             calls'[s].op \notin Guessing
      PROVE  GuessInv'
  BY <1>4, NoAttempt, GuessKept
<1>5. CASE RewrapTakesKey(s)
  <2>1. calls[s].op \notin Guessing /\ UNCHANGED lockout
    BY <1>5 DEF RewrapTakesKey, Guessing
  <2>2. Only(s) /\ calls'[s].op \notin Guessing
    BY <1>5, EndCall, WrapCall, IdleGuess DEF RewrapTakesKey, Guessing
  <2> QED BY <1>4, <2>1, <2>2
<1>6. CASE RewrapEnds(s) \/ Saved(s)
  <2>1. calls[s].op \notin Guessing /\ UNCHANGED lockout
    BY <1>1, <1>6 DEF RewrapEnds, Saved, CallInv, Guessing
  <2>2. Only(s) /\ calls'[s].op \notin Guessing
    BY <1>6, <2>1, EndCall, StageCall, IdleGuess DEF RewrapEnds, Saved
  <2> QED BY <1>4, <2>1, <2>2
<1>7. CASE ChatOpened(s) \/ SaveFailed(s) \/ Stored(s)
  <2>1. calls[s].op \notin Guessing /\ UNCHANGED lockout
    BY <1>1, <1>7 DEF ChatOpened, SaveFailed, Stored, CallInv, Guessing
  <2>2. Only(s) /\ calls'[s].op \notin Guessing
    BY <1>7, EndCall, IdleGuess DEF ChatOpened, SaveFailed, Stored
  <2> QED BY <1>4, <2>1, <2>2
<1> QED BY <1>2, <1>3, <1>5, <1>6, <1>7 DEF Ends

LEMMA GuessOthers ==
  ASSUME VaultTypeOK, VaultTypeOK', GuessInv,
         OpenChat \/ Receive \/ CloseChat \/ ReleaseName \/ PauseEnds \/ Reload
  PROVE  GuessInv'
<1>1. CASE OpenChat
  BY <1>1, GuessKept DEF OpenChat, Attempting
<1>2. CASE Receive
  <2>1. Attempting' = Attempting
    BY <1>2, ReceiveCall, NoAttempt, IdleGuess
  <2> QED BY <1>2, <2>1, GuessKept DEF Receive
<1>3. CASE CloseChat
  BY <1>3, GuessKept, GuessForgiven DEF CloseChat, Lock, NoFailures, Attempting
<1>4. CASE ReleaseName \/ PauseEnds \/ Reload
  BY <1>4, GuessForgiven DEF ReleaseName, Lock, PauseEnds, Reload, NoFailures
<1> QED BY <1>1, <1>2, <1>3, <1>4

\* From one moment at which the vault clears its counter of wrong PINs (a right
\* PIN, the end of a pause, a set-up, a lock or a load of the page) to the next,
\* at most MAX_FAILED wrong PINs are tried, and one more for each operation that
\* may be in flight with the last of them.  Nothing is said across a clearing.
THEOREM CounterLimitsGuesses == Spec => []GuessesAreLimited
<1>1. Init => GuessInv
  <2> SUFFICES ASSUME Init PROVE GuessInv
    OBVIOUS
  <2>1. Cardinality(Attempting) \in Nat
    BY SlotsCounted DEF Attempting
  <2> QED BY <2>1 DEF Init, GuessInv
<1>2. VaultTypeOK /\ VaultTypeOK' /\ FlightInv /\ GuessInv /\ [Next]_vars => GuessInv'
  <2>1. GuessInv /\ UNCHANGED vars => GuessInv'
    BY GuessKept DEF vars, Attempting
  <2> QED BY <2>1, GuessScreens, GuessEnds, GuessOthers DEF Next
<1>3. VaultTypeOK /\ GuessInv => GuessesAreLimited
  <2> SUFFICES ASSUME VaultTypeOK, GuessInv, ~lockedOut PROVE GuessesAreLimited
    BY DEF GuessInv, GuessesAreLimited
  <2>1. Cardinality(Attempting) \in Nat /\ Cardinality(Attempting) <= MaxCalls
        /\ failedAttempts \in 0..MAX_FAILED - 1 /\ tries \in Nat
    BY SlotsCounted DEF Attempting, VaultTypeOK
  <2>2. tries <= failedAttempts + Cardinality(Attempting)
    BY DEF GuessInv
  <2> QED BY <2>1, <2>2, VaultAssumption DEF GuessesAreLimited
<1> QED BY <1>1, <1>2, <1>3, VaultTypeCorrect, FlightCorrect, PTL DEF Spec

-----------------------------------------------------------------------------
(* The PIN chosen last.                                                    *)

LEMMA MetaOpens ==
  \A p, salt, key : /\ Opens(p, Meta(p, salt, key))
                    /\ Meta(p, salt, key).wrappedKey.key = key
BY DEF Opens, Unwraps, Meta, WrapVaultKey, DerivePinKey

LEMMA ChosenStep ==
  ASSUME VaultTypeOK, FlightInv, ChosenInv, [Next]_vars
  PROVE  ChosenInv'
<1>1. ASSUME UNCHANGED <<meta, chosen, overtaken>>
      PROVE  ChosenInv'
  BY <1>1 DEF ChosenInv, HasVault, Opens
<1>2. ASSUME meta' = NoMeta
      PROVE  ChosenInv'
  BY <1>2 DEF ChosenInv, HasVault
<1>3. CASE UNCHANGED vars
  BY <1>1, <1>3 DEF vars, vault, history
<1>4. CASE Screens
  BY <1>1, <1>4, ScreenStep DEF vault, history
<1>5. ASSUME NEW s \in Slots, Ends(s)
      PROVE  ChosenInv'
  <2>1. CASE SetupEnds(s) \/ RewrapEnds(s)
    <3>1. \E salt, key : meta' = Meta(chosen', salt, key)
      BY <2>1 DEF SetupEnds, RewrapEnds
    <3> QED BY <3>1, MetaOpens DEF ChosenInv, Opens
  <2>2. CASE UnlockEnds(s)
    BY <1>1, <2>2, Zenon DEF UnlockEnds, ChosenInv, HasVault, Opens, vault
  <2>3. CASE SetupFailed(s)
    BY <1>2, <2>3 DEF SetupFailed, Lock
  <2> QED BY <1>1, <1>5, <2>1, <2>2, <2>3 DEF Ends, VerifyEnds, RewrapTakesKey,
         Saved, ChatOpened, SaveFailed, Stored, vault, history
<1>6. CASE OpenChat \/ Receive \/ PauseEnds
  BY <1>1, <1>6 DEF OpenChat, Receive, PauseEnds, vault, history
<1>7. CASE CloseChat \/ ReleaseName
  BY <1>1, <1>2, <1>7 DEF CloseChat, ReleaseName, Lock, vault
<1>8. CASE Reload
  BY <1>1, <1>2, <1>8 DEF Reload, FlightInv, VaultTypeOK, history
<1> QED BY <1>3, <1>4, <1>5, <1>6, <1>7, <1>8 DEF Next

\* The PIN chosen last opens the vault, in memory and as saved, unless a change
\* of PIN was overtaken by an unlock.
THEOREM ChosenPinOpens == Spec => []OpensWithTheChosenPin
<1>1. Init => ChosenInv
  BY DEF Init, ChosenInv, HasVault
<1>2. VaultTypeOK /\ FlightInv /\ ChosenInv => OpensWithTheChosenPin
  BY DEF VaultTypeOK, FlightInv, ChosenInv, OpensWithTheChosenPin, HasVault
<1> QED BY <1>1, <1>2, ChosenStep, VaultTypeCorrect, FlightCorrect, PTL DEF Spec

-----------------------------------------------------------------------------
(* One key at a time.                                                      *)

\* What OneKeyInv says of a call in flight.
CallKeyInv(c) ==
  /\ c.op = "seal" => IsUnlocked /\ c.key = vaultKey
  /\ c.op = "unlock" => HasVault /\ c.meta.wrappedKey.key = meta.wrappedKey.key
  /\ platform = "web" /\ c.op = "setup" /\ HasVault => IsUnlocked

LEMMA OneKeyCalls ==
  ASSUME OneKeyInv, ~collided, NEW s \in Slots
  PROVE  CallKeyInv(calls[s])
BY DEF OneKeyInv, CallKeyInv

\* A step that leaves the vault as it is, stores no message and starts at most
\* one call keeps to the one key, if that call does.
LEMMA OneKeyKept ==
  ASSUME OneKeyInv, UNCHANGED <<platform, vaultKey, meta, collided>>,
         messages' \subseteq messages,
         \A t \in Slots : \/ calls'[t] = calls[t]
                          \/ ~collided => CallKeyInv(calls[t])'
  PROVE  OneKeyInv'
<1> SUFFICES ASSUME ~collided' PROVE OneKeyInv'
  BY DEF OneKeyInv
<1>1. \A t \in Slots : CallKeyInv(calls[t])'
  BY OneKeyCalls DEF CallKeyInv, IsUnlocked, HasVault
<1>2. /\ IsUnlocked' => meta'.wrappedKey.key = vaultKey'
      /\ messages' # {} => IsUnlocked'
      /\ \A m \in messages' : m.with = vaultKey'
  BY DEF OneKeyInv, IsUnlocked
<1> QED BY <1>1, <1>2 DEF OneKeyInv, CallKeyInv

\* Nor does a vault that is locked with nothing sealed by it.
LEMMA OneKeyLocked ==
  ASSUME platform = "mobile", UNCHANGED platform, FlightInv', vaultKey' = NoKey,
         ~collided' => messages' = {} /\ \A t \in Slots : calls'[t].op # "seal"
  PROVE  OneKeyInv'
<1>1. ~IsUnlocked' /\ \A t \in Slots : calls'[t].op # "unlock"
  BY DEF IsUnlocked, FlightInv, CallInv
<1> QED BY <1>1 DEF OneKeyInv

LEMMA CallKeyIdle == CallKeyInv(Idle) /\ CallKeyInv(Idle)'
BY DEF CallKeyInv, Idle

LEMMA OneKeyScreens ==
  ASSUME VaultTypeOK, OneKeyInv, Screens
  PROVE  OneKeyInv'
<1>1. /\ UNCHANGED <<platform, vaultKey, meta, collided>> /\ messages' = messages
      /\ ScreenCalls
  BY ScreenStep DEF vault, store, history
<1>2. CASE UNCHANGED <<calls, nextSalt, lockout>>
  BY <1>1, <1>2, OneKeyKept
<1>3. ASSUME NEW p, NEW from, NEW op \in {"setup", "rewrap"}, StartWithSalt(op, from, p),
             op = "setup" /\ platform = "web" => ~HasVault
      PROVE  OneKeyInv'
  <2>1. PICK s \in Slots : Only(s) /\ calls'[s].op = op
    BY <1>3, SaltCall
  <2>2. CallKeyInv(calls[s])'
    BY <1>1, <1>3, <2>1 DEF CallKeyInv, HasVault
  <2> QED BY <1>1, <2>1, <2>2, OneKeyKept DEF Only
<1>4. ASSUME NEW p, NEW from, NEW op \in Guessing, Attempt(op, from, p)
      PROVE  OneKeyInv'
  <2>1. PICK s \in Slots : Only(s) /\ calls'[s].op = op /\ calls'[s].meta = meta
    BY <1>4, AttemptCall
  <2>2. HasVault
    BY <1>4 DEF Attempt
  <2>3. CallKeyInv(calls[s])'
    BY <1>1, <2>1, <2>2 DEF CallKeyInv, HasVault, Guessing
  <2> QED BY <1>1, <2>1, <2>3, OneKeyKept DEF Only
<1> QED BY <1>1, <1>2, <1>3, <1>4 DEF ScreenCalls, Guessing

LEMMA OneKeyEnds ==
  ASSUME VaultTypeOK, FlightInv, FlightInv', OneKeyInv, NEW s \in Slots, Ends(s)
  PROVE  OneKeyInv'
<1>1. CallInv(calls[s])
  BY DEF FlightInv
<1>2. CASE SetupEnds(s)
  <2> SUFFICES ASSUME ~collided' PROVE OneKeyInv'
    BY DEF OneKeyInv
  <2>1. ~collided /\ ~IsUnlocked
    BY <1>2 DEF SetupEnds
  <2>2. messages' = {} /\ \A t \in Slots : calls[t].op # "seal"
    BY <1>2, <2>1 DEF SetupEnds, OneKeyInv, store
  <2>3. meta'.wrappedKey.key = vaultKey'
    BY <1>2, MetaOpens DEF SetupEnds
  <2>4. IsUnlocked'
    BY <1>1, <1>2 DEF SetupEnds, CallInv, IsUnlocked, NoKey
  <2>5. Only(s) /\ calls'[s].op \notin {"seal", "unlock"}
    BY <1>2, EndCall, StageCall, IdleGuess DEF SetupEnds, Guessing
  \* An unlock in flight found a vault; this set-up was started without one.
  <2>6. ASSUME NEW t \in Slots, calls[t].op = "unlock"
        PROVE  FALSE
    <3>1. HasVault
      BY <2>1, <2>6, OneKeyCalls DEF CallKeyInv
    <3>2. platform = "web"
      BY <2>6 DEF FlightInv, CallInv, VaultTypeOK
    <3>3. CallKeyInv(calls[s])
      BY <2>1, OneKeyCalls
    <3> QED BY <1>2, <2>1, <3>1, <3>2, <3>3 DEF SetupEnds, CallKeyInv
  <2>7. \A t \in Slots : calls'[t].op # "unlock" /\ calls'[t].op # "seal"
    BY <2>2, <2>5, <2>6 DEF Only
  <2> QED BY <2>2, <2>3, <2>4, <2>7 DEF OneKeyInv
<1>3. CASE UnlockEnds(s)
  <2>1. Only(s) /\ calls'[s] = Idle /\ UNCHANGED <<platform, messages, collided>>
    BY <1>3, EndCall DEF UnlockEnds, store
  <2>2. CASE UNCHANGED <<vaultKey, meta>>
    BY <2>1, <2>2, CallKeyIdle, OneKeyKept DEF Only
  <2>3. CASE vaultKey' = calls[s].meta.wrappedKey.key /\ meta' = calls[s].meta
    <3> SUFFICES ASSUME ~collided' PROVE OneKeyInv'
      BY DEF OneKeyInv
    <3>1. ~collided /\ CallKeyInv(calls[s])
      BY <2>1, OneKeyCalls
    <3>2. meta'.wrappedKey.key = vaultKey' /\ vaultKey' = meta.wrappedKey.key
          /\ IsUnlocked' /\ HasVault'
      BY <1>1, <1>3, <2>3, <3>1 DEF UnlockEnds, CallKeyInv, CallInv, IsUnlocked,
         HasVault, NoMeta, Meta, WrapVaultKey
    <3>3. IsUnlocked => vaultKey' = vaultKey
      BY <3>1, <3>2 DEF OneKeyInv
    <3>4. \A m \in messages' : m.with = vaultKey'
      BY <2>1, <3>1, <3>3 DEF OneKeyInv
    <3>5. \A t \in Slots : CallKeyInv(calls[t])'
      <4> SUFFICES ASSUME NEW t \in Slots \ {s} PROVE CallKeyInv(calls[t])'
        BY <2>1, CallKeyIdle
      <4> QED BY <2>1, <3>1, <3>2, <3>3, OneKeyCalls DEF Only, CallKeyInv
    <3> QED BY <3>2, <3>4, <3>5 DEF OneKeyInv, CallKeyInv
  <2> QED BY <1>3, <2>2, <2>3 DEF UnlockEnds, vault
<1>4. CASE RewrapEnds(s)
  <2> SUFFICES ASSUME ~collided' PROVE OneKeyInv'
    BY DEF OneKeyInv
  <2>1. ~collided /\ calls[s].key = vaultKey /\ IsUnlocked
    BY <1>1, <1>4 DEF RewrapEnds, CallInv, IsUnlocked
  <2>2. meta'.wrappedKey.key = vaultKey /\ UNCHANGED <<platform, vaultKey, messages>>
    BY <1>4, <2>1, MetaOpens DEF RewrapEnds, store
  <2>3. meta.wrappedKey.key = vaultKey /\ HasVault'
    BY <2>1, <2>2, MetaOpens DEF OneKeyInv, HasVault, NoMeta, IsUnlocked
  <2>4. Only(s) /\ calls'[s].op \notin {"seal", "unlock"}
    BY <1>4, EndCall, StageCall, IdleGuess DEF RewrapEnds, Guessing
  <2>5. \A t \in Slots : CallKeyInv(calls[t])'
    <3>1. CallKeyInv(calls[s])'
      BY <2>1, <2>2, <2>4 DEF CallKeyInv, IsUnlocked
    <3>2. ASSUME NEW t \in Slots \ {s} PROVE CallKeyInv(calls[t])'
      BY <2>1, <2>2, <2>3, <2>4, OneKeyCalls DEF Only, CallKeyInv, IsUnlocked
    <3> QED BY <3>1, <3>2
  <2>6. IsUnlocked' /\ \A m \in messages' : m.with = vaultKey'
    BY <2>1, <2>2 DEF OneKeyInv, IsUnlocked
  <2> QED BY <2>2, <2>5, <2>6 DEF OneKeyInv, CallKeyInv
<1>5. CASE Stored(s)
  <2> SUFFICES ASSUME ~collided' PROVE OneKeyInv'
    BY DEF OneKeyInv
  <2>1. UNCHANGED <<platform, vaultKey, meta, collided>> /\ Only(s) /\ calls'[s] = Idle
        /\ messages' = messages \cup {Encrypt(calls[s].key)}
    BY <1>5, EndCall DEF Stored, vault, history
  <2>2. IsUnlocked /\ calls[s].key = vaultKey
    BY <1>5, <2>1, OneKeyCalls DEF Stored, CallKeyInv
  <2>3. \A m \in messages' : m.with = vaultKey
    BY <2>1, <2>2 DEF OneKeyInv, Encrypt
  <2>4. \A t \in Slots : CallKeyInv(calls[t])'
    BY <2>1, OneKeyCalls, CallKeyIdle DEF Only, CallKeyInv, IsUnlocked, HasVault
  <2>5. IsUnlocked' => meta'.wrappedKey.key = vaultKey'
    BY <2>1 DEF OneKeyInv, IsUnlocked
  <2> QED BY <2>1, <2>2, <2>3, <2>4, <2>5 DEF OneKeyInv, CallKeyInv, IsUnlocked
<1>6. CASE SetupFailed(s)
  <2>1. platform = "mobile" /\ UNCHANGED platform /\ vaultKey' = NoKey
    BY <1>1, <1>6 DEF SetupFailed, Lock, CallInv, VaultTypeOK
  <2>2. Only(s) /\ calls'[s] = Idle
    BY <1>6, EndCall DEF SetupFailed
  <2>3. ~collided' => messages' = {} /\ \A t \in Slots : calls'[t].op # "seal"
    BY <1>6, <2>2, IdleGuess DEF SetupFailed, Sealing, Only, store
  <2> QED BY <2>1, <2>3, OneKeyLocked
<1>7. ASSUME UNCHANGED <<platform, vaultKey, meta, collided, messages>>, Only(s),
             ~collided => CallKeyInv(calls[s])'
      PROVE  OneKeyInv'
  BY <1>7, OneKeyKept DEF Only
<1>8. CASE VerifyEnds(s) \/ ChatOpened(s) \/ SaveFailed(s)
  BY <1>7, <1>8, EndCall, CallKeyIdle DEF VerifyEnds, ChatOpened, SaveFailed, vault,
     store, history
<1>9. CASE RewrapTakesKey(s)
  <2>1. Only(s) /\ CallKeyInv(calls[s])'
    BY <1>9, EndCall, WrapCall, CallKeyIdle DEF RewrapTakesKey, CallKeyInv
  <2> QED BY <1>7, <1>9, <2>1 DEF RewrapTakesKey, vault, store, history
<1>10. CASE Saved(s)
  <2>1. UNCHANGED <<platform, vaultKey, meta, collided, messages>>
    BY <1>10 DEF Saved, vault, store, history
  <2>2. CASE calls'[s] = Idle /\ Only(s)
    BY <1>7, <2>1, <2>2, CallKeyIdle
  <2>3. CASE calls' = [calls EXCEPT ![s].stage = "open"]
    <3>1. Only(s) /\ calls'[s].op = calls[s].op /\ calls'[s].key = calls[s].key
          /\ calls'[s].meta = calls[s].meta
      BY <2>3, StageCall
    <3>2. ~collided => CallKeyInv(calls[s])'
      BY <2>1, <3>1, OneKeyCalls DEF CallKeyInv, IsUnlocked, HasVault
    <3> QED BY <1>7, <2>1, <3>1, <3>2
  <2> QED BY <1>10, <2>2, <2>3, EndCall DEF Saved
<1> QED BY <1>2, <1>3, <1>4, <1>5, <1>6, <1>8, <1>9, <1>10 DEF Ends

LEMMA OneKeyOthers ==
  ASSUME VaultTypeOK, FlightInv, FlightInv', OneKeyInv,
         OpenChat \/ Receive \/ CloseChat \/ ReleaseName \/ PauseEnds \/ Reload
  PROVE  OneKeyInv'
<1>1. CASE OpenChat \/ PauseEnds
  BY <1>1, OneKeyKept DEF OpenChat, PauseEnds, vault, store, history
<1>2. CASE Receive
  <2>1. PICK s \in Slots : Only(s) /\ calls'[s].op = "seal" /\ calls'[s].key = vaultKey
    BY <1>2, ReceiveCall
  <2>2. CallKeyInv(calls[s])'
    BY <1>2, <2>1 DEF Receive, CallKeyInv, IsUnlocked, vault
  <2> QED BY <1>2, <2>1, <2>2, OneKeyKept DEF Receive, Only, vault, store, history
<1>3. CASE CloseChat
  <2>1. CASE UNCHANGED <<vault, lockout, collided>>
    BY <1>3, <2>1, OneKeyKept DEF CloseChat, vault
  <2>2. CASE platform = "mobile" /\ Lock /\ collided' = (collided \/ Sealing)
    BY <1>3, <2>2, OneKeyLocked DEF CloseChat, Lock, Sealing
  <2> QED BY <1>3, <2>1, <2>2 DEF CloseChat
<1>4. CASE ReleaseName
  BY <1>4, OneKeyLocked DEF ReleaseName, Lock, Sealing, FlightInv, store
<1>5. CASE Reload
  BY <1>5 DEF Reload, OneKeyInv, Idle, IsUnlocked, NoKey
<1> QED BY <1>1, <1>2, <1>3, <1>4, <1>5

\* Whatever overlaps, a message shown can be read and the PIN opens its key,
\* until one of the four steps that collided marks.
THEOREM MessagesStayReadable == Spec => []Readable
<1>1. Init => OneKeyInv
  BY DEF Init, OneKeyInv, Idle, IsUnlocked, NoKey
<1>2. VaultTypeOK /\ FlightInv /\ FlightInv' /\ OneKeyInv /\ [Next]_vars => OneKeyInv'
  <2>1. OneKeyInv /\ UNCHANGED vars => OneKeyInv'
    BY OneKeyKept DEF vars, vault, store, history
  <2> QED BY <2>1, OneKeyScreens, OneKeyEnds, OneKeyOthers DEF Next
<1>3. OneKeyInv => Readable
  BY Zenon DEF OneKeyInv, Readable, Body, Decrypts
<1> QED BY <1>1, <1>2, <1>3, VaultTypeCorrect, FlightCorrect, PTL DEF Spec

=============================================================================
