------------------------------- MODULE Frames -------------------------------
(***************************************************************************)
(* The frames of the protocol (packages/protocol): what the apps put into  *)
(* them and what the relay's parser (services/validate.ts) lets through.   *)
(*                                                                         *)
(* A frame is its length, its type, and the payload as far as the parser   *)
(* looks at it: absent, not an object, or an object with the fields below. *)
(* A text is how many of its characters JSON and UTF-8 turn into how many  *)
(* bytes, which is what decides whether the relay takes it.                *)
(***************************************************************************)
EXTENDS Links

MAX_CHAT_TEXT_CHARS         == 4000
MAX_ENCRYPTED_PAYLOAD_CHARS == 24000
MAX_WS_MESSAGE_BYTES        == 64000
MAX_MESSAGE_ID_LENGTH       == 80
MAX_PROOF_LENGTH            == 512

\* Lengths of what surrounds the data: the JSON of a chat, the nonce and the
\* tag of AES-GCM, the uuid of a message, its frame (at most).
CHAT_JSON  == 25
IV_AND_TAG == 28
MESSAGE_ID == 36
ENVELOPE   == 200
KEY_JSON   == 160

----------------------------------------------------------------------------
(* Frames.                                                                 *)

Message(id, payload) == [id |-> id, payload |-> payload, timestamp |-> TRUE]
NoMessage == Message(0, 0)

\* A claim's proof: its key and signature by their length, signedAt by
\* whether it is a number.
Proof(key, signature) == [given |-> TRUE, key |-> key, signature |-> signature, signedAt |-> TRUE]
NoProof  == [given |-> FALSE, key |-> 0, signature |-> 0, signedAt |-> FALSE]

NoType == "none"

EmptyFrame == [length |-> ENVELOPE, json |-> TRUE, type |-> NoType, payload |-> "absent",
               sessionId |-> NoWord, handle |-> NoWord, message |-> NoMessage, proof |-> NoProof]

Frame(type) == [EmptyFrame EXCEPT !.type = type, !.payload = "object"]

CREATE_SESSION(id)         == [Frame("CREATE_SESSION") EXCEPT !.sessionId = id]
JOIN_SESSION(id)           == [Frame("JOIN_SESSION") EXCEPT !.sessionId = id]
LEAVE_SESSION(id)          == [Frame("LEAVE_SESSION") EXCEPT !.sessionId = id]
RING_HANDLE(name)          == [Frame("RING_HANDLE") EXCEPT !.handle = name]
CLAIM_HANDLE(name, proof)  == [Frame("CLAIM_HANDLE") EXCEPT !.handle = name, !.proof = proof]
UNCLAIM_HANDLE             == Frame("UNCLAIM_HANDLE")
PING                       == Frame("PING")
SEND_MESSAGE(message)      == [Frame("SEND_MESSAGE") EXCEPT
                                 !.message = message, !.length = @ + message.payload]

----------------------------------------------------------------------------
(* What the apps send.                                                     *)

\* Characters of one byte, those JSON escapes with a backslash, control
\* characters ("\u0001"), those of three bytes, pairs of surrogates, and the
\* ampersands, which the web page turns into "&amp;".
\* Lone surrogates, which JSON writes as six bytes ("\ud800"), are left out: some
\* two thousand of them make a text too long, as control characters do.
Text(plain, quotes, controls, wide, pairs, ampersands) ==
    [plain |-> plain, quotes |-> quotes, controls |-> controls,
     wide |-> wide, pairs |-> pairs, ampersands |-> ampersands]

Writings == [plain : Nat, quotes : Nat, controls : Nat,
             wide : Nat, pairs : Nat, ampersands : Nat]

Length(t) == t.plain + t.quotes + t.controls + t.wide + 2 * t.pairs + t.ampersands
Bytes(t)  == t.plain + 2 * t.quotes + 6 * t.controls + 3 * t.wide + 4 * t.pairs + t.ampersands

\* sanitizeMessageText of the web: markup is escaped, control characters stay.
SanitizedWeb(t) == [t EXCEPT !.plain = @ + 5 * t.ampersands, !.ampersands = 0]

\* sanitizeMessageText of the phone: control characters go.
SanitizedPhone(t) == [t EXCEPT !.controls = 0]

\* Composer and sendMessage: both refuse a text that is empty or too long
\* after it was sanitized.
Composes(t) == Length(t) \in 1..MAX_CHAT_TEXT_CHARS

Base64(bytes) == 4 * ((bytes + 2) \div 3)

\* encrypt: nonce, ciphertext and tag, in base64.
Encrypted(bytes) == Base64(IV_AND_TAG + bytes)

ChatMessage(t) == Message(MESSAGE_ID, Encrypted(CHAT_JSON + Bytes(t)))
KeyMessage     == Message(MESSAGE_ID, KEY_JSON)

----------------------------------------------------------------------------
(* The parser of the relay.                                                *)

IsRecord(frame) == frame.payload = "object"

IsValidSessionId(id) == id.len \in 16..64 /\ IsSessionId(id)

\* Mutant of IsValidEncryptedMessage: four per character, nothing around them.
IsValidEncryptedMessageTight(m) ==
    /\ m.id \in 1..MAX_MESSAGE_ID_LENGTH
    /\ m.payload \in 1..4 * MAX_CHAT_TEXT_CHARS
    /\ m.timestamp

IsValidEncryptedMessage(m) ==
    /\ m.id \in 1..MAX_MESSAGE_ID_LENGTH
    /\ m.payload \in 1..MAX_ENCRYPTED_PAYLOAD_CHARS
    /\ m.timestamp

\* parseClaimProof, of a proof that is there.
IsClaimProof(p) ==
    p.key \in 1..MAX_PROOF_LENGTH /\ p.signature \in 1..MAX_PROOF_LENGTH /\ p.signedAt

Read(frame)   == [ok |-> TRUE, code |-> "none", type |-> frame.type, sessionId |-> frame.sessionId,
                  handle |-> NormalizeHandle(frame.handle)]
Unread(code)  == [ok |-> FALSE, code |-> code, type |-> NoType,
                  sessionId |-> NoWord, handle |-> NoWord]
ReadIf(valid, frame, code) == IF valid THEN Read(frame) ELSE Unread(code)

ParsePayload(frame) ==
    CASE frame.type = "CREATE_SESSION" ->
            IF frame.payload = "scalar" THEN Unread("INVALID_PAYLOAD")
            ELSE ReadIf(frame.sessionId # NoWord => IsValidSessionId(frame.sessionId),
                        frame, "INVALID_SESSION_ID")
      [] frame.type = "JOIN_SESSION" ->
            ReadIf(IsRecord(frame) /\ IsValidSessionId(frame.sessionId),
                   frame, "INVALID_SESSION_ID")
      [] frame.type = "SEND_MESSAGE" ->
            ReadIf(IsRecord(frame) /\ IsValidEncryptedMessage(frame.message),
                   frame, "INVALID_MESSAGE")
      [] frame.type \in {"PING", "UNCLAIM_HANDLE"} -> Read(frame)
      [] frame.type = "LEAVE_SESSION" ->
            ReadIf(frame.payload # "scalar", frame, "INVALID_PAYLOAD")
      [] frame.type = "CLAIM_HANDLE" ->
            IF ~(IsRecord(frame) /\ IsHandleSlug(frame.handle)) THEN Unread("HANDLE_INVALID")
            ELSE ReadIf(frame.proof.given => IsClaimProof(frame.proof),
                        frame, "HANDLE_FORBIDDEN")
      [] frame.type = "RING_HANDLE" ->
            ReadIf(IsRecord(frame) /\ IsHandleSlug(frame.handle), frame, "HANDLE_INVALID")
      [] OTHER -> Unread("UNKNOWN_EVENT")

ParseClientMessage(frame) ==
    IF frame.length > MAX_WS_MESSAGE_BYTES THEN Unread("PAYLOAD_TOO_LARGE")
    ELSE IF ~frame.json THEN Unread("INVALID_JSON")
    ELSE IF frame.type = NoType THEN Unread("INVALID_MESSAGE")
    ELSE ParsePayload(frame)
============================================================================
