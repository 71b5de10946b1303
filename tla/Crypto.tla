------------------------------- MODULE Crypto -------------------------------
(***************************************************************************)
(* The two crypto providers of a conversation (packages/crypto):           *)
(* web-crypto.ts in a browser and native-crypto.ts on a phone, whose       *)
(* library exports and imports no SPKI and derives no ECDH bits, so that   *)
(* ec-spki.ts and ecdh-shared.ts do both by hand.                          *)
(*                                                                         *)
(* Symbolic: a byte string is the sequence of its pieces, a key pair is    *)
(* its name, a primitive is undone only with the key it was done with.     *)
(***************************************************************************)
EXTENDS Sequences, Naturals

Failed == <<>>          \* what a call that throws leaves behind

ToBase64(bytes)    == [base64 |-> bytes]
FromBase64(string) == string.base64

-----------------------------------------------------------------------------
(* Public keys: raw is the uncompressed point, SPKI names the curve first. *)

P256_SPKI_PREFIX == <<"P-256">>
Raw(pair)        == <<"04", pair>>
RAW_LEN          == 2
SPKI_LEN         == Len(P256_SPKI_PREFIX) + RAW_LEN

\* Mutant of RawToSpki: the point is published as it is.
RawToSpkiBare(raw) == raw

RawToSpki(raw) == P256_SPKI_PREFIX \o raw

HasPrefix(bytes) == SubSeq(bytes, 1, Len(P256_SPKI_PREFIX)) = P256_SPKI_PREFIX

\* A raw key, an SPKI of this curve, or whatever ends in a raw key: in each
\* case the last RAW_LEN bytes.
SpkiToRaw(spki) ==
  LET offset == Len(spki) - RAW_LEN
      raw    == SubSeq(spki, offset + 1, Len(spki))
  IN  IF /\ offset >= 0
         /\ (Len(spki) = SPKI_LEN /\ HasPrefix(spki)) \/ raw[1] = "04"
      THEN raw ELSE Failed

\* A public CryptoKey.
CryptoKey(raw) == [raw |-> raw]

NativeExport(pair) == ToBase64(RawToSpki(Raw(pair)))
NativeImport(string) ==
  LET raw == SpkiToRaw(FromBase64(string)) IN
  IF raw = Failed THEN Failed ELSE CryptoKey(raw)

WebExport(pair) == ToBase64(P256_SPKI_PREFIX \o Raw(pair))
WebImport(string) ==
  LET bytes == FromBase64(string) IN
  IF Len(bytes) = SPKI_LEN /\ HasPrefix(bytes) THEN CryptoKey(Raw(bytes[SPKI_LEN])) ELSE Failed

ExportPublicKey(p, pair)   == IF p = "native" THEN NativeExport(pair) ELSE WebExport(pair)
ImportPublicKey(p, string) == IF p = "native" THEN NativeImport(string) ELSE WebImport(string)

-----------------------------------------------------------------------------
(* The shared secret: the X coordinate of one private scalar times the     *)
(* other public point, the same whichever way round.                       *)

Shared(scalar, point) == {scalar, point}

\* exportKey('pkcs8'), and the scalar behind the version and the length.
Pkcs8(pair) == <<"020100", "P-256", "020101", "0420", pair, "public">>

P256ScalarFromPkcs8(der) ==
  LET i == CHOOSE i \in 1..Len(der) - 2 :
             /\ der[i] = "020101" /\ der[i + 1] = "0420"
             /\ \A j \in 1..i - 1 : ~(der[j] = "020101" /\ der[j + 1] = "0420")
  IN  der[i + 2]

\* getSharedSecret returns 04 || X || Y.
EcdhP256SharedX(scalar, peerRaw) ==
  LET point == <<"04", Shared(scalar, peerRaw[RAW_LEN]), "Y">> IN point[2]

DeriveSharedSecret(p, pair, peerKey) ==
  IF p = "native" THEN EcdhP256SharedX(P256ScalarFromPkcs8(Pkcs8(pair)), peerKey.raw)
  ELSE Shared(pair, peerKey.raw[RAW_LEN])

-----------------------------------------------------------------------------
(* AES-GCM: twelve random bytes, then the ciphertext and its tag.          *)

Encrypt(plaintext, key) == ToBase64(<<"iv", [sealed |-> plaintext, with |-> key]>>)

Decrypts(ciphertext, key) == FromBase64(ciphertext)[2].with = key
Decrypt(ciphertext)       == FromBase64(ciphertext)[2].sealed

\* The start of the SHA-256 of the exported key.  atob(null) decodes "null".
GenerateFingerprint(string) ==
  [sha256 |-> IF string = <<>> THEN <<"null">> ELSE FromBase64(string)]
=============================================================================
