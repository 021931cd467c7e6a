------------------------------ MODULE Envelope ------------------------------
(***************************************************************************)
(* Sealed keys and shares, wallet-storage/src/lib.rs.  Argon2id and        *)
(* XChaCha20-Poly1305 are ideal: a ciphertext decrypts under the           *)
(* passphrase, salt and nonce it was made with and under no other, and     *)
(* nothing else decrypts.                                                  *)
(***************************************************************************)
EXTENDS Bytes

CONSTANTS
    Passphrases,
    Strong,             \* those of at least MIN_PASSPHRASE_LEN characters
    SaltLen, NonceLen, TagLen,
    Order               \* the curve order, as a word

ASSUME EnvelopeAssumption ==
    /\ Strong \subseteq Passphrases
    /\ {SaltLen, NonceLen, TagLen} \subseteq Nat \ {0}
    /\ Order \in [1 .. Word -> 0 .. 255]

FormatVersion == 1

\* Whatever the random generator and the cipher give
Noise(n, seed) == [i \in 1 .. n |-> (seed + 97 * i) % 256]

\* seal_bytes, with what the cipher remembers of it
SealBytes(passphrase, plaintext) ==
    IF passphrase \notin Strong THEN Refused("WeakPassphrase")
    ELSE LET salt == Noise(SaltLen, 0)
             nonce == Noise(NonceLen, 11)
             ciphertext == Noise(Len(plaintext) + TagLen, 22)
         IN  Accepted([passphrase |-> passphrase, plaintext |-> plaintext,
                       salt |-> salt, nonce |-> nonce, ciphertext |-> ciphertext,
                       blob |-> <<FormatVersion>> \o salt \o nonce \o ciphertext])

Decrypt(sealing, passphrase, salt, nonce, ciphertext) ==
    IF <<passphrase, salt, nonce, ciphertext>>
          = <<sealing.passphrase, sealing.salt, sealing.nonce, sealing.ciphertext>>
    THEN Accepted(sealing.plaintext)
    ELSE Refused("DecryptionFailed")

Split(sealing, passphrase, blob) ==
    Unwrap(Len(blob) >= 1 + SaltLen + NonceLen,
        Decrypt(sealing, passphrase,
                SubSeq(blob, 2, 1 + SaltLen),
                SubSeq(blob, 2 + SaltLen, 1 + SaltLen + NonceLen),
                SubSeq(blob, 2 + SaltLen + NonceLen, Len(blob))))

\* The mutant splits a blob without measuring it.
OpenBytes_Unmeasured(sealing, passphrase, blob) ==
    IF blob = <<>> THEN Refused("Truncated")
    ELSE IF blob[1] # FormatVersion THEN Refused("UnsupportedVersion")
    ELSE Split(sealing, passphrase, blob)

OpenBytes(sealing, passphrase, blob) ==
    IF blob = <<>> THEN Refused("Truncated")
    ELSE IF blob[1] # FormatVersion THEN Refused("UnsupportedVersion")
    ELSE IF Len(blob) < 1 + SaltLen + NonceLen THEN Refused("Truncated")
    ELSE Split(sealing, passphrase, blob)

\* A scalar of the curve that is not zero
IsKey(bytes) ==
    /\ bytes # Zeros(Word)
    /\ \E i \in 1 .. Word : bytes[i] < Order[i] /\ \A j \in 1 .. i - 1 : bytes[j] = Order[j]

\* open
OpenKey(sealing, passphrase, blob) ==
    LET opened == OpenBytes(sealing, passphrase, blob)
    IN  IF opened.error # "None" THEN opened
        ELSE IF Len(opened.value) # Word THEN Refused("Truncated")
        ELSE IF ~IsKey(opened.value) THEN Refused("InvalidKeyBytes")
        ELSE opened

SharePlaintext(share) == <<share.index, share.threshold>> \o share.value

\* The mutant takes a plaintext of any length for a share.
OpenShare_AnyLength(sealing, passphrase, blob) ==
    LET opened == OpenBytes(sealing, passphrase, blob)
    IN  IF opened.error # "None" THEN opened
        ELSE Accepted([index |-> opened.value[1], threshold |-> opened.value[2],
                       value |-> SubSeq(opened.value, 3, Len(opened.value))])

OpenShare(sealing, passphrase, blob) ==
    LET opened == OpenBytes(sealing, passphrase, blob)
    IN  IF opened.error # "None" THEN opened
        ELSE IF Len(opened.value) # 2 + Word THEN Refused("Truncated")
        ELSE Unwrap(Len(opened.value) - 2 = Word,
                Accepted([index |-> opened.value[1], threshold |-> opened.value[2],
                          value |-> SubSeq(opened.value, 3, Len(opened.value))]))
=============================================================================
