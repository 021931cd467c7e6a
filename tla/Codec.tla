------------------------------- MODULE Codec --------------------------------
(***************************************************************************)
(* Everything the wallet writes and reads back: signed transactions, the   *)
(* wallet's own transfer format, sealed keys and shares, hexadecimal text  *)
(* and ABI words.  A behaviour writes one value in one format; a part of   *)
(* what was written may be lost, replaced or added to on its way; and one  *)
(* of the functions that read the format reads it.                         *)
(***************************************************************************)
EXTENDS Rlp, Canonical, Envelope, Hex

CONSTANTS
    Samples,   \* the values written, by format
    Symbols    \* what a damaged wire may carry, by format

Formats == {"eip1559", "transfer", "key", "share", "bytes", "address", "quantity", "uint256"}

Texts == {"bytes", "address", "quantity"}

\* What the writers of a format are called with
Values(f) ==
    CASE f = "eip1559" -> SignedTx
      [] f = "transfer" -> Transfer
      [] f = "key" -> {bytes \in [1 .. Word -> Byte] : IsKey(bytes)}
      [] f = "share" -> [index : 1 .. 255, threshold : 2 .. 255, value : [1 .. Word -> Byte]]
      [] f = "bytes" -> Seq(Byte)
      [] f = "address" -> [1 .. AddressLen -> Byte]
      [] f \in {"quantity", "uint256"} -> [1 .. U128 -> Byte]

ASSUME SamplesAssumption == \A f \in Formats : Samples[f] \subseteq Values(f)

\* A symbol is at most two bytes.
ASSUME SymbolsAssumption ==
    \A f \in Formats : \A symbol \in Symbols[f] :
        /\ Len(symbol) <= 2
        /\ symbol \in IF f \in Texts THEN Seq(Nat) ELSE Seq(Byte)

VARIABLES
    phase,
    format,
    sent,      \* the value that was written
    sealing,   \* what the cipher knows, if it was sealed
    wire,      \* what there is to read
    damaged,   \* whether it may differ from what was written
    reader,    \* the function that has read it
    passphrase,\* ... with this passphrase, if it was sealed
    result     \* ... and what it returned

vars == <<phase, format, sent, sealing, wire, damaged, reader, passphrase, result>>

Sealed == {"key", "share"}

Readers(f) ==
    CASE f = "eip1559" -> {"decode_signed"}
      [] f = "transfer" -> {"decode"}
      [] f \in Sealed -> {"open", "open_share"}
      [] f = "bytes" -> {"parse_hex_bytes"}
      [] f = "address" -> {"parse_address_hex", "parse_address"}
      [] f = "quantity" -> {"parse_hex_u128"}
      [] f = "uint256" -> {"decode_uint256_result"}

NoSealing == Refused("WeakPassphrase")

AnyPassphrase == CHOOSE p \in Passphrases : TRUE

Init ==
    /\ phase = "start"
    /\ format \in Formats
    /\ sent \in Samples[format]
    /\ sealing = NoSealing
    /\ wire = <<>>
    /\ damaged = FALSE
    /\ reader = "none"
    /\ passphrase = AnyPassphrase
    /\ result = Refused("None")

-----------------------------------------------------------------------------

Seal(p) ==
    LET plaintext == IF format = "key" THEN sent ELSE SharePlaintext(sent)
    IN  /\ sealing' = SealBytes(p, plaintext)
        /\ wire' = IF sealing'.error = "None" THEN sealing'.value.blob ELSE <<>>
        /\ phase' = IF sealing'.error = "None" THEN "written" ELSE "refused"

Encoded ==
    CASE format = "eip1559" -> EncodeSigned(sent)
      [] format = "transfer" -> EncodeTransfer(sent)
      [] format \in {"bytes", "address"} -> ToHex(sent)
      [] format = "quantity" -> ToHexQuantity(sent)
      [] format = "uint256" -> Zeros(Word - U128) \o sent

Write ==
    /\ phase = "start"
    /\ \/ format \in Sealed /\ \E p \in Passphrases : Seal(p)
       \/ /\ format \notin Sealed
          /\ wire' = Encoded
          /\ phase' = "written"
          /\ UNCHANGED sealing
    /\ UNCHANGED <<format, sent, damaged, reader, passphrase, result>>

Splice(seq, i, n, symbol) == SubSeq(seq, 1, i - 1) \o symbol \o SubSeq(seq, i + n, Len(seq))

\* Up to two bytes are lost, replaced by a symbol, or gain one in front of them.
Damage ==
    /\ phase = "written"
    /\ ~damaged
    /\ damaged' = TRUE
    /\ \E i \in 1 .. Len(wire) + 1, n \in 0 .. 2, symbol \in Symbols[format] \cup {<<>>} :
          wire' = Splice(wire, i, n, symbol)
    /\ UNCHANGED <<phase, format, sent, sealing, reader, passphrase, result>>

\* Another encoder has other fields in a list of the right length.
Reframe ==
    /\ phase = "written"
    /\ ~damaged
    /\ format = "eip1559"
    /\ damaged' = TRUE
    /\ LET body == DecodeItem(Tail(wire)).bytes
       IN  \E i \in 1 .. Len(body) + 1, n \in 0 .. 2, symbol \in Symbols[format] \cup {<<>>} :
              LET other == Splice(body, i, n, symbol)
              IN  wire' = <<TypeByte>> \o Header(192, Len(other)) \o other
    /\ UNCHANGED <<phase, format, sent, sealing, reader, passphrase, result>>

\* Only the head of what was written arrives.
Truncate ==
    /\ phase = "written"
    /\ ~damaged
    /\ damaged' = TRUE
    /\ \E n \in 0 .. Len(wire) - 1 : wire' = SubSeq(wire, 1, n)
    /\ UNCHANGED <<phase, format, sent, sealing, reader, passphrase, result>>

Returned(r, p) ==
    CASE r = "decode_signed" -> DecodeSigned(wire)
      [] r = "decode" -> DecodeTransfer(wire)
      [] r = "open" -> OpenKey(sealing.value, p, wire)
      [] r = "open_share" -> OpenShare(sealing.value, p, wire)
      [] r = "parse_hex_bytes" -> ParseHex(wire)
      [] r = "parse_address_hex" -> ParseFixedHex(wire, AddressLen)
      [] r = "parse_address" -> ParseThenMeasure(wire, AddressLen)
      [] r = "parse_hex_u128" -> ParseQuantity(wire, U128)
      [] r = "decode_uint256_result" -> DecodeUint256(wire)

Read(r, p) ==
    /\ phase = "written"
    /\ phase' = "read"
    /\ reader' = r
    /\ passphrase' = p
    /\ result' = Returned(r, p)
    /\ UNCHANGED <<format, sent, sealing, wire, damaged>>

Next ==
    \/ Write \/ Damage \/ Reframe \/ Truncate
    \/ \E r \in Readers(format) :
          \E p \in IF format \in Sealed THEN Passphrases ELSE {AnyPassphrase} : Read(r, p)

Spec == Init /\ [][Next]_vars

-----------------------------------------------------------------------------
(* Properties *)

Accepts(f) == phase = "read" /\ format = f /\ result.error = "None"

\* What was written and reaches its reader whole is read as what it was, whatever
\* the widths of its parts: every quantity with or without leading zeros, every
\* length on either side of a longer header (evm.rs:97-108, lib.rs:150-152 of
\* wallet-decoder; the round trips of the tests).
RoundTrip ==
    /\ phase = "read" /\ ~damaged /\ format \notin Sealed =>
          result.error = "None" /\ result.value = sent
    /\ phase = "read" /\ ~damaged /\ format \in Sealed =>
          (passphrase = sealing.value.passphrase /\ reader = (IF format = "key" THEN "open" ELSE "open_share")
             => result.error = "None" /\ result.value = sent)

Padded(number) == {Zeros(n) \o Trimmed(number) : n \in 0 .. Word - Len(Trimmed(number))}

\* "Fails closed on anything not matching this exact shape" (evm.rs:172-175): bytes
\* that are accepted are, but for zeros in front of r and s, the bytes that
\* encode_signed writes of what was read from them.
OnlyEncodingsAreAccepted ==
    /\ Accepts("eip1559") =>
          LET tx == result.value
          IN  \E r \in Padded(tx.r), s \in Padded(tx.s) : wire = EncodeWith(tx, r, s)
    /\ Accepts("transfer") => wire = EncodeTransfer(result.value)

\* Two transactions are signed alike only if they are the same, on the same chain:
\* a signature over one never fits another (lib.rs:54-58 of wallet-decoder,
\* evm.rs:145-151 of wallet-core).
SignedBytesTellTransactionsApart ==
    /\ Accepts("transfer") /\ result.value # sent => CanonicalBytes(result.value) # CanonicalBytes(sent)
    /\ Accepts("eip1559") =>
          (EncodeUnsigned(result.value) = EncodeUnsigned(sent)
             => \A i \in DOMAIN UnsignedLayout :
                    result.value[UnsignedLayout[i].name] = sent[UnsignedLayout[i].name])

\* "Fails closed" (lib.rs:136-138 of wallet-storage): a blob opens only unchanged,
\* under the passphrase it was sealed with, and a key never opens as a share or a
\* share as a key.
SealedIsAuthentic ==
    Accepts("key") \/ Accepts("share") =>
        /\ wire = sealing.value.blob
        /\ passphrase = sealing.value.passphrase
        /\ reader = IF format = "key" THEN "open" ELSE "open_share"

\* "Panics: never in practice" (lib.rs:140-142 and 192-196 of wallet-storage,
\* lib.rs:105-108 of wallet-decoder): whatever is read, the guards leave no slice out
\* of range or of another width than its array; only the readers of pairs of digits can
\* panic, and only on a text that has a character beyond ASCII for a slice to fall in.
OnlyWideCharactersPanic ==
    phase = "read" /\ result.error = "Panic" =>
        format \in {"bytes", "address"} /\ Continuation \in ToSet(wire)

\* A text that is accepted is the text of what was read from it, or it has a plus
\* sign where from_str_radix takes one, or zeros in front of a quantity.
TextMeansItsBytes ==
    /\ Accepts("bytes") \/ Accepts("address") => wire = ToHex(result.value) \/ Plus \in ToSet(wire)
    /\ Accepts("quantity") =>
          \/ Plus \in ToSet(wire)
          \/ Trimmed(Tail(Tail(wire))) = Trimmed(Tail(Tail(ToHexQuantity(result.value))))

\* A balance that is not zero is all of the word the contract answered with: it is
\* neither cut to a u128 nor read from a part of a word (lib.rs:627-639 of
\* wallet-ffi); an answer of less than a word reads as zero, which no caller can tell
\* from a balance of zero.
BalanceIsTheWholeWord ==
    Accepts("uint256") /\ result.value # Zeros(U128) =>
        SubSeq(wire, 1, Word) = Zeros(Word - U128) \o result.value
=============================================================================
