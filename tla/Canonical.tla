----------------------------- MODULE Canonical ------------------------------
(***************************************************************************)
(* The wallet's own wire format of a plain transfer and the bytes it signs *)
(* for one, wallet-decoder/src/lib.rs.  An integer is its big-endian bytes *)
(* at full width.                                                          *)
(***************************************************************************)
EXTENDS Bytes

CONSTANT MaxInputLen   \* 64 KiB in the code

CurrentVersion == 1

HeaderLen == 1 + U64 + AddressLen + U128 + 2

ASSUME InputAssumption == MaxInputLen \in Nat /\ MaxInputLen > HeaderLen

Transfer ==
    [chain_id : [1 .. U64 -> Byte], to : [1 .. AddressLen -> Byte], value : [1 .. U128 -> Byte]]

EncodeTransfer(tx) == <<CurrentVersion>> \o tx.chain_id \o tx.to \o tx.value \o Zeros(2)

\* The mutant signs the same bytes on every chain.
CanonicalBytes_NoChain(tx) == tx.to \o tx.value

CanonicalBytes(tx) == tx.chain_id \o tx.to \o tx.value

DataLen(raw) == Number(SubSeq(raw, HeaderLen - 1, HeaderLen), 256)

Parsed(raw) ==
    [chain_id |-> SubSeq(raw, 2, 1 + U64),
     to |-> SubSeq(raw, 2 + U64, 1 + U64 + AddressLen),
     value |-> SubSeq(raw, 2 + U64 + AddressLen, 1 + U64 + AddressLen + U128)]

\* decode
DecodeTransfer(raw) ==
    IF raw = <<>> THEN Refused("Empty")
    ELSE IF Len(raw) > MaxInputLen THEN Refused("Oversized")
    ELSE IF Len(raw) < HeaderLen THEN Refused("Truncated")
    ELSE IF raw[1] # CurrentVersion THEN Refused("UnsupportedVersion")
    ELSE Unwrap(Len(raw) >= HeaderLen,
            IF Len(raw) # HeaderLen + DataLen(raw) THEN Refused("Truncated")
            ELSE IF DataLen(raw) > 0 THEN Refused("UnrecognizedCalldata")
            ELSE Accepted(Parsed(raw)))
=============================================================================
