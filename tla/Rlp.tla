-------------------------------- MODULE Rlp ---------------------------------
(***************************************************************************)
(* The EIP-1559 wire format, wallet-decoder/src/evm.rs, and the part of    *)
(* alloy-rlp that it uses.  A transaction is a record of byte strings; an  *)
(* integer is its trimmed bytes, which is what alloy-rlp writes.           *)
(***************************************************************************)
EXTENDS Bytes

Field(name, kind, width) == [name |-> name, kind |-> kind, width |-> width]

\* UnsignedEip1559Tx, in wire order
UnsignedLayout == <<
    Field("chain_id", "int", U64),
    Field("nonce", "int", U64),
    Field("max_priority_fee_per_gas", "int", U128),
    Field("max_fee_per_gas", "int", U128),
    Field("gas_limit", "int", U64),
    Field("to", "fixed", AddressLen),
    Field("value", "int", U128),
    Field("data", "bytes", 0) >>

AccessList == Field("access_list", "empty_list", 0)

\* What SignedEip1559Tx adds
SignatureLayout == <<
    Field("y_parity", "parity", 1),
    Field("r", "word", Word),
    Field("s", "word", Word) >>

SignedLayout == UnsignedLayout \o <<AccessList>> \o SignatureLayout

TypeByte == 2

\* The longest calldata that is written here, far more than a request of at most 64 KiB
\* carries (lib.rs:83 of wallet-ffi); three bytes announce any longer payload.
MaxDataLen == 8388608

Quantity(width) == {v \in Seq(Byte) : Len(v) <= width /\ IsMinimal(v)}

\* SignedEip1559Tx
SignedTx ==
    [chain_id : Quantity(U64), nonce : Quantity(U64),
     max_priority_fee_per_gas : Quantity(U128), max_fee_per_gas : Quantity(U128),
     gas_limit : Quantity(U64), to : [1 .. AddressLen -> Byte], value : Quantity(U128),
     data : {d \in Seq(Byte) : Len(d) <= MaxDataLen},
     y_parity : {<<>>, <<1>>}, r : [1 .. Word -> Byte], s : [1 .. Word -> Byte]]

-----------------------------------------------------------------------------
(* Encoding *)

LengthBytes(n) == Trimmed(<<n \div 65536, (n \div 256) % 256, n % 256>>)

\* alloy_rlp::Header::encode; code is 128 for a string and 192 for a list.
Header(code, n) ==
    IF n <= 55 THEN <<code + n>>
    ELSE <<code + 55 + Len(LengthBytes(n))>> \o LengthBytes(n)

\* alloy_rlp's Encodable for integers, arrays and slices
Item(bytes) ==
    IF Len(bytes) = 1 /\ bytes[1] < 128 THEN bytes ELSE Header(128, Len(bytes)) \o bytes

EncodeFields(tx) ==
    Item(tx.chain_id) \o Item(tx.nonce) \o Item(tx.max_priority_fee_per_gas)
        \o Item(tx.max_fee_per_gas) \o Item(tx.gas_limit) \o Item(tx.to) \o Item(tx.value)
        \o Item(tx.data) \o <<192>>

ItemLen(bytes) == Len(Item(bytes))

\* The mutant forgets the byte of the access list.
FieldsLength_NoAccessList(tx) ==
    ItemLen(tx.chain_id) + ItemLen(tx.nonce) + ItemLen(tx.max_priority_fee_per_gas)
        + ItemLen(tx.max_fee_per_gas) + ItemLen(tx.gas_limit) + ItemLen(tx.to)
        + ItemLen(tx.value) + ItemLen(tx.data)

\* Counted on its own, ahead of the fields.
FieldsLength(tx) ==
    ItemLen(tx.chain_id) + ItemLen(tx.nonce) + ItemLen(tx.max_priority_fee_per_gas)
        + ItemLen(tx.max_fee_per_gas) + ItemLen(tx.gas_limit) + ItemLen(tx.to)
        + ItemLen(tx.value) + ItemLen(tx.data) + 1

EncodeUnsigned(tx) == <<TypeByte>> \o Header(192, FieldsLength(tx)) \o EncodeFields(tx)

\* encode_signed for r and s with any number of leading zeros, ...
EncodeWith(tx, r, s) ==
    LET signature == Item(tx.y_parity) \o Item(r) \o Item(s)
    IN  <<TypeByte>> \o Header(192, FieldsLength(tx) + Len(signature)) \o EncodeFields(tx) \o signature

\* ... which it trims.
EncodeSigned(tx) == EncodeWith(tx, Trimmed(tx.r), Trimmed(tx.s))

-----------------------------------------------------------------------------
(* Decoding *)

Malformed == [ok |-> FALSE]

Payload(list, n, rest) ==
    IF n > Len(rest) THEN Malformed
    ELSE [ok |-> TRUE, list |-> list,
          bytes |-> SubSeq(rest, 1, n), rest |-> SubSeq(rest, n + 1, Len(rest))]

\* A length in more than three bytes is longer than any input.
LongPayload(list, lenLen, rest) ==
    IF lenLen > Len(rest) \/ lenLen > 3 \/ rest[1] = 0 \/ Number(SubSeq(rest, 1, lenLen), 256) < 56
    THEN Malformed
    ELSE Payload(list, Number(SubSeq(rest, 1, lenLen), 256), SubSeq(rest, lenLen + 1, Len(rest)))

\* alloy_rlp::Header::decode_bytes: one item off the front of a buffer.
DecodeItem(buf) ==
    IF buf = <<>> THEN Malformed
    ELSE LET b == buf[1]
             rest == Tail(buf)
         IN  CASE b < 128 -> [ok |-> TRUE, list |-> FALSE, bytes |-> <<b>>, rest |-> rest]
               [] b \in 128 .. 183 ->
                      IF b = 129 /\ (rest = <<>> \/ rest[1] < 128) THEN Malformed
                      ELSE Payload(FALSE, b - 128, rest)
               [] b \in 184 .. 191 -> LongPayload(FALSE, b - 183, rest)
               [] b \in 192 .. 247 -> Payload(TRUE, b - 192, rest)
               [] b \in 248 .. 255 -> LongPayload(TRUE, b - 247, rest)

\* The Decodable implementations and the guards of decode_quantity_32; the mutant takes
\* an integer with leading zeros.
WrongShape_AnyInteger(item, field) ==
    \/ ~item.ok
    \/ item.list # (field.kind = "empty_list")
    \/ field.kind = "fixed" /\ Len(item.bytes) # field.width
    \/ field.kind \in {"int", "parity", "word"} /\ Len(item.bytes) > field.width

WrongShape(item, field) ==
    \/ ~item.ok
    \/ item.list # (field.kind = "empty_list")
    \/ field.kind = "fixed" /\ Len(item.bytes) # field.width
    \/ field.kind \in {"int", "parity", "word"} /\ Len(item.bytes) > field.width
    \/ field.kind \in {"int", "parity"} /\ ~IsMinimal(item.bytes)

\* decode_quantity_32 fills an array of a word from its end, which panics for more.
FieldError(item, field) ==
    IF WrongShape(item, field) THEN "Malformed"
    ELSE IF field.kind = "parity" /\ item.bytes \notin {<<>>, <<1>>} THEN "InvalidYParity"
    ELSE IF field.kind = "empty_list" /\ item.bytes # <<>> THEN "UnrecognizedAccessList"
    ELSE IF field.kind = "word" /\ Len(item.bytes) > Word THEN "Panic"
    ELSE "None"

FieldValue(item, field) ==
    CASE field.kind = "word" -> Zeros(Word - Len(item.bytes)) \o item.bytes
      [] field.kind \in {"int", "parity"} -> Trimmed(item.bytes)
      [] OTHER -> item.bytes

\* One more field of the body
DecodeField(acc, field) ==
    LET item == DecodeItem(acc.rest)
        error == FieldError(item, field)
    IN  IF acc.error # "None" THEN acc
        ELSE IF error # "None" THEN [acc EXCEPT !.error = error]
        ELSE [acc EXCEPT !.rest = item.rest, !.values = Append(@, FieldValue(item, field))]

\* The transaction whose fields have been read; the access list has no value.
Transaction(values) ==
    [chain_id |-> values[1], nonce |-> values[2],
     max_priority_fee_per_gas |-> values[3], max_fee_per_gas |-> values[4],
     gas_limit |-> values[5], to |-> values[6], value |-> values[7], data |-> values[8],
     y_parity |-> values[10], r |-> values[11], s |-> values[12]]

\* The mutant does not look for bytes after the last field.
DecodeSigned_IgnoresRest(raw) ==
    IF raw = <<>> THEN Refused("Empty")
    ELSE IF raw[1] # TypeByte THEN Refused("UnsupportedType")
    ELSE LET list == DecodeItem(Tail(raw))
             body == FoldLeft(DecodeField, [error |-> "None", rest |-> list.bytes, values |-> <<>>],
                              SignedLayout)
         IN  IF ~list.ok \/ ~list.list THEN Refused("Malformed")
             ELSE IF body.error # "None" THEN Refused(body.error)
             ELSE Accepted(Transaction(body.values))

DecodeSigned(raw) ==
    IF raw = <<>> THEN Refused("Empty")
    ELSE IF raw[1] # TypeByte THEN Refused("UnsupportedType")
    ELSE LET list == DecodeItem(Tail(raw))
             body == FoldLeft(DecodeField, [error |-> "None", rest |-> list.bytes, values |-> <<>>],
                              SignedLayout)
         IN  IF ~list.ok \/ ~list.list THEN Refused("Malformed")
             ELSE IF list.rest # <<>> THEN Refused("TrailingBytes")
             ELSE IF body.error # "None" THEN Refused(body.error)
             ELSE IF body.rest # <<>> THEN Refused("TrailingBytes")
             ELSE Accepted(Transaction(body.values))
=============================================================================
