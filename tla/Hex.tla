-------------------------------- MODULE Hex ---------------------------------
(***************************************************************************)
(* Hexadecimal text, wallet-rpc/src/evm.rs, wallet-cli/src/hex.rs and      *)
(* parse_address_hex of wallet-ffi/src/lib.rs, and the ABI words of        *)
(* wallet-ffi.  A text is its UTF-8 bytes: a hexadecimal digit in either   *)
(* case is its value, a character beyond ASCII is a Lead and a             *)
(* Continuation, every other byte that no function tells apart is Other.   *)
(* An integer is its big-endian bytes at full width.                       *)
(***************************************************************************)
EXTENDS Bytes

Plus == 16
X == 17
Other == 18
Lead == 19
Continuation == 20

Digits == 0 .. 15

\* The digits of bytes, and the bytes of an even number of digits
Nibbles(bytes) ==
    [i \in 1 .. 2 * Len(bytes) |->
        IF i % 2 = 1 THEN bytes[(i + 1) \div 2] \div 16 ELSE bytes[i \div 2] % 16]

Joined(digits) ==
    [i \in 1 .. Len(digits) \div 2 |-> Number(SubSeq(digits, 2 * i - 1, 2 * i), 16)]

\* to_hex, to_hex_address, hex_encode
ToHex(bytes) == <<0, X>> \o Nibbles(bytes)

\* to_hex_u128: no leading zero, but for zero itself
ToHexQuantity(number) ==
    LET digits == Trimmed(Nibbles(number))
    IN  <<0, X>> \o IF digits = <<>> THEN <<0>> ELSE digits

\* The mutant forgets to look for the prefix.
Stripped_Blindly(text) == Accepted(SubSeq(text, 3, Len(text)))

\* strip_prefix("0x")
Stripped(text) ==
    IF Len(text) >= 2 /\ SubSeq(text, 1, 2) = <<0, X>> THEN Accepted(SubSeq(text, 3, Len(text)))
    ELSE Refused("Invalid")

\* from_str_radix takes one plus sign in front of the digits.
Unsigned(text) == IF Len(text) > 1 /\ text[1] = Plus THEN Tail(text) ELSE text

\* A slice may only begin and end between characters.
SplitsCharacter(text, first, last) ==
    text[first] = Continuation \/ (last < Len(text) /\ text[last + 1] = Continuation)

\* What the loop makes of the k-th pair of characters
Pair(text, k) == Unsigned(SubSeq(text, 2 * k - 1, 2 * k))

PairError(text, k) ==
    IF 2 * k > Len(text) \/ SplitsCharacter(text, 2 * k - 1, 2 * k) THEN "Panic"
    ELSE IF ~ToSet(Pair(text, k)) \subseteq Digits THEN "Invalid"
    ELSE "None"

\* The loop over n pairs; the first in error ends it.
ParsePairs(text, n) ==
    LET pairs == 1 .. n
        failing == {k \in pairs : PairError(text, k) # "None"}
    IN  IF failing = {} THEN Accepted([k \in pairs |-> Number(Pair(text, k), 16)])
        ELSE Refused(PairError(text, Min(failing)))

\* parse_hex_bytes of the client, parse_hex of the command line
ParseHex(text) ==
    LET digits == Stripped(text)
    IN  IF digits.error # "None" THEN digits
        ELSE IF Len(digits.value) % 2 # 0 THEN Refused("Invalid")
        ELSE ParsePairs(digits.value, Len(digits.value) \div 2)

\* parse_hex_bytes32, parse_address_hex: the length is checked first.
ParseFixedHex(text, n) ==
    LET digits == Stripped(text)
    IN  IF digits.error # "None" THEN digits
        ELSE IF Len(digits.value) # 2 * n THEN Refused("Invalid")
        ELSE ParsePairs(digits.value, n)

\* parse_fixed of the command line: the length is checked last.
ParseThenMeasure(text, n) ==
    LET parsed == ParseHex(text)
    IN  IF parsed.error # "None" THEN parsed
        ELSE IF Len(parsed.value) # n THEN Refused("Invalid")
        ELSE Unwrap(Len(parsed.value) = n, parsed)

\* parse_hex_u64, parse_hex_u128
ParseQuantity(text, width) ==
    LET digits == Stripped(text)
    IN  IF digits.error # "None" THEN digits
        ELSE IF digits.value = <<>> \/ ~ToSet(Unsigned(digits.value)) \subseteq Digits
             THEN Refused("Invalid")
        ELSE LET number == Trimmed(Unsigned(digits.value))
             IN  IF Len(number) > 2 * width THEN Refused("Invalid")
                 ELSE Accepted(Joined(Zeros(2 * width - Len(number)) \o number))

Selector == <<169, 5, 156, 187>>

\* construct_transfer_data; value is a u128 at full width.
TransferData(to, value) == Selector \o Zeros(Word - AddressLen) \o to \o Zeros(Word - U128) \o value

\* The mutant does not look at the upper half of the word.
DecodeUint256_LowHalf(result) ==
    IF Len(result) < Word THEN Accepted(Zeros(U128))
    ELSE Accepted(SubSeq(result, Word - U128 + 1, Word))

\* decode_uint256_result; an answer of less than a word reads as zero.
DecodeUint256(result) ==
    IF Len(result) < Word THEN Accepted(Zeros(U128))
    ELSE Unwrap(Len(result) >= Word,
            IF SubSeq(result, 1, Word - U128) # Zeros(Word - U128) THEN Refused("Invalid")
            ELSE Accepted(SubSeq(result, Word - U128 + 1, Word)))
=============================================================================
