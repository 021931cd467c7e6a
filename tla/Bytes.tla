------------------------------- MODULE Bytes --------------------------------
(***************************************************************************)
(* Byte strings, numbers written as big-endian bytes, and the outcomes of  *)
(* the functions that read them.  The widths are constants, so that the    *)
(* formats can be checked with small ones.                                 *)
(***************************************************************************)
EXTENDS Integers, Sequences, SequencesExt

CONSTANTS
    U64, U128,    \* widths in bytes of the integer types
    AddressLen,   \* 20 in the code
    Word          \* 32 in the code: r, s, a key, a share's value, an ABI word

ASSUME WidthAssumption == {U64, U128, AddressLen} \subseteq 1 .. 55 /\ Word = 2 * U128

ASSUME AddressAssumption == AddressLen <= Word

Byte == 0 .. 255

Zeros(n) == [i \in 1 .. n |-> 0]

\* A number of any size by its digits in a base
Number(digits, base) == FoldLeft(LAMBDA acc, d : base * acc + d, 0, digits)

\* trimmed_quantity: without leading zeros, <<>> for zero
Trimmed(digits) ==
    LET nonZero == {i \in DOMAIN digits : digits[i] # 0}
    IN  IF nonZero = {} THEN <<>>
        ELSE SubSeq(digits, CHOOSE i \in nonZero : \A j \in nonZero : i <= j, Len(digits))

IsMinimal(bytes) == bytes = Trimmed(bytes)

Refused(error) == [error |-> error]

Accepted(value) == [error |-> "None", value |-> value]

\* What a function returns that goes on with a slice of bytes: it panics unless the
\* slice is within them and has the width of the array that it is made into.
Unwrap(slices, outcome) == IF slices THEN outcome ELSE Refused("Panic")
=============================================================================
