------------------------------- MODULE Shamir -------------------------------
(***************************************************************************)
(* Splitting a key and having it back, wallet-crypto/src/shamir.rs, over a *)
(* small prime field in the place of the secp256k1 scalars.  A behaviour   *)
(* is one split and one reconstruction: shares are handed in as dealt or   *)
(* with one of them forged, in any order and number.  The functions keep   *)
(* no state between calls.                                                 *)
(***************************************************************************)
EXTENDS Integers, Sequences, FiniteSets, SequencesExt

CONSTANTS
    P,           \* the field's prime
    MaxParties   \* bound on the number of shares

ASSUME FieldAssumption == P \in Nat \ {0, 1} /\ \A a, b \in 1 .. P - 1 : (a * b) % P # 0

\* small_scalar maps the indices 1 .. 255 injectively into the field.
ASSUME PartiesAssumption == MaxParties \in 2 .. P - 1

Scalars == 0 .. P - 1

Share == [index : 0 .. MaxParties, threshold : 0 .. MaxParties, value : Scalars]

\* Those that split deals
DealtShare == [index : 1 .. MaxParties, threshold : 2 .. MaxParties, value : Scalars]

Errors == {"None", "ThresholdTooSmall", "ThresholdExceedsParties", "DuplicateShareIndex",
           "WrongShareCount", "ThresholdMismatch", "ZeroIndexReserved", "ReconstructionMismatch"}

VARIABLES
    call,      \* the last call made
    secret,    \* the key that was split; the verifier knows its public key
    shares,    \* what split returned
    given,     \* what was handed to the reconstruction
    error, key \* what the last call returned

vars == <<call, secret, shares, given, error, key>>

TypeOK ==
    /\ call \in {"none", "split", "reconstruct_and_verify", "reconstruct_unverified"}
    /\ secret \in 1 .. P - 1
    /\ shares \in Seq(DealtShare)
    /\ given \in Seq(Share)
    /\ error \in Errors
    /\ key \in Scalars

Init ==
    /\ call = "none"
    /\ secret \in 1 .. P - 1
    /\ shares = <<>>
    /\ given = <<>>
    /\ error = "None"
    /\ key = 0

-----------------------------------------------------------------------------
(* split *)

\* The mutant never advances the power of x.
Evaluate_Flat(s, coeffs, x) ==
    FoldLeft(LAMBDA acc, c : [acc EXCEPT !.y = (@ + c * acc.power) % P],
             [y |-> s, power |-> x], coeffs).y

\* s + coeffs[1] * x + coeffs[2] * x^2 + ..., with a running power of x.
Evaluate(s, coeffs, x) ==
    FoldLeft(LAMBDA acc, c : [y |-> (acc.y + c * acc.power) % P, power |-> (acc.power * x) % P],
             [y |-> s, power |-> x], coeffs).y

Deal(s, threshold, coeffs, n) ==
    [i \in 1 .. n |-> [index |-> i, threshold |-> threshold, value |-> Evaluate(s, coeffs, i)]]

\* threshold - 1 random coefficients, any of which may be zero.
Coefficients(threshold) == [1 .. threshold - 1 -> Scalars]

\* The mutant lets a threshold of one, or none, pass.
Split_NoMinimum(threshold, n) ==
    /\ call = "none"
    /\ call' = "split"
    /\ \/ threshold > n /\ error' = "ThresholdExceedsParties" /\ UNCHANGED shares
       \/ /\ threshold <= n
          /\ \E coeffs \in Coefficients(threshold) : shares' = Deal(secret, threshold, coeffs, n)
          /\ UNCHANGED error
    /\ UNCHANGED <<secret, given, key>>

Split(threshold, n) ==
    /\ call = "none"
    /\ call' = "split"
    /\ \/ threshold < 2 /\ error' = "ThresholdTooSmall" /\ UNCHANGED shares
       \/ threshold >= 2 /\ threshold > n /\ error' = "ThresholdExceedsParties" /\ UNCHANGED shares
       \/ /\ threshold >= 2 /\ threshold <= n
          /\ \E coeffs \in Coefficients(threshold) : shares' = Deal(secret, threshold, coeffs, n)
          /\ UNCHANGED error
    /\ UNCHANGED <<secret, given, key>>

-----------------------------------------------------------------------------
(* reconstruct *)

\* The first check that the list fails; the mutant has no check of the indices.
Refusal_NoDuplicateCheck(list) ==
    IF list = <<>> \/ Len(list) # list[1].threshold THEN "WrongShareCount"
    ELSE IF \E k \in DOMAIN list : list[k].threshold # list[1].threshold THEN "ThresholdMismatch"
    ELSE "None"

Bad(list, k) ==
    \/ list[k].threshold # list[1].threshold
    \/ list[k].index = 0
    \/ \E j \in 1 .. k - 1 : list[j].index = list[k].index

Refusal(list) ==
    IF list = <<>> \/ Len(list) # list[1].threshold THEN "WrongShareCount"
    ELSE IF \A k \in DOMAIN list : ~Bad(list, k) THEN "None"
    ELSE LET first == CHOOSE k \in DOMAIN list : Bad(list, k) /\ \A j \in 1 .. k - 1 : ~Bad(list, j)
         IN  IF list[first].threshold # list[1].threshold THEN "ThresholdMismatch"
             ELSE IF list[first].index = 0 THEN "ZeroIndexReserved"
             ELSE "DuplicateShareIndex"

\* den.invert().unwrap(): no inverse would be a panic, here an evaluation error.
Invert(a) == CHOOSE b \in Scalars : (a * b) % P = 1

Indices(list) == [k \in DOMAIN list |-> list[k].index]

\* The mutant adds where it should subtract.
LagrangeCoefficient_Sum(index, indices) ==
    LET num == FoldLeft(LAMBDA acc, j : IF j = index THEN acc ELSE (acc * j) % P, 1, indices)
        den == FoldLeft(LAMBDA acc, j : IF j = index THEN acc ELSE (acc * (j + index)) % P, 1, indices)
    IN  IF den = 0 THEN 0 ELSE (num * Invert(den)) % P

\* The product of j / (j - index) over the other indices j.
LagrangeCoefficient(index, indices) ==
    LET num == FoldLeft(LAMBDA acc, j : IF j = index THEN acc ELSE (acc * j) % P, 1, indices)
        den == FoldLeft(LAMBDA acc, j : IF j = index THEN acc ELSE (acc * (j - index)) % P, 1, indices)
    IN  (num * Invert(den)) % P

Interpolate(list) ==
    FoldLeft(LAMBDA acc, s : (acc + s.value * LagrangeCoefficient(s.index, Indices(list))) % P, 0, list)

\* A zero scalar is no private key.
Reconstruct(list) ==
    IF Refusal(list) # "None" THEN [error |-> Refusal(list), key |-> 0]
    ELSE LET k == Interpolate(list)
         IN  [error |-> IF k = 0 THEN "ReconstructionMismatch" ELSE "None", key |-> k]

Return(name, list, result) ==
    /\ call = "split"
    /\ call' = name
    /\ given' = list
    /\ error' = result.error
    /\ key' = IF result.error = "None" THEN result.key ELSE 0
    /\ UNCHANGED <<secret, shares>>

ReconstructUnverified(list) == Return("reconstruct_unverified", list, Reconstruct(list))

\* The mutant only checks that the scalar is a key.
ReconstructAndVerify_Trusting(list) == Return("reconstruct_and_verify", list, Reconstruct(list))

ReconstructAndVerify(list) ==
    LET result == Reconstruct(list)
    IN  Return("reconstruct_and_verify", list,
               IF result.error = "None" /\ result.key # secret
               THEN [result EXCEPT !.error = "ReconstructionMismatch"] ELSE result)

\* from_parts_dangerous accepts any metadata and value; a share of threshold 1 is
\* reconstructed alone, one of threshold 0 never.
Forgeries(share) ==
    {[share EXCEPT !.value = v] : v \in Scalars}
        \cup {[share EXCEPT !.index = i] : i \in 0 .. MaxParties}
        \cup {[share EXCEPT !.threshold = t] : t \in 0 .. MaxParties}

Lists == UNION {[1 .. m -> ToSet(shares)] : m \in 0 .. MaxParties}

\* Genuine shares, or all but one genuine.
Next ==
    \/ \E threshold, n \in 0 .. MaxParties : Split(threshold, n)
    \/ \E list \in Lists :
          \/ ReconstructUnverified(list) \/ ReconstructAndVerify(list)
          \/ \E k \in DOMAIN list : \E forged \in Forgeries(list[k]) :
                LET tampered == [list EXCEPT ![k] = forged]
                IN  ReconstructUnverified(tampered) \/ ReconstructAndVerify(tampered)

Spec == Init /\ [][Next]_vars

-----------------------------------------------------------------------------
(* Properties *)

Genuine(k) == given[k] \in ToSet(shares)

Called == call \notin {"none", "split"}

\* Exactly threshold many different shares (shamir.rs:134-139).
Quorum == given # <<>> /\ IsInjective(given) /\ Len(given) = given[1].threshold

\* With the shares of one split, in any order, repeated or too few or too many,
\* either path answers with the split key if and only if they are a quorum: a
\* wrong number or a repetition is refused, never interpolated (shamir.rs:158-195).
QuorumsAndOnlyQuorumsReconstruct ==
    Called /\ (\A k \in DOMAIN given : Genuine(k)) =>
        IF Quorum THEN error = "None" /\ key = secret ELSE error # "None"

\* Shamir sharing alone cannot tell a wrong share from a right one; the check of
\* the public key can (shamir.rs:134-145): no key but the split one ever leaves
\* reconstruct_and_verify, and a share whose value is forged is always noticed.
ForgeriesAreNoticed ==
    call = "reconstruct_and_verify" /\ error = "None" =>
        /\ key = secret
        /\ \A k \in DOMAIN given : \A j \in DOMAIN shares :
              given[k].index = shares[j].index => given[k].value = shares[j].value

\* "threshold - 1 reveal nothing about it" (shamir.rs:92-93): every key could have
\* been split into whatever threshold - 1 shares an onlooker has seen.
BelowThresholdRevealsNothing ==
    call = "split" /\ shares # <<>> =>
        LET t == shares[1].threshold
        IN  \A seen \in kSubset(t - 1, DOMAIN shares) : \A s \in Scalars :
                \E coeffs \in Coefficients(t) :
                    \A i \in seen : Evaluate(s, coeffs, i) = shares[i].value
=============================================================================
