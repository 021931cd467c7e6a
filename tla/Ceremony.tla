------------------------------ MODULE Ceremony ------------------------------
(***************************************************************************)
(* The signing ceremony: sign_with_shares_recoverable of                   *)
(* wallet-core/src/ceremony.rs over wallet-crypto/src/keys.rs, and         *)
(* sign_and_encode of wallet-core/src/evm.rs, on top of Shamir.  The curve *)
(* is its cyclic group: the point k * G is k, a public key is its scalar,  *)
(* and of the coordinates there is what signing looks at: x, and whether y *)
(* is odd.                                                                 *)
(***************************************************************************)
EXTENDS Shamir

CONSTANTS
    XCoord,  \* of the points k * G, k in 1 .. P - 1
    YOdd

\* Two points have the same x if they are opposite, and then their ys differ in
\* parity.
ASSUME CurveAssumption ==
    /\ XCoord \in [1 .. P - 1 -> Nat]
    /\ YOdd \in [1 .. P - 1 -> BOOLEAN]
    /\ \A j, k \in 1 .. P - 1 :
          /\ XCoord[j] = XCoord[k] <=> k \in {j, P - j}
          /\ k = P - j => YOdd[j] # YOdd[k]

VARIABLES
    digest,    \* what was to be signed
    outcome,   \* of the ceremony: "none" while it has not come to an end
    signature  \* y_parity, r and s of the transaction it returned

ceremonyVars == <<vars, digest, outcome, signature>>

NoSignature == [y_odd |-> FALSE, r |-> 0, s |-> 0]

Outcomes == {"none", "signed", "SignatureSelfCheckFailed", "UnrepresentableRecoveryId"}

CeremonyTypeOK ==
    /\ TypeOK
    /\ digest \in Scalars
    /\ outcome \in Outcomes
    /\ signature \in [y_odd : BOOLEAN, r : Scalars, s : Scalars]

CeremonyInit ==
    /\ Init
    /\ digest = 0
    /\ outcome = "none"
    /\ signature = NoSignature

-----------------------------------------------------------------------------

\* RFC 6979 derives the nonce from key and digest; any that leaves neither r nor s
\* zero may come out.
Nonces(d, z) ==
    {k \in 1 .. P - 1 : XCoord[k] % P # 0 /\ (z + XCoord[k] * d) % P # 0}

IsHigh(s) == 2 * s > P

\* The mutants keep a high s, and normalise s but not the parity.
SignPrehashRecoverable_High(d, z, k) ==
    LET r == XCoord[k] % P
    IN  [r |-> r, s |-> (Invert(k) * (z + r * d)) % P,
         y_odd |-> YOdd[k], x_reduced |-> XCoord[k] >= P]

SignPrehashRecoverable_ParityStays(d, z, k) ==
    LET r == XCoord[k] % P
        s == (Invert(k) * (z + r * d)) % P
    IN  [r |-> r, s |-> IF IsHigh(s) THEN P - s ELSE s,
         y_odd |-> YOdd[k], x_reduced |-> XCoord[k] >= P]

\* k256 normalises a high s to the lower half, which mirrors the nonce's point.
SignPrehashRecoverable(d, z, k) ==
    LET r == XCoord[k] % P
        s == (Invert(k) * (z + r * d)) % P
    IN  [r |-> r, s |-> IF IsHigh(s) THEN P - s ELSE s,
         y_odd |-> YOdd[k] # IsHigh(s), x_reduced |-> XCoord[k] >= P]

\* verify_prehash: k256 takes no high s.
Verifies(public, z, sig) ==
    /\ ~IsHigh(sig.s)
    /\ LET point == (Invert(sig.s) * (z + sig.r * public)) % P
       IN  point # 0 /\ XCoord[point] % P = sig.r

\* The mutant drops the bit that says x was reduced.
Finish_DropsReduction(sig) ==
    IF ~Verifies(secret, digest', sig)
    THEN outcome' = "SignatureSelfCheckFailed" /\ UNCHANGED signature
    ELSE /\ outcome' = "signed"
         /\ signature' = [y_odd |-> sig.y_odd, r |-> sig.r, s |-> sig.s]

\* The signature is checked against the wallet's key; a reduced x cannot be
\* expressed by y_parity.
Finish(sig) ==
    IF ~Verifies(secret, digest', sig)
    THEN outcome' = "SignatureSelfCheckFailed" /\ UNCHANGED signature
    ELSE IF sig.x_reduced
    THEN outcome' = "UnrepresentableRecoveryId" /\ UNCHANGED signature
    ELSE /\ outcome' = "signed"
         /\ signature' = [y_odd |-> sig.y_odd, r |-> sig.r, s |-> sig.s]

\* What follows a reconstruct_and_verify that has returned a key.
SignAndEncode(z, k) ==
    /\ call = "reconstruct_and_verify" /\ error = "None"
    /\ outcome = "none"
    /\ digest' = z
    /\ Finish(SignPrehashRecoverable(key, z, k))
    /\ UNCHANGED vars

CeremonyNext ==
    \/ Next /\ UNCHANGED <<digest, outcome, signature>>
    \/ \E z \in Scalars : \E k \in Nonces(key, z) : SignAndEncode(z, k)

CeremonySpec == CeremonyInit /\ [][CeremonyNext]_ceremonyVars

-----------------------------------------------------------------------------
(* Properties *)

\* recover_from_prehash with the x and the parity that an EIP-1559 transaction has
\* room for: the public key s/r * R - z/r * G, or 0 where there is no such point.
RecoveredFrom(z, sig) ==
    LET points == {j \in 1 .. P - 1 : XCoord[j] = sig.r /\ YOdd[j] = sig.y_odd}
    IN  IF points = {} THEN 0
        ELSE LET j == CHOOSE j \in points : TRUE
             IN  (Invert(sig.r) * (sig.s * j - z)) % P

\* A transaction that is returned is one that the network credits to this wallet: the
\* sender it recovers from digest, y_parity, r and s is the wallet's key, never
\* another (evm.rs:158-164 of wallet-core, keys.rs:186-194).
SenderIsTheWallet ==
    outcome = "signed" => RecoveredFrom(digest, signature) = secret

\* The self-check "should be unreachable" (ceremony.rs:49-53), whichever shares gave
\* the key and whichever nonce was drawn; a signature with a high s would fail it.
SelfCheckNeverFails == outcome # "SignatureSelfCheckFailed"
=============================================================================
