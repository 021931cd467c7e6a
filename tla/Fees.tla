-------------------------------- MODULE Fees --------------------------------
(***************************************************************************)
(* The arithmetic of fees: fee_suggestion of wallet-rpc/src/evm.rs and the *)
(* ceiling of wallet-core/src/evm.rs, with the saturation of u128.         *)
(***************************************************************************)
EXTENDS Naturals

CONSTANTS
    MaxU128,
    PriorityFee,   \* 1.5 gwei
    Ceiling        \* MAX_FEE_PER_GAS

ASSUME FeeAssumption == MaxU128 \in Nat /\ PriorityFee \in Nat /\ Ceiling \in Nat

ASSUME CeilingAssumption == PriorityFee <= Ceiling /\ Ceiling < MaxU128

Saturated(n) == IF n > MaxU128 THEN MaxU128 ELSE n

\* The mutant wraps around.
MaxFeePerGas_Wrapping(base) ==
    (((2 * base) % (MaxU128 + 1)) + PriorityFee) % (MaxU128 + 1)

MaxFeePerGas(base) == Saturated(Saturated(2 * base) + PriorityFee)
=============================================================================
