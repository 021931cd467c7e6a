------------------------------- MODULE Policy -------------------------------
(***************************************************************************)
(* The spending policy of wallet-core: PolicyEngine (policy.rs) and the    *)
(* two entry points that consult it before signing (ceremony.rs, evm.rs).  *)
(*                                                                         *)
(* The engine never holds a pending transaction and never reads a clock:   *)
(* the caller passes `now`.  Around the engine stand a host that calls the *)
(* guarded entry points with its clock's reading, may sign without policy  *)
(* and then call record_approved itself (as the tests of policy.rs and     *)
(* ceremony.rs do), and may restart, which loses the engine.               *)
(***************************************************************************)
EXTENDS Integers, Sequences, Sums

CONSTANTS
    ChainIds,           \* u64 chain ids
    Addresses,          \* 20-byte addresses
    Garbage,            \* stands for every byte string decode refuses
    Values,             \* transaction values the host tries, all u128
    MaxU128,            \* the largest u128
    MaxSingleTxValue,   \* PolicyConfig
    MaxValuePerWindow,
    Window,
    TimelockThreshold,
    TimelockDelay,
    UnguardedSigning,   \* the host also signs with no policy and records it
    ClockStepsBack,     \* SystemTime is not monotonic: it may be set back
    Restarts,           \* the process may restart
    MaxClock,           \* bound on the clock
    MaxApprovals        \* bound on the number of signatures

ASSUME ConfigAssumption ==
    /\ MaxU128 \in Nat
    /\ Values \subseteq 0 .. MaxU128
    /\ MaxSingleTxValue \in 0 .. MaxU128
    /\ MaxValuePerWindow \in 0 .. MaxU128
    /\ TimelockThreshold \in 0 .. MaxU128
    /\ Window \in Nat
    /\ TimelockDelay \in Nat

ASSUME HostAssumption == {UnguardedSigning, ClockStepsBack, Restarts} \subseteq BOOLEAN

ASSUME BoundAssumption == MaxClock \in Nat /\ MaxApprovals \in Nat

\* What decode yields: the part of a transaction the policy looks at.
Transactions == [chain : ChainIds, to : Addresses, value : Values]

ASSUME GarbageAssumption == Garbage \notin Transactions

Refusals == {"ExceedsSingleTxCap", "ExceedsVelocityLimit", "Queued", "Panic"}

Answers == Refusals \cup {"None", "DecodeError", "CeremonyError", "UnrepresentableRecoveryId", "Signed"}

VARIABLES
    clock,              \* the host's SystemTime
    approvals,          \* every record_approved call since the wallet exists (no code keeps it)
    history,            \* the positions in approvals of the entries PolicyEngine.history holds
    knownDestinations,  \* PolicyEngine.known_destinations
    outcome,            \* what the last call of an entry point returned
    disturbed           \* has the clock been set back or the engine been lost?

vars == <<clock, approvals, history, knownDestinations, outcome, disturbed>>

engine == <<history, knownDestinations>>

Approval == [time : Nat, chain : ChainIds, to : Addresses, value : Values, guarded : BOOLEAN]

Outcome == [answer : Answers, tx : Transactions \cup {Garbage}, releaseAt : Nat]

TypeOK ==
    /\ clock \in 0 .. MaxClock
    /\ approvals \in Seq(Approval)
    /\ history \subseteq DOMAIN approvals
    /\ knownDestinations \subseteq ChainIds \X Addresses
    /\ outcome \in Outcome
    /\ disturbed \in BOOLEAN

NoOutcome == [answer |-> "None", tx |-> Garbage, releaseAt |-> 0]

Init ==
    /\ clock = 0
    /\ approvals = <<>>
    /\ history = {}
    /\ knownDestinations = {}
    /\ outcome = NoOutcome
    /\ disturbed = FALSE

-----------------------------------------------------------------------------
(* PolicyEngine *)

\* now.duration_since(t).is_ok_and(|age| age <= window): a t after now is outside.
WithinWindow(t, now) == t <= now /\ now - t <= Window

\* The sum of the values approved at some positions of the ledger.
ValueSum(ledger, positions) ==
    SumSeq([i \in DOMAIN ledger |-> IF i \in positions THEN ledger[i].value ELSE 0])

\* The mutant leaves the entries of exactly `window` age out.
WindowTotal_StrictAge(chain, now) ==
    ValueSum(approvals, {i \in history : /\ approvals[i].chain = chain
                                         /\ approvals[i].time <= now
                                         /\ now - approvals[i].time < Window})

WindowTotal(chain, now) ==
    ValueSum(approvals, {i \in history : /\ approvals[i].chain = chain
                                         /\ WithinWindow(approvals[i].time, now)})

\* The mutant forgets that the same address on another chain is another party.
IsNewDestination_AddressOnly(tx) == tx.to \notin {d[2] : d \in knownDestinations}

IsNewDestination(tx) == <<tx.chain, tx.to>> \notin knownDestinations

SaturatingAdd(a, b) == IF a + b > MaxU128 THEN MaxU128 ELSE a + b

\* PolicyEngine::evaluate; the sum panics on overflow (overflow-checks = true),
\* the addition of tx.value to it saturates.
Evaluate(tx, now) ==
    LET total == WindowTotal(tx.chain, now)
    IN  IF tx.value > MaxSingleTxValue THEN "ExceedsSingleTxCap"
        ELSE IF total > MaxU128 THEN "Panic"
        ELSE IF SaturatingAdd(total, tx.value) > MaxValuePerWindow THEN "ExceedsVelocityLimit"
        ELSE IF tx.value >= TimelockThreshold \/ IsNewDestination(tx) THEN "Queued"
        ELSE "Approved"

\* The mutants prune at the window's edge, and keep what lies in the future.
Pruned_Strict(positions, ledger, now) ==
    {i \in positions : ledger[i].time <= now /\ now - ledger[i].time < Window}

Pruned_KeepsFuture(positions, ledger, now) ==
    {i \in positions : ledger[i].time > now \/ WithinWindow(ledger[i].time, now)}

Pruned(positions, ledger, now) == {i \in positions : WithinWindow(ledger[i].time, now)}

\* PolicyEngine::record_approved; `guarded` only labels the ledger entry.
RecordApproved(tx, now, guarded) ==
    /\ Len(approvals) < MaxApprovals
    /\ approvals' = Append(approvals, [time |-> now, chain |-> tx.chain, to |-> tx.to,
                                       value |-> tx.value, guarded |-> guarded])
    /\ history' = Pruned(history \cup {Len(approvals) + 1}, approvals', now)
    /\ knownDestinations' = knownDestinations \cup {<<tx.chain, tx.to>>}

-----------------------------------------------------------------------------
(* The entry points *)

\* The mutant subtracts the delay.
Return_Early(answer, tx) ==
    outcome' = [answer |-> answer, tx |-> tx,
                releaseAt |-> IF answer = "Queued" THEN clock - TimelockDelay ELSE 0]

Return(answer, tx) ==
    outcome' = [answer |-> answer, tx |-> tx,
                releaseAt |-> IF answer = "Queued" THEN clock + TimelockDelay ELSE 0]

\* What evaluate refuses (or panics on) returns before the ceremony.
Refuse(tx) ==
    /\ Evaluate(tx, clock) \in Refusals
    /\ Return(Evaluate(tx, clock), tx)
    /\ UNCHANGED <<approvals, engine>>

Fail(answer, tx) ==
    /\ Return(answer, tx)
    /\ UNCHANGED <<approvals, engine>>

SignAndRecord(tx) ==
    /\ Return("Signed", tx)
    /\ RecordApproved(tx, clock, TRUE)

\* The mutant consumes the budget before the ceremony has signed.
SignTransactionWithPolicy_RecordsFirst(raw) ==
    /\ \/ raw = Garbage /\ Fail("DecodeError", raw)
       \/ /\ raw \in Transactions
          /\ \/ Refuse(raw)
             \/ /\ Evaluate(raw, clock) = "Approved"
                /\ RecordApproved(raw, clock, TRUE)
                /\ Return("Signed", raw) \/ Return("CeremonyError", raw)
    /\ UNCHANGED <<clock, disturbed>>

\* sign_transaction_with_policy: decode, evaluate, sign (any CeremonyError: wrong
\* shares, wrong key), and only then record.
SignTransactionWithPolicy(raw) ==
    /\ \/ raw = Garbage /\ Fail("DecodeError", raw)
       \/ /\ raw \in Transactions
          /\ \/ Refuse(raw)
             \/ Evaluate(raw, clock) = "Approved" /\ Fail("CeremonyError", raw)
             \/ Evaluate(raw, clock) = "Approved" /\ SignAndRecord(raw)
    /\ UNCHANGED <<clock, disturbed>>

\* sign_evm_transfer_with_policy: the policy sees chain, to and value of the EVM
\* transaction, never its calldata; sign_and_encode may also refuse the recovery id.
SignEvmTransferWithPolicy(tx) ==
    /\ \/ Refuse(tx)
       \/ /\ Evaluate(tx, clock) = "Approved"
          /\ \E reason \in {"CeremonyError", "UnrepresentableRecoveryId"} : Fail(reason, tx)
       \/ Evaluate(tx, clock) = "Approved" /\ SignAndRecord(tx)
    /\ UNCHANGED <<clock, disturbed>>

\* sign_transaction, which asks no policy, then the public record_approved.
SignUnguardedAndRecord(tx) ==
    /\ UnguardedSigning
    /\ RecordApproved(tx, clock, FALSE)
    /\ Return("Signed", tx)
    /\ UNCHANGED <<clock, disturbed>>

-----------------------------------------------------------------------------
(* The host *)

Tick ==
    /\ clock < MaxClock
    /\ clock' = clock + 1
    /\ UNCHANGED <<approvals, engine, outcome, disturbed>>

StepBack ==
    /\ ClockStepsBack
    /\ clock' \in 0 .. clock - 1
    /\ disturbed' = TRUE
    /\ UNCHANGED <<approvals, engine, outcome>>

\* Nothing is persisted: PolicyEngine::new starts from an empty history.
Restart ==
    /\ Restarts
    /\ history' = {}
    /\ knownDestinations' = {}
    /\ disturbed' = TRUE
    /\ UNCHANGED <<clock, approvals, outcome>>

Next ==
    \/ \E raw \in Transactions \cup {Garbage} : SignTransactionWithPolicy(raw)
    \/ \E tx \in Transactions : SignEvmTransferWithPolicy(tx) \/ SignUnguardedAndRecord(tx)
    \/ Tick
    \/ StepBack
    \/ Restart

Spec == Init /\ [][Next]_vars

-----------------------------------------------------------------------------
(* Properties *)

Age(i, j) == approvals[j].time - approvals[i].time

SamePayee(i, j) == approvals[i].chain = approvals[j].chain /\ approvals[i].to = approvals[j].to

\* A guarded signature only ever goes where an unguarded one went before on the
\* same chain, whatever the clock does and however often the engine is lost:
\* the timelock on new destinations (policy.rs:152) cannot be lifted by the
\* guarded entry points themselves.
FirstPaymentIsUnguarded ==
    \A i \in DOMAIN approvals :
        approvals[i].guarded => \E j \in 1 .. i - 1 : ~approvals[j].guarded /\ SamePayee(i, j)

\* record_approved prunes for the sake of memory (policy.rs:168-172); as long as
\* the clock only ran forward and the engine lives, it never drops an entry that a
\* later evaluate would count.
PruningKeepsWindow ==
    ~disturbed => \A i \in DOMAIN approvals : clock - approvals[i].time <= Window => i \in history

\* The total of i's chain over the window that ends with i, by the ledger.
TotalAt(i) ==
    ValueSum(approvals, {j \in 1 .. i : /\ approvals[j].chain = approvals[i].chain
                                        /\ Age(j, i) <= Window})

\* The velocity limit (policy.rs:42-43) over all that was ever approved, and not
\* only what the engine remembers: as long as the clock only ran forward and the
\* engine lives, each guarded signature left the total of its chain over the window
\* that ends with it within the limit. It needs a limit below the largest u128,
\* where the addition in evaluate saturates at the limit itself.
VelocityLimit ==
    ~disturbed => \A i \in DOMAIN approvals : approvals[i].guarded => TotalAt(i) <= MaxValuePerWindow

\* Per chain, the guarded entries the engine holds never add up to more than one
\* window's limit, even when the clock is set back or the engine restarts; with a
\* limit below the largest u128 they alone cannot make the unchecked sum in
\* evaluate (policy.rs:136-143) overflow.
GuardedBudget ==
    \A c \in ChainIds :
        ValueSum(approvals, {i \in history : /\ approvals[i].guarded
                                             /\ approvals[i].chain = c}) <= MaxValuePerWindow

\* "a ceremony failure after approval doesn't consume velocity budget"
\* (ceremony.rs:159-161): a call that does not sign leaves the engine alone.
OnlySignaturesCount ==
    [][outcome'.answer # "Signed" => Restart \/ UNCHANGED engine]_<<outcome, engine>>

\* The documented contract of Queued (policy.rs:63-68): a transaction queued until
\* releaseAt and re-evaluated at or after that time is not queued again.
QueuedIsReleased ==
    [][ ~ /\ outcome.answer = "Queued"
          /\ clock >= outcome.releaseAt
          /\ outcome'.answer = "Queued"
          /\ outcome'.tx = outcome.tx ]_outcome

\* The documented meaning of max_value_per_window (policy.rs:42-43), for the
\* signatures the engine itself approved: in no stretch of Window do they add up
\* to more than the limit.
NoWindowExceeded ==
    \A c \in ChainIds, t \in 0 .. MaxClock :
        ValueSum(approvals, {i \in DOMAIN approvals : /\ approvals[i].guarded
                                                      /\ approvals[i].chain = c
                                                      /\ approvals[i].time \in t - Window .. t})
            <= MaxValuePerWindow

\* "treat overflow as 'definitely over,' which is what it is" (policy.rs:145-147):
\* no signature the engine approved took the total of its chain over its window
\* beyond the largest u128.
OverflowIsOver == \A i \in DOMAIN approvals : approvals[i].guarded => TotalAt(i) <= MaxU128
=============================================================================
