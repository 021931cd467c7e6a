---------------------------- MODULE PolicyProofs ----------------------------
(***************************************************************************)
(* Theorems about Policy for every configuration, every set of chains,     *)
(* addresses and values, and every bound.                                  *)
(***************************************************************************)
EXTENDS Policy, SumsProofs

\* A call of an entry point that leaves the engine alone.
Answered == UNCHANGED <<clock, approvals, engine, disturbed>>

\* A call of an entry point that signs and records.
Recorded(tx, guarded) ==
    /\ RecordApproved(tx, clock, guarded)
    /\ IF guarded THEN Evaluate(tx, clock) = "Approved" ELSE UnguardedSigning
    /\ UNCHANGED <<clock, disturbed>>

(***************************************************************************)
(* A call that returns has returned an Outcome.                            *)
(***************************************************************************)
LEMMA ReturnType ==
    ASSUME TypeOK, NEW answer \in Answers, NEW tx \in Transactions \cup {Garbage},
           Return(answer, tx)
    PROVE  outcome' \in Outcome
<1>1. clock + TimelockDelay \in Nat
  BY ConfigAssumption, BoundAssumption DEF TypeOK
<1> QED
  BY <1>1 DEF Return, Outcome

(***************************************************************************)
(* Every step of the specification is a call that only answers, one that   *)
(* records, or a step of the host.                                         *)
(***************************************************************************)
LEMMA NextCases ==
    ASSUME TypeOK, [Next]_vars
    PROVE  \/ Answered /\ outcome' \in Outcome
           \/ /\ \E tx \in Transactions, guarded \in BOOLEAN : Recorded(tx, guarded)
              /\ outcome' \in Outcome
           \/ Tick \/ StepBack \/ Restart
<1> DEFINE Done == \/ Answered /\ outcome' \in Outcome
                   \/ /\ \E tx \in Transactions, guarded \in BOOLEAN : Recorded(tx, guarded)
                      /\ outcome' \in Outcome
<1>1. ASSUME NEW tx \in Transactions, Refuse(tx), UNCHANGED <<clock, disturbed>>  PROVE Done
  <2>1. Evaluate(tx, clock) \in Answers
    BY <1>1 DEF Refuse, Answers
  <2>2. outcome' \in Outcome
    BY <1>1, <2>1, ReturnType DEF Refuse
  <2> QED
    BY <1>1, <2>2 DEF Refuse, Answered, engine
<1>2. ASSUME NEW tx \in Transactions \cup {Garbage}, NEW answer \in Answers,
             Fail(answer, tx), UNCHANGED <<clock, disturbed>>
      PROVE  Done
  <2>1. outcome' \in Outcome
    BY <1>2, ReturnType DEF Fail
  <2> QED
    BY <1>2, <2>1 DEF Fail, Answered, engine
<1>3. ASSUME NEW tx \in Transactions, Evaluate(tx, clock) = "Approved",
             SignAndRecord(tx), UNCHANGED <<clock, disturbed>>
      PROVE  Done
  <2>1. outcome' \in Outcome
    BY <1>3, ReturnType DEF SignAndRecord, Answers
  <2>2. Recorded(tx, TRUE)
    BY <1>3 DEF SignAndRecord, Recorded
  <2> QED
    BY <2>1, <2>2
<1>4. ASSUME NEW raw \in Transactions \cup {Garbage}, SignTransactionWithPolicy(raw)  PROVE Done
  <2>1. {"DecodeError", "CeremonyError"} \subseteq Answers
    BY DEF Answers
  <2> QED
    BY <1>1, <1>2, <1>3, <1>4, <2>1, GarbageAssumption DEF SignTransactionWithPolicy
<1>5. ASSUME NEW tx \in Transactions, SignEvmTransferWithPolicy(tx)  PROVE Done
  <2>1. {"UnrepresentableRecoveryId", "CeremonyError"} \subseteq Answers
    BY DEF Answers
  <2> QED
    BY <1>1, <1>2, <1>3, <1>5, <2>1 DEF SignEvmTransferWithPolicy
<1>6. ASSUME NEW tx \in Transactions, SignUnguardedAndRecord(tx)  PROVE Done
  <2>1. outcome' \in Outcome
    BY <1>6, ReturnType DEF SignUnguardedAndRecord, Answers
  <2>2. Recorded(tx, FALSE)
    BY <1>6 DEF SignUnguardedAndRecord, Recorded
  <2> QED
    BY <2>1, <2>2
<1>7. CASE UNCHANGED vars
  BY <1>7 DEF vars, Answered, engine, TypeOK
<1> QED
  BY <1>4, <1>5, <1>6, <1>7 DEF Next

(***************************************************************************)
(* What record_approved does to the ledger and to the engine.              *)
(***************************************************************************)
LEMMA RecordedLedger ==
    ASSUME TypeOK, NEW tx \in Transactions, NEW guarded \in BOOLEAN, Recorded(tx, guarded)
    PROVE  /\ approvals' \in Seq(Approval)
           /\ Len(approvals') = Len(approvals) + 1
           /\ \A i \in DOMAIN approvals : approvals'[i] = approvals[i]
           /\ approvals'[Len(approvals')] = [time |-> clock, chain |-> tx.chain, to |-> tx.to,
                                             value |-> tx.value, guarded |-> guarded]
           /\ DOMAIN approvals' = DOMAIN approvals \cup {Len(approvals')}
           /\ history' = {i \in history \cup {Len(approvals')} :
                             WithinWindow(approvals'[i].time, clock)}
           /\ knownDestinations' = knownDestinations \cup {<<tx.chain, tx.to>>}
           /\ UNCHANGED <<clock, disturbed>>
<1> DEFINE entry == [time |-> clock, chain |-> tx.chain, to |-> tx.to,
                     value |-> tx.value, guarded |-> guarded]
<1>0. tx \in [chain : ChainIds, to : Addresses, value : Values]
  BY DEF Transactions
<1>1. tx.value \in Values /\ tx.chain \in ChainIds /\ tx.to \in Addresses
  BY <1>0
<1>2. entry \in Approval
  <2>1. clock \in Nat
    BY BoundAssumption DEF TypeOK
  <2> QED
    BY <1>1, <2>1 DEF Approval
<1>3. approvals \in Seq(Approval) /\ approvals' = Append(approvals, entry)
  BY DEF TypeOK, Recorded, RecordApproved
<1> HIDE DEF entry
<1>4. /\ approvals' \in Seq(Approval)
      /\ Len(approvals') = Len(approvals) + 1
      /\ \A i \in 1 .. Len(approvals) : approvals'[i] = approvals[i]
      /\ approvals'[Len(approvals')] = entry
  BY <1>2, <1>3
<1>5. DOMAIN approvals = 1 .. Len(approvals) /\ DOMAIN approvals' = 1 .. Len(approvals')
      /\ Len(approvals) \in Nat
  BY <1>3, <1>4
<1>6. DOMAIN approvals' = DOMAIN approvals \cup {Len(approvals')}
  BY <1>4, <1>5
<1> QED
  BY <1>4, <1>5, <1>6 DEF Recorded, RecordApproved, Pruned, entry

(***************************************************************************)
(* The type invariant.                                                     *)
(***************************************************************************)
LEMMA InitTypeOK == Init => TypeOK
<1> SUFFICES ASSUME Init  PROVE TypeOK
  OBVIOUS
<1>1. outcome \in Outcome
  BY DEF Init, NoOutcome, Outcome, Answers
<1>2. disturbed \in BOOLEAN
  BY DEF Init
<1>3. approvals \in Seq(Approval) /\ clock \in 0 .. MaxClock
  BY BoundAssumption DEF Init
<1> QED
  BY <1>1, <1>2, <1>3 DEF Init, TypeOK

LEMMA NextTypeOK == TypeOK /\ [Next]_vars => TypeOK'
<1> SUFFICES ASSUME TypeOK, [Next]_vars  PROVE TypeOK'
  OBVIOUS
<1>1. CASE Answered /\ outcome' \in Outcome
  BY <1>1 DEF TypeOK, Answered, engine
<1>2. CASE /\ \E tx \in Transactions, guarded \in BOOLEAN : Recorded(tx, guarded)
           /\ outcome' \in Outcome
  <2> PICK tx \in Transactions, guarded \in BOOLEAN : Recorded(tx, guarded)
    BY <1>2
  <2>1. tx.chain \in ChainIds /\ tx.to \in Addresses
    BY DEF Transactions
  <2>2. history' \subseteq DOMAIN approvals'
    <3>1. /\ DOMAIN approvals' = DOMAIN approvals \cup {Len(approvals')}
          /\ history' \subseteq history \cup {Len(approvals')}
      <4>1. history' = {i \in history \cup {Len(approvals')} :
                            WithinWindow(approvals'[i].time, clock)}
        BY RecordedLedger
      <4> QED
        BY <4>1, RecordedLedger, Zenon
    <3> QED
      BY <3>1 DEF TypeOK
  <2>3. knownDestinations' \subseteq ChainIds \X Addresses
    <3>1. knownDestinations' = knownDestinations \cup {<<tx.chain, tx.to>>}
      BY RecordedLedger
    <3> QED
      BY <2>1, <3>1 DEF TypeOK
  <2> QED
    BY <1>2, <2>2, <2>3, RecordedLedger DEF TypeOK
<1>3. CASE Tick
  BY <1>3, BoundAssumption DEF Tick, TypeOK, engine
<1>4. CASE StepBack
  BY <1>4, BoundAssumption DEF StepBack, TypeOK, engine
<1>5. CASE Restart
  BY <1>5 DEF Restart, TypeOK
<1> QED
  BY <1>1, <1>2, <1>3, <1>4, <1>5, NextCases

\* The state always has its type: the ledger and the engine hold approvals of
\* real transactions, and history only positions of the ledger (policy.rs:104-117).
THEOREM TypeCorrect == Spec => []TypeOK
  BY InitTypeOK, NextTypeOK, PTL DEF Spec

-----------------------------------------------------------------------------
(***************************************************************************)
(* The guarded entry points sign only to known destinations, and what is   *)
(* known was paid without the guard first.                                 *)
(***************************************************************************)
KnownWerePaidUnguarded ==
    \A d \in knownDestinations :
        \E j \in DOMAIN approvals :
            ~approvals[j].guarded /\ <<approvals[j].chain, approvals[j].to>> = d

PayeeInv == TypeOK /\ KnownWerePaidUnguarded /\ FirstPaymentIsUnguarded

LEMMA ApprovedIsKnown ==
    ASSUME NEW tx \in Transactions, Evaluate(tx, clock) = "Approved"
    PROVE  <<tx.chain, tx.to>> \in knownDestinations
  BY DEF Evaluate, IsNewDestination

LEMMA RecordedKeepsPayeeInv ==
    ASSUME PayeeInv, NEW tx \in Transactions, NEW guarded \in BOOLEAN, Recorded(tx, guarded)
    PROVE  KnownWerePaidUnguarded' /\ FirstPaymentIsUnguarded'
<1> DEFINE n == Len(approvals')
<1>1. /\ DOMAIN approvals' = DOMAIN approvals \cup {n}
      /\ \A i \in DOMAIN approvals : approvals'[i] = approvals[i]
  BY RecordedLedger DEF PayeeInv
<1>2. /\ approvals'[n].guarded = guarded
      /\ approvals'[n].chain = tx.chain
      /\ approvals'[n].to = tx.to
  <2>1. approvals'[n] = [time |-> clock, chain |-> tx.chain, to |-> tx.to,
                         value |-> tx.value, guarded |-> guarded]
    BY RecordedLedger DEF PayeeInv
  <2> QED
    BY <2>1
<1>3. knownDestinations' = knownDestinations \cup {<<tx.chain, tx.to>>}
  BY RecordedLedger DEF PayeeInv
<1>4. /\ DOMAIN approvals = 1 .. n - 1
      /\ n - 1 \in Nat
  <2>1. n = Len(approvals) + 1 /\ approvals \in Seq(Approval)
    BY RecordedLedger DEF PayeeInv, TypeOK
  <2> QED
    BY <2>1
<1> HIDE DEF n
<1>5. \A d \in knownDestinations :
         \E j \in DOMAIN approvals :
             ~approvals'[j].guarded /\ <<approvals'[j].chain, approvals'[j].to>> = d
  BY <1>1 DEF PayeeInv, KnownWerePaidUnguarded
<1>6. KnownWerePaidUnguarded'
  <2>1. CASE guarded
    <3>1. <<tx.chain, tx.to>> \in knownDestinations
      BY <2>1, ApprovedIsKnown DEF Recorded
    <3> QED
      BY <1>1, <1>3, <1>5, <3>1 DEF KnownWerePaidUnguarded
  <2>2. CASE ~guarded
    BY <1>1, <1>2, <1>3, <1>5, <2>2 DEF KnownWerePaidUnguarded
  <2> QED
    BY <2>1, <2>2
<1>7. FirstPaymentIsUnguarded'
  <2> SUFFICES ASSUME NEW i \in DOMAIN approvals', approvals'[i].guarded
               PROVE  \E j \in 1 .. i - 1 : ~approvals'[j].guarded /\ SamePayee(i, j)'
    BY DEF FirstPaymentIsUnguarded
  <2>1. CASE i \in DOMAIN approvals
    <3>1. PICK j \in 1 .. i - 1 : ~approvals[j].guarded /\ SamePayee(i, j)
      BY <1>1, <2>1 DEF PayeeInv, FirstPaymentIsUnguarded
    <3>2. j \in DOMAIN approvals
      BY <1>4, <2>1, <3>1
    <3> QED
      BY <1>1, <2>1, <3>1, <3>2 DEF SamePayee
  <2>2. CASE i = n
    <3>1. <<tx.chain, tx.to>> \in knownDestinations
      BY <1>2, <2>2, ApprovedIsKnown DEF Recorded
    <3>2. PICK j \in DOMAIN approvals :
             ~approvals'[j].guarded /\ <<approvals'[j].chain, approvals'[j].to>> = <<tx.chain, tx.to>>
      BY <1>5, <3>1
    <3> QED
      BY <1>2, <1>4, <2>2, <3>2 DEF SamePayee
  <2> QED
    BY <1>1, <2>1, <2>2
<1> QED
  BY <1>6, <1>7

LEMMA NextPayeeInv == PayeeInv /\ [Next]_vars => PayeeInv'
<1> SUFFICES ASSUME PayeeInv, [Next]_vars  PROVE KnownWerePaidUnguarded' /\ FirstPaymentIsUnguarded'
  BY NextTypeOK DEF PayeeInv
<1>1. ASSUME UNCHANGED approvals, knownDestinations' \subseteq knownDestinations
      PROVE  KnownWerePaidUnguarded' /\ FirstPaymentIsUnguarded'
  BY <1>1 DEF PayeeInv, KnownWerePaidUnguarded, FirstPaymentIsUnguarded, SamePayee
<1>2. CASE Answered
  BY <1>1, <1>2 DEF Answered, engine
<1>3. CASE \E tx \in Transactions, guarded \in BOOLEAN : Recorded(tx, guarded)
  BY <1>3, RecordedKeepsPayeeInv
<1>4. CASE Tick \/ StepBack \/ Restart
  BY <1>1, <1>4 DEF Tick, StepBack, Restart, engine
<1> QED
  BY <1>2, <1>3, <1>4, NextCases DEF PayeeInv

\* The timelock on new destinations is never lifted by the guarded entry points,
\* whatever the configuration, the clock and the restarts (policy.rs:152-156).
THEOREM GuardedPaysOnlyKnownPayees == Spec => []FirstPaymentIsUnguarded
<1>1. Init => PayeeInv
  BY InitTypeOK DEF Init, PayeeInv, KnownWerePaidUnguarded, FirstPaymentIsUnguarded
<1>2. PayeeInv => FirstPaymentIsUnguarded
  BY DEF PayeeInv
<1> QED
  BY <1>1, <1>2, NextPayeeInv, PTL DEF Spec

\* Used alone, the guarded entry points never sign at all: the first payment to
\* any destination is queued, and queued again when it is retried (policy.rs:152-156).
COROLLARY GuardedAloneNeverSigns ==
    ~UnguardedSigning => (Spec => [](approvals = <<>>))
<1> SUFFICES ASSUME ~UnguardedSigning  PROVE Spec => [](approvals = <<>>)
  OBVIOUS
<1> DEFINE Unused == TypeOK /\ approvals = <<>> /\ knownDestinations = {}
<1>1. Init => Unused
  BY InitTypeOK DEF Init
<1>2. Unused /\ [Next]_vars => Unused'
  <2> SUFFICES ASSUME Unused, [Next]_vars  PROVE approvals' = <<>> /\ knownDestinations' = {}
    BY NextTypeOK
  <2>1. CASE \E tx \in Transactions, guarded \in BOOLEAN : Recorded(tx, guarded)
    BY <2>1, ApprovedIsKnown DEF Recorded
  <2>2. CASE Answered \/ Tick \/ StepBack \/ Restart
    BY <2>2 DEF Answered, Tick, StepBack, Restart, engine
  <2> QED
    BY <2>1, <2>2, NextCases
<1> QED
  BY <1>1, <1>2, PTL DEF Spec

-----------------------------------------------------------------------------
(***************************************************************************)
(* While the clock runs forward no ledger entry lies in its future, so an  *)
(* entry that has left the window never comes back into it.                *)
(***************************************************************************)
NothingInTheFuture == ~disturbed => \A i \in DOMAIN approvals : approvals[i].time <= clock

WindowInv == TypeOK /\ NothingInTheFuture /\ PruningKeepsWindow

LEMMA ApprovalTime ==
    ASSUME TypeOK, NEW i \in DOMAIN approvals
    PROVE  approvals[i].time \in Nat
<1>1. approvals[i] \in Approval
  BY DEF TypeOK
<1> QED
  BY <1>1 DEF Approval

LEMMA RecordedKeepsWindowInv ==
    ASSUME WindowInv, ~disturbed,
           NEW tx \in Transactions, NEW guarded \in BOOLEAN, Recorded(tx, guarded)
    PROVE  NothingInTheFuture' /\ PruningKeepsWindow'
<1> DEFINE n == Len(approvals')
<1>1. /\ DOMAIN approvals' = DOMAIN approvals \cup {n}
      /\ \A i \in DOMAIN approvals : approvals'[i] = approvals[i]
      /\ clock' = clock
  BY RecordedLedger DEF WindowInv
<1>2. approvals'[n].time = clock
  <2>1. approvals'[n] = [time |-> clock, chain |-> tx.chain, to |-> tx.to,
                         value |-> tx.value, guarded |-> guarded]
    BY RecordedLedger DEF WindowInv
  <2> QED
    BY <2>1
<1>3. history' = {i \in history \cup {n} : WithinWindow(approvals'[i].time, clock)}
  BY RecordedLedger DEF WindowInv
<1>4. clock \in Nat /\ Window \in Nat
  BY BoundAssumption, ConfigAssumption DEF WindowInv, TypeOK
<1> HIDE DEF n
<1>5. NothingInTheFuture'
  BY <1>1, <1>2, <1>4 DEF WindowInv, NothingInTheFuture
<1>6. PruningKeepsWindow'
  <2> SUFFICES ASSUME NEW i \in DOMAIN approvals', clock - approvals'[i].time <= Window
               PROVE  i \in history'
    BY <1>1 DEF PruningKeepsWindow
  <2>1. CASE i \in DOMAIN approvals
    <3>1. i \in history
      BY <1>1, <2>1 DEF WindowInv, PruningKeepsWindow
    <3>2. approvals'[i].time <= clock
      BY <1>1, <2>1 DEF WindowInv, NothingInTheFuture
    <3> QED
      BY <1>3, <3>1, <3>2 DEF WithinWindow
  <2>2. CASE i = n
    <3>1. WithinWindow(approvals'[i].time, clock)
      BY <1>2, <1>4, <2>2 DEF WithinWindow
    <3> QED
      BY <1>3, <2>2, <3>1
  <2> QED
    BY <1>1, <2>1, <2>2
<1> QED
  BY <1>5, <1>6

LEMMA WindowInvHolds ==
    (Init => WindowInv) /\ (WindowInv /\ [Next]_vars => WindowInv')
<1>1. Init => WindowInv
  BY InitTypeOK DEF Init, WindowInv, NothingInTheFuture, PruningKeepsWindow
<1>2. WindowInv /\ [Next]_vars => WindowInv'
  <2> SUFFICES ASSUME WindowInv, [Next]_vars  PROVE NothingInTheFuture' /\ PruningKeepsWindow'
    BY NextTypeOK DEF WindowInv
  <2>1. CASE Answered
    BY <2>1 DEF Answered, engine, WindowInv, NothingInTheFuture, PruningKeepsWindow
  <2>2. CASE \E tx \in Transactions, guarded \in BOOLEAN : Recorded(tx, guarded)
    <3>1. CASE disturbed
      BY <2>2, <3>1 DEF Recorded, NothingInTheFuture, PruningKeepsWindow
    <3>2. CASE ~disturbed
      BY <2>2, <3>2, RecordedKeepsWindowInv
    <3> QED
      BY <3>1, <3>2
  <2>3. CASE Tick
    <3>1. /\ clock \in Int /\ clock' = clock + 1
          /\ UNCHANGED <<approvals, history, disturbed>>
      BY <2>3 DEF Tick, engine, WindowInv, TypeOK
    <3>2. \A i \in DOMAIN approvals : approvals[i].time \in Nat
      BY ApprovalTime DEF WindowInv
    <3> QED
      BY <3>1, <3>2, ConfigAssumption DEF WindowInv, NothingInTheFuture, PruningKeepsWindow
  <2>4. CASE StepBack \/ Restart
    BY <2>4 DEF StepBack, Restart, NothingInTheFuture, PruningKeepsWindow
  <2> QED
    BY <2>1, <2>2, <2>3, <2>4, NextCases DEF WindowInv
<1> QED
  BY <1>1, <1>2

\* record_approved's pruning (policy.rs:168-172) never drops an entry that a later
\* evaluate would count, as long as the clock was not set back and the engine lives.
THEOREM PruningIsLossless == Spec => []PruningKeepsWindow
<1>1. (Init => WindowInv) /\ (WindowInv /\ [Next]_vars => WindowInv')
  BY WindowInvHolds
<1>2. WindowInv => PruningKeepsWindow
  BY DEF WindowInv
<1> QED
  BY <1>1, <1>2, PTL DEF Spec

-----------------------------------------------------------------------------
(***************************************************************************)
(* Sums over the ledger.                                                   *)
(***************************************************************************)
LEMMA ValuesAreNat == \A v \in Values : v \in Nat
  BY ConfigAssumption

Column(ledger, positions) ==
    [i \in DOMAIN ledger |-> IF i \in positions THEN ledger[i].value ELSE 0]

LEMMA ColumnType ==
    ASSUME NEW ledger \in Seq(Approval), NEW positions
    PROVE  /\ Column(ledger, positions) \in Seq(Nat)
           /\ Len(Column(ledger, positions)) = Len(ledger)
           /\ DOMAIN ledger = 1 .. Len(ledger)
           /\ Len(ledger) \in Nat
<1>1. \A i \in DOMAIN ledger : ledger[i].value \in Nat
  <2> SUFFICES ASSUME NEW i \in DOMAIN ledger  PROVE ledger[i].value \in Nat
    OBVIOUS
  <2>1. ledger[i] \in Approval
    OBVIOUS
  <2>2. ledger[i].value \in Values
    BY <2>1 DEF Approval
  <2> QED
    BY <2>2, ValuesAreNat
<1>2. DOMAIN ledger = 1 .. Len(ledger) /\ Len(ledger) \in Nat
  OBVIOUS
<1>3. Column(ledger, positions) \in [1 .. Len(ledger) -> Nat]
  BY <1>1, <1>2 DEF Column
<1> QED
  BY <1>2, <1>3, IsASeq, LenProperties

LEMMA ValueSumMonotone ==
    ASSUME NEW ledger \in Seq(Approval), NEW P, NEW Q, P \cap DOMAIN ledger \subseteq Q
    PROVE  /\ ValueSum(ledger, P) <= ValueSum(ledger, Q)
           /\ ValueSum(ledger, P) \in Nat
           /\ ValueSum(ledger, Q) \in Nat
<1>1. \A i \in 1 .. Len(ledger) : Column(ledger, P)[i] <= Column(ledger, Q)[i]
  <2> SUFFICES ASSUME NEW i \in 1 .. Len(ledger)
               PROVE  Column(ledger, P)[i] <= Column(ledger, Q)[i]
    OBVIOUS
  <2>1. i \in DOMAIN ledger
    BY ColumnType
  <2>2. Column(ledger, P)[i] \in Nat /\ Column(ledger, Q)[i] \in Nat
    BY ColumnType
  <2> QED
    BY <2>1, <2>2 DEF Column
<1>2. SumSeq(Column(ledger, P)) <= SumSeq(Column(ledger, Q))
  <2>1. Len(Column(ledger, P)) = Len(Column(ledger, Q)) /\ Len(Column(ledger, P)) = Len(ledger)
    BY ColumnType
  <2> QED
    BY <1>1, <2>1, ColumnType, SumMonotone
<1>3. SumSeq(Column(ledger, P)) \in Nat /\ SumSeq(Column(ledger, Q)) \in Nat
  BY ColumnType, SumType
<1> QED
  BY <1>2, <1>3 DEF ValueSum, Column

LEMMA RecordedSum ==
    ASSUME TypeOK, NEW tx \in Transactions, NEW guarded \in BOOLEAN, Recorded(tx, guarded), NEW P
    PROVE  ValueSum(approvals', P) =
              ValueSum(approvals, P) + (IF Len(approvals') \in P THEN tx.value ELSE 0)
<1> DEFINE n == Len(approvals')
           x == IF n \in P THEN tx.value ELSE 0
           new == Column(approvals', P)
           old == Column(approvals, P)
<1>1. tx.value \in Nat
  <2>1. tx.value \in Values
    BY DEF Transactions
  <2> QED
    BY <2>1, ValuesAreNat
<1>2. /\ approvals \in Seq(Approval)
      /\ approvals' \in Seq(Approval)
      /\ n = Len(approvals) + 1
      /\ \A i \in DOMAIN approvals : approvals'[i] = approvals[i]
  BY RecordedLedger DEF TypeOK
<1>3. approvals'[n].value = tx.value
  <2>1. approvals'[n] = [time |-> clock, chain |-> tx.chain, to |-> tx.to,
                         value |-> tx.value, guarded |-> guarded]
    BY RecordedLedger
  <2> QED
    BY <2>1
<1>4. /\ DOMAIN approvals = 1 .. Len(approvals)
      /\ DOMAIN approvals' = 1 .. n
      /\ Len(approvals) \in Nat
  BY <1>2, ColumnType
<1>5. /\ old \in Seq(Nat) /\ Len(old) = Len(approvals)
      /\ new \in Seq(Nat) /\ Len(new) = n
  BY <1>2, ColumnType
<1>6. x \in Nat
  BY <1>1
<1>7. \A i \in 1 .. n : new[i] = Append(old, x)[i]
  <2> SUFFICES ASSUME NEW i \in 1 .. n  PROVE new[i] = Append(old, x)[i]
    OBVIOUS
  <2>1. CASE i = n
    <3>1. Append(old, x)[n] = x
      BY <1>2, <1>5, <1>6
    <3>2. new[n] = x
      BY <1>2, <1>3, <1>4 DEF Column
    <3> QED
      BY <2>1, <3>1, <3>2
  <2>2. CASE i \in 1 .. Len(approvals)
    <3>1. Append(old, x)[i] = old[i]
      BY <1>5, <1>6, <2>2
    <3>2. new[i] = old[i]
      BY <1>2, <1>4, <2>2 DEF Column
    <3> QED
      BY <3>1, <3>2
  <2>3. i = n \/ i \in 1 .. Len(approvals)
    BY <1>2, <1>4
  <2> QED
    BY <2>1, <2>2, <2>3
<1> HIDE DEF n, x, new, old
<1>8. new = Append(old, x)
  <2>1. Append(old, x) \in Seq(Nat) /\ Len(Append(old, x)) = Len(old) + 1
    BY <1>5, <1>6
  <2> QED
    BY <1>2, <1>5, <1>7, <2>1, SeqEqual
<1>9. SumSeq(new) = SumSeq(old) + x
  BY <1>5, <1>6, <1>8, SumAppend
<1> QED
  BY <1>9 DEF ValueSum, Column, new, old, x, n

(***************************************************************************)
(* The addition in evaluate saturates at the largest u128, which is over a *)
(* limit below it, and not over a limit that equals it (policy.rs:148).    *)
(***************************************************************************)
LEMMA ApprovedFits ==
    ASSUME MaxValuePerWindow < MaxU128,
           NEW tx \in Transactions, Evaluate(tx, clock) = "Approved"
    PROVE  ~ (WindowTotal(tx.chain, clock) + tx.value > MaxValuePerWindow)
<1>1. ~ (SaturatingAdd(WindowTotal(tx.chain, clock), tx.value) > MaxValuePerWindow)
  BY DEF Evaluate
<1>2. MaxU128 > MaxValuePerWindow
  BY ConfigAssumption
<1> QED
  BY <1>1, <1>2 DEF SaturatingAdd

(***************************************************************************)
(* What the new entry is, and where the others stay.                       *)
(***************************************************************************)
LEMMA RecordedEntry ==
    ASSUME TypeOK, NEW tx \in Transactions, NEW guarded \in BOOLEAN, Recorded(tx, guarded)
    PROVE  LET n == Len(approvals') IN
           /\ n = Len(approvals) + 1
           /\ n \notin DOMAIN approvals
           /\ DOMAIN approvals = 1 .. Len(approvals)
           /\ Len(approvals) \in Nat
           /\ approvals'[n].guarded = guarded
           /\ approvals'[n].chain = tx.chain
           /\ approvals'[n].time = clock
           /\ tx.value \in Nat
<1>1. approvals'[Len(approvals')] = [time |-> clock, chain |-> tx.chain, to |-> tx.to,
                                     value |-> tx.value, guarded |-> guarded]
  BY RecordedLedger
<1>2. Len(approvals') = Len(approvals) + 1 /\ approvals \in Seq(Approval)
  BY RecordedLedger DEF TypeOK
<1>3. DOMAIN approvals = 1 .. Len(approvals) /\ Len(approvals) \in Nat
  BY <1>2
<1>4. tx.value \in Nat
  <2>1. tx.value \in Values
    BY DEF Transactions
  <2> QED
    BY <2>1, ValuesAreNat
<1> QED
  BY <1>1, <1>2, <1>3, <1>4

LEMMA RecordedKeepsBudget ==
    ASSUME MaxValuePerWindow < MaxU128, TypeOK, GuardedBudget,
           NEW tx \in Transactions, NEW guarded \in BOOLEAN, Recorded(tx, guarded)
    PROVE  GuardedBudget'
<1> SUFFICES ASSUME NEW c \in ChainIds
             PROVE  ValueSum(approvals', {i \in history' : /\ approvals'[i].guarded
                                                           /\ approvals'[i].chain = c})
                       <= MaxValuePerWindow
  BY DEF GuardedBudget
<1> DEFINE n == Len(approvals')
           P == {i \in history' : approvals'[i].guarded /\ approvals'[i].chain = c}
<1>1. ValueSum(approvals', P) = ValueSum(approvals, P) + (IF n \in P THEN tx.value ELSE 0)
  BY RecordedSum
<1>2. approvals \in Seq(Approval)
  BY DEF TypeOK
<1>3. /\ \A i \in DOMAIN approvals : approvals'[i] = approvals[i]
      /\ history' = {i \in history \cup {n} : WithinWindow(approvals'[i].time, clock)}
  BY RecordedLedger
<1>4. MaxValuePerWindow \in Int
  BY ConfigAssumption
<1>5. /\ n \notin DOMAIN approvals
      /\ approvals'[n].guarded = guarded
      /\ approvals'[n].chain = tx.chain
      /\ tx.value \in Nat
  BY RecordedEntry
<1> HIDE DEF n
<1>6. CASE n \in P
  <2> DEFINE Q == {i \in history : /\ approvals[i].chain = tx.chain
                                   /\ WithinWindow(approvals[i].time, clock)}
  <2>1. guarded /\ tx.chain = c
    BY <1>5, <1>6
  <2>2. P \cap DOMAIN approvals \subseteq Q
    BY <1>3, <1>5, <2>1
  <2>3. ValueSum(approvals, P) <= ValueSum(approvals, Q)
        /\ ValueSum(approvals, P) \in Nat /\ ValueSum(approvals, Q) \in Nat
    <3> HIDE DEF P, Q
    <3> QED
      BY <1>2, <2>2, ValueSumMonotone
  <2>4. ~ (ValueSum(approvals, Q) + tx.value > MaxValuePerWindow)
    BY <2>1, ApprovedFits DEF Recorded, WindowTotal
  <2> HIDE DEF P, Q
  <2>5. ValueSum(approvals', P) <= MaxValuePerWindow
    BY <1>1, <1>4, <1>5, <1>6, <2>3, <2>4
  <2> QED
    BY <2>5 DEF P
<1>7. CASE n \notin P
  <2> DEFINE Q == {i \in history : approvals[i].guarded /\ approvals[i].chain = c}
  <2>1. P \cap DOMAIN approvals \subseteq Q
    BY <1>3, <1>5
  <2>2. ValueSum(approvals, P) <= ValueSum(approvals, Q)
        /\ ValueSum(approvals, P) \in Nat /\ ValueSum(approvals, Q) \in Nat
    <3> HIDE DEF P, Q
    <3> QED
      BY <1>2, <2>1, ValueSumMonotone
  <2>3. ValueSum(approvals, Q) <= MaxValuePerWindow
    BY DEF GuardedBudget
  <2> HIDE DEF P, Q
  <2>4. ValueSum(approvals', P) <= MaxValuePerWindow
    BY <1>1, <1>4, <1>7, <2>2, <2>3
  <2> QED
    BY <2>4 DEF P
<1> QED
  BY <1>6, <1>7

\* However the clock is set and however often the engine is lost, the guarded
\* entries it holds for a chain never exceed one window's limit, so with a limit
\* below the largest u128 guarded signing alone cannot overflow the sum in evaluate
\* (policy.rs:136-143). With the largest u128 itself as the limit it can, because
\* the addition in evaluate saturates there (policy.rs:148).
THEOREM GuardedEntriesStayWithinBudget ==
    MaxValuePerWindow < MaxU128 => (Spec => []GuardedBudget)
<1> SUFFICES ASSUME MaxValuePerWindow < MaxU128  PROVE Spec => []GuardedBudget
  OBVIOUS
<1> DEFINE Inv == TypeOK /\ GuardedBudget
<1>1. Init => Inv
  <2> SUFFICES ASSUME Init, NEW c \in ChainIds
               PROVE  ValueSum(approvals, {i \in history : /\ approvals[i].guarded
                                                           /\ approvals[i].chain = c})
                         <= MaxValuePerWindow
    BY InitTypeOK DEF GuardedBudget
  <2> DEFINE P == {i \in history : approvals[i].guarded /\ approvals[i].chain = c}
  <2>1. Column(approvals, P) = <<>>
    <3>1. approvals = <<>>
      BY DEF Init
    <3>2. Column(approvals, P) \in Seq(Nat) /\ Len(Column(approvals, P)) = Len(approvals)
      BY InitTypeOK, ColumnType DEF TypeOK
    <3> HIDE DEF P
    <3> QED
      BY <3>1, <3>2, EmptySeq
  <2>2. SumSeq(<<>>) = 0
    BY SumEmpty
  <2> QED
    BY <2>1, <2>2, ConfigAssumption DEF ValueSum, Column
<1>2. Inv /\ [Next]_vars => Inv'
  <2> SUFFICES ASSUME TypeOK, GuardedBudget, [Next]_vars  PROVE GuardedBudget'
    BY NextTypeOK
  <2>1. CASE Answered \/ Tick \/ StepBack
    BY <2>1 DEF Answered, Tick, StepBack, engine, GuardedBudget
  <2>2. CASE \E tx \in Transactions, guarded \in BOOLEAN : Recorded(tx, guarded)
    BY <2>2, RecordedKeepsBudget
  <2>3. CASE Restart
    <3> SUFFICES ASSUME NEW c \in ChainIds
                 PROVE  ValueSum(approvals, {i \in history' : /\ approvals[i].guarded
                                                              /\ approvals[i].chain = c})
                           <= MaxValuePerWindow
      BY <2>3 DEF Restart, GuardedBudget
    <3> DEFINE P == {i \in history' : approvals[i].guarded /\ approvals[i].chain = c}
               Q == {i \in history : approvals[i].guarded /\ approvals[i].chain = c}
    <3>1. ValueSum(approvals, Q) <= MaxValuePerWindow
      BY DEF GuardedBudget
    <3>2. P \cap DOMAIN approvals \subseteq Q
      BY <2>3 DEF Restart
    <3>3. approvals \in Seq(Approval) /\ MaxValuePerWindow \in Int
      BY ConfigAssumption DEF TypeOK
    <3> HIDE DEF P, Q
    <3>4. ValueSum(approvals, P) <= MaxValuePerWindow
      BY <3>1, <3>2, <3>3, ValueSumMonotone
    <3> QED
      BY <3>4 DEF P
  <2> QED
    BY <2>1, <2>2, <2>3, NextCases
<1>3. Inv => GuardedBudget
  OBVIOUS
<1> QED
  BY <1>1, <1>2, <1>3, PTL DEF Spec

-----------------------------------------------------------------------------
(***************************************************************************)
(* The velocity limit over the whole ledger: what evaluate sums up is all  *)
(* that was approved in the window, because pruning loses nothing.         *)
(***************************************************************************)
WindowEndingAt(i, ledger) ==
    {j \in 1 .. i : ledger[j].chain = ledger[i].chain /\ ledger[i].time - ledger[j].time <= Window}

LEMMA VelocityByWindow ==
    VelocityLimit <=> (~disturbed => \A i \in DOMAIN approvals :
                         approvals[i].guarded =>
                             ValueSum(approvals, WindowEndingAt(i, approvals)) <= MaxValuePerWindow)
  BY DEF VelocityLimit, TotalAt, WindowEndingAt, Age

LEMMA RecordedKeepsVelocity ==
    ASSUME MaxValuePerWindow < MaxU128, WindowInv, VelocityLimit, ~disturbed,
           NEW tx \in Transactions, NEW guarded \in BOOLEAN, Recorded(tx, guarded)
    PROVE  VelocityLimit'
<1> DEFINE n == Len(approvals')
<1>1. /\ DOMAIN approvals' = DOMAIN approvals \cup {n}
      /\ \A i \in DOMAIN approvals : approvals'[i] = approvals[i]
  BY RecordedLedger DEF WindowInv
<1>2. /\ n = Len(approvals) + 1
      /\ DOMAIN approvals = 1 .. Len(approvals)
      /\ Len(approvals) \in Nat
      /\ approvals'[n].guarded = guarded
      /\ approvals'[n].chain = tx.chain
      /\ approvals'[n].time = clock
      /\ tx.value \in Nat
  BY RecordedEntry DEF WindowInv
<1>3. \A P : ValueSum(approvals', P) = ValueSum(approvals, P) + (IF n \in P THEN tx.value ELSE 0)
  BY RecordedSum DEF WindowInv
<1>4. approvals \in Seq(Approval) /\ MaxValuePerWindow \in Int
  BY ConfigAssumption DEF WindowInv, TypeOK
<1> HIDE DEF n
<1> SUFFICES ASSUME NEW i \in DOMAIN approvals', approvals'[i].guarded
             PROVE  ValueSum(approvals', WindowEndingAt(i, approvals')) <= MaxValuePerWindow
  BY DEF VelocityLimit, TotalAt, WindowEndingAt, Age
<1>5. CASE i \in DOMAIN approvals
  <2>1. WindowEndingAt(i, approvals') = WindowEndingAt(i, approvals)
    <3>1. i \in Nat /\ \A j \in 1 .. i : j \in DOMAIN approvals
      BY <1>2, <1>5
    <3> QED
      BY <1>1, <1>5, <3>1 DEF WindowEndingAt
  <2>2. n \notin WindowEndingAt(i, approvals)
    BY <1>2, <1>5 DEF WindowEndingAt
  <2>3. ValueSum(approvals, WindowEndingAt(i, approvals)) \in Nat
    BY <1>4, ValueSumMonotone
  <2>4. ValueSum(approvals', WindowEndingAt(i, approvals)) = ValueSum(approvals, WindowEndingAt(i, approvals))
    BY <1>3, <2>2, <2>3
  <2>5. ValueSum(approvals, WindowEndingAt(i, approvals)) <= MaxValuePerWindow
    BY <1>1, <1>5, VelocityByWindow
  <2> QED
    BY <2>1, <2>4, <2>5
<1>6. CASE i = n
  <2> DEFINE W == WindowEndingAt(n, approvals')
             Q == {j \in history : /\ approvals[j].chain = tx.chain
                                   /\ WithinWindow(approvals[j].time, clock)}
  <2>1. W \cap DOMAIN approvals \subseteq Q
    <3> SUFFICES ASSUME NEW j \in DOMAIN approvals, j \in W  PROVE j \in Q
      OBVIOUS
    <3>1. approvals[j].chain = tx.chain /\ clock - approvals[j].time <= Window
      BY <1>1, <1>2 DEF WindowEndingAt
    <3>2. j \in history
      BY <3>1 DEF WindowInv, PruningKeepsWindow
    <3>3. approvals[j].time <= clock
      BY DEF WindowInv, NothingInTheFuture
    <3> QED
      BY <3>1, <3>2, <3>3 DEF WithinWindow
  <2>2. ~ (ValueSum(approvals, Q) + tx.value > MaxValuePerWindow)
    <3>1. guarded
      BY <1>2, <1>6
    <3> QED
      BY <3>1, ApprovedFits DEF Recorded, WindowTotal
  <2> HIDE DEF W, Q
  <2>3. ValueSum(approvals, W) <= ValueSum(approvals, Q)
        /\ ValueSum(approvals, W) \in Nat /\ ValueSum(approvals, Q) \in Nat
    BY <1>4, <2>1, ValueSumMonotone
  <2>4. ValueSum(approvals', W) = ValueSum(approvals, W) + (IF n \in W THEN tx.value ELSE 0)
    BY <1>3
  <2>5. ValueSum(approvals', W) <= MaxValuePerWindow
    BY <1>2, <1>4, <2>2, <2>3, <2>4
  <2> QED
    BY <1>6, <2>5 DEF W
<1> QED
  BY <1>1, <1>5, <1>6

\* The velocity limit (policy.rs:42-43) holds of every guarded signature over all
\* that was ever approved on its chain, and not only what the engine remembers,
\* as long as the clock was not set back and the engine lives, for every limit
\* below the largest u128.
THEOREM VelocityIsLimited ==
    MaxValuePerWindow < MaxU128 => (Spec => []VelocityLimit)
<1> SUFFICES ASSUME MaxValuePerWindow < MaxU128  PROVE Spec => []VelocityLimit
  OBVIOUS
<1> DEFINE Inv == WindowInv /\ VelocityLimit
<1>1. Init => Inv
  BY WindowInvHolds DEF Init, VelocityLimit
<1>2. Inv /\ [Next]_vars => Inv'
  <2> SUFFICES ASSUME WindowInv, VelocityLimit, [Next]_vars  PROVE VelocityLimit'
    BY WindowInvHolds
  <2>1. CASE \E tx \in Transactions, guarded \in BOOLEAN : Recorded(tx, guarded)
    <3>1. CASE disturbed
      BY <2>1, <3>1 DEF Recorded, VelocityLimit
    <3>2. CASE ~disturbed
      BY <2>1, <3>2, RecordedKeepsVelocity
    <3> QED
      BY <3>1, <3>2
  <2>2. CASE Answered \/ Tick \/ StepBack \/ Restart
    BY <2>2 DEF Answered, Tick, StepBack, Restart, engine, VelocityLimit, TotalAt, Age
  <2> QED
    BY <2>1, <2>2, NextCases DEF WindowInv
<1>3. Inv => VelocityLimit
  OBVIOUS
<1> QED
  BY <1>1, <1>2, <1>3, PTL DEF Spec

-----------------------------------------------------------------------------
(***************************************************************************)
(* Calls that do not sign.                                                 *)
(***************************************************************************)
LEMMA OnlySignedRecords ==
    ASSUME TypeOK, [Next]_vars
    PROVE  outcome'.answer = "Signed" \/ Restart \/ UNCHANGED engine
<1>1. \A tx : Return("Signed", tx) => outcome'.answer = "Signed"
  BY DEF Return
<1>2. ASSUME NEW tx \in Transactions, Refuse(tx) \/ SignAndRecord(tx) \/ \E answer : Fail(answer, tx)
      PROVE  outcome'.answer = "Signed" \/ UNCHANGED engine
  BY <1>1, <1>2 DEF Refuse, SignAndRecord, Fail
<1>3. ASSUME NEW raw \in Transactions \cup {Garbage}, SignTransactionWithPolicy(raw)
      PROVE  outcome'.answer = "Signed" \/ UNCHANGED engine
  <2>1. CASE raw = Garbage /\ Fail("DecodeError", raw)
    BY <2>1 DEF Fail
  <2>2. CASE raw \in Transactions /\ (Refuse(raw) \/ SignAndRecord(raw) \/ Fail("CeremonyError", raw))
    BY <1>2, <2>2
  <2> QED
    BY <1>3, <2>1, <2>2 DEF SignTransactionWithPolicy
<1>4. ASSUME NEW tx \in Transactions, SignEvmTransferWithPolicy(tx)
      PROVE  outcome'.answer = "Signed" \/ UNCHANGED engine
  BY <1>2, <1>4 DEF SignEvmTransferWithPolicy
<1>5. ASSUME NEW tx \in Transactions, SignUnguardedAndRecord(tx)  PROVE outcome'.answer = "Signed"
  BY <1>1, <1>5 DEF SignUnguardedAndRecord
<1>6. Tick \/ StepBack \/ UNCHANGED vars => UNCHANGED engine
  BY DEF Tick, StepBack, vars, engine
<1> QED
  BY <1>3, <1>4, <1>5, <1>6 DEF Next

\* "a ceremony failure after approval doesn't consume velocity budget" (ceremony.rs:159-161):
\* whatever does not end in a signature leaves the engine alone, as long as it lives.
THEOREM FailuresCostNothing == Spec => OnlySignaturesCount
<1>1. TypeOK /\ [Next]_vars => outcome'.answer = "Signed" \/ Restart \/ UNCHANGED engine
  BY OnlySignedRecords
<1>2. (outcome'.answer = "Signed" \/ Restart \/ UNCHANGED engine)
        => [outcome'.answer # "Signed" => Restart \/ UNCHANGED engine]_<<outcome, engine>>
  OBVIOUS
<1> QED
  BY <1>1, <1>2, InitTypeOK, NextTypeOK, PTL DEF Spec, OnlySignaturesCount
=============================================================================
