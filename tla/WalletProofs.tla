----------------------------- MODULE WalletProofs -----------------------------
(***************************************************************************)
(* What a wallet directory keeps, for any number of keys, passphrases and  *)
(* splits: for callers who interleave as they like, and for one caller who *)
(* may be killed at any point.                                             *)
(***************************************************************************)
EXTENDS Wallet, FiniteSetTheorems, TLAPS

LEMMA SplitFacts ==
    ASSUME NEW split \in Splits
    PROVE  /\ split[1] \in Nat /\ split[2] \in Nat
           /\ 2 <= split[1] /\ split[1] <= split[2]
           /\ \A i \in 1 .. split[2] : i \in Indices
  BY SplitAssumption DEF Indices

LEMMA LocalIndex == 1 \in Indices
<1>1. PICK split \in Splits : TRUE
  BY SplitAssumption
<1>2. 1 \in 1 .. split[2]
  BY SplitFacts
<1> QED
  BY <1>2, SplitFacts

LEMMA DealTyped ==
    ASSUME NEW k \in Keys, NEW split \in Splits, NEW p \in Passphrases
    PROVE  Deal(k, split, p) \in SUBSET Share
<1>1. \A i \in 1 .. split[2] : i \in Indices
  BY SplitFacts
<1>2. split[1] \in {s[1] : s \in Splits}
  OBVIOUS
<1> QED
  BY <1>1, <1>2 DEF Deal, Share

LEMMA KeyOfTyped ==
    ASSUME NEW shares \in SUBSET Share
    PROVE  KeyOf(shares) \in Addresses
<1>1. CASE \E k \in Keys : \A s \in shares : s.key = k
  BY <1>1 DEF KeyOf, Addresses
<1>2. CASE ~\E k \in Keys : \A s \in shares : s.key = k
  <2>1. \A s \in shares : <<s.key, s.index>> \in Keys \X Indices
    BY DEF Share
  <2>2. {<<s.key, s.index>> : s \in shares} \in Mixtures
    BY <2>1 DEF Mixtures
  <2> QED
    BY <1>2, <2>2 DEF KeyOf, Addresses
<1> QED
  BY <1>1, <1>2

-----------------------------------------------------------------------------
(***************************************************************************)
(* Types                                                                   *)
(***************************************************************************)
LEMMA ForgetTyped ==
    ASSUME TypeOK, NEW c \in Callers, Forget(c)
    PROVE  /\ pc' \in [Callers -> Steps] /\ pass' \in [Callers -> Passphrases]
           /\ dealt' \in [Callers -> SUBSET Share] /\ address' \in [Callers -> Addresses]
<1>1. NoPass \in Passphrases /\ {} \in Addresses /\ {} \in SUBSET Share /\ "idle" \in Steps
  BY PassphraseAssumption DEF NoPass, Addresses, Mixtures, Steps
<1> QED
  BY <1>1 DEF TypeOK, Forget, Move

LEMMA InitTypeOK == Init => TypeOK
<1>1. NoPass \in Passphrases /\ {} \in Addresses /\ {} \in SUBSET Share
  BY PassphraseAssumption DEF NoPass, Addresses, Mixtures
<1> QED
  BY <1>1 DEF Init, TypeOK, Steps, Result

LEMMA CreateTypeOK ==
    ASSUME TypeOK, NEW c \in Callers
    PROVE  /\ \A split \in Splits, p \in Passphrases : BeginCreate(c, split, p) => TypeOK'
           /\ SaveShare(c) => TypeOK'
           /\ TruncatePubkey(c) => TypeOK'
           /\ WritePubkey(c) => TypeOK'
           /\ Respond(c) => TypeOK'
           /\ IoFail(c) => TypeOK'
<1>1. ASSUME NEW split \in Splits, NEW p \in Passphrases, BeginCreate(c, split, p)  PROVE TypeOK'
  <2>1. PICK k \in Keys \ drawn :
           /\ drawn' = drawn \cup {k}
           /\ dealt' = [dealt EXCEPT ![c] = Deal(k, split, p)]
           /\ address' = [address EXCEPT ![c] = k]
    BY <1>1 DEF BeginCreate
  <2>2. Deal(k, split, p) \in SUBSET Share /\ k \in Addresses
    BY DealTyped DEF Addresses
  <2>3. /\ pc' = [pc EXCEPT ![c] = "split"] /\ pass' = [pass EXCEPT ![c] = p]
        /\ UNCHANGED <<shareFile, pubFile, origin, held, reported, last>>
    BY <1>1 DEF BeginCreate, Move, files, host
  <2>4. dealt' \in [Callers -> SUBSET Share]
    BY <2>1, <2>2 DEF TypeOK
  <2>5. address' \in [Callers -> Addresses] /\ drawn' \subseteq Keys
    BY <2>1, <2>2 DEF TypeOK
  <2> QED
    BY <2>3, <2>4, <2>5 DEF TypeOK, Steps
<1>2. ASSUME SaveShare(c)  PROVE TypeOK'
  <2>1. PICK s \in dealt[c] : s.index = 1 /\ shareFile' = [shareFile EXCEPT ![1] = s]
    BY <1>2 DEF SaveShare
  <2>2. s \in Share
    BY DEF TypeOK
  <2>3. shareFile' \in [Indices -> Share \cup {Absent}]
    BY <2>1, <2>2 DEF TypeOK
  <2> QED
    BY <1>2, <2>3 DEF TypeOK, SaveShare, Move, host, Steps
<1>3. ASSUME TruncatePubkey(c)  PROVE TypeOK'
  BY <1>3 DEF TypeOK, TruncatePubkey, Move, host, Steps
<1>4. ASSUME WritePubkey(c)  PROVE TypeOK'
  BY <1>4 DEF TypeOK, WritePubkey, Move, host, Steps
<1>5. ASSUME Respond(c)  PROVE TypeOK'
  <2>1. /\ held' = held \cup External(dealt[c])
        /\ reported' = reported \cup {s.key : s \in dealt[c]}
        /\ Forget(c)
        /\ UNCHANGED <<shareFile, pubFile, origin, last, drawn>>
    BY <1>5 DEF Respond, files
  <2>2. dealt[c] \in SUBSET Share
    BY DEF TypeOK
  <2>3. held' \subseteq Share
    BY <2>1, <2>2 DEF TypeOK, External
  <2>4. reported' \subseteq Keys
    BY <2>1, <2>2 DEF TypeOK, Share
  <2> QED
    BY <2>1, <2>3, <2>4, ForgetTyped DEF TypeOK
<1>6. ASSUME IoFail(c)  PROVE TypeOK'
  <2>1. Forget(c) /\ UNCHANGED <<shareFile, pubFile, origin, held, reported, last, drawn>>
    BY <1>6 DEF IoFail, files, host
  <2> QED
    BY <2>1, ForgetTyped DEF TypeOK
<1> QED
  BY <1>1, <1>2, <1>3, <1>4, <1>5, <1>6

LEMMA UseTypeOK ==
    ASSUME TypeOK, NEW c \in Callers
    PROVE  /\ \A shares \in SUBSET held, p \in Passphrases :
                 /\ BeginImport(c, shares, p) => TypeOK'
                 /\ FinishSend(c, shares, p) => TypeOK'
           /\ \A p \in Passphrases : BeginUnlock(c, p) => TypeOK'
           /\ BeginSend(c) => TypeOK'
           /\ FinishUnlock(c) => TypeOK'
<1>1. ASSUME NEW shares \in SUBSET held, NEW p \in Passphrases, BeginImport(c, shares, p)
      PROVE  TypeOK'
  <2>1. KeyOf(shares) \in Addresses
    BY KeyOfTyped DEF TypeOK
  <2> QED
    BY <1>1, <2>1 DEF TypeOK, BeginImport, Move, files, host, Steps
<1>2. ASSUME NEW shares \in SUBSET held, NEW p \in Passphrases, FinishSend(c, shares, p)
      PROVE  TypeOK'
  <2> DEFINE ok == /\ OpensUnder(shares, p)
                   /\ Reconstructs(LocalShare(p) \cup shares)
                   /\ KeyOf(LocalShare(p) \cup shares) = address[c]
  <2>1. last' = [call |-> "send", ok |-> ok, address |-> address[c],
                 pass |-> p, opened |-> LocalShare(p) \cup shares]
    BY <1>2 DEF FinishSend
  <2>4. ok \in BOOLEAN /\ LocalShare(p) \in SUBSET Share
    <3>1. LocalShareOpens(p) => shareFile[1] \in Share
      BY LocalIndex DEF LocalShareOpens, TypeOK
    <3> QED
      BY <3>1 DEF LocalShare
  <2> HIDE DEF ok
  <2>2. Forget(c) /\ UNCHANGED <<shareFile, pubFile, origin, held, reported, drawn>>
    BY <1>2 DEF FinishSend, files, host
  <2>3. last' \in Result
    BY <2>1, <2>4 DEF Result, TypeOK
  <2> QED
    BY <2>2, <2>3, ForgetTyped DEF TypeOK
<1>3. ASSUME NEW p \in Passphrases, BeginUnlock(c, p)  PROVE TypeOK'
  BY <1>3 DEF TypeOK, BeginUnlock, Move, files, host, Steps
<1>4. ASSUME BeginSend(c)  PROVE TypeOK'
  <2>1. pubFile \in Addresses
    BY <1>4 DEF TypeOK, BeginSend, PublicKeyLoads
  <2> QED
    BY <1>4, <2>1 DEF TypeOK, BeginSend, Move, files, host, Steps
<1>5. ASSUME FinishUnlock(c)  PROVE TypeOK'
  <2>1. Forget(c) /\ UNCHANGED <<shareFile, pubFile, origin, held, reported, drawn>>
    BY <1>5 DEF FinishUnlock, files, host
  <2>2. (IF PublicKeyLoads THEN pubFile ELSE {}) \in Addresses
    BY DEF TypeOK, PublicKeyLoads, Addresses, Mixtures
  <2>3. PublicKeyLoads \in BOOLEAN
    BY DEF PublicKeyLoads
  <2>4. last' \in Result
    BY <1>5, <2>2, <2>3 DEF FinishUnlock, Result, TypeOK
  <2> QED
    BY <2>1, <2>4, ForgetTyped DEF TypeOK
<1> QED
  BY <1>1, <1>2, <1>3, <1>4, <1>5

LEMMA KillTypeOK == TypeOK /\ Kill => TypeOK'
<1>1. NoPass \in Passphrases /\ {} \in Addresses /\ {} \in SUBSET Share
  BY PassphraseAssumption DEF NoPass, Addresses, Mixtures
<1> QED
  BY <1>1 DEF Kill, TypeOK, files, host, Steps

LEMMA StutterTypeOK == TypeOK /\ UNCHANGED vars => TypeOK'
  BY DEF TypeOK, vars, files, host, memory

LEMMA NextTypeOK == TypeOK /\ [Next]_vars => TypeOK'
  BY CreateTypeOK, UseTypeOK, KillTypeOK, StutterTypeOK DEF Next

\* Files, the host and the calls keep their types: no share file ever holds anything
\* but a whole share, and no result an address that is not one (wallet.rs:72-147).
THEOREM TypeCorrect == Spec => []TypeOK
  BY InitTypeOK, NextTypeOK, PTL DEF Spec

-----------------------------------------------------------------------------
(***************************************************************************)
(* Quorums                                                                 *)
(***************************************************************************)
\* The shares of a split with the indices above m, as many as its threshold.
Quorum(k, split, p, m) ==
    {[key |-> k, index |-> i, threshold |-> split[1], pass |-> p] : i \in m + 1 .. m + split[1]}

LEMMA QuorumCardinality ==
    ASSUME NEW k, NEW split \in Splits, NEW p, NEW m \in Nat
    PROVE  Cardinality(Quorum(k, split, p, m)) = split[1]
<1> DEFINE I == m + 1 .. m + split[1]
           Q == Quorum(k, split, p, m)
           f == [i \in I |-> [key |-> k, index |-> i, threshold |-> split[1], pass |-> p]]
<1>1. split[1] \in Nat /\ 2 <= split[1]
  BY SplitFacts
<1>2. IsFiniteSet(I) /\ Cardinality(I) = split[1]
  <2> DEFINE a == m + 1
             b == m + split[1]
  <2>1. a \in Int /\ b \in Int /\ ~(a > b) /\ b - a + 1 = split[1]
    BY <1>1
  <2> HIDE DEF a, b
  <2>2. IsFiniteSet(a .. b) /\ Cardinality(a .. b) = IF a > b THEN 0 ELSE b - a + 1
    BY <2>1, FS_Interval
  <2> QED
    BY <2>1, <2>2 DEF a, b
<1>3. f \in [I -> Q]
  BY DEF Quorum
<1>4. \A i, j \in I : f[i] = f[j] => i = j
  <2> SUFFICES ASSUME NEW i \in I, NEW j \in I, f[i] = f[j]  PROVE i = j
    OBVIOUS
  <2>1. f[i].index = i /\ f[j].index = j
    OBVIOUS
  <2> QED
    BY <2>1
<1>5. \A q \in Q : \E i \in I : f[i] = q
  BY DEF Quorum
<1> HIDE DEF I, Q, f
<1>6. f \in Bijection(I, Q)
  BY <1>3, <1>4, <1>5 DEF Bijection, Injection, Surjection, IsInjective
<1>7. ExistsBijection(I, Q)
  BY <1>6 DEF ExistsBijection
<1> QED
  BY <1>2, <1>7, FS_Bijection DEF Q

\* Any threshold shares of one split reconstruct its key.
LEMMA QuorumRecovers ==
    ASSUME NEW k \in Keys, NEW split \in Splits, NEW p \in Passphrases, NEW m \in Nat,
           NEW shares, Quorum(k, split, p, m) \subseteq shares
    PROVE  Recoverable(k, shares)
<1> DEFINE Q == Quorum(k, split, p, m)
<1>1. split[1] \in Nat /\ 2 <= split[1]
  BY SplitFacts
<1>2. \A s \in Q : s.key = k /\ s.threshold = split[1] /\ s.pass = p
  BY DEF Quorum
<1>3. \A r, s \in Q : r.index = s.index => r = s
  BY DEF Quorum
<1>4. Q # {}
  <2>1. m + 1 \in m + 1 .. m + split[1]
    BY <1>1
  <2> QED
    BY <2>1 DEF Quorum
<1>5. Cardinality(Q) = split[1]
  BY QuorumCardinality
<1> HIDE DEF Q
<1>6. Reconstructs(Q)
  BY <1>2, <1>3, <1>4, <1>5 DEF Reconstructs
<1>7. KeyOf(Q) = k
  <2>1. \E j \in Keys : \A s \in Q : s.key = j
    BY <1>2
  <2>2. \A j \in Keys : (\A s \in Q : s.key = j) => j = k
    BY <1>2, <1>4
  <2> QED
    BY <2>1, <2>2 DEF KeyOf
<1>8. OpensUnder(Q, p)
  BY <1>2 DEF OpensUnder
<1> QED
  BY <1>6, <1>7, <1>8 DEF Recoverable, Q

LEMMA RecoverableGrows ==
    ASSUME NEW k, NEW S, NEW T, S \subseteq T, Recoverable(k, S)
    PROVE  Recoverable(k, T)
  BY DEF Recoverable

\* A split with a share to spare can do without the local one.
LEMMA SpareSplitRecovers ==
    ASSUME NEW k \in Keys, NEW split \in Splits, NEW p \in Passphrases, split[1] < split[2]
    PROVE  Recoverable(k, External(Deal(k, split, p)))
<1>1. split[1] \in Nat /\ split[2] \in Nat
  BY SplitFacts
<1>2. \A i \in 1 + 1 .. 1 + split[1] : i \in 1 .. split[2] /\ i # 1
  BY <1>1
<1>3. Quorum(k, split, p, 1) \subseteq External(Deal(k, split, p))
  BY <1>2 DEF Quorum, External, Deal
<1> QED
  BY <1>3, QuorumRecovers

-----------------------------------------------------------------------------
(***************************************************************************)
(* Callers who interleave: no kills, and splits with a share to spare.     *)
(***************************************************************************)
SpareSplits == \A split \in Splits : split[1] < split[2]

Writing == {"split", "ready", "truncated", "written"}

\* What the host has, or will have when call c returns.
Handed(c) == held \cup External(dealt[c])

CallIsRecoverable(c) == pc[c] \in Writing => Recoverable(address[c], Handed(c))

\* Only the host's shares count, or those of a call that can no longer fail.
FileIsRecoverable ==
    PublicKeyLoads =>
        \/ Recoverable(pubFile, held)
        \/ \E c \in Callers : pc[c] = "written" /\ Recoverable(pubFile, Handed(c))

SharedInv ==
    /\ TypeOK
    /\ \A c \in Callers : CallIsRecoverable(c)
    /\ FileIsRecoverable

\* The host's shares only grow, so a call that does nothing stays recoverable.
LEMMA OthersStayRecoverable ==
    ASSUME SharedInv, NEW d \in Callers, held \subseteq held',
           pc'[d] = pc[d], dealt'[d] = dealt[d], address'[d] = address[d]
    PROVE  /\ CallIsRecoverable(d)'
           /\ \A k : Recoverable(k, Handed(d)) => Recoverable(k, Handed(d)')
           /\ \A k : Recoverable(k, held) => Recoverable(k, held')
<1>1. Handed(d) \subseteq Handed(d)'
  BY DEF Handed, External
<1>2. \A k : Recoverable(k, Handed(d)) => Recoverable(k, Handed(d)')
  BY <1>1, RecoverableGrows
<1>3. CallIsRecoverable(d)'
  BY <1>2 DEF SharedInv, CallIsRecoverable
<1> QED
  BY <1>2, <1>3, RecoverableGrows

\* A step of one call that has not written, and does not write, the pubkey file.
LEMMA PubkeyUntouched ==
    ASSUME SharedInv, NEW c \in Callers, TypeOK', UNCHANGED <<pubFile, held>>,
           pc[c] # "written",
           \A d \in Callers \ {c} :
              pc'[d] = pc[d] /\ dealt'[d] = dealt[d] /\ address'[d] = address[d],
           CallIsRecoverable(c)'
    PROVE  SharedInv'
<1>1. ASSUME NEW d \in Callers \ {c}
      PROVE  /\ CallIsRecoverable(d)'
             /\ \A k : Recoverable(k, Handed(d)) => Recoverable(k, Handed(d)')
  BY OthersStayRecoverable
<1>2. FileIsRecoverable'
  <2> SUFFICES ASSUME PublicKeyLoads'
               PROVE  \/ Recoverable(pubFile', held')
                      \/ \E d \in Callers : pc'[d] = "written" /\ Recoverable(pubFile', Handed(d)')
    BY DEF FileIsRecoverable
  <2>1. PublicKeyLoads
    BY DEF PublicKeyLoads
  <2>2. CASE Recoverable(pubFile, held)
    BY <2>2
  <2>3. ASSUME NEW d \in Callers, pc[d] = "written", Recoverable(pubFile, Handed(d))
        PROVE  pc'[d] = "written" /\ Recoverable(pubFile', Handed(d)')
    BY <1>1, <2>3
  <2> QED
    BY <2>1, <2>2, <2>3 DEF SharedInv, FileIsRecoverable
<1> QED
  BY <1>1, <1>2 DEF SharedInv

LEMMA BeginCreateShared ==
    ASSUME SpareSplits, SharedInv, TypeOK', NEW c \in Callers, NEW split \in Splits,
           NEW p \in Passphrases, BeginCreate(c, split, p)
    PROVE  SharedInv'
<1>1. PICK k \in Keys \ drawn : /\ dealt' = [dealt EXCEPT ![c] = Deal(k, split, p)]
                                /\ address' = [address EXCEPT ![c] = k]
  BY DEF BeginCreate
<1>2. /\ pc[c] = "idle" /\ pc' = [pc EXCEPT ![c] = "split"]
      /\ UNCHANGED <<pubFile, held>>
  BY DEF BeginCreate, Move, files, host
<1>3. dealt'[c] = Deal(k, split, p) /\ address'[c] = k
  BY <1>1 DEF SharedInv, TypeOK
<1>4. Recoverable(k, External(Deal(k, split, p)))
  BY SpareSplitRecovers DEF SpareSplits
<1>5. External(Deal(k, split, p)) \subseteq Handed(c)'
  BY <1>3 DEF Handed
<1>6. Recoverable(k, Handed(c)')
  BY <1>4, <1>5, RecoverableGrows
<1>7. CallIsRecoverable(c)'
  BY <1>3, <1>6 DEF CallIsRecoverable
<1>8. \A d \in Callers \ {c} :
         pc'[d] = pc[d] /\ dealt'[d] = dealt[d] /\ address'[d] = address[d]
  BY <1>1, <1>2 DEF SharedInv, TypeOK
<1> QED
  BY <1>2, <1>7, <1>8, PubkeyUntouched

LEMMA BeginImportShared ==
    ASSUME SharedInv, TypeOK', NEW c \in Callers, NEW shares \in SUBSET held,
           NEW p \in Passphrases, BeginImport(c, shares, p)
    PROVE  SharedInv'
<1>1. /\ pc[c] = "idle" /\ pc' = [pc EXCEPT ![c] = "ready"]
      /\ address' = [address EXCEPT ![c] = KeyOf(shares)]
      /\ UNCHANGED <<pubFile, held, dealt>>
      /\ Reconstructs(shares) /\ OpensUnder(shares, p)
  BY DEF BeginImport, Move, files, host
<1>2. Recoverable(KeyOf(shares), Handed(c)')
  BY <1>1 DEF Recoverable, Handed
<1>3. address'[c] = KeyOf(shares)
  BY <1>1 DEF SharedInv, TypeOK
<1>4. CallIsRecoverable(c)'
  BY <1>2, <1>3 DEF CallIsRecoverable
<1>5. \A d \in Callers \ {c} :
         pc'[d] = pc[d] /\ dealt'[d] = dealt[d] /\ address'[d] = address[d]
  BY <1>1 DEF SharedInv, TypeOK
<1> QED
  BY <1>1, <1>4, <1>5, PubkeyUntouched

LEMMA SaveShareShared ==
    ASSUME SharedInv, TypeOK', NEW c \in Callers, SaveShare(c)
    PROVE  SharedInv'
<1>1. /\ pc[c] = "split" /\ pc' = [pc EXCEPT ![c] = "ready"]
      /\ UNCHANGED <<pubFile, held, dealt, address>>
  BY DEF SaveShare, Move, host
<1>2. Recoverable(address[c], Handed(c))
  BY <1>1 DEF SharedInv, CallIsRecoverable, Writing
<1>3. CallIsRecoverable(c)'
  BY <1>1, <1>2 DEF CallIsRecoverable, Handed
<1>4. \A d \in Callers \ {c} : pc'[d] = pc[d]
  BY <1>1 DEF SharedInv, TypeOK
<1> QED
  BY <1>1, <1>3, <1>4, PubkeyUntouched

LEMMA TruncatePubkeyShared ==
    ASSUME SharedInv, TypeOK', NEW c \in Callers, TruncatePubkey(c)
    PROVE  SharedInv'
<1>1. /\ pc[c] = "ready" /\ pc' = [pc EXCEPT ![c] = "truncated"] /\ pubFile' = Torn
      /\ UNCHANGED <<held, dealt, address>>
  BY DEF TruncatePubkey, Move, host
<1>2. FileIsRecoverable'
  BY <1>1 DEF FileIsRecoverable, PublicKeyLoads
<1>3. CallIsRecoverable(c)'
  <2>1. Recoverable(address[c], Handed(c))
    BY <1>1 DEF SharedInv, CallIsRecoverable, Writing
  <2> QED
    BY <1>1, <2>1 DEF CallIsRecoverable, Handed
<1>4. ASSUME NEW d \in Callers \ {c}  PROVE CallIsRecoverable(d)'
  BY <1>1, OthersStayRecoverable DEF SharedInv, TypeOK
<1> QED
  BY <1>2, <1>3, <1>4 DEF SharedInv

LEMMA WritePubkeyShared ==
    ASSUME SharedInv, TypeOK', NEW c \in Callers, WritePubkey(c)
    PROVE  SharedInv'
<1>1. /\ pc[c] = "truncated" /\ pc' = [pc EXCEPT ![c] = "written"] /\ pubFile' = address[c]
      /\ UNCHANGED <<held, dealt, address>>
  BY DEF WritePubkey, Move, host
<1>2. Recoverable(address[c], Handed(c))
  BY <1>1 DEF SharedInv, CallIsRecoverable, Writing
<1>3. CallIsRecoverable(c)' /\ Recoverable(pubFile', Handed(c)')
  BY <1>1, <1>2 DEF CallIsRecoverable, Handed
<1>4. pc'[c] = "written"
  BY <1>1 DEF SharedInv, TypeOK
<1>5. FileIsRecoverable'
  BY <1>3, <1>4 DEF FileIsRecoverable
<1>6. ASSUME NEW d \in Callers \ {c}  PROVE CallIsRecoverable(d)'
  BY <1>1, OthersStayRecoverable DEF SharedInv, TypeOK
<1> QED
  BY <1>3, <1>5, <1>6 DEF SharedInv

\* The response moves the shares from the call to the host.
LEMMA RespondShared ==
    ASSUME SharedInv, TypeOK', NEW c \in Callers, Respond(c)
    PROVE  SharedInv'
<1>1. /\ held' = Handed(c) /\ UNCHANGED pubFile
      /\ pc' = [pc EXCEPT ![c] = "idle"]
      /\ dealt' = [dealt EXCEPT ![c] = {}]
      /\ address' = [address EXCEPT ![c] = {}]
  BY DEF Respond, Forget, Move, files, Handed
<1>2. held \subseteq held'
  BY <1>1 DEF Handed
<1>3. CallIsRecoverable(c)'
  BY <1>1 DEF SharedInv, TypeOK, CallIsRecoverable, Writing
<1>4. ASSUME NEW d \in Callers \ {c}
      PROVE  /\ CallIsRecoverable(d)'
             /\ pc'[d] = pc[d]
             /\ \A k : Recoverable(k, Handed(d)) => Recoverable(k, Handed(d)')
  BY <1>1, <1>2, OthersStayRecoverable DEF SharedInv, TypeOK
<1>5. FileIsRecoverable'
  <2> SUFFICES ASSUME PublicKeyLoads'
               PROVE  \/ Recoverable(pubFile', held')
                      \/ \E d \in Callers : pc'[d] = "written" /\ Recoverable(pubFile', Handed(d)')
    BY DEF FileIsRecoverable
  <2>1. PublicKeyLoads
    BY <1>1 DEF PublicKeyLoads
  <2>2. CASE Recoverable(pubFile, held)
    BY <1>1, <1>2, <2>2, RecoverableGrows
  <2>3. ASSUME NEW d \in Callers \ {c}, pc[d] = "written", Recoverable(pubFile, Handed(d))
        PROVE  pc'[d] = "written" /\ Recoverable(pubFile', Handed(d)')
    BY <1>1, <1>4, <2>3
  <2>4. CASE Recoverable(pubFile, Handed(c))
    BY <1>1, <2>4
  <2> QED
    BY <2>1, <2>2, <2>3, <2>4 DEF SharedInv, FileIsRecoverable
<1> QED
  BY <1>3, <1>4, <1>5 DEF SharedInv

\* What does not create leaves Writing, or never gets there.
LEMMA OtherStepsShared ==
    ASSUME SharedInv, TypeOK', NEW c \in Callers, UNCHANGED <<pubFile, held>>,
           pc[c] # "written", NEW step \in Steps \ Writing, pc' = [pc EXCEPT ![c] = step],
           \A d \in Callers \ {c} : dealt'[d] = dealt[d] /\ address'[d] = address[d]
    PROVE  SharedInv'
<1>1. pc'[c] = step /\ \A d \in Callers \ {c} : pc'[d] = pc[d]
  BY DEF SharedInv, TypeOK
<1>2. CallIsRecoverable(c)'
  BY <1>1 DEF CallIsRecoverable
<1> QED
  BY <1>1, <1>2, PubkeyUntouched

LEMMA NextShared ==
    ASSUME ~Kills, SpareSplits, SharedInv, [Next]_vars
    PROVE  SharedInv'
<1>1. TypeOK'
  BY NextTypeOK DEF SharedInv
<1>2. {"idle", "loaded", "opened"} \subseteq Steps \ Writing
  BY DEF Steps, Writing
<1>3. ASSUME NEW c \in Callers, Forget(c), UNCHANGED <<pubFile, held>>, pc[c] # "written"
      PROVE  SharedInv'
  <2>1. \A d \in Callers \ {c} : dealt'[d] = dealt[d] /\ address'[d] = address[d]
    BY <1>3 DEF Forget, SharedInv, TypeOK
  <2>2. pc' = [pc EXCEPT ![c] = "idle"]
    BY <1>3 DEF Forget, Move
  <2> QED
    BY <1>1, <1>2, <1>3, <2>1, <2>2, OtherStepsShared
<1>4. ASSUME NEW c \in Callers, NEW split \in Splits, NEW p \in Passphrases,
             BeginCreate(c, split, p)
      PROVE  SharedInv'
  BY <1>1, <1>4, BeginCreateShared
<1>5. ASSUME NEW c \in Callers, NEW shares \in SUBSET held, NEW p \in Passphrases,
             BeginImport(c, shares, p) \/ FinishSend(c, shares, p)
      PROVE  SharedInv'
  <2>1. CASE BeginImport(c, shares, p)
    BY <1>1, <2>1, BeginImportShared
  <2>2. CASE FinishSend(c, shares, p)
    BY <1>3, <2>2 DEF FinishSend, files, host
  <2> QED
    BY <1>5, <2>1, <2>2
<1>6. ASSUME NEW c \in Callers, NEW p \in Passphrases, BeginUnlock(c, p)  PROVE SharedInv'
  <2>1. pc' = [pc EXCEPT ![c] = "opened"] /\ pc[c] = "idle"
        /\ UNCHANGED <<pubFile, held, dealt, address>>
    BY <1>6 DEF BeginUnlock, Move, files, host
  <2> QED
    BY <1>1, <1>2, <2>1, OtherStepsShared
<1>7. ASSUME NEW c \in Callers, BeginSend(c)  PROVE SharedInv'
  <2>1. pc' = [pc EXCEPT ![c] = "loaded"] /\ pc[c] = "idle"
        /\ address' = [address EXCEPT ![c] = pubFile]
        /\ UNCHANGED <<pubFile, held, dealt>>
    BY <1>7 DEF BeginSend, Move, files, host
  <2>2. \A d \in Callers \ {c} : address'[d] = address[d]
    BY <2>1 DEF SharedInv, TypeOK
  <2> QED
    BY <1>1, <1>2, <2>1, <2>2, OtherStepsShared
<1>8. ASSUME NEW c \in Callers, FinishUnlock(c)  PROVE SharedInv'
  BY <1>3, <1>8 DEF FinishUnlock, files, host
<1>9. ASSUME NEW c \in Callers, IoFail(c)  PROVE SharedInv'
  BY <1>3, <1>9 DEF IoFail, files, host
<1>10. CASE UNCHANGED vars
  BY <1>10 DEF vars, files, host, memory, SharedInv, TypeOK, CallIsRecoverable,
               FileIsRecoverable, PublicKeyLoads, Handed
<1>11. ~Kill
  BY DEF Kill
<1> QED
  BY <1>1, <1>4, <1>5, <1>6, <1>7, <1>8, <1>9, <1>10, <1>11, SaveShareShared,
     TruncatePubkeyShared, WritePubkeyShared, RespondShared DEF Next

\* Whatever number of threads create, import, send and unlock in one directory, and
\* whichever file operations fail, the address that loads is one whose key can be had
\* back, provided no split is without a share to spare (wallet.rs:83-97).
THEOREM AddressesAreRecoverable == ~Kills /\ SpareSplits => (Spec => []AddressIsRecoverable)
<1> SUFFICES ASSUME ~Kills, SpareSplits  PROVE Spec => []AddressIsRecoverable
  OBVIOUS
<1>1. Init => SharedInv
  BY InitTypeOK DEF Init, SharedInv, CallIsRecoverable, FileIsRecoverable, PublicKeyLoads, Writing
<1>2. SharedInv /\ [Next]_vars => SharedInv'
  BY NextShared
<1>3. SharedInv => AddressIsRecoverable
  <2> SUFFICES ASSUME SharedInv, PublicKeyLoads
               PROVE  Recoverable(pubFile, held \cup Stored \cup UNION {dealt[c] : c \in Callers})
    BY DEF AddressIsRecoverable
  <2> DEFINE All == held \cup Stored \cup UNION {dealt[c] : c \in Callers}
  <2>1. held \subseteq All
    OBVIOUS
  <2>2. \A c \in Callers : Handed(c) \subseteq All
    BY DEF Handed, External
  <2> HIDE DEF All
  <2>3. Recoverable(pubFile, All)
    BY <2>1, <2>2, RecoverableGrows DEF SharedInv, FileIsRecoverable
  <2> QED
    BY <2>3 DEF All
<1> QED
  BY <1>1, <1>2, <1>3, PTL DEF Spec

-----------------------------------------------------------------------------
(***************************************************************************)
(* One caller, who creates and imports as often as it likes over whatever  *)
(* the directory holds, and whose calls may fail or be killed anywhere.    *)
(***************************************************************************)
Alone == \A c, d \in Callers : c = d

\* What a create has got to: its key is new to the host until it responds, and its
\* local share is saved before the address is written.
CreateIsOrdered(c) ==
    /\ dealt[c] # {} =>
          /\ pc[c] \in Writing
          /\ address[c] \in drawn \ reported
          /\ \A s \in dealt[c] : s.key = address[c]
    /\ pc[c] = "split" => dealt[c] # {}
    /\ dealt[c] # {} /\ pc[c] \in {"ready", "truncated", "written"} => shareFile[1] \in dealt[c]
    /\ dealt[c] # {} /\ pc[c] = "written" => pubFile = address[c]

AloneInv ==
    /\ TypeOK
    /\ reported \subseteq drawn
    /\ LocalShareBeforeAddress
    /\ \A c \in Callers : CreateIsOrdered(c)

LEMMA InitAlone == Init => AloneInv
  BY InitTypeOK DEF Init, AloneInv, LocalShareBeforeAddress, PublicKeyLoads, CreateIsOrdered

LEMMA DealIsNotEmpty ==
    ASSUME NEW k, NEW split \in Splits, NEW p
    PROVE  Deal(k, split, p) # {} /\ \A s \in Deal(k, split, p) : s.key = k
<1>1. 1 \in 1 .. split[2]
  BY SplitFacts
<1>2. [key |-> k, index |-> 1, threshold |-> split[1], pass |-> p] \in Deal(k, split, p)
  BY <1>1, Zenon DEF Deal
<1>3. \A s \in Deal(k, split, p) : s.key = k
  BY DEF Deal
<1> QED
  BY <1>2, <1>3

LEMMA BeginCreateAlone ==
    ASSUME Alone, AloneInv, TypeOK', NEW c \in Callers, NEW split \in Splits,
           NEW p \in Passphrases, BeginCreate(c, split, p)
    PROVE  AloneInv'
<1>1. PICK k \in Keys \ drawn : /\ drawn' = drawn \cup {k}
                                /\ dealt' = [dealt EXCEPT ![c] = Deal(k, split, p)]
                                /\ address' = [address EXCEPT ![c] = k]
  BY DEF BeginCreate
<1>2. /\ pc' = [pc EXCEPT ![c] = "split"]
      /\ UNCHANGED <<shareFile, pubFile, origin, reported>>
  BY DEF BeginCreate, Move, files, host
<1>3. pc'[c] = "split" /\ dealt'[c] = Deal(k, split, p) /\ address'[c] = k
  BY <1>1, <1>2 DEF AloneInv, TypeOK
<1>4. k \in drawn' \ reported' /\ reported' \subseteq drawn'
  BY <1>1, <1>2 DEF AloneInv
<1>5. CreateIsOrdered(c)'
  BY <1>3, <1>4, DealIsNotEmpty DEF CreateIsOrdered, Writing
<1>6. \A d \in Callers : d = c
  BY DEF Alone
<1>7. LocalShareBeforeAddress'
  BY <1>2 DEF AloneInv, LocalShareBeforeAddress, PublicKeyLoads
<1> QED
  BY <1>4, <1>5, <1>6, <1>7 DEF AloneInv

LEMMA SaveShareAlone ==
    ASSUME Alone, AloneInv, TypeOK', NEW c \in Callers, SaveShare(c)
    PROVE  AloneInv'
<1>1. PICK s \in dealt[c] : s.index = 1 /\ shareFile' = [shareFile EXCEPT ![1] = s]
  BY DEF SaveShare
<1>2. /\ pc[c] = "split" /\ pc' = [pc EXCEPT ![c] = "ready"]
      /\ UNCHANGED <<pubFile, origin, reported, dealt, address, drawn>>
  BY DEF SaveShare, Move, host
<1>3. pc'[c] = "ready" /\ shareFile'[1] = s
  BY <1>1, <1>2, LocalIndex DEF AloneInv, TypeOK
<1>4. /\ s.key = address[c] /\ address[c] \notin reported
      /\ s # Absent
  BY <1>1, ShareAssumption DEF AloneInv, CreateIsOrdered, TypeOK
<1>5. LocalShareBeforeAddress'
  BY <1>2, <1>3, <1>4 DEF LocalShareBeforeAddress
<1>6. CreateIsOrdered(c)'
  BY <1>1, <1>2, <1>3 DEF AloneInv, CreateIsOrdered, Writing
<1>7. \A d \in Callers : d = c
  BY DEF Alone
<1> QED
  BY <1>2, <1>5, <1>6, <1>7 DEF AloneInv

LEMMA TruncatePubkeyAlone ==
    ASSUME Alone, AloneInv, TypeOK', NEW c \in Callers, TruncatePubkey(c)
    PROVE  AloneInv'
<1>1. /\ pc[c] = "ready" /\ pc' = [pc EXCEPT ![c] = "truncated"] /\ pubFile' = Torn
      /\ UNCHANGED <<shareFile, reported, dealt, address, drawn>>
  BY DEF TruncatePubkey, Move, host
<1>2. pc'[c] = "truncated" /\ ~PublicKeyLoads'
  BY <1>1 DEF AloneInv, TypeOK, PublicKeyLoads
<1>3. CreateIsOrdered(c)'
  BY <1>1, <1>2 DEF AloneInv, CreateIsOrdered, Writing
<1>4. \A d \in Callers : d = c
  BY DEF Alone
<1> QED
  BY <1>1, <1>2, <1>3, <1>4 DEF AloneInv, LocalShareBeforeAddress

LEMMA WritePubkeyAlone ==
    ASSUME Alone, AloneInv, TypeOK', NEW c \in Callers, WritePubkey(c)
    PROVE  AloneInv'
<1>1. /\ pc[c] = "truncated" /\ pc' = [pc EXCEPT ![c] = "written"] /\ pubFile' = address[c]
      /\ origin' = IF dealt[c] = {} THEN "import" ELSE "create"
      /\ UNCHANGED <<shareFile, reported, dealt, address, drawn>>
  BY DEF WritePubkey, Move, host
<1>2. pc'[c] = "written"
  BY <1>1 DEF AloneInv, TypeOK
<1>3. LocalShareBeforeAddress'
  <2>1. CASE dealt[c] = {}
    BY <1>1, <2>1 DEF LocalShareBeforeAddress
  <2>2. CASE dealt[c] # {}
    <3>1. shareFile[1] \in dealt[c] /\ \A s \in dealt[c] : s.key = address[c]
      BY <1>1, <2>2 DEF AloneInv, CreateIsOrdered
    <3>2. shareFile[1] # Absent
      BY <3>1, ShareAssumption DEF AloneInv, TypeOK
    <3> QED
      BY <1>1, <3>1, <3>2 DEF LocalShareBeforeAddress
  <2> QED
    BY <2>1, <2>2
<1>4. CreateIsOrdered(c)'
  BY <1>1, <1>2 DEF AloneInv, CreateIsOrdered, Writing
<1>5. \A d \in Callers : d = c
  BY DEF Alone
<1> QED
  BY <1>1, <1>3, <1>4, <1>5 DEF AloneInv

LEMMA RespondAlone ==
    ASSUME Alone, AloneInv, TypeOK', NEW c \in Callers, Respond(c)
    PROVE  AloneInv'
<1>1. /\ pc[c] = "written" /\ pc' = [pc EXCEPT ![c] = "idle"]
      /\ dealt' = [dealt EXCEPT ![c] = {}]
      /\ reported' = reported \cup {s.key : s \in dealt[c]}
      /\ UNCHANGED <<shareFile, pubFile, origin, drawn>>
  BY DEF Respond, Forget, Move, files
<1>2. pc'[c] = "idle" /\ dealt'[c] = {}
  BY <1>1 DEF AloneInv, TypeOK
<1>3. CASE dealt[c] = {}
  <2>1. reported' = reported
    BY <1>1, <1>3
  <2>2. LocalShareBeforeAddress'
    BY <1>1, <2>1 DEF AloneInv, LocalShareBeforeAddress, PublicKeyLoads
  <2>3. CreateIsOrdered(c)'
    BY <1>2 DEF CreateIsOrdered
  <2>4. \A d \in Callers : d = c
    BY DEF Alone
  <2> QED
    BY <1>1, <2>1, <2>2, <2>3, <2>4 DEF AloneInv
<1>4. CASE dealt[c] # {}
  <2>1. /\ shareFile[1] \in dealt[c] /\ pubFile = address[c]
        /\ address[c] \in drawn /\ \A s \in dealt[c] : s.key = address[c]
    BY <1>1, <1>4 DEF AloneInv, CreateIsOrdered
  <2>2. shareFile[1] # Absent /\ shareFile[1].key = pubFile
    BY <2>1, ShareAssumption DEF AloneInv, TypeOK
  <2>3. reported' \subseteq drawn'
    BY <1>1, <2>1 DEF AloneInv
  <2>4. LocalShareBeforeAddress'
    BY <1>1, <2>2 DEF LocalShareBeforeAddress
  <2>5. CreateIsOrdered(c)'
    BY <1>2 DEF CreateIsOrdered
  <2>6. \A d \in Callers : d = c
    BY DEF Alone
  <2> QED
    BY <2>3, <2>4, <2>5, <2>6 DEF AloneInv
<1> QED
  BY <1>3, <1>4

\* What leaves the files, the host and the generator alone, and no call with a split.
LEMMA OtherStepsAlone ==
    ASSUME AloneInv, TypeOK', UNCHANGED <<files, host, drawn>>,
           \A d \in Callers : dealt'[d] = {} /\ pc'[d] # "split"
    PROVE  AloneInv'
<1>1. UNCHANGED <<shareFile, pubFile, origin, reported, drawn>>
  BY DEF files, host
<1>2. LocalShareBeforeAddress' /\ reported' \subseteq drawn'
  BY <1>1 DEF AloneInv, LocalShareBeforeAddress, PublicKeyLoads
<1>3. \A d \in Callers : CreateIsOrdered(d)'
  BY DEF CreateIsOrdered
<1> QED
  BY <1>2, <1>3 DEF AloneInv

LEMMA NextAlone ==
    ASSUME Alone, AloneInv, [Next]_vars
    PROVE  AloneInv'
<1>1. TypeOK'
  BY NextTypeOK DEF AloneInv
<1>2. ASSUME NEW c \in Callers, Forget(c), UNCHANGED <<files, host, drawn>>
      PROVE  AloneInv'
  <2>1. \A d \in Callers : pc'[d] = "idle" /\ dealt'[d] = {}
    BY <1>2 DEF Alone, AloneInv, TypeOK, Forget, Move
  <2> QED
    BY <1>1, <1>2, <2>1, OtherStepsAlone
\* A call that was idle, and starts with no split.
<1>3. ASSUME NEW c \in Callers, NEW step \in {"ready", "loaded", "opened"}, pc[c] = "idle",
             pc' = [pc EXCEPT ![c] = step], UNCHANGED <<files, host, dealt, drawn>>
      PROVE  AloneInv'
  <2>1. dealt[c] = {}
    BY <1>3 DEF AloneInv, CreateIsOrdered, Writing
  <2>2. \A d \in Callers : dealt'[d] = {} /\ pc'[d] = step
    BY <1>3, <2>1 DEF Alone, AloneInv, TypeOK
  <2>3. \A d \in Callers : dealt'[d] = {} /\ pc'[d] # "split"
    BY <2>2
  <2> QED
    BY <1>1, <1>3, <2>3, OtherStepsAlone
<1>4. ASSUME NEW c \in Callers, NEW split \in Splits, NEW p \in Passphrases,
             BeginCreate(c, split, p)
      PROVE  AloneInv'
  BY <1>1, <1>4, BeginCreateAlone
<1>5. ASSUME NEW c \in Callers, NEW shares \in SUBSET held, NEW p \in Passphrases,
             BeginImport(c, shares, p) \/ FinishSend(c, shares, p)
      PROVE  AloneInv'
  <2>1. CASE BeginImport(c, shares, p)
    BY <1>3, <2>1 DEF BeginImport, Move
  <2>2. CASE FinishSend(c, shares, p)
    BY <1>2, <2>2 DEF FinishSend
  <2> QED
    BY <1>5, <2>1, <2>2
<1>6. ASSUME NEW c \in Callers, NEW p \in Passphrases, BeginUnlock(c, p)  PROVE AloneInv'
  BY <1>3, <1>6 DEF BeginUnlock, Move
<1>7. ASSUME NEW c \in Callers, BeginSend(c)  PROVE AloneInv'
  BY <1>3, <1>7 DEF BeginSend, Move
<1>8. ASSUME NEW c \in Callers, FinishUnlock(c) \/ IoFail(c)  PROVE AloneInv'
  BY <1>2, <1>8 DEF FinishUnlock, IoFail
<1>9. CASE Kill
  <2>1. \A d \in Callers : dealt'[d] = {} /\ pc'[d] # "split"
    BY <1>9 DEF Kill
  <2> QED
    BY <1>1, <1>9, <2>1, OtherStepsAlone DEF Kill
<1>10. CASE UNCHANGED vars
  BY <1>1, <1>10 DEF vars, files, host, memory, AloneInv, LocalShareBeforeAddress,
               CreateIsOrdered, PublicKeyLoads
<1> QED
  BY <1>4, <1>5, <1>6, <1>7, <1>8, <1>9, <1>10, <1>1, SaveShareAlone,
     TruncatePubkeyAlone, WritePubkeyAlone, RespondAlone DEF Next

\* However often one caller creates and imports, and wherever its calls fail or are
\* killed: beside an address that create_wallet wrote lies that wallet's local share or
\* one of a create cut off later that returned no address (wallet.rs:85-95).
THEOREM LocalShareComesFirst == Alone => (Spec => []LocalShareBeforeAddress)
<1> SUFFICES ASSUME Alone  PROVE Spec => []LocalShareBeforeAddress
  OBVIOUS
<1>1. AloneInv /\ [Next]_vars => AloneInv'
  BY NextAlone
<1>2. AloneInv => LocalShareBeforeAddress
  BY DEF AloneInv
<1> QED
  BY <1>1, <1>2, InitAlone, PTL DEF Spec
=============================================================================
