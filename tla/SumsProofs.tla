----------------------------- MODULE SumsProofs -----------------------------
(***************************************************************************)
(* What SumSeq computes: a natural number, additive in the last element    *)
(* and monotonic in every element.  And what FoldLeft of the community     *)
(* modules computes: the last of the intermediate results of a loop.  Both *)
(* rest on an induction over the natural numbers whose property is a set,  *)
(* since no prover here instantiates an operator.                          *)
(***************************************************************************)
EXTENDS Sums, SequencesExt, WellFoundedInduction, SequenceTheorems, TLAPS

(***************************************************************************)
(* Induction on the natural numbers, with the property given as a set.     *)
(***************************************************************************)
LEMMA NatInductionOnSets ==
    ASSUME NEW S, 0 \in S, \A n \in Nat : n \in S => n + 1 \in S
    PROVE  \A n \in Nat : n \in S
<1> DEFINE T == Nat \ S
<1> SUFFICES ASSUME T # {}  PROVE FALSE
  OBVIOUS
<1>1. PICK x \in T : \A y \in T : ~ (<<y, x>> \in OpToRel(<, Nat))
  <2>1. IsWellFoundedOn(OpToRel(<, Nat), Nat)
    BY NatLessThanWellFounded
  <2> HIDE DEF T
  <2>2. T \subseteq Nat
    BY DEF T
  <2> QED
    BY <2>1, <2>2, WFMin
<1>2. x # 0 /\ x \in Nat
  OBVIOUS
<1>3. x - 1 \in Nat /\ x - 1 + 1 = x /\ x - 1 < x
  BY <1>2
<1>4. x - 1 \in T
  BY <1>3
<1>5. <<x - 1, x>> \in OpToRel(<, Nat)
  BY <1>2, <1>3 DEF OpToRel
<1> QED
  BY <1>1, <1>4, <1>5

(***************************************************************************)
(* The recursive function inside SumSeq exists: it is the function of the  *)
(* partial sums.                                                           *)
(***************************************************************************)
IsPartialSums(s, w) ==
    /\ s \in [0 .. Len(w) -> Nat]
    /\ \A i \in 0 .. Len(w) : s[i] = IF i = 0 THEN 0 ELSE s[i - 1] + w[i]

LEMMA PartialSumsUpTo ==
    ASSUME NEW w \in Seq(Nat)
    PROVE  \A n \in Nat : n <= Len(w) =>
              \E s \in [0 .. n -> Nat] :
                  \A i \in 0 .. n : s[i] = IF i = 0 THEN 0 ELSE s[i - 1] + w[i]
<1> DEFINE Good(n) == \E s \in [0 .. n -> Nat] :
                         \A i \in 0 .. n : s[i] = IF i = 0 THEN 0 ELSE s[i - 1] + w[i]
           S == {n \in Nat : n <= Len(w) => Good(n)}
<1>1. 0 \in S
  <2> DEFINE s == [i \in 0 .. 0 |-> 0]
  <2>1. s \in [0 .. 0 -> Nat] /\ \A i \in 0 .. 0 : s[i] = IF i = 0 THEN 0 ELSE s[i - 1] + w[i]
    OBVIOUS
  <2> QED
    BY <2>1
<1>2. \A n \in Nat : n \in S => n + 1 \in S
  <2> SUFFICES ASSUME NEW n \in Nat, n \in S, n + 1 <= Len(w)  PROVE Good(n + 1)
    <3> HIDE DEF Good
    <3> QED
      OBVIOUS
  <2>0. Good(n)
    <3> HIDE DEF Good
    <3> QED
      BY Len(w) \in Nat
  <2>1. PICK s \in [0 .. n -> Nat] :
           \A i \in 0 .. n : s[i] = IF i = 0 THEN 0 ELSE s[i - 1] + w[i]
    BY <2>0
  <2>2. w[n + 1] \in Nat
    OBVIOUS
  <2> DEFINE t == [i \in 0 .. n + 1 |-> IF i <= n THEN s[i] ELSE s[n] + w[n + 1]]
  <2>3. t \in [0 .. n + 1 -> Nat]
    BY <2>2
  <2>4. ASSUME NEW i \in 0 .. n + 1  PROVE t[i] = IF i = 0 THEN 0 ELSE t[i - 1] + w[i]
    <3>1. CASE i <= n
      BY <2>1, <3>1
    <3>2. CASE i = n + 1
      BY <3>2
    <3> QED
      BY <3>1, <3>2
  <2> QED
    BY <2>3, <2>4
<1> HIDE DEF S
<1>3. \A n \in Nat : n \in S
  BY <1>1, <1>2, NatInductionOnSets
<1> QED
  BY <1>3 DEF S

LEMMA SumIsLastPartialSum ==
    ASSUME NEW w \in Seq(Nat)
    PROVE  \E s : IsPartialSums(s, w) /\ SumSeq(w) = s[Len(w)]
<1> DEFINE Rec(g) == g = [i \in 0 .. Len(w) |-> IF i = 0 THEN 0 ELSE g[i - 1] + w[i]]
<1>1. Len(w) \in Nat
  OBVIOUS
<1>2. PICK s \in [0 .. Len(w) -> Nat] :
         \A i \in 0 .. Len(w) : s[i] = IF i = 0 THEN 0 ELSE s[i - 1] + w[i]
  <2>1. Len(w) <= Len(w)
    BY <1>1
  <2> QED
    BY <1>1, <2>1, PartialSumsUpTo, Zenon
<1>3. Rec(s)
  BY <1>2
<1> DEFINE sum == CHOOSE g : Rec(g)
<1>4. Rec(sum)
  BY <1>3, Zenon
<1>5. SumSeq(w) = sum[Len(w)]
  BY DEF SumSeq
<1> HIDE DEF sum
<1>6. \A i \in 0 .. Len(w) : sum[i] = IF i = 0 THEN 0 ELSE sum[i - 1] + w[i]
  BY <1>4
<1> DEFINE S == {n \in Nat : n <= Len(w) => sum[n] \in Nat}
<1>7. 0 \in S
  BY <1>1, <1>6
<1>8. \A n \in Nat : n \in S => n + 1 \in S
  <2> SUFFICES ASSUME NEW n \in Nat, n + 1 <= Len(w), sum[n] \in Nat  PROVE sum[n + 1] \in Nat
    BY <1>1
  <2>1. sum[n + 1] = sum[n] + w[n + 1]
    BY <1>1, <1>6
  <2>2. w[n + 1] \in Nat
    BY <1>1
  <2> QED
    BY <2>1, <2>2
<1>9. \A n \in 0 .. Len(w) : sum[n] \in Nat
  <2> HIDE DEF S
  <2>1. \A n \in Nat : n \in S
    BY <1>7, <1>8, NatInductionOnSets
  <2> QED
    BY <1>1, <2>1 DEF S
<1>10. IsPartialSums(sum, w)
  BY <1>4, <1>6, <1>9 DEF IsPartialSums
<1> QED
  BY <1>5, <1>10

(***************************************************************************)
(* The sum of no numbers is 0, and every sum is a natural number.          *)
(***************************************************************************)
LEMMA SumEmpty == SumSeq(<<>>) = 0
<1>1. <<>> \in Seq(Nat) /\ Len(<<>>) = 0
  OBVIOUS
<1>2. PICK s : IsPartialSums(s, <<>>) /\ SumSeq(<<>>) = s[Len(<<>>)]
  BY <1>1, SumIsLastPartialSum
<1>3. s[0] = 0
  BY <1>1, <1>2 DEF IsPartialSums
<1> QED
  BY <1>1, <1>2, <1>3

LEMMA SumType ==
    ASSUME NEW w \in Seq(Nat)
    PROVE  SumSeq(w) \in Nat
<1>1. Len(w) \in 0 .. Len(w)
  OBVIOUS
<1> QED
  BY <1>1, SumIsLastPartialSum DEF IsPartialSums

(***************************************************************************)
(* Larger elements have a larger sum.                                      *)
(***************************************************************************)
LEMMA SumMonotone ==
    ASSUME NEW v \in Seq(Nat), NEW w \in Seq(Nat), Len(v) = Len(w),
           \A i \in 1 .. Len(v) : v[i] <= w[i]
    PROVE  SumSeq(v) <= SumSeq(w)
<1>1. PICK s : IsPartialSums(s, v) /\ SumSeq(v) = s[Len(v)]
  BY SumIsLastPartialSum
<1>2. PICK t : IsPartialSums(t, w) /\ SumSeq(w) = t[Len(w)]
  BY SumIsLastPartialSum
<1> DEFINE S == {n \in Nat : n <= Len(v) => s[n] <= t[n]}
<1>3. Len(v) \in Nat
  OBVIOUS
<1>4. 0 \in S
  BY <1>1, <1>2, <1>3 DEF IsPartialSums
<1>5. \A n \in Nat : n \in S => n + 1 \in S
  <2> SUFFICES ASSUME NEW n \in Nat, n + 1 <= Len(v), s[n] <= t[n]  PROVE s[n + 1] <= t[n + 1]
    BY <1>3
  <2>1. s[n + 1] = s[n] + v[n + 1] /\ t[n + 1] = t[n] + w[n + 1]
    BY <1>1, <1>2, <1>3 DEF IsPartialSums
  <2>2. s[n] \in Nat /\ t[n] \in Nat
    <3>1. n \in 0 .. Len(v) /\ n \in 0 .. Len(w)
      BY <1>3
    <3>2. s \in [0 .. Len(v) -> Nat] /\ t \in [0 .. Len(w) -> Nat]
      BY <1>1, <1>2 DEF IsPartialSums
    <3> QED
      BY <3>1, <3>2
  <2>3. v[n + 1] \in Nat /\ w[n + 1] \in Nat /\ v[n + 1] <= w[n + 1]
    BY <1>3
  <2> QED
    BY <2>1, <2>2, <2>3
<1>6. Len(v) \in S
  <2> HIDE DEF S
  <2> QED
    BY <1>3, <1>4, <1>5, NatInductionOnSets
<1> QED
  BY <1>1, <1>2, <1>3, <1>6

(***************************************************************************)
(* One more element adds its value.                                        *)
(***************************************************************************)
LEMMA SumAppend ==
    ASSUME NEW w \in Seq(Nat), NEW x \in Nat
    PROVE  SumSeq(Append(w, x)) = SumSeq(w) + x
<1> DEFINE v == Append(w, x)
<1>0. /\ v \in Seq(Nat)
      /\ Len(w) \in Nat
      /\ Len(v) = Len(w) + 1
      /\ \A i \in 1 .. Len(w) : v[i] = w[i]
      /\ v[Len(w) + 1] = x
  OBVIOUS
<1> HIDE DEF v
<1>1. PICK s : IsPartialSums(s, w) /\ SumSeq(w) = s[Len(w)]
  BY SumIsLastPartialSum
<1>2. PICK t : IsPartialSums(t, v) /\ SumSeq(v) = t[Len(v)]
  BY <1>0, SumIsLastPartialSum
<1> DEFINE S == {n \in Nat : n <= Len(w) => s[n] = t[n]}
<1>3. 0 \in S
  BY <1>0, <1>1, <1>2 DEF IsPartialSums
<1>4. \A n \in Nat : n \in S => n + 1 \in S
  <2> SUFFICES ASSUME NEW n \in Nat, n + 1 <= Len(w), s[n] = t[n]  PROVE s[n + 1] = t[n + 1]
    BY <1>0
  <2>1. s[n + 1] = s[n] + w[n + 1] /\ t[n + 1] = t[n] + v[n + 1]
    <3>1. n + 1 \in 0 .. Len(w) /\ n + 1 \in 0 .. Len(v) /\ n + 1 # 0 /\ n + 1 - 1 = n
      BY <1>0
    <3>2. s[n + 1] = s[n] + w[n + 1]
      BY <1>1, <3>1 DEF IsPartialSums
    <3>3. t[n + 1] = t[n] + v[n + 1]
      BY <1>2, <3>1 DEF IsPartialSums
    <3> QED
      BY <3>2, <3>3
  <2>2. v[n + 1] = w[n + 1]
    BY <1>0
  <2> QED
    BY <2>1, <2>2
<1>5. Len(w) \in S
  <2> HIDE DEF S
  <2> QED
    BY <1>0, <1>3, <1>4, NatInductionOnSets
<1>6. t[Len(w) + 1] = t[Len(w)] + v[Len(w) + 1]
  BY <1>0, <1>2 DEF IsPartialSums
<1> QED
  BY <1>0, <1>1, <1>2, <1>5, <1>6 DEF v

-----------------------------------------------------------------------------
(* Folds *)

(***************************************************************************)
(* FoldLeft goes through the sets of indices and takes the largest off.    *)
(***************************************************************************)
LEMMA MaxOfInterval ==
    ASSUME NEW n \in Nat, NEW s \in SUBSET (1 .. n + 1), n + 1 \in s
    PROVE  Max(s) = n + 1
<1>1. \E x \in s : \A y \in s : x >= y
  OBVIOUS
<1>2. Max(s) \in s /\ \A y \in s : Max(s) >= y
  BY <1>1, Zenon DEF Max
<1>3. PICK m : m = Max(s)
  OBVIOUS
<1>4. m \in 1 .. n + 1 /\ m >= n + 1
  BY <1>2, <1>3
<1> QED
  BY <1>3, <1>4

(***************************************************************************)
(* The recursive function inside a fold whose step is the function F       *)
(* exists.                                                                 *)
(***************************************************************************)
IsFold(g, A, base, m, F) ==
    /\ g \in [SUBSET (1 .. m) -> A]
    /\ \A s \in SUBSET (1 .. m) :
           /\ s # {} => Max(s) \in s
           /\ g[s] = IF s = {} THEN base ELSE F[<<g[s \ {Max(s)}], Max(s)>>]

LEMMA FoldExists ==
    ASSUME NEW A, NEW base \in A, NEW m \in Nat, NEW F \in [A \X (1 .. m) -> A]
    PROVE  \E g : IsFold(g, A, base, m, F)
<1> DEFINE S == {n \in Nat : n <= m => \E g : IsFold(g, A, base, n, F)}
<1>1. 0 \in S
  <2> DEFINE g == [s \in SUBSET (1 .. 0) |-> base]
  <2>1. SUBSET (1 .. 0) = {{}}
    OBVIOUS
  <2>2. IsFold(g, A, base, 0, F)
    BY <2>1 DEF IsFold
  <2> HIDE DEF g
  <2> QED
    BY <2>2
<1>2. \A n \in Nat : n \in S => n + 1 \in S
  <2> SUFFICES ASSUME NEW n \in Nat, n + 1 <= m, \E g : IsFold(g, A, base, n, F)
               PROVE  \E h : IsFold(h, A, base, n + 1, F)
    OBVIOUS
  <2>1. PICK g : IsFold(g, A, base, n, F)
    OBVIOUS
  <2> DEFINE h == [s \in SUBSET (1 .. n + 1) |->
                      IF n + 1 \in s THEN F[<<g[s \ {n + 1}], n + 1>>] ELSE g[s]]
  <2>2. \A s \in SUBSET (1 .. n + 1) : s \ {n + 1} \in SUBSET (1 .. n)
    OBVIOUS
  <2>3. \A s \in SUBSET (1 .. n + 1) : n + 1 \notin s => s \in SUBSET (1 .. n)
    OBVIOUS
  <2>4. h \in [SUBSET (1 .. n + 1) -> A]
    <3> SUFFICES ASSUME NEW s \in SUBSET (1 .. n + 1)  PROVE h[s] \in A
      OBVIOUS
    <3>1. CASE n + 1 \in s
      <4>1. g[s \ {n + 1}] \in A
        BY <2>1, <2>2 DEF IsFold
      <4>2. <<g[s \ {n + 1}], n + 1>> \in A \X (1 .. m)
        BY <4>1
      <4> QED
        BY <3>1, <4>2
    <3>2. CASE n + 1 \notin s
      BY <2>1, <2>3, <3>2 DEF IsFold
    <3> QED
      BY <3>1, <3>2
  <2>5. ASSUME NEW s \in SUBSET (1 .. n + 1)
        PROVE  /\ s # {} => Max(s) \in s
               /\ h[s] = IF s = {} THEN base ELSE F[<<h[s \ {Max(s)}], Max(s)>>]
    <3>1. CASE n + 1 \in s
      <4>1. Max(s) = n + 1
        BY <3>1, MaxOfInterval
      <4>2. h[s \ {n + 1}] = g[s \ {n + 1}]
        BY <2>2
      <4> QED
        BY <3>1, <4>1, <4>2
    <3>2. CASE n + 1 \notin s
      <4>1. s \in SUBSET (1 .. n)
        BY <2>3, <3>2
      <4>2. /\ s # {} => Max(s) \in s
            /\ g[s] = IF s = {} THEN base ELSE F[<<g[s \ {Max(s)}], Max(s)>>]
        BY <2>1, <4>1 DEF IsFold
      <4>3. h[s] = g[s]
        BY <3>2
      <4>4. h[s \ {Max(s)}] = g[s \ {Max(s)}]
        BY <3>2, <4>1
      <4> QED
        BY <4>2, <4>3, <4>4
    <3> QED
      BY <3>1, <3>2
  <2> HIDE DEF h
  <2>6. IsFold(h, A, base, n + 1, F)
    BY <2>4, <2>5 DEF IsFold
  <2> QED
    BY <2>6
<1> HIDE DEF S
<1>3. m \in S
  BY <1>1, <1>2, NatInductionOnSets
<1> QED
  BY <1>3 DEF S

(***************************************************************************)
(* Any solution of the equation inside a fold gives the intermediate       *)
(* results of the loop: acc[i] is what the first i elements fold to.       *)
(***************************************************************************)
Unfolds(iter, A, base, m, F) ==
    /\ iter[{}] = base
    /\ \A s \in SUBSET (1 .. m) :
           s # {} /\ Max(s) \in 1 .. m /\ iter[s \ {Max(s)}] \in A
               => iter[s] = F[<<iter[s \ {Max(s)}], Max(s)>>]

IsLoop(acc, iter, A, base, m, F) ==
    /\ acc \in [0 .. m -> A] /\ acc[m] = iter[1 .. m]
    /\ acc[0] = base
    /\ \A i \in 1 .. m : acc[i - 1] \in A /\ acc[i] = F[<<acc[i - 1], i>>]

LEMMA FoldIsLoop ==
    ASSUME NEW A, NEW base \in A, NEW m \in Nat, NEW F \in [A \X (1 .. m) -> A], NEW iter,
           Unfolds(iter, A, base, m, F)
    PROVE  \E acc : IsLoop(acc, iter, A, base, m, F)
<1> DEFINE S == {n \in Nat : n <= m => iter[1 .. n] \in A}
           acc == [i \in 0 .. m |-> iter[1 .. i]]
<1>1. 1 .. 0 = {}
  OBVIOUS
<1>2. ASSUME NEW i \in 1 .. m, iter[1 .. (i - 1)] \in A
      PROVE  /\ iter[1 .. i] = F[<<iter[1 .. (i - 1)], i>>]
             /\ iter[1 .. i] \in A
  <2>1. 1 .. i \in SUBSET (1 .. m) /\ 1 .. i # {} /\ (1 .. i) \ {i} = 1 .. (i - 1)
    <3>1. 1 .. i \in SUBSET (1 .. m)
      OBVIOUS
    <3>2. i \in 1 .. i
      OBVIOUS
    <3>3. \A x : x \in (1 .. i) \ {i} <=> x \in 1 .. (i - 1)
      OBVIOUS
    <3> QED
      BY <3>1, <3>2, <3>3
  <2>2. Max(1 .. i) = i
    <3>1. i - 1 \in Nat /\ i - 1 + 1 = i
      OBVIOUS
    <3>2. i - 1 + 1 \in 1 .. i /\ 1 .. i \in SUBSET (1 .. (i - 1 + 1))
      BY <3>1
    <3>3. Max(1 .. i) = i - 1 + 1
      BY <3>1, <3>2, MaxOfInterval
    <3> QED
      BY <3>1, <3>3
  <2>3. iter[1 .. i] = F[<<iter[1 .. (i - 1)], i>>]
    BY <1>2, <2>1, <2>2 DEF Unfolds
  <2> QED
    BY <1>2, <2>3
<1>3. \A n \in Nat : n \in S
  <2>1. 0 \in S
    BY <1>1 DEF Unfolds
  <2>2. \A n \in Nat : n \in S => n + 1 \in S
    <3> SUFFICES ASSUME NEW n \in Nat, n + 1 <= m, iter[1 .. n] \in A  PROVE iter[1 .. n + 1] \in A
      OBVIOUS
    <3> DEFINE i == n + 1
    <3>1. i \in 1 .. m /\ i - 1 = n
      OBVIOUS
    <3> HIDE DEF i
    <3>2. iter[1 .. i] \in A
      BY <1>2, <3>1
    <3> QED
      BY <3>2 DEF i
  <2> HIDE DEF S
  <2> QED
    BY <2>1, <2>2, NatInductionOnSets
<1>4. \A n \in 0 .. m : iter[1 .. n] \in A
  BY <1>3
<1>5. \A i \in 1 .. m : i \in 0 .. m /\ i - 1 \in 0 .. m
  OBVIOUS
<1>6. IsLoop(acc, iter, A, base, m, F)
  BY <1>1, <1>2, <1>4, <1>5 DEF IsLoop, Unfolds
<1> HIDE DEF acc
<1> QED
  BY <1>6
=============================================================================
