---------------------------- MODULE CodecProofs -----------------------------
(***************************************************************************)
(* The properties of Codec hold for every width of the integers, addresses *)
(* and words, for calldata and texts of any length, and for whatever       *)
(* symbols the wires are damaged with.  From the bottom up:                *)
(*   - a sequence that was put together is cut apart again, at one place   *)
(*     and at several;                                                     *)
(*   - a sealed plaintext is opened from its own blob and no other;        *)
(*   - a transfer, a word, a pair of digits, a text and a quantity is read *)
(*     from what was written of it, and what is read is what is written;   *)
(*   - one item of RLP is read off the front of a buffer as what Header    *)
(*     and Item write, in each of the forms of a header, and conversely;   *)
(*   - the twelve items of a body make a chain, each in front of the rest, *)
(*     whether it was written or read;                                     *)
(*   - the inductive invariant says what may lie on the wire: the bytes    *)
(*     that were written, or any bytes; a text in which no character is    *)
(*     continued that has not begun.                                       *)
(***************************************************************************)
EXTENDS Codec, SumsProofs

-----------------------------------------------------------------------------
(* Parts of sequences *)

\* A sequence put together from two is cut apart into them.
LEMMA CutApart ==
    ASSUME NEW S, NEW s \in Seq(S), NEW t \in Seq(S)
    PROVE  /\ s \o t \in Seq(S) /\ Len(s \o t) = Len(s) + Len(t)
           /\ SubSeq(s \o t, 1, Len(s)) = s
           /\ SubSeq(s \o t, Len(s) + 1, Len(s) + Len(t)) = t
<1> DEFINE w == s \o t
           m == Len(s)
           n == Len(t)
<1>1. /\ m \in Nat /\ n \in Nat /\ w \in Seq(S) /\ Len(w) = m + n
      /\ \A i \in 1 .. m + n : w[i] = IF i <= m THEN s[i] ELSE t[i - m]
  BY ConcatProperties
<1> HIDE DEF w
<1>2. \A i \in 1 .. m + n : w[i] \in S
  BY <1>1, ElementOfSeq
<1>3. SubSeq(w, 1, m) = s
  <2>1. \A i \in 1 .. m : w[i] \in S
    BY <1>1, <1>2
  <2>2. /\ SubSeq(w, 1, m) \in Seq(S) /\ Len(SubSeq(w, 1, m)) = m
        /\ \A i \in 1 .. m : SubSeq(w, 1, m)[i] = w[i]
    BY <1>1, <2>1, SubSeqProperties
  <2> DEFINE u == SubSeq(w, 1, m)
  <2> HIDE DEF u
  <2>3. u \in Seq(S) /\ Len(u) = Len(s) /\ \A i \in 1 .. Len(u) : u[i] = s[i]
    BY <1>1, <2>2 DEF u
  <2>4. u = s
    BY <2>3, SeqEqual
  <2> QED
    BY <2>4 DEF u
<1>4. SubSeq(w, m + 1, m + n) = t
  <2>1. \A i \in m + 1 .. m + n : w[i] \in S
    BY <1>1, <1>2
  <2>2. /\ SubSeq(w, m + 1, m + n) \in Seq(S) /\ Len(SubSeq(w, m + 1, m + n)) = n
        /\ \A i \in 1 .. n : SubSeq(w, m + 1, m + n)[i] = w[m + i]
    <3> DEFINE a == m + 1
               b == m + n
    <3>0. a = m + 1 /\ b = m + n
      OBVIOUS
    <3>1. a \in Int /\ b \in Int /\ \A i \in a .. b : w[i] \in S
      BY <1>1, <2>1
    <3>2. b - a + 1 = n /\ (IF a <= b THEN b - a + 1 ELSE 0) = n /\ \A i \in 1 .. n : a + i - 1 = m + i
      BY <1>1
    <3> HIDE DEF a, b
    <3>3. /\ SubSeq(w, a, b) \in Seq(S) /\ Len(SubSeq(w, a, b)) = IF a <= b THEN b - a + 1 ELSE 0
          /\ \A i \in 1 .. b - a + 1 : SubSeq(w, a, b)[i] = w[a + i - 1]
      BY <3>1, SubSeqProperties
    <3>4. /\ SubSeq(w, a, b) \in Seq(S) /\ Len(SubSeq(w, a, b)) = n
          /\ \A i \in 1 .. n : SubSeq(w, a, b)[i] = w[m + i]
      BY <3>2, <3>3
    <3> QED
      BY <3>0, <3>4
  <2> DEFINE u == SubSeq(w, m + 1, m + n)
  <2> HIDE DEF u
  <2>5. ASSUME NEW i \in 1 .. n  PROVE w[m + i] = t[i]
    <3> DEFINE j == m + i
    <3>1. j \in 1 .. m + n /\ ~(j <= m) /\ j - m = i
      BY <1>1
    <3> HIDE DEF j
    <3>2. w[j] = t[j - m]
      BY <1>1, <3>1
    <3> QED
      BY <3>1, <3>2 DEF j
  <2>3. u \in Seq(S) /\ Len(u) = Len(t) /\ \A i \in 1 .. Len(u) : u[i] = t[i]
    BY <2>2, <2>5 DEF u
  <2>4. u = t
    BY <2>3, SeqEqual
  <2> QED
    BY <2>4 DEF u
<1> QED
  BY <1>1, <1>3, <1>4 DEF w

AreTwoParts(s, t, u) ==
    Len(s) = Len(t) + Len(u) /\ SubSeq(s, 1, Len(t)) = t /\ SubSeq(s, Len(t) + 1, Len(t) + Len(u)) = u

\* The length of two parts together
LEMMA TwoParts ==
    ASSUME NEW S, NEW s \in Seq(S), NEW t \in Seq(S)
    PROVE  s \o t \in Seq(S) /\ AreTwoParts(s \o t, s, t)
  BY CutApart DEF AreTwoParts

\* A sequence is put together from any two parts it is cut into.
LEMMA PutTogether ==
    ASSUME NEW S, NEW s \in Seq(S), NEW n \in 0 .. Len(s)
    PROVE  /\ SubSeq(s, 1, n) \in Seq(S) /\ Len(SubSeq(s, 1, n)) = n
           /\ SubSeq(s, n + 1, Len(s)) \in Seq(S) /\ Len(SubSeq(s, n + 1, Len(s))) = Len(s) - n
           /\ s = SubSeq(s, 1, n) \o SubSeq(s, n + 1, Len(s))
<1>1. Len(s) \in Nat /\ \A i \in 1 .. Len(s) : s[i] \in S
  BY LenProperties, ElementOfSeq
<1>2. SubSeq(s, 1, n) \in Seq(S) /\ Len(SubSeq(s, 1, n)) = n
  BY <1>1, SubSeqProperties
<1>3. SubSeq(s, n + 1, Len(s)) \in Seq(S) /\ Len(SubSeq(s, n + 1, Len(s))) = Len(s) - n
  <2> DEFINE a == n + 1
             b == Len(s)
  <2>0. a = n + 1 /\ b = Len(s)
    OBVIOUS
  <2>1. a \in Int /\ b \in Int /\ \A i \in a .. b : s[i] \in S
    BY <1>1
  <2>2. (IF a <= b THEN b - a + 1 ELSE 0) = Len(s) - n
    BY <1>1
  <2> HIDE DEF a, b
  <2>3. SubSeq(s, a, b) \in Seq(S) /\ Len(SubSeq(s, a, b)) = IF a <= b THEN b - a + 1 ELSE 0
    BY <2>1, SubSeqProperties
  <2>4. SubSeq(s, a, b) \in Seq(S) /\ Len(SubSeq(s, a, b)) = Len(s) - n
    BY <2>2, <2>3
  <2> QED
    BY <2>0, <2>4
<1>4. SubSeq(s, 1, n) \o SubSeq(s, n + 1, Len(s)) = SubSeq(s, 1, Len(s))
  <2>1. 1 \in 1 .. Len(s) + 1 /\ n \in 1 - 1 .. Len(s) /\ Len(s) \in n .. Len(s)
    BY <1>1
  <2> QED
    BY <2>1, ConcatAdjacentSubSeq
<1>5. SubSeq(s, 1, Len(s)) = s
  BY SubSeqFull
<1> QED
  BY <1>2, <1>3, <1>4, <1>5

\* Cut at one place, equal sequences have equal parts.
LEMMA EqualParts ==
    ASSUME NEW S, NEW s \in Seq(S), NEW t \in Seq(S), NEW u \in Seq(S), NEW v \in Seq(S),
           Len(s) = Len(u), s \o t = u \o v
    PROVE  s = u /\ t = v
<1>1. \A a, b \in Seq(S) :
          /\ SubSeq(a \o b, 1, Len(a)) = a
          /\ SubSeq(a \o b, Len(a) + 1, Len(a) + Len(b)) = b
          /\ Len(a \o b) = Len(a) + Len(b)
  BY CutApart
<1>2. SubSeq(s \o t, 1, Len(s)) = s /\ SubSeq(u \o v, 1, Len(u)) = u
  BY <1>1
<1>3. /\ SubSeq(s \o t, Len(s) + 1, Len(s) + Len(t)) = t
      /\ SubSeq(u \o v, Len(u) + 1, Len(u) + Len(v)) = v
  BY <1>1
<1>4. Len(s) + Len(t) = Len(u) + Len(v)
  BY <1>1
<1> QED
  BY <1>2, <1>3, <1>4

\* A function on 1 .. n is a sequence of n elements.
LEMMA FunctionIsSeq ==
    ASSUME NEW S, NEW n \in Nat, NEW f \in [1 .. n -> S]
    PROVE  f \in Seq(S) /\ Len(f) = n
  OBVIOUS

\* A sequence is a function on its positions.
LEMMA SeqIsFunction ==
    ASSUME NEW S, NEW s \in Seq(S)
    PROVE  s \in [1 .. Len(s) -> S] /\ Len(s) \in Nat
  OBVIOUS

LEMMA Singleton ==
    ASSUME NEW S, NEW b \in S
    PROVE  <<b>> \in Seq(S) /\ Len(<<b>>) = 1 /\ <<b>>[1] = b
  OBVIOUS

\* The first element and the others
LEMMA FirstAndRest ==
    ASSUME NEW S, NEW b \in S, NEW t \in Seq(S)
    PROVE  /\ <<b>> \o t \in Seq(S) /\ Len(<<b>> \o t) = 1 + Len(t)
           /\ <<b>> \o t # <<>> /\ (<<b>> \o t)[1] = b /\ Tail(<<b>> \o t) = t
<1> DEFINE w == <<b>> \o t
<1>1. <<b>> \in Seq(S) /\ Len(<<b>>) = 1 /\ <<b>>[1] = b
  BY Singleton
<1>2. /\ w \in Seq(S) /\ Len(w) = 1 + Len(t) /\ Len(t) \in Nat
      /\ \A i \in 1 .. 1 + Len(t) : w[i] = IF i <= 1 THEN <<b>>[i] ELSE t[i - 1]
  BY <1>1, ConcatProperties, LenProperties
<1> HIDE DEF w
<1>3. w # <<>> /\ w[1] = b
  BY <1>1, <1>2
<1>4. Tail(w) = t
  <2>1. /\ Tail(w) \in Seq(S) /\ Len(Tail(w)) = Len(t)
        /\ \A i \in 1 .. Len(Tail(w)) : Tail(w)[i] = w[i + 1]
    BY <1>2, <1>3, HeadTailProperties
  <2> DEFINE u == Tail(w)
  <2> HIDE DEF u
  <2>2. u \in Seq(S) /\ Len(u) = Len(t) /\ \A i \in 1 .. Len(u) : u[i] = t[i]
    BY <1>2, <2>1 DEF u
  <2>3. u = t
    BY <2>2, SeqEqual
  <2> QED
    BY <2>3 DEF u
<1> QED
  BY <1>2, <1>3, <1>4 DEF w

\* Taking the first element off
LEMMA FirstOff ==
    ASSUME NEW S, NEW s \in Seq(S), s # <<>>
    PROVE  s[1] \in S /\ Tail(s) \in Seq(S) /\ s = <<s[1]>> \o Tail(s) /\ Len(s) = 1 + Len(Tail(s))
<1>1. Len(s) \in Nat /\ Len(s) # 0
  OBVIOUS
<1>2. s[1] \in S /\ Tail(s) \in Seq(S) /\ Len(Tail(s)) = Len(s) - 1
      /\ \A i \in 1 .. Len(Tail(s)) : Tail(s)[i] = s[i + 1]
  BY <1>1, HeadTailProperties
<1> DEFINE u == <<s[1]>> \o Tail(s)
<1>3. <<s[1]>> \in Seq(S) /\ Len(<<s[1]>>) = 1 /\ <<s[1]>>[1] = s[1]
  BY <1>2, Singleton
<1>4. /\ u \in Seq(S) /\ Len(u) = Len(s)
      /\ \A i \in 1 .. Len(s) : u[i] = IF i <= 1 THEN <<s[1]>>[i] ELSE Tail(s)[i - 1]
  BY <1>1, <1>2, <1>3, ConcatProperties
<1> HIDE DEF u
<1>5. \A i \in 1 .. Len(s) : u[i] = s[i]
  <2> SUFFICES ASSUME NEW i \in 1 .. Len(s)  PROVE u[i] = s[i]
    OBVIOUS
  <2>1. CASE i = 1
    BY <1>3, <1>4, <2>1
  <2>2. CASE i # 1
    <3>1. i - 1 \in 1 .. Len(Tail(s)) /\ i - 1 + 1 = i
      BY <1>1, <1>2, <2>2
    <3> QED
      BY <1>2, <1>4, <2>2, <3>1
  <2> QED
    BY <2>1, <2>2
<1>6. u = s
  BY <1>4, <1>5, SeqEqual
<1> QED
  BY <1>1, <1>2, <1>6 DEF u

\* Zeros are bytes.
LEMMA ZerosType ==
    ASSUME NEW n \in Nat
    PROVE  /\ Zeros(n) \in Seq(Byte) /\ Zeros(n) \in Seq(Nat) /\ Len(Zeros(n)) = n
           /\ Zeros(n) \in [1 .. n -> Byte] /\ \A i \in 1 .. n : Zeros(n)[i] = 0
<1>1. Zeros(n) \in [1 .. n -> Byte] /\ \A i \in 1 .. n : Zeros(n)[i] = 0
  BY DEF Zeros, Byte
<1>2. Zeros(n) \in [1 .. n -> Nat]
  BY DEF Zeros
<1> QED
  BY <1>1, <1>2, FunctionIsSeq

LEMMA Widths ==
    /\ U64 \in 1 .. 55 /\ U128 \in 1 .. 55 /\ AddressLen \in 1 .. 55
    /\ Word = 2 * U128 /\ Word \in Nat /\ AddressLen <= Word
  BY WidthAssumption, AddressAssumption

\* Two zeros are not told apart from two others.
LEMMA TextsAreNotBytes == Byte \subseteq Nat
  BY DEF Byte
-----------------------------------------------------------------------------
(* Cutting at several places *)

\* A stretch of a sequence, element by element
LEMMA Piece ==
    ASSUME NEW S, NEW s \in Seq(S), NEW a \in Nat, NEW b \in Nat, a <= b, b <= Len(s)
    PROVE  SubSeq(s, a + 1, b) \in Seq(S) /\ Len(SubSeq(s, a + 1, b)) = b - a
<1>1. Len(s) \in Nat /\ \A i \in 1 .. Len(s) : s[i] \in S
  BY LenProperties, ElementOfSeq
<1> DEFINE c == a + 1
<1>2. c \in Int /\ b \in Int /\ \A i \in c .. b : s[i] \in S
  BY <1>1
<1>3. (IF c <= b THEN b - c + 1 ELSE 0) = b - a
  OBVIOUS
<1> HIDE DEF c
<1>4. SubSeq(s, c, b) \in Seq(S) /\ Len(SubSeq(s, c, b)) = IF c <= b THEN b - c + 1 ELSE 0
  BY <1>2, SubSeqProperties
<1>5. SubSeq(s, c, b) \in Seq(S) /\ Len(SubSeq(s, c, b)) = b - a
  BY <1>3, <1>4
<1> QED
  BY <1>5 DEF c

\* Two adjacent stretches make one.
LEMMA Adjacent ==
    ASSUME NEW S, NEW s \in Seq(S), NEW a \in Nat, NEW b \in Nat, a <= b, b <= Len(s)
    PROVE  /\ SubSeq(s, 1, a) \in Seq(S) /\ Len(SubSeq(s, 1, a)) = a
           /\ SubSeq(s, a + 1, b) \in Seq(S) /\ Len(SubSeq(s, a + 1, b)) = b - a
           /\ SubSeq(s, 1, b) = SubSeq(s, 1, a) \o SubSeq(s, a + 1, b)
<1>1. Len(s) \in Nat
  BY LenProperties
<1>2. 1 \in 1 .. Len(s) + 1 /\ a \in 1 - 1 .. Len(s) /\ b \in a .. Len(s) /\ a \in 0 .. Len(s)
  BY <1>1
<1>3. SubSeq(s, 1, a) \o SubSeq(s, a + 1, b) = SubSeq(s, 1, b)
  BY <1>2, ConcatAdjacentSubSeq
<1>4. SubSeq(s, 1, a) \in Seq(S) /\ Len(SubSeq(s, 1, a)) = a
  BY <1>2, PutTogether
<1> QED
  BY <1>3, <1>4, Piece

CutInFour(s, a, b, c, n) ==
    SubSeq(s, 1, n) =
        SubSeq(s, 1, a) \o SubSeq(s, a + 1, b) \o SubSeq(s, b + 1, c) \o SubSeq(s, c + 1, n)

\* A sequence that is cut at three places is put together from its four pieces.
LEMMA FourPieces ==
    ASSUME NEW S, NEW s \in Seq(S), NEW a \in Nat, NEW b \in Nat, NEW c \in Nat, NEW n \in Nat,
           a <= b, b <= c, c <= n, n <= Len(s)
    PROVE  CutInFour(s, a, b, c, n)
<1>0. b <= Len(s) /\ c <= Len(s)
  BY LenProperties
<1>2. SubSeq(s, 1, b) = SubSeq(s, 1, a) \o SubSeq(s, a + 1, b)
  BY <1>0, Adjacent
<1>3. SubSeq(s, 1, c) = SubSeq(s, 1, b) \o SubSeq(s, b + 1, c)
  BY <1>0, Adjacent
<1>4. SubSeq(s, 1, n) = SubSeq(s, 1, c) \o SubSeq(s, c + 1, n)
  BY <1>0, Adjacent
<1> QED
  BY <1>2, <1>3, <1>4 DEF CutInFour

CutInFive(s, a, b, c, d, n) ==
    SubSeq(s, 1, n) =
        SubSeq(s, 1, a) \o SubSeq(s, a + 1, b) \o SubSeq(s, b + 1, c) \o SubSeq(s, c + 1, d)
            \o SubSeq(s, d + 1, n)

\* ... and one that is cut at four places
LEMMA FivePieces ==
    ASSUME NEW S, NEW s \in Seq(S), NEW a \in Nat, NEW b \in Nat, NEW c \in Nat, NEW d \in Nat, NEW n \in Nat,
           a <= b, b <= c, c <= d, d <= n, n <= Len(s)
    PROVE  CutInFive(s, a, b, c, d, n)
<1>0. b <= Len(s) /\ c <= Len(s)
  BY LenProperties
<1>2. SubSeq(s, 1, b) = SubSeq(s, 1, a) \o SubSeq(s, a + 1, b)
  BY <1>0, Adjacent
<1>3. SubSeq(s, 1, c) = SubSeq(s, 1, b) \o SubSeq(s, b + 1, c)
  BY <1>0, Adjacent
<1>4. SubSeq(s, 1, d) = SubSeq(s, 1, c) \o SubSeq(s, c + 1, d)
  BY <1>0, Adjacent
<1>5. SubSeq(s, 1, n) = SubSeq(s, 1, d) \o SubSeq(s, d + 1, n)
  BY <1>0, Adjacent
<1> QED
  BY <1>2, <1>3, <1>4, <1>5 DEF CutInFive

AreFourParts(s, t, u, v, w) ==
    LET a == Len(t)
        b == a + Len(u)
        c == b + Len(v)
    IN  /\ Len(s) = c + Len(w)
        /\ SubSeq(s, 1, a) = t /\ SubSeq(s, a + 1, b) = u
        /\ SubSeq(s, b + 1, c) = v /\ SubSeq(s, c + 1, Len(s)) = w

AreFiveParts(s, t, u, v, w, x) ==
    LET a == Len(t)
        b == a + Len(u)
        c == b + Len(v)
        d == c + Len(w)
    IN  /\ Len(s) = d + Len(x)
        /\ SubSeq(s, 1, a) = t /\ SubSeq(s, a + 1, b) = u
        /\ SubSeq(s, b + 1, c) = v /\ SubSeq(s, c + 1, d) = w
        /\ SubSeq(s, d + 1, Len(s)) = x

\* What is put together from four parts
LEMMA FourParts ==
    ASSUME NEW S, NEW t \in Seq(S), NEW u \in Seq(S), NEW v \in Seq(S), NEW w \in Seq(S)
    PROVE  t \o u \o v \o w \in Seq(S) /\ AreFourParts(t \o u \o v \o w, t, u, v, w)
<1> DEFINE s == t \o u \o v \o w
           a == Len(t)
           b == a + Len(u)
           c == b + Len(v)
<1>1. a \in Nat /\ Len(u) \in Nat /\ Len(v) \in Nat /\ Len(w) \in Nat
  BY LenProperties
<1>2. t \o u \in Seq(S) /\ Len(t \o u) = b
  BY CutApart
<1>3. t \o u \o v \in Seq(S) /\ Len(t \o u \o v) = c
  BY <1>2, CutApart
<1>4. s \in Seq(S) /\ Len(s) = c + Len(w)
  BY <1>3, CutApart
<1>5. b \in Nat /\ c \in Nat /\ a <= b /\ b <= c /\ c <= Len(s) /\ Len(s) \in Nat /\ b <= Len(s)
  BY <1>1, <1>4
<1> DEFINE A == SubSeq(s, 1, a)
           B == SubSeq(s, a + 1, b)
           C == SubSeq(s, b + 1, c)
           D == SubSeq(s, c + 1, Len(s))
<1>6. s = A \o B \o C \o D
  <2> DEFINE n == Len(s)
  <2>1. n \in Nat /\ c <= n /\ n <= Len(s)
    BY <1>5
  <2>2. SubSeq(s, 1, n) = s
    BY <1>4, SubSeqFull
  <2> HIDE DEF n, s, a, b, c
  <2>3. CutInFour(s, a, b, c, n)
    BY <1>1, <1>4, <1>5, <2>1, FourPieces
  <2>4. SubSeq(s, 1, n) = A \o B \o C \o SubSeq(s, c + 1, n)
    BY <2>3 DEF CutInFour
  <2> QED
    BY <2>2, <2>4 DEF n
<1>7. /\ A \in Seq(S) /\ Len(A) = a /\ B \in Seq(S) /\ Len(B) = b - a
      /\ C \in Seq(S) /\ Len(C) = c - b /\ D \in Seq(S) /\ Len(D) = Len(s) - c
  <2> HIDE DEF s, a, b, c
  <2>1. A \in Seq(S) /\ Len(A) = a /\ B \in Seq(S) /\ Len(B) = b - a
    BY <1>1, <1>4, <1>5, Adjacent
  <2>2. C \in Seq(S) /\ Len(C) = c - b
    BY <1>1, <1>4, <1>5, Piece
  <2>3. D \in Seq(S) /\ Len(D) = Len(s) - c
    BY <1>1, <1>4, <1>5, Piece
  <2> QED
    BY <2>1, <2>2, <2>3
<1>8. b - a = Len(u) /\ c - b = Len(v) /\ Len(s) - c = Len(w)
  BY <1>1, <1>4
<1>9. s = (t \o u \o v) \o w
  OBVIOUS
<1>10. a = Len(t)
  OBVIOUS
<1> HIDE DEF A, B, C, D, s, a, b, c
<1>11. A \o B \in Seq(S) /\ Len(A \o B) = b /\ A \o B \o C \in Seq(S) /\ Len(A \o B \o C) = c
  <2>1. A \o B \in Seq(S) /\ Len(A \o B) = Len(A) + Len(B)
    BY <1>7, CutApart
  <2>2. A \o B \o C \in Seq(S) /\ Len(A \o B \o C) = Len(A \o B) + Len(C)
    BY <1>7, <2>1, CutApart
  <2> QED
    BY <2>1, <2>2, <1>1, <1>5, <1>7
<1>12. A \o B \o C = t \o u \o v /\ D = w
  <2> DEFINE p == A \o B \o C
             q == t \o u \o v
  <2>1. p \in Seq(S) /\ q \in Seq(S) /\ Len(p) = Len(q) /\ p \o D = q \o w
    BY <1>3, <1>6, <1>7, <1>9, <1>11
  <2>2. D \in Seq(S)
    BY <1>7
  <2> HIDE DEF p, q
  <2>3. p = q /\ D = w
    BY <2>1, <2>2, EqualParts
  <2> QED
    BY <2>3 DEF p, q
<1>13. A \o B = t \o u /\ C = v
  <2> DEFINE p == A \o B
             q == t \o u
  <2>1. p \in Seq(S) /\ q \in Seq(S) /\ Len(p) = Len(q) /\ p \o C = q \o v
    BY <1>2, <1>7, <1>11, <1>12
  <2>2. C \in Seq(S)
    BY <1>7
  <2> HIDE DEF p, q
  <2>3. p = q /\ C = v
    BY <2>1, <2>2, EqualParts
  <2> QED
    BY <2>3 DEF p, q
<1>14. A = t /\ B = u
  <2>1. Len(A) = Len(t) /\ A \o B = t \o u
    BY <1>7, <1>10, <1>13
  <2> QED
    BY <1>7, <2>1, EqualParts
<1> QED
  BY <1>4, <1>12, <1>13, <1>14 DEF A, B, C, D, s, a, b, c, AreFourParts

\* ... and from five
LEMMA FiveParts ==
    ASSUME NEW S, NEW t \in Seq(S), NEW u \in Seq(S), NEW v \in Seq(S), NEW w \in Seq(S),
           NEW x \in Seq(S)
    PROVE  /\ t \o u \o v \o w \o x \in Seq(S)
           /\ AreFiveParts(t \o u \o v \o w \o x, t, u, v, w, x)
<1> DEFINE s == t \o u \o v \o w \o x
           a == Len(t)
           b == a + Len(u)
           c == b + Len(v)
           d == c + Len(w)
<1>1. a \in Nat /\ Len(u) \in Nat /\ Len(v) \in Nat /\ Len(w) \in Nat /\ Len(x) \in Nat
  BY LenProperties
<1>2. t \o u \in Seq(S) /\ Len(t \o u) = b
  BY CutApart
<1>3. t \o u \o v \in Seq(S) /\ Len(t \o u \o v) = c
  BY <1>2, CutApart
<1>3a. t \o u \o v \o w \in Seq(S) /\ Len(t \o u \o v \o w) = d
  BY <1>3, CutApart
<1>4. s \in Seq(S) /\ Len(s) = d + Len(x)
  BY <1>3a, CutApart
<1>5. /\ b \in Nat /\ c \in Nat /\ d \in Nat /\ Len(s) \in Nat
      /\ a <= b /\ b <= c /\ c <= d /\ d <= Len(s) /\ c <= Len(s) /\ b <= Len(s)
  BY <1>1, <1>4
<1> DEFINE A == SubSeq(s, 1, a)
           B == SubSeq(s, a + 1, b)
           C == SubSeq(s, b + 1, c)
           D == SubSeq(s, c + 1, d)
           E == SubSeq(s, d + 1, Len(s))
<1>6. s = A \o B \o C \o D \o E
  <2> DEFINE n == Len(s)
  <2>1. n \in Nat /\ d <= n /\ n <= Len(s)
    BY <1>5
  <2>2. SubSeq(s, 1, n) = s
    BY <1>4, SubSeqFull
  <2> HIDE DEF n, s, a, b, c, d
  <2>3. CutInFive(s, a, b, c, d, n)
    BY <1>1, <1>4, <1>5, <2>1, FivePieces
  <2>4. SubSeq(s, 1, n) = A \o B \o C \o D \o SubSeq(s, d + 1, n)
    BY <2>3 DEF CutInFive
  <2> QED
    BY <2>2, <2>4 DEF n
<1>7. /\ A \in Seq(S) /\ Len(A) = a /\ B \in Seq(S) /\ Len(B) = b - a
      /\ C \in Seq(S) /\ Len(C) = c - b /\ D \in Seq(S) /\ Len(D) = d - c
      /\ E \in Seq(S) /\ Len(E) = Len(s) - d
  <2> HIDE DEF s, a, b, c, d
  <2>1. A \in Seq(S) /\ Len(A) = a /\ B \in Seq(S) /\ Len(B) = b - a
    BY <1>1, <1>4, <1>5, Adjacent
  <2>2. C \in Seq(S) /\ Len(C) = c - b
    BY <1>1, <1>4, <1>5, Piece
  <2>3. D \in Seq(S) /\ Len(D) = d - c
    BY <1>1, <1>4, <1>5, Piece
  <2>4. E \in Seq(S) /\ Len(E) = Len(s) - d
    BY <1>1, <1>4, <1>5, Piece
  <2> QED
    BY <2>1, <2>2, <2>3, <2>4
<1>8. b - a = Len(u) /\ c - b = Len(v) /\ d - c = Len(w) /\ Len(s) - d = Len(x)
  BY <1>1, <1>4
<1>9. s = (t \o u \o v \o w) \o x
  OBVIOUS
<1>10. a = Len(t)
  OBVIOUS
<1> HIDE DEF A, B, C, D, E, s, a, b, c, d, AreFiveParts
<1>11. /\ A \o B \in Seq(S) /\ Len(A \o B) = b /\ A \o B \o C \in Seq(S) /\ Len(A \o B \o C) = c
       /\ A \o B \o C \o D \in Seq(S) /\ Len(A \o B \o C \o D) = d
  <2>1. A \o B \in Seq(S) /\ Len(A \o B) = Len(A) + Len(B)
    BY <1>7, CutApart
  <2>2. A \o B \o C \in Seq(S) /\ Len(A \o B \o C) = Len(A \o B) + Len(C)
    BY <1>7, <2>1, CutApart
  <2>3. A \o B \o C \o D \in Seq(S) /\ Len(A \o B \o C \o D) = Len(A \o B \o C) + Len(D)
    BY <1>7, <2>2, CutApart
  <2> QED
    BY <2>1, <2>2, <2>3, <1>1, <1>5, <1>7
<1>12. A \o B \o C \o D = t \o u \o v \o w /\ E = x
  <2> DEFINE p == A \o B \o C \o D
             q == t \o u \o v \o w
  <2>1. p \in Seq(S) /\ q \in Seq(S) /\ Len(p) = Len(q) /\ p \o E = q \o x
    BY <1>3a, <1>6, <1>7, <1>9, <1>11
  <2>2. E \in Seq(S)
    BY <1>7
  <2> HIDE DEF p, q
  <2>3. p = q /\ E = x
    BY <2>1, <2>2, EqualParts
  <2> QED
    BY <2>3 DEF p, q
<1>12a. A \o B \o C = t \o u \o v /\ D = w
  <2> DEFINE p == A \o B \o C
             q == t \o u \o v
  <2>1. p \in Seq(S) /\ q \in Seq(S) /\ Len(p) = Len(q) /\ p \o D = q \o w
    BY <1>3, <1>7, <1>11, <1>12
  <2>2. D \in Seq(S)
    BY <1>7
  <2> HIDE DEF p, q
  <2>3. p = q /\ D = w
    BY <2>1, <2>2, EqualParts
  <2> QED
    BY <2>3 DEF p, q
<1>13. A \o B = t \o u /\ C = v
  <2> DEFINE p == A \o B
             q == t \o u
  <2>1. p \in Seq(S) /\ q \in Seq(S) /\ Len(p) = Len(q) /\ p \o C = q \o v
    BY <1>2, <1>7, <1>11, <1>12a
  <2>2. C \in Seq(S)
    BY <1>7
  <2> HIDE DEF p, q
  <2>3. p = q /\ C = v
    BY <2>1, <2>2, EqualParts
  <2> QED
    BY <2>3 DEF p, q
<1>14. A = t /\ B = u
  <2>1. Len(A) = Len(t) /\ A \o B = t \o u
    BY <1>7, <1>10, <1>13
  <2> QED
    BY <1>7, <2>1, EqualParts
<1> QED
  BY <1>4, <1>12, <1>12a, <1>13, <1>14 DEF A, B, C, D, E, s, a, b, c, d, AreFiveParts
-----------------------------------------------------------------------------
(* Sealing *)

LEMMA NoiseType ==
    ASSUME NEW n \in Nat, NEW seed \in Nat
    PROVE  Noise(n, seed) \in Seq(Byte) /\ Len(Noise(n, seed)) = n
<1>1. \A i \in 1 .. n : (seed + 97 * i) % 256 \in Byte
  BY DEF Byte
<1>2. Noise(n, seed) \in [1 .. n -> Byte]
  BY <1>1 DEF Noise
<1> QED
  BY <1>2, FunctionIsSeq

\* The cipher remembers k: a plaintext sealed under p.
IsSealing(k, p, plaintext) ==
    /\ k.passphrase = p /\ k.plaintext = plaintext
    /\ k.salt \in Seq(Byte) /\ Len(k.salt) = SaltLen
    /\ k.nonce \in Seq(Byte) /\ Len(k.nonce) = NonceLen
    /\ k.ciphertext \in Seq(Byte)
    /\ k.blob = <<FormatVersion>> \o k.salt \o k.nonce \o k.ciphertext
    /\ k.blob \in Seq(Byte)

LEMMA Lengths ==
    SaltLen \in Nat /\ SaltLen > 0 /\ NonceLen \in Nat /\ NonceLen > 0 /\ TagLen \in Nat /\ TagLen > 0
  BY EnvelopeAssumption

\* A strong passphrase seals whatever it is given.
LEMMA SealBytesSeals ==
    ASSUME NEW p \in Strong, NEW plaintext \in Seq(Byte)
    PROVE  /\ SealBytes(p, plaintext).error = "None"
           /\ IsSealing(SealBytes(p, plaintext).value, p, plaintext)
<1> DEFINE salt == Noise(SaltLen, 0)
           nonce == Noise(NonceLen, 11)
           ciphertext == Noise(Len(plaintext) + TagLen, 22)
           k == SealBytes(p, plaintext).value
<1>1. salt \in Seq(Byte) /\ Len(salt) = SaltLen
  BY Lengths, NoiseType
<1>2. nonce \in Seq(Byte) /\ Len(nonce) = NonceLen
  BY Lengths, NoiseType
<1>3. ciphertext \in Seq(Byte)
  <2>1. Len(plaintext) + TagLen \in Nat
    BY Lengths, LenProperties
  <2> QED
    BY <2>1, NoiseType
<1>4. <<FormatVersion>> \in Seq(Byte)
  BY Singleton DEF FormatVersion, Byte
<1>5. <<FormatVersion>> \o salt \o nonce \o ciphertext \in Seq(Byte)
  <2> HIDE DEF salt, nonce, ciphertext
  <2>1. <<FormatVersion>> \o salt \in Seq(Byte)
    BY <1>1, <1>4, ConcatProperties
  <2>2. <<FormatVersion>> \o salt \o nonce \in Seq(Byte)
    BY <1>2, <2>1, ConcatProperties
  <2> QED
    BY <1>3, <2>2, ConcatProperties
<1>6. SealBytes(p, plaintext) =
          Accepted([passphrase |-> p, plaintext |-> plaintext,
                    salt |-> salt, nonce |-> nonce, ciphertext |-> ciphertext,
                    blob |-> <<FormatVersion>> \o salt \o nonce \o ciphertext])
  BY Zenon DEF SealBytes
<1> HIDE DEF salt, nonce, ciphertext
<1>7. /\ SealBytes(p, plaintext).error = "None"
      /\ k.passphrase = p /\ k.plaintext = plaintext
      /\ k.salt = salt /\ k.nonce = nonce /\ k.ciphertext = ciphertext
      /\ k.blob = <<FormatVersion>> \o salt \o nonce \o ciphertext
  BY <1>6 DEF Accepted
<1> QED
  BY <1>1, <1>2, <1>3, <1>5, <1>7 DEF IsSealing

OpenErrors == {"None", "Truncated", "UnsupportedVersion", "DecryptionFailed"}

\* Only the blob opens, and only under its passphrase.
LEMMA OnlyTheBlobOpens ==
    ASSUME NEW k, NEW p, NEW plaintext, IsSealing(k, p, plaintext), NEW q, NEW blob \in Seq(Byte)
    PROVE  /\ OpenBytes(k, q, blob).error \in OpenErrors
           /\ OpenBytes(k, q, blob).error = "None" =>
                  blob = k.blob /\ q = p /\ OpenBytes(k, q, blob).value = plaintext
<1> DEFINE salt == SubSeq(blob, 2, 1 + SaltLen)
           nonce == SubSeq(blob, 2 + SaltLen, 1 + SaltLen + NonceLen)
           ciphertext == SubSeq(blob, 2 + SaltLen + NonceLen, Len(blob))
           opened == Decrypt(k, q, salt, nonce, ciphertext)
<1>1. \/ OpenBytes(k, q, blob).error \in {"Truncated", "UnsupportedVersion"}
      \/ /\ blob # <<>> /\ blob[1] = FormatVersion /\ Len(blob) >= 1 + SaltLen + NonceLen
         /\ OpenBytes(k, q, blob) = opened
  <2>0. Len(blob) \in Nat
    BY LenProperties
  <2>1. CASE blob = <<>>
    BY <2>1 DEF OpenBytes, Refused
  <2>2. CASE blob # <<>> /\ blob[1] # FormatVersion
    BY <2>2 DEF OpenBytes, Refused
  <2>3. CASE blob # <<>> /\ blob[1] = FormatVersion /\ Len(blob) < 1 + SaltLen + NonceLen
    BY <2>3 DEF OpenBytes, Refused
  <2>4. CASE blob # <<>> /\ blob[1] = FormatVersion /\ ~(Len(blob) < 1 + SaltLen + NonceLen)
    <3>1. Len(blob) >= 1 + SaltLen + NonceLen
      BY <2>0, <2>4, Lengths
    <3>2. OpenBytes(k, q, blob) = opened
      BY <2>4, <3>1, Zenon DEF OpenBytes, Split, Unwrap
    <3> QED
      BY <2>4, <3>1, <3>2
  <2> QED
    BY <2>1, <2>2, <2>3, <2>4
<1> DEFINE same == <<q, salt, nonce, ciphertext>> = <<k.passphrase, k.salt, k.nonce, k.ciphertext>>
<1>2. \/ ~same /\ opened.error = "DecryptionFailed"
      \/ same /\ opened.error = "None" /\ opened.value = k.plaintext
  <2> HIDE DEF salt, nonce, ciphertext
  <2> QED
    BY DEF Decrypt, Refused, Accepted
<1>3. same => q = k.passphrase /\ salt = k.salt /\ nonce = k.nonce /\ ciphertext = k.ciphertext
  <2> HIDE DEF salt, nonce, ciphertext
  <2> QED
    OBVIOUS
<1>4. ASSUME blob # <<>>, blob[1] = FormatVersion, Len(blob) >= 1 + SaltLen + NonceLen
      PROVE  blob = <<FormatVersion>> \o salt \o nonce \o ciphertext
  <2> DEFINE a == 1
             b == 1 + SaltLen
             c == 1 + SaltLen + NonceLen
             n == Len(blob)
  <2>1. /\ a \in Nat /\ b \in Nat /\ c \in Nat /\ n \in Nat
        /\ a <= b /\ b <= c /\ c <= n /\ n <= Len(blob)
        /\ a + 1 = 2 /\ b + 1 = 2 + SaltLen /\ c + 1 = 2 + SaltLen + NonceLen
    BY <1>4, Lengths, LenProperties
  <2>2. SubSeq(blob, 1, n) = blob
    BY SubSeqFull
  <2>3. SubSeq(blob, 1, a) = <<FormatVersion>>
    <3>1. blob[1] \in Byte /\ Len(blob) \in Nat /\ 1 \in 0 .. Len(blob)
      BY <1>4, FirstOff, LenProperties, Lengths
    <3>2. SubSeq(blob, 1, 1) \in Seq(Byte) /\ Len(SubSeq(blob, 1, 1)) = 1
      BY <3>1, PutTogether
    <3>3. SubSeq(blob, 1, 1)[1] = blob[1]
      BY <3>1
    <3> DEFINE u == SubSeq(blob, 1, 1)
    <3>4. u \in Seq(Byte) /\ Len(u) = 1 /\ u[1] = FormatVersion
      BY <1>4, <3>2, <3>3
    <3> HIDE DEF u
    <3>5. u = <<FormatVersion>>
      BY <3>4
    <3> QED
      BY <3>5 DEF u
  <2> HIDE DEF a, b, c, n
  <2>4. CutInFour(blob, a, b, c, n)
    BY <2>1, FourPieces
  <2>5. SubSeq(blob, 1, n) = SubSeq(blob, 1, a) \o SubSeq(blob, a + 1, b)
                                \o SubSeq(blob, b + 1, c) \o SubSeq(blob, c + 1, n)
    BY <2>4 DEF CutInFour
  <2> QED
    BY <2>1, <2>2, <2>3, <2>5 DEF b, c, n
<1> HIDE DEF salt, nonce, ciphertext, opened, same
<1> QED
  BY <1>1, <1>2, <1>3, <1>4 DEF IsSealing, OpenErrors

\* The blob does open.
LEMMA TheBlobOpens ==
    ASSUME NEW k, NEW p, NEW plaintext, IsSealing(k, p, plaintext)
    PROVE  OpenBytes(k, p, k.blob) = Accepted(plaintext)
<1> DEFINE v == <<FormatVersion>>
           blob == v \o k.salt \o k.nonce \o k.ciphertext
<1>1. v \in Seq(Byte) /\ Len(v) = 1 /\ FormatVersion \in Byte
  BY Singleton DEF FormatVersion, Byte
<1>2. k.blob = blob /\ k.blob \in Seq(Byte)
  BY DEF IsSealing
<1>3. k.salt \in Seq(Byte) /\ k.nonce \in Seq(Byte) /\ k.ciphertext \in Seq(Byte)
      /\ Len(k.salt) = SaltLen /\ Len(k.nonce) = NonceLen
  BY DEF IsSealing
<1> HIDE DEF v
<1>4. blob \in Seq(Byte) /\ AreFourParts(blob, v, k.salt, k.nonce, k.ciphertext)
  BY <1>1, <1>3, FourParts
<1> HIDE DEF blob
<1>5. /\ SubSeq(blob, 1, 1) = v /\ SubSeq(blob, 2, 1 + SaltLen) = k.salt
      /\ SubSeq(blob, 2 + SaltLen, 1 + SaltLen + NonceLen) = k.nonce
      /\ SubSeq(blob, 2 + SaltLen + NonceLen, Len(blob)) = k.ciphertext
  <2>1. /\ 1 + SaltLen + 1 = 2 + SaltLen /\ 1 + SaltLen + NonceLen + 1 = 2 + SaltLen + NonceLen
        /\ 1 + 1 = 2
    BY Lengths
  <2> QED
    BY <1>1, <1>3, <1>4, <2>1 DEF AreFourParts
<1>5a. Len(blob) = 1 + SaltLen + NonceLen + Len(k.ciphertext) /\ Len(k.ciphertext) \in Nat
  <2>1. Len(k.ciphertext) \in Nat
    BY <1>3, LenProperties
  <2> QED
    BY <1>1, <1>3, <1>4, <2>1 DEF AreFourParts
<1>5b. /\ Len(blob) > 0 /\ ~(Len(blob) < 1 + SaltLen + NonceLen)
       /\ Len(blob) >= 1 + SaltLen + NonceLen
  <2> DEFINE x == Len(blob)
             y == Len(k.ciphertext)
  <2>1. x = 1 + SaltLen + NonceLen + y /\ y \in Nat
    BY <1>5a
  <2> HIDE DEF x, y
  <2>2. x > 0 /\ ~(x < 1 + SaltLen + NonceLen) /\ x >= 1 + SaltLen + NonceLen
    BY <2>1, Lengths
  <2> QED
    BY <2>2 DEF x
<1>6. blob # <<>> /\ blob[1] = FormatVersion
  <2>1. blob \in Seq(Byte) /\ Len(blob) > 0
    BY <1>4, <1>5b
  <2>2. SubSeq(blob, 1, 1)[1] = blob[1]
    BY <2>1
  <2>3. v[1] = FormatVersion
    BY DEF v
  <2> QED
    BY <1>5, <2>1, <2>2, <2>3
<1>8. OpenBytes(k, p, blob) = Decrypt(k, p, k.salt, k.nonce, k.ciphertext)
  BY <1>5, <1>5b, <1>6, Zenon DEF OpenBytes, Split, Unwrap
<1>9. Decrypt(k, p, k.salt, k.nonce, k.ciphertext) = Accepted(plaintext)
  BY DEF Decrypt, IsSealing
<1> QED
  BY <1>2, <1>8, <1>9
-----------------------------------------------------------------------------
(* Numbers of a few digits *)

IsNumber(acc, digits, base) ==
    /\ acc \in [0 .. Len(digits) -> Nat]
    /\ acc[0] = 0
    /\ \A i \in 1 .. Len(digits) : acc[i] = base * acc[i - 1] + digits[i]
    /\ Number(digits, base) = acc[Len(digits)]

\* A fold over digits is a recursive function of how many have been taken.
LEMMA NumberIsLoop ==
    ASSUME NEW digits \in Seq(Nat), NEW base \in Nat
    PROVE  \E acc : IsNumber(acc, digits, base)
<1> DEFINE m == Len(digits)
           op(a, i) == base * a + digits[i]
           F == [p \in Nat \X (1 .. m) |-> op(p[1], p[2])]
           Rec(g) == g = [t \in SUBSET (1 .. m) |->
                             IF t = {} THEN 0 ELSE op(g[t \ {Max(t)}], Max(t))]
           iter == CHOOSE h : Rec(h)
<1>1. m \in Nat /\ DOMAIN digits = 1 .. m /\ \A i \in 1 .. m : digits[i] \in Nat
  BY LenProperties, ElementOfSeq
<1>2. \A a \in Nat, i \in 1 .. m : op(a, i) \in Nat
  <2> SUFFICES ASSUME NEW a \in Nat, NEW i \in 1 .. m  PROVE base * a + digits[i] \in Nat
    OBVIOUS
  <2>1. base * a \in Nat /\ digits[i] \in Nat
    BY <1>1
  <2> QED
    BY <2>1
<1>3. Number(digits, base) = iter[1 .. m]
  BY <1>1, Zenon DEF Number, FoldLeft, MapThenFoldSet
<1> HIDE DEF op, m
<1>4. F \in [Nat \X (1 .. m) -> Nat] /\ \A a \in Nat, i \in 1 .. m : F[<<a, i>>] = op(a, i)
  BY <1>2
<1> HIDE DEF F
<1>5. 0 \in Nat
  OBVIOUS
<1>6. PICK g : IsFold(g, Nat, 0, m, F)
  BY <1>1, <1>4, <1>5, FoldExists
<1>7. Rec(g)
  <2>1. \A a \in Nat, i \in 1 .. m : F[<<a, i>>] = op(a, i)
    BY <1>4
  <2> QED
    BY <1>6, <2>1 DEF IsFold
<1>8. Rec(iter)
  BY <1>7, Zenon
<1> HIDE DEF iter
<1>9. Unfolds(iter, Nat, 0, m, F)
  <2>1. iter[{}] = 0
    BY <1>8
  <2>2. \A t \in SUBSET (1 .. m) :
           t # {} /\ Max(t) \in 1 .. m /\ iter[t \ {Max(t)}] \in Nat
               => iter[t] = F[<<iter[t \ {Max(t)}], Max(t)>>]
    BY <1>4, <1>8
  <2> QED
    BY <2>1, <2>2, Zenon DEF Unfolds
<1> HIDE DEF Rec
<1>10. PICK acc : IsLoop(acc, iter, Nat, 0, m, F)
  BY <1>1, <1>4, <1>5, <1>9, FoldIsLoop
<1>11. /\ acc \in [0 .. m -> Nat] /\ acc[0] = 0 /\ acc[m] = iter[1 .. m]
       /\ \A i \in 1 .. m : acc[i] = op(acc[i - 1], i)
  BY <1>4, <1>10 DEF IsLoop
<1>12. IsNumber(acc, digits, base)
  BY <1>3, <1>11 DEF IsNumber, m, op
<1> QED
  BY <1>12

\* Digits make a natural number.
LEMMA NumberType ==
    ASSUME NEW digits \in Seq(Nat), NEW base \in Nat
    PROVE  Number(digits, base) \in Nat
<1>1. PICK acc : IsNumber(acc, digits, base)
  BY NumberIsLoop
<1>2. Len(digits) \in 0 .. Len(digits)
  BY LenProperties
<1> QED
  BY <1>1, <1>2 DEF IsNumber

\* The empty number is 0, and one, two or three digits have the value one expects.
LEMMA ShortNumbers ==
    ASSUME NEW digits \in Seq(Nat), NEW base \in {16, 256}
    PROVE  /\ Len(digits) = 0 => Number(digits, base) = 0
           /\ Len(digits) = 1 => Number(digits, base) = digits[1]
           /\ Len(digits) = 2 => Number(digits, base) = base * digits[1] + digits[2]
           /\ Len(digits) = 3 =>
                  Number(digits, base) = base * base * digits[1] + base * digits[2] + digits[3]
<1>1. PICK acc : IsNumber(acc, digits, base)
  BY NumberIsLoop
<1>2. acc[0] = 0 /\ Number(digits, base) = acc[Len(digits)]
  BY <1>1 DEF IsNumber
<1>3. ASSUME NEW i \in 1 .. Len(digits)
      PROVE  /\ acc[i] \in Nat /\ acc[i - 1] \in Nat /\ digits[i] \in Nat
             /\ acc[i] = base * acc[i - 1] + digits[i]
  <2>1. i \in 0 .. Len(digits) /\ i - 1 \in 0 .. Len(digits)
    BY LenProperties
  <2>2. digits[i] \in Nat
    BY ElementOfSeq
  <2>3. acc[i] \in Nat /\ acc[i - 1] \in Nat
    BY <1>1, <2>1 DEF IsNumber
  <2> QED
    BY <1>1, <2>2, <2>3 DEF IsNumber
<1>4. CASE Len(digits) = 0
  BY <1>2, <1>4
<1>5. Len(digits) >= 1 /\ Len(digits) \in Nat => acc[1] = digits[1] /\ digits[1] \in Nat
  <2> SUFFICES ASSUME Len(digits) >= 1, Len(digits) \in Nat
               PROVE  acc[1] = digits[1] /\ digits[1] \in Nat
    OBVIOUS
  <2>1. 1 \in 1 .. Len(digits) /\ 1 - 1 = 0
    OBVIOUS
  <2>2. acc[1] = base * acc[0] + digits[1] /\ digits[1] \in Nat
    BY <1>3, <2>1
  <2> QED
    BY <1>2, <2>2
<1>6. Len(digits) >= 2 /\ Len(digits) \in Nat
         => acc[2] = base * digits[1] + digits[2] /\ digits[1] \in Nat /\ digits[2] \in Nat
  <2> SUFFICES ASSUME Len(digits) >= 2, Len(digits) \in Nat
               PROVE  acc[2] = base * digits[1] + digits[2] /\ digits[1] \in Nat /\ digits[2] \in Nat
    OBVIOUS
  <2>1. 2 \in 1 .. Len(digits) /\ 2 - 1 = 1
    OBVIOUS
  <2>2. acc[2] = base * acc[1] + digits[2] /\ digits[2] \in Nat
    BY <1>3, <2>1
  <2> QED
    BY <1>5, <2>2
<1>7. CASE Len(digits) = 1
  BY <1>2, <1>5, <1>7
<1>8. CASE Len(digits) = 2
  BY <1>2, <1>6, <1>8
<1>9. CASE Len(digits) = 3
  <2>1. 3 \in 1 .. Len(digits) /\ 3 - 1 = 2
    BY <1>9
  <2>2. acc[3] = base * acc[2] + digits[3] /\ digits[3] \in Nat
    BY <1>3, <2>1
  <2>3. acc[2] = base * digits[1] + digits[2] /\ digits[1] \in Nat /\ digits[2] \in Nat
    BY <1>6, <1>9
  <2> DEFINE a == digits[1]
             b == digits[2]
             c == digits[3]
  <2>4. acc[3] = base * (base * a + b) + c /\ a \in Nat /\ b \in Nat /\ c \in Nat
    BY <2>2, <2>3
  <2> HIDE DEF a, b, c
  <2>5. acc[3] = base * base * a + base * b + c
    <3>1. CASE base = 16
      BY <2>4, <3>1
    <3>2. CASE base = 256
      BY <2>4, <3>2
    <3> QED
      BY <3>1, <3>2
  <2> QED
    BY <1>2, <1>9, <2>5 DEF a, b, c
<1> QED
  BY <1>4, <1>7, <1>8, <1>9
-----------------------------------------------------------------------------
(* Sealed keys and shares *)

\* A blob opens as a key only whole and under its passphrase, and one that holds a key does.
LEMMA KeysOpen ==
    ASSUME NEW k, NEW p, NEW plaintext \in Seq(Byte), IsSealing(k, p, plaintext)
    PROVE  /\ \A q : \A blob \in Seq(Byte) :
                  /\ OpenKey(k, q, blob).error # "Panic"
                  /\ OpenKey(k, q, blob).error = "None" =>
                        blob = k.blob /\ q = p /\ Len(plaintext) = Word
           /\ Len(plaintext) = Word /\ IsKey(plaintext) => OpenKey(k, p, k.blob) = Accepted(plaintext)
<1>1. ASSUME NEW q, NEW blob \in Seq(Byte)
      PROVE  /\ OpenKey(k, q, blob).error # "Panic"
             /\ OpenKey(k, q, blob).error = "None" =>
                   blob = k.blob /\ q = p /\ Len(plaintext) = Word
  <2> DEFINE opened == OpenBytes(k, q, blob)
  <2>1. /\ opened.error \in OpenErrors
        /\ opened.error = "None" => blob = k.blob /\ q = p /\ opened.value = plaintext
    BY OnlyTheBlobOpens
  <2>2. OpenKey(k, q, blob) =
            IF opened.error # "None" THEN opened
            ELSE IF Len(opened.value) # Word THEN Refused("Truncated")
            ELSE IF ~IsKey(opened.value) THEN Refused("InvalidKeyBytes")
            ELSE opened
    BY DEF OpenKey
  <2> HIDE DEF opened
  <2> QED
    BY <2>1, <2>2 DEF OpenErrors, Refused
<1>2. ASSUME Len(plaintext) = Word, IsKey(plaintext)
      PROVE  OpenKey(k, p, k.blob) = Accepted(plaintext)
  <2>1. OpenBytes(k, p, k.blob) = Accepted(plaintext)
    BY TheBlobOpens
  <2> QED
    BY <1>2, <2>1 DEF OpenKey, Accepted
<1> QED
  BY <1>1, <1>2

\* A sealed share is opened under p, as one, or not at all.
OpensOnlyShares(k, p, plaintext) ==
    \A q : \A blob \in Seq(Byte) :
        /\ OpenShare(k, q, blob).error # "Panic"
        /\ OpenShare(k, q, blob).error = "None" => blob = k.blob /\ q = p /\ Len(plaintext) = 2 + Word

\* ... and as a share
LEMMA SharesOpen ==
    ASSUME NEW k, NEW p, NEW plaintext \in Seq(Byte), IsSealing(k, p, plaintext)
    PROVE  /\ OpensOnlyShares(k, p, plaintext)
           /\ Len(plaintext) = 2 + Word =>
                  OpenShare(k, p, k.blob) =
                      Accepted([index |-> plaintext[1], threshold |-> plaintext[2],
                                value |-> SubSeq(plaintext, 3, Len(plaintext))])
<1>1. ASSUME NEW q, NEW blob \in Seq(Byte)
      PROVE  /\ OpenShare(k, q, blob).error # "Panic"
             /\ OpenShare(k, q, blob).error = "None" =>
                   blob = k.blob /\ q = p /\ Len(plaintext) = 2 + Word
  <2> DEFINE opened == OpenBytes(k, q, blob)
  <2>1. /\ opened.error \in OpenErrors
        /\ opened.error = "None" => blob = k.blob /\ q = p /\ opened.value = plaintext
    BY OnlyTheBlobOpens
  <2>2. OpenShare(k, q, blob) =
            IF opened.error # "None" THEN opened
            ELSE IF Len(opened.value) # 2 + Word THEN Refused("Truncated")
            ELSE Unwrap(Len(opened.value) - 2 = Word,
                    Accepted([index |-> opened.value[1], threshold |-> opened.value[2],
                              value |-> SubSeq(opened.value, 3, Len(opened.value))]))
    BY DEF OpenShare
  <2>3. Len(opened.value) = 2 + Word => Len(opened.value) - 2 = Word
    BY Widths
  <2> HIDE DEF opened
  <2> QED
    BY <2>1, <2>2, <2>3 DEF OpenErrors, Refused, Accepted, Unwrap
<1>2. ASSUME Len(plaintext) = 2 + Word
      PROVE  OpenShare(k, p, k.blob) =
                 Accepted([index |-> plaintext[1], threshold |-> plaintext[2],
                           value |-> SubSeq(plaintext, 3, Len(plaintext))])
  <2> DEFINE opened == OpenBytes(k, p, k.blob)
  <2>1. opened = Accepted(plaintext)
    BY TheBlobOpens
  <2>2. opened.error = "None" /\ opened.value = plaintext
    BY <2>1 DEF Accepted
  <2>3. OpenShare(k, p, k.blob) =
            IF opened.error # "None" THEN opened
            ELSE IF Len(opened.value) # 2 + Word THEN Refused("Truncated")
            ELSE Unwrap(Len(opened.value) - 2 = Word,
                    Accepted([index |-> opened.value[1], threshold |-> opened.value[2],
                              value |-> SubSeq(opened.value, 3, Len(opened.value))]))
    BY DEF OpenShare
  <2>4. Len(plaintext) - 2 = Word
    BY <1>2, Widths
  <2> HIDE DEF opened
  <2> QED
    BY <1>2, <2>2, <2>3, <2>4 DEF Unwrap
<1>3. OpensOnlyShares(k, p, plaintext)
  BY <1>1 DEF OpensOnlyShares
<1> QED
  BY <1>2, <1>3

\* A share is read back from its plaintext.
LEMMA SharePlaintexts ==
    ASSUME NEW share \in [index : 1 .. 255, threshold : 2 .. 255, value : [1 .. Word -> Byte]]
    PROVE  LET text == SharePlaintext(share)
           IN  /\ text \in Seq(Byte) /\ Len(text) = 2 + Word
               /\ [index |-> text[1], threshold |-> text[2],
                   value |-> SubSeq(text, 3, Len(text))] = share
<1> DEFINE head == <<share.index, share.threshold>>
           text == head \o share.value
<1>1. head \in Seq(Byte) /\ Len(head) = 2 /\ head[1] = share.index /\ head[2] = share.threshold
  <2>1. share.index \in Byte /\ share.threshold \in Byte
    BY DEF Byte
  <2> QED
    BY <2>1
<1>2. share.value \in Seq(Byte) /\ Len(share.value) = Word /\ Word \in Nat
  <2>1. share.value \in [1 .. Word -> Byte]
    OBVIOUS
  <2> QED
    BY <2>1, Widths, FunctionIsSeq
<1> DEFINE v == share.value
<1>2a. v \in Seq(Byte) /\ Len(v) = Word
  BY <1>2
<1> HIDE DEF head, v
<1>3. /\ head \o v \in Seq(Byte) /\ Len(head \o v) = Len(head) + Len(v)
      /\ SubSeq(head \o v, Len(head) + 1, Len(head) + Len(v)) = v
  <2>1. head \o v \in Seq(Byte) /\ AreTwoParts(head \o v, head, v)
    BY <1>1, <1>2a, TwoParts
  <2> QED
    BY <2>1 DEF AreTwoParts
<1>4. text[1] = head[1] /\ text[2] = head[2]
  <2>1. v \in Seq(Byte) /\ Len(v) \in Nat
    BY <1>2 DEF v
  <2>2. \A i \in 1 .. Len(head) + Len(v) : (head \o v)[i] = IF i <= Len(head) THEN head[i] ELSE v[i - Len(head)]
    BY <1>1, <2>1, ConcatProperties
  <2>3. 1 \in 1 .. Len(head) + Len(v) /\ 2 \in 1 .. Len(head) + Len(v) /\ 1 <= Len(head) /\ 2 <= Len(head)
    BY <1>1, <2>1
  <2>4. (head \o v)[1] = head[1] /\ (head \o v)[2] = head[2]
    BY <2>2, <2>3
  <2> QED
    BY <2>4 DEF v
<1>4a. text = head \o v
  BY DEF v
<1> HIDE DEF text
<1>5. Len(text) = 2 + Word /\ SubSeq(text, 3, Len(text)) = share.value
  <2>1. Len(v) = Word /\ Word \in Nat
    BY <1>2 DEF v
  <2>2. Len(text) = 2 + Word /\ SubSeq(text, 3, Len(text)) = v
    BY <1>1, <1>3, <1>4a, <2>1
  <2> QED
    BY <2>2 DEF v
<1>6. [index |-> text[1], threshold |-> text[2], value |-> SubSeq(text, 3, Len(text))] = share
  <2>1. text[1] = share.index /\ text[2] = share.threshold
    BY <1>1, <1>4
  <2> QED
    BY <1>5, <2>1
<1> QED
  BY <1>3, <1>4a, <1>5, <1>6 DEF SharePlaintext, text, head

-----------------------------------------------------------------------------
(* The wallet's own format and the ABI words *)

\* The parts of a transfer have their widths.
LEMMA TransferParts ==
    ASSUME NEW tx \in Transfer
    PROVE  /\ tx.chain_id \in Seq(Byte) /\ Len(tx.chain_id) = U64
           /\ tx.to \in Seq(Byte) /\ Len(tx.to) = AddressLen
           /\ tx.value \in Seq(Byte) /\ Len(tx.value) = U128
<1>1. /\ tx.chain_id \in [1 .. U64 -> Byte] /\ tx.to \in [1 .. AddressLen -> Byte]
      /\ tx.value \in [1 .. U128 -> Byte]
  BY DEF Transfer
<1> QED
  BY <1>1, Widths, FunctionIsSeq

LEMMA VersionByte ==
    <<CurrentVersion>> \in Seq(Byte) /\ Len(<<CurrentVersion>>) = 1 /\ CurrentVersion \in Byte
  BY Singleton DEF CurrentVersion, Byte

\* A transfer is written as five parts.
LEMMA TransferIsBytes ==
    ASSUME NEW tx \in Transfer
    PROVE  /\ EncodeTransfer(tx) \in Seq(Byte)
           /\ AreFiveParts(EncodeTransfer(tx), <<CurrentVersion>>, tx.chain_id, tx.to, tx.value, Zeros(2))
<1> DEFINE v == <<CurrentVersion>>
           z == Zeros(2)
<1>1. v \in Seq(Byte) /\ z \in Seq(Byte)
  BY VersionByte, ZerosType
<1>2. EncodeTransfer(tx) = v \o tx.chain_id \o tx.to \o tx.value \o z
  BY DEF EncodeTransfer
<1> HIDE DEF v, z
<1>3. /\ v \o tx.chain_id \o tx.to \o tx.value \o z \in Seq(Byte)
      /\ AreFiveParts(v \o tx.chain_id \o tx.to \o tx.value \o z, v, tx.chain_id, tx.to, tx.value, z)
  BY <1>1, TransferParts, FiveParts
<1> QED
  BY <1>2, <1>3 DEF v, z

LEMMA DataLenOf ==
    ASSUME NEW raw \in Seq(Byte), Len(raw) >= HeaderLen
    PROVE  /\ DataLen(raw) \in Nat
           /\ DataLen(raw) = 0 <=> SubSeq(raw, HeaderLen - 1, HeaderLen) = Zeros(2)
<1> DEFINE a == HeaderLen - 2
           b == HeaderLen
           w == SubSeq(raw, a + 1, b)
<1>1. a \in Nat /\ b \in Nat /\ a <= b /\ b <= Len(raw) /\ b - a = 2 /\ a + 1 = HeaderLen - 1
  BY Widths DEF HeaderLen
<1> HIDE DEF a, b
<1>2. w \in Seq(Byte) /\ Len(w) = 2
  BY <1>1, Piece
<1>3. w = SubSeq(raw, HeaderLen - 1, HeaderLen)
  BY <1>1 DEF b
<1> HIDE DEF w
<1>4. w \in Seq(Nat) /\ w[1] \in Nat /\ w[2] \in Nat
  <2>1. w \in Seq(Nat)
    BY <1>2, TextsAreNotBytes, SeqMonotonic
  <2>2. 1 \in 1 .. Len(w) /\ 2 \in 1 .. Len(w)
    BY <1>2
  <2> QED
    BY <2>1, <2>2, ElementOfSeq
<1>5. Number(w, 256) = 256 * w[1] + w[2]
  <2> DEFINE base == 256
  <2>1. base \in {16, 256}
    OBVIOUS
  <2> HIDE DEF base
  <2>2. Number(w, base) = base * w[1] + w[2]
    BY <1>2, <1>4, <2>1, ShortNumbers
  <2> QED
    BY <2>2 DEF base
<1>6. DataLen(raw) = 256 * w[1] + w[2]
  BY <1>3, <1>5 DEF DataLen
<1>7. w = Zeros(2) <=> w[1] = 0 /\ w[2] = 0
  <2>1. Zeros(2) \in Seq(Byte) /\ Len(Zeros(2)) = 2 /\ Zeros(2)[1] = 0 /\ Zeros(2)[2] = 0
    BY DEF Zeros, Byte
  <2>2. ASSUME w[1] = 0, w[2] = 0  PROVE w = Zeros(2)
    <3>1. \A i \in 1 .. Len(w) : w[i] = Zeros(2)[i]
      BY <1>2, <2>1, <2>2
    <3> QED
      BY <1>2, <2>1, <3>1, SeqEqual
  <2> QED
    BY <2>1, <2>2
<1> DEFINE x == w[1]
           y == w[2]
<1>8. x \in Nat /\ y \in Nat /\ DataLen(raw) = 256 * x + y
  BY <1>4, <1>6
<1>9. w = Zeros(2) <=> x = 0 /\ y = 0
  BY <1>7
<1> HIDE DEF x, y
<1>10. DataLen(raw) \in Nat /\ (DataLen(raw) = 0 <=> w = Zeros(2))
  BY <1>8, <1>9
<1> QED
  BY <1>3, <1>10

TransferErrors ==
    {"Empty", "Oversized", "Truncated", "UnsupportedVersion", "UnrecognizedCalldata"}

\* What decode accepts is what encode_transfer writes.
LEMMA OnlyTransfersAreAccepted ==
    ASSUME NEW raw \in Seq(Byte)
    PROVE  \/ DecodeTransfer(raw).error \in TransferErrors
           \/ /\ DecodeTransfer(raw).error = "None"
              /\ DecodeTransfer(raw).value \in Transfer
              /\ raw = EncodeTransfer(DecodeTransfer(raw).value)
<1> DEFINE tx == Parsed(raw)
<1>0. Len(raw) \in Nat
  BY LenProperties
<1>1. CASE raw = <<>>
  BY <1>1 DEF DecodeTransfer, Refused, TransferErrors
<1>2. CASE raw # <<>> /\ Len(raw) > MaxInputLen
  BY <1>2 DEF DecodeTransfer, Refused, TransferErrors
<1>3. CASE raw # <<>> /\ ~(Len(raw) > MaxInputLen) /\ Len(raw) < HeaderLen
  BY <1>3 DEF DecodeTransfer, Refused, TransferErrors
<1>4. CASE raw # <<>> /\ ~(Len(raw) > MaxInputLen) /\ ~(Len(raw) < HeaderLen)
           /\ raw[1] # CurrentVersion
  BY <1>4 DEF DecodeTransfer, Refused, TransferErrors
<1>4a. HeaderLen \in Nat
  BY Widths DEF HeaderLen
<1>5. CASE raw # <<>> /\ ~(Len(raw) > MaxInputLen) /\ ~(Len(raw) < HeaderLen)
           /\ raw[1] = CurrentVersion
  <2>1. CASE Len(raw) # HeaderLen + DataLen(raw) \/ DataLen(raw) > 0
    <3>1. Len(raw) >= HeaderLen
      BY <1>0, <1>4a, <1>5
    <3>2. DecodeTransfer(raw) \in {Refused("Truncated"), Refused("UnrecognizedCalldata")}
      BY <1>5, <2>1, <3>1, Zenon DEF DecodeTransfer, Unwrap
    <3> QED
      BY <3>2 DEF Refused, TransferErrors
  <2>2. CASE Len(raw) = HeaderLen + DataLen(raw) /\ ~(DataLen(raw) > 0)
    <3>0. HeaderLen \in Nat /\ Len(raw) >= HeaderLen
      BY <1>0, <1>4a, <1>5
    <3>1. DataLen(raw) = 0 /\ Len(raw) = HeaderLen
      BY <2>2, <3>0, DataLenOf
    <3>2. DecodeTransfer(raw) = Accepted(tx)
      BY <1>5, <2>2, <3>0, Zenon DEF DecodeTransfer, Unwrap
    <3> DEFINE a == 1
               b == 1 + U64
               c == 1 + U64 + AddressLen
               d == 1 + U64 + AddressLen + U128
               n == HeaderLen
    <3>3. /\ a \in Nat /\ b \in Nat /\ c \in Nat /\ d \in Nat /\ n \in Nat
          /\ a <= b /\ b <= c /\ c <= d /\ d <= n /\ n <= Len(raw)
          /\ b <= Len(raw) /\ c <= Len(raw) /\ d <= Len(raw)
      BY <3>1, Widths DEF HeaderLen
    <3>4. /\ b - a = U64 /\ c - b = AddressLen /\ d - c = U128
          /\ a + 1 = 2 /\ b + 1 = 2 + U64 /\ c + 1 = 2 + U64 + AddressLen /\ d + 1 = HeaderLen - 1
      BY Widths DEF HeaderLen
    <3>5. SubSeq(raw, 1, a) = <<CurrentVersion>>
      <4>1. raw[1] \in Byte /\ 1 \in 0 .. Len(raw)
        <5>1. raw[1] \in Byte
          BY <1>5, FirstOff
        <5> QED
          BY <3>3, <5>1
      <4>2. SubSeq(raw, 1, 1) \in Seq(Byte) /\ Len(SubSeq(raw, 1, 1)) = 1
        BY <4>1, PutTogether
      <4>3. SubSeq(raw, 1, 1)[1] = raw[1]
        BY <4>1
      <4> DEFINE u == SubSeq(raw, 1, 1)
      <4>4. u \in Seq(Byte) /\ Len(u) = 1 /\ u[1] = CurrentVersion
        BY <1>5, <4>2, <4>3
      <4> HIDE DEF u
      <4>5. u = <<CurrentVersion>>
        BY <4>4
      <4> QED
        BY <4>5 DEF u
    <3>6. SubSeq(raw, d + 1, n) = Zeros(2)
      BY <3>0, <3>1, <3>4, DataLenOf
    <3> HIDE DEF a, b, c, d
    <3>7. CutInFive(raw, a, b, c, d, n)
      <4> HIDE DEF n
      <4> QED
        BY <3>3, FivePieces
    <3>8. SubSeq(raw, 1, n) = raw
      BY <3>1, SubSeqFull
    <3>9. /\ SubSeq(raw, a + 1, b) \in Seq(Byte) /\ Len(SubSeq(raw, a + 1, b)) = U64
          /\ SubSeq(raw, b + 1, c) \in Seq(Byte) /\ Len(SubSeq(raw, b + 1, c)) = AddressLen
          /\ SubSeq(raw, c + 1, d) \in Seq(Byte) /\ Len(SubSeq(raw, c + 1, d)) = U128
      <4>1. SubSeq(raw, a + 1, b) \in Seq(Byte) /\ Len(SubSeq(raw, a + 1, b)) = U64
        BY <3>3, <3>4, Piece
      <4>2. SubSeq(raw, b + 1, c) \in Seq(Byte) /\ Len(SubSeq(raw, b + 1, c)) = AddressLen
        BY <3>3, <3>4, Piece
      <4>3. SubSeq(raw, c + 1, d) \in Seq(Byte) /\ Len(SubSeq(raw, c + 1, d)) = U128
        BY <3>3, <3>4, Piece
      <4> QED
        BY <4>1, <4>2, <4>3
    <3>10. /\ tx.chain_id = SubSeq(raw, a + 1, b) /\ tx.to = SubSeq(raw, b + 1, c)
           /\ tx.value = SubSeq(raw, c + 1, d)
           /\ tx = [chain_id |-> tx.chain_id, to |-> tx.to, value |-> tx.value]
      BY <3>4 DEF Parsed, b, c, d
    <3> HIDE DEF tx
    <3>11. raw = EncodeTransfer(tx)
      BY <3>5, <3>6, <3>7, <3>8, <3>10 DEF CutInFive, EncodeTransfer
    <3>12. tx \in Transfer
      <4>1. /\ tx.chain_id \in [1 .. U64 -> Byte] /\ tx.to \in [1 .. AddressLen -> Byte]
            /\ tx.value \in [1 .. U128 -> Byte]
        BY <3>9, <3>10, SeqIsFunction
      <4> QED
        BY <3>10, <4>1 DEF Transfer
    <3> QED
      BY <3>2, <3>11, <3>12 DEF Accepted
  <2>3. DataLen(raw) \in Nat
    BY <1>0, <1>5, DataLenOf, Widths DEF HeaderLen
  <2> QED
    BY <2>1, <2>2
<1> QED
  BY <1>1, <1>2, <1>3, <1>4, <1>5

\* What encode_transfer writes is accepted.
LEMMA TransfersAreAccepted ==
    ASSUME NEW tx \in Transfer
    PROVE  DecodeTransfer(EncodeTransfer(tx)) = Accepted(tx)
<1> DEFINE raw == EncodeTransfer(tx)
<1>1. raw \in Seq(Byte) /\ AreFiveParts(raw, <<CurrentVersion>>, tx.chain_id, tx.to, tx.value, Zeros(2))
  BY TransferIsBytes
<1>2. /\ Len(<<CurrentVersion>>) = 1 /\ Len(tx.chain_id) = U64 /\ Len(tx.to) = AddressLen
      /\ Len(tx.value) = U128 /\ Len(Zeros(2)) = 2
  <2>1. 2 \in Nat
    OBVIOUS
  <2> QED
    BY <2>1, VersionByte, TransferParts, ZerosType
<1> HIDE DEF raw
<1> DEFINE b == 1 + U64
           c == 1 + U64 + AddressLen
           d == 1 + U64 + AddressLen + U128
<1>3. /\ Len(raw) = d + 2 /\ SubSeq(raw, 1, 1) = <<CurrentVersion>>
      /\ SubSeq(raw, 1 + 1, b) = tx.chain_id /\ SubSeq(raw, b + 1, c) = tx.to
      /\ SubSeq(raw, c + 1, d) = tx.value /\ SubSeq(raw, d + 1, Len(raw)) = Zeros(2)
  BY <1>1, <1>2 DEF AreFiveParts
<1>4. /\ HeaderLen = d + 2 /\ d \in Nat /\ HeaderLen \in Nat /\ d + 1 = HeaderLen - 1 /\ 1 + 1 = 2
      /\ b + 1 = 2 + U64 /\ c + 1 = 2 + U64 + AddressLen
  BY Widths DEF HeaderLen
<1>5. Len(raw) = HeaderLen /\ HeaderLen > 0
  BY <1>3, <1>4
<1>6. raw # <<>> /\ raw[1] = CurrentVersion
  <2>1. Len(raw) > 0
    BY <1>5
  <2>2. SubSeq(raw, 1, 1)[1] = raw[1]
    BY <1>1, <2>1
  <2>3. <<CurrentVersion>>[1] = CurrentVersion
    OBVIOUS
  <2>4. raw[1] = CurrentVersion
    BY <1>3, <2>2, <2>3
  <2> QED
    BY <1>1, <2>1, <2>4
<1>7. Parsed(raw) = tx
  <2>1. Parsed(raw) = [chain_id |-> tx.chain_id, to |-> tx.to, value |-> tx.value]
    BY <1>3, <1>4 DEF Parsed
  <2>2. tx = [chain_id |-> tx.chain_id, to |-> tx.to, value |-> tx.value]
    BY DEF Transfer
  <2> QED
    BY <2>1, <2>2
<1>8. DataLen(raw) = 0
  <2>1. SubSeq(raw, HeaderLen - 1, HeaderLen) = Zeros(2)
    BY <1>3, <1>4, <1>5
  <2>2. Len(raw) >= HeaderLen
    BY <1>4, <1>5
  <2> QED
    BY <1>1, <2>1, <2>2, DataLenOf
<1>9. /\ ~(Len(raw) > MaxInputLen) /\ ~(Len(raw) < HeaderLen) /\ Len(raw) >= HeaderLen
      /\ Len(raw) = HeaderLen + 0
  BY <1>4, <1>5, InputAssumption
<1>10. DecodeTransfer(raw) = Accepted(Parsed(raw))
  <2>1. ~(0 > 0)
    OBVIOUS
  <2> QED
    BY <1>6, <1>8, <1>9, <2>1, Zenon DEF DecodeTransfer, Unwrap
<1> QED
  BY <1>7, <1>10 DEF raw

\* The signed bytes of a transfer determine it.
LEMMA CanonicalBytesDiffer ==
    ASSUME NEW tx \in Transfer, NEW other \in Transfer, CanonicalBytes(tx) = CanonicalBytes(other)
    PROVE  tx = other
<1>1. /\ tx.chain_id \in Seq(Byte) /\ Len(tx.chain_id) = U64
      /\ tx.to \in Seq(Byte) /\ Len(tx.to) = AddressLen
      /\ tx.value \in Seq(Byte) /\ Len(tx.value) = U128
  BY TransferParts
<1>2. /\ other.chain_id \in Seq(Byte) /\ Len(other.chain_id) = U64
      /\ other.to \in Seq(Byte) /\ Len(other.to) = AddressLen
      /\ other.value \in Seq(Byte) /\ Len(other.value) = U128
  BY TransferParts
<1> DEFINE p == tx.chain_id \o tx.to
           q == other.chain_id \o other.to
<1>3. p \in Seq(Byte) /\ Len(p) = U64 + AddressLen
  BY <1>1, CutApart
<1>4. q \in Seq(Byte) /\ Len(q) = U64 + AddressLen
  BY <1>2, CutApart
<1>5. p \o tx.value = q \o other.value
  BY DEF CanonicalBytes
<1>6. p = q /\ tx.value = other.value
  <2> HIDE DEF p, q
  <2> QED
    BY <1>1, <1>2, <1>3, <1>4, <1>5, EqualParts
<1>7. tx.chain_id = other.chain_id /\ tx.to = other.to
  BY <1>1, <1>2, <1>6, EqualParts
<1> QED
  BY <1>6, <1>7 DEF Transfer

\* What decode_uint256_result returns
LEMMA WordsAreWhole ==
    ASSUME NEW w \in Seq(Byte)
    PROVE  /\ DecodeUint256(w).error \in {"None", "Invalid"}
           /\ DecodeUint256(w).error = "None" /\ DecodeUint256(w).value # Zeros(U128) =>
                 SubSeq(w, 1, Word) = Zeros(Word - U128) \o DecodeUint256(w).value
<1>0. ~(Len(w) < Word) => Len(w) >= Word
  BY Widths, LenProperties
<1>1. CASE Len(w) < Word
  BY <1>1 DEF DecodeUint256, Accepted
<1>2. CASE ~(Len(w) < Word) /\ SubSeq(w, 1, Word - U128) # Zeros(Word - U128)
  BY <1>0, <1>2 DEF DecodeUint256, Refused, Unwrap
<1>3. CASE ~(Len(w) < Word) /\ SubSeq(w, 1, Word - U128) = Zeros(Word - U128)
  <2>1. DecodeUint256(w) = Accepted(SubSeq(w, Word - U128 + 1, Word))
    BY <1>0, <1>3 DEF DecodeUint256, Unwrap
  <2> DEFINE a == Word - U128
  <2>2. a \in Nat /\ Word \in Nat /\ a <= Word /\ Word <= Len(w)
    BY <1>3, Widths, LenProperties
  <2> HIDE DEF a
  <2>3. SubSeq(w, 1, Word) = SubSeq(w, 1, a) \o SubSeq(w, a + 1, Word)
    BY <2>2, Adjacent
  <2> DEFINE v == SubSeq(w, a + 1, Word)
  <2>4. DecodeUint256(w) = Accepted(v)
    BY <2>1 DEF a
  <2>5. SubSeq(w, 1, Word) = Zeros(Word - U128) \o v
    BY <1>3, <2>3 DEF a
  <2> HIDE DEF v
  <2>6. DecodeUint256(w).error = "None" /\ DecodeUint256(w).value = v
    BY <2>4 DEF Accepted
  <2> QED
    BY <2>5, <2>6
<1> QED
  BY <1>1, <1>2, <1>3

\* A word made of an integer is read as that integer.
LEMMA WordsAreRead ==
    ASSUME NEW v \in [1 .. U128 -> Byte]
    PROVE  /\ Zeros(Word - U128) \o v \in Seq(Byte)
           /\ DecodeUint256(Zeros(Word - U128) \o v) = Accepted(v)
<1> DEFINE z == Zeros(Word - U128)
           w == z \o v
<1>1. z \in Seq(Byte) /\ Len(z) = Word - U128
  <2>1. Word - U128 \in Nat
    BY Widths
  <2> QED
    BY <2>1, ZerosType
<1>2. v \in Seq(Byte) /\ Len(v) = U128
  BY Widths, FunctionIsSeq
<1> HIDE DEF z
<1>3. /\ w \in Seq(Byte) /\ Len(w) = Len(z) + Len(v)
      /\ SubSeq(w, 1, Len(z)) = z /\ SubSeq(w, Len(z) + 1, Len(z) + Len(v)) = v
  <2>1. z \o v \in Seq(Byte) /\ AreTwoParts(z \o v, z, v)
    BY <1>1, <1>2, TwoParts
  <2> QED
    BY <2>1 DEF AreTwoParts
<1> HIDE DEF w
<1>4. Len(w) = Word /\ ~(Len(w) < Word) /\ Len(w) >= Word /\ Word - U128 + U128 = Word
  BY <1>1, <1>2, <1>3, Widths
<1>5. SubSeq(w, 1, Word - U128) = z /\ SubSeq(w, Word - U128 + 1, Word) = v
  BY <1>1, <1>2, <1>3, <1>4
<1>6. DecodeUint256(w) = Accepted(v)
  BY <1>4, <1>5 DEF DecodeUint256, z, Unwrap
<1> QED
  BY <1>3, <1>6 DEF w, z

-----------------------------------------------------------------------------
(* Leading zeros *)

\* A set of positions has a first one.
LEMMA LeastElement ==
    ASSUME NEW T \in SUBSET Nat, T # {}
    PROVE  \E x \in T : \A y \in T : x <= y
<1>1. PICK x \in T : \A y \in T : ~ (<<y, x>> \in OpToRel(<, Nat))
  <2>1. IsWellFoundedOn(OpToRel(<, Nat), Nat)
    BY NatLessThanWellFounded
  <2> QED
    BY <2>1, WFMin
<1>2. \A y \in T : ~(y < x) /\ y \in Nat /\ x \in Nat
  BY <1>1 DEF OpToRel
<1>3. \A y \in T : x <= y
  BY <1>2
<1> QED
  BY <1>3

NoLeadingZero(t) == t = <<>> \/ t[1] # 0

LEMMA ZerosAnywhere ==
    ASSUME NEW S, 0 \in S, NEW n \in Nat
    PROVE  Zeros(n) \in Seq(S) /\ Len(Zeros(n)) = n /\ \A i \in 1 .. n : Zeros(n)[i] = 0
<1>1. Zeros(n) \in [1 .. n -> S] /\ \A i \in 1 .. n : Zeros(n)[i] = 0
  BY DEF Zeros
<1> QED
  BY <1>1, FunctionIsSeq

\* Trimmed takes off zeros and stops at a digit that is not one.
LEMMA TrimmedSplits ==
    ASSUME NEW S, 0 \in S, NEW d \in Seq(S)
    PROVE  /\ Trimmed(d) \in Seq(S) /\ Len(Trimmed(d)) \in 0 .. Len(d)
           /\ NoLeadingZero(Trimmed(d))
           /\ d = Zeros(Len(d) - Len(Trimmed(d))) \o Trimmed(d)
<1> DEFINE nonZero == {i \in DOMAIN d : d[i] # 0}
<1>1. Len(d) \in Nat /\ DOMAIN d = 1 .. Len(d) /\ \A i \in 1 .. Len(d) : d[i] \in S
  BY LenProperties, ElementOfSeq
<1>2. CASE nonZero = {}
  <2>1. Trimmed(d) = <<>>
    BY <1>2 DEF Trimmed
  <2>2. \A i \in 1 .. Len(d) : d[i] = 0
    BY <1>1, <1>2
  <2>3. Zeros(Len(d)) \in Seq(S) /\ Len(Zeros(Len(d))) = Len(d)
        /\ \A i \in 1 .. Len(d) : Zeros(Len(d))[i] = 0
    BY <1>1, ZerosAnywhere
  <2>4. d = Zeros(Len(d))
    <3> DEFINE z == Zeros(Len(d))
    <3>1. z \in Seq(S) /\ Len(d) = Len(z) /\ \A i \in 1 .. Len(d) : d[i] = z[i]
      BY <2>2, <2>3
    <3> HIDE DEF z
    <3>2. d = z
      BY <3>1, SeqEqual
    <3> QED
      BY <3>2 DEF z
  <2>5. <<>> \in Seq(S) /\ Len(<<>>) = 0 /\ Len(d) - 0 = Len(d) /\ 0 \in 0 .. Len(d)
    BY <1>1
  <2>6. Zeros(Len(d)) \o <<>> = Zeros(Len(d))
    BY <2>3, ConcatEmptySeq
  <2> QED
    BY <2>1, <2>4, <2>5, <2>6 DEF NoLeadingZero
<1>3. CASE nonZero # {}
  <2> DEFINE First(i) == i \in nonZero /\ \A j \in nonZero : i <= j
             f == CHOOSE i \in nonZero : \A j \in nonZero : i <= j
  <2>1. f \in nonZero /\ \A j \in nonZero : f <= j
    <3>1. nonZero \in SUBSET Nat
      BY <1>1
    <3>2. \E i \in nonZero : \A j \in nonZero : i <= j
      <4> HIDE DEF nonZero
      <4> QED
        BY <1>3, <3>1, LeastElement
    <3> HIDE DEF nonZero
    <3> QED
      BY <3>2, Zenon
  <2>2. Trimmed(d) = SubSeq(d, f, Len(d))
    BY <1>3 DEF Trimmed
  <2> HIDE DEF f
  <2>3. f \in 1 .. Len(d) /\ d[f] # 0 /\ \A i \in 1 .. Len(d) : i < f => d[i] = 0
    <3>1. f \in 1 .. Len(d) /\ d[f] # 0
      BY <1>1, <2>1
    <3>2. ASSUME NEW i \in 1 .. Len(d), i < f  PROVE d[i] = 0
      BY <1>1, <2>1, <3>1, <3>2
    <3> QED
      BY <3>1, <3>2
  <2> DEFINE n == f - 1
             z == Zeros(n)
             front == SubSeq(d, 1, n)
             back == SubSeq(d, n + 1, Len(d))
  <2>4. n \in 0 .. Len(d) /\ n \in Nat /\ n + 1 = f
    BY <1>1, <2>3
  <2> HIDE DEF n
  <2>5. /\ front \in Seq(S) /\ Len(front) = n
        /\ back \in Seq(S) /\ Len(back) = Len(d) - n /\ d = front \o back
    BY <2>4, PutTogether
  <2>6. z \in Seq(S) /\ Len(z) = n /\ \A i \in 1 .. n : z[i] = 0
    BY <2>4, ZerosAnywhere
  <2>7. \A i \in 1 .. n : front[i] = 0
    <3> SUFFICES ASSUME NEW i \in 1 .. n  PROVE front[i] = 0
      OBVIOUS
    <3>1. i \in 1 .. Len(d) /\ i < f
      BY <1>1, <2>4
    <3>2. front[i] = d[i]
      BY <1>1, <2>4
    <3> QED
      BY <2>3, <3>1, <3>2
  <2>8. back[1] = d[f]
    BY <1>1, <2>3, <2>4
  <2>9. back = Trimmed(d)
    BY <2>2, <2>4
  <2> HIDE DEF front, back, z
  <2>10. front = z
    <3>1. Len(front) = Len(z) /\ \A i \in 1 .. Len(front) : front[i] = z[i]
      BY <2>5, <2>6, <2>7
    <3> QED
      BY <2>5, <2>6, <3>1, SeqEqual
  <2>11. Len(d) - Len(back) = n /\ Len(back) \in 0 .. Len(d)
    BY <1>1, <2>4, <2>5
  <2>12. d = Zeros(Len(d) - Len(back)) \o back
    BY <2>5, <2>10, <2>11 DEF z
  <2> QED
    BY <2>3, <2>5, <2>8, <2>9, <2>11, <2>12 DEF NoLeadingZero
<1> QED
  BY <1>2, <1>3

\* There is one way to do so.
LEMMA TrimmedIsUnique ==
    ASSUME NEW S, 0 \in S, NEW n \in Nat, NEW t \in Seq(S), NoLeadingZero(t)
    PROVE  Trimmed(Zeros(n) \o t) = t
<1> DEFINE z == Zeros(n)
           d == z \o t
           u == Trimmed(d)
           m == Len(d) - Len(u)
           y == Zeros(m)
<1>1. z \in Seq(S) /\ Len(z) = n /\ \A i \in 1 .. n : z[i] = 0
  BY ZerosAnywhere
<1>2. Len(t) \in Nat
  BY LenProperties
<1> HIDE DEF z
<1>3. /\ d \in Seq(S) /\ Len(d) = n + Len(t)
      /\ \A i \in 1 .. n + Len(t) : d[i] = IF i <= n THEN z[i] ELSE t[i - n]
  BY <1>1, ConcatProperties
<1> HIDE DEF d
<1>4. u \in Seq(S) /\ Len(u) \in 0 .. Len(d) /\ NoLeadingZero(u) /\ d = y \o u
  BY <1>3, TrimmedSplits
<1> HIDE DEF u
<1>5. m \in Nat /\ Len(u) \in Nat /\ m + Len(u) = n + Len(t)
  BY <1>2, <1>3, <1>4
<1> HIDE DEF m
<1>6. y \in Seq(S) /\ Len(y) = m /\ \A i \in 1 .. m : y[i] = 0
  BY <1>5, ZerosAnywhere
<1> HIDE DEF y
<1>7. \A i \in 1 .. m + Len(u) : d[i] = IF i <= m THEN y[i] ELSE u[i - m]
  BY <1>4, <1>6, ConcatProperties
<1>8. ASSUME m < n  PROVE FALSE
  <2> DEFINE i == m + 1
  <2>1. i \in 1 .. n /\ i \in 1 .. m + Len(u) /\ ~(i <= m) /\ i - m = 1 /\ i \in 1 .. n + Len(t) /\ i <= n
    BY <1>2, <1>5, <1>8
  <2>2. u # <<>>
    BY <1>2, <1>5, <1>8
  <2> HIDE DEF i
  <2>3. d[i] = u[1] /\ d[i] = z[i] /\ z[i] = 0
    BY <1>1, <1>3, <1>7, <2>1
  <2> QED
    BY <1>4, <2>2, <2>3 DEF NoLeadingZero
<1>9. ASSUME n < m  PROVE FALSE
  <2> DEFINE i == n + 1
  <2>1. i \in 1 .. m /\ i \in 1 .. n + Len(t) /\ ~(i <= n) /\ i - n = 1 /\ i \in 1 .. m + Len(u) /\ i <= m
    BY <1>2, <1>5, <1>9
  <2>2. t # <<>>
    BY <1>2, <1>5, <1>9
  <2> HIDE DEF i
  <2>3. d[i] = t[1] /\ d[i] = y[i] /\ y[i] = 0
    BY <1>3, <1>6, <1>7, <2>1
  <2> QED
    BY <2>2, <2>3 DEF NoLeadingZero
<1>10. Len(z) = Len(y) /\ z \o t = y \o u
  BY <1>1, <1>4, <1>5, <1>6, <1>8, <1>9 DEF d
<1>11. t = u
  BY <1>1, <1>4, <1>6, <1>10, EqualParts
<1> QED
  BY <1>11 DEF u, d, z

\* What has no leading zero is trimmed already.
LEMMA MinimalIsTrimmed ==
    ASSUME NEW S, 0 \in S, NEW t \in Seq(S)
    PROVE  IsMinimal(t) <=> NoLeadingZero(t)
<1>1. ASSUME NoLeadingZero(t)  PROVE IsMinimal(t)
  <2> DEFINE n == 0
  <2>1. n \in Nat /\ Zeros(n) = <<>>
    BY DEF Zeros
  <2> HIDE DEF n
  <2>2. Trimmed(Zeros(n) \o t) = t
    BY <1>1, <2>1, TrimmedIsUnique
  <2>3. <<>> \o t = t
    BY ConcatEmptySeq
  <2> QED
    BY <2>1, <2>2, <2>3 DEF IsMinimal
<1>2. NoLeadingZero(Trimmed(t))
  BY TrimmedSplits
<1> QED
  BY <1>1, <1>2 DEF IsMinimal

LEMMA TrimmedOfTrimmed ==
    ASSUME NEW S, 0 \in S, NEW d \in Seq(S)
    PROVE  Trimmed(Trimmed(d)) = Trimmed(d)
<1>1. Trimmed(d) \in Seq(S) /\ NoLeadingZero(Trimmed(d))
  BY TrimmedSplits
<1>2. IsMinimal(Trimmed(d))
  BY <1>1, MinimalIsTrimmed
<1> QED
  BY <1>2 DEF IsMinimal

-----------------------------------------------------------------------------
(* Hexadecimal digits *)

\* A byte is told by its two digits.
LEMMA HalvesOfAByte ==
    /\ \A b \in Byte : b \div 16 \in Digits /\ b % 16 \in Digits /\ 16 * (b \div 16) + (b % 16) = b
    /\ \A h, l \in Digits :
          16 * h + l \in Byte /\ (16 * h + l) \div 16 = h /\ (16 * h + l) % 16 = l
<1>1. \A b \in Byte : b \div 16 \in Digits /\ b % 16 \in Digits /\ 16 * (b \div 16) + (b % 16) = b
  BY DEF Byte, Digits
<1>2. ASSUME NEW h \in Digits, NEW l \in Digits
      PROVE  16 * h + l \in Byte /\ (16 * h + l) \div 16 = h /\ (16 * h + l) % 16 = l
  <2>0. h \in 0 .. 15 /\ l \in 0 .. 15
    BY DEF Digits
  <2> DEFINE b == 16 * h + l
  <2>1. b \in Byte
    BY <2>0 DEF Byte
  <2>2. 16 * (b \div 16) + (b % 16) = b /\ b \div 16 \in 0 .. 15 /\ b % 16 \in 0 .. 15
    BY <1>1, <2>1 DEF Digits
  <2> DEFINE q == b \div 16
             r == b % 16
  <2>3. 16 * q + r = b /\ q \in 0 .. 15 /\ r \in 0 .. 15
    BY <2>2
  <2> HIDE DEF q, r
  <2>4. q = h /\ r = l
    BY <2>0, <2>3
  <2> QED
    BY <2>1, <2>4 DEF q, r
<1> QED
  BY <1>1, <1>2

LEMMA OddAndEven ==
    /\ \A k \in Nat : (2 * k) \div 2 = k /\ (2 * k) % 2 = 0 /\ (2 * k - 1) % 2 = 1 /\ (2 * k - 1 + 1) \div 2 = k
    /\ \A i \in Nat : \E k \in Nat : i = 2 * k \/ i = 2 * k - 1
<1>1. \A k \in Nat : (2 * k) \div 2 = k /\ (2 * k) % 2 = 0 /\ (2 * k - 1) % 2 = 1 /\ (2 * k - 1 + 1) \div 2 = k
  OBVIOUS
<1>2. ASSUME NEW i \in Nat  PROVE \E k \in Nat : i = 2 * k \/ i = 2 * k - 1
  <2> DEFINE k == (i + 1) \div 2
  <2>1. k \in Nat /\ (i = 2 * k \/ i = 2 * k - 1)
    OBVIOUS
  <2> QED
    BY <2>1
<1> QED
  BY <1>1, <1>2

LEMMA DigitsType == 0 \in Digits /\ Digits \subseteq Nat /\ Digits \subseteq Byte
  BY DEF Digits, Byte

\* The k-th pair of a sequence
IsPair(u, s, k) == Len(u) = 2 /\ u[1] = s[2 * k - 1] /\ u[2] = s[2 * k]

\* The two digits of a pair make a number of one byte.
LEMMA PairOf ==
    ASSUME NEW S, NEW s \in Seq(S), NEW k \in Nat, k >= 1, 2 * k <= Len(s)
    PROVE  SubSeq(s, 2 * k - 1, 2 * k) \in Seq(S) /\ IsPair(SubSeq(s, 2 * k - 1, 2 * k), s, k)
<1>1. Len(s) \in Nat /\ \A i \in 1 .. Len(s) : s[i] \in S
  BY LenProperties, ElementOfSeq
<1> DEFINE a == 2 * k - 1
           b == 2 * k
<1>2. a \in Int /\ b \in Int /\ a <= b /\ b - a + 1 = 2 /\ a + 1 - 1 = a /\ a + 2 - 1 = b
      /\ \A i \in a .. b : s[i] \in S
  BY <1>1
<1> HIDE DEF a, b
<1>3. /\ SubSeq(s, a, b) \in Seq(S) /\ Len(SubSeq(s, a, b)) = IF a <= b THEN b - a + 1 ELSE 0
      /\ \A i \in 1 .. b - a + 1 : SubSeq(s, a, b)[i] = s[a + i - 1]
  BY <1>2, SubSeqProperties
<1>4. Len(SubSeq(s, a, b)) = 2 /\ \A i \in 1 .. 2 : SubSeq(s, a, b)[i] = s[a + i - 1]
  BY <1>2, <1>3
<1>5. SubSeq(s, a, b)[1] = s[a] /\ SubSeq(s, a, b)[2] = s[b]
  <2>1. 1 \in 1 .. 2 /\ 2 \in 1 .. 2
    OBVIOUS
  <2> QED
    BY <1>2, <1>4, <2>1
<1> QED
  BY <1>3, <1>4, <1>5 DEF a, b, IsPair

AreNibbles(d, bytes) ==
    /\ Len(d) = 2 * Len(bytes)
    /\ \A k \in 1 .. Len(bytes) : d[2 * k - 1] = bytes[k] \div 16 /\ d[2 * k] = bytes[k] % 16

\* Bytes have two digits each.
LEMMA NibblesType ==
    ASSUME NEW bytes \in Seq(Byte)
    PROVE  Nibbles(bytes) \in Seq(Digits) /\ AreNibbles(Nibbles(bytes), bytes)
<1> DEFINE n == Len(bytes)
           d == Nibbles(bytes)
<1>1. n \in Nat /\ \A i \in 1 .. n : bytes[i] \in Byte
  BY LenProperties, ElementOfSeq
<1>2. ASSUME NEW k \in 1 .. n
      PROVE  /\ 2 * k - 1 \in 1 .. 2 * n /\ 2 * k \in 1 .. 2 * n
             /\ d[2 * k - 1] = bytes[k] \div 16 /\ d[2 * k] = bytes[k] % 16
             /\ d[2 * k - 1] \in Digits /\ d[2 * k] \in Digits
  <2>1. 2 * k - 1 \in 1 .. 2 * n /\ 2 * k \in 1 .. 2 * n /\ k \in Nat
    BY <1>1
  <2>2. (2 * k) \div 2 = k /\ (2 * k) % 2 # 1 /\ (2 * k - 1) % 2 = 1 /\ (2 * k - 1 + 1) \div 2 = k
    BY <2>1, OddAndEven
  <2>3. d[2 * k - 1] = bytes[k] \div 16 /\ d[2 * k] = bytes[k] % 16
    BY <2>1, <2>2, Zenon DEF Nibbles
  <2>4. bytes[k] \in Byte
    BY <1>1
  <2> QED
    BY <2>1, <2>3, <2>4, HalvesOfAByte
<1>3. \A i \in 1 .. 2 * n : d[i] \in Digits
  <2> SUFFICES ASSUME NEW i \in 1 .. 2 * n  PROVE d[i] \in Digits
    OBVIOUS
  <2>1. i \in Nat
    BY <1>1
  <2>2. PICK k \in Nat : i = 2 * k \/ i = 2 * k - 1
    BY <2>1, OddAndEven
  <2>3. k \in 1 .. n
    BY <1>1, <2>2
  <2> HIDE DEF d
  <2> QED
    BY <1>2, <2>2, <2>3
<1>4. 2 * n \in Nat /\ d \in [1 .. 2 * n -> Digits]
  <2>1. DOMAIN d = 1 .. 2 * n /\ d = [i \in 1 .. 2 * n |-> d[i]]
    BY DEF Nibbles
  <2> HIDE DEF d
  <2> QED
    BY <1>1, <1>3, <2>1
<1> HIDE DEF d
<1>5. d \in Seq(Digits) /\ Len(d) = 2 * n
  <2> DEFINE m == 2 * n
  <2>1. m \in Nat /\ d \in [1 .. m -> Digits]
    BY <1>4
  <2> HIDE DEF m
  <2>2. d \in Seq(Digits) /\ Len(d) = m
    BY <2>1, FunctionIsSeq
  <2> QED
    BY <2>2 DEF m
<1> QED
  BY <1>2, <1>5 DEF AreNibbles, d

AreJoined(bytes, d) == \A k \in 1 .. Len(bytes) : bytes[k] = 16 * d[2 * k - 1] + d[2 * k]

\* Two digits each make a byte.
LEMMA JoinedType ==
    ASSUME NEW d \in Seq(Digits), NEW h \in Nat, Len(d) = 2 * h
    PROVE  Joined(d) \in Seq(Byte) /\ Len(Joined(d)) = h /\ AreJoined(Joined(d), d)
<1> DEFINE bytes == Joined(d)
<1>1. Len(d) \div 2 = h
  BY OddAndEven
<1>2. bytes = [k \in 1 .. h |-> Number(SubSeq(d, 2 * k - 1, 2 * k), 16)]
  BY <1>1 DEF Joined
<1> HIDE DEF bytes
<1>3. ASSUME NEW k \in 1 .. h
      PROVE  /\ Number(SubSeq(d, 2 * k - 1, 2 * k), 16) = 16 * d[2 * k - 1] + d[2 * k]
             /\ 16 * d[2 * k - 1] + d[2 * k] \in Byte
  <2> DEFINE u == SubSeq(d, 2 * k - 1, 2 * k)
  <2>1. u \in Seq(Digits) /\ IsPair(u, d, k)
    BY PairOf
  <2> HIDE DEF u
  <2>2. u \in Seq(Nat)
    BY <2>1, DigitsType, SeqMonotonic
  <2>3. Number(u, 16) = 16 * u[1] + u[2]
    <3> DEFINE base == 16
    <3>1. base \in {16, 256}
      OBVIOUS
    <3> HIDE DEF base
    <3>2. Len(u) = 2 => Number(u, base) = base * u[1] + u[2]
      BY <2>2, <3>1, ShortNumbers
    <3> QED
      BY <2>1, <3>2 DEF IsPair, base
  <2>4. d[2 * k - 1] \in Digits /\ d[2 * k] \in Digits
    <3>1. 2 * k - 1 \in 1 .. Len(d) /\ 2 * k \in 1 .. Len(d)
      OBVIOUS
    <3> QED
      BY <3>1, ElementOfSeq
  <2>5. 16 * d[2 * k - 1] + d[2 * k] \in Byte
    BY <2>4, HalvesOfAByte
  <2> QED
    BY <2>1, <2>3, <2>5 DEF IsPair, u
<1>4. bytes \in [1 .. h -> Byte] /\ \A k \in 1 .. h : bytes[k] = 16 * d[2 * k - 1] + d[2 * k]
  BY <1>2, <1>3
<1>5. bytes \in Seq(Byte) /\ Len(bytes) = h
  BY <1>4, FunctionIsSeq
<1> QED
  BY <1>4, <1>5 DEF AreJoined, bytes

\* Taken apart and put together again, in either order
LEMMA JoinedNibbles ==
    ASSUME NEW bytes \in Seq(Byte)
    PROVE  Joined(Nibbles(bytes)) = bytes
<1> DEFINE d == Nibbles(bytes)
           b == Joined(d)
           h == Len(bytes)
<1>1. d \in Seq(Digits) /\ AreNibbles(d, bytes)
  BY NibblesType
<1>2. h \in Nat /\ \A i \in 1 .. h : bytes[i] \in Byte
  BY LenProperties, ElementOfSeq
<1>3. Len(d) = 2 * h
  BY <1>1 DEF AreNibbles
<1> HIDE DEF d, h
<1>4. b \in Seq(Byte) /\ Len(b) = h /\ AreJoined(b, d)
  BY <1>1, <1>2, <1>3, JoinedType
<1> HIDE DEF b
<1>5. \A k \in 1 .. h : b[k] = bytes[k]
  <2> SUFFICES ASSUME NEW k \in 1 .. h  PROVE b[k] = bytes[k]
    OBVIOUS
  <2>1. b[k] = 16 * d[2 * k - 1] + d[2 * k]
    BY <1>4 DEF AreJoined
  <2>2. d[2 * k - 1] = bytes[k] \div 16 /\ d[2 * k] = bytes[k] % 16
    BY <1>1 DEF AreNibbles, h
  <2>3. 16 * (bytes[k] \div 16) + (bytes[k] % 16) = bytes[k]
    BY <1>2, HalvesOfAByte
  <2>4. 16 * d[2 * k - 1] + d[2 * k] = bytes[k]
    BY <2>2, <2>3, Zenon
  <2> QED
    BY <2>1, <2>4
<1>6. Len(b) = Len(bytes) /\ \A k \in 1 .. Len(b) : b[k] = bytes[k]
  BY <1>4, <1>5 DEF h
<1>7. b = bytes
  BY <1>4, <1>6, SeqEqual
<1> QED
  BY <1>7 DEF b, d

\* The digits of joined digits are the digits.
LEMMA NibblesOfJoined ==
    ASSUME NEW d \in Seq(Digits), NEW h \in Nat, Len(d) = 2 * h
    PROVE  Nibbles(Joined(d)) = d
<1> DEFINE b == Joined(d)
           n == Nibbles(b)
<1>1. b \in Seq(Byte) /\ Len(b) = h /\ AreJoined(b, d)
  BY JoinedType
<1> HIDE DEF b
<1>2. n \in Seq(Digits) /\ AreNibbles(n, b)
  BY <1>1, NibblesType
<1> HIDE DEF n
<1>3. Len(n) = Len(d)
  BY <1>1, <1>2 DEF AreNibbles
<1>4. ASSUME NEW i \in 1 .. Len(n)  PROVE n[i] = d[i]
  <2>0. Len(n) = 2 * h /\ i \in Nat
    BY <1>3
  <2>1. PICK k \in Nat : i = 2 * k \/ i = 2 * k - 1
    BY <2>0, OddAndEven
  <2>2. k \in 1 .. h /\ 2 * k \in 1 .. Len(d) /\ 2 * k - 1 \in 1 .. Len(d)
    BY <1>3, <2>0, <2>1
  <2>3. d[2 * k - 1] \in Digits /\ d[2 * k] \in Digits
    BY <2>2, ElementOfSeq
  <2>4. b[k] = 16 * d[2 * k - 1] + d[2 * k]
    BY <1>1, <2>2 DEF AreJoined
  <2>5. n[2 * k - 1] = b[k] \div 16 /\ n[2 * k] = b[k] % 16
    BY <1>1, <1>2, <2>2 DEF AreNibbles
  <2>6. n[2 * k - 1] = d[2 * k - 1] /\ n[2 * k] = d[2 * k]
    BY <2>3, <2>4, <2>5, HalvesOfAByte
  <2> QED
    BY <2>1, <2>6
<1>5. n = d
  BY <1>2, <1>3, <1>4, SeqEqual
<1> QED
  BY <1>5 DEF n, b

-----------------------------------------------------------------------------
(* Reading hexadecimal text *)

LEMMA ElementsOf ==
    ASSUME NEW S, NEW s \in Seq(S)
    PROVE  /\ \A i \in 1 .. Len(s) : s[i] \in ToSet(s)
           /\ \A x \in ToSet(s) : \E i \in 1 .. Len(s) : x = s[i]
  BY LenProperties DEF ToSet

\* A pair as it stands: there is no plus sign to take off.
LEMMA PlainPair ==
    ASSUME NEW text \in Seq(Nat), NEW k \in Nat, k >= 1, 2 * k <= Len(text),
           Plus \notin ToSet(text)
    PROVE  /\ Pair(text, k) = SubSeq(text, 2 * k - 1, 2 * k)
           /\ ToSet(Pair(text, k)) = {text[2 * k - 1], text[2 * k]}
<1> DEFINE u == SubSeq(text, 2 * k - 1, 2 * k)
<1>1. u \in Seq(Nat) /\ IsPair(u, text, k)
  BY PairOf
<1>2. Pair(text, k) = Unsigned(u)
  BY DEF Pair
<1> HIDE DEF u
<1>3. text[2 * k - 1] # Plus
  <2>1. 2 * k - 1 \in 1 .. Len(text)
    BY LenProperties
  <2> QED
    BY <2>1, ElementsOf
<1>4. Unsigned(u) = u
  BY <1>1, <1>3 DEF Unsigned, IsPair
<1>5. ToSet(u) = {text[2 * k - 1], text[2 * k]}
  <2>1. DOMAIN u = 1 .. 2
    BY <1>1, LenProperties DEF IsPair
  <2>2. 1 .. 2 = {1, 2}
    OBVIOUS
  <2>3. ToSet(u) = {u[1], u[2]}
    BY <2>1, <2>2 DEF ToSet
  <2> QED
    BY <1>1, <2>3 DEF IsPair
<1> QED
  BY <1>2, <1>4, <1>5 DEF u

\* Why a pair may be in error
LEMMA PairErrors ==
    ASSUME NEW text \in Seq(Nat), NEW k \in Nat, k >= 1, 2 * k <= Len(text)
    PROVE  /\ PairError(text, k) \in {"None", "Invalid", "Panic"}
           /\ PairError(text, k) = "Panic" => Continuation \in ToSet(text)
           /\ PairError(text, k) = "None" => ToSet(Pair(text, k)) \subseteq Digits
           /\ Continuation \notin ToSet(text) /\ ToSet(Pair(text, k)) \subseteq Digits
                 => PairError(text, k) = "None"
<1> DEFINE split == SplitsCharacter(text, 2 * k - 1, 2 * k)
           digits == ToSet(Pair(text, k)) \subseteq Digits
<1>1. PairError(text, k) = IF split THEN "Panic" ELSE IF ~digits THEN "Invalid" ELSE "None"
  <2>1. ~(2 * k > Len(text))
    BY LenProperties
  <2> QED
    BY <2>1, Zenon DEF PairError
<1>2. ASSUME split  PROVE Continuation \in ToSet(text)
  <2>1. Len(text) \in Nat /\ 2 * k - 1 \in 1 .. Len(text)
    BY LenProperties
  <2>2. CASE text[2 * k - 1] = Continuation
    BY <2>1, <2>2, ElementsOf
  <2>3. CASE 2 * k < Len(text) /\ text[2 * k + 1] = Continuation
    <3> DEFINE i == 2 * k + 1
    <3>1. i \in 1 .. Len(text) /\ text[i] = Continuation
      BY <2>1, <2>3
    <3> HIDE DEF i
    <3> QED
      BY <3>1, ElementsOf
  <2> QED
    BY <1>2, <2>2, <2>3 DEF SplitsCharacter
<1> HIDE DEF split, digits
<1>3. /\ PairError(text, k) \in {"None", "Invalid", "Panic"}
      /\ PairError(text, k) = "Panic" => split
      /\ PairError(text, k) = "None" => digits
      /\ ~split /\ digits => PairError(text, k) = "None"
  BY <1>1
<1> QED
  BY <1>2, <1>3 DEF digits

LEMMA DigitsOnly ==
    ASSUME NEW text \in Seq(Digits)
    PROVE  text \in Seq(Nat) /\ Plus \notin ToSet(text) /\ Continuation \notin ToSet(text)
<1>1. text \in Seq(Nat)
  BY DigitsType, SeqMonotonic
<1>2. \A i \in 1 .. Len(text) : text[i] \in Digits
  BY ElementOfSeq
<1>3. \A x \in ToSet(text) : x \in Digits
  BY <1>2, ElementsOf
<1>4. Plus \notin Digits /\ Continuation \notin Digits
  BY DEF Plus, Continuation, Digits
<1> QED
  BY <1>1, <1>3, <1>4

\* parsed is the digits of text joined, wherever text has no plus sign.
JoinsDigits(parsed, text) ==
    /\ parsed.error \in {"None", "Invalid", "Panic"}
    /\ parsed.error = "Panic" => Continuation \in ToSet(text)
    /\ parsed.error = "None" /\ Plus \notin ToSet(text)
          => text \in Seq(Digits) /\ parsed.value = Joined(text)
    /\ text \in Seq(Digits) => parsed = Accepted(Joined(text))

\* What the loop over the pairs of a text returns
LEMMA PairsAreJoined ==
    ASSUME NEW text \in Seq(Nat), NEW h \in Nat, Len(text) = 2 * h
    PROVE  JoinsDigits(ParsePairs(text, h), text)
<1> DEFINE pairs == 1 .. h
           failing == {k \in pairs : PairError(text, k) # "None"}
           value == [k \in pairs |-> Number(Pair(text, k), 16)]
           parsed == ParsePairs(text, h)
<1>1. pairs = 1 .. h /\ \A k \in pairs : k \in Nat /\ k >= 1 /\ 2 * k <= Len(text)
  OBVIOUS
<1>1a. pairs = 1 .. Len(text) \div 2
  <2>1. (2 * h) \div 2 = h
    BY OddAndEven
  <2> QED
    BY <2>1
<1>2. parsed = IF failing = {} THEN Accepted(value) ELSE Refused(PairError(text, Min(failing)))
  BY DEF ParsePairs
<1> HIDE DEF pairs, parsed
<1>3. ASSUME failing # {}  PROVE JoinsDigits(parsed, text)
  <2> DEFINE k == Min(failing)
  <2>1. k \in failing
    <3>1. failing \in SUBSET Nat
      BY <1>1
    <3> HIDE DEF failing
    <3>2. \E x \in failing : \A y \in failing : x <= y
      BY <1>3, <3>1, LeastElement
    <3> QED
      BY <3>2, Zenon DEF Min
  <2> HIDE DEF k
  <2>2. k \in pairs /\ PairError(text, k) # "None" /\ parsed = Refused(PairError(text, k))
    BY <1>2, <1>3, <2>1 DEF k
  <2>3. k \in Nat /\ k >= 1 /\ 2 * k <= Len(text)
    BY <1>1, <2>2
  <2>4. parsed.error = PairError(text, k)
    BY <2>2 DEF Refused
  <2>5. ASSUME text \in Seq(Digits)  PROVE FALSE
    <3>1. Plus \notin ToSet(text) /\ Continuation \notin ToSet(text)
      BY <2>5, DigitsOnly
    <3>2. ToSet(Pair(text, k)) = {text[2 * k - 1], text[2 * k]}
      BY <2>3, <3>1, PlainPair
    <3>3. 2 * k - 1 \in 1 .. Len(text) /\ 2 * k \in 1 .. Len(text)
      BY <2>3
    <3>4. text[2 * k - 1] \in Digits /\ text[2 * k] \in Digits
      BY <2>5, <3>3, ElementOfSeq
    <3>5. PairError(text, k) = "None"
      BY <2>3, <3>1, <3>2, <3>4, PairErrors
    <3> QED
      BY <2>2, <3>5
  <2>6. PairError(text, k) \in {"None", "Invalid", "Panic"}
        /\ (PairError(text, k) = "Panic" => Continuation \in ToSet(text))
    BY <2>3, PairErrors
  <2> QED
    BY <2>2, <2>4, <2>5, <2>6 DEF JoinsDigits
<1>4. ASSUME failing = {}  PROVE JoinsDigits(parsed, text)
  <2>1. parsed = Accepted(value) /\ \A k \in pairs : PairError(text, k) = "None"
    BY <1>2, <1>4
  <2>2. ASSUME Plus \notin ToSet(text)  PROVE text \in Seq(Digits) /\ value = Joined(text)
    <3>1. \A k \in pairs : Pair(text, k) = SubSeq(text, 2 * k - 1, 2 * k)
      BY <1>1, <2>2, PlainPair
    <3>2. value = Joined(text)
      <4>1. value = [k \in pairs |-> Number(SubSeq(text, 2 * k - 1, 2 * k), 16)]
        BY <3>1
      <4> QED
        BY <1>1a, <4>1 DEF Joined
    <3>3. ASSUME NEW k \in pairs  PROVE text[2 * k - 1] \in Digits /\ text[2 * k] \in Digits
      <4>1. k \in Nat /\ k >= 1 /\ 2 * k <= Len(text)
        BY <1>1
      <4>2. ToSet(Pair(text, k)) = {text[2 * k - 1], text[2 * k]}
        BY <2>2, <4>1, PlainPair
      <4>3. ToSet(Pair(text, k)) \subseteq Digits
        BY <2>1, <4>1, PairErrors
      <4> QED
        BY <4>2, <4>3
    <3>4. ASSUME NEW i \in 1 .. Len(text)  PROVE text[i] \in Digits
      <4>0. i \in Nat
        BY LenProperties
      <4>1. PICK k \in Nat : i = 2 * k \/ i = 2 * k - 1
        BY <4>0, OddAndEven
      <4>2. k \in pairs
        BY <1>1, <4>1
      <4> QED
        BY <3>3, <4>1, <4>2
    <3>5. text \in Seq(Digits)
      <4>1. text \in [1 .. Len(text) -> Nat] /\ Len(text) \in Nat
        BY LenProperties
      <4>2. text \in [1 .. Len(text) -> Digits]
        BY <3>4, <4>1
      <4> QED
        BY <4>1, <4>2, FunctionIsSeq
    <3> QED
      BY <3>2, <3>5
  <2>3. text \in Seq(Digits) => Plus \notin ToSet(text)
    BY DigitsOnly
  <2> HIDE DEF value
  <2>4. parsed.error = "None" /\ parsed.value = value
    BY <2>1 DEF Accepted
  <2> QED
    BY <2>1, <2>2, <2>3, <2>4 DEF JoinsDigits
<1> QED
  BY <1>3, <1>4 DEF parsed

\* The prefix of a text
Prefix == <<0, X>>

LEMMA PrefixType == Prefix \in Seq(Nat) /\ Len(Prefix) = 2
  BY DEF Prefix, X

\* What has the prefix is stripped of it.
LEMMA Prefixed ==
    ASSUME NEW digits \in Seq(Nat)
    PROVE  /\ Prefix \o digits \in Seq(Nat)
           /\ Stripped(Prefix \o digits) = Accepted(digits)
           /\ Tail(Tail(Prefix \o digits)) = digits
<1> DEFINE text == Prefix \o digits
<1>1. text \in Seq(Nat) /\ AreTwoParts(text, Prefix, digits)
  BY PrefixType, TwoParts
<1>2. Len(digits) \in Nat
  BY LenProperties
<1>3. Tail(Tail(text)) = digits
  <2> DEFINE t == <<X>> \o digits
             zero == 0
  <2>1. X \in Nat /\ zero \in Nat
    BY DEF X
  <2>2. t \in Seq(Nat) /\ Tail(t) = digits
    BY <2>1, FirstAndRest
  <2>3. text = <<zero>> \o t
    <3>1. Prefix = <<zero>> \o <<X>>
      BY DEF Prefix
    <3>2. <<zero>> \in Seq(Nat) /\ <<X>> \in Seq(Nat)
      BY <2>1
    <3>3. (<<zero>> \o <<X>>) \o digits = <<zero>> \o (<<X>> \o digits)
      BY <3>2, ConcatAssociative
    <3> QED
      BY <3>1, <3>3
  <2> HIDE DEF t, text, zero
  <2>4. Tail(<<zero>> \o t) = t
    BY <2>1, <2>2, FirstAndRest
  <2> QED
    BY <2>2, <2>3, <2>4
<1> HIDE DEF text
<1>4. /\ Len(text) = 2 + Len(digits) /\ SubSeq(text, 1, 2) = <<0, X>>
      /\ SubSeq(text, 3, Len(text)) = digits
  <2>1. /\ Len(text) = Len(Prefix) + Len(digits) /\ SubSeq(text, 1, Len(Prefix)) = Prefix
        /\ SubSeq(text, Len(Prefix) + 1, Len(Prefix) + Len(digits)) = digits
    BY <1>1 DEF AreTwoParts
  <2>2. Len(Prefix) = 2 /\ Len(Prefix) + 1 = 3
    BY PrefixType
  <2> QED
    BY <2>1, <2>2 DEF Prefix
<1>5. Stripped(text) = Accepted(digits)
  <2>1. Len(text) >= 2
    BY <1>2, <1>4
  <2> QED
    BY <1>4, <2>1 DEF Stripped
<1> QED
  BY <1>1, <1>3, <1>5 DEF text

\* What is stripped had the prefix.
LEMMA StrippedSplits ==
    ASSUME NEW text \in Seq(Nat)
    PROVE  \/ Stripped(text) = Refused("Invalid") /\ Stripped(text).error = "Invalid"
           \/ /\ Stripped(text).error = "None" /\ Stripped(text).value \in Seq(Nat)
              /\ text = Prefix \o Stripped(text).value
<1>1. CASE Len(text) >= 2 /\ SubSeq(text, 1, 2) = <<0, X>>
  <2> DEFINE digits == SubSeq(text, 3, Len(text))
             n == 2
  <2>1. n \in 0 .. Len(text) /\ n + 1 = 3
    BY <1>1, LenProperties
  <2> HIDE DEF n
  <2>2. /\ SubSeq(text, n + 1, Len(text)) \in Seq(Nat)
        /\ text = SubSeq(text, 1, n) \o SubSeq(text, n + 1, Len(text))
    BY <2>1, PutTogether
  <2>3. digits \in Seq(Nat) /\ text = Prefix \o digits
    BY <1>1, <2>1, <2>2 DEF n, Prefix
  <2>4. Stripped(text) = Accepted(digits)
    BY <1>1 DEF Stripped
  <2> HIDE DEF digits
  <2>5. Stripped(text).error = "None" /\ Stripped(text).value = digits
    BY <2>4 DEF Accepted
  <2> QED
    BY <2>3, <2>5
<1>2. CASE ~(Len(text) >= 2 /\ SubSeq(text, 1, 2) = <<0, X>>)
  <2>1. Stripped(text) = Refused("Invalid")
    BY <1>2 DEF Stripped
  <2> QED
    BY <2>1 DEF Refused
<1> QED
  BY <1>1, <1>2

LEMMA SymbolsOfAText ==
    ASSUME NEW digits \in Seq(Nat)
    PROVE  ToSet(digits) \subseteq ToSet(Prefix \o digits)
<1> DEFINE text == Prefix \o digits
<1>1. text \in Seq(Nat) /\ Len(text) = 2 + Len(digits)
      /\ \A i \in 1 .. 2 + Len(digits) : text[i] = IF i <= 2 THEN Prefix[i] ELSE digits[i - 2]
  <2>1. /\ text \in Seq(Nat) /\ Len(text) = Len(Prefix) + Len(digits)
        /\ \A i \in 1 .. Len(Prefix) + Len(digits) :
              text[i] = IF i <= Len(Prefix) THEN Prefix[i] ELSE digits[i - Len(Prefix)]
    BY PrefixType, ConcatProperties
  <2> HIDE DEF text
  <2> QED
    BY <2>1, PrefixType
<1> HIDE DEF text
<1>2. Len(digits) \in Nat
  BY LenProperties
<1>3. ASSUME NEW x \in ToSet(digits)  PROVE x \in ToSet(text)
  <2>1. PICK i \in 1 .. Len(digits) : x = digits[i]
    BY ElementsOf
  <2> DEFINE j == i + 2
  <2>2. j \in 1 .. 2 + Len(digits) /\ ~(j <= 2) /\ j - 2 = i
    BY <1>2
  <2> HIDE DEF j
  <2>3. text[j] = digits[i] /\ j \in 1 .. Len(text)
    BY <1>1, <2>2
  <2> QED
    BY <1>1, <2>1, <2>3, ElementsOf
<1> QED
  BY <1>3 DEF text

\* A reading of text that is true to it
IsFaithful(parsed, text) ==
    /\ parsed.error \in {"None", "Invalid", "Panic"}
    /\ parsed.error = "Panic" => Continuation \in ToSet(text)
    /\ parsed.error = "None" => text = ToHex(parsed.value) \/ Plus \in ToSet(text)

\* What the loop makes of pairs is true to them.
LEMMA PairsAreFaithful ==
    ASSUME NEW digits \in Seq(Nat), NEW h \in Nat, Len(digits) = 2 * h
    PROVE  IsFaithful(ParsePairs(digits, h), Prefix \o digits)
<1> DEFINE parsed == ParsePairs(digits, h)
           text == Prefix \o digits
<1>1. JoinsDigits(parsed, digits)
  BY PairsAreJoined
<1>2. ToSet(digits) \subseteq ToSet(text)
  BY SymbolsOfAText
<1> SUFFICES IsFaithful(parsed, text)
  OBVIOUS
<1> HIDE DEF parsed
<1>3. ASSUME parsed.error = "None", Plus \notin ToSet(text)  PROVE text = ToHex(parsed.value)
  <2>1. digits \in Seq(Digits) /\ parsed.value = Joined(digits)
    BY <1>1, <1>2, <1>3 DEF JoinsDigits
  <2>2. Nibbles(parsed.value) = digits
    BY <2>1, NibblesOfJoined
  <2> QED
    BY <2>2 DEF ToHex, Prefix
<1> HIDE DEF text
<1> QED
  BY <1>1, <1>2, <1>3 DEF JoinsDigits, IsFaithful

LEMMA InvalidIsFaithful ==
    ASSUME NEW text  PROVE IsFaithful(Refused("Invalid"), text)
  BY DEF IsFaithful, Refused

\* What the three readers of hexadecimal text accept is true to the text.
LEMMA HexIsFaithful ==
    ASSUME NEW text \in Seq(Nat)
    PROVE  /\ IsFaithful(ParseHex(text), text)
           /\ \A n \in Nat : IsFaithful(ParseFixedHex(text, n), text)
           /\ \A n \in Nat : IsFaithful(ParseThenMeasure(text, n), text)
<1>1. CASE Stripped(text) = Refused("Invalid") /\ Stripped(text).error = "Invalid"
  <2>1. ParseHex(text) = Refused("Invalid") /\ \A n \in Nat : ParseFixedHex(text, n) = Refused("Invalid")
    BY <1>1, Zenon DEF ParseHex, ParseFixedHex
  <2>2. ParseHex(text).error # "None"
    BY <2>1 DEF Refused
  <2>3. \A n \in Nat : ParseThenMeasure(text, n) = Refused("Invalid")
    BY <2>1, <2>2, Zenon DEF ParseThenMeasure
  <2> QED
    BY <2>1, <2>3, InvalidIsFaithful
<1>2. ASSUME Stripped(text).error = "None", Stripped(text).value \in Seq(Nat),
             text = Prefix \o Stripped(text).value
      PROVE  /\ IsFaithful(ParseHex(text), text)
             /\ \A n \in Nat : IsFaithful(ParseFixedHex(text, n), text)
             /\ \A n \in Nat : IsFaithful(ParseThenMeasure(text, n), text)
  <2> DEFINE digits == Stripped(text).value
  <2>1. \A h \in Nat : Len(digits) = 2 * h => IsFaithful(ParsePairs(digits, h), text)
    <3>1. digits \in Seq(Nat) /\ text = Prefix \o digits
      BY <1>2
    <3> HIDE DEF digits
    <3> QED
      BY <3>1, PairsAreFaithful
  <2>2. IsFaithful(ParseHex(text), text)
    <3>1. CASE Len(digits) % 2 # 0
      <4>1. ParseHex(text) = Refused("Invalid")
        BY <1>2, <3>1 DEF ParseHex
      <4> QED
        BY <4>1, InvalidIsFaithful
    <3>2. CASE Len(digits) % 2 = 0
      <4> DEFINE m == Len(digits)
                 h == m \div 2
      <4>1. ParseHex(text) = ParsePairs(digits, h)
        BY <1>2, <3>2 DEF ParseHex
      <4>2. m \in Nat /\ m % 2 = 0
        BY <1>2, <3>2, LenProperties
      <4>3. h \in Nat /\ m = 2 * h
        <5> HIDE DEF m
        <5> QED
          BY <4>2
      <4> HIDE DEF h
      <4> QED
        BY <2>1, <4>1, <4>3
    <3> QED
      BY <3>1, <3>2
  <2>3. ASSUME NEW n \in Nat  PROVE IsFaithful(ParseFixedHex(text, n), text)
    <3>1. CASE Len(digits) # 2 * n
      <4>1. ParseFixedHex(text, n) = Refused("Invalid")
        BY <1>2, <3>1 DEF ParseFixedHex
      <4> QED
        BY <4>1, InvalidIsFaithful
    <3>2. CASE Len(digits) = 2 * n
      <4>1. ParseFixedHex(text, n) = ParsePairs(digits, n)
        BY <1>2, <3>2 DEF ParseFixedHex
      <4> QED
        BY <2>1, <3>2, <4>1
    <3> QED
      BY <3>1, <3>2
  <2>4. ASSUME NEW n \in Nat  PROVE IsFaithful(ParseThenMeasure(text, n), text)
    <3>1. ParseThenMeasure(text, n) \in {Refused("Invalid"), ParseHex(text)}
      BY DEF ParseThenMeasure, Unwrap
    <3> QED
      BY <2>2, <3>1, InvalidIsFaithful
  <2> QED
    BY <2>2, <2>3, <2>4
<1> QED
  BY <1>1, <1>2, StrippedSplits

\* What to_hex writes is read.
LEMMA HexIsRead ==
    ASSUME NEW bytes \in Seq(Byte)
    PROVE  /\ ToHex(bytes) \in Seq(Nat)
           /\ ParseHex(ToHex(bytes)) = Accepted(bytes)
           /\ ParseFixedHex(ToHex(bytes), Len(bytes)) = Accepted(bytes)
           /\ ParseThenMeasure(ToHex(bytes), Len(bytes)) = Accepted(bytes)
<1> DEFINE digits == Nibbles(bytes)
           n == Len(bytes)
           text == Prefix \o digits
<1>1. digits \in Seq(Digits) /\ AreNibbles(digits, bytes)
  BY NibblesType
<1>2. Joined(digits) = bytes
  BY JoinedNibbles
<1>3. n \in Nat
  BY LenProperties
<1>4. ToHex(bytes) = text
  BY DEF ToHex, Prefix
<1>5. Len(digits) = 2 * n
  BY <1>1 DEF AreNibbles
<1>5a. Len(bytes) = n
  OBVIOUS
<1> HIDE DEF digits, n
<1>6. digits \in Seq(Nat)
  BY <1>1, DigitsOnly
<1>7. ParsePairs(digits, n) = Accepted(bytes)
  BY <1>1, <1>2, <1>3, <1>5, <1>6, PairsAreJoined DEF JoinsDigits
<1>8. text \in Seq(Nat) /\ Stripped(text) = Accepted(digits)
  BY <1>6, Prefixed
<1> HIDE DEF text
<1>9. Stripped(text).error = "None" /\ Stripped(text).value = digits
  BY <1>8 DEF Accepted
<1>10. Len(digits) % 2 = 0 /\ Len(digits) \div 2 = n
  BY <1>3, <1>5, OddAndEven
<1>11. ParseHex(text) = Accepted(bytes)
  BY <1>7, <1>9, <1>10, Zenon DEF ParseHex
<1>12. ParseFixedHex(text, n) = Accepted(bytes)
  BY <1>5, <1>7, <1>9, Zenon DEF ParseFixedHex
<1>13. ParseThenMeasure(text, n) = Accepted(bytes)
  <2>1. Accepted(bytes).value = bytes
    BY DEF Accepted
  <2> QED
    BY <1>5a, <1>11, <2>1 DEF ParseThenMeasure, Unwrap
<1> QED
  BY <1>4, <1>5a, <1>8, <1>11, <1>12, <1>13

-----------------------------------------------------------------------------
(* Quantities in hexadecimal text *)

LEMMA OneZero == Trimmed(<<0>>) = <<>> /\ <<0>> \in Seq(Digits)
<1> DEFINE n == 1
<1>1. n \in Nat /\ Zeros(n) = <<0>>
  BY DEF Zeros
<1> HIDE DEF n
<1>2. <<>> \in Seq(Digits) /\ NoLeadingZero(<<>>)
  BY DEF NoLeadingZero
<1>3. Trimmed(Zeros(n) \o <<>>) = <<>>
  BY <1>1, <1>2, DigitsType, TrimmedIsUnique
<1>4. Zeros(n) \in Seq(Digits)
  BY <1>1, DigitsType, ZerosAnywhere
<1>5. Zeros(n) \o <<>> = Zeros(n)
  BY <1>4, ConcatEmptySeq
<1> QED
  BY <1>1, <1>3, <1>4, <1>5

\* The digits to_hex_u128 writes
LEMMA QuantityDigits ==
    ASSUME NEW v \in Seq(Byte)
    PROVE  \E digits \in Seq(Digits) :
              ToHexQuantity(v) = Prefix \o digits /\ digits # <<>> /\ Trimmed(digits) = Trimmed(Nibbles(v))
<1> DEFINE number == Trimmed(Nibbles(v))
           digits == IF number = <<>> THEN <<0>> ELSE number
<1>1. Nibbles(v) \in Seq(Digits)
  BY NibblesType
<1>2. number \in Seq(Digits) /\ Trimmed(number) = number
  BY <1>1, DigitsType, TrimmedSplits, TrimmedOfTrimmed
<1>3. ToHexQuantity(v) = Prefix \o digits
  BY DEF ToHexQuantity, Prefix
<1> HIDE DEF number
<1>4. digits \in Seq(Digits) /\ digits # <<>> /\ Trimmed(digits) = number
  BY <1>2, OneZero
<1> QED
  BY <1>3, <1>4 DEF number

\* Digits without a plus sign
LEMMA UnsignedDigits ==
    ASSUME NEW d \in Seq(Nat), Plus \notin ToSet(d)
    PROVE  Unsigned(d) = d
<1>1. CASE Len(d) > 1
  <2>1. 1 \in 1 .. Len(d)
    BY <1>1, LenProperties
  <2>2. d[1] # Plus
    BY <2>1, ElementsOf
  <2> QED
    BY <2>2 DEF Unsigned
<1>2. CASE ~(Len(d) > 1)
  BY <1>2 DEF Unsigned
<1> QED
  BY <1>1, <1>2

\* A text that has digits only is a sequence of digits.
LEMMA DigitSequence ==
    ASSUME NEW d \in Seq(Nat), ToSet(d) \subseteq Digits
    PROVE  d \in Seq(Digits)
<1>1. d \in [1 .. Len(d) -> Nat] /\ Len(d) \in Nat
  BY LenProperties
<1>2. \A i \in 1 .. Len(d) : d[i] \in Digits
  BY ElementsOf
<1>3. d \in [1 .. Len(d) -> Digits]
  BY <1>1, <1>2
<1> QED
  BY <1>1, <1>3, FunctionIsSeq

\* The digits of a quantity at full width
LEMMA FullWidth ==
    ASSUME NEW d \in Seq(Digits), NEW width \in Nat, Len(Trimmed(d)) <= 2 * width
    PROVE  LET full == Zeros(2 * width - Len(Trimmed(d))) \o Trimmed(d)
           IN  full \in Seq(Digits) /\ Len(full) = 2 * width /\ Trimmed(full) = Trimmed(d)
<1> DEFINE number == Trimmed(d)
           n == 2 * width - Len(number)
           z == Zeros(n)
<1>1. number \in Seq(Digits) /\ NoLeadingZero(number) /\ Len(number) \in Nat
  BY DigitsType, TrimmedSplits, LenProperties
<1> HIDE DEF number
<1>2. n \in Nat /\ n + Len(number) = 2 * width
  BY <1>1 DEF number
<1> HIDE DEF n
<1>3. z \in Seq(Digits) /\ Len(z) = n
  BY <1>2, DigitsType, ZerosAnywhere
<1>4. Trimmed(z \o number) = number
  BY <1>1, <1>2, DigitsType, TrimmedIsUnique
<1> HIDE DEF z
<1>5. z \o number \in Seq(Digits) /\ Len(z \o number) = 2 * width
  <2>1. z \o number \in Seq(Digits) /\ Len(z \o number) = Len(z) + Len(number)
    <3>1. z \o number \in Seq(Digits) /\ AreTwoParts(z \o number, z, number)
      BY <1>1, <1>3, TwoParts
    <3> QED
      BY <3>1 DEF AreTwoParts
  <2> DEFINE w == z \o number
  <2> HIDE DEF w
  <2> QED
    BY <1>2, <1>3, <2>1
<1> QED
  BY <1>4, <1>5 DEF z, n, number

\* A quantity that is accepted differs from its text in leading zeros or a plus sign.
LEMMA QuantitiesAreFaithful ==
    ASSUME NEW text \in Seq(Nat), NEW width \in Nat
    PROVE  LET parsed == ParseQuantity(text, width)
           IN  /\ parsed.error \in {"None", "Invalid"}
               /\ parsed.error = "None" =>
                     \/ Plus \in ToSet(text)
                     \/ Trimmed(Tail(Tail(text))) = Trimmed(Tail(Tail(ToHexQuantity(parsed.value))))
<1> DEFINE parsed == ParseQuantity(text, width)
           d == Stripped(text).value
           number == Trimmed(Unsigned(d))
           full == Zeros(2 * width - Len(number)) \o number
<1>1. \/ parsed = Refused("Invalid")
      \/ /\ Stripped(text).error = "None" /\ d # <<>> /\ ToSet(Unsigned(d)) \subseteq Digits
         /\ ~(Len(number) > 2 * width) /\ parsed = Accepted(Joined(full))
  <2>1. CASE Stripped(text) = Refused("Invalid") /\ Stripped(text).error = "Invalid"
    BY <2>1 DEF ParseQuantity
  <2>2. CASE Stripped(text).error = "None"
    BY <2>2, Zenon DEF ParseQuantity
  <2> QED
    BY <2>1, <2>2, StrippedSplits
<1> HIDE DEF parsed
<1>2. CASE parsed = Refused("Invalid")
  BY <1>2 DEF Refused, parsed
<1>3. ASSUME Stripped(text).error = "None", ToSet(Unsigned(d)) \subseteq Digits,
             ~(Len(number) > 2 * width), parsed = Accepted(Joined(full)),
             Plus \notin ToSet(text)
      PROVE  Trimmed(Tail(Tail(text))) = Trimmed(Tail(Tail(ToHexQuantity(parsed.value))))
  <2>1. d \in Seq(Nat) /\ text = Prefix \o d
    <3>1. Stripped(text).error # "Invalid"
      BY <1>3
    <3> QED
      BY <3>1, StrippedSplits
  <2> HIDE DEF d
  <2>2. Plus \notin ToSet(d) /\ Tail(Tail(text)) = d
    BY <1>3, <2>1, SymbolsOfAText, Prefixed
  <2>3. Unsigned(d) = d
    BY <2>1, <2>2, UnsignedDigits
  <2>4. d \in Seq(Digits) /\ number = Trimmed(d)
    BY <1>3, <2>1, <2>3, DigitSequence
  <2>5. Len(Trimmed(d)) <= 2 * width
    <3>1. Len(Trimmed(d)) \in Nat
      BY <2>4, DigitsType, TrimmedSplits, LenProperties
    <3> QED
      BY <1>3, <2>4, <3>1
  <2>6. full \in Seq(Digits) /\ Len(full) = 2 * width /\ Trimmed(full) = Trimmed(d)
    BY <2>4, <2>5, FullWidth
  <2> HIDE DEF full, number
  <2> DEFINE v == Joined(full)
  <2>7. v \in Seq(Byte) /\ Nibbles(v) = full
    BY <2>6, JoinedType, NibblesOfJoined
  <2>8. parsed.value = v
    BY <1>3 DEF Accepted
  <2> HIDE DEF v
  <2>9. PICK digits \in Seq(Digits) :
           ToHexQuantity(v) = Prefix \o digits /\ Trimmed(digits) = Trimmed(Nibbles(v))
    BY <2>7, QuantityDigits
  <2>10. Tail(Tail(ToHexQuantity(v))) = digits
    BY <2>9, DigitsOnly, Prefixed
  <2> QED
    BY <2>2, <2>6, <2>7, <2>8, <2>9, <2>10
<1>4. ASSUME parsed = Accepted(Joined(full))  PROVE parsed.error = "None"
  BY <1>4 DEF Accepted
<1>5. ASSUME parsed = Refused("Invalid")  PROVE parsed.error = "Invalid"
  BY <1>5 DEF Refused
<1> HIDE DEF full, number, d
<1> SUFFICES /\ parsed.error \in {"None", "Invalid"}
             /\ parsed.error = "None" =>
                     \/ Plus \in ToSet(text)
                     \/ Trimmed(Tail(Tail(text))) = Trimmed(Tail(Tail(ToHexQuantity(parsed.value))))
  BY DEF parsed
<1> QED
  BY <1>1, <1>3, <1>4, <1>5

\* What to_hex_u128 writes is read.
LEMMA QuantitiesAreRead ==
    ASSUME NEW width \in Nat, NEW v \in [1 .. width -> Byte]
    PROVE  ToHexQuantity(v) \in Seq(Nat) /\ ParseQuantity(ToHexQuantity(v), width) = Accepted(v)
<1> DEFINE full == Nibbles(v)
           number == Trimmed(full)
<1>1. v \in Seq(Byte) /\ Len(v) = width
  BY FunctionIsSeq
<1>2. full \in Seq(Digits) /\ Len(full) = 2 * width /\ Joined(full) = v
  BY <1>1, NibblesType, JoinedNibbles DEF AreNibbles
<1>3. PICK digits \in Seq(Digits) :
         ToHexQuantity(v) = Prefix \o digits /\ digits # <<>> /\ Trimmed(digits) = number
  BY <1>1, QuantityDigits
<1> HIDE DEF full
<1>4. /\ Len(number) \in 0 .. Len(full)
      /\ full = Zeros(Len(full) - Len(number)) \o number
  BY <1>2, DigitsType, TrimmedSplits
<1>5. digits \in Seq(Nat) /\ Plus \notin ToSet(digits) /\ ToSet(digits) \subseteq Digits
  <2>1. digits \in Seq(Nat) /\ Plus \notin ToSet(digits)
    BY DigitsOnly
  <2>2. \A x \in ToSet(digits) : x \in Digits
    BY ElementOfSeq, ElementsOf
  <2> QED
    BY <2>1, <2>2
<1>6. Unsigned(digits) = digits
  BY <1>5, UnsignedDigits
<1> DEFINE text == Prefix \o digits
<1>7. text \in Seq(Nat) /\ Stripped(text) = Accepted(digits)
  BY <1>5, Prefixed
<1>7a. ToHexQuantity(v) = text
  BY <1>3
<1> HIDE DEF text
<1>8. Stripped(text).error = "None" /\ Stripped(text).value = digits
  BY <1>7 DEF Accepted
<1> HIDE DEF number
<1>9. ~(Len(number) > 2 * width) /\ Len(full) = 2 * width
  BY <1>2, <1>4
<1>10. ParseQuantity(text, width) = Accepted(Joined(Zeros(2 * width - Len(number)) \o number))
  BY <1>3, <1>5, <1>6, <1>8, <1>9, Zenon DEF ParseQuantity
<1>11. Zeros(2 * width - Len(number)) \o number = full
  BY <1>4, <1>9
<1> QED
  BY <1>2, <1>7, <1>7a, <1>10, <1>11

-----------------------------------------------------------------------------
(* Lengths in up to three bytes *)

MaxPayload == 16777215

\* A length below 2^24 is told by its three bytes.
LEMMA BytesOfALength ==
    /\ \A n \in Nat : n <= MaxPayload =>
          /\ n \div 65536 \in Byte /\ (n \div 256) % 256 \in Byte /\ n % 256 \in Byte
          /\ 65536 * (n \div 65536) + 256 * ((n \div 256) % 256) + (n % 256) = n
    /\ \A x, y, z \in Byte :
          LET n == 65536 * x + 256 * y + z
          IN  n \in Nat /\ n <= MaxPayload /\ n \div 65536 = x /\ (n \div 256) % 256 = y /\ n % 256 = z
<1>1. ASSUME NEW n \in Nat, n <= MaxPayload
      PROVE  /\ n \div 65536 \in Byte /\ (n \div 256) % 256 \in Byte /\ n % 256 \in Byte
             /\ 65536 * (n \div 65536) + 256 * ((n \div 256) % 256) + (n % 256) = n
  <2> DEFINE q == n \div 256
             p == q \div 256
  <2>0. q \in Nat /\ n = 256 * q + (n % 256) /\ n % 256 \in 0 .. 255
    BY SMT
  <2> DEFINE r == n % 256
  <2> HIDE DEF q, r
  <2>1. q \in Nat /\ q <= 65535 /\ n = 256 * q + r /\ r \in 0 .. 255
    <3>1. n = 256 * q + r /\ q \in Nat /\ r \in 0 .. 255
      BY <2>0 DEF r
    <3>2. n <= 16777215
      BY <1>1, SMT DEF MaxPayload
    <3>3. q <= 65535
      BY <3>1, <3>2, SMT
    <3> QED
      BY <3>1, <3>3
  <2>2. p \in 0 .. 255 /\ q = 256 * p + (q % 256) /\ q % 256 \in 0 .. 255
    BY <2>1, SMT
  <2>3. n \div 65536 = p
    BY <2>1, <2>2, SMT
  <2>4. p \in Byte /\ q % 256 \in Byte /\ r \in Byte
    BY <2>1, <2>2 DEF Byte
  <2>5. 65536 * p + 256 * (q % 256) + r = n
    BY <2>1, <2>2, SMT
  <2> HIDE DEF p
  <2> QED
    BY <2>3, <2>4, <2>5, SMT DEF q, r
<1>2. ASSUME NEW x \in Byte, NEW y \in Byte, NEW z \in Byte
      PROVE  LET n == 65536 * x + 256 * y + z
             IN  n \in Nat /\ n <= MaxPayload /\ n \div 65536 = x /\ (n \div 256) % 256 = y /\ n % 256 = z
  <2> DEFINE n == 65536 * x + 256 * y + z
             a == n \div 65536
             b == (n \div 256) % 256
             c == n % 256
  <2>0. x \in 0 .. 255 /\ y \in 0 .. 255 /\ z \in 0 .. 255
    BY SMT DEF Byte
  <2>1. n \in Nat /\ n <= MaxPayload
    BY <2>0, SMT DEF MaxPayload
  <2>2. a \in 0 .. 255 /\ b \in 0 .. 255 /\ c \in 0 .. 255 /\ 65536 * a + 256 * b + c = n
    BY <1>1, <2>1, SMT DEF Byte
  <2> HIDE DEF a, b, c
  <2>3. a = x /\ b = y /\ c = z
    BY <2>0, <2>2, SMT
  <2> QED
    BY <2>1, <2>3, SMT DEF a, b, c
<1> QED
  BY <1>1, <1>2, SMT

LEMMA ThreeOf ==
    ASSUME NEW x \in Byte, NEW y \in Byte, NEW z \in Byte
    PROVE  /\ <<x, y, z>> \in Seq(Byte) /\ Len(<<x, y, z>>) = 3
           /\ <<x, y, z>>[1] = x /\ <<x, y, z>>[2] = y /\ <<x, y, z>>[3] = z
  OBVIOUS

\* A number of up to three bytes, filled up with zeros
IsFilledUp(p, t) ==
    /\ p \in Seq(Byte) /\ Len(p) = 3
    /\ 65536 * p[1] + 256 * p[2] + p[3] = Number(t, 256)

LEMMA FilledUp ==
    ASSUME NEW t \in Seq(Byte), Len(t) <= 3
    PROVE  IsFilledUp(Zeros(3 - Len(t)) \o t, t)
<1> DEFINE m == 3 - Len(t)
           z == Zeros(m)
           p == z \o t
           base == 256
<1>1. Len(t) \in Nat /\ m \in Nat /\ m + Len(t) = 3
  <2> DEFINE l == Len(t)
  <2>1. l \in Nat /\ l <= 3
    BY LenProperties
  <2> HIDE DEF l
  <2>2. l \in Nat /\ 3 - l \in Nat /\ 3 - l + l = 3
    BY <2>1
  <2> QED
    BY <2>2 DEF l
<1> HIDE DEF m
<1>2. z \in Seq(Byte) /\ Len(z) = m /\ \A i \in 1 .. m : z[i] = 0
  BY <1>1, ZerosType
<1> HIDE DEF z
<1>3. /\ p \in Seq(Byte) /\ Len(p) = m + Len(t)
      /\ \A i \in 1 .. m + Len(t) : p[i] = IF i <= m THEN z[i] ELSE t[i - m]
  BY <1>2, ConcatProperties
<1> HIDE DEF p
<1>4. p \in Seq(Byte) /\ Len(p) = 3 /\ \A i \in 1 .. 3 : p[i] = IF i <= m THEN 0 ELSE t[i - m]
  BY <1>1, <1>2, <1>3
<1>5. base \in {16, 256} /\ t \in Seq(Nat)
  BY TextsAreNotBytes, SeqMonotonic
<1>5a. \A i \in 1 .. Len(t) : t[i] \in Nat
  BY <1>5, ElementOfSeq
<1>5b. base = 256
  OBVIOUS
<1> HIDE DEF base
<1>6. /\ Len(t) = 0 => Number(t, base) = 0
      /\ Len(t) = 1 => Number(t, base) = t[1]
      /\ Len(t) = 2 => Number(t, base) = base * t[1] + t[2]
      /\ Len(t) = 3 => Number(t, base) = base * base * t[1] + base * t[2] + t[3]
  BY <1>5, ShortNumbers
<1>7. CASE Len(t) = 0
  <2>1. p[1] = 0 /\ p[2] = 0 /\ p[3] = 0
    BY <1>1, <1>4, <1>7
  <2>2. 65536 * p[1] + 256 * p[2] + p[3] = 0
    BY <2>1, SMT
  <2>3. Number(t, 256) = 0
    BY <1>5b, <1>6, <1>7
  <2> QED
    BY <1>4, <2>2, <2>3, SMT DEF IsFilledUp, m, z, p
<1>8. CASE Len(t) = 1
  <2>1. p[1] = 0 /\ p[2] = 0 /\ p[3] = t[1] /\ t[1] \in Nat
    BY <1>1, <1>4, <1>5a, <1>8
  <2>2. 65536 * p[1] + 256 * p[2] + p[3] = t[1]
    BY <2>1, SMT
  <2> QED
    BY <1>4, <1>5b, <1>6, <1>8, <2>2, SMT DEF IsFilledUp, m, z, p
<1>9. CASE Len(t) = 2
  <2>1. p[1] = 0 /\ p[2] = t[1] /\ p[3] = t[2] /\ t[1] \in Nat /\ t[2] \in Nat
    BY <1>1, <1>4, <1>5a, <1>9
  <2>2. 65536 * p[1] + 256 * p[2] + p[3] = 256 * t[1] + t[2]
    BY <2>1, SMT
  <2> QED
    BY <1>4, <1>5b, <1>6, <1>9, <2>2, SMT DEF IsFilledUp, m, z, p
<1>10. CASE Len(t) = 3
  <2>1. p[1] = t[1] /\ p[2] = t[2] /\ p[3] = t[3] /\ t[1] \in Nat /\ t[2] \in Nat /\ t[3] \in Nat
    BY <1>1, <1>4, <1>5a, <1>10
  <2>2. 256 * 256 * t[1] = 65536 * t[1]
    BY <2>1, SMT
  <2>3. 65536 * p[1] + 256 * p[2] + p[3] = 256 * 256 * t[1] + 256 * t[2] + t[3]
    BY <2>1, <2>2, SMT
  <2> QED
    BY <1>4, <1>5b, <1>6, <1>10, <2>3, SMT DEF IsFilledUp, m, z, p
<1>11. Len(t) = 0 \/ Len(t) = 1 \/ Len(t) = 2 \/ Len(t) = 3
  <2> DEFINE l == Len(t)
  <2>1. l \in Nat /\ l <= 3
    BY <1>1
  <2> HIDE DEF l
  <2>2. l = 0 \/ l = 1 \/ l = 2 \/ l = 3
    BY <2>1
  <2> QED
    BY <2>2 DEF l
<1> QED
  BY <1>7, <1>8, <1>9, <1>10, <1>11

\* The bytes that announce a length ...
IsLength(t, n) == t \in Seq(Byte) /\ 1 <= Len(t) /\ Len(t) <= 3 /\ t[1] # 0 /\ Number(t, 256) = n

\* A length is written in its bytes without leading zeros, and is their number.
LEMMA LengthIsWritten ==
    ASSUME NEW n \in Nat, 56 <= n, n <= MaxPayload
    PROVE  IsLength(LengthBytes(n), n)
<1> DEFINE x == n \div 65536
           y == (n \div 256) % 256
           z == n % 256
           w == <<x, y, z>>
           t == Trimmed(w)
           p == Zeros(3 - Len(t)) \o t
<1>1. x \in Byte /\ y \in Byte /\ z \in Byte /\ 65536 * x + 256 * y + z = n
  BY BytesOfALength, SMT
<1>1a. LengthBytes(n) = t
  BY SMT DEF LengthBytes
<1> HIDE DEF x, y, z
<1>2. w \in Seq(Byte) /\ Len(w) = 3 /\ w[1] = x /\ w[2] = y /\ w[3] = z
  BY <1>1, ThreeOf
<1> HIDE DEF w
<1>3. t \in Seq(Byte) /\ Len(t) \in 0 .. Len(w) /\ NoLeadingZero(t) /\ w = Zeros(Len(w) - Len(t)) \o t
  <2>1. 0 \in Byte
    BY DEF Byte
  <2> QED
    BY <1>2, <2>1, TrimmedSplits
<1> HIDE DEF t
<1>4. Len(t) \in Nat /\ Len(t) <= 3 /\ w = p
  <2> DEFINE l == Len(t)
  <2>1. l \in 0 .. Len(w) /\ Len(w) = 3
    BY <1>2, <1>3
  <2> HIDE DEF l
  <2>2. l \in Nat /\ l <= 3
    BY <2>1
  <2> QED
    BY <1>2, <1>3, <2>2 DEF l
<1>5. IsFilledUp(p, t)
  <2>1. t \in Seq(Byte) /\ Len(t) <= 3
    BY <1>3, <1>4
  <2> QED
    BY <2>1, FilledUp
<1> HIDE DEF p
<1>6. Number(t, 256) = n
  BY <1>1, <1>2, <1>4, <1>5, SMT DEF IsFilledUp
<1>7. t # <<>>
  <2> SUFFICES ASSUME t = <<>>  PROVE FALSE
    OBVIOUS
  <2> DEFINE base == 256
  <2>1. t \in Seq(Nat) /\ base \in {16, 256} /\ Len(t) = 0 /\ Number(t, base) = n
    <3>1. t \in Seq(Nat)
      BY <1>3, TextsAreNotBytes, SeqMonotonic
    <3> QED
      BY <1>6, <3>1
  <2> HIDE DEF base
  <2>2. Number(t, base) = 0
    <3>1. Len(t) = 0 => Number(t, base) = 0
      BY <2>1, ShortNumbers, Zenon
    <3> QED
      BY <2>1, <3>1
  <2> QED
    BY <2>1, <2>2
<1>8. Len(t) # 0
  BY <1>3, <1>7
<1> QED
  BY <1>1a, <1>3, <1>4, <1>6, <1>7, <1>8 DEF IsLength, NoLeadingZero

\* ... are the only ones that do.
LEMMA LengthIsRead ==
    ASSUME NEW t \in Seq(Byte), 1 <= Len(t), Len(t) <= 3, t[1] # 0
    PROVE  LengthBytes(Number(t, 256)) = t /\ Number(t, 256) \in Nat /\ Number(t, 256) <= MaxPayload
<1> DEFINE n == Number(t, 256)
           m == 3 - Len(t)
           p == Zeros(m) \o t
<1>0. Len(t) <= 3 /\ m \in Nat
  <2> DEFINE l == Len(t)
  <2>1. l \in Nat /\ l <= 3
    BY LenProperties
  <2> HIDE DEF l
  <2>2. 3 - l \in Nat
    BY <2>1
  <2> QED
    BY <2>1, <2>2 DEF l
<1>1. IsFilledUp(p, t)
  BY <1>0, FilledUp
<1>2. m \in Nat /\ 0 \in Byte
  BY <1>0 DEF Byte
<1> HIDE DEF m
<1>3. Trimmed(p) = t
  BY <1>2, TrimmedIsUnique DEF NoLeadingZero
<1> HIDE DEF p
<1>4. p \in Seq(Byte) /\ Len(p) = 3 /\ 65536 * p[1] + 256 * p[2] + p[3] = n
  BY <1>1, SMT DEF IsFilledUp
<1> HIDE DEF n
<1>5. p[1] \in Byte /\ p[2] \in Byte /\ p[3] \in Byte
  <2>1. \A i \in 1 .. 3 : p[i] \in Byte
    <3>1. p \in Seq(Byte) /\ Len(p) = 3
      BY <1>4, SMT
    <3> QED
      BY <3>1, ElementOfSeq
  <2> QED
    BY <2>1
<1>6. n \in Nat /\ n <= MaxPayload /\ n \div 65536 = p[1] /\ (n \div 256) % 256 = p[2] /\ n % 256 = p[3]
  BY <1>4, <1>5, BytesOfALength, SMT
<1>7. p = <<p[1], p[2], p[3]>>
  <2>1. DOMAIN p = 1 .. 3
    BY <1>4, LenProperties
  <2> QED
    BY <1>4
<1>8. LengthBytes(n) = Trimmed(p)
  <2>1. LengthBytes(n) = Trimmed(<<p[1], p[2], p[3]>>)
    BY <1>6, SMT DEF LengthBytes
  <2> QED
    BY <1>7, <2>1
<1> QED
  BY <1>3, <1>6, <1>8 DEF n

-----------------------------------------------------------------------------
(* One item of RLP *)

Decoded(list, bytes, rest) == [ok |-> TRUE, list |-> list, bytes |-> bytes, rest |-> rest]

Codes == {128, 192}

\* A single byte that stands for less than 128 is not announced.
IsPlainByte(h, rest) == h = 129 /\ (rest = <<>> \/ rest[1] < 128)

\* DecodeItem by its first byte
LEMMA DecodeFirst ==
    ASSUME NEW h \in Byte, NEW rest \in Seq(Byte)
    PROVE  /\ h < 128 => DecodeItem(<<h>> \o rest) = Decoded(FALSE, <<h>>, rest)
           /\ \A code \in Codes, n \in Nat :
                 n <= 55 /\ h = code + n /\ ~IsPlainByte(h, rest)
                     => DecodeItem(<<h>> \o rest) = Payload(code = 192, n, rest)
           /\ \A code \in Codes, k \in Nat :
                 1 <= k /\ k <= 8 /\ h = code + 55 + k
                     => DecodeItem(<<h>> \o rest) = LongPayload(code = 192, k, rest)
           /\ IsPlainByte(h, rest) => DecodeItem(<<h>> \o rest) = Malformed
<1> DEFINE buf == <<h>> \o rest
           item == DecodeItem(buf)
<1>1. buf # <<>> /\ buf[1] = h /\ Tail(buf) = rest
  BY FirstAndRest
<1> HIDE DEF buf
<1> DEFINE p1 == h < 128
           p2 == h \in 128 .. 183
           p3 == h \in 184 .. 191
           p4 == h \in 192 .. 247
           p5 == h \in 248 .. 255
           r1 == [ok |-> TRUE, list |-> FALSE, bytes |-> <<h>>, rest |-> rest]
           r2 == IF h = 129 /\ (rest = <<>> \/ rest[1] < 128) THEN Malformed
                 ELSE Payload(FALSE, h - 128, rest)
           r3 == LongPayload(FALSE, h - 183, rest)
           r4 == Payload(TRUE, h - 192, rest)
           r5 == LongPayload(TRUE, h - 247, rest)
<1>2. item = CASE p1 -> r1 [] p2 -> r2 [] p3 -> r3 [] p4 -> r4 [] p5 -> r5
  BY <1>1, Zenon DEF DecodeItem
<1>3. h \in Nat /\ h <= 255
  BY DEF Byte
<1>3a. /\ p1 => ~p2 /\ ~p3 /\ ~p4 /\ ~p5
       /\ p2 => ~p1 /\ ~p3 /\ ~p4 /\ ~p5
       /\ p3 => ~p1 /\ ~p2 /\ ~p4 /\ ~p5
       /\ p4 => ~p1 /\ ~p2 /\ ~p3 /\ ~p5
       /\ p5 => ~p1 /\ ~p2 /\ ~p3 /\ ~p4
  BY <1>3
<1> HIDE DEF item, p1, p2, p3, p4, p5, r1, r2, r3, r4, r5
<1>3b. /\ p1 => item = r1
       /\ p2 => item = r2
       /\ p3 => item = r3
       /\ p4 => item = r4
       /\ p5 => item = r5
  BY <1>2, <1>3a
<1>4. ASSUME h < 128  PROVE item = Decoded(FALSE, <<h>>, rest)
  BY <1>3b, <1>4, Zenon DEF p1, r1, Decoded
<1>5. ASSUME h \in 128 .. 183
      PROVE  item = IF IsPlainByte(h, rest) THEN Malformed ELSE Payload(FALSE, h - 128, rest)
  BY <1>3b, <1>5, Zenon DEF p2, r2, IsPlainByte
<1>6. ASSUME h \in 184 .. 191  PROVE item = LongPayload(FALSE, h - 183, rest)
  BY <1>3b, <1>6, Zenon DEF p3, r3
<1>7. ASSUME h \in 192 .. 247  PROVE item = Payload(TRUE, h - 192, rest)
  BY <1>3b, <1>7, Zenon DEF p4, r4
<1>8. ASSUME h \in 248 .. 255  PROVE item = LongPayload(TRUE, h - 247, rest)
  BY <1>3b, <1>8, Zenon DEF p5, r5
<1>9. ASSUME NEW code \in Codes, NEW n \in Nat, n <= 55, h = code + n, ~IsPlainByte(h, rest)
      PROVE  item = Payload(code = 192, n, rest)
  <2>1. CASE code = 128
    <3>1. h \in 128 .. 183 /\ h - 128 = n
      BY <1>9, <2>1
    <3>2. (code = 192) = FALSE
      BY <2>1
    <3>3. item = Payload(FALSE, n, rest)
      BY <1>5, <1>9, <3>1
    <3> QED
      BY <3>2, <3>3
  <2>2. CASE code = 192
    <3>1. h \in 192 .. 247 /\ h - 192 = n
      BY <1>9, <2>2
    <3>2. (code = 192) = TRUE
      BY <2>2
    <3>3. item = Payload(TRUE, n, rest)
      BY <1>7, <3>1
    <3> QED
      BY <3>2, <3>3
  <2> QED
    BY <2>1, <2>2 DEF Codes
<1>10. ASSUME NEW code \in Codes, NEW k \in Nat, 1 <= k, k <= 8, h = code + 55 + k
       PROVE  item = LongPayload(code = 192, k, rest)
  <2>1. CASE code = 128
    <3>1. h \in 184 .. 191 /\ h - 183 = k
      BY <1>10, <2>1
    <3>2. (code = 192) = FALSE
      BY <2>1
    <3>3. item = LongPayload(FALSE, k, rest)
      BY <1>6, <3>1
    <3> QED
      BY <3>2, <3>3
  <2>2. CASE code = 192
    <3>1. h \in 248 .. 255 /\ h - 247 = k
      BY <1>10, <2>2
    <3>2. (code = 192) = TRUE
      BY <2>2
    <3>3. item = LongPayload(TRUE, k, rest)
      BY <1>8, <3>1
    <3> QED
      BY <3>2, <3>3
  <2> QED
    BY <2>1, <2>2 DEF Codes
<1>11. ASSUME IsPlainByte(h, rest)  PROVE item = Malformed
  <2>1. h \in 128 .. 183
    BY <1>3, <1>11 DEF IsPlainByte
  <2> QED
    BY <1>5, <1>11, <2>1
<1> QED
  BY <1>4, <1>9, <1>10, <1>11 DEF item, buf

\* A payload of the announced length is read off the front.
LEMMA PayloadIsRead ==
    ASSUME NEW list, NEW bytes \in Seq(Byte), NEW rest \in Seq(Byte)
    PROVE  Payload(list, Len(bytes), bytes \o rest) = Decoded(list, bytes, rest)
<1> DEFINE n == Len(bytes)
           w == bytes \o rest
<1>1. w \in Seq(Byte) /\ AreTwoParts(w, bytes, rest)
  BY TwoParts
<1> HIDE DEF w
<1>2. /\ Len(w) = n + Len(rest) /\ SubSeq(w, 1, n) = bytes
      /\ SubSeq(w, n + 1, n + Len(rest)) = rest
  BY <1>1 DEF AreTwoParts
<1>3. n \in Nat /\ Len(rest) \in Nat
  BY LenProperties
<1> HIDE DEF n
<1>4. ~(n > Len(w)) /\ SubSeq(w, n + 1, Len(w)) = rest
  BY <1>2, <1>3
<1>5. Payload(list, n, w) = Decoded(list, bytes, rest)
  BY <1>2, <1>4, Zenon DEF Payload, Decoded
<1> QED
  BY <1>5 DEF n, w

\* ... also behind a length of its own
LEMMA LongPayloadIsRead ==
    ASSUME NEW list, NEW bytes \in Seq(Byte), NEW rest \in Seq(Byte), NEW t, IsLength(t, Len(bytes)),
           56 <= Len(bytes)
    PROVE  LongPayload(list, Len(t), t \o (bytes \o rest)) = Decoded(list, bytes, rest)
<1> DEFINE u == bytes \o rest
           w == t \o u
           k == Len(t)
<1>1. t \in Seq(Byte) /\ 1 <= k /\ k <= 3 /\ t[1] # 0 /\ Number(t, 256) = Len(bytes)
  BY DEF IsLength
<1>2. u \in Seq(Byte) /\ Len(u) \in Nat
  BY TwoParts, LenProperties
<1>3. Payload(list, Len(bytes), u) = Decoded(list, bytes, rest)
  BY PayloadIsRead
<1> HIDE DEF u
<1>4. w \in Seq(Byte) /\ AreTwoParts(w, t, u)
  BY <1>1, <1>2, TwoParts
<1>5. w[1] = t[1]
  <2>1. \A i \in 1 .. Len(t) + Len(u) : w[i] = IF i <= Len(t) THEN t[i] ELSE u[i - Len(t)]
    BY <1>1, <1>2, ConcatProperties
  <2>2. Len(t) \in Nat
    BY <1>1, LenProperties
  <2> HIDE DEF w
  <2>3. 1 \in 1 .. Len(t) + Len(u)
    BY <1>1, <1>2, <2>2
  <2> QED
    BY <1>1, <2>1, <2>3
<1> HIDE DEF w
<1>6. /\ Len(w) = k + Len(u) /\ SubSeq(w, 1, k) = t /\ SubSeq(w, k + 1, k + Len(u)) = u
  BY <1>4 DEF AreTwoParts
<1>7. k \in Nat
  BY <1>1, LenProperties
<1> HIDE DEF k
<1>8. ~(k > Len(w)) /\ ~(k > 3) /\ w[1] # 0
  BY <1>1, <1>2, <1>5, <1>6, <1>7
<1>9. ~(Number(SubSeq(w, 1, k), 256) < 56)
  <2> DEFINE m == Len(bytes)
  <2>1. m \in Nat /\ 56 <= m /\ Number(t, 256) = m
    BY <1>1, LenProperties
  <2> HIDE DEF m
  <2>2. ~(m < 56)
    BY <2>1
  <2> QED
    BY <1>6, <2>1, <2>2
<1>10. LongPayload(list, k, w) = Payload(list, Number(SubSeq(w, 1, k), 256), SubSeq(w, k + 1, Len(w)))
  BY <1>8, <1>9 DEF LongPayload
<1>11. Number(SubSeq(w, 1, k), 256) = Len(bytes) /\ SubSeq(w, k + 1, Len(w)) = u
  BY <1>1, <1>6
<1> QED
  BY <1>3, <1>10, <1>11 DEF k, w, u

\* An item behind its header is read off the front of a buffer.
LEMMA HeaderIsRead ==
    ASSUME NEW code \in Codes, NEW bytes \in Seq(Byte), Len(bytes) <= MaxPayload,
           NEW rest \in Seq(Byte), code = 192 \/ ~(Len(bytes) = 1 /\ bytes[1] < 128)
    PROVE  /\ Header(code, Len(bytes)) \in Seq(Byte)
           /\ DecodeItem(Header(code, Len(bytes)) \o (bytes \o rest)) = Decoded(code = 192, bytes, rest)
<1> DEFINE n == Len(bytes)
           u == bytes \o rest
<1>0. code \in Nat /\ code <= 192 /\ code >= 128
  BY DEF Codes
<1>1. n \in Nat /\ u \in Seq(Byte) /\ n <= MaxPayload
  BY LenProperties, TwoParts
<1>2. CASE n <= 55
  <2> DEFINE h == code + n
  <2>1. h \in Byte /\ h = code + n
    <3> HIDE DEF n
    <3> QED
      BY <1>0, <1>1, <1>2 DEF Byte
  <2>2. Header(code, n) = <<h>>
    BY <1>2 DEF Header
  <2>3. ~IsPlainByte(h, u)
    <3> SUFFICES ASSUME IsPlainByte(h, u)  PROVE FALSE
      OBVIOUS
    <3>1. code = 128 /\ n = 1
      <4>1. h = 129
        BY DEF IsPlainByte
      <4> HIDE DEF n
      <4> QED
        BY <1>1, <2>1, <4>1 DEF Codes
    <3>2. ~(bytes[1] < 128)
      BY <3>1
    <3>3. u = <<bytes[1]>> \o rest /\ bytes[1] \in Byte
      <4>1. bytes[1] \in Byte
        <5>1. \A i \in 1 .. 1 : bytes[i] \in Byte
          BY <3>1, ElementOfSeq
        <5> QED
          BY <5>1
      <4>2. bytes = <<bytes[1]>>
        BY <3>1
      <4> QED
        BY <4>1, <4>2
    <3> HIDE DEF u
    <3>4. u # <<>> /\ u[1] = bytes[1]
      BY <3>3, FirstAndRest
    <3> QED
      BY <3>2, <3>4 DEF IsPlainByte
  <2> HIDE DEF h
  <2>4. <<h>> \in Seq(Byte)
    BY <2>1, Singleton
  <2>5. Payload(code = 192, n, u) = Decoded(code = 192, bytes, rest)
    BY PayloadIsRead
  <2> HIDE DEF n, u
  <2>6. DecodeItem(<<h>> \o u) = Payload(code = 192, n, u)
    <3>1. h \in Byte /\ u \in Seq(Byte)
      BY <1>1, <2>1
    <3>2. \A c \in Codes, m \in Nat :
              m <= 55 /\ h = c + m /\ ~IsPlainByte(h, u)
                  => DecodeItem(<<h>> \o u) = Payload(c = 192, m, u)
      BY ONLY <3>1, DecodeFirst, Zenon
    <3> QED
      BY <1>1, <1>2, <2>1, <2>3, <3>2, Zenon
  <2>7. Header(code, n) \in Seq(Byte) /\ DecodeItem(Header(code, n) \o u) = Decoded(code = 192, bytes, rest)
    BY <2>2, <2>4, <2>5, <2>6
  <2> QED
    BY <2>7 DEF n, u
<1>3. CASE ~(n <= 55)
  <2> DEFINE t == LengthBytes(n)
             k == Len(t)
             h == code + 55 + k
             w == t \o u
  <2>1. IsLength(t, n)
    <3> HIDE DEF n
    <3>1. 56 <= n
      BY <1>1, <1>3
    <3> QED
      BY <1>1, <3>1, LengthIsWritten
  <2>2. Header(code, n) = <<h>> \o t
    BY <1>3 DEF Header
  <2>2a. 56 <= Len(bytes) /\ IsLength(t, Len(bytes))
    <3>1. 56 <= n
      <4> HIDE DEF n
      <4> QED
        BY <1>1, <1>3
    <3> QED
      BY <2>1, <3>1
  <2> HIDE DEF t
  <2>3. t \in Seq(Byte) /\ k \in Nat /\ 1 <= k /\ k <= 3
    BY <2>1, LenProperties DEF IsLength
  <2>4. LongPayload(code = 192, k, w) = Decoded(code = 192, bytes, rest)
    BY <2>2a, LongPayloadIsRead
  <2>5. w \in Seq(Byte)
    BY <1>1, <2>3, TwoParts
  <2> HIDE DEF k
  <2>6. h \in Byte /\ h = code + 55 + k
    BY <1>0, <2>3 DEF Byte
  <2> HIDE DEF h
  <2>7. <<h>> \in Seq(Byte) /\ <<h>> \o t \in Seq(Byte)
    BY <2>3, <2>6, Singleton, TwoParts
  <2>8. (<<h>> \o t) \o u = <<h>> \o w
    BY <1>1, <2>3, <2>7, ConcatAssociative
  <2> HIDE DEF w, n, u
  <2>9. DecodeItem(<<h>> \o w) = LongPayload(code = 192, k, w)
    <3>1. k <= 8
      BY <2>3
    <3>2. h \in Byte /\ w \in Seq(Byte)
      BY <2>5, <2>6
    <3>3. \A c \in Codes, m \in Nat :
              1 <= m /\ m <= 8 /\ h = c + 55 + m
                  => DecodeItem(<<h>> \o w) = LongPayload(c = 192, m, w)
      BY ONLY <3>2, DecodeFirst, Zenon
    <3> QED
      BY <2>3, <2>6, <3>1, <3>3, Zenon
  <2>10. Header(code, n) \in Seq(Byte) /\ DecodeItem(Header(code, n) \o u) = Decoded(code = 192, bytes, rest)
    BY <2>2, <2>4, <2>7, <2>8, <2>9
  <2> QED
    BY <2>10 DEF n, u
<1> QED
  BY <1>2, <1>3

\* An item: the bytes of a list or of a string, behind their header if they have one.
Framed(list, bytes) == IF list THEN Header(192, Len(bytes)) \o bytes ELSE Item(bytes)

\* An item is read off the front as it was written.
LEMMA FramedIsRead ==
    ASSUME NEW list \in BOOLEAN, NEW bytes \in Seq(Byte), Len(bytes) <= MaxPayload,
           NEW rest \in Seq(Byte)
    PROVE  /\ Framed(list, bytes) \in Seq(Byte)
           /\ DecodeItem(Framed(list, bytes) \o rest) = Decoded(list, bytes, rest)
<1>1. CASE ~list /\ Len(bytes) = 1 /\ bytes[1] < 128
  <2>1. Framed(list, bytes) = bytes
    BY <1>1 DEF Framed, Item
  <2>2. bytes[1] \in Byte
    <3>1. \A i \in 1 .. 1 : bytes[i] \in Byte
      BY <1>1, ElementOfSeq
    <3> QED
      BY <3>1
  <2>3. bytes = <<bytes[1]>>
    BY <1>1
  <2>4. DecodeItem(<<bytes[1]>> \o rest) = Decoded(FALSE, <<bytes[1]>>, rest)
    BY <1>1, <2>2, DecodeFirst, Zenon
  <2>5. list = FALSE
    BY <1>1
  <2> QED
    BY <2>1, <2>3, <2>4, <2>5
<1>2. CASE ~(~list /\ Len(bytes) = 1 /\ bytes[1] < 128)
  <2> DEFINE code == IF list THEN 192 ELSE 128
             head == Header(code, Len(bytes))
  <2>1. Framed(list, bytes) = head \o bytes
    BY <1>2 DEF Framed, Item
  <2>2. code \in Codes /\ (code = 192) = list /\ (code = 192 \/ ~(Len(bytes) = 1 /\ bytes[1] < 128))
    BY <1>2 DEF Codes
  <2> HIDE DEF code
  <2>3. head \in Seq(Byte) /\ DecodeItem(head \o (bytes \o rest)) = Decoded(code = 192, bytes, rest)
    BY <2>2, HeaderIsRead
  <2> HIDE DEF head
  <2>4. head \o bytes \in Seq(Byte) /\ (head \o bytes) \o rest = head \o (bytes \o rest)
    BY <2>3, TwoParts, ConcatAssociative
  <2> QED
    BY <2>1, <2>2, <2>3, <2>4
<1> QED
  BY <1>1, <1>2

\* Every item that is read is framed so.
IsItem(item, buf) ==
    \E list \in BOOLEAN, bytes \in Seq(Byte), rest \in Seq(Byte) :
        /\ Len(bytes) <= MaxPayload
        /\ item = Decoded(list, bytes, rest)
        /\ buf = Framed(list, bytes) \o rest

IsPayload(item, list, n, buf) ==
    \E bytes \in Seq(Byte), rest \in Seq(Byte) :
        Len(bytes) = n /\ item = Decoded(list, bytes, rest) /\ buf = bytes \o rest

\* What Payload reads is at the front.
LEMMA Payloads ==
    ASSUME NEW list, NEW n \in Nat, NEW buf \in Seq(Byte)
    PROVE  Payload(list, n, buf) = Malformed \/ IsPayload(Payload(list, n, buf), list, n, buf)
<1>1. CASE n > Len(buf)
  BY <1>1 DEF Payload
<1>2. CASE ~(n > Len(buf))
  <2> DEFINE bytes == SubSeq(buf, 1, n)
             rest == SubSeq(buf, n + 1, Len(buf))
  <2>1. n \in 0 .. Len(buf)
    BY <1>2, LenProperties
  <2>2. bytes \in Seq(Byte) /\ Len(bytes) = n /\ rest \in Seq(Byte) /\ buf = bytes \o rest
    BY <2>1, PutTogether
  <2>3. Payload(list, n, buf) = Decoded(list, bytes, rest)
    BY <1>2, Zenon DEF Payload, Decoded
  <2> HIDE DEF bytes, rest
  <2> QED
    BY <2>2, <2>3 DEF IsPayload
<1> QED
  BY <1>1, <1>2

IsLongPayload(item, list, k, buf) ==
    \E t \in Seq(Byte), bytes \in Seq(Byte), rest \in Seq(Byte) :
        /\ Len(t) = k /\ k <= 3 /\ t = LengthBytes(Len(bytes)) /\ 56 <= Len(bytes) /\ Len(bytes) <= MaxPayload
        /\ item = Decoded(list, bytes, rest) /\ buf = t \o (bytes \o rest)

\* What LongPayload reads is behind its minimal length.
LEMMA LongPayloads ==
    ASSUME NEW list, NEW k \in Nat, 1 <= k, NEW buf \in Seq(Byte)
    PROVE  LongPayload(list, k, buf) = Malformed \/ IsLongPayload(LongPayload(list, k, buf), list, k, buf)
<1> DEFINE item == LongPayload(list, k, buf)
           t == SubSeq(buf, 1, k)
           after == SubSeq(buf, k + 1, Len(buf))
           n == Number(t, 256)
           bad == k > Len(buf) \/ k > 3 \/ buf[1] = 0 \/ n < 56
<1>1. item = IF bad THEN Malformed ELSE Payload(list, n, after)
  BY DEF LongPayload
<1>2. CASE bad
  <2> HIDE DEF bad
  <2> QED
    BY <1>1, <1>2
<1>3. CASE ~bad
  <2>1. k \in 0 .. Len(buf) /\ k <= 3 /\ buf[1] # 0 /\ ~(n < 56)
    <3>1. ~(k > Len(buf)) /\ ~(k > 3) /\ buf[1] # 0 /\ ~(n < 56)
      BY <1>3, Zenon
    <3> HIDE DEF n
    <3> QED
      BY <3>1, LenProperties
  <2>2. t \in Seq(Byte) /\ Len(t) = k /\ after \in Seq(Byte) /\ buf = t \o after
    BY <2>1, PutTogether
  <2>3. t[1] = buf[1]
    BY <2>1
  <2>4. item = Payload(list, n, after)
    <3> HIDE DEF bad
    <3> QED
      BY <1>1, <1>3
  <2>4a. n = Number(t, 256)
    OBVIOUS
  <2> HIDE DEF item, t, after, n, bad
  <2>5. LengthBytes(n) = t /\ n \in Nat /\ n <= MaxPayload
    <3>1. 1 <= Len(t) /\ Len(t) <= 3 /\ t[1] # 0
      BY <2>1, <2>2, <2>3
    <3> QED
      BY <2>2, <2>4a, <3>1, LengthIsRead
  <2>6. item = Malformed \/ IsPayload(item, list, n, after)
    BY <2>2, <2>4, <2>5, Payloads
  <2>7. ASSUME IsPayload(item, list, n, after)  PROVE IsLongPayload(item, list, k, buf)
    <3>1. PICK bytes \in Seq(Byte), rest \in Seq(Byte) :
             Len(bytes) = n /\ item = Decoded(list, bytes, rest) /\ after = bytes \o rest
      BY <2>7 DEF IsPayload
    <3>2. 56 <= n
      BY <2>1, <2>5
    <3>3. /\ Len(t) = k /\ k <= 3 /\ t = LengthBytes(Len(bytes)) /\ 56 <= Len(bytes)
          /\ Len(bytes) <= MaxPayload /\ item = Decoded(list, bytes, rest) /\ buf = t \o (bytes \o rest)
      BY <2>1, <2>2, <2>5, <3>1, <3>2
    <3> QED
      BY <2>2, <3>3, Zenon DEF IsLongPayload
  <2> QED
    BY <2>6, <2>7 DEF item
<1> QED
  BY <1>2, <1>3

\* What DecodeItem reads has been written as Item or Header writes it.
LEMMA ItemsAreFramed ==
    ASSUME NEW buf \in Seq(Byte)
    PROVE  DecodeItem(buf) = Malformed \/ IsItem(DecodeItem(buf), buf)
<1> DEFINE item == DecodeItem(buf)
           h == buf[1]
           r == Tail(buf)
<1>1. CASE buf = <<>>
  BY <1>1 DEF DecodeItem
<1>2. CASE buf # <<>>
  <2>1. h \in Byte /\ r \in Seq(Byte) /\ buf = <<h>> \o r
    BY <1>2, FirstOff
  <2> HIDE DEF h, r
  <2>2. <<h>> \in Seq(Byte) /\ Len(<<h>>) = 1 /\ <<h>>[1] = h
    BY <2>1, Singleton
  <2>3. /\ h < 128 => item = Decoded(FALSE, <<h>>, r)
        /\ \A code \in Codes, n \in Nat :
              n <= 55 /\ h = code + n /\ ~IsPlainByte(h, r) => item = Payload(code = 192, n, r)
        /\ \A code \in Codes, k \in Nat :
              1 <= k /\ k <= 8 /\ h = code + 55 + k => item = LongPayload(code = 192, k, r)
        /\ IsPlainByte(h, r) => item = Malformed
    <3> DEFINE first == DecodeItem(<<h>> \o r)
    <3>1. /\ h < 128 => first = Decoded(FALSE, <<h>>, r)
          /\ \A code \in Codes, n \in Nat :
                n <= 55 /\ h = code + n /\ ~IsPlainByte(h, r) => first = Payload(code = 192, n, r)
          /\ \A code \in Codes, k \in Nat :
                1 <= k /\ k <= 8 /\ h = code + 55 + k => first = LongPayload(code = 192, k, r)
          /\ IsPlainByte(h, r) => first = Malformed
      BY <2>1, DecodeFirst, Zenon
    <3>2. first = item
      BY <2>1
    <3> HIDE DEF first, item
    <3> QED
      BY <3>1, <3>2
  <2> HIDE DEF item
  <2>4. \/ h < 128
        \/ \E code \in Codes, n \in Nat : n <= 55 /\ h = code + n
        \/ \E code \in Codes, k \in Nat : 1 <= k /\ k <= 8 /\ h = code + 55 + k
    <3>0. h \in Nat /\ h <= 255
      BY <2>1 DEF Byte
    <3>0a. 128 \in Codes /\ 192 \in Codes
      BY DEF Codes
    <3>1. CASE h < 128
      BY <3>1
    <3>2. CASE 128 <= h /\ h < 184
      <4>1. h - 128 \in Nat /\ h - 128 <= 55 /\ h = 128 + (h - 128)
        BY <3>0, <3>2
      <4> QED
        BY <3>0a, <4>1
    <3>3. CASE 184 <= h /\ h < 192
      <4>1. h - 183 \in Nat /\ 1 <= h - 183 /\ h - 183 <= 8 /\ h = 128 + 55 + (h - 183)
        BY <3>0, <3>3
      <4> QED
        BY <3>0a, <4>1
    <3>4. CASE 192 <= h /\ h < 248
      <4>1. h - 192 \in Nat /\ h - 192 <= 55 /\ h = 192 + (h - 192)
        BY <3>0, <3>4
      <4> QED
        BY <3>0a, <4>1
    <3>5. CASE 248 <= h
      <4>1. h - 247 \in Nat /\ 1 <= h - 247 /\ h - 247 <= 8 /\ h = 192 + 55 + (h - 247)
        BY <3>0, <3>5
      <4> QED
        BY <3>0a, <4>1
    <3> QED
      BY <3>0, <3>1, <3>2, <3>3, <3>4, <3>5
  <2>5. ASSUME h < 128  PROVE IsItem(item, buf)
    <3>1. Framed(FALSE, <<h>>) = <<h>>
      BY <2>2, <2>5 DEF Framed, Item
    <3>2. 1 <= MaxPayload
      BY SMT DEF MaxPayload
    <3>3. Len(<<h>>) <= MaxPayload /\ item = Decoded(FALSE, <<h>>, r) /\ buf = Framed(FALSE, <<h>>) \o r
      BY <2>1, <2>2, <2>3, <2>5, <3>1, <3>2
    <3> QED
      BY <2>1, <2>2, <3>3, Zenon DEF IsItem
  <2>6. ASSUME NEW code \in Codes, NEW n \in Nat, n <= 55, h = code + n, ~IsPlainByte(h, r)
        PROVE  item = Malformed \/ IsItem(item, buf)
    <3> DEFINE list == code = 192
    <3>1. item = Payload(list, n, r)
      BY <2>3, <2>6
    <3>1a. list \in BOOLEAN /\ (~list => code = 128) /\ (list => code = 192)
      BY DEF Codes
    <3> HIDE DEF list
    <3>2. item = Malformed \/ IsPayload(item, list, n, r)
      BY <2>1, <3>1, Payloads
    <3>3. ASSUME IsPayload(item, list, n, r)  PROVE IsItem(item, buf)
      <4>1. PICK bytes \in Seq(Byte), rest \in Seq(Byte) :
               Len(bytes) = n /\ item = Decoded(list, bytes, rest) /\ r = bytes \o rest
        BY <3>3 DEF IsPayload
      <4>2. Header(code, Len(bytes)) = <<h>>
        BY <2>6, <4>1 DEF Header
      <4>3. ASSUME ~list, Len(bytes) = 1, bytes[1] < 128  PROVE FALSE
        <5>1. h = 129
          BY <2>6, <3>1a, <4>1, <4>3
        <5>2. r = <<bytes[1]>> \o rest /\ bytes[1] \in Byte
          <6>1. \A i \in 1 .. 1 : bytes[i] \in Byte
            BY <4>3, ElementOfSeq
          <6>2. bytes = <<bytes[1]>>
            BY <4>3
          <6>3. r = <<bytes[1]>> \o rest
            BY <4>1, <6>2, Zenon
          <6> QED
            BY <6>1, <6>3
        <5>3. r[1] = bytes[1]
          BY <5>2, FirstAndRest
        <5> QED
          BY <2>6, <4>3, <5>1, <5>3 DEF IsPlainByte
      <4>4. Framed(list, bytes) = <<h>> \o bytes
        BY <3>1a, <4>2, <4>3 DEF Framed, Item
      <4>5. buf = Framed(list, bytes) \o rest
        <5>1. (<<h>> \o bytes) \o rest = <<h>> \o (bytes \o rest)
          BY <2>2, ConcatAssociative
        <5> QED
          BY <2>1, <4>1, <4>4, <5>1
      <4>6. Len(bytes) <= MaxPayload
        <5>1. 55 <= MaxPayload
          BY SMT DEF MaxPayload
        <5>2. MaxPayload \in Nat
          BY SMT DEF MaxPayload
        <5> QED
          BY <2>6, <4>1, <5>1, <5>2
      <4> QED
        BY <3>1a, <4>1, <4>5, <4>6, Zenon DEF IsItem
    <3> QED
      BY <3>2, <3>3
  <2>7. ASSUME NEW code \in Codes, NEW k \in Nat, 1 <= k, k <= 8, h = code + 55 + k
        PROVE  item = Malformed \/ IsItem(item, buf)
    <3> DEFINE list == code = 192
    <3>1. item = LongPayload(list, k, r)
      BY <2>3, <2>7
    <3>1a. list \in BOOLEAN /\ (~list => code = 128) /\ (list => code = 192)
      BY DEF Codes
    <3> HIDE DEF list
    <3>2. item = Malformed \/ IsLongPayload(item, list, k, r)
      BY <2>1, <2>7, <3>1, LongPayloads
    <3>3. ASSUME IsLongPayload(item, list, k, r)  PROVE IsItem(item, buf)
      <4>1. PICK t \in Seq(Byte), bytes \in Seq(Byte), rest \in Seq(Byte) :
               /\ Len(t) = k /\ k <= 3 /\ t = LengthBytes(Len(bytes)) /\ 56 <= Len(bytes)
               /\ Len(bytes) <= MaxPayload
               /\ item = Decoded(list, bytes, rest) /\ r = t \o (bytes \o rest)
        BY <3>3 DEF IsLongPayload
      <4>2. ~(Len(bytes) <= 55) /\ Len(bytes) # 1
        <5> DEFINE m == Len(bytes)
        <5>1. m \in Nat /\ 56 <= m
          BY <4>1, LenProperties
        <5> HIDE DEF m
        <5>2. ~(m <= 55) /\ m # 1
          BY <5>1
        <5> QED
          BY <5>2 DEF m
      <4>3. Header(code, Len(bytes)) = <<h>> \o t
        <5>1. Header(code, Len(bytes)) = <<code + 55 + Len(t)>> \o t
          BY <4>1, <4>2, Zenon DEF Header
        <5> QED
          BY <2>7, <4>1, <5>1
      <4>4. Framed(list, bytes) = (<<h>> \o t) \o bytes
        BY <3>1a, <4>2, <4>3 DEF Framed, Item
      <4>5. buf = Framed(list, bytes) \o rest
        <5>1. <<h>> \o t \in Seq(Byte) /\ bytes \o rest \in Seq(Byte)
          BY <2>2, TwoParts
        <5>2. ((<<h>> \o t) \o bytes) \o rest = (<<h>> \o t) \o (bytes \o rest)
          BY <5>1, ConcatAssociative
        <5>3. (<<h>> \o t) \o (bytes \o rest) = <<h>> \o (t \o (bytes \o rest))
          BY <2>2, <5>1, ConcatAssociative
        <5> QED
          BY <2>1, <4>1, <4>4, <5>2, <5>3
      <4> QED
        BY <3>1a, <4>1, <4>5, Zenon DEF IsItem
    <3> QED
      BY <3>2, <3>3
  <2> QED
    BY <2>3, <2>4, <2>5, <2>6, <2>7 DEF item
<1> QED
  BY <1>1, <1>2

-----------------------------------------------------------------------------
(* The fields of a signed transaction *)

Kinds == {"int", "fixed", "bytes", "empty_list", "parity", "word"}

IsList(i) == SignedLayout[i].kind = "empty_list"

\* The twelve fields of a signed transaction
LEMMA Layout ==
    /\ Len(SignedLayout) = 12 /\ DOMAIN SignedLayout = 1 .. 12
    /\ SignedLayout[1] = Field("chain_id", "int", U64)
    /\ SignedLayout[2] = Field("nonce", "int", U64)
    /\ SignedLayout[3] = Field("max_priority_fee_per_gas", "int", U128)
    /\ SignedLayout[4] = Field("max_fee_per_gas", "int", U128)
    /\ SignedLayout[5] = Field("gas_limit", "int", U64)
    /\ SignedLayout[6] = Field("to", "fixed", AddressLen)
    /\ SignedLayout[7] = Field("value", "int", U128)
    /\ SignedLayout[8] = Field("data", "bytes", 0)
    /\ SignedLayout[9] = Field("access_list", "empty_list", 0)
    /\ SignedLayout[10] = Field("y_parity", "parity", 1)
    /\ SignedLayout[11] = Field("r", "word", Word)
    /\ SignedLayout[12] = Field("s", "word", Word)
  BY DEF SignedLayout, UnsignedLayout, AccessList, SignatureLayout

LEMMA LayoutKinds ==
    \A i \in 1 .. 12 :
        /\ SignedLayout[i].kind \in Kinds /\ SignedLayout[i].width \in Nat
        /\ SignedLayout[i].kind = "word" => SignedLayout[i].width = Word
  BY Layout, Widths DEF Field, Kinds

FieldErrors == {"None", "Malformed", "InvalidYParity", "UnrecognizedAccessList"}

\* An item that fits its field ...
Fits(i, bytes, rest) == FieldError(Decoded(IsList(i), bytes, rest), SignedLayout[i]) = "None"

\* ... and what is read from it
ReadValue(i, bytes) ==
    CASE SignedLayout[i].kind = "word" -> Zeros(Word - Len(bytes)) \o bytes
      [] SignedLayout[i].kind \in {"int", "parity"} -> Trimmed(bytes)
      [] OTHER -> bytes

\* A word too long to be filled up is refused before.
LEMMA FieldErrorsType ==
    ASSUME NEW item, NEW i \in 1 .. 12
    PROVE  FieldError(item, SignedLayout[i]) \in FieldErrors
<1> DEFINE field == SignedLayout[i]
<1>1. field.kind = "word" => field.width = Word
  BY LayoutKinds
<1> HIDE DEF field
<1>2. field.kind = "word" /\ Len(item.bytes) > Word => WrongShape(item, field)
  BY <1>1 DEF WrongShape
<1> QED
  BY <1>2 DEF FieldError, FieldErrors, field

\* An item that fits its field is of its kind, and has room for the zeros in front of a word.
LEMMA FittingItems ==
    ASSUME NEW i \in 1 .. 12, NEW item, FieldError(item, SignedLayout[i]) = "None"
    PROVE  /\ item.ok /\ item.list = IsList(i)
           /\ SignedLayout[i].kind = "word" => ~(Len(item.bytes) > Word)
<1> DEFINE field == SignedLayout[i]
<1>1. ~WrongShape(item, field)
  <2> HIDE DEF field
  <2> SUFFICES FieldError(item, field) # "None" \/ ~WrongShape(item, field)
    BY DEF field
  <2> QED
    BY DEF FieldError
<1>2. item.ok /\ item.list = (field.kind = "empty_list")
  <2> HIDE DEF field
  <2> QED
    BY <1>1 DEF WrongShape
<1>3. field.kind = "word" => ~(Len(item.bytes) > field.width)
  <2> HIDE DEF field
  <2> QED
    BY <1>1 DEF WrongShape
<1> QED
  BY <1>2, <1>3, LayoutKinds DEF IsList

LEMMA ReadValueType ==
    ASSUME NEW i \in 1 .. 12, NEW bytes \in Seq(Byte), SignedLayout[i].kind = "word" => Len(bytes) <= Word
    PROVE  ReadValue(i, bytes) \in Seq(Byte)
<1>1. CASE SignedLayout[i].kind = "word"
  <2> DEFINE n == Word - Len(bytes)
             z == Zeros(n)
  <2>1. n \in Nat
    BY <1>1, Widths, LenProperties
  <2>2. z \in Seq(Byte)
    BY <2>1, ZerosType
  <2>3. z \o bytes \in Seq(Byte)
    BY <2>2, TwoParts
  <2>4. ReadValue(i, bytes) = z \o bytes
    BY <1>1 DEF ReadValue
  <2> QED
    BY <2>3, <2>4
<1>2. CASE SignedLayout[i].kind \in {"int", "parity"}
  <2>1. ReadValue(i, bytes) = Trimmed(bytes)
    BY <1>2 DEF ReadValue
  <2>2. 0 \in Byte
    BY DEF Byte
  <2> QED
    BY <2>1, <2>2, TrimmedSplits
<1>3. CASE SignedLayout[i].kind \notin {"word", "int", "parity"}
  BY <1>3 DEF ReadValue
<1> QED
  BY <1>1, <1>2, <1>3

Accs == [error : FieldErrors, rest : Seq(Byte), values : Seq(Seq(Byte))]

After(acc, i, bytes, rest) ==
    [error |-> "None", rest |-> rest, values |-> Append(acc.values, ReadValue(i, bytes))]

\* One field off the front of the body
TakesField(acc, i, bytes, rest) ==
    /\ Len(bytes) <= MaxPayload /\ acc.rest = Framed(IsList(i), bytes) \o rest /\ Fits(i, bytes, rest)

FieldStep(acc, i, next) ==
    /\ next \in Accs
    /\ acc.error # "None" => next = acc
    /\ acc.error = "None" =>
          \/ next.error # "None"
          \/ \E bytes \in Seq(Byte), rest \in Seq(Byte) :
                TakesField(acc, i, bytes, rest) /\ next = After(acc, i, bytes, rest)
    /\ \A bytes \in Seq(Byte), rest \in Seq(Byte) :
          acc.error = "None" /\ TakesField(acc, i, bytes, rest) => next = After(acc, i, bytes, rest)

LEMMA FieldValueIs ==
    ASSUME NEW i, NEW list, NEW bytes, NEW rest
    PROVE  FieldValue(Decoded(list, bytes, rest), SignedLayout[i]) = ReadValue(i, bytes)
<1> DEFINE field == SignedLayout[i]
           item == Decoded(list, bytes, rest)
<1>1. item.bytes = bytes
  BY DEF Decoded
<1> HIDE DEF field, item
<1>2. FieldValue(item, field) =
         CASE field.kind = "word" -> Zeros(Word - Len(bytes)) \o bytes
           [] field.kind \in {"int", "parity"} -> Trimmed(bytes)
           [] OTHER -> bytes
  BY <1>1 DEF FieldValue
<1> QED
  BY <1>2 DEF ReadValue, field, item

\* A step of the loop, as the code takes it
LEMMA DecodeFieldStep ==
    ASSUME NEW acc \in Accs, NEW i \in 1 .. 12
    PROVE  FieldStep(acc, i, DecodeField(acc, SignedLayout[i]))
<1> DEFINE field == SignedLayout[i]
           item == DecodeItem(acc.rest)
           error == FieldError(item, field)
           next == DecodeField(acc, field)
<1>0. acc.rest \in Seq(Byte) /\ acc.values \in Seq(Seq(Byte)) /\ acc.error \in FieldErrors
      /\ acc = [error |-> acc.error, rest |-> acc.rest, values |-> acc.values]
  BY DEF Accs
<1>1. next = IF acc.error # "None" THEN acc
             ELSE IF error # "None" THEN [acc EXCEPT !.error = error]
             ELSE [acc EXCEPT !.rest = item.rest, !.values = Append(@, FieldValue(item, field))]
  BY DEF DecodeField
<1>1a. error \in FieldErrors
  BY FieldErrorsType
<1>2. item = Malformed \/ IsItem(item, acc.rest)
  BY <1>0, ItemsAreFramed
<1>2a. error = FieldError(item, SignedLayout[i])
  OBVIOUS
<1>2b. item = DecodeItem(acc.rest)
  OBVIOUS
<1> HIDE DEF error, item, next
<1>3. CASE acc.error # "None"
  <2>1. next = acc
    BY <1>1, <1>3
  <2> QED
    BY <1>3, <2>1 DEF FieldStep, next
<1>4. ASSUME NEW bytes \in Seq(Byte), NEW rest \in Seq(Byte), TakesField(acc, i, bytes, rest)
      PROVE  item = Decoded(IsList(i), bytes, rest) /\ error = "None"
  <2>1. IsList(i) \in BOOLEAN
    BY DEF IsList
  <2>2. item = Decoded(IsList(i), bytes, rest)
    BY <1>2b, <1>4, <2>1, FramedIsRead DEF TakesField
  <2> QED
    BY <1>2a, <1>4, <2>2 DEF TakesField, Fits
<1>5. CASE acc.error = "None" /\ error # "None"
  <2>1. next = [acc EXCEPT !.error = error]
    BY <1>1, <1>5
  <2>2. next = [error |-> error, rest |-> acc.rest, values |-> acc.values]
    BY <1>0, <2>1
  <2>3. next \in Accs /\ next.error # "None"
    BY <1>0, <1>1a, <1>5, <2>2 DEF Accs
  <2> QED
    BY <1>4, <1>5, <2>3 DEF FieldStep, next
<1>6. CASE acc.error = "None" /\ error = "None"
  <2>1. item.ok /\ item.list = IsList(i) /\ (field.kind = "word" => ~(Len(item.bytes) > Word))
    BY <1>2a, <1>6, FittingItems
  <2>2. item # Malformed
    BY <2>1 DEF Malformed
  <2>3. PICK list \in BOOLEAN, bytes \in Seq(Byte), rest \in Seq(Byte) :
           /\ Len(bytes) <= MaxPayload
           /\ item = Decoded(list, bytes, rest)
           /\ acc.rest = Framed(list, bytes) \o rest
    BY <1>2, <2>2 DEF IsItem
  <2>4. item.list = list /\ item.bytes = bytes /\ item.rest = rest
    BY <2>3 DEF Decoded
  <2>5. list = IsList(i)
    BY <2>1, <2>4
  <2>6. TakesField(acc, i, bytes, rest)
    BY <1>2a, <1>6, <2>3, <2>5 DEF TakesField, Fits
  <2>7. FieldValue(item, field) = ReadValue(i, bytes)
    BY <2>3, FieldValueIs
  <2>8. next = After(acc, i, bytes, rest)
    <3>1. next = [acc EXCEPT !.rest = item.rest, !.values = Append(@, FieldValue(item, field))]
      BY <1>1, <1>6
    <3> HIDE DEF field
    <3> DEFINE v == FieldValue(item, field)
    <3>2. next = [acc EXCEPT !.rest = rest, !.values = Append(@, v)]
      BY <2>4, <3>1
    <3> HIDE DEF v
    <3>3. next = [error |-> acc.error, rest |-> rest, values |-> Append(acc.values, v)]
      BY <1>0, <3>2
    <3> QED
      BY <1>6, <2>7, <3>3 DEF After, v
  <2>9. next \in Accs
    <3>1. ReadValue(i, bytes) \in Seq(Byte)
      <4>1. field.kind = "word" => Len(bytes) <= Word
        BY <2>1, <2>4, Widths, LenProperties
      <4> QED
        BY <4>1, ReadValueType
    <3> DEFINE v == ReadValue(i, bytes)
    <3> HIDE DEF v
    <3>2. Append(acc.values, v) \in Seq(Seq(Byte))
      BY <1>0, <3>1 DEF v
    <3> QED
      BY <1>0, <2>8, <3>2 DEF After, Accs, FieldErrors, v
  <2>10. ASSUME NEW b \in Seq(Byte), NEW r \in Seq(Byte), TakesField(acc, i, b, r)
         PROVE  next = After(acc, i, b, r)
    <3>1. item = Decoded(IsList(i), b, r)
      BY <1>4, <2>10
    <3>2. b = bytes /\ r = rest
      BY <2>4, <3>1 DEF Decoded
    <3> QED
      BY <2>8, <3>2
  <2> QED
    BY <1>6, <2>6, <2>8, <2>9, <2>10 DEF FieldStep, next
<1> QED
  BY <1>0, <1>3, <1>5, <1>6

Start(body) == [error |-> "None", rest |-> body, values |-> <<>>]

ReadFields(body) == FoldLeft(DecodeField, Start(body), SignedLayout)

\* acc[i] is what is known once i fields are read.
IsReading(acc, body) ==
    /\ acc \in [0 .. 12 -> Accs]
    /\ acc[0] = Start(body)
    /\ \A i \in 1 .. 12 : acc[i - 1] \in Accs /\ FieldStep(acc[i - 1], i, acc[i])
    /\ ReadFields(body) = acc[12]

\* The loop over the fields is a recursive function of how many have been read.
LEMMA FieldsAreRead ==
    ASSUME NEW body \in Seq(Byte)
    PROVE  \E acc : IsReading(acc, body)
<1> DEFINE m == 12
           op(a, i) == DecodeField(a, SignedLayout[i])
           F == [p \in Accs \X (1 .. m) |-> op(p[1], p[2])]
           Rec(g) == g = [t \in SUBSET (1 .. m) |->
                             IF t = {} THEN Start(body) ELSE op(g[t \ {Max(t)}], Max(t))]
           iter == CHOOSE h : Rec(h)
<1>1. m \in Nat /\ DOMAIN SignedLayout = 1 .. m
  BY Layout
<1>2. \A a \in Accs, i \in 1 .. m : op(a, i) \in Accs /\ FieldStep(a, i, op(a, i))
  <2> SUFFICES ASSUME NEW a \in Accs, NEW i \in 1 .. 12  PROVE op(a, i) \in Accs /\ FieldStep(a, i, op(a, i))
    OBVIOUS
  <2>1. FieldStep(a, i, op(a, i))
    BY DecodeFieldStep
  <2> HIDE DEF op
  <2> QED
    BY <2>1 DEF FieldStep
<1>3. ReadFields(body) = iter[1 .. m]
  BY <1>1, Zenon DEF ReadFields, FoldLeft, MapThenFoldSet
<1>3a. 1 .. m = 1 .. 12
  OBVIOUS
<1> HIDE DEF op, m
<1>4. F \in [Accs \X (1 .. m) -> Accs] /\ \A a \in Accs, i \in 1 .. m : F[<<a, i>>] = op(a, i)
  BY <1>2
<1> HIDE DEF F
<1>5. Start(body) \in Accs
  BY DEF Start, Accs, FieldErrors
<1> DEFINE base == Start(body)
<1>5a. base \in Accs
  BY <1>5
<1>6. PICK g : IsFold(g, Accs, base, m, F)
  <2> HIDE DEF base
  <2> QED
    BY <1>1, <1>4, <1>5a, FoldExists
<1>7. Rec(g)
  <2>1. \A a \in Accs, i \in 1 .. m : F[<<a, i>>] = op(a, i)
    BY <1>4
  <2> QED
    BY <1>6, <2>1 DEF IsFold
<1>8. Rec(iter)
  BY <1>7, Zenon
<1> HIDE DEF iter
<1>9. Unfolds(iter, Accs, base, m, F)
  <2>1. iter[{}] = base
    BY <1>8
  <2>2. \A t \in SUBSET (1 .. m) :
           t # {} /\ Max(t) \in 1 .. m /\ iter[t \ {Max(t)}] \in Accs
               => iter[t] = F[<<iter[t \ {Max(t)}], Max(t)>>]
    BY <1>4, <1>8
  <2> QED
    BY <2>1, <2>2, Zenon DEF Unfolds
<1> HIDE DEF Rec
<1>10. PICK acc : IsLoop(acc, iter, Accs, base, m, F)
  <2> HIDE DEF base
  <2> QED
    BY <1>1, <1>4, <1>5a, <1>9, FoldIsLoop
<1>11. /\ acc \in [0 .. m -> Accs] /\ acc[0] = base /\ acc[m] = iter[1 .. m]
       /\ \A i \in 1 .. m : acc[i - 1] \in Accs /\ acc[i] = op(acc[i - 1], i)
  BY <1>4, <1>10 DEF IsLoop
<1>12. \A i \in 1 .. m : acc[i - 1] \in Accs /\ FieldStep(acc[i - 1], i, acc[i])
  BY <1>2, <1>11
<1>13. IsReading(acc, body)
  BY <1>3, <1>11, <1>12 DEF IsReading, m
<1> QED
  BY <1>13

\* The items of a body, and what is behind each of them
IsChain(R, B) ==
    /\ R \in [0 .. 12 -> Seq(Byte)] /\ B \in [1 .. 12 -> Seq(Byte)]
    /\ R[12] = <<>>
    /\ \A i \in 1 .. 12 :
          /\ Len(B[i]) <= MaxPayload
          /\ R[i - 1] = Framed(IsList(i), B[i]) \o R[i]
          /\ Fits(i, B[i], R[i])

ReadValues(B, n) == [j \in 1 .. n |-> ReadValue(j, B[j])]

\* A sequence that is given element by element, with one more
IsOneMore(S, V, n, k) ==
    /\ [j \in 1 .. n |-> V[j]] \in Seq(S)
    /\ Append([j \in 1 .. n |-> V[j]], V[k]) = [j \in 1 .. k |-> V[j]]

LEMMA OneMoreElement ==
    ASSUME NEW S, NEW V, NEW n \in Nat, NEW k, k = n + 1, \A j \in 1 .. k : V[j] \in S
    PROVE  IsOneMore(S, V, n, k)
<1> DEFINE v == [j \in 1 .. n |-> V[j]]
           w == [j \in 1 .. k |-> V[j]]
           x == V[k]
           a == Append(v, x)
<1>1. k \in Nat /\ k \in 1 .. k /\ \A j \in 1 .. n : j \in 1 .. k
  OBVIOUS
<1>2. v \in [1 .. n -> S] /\ w \in [1 .. k -> S] /\ x \in S
  BY <1>1
<1>3. (\A j \in 1 .. n : v[j] = V[j]) /\ \A j \in 1 .. k : w[j] = V[j]
  BY <1>1
<1>3a. x = V[k]
  OBVIOUS
<1> HIDE DEF v, w, x
<1>4. v \in Seq(S) /\ Len(v) = n
  BY <1>2, FunctionIsSeq
<1>5. w \in Seq(S) /\ Len(w) = k
  BY <1>1, <1>2, FunctionIsSeq
<1>6. a \in Seq(S) /\ Len(a) = k /\ a[k] = x /\ \A j \in 1 .. n : a[j] = v[j]
  <2>0. x \in S /\ v \in Seq(S)
    BY <1>2, <1>4
  <2>1. /\ Append(v, x) \in Seq(S) /\ Len(Append(v, x)) = Len(v) + 1 /\ Append(v, x)[Len(v) + 1] = x
        /\ \A j \in 1 .. Len(v) : Append(v, x)[j] = v[j]
    BY ONLY <2>0, AppendProperties
  <2> QED
    BY <1>4, <2>1
<1> HIDE DEF a
<1>7. \A j \in 1 .. k : a[j] = w[j]
  <2> SUFFICES ASSUME NEW j \in 1 .. k  PROVE a[j] = w[j]
    OBVIOUS
  <2>1. j \in 1 .. n \/ j = k
    OBVIOUS
  <2> QED
    BY <1>1, <1>3, <1>3a, <1>6, <2>1
<1>8. a = w
  BY <1>5, <1>6, <1>7, SeqEqual
<1> QED
  BY <1>4, <1>8 DEF IsOneMore, a, v, w, x

\* One more value
LEMMA OneMoreValue ==
    ASSUME NEW B, NEW n \in Nat, n + 1 <= 12, \A i \in 1 .. 12 : ReadValue(i, B[i]) \in Seq(Byte)
    PROVE  /\ ReadValues(B, n) \in Seq(Seq(Byte))
           /\ Append(ReadValues(B, n), ReadValue(n + 1, B[n + 1])) = ReadValues(B, n + 1)
<1>0. \A j \in 1 .. n + 1 : j \in 1 .. 12
  OBVIOUS
<1> DEFINE k == n + 1
<1>1. k = n + 1 /\ k \in Nat /\ \A j \in 1 .. k : j \in 1 .. 12
  BY <1>0
<1> DEFINE V == [i \in 1 .. 12 |-> ReadValue(i, B[i])]
           S == Seq(Byte)
<1>2. \A j \in 1 .. k : V[j] = ReadValue(j, B[j]) /\ V[j] \in S
  BY <1>1
<1> HIDE DEF V, S, k
<1>3. /\ [j \in 1 .. n |-> V[j]] \in Seq(S)
      /\ Append([j \in 1 .. n |-> V[j]], V[k]) = [j \in 1 .. k |-> V[j]]
  <2>1. k = n + 1 /\ \A j \in 1 .. k : V[j] \in S
    BY <1>1, <1>2
  <2>2. QED
    <3>1. IsOneMore(S, V, n, k)
      BY <2>1, OneMoreElement, Zenon
    <3> QED
      BY <3>1 DEF IsOneMore
<1>4. k \in 1 .. k /\ \A j \in 1 .. n : j \in 1 .. k
  BY <1>1
<1>5. ReadValues(B, n) = [j \in 1 .. n |-> V[j]] /\ ReadValues(B, k) = [j \in 1 .. k |-> V[j]]
      /\ ReadValue(k, B[k]) = V[k]
  BY <1>2, <1>4 DEF ReadValues
<1> QED
  BY <1>1, <1>3, <1>5 DEF S

\* The values read of a chain are bytes.
LEMMA ChainValues ==
    ASSUME NEW R, NEW B, IsChain(R, B)
    PROVE  \A i \in 1 .. 12 : ReadValue(i, B[i]) \in Seq(Byte)
<1> SUFFICES ASSUME NEW i \in 1 .. 12  PROVE ReadValue(i, B[i]) \in Seq(Byte)
  OBVIOUS
<1> DEFINE item == Decoded(IsList(i), B[i], R[i])
<1>1. B[i] \in Seq(Byte) /\ FieldError(item, SignedLayout[i]) = "None"
  BY DEF IsChain, Fits
<1>2. item.bytes = B[i]
  BY DEF Decoded
<1> HIDE DEF item
<1>3. SignedLayout[i].kind = "word" => ~(Len(item.bytes) > Word)
  BY <1>1, FittingItems
<1>4. SignedLayout[i].kind = "word" => Len(B[i]) <= Word
  BY <1>1, <1>2, <1>3, Widths, LenProperties
<1> QED
  BY <1>1, <1>4, ReadValueType

\* The body of a chain is read as what it is put together from.
LEMMA ChainIsRead ==
    ASSUME NEW R, NEW B, IsChain(R, B)
    PROVE  ReadFields(R[0]) = [error |-> "None", rest |-> <<>>, values |-> ReadValues(B, 12)]
<1>1. /\ R \in [0 .. 12 -> Seq(Byte)] /\ B \in [1 .. 12 -> Seq(Byte)] /\ R[12] = <<>>
      /\ \A i \in 1 .. 12 :
            /\ Len(B[i]) <= MaxPayload
            /\ R[i - 1] = Framed(IsList(i), B[i]) \o R[i]
            /\ Fits(i, B[i], R[i])
  BY DEF IsChain
<1>2. \A i \in 1 .. 12 : ReadValue(i, B[i]) \in Seq(Byte)
  BY ChainValues
<1>3. R[0] \in Seq(Byte)
  BY <1>1
<1>4. PICK acc : IsReading(acc, R[0])
  BY <1>3, FieldsAreRead
<1> DEFINE known(n) == [error |-> "None", rest |-> R[n], values |-> ReadValues(B, n)]
           S == {n \in Nat : n <= 12 => acc[n] = known(n)}
<1>5. 0 \in S
  <2>1. ReadValues(B, 0) = <<>>
    BY DEF ReadValues
  <2>2. acc[0] = Start(R[0])
    BY <1>4 DEF IsReading
  <2> QED
    BY <2>1, <2>2 DEF Start
<1>6. \A n \in Nat : n \in S => n + 1 \in S
  <2> SUFFICES ASSUME NEW n \in Nat, n + 1 <= 12, acc[n] = known(n)  PROVE acc[n + 1] = known(n + 1)
    BY DEF S
  <2> DEFINE i == n + 1
             bytes == B[i]
             rest == R[i]
  <2>1. i \in 1 .. 12 /\ i - 1 = n /\ i \in 0 .. 12
    OBVIOUS
  <2>1a. i = n + 1
    OBVIOUS
  <2> HIDE DEF i
  <2>2. FieldStep(acc[n], i, acc[i])
    BY <1>4, <2>1 DEF IsReading
  <2>3. bytes \in Seq(Byte) /\ rest \in Seq(Byte)
    BY <1>1, <2>1
  <2>4. acc[n].error = "None" /\ acc[n].rest = R[n] /\ acc[n].values = ReadValues(B, n)
    OBVIOUS
  <2>5. TakesField(acc[n], i, bytes, rest)
    BY <1>1, <2>1, <2>4 DEF TakesField
  <2>6. acc[i] = After(acc[n], i, bytes, rest)
    <3> HIDE DEF bytes, rest
    <3> QED
      BY <2>2, <2>3, <2>4, <2>5 DEF FieldStep
  <2>7. Append(ReadValues(B, n), ReadValue(i, B[i])) = ReadValues(B, i)
    BY <1>2, <2>1, <2>1a, OneMoreValue
  <2> QED
    BY <2>1a, <2>4, <2>6, <2>7 DEF After
<1>7. 12 \in S
  <2> HIDE DEF S
  <2>1. \A n \in Nat : n \in S
    BY <1>5, <1>6, NatInductionOnSets
  <2> QED
    BY <2>1
<1>8. acc[12] = known(12)
  BY <1>7
<1> QED
  BY <1>1, <1>4, <1>8 DEF IsReading

\* A body that is read to its end is a chain.
LEMMA ReadIsChain ==
    ASSUME NEW body \in Seq(Byte), ReadFields(body).error = "None", ReadFields(body).rest = <<>>
    PROVE  \E R, B : /\ IsChain(R, B) /\ R[0] = body
                     /\ ReadFields(body).values = ReadValues(B, 12)
<1>1. PICK acc : IsReading(acc, body)
  BY FieldsAreRead
<1>2. /\ acc \in [0 .. 12 -> Accs] /\ acc[0] = Start(body) /\ ReadFields(body) = acc[12]
      /\ \A i \in 1 .. 12 : acc[i - 1] \in Accs /\ FieldStep(acc[i - 1], i, acc[i])
  BY <1>1 DEF IsReading
<1>3. \A n \in 0 .. 12 : acc[n].error = "None"
  <2> DEFINE good(n) == n <= 12 => acc[12 - n].error = "None"
             S == {n \in Nat : good(n)}
  <2>1. good(0)
    <3>1. 12 - 0 = 12
      OBVIOUS
    <3> QED
      BY <1>2, <3>1
  <2>2. ASSUME NEW n \in Nat, good(n)  PROVE good(n + 1)
    <3> SUFFICES ASSUME n + 1 <= 12  PROVE acc[12 - (n + 1)].error = "None"
      OBVIOUS
    <3> DEFINE i == 12 - n
    <3>1. n <= 12 /\ i \in 1 .. 12 /\ 12 - (n + 1) = i - 1
      OBVIOUS
    <3>2. acc[i].error = "None"
      BY <2>2, <3>1
    <3> HIDE DEF i
    <3>3. acc[i - 1].error # "None" => acc[i] = acc[i - 1]
      BY <1>2, <3>1 DEF FieldStep
    <3> QED
      BY <3>1, <3>2, <3>3
  <2> HIDE DEF good
  <2>3. 0 \in S /\ \A n \in Nat : n \in S => n + 1 \in S
    BY <2>1, <2>2
  <2> HIDE DEF S
  <2>4. \A n \in Nat : n \in S
    BY <2>3, NatInductionOnSets
  <2> SUFFICES ASSUME NEW n \in 0 .. 12  PROVE acc[n].error = "None"
    OBVIOUS
  <2> DEFINE l == 12 - n
  <2>5. l \in Nat /\ l <= 12 /\ 12 - l = n
    OBVIOUS
  <2> HIDE DEF l
  <2>6. good(l)
    BY <2>4, <2>5 DEF S
  <2> QED
    BY <2>5, <2>6 DEF good
<1>4. \A i \in 1 .. 12 : \E bytes \in Seq(Byte) :
         TakesField(acc[i - 1], i, bytes, acc[i].rest) /\ acc[i] = After(acc[i - 1], i, bytes, acc[i].rest)
  <2> SUFFICES ASSUME NEW i \in 1 .. 12
               PROVE  \E bytes \in Seq(Byte) :
                         /\ TakesField(acc[i - 1], i, bytes, acc[i].rest)
                         /\ acc[i] = After(acc[i - 1], i, bytes, acc[i].rest)
    OBVIOUS
  <2>1. acc[i].error = "None" /\ acc[i - 1].error = "None" /\ FieldStep(acc[i - 1], i, acc[i])
    BY <1>2, <1>3
  <2>2. PICK bytes \in Seq(Byte), rest \in Seq(Byte) :
           TakesField(acc[i - 1], i, bytes, rest) /\ acc[i] = After(acc[i - 1], i, bytes, rest)
    BY <2>1 DEF FieldStep
  <2>3. acc[i].rest = rest
    BY <2>2 DEF After
  <2> QED
    BY <2>2, <2>3
<1> DEFINE R == [i \in 0 .. 12 |-> acc[i].rest]
           B == [i \in 1 .. 12 |-> CHOOSE bytes \in Seq(Byte) :
                    /\ TakesField(acc[i - 1], i, bytes, acc[i].rest)
                    /\ acc[i] = After(acc[i - 1], i, bytes, acc[i].rest)]
<1>5. \A i \in 1 .. 12 : /\ B[i] \in Seq(Byte) /\ TakesField(acc[i - 1], i, B[i], R[i])
                         /\ acc[i] = After(acc[i - 1], i, B[i], R[i])
  <2> SUFFICES ASSUME NEW i \in 1 .. 12
               PROVE  /\ B[i] \in Seq(Byte) /\ TakesField(acc[i - 1], i, B[i], R[i])
                      /\ acc[i] = After(acc[i - 1], i, B[i], R[i])
    OBVIOUS
  <2>1. B[i] = CHOOSE bytes \in Seq(Byte) :
                    /\ TakesField(acc[i - 1], i, bytes, acc[i].rest)
                    /\ acc[i] = After(acc[i - 1], i, bytes, acc[i].rest)
    OBVIOUS
  <2>2. R[i] = acc[i].rest
    OBVIOUS
  <2> HIDE DEF R, B
  <2>3. /\ B[i] \in Seq(Byte) /\ TakesField(acc[i - 1], i, B[i], acc[i].rest)
        /\ acc[i] = After(acc[i - 1], i, B[i], acc[i].rest)
    BY <1>4, <2>1, Zenon
  <2> QED
    BY <2>2, <2>3
<1>6. /\ R \in [0 .. 12 -> Seq(Byte)] /\ DOMAIN B = 1 .. 12 /\ B = [i \in 1 .. 12 |-> B[i]]
      /\ \A i \in 0 .. 12 : R[i] = acc[i].rest
  <2>1. \A i \in 0 .. 12 : acc[i].rest \in Seq(Byte)
    BY <1>2 DEF Accs
  <2> QED
    BY <2>1
<1> HIDE DEF R, B
<1>7. B \in [1 .. 12 -> Seq(Byte)]
  BY <1>5, <1>6
<1>8. R[12] = <<>> /\ R[0] = body
  <2>1. 0 \in 0 .. 12 /\ 12 \in 0 .. 12
    OBVIOUS
  <2>2. R[0] = acc[0].rest /\ R[12] = acc[12].rest
    BY <1>6, <2>1, Zenon
  <2> QED
    BY <1>2, <2>2 DEF Start
<1>9. \A i \in 1 .. 12 : /\ Len(B[i]) <= MaxPayload /\ R[i - 1] = Framed(IsList(i), B[i]) \o R[i]
                         /\ Fits(i, B[i], R[i])
  <2> SUFFICES ASSUME NEW i \in 1 .. 12
               PROVE  /\ Len(B[i]) <= MaxPayload /\ R[i - 1] = Framed(IsList(i), B[i]) \o R[i]
                      /\ Fits(i, B[i], R[i])
    OBVIOUS
  <2>1. i - 1 \in 0 .. 12
    OBVIOUS
  <2>2. R[i - 1] = acc[i - 1].rest
    BY <1>6, <2>1
  <2> QED
    BY <1>5, <2>2 DEF TakesField
<1>10. IsChain(R, B)
  BY <1>6, <1>7, <1>8, <1>9 DEF IsChain
<1>11. \A i \in 1 .. 12 : ReadValue(i, B[i]) \in Seq(Byte)
  BY <1>10, ChainValues
<1>12. acc[12].values = ReadValues(B, 12)
  <2> DEFINE S == {n \in Nat : n <= 12 => acc[n].values = ReadValues(B, n)}
  <2>1. 0 \in S
    <3>1. ReadValues(B, 0) = <<>>
      BY DEF ReadValues
    <3> QED
      BY <1>2, <3>1 DEF Start
  <2>2. \A n \in Nat : n \in S => n + 1 \in S
    <3> SUFFICES ASSUME NEW n \in Nat, n + 1 <= 12, acc[n].values = ReadValues(B, n)
                 PROVE  acc[n + 1].values = ReadValues(B, n + 1)
      BY DEF S
    <3> DEFINE i == n + 1
    <3>1. i \in 1 .. 12 /\ i - 1 = n
      OBVIOUS
    <3>1a. i = n + 1
      OBVIOUS
    <3> HIDE DEF i
    <3>2. acc[i] = After(acc[n], i, B[i], R[i])
      BY <1>5, <3>1
    <3>3. Append(ReadValues(B, n), ReadValue(i, B[i])) = ReadValues(B, i)
      BY <1>11, <3>1, <3>1a, OneMoreValue
    <3>4. acc[i].values = Append(acc[n].values, ReadValue(i, B[i]))
      BY <3>2 DEF After
    <3> QED
      BY <3>1a, <3>3, <3>4
  <2>3. 12 \in S
    <3> HIDE DEF S
    <3>1. \A n \in Nat : n \in S
      BY <2>1, <2>2, NatInductionOnSets
    <3> QED
      BY <3>1
  <2> QED
    BY <2>3
<1> QED
  BY <1>2, <1>8, <1>10, <1>12

LEMMA ReadFieldsType ==
    ASSUME NEW body \in Seq(Byte)
    PROVE  ReadFields(body).error \in FieldErrors
<1>1. PICK acc : IsReading(acc, body)
  BY FieldsAreRead
<1>2. acc[12] \in Accs /\ ReadFields(body) = acc[12]
  BY <1>1 DEF IsReading
<1> QED
  BY <1>2 DEF Accs

-----------------------------------------------------------------------------
(* Signed transactions, put together from their items *)

\* The bytes that fit a field
HasShape(field, bytes) ==
    /\ field.kind = "fixed" => Len(bytes) = field.width
    /\ field.kind \in {"int", "parity", "word"} => ~(Len(bytes) > field.width)
    /\ field.kind \in {"int", "parity"} => IsMinimal(bytes)
    /\ field.kind = "parity" => bytes \in {<<>>, <<1>>}
    /\ field.kind = "empty_list" => bytes = <<>>

LEMMA ShapesFit ==
    ASSUME NEW i \in 1 .. 12, NEW bytes, NEW rest
    PROVE  Fits(i, bytes, rest) <=> HasShape(SignedLayout[i], bytes)
<1> DEFINE field == SignedLayout[i]
           item == Decoded(IsList(i), bytes, rest)
<1>1. item.ok /\ item.bytes = bytes /\ item.list = (field.kind = "empty_list")
  BY DEF Decoded, IsList
<1>2. Fits(i, bytes, rest) <=> FieldError(item, field) = "None"
  BY DEF Fits
<1>2a. field.kind = "word" => field.width = Word
  BY LayoutKinds
<1> HIDE DEF field, item
<1>3. WrongShape(item, field) <=>
         \/ field.kind = "fixed" /\ Len(bytes) # field.width
         \/ field.kind \in {"int", "parity", "word"} /\ Len(bytes) > field.width
         \/ field.kind \in {"int", "parity"} /\ ~IsMinimal(bytes)
  BY <1>1 DEF WrongShape
<1>4. FieldError(item, field) = "None" <=>
         /\ ~WrongShape(item, field)
         /\ ~(field.kind = "parity" /\ bytes \notin {<<>>, <<1>>})
         /\ ~(field.kind = "empty_list" /\ bytes # <<>>)
         /\ ~(field.kind = "word" /\ Len(bytes) > Word)
  BY <1>1 DEF FieldError
<1>5. FieldError(item, field) = "None" <=> HasShape(field, bytes)
  BY <1>2a, <1>3, <1>4 DEF HasShape
<1> QED
  BY <1>2, <1>5 DEF field

\* The parts of a body: what is written of a transaction, with r and s
Parts(tx, r, s) ==
    <<tx.chain_id, tx.nonce, tx.max_priority_fee_per_gas, tx.max_fee_per_gas, tx.gas_limit,
      tx.to, tx.value, tx.data, <<>>, tx.y_parity, r, s>>

\* A transaction with calldata of any length
WireTx ==
    [chain_id : Quantity(U64), nonce : Quantity(U64),
     max_priority_fee_per_gas : Quantity(U128), max_fee_per_gas : Quantity(U128),
     gas_limit : Quantity(U64), to : [1 .. AddressLen -> Byte], value : Quantity(U128),
     data : Seq(Byte),
     y_parity : {<<>>, <<1>>}, r : [1 .. Word -> Byte], s : [1 .. Word -> Byte]]

AllFit(B) == \A i \in 1 .. 12 : HasShape(SignedLayout[i], B[i])

LEMMA QuantitiesFit ==
    ASSUME NEW width \in Nat, NEW v \in Quantity(width), NEW name
    PROVE  v \in Seq(Byte) /\ HasShape(Field(name, "int", width), v)
<1>1. v \in Seq(Byte) /\ Len(v) <= width /\ IsMinimal(v)
  BY DEF Quantity
<1>2. ~(Len(v) > width)
  BY <1>1, LenProperties
<1> QED
  BY <1>1, <1>2 DEF HasShape, Field

LEMMA ParitiesFit ==
    ASSUME NEW v \in {<<>>, << 1 >>}
    PROVE  v \in Seq(Byte) /\ HasShape(Field("y_parity", "parity", 1), v)
<1>1. v \in Seq(Byte) /\ Len(v) \in Nat /\ ~(Len(v) > 1)
  <2>1. CASE v = <<>>
    BY <2>1
  <2>2. CASE v = <<1>>
    <3>1. 1 \in Byte
      BY DEF Byte
    <3>2. v \in Seq(Byte) /\ Len(v) = 1
      BY <2>2, <3>1, Singleton
    <3> QED
      BY <3>2
  <2> QED
    BY <2>1, <2>2
<1>2. NoLeadingZero(v)
  BY DEF NoLeadingZero
<1>3. IsMinimal(v)
  <2>1. 0 \in Byte
    BY DEF Byte
  <2> QED
    BY <1>1, <1>2, <2>1, MinimalIsTrimmed
<1> QED
  BY <1>1, <1>3 DEF HasShape, Field

\* The parts of a transaction fit their fields.
LEMMA TransactionsFit ==
    ASSUME NEW tx \in WireTx, NEW r \in Seq(Byte), Len(r) <= Word, NEW s \in Seq(Byte), Len(s) <= Word
    PROVE  /\ Parts(tx, r, s) \in [1 .. 12 -> Seq(Byte)]
           /\ AllFit(Parts(tx, r, s))
<1> DEFINE B == Parts(tx, r, s)
<1>1. U64 \in Nat /\ U128 \in Nat /\ AddressLen \in Nat /\ Word \in Nat
  BY Widths
<1>2. /\ tx.chain_id \in Quantity(U64) /\ tx.nonce \in Quantity(U64)
      /\ tx.max_priority_fee_per_gas \in Quantity(U128) /\ tx.max_fee_per_gas \in Quantity(U128)
      /\ tx.gas_limit \in Quantity(U64) /\ tx.to \in [1 .. AddressLen -> Byte]
      /\ tx.value \in Quantity(U128) /\ tx.data \in Seq(Byte) /\ tx.y_parity \in {<<>>, <<1>>}
  BY DEF WireTx
<1>3. /\ B[1] = tx.chain_id /\ B[2] = tx.nonce /\ B[3] = tx.max_priority_fee_per_gas
      /\ B[4] = tx.max_fee_per_gas /\ B[5] = tx.gas_limit /\ B[6] = tx.to /\ B[7] = tx.value
      /\ B[8] = tx.data /\ B[9] = <<>> /\ B[10] = tx.y_parity /\ B[11] = r /\ B[12] = s
      /\ Len(B) = 12 /\ DOMAIN B = 1 .. 12 /\ B = [i \in 1 .. 12 |-> B[i]]
  BY DEF Parts
<1> HIDE DEF B
<1>4. B[1] \in Seq(Byte) /\ HasShape(SignedLayout[1], B[1])
  BY <1>1, <1>2, <1>3, QuantitiesFit, Layout
<1>5. B[2] \in Seq(Byte) /\ HasShape(SignedLayout[2], B[2])
  BY <1>1, <1>2, <1>3, QuantitiesFit, Layout
<1>6. B[3] \in Seq(Byte) /\ HasShape(SignedLayout[3], B[3])
  BY <1>1, <1>2, <1>3, QuantitiesFit, Layout
<1>7. B[4] \in Seq(Byte) /\ HasShape(SignedLayout[4], B[4])
  BY <1>1, <1>2, <1>3, QuantitiesFit, Layout
<1>8. B[5] \in Seq(Byte) /\ HasShape(SignedLayout[5], B[5])
  BY <1>1, <1>2, <1>3, QuantitiesFit, Layout
<1>9. B[6] \in Seq(Byte) /\ HasShape(SignedLayout[6], B[6])
  <2>1. B[6] \in Seq(Byte) /\ Len(B[6]) = AddressLen
    BY <1>1, <1>2, <1>3, FunctionIsSeq
  <2> QED
    BY <2>1, Layout DEF HasShape, Field
<1>10. B[7] \in Seq(Byte) /\ HasShape(SignedLayout[7], B[7])
  BY <1>1, <1>2, <1>3, QuantitiesFit, Layout
<1>11. B[8] \in Seq(Byte) /\ HasShape(SignedLayout[8], B[8])
  BY <1>2, <1>3, Layout DEF HasShape, Field
<1>12. B[9] \in Seq(Byte) /\ HasShape(SignedLayout[9], B[9])
  BY <1>2, <1>3, Layout DEF HasShape, Field
<1>13. B[10] \in Seq(Byte) /\ HasShape(SignedLayout[10], B[10])
  BY <1>2, <1>3, ParitiesFit, Layout
<1>14. B[11] \in Seq(Byte) /\ HasShape(SignedLayout[11], B[11])
  <2>1. ~(Len(r) > Word)
    BY <1>1, LenProperties
  <2> QED
    BY <1>3, <2>1, Layout DEF HasShape, Field
<1>15. B[12] \in Seq(Byte) /\ HasShape(SignedLayout[12], B[12])
  <2>1. ~(Len(s) > Word)
    BY <1>1, LenProperties
  <2> QED
    BY <1>3, <2>1, Layout DEF HasShape, Field
<1>16. ASSUME NEW i \in 1 .. 12  PROVE B[i] \in Seq(Byte) /\ HasShape(SignedLayout[i], B[i])
  <2>1. i = 1 \/ i = 2 \/ i = 3 \/ i = 4 \/ i = 5 \/ i = 6 \/ i = 7 \/ i = 8 \/ i = 9 \/ i = 10 \/ i = 11 \/ i = 12
    OBVIOUS
  <2> QED
    BY <1>4, <1>5, <1>6, <1>7, <1>8, <1>9, <1>10, <1>11, <1>12, <1>13, <1>14, <1>15, <2>1, Zenon
<1> QED
  BY <1>3, <1>16 DEF AllFit, B

-----------------------------------------------------------------------------
(* A body, put together *)

\* What is behind each item of a body
IsRests(R, B) ==
    /\ R \in [0 .. 12 -> Seq(Byte)] /\ R[12] = <<>>
    /\ \A i \in 1 .. 12 : R[i - 1] = Framed(IsList(i), B[i]) \o R[i]

\* What is left behind each of twelve items
LEMMA RestsExist ==
    ASSUME NEW B, \A i \in 1 .. 12 : Framed(IsList(i), B[i]) \in Seq(Byte)
    PROVE  \E R : IsRests(R, B)
<1> DEFINE F(i) == Framed(IsList(i), B[i])
           known(n) == \E R \in [0 .. 12 -> Seq(Byte)] :
                          /\ R[12] = <<>>
                          /\ \A i \in 1 .. 12 : 12 - n < i => R[i - 1] = F(i) \o R[i]
           good(n) == n <= 12 => known(n)
           S == {n \in Nat : good(n)}
<1>0. \A i \in 1 .. 12 : F(i) \in Seq(Byte)
  OBVIOUS
<1> HIDE DEF F
<1>1. good(0)
  <2> DEFINE R == [i \in 0 .. 12 |-> <<>>]
  <2>1. R \in [0 .. 12 -> Seq(Byte)] /\ R[12] = <<>>
    OBVIOUS
  <2> HIDE DEF R
  <2>2. \A i \in 1 .. 12 : 12 - 0 < i => R[i - 1] = F(i) \o R[i]
    OBVIOUS
  <2> QED
    BY <2>1, <2>2
<1>2. ASSUME NEW n \in Nat, good(n)  PROVE good(n + 1)
  <2> SUFFICES ASSUME n + 1 <= 12  PROVE known(n + 1)
    OBVIOUS
  <2>1. PICK R \in [0 .. 12 -> Seq(Byte)] :
           R[12] = <<>> /\ \A i \in 1 .. 12 : 12 - n < i => R[i - 1] = F(i) \o R[i]
    <3>1. n <= 12
      OBVIOUS
    <3> QED
      BY <1>2, <3>1, Zenon
  <2> DEFINE k == 12 - n
             x == F(k) \o R[k]
             Q == [R EXCEPT ![k - 1] = x]
  <2>2. k \in 1 .. 12 /\ k \in 0 .. 12 /\ k - 1 \in 0 .. 12 /\ k - 1 # 12 /\ 12 - (n + 1) = k - 1
    <3>1. k \in Nat /\ 1 <= k /\ k <= 12
      OBVIOUS
    <3>2. k - 1 \in Nat /\ k - 1 <= 12 /\ k - 1 # 12 /\ 12 - (n + 1) = k - 1
      OBVIOUS
    <3> HIDE DEF k
    <3>3. k \in 1 .. 12
      BY <3>1
    <3>4. k \in 0 .. 12
      BY <3>1
    <3> DEFINE j == k - 1
    <3>5. j \in Nat /\ j <= 12
      BY <3>2
    <3> HIDE DEF j
    <3>6. j \in 0 .. 12
      BY <3>5
    <3> QED
      BY <3>2, <3>3, <3>4, <3>6 DEF j
  <2>3. 12 - n = k
    OBVIOUS
  <2> HIDE DEF k
  <2>4. x \in Seq(Byte)
    <3>1. F(k) \in Seq(Byte) /\ R[k] \in Seq(Byte)
      BY <1>0, <2>2
    <3> QED
      BY <3>1, TwoParts
  <2>5. x = F(k) \o R[k]
    OBVIOUS
  <2> HIDE DEF x
  <2>6. Q \in [0 .. 12 -> Seq(Byte)] /\ Q[k - 1] = x /\ \A i \in 0 .. 12 : i # k - 1 => Q[i] = R[i]
    BY <2>2, <2>4
  <2> HIDE DEF Q
  <2>7. Q[12] = <<>>
    BY <2>1, <2>2, <2>6
  <2>8. ASSUME NEW i \in 1 .. 12, k - 1 < i  PROVE Q[i - 1] = F(i) \o Q[i]
    <3>1. i \in 0 .. 12 /\ i - 1 \in 0 .. 12 /\ i # k - 1 /\ k \in Int
      <4>1. i \in Nat /\ 1 <= i /\ i <= 12 /\ k \in Int
        BY <2>2, <2>8
      <4>2. i \in 0 .. 12 /\ i - 1 \in 0 .. 12
        <5>1. i \in 0 .. 12
          BY <4>1
        <5> DEFINE j == i - 1
        <5>2. j \in Nat /\ j <= 12
          BY <4>1
        <5> HIDE DEF j
        <5>3. j \in 0 .. 12
          BY <5>2
        <5> QED
          BY <5>1, <5>3 DEF j
      <4>3. i # k - 1
        BY <2>8, <4>1
      <4> QED
        BY <4>1, <4>2, <4>3
    <3>2. CASE i = k
      BY <2>2, <2>5, <2>6, <3>1, <3>2
    <3>3. CASE i # k
      <4>1. k < i /\ i - 1 # k - 1
        BY <2>8, <3>1, <3>3
      <4> QED
        BY <2>1, <2>3, <2>6, <3>1, <4>1
    <3> QED
      BY <3>2, <3>3
  <2> QED
    BY <2>2, <2>6, <2>7, <2>8
<1> HIDE DEF known
<1>3. good(12)
  <2> HIDE DEF good
  <2>1. 0 \in S /\ \A n \in Nat : n \in S => n + 1 \in S
    BY <1>1, <1>2
  <2> HIDE DEF S
  <2>2. \A n \in Nat : n \in S
    BY <2>1, NatInductionOnSets
  <2> QED
    BY <2>2 DEF S
<1>3a. known(12)
  BY <1>3
<1>4. PICK R \in [0 .. 12 -> Seq(Byte)] :
         R[12] = <<>> /\ \A i \in 1 .. 12 : 12 - 12 < i => R[i - 1] = F(i) \o R[i]
  BY <1>3a, Zenon DEF known
<1>5. \A i \in 1 .. 12 : R[i - 1] = F(i) \o R[i]
  <2>1. \A i \in 1 .. 12 : 12 - 12 < i
    OBVIOUS
  <2> QED
    BY <1>4, <2>1, Zenon
<1> QED
  BY <1>4, <1>5 DEF IsRests, F

\* p is what stands in front of r in w.
IsHead(p, r, w) == p \in Seq(Byte) /\ p \o r = w

IsNextHead(q, p, f, r, w) == IsHead(q, r, w) /\ Len(q) = Len(p) + Len(f)

LEMMA NextHead ==
    ASSUME NEW p, NEW f \in Seq(Byte), NEW r \in Seq(Byte), NEW t, t = f \o r, NEW w, IsHead(p, t, w)
    PROVE  IsNextHead(p \o f, p, f, r, w)
<1>1. p \in Seq(Byte) /\ p \o (f \o r) = w
  BY DEF IsHead
<1>2. p \o f \in Seq(Byte) /\ Len(p \o f) = Len(p) + Len(f)
  BY <1>1, CutApart
<1>3. (p \o f) \o r = p \o (f \o r)
  <2>1. p \in Seq(Byte) /\ f \in Seq(Byte) /\ r \in Seq(Byte)
    BY <1>1
  <2> QED
    BY ONLY <2>1, ConcatAssociative
<1> QED
  BY <1>1, <1>2, <1>3 DEF IsHead, IsNextHead

LEMMA FirstHead ==
    ASSUME NEW f \in Seq(Byte), NEW r \in Seq(Byte), NEW w, w = f \o r
    PROVE  IsHead(f, r, w)
  BY DEF IsHead

Signature(tx, r, s) == Item(tx.y_parity) \o Item(r) \o Item(s)

\* The body of a transaction, and that its length is what was counted ahead of it
IsBody(w, tx, r, s) ==
    /\ EncodeFields(tx) \in Seq(Byte) /\ Signature(tx, r, s) \in Seq(Byte)
    /\ w = EncodeFields(tx) \o Signature(tx, r, s)
    /\ Len(EncodeFields(tx)) = FieldsLength(tx)
    /\ Len(w) = Len(EncodeFields(tx)) + Len(Signature(tx, r, s))

\* A chain of the parts of a transaction is its body.
LEMMA BodiesArePutTogether ==
    ASSUME NEW tx, NEW r, NEW s, NEW R, IsRests(R, Parts(tx, r, s)),
           \A i \in 1 .. 12 : Framed(IsList(i), Parts(tx, r, s)[i]) \in Seq(Byte)
    PROVE  IsBody(R[0], tx, r, s)
<1> DEFINE B == Parts(tx, r, s)
           w == R[0]
           I1 == Item(tx.chain_id)
           I2 == Item(tx.nonce)
           I3 == Item(tx.max_priority_fee_per_gas)
           I4 == Item(tx.max_fee_per_gas)
           I5 == Item(tx.gas_limit)
           I6 == Item(tx.to)
           I7 == Item(tx.value)
           I8 == Item(tx.data)
           I9 == <<192>>
           I10 == Item(tx.y_parity)
           I11 == Item(r)
           I12 == Item(s)
<1>1. /\ B[1] = tx.chain_id /\ B[2] = tx.nonce /\ B[3] = tx.max_priority_fee_per_gas
      /\ B[4] = tx.max_fee_per_gas /\ B[5] = tx.gas_limit /\ B[6] = tx.to /\ B[7] = tx.value
      /\ B[8] = tx.data /\ B[9] = <<>> /\ B[10] = tx.y_parity /\ B[11] = r /\ B[12] = s
  BY DEF Parts
<1>2. /\ R[12] = <<>>
      /\ \A i \in 0 .. 12 : R[i] \in Seq(Byte)
      /\ \A i \in 1 .. 12 : R[i - 1] = Framed(IsList(i), B[i]) \o R[i] /\ Framed(IsList(i), B[i]) \in Seq(Byte)
  BY DEF IsRests
<1> HIDE DEF B
<1>3. /\ ~IsList(1) /\ ~IsList(2) /\ ~IsList(3) /\ ~IsList(4) /\ ~IsList(5) /\ ~IsList(6)
      /\ ~IsList(7) /\ ~IsList(8) /\ IsList(9) /\ ~IsList(10) /\ ~IsList(11) /\ ~IsList(12)
  BY Layout DEF IsList, Field
<1>4. Framed(IsList(9), B[9]) = <<192>>
  <2>1. Len(B[9]) = 0 /\ Header(192, 0) = <<192>>
    BY <1>1 DEF Header
  <2>2. <<192>> \o <<>> = <<192>>
    OBVIOUS
  <2> QED
    BY <1>1, <1>3, <2>1, <2>2 DEF Framed
<1>5. \A list, bytes : ~list => Framed(list, bytes) = Item(bytes)
  BY DEF Framed
<1> DEFINE Behind(i, f) == f \in Seq(Byte) /\ R[i] \in Seq(Byte) /\ R[i - 1] = f \o R[i]
<1>6. \A i \in 1 .. 12 : Behind(i, Framed(IsList(i), B[i]))
  <2>1. \A i \in 1 .. 12 : i \in 0 .. 12
    OBVIOUS
  <2> QED
    BY <1>2, <2>1
<1> HIDE DEF Behind
<1>7. /\ Behind(1, I1) /\ Behind(2, I2) /\ Behind(3, I3) /\ Behind(4, I4) /\ Behind(5, I5) /\ Behind(6, I6)
  BY <1>1, <1>3, <1>5, <1>6
<1>8. /\ Behind(7, I7) /\ Behind(8, I8) /\ Behind(9, I9) /\ Behind(10, I10) /\ Behind(11, I11) /\ Behind(12, I12)
  <2>1. Behind(9, I9)
    <3>1. 9 \in 1 .. 12
      OBVIOUS
    <3> QED
      BY <1>4, <1>6, <3>1, Zenon
  <2>2. Behind(7, I7) /\ Behind(8, I8)
    BY <1>1, <1>3, <1>5, <1>6
  <2>3. Behind(10, I10)
    <3>1. 10 \in 1 .. 12 /\ Framed(IsList(10), B[10]) = I10
      BY <1>1, <1>3, <1>5
    <3> QED
      BY <1>6, <3>1, Zenon
  <2>4. Behind(11, I11)
    <3>1. 11 \in 1 .. 12 /\ Framed(IsList(11), B[11]) = I11
      BY <1>1, <1>3, <1>5
    <3> QED
      BY <1>6, <3>1, Zenon
  <2>5. Behind(12, I12)
    <3>1. 12 \in 1 .. 12 /\ Framed(IsList(12), B[12]) = I12
      BY <1>1, <1>3, <1>5
    <3> QED
      BY <1>6, <3>1, Zenon
  <2> QED
    BY <2>1, <2>2, <2>3, <2>4, <2>5
<1>9. /\ \A i \in Int : i = i
      /\ 1 - 1 = 0 /\ 2 - 1 = 1 /\ 3 - 1 = 2 /\ 4 - 1 = 3 /\ 5 - 1 = 4 /\ 6 - 1 = 5 /\ 7 - 1 = 6
      /\ 8 - 1 = 7 /\ 9 - 1 = 8 /\ 10 - 1 = 9 /\ 11 - 1 = 10 /\ 12 - 1 = 11
  OBVIOUS
<1>10. /\ I1 \in Seq(Byte) /\ I2 \in Seq(Byte) /\ I3 \in Seq(Byte) /\ I4 \in Seq(Byte) /\ I5 \in Seq(Byte)
       /\ I6 \in Seq(Byte) /\ I7 \in Seq(Byte) /\ I8 \in Seq(Byte) /\ I9 \in Seq(Byte) /\ I10 \in Seq(Byte)
       /\ I11 \in Seq(Byte) /\ I12 \in Seq(Byte)
  BY <1>7, <1>8 DEF Behind
<1>11. /\ R[0] = I1 \o R[1] /\ R[1] = I2 \o R[2] /\ R[2] = I3 \o R[3] /\ R[3] = I4 \o R[4]
       /\ R[4] = I5 \o R[5] /\ R[5] = I6 \o R[6] /\ R[6] = I7 \o R[7] /\ R[7] = I8 \o R[8]
       /\ R[8] = I9 \o R[9] /\ R[9] = I10 \o R[10] /\ R[10] = I11 \o R[11] /\ R[11] = I12 \o R[12]
  BY <1>7, <1>8, <1>9 DEF Behind
<1>12. /\ R[1] \in Seq(Byte) /\ R[2] \in Seq(Byte) /\ R[3] \in Seq(Byte) /\ R[4] \in Seq(Byte)
       /\ R[5] \in Seq(Byte) /\ R[6] \in Seq(Byte) /\ R[7] \in Seq(Byte) /\ R[8] \in Seq(Byte)
       /\ R[9] \in Seq(Byte) /\ R[10] \in Seq(Byte) /\ R[11] \in Seq(Byte) /\ R[12] \in Seq(Byte)
  BY <1>7, <1>8 DEF Behind
<1>13. /\ FieldsLength(tx) = Len(I1) + Len(I2) + Len(I3) + Len(I4) + Len(I5) + Len(I6) + Len(I7) + Len(I8) + 1
       /\ EncodeFields(tx) = I1 \o I2 \o I3 \o I4 \o I5 \o I6 \o I7 \o I8 \o I9
       /\ Signature(tx, r, s) = I10 \o I11 \o I12
  BY DEF FieldsLength, ItemLen, EncodeFields, Signature
<1>14. Len(I9) = 1
  OBVIOUS
<1> DEFINE P2 == I1 \o I2
           P3 == P2 \o I3
           P4 == P3 \o I4
           P5 == P4 \o I5
           P6 == P5 \o I6
           P7 == P6 \o I7
           P8 == P7 \o I8
           P9 == P8 \o I9
           Q2 == I10 \o I11
           Q3 == Q2 \o I12
<1>15. EncodeFields(tx) = P9 /\ Signature(tx, r, s) = Q3
  BY <1>13
<1> HIDE DEF w, I1, I2, I3, I4, I5, I6, I7, I8, I9, I10, I11, I12
<1>20. IsHead(I1, R[1], R[0])
  BY <1>10, <1>11, <1>12, FirstHead
<1>21. IsNextHead(P2, I1, I2, R[2], R[0])
  BY <1>10, <1>11, <1>12, <1>20, NextHead
<1> HIDE DEF P2
<1>22. IsNextHead(P3, P2, I3, R[3], R[0])
  BY <1>10, <1>11, <1>12, <1>21, NextHead DEF IsNextHead
<1> HIDE DEF P3
<1>23. IsNextHead(P4, P3, I4, R[4], R[0])
  BY <1>10, <1>11, <1>12, <1>22, NextHead DEF IsNextHead
<1> HIDE DEF P4
<1>24. IsNextHead(P5, P4, I5, R[5], R[0])
  BY <1>10, <1>11, <1>12, <1>23, NextHead DEF IsNextHead
<1> HIDE DEF P5
<1>25. IsNextHead(P6, P5, I6, R[6], R[0])
  BY <1>10, <1>11, <1>12, <1>24, NextHead DEF IsNextHead
<1> HIDE DEF P6
<1>26. IsNextHead(P7, P6, I7, R[7], R[0])
  BY <1>10, <1>11, <1>12, <1>25, NextHead DEF IsNextHead
<1> HIDE DEF P7
<1>27. IsNextHead(P8, P7, I8, R[8], R[0])
  BY <1>10, <1>11, <1>12, <1>26, NextHead DEF IsNextHead
<1> HIDE DEF P8
<1>28. IsNextHead(P9, P8, I9, R[9], R[0])
  BY <1>10, <1>11, <1>12, <1>27, NextHead DEF IsNextHead
<1> HIDE DEF P9
<1>30. IsHead(I10, R[10], R[9])
  BY <1>10, <1>11, <1>12, FirstHead
<1>31. IsNextHead(Q2, I10, I11, R[11], R[9])
  BY <1>10, <1>11, <1>12, <1>30, NextHead
<1> HIDE DEF Q2
<1>32. IsNextHead(Q3, Q2, I12, R[12], R[9])
  BY <1>10, <1>11, <1>12, <1>31, NextHead DEF IsNextHead
<1> HIDE DEF Q3
<1>33. R[9] = Q3 /\ Q3 \in Seq(Byte) /\ P9 \in Seq(Byte) /\ R[0] = P9 \o Q3
  <2>1. Q3 \in Seq(Byte) /\ Q3 \o <<>> = R[9] /\ P9 \in Seq(Byte) /\ P9 \o R[9] = R[0]
    BY <1>2, <1>28, <1>32 DEF IsNextHead, IsHead
  <2>2. Q3 \o <<>> = Q3
    BY <2>1, ConcatEmptySeq
  <2> QED
    BY <2>1, <2>2
<1>34. Len(P9) = Len(I1) + Len(I2) + Len(I3) + Len(I4) + Len(I5) + Len(I6) + Len(I7) + Len(I8) + 1
  BY <1>14, <1>21, <1>22, <1>23, <1>24, <1>25, <1>26, <1>27, <1>28 DEF IsNextHead
<1>35. Len(R[0]) = Len(P9) + Len(Q3)
  BY <1>33, CutApart
<1> QED
  BY <1>13, <1>15, <1>33, <1>34, <1>35 DEF IsBody

-----------------------------------------------------------------------------
(* What is read of a signed transaction *)

LEMMA WidthsAreNat ==
    U64 \in Nat /\ U128 \in Nat /\ AddressLen \in Nat /\ Word \in Nat
  BY Widths

LEMMA MoreZeros ==
    ASSUME NEW m \in Nat, NEW n \in Nat
    PROVE  Zeros(m) \o Zeros(n) = Zeros(m + n)
<1> DEFINE a == Zeros(m)
           b == Zeros(n)
           c == Zeros(m + n)
           d == a \o b
<1>1. /\ a \in Seq(Byte) /\ Len(a) = m /\ \A i \in 1 .. m : a[i] = 0
      /\ b \in Seq(Byte) /\ Len(b) = n /\ \A i \in 1 .. n : b[i] = 0
  BY ZerosType
<1>2. c \in Seq(Byte) /\ Len(c) = m + n /\ \A i \in 1 .. m + n : c[i] = 0
  <2> DEFINE l == m + n
  <2>1. l \in Nat
    OBVIOUS
  <2> HIDE DEF l
  <2>2. Zeros(l) \in Seq(Byte) /\ Len(Zeros(l)) = l /\ \A i \in 1 .. l : Zeros(l)[i] = 0
    BY <2>1, ZerosType
  <2> QED
    BY <2>2 DEF l
<1> HIDE DEF a, b, c
<1>3. /\ d \in Seq(Byte) /\ Len(d) = Len(a) + Len(b)
      /\ \A i \in 1 .. Len(a) + Len(b) : d[i] = IF i <= Len(a) THEN a[i] ELSE b[i - Len(a)]
  BY <1>1, ConcatProperties
<1> HIDE DEF d
<1>4. \A i \in 1 .. m + n : d[i] = c[i]
  <2> SUFFICES ASSUME NEW i \in 1 .. m + n  PROVE d[i] = c[i]
    OBVIOUS
  <2>1. CASE i <= m
    <3>1. d[i] = a[i] /\ i \in 1 .. m
      BY <1>1, <1>3, <2>1
    <3> QED
      BY <1>1, <1>2, <3>1
  <2>2. CASE ~(i <= m)
    <3>1. d[i] = b[i - m] /\ i - m \in 1 .. n
      BY <1>1, <1>3, <2>2
    <3> QED
      BY <1>1, <1>2, <3>1
  <2> QED
    BY <2>1, <2>2
<1>5. d = c
  BY <1>1, <1>2, <1>3, <1>4, SeqEqual
<1> QED
  BY <1>5 DEF a, b, c, d

\* A number filled up with zeros is trimmed to what it was, trimmed.
LEMMA FilledIsTrimmed ==
    ASSUME NEW b \in Seq(Byte), NEW k \in Nat
    PROVE  Trimmed(Zeros(k) \o b) = Trimmed(b)
<1> DEFINE t == Trimmed(b)
           m == Len(b) - Len(t)
           z == Zeros(m)
           y == Zeros(k)
<1>1. 0 \in Byte
  BY DEF Byte
<1>2. t \in Seq(Byte) /\ Len(t) \in 0 .. Len(b) /\ NoLeadingZero(t) /\ b = z \o t
  BY <1>1, TrimmedSplits
<1>2a. t = Trimmed(b)
  OBVIOUS
<1> HIDE DEF t
<1>3. m \in Nat
  BY <1>2, LenProperties
<1> HIDE DEF m
<1>4. z \in Seq(Byte) /\ y \in Seq(Byte) /\ y \o z = Zeros(k + m)
  BY <1>3, ZerosType, MoreZeros
<1>5. y \o (z \o t) = (y \o z) \o t
  <2> HIDE DEF y, z
  <2>1. y \in Seq(Byte) /\ z \in Seq(Byte) /\ t \in Seq(Byte)
    BY <1>2, <1>4
  <2> QED
    BY ONLY <2>1, ConcatAssociative
<1> DEFINE n == k + m
<1>6. n \in Nat
  BY <1>3
<1>7. y \o b = Zeros(n) \o t
  <2> HIDE DEF y, z
  <2> QED
    BY <1>2, <1>4, <1>5
<1> HIDE DEF n
<1>8. Trimmed(Zeros(n) \o t) = t
  BY <1>1, <1>2, <1>6, TrimmedIsUnique
<1> QED
  BY <1>2a, <1>7, <1>8

\* What is read of r or s, and how it was written
LEMMA WordsArePadded ==
    ASSUME NEW b \in Seq(Byte), Len(b) <= Word
    PROVE  /\ Zeros(Word - Len(b)) \o b \in [1 .. Word -> Byte]
           /\ b \in Padded(Zeros(Word - Len(b)) \o b)
<1> DEFINE k == Word - Len(b)
           z == Zeros(k)
           d == z \o b
           t == Trimmed(b)
<1>1. k \in Nat /\ k + Len(b) = Word /\ Word \in Nat /\ Len(b) \in Nat
  BY Widths, LenProperties
<1> HIDE DEF k
<1>2. z \in Seq(Byte) /\ Len(z) = k
  BY <1>1, ZerosType
<1>3. d \in [1 .. Word -> Byte]
  <2>1. d \in Seq(Byte) /\ Len(d) = Word
    <3> HIDE DEF z
    <3>0. z \in Seq(Byte) /\ b \in Seq(Byte)
      BY <1>2
    <3>1. z \o b \in Seq(Byte) /\ Len(z \o b) = Len(z) + Len(b)
      BY ONLY <3>0, CutApart
    <3> QED
      BY <1>1, <1>2, <3>1
  <2> HIDE DEF d
  <2>2. d \in [1 .. Len(d) -> Byte]
    BY <2>1, SeqIsFunction
  <2> QED
    BY <2>1, <2>2
<1>4. Trimmed(d) = t
  BY <1>1, FilledIsTrimmed
<1>5. 0 \in Byte
  BY DEF Byte
<1>6. t \in Seq(Byte) /\ Len(t) \in 0 .. Len(b) /\ b = Zeros(Len(b) - Len(t)) \o t
  BY <1>5, TrimmedSplits
<1> HIDE DEF d, t
<1> DEFINE n == Len(b) - Len(t)
<1>7. n \in 0 .. Word - Len(t)
  BY <1>1, <1>6
<1>8. b = Zeros(n) \o t
  BY <1>6
<1> HIDE DEF n
<1>9. b \in Padded(d)
  BY <1>4, <1>7, <1>8, Zenon DEF Padded
<1> QED
  BY <1>3, <1>9 DEF d, k

\* A frame takes at most four bytes.
LEMMA PartsAreFramed ==
    ASSUME NEW list \in BOOLEAN, NEW bytes \in Seq(Byte), Len(bytes) <= MaxPayload
    PROVE  /\ Framed(list, bytes) \in Seq(Byte)
           /\ Len(Framed(list, bytes)) \in Nat /\ Len(Framed(list, bytes)) <= Len(bytes) + 4
<1>1. Framed(list, bytes) \in Seq(Byte)
  <2>1. <<>> \in Seq(Byte)
    OBVIOUS
  <2> QED
    BY <2>1, FramedIsRead
<1> DEFINE n == Len(bytes)
<1>2. n \in Nat /\ n <= MaxPayload
  BY LenProperties
<1>3. ASSUME NEW code \in Codes, Header(code, n) \in Seq(Byte)
      PROVE  Len(Header(code, n)) <= 4
  <2> HIDE DEF n
  <2>1. CASE n <= 55
    BY <2>1, SMT DEF Header
  <2>2. CASE ~(n <= 55)
    <3> DEFINE t == LengthBytes(n)
               h == code + 55 + Len(t)
    <3>1. IsLength(t, n)
      BY <1>2, <2>2, LengthIsWritten
    <3>2. t \in Seq(Byte) /\ Len(t) \in Nat /\ Len(t) <= 3
      BY <3>1, LenProperties DEF IsLength
    <3>3. Header(code, n) = <<h>> \o t
      BY <2>2 DEF Header
    <3>4. h \in Byte
      <4> DEFINE l == Len(t)
      <4>1. l \in Nat /\ l <= 3
        BY <3>2
      <4> HIDE DEF l
      <4>2. code + 55 + l \in Byte
        BY <4>1 DEF Codes, Byte
      <4> QED
        BY <4>2 DEF l
    <3> HIDE DEF t, h
    <3>5. <<h>> \in Seq(Byte) /\ Len(<<h>>) = 1
      BY <3>4, Singleton
    <3>6. Len(<<h>> \o t) = 1 + Len(t)
      BY <3>2, <3>5, CutApart
    <3> QED
      BY <3>2, <3>3, <3>6
  <2> QED
    BY <2>1, <2>2
<1>4. ASSUME NEW code \in Codes, code = 192 \/ ~(n = 1 /\ bytes[1] < 128)
      PROVE  /\ Header(code, n) \o bytes \in Seq(Byte)
             /\ Len(Header(code, n) \o bytes) \in Nat /\ Len(Header(code, n) \o bytes) <= n + 4
  <2> DEFINE head == Header(code, n)
  <2>1. head \in Seq(Byte)
    <3>1. <<>> \in Seq(Byte)
      OBVIOUS
    <3> QED
      BY <1>2, <1>4, <3>1, HeaderIsRead
  <2>2. Len(head) <= 4
    BY <1>3, <1>4, <2>1
  <2> HIDE DEF head
  <2>3. head \o bytes \in Seq(Byte) /\ Len(head \o bytes) = Len(head) + n /\ Len(head) \in Nat
    BY <2>1, CutApart, LenProperties
  <2> QED
    BY <1>2, <2>2, <2>3 DEF head
<1>5. 128 \in Codes /\ 192 \in Codes
  BY DEF Codes
<1>6. \/ Framed(list, bytes) = bytes
      \/ Framed(list, bytes) = Header(192, n) \o bytes
      \/ Framed(list, bytes) = Header(128, n) \o bytes /\ ~(n = 1 /\ bytes[1] < 128)
  BY DEF Framed, Item
<1> HIDE DEF n
<1>7. CASE Framed(list, bytes) = bytes
  BY <1>1, <1>2, <1>7 DEF n
<1>8. CASE Framed(list, bytes) = Header(192, n) \o bytes
  BY <1>1, <1>4, <1>5, <1>8 DEF n
<1>9. CASE Framed(list, bytes) = Header(128, n) \o bytes /\ ~(n = 1 /\ bytes[1] < 128)
  BY <1>1, <1>4, <1>5, <1>9 DEF n
<1> QED
  BY <1>6, <1>7, <1>8, <1>9

\* The outcome of decode_signed for a list with the body w
OfBody(w) ==
    IF ReadFields(w).error # "None" THEN Refused(ReadFields(w).error)
    ELSE IF ReadFields(w).rest # <<>> THEN Refused("TrailingBytes")
    ELSE Accepted(Transaction(ReadFields(w).values))

LEMMA DecodeSignedIs ==
    ASSUME NEW raw
    PROVE  DecodeSigned(raw) =
              IF raw = <<>> THEN Refused("Empty")
              ELSE IF raw[1] # TypeByte THEN Refused("UnsupportedType")
              ELSE IF ~DecodeItem(Tail(raw)).ok \/ ~DecodeItem(Tail(raw)).list THEN Refused("Malformed")
              ELSE IF DecodeItem(Tail(raw)).rest # <<>> THEN Refused("TrailingBytes")
              ELSE OfBody(DecodeItem(Tail(raw)).bytes)
  BY Zenon DEF DecodeSigned, OfBody, ReadFields, Start

\* A list with nothing behind it is read as its body.
LEMMA BodyIsRead ==
    ASSUME NEW w \in Seq(Byte), Len(w) <= MaxPayload
    PROVE  DecodeSigned(<<TypeByte>> \o Framed(TRUE, w)) = OfBody(w)
<1> DEFINE f == Framed(TRUE, w)
           raw == <<TypeByte>> \o f
           item == DecodeItem(f)
<1>1. f \in Seq(Byte)
  BY PartsAreFramed
<1>2. item = Decoded(TRUE, w, <<>>)
  <2>1. <<>> \in Seq(Byte) /\ TRUE \in BOOLEAN
    OBVIOUS
  <2>2. DecodeItem(f \o <<>>) = Decoded(TRUE, w, <<>>)
    BY <2>1, FramedIsRead
  <2> HIDE DEF f
  <2>3. f \o <<>> = f
    BY <1>1, ConcatEmptySeq
  <2> QED
    BY <2>2, <2>3
<1>3. raw # <<>> /\ raw[1] = TypeByte /\ Tail(raw) = f
  <2>1. TypeByte \in Byte
    BY DEF TypeByte, Byte
  <2> HIDE DEF f
  <2> QED
    BY <1>1, <2>1, FirstAndRest
<1>4. item.ok /\ item.list /\ item.rest = <<>> /\ item.bytes = w
  <2> HIDE DEF item
  <2> QED
    BY <1>2 DEF Decoded
<1> HIDE DEF raw, f
<1>5. DecodeSigned(raw) = OfBody(w)
  BY <1>3, <1>4, DecodeSignedIs, Zenon
<1> QED
  BY <1>5 DEF raw, f

SignedErrors ==
    FieldErrors \cup {"Empty", "UnsupportedType", "TrailingBytes"}

IsBodyOf(w, raw) ==
    /\ w \in Seq(Byte) /\ Len(w) <= MaxPayload /\ raw = <<TypeByte>> \o Framed(TRUE, w)
    /\ ReadFields(w).error = "None" /\ ReadFields(w).rest = <<>>
    /\ DecodeSigned(raw) = Accepted(Transaction(ReadFields(w).values))

\* What decode_signed accepts is a list whose fields are read to its end.
LEMMA OnlyBodiesAreAccepted ==
    ASSUME NEW raw \in Seq(Byte)
    PROVE  /\ DecodeSigned(raw).error \in SignedErrors
           /\ DecodeSigned(raw).error = "None" => \E w : IsBodyOf(w, raw)
<1> DEFINE item == DecodeItem(Tail(raw))
<1>1. CASE raw = <<>>
  <2>1. DecodeSigned(raw) = Refused("Empty")
    BY <1>1, DecodeSignedIs, Zenon
  <2> QED
    BY <2>1 DEF Refused, SignedErrors
<1>2. CASE raw # <<>> /\ raw[1] # TypeByte
  <2>1. DecodeSigned(raw) = Refused("UnsupportedType")
    BY <1>2, DecodeSignedIs, Zenon
  <2> QED
    BY <2>1 DEF Refused, SignedErrors
<1>3. CASE raw # <<>> /\ raw[1] = TypeByte /\ (~item.ok \/ ~item.list)
  <2>1. DecodeSigned(raw) = Refused("Malformed")
    BY <1>3, DecodeSignedIs, Zenon
  <2> QED
    BY <2>1 DEF Refused, SignedErrors, FieldErrors
<1>4. CASE raw # <<>> /\ raw[1] = TypeByte /\ item.ok /\ item.list /\ item.rest # <<>>
  <2>1. DecodeSigned(raw) = Refused("TrailingBytes")
    BY <1>4, DecodeSignedIs, Zenon
  <2> QED
    BY <2>1 DEF Refused, SignedErrors
<1>5. CASE raw # <<>> /\ raw[1] = TypeByte /\ item.ok /\ item.list /\ item.rest = <<>>
  <2> DEFINE t == Tail(raw)
             w == item.bytes
  <2>1. t \in Seq(Byte) /\ raw = <<TypeByte>> \o t
    BY <1>5, FirstOff
  <2>2. item # Malformed
    <3>1. ~Malformed.ok
      BY DEF Malformed
    <3> QED
      BY <1>5, <3>1
  <2>3. IsItem(item, t)
    BY <2>1, <2>2, ItemsAreFramed
  <2>4. PICK list \in BOOLEAN, bytes \in Seq(Byte), rest \in Seq(Byte) :
           Len(bytes) <= MaxPayload /\ item = Decoded(list, bytes, rest) /\ t = Framed(list, bytes) \o rest
    BY <2>3 DEF IsItem
  <2>5. list = TRUE /\ bytes = w /\ rest = <<>>
    BY <1>5, <2>4 DEF Decoded
  <2>6. w \in Seq(Byte) /\ Len(w) <= MaxPayload /\ t = Framed(TRUE, w)
    <3>1. w \in Seq(Byte) /\ Len(w) <= MaxPayload
      BY <2>4, <2>5
    <3>2. t = Framed(TRUE, w) \o <<>>
      BY <2>4, <2>5
    <3> HIDE DEF w, t
    <3>3. Framed(TRUE, w) \in Seq(Byte)
      BY <3>1, PartsAreFramed
    <3>4. Framed(TRUE, w) \o <<>> = Framed(TRUE, w)
      BY <3>3, ConcatEmptySeq
    <3> QED
      BY <3>1, <3>2, <3>4
  <2>7. DecodeSigned(raw) = OfBody(w)
    BY <1>5, DecodeSignedIs, Zenon
  <2> HIDE DEF w, t
  <2>8. ReadFields(w).error \in FieldErrors
    BY <2>6, ReadFieldsType
  <2>9. CASE ReadFields(w).error # "None"
    <3>1. DecodeSigned(raw) = Refused(ReadFields(w).error)
      BY <2>7, <2>9 DEF OfBody
    <3> QED
      BY <2>8, <2>9, <3>1 DEF Refused, SignedErrors
  <2>10. CASE ReadFields(w).error = "None" /\ ReadFields(w).rest # <<>>
    <3>1. DecodeSigned(raw) = Refused("TrailingBytes")
      BY <2>7, <2>10 DEF OfBody
    <3> QED
      BY <3>1 DEF Refused, SignedErrors
  <2>11. CASE ReadFields(w).error = "None" /\ ReadFields(w).rest = <<>>
    <3>1. DecodeSigned(raw) = Accepted(Transaction(ReadFields(w).values))
      BY <2>7, <2>11 DEF OfBody
    <3>2. IsBodyOf(w, raw)
      BY <2>1, <2>6, <2>11, <3>1 DEF IsBodyOf
    <3> QED
      BY <3>1, <3>2 DEF Accepted, SignedErrors, FieldErrors
  <2> QED
    BY <2>9, <2>10, <2>11
<1> QED
  BY <1>1, <1>2, <1>3, <1>4, <1>5

\* What is read of parts that fit is a transaction of those parts.
IsReadOf(tx, B) ==
    /\ tx \in WireTx /\ B = Parts(tx, B[11], B[12])
    /\ Len(B[11]) <= Word /\ Len(B[12]) <= Word
    /\ tx.r = Zeros(Word - Len(B[11])) \o B[11] /\ tx.s = Zeros(Word - Len(B[12])) \o B[12]

\* What is read of fitting parts is a transaction with those parts.
LEMMA PartsAreRead ==
    ASSUME NEW B \in [1 .. 12 -> Seq(Byte)], AllFit(B), Len(B) = 12
    PROVE  IsReadOf(Transaction(ReadValues(B, 12)), B)
<1> DEFINE V == ReadValues(B, 12)
           tx == Transaction(V)
<1>1. \A i \in 1 .. 12 : V[i] = ReadValue(i, B[i]) /\ B[i] \in Seq(Byte) /\ HasShape(SignedLayout[i], B[i])
  BY DEF ReadValues, AllFit
<1> HIDE DEF V
<1>1a. /\ V[6] = ReadValue(6, B[6]) /\ B[6] \in Seq(Byte) /\ HasShape(SignedLayout[6], B[6])
       /\ V[8] = ReadValue(8, B[8]) /\ B[8] \in Seq(Byte)
       /\ HasShape(SignedLayout[9], B[9])
       /\ V[10] = ReadValue(10, B[10]) /\ HasShape(SignedLayout[10], B[10])
  <2>1. 6 \in 1 .. 12 /\ 8 \in 1 .. 12 /\ 9 \in 1 .. 12 /\ 10 \in 1 .. 12
    OBVIOUS
  <2> QED
    BY <1>1, <2>1, Zenon
<1>2. ASSUME NEW i \in 1 .. 12, NEW name, NEW width \in Nat, SignedLayout[i] = Field(name, "int", width)
      PROVE  V[i] = B[i] /\ B[i] \in Quantity(width)
  <2>1. SignedLayout[i].kind = "int" /\ SignedLayout[i].width = width
    BY <1>2 DEF Field
  <2>2. IsMinimal(B[i]) /\ ~(Len(B[i]) > width) /\ B[i] \in Seq(Byte)
    BY <1>1, <2>1 DEF HasShape
  <2>3. V[i] = Trimmed(B[i])
    BY <1>1, <2>1 DEF ReadValue
  <2>4. Len(B[i]) <= width
    BY <1>2, <2>2, LenProperties
  <2> QED
    BY <2>2, <2>3, <2>4 DEF IsMinimal, Quantity
<1>3. U64 \in Nat /\ U128 \in Nat /\ AddressLen \in Nat
  BY WidthsAreNat
<1>4. /\ V[1] = B[1] /\ B[1] \in Quantity(U64) /\ V[2] = B[2] /\ B[2] \in Quantity(U64)
      /\ V[3] = B[3] /\ B[3] \in Quantity(U128)
  BY <1>2, <1>3, Layout
<1>5. /\ V[4] = B[4] /\ B[4] \in Quantity(U128) /\ V[5] = B[5] /\ B[5] \in Quantity(U64)
      /\ V[7] = B[7] /\ B[7] \in Quantity(U128)
  BY <1>2, <1>3, Layout
<1>6. V[6] = B[6] /\ B[6] \in [1 .. AddressLen -> Byte]
  <2>1. SignedLayout[6].kind = "fixed" /\ SignedLayout[6].width = AddressLen
    BY Layout DEF Field
  <2>2. V[6] = B[6] /\ Len(B[6]) = AddressLen /\ B[6] \in Seq(Byte)
    BY <1>1a, <2>1 DEF HasShape, ReadValue
  <2> DEFINE b == B[6]
  <2>3. b \in Seq(Byte) /\ Len(b) = AddressLen
    BY <2>2
  <2> HIDE DEF b
  <2>4. b \in [1 .. Len(b) -> Byte]
    BY <2>3, SeqIsFunction
  <2> QED
    BY <2>2, <2>3, <2>4 DEF b
<1>7. V[8] = B[8] /\ B[8] \in Seq(Byte)
  <2>1. SignedLayout[8].kind = "bytes"
    BY Layout DEF Field
  <2> QED
    BY <1>1a, <2>1 DEF ReadValue
<1>8. B[9] = <<>>
  <2>1. SignedLayout[9].kind = "empty_list"
    BY Layout DEF Field
  <2> QED
    BY <1>1a, <2>1 DEF HasShape
<1>9. V[10] = B[10] /\ B[10] \in {<<>>, <<1>>}
  <2>1. SignedLayout[10].kind = "parity"
    BY Layout DEF Field
  <2>2. IsMinimal(B[10]) /\ B[10] \in {<<>>, <<1>>} /\ V[10] = Trimmed(B[10])
    BY <1>1a, <2>1 DEF HasShape, ReadValue
  <2> QED
    BY <2>2 DEF IsMinimal
<1>10. ASSUME NEW i \in 1 .. 12, NEW name, SignedLayout[i] = Field(name, "word", Word)
       PROVE  V[i] = Zeros(Word - Len(B[i])) \o B[i] /\ Len(B[i]) <= Word /\ V[i] \in [1 .. Word -> Byte]
  <2>1. SignedLayout[i].kind = "word" /\ SignedLayout[i].width = Word
    BY <1>10 DEF Field
  <2>2. ~(Len(B[i]) > Word) /\ B[i] \in Seq(Byte) /\ V[i] = Zeros(Word - Len(B[i])) \o B[i]
    BY <1>1, <2>1 DEF HasShape, ReadValue
  <2>3. Len(B[i]) <= Word
    BY <2>2, WidthsAreNat, LenProperties
  <2> DEFINE b == B[i]
  <2>4. b \in Seq(Byte) /\ Len(b) <= Word
    BY <2>2, <2>3
  <2> HIDE DEF b
  <2>5. Zeros(Word - Len(b)) \o b \in [1 .. Word -> Byte]
    BY <2>4, WordsArePadded
  <2> QED
    BY <2>2, <2>3, <2>5 DEF b
<1>11. /\ V[11] = Zeros(Word - Len(B[11])) \o B[11] /\ Len(B[11]) <= Word /\ V[11] \in [1 .. Word -> Byte]
       /\ V[12] = Zeros(Word - Len(B[12])) \o B[12] /\ Len(B[12]) <= Word /\ V[12] \in [1 .. Word -> Byte]
  <2>1. 11 \in 1 .. 12 /\ 12 \in 1 .. 12
    OBVIOUS
  <2>2. SignedLayout[11] = Field("r", "word", Word) /\ SignedLayout[12] = Field("s", "word", Word)
    BY Layout
  <2> QED
    BY <1>10, <2>1, <2>2, Zenon
<1>12. /\ tx.chain_id = V[1] /\ tx.nonce = V[2] /\ tx.max_priority_fee_per_gas = V[3]
       /\ tx.max_fee_per_gas = V[4] /\ tx.gas_limit = V[5] /\ tx.to = V[6] /\ tx.value = V[7]
       /\ tx.data = V[8] /\ tx.y_parity = V[10] /\ tx.r = V[11] /\ tx.s = V[12]
  BY DEF Transaction
<1>13. tx \in WireTx
  BY <1>4, <1>5, <1>6, <1>7, <1>9, <1>11 DEF Transaction, WireTx
<1> DEFINE P == Parts(tx, B[11], B[12])
<1>14. /\ P[1] = B[1] /\ P[2] = B[2] /\ P[3] = B[3] /\ P[4] = B[4] /\ P[5] = B[5] /\ P[6] = B[6]
       /\ P[7] = B[7] /\ P[8] = B[8] /\ P[9] = B[9] /\ P[10] = B[10] /\ P[11] = B[11] /\ P[12] = B[12]
       /\ P = [i \in 1 .. 12 |-> P[i]]
  <2> HIDE DEF tx
  <2> QED
    BY <1>4, <1>5, <1>6, <1>7, <1>8, <1>9, <1>12 DEF Parts
<1>15. B = P
  <2> HIDE DEF P
  <2>1. ASSUME NEW i \in 1 .. 12  PROVE P[i] = B[i]
    <3>1. i = 1 \/ i = 2 \/ i = 3 \/ i = 4 \/ i = 5 \/ i = 6 \/ i = 7 \/ i = 8 \/ i = 9 \/ i = 10 \/ i = 11 \/ i = 12
      OBVIOUS
    <3> QED
      BY <1>14, <3>1, Zenon
  <2>2. B = [i \in 1 .. 12 |-> B[i]]
    OBVIOUS
  <2> QED
    BY <1>14, <2>1, <2>2
<1> HIDE DEF tx
<1>16. IsReadOf(tx, B)
  BY <1>11, <1>12, <1>13, <1>15 DEF IsReadOf
<1> QED
  BY <1>16 DEF tx, V

LEMMA LayoutIsNarrow ==
    ASSUME NEW i \in 1 .. 12
    PROVE  /\ SignedLayout[i].kind \in Kinds /\ SignedLayout[i].width \in Nat
           /\ SignedLayout[i].width <= 110
<1>1. U64 <= 55 /\ U128 <= 55 /\ AddressLen <= 55 /\ Word <= 110
  BY Widths
<1>2. U64 \in Nat /\ U128 \in Nat /\ AddressLen \in Nat /\ Word \in Nat
  BY WidthsAreNat
<1>3. SignedLayout[i].width \in {U64, U128, AddressLen, Word, 0, 1}
  <2>1. i = 1 \/ i = 2 \/ i = 3 \/ i = 4 \/ i = 5 \/ i = 6 \/ i = 7 \/ i = 8 \/ i = 9 \/ i = 10 \/ i = 11 \/ i = 12
    OBVIOUS
  <2> QED
    BY <2>1, Layout DEF Field
<1> QED
  BY <1>1, <1>2, <1>3, LayoutKinds

\* The parts of a transaction are the body of a list ...
LEMMA TransactionsAreChains ==
    ASSUME NEW tx \in WireTx, Len(tx.data) <= MaxPayload,
           NEW r \in Seq(Byte), Len(r) <= Word, NEW s \in Seq(Byte), Len(s) <= Word
    PROVE  \E R : IsChain(R, Parts(tx, r, s)) /\ IsBody(R[0], tx, r, s)
<1> DEFINE B == Parts(tx, r, s)
<1>1. B \in [1 .. 12 -> Seq(Byte)] /\ AllFit(B)
  BY TransactionsFit
<1>2. \A i \in 1 .. 12 : Len(B[i]) <= MaxPayload
  <2>1. /\ \A i \in 1 .. 12 : B[i] \in Seq(Byte) /\ HasShape(SignedLayout[i], B[i])
        /\ B[8] = tx.data
    BY <1>1 DEF AllFit, Parts
  <2> HIDE DEF B
  <2> SUFFICES ASSUME NEW i \in 1 .. 12  PROVE Len(B[i]) <= MaxPayload
    OBVIOUS
  <2>2. CASE SignedLayout[i].kind = "bytes"
    <3>1. i = 8
      <4>1. i = 1 \/ i = 2 \/ i = 3 \/ i = 4 \/ i = 5 \/ i = 6 \/ i = 7 \/ i = 8 \/ i = 9 \/ i = 10 \/ i = 11 \/ i = 12
        OBVIOUS
      <4> QED
        BY <2>2, <4>1, Layout DEF Field
    <3> QED
      BY <2>1, <3>1
  <2>3. CASE SignedLayout[i].kind # "bytes"
    <3>1. SignedLayout[i].kind \in Kinds /\ SignedLayout[i].width \in Nat /\ SignedLayout[i].width <= 110
      BY LayoutIsNarrow
    <3>2. Len(B[i]) \in Nat /\ HasShape(SignedLayout[i], B[i])
      BY <2>1, LenProperties
    <3>3. Len(B[i]) = 0 \/ Len(B[i]) <= SignedLayout[i].width
      BY <2>3, <3>1, <3>2 DEF HasShape, Kinds
    <3>4. Len(B[i]) <= 110
      BY <3>1, <3>2, <3>3
    <3> QED
      BY <3>2, <3>4, SMT DEF MaxPayload
  <2> QED
    BY <2>2, <2>3
<1> HIDE DEF B
<1>3. \A i \in 1 .. 12 : Framed(IsList(i), B[i]) \in Seq(Byte)
  <2> SUFFICES ASSUME NEW i \in 1 .. 12  PROVE Framed(IsList(i), B[i]) \in Seq(Byte)
    OBVIOUS
  <2>1. B[i] \in Seq(Byte) /\ Len(B[i]) <= MaxPayload /\ IsList(i) \in BOOLEAN
    BY <1>1, <1>2 DEF IsList
  <2> QED
    BY <2>1, PartsAreFramed
<1>4. PICK R : IsRests(R, B)
  BY <1>3, RestsExist
<1>5. IsBody(R[0], tx, r, s)
  BY <1>3, <1>4, BodiesArePutTogether DEF B
<1>6. \A i \in 1 .. 12 : Fits(i, B[i], R[i])
  BY <1>1, ShapesFit DEF AllFit
<1>7. IsChain(R, B)
  BY <1>1, <1>2, <1>4, <1>6 DEF IsChain, IsRests
<1> QED
  BY <1>5, <1>7 DEF B

\* ... and the list is what encode_signed writes.
LEMMA ListsAreWritten ==
    ASSUME NEW w \in Seq(Byte), Len(w) <= MaxPayload, NEW tx, NEW r, NEW s, IsBody(w, tx, r, s)
    PROVE  EncodeWith(tx, r, s) = <<TypeByte>> \o Framed(TRUE, w)
<1> DEFINE v == <<TypeByte>>
           h == Header(192, Len(w))
           e == EncodeFields(tx)
           g == Signature(tx, r, s)
<1>1. v \in Seq(Byte)
  <2>1. TypeByte \in Byte
    BY DEF TypeByte, Byte
  <2> QED
    BY <2>1, Singleton
<1>2. h \in Seq(Byte)
  <2>1. <<>> \in Seq(Byte) /\ 192 \in Codes
    BY DEF Codes
  <2> QED
    BY <2>1, HeaderIsRead
<1>3. e \in Seq(Byte) /\ g \in Seq(Byte) /\ w = e \o g /\ Len(w) = FieldsLength(tx) + Len(g)
  BY DEF IsBody
<1>4. EncodeWith(tx, r, s) = v \o h \o e \o g
  BY <1>3, Zenon DEF EncodeWith, Signature
<1>5. Framed(TRUE, w) = h \o w
  BY DEF Framed
<1> HIDE DEF v, h, e, g
<1>6. v \o h \in Seq(Byte) /\ (v \o h) \o (e \o g) = (v \o h) \o e \o g
  <2>1. v \o h \in Seq(Byte)
    BY ONLY <1>1, <1>2, CutApart
  <2> DEFINE p == v \o h
  <2>2. p \in Seq(Byte)
    BY <2>1
  <2> HIDE DEF p
  <2>3. (p \o e) \o g = p \o (e \o g)
    BY ONLY <1>3, <2>2, ConcatAssociative
  <2> QED
    BY <2>1, <2>3 DEF p
<1>7. (v \o h) \o w = v \o (h \o w)
  BY ONLY w \in Seq(Byte), <1>1, <1>2, ConcatAssociative
<1> QED
  BY <1>3, <1>4, <1>5, <1>6, <1>7 DEF v

IsPaddedSigned(tx, raw) ==
    /\ tx \in WireTx
    /\ \E r \in Padded(tx.r), s \in Padded(tx.s) : raw = EncodeWith(tx, r, s)
    /\ Len(tx.data) <= MaxPayload
    /\ EncodeFields(tx) \in Seq(Byte) /\ Len(EncodeFields(tx)) = FieldsLength(tx)
    /\ Len(EncodeFields(tx)) <= MaxPayload

\* decode_signed accepts only what encode_signed writes, but for zeros in front of
\* r and s.
LEMMA OnlySignedAreAccepted ==
    ASSUME NEW raw \in Seq(Byte), DecodeSigned(raw).error = "None"
    PROVE  IsPaddedSigned(DecodeSigned(raw).value, raw)
<1>1. PICK w : IsBodyOf(w, raw)
  BY OnlyBodiesAreAccepted
<1>2. /\ w \in Seq(Byte) /\ Len(w) <= MaxPayload /\ raw = <<TypeByte>> \o Framed(TRUE, w)
      /\ ReadFields(w).error = "None" /\ ReadFields(w).rest = <<>>
      /\ DecodeSigned(raw) = Accepted(Transaction(ReadFields(w).values))
  BY <1>1 DEF IsBodyOf
<1>3. PICK R, B : IsChain(R, B) /\ R[0] = w /\ ReadFields(w).values = ReadValues(B, 12)
  BY <1>2, ReadIsChain
<1> DEFINE tx == Transaction(ReadValues(B, 12))
<1>4. DecodeSigned(raw).value = tx
  <2>1. DecodeSigned(raw) = Accepted(tx)
    BY <1>2, <1>3
  <2> HIDE DEF tx
  <2> QED
    BY <2>1 DEF Accepted
<1>5. /\ B \in [1 .. 12 -> Seq(Byte)] /\ R \in [0 .. 12 -> Seq(Byte)] /\ R[12] = <<>>
      /\ \A i \in 1 .. 12 : /\ Len(B[i]) <= MaxPayload
                            /\ R[i - 1] = Framed(IsList(i), B[i]) \o R[i]
                            /\ Fits(i, B[i], R[i])
  BY <1>3 DEF IsChain
<1>6. AllFit(B)
  BY <1>5, ShapesFit DEF AllFit
<1>7. IsReadOf(tx, B)
  <2>1. Len(B) = 12
    BY <1>5
  <2> QED
    BY <1>5, <1>6, <2>1, PartsAreRead
<1> HIDE DEF tx
<1>8. /\ tx \in WireTx /\ B = Parts(tx, B[11], B[12])
      /\ Len(B[11]) <= Word /\ Len(B[12]) <= Word
      /\ tx.r = Zeros(Word - Len(B[11])) \o B[11] /\ tx.s = Zeros(Word - Len(B[12])) \o B[12]
  BY <1>7 DEF IsReadOf
<1> DEFINE r == B[11]
           s == B[12]
<1>9. r \in Seq(Byte) /\ s \in Seq(Byte)
  BY <1>5
<1>10. r \in Padded(tx.r) /\ s \in Padded(tx.s)
  <2> HIDE DEF r, s
  <2>1. r \in Padded(Zeros(Word - Len(r)) \o r)
    BY <1>8, <1>9, WordsArePadded DEF r
  <2>2. s \in Padded(Zeros(Word - Len(s)) \o s)
    BY <1>8, <1>9, WordsArePadded DEF s
  <2> QED
    BY <1>8, <2>1, <2>2 DEF r, s
<1>11. IsBody(w, tx, r, s)
  <2>1. ASSUME NEW i \in 1 .. 12  PROVE Framed(IsList(i), B[i]) \in Seq(Byte)
    <3>1. B[i] \in Seq(Byte) /\ Len(B[i]) <= MaxPayload /\ IsList(i) \in BOOLEAN
      BY <1>5 DEF IsList
    <3> QED
      BY <3>1, PartsAreFramed
  <2>2. IsRests(R, B)
    BY <1>5 DEF IsRests
  <2>3. B = Parts(tx, r, s)
    BY <1>8
  <2> HIDE DEF r, s
  <2>4. \A i \in 1 .. 12 : Framed(IsList(i), Parts(tx, r, s)[i]) \in Seq(Byte)
    BY <2>1, <2>3
  <2>5. IsRests(R, Parts(tx, r, s))
    BY <2>2, <2>3
  <2>6. IsBody(R[0], tx, r, s)
    BY <2>4, <2>5, BodiesArePutTogether
  <2> QED
    BY <1>3, <2>6
<1>12. Len(tx.data) <= MaxPayload
  <2>1. B[8] = tx.data
    BY <1>8 DEF Parts
  <2>2. 8 \in 1 .. 12
    OBVIOUS
  <2> QED
    BY <1>5, <2>1, <2>2, Zenon
<1> HIDE DEF r, s
<1>13. raw = EncodeWith(tx, r, s)
  BY <1>2, <1>11, ListsAreWritten
<1>14. /\ EncodeFields(tx) \in Seq(Byte) /\ Len(EncodeFields(tx)) = FieldsLength(tx)
       /\ Len(EncodeFields(tx)) <= MaxPayload
  <2>1. /\ EncodeFields(tx) \in Seq(Byte) /\ Signature(tx, r, s) \in Seq(Byte)
        /\ Len(EncodeFields(tx)) = FieldsLength(tx)
        /\ Len(w) = Len(EncodeFields(tx)) + Len(Signature(tx, r, s))
    BY <1>11 DEF IsBody
  <2>2. Len(EncodeFields(tx)) \in Nat /\ Len(Signature(tx, r, s)) \in Nat
    BY <2>1, LenProperties
  <2>3. MaxPayload \in Nat
    BY SMT DEF MaxPayload
  <2> QED
    BY <1>2, <2>1, <2>2, <2>3
<1>15. \E x \in Padded(tx.r), y \in Padded(tx.s) : raw = EncodeWith(tx, x, y)
  BY <1>10, <1>13
<1> QED
  BY <1>4, <1>8, <1>12, <1>14, <1>15 DEF IsPaddedSigned

SameFields(tx, other) ==
    /\ tx.chain_id = other.chain_id /\ tx.nonce = other.nonce
    /\ tx.max_priority_fee_per_gas = other.max_priority_fee_per_gas
    /\ tx.max_fee_per_gas = other.max_fee_per_gas /\ tx.gas_limit = other.gas_limit
    /\ tx.to = other.to /\ tx.value = other.value /\ tx.data = other.data

\* The parts of a transaction tell its fields.
LEMMA PartsTellFields ==
    ASSUME NEW tx, NEW other, NEW r, NEW s, Parts(tx, r, s) = Parts(other, r, s)
    PROVE  SameFields(tx, other) /\ tx.y_parity = other.y_parity
<1> DEFINE B == Parts(tx, r, s)
           C == Parts(other, r, s)
<1>1. /\ B[1] = tx.chain_id /\ B[2] = tx.nonce /\ B[3] = tx.max_priority_fee_per_gas
      /\ B[4] = tx.max_fee_per_gas /\ B[5] = tx.gas_limit /\ B[6] = tx.to /\ B[7] = tx.value
      /\ B[8] = tx.data /\ B[10] = tx.y_parity
  BY DEF Parts
<1>2. /\ C[1] = other.chain_id /\ C[2] = other.nonce /\ C[3] = other.max_priority_fee_per_gas
      /\ C[4] = other.max_fee_per_gas /\ C[5] = other.gas_limit /\ C[6] = other.to /\ C[7] = other.value
      /\ C[8] = other.data /\ C[10] = other.y_parity
  BY DEF Parts
<1>3. B = C
  OBVIOUS
<1> HIDE DEF B, C
<1> QED
  BY <1>1, <1>2, <1>3 DEF SameFields

\* Two transactions with the same parts, r and s are the same.
LEMMA SameParts ==
    ASSUME NEW tx \in WireTx, NEW other \in WireTx, NEW r, NEW s, Parts(tx, r, s) = Parts(other, r, s),
           other.r = tx.r, other.s = tx.s
    PROVE  other = tx
<1>1. SameFields(tx, other) /\ tx.y_parity = other.y_parity
  BY PartsTellFields
<1> QED
  BY <1>1 DEF SameFields, WireTx

\* The body of a transaction of the size the code is called with is not too long.
LEMMA SignedAreShort ==
    ASSUME NEW tx \in SignedTx, NEW r \in Seq(Byte), Len(r) <= Word, NEW s \in Seq(Byte), Len(s) <= Word,
           NEW R, IsChain(R, Parts(tx, r, s))
    PROVE  R[0] \in Seq(Byte) /\ Len(R[0]) <= MaxPayload /\ Len(R[0]) + 2 <= MaxPayload
<1> DEFINE B == Parts(tx, r, s)
           b(i) == IF i = 8 THEN MaxDataLen ELSE 110
<1>1. /\ R \in [0 .. 12 -> Seq(Byte)] /\ R[12] = <<>>
      /\ \A i \in 1 .. 12 : Len(B[i]) <= MaxPayload /\ R[i - 1] = Framed(IsList(i), B[i]) \o R[i]
  BY DEF IsChain
<1>2. tx \in WireTx /\ Len(tx.data) <= MaxDataLen
  BY DEF SignedTx, WireTx
<1>2a. MaxDataLen \in Nat
  BY SMT DEF MaxDataLen
<1>3. B \in [1 .. 12 -> Seq(Byte)] /\ AllFit(B)
  BY <1>2, TransactionsFit
<1>4. B[8] = tx.data
  BY DEF Parts
<1> HIDE DEF B
<1>5. \A i \in 1 .. 12 : Len(B[i]) \in Nat /\ Len(B[i]) <= b(i)
  <2> SUFFICES ASSUME NEW i \in 1 .. 12  PROVE Len(B[i]) \in Nat /\ Len(B[i]) <= b(i)
    OBVIOUS
  <2>1. Len(B[i]) \in Nat /\ HasShape(SignedLayout[i], B[i])
    BY <1>3, LenProperties DEF AllFit
  <2>2. CASE i = 8
    BY <1>2, <1>4, <2>1, <2>2, SMT
  <2>3. CASE i # 8
    <3>1. SignedLayout[i].kind # "bytes"
      <4>1. i = 1 \/ i = 2 \/ i = 3 \/ i = 4 \/ i = 5 \/ i = 6 \/ i = 7 \/ i = 9 \/ i = 10 \/ i = 11 \/ i = 12
        BY <2>3
      <4> QED
        BY <4>1, Layout DEF Field
    <3>2. SignedLayout[i].kind \in Kinds /\ SignedLayout[i].width \in Nat /\ SignedLayout[i].width <= 110
      BY LayoutIsNarrow
    <3>3. Len(B[i]) = 0 \/ Len(B[i]) <= SignedLayout[i].width
      BY <2>1, <3>1, <3>2 DEF HasShape, Kinds
    <3> QED
      BY <2>1, <2>3, <3>2, <3>3
  <2> QED
    BY <2>2, <2>3
<1> DEFINE L(i) == Len(R[i])
<1>6. \A i \in 1 .. 12 : L(i) \in Nat /\ L(i - 1) \in Nat /\ L(i - 1) <= L(i) + b(i) + 4
  <2> SUFFICES ASSUME NEW i \in 1 .. 12  PROVE L(i) \in Nat /\ L(i - 1) \in Nat /\ L(i - 1) <= L(i) + b(i) + 4
    OBVIOUS
  <2> DEFINE f == Framed(IsList(i), B[i])
             x == R[i]
  <2>1. x \in Seq(Byte) /\ R[i - 1] = f \o x
    <3>1. i \in 0 .. 12
      OBVIOUS
    <3> QED
      BY <1>1, <3>1
  <2>2. f \in Seq(Byte) /\ Len(f) \in Nat /\ Len(f) <= Len(B[i]) + 4
    <3>1. B[i] \in Seq(Byte) /\ Len(B[i]) <= MaxPayload /\ IsList(i) \in BOOLEAN
      BY <1>1, <1>3 DEF IsList
    <3> QED
      BY <3>1, PartsAreFramed
  <2> HIDE DEF f, x
  <2>3. Len(f \o x) = Len(f) + Len(x) /\ Len(x) \in Nat
    BY <2>1, <2>2, CutApart, LenProperties
  <2>4. Len(B[i]) \in Nat /\ Len(B[i]) <= b(i) /\ b(i) \in Nat
    BY <1>2a, <1>5
  <2> HIDE DEF b
  <2> QED
    BY <2>1, <2>2, <2>3, <2>4 DEF x
<1> HIDE DEF L
<1> DEFINE l0 == L(0)
           l1 == L(1)
           l2 == L(2)
           l3 == L(3)
           l4 == L(4)
           l5 == L(5)
           l6 == L(6)
           l7 == L(7)
           l8 == L(8)
           l9 == L(9)
           l10 == L(10)
           l11 == L(11)
           l12 == L(12)
<1>28. l11 \in Nat /\ l12 \in Nat /\ l11 <= l12 + 110 + 4
  <2> DEFINE i == 12
  <2>1. i \in 1 .. 12 /\ b(i) = 110 /\ i - 1 = 11
    OBVIOUS
  <2> HIDE DEF b, i
  <2>2. L(i) \in Nat /\ L(i - 1) \in Nat /\ L(i - 1) <= L(i) + 110 + 4
    BY <1>6, <2>1
  <2> QED
    BY <2>1, <2>2 DEF i
<1>29. l10 \in Nat /\ l11 \in Nat /\ l10 <= l11 + 110 + 4
  <2> DEFINE i == 11
  <2>1. i \in 1 .. 12 /\ b(i) = 110 /\ i - 1 = 10
    OBVIOUS
  <2> HIDE DEF b, i
  <2>2. L(i) \in Nat /\ L(i - 1) \in Nat /\ L(i - 1) <= L(i) + 110 + 4
    BY <1>6, <2>1
  <2> QED
    BY <2>1, <2>2 DEF i
<1>30. l9 \in Nat /\ l10 \in Nat /\ l9 <= l10 + 110 + 4
  <2> DEFINE i == 10
  <2>1. i \in 1 .. 12 /\ b(i) = 110 /\ i - 1 = 9
    OBVIOUS
  <2> HIDE DEF b, i
  <2>2. L(i) \in Nat /\ L(i - 1) \in Nat /\ L(i - 1) <= L(i) + 110 + 4
    BY <1>6, <2>1
  <2> QED
    BY <2>1, <2>2 DEF i
<1>31. l8 \in Nat /\ l9 \in Nat /\ l8 <= l9 + 110 + 4
  <2> DEFINE i == 9
  <2>1. i \in 1 .. 12 /\ b(i) = 110 /\ i - 1 = 8
    OBVIOUS
  <2> HIDE DEF b, i
  <2>2. L(i) \in Nat /\ L(i - 1) \in Nat /\ L(i - 1) <= L(i) + 110 + 4
    BY <1>6, <2>1
  <2> QED
    BY <2>1, <2>2 DEF i
<1>32. l7 \in Nat /\ l8 \in Nat /\ l7 <= l8 + MaxDataLen + 4
  <2> DEFINE i == 8
  <2>1. i \in 1 .. 12 /\ b(i) = MaxDataLen /\ i - 1 = 7
    OBVIOUS
  <2> HIDE DEF b, i
  <2>2. L(i) \in Nat /\ L(i - 1) \in Nat /\ L(i - 1) <= L(i) + MaxDataLen + 4
    BY <1>6, <2>1
  <2> QED
    BY <2>1, <2>2 DEF i
<1>33. l6 \in Nat /\ l7 \in Nat /\ l6 <= l7 + 110 + 4
  <2> DEFINE i == 7
  <2>1. i \in 1 .. 12 /\ b(i) = 110 /\ i - 1 = 6
    OBVIOUS
  <2> HIDE DEF b, i
  <2>2. L(i) \in Nat /\ L(i - 1) \in Nat /\ L(i - 1) <= L(i) + 110 + 4
    BY <1>6, <2>1
  <2> QED
    BY <2>1, <2>2 DEF i
<1>34. l5 \in Nat /\ l6 \in Nat /\ l5 <= l6 + 110 + 4
  <2> DEFINE i == 6
  <2>1. i \in 1 .. 12 /\ b(i) = 110 /\ i - 1 = 5
    OBVIOUS
  <2> HIDE DEF b, i
  <2>2. L(i) \in Nat /\ L(i - 1) \in Nat /\ L(i - 1) <= L(i) + 110 + 4
    BY <1>6, <2>1
  <2> QED
    BY <2>1, <2>2 DEF i
<1>35. l4 \in Nat /\ l5 \in Nat /\ l4 <= l5 + 110 + 4
  <2> DEFINE i == 5
  <2>1. i \in 1 .. 12 /\ b(i) = 110 /\ i - 1 = 4
    OBVIOUS
  <2> HIDE DEF b, i
  <2>2. L(i) \in Nat /\ L(i - 1) \in Nat /\ L(i - 1) <= L(i) + 110 + 4
    BY <1>6, <2>1
  <2> QED
    BY <2>1, <2>2 DEF i
<1>36. l3 \in Nat /\ l4 \in Nat /\ l3 <= l4 + 110 + 4
  <2> DEFINE i == 4
  <2>1. i \in 1 .. 12 /\ b(i) = 110 /\ i - 1 = 3
    OBVIOUS
  <2> HIDE DEF b, i
  <2>2. L(i) \in Nat /\ L(i - 1) \in Nat /\ L(i - 1) <= L(i) + 110 + 4
    BY <1>6, <2>1
  <2> QED
    BY <2>1, <2>2 DEF i
<1>37. l2 \in Nat /\ l3 \in Nat /\ l2 <= l3 + 110 + 4
  <2> DEFINE i == 3
  <2>1. i \in 1 .. 12 /\ b(i) = 110 /\ i - 1 = 2
    OBVIOUS
  <2> HIDE DEF b, i
  <2>2. L(i) \in Nat /\ L(i - 1) \in Nat /\ L(i - 1) <= L(i) + 110 + 4
    BY <1>6, <2>1
  <2> QED
    BY <2>1, <2>2 DEF i
<1>38. l1 \in Nat /\ l2 \in Nat /\ l1 <= l2 + 110 + 4
  <2> DEFINE i == 2
  <2>1. i \in 1 .. 12 /\ b(i) = 110 /\ i - 1 = 1
    OBVIOUS
  <2> HIDE DEF b, i
  <2>2. L(i) \in Nat /\ L(i - 1) \in Nat /\ L(i - 1) <= L(i) + 110 + 4
    BY <1>6, <2>1
  <2> QED
    BY <2>1, <2>2 DEF i
<1>39. l0 \in Nat /\ l1 \in Nat /\ l0 <= l1 + 110 + 4
  <2> DEFINE i == 1
  <2>1. i \in 1 .. 12 /\ b(i) = 110 /\ i - 1 = 0
    OBVIOUS
  <2> HIDE DEF b, i
  <2>2. L(i) \in Nat /\ L(i - 1) \in Nat /\ L(i - 1) <= L(i) + 110 + 4
    BY <1>6, <2>1
  <2> QED
    BY <2>1, <2>2 DEF i
<1>7. l12 = 0
  BY <1>1 DEF L
<1> DEFINE m == MaxDataLen
<1>8. m \in Nat
  BY <1>2a
<1> HIDE DEF l0, l1, l2, l3, l4, l5, l6, l7, l8, l9, l10, l11, l12
<1>9. l0 <= MaxPayload /\ l0 + 2 <= MaxPayload
  <2>1. l0 \in Nat /\ l0 <= MaxDataLen + 1258
    <3>1. l8 <= 456
      BY <1>7, <1>28, <1>29, <1>30, <1>31
    <3>2. l0 <= l8 + m + 802
      <4> HIDE DEF m
      <4>1. l0 <= l7 + 798
        BY <1>33, <1>34, <1>35, <1>36, <1>37, <1>38, <1>39
      <4>2. l7 <= l8 + m + 4
        BY <1>32 DEF m
      <4> QED
        BY <1>8, <1>32, <1>39, <4>1, <4>2
    <3> QED
      BY <1>8, <1>31, <1>39, <3>1, <3>2
  <2> QED
    BY <2>1, SMT DEF MaxPayload, MaxDataLen
<1> QED
  BY <1>1, <1>9 DEF L, l0

\* What encode_signed writes is read.
LEMMA SignedAreRead ==
    ASSUME NEW tx \in SignedTx
    PROVE  EncodeSigned(tx) \in Seq(Byte) /\ DecodeSigned(EncodeSigned(tx)) = Accepted(tx)
<1> DEFINE r == Trimmed(tx.r)
           s == Trimmed(tx.s)
           B == Parts(tx, r, s)
<1>1. tx \in WireTx /\ Len(tx.data) <= MaxDataLen
  BY DEF SignedTx, WireTx
<1>2. Len(tx.data) <= MaxPayload
  <2>1. Len(tx.data) \in Nat
    BY <1>1, LenProperties DEF WireTx
  <2> QED
    BY <1>1, <2>1, SMT DEF MaxPayload, MaxDataLen
<1>3. /\ r \in Seq(Byte) /\ Len(r) <= Word /\ tx.r = Zeros(Word - Len(r)) \o r
      /\ s \in Seq(Byte) /\ Len(s) <= Word /\ tx.s = Zeros(Word - Len(s)) \o s
  <2>1. ASSUME NEW d \in [1 .. Word -> Byte]
        PROVE  Trimmed(d) \in Seq(Byte) /\ Len(Trimmed(d)) <= Word
               /\ d = Zeros(Word - Len(Trimmed(d))) \o Trimmed(d)
    <3>1. d \in Seq(Byte) /\ Len(d) = Word
      BY <2>1, WidthsAreNat, FunctionIsSeq
    <3>2. 0 \in Byte
      BY DEF Byte
    <3>3. /\ Trimmed(d) \in Seq(Byte) /\ Len(Trimmed(d)) \in 0 .. Len(d)
          /\ d = Zeros(Len(d) - Len(Trimmed(d))) \o Trimmed(d)
      BY <3>1, <3>2, TrimmedSplits
    <3> QED
      BY <3>1, <3>3, WidthsAreNat
  <2>2. tx.r \in [1 .. Word -> Byte] /\ tx.s \in [1 .. Word -> Byte]
    BY <1>1 DEF WireTx
  <2> QED
    BY <2>1, <2>2
<1>3a. EncodeSigned(tx) = EncodeWith(tx, r, s)
  BY DEF EncodeSigned
<1> HIDE DEF r, s
<1>4. PICK R : IsChain(R, Parts(tx, r, s)) /\ IsBody(R[0], tx, r, s)
  BY <1>1, <1>2, <1>3, TransactionsAreChains
<1> DEFINE w == R[0]
<1>5. w \in Seq(Byte) /\ Len(w) <= MaxPayload
  BY <1>3, <1>4, SignedAreShort
<1>6. ReadFields(w) = [error |-> "None", rest |-> <<>>, values |-> ReadValues(B, 12)]
  BY <1>4, ChainIsRead
<1>6a. IsBody(w, tx, r, s)
  BY <1>4
<1>6b. B \in [1 .. 12 -> Seq(Byte)] /\ AllFit(B) /\ Len(B) = 12
  BY <1>1, <1>3, TransactionsFit DEF Parts
<1>6c. B[11] = r /\ B[12] = s
  BY DEF Parts
<1> HIDE DEF w
<1>7. EncodeWith(tx, r, s) = <<TypeByte>> \o Framed(TRUE, w)
  BY <1>5, <1>6a, ListsAreWritten
<1>8. DecodeSigned(EncodeWith(tx, r, s)) = OfBody(w)
  BY <1>5, <1>7, BodyIsRead
<1> DEFINE other == Transaction(ReadValues(B, 12))
<1>9. OfBody(w) = Accepted(other)
  <2> DEFINE values == ReadValues(B, 12)
  <2> HIDE DEF values
  <2>1. ReadFields(w).error = "None" /\ ReadFields(w).rest = <<>> /\ ReadFields(w).values = values
    BY <1>6 DEF values
  <2> QED
    BY <2>1, Zenon DEF OfBody, values
<1>10. IsReadOf(other, B)
  <2> HIDE DEF B
  <2> QED
    BY <1>6b, PartsAreRead
<1> HIDE DEF other
<1>11. /\ other \in WireTx /\ B = Parts(other, B[11], B[12])
       /\ other.r = Zeros(Word - Len(B[11])) \o B[11] /\ other.s = Zeros(Word - Len(B[12])) \o B[12]
  BY <1>10 DEF IsReadOf
<1>12. other.r = tx.r /\ other.s = tx.s
  BY <1>3, <1>6c, <1>11
<1>13. Parts(tx, r, s) = Parts(other, r, s)
  BY <1>6c, <1>11
<1>14. other = tx
  BY <1>1, <1>11, <1>12, <1>13, SameParts
<1>15. <<TypeByte>> \o Framed(TRUE, w) \in Seq(Byte)
  <2>1. TypeByte \in Byte
    BY DEF TypeByte, Byte
  <2>2. Framed(TRUE, w) \in Seq(Byte)
    BY <1>5, PartsAreFramed
  <2> QED
    BY <2>1, <2>2, FirstAndRest
<1> QED
  BY <1>3a, <1>7, <1>8, <1>9, <1>14, <1>15

\* What is signed of a transaction is one list with the fields.
HasFields(tx) ==
    /\ tx \in WireTx /\ Len(tx.data) <= MaxPayload
    /\ EncodeFields(tx) \in Seq(Byte) /\ Len(EncodeFields(tx)) = FieldsLength(tx)
    /\ Len(EncodeFields(tx)) <= MaxPayload

\* Every transaction that is signed has such a list.
LEMMA SignedHaveFields ==
    ASSUME NEW tx \in SignedTx
    PROVE  HasFields(tx)
<1> DEFINE none == <<>>
<1>1. tx \in WireTx /\ Len(tx.data) <= MaxDataLen
  BY DEF SignedTx, WireTx
<1>2. Len(tx.data) <= MaxPayload
  <2>1. Len(tx.data) \in Nat
    BY <1>1, LenProperties DEF WireTx
  <2> QED
    BY <1>1, <2>1, SMT DEF MaxPayload, MaxDataLen
<1>3. none \in Seq(Byte) /\ Len(none) <= Word
  BY WidthsAreNat
<1> HIDE DEF none
<1>4. PICK R : IsChain(R, Parts(tx, none, none)) /\ IsBody(R[0], tx, none, none)
  BY <1>1, <1>2, <1>3, TransactionsAreChains
<1> DEFINE w == R[0]
<1>5. w \in Seq(Byte) /\ Len(w) <= MaxPayload
  BY <1>3, <1>4, SignedAreShort
<1>6. /\ EncodeFields(tx) \in Seq(Byte) /\ Signature(tx, none, none) \in Seq(Byte)
      /\ Len(EncodeFields(tx)) = FieldsLength(tx)
      /\ Len(w) = Len(EncodeFields(tx)) + Len(Signature(tx, none, none))
  BY <1>4 DEF IsBody
<1> HIDE DEF w
<1>7. Len(EncodeFields(tx)) \in Nat /\ Len(Signature(tx, none, none)) \in Nat
  BY <1>6, LenProperties
<1>8. MaxPayload \in Nat
  BY SMT DEF MaxPayload
<1>9. Len(EncodeFields(tx)) <= MaxPayload
  BY <1>5, <1>6, <1>7, <1>8
<1> QED
  BY <1>1, <1>2, <1>6, <1>9 DEF HasFields

\* What is signed is a list of the fields alone.
LEMMA UnsignedIsFramed ==
    ASSUME NEW tx, HasFields(tx)
    PROVE  EncodeUnsigned(tx) = <<TypeByte>> \o Framed(TRUE, EncodeFields(tx))
<1> DEFINE v == <<TypeByte>>
           e == EncodeFields(tx)
           h == Header(192, Len(e))
<1>1. v \in Seq(Byte)
  <2>1. TypeByte \in Byte
    BY DEF TypeByte, Byte
  <2> QED
    BY <2>1, Singleton
<1>2. e \in Seq(Byte) /\ Len(e) = FieldsLength(tx) /\ Len(e) <= MaxPayload
  BY DEF HasFields
<1>3. h \in Seq(Byte)
  <2>1. <<>> \in Seq(Byte) /\ 192 \in Codes
    BY DEF Codes
  <2> HIDE DEF e
  <2> QED
    BY <1>2, <2>1, HeaderIsRead
<1>4. EncodeUnsigned(tx) = v \o h \o e
  BY <1>2, Zenon DEF EncodeUnsigned
<1>5. Framed(TRUE, e) = h \o e
  BY DEF Framed
<1>5a. v \in Seq(Byte) /\ h \in Seq(Byte) /\ e \in Seq(Byte)
  BY <1>1, <1>2, <1>3
<1> HIDE DEF v, h, e
<1>6. (v \o h) \o e = v \o (h \o e)
  BY ONLY <1>5a, ConcatAssociative
<1> QED
  BY <1>4, <1>5, <1>6 DEF v, e

\* Two lists are the same only if their bodies are.
LEMMA FramesTellBodies ==
    ASSUME NEW a \in Seq(Byte), Len(a) <= MaxPayload, NEW b \in Seq(Byte), Len(b) <= MaxPayload,
           <<TypeByte>> \o Framed(TRUE, a) = <<TypeByte>> \o Framed(TRUE, b)
    PROVE  a = b
<1>1. ASSUME NEW c \in Seq(Byte), Len(c) <= MaxPayload
      PROVE  /\ Tail(<<TypeByte>> \o Framed(TRUE, c)) = Framed(TRUE, c)
             /\ DecodeItem(Framed(TRUE, c)) = Decoded(TRUE, c, <<>>)
  <2> DEFINE f == Framed(TRUE, c)
  <2>1. <<>> \in Seq(Byte) /\ TRUE \in BOOLEAN
    OBVIOUS
  <2>2. f \in Seq(Byte) /\ DecodeItem(f \o <<>>) = Decoded(TRUE, c, <<>>)
    BY <1>1, <2>1, FramedIsRead
  <2> HIDE DEF f
  <2>3. f \o <<>> = f
    BY <2>2, ConcatEmptySeq
  <2>4. TypeByte \in Byte
    BY DEF TypeByte, Byte
  <2>5. Tail(<<TypeByte>> \o f) = f
    BY <2>2, <2>4, FirstAndRest
  <2> QED
    BY <2>2, <2>3, <2>5 DEF f
<1>2. Framed(TRUE, a) = Framed(TRUE, b)
  BY <1>1
<1>3. Decoded(TRUE, a, <<>>) = Decoded(TRUE, b, <<>>)
  BY <1>1, <1>2
<1>4. Decoded(TRUE, a, <<>>).bytes = a /\ Decoded(TRUE, b, <<>>).bytes = b
  BY DEF Decoded
<1> QED
  BY <1>3, <1>4

\* The fields alone, with a signature that says nothing
Blank(tx) == [tx EXCEPT !.y_parity = <<>>]

IsBlankOf(blank, tx) ==
    /\ blank \in WireTx /\ SameFields(blank, tx) /\ blank.y_parity = <<>>
    /\ EncodeFields(blank) = EncodeFields(tx)

\* A transaction with its parity taken away
LEMMA Blanks ==
    ASSUME NEW tx \in WireTx
    PROVE  IsBlankOf(Blank(tx), tx)
<1> DEFINE blank == Blank(tx)
<1>1. SameFields(blank, tx) /\ blank.y_parity = <<>>
  BY DEF Blank, SameFields, WireTx
<1>2. blank \in WireTx
  BY DEF Blank, WireTx
<1> HIDE DEF blank
<1>3. EncodeFields(blank) = EncodeFields(tx)
  BY <1>1 DEF EncodeFields, SameFields
<1>4. IsBlankOf(blank, tx)
  BY <1>1, <1>2, <1>3 DEF IsBlankOf
<1> QED
  BY <1>4 DEF blank

IsBlankBody(w, tx, e) ==
    /\ w = e \o Signature(tx, <<>>, <<>>)
    /\ ReadFields(w).values = ReadValues(Parts(tx, <<>>, <<>>), 12)

\* The body of a transaction with an empty signature
LEMMA BlankBodies ==
    ASSUME NEW tx \in WireTx, Len(tx.data) <= MaxPayload
    PROVE  \E w : IsBlankBody(w, tx, EncodeFields(tx))
<1> DEFINE none == <<>>
<1>1. none \in Seq(Byte) /\ Len(none) <= Word
  BY WidthsAreNat
<1> HIDE DEF none
<1>2. PICK R : IsChain(R, Parts(tx, none, none)) /\ IsBody(R[0], tx, none, none)
  BY <1>1, TransactionsAreChains
<1>3. R[0] = EncodeFields(tx) \o Signature(tx, none, none)
  BY <1>2 DEF IsBody
<1> DEFINE values == ReadValues(Parts(tx, none, none), 12)
<1>4. ReadFields(R[0]) = [error |-> "None", rest |-> <<>>, values |-> values]
  BY <1>2, ChainIsRead
<1> HIDE DEF values
<1>5. ReadFields(R[0]).values = values
  BY <1>4
<1> QED
  BY <1>3, <1>5, Zenon DEF IsBlankBody, none, values

\* The fields of a transaction are told by their bytes.
LEMMA FieldsAreTold ==
    ASSUME NEW tx, HasFields(tx), NEW other, HasFields(other), EncodeFields(tx) = EncodeFields(other)
    PROVE  SameFields(tx, other)
<1> DEFINE none == <<>>
           a == Blank(tx)
           b == Blank(other)
           B == Parts(a, none, none)
           C == Parts(b, none, none)
<1>1. tx \in WireTx /\ Len(tx.data) <= MaxPayload /\ other \in WireTx /\ Len(other.data) <= MaxPayload
  BY DEF HasFields
<1>2. IsBlankOf(a, tx) /\ IsBlankOf(b, other)
  BY <1>1, Blanks
<1> HIDE DEF a, b
<1>3. /\ a \in WireTx /\ a.y_parity = <<>> /\ EncodeFields(a) = EncodeFields(tx) /\ SameFields(a, tx)
      /\ b \in WireTx /\ b.y_parity = <<>> /\ EncodeFields(b) = EncodeFields(other) /\ SameFields(b, other)
  BY <1>2 DEF IsBlankOf
<1>4. Len(a.data) <= MaxPayload /\ Len(b.data) <= MaxPayload
  BY <1>1, <1>3 DEF SameFields
<1>5. PICK v : IsBlankBody(v, a, EncodeFields(a))
  BY <1>3, <1>4, BlankBodies
<1>6. PICK w : IsBlankBody(w, b, EncodeFields(b))
  BY <1>3, <1>4, BlankBodies
<1>7. v = w
  <2>1. Signature(a, <<>>, <<>>) = Signature(b, <<>>, <<>>)
    BY <1>3 DEF Signature
  <2> QED
    BY <1>3, <1>5, <1>6, <2>1 DEF IsBlankBody
<1>8. ReadValues(B, 12) = ReadValues(C, 12)
  BY <1>5, <1>6, <1>7, Zenon DEF IsBlankBody
<1>9. none \in Seq(Byte) /\ Len(none) <= Word
  BY WidthsAreNat
<1>10. B[11] = none /\ B[12] = none /\ C[11] = none /\ C[12] = none /\ Len(B) = 12 /\ Len(C) = 12
  BY DEF Parts
<1> HIDE DEF none
<1>11. B \in [1 .. 12 -> Seq(Byte)] /\ AllFit(B) /\ C \in [1 .. 12 -> Seq(Byte)] /\ AllFit(C)
  BY <1>3, <1>9, TransactionsFit
<1> DEFINE t == Transaction(ReadValues(B, 12))
<1> HIDE DEF B, C
<1>12. IsReadOf(t, B)
  BY <1>10, <1>11, PartsAreRead
<1>13. IsReadOf(Transaction(ReadValues(C, 12)), C)
  BY <1>10, <1>11, PartsAreRead
<1>14. IsReadOf(t, C)
  BY <1>8, <1>13
<1> HIDE DEF t
<1>15. B = Parts(t, none, none) /\ C = Parts(t, none, none)
  BY <1>10, <1>12, <1>14 DEF IsReadOf
<1>16. Parts(a, none, none) = Parts(b, none, none)
  BY <1>15 DEF B, C
<1>17. SameFields(a, b)
  BY <1>16, PartsTellFields
<1> QED
  BY <1>3, <1>17 DEF SameFields

\* Two transactions are signed alike only if their fields are the same.
LEMMA UnsignedTellsFields ==
    ASSUME NEW tx, HasFields(tx), NEW other, HasFields(other), EncodeUnsigned(tx) = EncodeUnsigned(other)
    PROVE  \A i \in DOMAIN UnsignedLayout : tx[UnsignedLayout[i].name] = other[UnsignedLayout[i].name]
<1> DEFINE e == EncodeFields(tx)
           f == EncodeFields(other)
<1>1. e \in Seq(Byte) /\ Len(e) <= MaxPayload /\ f \in Seq(Byte) /\ Len(f) <= MaxPayload
  BY DEF HasFields
<1>2. <<TypeByte>> \o Framed(TRUE, e) = <<TypeByte>> \o Framed(TRUE, f)
  BY UnsignedIsFramed
<1>3. e = f
  <2> HIDE DEF e, f
  <2> QED
    BY <1>1, <1>2, FramesTellBodies
<1>4. SameFields(tx, other)
  BY <1>3, FieldsAreTold
<1>5. DOMAIN UnsignedLayout = 1 .. 8
  BY DEF UnsignedLayout
<1>6. /\ UnsignedLayout[1].name = "chain_id" /\ UnsignedLayout[2].name = "nonce"
      /\ UnsignedLayout[3].name = "max_priority_fee_per_gas" /\ UnsignedLayout[4].name = "max_fee_per_gas"
      /\ UnsignedLayout[5].name = "gas_limit" /\ UnsignedLayout[6].name = "to"
      /\ UnsignedLayout[7].name = "value" /\ UnsignedLayout[8].name = "data"
  BY DEF UnsignedLayout, Field
<1>7. SUFFICES ASSUME NEW i \in 1 .. 8  PROVE tx[UnsignedLayout[i].name] = other[UnsignedLayout[i].name]
  BY <1>5
<1>8. i = 1 \/ i = 2 \/ i = 3 \/ i = 4 \/ i = 5 \/ i = 6 \/ i = 7 \/ i = 8
  OBVIOUS
<1> QED
  BY <1>4, <1>6, <1>8 DEF SameFields

-----------------------------------------------------------------------------
(* Reading whatever has become of what was written *)

\* Sequences that are put together keep their elements.
LEMMA ElementsRemain ==
    ASSUME NEW S, NEW a \in Seq(S), NEW b \in Seq(S)
    PROVE  ToSet(a) \subseteq ToSet(a \o b) /\ ToSet(b) \subseteq ToSet(a \o b)
<1> DEFINE w == a \o b
           m == Len(a)
           n == Len(b)
<1>1. /\ m \in Nat /\ n \in Nat /\ w \in Seq(S) /\ Len(w) = m + n
      /\ \A i \in 1 .. m + n : w[i] = IF i <= m THEN a[i] ELSE b[i - m]
  BY ConcatProperties, LenProperties
<1>2. DOMAIN a = 1 .. m /\ DOMAIN b = 1 .. n /\ DOMAIN w = 1 .. m + n
  BY <1>1, LenProperties
<1> HIDE DEF w, m, n
<1>3. ASSUME NEW x \in ToSet(a)  PROVE x \in ToSet(w)
  <2>1. PICK i \in 1 .. m : x = a[i]
    BY <1>2, <1>3 DEF ToSet
  <2>2. i \in 1 .. m + n /\ w[i] = x
    BY <1>1, <2>1
  <2> QED
    BY <1>2, <2>2 DEF ToSet
<1>4. ASSUME NEW x \in ToSet(b)  PROVE x \in ToSet(w)
  <2>1. PICK i \in 1 .. n : x = b[i]
    BY <1>2, <1>4 DEF ToSet
  <2> DEFINE j == i + m
  <2>2. j \in 1 .. m + n /\ ~(j <= m) /\ j - m = i
    BY <1>1
  <2> HIDE DEF j
  <2>3. w[j] = x
    BY <1>1, <2>1, <2>2
  <2> QED
    BY <1>2, <2>2, <2>3 DEF ToSet
<1> QED
  BY <1>3, <1>4 DEF w

\* Any stretch of a sequence, none if it ends before it begins
LEMMA Within ==
    ASSUME NEW S, NEW s \in Seq(S), NEW m \in Nat, m >= 1, NEW n \in Nat, n <= Len(s)
    PROVE  SubSeq(s, m, n) \in Seq(S) /\ Len(SubSeq(s, m, n)) = IF m <= n THEN n - m + 1 ELSE 0
<1>1. Len(s) \in Nat /\ \A i \in 1 .. Len(s) : s[i] \in S
  BY LenProperties, ElementOfSeq
<1>2. m \in Int /\ n \in Int /\ \A i \in m .. n : s[i] \in S
  BY <1>1
<1> QED
  BY ONLY <1>2, SubSeqProperties

IsSplice(w, S, seq, symbol) ==
    /\ w \in Seq(S) /\ Len(w) <= Len(seq) + Len(symbol)
    /\ ToSet(symbol) \subseteq ToSet(w)

\* A splice keeps the kind of bytes, adds the symbol's length at most, and contains the symbol.
LEMMA SpliceType ==
    ASSUME NEW S, NEW seq \in Seq(S), NEW i \in 1 .. Len(seq) + 1, NEW n \in 0 .. 2, NEW symbol \in Seq(S)
    PROVE  IsSplice(Splice(seq, i, n, symbol), S, seq, symbol)
<1> DEFINE l == Len(seq)
           a == SubSeq(seq, 1, i - 1)
           b == SubSeq(seq, i + n, l)
           p == a \o symbol
           w == p \o b
<1>1. l \in Nat /\ i \in Nat /\ 1 <= i /\ i <= l + 1 /\ n \in Nat
  BY LenProperties
<1>2. a \in Seq(S) /\ Len(a) \in Nat /\ Len(a) <= i - 1
  <2> DEFINE k == i - 1
             c == 1
  <2>1. k \in Nat /\ k <= l /\ c \in Nat /\ c >= 1
    BY <1>1
  <2> HIDE DEF k, c
  <2>2. SubSeq(seq, c, k) \in Seq(S) /\ Len(SubSeq(seq, c, k)) = IF c <= k THEN k - c + 1 ELSE 0
    BY <2>1, Within
  <2>3. c = 1
    BY DEF c
  <2> DEFINE x == SubSeq(seq, c, k)
  <2>4. x \in Seq(S) /\ Len(x) = IF c <= k THEN k - c + 1 ELSE 0
    BY <2>2
  <2>5. a = x
    BY <2>3 DEF k
  <2> HIDE DEF x, a
  <2>6. Len(x) \in Nat /\ Len(x) <= k
    BY <2>1, <2>3, <2>4
  <2> QED
    BY <2>4, <2>5, <2>6 DEF k
<1>3. b \in Seq(S) /\ Len(b) \in Nat /\ Len(b) <= l + 1 - i
  <2> DEFINE m == i + n
  <2>1. m \in Nat /\ m >= 1 /\ m >= i
    BY <1>1
  <2> HIDE DEF m
  <2>2. l <= Len(seq)
    BY <1>1
  <2>3. SubSeq(seq, m, l) \in Seq(S) /\ Len(SubSeq(seq, m, l)) = IF m <= l THEN l - m + 1 ELSE 0
    <3> HIDE DEF l
    <3> QED
      BY <1>1, <2>1, <2>2, Within
  <2> DEFINE x == SubSeq(seq, m, l)
  <2>4. x \in Seq(S) /\ Len(x) = IF m <= l THEN l - m + 1 ELSE 0
    BY <2>3
  <2>5. b = x
    BY DEF m
  <2> HIDE DEF x, b, l
  <2>6. Len(x) \in Nat /\ Len(x) <= l + 1 - i
    BY <1>1, <2>1, <2>4
  <2> QED
    BY <2>4, <2>5, <2>6
<1>4. Splice(seq, i, n, symbol) = w
  BY DEF Splice
<1>5. Len(symbol) \in Nat
  BY LenProperties
<1> HIDE DEF a, b
<1>6. p \in Seq(S) /\ Len(p) = Len(a) + Len(symbol) /\ ToSet(symbol) \subseteq ToSet(p)
  BY <1>2, CutApart, ElementsRemain
<1> HIDE DEF p
<1>7. w \in Seq(S) /\ Len(w) = Len(p) + Len(b) /\ ToSet(p) \subseteq ToSet(w)
  BY <1>3, <1>6, CutApart, ElementsRemain
<1> HIDE DEF w, l
<1>8. Len(w) <= l + Len(symbol)
  BY <1>1, <1>2, <1>3, <1>5, <1>6, <1>7
<1>9. ToSet(symbol) \subseteq ToSet(w)
  BY <1>6, <1>7
<1> QED
  BY <1>4, <1>7, <1>8, <1>9 DEF IsSplice, l

\* A text, by its characters
IsText(text) == text \in Seq(Nat)

\* A splice of two texts is one.
LEMMA SplicedTexts ==
    ASSUME NEW seq \in Seq(Nat), NEW i \in 1 .. Len(seq) + 1, NEW n \in 0 .. 2,
           NEW symbol, IsText(symbol)
    PROVE  IsText(Splice(seq, i, n, symbol))
<1> DEFINE w == Splice(seq, i, n, symbol)
<1>1. symbol \in Seq(Nat)
  BY DEF IsText
<1>2. IsSplice(w, Nat, seq, symbol)
  <2> HIDE DEF w
  <2> QED
    BY <1>1, SpliceType DEF w
<1> HIDE DEF w
<1> QED
  BY <1>2 DEF IsSplice, IsText, w

\* The hexadecimal texts that are written are digits behind their prefix.
LEMMA HexIsText ==
    ASSUME NEW bytes \in Seq(Byte)
    PROVE  ToHex(bytes) \in Seq(Nat) /\ ToHexQuantity(bytes) \in Seq(Nat)
<1>1. Nibbles(bytes) \in Seq(Digits)
  BY NibblesType
<1>2. ToHex(bytes) = Prefix \o Nibbles(bytes)
  BY DEF ToHex, Prefix
<1>3. PICK digits \in Seq(Digits) : ToHexQuantity(bytes) = Prefix \o digits
  BY QuantityDigits
<1>4. \A s \in Seq(Digits) : Prefix \o s \in Seq(Nat)
  BY DigitsOnly, Prefixed
<1> QED
  BY <1>1, <1>2, <1>3, <1>4

LEMMA ValuesAre ==
    /\ Values("eip1559") = SignedTx /\ Values("transfer") = Transfer
    /\ Values("key") = {bytes \in [1 .. Word -> Byte] : IsKey(bytes)}
    /\ Values("share") = [index : 1 .. 255, threshold : 2 .. 255, value : [1 .. Word -> Byte]]
    /\ Values("bytes") = Seq(Byte) /\ Values("address") = [1 .. AddressLen -> Byte]
    /\ Values("quantity") = [1 .. U128 -> Byte] /\ Values("uint256") = [1 .. U128 -> Byte]
  BY DEF Values

LEMMA ReadersAre ==
    /\ Readers("eip1559") = {"decode_signed"} /\ Readers("transfer") = {"decode"}
    /\ Readers("key") = {"open", "open_share"} /\ Readers("share") = {"open", "open_share"}
    /\ Readers("bytes") = {"parse_hex_bytes"}
    /\ Readers("address") = {"parse_address_hex", "parse_address"}
    /\ Readers("quantity") = {"parse_hex_u128"} /\ Readers("uint256") = {"decode_uint256_result"}
  BY DEF Readers, Sealed

LEMMA ReturnedIs ==
    ASSUME NEW p
    PROVE  /\ Returned("decode_signed", p) = DecodeSigned(wire)
           /\ Returned("decode", p) = DecodeTransfer(wire)
           /\ Returned("open", p) = OpenKey(sealing.value, p, wire)
           /\ Returned("open_share", p) = OpenShare(sealing.value, p, wire)
           /\ Returned("parse_hex_bytes", p) = ParseHex(wire)
           /\ Returned("parse_address_hex", p) = ParseFixedHex(wire, AddressLen)
           /\ Returned("parse_address", p) = ParseThenMeasure(wire, AddressLen)
           /\ Returned("parse_hex_u128", p) = ParseQuantity(wire, U128)
           /\ Returned("decode_uint256_result", p) = DecodeUint256(wire)
  BY DEF Returned

LEMMA EncodedIs ==
    /\ format = "eip1559" => Encoded = EncodeSigned(sent)
    /\ format = "transfer" => Encoded = EncodeTransfer(sent)
    /\ format \in {"bytes", "address"} => Encoded = ToHex(sent)
    /\ format = "quantity" => Encoded = ToHexQuantity(sent)
    /\ format = "uint256" => Encoded = Zeros(Word - U128) \o sent
  BY DEF Encoded

-----------------------------------------------------------------------------
(* The invariant *)

\* What is sealed
Plaintext == IF format = "key" THEN sent ELSE SharePlaintext(sent)

\* What is written, as long as it is whole
Written == IF format \in Sealed THEN sealing.value.blob ELSE Encoded

\* What is written without a seal is a text or bytes.
LEMMA EncodedType ==
    ASSUME format \in Formats, format \notin Sealed, sent \in Values(format)
    PROVE  IF format \in Texts THEN Encoded \in Seq(Nat) ELSE Encoded \in Seq(Byte)
<1>1. CASE format = "eip1559"
  <2>1. Encoded = EncodeSigned(sent) /\ sent \in SignedTx
    BY <1>1, EncodedIs, ValuesAre
  <2>2. EncodeSigned(sent) \in Seq(Byte)
    BY <2>1, SignedAreRead
  <2> QED
    BY <1>1, <2>1, <2>2 DEF Texts
<1>2. CASE format = "transfer"
  <2>1. Encoded = EncodeTransfer(sent) /\ sent \in Transfer
    BY <1>2, EncodedIs, ValuesAre
  <2>2. EncodeTransfer(sent) \in Seq(Byte)
    BY <2>1, TransferIsBytes
  <2> QED
    BY <1>2, <2>1, <2>2 DEF Texts
<1>3. CASE format \in {"bytes", "address"}
  <2>1. Encoded = ToHex(sent)
    BY <1>3, EncodedIs
  <2>2. sent \in Seq(Byte)
    BY <1>3, ValuesAre, WidthsAreNat, FunctionIsSeq
  <2>3. ToHex(sent) \in Seq(Nat)
    BY <2>2, HexIsText
  <2> QED
    BY <1>3, <2>1, <2>3 DEF Texts
<1>4. CASE format = "quantity"
  <2>1. Encoded = ToHexQuantity(sent) /\ sent \in [1 .. U128 -> Byte]
    BY <1>4, EncodedIs, ValuesAre
  <2>2. sent \in Seq(Byte)
    BY <2>1, WidthsAreNat, FunctionIsSeq
  <2>3. ToHexQuantity(sent) \in Seq(Nat)
    BY <2>2, HexIsText
  <2> QED
    BY <1>4, <2>1, <2>3 DEF Texts
<1>5. CASE format = "uint256"
  <2>1. Encoded = Zeros(Word - U128) \o sent /\ sent \in [1 .. U128 -> Byte]
    BY <1>5, EncodedIs, ValuesAre
  <2>2. Encoded \in Seq(Byte)
    BY <2>1, WordsAreRead
  <2> QED
    BY <1>5, <2>2 DEF Texts
<1> QED
  BY <1>1, <1>2, <1>3, <1>4, <1>5 DEF Formats, Sealed

\* What is sealed are the bytes of a key, or those of a share, which are two more.
LEMMA PlaintextType ==
    ASSUME format \in Sealed, sent \in Values(format)
    PROVE  /\ Plaintext \in Seq(Byte)
           /\ format = "key" => Len(Plaintext) = Word /\ IsKey(Plaintext) /\ Plaintext = sent
           /\ format = "share" => Len(Plaintext) = 2 + Word
<1>1. CASE format = "key"
  <2>1. Plaintext = sent /\ sent \in [1 .. Word -> Byte] /\ IsKey(sent)
    BY <1>1, ValuesAre DEF Plaintext
  <2>2. sent \in Seq(Byte) /\ Len(sent) = Word
    BY <2>1, WidthsAreNat, FunctionIsSeq
  <2> QED
    BY <1>1, <2>1, <2>2
<1>2. CASE format = "share"
  <2>1. Plaintext = SharePlaintext(sent)
        /\ sent \in [index : 1 .. 255, threshold : 2 .. 255, value : [1 .. Word -> Byte]]
    BY <1>2, ValuesAre DEF Plaintext
  <2>2. SharePlaintext(sent) \in Seq(Byte) /\ Len(SharePlaintext(sent)) = 2 + Word
    BY <2>1, SharePlaintexts
  <2> QED
    BY <1>2, <2>1, <2>2
<1> QED
  BY <1>1, <1>2 DEF Sealed

\* What is spliced in is two bytes at most, of the kind of the format.
LEMMA SymbolsType ==
    ASSUME format \in Formats, NEW symbol \in Symbols[format] \cup {<<>>}
    PROVE  /\ Len(symbol) \in Nat /\ Len(symbol) <= 2
           /\ IF format \in Texts THEN IsText(symbol) ELSE symbol \in Seq(Byte)
<1>1. CASE symbol = <<>>
  BY <1>1 DEF IsText
<1>2. CASE symbol \in Symbols[format]
  <2>1. /\ Len(symbol) <= 2
        /\ symbol \in IF format \in Texts THEN Seq(Nat) ELSE Seq(Byte)
    BY <1>2, SymbolsAssumption, Zenon
  <2>2. Len(symbol) \in Nat
    BY <2>1, LenProperties
  <2> QED
    BY <2>1, <2>2 DEF IsText
<1> QED
  BY <1>1, <1>2

\* What may be read: a text that is still one, or bytes
IsWire(w) == IF format \in Texts THEN IsText(w) ELSE w \in Seq(Byte)

CodecInv ==
    /\ format \in Formats /\ sent \in Values(format)
    /\ phase = "start" => ~damaged
    /\ phase \in {"written", "read"} =>
          /\ IsWire(wire)
          /\ format \in Sealed => IsSealing(sealing.value, sealing.value.passphrase, Plaintext)
          /\ ~damaged => wire = Written
    /\ phase = "read" => reader \in Readers(format) /\ result = Returned(reader, passphrase)

\* A behaviour begins with a value of its format.
LEMMA CodecInitInv == Init => CodecInv
<1> SUFFICES ASSUME Init  PROVE CodecInv
  OBVIOUS
<1>1. format \in Formats /\ sent \in Samples[format] /\ phase = "start" /\ ~damaged
  BY DEF Init
<1>2. sent \in Values(format)
  BY <1>1, SamplesAssumption
<1> QED
  BY <1>1, <1>2 DEF CodecInv

\* What is written is what the invariant calls Written.
LEMMA WriteInv == CodecInv /\ Write => CodecInv'
<1> SUFFICES ASSUME CodecInv, Write  PROVE CodecInv'
  OBVIOUS
<1>1. format \in Formats /\ sent \in Values(format) /\ phase = "start" /\ ~damaged
  BY DEF CodecInv, Write
<1>2. format' = format /\ sent' = sent /\ damaged' = damaged
  BY DEF Write
<1>3. CASE format \notin Sealed
  <2>1. wire' = Encoded /\ phase' = "written"
    BY <1>3 DEF Write
  <2>2. Encoded' = Encoded
    BY <1>2 DEF Encoded
  <2>3. IsWire(wire)'
    BY <1>1, <1>2, <1>3, <2>1, EncodedType DEF IsWire, IsText
  <2>4. (wire = Written)'
    BY <1>2, <1>3, <2>1, <2>2 DEF Written
  <2> QED
    BY <1>1, <1>2, <1>3, <2>1, <2>3, <2>4 DEF CodecInv
<1>4. CASE format \in Sealed
  <2>1. PICK p \in Passphrases : Seal(p)
    BY <1>4 DEF Write
  <2>2. /\ sealing' = SealBytes(p, Plaintext)
        /\ wire' = (IF sealing'.error = "None" THEN sealing'.value.blob ELSE <<>>)
        /\ phase' = (IF sealing'.error = "None" THEN "written" ELSE "refused")
    BY <2>1 DEF Seal, Plaintext
  <2>3. CASE p \in Strong
    <3>1. Plaintext \in Seq(Byte)
      BY <1>1, <1>4, PlaintextType
    <3>2. SealBytes(p, Plaintext).error = "None" /\ IsSealing(SealBytes(p, Plaintext).value, p, Plaintext)
      BY <2>3, <3>1, SealBytesSeals
    <3>3. /\ phase' = "written" /\ wire' = sealing'.value.blob
          /\ IsSealing(sealing'.value, p, Plaintext) /\ sealing'.value.passphrase = p
          /\ sealing'.value.blob \in Seq(Byte)
      BY <2>2, <3>2 DEF IsSealing
    <3>4. Plaintext' = Plaintext
      BY <1>2 DEF Plaintext
    <3>5. IsWire(wire)'
      BY <1>2, <1>4, <3>3 DEF IsWire, Texts, Sealed
    <3>6. (wire = Written)'
      BY <1>2, <1>4, <3>3 DEF Written
    <3>7. IsSealing(sealing.value, sealing.value.passphrase, Plaintext)'
      BY <3>3, <3>4 DEF IsSealing
    <3> QED
      BY <1>1, <1>2, <3>3, <3>5, <3>6, <3>7 DEF CodecInv
  <2>4. CASE p \notin Strong
    <3>1. SealBytes(p, Plaintext).error = "WeakPassphrase"
      BY <2>4 DEF SealBytes, Refused
    <3>2. phase' = "refused"
      BY <2>2, <3>1
    <3> QED
      BY <1>1, <1>2, <3>2 DEF CodecInv
  <2> QED
    BY <2>3, <2>4
<1> QED
  BY <1>3, <1>4

\* What stands before a wire is damaged
LEMMA WholeWires ==
    ASSUME CodecInv, phase = "written", ~damaged
    PROVE  /\ format \in Formats /\ sent \in Values(format) /\ wire = Written
           /\ IF format \in Texts THEN wire \in Seq(Nat) ELSE wire \in Seq(Byte)
<1>1. format \in Formats /\ sent \in Values(format) /\ wire = Written /\ IsWire(wire)
  BY DEF CodecInv
<1>2. CASE format \in Texts
  <2>1. format \notin Sealed /\ wire = Encoded
    BY <1>1, <1>2 DEF Texts, Sealed, Written
  <2> QED
    BY <1>1, <1>2, <2>1, EncodedType
<1>3. CASE format \notin Texts
  BY <1>1, <1>3 DEF IsWire
<1> QED
  BY <1>1, <1>2, <1>3

\* Whatever a wire is changed to, what was written remains known.
LEMMA ChangedWire ==
    ASSUME CodecInv, phase = "written", phase' = phase, damaged', IsWire(wire)',
           UNCHANGED <<format, sent, sealing, reader, passphrase, result>>
    PROVE  CodecInv'
<1>1. /\ format \in Formats /\ sent \in Values(format)
      /\ format \in Sealed => IsSealing(sealing.value, sealing.value.passphrase, Plaintext)
  BY DEF CodecInv
<1>2. format' = format /\ sent' = sent /\ sealing' = sealing
  OBVIOUS
<1>3. Plaintext' = Plaintext
  BY <1>2 DEF Plaintext
<1>4. (format \in Sealed => IsSealing(sealing.value, sealing.value.passphrase, Plaintext))'
  BY <1>1, <1>2, <1>3 DEF IsSealing
<1>5. phase' = "written" /\ damaged'
  OBVIOUS
<1> QED
  BY <1>1, <1>2, <1>4, <1>5 DEF CodecInv

\* A splice leaves bytes or a text.
LEMMA DamageInv == CodecInv /\ Damage => CodecInv'
<1> SUFFICES ASSUME CodecInv, Damage  PROVE CodecInv'
  OBVIOUS
<1>1. /\ phase = "written" /\ ~damaged /\ damaged' /\ phase' = phase
      /\ UNCHANGED <<format, sent, sealing, reader, passphrase, result>>
  BY DEF Damage
<1>2. PICK i \in 1 .. Len(wire) + 1, n \in 0 .. 2, symbol \in Symbols[format] \cup {<<>>} :
          wire' = Splice(wire, i, n, symbol)
  BY DEF Damage
<1>3. format \in Formats /\ IF format \in Texts THEN wire \in Seq(Nat) ELSE wire \in Seq(Byte)
  BY <1>1, WholeWires
<1>4. IF format \in Texts THEN IsText(symbol) ELSE symbol \in Seq(Byte)
  BY <1>3, SymbolsType
<1> DEFINE w == Splice(wire, i, n, symbol)
<1>5. IF format \in Texts THEN IsText(w) ELSE w \in Seq(Byte)
  <2>1. CASE format \in Texts
    <3>1. wire \in Seq(Nat) /\ IsText(symbol)
      BY <1>3, <1>4, <2>1
    <3>2. IsText(Splice(wire, i, n, symbol))
      BY ONLY <3>1, SplicedTexts, i \in 1 .. Len(wire) + 1, n \in 0 .. 2
    <3> QED
      BY <2>1, <3>2
  <2>2. CASE format \notin Texts
    <3>1. wire \in Seq(Byte) /\ symbol \in Seq(Byte)
      BY <1>3, <1>4, <2>2
    <3>2. IsSplice(Splice(wire, i, n, symbol), Byte, wire, symbol)
      BY ONLY <3>1, SpliceType, i \in 1 .. Len(wire) + 1, n \in 0 .. 2
    <3>3. Splice(wire, i, n, symbol) \in Seq(Byte)
      BY <3>2 DEF IsSplice
    <3> QED
      BY <2>2, <3>3
  <2> QED
    BY <2>1, <2>2
<1>6. wire' = w /\ format' = format
  BY <1>1, <1>2
<1> HIDE DEF w
<1>7. IsWire(wire)'
  BY <1>5, <1>6 DEF IsWire
<1> QED
  BY <1>1, <1>7, ChangedWire

\* The head of a wire is bytes or a text.
LEMMA TruncateInv == CodecInv /\ Truncate => CodecInv'
<1> SUFFICES ASSUME CodecInv, Truncate  PROVE CodecInv'
  OBVIOUS
<1>1. /\ phase = "written" /\ ~damaged /\ damaged' /\ phase' = phase
      /\ UNCHANGED <<format, sent, sealing, reader, passphrase, result>>
  BY DEF Truncate
<1>2. PICK n \in 0 .. Len(wire) - 1 : wire' = SubSeq(wire, 1, n)
  BY DEF Truncate
<1>3. IF format \in Texts THEN wire \in Seq(Nat) ELSE wire \in Seq(Byte)
  BY <1>1, WholeWires
<1>4. ASSUME NEW S, wire \in Seq(S)  PROVE SubSeq(wire, 1, n) \in Seq(S)
  <2> DEFINE m == 1
  <2>1. Len(wire) \in Nat
    BY <1>4, LenProperties
  <2>2. n \in Nat /\ n <= Len(wire) /\ m \in Nat /\ m >= 1
    BY <2>1
  <2> HIDE DEF m
  <2>3. SubSeq(wire, m, n) \in Seq(S)
    BY <1>4, <2>2, Within
  <2> QED
    BY <2>3 DEF m
<1>5. wire' = SubSeq(wire, 1, n) /\ format' = format
  BY <1>1, <1>2
<1>6. IsWire(wire)'
  <2>1. CASE format \in Texts
    <3>1. wire' \in Seq(Nat)
      BY <1>3, <1>4, <1>5, <2>1
    <3>2. IsText(wire')
      BY <3>1 DEF IsText
    <3> QED
      BY <1>5, <2>1, <3>2 DEF IsWire
  <2>2. CASE format \notin Texts
    <3>1. wire' \in Seq(Byte)
      BY <1>3, <1>4, <1>5, <2>2
    <3> QED
      BY <1>5, <2>2, <3>1 DEF IsWire
  <2> QED
    BY <2>1, <2>2
<1> QED
  BY <1>1, <1>6, ChangedWire

\* What is in the list of a signed transaction leaves room for two more bytes.
LEMMA SignedBodies ==
    ASSUME NEW tx \in SignedTx
    PROVE  /\ DecodeItem(Tail(EncodeSigned(tx))).bytes \in Seq(Byte)
           /\ Len(DecodeItem(Tail(EncodeSigned(tx))).bytes) + 2 <= MaxPayload
<1> DEFINE r == Trimmed(tx.r)
           s == Trimmed(tx.s)
<1>1. tx \in WireTx /\ Len(tx.data) <= MaxDataLen
  BY DEF SignedTx, WireTx
<1>2. Len(tx.data) <= MaxPayload
  <2>1. Len(tx.data) \in Nat
    BY <1>1, LenProperties DEF WireTx
  <2> QED
    BY <1>1, <2>1, SMT DEF MaxPayload, MaxDataLen
<1>3. r \in Seq(Byte) /\ Len(r) <= Word /\ s \in Seq(Byte) /\ Len(s) <= Word
  <2>1. ASSUME NEW d \in [1 .. Word -> Byte]
        PROVE  Trimmed(d) \in Seq(Byte) /\ Len(Trimmed(d)) <= Word
    <3>1. d \in Seq(Byte) /\ Len(d) = Word
      BY <2>1, WidthsAreNat, FunctionIsSeq
    <3>2. 0 \in Byte
      BY DEF Byte
    <3>3. Trimmed(d) \in Seq(Byte) /\ Len(Trimmed(d)) \in 0 .. Len(d)
      BY <3>1, <3>2, TrimmedSplits
    <3> QED
      BY <3>1, <3>3, WidthsAreNat
  <2>2. tx.r \in [1 .. Word -> Byte] /\ tx.s \in [1 .. Word -> Byte]
    BY <1>1 DEF WireTx
  <2> QED
    BY <2>1, <2>2
<1>4. EncodeSigned(tx) = EncodeWith(tx, r, s)
  BY DEF EncodeSigned
<1> HIDE DEF r, s
<1>5. PICK R : IsChain(R, Parts(tx, r, s)) /\ IsBody(R[0], tx, r, s)
  BY <1>1, <1>2, <1>3, TransactionsAreChains
<1> DEFINE w == R[0]
<1>6. w \in Seq(Byte) /\ Len(w) <= MaxPayload /\ Len(w) + 2 <= MaxPayload
  BY <1>3, <1>5, SignedAreShort
<1>7. IsBody(w, tx, r, s)
  BY <1>5
<1> HIDE DEF w
<1> DEFINE f == Framed(TRUE, w)
<1>8. EncodeSigned(tx) = <<TypeByte>> \o f
  BY <1>4, <1>6, <1>7, ListsAreWritten
<1>9. <<>> \in Seq(Byte) /\ TRUE \in BOOLEAN
  OBVIOUS
<1>10. f \in Seq(Byte) /\ DecodeItem(f \o <<>>) = Decoded(TRUE, w, <<>>)
  BY <1>6, <1>9, FramedIsRead
<1>11. TypeByte \in Byte
  BY DEF TypeByte, Byte
<1> HIDE DEF f
<1>12. f \o <<>> = f
  BY <1>10, ConcatEmptySeq
<1>13. Tail(<<TypeByte>> \o f) = f
  BY <1>10, <1>11, FirstAndRest
<1>14. DecodeItem(Tail(EncodeSigned(tx))) = Decoded(TRUE, w, <<>>)
  BY <1>8, <1>10, <1>12, <1>13
<1>15. Decoded(TRUE, w, <<>>).bytes = w
  BY DEF Decoded
<1> QED
  BY <1>6, <1>14, <1>15

\* Whatever body is put into a list, the wire is bytes.
LEMMA ReframedType ==
    ASSUME NEW body \in Seq(Byte), Len(body) <= MaxPayload
    PROVE  <<TypeByte>> \o Header(192, Len(body)) \o body \in Seq(Byte)
<1> DEFINE v == <<TypeByte>>
           h == Header(192, Len(body))
<1>1. h \in Seq(Byte)
  <2>1. <<>> \in Seq(Byte) /\ 192 \in Codes
    BY DEF Codes
  <2> QED
    BY <2>1, HeaderIsRead
<1>2. v \in Seq(Byte)
  <2>1. TypeByte \in Byte
    BY DEF TypeByte, Byte
  <2> QED
    BY <2>1, Singleton
<1> HIDE DEF v, h
<1>3. v \o h \in Seq(Byte)
  BY <1>1, <1>2, CutApart
<1> DEFINE x == v \o h
<1> HIDE DEF x
<1>4. x \o body \in Seq(Byte)
  BY <1>3, CutApart DEF x
<1> QED
  BY <1>4 DEF x, v, h

\* Another body is bytes too, and short enough for a header.
LEMMA ReframeInv == CodecInv /\ Reframe => CodecInv'
<1> SUFFICES ASSUME CodecInv, Reframe  PROVE CodecInv'
  OBVIOUS
<1>1. /\ phase = "written" /\ ~damaged /\ damaged' /\ phase' = phase /\ format = "eip1559"
      /\ UNCHANGED <<format, sent, sealing, reader, passphrase, result>>
  BY DEF Reframe
<1> DEFINE body == DecodeItem(Tail(wire)).bytes
<1>2. PICK i \in 1 .. Len(body) + 1, n \in 0 .. 2, symbol \in Symbols[format] \cup {<<>>} :
          wire' = <<TypeByte>> \o Header(192, Len(Splice(body, i, n, symbol))) \o Splice(body, i, n, symbol)
  BY DEF Reframe
<1>3. /\ sent \in SignedTx /\ wire = EncodeSigned(sent)
  <2>1. sent \in Values(format) /\ wire = Written
    BY <1>1, WholeWires
  <2> QED
    BY <1>1, <2>1, ValuesAre, EncodedIs DEF Written, Sealed
<1>4. body \in Seq(Byte) /\ Len(body) + 2 <= MaxPayload
  BY <1>3, SignedBodies
<1> HIDE DEF body
<1>5. symbol \in Seq(Byte) /\ Len(symbol) \in Nat /\ Len(symbol) <= 2
  <2>1. format \in Formats /\ format \notin Texts
    BY <1>1 DEF Formats, Texts
  <2> QED
    BY <2>1, SymbolsType
<1> DEFINE other == Splice(body, i, n, symbol)
<1>6. IsSplice(Splice(body, i, n, symbol), Byte, body, symbol)
  BY ONLY <1>4, <1>5, SpliceType, i \in 1 .. Len(body) + 1, n \in 0 .. 2
<1>7. other \in Seq(Byte) /\ Len(other) <= Len(body) + Len(symbol)
  BY <1>6 DEF IsSplice
<1>8. wire' = <<TypeByte>> \o Header(192, Len(other)) \o other
  BY <1>2
<1> HIDE DEF other
<1>9. Len(other) <= MaxPayload
  <2>1. Len(other) \in Nat /\ Len(body) \in Nat
    BY <1>4, <1>7, LenProperties
  <2>2. MaxPayload \in Nat
    BY SMT DEF MaxPayload
  <2> QED
    BY <1>4, <1>5, <1>7, <2>1, <2>2
<1>10. wire' \in Seq(Byte)
  BY <1>7, <1>8, <1>9, ReframedType
<1>11. IsWire(wire)'
  BY <1>1, <1>10 DEF IsWire, Texts
<1> QED
  BY <1>1, <1>11, ChangedWire

\* The reader is one of the format's, and its result is what it returns on the wire.
LEMMA ReadInv ==
    ASSUME CodecInv, NEW r \in Readers(format), NEW p, Read(r, p)
    PROVE  CodecInv'
<1>1. /\ phase = "written" /\ phase' = "read" /\ reader' = r /\ passphrase' = p
      /\ result' = Returned(r, p)
      /\ format' = format /\ sent' = sent /\ sealing' = sealing /\ wire' = wire /\ damaged' = damaged
  BY DEF Read
<1>2. /\ format \in Formats /\ sent \in Values(format) /\ IsWire(wire)
      /\ format \in Sealed => IsSealing(sealing.value, sealing.value.passphrase, Plaintext)
      /\ ~damaged => wire = Written
  BY <1>1 DEF CodecInv
<1>3. IsWire(wire)'
  BY <1>1, <1>2 DEF IsWire
<1>4. Plaintext' = Plaintext /\ Written' = Written
  <2>1. Encoded' = Encoded
    BY <1>1 DEF Encoded
  <2> QED
    BY <1>1, <2>1 DEF Plaintext, Written
<1>5. (format \in Sealed => IsSealing(sealing.value, sealing.value.passphrase, Plaintext))'
  BY <1>1, <1>2, <1>4 DEF IsSealing
<1>6. (~damaged => wire = Written)'
  BY <1>1, <1>2, <1>4
<1>7. (reader \in Readers(format))'
  BY <1>1 DEF Readers
<1>8. (result = Returned(reader, passphrase))'
  BY <1>1, Zenon DEF Returned
<1> QED
  BY <1>1, <1>2, <1>3, <1>5, <1>6, <1>7, <1>8 DEF CodecInv

\* Every step keeps the invariant.
LEMMA NextInv == CodecInv /\ [Next]_vars => CodecInv'
<1> SUFFICES ASSUME CodecInv, [Next]_vars  PROVE CodecInv'
  OBVIOUS
<1>1. CASE Write
  BY <1>1, WriteInv
<1>2. CASE Damage
  BY <1>2, DamageInv
<1>3. CASE Reframe
  BY <1>3, ReframeInv
<1>4. CASE Truncate
  BY <1>4, TruncateInv
<1>5. CASE \E r \in Readers(format) :
              \E p \in IF format \in Sealed THEN Passphrases ELSE {AnyPassphrase} : Read(r, p)
  BY <1>5, ReadInv
<1>6. CASE UNCHANGED vars
  <2>1. /\ phase' = phase /\ format' = format /\ sent' = sent /\ sealing' = sealing /\ wire' = wire
        /\ damaged' = damaged /\ reader' = reader /\ passphrase' = passphrase /\ result' = result
    BY <1>6 DEF vars
  <2>2. IsWire(wire)' = IsWire(wire)
    BY <2>1 DEF IsWire
  <2>3. Plaintext' = Plaintext /\ Written' = Written
    <3>1. Encoded' = Encoded
      BY <2>1 DEF Encoded
    <3> QED
      BY <2>1, <3>1 DEF Plaintext, Written
  <2>4. IsSealing(sealing.value, sealing.value.passphrase, Plaintext)'
           = IsSealing(sealing.value, sealing.value.passphrase, Plaintext)
    BY <2>1, <2>3
  <2>5. Returned(reader, passphrase)' = Returned(reader, passphrase)
    BY <2>1 DEF Returned
  <2>6. Readers(format)' = Readers(format)
    BY <2>1
  <2> QED
    BY <2>1, <2>2, <2>3, <2>4, <2>5, <2>6 DEF CodecInv
<1> QED
  BY <1>1, <1>2, <1>3, <1>4, <1>5, <1>6 DEF Next

-----------------------------------------------------------------------------
(* The properties *)

\* The invariant of the codec is inductive.
LEMMA CodecInvariant == Spec => []CodecInv
  BY CodecInitInv, NextInv, PTL DEF Spec

\* What is known once a wire has been read
LEMMA ReadStates ==
    ASSUME CodecInv, phase = "read"
    PROVE  /\ format \in Formats /\ sent \in Values(format) /\ reader \in Readers(format)
           /\ result = Returned(reader, passphrase)
           /\ IF format \in Texts THEN IsText(wire) ELSE wire \in Seq(Byte)
           /\ format \in Sealed => IsSealing(sealing.value, sealing.value.passphrase, Plaintext)
           /\ ~damaged => wire = IF format \in Sealed THEN sealing.value.blob ELSE Encoded
  BY DEF CodecInv, IsWire, Written

\* What has been read, by format
LEMMA ResultIs ==
    ASSUME CodecInv, phase = "read"
    PROVE  /\ format = "eip1559" => wire \in Seq(Byte) /\ sent \in SignedTx /\ result = DecodeSigned(wire)
           /\ format = "transfer" => wire \in Seq(Byte) /\ sent \in Transfer /\ result = DecodeTransfer(wire)
           /\ format \in Sealed => wire \in Seq(Byte)
           /\ reader = "open" => result = OpenKey(sealing.value, passphrase, wire)
           /\ reader = "open_share" => result = OpenShare(sealing.value, passphrase, wire)
           /\ format \in Sealed => reader \in {"open", "open_share"}
           /\ format \in Texts => IsText(wire)
           /\ format = "bytes" => sent \in Seq(Byte) /\ result = ParseHex(wire)
           /\ format = "address" =>
                 /\ sent \in [1 .. AddressLen -> Byte]
                 /\ \/ result = ParseFixedHex(wire, AddressLen)
                    \/ result = ParseThenMeasure(wire, AddressLen)
           /\ format = "quantity" => sent \in [1 .. U128 -> Byte] /\ result = ParseQuantity(wire, U128)
           /\ format = "uint256" =>
                 wire \in Seq(Byte) /\ sent \in [1 .. U128 -> Byte] /\ result = DecodeUint256(wire)
<1>1. /\ sent \in Values(format) /\ reader \in Readers(format)
      /\ result = Returned(reader, passphrase)
      /\ IF format \in Texts THEN IsText(wire) ELSE wire \in Seq(Byte)
  BY ReadStates
<1>2. CASE format = "eip1559"
  <2>1. reader = "decode_signed" /\ sent \in SignedTx /\ wire \in Seq(Byte)
    BY <1>1, <1>2, ReadersAre, ValuesAre DEF Texts
  <2>2. result = DecodeSigned(wire)
    BY <1>1, <2>1, ReturnedIs, Zenon
  <2> QED
    BY <1>2, <2>1, <2>2 DEF Sealed, Texts
<1>3. CASE format = "transfer"
  <2>1. reader = "decode" /\ sent \in Transfer /\ wire \in Seq(Byte)
    BY <1>1, <1>3, ReadersAre, ValuesAre DEF Texts
  <2>2. result = DecodeTransfer(wire)
    BY <1>1, <2>1, ReturnedIs, Zenon
  <2> QED
    BY <1>3, <2>1, <2>2 DEF Sealed, Texts
<1>4. CASE format \in Sealed
  <2>1. reader \in {"open", "open_share"} /\ wire \in Seq(Byte)
    BY <1>1, <1>4, ReadersAre DEF Texts, Sealed
  <2>2. reader = "open" => result = OpenKey(sealing.value, passphrase, wire)
    BY <1>1, ReturnedIs, Zenon
  <2>3. reader = "open_share" => result = OpenShare(sealing.value, passphrase, wire)
    BY <1>1, ReturnedIs, Zenon
  <2> QED
    BY <1>4, <2>1, <2>2, <2>3 DEF Sealed, Texts
<1>5. CASE format = "bytes"
  <2>1. reader = "parse_hex_bytes" /\ sent \in Seq(Byte) /\ IsText(wire)
    BY <1>1, <1>5, ReadersAre, ValuesAre DEF Texts
  <2>2. result = ParseHex(wire)
    BY <1>1, <2>1, ReturnedIs, Zenon
  <2> QED
    BY <1>5, <2>1, <2>2 DEF Sealed, Texts
<1>6. CASE format = "address"
  <2>1. /\ reader \in {"parse_address_hex", "parse_address"}
        /\ sent \in [1 .. AddressLen -> Byte] /\ IsText(wire)
    BY <1>1, <1>6, ReadersAre, ValuesAre DEF Texts
  <2>2. reader = "parse_address_hex" => result = ParseFixedHex(wire, AddressLen)
    BY <1>1, ReturnedIs, Zenon
  <2>3. reader = "parse_address" => result = ParseThenMeasure(wire, AddressLen)
    BY <1>1, ReturnedIs, Zenon
  <2> QED
    BY <1>6, <2>1, <2>2, <2>3 DEF Sealed, Texts
<1>7. CASE format = "quantity"
  <2>1. reader = "parse_hex_u128" /\ sent \in [1 .. U128 -> Byte] /\ IsText(wire)
    BY <1>1, <1>7, ReadersAre, ValuesAre DEF Texts
  <2>2. result = ParseQuantity(wire, U128)
    BY <1>1, <2>1, ReturnedIs, Zenon
  <2> QED
    BY <1>7, <2>1, <2>2 DEF Sealed, Texts
<1>8. CASE format = "uint256"
  <2>1. reader = "decode_uint256_result" /\ sent \in [1 .. U128 -> Byte] /\ wire \in Seq(Byte)
    BY <1>1, <1>8, ReadersAre, ValuesAre DEF Texts
  <2>2. result = DecodeUint256(wire)
    BY <1>1, <2>1, ReturnedIs, Zenon
  <2> QED
    BY <1>8, <2>1, <2>2 DEF Sealed, Texts
<1>9. format \in Formats
  BY ReadStates
<1> QED
  BY <1>2, <1>3, <1>4, <1>5, <1>6, <1>7, <1>8, <1>9 DEF Formats, Sealed

\* No read of a seal panics, and only the one it was made for opens it.
LEMMA OpenedIsAuthentic ==
    ASSUME CodecInv, phase = "read", format \in Sealed
    PROVE  /\ result.error # "Panic"
           /\ result.error = "None" =>
                 /\ wire = sealing.value.blob /\ passphrase = sealing.value.passphrase
                 /\ reader = IF format = "key" THEN "open" ELSE "open_share"
<1> DEFINE k == sealing.value
           q == k.passphrase
<1>1. IsSealing(k, q, Plaintext) /\ sent \in Values(format)
  BY ReadStates
<1>2. /\ Plaintext \in Seq(Byte)
      /\ format = "key" => Len(Plaintext) = Word
      /\ format = "share" => Len(Plaintext) = 2 + Word
  BY <1>1, PlaintextType
<1>3. /\ wire \in Seq(Byte) /\ reader \in {"open", "open_share"}
      /\ reader = "open" => result = OpenKey(k, passphrase, wire)
      /\ reader = "open_share" => result = OpenShare(k, passphrase, wire)
  BY ResultIs
<1> HIDE DEF k
<1>4. /\ OpenKey(k, passphrase, wire).error # "Panic"
      /\ OpenKey(k, passphrase, wire).error = "None" =>
            wire = k.blob /\ passphrase = q /\ Len(Plaintext) = Word
  BY <1>1, <1>2, <1>3, KeysOpen
<1>5. /\ OpenShare(k, passphrase, wire).error # "Panic"
      /\ OpenShare(k, passphrase, wire).error = "None" =>
            wire = k.blob /\ passphrase = q /\ Len(Plaintext) = 2 + Word
  <2> DEFINE t == Plaintext
  <2>1. t \in Seq(Byte) /\ IsSealing(k, q, t)
    BY <1>1, <1>2
  <2> HIDE DEF t, q
  <2>2. OpensOnlyShares(k, q, t)
    BY <2>1, SharesOpen
  <2> QED
    BY <1>3, <2>2, Zenon DEF t, OpensOnlyShares
<1>6. Word # 2 + Word
  BY WidthsAreNat
<1>7. CASE reader = "open"
  BY <1>2, <1>3, <1>4, <1>6, <1>7 DEF k, Sealed
<1>8. CASE reader = "open_share"
  BY <1>2, <1>3, <1>5, <1>6, <1>8 DEF k, Sealed
<1> QED
  BY <1>3, <1>7, <1>8

\* A sealed key or share opens only as what it is, whole and under its own passphrase,
\* whatever is spliced into the blob and for every length of salt, nonce and tag
\* (lib.rs:136-196 of wallet-storage).
THEOREM SealingIsAuthentic == Spec => []SealedIsAuthentic
<1>1. CodecInv => SealedIsAuthentic
  BY OpenedIsAuthentic DEF SealedIsAuthentic, Accepts, Sealed
<1> QED
  BY <1>1, CodecInvariant, PTL

\* No balance other than zero is less than the whole word of an answer
\* (lib.rs:627-639 of wallet-ffi).
THEOREM BalancesAreWholeWords == Spec => []BalanceIsTheWholeWord
<1>1. CodecInv => BalanceIsTheWholeWord
  <2> SUFFICES ASSUME CodecInv, phase = "read", format = "uint256", result.error = "None",
                      result.value # Zeros(U128)
               PROVE  SubSeq(wire, 1, Word) = Zeros(Word - U128) \o result.value
    BY DEF BalanceIsTheWholeWord, Accepts
  <2>1. wire \in Seq(Byte) /\ result = DecodeUint256(wire)
    BY ResultIs
  <2> QED
    BY <2>1, WordsAreWhole
<1> QED
  BY <1>1, CodecInvariant, PTL

\* A text of an address or of bytes is read as a faithful one or not at all.
LEMMA TextsAreFaithful ==
    ASSUME CodecInv, phase = "read", format \in {"bytes", "address"}
    PROVE  wire \in Seq(Nat) /\ IsFaithful(result, wire)
<1>1. wire \in Seq(Nat)
  BY ResultIs DEF Texts, IsText
<1>2. \/ result = ParseHex(wire)
      \/ result = ParseFixedHex(wire, AddressLen)
      \/ result = ParseThenMeasure(wire, AddressLen)
  BY ResultIs
<1>3. AddressLen \in Nat
  BY WidthsAreNat
<1> QED
  BY <1>1, <1>2, <1>3, HexIsFaithful

\* The guards of every function that reads bytes keep its slices in range and of the width of
\* their arrays; a function that reads a text slices within a character only where one lies
\* beyond ASCII (lib.rs:140-142 and 192-196 of wallet-storage, lib.rs:105-108 of
\* wallet-decoder, evm.rs:323-333 of wallet-rpc).
THEOREM OnlyWideTextsPanic == Spec => []OnlyWideCharactersPanic
<1>1. CodecInv => OnlyWideCharactersPanic
  <2> SUFFICES ASSUME CodecInv, phase = "read", result.error = "Panic"
               PROVE  format \in {"bytes", "address"} /\ Continuation \in ToSet(wire)
    BY DEF OnlyWideCharactersPanic
  <2>1. CASE format = "eip1559"
    <3>1. result.error \in SignedErrors
      BY <2>1, ResultIs, OnlyBodiesAreAccepted
    <3> QED
      BY <3>1 DEF SignedErrors, FieldErrors
  <2>2. CASE format = "transfer"
    <3>1. result.error \in TransferErrors \/ result.error = "None"
      BY <2>2, ResultIs, OnlyTransfersAreAccepted
    <3> QED
      BY <3>1 DEF TransferErrors
  <2>3. CASE format \in Sealed
    BY <2>3, OpenedIsAuthentic
  <2>4. CASE format \in {"bytes", "address"}
    BY <2>4, TextsAreFaithful DEF IsFaithful
  <2>5. CASE format = "quantity"
    <3>1. IsText(wire) /\ result = ParseQuantity(wire, U128)
      BY <2>5, ResultIs DEF Texts
    <3>2. wire \in Seq(Nat) /\ U128 \in Nat
      BY <3>1, WidthsAreNat DEF IsText
    <3>3. result.error \in {"None", "Invalid"}
      BY <3>1, <3>2, QuantitiesAreFaithful
    <3> QED
      BY <3>3
  <2>6. CASE format = "uint256"
    <3>1. result.error \in {"None", "Invalid"}
      BY <2>6, ResultIs, WordsAreWhole
    <3> QED
      BY <3>1
  <2>7. format \in Formats
    BY ReadStates
  <2> QED
    BY <2>1, <2>2, <2>3, <2>4, <2>5, <2>6, <2>7 DEF Formats, Sealed
<1> QED
  BY <1>1, CodecInvariant, PTL

\* A text of any length that is accepted is the one its bytes are written as, but for a plus
\* sign or zeros in front of a quantity (evm.rs:283-333 of wallet-rpc).
THEOREM TextsMeanTheirBytes == Spec => []TextMeansItsBytes
<1>1. CodecInv => TextMeansItsBytes
  <2> SUFFICES ASSUME CodecInv, phase = "read", result.error = "None"
               PROVE  /\ format \in {"bytes", "address"} =>
                             wire = ToHex(result.value) \/ Plus \in ToSet(wire)
                      /\ format = "quantity" =>
                            \/ Plus \in ToSet(wire)
                            \/ Trimmed(Tail(Tail(wire))) = Trimmed(Tail(Tail(ToHexQuantity(result.value))))
    BY Zenon DEF TextMeansItsBytes, Accepts
  <2>1. ASSUME format \in {"bytes", "address"}
        PROVE  wire = ToHex(result.value) \/ Plus \in ToSet(wire)
    BY <2>1, TextsAreFaithful DEF IsFaithful
  <2>2. ASSUME format = "quantity"
        PROVE  \/ Plus \in ToSet(wire)
               \/ Trimmed(Tail(Tail(wire))) = Trimmed(Tail(Tail(ToHexQuantity(result.value))))
    <3>1. IsText(wire) /\ result = ParseQuantity(wire, U128)
      BY <2>2, ResultIs DEF Texts
    <3>2. wire \in Seq(Nat) /\ U128 \in Nat
      BY <3>1, WidthsAreNat DEF IsText
    <3> QED
      BY <3>1, <3>2, QuantitiesAreFaithful
  <2> QED
    BY <2>1, <2>2
<1> QED
  BY <1>1, CodecInvariant, PTL

\* For data of any length up to eight megabytes, every width of an integer and of a key:
\* what is written and arrives whole is read as what it was (evm.rs:97-224 and lib.rs:109-161
\* of wallet-decoder, lib.rs:97-206 of wallet-storage).
THEOREM WhatIsWrittenIsRead == Spec => []RoundTrip
<1>1. ASSUME CodecInv, phase = "read", ~damaged, format \notin Sealed
      PROVE  result.error = "None" /\ result.value = sent
  <2> SUFFICES result = Accepted(sent)
    BY DEF Accepted
  <2>1. wire = Encoded
    BY <1>1, ReadStates
  <2>2. CASE format = "eip1559"
    BY <1>1, <2>1, <2>2, ResultIs, EncodedIs, SignedAreRead
  <2>3. CASE format = "transfer"
    BY <1>1, <2>1, <2>3, ResultIs, EncodedIs, TransfersAreAccepted
  <2>4. CASE format = "bytes"
    BY <1>1, <2>1, <2>4, ResultIs, EncodedIs, HexIsRead
  <2>5. CASE format = "address"
    <3>1. sent \in Seq(Byte) /\ Len(sent) = AddressLen
      BY <1>1, <2>5, ResultIs, WidthsAreNat, FunctionIsSeq
    <3>2. /\ ParseFixedHex(ToHex(sent), AddressLen) = Accepted(sent)
          /\ ParseThenMeasure(ToHex(sent), AddressLen) = Accepted(sent)
      BY <3>1, HexIsRead
    <3>3. wire = ToHex(sent)
      BY <2>1, <2>5, EncodedIs
    <3>4. \/ result = ParseFixedHex(wire, AddressLen)
          \/ result = ParseThenMeasure(wire, AddressLen)
      BY <1>1, <2>5, ResultIs
    <3> QED
      BY <3>2, <3>3, <3>4
  <2>6. CASE format = "quantity"
    BY <1>1, <2>1, <2>6, ResultIs, EncodedIs, QuantitiesAreRead, WidthsAreNat
  <2>7. CASE format = "uint256"
    BY <1>1, <2>1, <2>7, ResultIs, EncodedIs, WordsAreRead
  <2>8. format \in Formats
    BY <1>1, ReadStates
  <2> QED
    BY <1>1, <2>2, <2>3, <2>4, <2>5, <2>6, <2>7, <2>8 DEF Formats, Sealed
<1>2. ASSUME CodecInv, phase = "read", ~damaged, format \in Sealed,
             passphrase = sealing.value.passphrase,
             reader = IF format = "key" THEN "open" ELSE "open_share"
      PROVE  result.error = "None" /\ result.value = sent
  <2> DEFINE k == sealing.value
             q == k.passphrase
  <2> SUFFICES result = Accepted(sent)
    BY DEF Accepted
  <2>1. IsSealing(k, q, Plaintext) /\ sent \in Values(format) /\ wire = k.blob
    BY <1>2, ReadStates
  <2>2. /\ Plaintext \in Seq(Byte)
        /\ format = "key" => Len(Plaintext) = Word /\ IsKey(Plaintext) /\ Plaintext = sent
        /\ format = "share" => Len(Plaintext) = 2 + Word
    BY <1>2, <2>1, PlaintextType
  <2>3. CASE format = "key"
    <3>1. result = OpenKey(k, q, k.blob)
      BY <1>2, <2>1, <2>3, ResultIs
    <3> HIDE DEF k
    <3>2. OpenKey(k, q, k.blob) = Accepted(Plaintext)
      BY <2>1, <2>2, <2>3, KeysOpen
    <3> QED
      BY <2>2, <2>3, <3>1, <3>2
  <2>4. CASE format = "share"
    <3>1. result = OpenShare(k, q, k.blob)
      BY <1>2, <2>1, <2>4, ResultIs
    <3> DEFINE t == Plaintext
               share == [index |-> t[1], threshold |-> t[2], value |-> SubSeq(t, 3, Len(t))]
    <3>2. share = sent
      <4>1. t = SharePlaintext(sent)
            /\ sent \in [index : 1 .. 255, threshold : 2 .. 255, value : [1 .. Word -> Byte]]
        BY <2>1, <2>4, ValuesAre DEF Plaintext
      <4> HIDE DEF t
      <4> QED
        BY <4>1, SharePlaintexts
    <3> HIDE DEF k
    <3>3. OpenShare(k, q, k.blob) = Accepted(share)
      BY <2>1, <2>2, <2>4, SharesOpen
    <3> HIDE DEF share
    <3> QED
      BY <3>1, <3>2, <3>3
  <2> QED
    BY <1>2, <2>3, <2>4 DEF Sealed
<1>3. CodecInv => RoundTrip
  BY <1>1, <1>2, Zenon DEF RoundTrip
<1> QED
  BY <1>3, CodecInvariant, PTL

\* Whatever bytes are read, decode_signed and decode accept only what their encoders write,
\* but for zeros in front of r and s (evm.rs:172-224 and lib.rs:109-148 of wallet-decoder).
THEOREM NothingElseIsAccepted == Spec => []OnlyEncodingsAreAccepted
<1>1. CodecInv => OnlyEncodingsAreAccepted
  <2> SUFFICES ASSUME CodecInv, phase = "read", result.error = "None"
               PROVE  /\ format = "eip1559" =>
                            \E r \in Padded(result.value.r), s \in Padded(result.value.s) :
                                wire = EncodeWith(result.value, r, s)
                      /\ format = "transfer" => wire = EncodeTransfer(result.value)
    BY Zenon DEF OnlyEncodingsAreAccepted, Accepts
  <2>1. ASSUME format = "eip1559"
        PROVE  \E r \in Padded(result.value.r), s \in Padded(result.value.s) :
                   wire = EncodeWith(result.value, r, s)
    <3>1. wire \in Seq(Byte) /\ result = DecodeSigned(wire)
      BY <2>1, ResultIs
    <3>2. IsPaddedSigned(result.value, wire)
      BY <3>1, OnlySignedAreAccepted
    <3> QED
      BY <3>2 DEF IsPaddedSigned
  <2>2. ASSUME format = "transfer"  PROVE wire = EncodeTransfer(result.value)
    <3>1. wire \in Seq(Byte) /\ result = DecodeTransfer(wire)
      BY <2>2, ResultIs
    <3>2. "None" \notin TransferErrors
      BY DEF TransferErrors
    <3> QED
      BY <3>1, <3>2, OnlyTransfersAreAccepted
  <2> QED
    BY <2>1, <2>2
<1> QED
  BY <1>1, CodecInvariant, PTL

\* No other transaction that decode_signed or decode accepts has the bytes that were signed
\* of this one (lib.rs:54-58 of wallet-decoder, evm.rs:145-151 of wallet-core).
THEOREM SignaturesFitOneTransaction == Spec => []SignedBytesTellTransactionsApart
<1>1. CodecInv => SignedBytesTellTransactionsApart
  <2> DEFINE Same(tx, other) ==
                 \A i \in DOMAIN UnsignedLayout :
                     tx[UnsignedLayout[i].name] = other[UnsignedLayout[i].name]
  <2> SUFFICES ASSUME CodecInv, phase = "read", result.error = "None"
               PROVE  /\ format = "transfer" /\ CanonicalBytes(result.value) = CanonicalBytes(sent) =>
                             result.value = sent
                      /\ format = "eip1559" /\ EncodeUnsigned(result.value) = EncodeUnsigned(sent) =>
                             Same(result.value, sent)
    BY Zenon DEF SignedBytesTellTransactionsApart, Accepts
  <2>1. ASSUME format = "transfer", CanonicalBytes(result.value) = CanonicalBytes(sent)
        PROVE  result.value = sent
    <3>1. wire \in Seq(Byte) /\ sent \in Transfer /\ result = DecodeTransfer(wire)
      BY <2>1, ResultIs
    <3>2. "None" \notin TransferErrors
      BY DEF TransferErrors
    <3>3. result.value \in Transfer
      BY <3>1, <3>2, OnlyTransfersAreAccepted
    <3> QED
      BY <2>1, <3>1, <3>3, CanonicalBytesDiffer
  <2>2. ASSUME format = "eip1559", EncodeUnsigned(result.value) = EncodeUnsigned(sent)
        PROVE  Same(result.value, sent)
    <3>1. wire \in Seq(Byte) /\ sent \in SignedTx /\ result = DecodeSigned(wire)
      BY <2>2, ResultIs
    <3>2. IsPaddedSigned(result.value, wire)
      BY <3>1, OnlySignedAreAccepted
    <3>3. HasFields(result.value)
      BY <3>2 DEF IsPaddedSigned, HasFields
    <3>4. HasFields(sent)
      BY <3>1, SignedHaveFields
    <3> QED
      BY <2>2, <3>3, <3>4, UnsignedTellsFields
  <2> QED
    BY <2>1, <2>2
<1> QED
  BY <1>1, CodecInvariant, PTL
=============================================================================
