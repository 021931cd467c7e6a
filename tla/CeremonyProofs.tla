--------------------------- MODULE CeremonyProofs ---------------------------
(***************************************************************************)
(* The properties of Shamir and Ceremony hold for every prime, number of   *)
(* parties and curve that the assumptions admit.  From the bottom up:      *)
(*   - arithmetic modulo P is that of a field: what is not 0 has an        *)
(*     inverse;                                                            *)
(*   - a signature that SignPrehashRecoverable makes verifies under the    *)
(*     key that made it, and gives that key back;                          *)
(*   - the loop of split evaluates polynomials, and a polynomial has no    *)
(*     more roots than its degree;                                         *)
(*   - the loops of reconstruct give the value at 0 of a polynomial of     *)
(*     degree threshold - 1 through all the shares: the split's, if all of *)
(*     them are genuine, another if one is not, and one with any value at  *)
(*     0 if one share fewer is known;                                      *)
(*   - the inductive invariant says where the shares come from and that    *)
(*     the answer is what the functions return.                            *)
(***************************************************************************)
EXTENDS Ceremony, SumsProofs, FiniteSetTheorems

-----------------------------------------------------------------------------
(* Arithmetic modulo P *)

a \cong b == a % P = b % P

LEMMA PIsPositive == P \in Nat /\ P > 1
  BY FieldAssumption

\* Quotient and remainder are unique.
LEMMA Quotient ==
    ASSUME NEW a \in Int, NEW q \in Int, NEW r \in 0 .. P - 1, a = P * q + r
    PROVE  a % P = r
<1>1. P \in Nat /\ P > 1
  BY PIsPositive
<1> DEFINE p == a \div P
           m == a % P
<1>2. p \in Int /\ m \in 0 .. P - 1 /\ a = P * p + m
  BY <1>1
<1> HIDE DEF p, m
<1>3. P * (p - q) = r - m
  BY <1>1, <1>2
<1>4. p = q
  <2>1. CASE p - q >= 1
    <3>1. P * (p - q) >= P
      BY <2>1, <1>1, <1>2
    <3> QED
      BY <3>1, <1>1, <1>2, <1>3
  <2>2. CASE p - q <= -1
    <3>1. P * (p - q) <= -P
      BY <2>2, <1>1, <1>2
    <3> QED
      BY <3>1, <1>1, <1>2, <1>3
  <2> QED
    BY <2>1, <2>2, <1>2
<1>5. m = r
  BY <1>1, <1>2, <1>4
<1> QED
  BY <1>5 DEF m

\* A number and its remainder are congruent.
LEMMA Remainder ==
    ASSUME NEW a \in Int
    PROVE  a % P \in 0 .. P - 1 /\ a \cong (a % P) /\ \E q \in Int : a = P * q + (a % P)
<1>1. P \in Nat /\ P > 1
  BY PIsPositive
<1> DEFINE p == a \div P
           m == a % P
<1>2. p \in Int /\ m \in 0 .. P - 1 /\ a = P * p + m
  BY <1>1
<1>3. m % P = m
  <2> HIDE DEF m
  <2> QED
    BY <1>1, <1>2
<1>4. \E q \in Int : a = P * q + m
  <2> HIDE DEF p, m
  <2> QED
    BY <1>2
<1> QED
  BY <1>2, <1>3, <1>4 DEF \cong

\* Congruent numbers differ by a multiple of P.
LEMMA CongIffMultiple ==
    ASSUME NEW a \in Int, NEW b \in Int
    PROVE  a \cong b <=> \E q \in Int : a = b + P * q
<1> DEFINE m == a % P
           n == b % P
<1>0. PICK p \in Int : a = P * p + m
  BY Remainder
<1>0b. PICK r \in Int : b = P * r + n
  BY Remainder
<1>1. P \in Int /\ m \in Int /\ n \in 0 .. P - 1
  BY PIsPositive, Remainder DEF \cong
<1>2. a \cong b <=> m = n
  BY DEF \cong
<1> HIDE DEF m, n
<1>3. ASSUME m = n  PROVE \E q \in Int : a = b + P * q
  <2>1. a = b + P * (p - r) /\ p - r \in Int
    BY <1>0, <1>0b, <1>1, <1>3
  <2> QED
    BY <2>1
<1>4. ASSUME NEW q \in Int, a = b + P * q  PROVE m = n
  <2>1. a = P * (q + r) + n /\ q + r \in Int
    BY <1>0b, <1>1, <1>4
  <2>2. a % P = n
    BY <1>1, <2>1, Quotient
  <2> QED
    BY <2>2 DEF m
<1> QED
  BY <1>2, <1>3, <1>4

\* Sums, differences and products of congruent numbers are congruent.
LEMMA CongArithmetic ==
    ASSUME NEW a \in Int, NEW b \in Int, NEW c \in Int, NEW d \in Int, a \cong b, c \cong d
    PROVE  /\ (a + c) \cong (b + d)
           /\ (a - c) \cong (b - d)
           /\ (a * c) \cong (b * d)
<1>1. PICK q \in Int : a = b + P * q
  BY CongIffMultiple
<1>2. PICK r \in Int : c = d + P * r
  BY CongIffMultiple
<1>3. P \in Int
  BY PIsPositive
<1>4. a + c = (b + d) + P * (q + r) /\ q + r \in Int
  BY <1>1, <1>2, <1>3
<1>5. a - c = (b - d) + P * (q - r) /\ q - r \in Int
  BY <1>1, <1>2, <1>3
<1>6. a * c = (b * d) + P * (q * d + b * r + P * q * r) /\ q * d + b * r + P * q * r \in Int
  BY <1>1, <1>2, <1>3
<1>7. (a + c) \cong (b + d)
  BY <1>4, CongIffMultiple
<1>8. (a - c) \cong (b - d)
  BY <1>5, CongIffMultiple
<1>9. (a * c) \cong (b * d)
  BY <1>6, CongIffMultiple
<1> QED
  BY <1>7, <1>8, <1>9

\* Congruent scalars are equal.
LEMMA CongScalars ==
    ASSUME NEW a \in Scalars, NEW b \in Scalars, a \cong b
    PROVE  a = b
  BY PIsPositive DEF \cong, Scalars

\* A product is 0 only if one of its factors is.
LEMMA NoZeroDivisors ==
    ASSUME NEW a \in Int, NEW b \in Int, (a * b) \cong 0
    PROVE  a \cong 0 \/ b \cong 0
<1> DEFINE x == a % P
           y == b % P
<1>1. x \in 0 .. P - 1 /\ y \in 0 .. P - 1 /\ a \cong x /\ b \cong y
  BY Remainder
<1>0. P \in Nat /\ P > 1 /\ 0 % P = 0
  BY PIsPositive
<1> HIDE DEF x, y
<1>2. x \in Int /\ y \in Int
  BY <1>0, <1>1
<1>3. (a * b) \cong (x * y)
  BY <1>1, <1>2, CongArithmetic
<1>4. (x * y) % P = 0
  BY <1>0, <1>3 DEF \cong
<1>5. x = 0 \/ y = 0
  BY <1>0, <1>1, <1>4, FieldAssumption
<1> QED
  BY <1>1, <1>5

\* What is not 0 can be cancelled,
LEMMA Cancel ==
    ASSUME NEW a \in Int, NEW b \in Int, NEW c \in Int, ~ (a \cong 0), (a * b) \cong (a * c)
    PROVE  b \cong c
<1>1. (a * b - a * c) \cong (a * c - a * c)
  <2>1. a * b \in Int /\ a * c \in Int /\ (a * c) \cong (a * c)
    BY DEF \cong
  <2> QED
    BY <2>1, CongArithmetic
<1>2. a * b - a * c = a * (b - c) /\ a * c - a * c = 0 /\ b - c \in Int
  OBVIOUS
<1>3. (b - c) \cong 0
  BY <1>1, <1>2, NoZeroDivisors
<1>4. (b - c + c) \cong (0 + c)
  <2>1. c \cong c
    BY DEF \cong
  <2> QED
    BY <1>2, <1>3, <2>1, CongArithmetic
<1> QED
  BY <1>4

\* so that multiplication by it permutes the scalars but 0, and one of them goes to 1,
LEMMA InverseExists ==
    ASSUME NEW a \in Int, ~ (a \cong 0)
    PROVE  \E b \in 1 .. P - 1 : (a * b) % P = 1
<1> DEFINE S == 1 .. P - 1
           f == [b \in S |-> (a * b) % P]
<1>0. P \in Nat /\ P > 1 /\ 0 % P = 0
  BY PIsPositive
<1>1. \A b \in S : b \in Int /\ ~ (b \cong 0)
  BY <1>0 DEF \cong
<1>2. \A b \in S : f[b] \in S
  <2> SUFFICES ASSUME NEW b \in S  PROVE (a * b) % P \in S
    OBVIOUS
  <2>1. a * b \in Int /\ ~ ((a * b) \cong 0)
    BY <1>1, NoZeroDivisors
  <2>2. (a * b) % P \in 0 .. P - 1
    BY <2>1, Remainder
  <2> QED
    BY <1>0, <2>1, <2>2 DEF \cong
<1>3. ASSUME NEW b \in S, NEW c \in S, f[b] = f[c]  PROVE b = c
  <2>1. (a * b) \cong (a * c)
    BY <1>3 DEF \cong
  <2>2. b \cong c
    BY <1>1, <2>1, Cancel
  <2>3. b \in Scalars /\ c \in Scalars
    BY <1>0 DEF Scalars
  <2> QED
    BY <2>2, <2>3, CongScalars
<1>4. f \in Injection(S, S)
  BY <1>2, <1>3 DEF Injection, IsInjective
<1>5. IsFiniteSet(S)
  <2> DEFINE one == 1
             last == P - 1
  <2>1. one \in Int /\ last \in Int
    BY <1>0
  <2> HIDE DEF one, last
  <2>2. IsFiniteSet(one .. last)
    BY <2>1, FS_Interval
  <2> QED
    BY <2>2 DEF one, last
<1>6. f \in Surjection(S, S)
  <2> HIDE DEF f, S
  <2> QED
    BY <1>4, <1>5, FS_Injection
<1>7. 1 \in S
  BY <1>0
<1>8. PICK b \in S : f[b] = 1
  BY <1>6, <1>7 DEF Surjection
<1> QED
  BY <1>8

\* which is the one that Invert returns.
LEMMA InvertIsInverse ==
    ASSUME NEW a \in Int, ~ (a \cong 0)
    PROVE  Invert(a) \in 1 .. P - 1 /\ (a * Invert(a)) \cong 1
<1>1. P \in Nat /\ P > 1 /\ 1 % P = 1
  BY PIsPositive
<1>2. \E b \in Scalars : (a * b) % P = 1
  <2>1. PICK b \in 1 .. P - 1 : (a * b) % P = 1
    BY InverseExists
  <2> QED
    BY <1>1, <2>1 DEF Scalars
<1>3. PICK b : b = Invert(a)
  OBVIOUS
<1>4. b \in Scalars /\ (a * b) % P = 1
  BY <1>2, <1>3 DEF Invert
<1>5. b # 0
  BY <1>1, <1>4 DEF Scalars
<1> QED
  BY <1>1, <1>3, <1>4, <1>5 DEF \cong, Scalars

LEMMA CongTransfer ==
    ASSUME NEW a \in Int, NEW b \in Int, NEW c \in Int, a \cong b
    PROVE  /\ (a + c) \cong (b + c)
           /\ (a - c) \cong (b - c)
           /\ (a * c) \cong (b * c)
           /\ (c * a) \cong (c * b)
<1>1. c \cong c
  BY DEF \cong
<1>2. (a + c) \cong (b + c) /\ (a - c) \cong (b - c) /\ (a * c) \cong (b * c)
  BY <1>1, CongArithmetic
<1>3. (c * a) \cong (c * b)
  BY <1>1, CongArithmetic
<1> QED
  BY <1>2, <1>3

LEMMA CongDifference ==
    ASSUME NEW a \in Int, NEW b \in Int, (a - b) \cong 0
    PROVE  a \cong b
<1> DEFINE e == a - b
<1>1. e \in Int /\ e \cong 0 /\ e + b = a /\ 0 + b = b
  OBVIOUS
<1> HIDE DEF e
<1>2. (e + b) \cong (0 + b)
  BY <1>1, CongTransfer
<1> QED
  BY <1>1, <1>2

LEMMA CongUnit ==
    ASSUME NEW a \in Int, NEW b \in Int, a \cong 1
    PROVE  (a * b) \cong b
<1> DEFINE one == 1
<1>1. one \in Int /\ a \cong one /\ one * b = b
  OBVIOUS
<1> HIDE DEF one
<1>2. (a * b) \cong (one * b)
  BY <1>1, CongTransfer
<1> QED
  BY <1>1, <1>2

LEMMA Opposite ==
    ASSUME NEW a \in 1 .. P - 1
    PROVE  P - a \in 1 .. P - 1 /\ (P - a) \cong (-a) /\ ~ (a \cong 0)
<1>1. P \in Nat /\ P > 1 /\ a % P = a /\ 0 % P = 0
  BY PIsPositive
<1>2. P - a = -a + P * 1 /\ P - a \in Int /\ -a \in Int
  BY <1>1
<1>3. (P - a) \cong (-a)
  BY <1>2, CongIffMultiple
<1> QED
  BY <1>1, <1>3 DEF \cong

-----------------------------------------------------------------------------
(* ECDSA *)

\* k * s is the digest plus r times the key, for a signature that was not mirrored and,
\* with the opposite nonce, for one that was.
LEMMA SignatureEquation ==
    ASSUME NEW d \in 1 .. P - 1, NEW z \in Scalars, NEW k \in Nonces(d, z),
           NEW r, r = XCoord[k] % P, NEW s0, s0 = (Invert(k) * (z + r * d)) % P,
           NEW s, s = (IF IsHigh(s0) THEN P - s0 ELSE s0),
           NEW j, j = (IF IsHigh(s0) THEN P - k ELSE k)
    PROVE  /\ r \in 1 .. P - 1 /\ s \in 1 .. P - 1 /\ j \in 1 .. P - 1 /\ k \in 1 .. P - 1
           /\ ~ IsHigh(s)
           /\ (s * j) \cong (z + r * d)
           /\ XCoord[j] = XCoord[k]
<1>0. P \in Nat /\ P > 1 /\ 0 % P = 0 /\ z \in Int /\ d \in Int
  BY PIsPositive DEF Scalars
<1>1. /\ k \in 1 .. P - 1 /\ k \in Int
      /\ XCoord[k] \in Nat
      /\ XCoord[k] % P # 0
      /\ (z + XCoord[k] * d) % P # 0
  BY CurveAssumption DEF Nonces
<1>2. r \in 1 .. P - 1 /\ r \in Int /\ XCoord[k] \cong r
  <2>1. XCoord[k] \in Int
    BY <1>1
  <2>2. r \in 0 .. P - 1 /\ XCoord[k] \cong r
    BY <2>1, Remainder
  <2> QED
    BY <1>0, <1>1, <2>2
<1> DEFINE h == z + r * d
<1>3. h \in Int /\ ~ (h \cong 0)
  <2> DEFINE X == XCoord[k]
  <2>1. X \in Int /\ X * d \in Int /\ r * d \in Int /\ X \cong r
    BY <1>0, <1>1, <1>2
  <2> HIDE DEF X
  <2>2. (X * d) \cong (r * d)
    BY <1>0, <1>2, <2>1, CongTransfer
  <2>3. (z + X * d) \cong (z + r * d)
    <3>1. z \cong z
      BY DEF \cong
    <3> QED
      BY <1>0, <2>1, <2>2, <3>1, CongArithmetic
  <2>4. ~ ((z + X * d) \cong 0)
    BY <1>0, <1>1 DEF \cong, X
  <2> QED
    BY <1>0, <2>1, <2>3, <2>4 DEF \cong
<1> DEFINE u == Invert(k)
<1>4. u \in Int /\ (k * u) \cong 1
  <2>1. ~ (k \cong 0)
    BY <1>1, Opposite
  <2>2. u \in 1 .. P - 1 /\ (k * u) \cong 1
    BY <1>1, <2>1, InvertIsInverse
  <2> QED
    BY <2>2
<1>5. s0 = (u * h) % P
  OBVIOUS
<1> HIDE DEF h, u
<1>6. s0 \in 0 .. P - 1 /\ s0 \in Int /\ (u * h) \cong s0
  <2>1. u * h \in Int
    BY <1>3, <1>4
  <2> QED
    BY <1>5, <2>1, Remainder
<1>7. (s0 * k) \cong h
  <2>1. u * h \in Int /\ (u * h) * k = (k * u) * h /\ k * u \in Int
    BY <1>1, <1>3, <1>4
  <2>2. ((u * h) * k) \cong (s0 * k)
    BY <1>1, <1>6, <2>1, CongTransfer
  <2>3. ((k * u) * h) \cong h
    BY <1>3, <1>4, <2>1, CongUnit
  <2> QED
    BY <2>1, <2>2, <2>3 DEF \cong
<1>8. s0 \in 1 .. P - 1
  <2>1. ASSUME s0 = 0  PROVE FALSE
    <3>1. s0 * k = 0
      BY <1>1, <2>1
    <3> QED
      BY <1>3, <1>7, <3>1 DEF \cong
  <2> QED
    BY <1>6, <2>1
<1>9. CASE IsHigh(s0)
  <2>1. s = P - s0 /\ j = P - k
    BY <1>9
  <2>2. s \in 1 .. P - 1 /\ s \cong (-s0) /\ j \in 1 .. P - 1 /\ j \cong (-k)
    BY <1>1, <1>8, <2>1, Opposite
  <2>3. s \in Int /\ j \in Int /\ -s0 \in Int /\ -k \in Int /\ (-s0) * (-k) = s0 * k
    BY <1>1, <1>6, <2>2
  <2>4. (s * j) \cong ((-s0) * (-k))
    BY <2>2, <2>3, CongArithmetic
  <2>5. (s * j) \cong h
    BY <1>7, <2>3, <2>4 DEF \cong
  <2>6. ~ IsHigh(s)
    BY <1>0, <1>6, <1>9, <2>1 DEF IsHigh
  <2>7. XCoord[j] = XCoord[k]
    BY <1>1, <2>1, <2>2, CurveAssumption
  <2> QED
    BY <1>1, <1>2, <2>2, <2>5, <2>6, <2>7 DEF h
<1>10. CASE ~ IsHigh(s0)
  BY <1>1, <1>2, <1>7, <1>8, <1>10 DEF h
<1> QED
  BY <1>9, <1>10

\* What SignPrehashRecoverable returns passes verify_prehash under the key's public key.
LEMMA SignatureVerifies ==
    ASSUME NEW d \in 1 .. P - 1, NEW z \in Scalars, NEW k \in Nonces(d, z)
    PROVE  LET sig == SignPrehashRecoverable(d, z, k)
           IN  /\ sig.r \in Scalars /\ sig.s \in Scalars /\ sig.y_odd \in BOOLEAN
               /\ Verifies(d, z, sig)
<1> DEFINE r == XCoord[k] % P
           s0 == (Invert(k) * (z + r * d)) % P
           s == IF IsHigh(s0) THEN P - s0 ELSE s0
           j == IF IsHigh(s0) THEN P - k ELSE k
           sig == SignPrehashRecoverable(d, z, k)
<1>1. /\ r \in 1 .. P - 1 /\ s \in 1 .. P - 1 /\ j \in 1 .. P - 1 /\ k \in 1 .. P - 1
      /\ ~ IsHigh(s)
      /\ (s * j) \cong (z + r * d)
      /\ XCoord[j] = XCoord[k]
  <2> HIDE DEF r, s0, s, j
  <2>1. r = XCoord[k] % P /\ s0 = (Invert(k) * (z + r * d)) % P
    BY DEF r, s0
  <2>2. s = (IF IsHigh(s0) THEN P - s0 ELSE s0) /\ j = (IF IsHigh(s0) THEN P - k ELSE k)
    BY DEF s, j
  <2> QED
    BY <2>1, <2>2, SignatureEquation
<1>2. sig.r = r /\ sig.s = s /\ sig.y_odd = (YOdd[k] # IsHigh(s0))
  BY DEF SignPrehashRecoverable
<1>3. (Invert(s) * (z + r * d)) % P = j
  <2> HIDE DEF r, s0, s, j
  <2> DEFINE u == Invert(s)
             h == z + r * d
  <2>1. P \in Nat /\ s \in Int /\ j \in Int /\ h \in Int
    BY <1>1, PIsPositive DEF Scalars
  <2>2. ~ (s \cong 0)
    BY <1>1, Opposite
  <2>3. u \in Int /\ (s * u) \cong 1
    <3>1. u \in 1 .. P - 1 /\ (s * u) \cong 1
      BY <2>1, <2>2, InvertIsInverse
    <3> QED
      BY <3>1
  <2>4. (s * j) \cong h
    BY <1>1
  <2> HIDE DEF u, h
  <2>5. u * h \in Int /\ s * u \in Int /\ s * (u * h) = (s * u) * h
    BY <2>1, <2>3
  <2>6. ((s * u) * h) \cong h
    BY <2>1, <2>3, <2>5, CongUnit
  <2>7. (s * (u * h)) \cong (s * j)
    BY <2>4, <2>5, <2>6 DEF \cong
  <2>8. (u * h) \cong j
    BY <2>1, <2>2, <2>5, <2>7, Cancel
  <2>9. j % P = j
    BY <1>1, <2>1
  <2> QED
    BY <2>8, <2>9 DEF \cong, u, h
<1>4. XCoord[j] % P = r
  BY <1>1
<1> HIDE DEF sig
<1>5. Verifies(d, z, sig)
  <2>1. j # 0
    BY <1>1
  <2> HIDE DEF r, s0, s, j
  <2> QED
    BY <1>1, <1>2, <1>3, <1>4, <2>1 DEF Verifies
<1>6. r \in Scalars /\ s \in Scalars
  BY <1>1 DEF Scalars
<1>7. sig.y_odd \in BOOLEAN
  BY <1>2
<1> QED
  BY <1>2, <1>5, <1>6, <1>7 DEF sig

\* Unless the x of the nonce's point was reduced, the sender recovered from a signature
\* is the key that made it.
LEMMA SenderIsRecovered ==
    ASSUME NEW d \in 1 .. P - 1, NEW z \in Scalars, NEW k \in Nonces(d, z), NEW sig,
           sig = SignPrehashRecoverable(d, z, k), ~ sig.x_reduced
    PROVE  RecoveredFrom(z, [y_odd |-> sig.y_odd, r |-> sig.r, s |-> sig.s]) = d
<1> DEFINE r == XCoord[k] % P
           s0 == (Invert(k) * (z + r * d)) % P
           s == IF IsHigh(s0) THEN P - s0 ELSE s0
           j == IF IsHigh(s0) THEN P - k ELSE k
           odd == (YOdd[k] # IsHigh(s0))
<1>1. /\ r \in 1 .. P - 1 /\ s \in 1 .. P - 1 /\ j \in 1 .. P - 1 /\ k \in 1 .. P - 1
      /\ (s * j) \cong (z + r * d)
      /\ XCoord[j] = XCoord[k]
  <2> HIDE DEF r, s0, s, j
  <2>1. r = XCoord[k] % P /\ s0 = (Invert(k) * (z + r * d)) % P
    BY DEF r, s0
  <2>2. s = (IF IsHigh(s0) THEN P - s0 ELSE s0) /\ j = (IF IsHigh(s0) THEN P - k ELSE k)
    BY DEF s, j
  <2> QED
    BY <2>1, <2>2, SignatureEquation
<1>2. sig.r = r /\ sig.s = s /\ sig.y_odd = odd /\ sig.x_reduced = (XCoord[k] >= P)
  BY DEF SignPrehashRecoverable
<1>3. XCoord[k] = r
  <2> DEFINE X == XCoord[k]
  <2>1. P \in Nat /\ X \in Nat /\ ~ (X >= P)
    BY <1>1, <1>2, CurveAssumption, PIsPositive
  <2> HIDE DEF X
  <2>2. X % P = X
    BY <2>1
  <2> QED
    BY <2>2 DEF X
<1>4. {i \in 1 .. P - 1 : XCoord[i] = r /\ YOdd[i] = odd} = {j}
  <2>1. YOdd[k] \in BOOLEAN /\ YOdd[P - k] \in BOOLEAN /\ YOdd[P - k] # YOdd[k] /\ P - k \in 1 .. P - 1
    BY <1>1, CurveAssumption, Opposite
  <2>2. YOdd[j] = odd
    <3>1. CASE IsHigh(s0)
      <4>1. YOdd[j] = YOdd[P - k] /\ odd = ~ YOdd[k]
        BY <2>1, <3>1
      <4> QED
        BY <2>1, <4>1
    <3>2. CASE ~ IsHigh(s0)
      <4>1. j = k
        BY <3>2
      <4>2. odd = YOdd[k]
        <5>1. IsHigh(s0) = FALSE
          BY <3>2 DEF IsHigh
        <5> QED
          BY <2>1, <5>1
      <4> QED
        BY <4>1, <4>2
    <3> QED
      BY <3>1, <3>2
  <2> HIDE DEF r, s0, j, odd
  <2>3. ASSUME NEW i \in 1 .. P - 1, XCoord[i] = r, YOdd[i] = odd  PROVE i = j
    <3>1. XCoord[j] = XCoord[i]
      BY <1>1, <1>3, <2>3
    <3>2. i \in {j, P - j} /\ (i = P - j => YOdd[j] # YOdd[i])
      BY <1>1, <3>1, CurveAssumption
    <3> QED
      BY <2>2, <2>3, <3>2
  <2> QED
    BY <1>1, <1>3, <2>2, <2>3
<1>5. (Invert(r) * (s * j - z)) % P = d
  <2> HIDE DEF r, s0, s, j
  <2> DEFINE u == Invert(r)
             w == s * j
  <2>1. P \in Nat /\ r \in Int /\ w \in Int /\ z \in Int /\ d \in Int /\ r * d \in Int
    BY <1>1, PIsPositive DEF Scalars
  <2>2. u \in Int /\ (r * u) \cong 1
    <3>1. ~ (r \cong 0)
      BY <1>1, Opposite
    <3>2. u \in 1 .. P - 1 /\ (r * u) \cong 1
      BY <2>1, <3>1, InvertIsInverse
    <3> QED
      BY <3>2
  <2>3. w \cong (z + r * d)
    BY <1>1
  <2> HIDE DEF u, w
  <2>4. (w - z) \cong (z + r * d - z)
    BY <2>1, <2>3, CongTransfer
  <2>5. z + r * d - z = r * d /\ w - z \in Int
    BY <2>1
  <2>6. (u * (w - z)) \cong (u * (r * d))
    BY <2>1, <2>2, <2>4, <2>5, CongTransfer
  <2>7. u * (r * d) = (r * u) * d /\ r * u \in Int
    BY <2>1, <2>2
  <2>8. ((r * u) * d) \cong d
    BY <2>1, <2>2, <2>7, CongUnit
  <2>9. d % P = d
    BY <2>1
  <2> QED
    BY <2>6, <2>7, <2>8, <2>9 DEF \cong, u, w
<1> HIDE DEF r, s0, s, j, odd
<1> DEFINE public == [y_odd |-> odd, r |-> r, s |-> s]
<1>6. RecoveredFrom(z, public) = (Invert(r) * (s * j - z)) % P
  <2>1. public.r = r /\ public.s = s /\ public.y_odd = odd
    OBVIOUS
  <2> HIDE DEF public
  <2>2. (CHOOSE i \in {j} : TRUE) = j
    OBVIOUS
  <2> QED
    BY <1>4, <2>1, <2>2, Zenon DEF RecoveredFrom
<1> QED
  BY <1>2, <1>5, <1>6

-----------------------------------------------------------------------------
(* The loop of split *)

\* y and q are what y and x_pow hold after each coefficient.
IsEvaluation(y, q, s, w, m, x) ==
    /\ y \in [0 .. m -> Scalars] /\ q \in [0 .. m -> Scalars]
    /\ y[0] = s /\ q[0] = x
    /\ \A i \in 1 .. m : y[i] = (y[i - 1] + w[i] * q[i - 1]) % P /\ q[i] = (q[i - 1] * x) % P
    /\ Evaluate(s, w, x) = y[m]

LEMMA ModIsScalar ==
    ASSUME NEW a \in Int
    PROVE  a % P \in Scalars
  BY Remainder DEF Scalars

\* The fold in Evaluate is such a loop.
LEMMA EvaluateIsLoop ==
    ASSUME NEW m \in Nat, NEW w \in [1 .. m -> Scalars], NEW s \in Scalars, NEW x \in Scalars
    PROVE  \E y, q : IsEvaluation(y, q, s, w, m, x)
<1> DEFINE A == [y : Scalars, power : Scalars]
           base == [y |-> s, power |-> x]
           op(acc, i) == [y |-> (acc.y + w[i] * acc.power) % P, power |-> (acc.power * x) % P]
           F == [p \in A \X (1 .. m) |-> op(p[1], p[2])]
           Rec(g) == g = [t \in SUBSET (1 .. m) |->
                             IF t = {} THEN base ELSE op(g[t \ {Max(t)}], Max(t))]
           iter == CHOOSE h : Rec(h)
<1>1. base \in A /\ DOMAIN w = 1 .. m
  OBVIOUS
<1>2. \A a \in A, i \in 1 .. m : op(a, i) \in A
  <2> SUFFICES ASSUME NEW a \in A, NEW i \in 1 .. m
               PROVE  (a.y + w[i] * a.power) % P \in Scalars /\ (a.power * x) % P \in Scalars
    OBVIOUS
  <2>1. a.y \in Int /\ a.power \in Int /\ w[i] \in Int /\ x \in Int
    BY PIsPositive DEF Scalars
  <2>2. a.y + w[i] * a.power \in Int /\ a.power * x \in Int
    BY <2>1
  <2> QED
    BY <2>2, ModIsScalar
<1>3. Evaluate(s, w, x) = iter[1 .. m].y
  BY <1>1, Zenon DEF Evaluate, FoldLeft, MapThenFoldSet
<1> HIDE DEF base, A, op
<1>4. F \in [A \X (1 .. m) -> A] /\ \A a \in A, i \in 1 .. m : F[<<a, i>>] = op(a, i)
  BY <1>2
<1> HIDE DEF F
<1>5. base \in A
  BY <1>1
<1>6. PICK g : IsFold(g, A, base, m, F)
  BY <1>4, <1>5, FoldExists
<1>7. Rec(g)
  <2>1. \A a \in A, i \in 1 .. m : F[<<a, i>>] = op(a, i)
    BY <1>4
  <2> QED
    BY <1>6, <2>1 DEF IsFold
<1>8. Rec(iter)
  BY <1>7, Zenon
<1> HIDE DEF iter
<1>9. Unfolds(iter, A, base, m, F)
  <2>1. iter[{}] = base
    BY <1>8
  <2>2. \A t \in SUBSET (1 .. m) :
           t # {} /\ Max(t) \in 1 .. m /\ iter[t \ {Max(t)}] \in A
               => iter[t] = F[<<iter[t \ {Max(t)}], Max(t)>>]
    BY <1>4, <1>8
  <2> QED
    BY <2>1, <2>2, Zenon DEF Unfolds
<1> HIDE DEF Rec
<1>10. PICK acc : IsLoop(acc, iter, A, base, m, F)
  BY <1>4, <1>5, <1>9, FoldIsLoop
<1>11. /\ acc \in [0 .. m -> A] /\ acc[0] = base /\ acc[m] = iter[1 .. m]
       /\ \A i \in 1 .. m : acc[i] = op(acc[i - 1], i)
  BY <1>4, <1>10 DEF IsLoop
<1> DEFINE y == [i \in 0 .. m |-> acc[i].y]
           q == [i \in 0 .. m |-> acc[i].power]
<1>12. y \in [0 .. m -> Scalars] /\ q \in [0 .. m -> Scalars] /\ y[0] = s /\ q[0] = x
  BY <1>11 DEF A, base
<1>13. ASSUME NEW i \in 1 .. m
       PROVE  y[i] = (y[i - 1] + w[i] * q[i - 1]) % P /\ q[i] = (q[i - 1] * x) % P
  <2>1. i - 1 \in 0 .. m /\ i \in 0 .. m
    OBVIOUS
  <2>2. y[i - 1] = acc[i - 1].y /\ q[i - 1] = acc[i - 1].power /\ y[i] = acc[i].y /\ q[i] = acc[i].power
    BY <2>1
  <2> HIDE DEF y, q
  <2>3. acc[i] = op(acc[i - 1], i)
    BY <1>11
  <2> QED
    BY <2>2, <2>3 DEF op
<1>14. Evaluate(s, w, x) = y[m]
  BY <1>3, <1>11
<1> HIDE DEF y, q
<1>15. IsEvaluation(y, q, s, w, m, x)
  BY <1>12, <1>13, <1>14 DEF IsEvaluation
<1> QED
  BY <1>15

LEMMA EvaluateType ==
    ASSUME NEW m \in Nat, NEW w \in [1 .. m -> Scalars], NEW s \in Scalars, NEW x \in Scalars
    PROVE  Evaluate(s, w, x) \in Scalars
<1>1. PICK y, q : IsEvaluation(y, q, s, w, m, x)
  BY EvaluateIsLoop
<1> QED
  BY <1>1 DEF IsEvaluation

\* Without coefficients it stays at s.
LEMMA EvaluateConstant ==
    ASSUME NEW w \in [1 .. 0 -> Scalars], NEW s \in Scalars, NEW x \in Scalars
    PROVE  Evaluate(s, w, x) = s
<1> DEFINE m == 0
<1>1. m \in Nat /\ w \in [1 .. m -> Scalars]
  OBVIOUS
<1> HIDE DEF m
<1>2. PICK y, q : IsEvaluation(y, q, s, w, m, x)
  BY <1>1, EvaluateIsLoop
<1> QED
  BY <1>2 DEF IsEvaluation, m

\* Horner's rule
LEMMA EvaluateShift ==
    ASSUME NEW m \in Nat, NEW w \in [1 .. m + 1 -> Scalars], NEW s \in Scalars, NEW x \in Scalars
    PROVE  Evaluate(s, w, x) \cong (s + x * Evaluate(w[1], [i \in 1 .. m |-> w[i + 1]], x))
<1> DEFINE v == [i \in 1 .. m |-> w[i + 1]]
<1>1. v \in [1 .. m -> Scalars] /\ w[1] \in Scalars /\ m + 1 \in Nat
  OBVIOUS
<1>2. PICK y, q : IsEvaluation(y, q, s, w, m + 1, x)
  BY <1>1, EvaluateIsLoop
<1>3. PICK yy, qq : IsEvaluation(yy, qq, w[1], v, m, x)
  BY <1>1, EvaluateIsLoop
<1>0. P \in Nat /\ P > 1 /\ x \in Int /\ s \in Int /\ w[1] \in Int
  BY <1>1, PIsPositive DEF Scalars
<1>4. \A i \in 0 .. m : yy[i] \in Int /\ qq[i] \in Int /\ y[i + 1] \in Int /\ q[i + 1] \in Int
  <2> SUFFICES ASSUME NEW i \in 0 .. m
               PROVE  yy[i] \in Int /\ qq[i] \in Int /\ y[i + 1] \in Int /\ q[i + 1] \in Int
    OBVIOUS
  <2>1. i + 1 \in 0 .. m + 1 /\ \A a \in Scalars : a \in Int
    BY <1>0 DEF Scalars
  <2>2. y \in [0 .. m + 1 -> Scalars] /\ q \in [0 .. m + 1 -> Scalars]
    BY <1>2 DEF IsEvaluation
  <2>3. yy \in [0 .. m -> Scalars] /\ qq \in [0 .. m -> Scalars]
    BY <1>3 DEF IsEvaluation
  <2> QED
    BY <2>1, <2>2, <2>3
<1> DEFINE Here(i) == y[i + 1] \cong (s + x * yy[i]) /\ q[i + 1] \cong (x * qq[i])
           S == {i \in Nat : i <= m => Here(i)}
<1>5. 0 \in S
  <2>1. y[0] = s /\ q[0] = x /\ yy[0] = w[1] /\ qq[0] = x
    BY <1>2, <1>3 DEF IsEvaluation
  <2>2. 1 \in 1 .. m + 1 /\ 1 - 1 = 0
    OBVIOUS
  <2>3. y[1] = (y[0] + w[1] * q[0]) % P /\ q[1] = (q[0] * x) % P
    BY <1>2, <2>2 DEF IsEvaluation
  <2>4. s + w[1] * x \in Int /\ x * x \in Int /\ w[1] * x = x * w[1]
    BY <1>0
  <2>5. (s + w[1] * x) \cong y[1] /\ (x * x) \cong q[1]
    BY <2>1, <2>3, <2>4, Remainder
  <2>6. Here(0)
    BY <2>1, <2>4, <2>5 DEF \cong
  <2> QED
    BY <2>6
<1>6. \A i \in Nat : i \in S => i + 1 \in S
  <2> SUFFICES ASSUME NEW i \in Nat, i + 1 <= m, Here(i)  PROVE Here(i + 1)
    OBVIOUS
  <2>1. /\ i + 2 \in 1 .. m + 1 /\ i + 2 - 1 = i + 1 /\ i + 1 + 1 = i + 2
        /\ i + 1 \in 1 .. m /\ i + 1 - 1 = i /\ i \in 0 .. m /\ i + 1 \in 0 .. m
    OBVIOUS
  <2> DEFINE a == y[i + 1]
             b == q[i + 1]
             aa == yy[i]
             bb == qq[i]
             c == w[i + 2]
  <2>2. y[i + 2] = (a + c * b) % P /\ q[i + 2] = (b * x) % P
    BY <1>2, <2>1 DEF IsEvaluation
  <2>3. yy[i + 1] = (aa + c * bb) % P /\ qq[i + 1] = (bb * x) % P
    <3>1. v[i + 1] = c
      BY <2>1
    <3> QED
      BY <1>3, <2>1, <3>1 DEF IsEvaluation
  <2>4. a \in Int /\ b \in Int /\ aa \in Int /\ bb \in Int
    BY <1>4, <2>1
  <2>4a. c \in Int
    <3>1. c \in Scalars
      BY <2>1
    <3> HIDE DEF c
    <3> QED
      BY <1>0, <3>1 DEF Scalars
  <2>5. a \cong (s + x * aa) /\ b \cong (x * bb)
    OBVIOUS
  <2>6. yy[i + 1] \in Int /\ qq[i + 1] \in Int
    BY <1>4, <2>1
  <2> HIDE DEF a, b, c, aa, bb
  <2> DEFINE u == aa + c * bb
  <2>7. /\ x * aa \in Int /\ x * bb \in Int /\ c * b \in Int /\ c * (x * bb) \in Int
        /\ u \in Int /\ x * u \in Int /\ bb * x \in Int /\ a + c * b \in Int /\ b * x \in Int
        /\ s + x * aa \in Int
        /\ (s + x * aa) + c * (x * bb) = s + x * u
        /\ (x * bb) * x = x * (bb * x)
    BY <1>0, <2>4, <2>4a
  <2>8. (a + c * b) \cong (s + x * u)
    <3>1. (c * b) \cong (c * (x * bb))
      BY <2>4, <2>4a, <2>5, <2>7, CongTransfer
    <3>2. (a + c * b) \cong ((s + x * aa) + c * (x * bb))
      BY <2>4, <2>5, <2>7, <3>1, CongArithmetic
    <3> QED
      BY <2>7, <3>2
  <2>9. (x * u) \cong (x * yy[i + 1])
    BY <1>0, <2>3, <2>6, <2>7, Remainder, CongTransfer
  <2>10. (s + x * u) \cong (s + x * yy[i + 1])
    <3>1. x * yy[i + 1] \in Int /\ s \cong s
      BY <1>0, <2>6 DEF \cong
    <3> QED
      BY <1>0, <2>7, <2>9, <3>1, CongArithmetic
  <2>11. y[i + 2] \cong (s + x * yy[i + 1])
    <3>1. (a + c * b) \cong y[i + 2]
      BY <2>2, <2>7, Remainder
    <3> QED
      BY <2>8, <2>10, <3>1 DEF \cong
  <2>12. q[i + 2] \cong (x * qq[i + 1])
    <3>1. (b * x) \cong q[i + 2]
      BY <2>2, <2>7, Remainder
    <3>2. (b * x) \cong ((x * bb) * x)
      BY <1>0, <2>4, <2>5, <2>7, CongTransfer
    <3>3. (bb * x) \cong qq[i + 1]
      BY <2>3, <2>7, Remainder
    <3>4. (x * (bb * x)) \cong (x * qq[i + 1])
      BY <1>0, <2>6, <2>7, <3>3, CongTransfer
    <3> QED
      BY <2>7, <3>1, <3>2, <3>4 DEF \cong
  <2> QED
    BY <2>1, <2>11, <2>12
<1>7. m \in S
  <2> HIDE DEF S
  <2> QED
    BY <1>5, <1>6, NatInductionOnSets
<1>8. Here(m)
  BY <1>7
<1>9. Evaluate(s, w, x) = y[m + 1] /\ Evaluate(w[1], v, x) = yy[m]
  BY <1>2, <1>3 DEF IsEvaluation
<1> QED
  BY <1>8, <1>9

-----------------------------------------------------------------------------
(* Polynomials: the functions that split can evaluate *)

Polynomials(m) ==
    {g \in [Scalars -> Scalars] :
        \E s \in Scalars : \E w \in [1 .. m -> Scalars] : \A z \in Scalars : g[z] = Evaluate(s, w, z)}

LEMMA ScalarsAreIntegers ==
    /\ P \in Nat /\ P > 1
    /\ \A a \in Scalars : a \in Int
    /\ 0 \in Scalars /\ 1 \in Scalars /\ P - 1 \in Scalars
  BY PIsPositive DEF Scalars

\* The polynomials of degree 0 are the constants,
LEMMA ConstantPolynomial ==
    ASSUME NEW g \in [Scalars -> Scalars]
    PROVE  g \in Polynomials(0) <=> \E c \in Scalars : \A z \in Scalars : g[z] = c
<1>1. ASSUME g \in Polynomials(0)  PROVE \E c \in Scalars : \A z \in Scalars : g[z] = c
  <2>1. PICK s \in Scalars, w \in [1 .. 0 -> Scalars] : \A z \in Scalars : g[z] = Evaluate(s, w, z)
    BY <1>1 DEF Polynomials
  <2> QED
    BY <2>1, EvaluateConstant
<1>2. ASSUME NEW c \in Scalars, \A z \in Scalars : g[z] = c  PROVE g \in Polynomials(0)
  <2> DEFINE w == [i \in 1 .. 0 |-> 0]
  <2>1. w \in [1 .. 0 -> Scalars]
    OBVIOUS
  <2> HIDE DEF w
  <2>2. \A z \in Scalars : g[z] = Evaluate(c, w, z)
    BY <1>2, <2>1, EvaluateConstant
  <2> QED
    BY <2>1, <2>2 DEF Polynomials
<1> QED
  BY <1>1, <1>2

\* and those of degree m + 1 are a constant plus the argument times one of degree m.
LEMMA PolynomialStep ==
    ASSUME NEW m \in Nat, NEW g \in [Scalars -> Scalars]
    PROVE  g \in Polynomials(m + 1) <=>
               \E c \in Scalars : \E h \in Polynomials(m) : \A z \in Scalars : g[z] \cong (c + z * h[z])
<1>0. m + 1 \in Nat
  OBVIOUS
<1>1. ASSUME g \in Polynomials(m + 1)
      PROVE  \E c \in Scalars : \E h \in Polynomials(m) : \A z \in Scalars : g[z] \cong (c + z * h[z])
  <2>1. PICK s \in Scalars, w \in [1 .. m + 1 -> Scalars] :
            \A z \in Scalars : g[z] = Evaluate(s, w, z)
    BY <1>1 DEF Polynomials
  <2> DEFINE v == [i \in 1 .. m |-> w[i + 1]]
             h == [z \in Scalars |-> Evaluate(w[1], v, z)]
  <2>2. v \in [1 .. m -> Scalars] /\ w[1] \in Scalars
    OBVIOUS
  <2>3. \A z \in Scalars : Evaluate(s, w, z) \cong (s + z * Evaluate(w[1], v, z))
    BY EvaluateShift
  <2> HIDE DEF v
  <2>4. \A z \in Scalars : Evaluate(w[1], v, z) \in Scalars
    BY <2>2, EvaluateType
  <2>5. h \in Polynomials(m)
    BY <2>2, <2>4 DEF Polynomials
  <2>6. \A z \in Scalars : g[z] \cong (s + z * h[z])
    BY <2>1, <2>3
  <2> QED
    BY <2>5, <2>6
<1>2. ASSUME NEW c \in Scalars, NEW h \in Polynomials(m), \A z \in Scalars : g[z] \cong (c + z * h[z])
      PROVE  g \in Polynomials(m + 1)
  <2>1. PICK s \in Scalars, v \in [1 .. m -> Scalars] :
            \A z \in Scalars : h[z] = Evaluate(s, v, z)
    BY DEF Polynomials
  <2> DEFINE w == [i \in 1 .. m + 1 |-> IF i = 1 THEN s ELSE v[i - 1]]
  <2>2. w \in [1 .. m + 1 -> Scalars] /\ w[1] = s
    OBVIOUS
  <2>3. [i \in 1 .. m |-> w[i + 1]] = v
    OBVIOUS
  <2> HIDE DEF w
  <2>4. ASSUME NEW z \in Scalars  PROVE g[z] = Evaluate(c, w, z)
    <3>1. Evaluate(c, w, z) \cong (c + z * h[z])
      BY <2>1, <2>2, <2>3, EvaluateShift
    <3>2. Evaluate(c, w, z) \in Scalars /\ g[z] \in Scalars
      BY <1>0, <2>2, EvaluateType
    <3>3. g[z] \cong Evaluate(c, w, z)
      BY <1>2, <3>1 DEF \cong
    <3> QED
      BY <3>2, <3>3, CongScalars
  <2> QED
    BY <2>2, <2>4 DEF Polynomials
<1> QED
  BY <1>1, <1>2

LEMMA PolynomialValues ==
    ASSUME NEW m, NEW g \in Polynomials(m)
    PROVE  /\ g \in [Scalars -> Scalars]
           /\ \A z \in Scalars : g[z] \in Scalars /\ g[z] \in Int
  BY ScalarsAreIntegers DEF Polynomials

\* The degree is an upper bound.
LEMMA PolynomialWidening ==
    ASSUME NEW m \in Nat
    PROVE  Polynomials(m) \subseteq Polynomials(m + 1)
<1> DEFINE S == {n \in Nat : Polynomials(n) \subseteq Polynomials(n + 1)}
<1>1. 0 \in S
  <2> SUFFICES ASSUME NEW g \in Polynomials(0)  PROVE g \in Polynomials(0 + 1)
    OBVIOUS
  <2>1. g \in [Scalars -> Scalars]
    BY PolynomialValues
  <2>2. PICK c \in Scalars : \A z \in Scalars : g[z] = c
    BY <2>1, ConstantPolynomial
  <2> DEFINE h == [z \in Scalars |-> 0]
  <2>3. h \in Polynomials(0)
    <3>1. h \in [Scalars -> Scalars] /\ \A z \in Scalars : h[z] = 0
      BY ScalarsAreIntegers
    <3> QED
      BY <3>1, ScalarsAreIntegers, ConstantPolynomial
  <2>4. \A z \in Scalars : g[z] \cong (c + z * h[z])
    BY <2>2, ScalarsAreIntegers DEF \cong
  <2> HIDE DEF h
  <2> QED
    BY <2>1, <2>3, <2>4, PolynomialStep
<1>2. \A n \in Nat : n \in S => n + 1 \in S
  <2> SUFFICES ASSUME NEW n \in Nat, Polynomials(n) \subseteq Polynomials(n + 1),
                      NEW g \in Polynomials(n + 1)
               PROVE  g \in Polynomials(n + 1 + 1)
    OBVIOUS
  <2>1. g \in [Scalars -> Scalars]
    BY PolynomialValues
  <2>2. PICK c \in Scalars, h \in Polynomials(n) : \A z \in Scalars : g[z] \cong (c + z * h[z])
    BY <2>1, PolynomialStep
  <2>3. h \in Polynomials(n + 1) /\ n + 1 \in Nat
    OBVIOUS
  <2> QED
    BY <2>1, <2>2, <2>3, PolynomialStep
<1> HIDE DEF S
<1>3. m \in S
  BY <1>1, <1>2, NatInductionOnSets
<1> QED
  BY <1>3 DEF S

Combination(a, g, b, h) == [z \in Scalars |-> (a * g[z] + b * h[z]) % P]

LEMMA CombinationValues ==
    ASSUME NEW a \in Scalars, NEW b \in Scalars,
           NEW g \in [Scalars -> Scalars], NEW h \in [Scalars -> Scalars]
    PROVE  /\ Combination(a, g, b, h) \in [Scalars -> Scalars]
           /\ \A z \in Scalars : Combination(a, g, b, h)[z] \cong (a * g[z] + b * h[z])
<1>1. ASSUME NEW z \in Scalars
      PROVE  /\ (a * g[z] + b * h[z]) % P \in Scalars
             /\ ((a * g[z] + b * h[z]) % P) \cong (a * g[z] + b * h[z])
  <2>1. a \in Int /\ b \in Int /\ g[z] \in Int /\ h[z] \in Int
    BY ScalarsAreIntegers
  <2>2. a * g[z] + b * h[z] \in Int
    BY <2>1
  <2> QED
    BY <2>2, Remainder DEF \cong, Scalars
<1> QED
  BY <1>1 DEF Combination

\* A linear combination of polynomials is one of them.
LEMMA CombinationOfPolynomials ==
    ASSUME NEW m \in Nat, NEW a \in Scalars, NEW b \in Scalars,
           NEW g \in Polynomials(m), NEW h \in Polynomials(m)
    PROVE  Combination(a, g, b, h) \in Polynomials(m)
<1> DEFINE S == {n \in Nat : \A f, k \in Polynomials(n) : Combination(a, f, b, k) \in Polynomials(n)}
<1>0. a \in Int /\ b \in Int
  BY ScalarsAreIntegers
<1>1. 0 \in S
  <2> SUFFICES ASSUME NEW f \in Polynomials(0), NEW k \in Polynomials(0)
               PROVE  Combination(a, f, b, k) \in Polynomials(0)
    OBVIOUS
  <2>1. f \in [Scalars -> Scalars] /\ k \in [Scalars -> Scalars]
    BY PolynomialValues
  <2>2. PICK c \in Scalars : \A z \in Scalars : f[z] = c
    BY <2>1, ConstantPolynomial
  <2>3. PICK d \in Scalars : \A z \in Scalars : k[z] = d
    BY <2>1, ConstantPolynomial
  <2>4. Combination(a, f, b, k) \in [Scalars -> Scalars]
    BY <2>1, CombinationValues
  <2>5. \A z \in Scalars : Combination(a, f, b, k)[z] = (a * c + b * d) % P
    BY <2>2, <2>3 DEF Combination
  <2>6. (a * c + b * d) % P \in Scalars
    <3>1. a * c + b * d \in Int
      BY <1>0, ScalarsAreIntegers
    <3> QED
      BY <3>1, ModIsScalar
  <2> QED
    BY <2>4, <2>5, <2>6, ConstantPolynomial
<1>2. \A n \in Nat : n \in S => n + 1 \in S
  <2> SUFFICES ASSUME NEW n \in Nat,
                      \A f, k \in Polynomials(n) : Combination(a, f, b, k) \in Polynomials(n),
                      NEW f \in Polynomials(n + 1), NEW k \in Polynomials(n + 1)
               PROVE  Combination(a, f, b, k) \in Polynomials(n + 1)
    OBVIOUS
  <2>1. f \in [Scalars -> Scalars] /\ k \in [Scalars -> Scalars]
    BY PolynomialValues
  <2>2. PICK c \in Scalars, ff \in Polynomials(n) : \A z \in Scalars : f[z] \cong (c + z * ff[z])
    BY <2>1, PolynomialStep
  <2>3. PICK d \in Scalars, kk \in Polynomials(n) : \A z \in Scalars : k[z] \cong (d + z * kk[z])
    BY <2>1, PolynomialStep
  <2> DEFINE e == (a * c + b * d) % P
             G == Combination(a, f, b, k)
             H == Combination(a, ff, b, kk)
  <2>4. a * c + b * d \in Int
    BY <1>0, ScalarsAreIntegers
  <2>5. e \in Scalars /\ e \in Int /\ (a * c + b * d) \cong e
    BY <2>4, ModIsScalar, Remainder, ScalarsAreIntegers
  <2>6. H \in Polynomials(n)
    OBVIOUS
  <2>7. G \in [Scalars -> Scalars] /\ \A z \in Scalars : G[z] \cong (a * f[z] + b * k[z])
    BY <2>1, CombinationValues
  <2>8. ff \in [Scalars -> Scalars] /\ kk \in [Scalars -> Scalars]
    BY PolynomialValues
  <2>9. \A z \in Scalars : H[z] \cong (a * ff[z] + b * kk[z])
    BY <2>8, CombinationValues
  <2>10. H \in [Scalars -> Scalars]
    BY <2>6, PolynomialValues
  <2> HIDE DEF e, G, H
  <2>11. ASSUME NEW z \in Scalars  PROVE G[z] \cong (e + z * H[z])
    <3> DEFINE y1 == f[z]
               y2 == k[z]
               x1 == ff[z]
               x2 == kk[z]
               t == H[z]
    <3>1. /\ z \in Int /\ c \in Int /\ d \in Int
          /\ y1 \in Int /\ y2 \in Int /\ x1 \in Int /\ x2 \in Int /\ t \in Int
      BY <2>1, <2>8, <2>10, ScalarsAreIntegers
    <3>2. y1 \cong (c + z * x1) /\ y2 \cong (d + z * x2) /\ t \cong (a * x1 + b * x2)
      BY <2>2, <2>3, <2>9
    <3>2a. G[z] \cong (a * y1 + b * y2)
      BY <2>7
    <3> HIDE DEF y1, y2, x1, x2, t
    <3>3. /\ c + z * x1 \in Int /\ d + z * x2 \in Int
          /\ a * y1 \in Int /\ b * y2 \in Int
          /\ a * (c + z * x1) \in Int /\ b * (d + z * x2) \in Int
          /\ a * x1 + b * x2 \in Int /\ z * t \in Int /\ z * (a * x1 + b * x2) \in Int
      BY <1>0, <3>1
    <3>4. a * (c + z * x1) + b * (d + z * x2) = (a * c + b * d) + z * (a * x1 + b * x2)
      BY <1>0, <3>1
    <3>5. (a * y1) \cong (a * (c + z * x1)) /\ (b * y2) \cong (b * (d + z * x2))
      BY <1>0, <3>1, <3>2, <3>3, CongTransfer
    <3>6. (a * y1 + b * y2) \cong (a * (c + z * x1) + b * (d + z * x2))
      BY <3>3, <3>5, CongArithmetic
    <3>7. (z * t) \cong (z * (a * x1 + b * x2))
      BY <3>1, <3>2, <3>3, CongTransfer
    <3>8. (z * (a * x1 + b * x2)) \cong (z * t)
      BY <3>7 DEF \cong
    <3>9. ((a * c + b * d) + z * (a * x1 + b * x2)) \cong (e + z * t)
      BY <2>4, <2>5, <3>3, <3>8, CongArithmetic
    <3> QED
      BY <3>2a, <3>4, <3>6, <3>9 DEF \cong, t
  <2>12. G \in Polynomials(n + 1)
    BY <2>5, <2>6, <2>7, <2>11, PolynomialStep
  <2> QED
    BY <2>12 DEF G
<1> HIDE DEF S
<1>3. m \in S
  BY <1>1, <1>2, NatInductionOnSets
<1> QED
  BY <1>3 DEF S

\* A factor j - z raises the degree by one.
LEMMA PolynomialTimesLinear ==
    ASSUME NEW m \in Nat, NEW g \in Polynomials(m), NEW j \in Scalars,
           NEW k \in [Scalars -> Scalars], \A z \in Scalars : k[z] \cong (g[z] * (j - z))
    PROVE  k \in Polynomials(m + 1)
<1> DEFINE b == P - 1
           h == [z \in Scalars |-> (z * g[z]) % P]
<1>1. m + 1 \in Nat /\ g \in Polynomials(m + 1)
  BY PolynomialWidening
<1>2. g \in [Scalars -> Scalars] /\ \A z \in Scalars : g[z] \in Int
  BY PolynomialValues
<1>3. \A z \in Scalars : z * g[z] \in Int
  BY <1>2, ScalarsAreIntegers
<1>4. h \in [Scalars -> Scalars] /\ \A z \in Scalars : h[z] \cong (0 + z * g[z])
  <2>1. \A z \in Scalars : (z * g[z]) % P \in Scalars /\ (z * g[z]) \cong ((z * g[z]) % P)
    BY <1>3, Remainder DEF Scalars
  <2>2. \A z \in Scalars : 0 + z * g[z] = z * g[z]
    BY <1>3
  <2> QED
    BY <2>1, <2>2 DEF \cong
<1>5. h \in Polynomials(m + 1)
  <2> HIDE DEF h
  <2> QED
    BY <1>4, ScalarsAreIntegers, PolynomialStep
<1>6. b \in Scalars /\ b \in Int /\ j \in Int
  BY ScalarsAreIntegers
<1> HIDE DEF h
<1> DEFINE G == Combination(j, g, b, h)
<1>7. G \in Polynomials(m + 1)
  BY <1>1, <1>5, <1>6, CombinationOfPolynomials
<1>8. G \in [Scalars -> Scalars] /\ \A z \in Scalars : G[z] \cong (j * g[z] + b * h[z])
  BY <1>2, <1>4, <1>6, CombinationValues
<1>9. ASSUME NEW z \in Scalars  PROVE k[z] = G[z]
  <2> DEFINE y == g[z]
             x == h[z]
  <2>1. y \in Int /\ x \in Int /\ z \in Int /\ P \in Int
    BY <1>2, <1>4, ScalarsAreIntegers
  <2>2. G[z] \cong (j * y + b * x) /\ x \cong (0 + z * y) /\ k[z] \cong (y * (j - z))
    BY <1>4, <1>8
  <2> HIDE DEF y, x, G
  <2>3. /\ 0 + z * y = z * y /\ z * y \in Int /\ b * x \in Int /\ b * (z * y) \in Int
        /\ j * y \in Int /\ y * (j - z) \in Int
    BY <1>6, <2>1
  <2>4. (b * x) \cong (b * (z * y))
    BY <1>6, <2>1, <2>2, <2>3, CongTransfer
  <2>5. (j * y + b * x) \cong (j * y + b * (z * y))
    <3>1. (j * y) \cong (j * y)
      BY DEF \cong
    <3> QED
      BY <2>3, <2>4, <3>1, CongArithmetic
  <2>6. (j * y + b * (z * y)) \cong (y * (j - z))
    <3>1. j * y + b * (z * y) = y * (j - z) + P * (z * y)
      BY <1>6, <2>1
    <3>2. j * y + b * (z * y) \in Int
      BY <2>3
    <3> QED
      BY <2>3, <3>1, <3>2, CongIffMultiple
  <2>7. k[z] \cong G[z]
    BY <2>2, <2>5, <2>6 DEF \cong
  <2>8. k[z] \in Scalars /\ G[z] \in Scalars
    BY <1>8
  <2> QED
    BY <2>7, <2>8, CongScalars
<1>10. k = G
  <2> HIDE DEF G
  <2> QED
    BY <1>8, <1>9
<1> QED
  BY <1>7, <1>10

\* Division by z - a
LEMMA PolynomialFactor ==
    ASSUME NEW m \in Nat, NEW g \in Polynomials(m + 1), NEW a \in Scalars
    PROVE  \E h \in Polynomials(m) : \A z \in Scalars : g[z] \cong (g[a] + (z - a) * h[z])
<1> DEFINE Good(n) == \A f \in Polynomials(n + 1) :
                         \E h \in Polynomials(n) : \A z \in Scalars : f[z] \cong (f[a] + (z - a) * h[z])
           S == {n \in Nat : Good(n)}
<1>0. a \in Int
  BY ScalarsAreIntegers
<1>1. 0 \in S
  <2> SUFFICES ASSUME NEW f \in Polynomials(0 + 1)
               PROVE  \E h \in Polynomials(0) : \A z \in Scalars : f[z] \cong (f[a] + (z - a) * h[z])
    OBVIOUS
  <2>1. f \in [Scalars -> Scalars]
    BY PolynomialValues
  <2>2. PICK c \in Scalars, h \in Polynomials(0) : \A z \in Scalars : f[z] \cong (c + z * h[z])
    BY <2>1, PolynomialStep
  <2>3. h \in [Scalars -> Scalars]
    BY PolynomialValues
  <2>4. PICK d \in Scalars : \A z \in Scalars : h[z] = d
    BY <2>3, ConstantPolynomial
  <2>5. ASSUME NEW z \in Scalars  PROVE f[z] \cong (f[a] + (z - a) * h[z])
    <3> DEFINE y == f[a]
    <3>1. z \in Int /\ c \in Int /\ d \in Int /\ y \in Int
      BY <2>1, ScalarsAreIntegers
    <3>2. f[z] \cong (c + z * d) /\ y \cong (c + a * d) /\ h[z] = d
      BY <2>2, <2>4
    <3> HIDE DEF y
    <3>3. c + a * d \in Int /\ (z - a) * d \in Int /\ (c + a * d) + (z - a) * d = c + z * d
      BY <1>0, <3>1
    <3>4. (y + (z - a) * d) \cong ((c + a * d) + (z - a) * d)
      BY <3>1, <3>2, <3>3, CongTransfer
    <3> QED
      BY <3>2, <3>3, <3>4 DEF \cong, y
  <2> QED
    BY <2>5
<1>2. \A n \in Nat : n \in S => n + 1 \in S
  <2> SUFFICES ASSUME NEW n \in Nat, Good(n), NEW f \in Polynomials(n + 1 + 1)
               PROVE  \E h \in Polynomials(n + 1) :
                          \A z \in Scalars : f[z] \cong (f[a] + (z - a) * h[z])
    OBVIOUS
  <2>1. f \in [Scalars -> Scalars] /\ n + 1 \in Nat
    BY PolynomialValues
  <2>2. PICK c \in Scalars, k \in Polynomials(n + 1) : \A z \in Scalars : f[z] \cong (c + z * k[z])
    BY <2>1, PolynomialStep
  <2>3. PICK e \in Polynomials(n) : \A z \in Scalars : k[z] \cong (k[a] + (z - a) * e[z])
    OBVIOUS
  <2> DEFINE b == k[a]
             h == [z \in Scalars |-> (b + z * e[z]) % P]
  <2>4. /\ k \in [Scalars -> Scalars] /\ \A z \in Scalars : k[z] \in Int
        /\ e \in [Scalars -> Scalars] /\ \A z \in Scalars : e[z] \in Int
        /\ b \in Scalars /\ b \in Int
    BY PolynomialValues
  <2>5. h \in [Scalars -> Scalars] /\ \A z \in Scalars : h[z] \cong (b + z * e[z])
    <3> HIDE DEF b
    <3>1. \A z \in Scalars : b + z * e[z] \in Int
      BY <2>4, ScalarsAreIntegers
    <3>2. \A z \in Scalars : (b + z * e[z]) % P \in Scalars /\ (b + z * e[z]) \cong ((b + z * e[z]) % P)
      BY <3>1, Remainder DEF Scalars
    <3> QED
      BY <3>2 DEF \cong
  <2> HIDE DEF h
  <2>6. h \in Polynomials(n + 1)
    BY <2>4, <2>5, PolynomialStep
  <2>7. ASSUME NEW z \in Scalars  PROVE f[z] \cong (f[a] + (z - a) * h[z])
    <3> DEFINE y == f[a]
               x == h[z]
               u == e[z]
               v == k[z]
    <3>1. /\ z \in Int /\ c \in Int /\ y \in Int /\ x \in Int /\ u \in Int /\ v \in Int /\ b \in Int
      BY <2>1, <2>4, <2>5, ScalarsAreIntegers
    <3>2. /\ f[z] \cong (c + z * v) /\ y \cong (c + a * b)
          /\ v \cong (b + (z - a) * u) /\ x \cong (b + z * u)
      BY <2>2, <2>3, <2>5
    <3> HIDE DEF y, x, u, v, b
    <3>3. /\ c + a * b \in Int /\ z - a \in Int /\ (z - a) * x \in Int /\ b + z * u \in Int
          /\ (z - a) * (b + z * u) \in Int /\ b + (z - a) * u \in Int
          /\ z * v \in Int /\ z * (b + (z - a) * u) \in Int
          /\ (c + a * b) + (z - a) * (b + z * u) = c + z * (b + (z - a) * u)
      BY <1>0, <3>1
    <3>4. ((z - a) * x) \cong ((z - a) * (b + z * u))
      BY <3>1, <3>2, <3>3, CongTransfer
    <3>5. (y + (z - a) * x) \cong ((c + a * b) + (z - a) * (b + z * u))
      BY <3>1, <3>2, <3>3, <3>4, CongArithmetic
    <3>6. (z * v) \cong (z * (b + (z - a) * u))
      BY <3>1, <3>2, <3>3, CongTransfer
    <3>7. (c + z * v) \cong (c + z * (b + (z - a) * u))
      <4>1. c \cong c
        BY DEF \cong
      <4> QED
        BY <3>1, <3>3, <3>6, <4>1, CongArithmetic
    <3> QED
      BY <3>2, <3>3, <3>5, <3>7 DEF \cong, y, x
  <2> QED
    BY <2>6, <2>7
<1> HIDE DEF S
<1>3. m \in S
  BY <1>1, <1>2, NatInductionOnSets
<1> QED
  BY <1>3 DEF S

\* A polynomial with more roots than its degree is zero.
LEMMA PolynomialRoots ==
    ASSUME NEW m \in Nat, NEW g \in Polynomials(m), NEW x \in [1 .. m + 1 -> Scalars],
           \A i, j \in 1 .. m + 1 : x[i] = x[j] => i = j,
           \A i \in 1 .. m + 1 : g[x[i]] = 0
    PROVE  \A z \in Scalars : g[z] = 0
<1> DEFINE Good(n) == \A f \in Polynomials(n) : \A y \in [1 .. n + 1 -> Scalars] :
                         (\A i, j \in 1 .. n + 1 : y[i] = y[j] => i = j)
                         /\ (\A i \in 1 .. n + 1 : f[y[i]] = 0)
                         => \A z \in Scalars : f[z] = 0
           S == {n \in Nat : Good(n)}
<1>1. 0 \in S
  <2> SUFFICES ASSUME NEW f \in Polynomials(0), NEW y \in [1 .. 0 + 1 -> Scalars],
                      \A i \in 1 .. 0 + 1 : f[y[i]] = 0
               PROVE  \A z \in Scalars : f[z] = 0
    OBVIOUS
  <2>1. f \in [Scalars -> Scalars] /\ 1 \in 1 .. 0 + 1 /\ y[1] \in Scalars
    BY PolynomialValues
  <2>2. PICK c \in Scalars : \A z \in Scalars : f[z] = c
    BY <2>1, ConstantPolynomial
  <2> QED
    BY <2>1, <2>2
<1>2. \A n \in Nat : n \in S => n + 1 \in S
  <2> SUFFICES ASSUME NEW n \in Nat, Good(n)  PROVE Good(n + 1)
    <3> HIDE DEF Good
    <3> QED
      OBVIOUS
  <2> SUFFICES ASSUME NEW f \in Polynomials(n + 1), NEW y \in [1 .. n + 1 + 1 -> Scalars],
                      \A i, j \in 1 .. n + 1 + 1 : y[i] = y[j] => i = j,
                      \A i \in 1 .. n + 1 + 1 : f[y[i]] = 0
               PROVE  \A z \in Scalars : f[z] = 0
    BY Zenon
  <2> DEFINE a == y[n + 2]
             v == [i \in 1 .. n + 1 |-> y[i]]
  <2>1. /\ n + 2 \in 1 .. n + 1 + 1 /\ a \in Scalars /\ f[a] = 0
        /\ v \in [1 .. n + 1 -> Scalars]
        /\ \A i \in 1 .. n + 1 : v[i] = y[i] /\ v[i] # a /\ f[v[i]] = 0 /\ i \in 1 .. n + 1 + 1
        /\ \A i, j \in 1 .. n + 1 : v[i] = v[j] => i = j
    OBVIOUS
  <2> HIDE DEF a, v
  <2>2. PICK h \in Polynomials(n) : \A z \in Scalars : f[z] \cong (f[a] + (z - a) * h[z])
    BY <2>1, PolynomialFactor
  <2>3. \A z \in Scalars : z \in Int /\ f[z] \in Scalars /\ h[z] \in Scalars /\ h[z] \in Int
    BY PolynomialValues, ScalarsAreIntegers
  <2>4. \A z \in Scalars : f[z] \cong ((z - a) * h[z])
    <3> SUFFICES ASSUME NEW z \in Scalars  PROVE f[z] \cong ((z - a) * h[z])
      OBVIOUS
    <3>1. (z - a) * h[z] \in Int
      BY <2>1, <2>3
    <3>2. 0 + (z - a) * h[z] = (z - a) * h[z]
      BY <3>1
    <3> QED
      BY <2>1, <2>2, <3>2
  <2>5. ASSUME NEW i \in 1 .. n + 1  PROVE h[v[i]] = 0
    <3> DEFINE z == v[i]
               t == h[z]
    <3>1. z \in Scalars /\ z \in Int /\ a \in Int /\ z # a /\ f[z] = 0 /\ t \in Int /\ t \in Scalars
      BY <2>1, <2>3
    <3>2. ((z - a) * t) \cong 0
      BY <2>4, <3>1 DEF \cong
    <3> HIDE DEF t, z
    <3>3. ~ ((z - a) \cong 0)
      <4> SUFFICES ASSUME (z - a) \cong 0  PROVE FALSE
        OBVIOUS
      <4>1. z \cong a
        BY <3>1, CongDifference
      <4> QED
        BY <2>1, <3>1, <4>1, CongScalars
    <3>4. t \cong 0
      <4> DEFINE e == z - a
      <4>1. e \in Int
        BY <3>1
      <4>2. (e * t) \cong 0 /\ ~ (e \cong 0)
        BY <3>2, <3>3, Zenon
      <4> HIDE DEF e
      <4> QED
        BY <3>1, <4>1, <4>2, NoZeroDivisors
    <3>5. t = 0
      BY <3>1, <3>4, ScalarsAreIntegers, CongScalars
    <3> QED
      BY <3>5 DEF t, z
  <2>6. \A z \in Scalars : h[z] = 0
    BY <2>1, <2>5
  <2>7. ASSUME NEW z \in Scalars  PROVE f[z] = 0
    <3>1. (z - a) * h[z] = 0
      BY <2>1, <2>3, <2>6
    <3>2. f[z] \cong 0
      BY <2>4, <3>1
    <3> QED
      BY <2>3, <3>2, ScalarsAreIntegers, CongScalars
  <2> QED
    BY <2>7
<1> HIDE DEF S
<1>3. m \in S
  BY <1>1, <1>2, NatInductionOnSets
<1> QED
  BY <1>3 DEF S

\* Two polynomials that agree on more points than their degree are the same.
LEMMA PolynomialsAgree ==
    ASSUME NEW m \in Nat, NEW f \in Polynomials(m), NEW g \in Polynomials(m),
           NEW x \in [1 .. m + 1 -> Scalars],
           \A i, j \in 1 .. m + 1 : x[i] = x[j] => i = j,
           \A i \in 1 .. m + 1 : f[x[i]] = g[x[i]]
    PROVE  f = g
<1> DEFINE b == P - 1
           G == Combination(1, f, b, g)
<1>1. 1 \in Scalars /\ b \in Scalars /\ b \in Int /\ P \in Int
  BY ScalarsAreIntegers
<1>2. f \in [Scalars -> Scalars] /\ g \in [Scalars -> Scalars]
  BY PolynomialValues
<1>3. G \in Polynomials(m)
  BY <1>1, CombinationOfPolynomials
<1>4. G \in [Scalars -> Scalars] /\ \A z \in Scalars : G[z] \cong (1 * f[z] + b * g[z])
  BY <1>1, <1>2, CombinationValues
<1> HIDE DEF G
<1>5. ASSUME NEW z \in Scalars  PROVE G[z] \cong (f[z] - g[z])
  <2> DEFINE y == f[z]
             v == g[z]
  <2>1. y \in Int /\ v \in Int
    BY <1>2, ScalarsAreIntegers
  <2>2. G[z] \cong (1 * y + b * v)
    BY <1>4
  <2> HIDE DEF y, v
  <2>3. 1 * y + b * v = (y - v) + P * v /\ 1 * y + b * v \in Int /\ y - v \in Int
    BY <1>1, <2>1
  <2>4. (1 * y + b * v) \cong (y - v)
    BY <2>1, <2>3, CongIffMultiple
  <2> QED
    BY <2>2, <2>4 DEF \cong, y, v
<1>6. ASSUME NEW i \in 1 .. m + 1  PROVE G[x[i]] = 0
  <2>1. f[x[i]] - g[x[i]] = 0
    BY <1>2, ScalarsAreIntegers
  <2>2. G[x[i]] \cong 0
    BY <1>5, <2>1
  <2> QED
    BY <1>4, <2>2, ScalarsAreIntegers, CongScalars
<1>7. \A z \in Scalars : G[z] = 0
  BY <1>3, <1>6, PolynomialRoots
<1>8. ASSUME NEW z \in Scalars  PROVE f[z] = g[z]
  <2> DEFINE y == f[z]
             v == g[z]
  <2>1. y \in Int /\ v \in Int /\ y \in Scalars /\ v \in Scalars
    BY <1>2, ScalarsAreIntegers
  <2>2. (y - v) \cong 0
    BY <1>5, <1>7 DEF \cong
  <2> HIDE DEF y, v
  <2>3. y \cong v
    BY <2>1, <2>2, CongDifference
  <2> QED
    BY <2>1, <2>3, CongScalars DEF y, v
<1> QED
  BY <1>2, <1>8

-----------------------------------------------------------------------------
(* The loops of lagrange_coefficient_at_zero *)

\* The product of x - z over the first i indices x but for one.
IsProduct(acc, index, xs, n, z) ==
    /\ acc \in [0 .. n -> Scalars]
    /\ acc[0] = 1
    /\ \A i \in 1 .. n : acc[i] = IF xs[i] = index THEN acc[i - 1] ELSE (acc[i - 1] * (xs[i] - z)) % P

Numerator(index, xs) ==
    FoldLeft(LAMBDA acc, j : IF j = index THEN acc ELSE (acc * j) % P, 1, xs)

\* lagrange_coefficient_at_zero has index for z.
Denominator(index, xs, z) ==
    FoldLeft(LAMBDA acc, j : IF j = index THEN acc ELSE (acc * (j - z)) % P, 1, xs)

IsNumerator(acc, index, xs, n) == IsProduct(acc, index, xs, n, 0) /\ Numerator(index, xs) = acc[n]

IsDenominator(acc, index, xs, n, z) == IsProduct(acc, index, xs, n, z) /\ Denominator(index, xs, z) = acc[n]

\* Both folds in LagrangeCoefficient are such loops.
LEMMA DenominatorIsLoop ==
    ASSUME NEW n \in Nat, NEW xs \in [1 .. n -> Scalars], NEW index \in Scalars, NEW z \in Scalars
    PROVE  \E acc : IsDenominator(acc, index, xs, n, z)
<1> DEFINE op(a, i) == IF xs[i] = index THEN a ELSE (a * (xs[i] - z)) % P
           F == [p \in Scalars \X (1 .. n) |-> op(p[1], p[2])]
           Rec(g) == g = [t \in SUBSET (1 .. n) |->
                             IF t = {} THEN 1 ELSE op(g[t \ {Max(t)}], Max(t))]
           iter == CHOOSE h : Rec(h)
<1>1. DOMAIN xs = 1 .. n /\ 1 \in Scalars
  BY ScalarsAreIntegers
<1>2. \A a \in Scalars, i \in 1 .. n : op(a, i) \in Scalars
  <2> SUFFICES ASSUME NEW a \in Scalars, NEW i \in 1 .. n, xs[i] # index
               PROVE  (a * (xs[i] - z)) % P \in Scalars
    OBVIOUS
  <2>1. a \in Int /\ xs[i] \in Int /\ z \in Int
    BY ScalarsAreIntegers
  <2>2. a * (xs[i] - z) \in Int
    BY <2>1
  <2> QED
    BY <2>2, ModIsScalar
<1>3. Denominator(index, xs, z) = iter[1 .. n]
  BY <1>1, Zenon DEF Denominator, FoldLeft, MapThenFoldSet
<1> HIDE DEF op
<1>4. F \in [Scalars \X (1 .. n) -> Scalars] /\ \A a \in Scalars, i \in 1 .. n : F[<<a, i>>] = op(a, i)
  BY <1>2
<1> HIDE DEF F
<1>5. PICK g : IsFold(g, Scalars, 1, n, F)
  BY <1>1, <1>4, FoldExists
<1>6. Rec(g)
  <2>1. \A a \in Scalars, i \in 1 .. n : F[<<a, i>>] = op(a, i)
    BY <1>4
  <2>2. g \in [SUBSET (1 .. n) -> Scalars]
    BY <1>5 DEF IsFold
  <2>3. ASSUME NEW t \in SUBSET (1 .. n)
        PROVE  g[t] = IF t = {} THEN 1 ELSE op(g[t \ {Max(t)}], Max(t))
    <3>1. t # {} => Max(t) \in 1 .. n /\ t \ {Max(t)} \in SUBSET (1 .. n)
      BY <1>5 DEF IsFold
    <3>2. g[t] = IF t = {} THEN 1 ELSE F[<<g[t \ {Max(t)}], Max(t)>>]
      BY <1>5 DEF IsFold
    <3>3. t # {} => g[t \ {Max(t)}] \in Scalars
      BY <2>2, <3>1
    <3> QED
      BY <2>1, <3>1, <3>2, <3>3, Zenon
  <2> QED
    BY <2>2, <2>3
<1>7. Rec(iter)
  BY <1>6, Zenon
<1> HIDE DEF iter
<1>8. Unfolds(iter, Scalars, 1, n, F)
  <2>1. iter[{}] = 1
    BY <1>7
  <2>2. \A t \in SUBSET (1 .. n) :
           t # {} /\ Max(t) \in 1 .. n /\ iter[t \ {Max(t)}] \in Scalars
               => iter[t] = F[<<iter[t \ {Max(t)}], Max(t)>>]
    BY <1>4, <1>7
  <2> QED
    BY <2>1, <2>2, Zenon DEF Unfolds
<1> HIDE DEF Rec
<1>9. PICK acc : IsLoop(acc, iter, Scalars, 1, n, F)
  BY <1>1, <1>4, <1>8, FoldIsLoop
<1>10. /\ acc \in [0 .. n -> Scalars] /\ acc[0] = 1 /\ acc[n] = iter[1 .. n]
       /\ \A i \in 1 .. n : acc[i - 1] \in Scalars /\ acc[i] = op(acc[i - 1], i)
  BY <1>4, <1>9 DEF IsLoop
<1> QED
  BY <1>3, <1>10 DEF IsDenominator, IsProduct, op

LEMMA NumeratorIsLoop ==
    ASSUME NEW n \in Nat, NEW xs \in [1 .. n -> Scalars], NEW index \in Scalars
    PROVE  \E acc : IsNumerator(acc, index, xs, n)
<1> DEFINE op(a, i) == IF xs[i] = index THEN a ELSE (a * xs[i]) % P
           F == [p \in Scalars \X (1 .. n) |-> op(p[1], p[2])]
           Rec(g) == g = [t \in SUBSET (1 .. n) |->
                             IF t = {} THEN 1 ELSE op(g[t \ {Max(t)}], Max(t))]
           iter == CHOOSE h : Rec(h)
<1>1. DOMAIN xs = 1 .. n /\ 1 \in Scalars
  BY ScalarsAreIntegers
<1>2. \A a \in Scalars, i \in 1 .. n : op(a, i) \in Scalars
  <2> SUFFICES ASSUME NEW a \in Scalars, NEW i \in 1 .. n, xs[i] # index
               PROVE  (a * xs[i]) % P \in Scalars
    OBVIOUS
  <2>1. a \in Int /\ xs[i] \in Int
    BY ScalarsAreIntegers
  <2>2. a * xs[i] \in Int
    BY <2>1
  <2> QED
    BY <2>2, ModIsScalar
<1>3. Numerator(index, xs) = iter[1 .. n]
  BY <1>1, Zenon DEF Numerator, FoldLeft, MapThenFoldSet
<1> HIDE DEF op
<1>4. F \in [Scalars \X (1 .. n) -> Scalars] /\ \A a \in Scalars, i \in 1 .. n : F[<<a, i>>] = op(a, i)
  BY <1>2
<1> HIDE DEF F
<1>5. PICK g : IsFold(g, Scalars, 1, n, F)
  BY <1>1, <1>4, FoldExists
<1>6. Rec(g)
  <2>1. \A a \in Scalars, i \in 1 .. n : F[<<a, i>>] = op(a, i)
    BY <1>4
  <2>2. g \in [SUBSET (1 .. n) -> Scalars]
    BY <1>5 DEF IsFold
  <2>3. ASSUME NEW t \in SUBSET (1 .. n)
        PROVE  g[t] = IF t = {} THEN 1 ELSE op(g[t \ {Max(t)}], Max(t))
    <3>1. t # {} => Max(t) \in 1 .. n /\ t \ {Max(t)} \in SUBSET (1 .. n)
      BY <1>5 DEF IsFold
    <3>2. g[t] = IF t = {} THEN 1 ELSE F[<<g[t \ {Max(t)}], Max(t)>>]
      BY <1>5 DEF IsFold
    <3>3. t # {} => g[t \ {Max(t)}] \in Scalars
      BY <2>2, <3>1
    <3> QED
      BY <2>1, <3>1, <3>2, <3>3, Zenon
  <2> QED
    BY <2>2, <2>3
<1>7. Rec(iter)
  BY <1>6, Zenon
<1> HIDE DEF iter
<1>8. Unfolds(iter, Scalars, 1, n, F)
  <2>1. iter[{}] = 1
    BY <1>7
  <2>2. \A t \in SUBSET (1 .. n) :
           t # {} /\ Max(t) \in 1 .. n /\ iter[t \ {Max(t)}] \in Scalars
               => iter[t] = F[<<iter[t \ {Max(t)}], Max(t)>>]
    BY <1>4, <1>7
  <2> QED
    BY <2>1, <2>2, Zenon DEF Unfolds
<1> HIDE DEF Rec
<1>9. PICK acc : IsLoop(acc, iter, Scalars, 1, n, F)
  BY <1>1, <1>4, <1>8, FoldIsLoop
<1>10. /\ acc \in [0 .. n -> Scalars] /\ acc[0] = 1 /\ acc[n] = iter[1 .. n]
       /\ \A i \in 1 .. n : acc[i - 1] \in Scalars /\ acc[i] = op(acc[i - 1], i)
  BY <1>4, <1>9 DEF IsLoop
<1>11. \A i \in 1 .. n : acc[i] = IF xs[i] = index THEN acc[i - 1] ELSE (acc[i - 1] * (xs[i] - 0)) % P
  <2>1. \A i \in 1 .. n : xs[i] - 0 = xs[i]
    BY ScalarsAreIntegers
  <2> QED
    BY <1>10, <2>1 DEF op
<1> QED
  BY <1>3, <1>10, <1>11 DEF IsNumerator, IsProduct

\* The product is determined by its factors.
LEMMA ProductIsUnique ==
    ASSUME NEW n \in Nat, NEW xs, NEW index, NEW z, NEW a, NEW b,
           IsProduct(a, index, xs, n, z), IsProduct(b, index, xs, n, z)
    PROVE  a[n] = b[n]
<1> DEFINE S == {i \in Nat : i <= n => a[i] = b[i]}
<1>1. 0 \in S
  BY DEF IsProduct
<1>2. \A i \in Nat : i \in S => i + 1 \in S
  <2> SUFFICES ASSUME NEW i \in Nat, i + 1 <= n, a[i] = b[i]  PROVE a[i + 1] = b[i + 1]
    OBVIOUS
  <2>1. i + 1 \in 1 .. n /\ i + 1 - 1 = i
    OBVIOUS
  <2> DEFINE j == i + 1
  <2>2. j \in 1 .. n /\ a[j - 1] = b[j - 1]
    BY <2>1
  <2> HIDE DEF j
  <2>3. a[j] = b[j]
    BY <2>2 DEF IsProduct
  <2> QED
    BY <2>3 DEF j
<1> HIDE DEF S
<1>3. n \in S
  BY <1>1, <1>2, NatInductionOnSets
<1> QED
  BY <1>3 DEF S

\* Over the first i factors, as a function of z, the product is a polynomial.
LEMMA ProductIsPolynomial ==
    ASSUME NEW m \in Nat, NEW xs \in [1 .. m + 1 -> Scalars], NEW k \in 1 .. m + 1,
           \A i, j \in 1 .. m + 1 : xs[i] = xs[j] => i = j
    PROVE  [z \in Scalars |-> Denominator(xs[k], xs, z)] \in Polynomials(m)
<1> DEFINE n == m + 1
           index == xs[k]
           acc(z) == CHOOSE a : IsDenominator(a, index, xs, n, z)
           B(i) == [z \in Scalars |-> acc(z)[i]]
           S == {i \in Nat : i <= n => B(i) \in Polynomials(IF i < k THEN i ELSE i - 1)}
<1>0. n \in Nat /\ k \in 1 .. n /\ index \in Scalars
  OBVIOUS
<1>1. \A z \in Scalars : IsDenominator(acc(z), index, xs, n, z)
  <2> SUFFICES ASSUME NEW z \in Scalars  PROVE IsDenominator(acc(z), index, xs, n, z)
    OBVIOUS
  <2> HIDE DEF n, index
  <2>1. xs \in [1 .. n -> Scalars]
    BY DEF n
  <2>2. \E a : IsDenominator(a, index, xs, n, z)
    BY <1>0, <2>1, DenominatorIsLoop
  <2> QED
    BY <2>2, Zenon
<1> HIDE DEF acc
<1>2. ASSUME NEW z \in Scalars, NEW i \in 0 .. n
      PROVE  acc(z)[i] \in Scalars
  BY <1>1, <1>2 DEF IsDenominator, IsProduct
<1>3. \A z \in Scalars : acc(z)[0] = 1
  BY <1>1 DEF IsDenominator, IsProduct
<1>4. ASSUME NEW z \in Scalars, NEW i \in 1 .. n
      PROVE  acc(z)[i] = IF xs[i] = index THEN acc(z)[i - 1] ELSE (acc(z)[i - 1] * (xs[i] - z)) % P
  BY <1>1, <1>4 DEF IsDenominator, IsProduct
<1>5. 0 \in S
  <2>1. B(0) \in [Scalars -> Scalars] /\ \A z \in Scalars : B(0)[z] = 1
    BY <1>3, ScalarsAreIntegers
  <2> HIDE DEF B
  <2>2. B(0) \in Polynomials(0)
    BY <2>1, ScalarsAreIntegers, ConstantPolynomial
  <2> QED
    BY <1>0, <2>2
<1>6. \A i \in Nat : i \in S => i + 1 \in S
  <2> SUFFICES ASSUME NEW i \in Nat, i + 1 <= n, B(i) \in Polynomials(IF i < k THEN i ELSE i - 1)
               PROVE  B(i + 1) \in Polynomials(IF i + 1 < k THEN i + 1 ELSE i + 1 - 1)
    <3> HIDE DEF B
    <3> QED
      BY <1>0
  <2> DEFINE j == i + 1
             d == IF i < k THEN i ELSE i - 1
  <2>1. j \in 1 .. n /\ j - 1 = i /\ j \in 0 .. n /\ i \in 0 .. n /\ d \in Nat
    OBVIOUS
  <2>2. B(j) \in [Scalars -> Scalars] /\ B(i) \in [Scalars -> Scalars]
    BY <1>2, <2>1
  <2>3. CASE j = k
    <3>1. B(j) = B(i)
      <4>1. \A z \in Scalars : acc(z)[j] = acc(z)[i]
        <5> HIDE DEF j
        <5> QED
          BY <1>4, <2>1, <2>3
      <4> QED
        BY <4>1
    <3>2. (IF i < k THEN i ELSE i - 1) = (IF i + 1 < k THEN i + 1 ELSE i + 1 - 1)
      BY <2>3
    <3> HIDE DEF B
    <3> QED
      BY <3>1, <3>2
  <2>4. CASE j # k
    <3>1. xs[j] # index /\ xs[j] \in Scalars
      BY <2>1, <2>4
    <3>2. \A z \in Scalars : B(j)[z] \cong (B(i)[z] * (xs[j] - z))
      <4> SUFFICES ASSUME NEW z \in Scalars  PROVE B(j)[z] \cong (B(i)[z] * (xs[j] - z))
        OBVIOUS
      <4>1. acc(z)[j] = (acc(z)[i] * (xs[j] - z)) % P
        <5> HIDE DEF j
        <5> QED
          BY <1>4, <2>1, <3>1
      <4> DEFINE y == acc(z)[i]
                 e == y * (xs[j] - z)
      <4>2. y \in Int /\ z \in Int /\ xs[j] \in Int
        BY <1>2, <2>1, <3>1, ScalarsAreIntegers
      <4>3. e \in Int
        <5> HIDE DEF y
        <5> QED
          BY <4>2
      <4>4. B(j)[z] = e % P /\ B(i)[z] = y
        BY <4>1
      <4> HIDE DEF e
      <4>5. B(j)[z] \cong e
        BY <4>3, <4>4, Remainder DEF \cong
      <4> QED
        BY <4>4, <4>5 DEF e
    <3> HIDE DEF B, d, j
    <3>3. B(i) \in Polynomials(d)
      BY DEF d
    <3>4. B(j) \in Polynomials(d + 1)
      BY <2>1, <2>2, <3>1, <3>2, <3>3, PolynomialTimesLinear
    <3>5. d + 1 = (IF i + 1 < k THEN i + 1 ELSE i + 1 - 1)
      BY <2>4 DEF d, j
    <3> QED
      BY <3>4, <3>5 DEF j
  <2> QED
    BY <2>3, <2>4
<1>7. B(n) \in Polynomials(IF n < k THEN n ELSE n - 1)
  <2> HIDE DEF S
  <2>1. n \in S
    BY <1>0, <1>5, <1>6, NatInductionOnSets
  <2> HIDE DEF B, n
  <2> QED
    BY <1>0, <2>1 DEF S
<1>8. B(n) = [z \in Scalars |-> Denominator(index, xs, z)]
  BY <1>1 DEF IsDenominator
<1>9. (IF n < k THEN n ELSE n - 1) = m
  BY <1>0
<1> HIDE DEF B
<1> QED
  BY <1>7, <1>8, <1>9

\* The product is zero at every other index and at no other argument.
LEMMA ProductRoots ==
    ASSUME NEW n \in Nat, NEW xs \in [1 .. n -> Scalars], NEW index \in Scalars, NEW z \in Scalars
    PROVE  Denominator(index, xs, z) = 0 <=> \E i \in 1 .. n : xs[i] # index /\ xs[i] = z
<1>1. PICK acc : IsDenominator(acc, index, xs, n, z)
  BY DenominatorIsLoop
<1> DEFINE Hit(i) == \E j \in 1 .. i : xs[j] # index /\ xs[j] = z
           S == {i \in Nat : i <= n => (acc[i] = 0 <=> Hit(i))}
<1>2. /\ acc[0] = 1 /\ \A i \in 0 .. n : acc[i] \in Scalars /\ acc[i] \in Int
      /\ \A i \in 1 .. n : acc[i] = IF xs[i] = index THEN acc[i - 1] ELSE (acc[i - 1] * (xs[i] - z)) % P
  BY <1>1, ScalarsAreIntegers DEF IsDenominator, IsProduct
<1>3. 0 \in S
  BY <1>2
<1>4. \A i \in Nat : i \in S => i + 1 \in S
  <2> SUFFICES ASSUME NEW i \in Nat, i + 1 <= n, acc[i] = 0 <=> Hit(i)
               PROVE  acc[i + 1] = 0 <=> Hit(i + 1)
    <3> HIDE DEF Hit
    <3> QED
      OBVIOUS
  <2> DEFINE j == i + 1
             y == acc[i]
             x == xs[j]
  <2>1. j \in 1 .. n /\ j - 1 = i /\ i \in 0 .. n /\ j \in 0 .. n /\ x \in Scalars
    OBVIOUS
  <2>2. Hit(j) <=> Hit(i) \/ (x # index /\ x = z)
    OBVIOUS
  <2>3. acc[j] = IF x = index THEN y ELSE (y * (x - z)) % P
    <3> HIDE DEF j
    <3> QED
      BY <1>2, <2>1 DEF x
  <2>4. y \in Scalars /\ y \in Int /\ x \in Int /\ z \in Int
    BY <1>2, <2>1, ScalarsAreIntegers
  <2> HIDE DEF Hit, j, x, y
  <2>5. CASE x # index /\ x = z
    <3>1. y * (x - z) = 0 /\ 0 % P = 0
      BY <2>4, <2>5, ScalarsAreIntegers
    <3>2. acc[j] = 0
      BY <2>3, <2>5, <3>1
    <3> QED
      BY <2>2, <2>5, <3>2 DEF j
  <2>6. CASE x # index /\ x # z
    <3> DEFINE e == x - z
    <3>1. e \in Int /\ ~ (e \cong 0)
      <4>1. ASSUME e \cong 0  PROVE FALSE
        <5>1. x \cong z
          BY <2>4, <4>1, CongDifference
        <5> QED
          BY <2>1, <2>6, <5>1, CongScalars
      <4> QED
        BY <2>4, <4>1
    <3> HIDE DEF e
    <3>2. (y * e) \cong 0 <=> y = 0
      <4>1. ASSUME (y * e) \cong 0  PROVE y = 0
        <5>1. y \cong 0
          BY <2>4, <3>1, <4>1, NoZeroDivisors
        <5> QED
          BY <2>4, <5>1, ScalarsAreIntegers, CongScalars
      <4>2. ASSUME y = 0  PROVE (y * e) \cong 0
        <5>1. y * e = 0
          BY <3>1, <4>2
        <5> QED
          BY <5>1 DEF \cong
      <4> QED
        BY <4>1, <4>2
    <3>3. acc[j] = (y * e) % P /\ 0 % P = 0
      BY <2>3, <2>6, ScalarsAreIntegers DEF e
    <3>4. acc[j] = 0 <=> y = 0
      BY <3>2, <3>3 DEF \cong
    <3> QED
      BY <2>2, <2>6, <3>4 DEF j, y
  <2>7. CASE x = index
    <3>1. acc[j] = y
      BY <2>3, <2>7
    <3> QED
      BY <2>2, <2>7, <3>1 DEF j, y
  <2> QED
    BY <2>5, <2>6, <2>7
<1>5. acc[n] = 0 <=> Hit(n)
  <2> HIDE DEF S
  <2>1. n \in S
    BY <1>3, <1>4, NatInductionOnSets
  <2> HIDE DEF Hit
  <2> QED
    BY <2>1 DEF S
<1> QED
  BY <1>1, <1>5 DEF IsDenominator

\* The numerator is the product at 0.
LEMMA NumeratorIsProduct ==
    ASSUME NEW n \in Nat, NEW xs \in [1 .. n -> Scalars], NEW index \in Scalars
    PROVE  Numerator(index, xs) = Denominator(index, xs, 0) /\ Numerator(index, xs) \in Scalars
<1>1. PICK a : IsNumerator(a, index, xs, n)
  BY NumeratorIsLoop
<1>2. PICK b : IsDenominator(b, index, xs, n, 0)
  BY DenominatorIsLoop, ScalarsAreIntegers
<1>3. a[n] = b[n]
  BY <1>1, <1>2, ProductIsUnique DEF IsNumerator, IsDenominator
<1>4. a[n] \in Scalars
  BY <1>1 DEF IsNumerator, IsProduct
<1> QED
  BY <1>1, <1>2, <1>3, <1>4 DEF IsNumerator, IsDenominator

\* The coefficient of an index is at 0 the polynomial that is 1 at this index and 0 at the
\* others.
IsBasis(L, m, xs, k) ==
    /\ L \in Polynomials(m)
    /\ L[0] = LagrangeCoefficient(xs[k], xs)
    /\ \A i \in 1 .. m + 1 : L[xs[i]] = IF i = k THEN 1 ELSE 0

\* Every index has such a polynomial.
LEMMA LagrangePolynomial ==
    ASSUME NEW m \in Nat, NEW xs \in [1 .. m + 1 -> Scalars], NEW k \in 1 .. m + 1,
           \A i, j \in 1 .. m + 1 : xs[i] = xs[j] => i = j
    PROVE  \E L : IsBasis(L, m, xs, k)
<1> DEFINE index == xs[k]
           B == [z \in Scalars |-> Denominator(index, xs, z)]
           den == Denominator(index, xs, index)
           num == Numerator(index, xs)
           u == Invert(den)
           L == Combination(u, B, 0, B)
<1>1. B \in Polynomials(m)
  BY ProductIsPolynomial
<1>2. index \in Scalars /\ m + 1 \in Nat
  OBVIOUS
<1>3. \A i \in 1 .. m + 1 : xs[i] \in Scalars /\ (B[xs[i]] = 0 <=> i # k)
  <2> SUFFICES ASSUME NEW i \in 1 .. m + 1
               PROVE  Denominator(index, xs, xs[i]) = 0 <=> i # k
    OBVIOUS
  <2> DEFINE n == m + 1
  <2>1. n \in Nat /\ xs \in [1 .. n -> Scalars] /\ xs[i] \in Scalars
    OBVIOUS
  <2> HIDE DEF n, index
  <2>2. Denominator(index, xs, xs[i]) = 0 <=> \E j \in 1 .. n : xs[j] # index /\ xs[j] = xs[i]
    BY <1>2, <2>1, ProductRoots
  <2> QED
    BY <2>2 DEF n, index
<1>4. B[index] = den /\ B[0] = num
  <2>1. num = Denominator(index, xs, 0)
    BY <1>2, NumeratorIsProduct
  <2> QED
    BY <1>2, <2>1, ScalarsAreIntegers
<1>5. B \in [Scalars -> Scalars] /\ \A z \in Scalars : B[z] \in Int
  BY <1>1, PolynomialValues
<1>6. LagrangeCoefficient(index, xs) = (num * u) % P
  BY DEF LagrangeCoefficient, Numerator, Denominator
<1> HIDE DEF B, den, num, index
<1>7. den \in Scalars /\ den \in Int /\ num \in Int /\ den # 0
  BY <1>2, <1>3, <1>4, <1>5, ScalarsAreIntegers DEF index
<1>8. u \in Scalars /\ u \in Int /\ (den * u) \cong 1
  <2>1. ~ (den \cong 0)
    BY <1>7, ScalarsAreIntegers, CongScalars
  <2>2. u \in 1 .. P - 1 /\ (den * u) \cong 1
    BY <1>7, <2>1, InvertIsInverse
  <2> QED
    BY <2>2, ScalarsAreIntegers DEF Scalars
<1> HIDE DEF u
<1>9. L \in Polynomials(m)
  BY <1>1, <1>8, ScalarsAreIntegers, CombinationOfPolynomials
<1>10. \A z \in Scalars : L[z] = (B[z] * u) % P
  <2> SUFFICES ASSUME NEW z \in Scalars  PROVE L[z] = (B[z] * u) % P
    OBVIOUS
  <2> DEFINE y == B[z]
  <2>1. L[z] = (u * y + 0 * y) % P
    BY DEF Combination
  <2>2. y \in Int
    BY <1>5
  <2> HIDE DEF y, L
  <2>3. u * y + 0 * y = y * u
    BY <1>8, <2>2
  <2> QED
    BY <2>1, <2>3 DEF y
<1> HIDE DEF L
<1>11. L[0] = LagrangeCoefficient(index, xs)
  BY <1>4, <1>6, <1>10, ScalarsAreIntegers
<1>12. ASSUME NEW i \in 1 .. m + 1  PROVE L[xs[i]] = IF i = k THEN 1 ELSE 0
  <2>1. CASE i = k
    <3>1. L[index] = (den * u) % P /\ 1 % P = 1
      BY <1>2, <1>4, <1>10, ScalarsAreIntegers
    <3> QED
      BY <1>8, <2>1, <3>1 DEF \cong, index
  <2>2. CASE i # k
    <3>1. L[xs[i]] = (B[xs[i]] * u) % P /\ B[xs[i]] = 0
      BY <1>3, <1>10, <2>2
    <3>2. 0 * u = 0 /\ 0 % P = 0
      BY <1>8, ScalarsAreIntegers
    <3> QED
      BY <2>2, <3>1, <3>2
  <2> QED
    BY <2>1, <2>2
<1>13. IsBasis(L, m, xs, k)
  BY <1>9, <1>11, <1>12 DEF IsBasis, index
<1> QED
  BY <1>13

-----------------------------------------------------------------------------
(* The loop of reconstruct *)

Distinct(list, n) ==
    /\ list \in [1 .. n -> Share]
    /\ \A i, j \in 1 .. n : list[i].index = list[j].index => i = j

LEMMA ShareType ==
    ASSUME NEW share \in Share
    PROVE  /\ share.index \in Scalars /\ share.index \in 0 .. MaxParties
           /\ share.value \in Scalars /\ share.threshold \in 0 .. MaxParties
<1>1. \A i \in 0 .. MaxParties : i \in Scalars
  BY PartiesAssumption, PIsPositive DEF Scalars
<1> QED
  BY <1>1 DEF Share

LEMMA IndicesType ==
    ASSUME NEW n, NEW list, Distinct(list, n)
    PROVE  /\ Indices(list) \in [1 .. n -> Scalars]
           /\ \A i \in 1 .. n : Indices(list)[i] = list[i].index
           /\ \A i, j \in 1 .. n : Indices(list)[i] = Indices(list)[j] => i = j
  BY ShareType DEF Indices, Distinct

IsInterpolation(acc, list, n) ==
    /\ acc \in [0 .. n -> Scalars]
    /\ acc[0] = 0
    /\ \A i \in 1 .. n :
          acc[i] = (acc[i - 1] + list[i].value * LagrangeCoefficient(list[i].index, Indices(list))) % P
    /\ Interpolate(list) = acc[n]

\* A coefficient is a scalar as long as all indices are different.
LEMMA CoefficientType ==
    ASSUME NEW m \in Nat, NEW list, Distinct(list, m + 1), NEW i \in 1 .. m + 1
    PROVE  LagrangeCoefficient(list[i].index, Indices(list)) \in Scalars
<1> DEFINE xs == Indices(list)
<1>1. /\ xs \in [1 .. m + 1 -> Scalars]
      /\ xs[i] = list[i].index
      /\ \A p, q \in 1 .. m + 1 : xs[p] = xs[q] => p = q
  BY IndicesType
<1> HIDE DEF xs
<1>2. PICK L : IsBasis(L, m, xs, i)
  BY <1>1, LagrangePolynomial
<1>3. L[0] \in Scalars
  BY <1>2, PolynomialValues, ScalarsAreIntegers DEF IsBasis
<1> QED
  BY <1>1, <1>2, <1>3 DEF IsBasis, xs

\* The fold in Interpolate is such a loop.
LEMMA InterpolateIsLoop ==
    ASSUME NEW m \in Nat, NEW list, Distinct(list, m + 1)
    PROVE  \E acc : IsInterpolation(acc, list, m + 1)
<1> DEFINE n == m + 1
           op(a, i) == (a + list[i].value * LagrangeCoefficient(list[i].index, Indices(list))) % P
           F == [p \in Scalars \X (1 .. n) |-> op(p[1], p[2])]
           Rec(g) == g = [t \in SUBSET (1 .. n) |->
                             IF t = {} THEN 0 ELSE op(g[t \ {Max(t)}], Max(t))]
           iter == CHOOSE h : Rec(h)
<1>1. DOMAIN list = 1 .. n /\ 0 \in Scalars /\ n \in Nat
  BY ScalarsAreIntegers DEF Distinct
<1>2. \A a \in Scalars, i \in 1 .. n : op(a, i) \in Scalars
  <2> SUFFICES ASSUME NEW a \in Scalars, NEW i \in 1 .. n  PROVE op(a, i) \in Scalars
    OBVIOUS
  <2> DEFINE c == LagrangeCoefficient(list[i].index, Indices(list))
             v == list[i].value
  <2>1. a \in Int /\ c \in Int /\ v \in Int
    <3>1. list[i] \in Share
      BY DEF Distinct
    <3> QED
      BY <3>1, ShareType, CoefficientType, ScalarsAreIntegers
  <2> HIDE DEF c, v
  <2>2. a + v * c \in Int
    BY <2>1
  <2>3. (a + v * c) % P \in Scalars
    BY <2>2, ModIsScalar
  <2> QED
    BY <2>3 DEF c, v
<1>3. Interpolate(list) = iter[1 .. n]
  <2> HIDE DEF n
  <2> QED
    BY <1>1, Zenon DEF Interpolate, FoldLeft, MapThenFoldSet
<1> HIDE DEF op, n
<1>4. F \in [Scalars \X (1 .. n) -> Scalars] /\ \A a \in Scalars, i \in 1 .. n : F[<<a, i>>] = op(a, i)
  BY <1>2
<1> HIDE DEF F
<1>5. PICK g : IsFold(g, Scalars, 0, n, F)
  BY <1>1, <1>4, FoldExists
<1>6. Rec(g)
  <2>1. \A a \in Scalars, i \in 1 .. n : F[<<a, i>>] = op(a, i)
    BY <1>4
  <2>2. g \in [SUBSET (1 .. n) -> Scalars]
    BY <1>5 DEF IsFold
  <2>3. ASSUME NEW t \in SUBSET (1 .. n)
        PROVE  g[t] = IF t = {} THEN 0 ELSE op(g[t \ {Max(t)}], Max(t))
    <3>1. t # {} => Max(t) \in 1 .. n /\ t \ {Max(t)} \in SUBSET (1 .. n)
      BY <1>5 DEF IsFold
    <3>2. g[t] = IF t = {} THEN 0 ELSE F[<<g[t \ {Max(t)}], Max(t)>>]
      BY <1>5 DEF IsFold
    <3>3. t # {} => g[t \ {Max(t)}] \in Scalars
      BY <2>2, <3>1
    <3> QED
      BY <2>1, <3>1, <3>2, <3>3, Zenon
  <2> QED
    BY <2>2, <2>3
<1>7. Rec(iter)
  BY <1>6, Zenon
<1> HIDE DEF iter
<1>8. Unfolds(iter, Scalars, 0, n, F)
  <2>1. iter[{}] = 0
    BY <1>7
  <2>2. \A t \in SUBSET (1 .. n) :
           t # {} /\ Max(t) \in 1 .. n /\ iter[t \ {Max(t)}] \in Scalars
               => iter[t] = F[<<iter[t \ {Max(t)}], Max(t)>>]
    BY <1>4, <1>7
  <2> QED
    BY <2>1, <2>2, Zenon DEF Unfolds
<1> HIDE DEF Rec
<1>9. PICK acc : IsLoop(acc, iter, Scalars, 0, n, F)
  BY <1>1, <1>4, <1>8, FoldIsLoop
<1>10. /\ acc \in [0 .. n -> Scalars] /\ acc[0] = 0 /\ acc[n] = iter[1 .. n]
       /\ \A i \in 1 .. n : acc[i] = op(acc[i - 1], i)
  BY <1>4, <1>9 DEF IsLoop
<1>11. IsInterpolation(acc, list, n)
  BY <1>3, <1>10 DEF IsInterpolation, op
<1> QED
  BY <1>11 DEF n

\* Interpolation gives the value at 0 of a polynomial through all points.
IsInterpolant(g, list, m) ==
    /\ g \in Polynomials(m)
    /\ g[0] = Interpolate(list)
    /\ \A i \in 1 .. m + 1 : g[list[i].index] = list[i].value

\* Such a polynomial exists: after i turns of the loop it goes through the first i points
\* and is 0 at the others.
LEMMA InterpolantExists ==
    ASSUME NEW m \in Nat, NEW list, Distinct(list, m + 1)
    PROVE  \E g : IsInterpolant(g, list, m)
<1> DEFINE n == m + 1
           xs == Indices(list)
           v(i) == list[i].value
<1>1. PICK acc : IsInterpolation(acc, list, m + 1)
  BY InterpolateIsLoop
<1>2. /\ n \in Nat
      /\ acc[0] = 0
      /\ \A i \in 1 .. n : acc[i] = (acc[i - 1] + v(i) * LagrangeCoefficient(xs[i], xs)) % P
      /\ Interpolate(list) = acc[n]
  BY <1>1, IndicesType DEF IsInterpolation
<1>2a. \A i \in 0 .. n : acc[i] \in Scalars /\ acc[i] \in Int
  BY <1>1, ScalarsAreIntegers DEF IsInterpolation
<1>3. /\ xs \in [1 .. n -> Scalars]
      /\ \A i \in 1 .. n : xs[i] = list[i].index /\ xs[i] \in Scalars
      /\ \A i, j \in 1 .. n : xs[i] = xs[j] => i = j
  BY IndicesType
<1>4. \A i \in 1 .. n : v(i) \in Scalars /\ v(i) \in Int
  BY ShareType, ScalarsAreIntegers DEF Distinct
<1> HIDE DEF xs, v
<1>5. \A k \in 1 .. n : \E L : IsBasis(L, m, xs, k)
  BY <1>3, LagrangePolynomial
<1> HIDE DEF n
<1> DEFINE Through(g, i) == /\ g \in Polynomials(m)
                            /\ g[0] = acc[i]
                            /\ \A j \in 1 .. n : g[xs[j]] = IF j <= i THEN v(j) ELSE 0
           S == {i \in Nat : i <= n => \E g : Through(g, i)}
<1>6. 0 \in S
  <2>1. 1 \in 1 .. n
    BY DEF n
  <2>2. PICK L : IsBasis(L, m, xs, 1)
    BY <1>5, <2>1
  <2> DEFINE g == Combination(0, L, 0, L)
  <2>3. L \in Polynomials(m)
    BY <2>2 DEF IsBasis
  <2>4. g \in Polynomials(m)
    BY <2>3, ScalarsAreIntegers, CombinationOfPolynomials
  <2>5. \A z \in Scalars : g[z] = 0
    <3> SUFFICES ASSUME NEW z \in Scalars  PROVE g[z] = 0
      OBVIOUS
    <3> DEFINE y == L[z]
    <3>1. y \in Int
      BY <2>3, PolynomialValues
    <3>2. g[z] = (0 * y + 0 * y) % P
      BY DEF Combination
    <3> HIDE DEF y, g
    <3>3. 0 * y + 0 * y = 0 /\ 0 % P = 0
      BY <3>1, ScalarsAreIntegers
    <3> QED
      BY <3>2, <3>3
  <2> HIDE DEF g
  <2>6. Through(g, 0)
    BY <1>2, <1>3, <2>4, <2>5, ScalarsAreIntegers
  <2> HIDE DEF Through
  <2> QED
    BY <2>6
<1>7. \A i \in Nat : i \in S => i + 1 \in S
  <2> SUFFICES ASSUME NEW i \in Nat, i + 1 <= n, \E g : Through(g, i)
               PROVE  \E h : Through(h, i + 1)
    <3> HIDE DEF Through
    <3> QED
      BY <1>2
  <2> DEFINE k == i + 1
  <2>1. k \in 1 .. n /\ k - 1 = i /\ i \in 0 .. n
    BY <1>2
  <2>2. PICK g : Through(g, i)
    OBVIOUS
  <2> HIDE DEF k
  <2>3. PICK L : IsBasis(L, m, xs, k)
    BY <1>5, <2>1
  <2> DEFINE c == LagrangeCoefficient(xs[k], xs)
             h == Combination(1, g, v(k), L)
  <2>4. L \in Polynomials(m) /\ L[0] = c /\ \A j \in 1 .. n : L[xs[j]] = IF j = k THEN 1 ELSE 0
    BY <2>3 DEF IsBasis, n
  <2>5. g \in Polynomials(m) /\ g[0] = acc[i] /\ \A j \in 1 .. n : g[xs[j]] = IF j <= i THEN v(j) ELSE 0
    BY <2>2
  <2> HIDE DEF c, Through
  <2>6. v(k) \in Scalars /\ v(k) \in Int
    BY <1>4, <2>1
  <2>7. h \in Polynomials(m)
    BY <2>4, <2>5, <2>6, ScalarsAreIntegers, CombinationOfPolynomials
  <2>8. /\ \A z \in Scalars : L[z] \in Int /\ g[z] \in Int /\ g[z] \in Scalars
        /\ \A z \in Scalars : h[z] = (g[z] + v(k) * L[z]) % P
    <3>1. \A z \in Scalars : L[z] \in Int /\ g[z] \in Int /\ g[z] \in Scalars
      BY <2>4, <2>5, PolynomialValues
    <3>2. \A z \in Scalars : h[z] = (1 * g[z] + v(k) * L[z]) % P
      BY DEF Combination
    <3>3. \A z \in Scalars : 1 * g[z] + v(k) * L[z] = g[z] + v(k) * L[z]
      BY <2>6, <3>1
    <3> QED
      BY <3>1, <3>2, <3>3
  <2> HIDE DEF h
  <2>9. h[0] = acc[k]
    <3>1. acc[k] = (acc[i] + v(k) * c) % P
      BY <1>2, <2>1 DEF c
    <3> QED
      BY <2>4, <2>5, <2>8, <3>1, ScalarsAreIntegers
  <2>10. ASSUME NEW j \in 1 .. n  PROVE h[xs[j]] = IF j <= k THEN v(j) ELSE 0
    <3>1. xs[j] \in Scalars
      BY <1>3
    <3>2. h[xs[j]] = (g[xs[j]] + v(k) * L[xs[j]]) % P
      BY <2>8, <3>1
    <3>3. CASE j = k
      <4>1. g[xs[j]] = 0 /\ L[xs[j]] = 1
        BY <2>1, <2>4, <2>5, <3>3
      <4>2. 0 + v(k) * 1 = v(k) /\ v(k) % P = v(k)
        BY <2>6, ScalarsAreIntegers DEF Scalars
      <4> QED
        BY <2>1, <3>2, <3>3, <4>1, <4>2
    <3>4. CASE j # k
      <4> DEFINE y == g[xs[j]]
      <4>1. y \in Scalars /\ y \in Int /\ L[xs[j]] = 0
        BY <2>4, <2>8, <3>1, <3>4
      <4>2. h[xs[j]] = (y + v(k) * 0) % P
        BY <3>2, <4>1
      <4>3. y = IF j <= k THEN v(j) ELSE 0
        BY <2>1, <2>5, <3>4
      <4> HIDE DEF y
      <4>4. y + v(k) * 0 = y /\ y % P = y
        BY <2>6, <4>1, ScalarsAreIntegers DEF Scalars
      <4> QED
        BY <4>2, <4>3, <4>4
    <3> QED
      BY <3>3, <3>4
  <2>11. Through(h, k)
    BY <2>7, <2>9, <2>10 DEF Through
  <2> QED
    BY <2>11 DEF k
<1>8. \E g : Through(g, n)
  <2> HIDE DEF S
  <2>1. n \in S
    BY <1>2, <1>6, <1>7, NatInductionOnSets
  <2> HIDE DEF Through
  <2> QED
    BY <1>2, <2>1 DEF S
<1>9. PICK g : Through(g, n)
  BY <1>8
<1>10. \A j \in 1 .. n : g[list[j].index] = list[j].value
  BY <1>2, <1>3, <1>9 DEF v
<1>11. IsInterpolant(g, list, m)
  BY <1>2, <1>9, <1>10 DEF IsInterpolant, n
<1> QED
  BY <1>11

-----------------------------------------------------------------------------
(* What split deals *)

Dealing(s, t, coeffs) == [z \in Scalars |-> Evaluate(s, coeffs, z)]

LEMMA EvaluateAtZero ==
    ASSUME NEW m \in Nat, NEW w \in [1 .. m + 1 -> Scalars], NEW s \in Scalars
    PROVE  Evaluate(s, w, 0) = s
<1> DEFINE v == [i \in 1 .. m |-> w[i + 1]]
           y == Evaluate(w[1], v, 0)
<1>1. 0 \in Scalars /\ m + 1 \in Nat /\ v \in [1 .. m -> Scalars] /\ w[1] \in Scalars
  BY ScalarsAreIntegers
<1>2. Evaluate(s, w, 0) \cong (s + 0 * y)
  BY <1>1, EvaluateShift
<1>3. y \in Int /\ s \in Int /\ Evaluate(s, w, 0) \in Scalars
  <2> HIDE DEF v
  <2> QED
    BY <1>1, EvaluateType, ScalarsAreIntegers
<1> HIDE DEF y
<1>4. s + 0 * y = s
  BY <1>3
<1> QED
  BY <1>2, <1>3, <1>4, CongScalars

\* What split evaluates is a polynomial of degree threshold - 1 with the secret at 0.
LEMMA DealingIsPolynomial ==
    ASSUME NEW t \in 2 .. MaxParties, NEW s \in Scalars, NEW coeffs \in Coefficients(t)
    PROVE  Dealing(s, t, coeffs) \in Polynomials(t - 1) /\ Dealing(s, t, coeffs)[0] = s
<1> DEFINE m == t - 2
           f == Dealing(s, t, coeffs)
<1>1. m \in Nat /\ m + 1 = t - 1 /\ t - 1 \in Nat
  BY PartiesAssumption, PIsPositive
<1>2. coeffs \in [1 .. t - 1 -> Scalars]
  BY DEF Coefficients
<1>3. \A z \in Scalars : Evaluate(s, coeffs, z) \in Scalars
  BY <1>1, <1>2, EvaluateType
<1>4. f \in [Scalars -> Scalars] /\ \A z \in Scalars : f[z] = Evaluate(s, coeffs, z)
  BY <1>3 DEF Dealing
<1>5. f[0] = s
  <2> HIDE DEF m
  <2>1. coeffs \in [1 .. m + 1 -> Scalars]
    BY <1>1, <1>2
  <2>2. Evaluate(s, coeffs, 0) = s
    BY <1>1, <2>1, EvaluateAtZero
  <2> HIDE DEF f
  <2> QED
    BY <1>4, <2>2, ScalarsAreIntegers
<1> HIDE DEF f
<1>6. f \in Polynomials(t - 1)
  BY <1>2, <1>4 DEF Polynomials
<1> QED
  BY <1>5, <1>6 DEF f

LEMMA DealtSharesAreShares == DealtShare \subseteq Share
<1>1. 1 .. MaxParties \subseteq 0 .. MaxParties /\ 2 .. MaxParties \subseteq 0 .. MaxParties
  BY PartiesAssumption, PIsPositive
<1> QED
  BY <1>1 DEF DealtShare, Share

LEMMA DealType ==
    ASSUME NEW t \in 2 .. MaxParties, NEW n \in t .. MaxParties, NEW s \in Scalars,
           NEW coeffs \in Coefficients(t)
    PROVE  LET dealt == Deal(s, t, coeffs, n)
           IN  /\ dealt \in Seq(DealtShare)
               /\ DOMAIN dealt = 1 .. n
               /\ \A i \in 1 .. n : /\ i \in Scalars
                                    /\ dealt[i] \in DealtShare /\ dealt[i] \in Share
                                    /\ dealt[i].index = i
                                    /\ dealt[i].threshold = t
                                    /\ dealt[i].value = Dealing(s, t, coeffs)[i]
<1> DEFINE f == Dealing(s, t, coeffs)
           dealt == Deal(s, t, coeffs, n)
<1>0. MaxParties \in 2 .. P - 1 /\ P \in Nat
  BY PartiesAssumption, PIsPositive
<1>1. f \in [Scalars -> Scalars]
  BY DealingIsPolynomial, PolynomialValues
<1>2. \A i \in 1 .. n : i \in Scalars /\ i \in 1 .. MaxParties
  BY <1>0 DEF Scalars
<1>3. \A z \in Scalars : f[z] = Evaluate(s, coeffs, z)
  BY DEF Dealing
<1>4. dealt = [i \in 1 .. n |-> [index |-> i, threshold |-> t, value |-> f[i]]]
  BY <1>2, <1>3 DEF Deal
<1> HIDE DEF f, dealt
<1>5. \A i \in 1 .. n : [index |-> i, threshold |-> t, value |-> f[i]] \in DealtShare
  BY <1>1, <1>2 DEF DealtShare
<1>6. dealt \in [1 .. n -> DealtShare]
  BY <1>4, <1>5
<1>7. n \in Nat
  BY <1>0
<1>8. dealt \in Seq(DealtShare)
  BY <1>6, <1>7
<1>9. \A i \in 1 .. n : dealt[i] \in Share
  BY <1>6, DealtSharesAreShares
<1> QED
  BY <1>2, <1>4, <1>5, <1>8, <1>9 DEF f, dealt

-----------------------------------------------------------------------------
(* What reconstruct accepts *)

\* A list is refused unless it passes every check,
LEMMA RefusalNone ==
    ASSUME NEW list \in Seq(Share)
    PROVE  Refusal(list) = "None" <=> /\ list # <<>> /\ Len(list) = list[1].threshold
                                      /\ \A k \in DOMAIN list : ~ Bad(list, k)
  BY DEF Refusal

LEMMA RefusalType ==
    ASSUME NEW list
    PROVE  Refusal(list) \in Errors
  BY DEF Refusal, Errors

\* and a list that passes has as many different indices as its threshold says, none of them 0.
LEMMA AcceptedIsDistinct ==
    ASSUME NEW list \in Seq(Share), Refusal(list) = "None"
    PROVE  /\ Len(list) \in 1 .. MaxParties
           /\ Distinct(list, Len(list))
           /\ \A k \in 1 .. Len(list) : list[k].threshold = Len(list) /\ list[k].index # 0
<1> DEFINE n == Len(list)
<1>1. n \in Nat /\ DOMAIN list = 1 .. n /\ list \in [1 .. n -> Share] /\ (list # <<>> => n # 0)
  OBVIOUS
<1> HIDE DEF n
<1>2. list # <<>> /\ n = list[1].threshold /\ \A k \in 1 .. n : ~ Bad(list, k)
  BY <1>1, RefusalNone DEF n
<1>3. 1 \in 1 .. n /\ list[1] \in Share
  BY <1>1, <1>2
<1>4. n \in 1 .. MaxParties
  BY <1>1, <1>2, <1>3, ShareType
<1>5. \A k \in 1 .. n : list[k].threshold = n /\ list[k].index # 0
  BY <1>2 DEF Bad
<1>6. ASSUME NEW i \in 1 .. n, NEW j \in 1 .. n, list[i].index = list[j].index  PROVE i = j
  <2>1. ASSUME i < j  PROVE FALSE
    <3>1. i \in 1 .. j - 1
      BY <1>1, <2>1
    <3> QED
      BY <1>2, <1>6, <3>1 DEF Bad
  <2>2. ASSUME j < i  PROVE FALSE
    <3>1. j \in 1 .. i - 1
      BY <1>1, <2>2
    <3> QED
      BY <1>2, <1>6, <3>1 DEF Bad
  <2> QED
    BY <1>1, <2>1, <2>2
<1>7. Distinct(list, n)
  BY <1>1, <1>6 DEF Distinct
<1> QED
  BY <1>4, <1>5, <1>7 DEF n

LEMMA ReconstructType ==
    ASSUME NEW list \in Seq(Share)
    PROVE  Reconstruct(list).error \in Errors /\ Reconstruct(list).key \in Scalars
<1>1. CASE Refusal(list) # "None"
  BY <1>1, RefusalType, ScalarsAreIntegers DEF Reconstruct
<1>2. CASE Refusal(list) = "None"
  <2> DEFINE m == Len(list) - 1
  <2>1. m \in Nat /\ m + 1 = Len(list)
    BY <1>2, AcceptedIsDistinct, PartiesAssumption, PIsPositive
  <2> HIDE DEF m
  <2>2. Distinct(list, m + 1)
    BY <1>2, <2>1, AcceptedIsDistinct
  <2>3. PICK g : IsInterpolant(g, list, m)
    BY <2>1, <2>2, InterpolantExists
  <2>4. Interpolate(list) \in Scalars
    BY <2>3, PolynomialValues, ScalarsAreIntegers DEF IsInterpolant
  <2> QED
    BY <1>2, <2>4 DEF Reconstruct, Errors
<1> QED
  BY <1>1, <1>2

\* As many points of a polynomial as it has coefficients give its value at 0.
LEMMA InterpolationRecovers ==
    ASSUME NEW m \in Nat, NEW f \in Polynomials(m), NEW list, Distinct(list, m + 1),
           \A i \in 1 .. m + 1 : list[i].value = f[list[i].index]
    PROVE  Interpolate(list) = f[0]
<1> DEFINE xs == Indices(list)
<1>1. PICK g : IsInterpolant(g, list, m)
  BY InterpolantExists
<1>2. /\ xs \in [1 .. m + 1 -> Scalars]
      /\ \A i \in 1 .. m + 1 : xs[i] = list[i].index
      /\ \A i, j \in 1 .. m + 1 : xs[i] = xs[j] => i = j
  BY IndicesType
<1> HIDE DEF xs
<1>3. \A i \in 1 .. m + 1 : f[xs[i]] = g[xs[i]]
  BY <1>1, <1>2 DEF IsInterpolant
<1>4. f = g
  BY <1>1, <1>2, <1>3, PolynomialsAgree DEF IsInterpolant
<1> QED
  BY <1>1, <1>4 DEF IsInterpolant

\* One point off the polynomial gives another value at 0.
LEMMA InterpolationNotices ==
    ASSUME NEW m \in Nat, NEW f \in Polynomials(m), NEW list, Distinct(list, m + 1),
           NEW k \in 1 .. m + 1,
           \A i \in 1 .. m + 1 : list[i].index # 0,
           \A i \in 1 .. m + 1 : i # k => list[i].value = f[list[i].index],
           Interpolate(list) = f[0]
    PROVE  list[k].value = f[list[k].index]
<1> DEFINE xs == Indices(list)
           x == [i \in 1 .. m + 1 |-> IF i = k THEN 0 ELSE xs[i]]
<1>1. PICK g : IsInterpolant(g, list, m)
  BY InterpolantExists
<1>2. /\ xs \in [1 .. m + 1 -> Scalars]
      /\ \A i \in 1 .. m + 1 : xs[i] = list[i].index
      /\ \A i, j \in 1 .. m + 1 : xs[i] = xs[j] => i = j
  BY IndicesType
<1> HIDE DEF xs
<1>3. x \in [1 .. m + 1 -> Scalars] /\ \A i, j \in 1 .. m + 1 : x[i] = x[j] => i = j
  BY <1>2, ScalarsAreIntegers
<1>4. \A i \in 1 .. m + 1 : f[x[i]] = g[x[i]]
  BY <1>1, <1>2 DEF IsInterpolant
<1> HIDE DEF x
<1>5. f = g
  BY <1>1, <1>3, <1>4, PolynomialsAgree DEF IsInterpolant
<1> QED
  BY <1>1, <1>5 DEF IsInterpolant

-----------------------------------------------------------------------------
(* The inductive invariant *)

\* The shares are those of one split of the secret,
DealtWith(threshold, coeffs, n) ==
    /\ threshold \in 2 .. MaxParties /\ n \in threshold .. MaxParties
    /\ coeffs \in Coefficients(threshold)
    /\ shares = Deal(secret, threshold, coeffs, n)

SharesAreDealt == shares = <<>> \/ \E threshold, coeffs, n : DealtWith(threshold, coeffs, n)

\* of what was handed in at most one share, the k-th, is not one of them,
OnlyForged(k) ==
    \A j \in DOMAIN given :
        IF j = k THEN \E share \in ToSet(shares) : given[j] \in Forgeries(share) ELSE Genuine(j)

AtMostOneForged == \E k : OnlyForged(k)

\* and the answer is the one that reconstruct gives for it, checked by
\* reconstruct_and_verify against the secret.
AnswerIsTheResult ==
    /\ error = "None" => /\ Reconstruct(given).error = "None" /\ key = Reconstruct(given).key
                         /\ call = "reconstruct_and_verify" => key = secret
    /\ error # "None" => \/ Reconstruct(given).error # "None"
                         \/ call = "reconstruct_and_verify" /\ Reconstruct(given).key # secret

ShamirInv ==
    /\ TypeOK
    /\ SharesAreDealt
    /\ Called => AtMostOneForged /\ AnswerIsTheResult

LEMMA DealtShares ==
    ASSUME TypeOK, NEW t, NEW coeffs, NEW n, DealtWith(t, coeffs, n)
    PROVE  LET f == Dealing(secret, t, coeffs)
           IN  /\ t \in 2 .. MaxParties /\ n \in t .. MaxParties /\ coeffs \in Coefficients(t)
               /\ secret \in Scalars /\ secret # 0
               /\ f \in Polynomials(t - 1) /\ f[0] = secret
               /\ DOMAIN shares = 1 .. n
               /\ \A i \in 1 .. n : /\ i \in Scalars /\ shares[i] \in Share
                                    /\ shares[i].index = i
                                    /\ shares[i].threshold = t
                                    /\ shares[i].value = f[i]
<1>1. /\ t \in 2 .. MaxParties /\ n \in t .. MaxParties /\ coeffs \in Coefficients(t)
      /\ secret \in Scalars /\ secret # 0
      /\ shares = Deal(secret, t, coeffs, n)
  BY PIsPositive DEF DealtWith, TypeOK, Scalars
<1> DEFINE f == Dealing(secret, t, coeffs)
<1>2. f \in Polynomials(t - 1) /\ f[0] = secret
  BY <1>1, DealingIsPolynomial
<1>3. /\ DOMAIN shares = 1 .. n
      /\ \A i \in 1 .. n : /\ i \in Scalars /\ shares[i] \in Share
                           /\ shares[i].index = i
                           /\ shares[i].threshold = t
                           /\ shares[i].value = f[i]
  BY <1>1, DealType
<1> HIDE DEF f
<1>4. /\ t \in 2 .. MaxParties /\ n \in t .. MaxParties /\ coeffs \in Coefficients(t)
      /\ secret \in Scalars /\ secret # 0
      /\ f \in Polynomials(t - 1) /\ f[0] = secret
      /\ DOMAIN shares = 1 .. n
      /\ \A i \in 1 .. n : /\ i \in Scalars /\ shares[i] \in Share
                           /\ shares[i].index = i
                           /\ shares[i].threshold = t
                           /\ shares[i].value = f[i]
  BY <1>1, <1>2, <1>3
<1> QED
  BY <1>4 DEF f

\* A genuine share is a point of the split's polynomial, and there is one with each index.
LEMMA GenuineShare ==
    ASSUME TypeOK, NEW t, NEW coeffs, NEW n, DealtWith(t, coeffs, n), NEW share \in ToSet(shares)
    PROVE  /\ share \in Share
           /\ share.index \in 1 .. n /\ share = shares[share.index]
           /\ share.threshold = t
           /\ share.value = Dealing(secret, t, coeffs)[share.index]
<1>1. /\ DOMAIN shares = 1 .. n
      /\ \A i \in 1 .. n : /\ shares[i] \in Share
                           /\ shares[i].index = i
                           /\ shares[i].threshold = t
                           /\ shares[i].value = Dealing(secret, t, coeffs)[i]
  BY DealtShares
<1>2. PICK i \in 1 .. n : share = shares[i]
  BY <1>1 DEF ToSet
<1> QED
  BY <1>1, <1>2

\* A forgery changes one field of a share.
LEMMA ForgeryType ==
    ASSUME NEW share \in Share, NEW forged \in Forgeries(share)
    PROVE  /\ forged \in Share
           /\ \/ forged.value = share.value /\ forged.index = share.index
              \/ forged.threshold = share.threshold
<1>1. CASE \E v \in Scalars : forged = [share EXCEPT !.value = v]
  BY <1>1 DEF Share
<1>2. CASE \E i \in 0 .. MaxParties : forged = [share EXCEPT !.index = i]
  BY <1>2 DEF Share
<1>3. CASE \E t \in 0 .. MaxParties : forged = [share EXCEPT !.threshold = t]
  BY <1>3 DEF Share
<1> QED
  BY <1>1, <1>2, <1>3 DEF Forgeries

LEMMA ListType ==
    ASSUME TypeOK, NEW list \in Lists
    PROVE  /\ list \in Seq(Share)
           /\ \A j \in DOMAIN list : list[j] \in ToSet(shares) /\ list[j] \in Share
<1>1. PICK m \in 0 .. MaxParties : list \in [1 .. m -> ToSet(shares)]
  BY DEF Lists
<1>2. ToSet(shares) \subseteq Share
  BY DealtSharesAreShares DEF TypeOK, ToSet
<1>3. list \in [1 .. m -> Share]
  BY <1>1, <1>2
<1> QED
  BY <1>1, <1>2, <1>3

LEMMA InitInv == Init => ShamirInv
<1> SUFFICES ASSUME Init  PROVE ShamirInv
  OBVIOUS
<1>1. TypeOK
  BY ScalarsAreIntegers DEF Init, TypeOK, Errors
<1>2. SharesAreDealt /\ ~ Called
  BY DEF Init, SharesAreDealt, Called
<1> QED
  BY <1>1, <1>2 DEF ShamirInv

\* split keeps the invariant,
LEMMA SplitInv ==
    ASSUME ShamirInv, NEW threshold \in 0 .. MaxParties, NEW n \in 0 .. MaxParties, Split(threshold, n)
    PROVE  ShamirInv'
<1>1. TypeOK /\ SharesAreDealt /\ call' = "split" /\ UNCHANGED <<secret, given, key>>
  BY DEF ShamirInv, Split
<1>2. ~ Called'
  BY <1>1 DEF Called
<1>3. CASE UNCHANGED shares /\ error' \in Errors
  <2>1. TypeOK'
    BY <1>1, <1>3 DEF TypeOK
  <2>2. SharesAreDealt'
    BY <1>1, <1>3 DEF SharesAreDealt, DealtWith
  <2> QED
    BY <1>2, <2>1, <2>2 DEF ShamirInv
<1>4. CASE /\ threshold >= 2 /\ threshold <= n
           /\ \E coeffs \in Coefficients(threshold) : shares' = Deal(secret, threshold, coeffs, n)
           /\ UNCHANGED error
  <2>1. PICK coeffs \in Coefficients(threshold) : shares' = Deal(secret, threshold, coeffs, n)
    BY <1>4
  <2>2. threshold \in 2 .. MaxParties /\ n \in threshold .. MaxParties /\ secret \in Scalars
    BY <1>1, <1>4, PartiesAssumption, PIsPositive DEF TypeOK, Scalars
  <2>3. shares' \in Seq(DealtShare)
    BY <2>1, <2>2, DealType
  <2>4. TypeOK'
    BY <1>1, <1>4, <2>3 DEF TypeOK
  <2>5. DealtWith(threshold, coeffs, n)'
    BY <1>1, <2>1, <2>2 DEF DealtWith
  <2> QED
    BY <1>2, <2>4, <2>5 DEF ShamirInv, SharesAreDealt
<1> QED
  BY <1>3, <1>4 DEF Split, Errors

\* What both calls of reconstruct do with a list of shares
LEMMA ReturnInv ==
    ASSUME ShamirInv, NEW list \in Seq(Share), NEW name, NEW k,
           \A j \in DOMAIN list :
               IF j = k THEN \E share \in ToSet(shares) : list[j] \in Forgeries(share)
               ELSE list[j] \in ToSet(shares),
           NEW result,
           \/ name = "reconstruct_unverified" /\ result = Reconstruct(list)
           \/ /\ name = "reconstruct_and_verify"
              /\ result = IF Reconstruct(list).error = "None" /\ Reconstruct(list).key # secret
                          THEN [Reconstruct(list) EXCEPT !.error = "ReconstructionMismatch"]
                          ELSE Reconstruct(list),
           Return(name, list, result)
    PROVE  ShamirInv'
<1> DEFINE honest == Reconstruct(list)
<1>1. honest.error \in Errors /\ honest.key \in Scalars
  BY ReconstructType
<1>2. /\ TypeOK /\ SharesAreDealt
      /\ call' = name /\ given' = list /\ error' = result.error
      /\ key' = IF result.error = "None" THEN result.key ELSE 0
      /\ UNCHANGED <<secret, shares>>
  BY DEF ShamirInv, Return
<1>2a. honest = [error |-> honest.error, key |-> honest.key]
  BY DEF Reconstruct
<1> HIDE DEF honest
<1>3. /\ result.error \in Errors /\ result.key = honest.key
      /\ name \in {"reconstruct_and_verify", "reconstruct_unverified"}
      /\ result.error = "None" =>
             honest.error = "None" /\ (name = "reconstruct_and_verify" => result.key = secret)
      /\ result.error # "None" =>
             honest.error # "None" \/ (name = "reconstruct_and_verify" /\ honest.key # secret)
  <2>1. CASE name = "reconstruct_unverified" /\ result = honest
    BY <1>1, <2>1
  <2>2. CASE /\ name = "reconstruct_and_verify" /\ honest.error = "None" /\ honest.key # secret
             /\ result = [honest EXCEPT !.error = "ReconstructionMismatch"]
    <3>1. result.error = "ReconstructionMismatch" /\ result.key = honest.key
      BY <1>2a, <2>2
    <3> QED
      BY <1>1, <2>2, <3>1 DEF Errors
  <2>3. CASE /\ name = "reconstruct_and_verify" /\ ~ (honest.error = "None" /\ honest.key # secret)
             /\ result = honest
    BY <1>1, <2>3
  <2> QED
    BY <2>1, <2>2, <2>3 DEF honest
<1>4. TypeOK'
  BY <1>1, <1>2, <1>3, ScalarsAreIntegers DEF TypeOK
<1>5. SharesAreDealt'
  BY <1>2 DEF SharesAreDealt, DealtWith
<1>6. AtMostOneForged'
  <2>1. OnlyForged(k)'
    BY <1>2 DEF OnlyForged, Genuine
  <2> QED
    BY <2>1 DEF AtMostOneForged
<1>7. AnswerIsTheResult'
  BY <1>2, <1>3 DEF AnswerIsTheResult, honest
<1> QED
  BY <1>4, <1>5, <1>6, <1>7 DEF ShamirInv

LEMMA ReconstructInv ==
    ASSUME ShamirInv, NEW list \in Seq(Share), NEW k,
           \A j \in DOMAIN list :
               IF j = k THEN \E share \in ToSet(shares) : list[j] \in Forgeries(share)
               ELSE list[j] \in ToSet(shares),
           ReconstructUnverified(list) \/ ReconstructAndVerify(list)
    PROVE  ShamirInv'
<1>1. CASE ReconstructUnverified(list)
  <2> DEFINE result == Reconstruct(list)
  <2>1. Return("reconstruct_unverified", list, result)
    BY <1>1 DEF ReconstructUnverified
  <2> HIDE DEF result
  <2>2. result = Reconstruct(list)
    BY DEF result
  <2> QED
    BY <2>1, <2>2, ReturnInv
<1>2. CASE ReconstructAndVerify(list)
  <2> DEFINE result == IF Reconstruct(list).error = "None" /\ Reconstruct(list).key # secret
                       THEN [Reconstruct(list) EXCEPT !.error = "ReconstructionMismatch"]
                       ELSE Reconstruct(list)
  <2>1. Return("reconstruct_and_verify", list, result)
    BY <1>2 DEF ReconstructAndVerify
  <2>2. result = IF Reconstruct(list).error = "None" /\ Reconstruct(list).key # secret
                 THEN [Reconstruct(list) EXCEPT !.error = "ReconstructionMismatch"]
                 ELSE Reconstruct(list)
    OBVIOUS
  <2> HIDE DEF result
  <2> QED
    BY <2>1, <2>2, ReturnInv
<1> QED
  BY <1>1, <1>2

\* Every step of Shamir keeps it.
LEMMA NextInv == ShamirInv /\ [Next]_vars => ShamirInv'
<1> SUFFICES ASSUME ShamirInv, [Next]_vars  PROVE ShamirInv'
  OBVIOUS
<1>0. TypeOK
  BY DEF ShamirInv
<1>1. CASE \E threshold, n \in 0 .. MaxParties : Split(threshold, n)
  BY <1>1, SplitInv
<1>2. ASSUME NEW list \in Lists, ReconstructUnverified(list) \/ ReconstructAndVerify(list)
      PROVE  ShamirInv'
  <2>1. list \in Seq(Share) /\ \A j \in DOMAIN list : j # 0 /\ list[j] \in ToSet(shares)
    BY <1>0, ListType
  <2> QED
    BY <1>2, <2>1, ReconstructInv
<1>3. ASSUME NEW list \in Lists, NEW k \in DOMAIN list, NEW forged \in Forgeries(list[k]),
             \/ ReconstructUnverified([list EXCEPT ![k] = forged])
             \/ ReconstructAndVerify([list EXCEPT ![k] = forged])
      PROVE  ShamirInv'
  <2> DEFINE tampered == [list EXCEPT ![k] = forged]
  <2>1. list \in Seq(Share) /\ \A j \in DOMAIN list : list[j] \in ToSet(shares) /\ list[j] \in Share
    BY <1>0, ListType
  <2>2. forged \in Share
    BY <2>1, ForgeryType
  <2>3. tampered \in Seq(Share) /\ DOMAIN tampered = DOMAIN list
    BY <2>1, <2>2
  <2>4. \A j \in DOMAIN tampered :
            IF j = k THEN \E share \in ToSet(shares) : tampered[j] \in Forgeries(share)
            ELSE tampered[j] \in ToSet(shares)
    BY <2>1, <2>3
  <2>5. ReconstructUnverified(tampered) \/ ReconstructAndVerify(tampered)
    BY <1>3
  <2> HIDE DEF tampered
  <2> QED
    BY <2>3, <2>4, <2>5, ReconstructInv
<1>4. CASE UNCHANGED vars
  BY <1>4 DEF ShamirInv, TypeOK, SharesAreDealt, DealtWith, Called, AtMostOneForged, OnlyForged, Genuine,
              AnswerIsTheResult, vars
<1> QED
  BY <1>1, <1>2, <1>3, <1>4 DEF Next

-----------------------------------------------------------------------------
(* What the invariant implies *)

\* The value at 0 of the one polynomial through a quorum is the secret; any other list of
\* genuine shares fails a check.
LEMMA QuorumAnswers ==
    ASSUME ShamirInv, Called, \A k \in DOMAIN given : Genuine(k)
    PROVE  IF Quorum THEN error = "None" /\ key = secret ELSE error # "None"
<1>0. TypeOK /\ SharesAreDealt /\ AnswerIsTheResult /\ given \in Seq(Share)
  BY DEF ShamirInv, TypeOK
<1>1. ASSUME Quorum
      PROVE  Reconstruct(given) = [error |-> "None", key |-> secret]
  <2>1. /\ given # <<>> /\ Len(given) = given[1].threshold
        /\ \A i, j \in DOMAIN given : given[i] = given[j] => i = j
    BY <1>1 DEF Quorum, IsInjective
  <2>2. 1 \in DOMAIN given /\ given[1] \in ToSet(shares)
    BY <1>0, <2>1 DEF Genuine
  <2>3. shares # <<>>
    BY <2>2 DEF ToSet
  <2>4. PICK t, coeffs, n : DealtWith(t, coeffs, n)
    BY <1>0, <2>3 DEF SharesAreDealt
  <2> DEFINE f == Dealing(secret, t, coeffs)
             m == t - 1
  <2>5. f \in Polynomials(m) /\ f[0] = secret /\ secret # 0 /\ t \in 2 .. MaxParties
    BY <1>0, <2>4, DealtShares
  <2>6. \A k \in DOMAIN given : /\ given[k] \in Share
                               /\ given[k].index \in 1 .. n /\ given[k] = shares[given[k].index]
                               /\ given[k].threshold = t
                               /\ given[k].value = f[given[k].index]
    BY <1>0, <2>4, GenuineShare DEF Genuine
  <2> HIDE DEF f, m
  <2>7. m \in Nat /\ m + 1 = t /\ Len(given) = m + 1 /\ DOMAIN given = 1 .. m + 1
    <3>1. Len(given) = t
      BY <2>1, <2>2, <2>6
    <3> QED
      BY <1>0, <2>5, <3>1, PartiesAssumption, PIsPositive DEF m
  <2>8. Distinct(given, m + 1)
    <3>1. given \in [1 .. m + 1 -> Share]
      BY <1>0, <2>7
    <3>2. ASSUME NEW i \in 1 .. m + 1, NEW j \in 1 .. m + 1, given[i].index = given[j].index
          PROVE  i = j
      BY <2>1, <2>6, <2>7, <3>2
    <3> QED
      BY <3>1, <3>2 DEF Distinct
  <2>9. Interpolate(given) = secret
    <3>1. Interpolate(given) = f[0]
      BY <2>5, <2>6, <2>7, <2>8, InterpolationRecovers
    <3> QED
      BY <2>5, <3>1
  <2>10. Refusal(given) = "None"
    <3>1. \A k \in DOMAIN given : ~ Bad(given, k)
      <4> SUFFICES ASSUME NEW k \in DOMAIN given  PROVE ~ Bad(given, k)
        OBVIOUS
      <4>1. given[k].threshold = given[1].threshold /\ given[k].index # 0
        BY <2>2, <2>6
      <4>2. \A j \in 1 .. k - 1 : j \in 1 .. m + 1 /\ j # k
        BY <2>7
      <4>3. \A j \in 1 .. k - 1 : given[j].index # given[k].index
        BY <2>7, <2>8, <4>2 DEF Distinct
      <4> QED
        BY <4>1, <4>3 DEF Bad
    <3> QED
      BY <1>0, <2>1, <3>1, RefusalNone
  <2> QED
    BY <2>5, <2>9, <2>10 DEF Reconstruct
<1>2. ASSUME Reconstruct(given).error = "None"
      PROVE  Quorum
  <2>1. Refusal(given) = "None"
    BY <1>2 DEF Reconstruct
  <2>2. /\ Distinct(given, Len(given))
        /\ given # <<>> /\ Len(given) = given[1].threshold
        /\ DOMAIN given = 1 .. Len(given)
    BY <1>0, <2>1, AcceptedIsDistinct, RefusalNone
  <2>3. IsInjective(given)
    BY <2>2 DEF IsInjective, Distinct
  <2> QED
    BY <2>2, <2>3 DEF Quorum
<1> QED
  BY <1>0, <1>1, <1>2 DEF AnswerIsTheResult

\* The untouched shares and the secret at 0 are already as many points as the polynomial has
\* coefficients.
LEMMA ForgeryIsNoticed ==
    ASSUME ShamirInv, call = "reconstruct_and_verify", error = "None",
           NEW k \in DOMAIN given, NEW j \in DOMAIN shares, given[k].index = shares[j].index
    PROVE  given[k].value = shares[j].value
<1>0. TypeOK /\ SharesAreDealt /\ AtMostOneForged /\ AnswerIsTheResult /\ given \in Seq(Share)
  BY DEF ShamirInv, TypeOK, Called
<1>1. shares # <<>>
  OBVIOUS
<1>2. PICK t, coeffs, n : DealtWith(t, coeffs, n)
  BY <1>0, <1>1 DEF SharesAreDealt
<1> DEFINE f == Dealing(secret, t, coeffs)
           m == Len(given) - 1
<1>3. /\ f \in Polynomials(t - 1) /\ f[0] = secret
      /\ shares[j].index = j /\ shares[j].value = f[j]
      /\ \A share \in ToSet(shares) : /\ share \in Share
                                      /\ share.threshold = t
                                      /\ share.value = f[share.index]
  BY <1>0, <1>2, DealtShares, GenuineShare
<1>4. PICK l : OnlyForged(l)
  BY <1>0 DEF AtMostOneForged
<1> HIDE DEF f
<1>5. /\ Reconstruct(given).error = "None" /\ Reconstruct(given).key = secret
  BY <1>0 DEF AnswerIsTheResult
<1>6. Refusal(given) = "None" /\ Interpolate(given) = secret
  BY <1>5 DEF Reconstruct
<1>7. /\ Len(given) \in 1 .. MaxParties
      /\ Distinct(given, Len(given))
      /\ \A i \in 1 .. Len(given) : given[i].threshold = Len(given) /\ given[i].index # 0
  BY <1>0, <1>6, AcceptedIsDistinct
<1>8. m \in Nat /\ m + 1 = Len(given) /\ DOMAIN given = 1 .. m + 1
  BY <1>0, <1>7, PartiesAssumption, PIsPositive
<1> HIDE DEF m
<1>9. \A i \in 1 .. m + 1 : i # l => given[i].value = f[given[i].index] /\ given[i].threshold = t
  BY <1>3, <1>4, <1>8 DEF OnlyForged, Genuine
<1>10. CASE k # l
  BY <1>3, <1>8, <1>9, <1>10
<1>11. CASE k = l
  <2>1. PICK share \in ToSet(shares) : given[k] \in Forgeries(share)
    BY <1>4, <1>11 DEF OnlyForged
  <2>2. /\ share.threshold = t /\ share.value = f[share.index]
        /\ \/ given[k].value = share.value /\ given[k].index = share.index
           \/ given[k].threshold = share.threshold
    BY <1>3, <2>1, ForgeryType
  <2>3. CASE given[k].value = share.value /\ given[k].index = share.index
    BY <1>3, <2>2, <2>3
  <2>4. CASE given[k].threshold = share.threshold
    <3>1. m = t - 1
      <4>1. given[k].threshold = m + 1
        BY <1>7, <1>8
      <4> QED
        BY <1>8, <2>2, <2>4, <4>1
    <3>2. /\ f \in Polynomials(m) /\ Distinct(given, m + 1) /\ k \in 1 .. m + 1
          /\ Interpolate(given) = f[0]
          /\ \A i \in 1 .. m + 1 : given[i].index # 0
          /\ \A i \in 1 .. m + 1 : i # k => given[i].value = f[given[i].index]
      BY <1>3, <1>6, <1>7, <1>8, <1>9, <1>11, <3>1
    <3>3. given[k].value = f[given[k].index]
      BY <1>8, <3>2, InterpolationNotices
    <3> QED
      BY <1>3, <3>3
  <2> QED
    BY <2>2, <2>3, <2>4
<1> QED
  BY <1>10, <1>11

\* Whatever threshold - 1 shares somebody has seen, every secret has a dealing with them.
LEMMA EverySecretIsPossible ==
    ASSUME ShamirInv, NEW t, NEW coeffs, NEW n, DealtWith(t, coeffs, n),
           NEW seen \in SUBSET (1 .. n), Cardinality(seen) = t - 1, NEW s \in Scalars
    PROVE  \E other \in Coefficients(t) : \A i \in seen : Evaluate(s, other, i) = shares[i].value
<1> DEFINE m == t - 1
<1>1. /\ TypeOK /\ t \in 2 .. MaxParties /\ n \in t .. MaxParties
      /\ \A i \in 1 .. n : /\ i \in Scalars /\ shares[i] \in Share
                           /\ shares[i].index = i
                           /\ shares[i].threshold = t
  BY DealtShares DEF ShamirInv
<1>2. m \in Nat /\ m + 1 = t /\ n \in Nat
  BY <1>1, PartiesAssumption, PIsPositive
<1>3. PICK e : e \in Bijection(1 .. m, seen)
  <2>1. IsFiniteSet(seen)
    <3> DEFINE one == 1
    <3>1. one \in Int /\ n \in Int
      BY <1>2
    <3> HIDE DEF one
    <3>2. IsFiniteSet(one .. n)
      BY <3>1, FS_Interval
    <3> QED
      BY <3>2, FS_Subset DEF one
  <2>2. ExistsBijection(1 .. m, seen)
    BY <2>1, FS_CardinalityType
  <2> QED
    BY <2>2 DEF ExistsBijection
<1>4. /\ e \in [1 .. m -> seen]
      /\ \A i, j \in 1 .. m : e[i] = e[j] => i = j
      /\ \A x \in seen : \E i \in 1 .. m : e[i] = x
  BY <1>3 DEF Bijection, Injection, Surjection, IsInjective
<1> HIDE DEF m
<1> DEFINE origin == [index |-> 0, threshold |-> t, value |-> s]
           list == [i \in 1 .. m + 1 |-> IF i = m + 1 THEN origin ELSE shares[e[i]]]
<1>5. origin \in Share /\ origin.index = 0 /\ origin.value = s
  BY <1>1, PartiesAssumption, PIsPositive DEF Share
<1> HIDE DEF origin
<1>6. ASSUME NEW i \in 1 .. m
      PROVE  /\ i \in 1 .. m + 1 /\ i # m + 1
             /\ e[i] \in 1 .. n /\ list[i] = shares[e[i]] /\ list[i] \in Share /\ list[i].index = e[i]
  <2>1. i \in 1 .. m + 1 /\ i # m + 1
    BY <1>2
  <2>2. e[i] \in 1 .. n
    BY <1>4
  <2>3. list[i] = shares[e[i]]
    BY <2>1
  <2> HIDE DEF list
  <2> QED
    BY <1>1, <2>1, <2>2, <2>3
<1>7. m + 1 \in 1 .. m + 1 /\ list[m + 1] = origin /\ \A i \in 1 .. m + 1 : i = m + 1 \/ i \in 1 .. m
  BY <1>2
<1>7a. list \in [1 .. m + 1 -> Share]
  <2>1. \A i \in 1 .. m + 1 : list[i] \in Share
    <3> HIDE DEF list
    <3> QED
      BY <1>5, <1>6, <1>7
  <2> QED
    BY <2>1
<1> HIDE DEF list
<1>8. Distinct(list, m + 1)
  <2>1. ASSUME NEW i \in 1 .. m + 1, NEW j \in 1 .. m + 1, list[i].index = list[j].index
        PROVE  i = j
    BY <1>4, <1>5, <1>6, <1>7, <2>1
  <2> QED
    BY <1>7a, <2>1 DEF Distinct
<1>9. PICK g : IsInterpolant(g, list, m)
  BY <1>2, <1>8, InterpolantExists
<1>10. g[0] = s
  BY <1>5, <1>7, <1>9 DEF IsInterpolant
<1>11. PICK c \in Scalars, other \in [1 .. m -> Scalars] : \A z \in Scalars : g[z] = Evaluate(c, other, z)
  BY <1>9 DEF IsInterpolant, Polynomials
<1>12. other \in Coefficients(t)
  BY <1>11 DEF Coefficients, m
<1>13. c = s
  <2>1. Dealing(c, t, other)[0] = c
    BY <1>1, <1>12, DealingIsPolynomial
  <2>2. Evaluate(c, other, 0) = c
    BY <2>1, ScalarsAreIntegers DEF Dealing
  <2> QED
    BY <1>10, <1>11, <2>2, ScalarsAreIntegers
<1>14. ASSUME NEW x \in seen  PROVE Evaluate(s, other, x) = shares[x].value
  <2>1. PICK i \in 1 .. m : e[i] = x
    BY <1>4
  <2>2. g[x] = shares[x].value
    BY <1>6, <1>9, <2>1 DEF IsInterpolant
  <2>3. x \in Scalars
    BY <1>1
  <2> QED
    BY <1>11, <1>13, <2>2, <2>3
<1> QED
  BY <1>12, <1>14

LEMMA NothingIsRevealed == ShamirInv => BelowThresholdRevealsNothing
<1> SUFFICES ASSUME ShamirInv, call = "split", shares # <<>>,
                    NEW seen \in kSubset(shares[1].threshold - 1, DOMAIN shares), NEW s \in Scalars
             PROVE  \E other \in Coefficients(shares[1].threshold) :
                        \A i \in seen : Evaluate(s, other, i) = shares[i].value
  BY DEF BelowThresholdRevealsNothing
<1>1. PICK t, coeffs, n : DealtWith(t, coeffs, n)
  BY DEF ShamirInv, SharesAreDealt
<1>2. /\ t \in 2 .. MaxParties /\ n \in t .. MaxParties /\ DOMAIN shares = 1 .. n
      /\ \A i \in 1 .. n : shares[i].threshold = t
  BY <1>1, DealtShares DEF ShamirInv
<1>3. shares[1].threshold = t
  <2>1. 1 \in 1 .. n
    BY <1>2, PartiesAssumption, PIsPositive
  <2> QED
    BY <1>2, <2>1
<1>4. seen \in SUBSET (1 .. n) /\ Cardinality(seen) = t - 1
  BY <1>2, <1>3 DEF kSubset
<1> QED
  BY <1>1, <1>3, <1>4, EverySecretIsPossible

-----------------------------------------------------------------------------
(* The ceremony *)

CeremonyInv ==
    /\ ShamirInv
    /\ CeremonyTypeOK
    /\ SenderIsTheWallet
    /\ SelfCheckNeverFails

LEMMA CeremonyInitInv == CeremonyInit => CeremonyInv
<1> SUFFICES ASSUME CeremonyInit  PROVE CeremonyInv
  OBVIOUS
<1>1. ShamirInv
  BY InitInv DEF CeremonyInit
<1>2. CeremonyTypeOK
  BY <1>1, ScalarsAreIntegers DEF CeremonyInit, CeremonyTypeOK, ShamirInv, NoSignature, Outcomes
<1> QED
  BY <1>1, <1>2 DEF CeremonyInit, CeremonyInv, SenderIsTheWallet, SelfCheckNeverFails

\* A signature is made with the wallet's key, so that its own check passes and the network
\* recovers the wallet.
LEMMA SignInv ==
    ASSUME CeremonyInv, NEW z \in Scalars, NEW k \in Nonces(key, z), SignAndEncode(z, k)
    PROVE  CeremonyInv'
<1>1. /\ ShamirInv /\ TypeOK /\ UNCHANGED vars /\ digest' = z
      /\ call = "reconstruct_and_verify" /\ error = "None"
  BY DEF CeremonyInv, ShamirInv, SignAndEncode
<1>2. ShamirInv'
  BY <1>1, NextInv
<1>3. key = secret /\ secret \in 1 .. P - 1
  BY <1>1 DEF ShamirInv, Called, AnswerIsTheResult, TypeOK
<1> DEFINE sig == SignPrehashRecoverable(secret, z, k)
           made == [y_odd |-> sig.y_odd, r |-> sig.r, s |-> sig.s]
<1>4. /\ sig.r \in Scalars /\ sig.s \in Scalars /\ sig.y_odd \in BOOLEAN
      /\ Verifies(secret, z, sig)
  BY <1>3, SignatureVerifies
<1>5. ~ sig.x_reduced => RecoveredFrom(z, made) = secret
  <2>1. k \in Nonces(secret, z)
    BY <1>3
  <2> DEFINE d == secret
  <2>2. d \in 1 .. P - 1 /\ k \in Nonces(d, z)
    BY <1>3
  <2> QED
    BY <1>3, <2>1, SenderIsRecovered
<1> HIDE DEF sig
<1>6. \/ outcome' = "UnrepresentableRecoveryId" /\ UNCHANGED signature
      \/ ~ sig.x_reduced /\ outcome' = "signed" /\ signature' = made
  BY <1>1, <1>3, <1>4 DEF SignAndEncode, Finish, sig
<1>7. made \in [y_odd : BOOLEAN, r : Scalars, s : Scalars]
  BY <1>4
<1>8. CeremonyTypeOK'
  BY <1>1, <1>2, <1>6, <1>7 DEF CeremonyInv, CeremonyTypeOK, ShamirInv, Outcomes
<1>9. secret' = secret
  BY <1>1 DEF vars
<1> HIDE DEF made
<1>10. SenderIsTheWallet'
  BY <1>1, <1>5, <1>6, <1>9 DEF SenderIsTheWallet
<1>11. SelfCheckNeverFails'
  BY <1>6 DEF SelfCheckNeverFails
<1> QED
  BY <1>2, <1>8, <1>10, <1>11 DEF CeremonyInv

LEMMA CeremonyNextInv == CeremonyInv /\ [CeremonyNext]_ceremonyVars => CeremonyInv'
<1> SUFFICES ASSUME CeremonyInv, [CeremonyNext]_ceremonyVars  PROVE CeremonyInv'
  OBVIOUS
<1>1. CASE \E z \in Scalars : \E k \in Nonces(key, z) : SignAndEncode(z, k)
  BY <1>1, SignInv
<1>2. CASE [Next]_vars /\ UNCHANGED <<digest, outcome, signature>>
  <2>1. ShamirInv'
    BY <1>2, NextInv DEF CeremonyInv
  <2>2. secret' = secret
    <3>1. \A threshold, n : Split(threshold, n) => secret' = secret
      BY DEF Split
    <3>2. \A list : ReconstructUnverified(list) \/ ReconstructAndVerify(list) => secret' = secret
      BY DEF ReconstructUnverified, ReconstructAndVerify, Return
    <3> QED
      BY <1>2, <3>1, <3>2 DEF Next, vars
  <2> QED
    BY <1>2, <2>1, <2>2
       DEF CeremonyInv, ShamirInv, CeremonyTypeOK, SenderIsTheWallet, SelfCheckNeverFails
<1> QED
  BY <1>1, <1>2 DEF CeremonyNext, ceremonyVars

\* The invariant of the ceremony is inductive.
LEMMA CeremonyInvariant == CeremonySpec => []CeremonyInv
  BY CeremonyInitInv, CeremonyNextInv, PTL DEF CeremonySpec

\* Every variable has its type: what the two loops return is always a scalar, since no
\* coefficient divides by zero once duplicate indices are refused (shamir.rs:158-195).
THEOREM CeremonyTypes == CeremonySpec => []CeremonyTypeOK
<1>1. CeremonyInv => CeremonyTypeOK
  BY DEF CeremonyInv
<1> QED
  BY <1>1, CeremonyInvariant, PTL

\* For every prime, threshold, number of parties and polynomial: exactly a quorum of different
\* genuine shares gives the key, and anything else is refused (shamir.rs:116-145, 158-195).
THEOREM SharesReconstruct == CeremonySpec => []QuorumsAndOnlyQuorumsReconstruct
<1>1. CeremonyInv => QuorumsAndOnlyQuorumsReconstruct
  BY QuorumAnswers DEF CeremonyInv, QuorumsAndOnlyQuorumsReconstruct
<1> QED
  BY <1>1, CeremonyInvariant, PTL

\* No key but the split one leaves reconstruct_and_verify, and no share with a forged value
\* takes part in it unnoticed (shamir.rs:134-145).
THEOREM VerificationNoticesForgeries == CeremonySpec => []ForgeriesAreNoticed
<1>1. CeremonyInv => ForgeriesAreNoticed
  BY ForgeryIsNoticed DEF CeremonyInv, ForgeriesAreNoticed, ShamirInv, Called, AnswerIsTheResult
<1> QED
  BY <1>1, CeremonyInvariant, PTL

\* Every key has a polynomial through whatever threshold - 1 of the shares (shamir.rs:92-93).
THEOREM FewSharesRevealNothing == CeremonySpec => []BelowThresholdRevealsNothing
<1>1. CeremonyInv => BelowThresholdRevealsNothing
  BY NothingIsRevealed DEF CeremonyInv
<1> QED
  BY <1>1, CeremonyInvariant, PTL

\* For every key, digest and nonce, a transaction that the ceremony returns is credited to
\* the wallet (evm.rs:158-164 of wallet-core, keys.rs:186-194).
THEOREM NetworkRecoversTheWallet == CeremonySpec => []SenderIsTheWallet
<1>1. CeremonyInv => SenderIsTheWallet
  BY DEF CeremonyInv
<1> QED
  BY <1>1, CeremonyInvariant, PTL

\* The self-check is unreachable, as ceremony.rs:49-53 says: the key that has been verified
\* makes signatures that verify.
THEOREM SelfCheckAlwaysPasses == CeremonySpec => []SelfCheckNeverFails
<1>1. CeremonyInv => SelfCheckNeverFails
  BY DEF CeremonyInv
<1> QED
  BY <1>1, CeremonyInvariant, PTL
=============================================================================
