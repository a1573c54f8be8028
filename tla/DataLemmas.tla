------------------------------ MODULE DataLemmas ------------------------------
(***************************************************************************)
(* Facts about numbers and sequences that the proofs about conversions and *)
(* settings need and the library does not have: division by a positive     *)
(* number, induction as a fact about sets, what FlattenSeq returns, and    *)
(* putting a text for each word of a text.                                 *)
(***************************************************************************)
EXTENDS Integers, SequencesExt, SequenceTheorems, FiniteSetTheorems, TLAPS

-----------------------------------------------------------------------------
(* Division.                                                                *)

\* A number is its quotient times the divisor and its remainder.
LEMMA DivisionSplits ==
  ASSUME NEW a \in Int, NEW n \in Nat \ {0}
  PROVE  /\ a \div n \in Int
         /\ a % n \in 0 .. n - 1
         /\ a = n * (a \div n) + (a % n)
OBVIOUS

LEMMA QuotientNat ==
  ASSUME NEW a \in Nat, NEW n \in Nat \ {0}
  PROVE  a \div n \in Nat
OBVIOUS

\* The only multiple of n between -n and n is zero.
LEMMA SmallMultiple ==
  ASSUME NEW n \in Nat \ {0}, NEW d \in Int, n * d < n, -n < n * d
  PROVE  d = 0
<1>1. CASE d >= 1
  <2>1. n * d >= n * 1
    BY <1>1
  <2> QED BY <2>1
<1>2. CASE d <= -1
  <2>1. n * d <= n * (-1)
    BY <1>2
  <2> QED BY <2>1
<1> QED BY <1>1, <1>2

\* There is one quotient and one remainder.
LEMMA DivisionUnique ==
  ASSUME NEW a \in Int, NEW n \in Nat \ {0}, NEW q \in Int, NEW r \in 0 .. n - 1, a = n * q + r
  PROVE  a \div n = q /\ a % n = r
<1> DEFINE p == a \div n
           s == a % n
<1>1. p \in Int /\ s \in 0 .. n - 1 /\ a = n * p + s
  BY DivisionSplits
<1> HIDE DEF p, s
<1>2. n * (p - q) = n * p - n * q
  BY <1>1
<1>2a. n * p \in Int /\ n * q \in Int
  BY <1>1
<1>3. n * p - n * q = r - s
  BY <1>1, <1>2a
<1>4. p - q = 0
  BY <1>1, <1>2, <1>3, SmallMultiple
<1>5. p = q
  BY <1>1, <1>4
<1> QED BY <1>1, <1>3, <1>5, <1>2a DEF p, s

\* To divide by a product is to divide by its factors in turn.
LEMMA DivDiv ==
  ASSUME NEW a \in Nat, NEW m \in Nat \ {0}, NEW n \in Nat \ {0}
  PROVE  a \div (m * n) = (a \div m) \div n
<1> DEFINE p == a \div m
           q == p \div n
<1>1. p \in Nat /\ a % m \in 0 .. m - 1 /\ a = m * p + (a % m)
  BY DivisionSplits, QuotientNat
<1>2. q \in Nat /\ p % n \in 0 .. n - 1 /\ p = n * q + (p % n)
  BY <1>1, DivisionSplits, QuotientNat
<1> DEFINE r == a % m
           s == p % n
<1> HIDE DEF p, q, r, s
<1>3. a = m * (n * q + s) + r /\ r \in 0 .. m - 1 /\ s \in 0 .. n - 1 /\ q \in Nat
  BY <1>1, <1>2 DEF r, s
<1>4. m * (n * q + s) = (m * n) * q + m * s
  BY <1>3
<1>5. m * s <= m * (n - 1) /\ m * s >= 0 /\ m * s \in Int
  BY <1>3
<1>5a. m * (n - 1) = m * n - m
  OBVIOUS
<1>6. m * n \in Nat \ {0} /\ (m * n) * q \in Int
  BY <1>3
<1>7. m * s + r \in 0 .. (m * n) - 1
  BY <1>3, <1>5, <1>5a, <1>6
<1>8. a = (m * n) * q + (m * s + r)
  BY <1>3, <1>4, <1>5, <1>6
<1>9. a \div (m * n) = q
  BY <1>6, <1>7, <1>8, DivisionUnique, <1>3
<1> QED BY <1>9 DEF p, q

\* A multiple of the divisor does not change the remainder.
LEMMA ModAdd ==
  ASSUME NEW a \in Int, NEW n \in Nat \ {0}, NEW k \in Int
  PROVE  (a + n * k) % n = a % n /\ (a + n * k) \div n = (a \div n) + k
<1> DEFINE p == a \div n
           r == a % n
<1>1. p \in Int /\ r \in 0 .. n - 1 /\ a = n * p + r
  BY DivisionSplits
<1> HIDE DEF p, r
<1>2. n * (p + k) = n * p + n * k /\ n * p \in Int /\ n * k \in Int
  BY <1>1
<1>3. a + n * k = n * (p + k) + r
  BY <1>1, <1>2
<1>4. a + n * k \in Int /\ p + k \in Int
  BY <1>1, <1>2
<1>5. (a + n * k) % n = r /\ (a + n * k) \div n = p + k
  BY <1>1, <1>3, <1>4, DivisionUnique
<1> QED BY <1>5 DEF p, r

\* A number below the divisor is its own remainder.
LEMMA ModOfSmall ==
  ASSUME NEW n \in Nat \ {0}, NEW a \in 0 .. n - 1
  PROVE  a % n = a
<1>1. a = n * 0 + a
  OBVIOUS
<1> QED BY <1>1, DivisionUnique

\* The quotient of a sum is the sum of the quotients, or one more.
LEMMA QuotientOfSum ==
  ASSUME NEW a \in Nat, NEW b \in Nat, NEW n \in Nat \ {0}
  PROVE  a \div n <= (a + b) \div n /\ (a + b) \div n <= (a \div n) + (b \div n) + 1
<1> DEFINE p == a \div n
           q == b \div n
           s == (a + b) \div n
<1>1. /\ p \in Nat /\ a % n \in 0 .. n - 1 /\ a = n * p + (a % n)
      /\ q \in Nat /\ b % n \in 0 .. n - 1 /\ b = n * q + (b % n)
      /\ s \in Nat /\ (a + b) % n \in 0 .. n - 1 /\ a + b = n * s + ((a + b) % n)
  <2>1. a \in Int /\ b \in Int /\ a + b \in Int /\ a + b \in Nat
    OBVIOUS
  <2>2. p \in Nat /\ q \in Nat /\ s \in Nat
    BY <2>1, QuotientNat
  <2>3. a % n \in 0 .. n - 1 /\ a = n * p + (a % n)
    BY <2>1, DivisionSplits
  <2>4. b % n \in 0 .. n - 1 /\ b = n * q + (b % n)
    BY <2>1, DivisionSplits
  <2>5. (a + b) % n \in 0 .. n - 1 /\ a + b = n * s + ((a + b) % n)
    BY <2>1, DivisionSplits
  <2> QED BY <2>2, <2>3, <2>4, <2>5
<1> HIDE DEF p, q, s
<1>2. n * p \in Int /\ n * q \in Int /\ n * s \in Int
  BY <1>1
<1>3. n * ((s - p) - q) = (n * s - n * p) - n * q /\ n * (s - p) = n * s - n * p
  BY <1>1
<1>4. n * ((s - p) - q) < 2 * n
  BY <1>1, <1>2, <1>3
<1>5. n * (s - p) > -n
  BY <1>1, <1>2, <1>3
<1>6. ASSUME (s - p) - q >= 2 PROVE FALSE
  <2>1. n * ((s - p) - q) >= n * 2
    BY <1>1, <1>6
  <2> QED BY <1>4, <2>1, <1>1
<1>7. ASSUME s - p <= -1 PROVE FALSE
  <2>1. n * (s - p) <= n * (-1)
    BY <1>1, <1>7
  <2> QED BY <1>5, <2>1, <1>1
<1>8. s - p >= 0 /\ (s - p) - q <= 1
  BY <1>1, <1>6, <1>7
<1> QED BY <1>1, <1>8 DEF p, q, s

-----------------------------------------------------------------------------
(* Sequences of sequences.                                                  *)

\* Induction over the numbers, as a fact about a set T.  If n were missing from T,
\* then i - 1 would be an injection of the finite set of the numbers up to n that are
\* missing into itself, so a surjection, and n would be the predecessor of one of them.
LEMMA NatSetInduction ==
  ASSUME NEW T, 0 \in T, \A n \in Nat : n \in T => n + 1 \in T
  PROVE  Nat \subseteq T
<1>1. SUFFICES ASSUME NEW n \in Nat, n \notin T PROVE FALSE
  OBVIOUS
<1> DEFINE B == (0 .. n) \ T
           f == [i \in B |-> i - 1]
<1>2. IsFiniteSet(B)
  BY FS_Interval, FS_Subset, 0 \in Int, n \in Int, B \subseteq 0 .. n
<1>3. \A i \in B : i - 1 \in B
  <2>1. SUFFICES ASSUME NEW i \in B PROVE i - 1 \in B
    OBVIOUS
  <2>2. i \in Nat /\ i <= n /\ i # 0
    OBVIOUS
  <2>3. i - 1 \in Nat /\ (i - 1) + 1 = i
    BY <2>2
  <2>4. i - 1 \notin T
    BY <2>3, <2>1
  <2>5. QED  BY <2>2, <2>3, <2>4
<1>4. f \in [B -> B] /\ \A i, j \in B : f[i] = f[j] => i = j
  <2>1. \A i, j \in B : i - 1 = j - 1 => i = j
    OBVIOUS
  <2>2. QED BY <2>1, <1>3
<1>5. f \in Injection(B, B)
  BY <1>4 DEF Injection, IsInjective
<1>6. f \in Surjection(B, B)
  BY <1>2, <1>5, FS_Injection
<1>7. n \in B
  BY <1>1
<1>8. PICK i \in B : f[i] = n
  BY <1>6, <1>7 DEF Surjection
<1> QED BY <1>1, <1>8

\* Some positions have a last one.
LEMMA LastExists ==
  ASSUME NEW n \in Nat, NEW I \in SUBSET (1 .. n), I # {}
  PROVE  \E i \in I : \A j \in I : j <= i
<1> DEFINE T == {m \in Nat : \A J \in SUBSET (1 .. m) : J # {} => \E i \in J : \A j \in J : j <= i}
<1>1. 0 \in T
  <2>1. \A J \in SUBSET (1 .. 0) : J = {}
    OBVIOUS
  <2> QED BY <2>1
<1>2. ASSUME NEW m \in Nat, m \in T PROVE m + 1 \in T
  <2>1. SUFFICES ASSUME NEW J \in SUBSET (1 .. m + 1), J # {}
                 PROVE  \E i \in J : \A j \in J : j <= i
    OBVIOUS
  <2>2. CASE m + 1 \in J
    <3>1. \A j \in J : j <= m + 1
      OBVIOUS
    <3> QED BY <2>2, <3>1
  <2>3. CASE m + 1 \notin J
    <3>1. J \in SUBSET (1 .. m)
      BY <2>3
    <3> QED BY <1>2, <2>1, <3>1
  <2> QED BY <2>2, <2>3
<1>3. n \in T
  <2> HIDE DEF T
  <2> QED BY <1>1, <1>2, NatSetInduction
<1>4. \A J \in SUBSET (1 .. n) : J # {} => \E i \in J : \A j \in J : j <= i
  BY <1>3
<1> HIDE DEF T
<1> QED BY <1>4

\* The value of FlattenSeq's recursive function g at i.
FlattenStep(s, g, i) == IF i = 1 THEN s[i] ELSE g[i-1] \o s[i]

\* The recursive function in FlattenSeq exists, which its CHOOSE needs.
LEMMA FlattenExists ==
  ASSUME NEW s
  PROVE  \A n \in Nat : \E g : g = [i \in 1 .. n |-> FlattenStep(s, g, i)]
<1> DEFINE T == {n \in Nat : \E g : g = [i \in 1 .. n |-> FlattenStep(s, g, i)]}
<1>1. 0 \in T
  <2>1. 1 .. 0 = {}
    OBVIOUS
  <2> DEFINE e == [i \in {} |-> {}]
  <2>2. e = [i \in 1 .. 0 |-> FlattenStep(s, e, i)]
    BY <2>1
  <2> QED BY <2>2
<1>2. ASSUME NEW n \in Nat, n \in T PROVE n + 1 \in T
  <2>1. PICK g : g = [i \in 1 .. n |-> FlattenStep(s, g, i)]
    BY <1>2
  <2> DEFINE h == [i \in 1 .. n + 1 |-> IF i = n + 1 THEN FlattenStep(s, g, i) ELSE g[i]]
  <2>2. \A i \in 1 .. n + 1 : h[i] = FlattenStep(s, h, i)
    <3>1. TAKE i \in 1 .. n + 1
    <3>2. FlattenStep(s, g, i) = FlattenStep(s, h, i)
      BY DEF FlattenStep
    <3>3. i # n + 1 => g[i] = FlattenStep(s, g, i)
      BY <2>1
    <3> QED BY <3>2, <3>3
  <2>3. h = [i \in 1 .. n + 1 |-> FlattenStep(s, h, i)]
    BY <2>2
  <2> HIDE DEF h
  <2> QED BY <2>3
<1> QED BY <1>1, <1>2, NatSetInduction

\* FlattenSeq is the last value of that function.
LEMMA FlattenUnfolds ==
  ASSUME NEW s, Len(s) \in Nat \ {0}
  PROVE  \E g : g = [i \in 1 .. Len(s) |-> FlattenStep(s, g, i)] /\ FlattenSeq(s) = g[Len(s)]
<1> DEFINE g == CHOOSE f : f = [i \in 1 .. Len(s) |-> FlattenStep(s, f, i)]
<1>1. g = [i \in 1 .. Len(s) |-> FlattenStep(s, g, i)]
  BY FlattenExists
<1>2. FlattenSeq(s) = g[Len(s)]
  BY DEF FlattenSeq, FlattenStep
<1> QED BY <1>1, <1>2

\* The values of that function, one by one.
LEMMA FlattenValues ==
  ASSUME NEW s, NEW n \in Nat \ {0}, Len(s) = n
  PROVE  \E g : /\ \A i \in 1 .. n : g[i] = FlattenStep(s, g, i)
                /\ FlattenSeq(s) = g[n]
<1>1. PICK g : g = [i \in 1 .. Len(s) |-> FlattenStep(s, g, i)] /\ FlattenSeq(s) = g[Len(s)]
  BY FlattenUnfolds
<1> DEFINE h == [i \in 1 .. Len(s) |-> FlattenStep(s, g, i)]
<1>2. \A i \in 1 .. n : h[i] = FlattenStep(s, g, i)
  OBVIOUS
<1>3. h = g
  BY <1>1
<1> HIDE DEF h
<1> QED BY <1>1, <1>2, <1>3

\* a and b have the same length, and their elements come from the same places of A
\* and B.
Together(A, B, a, b) ==
  /\ Len(a) = Len(b)
  /\ \A k \in DOMAIN a : \E i \in DOMAIN A : \E j \in DOMAIN A[i] :
       a[k] = A[i][j] /\ b[k] = B[i][j]

\* Another sequence is added to either side.
LEMMA ConcatTogether ==
  ASSUME NEW S, NEW s \in Seq(S), NEW u \in Seq(S),
         NEW R, NEW t \in Seq(R), NEW v \in Seq(R),
         NEW A, NEW B, Together(A, B, s, t),
         NEW m \in DOMAIN A, u = A[m], v = B[m], Len(u) = Len(v)
  PROVE  /\ s \o u \in Seq(S)
         /\ t \o v \in Seq(R)
         /\ Together(A, B, s \o u, t \o v)
<1>1. Len(s) = Len(t)
  BY DEF Together
<1>2. s \o u \in Seq(S) /\ t \o v \in Seq(R) /\ Len(s \o u) = Len(t \o v)
  BY <1>1
<1>3. ASSUME NEW k \in DOMAIN (s \o u)
      PROVE  \E i \in DOMAIN A : \E j \in DOMAIN A[i] :
               (s \o u)[k] = A[i][j] /\ (t \o v)[k] = B[i][j]
  <2>1. CASE k \in DOMAIN s
    <3>1. (s \o u)[k] = s[k] /\ (t \o v)[k] = t[k]
      BY <1>1, <2>1
    <3> QED BY <2>1, <3>1 DEF Together
  <2>2. CASE k \notin DOMAIN s
    <3> DEFINE j == k - Len(s)
    <3>1. j \in DOMAIN u /\ k = Len(s) + j
      BY <2>2
    <3>2. (s \o u)[k] = u[j] /\ (t \o v)[k] = v[j]
      BY <1>1, <2>2, <3>1
    <3> HIDE DEF j
    <3> QED BY <3>1, <3>2
  <2> QED BY <2>1, <2>2
<1> QED BY <1>2, <1>3 DEF Together

\* Two sequences of sequences of the same shape, flattened, have the same length,
\* and at each place elements that came from the same place in both.
LEMMA FlattenTogether ==
  ASSUME NEW S, NEW A \in Seq(Seq(S)), NEW R, NEW B \in Seq(Seq(R)),
         Len(A) = Len(B), \A i \in DOMAIN A : Len(A[i]) = Len(B[i])
  PROVE  /\ FlattenSeq(A) \in Seq(S)
         /\ FlattenSeq(B) \in Seq(R)
         /\ Together(A, B, FlattenSeq(A), FlattenSeq(B))
<1>1. Len(A) \in Nat /\ DOMAIN A = 1 .. Len(A) /\ DOMAIN B = 1 .. Len(A)
  OBVIOUS
<1>2. CASE Len(A) = 0
  <2>1. FlattenSeq(A) = A /\ FlattenSeq(B) = B
    BY <1>2 DEF FlattenSeq
  <2>2. A = <<>> /\ B = <<>>
    BY <1>2, EmptySeq
  <2> QED BY <2>1, <2>2 DEF Together
<1>3. CASE Len(A) # 0
  <2>1. PICK a : a = [i \in 1 .. Len(A) |-> FlattenStep(A, a, i)] /\ FlattenSeq(A) = a[Len(A)]
    BY <1>1, <1>3, FlattenUnfolds
  <2>2. PICK b : b = [i \in 1 .. Len(A) |-> FlattenStep(B, b, i)] /\ FlattenSeq(B) = b[Len(A)]
    BY <1>1, <1>3, FlattenUnfolds
  <2> DEFINE Good(m) == a[m] \in Seq(S) /\ b[m] \in Seq(R) /\ Together(A, B, a[m], b[m])
  <2>3. ASSUME NEW m \in 1 .. Len(A), m = 1 \/ Good(m - 1) PROVE Good(m)
    <3>1. a[m] = FlattenStep(A, a, m) /\ b[m] = FlattenStep(B, b, m)
      BY <2>1, <2>2
    <3>2. PICK u \in Seq(S), v \in Seq(R) : u = A[m] /\ v = B[m] /\ Len(u) = Len(v)
      <4>1. A[m] \in Seq(S) /\ B[m] \in Seq(R)
        BY ElementOfSeq, m \in 1 .. Len(B)
      <4>2. Len(A[m]) = Len(B[m])
        BY <1>1
      <4> QED BY <4>1, <4>2
    <3>3. CASE m = 1
      <4>1. a[m] = u /\ b[m] = v
        BY <3>1, <3>2, <3>3 DEF FlattenStep
      <4> QED BY <1>1, <3>2, <4>1 DEF Together
    <3>4. CASE m # 1
      <4>1. Good(m - 1)
        BY <2>3, <3>4
      <4>2. PICK s \in Seq(S), t \in Seq(R) : s = a[m - 1] /\ t = b[m - 1]
        BY <4>1
      <4>3. a[m] = s \o u /\ b[m] = t \o v
        BY <3>1, <3>2, <3>4, <4>2 DEF FlattenStep
      <4>4. Together(A, B, s, t)
        BY <4>1, <4>2
      <4> HIDE DEF Good
      <4>5. /\ s \o u \in Seq(S) /\ t \o v \in Seq(R)
            /\ Together(A, B, s \o u, t \o v)
        BY <1>1, <3>2, <4>4, ConcatTogether
      <4> QED BY <4>3, <4>5 DEF Good
    <3> QED BY <3>3, <3>4
  <2> DEFINE T == {m \in Nat : m \in 1 .. Len(A) => Good(m)}
  <2>4. 0 \in T
    OBVIOUS
  <2>5. ASSUME NEW m \in Nat, m \in T PROVE m + 1 \in T
    <3>1. SUFFICES ASSUME m + 1 \in 1 .. Len(A) PROVE Good(m + 1)
      OBVIOUS
    <3>2. m + 1 = 1 \/ Good((m + 1) - 1)
      <4>1. (m + 1) - 1 = m
        OBVIOUS
      <4>2. m = 0 \/ m \in 1 .. Len(A)
        BY <1>1, <3>1
      <4>3. m = 0 \/ Good(m)
        BY <2>5, <4>2
      <4> QED BY <4>1, <4>3
    <3> HIDE DEF Good
    <3> QED BY <2>3, <3>1, <3>2
  <2>6. Len(A) \in T
    <3> HIDE DEF T
    <3> QED BY <1>1, <2>4, <2>5, NatSetInduction
  <2> QED BY <1>1, <1>3, <2>1, <2>2, <2>6
<1> QED BY <1>2, <1>3

\* FlattenSeq adds the last sequence to the others.
LEMMA FlattenAppend ==
  ASSUME NEW S, NEW s \in Seq(Seq(S)), NEW u \in Seq(S)
  PROVE  FlattenSeq(Append(s, u)) = FlattenSeq(s) \o u
<1> DEFINE n == Len(s)
           t == Append(s, u)
<1>1. /\ n \in Nat /\ t \in Seq(Seq(S)) /\ Len(t) = n + 1 /\ t[n + 1] = u
      /\ \A i \in 1 .. n : t[i] = s[i]
  OBVIOUS
<1> HIDE DEF n, t
<1>2. PICK b : /\ \A i \in 1 .. n + 1 : b[i] = FlattenStep(t, b, i)
               /\ FlattenSeq(t) = b[n + 1]
  <2>1. n + 1 \in Nat \ {0}
    BY <1>1
  <2> QED BY <1>1, <2>1, FlattenValues
<1>3. b[n + 1] = FlattenStep(t, b, n + 1)
  BY <1>1, <1>2
<1>4. CASE n = 0
  <2>1. FlattenSeq(s) = <<>>
    BY <1>4, EmptySeq DEF FlattenSeq, n
  <2>2. b[n + 1] = u
    BY <1>1, <1>3, <1>4 DEF FlattenStep
  <2> QED BY <1>2, <2>1, <2>2, ConcatEmptySeq DEF t
<1>5. CASE n # 0
  <2>1. PICK a : /\ \A i \in 1 .. n : a[i] = FlattenStep(s, a, i)
                 /\ FlattenSeq(s) = a[n]
    <3>1. n \in Nat \ {0} /\ Len(s) = n
      BY <1>1, <1>5 DEF n
    <3> QED BY <3>1, FlattenValues
  <2> DEFINE T == {m \in Nat : m \in 1 .. n => a[m] = b[m]}
  <2>2. 0 \in T
    OBVIOUS
  <2>3. ASSUME NEW m \in Nat, m \in T PROVE m + 1 \in T
    <3>1. SUFFICES ASSUME m + 1 \in 1 .. n PROVE a[m + 1] = b[m + 1]
      OBVIOUS
    <3>2. /\ a[m + 1] = FlattenStep(s, a, m + 1)
          /\ b[m + 1] = FlattenStep(t, b, m + 1)
          /\ s[m + 1] = t[m + 1]
      BY <1>1, <1>2, <2>1, <3>1
    <3>3. (m + 1) - 1 = m /\ (m + 1 = 1 \/ m \in 1 .. n)
      BY <1>1, <3>1
    <3>4. m + 1 = 1 \/ a[m] = b[m]
      BY <2>3, <3>3
    <3> QED BY <3>2, <3>3, <3>4 DEF FlattenStep
  <2>4. n \in T
    <3> HIDE DEF T
    <3> QED BY <1>1, <2>2, <2>3, NatSetInduction
  <2>5. a[n] = b[n]
    BY <1>1, <1>5, <2>4
  <2>6. b[n + 1] = b[n] \o u
    BY <1>1, <1>3, <1>5 DEF FlattenStep
  <2> QED BY <1>2, <2>1, <2>5, <2>6 DEF t
<1> QED BY <1>4, <1>5

-----------------------------------------------------------------------------
(* Substitution in sequences.                                               *)

\* Every element of t replaced by the sequence that g has for it.
Bind(g, t) == FlattenSeq([i \in DOMAIN t |-> g[t[i]]])

LEMMA BindEmpty ==
  ASSUME NEW g
  PROVE  Bind(g, <<>>) = <<>>
<1> DEFINE s == [i \in DOMAIN <<>> |-> g[<<>>[i]]]
<1>1. s = <<>>
  OBVIOUS
<1>2. FlattenSeq(s) = s
  BY <1>1, EmptySeq DEF FlattenSeq
<1> QED BY <1>1, <1>2 DEF Bind

LEMMA BindAppend ==
  ASSUME NEW S, NEW g \in [S -> Seq(S)], NEW t \in Seq(S), NEW w \in S
  PROVE  Bind(g, Append(t, w)) = Bind(g, t) \o g[w]
<1> DEFINE a == [i \in DOMAIN t |-> g[t[i]]]
           u == Append(t, w)
           b == [i \in DOMAIN u |-> g[u[i]]]
<1>1. a \in Seq(Seq(S)) /\ Len(a) = Len(t)
  <2>1. \A i \in 1 .. Len(t) : g[t[i]] \in Seq(S)
    BY ElementOfSeq
  <2>2. a \in [1 .. Len(t) -> Seq(S)] /\ Len(t) \in Nat
    BY <2>1
  <2> QED BY <2>2
<1>2. /\ DOMAIN u = 1 .. Len(t) + 1 /\ Len(t) \in Nat /\ u[Len(t) + 1] = w
      /\ \A i \in 1 .. Len(t) : u[i] = t[i]
  OBVIOUS
<1>3. g[w] \in Seq(S)
  OBVIOUS
<1>4. b = Append(a, g[w])
  <2> DEFINE c == Append(a, g[w])
  <2>1. c \in Seq(Seq(S)) /\ DOMAIN c = 1 .. Len(t) + 1 /\ c[Len(t) + 1] = g[w]
    BY <1>1, <1>3
  <2>2. \A i \in 1 .. Len(t) : c[i] = g[t[i]]
    BY <1>1, <1>3
  <2> HIDE DEF c, u
  <2>3. \A i \in 1 .. Len(t) + 1 : b[i] = c[i]
    <3>1. TAKE i \in 1 .. Len(t) + 1
    <3>2. CASE i = Len(t) + 1
      BY <1>2, <2>1, <3>2
    <3>3. CASE i \in 1 .. Len(t)
      BY <1>2, <2>2, <3>3
    <3> QED BY <1>2, <3>2, <3>3
  <2>4. c = [i \in DOMAIN c |-> c[i]]
    BY <2>1
  <2>5. b = [i \in DOMAIN b |-> b[i]] /\ DOMAIN b = DOMAIN c
    BY <1>2, <2>1
  <2> HIDE DEF b
  <2>6. b = c
    BY <2>1, <2>3, <2>4, <2>5
  <2> QED BY <2>6 DEF c
<1> HIDE DEF a, u, b
<1>5. FlattenSeq(b) = FlattenSeq(a) \o g[w]
  BY <1>1, <1>3, <1>4, FlattenAppend
<1> QED BY <1>5 DEF Bind, a, b, u

LEMMA BindSingle ==
  ASSUME NEW S, NEW g \in [S -> Seq(S)], NEW w \in S
  PROVE  Bind(g, <<w>>) = g[w]
<1>1. <<w>> = Append(<<>>, w) /\ <<>> \in Seq(S)
  OBVIOUS
<1>2. Bind(g, Append(<<>>, w)) = Bind(g, <<>>) \o g[w]
  BY <1>1, BindAppend
<1>3. g[w] \in Seq(S)
  OBVIOUS
<1>4. <<>> \o g[w] = g[w]
  BY <1>3, ConcatEmptySeq
<1> QED BY <1>1, <1>2, <1>4, BindEmpty

\* Induction over the sequences of S, as a fact about a set T of them.
LEMMA SeqSetInduction ==
  ASSUME NEW S, NEW T, <<>> \in T,
         \A t \in Seq(S) : \A w \in S : t \in T => Append(t, w) \in T
  PROVE  Seq(S) \subseteq T
<1> DEFINE M == {n \in Nat : \A t \in Seq(S) : Len(t) = n => t \in T}
<1>1. 0 \in M
  BY EmptySeq
<1>2. ASSUME NEW n \in Nat, n \in M PROVE n + 1 \in M
  <2>1. SUFFICES ASSUME NEW t \in Seq(S), Len(t) = n + 1 PROVE t \in T
    OBVIOUS
  <2>2. t # <<>>
    BY <2>1
  <2>3. PICK s \in Seq(S), w \in S : t = Append(s, w)
    BY <2>2, SequenceEmptyOrAppend
  <2>4. Len(s) = n
    BY <2>1, <2>3
  <2> QED BY <1>2, <2>3, <2>4
<1>3. ASSUME NEW t \in Seq(S) PROVE t \in T
  <2>1. Len(t) \in Nat
    OBVIOUS
  <2>2. Len(t) \in M
    <3> HIDE DEF M
    <3> QED BY <1>1, <1>2, <2>1, NatSetInduction
  <2> QED BY <2>2
<1> QED BY <1>3

LEMMA BindType ==
  ASSUME NEW S, NEW g \in [S -> Seq(S)], NEW t \in Seq(S)
  PROVE  Bind(g, t) \in Seq(S)
<1> DEFINE T == {s \in Seq(S) : Bind(g, s) \in Seq(S)}
<1>1. <<>> \in T
  BY BindEmpty, EmptySeq
<1>2. ASSUME NEW s \in Seq(S), NEW w \in S, s \in T PROVE Append(s, w) \in T
  <2>1. Bind(g, Append(s, w)) = Bind(g, s) \o g[w]
    BY BindAppend
  <2>2. g[w] \in Seq(S) /\ Append(s, w) \in Seq(S) /\ Bind(g, s) \in Seq(S)
    BY <1>2
  <2>3. Bind(g, s) \o g[w] \in Seq(S)
    BY <2>2, ConcatProperties
  <2> QED BY <2>1, <2>2, <2>3
<1>3. t \in T
  <2> HIDE DEF T
  <2> QED BY <1>1, <1>2, SeqSetInduction
<1> QED BY <1>3

\* Substitution goes through concatenation.
LEMMA BindConcat ==
  ASSUME NEW S, NEW g \in [S -> Seq(S)], NEW s \in Seq(S), NEW t \in Seq(S)
  PROVE  Bind(g, s \o t) = Bind(g, s) \o Bind(g, t)
<1> DEFINE T == {u \in Seq(S) : Bind(g, s \o u) = Bind(g, s) \o Bind(g, u)}
<1>1. <<>> \in T
  <2>1. s \o <<>> = s /\ <<>> \in Seq(S)
    BY ConcatEmptySeq, EmptySeq
  <2>2. Bind(g, s) \o <<>> = Bind(g, s)
    BY BindType, ConcatEmptySeq
  <2> QED BY <2>1, <2>2, BindEmpty
<1>2. ASSUME NEW u \in Seq(S), NEW w \in S, u \in T PROVE Append(u, w) \in T
  <2>1. s \o u \in Seq(S) /\ Append(u, w) \in Seq(S) /\ g[w] \in Seq(S)
    BY ConcatProperties
  <2>2. s \o Append(u, w) = Append(s \o u, w)
    OBVIOUS
  <2>3. Bind(g, Append(s \o u, w)) = Bind(g, s \o u) \o g[w]
    BY <2>1, BindAppend
  <2>4. Bind(g, s \o u) = Bind(g, s) \o Bind(g, u)
    BY <1>2
  <2>5. (Bind(g, s) \o Bind(g, u)) \o g[w] = Bind(g, s) \o (Bind(g, u) \o g[w])
    BY <2>1, BindType, ConcatAssociative
  <2>6. Bind(g, Append(u, w)) = Bind(g, u) \o g[w]
    BY BindAppend
  <2> QED BY <2>1, <2>2, <2>3, <2>4, <2>5, <2>6
<1>3. t \in T
  <2> HIDE DEF T
  <2> QED BY <1>1, <1>2, SeqSetInduction
<1> QED BY <1>3

\* g keeps every element of t.
KeepsEach(g, t) == \A i \in DOMAIN t : g[t[i]] = <<t[i]>>

\* What the first word gives comes first.
LEMMA BindHead ==
  ASSUME NEW S, NEW g \in [S -> Seq(S)], NEW t \in Seq(S), t # <<>>
  PROVE  Bind(g, t) = g[Head(t)] \o Bind(g, Tail(t))
<1>1. Head(t) \in S /\ Tail(t) \in Seq(S) /\ <<Head(t)>> \in Seq(S)
  OBVIOUS
<1>2. t = <<Head(t)>> \o Tail(t)
  OBVIOUS
<1>3. Bind(g, <<Head(t)>> \o Tail(t)) = Bind(g, <<Head(t)>>) \o Bind(g, Tail(t))
  BY <1>1, BindConcat
<1> QED BY <1>1, <1>2, <1>3, BindSingle

\* A substitution that keeps every element of t keeps t.
LEMMA BindKeeps ==
  ASSUME NEW S, NEW g \in [S -> Seq(S)], NEW t \in Seq(S), KeepsEach(g, t)
  PROVE  Bind(g, t) = t
<1> DEFINE Kept(s) == \A i \in DOMAIN s : g[s[i]] = <<s[i]>>
           T == {s \in Seq(S) : Kept(s) => Bind(g, s) = s}
<1>1. <<>> \in T
  BY BindEmpty, EmptySeq
<1>2. ASSUME NEW s \in Seq(S), NEW w \in S, s \in T PROVE Append(s, w) \in T
  <2>1. SUFFICES ASSUME Kept(Append(s, w)) PROVE Bind(g, Append(s, w)) = Append(s, w)
    BY AppendProperties
  <2>2. /\ DOMAIN Append(s, w) = 1 .. Len(s) + 1 /\ Len(s) \in Nat /\ DOMAIN s = 1 .. Len(s)
        /\ Append(s, w)[Len(s) + 1] = w
        /\ \A i \in 1 .. Len(s) : Append(s, w)[i] = s[i]
    OBVIOUS
  <2> DEFINE u == Append(s, w)
  <2>2a. \A i \in 1 .. Len(s) + 1 : g[u[i]] = <<u[i]>>
    BY <2>1, <2>2
  <2> HIDE DEF u
  <2>3. g[w] = <<w>> /\ Kept(s)
    <3>1. Len(s) + 1 \in 1 .. Len(s) + 1 /\ u[Len(s) + 1] = w
      BY <2>2 DEF u
    <3>2. g[w] = <<w>>
      BY <2>2a, <3>1
    <3>3. ASSUME NEW i \in DOMAIN s PROVE g[s[i]] = <<s[i]>>
      <4>1. i \in 1 .. Len(s) + 1 /\ u[i] = s[i]
        BY <2>2 DEF u
      <4> QED BY <2>2a, <4>1
    <3> QED BY <3>2, <3>3
  <2>4. Bind(g, s) = s
    BY <1>2, <2>3
  <2>5. Bind(g, Append(s, w)) = Bind(g, s) \o g[w]
    BY BindAppend
  <2>6. Append(s, w) = s \o <<w>>
    BY AppendIsConcat
  <2> QED BY <2>3, <2>4, <2>5, <2>6
<1>3. t \in T
  <2> HIDE DEF T
  <2> QED BY <1>1, <1>2, SeqSetInduction
<1> QED BY <1>3 DEF KeepsEach

\* On every element of t, f and then g come to h.
ComeTo(f, g, h, t) == \A i \in DOMAIN t : Bind(g, f[t[i]]) = h[t[i]]

\* One substitution after another is a third, if it is for every element of t.
LEMMA BindBind ==
  ASSUME NEW S, NEW f \in [S -> Seq(S)], NEW g \in [S -> Seq(S)], NEW h \in [S -> Seq(S)],
         NEW t \in Seq(S), ComeTo(f, g, h, t)
  PROVE  Bind(g, Bind(f, t)) = Bind(h, t)
<1> DEFINE Meets(s) == \A i \in DOMAIN s : Bind(g, f[s[i]]) = h[s[i]]
           T == {s \in Seq(S) : Meets(s) => Bind(g, Bind(f, s)) = Bind(h, s)}
<1>1. <<>> \in T
  BY BindEmpty, EmptySeq
<1>2. ASSUME NEW s \in Seq(S), NEW w \in S, s \in T PROVE Append(s, w) \in T
  <2>1. SUFFICES ASSUME Meets(Append(s, w))
                 PROVE  Bind(g, Bind(f, Append(s, w))) = Bind(h, Append(s, w))
    BY AppendProperties
  <2>2. /\ DOMAIN Append(s, w) = 1 .. Len(s) + 1 /\ Len(s) \in Nat /\ DOMAIN s = 1 .. Len(s)
        /\ Append(s, w)[Len(s) + 1] = w
        /\ \A i \in 1 .. Len(s) : Append(s, w)[i] = s[i]
    OBVIOUS
  <2> DEFINE u == Append(s, w)
  <2>2a. \A i \in 1 .. Len(s) + 1 : Bind(g, f[u[i]]) = h[u[i]]
    BY <2>1, <2>2
  <2> HIDE DEF u
  <2>3. Bind(g, f[w]) = h[w] /\ Meets(s)
    <3>1. Len(s) + 1 \in 1 .. Len(s) + 1 /\ u[Len(s) + 1] = w
      BY <2>2 DEF u
    <3>2. Bind(g, f[w]) = h[w]
      BY <2>2a, <3>1
    <3>3. ASSUME NEW i \in DOMAIN s PROVE Bind(g, f[s[i]]) = h[s[i]]
      <4>1. i \in 1 .. Len(s) + 1 /\ u[i] = s[i]
        BY <2>2 DEF u
      <4> QED BY <2>2a, <4>1
    <3> QED BY <3>2, <3>3
  <2>4. Bind(g, Bind(f, s)) = Bind(h, s)
    BY <1>2, <2>3
  <2>5. f[w] \in Seq(S) /\ Bind(f, s) \in Seq(S)
    BY BindType
  <2>6. Bind(g, Bind(f, s) \o f[w]) = Bind(g, Bind(f, s)) \o Bind(g, f[w])
    BY <2>5, BindConcat
  <2>7. Bind(f, Append(s, w)) = Bind(f, s) \o f[w] /\ Bind(h, Append(s, w)) = Bind(h, s) \o h[w]
    BY BindAppend
  <2> QED BY <2>3, <2>4, <2>6, <2>7
<1>3. t \in T
  <2> HIDE DEF T
  <2> QED BY <1>1, <1>2, SeqSetInduction
<1> QED BY <1>3 DEF ComeTo
=============================================================================
