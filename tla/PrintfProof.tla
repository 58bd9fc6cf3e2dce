----------------------------- MODULE PrintfProof -----------------------------
(***************************************************************************)
(* Proofs about vsnprintf and its callers (libc/stdio.c, kernel/util.c):   *)
(* nothing is written behind the buffer, numbers are printed in decimal,   *)
(* conversions whole or not at all, and the console shows the messages,    *)
(* for any size of the buffer, any formats and any runs of calls.          *)
(***************************************************************************)
EXTENDS Console, WellFoundedInduction, NaturalsInduction, SequenceTheorems,
        FiniteSetTheorems, TLAPS
-----------------------------------------------------------------------------
(* A nonempty set of numbers has a least element; so a set that holds 0    *)
(* and each successor holds all.                                           *)
LEMMA LeastElement ==
  ASSUME NEW T, T \subseteq Nat, T # {}
  PROVE  \E x \in T : \A y \in T : x <= y
<1> DEFINE R == {ss \in Nat \X Nat : ss[1] < ss[2]}
<1>1. IsWellFoundedOn(R, Nat)
  BY NatLessThanWellFounded DEF OpToRel
<1> HIDE DEF R
<1>2. PICK x \in T : \A y \in T : <<y, x>> \notin R
  BY <1>1, WFMin, Zenon
<1>3. ASSUME NEW y \in T PROVE ~ (y < x)
  BY <1>2 DEF R
<1> QED BY <1>2, <1>3

LEMMA Induction ==
  ASSUME NEW S, 0 \in S, \A n \in Nat : n \in S => n + 1 \in S
  PROVE  Nat \subseteq S
<1> SUFFICES ASSUME Nat \ S # {} PROVE FALSE
  OBVIOUS
<1>1. PICK x \in Nat \ S : \A y \in Nat \ S : x <= y
  <2>1. Nat \ S \subseteq Nat
    OBVIOUS
  <2> QED BY <2>1, LeastElement, Zenon
<1>2. x # 0
  BY <1>1
<1>3. x - 1 \in Nat /\ x - 1 < x
  BY <1>1, <1>2
<1>4. x - 1 \in S
  BY <1>1, <1>3
<1> QED BY <1>1, <1>3, <1>4
-----------------------------------------------------------------------------
(* Which characters of a format are conversions, from one to the next.     *)
LEMMA ConvertsNext ==
  ASSUME NEW f
  PROVE  /\ ~ Converts(f, 1)
         /\ \A k \in Nat \ {0} :
              Converts(f, k + 1) <=> f[k] = Percent /\ ~ Converts(f, k)
<1>1. ~ Converts(f, 1)
  BY DEF Converts
<1>2. ASSUME NEW k \in Nat \ {0}, Converts(f, k + 1)
      PROVE  f[k] = Percent
  <2>1. PICK n \in 1 .. (k + 1) - 1 : \A j \in (k + 1) - n .. (k + 1) - 1 : f[j] = Percent
    BY <1>2 DEF Converts
  <2>2. k \in (k + 1) - n .. (k + 1) - 1
    OBVIOUS
  <2> QED BY <2>1, <2>2
<1>3. ASSUME NEW k \in Nat \ {0}, Converts(f, k), Converts(f, k + 1)
      PROVE  FALSE
  <2>1. PICK n \in 1 .. k - 1 :
          /\ n % 2 = 1
          /\ \A j \in k - n .. k - 1 : f[j] = Percent
          /\ n = k - 1 \/ f[(k - n) - 1] # Percent
    BY <1>3 DEF Converts
  <2>2. PICK m \in 1 .. (k + 1) - 1 :
          /\ m % 2 = 1
          /\ \A j \in (k + 1) - m .. (k + 1) - 1 : f[j] = Percent
          /\ m = (k + 1) - 1 \/ f[((k + 1) - m) - 1] # Percent
    BY <1>3 DEF Converts
  <2>3. n # m - 1
    BY <2>1, <2>2
  <2>4. CASE n < m - 1
    <3>1. (k - n) - 1 \in (k + 1) - m .. (k + 1) - 1 /\ n # k - 1
      BY <2>4
    <3> QED BY <2>1, <2>2, <3>1
  <2>5. CASE n > m - 1
    <3>1. /\ ((k + 1) - m) - 1 \in k - n .. k - 1 /\ m # (k + 1) - 1
      BY <2>5
    <3> QED BY <2>1, <2>2, <3>1
  <2> QED BY <2>3, <2>4, <2>5
<1>4. ASSUME NEW k \in Nat \ {0}, f[k] = Percent, ~ Converts(f, k)
      PROVE  Converts(f, k + 1)
  <2> DEFINE T == {x \in Nat : x = k - 1 \/ (x < k - 1 /\ f[(k - x) - 1] # Percent)}
  <2>1. k - 1 \in T /\ T \subseteq Nat
    OBVIOUS
  <2>2. PICK x \in T : \A y \in T : x <= y
    BY <2>1, LeastElement, Zenon
  <2>3. x \in Nat /\ x <= k - 1 /\ (x = k - 1 \/ f[(k - x) - 1] # Percent)
    BY <2>2
  <2>4. ASSUME NEW j \in k - x .. k - 1
        PROVE  f[j] = Percent
    <3>1. (k - j) - 1 \in Nat /\ (k - j) - 1 < x /\ (k - ((k - j) - 1)) - 1 = j
      BY <2>3
    <3>2. (k - j) - 1 \notin T
      BY <2>2, <3>1
    <3> QED BY <2>3, <3>1, <3>2
  <2>5. x % 2 # 1
    <3>1. ASSUME x % 2 = 1
          PROVE  Converts(f, k)
      <4>1. x \in 1 .. k - 1
        BY <2>3, <3>1
      <4> QED BY <2>3, <2>4, <3>1, <4>1 DEF Converts
    <3> QED BY <1>4, <3>1
  <2>6. /\ x + 1 \in 1 .. (k + 1) - 1 /\ (x + 1) % 2 = 1
        /\ (k + 1) - (x + 1) = k - x /\ (k + 1) - 1 = k
    BY <2>3, <2>5
  <2>7. \A j \in k - x .. k : f[j] = Percent
    <3>1. \A j \in k - x .. k : j = k \/ j \in k - x .. k - 1
      BY <2>3
    <3> QED BY <1>4, <2>4, <3>1
  <2> HIDE DEF T
  <2> QED BY <2>3, <2>6, <2>7 DEF Converts
<1> QED BY <1>1, <1>2, <1>3, <1>4

LEMMA TakesNext ==
  ASSUME NEW f, NEW k \in Nat
  PROVE  /\ Cardinality(Takes(f, k)) \in Nat
         /\ Takes(f, 0) = {} /\ Cardinality(Takes(f, 0)) = 0
         /\ (Converts(f, k + 1) /\ f[k + 1] \in {Letter.c, Letter.d, Letter.s}) =>
              Cardinality(Takes(f, k + 1)) = Cardinality(Takes(f, k)) + 1
         /\ ~ (Converts(f, k + 1) /\ f[k + 1] \in {Letter.c, Letter.d, Letter.s}) =>
              Cardinality(Takes(f, k + 1)) = Cardinality(Takes(f, k))
         /\ \A n \in Nat : k <= n => Cardinality(Takes(f, k)) <= Cardinality(Takes(f, n))
<1>1. \A n \in Nat : IsFiniteSet(Takes(f, n)) /\ Cardinality(Takes(f, n)) \in Nat
  <2>1. SUFFICES ASSUME NEW n \in Nat PROVE IsFiniteSet(Takes(f, n))
    BY FS_CardinalityType
  <2>2. IsFiniteSet(1 .. n) /\ Takes(f, n) \subseteq 1 .. n
    BY FS_Interval DEF Takes
  <2> QED BY <2>2, FS_Subset
<1>2. Takes(f, 0) = {} /\ Cardinality(Takes(f, 0)) = 0
  <2>1. Takes(f, 0) = {}
    BY DEF Takes
  <2> QED BY <2>1, FS_EmptySet
<1>3. ASSUME Converts(f, k + 1) /\ f[k + 1] \in {Letter.c, Letter.d, Letter.s}
      PROVE  Cardinality(Takes(f, k + 1)) = Cardinality(Takes(f, k)) + 1
  <2>1. Takes(f, k + 1) = Takes(f, k) \cup {k + 1} /\ k + 1 \notin Takes(f, k)
    BY <1>3 DEF Takes
  <2> QED BY <1>1, <2>1, FS_AddElement
<1>4. ASSUME ~ (Converts(f, k + 1) /\ f[k + 1] \in {Letter.c, Letter.d, Letter.s})
      PROVE  Cardinality(Takes(f, k + 1)) = Cardinality(Takes(f, k))
  <2>1. Takes(f, k + 1) = Takes(f, k)
    BY <1>4 DEF Takes
  <2> QED BY <2>1
<1>5. ASSUME NEW n \in Nat, k <= n
      PROVE  Cardinality(Takes(f, k)) <= Cardinality(Takes(f, n))
  <2>1. Takes(f, k) \subseteq Takes(f, n)
    BY <1>5 DEF Takes
  <2> QED BY <1>1, <2>1, FS_Subset
<1> QED BY <1>1, <1>2, <1>3, <1>4, <1>5
-----------------------------------------------------------------------------
(* FlattenSeq, which is recursive, appends.                                *)
Flat(s, n, g) ==
  g = [i \in 1 .. n |-> IF i = 1 THEN s[i] ELSE g[i - 1] \o s[i]]

LEMMA FlatExists ==
  ASSUME NEW s
  PROVE  \A n \in Nat : \E g : Flat(s, n, g)
<1> DEFINE S == {n \in Nat : \E g : Flat(s, n, g)}
<1>1. 0 \in S
  <2> DEFINE g == [i \in 1 .. 0 |-> 0]
  <2>1. Flat(s, 0, g)
    BY DEF Flat
  <2> QED BY <2>1
<1>2. ASSUME NEW n \in Nat, n \in S
      PROVE  n + 1 \in S
  <2>1. PICK u : Flat(s, n, u)
    BY <1>2
  <2> DEFINE g == [i \in 1 .. n + 1 |->
                     IF i # n + 1 THEN u[i] ELSE IF i = 1 THEN s[i] ELSE u[n] \o s[i]]
             h == [i \in 1 .. n + 1 |-> IF i = 1 THEN s[i] ELSE g[i - 1] \o s[i]]
  <2>2. ASSUME NEW i \in 1 .. n + 1
        PROVE  g[i] = h[i]
    <3>1. i # 1 => i - 1 \in 1 .. n + 1 /\ i - 1 # n + 1 /\ g[i - 1] = u[i - 1]
      OBVIOUS
    <3>2. CASE i = n + 1
      BY <3>1, <3>2
    <3>3. CASE i # n + 1
      <4>1. i \in 1 .. n
        BY <3>3
      <4>2. u[i] = IF i = 1 THEN s[i] ELSE u[i - 1] \o s[i]
        BY <2>1, <4>1 DEF Flat
      <4> QED BY <3>1, <3>3, <4>2
    <3> QED BY <3>2, <3>3
  <2>3. g = h
    BY <2>2
  <2>4. Flat(s, n + 1, g)
    BY <2>3 DEF Flat
  <2> QED BY <2>4
<1> HIDE DEF S
<1>3. Nat \subseteq S
  BY <1>1, <1>2, Induction
<1> QED BY <1>3 DEF S

LEMMA FlattenDef ==
  ASSUME NEW s, Len(s) \in Nat
  PROVE  /\ Len(s) = 0 => FlattenSeq(s) = s
         /\ Len(s) # 0 => \E g : Flat(s, Len(s), g) /\ FlattenSeq(s) = g[Len(s)]
<1> DEFINE P(g) == g = [i \in 1 .. Len(s) |-> IF i = 1 THEN s[i] ELSE g[i - 1] \o s[i]]
           v == CHOOSE g : P(g)
<1>1. \E g : P(g)
  <2>1. \E g : Flat(s, Len(s), g)
    BY FlatExists
  <2> QED BY <2>1, Zenon DEF Flat
<1>2. FlattenSeq(s) = IF Len(s) = 0 THEN s ELSE v[Len(s)]
  BY DEF FlattenSeq
<1> HIDE DEF P
<1>3. P(v)
  BY <1>1, Zenon
<1>4. Flat(s, Len(s), v)
  BY <1>3 DEF P, Flat
<1> QED BY <1>2, <1>4

LEMMA FlattenAppend ==
  ASSUME NEW C, NEW s \in Seq(Seq(C)), NEW e \in Seq(C)
  PROVE  /\ FlattenSeq(s) \in Seq(C)
         /\ FlattenSeq(Append(s, e)) = FlattenSeq(s) \o e
<1> DEFINE t == Append(s, e)
           N == Len(s)
<1>1. /\ N \in Nat /\ Len(t) = N + 1 /\ t[N + 1] = e
      /\ \A i \in 1 .. N : t[i] = s[i] /\ s[i] \in Seq(C)
  OBVIOUS
<1> HIDE DEF t
<1>2. PICK h : Flat(t, N + 1, h) /\ FlattenSeq(t) = h[N + 1]
  BY <1>1, FlattenDef
<1>3. \A i \in 1 .. N + 1 : h[i] = IF i = 1 THEN t[i] ELSE h[i - 1] \o t[i]
  BY <1>2 DEF Flat
<1>4. CASE N = 0
  <2>1. s = <<>> /\ FlattenSeq(s) = <<>> /\ <<>> \o e = e
    BY <1>1, <1>4, FlattenDef
  <2>2. 1 \in 1 .. N + 1 /\ N + 1 = 1
    BY <1>4
  <2>3. h[1] = t[1]
    BY <1>3, <2>2
  <2>4. FlattenSeq(t) = e
    BY <1>1, <1>2, <2>2, <2>3
  <2>5. <<>> \in Seq(C)
    OBVIOUS
  <2> QED BY <2>1, <2>4, <2>5 DEF t
<1>5. CASE N # 0
  <2>1. PICK g : Flat(s, N, g) /\ FlattenSeq(s) = g[N]
    BY <1>1, <1>5, FlattenDef
  <2>2. \A i \in 1 .. N : g[i] = IF i = 1 THEN s[i] ELSE g[i - 1] \o s[i]
    BY <2>1 DEF Flat
  <2> DEFINE S == {n \in Nat : n \in 1 .. N => g[n] = h[n] /\ g[n] \in Seq(C)}
  <2>3. 0 \in S
    OBVIOUS
  <2>4. ASSUME NEW n \in Nat, n \in S
        PROVE  n + 1 \in S
    <3>1. SUFFICES ASSUME n + 1 \in 1 .. N
                   PROVE  g[n + 1] = h[n + 1] /\ g[n + 1] \in Seq(C)
      OBVIOUS
    <3>2. n + 1 \in 1 .. N + 1 /\ (n + 1) - 1 = n /\ n + 1 # N + 1
      BY <1>1, <3>1
    <3>3. /\ g[n + 1] = IF n + 1 = 1 THEN s[n + 1] ELSE g[n] \o s[n + 1]
          /\ h[n + 1] = IF n + 1 = 1 THEN t[n + 1] ELSE h[n] \o t[n + 1]
          /\ t[n + 1] = s[n + 1] /\ s[n + 1] \in Seq(C)
      BY <1>1, <1>3, <2>2, <3>1, <3>2
    <3>4. n # 0 => g[n] = h[n] /\ g[n] \in Seq(C)
      BY <2>4, <3>1
    <3> QED BY <3>3, <3>4
  <2> HIDE DEF S
  <2>5. Nat \subseteq S
    BY <2>3, <2>4, Induction
  <2>6. g[N] = h[N] /\ g[N] \in Seq(C)
    BY <1>1, <1>5, <2>5 DEF S
  <2>7. h[N + 1] = h[N] \o e
    <3>1. N + 1 \in 1 .. N + 1 /\ N + 1 # 1 /\ (N + 1) - 1 = N
      BY <1>1, <1>5
    <3> QED BY <1>1, <1>3, <3>1
  <2> QED BY <1>2, <2>1, <2>6, <2>7 DEF t
<1> QED BY <1>4, <1>5
-----------------------------------------------------------------------------
(* The weights of the digits.                                              *)
IsTens(n, g) == g = [k \in 0 .. n |-> IF k = 0 THEN 1 ELSE 10 * g[k - 1]]

LEMMA TensExists == \A n \in Nat : \E g : IsTens(n, g)
<1> DEFINE S == {n \in Nat : \E g : IsTens(n, g)}
<1>1. 0 \in S
  <2> DEFINE g == [k \in 0 .. 0 |-> 1]
  <2>1. IsTens(0, g)
    BY DEF IsTens
  <2> QED BY <2>1
<1>2. ASSUME NEW n \in Nat, n \in S
      PROVE  n + 1 \in S
  <2>1. PICK u : IsTens(n, u)
    BY <1>2
  <2> DEFINE g == [k \in 0 .. n + 1 |-> IF k # n + 1 THEN u[k] ELSE 10 * u[n]]
             h == [k \in 0 .. n + 1 |-> IF k = 0 THEN 1 ELSE 10 * g[k - 1]]
  <2>2. ASSUME NEW k \in 0 .. n + 1
        PROVE  g[k] = h[k]
    <3>1. k # 0 => k - 1 \in 0 .. n + 1 /\ k - 1 # n + 1 /\ g[k - 1] = u[k - 1]
      OBVIOUS
    <3>2. CASE k = n + 1
      BY <3>1, <3>2
    <3>3. CASE k # n + 1
      <4>1. k \in 0 .. n
        BY <3>3
      <4>2. u[k] = IF k = 0 THEN 1 ELSE 10 * u[k - 1]
        BY <2>1, <4>1 DEF IsTens
      <4> QED BY <3>1, <3>3, <4>2
    <3> QED BY <3>2, <3>3
  <2>3. g = h
    BY <2>2
  <2>4. IsTens(n + 1, g)
    BY <2>3 DEF IsTens
  <2> QED BY <2>4
<1> HIDE DEF S
<1>3. Nat \subseteq S
  BY <1>1, <1>2, Induction
<1> QED BY <1>3 DEF S

LEMMA TensNext ==
  /\ \A k \in 0 .. Digits : Tens[k] \in Nat \ {0}
  /\ Tens[0] = 1
  /\ \A k \in 0 .. Digits - 1 : Tens[k + 1] = 10 * Tens[k]
<1> USE PrintfAssumption
<1> DEFINE P(g) == g = [k \in 0 .. Digits |-> IF k = 0 THEN 1 ELSE 10 * g[k - 1]]
<1>1. \E g : P(g)
  <2>1. \E g : IsTens(Digits, g)
    BY TensExists
  <2> QED BY <2>1, Zenon DEF IsTens
<1>2. Tens = CHOOSE g : P(g)
  BY DEF Tens
<1> HIDE DEF P
<1>3. P(Tens)
  BY <1>1, <1>2, Zenon
<1>4. \A k \in 0 .. Digits : Tens[k] = IF k = 0 THEN 1 ELSE 10 * Tens[k - 1]
  BY <1>3 DEF P
<1>5. Tens[0] = 1
  BY <1>4
<1>6. ASSUME NEW k \in 0 .. Digits - 1
      PROVE  Tens[k + 1] = 10 * Tens[k]
  <2>1. k + 1 \in 0 .. Digits /\ k + 1 # 0 /\ (k + 1) - 1 = k
    OBVIOUS
  <2> QED BY <1>4, <2>1
<1> DEFINE S == {k \in Nat : k \in 0 .. Digits => Tens[k] \in Nat \ {0}}
<1>7. 0 \in S
  BY <1>5
<1>8. ASSUME NEW n \in Nat, n \in S
      PROVE  n + 1 \in S
  <2>1. SUFFICES ASSUME n + 1 \in 0 .. Digits PROVE Tens[n + 1] \in Nat \ {0}
    OBVIOUS
  <2>2. Tens[n] \in Nat \ {0} /\ Tens[n + 1] = 10 * Tens[n]
    BY <1>6, <1>8, <2>1
  <2> QED BY <2>2
<1> HIDE DEF S
<1>9. Nat \subseteq S
  BY <1>7, <1>8, Induction
<1>10. \A k \in 0 .. Digits : Tens[k] \in Nat \ {0}
  BY <1>9 DEF S
<1> QED BY <1>5, <1>6, <1>10
-----------------------------------------------------------------------------
(* Division by a weight, digit by digit.                                   *)
LEMMA Times ==
  ASSUME NEW b \in Nat, NEW x \in Int, NEW y \in Int, x < y
  PROVE  b * x + b <= b * y
<1>1. PICK z \in Nat : y = (x + 1) + z
  <2>1. y - (x + 1) \in Nat /\ y = (x + 1) + (y - (x + 1))
    OBVIOUS
  <2> QED BY <2>1
<1>2. b * y = (b * x + b) + b * z
  BY <1>1
<1>3. b * z \in Nat /\ b * x \in Int
  OBVIOUS
<1> QED BY <1>2, <1>3

LEMMA DivIs ==
  ASSUME NEW b \in Nat \ {0}, NEW q \in Nat, NEW r \in 0 .. b - 1
  PROVE  (b * q + r) \div b = q
<1> DEFINE a == b * q + r
           x == a \div b
<1>1. a \in Nat
  OBVIOUS
<1> HIDE DEF a
<1>2. x \in Int /\ b * x <= a /\ a < b * x + b
  BY <1>1
<1> HIDE DEF x
<1>3. b * x \in Int /\ b * q \in Int
  BY <1>2
<1>4. ~ (x < q)
  BY <1>2, <1>3, Times DEF a
<1>5. ~ (q < x)
  BY <1>2, <1>3, Times DEF a
<1>6. x = q
  BY <1>2, <1>4, <1>5
<1> QED BY <1>6 DEF a, x

LEMMA DivFacts ==
  ASSUME NEW a \in Nat, NEW b \in Nat \ {0}
  PROVE  /\ a \div b \in Nat
         /\ \E r \in 0 .. b - 1 : a = b * (a \div b) + r
         /\ a < b => a \div b = 0
         /\ a >= b => a \div b # 0
         /\ a \div 1 = a
         /\ (a \div b) \div 10 = a \div (10 * b)
<1>1. a \div b \in Nat
  OBVIOUS
<1>2. PICK r \in 0 .. b - 1 : a = b * (a \div b) + r
  <2> DEFINE q == a \div b
             r == a - b * q
  <2>1. q \in Int /\ b * q <= a /\ a < b * q + b
    OBVIOUS
  <2> HIDE DEF q
  <2>2. b * q \in Int
    BY <2>1
  <2>3. r \in 0 .. b - 1 /\ a = b * q + r
    BY <2>1, <2>2
  <2> QED BY <2>3 DEF q
<1>3. a < b => a \div b = 0
  <2>1. a < b => b * 0 + a = a /\ a \in 0 .. b - 1
    OBVIOUS
  <2> QED BY <2>1, DivIs
<1>4. a >= b => a \div b # 0
  BY <1>2
<1>5. (a \div b) \div 10 = a \div (10 * b)
  <2> DEFINE q == a \div b
             q2 == q \div 10
             t == q % 10
             r2 == b * t + r
  <2>1. q \in Nat /\ q2 \in Nat /\ t \in 0 .. 9 /\ q = 10 * q2 + t
    BY <1>1
  <2>2. a = b * q + r
    BY <1>2
  <2> HIDE DEF q, q2, t
  <2>3. b * t \in Nat /\ b * t <= 9 * b
    <3>1. t = 9 \/ t < 9
      BY <2>1
    <3>2. b * 9 = 9 * b /\ b * t \in Nat
      BY <2>1
    <3>3. t < 9 => b * t + b <= b * 9
      BY <2>1, Times
    <3> QED BY <3>1, <3>2, <3>3
  <2>4. r2 \in 0 .. (10 * b) - 1
    BY <2>3
  <2>5. a = (10 * b) * q2 + r2
    BY <2>1, <2>2
  <2> HIDE DEF r2
  <2>6. 10 * b \in Nat \ {0}
    OBVIOUS
  <2>7. a \div (10 * b) = q2
    BY <2>1, <2>4, <2>5, <2>6, DivIs
  <2> QED BY <2>7 DEF q2, q
<1> QED BY <1>1, <1>2, <1>3, <1>4, <1>5
-----------------------------------------------------------------------------
(* The digits of one number, from the last.                                *)
Magnitude(d0) == IF d0 < 0 THEN Negate(d0) ELSE d0

OneMore(b) ==
  IF b.d = 0 THEN b
  ELSE [d |-> CDiv(b.d, 10), o |-> <<Char0 + CMod(b.d, 10)>> \o b.o]

IsAfter(d, n, g) ==
  g = [k \in 0 .. n |-> IF k = 0 THEN [d |-> d, o |-> <<>>] ELSE OneMore(g[k - 1])]

LEMMA AfterExists == ASSUME NEW d PROVE \A n \in Nat : \E g : IsAfter(d, n, g)
<1> DEFINE S == {n \in Nat : \E g : IsAfter(d, n, g)}
           first == [d |-> d, o |-> <<>>]
<1>1. 0 \in S
  <2> DEFINE g == [k \in 0 .. 0 |-> first]
  <2>1. IsAfter(d, 0, g)
    BY DEF IsAfter
  <2> QED BY <2>1
<1>2. ASSUME NEW n \in Nat, n \in S
      PROVE  n + 1 \in S
  <2>1. PICK u : IsAfter(d, n, u)
    BY <1>2
  <2> DEFINE g == [k \in 0 .. n + 1 |-> IF k # n + 1 THEN u[k] ELSE OneMore(u[n])]
             h == [k \in 0 .. n + 1 |-> IF k = 0 THEN first ELSE OneMore(g[k - 1])]
  <2>2. ASSUME NEW k \in 0 .. n + 1
        PROVE  g[k] = h[k]
    <3>1. k # 0 => k - 1 \in 0 .. n + 1 /\ k - 1 # n + 1 /\ g[k - 1] = u[k - 1]
      OBVIOUS
    <3>2. CASE k = n + 1
      BY <3>1, <3>2
    <3>3. CASE k # n + 1
      <4>1. k \in 0 .. n
        BY <3>3
      <4>2. u[k] = IF k = 0 THEN first ELSE OneMore(u[k - 1])
        BY <2>1, <4>1 DEF IsAfter
      <4> QED BY <3>1, <3>3, <4>2
    <3> QED BY <3>2, <3>3
  <2>3. g = h
    BY <2>2
  <2>4. IsAfter(d, n + 1, g)
    BY <2>3 DEF IsAfter
  <2> QED BY <2>4
<1> HIDE DEF S
<1>3. Nat \subseteq S
  BY <1>1, <1>2, Induction
<1> QED BY <1>3 DEF S

LEMMA DecimalDef ==
  ASSUME NEW d0
  PROVE  \E g : /\ IsAfter(Magnitude(d0), Digits - 1, g)
                /\ Decimal(d0) =
                     IF d0 = 0 THEN <<Char0>>
                     ELSE IF d0 < 0 /\ Len(g[Digits - 1].o) < Digits - 1
                     THEN <<Minus>> \o g[Digits - 1].o ELSE g[Digits - 1].o
<1> DEFINE d == Magnitude(d0)
           P(g) == g = [k \in 0 .. Digits - 1 |->
                     IF k = 0 THEN [d |-> d, o |-> <<>>]
                     ELSE LET b == g[k - 1]
                          IN IF b.d = 0 THEN b
                             ELSE [d |-> CDiv(b.d, 10),
                                   o |-> <<Char0 + CMod(b.d, 10)>> \o b.o]]
           v == CHOOSE g : P(g)
<1>1. Digits - 1 \in Nat
  BY PrintfAssumption
<1>2. \E g : P(g)
  <2>1. \E g : IsAfter(d, Digits - 1, g)
    BY <1>1, AfterExists
  <2> QED BY <2>1, Zenon DEF IsAfter, OneMore
<1>3. Decimal(d0) =
        IF d0 = 0 THEN <<Char0>>
        ELSE IF d0 < 0 /\ Len(v[Digits - 1].o) < Digits - 1
        THEN <<Minus>> \o v[Digits - 1].o ELSE v[Digits - 1].o
  BY DEF Decimal, Magnitude
<1> HIDE DEF P
<1>4. P(v)
  BY <1>2, Zenon
<1>5. IsAfter(d, Digits - 1, v)
  BY <1>4 DEF P, IsAfter, OneMore
<1> QED BY <1>3, <1>5

LEMMA AfterNext ==
  ASSUME NEW d, NEW n \in Nat, NEW g, IsAfter(d, n, g)
  PROVE  /\ g[0] = [d |-> d, o |-> <<>>]
         /\ \A k \in 0 .. n - 1 : g[k + 1] = OneMore(g[k])
<1>1. \A k \in 0 .. n : g[k] = IF k = 0 THEN [d |-> d, o |-> <<>>] ELSE OneMore(g[k - 1])
  BY DEF IsAfter
<1>2. ASSUME NEW k \in 0 .. n - 1 PROVE g[k + 1] = OneMore(g[k])
  <2>1. k + 1 \in 0 .. n /\ k + 1 # 0 /\ (k + 1) - 1 = k
    OBVIOUS
  <2> QED BY <1>1, <2>1
<1> QED BY <1>1, <1>2

Code == 0 .. 255

(* Decimal gives characters, of any int.                                   *)
LEMMA DecimalType == \A d0 \in Int : Decimal(d0) \in Seq(Code)
<1> SUFFICES ASSUME NEW d0 \in Int PROVE Decimal(d0) \in Seq(Code)
  OBVIOUS
<1> DEFINE d == Magnitude(d0)
           N == Digits - 1
           P(b) == b.d \in Int /\ b.o \in Seq(Code)
<1>1. N \in Nat /\ d \in Int
  BY PrintfAssumption DEF Magnitude, Negate, IntMin
<1>2. PICK g : /\ IsAfter(d, N, g)
               /\ Decimal(d0) =
                    IF d0 = 0 THEN <<Char0>>
                    ELSE IF d0 < 0 /\ Len(g[N].o) < N
                    THEN <<Minus>> \o g[N].o ELSE g[N].o
  BY DecimalDef
<1> HIDE DEF d, N
<1>3. g[0] = [d |-> d, o |-> <<>>] /\ \A k \in 0 .. N - 1 : g[k + 1] = OneMore(g[k])
  BY <1>1, <1>2, AfterNext
<1>4. ASSUME NEW b, P(b)
      PROVE  P(OneMore(b))
  <2>1. CASE b.d = 0
    BY <1>4, <2>1 DEF OneMore
  <2>2. CASE b.d # 0
    <3>1. b.d \in Int
      BY <1>4
    <3>2. CDiv(b.d, 10) \in Int /\ CMod(b.d, 10) \in -9 .. 9
      BY <3>1 DEF CDiv, CMod
    <3>3. Char0 + CMod(b.d, 10) \in Code
      BY <3>2 DEF Char0, Code
    <3>4. <<Char0 + CMod(b.d, 10)>> \o b.o \in Seq(Code)
      BY <1>4, <3>3
    <3>5. OneMore(b) = [d |-> CDiv(b.d, 10), o |-> <<Char0 + CMod(b.d, 10)>> \o b.o]
      BY <2>2 DEF OneMore
    <3> QED BY <3>2, <3>4, <3>5
  <2> QED BY <2>1, <2>2
<1> DEFINE S == {k \in Nat : k \in 0 .. N => P(g[k])}
<1>5. 0 \in S
  <2>1. g[0].d = d /\ g[0].o = <<>>
    BY <1>3
  <2>2. <<>> \in Seq(Code)
    OBVIOUS
  <2> QED BY <1>1, <2>1, <2>2
<1>6. ASSUME NEW k \in Nat, k \in S PROVE k + 1 \in S
  <2>1. SUFFICES ASSUME k + 1 \in 0 .. N PROVE P(g[k + 1])
    OBVIOUS
  <2>2. k \in 0 .. N /\ k \in 0 .. N - 1
    BY <1>1, <2>1
  <2>3. P(g[k]) /\ g[k + 1] = OneMore(g[k])
    BY <1>3, <1>6, <2>2
  <2> QED BY <1>4, <2>3
<1> HIDE DEF S, P
<1>7. Nat \subseteq S
  BY <1>5, <1>6, Induction
<1>8. g[N].o \in Seq(Code)
  BY <1>1, <1>7 DEF S, P
<1>9. <<Char0>> \in Seq(Code) /\ <<Minus>> \in Seq(Code)
  BY DEF Char0, Minus, Code
<1> QED BY <1>2, <1>8, <1>9

(* One element in front of a sequence.                                     *)
LEMMA InFront ==
  ASSUME NEW C, NEW x \in C, NEW z \in Seq(C)
  PROVE  /\ <<x>> \o z \in Seq(C) /\ Len(<<x>> \o z) = Len(z) + 1
         /\ (<<x>> \o z)[1] = x
         /\ \A i \in 2 .. Len(z) + 1 : (<<x>> \o z)[i] = z[i - 1]
<1> DEFINE a == <<x>>
<1>1. a \in Seq(C) /\ Len(a) = 1 /\ a[1] = x
  OBVIOUS
<1> HIDE DEF a
<1>2. /\ a \o z \in Seq(C) /\ Len(a \o z) = Len(a) + Len(z)
      /\ \A i \in 1 .. Len(a) + Len(z) :
           (a \o z)[i] = IF i <= Len(a) THEN a[i] ELSE z[i - Len(a)]
  BY ONLY <1>1, z \in Seq(C), ConcatProperties
<1>3. Len(z) \in Nat
  OBVIOUS
<1>4. (a \o z)[1] = x
  BY <1>1, <1>2, <1>3
<1>5. \A i \in 2 .. Len(z) + 1 : (a \o z)[i] = z[i - 1]
  BY <1>1, <1>2, <1>3
<1> QED BY <1>1, <1>2, <1>4, <1>5 DEF a

(* The last k digits of n, by their weights.                               *)
DigitsOf(n, k) == [i \in 1 .. k |-> Char0 + ((n \div Tens[k - i]) % 10)]

HasLength(n, l) == n < Tens[l] /\ \A k \in 1 .. l - 1 : n >= Tens[k]

LEMMA LengthOf ==
  ASSUME NEW n \in 0 .. IntMax
  PROVE  /\ \E l \in 1 .. Digits : HasLength(n, l)
         /\ \A l \in 1 .. Digits : HasLength(n, l) => l <= Digits - 2
<1> DEFINE T == {l \in Nat : l \in 1 .. Digits /\ n < Tens[l]}
<1>1. /\ Digits - 2 \in 1 .. Digits /\ Digits \in Nat /\ IntMax \in Nat
      /\ Tens[Digits - 2] \in Nat /\ n < Tens[Digits - 2]
  <2>1. Tens[Digits - 2] > IntMax /\ IntMax \in Nat /\ Digits \in Nat /\ Digits > 2
    BY PrintfAssumption
  <2>2. Digits - 2 \in 0 .. Digits
    BY <2>1
  <2>3. Tens[Digits - 2] \in Nat
    BY <2>2, TensNext
  <2> QED BY <2>1, <2>3
<1>2. Digits - 2 \in T /\ T \subseteq Nat
  BY <1>1
<1>3. PICK l \in T : \A x \in T : l <= x
  BY <1>2, LeastElement, Zenon
<1>4. ASSUME NEW k \in 1 .. l - 1
      PROVE  n >= Tens[k]
  <2>1. k \in 1 .. Digits /\ k \in Nat /\ k < l
    <3>1. l \in 1 .. Digits
      BY <1>3
    <3> QED BY <1>1, <3>1
  <2>2. ~ n < Tens[k]
    BY <1>3, <2>1
  <2>3. Tens[k] \in Nat
    BY <2>1, TensNext
  <2> QED BY <2>2, <2>3
<1>5. ASSUME NEW m \in 1 .. Digits, HasLength(n, m)
      PROVE  m <= Digits - 2
  <2>1. ASSUME Digits - 2 < m PROVE FALSE
    <3>1. Digits - 2 \in 1 .. m - 1
      BY <1>1, <2>1
    <3>2. n >= Tens[Digits - 2]
      BY <1>5, <3>1 DEF HasLength
    <3> QED BY <1>1, <3>2
  <2> QED BY <1>1, <2>1
<1> QED BY <1>3, <1>4, <1>5 DEF HasLength

LEMMA NotationDef ==
  ASSUME NEW d0
  PROVE  LET n == IF d0 < 0 THEN - d0 ELSE d0
             len == CHOOSE l \in 1 .. Digits : HasLength(n, l)
         IN Notation(d0) = IF d0 < 0 THEN <<Minus>> \o DigitsOf(n, len)
                           ELSE DigitsOf(n, len)
BY Zenon DEF Notation, DigitsOf, HasLength

(* Decimal gives the decimal notation of every int but the least.          *)
LEMMA DecimalIs ==
  ASSUME NEW d0 \in IntMin .. IntMax, d0 # IntMin
  PROVE  Decimal(d0) = Notation(d0)
<1> DEFINE n == IF d0 < 0 THEN - d0 ELSE d0
           N == Digits - 1
           len == CHOOSE l \in 1 .. Digits : HasLength(n, l)
<1>1. /\ N \in Nat /\ n \in 0 .. IntMax /\ n = Magnitude(d0) /\ d0 \in Int
      /\ n = 0 <=> d0 = 0
  BY PrintfAssumption DEF Magnitude, Negate, IntMin
<1>2. /\ Notation(d0) = IF d0 < 0 THEN <<Minus>> \o DigitsOf(n, len)
                        ELSE DigitsOf(n, len)
  BY NotationDef
<1>3. PICK g : /\ IsAfter(n, N, g)
               /\ Decimal(d0) =
                    IF d0 = 0 THEN <<Char0>>
                    ELSE IF d0 < 0 /\ Len(g[N].o) < N
                    THEN <<Minus>> \o g[N].o ELSE g[N].o
  BY <1>1, DecimalDef, Zenon
<1> HIDE DEF n
<1>4. len \in 1 .. Digits /\ HasLength(n, len) /\ len <= Digits - 2
  <2>1. len \in 1 .. Digits /\ HasLength(n, len)
    BY <1>1, LengthOf, Zenon
  <2> HIDE DEF len
  <2> QED BY <1>1, <2>1, LengthOf
<1> HIDE DEF len
<1>5. Digits \in Nat /\ IntMax \in Nat /\ len \in 1 .. N - 1 /\ n \in Nat
  <2>1. Digits \in Nat /\ IntMax \in Nat
    BY PrintfAssumption
  <2> QED BY <1>1, <1>4, <2>1
<1>6. /\ \A k \in 0 .. Digits : Tens[k] \in Nat \ {0}
      /\ \A k \in 0 .. N : Tens[k + 1] = 10 * Tens[k]
      /\ Tens[0] = 1
  BY TensNext
<1>7. g[0] = [d |-> n, o |-> <<>>] /\ \A k \in 0 .. N - 1 : g[k + 1] = OneMore(g[k])
  BY <1>1, <1>3, AfterNext
<1>8. CASE n = 0
  <2>1. len = 1
    <3>1. ASSUME len # 1 PROVE FALSE
      <4>1. 1 \in 1 .. len - 1 /\ 1 \in 0 .. Digits
        BY <1>5, <3>1
      <4>2. n >= Tens[1]
        BY <1>4, <4>1 DEF HasLength
      <4> QED BY <1>6, <1>8, <4>1, <4>2
    <3> QED BY <3>1
  <2>2. DigitsOf(n, 1) = <<Char0>>
    <3>1. n \div Tens[1 - 1] = 0
      BY <1>6, <1>8
    <3>2. \A i \in 1 .. 1 : i = 1
      OBVIOUS
    <3>3. DigitsOf(n, 1) = [i \in 1 .. 1 |-> Char0]
      BY <3>1, <3>2 DEF DigitsOf, Char0
    <3> QED BY <3>3
  <2> QED BY <1>1, <1>2, <1>3, <1>8, <2>1, <2>2
<1>9. CASE n # 0
  <2> DEFINE S == {k \in Nat : k \in 0 .. len =>
                     g[k].d = n \div Tens[k] /\ g[k].o = DigitsOf(n, k)}
  <2>1. 0 \in S
    <3>1. n \div Tens[0] = n
      BY <1>5, <1>6, DivFacts
    <3>2. DigitsOf(n, 0) = <<>>
      BY DEF DigitsOf
    <3> QED BY <1>7, <3>1, <3>2
  <2>2. ASSUME NEW k \in Nat, k \in S PROVE k + 1 \in S
    <3>1. SUFFICES ASSUME k + 1 \in 0 .. len
                   PROVE  g[k + 1].d = n \div Tens[k + 1] /\ g[k + 1].o = DigitsOf(n, k + 1)
      OBVIOUS
    <3>2. /\ k \in 0 .. len /\ k \in 0 .. N - 1 /\ k \in 0 .. N /\ k \in 0 .. Digits
          /\ k < len
      BY <1>5, <3>1
    <3> DEFINE q == n \div Tens[k]
    <3>3. g[k].d = q /\ g[k].o = DigitsOf(n, k)
      BY <2>2, <3>2
    <3>4. Tens[k] \in Nat \ {0} /\ Tens[k + 1] = 10 * Tens[k] /\ n >= Tens[k]
      <4>1. k # 0 => k \in 1 .. len - 1
        BY <1>5, <3>2
      <4>2. k # 0 => n >= Tens[k]
        BY <1>4, <4>1 DEF HasLength
      <4>3. Tens[k] \in Nat \ {0} /\ Tens[k + 1] = 10 * Tens[k]
        BY <1>6, <3>2
      <4> QED BY <1>5, <1>6, <1>9, <4>2, <4>3
    <3>5. q \in Nat /\ q # 0 /\ q \div 10 = n \div Tens[k + 1]
      BY <1>5, <3>4, DivFacts
    <3> HIDE DEF q
    <3>6. CDiv(q, 10) = q \div 10 /\ CMod(q, 10) = q % 10
      BY <3>5 DEF CDiv, CMod
    <3>7. OneMore(g[k]) = [d |-> q \div 10, o |-> <<Char0 + (q % 10)>> \o DigitsOf(n, k)]
      BY <3>3, <3>5, <3>6 DEF OneMore
    <3>8. g[k + 1] = OneMore(g[k])
      BY <1>7, <3>2
    <3>9. <<Char0 + (q % 10)>> \o DigitsOf(n, k) = DigitsOf(n, k + 1)
      <4> DEFINE a == <<Char0 + (q % 10)>>
                 z == DigitsOf(n, k)
                 y == DigitsOf(n, k + 1)
      <4>1. /\ Len(z) = k /\ \A i \in 1 .. k : z[i] = Char0 + ((n \div Tens[k - i]) % 10)
            /\ z \in Seq(Int)
        <5>1. \A i \in 1 .. k : k - i \in 0 .. Digits
          BY <1>5, <3>2
        <5>2. \A i \in 1 .. k : n \div Tens[k - i] \in Nat
          BY <1>5, <1>6, <5>1, DivFacts
        <5>3. \A i \in 1 .. k : Char0 + ((n \div Tens[k - i]) % 10) \in Int
          BY <5>2 DEF Char0
        <5> QED BY <5>3 DEF DigitsOf
      <4>2. /\ DOMAIN y = 1 .. k + 1
            /\ \A i \in 1 .. k + 1 : y[i] = Char0 + ((n \div Tens[(k + 1) - i]) % 10)
        BY DEF DigitsOf
      <4>3. a[1] = Char0 + (q % 10)
        OBVIOUS
      <4> HIDE DEF a, z, y
      <4>4. /\ a \o z \in Seq(Int) /\ Len(a \o z) = k + 1
            /\ (a \o z)[1] = a[1]
            /\ \A i \in 2 .. k + 1 : (a \o z)[i] = z[i - 1]
        <5> DEFINE x == a[1]
        <5>1. x \in Int /\ a = <<x>> /\ a[1] = x
          BY <3>5 DEF a, Char0
        <5> HIDE DEF x
        <5>2. /\ <<x>> \o z \in Seq(Int) /\ Len(<<x>> \o z) = Len(z) + 1
              /\ (<<x>> \o z)[1] = x
              /\ \A i \in 2 .. Len(z) + 1 : (<<x>> \o z)[i] = z[i - 1]
          BY <4>1, <5>1, InFront
        <5> QED BY <4>1, <5>1, <5>2
      <4>5. ASSUME NEW i \in 1 .. k + 1
            PROVE  (a \o z)[i] = y[i]
        <5>1. CASE i = 1
          <6>1. (k + 1) - i = k
            BY <5>1
          <6> QED BY <4>2, <4>3, <4>4, <5>1, <6>1 DEF q
        <5>2. CASE i # 1
          <6>1. i \in 2 .. k + 1 /\ i - 1 \in 1 .. k /\ (k + 1) - i = k - (i - 1)
            BY <5>2
          <6> QED BY <4>1, <4>2, <4>4, <6>1
        <5> QED BY <5>1, <5>2
      <4>6. y = [i \in 1 .. k + 1 |-> (a \o z)[i]]
        <5>1. y = [i \in 1 .. k + 1 |-> y[i]]
          BY <4>2 DEF y, DigitsOf
        <5> QED BY <4>5, <5>1
      <4>7. a \o z = [i \in 1 .. k + 1 |-> (a \o z)[i]]
        <5>1. DOMAIN (a \o z) = 1 .. k + 1
          BY <4>4
        <5> DEFINE w == a \o z
        <5>2. w \in Seq(Int)
          BY <4>4
        <5> HIDE DEF w
        <5>3. w = [i \in DOMAIN w |-> w[i]]
          BY <5>2
        <5> QED BY <5>1, <5>3 DEF w
      <4>8. a \o z = y
        BY <4>6, <4>7
      <4> QED BY <4>8 DEF a, z, y
    <3> QED BY <3>5, <3>7, <3>8, <3>9
  <2> HIDE DEF S
  <2>3. Nat \subseteq S
    BY <2>1, <2>2, Induction
  <2>4. g[len].d = 0 /\ g[len].o = DigitsOf(n, len)
    <3>1. len \in Nat /\ len \in 0 .. len /\ len \in 0 .. Digits
      BY <1>5
    <3>2. g[len].d = n \div Tens[len] /\ g[len].o = DigitsOf(n, len)
      BY <2>3, <3>1 DEF S
    <3>3. n < Tens[len] /\ Tens[len] \in Nat \ {0}
      BY <1>4, <1>6, <3>1 DEF HasLength
    <3> QED BY <1>5, <3>2, <3>3, DivFacts
  <2> DEFINE T == {k \in Nat : k \in 0 .. N - len => g[len + k] = g[len]}
  <2>5. 0 \in T
    BY <1>5
  <2>6. ASSUME NEW k \in Nat, k \in T PROVE k + 1 \in T
    <3>1. SUFFICES ASSUME k + 1 \in 0 .. N - len PROVE g[len + (k + 1)] = g[len]
      OBVIOUS
    <3>2. k \in 0 .. N - len /\ len + k \in 0 .. N - 1 /\ len + (k + 1) = (len + k) + 1
      BY <1>5, <3>1
    <3>3. g[len + k] = g[len] /\ g[len + (k + 1)] = OneMore(g[len + k])
      BY <1>7, <2>6, <3>2
    <3> QED BY <2>4, <3>3 DEF OneMore
  <2> HIDE DEF T
  <2>7. Nat \subseteq T
    BY <2>5, <2>6, Induction
  <2>8. g[N].o = DigitsOf(n, len)
    <3>1. N - len \in Nat /\ N - len \in 0 .. N - len /\ len + (N - len) = N
      BY <1>5
    <3>2. g[len + (N - len)] = g[len]
      BY <2>7, <3>1 DEF T
    <3> QED BY <2>4, <3>1, <3>2
  <2>9. Len(DigitsOf(n, len)) < N
    BY <1>5 DEF DigitsOf
  <2> QED BY <1>1, <1>2, <1>3, <1>9, <2>8, <2>9
<1> QED BY <1>8, <1>9
-----------------------------------------------------------------------------
(* The invariant. An ordinary call has no argument IntMin.                 *)
Ordinary(cl) == \A i \in DOMAIN cl.args : cl.args[i].n # IntMin

Text == [i \in 1 .. p |-> str[i - 1]]

(* text is the first n pieces of the format of cl, and left room all the   *)
(* way.                                                                    *)
Printed(cl, n, text) ==
  /\ \A k \in 1 .. n : Piece(cl, k) \in Seq(Code)
  /\ \A k \in 1 .. n : Len(Pieces(cl, k)) <= Size - 2
  /\ text = Pieces(cl, n)

(* The next piece, if there is one, does not fit.                          *)
EndsAt(cl, n, text) ==
  /\ Printed(cl, n, text)
  /\ n < Len(cl.fmt) =>
       /\ Piece(cl, n + 1) \in Seq(Code)
       /\ Len(text) + Len(Piece(cl, n + 1)) > Size - 2

(* Where the loop is in the format and in the arguments.                   *)
Follows ==
  pc = "loop" =>
    /\ spec <=> Converts(call.fmt, format)
    /\ ap = 1 + Cardinality(Takes(call.fmt, format - 1))
    /\ Ordinary(call) => Printed(call, format - 1, Text)

Finished ==
  pc = "done" =>
    /\ str[p] = 0
    /\ Ordinary(call) => \E n \in 0 .. Len(call.fmt) : EndsAt(call, n, Text)

PInv ==
  /\ TypeOK
  /\ str \in [0 .. Size -> Code] /\ str[Size] = Garbage
  /\ Follows
  /\ Finished

Sent == [k \in DOMAIN wrote |-> SubSeq(Message(todo[k]), 1, wrote[k])]

CInv ==
  /\ PInv
  /\ todo \in Runs /\ nth \in 1 .. Len(todo) /\ call = todo[nth]
  /\ wrote \in Seq(Int)
  /\ \/ cpc \in {"format", "killed"} /\ Len(wrote) = nth - 1
     \/ cpc = "back" /\ Len(wrote) = nth /\ call.fn \notin Halting
     \/ cpc = "halted" /\ Len(wrote) = nth
  /\ \A k \in 1 .. nth - 1 : todo[k].fn \notin Halting
  /\ (\A k \in 1 .. nth : Ordinary(todo[k])) =>
       /\ Sent \in Seq(Seq(Code))
       /\ console = FlattenSeq(Sent)
-----------------------------------------------------------------------------
(* What a call and its format are.                                         *)
LEMMA CallFacts ==
  ASSUME NEW cl \in Calls
  PROVE  /\ cl.fmt \in Seq(1 .. 255) /\ Len(cl.fmt) \in Nat
         /\ \A k \in 1 .. Len(cl.fmt) : cl.fmt[k] \in 1 .. 255
         /\ Len(cl.args) \in Nat /\ DOMAIN cl.args = 1 .. Len(cl.args)
         /\ \A i \in 1 .. Len(cl.args) : /\ cl.args[i].n \in IntMin .. IntMax
                                         /\ cl.args[i].t \in {Wild} \cup Seq(1 .. 255)
         /\ Cardinality(Takes(cl.fmt, Len(cl.fmt))) <= Len(cl.args)
<1>1. cl.fmt \in Seq(1 .. 255)
  BY PrintfAssumption
<1>2. /\ Len(cl.args) \in Nat /\ DOMAIN cl.args = 1 .. Len(cl.args)
      /\ \A i \in 1 .. Len(cl.args) : cl.args[i].n \in IntMin .. IntMax
      /\ Cardinality(Takes(cl.fmt, Len(cl.fmt))) <= Len(cl.args)
  BY PrintfAssumption, Zenon
<1>3. \A i \in 1 .. Len(cl.args) : cl.args[i].t \in {Wild} \cup Seq(1 .. 255)
  BY ConsoleAssumption, Zenon
<1>4. /\ Len(cl.fmt) \in Nat
      /\ \A k \in 1 .. Len(cl.fmt) : cl.fmt[k] \in 1 .. 255
  <2> DEFINE f == cl.fmt
  <2>1. f \in Seq(1 .. 255)
    BY <1>1
  <2> HIDE DEF f
  <2>2. Len(f) \in Nat /\ f \in [1 .. Len(f) -> 1 .. 255]
    BY ONLY <2>1, LenProperties
  <2> QED BY <2>2 DEF f
<1> QED BY <1>1, <1>2, <1>3, <1>4

LEMMA SizeFacts == Size \in Nat \ {0} /\ Garbage \in Code
BY PrintfAssumption DEF Code

LEMMA PiecesType ==
  ASSUME NEW cl, NEW n \in Nat, \A k \in 1 .. n : Piece(cl, k) \in Seq(Code)
  PROVE  Pieces(cl, n) \in Seq(Code) /\ Pieces(cl, 0) = <<>>
<1> DEFINE s == [k \in 1 .. n |-> Piece(cl, k)]
<1>1. s \in Seq(Seq(Code))
  OBVIOUS
<1>2. Pieces(cl, n) = FlattenSeq(s)
  BY DEF Pieces
<1> HIDE DEF s
<1>3. <<>> \in Seq(Code)
  OBVIOUS
<1>4. FlattenSeq(s) \in Seq(Code)
  BY <1>1, <1>3, FlattenAppend
<1>5. Pieces(cl, 0) = <<>>
  <2> DEFINE t == [k \in 1 .. 0 |-> Piece(cl, k)]
  <2>1. t = <<>> /\ Len(t) = 0
    OBVIOUS
  <2>2. Pieces(cl, 0) = FlattenSeq(t)
    BY DEF Pieces
  <2> HIDE DEF t
  <2> QED BY <2>1, <2>2, FlattenDef
<1> QED BY <1>2, <1>4, <1>5

LEMMA PiecesNext ==
  ASSUME NEW cl, NEW n \in Nat, \A k \in 1 .. n + 1 : Piece(cl, k) \in Seq(Code)
  PROVE  Pieces(cl, n + 1) = Pieces(cl, n) \o Piece(cl, n + 1)
<1> DEFINE s == [k \in 1 .. n |-> Piece(cl, k)]
           t == [k \in 1 .. n + 1 |-> Piece(cl, k)]
           e == Piece(cl, n + 1)
<1>1. s \in Seq(Seq(Code)) /\ e \in Seq(Code)
  OBVIOUS
<1>2. t = Append(s, e)
  <2>1. /\ s \in Seq(Seq(Code)) /\ Len(s) = n
        /\ \A k \in 1 .. n : s[k] = Piece(cl, k)
    OBVIOUS
  <2> HIDE DEF s, e
  <2>2. /\ DOMAIN Append(s, e) = 1 .. n + 1 /\ Append(s, e)[n + 1] = e
        /\ \A k \in 1 .. n : Append(s, e)[k] = s[k]
        /\ Append(s, e) \in Seq(Seq(Code))
    BY <1>1, <2>1
  <2>3. \A k \in 1 .. n + 1 : k = n + 1 \/ k \in 1 .. n
    OBVIOUS
  <2>4. \A k \in 1 .. n + 1 : Append(s, e)[k] = Piece(cl, k)
    BY <2>1, <2>2, <2>3 DEF e
  <2> DEFINE u == Append(s, e)
  <2>5. u = [k \in DOMAIN u |-> u[k]]
    <3>1. u \in Seq(Seq(Code))
      BY <2>2
    <3> HIDE DEF u
    <3> QED BY <3>1
  <2> QED BY <2>2, <2>4, <2>5
<1>3. Pieces(cl, n) = FlattenSeq(s) /\ Pieces(cl, n + 1) = FlattenSeq(t)
  BY DEF Pieces
<1> HIDE DEF s, t, e
<1>4. FlattenSeq(Append(s, e)) = FlattenSeq(s) \o e
  BY <1>1, FlattenAppend
<1> QED BY <1>2, <1>3, <1>4 DEF e

(* The end of an iteration.                                                *)
LEMMA PutText ==
  ASSUME str \in [0 .. Size -> Code], p \in 0 .. Size - 1, str[Size] = Garbage,
         NEW o \in Seq(Code), Put(o)
  PROVE  /\ str' \in [0 .. Size -> Code] /\ str'[Size] = Garbage
         /\ p' \in 0 .. Size - 1
         /\ \/ /\ pc' = pc /\ p' = p + Len(o) /\ p' <= Size - 2
               /\ Text' = Text \o o
            \/ /\ pc' = "done" /\ p + Len(o) > Size - 2 /\ p' = p
               /\ str'[p] = 0 /\ Text' = Text
<1>1. Size \in Nat \ {0} /\ p \in Nat /\ Len(o) \in Nat /\ p \in 0 .. Size
  BY SizeFacts
<1>2. CASE /\ Len(o) < Size - p - 1
           /\ str' = [i \in 0 .. Size |->
                        IF i \in p .. p + Len(o) - 1 THEN o[i - p + 1] ELSE str[i]]
           /\ p' = p + Len(o)
           /\ UNCHANGED pc
  <2>1. p' \in 0 .. Size - 1 /\ p' <= Size - 2 /\ p' \in Nat
    BY <1>1, <1>2
  <2>2. \A i \in p .. p + Len(o) - 1 : i - p + 1 \in 1 .. Len(o)
    BY <1>1
  <2>3. \A i \in p .. p + Len(o) - 1 : o[i - p + 1] \in Code
    BY <2>2
  <2>4. str' \in [0 .. Size -> Code]
    BY <1>2, <2>3
  <2>5. str'[Size] = Garbage
    <3>1. Size \in 0 .. Size /\ Size \notin p .. p + Len(o) - 1
      BY <1>1, <1>2
    <3> QED BY <1>2, <3>1
  <2>6. Text' = Text \o o
    <3> DEFINE u == Text
               v == Text \o o
    <3>1. u \in Seq(Code) /\ Len(u) = p /\ \A i \in 1 .. p : u[i] = str[i - 1]
      <4>1. \A i \in 1 .. p : i - 1 \in 0 .. Size
        BY <1>1
      <4>2. \A i \in 1 .. p : str[i - 1] \in Code
        BY <4>1
      <4> QED BY <1>1, <4>2 DEF Text
    <3> HIDE DEF u
    <3>2. /\ u \o o \in Seq(Code) /\ Len(u \o o) = p + Len(o)
          /\ \A i \in 1 .. p + Len(o) :
               (u \o o)[i] = IF i <= p THEN u[i] ELSE o[i - p]
      <4>1. /\ u \o o \in Seq(Code) /\ Len(u \o o) = Len(u) + Len(o)
            /\ \A i \in 1 .. Len(u) + Len(o) :
                 (u \o o)[i] = IF i <= Len(u) THEN u[i] ELSE o[i - Len(u)]
        BY ONLY <3>1, o \in Seq(Code), ConcatProperties
      <4> QED BY <3>1, <4>1
    <3>3. u \o o = [i \in 1 .. p + Len(o) |-> (u \o o)[i]]
      <4> DEFINE w == u \o o
      <4>1. w \in Seq(Code) /\ DOMAIN w = 1 .. p + Len(o)
        BY <1>1, <3>2
      <4> HIDE DEF w
      <4>2. w = [i \in DOMAIN w |-> w[i]]
        BY <4>1
      <4> QED BY <4>1, <4>2 DEF w
    <3>4. ASSUME NEW i \in 1 .. p + Len(o)
          PROVE  str'[i - 1] = (u \o o)[i]
      <4>1. i - 1 \in 0 .. Size
        BY <1>1, <1>2
      <4>2. str'[i - 1] = IF i - 1 \in p .. p + Len(o) - 1 THEN o[(i - 1) - p + 1]
                          ELSE str[i - 1]
        BY <1>2, <4>1
      <4>3. CASE i <= p
        <5>1. i \in 1 .. p /\ i - 1 \notin p .. p + Len(o) - 1
          BY <1>1, <4>3
        <5> QED BY <3>1, <3>2, <4>2, <4>3, <5>1
      <4>4. CASE ~ i <= p
        <5>1. i - 1 \in p .. p + Len(o) - 1 /\ (i - 1) - p + 1 = i - p
          BY <1>1, <4>4
        <5> QED BY <3>2, <4>2, <4>4, <5>1
      <4> QED BY <4>3, <4>4
    <3>5. Text' = [i \in 1 .. p + Len(o) |-> str'[i - 1]]
      BY <1>2 DEF Text
    <3> QED BY <3>3, <3>4, <3>5 DEF u
  <2> QED BY <1>2, <2>1, <2>4, <2>5, <2>6
<1>3. CASE /\ Len(o) >= Size - p - 1
           /\ str' = [str EXCEPT ![p] = 0]
           /\ pc' = "done"
           /\ UNCHANGED p
  <2>1. 0 \in Code /\ Size # p
    BY <1>1 DEF Code
  <2>2. str' \in [0 .. Size -> Code] /\ str'[p] = 0 /\ str'[Size] = Garbage
    BY <1>1, <1>3, <2>1
  <2>3. \A i \in 1 .. p : str'[i - 1] = str[i - 1]
    <3>1. \A i \in 1 .. p : i - 1 \in 0 .. Size /\ i - 1 # p
      BY <1>1
    <3> QED BY <1>3, <3>1
  <2>4. Text' = Text
    BY <1>3, <2>3 DEF Text
  <2>5. p + Len(o) > Size - 2
    BY <1>1, <1>3
  <2> QED BY <1>3, <2>2, <2>4, <2>5
<1> QED BY <1>2, <1>3 DEF Put

LEMMA PrintedNext ==
  ASSUME NEW cl, NEW n \in Nat, NEW text, Printed(cl, n, text),
         NEW o \in Seq(Code), o = Piece(cl, n + 1), Len(text \o o) <= Size - 2
  PROVE  Printed(cl, n + 1, text \o o)
<1>1. \A k \in 1 .. n + 1 : Piece(cl, k) \in Seq(Code)
  <2>1. \A k \in 1 .. n + 1 : k \in 1 .. n \/ k = n + 1
    OBVIOUS
  <2> QED BY <2>1 DEF Printed
<1>2. Pieces(cl, n + 1) = text \o o
  BY <1>1, PiecesNext DEF Printed
<1>3. \A k \in 1 .. n + 1 : Len(Pieces(cl, k)) <= Size - 2
  <2>1. \A k \in 1 .. n + 1 : k \in 1 .. n \/ k = n + 1
    OBVIOUS
  <2> QED BY <1>2, <2>1 DEF Printed
<1> QED BY <1>1, <1>2, <1>3 DEF Printed

(* One iteration, if what it puts out is the piece and the flags are       *)
(* those of the next character.                                            *)
LEMMA IterationKeeps ==
  ASSUME PInv, More, NEW o \in Seq(Code), Put(o),
         Ordinary(call) => o = Piece(call, format),
         call' = call, format' = format + 1,
         spec' \in BOOLEAN, ap' \in 1 .. Len(call.args) + 1,
         spec' <=> Converts(call.fmt, format + 1),
         ap' = 1 + Cardinality(Takes(call.fmt, format))
  PROVE  PInv'
<1>1. /\ pc = "loop" /\ call \in Calls /\ p \in 0 .. Size - 1
      /\ str \in [0 .. Size -> Code] /\ str[Size] = Garbage
      /\ format \in 1 .. Len(call.fmt) + 1 /\ format <= Len(call.fmt)
      /\ Ordinary(call) => Printed(call, format - 1, Text)
  BY DEF PInv, TypeOK, More, Follows
<1>2. /\ Len(call.fmt) \in Nat /\ format \in 1 .. Len(call.fmt)
      /\ format - 1 \in 0 .. Len(call.fmt) /\ (format - 1) + 1 = format
  BY <1>1, CallFacts
<1>3. /\ str' \in [0 .. Size -> Code] /\ str'[Size] = Garbage
      /\ p' \in 0 .. Size - 1
      /\ \/ /\ pc' = pc /\ p' = p + Len(o) /\ p' <= Size - 2
            /\ Text' = Text \o o
         \/ /\ pc' = "done" /\ p + Len(o) > Size - 2 /\ p' = p
            /\ str'[p] = 0 /\ Text' = Text
  BY <1>1, PutText
<1>4. Len(Text) = p /\ Len(Text') = p' /\ Text \in Seq(Code)
  <2>1. p \in Nat /\ p' \in Nat
    BY <1>1, <1>3, SizeFacts
  <2>2. \A i \in 1 .. p : str[i - 1] \in Code
    <3>1. \A i \in 1 .. p : i - 1 \in 0 .. Size
      BY <1>1, SizeFacts
    <3> QED BY <1>1, <3>1
  <2> QED BY <2>1, <2>2 DEF Text
<1>5. TypeOK'
  <2>1. \A i \in 0 .. Size : str'[i] \in 0 .. 255
    BY <1>3 DEF Code
  <2>2. format' \in 1 .. Len(call.fmt) + 1
    BY <1>2
  <2>3. pc' \in {"loop", "done"}
    BY <1>1, <1>3
  <2> QED BY <1>1, <1>3, <2>1, <2>2, <2>3 DEF TypeOK
<1>6. CASE /\ pc' = pc /\ p' = p + Len(o) /\ p' <= Size - 2
           /\ Text' = Text \o o
  <2>1. ASSUME Ordinary(call)
        PROVE  Printed(call, format, Text')
    <3>1. Len(Text \o o) <= Size - 2
      BY <1>4, <1>6
    <3>2. Printed(call, format - 1, Text) /\ o = Piece(call, format)
      BY <1>1, <2>1
    <3>3. Printed(call, (format - 1) + 1, Text \o o)
      <4>1. \A n \in Nat : \A text : 
              Printed(call, n, text) /\ o = Piece(call, n + 1) /\ Len(text \o o) <= Size - 2
              => Printed(call, n + 1, text \o o)
        BY PrintedNext
      <4> QED BY <1>2, <3>1, <3>2, <4>1
    <3> QED BY <1>2, <1>6, <3>3
  <2>2. (format + 1) - 1 = format
    BY <1>2
  <2>3. Follows'
    BY <2>1, <2>2 DEF Follows, Ordinary
  <2>4. Finished'
    BY <1>1, <1>6 DEF Finished
  <2> QED BY <1>3, <1>5, <2>3, <2>4 DEF PInv
<1>7. CASE /\ pc' = "done" /\ p + Len(o) > Size - 2 /\ p' = p
           /\ str'[p] = 0 /\ Text' = Text
  <2>1. ASSUME Ordinary(call)
        PROVE  EndsAt(call, format - 1, Text')
    BY <1>1, <1>2, <1>4, <1>7, <2>1 DEF EndsAt
  <2>2. Ordinary(call) => \E n \in 0 .. Len(call.fmt) : EndsAt(call, n, Text')
    BY <1>2, <2>1
  <2>3. Finished'
    BY <1>7, <2>2 DEF Finished, Ordinary
  <2>4. Follows'
    BY <1>7 DEF Follows
  <2> QED BY <1>3, <1>5, <2>3, <2>4 DEF PInv
<1> QED BY <1>3, <1>6, <1>7

LEMMA PlainKeeps == ASSUME PInv, Plain PROVE PInv'
<1> DEFINE o == IF c = Percent THEN <<>> ELSE <<c>>
           f == call.fmt
<1>1. /\ More /\ ~ spec /\ spec' = (c = Percent) /\ Put(o)
      /\ format' = format + 1 /\ call' = call /\ ap' = ap
  BY DEF Plain
<1>2. /\ pc = "loop" /\ call \in Calls /\ format \in 1 .. Len(f) + 1 /\ format <= Len(f)
      /\ spec <=> Converts(f, format)
      /\ ap = 1 + Cardinality(Takes(f, format - 1)) /\ ap \in 1 .. Len(call.args) + 1
  BY <1>1 DEF PInv, TypeOK, More, Follows
<1>3. /\ Len(f) \in Nat /\ format \in 1 .. Len(f) /\ format \in Nat \ {0}
      /\ c \in 1 .. 255 /\ c = f[format]
      /\ format - 1 \in Nat /\ (format - 1) + 1 = format
  <2>1. Len(f) \in Nat /\ \A k \in 1 .. Len(f) : f[k] \in 1 .. 255
    BY <1>2, CallFacts
  <2>2. c = f[format]
    BY DEF c
  <2> HIDE DEF f
  <2> QED BY <1>2, <2>1, <2>2
<1>4. o \in Seq(Code)
  <2>1. c \in Code
    BY <1>3 DEF Code
  <2>2. <<>> \in Seq(Code) /\ <<c>> \in Seq(Code)
    BY <2>1
  <2> QED BY <2>2
<1>5. o = Piece(call, format)
  BY <1>1, <1>2, <1>3 DEF Piece
<1>6. spec' <=> Converts(f, format + 1)
  BY <1>1, <1>2, <1>3, ConvertsNext
<1>7. Cardinality(Takes(f, format)) = Cardinality(Takes(f, format - 1))
  BY <1>1, <1>2, <1>3, TakesNext
<1> HIDE DEF o
<1> QED BY <1>1, <1>2, <1>4, <1>5, <1>6, <1>7, IterationKeeps

(* The conversion takes its argument, which is there.                      *)
LEMMA ConvertKeeps == ASSUME PInv, Convert, ~ Faults PROVE PInv'
<1> DEFINE f == call.fmt
           letter == c \in {Letter.c, Letter.d, Letter.s}
           o == IF c = Letter.s THEN Arg.t
                ELSE IF c = Letter.d THEN Decimal(Arg.n)
                ELSE IF c = Letter.c THEN <<Arg.n % 256>>
                ELSE <<c>>
<1>1. /\ More /\ spec /\ spec' = FALSE /\ Put(o)
      /\ ap' = IF letter THEN ap + 1 ELSE ap
      /\ format' = format + 1 /\ call' = call
  BY DEF Convert
<1>2. /\ pc = "loop" /\ call \in Calls /\ format \in 1 .. Len(f) + 1 /\ format <= Len(f)
      /\ Converts(f, format)
      /\ ap = 1 + Cardinality(Takes(f, format - 1)) /\ ap \in 1 .. Len(call.args) + 1
  BY <1>1 DEF PInv, TypeOK, More, Follows
<1>3. /\ Len(f) \in Nat /\ format \in 1 .. Len(f) /\ format \in Nat \ {0}
      /\ c \in 1 .. 255 /\ c = f[format]
      /\ format - 1 \in Nat /\ (format - 1) + 1 = format
  <2>1. Len(f) \in Nat /\ \A k \in 1 .. Len(f) : f[k] \in 1 .. 255
    BY <1>2, CallFacts
  <2>2. c = f[format]
    BY DEF c
  <2> HIDE DEF f
  <2> QED BY <1>2, <2>1, <2>2
<1>4. /\ Cardinality(Takes(f, format - 1)) \in Nat /\ Cardinality(Takes(f, format)) \in Nat
      /\ letter => Cardinality(Takes(f, format)) = Cardinality(Takes(f, format - 1)) + 1
      /\ ~ letter => Cardinality(Takes(f, format)) = Cardinality(Takes(f, format - 1))
      /\ Cardinality(Takes(f, format)) <= Cardinality(Takes(f, Len(f)))
      /\ Cardinality(Takes(f, Len(f))) \in Nat
  <2>1. /\ Cardinality(Takes(f, format - 1)) \in Nat
        /\ Cardinality(Takes(f, Len(f))) \in Nat
        /\ Cardinality(Takes(f, format)) \in Nat
        /\ Cardinality(Takes(f, format)) <= Cardinality(Takes(f, Len(f)))
    <3>1. format \in Nat /\ format - 1 \in Nat /\ Len(f) \in Nat /\ format <= Len(f)
      BY <1>2, <1>3
    <3> HIDE DEF f
    <3> QED BY ONLY <3>1, TakesNext
  <2>2. /\ letter => Cardinality(Takes(f, format)) = Cardinality(Takes(f, format - 1)) + 1
        /\ ~ letter => Cardinality(Takes(f, format)) = Cardinality(Takes(f, format - 1))
    <3>1. format - 1 \in Nat /\ (format - 1) + 1 = format /\ Converts(f, format) /\ c = f[format]
      BY <1>2, <1>3
    <3> HIDE DEF f
    <3> DEFINE k == format - 1
               in == Converts(f, k + 1) /\ f[k + 1] \in {Letter.c, Letter.d, Letter.s}
    <3>2. k \in Nat
      BY <3>1
    <3> HIDE DEF k
    <3>3. /\ in => Cardinality(Takes(f, k + 1)) = Cardinality(Takes(f, k)) + 1
          /\ ~ in => Cardinality(Takes(f, k + 1)) = Cardinality(Takes(f, k))
      BY ONLY <3>2, TakesNext
    <3> QED BY <3>1, <3>3 DEF k
  <2> QED BY <2>1, <2>2
<1>5. letter => /\ ap = Cardinality(Takes(f, format)) /\ ap \in 1 .. Len(call.args)
                /\ Arg.n \in IntMin .. IntMax
                /\ Arg.t \in {Wild} \cup Seq(1 .. 255)
  <2>1. ASSUME letter
        PROVE  ap = Cardinality(Takes(f, format)) /\ ap \in 1 .. Len(call.args)
    <3>1. Cardinality(Takes(f, Len(f))) <= Len(call.args) /\ Len(call.args) \in Nat
      BY <1>2, CallFacts
    <3> HIDE DEF f
    <3> QED BY <1>2, <1>4, <2>1, <3>1
  <2>2. \A i \in 1 .. Len(call.args) : /\ call.args[i].n \in IntMin .. IntMax
                                       /\ call.args[i].t \in {Wild} \cup Seq(1 .. 255)
    BY <1>2, CallFacts
  <2> QED BY <2>1, <2>2 DEF Arg
<1>6. ap' = 1 + Cardinality(Takes(f, format)) /\ ap' \in 1 .. Len(call.args) + 1
  <2>1. ap \in Nat /\ Len(call.args) \in Nat
    BY <1>2, CallFacts
  <2> HIDE DEF f, letter
  <2>2. CASE letter
    BY <1>1, <1>5, <2>1, <2>2
  <2>3. CASE ~ letter
    BY <1>1, <1>2, <1>4, <2>1, <2>3
  <2> QED BY <2>2, <2>3
<1>7. /\ Letter.c = 99 /\ Letter.d = 100 /\ Letter.s = 115
  BY DEF Letter
<1>8. o \in Seq(Code) /\ (Ordinary(call) => o = Piece(call, format))
  <2> DEFINE arg == call.args[Cardinality(Takes(f, format))]
  <2>1. letter => arg = Arg
    BY <1>5 DEF Arg
  <2>2. Piece(call, format) = IF c = Letter.s THEN arg.t
                              ELSE IF c = Letter.d THEN Notation(arg.n)
                              ELSE IF c = Letter.c THEN <<arg.n % 256>>
                              ELSE <<c>>
    BY <1>2, <1>3 DEF Piece
  <2>3. IntMin \in Int /\ IntMax \in Int
    BY PrintfAssumption DEF IntMin
  <2> HIDE DEF arg, f
  <2>4. CASE c = Letter.s
    <3>1. Arg.t # Wild
      BY <1>1, <2>4 DEF Faults
    <3>2. Arg.t \in Seq(1 .. 255)
      BY <1>5, <2>4, <3>1
    <3> DEFINE t == Arg.t
    <3>3. t \in Seq(Code)
      <4>1. t \in Seq(1 .. 255)
        BY <3>2
      <4> HIDE DEF t
      <4> QED BY <4>1 DEF Code
    <3> QED BY <2>1, <2>2, <2>4, <3>3
  <2>5. CASE c = Letter.d
    <3>1. /\ Arg.n \in IntMin .. IntMax /\ arg = Arg /\ o = Decimal(Arg.n)
          /\ Piece(call, format) = Notation(Arg.n)
      BY <1>5, <1>7, <2>1, <2>2, <2>5
    <3>2. Ordinary(call) => Arg.n # IntMin
      <4>1. ap \in 1 .. Len(call.args) /\ DOMAIN call.args = 1 .. Len(call.args)
        BY <1>2, <1>5, <2>5, CallFacts
      <4> QED BY <4>1 DEF Ordinary, Arg
    <3>3. Decimal(Arg.n) \in Seq(Code)
      BY <2>3, <3>1, DecimalType
    <3>4. Ordinary(call) => Decimal(Arg.n) = Notation(Arg.n)
      BY <3>1, <3>2, DecimalIs
    <3> QED BY <3>1, <3>3, <3>4
  <2>6. CASE c = Letter.c
    <3>1. /\ Arg.n \in Int /\ arg = Arg /\ o = <<Arg.n % 256>>
          /\ Piece(call, format) = <<arg.n % 256>>
      BY <1>5, <1>7, <2>1, <2>2, <2>3, <2>6
    <3> DEFINE x == Arg.n % 256
    <3>2. x \in Code
      BY <3>1 DEF Code
    <3> HIDE DEF x
    <3>3. <<x>> \in Seq(Code)
      BY <3>2
    <3> QED BY <3>1, <3>3 DEF x
  <2>7. CASE ~ letter
    <3>1. c \in Code
      BY <1>3 DEF Code
    <3>2. <<c>> \in Seq(Code)
      BY <3>1
    <3>3. o = <<c>> /\ Piece(call, format) = <<c>>
      BY <2>2, <2>7
    <3> QED BY <3>2, <3>3
  <2> QED BY <2>4, <2>5, <2>6, <2>7
<1>9. spec' <=> Converts(f, format + 1)
  BY <1>1, <1>2, <1>3, ConvertsNext
<1> HIDE DEF o, letter
<1> QED BY <1>1, <1>6, <1>8, <1>9, IterationKeeps

LEMMA EndKeeps == ASSUME PInv, End PROVE PInv'
<1>1. /\ pc = "loop" /\ call \in Calls /\ p \in 0 .. Size - 1
      /\ str \in [0 .. Size -> Code] /\ str[Size] = Garbage
      /\ format \in 1 .. Len(call.fmt) + 1 /\ format > Len(call.fmt)
      /\ Ordinary(call) => Printed(call, format - 1, Text)
      /\ str' = [str EXCEPT ![p] = 0] /\ pc' = "done"
      /\ UNCHANGED <<call, format, ap, spec, p>>
  BY DEF PInv, TypeOK, Follows, End
<1>2. Len(call.fmt) \in Nat
  BY <1>1, CallFacts
<1>3. format - 1 = Len(call.fmt)
  BY <1>1, <1>2
<1>4. p \in 0 .. Size /\ Size # p /\ 0 \in Code /\ Size \in 0 .. Size
  BY <1>1, SizeFacts DEF Code
<1>5. str' \in [0 .. Size -> Code] /\ str'[p] = 0 /\ str'[Size] = Garbage
  BY <1>1, <1>4
<1>6. Text' = Text
  <2>1. \A i \in 1 .. p : i - 1 \in 0 .. Size /\ i - 1 # p
    BY <1>1, SizeFacts
  <2>2. \A i \in 1 .. p : str'[i - 1] = str[i - 1]
    BY <1>1, <2>1
  <2> QED BY <1>1, <2>2 DEF Text
<1>7. Ordinary(call) => \E n \in 0 .. Len(call.fmt) : EndsAt(call, n, Text)
  BY <1>1, <1>2, <1>3 DEF EndsAt
<1>8. Finished'
  BY <1>1, <1>5, <1>6, <1>7 DEF Finished, Ordinary
<1>9. Follows'
  BY <1>1 DEF Follows
<1>10. TypeOK'
  BY <1>1, <1>5 DEF TypeOK, Code, PInv
<1> QED BY <1>5, <1>8, <1>9, <1>10 DEF PInv
-----------------------------------------------------------------------------
(* A call begins.                                                          *)
Fresh ==
  /\ str \in [0 .. Size -> Code] /\ str[Size] = Garbage
  /\ call \in Calls /\ format = 1 /\ ap = 1 /\ spec = FALSE /\ p = 0 /\ pc = "loop"

LEMMA FreshInv == Fresh => PInv
<1> SUFFICES ASSUME Fresh PROVE PInv
  OBVIOUS
<1>1. /\ str \in [0 .. Size -> Code] /\ str[Size] = Garbage
      /\ call \in Calls /\ format = 1 /\ ap = 1 /\ spec = FALSE /\ p = 0 /\ pc = "loop"
  BY DEF Fresh
<1>2. Len(call.fmt) \in Nat /\ Len(call.args) \in Nat
  BY <1>1, CallFacts
<1>3. TypeOK
  <2>1. \A i \in 0 .. Size : str[i] \in 0 .. 255
    BY <1>1 DEF Code
  <2>2. format \in 1 .. Len(call.fmt) + 1 /\ ap \in 1 .. Len(call.args) + 1
    BY <1>1, <1>2
  <2>3. p \in 0 .. Size - 1
    BY <1>1, SizeFacts
  <2>4. spec \in BOOLEAN /\ pc \in {"loop", "done"}
    BY <1>1
  <2> QED BY <1>1, <2>1, <2>2, <2>3, <2>4 DEF TypeOK
<1>4. ~ Converts(call.fmt, 1) /\ Cardinality(Takes(call.fmt, 0)) = 0
  BY ConvertsNext, TakesNext
<1>5. Printed(call, 0, Text)
  <2>1. Text = <<>>
    BY <1>1 DEF Text
  <2>2. Pieces(call, 0) = <<>>
    BY PiecesType
  <2> QED BY <2>1, <2>2 DEF Printed
<1>6. Follows
  BY <1>1, <1>4, <1>5 DEF Follows
<1>7. Finished
  BY <1>1 DEF Finished
<1> QED BY <1>1, <1>3, <1>6, <1>7 DEF PInv
-----------------------------------------------------------------------------
(* What is printed is the message.                                         *)
LEMMA MessageIs ==
  ASSUME NEW cl \in Calls, NEW n \in 0 .. Len(cl.fmt), NEW text, EndsAt(cl, n, text)
  PROVE  Message(cl) = text /\ text \in Seq(Code)
<1> DEFINE L == Len(cl.fmt)
           fits == {m \in 0 .. L : \A k \in 1 .. m : Len(Pieces(cl, k)) <= Size - 2}
           last == CHOOSE m \in fits : \A k \in fits : k <= m
<1>1. L \in Nat /\ n \in 0 .. L /\ Size \in Nat
  BY CallFacts, SizeFacts
<1>2. /\ \A k \in 1 .. n : Piece(cl, k) \in Seq(Code)
      /\ \A k \in 1 .. n : Len(Pieces(cl, k)) <= Size - 2
      /\ text = Pieces(cl, n)
      /\ n < L => /\ Piece(cl, n + 1) \in Seq(Code)
                  /\ Len(text) + Len(Piece(cl, n + 1)) > Size - 2
  BY DEF EndsAt, Printed
<1>3. text \in Seq(Code)
  BY <1>1, <1>2, PiecesType
<1>4. n \in fits
  BY <1>2
<1>5. ASSUME NEW k \in fits PROVE k <= n
  <2>1. SUFFICES ASSUME n < k PROVE FALSE
    BY <1>1
  <2>2. n < L /\ n + 1 \in 1 .. k /\ n \in Nat
    BY <1>1, <2>1
  <2>3. Len(Pieces(cl, n + 1)) <= Size - 2
    BY <2>2
  <2>4. \A j \in 1 .. n + 1 : Piece(cl, j) \in Seq(Code)
    <3>1. \A j \in 1 .. n + 1 : j \in 1 .. n \/ j = n + 1
      BY <2>2
    <3> QED BY <1>2, <2>2, <3>1
  <2>5. Pieces(cl, n + 1) = text \o Piece(cl, n + 1)
    BY <1>2, <2>2, <2>4, PiecesNext
  <2>6. Len(text \o Piece(cl, n + 1)) = Len(text) + Len(Piece(cl, n + 1))
    <3>1. text \in Seq(Code) /\ Piece(cl, n + 1) \in Seq(Code)
      BY <1>2, <1>3, <2>2
    <3> QED BY ONLY <3>1, ConcatProperties
  <2>7. Len(text) \in Nat /\ Len(Piece(cl, n + 1)) \in Nat
    BY <1>2, <1>3, <2>2
  <2> QED BY <1>1, <1>2, <2>2, <2>3, <2>5, <2>6, <2>7
<1>6. Message(cl) = Pieces(cl, last)
  BY DEF Message
<1>7. \A m \in fits : m \in Nat
  OBVIOUS
<1> HIDE DEF fits
<1>8. last \in fits /\ \A k \in fits : k <= last
  BY <1>4, <1>5, Zenon
<1> HIDE DEF last
<1>9. last = n
  BY <1>4, <1>5, <1>7, <1>8
<1> QED BY <1>2, <1>3, <1>6, <1>9

LEMMA DoneSays ==
  ASSUME PInv, pc = "done"
  PROVE  /\ Len(Text) = p /\ Text \in Seq(Code)
         /\ Ordinary(call) => Message(call) = Text
<1>1. /\ call \in Calls /\ p \in 0 .. Size - 1 /\ str \in [0 .. Size -> Code]
      /\ Ordinary(call) => \E n \in 0 .. Len(call.fmt) : EndsAt(call, n, Text)
  BY DEF PInv, TypeOK, Finished
<1>2. Len(Text) = p /\ Text \in Seq(Code)
  <2>1. \A i \in 1 .. p : i - 1 \in 0 .. Size
    BY <1>1, SizeFacts
  <2>2. \A i \in 1 .. p : str[i - 1] \in Code
    BY <1>1, <2>1
  <2> QED BY <1>1, <2>2, SizeFacts DEF Text
<1>3. Ordinary(call) => Message(call) = Text
  BY <1>1, MessageIs
<1> QED BY <1>2, <1>3

(* A message sent, or the first m characters of it, is added to the        *)
(* console.                                                                *)
LEMMA SentNext ==
  ASSUME CInv, cpc \in {"format", "killed"}, todo' = todo,
         NEW m \in Int, wrote' = Append(wrote, m), Sent \in Seq(Seq(Code)),
         NEW e \in Seq(Code), e = SubSeq(Message(call), 1, m)
  PROVE  /\ Sent' \in Seq(Seq(Code))
         /\ FlattenSeq(Sent') = FlattenSeq(Sent) \o e
<1>1. /\ wrote \in Seq(Int) /\ Len(wrote) = nth - 1 /\ call = todo[nth] /\ nth \in Nat
      /\ Len(wrote) \in Nat
  BY DEF CInv
<1> DEFINE s == Sent
           t == Append(s, e)
           r(k) == SubSeq(Message(todo[k]), 1, wrote'[k])
<1>2. /\ DOMAIN wrote = 1 .. nth - 1 /\ DOMAIN wrote' = 1 .. nth
      /\ \A k \in 1 .. nth - 1 : wrote'[k] = wrote[k]
      /\ wrote'[nth] = m
  BY <1>1
<1>3. /\ s \in Seq(Seq(Code)) /\ Len(s) = nth - 1
      /\ \A k \in 1 .. nth - 1 : s[k] = SubSeq(Message(todo[k]), 1, wrote[k])
  BY <1>1, <1>2 DEF Sent
<1>4. Sent' = [k \in 1 .. nth |-> r(k)]
  BY <1>2 DEF Sent
<1> HIDE DEF s
<1>5. /\ t \in Seq(Seq(Code)) /\ DOMAIN t = 1 .. nth /\ t[nth] = e
      /\ \A k \in 1 .. nth - 1 : t[k] = s[k]
  BY <1>1, <1>3
<1>6. ASSUME NEW k \in 1 .. nth
      PROVE  t[k] = r(k)
  <2>1. CASE k = nth
    BY <1>1, <1>2, <1>5, <2>1
  <2>2. CASE k # nth
    <3>1. k \in 1 .. nth - 1
      BY <1>1, <2>2
    <3> QED BY <1>2, <1>3, <1>5, <3>1
  <2> QED BY <2>1, <2>2
<1>7. Sent' = t
  <2> HIDE DEF t, r
  <2>1. t = [k \in DOMAIN t |-> t[k]]
    BY <1>5
  <2> QED BY <1>4, <1>5, <1>6, <2>1
<1>8. FlattenSeq(t) = FlattenSeq(s) \o e
  BY <1>3, FlattenAppend
<1> QED BY <1>5, <1>7, <1>8 DEF s
-----------------------------------------------------------------------------
(* Each step of a run.                                                     *)
AllOrdinary == \A k \in 1 .. nth : Ordinary(todo[k])

Says == AllOrdinary => Sent \in Seq(Seq(Code)) /\ console = FlattenSeq(Sent)

LEMMA RunFacts ==
  ASSUME NEW r \in Runs
  PROVE  /\ Len(r) \in Nat \ {0} /\ r \in Seq(Calls)
         /\ \A k \in 1 .. Len(r) : r[k] \in Calls
<1>1. r \in Seq(Calls) /\ Len(r) > 0
  BY ConsoleAssumption
<1> QED BY <1>1

LEMMA CInitInv == CInit => CInv
<1> SUFFICES ASSUME CInit PROVE CInv
  OBVIOUS
<1>1. /\ todo \in Runs /\ nth = 1 /\ call = todo[1] /\ call \in Calls
      /\ str = [i \in 0 .. Size |-> Garbage]
      /\ format = 1 /\ ap = 1 /\ spec = FALSE /\ p = 0 /\ pc = "loop"
      /\ console = <<>> /\ wrote = <<>> /\ cpc = "format"
  BY DEF CInit, Init
<1>2. Fresh
  <2>1. str \in [0 .. Size -> Code] /\ str[Size] = Garbage
    BY <1>1, SizeFacts
  <2> QED BY <1>1, <2>1 DEF Fresh
<1>3. PInv
  BY <1>2, FreshInv
<1>4. nth \in 1 .. Len(todo)
  BY <1>1, RunFacts
<1>5. wrote \in Seq(Int) /\ Len(wrote) = nth - 1
  BY <1>1
<1>6. Sent \in Seq(Seq(Code)) /\ console = FlattenSeq(Sent)
  <2>1. Sent = <<>>
    BY <1>1 DEF Sent
  <2>2. <<>> \in Seq(Seq(Code))
    OBVIOUS
  <2>3. FlattenSeq(Sent) = <<>>
    <3> DEFINE s == Sent
    <3>1. s = <<>> /\ Len(s) = 0
      BY <2>1
    <3> HIDE DEF s
    <3>2. FlattenSeq(s) = s
      BY <3>1, FlattenDef
    <3> QED BY <3>1, <3>2 DEF s
  <2> QED BY <1>1, <2>1, <2>2, <2>3
<1> QED BY <1>1, <1>3, <1>4, <1>5, <1>6 DEF CInv

LEMMA vsnprintfKeeps == ASSUME CInv, vsnprintf PROVE CInv'
<1>1. /\ cpc = "format" /\ UNCHANGED <<todo, nth, console, wrote, cpc>>
      /\ ~ Faults /\ (Plain \/ Convert \/ End)
  BY DEF vsnprintf, cvars
<1>2. PInv'
  BY <1>1, PlainKeeps, ConvertKeeps, EndKeeps DEF CInv
<1>3. call' = call
  BY <1>1 DEF Plain, Convert, End
<1>4. Sent' = Sent
  BY <1>1 DEF Sent
<1> QED BY <1>1, <1>2, <1>3, <1>4 DEF CInv, Ordinary

LEMMA SameInv ==
  PInv /\ UNCHANGED vars => PInv' /\ call' = call
<1> SUFFICES ASSUME PInv, UNCHANGED vars PROVE PInv' /\ call' = call
  OBVIOUS
<1>1. UNCHANGED <<str, call, format, ap, spec, p, pc>>
  BY DEF vars
<1>2. TypeOK'
  BY <1>1 DEF PInv, TypeOK
<1>3. Text' = Text
  BY <1>1 DEF Text
<1>4. Follows' /\ Finished'
  BY <1>1, <1>3 DEF PInv, Follows, Finished, Ordinary
<1> QED BY <1>1, <1>2, <1>4 DEF PInv

(* A write, of the first n characters, or of none.                         *)
LEMMA WriteKeeps ==
  ASSUME CInv, cpc = "format", pc = "done",
         UNCHANGED <<vars, todo, nth>>,
         \E n \in 0 .. p : Written(n),
         \/ cpc' = "back" /\ call.fn \notin Halting
         \/ cpc' = "halted"
  PROVE  CInv'
<1>1. /\ PInv /\ todo \in Runs /\ nth \in 1 .. Len(todo) /\ call = todo[nth]
      /\ wrote \in Seq(Int) /\ Len(wrote) = nth - 1
      /\ \A k \in 1 .. nth - 1 : todo[k].fn \notin Halting
      /\ Says
  BY DEF CInv, Says, AllOrdinary
<1>2. PInv' /\ call' = call /\ todo' = todo /\ nth' = nth
  BY <1>1, SameInv
<1>3. /\ Len(Text) = p /\ Text \in Seq(Code) /\ (Ordinary(call) => Message(call) = Text)
      /\ p \in 0 .. Size - 1 /\ Size \in Nat
  BY <1>1, DoneSays, SizeFacts DEF PInv, TypeOK
<1>4. nth \in Nat \ {0}
  BY <1>1
<1>5. \E m \in Int : wrote' = Append(wrote, m)
  BY <1>3 DEF Written
<1>6. wrote' \in Seq(Int) /\ Len(wrote') = nth
  BY <1>1, <1>4, <1>5
<1>7. ASSUME AllOrdinary
      PROVE  Sent' \in Seq(Seq(Code)) /\ console' = FlattenSeq(Sent')
  <2>1. Sent \in Seq(Seq(Code)) /\ console = FlattenSeq(Sent)
    BY <1>1, <1>7 DEF Says
  <2>2. Message(call) = Text
    BY <1>1, <1>3, <1>7 DEF AllOrdinary
  <2>3. FlattenSeq(Sent) \in Seq(Code)
    <3>1. <<>> \in Seq(Code)
      OBVIOUS
    <3> QED BY <2>1, <3>1, FlattenAppend
  <2>4. Sent' \in Seq(Seq(Code)) /\ console' = FlattenSeq(Sent')
    <3>1. PICK n \in 0 .. p : Written(n)
      OBVIOUS
    <3>2. n \in Int /\ wrote' = Append(wrote, n) /\ console' = console \o Msg(n)
      BY <1>3, <3>1 DEF Written
    <3>3. Msg(n) = SubSeq(Text, 1, n) /\ Msg(n) \in Seq(Code)
      <4> DEFINE u == Text
      <4>1. /\ u \in Seq(Code) /\ Len(u) = p /\ n \in 0 .. p /\ p \in Nat
            /\ \A i \in 1 .. p : u[i] = str[i - 1]
        BY <1>3 DEF Text
      <4> HIDE DEF u
      <4>2. \A i \in 1 .. n : i \in 1 .. p
        BY <4>1
      <4>3. SubSeq(u, 1, n) = [i \in 1 .. n |-> u[i]]
        BY <4>1
      <4>4. \A i \in 1 .. p : u[i] \in Code
        BY <4>1
      <4>5. Msg(n) = [i \in 1 .. n |-> u[i]]
        BY <4>1, <4>2 DEF Msg
      <4>6. [i \in 1 .. n |-> u[i]] \in Seq(Code)
        BY <4>1, <4>2, <4>4
      <4> QED BY <4>3, <4>5, <4>6 DEF u
    <3> DEFINE e == Msg(n)
    <3>4. e \in Seq(Code) /\ e = SubSeq(Message(call), 1, n)
      BY <2>2, <3>3
    <3> HIDE DEF e
    <3>5. Sent' \in Seq(Seq(Code)) /\ FlattenSeq(Sent') = FlattenSeq(Sent) \o e
      BY <1>2, <2>1, <3>2, <3>4, SentNext
    <3> QED BY <2>1, <3>2, <3>5 DEF e
  <2> QED BY <2>4
<1>8. AllOrdinary' => AllOrdinary
  BY <1>2 DEF AllOrdinary, Ordinary
<1>9. Says'
  BY <1>7, <1>8 DEF Says
<1> QED BY <1>1, <1>2, <1>6, <1>9 DEF CInv, Says, AllOrdinary

LEMMA NextCallKeeps == ASSUME CInv, NextCall PROVE CInv'
<1>1. /\ PInv /\ todo \in Runs /\ nth \in 1 .. Len(todo) /\ call = todo[nth]
      /\ wrote \in Seq(Int) /\ Len(wrote) = nth /\ call.fn \notin Halting
      /\ \A k \in 1 .. nth - 1 : todo[k].fn \notin Halting
      /\ Says /\ nth < Len(todo)
      /\ nth' = nth + 1 /\ call' = todo[nth + 1]
      /\ format' = 1 /\ ap' = 1 /\ spec' = FALSE /\ p' = 0 /\ pc' = "loop"
      /\ cpc' = "format" /\ UNCHANGED <<str, todo, console, wrote>>
  BY DEF CInv, Says, AllOrdinary, NextCall
<1>2. /\ nth \in Nat /\ nth + 1 \in 1 .. Len(todo) /\ (nth + 1) - 1 = nth
  BY <1>1, RunFacts
<1>3. todo[nth + 1] \in Calls
  BY <1>1, <1>2, RunFacts
<1>4. Fresh'
  BY <1>1, <1>3 DEF Fresh, PInv
<1>5. PInv'
  <2>1. (Fresh => PInv)'
    BY FreshInv, PTL
  <2> QED BY <1>4, <2>1
<1>6. \A k \in 1 .. nth : todo[k].fn \notin Halting
  <2>1. \A k \in 1 .. nth : k = nth \/ k \in 1 .. nth - 1
    BY <1>2
  <2> QED BY <1>1, <2>1
<1>7. AllOrdinary' => AllOrdinary
  <2>1. \A k \in 1 .. nth : k \in 1 .. nth + 1
    BY <1>2
  <2> QED BY <1>1, <2>1 DEF AllOrdinary, Ordinary
<1>8. Sent' = Sent
  BY <1>1 DEF Sent
<1>9. Says'
  BY <1>1, <1>7, <1>8 DEF Says
<1> QED BY <1>1, <1>2, <1>5, <1>6, <1>9 DEF CInv, Says, AllOrdinary

LEMMA CNextInv == CInv /\ [CNext]_<<vars, cvars>> => CInv'
<1> SUFFICES ASSUME CInv, [CNext]_<<vars, cvars>> PROVE CInv'
  OBVIOUS
<1>1. CASE vsnprintf
  BY <1>1, vsnprintfKeeps
<1>2. CASE UNCHANGED <<vars, cvars>> \/ Over
  <2>1. UNCHANGED vars /\ UNCHANGED <<todo, nth, console, wrote, cpc>>
    BY <1>2 DEF Over, cvars
  <2>2. PInv' /\ call' = call
    BY <2>1, SameInv DEF CInv
  <2> QED BY <2>1, <2>2 DEF CInv, Sent, Ordinary
<1>3. CASE WildString
  <2>1. /\ UNCHANGED vars /\ UNCHANGED <<todo, nth, console, wrote>>
        /\ cpc = "format" /\ cpc' = "killed"
    BY <1>3 DEF WildString
  <2>2. PInv' /\ call' = call
    BY <2>1, SameInv DEF CInv
  <2> QED BY <2>1, <2>2 DEF CInv, Sent, Ordinary
<1>4. CASE os_write
  <2>1. call.fn \notin Halting
    BY <1>4 DEF os_write, Halting
  <2> QED BY <1>4, <2>1, WriteKeeps DEF os_write, Written
<1>5. CASE dbg_out
  BY <1>5, WriteKeeps DEF dbg_out, Written
<1>6. CASE NextCall
  BY <1>6, NextCallKeeps
<1> QED BY <1>1, <1>2, <1>3, <1>4, <1>5, <1>6 DEF CNext

LEMMA CInvHolds == CSpec => []CInv
<1>1. CInit => CInv
  BY CInitInv
<1>2. CInv /\ [CNext]_<<vars, cvars>> => CInv'
  BY CNextInv
<1> QED BY <1>1, <1>2, PTL DEF CSpec

(* The buffer holds characters, the position in it leaves room for the NUL *)
(* and every argument fetched is one of the call's (vsnprintf).            *)
THEOREM PrintfTyped == CSpec => []TypeOK
<1>1. CInv => TypeOK
  BY DEF CInv, PInv
<1> QED BY <1>1, CInvHolds, PTL

(* vsnprintf prints whole pieces, as many as leave one character to spare, *)
(* ends with NUL and writes nothing behind the buffer.                     *)
THEOREM WholePieces == CSpec => []PrintsWholePieces
<1>1. CInv => PrintsWholePieces
  <2> SUFFICES ASSUME CInv, pc = "done", Ordinary(call)
               PROVE  /\ str[p] = 0 /\ str[Size] = Garbage
                      /\ \E n \in 0 .. Len(call.fmt) :
                           /\ Text = Pieces(call, n)
                           /\ n < Len(call.fmt) => p + Len(Piece(call, n + 1)) > Size - 2
    BY Zenon DEF PrintsWholePieces, Ordinary, Text
  <2>1. str[p] = 0 /\ str[Size] = Garbage /\ Len(Text) = p
    BY DoneSays DEF CInv, PInv, Finished
  <2>2. PICK n \in 0 .. Len(call.fmt) : EndsAt(call, n, Text)
    BY DEF CInv, PInv, Finished
  <2> QED BY <2>1, <2>2 DEF EndsAt, Printed
<1> QED BY <1>1, CInvHolds, PTL

(* The console shows the messages of rprintf, kprint, panic and            *)
(* failed_assert, each as far as the host wrote it, and nothing follows a  *)
(* panic.                                                                  *)
THEOREM ConsoleShows == CSpec => []ConsoleSays
<1>1. CInv => ConsoleSays
  BY DEF CInv, ConsoleSays, Sent, Ordinary
<1> QED BY <1>1, CInvHolds, PTL
=============================================================================
