----------------------------- MODULE ShellProof -----------------------------
(***************************************************************************)
(* Proofs about Shell for a buffer of any size, any input, anything behind *)
(* the buffer that ends in a NUL; and about Session, for buffers of        *)
(* programs and numbers of processes of any size.                          *)
(***************************************************************************)
EXTENDS Session, FiniteSetTheorems, FunctionTheorems, WellFoundedInduction,
        SequenceTheorems, TLAPS

LEMMA LeastElement ==
  ASSUME NEW T, T \subseteq Nat, T # {}
  PROVE  \E x \in T : \A y \in T : x <= y
<1> DEFINE R == {ss \in Nat \X Nat : ss[1] < ss[2]}
<1>1. IsWellFoundedOn(R, Nat)
  BY NatLessThanWellFounded DEF OpToRel
<1> HIDE DEF R
<1>2. PICK x \in T : \A y \in T : <<y, x>> \notin R
  BY <1>1, WFMin, Zenon
<1>3. ASSUME NEW y \in T PROVE ~ (y < x)
  BY <1>2 DEF R
<1> QED BY <1>2, <1>3
-----------------------------------------------------------------------------
(* A memory of n characters that ends in a NUL.                            *)
Code == 0 .. 255
Text(m, n) == n \in Nat \ {0} /\ m \in [1 .. n -> Code] /\ m[n] = NUL

(* q is the first address from s on that holds NUL or a character of stop. *)
Stops(m, s, stop, q) ==
  /\ m[q] \in stop \cup {NUL}
  /\ \A a \in s .. q - 1 : m[a] \notin stop \cup {NUL}

LEMMA StopExists ==
  ASSUME NEW n, NEW m, Text(m, n), NEW stop, NEW s \in 1 .. n
  PROVE  \E q \in s .. n : Stops(m, s, stop, q)
<1> DEFINE T == {q \in s .. n : m[q] \in stop \cup {NUL}}
<1>1. n \in T
  BY DEF Text
<1>2. T \subseteq Nat /\ T # {}
  BY <1>1 DEF Text
<1> HIDE DEF T
<1>3. PICK q \in T : \A y \in T : q <= y
  BY <1>2, LeastElement, Zenon
<1>4. q \in s .. n /\ m[q] \in stop \cup {NUL}
  BY DEF T
<1>5. ASSUME NEW a \in s .. q - 1 PROVE m[a] \notin stop \cup {NUL}
  <2>1. a \in s .. n /\ ~ (q <= a)
    BY <1>4 DEF Text
  <2> QED BY <2>1, <1>3 DEF T
<1> QED BY <1>4, <1>5 DEF Stops

(* There is one such address.                                              *)
LEMMA OneStop ==
  ASSUME NEW n, NEW m, Text(m, n), NEW stop, NEW s \in 1 .. n,
         NEW p \in s .. n, Stops(m, s, stop, p),
         NEW q \in s .. n, Stops(m, s, stop, q)
  PROVE  p = q
<1>1. s \in Int /\ p \in Int /\ q \in Int
  BY DEF Text
<1>2. ~ (p < q)
  <2> SUFFICES ASSUME p < q PROVE FALSE
    OBVIOUS
  <2>1. p \in s .. q - 1
    BY <1>1
  <2> QED BY <2>1 DEF Stops
<1>3. ~ (q < p)
  <2> SUFFICES ASSUME q < p PROVE FALSE
    OBVIOUS
  <2>1. q \in s .. p - 1
    BY <1>1
  <2> QED BY <2>1 DEF Stops
<1> QED BY <1>1, <1>2, <1>3

(* The loops of the library, written as recursion, stop there.             *)
ScanFrom(m, stop) ==
  CHOOSE f : f = [p \in DOMAIN m |-> IF m[p] \in stop \cup {NUL} THEN p ELSE f[p + 1]]

LEMMA ScanFromExists ==
  ASSUME NEW n, NEW m, Text(m, n), NEW stop
  PROVE  \E f : f = [p \in DOMAIN m |-> IF m[p] \in stop \cup {NUL} THEN p ELSE f[p + 1]]
<1> DEFINE g == [p \in 1 .. n |-> CHOOSE q \in p .. n : Stops(m, p, stop, q)]
<1>1. \A p \in 1 .. n : g[p] \in p .. n /\ Stops(m, p, stop, g[p])
  BY StopExists
<1>d. DOMAIN m = 1 .. n
  BY DEF Text
<1>f. g = [p \in 1 .. n |-> g[p]]
  OBVIOUS
<1> HIDE DEF g
<1>2. ASSUME NEW p \in 1 .. n
      PROVE  g[p] = IF m[p] \in stop \cup {NUL} THEN p ELSE g[p + 1]
  <2>p. p \in Int /\ n \in Int /\ p <= n /\ 1 <= p
    BY DEF Text
  <2>1. CASE m[p] \in stop \cup {NUL}
    <3>1. Stops(m, p, stop, p) /\ p \in p .. n
      BY <2>1, <2>p DEF Stops
    <3>2. g[p] = p
      BY <3>1, <1>1, OneStop
    <3> QED BY <3>2, <2>1
  <2>2. CASE m[p] \notin stop \cup {NUL}
    <3>1. p # n
      BY <2>2 DEF Text
    <3>2. p + 1 \in 1 .. n
      BY <3>1, <2>p
    <3>3. g[p + 1] \in p + 1 .. n /\ Stops(m, p + 1, stop, g[p + 1])
      BY <3>2, <1>1
    <3>4. g[p + 1] \in p .. n
      BY <3>3, <2>p
    <3>5. \A a \in p .. g[p + 1] - 1 : a = p \/ a \in p + 1 .. g[p + 1] - 1
      BY <3>4, <2>p
    <3>6. Stops(m, p, stop, g[p + 1])
      BY <3>3, <3>5, <2>2 DEF Stops
    <3>7. g[p] = g[p + 1]
      BY <3>4, <3>6, <1>1, OneStop
    <3> QED BY <3>7, <2>2
  <2> QED BY <2>1, <2>2
<1>3. g = [p \in 1 .. n |-> IF m[p] \in stop \cup {NUL} THEN p ELSE g[p + 1]]
  BY <1>2, <1>f
<1> QED BY <1>3, <1>d

LEMMA ScanIs ==
  ASSUME NEW n, NEW m, Text(m, n), NEW stop, NEW s \in 1 .. n
  PROVE  Scan(m, s, stop) \in s .. n /\ Stops(m, s, stop, Scan(m, s, stop))
<1> DEFINE f == ScanFrom(m, stop)
<1>0. f = [p \in DOMAIN m |-> IF m[p] \in stop \cup {NUL} THEN p ELSE f[p + 1]]
  BY ScanFromExists DEF ScanFrom
<1>1. Scan(m, s, stop) = f[s]
  BY DEF Scan, ScanFrom
<1>d. DOMAIN m = 1 .. n /\ n \in Nat
  BY DEF Text
<1> HIDE DEF f
<1>2. \A p \in 1 .. n : f[p] = IF m[p] \in stop \cup {NUL} THEN p ELSE f[p + 1]
  BY <1>0, <1>d
<1>3. PICK q \in s .. n : Stops(m, s, stop, q)
  BY StopExists
<1> DEFINE T == {k \in 0 .. q - s : f[q - k] # q}
<1>4. T = {}
  <2> SUFFICES ASSUME T # {} PROVE FALSE
    OBVIOUS
  <2>1. T \subseteq Nat
    OBVIOUS
  <2> HIDE DEF T
  <2>2. PICK k \in T : \A y \in T : k <= y
    BY <2>1, LeastElement, Zenon
  <2>3. k \in 0 .. q - s /\ f[q - k] # q
    BY DEF T
  <2>4. q - k \in 1 .. n /\ k \in Int /\ q \in Int /\ s \in Int
    BY <2>3, <1>d
  <2>5. CASE k = 0
    BY <2>5, <2>3, <2>4, <1>2, <1>3 DEF Stops
  <2>6. CASE k # 0
    <3>1. q - k \in s .. q - 1
      BY <2>6, <2>3, <2>4
    <3>2. m[q - k] \notin stop \cup {NUL}
      BY <3>1, <1>3 DEF Stops
    <3>3. f[q - k] = f[(q - k) + 1]
      BY <3>2, <2>4, <1>2
    <3>4. (q - k) + 1 = q - (k - 1) /\ k - 1 \in 0 .. q - s /\ ~ (k <= k - 1)
      BY <2>3, <2>4, <2>6
    <3>5. f[q - (k - 1)] # q
      BY <3>3, <3>4, <2>3
    <3>6. k - 1 \in T
      BY <3>4, <3>5 DEF T
    <3> QED BY <3>6, <3>4, <2>2
  <2> QED BY <2>5, <2>6
<1>5. f[s] = q
  <2>1. q - s \in 0 .. q - s /\ q - (q - s) = s
    BY <1>d
  <2> QED BY <1>4, <2>1
<1> QED BY <1>1, <1>3, <1>5

LEMMA StrspnIs ==
  ASSUME NEW n, NEW m, Text(m, n), NEW delim, NEW s \in 1 .. n
  PROVE  LET t == s + strspn(m, s, delim)
         IN /\ t \in s .. n
            /\ \A a \in s .. t - 1 : m[a] \in delim /\ m[a] # NUL
            /\ m[t] \notin delim \ {NUL}
<1> DEFINE stop == Range(m) \ delim
           q == Scan(m, s, stop)
<1>1. q \in s .. n /\ Stops(m, s, stop, q)
  BY ScanIs
<1>2. s + strspn(m, s, delim) = q
  BY <1>1 DEF strspn, Text
<1>3. \A a \in 1 .. n : m[a] \in Range(m)
  BY DEF Range, Text
<1>4. \A a \in s .. q - 1 : a \in 1 .. n
  BY <1>1 DEF Text
<1>q. q \in 1 .. n
  BY <1>1 DEF Text
<1> HIDE DEF q
<1>5. \A a \in s .. q - 1 : m[a] \in delim /\ m[a] # NUL
  BY <1>1, <1>3, <1>4 DEF Stops
<1>6. m[q] \notin delim \ {NUL}
  BY <1>1, <1>3, <1>q DEF Stops
<1> QED BY <1>1, <1>2, <1>5, <1>6

LEMMA StrcspnIs ==
  ASSUME NEW n, NEW m, Text(m, n), NEW delim, NEW s \in 1 .. n
  PROVE  LET e == s + strcspn(m, s, delim)
         IN /\ e \in s .. n
            /\ \A a \in s .. e - 1 : m[a] \notin delim /\ m[a] # NUL
            /\ m[e] \in delim \cup {NUL}
<1> DEFINE q == Scan(m, s, delim)
<1>1. q \in s .. n /\ Stops(m, s, delim, q)
  BY ScanIs
<1>2. s + strcspn(m, s, delim) = q
  BY <1>1 DEF strcspn, Text
<1> HIDE DEF q
<1> QED BY <1>1, <1>2 DEF Stops

(* What strtok_r does from s on: a token t, which ends before e; or, when  *)
(* only separators are left, none, and the memory stays.                   *)
Cut(m, s, delim, t, e, r) ==
  /\ t \in s .. e - 1
  /\ m[t] # NUL
  /\ \A a \in s .. t - 1 : m[a] \in delim /\ m[a] # NUL
  /\ \A a \in t .. e - 1 : m[a] \notin delim /\ m[a] # NUL
  /\ m[e] \in delim \cup {NUL}
  /\ r = [tok |-> t, save |-> IF m[e] = NUL THEN e ELSE e + 1,
          mem |-> [m EXCEPT ![e] = NUL]]
NoMore(m, s, delim, t, r) ==
  /\ m[t] = NUL
  /\ \A a \in s .. t - 1 : m[a] \in delim /\ m[a] # NUL
  /\ r = [tok |-> NULL, save |-> t, mem |-> m]

LEMMA StrtokIs ==
  ASSUME NEW n, NEW m, Text(m, n), NEW delim, NEW s \in 1 .. n
  PROVE  \E t \in s .. n :
           \/ NoMore(m, s, delim, t, strtok_r(m, s, delim))
           \/ \E e \in t + 1 .. n : Cut(m, s, delim, t, e, strtok_r(m, s, delim))
<1> DEFINE t == s + strspn(m, s, delim)
           e == t + strcspn(m, t, delim)
           r == strtok_r(m, s, delim)
<1>1. /\ t \in s .. n
      /\ \A a \in s .. t - 1 : m[a] \in delim /\ m[a] # NUL
      /\ m[t] \notin delim \ {NUL}
  BY StrspnIs
<1>t. t \in 1 .. n /\ t \in Int /\ s \in Int /\ n \in Int
  BY <1>1 DEF Text
<1>r. r = IF m[t] = NUL THEN [tok |-> NULL, save |-> t, mem |-> m]
          ELSE [tok |-> t, save |-> IF m[e] = NUL THEN e ELSE e + 1,
                mem |-> [m EXCEPT ![e] = NUL]]
  BY DEF strtok_r
<1> HIDE DEF t, r
<1>2. /\ e \in t .. n
      /\ \A a \in t .. e - 1 : m[a] \notin delim /\ m[a] # NUL
      /\ m[e] \in delim \cup {NUL}
  BY <1>t, StrcspnIs
<1> HIDE DEF e
<1>3. CASE m[t] = NUL
  <2>1. NoMore(m, s, delim, t, r)
    BY <1>1, <1>3, <1>r DEF NoMore
  <2> QED BY <2>1, <1>1 DEF r
<1>4. CASE m[t] # NUL
  <2>1. m[t] \notin delim
    BY <1>1, <1>4
  <2>2. e # t
    BY <2>1, <1>4, <1>2
  <2>3. e \in t + 1 .. n /\ t \in s .. e - 1
    BY <2>2, <1>1, <1>2, <1>t
  <2>4. r = [tok |-> t, save |-> IF m[e] = NUL THEN e ELSE e + 1,
             mem |-> [m EXCEPT ![e] = NUL]]
    BY <1>r, <1>4
  <2>5. Cut(m, s, delim, t, e, r)
    BY <1>1, <1>2, <1>4, <2>3, <2>4 DEF Cut
  <2> QED BY <2>5, <2>3, <1>1 DEF r
<1> QED BY <1>3, <1>4

(* It stays in front of the next NUL and only writes NULs.                 *)
LEMMA StrtokStays ==
  ASSUME NEW n, NEW m, Text(m, n), NEW delim, NEW s \in 1 .. n,
         NEW z \in s .. n, m[z] = NUL
  PROVE  LET r == strtok_r(m, s, delim)
         IN /\ Text(r.mem, n)
            /\ \A a \in 1 .. n : m[a] = NUL => r.mem[a] = NUL
            /\ r.save \in s .. z
            /\ r.tok = NULL \/ /\ r.tok \in s .. z - 1
                               /\ r.mem[r.save] = NUL \/ r.save >= r.tok + 2
            /\ r.tok = NULL => r.mem = m
            /\ m[s] = NUL => r.tok = NULL
<1> DEFINE r == strtok_r(m, s, delim)
<1>0. /\ s \in Int /\ n \in Int /\ z \in Int /\ 1 <= s /\ s <= z /\ z <= n
      /\ NUL = 0 /\ NULL = 0 /\ 0 \in Code
  BY DEF Text, NUL, NULL, Code
<1>1. PICK t \in s .. n : \/ NoMore(m, s, delim, t, r)
                          \/ \E e \in t + 1 .. n : Cut(m, s, delim, t, e, r)
  BY StrtokIs
<1> HIDE DEF r
<1>t. t \in Int /\ s <= t /\ t <= n
  BY <1>0
<1>2. CASE NoMore(m, s, delim, t, r)
  <2>1. r.tok = NULL /\ r.save = t /\ r.mem = m
    BY <1>2 DEF NoMore
  <2>2. ~ (z < t)
    <3> SUFFICES ASSUME z < t PROVE FALSE
      OBVIOUS
    <3>1. z \in s .. t - 1
      BY <1>0, <1>t
    <3> QED BY <3>1, <1>2 DEF NoMore
  <2> QED BY <2>1, <2>2, <1>0, <1>t DEF r
<1>3. CASE \E e \in t + 1 .. n : Cut(m, s, delim, t, e, r)
  <2>1. PICK e \in t + 1 .. n : Cut(m, s, delim, t, e, r)
    BY <1>3
  <2>e. e \in Int /\ t < e /\ e <= n
    BY <1>t, <1>0
  <2>2. /\ r.tok = t /\ r.save = (IF m[e] = NUL THEN e ELSE e + 1)
        /\ r.mem = [m EXCEPT ![e] = NUL]
    BY <2>1 DEF Cut
  <2>3. \A a \in s .. e - 1 : m[a] # NUL
    <3> SUFFICES ASSUME NEW a \in s .. e - 1 PROVE m[a] # NUL
      OBVIOUS
    <3>1. a \in s .. t - 1 \/ a \in t .. e - 1
      BY <1>0, <1>t, <2>e
    <3> QED BY <3>1, <2>1 DEF Cut
  <2>4. ~ (z < e)
    <3> SUFFICES ASSUME z < e PROVE FALSE
      OBVIOUS
    <3>1. z \in s .. e - 1
      BY <1>0, <2>e
    <3> QED BY <3>1, <2>3
  <2>5. Text(r.mem, n)
    BY <2>2, <1>0 DEF Text
  <2>6. \A a \in 1 .. n : m[a] = NUL => r.mem[a] = NUL
    BY <2>2 DEF Text
  <2>7. r.save \in s .. z /\ r.tok \in s .. z - 1
    BY <2>2, <2>4, <2>e, <1>t, <1>0
  <2>8. r.mem[r.save] = NUL \/ r.save >= r.tok + 2
    <3>1. CASE m[e] = NUL
      <4>1. r.save = e /\ e \in 1 .. n
        BY <2>2, <2>e, <1>t, <1>0, <3>1
      <4> QED BY <4>1, <2>2 DEF Text
    <3>2. CASE m[e] # NUL
      BY <2>2, <3>2, <2>e, <1>t
    <3> QED BY <3>1, <3>2
  <2>9. m[s] # NUL
    <3>1. s \in s .. e - 1
      BY <1>0, <1>t, <2>e
    <3> QED BY <3>1, <2>3
  <2>10. r.tok # NULL
    BY <2>2, <1>t, <1>0
  <2> QED BY <2>5, <2>6, <2>7, <2>8, <2>9, <2>10 DEF r
<1> QED BY <1>1, <1>2, <1>3
-----------------------------------------------------------------------------
(* The memory has the buffer and something that ends in a NUL.             *)
MemInv == \E b \in Behind : Text(mem, BufSize + Len(b))

(* A line that was terminated stays so; no tokenizer leaves it; the words  *)
(* found start at least two characters apart, and there is a NUL, or room, *)
(* where the next one is looked for.                                       *)
LineInv ==
  Terminated =>
    /\ mem[bytes + 1] = NUL
    /\ stcmd <= bytes + 1
    /\ pc \in {"word", "run"} => 2 * Len(argv) <= bytes + 1
    /\ pc = "word" => /\ starg <= bytes + 1
                      /\ mem[starg] = NUL \/ starg >= 2 * Len(argv) + 1

ShellInv == TypeOK /\ MemInv /\ LineInv

LEMMA MemFacts ==
  ASSUME NEW b \in Behind, NEW m, Text(m, BufSize + Len(b))
  PROVE  /\ BufSize \in Nat \ {0} /\ Len(b) \in Nat \ {0}
         /\ DOMAIN m = 1 .. BufSize + Len(b)
         /\ \A a \in DOMAIN m : m[a] \in 0 .. 255
         /\ m[BufSize + Len(b)] = NUL
<1>1. Len(b) \in Nat \ {0}
  BY ShellAssumption, LenProperties
<1>2. BufSize \in Nat \ {0}
  BY ShellAssumption
<1> QED BY <1>1, <1>2 DEF Text, Code

LEMMA InitInv == Init => ShellInv
<1> SUFFICES ASSUME Init PROVE ShellInv
  OBVIOUS
<1>1. PICK b \in Behind, c \in Uninit :
        mem = [a \in 1 .. BufSize + Len(b) |-> IF a <= BufSize THEN c ELSE b[a - BufSize]]
  BY DEF Init
<1>2. /\ BufSize \in Nat \ {0} /\ b \in Seq(Code) /\ Len(b) \in Nat \ {0}
      /\ b[Len(b)] = NUL /\ c \in Code
  BY ShellAssumption, LenProperties DEF Last, Code
<1> DEFINE n == BufSize + Len(b)
<1>3. n \in Nat \ {0}
  BY <1>2
<1>4. ASSUME NEW a \in 1 .. n PROVE mem[a] \in Code
  <2>1. CASE a <= BufSize
    BY <1>1, <1>2, <2>1
  <2>2. CASE ~ (a <= BufSize)
    <3>1. a - BufSize \in 1 .. Len(b)
      BY <2>2, <1>2
    <3>2. b[a - BufSize] \in Code
      BY <3>1, <1>2, ElementOfSeq
    <3> QED BY <3>2, <2>2, <1>1
  <2> QED BY <2>1, <2>2
<1>5. mem[n] = NUL
  <2>1. n \in 1 .. n /\ ~ (n <= BufSize) /\ n - BufSize = Len(b)
    BY <1>2
  <2> QED BY <2>1, <1>1, <1>2
<1>6. DOMAIN mem = 1 .. n /\ mem = [a \in 1 .. n |-> mem[a]]
  BY <1>1
<1>7. mem \in [1 .. n -> Code]
  BY <1>4, <1>6
<1>8. MemInv
  BY <1>3, <1>5, <1>7 DEF MemInv, Text
<1>9. ~ Terminated
  BY <1>2 DEF Init, Terminated
<1>10. TypeOK
  <2>1. 1 \in DOMAIN mem
    BY <1>6, <1>3
  <2>2. \A a \in DOMAIN mem : mem[a] \in 0 .. 255
    BY <1>4, <1>6 DEF Code
  <2>3. <<>> \in Seq(DOMAIN mem) /\ <<>> \in Seq(0 .. 255) /\ Len(<<>>) = 0
    BY EmptySeq
  <2>4. 0 \in -1 .. BufSize /\ 0 <= BufSize
    BY <1>2
  <2> QED BY <1>6, <2>1, <2>2, <2>3, <2>4 DEF Init, TypeOK
<1> QED BY <1>8, <1>9, <1>10 DEF ShellInv, LineInv

(* What os_read delivers stands in the buffer, terminated if it fits.      *)
LEMMA TypedMem ==
  ASSUME NEW b \in Behind, Text(mem, BufSize + Len(b)), NEW l \in Input, Typed(l)
  PROVE  /\ l \in Seq(Code) /\ Len(l) \in 1 .. BufSize
         /\ Text(mem', BufSize + Len(b))
         /\ \A a \in 1 .. Len(l) : mem'[a] = l[a]
         /\ Len(l) < BufSize => mem'[Len(l) + 1] = NUL
<1> DEFINE n == BufSize + Len(b)
           w == IF Len(l) < BufSize THEN Append(l, NUL) ELSE l
<1>2. /\ BufSize \in Nat \ {0} /\ Len(b) \in Nat \ {0} /\ DOMAIN mem = 1 .. n
  BY MemFacts
<1>3. l \in Seq(Code) /\ Len(l) \in 1 .. BufSize
  BY ShellAssumption DEF Code
<1>n. NUL = 0 /\ NUL \in Code
  BY DEF NUL, Code
<1>a. /\ Append(l, NUL) \in Seq(Code) /\ Len(Append(l, NUL)) = Len(l) + 1
      /\ \A i \in 1 .. Len(l) : Append(l, NUL)[i] = l[i]
      /\ Append(l, NUL)[Len(l) + 1] = NUL
  BY <1>3, <1>n, AppendProperties
<1>4. /\ w \in Seq(Code) /\ Len(w) \in 1 .. BufSize
      /\ Len(l) <= Len(w) /\ \A i \in 1 .. Len(l) : w[i] = l[i]
      /\ Len(l) < BufSize => w[Len(l) + 1] = NUL /\ Len(w) = Len(l) + 1
  <2>1. CASE Len(l) < BufSize
    BY <2>1, <1>a, <1>3, <1>2
  <2>2. CASE ~ (Len(l) < BufSize)
    BY <2>2, <1>3
  <2> QED BY <2>1, <2>2
<1>5. mem' = [a \in 1 .. n |-> IF a \in 1 .. 1 + Len(w) - 1
                               THEN w[a - 1 + 1] ELSE mem[a]]
  BY <1>2 DEF Typed, memcpy
<1> HIDE DEF w
<1>6. mem' = [a \in 1 .. n |-> IF a <= Len(w) THEN w[a] ELSE mem[a]]
  <2>1. \A a \in 1 .. n : /\ a \in 1 .. 1 + Len(w) - 1 <=> a <= Len(w)
                          /\ a - 1 + 1 = a
    BY <1>4
  <2> QED BY <2>1, <1>5
<1>7. \A a \in 1 .. n : mem'[a] \in Code
  <2> SUFFICES ASSUME NEW a \in 1 .. n PROVE mem'[a] \in Code
    OBVIOUS
  <2>1. CASE a <= Len(w)
    <3>1. a \in 1 .. Len(w)
      BY <2>1, <1>4
    <3>2. w[a] \in Code
      BY <3>1, <1>4, ElementOfSeq
    <3> QED BY <3>2, <2>1, <1>6
  <2>2. CASE ~ (a <= Len(w))
    BY <2>2, <1>6 DEF Text
  <2> QED BY <2>1, <2>2
<1>8. mem'[n] = NUL
  <2>1. n \in 1 .. n /\ ~ (n <= Len(w))
    BY <1>2, <1>4
  <2> QED BY <2>1, <1>6 DEF Text
<1>9. Text(mem', n)
  BY <1>6, <1>7, <1>8 DEF Text
<1>10. ASSUME NEW a \in 1 .. Len(l) PROVE mem'[a] = l[a]
  <2>1. a \in 1 .. n /\ a <= Len(w)
    BY <1>2, <1>3, <1>4
  <2> QED BY <2>1, <1>4, <1>6
<1>11. ASSUME Len(l) < BufSize PROVE mem'[Len(l) + 1] = NUL
  <2>1. Len(l) + 1 \in 1 .. n /\ Len(l) + 1 <= Len(w)
    BY <1>2, <1>3, <1>4, <1>11
  <2> QED BY <2>1, <1>4, <1>6, <1>11
<1> QED BY <1>3, <1>9, <1>10, <1>11

LEMMA TypedKeeps ==
  ASSUME ShellInv, NEW l \in Input, Typed(l)
  PROVE  ShellInv'
<1>1. PICK b \in Behind : Text(mem, BufSize + Len(b))
  BY DEF ShellInv, MemInv
<1> DEFINE n == BufSize + Len(b)
<1>2. /\ l \in Seq(Code) /\ Len(l) \in 1 .. BufSize /\ Text(mem', n)
      /\ Len(l) < BufSize => mem'[Len(l) + 1] = NUL
  BY <1>1, TypedMem
<1>3. /\ DOMAIN mem = 1 .. n /\ DOMAIN mem' = 1 .. n
      /\ \A a \in 1 .. n : mem'[a] \in 0 .. 255
  BY <1>1, <1>2 DEF Text, Code
<1>4. BufSize \in Nat \ {0} /\ n \in Nat \ {0}
  BY <1>1, ShellAssumption DEF Text
<1>10. MemInv'
  BY <1>2 DEF MemInv
<1>11. bytes' = Len(l) /\ stcmd' = 1 /\ pc' = "command" /\ line' = l
       /\ starg' = starg /\ argv' = argv
  BY DEF Typed
<1>12. LineInv'
  <2>1. ASSUME Terminated' PROVE mem'[bytes' + 1] = NUL /\ stcmd' <= bytes' + 1
    <3>1. Len(l) < BufSize /\ Len(l) \in Nat
      BY <2>1, <1>11, <1>2, <1>4 DEF Terminated
    <3> QED BY <3>1, <1>2, <1>11
  <2> QED BY <2>1, <1>11 DEF LineInv
<1>13. TypeOK'
  <2>1. 1 \in DOMAIN mem' /\ DOMAIN mem' = DOMAIN mem
    BY <1>3, <1>4
  <2>2. \A a \in DOMAIN mem' : mem'[a] \in 0 .. 255
    BY <1>3
  <2>3. bytes' \in -1 .. BufSize /\ line' \in Seq(0 .. 255) /\ Len(line') <= BufSize
    BY <1>11, <1>2, <1>4 DEF Code
  <2>4. starg' \in DOMAIN mem' /\ argv' \in Seq(DOMAIN mem')
    BY <1>11, <2>1 DEF ShellInv, TypeOK
  <2> QED BY <2>1, <2>2, <2>3, <2>4, <1>3, <1>11 DEF TypeOK
<1> QED BY <1>10, <1>12, <1>13 DEF ShellInv

LEMMA ReadFailsKeeps == ASSUME ShellInv, ReadFails \/ EndOfInput PROVE ShellInv'
<1>b. BufSize \in Nat \ {0}
  BY ShellAssumption
<1>1. /\ bytes' \in {-1, 0} /\ mem' = mem /\ starg' = starg /\ argv' = argv
      /\ stcmd' \in {1, stcmd} /\ line' \in {line, <<>>} /\ pc' \in {"command", "done"}
  BY DEF ReadFails, EndOfInput
<1>2. ~ Terminated'
  BY <1>1, <1>b DEF Terminated
<1>3. PICK b \in Behind : Text(mem, BufSize + Len(b))
  BY DEF ShellInv, MemInv
<1>4. 1 \in DOMAIN mem
  BY <1>3, MemFacts
<1>5. MemInv'
  BY <1>1 DEF ShellInv, MemInv
<1>6. <<>> \in Seq(0 .. 255) /\ Len(<<>>) <= BufSize
  BY <1>b
<1>7. bytes' \in -1 .. BufSize
  BY <1>1, <1>b
<1>8. TypeOK'
  <2>1. TypeOK
    BY DEF ShellInv
  <2>2. stcmd' \in DOMAIN mem' /\ starg' \in DOMAIN mem' /\ argv' \in Seq(DOMAIN mem')
    BY <1>1, <1>4, <2>1 DEF TypeOK
  <2>3. line' \in Seq(0 .. 255) /\ Len(line') <= BufSize
    BY <1>1, <1>6, <2>1 DEF TypeOK
  <2>4. /\ DOMAIN mem' \in {1 .. BufSize + Len(b1) : b1 \in Behind}
        /\ \A a \in DOMAIN mem' : mem'[a] \in 0 .. 255
    BY <1>1, <2>1 DEF TypeOK
  <2>5. pc' \in {"prompt", "command", "word", "run", "done"}
    BY <1>1
  <2> QED BY <1>7, <2>2, <2>3, <2>4, <2>5 DEF TypeOK
<1> QED BY <1>2, <1>5, <1>8 DEF ShellInv, LineInv

LEMMA RunKeeps == ASSUME ShellInv, Run PROVE ShellInv'
<1>1. /\ pc' = "command"
      /\ UNCHANGED <<mem, bytes, stcmd, starg, argv, line>>
  BY DEF Run
<1> QED BY <1>1 DEF ShellInv, TypeOK, MemInv, LineInv, Terminated

(* What both tokenizers keep of memory and line.                           *)
LEMMA CutKeeps ==
  ASSUME ShellInv, NEW delim, NEW s \in DOMAIN mem,
         mem' = strtok_r(mem, s, delim).mem, UNCHANGED <<bytes, line>>
  PROVE  LET r == strtok_r(mem, s, delim)
         IN /\ MemInv'
            /\ DOMAIN mem' = DOMAIN mem
            /\ \A a \in DOMAIN mem : mem'[a] \in 0 .. 255
            /\ r.save \in DOMAIN mem
            /\ r.tok \in {NULL} \cup DOMAIN mem
            /\ mem[s] = NUL => r.tok = NULL
            /\ r.tok = NULL => r.mem = mem
            /\ Terminated =>
                 /\ mem'[bytes + 1] = NUL
                 /\ s <= bytes + 1 =>
                      /\ r.save <= bytes + 1
                      /\ r.tok # NULL =>
                           /\ r.tok >= s /\ r.tok <= bytes /\ r.tok >= 1
                           /\ mem'[r.save] = NUL \/ r.save >= r.tok + 2
<1>1. PICK b \in Behind : Text(mem, BufSize + Len(b))
  BY DEF ShellInv, MemInv
<1> DEFINE n == BufSize + Len(b)
           r == strtok_r(mem, s, delim)
<1>2. /\ BufSize \in Nat \ {0} /\ Len(b) \in Nat \ {0} /\ DOMAIN mem = 1 .. n
      /\ mem[n] = NUL /\ n \in Nat
  BY <1>1, MemFacts
<1>3. s \in 1 .. n /\ n \in s .. n
  BY <1>2
<1>4. /\ Text(r.mem, n)
      /\ \A a \in 1 .. n : mem[a] = NUL => r.mem[a] = NUL
      /\ r.save \in s .. n
      /\ r.tok = NULL \/ r.tok \in s .. n - 1
      /\ mem[s] = NUL => r.tok = NULL
      /\ r.tok = NULL => r.mem = mem
  BY <1>1, <1>2, <1>3, StrtokStays
<1>5. ASSUME Terminated, s <= bytes + 1
      PROVE  /\ r.save \in s .. bytes + 1
             /\ r.tok = NULL \/ /\ r.tok \in s .. (bytes + 1) - 1
                                /\ r.mem[r.save] = NUL \/ r.save >= r.tok + 2
  <2>1. bytes + 1 \in s .. n /\ mem[bytes + 1] = NUL
    BY <1>2, <1>3, <1>5 DEF Terminated, ShellInv, LineInv
  <2> HIDE DEF n
  <2> QED BY <2>1, <1>1, <1>3, StrtokStays DEF n
<1>6. ASSUME Terminated PROVE r.mem[bytes + 1] = NUL
  <2>1. bytes + 1 \in 1 .. n /\ mem[bytes + 1] = NUL
    BY <1>2, <1>6 DEF Terminated, ShellInv, LineInv
  <2> QED BY <2>1, <1>4
<1>7. MemInv'
  BY <1>4 DEF MemInv
<1>8. DOMAIN mem' = 1 .. n /\ \A a \in 1 .. n : mem'[a] \in 0 .. 255
  <2> HIDE DEF n
  <2>1. Text(mem', n)
    BY <1>4
  <2> QED BY <2>1 DEF Text, Code
<1>9. r.save \in 1 .. n /\ r.tok \in {NULL} \cup 1 .. n
  BY <1>2, <1>3, <1>4
<1> HIDE DEF r, n
<1>10. r.mem = mem'
  BY DEF r
<1>11. Terminated => bytes \in Int
  BY <1>2 DEF Terminated
<1>12. s \in Int /\ s >= 1
  BY <1>3
<1>13. ASSUME Terminated, s <= bytes + 1, r.tok # NULL
       PROVE  /\ r.save <= bytes + 1
              /\ r.tok >= s /\ r.tok <= bytes /\ r.tok >= 1
              /\ mem'[r.save] = NUL \/ r.save >= r.tok + 2
  <2>1. r.save \in s .. bytes + 1 /\ r.tok \in s .. (bytes + 1) - 1
        /\ (mem'[r.save] = NUL \/ r.save >= r.tok + 2)
    BY <1>5, <1>10, <1>13
  <2> QED BY <2>1, <1>11, <1>12, <1>13
<1>14. ASSUME Terminated, s <= bytes + 1 PROVE r.save <= bytes + 1
  BY <1>5, <1>14, <1>11, <1>12
<1>15. Terminated => mem'[bytes + 1] = NUL
  BY <1>6, <1>10
<1>16. DOMAIN mem' = DOMAIN mem /\ \A a \in DOMAIN mem : mem'[a] \in 0 .. 255
  BY <1>2, <1>8
<1>17. r.save \in DOMAIN mem /\ r.tok \in {NULL} \cup DOMAIN mem
  BY <1>2, <1>9
<1>18. (mem[s] = NUL => r.tok = NULL) /\ (r.tok = NULL => r.mem = mem)
  BY <1>4
<1> QED BY <1>7, <1>13, <1>14, <1>15, <1>16, <1>17, <1>18 DEF r

LEMMA NextCommandKeeps == ASSUME ShellInv, NextCommand PROVE ShellInv'
<1> DEFINE t == strtok_r(mem, stcmd, comsep)
<1>1. /\ mem' = t.mem /\ stcmd' = t.save /\ UNCHANGED <<bytes, line>>
      /\ \/ t.tok = NULL /\ pc' = "prompt" /\ UNCHANGED <<starg, argv>>
         \/ t.tok # NULL /\ pc' = "word" /\ starg' = t.tok /\ argv' = <<>>
  BY DEF NextCommand
<1>2. stcmd \in DOMAIN mem
  BY DEF ShellInv, TypeOK
<1>3. /\ MemInv' /\ DOMAIN mem' = DOMAIN mem
      /\ \A a \in DOMAIN mem : mem'[a] \in 0 .. 255
      /\ t.save \in DOMAIN mem /\ t.tok \in {NULL} \cup DOMAIN mem
      /\ Terminated =>
           /\ mem'[bytes + 1] = NUL
           /\ stcmd <= bytes + 1 =>
                /\ t.save <= bytes + 1
                /\ t.tok # NULL => t.tok <= bytes /\ t.tok >= 1
  BY <1>1, <1>2, CutKeeps
<1> HIDE DEF t
<1>4. <<>> \in Seq(DOMAIN mem) /\ Len(<<>>) = 0
  OBVIOUS
<1>5. TypeOK'
  <2>1. TypeOK
    BY DEF ShellInv
  <2>2. argv' \in Seq(DOMAIN mem') /\ starg' \in DOMAIN mem'
    BY <1>1, <1>3, <1>4, <2>1 DEF TypeOK
  <2>3. \A a \in DOMAIN mem' : mem'[a] \in 0 .. 255
    BY <1>3
  <2>4. pc' \in {"prompt", "command", "word", "run", "done"}
    BY <1>1
  <2> QED BY <1>1, <1>3, <2>1, <2>2, <2>3, <2>4 DEF TypeOK
<1>6. LineInv'
  <2> SUFFICES ASSUME Terminated' PROVE
         /\ mem'[bytes' + 1] = NUL
         /\ stcmd' <= bytes' + 1
         /\ pc' \in {"word", "run"} => 2 * Len(argv') <= bytes' + 1
         /\ pc' = "word" => /\ starg' <= bytes' + 1
                            /\ mem'[starg'] = NUL \/ starg' >= 2 * Len(argv') + 1
    BY DEF LineInv
  <2>1. Terminated /\ stcmd <= bytes + 1 /\ bytes \in Nat
    BY <1>1, ShellAssumption DEF Terminated, ShellInv, LineInv
  <2>2. t.tok # NULL => t.tok <= bytes /\ t.tok >= 1 /\ t.tok \in Int
    <3>1. DOMAIN mem \subseteq Int
      BY ShellAssumption DEF ShellInv, TypeOK
    <3> QED BY <3>1, <2>1, <1>3
  <2>3. pc' = "word" => t.tok # NULL /\ starg' = t.tok /\ argv' = <<>>
    BY <1>1
  <2>4. pc' # "run"
    BY <1>1
  <2>5. pc' = "word" => starg' <= bytes + 1 /\ starg' >= 2 * Len(argv') + 1
                        /\ 2 * Len(argv') <= bytes + 1
    BY <2>1, <2>2, <2>3, <1>4
  <2> QED BY <1>1, <1>3, <2>1, <2>4, <2>5
<1> QED BY <1>3, <1>5, <1>6 DEF ShellInv

LEMMA NextWordKeeps == ASSUME ShellInv, NextWord PROVE ShellInv'
<1> DEFINE t == strtok_r(mem, starg, argsep)
<1>1. /\ pc = "word" /\ mem' = t.mem /\ starg' = t.save /\ UNCHANGED <<bytes, stcmd, line>>
      /\ \/ t.tok # NULL /\ argv' = Append(argv, t.tok) /\ UNCHANGED pc
         \/ t.tok = NULL /\ pc' \in {"run", "prompt"} /\ UNCHANGED argv
  BY DEF NextWord
<1>2. starg \in DOMAIN mem
  BY DEF ShellInv, TypeOK
<1>3. /\ MemInv' /\ DOMAIN mem' = DOMAIN mem
      /\ \A a \in DOMAIN mem : mem'[a] \in 0 .. 255
      /\ t.save \in DOMAIN mem /\ t.tok \in {NULL} \cup DOMAIN mem
      /\ mem[starg] = NUL => t.tok = NULL
      /\ Terminated =>
           /\ mem'[bytes + 1] = NUL
           /\ starg <= bytes + 1 =>
                /\ t.save <= bytes + 1
                /\ t.tok # NULL => /\ t.tok >= starg /\ t.tok <= bytes /\ t.tok >= 1
                                   /\ mem'[t.save] = NUL \/ t.save >= t.tok + 2
  BY <1>1, <1>2, CutKeeps
<1> HIDE DEF t
<1>4. argv \in Seq(DOMAIN mem)
  BY DEF ShellInv, TypeOK
<1>5. t.tok # NULL => Append(argv, t.tok) \in Seq(DOMAIN mem)
                      /\ Len(Append(argv, t.tok)) = Len(argv) + 1
  BY <1>3, <1>4, AppendProperties
<1>l. Len(argv) \in Nat
  BY <1>4, LenProperties
<1>6. TypeOK'
  <2>1. TypeOK
    BY DEF ShellInv
  <2>2. argv' \in Seq(DOMAIN mem')
    BY <1>1, <1>3, <1>4, <1>5
  <2>3. \A a \in DOMAIN mem' : mem'[a] \in 0 .. 255
    BY <1>3
  <2>4. pc' \in {"prompt", "command", "word", "run", "done"}
    BY <1>1
  <2> QED BY <1>1, <1>3, <2>1, <2>2, <2>3, <2>4 DEF TypeOK
<1>7. LineInv'
  <2> SUFFICES ASSUME Terminated' PROVE
         /\ mem'[bytes' + 1] = NUL
         /\ stcmd' <= bytes' + 1
         /\ pc' \in {"word", "run"} => 2 * Len(argv') <= bytes' + 1
         /\ pc' = "word" => /\ starg' <= bytes' + 1
                            /\ mem'[starg'] = NUL \/ starg' >= 2 * Len(argv') + 1
    BY DEF LineInv
  <2>1. /\ Terminated /\ stcmd <= bytes + 1 /\ bytes \in Nat
        /\ 2 * Len(argv) <= bytes + 1 /\ starg <= bytes + 1
        /\ mem[starg] = NUL \/ starg >= 2 * Len(argv) + 1
    BY <1>1, ShellAssumption DEF Terminated, ShellInv, LineInv
  <2>d. DOMAIN mem \subseteq Int
    BY ShellAssumption DEF ShellInv, TypeOK
  <2>2. CASE t.tok # NULL
    <3>1. argv' = Append(argv, t.tok) /\ Len(argv') = Len(argv) + 1 /\ pc' = "word"
      BY <2>2, <1>1, <1>5
    <3>2. t.tok \in Int /\ t.save \in Int /\ starg \in Int
      BY <2>d, <2>2, <1>2, <1>3
    <3>3. t.tok >= 2 * Len(argv) + 1 /\ t.tok <= bytes
      BY <2>1, <2>2, <1>3, <3>2, <1>l
    <3>4. 2 * Len(argv') <= bytes + 1
      BY <3>1, <3>2, <3>3, <2>1, <1>l
    <3>5. mem'[t.save] = NUL \/ t.save >= 2 * Len(argv') + 1
      <4>1. mem'[t.save] = NUL \/ t.save >= t.tok + 2
        BY <1>3, <2>1, <2>2
      <4>2. t.save >= t.tok + 2 => t.save >= 2 * Len(argv') + 1
        BY <3>1, <3>2, <3>3, <1>l
      <4> QED BY <4>1, <4>2
    <3> QED BY <1>1, <1>3, <2>1, <3>4, <3>5
  <2>3. CASE t.tok = NULL
    BY <2>3, <1>1, <1>3, <2>1
  <2> QED BY <2>2, <2>3
<1> QED BY <1>3, <1>6, <1>7 DEF ShellInv

LEMMA NextInv == ShellInv /\ [Next]_vars => ShellInv'
<1> SUFFICES ASSUME ShellInv, [Next]_vars PROVE ShellInv'
  OBVIOUS
<1>1. CASE EndOfInput
  BY <1>1, ReadFailsKeeps
<1>2. CASE ReadLine
  BY <1>2, TypedKeeps DEF ReadLine
<1>3. CASE ReadFails
  BY <1>3, ReadFailsKeeps
<1>4. CASE Work
  BY <1>4, NextCommandKeeps, NextWordKeeps, RunKeeps DEF Work
<1>5. CASE UNCHANGED vars
  BY <1>5 DEF vars, ShellInv, TypeOK, MemInv, LineInv, Terminated
<1> QED BY <1>1, <1>2, <1>3, <1>4, <1>5 DEF Next, Finished

(* The shell's variables keep their types: all three pointers into the     *)
(* buffer stay in memory, whatever os_read delivers, fails or leaves.      *)
THEOREM ShellTyped == Spec => []TypeOK
<1>1. ShellInv => TypeOK
  BY DEF ShellInv
<1> QED BY <1>1, InitInv, NextInv, PTL DEF Spec

(* The words of a terminated line and the NULL behind them fit argv,       *)
(* which the code does not test.                                           *)
THEOREM ArgvAlwaysFits == Spec => []ArgvFits
<1>1. ShellInv => ArgvFits
  BY DEF ShellInv, LineInv, ArgvFits
<1> QED BY <1>1, InitInv, NextInv, PTL DEF Spec
-----------------------------------------------------------------------------
LEMMA PartIs ==
  ASSUME NEW S, NEW x \in Seq(S), NEW i \in Int, NEW j \in Int,
         1 <= i, i <= j, j <= Len(x)
  PROVE  /\ SubSeq(x, i, j) \in Seq(S) /\ Len(SubSeq(x, i, j)) = (j - i) + 1
         /\ \A a \in 1 .. Len(SubSeq(x, i, j)) : SubSeq(x, i, j)[a] = x[(i + a) - 1]
<1> DEFINE c == (j - i) + 1
           f == [a \in 1 .. c |-> x[(i + a) - 1]]
<1>1. c \in Nat
  OBVIOUS
<1>2. SubSeq(x, i, j) = f
  <2>1. SubSeq(x, i, j) = [a \in 1 .. (1 + j) - i |-> x[(i + a) - 1]]
    BY DEF SubSeq
  <2>2. (1 + j) - i = c
    OBVIOUS
  <2> QED BY <2>1, <2>2
<1>3. \A a \in 1 .. c : x[(i + a) - 1] \in S
  <2>1. ASSUME NEW a \in 1 .. c PROVE (i + a) - 1 \in 1 .. Len(x)
    BY LenProperties
  <2> QED BY <2>1, ElementOfSeq
<1> HIDE DEF c
<1>4. f \in [1 .. c -> S]
  BY <1>3
<1>5. \A a \in 1 .. c : f[a] = x[(i + a) - 1]
  OBVIOUS
<1> HIDE DEF f
<1>6. f \in Seq(S) /\ Len(f) = c
  BY <1>1, <1>4, SeqDef, LenProperties
<1> QED BY <1>2, <1>5, <1>6 DEF c

(* Where the words of x start, which of the starts is the k-th, and where  *)
(* a word that starts at i ends.                                           *)
Starts(x, seps) ==
  {i \in 1 .. Len(x) : x[i] \notin seps /\ (i = 1 \/ x[i - 1] \in seps)}
StartsUpTo(x, seps, q) == {i \in Starts(x, seps) : i <= q}
Start(x, seps, k) ==
  CHOOSE i \in Starts(x, seps) : Cardinality(StartsUpTo(x, seps, i)) = k
EndsAt(x, seps, i, j) ==
  /\ \A a \in i .. j : x[a] \notin seps
  /\ j = Len(x) \/ x[j + 1] \in seps
End(x, seps, i) == CHOOSE j \in i .. Len(x) : EndsAt(x, seps, i, j)

LEMMA WordsDef ==
  ASSUME NEW x, NEW seps
  PROVE  Words(x, seps) =
           [k \in 1 .. Cardinality(Starts(x, seps)) |->
              SubSeq(x, Start(x, seps, k), End(x, seps, Start(x, seps, k)))]
  BY DEF Words, Starts, Start, StartsUpTo, End, EndsAt

LEMMA StartsFinite ==
  ASSUME NEW S, NEW x \in Seq(S), NEW seps, NEW q \in Int
  PROVE  /\ Len(x) \in Nat
         /\ IsFiniteSet(Starts(x, seps)) /\ IsFiniteSet(StartsUpTo(x, seps, q))
         /\ Cardinality(Starts(x, seps)) \in Nat
         /\ Cardinality(StartsUpTo(x, seps, q)) \in Nat
         /\ Cardinality(StartsUpTo(x, seps, q)) <= Cardinality(Starts(x, seps))
<1>1. Len(x) \in Nat
  BY LenProperties
<1>2. IsFiniteSet(1 .. Len(x))
  BY <1>1, FS_Interval
<1>3. Starts(x, seps) \subseteq 1 .. Len(x)
  BY DEF Starts
<1>4. IsFiniteSet(Starts(x, seps))
  BY <1>2, <1>3, FS_Subset
<1>5. StartsUpTo(x, seps, q) \subseteq Starts(x, seps)
  BY DEF StartsUpTo
<1> QED BY <1>1, <1>4, <1>5, FS_Subset, FS_CardinalityType

(* The number of starts up to a start tells which start it is.             *)
LEMMA StartIs ==
  ASSUME NEW S, NEW x \in Seq(S), NEW seps, NEW i \in Starts(x, seps)
  PROVE  Start(x, seps, Cardinality(StartsUpTo(x, seps, i))) = i
<1> DEFINE T(q) == StartsUpTo(x, seps, q)
           ii == Start(x, seps, Cardinality(T(i)))
<1>1. Len(x) \in Nat
  BY LenProperties
<1>2. \A a \in Starts(x, seps) : a \in Int
  BY <1>1 DEF Starts
<1>3. ii \in Starts(x, seps) /\ Cardinality(T(ii)) = Cardinality(T(i))
  BY DEF Start
<1>4. ASSUME NEW a \in Starts(x, seps), NEW b \in Starts(x, seps), a < b
      PROVE  Cardinality(T(a)) # Cardinality(T(b))
  <2>0. a \in Int /\ b \in Int
    BY <1>2
  <2>1. IsFiniteSet(T(b))
    BY <2>0, StartsFinite
  <2>2. T(a) \subseteq T(b)
    <3> SUFFICES ASSUME NEW c \in Starts(x, seps), c <= a PROVE c <= b
      BY DEF StartsUpTo
    <3>1. c \in Int
      BY <1>2
    <3> QED BY <3>1, <1>4, <2>0
  <2>3. b \in T(b) /\ b \notin T(a)
    BY <1>4, <2>0 DEF StartsUpTo
  <2> HIDE DEF T
  <2>4. T(a) # T(b)
    BY <2>3
  <2> QED BY <2>1, <2>2, <2>4, FS_Subset
<1> HIDE DEF ii
<1>5. ~ (ii < i) /\ ~ (i < ii)
  BY <1>3, <1>4
<1>6. ii = i
  BY <1>5, <1>2, <1>3
<1> QED BY <1>6 DEF ii

LEMMA EndIs ==
  ASSUME NEW S, NEW x \in Seq(S), NEW seps, NEW i \in 1 .. Len(x),
         NEW j \in i .. Len(x), EndsAt(x, seps, i, j)
  PROVE  End(x, seps, i) = j
<1> DEFINE jj == End(x, seps, i)
<1>1. Len(x) \in Nat
  BY LenProperties
<1>2. jj \in i .. Len(x) /\ EndsAt(x, seps, i, jj)
  BY DEF End
<1> HIDE DEF jj
<1>0. i \in Int /\ j \in Int /\ jj \in Int /\ i <= j /\ i <= jj /\ j <= Len(x) /\ jj <= Len(x)
  BY <1>1, <1>2
<1>3. ~ (jj < j)
  <2> SUFFICES ASSUME jj < j PROVE FALSE
    OBVIOUS
  <2>1. jj + 1 \in i .. j /\ jj # Len(x)
    BY <1>0
  <2> QED BY <2>1, <1>2 DEF EndsAt
<1>4. ~ (j < jj)
  <2> SUFFICES ASSUME j < jj PROVE FALSE
    OBVIOUS
  <2>1. j + 1 \in i .. jj /\ j # Len(x)
    BY <1>0
  <2> QED BY <2>1, <1>2 DEF EndsAt
<1>5. jj = j
  BY <1>0, <1>3, <1>4
<1> QED BY <1>5 DEF jj

(* How many words start in front of character p, and whether a word may    *)
(* start there.                                                            *)
Found(x, seps, p) == Cardinality(StartsUpTo(x, seps, p - 1))
Between(x, seps, p) == p = 1 \/ p = Len(x) + 1 \/ x[p - 1] \in seps

LEMMA WordsLen ==
  ASSUME NEW S, NEW x \in Seq(S), NEW seps
  PROVE  /\ DOMAIN Words(x, seps) = 1 .. Cardinality(Starts(x, seps))
         /\ Len(Words(x, seps)) = Cardinality(Starts(x, seps))
         /\ Len(Words(x, seps)) \in Nat
         /\ Words(x, seps) = [k \in 1 .. Len(Words(x, seps)) |-> Words(x, seps)[k]]
<1>1. Cardinality(Starts(x, seps)) \in Nat
  BY StartsFinite, 0 \in Int
<1> DEFINE W == Words(x, seps)
           c == Cardinality(Starts(x, seps))
<1>2. W = [k \in 1 .. c |-> SubSeq(x, Start(x, seps, k), End(x, seps, Start(x, seps, k)))]
  BY WordsDef
<1> HIDE DEF c
<1>3. DOMAIN W = 1 .. c /\ W = [k \in 1 .. c |-> W[k]]
  BY <1>2
<1> HIDE DEF W
<1>4. W \in [1 .. c -> {W[k] : k \in 1 .. c}]
  BY <1>3
<1>5. W \in Seq({W[k] : k \in 1 .. c})
  BY <1>1, <1>4, SeqDef DEF c
<1>6. Len(W) = c
  BY <1>1, <1>3, <1>5, LenProperties DEF c
<1> QED BY <1>1, <1>3, <1>6 DEF W, c

(* Only separators from p on: all words start in front of p.               *)
LEMMA AllFound ==
  ASSUME NEW S, NEW x \in Seq(S), NEW seps, NEW p \in 1 .. Len(x) + 1,
         \A a \in p .. Len(x) : x[a] \in seps
  PROVE  Len(Words(x, seps)) = Found(x, seps, p)
<1>1. Len(x) \in Nat
  BY LenProperties
<1>2. ASSUME NEW a \in Starts(x, seps) PROVE a <= p - 1
  <2>1. a \in 1 .. Len(x) /\ x[a] \notin seps
    BY DEF Starts
  <2>2. ~ (a >= p)
    <3> SUFFICES ASSUME a >= p PROVE FALSE
      OBVIOUS
    <3>1. a \in p .. Len(x)
      BY <2>1, <1>1
    <3> QED BY <3>1, <2>1
  <2> QED BY <2>1, <2>2, <1>1
<1>3. StartsUpTo(x, seps, p - 1) = Starts(x, seps)
  BY <1>2 DEF StartsUpTo
<1> QED BY <1>3, WordsLen DEF Found

(* The characters i to j of x are its word number k.                       *)
IsWord(x, seps, i, j, k) ==
  /\ k \in 1 .. Len(Words(x, seps))
  /\ Words(x, seps)[k] = SubSeq(x, i, j)
  /\ Found(x, seps, j + 1) = k
  /\ Found(x, seps, j + 2) = k
  /\ j = Len(x) \/ Between(x, seps, j + 2)

(* The next word from p on starts at i, behind separators, and ends at j.  *)
LEMMA NextFound ==
  ASSUME NEW S, NEW x \in Seq(S), NEW seps, NEW p \in 1 .. Len(x) + 1,
         Between(x, seps, p), NEW i \in p .. Len(x), NEW j \in i .. Len(x),
         \A a \in p .. i - 1 : x[a] \in seps, EndsAt(x, seps, i, j)
  PROVE  IsWord(x, seps, i, j, Found(x, seps, p) + 1)
<1>1. Len(x) \in Nat
  BY LenProperties
<1>0. /\ p \in Int /\ i \in Int /\ j \in Int /\ 1 <= p /\ p <= i /\ i <= j /\ j <= Len(x)
  BY <1>1
<1>2. i \in Starts(x, seps)
  <2>1. x[i] \notin seps /\ i \in 1 .. Len(x)
    <3>1. i \in i .. j /\ i \in 1 .. Len(x)
      BY <1>0
    <3> QED BY <3>1 DEF EndsAt
  <2>2. CASE i = p
    BY <2>1, <2>2, <1>0, <1>1 DEF Starts, Between
  <2>3. CASE i # p
    <3>1. i - 1 \in p .. i - 1
      BY <2>3, <1>0
    <3> QED BY <3>1, <2>1 DEF Starts
  <2> QED BY <2>2, <2>3
<1>3. ASSUME NEW a \in Starts(x, seps), a <= i PROVE a = i \/ a <= p - 1
  <2>1. a \in 1 .. Len(x) /\ x[a] \notin seps
    BY DEF Starts
  <2>2. ~ (a \in p .. i - 1)
    BY <2>1
  <2> QED BY <2>1, <2>2, <1>0, <1>3
<1>4. ASSUME NEW a \in Starts(x, seps), a <= j + 1 PROVE a <= i
  <2>1. a \in 1 .. Len(x) /\ x[a] \notin seps /\ (a = 1 \/ x[a - 1] \in seps)
    BY DEF Starts
  <2> SUFFICES ASSUME ~ (a <= i) PROVE FALSE
    OBVIOUS
  <2>2. a # 1 /\ a - 1 \in i .. j
    BY <2>1, <1>0, <1>4
  <2>3. x[a - 1] \notin seps
    BY <2>2 DEF EndsAt
  <2> QED BY <2>1, <2>2, <2>3
<1> DEFINE T(q) == StartsUpTo(x, seps, q)
<1>5. T(i) = T(p - 1) \cup {i} /\ i \notin T(p - 1)
  <2>1. \A a \in Starts(x, seps) : a \in Int
    BY <1>1 DEF Starts
  <2>2. ASSUME NEW a \in Starts(x, seps)
        PROVE  a <= i <=> a = i \/ a <= p - 1
    BY <2>1, <1>0, <1>3
  <2>3. ~ (i <= p - 1)
    BY <1>0
  <2> QED BY <2>2, <2>3, <1>2 DEF StartsUpTo
<1>6. T((j + 1) - 1) = T(i) /\ T((j + 2) - 1) = T(i)
  <2>1. \A a \in Starts(x, seps) : a \in Int
    BY <1>1 DEF Starts
  <2> QED BY <2>1, <1>0, <1>4 DEF StartsUpTo
<1>7. IsFiniteSet(T(p - 1)) /\ Cardinality(T(p - 1)) \in Nat
  BY <1>0, StartsFinite
<1> DEFINE k == Found(x, seps, p) + 1
<1>8. Cardinality(T(i)) = k
  <2> HIDE DEF T
  <2>1. Cardinality(T(i)) = Cardinality(T(p - 1)) + 1
    BY <1>5, <1>7, FS_AddElement
  <2> QED BY <2>1 DEF Found, T
<1>9. Found(x, seps, j + 1) = k /\ Found(x, seps, j + 2) = k
  BY <1>6, <1>8 DEF Found
<1>10. k \in 1 .. Cardinality(Starts(x, seps))
  <2>1. Cardinality(T(i)) <= Cardinality(Starts(x, seps))
        /\ Cardinality(Starts(x, seps)) \in Nat
    BY <1>0, StartsFinite
  <2>2. k \in Nat /\ k >= 1
    BY <1>7 DEF Found
  <2> HIDE DEF k, T
  <2> QED BY <2>1, <2>2, <1>8
<1>11. Start(x, seps, k) = i
  BY <1>8, <1>2, StartIs
<1>12. End(x, seps, i) = j
  <2>1. i \in 1 .. Len(x)
    BY <1>0
  <2> QED BY <2>1, EndIs
<1> HIDE DEF k, T
<1>13. Words(x, seps)[k] = SubSeq(x, i, j)
  BY <1>10, <1>11, <1>12, WordsDef
<1>14. j = Len(x) \/ Between(x, seps, j + 2)
  <2>1. (j + 2) - 1 = j + 1
    BY <1>0
  <2> QED BY <2>1 DEF EndsAt, Between
<1>15. k \in 1 .. Len(Words(x, seps))
  BY <1>10, WordsLen
<1> QED BY <1>9, <1>13, <1>14, <1>15 DEF IsWord, k
-----------------------------------------------------------------------------
Letter == 1 .. 255

LEMMA LetterNotNUL == \A c \in Letter : c # NUL /\ c \in Code
  BY DEF Letter, NUL, Code

(* From its character p on, x stands in the memory behind address o, with  *)
(* a NUL at its end.                                                       *)
Holds(m, o, x, p) ==
  /\ \A a \in p .. Len(x) : m[o + a] = x[a]
  /\ m[(o + Len(x)) + 1] = NUL

(* The string at address a is w.                                           *)
IsString(m, a, w) == w \in Seq(Letter) /\ Len(w) > 0 /\ Holds(m, a - 1, w, 1)

(* A tokenizer whose saveptr is s has cut k words off x.                   *)
HasCut(m, s, o, x, seps, k) ==
  \E p \in 1 .. Len(x) + 1 : /\ s = o + p
                             /\ Holds(m, o, x, p)
                             /\ Between(x, seps, p)
                             /\ Found(x, seps, p) = k

(* What r, the result of a call of the tokenizer, then is: there are no    *)
(* more words, or it is the next one and only the memory from behind s to  *)
(* the end of x has changed.                                               *)
NoWord(r, m, x, seps, k) == r.tok = NULL /\ r.mem = m /\ Len(Words(x, seps)) = k
IsNext(r, m, n, s, o, x, seps, k) ==
  LET w == Words(x, seps)[k + 1]
  IN /\ k + 1 <= Len(Words(x, seps))
     /\ IsString(r.mem, r.tok, w)
     /\ HasCut(r.mem, r.save, o, x, seps, k + 1)
     /\ r.tok \in Int /\ r.tok >= 1
     /\ r.tok + Len(w) <= r.save /\ r.save \in Int /\ r.save >= s
     /\ \A a \in 1 .. n : a <= s \/ a > o + Len(x) => r.mem[a] = m[a]

LEMMA StringIs ==
  ASSUME NEW n, NEW m, Text(m, n), NEW a \in 1 .. n, NEW w, IsString(m, a, w),
         a + Len(w) <= n
  PROVE  StringAt(m, a) = w
<1> DEFINE q == Scan(m, a, {})
<1>1. q \in a .. n /\ Stops(m, a, {}, q)
  BY ScanIs
<1>2. w \in Seq(Letter) /\ Len(w) \in Nat
  BY LenProperties DEF IsString
<1>n. n \in Nat /\ NUL = 0
  BY DEF Text, NUL
<1>3. \A i \in 1 .. Len(w) : m[(a - 1) + i] = w[i] /\ w[i] \in Letter
  BY <1>2, ElementOfSeq DEF IsString, Holds
<1>4. m[a + Len(w)] = NUL
  <2>1. ((a - 1) + Len(w)) + 1 = a + Len(w)
    BY <1>2
  <2> QED BY <2>1 DEF IsString, Holds
<1>5. Stops(m, a, {}, a + Len(w))
  <2>1. ASSUME NEW c \in a .. (a + Len(w)) - 1 PROVE m[c] # NUL
    <3>1. (c - a) + 1 \in 1 .. Len(w) /\ (a - 1) + ((c - a) + 1) = c
      BY <1>2
    <3>2. m[c] \in Letter
      BY <3>1, <1>3
    <3> QED BY <3>2, LetterNotNUL
  <2> QED BY <2>1, <1>4 DEF Stops
<1>6. a + Len(w) \in a .. n
  BY <1>2, <1>n
<1>7. q = a + Len(w)
  BY <1>1, <1>5, <1>6, OneStop
<1>8. strlen(m, a) = Len(w)
  BY <1>7, <1>2 DEF strlen
<1>9. StringAt(m, a) = [i \in 1 .. Len(w) |-> m[(a + i) - 1]]
  <2>1. StringAt(m, a) = [i \in 1 .. strlen(m, a) |-> m[a + i - 1]]
    BY DEF StringAt
  <2>2. \A i \in 1 .. Len(w) : a + i - 1 = (a + i) - 1
    BY <1>2
  <2> QED BY <2>1, <2>2, <1>8
<1>10. \A i \in 1 .. Len(w) : m[(a + i) - 1] = w[i]
  <2>1. \A i \in 1 .. Len(w) : (a + i) - 1 = (a - 1) + i
    BY <1>2
  <2> QED BY <2>1, <1>3
<1>11. w = [i \in 1 .. Len(w) |-> w[i]]
  BY <1>2, LenProperties
<1> QED BY <1>9, <1>10, <1>11

LEMMA NextToken ==
  ASSUME NEW n, NEW m, Text(m, n), NEW o \in Nat, NEW x \in Seq(Letter),
         o + Len(x) + 1 <= n, NEW seps, NUL \notin seps, NEW k,
         NEW s, HasCut(m, s, o, x, seps, k)
  PROVE  LET r == strtok_r(m, s, seps)
         IN NoWord(r, m, x, seps, k) \/ IsNext(r, m, n, s, o, x, seps, k)
<1> DEFINE N == Len(x)
           z == (o + N) + 1
           r == strtok_r(m, s, seps)
<1>1. PICK p \in 1 .. N + 1 : /\ s = o + p /\ Holds(m, o, x, p)
                              /\ Between(x, seps, p) /\ Found(x, seps, p) = k
  BY DEF HasCut
<1>2. N \in Nat
  BY LenProperties
<1>0. n \in Nat /\ NUL = 0 /\ NULL = 0 /\ p \in Int /\ 1 <= p /\ p <= N + 1
      /\ z <= n
  BY <1>1, <1>2 DEF Text, NUL, NULL
<1>3. \A a \in 1 .. N : x[a] \in Letter /\ x[a] # NUL
  <2>1. \A a \in 1 .. N : x[a] \in Letter
    BY ElementOfSeq
  <2> QED BY <2>1, LetterNotNUL
<1>4. m[z] = NUL /\ \A a \in p .. N : m[o + a] = x[a]
  BY <1>1 DEF Holds
<1> HIDE DEF z, N
<1>z. z = (o + N) + 1 /\ N = Len(x)
  BY DEF z, N
<1>5. s \in 1 .. n /\ s \in Int /\ z \in Int
  BY <1>0, <1>1, <1>2, <1>z
<1>6. \A c \in s .. z - 1 : /\ c - o \in p .. N /\ c - o \in 1 .. N
                            /\ m[c] = x[c - o] /\ m[c] # NUL
  <2> SUFFICES ASSUME NEW c \in s .. z - 1
               PROVE  /\ c - o \in p .. N /\ c - o \in 1 .. N
                      /\ m[c] = x[c - o] /\ m[c] # NUL
    OBVIOUS
  <2>1. c - o \in p .. N /\ c - o \in 1 .. N /\ o + (c - o) = c
    BY <1>0, <1>1, <1>2, <1>z
  <2> QED BY <2>1, <1>3, <1>4
<1>7. PICK t \in s .. n : \/ NoMore(m, s, seps, t, r)
                          \/ \E e \in t + 1 .. n : Cut(m, s, seps, t, e, r)
  BY <1>5, StrtokIs
<1> HIDE DEF r
<1>t. t \in Int /\ s <= t
  BY <1>5, <1>0
<1>8. CASE NoMore(m, s, seps, t, r)
  <2>1. m[t] = NUL /\ (\A a \in s .. t - 1 : m[a] \in seps /\ m[a] # NUL)
        /\ r.tok = NULL /\ r.mem = m
    BY <1>8 DEF NoMore
  <2>2. ~ (t < z)
    <3> SUFFICES ASSUME t < z PROVE FALSE
      OBVIOUS
    <3>1. t \in s .. z - 1
      BY <1>t, <1>5
    <3> QED BY <3>1, <1>6, <2>1
  <2>3. \A a \in p .. N : x[a] \in seps
    <3> SUFFICES ASSUME NEW a \in p .. N PROVE x[a] \in seps
      OBVIOUS
    <3>1. o + a \in s .. t - 1
      BY <2>2, <1>t, <1>1, <1>z, <1>2, <1>0
    <3> QED BY <3>1, <2>1, <1>4
  <2>4. Len(Words(x, seps)) = Found(x, seps, p)
    BY <2>3, <1>z, <1>1, AllFound
  <2> QED BY <2>1, <2>4, <1>1 DEF NoWord, r
<1>9. ASSUME NEW e \in t + 1 .. n, Cut(m, s, seps, t, e, r)
      PROVE  IsNext(r, m, n, s, o, x, seps, k)
  <2>1. /\ m[t] # NUL
        /\ \A a \in s .. t - 1 : m[a] \in seps /\ m[a] # NUL
        /\ \A a \in t .. e - 1 : m[a] \notin seps /\ m[a] # NUL
        /\ m[e] \in seps \cup {NUL}
        /\ r.tok = t /\ r.save = (IF m[e] = NUL THEN e ELSE e + 1)
        /\ r.mem = [m EXCEPT ![e] = NUL]
    BY <1>9 DEF Cut
  <2>e. e \in Int /\ t < e /\ e <= n
    BY <1>t, <1>0
  <2>2. ~ (z < e)
    <3> SUFFICES ASSUME z < e PROVE FALSE
      OBVIOUS
    <3>1. s <= z
      BY <1>0, <1>1, <1>2, <1>z
    <3>2. z \in s .. t - 1 \/ z \in t .. e - 1
      BY <3>1, <1>t, <2>e, <1>5
    <3> QED BY <3>2, <2>1, <1>4
  <2> DEFINE i == t - o
             j == (e - o) - 1
  <2>3. i \in p .. N /\ j \in i .. N /\ t = o + i /\ e = (o + j) + 1
        /\ i \in Int /\ j \in Int
    BY <2>2, <2>e, <1>t, <1>0, <1>1, <1>2, <1>z
  <2> HIDE DEF i, j
  <2>4. \A a \in p .. i - 1 : x[a] \in seps
    <3> SUFFICES ASSUME NEW a \in p .. i - 1 PROVE x[a] \in seps
      OBVIOUS
    <3>1. o + a \in s .. t - 1 /\ a \in p .. N
      BY <2>3, <1>1, <1>2, <1>0
    <3> QED BY <3>1, <2>1, <1>4
  <2>5. EndsAt(x, seps, i, j)
    <3>1. ASSUME NEW a \in i .. j PROVE x[a] \notin seps
      <4>1. o + a \in t .. e - 1 /\ a \in p .. N
        BY <2>3, <1>2, <1>0
      <4> QED BY <4>1, <2>1, <1>4
    <3>2. ASSUME j # N PROVE x[j + 1] \in seps
      <4>1. j + 1 \in p .. N /\ e = o + (j + 1) /\ j + 1 \in 1 .. N
        BY <3>2, <2>3, <1>2, <1>0
      <4> QED BY <4>1, <1>3, <1>4, <2>1
    <3> QED BY <3>1, <3>2, <1>z DEF EndsAt
  <2>6. /\ k + 1 \in 1 .. Len(Words(x, seps))
        /\ Words(x, seps)[k + 1] = SubSeq(x, i, j)
        /\ Found(x, seps, j + 1) = k + 1 /\ Found(x, seps, j + 2) = k + 1
        /\ j = N \/ Between(x, seps, j + 2)
    <3>1. p \in 1 .. Len(x) + 1 /\ i \in p .. Len(x) /\ j \in i .. Len(x)
      BY <2>3, <1>1, <1>z
    <3>2. IsWord(x, seps, i, j, Found(x, seps, p) + 1)
      BY <3>1, <2>4, <2>5, <1>1, NextFound
    <3>3. IsWord(x, seps, i, j, k + 1)
      BY <3>2, <1>1
    <3> QED BY <3>3, <1>z DEF IsWord
  <2> DEFINE w == SubSeq(x, i, j)
  <2>7. /\ w \in Seq(Letter) /\ Len(w) = (j - i) + 1
        /\ \A a \in 1 .. Len(w) : w[a] = x[(i + a) - 1]
    <3>1. 1 <= i /\ j <= Len(x) /\ i <= j
      BY <2>3, <1>0, <1>2, <1>z
    <3> QED BY <3>1, <2>3, PartIs
  <2> HIDE DEF w
  <2>8. IsString(r.mem, t, w)
    <3>1. ASSUME NEW a \in 1 .. Len(w) PROVE r.mem[(t - 1) + a] = w[a]
      <4>1. /\ (i + a) - 1 \in p .. N /\ (t - 1) + a = o + ((i + a) - 1)
            /\ (t - 1) + a \in 1 .. n /\ (t - 1) + a # e
        <5>1. a \in Int /\ 1 <= a /\ a <= (j - i) + 1
          BY <2>7
        <5>2. /\ p <= i /\ i <= j /\ j <= N /\ o \in Int /\ 0 <= o
              /\ o + N + 1 <= n
          BY <2>3, <1>0, <1>2, <1>z
        <5>3. (i + a) - 1 \in p .. N
          BY <5>1, <5>2, <2>3, <1>0, <1>2
        <5>4. (t - 1) + a = o + ((i + a) - 1)
          BY <5>1, <5>2, <2>3
        <5>5. (t - 1) + a \in 1 .. n
          BY <5>1, <5>2, <2>3, <1>0, <1>2
        <5>6. (t - 1) + a # e
          BY <5>1, <5>2, <2>3
        <5> QED BY <5>3, <5>4, <5>5, <5>6
      <4>2. m[(t - 1) + a] = x[(i + a) - 1]
        BY <4>1, <1>4
      <4> QED BY <4>1, <4>2, <2>1, <2>7 DEF Text
    <3>2. ((t - 1) + Len(w)) + 1 = e
      BY <2>3, <2>7, <1>2, <1>0
    <3>3. r.mem[e] = NUL
      <4>1. e \in 1 .. n
        BY <2>3, <2>e, <1>0
      <4> QED BY <4>1, <2>1 DEF Text
    <3>4. Len(w) > 0
      BY <2>3, <2>7
    <3> QED BY <3>1, <3>2, <3>3, <3>4, <2>7 DEF IsString, Holds
  <2>9. HasCut(r.mem, r.save, o, x, seps, k + 1)
    <3>1. CASE m[e] = NUL
      <4>1. j = N
        <5> SUFFICES ASSUME j # N PROVE FALSE
          OBVIOUS
        <5>1. e \in s .. z - 1
          <6>1. j < N /\ e = (o + j) + 1 /\ z = (o + N) + 1 /\ o \in Int
            BY <2>3, <1>z, <1>2
          <6> QED BY <6>1, <2>3, <1>t, <2>e, <1>2, <1>5
        <5> QED BY <5>1, <1>6, <3>1
      <4>2. r.mem = m
        BY <2>1, <3>1 DEF Text
      <4>3. Holds(m, o, x, N + 1)
        BY <1>4, <1>z, <1>2 DEF Holds
      <4>4. N + 1 \in 1 .. Len(x) + 1 /\ r.save = o + (N + 1) /\ j + 1 = N + 1
        BY <2>1, <3>1, <4>1, <2>3, <1>z, <1>2
      <4>5. Between(x, seps, N + 1)
        BY <1>z DEF Between
      <4>6. Found(x, seps, N + 1) = k + 1
        BY <4>1, <2>6
      <4> QED BY <4>2, <4>3, <4>4, <4>5, <4>6 DEF HasCut
    <3>2. CASE m[e] # NUL
      <4>1. e # z
        BY <3>2, <1>4
      <4>2. j # N
        BY <4>1, <2>3, <1>z
      <4>3. j + 2 \in 1 .. Len(x) + 1 /\ r.save = o + (j + 2)
        <5>1. r.save = e + 1
          BY <2>1, <3>2
        <5>2. j < N /\ 1 <= j
          BY <4>2, <2>3, <1>2, <1>0
        <5> QED BY <5>1, <5>2, <2>3, <1>z, <1>2
      <4>4. Holds(r.mem, o, x, j + 2)
        <5>1. ASSUME NEW a \in j + 2 .. N PROVE r.mem[o + a] = x[a]
          <6>1. o + a # e /\ a \in p .. N /\ o + a \in 1 .. n
            BY <2>3, <1>z, <1>2, <1>0
          <6> QED BY <6>1, <2>1, <1>4 DEF Text
        <5>2. r.mem[z] = NUL
          <6>1. z \in 1 .. n
            BY <1>z, <1>2, <1>0
          <6> QED BY <6>1, <4>1, <2>1, <1>4 DEF Text
        <5> QED BY <5>1, <5>2, <1>z DEF Holds
      <4> QED BY <4>2, <4>3, <4>4, <2>6 DEF HasCut
    <3> QED BY <3>1, <3>2
  <2>10. ASSUME NEW a \in 1 .. n, a <= s \/ a > o + N PROVE r.mem[a] = m[a]
    <3>1. CASE a # e
      BY <3>1, <2>1 DEF Text
    <3>2. CASE a = e
      <4>1. e = z
        BY <3>2, <2>10, <2>2, <2>e, <1>t, <1>z, <1>2, <1>5
      <4> QED BY <3>2, <4>1, <1>4, <2>1 DEF Text
    <3> QED BY <3>1, <3>2
  <2>11. r.tok \in Int /\ r.tok >= 1 /\ r.save \in Int /\ r.save >= s
    BY <2>1, <2>e, <1>t, <1>5
  <2>12. r.tok + Len(w) <= r.save
    <3>1. t + Len(w) = e
      BY <2>3, <2>7
    <3>2. r.save = e \/ r.save = e + 1
      BY <2>1
    <3> QED BY <3>1, <3>2, <2>1, <2>e
  <2>13. Words(x, seps)[k + 1] = w /\ k + 1 <= Len(Words(x, seps))
    BY <2>6 DEF w
  <2>14. IsString(r.mem, r.tok, w)
    BY <2>1, <2>8
  <2> QED BY <2>9, <2>10, <2>11, <2>12, <2>13, <2>14, <1>z DEF IsNext
<1> QED BY <1>7, <1>8, <1>9 DEF r
-----------------------------------------------------------------------------
LEMMA BeforeIs ==
  ASSUME NEW S, NEW x \in Seq(S), NEW stop, NEW c \in 0 .. Len(x),
         \A i \in 1 .. c : x[i] \notin stop, c = Len(x) \/ x[c + 1] \in stop
  PROVE  Before(x, stop) = SubSeq(x, 1, c)
<1> DEFINE T == {q \in 0 .. Len(x) : \A i \in 1 .. q : x[i] \notin stop}
<1>1. Len(x) \in Nat /\ c \in Nat
  BY LenProperties
<1>2. c \in T
  OBVIOUS
<1>3. ASSUME NEW q \in T PROVE c >= q
  <2>0. q \in 0 .. Len(x) /\ \A i \in 1 .. q : x[i] \notin stop
    OBVIOUS
  <2> SUFFICES ASSUME ~ (c >= q) PROVE FALSE
    OBVIOUS
  <2>1. c + 1 \in 1 .. q /\ c # Len(x)
    BY <2>0, <1>1
  <2> QED BY <2>0, <2>1
<1>b. Before(x, stop) = SubSeq(x, 1, Max(T))
  BY DEF Before
<1>t. T \subseteq Int
  BY <1>1
<1> HIDE DEF T
<1>4. Max(T) \in T /\ \A y \in T : Max(T) >= y
  BY <1>2, <1>3 DEF Max
<1>5. Max(T) = c
  <2>1. \A y \in Int : c >= y /\ y >= c => y = c
    BY <1>1
  <2>2. c >= Max(T) /\ Max(T) >= c /\ Max(T) \in Int
    BY <1>2, <1>3, <1>4, <1>t
  <2> QED BY <2>1, <2>2
<1> QED BY <1>5, <1>b

LEMMA BeforeSome ==
  ASSUME NEW S, NEW x \in Seq(S), NEW stop
  PROVE  \E c \in 0 .. Len(x) : /\ Before(x, stop) = SubSeq(x, 1, c)
                                /\ \A i \in 1 .. c : x[i] \notin stop
                                /\ c = Len(x) \/ x[c + 1] \in stop
<1> DEFINE T == {q \in 0 .. Len(x) : q = Len(x) \/ x[q + 1] \in stop}
<1>1. Len(x) \in Nat
  BY LenProperties
<1>2. Len(x) \in T /\ T \subseteq Nat
  BY <1>1
<1> HIDE DEF T
<1>3. PICK c \in T : \A y \in T : c <= y
  BY <1>2, LeastElement, Zenon
<1>4. c \in 0 .. Len(x) /\ (c = Len(x) \/ x[c + 1] \in stop)
  BY DEF T
<1>5. ASSUME NEW i \in 1 .. c PROVE x[i] \notin stop
  <2>1. i - 1 \in 0 .. Len(x) /\ (i - 1) + 1 = i /\ ~ (c <= i - 1)
    BY <1>1, <1>4
  <2>2. i - 1 \notin T
    BY <2>1, <1>3
  <2> QED BY <2>1, <2>2 DEF T
<1> QED BY <1>4, <1>5, BeforeIs

(* The line up to its first NUL, its commands, and the one that is run     *)
(* next.                                                                   *)
text == Before(line, {NUL})
cmds == Words(text, comsep)
cmd == cmds[Len(ran) + 1]
Vector == Seq(Seq(Letter))

RanInv ==
  /\ ran \in Seq(Vector) /\ Len(ran) <= Len(cmds)
  /\ \A k \in 1 .. Len(ran) : ran[k] = Words(cmds[k], argsep) /\ ran[k] # <<>>

LEMMA AskedIs ==
  ASSUME text \in Seq(Letter), RanInv
  PROVE  /\ IsPrefix(ran, Asked(line))
         /\ Len(ran) = Len(cmds) \/ Words(cmd, argsep) = <<>> => ran = Asked(line)
<1> DEFINE V == [k \in DOMAIN cmds |-> Words(cmds[k], argsep)]
           c == Len(cmds)
<1>1. DOMAIN cmds = 1 .. c /\ c \in Nat
  BY WordsLen DEF cmds
<1>2. Asked(line) = Before(V, {<<>>})
  BY DEF Asked, cmds, text
<1> HIDE DEF c
<1>3. DOMAIN V = 1 .. c /\ \A k \in 1 .. c : V[k] = Words(cmds[k], argsep)
  BY <1>1
<1>f. V = [k \in 1 .. c |-> V[k]]
  BY <1>1
<1> HIDE DEF V
<1> DEFINE S == {V[k] : k \in 1 .. c}
<1>4. V \in [1 .. c -> S]
  BY <1>f
<1> HIDE DEF S
<1>5. V \in Seq(S)
  BY <1>1, <1>4, SeqDef
<1>6. Len(V) = c
  BY <1>1, <1>3, <1>5, LenProperties
<1>7. Len(ran) \in 0 .. c /\ ran \in Seq(Vector) /\ Len(ran) \in Nat
  <2>1. Len(ran) \in Nat
    BY LenProperties DEF RanInv
  <2> QED BY <2>1, <1>1 DEF RanInv, c
<1>8. \A k \in 1 .. Len(ran) : k \in 1 .. c /\ V[k] = ran[k] /\ ran[k] \notin {<<>>}
  BY <1>1, <1>3, <1>7 DEF RanInv
<1>9. ASSUME NEW q \in Len(ran) .. c
      PROVE  IsPrefix(ran, SubSeq(V, 1, q)) /\ (q = Len(ran) => SubSeq(V, 1, q) = ran)
  <2>0. q \in Nat /\ Len(ran) <= q /\ q <= c
    BY <1>1, <1>7
  <2>1. /\ SubSeq(V, 1, q) \in Seq(S) /\ Len(SubSeq(V, 1, q)) = q
        /\ \A k \in 1 .. q : SubSeq(V, 1, q)[k] = V[k]
    <3>1. SubSeq(V, 1, q) = [k \in 1 .. q |-> V[k]]
      BY <2>0, <1>1, <1>4 DEF SubSeq
    <3>2. [k \in 1 .. q |-> V[k]] \in [1 .. q -> S]
      BY <2>0, <1>1, <1>4
    <3>3. [k \in 1 .. q |-> V[k]] \in Seq(S)
      BY <3>2, <2>0, SeqDef
    <3>4. Len([k \in 1 .. q |-> V[k]]) = q
      BY <3>3, <2>0, LenProperties
    <3> QED BY <3>1, <3>3, <3>4
  <2>2. ran = [k \in 1 .. Len(ran) |-> ran[k]]
    BY <1>7, LenProperties
  <2>3. SubSeq(ran, 1, Len(ran)) = ran
    BY <2>2, <1>7 DEF SubSeq
  <2> DEFINE U == SubSeq(V, 1, q)
  <2>4. SubSeq(U, 1, Len(ran)) = [k \in 1 .. Len(ran) |-> U[k]]
    BY <1>7 DEF SubSeq
  <2>5. \A k \in 1 .. Len(ran) : U[k] = ran[k]
    <3>1. \A k \in 1 .. Len(ran) : k \in 1 .. q
      BY <2>0, <1>7
    <3> QED BY <3>1, <2>1, <1>8
  <2> HIDE DEF U
  <2>6. SubSeq(U, 1, Len(ran)) = ran
    BY <2>2, <2>4, <2>5
  <2>7. IsPrefix(ran, U)
    BY <2>0, <2>1, <2>3, <2>6 DEF IsPrefix, U
  <2>8. U = [k \in 1 .. q |-> U[k]]
    BY <2>1, LenProperties DEF U
  <2>9. q = Len(ran) => U = ran
    BY <2>2, <2>5, <2>8
  <2> QED BY <2>7, <2>9 DEF U
<1>10. PICK q \in 0 .. Len(V) : /\ Before(V, {<<>>}) = SubSeq(V, 1, q)
                                /\ \A i \in 1 .. q : V[i] \notin {<<>>}
                                /\ q = Len(V) \/ V[q + 1] \in {<<>>}
  BY <1>5, BeforeSome
<1>11. q \in Len(ran) .. c
  <2>0. q \in 0 .. c
    BY <1>6
  <2> SUFFICES ASSUME ~ (Len(ran) <= q) PROVE FALSE
    BY <2>0, <1>1, <1>7
  <2>1. q + 1 \in 1 .. Len(ran) /\ q # c
    BY <2>0, <1>1, <1>7
  <2> QED BY <2>1, <1>6, <1>8, <1>10
<1>12. ASSUME Len(ran) = c \/ Words(cmd, argsep) = <<>> PROVE q = Len(ran)
  <2>1. CASE Len(ran) = c
    BY <2>1, <1>11, <1>1
  <2>2. CASE Len(ran) # c
    <3>1. Len(ran) + 1 \in 1 .. c
      BY <2>2, <1>7, <1>1
    <3>2. V[Len(ran) + 1] = <<>>
      BY <3>1, <2>2, <1>3, <1>12 DEF cmd
    <3>3. ~ (Len(ran) + 1 <= q)
      <4> SUFFICES ASSUME Len(ran) + 1 <= q PROVE FALSE
        OBVIOUS
      <4>1. Len(ran) + 1 \in 1 .. q
        BY <1>7
      <4> QED BY <4>1, <3>2, <1>10
    <3> QED BY <3>3, <1>11, <1>7, <1>1
  <2> QED BY <2>1, <2>2
<1>13. IsPrefix(ran, Asked(line)) /\ (q = Len(ran) => Asked(line) = ran)
  BY <1>2, <1>9, <1>10, <1>11
<1> QED BY <1>12, <1>13 DEF c
-----------------------------------------------------------------------------
(* The words found so far of the command are its first, and end in front   *)
(* of the tokenizer's place.                                               *)
WordsFound ==
  \A i \in 1 .. Len(argv) :
    LET w == Words(cmd, argsep)[i]
    IN IsString(mem, argv[i], w) /\ argv[i] + Len(w) <= starg

(* The outer tokenizer stands behind the command being worked on; the      *)
(* inner one is within it.                                                 *)
SplitInv ==
  Terminated =>
    /\ text \in Seq(Letter) /\ Len(text) <= bytes
    /\ RanInv
    /\ pc = "command" => HasCut(mem, stcmd, 0, text, comsep, Len(ran))
    /\ pc \in {"word", "run"} =>
         /\ Len(ran) + 1 <= Len(cmds)
         /\ HasCut(mem, stcmd, 0, text, comsep, Len(ran) + 1)
         /\ cmd \in Seq(Letter)
         /\ WordsFound
    /\ pc = "word" =>
         \E o \in 0 .. stcmd : /\ o + Len(cmd) + 1 <= stcmd
                               /\ HasCut(mem, starg, o, cmd, argsep, Len(argv))
    /\ pc = "run" => argv # <<>> /\ Len(argv) = Len(Words(cmd, argsep))
    /\ pc = "prompt" => ran = Asked(line)

SplitOk == ShellInv /\ SplitInv

LEMMA SameHasCut ==
  ASSUME NEW n \in Nat, NEW m, NEW mm, NEW o \in Nat, NEW T, NEW x \in Seq(T),
         NEW s, NEW seps, NEW k, HasCut(m, s, o, x, seps, k),
         o + Len(x) + 1 <= n, \A a \in 1 .. n : a >= s => mm[a] = m[a]
  PROVE  HasCut(mm, s, o, x, seps, k)
<1>1. PICK p \in 1 .. Len(x) + 1 : /\ s = o + p /\ Holds(m, o, x, p)
                                   /\ Between(x, seps, p) /\ Found(x, seps, p) = k
  BY DEF HasCut
<1>2. Len(x) \in Nat
  BY LenProperties
<1>3. ASSUME NEW a \in p .. Len(x) + 1 PROVE mm[o + a] = m[o + a]
  <2>1. o + a \in 1 .. n /\ o + a >= s
    BY <1>1, <1>2
  <2> QED BY <2>1
<1>4. \A a \in p .. Len(x) : mm[o + a] = x[a]
  <2>1. \A a \in p .. Len(x) : a \in p .. Len(x) + 1
    BY <1>2
  <2> QED BY <2>1, <1>1, <1>3 DEF Holds
<1>5. mm[(o + Len(x)) + 1] = NUL
  <2>1. Len(x) + 1 \in p .. Len(x) + 1 /\ o + (Len(x) + 1) = (o + Len(x)) + 1
    BY <1>1, <1>2
  <2> QED BY <2>1, <1>1, <1>3 DEF Holds
<1> QED BY <1>1, <1>4, <1>5 DEF HasCut, Holds

LEMMA SameIsString ==
  ASSUME NEW n \in Nat, NEW m, NEW mm, NEW w, NEW a \in Nat \ {0}, IsString(m, a, w),
         NEW s \in 1 .. n, a + Len(w) <= s, \A c \in 1 .. n : c <= s => mm[c] = m[c]
  PROVE  IsString(mm, a, w)
<1>1. Len(w) \in Nat
  BY LenProperties DEF IsString
<1>2. ASSUME NEW c \in 1 .. Len(w) PROVE mm[(a - 1) + c] = w[c]
  <2>1. (a - 1) + c \in 1 .. n /\ (a - 1) + c <= s
    BY <1>1
  <2> QED BY <2>1 DEF IsString, Holds
<1>3. mm[((a - 1) + Len(w)) + 1] = NUL
  <2>1. ((a - 1) + Len(w)) + 1 \in 1 .. n /\ ((a - 1) + Len(w)) + 1 <= s
    BY <1>1
  <2> QED BY <2>1 DEF IsString, Holds
<1> QED BY <1>2, <1>3 DEF IsString, Holds

(* A string as text that no tokenizer has touched.                         *)
LEMMA Uncut ==
  ASSUME NEW m, NEW o, NEW T, NEW x \in Seq(T), Holds(m, o, x, 1), NEW seps
  PROVE  HasCut(m, o + 1, o, x, seps, 0)
<1>1. Len(x) \in Nat
  BY LenProperties
<1>2. StartsUpTo(x, seps, 1 - 1) = {}
  BY <1>1 DEF StartsUpTo, Starts
<1>3. Found(x, seps, 1) = 0
  BY <1>2, FS_EmptySet DEF Found
<1>4. 1 \in 1 .. Len(x) + 1
  BY <1>1
<1> QED BY <1>3, <1>4 DEF HasCut, Between

LEMMA LineFacts ==
  ASSUME SplitOk, Terminated
  PROVE  \E n \in Nat : /\ Text(mem, n) /\ DOMAIN mem = 1 .. n
                        /\ bytes \in Nat /\ bytes + 1 <= n
                        /\ Len(text) \in Nat /\ 0 + Len(text) + 1 <= n
                        /\ stcmd \in 1 .. n /\ starg \in 1 .. n
                        /\ argv \in Seq(1 .. n) /\ Len(argv) \in Nat
                        /\ text \in Seq(Letter) /\ RanInv
                        /\ Len(ran) \in Nat /\ Len(cmds) \in Nat
<1>1. PICK b \in Behind : Text(mem, BufSize + Len(b))
  BY DEF SplitOk, ShellInv, MemInv
<1> DEFINE n == BufSize + Len(b)
<1>2. BufSize \in Nat \ {0} /\ Len(b) \in Nat \ {0} /\ DOMAIN mem = 1 .. n
  BY <1>1, MemFacts
<1>3. n \in Nat /\ bytes \in 1 .. BufSize - 1 /\ bytes \in Nat /\ bytes + 1 <= n
  BY <1>2 DEF Terminated
<1>4. text \in Seq(Letter) /\ Len(text) <= bytes /\ Len(text) \in Nat /\ RanInv
  BY LenProperties DEF SplitOk, SplitInv
<1>5. /\ stcmd \in 1 .. n /\ starg \in 1 .. n
      /\ argv \in Seq(1 .. n) /\ Len(argv) \in Nat
  BY <1>2, LenProperties DEF SplitOk, ShellInv, TypeOK
<1>6. Len(ran) \in Nat /\ Len(cmds) \in Nat
  BY <1>4, WordsLen, LenProperties DEF RanInv, cmds
<1> HIDE DEF n
<1>7. 0 + Len(text) + 1 <= n
  BY <1>3, <1>4
<1> QED BY <1>1, <1>2, <1>3, <1>4, <1>5, <1>6, <1>7 DEF n

LEMMA TypedSplits ==
  ASSUME SplitOk, NEW l \in Input, Typed(l)
  PROVE  SplitInv'
<1> SUFFICES ASSUME Terminated' PROVE SplitInv'
  BY DEF SplitInv
<1>1. PICK b \in Behind : Text(mem, BufSize + Len(b))
  BY DEF SplitOk, ShellInv, MemInv
<1>2. /\ l \in Seq(Code) /\ Len(l) \in 1 .. BufSize
      /\ \A a \in 1 .. Len(l) : mem'[a] = l[a]
      /\ Len(l) < BufSize => mem'[Len(l) + 1] = NUL
  BY <1>1, TypedMem
<1>3. bytes' = Len(l) /\ stcmd' = 1 /\ pc' = "command" /\ line' = l /\ ran' = <<>>
  BY DEF Typed
<1>4. Len(l) \in Nat /\ mem'[Len(l) + 1] = NUL
  <2>1. Len(l) < BufSize
    BY <1>2, <1>3, ShellAssumption DEF Terminated
  <2> QED BY <2>1, <1>2
<1>5. PICK c \in 0 .. Len(l) : /\ Before(l, {NUL}) = SubSeq(l, 1, c)
                               /\ \A i \in 1 .. c : l[i] \notin {NUL}
                               /\ c = Len(l) \/ l[c + 1] \in {NUL}
  BY <1>2, BeforeSome
<1> DEFINE x == SubSeq(l, 1, c)
<1>6. text' = x
  BY <1>3, <1>5 DEF text
<1>7. \A i \in 1 .. c : l[i] \in Letter /\ i \in 1 .. Len(l)
  <2>1. ASSUME NEW i \in 1 .. c PROVE l[i] \in Letter /\ i \in 1 .. Len(l)
    <3>1. i \in 1 .. Len(l)
      BY <1>4
    <3>2. l[i] \in Code /\ l[i] # NUL
      BY <3>1, <1>2, <1>5, ElementOfSeq
    <3>3. \A v \in Code : v # NUL => v \in Letter
      BY DEF Code, NUL, Letter
    <3> QED BY <3>1, <3>2, <3>3
  <2> QED BY <2>1
<1>8. c \in Nat /\ c <= Len(l)
  BY <1>4
<1>9. x \in Seq(Letter) /\ Len(x) = c /\ \A i \in 1 .. c : x[i] = l[i]
  <2>1. x = [i \in 1 .. c |-> l[i]]
    <3>1. \A i \in 1 .. c : (1 + i) - 1 = i
      BY <1>8
    <3>2. x = [i \in 1 .. (1 + c) - 1 |-> l[(1 + i) - 1]]
      BY <1>8 DEF SubSeq
    <3> QED BY <3>1, <3>2, <1>8
  <2> HIDE DEF x
  <2>2. x \in [1 .. c -> Letter]
    BY <2>1, <1>7
  <2>3. x \in Seq(Letter)
    BY <2>2, <1>8, SeqDef
  <2>4. Len(x) = c
    BY <2>1, <2>3, <1>8, LenProperties
  <2> QED BY <2>1, <2>3, <2>4
<1>10. mem'[c + 1] = NUL
  <2>1. CASE c = Len(l)
    BY <2>1, <1>4
  <2>2. CASE c # Len(l)
    <3>1. c + 1 \in 1 .. Len(l)
      BY <2>2, <1>8, <1>4
    <3> QED BY <3>1, <2>2, <1>2, <1>5
  <2> QED BY <2>1, <2>2
<1> HIDE DEF x
<1>11. Holds(mem', 0, x, 1)
  <2>1. \A a \in 1 .. Len(x) : 0 + a = a /\ mem'[a] = x[a]
    BY <1>2, <1>7, <1>9
  <2>2. (0 + Len(x)) + 1 = c + 1
    BY <1>8, <1>9
  <2> QED BY <2>1, <2>2, <1>10 DEF Holds
<1>12. HasCut(mem', 1, 0, x, comsep, 0)
  <2>1. HasCut(mem', 0 + 1, 0, x, comsep, 0)
    BY <1>9, <1>11, Uncut
  <2> QED BY <2>1
<1>13. RanInv'
  <2>1. Len(cmds') \in Nat
    BY <1>6, <1>9, WordsLen DEF cmds
  <2>2. <<>> \in Seq(Vector) /\ Len(<<>>) = 0
    OBVIOUS
  <2>3. \A k \in 1 .. Len(<<>>) : FALSE
    OBVIOUS
  <2> QED BY <2>1, <2>2, <2>3, <1>3 DEF RanInv
<1>14. HasCut(mem', stcmd', 0, text', comsep, Len(ran'))
  <2>1. Len(ran') = 0
    BY <1>3
  <2> QED BY <2>1, <1>3, <1>6, <1>12
<1>15. text' \in Seq(Letter) /\ Len(text') <= bytes'
  BY <1>3, <1>6, <1>8, <1>9
<1> QED BY <1>3, <1>13, <1>14, <1>15 DEF SplitInv

(* No more commands, or a blank one: everything asked for has been run.    *)
LEMMA DoneAsked ==
  ASSUME SplitOk, Terminated, UNCHANGED <<line, ran, bytes>>, pc' = "prompt",
         Len(ran) = Len(cmds) \/ Words(cmd, argsep) = <<>>
  PROVE  SplitInv'
<1>1. text \in Seq(Letter) /\ RanInv /\ Len(text) <= bytes
  BY DEF SplitOk, SplitInv
<1>2. ran = Asked(line)
  BY <1>1, AskedIs
<1>3. text' = text /\ RanInv'
  BY <1>1 DEF text, RanInv, cmds
<1>4. Asked(line)' = Asked(line)
  OBVIOUS
<1> QED BY <1>1, <1>2, <1>3, <1>4 DEF SplitInv

LEMMA NextCommandSplits ==
  ASSUME SplitOk, NextCommand
  PROVE  SplitInv'
<1> SUFFICES ASSUME Terminated' PROVE SplitInv'
  BY DEF SplitInv
<1> DEFINE t == strtok_r(mem, stcmd, comsep)
<1>1. /\ pc = "command" /\ mem' = t.mem /\ stcmd' = t.save /\ UNCHANGED <<bytes, line, ran>>
      /\ \/ t.tok = NULL /\ pc' = "prompt" /\ UNCHANGED <<starg, argv>>
         \/ t.tok # NULL /\ pc' = "word" /\ starg' = t.tok /\ argv' = <<>>
  BY DEF NextCommand
<1>2. Terminated
  BY <1>1 DEF Terminated
<1>3. PICK n \in Nat : /\ Text(mem, n) /\ DOMAIN mem = 1 .. n
                       /\ Len(text) \in Nat /\ 0 + Len(text) + 1 <= n
                       /\ stcmd \in 1 .. n
                       /\ text \in Seq(Letter) /\ RanInv
                       /\ Len(ran) \in Nat /\ Len(cmds) \in Nat
  BY <1>2, LineFacts
<1>4. HasCut(mem, stcmd, 0, text, comsep, Len(ran)) /\ Len(text) <= bytes
  BY <1>1, <1>2 DEF SplitOk, SplitInv
<1>5. NUL \notin comsep
  BY DEF NUL, comsep
<1>6. NoWord(t, mem, text, comsep, Len(ran))
        \/ IsNext(t, mem, n, stcmd, 0, text, comsep, Len(ran))
  BY <1>3, <1>4, <1>5, NextToken, 0 \in Nat
<1> HIDE DEF t
<1>7. CASE NoWord(t, mem, text, comsep, Len(ran))
  <2>1. t.tok = NULL /\ Len(cmds) = Len(ran)
    BY <1>7 DEF NoWord, cmds
  <2> QED BY <2>1, <1>1, <1>2, DoneAsked
<1>8. CASE IsNext(t, mem, n, stcmd, 0, text, comsep, Len(ran))
  <2>1. /\ Len(ran) + 1 <= Len(cmds) /\ IsString(t.mem, t.tok, cmd)
        /\ HasCut(t.mem, t.save, 0, text, comsep, Len(ran) + 1)
        /\ t.tok \in Int /\ t.tok >= 1
        /\ t.tok + Len(cmd) <= t.save /\ t.save \in Int
    BY <1>8 DEF IsNext, cmds, cmd
  <2>2. t.tok # NULL
    BY <2>1 DEF NULL
  <2>3. pc' = "word" /\ starg' = t.tok /\ argv' = <<>>
    BY <2>2, <1>1
  <2>4. text' = text /\ RanInv' /\ cmds' = cmds /\ cmd' = cmd
    BY <1>1, <1>3 DEF text, RanInv, cmds, cmd
  <2>5. cmd \in Seq(Letter) /\ Holds(t.mem, t.tok - 1, cmd, 1) /\ Len(cmd) \in Nat
    BY <2>1, LenProperties DEF IsString
  <2>6. HasCut(mem', starg', t.tok - 1, cmd, argsep, 0)
    <3>1. HasCut(t.mem, (t.tok - 1) + 1, t.tok - 1, cmd, argsep, 0)
      BY <2>5, Uncut
    <3>2. (t.tok - 1) + 1 = t.tok
      BY <2>1
    <3> QED BY <3>1, <3>2, <1>1, <2>3
  <2>7. t.tok - 1 \in 0 .. stcmd' /\ (t.tok - 1) + Len(cmd) + 1 <= stcmd'
    BY <1>1, <2>1, <2>5
  <2>8. Len(argv') = 0 /\ \A i \in 1 .. 0 : FALSE
    BY <2>3
  <2>9. WordsFound'
    BY <2>8 DEF WordsFound
  <2>10. HasCut(mem', stcmd', 0, text', comsep, Len(ran') + 1) /\ Len(ran') + 1 <= Len(cmds')
    BY <1>1, <2>1, <2>4
  <2>11. \E o \in 0 .. stcmd' : /\ o + Len(cmd') + 1 <= stcmd'
                                /\ HasCut(mem', starg', o, cmd', argsep, Len(argv'))
    BY <2>4, <2>6, <2>7, <2>8
  <2>12. text' \in Seq(Letter) /\ Len(text') <= bytes' /\ cmd' \in Seq(Letter)
    BY <1>1, <1>3, <1>4, <2>4, <2>5
  <2> QED BY <2>3, <2>4, <2>9, <2>10, <2>11, <2>12 DEF SplitInv
<1> QED BY <1>6, <1>7, <1>8

LEMMA NextWordSplits ==
  ASSUME SplitOk, NextWord
  PROVE  SplitInv'
<1> SUFFICES ASSUME Terminated' PROVE SplitInv'
  BY DEF SplitInv
<1> DEFINE t == strtok_r(mem, starg, argsep)
           W == Words(cmd, argsep)
           m == Len(argv) + 1
<1>1. /\ pc = "word" /\ mem' = t.mem /\ starg' = t.save
      /\ UNCHANGED <<bytes, stcmd, line, ran>>
      /\ \/ t.tok # NULL /\ argv' = Append(argv, t.tok) /\ UNCHANGED pc
         \/ t.tok = NULL /\ argv # <<>> /\ pc' = "run" /\ UNCHANGED argv
         \/ t.tok = NULL /\ argv = <<>> /\ pc' = "prompt" /\ UNCHANGED argv
  BY DEF NextWord
<1>2. Terminated
  BY <1>1 DEF Terminated
<1>3. PICK n \in Nat : /\ Text(mem, n) /\ DOMAIN mem = 1 .. n
                       /\ Len(text) \in Nat /\ 0 + Len(text) + 1 <= n
                       /\ stcmd \in 1 .. n /\ starg \in 1 .. n
                       /\ argv \in Seq(1 .. n) /\ Len(argv) \in Nat
                       /\ text \in Seq(Letter) /\ RanInv
                       /\ Len(ran) \in Nat /\ Len(cmds) \in Nat
  BY <1>2, LineFacts
<1>4. /\ Len(ran) + 1 <= Len(cmds)
      /\ HasCut(mem, stcmd, 0, text, comsep, Len(ran) + 1)
      /\ WordsFound /\ cmd \in Seq(Letter) /\ Len(text) <= bytes
  BY <1>1, <1>2 DEF SplitOk, SplitInv
<1>5. PICK o \in 0 .. stcmd : /\ o + Len(cmd) + 1 <= stcmd
                              /\ HasCut(mem, starg, o, cmd, argsep, Len(argv))
  BY <1>1, <1>2 DEF SplitOk, SplitInv
<1>6. Len(cmd) \in Nat /\ o \in Nat /\ stcmd \in Int /\ starg \in Int
      /\ o + Len(cmd) + 1 <= n /\ o + Len(cmd) < stcmd
  BY <1>3, <1>4, <1>5, LenProperties
<1>7. NoWord(t, mem, cmd, argsep, Len(argv))
        \/ IsNext(t, mem, n, starg, o, cmd, argsep, Len(argv))
  <2>1. NUL \notin argsep
    BY DEF NUL, argsep
  <2> QED BY <2>1, <1>3, <1>4, <1>5, <1>6, NextToken
<1> HIDE DEF t
<1>8. text' = text /\ RanInv' /\ cmds' = cmds /\ cmd' = cmd
  BY <1>1, <1>3 DEF text, RanInv, cmds, cmd
<1>9. text' \in Seq(Letter) /\ Len(text') <= bytes'
  BY <1>1, <1>3, <1>4, <1>8
<1>10. CASE NoWord(t, mem, cmd, argsep, Len(argv))
  <2>1. t.tok = NULL /\ t.mem = mem /\ Len(W) = Len(argv)
    BY <1>10 DEF NoWord
  <2>2. CASE argv = <<>>
    <3>1. pc' = "prompt"
      BY <2>1, <2>2, <1>1
    <3>2. W = <<>>
      <4>1. Len(W) = 0 /\ W = [k \in 1 .. Len(W) |-> W[k]]
        BY <2>1, <2>2, <1>4, WordsLen
      <4> HIDE DEF W
      <4>2. W = [k \in 1 .. 0 |-> W[k]]
        BY <4>1
      <4> QED BY <4>2
    <3> QED BY <3>1, <3>2, <1>1, <1>2, DoneAsked DEF W
  <2>3. CASE argv # <<>>
    <3>1. pc' = "run" /\ argv' = argv /\ mem' = mem
      BY <2>1, <2>3, <1>1
    <3>2. starg' >= starg
      <4>1. NoWord(t, mem, cmd, argsep, Len(argv)) /\ t.save \in starg .. n
        <5>1. starg \in 1 .. n /\ n \in starg .. n /\ mem[n] = NUL
          BY <1>3 DEF Text
        <5> QED BY <5>1, <1>3, <1>10, StrtokStays DEF t
      <4> QED BY <4>1, <1>1, <1>6
    <3>3. WordsFound'
      <4> SUFFICES ASSUME NEW i \in 1 .. Len(argv)
                   PROVE  IsString(mem, argv[i], W[i]) /\ argv[i] + Len(W[i]) <= starg'
        BY <3>1, <1>8 DEF WordsFound, W
      <4>1. IsString(mem, argv[i], W[i]) /\ argv[i] + Len(W[i]) <= starg
        BY <1>4 DEF WordsFound
      <4>2. argv[i] \in Int /\ Len(W[i]) \in Int
        <5>1. argv[i] \in 1 .. n
          BY <1>3, ElementOfSeq
        <5>2. Len(W[i]) \in Nat
          BY <4>1, LenProperties DEF IsString
        <5> QED BY <5>1, <5>2
      <4>3. starg' \in Int
        <5>1. starg' \in starg .. n
          <6>1. starg \in 1 .. n /\ n \in starg .. n /\ mem[n] = NUL
            BY <1>3 DEF Text
          <6> QED BY <6>1, <1>1, <1>3, StrtokStays DEF t
        <5> QED BY <5>1, <1>3, <1>6
      <4> HIDE DEF W
      <4> QED BY <4>1, <4>2, <4>3, <3>2, <1>6
    <3>4. Len(argv') = Len(Words(cmd', argsep)) /\ argv' # <<>>
      BY <2>1, <2>3, <3>1, <1>8
    <3>5. /\ Len(ran') + 1 <= Len(cmds')
          /\ HasCut(mem', stcmd', 0, text', comsep, Len(ran') + 1)
          /\ cmd' \in Seq(Letter)
      BY <1>1, <1>4, <1>8, <3>1
    <3> QED BY <3>1, <3>3, <3>4, <3>5, <1>8, <1>9 DEF SplitInv
  <2> QED BY <2>2, <2>3
<1>11. CASE IsNext(t, mem, n, starg, o, cmd, argsep, Len(argv))
  <2>1. /\ IsString(t.mem, t.tok, W[m])
        /\ HasCut(t.mem, t.save, o, cmd, argsep, m)
        /\ t.tok \in Int /\ t.tok >= 1
        /\ t.tok + Len(W[m]) <= t.save /\ t.save \in Int /\ t.save >= starg
        /\ \A a \in 1 .. n : a <= starg \/ a > o + Len(cmd) => t.mem[a] = mem[a]
    BY <1>11 DEF IsNext
  <2>2. t.tok # NULL
    BY <2>1 DEF NULL
  <2>3. pc' = "word" /\ argv' = Append(argv, t.tok) /\ mem' = t.mem /\ starg' = t.save
    BY <2>2, <1>1
  <2>4. Len(argv') = m /\ argv'[m] = t.tok /\ \A i \in 1 .. Len(argv) : argv'[i] = argv[i]
    <3>1. argv \in Seq(Int) /\ t.tok \in Int
      <4>1. 1 .. n \subseteq Int
        BY <1>3
      <4>2. Seq(1 .. n) \subseteq Seq(Int)
        BY <4>1
      <4> QED BY <4>2, <1>3, <2>1
    <3> QED BY <3>1, <2>3, AppendProperties
  <2>5. HasCut(mem', stcmd', 0, text', comsep, Len(ran') + 1)
    <3>1. \A a \in 1 .. n : a >= stcmd => mem'[a] = mem[a]
      <4>1. \A a \in 1 .. n : a >= stcmd => a > o + Len(cmd)
        BY <1>3, <1>6
      <4> QED BY <4>1, <2>1, <2>3
    <3>2. HasCut(mem', stcmd, 0, text, comsep, Len(ran) + 1)
      BY <3>1, <1>3, <1>4, SameHasCut, 0 \in Nat
    <3> QED BY <3>2, <1>1, <1>8
  <2>6. ASSUME NEW i \in 1 .. m
        PROVE  IsString(mem', argv'[i], W[i]) /\ argv'[i] + Len(W[i]) <= starg'
    <3>1. CASE i = m
      BY <3>1, <2>1, <2>3, <2>4
    <3>2. CASE i # m
      <4>1. i \in 1 .. Len(argv) /\ argv'[i] = argv[i]
        BY <3>2, <1>3, <2>4
      <4>2. IsString(mem, argv[i], W[i]) /\ argv[i] + Len(W[i]) <= starg
        BY <4>1, <1>4 DEF WordsFound
      <4>3. argv[i] \in 1 .. n
        BY <4>1, <1>3, ElementOfSeq
      <4>4. Len(W[i]) \in Nat
        BY <4>2, LenProperties DEF IsString
      <4> HIDE DEF W
      <4>5. argv[i] \in Nat \ {0}
        BY <4>3, <1>3
      <4>6. IsString(mem', argv[i], W[i])
        <5>1. \A c \in 1 .. n : c <= starg => mem'[c] = mem[c]
          BY <2>1, <2>3
        <5> QED BY <5>1, <4>2, <4>5, <1>3, SameIsString
      <4>7. argv[i] + Len(W[i]) <= starg'
        <5>1. starg' \in Int /\ starg <= starg' /\ starg \in Int /\ argv[i] \in Int
          BY <2>1, <2>3, <1>6, <4>5
        <5>2. argv[i] + Len(W[i]) <= starg /\ argv[i] + Len(W[i]) \in Int
          BY <4>2, <4>4, <5>1
        <5> QED BY <5>1, <5>2
      <4> QED BY <4>1, <4>6, <4>7
    <3> QED BY <3>1, <3>2
  <2>7. WordsFound'
    <3> HIDE DEF m
    <3>1. \A i \in 1 .. Len(argv') :
            IsString(mem', argv'[i], W[i]) /\ argv'[i] + Len(W[i]) <= starg'
      BY <2>4, <2>6
    <3>2. Words(cmd', argsep) = W
      BY <1>8
    <3> HIDE DEF W
    <3> QED BY <3>1, <3>2 DEF WordsFound
  <2>8. \E oo \in 0 .. stcmd' : /\ oo + Len(cmd') + 1 <= stcmd'
                                /\ HasCut(mem', starg', oo, cmd', argsep, Len(argv'))
    BY <1>1, <1>5, <1>8, <2>1, <2>3, <2>4
  <2>9. Len(ran') + 1 <= Len(cmds') /\ cmd' \in Seq(Letter)
    BY <1>1, <1>4, <1>8
  <2> QED BY <2>3, <2>5, <2>7, <2>8, <2>9, <1>8, <1>9 DEF SplitInv
<1> QED BY <1>7, <1>10, <1>11

LEMMA RunSplits ==
  ASSUME SplitOk, Run
  PROVE  SplitInv'
<1> SUFFICES ASSUME Terminated' PROVE SplitInv'
  BY DEF SplitInv
<1> DEFINE v == [i \in DOMAIN argv |-> StringAt(mem, argv[i])]
           W == Words(cmd, argsep)
<1>1. /\ pc = "run" /\ ran' = Append(ran, v) /\ pc' = "command"
      /\ UNCHANGED <<mem, bytes, stcmd, starg, argv, line>>
  BY DEF Run
<1>2. Terminated
  BY <1>1 DEF Terminated
<1>3. PICK n \in Nat : /\ Text(mem, n) /\ DOMAIN mem = 1 .. n
                       /\ starg \in 1 .. n
                       /\ argv \in Seq(1 .. n) /\ Len(argv) \in Nat
                       /\ text \in Seq(Letter) /\ RanInv
                       /\ Len(ran) \in Nat /\ Len(cmds) \in Nat
  BY <1>2, LineFacts
<1>4. /\ Len(ran) + 1 <= Len(cmds)
      /\ HasCut(mem, stcmd, 0, text, comsep, Len(ran) + 1)
      /\ WordsFound /\ cmd \in Seq(Letter) /\ Len(text) <= bytes
      /\ argv # <<>> /\ Len(argv) = Len(W)
  BY <1>1, <1>2 DEF SplitOk, SplitInv
<1>5. DOMAIN argv = 1 .. Len(argv) /\ Len(argv) > 0
  <2>1. DOMAIN argv = 1 .. Len(argv) /\ (Len(argv) = 0 => argv = <<>>)
    BY <1>3, LenProperties, EmptySeq
  <2> QED BY <2>1, <1>3, <1>4
<1>6. ASSUME NEW i \in 1 .. Len(argv)
      PROVE  StringAt(mem, argv[i]) = W[i] /\ W[i] \in Seq(Letter)
  <2>1. IsString(mem, argv[i], W[i]) /\ argv[i] + Len(W[i]) <= starg
    BY <1>4 DEF WordsFound
  <2>2. argv[i] \in 1 .. n
    BY <1>3, ElementOfSeq
  <2>3. W[i] \in Seq(Letter) /\ Len(W[i]) \in Nat
    BY <2>1, LenProperties DEF IsString
  <2> HIDE DEF W
  <2>4. argv[i] + Len(W[i]) <= n
    BY <2>1, <2>2, <2>3, <1>3
  <2>5. StringAt(mem, argv[i]) = W[i]
    BY <2>1, <2>2, <2>4, <1>3, StringIs
  <2> QED BY <2>3, <2>5
<1>7. v = W /\ W \in Vector /\ W # <<>>
  <2>1. W = [k \in 1 .. Len(W) |-> W[k]]
    BY <1>4, WordsLen
  <2> HIDE DEF W
  <2>2. v = [k \in 1 .. Len(argv) |-> StringAt(mem, argv[k])]
    BY <1>5
  <2>3. v = W
    BY <2>1, <2>2, <1>4, <1>6
  <2>4. W \in [1 .. Len(argv) -> Seq(Letter)]
    BY <2>1, <1>4, <1>6
  <2>5. W \in Vector
    <3> DEFINE c == Len(argv)
    <3>1. c \in Nat /\ W \in [1 .. c -> Seq(Letter)]
      BY <2>4, <1>3
    <3> HIDE DEF c
    <3>2. W \in Seq(Seq(Letter))
      BY <3>1, SeqDef
    <3> QED BY <3>2 DEF Vector
  <2>6. W # <<>>
    <3>1. Len(W) # 0
      BY <1>3, <1>4, <1>5
    <3> QED BY <3>1
  <2> QED BY <2>3, <2>5, <2>6
<1> HIDE DEF v
<1>8. /\ ran' \in Seq(Vector) /\ Len(ran') = Len(ran) + 1
      /\ ran'[Len(ran) + 1] = W /\ \A k \in 1 .. Len(ran) : ran'[k] = ran[k]
  <2>1. ran \in Seq(Vector)
    BY <1>3 DEF RanInv
  <2> HIDE DEF W
  <2> QED BY <2>1, <1>1, <1>7, AppendProperties
<1>9. text' = text /\ cmds' = cmds
  BY <1>1 DEF text, cmds
<1>10. RanInv'
  <2>1. ASSUME NEW k \in 1 .. Len(ran')
        PROVE  ran'[k] = Words(cmds[k], argsep) /\ ran'[k] # <<>>
    <3>1. CASE k = Len(ran) + 1
      BY <3>1, <1>7, <1>8 DEF cmd
    <3>2. CASE k # Len(ran) + 1
      <4>1. k \in 1 .. Len(ran)
        BY <3>2, <1>3, <1>8
      <4> QED BY <4>1, <1>3, <1>8 DEF RanInv
    <3> QED BY <3>1, <3>2
  <2> QED BY <2>1, <1>4, <1>8, <1>9 DEF RanInv
<1>11. HasCut(mem', stcmd', 0, text', comsep, Len(ran'))
  BY <1>1, <1>4, <1>8, <1>9
<1> QED BY <1>1, <1>3, <1>4, <1>9, <1>10, <1>11 DEF SplitInv

LEMMA NextSplits == SplitOk /\ [Next]_vars => SplitOk'
<1> SUFFICES ASSUME SplitOk, [Next]_vars PROVE SplitInv'
  BY NextInv DEF SplitOk
<1>1. CASE EndOfInput \/ ReadFails
  <2>1. ~ Terminated'
    BY <1>1, ShellAssumption DEF EndOfInput, ReadFails, Terminated
  <2> QED BY <2>1 DEF SplitInv
<1>2. CASE ReadLine
  BY <1>2, TypedSplits DEF ReadLine
<1>3. CASE Work
  BY <1>3, NextCommandSplits, NextWordSplits, RunSplits DEF Work
<1>4. CASE UNCHANGED vars
  <2>1. UNCHANGED <<mem, bytes, stcmd, starg, argv, pc, line, ran>>
    BY <1>4 DEF vars
  <2>2. text' = text /\ cmds' = cmds /\ cmd' = cmd /\ Asked(line)' = Asked(line)
    BY <2>1 DEF text, cmds, cmd
  <2>3. (Terminated' <=> Terminated) /\ (WordsFound' <=> WordsFound) /\ (RanInv' <=> RanInv)
    BY <2>1, <2>2 DEF Terminated, WordsFound, RanInv
  <2>4. SplitInv
    BY DEF SplitOk
  <2> QED BY <2>1, <2>2, <2>3, <2>4 DEF SplitInv
<1> QED BY <1>1, <1>2, <1>3, <1>4 DEF Next, Finished

LEMMA InitSplits == Init => SplitOk
<1> SUFFICES ASSUME Init PROVE SplitInv
  BY InitInv DEF SplitOk
<1>1. ~ Terminated
  BY ShellAssumption DEF Init, Terminated
<1> QED BY <1>1 DEF SplitInv

(* The shell runs the commands of a terminated line in their order, each   *)
(* with its own words and no others, up to the first blank one, and has    *)
(* run all of them when it prompts: for buffers and lines of any length,   *)
(* whatever earlier lines left in the buffer.                              *)
THEOREM CommandsRun == Spec => []RunsItsCommands
<1>1. SplitOk => RunsItsCommands
  <2> SUFFICES ASSUME SplitOk, Terminated
               PROVE  /\ IsPrefix(ran, Asked(line))
                      /\ pc = "prompt" => ran = Asked(line)
    BY DEF RunsItsCommands
  <2>1. text \in Seq(Letter) /\ RanInv /\ (pc = "prompt" => ran = Asked(line))
    BY DEF SplitOk, SplitInv
  <2> QED BY <2>1, AskedIs
<1> QED BY <1>1, InitSplits, NextSplits, PTL DEF Spec
-----------------------------------------------------------------------------
LEMMA Induction ==
  ASSUME NEW S, 0 \in S, \A n \in Nat : n \in S => n + 1 \in S
  PROVE  Nat \subseteq S
<1> SUFFICES ASSUME Nat \ S # {} PROVE FALSE
  OBVIOUS
<1>1. PICK x \in Nat \ S : \A y \in Nat \ S : x <= y
  <2>1. Nat \ S \subseteq Nat
    OBVIOUS
  <2> QED BY <2>1, LeastElement, Zenon
<1>2. x # 0
  BY <1>1
<1>3. x - 1 \in Nat /\ x - 1 < x
  BY <1>1, <1>2
<1>4. x - 1 \in S
  BY <1>1, <1>3
<1>5. (x - 1) + 1 \in S
  BY <1>3, <1>4
<1> QED BY <1>1, <1>5

(* What a program prints.                                                  *)
Item ==
  {<<"word", w, e>> : w \in Strings, e \in {"newline", "blank"}}
    \cup {<<"Not enough arguments">>, <<"Failed to run">>}
    \cup {<<"Exit code", n>> : n \in Int}

Buffer == {b \in [1 .. ArgsSz + 2 -> 0 .. 255] : b[ArgsSz + 2] = NUL}

LEMMA Sizes ==
  /\ ArgsSz \in Nat /\ ArgsSz > 0 /\ ArgvSz \in Nat /\ ArgvSz > 0 /\ Depth \in Nat
  /\ Echo # EchoCode /\ Echo \in Strings /\ EchoCode \in Strings
  BY SessionAssumption

LEMMA VectorIs ==
  ASSUME NEW words
  PROVE  /\ words \in Vectors =>
              /\ words \in Seq(Strings) /\ Len(words) \in Nat /\ Len(words) > 0
              /\ DOMAIN words = 1 .. Len(words)
              /\ \A i \in 1 .. Len(words) :
                   /\ words[i] \in Strings /\ Len(words[i]) \in Nat
                   /\ \A j \in 1 .. Len(words[i]) : words[i][j] \in 1 .. 255
         /\ words \in Seq(Strings) /\ Len(words) > 0 => words \in Vectors
<1>1. ASSUME words \in Vectors
      PROVE  /\ words \in Seq(Strings) /\ Len(words) \in Nat /\ Len(words) > 0
             /\ DOMAIN words = 1 .. Len(words)
  BY <1>1 DEF Vectors
<1>2. ASSUME words \in Vectors, NEW i \in 1 .. Len(words)
      PROVE  /\ words[i] \in Strings /\ Len(words[i]) \in Nat
             /\ \A j \in 1 .. Len(words[i]) : words[i][j] \in 1 .. 255
  <2>1. words[i] \in Strings
    BY <1>1, <1>2
  <2>2. words[i] \in Seq(1 .. 255)
    BY <2>1 DEF Strings
  <2>3. Len(words[i]) \in Nat /\ \A j \in 1 .. Len(words[i]) : words[i][j] \in 1 .. 255
    BY <2>2, ElementOfSeq, LenProperties
  <2> QED BY <2>1, <2>3
<1> QED BY <1>1, <1>2 DEF Vectors

LEMMA LettersOf ==
  ASSUME NEW words \in Vectors, NEW i \in 1 .. Len(words)
  PROVE  \A j \in 1 .. Len(words[i]) : words[i][j] \in 1 .. 255
  BY VectorIs

LEMMA TailIs ==
  ASSUME NEW words \in Vectors, Len(words) >= 2
  PROVE  Tail(words) \in Vectors
<1>1. words \in Seq(Strings) /\ Len(words) \in Nat
  BY VectorIs
<1>2. Tail(words) \in Seq(Strings) /\ Len(Tail(words)) = Len(words) - 1
  BY <1>1
<1>3. Len(Tail(words)) > 0
  BY <1>1, <1>2
<1> QED BY <1>2, <1>3, VectorIs

LEMMA Printed ==
  /\ <<>> \in Seq(Item) /\ Usage \in Seq(Item) /\ FailedToRun \in Seq(Item)
  /\ \A n \in Int : ExitCode(n) \in Seq(Item)
  /\ \A v \in Vectors : echo(v) \in Seq(Item)
<1>1. \A i \in Item : << i >> \in Seq(Item)
  OBVIOUS
<1>2. <<"Not enough arguments">> \in Item /\ <<"Failed to run">> \in Item
  BY DEF Item
<1>3. ASSUME NEW n \in Int PROVE <<"Exit code", n>> \in Item
  BY DEF Item
<1>4. ASSUME NEW v \in Vectors PROVE echo(v) \in Seq(Item)
  <2> DEFINE end(i) == IF i = Len(v) - 1 THEN "newline" ELSE "blank"
  <2>1. Len(v) - 1 \in Nat
    BY VectorIs
  <2>2. ASSUME NEW i \in 1 .. Len(v) - 1 PROVE <<"word", v[i + 1], end(i)>> \in Item
    <3>1. i + 1 \in 1 .. Len(v)
      BY <2>1
    <3>2. v[i + 1] \in Strings /\ end(i) \in {"newline", "blank"}
      BY <3>1, VectorIs
    <3> HIDE DEF end
    <3> QED BY <3>2 DEF Item
  <2>3. echo(v) = [i \in 1 .. Len(v) - 1 |-> <<"word", v[i + 1], end(i)>>]
    BY DEF echo
  <2> HIDE DEF end
  <2>4. echo(v) \in [1 .. Len(v) - 1 -> Item]
    BY <2>2, <2>3
  <2> QED BY <2>1, <2>4
<1>5. Usage \in Seq(Item) /\ FailedToRun \in Seq(Item)
  BY <1>1, <1>2 DEF Usage, FailedToRun
<1>6. \A n \in Int : ExitCode(n) \in Seq(Item)
  BY <1>1, <1>3 DEF ExitCode
<1>7. <<>> \in Seq(Item)
  OBVIOUS
<1> QED BY <1>4, <1>5, <1>6, <1>7

-----------------------------------------------------------------------------
(* The characters, added up.                                               *)
UpTo(words, n, g) ==
  g = [k \in 0 .. n |-> IF k = 0 THEN 0 ELSE g[k - 1] + Len(words[k]) + 1]

LEMMA UpToExists ==
  ASSUME NEW words
  PROVE  \A n \in Nat : \E g : UpTo(words, n, g)
<1> DEFINE S == {n \in Nat : \E g : UpTo(words, n, g)}
<1>1. 0 \in S
  <2> DEFINE g == [k \in 0 .. 0 |-> 0]
  <2>1. UpTo(words, 0, g)
    BY DEF UpTo
  <2> QED BY <2>1
<1>2. ASSUME NEW n \in Nat, n \in S
      PROVE  n + 1 \in S
  <2>1. PICK u : UpTo(words, n, u)
    BY <1>2
  <2> DEFINE g == [k \in 0 .. n + 1 |->
                     IF k # n + 1 THEN u[k] ELSE u[n] + Len(words[k]) + 1]
             h == [k \in 0 .. n + 1 |-> IF k = 0 THEN 0 ELSE g[k - 1] + Len(words[k]) + 1]
  <2>2. ASSUME NEW k \in 0 .. n + 1
        PROVE  g[k] = h[k]
    <3>1. k # 0 => k - 1 \in 0 .. n + 1 /\ k - 1 # n + 1 /\ g[k - 1] = u[k - 1]
      OBVIOUS
    <3>2. CASE k = n + 1
      BY <3>1, <3>2
    <3>3. CASE k # n + 1
      <4>1. k \in 0 .. n
        BY <3>3
      <4>2. u[k] = IF k = 0 THEN 0 ELSE u[k - 1] + Len(words[k]) + 1
        BY <2>1, <4>1 DEF UpTo
      <4> QED BY <3>1, <3>3, <4>2
    <3> QED BY <3>2, <3>3
  <2>3. g = h
    BY <2>2
  <2>4. UpTo(words, n + 1, g)
    BY <2>3 DEF UpTo
  <2> QED BY <2>4
<1> HIDE DEF S
<1>3. Nat \subseteq S
  BY <1>1, <1>2, Induction
<1> QED BY <1>3 DEF S

(* e adds up the words.                                                    *)
Sums(words, e) ==
  /\ e[0] = 0
  /\ \A k \in 1 .. Len(words) : e[k] = e[k - 1] + Len(words[k]) + 1
  /\ \A k \in 0 .. Len(words) : e[k] \in Nat
  /\ \A k \in 0 .. Len(words) : \A i \in 0 .. k : e[i] <= e[k]

LEMMA SumsIs ==
  ASSUME NEW words \in Vectors
  PROVE  \E e : Sums(words, e) /\ Chars(words) = e[Len(words)]
<1> DEFINE P(g) == g = [k \in 0 .. Len(words) |->
                          IF k = 0 THEN 0 ELSE g[k - 1] + Len(words[k]) + 1]
           e == CHOOSE g : P(g)
<1>n. Len(words) \in Nat /\ \A i \in 1 .. Len(words) : Len(words[i]) \in Nat
  BY VectorIs
<1>1. \E g : P(g)
  <2>1. \E g : UpTo(words, Len(words), g)
    BY <1>n, UpToExists
  <2> QED BY <2>1, Zenon DEF UpTo
<1>2. Chars(words) = e[Len(words)]
  BY DEF Chars
<1> HIDE DEF P
<1>3. P(e)
  BY <1>1, Zenon
<1> HIDE DEF e
<1>4. \A k \in 0 .. Len(words) :
        e[k] = IF k = 0 THEN 0 ELSE e[k - 1] + Len(words[k]) + 1
  BY <1>3 DEF P
<1>5. e[0] = 0
  BY <1>4, <1>n
<1>6. ASSUME NEW k \in 1 .. Len(words)
      PROVE  e[k] = e[k - 1] + Len(words[k]) + 1
  BY <1>4, <1>n
<1> DEFINE S == {k \in Nat : k \in 0 .. Len(words) =>
                               \A i \in 0 .. k : e[i] \in Nat /\ e[i] <= e[k]}
<1>7. 0 \in S
  BY <1>5
<1>8. ASSUME NEW k \in Nat, k \in S PROVE k + 1 \in S
  <2> SUFFICES ASSUME k + 1 \in 0 .. Len(words)
               PROVE  \A i \in 0 .. k + 1 : e[i] \in Nat /\ e[i] <= e[k + 1]
    OBVIOUS
  <2>1. k \in 0 .. Len(words) /\ k + 1 \in 1 .. Len(words) /\ (k + 1) - 1 = k
    BY <1>n
  <2>2. \A i \in 0 .. k : e[i] \in Nat /\ e[i] <= e[k]
    BY <1>8, <2>1
  <2>3. e[k + 1] = e[k] + Len(words[k + 1]) + 1 /\ Len(words[k + 1]) \in Nat
    BY <2>1, <1>6, <1>n
  <2>4. \A i \in 0 .. k + 1 : i \in 0 .. k \/ i = k + 1
    OBVIOUS
  <2> QED BY <2>2, <2>3, <2>4
<1> HIDE DEF S
<1>9. Nat \subseteq S
  BY <1>7, <1>8, Induction
<1>10. \A k \in 0 .. Len(words) : \A i \in 0 .. k : e[i] \in Nat /\ e[i] <= e[k]
  BY <1>9, <1>n DEF S
<1> QED BY <1>2, <1>5, <1>6, <1>10 DEF Sums
-----------------------------------------------------------------------------
(* The loop of sys_getargv, a round at a time.                             *)
Begin(buf) == [ret |-> 0, buf |-> buf, argv |-> <<>>, bufp |-> 0]
Round(words, g, k) == IF g.ret < 0 THEN g ELSE Take(g, words[k])
Rounds(words, buf, n, f) ==
  f = [k \in 0 .. n |-> IF k = 0 THEN Begin(buf) ELSE Round(words, f[k - 1], k)]

LEMMA RoundsExist ==
  ASSUME NEW words, NEW buf
  PROVE  \A n \in Nat : \E f : Rounds(words, buf, n, f)
<1> DEFINE S == {n \in Nat : \E f : Rounds(words, buf, n, f)}
<1>1. 0 \in S
  <2> DEFINE f == [k \in 0 .. 0 |-> Begin(buf)]
  <2>1. Rounds(words, buf, 0, f)
    BY DEF Rounds
  <2> QED BY <2>1
<1>2. ASSUME NEW n \in Nat, n \in S
      PROVE  n + 1 \in S
  <2>1. PICK u : Rounds(words, buf, n, u)
    BY <1>2
  <2> DEFINE f == [k \in 0 .. n + 1 |->
                     IF k # n + 1 THEN u[k] ELSE Round(words, u[n], k)]
             h == [k \in 0 .. n + 1 |->
                     IF k = 0 THEN Begin(buf) ELSE Round(words, f[k - 1], k)]
  <2>2. ASSUME NEW k \in 0 .. n + 1
        PROVE  f[k] = h[k]
    <3>1. k # 0 => k - 1 \in 0 .. n + 1 /\ k - 1 # n + 1 /\ f[k - 1] = u[k - 1]
      OBVIOUS
    <3>2. CASE k = n + 1
      BY <3>1, <3>2
    <3>3. CASE k # n + 1
      <4>1. k \in 0 .. n
        BY <3>3
      <4>2. u[k] = IF k = 0 THEN Begin(buf) ELSE Round(words, u[k - 1], k)
        BY <2>1, <4>1 DEF Rounds
      <4> QED BY <3>1, <3>3, <4>2
    <3> QED BY <3>2, <3>3
  <2>3. f = h
    BY <2>2
  <2>4. Rounds(words, buf, n + 1, f)
    BY <2>3 DEF Rounds
  <2> QED BY <2>4
<1> HIDE DEF S
<1>3. Nat \subseteq S
  BY <1>1, <1>2, Induction
<1> QED BY <1>3 DEF S

LEMMA LoopIs ==
  ASSUME NEW words \in Vectors, NEW buf
  PROVE  \E f : /\ f[0] = Begin(buf)
                /\ \A k \in 1 .. Len(words) : f[k] = Round(words, f[k - 1], k)
                /\ getargv(words, buf) =
                     IF Len(f[Len(words)].argv) >= ArgvSz
                     THEN [f[Len(words)] EXCEPT !.ret = -1] ELSE f[Len(words)]
<1> DEFINE P(f) == f = [k \in 0 .. Len(words) |->
                          IF k = 0 THEN Begin(buf) ELSE Round(words, f[k - 1], k)]
           f == CHOOSE g : P(g)
<1>n. Len(words) \in Nat
  BY VectorIs
<1>1. \E g : P(g)
  <2>1. \E g : Rounds(words, buf, Len(words), g)
    BY <1>n, RoundsExist
  <2> QED BY <2>1, Zenon DEF Rounds
<1>2. getargv(words, buf) =
        IF Len(f[Len(words)].argv) >= ArgvSz
        THEN [f[Len(words)] EXCEPT !.ret = -1] ELSE f[Len(words)]
  BY Zenon DEF getargv, Begin, Round
<1> HIDE DEF P
<1>3. P(f)
  BY <1>1, Zenon
<1> HIDE DEF f
<1>4. \A k \in 0 .. Len(words) :
        f[k] = IF k = 0 THEN Begin(buf) ELSE Round(words, f[k - 1], k)
  BY <1>3 DEF P
<1>5. f[0] = Begin(buf) /\ \A k \in 1 .. Len(words) : f[k] = Round(words, f[k - 1], k)
  BY <1>4, <1>n
<1> QED BY <1>2, <1>5

(* The buffer after k words: they stand in it one after the other, and     *)
(* what is between them and behind is as it was.                           *)
Room == 1 .. ArgsSz + 2
GetArgvState == [ret : {-1, 0}, buf : Buffer, argv : Seq(Room), bufp : Nat]
Stand(words, e, old, g, k) ==
  /\ Len(g.argv) = k /\ g.bufp = e[k] /\ e[k] <= ArgsSz + 1
  /\ \A i \in 1 .. k :
       /\ g.argv[i] = e[i - 1] + 1
       /\ g.buf[e[i]] = old[e[i]]
       /\ \A j \in 1 .. Len(words[i]) : g.buf[e[i - 1] + j] = words[i][j]
  /\ \A p \in Room : p > e[k] => g.buf[p] = old[p]
Refused(words, e) == Len(words) >= ArgvSz \/ \E j \in 1 .. Len(words) : e[j] > ArgsSz + 1

LEMMA TakeStands ==
  ASSUME NEW words \in Vectors, NEW e, Sums(words, e), NEW old \in Buffer,
         NEW g \in GetArgvState, NEW k \in 1 .. Len(words), g.ret = 0,
         Stand(words, e, old, g, k - 1)
  PROVE  LET t == Take(g, words[k])
         IN /\ t \in GetArgvState
            /\ t.ret = 0 => Stand(words, e, old, t, k)
            /\ t.ret # 0 => Refused(words, e)
<1> DEFINE w == words[k]
           t == Take(g, w)
           b == strcpy(g.buf, g.bufp + 1, w)
           E == e[k - 1]
           L == Len(w)
<1>n. /\ Len(words) \in Nat /\ L \in Nat /\ k \in Int /\ k - 1 \in Nat
      /\ ArgsSz \in Nat /\ ArgvSz \in Nat
  BY VectorIs, Sizes
<1>e. /\ E \in Nat /\ e[k] = E + L + 1 /\ e[k] \in Nat
      /\ \A i \in 0 .. k - 1 : e[i] \in Nat /\ e[i] <= E
  <2>1. k - 1 \in 0 .. Len(words) /\ k \in 0 .. Len(words) /\ 0 .. k - 1 \subseteq 0 .. Len(words)
    BY <1>n
  <2> QED BY <2>1 DEF Sums
<1>g. /\ g.buf \in [Room -> 0 .. 255] /\ g.buf[ArgsSz + 2] = NUL /\ g.argv \in Seq(Room)
      /\ g.bufp = E /\ Len(g.argv) = k - 1 /\ E <= ArgsSz + 1
      /\ DOMAIN g = {"ret", "buf", "argv", "bufp"}
  BY DEF GetArgvState, Buffer, Room, Stand
<1> HIDE DEF E, L
<1>i. E \in Nat /\ L \in Nat /\ ArgsSz \in Nat /\ e[k] = E + L + 1
  BY <1>n, <1>e
<1>1. CASE ArgvSz < Len(g.argv) \/ ArgsSz - g.bufp < L
  <2>1. t = [g EXCEPT !.ret = -1]
    BY <1>1 DEF Take, L
  <2>2. t \in GetArgvState /\ t.ret = -1
    BY <2>1 DEF GetArgvState
  <2>3. Refused(words, e)
    <3>1. CASE ArgvSz < Len(g.argv)
      BY <3>1, <1>g, <1>n DEF Refused
    <3>2. CASE ArgsSz - g.bufp < L
      BY <3>2, <1>g, <1>n, <1>e DEF Refused
    <3> QED BY <1>1, <3>1, <3>2
  <2> QED BY <2>2, <2>3
<1>2. CASE ~ (ArgvSz < Len(g.argv) \/ ArgsSz - g.bufp < L)
  <2>1. t = [g EXCEPT !.buf = b, !.argv = Append(g.argv, g.bufp + 1),
                      !.bufp = g.bufp + L + 1]
    BY <1>2 DEF Take, L
  <2>2. /\ t.ret = 0 /\ t.buf = b /\ t.argv = Append(g.argv, E + 1) /\ t.bufp = e[k]
        /\ t = [ret |-> 0, buf |-> b, argv |-> Append(g.argv, E + 1), bufp |-> e[k]]
    BY <2>1, <1>g, <1>e DEF GetArgvState
  <2>3. E + L <= ArgsSz /\ E + 1 \in Room /\ e[k] <= ArgsSz + 1
    <3>1. ~ (ArgsSz - E < L)
      BY <1>2, <1>g
    <3> QED BY <3>1, <1>i DEF Room
  <2>4. b = [a \in Room |-> IF a \in E + 1 .. E + L
                            THEN w[a - E] ELSE g.buf[a]]
    <3>1. b = [a \in Room |-> IF a \in E + 1 .. (E + 1) + L - 1
                              THEN w[a - (E + 1) + 1] ELSE g.buf[a]]
      BY <1>g DEF strcpy, memcpy, L, E
    <3>2. \A a \in Room : /\ (E + 1) + L - 1 = E + L
                          /\ a - (E + 1) + 1 = a - E
      BY <1>i DEF Room
    <3> QED BY <3>1, <3>2
  <2>5. \A a \in Room : a <= E \/ a > E + L => b[a] = g.buf[a]
    <3>1. ASSUME NEW a \in Room, a <= E \/ a > E + L PROVE a \notin E + 1 .. E + L
      BY <3>1, <1>i DEF Room
    <3> QED BY <3>1, <2>4
  <2>6. \A j \in 1 .. L : b[E + j] = w[j]
    <3>1. ASSUME NEW j \in 1 .. L
          PROVE  /\ E + j \in Room /\ E + j \in E + 1 .. E + L
                 /\ (E + j) - E = j
      BY <1>i, <2>3 DEF Room
    <3> QED BY <3>1, <2>4
  <2>7. b \in Buffer
    <3> HIDE DEF b, t, w
    <3>1. ASSUME NEW a \in Room PROVE b[a] \in 0 .. 255
      <4>1. CASE a \in E + 1 .. E + L
        <5>1. a - E \in 1 .. L
          BY <4>1, <1>i
        <5>2. w[a - E] \in 1 .. 255
          <6>1. \A j \in 1 .. Len(words[k]) : words[k][j] \in 1 .. 255
            BY LettersOf
          <6> QED BY <5>1, <6>1 DEF L, w
        <5>3. b[a] = w[a - E]
          BY <4>1, <2>4
        <5> QED BY <5>2, <5>3
      <4>2. CASE a \notin E + 1 .. E + L
        BY <4>2, <2>4, <1>g
      <4> QED BY <4>1, <4>2
    <3>2. ArgsSz + 2 \in Room /\ ArgsSz + 2 > E + L
      BY <2>3, <1>i DEF Room
    <3>3. b[ArgsSz + 2] = NUL
      BY <3>2, <2>5, <1>g
    <3>4. b \in [Room -> 0 .. 255]
      BY <3>1, <2>4
    <3> QED BY <3>3, <3>4 DEF Buffer, Room
  <2>8. /\ t.argv \in Seq(Room) /\ Len(t.argv) = k /\ t.argv[k] = E + 1
        /\ \A i \in 1 .. k - 1 : t.argv[i] = g.argv[i]
    BY <2>2, <2>3, <1>g, <1>n
  <2>9. t \in GetArgvState
    BY <2>2, <2>7, <2>8, <1>e DEF GetArgvState
  <2>10. Stand(words, e, old, t, k)
    <3>0. \A i \in 1 .. k : e[i - 1] \in Nat /\ e[i] \in Nat /\ (i < k => e[i] <= E)
                            /\ e[i] = e[i - 1] + Len(words[i]) + 1 /\ Len(words[i]) \in Nat
      <4>1. ASSUME NEW i \in 1 .. k
            PROVE  i \in 1 .. Len(words) /\ i - 1 \in 0 .. k - 1 /\ (i < k => i \in 0 .. k - 1)
        BY <1>n
      <4>2. ASSUME NEW i \in 1 .. k PROVE i = k \/ i < k
        BY <1>n
      <4> QED BY <4>1, <4>2, <1>e, VectorIs DEF Sums
    <3>1. ASSUME NEW i \in 1 .. k - 1
          PROVE  /\ t.argv[i] = e[i - 1] + 1
                 /\ t.buf[e[i]] = old[e[i]]
                 /\ \A j \in 1 .. Len(words[i]) : t.buf[e[i - 1] + j] = words[i][j]
      <4>1. i \in 1 .. k /\ i < k
        BY <1>n
      <4>2. e[i] \in Room /\ e[i] <= E
        <5>1. e[i] <= E /\ e[i] \in Nat /\ e[i] > 0
          <6>1. /\ e[i] \in Nat /\ e[i - 1] \in Nat /\ Len(words[i]) \in Nat
                /\ e[i] = e[i - 1] + Len(words[i]) + 1 /\ e[i] <= E
            BY <4>1, <3>0
          <6> QED BY <6>1
        <5> QED BY <5>1, <2>3, <1>i DEF Room
      <4>3. t.buf[e[i]] = old[e[i]]
        <5>1. g.buf[e[i]] = old[e[i]]
          BY DEF Stand
        <5> QED BY <5>1, <4>2, <2>5, <2>2
      <4>4. ASSUME NEW j \in 1 .. Len(words[i]) PROVE t.buf[e[i - 1] + j] = words[i][j]
        <5>1. e[i - 1] + j \in Room /\ e[i - 1] + j <= E
          <6>1. e[i] = e[i - 1] + Len(words[i]) + 1 /\ e[i - 1] \in Nat /\ Len(words[i]) \in Nat
            BY <4>1, <3>0
          <6>2. e[i] \in 1 .. ArgsSz + 2
            BY <4>2 DEF Room
          <6>3. \A x, y, z \in Nat : \A c \in 1 .. y :
                  z = x + y + 1 => x + c \in Nat /\ 1 <= x + c /\ x + c <= z
            OBVIOUS
          <6>4. /\ e[i - 1] + j \in Nat /\ 1 <= e[i - 1] + j /\ e[i - 1] + j <= e[i]
                /\ e[i] \in Nat /\ e[i] <= ArgsSz + 2 /\ e[i] <= E
            <7>1. e[i] \in Nat /\ e[i] <= ArgsSz + 2 /\ e[i] <= E
              BY <6>2, <4>2, <1>i
            <7> QED BY <6>1, <6>3, <7>1
          <6> QED BY <6>4, <1>i DEF Room
        <5>2. g.buf[e[i - 1] + j] = words[i][j]
          BY DEF Stand
        <5> QED BY <5>1, <5>2, <2>5, <2>2
      <4>5. t.argv[i] = e[i - 1] + 1
        BY <2>8 DEF Stand
      <4> QED BY <4>3, <4>4, <4>5
    <3>2. /\ t.argv[k] = E + 1
          /\ t.buf[e[k]] = old[e[k]]
          /\ \A j \in 1 .. Len(words[k]) : t.buf[E + j] = words[k][j]
      <4>1. e[k] \in Room /\ e[k] > E + L /\ e[k] > E
        BY <1>i, <2>3 DEF Room
      <4>2. t.buf[e[k]] = old[e[k]]
        BY <4>1, <2>5, <2>2 DEF Stand, E
      <4> QED BY <4>2, <2>8, <2>6, <2>2 DEF L, E
    <3>3. ASSUME NEW p \in Room, p > e[k] PROVE t.buf[p] = old[p]
      <4>1. p > E + L /\ p > E
        BY <3>3, <1>i DEF Room
      <4> QED BY <4>1, <2>5, <2>2 DEF Stand, E
    <3>4. \A i \in 1 .. k : i \in 1 .. k - 1 \/ i = k
      BY <1>n
    <3> QED BY <3>1, <3>2, <3>3, <3>4, <2>2, <2>3, <2>8 DEF Stand, L, E
  <2> QED BY <2>9, <2>10, <2>2
<1> QED BY <1>1, <1>2

LEMMA LoopStands ==
  ASSUME NEW words \in Vectors, NEW e, Sums(words, e), NEW old \in Buffer, NEW f,
         f[0] = Begin(old),
         \A k \in 1 .. Len(words) : f[k] = Round(words, f[k - 1], k)
  PROVE  LET g == f[Len(words)]
         IN /\ g \in GetArgvState
            /\ g.ret = 0 => Stand(words, e, old, g, Len(words))
            /\ g.ret # 0 => Refused(words, e)
<1> DEFINE Good(k) == /\ f[k] \in GetArgvState
                      /\ f[k].ret = 0 => Stand(words, e, old, f[k], k)
                      /\ f[k].ret # 0 => Refused(words, e)
           S == {k \in Nat : k \in 0 .. Len(words) => Good(k)}
<1>n. Len(words) \in Nat /\ ArgsSz \in Nat
  BY VectorIs, Sizes
<1>1. Good(0)
  <2>1. f[0].ret = 0 /\ f[0].buf = old /\ f[0].argv = <<>> /\ f[0].bufp = 0
    BY DEF Begin
  <2>2. f[0] \in GetArgvState
    BY DEF GetArgvState, Begin
  <2>3. e[0] = 0
    BY DEF Sums
  <2>4. Stand(words, e, old, f[0], 0)
    BY <2>1, <2>3, <1>n DEF Stand
  <2> QED BY <2>1, <2>2, <2>4
<1>2. ASSUME NEW k \in Nat, k \in S PROVE k + 1 \in S
  <2> SUFFICES ASSUME k + 1 \in 0 .. Len(words) PROVE Good(k + 1)
    OBVIOUS
  <2>1. k \in 0 .. Len(words) /\ k + 1 \in 1 .. Len(words) /\ (k + 1) - 1 = k
    BY <1>n
  <2>2. Good(k)
    BY <1>2, <2>1
  <2>3. f[k + 1] = Round(words, f[k], k + 1)
    BY <2>1
  <2>4. CASE f[k].ret = 0
    <3>1. f[k + 1] = Take(f[k], words[k + 1])
      BY <2>3, <2>4 DEF Round
    <3>2. Stand(words, e, old, f[k], (k + 1) - 1)
      BY <2>1, <2>2, <2>4
    <3> QED BY <3>1, <3>2, <2>1, <2>2, <2>4, TakeStands
  <2>5. CASE f[k].ret # 0
    <3>1. f[k].ret = -1
      BY <2>2, <2>5 DEF GetArgvState
    <3>2. f[k + 1] = f[k]
      BY <2>3, <3>1 DEF Round
    <3> QED BY <3>2, <2>2, <2>5
  <2> QED BY <2>4, <2>5
<1>3. 0 \in S
  BY <1>1
<1> HIDE DEF S
<1>4. Nat \subseteq S
  BY <1>3, <1>2, Induction
<1>5. Good(Len(words))
  BY <1>4, <1>n DEF S
<1> QED BY <1>5

(* The string of a buffer is w if w stands there with a NUL behind it.     *)
LEMMA StringStands ==
  ASSUME NEW n, NEW m, Text(m, n), NEW a \in 1 .. n, NEW w \in Strings,
         a + Len(w) <= n, m[a + Len(w)] = NUL,
         \A i \in 1 .. Len(w) : m[(a - 1) + i] = w[i]
  PROVE  StringAt(m, a) = w
<1> DEFINE q == Scan(m, a, {})
<1>1. q \in a .. n /\ Stops(m, a, {}, q)
  BY ScanIs
<1>2. Len(w) \in Nat /\ n \in Nat /\ a \in Nat /\ \A i \in 1 .. Len(w) : w[i] \in Letter
  <2>1. w \in Seq(Letter)
    BY DEF Strings, Letter
  <2>2. Len(w) \in Nat /\ \A i \in 1 .. Len(w) : w[i] \in Letter
    BY <2>1, ElementOfSeq, LenProperties
  <2> QED BY <2>2 DEF Text
<1>5. Stops(m, a, {}, a + Len(w))
  <2>1. ASSUME NEW c \in a .. (a + Len(w)) - 1 PROVE m[c] # NUL
    <3>1. (c - a) + 1 \in 1 .. Len(w) /\ (a - 1) + ((c - a) + 1) = c
      BY <1>2
    <3>2. m[c] \in Letter
      BY <3>1, <1>2
    <3> QED BY <3>2, LetterNotNUL
  <2> QED BY <2>1 DEF Stops
<1>6. a + Len(w) \in a .. n
  BY <1>2
<1>7. q = a + Len(w)
  BY <1>1, <1>5, <1>6, OneStop
<1>8. strlen(m, a) = Len(w)
  BY <1>7, <1>2 DEF strlen
<1>9. StringAt(m, a) = [i \in 1 .. Len(w) |-> m[(a + i) - 1]]
  <2>1. StringAt(m, a) = [i \in 1 .. strlen(m, a) |-> m[a + i - 1]]
    BY DEF StringAt
  <2>2. \A i \in 1 .. Len(w) : a + i - 1 = (a + i) - 1
    BY <1>2
  <2> QED BY <2>1, <2>2, <1>8
<1>10. \A i \in 1 .. Len(w) : m[(a + i) - 1] = w[i]
  <2>1. \A i \in 1 .. Len(w) : (a + i) - 1 = (a - 1) + i
    BY <1>2
  <2> QED BY <2>1, <1>2
<1>11. w = [i \in 1 .. Len(w) |-> w[i]]
  BY LenProperties DEF Strings
<1> QED BY <1>9, <1>10, <1>11

(* What a reader of a buffer sees is a string.                             *)
LEMMA StringTyped ==
  ASSUME NEW n, NEW m, Text(m, n), NEW a \in 1 .. n
  PROVE  StringAt(m, a) \in Strings
<1> DEFINE q == Scan(m, a, {})
<1>1. q \in a .. n /\ Stops(m, a, {}, q)
  BY ScanIs
<1>2. n \in Nat /\ a \in Nat /\ q \in Nat /\ m \in [1 .. n -> 0 .. 255] /\ NUL = 0
  BY <1>1 DEF Text, Code, NUL
<1>3. strlen(m, a) = q - a
  BY DEF strlen
<1> HIDE DEF q
<1>4. ASSUME NEW i \in 1 .. q - a PROVE m[a + i - 1] \in 1 .. 255
  <2>1. a + i - 1 \in a .. q - 1 /\ a + i - 1 \in 1 .. n
    BY <1>1, <1>2
  <2>2. m[a + i - 1] # 0
    BY <2>1, <1>1, <1>2 DEF Stops
  <2>3. m[a + i - 1] \in 0 .. 255
    BY <2>1, <1>2
  <2> QED BY <2>2, <2>3
<1>5. q - a \in Nat
  BY <1>1, <1>2
<1>6. StringAt(m, a) = [i \in 1 .. q - a |-> m[a + i - 1]]
  BY <1>3 DEF StringAt
<1>7. StringAt(m, a) \in [1 .. q - a -> 1 .. 255]
  BY <1>4, <1>6
<1>8. \A k \in Nat : [1 .. k -> 1 .. 255] \subseteq Seq(1 .. 255)
  OBVIOUS
<1> QED BY <1>5, <1>7, <1>8 DEF Strings

LEMMA BufferText == \A b \in Buffer : Text(b, ArgsSz + 2)
<1>1. ArgsSz + 2 \in Nat \ {0}
  BY Sizes
<1> QED BY <1>1 DEF Text, Buffer, Code

LEMMA BufferString ==
  ASSUME NEW b \in Buffer, NEW a \in Room, NEW w \in Strings,
         a + Len(w) <= ArgsSz + 2, b[a + Len(w)] = NUL,
         \A i \in 1 .. Len(w) : b[(a - 1) + i] = w[i]
  PROVE  StringAt(b, a) = w
<1>1. Text(b, ArgsSz + 2) /\ a \in 1 .. ArgsSz + 2
  BY BufferText DEF Room
<1> QED BY <1>1, StringStands

Seen(g) == [i \in DOMAIN g.argv |-> StringAt(g.buf, g.argv[i])]
Dirty(words, old, g) ==
  g.ret = 0 /\ \E i \in DOMAIN words : old[g.argv[i] + Len(words[i])] # NUL

(* A program is refused exactly if its words do not fit. If not, it finds  *)
(* them if there was a NUL behind each.                                    *)
LEMMA GetargvIs ==
  ASSUME NEW words \in Vectors, NEW old \in Buffer
  PROVE  LET g == getargv(words, old)
         IN /\ g.ret \in {-1, 0} /\ g.buf \in Buffer
            /\ g.ret = 0 <=> Fits(words)
            /\ g.ret = 0 => Seen(g) \in Vectors /\ Len(Seen(g)) = Len(words)
            /\ g.ret = 0 /\ ~ Dirty(words, old, g) => Seen(g) = words
<1> DEFINE N == Len(words)
           g == getargv(words, old)
<1>n. N \in Nat /\ N > 0 /\ DOMAIN words = 1 .. N /\ ArgsSz \in Nat /\ ArgvSz \in Nat
  BY VectorIs, Sizes
<1>1. PICK e : Sums(words, e) /\ Chars(words) = e[N]
  BY SumsIs
<1>2. PICK f : /\ f[0] = Begin(old)
               /\ \A k \in 1 .. N : f[k] = Round(words, f[k - 1], k)
               /\ g = IF Len(f[N].argv) >= ArgvSz THEN [f[N] EXCEPT !.ret = -1] ELSE f[N]
  BY LoopIs
<1>3. /\ f[N] \in GetArgvState
      /\ f[N].ret = 0 => Stand(words, e, old, f[N], N)
      /\ f[N].ret # 0 => Refused(words, e)
  BY <1>1, <1>2, LoopStands
<1>e. \A k \in 0 .. N : e[k] \in Nat /\ e[k] <= e[N]
  BY <1>1, <1>n DEF Sums
<1> HIDE DEF g
<1>4. /\ g.ret \in {-1, 0} /\ g.buf \in Buffer /\ g.argv \in Seq(Room)
      /\ g.ret = 0 => g = f[N] /\ f[N].ret = 0
      /\ g.ret # 0 => f[N].ret # 0 \/ Len(f[N].argv) >= ArgvSz
  BY <1>2, <1>3 DEF GetArgvState
<1>5. ASSUME g.ret = 0 PROVE Fits(words) /\ Stand(words, e, old, g, N)
  <2>1. g = f[N] /\ ~ (Len(f[N].argv) >= ArgvSz)
    BY <1>2, <1>3, <1>4, <1>5 DEF GetArgvState
  <2>2. Stand(words, e, old, g, N)
    BY <1>3, <1>4, <1>5
  <2>3. N < ArgvSz /\ e[N] <= ArgsSz + 1
    BY <2>1, <2>2, <1>n DEF Stand
  <2> QED BY <2>2, <2>3, <1>1 DEF Fits
<1>6. ASSUME g.ret # 0 PROVE ~ Fits(words)
  <2>1. CASE f[N].ret # 0
    <3>1. Refused(words, e)
      BY <2>1, <1>3
    <3>2. CASE N >= ArgvSz
      BY <3>2, <1>n DEF Fits
    <3>3. ASSUME NEW j \in 1 .. N, e[j] > ArgsSz + 1 PROVE ~ Fits(words)
      <4>1. e[j] \in Nat /\ e[N] \in Nat /\ e[j] <= e[N]
        BY <1>e, <1>n
      <4> QED BY <4>1, <3>3, <1>1, <1>n DEF Fits
    <3> QED BY <3>1, <3>2, <3>3 DEF Refused
  <2>2. CASE f[N].ret = 0 /\ Len(f[N].argv) >= ArgvSz
    BY <2>2, <1>3, <1>n DEF Stand, Fits
  <2> QED BY <2>1, <2>2, <1>6, <1>4
<1>t. Text(g.buf, ArgsSz + 2)
  BY <1>4, BufferText
<1>7. ASSUME g.ret = 0 PROVE Seen(g) \in Vectors /\ Len(Seen(g)) = N
  <2>1. DOMAIN g.argv = 1 .. N /\ Len(g.argv) = N /\ \A i \in 1 .. N : g.argv[i] \in Room
    BY <1>4, <1>5, <1>7, <1>n DEF Stand
  <2>2. \A i \in 1 .. N : StringAt(g.buf, g.argv[i]) \in Strings
    BY <2>1, <1>t, StringTyped DEF Room
  <2>3. Seen(g) \in [1 .. N -> Strings]
    BY <2>1, <2>2 DEF Seen
  <2>4. Seen(g) \in Seq(Strings) /\ Len(Seen(g)) = N
    BY <2>3, <1>n
  <2> QED BY <2>4, <1>n, VectorIs
<1>8. ASSUME g.ret = 0, ~ Dirty(words, old, g) PROVE Seen(g) = words
  <2>1. Stand(words, e, old, g, N) /\ DOMAIN g.argv = 1 .. N
    BY <1>4, <1>5, <1>8, <1>n DEF Stand
  <2>2. ASSUME NEW i \in 1 .. N PROVE StringAt(g.buf, g.argv[i]) = words[i]
    <3> DEFINE w == words[i]
               a == g.argv[i]
    <3>1. i - 1 \in 0 .. N /\ i \in 0 .. N
      BY <1>n
    <3>2. /\ e[i - 1] \in Nat /\ e[i] \in Nat /\ e[i] <= e[N] /\ e[N] <= ArgsSz + 1
          /\ e[i] = e[i - 1] + Len(w) + 1
      BY <3>1, <1>e, <1>1, <2>1 DEF Sums, Stand
    <3>3. Len(w) \in Nat /\ w \in Strings /\ a = e[i - 1] + 1
      BY <2>1, VectorIs DEF Stand
    <3>4. a + Len(w) = e[i] /\ a \in Room /\ a + Len(w) <= ArgsSz + 2
      <4>1. e[N] \in Nat
        BY <1>e, <1>n
      <4>2. a + Len(w) = e[i]
        BY <3>2, <3>3
      <4>3. e[i] <= ArgsSz + 1 /\ a >= 1 /\ a <= e[i] /\ a \in Int
        BY <3>2, <3>3, <1>n, <4>1
      <4> HIDE DEF a
      <4> QED BY <4>2, <4>3, <3>2, <1>n DEF Room
    <3>5. old[a + Len(w)] = NUL
      BY <1>8, <1>n DEF Dirty
    <3>6. g.buf[a + Len(w)] = NUL
      BY <3>4, <3>5, <2>1 DEF Stand
    <3>7. ASSUME NEW j \in 1 .. Len(w) PROVE g.buf[(a - 1) + j] = w[j]
      <4>1. (a - 1) + j = e[i - 1] + j
        BY <3>2, <3>3
      <4> QED BY <4>1, <2>1 DEF Stand
    <3> HIDE DEF a, w
    <3>8. StringAt(g.buf, a) = w
      BY <3>3, <3>4, <3>6, <3>7, <1>4, BufferString
    <3> QED BY <3>8 DEF a, w
  <2>3. Seen(g) = [i \in 1 .. N |-> words[i]]
    BY <2>1, <2>2 DEF Seen
  <2> QED BY <2>3, <1>n, VectorIs
<1> QED BY <1>4, <1>5, <1>6, <1>7, <1>8 DEF g
-----------------------------------------------------------------------------
(* os_run and the meaning of a command, for one number of free processes.  *)
Fails(l) == [ret |-> -1, code |-> -1, left |-> l, out |-> <<>>, stale |-> FALSE]
RunAt(n, below) ==
  [words \in Vectors |-> [l \in Lefts |->
     IF n = 0 \/ words[1] \notin {Echo, EchoCode}
     THEN Fails(l) ELSE Program(words, l, n, below)]]
Stands(words, n, child) ==
  CASE n = 0 \/ words[1] \notin {Echo, EchoCode} ->
         [runs |-> FALSE, code |-> -1, out |-> <<>>]
    [] n > 0 /\ words[1] \in {Echo, EchoCode} /\ ~ Fits(words) ->
         [runs |-> TRUE, code |-> 256, out |-> <<>>]
    [] n > 0 /\ words[1] = Echo /\ Fits(words) ->
         [runs |-> TRUE, code |-> 0, out |-> echo(words)]
    [] n > 0 /\ words = <<EchoCode>> /\ Fits(words) ->
         [runs |-> TRUE, code |-> 1, out |-> Usage]
    [] OTHER ->
         [runs |-> TRUE, code |-> IF child.runs THEN 0 ELSE 1,
          out |-> child.out \o IF child.runs THEN ExitCode(child.code)
                               ELSE FailedToRun]
MeansAt(n, below) == [words \in Vectors |-> Stands(words, n, below[Tail(words)])]

LEMMA AtZero ==
  \A x, y : RunAt(0, x) = RunAt(0, y) /\ MeansAt(0, x) = MeansAt(0, y)
<1> SUFFICES ASSUME NEW x, NEW y
             PROVE  RunAt(0, x) = RunAt(0, y) /\ MeansAt(0, x) = MeansAt(0, y)
  OBVIOUS
<1> DEFINE F == [words \in Vectors |-> [l \in Lefts |-> Fails(l)]]
<1>1. RunAt(0, x) = F
  BY DEF RunAt
<1>2. RunAt(0, y) = F
  BY DEF RunAt
<1> HIDE DEF F
<1> DEFINE no == [runs |-> FALSE, code |-> -1, out |-> <<>>]
<1>3. \A words, c : Stands(words, 0, c) = no
  BY DEF Stands
<1>4. MeansAt(0, x) = [words \in Vectors |-> no]
  BY <1>3 DEF MeansAt
<1>5. MeansAt(0, y) = [words \in Vectors |-> no]
  BY <1>3 DEF MeansAt
<1>6. RunAt(0, x) = RunAt(0, y)
  BY <1>1, <1>2
<1>7. MeansAt(0, x) = MeansAt(0, y)
  BY <1>4, <1>5
<1> QED BY <1>6, <1>7

RunsUpTo(n, f) == f = [k \in 0 .. n |-> RunAt(k, f[k - 1])]
MeansUpTo(n, f) == f = [k \in 0 .. n |-> MeansAt(k, f[k - 1])]

LEMMA RunAtIs ==
  ASSUME NEW n, NEW below, NEW words \in Vectors, NEW l \in Lefts
  PROVE  RunAt(n, below)[words][l] =
           IF n = 0 \/ words[1] \notin {Echo, EchoCode}
           THEN Fails(l) ELSE Program(words, l, n, below)
  BY DEF RunAt

LEMMA RunsExist == \A n \in Nat : \E f : RunsUpTo(n, f)
<1> DEFINE S == {n \in Nat : \E f : RunsUpTo(n, f)}
<1>1. 0 \in S
  <2> DEFINE f == [k \in 0 .. 0 |-> RunAt(0, 0)]
             h == [k \in 0 .. 0 |-> RunAt(k, f[k - 1])]
  <2>1. ASSUME NEW k \in 0 .. 0 PROVE f[k] = h[k]
    <3>1. k = 0
      OBVIOUS
    <3>2. RunAt(0, f[k - 1]) = RunAt(0, 0)
      BY AtZero
    <3> QED BY <3>1, <3>2
  <2>2. f = h
    BY <2>1
  <2>3. RunsUpTo(0, f)
    BY <2>2 DEF RunsUpTo
  <2> QED BY <2>3
<1>2. ASSUME NEW n \in Nat, n \in S
      PROVE  n + 1 \in S
  <2>1. PICK u : RunsUpTo(n, u)
    BY <1>2
  <2> DEFINE f == [k \in 0 .. n + 1 |-> IF k # n + 1 THEN u[k] ELSE RunAt(k, u[n])]
             h == [k \in 0 .. n + 1 |-> RunAt(k, f[k - 1])]
  <2>2. ASSUME NEW k \in 0 .. n + 1
        PROVE  f[k] = h[k]
    <3>1. k # 0 => k - 1 \in 0 .. n + 1 /\ k - 1 # n + 1 /\ f[k - 1] = u[k - 1]
      OBVIOUS
    <3>2. CASE k = n + 1
      <4>1. f[k - 1] = u[n] /\ k - 1 = n
        BY <3>1, <3>2
      <4> QED BY <4>1, <3>2
    <3>3. CASE k # n + 1
      <4>1. k \in 0 .. n
        BY <3>3
      <4>2. u[k] = RunAt(k, u[k - 1])
        BY <2>1, <4>1 DEF RunsUpTo
      <4>3. CASE k = 0
        <5>1. RunAt(k, u[k - 1]) = RunAt(k, f[k - 1])
          BY <4>3, AtZero, Zenon
        <5> QED BY <4>2, <5>1, <3>3
      <4>4. CASE k # 0
        BY <3>1, <3>3, <4>2, <4>4
      <4> QED BY <4>3, <4>4
    <3> QED BY <3>2, <3>3
  <2>3. f = h
    BY <2>2
  <2>4. RunsUpTo(n + 1, f)
    BY <2>3 DEF RunsUpTo
  <2> QED BY <2>4
<1> HIDE DEF S
<1>3. Nat \subseteq S
  BY <1>1, <1>2, Induction
<1> QED BY <1>3 DEF S

LEMMA MeansExist == \A n \in Nat : \E f : MeansUpTo(n, f)
<1> DEFINE S == {n \in Nat : \E f : MeansUpTo(n, f)}
<1>1. 0 \in S
  <2> DEFINE f == [k \in 0 .. 0 |-> MeansAt(0, 0)]
             h == [k \in 0 .. 0 |-> MeansAt(k, f[k - 1])]
  <2>1. ASSUME NEW k \in 0 .. 0 PROVE f[k] = h[k]
    <3>1. k = 0
      OBVIOUS
    <3>2. MeansAt(0, f[k - 1]) = MeansAt(0, 0)
      BY AtZero
    <3> QED BY <3>1, <3>2
  <2>2. f = h
    BY <2>1
  <2>3. MeansUpTo(0, f)
    BY <2>2 DEF MeansUpTo
  <2> QED BY <2>3
<1>2. ASSUME NEW n \in Nat, n \in S
      PROVE  n + 1 \in S
  <2>1. PICK u : MeansUpTo(n, u)
    BY <1>2
  <2> DEFINE f == [k \in 0 .. n + 1 |-> IF k # n + 1 THEN u[k] ELSE MeansAt(k, u[n])]
             h == [k \in 0 .. n + 1 |-> MeansAt(k, f[k - 1])]
  <2>2. ASSUME NEW k \in 0 .. n + 1
        PROVE  f[k] = h[k]
    <3>1. k # 0 => k - 1 \in 0 .. n + 1 /\ k - 1 # n + 1 /\ f[k - 1] = u[k - 1]
      OBVIOUS
    <3>2. CASE k = n + 1
      <4>1. f[k - 1] = u[n] /\ k - 1 = n
        BY <3>1, <3>2
      <4> QED BY <4>1, <3>2
    <3>3. CASE k # n + 1
      <4>1. k \in 0 .. n
        BY <3>3
      <4>2. u[k] = MeansAt(k, u[k - 1])
        BY <2>1, <4>1 DEF MeansUpTo
      <4>3. CASE k = 0
        <5>1. MeansAt(k, u[k - 1]) = MeansAt(k, f[k - 1])
          BY <4>3, AtZero, Zenon
        <5> QED BY <4>2, <5>1, <3>3
      <4>4. CASE k # 0
        BY <3>1, <3>3, <4>2, <4>4
      <4> QED BY <4>3, <4>4
    <3> QED BY <3>2, <3>3
  <2>3. f = h
    BY <2>2
  <2>4. MeansUpTo(n + 1, f)
    BY <2>3 DEF MeansUpTo
  <2> QED BY <2>4
<1> HIDE DEF S
<1>3. Nat \subseteq S
  BY <1>1, <1>2, Induction
<1> QED BY <1>3 DEF S

LEMMA ExecIs == \A n \in 0 .. Depth : Exec[n] = RunAt(n, Exec[n - 1])
<1> DEFINE P(f) == f = [n \in 0 .. Depth |-> RunAt(n, f[n - 1])]
<1>1. \E f : P(f)
  <2>1. \E f : RunsUpTo(Depth, f)
    BY RunsExist, Sizes
  <2> QED BY <2>1, Zenon DEF RunsUpTo
<1>2. Exec = CHOOSE f : P(f)
  BY DEF Exec, RunAt, Fails
<1> HIDE DEF P
<1>3. P(Exec)
  BY <1>1, <1>2, Zenon
<1> QED BY <1>3 DEF P

LEMMA MeaningIs == \A n \in 0 .. Depth : Meaning[n] = MeansAt(n, Meaning[n - 1])
<1> DEFINE P(f) == f = [n \in 0 .. Depth |-> MeansAt(n, f[n - 1])]
<1>1. \E f : P(f)
  <2>1. \E f : MeansUpTo(Depth, f)
    BY MeansExist, Sizes
  <2> QED BY <2>1, Zenon DEF MeansUpTo
<1>2. Meaning = CHOOSE f : P(f)
  BY Zenon DEF Meaning, MeansAt, Stands
<1> HIDE DEF P
<1>3. P(Meaning)
  BY <1>1, <1>2, Zenon
<1> QED BY <1>3 DEF P
-----------------------------------------------------------------------------
(* os_run with n processes free does what the command means, if no string  *)
(* was copied to where no NUL was behind it.                               *)
RunOf == [ret : {-1, 0}, code : Int, left : Lefts, out : Seq(Item), stale : BOOLEAN]
MeaningOf == [runs : BOOLEAN, code : Int, out : Seq(Item)]
Agree(r, m) ==
  ~ r.stale => (m.runs <=> r.ret = 0) /\ r.code = m.code /\ r.out = m.out
RunsAsMeant(n) ==
  \A words \in Vectors, l \in Lefts :
    /\ Exec[n][words][l] \in RunOf /\ Meaning[n][words] \in MeaningOf
    /\ Agree(Exec[n][words][l], Meaning[n][words])

LEMMA RunTyped ==
  ASSUME NEW ret \in {-1, 0}, NEW code \in Int, NEW l \in Lefts, NEW o \in Seq(Item),
         NEW s \in BOOLEAN
  PROVE  [ret |-> ret, code |-> code, left |-> l, out |-> o, stale |-> s] \in RunOf
  BY DEF RunOf

LEMMA MeaningTyped ==
  ASSUME NEW runs \in BOOLEAN, NEW code \in Int, NEW o \in Seq(Item)
  PROVE  [runs |-> runs, code |-> code, out |-> o] \in MeaningOf
  BY DEF MeaningOf

(* What echocode prints after its child.                                   *)
LEMMA ReportTyped ==
  ASSUME NEW o \in Seq(Item), NEW c \in Int, NEW runs \in BOOLEAN
  PROVE  o \o (IF runs THEN ExitCode(c) ELSE FailedToRun) \in Seq(Item)
<1>1. (IF runs THEN ExitCode(c) ELSE FailedToRun) \in Seq(Item)
  BY Printed
<1> QED BY <1>1, ConcatProperties

LEMMA ProgramIs ==
  ASSUME NEW words \in Vectors, NEW l \in Lefts, NEW n \in 1 .. Depth,
         words[1] \in {Echo, EchoCode}, RunsAsMeant(n - 1)
  PROVE  LET r == Program(words, l, n, Exec[n - 1])
             m == Stands(words, n, Meaning[n - 1][Tail(words)])
         IN r \in RunOf /\ m \in MeaningOf /\ Agree(r, m)
<1> DEFINE r == Program(words, l, n, Exec[n - 1])
           m == Stands(words, n, Meaning[n - 1][Tail(words)])
           g == getargv(words, l[n])
           lg == [l EXCEPT ![n] = g.buf]
           d == Dirty(words, l[n], g)
<1>n. n \in Nat /\ n > 0 /\ ~ (n = 0) /\ Depth \in Nat
  BY Sizes
<1>1. l \in [1 .. Depth -> Buffer] /\ l[n] \in Buffer
  BY DEF Lefts, Buffer
<1>2. /\ g.ret \in {-1, 0} /\ g.buf \in Buffer
      /\ g.ret = 0 <=> Fits(words)
      /\ g.ret = 0 => Seen(g) \in Vectors /\ Len(Seen(g)) = Len(words)
      /\ g.ret = 0 /\ ~ d => Seen(g) = words
  BY <1>1, GetargvIs
<1>3. lg \in Lefts
  BY <1>1, <1>2 DEF Lefts, Buffer
<1>4. d \in BOOLEAN
  BY DEF Dirty
<1>r. r = CASE g.ret < 0 ->
                 [ret |-> 0, code |-> 256, left |-> lg, out |-> <<>>, stale |-> FALSE]
            [] g.ret = 0 /\ words[1] = Echo ->
                 [ret |-> 0, code |-> 0, left |-> lg, out |-> echo(Seen(g)), stale |-> d]
            [] g.ret = 0 /\ words[1] # Echo /\ Len(Seen(g)) < 2 ->
                 [ret |-> 0, code |-> 1, left |-> lg, out |-> Usage, stale |-> d]
            [] OTHER ->
                 LET child == Exec[n - 1][ChildVector(Seen(g))][lg]
                 IN [ret |-> 0, code |-> IF child.ret # 0 THEN 1 ELSE 0,
                     left |-> child.left,
                     out |-> child.out \o IF child.ret # 0 THEN FailedToRun
                                          ELSE ExitCode(child.code),
                     stale |-> d \/ child.stale]
  BY DEF Program, Seen, Dirty
<1> HIDE DEF r, g, lg, d
<1>5. CASE ~ Fits(words)
  <2>1. g.ret < 0 /\ g.ret # 0
    BY <1>2, <1>5
  <2>2. r = [ret |-> 0, code |-> 256, left |-> lg, out |-> <<>>, stale |-> FALSE]
    BY <1>r, <2>1
  <2>3. m = [runs |-> TRUE, code |-> 256, out |-> <<>>]
    BY <1>5, <1>n DEF Stands
  <2> HIDE DEF m
  <2>4. r \in RunOf /\ m \in MeaningOf
    <3>1. r \in RunOf
      BY <2>2, <1>3, Printed DEF RunOf
    <3>2. m \in MeaningOf
      BY <2>3, Printed DEF MeaningOf
    <3> QED BY <3>1, <3>2
  <2> QED BY <2>2, <2>3, <2>4 DEF Agree, r, m
<1>6. CASE Fits(words) /\ words[1] = Echo
  <2>1. g.ret = 0 /\ ~ (g.ret < 0)
    BY <1>2, <1>6
  <2>2. r = [ret |-> 0, code |-> 0, left |-> lg, out |-> echo(Seen(g)), stale |-> d]
    BY <1>r, <2>1, <1>6
  <2>3. m = [runs |-> TRUE, code |-> 0, out |-> echo(words)]
    <3>1. words # <<EchoCode>>
      BY <1>6, Sizes
    <3> QED BY <1>6, <1>n, <3>1 DEF Stands
  <2> HIDE DEF m
  <2>4. r \in RunOf /\ m \in MeaningOf
    <3>1. r \in RunOf
      <4>1. echo(Seen(g)) \in Seq(Item)
        BY <2>1, <1>2, Printed
      <4> QED BY <4>1, <2>2, <1>3, <1>4 DEF RunOf
    <3>2. m \in MeaningOf
      BY <2>3, Printed DEF MeaningOf
    <3> QED BY <3>1, <3>2
  <2>5. ~ d => Seen(g) = words
    BY <1>2, <2>1
  <2> QED BY <2>2, <2>3, <2>4, <2>5 DEF Agree, r, m
<1>7. CASE Fits(words) /\ words[1] = EchoCode /\ Len(words) < 2
  <2>1. g.ret = 0 /\ ~ (g.ret < 0) /\ words[1] # Echo /\ Len(Seen(g)) < 2
    BY <1>2, <1>7, Sizes
  <2>2. r = [ret |-> 0, code |-> 1, left |-> lg, out |-> Usage, stale |-> d]
    BY <1>r, <2>1
  <2>3. m = [runs |-> TRUE, code |-> 1, out |-> Usage]
    <3>1. words = <<EchoCode>>
      <4>1. words \in Seq(Strings) /\ Len(words) \in Nat /\ Len(words) > 0
        BY VectorIs
      <4>2. Len(words) = 1
        <5>1. Len(words) < 2
          BY <1>7
        <5>2. Len(words) \in Nat /\ Len(words) > 0
          BY <4>1
        <5> DEFINE k == Len(words)
        <5> HIDE DEF k
        <5>3. k \in Nat /\ k > 0 /\ k < 2 => k = 1
          OBVIOUS
        <5> QED BY <5>1, <5>2, <5>3 DEF k
      <4> QED BY <4>1, <4>2, <1>7
    <3> QED BY <1>7, <1>n, <3>1, <2>1 DEF Stands
  <2> HIDE DEF m
  <2>4. r \in RunOf /\ m \in MeaningOf
    <3>1. r \in RunOf
      BY <2>2, <1>3, <1>4, Printed DEF RunOf
    <3>2. m \in MeaningOf
      BY <2>3, Printed DEF MeaningOf
    <3> QED BY <3>1, <3>2
  <2> QED BY <2>2, <2>3, <2>4 DEF Agree, r, m
<1>8. CASE Fits(words) /\ words[1] = EchoCode /\ ~ (Len(words) < 2)
  <2> DEFINE s == Seen(g)
             x == Exec[n - 1][Tail(s)][lg]
             y == Meaning[n - 1][Tail(words)]
  <2>1. g.ret = 0 /\ ~ (g.ret < 0) /\ words[1] # Echo /\ ~ (Len(s) < 2)
    BY <1>2, <1>8, Sizes
  <2>2. s \in Vectors /\ Len(s) >= 2 /\ Len(words) >= 2
    <3>1. Len(words) \in Nat /\ Len(s) = Len(words)
      BY <1>2, <2>1, VectorIs
    <3> QED BY <3>1, <1>2, <2>1, <1>8
  <2>3. Tail(s) \in Vectors /\ Tail(words) \in Vectors
    BY <2>2, TailIs
  <2>4. x \in RunOf /\ y \in MeaningOf
    BY <2>3, <1>3 DEF RunsAsMeant
  <2>5. Agree(Exec[n - 1][Tail(words)][lg], y)
    BY <2>3, <1>3 DEF RunsAsMeant
  <2>6. r = [ret |-> 0, code |-> IF x.ret # 0 THEN 1 ELSE 0, left |-> x.left,
             out |-> x.out \o IF x.ret # 0 THEN FailedToRun ELSE ExitCode(x.code),
             stale |-> d \/ x.stale]
    BY <1>r, <2>1 DEF ChildVector
  <2>7. m = [runs |-> TRUE, code |-> IF y.runs THEN 0 ELSE 1,
             out |-> y.out \o IF y.runs THEN ExitCode(y.code) ELSE FailedToRun]
    <3>1. words # <<EchoCode>>
      <4>1. Len(<<EchoCode>>) = 1
        OBVIOUS
      <4>2. Len(words) # 1
        BY <2>2, VectorIs
      <4> QED BY <4>1, <4>2, Zenon
    <3> QED BY <1>8, <1>n, <3>1, <2>1 DEF Stands
  <2>8. ~ d => Agree(x, y)
    BY <1>2, <2>1, <2>5
  <2>9. r \in RunOf
    <3>1. /\ x.ret \in {-1, 0} /\ x.code \in Int /\ x.left \in Lefts
          /\ x.out \in Seq(Item) /\ x.stale \in BOOLEAN
      BY <2>4 DEF RunOf
    <3> HIDE DEF x
    <3>2. (x.out \o IF x.ret # 0 THEN FailedToRun ELSE ExitCode(x.code)) \in Seq(Item)
      <4>1. (IF x.ret # 0 THEN FailedToRun ELSE ExitCode(x.code)) \in Seq(Item)
        BY <3>1, Printed
      <4> QED BY <4>1, <3>1, ConcatProperties
    <3>3. (IF x.ret # 0 THEN 1 ELSE 0) \in Int /\ (d \/ x.stale) \in BOOLEAN
      OBVIOUS
    <3> QED BY <2>6, <3>1, <3>2, <3>3, RunTyped
  <2>10. m \in MeaningOf
    <3>1. y.runs \in BOOLEAN /\ y.code \in Int /\ y.out \in Seq(Item)
      BY <2>4 DEF MeaningOf
    <3> HIDE DEF y, m
    <3>2. (y.out \o IF y.runs THEN ExitCode(y.code) ELSE FailedToRun) \in Seq(Item)
      BY <3>1, ReportTyped
    <3>3. (IF y.runs THEN 0 ELSE 1) \in Int
      OBVIOUS
    <3> QED BY <2>7, <3>2, <3>3, MeaningTyped
  <2> HIDE DEF m, x, y
  <2>11. Agree(r, m)
    <3>1. SUFFICES ASSUME ~ r.stale
                   PROVE  (m.runs <=> r.ret = 0) /\ r.code = m.code /\ r.out = m.out
      BY DEF Agree
    <3>2. ~ d /\ ~ x.stale
      BY <3>1, <2>6
    <3>3. (y.runs <=> x.ret = 0) /\ x.code = y.code /\ x.out = y.out
      BY <3>2, <2>8 DEF Agree
    <3>4. CASE x.ret = 0
      BY <3>3, <3>4, <2>6, <2>7
    <3>5. CASE x.ret # 0
      BY <3>3, <3>5, <2>6, <2>7
    <3> QED BY <3>4, <3>5
  <2> QED BY <2>9, <2>10, <2>11 DEF r, m
<1> QED BY <1>5, <1>6, <1>7, <1>8

LEMMA RunsMeant == \A n \in 0 .. Depth : RunsAsMeant(n)
<1> DEFINE S == {n \in Nat : n \in 0 .. Depth => RunsAsMeant(n)}
<1>1. ASSUME NEW n \in 0 .. Depth, NEW words \in Vectors, NEW l \in Lefts,
             n = 0 \/ words[1] \notin {Echo, EchoCode}
      PROVE  /\ Exec[n][words][l] \in RunOf /\ Meaning[n][words] \in MeaningOf
             /\ Agree(Exec[n][words][l], Meaning[n][words])
  <2>1. Exec[n][words][l] = [ret |-> -1, code |-> -1, left |-> l, out |-> <<>>, stale |-> FALSE]
    <3>1. Exec[n][words][l] = Fails(l)
      BY <1>1, ExecIs, RunAtIs
    <3> QED BY <3>1 DEF Fails
  <2>2. Meaning[n][words] = [runs |-> FALSE, code |-> -1, out |-> <<>>]
    <3>1. Meaning[n][words] = Stands(words, n, Meaning[n - 1][Tail(words)])
      BY MeaningIs DEF MeansAt
    <3>2. n \in Nat /\ (n = 0 => ~ (n > 0))
      BY Sizes
    <3>3. words = <<EchoCode>> => words[1] = EchoCode
      OBVIOUS
    <3> QED BY <3>1, <3>2, <3>3, <1>1 DEF Stands
  <2>3. -1 \in {-1, 0} /\ -1 \in Int /\ <<>> \in Seq(Item) /\ -1 # 0
    BY Printed
  <2>4. Exec[n][words][l] \in RunOf
    BY <2>1, <2>3, RunTyped
  <2>5. Meaning[n][words] \in MeaningOf
    BY <2>2, <2>3, MeaningTyped
  <2>6. Agree(Exec[n][words][l], Meaning[n][words])
    <3> DEFINE r == Exec[n][words][l]
               m == Meaning[n][words]
    <3> DEFINE no == [ret |-> -1, code |-> -1, left |-> l, out |-> <<>>, stale |-> FALSE]
    <3>0. no.ret = -1 /\ no.code = -1 /\ no.out = <<>>
      OBVIOUS
    <3> HIDE DEF no
    <3>1. r.ret = -1 /\ r.code = -1 /\ r.out = <<>>
      BY <2>1, <3>0, Zenon DEF no
    <3>2. m.runs = FALSE /\ m.code = -1 /\ m.out = <<>>
      BY <2>2
    <3> HIDE DEF r, m
    <3>3. Agree(r, m)
      BY <3>1, <3>2, <2>3 DEF Agree
    <3> QED BY <3>3 DEF r, m
  <2> QED BY <2>4, <2>5, <2>6
<1>2. 0 \in S
  <2>1. 0 \in 0 .. Depth
    BY Sizes
  <2> QED BY <1>1, <2>1 DEF RunsAsMeant
<1>3. ASSUME NEW n \in Nat, n \in S PROVE n + 1 \in S
  <2> SUFFICES ASSUME n + 1 \in 0 .. Depth PROVE RunsAsMeant(n + 1)
    OBVIOUS
  <2>1. n \in 0 .. Depth /\ n + 1 \in 1 .. Depth /\ (n + 1) - 1 = n /\ n + 1 # 0
    BY Sizes
  <2>2. RunsAsMeant((n + 1) - 1)
    BY <1>3, <2>1
  <2>3. ASSUME NEW words \in Vectors, NEW l \in Lefts, words[1] \in {Echo, EchoCode}
        PROVE  /\ Exec[n + 1][words][l] = Program(words, l, n + 1, Exec[(n + 1) - 1])
               /\ Meaning[n + 1][words] = Stands(words, n + 1, Meaning[(n + 1) - 1][Tail(words)])
    <3>1. Exec[n + 1] = RunAt(n + 1, Exec[(n + 1) - 1])
      BY ExecIs
    <3>2. Meaning[n + 1] = MeansAt(n + 1, Meaning[(n + 1) - 1])
      BY MeaningIs
    <3>3. Exec[n + 1][words][l] = Program(words, l, n + 1, Exec[(n + 1) - 1])
      BY <3>1, <2>1, <2>3, RunAtIs
    <3>4. Meaning[n + 1][words] = Stands(words, n + 1, Meaning[(n + 1) - 1][Tail(words)])
      BY <3>2 DEF MeansAt
    <3> QED BY <3>3, <3>4
  <2>4. ASSUME NEW words \in Vectors, NEW l \in Lefts, words[1] \in {Echo, EchoCode}
        PROVE  /\ Exec[n + 1][words][l] \in RunOf /\ Meaning[n + 1][words] \in MeaningOf
               /\ Agree(Exec[n + 1][words][l], Meaning[n + 1][words])
    BY <2>1, <2>2, <2>3, <2>4, ProgramIs
  <2> QED BY <1>1, <2>4 DEF RunsAsMeant
<1> HIDE DEF S
<1>4. Nat \subseteq S
  BY <1>2, <1>3, Induction
<1> QED BY <1>4, Sizes DEF S
-----------------------------------------------------------------------------
(* FlattenSeq, which is recursive, appends.                                *)
Flat(s, n, g) ==
  g = [i \in 1 .. n |-> IF i = 1 THEN s[i] ELSE g[i - 1] \o s[i]]

LEMMA FlatExists ==
  ASSUME NEW s
  PROVE  \A n \in Nat : \E g : Flat(s, n, g)
<1> DEFINE S == {n \in Nat : \E g : Flat(s, n, g)}
<1>1. 0 \in S
  <2> DEFINE g == [i \in 1 .. 0 |-> 0]
  <2>1. Flat(s, 0, g)
    BY DEF Flat
  <2> QED BY <2>1
<1>2. ASSUME NEW n \in Nat, n \in S
      PROVE  n + 1 \in S
  <2>1. PICK u : Flat(s, n, u)
    BY <1>2
  <2> DEFINE g == [i \in 1 .. n + 1 |->
                     IF i # n + 1 THEN u[i] ELSE IF i = 1 THEN s[i] ELSE u[n] \o s[i]]
             h == [i \in 1 .. n + 1 |-> IF i = 1 THEN s[i] ELSE g[i - 1] \o s[i]]
  <2>2. ASSUME NEW i \in 1 .. n + 1
        PROVE  g[i] = h[i]
    <3>1. i # 1 => i - 1 \in 1 .. n + 1 /\ i - 1 # n + 1 /\ g[i - 1] = u[i - 1]
      OBVIOUS
    <3>2. CASE i = n + 1
      BY <3>1, <3>2
    <3>3. CASE i # n + 1
      <4>1. i \in 1 .. n
        BY <3>3
      <4>2. u[i] = IF i = 1 THEN s[i] ELSE u[i - 1] \o s[i]
        BY <2>1, <4>1 DEF Flat
      <4> QED BY <3>1, <3>3, <4>2
    <3> QED BY <3>2, <3>3
  <2>3. g = h
    BY <2>2
  <2>4. Flat(s, n + 1, g)
    BY <2>3 DEF Flat
  <2> QED BY <2>4
<1> HIDE DEF S
<1>3. Nat \subseteq S
  BY <1>1, <1>2, Induction
<1> QED BY <1>3 DEF S

LEMMA FlattenDef ==
  ASSUME NEW s, Len(s) \in Nat
  PROVE  /\ Len(s) = 0 => FlattenSeq(s) = s
         /\ Len(s) # 0 => \E g : Flat(s, Len(s), g) /\ FlattenSeq(s) = g[Len(s)]
<1> DEFINE P(g) == g = [i \in 1 .. Len(s) |-> IF i = 1 THEN s[i] ELSE g[i - 1] \o s[i]]
           v == CHOOSE g : P(g)
<1>1. \E g : P(g)
  <2>1. \E g : Flat(s, Len(s), g)
    BY FlatExists
  <2> QED BY <2>1, Zenon DEF Flat
<1>2. FlattenSeq(s) = IF Len(s) = 0 THEN s ELSE v[Len(s)]
  BY DEF FlattenSeq
<1> HIDE DEF P
<1>3. P(v)
  BY <1>1, Zenon
<1>4. Flat(s, Len(s), v)
  BY <1>3 DEF P, Flat
<1> QED BY <1>2, <1>4

LEMMA FlattenAppend ==
  ASSUME NEW C, NEW s \in Seq(Seq(C)), NEW e \in Seq(C)
  PROVE  /\ FlattenSeq(s) \in Seq(C)
         /\ FlattenSeq(Append(s, e)) = FlattenSeq(s) \o e
<1> DEFINE t == Append(s, e)
           N == Len(s)
<1>1. /\ N \in Nat /\ Len(t) = N + 1 /\ t[N + 1] = e
      /\ \A i \in 1 .. N : t[i] = s[i] /\ s[i] \in Seq(C)
  OBVIOUS
<1> HIDE DEF t
<1>2. PICK h : Flat(t, N + 1, h) /\ FlattenSeq(t) = h[N + 1]
  BY <1>1, FlattenDef
<1>3. \A i \in 1 .. N + 1 : h[i] = IF i = 1 THEN t[i] ELSE h[i - 1] \o t[i]
  BY <1>2 DEF Flat
<1>4. CASE N = 0
  <2>1. s = <<>> /\ FlattenSeq(s) = <<>> /\ <<>> \o e = e
    BY <1>1, <1>4, FlattenDef
  <2>2. 1 \in 1 .. N + 1 /\ N + 1 = 1
    BY <1>4
  <2>3. h[1] = t[1]
    BY <1>3, <2>2
  <2>4. FlattenSeq(t) = e
    BY <1>1, <1>2, <2>2, <2>3
  <2>5. <<>> \in Seq(C)
    OBVIOUS
  <2> QED BY <2>1, <2>4, <2>5 DEF t
<1>5. CASE N # 0
  <2>1. PICK g : Flat(s, N, g) /\ FlattenSeq(s) = g[N]
    BY <1>1, <1>5, FlattenDef
  <2>2. \A i \in 1 .. N : g[i] = IF i = 1 THEN s[i] ELSE g[i - 1] \o s[i]
    BY <2>1 DEF Flat
  <2> DEFINE S == {n \in Nat : n \in 1 .. N => g[n] = h[n] /\ g[n] \in Seq(C)}
  <2>3. 0 \in S
    OBVIOUS
  <2>4. ASSUME NEW n \in Nat, n \in S
        PROVE  n + 1 \in S
    <3>1. SUFFICES ASSUME n + 1 \in 1 .. N
                   PROVE  g[n + 1] = h[n + 1] /\ g[n + 1] \in Seq(C)
      OBVIOUS
    <3>2. n + 1 \in 1 .. N + 1 /\ (n + 1) - 1 = n /\ n + 1 # N + 1
      BY <1>1, <3>1
    <3>3. /\ g[n + 1] = IF n + 1 = 1 THEN s[n + 1] ELSE g[n] \o s[n + 1]
          /\ h[n + 1] = IF n + 1 = 1 THEN t[n + 1] ELSE h[n] \o t[n + 1]
          /\ t[n + 1] = s[n + 1] /\ s[n + 1] \in Seq(C)
      BY <1>1, <1>3, <2>2, <3>1, <3>2
    <3>4. n # 0 => g[n] = h[n] /\ g[n] \in Seq(C)
      BY <2>4, <3>1
    <3> QED BY <3>3, <3>4
  <2> HIDE DEF S
  <2>5. Nat \subseteq S
    BY <2>3, <2>4, Induction
  <2>6. g[N] = h[N] /\ g[N] \in Seq(C)
    BY <1>1, <1>5, <2>5 DEF S
  <2>7. h[N + 1] = h[N] \o e
    <3>1. N + 1 \in 1 .. N + 1 /\ N + 1 # 1 /\ (N + 1) - 1 = N
      BY <1>1, <1>5
    <3> QED BY <1>1, <1>3, <3>1
  <2> QED BY <1>2, <2>1, <2>6, <2>7 DEF t
<1> QED BY <1>4, <1>5

(* The meanings of a sequence of commands, one after the other.            *)
Printing(v) == FlattenSeq([k \in DOMAIN v |-> Meaning[Depth][v[k]].out])

LEMMA PrintingAppends ==
  ASSUME NEW v \in Seq(Vectors), NEW words \in Vectors
  PROVE  Printing(Append(v, words)) = Printing(v) \o Meaning[Depth][words].out
<1> DEFINE M(x) == Meaning[Depth][x].out
           s == [k \in DOMAIN v |-> M(v[k])]
           t == Append(v, words)
           N == Len(v)
<1>0. Depth \in 0 .. Depth
  BY Sizes
<1>1. ASSUME NEW x \in Vectors PROVE M(x) \in Seq(Item)
  <2>1. PICK l : l \in Lefts
    <3> DEFINE b == [i \in 1 .. ArgsSz + 2 |-> NUL]
               l == [n \in 1 .. Depth |-> b]
    <3>1. b \in [1 .. ArgsSz + 2 -> 0 .. 255] /\ b[ArgsSz + 2] = NUL
      BY Sizes DEF NUL
    <3>2. l \in Lefts
      BY <3>1 DEF Lefts
    <3> QED BY <3>2
  <2>2. Meaning[Depth][x] \in MeaningOf
    BY <1>0, <2>1, RunsMeant DEF RunsAsMeant
  <2> QED BY <2>2 DEF MeaningOf
<1>2. N \in Nat /\ DOMAIN v = 1 .. N /\ \A k \in 1 .. N : v[k] \in Vectors
  BY ElementOfSeq, LenProperties
<1>3. /\ DOMAIN t = 1 .. N + 1 /\ t[N + 1] = words
      /\ \A k \in 1 .. N : t[k] = v[k]
  BY <1>2
<1> HIDE DEF M, t
<1>4. s \in Seq(Seq(Item)) /\ Len(s) = N
  <2>1. s \in [1 .. N -> Seq(Item)]
    BY <1>1, <1>2
  <2> QED BY <2>1, <1>2
<1>5. [k \in DOMAIN t |-> M(t[k])] = Append(s, M(words))
  <2> DEFINE x == [k \in DOMAIN t |-> M(t[k])]
             y == Append(s, M(words))
  <2>1. DOMAIN y = 1 .. N + 1 /\ y[N + 1] = M(words) /\ \A k \in 1 .. N : y[k] = s[k]
    BY <1>4, <1>1, <1>2
  <2>2. y = [k \in 1 .. N + 1 |-> y[k]]
    BY <1>4, <1>1, <1>2
  <2>3. \A k \in 1 .. N + 1 : k \in 1 .. N \/ k = N + 1
    BY <1>2
  <2> HIDE DEF y
  <2>4. \A k \in 1 .. N + 1 : x[k] = y[k]
    BY <2>1, <2>3, <1>2, <1>3
  <2> QED BY <2>2, <2>4, <1>3 DEF y
<1>6. FlattenSeq(Append(s, M(words))) = FlattenSeq(s) \o M(words)
  BY <1>4, <1>1, FlattenAppend
<1> QED BY <1>5, <1>6 DEF Printing, M, t
-----------------------------------------------------------------------------
(* What was printed is what the commands run stand for, in their order.    *)
SessionInv ==
  /\ kbd \in DOMAIN Keyboards
  /\ pc = "run" => argv # <<>>
  /\ ran \in Seq(Vectors) /\ left \in Lefts
  /\ pc # "done" /\ ~ stale => out = Printing(ran)

SessionOk == SplitOk /\ SessionInv

(* A step of a session is a step of its shell.                             *)
LEMMA ShellSteps ==
  /\ SInit => Init
  /\ SessionInv /\ [SNext]_svars => [Next]_vars
<1>1. SInit => Init
  BY DEF SInit
<1> SUFFICES ASSUME SessionInv, [SNext]_svars PROVE [Next]_vars
  BY <1>1
<1>2. ASSUME NEW l \in Keyboards[kbd] PROVE l \in Input
  <2>1. kbd \in DOMAIN Keyboards
    BY DEF SessionInv
  <2> QED BY <2>1, SessionAssumption
<1>3. CASE Reads
  BY <1>2, <1>3 DEF Reads, Next, ReadLine
<1>4. CASE Cuts
  BY <1>4 DEF Cuts, Next, Work
<1>5. CASE SRun
  BY <1>5 DEF SRun, Next, Work
<1>6. CASE UNCHANGED svars
  BY <1>6 DEF svars
<1> QED BY <1>3, <1>4, <1>5, <1>6 DEF SNext

LEMMA NothingPrinted == <<>> \in Seq(Vectors) /\ Printing(<<>>) = <<>>
<1> DEFINE s == [k \in DOMAIN <<>> |-> Meaning[Depth][<<>>[k]].out]
<1>1. s = <<>>
  OBVIOUS
<1>2. <<>> \in Seq(Seq(Item)) /\ Len(<<>>) = 0 /\ Len(<<>>) \in Nat
  OBVIOUS
<1>3. FlattenSeq(<<>>) = <<>>
  BY <1>2, FlattenDef
<1> QED BY <1>1, <1>3 DEF Printing

LEMMA SInitOk == SInit => SessionOk
<1> SUFFICES ASSUME SInit PROVE SessionInv
  BY InitSplits DEF SessionOk, SInit
<1>1. /\ kbd \in DOMAIN Keyboards /\ pc = "prompt" /\ ran = <<>> /\ out = <<>>
      /\ left = [n \in 1 .. Depth |-> Fresh]
  BY DEF SInit, Init
<1>2. Fresh \in [1 .. ArgsSz + 2 -> 0 .. 255] /\ Fresh[ArgsSz + 2] = NUL
  BY Sizes DEF Fresh, NUL
<1>3. left \in Lefts
  BY <1>1, <1>2 DEF Lefts
<1> QED BY <1>1, <1>3, NothingPrinted DEF SessionInv

(* The vector that the shell runs.                                         *)
LEMMA VectorRuns ==
  ASSUME ShellInv, SessionInv, pc = "run"
  PROVE  [i \in DOMAIN argv |-> StringAt(mem, argv[i])] \in Vectors
<1> DEFINE v == [i \in DOMAIN argv |-> StringAt(mem, argv[i])]
<1>1. PICK b \in Behind : Text(mem, BufSize + Len(b))
  BY DEF ShellInv, MemInv
<1>2. argv \in Seq(DOMAIN mem) /\ argv # <<>> /\ DOMAIN mem = 1 .. BufSize + Len(b)
  BY <1>1 DEF ShellInv, TypeOK, SessionInv, Text
<1>3. Len(argv) \in Nat /\ Len(argv) > 0 /\ DOMAIN argv = 1 .. Len(argv)
  BY <1>2
<1>4. \A i \in 1 .. Len(argv) : argv[i] \in 1 .. BufSize + Len(b)
  BY <1>2, ElementOfSeq
<1>5. v \in [1 .. Len(argv) -> Strings]
  BY <1>1, <1>3, <1>4, StringTyped
<1> HIDE DEF v
<1>6. v \in Seq(Strings) /\ Len(v) = Len(argv)
  BY <1>3, <1>5
<1> QED BY <1>3, <1>6, VectorIs DEF v

LEMMA SRunKeeps == ASSUME SessionOk, SRun PROVE SessionInv'
<1> DEFINE v == [i \in DOMAIN argv |-> StringAt(mem, argv[i])]
           r == Exec[Depth][v][left]
<1>1. /\ pc = "run" /\ pc' = "command" /\ ran' = Append(ran, v) /\ UNCHANGED <<kbd, argv>>
  BY DEF SRun, Run
<1>2. v \in Vectors
  BY <1>1, VectorRuns DEF SessionOk, SplitOk
<1>3. kbd \in DOMAIN Keyboards /\ ran \in Seq(Vectors) /\ left \in Lefts
  BY DEF SessionOk, SessionInv
<1> HIDE DEF v
<1>4. ran' \in Seq(Vectors) /\ Last(ran') = v
  <2>1. Append(ran, v) \in Seq(Vectors) /\ Len(Append(ran, v)) = Len(ran) + 1
        /\ Append(ran, v)[Len(ran) + 1] = v
    BY <1>2, <1>3
  <2> QED BY <1>1, <2>1 DEF Last
<1>5. left' = r.left /\ out' = out \o r.out /\ stale' = (stale \/ r.stale)
  BY <1>4 DEF SRun
<1>6. r \in RunOf /\ Agree(r, Meaning[Depth][v])
  <2>1. Depth \in 0 .. Depth
    BY Sizes
  <2> QED BY <2>1, <1>2, <1>3, RunsMeant DEF RunsAsMeant
<1>7. left' \in Lefts
  BY <1>5, <1>6 DEF RunOf
<1>8. ASSUME ~ stale' PROVE out' = Printing(ran')
  <2>1. ~ stale /\ ~ r.stale
    BY <1>5, <1>8
  <2>2. out = Printing(ran) /\ r.out = Meaning[Depth][v].out
    BY <1>1, <1>6, <2>1 DEF SessionOk, SessionInv, Agree
  <2>3. Printing(ran') = Printing(ran) \o Meaning[Depth][v].out
    BY <1>1, <1>2, <1>3, PrintingAppends
  <2> QED BY <1>5, <2>2, <2>3
<1> QED BY <1>1, <1>3, <1>4, <1>7, <1>8 DEF SessionInv

LEMMA SNextOk == SessionOk /\ [SNext]_svars => SessionOk'
<1> SUFFICES ASSUME SessionOk, [SNext]_svars PROVE SessionInv'
  BY ShellSteps, NextSplits DEF SessionOk
<1>1. CASE Reads
  <2>1. /\ kbd' = kbd /\ left' = left /\ out' = <<>> /\ pc' # "run"
        /\ pc' = "done" \/ ran' = <<>>
    BY <1>1 DEF Reads, Typed, ReadFails, EndOfInput
  <2>2. ran' \in Seq(Vectors)
    BY <1>1, NothingPrinted DEF Reads, Typed, ReadFails, EndOfInput, SessionOk, SessionInv
  <2>3. pc' # "done" => out' = Printing(ran')
    BY <2>1, NothingPrinted
  <2> QED BY <2>1, <2>2, <2>3 DEF SessionOk, SessionInv
<1>2. CASE Cuts
  <2>1. UNCHANGED <<kbd, left, out, stale, ran>> /\ pc # "done" /\ (pc' = "run" => argv' # <<>>)
    BY <1>2 DEF Cuts, NextCommand, NextWord
  <2> QED BY <2>1 DEF SessionOk, SessionInv, Printing
<1>3. CASE SRun
  BY <1>3, SRunKeeps
<1>4. CASE UNCHANGED svars
  <2>1. UNCHANGED <<kbd, left, out, stale, ran, pc, argv>>
    BY <1>4 DEF svars, vars
  <2> QED BY <2>1 DEF SessionOk, SessionInv, Printing
<1> QED BY <1>1, <1>2, <1>3, <1>4 DEF SNext

(* The shell of a session is the shell: what is proved of Shell holds of   *)
(* it, whatever programs it runs and whatever they do.                     *)
THEOREM SessionIsShell == SSpec => Spec
<1>1. SInit => Init
  BY ShellSteps
<1>2. SessionOk /\ [SNext]_svars => [Next]_vars
  BY ShellSteps DEF SessionOk
<1> QED BY <1>1, <1>2, SInitOk, SNextOk, PTL DEF SSpec, Spec

(* A line prints what its commands stand for, also those that programs run *)
(* as their children, whatever ran before and is left in the buffers, as   *)
(* long as each string that is copied meets a NUL behind it: for buffers,  *)
(* vectors and a number of processes of any size.                          *)
THEOREM LinesPrint == SSpec => []PrintsWhatIsAsked
<1>1. SessionOk => PrintsWhatIsAsked
  <2> SUFFICES ASSUME SessionOk, pc = "prompt", Terminated, ~ stale PROVE out = Said
    BY DEF PrintsWhatIsAsked
  <2>1. ran = Asked(line)
    BY DEF SessionOk, SplitOk, SplitInv
  <2>2. out = Printing(ran)
    BY DEF SessionOk, SessionInv
  <2> QED BY <2>1, <2>2 DEF Printing, Said
<1> QED BY <1>1, SInitOk, SNextOk, PTL DEF SSpec
=============================================================================
