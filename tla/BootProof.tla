------------------------------ MODULE BootProof ------------------------------
(***************************************************************************)
(* Boot (hosthal/init.c) for any host: the types of its variables, the     *)
(* table of mappings of host_vm_init (hosthal/exn.c), and the root file    *)
(* system: the arithmetic of sizes and pages, the comparison of names, and *)
(* what each action of the loader does to the memory of programs           *)
(* (kernel/ksys.c).                                                        *)
(***************************************************************************)
EXTENDS Boot, WellFoundedInduction, NaturalsInduction, SequenceTheorems, TLAPS
-----------------------------------------------------------------------------
(* Integers: division by a symbolic modulus.                               *)
LEMMA DivMod ==
  ASSUME NEW a \in Int, NEW m \in Nat \ {0}
  PROVE  /\ a \div m \in Int
         /\ a % m \in 0 .. m - 1
         /\ a = m * (a \div m) + (a % m)
<1>1. a \div m \in Int
  OBVIOUS
<1>2. a % m \in 0 .. m - 1
  OBVIOUS
<1>3. a = m * (a \div m) + (a % m)
  OBVIOUS
<1> QED BY <1>1, <1>2, <1>3

LEMMA SmallMod ==
  ASSUME NEW m \in Nat \ {0}, NEW a \in 0 .. m - 1
  PROVE  a % m = a /\ a \div m = 0
  OBVIOUS

LEMMA DivUnique ==
  ASSUME NEW m \in Nat \ {0}, NEW q \in Int, NEW r \in 0 .. m - 1
  PROVE  (m * q + r) \div m = q /\ (m * q + r) % m = r
  OBVIOUS

LEMMA MultLess ==
  ASSUME NEW m \in Nat \ {0}, NEW q \in Int, NEW p \in Int, m * q < m * p + m
  PROVE  q <= p
  OBVIOUS

LEMMA MultMono ==
  ASSUME NEW m \in Nat \ {0}, NEW q \in Int, NEW p \in Int, q <= p
  PROVE  m * q <= m * p
  OBVIOUS

(* A nonempty set of numbers has a least element; so a set that holds 0    *)
(* and each successor holds all.                                           *)
LEMMA LeastElement ==
  ASSUME NEW T, T \subseteq Nat, T # {}
  PROVE  \E x \in T : \A y \in T : x <= y
<1> DEFINE R == {ss \in Nat \X Nat : ss[1] < ss[2]}
<1>1. IsWellFoundedOn(R, Nat)
  BY NatLessThanWellFounded DEF OpToRel
<1> HIDE DEF R
<1>2. PICK x \in T : \A y \in T : <<y, x>> \notin R
  BY <1>1, WFMin, Zenon
<1>3. ASSUME NEW y \in T PROVE ~ (y < x)
  BY <1>2 DEF R
<1> QED BY <1>2, <1>3

LEMMA Induction ==
  ASSUME NEW S, 0 \in S, \A n \in Nat : n \in S => n + 1 \in S
  PROVE  Nat \subseteq S
<1> SUFFICES ASSUME Nat \ S # {} PROVE FALSE
  OBVIOUS
<1>1. PICK x \in Nat \ S : \A y \in Nat \ S : x <= y
  <2>1. Nat \ S \subseteq Nat
    OBVIOUS
  <2> QED BY <2>1, LeastElement, Zenon
<1>2. x # 0
  BY <1>1
<1>3. x - 1 \in Nat /\ x - 1 < x
  BY <1>1, <1>2
<1>4. x - 1 \in S
  BY <1>1, <1>3
<1> QED BY <1>1, <1>3, <1>4
-----------------------------------------------------------------------------
(* Widths, and the memory in pages.                                        *)
Pages == MemBytes \div PageSize

LEMMA Widths ==
  /\ Half \in Nat \ {0} /\ Word \in Nat \ {0} /\ Long \in Nat \ {0}
  /\ 2 * Half <= Word /\ Word <= Long
<1>1. Half \in Nat /\ Half >= 2
  BY CTypesAssumption
<1>2. Word \in Nat /\ Word >= 4 /\ 2 * Half <= Word
  BY <1>1 DEF Word
<1> HIDE DEF Word
<1>3. Long \in Nat /\ Word <= Long
  BY <1>2 DEF Long
<1> QED BY <1>1, <1>2, <1>3

LEMMA PageArith ==
  /\ PageSize \in Nat \ {0} /\ MemBytes \in Nat \ {0} /\ StackBytes \in Nat \ {0}
  /\ Pages \in Nat \ {0} /\ MemBytes = PageSize * Pages
  /\ PageSize <= MemBytes /\ MemBytes + PageSize < Word
  /\ \E q \in Nat : StackBytes = PageSize * q
<1>1. /\ PageSize \in Nat \ {0} /\ MemBytes \in Nat \ {0} /\ StackBytes \in Nat \ {0}
      /\ MemBytes % PageSize = 0 /\ StackBytes % PageSize = 0
  BY RootFsAssumption
<1>2. Pages \in Int /\ MemBytes = PageSize * Pages
  BY <1>1, DivMod DEF Pages
<1>3. Pages > 0
  <2>1. SUFFICES ASSUME Pages <= 0 PROVE FALSE
    BY <1>2
  <2>2. PageSize * Pages <= PageSize * 0
    BY <1>1, <1>2, <2>1, MultMono
  <2> QED BY <1>1, <1>2, <2>2
<1>4. PageSize * 1 <= PageSize * Pages
  BY <1>1, <1>2, <1>3, MultMono
<1>5. PageSize <= MemBytes
  BY <1>1, <1>2, <1>4
<1>6. MemBytes + PageSize < Word
  BY <1>1, <1>5, Widths, RootFsAssumption
<1>7. StackBytes \div PageSize \in Nat /\ StackBytes = PageSize * (StackBytes \div PageSize)
  <2>1. StackBytes \div PageSize \in Int /\ StackBytes = PageSize * (StackBytes \div PageSize)
    BY <1>1, DivMod
  <2>2. StackBytes \div PageSize >= 0
    <3>1. SUFFICES ASSUME StackBytes \div PageSize <= -1 PROVE FALSE
      BY <2>1
    <3>2. PageSize * (StackBytes \div PageSize) <= PageSize * (-1)
      BY <1>1, <2>1, <3>1, MultMono
    <3> QED BY <1>1, <2>1, <3>2
  <2> QED BY <2>1, <2>2
<1>8. \E q \in Nat : StackBytes = PageSize * q
  BY <1>7
<1> QED BY <1>1, <1>2, <1>3, <1>5, <1>6, <1>8

(* align rounds up to a multiple, where nothing is lost.                   *)
LEMMA AlignLemma ==
  ASSUME NEW v \in Nat, NEW mask \in Nat, v + mask < Word
  PROVE  /\ align(v, mask) = (mask + 1) * ((v + mask) \div (mask + 1))
         /\ align(v, mask) \in v .. v + mask
         /\ (v + mask) \div (mask + 1) \in Nat
<1> DEFINE w == v + mask
<1> DEFINE d == w \div (mask + 1)
<1>1. w % Long = w /\ w % Word = w
  BY Widths, SmallMod
<1>2. d \in Int /\ w % (mask + 1) \in 0 .. mask /\ w = (mask + 1) * d + (w % (mask + 1))
  <2> DEFINE m == mask + 1
  <2>1. w \in Int /\ m \in Nat \ {0} /\ m - 1 = mask
    OBVIOUS
  <2> HIDE DEF w, m
  <2>2. w \div m \in Int /\ w % m \in 0 .. m - 1 /\ w = m * (w \div m) + (w % m)
    BY <2>1, DivMod
  <2> QED BY <2>1, <2>2 DEF m
<1>3. align(v, mask) = w - (w % (mask + 1))
  BY <1>1 DEF align
<1>4. d >= 0
  <2>1. SUFFICES ASSUME d <= -1 PROVE FALSE
    BY <1>2
  <2>2. (mask + 1) * d <= (mask + 1) * (-1)
    BY <1>2, <2>1, MultMono
  <2> QED BY <1>2, <2>2
<1> HIDE DEF d
<1>5. align(v, mask) = (mask + 1) * d /\ align(v, mask) \in v .. v + mask
  BY <1>2, <1>3
<1> QED BY <1>2, <1>4, <1>5 DEF d

LEMMA SignedLemma ==
  ASSUME NEW v \in Nat, 2 * v < Word
  PROVE  Signed(v) = v
<1>1. v % Word = v
  BY Widths, SmallMod
<1> QED BY <1>1, Widths DEF Signed
-----------------------------------------------------------------------------
(* The pages v bytes fill.                                                 *)
PagesOf(v) == (v + PageSize - 1) \div PageSize

LEMMA PagesOfLemma ==
  ASSUME NEW v \in Nat
  PROVE  /\ PagesOf(v) \in Nat
         /\ PageSize * PagesOf(v) \in v .. v + PageSize - 1
<1> DEFINE w == v + PageSize - 1
           d == w \div PageSize
<1>1. w \in Int /\ PageSize \in Nat \ {0}
  BY PageArith
<1> HIDE DEF w
<1>2. d \in Int /\ w % PageSize \in 0 .. PageSize - 1 /\ w = PageSize * d + (w % PageSize)
  BY <1>1, DivMod
<1> HIDE DEF d
<1>3. PageSize * d \in v .. v + PageSize - 1
  BY <1>1, <1>2 DEF w
<1>4. d >= 0
  <2>1. SUFFICES ASSUME d <= -1 PROVE FALSE
    BY <1>2
  <2>2. PageSize * d <= PageSize * (-1)
    BY <1>1, <1>2, <2>1, MultMono
  <2> QED BY <1>1, <1>3, <2>2
<1> QED BY <1>2, <1>3, <1>4 DEF d, w, PagesOf

(* A segment of v bytes is loaded behind q pages: it fits, in bytes, when  *)
(* its pages do, and then no width matters.                                *)
Size32(v) == Signed(align(v, PageSize - 1))
Alloc(bp, v) == Buf!alloc(bp, Size32(v))
FitsBytes(bp, v) == Alloc(bp, v).ret # NULL /\ Alloc(bp, v).ret + v <= Buf!MemEnd

LEMMA SizeLemma ==
  ASSUME NEW v \in Nat, v <= MemBytes
  PROVE  Size32(v) = PageSize * PagesOf(v) /\ Size32(v) \in v .. v + PageSize - 1
<1>1. PageSize - 1 \in Nat /\ v + (PageSize - 1) < Word /\ PageSize - 1 + 1 = PageSize
  BY PageArith, Widths
<1>2. v + (PageSize - 1) = v + PageSize - 1
  BY <1>1
<1>3. align(v, PageSize - 1) = PageSize * PagesOf(v)
  BY <1>1, <1>2, AlignLemma DEF PagesOf
<1>4. PageSize * PagesOf(v) <= MemBytes
  <2>1. /\ PagesOf(v) \in Int /\ Pages \in Int /\ PageSize \in Nat \ {0}
        /\ PageSize * PagesOf(v) < PageSize * Pages + PageSize
    BY PagesOfLemma, PageArith
  <2>2. PagesOf(v) <= Pages
    BY <2>1, MultLess
  <2>3. PageSize * PagesOf(v) <= PageSize * Pages
    BY <2>1, <2>2, MultMono
  <2> QED BY <2>3, PageArith
<1>5. PageSize * PagesOf(v) \in Nat /\ 2 * (PageSize * PagesOf(v)) < Word
  <2>1. PageSize * PagesOf(v) >= v /\ PageSize * PagesOf(v) \in Int
    BY PagesOfLemma, PageArith
  <2>2. MemBytes \in Nat /\ Word \in Nat /\ 2 * MemBytes < Word
    BY Widths, RootFsAssumption
  <2> QED BY <1>4, <2>1, <2>2
<1>6. Size32(v) = PageSize * PagesOf(v)
  BY <1>3, <1>5, SignedLemma DEF Size32
<1> QED BY <1>6, PagesOfLemma

LEMMA LoadArith ==
  ASSUME NEW bp, NEW q \in 0 .. Pages, Buf!allocinit(bp) = PageSize * q + 1,
         NEW v \in Nat
  PROVE  /\ FitsBytes(bp, v) <=> q + PagesOf(v) <= Pages
         /\ FitsBytes(bp, v) =>
              /\ v <= MemBytes
              /\ Alloc(bp, v).ret = PageSize * q + 1
              /\ Alloc(bp, v).bp = PageSize * (q + PagesOf(v)) + 1
              /\ PageSize * (q + PagesOf(v)) = PageSize * q + Size32(v)
<1> DEFINE n == PagesOf(v)
           p == PageSize * q + 1
<1>1. /\ n \in Nat /\ PageSize * n \in v .. v + PageSize - 1
      /\ PageSize \in Nat \ {0} /\ Pages \in Nat /\ MemBytes \in Nat
      /\ MemBytes = PageSize * Pages /\ PageSize * q \in Nat
      /\ PageSize * (q + n) = PageSize * q + PageSize * n
  <2>1. /\ n \in Nat /\ PageSize * n \in v .. v + PageSize - 1
        /\ PageSize \in Nat \ {0} /\ Pages \in Nat /\ MemBytes \in Nat
        /\ MemBytes = PageSize * Pages
    BY PagesOfLemma, PageArith
  <2>2. PageSize * q \in Nat
    BY <2>1
  <2>3. PageSize * (q + n) = PageSize * q + PageSize * n
    BY <2>1
  <2> QED BY <2>1, <2>2, <2>3
<1> HIDE DEF n
<1>2. /\ Buf!MemEnd = MemBytes + 1
      /\ Alloc(bp, v) = IF (MemBytes + 1) - p < Size32(v) THEN [ret |-> NULL, bp |-> p]
                        ELSE [ret |-> p, bp |-> p + Size32(v)]
  <2>1. Buf!MemEnd = MemBytes + 1
    BY <1>1 DEF Buf!MemEnd, Buf!MemBase
  <2>2. Buf!alloc(bp, Size32(v)) =
          IF (MemBytes + 1) - p < Size32(v) THEN [ret |-> Buf!NULL, bp |-> p]
          ELSE [ret |-> p, bp |-> p + Size32(v)]
    <3>1. Buf!alloc(bp, Size32(v)) =
            IF Buf!MemEnd - Buf!allocinit(bp) < Size32(v)
            THEN [ret |-> Buf!NULL, bp |-> Buf!allocinit(bp)]
            ELSE [ret |-> Buf!allocinit(bp), bp |-> Buf!allocinit(bp) + Size32(v)]
      BY DEF Buf!alloc
    <3>2. Buf!allocinit(bp) = p
      OBVIOUS
    <3> HIDE DEF p
    <3> QED BY <2>1, <3>1, <3>2, Zenon
  <2> QED BY <2>1, <2>2 DEF Alloc, Buf!NULL, NULL
<1>3. p # NULL /\ p \in Nat
  BY <1>1 DEF NULL
<1>4. ASSUME FitsBytes(bp, v)
      PROVE  v <= MemBytes /\ Alloc(bp, v).ret = p /\ p + v <= MemBytes + 1
  BY <1>1, <1>2, <1>3, <1>4 DEF FitsBytes
<1>5. ASSUME v <= MemBytes, PageSize * q + v <= MemBytes
      PROVE  q + n <= Pages
  <2>1. q + n \in Int /\ PageSize * (q + n) < PageSize * Pages + PageSize
    BY <1>1, <1>5
  <2> QED BY <1>1, <2>1, MultLess
<1>6. ASSUME q + n <= Pages
      PROVE  /\ v <= MemBytes /\ PageSize * q + v <= MemBytes
             /\ FitsBytes(bp, v)
             /\ Alloc(bp, v).bp = PageSize * (q + n) + 1
             /\ PageSize * (q + n) = PageSize * q + Size32(v)
  <2>1. PageSize * (q + n) <= PageSize * Pages
    BY <1>1, <1>6, MultMono
  <2>2. v <= MemBytes /\ PageSize * q + v <= MemBytes
    BY <1>1, <2>1
  <2>3. Size32(v) = PageSize * n
    BY <2>2, SizeLemma DEF n
  <2>4. ~ ((MemBytes + 1) - p < Size32(v))
    BY <1>1, <2>1, <2>3
  <2>5. Alloc(bp, v) = [ret |-> p, bp |-> p + Size32(v)]
    BY <1>2, <2>4
  <2>6. p + Size32(v) = PageSize * (q + n) + 1
    BY <1>1, <2>3
  <2> QED BY <1>1, <1>2, <1>3, <2>2, <2>3, <2>5, <2>6 DEF FitsBytes
<1>7. FitsBytes(bp, v) => q + n <= Pages
  BY <1>1, <1>4, <1>5
<1> QED BY <1>4, <1>6, <1>7 DEF n
-----------------------------------------------------------------------------
(* A file load accepts: its first loaded segment, and an entry inside it.  *)
LEMMA LoadHdrLemma ==
  ASSUME NEW e, e.phnum \in Nat, LoadHdr(e) # 0
  PROVE  LoadHdr(e) \in 1 .. e.phnum /\ e.phdrs[LoadHdr(e)].load
<1> DEFINE loads == {i \in 1 .. e.phnum : e.phdrs[i].load}
<1>1. LoadHdr(e) = IF loads = {} THEN 0 ELSE CHOOSE i \in loads : \A j \in loads : i <= j
  BY DEF LoadHdr
<1>2. loads # {} /\ loads \subseteq Nat
  BY <1>1
<1>3. \E i \in loads : \A j \in loads : i <= j
  <2> HIDE DEF loads
  <2> QED BY <1>2, LeastElement
<1>4. LoadHdr(e) \in loads
  <2> HIDE DEF loads
  <2> QED BY <1>1, <1>2, <1>3
<1> QED BY <1>4

LEMMA AcceptsLemma ==
  ASSUME NEW e, ElfFields(e), Accepts(e), NEW l, l = e.phdrs[LoadHdr(e)]
  PROVE  /\ l.memsz \in Nat \ {0} /\ l.filesz \in 0 .. l.memsz
         /\ l.offset \in Nat /\ l.vaddr \in Nat
         /\ e.first \in Nat /\ e.entry \in Nat
         /\ e.entry - l.vaddr \in 0 .. l.memsz - 1
<1>1. LoadHdr(e) \in 1 .. e.phnum /\ l.load
  BY LoadHdrLemma DEF Accepts, ElfFields
<1>2. /\ {l.vaddr, l.offset, l.memsz} \subseteq 0 .. Long - 1
      /\ l.filesz \in 0 .. l.memsz
      /\ e.first \in Nat /\ e.entry \in 0 .. Long - 1
  BY <1>1 DEF ElfFields
<1>3. l.vaddr \in Nat /\ l.offset \in Nat /\ l.memsz \in Nat /\ e.entry \in Nat
  BY <1>2, Widths
<1>4. e.entry >= l.vaddr /\ (l.vaddr + l.memsz) % Long > e.entry
  BY DEF Accepts
<1>5. (l.vaddr + l.memsz) % Long <= l.vaddr + l.memsz
  <2> DEFINE s == l.vaddr + l.memsz
  <2>1. s \in Nat
    BY <1>3
  <2> HIDE DEF s
  <2>2. s % Long <= s
    BY <2>1, Widths
  <2> QED BY <2>2 DEF s
<1>6. (l.vaddr + l.memsz) % Long \in Int
  BY <1>3, Widths
<1>7. e.entry < l.vaddr + l.memsz
  BY <1>3, <1>4, <1>5, <1>6
<1> QED BY <1>2, <1>3, <1>4, <1>7

(* The text of program p in the memory m is the segment of its file, with  *)
(* zeros behind it, in whole pages.                                        *)
Text(m, p, e) ==
  LET l == e.phdrs[LoadHdr(e)]
  IN /\ l.memsz \in Nat
     /\ p.loadsz % PageSize = 0
     /\ p.loadsz - l.memsz \in 0 .. PageSize - 1
     /\ p.entry \in p.load .. p.load + l.memsz - 1
     /\ \A i \in 0 .. l.memsz - 1 :
          m[p.load + i] = IF i < l.filesz THEN e.first + l.offset + i ELSE 0

LEMMA TextKept ==
  ASSUME NEW m, NEW n, NEW p, NEW e, NEW end \in Int, Text(m, p, e),
         p.load \in Nat, p.loadsz \in Nat, p.load + p.loadsz <= end,
         \A a \in p.load .. end - 1 : n[a] = m[a]
  PROVE  Text(n, p, e)
<1> DEFINE sz == e.phdrs[LoadHdr(e)].memsz
<1>1. sz \in Nat /\ sz <= p.loadsz
  BY DEF Text
<1>2. \A i \in 0 .. sz - 1 : p.load + i \in p.load .. end - 1
  BY <1>1
<1>3. \A i \in 0 .. sz - 1 : n[p.load + i] = m[p.load + i]
  BY <1>2
<1> QED BY <1>3 DEF Text

LEMMA ImageLemma ==
  ASSUME NEW e, NEW l, NEW p \in Nat \ {0}, DOMAIN kmem = 1 .. MemBytes,
         l.memsz \in Nat, l.filesz \in 0 .. l.memsz, l.offset \in Nat,
         e.first \in Nat
  PROVE  /\ DOMAIN Image(e, l, p) = 1 .. MemBytes
         /\ \A a \in 1 .. MemBytes : a < p => Image(e, l, p)[a] = kmem[a]
         /\ p + l.memsz <= MemBytes + 1 /\ ~ Wraps(p, l.memsz) =>
              \A i \in 0 .. l.memsz - 1 :
                Image(e, l, p)[p + i] = IF i < l.filesz THEN e.first + l.offset + i ELSE 0
<1> DEFINE w == [i \in 1 .. l.filesz |-> e.first + l.offset + i - 1]
           c == memset(kmem, p, 0, l.memsz)
<1>1. MemBytes \in Nat
  BY PageArith
<1>2. /\ DOMAIN c = 1 .. MemBytes
      /\ \A a \in 1 .. MemBytes : a < p => c[a] = kmem[a]
      /\ ~ Wraps(p, l.memsz) =>
           \A a \in 1 .. MemBytes : a \in p .. p + l.memsz - 1 => c[a] = 0
  <2> DEFINE z == Base + p + l.memsz
             end == z % Long
  <2>1. c = [a \in 1 .. MemBytes |-> IF p <= a /\ Base + a < end THEN 0 ELSE kmem[a]]
    BY DEF memset
  <2>2. z \in Nat /\ Base \in Nat
    BY RootFsAssumption
  <2>3. ASSUME ~ Wraps(p, l.memsz)
        PROVE  end = Base + p + l.memsz
    <3>1. z \in 0 .. Long - 1
      BY <2>2, <2>3, Widths DEF Wraps, NULL
    <3> HIDE DEF z
    <3>2. end = z
      BY <3>1, Widths, SmallMod
    <3> QED BY <3>2 DEF z
  <2> HIDE DEF end, c
  <2>4. \A a \in 1 .. MemBytes : a < p => c[a] = kmem[a]
    BY <2>1
  <2> QED BY <2>1, <2>2, <2>3, <2>4
<1>3. Len(w) = l.filesz
  <2>1. w \in Seq(Int)
    <3>1. l.filesz \in Nat /\ e.first + l.offset \in Int
      OBVIOUS
    <3>2. w \in [1 .. l.filesz -> Int]
      BY <3>1
    <3> HIDE DEF w
    <3> QED BY <3>1, <3>2 DEF Seq
  <2>2. DOMAIN w = 1 .. l.filesz /\ l.filesz \in Nat
    OBVIOUS
  <2> QED BY <2>1, <2>2
<1>4. Image(e, l, p) = [a \in DOMAIN c |-> IF a \in p .. p + Len(w) - 1
                                           THEN w[a - p + 1] ELSE c[a]]
  BY DEF Image, memcpy
<1>5. ASSUME NEW i \in 0 .. l.filesz - 1
      PROVE  w[p + i - p + 1] = e.first + l.offset + i
  <2>1. p + i - p + 1 = i + 1 /\ i + 1 \in 1 .. l.filesz
    OBVIOUS
  <2>2. w[i + 1] = e.first + l.offset + (i + 1) - 1
    BY <2>1
  <2> QED BY <2>1, <2>2
<1> HIDE DEF c, w
<1>6. DOMAIN Image(e, l, p) = 1 .. MemBytes
  BY <1>2, <1>4
<1>7. ASSUME NEW a \in 1 .. MemBytes, a < p
      PROVE  Image(e, l, p)[a] = kmem[a]
  <2>1. a \notin p .. p + Len(w) - 1
    BY <1>3, <1>7
  <2> QED BY <1>2, <1>4, <1>7, <2>1
<1>8. ASSUME NEW i \in 0 .. l.memsz - 1, p + l.memsz <= MemBytes + 1, ~ Wraps(p, l.memsz)
      PROVE  Image(e, l, p)[p + i] = IF i < l.filesz THEN e.first + l.offset + i ELSE 0
  <2>1. p + i \in 1 .. MemBytes /\ p + i \in p .. p + l.memsz - 1
    BY <1>1, <1>8
  <2>2. c[p + i] = 0
    BY <1>2, <1>8, <2>1
  <2>3. CASE i < l.filesz
    <3>1. i \in 0 .. l.filesz - 1 /\ p + i \in p .. p + Len(w) - 1
      BY <1>3, <2>3
    <3> QED BY <1>2, <1>4, <1>5, <2>1, <2>3, <3>1
  <2>4. CASE ~ (i < l.filesz)
    <3>1. p + i \notin p .. p + Len(w) - 1
      BY <1>3, <2>4
    <3> QED BY <1>2, <1>4, <2>1, <2>2, <2>4, <3>1
  <2> QED BY <2>3, <2>4
<1> QED BY <1>6, <1>7, <1>8
-----------------------------------------------------------------------------
(* The archive in memory: headers at offsets from 0 on, each followed by   *)
(* the next, the trailer last.                                             *)
Archived ==
  /\ 0 \in DOMAIN rootfs /\ DOMAIN rootfs \subseteq Nat
  /\ \A a \in DOMAIN rootfs :
       /\ CString(rootfs[a].name) /\ ElfFields(rootfs[a].elf)
       /\ rootfs[a].name = Trailer => \A b \in DOMAIN rootfs : b <= a
       /\ rootfs[a].name # Trailer =>
            /\ cpio_next(a) \in DOMAIN rootfs
            /\ \A b \in DOMAIN rootfs : b <= a \/ cpio_next(a) <= b

(* The walk: at a header, all before it without the name; strcmp looks at  *)
(* C strings.                                                              *)
Holding == {"load", "stack", "started", "killed", "astray"}
WalkInv ==
  fpc # "idle" =>
    /\ Archived
    /\ CString(name)
    /\ cph \in DOMAIN rootfs
    /\ \A a \in DOMAIN rootfs : a < cph => rootfs[a].name # name
    /\ fpc \in Holding => rootfs[cph].name = name
    /\ fpc = "failed" => rootfs[cph].name \in {name, Trailer}
    /\ rootfs[cph].name = Trailer => fpc \in {"find", "failed"}

(* Where the memory taken by the programs started ends, and execbufp or a  *)
(* mark that stands there: NULL before the first.                          *)
Top == IF alive = <<>> THEN 1 ELSE alive[Len(alive)].p.stack + StackBytes
AtTop(bp) == bp = Top \/ (bp = NULL /\ alive = <<>>)
PageEnd(a) == \E q \in 0 .. Pages : a = PageSize * q + 1

Progs == [load : Nat, loadsz : Nat, entry : Nat, stack : Nat]
Started == [p : Progs, file : {rootfs[a] : a \in DOMAIN rootfs}]

(* The programs started are stacked, each text and its stack behind the    *)
(* last one's, and whole; execbufp and the mark stand at their end, except *)
(* between a load and its stack, where the new text lies behind it.        *)
(* This is so while memset has reached the end of each segment: FsTypes    *)
(* alone holds once one has reached past the last address.                 *)
MemInv ==
  /\ fpc \in {"idle", "find", "load", "stack", "started", "failed", "killed"}
  /\ DOMAIN kmem = 1 .. MemBytes
  /\ alive \in Seq(Started)
  /\ PageEnd(Top)
  /\ \A k \in 1 .. Len(alive) :
       LET p == alive[k].p
       IN /\ p.load = IF k = 1 THEN 1 ELSE alive[k - 1].p.stack + StackBytes
          /\ p.stack = p.load + p.loadsz
          /\ p.stack + StackBytes <= Top
          /\ Text(kmem, p, alive[k].file.elf)
  /\ mark \in 0 .. MemBytes + 1
  /\ fpc # "stack" => AtTop(execbufp)
  /\ fpc \in {"find", "load", "stack"} => AtTop(mark)
  /\ fpc = "stack" /\ Cleared(prog, rootfs[cph]) =>
       /\ prog \in Progs /\ prog.load <= MemBytes /\ prog.loadsz <= MemBytes
       /\ prog.load = Top /\ execbufp = prog.load + prog.loadsz
       /\ PageEnd(execbufp)
       /\ Text(kmem, prog, Elf)

AnyProg == [load : Int, loadsz : Int, entry : Int, stack : Int]
FsTypes ==
  /\ fpc \in {"idle", "find", "load", "stack", "started", "failed", "killed", "astray"}
  /\ execbufp \in Int /\ mark \in Int /\ prog \in AnyProg
  /\ DOMAIN kmem = 1 .. MemBytes
  /\ \E S : alive \in Seq(S)
FsInv == FsTypes /\ (AllCleared => MemInv)

LEMMA TopRange ==
  ASSUME PageEnd(Top)
  PROVE  Top \in 1 .. MemBytes + 1
<1>1. PICK q \in 0 .. Pages : Top = PageSize * q + 1
  BY DEF PageEnd
<1>2. PageSize * 0 <= PageSize * q /\ PageSize * q <= PageSize * Pages
  BY <1>1, PageArith, MultMono
<1> QED BY <1>1, <1>2, PageArith

(* Where execbufp stands at the end of the programs, an allocation starts  *)
(* there.                                                                  *)
LEMMA AllocAtTop ==
  ASSUME NEW bp, AtTop(bp), PageEnd(Top)
  PROVE  Buf!allocinit(bp) = Top /\ Buf!freemark(bp) = Top
<1>1. Top # NULL
  BY TopRange DEF NULL
<1>2. bp = NULL => Top = 1
  BY <1>1 DEF AtTop, Top
<1> QED BY <1>1, <1>2 DEF AtTop, Buf!allocinit, Buf!freemark, Buf!MemBase, Buf!NULL, NULL

(* A text below the end of the programs stays when nothing there changes.  *)
LEMMA TextBelow ==
  ASSUME MemInv, NEW k \in 1 .. Len(alive), NEW m,
         \A a \in 1 .. Top - 1 : m[a] = kmem[a]
  PROVE  Text(m, alive[k].p, alive[k].file.elf)
<1>1. Text(kmem, alive[k].p, alive[k].file.elf)
  BY DEF MemInv
<1>2. alive[k] \in Started
  BY DEF MemInv
<1>3. alive[k].p.load \in Nat /\ alive[k].p.loadsz \in Nat
  BY <1>2 DEF Started, Progs
<1>4. /\ alive[k].p.stack = alive[k].p.load + alive[k].p.loadsz
      /\ alive[k].p.stack + StackBytes <= Top
  BY DEF MemInv
<1>5. alive[k].p.load >= 1
  <2>1. alive[k].p.load = IF k = 1 THEN 1 ELSE alive[k - 1].p.stack + StackBytes
    BY DEF MemInv
  <2>2. CASE k = 1
    BY <2>1, <2>2
  <2>3. CASE k # 1
    <3>1. k - 1 \in 1 .. Len(alive)
      BY <2>3 DEF MemInv
    <3>2. alive[k - 1] \in Started
      BY <3>1 DEF MemInv
    <3>3. alive[k - 1].p.stack \in Nat
      BY <3>2 DEF Started, Progs
    <3> QED BY <2>1, <2>3, <3>3, PageArith
  <2> QED BY <2>2, <2>3
<1>6. Top \in 1 .. MemBytes + 1 /\ MemBytes \in Nat
  BY TopRange, PageArith DEF MemInv
<1>7. \A a \in alive[k].p.load .. Top - 1 : m[a] = kmem[a]
  BY <1>3, <1>5, <1>6
<1>8. alive[k].p.load + alive[k].p.loadsz <= Top /\ Top \in Int
  BY <1>3, <1>4, <1>6, PageArith
<1> QED BY <1>1, <1>3, <1>7, <1>8, TextKept

(* What a load does to the memory: a text behind the others.               *)
LEMMA LoadCopiesStep ==
  ASSUME MemInv, fpc = "load", Accepts(Elf), ElfFields(Elf), LoadCopies, fpc' # "astray"
  PROVE  MemInv'
<1> DEFINE l == Segment
           v == l.memsz
           sz == Size32(v)
<1>1. /\ v \in Nat \ {0} /\ l.filesz \in 0 .. v /\ l.offset \in Nat /\ l.vaddr \in Nat
      /\ Elf.first \in Nat /\ Elf.entry \in Nat
      /\ Elf.entry - l.vaddr \in 0 .. v - 1
  BY AcceptsLemma DEF Segment, SegmentOf
<1>2. PICK q \in 0 .. Pages : Top = PageSize * q + 1
  BY DEF MemInv, PageEnd
<1>3. Buf!allocinit(execbufp) = Top /\ AtTop(execbufp) /\ AtTop(mark)
  BY AllocAtTop DEF MemInv
<1>4. /\ Block = Alloc(execbufp, v) /\ loadsz = sz /\ Block.ret = Top
      /\ Block.ret # NULL /\ Fits /\ fpc' = "stack" /\ ~ Dies
  <2>1. Block = Alloc(execbufp, v) /\ loadsz = sz
    BY DEF Alloc, Size32, Block, loadsz
  <2>2. Fits /\ fpc' = "stack" /\ ~ Dies /\ Block.ret # NULL
    BY DEF LoadCopies, Dies
  <2>3. Block.ret = Top
    BY <1>3, <2>2 DEF Block, Buf!alloc, Buf!NULL, NULL
  <2> QED BY <2>1, <2>2, <2>3
<1>a. /\ Top \in 1 .. MemBytes + 1 /\ Top \in Nat \ {0} /\ MemBytes \in Nat
      /\ DOMAIN kmem = 1 .. MemBytes
  BY TopRange, PageArith DEF MemInv
<1>b. /\ execbufp' = Block.bp /\ kmem' = Image(Elf, l, Top)
      /\ prog' = [NoProg EXCEPT !.load = Top, !.loadsz = sz,
                                !.entry = Top + Elf.entry - l.vaddr]
      /\ alive' = alive /\ mark' = mark /\ rootfs' = rootfs /\ cph' = cph
  BY <1>4 DEF LoadCopies
<1>c. /\ DOMAIN kmem' = 1 .. MemBytes
      /\ \A a \in 1 .. Top - 1 : kmem'[a] = kmem[a]
      /\ Top + v <= MemBytes + 1 /\ ~ Wraps(Top, v) =>
           \A i \in 0 .. v - 1 :
             kmem'[Top + i] = IF i < l.filesz THEN Elf.first + l.offset + i ELSE 0
  <2>1. /\ Top \in Nat \ {0} /\ l.memsz \in Nat /\ l.filesz \in 0 .. l.memsz
        /\ l.offset \in Nat /\ Elf.first \in Nat
    BY <1>1, <1>a
  <2>2. \A a \in 1 .. Top - 1 : a \in 1 .. MemBytes /\ a < Top
    BY <1>a
  <2> HIDE DEF l
  <2>3. /\ DOMAIN Image(Elf, l, Top) = 1 .. MemBytes
        /\ \A a \in 1 .. MemBytes : a < Top => Image(Elf, l, Top)[a] = kmem[a]
        /\ Top + l.memsz <= MemBytes + 1 /\ ~ Wraps(Top, l.memsz) =>
             \A i \in 0 .. l.memsz - 1 :
               Image(Elf, l, Top)[Top + i] =
                 IF i < l.filesz THEN Elf.first + l.offset + i ELSE 0
    BY ONLY <1>a, <2>1, ImageLemma
  <2> QED BY ONLY <1>b, <2>2, <2>3 DEF v
<1>d. /\ Top' = Top /\ Elf' = Elf /\ Started' = Started
  BY <1>b DEF Top, Elf, Started, Progs
<1>e. ASSUME NEW k \in 1 .. Len(alive')
      PROVE  /\ alive'[k].p.load = IF k = 1 THEN 1 ELSE alive'[k - 1].p.stack + StackBytes
             /\ alive'[k].p.stack = alive'[k].p.load + alive'[k].p.loadsz
             /\ alive'[k].p.stack + StackBytes <= Top'
             /\ Text(kmem', alive'[k].p, alive'[k].file.elf)
  <2>1. k \in 1 .. Len(alive) /\ alive' = alive
    BY <1>b
  <2>2. Text(kmem', alive[k].p, alive[k].file.elf)
    BY <1>a, <1>c, <2>1, TextBelow
  <2> QED BY <1>d, <2>1, <2>2 DEF MemInv
<1>f. /\ alive' \in Seq(Started') /\ mark' \in 0 .. MemBytes + 1
      /\ AtTop(mark)' /\ PageEnd(Top)'
  BY <1>3, <1>b, <1>d DEF MemInv, AtTop, PageEnd, Pages
<1>g. ASSUME MemsetWraps
      PROVE  ~ Cleared(prog', rootfs'[cph'])
  <2>1. prog'.load = Top
    BY <1>b DEF NoProg
  <2>2. Wraps(Top, v)
    BY <1>4, <1>g DEF MemsetWraps
  <2> QED BY <1>b, <2>1, <2>2 DEF Cleared, Segment, SegmentOf, Elf
<1>h. CASE MemsetWraps
  BY <1>4, <1>c, <1>e, <1>f, <1>g, <1>h DEF MemInv
<1>i. SUFFICES ASSUME ~ MemsetWraps
               PROVE  MemInv'
  BY <1>h
<1>j. FitsBytes(execbufp, v) /\ ~ Wraps(Top, v)
  BY <1>4, <1>i DEF Fits, FitsBytes, MemsetWraps
<1>5. /\ v <= MemBytes
      /\ Block.bp = PageSize * (q + PagesOf(v)) + 1
      /\ PageSize * (q + PagesOf(v)) = PageSize * q + sz
      /\ q + PagesOf(v) \in 0 .. Pages
  BY <1>1, <1>2, <1>3, <1>4, <1>j, LoadArith, PagesOfLemma
<1>6. /\ sz = PageSize * PagesOf(v) /\ sz \in v .. v + PageSize - 1
      /\ PagesOf(v) \in Nat
  BY <1>1, <1>5, SizeLemma, PagesOfLemma
<1>7. sz \in Nat /\ sz % PageSize = 0 /\ sz - v \in 0 .. PageSize - 1
  <2>1. PageSize \in Nat \ {0}
    BY PageArith
  <2>2. PagesOf(v) \in Int /\ 0 \in 0 .. PageSize - 1
    BY <1>6, <2>1
  <2>3. (PageSize * PagesOf(v) + 0) % PageSize = 0
    BY ONLY <2>1, <2>2, DivUnique
  <2>4. PageSize * PagesOf(v) + 0 = PageSize * PagesOf(v)
    BY <2>1, <2>2
  <2>5. sz % PageSize = 0
    BY <1>6, <2>3, <2>4
  <2> HIDE DEF sz, v
  <2> QED BY <1>1, <1>6, <2>1, <2>5
<1>8. /\ Top \in 1 .. MemBytes + 1 /\ Top \in Nat \ {0}
      /\ Top + sz = Block.bp /\ Block.bp \in 1 .. MemBytes + 1
      /\ Top + v <= MemBytes + 1
  <2>1. PageSize * (q + PagesOf(v)) <= PageSize * Pages
    BY <1>5, PageArith, MultMono
  <2>2. MemBytes = PageSize * Pages /\ MemBytes \in Nat
    BY PageArith
  <2>3. Top \in 1 .. MemBytes + 1
    BY TopRange DEF MemInv
  <2>4. Top + sz = Block.bp
    BY <1>2, <1>5, <1>7, PageArith
  <2>5. Block.bp <= MemBytes + 1 /\ Block.bp \in Int
    <3> DEFINE x == PageSize * (q + PagesOf(v))
    <3>1. x \in Int /\ Block.bp = x + 1 /\ x <= MemBytes
      BY <1>5, <2>1, <2>2, PageArith
    <3> HIDE DEF x
    <3> QED BY <2>2, <3>1
  <2> HIDE DEF sz, v, l
  <2>6. v <= sz /\ v \in Nat /\ sz \in Nat /\ Top \in Nat \ {0}
    BY <1>1, <1>6, <1>7, <2>2, <2>3
  <2> QED BY <2>2, <2>3, <2>4, <2>5, <2>6
<1>11. Top + Elf.entry - l.vaddr \in Top .. Top + v - 1
  BY <1>1, <1>8
<1>12. /\ prog'.load = Top /\ prog'.loadsz = sz
       /\ prog'.entry = Top + Elf.entry - l.vaddr /\ prog' \in Progs
  <2>1. prog' = [load |-> Top, loadsz |-> sz, entry |-> Top + Elf.entry - l.vaddr,
                 stack |-> NULL]
    BY <1>b DEF NoProg
  <2> HIDE DEF sz, v, l
  <2> QED BY <2>1, <1>7, <1>8, <1>11 DEF Progs, NULL
<1>15. Text(kmem', prog', Elf)
  BY <1>1, <1>7, <1>8, <1>11, <1>12, <1>c, <1>j DEF Text, Segment, SegmentOf
<1>17. PageEnd(execbufp)'
  BY <1>5, <1>b DEF PageEnd, Pages
<1>18. /\ Top <= MemBytes /\ sz <= MemBytes
  <2> HIDE DEF sz, v, l
  <2>1. MemBytes \in Nat
    BY PageArith
  <2> QED BY <1>1, <1>7, <1>8, <2>1
<1>19. /\ prog' \in Progs /\ prog'.load <= MemBytes /\ prog'.loadsz <= MemBytes
       /\ prog'.load = Top' /\ execbufp' = prog'.load + prog'.loadsz
       /\ Text(kmem', prog', Elf')
  BY <1>8, <1>12, <1>15, <1>18, <1>b, <1>d
<1> QED BY <1>4, <1>17, <1>19, <1>c, <1>e, <1>f DEF MemInv

(* The stack is taken behind the text: a program more is started.          *)
LEMMA StackTakenStep ==
  ASSUME MemInv, cph \in DOMAIN rootfs, StackTaken, Cleared(prog, rootfs[cph])
  PROVE  MemInv'
<1> DEFINE b == Buf!alloc(execbufp, StackBytes)
           new == [p |-> prog', file |-> rootfs[cph]]
<1>1. /\ fpc = "stack" /\ b.ret # NULL /\ execbufp' = b.bp
      /\ prog' = [prog EXCEPT !.stack = b.ret] /\ alive' = Append(alive, new)
      /\ fpc' = "started"
      /\ rootfs' = rootfs /\ kmem' = kmem /\ mark' = mark /\ cph' = cph
  BY DEF StackTaken
<1>2. /\ prog \in Progs /\ prog.load = Top /\ execbufp = prog.load + prog.loadsz
      /\ prog.load <= MemBytes /\ prog.loadsz <= MemBytes
      /\ PageEnd(execbufp) /\ Text(kmem, prog, Elf)
      /\ alive \in Seq(Started) /\ DOMAIN kmem = 1 .. MemBytes
      /\ mark \in 0 .. MemBytes + 1
  BY <1>1 DEF MemInv
<1>3. Top \in 1 .. MemBytes + 1 /\ Top \in Nat
  BY TopRange DEF MemInv
<1>4. prog.load \in Nat /\ prog.loadsz \in Nat /\ prog.entry \in Nat
  BY <1>2 DEF Progs
<1>5. execbufp \in Nat \ {0} /\ Top <= execbufp
  BY <1>2, <1>3, <1>4
<1>6. b = IF Buf!MemEnd - execbufp < StackBytes THEN [ret |-> NULL, bp |-> execbufp]
          ELSE [ret |-> execbufp, bp |-> execbufp + StackBytes]
  <2>1. Buf!allocinit(execbufp) = execbufp
    BY <1>5 DEF Buf!allocinit, Buf!NULL
  <2> QED BY <2>1 DEF Buf!alloc, Buf!NULL, NULL
<1>7. /\ b.ret = execbufp /\ b.bp = execbufp + StackBytes
      /\ execbufp + StackBytes <= MemBytes + 1
  <2>1. ~ (Buf!MemEnd - execbufp < StackBytes)
    BY <1>1, <1>6
  <2>2. Buf!MemEnd = MemBytes + 1
    BY PageArith DEF Buf!MemEnd, Buf!MemBase
  <2> HIDE DEF b
  <2> QED BY <1>5, <1>6, <2>1, <2>2, PageArith
<1> HIDE DEF b
<1>8. /\ prog' \in Progs /\ prog'.load = prog.load /\ prog'.loadsz = prog.loadsz
      /\ prog'.entry = prog.entry /\ prog'.stack = execbufp
  BY <1>1, <1>2, <1>5, <1>7 DEF Progs
<1>9. new \in Started
  BY <1>8 DEF Started
<1>10. /\ alive' \in Seq(Started) /\ Len(alive') = Len(alive) + 1
       /\ Len(alive) \in Nat
       /\ alive'[Len(alive) + 1] = new
       /\ \A k \in 1 .. Len(alive) : alive'[k] = alive[k]
       /\ alive' # <<>>
  BY <1>1, <1>2, <1>9
<1>11. Top' = execbufp + StackBytes
  <2>1. alive'[Len(alive')].p.stack = execbufp
    BY <1>8, <1>10
  <2> QED BY <1>10, <2>1 DEF Top
<1>12. PageEnd(Top)'
  <2>1. PICK q \in 0 .. Pages : execbufp = PageSize * q + 1
    BY <1>2 DEF PageEnd
  <2>2. PICK r \in Nat : StackBytes = PageSize * r
    BY PageArith
  <2>3. /\ q \in Int /\ r \in Int /\ PageSize \in Nat \ {0} /\ Pages \in Int
        /\ MemBytes = PageSize * Pages
    BY PageArith
  <2>4. PageSize * (q + r) = PageSize * q + PageSize * r
    BY <2>3
  <2>5. PageSize * (q + r) < PageSize * Pages + PageSize
    BY <1>7, <2>1, <2>2, <2>3, <2>4
  <2>6. q + r <= Pages
    <3>1. q + r \in Int
      BY <2>3
    <3> QED BY <2>3, <2>5, <3>1, MultLess
  <2>7. q + r \in 0 .. Pages /\ Top' = PageSize * (q + r) + 1
    BY <1>11, <2>1, <2>2, <2>3, <2>4, <2>6
  <2> QED BY <2>7 DEF PageEnd, Pages
<1>13. ASSUME NEW k \in 1 .. Len(alive')
       PROVE  /\ alive'[k].p.load = IF k = 1 THEN 1 ELSE alive'[k - 1].p.stack + StackBytes
              /\ alive'[k].p.stack = alive'[k].p.load + alive'[k].p.loadsz
              /\ alive'[k].p.stack + StackBytes <= Top'
              /\ Text(kmem', alive'[k].p, alive'[k].file.elf)
  <2>1. CASE k <= Len(alive)
    <3>1. k \in 1 .. Len(alive) /\ alive'[k] = alive[k]
      BY <1>10, <2>1
    <3>2. /\ alive[k].p.load = IF k = 1 THEN 1 ELSE alive[k - 1].p.stack + StackBytes
          /\ alive[k].p.stack = alive[k].p.load + alive[k].p.loadsz
          /\ alive[k].p.stack + StackBytes <= Top
          /\ Text(kmem, alive[k].p, alive[k].file.elf)
      BY <3>1 DEF MemInv
    <3>3. k # 1 => alive'[k - 1] = alive[k - 1]
      BY <1>10, <3>1
    <3>4. alive[k] \in Started
      BY <1>2, <3>1
    <3>5. alive[k].p.stack \in Nat
      BY <3>4 DEF Started, Progs
    <3>6. alive[k].p.stack + StackBytes <= Top'
      BY <1>3, <1>5, <1>11, <3>2, <3>5, PageArith
    <3> QED BY <1>1, <3>1, <3>2, <3>3, <3>6
  <2>2. CASE k > Len(alive)
    <3>1. k = Len(alive) + 1 /\ alive'[k] = new
      BY <1>10, <2>2
    <3>2. new.p = prog' /\ new.file = rootfs[cph]
      OBVIOUS
    <3>3. Text(kmem', prog', rootfs[cph].elf)
      BY <1>1, <1>2, <1>8 DEF Text, Elf
    <3>4. prog.load = IF k = 1 THEN 1 ELSE alive'[k - 1].p.stack + StackBytes
      <4>1. CASE k = 1
        BY <1>2, <1>10, <3>1, <4>1 DEF Top
      <4>2. CASE k # 1
        <5>1. k - 1 = Len(alive) /\ alive # <<>> /\ alive'[k - 1] = alive[k - 1]
          BY <1>2, <1>10, <3>1, <4>2
        <5> QED BY <1>2, <4>2, <5>1 DEF Top
      <4> QED BY <4>1, <4>2
    <3>5. execbufp + StackBytes <= Top' /\ execbufp = prog.load + prog.loadsz
      BY <1>2, <1>5, <1>11, PageArith
    <3> HIDE DEF new
    <3> QED BY <1>8, <3>1, <3>2, <3>3, <3>4, <3>5
  <2> QED BY <1>10, <2>1, <2>2
<1>14. Started' = Started
  BY <1>1 DEF Started, Progs
<1>15. execbufp' = Top'
  BY <1>1, <1>7, <1>11
<1>16. /\ alive' \in Seq(Started') /\ DOMAIN kmem' = 1 .. MemBytes
       /\ mark' \in 0 .. MemBytes + 1 /\ AtTop(execbufp)'
  BY <1>1, <1>2, <1>10, <1>14, <1>15 DEF AtTop
<1> QED BY <1>1, <1>12, <1>13, <1>16 DEF MemInv

(* What leaves the memory and the programs alone: the walk, a refusal, a   *)
(* call, and the stack that does not fit, which gives the text back.       *)
LEMMA SameMemory ==
  ASSUME MemInv, kmem' = kmem, alive' = alive, rootfs' = rootfs,
         AtTop(execbufp'), mark' \in 0 .. MemBytes + 1,
         fpc' \in {"find", "load"} => AtTop(mark'),
         fpc' \in {"idle", "find", "load", "started", "failed", "killed"}
  PROVE  MemInv'
<1>1. Top' = Top /\ Started' = Started
  BY DEF Top, Started, Progs
<1>2. AtTop(execbufp)' /\ (fpc' \in {"find", "load"} => AtTop(mark)')
  BY <1>1 DEF AtTop
<1>3. PageEnd(Top)'
  BY <1>1 DEF MemInv, PageEnd, Pages
<1>4. ASSUME NEW k \in 1 .. Len(alive')
      PROVE  /\ alive'[k].p.load = IF k = 1 THEN 1 ELSE alive'[k - 1].p.stack + StackBytes
             /\ alive'[k].p.stack = alive'[k].p.load + alive'[k].p.loadsz
             /\ alive'[k].p.stack + StackBytes <= Top'
             /\ Text(kmem', alive'[k].p, alive'[k].file.elf)
  BY <1>1 DEF MemInv
<1>5. DOMAIN kmem' = 1 .. MemBytes /\ alive' \in Seq(Started')
  BY <1>1 DEF MemInv
<1> QED BY <1>2, <1>3, <1>4, <1>5 DEF MemInv

LEMMA CallStep ==
  ASSUME MemInv, NEW n, (CallFirst(n) /\ alive = <<>>) \/ CallRun(n)
  PROVE  MemInv'
<1>1. /\ fpc = "idle" /\ kmem' = kmem /\ alive' = alive /\ rootfs' = rootfs
      /\ fpc' = "find"
  BY DEF CallFirst, CallRun, Call
<1>2. AtTop(execbufp) /\ PageEnd(Top) /\ Top \in 1 .. MemBytes + 1
  BY <1>1, TopRange DEF MemInv
<1>3. Buf!freemark(execbufp) = Top
  BY <1>2, AllocAtTop
<1>4. CASE CallFirst(n) /\ alive = <<>>
  <2>1. mark' = NULL /\ execbufp' = execbufp
    BY <1>4 DEF CallFirst, Call
  <2>2. AtTop(mark') /\ mark' \in 0 .. MemBytes + 1
    BY <1>2, <1>4, <2>1, PageArith DEF AtTop, NULL, MemInv
  <2> QED BY <1>1, <1>2, <2>1, <2>2, SameMemory
<1>5. CASE CallRun(n)
  <2>1. mark' = Top /\ execbufp' = Top
    BY <1>3, <1>5 DEF CallRun, Call
  <2>2. AtTop(mark') /\ AtTop(execbufp') /\ mark' \in 0 .. MemBytes + 1
    BY <1>2, <2>1, PageArith DEF AtTop
  <2> QED BY <1>1, <2>2, SameMemory
<1> QED BY <1>4, <1>5

LEMMA AllocInt ==
  ASSUME NEW bp \in Int, NEW sz \in Int
  PROVE  Buf!alloc(bp, sz).ret \in Int /\ Buf!alloc(bp, sz).bp \in Int
<1>1. Buf!MemEnd \in Int /\ Buf!allocinit(bp) \in Int
  BY PageArith DEF Buf!MemEnd, Buf!MemBase, Buf!allocinit
<1>2. Buf!allocinit(bp) + sz \in Int
  BY <1>1
<1> QED BY <1>1, <1>2 DEF Buf!alloc, Buf!NULL

LEMMA SizeInt == ASSUME NEW v \in Nat PROVE Size32(v) \in Int
<1> DEFINE m == PageSize - 1
           w == ((v + m) % Long) % Word
           a == w - (w % (m + 1))
           u == a % Word
<1>1. m \in Nat /\ m + 1 \in Nat \ {0} /\ v + m \in Int
  BY PageArith
<1>2. w \in Int
  <2>1. (v + m) % Long \in Int
    BY <1>1, Widths
  <2> QED BY <2>1, Widths
<1> HIDE DEF w, m
<1>3. a \in Int
  BY <1>1, <1>2
<1> HIDE DEF a
<1>4. u \in Int
  BY <1>3, Widths
<1> HIDE DEF u
<1>5. align(v, m) = a
  BY DEF align, a, w
<1>6. Signed(a) = IF 2 * u >= Word THEN u - Word ELSE u
  BY DEF Signed, u
<1> QED BY <1>4, <1>5, <1>6, Widths DEF Size32, m

LEMMA FsStepTypes ==
  ASSUME FsTypes, WalkInv, FsStep
  PROVE  FsTypes'
<1>1. CASE NotFound \/ Found \/ Seek \/ LoadRefuses \/ LoadKilled \/ StackFails
  BY <1>1 DEF NotFound, Found, Seek, LoadRefuses, LoadKilled, StackFails, Buf!freeup,
     FsTypes
<1>2. CASE LoadCopies
  <2>1. fpc = "load" /\ Accepts(Elf) /\ ElfFields(Elf)
    BY <1>2 DEF LoadCopies, WalkInv, Archived, Elf
  <2>2. /\ Segment.memsz \in Nat /\ Segment.filesz \in 0 .. Segment.memsz
        /\ Segment.offset \in Nat /\ Segment.vaddr \in Nat
        /\ Elf.first \in Nat /\ Elf.entry \in Nat
    <3> DEFINE e == Elf
    <3>1. Segment = e.phdrs[LoadHdr(e)] /\ ElfFields(e) /\ Accepts(e)
      BY <2>1 DEF Segment, SegmentOf
    <3> HIDE DEF e
    <3>2. /\ Segment.memsz \in Nat /\ Segment.filesz \in 0 .. Segment.memsz
          /\ Segment.offset \in Nat /\ Segment.vaddr \in Nat
          /\ e.first \in Nat /\ e.entry \in Nat
      BY <3>1, AcceptsLemma
    <3> QED BY <3>2 DEF e
  <2>3. loadsz \in Int
    BY <2>2, SizeInt DEF loadsz, Size32
  <2>4. Block.ret \in Int /\ Block.bp \in Int
    BY <2>3, AllocInt DEF Block, FsTypes
  <2>5. /\ execbufp' = Block.bp /\ kmem' = Image(Elf, Segment, Block.ret)
        /\ prog' = [load |-> Block.ret, loadsz |-> loadsz,
                    entry |-> Block.ret + Elf.entry - Segment.vaddr, stack |-> NULL]
        /\ fpc' \in {"stack", "astray"} /\ mark' = mark /\ alive' = alive
    BY <1>2 DEF LoadCopies, NoProg
  <2>6. prog' \in AnyProg
    <3> DEFINE x == Block.ret + Elf.entry - Segment.vaddr
    <3>1. x \in Int /\ NULL \in Int
      BY <2>2, <2>4 DEF NULL
    <3> HIDE DEF x
    <3> QED BY <2>3, <2>4, <2>5, <3>1 DEF AnyProg, x
  <2>7. DOMAIN kmem' = 1 .. MemBytes
    BY <2>5 DEF Image, memcpy, memset, FsTypes
  <2> QED BY <2>4, <2>5, <2>6, <2>7 DEF FsTypes
<1>3. CASE StackTaken
  <2> DEFINE b == Buf!alloc(execbufp, StackBytes)
             new == [p |-> prog', file |-> rootfs[cph]]
  <2>1. /\ execbufp' = b.bp /\ prog' = [prog EXCEPT !.stack = b.ret]
        /\ alive' = Append(alive, new) /\ fpc' = "started"
        /\ kmem' = kmem /\ mark' = mark
    BY <1>3 DEF StackTaken
  <2>2. b.ret \in Int /\ b.bp \in Int
    BY AllocInt, PageArith DEF FsTypes
  <2> HIDE DEF b, new
  <2>3. PICK S : alive \in Seq(S)
    BY DEF FsTypes
  <2>4. alive' \in Seq(S \cup {new})
    <3>1. alive \in Seq(S \cup {new})
      BY <2>3
    <3> QED BY <2>1, <3>1
  <2>5. prog' \in AnyProg
    BY <2>1, <2>2 DEF FsTypes, AnyProg
  <2>6. fpc' = "started" /\ execbufp' \in Int /\ mark' \in Int /\ DOMAIN kmem' = 1 .. MemBytes
    BY <2>1, <2>2 DEF FsTypes
  <2> QED BY <2>4, <2>5, <2>6 DEF FsTypes
<1> QED BY <1>1, <1>2, <1>3 DEF FsStep

(* Programs are only added to those that run: what memset cleared of them  *)
(* stays cleared.                                                          *)
LEMMA ClearedBefore ==
  ASSUME FsTypes, FsStep, AllCleared'
  PROVE  AllCleared /\ fpc' # "astray"
<1>1. fpc # "astray" /\ fpc' # "astray"
  BY DEF AllCleared, FsStep, NotFound, Found, Seek, LoadRefuses, LoadKilled, LoadCopies,
     StackTaken, StackFails
<1>2. \A k \in DOMAIN alive : k \in DOMAIN alive' /\ alive'[k] = alive[k]
  <2>1. CASE alive' = alive
    BY <2>1
  <2>2. CASE StackTaken
    <3>1. PICK S : alive \in Seq(S)
      BY DEF FsTypes
    <3> DEFINE new == [p |-> prog', file |-> rootfs[cph]]
    <3>2. alive' = Append(alive, new)
      BY <2>2 DEF StackTaken
    <3> HIDE DEF new
    <3>3. Len(alive) \in Nat /\ DOMAIN alive = 1 .. Len(alive)
      BY <3>1
    <3>4. /\ DOMAIN alive' = 1 .. Len(alive) + 1
          /\ \A k \in 1 .. Len(alive) : alive'[k] = alive[k]
      BY <3>1, <3>2
    <3> QED BY <3>3, <3>4
  <2> QED BY <2>1, <2>2 DEF FsStep, NotFound, Found, Seek, LoadRefuses, LoadKilled,
             LoadCopies, StackFails
<1>3. \A k \in DOMAIN alive : Cleared(alive[k].p, alive[k].file)
  BY <1>2 DEF AllCleared, Cleared
<1> QED BY <1>1, <1>3 DEF AllCleared

LEMMA FsStepMem ==
  ASSUME FsInv, WalkInv, FsStep
  PROVE  FsInv'
<1>0. fpc # "idle" => cph \in DOMAIN rootfs /\ ElfFields(Elf)
  BY DEF WalkInv, Archived, Elf
<1>t. FsTypes'
  BY FsStepTypes DEF FsInv
<1> SUFFICES ASSUME AllCleared'
             PROVE  MemInv'
  BY <1>t DEF FsInv
<1>m. MemInv /\ fpc' # "astray"
  BY ClearedBefore DEF FsInv
<1>1. CASE NotFound \/ Found \/ Seek \/ LoadRefuses \/ LoadKilled
  <2>1. /\ fpc \in {"find", "load"} /\ kmem' = kmem /\ alive' = alive
        /\ rootfs' = rootfs /\ execbufp' = execbufp /\ mark' = mark
        /\ fpc' \in {"find", "load", "failed", "killed"}
    BY <1>1 DEF NotFound, Found, Seek, LoadRefuses, LoadKilled
  <2>2. AtTop(execbufp) /\ AtTop(mark) /\ mark \in 0 .. MemBytes + 1
    BY <1>m, <2>1 DEF MemInv
  <2> QED BY <1>m, <2>1, <2>2, SameMemory
<1>2. CASE LoadCopies
  BY <1>0, <1>2, <1>m, LoadCopiesStep DEF LoadCopies
<1>3. CASE StackTaken
  <2>1. fpc = "stack" /\ cph \in DOMAIN rootfs
    BY <1>0, <1>3 DEF StackTaken
  <2>2. Cleared(prog, rootfs[cph])
    <3> DEFINE new == [p |-> prog', file |-> rootfs[cph]]
    <3>1. PICK S : alive \in Seq(S)
      BY DEF FsInv, FsTypes
    <3>2. alive' = Append(alive, new)
      BY <1>3 DEF StackTaken
    <3> HIDE DEF new
    <3>3. Len(alive) + 1 \in DOMAIN alive' /\ alive'[Len(alive) + 1] = new
      BY <3>1, <3>2
    <3>4. Cleared(prog', rootfs[cph])
      <4>1. new.p = prog' /\ new.file = rootfs[cph]
        BY DEF new
      <4> QED BY <3>3, <4>1 DEF AllCleared, Cleared
    <3>5. prog'.load = prog.load
      BY <1>3 DEF StackTaken, FsInv, FsTypes, AnyProg
    <3> QED BY <3>4, <3>5 DEF Cleared
  <2> QED BY <1>3, <1>m, <2>1, <2>2, StackTakenStep
<1>4. CASE StackFails
  <2>1. /\ fpc = "stack" /\ kmem' = kmem /\ alive' = alive
        /\ rootfs' = rootfs /\ execbufp' = mark /\ mark' = mark
        /\ fpc' = "failed"
    BY <1>4 DEF StackFails, Buf!freeup
  <2>2. AtTop(mark) /\ mark \in 0 .. MemBytes + 1
    BY <1>m, <2>1 DEF MemInv
  <2> QED BY <1>m, <2>1, <2>2, SameMemory
<1> QED BY <1>1, <1>2, <1>3, <1>4 DEF FsStep

(* A call, and the return from one: the loader is idle again.              *)
LEMMA CallMem ==
  ASSUME FsInv, NEW n, (CallFirst(n) /\ alive = <<>>) \/ CallRun(n)
  PROVE  FsInv'
<1>1. /\ fpc = "idle" /\ kmem' = kmem /\ alive' = alive /\ fpc' = "find"
      /\ prog' = NoProg
      /\ \/ mark' = NULL /\ execbufp' = execbufp
         \/ mark' = Buf!freemark(execbufp) /\ execbufp' = Buf!freemark(execbufp)
  BY DEF CallFirst, CallRun, Call
<1>2. Buf!freemark(execbufp) \in Int /\ NULL \in Int /\ NoProg \in AnyProg
  BY DEF FsInv, FsTypes, Buf!freemark, Buf!allocinit, Buf!MemBase, NULL, NoProg, AnyProg
<1>3. FsTypes'
  BY <1>1, <1>2 DEF FsInv, FsTypes
<1>4. AllCleared' => AllCleared
  BY <1>1 DEF AllCleared, Cleared
<1> QED BY <1>3, <1>4, CallStep DEF FsInv

LEMMA IdleAgain ==
  ASSUME FsInv, fpc \in {"started", "failed"}, fpc' = "idle",
         UNCHANGED <<rootfs, execbufp, kmem, mark, prog, alive>>
  PROVE  FsInv'
<1>1. FsTypes'
  BY DEF FsInv, FsTypes
<1>2. AllCleared' => AllCleared
  BY DEF AllCleared, Cleared
<1>3. ASSUME MemInv PROVE MemInv'
  <2>1. AtTop(execbufp) /\ mark \in 0 .. MemBytes + 1
    BY <1>3 DEF MemInv
  <2> QED BY <1>3, <2>1, SameMemory
<1> QED BY <1>1, <1>2, <1>3 DEF FsInv
-----------------------------------------------------------------------------
(* What the invariant gives: the types, whole programs, loads in pages.    *)
LEMMA MemTypes == FsInv => FsTypeOK
<1> SUFFICES ASSUME FsInv PROVE FsTypeOK
  OBVIOUS
<1>1. /\ execbufp \in Int /\ mark \in Int /\ DOMAIN kmem = 1 .. MemBytes
      /\ prog.load \in Int /\ prog.loadsz \in Int
      /\ fpc \in {"idle", "find", "load", "stack", "started", "failed", "killed", "astray"}
  BY DEF FsInv, FsTypes, AnyProg
<1>2. ASSUME Tidy
      PROVE  /\ execbufp \in 0 .. MemBytes + 1 /\ mark \in 0 .. MemBytes + 1
             /\ fpc = "stack" => prog.load \in 1 .. MemBytes /\ prog.loadsz \in 0 .. MemBytes
  <2>1. MemInv /\ (fpc = "stack" => Cleared(prog, rootfs[cph]))
    BY <1>2 DEF Tidy, FsInv
  <2>2. Top \in 1 .. MemBytes + 1 /\ MemBytes \in Nat
    BY <2>1, TopRange, PageArith DEF MemInv
  <2>3. mark \in 0 .. MemBytes + 1
    BY <2>1 DEF MemInv
  <2>4. CASE fpc # "stack"
    <3>1. execbufp = Top \/ execbufp = 0
      BY <2>1, <2>4 DEF MemInv, AtTop, NULL
    <3> QED BY <2>2, <2>3, <2>4, <3>1
  <2>5. CASE fpc = "stack"
    <3>1. /\ prog \in Progs /\ prog.load <= MemBytes /\ prog.loadsz <= MemBytes
          /\ prog.load = Top /\ PageEnd(execbufp)
      BY <2>1, <2>5 DEF MemInv
    <3>2. PICK q \in 0 .. Pages : execbufp = PageSize * q + 1
      BY <3>1 DEF PageEnd
    <3>3. PageSize * 0 <= PageSize * q /\ PageSize * q <= PageSize * Pages
      BY <3>2, PageArith, MultMono
    <3>4. execbufp \in 0 .. MemBytes + 1
      BY <3>2, <3>3, PageArith
    <3>5. prog.load \in Nat /\ prog.loadsz \in Nat
      BY <3>1 DEF Progs
    <3> QED BY <2>2, <2>3, <3>1, <3>4, <3>5
  <2> QED BY <2>4, <2>5
<1> QED BY <1>1, <1>2 DEF FsTypeOK

LEMMA MemWhole == FsInv => ProgramsAreWhole
<1> SUFFICES ASSUME MemInv, NEW k \in DOMAIN alive
             PROVE  LET p == alive[k].p
                        e == alive[k].file.elf
                        l == e.phdrs[LoadHdr(e)]
                    IN /\ p.load = IF k = 1 THEN 1 ELSE alive[k - 1].p.stack + StackBytes
                       /\ p.stack = p.load + p.loadsz
                       /\ p.loadsz % PageSize = 0
                       /\ p.loadsz - l.memsz \in 0 .. PageSize - 1
                       /\ p.stack + StackBytes <= MemBytes + 1
                       /\ p.entry \in p.load .. p.load + l.memsz - 1
                       /\ \A i \in 0 .. l.memsz - 1 :
                            kmem[p.load + i] =
                              IF i < l.filesz THEN e.first + l.offset + i ELSE 0
  BY DEF ProgramsAreWhole, FsInv, SegmentOf
<1>1. k \in 1 .. Len(alive) /\ alive[k] \in Started
  BY DEF MemInv
<1>2. alive[k].p.stack \in Nat
  BY <1>1 DEF Started, Progs
<1>3. /\ alive[k].p.load = IF k = 1 THEN 1 ELSE alive[k - 1].p.stack + StackBytes
      /\ alive[k].p.stack = alive[k].p.load + alive[k].p.loadsz
      /\ alive[k].p.stack + StackBytes <= Top
      /\ Text(kmem, alive[k].p, alive[k].file.elf)
  BY <1>1 DEF MemInv
<1>4. alive[k].p.stack + StackBytes <= MemBytes + 1
  <2>1. Top \in 1 .. MemBytes + 1
    BY TopRange DEF MemInv
  <2> QED BY <1>2, <1>3, <2>1, PageArith
<1> QED BY <1>3, <1>4 DEF Text

LEMMA PageOfLemma ==
  ASSUME NEW q \in Nat
  PROVE  PageOf(PageSize * q + 1) = q + 1
<1>1. PageSize \in Nat \ {0} /\ PageSize * q \in Nat
  BY PageArith
<1>2. (PageSize * q + 0) \div PageSize = q
  <2>1. q \in Int /\ 0 \in 0 .. PageSize - 1
    BY <1>1
  <2> QED BY <1>1, <2>1, DivUnique
<1>3. PageSize * q + 1 # NULL /\ (PageSize * q + 1) - 1 = PageSize * q + 0
  BY <1>1 DEF NULL
<1>4. PageOf(PageSize * q + 1) = ((PageSize * q + 0) \div PageSize) + 1
  BY <1>3 DEF PageOf
<1> QED BY <1>2, <1>4

LEMMA LoadPages ==
  ASSUME FsInv, WalkInv, FsStep, Tidy, fpc = "load", Accepts(Elf), ~ MemsetWraps
  PROVE  LET b == InPages!alloc(PageOf(execbufp),
                                (Segment.memsz + PageSize - 1) \div PageSize)
         IN IF b.ret = NULL THEN fpc' = "killed"
            ELSE /\ fpc' = "stack"
                 /\ PageOf(prog'.load) = b.ret
                 /\ PageOf(execbufp') = b.bp
<1> DEFINE v == Segment.memsz
           n == PagesOf(v)
           b == InPages!alloc(PageOf(execbufp), n)
<1>1. v \in Nat /\ n \in Nat
  <2>1. ElfFields(Elf)
    BY DEF WalkInv, Archived, Elf
  <2>2. v \in Nat
    BY <2>1, AcceptsLemma DEF Segment, SegmentOf
  <2> QED BY <2>2, PagesOfLemma
<1>m. MemInv
  BY DEF Tidy, FsInv
<1>2. PICK q \in 0 .. Pages : Top = PageSize * q + 1
  BY <1>m DEF MemInv, PageEnd
<1>3. AtTop(execbufp) /\ PageEnd(Top) /\ Buf!allocinit(execbufp) = Top
  BY <1>m, AllocAtTop DEF MemInv
<1>4. InPages!allocinit(PageOf(execbufp)) = q + 1
  <2>1. CASE execbufp = NULL
    <3>1. Top = 1
      BY <1>3, <2>1, TopRange DEF AtTop, Top, NULL
    <3>2. PageSize * q = PageSize * 0 /\ PageSize \in Nat \ {0} /\ q \in Int
      BY <1>2, <3>1, PageArith
    <3>3. q = 0
      <4>1. q <= 0
        BY <3>2, MultLess
      <4> QED BY <1>2, <4>1
    <3> QED BY <2>1, <3>3 DEF PageOf, InPages!allocinit, InPages!NULL, InPages!MemBase, NULL
  <2>2. CASE execbufp # NULL
    <3>1. execbufp = PageSize * q + 1
      BY <1>2, <1>3, <2>2 DEF AtTop
    <3>2. PageOf(execbufp) = q + 1
      BY <3>1, PageOfLemma
    <3> QED BY <3>2 DEF InPages!allocinit, InPages!NULL
  <2> QED BY <2>1, <2>2
<1>5. b = IF (1 + Pages) - (q + 1) < n THEN [ret |-> NULL, bp |-> q + 1]
          ELSE [ret |-> q + 1, bp |-> (q + 1) + n]
  BY <1>4 DEF InPages!alloc, InPages!MemEnd, InPages!MemBase, InPages!NULL, NULL, Pages
<1>6. /\ FitsBytes(execbufp, v) <=> q + n <= Pages
      /\ FitsBytes(execbufp, v) => Fits /\ ~ Dies
      /\ ~ FitsBytes(execbufp, v) => Dies
  <2>1. Block = Alloc(execbufp, v) /\ (Block.ret = NULL \/ Block.ret = Top)
    BY <1>3 DEF Alloc, Size32, Block, loadsz, Buf!alloc, Buf!NULL, NULL
  <2>2. /\ Top \in Nat \ {0} /\ Buf!MemBase = 1 /\ Buf!MemEnd \in Int
    BY <1>3, TopRange, PageArith DEF Buf!MemBase, Buf!MemEnd
  <2>3. FitsBytes(execbufp, v) <=> Block.ret # NULL /\ Block.ret + v <= Buf!MemEnd
    BY <2>1 DEF FitsBytes
  <2>4. Fits <=> Block.ret >= Buf!MemBase /\ Block.ret + v <= Buf!MemEnd
    BY DEF Fits
  <2>5. Dies <=> Block.ret = NULL \/ Block.ret + v > Buf!MemEnd
    BY DEF Dies
  <2>6. Block.ret # NULL => Block.ret = Top /\ Block.ret + v \in Int
    BY <1>1, <2>1, <2>2
  <2>7. FitsBytes(execbufp, v) <=> q + n <= Pages
    BY <1>1, <1>2, <1>3, LoadArith
  <2> QED BY <2>2, <2>3, <2>4, <2>5, <2>6, <2>7
<1>7. Pages \in Nat /\ q \in Nat /\ q + 1 # NULL
  BY PageArith DEF NULL
<1>8. CASE ~ (q + n <= Pages)
  <2>1. b.ret = NULL
    BY <1>1, <1>5, <1>7, <1>8
  <2>2. fpc' = "killed"
    BY <1>6, <1>8 DEF FsStep, NotFound, Found, Seek, LoadRefuses, LoadKilled, LoadCopies,
         StackTaken, StackFails
  <2> QED BY <2>1, <2>2 DEF PagesOf
<1>9. CASE q + n <= Pages
  <2>1. b.ret = q + 1 /\ b.bp = (q + n) + 1
    BY <1>1, <1>5, <1>7, <1>9
  <2>2. LoadCopies
    BY <1>6, <1>9 DEF FsStep, NotFound, Found, Seek, LoadRefuses, LoadKilled, LoadCopies,
         StackTaken, StackFails
  <2>3. Block.ret = Top /\ Block.bp = PageSize * (q + n) + 1
    <3>1. FitsBytes(execbufp, v) /\ Block = Alloc(execbufp, v)
      BY <1>6, <1>9 DEF Alloc, Size32, Block, loadsz
    <3> QED BY <1>1, <1>2, <1>3, <3>1, LoadArith
  <2>4. fpc' = "stack" /\ execbufp' = Block.bp /\ prog'.load = Block.ret
    BY <1>6, <1>9, <2>2 DEF LoadCopies, NoProg
  <2>5. PageOf(prog'.load) = q + 1
    BY <1>2, <1>7, <2>3, <2>4, PageOfLemma
  <2>6. PageOf(execbufp') = (q + n) + 1
    BY <1>1, <1>7, <2>3, <2>4, PageOfLemma
  <2>7. b.ret # NULL
    BY <1>7, <2>1
  <2> QED BY <2>1, <2>4, <2>5, <2>6, <2>7 DEF PagesOf
<1> QED BY <1>8, <1>9
-----------------------------------------------------------------------------
(* strcmp tells C strings apart.                                           *)
LEMMA StrcmpLemma ==
  ASSUME NEW s1, NEW s2, CString(s1), CString(s2)
  PROVE  strcmp(s1, s2) = 0 <=> s1 = s2
<1> DEFINE ends(i) == s1[i] = NUL \/ s1[i] # s2[i]
           first(i) == ends(i) /\ \A j \in 1 .. i - 1 : ~ ends(j)
           T == {i \in 1 .. Len(s1) : ends(i)}
           p == CHOOSE i \in DOMAIN s1 : first(i)
<1> USE DEF NUL
<1>1. /\ s1 \in Seq(Nat) /\ Len(s1) \in Nat \ {0} /\ s1[Len(s1)] = NUL
      /\ \A i \in 1 .. Len(s1) : s1[i] = NUL <=> i = Len(s1)
  BY DEF CString
<1>9. /\ s2 \in Seq(Nat) /\ Len(s2) \in Nat \ {0} /\ s2[Len(s2)] = NUL
      /\ \A i \in 1 .. Len(s2) : s2[i] = NUL <=> i = Len(s2)
  BY DEF CString
<1>2. \E i \in DOMAIN s1 : first(i)
  <2>1. T \subseteq Nat /\ Len(s1) \in T
    BY <1>1
  <2>2. PICK i \in T : \A j \in T : i <= j
    <3> HIDE DEF T
    <3> QED BY <2>1, LeastElement
  <2>3. i \in 1 .. Len(s1) /\ ends(i)
    BY <2>2
  <2>4. ASSUME NEW j \in 1 .. i - 1 PROVE ~ ends(j)
    BY <1>1, <2>2, <2>3
  <2> QED BY <1>1, <2>3, <2>4
<1>3. p \in 1 .. Len(s1) /\ ends(p) /\ \A j \in 1 .. p - 1 : ~ ends(j)
  <2> HIDE DEF ends
  <2>1. p \in DOMAIN s1 /\ first(p)
    <3> HIDE DEF first
    <3> QED BY <1>2
  <2> QED BY <1>1, <2>1
<1>4. strcmp(s1, s2) = s1[p] - s2[p]
  BY DEF strcmp
<1> HIDE DEF p
<1>5. ASSUME s1 = s2 PROVE s1[p] - s2[p] = 0
  BY <1>1, <1>3, <1>5
<1>6. ASSUME s1 # s2 PROVE s1[p] - s2[p] # 0
  <2>1. p <= Len(s2)
    <3>1. SUFFICES ASSUME Len(s2) \in 1 .. p - 1 PROVE FALSE
      BY <1>1, <1>9, <1>3
    <3>2. s1[Len(s2)] # NUL /\ s1[Len(s2)] = s2[Len(s2)]
      BY <1>3, <3>1
    <3> QED BY <1>1, <1>9, <3>2
  <2>2. s1[p] \in Nat /\ s2[p] \in Nat
    BY <1>1, <1>9, <1>3, <2>1
  <2>3. s1[p] # s2[p]
    <3>1. SUFFICES ASSUME s1[p] = s2[p] PROVE FALSE
      OBVIOUS
    <3>2. s1[p] = NUL /\ s2[p] = NUL
      BY <1>3, <3>1
    <3>3. p = Len(s1) /\ p = Len(s2)
      BY <1>1, <1>9, <1>3, <2>1, <3>2
    <3>4. \A i \in 1 .. Len(s1) : s1[i] = s2[i]
      BY <1>1, <1>3, <3>2, <3>3
    <3>5. s1 \in Seq(Nat) /\ s2 \in Seq(Nat)
      BY <1>1, <1>9
    <3>6. s1 = s2
      BY ONLY <3>3, <3>4, <3>5, SeqEqual
    <3> QED BY <1>6, <3>6
  <2> QED BY <2>2, <2>3
<1> QED BY <1>4, <1>5, <1>6

(* The walk stays on headers and passes none with the name.                *)
LEMMA CallWalk ==
  ASSUME Archived, CString(Trailer), NEW n, CString(n), CallFirst(n) \/ CallRun(n)
  PROVE  WalkInv'
<1>1. name' = n /\ cph' = 0 /\ fpc' = "find" /\ rootfs' = rootfs
  BY DEF CallFirst, CallRun, Call
<1>2. Archived'
  BY <1>1 DEF Archived, cpio_next, cpio_content, cpio_filesize
<1>3. \A a \in DOMAIN rootfs : ~ (a < 0)
  BY DEF Archived
<1> QED BY <1>1, <1>2, <1>3 DEF WalkInv, Holding, Archived

LEMMA FsStepWalk ==
  ASSUME WalkInv, CString(Trailer), FsStep
  PROVE  WalkInv'
<1>1. /\ fpc # "idle" /\ rootfs' = rootfs /\ name' = name
  BY DEF FsStep, NotFound, Found, Seek, LoadRefuses, LoadKilled, LoadCopies, StackTaken,
     StackFails
<1>2. /\ Archived /\ CString(name) /\ cph \in DOMAIN rootfs
      /\ CString(rootfs[cph].name)
      /\ \A a \in DOMAIN rootfs : a < cph => rootfs[a].name # name
      /\ fpc \in Holding => rootfs[cph].name = name
      /\ rootfs[cph].name = Trailer => fpc \in {"find", "failed"}
  BY <1>1 DEF WalkInv, Archived
<1>3. Archived'
  BY <1>1, <1>2 DEF Archived, cpio_next, cpio_content, cpio_filesize
<1>4. /\ AtTrailer <=> rootfs[cph].name = Trailer
      /\ AtName <=> rootfs[cph].name = name
  BY <1>2, StrcmpLemma DEF AtTrailer, AtName, cpio_name
<1>5. CASE NotFound
  BY <1>1, <1>2, <1>3, <1>4, <1>5 DEF WalkInv, NotFound, Holding
<1>6. CASE Found
  BY <1>1, <1>2, <1>3, <1>4, <1>6 DEF WalkInv, Found, Holding
<1>7. CASE Seek
  <2>1. cph' = cpio_next(cph) /\ fpc' = "find" /\ fpc = "find"
        /\ rootfs[cph].name # Trailer /\ rootfs[cph].name # name
    BY <1>4, <1>7 DEF Seek
  <2>2. /\ cpio_next(cph) \in DOMAIN rootfs
        /\ \A b \in DOMAIN rootfs : b <= cph \/ cpio_next(cph) <= b
    BY <1>2, <2>1 DEF Archived
  <2>3. ASSUME NEW a \in DOMAIN rootfs, a < cph'
        PROVE  rootfs[a].name # name
    <3>1. a \in Nat /\ cph \in Nat /\ cpio_next(cph) \in Nat
      BY <1>2, <2>2 DEF Archived
    <3>2. a <= cph
      BY <2>1, <2>2, <2>3, <3>1
    <3>3. CASE a = cph
      BY <2>1, <3>3
    <3>4. CASE a # cph
      BY <1>2, <3>1, <3>2, <3>4
    <3> QED BY <3>3, <3>4
  <2> QED BY <1>1, <1>2, <1>3, <2>1, <2>2, <2>3 DEF WalkInv, Holding
<1>8. CASE LoadRefuses \/ LoadKilled \/ LoadCopies \/ StackTaken \/ StackFails
  <2>1. /\ cph' = cph /\ fpc \in {"load", "stack"}
        /\ fpc' \in {"failed", "killed", "stack", "started", "astray"}
    BY <1>8 DEF LoadRefuses, LoadKilled, LoadCopies, StackTaken, StackFails
  <2> QED BY <1>1, <1>2, <1>3, <2>1 DEF WalkInv, Holding
<1> QED BY <1>5, <1>6, <1>7, <1>8 DEF FsStep

LEMMA WalkFinds == WalkInv => FindsFirst
<1> SUFFICES ASSUME WalkInv, fpc # "idle"
             PROVE  /\ cph \in DOMAIN rootfs
                    /\ \A a \in DOMAIN rootfs :
                         a < cph \/ (fpc = "failed" /\ rootfs[cph].name = Trailer) =>
                           rootfs[a].name # name \/ name = Trailer
                    /\ fpc \in Holding => rootfs[cph].name = name
  BY DEF FindsFirst, Holding
<1>1. ASSUME NEW a \in DOMAIN rootfs,
             a < cph \/ (fpc = "failed" /\ rootfs[cph].name = Trailer)
      PROVE  rootfs[a].name # name \/ name = Trailer
  <2>1. a \in Nat /\ cph \in DOMAIN rootfs /\ cph \in Nat
    BY DEF WalkInv, Archived
  <2>2. CASE a < cph
    BY <2>2 DEF WalkInv
  <2>3. CASE ~ (a < cph)
    <3>1. a <= cph
      BY <1>1, <2>1, <2>3 DEF WalkInv, Archived
    <3>2. a = cph
      BY <2>1, <2>3, <3>1
    <3> QED BY <1>1, <2>3, <3>2
  <2> QED BY <2>2, <2>3
<1> QED BY <1>1 DEF WalkInv
-----------------------------------------------------------------------------
(* Boot: where it is, and what is installed.                               *)
Early == {"args", "stat", "malloc", "open", "read", "mmap", "exn", "maps", "altstack"}
Late == {"start", "loading", "user"}
Pcs == Early \cup Late \cup {"sigaction"} \cup Ends

Inv ==
  /\ pc \in Pcs
  /\ exntable \in [0 .. ExnMax - 1 -> {NoHnd, "syscall_hnd"}]
  /\ handled \subseteq Signals

USE DEF Pcs, Early, Late, Ends

LEMMA MainStepsLemma ==
  ASSUME NEW k \in 1 .. 6
  PROVE  /\ MainSteps[k] \in Early \ {"exn", "maps", "altstack"}
         /\ MainSteps[k + 1] \in Early \ {"maps", "altstack"}
<1>1. k = 1 \/ k = 2 \/ k = 3 \/ k = 4 \/ k = 5 \/ k = 6
  OBVIOUS
<1> QED BY <1>1 DEF MainSteps

LEMMA InitInv == Init => Inv
  BY BootAssumption DEF Init, Inv, NoHnd

LEMMA NextInv == Inv /\ [Next]_vars => Inv'
<1> SUFFICES ASSUME Inv, [Next]_vars
             PROVE  Inv'
  OBVIOUS
<1>1. CASE HostFails
  BY <1>1 DEF HostFails, Inv
<1>2. CASE HostGrants
  <2>1. pc' \in Early
    BY <1>2, MainStepsLemma DEF HostGrants
  <2> QED BY <1>2, <2>1 DEF HostGrants, Inv
<1>3. CASE ReadRootfs \/ ExnInit \/ ReadsMaps
  BY <1>3 DEF ReadRootfs, ExnInit, ReadsMaps, Inv
<1>4. CASE AltStack
  <2>1. exntable' \in [0 .. ExnMax - 1 -> {NoHnd, "syscall_hnd"}]
    BY <1>4 DEF AltStack, exn_set_hnd, Inv, NoHnd
  <2>2. pc' \in {"sigaction", "start"} /\ handled' = handled
    BY <1>4 DEF AltStack
  <2> QED BY <2>1, <2>2 DEF Inv
<1>5. CASE SigAction
  <2>1. handled' \subseteq Signals /\ pc' \in {"sigaction", "start"} /\ exntable' = exntable
    BY <1>5 DEF SigAction, Inv
  <2> QED BY <2>1 DEF Inv
<1>6. CASE ExnInitFails \/ KernelStart \/ Loaded \/ ImageLost \/ UserRuns
  BY <1>6 DEF ExnInitFails, KernelStart, Loaded, ImageLost, UserRuns, Inv
<1>7. CASE Loads \/ RunRefused \/ Ended \/ UNCHANGED vars
  BY <1>7 DEF Loads, RunRefused, Ended, vars, mainvars, Inv
<1> QED BY <1>1, <1>2, <1>3, <1>4, <1>5, <1>6, <1>7 DEF Next, Step
-----------------------------------------------------------------------------
(* The root file system of a host.                                         *)
IsDisk(files) ==
  /\ Len(files) \in Nat \ {0}
  /\ \A k \in 1 .. Len(files) :
       IsFile(files[k]) /\ (files[k].name = Trailer <=> k = Len(files))

(* The offsets of the files: the recursion has a solution, so Offset is it.*)
Offsets(files, n, f) ==
  f = [k \in 1 .. n + 1 |-> IF k = 1 THEN 0 ELSE f[k - 1] + Extent(files[k - 1])]

LEMMA OffsetsExist ==
  ASSUME NEW files
  PROVE  \A n \in Nat : \E f : Offsets(files, n, f)
<1> DEFINE S == {n \in Nat : \E f : Offsets(files, n, f)}
<1>1. 0 \in S
  <2> DEFINE f == [k \in 1 .. 0 + 1 |-> 0]
  <2>1. Offsets(files, 0, f)
    BY DEF Offsets
  <2> QED BY <2>1
<1>2. ASSUME NEW n \in Nat, n \in S
      PROVE  n + 1 \in S
  <2>1. PICK f : Offsets(files, n, f)
    BY <1>2
  <2> DEFINE g == [k \in 1 .. (n + 1) + 1 |->
                     IF k = n + 2 THEN f[n + 1] + Extent(files[n + 1]) ELSE f[k]]
             h == [k \in 1 .. (n + 1) + 1 |->
                     IF k = 1 THEN 0 ELSE g[k - 1] + Extent(files[k - 1])]
  <2>2. ASSUME NEW k \in 1 .. (n + 1) + 1
        PROVE  g[k] = h[k]
    <3>1. CASE k = n + 2
      <4>1. k - 1 \in 1 .. (n + 1) + 1 /\ k - 1 = n + 1 /\ k - 1 # n + 2 /\ k # 1
        BY <3>1
      <4>2. g[k - 1] = f[n + 1]
        BY <4>1
      <4> QED BY <3>1, <4>1, <4>2
    <3>2. CASE k # n + 2
      <4>1. k \in 1 .. n + 1
        BY <3>2
      <4>2. f[k] = IF k = 1 THEN 0 ELSE f[k - 1] + Extent(files[k - 1])
        BY <2>1, <4>1 DEF Offsets
      <4>3. k # 1 => k - 1 \in 1 .. (n + 1) + 1 /\ k - 1 # n + 2
        BY <4>1
      <4> QED BY <3>2, <4>1, <4>2, <4>3
    <3> QED BY <3>1, <3>2
  <2>3. g = h
    <3>1. DOMAIN g = 1 .. (n + 1) + 1 /\ DOMAIN h = 1 .. (n + 1) + 1
      OBVIOUS
    <3> QED BY <2>2, <3>1
  <2>4. Offsets(files, n + 1, g)
    BY <2>3 DEF Offsets
  <2> QED BY <2>4
<1> HIDE DEF S
<1>3. Nat \subseteq S
  BY <1>1, <1>2, Induction
<1> QED BY <1>3 DEF S

LEMMA OffsetDef ==
  ASSUME NEW files, Len(files) \in Nat
  PROVE  Offsets(files, Len(files), Offset(files))
<1> DEFINE P(f) == f = [k \in 1 .. Len(files) + 1 |->
                          IF k = 1 THEN 0 ELSE f[k - 1] + Extent(files[k - 1])]
<1>1. PICK g : P(g)
  BY OffsetsExist DEF Offsets
<1>2. Offset(files) = CHOOSE f : P(f)
  BY DEF Offset
<1> HIDE DEF P
<1>3. P(CHOOSE f : P(f))
  BY <1>1, Zenon
<1>4. P(Offset(files))
  BY <1>2, <1>3
<1> QED BY <1>4 DEF P, Offsets

LEMMA ExtentLemma ==
  ASSUME NEW f, IsFile(f)
  PROVE  /\ Len(f.name) \in Nat \ {0} /\ f.size \in Nat
         /\ Even(Len(f.name)) \in Nat /\ Even(f.size) \in Nat
         /\ Even(Len(f.name)) >= Len(f.name) /\ Even(f.size) >= f.size
         /\ Extent(f) \in Nat /\ Extent(f) > 0 /\ Extent(f) >= f.size
         /\ Extent(f) = HdrSize + Even(Len(f.name)) + Even(f.size)
<1>1. Len(f.name) \in Nat \ {0} /\ f.size \in Nat /\ HdrSize \in Nat
  BY RootFsAssumption DEF IsFile, CString
<1>2. ASSUME NEW n \in Nat
      PROVE  Even(n) \in Nat /\ Even(n) >= n
  BY DEF Even
<1>3. /\ Even(Len(f.name)) \in Nat /\ Even(Len(f.name)) >= Len(f.name)
      /\ Even(f.size) \in Nat /\ Even(f.size) >= f.size
  BY <1>1, <1>2
<1> QED BY <1>1, <1>3 DEF Extent

LEMMA OffsetLemma ==
  ASSUME NEW files, IsDisk(files)
  PROVE  LET offset == Offset(files)
             n == Len(files)
         IN /\ offset[1] = 0
            /\ \A k \in 1 .. n + 1 : offset[k] \in Nat
            /\ \A k \in 1 .. n : offset[k + 1] = offset[k] + Extent(files[k])
            /\ \A k \in 1 .. n + 1 : \A j \in 1 .. k - 1 : offset[j] < offset[k]
<1> DEFINE offset == Offset(files)
           n == Len(files)
<1>1. n \in Nat \ {0} /\ \A k \in 1 .. n : IsFile(files[k])
  BY DEF IsDisk
<1>2. ASSUME NEW k \in 1 .. n + 1
      PROVE  offset[k] = IF k = 1 THEN 0 ELSE offset[k - 1] + Extent(files[k - 1])
  <2>1. Offsets(files, n, offset)
    BY <1>1, OffsetDef
  <2> HIDE DEF offset, n
  <2> QED BY <2>1 DEF Offsets
<1> HIDE DEF offset
<1>3. ASSUME NEW k \in 1 .. n
      PROVE  offset[k + 1] = offset[k] + Extent(files[k])
  <2>1. k + 1 \in 1 .. n + 1 /\ k + 1 # 1 /\ (k + 1) - 1 = k
    BY <1>1
  <2> QED BY <1>2, <2>1
<1>4. ASSUME NEW k \in 1 .. n
      PROVE  Extent(files[k]) \in Nat /\ Extent(files[k]) > 0
  BY <1>1, ExtentLemma
<1> DEFINE S == {m \in Nat : m + 1 \in 1 .. n + 1 =>
                   /\ offset[m + 1] \in Nat
                   /\ \A j \in 1 .. m : offset[j] \in Nat /\ offset[j] < offset[m + 1]}
<1>5. 0 \in S
  <2>1. 1 \in 1 .. n + 1
    BY <1>1
  <2> QED BY <1>2, <2>1
<1>6. ASSUME NEW m \in Nat, m \in S
      PROVE  m + 1 \in S
  <2> SUFFICES ASSUME (m + 1) + 1 \in 1 .. n + 1
               PROVE  /\ offset[(m + 1) + 1] \in Nat
                      /\ \A j \in 1 .. m + 1 : offset[j] \in Nat /\ offset[j] < offset[(m + 1) + 1]
    OBVIOUS
  <2>1. m + 1 \in 1 .. n /\ m + 1 \in 1 .. n + 1
    BY <1>1
  <2>2. /\ offset[m + 1] \in Nat
        /\ \A j \in 1 .. m : offset[j] \in Nat /\ offset[j] < offset[m + 1]
    BY <1>6, <2>1
  <2>3. offset[(m + 1) + 1] = offset[m + 1] + Extent(files[m + 1])
    BY <1>3, <2>1
  <2>4. Extent(files[m + 1]) \in Nat /\ Extent(files[m + 1]) > 0
    BY <1>4, <2>1
  <2>5. ASSUME NEW j \in 1 .. m + 1
        PROVE  offset[j] \in Nat /\ offset[j] < offset[(m + 1) + 1]
    <3>1. CASE j = m + 1
      BY <2>2, <2>3, <2>4, <3>1
    <3>2. CASE j # m + 1
      <4>1. j \in 1 .. m
        BY <3>2
      <4>2. offset[j] \in Nat /\ offset[j] < offset[m + 1]
        BY <2>2, <4>1
      <4> QED BY <2>2, <2>3, <2>4, <4>2
    <3> QED BY <3>1, <3>2
  <2> QED BY <2>2, <2>3, <2>4, <2>5
<1>7. Nat \subseteq S
  <2> HIDE DEF S
  <2> QED BY <1>5, <1>6, Induction
<1>8. ASSUME NEW k \in 1 .. n + 1
      PROVE  offset[k] \in Nat /\ \A j \in 1 .. k - 1 : offset[j] < offset[k]
  <2>1. k - 1 \in Nat /\ (k - 1) + 1 = k
    BY <1>1
  <2>2. k - 1 \in S
    BY <1>7, <2>1
  <2> QED BY <2>1, <2>2
<1>9. offset[1] = 0
  <2>1. 1 \in 1 .. n + 1
    BY <1>1
  <2> QED BY <1>2, <2>1
<1> QED BY <1>3, <1>8, <1>9 DEF offset

(* cpio's layout: a header at each offset, and none elsewhere.             *)
LEMMA ArchiveLemma ==
  ASSUME NEW files, IsDisk(files)
  PROVE  LET offset == Offset(files)
             archive == Archive(files)
         IN /\ DOMAIN archive = {offset[k] : k \in 1 .. Len(files)}
            /\ \A k \in 1 .. Len(files) : archive[offset[k]] = Header(files[k])
<1> DEFINE offset == Offset(files)
           archive == Archive(files)
           n == Len(files)
           At(a) == CHOOSE k \in 1 .. n : offset[k] = a
<1>1. archive = [a \in {offset[k] : k \in 1 .. n} |-> Header(files[At(a)])]
  BY DEF Archive
<1>2. /\ n \in Nat \ {0}
      /\ \A k \in 1 .. n + 1 : offset[k] \in Nat
      /\ \A k \in 1 .. n + 1 : \A j \in 1 .. k - 1 : offset[j] < offset[k]
  BY OffsetLemma DEF IsDisk
<1> HIDE DEF offset, n
<1>3. ASSUME NEW j \in 1 .. n, NEW k \in 1 .. n, offset[j] = offset[k]
      PROVE  j = k
  <2>1. j \in 1 .. n + 1 /\ k \in 1 .. n + 1 /\ offset[j] \in Nat /\ offset[k] \in Nat
    BY <1>2
  <2>2. ~ (j < k) /\ ~ (k < j)
    BY <1>2, <1>3, <2>1
  <2> QED BY <1>2, <2>2
<1>4. ASSUME NEW k \in 1 .. n
      PROVE  At(offset[k]) = k
  <2>1. At(offset[k]) \in 1 .. n /\ offset[At(offset[k])] = offset[k]
    OBVIOUS
  <2> QED BY <1>3, <2>1
<1> HIDE DEF archive, At
<1>5. DOMAIN archive = {offset[k] : k \in 1 .. n}
  BY <1>1
<1>6. ASSUME NEW k \in 1 .. n
      PROVE  archive[offset[k]] = Header(files[k])
  <2>1. offset[k] \in {offset[i] : i \in 1 .. n}
    OBVIOUS
  <2>2. archive[offset[k]] = Header(files[At(offset[k])])
    BY <1>1, <2>1
  <2> QED BY <1>4, <2>2
<1> QED BY <1>5, <1>6 DEF offset, archive, n

(* The arithmetic of cpio_next comes to the layout, where names are shorter*)
(* than an unsigned short can count and files than one read delivers.      *)
LEMMA EvenAlign ==
  ASSUME NEW v \in Nat, v + 1 < Word
  PROVE  align(v, 1) = Even(v)
<1>1. (v + 1) % Long = v + 1 /\ (v + 1) % Word = v + 1
  <2>1. v + 1 \in 0 .. Word - 1 /\ v + 1 \in 0 .. Long - 1
    BY Widths
  <2> QED BY <2>1, Widths, SmallMod
<1>2. align(v, 1) = (v + 1) - ((v + 1) % 2)
  BY <1>1 DEF align
<1> QED BY <1>2 DEF Even

LEMMA NextHeader ==
  ASSUME Archive(disk) = rootfs, IsDisk(disk), Size(disk) <= ReadMax,
         NEW k \in 1 .. Len(disk)
  PROVE  cpio_next(Offset(disk)[k]) = Offset(disk)[k + 1]
<1> DEFINE o == Offset(disk)
           f == disk[k]
           n == Len(disk)
<1>1. /\ n \in Nat \ {0} /\ IsFile(f)
      /\ \A i \in 1 .. n + 1 : o[i] \in Nat
      /\ o[k + 1] = o[k] + Extent(f)
      /\ \A i \in 1 .. n + 1 : \A j \in 1 .. i - 1 : o[j] < o[i]
  BY OffsetLemma DEF IsDisk
<1>2. /\ Len(f.name) \in Nat \ {0} /\ f.size \in Nat
      /\ Even(Len(f.name)) \in Nat /\ Even(f.size) \in Nat
      /\ Extent(f) \in Nat /\ Extent(f) >= f.size
      /\ Extent(f) = HdrSize + Even(Len(f.name)) + Even(f.size)
      /\ Len(f.name) < Half
  BY <1>1, ExtentLemma DEF IsFile
<1>3. rootfs[o[k]] = Header(f)
  BY ArchiveLemma
<1>4. 2 * f.size < Word /\ f.size + 1 < Word
  <2>1. o[k + 1] <= o[n + 1] /\ o[k] \in Nat /\ o[k + 1] \in Nat /\ o[n + 1] \in Nat
    <3>1. k + 1 \in 1 .. n + 1 /\ n + 1 \in 1 .. n + 1 /\ k \in 1 .. n + 1
      BY <1>1
    <3>2. k + 1 = n + 1 \/ k + 1 \in 1 .. (n + 1) - 1
      BY <1>1
    <3>3. o[k] \in Nat /\ o[k + 1] \in Nat /\ o[n + 1] \in Nat
      BY <1>1, <3>1
    <3> QED BY <1>1, <3>1, <3>2, <3>3
  <2>2. o[n + 1] <= ReadMax
    BY DEF Size
  <2>3. f.size <= o[n + 1]
    BY <1>1, <1>2, <2>1
  <2>4. ReadMax \in Nat /\ 2 * ReadMax < Word
    BY BootAssumption
  <2>5. Word \in Nat /\ Word >= 4
    BY Widths, CTypesAssumption
  <2> HIDE DEF o, f, n
  <2>6. f.size \in Nat
    BY <1>2
  <2>7. o[n + 1] \in Nat
    BY <2>1
  <2>8. \A x, y \in Nat : x <= y /\ y <= ReadMax => 2 * x < Word /\ x + 1 < Word
    BY ONLY <2>4, <2>5
  <2> QED BY ONLY <2>2, <2>3, <2>6, <2>7, <2>8
<1>5. Len(f.name) + 1 < Word
  <2> HIDE DEF f
  <2> QED BY <1>2, Widths, CTypesAssumption
<1>6. /\ rootfs[o[k]].namesize = Len(f.name)
      /\ rootfs[o[k]].filesize = <<f.size \div Half, f.size % Half>>
  BY <1>3 DEF Header
<1>7. cpio_filesize(rootfs[o[k]]) = f.size
  <2>1. (f.size \div Half) * Half + (f.size % Half) = f.size
    <3>1. f.size \in Int /\ Half \in Nat \ {0}
      BY <1>2, Widths
    <3> HIDE DEF f
    <3>2. f.size = Half * (f.size \div Half) + (f.size % Half) /\ f.size \div Half \in Int
      BY <3>1, DivMod
    <3>3. Half * (f.size \div Half) = (f.size \div Half) * Half
      BY <3>1, <3>2
    <3> QED BY <3>2, <3>3
  <2>2. Signed(f.size) = f.size /\ f.size % Long = f.size
    <3> HIDE DEF f
    <3>1. f.size \in Nat /\ f.size \in 0 .. Long - 1
      BY <1>2, <1>4, Widths
    <3>2. Signed(f.size) = f.size
      BY <1>4, <3>1, SignedLemma
    <3>3. f.size % Long = f.size
      BY <3>1, SmallMod, Widths
    <3> QED BY <3>2, <3>3
  <2> HIDE DEF f, o
  <2>3. cpio_filesize(rootfs[o[k]]) = Signed(f.size) % Long
    BY <1>6, <2>1 DEF cpio_filesize
  <2> QED BY <2>2, <2>3
<1>8. cpio_content(o[k]) = o[k] + HdrSize + Even(Len(f.name))
  <2> HIDE DEF f, o
  <2> QED BY <1>2, <1>5, <1>6, EvenAlign DEF cpio_content
<1>9. cpio_next(o[k]) = cpio_content(o[k]) + Even(f.size)
  <2> HIDE DEF f, o
  <2> QED BY <1>2, <1>4, <1>7, EvenAlign DEF cpio_next
<1>10. o[k] \in Nat /\ HdrSize \in Nat
  BY <1>1, RootFsAssumption
<1> HIDE DEF f, o
<1>11. cpio_next(o[k]) = o[k + 1]
  BY <1>1, <1>2, <1>8, <1>9, <1>10
<1> QED BY <1>11 DEF o

LEMMA ReadArchived ==
  ASSUME Archive(disk) = rootfs, IsDisk(disk), Size(disk) <= ReadMax
  PROVE  Archived
<1> DEFINE o == Offset(disk)
           n == Len(disk)
<1>1. /\ n \in Nat \ {0} /\ o[1] = 0
      /\ \A k \in 1 .. n : IsFile(disk[k]) /\ (disk[k].name = Trailer <=> k = n)
      /\ \A k \in 1 .. n + 1 : o[k] \in Nat
      /\ \A k \in 1 .. n + 1 : \A j \in 1 .. k - 1 : o[j] < o[k]
  BY OffsetLemma DEF IsDisk
<1>2. /\ DOMAIN rootfs = {o[k] : k \in 1 .. n}
      /\ \A k \in 1 .. n : rootfs[o[k]] = Header(disk[k])
  BY ArchiveLemma
<1>3. \A k \in 1 .. n : cpio_next(o[k]) = o[k + 1]
  BY NextHeader
<1> HIDE DEF o, n
<1>4. 0 \in DOMAIN rootfs /\ DOMAIN rootfs \subseteq Nat
  <2>1. 1 \in 1 .. n /\ \A k \in 1 .. n : k \in 1 .. n + 1
    BY <1>1
  <2>2. 0 \in DOMAIN rootfs
    BY <1>1, <1>2, <2>1
  <2>3. \A k \in 1 .. n : o[k] \in Nat
    BY <1>1, <2>1
  <2> QED BY <1>2, <2>2, <2>3
<1>5. ASSUME NEW j \in 1 .. n, NEW k \in 1 .. n + 1, j < k
      PROVE  o[j] <= o[k]
  <2>1. j \in 1 .. k - 1 /\ j \in 1 .. n + 1
    BY <1>1, <1>5
  <2>2. o[j] \in Nat /\ o[k] \in Nat /\ o[j] < o[k]
    BY <1>1, <2>1
  <2> QED BY <2>2
<1>6. ASSUME NEW a \in DOMAIN rootfs
      PROVE  /\ CString(rootfs[a].name) /\ ElfFields(rootfs[a].elf)
             /\ rootfs[a].name = Trailer => \A b \in DOMAIN rootfs : b <= a
             /\ rootfs[a].name # Trailer =>
                  /\ cpio_next(a) \in DOMAIN rootfs
                  /\ \A b \in DOMAIN rootfs : b <= a \/ cpio_next(a) <= b
  <2>1. PICK k \in 1 .. n : a = o[k]
    BY <1>2
  <2>2. rootfs[a].name = disk[k].name /\ rootfs[a].elf = disk[k].elf
    <3>1. rootfs[a] = Header(disk[k])
      BY <1>2, <2>1
    <3> QED BY <3>1 DEF Header
  <2>3. CString(rootfs[a].name) /\ ElfFields(rootfs[a].elf)
    BY <1>1, <2>2 DEF IsFile
  <2>4. ASSUME rootfs[a].name = Trailer, NEW b \in DOMAIN rootfs
        PROVE  b <= a
    <3>1. PICK j \in 1 .. n : b = o[j]
      BY <1>2
    <3>2. k = n
      BY <1>1, <2>2, <2>4
    <3>3. k \in 1 .. n + 1 /\ a \in Nat
      BY <1>1, <1>4
    <3>4. CASE j = k
      BY <2>1, <3>1, <3>3, <3>4
    <3>5. CASE j # k
      <4>1. j < k
        BY <1>1, <3>2, <3>5
      <4> QED BY <1>5, <2>1, <3>1, <3>3, <4>1
    <3> QED BY <3>4, <3>5
  <2>5. ASSUME rootfs[a].name # Trailer
        PROVE  /\ cpio_next(a) \in DOMAIN rootfs
               /\ \A b \in DOMAIN rootfs : b <= a \/ cpio_next(a) <= b
    <3>1. k # n /\ k + 1 \in 1 .. n
      BY <1>1, <2>2, <2>5
    <3>2. cpio_next(a) = o[k + 1] /\ o[k + 1] \in DOMAIN rootfs
      BY <1>2, <1>3, <2>1, <3>1
    <3>3. ASSUME NEW b \in DOMAIN rootfs
          PROVE  b <= a \/ o[k + 1] <= b
      <4>1. PICK j \in 1 .. n : b = o[j]
        BY <1>2
      <4>2. a \in Nat /\ o[k + 1] \in Nat
        BY <1>4, <3>2
      <4>3. k \in 1 .. n + 1 /\ j \in 1 .. n + 1 /\ j \in Int /\ k \in Int
        BY <1>1
      <4>4. CASE j < k
        BY <1>5, <2>1, <4>1, <4>3, <4>4
      <4>5. CASE j = k
        BY <2>1, <4>1, <4>2, <4>5
      <4>6. CASE j = k + 1
        BY <4>1, <4>2, <4>6
      <4>7. CASE k + 1 < j
        BY <1>5, <3>1, <4>1, <4>3, <4>7
      <4> QED BY <4>3, <4>4, <4>5, <4>6, <4>7
    <3> QED BY <3>2, <3>3
  <2> QED BY <2>3, <2>4, <2>5
<1> QED BY <1>4, <1>6 DEF Archived
-----------------------------------------------------------------------------
(* host_vm_init: the entries of a mapping. The recursion over the holes    *)
(* has a solution, so Pieces is it.                                        *)
Entries == [from : Int, sz : 0 .. Word - 1, prot : SUBSET STRING]
SpanOf(e) == Span(e.from, e.from + e.sz)
Part(f, t, prot, k) ==
  IF k \in Hit(f, t) THEN Around(f, t, Holes[k], prot) ELSE <<>>
Upto(f, t, prot, n, u) ==
  u = [k \in 0 .. n |-> IF k = 0 THEN <<>> ELSE u[k - 1] \o Part(f, t, prot, k)]

LEMMA UptoExists ==
  ASSUME NEW f, NEW t, NEW prot
  PROVE  \A n \in Nat : \E u : Upto(f, t, prot, n, u)
<1> DEFINE S == {n \in Nat : \E u : Upto(f, t, prot, n, u)}
<1>1. 0 \in S
  <2> DEFINE u == [k \in 0 .. 0 |-> <<>>]
  <2>1. Upto(f, t, prot, 0, u)
    BY DEF Upto
  <2> QED BY <2>1
<1>2. ASSUME NEW n \in Nat, n \in S
      PROVE  n + 1 \in S
  <2>1. PICK u : Upto(f, t, prot, n, u)
    BY <1>2
  <2> DEFINE g == [k \in 0 .. n + 1 |->
                     IF k = n + 1 THEN u[n] \o Part(f, t, prot, n + 1) ELSE u[k]]
             h == [k \in 0 .. n + 1 |->
                     IF k = 0 THEN <<>> ELSE g[k - 1] \o Part(f, t, prot, k)]
  <2>2. ASSUME NEW k \in 0 .. n + 1
        PROVE  g[k] = h[k]
    <3>1. CASE k = n + 1
      <4>1. k - 1 \in 0 .. n + 1 /\ k - 1 = n /\ k - 1 # n + 1 /\ k # 0
        BY <3>1
      <4>2. g[k - 1] = u[n]
        BY <4>1
      <4> QED BY <3>1, <4>1, <4>2
    <3>2. CASE k # n + 1
      <4>1. k \in 0 .. n
        BY <3>2
      <4>2. u[k] = IF k = 0 THEN <<>> ELSE u[k - 1] \o Part(f, t, prot, k)
        BY <2>1, <4>1 DEF Upto
      <4>3. k # 0 => k - 1 \in 0 .. n + 1 /\ k - 1 # n + 1
        BY <4>1
      <4> QED BY <3>2, <4>1, <4>2, <4>3
    <3> QED BY <3>1, <3>2
  <2>3. g = h
    <3>1. DOMAIN g = 0 .. n + 1 /\ DOMAIN h = 0 .. n + 1
      OBVIOUS
    <3> QED BY <2>2, <3>1
  <2>4. Upto(f, t, prot, n + 1, g)
    BY <2>3 DEF Upto
  <2> QED BY <2>4
<1> HIDE DEF S
<1>3. Nat \subseteq S
  BY <1>1, <1>2, Induction
<1> QED BY <1>3 DEF S

LEMMA PiecesDef ==
  ASSUME NEW f, NEW t, NEW prot, Len(Holes) \in Nat
  PROVE  \E u : /\ Upto(f, t, prot, Len(Holes), u)
                /\ Pieces(f, t, prot) = IF Hit(f, t) = {} THEN << Entry(f, t, prot) >>
                                        ELSE u[Len(Holes)]
<1> DEFINE P(u) == u = [k \in 0 .. Len(Holes) |->
                          IF k = 0 THEN <<>>
                          ELSE u[k - 1] \o (IF k \in Hit(f, t) THEN Around(f, t, Holes[k], prot)
                                                               ELSE <<>>)]
           v == CHOOSE u : P(u)
<1>1. PICK g : P(g)
  <2>1. \E u : Upto(f, t, prot, Len(Holes), u)
    BY UptoExists
  <2> QED BY <2>1, Zenon DEF Upto, Part
<1>2. Pieces(f, t, prot) = IF Hit(f, t) = {} THEN << Entry(f, t, prot) >>
                           ELSE v[Len(Holes)]
  BY DEF Pieces
<1> HIDE DEF P
<1>3. P(v)
  BY <1>1, Zenon
<1>4. Upto(f, t, prot, Len(Holes), v)
  BY <1>3 DEF P, Upto, Part
<1> QED BY <1>2, <1>4

LEMMA HolesLemma ==
  /\ Len(Holes) \in Nat
  /\ \A h \in 1 .. Len(Holes) :
       Holes[h][1] \in Nat /\ Holes[h][2] \in Nat /\ Holes[h][1] < Holes[h][2]
<1>1. \A h \in 1 .. Len(Holes) : Holes[h] \in Nat \X Nat
  BY VmInitAssumption
<1>2. \A h \in 1 .. Len(Holes) : Holes[h][1] \in Nat /\ Holes[h][2] \in Nat
  BY <1>1
<1> QED BY <1>2, VmInitAssumption

(* The entries P lie in the addresses T, apart, and cover them if "whole"; *)
(* each starts in T, even one that covers nothing.                         *)
Tiles(P, prot, T, whole) ==
  /\ P \in Seq(Entries)
  /\ \A j \in 1 .. Len(P) : P[j].prot = prot /\ P[j].from \in T
  /\ \A j \in 1 .. Len(P) : \A x \in SpanOf(P[j]) : x \in T
  /\ whole => \A x \in T : \E j \in 1 .. Len(P) : x \in SpanOf(P[j])
  /\ \A i, j \in 1 .. Len(P) : i # j =>
       /\ P[j].from \notin SpanOf(P[i])
       /\ \A x : ~ (x \in SpanOf(P[i]) /\ x \in SpanOf(P[j]))

(* An entry covers its range if the size is an unsigned, and part of it    *)
(* from the start on otherwise.                                            *)
LEMMA EntryLemma ==
  ASSUME NEW a \in Int, NEW b \in Int, NEW prot \in SUBSET STRING
  PROVE  LET e == Entry(a, b, prot)
         IN /\ e \in Entries
            /\ e.prot = prot
            /\ a < b => /\ e.from \in Span(a, b)
                        /\ \A x \in SpanOf(e) : x \in Span(a, b)
            /\ a < b /\ b - a < Word => \A x \in Span(a, b) : x \in SpanOf(e)
<1> DEFINE d == b - a
           m == d % Word
           e == Entry(a, b, prot)
<1>1. d \in Int /\ Word \in Nat \ {0}
  BY Widths
<1>2. m \in 0 .. Word - 1 /\ (d \in Nat => m <= d) /\ (d \in Nat /\ d < Word => m = d)
  <2> HIDE DEF d
  <2>1. m \in 0 .. Word - 1
    BY <1>1, DivMod
  <2>2. d \in Nat => m <= d
    BY <1>1
  <2>3. d \in Nat /\ d < Word => m = d
    BY <1>1, SmallMod
  <2> QED BY <2>1, <2>2, <2>3
<1>3. e = [from |-> a, sz |-> m, prot |-> prot]
  BY DEF Entry
<1> HIDE DEF e, m
<1>4. e \in Entries /\ e.prot = prot /\ e.from = a /\ e.sz = m
  BY <1>2, <1>3 DEF Entries
<1>5. a < b => d \in Nat /\ a + d = b
  OBVIOUS
<1> HIDE DEF d
<1>6. SpanOf(e) = Span(a, a + m)
  BY <1>4 DEF SpanOf
<1>7. a < b => a \in Span(a, b) /\ \A x \in Span(a, a + m) : x \in Span(a, b)
  BY <1>2, <1>5 DEF Span
<1>8. ASSUME a < b, b - a < Word, NEW x \in Span(a, b)
      PROVE  x \in Span(a, a + m)
  <2>1. m = d
    BY <1>2, <1>5, <1>8 DEF d
  <2> QED BY <1>5, <1>8, <2>1
<1> QED BY <1>4, <1>6, <1>7, <1>8 DEF e

(* What lies around a hole: at most two entries, before and behind it.     *)
LEMMA AroundLemma ==
  ASSUME NEW f \in Int, NEW t \in Int, NEW h \in 1 .. Len(Holes),
         NEW prot \in SUBSET STRING
  PROVE  LET P == Around(f, t, Holes[h], prot)
             a == Holes[h][1]
             b == Holes[h][2]
         IN /\ P \in Seq(Entries)
            /\ f <= a /\ a < t => Tiles(P, prot, Span(f, a) \cup Span(b, t), t - f < Word)
<1> DEFINE P == Around(f, t, Holes[h], prot)
           a == Holes[h][1]
           b == Holes[h][2]
           e == Entry(f, a, prot)
           g == Entry(b, t, prot)
           T == Span(f, a) \cup Span(b, t)
<1>1. a \in Int /\ b \in Int /\ a < b
  BY HolesLemma
<1> HIDE DEF a, b
<1>2. /\ e \in Entries /\ e.prot = prot
      /\ f < a => e.from \in Span(f, a) /\ \A x \in SpanOf(e) : x \in Span(f, a)
      /\ f < a /\ a - f < Word => \A x \in Span(f, a) : x \in SpanOf(e)
  BY <1>1, EntryLemma
<1>3. /\ g \in Entries /\ g.prot = prot
      /\ b < t => g.from \in Span(b, t) /\ \A x \in SpanOf(g) : x \in Span(b, t)
      /\ b < t /\ t - b < Word => \A x \in Span(b, t) : x \in SpanOf(g)
  BY <1>1, EntryLemma
<1>4. P = (IF f < a THEN << e >> ELSE <<>>) \o (IF b < t THEN << g >> ELSE <<>>)
  BY DEF Around, a, b
<1> HIDE DEF P, e, g
<1>5. /\ \A x : x \in Span(f, a) => f < a
      /\ \A x : x \in Span(b, t) => b < t
      /\ \A x : ~ (x \in Span(f, a) /\ x \in Span(b, t))
  BY <1>1 DEF Span
<1>w. f <= a /\ a < t /\ t - f < Word => a - f < Word /\ t - b < Word
  BY <1>1, Widths
<1>x. \A x : x \in T <=> x \in Span(f, a) \/ x \in Span(b, t)
  OBVIOUS
<1> HIDE DEF T
<1>g. SUFFICES P \in Seq(Entries) /\ (f <= a /\ a < t => Tiles(P, prot, T, t - f < Word))
  BY DEF P, a, b, T
<1>6. CASE f < a /\ b < t
  <2>1. P = << e >> \o << g >>
    BY <1>4, <1>6
  <2>2. P \in Seq(Entries) /\ Len(P) = 2 /\ P[1] = e /\ P[2] = g /\ 1 .. 2 = {1, 2}
    <3>1. /\ << e >> \in Seq(Entries) /\ Len(<< e >>) = 1 /\ << e >>[1] = e
          /\ << g >> \in Seq(Entries) /\ Len(<< g >>) = 1 /\ << g >>[1] = g
      BY <1>2, <1>3
    <3> QED BY <2>1, <3>1
  <2>3. \A x \in SpanOf(e) : x \in Span(f, a)
    BY <1>2, <1>6
  <2>4. \A x \in SpanOf(g) : x \in Span(b, t)
    BY <1>3, <1>6
  <2>5. e.from \in Span(f, a) /\ g.from \in Span(b, t)
    BY <1>2, <1>3, <1>6
  <2>6. /\ \A x : ~ (x \in SpanOf(e) /\ x \in SpanOf(g))
        /\ e.from \notin SpanOf(g) /\ g.from \notin SpanOf(e)
    BY <1>5, <2>3, <2>4, <2>5
  <2>7. \A j \in 1 .. Len(P) : P[j].prot = prot /\ P[j].from \in T
    BY <1>2, <1>3, <1>x, <2>2, <2>5
  <2>8. \A j \in 1 .. Len(P) : \A x \in SpanOf(P[j]) : x \in T
    BY <1>x, <2>2, <2>3, <2>4
  <2>9. ASSUME f <= a, a < t, t - f < Word, NEW x \in T
        PROVE  \E j \in 1 .. Len(P) : x \in SpanOf(P[j])
    BY <1>2, <1>3, <1>6, <1>w, <1>x, <2>2, <2>9
  <2>10. ASSUME NEW i \in 1 .. Len(P), NEW j \in 1 .. Len(P), i # j
         PROVE  /\ P[j].from \notin SpanOf(P[i])
                /\ \A x : ~ (x \in SpanOf(P[i]) /\ x \in SpanOf(P[j]))
    <3>1. (i = 1 /\ j = 2) \/ (i = 2 /\ j = 1)
      <4> HIDE DEF T
      <4>1. i \in {1, 2} /\ j \in {1, 2}
        BY <2>2, Zenon
      <4> QED BY <2>10, <4>1
    <3> QED BY <2>2, <2>6, <3>1
  <2> QED BY <2>2, <2>7, <2>8, <2>9, <2>10 DEF Tiles
<1>7. CASE f < a /\ ~ (b < t)
  <2>1. P = << e >>
    BY <1>2, <1>4, <1>7
  <2>2. P \in Seq(Entries) /\ Len(P) = 1 /\ P[1] = e /\ 1 .. 1 = {1}
    BY <1>2, <2>1
  <2> QED BY <1>2, <1>5, <1>7, <1>w, <1>x, <2>2 DEF Tiles
<1>8. CASE ~ (f < a) /\ b < t
  <2>1. P = << g >>
    BY <1>3, <1>4, <1>8
  <2>2. P \in Seq(Entries) /\ Len(P) = 1 /\ P[1] = g /\ 1 .. 1 = {1}
    BY <1>3, <2>1
  <2> QED BY <1>3, <1>5, <1>8, <1>w, <1>x, <2>2 DEF Tiles
<1>9. CASE ~ (f < a) /\ ~ (b < t)
  <2>1. P = <<>>
    BY <1>4, <1>9
  <2>2. P \in Seq(Entries) /\ Len(P) = 0 /\ 1 .. 0 = {}
    BY <2>1
  <2> QED BY <1>5, <1>9, <1>x, <2>2 DEF Tiles
<1> QED BY <1>6, <1>7, <1>8, <1>9

LEMMA PiecesSeq ==
  ASSUME NEW f \in Int, NEW t \in Int, NEW prot \in SUBSET STRING
  PROVE  Pieces(f, t, prot) \in Seq(Entries)
<1>1. PICK u : /\ Upto(f, t, prot, Len(Holes), u)
               /\ Pieces(f, t, prot) = IF Hit(f, t) = {} THEN << Entry(f, t, prot) >>
                                       ELSE u[Len(Holes)]
  BY PiecesDef, HolesLemma
<1> DEFINE S == {n \in Nat : n <= Len(Holes) => u[n] \in Seq(Entries)}
<1>2. 0 \in S
  BY <1>1 DEF Upto
<1>3. ASSUME NEW n \in Nat, n \in S
      PROVE  n + 1 \in S
  <2>1. SUFFICES ASSUME n + 1 <= Len(Holes)
                 PROVE  u[n + 1] \in Seq(Entries)
    OBVIOUS
  <2>2. n + 1 \in 0 .. Len(Holes) /\ n + 1 # 0 /\ (n + 1) - 1 = n /\ n <= Len(Holes)
    BY <2>1, HolesLemma
  <2>3. u[n + 1] = u[n] \o Part(f, t, prot, n + 1)
    <3>1. \A k \in 0 .. Len(Holes) :
            u[k] = IF k = 0 THEN <<>> ELSE u[k - 1] \o Part(f, t, prot, k)
      BY <1>1 DEF Upto
    <3>2. u[n + 1] = IF n + 1 = 0 THEN <<>> ELSE u[(n + 1) - 1] \o Part(f, t, prot, n + 1)
      BY <2>2, <3>1
    <3> QED BY <2>2, <3>2
  <2>4. Part(f, t, prot, n + 1) \in Seq(Entries)
    <3>1. n + 1 \in 1 .. Len(Holes)
      BY <2>2
    <3>2. Around(f, t, Holes[n + 1], prot) \in Seq(Entries)
      BY <3>1, AroundLemma
    <3> QED BY <3>2 DEF Part
  <2>5. u[n] \in Seq(Entries)
    BY <1>3, <2>2
  <2> HIDE DEF S
  <2> QED BY <2>3, <2>4, <2>5
<1> HIDE DEF S
<1>4. Nat \subseteq S
  BY <1>2, <1>3, Induction
<1>5. u[Len(Holes)] \in Seq(Entries)
  BY <1>4, HolesLemma DEF S
<1>6. << Entry(f, t, prot) >> \in Seq(Entries)
  BY EntryLemma
<1> QED BY <1>1, <1>5, <1>6

LEMMA PiecesOne ==
  ASSUME NEW f \in Int, NEW t \in Int, NEW prot \in SUBSET STRING,
         NEW h \in Hit(f, t), \A i \in Hit(f, t) : i = h
  PROVE  Pieces(f, t, prot) = Around(f, t, Holes[h], prot)
<1>1. PICK u : /\ Upto(f, t, prot, Len(Holes), u)
               /\ Pieces(f, t, prot) = IF Hit(f, t) = {} THEN << Entry(f, t, prot) >>
                                       ELSE u[Len(Holes)]
  BY PiecesDef, HolesLemma
<1> DEFINE A == Around(f, t, Holes[h], prot)
           S == {n \in Nat : n <= Len(Holes) => u[n] = IF h <= n THEN A ELSE <<>>}
<1>2. h \in 1 .. Len(Holes)
  BY DEF Hit
<1>3. A \in Seq(Entries)
  BY <1>2, AroundLemma
<1> HIDE DEF A
<1>4. 0 \in S
  BY <1>1, <1>2 DEF Upto
<1>5. ASSUME NEW n \in Nat, n \in S
      PROVE  n + 1 \in S
  <2>1. SUFFICES ASSUME n + 1 <= Len(Holes)
                 PROVE  u[n + 1] = IF h <= n + 1 THEN A ELSE <<>>
    OBVIOUS
  <2>2. n + 1 \in 0 .. Len(Holes) /\ n + 1 # 0 /\ (n + 1) - 1 = n /\ n <= Len(Holes)
    BY <2>1, HolesLemma
  <2>3. u[n + 1] = u[n] \o Part(f, t, prot, n + 1)
    <3>1. \A k \in 0 .. Len(Holes) :
            u[k] = IF k = 0 THEN <<>> ELSE u[k - 1] \o Part(f, t, prot, k)
      BY <1>1 DEF Upto
    <3>2. u[n + 1] = IF n + 1 = 0 THEN <<>> ELSE u[(n + 1) - 1] \o Part(f, t, prot, n + 1)
      BY <2>2, <3>1
    <3> QED BY <2>2, <3>2
  <2>4. Part(f, t, prot, n + 1) = IF n + 1 = h THEN A ELSE <<>>
    BY DEF Part, A
  <2>5. u[n] = IF h <= n THEN A ELSE <<>>
    BY <1>5, <2>2
  <2>6. <<>> \o A = A /\ A \o <<>> = A /\ <<>> \o <<>> = <<>>
    BY <1>3
  <2>7. h \in Int
    BY <1>2
  <2>8. CASE n + 1 = h
    <3>1. ~ (h <= n) /\ h <= n + 1
      BY <2>8
    <3>2. u[n] = <<>>
      BY <2>5, <3>1
    <3>3. Part(f, t, prot, n + 1) = A
      BY <2>4, <2>8
    <3> QED BY <2>3, <2>6, <3>1, <3>2, <3>3
  <2>9. CASE n + 1 # h
    <3>1. h <= n <=> h <= n + 1
      BY <2>7, <2>9
    <3>2. Part(f, t, prot, n + 1) = <<>>
      BY <2>4, <2>9
    <3> QED BY <2>3, <2>5, <2>6, <3>1, <3>2
  <2> QED BY <2>8, <2>9
<1> HIDE DEF S
<1>6. Nat \subseteq S
  BY <1>4, <1>5, Induction
<1>7. u[Len(Holes)] = A
  <2>1. u[Len(Holes)] = IF h <= Len(Holes) THEN A ELSE <<>>
    BY <1>6, HolesLemma DEF S
  <2>2. h <= Len(Holes)
    BY <1>2, HolesLemma
  <2> QED BY <2>1, <2>2
<1> QED BY <1>1, <1>7 DEF A

(* The entries of a mapping cover it but for the holes, and lie apart.     *)
LEMMA PiecesLemma ==
  ASSUME NEW f \in Int, NEW t \in Int, NEW prot \in SUBSET STRING,
         f < t, HolesEnd(f, t), \A h, i \in Hit(f, t) : h = i,
         \A h \in 1 .. Len(Holes) : Holes[h][1] < t /\ f < Holes[h][2] => f <= Holes[h][1]
  PROVE  Tiles(Pieces(f, t, prot), prot, Span(f, t) \ Open, t - f < Word)
<1> DEFINE P == Pieces(f, t, prot)
           T == Span(f, t) \ Open
<1>1. \A x : x \in Open <=> \E h \in 1 .. Len(Holes) : x \in Span(Holes[h][1], Holes[h][2])
  <2>1. DOMAIN Holes = 1 .. Len(Holes)
    BY VmInitAssumption
  <2> QED BY <2>1 DEF Open
<1>2. ASSUME NEW x \in Span(f, t), NEW h \in 1 .. Len(Holes),
             x \in Span(Holes[h][1], Holes[h][2])
      PROVE  h \in Hit(f, t)
  BY <1>2, HolesLemma DEF Span, Hit
<1>3. CASE Hit(f, t) = {}
  <2>1. P = << Entry(f, t, prot) >>
    BY <1>3 DEF Pieces
  <2> DEFINE e == Entry(f, t, prot)
  <2>2. /\ e \in Entries /\ e.prot = prot
        /\ e.from \in Span(f, t) /\ \A x \in SpanOf(e) : x \in Span(f, t)
        /\ t - f < Word => \A x \in Span(f, t) : x \in SpanOf(e)
    BY EntryLemma
  <2> HIDE DEF e
  <2>3. P \in Seq(Entries) /\ Len(P) = 1 /\ P[1] = e /\ 1 .. 1 = {1}
    BY <2>1, <2>2 DEF e
  <2>4. \A x : x \in T <=> x \in Span(f, t)
    BY <1>1, <1>2, <1>3
  <2> HIDE DEF P, T
  <2>5. Tiles(P, prot, T, t - f < Word)
    BY <2>2, <2>3, <2>4 DEF Tiles
  <2> QED BY <2>5 DEF P, T
<1>4. ASSUME NEW h \in Hit(f, t)
      PROVE  Tiles(P, prot, T, t - f < Word)
  <2> DEFINE a == Holes[h][1]
             b == Holes[h][2]
  <2>1. P = Around(f, t, Holes[h], prot)
    BY PiecesOne
  <2>2. h \in 1 .. Len(Holes) /\ f <= a /\ a < t /\ b <= t
    BY DEF Hit, HolesEnd
  <2>3. a \in Int /\ b \in Int /\ a < b
    BY <2>2, HolesLemma
  <2>4. Tiles(P, prot, Span(f, a) \cup Span(b, t), t - f < Word)
    <3> HIDE DEF P
    <3> QED BY <2>1, <2>2, AroundLemma, Zenon
  <2>5. ASSUME NEW x
        PROVE  x \in Span(f, a) \/ x \in Span(b, t) <=> x \in T
    <3>1. x \in Span(f, a) \/ x \in Span(b, t) <=> x \in Span(f, t) /\ x \notin Span(a, b)
      <4> HIDE DEF a, b
      <4> QED BY <2>2, <2>3 DEF Span
    <3>2. x \in Span(f, t) => (x \in Open <=> x \in Span(a, b))
      BY <1>1, <1>2, <2>2
    <3> QED BY <3>1, <3>2
  <2>6. Span(f, a) \cup Span(b, t) = T
    BY <2>5
  <2> HIDE DEF T, P, a, b
  <2> QED BY <2>4, <2>6
<1> QED BY <1>3, <1>4

LEMMA AddLemma ==
  ASSUME NEW table \in Seq(Entries), NEW P \in Seq(Entries), Len(table) <= MaxEntries
  PROVE  LET R == add_procmap(table, P)
         IN /\ R.table \in Seq(Entries)
            /\ Len(R.table) = IF Len(table) + Len(P) < MaxEntries
                              THEN Len(table) + Len(P) ELSE MaxEntries
            /\ \A j \in 1 .. Len(R.table) :
                 R.table[j] = IF j <= Len(table) THEN table[j] ELSE P[j - Len(table)]
            /\ R.ok = (Len(table) + Len(P) <= MaxEntries)
<1> DEFINE n == Len(table) + Len(P)
           m == IF n < MaxEntries THEN n ELSE MaxEntries
           T == table \o P
           R == add_procmap(table, P)
<1>1. /\ T \in Seq(Entries) /\ Len(T) = n
      /\ \A j \in 1 .. n : T[j] = IF j <= Len(table) THEN table[j] ELSE P[j - Len(table)]
  OBVIOUS
<1>2. n \in Nat /\ m \in Nat /\ m <= n
  BY VmInitAssumption
<1>3. R.table = SubSeq(T, 1, m) /\ R.ok = (n <= MaxEntries)
  BY DEF add_procmap
<1> HIDE DEF T, R
<1>4. /\ SubSeq(T, 1, m) \in Seq(Entries) /\ Len(SubSeq(T, 1, m)) = m
      /\ \A j \in 1 .. m : SubSeq(T, 1, m)[j] = T[j]
  <2> HIDE DEF m, n
  <2> QED BY <1>1, <1>2
<1>5. \A j \in 1 .. m : j \in 1 .. n
  <2> HIDE DEF m, n
  <2> QED BY <1>2
<1> QED BY <1>1, <1>3, <1>4, <1>5 DEF R

(* The lines skipped, without the recursion: those with a name to skip,    *)
(* and the nameless ones behind a line that is skipped.                    *)
LEMMA SkippedLemma ==
  ASSUME Len(maps) \in Nat, DOMAIN maps = 1 .. Len(maps)
  PROVE  /\ 0 \notin Skipped
         /\ \A k \in 1 .. Len(maps) :
              k \in Skipped <=> \/ maps[k].name \in Skips
                                \/ maps[k].name = NoName /\ k - 1 \in Skipped
<1> DEFINE P(u) == u = [k \in 0 .. Len(maps) |->
                          k > 0 /\ (maps[k].name \in Skips
                                    \/ (maps[k].name = NoName /\ u[k - 1]))]
           v == CHOOSE u : P(u)
           w == [k \in 0 .. Len(maps) |->
                   \E j \in 1 .. k : /\ maps[j].name \in Skips
                                     /\ \A i \in j + 1 .. k : maps[i].name = NoName]
<1>1. P(w)
  <2>1. ASSUME NEW k \in 0 .. Len(maps)
        PROVE  w[k] <=> k > 0 /\ (maps[k].name \in Skips
                                  \/ (maps[k].name = NoName /\ w[k - 1]))
    <3>1. CASE k = 0
      BY <3>1
    <3>2. CASE k # 0
      <4>1. k - 1 \in 0 .. Len(maps) /\ k > 0 /\ k \in 1 .. k
        BY <3>2
      <4>2. w[k - 1] <=> \E j \in 1 .. k - 1 : /\ maps[j].name \in Skips
                                               /\ \A i \in j + 1 .. k - 1 : maps[i].name = NoName
        BY <4>1
      <4>3. w[k] <=> \E j \in 1 .. k : /\ maps[j].name \in Skips
                                       /\ \A i \in j + 1 .. k : maps[i].name = NoName
        OBVIOUS
      <4> HIDE DEF w
      <4>4. ASSUME w[k]
            PROVE  maps[k].name \in Skips \/ (maps[k].name = NoName /\ w[k - 1])
        <5>1. PICK j \in 1 .. k : /\ maps[j].name \in Skips
                                  /\ \A i \in j + 1 .. k : maps[i].name = NoName
          BY <4>3, <4>4
        <5>2. CASE j = k
          BY <5>1, <5>2
        <5>3. CASE j # k
          <6>1. j \in 1 .. k - 1 /\ k \in j + 1 .. k
            BY <5>3
          <6>2. \A i \in j + 1 .. k - 1 : i \in j + 1 .. k
            BY <6>1
          <6> QED BY <4>2, <5>1, <6>1, <6>2
        <5> QED BY <5>2, <5>3
      <4>5. ASSUME maps[k].name \in Skips
            PROVE  w[k]
        <5>1. k + 1 .. k = {}
          OBVIOUS
        <5> QED BY <4>1, <4>3, <4>5, <5>1
      <4>6. ASSUME maps[k].name = NoName, w[k - 1]
            PROVE  w[k]
        <5>1. PICK j \in 1 .. k - 1 : /\ maps[j].name \in Skips
                                      /\ \A i \in j + 1 .. k - 1 : maps[i].name = NoName
          BY <4>2, <4>6
        <5>2. j \in 1 .. k /\ \A i \in j + 1 .. k : i = k \/ i \in j + 1 .. k - 1
          BY <4>1
        <5> QED BY <4>3, <4>6, <5>1, <5>2
      <4> QED BY <4>1, <4>4, <4>5, <4>6
    <3> QED BY <3>1, <3>2
  <2> DEFINE h == [k \in 0 .. Len(maps) |->
                     k > 0 /\ (maps[k].name \in Skips
                               \/ (maps[k].name = NoName /\ w[k - 1]))]
  <2>2. DOMAIN w = 0 .. Len(maps) /\ DOMAIN h = 0 .. Len(maps)
    OBVIOUS
  <2>3. \A k \in 0 .. Len(maps) : w[k] \in BOOLEAN /\ h[k] \in BOOLEAN /\ (w[k] <=> h[k])
    BY <2>1
  <2>4. w = h
    BY <2>2, <2>3
  <2> QED BY <2>4
<1>2. Skipped = {k \in DOMAIN maps : v[k]}
  BY DEF Skipped
<1> HIDE DEF P, w
<1>3. P(v)
  BY <1>1, Zenon
<1>4. \A k \in 0 .. Len(maps) :
        v[k] <=> k > 0 /\ (maps[k].name \in Skips \/ (maps[k].name = NoName /\ v[k - 1]))
  BY <1>3 DEF P
<1> HIDE DEF v
<1>5. ~ v[0]
  BY <1>4
<1>6. 0 \notin Skipped /\ \A k \in 0 .. Len(maps) : k \in Skipped <=> v[k]
  BY <1>2, <1>5
<1>7. \A k \in 1 .. Len(maps) : k \in 0 .. Len(maps) /\ k - 1 \in 0 .. Len(maps) /\ k > 0
  OBVIOUS
<1> QED BY <1>4, <1>6, <1>7

(* What host_vm_init has done of the table after "at" lines. Of            *)
(* from, to and perms only the types are kept: a line sets them all.       *)
VmTypes ==
  /\ at \in 0 .. Len(maps)
  /\ rest \in Seq(Nat \cup {Stuck})
  /\ from \in Int /\ to \in Int /\ perms \in Seq(STRING)
  /\ procmaps \in Seq(Entries) /\ Len(procmaps) <= MaxEntries
  /\ ok \in BOOLEAN
  /\ vpc \in {"idle", "loop", "done", "halted"}

SpanAt(k) == Span(maps[k].from, maps[k].to)

(* Each entry is a part of a mapping that was kept, with its protection.   *)
EntriesKept ==
  \A j \in 1 .. Len(procmaps) : \A x \in SpanOf(procmaps[j]) :
    x \notin Open /\ \E k \in 1 .. at : /\ k \notin Skipped /\ x \in SpanAt(k)
                                        /\ procmaps[j].prot = chprot2prot(maps[k].perms)
EntriesApart ==
  \A i, j \in 1 .. Len(procmaps) : i # j =>
    \A x : ~ (x \in SpanOf(procmaps[i]) /\ x \in SpanOf(procmaps[j]))
InTable(x) == \E j \in 1 .. Len(procmaps) : x \in SpanOf(procmaps[j])
ToCover(x) == x \notin Open /\ \E k \in 1 .. at : k \notin Skipped /\ x \in SpanAt(k)
SizedAt(k) == maps[k].to - maps[k].from < Word
Coverable(x) ==
  x \notin Open /\ \E k \in 1 .. at : k \notin Skipped /\ SizedAt(k) /\ x \in SpanAt(k)

TableInv ==
  LinesMatch /\ vpc # "halted" =>
    /\ rest = <<>>
    /\ vname \in Skips <=> at \in Skipped
    /\ EntriesKept
    /\ EntriesApart
    /\ ok => \A x : Coverable(x) => InTable(x)
    /\ ~ ok => Len(procmaps) = MaxEntries /\ \E x : ToCover(x) /\ ~ InTable(x)
    /\ vpc = "done" => at = Len(maps)

VmInv == IsMaps(maps) /\ VmTypes /\ TableInv

LEMMA MapsLemma ==
  ASSUME IsMaps(maps)
  PROVE  /\ Len(maps) \in Nat /\ DOMAIN maps = 1 .. Len(maps)
         /\ \A k \in 1 .. Len(maps) :
              /\ maps[k].from \in Nat /\ maps[k].to \in Nat /\ maps[k].from < maps[k].to
              /\ maps[k].perms \in Seq(STRING) /\ maps[k].name \in STRING
              /\ maps[k].left \in Seq(Nat \cup {Stuck})
         /\ \A k, j \in 1 .. Len(maps) : k # j =>
              \A x : ~ (x \in SpanAt(k) /\ x \in SpanAt(j))
<1>1. Len(maps) \in Nat /\ DOMAIN maps = 1 .. Len(maps) /\ maps \in Seq(MapsLine)
  BY DEF IsMaps
<1>2. ASSUME NEW k \in 1 .. Len(maps)
      PROVE  /\ maps[k].from \in Nat /\ maps[k].to \in Nat /\ maps[k].from < maps[k].to
             /\ maps[k].perms \in Seq(STRING) /\ maps[k].name \in STRING
             /\ maps[k].left \in Seq(Nat \cup {Stuck})
  <2>1. maps[k] \in MapsLine
    BY <1>1
  <2>2. maps[k].from < maps[k].to
    BY DEF IsMaps
  <2> QED BY <2>1, <2>2 DEF MapsLine
<1>3. ASSUME NEW k \in 1 .. Len(maps), NEW j \in 1 .. k - 1
      PROVE  \A x : ~ (x \in SpanAt(k) /\ x \in SpanAt(j))
  <2>1. maps[j].to <= maps[k].from
    BY DEF IsMaps
  <2>2. j \in 1 .. Len(maps)
    BY <1>1
  <2> QED BY <1>2, <2>1, <2>2 DEF SpanAt, Span
<1>4. \A k, j \in 1 .. Len(maps) : k # j => j \in 1 .. k - 1 \/ k \in 1 .. j - 1
  BY <1>1
<1> QED BY <1>1, <1>2, <1>3, <1>4

LEMMA ProtLemma ==
  ASSUME NEW p \in Seq(STRING)
  PROVE  chprot2prot(p) \in SUBSET STRING
BY DEF chprot2prot

(* The table keeps its types, whatever the lines are.                      *)
LEMMA BodyTypes ==
  ASSUME VmTypes, Body, from' \in Int, to' \in Int, perms' \in Seq(STRING), vpc = "loop"
  PROVE  /\ procmaps' \in Seq(Entries) /\ Len(procmaps') <= MaxEntries
         /\ ok' \in BOOLEAN /\ vpc' \in {"loop", "halted"}
<1>1. CASE UNCHANGED <<procmaps, ok>> /\ vpc' \in {"loop", "halted"}
  BY <1>1 DEF VmTypes
<1>2. CASE ~ (UNCHANGED <<procmaps, ok>> /\ vpc' \in {"loop", "halted"})
  <2> DEFINE P == Pieces(from', to', chprot2prot(perms'))
             R == add_procmap(procmaps, P)
  <2>1. procmaps' = R.table /\ ok' = (ok /\ R.ok) /\ UNCHANGED vpc
    BY <1>2 DEF Body
  <2>2. P \in Seq(Entries)
    BY PiecesSeq, ProtLemma
  <2> HIDE DEF P
  <2>3. R.table \in Seq(Entries) /\ Len(R.table) <= MaxEntries
    <3>1. /\ R.table \in Seq(Entries)
          /\ Len(R.table) = IF Len(procmaps) + Len(P) < MaxEntries
                            THEN Len(procmaps) + Len(P) ELSE MaxEntries
      BY <2>2, AddLemma DEF VmTypes
    <3>2. Len(procmaps) \in Nat /\ Len(P) \in Nat /\ MaxEntries \in Nat
      BY <2>2, VmInitAssumption DEF VmTypes
    <3> HIDE DEF R
    <3> QED BY <3>1, <3>2
  <2> HIDE DEF R
  <2> QED BY <2>1, <2>3 DEF VmTypes
<1> QED BY <1>1, <1>2

LEMMA VmStepTypes ==
  ASSUME IsMaps(maps), VmTypes, host_vm_init \/ VmStep
  PROVE  IsMaps(maps') /\ VmTypes'
<1>1. maps' = maps
  BY DEF host_vm_init, VmStep, NextLine, Leftover, EndOfMaps
<1>2. CASE host_vm_init
  BY <1>2 DEF host_vm_init, VmTypes
<1>3. CASE EndOfMaps
  BY <1>3 DEF EndOfMaps, VmTypes
<1>4. CASE NextLine
  <2>1. at + 1 \in 1 .. Len(maps) /\ at' \in 0 .. Len(maps)
    BY <1>4, MapsLemma DEF NextLine, VmTypes
  <2>2. /\ from' \in Int /\ to' \in Int /\ perms' \in Seq(STRING)
        /\ rest' \in Seq(Nat \cup {Stuck})
    BY <1>4, <2>1, MapsLemma DEF NextLine
  <2>3. Body /\ vpc = "loop"
    BY <1>4 DEF NextLine
  <2> QED BY <1>1, <2>1, <2>2, <2>3, BodyTypes DEF VmTypes
<1>5. CASE Leftover
  <2>1. Head(rest) \in Nat \cup {Stuck} /\ Tail(rest) \in Seq(Nat \cup {Stuck})
    BY <1>5 DEF Leftover, VmTypes
  <2>2. from' \in Int /\ rest' \in Seq(Nat \cup {Stuck})
    <3>1. from \in Int /\ rest \in Seq(Nat \cup {Stuck})
      BY DEF VmTypes
    <3>2. CASE Head(rest) = Stuck
      BY <1>5, <3>1, <3>2, Zenon DEF Leftover
    <3>3. CASE Head(rest) # Stuck
      <4>1. from' = Head(rest) /\ rest' = Tail(rest)
        BY <1>5, <3>3, Zenon DEF Leftover
      <4>2. Head(rest) \in Int
        BY <2>1, <3>3
      <4> QED BY <2>1, <4>1, <4>2, Zenon
    <3> QED BY <3>2, <3>3
  <2>3. /\ to' \in Int /\ perms' \in Seq(STRING) /\ at' \in 0 .. Len(maps)
        /\ Body /\ vpc = "loop"
    BY <1>5 DEF Leftover, VmTypes
  <2> QED BY <1>1, <2>2, <2>3, BodyTypes DEF VmTypes
<1> QED BY <1>1, <1>2, <1>3, <1>4, <1>5 DEF VmStep

(* An entry of the table stays where it is, and is an old one or one of    *)
(* the mapping of this line.                                               *)
LEMMA NextLineTable ==
  ASSUME IsMaps(maps), VmTypes, TableInv, LinesMatch, NextLine, vpc' # "halted"
  PROVE  TableInv'
<1> DEFINE n == at + 1
           f == maps[n].from
           t == maps[n].to
           prot == chprot2prot(maps[n].perms)
<1>1. /\ vpc = "loop" /\ at < Len(maps) /\ at' = n /\ UNCHANGED maps /\ Body
      /\ from' = f /\ to' = t /\ perms' = maps[n].perms
      /\ vname' = IF maps[n].name = NoName THEN NameNow ELSE maps[n].name
      /\ rest' = maps[n].left
  BY DEF NextLine
<1>2. n \in 1 .. Len(maps) /\ at \in Nat /\ n \notin 1 .. at /\ 1 .. n = (1 .. at) \cup {n}
  BY <1>1 DEF VmTypes
<1>3. /\ f \in Int /\ t \in Int /\ f < t /\ prot \in SUBSET STRING
      /\ SpanAt(n) = Span(f, t)
  BY <1>1, <1>2, MapsLemma, ProtLemma DEF SpanAt
<1>4. rest' = <<>> /\ LinesMatch'
  <2>1. maps[n].left = <<>>
    BY <1>2, MapsLemma DEF LinesMatch
  <2> QED BY <1>1, <2>1 DEF LinesMatch
<1>5. Skipped' = Skipped
  BY <1>1 DEF Skipped
<1>6. vname' \in Skips <=> n \in Skipped
  <2>1. vname \in Skips <=> at \in Skipped
    BY <1>1 DEF TableInv
  <2>2. n \in Skipped <=> maps[n].name \in Skips \/ (maps[n].name = NoName /\ at \in Skipped)
    <3>1. n - 1 = at
      BY <1>2
    <3> QED BY <1>2, <3>1, SkippedLemma, MapsLemma
  <2>3. NoName \notin Skips /\ "" \notin Skips
    BY DEF NoName, Skips
  <2>4. NameNow \in Skips <=> vname \in Skips
    BY <2>3 DEF NameNow
  <2> QED BY <1>1, <2>1, <2>2, <2>3, <2>4
<1>7. \A x, k : k \in 1 .. at => ~ (x \in SpanAt(k) /\ x \in SpanAt(n))
  BY <1>2, MapsLemma
<1>8. \A k : SpanAt(k)' = SpanAt(k)
  BY <1>1 DEF SpanAt
<1>9. \A x : ToCover(x)' <=> ToCover(x) \/ (x \notin Open /\ n \notin Skipped /\ x \in SpanAt(n))
  <2>1. \A x : ToCover(x)' <=> x \notin Open /\ \E k \in 1 .. n : k \notin Skipped /\ x \in SpanAt(k)
    BY <1>1, <1>5, <1>8 DEF ToCover
  <2> QED BY <1>2, <2>1 DEF ToCover
<1>c. \A x : Coverable(x)' <=>
        Coverable(x) \/ (x \notin Open /\ n \notin Skipped /\ SizedAt(n) /\ x \in SpanAt(n))
  <2>1. \A k : SizedAt(k)' = SizedAt(k)
    BY <1>1 DEF SizedAt
  <2>2. \A x : Coverable(x)' <=>
          x \notin Open /\ \E k \in 1 .. n : k \notin Skipped /\ SizedAt(k) /\ x \in SpanAt(k)
    BY <1>1, <1>5, <1>8, <2>1 DEF Coverable
  <2> QED BY <1>2, <2>2 DEF Coverable
<1>10. /\ EntriesKept /\ EntriesApart
       /\ ok => \A x : Coverable(x) => InTable(x)
       /\ ~ ok => Len(procmaps) = MaxEntries /\ \E x : ToCover(x) /\ ~ InTable(x)
  BY <1>1 DEF TableInv
<1>11. CASE n \in Skipped
  <2>1. UNCHANGED <<procmaps, ok, vpc>>
    BY <1>6, <1>11, <1>1 DEF Body
  <2>2. \A x : (ToCover(x)' <=> ToCover(x)) /\ (Coverable(x)' <=> Coverable(x))
    BY <1>9, <1>11, <1>c
  <2>3. EntriesKept'
    BY <1>1, <1>2, <1>5, <1>8, <1>10, <2>1 DEF EntriesKept
  <2>4. EntriesApart'
    BY <1>10, <2>1 DEF EntriesApart
  <2>5. \A x : InTable(x)' <=> InTable(x)
    BY <2>1 DEF InTable
  <2> QED BY <1>1, <1>4, <1>5, <1>6, <1>10, <2>1, <2>2, <2>3, <2>4, <2>5 DEF TableInv
<1>12. CASE n \notin Skipped
  <2> DEFINE P == Pieces(f, t, prot)
             R == add_procmap(procmaps, P)
             L == Len(procmaps)
             M == Len(P)
  <2>1. /\ HolesEnd(f, t)
        /\ procmaps' = R.table /\ ok' = (ok /\ R.ok) /\ vpc' = vpc
    <3>1. vname' \notin Skips /\ from' = f /\ to' = t /\ perms' = maps[n].perms
      BY <1>1, <1>6, <1>12
    <3>2. HolesEnd(f, t)
      BY <1>1, <3>1 DEF Body
    <3> QED BY <1>1, <3>1, <3>2 DEF Body
  <2>2. /\ P \in Seq(Entries)
        /\ \A j \in 1 .. M : P[j].prot = prot /\ P[j].from \in SpanAt(n) \ Open
        /\ \A j \in 1 .. M : \A x \in SpanOf(P[j]) : x \in SpanAt(n) /\ x \notin Open
        /\ SizedAt(n) => \A x \in SpanAt(n) \ Open : \E j \in 1 .. M : x \in SpanOf(P[j])
        /\ \A i, j \in 1 .. M : i # j =>
             /\ P[j].from \notin SpanOf(P[i])
             /\ \A x : ~ (x \in SpanOf(P[i]) /\ x \in SpanOf(P[j]))
    <3>1. \A h, i \in Hit(f, t) : h = i
      BY <1>2 DEF IsMaps
    <3>2. \A h \in 1 .. Len(Holes) :
            Holes[h][1] < t /\ f < Holes[h][2] => f <= Holes[h][1]
      BY <1>2 DEF IsMaps
    <3> HIDE DEF n, f, t, prot
    <3>3. Tiles(Pieces(f, t, prot), prot, Span(f, t) \ Open, t - f < Word)
      BY ONLY <1>3, <2>1, <3>1, <3>2, PiecesLemma
    <3>4. Tiles(P, prot, SpanAt(n) \ Open, t - f < Word)
      BY <1>3, <3>3
    <3>5. SizedAt(n) <=> t - f < Word
      BY DEF SizedAt, t, f
    <3> HIDE DEF P
    <3> QED BY <3>4, <3>5 DEF Tiles
  <2> HIDE DEF P
  <2>3. /\ procmaps' \in Seq(Entries)
        /\ Len(procmaps') = IF L + M < MaxEntries THEN L + M ELSE MaxEntries
        /\ \A j \in 1 .. Len(procmaps') :
             procmaps'[j] = IF j <= L THEN procmaps[j] ELSE P[j - L]
        /\ R.ok = (L + M <= MaxEntries)
    <3>1. procmaps \in Seq(Entries) /\ L <= MaxEntries
      BY DEF VmTypes
    <3> HIDE DEF R
    <3>2. LET Q == add_procmap(procmaps, P)
          IN /\ Q.table \in Seq(Entries)
             /\ Len(Q.table) = IF L + M < MaxEntries THEN L + M ELSE MaxEntries
             /\ \A j \in 1 .. Len(Q.table) :
                  Q.table[j] = IF j <= L THEN procmaps[j] ELSE P[j - L]
             /\ Q.ok = (L + M <= MaxEntries)
      BY <2>2, <3>1, AddLemma
    <3> QED BY <2>1, <3>2 DEF R
  <2>4. L \in Nat /\ M \in Nat /\ MaxEntries \in Nat /\ L <= MaxEntries
    BY <2>2, VmInitAssumption DEF VmTypes
  <2>5. ok' = (ok /\ L + M <= MaxEntries)
    BY <2>1, <2>3
  <2> HIDE DEF R, L, M, n, f, t, prot
  <2>6. /\ \A j \in 1 .. Len(procmaps') : (j \in 1 .. L /\ procmaps'[j] = procmaps[j])
                                          \/ (j - L \in 1 .. M /\ procmaps'[j] = P[j - L])
        /\ \A j \in 1 .. L : j \in 1 .. Len(procmaps') /\ procmaps'[j] = procmaps[j]
    BY <2>3, <2>4
  <2>7. EntriesKept'
    <3>1. SUFFICES ASSUME NEW j \in 1 .. Len(procmaps')
                   PROVE  \A x \in SpanOf(procmaps'[j]) :
                            x \notin Open /\ \E k \in 1 .. n :
                              /\ k \notin Skipped /\ x \in SpanAt(k)
                              /\ procmaps'[j].prot = chprot2prot(maps[k].perms)
      BY <1>1, <1>5, <1>8, Zenon DEF EntriesKept
    <3>2. CASE j \in 1 .. L /\ procmaps'[j] = procmaps[j]
      BY <1>2, <1>10, <3>2 DEF EntriesKept, L
    <3>3. CASE j - L \in 1 .. M /\ procmaps'[j] = P[j - L]
      <4>1. P[j - L].prot = chprot2prot(maps[n].perms)
        BY <2>2, <3>3 DEF prot
      <4>2. \A x \in SpanOf(P[j - L]) : x \in SpanAt(n) /\ x \notin Open
        BY <2>2, <3>3
      <4>3. n \in 1 .. n
        BY <1>2
      <4> QED BY <1>12, <3>3, <4>1, <4>2, <4>3
    <3> QED BY <2>6, <3>2, <3>3
  <2>8. ASSUME NEW x, NEW j \in 1 .. L, x \in SpanOf(procmaps[j])
        PROVE  x \notin SpanAt(n)
    BY <1>7, <1>10, <2>8 DEF EntriesKept, L
  <2>9. EntriesApart'
    <3>1. SUFFICES ASSUME NEW i \in 1 .. Len(procmaps'), NEW j \in 1 .. Len(procmaps'), i # j,
                          NEW x, x \in SpanOf(procmaps'[i]), x \in SpanOf(procmaps'[j])
                   PROVE  FALSE
      BY Zenon DEF EntriesApart
    <3>2. CASE i \in 1 .. L /\ procmaps'[i] = procmaps[i]
               /\ j \in 1 .. L /\ procmaps'[j] = procmaps[j]
      BY <1>10, <3>1, <3>2 DEF EntriesApart, L
    <3>3. CASE i \in 1 .. L /\ procmaps'[i] = procmaps[i]
               /\ j - L \in 1 .. M /\ procmaps'[j] = P[j - L]
      BY <2>2, <2>8, <3>1, <3>3
    <3>4. CASE j \in 1 .. L /\ procmaps'[j] = procmaps[j]
               /\ i - L \in 1 .. M /\ procmaps'[i] = P[i - L]
      BY <2>2, <2>8, <3>1, <3>4
    <3>5. CASE j - L \in 1 .. M /\ procmaps'[j] = P[j - L]
               /\ i - L \in 1 .. M /\ procmaps'[i] = P[i - L]
      <4>1. j - L # i - L
        BY <2>4, <3>1
      <4> QED BY <2>2, <3>1, <3>5, <4>1
    <3> QED BY <2>6, <3>2, <3>3, <3>4, <3>5
  <2>10. ASSUME NEW x, InTable(x)
         PROVE  InTable(x)'
    BY <2>6, <2>10 DEF InTable, L
  <2>11. ASSUME ok', NEW x, Coverable(x)'
         PROVE  InTable(x)'
    <3>1. ok /\ L + M <= MaxEntries
      BY <2>5, <2>11
    <3>2. CASE Coverable(x)
      BY <1>10, <2>10, <3>1, <3>2
    <3>3. CASE ~ Coverable(x)
      <4>1. x \in SpanAt(n) /\ x \notin Open /\ SizedAt(n)
        BY <1>c, <2>11, <3>3
      <4>2. PICK i \in 1 .. M : x \in SpanOf(P[i])
        BY <2>2, <4>1
      <4>3. L + i \in 1 .. Len(procmaps') /\ ~ (L + i <= L) /\ (L + i) - L = i
        BY <2>3, <2>4, <3>1
      <4>4. procmaps'[L + i] = P[i]
        BY <2>3, <4>3
      <4> QED BY <4>2, <4>3, <4>4 DEF InTable
    <3> QED BY <3>2, <3>3
  <2>12. ASSUME ~ ok'
         PROVE  Len(procmaps') = MaxEntries /\ \E x : ToCover(x)' /\ ~ InTable(x)'
    <3>1. CASE ~ ok
      <4>1. L = MaxEntries
        BY <1>10, <3>1 DEF L
      <4>2. Len(procmaps') = L
        BY <2>3, <2>4, <4>1
      <4>3. PICK x : ToCover(x) /\ ~ InTable(x)
        BY <1>10, <3>1
      <4>4. ~ InTable(x)'
        BY <2>3, <2>4, <4>2, <4>3 DEF InTable, L
      <4> QED BY <1>9, <4>1, <4>2, <4>3, <4>4
    <3>2. CASE ok
      <4>1. L + M > MaxEntries
        <5>1. ~ (L + M <= MaxEntries)
          BY <2>5, <2>12, <3>2, Zenon
        <5> QED BY <2>4, <5>1
      <4>2. Len(procmaps') = MaxEntries
        BY <2>3, <2>4, <4>1
      <4> DEFINE i == (MaxEntries - L) + 1
      <4>3. i \in 1 .. M
        BY <2>4, <4>1
      <4>4. PICK x : x = P[i].from
        OBVIOUS
      <4>5. x \in SpanAt(n) /\ x \notin Open
        BY <2>2, <4>3, <4>4
      <4>6. ASSUME NEW j \in 1 .. MaxEntries, x \in SpanOf(procmaps'[j])
            PROVE  FALSE
        <5>1. CASE j \in 1 .. L /\ procmaps'[j] = procmaps[j]
          BY <2>8, <4>5, <4>6, <5>1
        <5>2. CASE j - L \in 1 .. M /\ procmaps'[j] = P[j - L]
          <6>1. j - L # i
            BY <2>4
          <6> HIDE DEF i
          <6> QED BY <2>2, <4>3, <4>4, <4>6, <5>2, <6>1
        <5> QED BY <2>6, <4>2, <5>1, <5>2
      <4>7. ToCover(x)'
        BY <1>9, <1>12, <4>5
      <4> QED BY <4>2, <4>6, <4>7 DEF InTable
    <3> QED BY <3>1, <3>2 DEF VmTypes
  <2> QED
    BY <1>1, <1>4, <1>5, <1>6, <2>1, <2>7, <2>9, <2>11, <2>12 DEF TableInv, n
<1> QED BY <1>11, <1>12

LEMMA VmInitialInv ==
  ASSUME IsMaps(maps), VmInitial
  PROVE  VmInv
<1>1. Len(maps) \in Nat /\ MaxEntries \in Nat
  BY MapsLemma, VmInitAssumption
<1> DEFINE none == << >>
<1>a. procmaps = none /\ rest = none /\ perms = none /\ at = 0
  BY DEF VmInitial
<1>b. /\ none \in Seq(Entries) /\ none \in Seq(Nat \cup {Stuck}) /\ none \in Seq(STRING)
      /\ Len(none) = 0 /\ 1 .. 0 = {}
  OBVIOUS
<1> HIDE DEF none
<1>2. VmTypes
  <2>1. /\ procmaps \in Seq(Entries) /\ Len(procmaps) = 0
        /\ rest \in Seq(Nat \cup {Stuck}) /\ perms \in Seq(STRING)
    BY <1>a, <1>b
  <2>2. /\ at = 0 /\ from = 0 /\ to = 0 /\ ok = TRUE /\ vpc = "idle"
    BY DEF VmInitial
  <2> QED BY <1>1, <2>1, <2>2 DEF VmTypes
<1>3. \A x : ~ Coverable(x)
  BY <1>a, <1>b DEF Coverable
<1>4. EntriesKept /\ EntriesApart
  BY <1>a, <1>b DEF EntriesKept, EntriesApart
<1>5. vname \notin Skips /\ at \notin Skipped
  BY MapsLemma, SkippedLemma DEF VmInitial, Skips
<1> QED BY <1>2, <1>3, <1>4, <1>5 DEF VmInitial, VmInv, TableInv

LEMMA VmStepInv ==
  ASSUME VmInv, host_vm_init \/ VmStep
  PROVE  VmInv'
<1>1. IsMaps(maps') /\ VmTypes'
  BY VmStepTypes DEF VmInv
<1>2. SUFFICES ASSUME LinesMatch', (vpc # "halted")'
               PROVE  TableInv'
  BY <1>1 DEF VmInv, TableInv
<1>3. LinesMatch /\ maps' = maps
  BY <1>2 DEF LinesMatch, host_vm_init, VmStep, NextLine, Leftover, EndOfMaps
<1>4. vpc # "halted"
  BY DEF host_vm_init, VmStep, NextLine, Leftover, EndOfMaps
<1>5. CASE NextLine
  BY <1>2, <1>3, <1>5, NextLineTable DEF VmInv
<1>6. CASE Leftover
  BY <1>3, <1>4, <1>6 DEF VmInv, TableInv, Leftover
<1>7. CASE host_vm_init \/ EndOfMaps
  <2>1. /\ UNCHANGED <<maps, at, rest, procmaps, ok, vname>>
        /\ vpc' = "done" => at = Len(maps)
    BY <1>7 DEF host_vm_init, EndOfMaps
  <2>2. Skipped' = Skipped
    BY <2>1 DEF Skipped
  <2>3. EntriesKept' <=> EntriesKept
    BY <2>1, <2>2 DEF EntriesKept, SpanAt
  <2>4. EntriesApart' <=> EntriesApart
    BY <2>1 DEF EntriesApart
  <2>5. \A x : (ToCover(x)' <=> ToCover(x)) /\ (InTable(x)' <=> InTable(x))
    BY <2>1, <2>2 DEF ToCover, InTable, SpanAt
  <2>6. \A x : Coverable(x)' <=> Coverable(x)
    BY <2>1, <2>2 DEF Coverable, SpanAt, SizedAt
  <2> QED BY <1>3, <1>4, <2>1, <2>2, <2>3, <2>4, <2>5, <2>6 DEF VmInv, TableInv
<1> QED BY <1>5, <1>6, <1>7 DEF VmStep

LEMMA VmTyped ==
  ASSUME VmInv
  PROVE  VmTypeOK
<1>1. \A k \in DOMAIN procmaps : procmaps[k] \in Entries
  BY DEF VmInv, VmTypes
<1>2. \A k \in DOMAIN procmaps : procmaps[k].sz \in 0 .. Word - 1
  BY <1>1 DEF Entries
<1> QED BY <1>2 DEF VmInv, VmTypes, VmTypeOK

LEMMA TableLemma ==
  ASSUME VmInv
  PROVE  TableIsTheImage
<1>1. SUFFICES ASSUME vpc = "done", LinesMatch
               PROVE  LET kept == DOMAIN maps \ Skipped
                          image == (UNION {Span(maps[k].from, maps[k].to) : k \in kept}) \ Open
                          sized == {k \in kept : maps[k].to - maps[k].from < Word}
                          table == UNION {Covered(k) : k \in DOMAIN procmaps}
                      IN /\ table \subseteq image
                         /\ ok => (UNION {Span(maps[k].from, maps[k].to) : k \in sized}) \ Open
                                    \subseteq table
                         /\ ~ ok => Len(procmaps) = MaxEntries /\ table # image
                         /\ \A j, k \in DOMAIN procmaps :
                              j # k => Covered(j) \cap Covered(k) = {}
                         /\ \A j \in DOMAIN procmaps, k \in kept :
                              Covered(j) \cap Span(maps[k].from, maps[k].to) # {} =>
                                procmaps[j].prot = chprot2prot(maps[k].perms)
  BY DEF TableIsTheImage
<1> DEFINE kept == DOMAIN maps \ Skipped
           image == (UNION {Span(maps[k].from, maps[k].to) : k \in kept}) \ Open
           sized == {k \in kept : maps[k].to - maps[k].from < Word}
           small == (UNION {Span(maps[k].from, maps[k].to) : k \in sized}) \ Open
           table == UNION {Covered(k) : k \in DOMAIN procmaps}
<1>2. /\ EntriesKept /\ EntriesApart /\ at = Len(maps)
      /\ ok => \A x : Coverable(x) => InTable(x)
      /\ ~ ok => Len(procmaps) = MaxEntries /\ \E x : ToCover(x) /\ ~ InTable(x)
  BY <1>1 DEF VmInv, TableInv
<1>3. DOMAIN maps = 1 .. at /\ DOMAIN procmaps = 1 .. Len(procmaps)
  BY <1>2, MapsLemma DEF VmInv, VmTypes
<1>4. \A x : x \in image <=> ToCover(x)
  <2>1. \A x : x \in image <=> \E k \in kept : x \in SpanAt(k) /\ x \notin Open
    <3> HIDE DEF kept
    <3> DEFINE spans == UNION {Span(maps[k].from, maps[k].to) : k \in kept}
    <3>1. \A x : x \in spans <=> \E k \in kept : x \in SpanAt(k)
      BY DEF SpanAt
    <3>2. image = spans \ Open
      OBVIOUS
    <3> HIDE DEF spans, image
    <3> QED BY <3>1, <3>2
  <2>2. \A k : k \in kept <=> k \in 1 .. at /\ k \notin Skipped
    BY <1>3
  <2> HIDE DEF image, kept
  <2> QED BY <2>1, <2>2 DEF ToCover
<1>s. \A x : x \in small => Coverable(x)
  <2>1. \A x : x \in small => \E k \in sized : x \in SpanAt(k) /\ x \notin Open
    <3> HIDE DEF sized
    <3> QED BY DEF SpanAt
  <2>2. \A k : k \in sized => k \in 1 .. at /\ k \notin Skipped /\ SizedAt(k)
    BY <1>3 DEF SizedAt
  <2> HIDE DEF small, sized, kept
  <2> QED BY <2>1, <2>2 DEF Coverable
<1>5. \A j : Covered(j) = SpanOf(procmaps[j])
  BY DEF Covered, SpanOf
<1>6. \A x : x \in table <=> InTable(x)
  BY <1>3, <1>5 DEF InTable
<1>7. \A x : InTable(x) => ToCover(x)
  BY <1>2 DEF InTable, ToCover, EntriesKept
<1>8. \A j, k \in DOMAIN procmaps : j # k => Covered(j) \cap Covered(k) = {}
  BY <1>2, <1>3, <1>5 DEF EntriesApart
<1>9. ASSUME NEW j \in DOMAIN procmaps, NEW k \in kept,
             Covered(j) \cap Span(maps[k].from, maps[k].to) # {}
      PROVE  procmaps[j].prot = chprot2prot(maps[k].perms)
  <2>1. PICK x : x \in SpanOf(procmaps[j]) /\ x \in SpanAt(k)
    BY <1>5, <1>9 DEF SpanAt
  <2>2. PICK i \in 1 .. at : /\ x \in SpanAt(i)
                             /\ procmaps[j].prot = chprot2prot(maps[i].perms)
    BY <1>2, <1>3, <2>1 DEF EntriesKept
  <2>3. i = k
    BY <1>2, <1>3, <2>1, <2>2, MapsLemma DEF VmInv
  <2> QED BY <2>2, <2>3
<1> HIDE DEF image, small, table
<1>10. table \subseteq image
  BY <1>4, <1>6, <1>7
<1>11. ok => small \subseteq table
  BY <1>2, <1>6, <1>s
<1>12. ~ ok => Len(procmaps) = MaxEntries /\ table # image
  BY <1>2, <1>4, <1>6
<1> QED BY <1>8, <1>9, <1>10, <1>11, <1>12 DEF image, small, table
-----------------------------------------------------------------------------
(* The whole of boot and of the programs it runs. Nothing is loaded before *)
(* kernel_start, the archive is there from the read on, and load runs only *)
(* while main or a program waits for it.                                   *)
Loading == {"start", "loading", "user"}
Unread == {"args", "stat", "malloc", "open", "read"}
BootInv ==
  /\ Inv /\ VmInv /\ FsInv /\ WalkInv /\ IsDisk(disk)
  /\ pc \in Unread \cup {"mmap", "exn", "maps", "altstack", "sigaction", "start",
                         "exit1", "exit0"} => fpc = "idle" /\ alive = <<>>
  /\ pc \in {"mmap", "exn", "maps", "altstack", "sigaction"} \cup Loading => Archived
  /\ fpc # "idle" => pc \in {"loading", "killed", "astray"}

LEMMA WholeArchive ==
  Archive(disk) = rootfs /\ IsDisk(disk) /\ Size(disk) <= ReadMax => Archived
BY ReadArchived

LEMMA SameArchive ==
  ASSUME Archived, rootfs' = rootfs
  PROVE  Archived'
BY DEF Archived, cpio_next, cpio_content, cpio_filesize

LEMMA SameFs ==
  ASSUME FsInv, WalkInv, UNCHANGED fsvars
  PROVE  FsInv' /\ WalkInv'
<1>1. UNCHANGED <<rootfs, execbufp, kmem, name, cph, mark, prog, alive, fpc>>
  BY DEF fsvars
<1>2. WalkInv'
  BY <1>1, SameArchive DEF WalkInv, Holding
<1>3. /\ Top' = Top /\ Started' = Started /\ Elf' = Elf
      /\ AtTop(execbufp)' = AtTop(execbufp) /\ AtTop(mark)' = AtTop(mark)
  BY <1>1 DEF Top, AtTop, Started, Elf
<1>4. PageEnd(Top)' = PageEnd(Top) /\ PageEnd(execbufp)' = PageEnd(execbufp)
  BY <1>1, <1>3 DEF PageEnd
<1>5. MemInv => MemInv'
  BY <1>1, <1>3, <1>4 DEF MemInv, Cleared
<1>6. FsTypes'
  BY <1>1 DEF FsInv, FsTypes
<1>7. AllCleared' => AllCleared
  BY <1>1 DEF AllCleared, Cleared
<1> QED BY <1>2, <1>5, <1>6, <1>7 DEF FsInv

LEMMA SameVm ==
  ASSUME VmInv, UNCHANGED vmvars
  PROVE  VmInv'
<1>1. UNCHANGED <<maps, at, rest, from, to, perms, vname, procmaps, ok, vpc>>
  BY DEF vmvars
<1>2. Skipped' = Skipped /\ LinesMatch' = LinesMatch
  BY <1>1 DEF Skipped, LinesMatch
<1>3. EntriesKept' <=> EntriesKept
  BY <1>1, <1>2 DEF EntriesKept, SpanAt
<1>4. EntriesApart' <=> EntriesApart
  BY <1>1 DEF EntriesApart
<1>5. \A x : (ToCover(x)' <=> ToCover(x)) /\ (InTable(x)' <=> InTable(x))
  BY <1>1, <1>2 DEF ToCover, InTable, SpanAt
<1>c. \A x : Coverable(x)' <=> Coverable(x)
  BY <1>1, <1>2 DEF Coverable, SpanAt, SizedAt
<1>6. VmTypes'
  BY <1>1 DEF VmInv, VmTypes
<1>7. TableInv'
  BY <1>1, <1>2, <1>3, <1>4, <1>5, <1>c DEF VmInv, TableInv
<1> QED BY <1>1, <1>6, <1>7 DEF VmInv

LEMMA InitBoot == Init => BootInv
<1> SUFFICES ASSUME Init
             PROVE  BootInv
  OBVIOUS
<1>1. PICK h \in Hosts : maps = h.maps /\ disk = h.disk
  BY DEF Init
<1>2. IsMaps(maps) /\ IsDisk(disk)
  BY <1>1, BootAssumption DEF IsDisk
<1>3. VmInv
  BY <1>2, VmInitialInv DEF Init
<1>4. fpc = "idle" /\ alive = <<>> /\ pc = "args"
  BY DEF Init, FsInit
<1>5. FsInv
  <2>1. Top = 1 /\ PageEnd(Top)
    <3>1. 0 \in 0 .. Pages /\ PageSize * 0 + 1 = 1
      BY PageArith
    <3>2. Top = 1
      BY <1>4 DEF Top
    <3> QED BY <3>1, <3>2 DEF PageEnd
  <2>2. alive \in Seq(Started) /\ Len(alive) = 0 /\ 1 .. 0 = {}
    BY <1>4
  <2>3. prog \in AnyProg /\ execbufp \in Int /\ mark \in Int
    BY DEF Init, FsInit, NoProg, AnyProg, NULL
  <2>4. mark \in 0 .. MemBytes + 1 /\ AtTop(execbufp)
    BY <1>4, PageArith DEF Init, FsInit, NULL, AtTop
  <2>5. DOMAIN kmem = 1 .. MemBytes
    BY DEF Init, FsInit
  <2>6. MemInv
    BY <1>4, <2>1, <2>2, <2>4, <2>5 DEF MemInv
  <2>7. FsTypes
    BY <1>4, <2>2, <2>3, <2>5 DEF FsTypes
  <2> QED BY <2>6, <2>7 DEF FsInv
<1>6. WalkInv
  BY <1>4 DEF WalkInv
<1> QED BY <1>2, <1>3, <1>4, <1>5, <1>6, InitInv DEF BootInv, Loading

LEMMA NextBoot == BootInv /\ [Next]_vars => BootInv'
<1> SUFFICES ASSUME BootInv, [Next]_vars
             PROVE  BootInv'
  OBVIOUS
<1> USE DEF Loading, Unread
<1>0. Inv'
  BY NextInv DEF BootInv
<1> DEFINE Still == UNCHANGED fsvars /\ UNCHANGED vmvars /\ disk' = disk
<1>s. ASSUME Still
      PROVE  /\ VmInv' /\ FsInv' /\ WalkInv' /\ IsDisk(disk')
             /\ Archived => Archived'
             /\ fpc' = fpc /\ alive' = alive
  BY <1>s, SameFs, SameVm, SameArchive DEF BootInv, fsvars
<1>1. CASE HostFails
  <2>1. pc \in Unread \cup {"mmap"} /\ pc' = "exit1" /\ Still
    <3>1. \A k \in 1 .. 6 : MainSteps[k] \in Unread \cup {"mmap"}
      <4>1. 1 .. 6 = {1, 2, 3, 4, 5, 6}
        OBVIOUS
      <4> QED BY <4>1 DEF MainSteps
    <3> QED BY <1>1, <3>1 DEF HostFails
  <2> QED BY <1>0, <1>s, <2>1 DEF BootInv
<1>2. CASE HostGrants
  <2>1. /\ pc \in Unread \cup {"mmap"} /\ Still
        /\ pc = "mmap" => pc' = "exn"
        /\ pc # "mmap" => pc' \in Unread
    <3>1. \A k \in 1 .. 6 : /\ MainSteps[k] \in Unread \cup {"mmap"}
                            /\ MainSteps[k] = "mmap" => MainSteps[k + 1] = "exn"
                            /\ MainSteps[k] \notin {"read", "mmap"} => MainSteps[k + 1] \in Unread
      <4>1. 1 .. 6 = {1, 2, 3, 4, 5, 6}
        OBVIOUS
      <4> QED BY <4>1 DEF MainSteps
    <3> QED BY <1>2, <3>1 DEF HostGrants
  <2> QED BY <1>0, <1>s, <2>1 DEF BootInv
<1>3. CASE ReadRootfs
  <2>1. /\ pc = "read" /\ pc' = "mmap" /\ disk' = disk /\ UNCHANGED vmvars
        /\ Archive(disk) = rootfs' /\ Size(disk) <= ReadMax
        /\ UNCHANGED <<execbufp, kmem, name, cph, mark, prog, alive, fpc>>
    BY <1>3 DEF ReadRootfs
  <2>2. fpc = "idle" /\ alive = <<>>
    BY <2>1 DEF BootInv
  <2>3. Archived'
    <3>1. (Archive(disk) = rootfs /\ IsDisk(disk) /\ Size(disk) <= ReadMax => Archived)'
      BY WholeArchive, PTL
    <3>2. Archive(disk') = rootfs' /\ IsDisk(disk') /\ Size(disk') <= ReadMax
      BY <2>1 DEF BootInv
    <3> QED BY <3>1, <3>2
  <2>4. FsInv'
    <3>1. alive' \in Seq(Started') /\ Len(alive') = 0 /\ 1 .. 0 = {}
      BY <2>1, <2>2
    <3>2. Top' = Top /\ AtTop(execbufp)' = AtTop(execbufp)
      BY <2>1 DEF Top, AtTop
    <3>3. PageEnd(Top)' = PageEnd(Top)
      BY <3>2 DEF PageEnd
    <3>4. FsTypes'
      BY <2>1 DEF BootInv, FsInv, FsTypes
    <3>5. AllCleared' => AllCleared
      BY <2>1 DEF AllCleared, Cleared
    <3>6. ASSUME MemInv PROVE MemInv'
      BY <2>1, <2>2, <3>1, <3>2, <3>3, <3>6 DEF MemInv
    <3> QED BY <3>4, <3>5, <3>6 DEF BootInv, FsInv
  <2>5. WalkInv'
    BY <2>1, <2>2 DEF WalkInv
  <2> QED BY <1>0, <2>1, <2>2, <2>3, <2>4, <2>5, SameVm DEF BootInv
<1>4. CASE ExnInit \/ ReadsMaps
  <2>1. /\ pc \in {"exn", "maps"} /\ pc' \in {"maps", "altstack", "exit0"}
        /\ host_vm_init \/ VmStep
        /\ disk' = disk /\ UNCHANGED fsvars
    BY <1>4 DEF ExnInit, ReadsMaps
  <2>2. VmInv'
    BY <2>1, VmStepInv DEF BootInv
  <2>3. FsInv' /\ WalkInv' /\ rootfs' = rootfs /\ fpc' = fpc /\ alive' = alive
    BY <2>1, SameFs DEF BootInv, fsvars
  <2> QED BY <1>0, <2>1, <2>2, <2>3, SameArchive DEF BootInv
<1>5. CASE ExnInitFails \/ AltStack \/ SigAction
  <2>1. /\ pc \in {"altstack", "sigaction"} /\ pc' \in {"sigaction", "start"} /\ Still
    BY <1>5 DEF ExnInitFails, AltStack, SigAction
  <2> QED BY <1>0, <1>s, <2>1 DEF BootInv
<1>6. CASE KernelStart \/ UserRuns
  <2>1. PICK n \in Names \cup {First} :
          (CallFirst(n) /\ alive = <<>>) \/ CallRun(n)
    BY <1>6 DEF KernelStart, UserRuns, BootInv
  <2>2. /\ pc \in {"start", "user"} /\ pc' = "loading" /\ disk' = disk /\ UNCHANGED vmvars
        /\ rootfs' = rootfs /\ alive' = alive
    BY <1>6 DEF KernelStart, UserRuns, CallFirst, CallRun, Call
  <2>3. FsInv'
    BY <2>1, CallMem DEF BootInv
  <2>4. WalkInv'
    BY <2>1, <2>2, CallWalk, BootAssumption DEF BootInv
  <2> QED BY <1>0, <2>2, <2>3, <2>4, SameVm, SameArchive DEF BootInv
<1>7. CASE Loads
  <2>1. /\ pc = "loading" /\ pc' = "loading" /\ disk' = disk /\ UNCHANGED vmvars /\ FsStep
    BY <1>7 DEF Loads, mainvars
  <2>2. rootfs' = rootfs
    BY <2>1 DEF FsStep, NotFound, Found, Seek, LoadRefuses, LoadKilled, LoadCopies,
                StackTaken, StackFails
  <2>3. FsInv' /\ WalkInv'
    BY <2>1, FsStepMem, FsStepWalk, BootAssumption DEF BootInv
  <2> QED BY <1>0, <2>1, <2>2, <2>3, SameVm, SameArchive DEF BootInv
<1>8. CASE Loaded
  <2>1. /\ pc = "loading" /\ pc' \in {"panic", "user"} /\ disk' = disk
        /\ UNCHANGED vmvars
        /\ fpc \in {"started", "failed"} /\ fpc' = "idle"
        /\ UNCHANGED <<rootfs, execbufp, kmem, mark, prog, alive>>
    BY <1>8 DEF Loaded
  <2>2. FsInv' /\ WalkInv'
    BY <2>1, IdleAgain DEF BootInv, WalkInv
  <2> QED BY <1>0, <2>1, <2>2, SameVm, SameArchive DEF BootInv
<1>9. CASE ImageLost
  <2>1. pc = "loading" /\ pc' \in {"killed", "astray"} /\ Still
    BY <1>9 DEF ImageLost
  <2> QED BY <1>0, <1>s, <2>1 DEF BootInv
<1>10. CASE RunRefused \/ Ended \/ UNCHANGED vars
  <2>1. pc' = pc /\ Still
    BY <1>10 DEF RunRefused, Ended, vars, mainvars
  <2> QED BY <1>0, <1>s, <2>1 DEF BootInv
<1> QED
  BY <1>1, <1>2, <1>3, <1>4, <1>5, <1>6, <1>7, <1>8, <1>9, <1>10 DEF Next, Step

(* The variables of boot, of the map of memory and of load keep their      *)
(* types; the table of mappings never outgrows its 128 elements. execbufp  *)
(* and what load allots stay in the memory of programs unless a segment    *)
(* that reaches past the last address has been loaded.                     *)
THEOREM BootTyped == Spec => []TypeOK
<1>1. BootInv => TypeOK
  <2> SUFFICES ASSUME BootInv
               PROVE  TypeOK
    OBVIOUS
  <2>1. VmTypeOK /\ FsTypeOK
    BY VmTyped, MemTypes DEF BootInv
  <2>2. pc \in {MainSteps[k] : k \in DOMAIN MainSteps} \cup Ends
                 \cup {"maps", "altstack", "sigaction", "start", "loading", "user"}
    <3>1. /\ DOMAIN MainSteps = 1 .. 7 /\ MainSteps[1] = "args" /\ MainSteps[2] = "stat"
          /\ MainSteps[3] = "malloc" /\ MainSteps[4] = "open" /\ MainSteps[5] = "read"
          /\ MainSteps[6] = "mmap" /\ MainSteps[7] = "exn"
      BY DEF MainSteps
    <3>2. {"args", "stat", "malloc", "open", "read", "mmap", "exn"}
             \subseteq {MainSteps[k] : k \in DOMAIN MainSteps}
      BY <3>1
    <3> QED BY <3>2 DEF BootInv, Inv
  <2> QED BY <2>1, <2>2 DEF BootInv, Inv, TypeOK
<1> QED BY <1>1, InitBoot, NextBoot, PTL DEF Spec

(* host_vm_init enters the image and nothing of the holes, whatever the    *)
(* lines of /proc/self/maps are, as long as fscanf's format matches them   *)
(* to their end. What is left out are the stack, libpthread and nameless   *)
(* mappings behind them; the rest of a mapping whose size is no unsigned;  *)
(* and what a full table, which is said, has no room for.                  *)
THEOREM TableOfImage == Spec => []TableIsTheImage
<1>1. BootInv => TableIsTheImage
  BY TableLemma DEF BootInv
<1> QED BY <1>1, InitBoot, NextBoot, PTL DEF Spec

(* find_exe walks from header to header of any archive that was read whole *)
(* and stops at the first file of the name it looks for.                   *)
THEOREM FirstFound == Spec => []FindsFirst
<1>1. BootInv => FindsFirst
  BY WalkFinds DEF BootInv
<1> QED BY <1>1, InitBoot, NextBoot, PTL DEF Spec

(* Programs lie one behind the other in whole pages with their stacks,     *)
(* hold their files' segments, and no load touches another: for any page   *)
(* size, any width of the integers and any files, as long as no program    *)
(* that runs has a segment that reaches past the last address, where the   *)
(* end that memset computes wraps around.                                  *)
THEOREM ProgramsWhole == Spec => []ProgramsAreWhole
<1>1. BootInv => ProgramsAreWhole
  BY MemWhole DEF BootInv
<1> QED BY <1>1, InitBoot, NextBoot, PTL DEF Spec

(* load's arithmetic, in bytes and with its truncations, does what the     *)
(* allocator of pages does that the process table is modelled with, but    *)
(* for segments that reach past the last address.                          *)
THEOREM LoadedInPages == Spec => LoadsInPages
<1> DEFINE Goal ==
       Tidy /\ fpc = "load" /\ Accepts(Elf) /\ ~ MemsetWraps =>
         LET b == InPages!alloc(PageOf(execbufp),
                                (Segment.memsz + PageSize - 1) \div PageSize)
         IN IF b.ret = NULL THEN fpc' = "killed"
            ELSE /\ fpc' = "stack"
                 /\ PageOf(prog'.load) = b.ret
                 /\ PageOf(execbufp') = b.bp
<1>1. BootInv /\ [Next]_vars => [Goal]_fsvars
  <2> SUFFICES ASSUME BootInv, [Next]_vars, Tidy, fpc = "load", Accepts(Elf),
                      ~ MemsetWraps, fsvars' # fsvars
               PROVE  Goal
    BY Zenon
  <2> HIDE DEF Goal
  <2>1. pc \in {"loading", "killed", "astray"}
    BY DEF BootInv
  <2>2. CASE Loads
    BY <2>2, LoadPages DEF Loads, BootInv, Goal
  <2>3. CASE ~ Loads
    <3>1. UNCHANGED fsvars
      <4>1. \A k \in 1 .. 6 : MainSteps[k] \notin {"loading", "killed", "astray"}
        BY MainStepsLemma
      <4> QED
        BY <2>1, <2>3, <4>1 DEF Next, Step, HostFails, HostGrants, ReadRootfs, ExnInit,
           ReadsMaps, ExnInitFails, AltStack, SigAction, KernelStart, Loaded, ImageLost,
           UserRuns, RunRefused, Ended, vars
    <3> QED BY <3>1
  <2> QED BY <2>2, <2>3
<1>2. Spec => [][Goal]_fsvars
  BY <1>1, InitBoot, NextBoot, PTL DEF Spec
<1> QED BY <1>2 DEF LoadsInPages
=============================================================================
