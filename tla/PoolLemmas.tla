----------------------------- MODULE PoolLemmas -----------------------------
(***************************************************************************)
(* What pool_alloc and pool_free of kernel/pool.c do to the free list, for *)
(* any number of objects. "held" is the set of objects clients hold; the   *)
(* free list is the rest of those used so far.                             *)
(***************************************************************************)
EXTENDS PoolOps, FiniteSetTheorems, TLAPS

(* A list without repetition over the objects, and one more object, are    *)
(* together no more than there are objects.                                *)
LEMMA RoomForOneMore ==
  ASSUME NEW n \in Nat, NEW f \in [1 .. n -> Slot], NEW s \in Slot,
         \A i, j \in 1 .. n : f[i] = f[j] => i = j,
         \A i \in 1 .. n : f[i] # s
  PROVE  n + 1 <= NSlots
<1> DEFINE g == [i \in 1 .. n + 1 |-> IF i = n + 1 THEN s ELSE f[i]]
<1>1. g \in [1 .. n + 1 -> Slot]
  OBVIOUS
<1>2. ~ \E i, j \in 1 .. n + 1 : i # j /\ g[i] = g[j]
  OBVIOUS
<1>3. IsFiniteSet(1 .. n + 1) /\ Cardinality(1 .. n + 1) = n + 1
  BY FS_Interval
<1>4. IsFiniteSet(Slot) /\ Cardinality(Slot) = NSlots
  BY FS_Interval, NSlotsAssumption DEF Slot
<1>5. ~ Cardinality(Slot) < Cardinality(1 .. n + 1)
  <2> HIDE DEF g
  <2> QED BY <1>1, <1>2, <1>3, <1>4, FS_PigeonHole
<1> QED BY <1>3, <1>4, <1>5, NSlotsAssumption

(* The pool p with the words "word" of the objects is as it should be when *)
(* clients hold the objects "held".                                        *)
Consistent(p, word, held) ==
  /\ p \in Pool
  /\ word \in [Slot -> SlotOrNull]
  /\ held \subseteq Used(p)
  /\ FreeListIs(p, word, Used(p) \ held)

(* Used objects are objects.                                               *)
LEMMA UsedAreSlots ==
  ASSUME NEW p \in Pool
  PROVE  Used(p) \subseteq Slot
  BY NSlotsAssumption DEF Pool, Used, Slot, freeend

(* Writing an object that is not on the list leaves the list alone.        *)
LEMMA WriteOffList ==
  ASSUME NEW p, NEW word \in [Slot -> SlotOrNull], NEW free \in SUBSET Slot,
         FreeListIs(p, word, free), NEW s \in Slot \ free, NEW w
  PROVE  FreeListIs(p, [word EXCEPT ![s] = w], free)
<1>1. PICK n \in 0 .. NSlots : \E f \in [1 .. n -> free] :
        Links(p, word, n, f) /\ \A t \in free : \E i \in 1 .. n : f[i] = t
  BY DEF FreeListIs
<1>2. PICK f \in [1 .. n -> free] :
        Links(p, word, n, f) /\ \A t \in free : \E i \in 1 .. n : f[i] = t
  BY <1>1
<1>3. \A i \in 1 .. n : [word EXCEPT ![s] = w][f[i]] = word[f[i]]
  OBVIOUS
<1>4. Links(p, [word EXCEPT ![s] = w], n, f)
  BY <1>2, <1>3 DEF Links
<1> QED BY <1>2, <1>4 DEF FreeListIs

(* pool_alloc returns an object nobody holds and takes it off the list; it *)
(* returns NULL, and does nothing, only when every object is held.         *)
LEMMA AllocLemma ==
  ASSUME NEW p, NEW word, NEW held, Consistent(p, word, held),
         NEW r, r = pool_alloc(p, word)
  PROVE  /\ r.ret \in SlotOrNull
         /\ r.ret # NULL => /\ r.ret \in Slot \ held
                            /\ Consistent(r.pool, word, held \cup {r.ret})
         /\ r.ret = NULL => r.pool = p /\ held = Slot
<1>p. p \in Pool
  BY DEF Consistent
<1>w. word \in [Slot -> SlotOrNull]
  BY DEF Consistent
<1>h. held \in SUBSET Used(p)
  BY DEF Consistent
<1>l. FreeListIs(p, word, Used(p) \ held)
  BY DEF Consistent
<1> USE <1>p, <1>w, <1>h, NSlotsAssumption DEF Slot, SlotOrNull, freeend, NULL
<1>1. PICK n \in 0 .. NSlots : \E f \in [1 .. n -> Used(p) \ held] :
        Links(p, word, n, f) /\ \A t \in Used(p) \ held : \E i \in 1 .. n : f[i] = t
  BY <1>l DEF FreeListIs
<1>2. PICK f \in [1 .. n -> Used(p) \ held] :
        Links(p, word, n, f) /\ \A t \in Used(p) \ held : \E i \in 1 .. n : f[i] = t
  BY <1>1
<1>3. CASE p.freestart < freeend
  <2>1. r = [ret |-> p.freestart, pool |-> [p EXCEPT !.freestart = @ + 1]]
    BY <1>3 DEF pool_alloc
  <2>2. r.ret = p.freestart /\ r.pool = [p EXCEPT !.freestart = @ + 1]
    BY <2>1
  <2>3. r.pool \in Pool /\ r.pool.freehead = p.freehead
    BY <1>3, <2>2 DEF Pool
  <2>4. Used(r.pool) = Used(p) \cup {r.ret} /\ r.ret \notin Used(p) /\ r.ret \in Slot
    BY <1>3, <2>2 DEF Pool, Used
  <2>5. Used(r.pool) \ (held \cup {r.ret}) = Used(p) \ held
    BY <2>4
  <2>6. Links(r.pool, word, n, f)
    BY <1>2, <2>3 DEF Links
  <2>7. FreeListIs(r.pool, word, Used(p) \ held)
    BY <1>2, <2>6 DEF FreeListIs
  <2>8. FreeListIs(r.pool, word, Used(r.pool) \ (held \cup {r.ret}))
    BY <2>5, <2>7
  <2>9. r.ret \in Slot \ held /\ held \cup {r.ret} \subseteq Used(r.pool)
    BY <2>4
  <2>10. r.ret # NULL /\ r.ret \in SlotOrNull
    BY <2>4
  <2>11. Consistent(r.pool, word, held \cup {r.ret})
    BY <2>3, <2>8, <2>9 DEF Consistent
  <2> QED BY <2>9, <2>10, <2>11
<1>4. CASE ~ p.freestart < freeend /\ p.freehead # NULL
  <2>1. r = [ret |-> p.freehead, pool |-> [p EXCEPT !.freehead = word[p.freehead]]]
    BY <1>4 DEF pool_alloc
  <2>2. r.ret = p.freehead /\ r.pool = [p EXCEPT !.freehead = word[p.freehead]]
    BY <2>1
  <2>3. n > 0 /\ r.ret = f[1] /\ 1 \in 1 .. n
    BY <1>2, <1>4, <2>2 DEF Links
  <2>4. r.pool \in Pool /\ r.pool.freestart = p.freestart
    BY <1>4, <2>2 DEF Pool
  <2>5. Used(r.pool) = Used(p)
    BY <2>4 DEF Used
  <2>6. r.ret \in Used(p) \ held /\ r.ret \in Slot
    BY <2>3, <1>4 DEF Pool, Used
  <2> DEFINE rest == Used(p) \ (held \cup {r.ret})
             h == [i \in 1 .. n - 1 |-> f[i + 1]]
  <2>7. \A i \in 1 .. n - 1 : i + 1 \in 1 .. n /\ f[i + 1] \in rest
    BY <1>2, <2>3 DEF Links
  <2>8. h \in [1 .. n - 1 -> rest]
    BY <2>7
  <2>9. r.pool.freehead = IF n - 1 = 0 THEN NULL ELSE h[1]
    <3>1. r.pool.freehead = word[f[1]]
      BY <1>2, <2>2, <2>3 DEF Links, Pool
    <3>2. word[f[1]] = IF n = 1 THEN NULL ELSE f[2]
      BY <1>2, <2>3 DEF Links
    <3>3. n - 1 # 0 => 1 \in 1 .. n - 1 /\ h[1] = f[2]
      BY <2>3
    <3> HIDE DEF h
    <3> QED BY <2>3, <3>1, <3>2, <3>3
  <2>10. \A i \in 1 .. n - 1 : word[h[i]] = IF i = n - 1 THEN NULL ELSE h[i + 1]
    BY <1>2, <2>7 DEF Links
  <2>11. \A i, j \in 1 .. n - 1 : h[i] = h[j] => i = j
    BY <1>2, <2>7 DEF Links
  <2>12. \A t \in rest : \E i \in 1 .. n - 1 : h[i] = t
    <3> SUFFICES ASSUME NEW t \in rest PROVE \E i \in 1 .. n - 1 : h[i] = t
      OBVIOUS
    <3>1. PICK i \in 1 .. n : f[i] = t
      BY <1>2
    <3>2. i # 1
      BY <2>3, <3>1
    <3>3. i - 1 \in 1 .. n - 1 /\ h[i - 1] = t
      BY <3>1, <3>2
    <3> QED BY <3>3
  <2>13. Links(r.pool, word, n - 1, h)
    <3> HIDE DEF h
    <3> QED BY <2>9, <2>10, <2>11 DEF Links
  <2>14. FreeListIs(r.pool, word, rest)
    <3>1. n - 1 \in 0 .. NSlots
      BY <2>3
    <3> HIDE DEF h, rest
    <3> QED BY <2>8, <2>12, <2>13, <3>1 DEF FreeListIs
  <2>15. Consistent(r.pool, word, held \cup {r.ret})
    BY <2>4, <2>5, <2>6, <2>14 DEF Consistent
  <2>16. r.ret \in Slot \ held /\ r.ret # NULL
    BY <2>6
  <2> QED BY <2>15, <2>16
<1>5. CASE ~ p.freestart < freeend /\ p.freehead = NULL
  <2>1. r.ret = NULL /\ r.pool = p
    BY <1>5 DEF pool_alloc
  <2>2. p.freestart = freeend /\ Used(p) = Slot
    BY <1>5 DEF Pool, Used
  <2>3. n = 0
    <3>1. SUFFICES ASSUME n # 0 PROVE FALSE
      OBVIOUS
    <3>2. f[1] \in Used(p) /\ p.freehead = f[1]
      BY <1>2, <3>1 DEF Links
    <3> QED BY <1>5, <3>2 DEF Used, Pool
  <2>4. Used(p) \ held = {}
    BY <1>2, <2>3
  <2> QED BY <2>1, <2>2, <2>4
<1> QED BY <1>3, <1>4, <1>5

(* pool_free puts an object a client holds in front of the list.           *)
LEMMA FreeLemma ==
  ASSUME NEW p, NEW word, NEW held, Consistent(p, word, held),
         NEW s \in held, NEW r, r = pool_free(p, word, s)
  PROVE  /\ Consistent(r.pool, r.word, held \ {s})
         /\ Used(r.pool) = Used(p)
         /\ r.word = [word EXCEPT ![s] = p.freehead]
<1>p. p \in Pool
  BY DEF Consistent
<1>w. word \in [Slot -> SlotOrNull]
  BY DEF Consistent
<1>h. held \in SUBSET Used(p)
  BY DEF Consistent
<1>l. FreeListIs(p, word, Used(p) \ held)
  BY DEF Consistent
<1> USE <1>p, <1>w, <1>h, NSlotsAssumption DEF Slot, SlotOrNull, freeend, NULL
<1>1. PICK n \in 0 .. NSlots : \E f \in [1 .. n -> Used(p) \ held] :
        Links(p, word, n, f) /\ \A t \in Used(p) \ held : \E i \in 1 .. n : f[i] = t
  BY <1>l DEF FreeListIs
<1>2. PICK f \in [1 .. n -> Used(p) \ held] :
        Links(p, word, n, f) /\ \A t \in Used(p) \ held : \E i \in 1 .. n : f[i] = t
  BY <1>1
<1>3. r.pool = [p EXCEPT !.freehead = s] /\ r.word = [word EXCEPT ![s] = p.freehead]
  BY DEF pool_free
<1>4. Used(p) \subseteq Slot
  BY DEF Used, Pool
<1>5. r.pool \in Pool /\ r.word \in [Slot -> SlotOrNull] /\ r.pool.freehead = s
  BY <1>3, <1>4 DEF Pool
<1>6. Used(r.pool) = Used(p)
  BY <1>3 DEF Used, Pool
<1>7. n + 1 \in 0 .. NSlots
  <2>1. f \in [1 .. n -> Slot] /\ s \in Slot
    BY <1>4
  <2>2. \A i, j \in 1 .. n : f[i] = f[j] => i = j
    BY <1>2 DEF Links
  <2>3. \A i \in 1 .. n : f[i] # s
    OBVIOUS
  <2>4. n \in Nat
    OBVIOUS
  <2>5. n + 1 <= NSlots
    <3> HIDE DEF Slot, SlotOrNull, freeend, NULL
    <3> QED BY <2>1, <2>2, <2>3, <2>4, RoomForOneMore
  <2> QED BY <2>5
<1> DEFINE free == Used(p) \ (held \ {s})
           h == [i \in 1 .. n + 1 |-> IF i = 1 THEN s ELSE f[i - 1]]
<1>8. h \in [1 .. n + 1 -> free]
  OBVIOUS
<1>9. r.pool.freehead = IF n + 1 = 0 THEN NULL ELSE h[1]
  BY <1>5
<1>10. \A i \in 1 .. n + 1 : r.word[h[i]] = IF i = n + 1 THEN NULL ELSE h[i + 1]
  <2> SUFFICES ASSUME NEW i \in 1 .. n + 1
               PROVE  r.word[h[i]] = IF i = n + 1 THEN NULL ELSE h[i + 1]
    OBVIOUS
  <2>1. CASE i = 1
    BY <1>2, <1>3, <1>4, <2>1 DEF Links
  <2>2. CASE i # 1
    <3>1. i - 1 \in 1 .. n /\ h[i] = f[i - 1] /\ f[i - 1] # s
      BY <2>2
    <3>2. r.word[h[i]] = word[f[i - 1]]
      BY <1>3, <1>4, <3>1
    <3>3. word[f[i - 1]] = IF i - 1 = n THEN NULL ELSE f[i - 1 + 1]
      BY <1>2, <3>1 DEF Links
    <3> QED BY <3>1, <3>2, <3>3
  <2> QED BY <2>1, <2>2
<1>11. \A i, j \in 1 .. n + 1 : h[i] = h[j] => i = j
  <2> SUFFICES ASSUME NEW i \in 1 .. n + 1, NEW j \in 1 .. n + 1, h[i] = h[j]
               PROVE  i = j
    OBVIOUS
  <2>1. \A k \in 2 .. n + 1 : k - 1 \in 1 .. n /\ h[k] = f[k - 1] /\ h[k] # s
    OBVIOUS
  <2>2. h[1] = s
    OBVIOUS
  <2>3. CASE i = 1 \/ j = 1
    BY <2>1, <2>2, <2>3
  <2>4. CASE i # 1 /\ j # 1
    <3>1. i - 1 = j - 1
      BY <1>2, <2>1, <2>4 DEF Links
    <3> QED BY <3>1
  <2> QED BY <2>3, <2>4
<1>12. \A t \in free : \E i \in 1 .. n + 1 : h[i] = t
  <2> SUFFICES ASSUME NEW t \in free PROVE \E i \in 1 .. n + 1 : h[i] = t
    OBVIOUS
  <2>1. CASE t = s
    BY <2>1
  <2>2. CASE t # s
    <3>1. PICK i \in 1 .. n : f[i] = t
      BY <1>2, <2>2
    <3>2. i + 1 \in 1 .. n + 1 /\ h[i + 1] = t
      BY <3>1
    <3> QED BY <3>2
  <2> QED BY <2>1, <2>2
<1>13. Links(r.pool, r.word, n + 1, h)
  <2> HIDE DEF h
  <2> QED BY <1>9, <1>10, <1>11 DEF Links
<1>14. FreeListIs(r.pool, r.word, free)
  <2> HIDE DEF h, free
  <2> QED BY <1>7, <1>8, <1>12, <1>13 DEF FreeListIs
<1>15. Consistent(r.pool, r.word, held \ {s})
  BY <1>5, <1>6, <1>14 DEF Consistent
<1> QED BY <1>3, <1>6, <1>15

(* A client's write to the first word of an object it holds.               *)
LEMMA WriteLemma ==
  ASSUME NEW p, NEW word, NEW held, Consistent(p, word, held),
         NEW s \in held, NEW w \in SlotOrNull
  PROVE  Consistent(p, [word EXCEPT ![s] = w], held)
<1>1. p \in Pool
  BY DEF Consistent
<1>2. word \in [Slot -> SlotOrNull]
  BY DEF Consistent
<1>3. Used(p) \ held \in SUBSET Slot /\ s \in Slot \ (Used(p) \ held)
  BY <1>1, UsedAreSlots DEF Consistent
<1>4. FreeListIs(p, word, Used(p) \ held)
  BY DEF Consistent
<1>5. FreeListIs(p, [word EXCEPT ![s] = w], Used(p) \ held)
  <2> DEFINE free == Used(p) \ held
  <2> HIDE DEF free
  <2>1. free \in SUBSET Slot /\ FreeListIs(p, word, free) /\ s \in Slot \ free
    BY <1>3, <1>4 DEF free
  <2>2. FreeListIs(p, [word EXCEPT ![s] = w], free)
    BY <1>2, <2>1, WriteOffList
  <2> QED BY <2>2 DEF free
<1> QED BY <1>1, <1>2, <1>5 DEF Consistent

(* The pool starts consistent, with nothing held.                          *)
LEMMA InitLemma == Consistent(pool_init, [s \in Slot |-> NULL], {})
<1> USE NSlotsAssumption DEF pool_init, Slot, SlotOrNull, NULL
<1>1. pool_init \in Pool /\ [s \in Slot |-> NULL] \in [Slot -> SlotOrNull]
  BY DEF Pool, freeend
<1>2. Used(pool_init) \ {} = {}
  BY DEF Used
<1>3. FreeListIs(pool_init, [s \in Slot |-> NULL], {})
  <2> DEFINE f == [i \in 1 .. 0 |-> NULL]
  <2>1. f \in [1 .. 0 -> {}] /\ Links(pool_init, [s \in Slot |-> NULL], 0, f)
    BY DEF Links
  <2>2. 0 \in 0 .. NSlots /\ \A s \in {} : \E i \in 1 .. 0 : f[i] = s
    OBVIOUS
  <2> HIDE DEF f
  <2> QED BY <2>1, <2>2 DEF FreeListIs
<1> HIDE DEF pool_init
<1> QED BY <1>1, <1>2, <1>3 DEF Consistent
=============================================================================
