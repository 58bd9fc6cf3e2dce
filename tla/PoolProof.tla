------------------------------ MODULE PoolProof ------------------------------
(***************************************************************************)
(* The pool is correct for any number of objects: its type, its free list, *)
(* and that it implements the allocator its clients rely on. The inductive *)
(* invariant is the two properties together.                               *)
(***************************************************************************)
EXTENDS Pool, PoolLemmas

Inv == TypeOK /\ FreeListIsTheRest

(* The invariant in the terms of the lemmas.                               *)
Sound == Consistent(pool, word, held) /\ ret \in SlotOrNull /\ turn \in {0, 1}

LEMMA InvIsSound == Inv <=> Sound
<1>1. Consistent(pool, word, held) => held \subseteq Slot
  BY UsedAreSlots DEF Consistent
<1> QED BY <1>1 DEF Inv, Sound, TypeOK, FreeListIsTheRest, Consistent

LEMMA InitInv == Init => Inv
  BY InvIsSound, InitLemma DEF Init, Sound, SlotOrNull

LEMMA NextInv == Inv /\ [Next]_vars => Inv'
<1> SUFFICES ASSUME Inv, [Next]_vars PROVE Inv'
  OBVIOUS
<1>1. Consistent(pool, word, held) /\ ret \in SlotOrNull /\ turn \in {0, 1}
  BY InvIsSound DEF Sound
<1> SUFFICES /\ Consistent(pool', word', held') /\ ret' \in SlotOrNull
             /\ turn' \in {0, 1}
  <2>1. Sound' => Inv'
    BY InvIsSound, PTL
  <2> QED BY <2>1 DEF Sound
<1>2. CASE Alloc
  <2>1. PICK r : r = pool_alloc(pool, word)
    OBVIOUS
  <2>2. /\ pool' = r.pool /\ ret' = r.ret /\ word' = word
        /\ held' = held \cup ({r.ret} \ {NULL}) /\ turn' = 1 - turn
    BY <1>2, <2>1 DEF Alloc
  <2>3. /\ r.ret \in SlotOrNull
        /\ r.ret # NULL => Consistent(r.pool, word, held \cup {r.ret})
        /\ r.ret = NULL => r.pool = pool
    BY <1>1, <2>1, AllocLemma
  <2>4. held' = IF r.ret = NULL THEN held ELSE held \cup {r.ret}
    BY <2>2
  <2> QED BY <1>1, <2>2, <2>3, <2>4
<1>3. ASSUME NEW s \in Slot, Free(s)
      PROVE  Consistent(pool', word', held') /\ ret' \in SlotOrNull /\ turn' \in {0, 1}
  <2>1. PICK r : r = pool_free(pool, word, s)
    OBVIOUS
  <2>2. /\ s \in held /\ pool' = r.pool /\ word' = r.word
        /\ held' = held \ {s} /\ ret' = ret /\ turn' = turn
    BY <1>3, <2>1 DEF Free
  <2>3. s \in held
    BY <2>2
  <2>4. Consistent(r.pool, r.word, held \ {s})
    BY <1>1, <2>1, <2>3, FreeLemma
  <2> QED BY <1>1, <2>2, <2>4
<1>4. ASSUME NEW s \in Slot, NEW w \in SlotOrNull, Use(s, w)
      PROVE  Consistent(pool', word', held') /\ ret' \in SlotOrNull /\ turn' \in {0, 1}
  <2>1. /\ s \in held /\ word' = [word EXCEPT ![s] = w]
        /\ pool' = pool /\ held' = held /\ ret' = ret /\ turn' = turn
    BY <1>4 DEF Use
  <2>2. s \in held
    BY <2>1
  <2>3. Consistent(pool, [word EXCEPT ![s] = w], held)
    BY <1>1, <2>2, WriteLemma
  <2> QED BY <1>1, <2>1, <2>3
<1>5. CASE UNCHANGED vars
  BY <1>1, <1>5 DEF vars
<1> QED BY <1>2, <1>3, <1>4, <1>5 DEF Next

(* Whatever clients do, pointers of the pool stay inside its array.        *)
THEOREM PoolTypeCorrect == Spec => []TypeOK
<1>1. Spec => []Inv
  BY InitInv, NextInv, PTL DEF Spec
<1>2. Inv => TypeOK
  BY DEF Inv
<1> QED BY <1>1, <1>2, PTL

(* The free list is exactly the objects handed out before that nobody      *)
(* holds, for pools of any size and clients that write the link word.      *)
THEOREM FreeListCorrect == Spec => []FreeListIsTheRest
<1>1. Spec => []Inv
  BY InitInv, NextInv, PTL DEF Spec
<1>2. Inv => FreeListIsTheRest
  BY DEF Inv
<1> QED BY <1>1, <1>2, PTL

(* Every step of the pool is a step of the abstract allocator.             *)
LEMMA StepSimulation == Inv /\ [Next]_vars => [Abstract!ANext]_(Abstract!avars)
<1> SUFFICES ASSUME Inv, [Next]_vars PROVE [Abstract!ANext]_(Abstract!avars)
  OBVIOUS
<1>1. Consistent(pool, word, held) /\ Slot = 1 .. NSlots
  BY InvIsSound DEF Sound, Slot
<1>2. CASE Alloc
  <2>1. PICK r : r = pool_alloc(pool, word)
    OBVIOUS
  <2>2. ret' = r.ret /\ held' = held \cup ({r.ret} \ {NULL}) /\ turn' = 1 - turn
    BY <1>2, <2>1 DEF Alloc
  <2>3. /\ r.ret # NULL => /\ r.ret \in Slot \ held
                           /\ Consistent(r.pool, word, held \cup {r.ret})
        /\ r.ret = NULL => r.pool = pool /\ held = Slot
    <3>1. Consistent(pool, word, held)
      BY <1>1
    <3> QED BY <2>1, <3>1, AllocLemma
  <2>4. CASE r.ret # NULL
    <3>1. held' = held \cup {r.ret}
      BY <2>2, <2>4
    <3>2. Abstract!AAlloc
      BY <1>1, <2>2, <2>3, <2>4, <3>1 DEF Abstract!AAlloc
    <3> QED BY <3>2 DEF Abstract!ANext
  <2>5. CASE r.ret = NULL
    <3>1. Abstract!AExhausted
      BY <1>1, <2>2, <2>3, <2>5 DEF Abstract!AExhausted, NULL
    <3> QED BY <3>1 DEF Abstract!ANext
  <2> QED BY <2>4, <2>5
<1>3. ASSUME NEW s \in Slot, Free(s) PROVE Abstract!ANext
  BY <1>3 DEF Free, Abstract!AFree, Abstract!ANext
<1>4. ASSUME NEW s \in Slot, NEW w \in SlotOrNull, Use(s, w)
      PROVE  UNCHANGED Abstract!avars
  BY <1>4 DEF Use, Abstract!avars
<1>5. CASE UNCHANGED vars
  BY <1>5 DEF vars, Abstract!avars
<1> QED BY <1>2, <1>3, <1>4, <1>5 DEF Next

(* kernel/pool.c implements SlotAlloc: an allocation returns an object     *)
(* nobody holds, and NULL only when all are held.                          *)
THEOREM PoolImplementsSlotAlloc == Spec => ImplementsSlotAlloc
<1>1. Init => Abstract!AInit
  BY DEF Init, Abstract!AInit, NULL
<1>2. Spec => []Inv
  BY InitInv, NextInv, PTL DEF Spec
<1>3. Spec => Abstract!ASpec
  BY <1>1, <1>2, StepSimulation, PTL DEF Spec, Abstract!ASpec
<1> QED BY <1>3 DEF ImplementsSlotAlloc
=============================================================================
