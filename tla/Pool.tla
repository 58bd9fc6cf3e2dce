-------------------------------- MODULE Pool --------------------------------
(***************************************************************************)
(* kernel/pool.c with its clients: they allocate, write over the objects   *)
(* they hold (the first word, which is also the free-list link, included)  *)
(* and free them.                                                          *)
(***************************************************************************)
EXTENDS PoolOps

VARIABLES pool,      \* freestart and freehead
          word,      \* first word of every object: the client's, or the link
          held,      \* the objects clients hold
          ret,       \* what the last pool_alloc returned
          turn       \* the number of calls of pool_alloc, modulo 2: it tells
                     \* a second call with the same result from no call

vars == <<pool, word, held, ret, turn>>

Init == /\ pool = pool_init
        /\ word = [s \in Slot |-> NULL]
        /\ held = {}
        /\ ret = NULL
        /\ turn = 0

(* A client calls pool_alloc.                                              *)
Alloc ==
  LET r == pool_alloc(pool, word)
  IN /\ pool' = r.pool
     /\ ret' = r.ret
     /\ turn' = 1 - turn
     /\ held' = held \cup ({r.ret} \ {NULL})
     /\ UNCHANGED word

(* A client frees an object it holds.                                      *)
Free(s) ==
  LET r == pool_free(pool, word, s)
  IN /\ s \in held
     /\ pool' = r.pool
     /\ word' = r.word
     /\ held' = held \ {s}
     /\ UNCHANGED <<ret, turn>>

(* A client writes the first word of an object it holds (newp->prev).      *)
Use(s, w) ==
  /\ s \in held
  /\ word' = [word EXCEPT ![s] = w]
  /\ UNCHANGED <<pool, held, ret, turn>>

Next == \/ Alloc
        \/ \E s \in Slot : Free(s)
        \/ \E s \in Slot, w \in SlotOrNull : Use(s, w)

Spec == Init /\ [][Next]_vars
-----------------------------------------------------------------------------
(* The variables keep their types: pointers stay inside the array.         *)
TypeOK == /\ pool \in Pool
          /\ word \in [Slot -> SlotOrNull]
          /\ held \subseteq Slot
          /\ ret \in SlotOrNull
          /\ turn \in {0, 1}

(* Every object is exactly one of never used, held by a client and linked  *)
(* into the free list: nothing pool_alloc can return is in use, nothing    *)
(* freed is lost, and a client's writes never cut or tie the list.         *)
FreeListIsTheRest ==
  /\ held \subseteq Used(pool)
  /\ FreeListIs(pool, word, Used(pool) \ held)

(* The pool implements the allocator its clients see: an allocation        *)
(* returns an object nobody holds and NULL only when all are held.         *)
Abstract == INSTANCE SlotAlloc
ImplementsSlotAlloc == Abstract!ASpec
=============================================================================
