------------------------------- MODULE PoolOps -------------------------------
(***************************************************************************)
(* The object pool of kernel/pool.c as operators on its two pointers.      *)
(* A slot is the address of one object, numbered 1 .. NSlots in the order  *)
(* of the array behind the pool (slot i lies at mem + (i - 1) * membsz).   *)
(* A free object stores the SLIST link in its own first word, so the links *)
(* live in "word", memory that belongs to the client while it holds the    *)
(* object.                                                                 *)
(***************************************************************************)
EXTENDS KUtil

CONSTANT NSlots            \* number of objects of the array (procspace: 8)

ASSUME NSlotsAssumption == NSlots \in Nat \ {0}

Slot == 1 .. NSlots
SlotOrNull == Slot \cup {NULL}

(* freestart = freeend is the slot number one past the array.              *)
freeend == NSlots + 1

Pool == [freestart : 1 .. freeend, freehead : SlotOrNull]

(* POOL_INITIALIZER: everything is fresh, the free list is empty.          *)
pool_init == [freestart |-> 1, freehead |-> NULL]

(* Faulty variants of the two operations, used to test the properties:     *)
(* the bound of the array is off by one; the head is not taken off the     *)
(* free list; the freed object is not linked to the list.                  *)
pool_alloc_PastEnd(p, word) ==
  IF p.freestart <= freeend
  THEN [ret |-> p.freestart, pool |-> [p EXCEPT !.freestart = @ + 1]]
  ELSE [ret |-> NULL, pool |-> p]
pool_alloc_KeepsHead(p, word) ==
  IF p.freestart < freeend
  THEN [ret |-> p.freestart, pool |-> [p EXCEPT !.freestart = @ + 1]]
  ELSE [ret |-> p.freehead, pool |-> p]
pool_free_NoLink(p, word, s) ==
  [pool |-> [p EXCEPT !.freehead = s], word |-> word]

(* pool_alloc hands out never-used objects first, then the free list from  *)
(* its head, then NULL. "ret" is the value returned, "pool" the pool left. *)
pool_alloc(p, word) ==
  IF p.freestart < freeend
  THEN [ret |-> p.freestart, pool |-> [p EXCEPT !.freestart = @ + 1]]
  ELSE IF p.freehead # NULL
  THEN [ret |-> p.freehead, pool |-> [p EXCEPT !.freehead = word[p.freehead]]]
  ELSE [ret |-> NULL, pool |-> p]

(* pool_free writes the old head into the first word of the object and     *)
(* makes the object the head.                                              *)
pool_free(p, word, s) ==
  [pool |-> [p EXCEPT !.freehead = s],
   word |-> [word EXCEPT ![s] = p.freehead]]
-----------------------------------------------------------------------------
(* The objects handed out at least once.                                   *)
Used(p) == 1 .. p.freestart - 1

(* f lists the n objects of the free list from the head: freehead points   *)
(* to the first, the word of each to the next, the last one's is NULL, and *)
(* no object occurs twice.                                                 *)
Links(p, word, n, f) ==
  /\ p.freehead = IF n = 0 THEN NULL ELSE f[1]
  /\ \A i \in 1 .. n : word[f[i]] = IF i = n THEN NULL ELSE f[i + 1]
  /\ \A i, j \in 1 .. n : f[i] = f[j] => i = j

(* The free list holds the objects of the set "free", each once.           *)
FreeListIs(p, word, free) ==
  \E n \in 0 .. NSlots : \E f \in [1 .. n -> free] :
    /\ Links(p, word, n, f)
    /\ \A s \in free : \E i \in 1 .. n : f[i] = s
=============================================================================
