------------------------------ MODULE SlotAlloc ------------------------------
(***************************************************************************)
(* What a client of kernel/pool.c relies on: an allocator of NSlots        *)
(* distinct objects. It says nothing of fresh objects, links or order.     *)
(***************************************************************************)
EXTENDS Integers

CONSTANT NSlots

VARIABLES held,      \* the objects clients hold
          ret,       \* what the last allocation returned (0 is NULL)
          turn       \* the number of allocations, modulo 2

avars == <<held, ret, turn>>

AInit == held = {} /\ ret = 0 /\ turn = 0

(* An allocation returns an object nobody holds ...                        *)
AAlloc == \E s \in (1 .. NSlots) \ held :
            /\ held' = held \cup {s}
            /\ ret' = s
            /\ turn' = 1 - turn

(* ... and fails only when every object is held.                           *)
AExhausted == /\ held = 1 .. NSlots
              /\ ret' = 0
              /\ turn' = 1 - turn
              /\ UNCHANGED held

AFree == \E s \in held :
           /\ held' = held \ {s}
           /\ UNCHANGED <<ret, turn>>

ANext == AAlloc \/ AExhausted \/ AFree

ASpec == AInit /\ [][ANext]_avars
=============================================================================
