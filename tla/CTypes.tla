------------------------------- MODULE CTypes -------------------------------
(***************************************************************************)
(* The integers of C, by the number of values they have: unsigned short,   *)
(* unsigned int and unsigned long. What an assignment to a narrower type   *)
(* loses, and where pointers wrap around, is told by these.                *)
(***************************************************************************)
EXTENDS Integers

CONSTANT Half              \* 2^16

ASSUME CTypesAssumption == Half \in Nat \ {0, 1} /\ Half % 2 = 0

Word == Half * Half
Long == Word * Word
=============================================================================
