------------------------------- MODULE MCPool -------------------------------
(***************************************************************************)
(* Pool with four objects: enough for a free list of every order of three  *)
(* beside a held object.                                                   *)
(***************************************************************************)
EXTENDS Pool
=============================================================================
