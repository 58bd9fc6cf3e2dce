-------------------------------- MODULE KUtil --------------------------------
(***************************************************************************)
(* What every part of the kernel shares: the null pointer.                 *)
(***************************************************************************)
EXTENDS Integers

NULL == 0
=============================================================================
