------------------------------ MODULE MCHostVm ------------------------------
(***************************************************************************)
(* HostVm with three entries, one of which kernel code does not need, two  *)
(* processes and two outside signals.                                      *)
(***************************************************************************)
EXTENDS HostVm
=============================================================================
