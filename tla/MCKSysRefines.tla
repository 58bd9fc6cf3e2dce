---------------------------- MODULE MCKSysRefines ----------------------------
(***************************************************************************)
(* KSysRefines with three processes, six pages and stacks of one page: sh  *)
(* needs 1 + 1 pages and big 2 + 1. On sh, sh a third sh fits and a fourth *)
(* is refused; a big there lacks room for its text. On sh, big the next sh *)
(* lacks room for its stack. As first programs, tall has no room for its   *)
(* stack and huge none for its text. v_big is too big for getargv. What    *)
(* the general registers hold is only copied, so it is interchangeable.    *)
(***************************************************************************)
EXTENDS KSysRefines, MCKSys, TLC

RPages == [p \in MCProg |-> CASE p = "sh" -> 1 [] p = "big" -> 2
                              [] p = "tall" -> 6 [] p = "huge" -> 7]
Registers == Permutations(Oth)
=============================================================================
