------------------------------- MODULE MCKSys -------------------------------
(***************************************************************************)
(* The programs of the runs of KSys: with three processes, nine pages and  *)
(* stacks of two pages, "sh" needs 1 + 2 pages and "big" 3 + 2; "tall"     *)
(* leaves no room for its stack and "huge" has none for its text.          *)
(***************************************************************************)
EXTENDS KSys

MCProg == {"sh", "big", "tall", "huge"}
MCPages == [p \in MCProg |-> CASE p = "sh" -> 1 [] p = "big" -> 3
                               [] p = "tall" -> 8 [] p = "huge" -> 10]
MCArg0 == [v \in Vec |->
             CASE v = "v_sh" -> "sh" [] v = "v_big" -> "big"
               [] v = "v_tall" -> "tall" [] v = "v_huge" -> "huge"
               [] v = "v_missing" -> "missing" [] v = "v_empty" -> "noarg"]
=============================================================================
