----------------------------- MODULE KSysRefines -----------------------------
(***************************************************************************)
(* KSys implements ProcStack. The history variable "chain" lists the       *)
(* processes from the first to curp; it follows curp and restricts nothing.*)
(***************************************************************************)
EXTENDS KSys, Sequences

VARIABLE chain

hvars == <<vars, chain>>

HInit == Init /\ chain = <<>>

(* A step that goes back along "prev" pops, any other change of curp       *)
(* pushes.                                                                 *)
HNext ==
  /\ Next
  /\ chain' = IF curp' = curp THEN chain
              ELSE IF curp # NULL /\ curp' = word[curp]
              THEN SubSeq(chain, 1, Len(chain) - 1)
              ELSE Append(chain, curp')

HSpec == HInit /\ [][HNext]_hvars

(* The frame of process s with registers c.                                *)
FrameOf(s, c) ==
  [text |-> [i \in 1 .. proc[s].loadsz |-> mem[proc[s].load + i - 1]],
   args |-> mem[proc[s].argv],
   off |-> c.off, rax |-> c.rax, oth |-> c.oth,
   stack |-> [k \in 0 .. StackPages - 1 |-> mem[c.sp - k]],
   codeAt |-> IF proc[s].code = NULL THEN -1
              ELSE proc[word[s]].savectx.sp - proc[s].code,
   used |-> proc[s].stack + proc[s].stacksz - MemBase]

Running == IF curp = NULL THEN [text |-> <<>>] ELSE FrameOf(curp, ctx)

Suspended == [i \in 1 .. Len(chain) - 1 |->
                FrameOf(chain[i], proc[chain[i]].savectx)]

(* The kernel gives run() and exit() the semantics of a procedure call: a  *)
(* suspended program keeps its registers and memory, it gets its result    *)
(* and exit code, arguments reach the child unchanged, and a run fails     *)
(* only for want of a file, a process or memory really in use.             *)
Abstract == INSTANCE ProcStack WITH running <- Running, suspended <- Suspended
ImplementsProcStack == Abstract!ASpec
=============================================================================
