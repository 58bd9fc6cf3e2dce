------------------------------- MODULE HostVm -------------------------------
(***************************************************************************)
(* The trap path of hosthal/exn.c and kernel/exn.c, one mprotect at a time.*)
(* Programs run with the image's own memory (the entries of                *)
(* kmmap.procmaps: text and data of the kernel, heap, libraries) protected *)
(* from them. Every signal enters sighnd, which lifts the protection, lets *)
(* exn_do run the handler for the signal and puts the protection back.     *)
(*                                                                         *)
(* Only host_vm_prot, sysmprotect, sighnd, kmmap and the signal stack lie  *)
(* outside the protected entries; all other code of the image ("kernel     *)
(* code" below) faults while its entry is protected. sa_mask is empty and  *)
(* SA_NODEFER is not set: while a handler runs, its own signal is blocked  *)
(* and every other signal may interrupt it.                                *)
(***************************************************************************)
EXTENDS Integers, Sequences, FiniteSets

CONSTANTS
  NMaps,       \* entries of kmmap.procmaps in use
  KernelMaps,  \* the entries kernel code cannot run without
  Procs,       \* processes
  NoProc,      \* current_process() before run_first
  SEGV,        \* SIGSEGV, raised by "int $0x81" and by any bad access
  Async,       \* the signals that arrive from outside
  When         \* where they arrive: subset of {"boot", "user", "handler"}

Maps == 1 .. NMaps

ASSUME HostVmAssumption ==
  /\ NMaps \in Nat \ {0}
  /\ KernelMaps \subseteq Maps /\ KernelMaps # {}
  /\ NoProc \notin Procs /\ Procs # {}
  /\ SEGV \notin Async
  /\ When \subseteq {"boot", "user", "handler"}

VARIABLES
  locked,      \* the entries that are protected now
  granted,     \* the process whose text and stack were last made accessible
  cur,         \* curp of kernel/ksys.c
  frames,      \* the activations of sighnd, the innermost last
  where        \* what the thread does below them

vars == <<locked, granted, cur, frames, where>>

(* The thread below all handlers: in main() and run_first before and after *)
(* curp is set, in a program, or gone.                                     *)
Wheres == {"boot", "started", "user", "halted", "killed"}

(* sighnd: host_vm_prot(true), entry by entry; exn_do; in it, for a system *)
(* call, syscall_do; host_vm_prot(false): current_process(), entry by      *)
(* entry, then the process's own memory; return.                           *)
Pcs == {"restore", "exn", "syscall", "curp", "lock", "grant", "ret"}
KernelPcs == {"exn", "syscall", "curp"}

(* An activation: its signal, whether "int $0x81" raised it, its program   *)
(* counter, the loop index, and the process it read as current.            *)
Frame == [sig : Async \cup {SEGV}, int : BOOLEAN, pc : Pcs,
          i : 1 .. NMaps + 1, cp : Procs \cup {NoProc}]

Init == /\ locked = {}
        /\ granted = NoProc
        /\ cur = NoProc
        /\ frames = <<>>
        /\ where = "boot"

Alive == where \in {"boot", "started", "user"}
InHandler == frames # <<>>
Top == frames[Len(frames)]
Blocked == {frames[k].sig : k \in DOMAIN frames}

(* Kernel code can run.                                                    *)
Open == locked \cap KernelMaps = {}

Enter(sig, int) ==
  frames' = Append(frames, [sig |-> sig, int |-> int, pc |-> "restore",
                            i |-> 1, cp |-> NoProc])
At(pc) == Alive /\ InHandler /\ Top.pc = pc
Become(f) == frames' = [frames EXCEPT ![Len(frames)] = f]
Goto(pc) == Become([Top EXCEPT !.pc = pc, !.i = 1])
NextEntry == Become([Top EXCEPT !.i = @ + 1])
-----------------------------------------------------------------------------
(* run_first sets curp ...                                                 *)
Start ==
  /\ where = "boot" /\ ~InHandler /\ Open
  /\ cur' \in Procs
  /\ where' = "started"
  /\ UNCHANGED <<locked, granted, frames>>

(* ... and calls the entry of the first program.                           *)
CallEntry ==
  /\ where = "started" /\ ~InHandler /\ Open
  /\ where' = "user"
  /\ UNCHANGED <<locked, granted, cur, frames>>

(* The program executes "int $0x81", or another faulting instruction.      *)
Trap ==
  /\ where = "user" /\ ~InHandler
  /\ \E int \in BOOLEAN : Enter(SEGV, int)
  /\ UNCHANGED <<locked, granted, cur, where>>

(* A signal from outside arrives.                                          *)
Signal ==
  /\ Alive
  /\ (IF InHandler THEN "handler" ELSE IF where = "user" THEN "user" ELSE "boot")
       \in When
  /\ \E sig \in Async \ Blocked : Enter(sig, FALSE)
  /\ UNCHANGED <<locked, granted, cur, where>>
-----------------------------------------------------------------------------
(* Faulty variants of the steps below: the loops stop one entry early or   *)
(* run past the array, or never advance; the process to open is the one    *)
(* read before the system call.                                            *)
Restore_Early ==
  /\ At("restore")
  /\ IF Top.i < NMaps
     THEN /\ locked' = locked \ {Top.i}
          /\ NextEntry
     ELSE Goto("exn") /\ UNCHANGED locked
  /\ UNCHANGED <<granted, cur, where>>
Restore_Past ==
  /\ At("restore")
  /\ IF Top.i <= NMaps + 1
     THEN /\ locked' = locked \ {Top.i}
          /\ NextEntry
     ELSE Goto("exn") /\ UNCHANGED locked
  /\ UNCHANGED <<granted, cur, where>>
Restore_Stays ==
  /\ At("restore")
  /\ locked' = locked \ {Top.i}
  /\ UNCHANGED <<frames, granted, cur, where>>
Lock_Early ==
  /\ At("lock")
  /\ IF Top.i < NMaps
     THEN /\ locked' = locked \cup {Top.i}
          /\ NextEntry
     ELSE Goto("grant") /\ UNCHANGED locked
  /\ UNCHANGED <<granted, cur, where>>
SyscallDo_StaleProc ==
  /\ At("syscall") /\ Open
  /\ cur' \in Procs
  /\ Become([Top EXCEPT !.pc = "lock", !.i = 1, !.cp = cur])
  /\ UNCHANGED <<locked, granted, where>>

(* host_vm_prot(true): sysmprotect gives entry i its own protection back.  *)
Restore ==
  /\ At("restore")
  /\ IF Top.i <= NMaps
     THEN /\ locked' = locked \ {Top.i}
          /\ NextEntry
     ELSE Goto("exn") /\ UNCHANGED locked
  /\ UNCHANGED <<granted, cur, where>>

(* exn_do: only SIGSEGV has a handler, syscall_hnd, and it goes on to      *)
(* syscall_do only when RIP is at "int $0x81".                             *)
ExnDo ==
  /\ At("exn") /\ Open
  /\ Goto(IF Top.sig = SEGV /\ Top.int THEN "syscall" ELSE "curp")
  /\ UNCHANGED <<locked, granted, cur, where>>

(* The system call: run and exit change curp, the last exit ends the image.*)
SyscallDo ==
  /\ At("syscall") /\ Open
  /\ \/ cur' \in Procs /\ Goto("curp") /\ UNCHANGED where
     \/ where' = "halted" /\ UNCHANGED <<cur, frames>>
  /\ UNCHANGED <<locked, granted>>

(* host_vm_prot(false) first reads the process: its text and stack.        *)
ReadCurp ==
  /\ At("curp") /\ Open /\ cur # NoProc
  /\ Become([Top EXCEPT !.pc = "lock", !.i = 1, !.cp = cur])
  /\ UNCHANGED <<locked, granted, cur, where>>

(* It takes all access from entry i.                                       *)
Lock ==
  /\ At("lock")
  /\ IF Top.i <= NMaps
     THEN /\ locked' = locked \cup {Top.i}
          /\ NextEntry
     ELSE Goto("grant") /\ UNCHANGED locked
  /\ UNCHANGED <<granted, cur, where>>

(* It opens the text and the stack of the process it read.                 *)
Grant ==
  /\ At("grant")
  /\ granted' = Top.cp
  /\ Goto("ret")
  /\ UNCHANGED <<locked, cur, where>>

(* sighnd returns to what it interrupted.                                  *)
Return ==
  /\ At("ret")
  /\ frames' = SubSeq(frames, 1, Len(frames) - 1)
  /\ UNCHANGED <<locked, granted, cur, where>>

(* Kernel code runs into a protected entry, or host_vm_prot reads          *)
(* curp->load before there is a process. The host raises SIGSEGV: it kills *)
(* the image if SIGSEGV is blocked.                                        *)
KernelFaults ==
  /\ Alive
  /\ IF InHandler
     THEN Top.pc \in KernelPcs /\ (~Open \/ (Top.pc = "curp" /\ cur = NoProc))
     ELSE where \in {"boot", "started"} /\ ~Open

FaultKills ==
  /\ KernelFaults /\ SEGV \in Blocked
  /\ where' = "killed"
  /\ UNCHANGED <<locked, granted, cur, frames>>

FaultEnters ==
  /\ KernelFaults /\ SEGV \notin Blocked
  /\ Enter(SEGV, FALSE)
  /\ UNCHANGED <<locked, granted, cur, where>>

Stopped == ~Alive /\ UNCHANGED vars

HandlerStep == Restore \/ ExnDo \/ SyscallDo \/ ReadCurp \/ Lock \/ Grant \/ Return
KernelFault == FaultKills \/ FaultEnters
Next == Start \/ CallEntry \/ Trap \/ Signal \/ HandlerStep \/ KernelFault \/ Stopped

Spec == Init /\ [][Next]_vars

(* The thread runs: a handler that can go on does, and read() returns.     *)
FairSpec == Spec /\ WF_vars(HandlerStep \/ KernelFault) /\ WF_vars(Start \/ CallEntry)
-----------------------------------------------------------------------------
(* Every variable keeps its type.                                          *)
TypeOK == /\ locked \subseteq Maps
          /\ granted \in Procs \cup {NoProc}
          /\ cur \in Procs \cup {NoProc}
          /\ frames \in Seq(Frame)
          /\ where \in Wheres

(* A program that has been interrupted once never runs with an entry of    *)
(* the image accessible, whatever signals interrupted its handlers: the    *)
(* handler that returns to it has just protected them all.                 *)
ProgramsAreConfined ==
  (where = "user" /\ ~InHandler /\ granted # NoProc) => locked = Maps

(* When a program runs, the memory opened last is that of the process that *)
(* is current, not of the one that was current when the trap came.         *)
GrantIsCurrent ==
  (where = "user" /\ ~InHandler) => granted \in {cur, NoProc}

(* Kernel code never runs into a protected entry and never reads a process *)
(* that does not exist.                                                    *)
KernelRunsOpen == ~KernelFaults

(* Once no more signals arrive from outside, every trap and signal comes   *)
(* to an end, however its handlers were nested: all of them return, or the *)
(* image has ended. The one exception is the handler of a signal from      *)
(* outside to which a nested one returned with the image protected: its    *)
(* fault is handled and comes again.                                       *)
FaultsAgain == KernelFaults /\ ~Open /\ SEGV \notin Blocked
TrapsEnd ==
  <>[][~Signal]_vars => (InHandler ~> (~InHandler \/ ~Alive \/ FaultsAgain))
=============================================================================
