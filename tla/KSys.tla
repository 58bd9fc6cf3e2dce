-------------------------------- MODULE KSys --------------------------------
(***************************************************************************)
(* The process table and the system calls of kernel/ksys.c, with the part  *)
(* of the trap path that changes their state: syscall_hnd (hosthal/exn.c)  *)
(* steps the program over "int $0x81" and stores the result in RAX,        *)
(* ctx_save and ctx_restore (hosthal/ctx.c) switch programs, and the last  *)
(* act of every trap is host_vm_prot(false) for the program that runs next.*)
(*                                                                         *)
(* There is one CPU and one running program, curp. sys_run starts a child  *)
(* on top of it and sys_exit goes back, so each system call is one action. *)
(*                                                                         *)
(* Addresses are page numbers: 1 .. MemPages is kernel_globals.mem, then   *)
(* comes the part of the host's main stack the first program runs on       *)
(* (run_first calls its entry on it) and the page of kernel_start's argv.  *)
(* kernel/ksys.c holds an unresolved merge; the side modelled is the one   *)
(* its callers use: int load(name, entry, proc) over alloc and freeup.     *)
(***************************************************************************)
EXTENDS PoolOps, ExecBuf

CONSTANTS
  StackPages,  \* stacksz, 0x2000, in pages
  Prog,        \* files of the root file system that load() accepts
  Pages,       \* Pages[p]: align(p_memsz, 0xfff) of program p, in pages
  ArgVec,      \* argument vectors programs build
  Arg0,        \* Arg0[v]: argv[0], a program, another name, or NoArg
  NoArg,       \* argv[0] = NULL
  TooBig,      \* argument vectors that do not fit getargv's buffers
  BootVecs,    \* kernel_start's { "shell", NULL }, one per root file system
  Codes,       \* exit codes
  Zero,        \* content of memory the host has just mapped
  Junk,        \* content a program cannot rely on
  CallSites,   \* offsets of "int $0x81" in a program's text
  BadSites,    \* offsets of instructions that raise another SIGSEGV
  Entry,       \* offset of the entry point (e_entry - p_vaddr)
  Oth,         \* contents of the general registers, RIP, RSP, RAX aside
  ArgvAt,      \* how many pages below RSP a program keeps argv and buffers
  CodeAt       \* how many pages below RSP it keeps the exit code it awaits

HostTop == MemPages + StackPages     \* RSP of the first program
BootArgv == HostTop + 1              \* the argv array of kernel_start
Addr == 1 .. BootArgv
AddrOrNull == Addr \cup {NULL}
Vec == ArgVec \cup BootVecs
Val == Vec \cup Codes \cup Prog \cup {Zero, Junk}

ASSUME KSysAssumption ==
  /\ StackPages \in Nat \ {0}
  /\ Pages \in [Prog -> Nat \ {0}]
  /\ BootVecs # {}
  /\ TooBig \subseteq Vec
  /\ NoArg \notin Prog
  /\ DOMAIN Arg0 = Vec
  /\ CallSites \subseteq Nat
  /\ BadSites \subseteq Nat \ CallSites
  /\ Entry \in Nat
  /\ Oth # {}
  /\ ArgvAt \subseteq 0 .. StackPages - 1
  /\ CodeAt \subseteq 0 .. StackPages - 1

VARIABLES
  pool,        \* procpool
  word,        \* first word of each procspace element: prev, or the link
  execbufp,    \* the bump pointer
  proc,        \* the other fields of each procspace element
  curp,        \* the running process
  ctx,         \* the registers of the running program
  mem,         \* content of every page
  prot,        \* protection of the pages of kernel_globals.mem
  mode         \* boot, user, halted, panic, or dead: killed by the host

vars == <<pool, word, execbufp, proc, curp, ctx, mem, prot, mode>>

(* Registers: RIP is an offset off in the text loaded at seg.              *)
Ctx == [seg : AddrOrNull, off : Nat, sp : AddrOrNull, rax : Int, oth : Oth]

Proc == [savectx : Ctx, freemark : MemBase .. MemEnd \cup {NULL},
         load : AddrOrNull, loadsz : Nat, stack : AddrOrNull, stacksz : Nat,
         argv : AddrOrNull, code : AddrOrNull]

(* procspace is static: all zero.                                          *)
ZeroProc(o) ==
  [savectx |-> [seg |-> NULL, off |-> 0, sp |-> NULL, rax |-> 0, oth |-> o],
   freemark |-> NULL, load |-> NULL, loadsz |-> 0, stack |-> NULL,
   stacksz |-> 0, argv |-> NULL, code |-> NULL]

(* main() maps the memory RWX, kernel_init records it, kernel_start builds *)
(* the first argv.                                                         *)
Init ==
  /\ pool = pool_init
  /\ word = [s \in Slot |-> NULL]
  /\ execbufp = NULL
  /\ curp = NULL
  /\ \E o \in Oth :
       /\ proc = [s \in Slot |-> ZeroProc(o)]
       /\ ctx = [seg |-> NULL, off |-> 0, sp |-> HostTop, rax |-> 0, oth |-> o]
  /\ \E v \in BootVecs : mem = [a \in Addr |-> IF a = BootArgv THEN v ELSE Zero]
  /\ prot = [a \in Page |-> "rwx"]
  /\ mode = "boot"
-----------------------------------------------------------------------------
(* load(name, ...): find_exe finds no such file or the ELF header is       *)
(* refused ("noexe"); or alloc returns NULL, which memset then writes to   *)
(* ("fault"); or the text is copied in.                                    *)
load(name, bp) ==
  IF name \notin Prog
  THEN [status |-> "noexe", loadp |-> NULL, bp |-> bp, mem |-> mem]
  ELSE LET b == alloc(bp, Pages[name])
       IN IF b.ret = NULL
          THEN [status |-> "fault", loadp |-> NULL, bp |-> b.bp, mem |-> mem]
          ELSE [status |-> "ok", loadp |-> b.ret, bp |-> b.bp,
                mem |-> [a \in Addr |-> IF a \in Span(b.ret, Pages[name])
                                        THEN name ELSE mem[a]]]

(* Faulty variant of the next definition: only the stack is opened.        *)
host_vm_prot_StackOnly(p) ==
  [a \in Page |-> IF a \in Span(p.stack, p.stacksz) THEN "rw" ELSE prot[a]]

(* host_vm_prot(false) for the process record p: its text RWX, its stack   *)
(* RW; the other pages of the memory keep what they had.                   *)
host_vm_prot(p) ==
  [a \in Page |-> IF a \in Span(p.stack, p.stacksz) THEN "rw"
                  ELSE IF a \in Span(p.load, p.loadsz) THEN "rwx"
                  ELSE prot[a]]

(* Faulty variants of the context switch: RSP starts one page above the    *)
(* new stack; a register of the exiting program survives.                  *)
ctx_save_AboveStack(c, entryseg, stack, stacksz) ==
  [c EXCEPT !.seg = entryseg, !.off = Entry, !.sp = stack + stacksz]
ctx_restore_Partly(c, save) == [save EXCEPT !.oth = c.oth]

(* ctx_save: the registers a new program starts with. RAX and the other    *)
(* registers are still the caller's ("FIXME clear other regs").            *)
ctx_save(c, entryseg, stack, stacksz) ==
  [c EXCEPT !.seg = entryseg, !.off = Entry, !.sp = stack + stacksz - 1]

(* ctx_restore: all registers come back from the save area.                *)
ctx_restore(c, save) == save

(* What pool_alloc, freemark, load and alloc give a caller now.            *)
NewProc == pool_alloc(pool, word)
Loaded(name) == load(name, allocinit(execbufp))
NewStack(name) == alloc(Loaded(name).bp, StackPages)

(* The process record after load() and the allocation of the stack.        *)
Filled(name, n, mark) ==
  [proc[n] EXCEPT !.freemark = mark,
                  !.load = Loaded(name).loadp, !.loadsz = Pages[name],
                  !.stacksz = StackPages, !.stack = NewStack(name).ret]

(* run_first, called by kernel_start: the first program starts on the      *)
(* host's stack, its own (newp->stack) stays unused.                       *)
BootOk ==
  LET name == Arg0[mem[BootArgv]]
      n == NewProc.ret
  IN /\ mode = "boot"
     /\ Loaded(name).status = "ok"
     /\ NewStack(name).ret # NULL
     /\ pool' = NewProc.pool
     /\ word' = [word EXCEPT ![n] = NULL]
     /\ execbufp' = NewStack(name).bp
     /\ proc' = [proc EXCEPT ![n] = [Filled(name, n, NULL) EXCEPT
                                        !.argv = BootArgv, !.code = NULL]]
     /\ curp' = n
     /\ ctx' = [ctx EXCEPT !.seg = Loaded(name).loadp, !.off = Entry]
     /\ mem' = Loaded(name).mem
     /\ mode' = "user"
     /\ UNCHANGED prot

(* run_first fails: the process goes back to the pool and kernel_start     *)
(* panics.                                                                 *)
BootFails ==
  LET name == Arg0[mem[BootArgv]]
      n == NewProc.ret
      back == pool_free(NewProc.pool, word, n)
  IN /\ mode = "boot"
     /\ \/ /\ Loaded(name).status = "noexe"
           /\ execbufp' = execbufp
           /\ proc' = [proc EXCEPT ![n].freemark = NULL]
        \/ /\ Loaded(name).status = "ok"
           /\ NewStack(name).ret = NULL
           /\ execbufp' = freeup(NULL)
           /\ proc' = [proc EXCEPT ![n] = Filled(name, n, NULL)]
     /\ pool' = back.pool
     /\ word' = back.word
     /\ mem' = Loaded(name).mem
     /\ mode' = "panic"
     /\ UNCHANGED <<curp, ctx, prot>>

(* memset(NULL) before the first process exists: the handler then reads    *)
(* curp->load and faults again. With the image its memory is gone.         *)
BootFault ==
  /\ mode = "boot"
  /\ Loaded(Arg0[mem[BootArgv]]).status = "fault"
  /\ mode' = "dead"
  /\ UNCHANGED <<pool, word, execbufp, proc, curp, ctx, mem, prot>>
-----------------------------------------------------------------------------
(* The running program. It executes while its text is executable; it owns  *)
(* the StackPages pages ending at its RSP.                                 *)
TextOf(p) == Span(p.load, p.loadsz)
StackOf(c) == {c.sp - k : k \in 0 .. StackPages - 1}
CanRun == mode = "user" /\ \A a \in TextOf(proc[curp]) : prot[a] = "rwx"
Computes == CanRun /\ ctx.off \notin CallSites \cup BadSites

(* It computes: other register contents, a jump to a call site (with the   *)
(* number of the call in RAX) or to an instruction that will fault.        *)
UserCompute ==
  /\ Computes
  /\ \E o \in Oth, f \in CallSites \cup BadSites :
       ctx' = [ctx EXCEPT !.oth = o, !.off = f, !.rax = 0]
  /\ UNCHANGED <<pool, word, execbufp, proc, curp, mem, prot, mode>>

(* It builds an argument vector on its stack.                              *)
UserStore ==
  /\ Computes
  /\ \E k \in ArgvAt, v \in ArgVec : mem' = [mem EXCEPT ![ctx.sp - k] = v]
  /\ UNCHANGED <<pool, word, execbufp, proc, curp, ctx, prot, mode>>

(* A SIGSEGV that is no "int $0x81": syscall_hnd returns false and the     *)
(* handler returns to the same instruction.                                *)
Fault ==
  /\ CanRun /\ ctx.off \in BadSites
  /\ prot' = host_vm_prot(proc[curp])
  /\ UNCHANGED <<pool, word, execbufp, proc, curp, ctx, mem, mode>>

(* The program executes "int $0x81". syscall_hnd moves RIP over its two    *)
(* bytes before it calls the system call.                                  *)
AtInt == CanRun /\ ctx.off \in CallSites
Trapped == [ctx EXCEPT !.off = @ + 2]

(* The end of every trap: RAX of the registers that now run, and the       *)
(* protection for the process that is now current.                         *)
Return(c, r) ==
  /\ ctx' = [c EXCEPT !.rax = r]
  /\ prot' = host_vm_prot(proc'[curp'])
  /\ UNCHANGED mode
-----------------------------------------------------------------------------
(* sys_run(argv, code), argv in page a and code in page c or NULL.         *)
(* argv[0] is NULL, or all processes are taken: nothing was touched.       *)
RunRefused(a) ==
  /\ Arg0[mem[a]] = NoArg \/ NewProc.ret = NULL
  /\ UNCHANGED <<pool, word, execbufp, proc, curp, mem>>
  /\ Return(Trapped, -1)

RunNamed(a) == Arg0[mem[a]] # NoArg /\ NewProc.ret # NULL

(* Faulty variant of the next action: the process is not given back.       *)
RunNoExe_Leaks(a) ==
  /\ RunNamed(a)
  /\ Loaded(Arg0[mem[a]]).status = "noexe"
  /\ pool' = NewProc.pool
  /\ UNCHANGED <<word, execbufp, proc, curp, mem>>
  /\ Return(Trapped, -1)

(* failload: load() refused the file before it allocated anything.         *)
RunNoExe(a) ==
  LET n == NewProc.ret
      back == pool_free(NewProc.pool, word, n)
  IN /\ RunNamed(a)
     /\ Loaded(Arg0[mem[a]]).status = "noexe"
     /\ pool' = back.pool
     /\ word' = back.word
     /\ execbufp' = freemark(execbufp)
     /\ proc' = [proc EXCEPT ![n].freemark = freemark(execbufp)]
     /\ UNCHANGED <<curp, mem>>
     /\ Return(Trapped, -1)

(* Faulty variant of the next action: the memory of the text is kept.      *)
RunNoStack_KeepsMemory(a) ==
  LET n == NewProc.ret
      name == Arg0[mem[a]]
      back == pool_free(NewProc.pool, word, n)
  IN /\ RunNamed(a)
     /\ Loaded(name).status = "ok"
     /\ NewStack(name).ret = NULL
     /\ pool' = back.pool
     /\ word' = back.word
     /\ execbufp' = Loaded(name).bp
     /\ proc' = [proc EXCEPT ![n] = Filled(name, n, freemark(execbufp))]
     /\ mem' = Loaded(name).mem
     /\ UNCHANGED curp
     /\ Return(Trapped, -1)

(* failstack: the text is loaded, there is no room for the stack. The      *)
(* memory goes back to the mark, the process to the pool.                  *)
RunNoStack(a) ==
  LET n == NewProc.ret
      name == Arg0[mem[a]]
      back == pool_free(NewProc.pool, word, n)
  IN /\ RunNamed(a)
     /\ Loaded(name).status = "ok"
     /\ NewStack(name).ret = NULL
     /\ pool' = back.pool
     /\ word' = back.word
     /\ execbufp' = freeup(freemark(execbufp))
     /\ proc' = [proc EXCEPT ![n] = Filled(name, n, freemark(execbufp))]
     /\ mem' = Loaded(name).mem
     /\ UNCHANGED curp
     /\ Return(Trapped, -1)

(* load() does not test what alloc returns: memset(NULL) faults inside the *)
(* SIGSEGV handler, where SIGSEGV is blocked, and the host kills the image *)
(* with all its memory.                                                    *)
RunFault(a) ==
  /\ RunNamed(a)
  /\ Loaded(Arg0[mem[a]]).status = "fault"
  /\ mode' = "dead"
  /\ UNCHANGED <<pool, word, execbufp, proc, curp, ctx, mem, prot>>

(* The child starts: the caller's registers are saved in its process, the  *)
(* child's "prev" points to it, and RAX = 0 is stored in the child's.      *)
RunOk(a, c) ==
  LET n == NewProc.ret
      name == Arg0[mem[a]]
      stack == NewStack(name).ret
      filled == [Filled(name, n, freemark(execbufp)) EXCEPT
                   !.argv = a, !.code = c]
  IN /\ RunNamed(a)
     /\ Loaded(name).status = "ok"
     /\ stack # NULL
     /\ pool' = NewProc.pool
     /\ word' = [word EXCEPT ![n] = curp]
     /\ execbufp' = NewStack(name).bp
     /\ proc' = [proc EXCEPT ![n] = filled, ![curp].savectx = Trapped]
     /\ curp' = n
     /\ mem' = Loaded(name).mem
     /\ Return(ctx_save(Trapped, Loaded(name).loadp, stack, StackPages), 0)

sys_run ==
  /\ AtInt
  /\ \E a \in {ctx.sp - k : k \in ArgvAt} :
       /\ mem[a] \in Vec
       /\ \/ RunRefused(a)
          \/ RunNoExe(a)
          \/ RunNoStack(a)
          \/ RunFault(a)
          \/ \E c \in {NULL} \cup {ctx.sp - k : k \in CodeAt} : RunOk(a, c)
-----------------------------------------------------------------------------
(* sys_exit(code) of the first process stops the machine.                  *)
ExitHalts ==
  /\ AtInt
  /\ word[curp] = NULL
  /\ mode' = "halted"
  /\ UNCHANGED <<pool, word, execbufp, proc, curp, ctx, mem, prot>>

(* sys_exit(code) of a child: the code goes where the parent asked for it, *)
(* the parent's registers come back, memory and process are released.      *)
ExitToParent ==
  LET old == word[curp]
      new == proc[curp]
      back == pool_free(pool, word, curp)
  IN /\ AtInt
     /\ old # NULL
     /\ \E v \in Codes :
          mem' = IF new.code # NULL THEN [mem EXCEPT ![new.code] = v] ELSE mem
     /\ execbufp' = freeup(new.freemark)
     /\ pool' = back.pool
     /\ word' = back.word
     /\ curp' = old
     /\ UNCHANGED proc
     /\ Return(ctx_restore(ctx, proc[old].savectx), 0)

sys_exit == ExitHalts \/ ExitToParent

(* sys_getargv copies the vector at curp->argv, which lies in the parent's *)
(* memory, into the caller's buffer b and returns argc (here 1), or -1     *)
(* when the buffers are too small.                                         *)
sys_getargv ==
  /\ AtInt
  /\ UNCHANGED <<pool, word, execbufp, proc, curp>>
  /\ \E k \in ArgvAt :
       LET v == mem[proc[curp].argv]
           b == ctx.sp - k
       IN IF v \in TooBig
          THEN mem' = [mem EXCEPT ![b] = Junk] /\ Return(Trapped, -1)
          ELSE mem' = [mem EXCEPT ![b] = v] /\ Return(Trapped, 1)

(* sys_read fills a buffer of the caller from the host's standard input.   *)
sys_read ==
  /\ AtInt
  /\ UNCHANGED <<pool, word, execbufp, proc, curp>>
  /\ \E k \in ArgvAt, r \in {-1, 0, 1} :
       /\ mem' = IF r = 1 THEN [mem EXCEPT ![ctx.sp - k] = Junk] ELSE mem
       /\ Return(Trapped, r)

(* sys_write only prints.                                                  *)
sys_write ==
  /\ AtInt
  /\ UNCHANGED <<pool, word, execbufp, proc, curp, mem>>
  /\ Return(Trapped, 0)

(* The machine has stopped for good.                                       *)
Stopped == mode \in {"halted", "panic", "dead"} /\ UNCHANGED vars

Next == \/ BootOk \/ BootFails \/ BootFault
        \/ UserCompute \/ UserStore \/ Fault
        \/ sys_run \/ sys_exit \/ sys_getargv \/ sys_read \/ sys_write
        \/ Stopped

Spec == Init /\ [][Next]_vars
-----------------------------------------------------------------------------
Modes == {"boot", "user", "halted", "panic", "dead"}

(* Every variable keeps its type; pointers are NULL or inside their area.  *)
TypeOK ==
  /\ pool \in Pool
  /\ word \in [Slot -> SlotOrNull]
  /\ execbufp \in MemBase .. MemEnd \cup {NULL}
  /\ proc \in [Slot -> Proc]
  /\ curp \in SlotOrNull
  /\ ctx \in Ctx
  /\ mem \in [Addr -> Val]
  /\ prot \in [Page -> {"rw", "rwx"}]
  /\ mode \in Modes

(* g lists the d processes from the first to curp along "prev".            *)
IsChain(d, g) ==
  /\ g[d] = curp
  /\ \A i \in 1 .. d : word[g[i]] = IF i = 1 THEN NULL ELSE g[i - 1]
  /\ \A i, j \in 1 .. d : g[i] = g[j] => i = j

(* "prev" and the free-list link are the same word. Still every process    *)
(* element taken so far is either an ancestor of curp (or curp), once, or  *)
(* on the free list, once: no process is lost, none is handed out twice.   *)
ProcsAreChainOrFree ==
  mode = "user" =>
    \E d \in 1 .. NSlots : \E g \in [1 .. d -> Used(pool)] :
      /\ IsChain(d, g)
      /\ FreeListIs(pool, word, Used(pool) \ {g[i] : i \in 1 .. d})

(* p's memory: its text, then its stack, then "top".                       *)
Block(p, bottom, top) ==
  /\ p.load = bottom /\ p.loadsz > 0
  /\ p.stack = p.load + p.loadsz /\ p.stacksz = StackPages
  /\ top = p.stack + p.stacksz

(* The memory is a stack of the blocks of the ancestors of curp, without   *)
(* holes, and execbufp is its end: blocks do not overlap, nothing leaks,   *)
(* and sys_exit's mark is exactly the end of the parent's block.           *)
MemoryIsAStack ==
  mode = "user" =>
    \E d \in 1 .. NSlots : \E g \in [1 .. d -> Used(pool)] :
      /\ IsChain(d, g)
      /\ \A i \in 1 .. d :
           /\ Block(proc[g[i]],
                    IF i = 1 THEN MemBase ELSE proc[g[i]].freemark,
                    IF i = d THEN execbufp ELSE proc[g[i + 1]].freemark)
           /\ proc[g[i]].freemark = NULL <=> i = 1

(* The running program can always execute its text, also where the text    *)
(* lies on pages that were the stack of an earlier program, and the text   *)
(* is still that of the program its argument vector, in the memory of its  *)
(* parent, names.                                                          *)
RunsItsText ==
  mode = "user" =>
    /\ ctx.seg = proc[curp].load
    /\ \A a \in TextOf(proc[curp]) :
         prot[a] = "rwx" /\ mem[a] = Arg0[mem[proc[curp].argv]]

(* The kernel never faults. See RunFault.                                  *)
NeverKilled == mode # "dead"

(* A program stopped at a faulting instruction gets away from it: a signal *)
(* is delivered to it or it is ended.                                      *)
FaultIsResolved ==
  (mode = "user" /\ ctx.off \in BadSites)
     ~> ~(mode = "user" /\ ctx.off \in BadSites)

FairSpec == Spec /\ WF_vars(Next)
=============================================================================
