------------------------------ MODULE ProcStack ------------------------------
(***************************************************************************)
(* What the system calls of kernel/ksys.c promise programs: run() is a     *)
(* procedure call. A program has text, a stack and registers of its own;   *)
(* run() suspends it, starts another program with the given arguments and, *)
(* when that one exits, continues after the call with result 0 and the     *)
(* exit code where it asked for it. Nothing else of a suspended program    *)
(* changes. There are no addresses, no pool and no bump pointer here.      *)
(***************************************************************************)
EXTENDS Integers, Sequences

CONSTANTS NSlots, MemPages, StackPages, Prog, Pages, ArgVec, Arg0, NoArg,
          TooBig, BootVecs, Codes, Zero, Junk, CallSites, BadSites, Entry, Oth,
          ArgvAt, CodeAt

Vec == ArgVec \cup BootVecs
Val == Vec \cup Codes \cup Prog \cup {Zero, Junk}

VARIABLES running,    \* the frame of the running program, or NoFrame
          suspended,  \* the frames of the programs that wait, the first first
          mode

avars == <<running, suspended, mode>>

NoFrame == [text |-> <<>>]

(* Stack cells are numbered downwards from RSP.                            *)
Cells == [0 .. StackPages - 1 -> Val]

Fits(base, need) == base + need <= MemPages

(* A program that starts: its text, its arguments, a stack with any        *)
(* content, the general registers o, the place c in its caller's stack     *)
(* where the exit code goes (-1: nowhere), on top of "base" pages in use.  *)
IsNew(frame, name, v, o, c, base) ==
  /\ frame.stack \in Cells
  /\ frame = [text |-> [i \in 1 .. Pages[name] |-> name], args |-> v,
              off |-> Entry, rax |-> 0, oth |-> o, stack |-> frame.stack,
              codeAt |-> c, used |-> base + Pages[name] + StackPages]

AInit == running = NoFrame /\ suspended = <<>> /\ mode = "boot"

(* The first program starts, or the machine does not come up.              *)
ABoot ==
  \E v \in BootVecs :
    LET name == Arg0[v]
        can == name \in Prog /\ Fits(0, Pages[name] + StackPages)
    IN /\ mode = "boot"
       /\ UNCHANGED suspended
       /\ \/ /\ can /\ mode' = "user"
             /\ \E o \in Oth : IsNew(running', name, v, o, -1, 0)
          \/ ~can /\ mode' \in {"panic", "dead"} /\ UNCHANGED running

(* Only the running program's frame changes.                               *)
Become(f) == running' = f /\ UNCHANGED <<mode, suspended>>

ACompute ==
  \E o \in Oth, f \in CallSites \cup BadSites :
     Become([running EXCEPT !.oth = o, !.off = f, !.rax = 0])

AStore == \E k \in ArgvAt, v \in ArgVec :
            Become([running EXCEPT !.stack[k] = v])

After(r) == [running EXCEPT !.off = @ + 2, !.rax = r]

Depth == Len(suspended) + 1

(* run() fails only for want of a name, a file, a process or memory, and   *)
(* then has no other effect.                                               *)
ARunFails(name) ==
  /\ Become(After(-1))
  /\ \/ name \notin Prog
     \/ Depth = NSlots
     \/ ~Fits(running.used, Pages[name] + StackPages)

(* The caller is suspended after the call. The child gets the arguments,   *)
(* the caller's registers, and memory on top of all that is in use.        *)
ARun(v, c) ==
  /\ Depth' = Depth + 1
  /\ Arg0[v] \in Prog
  /\ Depth < NSlots
  /\ Fits(running.used, Pages[Arg0[v]] + StackPages)
  /\ IsNew(running', Arg0[v], v, running.oth, c, running.used)
  /\ suspended' = Append(suspended, [running EXCEPT !.off = @ + 2])
  /\ UNCHANGED mode

(* The kernel does not survive a program for whose text there is no room.  *)
ARunDies(name) ==
  /\ mode' = "dead"
  /\ name \in Prog /\ Depth < NSlots
  /\ ~Fits(running.used, Pages[name])
  /\ UNCHANGED <<running, suspended>>

ACallRun ==
  \E k \in ArgvAt :
    LET v == running.stack[k]
    IN /\ v \in Vec
       /\ \/ ARunFails(Arg0[v])
          \/ \E c \in {-1} \cup CodeAt : ARun(v, c)
          \/ ARunDies(Arg0[v])

(* exit(): the caller goes on with result 0; of its stack only the place   *)
(* it named for the exit code has changed.                                 *)
AExit ==
  /\ Depth > 1 /\ Depth' = Depth - 1
  /\ LET p == suspended[Len(suspended)]
     IN \E v \in Codes :
          running' = [p EXCEPT !.rax = 0,
                               !.stack = IF running.codeAt = -1 THEN @
                                         ELSE [@ EXCEPT ![running.codeAt] = v]]
  /\ suspended' = SubSeq(suspended, 1, Len(suspended) - 1)
  /\ UNCHANGED mode

AHalt == Depth = 1 /\ mode' = "halted" /\ UNCHANGED <<running, suspended>>

(* getargv() gives a program the arguments it was run with.                *)
AGetargv ==
  \E k \in ArgvAt :
    Become(IF running.args \in TooBig
           THEN [After(-1) EXCEPT !.stack[k] = Junk]
           ELSE [After(1) EXCEPT !.stack[k] = running.args])

ARead == \E k \in ArgvAt, r \in {-1, 0, 1} :
           Become([After(r) EXCEPT !.stack[k] = IF r = 1 THEN Junk ELSE @])

AWrite == Become(After(0))

ANext == \/ ABoot
         \/ /\ mode = "user"
            /\ \/ /\ running.off \notin CallSites \cup BadSites
                  /\ ACompute \/ AStore
               \/ /\ running.off \in CallSites
                  /\ ACallRun \/ AExit \/ AHalt \/ AGetargv \/ ARead \/ AWrite

ASpec == AInit /\ [][ANext]_avars
=============================================================================
