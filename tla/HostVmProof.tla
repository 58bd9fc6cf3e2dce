----------------------------- MODULE HostVmProof -----------------------------
(***************************************************************************)
(* The trap path of hosthal/exn.c for any number of protected entries,     *)
(* processes and outside signals, and handlers nested to any depth.        *)
(***************************************************************************)
EXTENDS HostVm, SequenceTheorems, TLAPS

(* What pushing, changing the top and popping do to a sequence.            *)
LEMMA PushLemma ==
  ASSUME NEW S, NEW s \in Seq(S), NEW e \in S, NEW t, t = Append(s, e)
  PROVE  /\ t \in Seq(S)
         /\ t # <<>>
         /\ Len(t) = Len(s) + 1
         /\ t[Len(t)] = e
         /\ \A k \in 1 .. Len(s) : t[k] = s[k]
  BY AppendProperties

LEMMA SetLemma ==
  ASSUME NEW S, NEW s \in Seq(S), s # <<>>, NEW e \in S,
         NEW t, t = [s EXCEPT ![Len(s)] = e]
  PROVE  /\ t \in Seq(S)
         /\ t # <<>>
         /\ Len(t) = Len(s)
         /\ t[Len(t)] = e
         /\ \A k \in 1 .. Len(s) - 1 : t[k] = s[k]
<1>1. Len(s) \in 1 .. Len(s) /\ Len(s) \in Nat
  BY EmptySeq, LenProperties
<1>2. /\ t \in Seq(S)
      /\ Len(t) = Len(s)
      /\ \A j \in 1 .. Len(s) : t[j] = IF j = Len(s) THEN e ELSE s[j]
  BY <1>1, ExceptSeq
<1>3. t # <<>>
  BY <1>1, <1>2, EmptySeq
<1>4. t[Len(t)] = e /\ \A k \in 1 .. Len(s) - 1 : t[k] = s[k]
  <2>1. \A k \in 1 .. Len(s) - 1 : k \in 1 .. Len(s) /\ k # Len(s)
    BY <1>1
  <2> QED BY <1>1, <1>2, <2>1
<1> QED BY <1>2, <1>3, <1>4

LEMMA PopLemma ==
  ASSUME NEW S, NEW s \in Seq(S), s # <<>>,
         NEW t, t = SubSeq(s, 1, Len(s) - 1)
  PROVE  /\ t \in Seq(S)
         /\ Len(t) = Len(s) - 1
         /\ \A k \in 1 .. Len(t) : t[k] = s[k]
<1>1. PICK n \in Nat : Len(s) = n + 1
  <2>1. Len(s) \in Nat \ {0}
    BY EmptySeq
  <2> WITNESS Len(s) - 1 \in Nat
  <2> QED BY <2>1
<1>2. t = SubSeq(s, 1, n)
  BY <1>1
<1>3. \A i \in 1 .. n : s[i] \in S
  BY <1>1, ElementOfSeq
<1>4. /\ t \in Seq(S)
      /\ Len(t) = IF 1 <= n THEN n - 1 + 1 ELSE 0
      /\ \A i \in 1 .. n - 1 + 1 : t[i] = s[1 + i - 1]
  BY <1>2, <1>3, SubSeqProperties
<1>5. Len(t) = n
  BY <1>4
<1>6. \A k \in 1 .. n : t[k] = s[k]
  <2>1. \A k \in 1 .. n : k \in 1 .. n - 1 + 1 /\ 1 + k - 1 = k
    OBVIOUS
  <2> QED BY <1>4, <2>1
<1>7. Len(t) = Len(s) - 1
  BY <1>1, <1>5
<1> QED BY <1>4, <1>5, <1>6, <1>7
-----------------------------------------------------------------------------
(* The frames change in one of three ways.                                 *)
Pushes == \E sig \in Async \cup {SEGV}, int \in BOOLEAN : Enter(sig, int)

LEMMA TopIsFrame ==
  ASSUME TypeOK, InHandler
  PROVE  Top \in Frame /\ Len(frames) \in Nat \ {0}
  BY EmptySeq, ElementOfSeq DEF TypeOK, InHandler, Top

LEMMA EnterLemma ==
  ASSUME TypeOK, NEW sig \in Async \cup {SEGV}, NEW int \in BOOLEAN,
         Enter(sig, int)
  PROVE  /\ frames' \in Seq(Frame)
         /\ InHandler'
         /\ Len(frames') = Len(frames) + 1
         /\ Top' = [sig |-> sig, int |-> int, pc |-> "restore", i |-> 1, cp |-> NoProc]
         /\ \A k \in 1 .. Len(frames) : frames'[k] = frames[k]
<1> DEFINE f == [sig |-> sig, int |-> int, pc |-> "restore", i |-> 1, cp |-> NoProc]
<1>1. f \in Frame
  BY HostVmAssumption DEF Frame, Pcs
<1>2. frames \in Seq(Frame) /\ frames' = Append(frames, f)
  BY DEF TypeOK, Enter
<1> HIDE DEF f
<1>3. /\ frames' \in Seq(Frame)
      /\ frames' # <<>>
      /\ Len(frames') = Len(frames) + 1
      /\ frames'[Len(frames')] = f
      /\ \A k \in 1 .. Len(frames) : frames'[k] = frames[k]
  BY <1>1, <1>2, PushLemma
<1> QED BY <1>3 DEF InHandler, Top, f

LEMMA BecomeLemma ==
  ASSUME TypeOK, InHandler, NEW f \in Frame, Become(f)
  PROVE  /\ frames' \in Seq(Frame)
         /\ InHandler'
         /\ Len(frames') = Len(frames)
         /\ Top' = f
         /\ \A k \in 1 .. Len(frames) - 1 : frames'[k] = frames[k]
<1>1. frames \in Seq(Frame) /\ frames # <<>>
      /\ frames' = [frames EXCEPT ![Len(frames)] = f]
  BY DEF TypeOK, InHandler, Become
<1>2. /\ frames' \in Seq(Frame)
      /\ frames' # <<>>
      /\ Len(frames') = Len(frames)
      /\ frames'[Len(frames')] = f
      /\ \A k \in 1 .. Len(frames) - 1 : frames'[k] = frames[k]
  BY <1>1, SetLemma
<1> QED BY <1>2 DEF InHandler, Top

LEMMA ReturnLemma ==
  ASSUME TypeOK, InHandler, frames' = SubSeq(frames, 1, Len(frames) - 1)
  PROVE  /\ frames' \in Seq(Frame)
         /\ Len(frames') = Len(frames) - 1
         /\ \A k \in 1 .. Len(frames') : frames'[k] = frames[k]
  BY PopLemma DEF TypeOK, InHandler

(* The handler goes to another place, with the loop index at the first     *)
(* entry, or to the next entry of a loop.                                  *)
LEMMA GotoLemma ==
  ASSUME TypeOK, InHandler, NEW pc \in Pcs, Goto(pc)
  PROVE  /\ frames' \in Seq(Frame)
         /\ InHandler'
         /\ Len(frames') = Len(frames)
         /\ Top' = [Top EXCEPT !.pc = pc, !.i = 1]
         /\ \A k \in 1 .. Len(frames) - 1 : frames'[k] = frames[k]
<1> DEFINE f == [Top EXCEPT !.pc = pc, !.i = 1]
<1>1. f \in Frame
  <2>1. Top \in Frame
    BY TopIsFrame
  <2>2. 1 \in 1 .. NMaps + 1
    BY HostVmAssumption
  <2> QED BY <2>1, <2>2 DEF Frame
<1>2. Become(f)
  BY DEF Goto
<1> HIDE DEF f
<1>3. /\ frames' \in Seq(Frame)
      /\ InHandler'
      /\ Len(frames') = Len(frames)
      /\ Top' = f
      /\ \A k \in 1 .. Len(frames) - 1 : frames'[k] = frames[k]
  BY <1>1, <1>2, BecomeLemma
<1> QED BY <1>3 DEF f

LEMMA NextEntryLemma ==
  ASSUME TypeOK, InHandler, Top.i <= NMaps, NextEntry
  PROVE  /\ frames' \in Seq(Frame)
         /\ InHandler'
         /\ Len(frames') = Len(frames)
         /\ Top' = [Top EXCEPT !.i = @ + 1]
         /\ \A k \in 1 .. Len(frames) - 1 : frames'[k] = frames[k]
<1> DEFINE f == [Top EXCEPT !.i = @ + 1]
<1>1. f \in Frame
  BY TopIsFrame, HostVmAssumption DEF Frame
<1>2. Become(f)
  BY DEF NextEntry
<1> HIDE DEF f
<1>3. /\ frames' \in Seq(Frame)
      /\ InHandler'
      /\ Len(frames') = Len(frames)
      /\ Top' = f
      /\ \A k \in 1 .. Len(frames) - 1 : frames'[k] = frames[k]
  BY <1>1, <1>2, BecomeLemma
<1> QED BY <1>3 DEF f

LEMMA ReadCurpLemma ==
  ASSUME TypeOK, InHandler, Become([Top EXCEPT !.pc = "lock", !.i = 1, !.cp = cur])
  PROVE  /\ frames' \in Seq(Frame)
         /\ InHandler'
         /\ Len(frames') = Len(frames)
         /\ Top' = [Top EXCEPT !.pc = "lock", !.i = 1, !.cp = cur]
         /\ \A k \in 1 .. Len(frames) - 1 : frames'[k] = frames[k]
<1> DEFINE f == [Top EXCEPT !.pc = "lock", !.i = 1, !.cp = cur]
<1>1. f \in Frame
  <2>1. Top \in Frame
    BY TopIsFrame
  <2>2. 1 \in 1 .. NMaps + 1
    BY HostVmAssumption
  <2>3. "lock" \in Pcs /\ cur \in Procs \cup {NoProc}
    BY DEF Pcs, TypeOK
  <2> QED BY <2>1, <2>2, <2>3 DEF Frame
<1>2. Become(f)
  OBVIOUS
<1> HIDE DEF f
<1>3. /\ frames' \in Seq(Frame)
      /\ InHandler'
      /\ Len(frames') = Len(frames)
      /\ Top' = f
      /\ \A k \in 1 .. Len(frames) - 1 : frames'[k] = frames[k]
  BY <1>1, <1>2, BecomeLemma
<1> QED BY <1>3 DEF f
-----------------------------------------------------------------------------
LEMMA TypeInit == Init => TypeOK
  BY EmptySeq DEF Init, TypeOK, Wheres

LEMMA TypeNext == TypeOK /\ [Next]_vars => TypeOK'
<1> SUFFICES ASSUME TypeOK, [Next]_vars PROVE TypeOK'
  OBVIOUS
<1>1. /\ locked \subseteq Maps /\ granted \in Procs \cup {NoProc}
      /\ cur \in Procs \cup {NoProc} /\ frames \in Seq(Frame) /\ where \in Wheres
  BY DEF TypeOK
<1>2. CASE Start
  BY <1>1, <1>2 DEF Start, TypeOK, Wheres
<1>3. CASE CallEntry
  BY <1>1, <1>3 DEF CallEntry, TypeOK, Wheres
<1>4. CASE Trap
  <2>1. PICK int \in BOOLEAN : Enter(SEGV, int)
    BY <1>4 DEF Trap
  <2>2. frames' \in Seq(Frame)
    BY <2>1, EnterLemma
  <2> QED BY <1>1, <1>4, <2>2 DEF Trap, TypeOK
<1>5. CASE Signal
  <2>1. PICK sig \in Async : Enter(sig, FALSE)
    BY <1>5 DEF Signal
  <2>2. frames' \in Seq(Frame)
    BY <2>1, EnterLemma
  <2> QED BY <1>1, <1>5, <2>2 DEF Signal, TypeOK
<1>6. CASE Restore
  <2>1. InHandler
    BY <1>6 DEF Restore, At
  <2>2. CASE Top.i <= NMaps
    <3>1. frames' \in Seq(Frame)
      BY <1>6, <2>1, <2>2, NextEntryLemma DEF Restore
    <3> QED BY <1>1, <1>6, <2>2, <3>1 DEF Restore, TypeOK
  <2>3. CASE ~ Top.i <= NMaps
    <3>1. frames' \in Seq(Frame)
      BY <1>6, <2>1, <2>3, GotoLemma DEF Restore, Pcs
    <3> QED BY <1>1, <1>6, <2>3, <3>1 DEF Restore, TypeOK
  <2> QED BY <2>2, <2>3
<1>7. CASE ExnDo
  <2>1. InHandler /\ (Goto("syscall") \/ Goto("curp"))
    BY <1>7 DEF ExnDo, At
  <2>2. frames' \in Seq(Frame)
    BY <2>1, GotoLemma DEF Pcs
  <2> QED BY <1>1, <1>7, <2>2 DEF ExnDo, TypeOK
<1>8. CASE SyscallDo
  <2>1. InHandler /\ (Goto("curp") \/ UNCHANGED frames)
    BY <1>8 DEF SyscallDo, At
  <2>2. frames' \in Seq(Frame)
    BY <1>1, <2>1, GotoLemma DEF Pcs
  <2> QED BY <1>1, <1>8, <2>2 DEF SyscallDo, TypeOK, Wheres
<1>9. CASE ReadCurp
  <2>1. frames' \in Seq(Frame)
    BY <1>9, ReadCurpLemma DEF ReadCurp, At
  <2> QED BY <1>1, <1>9, <2>1 DEF ReadCurp, TypeOK
<1>10. CASE Lock
  <2>1. InHandler
    BY <1>10 DEF Lock, At
  <2>2. Top.i \in 1 .. NMaps + 1
    BY <2>1, TopIsFrame DEF Frame
  <2>3. CASE Top.i <= NMaps
    <3>1. frames' \in Seq(Frame)
      BY <1>10, <2>1, <2>3, NextEntryLemma DEF Lock
    <3>2. Top.i \in Maps
      BY <2>2, <2>3, HostVmAssumption DEF Maps
    <3> QED BY <1>1, <1>10, <2>3, <3>1, <3>2 DEF Lock, TypeOK
  <2>4. CASE ~ Top.i <= NMaps
    <3>1. frames' \in Seq(Frame)
      BY <1>10, <2>1, <2>4, GotoLemma DEF Lock, Pcs
    <3> QED BY <1>1, <1>10, <2>4, <3>1 DEF Lock, TypeOK
  <2> QED BY <2>3, <2>4
<1>11. CASE Grant
  <2>1. InHandler
    BY <1>11 DEF Grant, At
  <2>2. frames' \in Seq(Frame)
    BY <1>11, <2>1, GotoLemma DEF Grant, Pcs
  <2>3. Top.cp \in Procs \cup {NoProc}
    BY <2>1, TopIsFrame DEF Frame
  <2> QED BY <1>1, <1>11, <2>2, <2>3 DEF Grant, TypeOK
<1>12. CASE Return
  <2>1. frames' \in Seq(Frame)
    BY <1>12, ReturnLemma DEF Return, At
  <2> QED BY <1>1, <1>12, <2>1 DEF Return, TypeOK
<1>13. CASE FaultKills
  BY <1>1, <1>13 DEF FaultKills, TypeOK, Wheres
<1>14. CASE FaultEnters
  <2>1. frames' \in Seq(Frame)
    BY <1>14, EnterLemma DEF FaultEnters
  <2> QED BY <1>1, <1>14, <2>1 DEF FaultEnters, TypeOK
<1>15. CASE Stopped \/ UNCHANGED vars
  BY <1>1, <1>15 DEF Stopped, vars, TypeOK
<1> QED
  BY <1>2, <1>3, <1>4, <1>5, <1>6, <1>7, <1>8, <1>9, <1>10, <1>11, <1>12,
     <1>13, <1>14, <1>15 DEF Next, HandlerStep, KernelFault

(* The loop index and the set of protected entries stay inside procmaps.   *)
THEOREM HostVmTypeCorrect == Spec => []TypeOK
  BY TypeInit, TypeNext, PTL DEF Spec
-----------------------------------------------------------------------------
(* Why programs are confined: it is enough to look at the innermost        *)
(* handler. While it protects, the entries it has passed are protected;    *)
(* once it has finished all are. When it returns into an interrupted       *)
(* handler, that one's smaller claim holds as well.                        *)
Protected ==
  /\ InHandler /\ Top.pc = "lock" => 1 .. Top.i - 1 \subseteq locked
  /\ InHandler /\ Top.pc \in {"grant", "ret"} => locked = Maps
  /\ ~InHandler /\ granted # NoProc => locked = Maps

LEMMA ProtectedNext == TypeOK /\ Protected /\ [Next]_vars => Protected'
<1> SUFFICES ASSUME TypeOK, Protected, [Next]_vars PROVE Protected'
  OBVIOUS
<1>1. locked \subseteq Maps /\ frames \in Seq(Frame)
  BY DEF TypeOK
<1>2. ASSUME InHandler', Top'.pc \notin {"lock", "grant", "ret"} PROVE Protected'
  BY <1>2 DEF Protected
<1>3. ASSUME NEW sig \in Async \cup {SEGV}, NEW int \in BOOLEAN, Enter(sig, int)
      PROVE  Protected'
  <2>1. InHandler' /\ Top'.pc = "restore"
    BY <1>3, EnterLemma
  <2> QED BY <1>2, <2>1
<1>4. ASSUME NEW pc \in Pcs \ {"lock", "grant", "ret"}, InHandler, Goto(pc)
      PROVE  Protected'
  <2>1. InHandler' /\ Top' = [Top EXCEPT !.pc = pc, !.i = 1]
    BY <1>4, GotoLemma
  <2>2. Top'.pc = pc
    BY <1>4, <2>1, TopIsFrame DEF Frame
  <2> QED BY <1>2, <2>1, <2>2
<1>5. CASE UNCHANGED <<locked, granted, frames>>
  BY <1>5 DEF Protected, InHandler, Top
<1>6. CASE Restore
  <2>1. InHandler /\ Top.pc = "restore"
    BY <1>6 DEF Restore, At
  <2>2. CASE Top.i <= NMaps
    <3>1. InHandler' /\ Top' = [Top EXCEPT !.i = @ + 1]
      BY <1>6, <2>1, <2>2, NextEntryLemma DEF Restore
    <3>2. Top'.pc = "restore"
      BY <2>1, <3>1, TopIsFrame DEF Frame
    <3> QED BY <1>2, <3>1, <3>2
  <2>3. CASE ~ Top.i <= NMaps
    BY <1>4, <1>6, <2>1, <2>3 DEF Restore, Pcs
  <2> QED BY <2>2, <2>3
<1>7. CASE ExnDo
  BY <1>4, <1>7 DEF ExnDo, At, Pcs
<1>8. CASE SyscallDo
  BY <1>4, <1>5, <1>8 DEF SyscallDo, At, Pcs
<1>9. CASE ReadCurp
  <2>1. InHandler' /\ Top' = [Top EXCEPT !.pc = "lock", !.i = 1, !.cp = cur]
    BY <1>9, ReadCurpLemma DEF ReadCurp, At
  <2>2. Top'.pc = "lock" /\ Top'.i = 1
    BY <1>9, <2>1, TopIsFrame DEF Frame, ReadCurp, At
  <2>3. 1 .. Top'.i - 1 = {}
    BY <2>2
  <2> QED BY <2>1, <2>2, <2>3 DEF Protected
<1>10. CASE Lock
  <2>1. InHandler /\ Top.pc = "lock" /\ 1 .. Top.i - 1 \subseteq locked
    BY <1>10 DEF Lock, At, Protected
  <2>2. Top.i \in 1 .. NMaps + 1 /\ NMaps \in Nat
    BY <2>1, TopIsFrame, HostVmAssumption DEF Frame
  <2>3. CASE Top.i <= NMaps
    <3>1. InHandler' /\ Top' = [Top EXCEPT !.i = @ + 1]
      BY <1>10, <2>1, <2>3, NextEntryLemma DEF Lock
    <3>2. Top'.pc = "lock" /\ Top'.i = Top.i + 1
      BY <2>1, <3>1, TopIsFrame DEF Frame
    <3>3. locked' = locked \cup {Top.i}
      BY <1>10, <2>3 DEF Lock
    <3>4. 1 .. Top'.i - 1 \subseteq locked'
      BY <2>1, <2>2, <3>2, <3>3
    <3> QED BY <3>1, <3>2, <3>4 DEF Protected
  <2>4. CASE ~ Top.i <= NMaps
    <3>1. InHandler' /\ Top' = [Top EXCEPT !.pc = "grant", !.i = 1] /\ locked' = locked
      BY <1>10, <2>1, <2>4, GotoLemma DEF Lock, Pcs
    <3>2. Top'.pc = "grant"
      BY <2>1, <3>1, TopIsFrame DEF Frame
    <3>3. 1 .. NMaps \subseteq locked
      BY <2>1, <2>2, <2>4
    <3>4. locked' = Maps
      BY <1>1, <3>1, <3>3 DEF Maps
    <3> QED BY <3>1, <3>2, <3>4 DEF Protected
  <2> QED BY <2>3, <2>4
<1>11. CASE Grant
  <2>1. InHandler /\ locked = Maps /\ locked' = locked
    BY <1>11 DEF Grant, At, Protected
  <2>2. InHandler' /\ Top' = [Top EXCEPT !.pc = "ret", !.i = 1]
    BY <1>11, <2>1, GotoLemma DEF Grant, Pcs
  <2>3. Top'.pc = "ret"
    BY <2>1, <2>2, TopIsFrame DEF Frame
  <2> QED BY <2>1, <2>2, <2>3 DEF Protected, Maps
<1>12. CASE Return
  <2>1. InHandler /\ locked = Maps /\ locked' = locked
    BY <1>12 DEF Return, At, Protected
  <2>2. frames' \in Seq(Frame)
    BY <1>12, <2>1, ReturnLemma DEF Return
  <2>3. InHandler' => Top' \in Frame
    BY <2>2, EmptySeq, ElementOfSeq DEF InHandler, Top
  <2>4. InHandler' => 1 .. Top'.i - 1 \subseteq Maps
    BY <2>3, HostVmAssumption DEF Frame, Maps
  <2> QED BY <2>1, <2>4 DEF Protected, Maps
<1>13. CASE Start \/ CallEntry \/ FaultKills \/ Stopped \/ UNCHANGED vars
  BY <1>5, <1>13 DEF Start, CallEntry, FaultKills, Stopped, vars
<1>14. CASE Trap \/ Signal \/ FaultEnters
  BY <1>3, <1>14 DEF Trap, Signal, FaultEnters
<1> QED
  BY <1>6, <1>7, <1>8, <1>9, <1>10, <1>11, <1>12, <1>13, <1>14
     DEF Next, HandlerStep, KernelFault

(* Whatever signals interrupt whatever handlers, a program that sighnd has *)
(* returned to runs with every entry of the image protected.               *)
THEOREM Confinement == Spec => []ProgramsAreConfined
<1>1. Init => Protected
  BY DEF Init, Protected, InHandler
<1>2. Spec => []TypeOK
  BY HostVmTypeCorrect
<1>3. Protected => ProgramsAreConfined
  BY DEF Protected, ProgramsAreConfined
<1> QED BY <1>1, <1>2, <1>3, ProtectedNext, PTL DEF Spec
-----------------------------------------------------------------------------
(* Why the memory opened is that of the current process: only a system     *)
(* call changes the process, only the first handler can be a system call's,*)
(* so no other handler is between reading the process and opening it.      *)
FrameAgrees(f, k) ==
  /\ f.int => k = 1 /\ where \notin {"boot", "started"}
  /\ f.pc = "syscall" => f.int
  /\ f.pc \in {"lock", "grant"} => f.cp = cur
  /\ f.pc = "ret" => granted = cur

Agrees ==
  /\ \A k \in 1 .. Len(frames) : FrameAgrees(frames[k], k)
  /\ where = "boot" => cur = NoProc
  /\ cur = NoProc => granted = NoProc
  /\ ~InHandler => granted \in {cur, NoProc}

LEMMA AgreesNext == TypeOK /\ Agrees /\ [Next]_vars => Agrees'
<1> SUFFICES ASSUME TypeOK, Agrees, [Next]_vars PROVE Agrees'
  OBVIOUS
<1>1. frames \in Seq(Frame) /\ Len(frames) \in Nat
  BY LenProperties DEF TypeOK
<1>2. \A k \in 1 .. Len(frames) : FrameAgrees(frames[k], k)
  BY DEF Agrees
<1>3. InHandler => Len(frames) \in 1 .. Len(frames) /\ FrameAgrees(Top, Len(frames))
  BY <1>1, <1>2, TopIsFrame DEF Top
<1>4. CASE UNCHANGED <<granted, cur, frames>> /\ (where' # where => where' # "boot" /\ where' # "started")
  BY <1>4 DEF Agrees, FrameAgrees, InHandler
<1>5. ASSUME InHandler', Len(frames') = Len(frames),
             \A k \in 1 .. Len(frames) - 1 : frames'[k] = frames[k],
             FrameAgrees(Top', Len(frames)), UNCHANGED <<granted, cur, where>>
      PROVE  Agrees'
  <2>1. ASSUME NEW k \in 1 .. Len(frames') PROVE FrameAgrees(frames'[k], k)
    <3>1. CASE k = Len(frames)
      <4>1. frames'[k] = Top'
        BY <1>5, <3>1 DEF Top
      <4> QED BY <1>5, <3>1, <4>1
    <3>2. CASE k # Len(frames)
      <4>1. k \in 1 .. Len(frames) - 1 /\ k \in 1 .. Len(frames)
        BY <1>1, <1>5, <3>2
      <4> QED BY <1>2, <1>5, <4>1
    <3> QED BY <3>1, <3>2
  <2>2. \A k \in 1 .. Len(frames') : FrameAgrees(frames[k], k)'
    BY <1>5, <2>1 DEF FrameAgrees
  <2> QED BY <1>5, <2>2 DEF Agrees
<1>6. ASSUME NEW sig \in Async \cup {SEGV}, NEW int \in BOOLEAN, Enter(sig, int),
             int => ~InHandler /\ where = "user", UNCHANGED <<granted, cur, where>>
      PROVE  Agrees'
  <2>1. /\ InHandler' /\ Len(frames') = Len(frames) + 1
        /\ Top' = [sig |-> sig, int |-> int, pc |-> "restore", i |-> 1, cp |-> NoProc]
        /\ \A k \in 1 .. Len(frames) : frames'[k] = frames[k]
    BY <1>6, EnterLemma
  <2>2. int => Len(frames) = 0
    BY <1>6 DEF InHandler
  <2>3. ASSUME NEW k \in 1 .. Len(frames') PROVE FrameAgrees(frames'[k], k)
    <3>1. CASE k = Len(frames) + 1
      <4>1. frames'[k] = [sig |-> sig, int |-> int, pc |-> "restore", i |-> 1, cp |-> NoProc]
        BY <2>1, <3>1 DEF Top
      <4>2. frames'[k].int = int /\ frames'[k].pc = "restore"
        BY <4>1
      <4> QED BY <1>6, <2>2, <3>1, <4>2 DEF FrameAgrees
    <3>2. CASE k # Len(frames) + 1
      <4>1. k \in 1 .. Len(frames)
        BY <1>1, <2>1, <3>2
      <4> QED BY <1>2, <2>1, <4>1
    <3> QED BY <3>1, <3>2
  <2>4. \A k \in 1 .. Len(frames') : FrameAgrees(frames[k], k)'
    BY <1>6, <2>3 DEF FrameAgrees
  <2> QED BY <1>6, <2>1, <2>4 DEF Agrees
<1>7. ASSUME NEW pc \in Pcs \ {"syscall", "lock", "ret"}, InHandler, Goto(pc),
             pc = "grant" => Top.cp = cur, UNCHANGED <<granted, cur, where>>
      PROVE  Agrees'
  <2>1. /\ InHandler' /\ Len(frames') = Len(frames)
        /\ Top' = [Top EXCEPT !.pc = pc, !.i = 1]
        /\ \A k \in 1 .. Len(frames) - 1 : frames'[k] = frames[k]
    BY <1>7, GotoLemma
  <2>2. Top'.int = Top.int /\ Top'.pc = pc /\ Top'.cp = Top.cp
    BY <1>7, <2>1, TopIsFrame DEF Frame
  <2>3. FrameAgrees(Top', Len(frames))
    BY <1>3, <1>7, <2>2 DEF FrameAgrees
  <2> QED BY <1>5, <1>7, <2>1, <2>3
<1>8. ASSUME InHandler, Top.i <= NMaps, NextEntry, UNCHANGED <<granted, cur, where>>
      PROVE  Agrees'
  <2>1. /\ InHandler' /\ Len(frames') = Len(frames)
        /\ Top' = [Top EXCEPT !.i = @ + 1]
        /\ \A k \in 1 .. Len(frames) - 1 : frames'[k] = frames[k]
    BY <1>8, NextEntryLemma
  <2>2. Top'.int = Top.int /\ Top'.pc = Top.pc /\ Top'.cp = Top.cp
    BY <1>8, <2>1, TopIsFrame DEF Frame
  <2>3. FrameAgrees(Top', Len(frames))
    BY <1>3, <1>8, <2>2 DEF FrameAgrees
  <2> QED BY <1>5, <1>8, <2>1, <2>3
<1>9. CASE Start
  <2>1. frames = <<>> /\ frames' = frames /\ granted = NoProc /\ granted' = granted
    BY <1>9 DEF Start, Agrees, InHandler
  <2>2. cur' # NoProc /\ where' = "started" /\ Len(frames') = 0
    BY <1>9, <2>1, HostVmAssumption DEF Start
  <2> QED BY <2>1, <2>2 DEF Agrees, InHandler
<1>10. CASE CallEntry
  BY <1>4, <1>10 DEF CallEntry
<1>11. CASE Trap \/ Signal \/ FaultEnters
  BY <1>6, <1>11 DEF Trap, Signal, FaultEnters
<1>12. CASE Restore
  BY <1>7, <1>8, <1>12 DEF Restore, At, Pcs
<1>13. CASE ExnDo
  <2>1. CASE Goto("curp")
    BY <1>7, <1>13, <2>1 DEF ExnDo, At, Pcs
  <2>2. CASE Goto("syscall") /\ Top.int
    <3>1. /\ InHandler /\ InHandler' /\ Len(frames') = Len(frames)
          /\ Top' = [Top EXCEPT !.pc = "syscall", !.i = 1]
          /\ \A k \in 1 .. Len(frames) - 1 : frames'[k] = frames[k]
      BY <1>13, <2>2, GotoLemma DEF ExnDo, At, Pcs
    <3>2. Top'.int = Top.int /\ Top'.pc = "syscall"
      BY <3>1, TopIsFrame DEF Frame
    <3>3. FrameAgrees(Top', Len(frames))
      BY <1>3, <2>2, <3>1, <3>2 DEF FrameAgrees
    <3> QED BY <1>5, <1>13, <3>1, <3>3 DEF ExnDo
  <2> QED BY <1>13, <2>1, <2>2 DEF ExnDo
<1>14. CASE SyscallDo
  <2>1. InHandler /\ Top.pc = "syscall" /\ Alive
    BY <1>14 DEF SyscallDo, At
  <2>2. Len(frames) = 1 /\ where \notin {"boot", "started"}
    BY <1>3, <2>1 DEF FrameAgrees
  <2>3. CASE cur' \in Procs /\ Goto("curp") /\ UNCHANGED where
    <3>1. InHandler' /\ Len(frames') = 1 /\ Top' = [Top EXCEPT !.pc = "curp", !.i = 1]
      BY <2>1, <2>2, <2>3, GotoLemma DEF Pcs
    <3>2. Top'.pc = "curp" /\ Top'.int = Top.int
      BY <2>1, <3>1, TopIsFrame DEF Frame
    <3>3. \A k \in 1 .. Len(frames') : k = 1 /\ frames'[k] = Top'
      BY <3>1 DEF Top
    <3>4. \A k \in 1 .. Len(frames') : FrameAgrees(frames[k], k)'
      BY <2>2, <2>3, <3>2, <3>3 DEF FrameAgrees
    <3>5. cur' # NoProc /\ where' # "boot"
      BY <2>2, <2>3, HostVmAssumption
    <3> QED BY <3>1, <3>4, <3>5 DEF Agrees
  <2>4. CASE where' = "halted" /\ UNCHANGED <<cur, frames>>
    BY <1>4, <1>14, <2>4 DEF SyscallDo
  <2> QED BY <1>14, <2>3, <2>4 DEF SyscallDo
<1>15. CASE ReadCurp
  <2>1. /\ InHandler /\ InHandler' /\ Len(frames') = Len(frames)
        /\ Top' = [Top EXCEPT !.pc = "lock", !.i = 1, !.cp = cur]
        /\ \A k \in 1 .. Len(frames) - 1 : frames'[k] = frames[k]
    BY <1>15, ReadCurpLemma DEF ReadCurp, At
  <2>2. Top'.int = Top.int /\ Top'.pc = "lock" /\ Top'.cp = cur
    BY <2>1, TopIsFrame DEF Frame
  <2>3. FrameAgrees(Top', Len(frames))
    BY <1>3, <2>1, <2>2 DEF FrameAgrees
  <2> QED BY <1>5, <1>15, <2>1, <2>3 DEF ReadCurp
<1>16. CASE Lock
  <2>1. InHandler /\ Top.cp = cur
    BY <1>3, <1>16 DEF Lock, At, FrameAgrees
  <2> QED BY <1>7, <1>8, <1>16, <2>1 DEF Lock, Pcs
<1>17. CASE Grant
  <2>1. InHandler /\ granted' = cur /\ UNCHANGED <<cur, where>>
    BY <1>3, <1>17 DEF Grant, At, FrameAgrees
  <2>2. /\ InHandler' /\ Len(frames') = Len(frames)
        /\ Top' = [Top EXCEPT !.pc = "ret", !.i = 1]
        /\ \A k \in 1 .. Len(frames) - 1 : frames'[k] = frames[k]
    BY <1>17, <2>1, GotoLemma DEF Grant, Pcs
  <2>3. Top'.int = Top.int /\ Top'.pc = "ret"
    BY <2>1, <2>2, TopIsFrame DEF Frame
  <2>4. ASSUME NEW k \in 1 .. Len(frames') PROVE FrameAgrees(frames[k], k)'
    <3>1. CASE k = Len(frames)
      <4>1. frames'[k] = Top'
        BY <2>2, <3>1 DEF Top
      <4> QED BY <1>3, <2>1, <2>3, <3>1, <4>1 DEF FrameAgrees
    <3>2. CASE k # Len(frames)
      <4>1. k \in 1 .. Len(frames) - 1 /\ k \in 1 .. Len(frames)
        BY <1>1, <2>2, <3>2
      <4>2. frames'[k] = frames[k] /\ FrameAgrees(frames[k], k)
        BY <1>2, <2>2, <4>1
      <4> QED BY <2>1, <4>2 DEF FrameAgrees
    <3> QED BY <3>1, <3>2
  <2> QED BY <2>1, <2>2, <2>4 DEF Agrees
<1>18. CASE Return
  <2>1. InHandler /\ granted = cur /\ UNCHANGED <<granted, cur, where>>
    BY <1>3, <1>18 DEF Return, At, FrameAgrees
  <2>2. Len(frames') = Len(frames) - 1 /\ \A k \in 1 .. Len(frames') : frames'[k] = frames[k]
    BY <1>18, <2>1, ReturnLemma DEF Return
  <2>3. \A k \in 1 .. Len(frames') : FrameAgrees(frames'[k], k)
    BY <1>1, <1>2, <2>2
  <2>4. \A k \in 1 .. Len(frames') : FrameAgrees(frames[k], k)'
    BY <2>1, <2>3 DEF FrameAgrees
  <2> QED BY <2>1, <2>4 DEF Agrees
<1>19. CASE FaultKills \/ Stopped \/ UNCHANGED vars
  BY <1>4, <1>19 DEF FaultKills, Stopped, vars
<1> QED
  BY <1>9, <1>10, <1>11, <1>12, <1>13, <1>14, <1>15, <1>16, <1>17, <1>18, <1>19
     DEF Next, HandlerStep, KernelFault

(* When sighnd returns to a program, the memory it opened last is that of  *)
(* the process that is current, also after run and exit changed it and     *)
(* however many other signals came in between.                             *)
THEOREM OpensCurrentProcess == Spec => []GrantIsCurrent
<1>1. Init => Agrees
  BY EmptySeq DEF Init, Agrees, InHandler
<1>2. Spec => []TypeOK
  BY HostVmTypeCorrect
<1>3. Agrees => GrantIsCurrent
  BY DEF Agrees, GrantIsCurrent
<1> QED BY <1>1, <1>2, <1>3, AgreesNext, PTL DEF Spec
-----------------------------------------------------------------------------
(* Why kernel code never meets a protected entry as long as signals arrive *)
(* only while a program runs: handlers do not nest, and the one handler    *)
(* lifts every protection before it enters the kernel.                     *)
SignalsInPrograms == When \subseteq {"user"}

Lifted ==
  /\ Len(frames) <= 1
  /\ where \in {"boot", "started"} => ~InHandler /\ locked = {}
  /\ InHandler /\ Top.pc = "restore" => locked \cap (1 .. Top.i - 1) = {}
  /\ InHandler /\ Top.pc \in KernelPcs => locked = {}
  /\ where # "boot" => cur # NoProc

LEMMA LiftedIsOpen == TypeOK /\ Lifted => KernelRunsOpen
  BY DEF Lifted, KernelRunsOpen, KernelFaults, Alive, Open

LEMMA LiftedNext ==
  ASSUME SignalsInPrograms
  PROVE  TypeOK /\ Lifted /\ [Next]_vars => Lifted'
<1> SUFFICES ASSUME TypeOK, Lifted, [Next]_vars PROVE Lifted'
  OBVIOUS
<1>1. locked \subseteq Maps /\ frames \in Seq(Frame) /\ Len(frames) \in Nat
  BY LenProperties DEF TypeOK
<1>2. InHandler => Len(frames) = 1 /\ where \notin {"boot", "started"} /\ cur # NoProc
  <2>1. InHandler => Len(frames) \in Nat \ {0} /\ Len(frames) <= 1
    BY TopIsFrame DEF Lifted
  <2>2. InHandler => Len(frames) = 1
    BY <2>1
  <2>3. InHandler => where \notin {"boot", "started"} /\ cur # NoProc
    BY DEF Lifted
  <2> QED BY <2>2, <2>3
<1>3. ~ KernelFaults
  BY LiftedIsOpen DEF KernelRunsOpen
<1>4. ASSUME NEW sig \in Async \cup {SEGV}, NEW int \in BOOLEAN, Enter(sig, int),
             ~InHandler, where = "user", UNCHANGED <<locked, cur, where>>
      PROVE  Lifted'
  <2>1. /\ InHandler' /\ Len(frames') = Len(frames) + 1
        /\ Top' = [sig |-> sig, int |-> int, pc |-> "restore", i |-> 1, cp |-> NoProc]
    BY <1>4, EnterLemma
  <2>2. Len(frames) = 0
    BY <1>4 DEF InHandler
  <2>3. Top'.pc = "restore" /\ Top'.i = 1
    BY <2>1
  <2> QED BY <1>4, <2>1, <2>2, <2>3 DEF Lifted, KernelPcs
<1>5. ASSUME NEW pc \in Pcs \ {"restore"}, InHandler, Goto(pc),
             pc \in KernelPcs => locked = {}, UNCHANGED <<locked, where>>,
             cur' # NoProc
      PROVE  Lifted'
  <2>1. InHandler' /\ Len(frames') = Len(frames) /\ Top' = [Top EXCEPT !.pc = pc, !.i = 1]
    BY <1>5, GotoLemma
  <2>2. Top'.pc = pc
    BY <1>5, <2>1, TopIsFrame DEF Frame
  <2> QED BY <1>2, <1>5, <2>1, <2>2 DEF Lifted
<1>6. CASE Start
  BY <1>6, HostVmAssumption DEF Start, Lifted, InHandler, Top
<1>7. CASE CallEntry
  BY <1>7 DEF CallEntry, Lifted, InHandler, Top
<1>8. CASE Trap
  BY <1>4, <1>8 DEF Trap
<1>9. CASE Signal
  <2>1. ~InHandler /\ where = "user"
    BY <1>9 DEF Signal, SignalsInPrograms
  <2> QED BY <1>4, <1>9, <2>1 DEF Signal
<1>10. CASE Restore
  <2>1. InHandler /\ Top.pc = "restore" /\ locked \cap (1 .. Top.i - 1) = {}
    BY <1>10 DEF Restore, At, Lifted
  <2>2. Top.i \in 1 .. NMaps + 1 /\ NMaps \in Nat
    BY <2>1, TopIsFrame, HostVmAssumption DEF Frame
  <2>3. CASE Top.i <= NMaps
    <3>1. /\ InHandler' /\ Len(frames') = Len(frames) /\ Top' = [Top EXCEPT !.i = @ + 1]
      BY <1>10, <2>1, <2>3, NextEntryLemma DEF Restore
    <3>2. Top'.pc = "restore" /\ Top'.i = Top.i + 1
      BY <2>1, <3>1, TopIsFrame DEF Frame
    <3>3. locked' = locked \ {Top.i} /\ UNCHANGED <<cur, where>>
      BY <1>10, <2>3 DEF Restore
    <3>4. locked' \cap (1 .. Top'.i - 1) = {}
      BY <2>1, <2>2, <3>2, <3>3
    <3> QED BY <1>2, <2>1, <3>1, <3>2, <3>3, <3>4 DEF Lifted, KernelPcs
  <2>4. CASE ~ Top.i <= NMaps
    <3>1. locked = {}
      BY <1>1, <2>1, <2>2, <2>4 DEF Maps
    <3> QED BY <1>2, <1>5, <1>10, <2>1, <2>4, <3>1 DEF Restore, Pcs
  <2> QED BY <2>3, <2>4
<1>11. CASE ExnDo
  <2>1. InHandler /\ locked = {}
    BY <1>11 DEF ExnDo, At, Lifted, KernelPcs
  <2> QED BY <1>2, <1>5, <1>11, <2>1 DEF ExnDo, Pcs
<1>12. CASE SyscallDo
  <2>1. InHandler /\ locked = {}
    BY <1>12 DEF SyscallDo, At, Lifted, KernelPcs
  <2>2. CASE cur' \in Procs /\ Goto("curp") /\ UNCHANGED where
    BY <1>5, <1>12, <2>1, <2>2, HostVmAssumption DEF SyscallDo, Pcs
  <2>3. CASE where' = "halted" /\ UNCHANGED <<cur, frames>>
    BY <1>2, <1>12, <2>1, <2>3 DEF SyscallDo, Lifted, InHandler, Top
  <2> QED BY <1>12, <2>2, <2>3 DEF SyscallDo
<1>13. CASE ReadCurp
  <2>1. /\ InHandler' /\ Len(frames') = Len(frames)
        /\ Top' = [Top EXCEPT !.pc = "lock", !.i = 1, !.cp = cur]
    BY <1>13, ReadCurpLemma DEF ReadCurp, At
  <2>2. Top'.pc = "lock"
    BY <1>13, <2>1, TopIsFrame DEF Frame, ReadCurp, At
  <2> QED BY <1>2, <1>13, <2>1, <2>2 DEF ReadCurp, At, Lifted, KernelPcs
<1>14. CASE Lock
  <2>1. InHandler /\ Top.pc = "lock"
    BY <1>14 DEF Lock, At
  <2>2. CASE Top.i <= NMaps
    <3>1. /\ InHandler' /\ Len(frames') = Len(frames) /\ Top' = [Top EXCEPT !.i = @ + 1]
      BY <1>14, <2>1, <2>2, NextEntryLemma DEF Lock
    <3>2. Top'.pc = "lock"
      BY <2>1, <3>1, TopIsFrame DEF Frame
    <3> QED BY <1>2, <1>14, <2>1, <3>1, <3>2 DEF Lock, Lifted, KernelPcs
  <2>3. CASE ~ Top.i <= NMaps
    BY <1>2, <1>5, <1>14, <2>1, <2>3 DEF Lock, Pcs, KernelPcs
  <2> QED BY <2>2, <2>3
<1>15. CASE Grant
  BY <1>2, <1>5, <1>15 DEF Grant, At, Pcs, KernelPcs
<1>16. CASE Return
  <2>1. InHandler /\ UNCHANGED <<locked, cur, where>>
    BY <1>16 DEF Return, At
  <2>2. Len(frames') = 0 /\ frames' \in Seq(Frame)
    BY <1>2, <1>16, <2>1, ReturnLemma DEF Return
  <2>3. ~InHandler'
    BY <2>2, EmptySeq DEF InHandler
  <2> QED BY <1>2, <2>1, <2>2, <2>3 DEF Lifted
<1>17. CASE FaultKills \/ FaultEnters
  BY <1>3, <1>17 DEF FaultKills, FaultEnters
<1>18. CASE Stopped \/ UNCHANGED vars
  BY <1>18 DEF Stopped, vars, Lifted, InHandler, Top
<1> QED
  BY <1>6, <1>7, <1>8, <1>9, <1>10, <1>11, <1>12, <1>13, <1>14, <1>15, <1>16,
     <1>17, <1>18 DEF Next, HandlerStep, KernelFault

(* As long as signals from outside arrive only while a program runs, no    *)
(* kernel code runs into a protected entry: the findings about signals     *)
(* need one that interrupts a handler or the boot.                         *)
THEOREM KernelNeverFaults ==
  ASSUME SignalsInPrograms
  PROVE  Spec => []KernelRunsOpen
<1>1. Init => Lifted
  BY EmptySeq DEF Init, Lifted, InHandler
<1>2. Spec => []TypeOK
  BY HostVmTypeCorrect
<1>3. TypeOK /\ Lifted /\ [Next]_vars => Lifted'
  BY LiftedNext
<1> QED BY <1>1, <1>2, <1>3, LiftedIsOpen, PTL DEF Spec
=============================================================================
