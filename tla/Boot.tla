-------------------------------- MODULE Boot --------------------------------
(***************************************************************************)
(* From main() to programs that run (hosthal/init.c, kernel/init.c,        *)
(* exn_init of hosthal/exn.c, exn_set_hnd of kernel/exn.c): main reads the *)
(* root file system, maps the memory of programs, lets exn_init enter the  *)
(* image's mappings (VmInit) and install the handlers, and starts the      *)
(* first program (RootFs). Programs then load others.                      *)
(***************************************************************************)
EXTENDS VmInit, RootFs, SequencesExt

CONSTANTS
  Hosts,       \* what the host holds: [maps, disk], the lines of
               \* /proc/self/maps and the files of the root file system
  ReadMax,     \* the most bytes one read() delivers, 0x7ffff000
  LastSig,     \* the last signal exn_init handles, 31
  SEGV, SigKill, SigStop,      \* SIGSEGV, SIGKILL, SIGSTOP
  ExnMax,      \* EXN_N_MAX, 64
  MaxProcs,    \* elements of procspace, 8
  First,       \* "shell"
  Names        \* the names programs ask for

Signals == 1 .. LastSig

(* A file of the root file system, and cpio's trailer.                     *)
IsFile(f) ==
  /\ CString(f.name) /\ Len(f.name) < Half
  /\ f.size \in Nat
  /\ ElfFields(f.elf)

ASSUME BootAssumption ==
  /\ ExnMax \in Nat \ {0} /\ LastSig \in Nat /\ MaxProcs \in Nat \ {0}
  /\ SEGV \in Signals \ {SigKill, SigStop}
  /\ ReadMax \in Nat /\ 2 * ReadMax < Word
  /\ \A n \in Names \cup {First, Trailer} : CString(n)
  /\ \A h \in Hosts :
       /\ IsMaps(h.maps)
       /\ Len(h.disk) \in Nat \ {0}
       /\ \A k \in 1 .. Len(h.disk) :
            IsFile(h.disk[k]) /\ (h.disk[k].name = Trailer <=> k = Len(h.disk))

NoHnd == "none"                \* an element whose hnd is NULL

VARIABLES
  disk,        \* the file argv[1]: its files, each [name, size, elf]
  pc,          \* where main is; user: a program runs
  failed,      \* exn_init returned an error
  altstack,    \* sigaltstack was called
  exntable,    \* exn_hnd_table
  handled,     \* the signals sighnd is installed for
  sig          \* exn_init's loop

mainvars == <<disk, pc, failed, altstack, exntable, handled, sig>>
vars == <<mainvars, vmvars, fsvars>>

(* The archive as cpio lays it out: headers, names and files at even       *)
(* offsets, the trailer last.                                              *)
Even(n) == n + (n % 2)
Extent(f) == HdrSize + Even(Len(f.name)) + Even(f.size)
Offset(files) ==
  LET offset[k \in 1 .. Len(files) + 1] ==
        IF k = 1 THEN 0 ELSE offset[k - 1] + Extent(files[k - 1])
  IN offset
Header(f) == [name |-> f.name, namesize |-> Len(f.name), elf |-> f.elf,
              filesize |-> <<f.size \div Half, f.size % Half>>]
Archive(files) ==
  LET offset == Offset(files)
  IN [a \in {offset[k] : k \in 1 .. Len(files)} |->
        Header(files[CHOOSE k \in 1 .. Len(files) : offset[k] = a])]
Size(files) == Offset(files)[Len(files) + 1]

Init ==
  /\ pc = "args"
  /\ failed = FALSE /\ altstack = FALSE
  /\ exntable = [e \in 0 .. ExnMax - 1 |-> NoHnd]
  /\ handled = {} /\ sig = 1
  /\ \E h \in Hosts : maps = h.maps /\ disk = h.disk
  /\ VmInitial
  /\ rootfs = <<>> /\ FsInit
-----------------------------------------------------------------------------
(* main() and read_rootfs: no argument; stat, malloc, open, read or mmap   *)
(* fails. What was taken is left to the exit of the process.               *)
MainSteps == <<"args", "stat", "malloc", "open", "read", "mmap", "exn">>

HostFails ==
  /\ pc \in {MainSteps[k] : k \in 1 .. 6}
  /\ pc' = "exit1"
  /\ UNCHANGED <<disk, failed, altstack, exntable, handled, sig, vmvars, fsvars>>

HostGrants ==
  /\ pc # "read"
  /\ \E k \in 1 .. 6 : MainSteps[k] = pc /\ pc' = MainSteps[k + 1]
  /\ UNCHANGED <<disk, failed, altstack, exntable, handled, sig, vmvars, fsvars>>

(* Faulty variant of the next action: a short read is not noticed.         *)
ReadRootfs_Short ==
  /\ pc = "read"
  /\ LET archive == Archive(disk)
     IN rootfs' = [a \in {o \in DOMAIN archive : o < ReadMax} |-> archive[a]]
  /\ pc' = "mmap"
  /\ UNCHANGED <<disk, failed, altstack, exntable, handled, sig, vmvars, execbufp,
                 kmem, name, cph, mark, prog, alive, fpc>>

(* The archive is read whole: one that read() does not deliver at once is  *)
(* a truncated file.                                                       *)
ReadRootfs ==
  /\ pc = "read"
  /\ Size(disk) <= ReadMax
  /\ rootfs' = Archive(disk)
  /\ pc' = "mmap"
  /\ UNCHANGED <<disk, failed, altstack, exntable, handled, sig, vmvars, execbufp,
                 kmem, name, cph, mark, prog, alive, fpc>>

-----------------------------------------------------------------------------
(* exn_init. host_vm_init has no result to fail with; a failed assert of   *)
(* it halts.                                                               *)
ExnInit ==
  /\ pc = "exn"
  /\ pc' = "maps"
  /\ host_vm_init
  /\ UNCHANGED <<disk, failed, altstack, exntable, handled, sig, fsvars>>

ReadsMaps ==
  /\ pc = "maps"
  /\ VmStep
  /\ pc' = CASE vpc' = "done" -> "altstack" [] vpc' = "halted" -> "exit0"
             [] OTHER -> "maps"
  /\ UNCHANGED <<disk, failed, altstack, exntable, handled, sig, fsvars>>

(* The host refuses sigaltstack or sigaction. exn_init returns -1, and     *)
(* main goes on to start the kernel.                                       *)
ExnInitFails ==
  /\ pc \in {"altstack", "sigaction"}
  /\ failed' = TRUE
  /\ pc' = "start"
  /\ UNCHANGED <<disk, altstack, exntable, handled, sig, vmvars, fsvars>>

exn_set_hnd(table, exn, hnd) ==
  IF exn < 0 \/ ExnMax <= exn THEN [ret |-> -1, table |-> table]
  ELSE [ret |-> 0, table |-> [table EXCEPT ![exn] = hnd]]

AltStack ==
  /\ pc = "altstack"
  /\ altstack' = TRUE
  /\ LET r == exn_set_hnd(exntable, SEGV, "syscall_hnd")
     IN /\ exntable' = r.table
        /\ IF r.ret = 0 THEN pc' = "sigaction" /\ UNCHANGED failed
           ELSE pc' = "start" /\ failed' = TRUE
  /\ UNCHANGED <<disk, handled, sig, vmvars, fsvars>>

(* One round of the loop over the signals.                                 *)
SigAction ==
  /\ pc = "sigaction"
  /\ IF sig \in Signals
     THEN /\ handled' = handled \cup ({sig} \ {SigKill, SigStop})
          /\ sig' = sig + 1
          /\ UNCHANGED pc
     ELSE pc' = "start" /\ UNCHANGED <<handled, sig>>
  /\ UNCHANGED <<disk, failed, altstack, exntable, vmvars, fsvars>>
-----------------------------------------------------------------------------
(* kernel_start: run_first loads the first program.                        *)
KernelStart ==
  /\ pc = "start"
  /\ CallFirst(First)
  /\ pc' = "loading"
  /\ UNCHANGED <<disk, failed, altstack, exntable, handled, sig, vmvars>>

(* A program runs another, on top of it, while a process is free.          *)
UserRuns ==
  /\ pc = "user" /\ Len(alive) < MaxProcs
  /\ \E n \in Names : CallRun(n)
  /\ pc' = "loading"
  /\ UNCHANGED <<disk, failed, altstack, exntable, handled, sig, vmvars>>

RunRefused == pc = "user" /\ Len(alive) = MaxProcs /\ UNCHANGED vars

Loads ==
  /\ pc = "loading"
  /\ FsStep
  /\ UNCHANGED <<mainvars, vmvars>>

(* run_first enters the program or panics; sys_run returns to the caller   *)
(* or the child.                                                           *)
Loaded ==
  /\ pc = "loading"
  /\ fpc \in {"started", "failed"}
  /\ fpc' = "idle"
  /\ pc' = IF fpc = "failed" /\ alive = <<>> THEN "panic" ELSE "user"
  /\ UNCHANGED <<disk, failed, altstack, exntable, handled, sig, vmvars, rootfs,
                 execbufp, kmem, name, cph, mark, prog, alive>>

ImageLost ==
  /\ pc = "loading"
  /\ fpc \in {"killed", "astray"}
  /\ pc' = fpc
  /\ UNCHANGED <<disk, failed, altstack, exntable, handled, sig, vmvars, fsvars>>

Ends == {"exit1", "exit0", "panic", "killed", "astray"}
Ended == pc \in Ends /\ UNCHANGED vars

Step == \/ HostFails \/ HostGrants \/ ReadRootfs
        \/ ExnInit \/ ReadsMaps \/ ExnInitFails \/ AltStack \/ SigAction
        \/ KernelStart \/ Loads \/ Loaded \/ ImageLost
Next == Step \/ UserRuns \/ RunRefused \/ Ended

(* The only thread is not stopped by the host.                             *)
Spec == Init /\ [][Next]_vars /\ WF_vars(Step)
-----------------------------------------------------------------------------
TypeOK ==
  /\ VmTypeOK /\ FsTypeOK
  /\ pc \in {MainSteps[k] : k \in DOMAIN MainSteps} \cup Ends
              \cup {"maps", "altstack", "sigaction", "start", "loading", "user"}
  /\ exntable \in [0 .. ExnMax - 1 -> {NoHnd, "syscall_hnd"}]
  /\ handled \subseteq Signals

(* If every line of the map of memory matches the format of fscanf, boot   *)
(* comes to an end, as does every later search for a program.              *)
AlwaysSettles == LinesMatch => (pc # "user" ~> pc \in Ends \cup {"user"})
=============================================================================
