# os226-2018 in TLA+

os226-2018 is a small teaching kernel that runs as a Linux process. Programs
are loaded into a fixed region of that process and run on its only thread. The
instruction `int $0x81` raises SIGSEGV in the host; the signal handler of the
image is the kernel's system call entry. Memory protection is made with
`mprotect`: while a program runs, everything the image maps is inaccessible
except the program's own text and stack.

This directory holds TLA+ modules translated from that code, TLC
configurations that check them on small instances, and theorems about them
with proofs that TLAPS checks for every value of the constants.

`kernel/ksys.c` contains an unresolved merge (conflict markers at lines 149,
161, 167, 188 and 229). The side modelled is `pr/3`, `int load(name, entry,
proc)` over `alloc` and `freeup`: it is what `run_first`, `sys_run` and
`sys_exit` of the same file call. The other side (`my_alloc`, `unload`) has no
caller.

## Inventory

### Object pool (`kernel/pool.c`)

- State: `freestart`, `freeend`, and a singly linked list of freed objects
  whose links are stored in the first word of the objects themselves.
- Operations: `pool_init`, `pool_alloc`, `pool_free`.
- Used by the process table only. The first field of `struct proc` is `prev`,
  so the link of a free process and the parent of a running one are one word.
- Hard: the order in which clients and pool write that word.
- Correct when: every used object is either held by one client or on the list,
  once; NULL is returned only when all objects are held.

### Program memory (`kernel/ksys.c`: `alloc`, `freeup`, `freemark`, `allocinit`)

- State: one bump pointer `execbufp`, NULL until the first use.
- Memory is released by moving the pointer back to a mark taken before a load,
  so every release must be in stack order.
- Correct when: the blocks of the programs alive do not overlap, nothing leaks,
  the last page is usable and nothing past it is handed out.

### Process table and system calls (`kernel/ksys.c`, `kernel/syscall.c`)

- State: `procspace` (8 processes), `procpool`, `curp`; in each process its
  saved registers, mark, text, stack, argument vector, place for the exit code.
- Operations: `run_first`, `sys_run`, `sys_exit`, `sys_getargv`, `sys_read`,
  `sys_write`, `load`.
- There is no scheduler: `run` starts a child on top of its caller, `exit`
  goes back. `argv` and `code` of a child point into the parent's memory.
- Hard: three resources (process, text, stack) are taken one after the other
  and each step can fail; the caller's registers are saved and restored by
  hand; text may be loaded on pages that were an earlier program's stack.
- Correct when: `run` behaves as a procedure call (`ProcStack`).

### Contexts (`hosthal/ctx.c`)

- `ctx_save`, `ctx_restore`: copy the registers of the interrupted program out
  of and into the host's signal frame. The other functions have no caller.

### Trap path and image protection (`hosthal/exn.c`, `kernel/exn.c`)

- State: the protection of each entry of `kmmap.procmaps`, the program whose
  memory is open, the activations of the signal handler.
- Operations: `sighnd`, `host_vm_prot`, `sysmprotect`, `syscall_hnd`, `exn_do`,
  `exn_set_hnd`, `host_vm_init`.
- Hard: `sa_mask` is empty, so another signal may interrupt a handler between
  any two `mprotect` calls; a page fault of the kernel is itself a signal.
- Correct when: no program runs with a part of the image open, but for the first
  one until its first trap (`run_first` protects nothing); the memory opened is
  the current process's; the kernel never meets a protected page.

### Boot (`hosthal/init.c`, `kernel/init.c`, `exn_init`)

- `main` reads the root file system, maps the memory of programs, calls
  `exn_init` (the table of mappings, the signal stack, the handlers) and starts
  the first program.
- State: what of this is done; `kmmap.procmaps`; the table of `exn_set_hnd`.
- Hard: each step can fail, and the result of `exn_init` is not looked at;
  handlers are live while the rest is set up; `/proc/self/maps` is read with a
  format it need not match, into variables a line may leave alone; the size of an
  entry is narrower than an address.
- Correct when: the table holds the image and nothing of the holes; boot comes to
  an end.

### Root file system and loader (`kernel/ksys.c`: `find_exe`, `load`)

- State: the archive, read once; the memory programs are copied to.
- Operations: a walk over cpio headers for the name, tests of the ELF header,
  a copy of one segment, the stack behind it.
- Hard: sizes in two halves, padding, and arithmetic that mixes int, unsigned
  and unsigned long, up to addresses that wrap around; memory an earlier program
  used.
- Correct when: the first file of the name is found, a program accepted is whole
  and in its own pages, and no other program is touched.

### Program start and arguments (`libc/_main.c`, `sys_getargv`)

- `_main` asks the kernel for the arguments of the program and gives it two
  arrays of its frame; the kernel copies the strings out of the parent's memory.
- State: the arrays, how far they are filled, and what the stack pages held.
- Hard: two bounds tested with different comparisons, one before and one after
  the loop; an exact fit; pages used by an earlier program.
- Correct when: a program that gets to `main` has its arguments, and exactly
  the vectors that do not fit are refused.

### libc (`libc/string.c`, `libc/stdio.c`)

- String functions without state (`strtok_r` keeps its place in its caller) and
  `vsnprintf`, which prints whole conversions or stops.
- Hard: boundaries of the buffers, the ends of the loops.

### Shell (`apps/shell.c`)

- Reads into one buffer; two nested `strtok_r` walks cut it into commands and
  words; each command is run.
- Hard: both walks write into the same buffer; lines without terminator; what
  an earlier line left.
- Correct when: it runs what the line asks for, in order, and prompts again.

### Other programs (`apps/echo.c`, `apps/echocode.c`, `apps/sigtest.c`)

- `echo` prints its arguments; `echocode` runs a program and prints its exit
  code, so programs nest. `sigtest` writes to address 0 and expects its fault as a
  signal, which the kernel has no way to deliver. In `KSys` a program may issue
  any system call.
- Hard: programs that follow one another, or nest, use the same pages.
- Correct when: a line prints what its commands stand for.

### Kernel utilities (`kernel/util.c`, `kernel/util.h`, `hosthal/dbg.c`)

- `kprint`, `panic`, `failed_assert` format into a buffer on the stack and write
  it to the console; the last two halt. `align` rounds sizes.
- Correct when: the console shows the messages and nothing else.

### Not modelled

- `hosthal/tramp.S`, `ctx_push`, `ctx_call_setup`, `ctx_call_end`, `abort`,
  `min`: no caller left. `kernel.ld`: layout. `dbg_in`, which `sys_read` calls, is
  the input `Shell` is given.
- `apps/sigtest.c`: its calls are `rprintf` and `os_exit`, but nothing installs the
  handler it has. The fault it provokes is `Fault` of `KSys`.
- In `VmInit`: `fopen` of `/proc/self/maps` failing, and permissions that are
  none (the host does not write such lines).
- In `RootFs`: an ELF file whose segment has more bytes in the file than in
  memory, or reaches past the end of the file: the linker makes none. What writes
  outside the memory of programs change of the image: the loader is then
  `astray`, which ends the model.
- In `KSys`: segments that reach past the last address. Sizes there are pages, and
  a load that takes pages back has no size; `RootFs` has them.
- `kernel/third-party/queue.h`: third-party macros; the two SLIST operations
  used are part of `PoolOps`.
- `Makefile`, `test/*.sh`: scripts. The expected outputs under `test/t` serve
  as statements about the programs.

## Modules

| module | models | lines of state and steps |
|---|---|---|
| `KUtil` | the null pointer | |
| `PoolOps` | `pool_alloc`, `pool_free` as operators; what the free list is | pure |
| `SlotAlloc` | abstract: a set of objects, taken and given back | 3 variables |
| `Pool` | the pool with clients that overwrite the objects they hold | 5 variables |
| `ExecBuf` | `alloc`, `freeup`, `freemark`, `allocinit` | pure |
| `KSys` | process table, system calls, context switch, memory, protection | 9 variables |
| `ProcStack` | abstract: `run` and `exit` as a procedure call | 3 variables |
| `KSysRefines` | `KSys` with the refinement mapping to `ProcStack` | 1 history variable |
| `HostVm` | the signal handler, one `mprotect` at a time, nested | 5 variables |
| `GetArgv` | `_main` and `sys_getargv`, one argument a step | 7 variables |
| `LibcString` | the functions of `libc/string.c` | pure |
| `Shell` | the loops of the shell over its buffer | 8 variables |
| `Session` | the shell with `echo` and `echocode` and their arguments | 4 variables more |
| `Printf` | `vsnprintf`, one character of the format a step | 7 variables |
| `Console` | `rprintf`, `snprintf`, `kprint`, `panic`, `failed_assert` | 5 variables more |
| `CTypes` | the number of values of C's integers | |
| `RootFs` | `find_exe`, `load`, and the stack taken behind it | 9 variables |
| `VmInit` | `host_vm_init`, one `fscanf` a step | 10 variables |
| `Boot` | `main`, `exn_init`, `exn_set_hnd`, `kernel_start`, over `VmInit` and `RootFs` | 7 variables more |
| `PoolLemmas`, `PoolProof` | proofs about the pool | |
| `KSysProof` | proofs about `KSys`, and that it implements `ProcStack` | |
| `HostVmProof` | proofs about `HostVm` | |
| `GetArgvProof` | proofs about `GetArgv` | |
| `BootProof` | arithmetic of sizes, proofs about `RootFs`, `VmInit` and `Boot` | |
| `PrintfProof` | proofs about `Printf` and `Console` | |
| `ShellProof` | proofs about `strtok_r`, `Shell` and `Session` | |
| `MC*` | constants for TLC | |

`KSys` composes `PoolOps` and `ExecBuf`: its actions call their operators where
the C functions call each other. `KSys` takes a trap as one step, because
between a trap and its return only the kernel runs; `HostVm` opens up that step
and keeps of the system call only that it changes `curp`.

`Pool` and `SlotAlloc` count allocations modulo 2 (`turn`): without it, giving
out a held object again could pass for a step that changes nothing.

`GetArgv` opens up `sys_getargv`, which is one step of `KSys` (there the vector
is one value and `TooBig` are the vectors `GetArgv` refuses). `RootFs` opens up
`load`, which in `KSys` is a test of membership with sizes in pages; the
property `LoadsInPages` says that the arithmetic in bytes comes to that. `Boot`
composes `VmInit` and `RootFs`: `kmmap.procmaps`, which it builds, is what
`HostVm` scans, and the first program it starts is where `KSys` begins. `Session`
composes `Shell` with what `_main` and `sys_getargv` do for each program it
runs. `Shell` opens up the program that `KSys` leaves free to store any vector and run it; it calls
the operators of `LibcString` where the C code calls the functions.

### KSys and the code

| action | code |
|---|---|
| `BootOk`, `BootFails`, `BootFault` | `run_first` called by `kernel_start`: the first program runs; no such file, or no room for its stack; no room for its text |
| `UserCompute`, `UserStore` | the running program: other registers, a jump, a store of an argument vector on its stack |
| `Fault` | a SIGSEGV that `syscall_hnd` refuses |
| `RunRefused`, `RunNoExe`, `RunNoStack`, `RunFault`, `RunOk` | the exits of `sys_run` in the order of the code: `argv[0]` NULL or no process; `load` refuses; no room for the stack; `load` writes through NULL; the child starts |
| `ExitHalts`, `ExitToParent` | `sys_exit` of the first process and of a child |
| `sys_getargv`, `sys_read`, `sys_write` | the other calls; the argument vector is one value |

Every action that returns from a trap ends in `Return`: RAX is stored in the
registers that now run and `host_vm_prot` opens the memory of the process that
is now current. Addresses are page numbers, as every size the kernel asks for
is a whole number of pages. `word[s]` is the first word of process `s`, read as
`prev` or as the list's link. The first program runs on the host's own stack,
as in `run_first`, and its allocated stack stays unused.

### HostVm and the code

An activation of `sighnd` is a frame with a program counter: `restore`
(`host_vm_prot(true)`, one entry per step), `exn` (`exn_do`), `syscall`
(`syscall_do`), `curp` (`host_vm_prot(false)` reads `current_process()`),
`lock` (one entry per step), `grant` (text and stack of the process read),
`ret`. Kernel code (`exn`, `syscall`, `curp`, and the thread before the first
program) needs the entries `KernelMaps` open; the code of the scan itself lies
outside the entries. `When` says where outside signals may arrive.

### GetArgv and the code

`Start` is the call of `os_getargv` in `_main`. `Copy`, `TooMany` and `TooLong`
are an iteration of the kernel's loop, `Finish` what follows it; `Exit` ends
the program and leaves its pages as they are. `OtherProgram` is a program of
another size that used the same pages. `args` has two characters and `argv` one
word behind the array, so that a write past the end is seen. `strcpy` does what
`libc/string.c` does: it copies no terminator.

### Shell and the code

`ReadLine`, `ReadFails` and `EndOfInput` are the outcomes of `os_read`.
`NextCommand` and `NextWord` are calls of `strtok_r`; a first call, with `str`,
is a call with the saved place set to `str`. `Run` is `os_run`: the child runs
and exits within it. The memory goes on behind the buffer, because a line that
fills it has no terminator.

### Printf and the code

`Plain` and `Convert` are an iteration of the loop for a character outside and
after a `%`, both ending in `Put` (lines 85-90); `End` is the end of the format.
An argument carries what `va_arg` makes of it as an int and as a string.

`Console` runs `Printf` for each call of a sequence: `vsnprintf` is a step of it,
`os_write` and `dbg_out` write what it counted, `NextCall` formats the next
message into the same buffer. The arguments that `failed_assert` does not pass
are any strings, or pointers that cannot be read (`WildString`).

### RootFs and the code

`NotFound`, `Found` and `Seek` are a round of the loop of `find_exe`;
`LoadRefuses`, `LoadKilled` and `LoadCopies` what `load` does with the file
found, in its order; `StackTaken` and `StackFails` what `run_first` and `sys_run`
do next. The archive is a function from offsets to headers; a walk that leaves
its domain stops, and `FindsFirst` and `AlwaysSettles` say it does not. A byte of
a file is its number, so bytes copied from elsewhere are seen.

Address `a` of the memory is `Base + a` to the host: `memset` computes the end of
what it clears modulo `Long`, and where that wraps (`MemsetWraps`) its loop is
empty. An accepted file with `p_vaddr` 0, `e_entry` 1 and `p_memsz` in the last page
of addresses then loads: its size as an int is negative, `alloc` grants it and moves
`execbufp` back, only `memcpy` writes, and the stack may be taken from the program
below. `Dies` says when the image is killed instead (a write through NULL, or one
that runs on for 2 GiB), `Fits` when all of what is written lies in the memory;
otherwise the loader is `astray`. `Cleared` tells the segments that do not wrap, and
`AllCleared` and `Tidy` that no program alive, or none about to be, has another:
the properties of `RootFs` hold under them, and do not without.

### VmInit and the code

`NextLine` is a round of the loop that starts at a line, `Leftover` one that
starts in what the last conversion left, `EndOfMaps` the end of the file. A line
is what its conversions store: `name` is `NoName` where the last one is not
reached, `left` what stays to be read. `Body` is the body of the loop. `Entry` cuts
the size of an entry to an unsigned, as its field does.

### Boot and the code

`HostFails` and `HostGrants` are the host's answers to `stat`, `malloc`, `open`,
`mmap` and a missing argument; `ReadRootfs` is `read`, which must deliver all.
`ExnInit`, `ReadsMaps`, `AltStack`, `SigAction` and `ExnInitFails` are
`exn_init`; after a failure `main` goes on, as in the code. `KernelStart`,
`Loads` and `Loaded` are `run_first`, `UserRuns` a `run` of a program, which is
refused (`RunRefused`) while `MaxProcs` programs are alive (8 in the code); programs
do not exit here, `KSys` has that. `ImageLost` is the end of a load that killed the
image or went astray. `Archive` lays out the files as `cpio -o` does; it is the
environment.

Nothing is claimed of the order in which `exn_init` makes handlers live: `sighnd`
reads `curp`, which `run_first` sets last, so a signal during boot kills the image
whatever the order is. `HostVm` has that case (`KernelFaults`).

### Session and the code

`Exec[n]` is `os_run` while `n` processes are free, and fails without one (`Depth`
is what the shell leaves, 7 of 8 in the code). `Program` is the program it
starts: `getargv` copies the words into the buffer that the last program at this
place left (`left[n]`), `echo` and echocode's branches are the two `main`s, and
echocode's child runs with one process less. `Reads`, `Cuts` and `SRun` are the
shell's steps with these variables added. `Meaning` says what a command should
do, without buffers. That memory for the programs may run out before the
processes do is left to `KSys`.

## Hazards and the properties for them

| property | what it says | hazard |
|---|---|---|
| `Pool!FreeListIsTheRest`, `ImplementsSlotAlloc` | the list is exactly the used objects nobody holds; the pool is an allocator of a set | link and client data share a word |
| `KSys!ProcsAreChainOrFree` | every process taken is an ancestor of `curp` or on the free list, once | partial failure of `run`; reuse of the word `prev` |
| `KSys!MemoryIsAStack` | blocks of the ancestors without holes, `execbufp` the end, each mark the end of the parent's block | release out of order, leak on failure, last page |
| `KSys!RunsItsText` | the running text is executable and is that of the program named by its arguments | pages that were a stack; arguments in the parent's memory |
| `KSysRefines!ImplementsProcStack` | run is a procedure call: nothing else of a suspended program changes, a run fails only for want of something | context switch, exit code, order of RIP step and save |
| `HostVm!ProgramsAreConfined` | no program runs with an entry of the image open | a signal between two `mprotect` calls |
| `HostVm!TrapsEnd` | once outside signals stop, every nest of handlers is left or the image ends, but for a handler of an outside signal that was returned to with the image protected | a handler that faults, and is returned to |
| `HostVm!GrantIsCurrent` | the memory open is the current process's | stale `curp` |
| `GetArgv!MainFindsArguments` | a program in `main` has all its arguments, whole and apart, the NULL, and an intact word behind `argv` | the loop writes `argv[argvsz]` before it refuses |
| `GetArgv!RefusesTheRest` | refused means that the vector does not fit, and the other way round | two bounds, two comparisons |
| `GetArgv!ArgsBounded` | no character behind `args` is written | exact fit, `bufp` past the end |
| `Shell!RunsItsCommands` | the vectors run are those of the line, up to the first blank command | nested tokenizers on one memory, remains of earlier lines |
| `Shell!ArgvFits`, `PromptsAgain` | `argv` is long enough; the loops end | unbounded index, `saveptr` |
| `Printf!PrintsWholePieces` | the output is what the format stands for, cut before a whole conversion | unsigned comparison, digits, sign |
| `Session!PrintsWhatIsAsked` | a line prints what its commands stand for, nested ones included, where `strcpy` found its terminators | buffers left by earlier programs, exit codes passed through two programs |
| `Console!ConsoleSays` | the console shows the messages, as far as the host wrote them, and nothing behind a panic | remains of earlier messages in `msg`, cut messages |
| `RootFs!FindsFirst` | a walk stays on headers, finds the first file of the name, misses none (the trailer is no file) | padding, sizes in two halves, short reads |
| `RootFs!ProgramsAreWhole` | every program started has its bytes and zeros behind them in pages of its own, unless one alive has a segment that wraps | pages used before, a load over another program |
| `RootFs!LoadsInPages` | a load takes the pages its segment fills, or the image dies for want of them; segments that wrap excepted | truncation by `align` and `int` |
| `VmInit!TableIsTheImage` | the table covers each mapping that is not skipped once, with its protection, without the holes; what does not fit the table is said; of a mapping of 4 GiB or more only a part is there | holes at the ends of mappings, a full table |
| `Boot!AlwaysSettles` | boot and searches end if the map's lines match the format | a walk without end |
| `HostVm!KernelRunsOpen` | kernel code meets no protected page while signals come only in programs | nested handlers |

## Runs

| run | configuration | shows |
|---|---|---|
| `pool` | 4 objects, clients write any link value | the properties of the pool, and that it implements `SlotAlloc` |
| `ksys` | 3 processes, 6 pages, programs of two sizes, vectors too big for `getargv`, two contents of the general registers | every path of boot, run and exit; types, chain, memory, text; that `KSys` implements `ProcStack` |
| `hostvm` | 3 entries, 2 processes, 2 outside signals that arrive only while a program runs | the kernel meets no protected page |
| `hostvm_nested` | the same, signals anywhere, handlers nested | confinement, the process opened, the end of traps |
| `getargv` | 5 characters, 3 pointers, 1 to 5 arguments, pages used by others | the arguments, the refusals, the bounds |
| `session` | 8 characters, every line of up to 4 letters, blanks and separators, some of 5, two of 8; sessions of `echo` and `echocode` | the commands run, what they print, and that the shell prompts again |
| `boot` | shorts of 5 bits, 6 pages of 4 bytes, 3 processes, about 160 archives and 530 maps of memory | boot, the table, the walk, the loads |
| `printf` | 6 characters, ints of 8 bits, every format of up to 4 characters; pairs of calls | the messages and the console |
| `getargv_echo` | expected violation | an argument goes on with what an earlier program left |
| `ksys_fault` | expected violation | a program at a faulting instruction stays there for ever |
| `ksys_nomem` | expected violation | a text that does not fit ends the image |
| `hostvm_restart` | expected violation | a nested handler leaves the image protected under the handler it interrupted |

### Bounds and why they are enough

- Pool: the code distinguishes fresh objects, a list of none, one and more
  elements, and exhaustion; four objects give all of them and every order of
  frees. The proofs hold for any number.
- `ksys`: with texts of 1 and 2 pages, stacks of 1, and 6 pages there are runs
  that succeed two levels deep, a third level that fits, one that lacks room
  for its stack, one that lacks room for its text, and one refused for want of
  a process; and a text that lies where a stack was. The programs `tall` and
  `huge` make the first program fail in the same two ways. A program keeps its
  argument vector and the exit code it awaits on its one page of stack, so the
  code overwrites the vector of the run that has ended. Not among the vectors is
  one whose `argv[0]` is NULL, which would double the states: it is refused as a
  run without a free process is. All bounds are constants of the model
  (`NSlots`, `MemPages`, `StackPages`, `Pages`); no action has an artificial
  guard. The two contents of the general registers are symmetric.
- `hostvm`: three entries of which one holds kernel code: a scan has a first, a
  middle and a last step, each before, at and after the one that matters. The
  depth of nesting is bounded by the code itself: a signal is blocked while its
  handler runs, so there are never more frames than signals.

- `getargv`: with 5 characters and 3 pointers there are vectors that fit with
  room to spare and to the last character, that are too long at the first or at
  a later argument, that have as many arguments as `argv` has elements (the word
  behind is written), one more and two more. The proofs hold for any size.
- `session`: five characters hold two commands with a blank one between them
  and a separator at each end, or a command of three words; the letter at position
  `i` is its own, so a word out of place is seen. Two lines of eight characters
  have no terminator. The sessions run words that grow and shrink, one after
  the other and nested, with no, too many and too long arguments. The shell leaves
  two processes, so programs nest until there is none, and one deeper fails.
- `boot`: `Half` is 32 for 2^16, so an int has 10 bits and an unsigned long 20;
  sizes of files lie at 0, at the ends of a half (31, 32, 33), odd and even, and
  on both sides of `ReadMax`, which like the host's lies just below the largest
  int; sizes of segments lie at each end of a page, of what is left, of an int
  and of an unsigned, and near the largest, where the end of `memset` wraps around
  or, by a byte, does not (`Base` is 1103), and `alloc` takes pages back, more than
  there are, none, or grants some; of the first program, and of one on top of
  another. `MaxProcs` is 3: two programs that wrap can follow a third. One mapping
  of some maps is the largest an entry has a size for, or longer. The last signal is 7, with SIGKILL and SIGSTOP among them;
  the table has 8 elements and 9 entries may be due. Each hole of a map lies
  inside its mapping, at either end, or fills it.
- `printf`: ints of 8 bits have one, two and three digits and both signs, and
  the longest, with its sign, fills `b` as 11 characters do not fill its 16; six
  characters hold a piece exactly, one too few, and a cut after several.

### Fairness

- `Session!SSpec` (as `Shell!Spec`): weak fairness of the steps between two
  prompts, which are those of the only thread. `Run` is one of them: a child that never exits keeps the
  shell waiting, which the property leaves out.

- `Boot!Spec`: weak fairness of the steps of boot and of loading together: the
  only thread runs, and the host answers its calls. Programs need not run others.
- `HostVm!FairSpec`: weak fairness of the handler's steps and of a kernel fault
  together, and of the steps of `run_first`. They are the only thread running;
  the host schedules it, and `read` returns. Outside signals and programs are
  not assumed to do anything. `TrapsEnd` assumes that outside signals stop at some
  time (`<>[][~Signal]_vars`): while they go on, handlers can be interrupted for
  ever. It is checked with signals anywhere, so that handlers nest and meet
  protected pages; `FaultsAgain` is what then goes on for ever.
- `KSys!FairSpec` (used for the violation `FaultIsResolved` only): weak
  fairness of the next-state relation, i.e. the thread is not stopped by the
  host. The counterexample repeats the fault for ever.

## Proofs

All theorems are about the specifications the runs check, for every value of
the constants that satisfies the named assumptions (`CTypesAssumption`,
`NSlotsAssumption`,
`MemPagesAssumption`, `KSysAssumption`, `HostVmAssumption`,
`GetArgvAssumption`, `RootFsAssumption`, `VmInitAssumption`, `BootAssumption`,
`PrintfAssumption`, `ConsoleAssumption`, `ShellAssumption`,
`SessionAssumption`): at least one object, one page, one page
of stack, one entry; texts of at least one page; argument vectors and exit codes
kept within a program's stack; formats and strings that end before their buffers,
numbers the digits of the model can write; input that fits the buffer, and a NUL
somewhere behind it.

### Pool

`PoolLemmas` describes a pool by `Consistent(p, word, held)`: the free list
lists, without repetition, exactly the used objects outside `held`. Its lemmas
say what an allocation, a free and a client's write do to it. That a list is
never longer than the array is the pigeonhole principle. `PoolProof` applies
them: `PoolTypeCorrect`, `FreeListCorrect`, `PoolImplementsSlotAlloc`.

### KSys

The properties of `KSys` are not inductive by themselves: that an exit releases
exactly the right memory depends on the marks of all ancestors, and that the
text of a suspended program survives depends on where the running program's
stack lies. The invariant `Inv` of `KSysProof` says that there is a list `g` of
the programs alive such that

- `Linked`: it follows `prev` from the first program to `curp`, and the pool is
  consistent with these processes held (the pool's lemmas are reused);
- `Blocks`: each program's text and stack lie at its mark, adjacent to its
  parent's, its saved stack pointer is the top of its stack, and its argument
  vector and exit code place lie in the parent's stack;
- `Texts`: each text is the one its argument vector names;
- `Runs`: `execbufp`, RSP and the protection agree with `curp`.

Each action has a lemma. The actions that leave the programs alone share
`SameChain` and `ReturnKeeps`, the failing runs `RunGivenUp`; `RunOk` appends
to the list and `ExitToParent` drops its last element. The theorems
`KSysTypeCorrect`, `ProcsCorrect`, `MemoryCorrect` and `TextCorrect` follow.

### KSys implements ProcStack

`KSysProof` also proves `KSysImplementsProcStack`: every behaviour of `HSpec`,
which is `Spec` with the history variable `chain`, is under the mapping of
`KSysRefines` a behaviour of `ProcStack`. `Inv` says that some list of the
programs alive exists; here the list must be the one the variable holds, so the
inductive invariant `HInv` adds that `chain` is such a list (`OnChain`), and
that before the first program it is empty and the registers and the argument
page are as `ProcStack` starts. The frames of the abstract state are written as
functions of the values they depend on, so that a lemma on them can be used for
the state before and after a step. There is a lemma per kind of step: `BootStep`
(the first program, or a boot that fails), `RunStays`, `CallStays` (calls that
return to their caller), `RunPushes`, `ExitPops` and `UserStep`. A frame below
the top keeps its value because its registers, its block and its stack are
those of a suspended process, which `KSysProof` says no action of another one
touches; `HInvNext` and PTL do the rest.

### HostVm

`HostVmProof` proves `HostVmTypeCorrect`, `Confinement` and
`OpensCurrentProcess` for any number of entries, signals and nested handlers.
The invariant relates each frame to those above it: a frame below another is at
a point where the one above will leave the image protected and the process
opened that it would have opened (`Protected`, `Agrees`). `KernelNeverFaults`
assumes `SignalsInPrograms` (outside signals arrive only while a program runs)
and is the statement the expected violation `hostvm_restart` shows to fail
without it.

### GetArgv

The invariant `Inv` of `GetArgvProof` says of the arguments copied so far that
they are adjacent but for one character (`Adjacent`), that their characters
stand in the buffer before `bufp` (`Stands`), and that every way to add up the
arguments leads to `bufp` (`OneSum`): the last makes a refusal inside the loop a
statement about the whole vector without a sum over it. It gives
`GetArgvTypeCorrect`, `ArgumentsCorrect`, `RefusalCorrect` and `WritesBounded`.

### Root file system and loader

`BootProof` proves what `find_exe` and `load` do, for any page size, any width
of the integers, any memory, any archive. It has three parts.

The arithmetic: `AlignLemma`, `SignedLemma` and `SizeLemma` say what `align` and
the assignment to an int make of a size of any number of bits, and `LoadArith`
that the test of `alloc` together with the use `memset` makes of its result
succeeds exactly for a size that fits, whatever the truncations made of it, unless
the end of `memset` wraps.

The memory: `MemInv` says that the programs started lie one behind the other
(`Top` is the end of the last), each in whole pages, with its text intact
(`Text`), and that `execbufp` and the mark stand at `Top`, except between a load
and its stack. Its strengthening over `ProgramsAreWhole` is where `execbufp` and
the mark stand: without it a load could start inside a program. A mark is NULL
before the first program, which `AtTop` allows only while there is none. The
invariant is `FsInv`: the types always, `MemInv` while all programs alive are
`AllCleared`. Programs that were once loaded stay in `alive`, so a state in which
all are cleared has no predecessor in which one was not (`ClearedBefore`), and a
load after one that wraps owes nothing.

The walk: `Archived` says that the headers follow one another from 0 to the
trailer, the only one of its name; `WalkInv` that `cph` is at a header and
those before it have other names. Every step of `FsStep` preserves both
(`FsStepMem`, `FsStepTypes`, `FsStepWalk`).

### Boot

The rest of `BootProof` composes these. `ReadArchived` shows that what `read` delivers of an
archive laid out by cpio is `Archived`: `Offset` is a recursive function, and
induction shows that offsets grow and that `cpio_next`, with its paddings and
halves, computes the next one. (The library's induction theorems take an
operator; the lemma `Induction` is the rule for sets of naturals, from
the well-foundedness of `<`, which needs none.)

For `host_vm_init`, `PiecesLemma` says that the entries made of a mapping cover
it without the holes, once (`Tiles`); it solves the recursion over the holes.
`SkippedLemma` does the same for the lines skipped. `TableInv` is
`TableIsTheImage` for the lines read so far, with what the next line needs of
`name`: it is a name to skip exactly if the last line was skipped. A line adds
entries apart from those of earlier lines because mappings are apart
(`NextLineTable`).

A mapping whose size is no unsigned is entered in part; `TableInv` says what part
of the mappings is in the table anyway (`Coverable`, `SizedAt`).

`BootInv` joins `Inv` (the types of what `main` and `exn_init` keep), `VmInv`, `FsInv`
and `WalkInv`, and says that nothing is loaded before `kernel_start` and that the
archive is there from the read on. The theorems are `BootTyped`, `TableOfImage`,
`FirstFound`, `ProgramsWhole` and `LoadedInPages`.

They hold for every host that satisfies `BootAssumption`: the lines of the map are
ordered and apart, each hole lies in a mapping from its start and no two start in
one (`IsMaps`: the linker places `host_vm_prot`'s code and data, `mmap` the
memory of programs; that a hole ends in its mapping is asserted by the code, and
halts if not); names are C strings, ELF headers have unsigned fields and a
segment with no more bytes in the file than in memory (`IsFile`), one trailer
ends the archive; one `read` delivers fewer bytes than an int counts; SIGSEGV
can be caught. `RootFsAssumption` says that the widths and sizes are those of a
machine: a page divides the range of an unsigned, memory and stack are whole
pages, memory is smaller than the largest int and does not reach past the last
address.

### Formatted output

`PrintfProof` is about `CSpec`, any sequence of calls. `Converts` and `Takes` say
of a format, without running it, which characters are conversions and which of
these take an argument; `Follows` says that `spec`, `ap` and the buffer are what
they say for the part of the format consumed. `DecimalIs` is the decimal
notation: the digits that the loop of `%d` divides off, from the last, are those
that weigh the number by the powers of ten in `Tens`. It holds for every int but
the least, so `WholePieces` and `ConsoleShows` are about calls without it
(`Ordinary`), as the properties they prove are. `CInv` adds what the console
shows: the messages so far, each as far as the host wrote it. The theorems are
`PrintfTyped`, `WholePieces` and `ConsoleShows`; they hold for any size of the
buffer, any width of int whose digits fit `b`, and any formats whose conversions
have arguments.

### Shell

`ShellProof` solves the recursion of the loops of `string.c` (`ScanIs`), so that
`StrtokIs` says in one formula what a call of `strtok_r` cuts off; `StrtokStays`
that it never passes the next NUL and writes nothing but NULs. `ShellInv` is
inductive with only that: `ShellTyped` and `ArgvAlwaysFits` follow, the latter
because two words are at least two characters apart unless the last has been
found, which is where the tokenizer stands at a NUL (`LineInv`).

`CommandsRun` needs that what is cut off is what the line asks for. A word of a
text is known by its number: `Found` counts the words that start in front of a
place, and `NextFound` says that the next one found is the word of the next
number. `HasCut` is the state of a tokenizer: from its place on the text is
still whole in memory, no word extends over this place, and it has cut as many
words as start before. `NextToken` says that a call keeps it and leaves the rest of
memory alone. `SplitInv` has one for the line and, while a command is cut up,
one for the command, which ends in front of the other's place: this is why the
two do not disturb each other.

### Session

The rest of `ShellProof` is about `SSpec`. `SessionIsShell` says that a session is
a behaviour of `Shell`, so all that is proved of `Spec` holds of it.

For `LinesPrint` the loop of `sys_getargv` is solved first: `Stand` says that after
`k` words these stand in the buffer one behind the other, that the character
between two of them and all behind them are those the buffer had before, and
`Sums` where each begins (`LoopStands`). So a program is refused exactly if its
words do not fit, and reads its words if there was a NUL behind each
(`GetargvIs`). `RunsAsMeant(n)` says that `os_run` with `n` free processes does
what `Meaning[n]` says and leaves buffers that end in a NUL, whatever it found in
them; the induction over `n` (`RunsMeant`) needs nothing else about what earlier
programs left, because a string copied to where no NUL is sets `stale`. The
inductive invariant `SessionInv` adds to `SplitOk` that the output is that of the
commands run so far (`Printing`); at the prompt these are those of the line.

`SessionAssumption` asks that the two programs have different names and that their
buffers have an element.

### Only model-checked

`TrapsEnd`, `PromptsAgain` and `AlwaysSettles` are liveness under fairness, which
needs ENABLED and is out of the prover's reach; TLC checks them. Every other
property of a passing run is a theorem.

## Findings

- `ksys_fault`: `syscall_hnd` refuses a fault that is not `int $0x81` and the
  handler returns to the same instruction, so the program faults for ever.
- `ksys_nomem`: `load` does not test what `alloc` returns; `memset` then writes
  through NULL inside the SIGSEGV handler and the host ends the image, where
  `run` should return -1.
- `hostvm_restart`: handlers have an empty mask and are installed with
  `SA_RESTART`, but a nested handler leaves the image protected, so the one it
  interrupted faults when it goes on.

- `getargv_echo`: `strcpy` copies no terminator, so after `echo test1` the
  command `echo hi` prints `hist1`.

Seen while modelling, without a document that says otherwise: `argv[argvsz]` is
written before a vector of more than `argvsz` arguments is refused; a blank
command makes the shell drop the rest of the line; after a failed read the
shell runs what the buffer still holds; `%d` prints `INT_MIN` with characters
below `0`; `failed_assert` (`kernel/util.c`) passes no arguments for its `%s`;
a mapping without a name behind a skipped one is skipped, too, because
`continue` leaves `name` as it is; a line of the map with a hexadecimal device
number stops `host_vm_init` for ever; the result of `exn_init` is ignored; the
sign of a file size from 2 GiB on never shows, as the 32-bit mask of `align` takes it
off again; sizes of segments at and above 2 GiB lose their upper half, but `memset`
uses the whole size and the image dies, except for sizes so near 2^64 that the end
of `memset` wraps around: these load, with a stack that may lie on the caller; a
mapping of 4 GiB or more is protected in part only.

## Plan

The code that changes state is modelled and the safety properties of all
modules are proved. What is left is liveness, once the prover has rules for
ENABLED; and one model of a session's programs and `KSys` together, in which
memory, not only processes, may run out under the programs of a line.
