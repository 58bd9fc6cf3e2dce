------------------------------- MODULE RootFs -------------------------------
(***************************************************************************)
(* From the name of a program to the program in memory (kernel/ksys.c:     *)
(* find_exe, load, and what their callers run_first and sys_run do next):  *)
(* the cpio archive is walked header by header, the ELF file is checked,   *)
(* its first segment copied into the memory, and a stack taken.            *)
(*                                                                         *)
(* Addresses and sizes are bytes, and the integers have their widths:      *)
(* unsigned short below Half, unsigned and int in Word, unsigned long in   *)
(* Long values. Offsets in the archive count from its first header. The    *)
(* memory is 1 .. MemBytes, and address a of it is Base + a to the host. A *)
(* write through NULL, or that goes on for 2 GiB behind the memory, is a   *)
(* fault in the handler of SIGSEGV, or before there is a process, and the  *)
(* host kills the image. What other writes outside the memory change of    *)
(* the image is not followed: the loader has gone astray.                  *)
(***************************************************************************)
EXTENDS LibcString, CTypes

CONSTANTS
  HdrSize,     \* sizeof(struct cpio_old_hdr)
  PhdrSize,    \* sizeof(Elf64_Phdr)
  PageSize,    \* 0x1000
  MemBytes,    \* kernel_globals.memsz
  Base,        \* the address in front of kernel_globals.mem
  StackBytes,  \* stacksz, 0x2000
  Trailer,     \* "TRAILER!!!"
  ElfPat       \* elfhdrpat

ASSUME RootFsAssumption ==
  /\ HdrSize \in Nat /\ HdrSize % 2 = 0
  /\ PageSize \in Nat \ {0, 1} /\ Word % PageSize = 0
  /\ MemBytes \in Nat \ {0} /\ MemBytes % PageSize = 0 /\ 2 * MemBytes < Word
  /\ Base \in Nat /\ Base + MemBytes < Long
  /\ StackBytes \in Nat \ {0} /\ StackBytes % PageSize = 0

Buf == INSTANCE ExecBuf WITH MemPages <- MemBytes

(* What files are: a name is a C string, and the fields of an ELF header   *)
(* are unsigned; of a segment that is loaded the file holds no more bytes  *)
(* than the memory takes, as the linker writes it, nor than the archive    *)
(* has room for.                                                           *)
CString(s) == /\ s \in Seq(Nat) /\ Len(s) > 0
              /\ \A i \in 1 .. Len(s) : s[i] = NUL <=> i = Len(s)
ElfFields(e) ==
  /\ e.phnum \in Nat /\ e.first \in Nat
  /\ e.entry \in 0 .. Long - 1
  /\ \A i \in 1 .. e.phnum : LET l == e.phdrs[i] IN l.load =>
       /\ {l.vaddr, l.offset, l.memsz} \subseteq 0 .. Long - 1
       /\ l.filesz \in 0 .. l.memsz /\ l.filesz < Word

VARIABLES
  rootfs,      \* the archive: the header at each offset that has one
  execbufp, kmem,
  name,        \* argument of load
  cph,         \* the header find_exe has come to
  mark,        \* freemark of the new process
  prog,        \* its load, loadsz, entry and stack
  alive,       \* history: the programs started, with their headers
  fpc          \* idle, find, load, stack, started, failed, killed, or astray

fsvars == <<rootfs, execbufp, kmem, name, cph, mark, prog, alive, fpc>>

NoProg == [load |-> NULL, loadsz |-> 0, entry |-> NULL, stack |-> NULL]

FsInit ==
  /\ execbufp = NULL
  /\ kmem = [a \in 1 .. MemBytes |-> 0]
  /\ name = Trailer /\ cph = 0 /\ mark = NULL
  /\ prog = NoProg /\ alive = <<>>
  /\ fpc = "idle"
-----------------------------------------------------------------------------
(* An unsigned value as an int.                                            *)
Signed(v) == LET w == v % Word IN IF 2 * w >= Word THEN w - Word ELSE w

(* Faulty variant of the next definition: nothing is added before the mask *)
(* is applied.                                                             *)
align_Down(v, mask) == LET w == v % Word IN w - (w % (mask + 1))

(* align: the complement of the mask has the width of an unsigned, so the  *)
(* upper half of v is lost.                                                *)
align(v, mask) ==
  LET w == ((v + mask) % Long) % Word IN w - (w % (mask + 1))

(* A header: c_namesize, c_filesize as two halves, the name and the file.  *)
cpio_name(h) == h.name
cpio_content(a) == a + HdrSize + align(rootfs[a].namesize, 1)

(* The halves are joined as an int, which an unsigned long takes over with *)
(* its sign.                                                               *)
cpio_filesize(h) == Signed(h.filesize[1] * Half + h.filesize[2]) % Long

cpio_next(a) == cpio_content(a) + align(cpio_filesize(rootfs[a]), 1)
-----------------------------------------------------------------------------
(* load(n, ...) is called by run_first, whose mark is NULL, and by sys_run.*)
Call(n, m, bp) ==
  /\ fpc = "idle"
  /\ name' = n /\ cph' = 0
  /\ mark' = m /\ execbufp' = bp
  /\ prog' = NoProg
  /\ fpc' = "find"
  /\ UNCHANGED <<rootfs, kmem, alive>>
CallFirst(n) == Call(n, NULL, execbufp)
CallRun(n) == Call(n, Buf!freemark(execbufp), Buf!freemark(execbufp))

AtTrailer == strcmp(cpio_name(rootfs[cph]), Trailer) = 0
AtName == strcmp(cpio_name(rootfs[cph]), name) = 0

(* find_exe: the loop ends at the trailer, at the name, or goes on.        *)
NotFound ==
  /\ fpc = "find" /\ AtTrailer
  /\ fpc' = "failed"
  /\ UNCHANGED <<rootfs, execbufp, kmem, name, cph, mark, prog, alive>>

Found ==
  /\ fpc = "find" /\ ~ AtTrailer /\ AtName
  /\ fpc' = "load"
  /\ UNCHANGED <<rootfs, execbufp, kmem, name, cph, mark, prog, alive>>

(* Faulty variant of the next action: the size is that of the first file.  *)
Seek_FromStart ==
  /\ fpc = "find" /\ ~ AtTrailer /\ ~ AtName
  /\ cph' = cpio_next(0)
  /\ UNCHANGED <<rootfs, execbufp, kmem, name, mark, prog, alive, fpc>>
Seek ==
  /\ fpc = "find" /\ ~ AtTrailer /\ ~ AtName
  /\ cph' = cpio_next(cph)
  /\ UNCHANGED <<rootfs, execbufp, kmem, name, mark, prog, alive, fpc>>

(* The tests of load on the header e of the file; the segment is the first *)
(* of type PT_LOAD, or 0.                                                  *)
LoadHdr(e) ==
  LET loads == {i \in 1 .. e.phnum : e.phdrs[i].load}
  IN IF loads = {} THEN 0 ELSE CHOOSE i \in loads : \A j \in loads : i <= j

Accepts(e) ==
  /\ memcmp(e.ident, ElfPat, Len(ElfPat)) = 0
  /\ e.phoff # 0 /\ e.phnum # 0 /\ e.entry # 0 /\ e.phentsize = PhdrSize
  /\ LoadHdr(e) # 0
  /\ LET l == e.phdrs[LoadHdr(e)]
     IN e.entry >= l.vaddr /\ (l.vaddr + l.memsz) % Long > e.entry

(* memset(s, c, n) ends where s + n wraps around, too: the loop from s to  *)
(* an end in front of it is empty.                                         *)
memset(m, s, c, n) ==
  LET e == (Base + s + n) % Long
  IN [a \in DOMAIN m |-> IF s <= a /\ Base + a < e THEN c ELSE m[a]]
Wraps(s, n) == s # NULL /\ Base + s + n >= Long

(* Faulty variant of the next definition: the whole of the block is kept   *)
(* as the last program left it.                                            *)
Image_NoClear(e, l, p) ==
  memcpy(kmem, p, [i \in 1 .. l.filesz |-> e.first + l.offset + i - 1])

(* The memory after memset and memcpy; byte k of a file is e.first + k.    *)
Image(e, l, p) ==
  memcpy(memset(kmem, p, 0, l.memsz), p,
         [i \in 1 .. l.filesz |-> e.first + l.offset + i - 1])

Elf == rootfs[cph].elf
SegmentOf(e) == e.phdrs[LoadHdr(e)]
Segment == SegmentOf(Elf)
loadsz == Signed(align(Segment.memsz, PageSize - 1))
Block == Buf!alloc(execbufp, loadsz)

(* alloc's result is used untested, and loadsz may have lost the upper     *)
(* half of memsz: memset runs through NULL or far behind the memory. Where *)
(* its end wraps around only memcpy writes; a loadsz below 0 then moves    *)
(* execbufp back.                                                          *)
MemsetWraps == Wraps(Block.ret, Segment.memsz)
Dies == Block.ret = NULL \/ (~ MemsetWraps /\ Block.ret + Segment.memsz > Buf!MemEnd)
Fits == LET n == IF MemsetWraps THEN Segment.filesz ELSE Segment.memsz
        IN Block.ret >= Buf!MemBase /\ Block.ret + n <= Buf!MemEnd

LoadRefuses ==
  /\ fpc = "load" /\ ~ Accepts(Elf)
  /\ fpc' = "failed"
  /\ UNCHANGED <<rootfs, execbufp, kmem, name, cph, mark, prog, alive>>

LoadKilled ==
  /\ fpc = "load" /\ Accepts(Elf) /\ Dies
  /\ fpc' = "killed"
  /\ UNCHANGED <<rootfs, execbufp, kmem, name, cph, mark, prog, alive>>

LoadCopies ==
  /\ fpc = "load" /\ Accepts(Elf) /\ ~ Dies
  /\ execbufp' = Block.bp
  /\ kmem' = Image(Elf, Segment, Block.ret)
  /\ prog' = [NoProg EXCEPT !.load = Block.ret, !.loadsz = loadsz,
                            !.entry = Block.ret + Elf.entry - Segment.vaddr]
  /\ fpc' = IF Fits THEN "stack" ELSE "astray"
  /\ UNCHANGED <<rootfs, name, cph, mark, alive>>

(* run_first and sys_run then take the stack, or give the text back.       *)
StackTaken ==
  LET b == Buf!alloc(execbufp, StackBytes)
  IN /\ fpc = "stack" /\ b.ret # NULL
     /\ execbufp' = b.bp
     /\ prog' = [prog EXCEPT !.stack = b.ret]
     /\ alive' = Append(alive, [p |-> prog', file |-> rootfs[cph]])
     /\ fpc' = "started"
     /\ UNCHANGED <<rootfs, kmem, name, cph, mark>>

StackFails ==
  /\ fpc = "stack" /\ Buf!alloc(execbufp, StackBytes).ret = NULL
  /\ execbufp' = Buf!freeup(mark)
  /\ fpc' = "failed"
  /\ UNCHANGED <<rootfs, kmem, name, cph, mark, prog, alive>>

FsStep == \/ NotFound \/ Found \/ Seek
          \/ LoadRefuses \/ LoadKilled \/ LoadCopies \/ StackTaken \/ StackFails
-----------------------------------------------------------------------------
(* memset reached the end of the segment of file f, loaded as program p;   *)
(* of all that run; and of the one to run next.                            *)
Cleared(p, f) == ~ Wraps(p.load, SegmentOf(f.elf).memsz)
AllCleared ==
  /\ fpc # "astray"
  /\ \A k \in DOMAIN alive : Cleared(alive[k].p, alive[k].file)
Tidy == AllCleared /\ (fpc = "stack" => Cleared(prog, rootfs[cph]))

FsTypeOK ==
  /\ execbufp \in Int /\ mark \in Int
  /\ Tidy => execbufp \in 0 .. MemBytes + 1 /\ mark \in 0 .. MemBytes + 1
  /\ DOMAIN kmem = 1 .. MemBytes
  /\ prog.load \in Int /\ prog.loadsz \in Int
  /\ Tidy /\ fpc = "stack" => prog.load \in 1 .. MemBytes /\ prog.loadsz \in 0 .. MemBytes
  /\ fpc \in {"idle", "find", "load", "stack", "started", "failed", "killed", "astray"}

(* The walk steps from header to header however names and contents are     *)
(* padded and whichever half of a size is used, and stops at the first     *)
(* file of that name; a name is missed only when no file has it (the       *)
(* trailer is none).                                                       *)
FindsFirst ==
  fpc # "idle" =>
    /\ cph \in DOMAIN rootfs
    /\ \A a \in DOMAIN rootfs :
         a < cph \/ (fpc = "failed" /\ rootfs[cph].name = Trailer) =>
           rootfs[a].name # name \/ name = Trailer
    /\ fpc \in {"load", "stack", "started", "killed", "astray"} => rootfs[cph].name = name

(* Every program started lies in a block of whole pages of its own with    *)
(* its stack behind it, holds its file's segment and zeros behind it, and  *)
(* starts inside: loading one never touches another. Only a program whose  *)
(* segment reaches past the last address, where memset clears nothing, can *)
(* spoil that, for itself and for the others.                              *)
ProgramsAreWhole ==
  AllCleared =>
    \A k \in DOMAIN alive :
      LET p == alive[k].p
          e == alive[k].file.elf
          l == SegmentOf(e)
      IN /\ p.load = IF k = 1 THEN 1 ELSE alive[k - 1].p.stack + StackBytes
         /\ p.stack = p.load + p.loadsz
         /\ p.loadsz % PageSize = 0
         /\ p.loadsz - l.memsz \in 0 .. PageSize - 1
         /\ p.stack + StackBytes <= MemBytes + 1
         /\ p.entry \in p.load .. p.load + l.memsz - 1
         /\ \A i \in 0 .. l.memsz - 1 :
              kmem[p.load + i] =
                IF i < l.filesz THEN e.first + l.offset + i ELSE 0

PageOf(a) == IF a = NULL THEN NULL ELSE ((a - 1) \div PageSize) + 1
InPages == INSTANCE ExecBuf WITH MemPages <- MemBytes \div PageSize

(* The arithmetic of sizes, with its truncations, comes to what the model  *)
(* of the process table assumes: a file that is accepted takes the pages   *)
(* its segment fills, and the image dies exactly when too few are left.    *)
(* Excepted are segments that reach past the last address.                 *)
LoadsInPages ==
  [][Tidy /\ fpc = "load" /\ Accepts(Elf) /\ ~ MemsetWraps =>
       LET b == InPages!alloc(PageOf(execbufp),
                              (Segment.memsz + PageSize - 1) \div PageSize)
       IN IF b.ret = NULL THEN fpc' = "killed"
          ELSE /\ fpc' = "stack"
               /\ PageOf(prog'.load) = b.ret
               /\ PageOf(execbufp') = b.bp]_fsvars
=============================================================================
