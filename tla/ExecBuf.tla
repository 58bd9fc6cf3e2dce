------------------------------- MODULE ExecBuf -------------------------------
(***************************************************************************)
(* The memory programs are loaded into (kernel/ksys.c: allocinit, alloc,   *)
(* freeup, freemark): a bump pointer execbufp over kernel_globals.mem.     *)
(* Addresses are page numbers: every size the kernel asks for is a whole   *)
(* number of pages (align(memsz, 0xfff) and 0x2000).                       *)
(***************************************************************************)
EXTENDS KUtil

CONSTANT MemPages          \* kernel_globals.memsz in pages

ASSUME MemPagesAssumption == MemPages \in Nat \ {0}

MemBase == 1               \* kernel_globals.mem
MemEnd == MemBase + MemPages
Page == MemBase .. MemEnd - 1

(* execbufp starts as NULL and is set to the base on the first use.        *)
allocinit(bp) == IF bp = NULL THEN MemBase ELSE bp

(* Faulty variant: no test for the end of the memory.                      *)
alloc_Unchecked(bp, size) ==
  [ret |-> allocinit(bp), bp |-> allocinit(bp) + size]

(* alloc(size) with execbufp = bp: the block and the pointer left, or NULL *)
(* when fewer than "size" pages remain.                                    *)
alloc(bp, size) ==
  LET p == allocinit(bp)
  IN IF MemEnd - p < size THEN [ret |-> NULL, bp |-> p]
                          ELSE [ret |-> p, bp |-> p + size]

(* freeup(mark) moves the pointer back to a mark that freemark() returned. *)
(* The mark NULL (run_first's) makes the next use start over at the base.  *)
freeup(mark) == mark
freemark(bp) == allocinit(bp)

(* The pages of a block.                                                   *)
Span(start, size) == start .. start + size - 1
=============================================================================
