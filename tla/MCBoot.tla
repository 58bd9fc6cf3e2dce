------------------------------- MODULE MCBoot -------------------------------
(***************************************************************************)
(* Boot with shorts of five bits, pages of four bytes and six of them. The *)
(* disk varies under an ordinary map of memory, then the map under a small *)
(* disk.                                                                   *)
(***************************************************************************)
EXTENDS Boot

Chars(s) == s \o <<0>>
MCTrailer == Chars(<<84, 82>>)
sh == Chars(<<115, 104>>)
s == Chars(<<115>>)
x == Chars(<<120>>)
MCNames == {sh, s, MCTrailer}
MCElfPat == <<127, 69, 76, 70, 2>>

(* Files: a program whose text is at vaddr 100, after a segment that is    *)
(* not loaded; one with an error for each test of load; text.              *)
Phdr(load, filesz, memsz) ==
  [load |-> load, offset |-> 80, vaddr |-> 100, filesz |-> filesz, memsz |-> memsz]
Program(filesz, memsz, entry) ==
  [ident |-> MCElfPat, phoff |-> 64, phnum |-> 2, phentsize |-> 56,
   entry |-> entry, first |-> 1000,
   phdrs |-> <<Phdr(FALSE, 1, 1), Phdr(TRUE, filesz, memsz)>>]
Small == Program(3, 3, 101)
Text == [Small EXCEPT !.ident = <<35, 33, 47, 98, 105>>]
BadElfs ==
  {Text, [Small EXCEPT !.ident[5] = 1], [Small EXCEPT !.phoff = 0],
   [Small EXCEPT !.phnum = 0], [Small EXCEPT !.phnum = 1],
   [Small EXCEPT !.entry = 0], [Small EXCEPT !.phentsize = 32],
   [Small EXCEPT !.entry = 99], [Small EXCEPT !.entry = 103]}

File(n, size, elf) == [name |-> n, size |-> size, elf |-> elf]
End == File(MCTrailer, 0, Text)
Shell == File(sh, 90, Small)

(* Sizes of one and of two halves, odd and even; memory sizes around a     *)
(* page, around what is left, and around the widths of int and unsigned;   *)
(* those from the last addresses on take a page back, none, or two.        *)
Sizes == {0, 1, 30, 31, 32, 33, 64, 95}
Memories == {1, 3, 4, 5, 8, 15, 16, 17, 19, 20, 21, 24, 25, 511, 512, 513,
             1019, 1021, 1023, 1024, 1025, 1028, 1030, 2048, 3000}
Wrapping == {Long - k : k \in {1, 4, 8, 100, 1016, 1104, 1105, 1108}}
High(filesz, memsz) == [Program(filesz, memsz, 1) EXCEPT !.phdrs[2].vaddr = 0]
Disks ==
  {<<File(n, a, Text), File(x, b, Small), Shell, End>> :
      n \in {s, x}, a \in Sizes, b \in {0, 31, 33, 64}}
  \cup {<<File(sh, 90, e), File(s, 90, Program(3, 5, 100)), End>> : e \in BadElfs}
  \cup {<<File(sh, 90, Program(f, m, 99 + m)), File(s, 91, Program(2, n, 100)), End>> :
          f \in {1}, m \in Memories, n \in {4, 9}}
  \cup {<<File(sh, 90, High(f, m)), File(s, 91, Program(2, 4, 100)), End>> :
          f \in {1, 25}, m \in Wrapping}
  \cup {<<Shell, File(s, 91, High(f, m)), End>> : f \in {1, 8, 30}, m \in Wrapping}
  \cup {<<File(s, 90, Small), End>>, <<End>>,
        <<File(sh, 90, Program(4, 6, 100)), Shell, File(x, 91, Text), End>>}
  \cup {<<File(s, n, Small), Shell, End>> : n \in {320, 339, 340, 341, 511, 600, 1023}}

(* Maps: the image's text with the hole for host_vm_prot at each place of  *)
(* it, its data, the memory of programs alone or next to other mappings,   *)
(* libpthread, a mapping without name, a library, the stack.               *)
MCHoles == << <<13, 15>>, <<22, 26>>, <<40, 44>> >>
Line(f, t, p, n, left) == [from |-> f, to |-> t, perms |-> p, name |-> n, left |-> left]
rx == <<"r", "-", "x">>
rw == <<"r", "w", "-">>
rwx == <<"r", "w", "x">>
Lefts == {<<>>, <<10, 12, Stuck>>, <<8, Stuck>>, <<9>>}
Maps(bounds, memory, left, lib, tail) ==
  << Line(bounds[1], bounds[2], rx, IF left \in {<<>>, <<9>>} THEN "image" ELSE NoName, left),
     Line(20, 30, rw, "image", <<>>),
     Line(30, 33, rw, "[heap]", <<>>),
     Line(memory[1], memory[2], rwx, NoName, <<>>) >>
  \o lib \o tail
Bounds == {<<10, 20>>, <<13, 20>>, <<10, 15>>, <<13, 15>>}
Memory == {<<40, 44>>, <<38, 44>>, <<40, 46>>, <<38, 46>>}
Libs == {<<>>,
         << Line(50, 52, rx, "libpthread-", <<>>), Line(52, 54, rw, NoName, <<>>),
            Line(54, 56, rw, NoName, <<>>) >>,
         << Line(50, 52, rx, "libc", <<>>), Line(52, 54, rw, NoName, <<>>),
            Line(54, 56, rw, "libpthread-", <<>>), Line(56, 58, rx, "ld", <<>>) >>,
         << Line(50, 52, rx, NoName, <<3, Stuck>>) >>}
Wide(size) == << Line(50, 50 + size, rx, "libc", <<>>) >>
Tails == {<< Line(70, 80, rw, "[stack]", <<>>), Line(80, 81, rx, "[vdso]", <<>>) >>,
          << Line(70, 80, rw, "[stack]", <<>>), Line(80, 81, rw, NoName, <<>>) >>}
Ordinary == Maps(<<10, 20>>, <<40, 44>>, <<>>, <<>>, <<>>)

MCHosts ==
  {[maps |-> Ordinary, disk |-> d] : d \in Disks}
  \cup {[maps |-> Maps(<<10, 20>>, r, <<>>, Wide(n), <<>>), disk |-> <<Shell, End>>] :
          r \in Memory, n \in {Word - 1, Word, Word + 3, 2 * Word}}
  \cup {[maps |-> m, disk |-> <<Shell, End>>] :
          m \in {Maps(b, r, l, i, t) : b \in Bounds, r \in Memory, l \in Lefts,
                                       i \in Libs, t \in Tails}}
=============================================================================
