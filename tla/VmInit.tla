------------------------------- MODULE VmInit -------------------------------
(***************************************************************************)
(* host_vm_init (hosthal/exn.c) reads /proc/self/maps and enters into      *)
(* kmmap.procmaps what host_vm_prot will protect from programs: every      *)
(* mapping but the host's stack and libpthread, with holes for the code    *)
(* and data of host_vm_prot itself and for the memory of programs.         *)
(*                                                                         *)
(* One round of its loop is a step. fscanf consumes what matches its       *)
(* format and leaves the rest of the line to the next round, which takes   *)
(* the start of the rest for the address "from" if it can be read as a     *)
(* hexadecimal number, and nothing otherwise.                              *)
(***************************************************************************)
EXTENDS CTypes, Sequences, FiniteSets

CONSTANTS
  Holes,       \* prothole: pairs <<start, end>>
  MaxEntries   \* elements of kmmap.procmaps, 128

(* A line of /proc/self/maps: [from, to, perms, name, left]. name is what  *)
(* the last conversion stores, or NoName when it is not reached: for a     *)
(* mapping without a name and after a mismatch. left is what stays in the  *)
(* file: numbers, then Stuck if a character follows that is none.          *)
(*   device 08:1a (a decimal is expected)  <<10, inode, Stuck>>            *)
(*   device fd:00                          <<253, Stuck>>                  *)
(*   a name of more than 63 characters     what its rest reads as          *)
NoName == "none"
Stuck == -1
Skips == {"[stack]", "libpthread-"}

ASSUME VmInitAssumption ==
  /\ Holes \in Seq(Nat \X Nat)
  /\ \A h \in 1 .. Len(Holes) : Holes[h][1] < Holes[h][2]
  /\ MaxEntries \in Nat

(* The holes that start in a mapping.                                      *)
Hit(f, t) == {h \in 1 .. Len(Holes) : f <= Holes[h][1] /\ Holes[h][1] < t}

(* What the host guarantees of the file: mappings in order, apart; and the *)
(* image: the linker, and mmap for the memory of programs, put each hole   *)
(* in a mapping, and no two in the same.                                   *)
MapsLine == [from : Nat, to : Nat, perms : Seq(STRING), name : STRING,
             left : Seq(Nat \cup {Stuck})]
IsMaps(m) ==
  /\ m \in Seq(MapsLine)
  /\ \A k \in 1 .. Len(m) : m[k].from < m[k].to
  /\ \A k \in 1 .. Len(m) : \A j \in 1 .. k - 1 : m[j].to <= m[k].from
  /\ \A k \in 1 .. Len(m) :
       /\ \A h \in 1 .. Len(Holes) :
            Holes[h][1] < m[k].to /\ m[k].from < Holes[h][2] =>
              m[k].from <= Holes[h][1]
       /\ \A h, i \in Hit(m[k].from, m[k].to) : h = i

VARIABLES
  maps,        \* the lines of the file
  at,          \* lines consumed
  rest,        \* what is left of the last one
  from, to, perms, vname,      \* the variables fscanf sets
  procmaps,    \* kmmap.procmaps, its first kmmap.n elements
  ok,
  vpc          \* idle, loop, done, or halted by a failed assert

vmvars == <<maps, at, rest, from, to, perms, vname, procmaps, ok, vpc>>

VmInitial ==
  /\ at = 0 /\ rest = <<>>
  /\ from = 0 /\ to = 0 /\ perms = <<>> /\ vname = ""
  /\ procmaps = <<>>
  /\ ok = TRUE
  /\ vpc = "idle"

host_vm_init ==
  /\ vpc = "idle" /\ vpc' = "loop"
  /\ UNCHANGED <<maps, at, rest, from, to, perms, vname, procmaps, ok>>
-----------------------------------------------------------------------------
chprot2prot(p) == {p[i] : i \in DOMAIN p} \ {"-"}

(* Faulty variant of add_procmap: the bound is off by one.                 *)
add_procmap_OneMore(table, entries) ==
  LET n == Len(table) + Len(entries)
  IN [table |-> SubSeq(table \o entries, 1, IF n < MaxEntries + 1 THEN n ELSE MaxEntries + 1),
      ok |-> n <= MaxEntries + 1]

(* add_procmap for each of these entries: the table takes what fits.       *)
add_procmap(table, entries) ==
  LET n == Len(table) + Len(entries)
  IN [table |-> SubSeq(table \o entries, 1, IF n < MaxEntries THEN n ELSE MaxEntries),
      ok |-> n <= MaxEntries]

(* e->sz is an unsigned: the upper half of a size is lost.                 *)
Entry(a, b, prot) == [from |-> a, sz |-> (b - a) % Word, prot |-> prot]

(* Faulty variant of the next definition: what lies behind a hole is lost  *)
(* when the hole starts the mapping.                                       *)
Around_Else(f, t, h, prot) ==
  IF f < h[1] THEN << Entry(f, h[1], prot) >>
  ELSE IF h[2] < t THEN << Entry(h[2], t, prot) >> ELSE <<>>

(* What lies before and behind hole h of a mapping.                        *)
Around(f, t, h, prot) ==
  (IF f < h[1] THEN << Entry(f, h[1], prot) >> ELSE <<>>)
    \o (IF h[2] < t THEN << Entry(h[2], t, prot) >> ELSE <<>>)

(* The entries for a mapping: what lies around each of its holes, or all.  *)
Pieces(f, t, prot) ==
  LET upto[k \in 0 .. Len(Holes)] ==
        IF k = 0 THEN <<>>
        ELSE upto[k - 1] \o (IF k \in Hit(f, t) THEN Around(f, t, Holes[k], prot)
                                                ELSE <<>>)
  IN IF Hit(f, t) = {} THEN << Entry(f, t, prot) >> ELSE upto[Len(Holes)]

(* assert(he <= to)                                                        *)
HolesEnd(f, t) == \A h \in Hit(f, t) : Holes[h][2] <= t

(* The body of the loop, with the variables as fscanf has left them.       *)
Body ==
  IF vname' \in Skips
  THEN UNCHANGED <<procmaps, ok, vpc>>
  ELSE IF ~ HolesEnd(from', to')
  THEN vpc' = "halted" /\ UNCHANGED <<procmaps, ok>>
  ELSE LET r == add_procmap(procmaps, Pieces(from', to', chprot2prot(perms')))
       IN procmaps' = r.table /\ ok' = (ok /\ r.ok) /\ UNCHANGED vpc

(* name[0] = '\0' ends the body; "continue" for a skipped mapping leaves   *)
(* the name for the next line, which may not set it.                       *)
NameNow == IF vname \in Skips THEN vname ELSE ""

(* A round that starts at a line.                                          *)
NextLine ==
  /\ vpc = "loop" /\ rest = <<>> /\ at < Len(maps)
  /\ LET l == maps[at + 1]
     IN /\ from' = l.from /\ to' = l.to /\ perms' = l.perms
        /\ vname' = IF l.name = NoName THEN NameNow ELSE l.name
        /\ rest' = l.left
  /\ at' = at + 1
  /\ Body
  /\ UNCHANGED maps

(* A round that starts in what is left of a line.                          *)
Leftover ==
  /\ vpc = "loop" /\ rest # <<>>
  /\ IF Head(rest) = Stuck THEN UNCHANGED <<from, rest>>
     ELSE from' = Head(rest) /\ rest' = Tail(rest)
  /\ vname' = NameNow
  /\ UNCHANGED <<maps, at, to, perms>>
  /\ Body

(* fscanf returns EOF.                                                     *)
EndOfMaps ==
  /\ vpc = "loop" /\ rest = <<>> /\ at = Len(maps)
  /\ vpc' = "done"
  /\ UNCHANGED <<maps, at, rest, from, to, perms, vname, procmaps, ok>>

VmStep == NextLine \/ Leftover \/ EndOfMaps
-----------------------------------------------------------------------------
(* Every line matches the format to its end.                               *)
LinesMatch == \A k \in DOMAIN maps : maps[k].left = <<>>

VmTypeOK ==
  /\ at \in 0 .. Len(maps)
  /\ rest \in Seq(Nat \cup {Stuck})
  /\ Len(procmaps) <= MaxEntries
  /\ \A k \in DOMAIN procmaps : procmaps[k].sz \in 0 .. Word - 1
  /\ ok \in BOOLEAN
  /\ vpc \in {"idle", "loop", "done", "halted"}

(* The lines that are skipped: those with such a name, and the nameless    *)
(* ones behind them, which inherit it.                                     *)
Skipped ==
  LET skipped[k \in 0 .. Len(maps)] ==
        k > 0 /\ (maps[k].name \in Skips \/ (maps[k].name = NoName /\ skipped[k - 1]))
  IN {k \in DOMAIN maps : skipped[k]}

Span(a, b) == a .. b - 1
Open == UNION {Span(Holes[h][1], Holes[h][2]) : h \in DOMAIN Holes}
Covered(k) == Span(procmaps[k].from, procmaps[k].from + procmaps[k].sz)

(* The table that protects the image is the image: each address of a      *)
(* mapping that is not skipped is in one entry, with the protection to     *)
(* give back, and no address of a hole is in any, where host_vm_prot would *)
(* take away its own code. Only if the table is full, which is said, or of *)
(* a mapping whose size is no unsigned, is anything missing.               *)
TableIsTheImage ==
  vpc = "done" /\ LinesMatch =>
    LET kept == DOMAIN maps \ Skipped
        span(k) == Span(maps[k].from, maps[k].to)
        image == (UNION {span(k) : k \in kept}) \ Open
        sized == {k \in kept : maps[k].to - maps[k].from < Word}
        table == UNION {Covered(k) : k \in DOMAIN procmaps}
    IN /\ table \subseteq image
       /\ ok => (UNION {span(k) : k \in sized}) \ Open \subseteq table
       /\ ~ ok => Len(procmaps) = MaxEntries /\ table # image
       /\ \A j, k \in DOMAIN procmaps : j # k => Covered(j) \cap Covered(k) = {}
       /\ \A j \in DOMAIN procmaps, k \in kept :
            Covered(j) \cap span(k) # {} =>
              procmaps[j].prot = chprot2prot(maps[k].perms)
=============================================================================
