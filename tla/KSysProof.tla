------------------------------ MODULE KSysProof ------------------------------
(***************************************************************************)
(* The process table, the program memory and the texts of programs stay as *)
(* they should be, for any number of processes and pages, any programs and *)
(* any sequence of system calls; and KSys implements ProcStack: every step *)
(* of the kernel's tables, pointers and pages is a step of a stack of      *)
(* programs that call each other.                                          *)
(***************************************************************************)
EXTENDS KSysRefines, PoolLemmas, SequenceTheorems

(* Facts about the constants, in the form the proofs use.                  *)
LEMMA Constants ==
  /\ MemPages \in Nat \ {0} /\ StackPages \in Nat \ {0}
  /\ MemBase = 1 /\ MemEnd = MemPages + 1
  /\ Page = 1 .. MemPages
  /\ HostTop = MemPages + StackPages /\ BootArgv = MemPages + StackPages + 1
  /\ Addr = 1 .. BootArgv /\ Page \subseteq Addr /\ NULL = 0
  /\ Pages \in [Prog -> Nat \ {0}]
  /\ ArgvAt \subseteq 0 .. StackPages - 1 /\ CodeAt \subseteq 0 .. StackPages - 1
  /\ Slot = 1 .. NSlots /\ NSlots \in Nat \ {0}
  BY MemPagesAssumption, KSysAssumption, NSlotsAssumption
     DEF MemBase, MemEnd, Page, HostTop, BootArgv, Addr, NULL, Slot

(* alloc returns the pages at the bump pointer and moves it, or changes    *)
(* nothing.                                                                *)
LEMMA AllocPages ==
  ASSUME NEW bp \in MemBase .. MemEnd, NEW size \in Nat \ {0},
         NEW b, b = alloc(bp, size)
  PROVE  \/ b.ret = NULL /\ b.bp = bp
         \/ /\ b.ret = bp /\ b.bp = bp + size /\ bp + size \in MemBase .. MemEnd
            /\ bp \in Page /\ b.ret # NULL
<1>1. bp # NULL /\ allocinit(bp) = bp
  BY Constants DEF allocinit
<1>2. b = IF MemEnd - bp < size THEN [ret |-> NULL, bp |-> bp]
                                ELSE [ret |-> bp, bp |-> bp + size]
  BY <1>1 DEF alloc
<1>3. CASE MemEnd - bp < size
  BY <1>2, <1>3
<1>4. CASE ~ MemEnd - bp < size
  <2>1. b.ret = bp /\ b.bp = bp + size
    BY <1>2, <1>4
  <2>2. bp + size \in MemBase .. MemEnd /\ bp \in Page
    BY <1>4, Constants
  <2> QED BY <1>1, <2>1, <2>2
<1> QED BY <1>3, <1>4

(* load() takes the text's pages at the bump pointer and writes only them. *)
LEMMA LoadPages ==
  ASSUME mem \in [Addr -> Val], NEW name, NEW bp \in MemBase .. MemEnd,
         NEW L, L = load(name, bp)
  PROVE  /\ L.status \in {"noexe", "fault", "ok"}
         /\ L.mem \in [Addr -> Val]
         /\ L.status # "ok" => L.mem = mem /\ L.bp = bp
         /\ L.status = "ok" =>
              /\ name \in Prog /\ L.loadp = bp /\ bp \in Page
              /\ Pages[name] \in Nat \ {0}
              /\ L.bp = bp + Pages[name] /\ L.bp \in MemBase .. MemEnd
              /\ \A a \in Addr : L.mem[a] = IF a \in Span(bp, Pages[name])
                                            THEN name ELSE mem[a]
<1>1. CASE name \notin Prog
  <2>1. L = [status |-> "noexe", loadp |-> NULL, bp |-> bp, mem |-> mem]
    BY <1>1 DEF load
  <2> QED BY <2>1
<1>2. CASE name \in Prog
  <2>1. PICK b : b = alloc(bp, Pages[name])
    OBVIOUS
  <2>2. Pages[name] \in Nat \ {0}
    BY <1>2, Constants
  <2>3. \/ b.ret = NULL /\ b.bp = bp
        \/ /\ b.ret = bp /\ b.bp = bp + Pages[name]
           /\ bp + Pages[name] \in MemBase .. MemEnd /\ bp \in Page /\ b.ret # NULL
    BY <2>1, <2>2, AllocPages
  <2>4. CASE b.ret = NULL
    <3>1. L = [status |-> "fault", loadp |-> NULL, bp |-> b.bp, mem |-> mem]
      BY <1>2, <2>1, <2>4 DEF load
    <3> QED BY <2>3, <2>4, <3>1
  <2>5. CASE b.ret # NULL
    <3> DEFINE m == [a \in Addr |-> IF a \in Span(bp, Pages[name]) THEN name ELSE mem[a]]
    <3>1. L = [status |-> "ok", loadp |-> bp, bp |-> bp + Pages[name], mem |-> m]
      BY <1>2, <2>1, <2>3, <2>5 DEF load
    <3>2. m \in [Addr -> Val]
      BY <1>2 DEF Val
    <3>3. L.status = "ok" /\ L.loadp = bp /\ L.bp = bp + Pages[name] /\ L.mem = m
      BY <3>1
    <3> QED BY <1>2, <2>2, <2>3, <2>5, <3>2, <3>3
  <2> QED BY <2>4, <2>5
<1> QED BY <1>1, <1>2
-----------------------------------------------------------------------------
(* The inductive invariant. g lists the d running and waiting programs.    *)
Held(d, g) == {g[i] : i \in 1 .. d}

(* The stack pages of the i-th program: the first one's are the host's.    *)
StackTop(i, p) == IF i = 1 THEN HostTop ELSE p.stack + StackPages - 1
StackAt(i, p) == StackTop(i, p) - StackPages + 1 .. StackTop(i, p)

(* The block of the i-th program lies at its mark.                         *)
Placed(i, p) ==
  /\ p.load \in Page /\ p.loadsz \in Nat \ {0}
  /\ p.stack = p.load + p.loadsz /\ p.stacksz = StackPages
  /\ p.stack + StackPages \in MemBase .. MemEnd
  /\ IF i = 1 THEN p.freemark = NULL /\ p.load = MemBase ELSE p.freemark = p.load

(* Its registers, running or saved.                                        *)
RegsOK(i, p, c) == c.sp = StackTop(i, p) /\ c.seg = p.load

(* Its argument vector and the place for its exit code lie in the stack of *)
(* the program q that runs it.                                             *)
ArgsOK(i, p, q) ==
  IF i = 1 THEN p.argv = BootArgv /\ p.code = NULL
  ELSE p.argv \in StackAt(i - 1, q) /\ p.code \in {NULL} \cup StackAt(i - 1, q)

HasText(p) == \A a \in TextOf(p) : mem[a] = Arg0[mem[p.argv]]

(* The chain along "prev" and the pool.                                    *)
Linked(d, g) ==
  /\ IsChain(d, g)
  /\ Consistent(pool, word, Held(d, g))

(* The records of the programs and the memory they describe.               *)
Blocks(d, g) ==
  /\ \A i \in 1 .. d : Placed(i, proc[g[i]])
  /\ \A i \in 1 .. d : ArgsOK(i, proc[g[i]], proc[g[i - 1]])
  /\ \A i \in 1 .. d - 1 : RegsOK(i, proc[g[i]], proc[g[i]].savectx)
  /\ \A i \in 1 .. d - 1 : proc[g[i + 1]].load = proc[g[i]].stack + StackPages
  /\ \A i, j \in 1 .. d : i < j => proc[g[i]].stack + StackPages <= proc[g[j]].load

Texts(d, g) == \A i \in 1 .. d : HasText(proc[g[i]])

(* The program that runs.                                                  *)
Runs(d) ==
  /\ execbufp = proc[curp].stack + StackPages
  /\ RegsOK(d, proc[curp], ctx)
  /\ \A a \in TextOf(proc[curp]) : prot[a] = "rwx"

OnChain(d, g) == Linked(d, g) /\ Blocks(d, g) /\ Texts(d, g) /\ Runs(d)

(* The chain with n at its end; its first e processes.                     *)
Extended(g, e, n) == [i \in 1 .. e |-> IF i = e THEN n ELSE g[i]]
Shortened(g, e) == [i \in 1 .. e |-> g[i]]

BootState == /\ Consistent(pool, word, {})
             /\ execbufp = NULL
             /\ curp = NULL
             /\ ctx.sp = HostTop
             /\ mem[BootArgv] \in Vec
             /\ \A a \in Page : prot[a] = "rwx"

Inv == /\ TypeOK
       /\ mode = "boot" => BootState
       /\ mode = "user" =>
            \E d \in 1 .. NSlots : \E g \in [1 .. d -> Slot] : OnChain(d, g)
-----------------------------------------------------------------------------
(* Where the pages of one program lie.                                     *)
LEMMA PlacedPages ==
  ASSUME NEW i \in Nat \ {0}, NEW p, Placed(i, p)
  PROVE  /\ TextOf(p) \subseteq Page
         /\ p.load \in TextOf(p)
         /\ \A a \in TextOf(p) : a < p.stack /\ a >= p.load
         /\ \A a \in TextOf(p) : a \notin Span(p.stack, p.stacksz)
         /\ StackAt(i, p) \subseteq Addr \ {BootArgv}
         /\ StackTop(i, p) \in Int
         /\ \A a \in StackAt(i, p) : a >= p.stack
         /\ \A a \in StackAt(i, p) : a < p.stack + StackPages \/ a \notin Page
         /\ \A a \in StackAt(i, p) : a \in Page => i # 1
         /\ i = 1 => \A a \in StackAt(i, p) : a \notin Page
         /\ i # 1 => \A a \in StackAt(i, p) : a \in Page /\ a < p.stack + StackPages
<1>1. /\ p.load \in 1 .. MemPages /\ p.loadsz \in Nat \ {0}
      /\ p.stack = p.load + p.loadsz /\ p.stacksz = StackPages
      /\ p.stack + StackPages \in 1 .. MemPages + 1
  BY Constants DEF Placed
<1>2. /\ TextOf(p) = p.load .. p.load + p.loadsz - 1
      /\ Span(p.stack, p.stacksz) = p.stack .. p.stack + p.stacksz - 1
  BY DEF TextOf, Span
<1>3. /\ TextOf(p) \subseteq Page /\ p.load \in TextOf(p)
      /\ \A a \in TextOf(p) : a < p.stack /\ a >= p.load /\ a \notin Span(p.stack, p.stacksz)
  <2>1. \A a \in TextOf(p) : a \in Int /\ a >= p.load /\ a < p.stack
    BY <1>1, <1>2
  <2>2. \A a \in Span(p.stack, p.stacksz) : a >= p.stack
    BY <1>1, <1>2, Constants
  <2>3. p.load \in TextOf(p)
    BY <1>1, <1>2
  <2>4. TextOf(p) \subseteq Page
    BY <1>1, <2>1, Constants
  <2> QED BY <1>1, <2>1, <2>2, <2>3, <2>4
<1>4. CASE i = 1
  <2>1. StackTop(i, p) = MemPages + StackPages
    BY <1>4, Constants DEF StackTop
  <2>2. StackAt(i, p) = MemPages + 1 .. MemPages + StackPages
    BY <2>1, Constants DEF StackAt
  <2>3. \A a \in StackAt(i, p) : a \in Addr \ {BootArgv} /\ a \notin Page /\ a >= p.stack
    BY <1>1, <2>2, Constants
  <2> QED BY <1>3, <1>4, <2>1, <2>3, Constants
<1>5. CASE i # 1
  <2>1. StackTop(i, p) = p.stack + StackPages - 1
    BY <1>5 DEF StackTop
  <2>2. StackAt(i, p) = p.stack .. p.stack + StackPages - 1
    BY <1>1, <2>1, Constants DEF StackAt
  <2>3. \A a \in StackAt(i, p) :
          a \in Page /\ a \in Addr \ {BootArgv} /\ a >= p.stack /\ a < p.stack + StackPages
    BY <1>1, <2>2, Constants
  <2>4. StackTop(i, p) \in Int
    BY <1>1, <2>1, Constants
  <2> QED BY <1>3, <1>5, <2>3, <2>4
<1> QED BY <1>4, <1>5

(* The pages of two programs, the first of which lies below the other.     *)
LEMMA ApartPages ==
  ASSUME NEW i \in Nat \ {0}, NEW j \in Nat \ {0}, i < j, NEW p, NEW q,
         Placed(i, p), Placed(j, q), p.stack + StackPages <= q.load
  PROVE  /\ \A a \in StackAt(i, p) : a \notin StackAt(j, q)
         /\ \A a \in StackAt(i, p) : a \notin TextOf(q)
         /\ \A a \in StackAt(j, q) : a \notin TextOf(p)
<1>1. /\ p.stack \in Int /\ q.stack \in Int /\ p.load \in Int /\ q.load \in Int
      /\ q.load < q.stack /\ p.load < p.stack
  <2>1. \A r : r.load \in Page /\ r.loadsz \in Nat \ {0} /\ r.stack = r.load + r.loadsz
               => r.load \in Int /\ r.stack \in Int /\ r.load < r.stack
    BY Constants
  <2>2. p.load \in Page /\ p.loadsz \in Nat \ {0} /\ p.stack = p.load + p.loadsz
    BY DEF Placed
  <2>3. q.load \in Page /\ q.loadsz \in Nat \ {0} /\ q.stack = q.load + q.loadsz
    BY DEF Placed
  <2> QED BY <2>1, <2>2, <2>3
<1>2. j # 1
  OBVIOUS
<1>3. /\ \A a \in StackAt(i, p) : a \in Int /\ (a < p.stack + StackPages \/ a \notin Page)
      /\ \A a \in TextOf(p) : a \in Page /\ a < p.stack
  <2>1. \A a \in Addr : a \in Int
    BY Constants
  <2>2. \A a \in StackAt(i, p) : a \in Addr /\ (a < p.stack + StackPages \/ a \notin Page)
    BY PlacedPages
  <2>3. \A a \in TextOf(p) : a \in Page /\ a < p.stack
    BY PlacedPages
  <2> QED BY <2>1, <2>2, <2>3
<1>4. /\ \A a \in StackAt(j, q) : a \in Page /\ a >= q.stack
      /\ \A a \in TextOf(q) : a \in Page /\ a >= q.load
  BY <1>2, PlacedPages
<1> QED BY <1>1, <1>3, <1>4, Constants

(* host_vm_prot(false) makes the text of a program executable.             *)
LEMMA TextOpened ==
  ASSUME NEW i \in Nat \ {0}, NEW p, Placed(i, p), prot \in [Page -> {"rw", "rwx"}]
  PROVE  /\ host_vm_prot(p) \in [Page -> {"rw", "rwx"}]
         /\ \A a \in TextOf(p) : host_vm_prot(p)[a] = "rwx"
<1>1. \A a \in TextOf(p) : a \in Page /\ a \notin Span(p.stack, p.stacksz)
  BY PlacedPages
<1>2. \A a \in TextOf(p) : a \in Span(p.load, p.loadsz)
  BY DEF TextOf
<1> QED BY <1>1, <1>2 DEF host_vm_prot
-----------------------------------------------------------------------------
(* What a step leaves of the invariant.                                    *)

(* The records of the first e programs stay, the later ones are dropped.   *)
LEMMA BlocksKept ==
  ASSUME NEW d \in 1 .. NSlots, NEW g \in [1 .. d -> Slot], Blocks(d, g),
         NEW e \in 1 .. d, \A i \in 1 .. e : proc'[g[i]] = proc[g[i]]
  PROVE  Blocks(e, g)'
<1>1. /\ \A i \in 1 .. e : i \in 1 .. d
      /\ \A i \in 1 .. e - 1 : i \in 1 .. d - 1 /\ i \in 1 .. e /\ i + 1 \in 1 .. e
  OBVIOUS
<1>2. \A i \in 1 .. e : Placed(i, proc'[g[i]])
  BY <1>1 DEF Blocks
<1>3. \A i \in 1 .. e : ArgsOK(i, proc'[g[i]], proc'[g[i - 1]])
  <2> SUFFICES ASSUME NEW i \in 1 .. e PROVE ArgsOK(i, proc'[g[i]], proc'[g[i - 1]])
    OBVIOUS
  <2>1. ArgsOK(i, proc[g[i]], proc[g[i - 1]]) /\ proc'[g[i]] = proc[g[i]]
    BY <1>1 DEF Blocks
  <2>2. CASE i = 1
    BY <2>1, <2>2 DEF ArgsOK
  <2>3. CASE i # 1
    <3>1. proc'[g[i - 1]] = proc[g[i - 1]]
      BY <2>3
    <3> QED BY <2>1, <3>1
  <2> QED BY <2>2, <2>3
<1>4. \A i \in 1 .. e - 1 : RegsOK(i, proc'[g[i]], proc'[g[i]].savectx)
  BY <1>1 DEF Blocks
<1>5. \A i \in 1 .. e - 1 : proc'[g[i + 1]].load = proc'[g[i]].stack + StackPages
  BY <1>1 DEF Blocks
<1>6. \A i, j \in 1 .. e : i < j => proc'[g[i]].stack + StackPages <= proc'[g[j]].load
  BY <1>1 DEF Blocks
<1> QED BY <1>2, <1>3, <1>4, <1>5, <1>6 DEF Blocks

(* A write to the stack of program e, or above its block, does not change  *)
(* the text of a program up to e, nor what their argument pointers see,    *)
(* nor the stack of a program before e.                                    *)
LEMMA PagesKept ==
  ASSUME NEW d \in 1 .. NSlots, NEW g \in [1 .. d -> Slot], Blocks(d, g),
         NEW e \in 1 .. d, NEW i \in 1 .. e,
         \A a \in Addr : \/ mem'[a] = mem[a]
                         \/ a \in StackAt(e, proc[g[e]])
                         \/ a \in Page /\ a >= proc[g[e]].stack + StackPages
  PROVE  /\ \A a \in TextOf(proc[g[i]]) : a \in Addr /\ mem'[a] = mem[a]
         /\ mem'[proc[g[i]].argv] = mem[proc[g[i]].argv]
         /\ i # e => \A a \in StackAt(i, proc[g[i]]) : a \in Addr /\ mem'[a] = mem[a]
<1>1. /\ i \in 1 .. d /\ i \in Nat \ {0} /\ e \in Nat \ {0} /\ e \in 1 .. d
      /\ Placed(i, proc[g[i]]) /\ Placed(e, proc[g[e]])
      /\ ArgsOK(i, proc[g[i]], proc[g[i - 1]])
  BY DEF Blocks
<1>2. i # e => proc[g[i]].stack + StackPages <= proc[g[e]].load
  BY <1>1 DEF Blocks
<1>3. /\ proc[g[e]].load < proc[g[e]].stack /\ proc[g[i]].load < proc[g[i]].stack
      /\ proc[g[e]].load \in Int /\ proc[g[e]].stack \in Int /\ proc[g[i]].stack \in Int
  <2>1. \A r : r.load \in Page /\ r.loadsz \in Nat \ {0} /\ r.stack = r.load + r.loadsz
               => r.load \in Int /\ r.stack \in Int /\ r.load < r.stack
    BY Constants
  <2>2. \A k \in Nat \ {0} : \A r : Placed(k, r) =>
          r.load \in Page /\ r.loadsz \in Nat \ {0} /\ r.stack = r.load + r.loadsz
    BY DEF Placed
  <2>3. \A k \in Nat \ {0} : \A r : Placed(k, r) =>
          r.load \in Int /\ r.stack \in Int /\ r.load < r.stack
    BY <2>1, <2>2
  <2> QED BY <1>1, <2>3
<1>4. \A a \in TextOf(proc[g[i]]) : a \in Addr /\ mem'[a] = mem[a]
  <2> SUFFICES ASSUME NEW a \in TextOf(proc[g[i]]) PROVE a \in Addr /\ mem'[a] = mem[a]
    OBVIOUS
  <2>1. a \in Page /\ a < proc[g[i]].stack
    BY <1>1, PlacedPages
  <2>2. a \in Addr /\ a \in Int
    BY <2>1, Constants
  <2>3. a \notin StackAt(e, proc[g[e]])
    <3>1. CASE i = e
      <4>1. \A b \in StackAt(e, proc[g[e]]) : b >= proc[g[e]].stack
        BY <1>1, PlacedPages
      <4> QED BY <1>3, <2>1, <2>2, <3>1, <4>1
    <3>2. CASE i # e
      <4>1. i < e
        BY <3>2
      <4> QED BY <1>1, <1>2, <3>2, <4>1, ApartPages
    <3> QED BY <3>1, <3>2
  <2>4. ~ a >= proc[g[e]].stack + StackPages
    <3>1. /\ \A x, y \in Int : x < y => ~ x >= y + StackPages
          /\ \A x, y, z, w \in Int : x < y /\ y + StackPages <= z /\ z < w
                                       => ~ x >= w + StackPages
      <4>1. StackPages \in Nat
        BY Constants
      <4> QED BY ONLY <4>1
    <3>2. CASE i = e
      BY <1>3, <2>1, <2>2, <3>1, <3>2
    <3>3. CASE i # e
      BY <1>2, <1>3, <2>1, <2>2, <3>1, <3>3
    <3> QED BY <3>2, <3>3
  <2> QED BY <2>2, <2>3, <2>4
<1>5. mem'[proc[g[i]].argv] = mem[proc[g[i]].argv]
  <2>1. CASE i = 1
    <3>1. proc[g[i]].argv = BootArgv /\ BootArgv \in Addr /\ BootArgv \notin Page
      BY <1>1, <2>1, Constants DEF ArgsOK
    <3>2. BootArgv \notin StackAt(e, proc[g[e]])
      BY <1>1, PlacedPages
    <3> QED BY <3>1, <3>2
  <2>2. CASE i # 1
    <3>1. i - 1 \in 1 .. d /\ i - 1 < e /\ i - 1 \in Nat \ {0}
      BY <1>1, <2>2
    <3>2. proc[g[i]].argv \in StackAt(i - 1, proc[g[i - 1]])
      BY <1>1, <2>2 DEF ArgsOK
    <3>3. Placed(i - 1, proc[g[i - 1]])
      BY <3>1 DEF Blocks
    <3>4. proc[g[i - 1]].stack + StackPages <= proc[g[e]].load
      BY <3>1 DEF Blocks
    <3>5. proc[g[i]].argv \notin StackAt(e, proc[g[e]])
      BY <1>1, <3>1, <3>2, <3>3, <3>4, ApartPages
    <3>6. proc[g[i]].argv \in Addr
      BY <3>1, <3>2, <3>3, PlacedPages
    <3>7. \/ proc[g[i]].argv < proc[g[i - 1]].stack + StackPages
          \/ proc[g[i]].argv \notin Page
      BY <3>1, <3>2, <3>3, PlacedPages
    <3>8. proc[g[i - 1]].stack \in Int /\ proc[g[i]].argv \in Int
      <4>1. proc[g[i - 1]].load \in Page /\ proc[g[i - 1]].loadsz \in Nat
            /\ proc[g[i - 1]].stack = proc[g[i - 1]].load + proc[g[i - 1]].loadsz
        BY <3>3 DEF Placed
      <4>2. \A x \in Addr : x \in Int
        BY Constants
      <4>3. \A x \in Page, y \in Nat : x + y \in Int
        BY Constants
      <4> QED BY <3>6, <4>1, <4>2, <4>3
    <3>9. ~ (/\ proc[g[i]].argv \in Page
             /\ proc[g[i]].argv >= proc[g[e]].stack + StackPages)
      <4>1. \A x, y, z, w \in Int : x < y + StackPages /\ y + StackPages <= z /\ z < w
                                     => ~ x >= w + StackPages
        BY Constants
      <4> QED BY <1>3, <3>4, <3>7, <3>8, <4>1
    <3> QED BY <3>5, <3>6, <3>9
  <2> QED BY <2>1, <2>2
<1>6. i # e => \A a \in StackAt(i, proc[g[i]]) : a \in Addr /\ mem'[a] = mem[a]
  <2> SUFFICES ASSUME i # e, NEW a \in StackAt(i, proc[g[i]])
               PROVE  a \in Addr /\ mem'[a] = mem[a]
    OBVIOUS
  <2>1. a \in Addr /\ (a < proc[g[i]].stack + StackPages \/ a \notin Page)
    BY <1>1, PlacedPages
  <2>2. a \in Int
    BY <2>1, Constants
  <2>3. a \notin StackAt(e, proc[g[e]])
    BY <1>1, <1>2, ApartPages
  <2>4. ~ (a \in Page /\ a >= proc[g[e]].stack + StackPages)
    <3>1. \A x, y, z, w \in Int : x < y + StackPages /\ y + StackPages <= z /\ z < w
                                   => ~ x >= w + StackPages
      BY Constants
    <3> QED BY <1>2, <1>3, <2>1, <2>2, <3>1
  <2> QED BY <2>1, <2>3, <2>4
<1> QED BY <1>4, <1>5, <1>6

(* So the texts of these programs are the ones they should be.             *)
LEMMA TextsKept ==
  ASSUME NEW d \in 1 .. NSlots, NEW g \in [1 .. d -> Slot], Blocks(d, g),
         Texts(d, g), NEW e \in 1 .. d,
         \A i \in 1 .. e : TextOf(proc'[g[i]]) = TextOf(proc[g[i]])
                           /\ proc'[g[i]].argv = proc[g[i]].argv,
         \A a \in Addr : \/ mem'[a] = mem[a]
                         \/ a \in StackAt(e, proc[g[e]])
                         \/ a \in Page /\ a >= proc[g[e]].stack + StackPages
  PROVE  Texts(e, g)'
<1> SUFFICES ASSUME NEW i \in 1 .. e
             PROVE  \A a \in TextOf(proc[g[i]]) : mem'[a] = Arg0[mem'[proc[g[i]].argv]]
  BY DEF Texts, HasText
<1>1. HasText(proc[g[i]])
  BY DEF Texts
<1>2. /\ \A a \in TextOf(proc[g[i]]) : mem'[a] = mem[a]
      /\ mem'[proc[g[i]].argv] = mem[proc[g[i]].argv]
  BY PagesKept
<1> QED BY <1>1, <1>2 DEF HasText
-----------------------------------------------------------------------------
(* What is known of the running program.                                   *)
LEMMA Current ==
  ASSUME TypeOK, NEW d \in 1 .. NSlots, NEW g \in [1 .. d -> Slot], OnChain(d, g)
  PROVE  /\ curp = g[d] /\ curp \in Slot /\ curp # NULL /\ curp \in Held(d, g)
         /\ Placed(d, proc[curp])
         /\ execbufp \in MemBase .. MemEnd /\ execbufp # NULL
         /\ allocinit(execbufp) = execbufp
         /\ ctx.sp = StackTop(d, proc[curp]) /\ ctx.seg = proc[curp].load
         /\ \A k \in 0 .. StackPages - 1 : /\ ctx.sp - k \in StackAt(d, proc[curp])
                                           /\ ctx.sp - k \in Addr
         /\ proc[curp].argv \in Addr
         /\ \A i \in 1 .. d : g[i] \in Slot
<1>1. curp = g[d] /\ d \in 1 .. d
  BY DEF OnChain, Linked, IsChain
<1>2. Placed(d, proc[curp]) /\ ArgsOK(d, proc[curp], proc[g[d - 1]])
  BY <1>1 DEF OnChain, Blocks
<1>3. curp \in Slot /\ curp # NULL /\ curp \in Held(d, g)
  BY <1>1, Constants DEF Held
<1>4. execbufp \in MemBase .. MemEnd
  BY <1>2 DEF OnChain, Runs, Placed
<1>5. execbufp # NULL /\ allocinit(execbufp) = execbufp
  BY <1>4, Constants DEF allocinit
<1>6. ctx.sp = StackTop(d, proc[curp]) /\ ctx.seg = proc[curp].load
  BY DEF OnChain, Runs, RegsOK
<1>7. \A k \in 0 .. StackPages - 1 : ctx.sp - k \in StackAt(d, proc[curp])
  <2>1. StackTop(d, proc[curp]) \in Int
    BY <1>2, PlacedPages
  <2>2. \A t \in Int, k \in 0 .. StackPages - 1 : t - k \in t - StackPages + 1 .. t
    BY Constants
  <2> QED BY <1>6, <2>1, <2>2 DEF StackAt
<1>8. StackAt(d, proc[curp]) \subseteq Addr
  BY <1>2, PlacedPages
<1>9. proc[curp].argv \in Addr
  <2>1. CASE d = 1
    BY <1>2, <2>1, Constants DEF ArgsOK
  <2>2. CASE d # 1
    <3>1. d - 1 \in 1 .. d /\ d - 1 \in Nat \ {0}
      BY <2>2
    <3>2. Placed(d - 1, proc[g[d - 1]])
      BY <3>1 DEF OnChain, Blocks
    <3>3. StackAt(d - 1, proc[g[d - 1]]) \subseteq Addr
      BY <3>1, <3>2, PlacedPages
    <3> QED BY <1>2, <2>2, <3>3 DEF ArgsOK
  <2> QED BY <2>1, <2>2
<1> QED BY <1>1, <1>2, <1>3, <1>4, <1>5, <1>6, <1>7, <1>8, <1>9

(* Register contents keep their type.                                      *)
LEMMA CtxTypes ==
  ASSUME NEW c \in Ctx
  PROVE  /\ [c EXCEPT !.off = @ + 2] \in Ctx
         /\ [c EXCEPT !.off = @ + 2].sp = c.sp
         /\ [c EXCEPT !.off = @ + 2].seg = c.seg
         /\ \A r \in Int : /\ [c EXCEPT !.rax = r] \in Ctx
                           /\ [c EXCEPT !.rax = r].sp = c.sp
                           /\ [c EXCEPT !.rax = r].seg = c.seg
  BY DEF Ctx

(* A step after which the same programs run and wait, on the same memory,  *)
(* and that writes only the running program's stack and unused memory.     *)
LEMMA SameChain ==
  ASSUME TypeOK, NEW d \in 1 .. NSlots, NEW g \in [1 .. d -> Slot], OnChain(d, g),
         curp' = curp, execbufp' = execbufp,
         Consistent(pool', word', Held(d, g)),
         \A i \in 1 .. d : word'[g[i]] = word[g[i]] /\ proc'[g[i]] = proc[g[i]],
         ctx'.sp = ctx.sp, ctx'.seg = ctx.seg,
         \A a \in Addr : \/ mem'[a] = mem[a]
                         \/ a \in StackAt(d, proc[curp])
                         \/ a \in Page /\ a >= execbufp,
         prot' \in {prot, host_vm_prot(proc[curp])}
  PROVE  OnChain(d, g)'
<1>1. /\ curp = g[d] /\ Placed(d, proc[curp]) /\ d \in Nat \ {0} /\ d \in 1 .. d
      /\ proc'[curp] = proc[curp]
  BY Current
<1>2. Linked(d, g)'
  <2>1. IsChain(d, g)
    BY DEF OnChain, Linked
  <2>2. IsChain(d, g)'
    BY <2>1 DEF IsChain
  <2> QED BY <2>2 DEF Linked, Held
<1>3. Blocks(d, g)'
  BY <1>1, BlocksKept DEF OnChain
<1>4. Texts(d, g)'
  <2>1. execbufp = proc[g[d]].stack + StackPages
    BY <1>1 DEF OnChain, Runs
  <2>2. \A a \in Addr : \/ mem'[a] = mem[a]
                        \/ a \in StackAt(d, proc[g[d]])
                        \/ a \in Page /\ a >= proc[g[d]].stack + StackPages
    BY <1>1, <2>1
  <2>3. \A i \in 1 .. d : TextOf(proc'[g[i]]) = TextOf(proc[g[i]])
                          /\ proc'[g[i]].argv = proc[g[i]].argv
    OBVIOUS
  <2> QED BY <1>1, <2>2, <2>3, TextsKept DEF OnChain
<1>5. Runs(d)'
  <2>1. execbufp' = proc'[curp'].stack + StackPages
    BY <1>1 DEF OnChain, Runs
  <2>2. RegsOK(d, proc[curp], ctx)'
    BY <1>1 DEF OnChain, Runs, RegsOK
  <2>3. \A a \in TextOf(proc[curp]) : prot'[a] = "rwx"
    <3>1. prot \in [Page -> {"rw", "rwx"}]
      BY DEF TypeOK
    <3>2. \A a \in TextOf(proc[curp]) : host_vm_prot(proc[curp])[a] = "rwx"
      BY <1>1, <3>1, TextOpened
    <3>3. \A a \in TextOf(proc[curp]) : prot[a] = "rwx"
      BY DEF OnChain, Runs
    <3> QED BY <3>2, <3>3
  <2> QED BY <1>1, <2>1, <2>2, <2>3 DEF Runs
<1> QED BY <1>2, <1>3, <1>4, <1>5 DEF OnChain
-----------------------------------------------------------------------------
(* The program's own steps.                                                *)
LEMMA StaysUser ==
  ASSUME mode = "user", mode' = mode, TypeOK',
         NEW d \in 1 .. NSlots, NEW g \in [1 .. d -> Slot], OnChain(d, g)'
  PROVE  Inv'
  BY DEF Inv

LEMMA UserComputeKeeps ==
  ASSUME TypeOK, mode = "user", NEW d \in 1 .. NSlots, NEW g \in [1 .. d -> Slot],
         OnChain(d, g), UserCompute
  PROVE  Inv' /\ OnChain(d, g)'
<1>1. PICK o \in Oth, f \in CallSites \cup BadSites :
        ctx' = [ctx EXCEPT !.oth = o, !.off = f, !.rax = 0]
  BY DEF UserCompute
<1>2. f \in Nat /\ ctx \in Ctx
  BY KSysAssumption DEF TypeOK
<1>3. ctx' \in Ctx /\ ctx'.sp = ctx.sp /\ ctx'.seg = ctx.seg
  <2>1. PICK c : c = [ctx EXCEPT !.oth = o]
    OBVIOUS
  <2>2. PICK e : e = [c EXCEPT !.off = f]
    OBVIOUS
  <2>3. c \in Ctx /\ c.sp = ctx.sp /\ c.seg = ctx.seg
    BY <1>2, <2>1 DEF Ctx
  <2>4. e \in Ctx /\ e.sp = c.sp /\ e.seg = c.seg
    BY <1>2, <2>2, <2>3 DEF Ctx
  <2>5. ctx' = [e EXCEPT !.rax = 0]
    BY <1>1, <2>1, <2>2
  <2>6. ctx' \in Ctx /\ ctx'.sp = e.sp /\ ctx'.seg = e.seg
    BY <2>4, <2>5 DEF Ctx
  <2> QED BY <2>3, <2>4, <2>6
<1>4. UNCHANGED <<pool, word, execbufp, proc, curp, mem, prot, mode>>
  BY DEF UserCompute
<1>5. TypeOK'
  BY <1>3, <1>4 DEF TypeOK
<1>6. Consistent(pool', word', Held(d, g))
  BY <1>4 DEF OnChain, Linked
<1>7. OnChain(d, g)'
  BY <1>3, <1>4, <1>6, SameChain
<1> QED BY <1>4, <1>5, <1>7, StaysUser

LEMMA UserStoreKeeps ==
  ASSUME TypeOK, mode = "user", NEW d \in 1 .. NSlots, NEW g \in [1 .. d -> Slot],
         OnChain(d, g), UserStore
  PROVE  Inv' /\ OnChain(d, g)'
<1>1. PICK k \in ArgvAt, v \in ArgVec : mem' = [mem EXCEPT ![ctx.sp - k] = v]
  BY DEF UserStore
<1>2. ctx.sp - k \in StackAt(d, proc[curp])
  <2>1. k \in 0 .. StackPages - 1
    BY Constants
  <2> QED BY <2>1, Current
<1>3. mem' \in [Addr -> Val]
  BY <1>1 DEF TypeOK, Val, Vec
<1>4. \A a \in Addr : mem'[a] = mem[a] \/ a \in StackAt(d, proc[curp])
  BY <1>1, <1>2 DEF TypeOK
<1>5. UNCHANGED <<pool, word, execbufp, proc, curp, ctx, prot, mode>>
  BY DEF UserStore
<1>6. TypeOK'
  BY <1>3, <1>5 DEF TypeOK
<1>7. Consistent(pool', word', Held(d, g))
  BY <1>5 DEF OnChain, Linked
<1>8. OnChain(d, g)'
  BY <1>4, <1>5, <1>7, SameChain
<1> QED BY <1>5, <1>6, <1>8, StaysUser

LEMMA FaultKeeps ==
  ASSUME TypeOK, mode = "user", NEW d \in 1 .. NSlots, NEW g \in [1 .. d -> Slot],
         OnChain(d, g), Fault
  PROVE  Inv' /\ OnChain(d, g)'
<1>1. /\ prot' = host_vm_prot(proc[curp])
      /\ UNCHANGED <<pool, word, execbufp, proc, curp, ctx, mem, mode>>
  BY DEF Fault
<1>2. prot' \in [Page -> {"rw", "rwx"}]
  <2>1. Placed(d, proc[curp]) /\ d \in Nat \ {0}
    BY Current
  <2>2. prot \in [Page -> {"rw", "rwx"}]
    BY DEF TypeOK
  <2> QED BY <1>1, <2>1, <2>2, TextOpened
<1>3. TypeOK'
  BY <1>1, <1>2 DEF TypeOK
<1>4. Consistent(pool', word', Held(d, g))
  BY <1>1 DEF OnChain, Linked
<1>5. OnChain(d, g)'
  BY <1>1, <1>4, SameChain
<1> QED BY <1>1, <1>3, <1>5, StaysUser

(* A trap that returns to the program with the result r, has written only  *)
(* the program's stack or unused memory, and has left the programs that    *)
(* run and wait alone.                                                     *)
LEMMA ReturnKeeps ==
  ASSUME TypeOK, mode = "user", NEW d \in 1 .. NSlots, NEW g \in [1 .. d -> Slot],
         OnChain(d, g), curp' = curp, execbufp' = execbufp,
         Consistent(pool', word', Held(d, g)), proc' \in [Slot -> Proc],
         \A i \in 1 .. d : word'[g[i]] = word[g[i]] /\ proc'[g[i]] = proc[g[i]],
         mem' \in [Addr -> Val],
         \A a \in Addr : \/ mem'[a] = mem[a]
                         \/ a \in StackAt(d, proc[curp])
                         \/ a \in Page /\ a >= execbufp,
         NEW r \in Int, Return(Trapped, r)
  PROVE  Inv' /\ OnChain(d, g)'
<1>1. /\ ctx' = [Trapped EXCEPT !.rax = r]
      /\ prot' = host_vm_prot(proc'[curp'])
      /\ mode' = mode
  BY DEF Return
<1>2. /\ curp = g[d] /\ d \in 1 .. d /\ Placed(d, proc[curp]) /\ d \in Nat \ {0}
  BY Current
<1>3. proc'[curp'] = proc[curp]
  BY <1>2
<1>4. ctx' \in Ctx /\ ctx'.sp = ctx.sp /\ ctx'.seg = ctx.seg
  <2>1. ctx \in Ctx
    BY DEF TypeOK
  <2>2. Trapped \in Ctx /\ Trapped.sp = ctx.sp /\ Trapped.seg = ctx.seg
    BY <2>1, CtxTypes DEF Trapped
  <2> QED BY <1>1, <2>2, CtxTypes
<1>5. prot' \in [Page -> {"rw", "rwx"}]
  <2>1. prot \in [Page -> {"rw", "rwx"}]
    BY DEF TypeOK
  <2> QED BY <1>1, <1>2, <1>3, <2>1, TextOpened
<1>6. pool' \in Pool /\ word' \in [Slot -> SlotOrNull]
  BY DEF Consistent
<1>7. TypeOK'
  BY <1>1, <1>4, <1>5, <1>6 DEF TypeOK
<1>8. OnChain(d, g)'
  BY <1>1, <1>3, <1>4, SameChain
<1> QED BY <1>1, <1>7, <1>8, StaysUser
-----------------------------------------------------------------------------
(* load() and the allocation of the stack, from wherever execbufp is.      *)
LEMMA LoadedFacts ==
  ASSUME TypeOK, NEW name, NEW bp, bp = allocinit(execbufp)
  PROVE  /\ bp \in MemBase .. MemEnd /\ bp = freemark(execbufp)
         /\ Loaded(name).status \in {"noexe", "fault", "ok"}
         /\ Loaded(name).mem \in [Addr -> Val]
         /\ \A a \in Addr : Loaded(name).mem[a] = mem[a] \/ (a \in Page /\ a >= bp)
         /\ Loaded(name).status = "ok" =>
              /\ name \in Prog /\ Loaded(name).loadp = bp /\ bp \in Page
              /\ Pages[name] \in Nat \ {0}
              /\ \A a \in Span(bp, Pages[name]) : a \in Page /\ Loaded(name).mem[a] = name
              /\ NewStack(name).ret # NULL =>
                   /\ NewStack(name).ret = bp + Pages[name]
                   /\ NewStack(name).bp = bp + Pages[name] + StackPages
                   /\ NewStack(name).bp \in MemBase .. MemEnd
                   /\ NewStack(name).ret \in Page
<1>1. bp \in MemBase .. MemEnd /\ bp = freemark(execbufp)
  <2>1. execbufp \in MemBase .. MemEnd \cup {NULL}
    BY DEF TypeOK
  <2> QED BY <2>1, Constants DEF allocinit, freemark
<1>2. PICK L : L = load(name, bp)
  OBVIOUS
<1>3. Loaded(name) = L
  BY <1>2 DEF Loaded
<1>4. mem \in [Addr -> Val]
  BY DEF TypeOK
<1>5. /\ L.status \in {"noexe", "fault", "ok"}
      /\ L.mem \in [Addr -> Val]
      /\ L.status # "ok" => L.mem = mem /\ L.bp = bp
      /\ L.status = "ok" =>
           /\ name \in Prog /\ L.loadp = bp /\ bp \in Page
           /\ Pages[name] \in Nat \ {0}
           /\ L.bp = bp + Pages[name] /\ L.bp \in MemBase .. MemEnd
           /\ \A a \in Addr : L.mem[a] = IF a \in Span(bp, Pages[name])
                                         THEN name ELSE mem[a]
  BY <1>1, <1>2, <1>4, LoadPages
<1>6. L.status = "ok" => \A a \in Span(bp, Pages[name]) : a \in Page /\ a >= bp
  <2> SUFFICES ASSUME L.status = "ok", NEW a \in Span(bp, Pages[name])
               PROVE  a \in Page /\ a >= bp
    OBVIOUS
  <2>1. bp \in 1 .. MemPages /\ bp + Pages[name] \in 1 .. MemPages + 1 /\ Pages[name] \in Nat
    BY <1>5, Constants
  <2>2. a \in bp .. bp + Pages[name] - 1
    BY DEF Span
  <2> QED BY <2>1, <2>2, Constants
<1>7. \A a \in Addr : L.mem[a] = mem[a] \/ (a \in Page /\ a >= bp)
  <2>1. CASE L.status = "ok"
    <3>1. \A a \in Addr : L.mem[a] = IF a \in Span(bp, Pages[name]) THEN name ELSE mem[a]
      BY <1>5, <2>1
    <3>2. \A a \in Span(bp, Pages[name]) : a \in Page /\ a >= bp
      BY <1>6, <2>1
    <3> QED BY <3>1, <3>2
  <2>2. CASE L.status # "ok"
    <3>1. L.mem = mem
      BY <1>5, <2>2
    <3> QED BY <3>1
  <2> QED BY <2>1, <2>2
<1>8. L.status = "ok" => \A a \in Span(bp, Pages[name]) : a \in Page /\ L.mem[a] = name
  BY <1>5, <1>6, Constants
<1>9. ASSUME L.status = "ok", NewStack(name).ret # NULL
      PROVE  /\ NewStack(name).ret = bp + Pages[name]
             /\ NewStack(name).bp = bp + Pages[name] + StackPages
             /\ NewStack(name).bp \in MemBase .. MemEnd
             /\ NewStack(name).ret \in Page
  <2>1. PICK b : b = alloc(L.bp, StackPages)
    OBVIOUS
  <2>2. NewStack(name) = b
    BY <1>3, <2>1 DEF NewStack
  <2>3. StackPages \in Nat \ {0} /\ L.bp \in MemBase .. MemEnd
    BY <1>5, <1>9, Constants
  <2>4. \/ b.ret = NULL /\ b.bp = L.bp
        \/ /\ b.ret = L.bp /\ b.bp = L.bp + StackPages
           /\ L.bp + StackPages \in MemBase .. MemEnd
           /\ L.bp \in Page /\ b.ret # NULL
    BY <2>1, <2>3, AllocPages
  <2> QED BY <1>5, <1>9, <2>2, <2>4
<1> QED BY <1>1, <1>3, <1>5, <1>7, <1>8, <1>9

(* The record of the new process.                                          *)
LEMMA FilledFacts ==
  ASSUME TypeOK, NEW n \in Slot, NEW name, Loaded(name).status = "ok",
         NEW mark \in MemBase .. MemEnd \cup {NULL}
  PROVE  /\ NewStack(name).ret \in AddrOrNull => Filled(name, n, mark) \in Proc
         /\ Filled(name, n, mark).load = allocinit(execbufp)
         /\ Filled(name, n, mark).loadsz = Pages[name]
         /\ Filled(name, n, mark).stack = NewStack(name).ret
         /\ Filled(name, n, mark).stacksz = StackPages
         /\ Filled(name, n, mark).freemark = mark
<1>1. proc[n] \in Proc
  BY DEF TypeOK
<1>2. /\ Loaded(name).loadp = allocinit(execbufp) /\ allocinit(execbufp) \in Page
      /\ Pages[name] \in Nat \ {0}
  BY LoadedFacts
<1>3. allocinit(execbufp) \in AddrOrNull /\ StackPages \in Nat
  BY <1>2, Constants DEF AddrOrNull
<1>4. Filled(name, n, mark) =
        [proc[n] EXCEPT !.freemark = mark, !.load = allocinit(execbufp),
                        !.loadsz = Pages[name], !.stacksz = StackPages,
                        !.stack = NewStack(name).ret]
  BY <1>2 DEF Filled
<1>5. PICK p1 : p1 = [proc[n] EXCEPT !.freemark = mark]
  OBVIOUS
<1>6. PICK p2 : p2 = [p1 EXCEPT !.load = allocinit(execbufp)]
  OBVIOUS
<1>7. PICK p3 : p3 = [p2 EXCEPT !.loadsz = Pages[name]]
  OBVIOUS
<1>8. PICK p4 : p4 = [p3 EXCEPT !.stacksz = StackPages]
  OBVIOUS
<1>9. p1 \in Proc /\ p1.freemark = mark
  BY <1>1, <1>5 DEF Proc
<1>10. p2 \in Proc /\ p2.freemark = mark /\ p2.load = allocinit(execbufp)
  BY <1>3, <1>6, <1>9 DEF Proc
<1>11. /\ p3 \in Proc /\ p3.freemark = mark /\ p3.load = allocinit(execbufp)
       /\ p3.loadsz = Pages[name]
  BY <1>2, <1>7, <1>10 DEF Proc
<1>12. /\ p4 \in Proc /\ p4.freemark = mark /\ p4.load = allocinit(execbufp)
       /\ p4.loadsz = Pages[name] /\ p4.stacksz = StackPages
  BY <1>3, <1>8, <1>11 DEF Proc
<1>13. Filled(name, n, mark) = [p4 EXCEPT !.stack = NewStack(name).ret]
  BY <1>4, <1>5, <1>6, <1>7, <1>8
<1> QED BY <1>12, <1>13 DEF Proc

(* AllocLemma and FreeLemma for procpool.                                  *)
LEMMA ProcTaken ==
  ASSUME NEW held, Consistent(pool, word, held)
  PROVE  /\ NewProc.ret \in SlotOrNull
         /\ NewProc.ret # NULL =>
              /\ NewProc.ret \in Slot \ held
              /\ Consistent(NewProc.pool, word, held \cup {NewProc.ret})
         /\ NewProc.ret = NULL => held = Slot
<1>1. PICK r : r = pool_alloc(pool, word)
  OBVIOUS
<1>2. /\ r.ret \in SlotOrNull
      /\ r.ret # NULL => /\ r.ret \in Slot \ held
                         /\ Consistent(r.pool, word, held \cup {r.ret})
      /\ r.ret = NULL => r.pool = pool /\ held = Slot
  BY <1>1, AllocLemma
<1> QED BY <1>1, <1>2 DEF NewProc

LEMMA ProcFreed ==
  ASSUME NEW p, NEW held, Consistent(p, word, held), NEW s, s \in held,
         NEW back, back = pool_free(p, word, s)
  PROVE  /\ Consistent(back.pool, back.word, held \ {s})
         /\ back.word = [word EXCEPT ![s] = p.freehead]
<1>1. /\ Consistent(back.pool, back.word, held \ {s})
      /\ Used(back.pool) = Used(p)
      /\ back.word = [word EXCEPT ![s] = p.freehead]
  BY FreeLemma
<1> QED BY <1>1

(* A process taken from the pool and given back at once.                   *)
LEMMA TakeAndGiveBack ==
  ASSUME NEW held, Consistent(pool, word, held), NewProc.ret # NULL,
         NEW n, n = NewProc.ret, NEW back, back = pool_free(NewProc.pool, word, n)
  PROVE  /\ n \in Slot /\ n \notin held
         /\ Consistent(back.pool, back.word, held)
         /\ \A s \in Slot : s # n => back.word[s] = word[s]
<1>1. PICK p : p = NewProc.pool
  OBVIOUS
<1>2. n \in Slot \ held /\ Consistent(p, word, held \cup {n})
  BY <1>1, ProcTaken
<1>3. n \in held \cup {n} /\ Consistent(p, word, held \cup {n})
  BY <1>2
<1>4. back = pool_free(p, word, n)
  BY <1>1
<1>5. /\ Consistent(back.pool, back.word, (held \cup {n}) \ {n})
      /\ back.word = [word EXCEPT ![n] = p.freehead]
  <2>1. PICK h : h = held \cup {n}
    OBVIOUS
  <2>2. Consistent(p, word, h) /\ n \in h
    BY <1>3, <2>1
  <2>3. /\ Consistent(back.pool, back.word, h \ {n})
        /\ back.word = [word EXCEPT ![n] = p.freehead]
    BY <1>4, <2>2, ProcFreed
  <2> QED BY <2>1, <2>3
<1>6. (held \cup {n}) \ {n} = held
  BY <1>2
<1>7. word \in [Slot -> SlotOrNull]
  BY DEF Consistent
<1> QED BY <1>2, <1>5, <1>6, <1>7
-----------------------------------------------------------------------------
(* The system calls, one by one. a is the page of the argument vector.     *)
LEMMA RunRefusedKeeps ==
  ASSUME TypeOK, mode = "user", NEW d \in 1 .. NSlots, NEW g \in [1 .. d -> Slot],
         OnChain(d, g), NEW a, RunRefused(a)
  PROVE  Inv' /\ OnChain(d, g)'
<1>1. /\ UNCHANGED <<pool, word, execbufp, proc, curp, mem>>
      /\ Return(Trapped, -1)
  BY DEF RunRefused
<1>2. Consistent(pool', word', Held(d, g))
  BY <1>1 DEF OnChain, Linked
<1>3. -1 \in Int /\ proc' \in [Slot -> Proc] /\ mem' \in [Addr -> Val]
  BY <1>1 DEF TypeOK
<1> QED BY <1>1, <1>2, <1>3, ReturnKeeps

(* What the two failures of run that return have in common.                *)
LEMMA RunGivenUp ==
  ASSUME TypeOK, mode = "user", NEW d \in 1 .. NSlots, NEW g \in [1 .. d -> Slot],
         OnChain(d, g), NewProc.ret # NULL, NEW n, n = NewProc.ret,
         NEW back, back = pool_free(NewProc.pool, word, n),
         pool' = back.pool, word' = back.word,
         curp' = curp, execbufp' = execbufp,
         NEW p, n \in Slot => p \in Proc, proc' = [proc EXCEPT ![n] = p],
         mem' \in [Addr -> Val],
         \A a \in Addr : mem'[a] = mem[a] \/ (a \in Page /\ a >= execbufp),
         Return(Trapped, -1)
  PROVE  Inv' /\ OnChain(d, g)'
<1>1. Consistent(pool, word, Held(d, g))
  BY DEF OnChain, Linked
<1>2. /\ n \in Slot /\ n \notin Held(d, g)
      /\ Consistent(back.pool, back.word, Held(d, g))
      /\ \A s \in Slot : s # n => back.word[s] = word[s]
  BY <1>1, TakeAndGiveBack
<1>3. \A i \in 1 .. d : g[i] \in Slot /\ g[i] # n
  BY <1>2 DEF Held
<1>4. \A i \in 1 .. d : word'[g[i]] = word[g[i]] /\ proc'[g[i]] = proc[g[i]]
  BY <1>2, <1>3 DEF TypeOK
<1>5. proc' \in [Slot -> Proc]
  BY <1>2 DEF TypeOK
<1>6. Consistent(pool', word', Held(d, g))
  BY <1>2
<1>7. \A a \in Addr : \/ mem'[a] = mem[a]
                      \/ a \in StackAt(d, proc[curp])
                      \/ a \in Page /\ a >= execbufp
  OBVIOUS
<1>8. -1 \in Int
  OBVIOUS
<1> QED BY <1>4, <1>5, <1>6, <1>7, <1>8, ReturnKeeps

LEMMA RunNoExeKeeps ==
  ASSUME TypeOK, mode = "user", NEW d \in 1 .. NSlots, NEW g \in [1 .. d -> Slot],
         OnChain(d, g), NEW a, RunNoExe(a)
  PROVE  Inv' /\ OnChain(d, g)'
<1>1. PICK n : n = NewProc.ret
  OBVIOUS
<1>2. PICK back : back = pool_free(NewProc.pool, word, n)
  OBVIOUS
<1>3. /\ NewProc.ret # NULL
      /\ pool' = back.pool /\ word' = back.word
      /\ execbufp' = freemark(execbufp)
      /\ proc' = [proc EXCEPT ![n].freemark = freemark(execbufp)]
      /\ curp' = curp /\ mem' = mem
      /\ Return(Trapped, -1)
  BY <1>1, <1>2 DEF RunNoExe, RunNamed
<1>4. freemark(execbufp) = execbufp /\ execbufp \in MemBase .. MemEnd
  BY Current DEF freemark, allocinit
<1>5. PICK p : p = [proc[n] EXCEPT !.freemark = execbufp]
  OBVIOUS
<1>6. n \in Slot => p \in Proc
  BY <1>4, <1>5 DEF TypeOK, Proc
<1>7. proc' = [proc EXCEPT ![n] = p]
  BY <1>3, <1>4, <1>5
<1>8. mem' \in [Addr -> Val] /\ execbufp' = execbufp
  BY <1>3, <1>4 DEF TypeOK
<1> QED BY <1>1, <1>2, <1>3, <1>6, <1>7, <1>8, RunGivenUp

LEMMA RunNoStackKeeps ==
  ASSUME TypeOK, mode = "user", NEW d \in 1 .. NSlots, NEW g \in [1 .. d -> Slot],
         OnChain(d, g), NEW a, RunNoStack(a)
  PROVE  Inv' /\ OnChain(d, g)'
<1>1. PICK n : n = NewProc.ret
  OBVIOUS
<1>2. PICK back : back = pool_free(NewProc.pool, word, n)
  OBVIOUS
<1>3. PICK name : name = Arg0[mem[a]]
  OBVIOUS
<1>4. freemark(execbufp) = execbufp /\ execbufp \in MemBase .. MemEnd
  BY Current DEF freemark, allocinit
<1>5. PICK p : p = Filled(name, n, execbufp)
  OBVIOUS
<1>6. /\ NewProc.ret # NULL
      /\ Loaded(name).status = "ok" /\ NewStack(name).ret = NULL
      /\ pool' = back.pool /\ word' = back.word
      /\ execbufp' = execbufp
      /\ proc' = [proc EXCEPT ![n] = p]
      /\ curp' = curp /\ mem' = Loaded(name).mem
      /\ Return(Trapped, -1)
  BY <1>1, <1>2, <1>3, <1>4, <1>5 DEF RunNoStack, RunNamed, freeup
<1>7. n \in Slot => p \in Proc
  <2>1. NewStack(name).ret \in AddrOrNull
    BY <1>6 DEF AddrOrNull
  <2>2. execbufp \in MemBase .. MemEnd \cup {NULL}
    BY <1>4
  <2> QED BY <1>5, <1>6, <2>1, <2>2, FilledFacts
<1>8. /\ mem' \in [Addr -> Val]
      /\ \A b \in Addr : mem'[b] = mem[b] \/ (b \in Page /\ b >= execbufp)
  <2>1. execbufp = allocinit(execbufp)
    BY Current
  <2> QED BY <1>6, <2>1, LoadedFacts
<1> QED BY <1>1, <1>2, <1>6, <1>7, <1>8, RunGivenUp

(* getargv, read and write put a value into a page of the caller's stack.  *)
LEMMA sys_getargvKeeps ==
  ASSUME TypeOK, mode = "user", NEW d \in 1 .. NSlots, NEW g \in [1 .. d -> Slot],
         OnChain(d, g), sys_getargv
  PROVE  Inv' /\ OnChain(d, g)'
<1>1. UNCHANGED <<pool, word, execbufp, proc, curp>>
  BY DEF sys_getargv
<1>2. PICK k \in ArgvAt, v \in {Junk, mem[proc[curp].argv]}, r \in {-1, 1} :
        mem' = [mem EXCEPT ![ctx.sp - k] = v] /\ Return(Trapped, r)
  <2>1. PICK k \in ArgvAt :
          IF mem[proc[curp].argv] \in TooBig
          THEN mem' = [mem EXCEPT ![ctx.sp - k] = Junk] /\ Return(Trapped, -1)
          ELSE /\ mem' = [mem EXCEPT ![ctx.sp - k] = mem[proc[curp].argv]]
               /\ Return(Trapped, 1)
    BY DEF sys_getargv
  <2>2. CASE mem[proc[curp].argv] \in TooBig
    BY <2>1, <2>2
  <2>3. CASE mem[proc[curp].argv] \notin TooBig
    BY <2>1, <2>3
  <2> QED BY <2>2, <2>3
<1>3. ctx.sp - k \in StackAt(d, proc[curp]) /\ v \in Val
  <2>1. k \in 0 .. StackPages - 1
    BY Constants
  <2>2. ctx.sp - k \in StackAt(d, proc[curp]) /\ proc[curp].argv \in Addr
    BY <2>1, Current
  <2>3. mem \in [Addr -> Val] /\ Junk \in Val
    BY DEF TypeOK, Val
  <2> QED BY <2>2, <2>3
<1>4. mem' \in [Addr -> Val] /\ proc' \in [Slot -> Proc] /\ r \in Int
  <2>1. mem' \in [Addr -> Val]
    BY <1>2, <1>3 DEF TypeOK
  <2>2. proc' \in [Slot -> Proc]
    BY <1>1 DEF TypeOK
  <2> QED BY <2>1, <2>2
<1>5. \A a \in Addr : mem'[a] = mem[a] \/ a \in StackAt(d, proc[curp])
  BY <1>2, <1>3 DEF TypeOK
<1>6. Consistent(pool', word', Held(d, g))
  BY <1>1 DEF OnChain, Linked
<1> QED BY <1>1, <1>2, <1>4, <1>5, <1>6, ReturnKeeps

LEMMA sys_readKeeps ==
  ASSUME TypeOK, mode = "user", NEW d \in 1 .. NSlots, NEW g \in [1 .. d -> Slot],
         OnChain(d, g), sys_read
  PROVE  Inv' /\ OnChain(d, g)'
<1>1. UNCHANGED <<pool, word, execbufp, proc, curp>>
  BY DEF sys_read
<1>2. PICK k \in ArgvAt, r \in {-1, 0, 1} :
        /\ mem' = IF r = 1 THEN [mem EXCEPT ![ctx.sp - k] = Junk] ELSE mem
        /\ Return(Trapped, r)
  BY DEF sys_read
<1>3. ctx.sp - k \in StackAt(d, proc[curp])
  <2>1. k \in 0 .. StackPages - 1
    BY Constants
  <2> QED BY <2>1, Current
<1>4. mem' \in [Addr -> Val] /\ proc' \in [Slot -> Proc] /\ r \in Int
  <2>1. mem' \in [Addr -> Val]
    <3>1. Junk \in Val
      BY DEF Val
    <3> QED BY <1>2, <3>1 DEF TypeOK
  <2>2. proc' \in [Slot -> Proc]
    BY <1>1 DEF TypeOK
  <2> QED BY <2>1, <2>2
<1>5. \A a \in Addr : mem'[a] = mem[a] \/ a \in StackAt(d, proc[curp])
  BY <1>2, <1>3 DEF TypeOK
<1>6. Consistent(pool', word', Held(d, g))
  BY <1>1 DEF OnChain, Linked
<1> QED BY <1>1, <1>2, <1>4, <1>5, <1>6, ReturnKeeps

LEMMA sys_writeKeeps ==
  ASSUME TypeOK, mode = "user", NEW d \in 1 .. NSlots, NEW g \in [1 .. d -> Slot],
         OnChain(d, g), sys_write
  PROVE  Inv' /\ OnChain(d, g)'
<1>1. /\ UNCHANGED <<pool, word, execbufp, proc, curp, mem>>
      /\ Return(Trapped, 0)
  BY DEF sys_write
<1>2. Consistent(pool', word', Held(d, g))
  BY <1>1 DEF OnChain, Linked
<1>3. 0 \in Int /\ proc' \in [Slot -> Proc] /\ mem' \in [Addr -> Val]
  BY <1>1 DEF TypeOK
<1> QED BY <1>1, <1>2, <1>3, ReturnKeeps
-----------------------------------------------------------------------------
(* exit: the last program of the chain goes, the others stay.              *)
LEMMA Shorter ==
  ASSUME NEW d \in 1 .. NSlots, NEW g \in [1 .. d -> Slot], NEW e \in 1 .. d,
         NEW h, h = [i \in 1 .. e |-> g[i]], Blocks(e, g)', Texts(e, g)'
  PROVE  Blocks(e, h)' /\ Texts(e, h)'
<1>1. \A i \in 1 .. e : h[i] = g[i]
  OBVIOUS
<1>2. \A i \in 1 .. e - 1 : i \in 1 .. e /\ i + 1 \in 1 .. e
  OBVIOUS
<1>3. \A i \in 1 .. e : Placed(i, proc'[h[i]])
  BY <1>1 DEF Blocks
<1>4. \A i \in 1 .. e : ArgsOK(i, proc'[h[i]], proc'[h[i - 1]])
  <2> SUFFICES ASSUME NEW i \in 1 .. e PROVE ArgsOK(i, proc'[h[i]], proc'[h[i - 1]])
    OBVIOUS
  <2>1. ArgsOK(i, proc'[g[i]], proc'[g[i - 1]])
    BY DEF Blocks
  <2>2. CASE i = 1
    BY <1>1, <2>1, <2>2 DEF ArgsOK
  <2>3. CASE i # 1
    <3>1. i - 1 \in 1 .. e
      BY <2>3
    <3> QED BY <1>1, <2>1, <3>1
  <2> QED BY <2>2, <2>3
<1>5. \A i \in 1 .. e - 1 : RegsOK(i, proc'[h[i]], proc'[h[i]].savectx)
  BY <1>1, <1>2 DEF Blocks
<1>6. \A i \in 1 .. e - 1 : proc'[h[i + 1]].load = proc'[h[i]].stack + StackPages
  BY <1>1, <1>2 DEF Blocks
<1>7. \A i, j \in 1 .. e : i < j => proc'[h[i]].stack + StackPages <= proc'[h[j]].load
  BY <1>1 DEF Blocks
<1>8. Blocks(e, h)'
  BY <1>3, <1>4, <1>5, <1>6, <1>7 DEF Blocks
<1>9. Texts(e, h)'
  BY <1>1 DEF Texts
<1> QED BY <1>8, <1>9

(* What exit of a child does: the chain without it, its parent's frame in  *)
(* the registers.                                                          *)
ExitEffect(d, g, e, h) ==
  /\ Inv' /\ OnChain(e, h)' /\ d # 1 /\ mode' = mode
  /\ e \in 1 .. NSlots /\ h \in [1 .. e -> Slot] /\ word[curp] = g[e]
  /\ curp' = g[e] /\ proc' = proc
  /\ \A i \in 1 .. e : word'[g[i]] = word[g[i]]
  /\ \A a \in Addr : mem'[a] = mem[a] \/ a \in StackAt(e, proc[g[e]])
  /\ ctx'.off = proc[g[e]].savectx.off /\ ctx'.rax = 0
  /\ ctx'.oth = proc[g[e]].savectx.oth /\ ctx'.sp = proc[g[e]].savectx.sp

LEMMA ExitToParentKeeps ==
  ASSUME TypeOK, mode = "user", NEW d \in 1 .. NSlots, NEW g \in [1 .. d -> Slot],
         OnChain(d, g), ExitToParent,
         NEW e, e = d - 1, NEW h, h = Shortened(g, e)
  PROVE  ExitEffect(d, g, e, h)
<1>1. e = d - 1
  OBVIOUS
<1>2. h = [i \in 1 .. e |-> g[i]]
  BY DEF Shortened
<1>3. /\ curp = g[d] /\ curp \in Held(d, g) /\ Placed(d, proc[curp])
      /\ \A i \in 1 .. d : g[i] \in Slot
  BY Current
<1>4. /\ \A i \in 1 .. d : word[g[i]] = IF i = 1 THEN NULL ELSE g[i - 1]
      /\ \A i, j \in 1 .. d : g[i] = g[j] => i = j
      /\ Consistent(pool, word, Held(d, g))
  BY DEF OnChain, Linked, IsChain
<1>5. e \in 1 .. NSlots /\ e \in 1 .. d - 1 /\ e \in 1 .. d /\ e + 1 = d /\ d # 1
  <2>1. word[curp] # NULL
    BY DEF ExitToParent
  <2>2. d # 1
    BY <1>3, <1>4, <2>1
  <2> QED BY <1>1, <2>2, NSlotsAssumption
<1>6. word[curp] = g[e] /\ g[e] \in Slot /\ h \in [1 .. e -> Slot]
  BY <1>1, <1>2, <1>3, <1>4, <1>5
<1>7. PICK back : back = pool_free(pool, word, curp)
  OBVIOUS
<1>8. PICK v \in Codes :
        mem' = IF proc[curp].code # NULL THEN [mem EXCEPT ![proc[curp].code] = v] ELSE mem
  BY DEF ExitToParent
<1>9. /\ execbufp' = proc[curp].freemark
      /\ pool' = back.pool /\ word' = back.word
      /\ curp' = g[e] /\ proc' = proc
      /\ Return(proc[g[e]].savectx, 0)
  BY <1>6, <1>7 DEF ExitToParent, freeup, ctx_restore
<1>10. /\ ctx' = [proc[g[e]].savectx EXCEPT !.rax = 0]
       /\ prot' = host_vm_prot(proc[g[e]])
       /\ mode' = mode
  BY <1>9 DEF Return
<1>11. /\ Placed(e, proc[g[e]])
       /\ RegsOK(e, proc[g[e]], proc[g[e]].savectx)
       /\ proc[curp].load = proc[g[e]].stack + StackPages
       /\ ArgsOK(d, proc[curp], proc[g[e]])
       /\ e \in Nat \ {0}
  BY <1>1, <1>3, <1>5 DEF OnChain, Blocks
<1>12. execbufp' = proc[g[e]].stack + StackPages /\ execbufp' \in MemBase .. MemEnd
  <2>1. proc[curp].freemark = proc[curp].load
    BY <1>3, <1>5 DEF Placed
  <2>2. proc[g[e]].stack + StackPages \in MemBase .. MemEnd
    BY <1>11 DEF Placed
  <2> QED BY <1>9, <1>11, <2>1, <2>2
<1>13. Consistent(pool', word', Held(e, h))
  <2>1. PICK held : held = Held(d, g)
    OBVIOUS
  <2>2. Consistent(pool, word, held) /\ curp \in held
    BY <1>3, <1>4, <2>1
  <2>3. Consistent(back.pool, back.word, held \ {curp})
    BY <1>7, <2>2, ProcFreed
  <2>4. held \ {curp} = Held(e, h)
    <3>1. \A i \in 1 .. d : i \in 1 .. e \/ i = d
      BY <1>5
    <3>2. \A i \in 1 .. e : i \in 1 .. d /\ i # d /\ h[i] = g[i]
      BY <1>2, <1>5
    <3>3. held \ {curp} \subseteq Held(e, h)
      BY <1>3, <2>1, <3>1, <3>2 DEF Held
    <3>4. Held(e, h) \subseteq held \ {curp}
      BY <1>3, <1>4, <2>1, <3>2 DEF Held
    <3> QED BY <3>3, <3>4
  <2> QED BY <1>9, <2>3, <2>4
<1>14. \A i \in 1 .. e : i \in 1 .. d /\ h[i] = g[i] /\ word'[g[i]] = word[g[i]]
  <2>1. word' = [word EXCEPT ![curp] = pool.freehead]
    <3>1. PICK held : held = Held(d, g)
      OBVIOUS
    <3>2. Consistent(pool, word, held) /\ curp \in held
      BY <1>3, <1>4, <3>1
    <3>3. back.word = [word EXCEPT ![curp] = pool.freehead]
      BY <1>7, <3>2, ProcFreed
    <3> QED BY <1>9, <3>3
  <2>2. \A i \in 1 .. e : i \in 1 .. d /\ h[i] = g[i] /\ g[i] # curp
    BY <1>2, <1>3, <1>4, <1>5
  <2> QED BY <2>1, <2>2 DEF TypeOK
<1>15. IsChain(e, h)'
  <2>1. \A i \in 1 .. e : i # 1 => i - 1 \in 1 .. e
    BY <1>5
  <2>2. \A i \in 1 .. e : word'[h[i]] = IF i = 1 THEN NULL ELSE h[i - 1]
    BY <1>4, <1>14, <2>1
  <2>3. \A i, j \in 1 .. e : h[i] = h[j] => i = j
    BY <1>4, <1>14
  <2>4. h[e] = curp'
    BY <1>9, <1>11, <1>14
  <2> QED BY <2>2, <2>3, <2>4 DEF IsChain
<1>16. Linked(e, h)'
  BY <1>13, <1>15 DEF Linked, Held
<1>17. \A a \in Addr : mem'[a] = mem[a] \/ a \in StackAt(e, proc[g[e]])
  <2>1. proc[curp].code # NULL => proc[curp].code \in StackAt(e, proc[g[e]])
    <3>1. proc[curp].code \in {NULL} \cup StackAt(d - 1, proc[g[e]])
      BY <1>5, <1>11 DEF ArgsOK
    <3> QED BY <1>1, <3>1
  <2> QED BY <1>8, <2>1 DEF TypeOK
<1>18. Blocks(e, h)' /\ Texts(e, h)'
  <2>1. Blocks(e, g)'
    BY <1>5, <1>9, BlocksKept DEF OnChain
  <2>2. Texts(e, g)'
    <3>1. \A i \in 1 .. e : /\ TextOf(proc'[g[i]]) = TextOf(proc[g[i]])
                            /\ proc'[g[i]].argv = proc[g[i]].argv
      BY <1>9
    <3>2. \A a \in Addr : \/ mem'[a] = mem[a]
                          \/ a \in StackAt(e, proc[g[e]])
                          \/ a \in Page /\ a >= proc[g[e]].stack + StackPages
      BY <1>17
    <3> QED BY <1>5, <3>1, <3>2, TextsKept DEF OnChain
  <2> QED BY <1>2, <1>5, <2>1, <2>2, Shorter
<1>19. /\ proc[g[e]].savectx \in Ctx
       /\ ctx' \in Ctx /\ ctx'.sp = proc[g[e]].savectx.sp /\ ctx'.seg = proc[g[e]].savectx.seg
       /\ ctx'.off = proc[g[e]].savectx.off /\ ctx'.rax = 0
       /\ ctx'.oth = proc[g[e]].savectx.oth
  <2>1. proc[g[e]].savectx \in Ctx
    BY <1>6 DEF TypeOK, Proc
  <2> QED BY <1>10, <2>1 DEF Ctx
<1>20. /\ prot' \in [Page -> {"rw", "rwx"}]
       /\ \A a \in TextOf(proc[g[e]]) : prot'[a] = "rwx"
  <2>1. prot \in [Page -> {"rw", "rwx"}]
    BY DEF TypeOK
  <2> QED BY <1>10, <1>11, <2>1, TextOpened
<1>21. Runs(e)'
  <2>1. RegsOK(e, proc[curp], ctx)'
    BY <1>9, <1>11, <1>19 DEF RegsOK
  <2>2. execbufp' = proc'[curp'].stack + StackPages
    BY <1>9, <1>12
  <2>3. \A a \in TextOf(proc'[curp']) : prot'[a] = "rwx"
    BY <1>9, <1>20
  <2> QED BY <2>1, <2>2, <2>3 DEF Runs
<1>22. TypeOK'
  <2>1. pool' \in Pool /\ word' \in [Slot -> SlotOrNull]
    BY <1>13 DEF Consistent
  <2>2. mem' \in [Addr -> Val]
    BY <1>8 DEF TypeOK, Val
  <2>3. curp' \in SlotOrNull
    BY <1>6, <1>9 DEF SlotOrNull
  <2> QED BY <1>9, <1>10, <1>12, <1>19, <1>20, <2>1, <2>2, <2>3 DEF TypeOK
<1>23. OnChain(e, h)'
  BY <1>16, <1>18, <1>21 DEF OnChain
<1>24. Inv'
  BY <1>5, <1>6, <1>10, <1>22, <1>23, StaysUser
<1> QED BY <1>5, <1>6, <1>9, <1>10, <1>14, <1>17, <1>19, <1>23, <1>24
       DEF ExitEffect
-----------------------------------------------------------------------------
(* run: a program is added. Its caller's record changes only in savectx.   *)
SameRecord(p, q) ==
  /\ q.freemark = p.freemark /\ q.load = p.load /\ q.loadsz = p.loadsz
  /\ q.stack = p.stack /\ q.stacksz = p.stacksz
  /\ q.argv = p.argv /\ q.code = p.code

LEMMA SameRecordKeeps ==
  ASSUME NEW i, NEW p, NEW q, SameRecord(p, q)
  PROVE  /\ Placed(i, p) => Placed(i, q)
         /\ TextOf(q) = TextOf(p)
         /\ StackAt(i, q) = StackAt(i, p) /\ StackTop(i, q) = StackTop(i, p)
         /\ \A c : RegsOK(i, p, c) => RegsOK(i, q, c)
         /\ \A r : ArgsOK(i, p, r) => ArgsOK(i, q, r)
<1>1. Placed(i, p) => Placed(i, q)
  BY DEF SameRecord, Placed
<1>2. TextOf(q) = TextOf(p)
  BY DEF SameRecord, TextOf
<1>3. StackTop(i, q) = StackTop(i, p)
  BY DEF SameRecord, StackTop
<1>4. StackAt(i, q) = StackAt(i, p)
  BY <1>3 DEF StackAt
<1>5. \A c : RegsOK(i, p, c) => RegsOK(i, q, c)
  BY <1>3 DEF SameRecord, RegsOK
<1>6. \A r : ArgsOK(i, p, r) => ArgsOK(i, q, r)
  BY DEF SameRecord, ArgsOK
<1> QED BY <1>1, <1>2, <1>3, <1>4, <1>5, <1>6

LEMMA SameCaller ==
  ASSUME NEW i, NEW p, NEW q, SameRecord(p, q), NEW r, ArgsOK(i, r, p)
  PROVE  ArgsOK(i, r, q)
<1>1. StackAt(i - 1, q) = StackAt(i - 1, p)
  BY SameRecordKeeps
<1> QED BY <1>1 DEF ArgsOK

LEMMA Longer ==
  ASSUME NEW d \in 1 .. NSlots, NEW g \in [1 .. d -> Slot], Blocks(d, g),
         NEW n, NEW e, e = d + 1,
         NEW h, h = [i \in 1 .. e |-> IF i = e THEN n ELSE g[i]],
         \A i \in 1 .. d : SameRecord(proc[g[i]], proc'[g[i]]),
         \A i \in 1 .. d - 1 : proc'[g[i]].savectx = proc[g[i]].savectx,
         RegsOK(d, proc'[g[d]], proc'[g[d]].savectx),
         Placed(e, proc'[n]), ArgsOK(e, proc'[n], proc'[g[d]]),
         proc'[n].load = proc[g[d]].stack + StackPages
  PROVE  Blocks(e, h)'
<1>1. /\ \A i \in 1 .. d : i \in 1 .. e /\ h[i] = g[i]
      /\ e \in 1 .. e /\ h[e] = n /\ d \in 1 .. d
      /\ \A i \in 1 .. e : i \in 1 .. d \/ i = e
  OBVIOUS
<1>2. \A i \in 1 .. e : Placed(i, proc'[h[i]])
  <2> SUFFICES ASSUME NEW i \in 1 .. e PROVE Placed(i, proc'[h[i]])
    OBVIOUS
  <2>1. CASE i = e
    BY <1>1, <2>1
  <2>2. CASE i \in 1 .. d
    <3>1. Placed(i, proc[g[i]]) /\ SameRecord(proc[g[i]], proc'[g[i]])
      BY <2>2 DEF Blocks
    <3>2. Placed(i, proc'[g[i]])
      BY <3>1, SameRecordKeeps
    <3> QED BY <1>1, <2>2, <3>2
  <2> QED BY <1>1, <2>1, <2>2
<1>3. \A i \in 1 .. e : ArgsOK(i, proc'[h[i]], proc'[h[i - 1]])
  <2> SUFFICES ASSUME NEW i \in 1 .. e PROVE ArgsOK(i, proc'[h[i]], proc'[h[i - 1]])
    OBVIOUS
  <2>1. CASE i = e
    <3>1. i - 1 = d
      BY <2>1
    <3> QED BY <1>1, <2>1, <3>1
  <2>2. CASE i \in 1 .. d
    <3>1. ArgsOK(i, proc[g[i]], proc[g[i - 1]]) /\ SameRecord(proc[g[i]], proc'[g[i]])
      BY <2>2 DEF Blocks
    <3>2. ArgsOK(i, proc'[g[i]], proc[g[i - 1]])
      BY <3>1, SameRecordKeeps
    <3>3. CASE i = 1
      BY <1>1, <2>2, <3>2, <3>3 DEF ArgsOK
    <3>4. CASE i # 1
      <4>1. i - 1 \in 1 .. d
        BY <2>2, <3>4
      <4>2. SameRecord(proc[g[i - 1]], proc'[g[i - 1]])
        BY <4>1
      <4>3. ArgsOK(i, proc'[g[i]], proc'[g[i - 1]])
        BY <3>2, <4>2, SameCaller
      <4> QED BY <1>1, <2>2, <4>1, <4>3
    <3> QED BY <3>3, <3>4
  <2> QED BY <1>1, <2>1, <2>2
<1>4. \A i \in 1 .. e - 1 : RegsOK(i, proc'[h[i]], proc'[h[i]].savectx)
  <2> SUFFICES ASSUME NEW i \in 1 .. d PROVE RegsOK(i, proc'[g[i]], proc'[g[i]].savectx)
    BY <1>1
  <2>1. CASE i = d
    BY <2>1
  <2>2. CASE i # d
    <3>1. i \in 1 .. d - 1
      BY <2>2
    <3>2. /\ RegsOK(i, proc[g[i]], proc[g[i]].savectx)
          /\ SameRecord(proc[g[i]], proc'[g[i]])
      BY <3>1 DEF Blocks
    <3>3. RegsOK(i, proc'[g[i]], proc[g[i]].savectx)
      BY <3>2, SameRecordKeeps
    <3> QED BY <3>1, <3>3
  <2> QED BY <2>1, <2>2
<1>5. \A i \in 1 .. d : /\ proc'[g[i]].load = proc[g[i]].load
                        /\ proc'[g[i]].stack = proc[g[i]].stack
  BY DEF SameRecord
<1>6. \A i \in 1 .. e - 1 : proc'[h[i + 1]].load = proc'[h[i]].stack + StackPages
  <2> SUFFICES ASSUME NEW i \in 1 .. d
               PROVE  proc'[h[i + 1]].load = proc'[h[i]].stack + StackPages
    BY <1>1
  <2>1. CASE i = d
    BY <1>1, <1>5, <2>1
  <2>2. CASE i # d
    <3>1. i \in 1 .. d - 1 /\ i + 1 \in 1 .. d
      BY <2>2
    <3>2. proc[g[i + 1]].load = proc[g[i]].stack + StackPages
      BY <3>1 DEF Blocks
    <3> QED BY <1>1, <1>5, <3>1, <3>2
  <2> QED BY <2>1, <2>2
<1>7. \A i, j \in 1 .. e : i < j => proc'[h[i]].stack + StackPages <= proc'[h[j]].load
  <2> SUFFICES ASSUME NEW i \in 1 .. e, NEW j \in 1 .. e, i < j
               PROVE  proc'[h[i]].stack + StackPages <= proc'[h[j]].load
    OBVIOUS
  <2>1. i \in 1 .. d /\ h[i] = g[i] /\ proc'[g[i]].stack = proc[g[i]].stack
    BY <1>1, <1>5
  <2>2. CASE j \in 1 .. d
    <3>1. h[j] = g[j] /\ proc'[g[j]].load = proc[g[j]].load
      BY <1>1, <1>5, <2>2
    <3>2. proc[g[i]].stack + StackPages <= proc[g[j]].load
      BY <2>1, <2>2 DEF Blocks
    <3> QED BY <2>1, <3>1, <3>2
  <2>3. CASE j = e
    <3>1. \A k \in 1 .. d : proc[g[k]].stack + StackPages \in Int
      <4>1. \A k \in 1 .. d : proc[g[k]].stack + StackPages \in MemBase .. MemEnd
        BY DEF Blocks, Placed
      <4> QED BY <4>1
    <3>2. CASE i = d
      BY <1>1, <2>1, <2>3, <3>1, <3>2
    <3>3. CASE i # d
      <4>1. i < d
        BY <2>1, <3>3
      <4>2. proc[g[i]].stack + StackPages <= proc[g[d]].load
        BY <1>1, <2>1, <4>1 DEF Blocks
      <4>3. /\ proc[g[d]].load \in Page /\ proc[g[d]].loadsz \in Nat
            /\ proc[g[d]].stack = proc[g[d]].load + proc[g[d]].loadsz
        BY <1>1 DEF Blocks, Placed
      <4>4. \A x \in Int, l \in Page, z \in Nat : x <= l => x <= l + z + StackPages
        BY Constants
      <4>5. proc[g[i]].stack + StackPages <= proc[g[d]].stack + StackPages
        BY <2>1, <3>1, <4>2, <4>3, <4>4
      <4> QED BY <1>1, <2>1, <2>3, <4>5
    <3> QED BY <3>2, <3>3
  <2> QED BY <1>1, <2>2, <2>3
<1> QED BY <1>2, <1>3, <1>4, <1>6, <1>7 DEF Blocks

(* What run does when all it needs is there: a program at the end of the   *)
(* chain, and of its caller's record only savectx changed.                 *)
RunOkEffect(d, g, a, c, n, e, h) ==
  /\ Inv' /\ OnChain(e, h)' /\ mode' = mode
  /\ e \in 1 .. NSlots /\ h \in [1 .. e -> Slot]
  /\ n \in Slot /\ n \notin Held(d, g) /\ n # curp /\ curp' = n
  /\ word' = [word EXCEPT ![n] = curp]
  /\ \A i \in 1 .. d : SameRecord(proc[g[i]], proc'[g[i]])
  /\ \A i \in 1 .. d - 1 : proc'[g[i]].savectx = proc[g[i]].savectx
  /\ proc'[curp].savectx = Trapped
  /\ \A b \in Addr : mem'[b] = mem[b] \/ (b \in Page /\ b >= execbufp)
  /\ mem'[a] = mem[a]
  /\ proc'[n].load = execbufp /\ proc'[n].loadsz = Pages[Arg0[mem[a]]]
  /\ \A b \in Span(execbufp, Pages[Arg0[mem[a]]]) : mem'[b] = Arg0[mem[a]]
  /\ proc'[n].argv = a /\ proc'[n].code = c
  /\ execbufp' = execbufp + Pages[Arg0[mem[a]]] + StackPages
  /\ ctx'.off = Entry /\ ctx'.rax = 0 /\ ctx'.oth = ctx.oth

LEMMA RunOkKeeps ==
  ASSUME TypeOK, mode = "user", NEW d \in 1 .. NSlots, NEW g \in [1 .. d -> Slot],
         OnChain(d, g), NEW a \in StackAt(d, proc[curp]),
         NEW c \in {NULL} \cup StackAt(d, proc[curp]), RunOk(a, c),
         NEW n, n = NewProc.ret, NEW e, e = d + 1,
         NEW h, h = Extended(g, e, n)
  PROVE  RunOkEffect(d, g, a, c, n, e, h)
<1>1. n = NewProc.ret
  OBVIOUS
<1>2. PICK name : name = Arg0[mem[a]]
  OBVIOUS
<1>3. PICK stack : stack = NewStack(name).ret
  OBVIOUS
<1>4. PICK p : p = [Filled(name, n, freemark(execbufp)) EXCEPT !.argv = a, !.code = c]
  OBVIOUS
<1>5. /\ n # NULL /\ Loaded(name).status = "ok" /\ stack # NULL
      /\ pool' = NewProc.pool
      /\ word' = [word EXCEPT ![n] = curp]
      /\ execbufp' = NewStack(name).bp
      /\ proc' = [proc EXCEPT ![n] = p, ![curp].savectx = Trapped]
      /\ curp' = n
      /\ mem' = Loaded(name).mem
      /\ Return(ctx_save(Trapped, Loaded(name).loadp, stack, StackPages), 0)
  BY <1>1, <1>2, <1>3, <1>4 DEF RunOk, RunNamed
<1>6. /\ curp = g[d] /\ curp \in Slot /\ curp # NULL /\ curp \in Held(d, g)
      /\ Placed(d, proc[curp]) /\ d \in Nat \ {0} /\ d \in 1 .. d
      /\ execbufp \in MemBase .. MemEnd /\ allocinit(execbufp) = execbufp
      /\ freemark(execbufp) = execbufp
      /\ ctx.sp = StackTop(d, proc[curp]) /\ ctx.seg = proc[curp].load
      /\ execbufp = proc[curp].stack + StackPages
  BY Current DEF freemark, OnChain, Runs
<1>7. /\ name \in Prog /\ Loaded(name).loadp = execbufp /\ execbufp \in Page
      /\ Pages[name] \in Nat \ {0}
      /\ stack = execbufp + Pages[name] /\ stack \in Page
      /\ execbufp' = execbufp + Pages[name] + StackPages
      /\ execbufp' \in MemBase .. MemEnd
      /\ \A b \in Span(execbufp, Pages[name]) : b \in Page /\ mem'[b] = name
  BY <1>3, <1>5, <1>6, LoadedFacts
<1>8. /\ mem' \in [Addr -> Val]
      /\ \A b \in Addr : mem'[b] = mem[b] \/ (b \in Page /\ b >= execbufp)
  BY <1>5, <1>6, LoadedFacts
<1>9. /\ ctx' = [ctx_save(Trapped, execbufp, stack, StackPages) EXCEPT !.rax = 0]
      /\ prot' = host_vm_prot(proc'[n]) /\ mode' = mode
  BY <1>5, <1>7 DEF Return
(* The pool and the chain.                                                 *)
<1>10. /\ n \in Slot /\ n \notin Held(d, g) /\ n # curp
       /\ Consistent(pool', word', Held(d, g) \cup {n})
  <2>1. PICK held : held = Held(d, g)
    OBVIOUS
  <2>2. Consistent(pool, word, held)
    BY <2>1 DEF OnChain, Linked
  <2>3. n = NewProc.ret /\ pool' = NewProc.pool /\ NewProc.ret # NULL
    BY <1>1, <1>5
  <2>4. n \in Slot \ held /\ Consistent(pool', word, held \cup {n})
    <3>1. /\ NewProc.ret \in Slot \ held
          /\ Consistent(NewProc.pool, word, held \cup {NewProc.ret})
      BY <2>2, <2>3, ProcTaken
    <3> QED BY <2>3, <3>1
  <2>5. PICK more : more = held \cup {n}
    OBVIOUS
  <2>6. Consistent(pool', word, more) /\ n \in more /\ curp \in SlotOrNull
    BY <1>6, <2>3, <2>4, <2>5 DEF SlotOrNull
  <2>7. Consistent(pool', [word EXCEPT ![n] = curp], more)
    BY <2>6, WriteLemma
  <2> QED BY <1>5, <1>6, <2>1, <2>3, <2>4, <2>5, <2>7
<1>11. e = d + 1
  OBVIOUS
<1>12. h = [i \in 1 .. e |-> IF i = e THEN n ELSE g[i]]
  BY DEF Extended
<1>13. /\ \A i \in 1 .. d : word[g[i]] = IF i = 1 THEN NULL ELSE g[i - 1]
       /\ \A i, j \in 1 .. d : g[i] = g[j] => i = j
       /\ \A i \in 1 .. d : g[i] # n
  <2>1. IsChain(d, g)
    BY DEF OnChain, Linked
  <2> QED BY <1>10, <2>1 DEF IsChain, Held
<1>14. e \in 1 .. NSlots /\ h \in [1 .. e -> Slot]
  <2>1. d \in Nat
    OBVIOUS
  <2>2. d + 1 <= NSlots
    <3>1. n \in Slot
      BY <1>10
    <3>2. \A i, j \in 1 .. d : g[i] = g[j] => i = j
      BY <1>13
    <3>3. \A i \in 1 .. d : g[i] # n
      BY <1>13
    <3> QED BY ONLY <2>1, g \in [1 .. d -> Slot], <3>1, <3>2, <3>3, RoomForOneMore
  <2> QED BY <1>10, <1>11, <1>12, <2>2, NSlotsAssumption
<1>15. /\ \A i \in 1 .. d : i \in 1 .. e /\ h[i] = g[i]
       /\ e \in 1 .. e /\ h[e] = n /\ e # 1 /\ e - 1 = d /\ e \in Nat \ {0}
       /\ \A i \in 1 .. e : i \in 1 .. d \/ i = e
  BY <1>11, <1>12
<1>16. Linked(e, h)'
  <2>1. Held(e, h) = Held(d, g) \cup {n}
    <3>1. Held(e, h) \subseteq Held(d, g) \cup {n}
      BY <1>15 DEF Held
    <3>2. Held(d, g) \cup {n} \subseteq Held(e, h)
      BY <1>15 DEF Held
    <3> QED BY <3>1, <3>2
  <2>2. Consistent(pool', word', Held(e, h))
    BY <1>10, <2>1
  <2>3. \A i \in 1 .. e : word'[h[i]] = IF i = 1 THEN NULL ELSE h[i - 1]
    <3> SUFFICES ASSUME NEW i \in 1 .. e
                 PROVE  word'[h[i]] = IF i = 1 THEN NULL ELSE h[i - 1]
      OBVIOUS
    <3>1. CASE i = e
      BY <1>5, <1>6, <1>10, <1>15, <3>1 DEF TypeOK
    <3>2. CASE i \in 1 .. d
      <4>1. word'[g[i]] = word[g[i]]
        BY <1>5, <1>10, <1>13, <3>2 DEF TypeOK
      <4>2. i # 1 => i - 1 \in 1 .. d
        BY <3>2
      <4> QED BY <1>13, <1>15, <3>2, <4>1, <4>2
    <3> QED BY <1>15, <3>1, <3>2
  <2>4. \A i, j \in 1 .. e : h[i] = h[j] => i = j
    BY <1>13, <1>15
  <2>5. h[e] = curp'
    BY <1>5, <1>15
  <2> QED BY <2>2, <2>3, <2>4, <2>5 DEF Linked, IsChain, Held
(* The records.                                                            *)
<1>17. /\ p \in Proc /\ p.load = execbufp /\ p.loadsz = Pages[name]
       /\ p.stack = stack /\ p.stacksz = StackPages
       /\ p.freemark = execbufp /\ p.argv = a /\ p.code = c
  <2>1. PICK f : f = Filled(name, n, execbufp)
    OBVIOUS
  <2>2. execbufp \in MemBase .. MemEnd \cup {NULL}
    BY <1>6
  <2>3. NewStack(name).ret \in AddrOrNull
    BY <1>3, <1>7, Constants DEF AddrOrNull
  <2>4. /\ f \in Proc /\ f.load = execbufp /\ f.loadsz = Pages[name]
        /\ f.stack = stack /\ f.stacksz = StackPages /\ f.freemark = execbufp
    BY <1>3, <1>5, <1>6, <1>10, <2>1, <2>2, <2>3, FilledFacts
  <2>5. a \in AddrOrNull /\ c \in AddrOrNull
    BY <1>6, PlacedPages DEF AddrOrNull
  <2>6. p = [f EXCEPT !.argv = a, !.code = c]
    BY <1>4, <1>6, <2>1
  <2>7. PICK f1 : f1 = [f EXCEPT !.argv = a]
    OBVIOUS
  <2>8. /\ f1 \in Proc /\ f1.load = execbufp /\ f1.loadsz = Pages[name]
        /\ f1.stack = stack /\ f1.stacksz = StackPages /\ f1.freemark = execbufp
        /\ f1.argv = a
    BY <2>4, <2>5, <2>7 DEF Proc
  <2>9. p = [f1 EXCEPT !.code = c]
    BY <2>6, <2>7
  <2> QED BY <2>5, <2>8, <2>9 DEF Proc
<1>18. ctx \in Ctx /\ Trapped \in Ctx /\ Trapped.sp = ctx.sp /\ Trapped.seg = ctx.seg
  <2>1. ctx \in Ctx
    BY DEF TypeOK
  <2> QED BY <2>1, CtxTypes DEF Trapped
<1>19. PICK q : q = [proc[curp] EXCEPT !.savectx = Trapped]
  OBVIOUS
<1>20. q \in Proc /\ SameRecord(proc[curp], q) /\ q.savectx = Trapped
  <2>1. proc[curp] \in Proc
    BY <1>6 DEF TypeOK
  <2> QED BY <1>18, <1>19, <2>1 DEF Proc, SameRecord
<1>21. /\ proc' \in [Slot -> Proc] /\ proc'[n] = p /\ proc'[curp] = q
       /\ \A s \in Slot : s # n /\ s # curp => proc'[s] = proc[s]
  BY <1>5, <1>6, <1>10, <1>17, <1>19, <1>20 DEF TypeOK
<1>22. /\ \A i \in 1 .. d : SameRecord(proc[g[i]], proc'[g[i]])
       /\ \A i \in 1 .. d - 1 : proc'[g[i]].savectx = proc[g[i]].savectx
  <2>1. \A i \in 1 .. d - 1 : i \in 1 .. d /\ g[i] # curp
    BY <1>6, <1>13
  <2>2. \A i \in 1 .. d : g[i] # curp => proc'[g[i]] = proc[g[i]]
    BY <1>13, <1>21
  <2> QED BY <1>20, <1>21, <2>1, <2>2 DEF SameRecord
<1>23. Placed(e, proc'[n])
  BY <1>7, <1>15, <1>17, <1>21 DEF Placed
<1>24. Blocks(e, h)'
  <2>1. RegsOK(d, proc'[g[d]], proc'[g[d]].savectx)
    <3>1. RegsOK(d, proc[curp], ctx)
      BY DEF OnChain, Runs
    <3>2. RegsOK(d, proc[curp], Trapped)
      BY <1>18, <3>1 DEF RegsOK
    <3>3. RegsOK(d, q, Trapped)
      BY <1>20, <3>2, SameRecordKeeps
    <3> QED BY <1>6, <1>20, <1>21, <3>3
  <2>2. ArgsOK(e, proc'[n], proc'[g[d]])
    <3>1. ArgsOK(e, p, proc[curp])
      BY <1>15, <1>17 DEF ArgsOK
    <3> QED BY <1>6, <1>20, <1>21, <3>1, SameCaller
  <2>3. proc'[n].load = proc[g[d]].stack + StackPages
    BY <1>6, <1>17, <1>21
  <2> QED BY <1>11, <1>12, <1>22, <1>23, <2>1, <2>2, <2>3, Longer DEF OnChain
(* The texts.                                                              *)
<1>25. mem'[a] = mem[a]
  <2>1. a \in Addr /\ (a < proc[curp].stack + StackPages \/ a \notin Page)
    BY <1>6, PlacedPages
  <2>2. a \in Int /\ execbufp \in Int
    BY <1>6, <2>1, Constants
  <2> QED BY <1>6, <1>8, <2>1, <2>2
<1>26. Texts(e, h)'
  <2>1. Texts(d, g)'
    <3>1. \A i \in 1 .. d : /\ TextOf(proc'[g[i]]) = TextOf(proc[g[i]])
                            /\ proc'[g[i]].argv = proc[g[i]].argv
      BY <1>22 DEF SameRecord, TextOf
    <3>2. \A b \in Addr : \/ mem'[b] = mem[b]
                          \/ b \in StackAt(d, proc[g[d]])
                          \/ b \in Page /\ b >= proc[g[d]].stack + StackPages
      BY <1>6, <1>8
    <3> QED BY <1>6, <3>1, <3>2, TextsKept DEF OnChain
  <2>2. mem'[a] = mem[a]
    BY <1>25
  <2>3. TextOf(p) = Span(execbufp, Pages[name])
    BY <1>17 DEF TextOf
  <2>4. HasText(proc[n])'
    BY <1>2, <1>7, <1>17, <1>21, <2>2, <2>3 DEF HasText
  <2> QED BY <1>15, <2>1, <2>4 DEF Texts
(* The registers and the protection.                                       *)
<1>27. Trapped.oth = ctx.oth
  BY <1>18 DEF Trapped, Ctx
<1>28. /\ ctx' \in Ctx /\ ctx'.seg = execbufp /\ ctx'.sp = stack + StackPages - 1
       /\ ctx'.off = Entry /\ ctx'.rax = 0 /\ ctx'.oth = ctx.oth
  <2>1. PICK c1 : c1 = [Trapped EXCEPT !.seg = execbufp]
    OBVIOUS
  <2>2. PICK c2 : c2 = [c1 EXCEPT !.off = Entry]
    OBVIOUS
  <2>3. PICK c3 : c3 = [c2 EXCEPT !.sp = stack + StackPages - 1]
    OBVIOUS
  <2>4. ctx' = [c3 EXCEPT !.rax = 0]
    BY <1>9, <2>1, <2>2, <2>3 DEF ctx_save
  <2>5. /\ execbufp \in AddrOrNull /\ Entry \in Nat
    BY <1>7, Constants, KSysAssumption DEF AddrOrNull
  <2>6. stack + StackPages - 1 \in AddrOrNull
    <3>1. stack + StackPages \in 1 .. MemPages + 1 /\ stack \in 1 .. MemPages
      BY <1>7, Constants
    <3>2. stack + StackPages - 1 \in Addr
      BY <3>1, Constants
    <3> QED BY <3>2 DEF AddrOrNull
  <2>7. c1 \in Ctx /\ c1.seg = execbufp /\ c1.oth = ctx.oth
    BY <1>18, <1>27, <2>1, <2>5 DEF Ctx
  <2>8. c2 \in Ctx /\ c2.seg = execbufp /\ c2.oth = ctx.oth /\ c2.off = Entry
    BY <2>2, <2>5, <2>7 DEF Ctx
  <2>9. /\ c3 \in Ctx /\ c3.seg = execbufp /\ c3.sp = stack + StackPages - 1
        /\ c3.oth = ctx.oth /\ c3.off = Entry
    BY <2>3, <2>6, <2>8 DEF Ctx
  <2> QED BY <2>4, <2>9 DEF Ctx
<1>29. /\ prot' \in [Page -> {"rw", "rwx"}]
       /\ \A b \in TextOf(proc'[n]) : prot'[b] = "rwx"
  <2>1. prot \in [Page -> {"rw", "rwx"}]
    BY DEF TypeOK
  <2> QED BY <1>9, <1>15, <1>23, <2>1, TextOpened
<1>30. Runs(e)'
  <2>1. StackTop(e, proc'[n]) = stack + StackPages - 1
    BY <1>15, <1>17, <1>21 DEF StackTop
  <2>2. RegsOK(e, proc[curp], ctx)'
    BY <1>5, <1>17, <1>21, <1>28, <2>1 DEF RegsOK
  <2>3. execbufp' = proc'[n].stack + StackPages
    BY <1>7, <1>17, <1>21
  <2> QED BY <1>5, <1>29, <2>2, <2>3 DEF Runs
<1>31. TypeOK'
  <2>1. pool' \in Pool /\ word' \in [Slot -> SlotOrNull]
    BY <1>10 DEF Consistent
  <2>2. curp' \in SlotOrNull
    BY <1>5, <1>10 DEF SlotOrNull
  <2> QED BY <1>7, <1>8, <1>9, <1>21, <1>28, <1>29, <2>1, <2>2 DEF TypeOK
<1>32. OnChain(e, h)'
  BY <1>16, <1>24, <1>26, <1>30 DEF OnChain
<1>33. /\ proc'[curp].savectx = Trapped
       /\ proc'[n].load = execbufp /\ proc'[n].loadsz = Pages[name]
       /\ proc'[n].argv = a /\ proc'[n].code = c
  BY <1>17, <1>20, <1>21
<1>34. Inv'
  BY <1>5, <1>9, <1>14, <1>31, <1>32, StaysUser
<1> QED BY <1>2, <1>5, <1>7, <1>8, <1>9, <1>10, <1>14, <1>22, <1>28, <1>32, <1>25,
           <1>33, <1>34 DEF RunOkEffect
-----------------------------------------------------------------------------
(* Boot.                                                                   *)
LEMMA InitInv == Init => Inv
<1> SUFFICES ASSUME Init PROVE Inv
  OBVIOUS
<1>1. PICK o \in Oth :
        /\ proc = [s \in Slot |-> ZeroProc(o)]
        /\ ctx = [seg |-> NULL, off |-> 0, sp |-> HostTop, rax |-> 0, oth |-> o]
  BY DEF Init
<1>2. PICK v \in BootVecs : mem = [a \in Addr |-> IF a = BootArgv THEN v ELSE Zero]
  BY DEF Init
<1>3. /\ pool = pool_init /\ word = [s \in Slot |-> NULL]
      /\ execbufp = NULL /\ curp = NULL /\ mode = "boot"
      /\ prot = [a \in Page |-> "rwx"]
  BY DEF Init
<1>4. Consistent(pool, word, {})
  BY <1>3, InitLemma
<1>5. v \in Vec /\ v \in Val /\ Zero \in Val
  BY DEF Vec, Val
<1>6. HostTop \in Addr /\ BootArgv \in Addr
  BY Constants
<1>7. mem \in [Addr -> Val] /\ mem[BootArgv] = v
  BY <1>2, <1>5, <1>6
<1>8. NULL \in AddrOrNull /\ HostTop \in AddrOrNull /\ 0 \in Nat /\ 0 \in Int
  BY <1>6 DEF AddrOrNull
<1>9. ctx \in Ctx /\ ctx.sp = HostTop
  BY <1>1, <1>8 DEF Ctx
<1>10. ZeroProc(o) \in Proc
  <2>1. PICK z : z = [seg |-> NULL, off |-> 0, sp |-> NULL, rax |-> 0, oth |-> o]
    OBVIOUS
  <2>2. z \in Ctx
    BY <1>8, <2>1 DEF Ctx
  <2>3. ZeroProc(o) = [savectx |-> z, freemark |-> NULL, load |-> NULL, loadsz |-> 0,
                       stack |-> NULL, stacksz |-> 0, argv |-> NULL, code |-> NULL]
    BY <2>1 DEF ZeroProc
  <2> QED BY <1>8, <2>2, <2>3 DEF Proc
<1>11. proc \in [Slot -> Proc]
  BY <1>1, <1>10
<1>12. TypeOK
  <2>1. pool \in Pool /\ word \in [Slot -> SlotOrNull]
    BY <1>4 DEF Consistent
  <2>2. curp \in SlotOrNull /\ execbufp \in MemBase .. MemEnd \cup {NULL} /\ mode \in Modes
    BY <1>3 DEF SlotOrNull, Modes
  <2>3. prot \in [Page -> {"rw", "rwx"}]
    BY <1>3
  <2> QED BY <1>7, <1>9, <1>11, <2>1, <2>2, <2>3 DEF TypeOK
<1>13. BootState
  BY <1>3, <1>4, <1>5, <1>7, <1>9 DEF BootState
<1> QED BY <1>3, <1>12, <1>13 DEF Inv

LEMMA BootOkKeeps ==
  ASSUME TypeOK, BootState, BootOk, NEW n, n = NewProc.ret,
         NEW g, g = [i \in 1 .. 1 |-> n]
  PROVE  /\ Inv' /\ OnChain(1, g)' /\ n \in Slot /\ g \in [1 .. 1 -> Slot]
         /\ curp' = n /\ mode' = "user" /\ mem'[BootArgv] = mem[BootArgv]
         /\ proc'[n].load = MemBase /\ proc'[n].loadsz = Pages[Arg0[mem[BootArgv]]]
         /\ \A b \in Span(MemBase, Pages[Arg0[mem[BootArgv]]]) :
              mem'[b] = Arg0[mem[BootArgv]]
         /\ proc'[n].argv = BootArgv /\ proc'[n].code = NULL
         /\ execbufp' = MemBase + Pages[Arg0[mem[BootArgv]]] + StackPages
         /\ ctx'.off = Entry /\ ctx'.rax = ctx.rax /\ ctx'.oth = ctx.oth
<1>1. n = NewProc.ret
  OBVIOUS
<1>2. PICK name : name = Arg0[mem[BootArgv]]
  OBVIOUS
<1>3. PICK stack : stack = NewStack(name).ret
  OBVIOUS
<1>4. PICK p : p = [Filled(name, n, NULL) EXCEPT !.argv = BootArgv, !.code = NULL]
  OBVIOUS
<1>5. /\ Loaded(name).status = "ok" /\ stack # NULL
      /\ pool' = NewProc.pool
      /\ word' = [word EXCEPT ![n] = NULL]
      /\ execbufp' = NewStack(name).bp
      /\ proc' = [proc EXCEPT ![n] = p]
      /\ curp' = n
      /\ ctx' = [ctx EXCEPT !.seg = Loaded(name).loadp, !.off = Entry]
      /\ mem' = Loaded(name).mem
      /\ mode' = "user"
      /\ prot' = prot
  BY <1>1, <1>2, <1>3, <1>4 DEF BootOk
<1>6. /\ allocinit(execbufp) = MemBase /\ ctx.sp = HostTop
      /\ Consistent(pool, word, {}) /\ \A b \in Page : prot[b] = "rwx"
      /\ mem[BootArgv] \in Vec
  BY DEF BootState, allocinit
<1>7. /\ name \in Prog /\ Loaded(name).loadp = MemBase /\ MemBase \in Page
      /\ Pages[name] \in Nat \ {0}
      /\ stack = MemBase + Pages[name] /\ stack \in Page
      /\ execbufp' = MemBase + Pages[name] + StackPages
      /\ execbufp' \in MemBase .. MemEnd
      /\ \A b \in Span(MemBase, Pages[name]) : b \in Page /\ mem'[b] = name
  BY <1>3, <1>5, <1>6, LoadedFacts
<1>8. /\ mem' \in [Addr -> Val]
      /\ \A b \in Addr : mem'[b] = mem[b] \/ (b \in Page /\ b >= MemBase)
  BY <1>5, <1>6, LoadedFacts
<1>9. n \in Slot /\ Consistent(pool', word', {n})
  <2>1. PICK held : held = {}
    OBVIOUS
  <2>2. Consistent(pool, word, held)
    BY <1>6, <2>1
  <2>3. NewProc.ret = NULL => held = Slot
    BY <2>2, ProcTaken
  <2>4. NewProc.ret # NULL
    BY <2>1, <2>3, Constants
  <2>5. /\ NewProc.ret \in Slot \ held
        /\ Consistent(NewProc.pool, word, held \cup {NewProc.ret})
    BY <2>2, <2>4, ProcTaken
  <2>6. held \cup {n} = {n}
    BY <2>1
  <2>7. n \in Slot /\ Consistent(pool', word, {n})
    BY <1>1, <1>5, <2>5, <2>6
  <2>8. Consistent(pool', [word EXCEPT ![n] = NULL], {n})
    <3>1. PICK one : one = {n}
      OBVIOUS
    <3>2. Consistent(pool', word, one) /\ n \in one /\ NULL \in SlotOrNull
      BY <2>7, <3>1 DEF SlotOrNull
    <3>3. Consistent(pool', [word EXCEPT ![n] = NULL], one)
      BY <3>2, WriteLemma
    <3> QED BY <3>1, <3>3
  <2> QED BY <1>5, <2>7, <2>8
<1>10. g = [i \in 1 .. 1 |-> n]
  OBVIOUS
<1>11. 1 \in 1 .. NSlots /\ g \in [1 .. 1 -> Slot] /\ g[1] = n
  BY <1>9, <1>10, NSlotsAssumption
<1>12. Linked(1, g)'
  <2>1. {g[i] : i \in 1 .. 1} = {n}
    BY <1>11
  <2>2. word'[n] = NULL
    BY <1>5, <1>9 DEF TypeOK
  <2>3. IsChain(1, g)'
    BY <1>5, <1>11, <2>2 DEF IsChain
  <2>4. Consistent(pool', word', Held(1, g))
    BY <1>9, <2>1 DEF Held
  <2> QED BY <2>3, <2>4 DEF Linked, Held
<1>13. /\ p \in Proc /\ p.load = MemBase /\ p.loadsz = Pages[name]
       /\ p.stack = stack /\ p.stacksz = StackPages
       /\ p.freemark = NULL /\ p.argv = BootArgv /\ p.code = NULL
  <2>1. PICK f : f = Filled(name, n, NULL)
    OBVIOUS
  <2>2. NULL \in MemBase .. MemEnd \cup {NULL}
    OBVIOUS
  <2>3. NewStack(name).ret \in AddrOrNull
    BY <1>3, <1>7, Constants DEF AddrOrNull
  <2>4. /\ f \in Proc /\ f.load = MemBase /\ f.loadsz = Pages[name]
        /\ f.stack = stack /\ f.stacksz = StackPages /\ f.freemark = NULL
    BY <1>3, <1>5, <1>6, <1>9, <2>1, <2>2, <2>3, FilledFacts
  <2>5. BootArgv \in AddrOrNull /\ NULL \in AddrOrNull
    BY Constants DEF AddrOrNull
  <2>6. PICK f1 : f1 = [f EXCEPT !.argv = BootArgv]
    OBVIOUS
  <2>7. /\ f1 \in Proc /\ f1.load = MemBase /\ f1.loadsz = Pages[name]
        /\ f1.stack = stack /\ f1.stacksz = StackPages /\ f1.freemark = NULL
        /\ f1.argv = BootArgv
    BY <2>4, <2>5, <2>6 DEF Proc
  <2>8. p = [f1 EXCEPT !.code = NULL]
    BY <1>4, <2>1, <2>6
  <2> QED BY <2>5, <2>7, <2>8 DEF Proc
<1>14. proc' \in [Slot -> Proc] /\ proc'[n] = p
  BY <1>5, <1>9, <1>13 DEF TypeOK
<1>15. Placed(1, proc'[n])
  BY <1>7, <1>13, <1>14 DEF Placed
<1>16. Blocks(1, g)'
  <2>1. ArgsOK(1, proc'[n], proc'[g[0]])
    BY <1>13, <1>14 DEF ArgsOK
  <2>2. \A i \in 1 .. 1 : i = 1
    OBVIOUS
  <2>3. 1 .. 1 - 1 = {}
    OBVIOUS
  <2>4. \A i \in 1 .. 1 : ArgsOK(i, proc'[g[i]], proc'[g[i - 1]])
    BY <1>11, <2>1, <2>2
  <2>5. \A i \in 1 .. 1 : Placed(i, proc'[g[i]])
    BY <1>11, <1>15, <2>2
  <2>6. \A i, j \in 1 .. 1 : ~ i < j
    OBVIOUS
  <2> QED BY <2>3, <2>4, <2>5, <2>6 DEF Blocks
<1>17. mem'[BootArgv] = mem[BootArgv]
  BY <1>8, Constants
<1>18. Texts(1, g)'
  <2>1. mem'[BootArgv] = mem[BootArgv]
    BY <1>17
  <2>2. TextOf(p) = Span(MemBase, Pages[name])
    BY <1>13 DEF TextOf
  <2>3. HasText(proc[n])'
    BY <1>2, <1>7, <1>13, <1>14, <2>1, <2>2 DEF HasText
  <2>4. \A i \in 1 .. 1 : g[i] = n
    BY <1>11
  <2> QED BY <2>3, <2>4 DEF Texts
<1>19. /\ ctx' \in Ctx /\ ctx'.seg = MemBase /\ ctx'.sp = HostTop
       /\ ctx'.off = Entry /\ ctx'.rax = ctx.rax /\ ctx'.oth = ctx.oth
  <2>1. PICK c1 : c1 = [ctx EXCEPT !.seg = MemBase]
    OBVIOUS
  <2>2. ctx' = [c1 EXCEPT !.off = Entry]
    BY <1>5, <1>7, <2>1
  <2>3. MemBase \in AddrOrNull /\ Entry \in Nat
    BY <1>7, Constants, KSysAssumption DEF AddrOrNull
  <2>4. ctx \in Ctx
    BY DEF TypeOK
  <2>5. /\ c1 \in Ctx /\ c1.seg = MemBase /\ c1.sp = HostTop
        /\ c1.rax = ctx.rax /\ c1.oth = ctx.oth
    BY <1>6, <2>1, <2>3, <2>4 DEF Ctx
  <2> QED BY <2>2, <2>3, <2>5 DEF Ctx
<1>20. Runs(1)'
  <2>1. RegsOK(1, proc[curp], ctx)'
    BY <1>5, <1>13, <1>14, <1>19 DEF RegsOK, StackTop
  <2>2. execbufp' = proc'[n].stack + StackPages
    BY <1>7, <1>13, <1>14
  <2>3. TextOf(proc'[n]) \subseteq Page
    <3>1. 1 \in Nat \ {0}
      OBVIOUS
    <3> QED BY <1>15, <3>1, PlacedPages
  <2> QED BY <1>5, <1>6, <2>1, <2>2, <2>3 DEF Runs
<1>21. TypeOK'
  <2>1. pool' \in Pool /\ word' \in [Slot -> SlotOrNull]
    BY <1>9 DEF Consistent
  <2>2. curp' \in SlotOrNull /\ mode' \in Modes
    BY <1>5, <1>9 DEF SlotOrNull, Modes
  <2>3. prot' \in [Page -> {"rw", "rwx"}]
    BY <1>5 DEF TypeOK
  <2> QED BY <1>7, <1>8, <1>14, <1>19, <2>1, <2>2, <2>3 DEF TypeOK
<1>22. OnChain(1, g)'
  BY <1>12, <1>16, <1>18, <1>20 DEF OnChain
<1>23. Inv'
  BY <1>5, <1>11, <1>21, <1>22 DEF Inv
<1> QED BY <1>2, <1>5, <1>7, <1>9, <1>11, <1>13, <1>14, <1>17, <1>19, <1>22, <1>23

LEMMA BootFailsKeeps ==
  ASSUME TypeOK, BootState, BootFails
  PROVE  Inv'
<1>1. PICK n : n = NewProc.ret
  OBVIOUS
<1>2. PICK name : name = Arg0[mem[BootArgv]]
  OBVIOUS
<1>3. PICK back : back = pool_free(NewProc.pool, word, n)
  OBVIOUS
<1>4. /\ pool' = back.pool /\ word' = back.word /\ mem' = Loaded(name).mem
      /\ mode' = "panic" /\ UNCHANGED <<curp, ctx, prot>>
      /\ \/ /\ execbufp' = execbufp
            /\ proc' = [proc EXCEPT ![n].freemark = NULL]
         \/ /\ Loaded(name).status = "ok" /\ NewStack(name).ret = NULL
            /\ execbufp' = NULL
            /\ proc' = [proc EXCEPT ![n] = Filled(name, n, NULL)]
  BY <1>1, <1>2, <1>3 DEF BootFails, freeup
<1>5. n \in Slot /\ Consistent(pool', word', {})
  <2>1. PICK held : held = {}
    OBVIOUS
  <2>2. Consistent(pool, word, held)
    BY <2>1 DEF BootState
  <2>3. NewProc.ret # NULL
    <3>1. NewProc.ret = NULL => held = Slot
      BY <2>2, ProcTaken
    <3> QED BY <2>1, <3>1, Constants
  <2>4. n \in Slot /\ Consistent(back.pool, back.word, held)
    BY <1>1, <1>3, <2>2, <2>3, TakeAndGiveBack
  <2> QED BY <1>4, <2>1, <2>4
<1>6. NULL \in MemBase .. MemEnd \cup {NULL} /\ NULL \in AddrOrNull
  BY DEF AddrOrNull
<1>7. proc' \in [Slot -> Proc]
  <2>1. CASE proc' = [proc EXCEPT ![n].freemark = NULL]
    <3>1. [proc[n] EXCEPT !.freemark = NULL] \in Proc
      BY <1>5, <1>6 DEF TypeOK, Proc
    <3> QED BY <1>5, <2>1, <3>1 DEF TypeOK
  <2>2. CASE /\ Loaded(name).status = "ok" /\ NewStack(name).ret = NULL
             /\ proc' = [proc EXCEPT ![n] = Filled(name, n, NULL)]
    <3>1. Filled(name, n, NULL) \in Proc
      BY <1>5, <1>6, <2>2, FilledFacts
    <3> QED BY <1>5, <2>2, <3>1 DEF TypeOK
  <2> QED BY <1>4, <2>1, <2>2
<1>8. mem' \in [Addr -> Val]
  BY <1>4, LoadedFacts
<1>9. TypeOK'
  <2>1. pool' \in Pool /\ word' \in [Slot -> SlotOrNull]
    BY <1>5 DEF Consistent
  <2>2. execbufp' \in MemBase .. MemEnd \cup {NULL} /\ mode' \in Modes
    BY <1>4 DEF TypeOK, Modes
  <2> QED BY <1>4, <1>7, <1>8, <2>1, <2>2 DEF TypeOK
<1> QED BY <1>4, <1>9 DEF Inv

(* The steps after which nothing runs any more.                            *)
LEMMA StopsKeep ==
  ASSUME TypeOK, mode' \in {"dead", "halted", "panic"},
         UNCHANGED <<pool, word, execbufp, proc, curp, ctx, mem, prot>>
  PROVE  Inv'
  BY DEF Inv, TypeOK, Modes
-----------------------------------------------------------------------------
(* sys_run, by its outcomes.                                               *)
LEMMA sys_runKeeps ==
  ASSUME TypeOK, mode = "user", NEW d \in 1 .. NSlots, NEW g \in [1 .. d -> Slot],
         OnChain(d, g), sys_run
  PROVE  Inv'
<1>1. PICK a \in {ctx.sp - k : k \in ArgvAt} :
        \/ RunRefused(a) \/ RunNoExe(a) \/ RunNoStack(a) \/ RunFault(a)
        \/ \E c \in {NULL} \cup {ctx.sp - k : k \in CodeAt} : RunOk(a, c)
  BY DEF sys_run
<1>2. /\ a \in StackAt(d, proc[curp])
      /\ \A k \in CodeAt : ctx.sp - k \in StackAt(d, proc[curp])
  <2>1. \A k \in 0 .. StackPages - 1 : ctx.sp - k \in StackAt(d, proc[curp])
    BY Current
  <2>2. ArgvAt \subseteq 0 .. StackPages - 1 /\ CodeAt \subseteq 0 .. StackPages - 1
    BY Constants
  <2> QED BY <2>1, <2>2
<1>3. CASE RunRefused(a)
  BY <1>3, RunRefusedKeeps
<1>4. CASE RunNoExe(a)
  BY <1>4, RunNoExeKeeps
<1>5. CASE RunNoStack(a)
  BY <1>5, RunNoStackKeeps
<1>6. CASE RunFault(a)
  BY <1>6, StopsKeep DEF RunFault
<1>7. ASSUME NEW c \in {NULL} \cup {ctx.sp - k : k \in CodeAt}, RunOk(a, c)
      PROVE  Inv'
  <2>1. c \in {NULL} \cup StackAt(d, proc[curp])
    BY <1>2
  <2>2. PICK n : n = NewProc.ret
    OBVIOUS
  <2>3. PICK e : e = d + 1
    OBVIOUS
  <2>4. PICK h : h = Extended(g, e, n)
    OBVIOUS
  <2> QED BY <1>2, <1>7, <2>1, <2>2, <2>3, <2>4, RunOkKeeps DEF RunOkEffect
<1> QED BY <1>1, <1>3, <1>4, <1>5, <1>6, <1>7

LEMMA Stutters ==
  ASSUME Inv, UNCHANGED vars
  PROVE  Inv'
<1>1. /\ pool' = pool /\ word' = word /\ execbufp' = execbufp /\ proc' = proc
      /\ curp' = curp /\ ctx' = ctx /\ mem' = mem /\ prot' = prot /\ mode' = mode
  BY DEF vars
<1>2. TypeOK'
  BY <1>1 DEF Inv, TypeOK
<1>3. BootState => BootState'
  BY <1>1 DEF BootState
<1>4. ASSUME NEW d \in 1 .. NSlots, NEW g \in [1 .. d -> Slot], OnChain(d, g)
      PROVE  OnChain(d, g)'
  <2>1. Consistent(pool', word', Held(d, g))
    BY <1>1, <1>4 DEF OnChain, Linked
  <2>2. TypeOK
    BY DEF Inv
  <2> QED BY <1>1, <1>4, <2>1, <2>2, SameChain
<1>5. CASE mode = "user"
  <2>1. PICK d \in 1 .. NSlots : \E g \in [1 .. d -> Slot] : OnChain(d, g)
    BY <1>5 DEF Inv
  <2>2. PICK g \in [1 .. d -> Slot] : OnChain(d, g)
    BY <2>1
  <2> QED BY <1>1, <1>2, <1>4, <1>5, <2>2, StaysUser
<1>6. CASE mode # "user"
  BY <1>1, <1>2, <1>3, <1>6 DEF Inv
<1> QED BY <1>5, <1>6

LEMMA InvNext == Inv /\ [Next]_vars => Inv'
<1> SUFFICES ASSUME Inv, [Next]_vars PROVE Inv'
  OBVIOUS
<1>1. TypeOK
  BY DEF Inv
<1>2. CASE mode = "boot"
  <2>1. BootState
    BY <1>2 DEF Inv
  <2>2. CASE BootOk
    <3>1. PICK n : n = NewProc.ret
      OBVIOUS
    <3>2. PICK g : g = [i \in 1 .. 1 |-> n]
      OBVIOUS
    <3> QED BY <1>1, <2>1, <2>2, <3>1, <3>2, BootOkKeeps
  <2>3. CASE BootFails
    BY <1>1, <2>1, <2>3, BootFailsKeeps
  <2>4. CASE BootFault
    BY <1>1, <2>4, StopsKeep DEF BootFault
  <2>5. CASE UNCHANGED vars
    BY <2>5, Stutters
  <2> QED BY <1>2, <2>2, <2>3, <2>4, <2>5
          DEF Next, UserCompute, UserStore, Fault, sys_run, sys_exit, ExitHalts,
              ExitToParent, sys_getargv, sys_read, sys_write, Stopped, AtInt,
              Computes, CanRun
<1>3. CASE mode = "user"
  <2>1. PICK d \in 1 .. NSlots : \E g \in [1 .. d -> Slot] : OnChain(d, g)
    BY <1>3 DEF Inv
  <2>2. PICK g \in [1 .. d -> Slot] : OnChain(d, g)
    BY <2>1
  <2>3. CASE UserCompute
    BY <1>1, <1>3, <2>2, <2>3, UserComputeKeeps
  <2>4. CASE UserStore
    BY <1>1, <1>3, <2>2, <2>4, UserStoreKeeps
  <2>5. CASE Fault
    BY <1>1, <1>3, <2>2, <2>5, FaultKeeps
  <2>6. CASE sys_run
    BY <1>1, <1>3, <2>2, <2>6, sys_runKeeps
  <2>7. CASE ExitHalts
    BY <1>1, <2>7, StopsKeep DEF ExitHalts
  <2>8. CASE ExitToParent
    <3>1. PICK e : e = d - 1
      OBVIOUS
    <3>2. PICK h : h = Shortened(g, e)
      OBVIOUS
    <3> QED BY <1>1, <1>3, <2>2, <2>8, <3>1, <3>2, ExitToParentKeeps DEF ExitEffect
  <2>9. CASE sys_getargv
    BY <1>1, <1>3, <2>2, <2>9, sys_getargvKeeps
  <2>10. CASE sys_read
    BY <1>1, <1>3, <2>2, <2>10, sys_readKeeps
  <2>11. CASE sys_write
    BY <1>1, <1>3, <2>2, <2>11, sys_writeKeeps
  <2>12. CASE UNCHANGED vars
    BY <2>12, Stutters
  <2> QED BY <1>3, <2>3, <2>4, <2>5, <2>6, <2>7, <2>8, <2>9, <2>10, <2>11, <2>12
          DEF Next, BootOk, BootFails, BootFault, sys_exit, Stopped
<1>4. CASE mode \notin {"boot", "user"}
  <2>1. UNCHANGED vars
    BY <1>4 DEF Next, BootOk, BootFails, BootFault, UserCompute, UserStore, Fault,
                sys_run, sys_exit, ExitHalts, ExitToParent, sys_getargv, sys_read,
                sys_write, Stopped, AtInt, Computes, CanRun
  <2> QED BY <2>1, Stutters
<1> QED BY <1>2, <1>3, <1>4

LEMMA AlwaysInv == Spec => []Inv
<1>1. Init => Inv
  BY InitInv
<1>2. Inv /\ [Next]_vars => Inv'
  BY InvNext
<1> QED BY <1>1, <1>2, PTL DEF Spec
-----------------------------------------------------------------------------
(* Every variable keeps its type: in particular execbufp and all process   *)
(* records point into the memory of programs.                              *)
THEOREM KSysTypeCorrect == Spec => []TypeOK
<1>1. Inv => TypeOK
  BY DEF Inv
<1> QED BY <1>1, AlwaysInv, PTL

(* The word shared by "prev" and the free-list link never loses a process  *)
(* and never gives one out twice, whatever programs run, fail and exit.    *)
THEOREM ProcsCorrect == Spec => []ProcsAreChainOrFree
<1>1. Inv => ProcsAreChainOrFree
  <2> SUFFICES ASSUME Inv, mode = "user"
               PROVE  \E d \in 1 .. NSlots : \E g \in [1 .. d -> Used(pool)] :
                        /\ IsChain(d, g)
                        /\ FreeListIs(pool, word, Used(pool) \ {g[i] : i \in 1 .. d})
    BY DEF ProcsAreChainOrFree
  <2>1. PICK d \in 1 .. NSlots : \E g \in [1 .. d -> Slot] : OnChain(d, g)
    BY DEF Inv
  <2>2. PICK g \in [1 .. d -> Slot] : OnChain(d, g)
    BY <2>1
  <2>3. IsChain(d, g) /\ Consistent(pool, word, Held(d, g))
    BY <2>2 DEF OnChain, Linked
  <2>4. /\ Held(d, g) \subseteq Used(pool)
        /\ FreeListIs(pool, word, Used(pool) \ Held(d, g))
    BY <2>3 DEF Consistent
  <2>5. g \in [1 .. d -> Used(pool)]
    BY <2>4 DEF Held
  <2> QED BY <2>3, <2>4, <2>5 DEF Held
<1> QED BY <1>1, AlwaysInv, PTL

(* The programs' memory is a stack without holes or overlaps, and each     *)
(* freemark is the end of the parent's block.                              *)
THEOREM MemoryCorrect == Spec => []MemoryIsAStack
<1>1. Inv => MemoryIsAStack
  <2> SUFFICES ASSUME Inv, mode = "user"
               PROVE  \E d \in 1 .. NSlots : \E g \in [1 .. d -> Used(pool)] :
                 /\ IsChain(d, g)
                 /\ \A i \in 1 .. d :
                      /\ Block(proc[g[i]],
                               IF i = 1 THEN MemBase ELSE proc[g[i]].freemark,
                               IF i = d THEN execbufp ELSE proc[g[i + 1]].freemark)
                      /\ proc[g[i]].freemark = NULL <=> i = 1
    BY DEF MemoryIsAStack
  <2>1. PICK d \in 1 .. NSlots : \E g \in [1 .. d -> Slot] : OnChain(d, g)
    BY DEF Inv
  <2>2. PICK g \in [1 .. d -> Slot] : OnChain(d, g)
    BY <2>1
  <2>3. IsChain(d, g) /\ Consistent(pool, word, Held(d, g))
    BY <2>2 DEF OnChain, Linked
  <2>4. g \in [1 .. d -> Used(pool)]
    BY <2>3 DEF Consistent, Held
  <2>5. ASSUME NEW i \in 1 .. d
        PROVE  /\ Block(proc[g[i]],
                        IF i = 1 THEN MemBase ELSE proc[g[i]].freemark,
                        IF i = d THEN execbufp ELSE proc[g[i + 1]].freemark)
               /\ proc[g[i]].freemark = NULL <=> i = 1
    <3>1. Placed(i, proc[g[i]])
      BY <2>2 DEF OnChain, Blocks
    <3>2. /\ proc[g[i]].load = IF i = 1 THEN MemBase ELSE proc[g[i]].freemark
          /\ proc[g[i]].loadsz > 0 /\ proc[g[i]].stacksz = StackPages
          /\ proc[g[i]].stack = proc[g[i]].load + proc[g[i]].loadsz
          /\ proc[g[i]].freemark = NULL <=> i = 1
      <4>1. /\ proc[g[i]].load \in Page /\ proc[g[i]].loadsz \in Nat \ {0}
            /\ proc[g[i]].stacksz = StackPages
            /\ proc[g[i]].stack = proc[g[i]].load + proc[g[i]].loadsz
            /\ i = 1 => proc[g[i]].freemark = NULL /\ proc[g[i]].load = MemBase
            /\ i # 1 => proc[g[i]].freemark = proc[g[i]].load
        BY <3>1 DEF Placed
      <4>2. \A l \in Page : l # NULL
        BY Constants
      <4> QED BY <4>1, <4>2
    <3>3. (IF i = d THEN execbufp ELSE proc[g[i + 1]].freemark)
            = proc[g[i]].stack + proc[g[i]].stacksz
      <4>1. CASE i = d
        BY <2>2, <2>3, <3>2, <4>1 DEF OnChain, Runs, IsChain
      <4>2. CASE i # d
        <5>1. i \in 1 .. d - 1 /\ i + 1 \in 1 .. d /\ i + 1 # 1
          BY <4>2
        <5>2. proc[g[i + 1]].load = proc[g[i]].stack + StackPages
          BY <2>2, <5>1 DEF OnChain, Blocks
        <5>3. Placed(i + 1, proc[g[i + 1]])
          BY <2>2, <5>1 DEF OnChain, Blocks
        <5>4. proc[g[i + 1]].freemark = proc[g[i + 1]].load
          BY <5>1, <5>3 DEF Placed
        <5> QED BY <3>2, <4>2, <5>2, <5>4
      <4> QED BY <4>1, <4>2
    <3> QED BY <3>2, <3>3 DEF Block
  <2> QED BY <2>3, <2>4, <2>5
<1> QED BY <1>1, AlwaysInv, PTL

(* The running program can execute its text, and the text is the one of    *)
(* the program its argument vector names.                                  *)
THEOREM TextCorrect == Spec => []RunsItsText
<1>1. Inv => RunsItsText
  <2> SUFFICES ASSUME Inv, mode = "user"
               PROVE  /\ ctx.seg = proc[curp].load
                      /\ \A a \in TextOf(proc[curp]) :
                           prot[a] = "rwx" /\ mem[a] = Arg0[mem[proc[curp].argv]]
    BY DEF RunsItsText
  <2>1. PICK d \in 1 .. NSlots : \E g \in [1 .. d -> Slot] : OnChain(d, g)
    BY DEF Inv
  <2>2. PICK g \in [1 .. d -> Slot] : OnChain(d, g)
    BY <2>1
  <2>3. curp = g[d] /\ d \in 1 .. d
    BY <2>2 DEF OnChain, Linked, IsChain
  <2>4. HasText(proc[curp])
    BY <2>2, <2>3 DEF OnChain, Texts
  <2> QED BY <2>2, <2>4 DEF OnChain, Runs, RegsOK, HasText
<1> QED BY <1>1, AlwaysInv, PTL
-----------------------------------------------------------------------------
(* Sequences given by their elements.                                      *)
IsList(n, f) == f = [i \in 1 .. n |-> f[i]]

LEMMA Listed ==
  ASSUME NEW n \in Nat, NEW f, IsList(n, f)
  PROVE  \E S : f \in Seq(S) /\ Len(f) = n
<1> USE DEF IsList
<1>1. PICK S : S = {f[i] : i \in 1 .. n}
  OBVIOUS
<1>2. f \in [1 .. n -> S]
  BY <1>1
<1>3. f \in Seq(S)
  BY <1>2, SeqDef
<1>4. Len(f) \in Nat /\ DOMAIN f = 1 .. Len(f)
  BY <1>3, LenProperties
<1>5. 1 .. Len(f) = 1 .. n
  BY <1>2, <1>4
<1>6. Len(f) = n
  BY <1>4, <1>5
<1> QED BY <1>3, <1>6

LEMMA Pushed ==
  ASSUME NEW n \in Nat, NEW f, IsList(n, f), NEW x,
         NEW m, m = n + 1, NEW h, IsList(m, h),
         \A i \in 1 .. n : h[i] = f[i], h[m] = x
  PROVE  h = Append(f, x) /\ Len(f) = n /\ Len(h) = m
<1>1. PICK S : f \in Seq(S) /\ Len(f) = n
  BY Listed
<1>2. PICK T : h \in Seq(T) /\ Len(h) = m
  <2>1. m \in Nat
    OBVIOUS
  <2> QED BY <2>1, Listed
<1>3. PICK U : U = S \cup T \cup {x}
  OBVIOUS
<1>4. f \in Seq(U) /\ h \in Seq(U) /\ x \in U
  <2>1. S \subseteq U /\ T \subseteq U /\ x \in U
    BY <1>3
  <2>2. f \in Seq(U)
    BY <1>1, <2>1, SeqMonotonic
  <2>3. h \in Seq(U)
    BY <1>2, <2>1, SeqMonotonic
  <2> QED BY <2>1, <2>2, <2>3
<1>5. /\ Append(f, x) \in Seq(U) /\ Len(Append(f, x)) = m
      /\ \A i \in 1 .. m : Append(f, x)[i] = IF i <= n THEN f[i] ELSE x
  BY <1>1, <1>4
<1>6. \A i \in 1 .. m : Append(f, x)[i] = h[i]
  <2> SUFFICES ASSUME NEW i \in 1 .. m PROVE Append(f, x)[i] = h[i]
    OBVIOUS
  <2>1. CASE i \in 1 .. n
    BY <1>5, <2>1
  <2>2. CASE i = m
    BY <1>5, <2>2
  <2>3. i \in 1 .. n \/ i = m
    OBVIOUS
  <2> QED BY <2>1, <2>2, <2>3
<1>7. h = Append(f, x)
  BY <1>2, <1>4, <1>5, <1>6, SeqEqual
<1> QED BY <1>1, <1>2, <1>7

LEMMA Popped ==
  ASSUME NEW n \in Nat \ {0}, NEW f, IsList(n, f),
         NEW m, m = n - 1, NEW h, IsList(m, h), \A i \in 1 .. m : h[i] = f[i]
  PROVE  h = SubSeq(f, 1, Len(f) - 1) /\ Len(f) = n /\ Len(h) = m
<1>1. PICK S : f \in Seq(S) /\ Len(f) = n
  BY Listed
<1>2. m \in Nat /\ m \in Int /\ 1 \in Int /\ \A i \in 1 .. m : f[i] \in S /\ h[i] = f[i]
  BY <1>1, ElementOfSeq
<1>3. PICK t : t = SubSeq(f, 1, m)
  OBVIOUS
<1>4. /\ t \in Seq(S) /\ Len(t) = IF 1 <= m THEN m - 1 + 1 ELSE 0
      /\ \A i \in 1 .. m - 1 + 1 : t[i] = f[1 + i - 1]
  <2>1. \A i \in 1 .. m : f[i] \in S
    BY <1>2
  <2> QED BY <1>2, <1>3, <2>1, SubSeqProperties
<1>5. Len(t) = m
  BY <1>2, <1>4
<1>6. \A i \in 1 .. m : t[i] = f[i]
  <2> SUFFICES ASSUME NEW i \in 1 .. m PROVE t[i] = f[i]
    OBVIOUS
  <2>1. i \in 1 .. m - 1 + 1 /\ 1 + i - 1 = i
    BY <1>2
  <2>2. t[i] = f[1 + i - 1]
    BY <1>4, <2>1
  <2> QED BY <2>1, <2>2
<1>7. h \in Seq(S)
  <2>1. h \in [1 .. m -> S]
    BY <1>2 DEF IsList
  <2> QED BY <1>2, <2>1, SeqDef
<1>8. Len(h) = m
  <2> QED BY <1>2, Listed
<1>9. h = t
  <2>1. \A i \in 1 .. Len(h) : h[i] = t[i]
    BY <1>2, <1>6, <1>8
  <2> QED BY <1>4, <1>5, <1>7, <1>8, <2>1, SeqEqual
<1>10. Len(f) - 1 = m
  BY <1>1
<1> QED BY <1>1, <1>3, <1>8, <1>9, <1>10
-----------------------------------------------------------------------------
(* Frames, as functions of the values they are made of.                    *)
Frame(t, a, f, r, o, st, c, u) ==
  [text |-> t, args |-> a, off |-> f, rax |-> r, oth |-> o, stack |-> st,
   codeAt |-> c, used |-> u]

TextIn(m, p) == [i \in 1 .. p.loadsz |-> m[p.load + i - 1]]
StackIn(m, sp) == [k \in 0 .. StackPages - 1 |-> m[sp - k]]
PlaceIn(pr, w, s) == IF pr[s].code = NULL THEN -1
                     ELSE pr[w[s]].savectx.sp - pr[s].code

FrameIn(pr, w, m, s, c) ==
  Frame(TextIn(m, pr[s]), m[pr[s].argv], c.off, c.rax, c.oth, StackIn(m, c.sp),
        PlaceIn(pr, w, s), pr[s].stack + pr[s].stacksz - MemBase)

LEMMA FrameInUse ==
  ASSUME NEW pr, NEW w, NEW m, NEW s, NEW c, NEW e,
         pr[s].stack \in Int, pr[s].stacksz \in Int, pr[s].stack + pr[s].stacksz = e
  PROVE  FrameIn(pr, w, m, s, c)
           = Frame(TextIn(m, pr[s]), m[pr[s].argv], c.off, c.rax, c.oth,
                   StackIn(m, c.sp), PlaceIn(pr, w, s), e - MemBase)
<1>1. PICK u : u = pr[s].stack + pr[s].stacksz - MemBase
  OBVIOUS
<1>2. u = e - MemBase
  BY <1>1, Constants
<1>3. FrameIn(pr, w, m, s, c)
        = Frame(TextIn(m, pr[s]), m[pr[s].argv], c.off, c.rax, c.oth,
                StackIn(m, c.sp), PlaceIn(pr, w, s), u)
  BY <1>1 DEF FrameIn
<1> QED BY <1>2, <1>3

(* The refinement mapping in these terms.                                  *)
LEMMA Mapped ==
  /\ curp # NULL => Running = FrameIn(proc, word, mem, curp, ctx)
  /\ curp' # NULL => Running' = FrameIn(proc', word', mem', curp', ctx')
  /\ Suspended = [i \in 1 .. Len(chain) - 1 |->
                    FrameIn(proc, word, mem, chain[i], proc[chain[i]].savectx)]
  /\ Suspended' = [i \in 1 .. Len(chain') - 1 |->
                    FrameIn(proc', word', mem', chain'[i], proc'[chain'[i]].savectx)]
  BY DEF Running, Suspended, FrameOf, FrameIn, Frame, TextIn, StackIn, PlaceIn

(* The changes the specification makes to a frame: by computing, to the    *)
(* stack, after a system call, and after exit.                             *)
Computed(x, o, f) == [x EXCEPT !.oth = o, !.off = f, !.rax = 0]
WithStack(x, st) == [x EXCEPT !.stack = st]
Stored(x, k, v) == [x EXCEPT !.stack[k] = v]
Past(x, r) == [x EXCEPT !.off = @ + 2, !.rax = r]
Waiting(x) == [x EXCEPT !.off = @ + 2]
Resumed(x, st) == [x EXCEPT !.rax = 0, !.stack = st]
Exited(x, c, v) == [x EXCEPT !.rax = 0,
                             !.stack = IF c = -1 THEN @ ELSE [@ EXCEPT ![c] = v]]

LEMMA FrameFields ==
  ASSUME NEW t, NEW a, NEW f, NEW r, NEW o, NEW st, NEW c, NEW u,
         NEW x, x = Frame(t, a, f, r, o, st, c, u)
  PROVE  /\ x.text = t /\ x.args = a /\ x.off = f /\ x.rax = r /\ x.oth = o
         /\ x.stack = st /\ x.codeAt = c /\ x.used = u
  BY DEF Frame

LEMMA FrameStack ==
  ASSUME NEW t, NEW a, NEW f, NEW r, NEW o, NEW st, NEW c, NEW u,
         NEW x, x = Frame(t, a, f, r, o, st, c, u), NEW v
  PROVE  WithStack(x, v) = Frame(t, a, f, r, o, v, c, u)
  BY DEF Frame, WithStack

LEMMA FrameStore ==
  ASSUME NEW t, NEW a, NEW f, NEW r, NEW o, NEW st, NEW c, NEW u,
         NEW x, x = Frame(t, a, f, r, o, st, c, u), NEW k, NEW v
  PROVE  Stored(x, k, v) = Frame(t, a, f, r, o, [st EXCEPT ![k] = v], c, u)
<1>1. PICK s : s = [st EXCEPT ![k] = v]
  OBVIOUS
<1>2. x.stack = st
  BY DEF Frame
<1>3. [x EXCEPT !.stack[k] = v] = WithStack(x, s)
  BY <1>1, <1>2 DEF WithStack
<1>4. WithStack(x, s) = Frame(t, a, f, r, o, s, c, u)
  BY FrameStack
<1> QED BY <1>1, <1>3, <1>4 DEF Stored

LEMMA FrameNext ==
  ASSUME NEW t, NEW a, NEW f, NEW r, NEW o, NEW st, NEW c, NEW u,
         NEW x, x = Frame(t, a, f, r, o, st, c, u)
  PROVE  Waiting(x) = Frame(t, a, f + 2, r, o, st, c, u)
  BY DEF Frame, Waiting

LEMMA FrameAfter ==
  ASSUME NEW t, NEW a, NEW f, NEW r, NEW o, NEW st, NEW c, NEW u,
         NEW x, x = Frame(t, a, f, r, o, st, c, u), NEW v
  PROVE  Past(x, v) = Frame(t, a, f + 2, v, o, st, c, u)
<1>1. PICK y : y = Waiting(x)
  OBVIOUS
<1>2. [x EXCEPT !.off = @ + 2, !.rax = v] = [y EXCEPT !.rax = v]
  BY <1>1 DEF Waiting
<1>3. y = Frame(t, a, f + 2, r, o, st, c, u)
  BY <1>1, FrameNext
<1>4. [y EXCEPT !.rax = v] = Frame(t, a, f + 2, v, o, st, c, u)
  BY <1>3 DEF Frame
<1> QED BY <1>2, <1>4 DEF Past

LEMMA FrameCompute ==
  ASSUME NEW t, NEW a, NEW f, NEW r, NEW o, NEW st, NEW c, NEW u,
         NEW x, x = Frame(t, a, f, r, o, st, c, u), NEW v, NEW w
  PROVE  Computed(x, v, w) = Frame(t, a, w, 0, v, st, c, u)
<1>1. PICK x1 : x1 = [x EXCEPT !.oth = v]
  OBVIOUS
<1>2. PICK x2 : x2 = [x1 EXCEPT !.off = w]
  OBVIOUS
<1>3. [x EXCEPT !.oth = v, !.off = w, !.rax = 0] = [x2 EXCEPT !.rax = 0]
  BY <1>1, <1>2
<1>4. x1 = Frame(t, a, f, r, v, st, c, u)
  BY <1>1 DEF Frame
<1>5. x2 = Frame(t, a, w, r, v, st, c, u)
  BY <1>2, <1>4 DEF Frame
<1>6. [x2 EXCEPT !.rax = 0] = Frame(t, a, w, 0, v, st, c, u)
  BY <1>5 DEF Frame
<1> QED BY <1>3, <1>6 DEF Computed

LEMMA FrameResume ==
  ASSUME NEW t, NEW a, NEW f, NEW r, NEW o, NEW st, NEW c, NEW u,
         NEW x, x = Frame(t, a, f, r, o, st, c, u), NEW w
  PROVE  Resumed(x, w) = Frame(t, a, f, 0, o, w, c, u)
<1>1. PICK y : y = [x EXCEPT !.rax = 0]
  OBVIOUS
<1>2. [x EXCEPT !.rax = 0, !.stack = w] = WithStack(y, w)
  BY <1>1 DEF WithStack
<1>3. y = Frame(t, a, f, 0, o, st, c, u)
  BY <1>1 DEF Frame
<1>4. WithStack(y, w) = Frame(t, a, f, 0, o, w, c, u)
  BY <1>3, FrameStack
<1> QED BY <1>2, <1>4 DEF Resumed

LEMMA FrameExited ==
  ASSUME NEW t, NEW a, NEW f, NEW r, NEW o, NEW st, NEW c, NEW u,
         NEW x, x = Frame(t, a, f, r, o, st, c, u), NEW b, NEW v,
         NEW w, w = IF b = -1 THEN st ELSE [st EXCEPT ![b] = v]
  PROVE  Exited(x, b, v) = Frame(t, a, f, 0, o, w, c, u)
<1>1. PICK y : y = [x EXCEPT !.rax = 0]
  OBVIOUS
<1>2. y.stack = st /\ x.stack = st
  BY <1>1 DEF Frame
<1>3. Exited(x, b, v) = WithStack(y, w)
  BY <1>1, <1>2 DEF Exited, WithStack
<1>4. WithStack(y, w) = Resumed(x, w)
  BY <1>1 DEF Resumed, WithStack
<1> QED BY <1>3, <1>4, FrameResume

(* The cells of a stack that ends at page t.                               *)
LEMMA CellsInStack ==
  \A t \in Int : \A k \in 0 .. StackPages - 1 : t - k \in t - StackPages + 1 .. t
  BY Constants

(* A value written to a cell of it.                                        *)
Put(f, k, v) == [f EXCEPT ![k] = v]

LEMMA StackWritten ==
  ASSUME NEW sp, NEW m, NEW m1, NEW k \in 0 .. StackPages - 1, NEW v,
         \A j \in 0 .. StackPages - 1 : m1[sp - j] = IF j = k THEN v ELSE m[sp - j]
  PROVE  StackIn(m1, sp) = Put(StackIn(m, sp), k, v)
  BY DEF StackIn, Put

LEMMA CellWritten ==
  \A sp \in Int : \A j, k \in 0 .. StackPages - 1 : sp - j = sp - k <=> j = k
  BY Constants

(* Where a program of the chain wants its exit code: in its caller's stack.*)
LEMMA CodePlace ==
  ASSUME NEW d \in 1 .. NSlots, NEW g \in [1 .. d -> Slot], OnChain(d, g),
         NEW i \in 1 .. d
  PROVE  /\ proc[g[i]].code = NULL => PlaceIn(proc, word, g[i]) = -1
         /\ proc[g[i]].code # NULL =>
              /\ i # 1 /\ i - 1 \in 1 .. d - 1 /\ word[g[i]] = g[i - 1]
              /\ PlaceIn(proc, word, g[i]) \in 0 .. StackPages - 1
              /\ PlaceIn(proc, word, g[i]) = proc[g[i - 1]].savectx.sp - proc[g[i]].code
              /\ proc[g[i - 1]].savectx.sp \in Int
              /\ proc[g[i]].code \in Addr
<1>1. proc[g[i]].code = NULL => PlaceIn(proc, word, g[i]) = -1
  BY DEF PlaceIn
<1>2. ASSUME proc[g[i]].code # NULL
      PROVE  /\ i # 1 /\ i - 1 \in 1 .. d - 1 /\ word[g[i]] = g[i - 1]
             /\ PlaceIn(proc, word, g[i]) \in 0 .. StackPages - 1
             /\ PlaceIn(proc, word, g[i]) = proc[g[i - 1]].savectx.sp - proc[g[i]].code
             /\ proc[g[i - 1]].savectx.sp \in Int
             /\ proc[g[i]].code \in Addr
  <2>1. ArgsOK(i, proc[g[i]], proc[g[i - 1]])
    BY DEF OnChain, Blocks
  <2>2. i # 1
    BY <1>2, <2>1 DEF ArgsOK
  <2>3. i - 1 \in 1 .. d - 1 /\ i - 1 \in 1 .. d /\ i - 1 \in Nat \ {0}
    BY <2>2
  <2>4. word[g[i]] = g[i - 1]
    BY <2>2 DEF OnChain, Linked, IsChain
  <2>5. proc[g[i]].code \in StackAt(i - 1, proc[g[i - 1]])
    BY <1>2, <2>1, <2>2 DEF ArgsOK
  <2>6. proc[g[i - 1]].savectx.sp = StackTop(i - 1, proc[g[i - 1]])
    BY <2>3 DEF OnChain, Blocks, RegsOK
  <2>7. Placed(i - 1, proc[g[i - 1]])
    BY <2>3 DEF OnChain, Blocks
  <2>8. StackTop(i - 1, proc[g[i - 1]]) \in Int /\ proc[g[i]].code \in Addr
    BY <2>3, <2>5, <2>7, PlacedPages
  <2>9. \A t \in Int : \A c \in t - StackPages + 1 .. t : t - c \in 0 .. StackPages - 1
    BY Constants
  <2>10. PlaceIn(proc, word, g[i]) = proc[g[i - 1]].savectx.sp - proc[g[i]].code
    BY <1>2, <2>4 DEF PlaceIn
  <2> QED BY <2>2, <2>3, <2>4, <2>5, <2>6, <2>8, <2>9, <2>10 DEF StackAt
<1> QED BY <1>1, <1>2

(* What a step leaves of the frames: it writes the stack of program e, or  *)
(* above its block, and keeps the records of the programs up to e.         *)
LEMMA FramesKept ==
  ASSUME NEW d \in 1 .. NSlots, NEW g \in [1 .. d -> Slot], OnChain(d, g),
         NEW e \in 1 .. d,
         \A i \in 1 .. e : word'[g[i]] = word[g[i]] /\ SameRecord(proc[g[i]], proc'[g[i]]),
         \A i \in 1 .. e - 1 : proc'[g[i]].savectx = proc[g[i]].savectx,
         \A a \in Addr : \/ mem'[a] = mem[a]
                         \/ a \in StackAt(e, proc[g[e]])
                         \/ a \in Page /\ a >= proc[g[e]].stack + StackPages
  PROVE  /\ \A i \in 1 .. e - 1 :
              FrameIn(proc', word', mem', g[i], proc'[g[i]].savectx)
                = FrameIn(proc, word, mem, g[i], proc[g[i]].savectx)
         /\ \A c : FrameIn(proc', word', mem', g[e], c)
                     = WithStack(FrameIn(proc, word, mem, g[e], c), StackIn(mem', c.sp))
<1>1. \A i \in 1 .. e : i \in 1 .. d
  OBVIOUS
<1>2. ASSUME NEW i \in 1 .. e
      PROVE  /\ TextIn(mem', proc'[g[i]]) = TextIn(mem, proc[g[i]])
             /\ mem'[proc'[g[i]].argv] = mem[proc[g[i]].argv]
             /\ PlaceIn(proc', word', g[i]) = PlaceIn(proc, word, g[i])
             /\ proc'[g[i]].stack + proc'[g[i]].stacksz - MemBase
                  = proc[g[i]].stack + proc[g[i]].stacksz - MemBase
             /\ i # e => \A a \in StackAt(i, proc[g[i]]) : mem'[a] = mem[a]
  <2>1. SameRecord(proc[g[i]], proc'[g[i]]) /\ word'[g[i]] = word[g[i]]
    OBVIOUS
  <2>2. /\ \A a \in TextOf(proc[g[i]]) : mem'[a] = mem[a]
        /\ mem'[proc[g[i]].argv] = mem[proc[g[i]].argv]
        /\ i # e => \A a \in StackAt(i, proc[g[i]]) : mem'[a] = mem[a]
    BY PagesKept DEF OnChain
  <2>3. TextIn(mem', proc'[g[i]]) = TextIn(mem, proc[g[i]])
    <3>1. Placed(i, proc[g[i]])
      BY <1>1 DEF OnChain, Blocks
    <3>2. proc[g[i]].load \in Int /\ proc[g[i]].loadsz \in Nat
      <4>1. proc[g[i]].load \in Page /\ proc[g[i]].loadsz \in Nat \ {0}
        BY ONLY <3>1 DEF Placed
      <4>2. Page \subseteq Int
        BY Constants
      <4> QED BY ONLY <4>1, <4>2
    <3>3. \A k \in 1 .. proc[g[i]].loadsz : proc[g[i]].load + k - 1 \in TextOf(proc[g[i]])
      BY <3>2 DEF TextOf, Span
    <3>4. \A k \in 1 .. proc[g[i]].loadsz :
            mem'[proc[g[i]].load + k - 1] = mem[proc[g[i]].load + k - 1]
      BY <2>2, <3>3
    <3> QED BY <2>1, <3>4 DEF TextIn, SameRecord
  <2>4. PlaceIn(proc', word', g[i]) = PlaceIn(proc, word, g[i])
    <3>1. CASE proc[g[i]].code = NULL
      BY <2>1, <3>1 DEF PlaceIn, SameRecord
    <3>2. CASE proc[g[i]].code # NULL
      <4>1. i # 1 /\ word[g[i]] = g[i - 1]
        BY <1>1, <3>2, CodePlace
      <4>2. i - 1 \in 1 .. e - 1
        BY <4>1
      <4>3. proc'[g[i - 1]].savectx = proc[g[i - 1]].savectx
        BY <4>2
      <4> QED BY <2>1, <3>2, <4>1, <4>3 DEF PlaceIn, SameRecord
    <3> QED BY <3>1, <3>2
  <2> QED BY <2>1, <2>2, <2>3, <2>4 DEF SameRecord
<1>3. ASSUME NEW i \in 1 .. e - 1
      PROVE  FrameIn(proc', word', mem', g[i], proc'[g[i]].savectx)
               = FrameIn(proc, word, mem, g[i], proc[g[i]].savectx)
  <2>1. i \in 1 .. e /\ i # e /\ i \in 1 .. d - 1 /\ i \in Nat \ {0} /\ i \in 1 .. d
    BY <1>1
  <2>2. PICK c : c = proc[g[i]].savectx
    OBVIOUS
  <2>3. proc'[g[i]].savectx = c
    BY <2>2
  <2>4. c.sp = StackTop(i, proc[g[i]]) /\ Placed(i, proc[g[i]])
    BY <2>1, <2>2 DEF OnChain, Blocks, RegsOK
  <2>5. StackTop(i, proc[g[i]]) \in Int
    BY <2>1, <2>4, PlacedPages
  <2>6. \A k \in 0 .. StackPages - 1 : c.sp - k \in StackAt(i, proc[g[i]])
    BY <2>4, <2>5, CellsInStack DEF StackAt
  <2>7. \A k \in 0 .. StackPages - 1 : mem'[c.sp - k] = mem[c.sp - k]
    BY <1>2, <2>1, <2>6
  <2>8. StackIn(mem', c.sp) = StackIn(mem, c.sp)
    BY <2>7 DEF StackIn
  <2> QED BY <1>2, <2>1, <2>2, <2>3, <2>8 DEF FrameIn
<1>4. ASSUME NEW c
      PROVE  FrameIn(proc', word', mem', g[e], c)
               = WithStack(FrameIn(proc, word, mem, g[e], c), StackIn(mem', c.sp))
  <2>1. e \in 1 .. e
    OBVIOUS
  <2>2. PICK x : x = FrameIn(proc, word, mem, g[e], c)
    OBVIOUS
  <2>3. PICK t : t = TextIn(mem, proc[g[e]])
    OBVIOUS
  <2>4. PICK u : u = proc[g[e]].stack + proc[g[e]].stacksz - MemBase
    OBVIOUS
  <2>5. PICK w : w = PlaceIn(proc, word, g[e])
    OBVIOUS
  <2>6. PICK st : st = StackIn(mem, c.sp)
    OBVIOUS
  <2>7. x = Frame(t, mem[proc[g[e]].argv], c.off, c.rax, c.oth, st, w, u)
    BY <2>2, <2>3, <2>4, <2>5, <2>6 DEF FrameIn
  <2>8. PICK st1 : st1 = StackIn(mem', c.sp)
    OBVIOUS
  <2>9. WithStack(x, st1)
          = Frame(t, mem[proc[g[e]].argv], c.off, c.rax, c.oth, st1, w, u)
    BY <2>7, FrameStack
  <2>10. FrameIn(proc', word', mem', g[e], c)
           = Frame(t, mem[proc[g[e]].argv], c.off, c.rax, c.oth, st1, w, u)
    BY <1>2, <2>1, <2>3, <2>4, <2>5, <2>8 DEF FrameIn
  <2> QED BY <2>2, <2>8, <2>9, <2>10
<1> QED BY <1>3, <1>4
-----------------------------------------------------------------------------
(* The inductive invariant: that of KSys, and the history variable is the  *)
(* chain along "prev".                                                     *)
HInv == /\ Inv
        /\ mode = "boot" => /\ chain = <<>> /\ ctx.rax = 0
                            /\ mem[BootArgv] \in BootVecs
        /\ mode = "user" => /\ Len(chain) \in 1 .. NSlots
                            /\ chain \in Seq(Slot)
                            /\ OnChain(Len(chain), chain)

LEMMA StackTypes ==
  ASSUME NEW i, NEW p, Placed(i, p)
  PROVE  p.stack \in Int /\ p.stacksz \in Int
  BY Constants DEF Placed

(* The frames while the programs of g run and wait.                        *)
LEMMA FramesNow ==
  ASSUME TypeOK, NEW d \in 1 .. NSlots, NEW g \in [1 .. d -> Slot], OnChain(d, g),
         chain = g, Len(g) = d
  PROVE  /\ Running = FrameIn(proc, word, mem, g[d], ctx)
         /\ Running.off = ctx.off /\ Running.used = execbufp - MemBase
         /\ Running.args = mem[proc[curp].argv]
         /\ Running.stack = StackIn(mem, ctx.sp)
         /\ Running.codeAt = PlaceIn(proc, word, curp)
         /\ Running.oth = ctx.oth
         /\ Suspended = [i \in 1 .. d - 1 |->
                           FrameIn(proc, word, mem, g[i], proc[g[i]].savectx)]
         /\ Suspended = [i \in 1 .. d - 1 |-> Suspended[i]]
         /\ Len(Suspended) = d - 1
<1>1. curp = g[d] /\ curp # NULL /\ Placed(d, proc[curp])
  BY Current
<1>2. Running = FrameIn(proc, word, mem, g[d], ctx)
  BY <1>1, Mapped
<1>3. Suspended = [i \in 1 .. d - 1 |->
                     FrameIn(proc, word, mem, g[i], proc[g[i]].savectx)]
  BY Mapped
<1>4. Suspended = [i \in 1 .. d - 1 |-> Suspended[i]]
  BY <1>3
<1>5. Len(Suspended) = d - 1
  <2>1. PICK f : f = Suspended
    OBVIOUS
  <2>2. PICK n \in Nat : n = d - 1
    OBVIOUS
  <2>3. IsList(n, f)
    BY <1>4, <2>1, <2>2 DEF IsList
  <2> QED BY <2>1, <2>2, <2>3, Listed
<1>6. /\ proc[curp].stack + proc[curp].stacksz = execbufp
      /\ proc[curp].stack \in Int /\ proc[curp].stacksz \in Int
  BY <1>1, StackTypes DEF OnChain, Runs, Placed
<1>7. /\ Running.off = ctx.off /\ Running.used = execbufp - MemBase
      /\ Running.args = mem[proc[curp].argv]
      /\ Running.stack = StackIn(mem, ctx.sp)
      /\ Running.codeAt = PlaceIn(proc, word, curp)
      /\ Running.oth = ctx.oth
  <2>1. PICK x : x = Running
    OBVIOUS
  <2>2. x = Frame(TextIn(mem, proc[curp]), mem[proc[curp].argv], ctx.off, ctx.rax,
                  ctx.oth, StackIn(mem, ctx.sp), PlaceIn(proc, word, curp),
                  execbufp - MemBase)
    BY <1>1, <1>2, <1>6, <2>1, FrameInUse
  <2> QED BY <2>1, <2>2 DEF Frame
<1> QED BY <1>2, <1>3, <1>4, <1>5, <1>7

(* A step after which the same programs run and wait.                      *)
LEMMA Steady ==
  ASSUME TypeOK, NEW d \in 1 .. NSlots, NEW g \in [1 .. d -> Slot], OnChain(d, g),
         chain = g, chain' = g, Len(g) = d, curp' = curp,
         \A i \in 1 .. d : word'[g[i]] = word[g[i]] /\ proc'[g[i]] = proc[g[i]],
         \A a \in Addr : \/ mem'[a] = mem[a]
                         \/ a \in StackAt(d, proc[curp])
                         \/ a \in Page /\ a >= execbufp
  PROVE  /\ Suspended' = Suspended
         /\ \E t, a, w, u :
              /\ Running = Frame(t, a, ctx.off, ctx.rax, ctx.oth,
                                 StackIn(mem, ctx.sp), w, u)
              /\ Running' = Frame(t, a, ctx'.off, ctx'.rax, ctx'.oth,
                                  StackIn(mem', ctx'.sp), w, u)
<1>1. curp = g[d] /\ curp # NULL /\ Placed(d, proc[curp])
  BY Current
<1>2. /\ execbufp = proc[curp].stack + StackPages
      /\ proc[curp].stack + proc[curp].stacksz = execbufp
      /\ proc[curp].stack \in Int /\ proc[curp].stacksz \in Int
  BY <1>1, StackTypes DEF OnChain, Runs, Placed
<1>3. /\ \A i \in 1 .. d - 1 :
           FrameIn(proc', word', mem', g[i], proc'[g[i]].savectx)
             = FrameIn(proc, word, mem, g[i], proc[g[i]].savectx)
      /\ \A c : FrameIn(proc', word', mem', g[d], c)
                  = WithStack(FrameIn(proc, word, mem, g[d], c), StackIn(mem', c.sp))
  <2>1. d \in 1 .. d
    OBVIOUS
  <2>2. \A i \in 1 .. d : /\ word'[g[i]] = word[g[i]]
                          /\ SameRecord(proc[g[i]], proc'[g[i]])
    BY DEF SameRecord
  <2>3. \A i \in 1 .. d - 1 : proc'[g[i]].savectx = proc[g[i]].savectx
    OBVIOUS
  <2>4. \A a \in Addr : \/ mem'[a] = mem[a]
                        \/ a \in StackAt(d, proc[g[d]])
                        \/ a \in Page /\ a >= proc[g[d]].stack + StackPages
    BY <1>1, <1>2
  <2> QED BY <2>1, <2>2, <2>3, <2>4, FramesKept
<1>4. Suspended' = Suspended
  BY <1>3, Mapped
<1>5. PICK t : t = TextIn(mem, proc[curp])
  OBVIOUS
<1>6. PICK w : w = PlaceIn(proc, word, curp)
  OBVIOUS
<1>7. Running = Frame(t, mem[proc[curp].argv], ctx.off, ctx.rax, ctx.oth,
                      StackIn(mem, ctx.sp), w, execbufp - MemBase)
  <2>1. Running = FrameIn(proc, word, mem, curp, ctx)
    BY <1>1, Mapped
  <2> QED BY <1>2, <1>5, <1>6, <2>1, FrameInUse
<1>8. Running' = Frame(t, mem[proc[curp].argv], ctx'.off, ctx'.rax, ctx'.oth,
                       StackIn(mem', ctx'.sp), w, execbufp - MemBase)
  <2>1. PICK c : c = ctx'
    OBVIOUS
  <2>2. PICK x : x = FrameIn(proc, word, mem, curp, c)
    OBVIOUS
  <2>3. Running' = WithStack(x, StackIn(mem', c.sp))
    BY <1>1, <1>3, <2>1, <2>2, Mapped
  <2>4. PICK st : st = StackIn(mem, c.sp)
    OBVIOUS
  <2>5. PICK u : u = execbufp - MemBase
    OBVIOUS
  <2>6. x = Frame(t, mem[proc[curp].argv], c.off, c.rax, c.oth, st, w, u)
    BY <1>2, <1>5, <1>6, <2>2, <2>4, <2>5, FrameInUse
  <2>7. PICK st1 : st1 = StackIn(mem', c.sp)
    OBVIOUS
  <2>8. WithStack(x, st1)
          = Frame(t, mem[proc[curp].argv], c.off, c.rax, c.oth, st1, w, u)
    BY <2>6, FrameStack
  <2> QED BY <2>1, <2>3, <2>5, <2>7, <2>8
<1> QED BY <1>4, <1>7, <1>8

LEMMA TopIsInt ==
  ASSUME NEW i \in Nat \ {0}, NEW p, Placed(i, p)
  PROVE  StackTop(i, p) \in Int
  BY PlacedPages

(* The content of the running program's stack.                             *)
LEMMA StackStored ==
  ASSUME TypeOK, NEW d \in 1 .. NSlots, NEW g \in [1 .. d -> Slot], OnChain(d, g)
  PROVE  /\ StackIn(mem, ctx.sp) \in [0 .. StackPages - 1 -> Val]
         /\ \A k \in 0 .. StackPages - 1 : \A v :
              mem' = [mem EXCEPT ![ctx.sp - k] = v]
                => StackIn(mem', ctx.sp) = [StackIn(mem, ctx.sp) EXCEPT ![k] = v]
<1>1. \A k \in 0 .. StackPages - 1 : ctx.sp - k \in Addr
  BY Current
<1>2. mem \in [Addr -> Val]
  BY DEF TypeOK
<1>3. ctx.sp \in Int
  <2>1. Placed(d, proc[curp]) /\ ctx.sp = StackTop(d, proc[curp]) /\ d \in Nat \ {0}
    BY Current
  <2>2. StackTop(d, proc[curp]) \in Int
    BY <2>1, TopIsInt
  <2> QED BY <2>1, <2>2
<1>4. StackIn(mem, ctx.sp) \in [0 .. StackPages - 1 -> Val]
  BY <1>1, <1>2 DEF StackIn
<1>5. ASSUME NEW k \in 0 .. StackPages - 1, NEW v, mem' = [mem EXCEPT ![ctx.sp - k] = v]
      PROVE  StackIn(mem', ctx.sp) = [StackIn(mem, ctx.sp) EXCEPT ![k] = v]
  <2>1. PICK sp \in Int : sp = ctx.sp
    BY <1>3
  <2>2. (\A j \in 0 .. StackPages - 1 : sp - j \in Addr) /\ mem' = [mem EXCEPT ![sp - k] = v]
    BY <1>1, <1>5, <2>1
  <2>3. StackIn(mem', sp) = [StackIn(mem, sp) EXCEPT ![k] = v]
    <3>1. PICK b : b = sp - k
      OBVIOUS
    <3>2. mem' = [mem EXCEPT ![b] = v] /\ b \in Addr
      BY <2>2, <3>1
    <3>3. \A j \in 0 .. StackPages - 1 : sp - j = b <=> j = k
      BY <3>1, CellWritten
    <3>4. \A j \in 0 .. StackPages - 1 : mem'[sp - j] = IF j = k THEN v ELSE mem[sp - j]
      BY <1>2, <2>2, <3>2, <3>3
    <3>5. StackIn(mem', sp) = Put(StackIn(mem, sp), k, v)
      BY <3>4, StackWritten
    <3> QED BY <3>5 DEF Put
  <2> QED BY <2>1, <2>3
<1> QED BY <1>4, <1>5
-----------------------------------------------------------------------------
(* The program's own steps.                                                *)
LEMMA UserComputeMaps ==
  ASSUME TypeOK, mode = "user", NEW d \in 1 .. NSlots, NEW g \in [1 .. d -> Slot],
         OnChain(d, g), chain = g, chain' = g, Len(g) = d, UserCompute
  PROVE  Abstract!ANext
<1>1. PICK o \in Oth, f \in CallSites \cup BadSites :
        ctx' = [ctx EXCEPT !.oth = o, !.off = f, !.rax = 0]
  BY DEF UserCompute
<1>2. /\ UNCHANGED <<pool, word, execbufp, proc, curp, mem, prot, mode>>
      /\ ctx.off \notin CallSites \cup BadSites
  BY DEF UserCompute, Computes
<1>3. ctx'.oth = o /\ ctx'.off = f /\ ctx'.rax = 0 /\ ctx'.sp = ctx.sp
  <2>1. PICK c1 : c1 = [ctx EXCEPT !.oth = o]
    OBVIOUS
  <2>2. PICK c2 : c2 = [c1 EXCEPT !.off = f]
    OBVIOUS
  <2>3. ctx' = [c2 EXCEPT !.rax = 0]
    BY <1>1, <2>1, <2>2
  <2>4. ctx \in Ctx /\ f \in Nat
    BY KSysAssumption DEF TypeOK
  <2>5. c1 \in Ctx /\ c1.oth = o /\ c1.sp = ctx.sp
    BY <2>1, <2>4 DEF Ctx
  <2>6. c2 \in Ctx /\ c2.oth = o /\ c2.sp = ctx.sp /\ c2.off = f
    BY <2>2, <2>4, <2>5 DEF Ctx
  <2> QED BY <2>3, <2>6 DEF Ctx
<1>4. /\ Suspended' = Suspended
      /\ \E t, a, w, u :
           /\ Running = Frame(t, a, ctx.off, ctx.rax, ctx.oth, StackIn(mem, ctx.sp), w, u)
           /\ Running' = Frame(t, a, ctx'.off, ctx'.rax, ctx'.oth,
                               StackIn(mem', ctx'.sp), w, u)
  BY <1>2, Steady
<1>5. Running' = Computed(Running, o, f)
  <2>1. PICK x : x = Running
    OBVIOUS
  <2>2. PICK st : st = StackIn(mem, ctx.sp)
    OBVIOUS
  <2>3. PICK t, a, w, u : /\ x = Frame(t, a, ctx.off, ctx.rax, ctx.oth, st, w, u)
                          /\ Running' = Frame(t, a, f, 0, o, st, w, u)
    BY <1>2, <1>3, <1>4, <2>1, <2>2
  <2>4. Computed(x, o, f) = Frame(t, a, f, 0, o, st, w, u)
    BY <2>3, FrameCompute
  <2> QED BY <2>1, <2>3, <2>4
<1>6. Abstract!ACompute
  BY <1>2, <1>4, <1>5 DEF Abstract!ACompute, Abstract!Become, Computed
<1>7. Running.off \notin CallSites \cup BadSites
  BY <1>2, FramesNow
<1> QED BY <1>6, <1>7 DEF Abstract!ANext

LEMMA UserStoreMaps ==
  ASSUME TypeOK, mode = "user", NEW d \in 1 .. NSlots, NEW g \in [1 .. d -> Slot],
         OnChain(d, g), chain = g, chain' = g, Len(g) = d, UserStore
  PROVE  Abstract!ANext
<1>1. PICK k \in ArgvAt, v \in ArgVec : mem' = [mem EXCEPT ![ctx.sp - k] = v]
  BY DEF UserStore
<1>2. /\ UNCHANGED <<pool, word, execbufp, proc, curp, ctx, prot, mode>>
      /\ ctx.off \notin CallSites \cup BadSites
  BY DEF UserStore, Computes
<1>3. k \in 0 .. StackPages - 1 /\ ctx.sp - k \in StackAt(d, proc[curp])
  <2>1. k \in 0 .. StackPages - 1
    BY Constants
  <2> QED BY <2>1, Current
<1>4. \A a \in Addr : mem'[a] = mem[a] \/ a \in StackAt(d, proc[curp])
  BY <1>1, <1>3 DEF TypeOK
<1>5. /\ Suspended' = Suspended
      /\ \E t, a, w, u :
           /\ Running = Frame(t, a, ctx.off, ctx.rax, ctx.oth, StackIn(mem, ctx.sp), w, u)
           /\ Running' = Frame(t, a, ctx'.off, ctx'.rax, ctx'.oth,
                               StackIn(mem', ctx'.sp), w, u)
  BY <1>2, <1>4, Steady
<1>6. StackIn(mem', ctx.sp) = [StackIn(mem, ctx.sp) EXCEPT ![k] = v]
  BY <1>1, <1>3, StackStored
<1>7. Running' = Stored(Running, k, v)
  <2>1. PICK x : x = Running
    OBVIOUS
  <2>2. PICK st : st = StackIn(mem, ctx.sp)
    OBVIOUS
  <2>3. PICK t, a, w, u :
          /\ x = Frame(t, a, ctx.off, ctx.rax, ctx.oth, st, w, u)
          /\ Running' = Frame(t, a, ctx.off, ctx.rax, ctx.oth, [st EXCEPT ![k] = v], w, u)
    BY <1>2, <1>5, <1>6, <2>1, <2>2
  <2>4. Stored(x, k, v)
          = Frame(t, a, ctx.off, ctx.rax, ctx.oth, [st EXCEPT ![k] = v], w, u)
    BY <2>3, FrameStore
  <2> QED BY <2>1, <2>3, <2>4
<1>8. Abstract!AStore
  BY <1>2, <1>5, <1>7 DEF Abstract!AStore, Abstract!Become, Stored
<1>9. Running.off \notin CallSites \cup BadSites
  BY <1>2, FramesNow
<1> QED BY <1>8, <1>9 DEF Abstract!ANext

(* A signal that is no system call leaves every frame as it is.            *)
LEMMA FaultMaps ==
  ASSUME TypeOK, mode = "user", NEW d \in 1 .. NSlots, NEW g \in [1 .. d -> Slot],
         OnChain(d, g), chain = g, chain' = g, Len(g) = d, Fault
  PROVE  UNCHANGED Abstract!avars
<1>1. UNCHANGED <<word, proc, curp, ctx, mem, mode>>
  BY DEF Fault
<1> QED BY <1>1 DEF Abstract!avars, Running, Suspended, FrameOf
-----------------------------------------------------------------------------
(* A system call that returns r to its caller.                             *)
LEMMA Returned ==
  ASSUME TypeOK, mode = "user", NEW d \in 1 .. NSlots, NEW g \in [1 .. d -> Slot],
         OnChain(d, g), chain = g, chain' = g, Len(g) = d, curp' = curp,
         \A i \in 1 .. d : word'[g[i]] = word[g[i]] /\ proc'[g[i]] = proc[g[i]],
         \A a \in Addr : \/ mem'[a] = mem[a]
                         \/ a \in StackAt(d, proc[curp])
                         \/ a \in Page /\ a >= execbufp,
         NEW r \in Int, Return(Trapped, r), AtInt
  PROVE  /\ mode' = mode /\ Suspended' = Suspended /\ Running.off \in CallSites
         /\ StackIn(mem', ctx.sp) = StackIn(mem, ctx.sp) => Running' = Past(Running, r)
         /\ \A k, v : StackIn(mem', ctx.sp) = [StackIn(mem, ctx.sp) EXCEPT ![k] = v]
              => Running' = Stored(Past(Running, r), k, v)
<1>1. /\ ctx' = [Trapped EXCEPT !.rax = r] /\ mode' = mode
      /\ ctx.off \in CallSites
  BY DEF Return, AtInt
<1>2. ctx'.off = ctx.off + 2 /\ ctx'.rax = r /\ ctx'.oth = ctx.oth /\ ctx'.sp = ctx.sp
  <2>1. ctx \in Ctx
    BY DEF TypeOK
  <2>2. PICK c : c = Trapped
    OBVIOUS
  <2>3. c \in Ctx /\ c.off = ctx.off + 2 /\ c.oth = ctx.oth /\ c.sp = ctx.sp
    BY <2>1, <2>2 DEF Trapped, Ctx
  <2> QED BY <1>1, <2>2, <2>3 DEF Ctx
<1>3. /\ Suspended' = Suspended
      /\ \E t, a, w, u :
           /\ Running = Frame(t, a, ctx.off, ctx.rax, ctx.oth, StackIn(mem, ctx.sp), w, u)
           /\ Running' = Frame(t, a, ctx'.off, ctx'.rax, ctx'.oth,
                               StackIn(mem', ctx'.sp), w, u)
  BY Steady
<1>4. PICK x : x = Running
  OBVIOUS
<1>5. PICK y : y = Past(x, r)
  OBVIOUS
<1>6. PICK st : st = StackIn(mem, ctx.sp)
  OBVIOUS
<1>7. PICK f : f = ctx.off + 2
  OBVIOUS
<1>8. PICK t, a, w, u :
           /\ x = Frame(t, a, ctx.off, ctx.rax, ctx.oth, st, w, u)
           /\ Running' = Frame(t, a, f, r, ctx.oth, StackIn(mem', ctx.sp), w, u)
  BY <1>2, <1>3, <1>4, <1>6, <1>7
<1>9. y = Frame(t, a, f, r, ctx.oth, st, w, u)
  BY <1>5, <1>7, <1>8, FrameAfter
<1>10. StackIn(mem', ctx.sp) = st => Running' = y
  BY <1>8, <1>9
<1>11. \A k, v : StackIn(mem', ctx.sp) = [st EXCEPT ![k] = v]
              => Running' = Stored(y, k, v)
  BY <1>8, <1>9, FrameStore
<1>12. Running.off \in CallSites
  BY <1>1, FramesNow
<1> QED BY <1>1, <1>3, <1>4, <1>5, <1>6, <1>10, <1>11, <1>12

LEMMA Wrote ==
  ASSUME TypeOK, mode = "user", NEW d \in 1 .. NSlots, NEW g \in [1 .. d -> Slot],
         OnChain(d, g), chain = g, chain' = g, Len(g) = d,
         UNCHANGED <<word, proc, curp>>, AtInt, NEW r \in Int, Return(Trapped, r),
         NEW k \in ArgvAt, NEW v, mem' = [mem EXCEPT ![ctx.sp - k] = v]
  PROVE  /\ mode' = mode /\ Suspended' = Suspended /\ Running.off \in CallSites
         /\ Running' = Stored(Past(Running, r), k, v)
<1>1. k \in 0 .. StackPages - 1 /\ ctx.sp - k \in StackAt(d, proc[curp])
  <2>1. k \in 0 .. StackPages - 1
    BY Constants
  <2> QED BY <2>1, Current
<1>2. \A a \in Addr : mem'[a] = mem[a] \/ a \in StackAt(d, proc[curp])
  BY <1>1 DEF TypeOK
<1>3. StackIn(mem', ctx.sp) = [StackIn(mem, ctx.sp) EXCEPT ![k] = v]
  BY <1>1, StackStored
<1>4. curp' = curp /\ \A i \in 1 .. d : word'[g[i]] = word[g[i]] /\ proc'[g[i]] = proc[g[i]]
  OBVIOUS
<1> QED BY <1>2, <1>3, <1>4, Returned

LEMMA StackUntouched ==
  ASSUME TypeOK, NEW d \in 1 .. NSlots, NEW g \in [1 .. d -> Slot], OnChain(d, g),
         \A a \in Addr : mem'[a] = mem[a] \/ (a \in Page /\ a >= execbufp)
  PROVE  StackIn(mem', ctx.sp) = StackIn(mem, ctx.sp)
<1>1. \A k \in 0 .. StackPages - 1 : mem'[ctx.sp - k] = mem[ctx.sp - k]
  <2>1. /\ Placed(d, proc[curp]) /\ d \in Nat \ {0}
        /\ execbufp = proc[curp].stack + StackPages
    <3>1. Placed(d, proc[curp]) /\ d \in Nat \ {0}
      BY Current
    <3> QED BY <3>1 DEF OnChain, Runs, Placed
  <2>2. \A a \in StackAt(d, proc[curp]) : ~(a \in Page /\ a >= execbufp)
    <3>1. PICK x : x = proc[curp].stack
      OBVIOUS
    <3>2. x \in Int /\ \A a \in Page : a \in Int
      BY <2>1, <3>1, StackTypes, Constants
    <3>3. execbufp = x + StackPages /\ StackPages \in Int
      BY <2>1, <3>1, Constants
    <3>4. \A a \in StackAt(d, proc[curp]) : a < x + StackPages \/ a \notin Page
      BY <2>1, <3>1, PlacedPages
    <3> QED BY <3>2, <3>3, <3>4
  <2>3. \A k \in 0 .. StackPages - 1 :
          ctx.sp - k \in StackAt(d, proc[curp]) /\ ctx.sp - k \in Addr
    BY Current
  <2> QED BY <2>2, <2>3
<1> QED BY <1>1 DEF StackIn

LEMMA WroteNothing ==
  ASSUME TypeOK, mode = "user", NEW d \in 1 .. NSlots, NEW g \in [1 .. d -> Slot],
         OnChain(d, g), chain = g, chain' = g, Len(g) = d, curp' = curp,
         \A i \in 1 .. d : word'[g[i]] = word[g[i]] /\ proc'[g[i]] = proc[g[i]],
         \A a \in Addr : mem'[a] = mem[a] \/ (a \in Page /\ a >= execbufp),
         AtInt, NEW r \in Int, Return(Trapped, r)
  PROVE  /\ mode' = mode /\ Suspended' = Suspended /\ Running.off \in CallSites
         /\ Running' = Past(Running, r)
<1>1. StackIn(mem', ctx.sp) = StackIn(mem, ctx.sp)
  BY StackUntouched
<1>2. \A a \in Addr : \/ mem'[a] = mem[a]
                      \/ a \in StackAt(d, proc[curp])
                      \/ a \in Page /\ a >= execbufp
  OBVIOUS
<1> QED BY <1>1, <1>2, Returned

LEMMA sys_getargvMaps ==
  ASSUME TypeOK, mode = "user", NEW d \in 1 .. NSlots, NEW g \in [1 .. d -> Slot],
         OnChain(d, g), chain = g, chain' = g, Len(g) = d, sys_getargv
  PROVE  Abstract!ANext
<1>1. UNCHANGED <<word, proc, curp>> /\ AtInt
  BY DEF sys_getargv
<1>2. PICK k \in ArgvAt :
        IF mem[proc[curp].argv] \in TooBig
        THEN mem' = [mem EXCEPT ![ctx.sp - k] = Junk] /\ Return(Trapped, -1)
        ELSE /\ mem' = [mem EXCEPT ![ctx.sp - k] = mem[proc[curp].argv]]
             /\ Return(Trapped, 1)
  BY DEF sys_getargv
<1>3. Running.args = mem[proc[curp].argv]
  BY FramesNow
<1>4. /\ mode' = mode /\ Suspended' = Suspended /\ Running.off \in CallSites
      /\ Running' = IF Running.args \in TooBig
                    THEN Stored(Past(Running, -1), k, Junk)
                    ELSE Stored(Past(Running, 1), k, Running.args)
  <2>1. CASE mem[proc[curp].argv] \in TooBig
    <3>1. mem' = [mem EXCEPT ![ctx.sp - k] = Junk] /\ Return(Trapped, -1) /\ -1 \in Int
      BY <1>2, <2>1
    <3>2. /\ mode' = mode /\ Suspended' = Suspended /\ Running.off \in CallSites
          /\ Running' = Stored(Past(Running, -1), k, Junk)
      BY <1>1, <3>1, Wrote
    <3> QED BY <1>3, <2>1, <3>2
  <2>2. CASE mem[proc[curp].argv] \notin TooBig
    <3>1. PICK v : v = mem[proc[curp].argv]
      OBVIOUS
    <3>2. mem' = [mem EXCEPT ![ctx.sp - k] = v] /\ Return(Trapped, 1) /\ 1 \in Int
      BY <1>2, <2>2, <3>1
    <3>3. /\ mode' = mode /\ Suspended' = Suspended /\ Running.off \in CallSites
          /\ Running' = Stored(Past(Running, 1), k, v)
      BY <1>1, <3>2, Wrote
    <3> QED BY <1>3, <2>2, <3>1, <3>3
  <2> QED BY <2>1, <2>2
<1>5. Abstract!AGetargv
  BY <1>4 DEF Abstract!AGetargv, Abstract!Become, Abstract!After, Stored, Past
<1> QED BY <1>4, <1>5 DEF Abstract!ANext

LEMMA sys_readMaps ==
  ASSUME TypeOK, mode = "user", NEW d \in 1 .. NSlots, NEW g \in [1 .. d -> Slot],
         OnChain(d, g), chain = g, chain' = g, Len(g) = d, sys_read
  PROVE  Abstract!ANext
<1>1. UNCHANGED <<word, proc, curp, execbufp>> /\ AtInt
  BY DEF sys_read
<1>2. PICK k \in ArgvAt, r \in {-1, 0, 1} :
        /\ mem' = IF r = 1 THEN [mem EXCEPT ![ctx.sp - k] = Junk] ELSE mem
        /\ Return(Trapped, r)
  BY DEF sys_read
<1>3. r \in Int
  OBVIOUS
<1>4. PICK v : v = IF r = 1 THEN Junk ELSE mem[ctx.sp - k]
  OBVIOUS
<1>5. mem' = [mem EXCEPT ![ctx.sp - k] = v]
  BY <1>2, <1>4 DEF TypeOK
<1>6. /\ mode' = mode /\ Suspended' = Suspended /\ Running.off \in CallSites
      /\ Running' = Stored(Past(Running, r), k, v)
  BY <1>1, <1>2, <1>3, <1>5, Wrote
<1>7. PICK y : y = Past(Running, r)
  OBVIOUS
<1>8. y.stack[k] = mem[ctx.sp - k]
  <2>1. PICK x : x = Running
    OBVIOUS
  <2>2. PICK t, a, f, rr, o, w, u :
          x = Frame(t, a, f, rr, o, StackIn(mem, ctx.sp), w, u)
    BY <2>1, FramesNow DEF FrameIn
  <2>3. PICK st : st = StackIn(mem, ctx.sp)
    OBVIOUS
  <2>4. y = Frame(t, a, f + 2, r, o, st, w, u)
    BY <1>7, <2>1, <2>2, <2>3, FrameAfter
  <2>5. k \in 0 .. StackPages - 1
    BY Constants
  <2> QED BY <2>3, <2>4, <2>5 DEF Frame, StackIn
<1>9. Stored(y, k, v) = [y EXCEPT !.stack[k] = IF r = 1 THEN Junk ELSE @]
  BY <1>4, <1>8 DEF Stored
<1>10. Running' = [Past(Running, r) EXCEPT !.stack[k] = IF r = 1 THEN Junk ELSE @]
  BY <1>6, <1>7, <1>9
<1>11. Abstract!ARead
  BY <1>6, <1>10 DEF Abstract!ARead, Abstract!Become, Abstract!After, Past
<1> QED BY <1>6, <1>11 DEF Abstract!ANext

LEMMA sys_writeMaps ==
  ASSUME TypeOK, mode = "user", NEW d \in 1 .. NSlots, NEW g \in [1 .. d -> Slot],
         OnChain(d, g), chain = g, chain' = g, Len(g) = d, sys_write
  PROVE  Abstract!ANext
<1>1. UNCHANGED <<word, proc, curp, mem>> /\ AtInt /\ Return(Trapped, 0) /\ 0 \in Int
  BY DEF sys_write
<1>2. /\ mode' = mode /\ Suspended' = Suspended /\ Running.off \in CallSites
      /\ Running' = Past(Running, 0)
  <2>1. curp' = curp /\ \A i \in 1 .. d : word'[g[i]] = word[g[i]] /\ proc'[g[i]] = proc[g[i]]
    BY <1>1
  <2>2. \A a \in Addr : mem'[a] = mem[a] \/ (a \in Page /\ a >= execbufp)
    BY <1>1
  <2> QED BY <1>1, <2>1, <2>2, WroteNothing
<1>3. Abstract!AWrite
  BY <1>2 DEF Abstract!AWrite, Abstract!Become, Abstract!After, Past
<1> QED BY <1>2, <1>3 DEF Abstract!ANext
-----------------------------------------------------------------------------
(* run(): why it fails.                                                    *)
LEMMA FullChain ==
  ASSUME NEW d \in 1 .. NSlots, NEW g \in [1 .. d -> Slot], Held(d, g) = Slot
  PROVE  d = NSlots
<1> SUFFICES ASSUME d # NSlots PROVE FALSE
  OBVIOUS
<1>1. PICK f : f = [s \in Slot |-> CHOOSE i \in 1 .. d : g[i] = s]
  OBVIOUS
<1>2. \A s \in Slot : f[s] \in 1 .. d /\ g[f[s]] = s
  <2> SUFFICES ASSUME NEW s \in Slot PROVE f[s] \in 1 .. d /\ g[f[s]] = s
    OBVIOUS
  <2>1. \E i \in 1 .. d : g[i] = s
    BY DEF Held
  <2> QED BY <1>1, <2>1
<1>3. f \in [Slot -> 1 .. d]
  BY <1>1, <1>2
<1>4. IsFiniteSet(Slot) /\ Cardinality(Slot) = NSlots
  BY FS_Interval, NSlotsAssumption DEF Slot
<1>5. IsFiniteSet(1 .. d) /\ Cardinality(1 .. d) = d
  BY FS_Interval, NSlotsAssumption
<1>6. d < NSlots
  BY NSlotsAssumption
<1>7. \E x, y \in Slot : x # y /\ f[x] = f[y]
  BY <1>3, <1>4, <1>5, <1>6, FS_PigeonHole
<1> QED BY <1>2, <1>7

LEMMA DepthAtRun ==
  ASSUME NEW d \in 1 .. NSlots, NEW g \in [1 .. d -> Slot], OnChain(d, g)
  PROVE  IF NewProc.ret = NULL THEN d = NSlots ELSE d < NSlots
<1>1. Consistent(pool, word, Held(d, g))
  BY DEF OnChain, Linked
<1>2. CASE NewProc.ret = NULL
  <2>1. Held(d, g) = Slot
    BY <1>1, <1>2, ProcTaken
  <2> QED BY <1>2, <2>1, FullChain
<1>3. CASE NewProc.ret # NULL
  <2>1. PICK n : n = NewProc.ret
    OBVIOUS
  <2>2. n \in Slot \ Held(d, g)
    BY <1>1, <1>3, <2>1, ProcTaken
  <2>3. \A i \in 1 .. d : g[i] # n
    BY <2>2 DEF Held
  <2>4. \A i, j \in 1 .. d : g[i] = g[j] => i = j
    BY DEF OnChain, Linked, IsChain
  <2>5. d + 1 <= NSlots
    BY <2>2, <2>3, <2>4, RoomForOneMore
  <2> QED BY <1>3, <2>5, NSlotsAssumption
<1> QED BY <1>2, <1>3

LEMMA MemoryAtRun ==
  ASSUME NEW bp \in MemBase .. MemEnd, bp = allocinit(execbufp), NEW name,
         NEW u, u = bp - MemBase
  PROVE  /\ Loaded(name).status = "noexe" => name \notin Prog
         /\ Loaded(name).status = "fault" =>
              name \in Prog /\ ~ Abstract!Fits(u, Pages[name])
         /\ Loaded(name).status = "ok" =>
              /\ name \in Prog
              /\ NewStack(name).ret = NULL =>
                   ~ Abstract!Fits(u, Pages[name] + StackPages)
              /\ NewStack(name).ret # NULL =>
                   Abstract!Fits(u, Pages[name] + StackPages)
<1>1. PICK L : L = Loaded(name)
  OBVIOUS
<1>2. PICK b : b = alloc(bp, Pages[name])
  OBVIOUS
<1>3. CASE name \notin Prog
  <2>1. L.status = "noexe"
    BY <1>1, <1>3 DEF Loaded, load
  <2> QED BY <1>1, <1>3, <2>1
<1>4. CASE name \in Prog
  <2>1. PICK m \in Nat \ {0} : m = Pages[name]
    BY <1>4, Constants
  <2>2. bp \in Int /\ bp # NULL /\ bp >= 1 /\ allocinit(bp) = bp
    <3>1. bp \in Int /\ bp # NULL /\ bp >= 1
      BY Constants
    <3> QED BY <3>1 DEF allocinit
  <2>3. b = IF MemEnd - bp < m THEN [ret |-> NULL, bp |-> bp]
                               ELSE [ret |-> bp, bp |-> bp + m]
    BY <1>2, <2>1, <2>2 DEF alloc
  <2>4. L = IF b.ret = NULL
            THEN [status |-> "fault", loadp |-> NULL, bp |-> b.bp, mem |-> mem]
            ELSE [status |-> "ok", loadp |-> b.ret, bp |-> b.bp,
                  mem |-> [a \in Addr |-> IF a \in Span(b.ret, Pages[name])
                                          THEN name ELSE mem[a]]]
    BY <1>1, <1>2, <1>4 DEF Loaded, load
  <2>5. CASE MemEnd - bp < m
    <3>1. b.ret = NULL
      BY <2>3, <2>5
    <3>2. L.status = "fault"
      BY <2>4, <3>1
    <3>3. ~ u + m <= MemPages
      BY <2>1, <2>2, <2>5, Constants
    <3> QED BY <1>1, <1>4, <2>1, <3>2, <3>3 DEF Abstract!Fits
  <2>6. CASE ~ MemEnd - bp < m
    <3>1. b.ret = bp /\ b.bp = bp + m
      BY <2>3, <2>6
    <3>2. L.status = "ok" /\ L.bp = bp + m
      BY <2>2, <2>4, <3>1
    <3>3. PICK q : q = bp + m
      OBVIOUS
    <3>4. q \in Int /\ q # NULL /\ allocinit(q) = q
      BY <2>1, <2>2, <3>3, Constants DEF allocinit
    <3>5. NewStack(name) = IF MemEnd - q < StackPages
                           THEN [ret |-> NULL, bp |-> q]
                           ELSE [ret |-> q, bp |-> q + StackPages]
      BY <1>1, <3>2, <3>3, <3>4 DEF NewStack, alloc
    <3>6. NewStack(name).ret = NULL <=> MemEnd - q < StackPages
      BY <3>4, <3>5
    <3>7. MemEnd - q < StackPages <=> ~ u + (m + StackPages) <= MemPages
      <4>1. /\ q = bp + m /\ u = bp - 1 /\ MemEnd = MemPages + 1
            /\ bp \in Int /\ m \in Int /\ MemPages \in Int /\ StackPages \in Int
        BY <2>1, <2>2, <3>3, Constants
      <4> QED BY <4>1
    <3> QED BY <1>1, <1>4, <2>1, <3>2, <3>6, <3>7 DEF Abstract!Fits
  <2> QED BY <2>5, <2>6
<1> QED BY <1>3, <1>4

(* The argument vector of the call, on the stack of the caller.            *)
LEMMA ArgvAtRun ==
  ASSUME TypeOK, NEW d \in 1 .. NSlots, NEW g \in [1 .. d -> Slot], OnChain(d, g),
         chain = g, Len(g) = d, NEW k \in ArgvAt, NEW a, a = ctx.sp - k, mem[a] \in Vec
  PROVE  /\ Running.stack[k] = mem[a] /\ mem[a] \in Abstract!Vec
         /\ Running.used = execbufp - MemBase /\ Abstract!Depth = d
<1>1. k \in 0 .. StackPages - 1
  BY Constants
<1>2. Running.stack = StackIn(mem, ctx.sp)
  BY FramesNow
<1>3. Running.stack[k] = mem[a]
  BY <1>1, <1>2 DEF StackIn
<1>4. Abstract!Depth = d
  <2>1. Len(Suspended) = d - 1
    BY FramesNow
  <2> QED BY <2>1 DEF Abstract!Depth
<1>5. Running.used = execbufp - MemBase
  BY FramesNow
<1> QED BY <1>3, <1>4, <1>5 DEF Abstract!Vec, Vec

LEMMA RunFailsMaps ==
  ASSUME TypeOK, mode = "user", NEW d \in 1 .. NSlots, NEW g \in [1 .. d -> Slot],
         OnChain(d, g), chain = g, chain' = g, Len(g) = d, curp' = curp,
         \A i \in 1 .. d : word'[g[i]] = word[g[i]] /\ proc'[g[i]] = proc[g[i]],
         \A b \in Addr : mem'[b] = mem[b] \/ (b \in Page /\ b >= execbufp),
         AtInt, Return(Trapped, -1),
         NEW k \in ArgvAt, NEW a, a = ctx.sp - k, mem[a] \in Vec,
         \/ Arg0[mem[a]] \notin Prog
         \/ d = NSlots
         \/ ~ Abstract!Fits(execbufp - MemBase, Pages[Arg0[mem[a]]] + StackPages)
  PROVE  Abstract!ANext
<1>1. -1 \in Int
  OBVIOUS
<1>2. /\ mode' = mode /\ Suspended' = Suspended /\ Running.off \in CallSites
      /\ Running' = Past(Running, -1)
  BY <1>1, WroteNothing
<1>3. /\ Running.stack[k] = mem[a] /\ mem[a] \in Abstract!Vec
      /\ Running.used = execbufp - MemBase /\ Abstract!Depth = d
  BY ArgvAtRun
<1>4. Abstract!Become(Abstract!After(-1))
  BY <1>2 DEF Abstract!Become, Abstract!After, Past
<1>5. Abstract!ARunFails(Arg0[mem[a]])
  BY <1>3, <1>4 DEF Abstract!ARunFails
<1>6. Abstract!ACallRun
  BY <1>3, <1>5 DEF Abstract!ACallRun
<1> QED BY <1>2, <1>6 DEF Abstract!ANext

LEMMA RunRefusedMaps ==
  ASSUME TypeOK, mode = "user", NEW d \in 1 .. NSlots, NEW g \in [1 .. d -> Slot],
         OnChain(d, g), chain = g, chain' = g, Len(g) = d, AtInt,
         NEW k \in ArgvAt, NEW a, a = ctx.sp - k, mem[a] \in Vec, RunRefused(a)
  PROVE  Abstract!ANext
<1>1. /\ UNCHANGED <<word, proc, curp, mem>> /\ Return(Trapped, -1)
      /\ Arg0[mem[a]] = NoArg \/ NewProc.ret = NULL
  BY DEF RunRefused
<1>2. Arg0[mem[a]] \notin Prog \/ d = NSlots
  <2>1. NoArg \notin Prog
    BY KSysAssumption
  <2>2. NewProc.ret = NULL => d = NSlots
    BY DepthAtRun
  <2> QED BY <1>1, <2>1, <2>2
<1>3. curp' = curp /\ \A i \in 1 .. d : word'[g[i]] = word[g[i]] /\ proc'[g[i]] = proc[g[i]]
  BY <1>1
<1>4. \A b \in Addr : mem'[b] = mem[b] \/ (b \in Page /\ b >= execbufp)
  BY <1>1
<1> QED BY <1>1, <1>2, <1>3, <1>4, RunFailsMaps

(* A process that run() gives back leaves the chain alone.                 *)
LEMMA GivenBack ==
  ASSUME TypeOK, NEW d \in 1 .. NSlots, NEW g \in [1 .. d -> Slot], OnChain(d, g),
         NewProc.ret # NULL, NEW n, n = NewProc.ret,
         NEW back, back = pool_free(NewProc.pool, word, n), word' = back.word,
         NEW p, proc' = [proc EXCEPT ![n] = p]
  PROVE  \A i \in 1 .. d : word'[g[i]] = word[g[i]] /\ proc'[g[i]] = proc[g[i]]
<1>1. Consistent(pool, word, Held(d, g))
  BY DEF OnChain, Linked
<1>2. /\ n \in Slot /\ n \notin Held(d, g)
      /\ \A s \in Slot : s # n => back.word[s] = word[s]
  BY <1>1, TakeAndGiveBack
<1>3. \A i \in 1 .. d : g[i] \in Slot /\ g[i] # n
  BY <1>2 DEF Held
<1> QED BY <1>2, <1>3 DEF TypeOK

LEMMA RunNoExeMaps ==
  ASSUME TypeOK, mode = "user", NEW d \in 1 .. NSlots, NEW g \in [1 .. d -> Slot],
         OnChain(d, g), chain = g, chain' = g, Len(g) = d, AtInt,
         NEW k \in ArgvAt, NEW a, a = ctx.sp - k, mem[a] \in Vec, RunNoExe(a)
  PROVE  Abstract!ANext
<1>1. PICK n : n = NewProc.ret
  OBVIOUS
<1>2. PICK back : back = pool_free(NewProc.pool, word, n)
  OBVIOUS
<1>3. PICK p : p = [proc[n] EXCEPT !.freemark = freemark(execbufp)]
  OBVIOUS
<1>4. /\ NewProc.ret # NULL /\ word' = back.word
      /\ proc' = [proc EXCEPT ![n].freemark = freemark(execbufp)]
      /\ curp' = curp /\ mem' = mem /\ Return(Trapped, -1)
      /\ Loaded(Arg0[mem[a]]).status = "noexe"
  BY <1>1, <1>2 DEF RunNoExe, RunNamed
<1>5. proc' = [proc EXCEPT ![n] = p]
  BY <1>3, <1>4
<1>6. \A i \in 1 .. d : word'[g[i]] = word[g[i]] /\ proc'[g[i]] = proc[g[i]]
  <2>1. NewProc.ret # NULL /\ word' = back.word
    BY <1>4
  <2> QED BY <1>1, <1>2, <1>5, <2>1, GivenBack
<1>7. Arg0[mem[a]] \notin Prog
  <2>1. execbufp \in MemBase .. MemEnd /\ execbufp = allocinit(execbufp)
    BY Current
  <2> QED BY <1>4, <2>1, MemoryAtRun
<1>8. \A b \in Addr : mem'[b] = mem[b] \/ (b \in Page /\ b >= execbufp)
  BY <1>4
<1> QED BY <1>4, <1>6, <1>7, <1>8, RunFailsMaps

LEMMA RunNoStackMaps ==
  ASSUME TypeOK, mode = "user", NEW d \in 1 .. NSlots, NEW g \in [1 .. d -> Slot],
         OnChain(d, g), chain = g, chain' = g, Len(g) = d, AtInt,
         NEW k \in ArgvAt, NEW a, a = ctx.sp - k, mem[a] \in Vec, RunNoStack(a)
  PROVE  Abstract!ANext
<1>1. PICK n : n = NewProc.ret
  OBVIOUS
<1>2. PICK back : back = pool_free(NewProc.pool, word, n)
  OBVIOUS
<1>3. PICK name : name = Arg0[mem[a]]
  OBVIOUS
<1>4. PICK p : p = Filled(name, n, freemark(execbufp))
  OBVIOUS
<1>5. /\ NewProc.ret # NULL /\ word' = back.word
      /\ proc' = [proc EXCEPT ![n] = p]
      /\ curp' = curp /\ mem' = Loaded(name).mem /\ Return(Trapped, -1)
      /\ Loaded(name).status = "ok" /\ NewStack(name).ret = NULL
  BY <1>1, <1>2, <1>3, <1>4 DEF RunNoStack, RunNamed
<1>6. \A i \in 1 .. d : word'[g[i]] = word[g[i]] /\ proc'[g[i]] = proc[g[i]]
  BY <1>1, <1>2, <1>5, GivenBack
<1>7. execbufp \in MemBase .. MemEnd /\ execbufp = allocinit(execbufp)
  BY Current
<1>8. ~ Abstract!Fits(execbufp - MemBase, Pages[name] + StackPages)
  BY <1>5, <1>7, MemoryAtRun
<1>9. \A b \in Addr : mem'[b] = mem[b] \/ (b \in Page /\ b >= execbufp)
  BY <1>5, <1>7, LoadedFacts
<1> QED BY <1>3, <1>5, <1>6, <1>8, <1>9, RunFailsMaps

LEMMA RunFaultMaps ==
  ASSUME TypeOK, mode = "user", NEW d \in 1 .. NSlots, NEW g \in [1 .. d -> Slot],
         OnChain(d, g), chain = g, chain' = g, Len(g) = d, AtInt,
         NEW k \in ArgvAt, NEW a, a = ctx.sp - k, mem[a] \in Vec, RunFault(a)
  PROVE  Abstract!ANext
<1>1. PICK name : name = Arg0[mem[a]]
  OBVIOUS
<1>2. /\ NewProc.ret # NULL /\ Loaded(name).status = "fault" /\ mode' = "dead"
      /\ UNCHANGED <<pool, word, execbufp, proc, curp, ctx, mem, prot>>
  BY <1>1 DEF RunFault, RunNamed
<1>3. Running' = Running /\ Suspended' = Suspended
  BY <1>2 DEF Running, Suspended, FrameOf
<1>4. d < NSlots
  BY <1>2, DepthAtRun
<1>5. name \in Prog /\ ~ Abstract!Fits(execbufp - MemBase, Pages[name])
  <2>1. execbufp \in MemBase .. MemEnd /\ execbufp = allocinit(execbufp)
    BY Current
  <2> QED BY <1>2, <2>1, MemoryAtRun
<1>6. /\ Running.stack[k] = mem[a] /\ mem[a] \in Abstract!Vec
      /\ Running.used = execbufp - MemBase /\ Abstract!Depth = d
  BY ArgvAtRun
<1>7. Abstract!ARunDies(name)
  BY <1>2, <1>3, <1>4, <1>5, <1>6 DEF Abstract!ARunDies
<1>8. Abstract!ACallRun
  BY <1>1, <1>6, <1>7 DEF Abstract!ACallRun
<1>9. Running.off \in CallSites
  <2>1. Running.off = ctx.off
    BY FramesNow
  <2> QED BY <2>1 DEF AtInt
<1> QED BY <1>8, <1>9 DEF Abstract!ANext
-----------------------------------------------------------------------------
(* run(): the child starts.                                                *)
LEMMA TrappedCtx ==
  TypeOK => /\ Trapped.off = ctx.off + 2 /\ Trapped.oth = ctx.oth
            /\ Trapped.sp = ctx.sp /\ Trapped.rax = ctx.rax
  BY DEF TypeOK, Trapped, Ctx

(* Its caller is pushed, with the registers it has after the call.         *)
LEMMA CallerWaits ==
  ASSUME TypeOK, NEW d \in 1 .. NSlots, NEW g \in [1 .. d -> Slot],
         OnChain(d, g), chain = g, Len(g) = d,
         NEW h, chain' = h, Len(h) = d + 1, \A i \in 1 .. d : h[i] = g[i],
         \A i \in 1 .. d : word'[g[i]] = word[g[i]] /\ SameRecord(proc[g[i]], proc'[g[i]]),
         \A i \in 1 .. d - 1 : proc'[g[i]].savectx = proc[g[i]].savectx,
         proc'[curp].savectx = Trapped,
         \A b \in Addr : mem'[b] = mem[b] \/ (b \in Page /\ b >= execbufp)
  PROVE  Suspended' = Append(Suspended, Waiting(Running)) /\ Len(Suspended') = d
<1>1. curp = g[d] /\ execbufp = proc[curp].stack + StackPages /\ d \in 1 .. d
  BY Current DEF OnChain, Runs
<1>2. Trapped.off = ctx.off + 2 /\ Trapped.oth = ctx.oth /\ Trapped.sp = ctx.sp
      /\ Trapped.rax = ctx.rax
  BY TrappedCtx
<1>3. /\ Suspended = [i \in 1 .. d - 1 |-> Suspended[i]] /\ Len(Suspended) = d - 1
      /\ Running = FrameIn(proc, word, mem, g[d], ctx)
      /\ Suspended = [i \in 1 .. d - 1 |->
                        FrameIn(proc, word, mem, g[i], proc[g[i]].savectx)]
      /\ Running.oth = ctx.oth /\ Running.off = ctx.off
  BY FramesNow
<1>4. Suspended' = [i \in 1 .. d |->
                      FrameIn(proc', word', mem', h[i], proc'[h[i]].savectx)]
  <2>1. Len(chain') - 1 = d
    OBVIOUS
  <2> QED BY <2>1, Mapped
<1>5. \A i \in 1 .. d : h[i] = g[i]
  OBVIOUS
<1>6. /\ \A i \in 1 .. d - 1 :
           FrameIn(proc', word', mem', g[i], proc'[g[i]].savectx)
             = FrameIn(proc, word, mem, g[i], proc[g[i]].savectx)
      /\ \A r : FrameIn(proc', word', mem', g[d], r)
                  = WithStack(FrameIn(proc, word, mem, g[d], r), StackIn(mem', r.sp))
  <2>1. \A b \in Addr : \/ mem'[b] = mem[b]
                        \/ b \in StackAt(d, proc[g[d]])
                        \/ b \in Page /\ b >= proc[g[d]].stack + StackPages
    BY <1>1
  <2>2. d \in 1 .. d
    BY <1>1
  <2>3. \A i \in 1 .. d : /\ word'[g[i]] = word[g[i]]
                          /\ SameRecord(proc[g[i]], proc'[g[i]])
    OBVIOUS
  <2>4. \A i \in 1 .. d - 1 : proc'[g[i]].savectx = proc[g[i]].savectx
    OBVIOUS
  <2> QED BY <2>1, <2>2, <2>3, <2>4, FramesKept
<1>7. PICK x : x = Waiting(Running)
  OBVIOUS
<1>8. FrameIn(proc', word', mem', g[d], Trapped) = x
  <2>1. PICK st : st = StackIn(mem, ctx.sp)
    OBVIOUS
  <2>2. StackIn(mem', Trapped.sp) = st
    BY <1>2, <2>1, StackUntouched
  <2>3. PICK y : y = Running
    OBVIOUS
  <2>4. PICK t : t = TextIn(mem, proc[curp])
    OBVIOUS
  <2>5. PICK w : w = PlaceIn(proc, word, curp)
    OBVIOUS
  <2>6. PICK u : u = proc[curp].stack + proc[curp].stacksz - MemBase
    OBVIOUS
  <2>7. y = Frame(t, mem[proc[curp].argv], ctx.off, ctx.rax, ctx.oth, st, w, u)
    BY <1>1, <1>3, <2>1, <2>3, <2>4, <2>5, <2>6 DEF FrameIn
  <2>8. x = Frame(t, mem[proc[curp].argv], ctx.off + 2, ctx.rax, ctx.oth, st, w, u)
    BY <1>7, <2>3, <2>7, FrameNext
  <2>9. PICK z : z = FrameIn(proc, word, mem, g[d], Trapped)
    OBVIOUS
  <2>10. z = Frame(t, mem[proc[curp].argv], ctx.off + 2, ctx.rax, ctx.oth, st, w, u)
    BY <1>1, <1>2, <2>1, <2>4, <2>5, <2>6, <2>9 DEF FrameIn
  <2>11. WithStack(z, st) = z
    BY <2>10, FrameStack
  <2>12. FrameIn(proc', word', mem', g[d], Trapped) = WithStack(z, st)
    BY <1>6, <2>2, <2>9
  <2> QED BY <2>8, <2>10, <2>11, <2>12
<1>9. Suspended' = Append(Suspended, x) /\ Len(Suspended') = d
  <2>1. PICK f : f = Suspended
    OBVIOUS
  <2>2. PICK f1 : f1 = Suspended'
    OBVIOUS
  <2>3. PICK m \in Nat : m = d - 1
    OBVIOUS
  <2>4. f = [i \in 1 .. m |-> f[i]] /\ d = m + 1
    BY <1>3, <2>1, <2>3
  <2>5. f1 = [i \in 1 .. d |-> f1[i]]
    BY <1>4, <2>2
  <2>6. \A i \in 1 .. m : f1[i] = f[i]
    <3> SUFFICES ASSUME NEW i \in 1 .. m PROVE f1[i] = f[i]
      OBVIOUS
    <3>1. i \in 1 .. d - 1 /\ i \in 1 .. d
      BY <2>3
    <3> QED BY <1>3, <1>4, <1>5, <1>6, <2>1, <2>2, <3>1
  <2>7. f1[d] = x
    BY <1>1, <1>4, <1>5, <1>8, <2>2
  <2>8. f1 = Append(f, x) /\ Len(f1) = d
    <3>1. PICK l : l = m + 1
      OBVIOUS
    <3>2. l = d
      BY <2>4, <3>1
    <3>3. IsList(m, f) /\ IsList(l, f1) /\ f1[l] = x
      BY <2>4, <2>5, <2>7, <3>2 DEF IsList
    <3>4. f1 = Append(f, x) /\ Len(f1) = l
      BY <2>3, <2>6, <3>1, <3>3, Pushed
    <3> QED BY <3>2, <3>4
  <2> QED BY <2>1, <2>2, <2>8
<1> QED BY <1>7, <1>9

LEMMA RunOkMaps ==
  ASSUME TypeOK, mode = "user", NEW d \in 1 .. NSlots, NEW g \in [1 .. d -> Slot],
         OnChain(d, g), chain = g, Len(g) = d, AtInt,
         NEW k \in ArgvAt, NEW a, a = ctx.sp - k, mem[a] \in Vec,
         NEW c, c = NULL \/ \E j \in CodeAt : c = ctx.sp - j, RunOk(a, c),
         NEW n, n = NewProc.ret, NEW e, e = d + 1,
         NEW h, h = Extended(g, e, n),
         chain' = h, Len(h) = e
  PROVE  Abstract!ANext
<1>1. PICK name : name = Arg0[mem[a]]
  OBVIOUS
<1>2. /\ curp = g[d] /\ curp \in Slot /\ curp # NULL /\ Placed(d, proc[curp])
      /\ execbufp \in MemBase .. MemEnd /\ allocinit(execbufp) = execbufp
      /\ execbufp = proc[curp].stack + StackPages /\ d \in 1 .. d
  BY Current DEF OnChain, Runs
<1>3. /\ ctx.sp \in Int /\ a \in StackAt(d, proc[curp])
      /\ c \in {NULL} \cup StackAt(d, proc[curp])
  <2>1. StackTop(d, proc[curp]) \in Int /\ ctx.sp = StackTop(d, proc[curp])
    BY Current, PlacedPages
  <2>2. /\ k \in 0 .. StackPages - 1 /\ \A j \in CodeAt : j \in 0 .. StackPages - 1
        /\ \A j \in 0 .. StackPages - 1 : ctx.sp - j \in StackAt(d, proc[curp])
    BY Constants, Current
  <2> QED BY <2>1, <2>2
<1>4. /\ Inv' /\ OnChain(e, h)' /\ mode' = mode
      /\ n \in Slot /\ n # curp /\ curp' = n
      /\ word' = [word EXCEPT ![n] = curp]
      /\ \A i \in 1 .. d : SameRecord(proc[g[i]], proc'[g[i]])
      /\ \A i \in 1 .. d - 1 : proc'[g[i]].savectx = proc[g[i]].savectx
      /\ proc'[curp].savectx = Trapped
      /\ \A b \in Addr : mem'[b] = mem[b] \/ (b \in Page /\ b >= execbufp)
      /\ mem'[a] = mem[a]
      /\ proc'[n].load = execbufp /\ proc'[n].loadsz = Pages[name]
      /\ \A b \in Span(execbufp, Pages[name]) : mem'[b] = name
      /\ proc'[n].argv = a /\ proc'[n].code = c
      /\ execbufp' = execbufp + Pages[name] + StackPages
      /\ ctx'.off = Entry /\ ctx'.rax = 0 /\ ctx'.oth = ctx.oth
      /\ \A i \in 1 .. d : g[i] # n
  <2>1. RunOkEffect(d, g, a, c, n, e, h)
    BY <1>3, RunOkKeeps
  <2>2. \A i \in 1 .. d : g[i] # n
    BY <2>1 DEF Held, RunOkEffect
  <2> QED BY <1>1, <2>1, <2>2 DEF RunOkEffect
<1>5. /\ Loaded(name).status = "ok" /\ NewStack(name).ret # NULL
      /\ NewProc.ret # NULL
  BY <1>1 DEF RunOk, RunNamed
<1>6. /\ name \in Prog /\ d < NSlots /\ Pages[name] \in Nat \ {0}
      /\ Abstract!Fits(execbufp - MemBase, Pages[name] + StackPages)
  <2>1. d < NSlots
    BY <1>5, DepthAtRun
  <2> QED BY <1>2, <1>5, <2>1, MemoryAtRun, Constants
<1>7. Trapped.sp = ctx.sp
  BY TrappedCtx
<1>8. Running.oth = ctx.oth /\ Running.off = ctx.off
  BY FramesNow
(* The caller's frame.                                                     *)
<1>9. Suspended' = Append(Suspended, Waiting(Running)) /\ Len(Suspended') = d
  <2>1. \A i \in 1 .. d : h[i] = g[i]
    BY DEF Extended
  <2>2. \A i \in 1 .. d : word'[g[i]] = word[g[i]]
    BY <1>4 DEF TypeOK
  <2>3. \A i \in 1 .. d : word'[g[i]] = word[g[i]] /\ SameRecord(proc[g[i]], proc'[g[i]])
    BY <1>4, <2>2
  <2>4. /\ \A i \in 1 .. d - 1 : proc'[g[i]].savectx = proc[g[i]].savectx
        /\ proc'[curp].savectx = Trapped
        /\ \A b \in Addr : mem'[b] = mem[b] \/ (b \in Page /\ b >= execbufp)
    BY <1>4
  <2>5. Len(h) = d + 1
    OBVIOUS
  <2> QED BY ONLY TypeOK, d \in 1 .. NSlots, g \in [1 .. d -> Slot], OnChain(d, g),
                  chain = g, Len(g) = d, chain' = h,
                  <2>1, <2>3, <2>4, <2>5, CallerWaits
(* The child's frame.                                                      *)
<1>10. PICK q : q = IF c = NULL THEN -1 ELSE ctx.sp - c
  OBVIOUS
<1>11. q \in {-1} \cup CodeAt /\ PlaceIn(proc', word', n) = q
  <2>1. word'[n] = curp
    BY <1>4 DEF TypeOK
  <2>2. c # NULL => \E j \in CodeAt : c = ctx.sp - j /\ j \in Int
    BY Constants
  <2>3. c # NULL => q \in CodeAt
    BY <1>3, <1>10, <2>2
  <2> QED BY <1>4, <1>7, <1>10, <2>1, <2>3 DEF PlaceIn
<1>12. PICK s : s = StackIn(mem', ctx'.sp)
  OBVIOUS
<1>13. Placed(e, proc'[n]) /\ ctx'.sp = StackTop(e, proc'[n])
       /\ execbufp' = proc'[n].stack + StackPages /\ e \in Nat \ {0}
  <2>1. h[e] = n /\ e \in 1 .. e
    BY DEF Extended
  <2> QED BY <1>4, <2>1 DEF OnChain, Blocks, Runs, RegsOK
<1>14. s \in Abstract!Cells
  <2>1. StackTop(e, proc'[n]) \in Int /\ StackAt(e, proc'[n]) \subseteq Addr
    BY <1>13, PlacedPages
  <2>2. \A i \in 0 .. StackPages - 1 : ctx'.sp - i \in Addr
    BY <1>13, <2>1, CellsInStack DEF StackAt
  <2>3. mem' \in [Addr -> Val]
    BY <1>4 DEF Inv, TypeOK
  <2>4. s \in [0 .. StackPages - 1 -> Val]
    BY <1>12, <2>2, <2>3 DEF StackIn
  <2> QED BY <2>4 DEF Abstract!Cells, Abstract!Val, Abstract!Vec, Val, Vec
<1>15. TextIn(mem', proc'[n]) = [i \in 1 .. Pages[name] |-> name]
  <2>1. \A i \in 1 .. Pages[name] : execbufp + i - 1 \in Span(execbufp, Pages[name])
    <3>1. PICK b, m : b = execbufp /\ m = Pages[name]
      OBVIOUS
    <3>2. b \in Int /\ m \in Nat
      BY <1>2, <1>6, <3>1, Constants
    <3>3. \A i \in 1 .. m : b + i - 1 \in b .. b + m - 1
      BY <3>2
    <3> QED BY <3>1, <3>3 DEF Span
  <2> QED BY <1>4, <2>1 DEF TextIn
<1>16. Running' = Frame([i \in 1 .. Pages[name] |-> name], mem[a], Entry, 0, ctx.oth,
                        s, q, execbufp' - MemBase)
  <2>1. Running' = FrameIn(proc', word', mem', n, ctx')
    <3>1. n # NULL
      BY <1>4, Constants
    <3> QED BY <1>4, <3>1, Mapped
  <2>2. /\ proc'[n].stack \in Int /\ proc'[n].stacksz \in Int
        /\ proc'[n].stack + proc'[n].stacksz = execbufp'
    BY <1>13, StackTypes DEF Placed
  <2>3. Running' = Frame(TextIn(mem', proc'[n]), mem'[proc'[n].argv], ctx'.off, ctx'.rax,
                         ctx'.oth, StackIn(mem', ctx'.sp), PlaceIn(proc', word', n),
                         execbufp' - MemBase)
    BY <2>1, <2>2, FrameInUse
  <2> QED BY <1>4, <1>11, <1>12, <1>15, <2>3
<1>17. execbufp' - MemBase = Running.used + Pages[name] + StackPages
  <2>1. Running.used = execbufp - MemBase
    BY FramesNow
  <2>2. StackPages \in Nat /\ MemBase \in Nat /\ execbufp \in Int
    BY <1>2, Constants
  <2>3. execbufp' = execbufp + Pages[name] + StackPages /\ Pages[name] \in Nat
    BY <1>4, <1>6
  <2> QED BY ONLY <2>1, <2>2, <2>3
<1>18. Abstract!IsNew(Running', name, mem[a], Running.oth, q, Running.used)
  <2>1. Running'.stack = s
    BY <1>16 DEF Frame
  <2> QED BY <1>8, <1>14, <1>16, <1>17, <2>1 DEF Abstract!IsNew, Frame
<1>19. /\ Running.stack[k] = mem[a] /\ mem[a] \in Abstract!Vec
       /\ Running.used = execbufp - MemBase /\ Abstract!Depth = d
  BY ArgvAtRun
<1>20. Abstract!ARun(mem[a], q)
  <2>1. Abstract!Depth' = d + 1
    BY <1>9 DEF Abstract!Depth
  <2>2. Suspended' = Append(Suspended, [Running EXCEPT !.off = @ + 2])
    BY <1>9 DEF Waiting
  <2> QED BY <1>1, <1>4, <1>6, <1>18, <1>19, <2>1, <2>2 DEF Abstract!ARun
<1>21. Abstract!ACallRun
  BY <1>11, <1>19, <1>20 DEF Abstract!ACallRun
<1> QED BY <1>8, <1>21 DEF Abstract!ANext, AtInt
-----------------------------------------------------------------------------
(* exit(): the machine stops, or the parent goes on.                       *)
LEMMA ExitHaltsMaps ==
  ASSUME TypeOK, mode = "user", NEW d \in 1 .. NSlots, NEW g \in [1 .. d -> Slot],
         OnChain(d, g), chain = g, chain' = g, Len(g) = d, ExitHalts
  PROVE  Abstract!ANext
<1>1. /\ ctx.off \in CallSites /\ word[curp] = NULL /\ mode' = "halted"
      /\ UNCHANGED <<pool, word, execbufp, proc, curp, ctx, mem, prot>>
  BY DEF ExitHalts, AtInt
<1>2. Running' = Running /\ Suspended' = Suspended
  <2>1. UNCHANGED <<word, proc, curp, ctx, mem>> /\ chain' = chain
    BY <1>1
  <2> QED BY ONLY <2>1 DEF Running, Suspended, FrameOf
<1>3. d = 1
  <2>1. d # 1 => word[curp] = g[d - 1] /\ g[d - 1] \in Slot
    BY DEF OnChain, Linked, IsChain
  <2> QED BY <1>1, <2>1, Constants
<1>4. Abstract!Depth = 1 /\ Running.off \in CallSites
  <2>1. Len(Suspended) = d - 1 /\ Running.off = ctx.off
    BY FramesNow
  <2> QED BY <1>1, <1>3, <2>1 DEF Abstract!Depth
<1>5. Abstract!AHalt
  BY <1>1, <1>2, <1>4 DEF Abstract!AHalt
<1> QED BY <1>4, <1>5 DEF Abstract!ANext

LEMMA ExitToParentMaps ==
  ASSUME TypeOK, mode = "user", NEW d \in 1 .. NSlots, NEW g \in [1 .. d -> Slot],
         OnChain(d, g), chain = g, Len(g) = d, ExitToParent,
         NEW e, e = d - 1, NEW h, h = Shortened(g, e),
         chain' = h, Len(h) = e
  PROVE  Abstract!ANext
<1>1. PICK v \in Codes :
        mem' = IF proc[curp].code # NULL THEN [mem EXCEPT ![proc[curp].code] = v] ELSE mem
  BY DEF ExitToParent
<1>2. /\ d # 1 /\ mode' = mode /\ e \in 1 .. NSlots /\ word[curp] = g[e]
      /\ curp' = g[e] /\ proc' = proc
      /\ \A i \in 1 .. e : word'[g[i]] = word[g[i]]
      /\ \A a \in Addr : mem'[a] = mem[a] \/ a \in StackAt(e, proc[g[e]])
      /\ ctx'.off = proc[g[e]].savectx.off /\ ctx'.rax = 0
      /\ ctx'.oth = proc[g[e]].savectx.oth /\ ctx'.sp = proc[g[e]].savectx.sp
  <2>1. ExitEffect(d, g, e, h)
    BY ExitToParentKeeps
  <2> QED BY <2>1 DEF ExitEffect
<1>3. /\ e \in 1 .. d /\ e \in 1 .. d - 1 /\ d \in 1 .. d /\ e \in Nat \ {0}
      /\ curp = g[d] /\ g[e] \in Slot /\ g[e] # NULL
  <2>1. curp = g[d] /\ \A i \in 1 .. d : g[i] \in Slot
    BY Current
  <2>2. e \in 1 .. d /\ e \in 1 .. d - 1 /\ d \in 1 .. d /\ e \in Nat \ {0}
    BY <1>2
  <2> QED BY <2>1, <2>2, Constants
<1>4. /\ Suspended = [i \in 1 .. d - 1 |-> Suspended[i]] /\ Len(Suspended) = d - 1
      /\ Suspended = [i \in 1 .. d - 1 |->
                        FrameIn(proc, word, mem, g[i], proc[g[i]].savectx)]
      /\ Running.codeAt = PlaceIn(proc, word, curp) /\ Running.off = ctx.off
  BY FramesNow
<1>5. /\ \A i \in 1 .. e - 1 :
           FrameIn(proc', word', mem', g[i], proc'[g[i]].savectx)
             = FrameIn(proc, word, mem, g[i], proc[g[i]].savectx)
      /\ \A r : FrameIn(proc', word', mem', g[e], r)
                  = WithStack(FrameIn(proc, word, mem, g[e], r), StackIn(mem', r.sp))
  <2>1. \A i \in 1 .. e : word'[g[i]] = word[g[i]] /\ SameRecord(proc[g[i]], proc'[g[i]])
    BY <1>2 DEF SameRecord
  <2>2. \A i \in 1 .. e - 1 : proc'[g[i]].savectx = proc[g[i]].savectx
    BY <1>2
  <2>3. \A a \in Addr : \/ mem'[a] = mem[a]
                        \/ a \in StackAt(e, proc[g[e]])
                        \/ a \in Page /\ a >= proc[g[e]].stack + StackPages
    BY <1>2
  <2>4. e \in 1 .. d
    BY <1>3
  <2> QED BY <2>1, <2>2, <2>3, <2>4, FramesKept
(* The frames of those that still wait.                                    *)
<1>6. Suspended' = [i \in 1 .. e - 1 |->
                      FrameIn(proc', word', mem', h[i], proc'[h[i]].savectx)]
  <2>1. Len(chain') - 1 = e - 1
    OBVIOUS
  <2> QED BY <2>1, Mapped
<1>7. Suspended' = SubSeq(Suspended, 1, Len(Suspended) - 1) /\ Len(Suspended') = e - 1
  <2>1. PICK f : f = Suspended
    OBVIOUS
  <2>2. PICK f1 : f1 = Suspended'
    OBVIOUS
  <2>3. PICK m : m = e - 1
    OBVIOUS
  <2>4. IsList(e, f) /\ IsList(m, f1)
    BY <1>4, <1>6, <2>1, <2>2, <2>3 DEF IsList
  <2>5. \A i \in 1 .. m : f1[i] = f[i]
    <3> SUFFICES ASSUME NEW i \in 1 .. m PROVE f1[i] = f[i]
      OBVIOUS
    <3>1. i \in 1 .. e - 1 /\ i \in 1 .. d - 1 /\ i \in 1 .. e
      BY <1>3, <2>3
    <3>2. h[i] = g[i]
      BY <3>1 DEF Shortened
    <3> QED BY <1>4, <1>5, <1>6, <2>1, <2>2, <3>1, <3>2
  <2>6. f1 = SubSeq(f, 1, Len(f) - 1) /\ Len(f1) = m
    BY <1>3, <2>3, <2>4, <2>5, Popped
  <2> QED BY <2>1, <2>2, <2>3, <2>6
(* The parent's frame.                                                     *)
<1>8. PICK c : c = proc[g[e]].savectx
  OBVIOUS
<1>9. PICK st : st = StackIn(mem, c.sp)
  OBVIOUS
<1>10. PICK st1 : st1 = StackIn(mem', c.sp)
  OBVIOUS
<1>11. PICK q : q = Running.codeAt
  OBVIOUS
<1>12. st1 = IF q = -1 THEN st ELSE [st EXCEPT ![q] = v]
  <2>1. /\ proc[curp].code = NULL => q = -1
        /\ proc[curp].code # NULL =>
             /\ q \in 0 .. StackPages - 1 /\ q = c.sp - proc[curp].code
             /\ c.sp \in Int /\ proc[curp].code \in Addr
    <3>1. q = PlaceIn(proc, word, g[d]) /\ c = proc[g[d - 1]].savectx
      BY <1>3, <1>4, <1>8, <1>11
    <3>2. /\ proc[g[d]].code = NULL => PlaceIn(proc, word, g[d]) = -1
          /\ proc[g[d]].code # NULL =>
               /\ PlaceIn(proc, word, g[d]) \in 0 .. StackPages - 1
               /\ PlaceIn(proc, word, g[d])
                    = proc[g[d - 1]].savectx.sp - proc[g[d]].code
               /\ proc[g[d - 1]].savectx.sp \in Int
               /\ proc[g[d]].code \in Addr
      BY <1>3, CodePlace
    <3> QED BY <1>3, <3>1, <3>2
  <2>2. CASE proc[curp].code = NULL
    BY <1>1, <1>9, <1>10, <2>1, <2>2
  <2>3. CASE proc[curp].code # NULL
    <3>1. PICK sp \in Int : sp = c.sp
      BY <2>1, <2>3
    <3>2. proc[curp].code = sp - q /\ q # -1
      <4>1. /\ q \in 0 .. StackPages - 1 /\ q = sp - proc[curp].code
            /\ proc[curp].code \in Addr
        BY <2>1, <2>3, <3>1
      <4>2. proc[curp].code \in Int /\ q \in Nat
        BY <4>1, Constants
      <4> QED BY <4>1, <4>2
    <3>3. PICK b : b = sp - q
      OBVIOUS
    <3>4. mem' = [mem EXCEPT ![b] = v]
      BY <1>1, <2>3, <3>2, <3>3
    <3>5. \A j \in 0 .. StackPages - 1 : sp - j \in Addr
      <4>1. Placed(e, proc[g[e]]) /\ sp = StackTop(e, proc[g[e]])
        BY <1>3, <1>8, <3>1 DEF OnChain, Blocks, RegsOK
      <4>2. StackAt(e, proc[g[e]]) \subseteq Addr
        BY <1>3, <4>1, PlacedPages
      <4> QED BY <4>1, <4>2, CellsInStack DEF StackAt
    <3>6. StackIn(mem', sp) = [StackIn(mem, sp) EXCEPT ![q] = v]
      <4>1. q \in 0 .. StackPages - 1 /\ mem \in [Addr -> Val]
        BY <2>1, <2>3 DEF TypeOK
      <4>2. \A j \in 0 .. StackPages - 1 : sp - j = b <=> j = q
        BY <3>3, <4>1, CellWritten
      <4>3. \A j \in 0 .. StackPages - 1 : mem'[sp - j] = IF j = q THEN v ELSE mem[sp - j]
        BY <3>4, <3>5, <4>1, <4>2
      <4>4. StackIn(mem', sp) = Put(StackIn(mem, sp), q, v)
        BY <4>1, <4>3, StackWritten
      <4> QED BY <4>4 DEF Put
    <3> QED BY <1>9, <1>10, <3>1, <3>2, <3>6
  <2> QED BY <2>2, <2>3
<1>13. PICK p : p = Suspended[Len(Suspended)]
  OBVIOUS
<1>14. p = FrameIn(proc, word, mem, g[e], c)
  BY <1>3, <1>4, <1>8, <1>13
<1>15. PICK t : t = TextIn(mem, proc[g[e]])
  OBVIOUS
<1>16. PICK w : w = PlaceIn(proc, word, g[e])
  OBVIOUS
<1>17. PICK u : u = proc[g[e]].stack + proc[g[e]].stacksz - MemBase
  OBVIOUS
<1>18. p = Frame(t, mem[proc[g[e]].argv], c.off, c.rax, c.oth, st, w, u)
  BY <1>9, <1>14, <1>15, <1>16, <1>17 DEF FrameIn
<1>19. Exited(p, q, v) = Frame(t, mem[proc[g[e]].argv], c.off, 0, c.oth, st1, w, u)
  BY <1>12, <1>18, FrameExited
<1>20. Running' = Frame(t, mem[proc[g[e]].argv], c.off, 0, c.oth, st1, w, u)
  <2>1. PICK r : r = ctx'
    OBVIOUS
  <2>2. r.off = c.off /\ r.rax = 0 /\ r.oth = c.oth /\ r.sp = c.sp
    BY <1>2, <1>8, <2>1
  <2>3. PICK z : z = FrameIn(proc, word, mem, g[e], r)
    OBVIOUS
  <2>4. z = Frame(t, mem[proc[g[e]].argv], c.off, 0, c.oth, st, w, u)
    BY <1>9, <1>15, <1>16, <1>17, <2>2, <2>3 DEF FrameIn
  <2>5. WithStack(z, st1)
          = Frame(t, mem[proc[g[e]].argv], c.off, 0, c.oth, st1, w, u)
    BY <2>4, FrameStack
  <2>6. Running' = FrameIn(proc', word', mem', g[e], r)
    BY <1>2, <1>3, <2>1, Mapped
  <2>7. FrameIn(proc', word', mem', g[e], r) = WithStack(z, StackIn(mem', r.sp))
    BY <1>5, <2>3
  <2>8. StackIn(mem', r.sp) = st1
    BY <1>10, <2>2
  <2> QED BY ONLY <2>5, <2>6, <2>7, <2>8
<1>21. Running' = Exited(p, Running.codeAt, v)
  BY <1>11, <1>19, <1>20
<1>22. Abstract!AExit
  <2>1. Abstract!Depth > 1 /\ Abstract!Depth' = Abstract!Depth - 1
    <3>1. Len(Suspended) = e /\ Len(Suspended') = e - 1
      BY <1>4, <1>7
    <3> QED BY <1>3, <3>1 DEF Abstract!Depth
  <2> QED BY <1>2, <1>7, <1>13, <1>21, <2>1 DEF Abstract!AExit, Exited
<1> QED BY <1>4, <1>22 DEF Abstract!ANext, ExitToParent, AtInt
-----------------------------------------------------------------------------
(* Boot.                                                                   *)
LEMMA NobodyWaits ==
  ASSUME NEW m \in Int, m < 1, NEW f, f = [i \in 1 .. m |-> f[i]]
  PROVE  f = <<>>
<1>1. IsList(0, f)
  <2>1. 1 .. m = 1 .. 0
    OBVIOUS
  <2> QED BY <2>1 DEF IsList
<1>2. PICK S : f \in Seq(S) /\ Len(f) = 0
  BY <1>1, Listed
<1> QED BY <1>2, EmptySeq

LEMMA NoneSuspended ==
  /\ Len(chain) \in {0, 1} => Suspended = <<>>
  /\ Len(chain') \in {0, 1} => Suspended' = <<>>
<1>1. ASSUME Len(chain) \in {0, 1} PROVE Suspended = <<>>
  <2>1. PICK m, f : m = Len(chain) - 1 /\ f = Suspended
    OBVIOUS
  <2>2. f = [i \in 1 .. m |-> f[i]]
    BY <2>1 DEF Suspended
  <2>3. m \in Int /\ m < 1
    BY <1>1, <2>1
  <2> QED BY <2>1, <2>2, <2>3, NobodyWaits
<1>2. ASSUME Len(chain') \in {0, 1} PROVE Suspended' = <<>>
  <2>1. PICK m, f : m = Len(chain') - 1 /\ f = Suspended'
    OBVIOUS
  <2>2. f = [i \in 1 .. m |-> f[i]]
    BY <2>1 DEF Suspended
  <2>3. m \in Int /\ m < 1
    BY <1>2, <2>1
  <2> QED BY <2>1, <2>2, <2>3, NobodyWaits
<1> QED BY <1>1, <1>2

LEMMA BootMemory ==
  ASSUME BootState, NEW name
  PROVE  /\ Loaded(name).status \in {"noexe", "fault"} \/ NewStack(name).ret = NULL
              => ~ (name \in Prog /\ Abstract!Fits(0, Pages[name] + StackPages))
         /\ Loaded(name).status = "ok" /\ NewStack(name).ret # NULL
              => name \in Prog /\ Abstract!Fits(0, Pages[name] + StackPages)
<1>1. PICK bp : bp = allocinit(execbufp)
  OBVIOUS
<1>2. bp = MemBase /\ bp \in MemBase .. MemEnd /\ bp - MemBase = 0
  BY <1>1, Constants DEF BootState, allocinit
<1>3. /\ Loaded(name).status = "noexe" => name \notin Prog
      /\ Loaded(name).status = "fault" =>
           name \in Prog /\ ~ Abstract!Fits(0, Pages[name])
      /\ Loaded(name).status = "ok" =>
           /\ name \in Prog
           /\ NewStack(name).ret = NULL =>
                ~ Abstract!Fits(0, Pages[name] + StackPages)
           /\ NewStack(name).ret # NULL =>
                Abstract!Fits(0, Pages[name] + StackPages)
  BY <1>1, <1>2, MemoryAtRun
<1>4. name \in Prog /\ ~ Abstract!Fits(0, Pages[name])
        => ~ Abstract!Fits(0, Pages[name] + StackPages)
  BY Constants DEF Abstract!Fits
<1>5. Loaded(name).status \in {"noexe", "fault", "ok"}
  BY DEF Loaded, load
<1> QED BY <1>3, <1>4, <1>5

LEMMA BootOkMaps ==
  ASSUME TypeOK, BootState, BootOk, chain = <<>>, ctx.rax = 0,
         mem[BootArgv] \in BootVecs, NEW n, n = NewProc.ret,
         NEW h, h = [i \in 1 .. 1 |-> n], chain' = h, Len(h) = 1
  PROVE  Abstract!ANext
<1>1. PICK name : name = Arg0[mem[BootArgv]]
  OBVIOUS
<1>2. /\ Inv' /\ OnChain(1, h)' /\ n \in Slot
      /\ curp' = n /\ mode' = "user" /\ mem'[BootArgv] = mem[BootArgv]
      /\ proc'[n].load = MemBase /\ proc'[n].loadsz = Pages[name]
      /\ \A b \in Span(MemBase, Pages[name]) : mem'[b] = name
      /\ proc'[n].argv = BootArgv /\ proc'[n].code = NULL
      /\ execbufp' = MemBase + Pages[name] + StackPages
      /\ ctx'.off = Entry /\ ctx'.rax = ctx.rax /\ ctx'.oth = ctx.oth
  BY <1>1, BootOkKeeps
<1>3. name \in Prog /\ Abstract!Fits(0, Pages[name] + StackPages)
  <2>1. Loaded(name).status = "ok" /\ NewStack(name).ret # NULL
    BY <1>1 DEF BootOk
  <2> QED BY <2>1, BootMemory
<1>4. PICK s : s = StackIn(mem', ctx'.sp)
  OBVIOUS
<1>5. Placed(1, proc'[n]) /\ ctx'.sp = StackTop(1, proc'[n])
      /\ execbufp' = proc'[n].stack + StackPages
  <2>1. h[1] = n /\ 1 \in 1 .. 1
    OBVIOUS
  <2> QED BY <1>2, <2>1 DEF OnChain, Blocks, Runs, RegsOK
<1>6. s \in Abstract!Cells
  <2>1. StackTop(1, proc'[n]) \in Int /\ StackAt(1, proc'[n]) \subseteq Addr
    <3>1. 1 \in Nat \ {0}
      OBVIOUS
    <3> QED BY <1>5, <3>1, PlacedPages
  <2>2. \A i \in 0 .. StackPages - 1 : ctx'.sp - i \in Addr
    BY <1>5, <2>1, CellsInStack DEF StackAt
  <2>3. mem' \in [Addr -> Val]
    BY <1>2 DEF Inv, TypeOK
  <2>4. s \in [0 .. StackPages - 1 -> Val]
    BY <1>4, <2>2, <2>3 DEF StackIn
  <2> QED BY <2>4 DEF Abstract!Cells, Abstract!Val, Abstract!Vec, Val, Vec
<1>7. TextIn(mem', proc'[n]) = [i \in 1 .. Pages[name] |-> name]
  <2>1. \A i \in 1 .. Pages[name] : MemBase + i - 1 \in Span(MemBase, Pages[name])
    BY <1>3, Constants DEF Span
  <2> QED BY <1>2, <2>1 DEF TextIn
<1>8. Running' = Frame([i \in 1 .. Pages[name] |-> name], mem[BootArgv], Entry, 0,
                       ctx.oth, s, -1, execbufp' - MemBase)
  <2>1. Running' = FrameIn(proc', word', mem', n, ctx')
    <3>1. n # NULL
      BY <1>2, Constants
    <3> QED BY <1>2, <3>1, Mapped
  <2>2. /\ proc'[n].stack \in Int /\ proc'[n].stacksz \in Int
        /\ proc'[n].stack + proc'[n].stacksz = execbufp'
    BY <1>5, StackTypes DEF Placed
  <2>3. Running' = Frame(TextIn(mem', proc'[n]), mem'[proc'[n].argv], ctx'.off, ctx'.rax,
                         ctx'.oth, StackIn(mem', ctx'.sp), PlaceIn(proc', word', n),
                         execbufp' - MemBase)
    BY <2>1, <2>2, FrameInUse
  <2>4. PlaceIn(proc', word', n) = -1
    BY <1>2 DEF PlaceIn
  <2> QED BY <1>2, <1>4, <1>7, <2>3, <2>4
<1>9. execbufp' - MemBase = 0 + Pages[name] + StackPages
  BY <1>2, <1>3, Constants
<1>10. Abstract!IsNew(Running', name, mem[BootArgv], ctx.oth, -1, 0)
  <2>1. Running'.stack = s
    BY <1>8 DEF Frame
  <2> QED BY <1>6, <1>8, <1>9, <2>1 DEF Abstract!IsNew, Frame
<1>11. Suspended' = Suspended
  <2>1. Len(chain) = 0 /\ Len(chain') = 1
    OBVIOUS
  <2> QED BY <2>1, NoneSuspended
<1>12. ctx.oth \in Oth /\ mode = "boot"
  BY DEF TypeOK, Ctx, BootOk
<1>13. Abstract!ABoot
  BY <1>1, <1>2, <1>3, <1>10, <1>11, <1>12 DEF Abstract!ABoot
<1> QED BY <1>13 DEF Abstract!ANext

(* The machine that does not come up.                                      *)
LEMMA NoBootMaps ==
  ASSUME TypeOK, BootState, BootFails \/ BootFault, chain = <<>>, chain' = chain,
         mem[BootArgv] \in BootVecs
  PROVE  Abstract!ANext
<1>1. PICK name : name = Arg0[mem[BootArgv]]
  OBVIOUS
<1>2. mode = "boot" /\ curp' = curp /\ curp = NULL /\ mode' \in {"panic", "dead"}
  BY DEF BootFails, BootFault, BootState
<1>3. Loaded(name).status \in {"noexe", "fault"} \/ NewStack(name).ret = NULL
  BY <1>1 DEF BootFails, BootFault
<1>4. ~ (name \in Prog /\ Abstract!Fits(0, Pages[name] + StackPages))
  BY <1>3, BootMemory
<1>5. Running' = Running
  BY <1>2 DEF Running
<1>6. Suspended' = Suspended
  <2>1. Len(chain) = 0 /\ Len(chain') = 0
    OBVIOUS
  <2> QED BY <2>1, NoneSuspended
<1>7. Abstract!ABoot
  BY <1>1, <1>2, <1>4, <1>5, <1>6 DEF Abstract!ABoot
<1> QED BY <1>7 DEF Abstract!ANext
-----------------------------------------------------------------------------
(* The history variable is the chain.                                      *)
LEMMA HistoryIs ==
  ASSUME NEW d \in 1 .. NSlots, NEW g \in [1 .. d -> Slot], OnChain(d, g)',
         chain' = g, Len(g) = d, Inv', mode' = "user"
  PROVE  HInv'
<1>1. OnChain(Len(chain), chain)'
  BY DEF OnChain, Linked, IsChain, Blocks, Placed, ArgsOK, RegsOK, Texts, HasText,
         Runs, Held, StackAt, StackTop, TextOf
<1>2. g \in Seq(Slot)
  BY SeqDef
<1> QED BY <1>1, <1>2 DEF HInv

(* A step after which the machine has stopped.                             *)
LEMMA HistoryEnds ==
  ASSUME Inv', mode' \notin {"boot", "user"}
  PROVE  HInv'
  BY DEF HInv

LEMMA HInvInit == HInit => HInv
<1> SUFFICES ASSUME HInit PROVE HInv
  OBVIOUS
<1>1. Inv
  BY InitInv DEF HInit
<1>2. PICK v \in BootVecs : mem = [a \in Addr |-> IF a = BootArgv THEN v ELSE Zero]
  BY DEF HInit, Init
<1>3. mem[BootArgv] = v
  <2>1. BootArgv \in Addr
    BY Constants
  <2> QED BY <1>2, <2>1
<1>4. mode = "boot" /\ chain = <<>>
  BY DEF HInit, Init
<1>5. ctx.rax = 0
  <2>1. PICK o \in Oth :
          ctx = [seg |-> NULL, off |-> 0, sp |-> HostTop, rax |-> 0, oth |-> o]
    BY DEF HInit, Init
  <2> QED BY <2>1
<1> QED BY <1>1, <1>3, <1>4, <1>5 DEF HInv

LEMMA InitMaps == HInit => Abstract!AInit
<1> SUFFICES ASSUME HInit PROVE Abstract!AInit
  OBVIOUS
<1>1. mode = "boot" /\ chain = <<>> /\ curp = NULL
  BY DEF HInit, Init
<1>2. Running = Abstract!NoFrame
  BY <1>1 DEF Running, Abstract!NoFrame
<1>3. Suspended = <<>>
  <2>1. Len(chain) = 0
    BY <1>1
  <2> QED BY <2>1, NoneSuspended
<1> QED BY <1>1, <1>2, <1>3 DEF Abstract!AInit
-----------------------------------------------------------------------------
(* The steps while the machine boots.                                      *)
LEMMA BootStep ==
  ASSUME HInv, HNext, mode = "boot"
  PROVE  HInv' /\ [Abstract!ANext]_(Abstract!avars)
<1>1. /\ TypeOK /\ BootState /\ chain = <<>> /\ ctx.rax = 0
      /\ mem[BootArgv] \in BootVecs /\ curp = NULL /\ Inv'
  <2>1. Inv'
    BY InvNext DEF HInv, HNext
  <2> QED BY <2>1 DEF HInv, Inv, BootState
<1>2. CASE BootOk
  <2>1. PICK n : n = NewProc.ret
    OBVIOUS
  <2>2. PICK h : h = [i \in 1 .. 1 |-> n]
    OBVIOUS
  <2>3. /\ OnChain(1, h)' /\ n \in Slot /\ h \in [1 .. 1 -> Slot]
        /\ curp' = n /\ mode' = "user"
    BY <1>1, <1>2, <2>1, <2>2, BootOkKeeps
  <2>4. chain' = Append(chain, n)
    BY <1>1, <2>3, Constants DEF HNext
  <2>5. h = Append(<<>>, n) /\ Len(h) = 1
    <3>1. PICK f : f = <<>>
      OBVIOUS
    <3>2. PICK z \in Nat : z = 0
      OBVIOUS
    <3>3. PICK m : m = z + 1
      OBVIOUS
    <3>4. m = 1
      BY <3>2, <3>3
    <3>5. IsList(z, f) /\ IsList(m, h) /\ h[m] = n
      BY <2>2, <3>1, <3>2, <3>4 DEF IsList
    <3>6. \A i \in 1 .. z : h[i] = f[i]
      BY <3>2
    <3>7. h = Append(f, n) /\ Len(h) = m
      BY <3>3, <3>5, <3>6, Pushed
    <3> QED BY <3>1, <3>4, <3>7
  <2>6. chain' = h
    BY <1>1, <2>4, <2>5
  <2>7. HInv'
    <3>1. 1 \in 1 .. NSlots
      BY Constants
    <3> QED BY <1>1, <2>3, <2>5, <2>6, <3>1, HistoryIs
  <2>8. Abstract!ANext
    BY <1>1, <1>2, <2>1, <2>2, <2>5, <2>6, BootOkMaps
  <2> QED BY <2>7, <2>8
<1>3. CASE BootFails \/ BootFault
  <2>1. curp' = curp /\ mode' \in {"panic", "dead"}
    BY <1>3 DEF BootFails, BootFault
  <2>2. chain' = chain
    BY <2>1 DEF HNext
  <2>3. HInv'
    BY <1>1, <2>1, HistoryEnds
  <2>4. Abstract!ANext
    BY <1>1, <1>3, <2>2, NoBootMaps
  <2> QED BY <2>3, <2>4
<1> QED BY <1>2, <1>3
        DEF HNext, Next, UserCompute, UserStore, Fault, sys_run, sys_exit, ExitHalts,
            ExitToParent, sys_getargv, sys_read, sys_write, Stopped, AtInt,
            Computes, CanRun

(* The steps of programs and system calls: those that keep the running     *)
(* program.                                                                *)
LEMMA CallStays ==
  ASSUME TypeOK, mode = "user", NEW d \in 1 .. NSlots, NEW g \in [1 .. d -> Slot],
         OnChain(d, g), chain = g, chain' = g, Len(g) = d,
         \/ UserCompute \/ UserStore \/ Fault
         \/ sys_getargv \/ sys_read \/ sys_write
  PROVE  HInv' /\ [Abstract!ANext]_(Abstract!avars)
<1>1. Inv' /\ OnChain(d, g)'
  BY UserComputeKeeps, UserStoreKeeps, FaultKeeps, sys_getargvKeeps, sys_readKeeps,
     sys_writeKeeps
<1>2. mode' = "user"
  BY DEF UserCompute, UserStore, Fault, sys_getargv, sys_read, sys_write, Return
<1>3. Abstract!ANext \/ UNCHANGED Abstract!avars
  BY UserComputeMaps, UserStoreMaps, FaultMaps, sys_getargvMaps, sys_readMaps,
     sys_writeMaps
<1> QED BY <1>1, <1>2, <1>3, HistoryIs

(* A run that comes back at once.                                          *)
LEMMA RunStays ==
  ASSUME TypeOK, mode = "user", NEW d \in 1 .. NSlots, NEW g \in [1 .. d -> Slot],
         OnChain(d, g), chain = g, chain' = g, Len(g) = d, AtInt, Inv',
         NEW k \in ArgvAt, NEW a, a = ctx.sp - k, mem[a] \in Vec,
         RunRefused(a) \/ RunNoExe(a) \/ RunNoStack(a) \/ RunFault(a)
  PROVE  HInv' /\ Abstract!ANext
<1>1. CASE RunRefused(a)
  <2>1. Inv' /\ OnChain(d, g)' /\ mode' = "user"
    BY <1>1, RunRefusedKeeps DEF RunRefused, Return
  <2>2. Abstract!ANext
    BY <1>1, RunRefusedMaps
  <2> QED BY <2>1, <2>2, HistoryIs
<1>2. CASE RunNoExe(a)
  <2>1. Inv' /\ OnChain(d, g)' /\ mode' = "user"
    BY <1>2, RunNoExeKeeps DEF RunNoExe, Return
  <2>2. Abstract!ANext
    BY <1>2, RunNoExeMaps
  <2> QED BY <2>1, <2>2, HistoryIs
<1>3. CASE RunNoStack(a)
  <2>1. Inv' /\ OnChain(d, g)' /\ mode' = "user"
    BY <1>3, RunNoStackKeeps DEF RunNoStack, Return
  <2>2. Abstract!ANext
    BY <1>3, RunNoStackMaps
  <2> QED BY <2>1, <2>2, HistoryIs
<1>4. CASE RunFault(a)
  <2>1. mode' \notin {"boot", "user"}
    BY <1>4 DEF RunFault
  <2>2. Abstract!ANext
    BY <1>4, RunFaultMaps
  <2> QED BY <2>1, <2>2, HistoryEnds
<1> QED BY <1>1, <1>2, <1>3, <1>4

(* A run that starts a child pushes it.                                    *)
LEMMA RunPushes ==
  ASSUME TypeOK, mode = "user", NEW d \in 1 .. NSlots, NEW g \in [1 .. d -> Slot],
         OnChain(d, g), chain = g, Len(g) = d, HNext, AtInt,
         NEW k \in ArgvAt, NEW a, a = ctx.sp - k, mem[a] \in Vec,
         NEW c \in {NULL} \cup {ctx.sp - j : j \in CodeAt}, RunOk(a, c)
  PROVE  HInv' /\ Abstract!ANext
<1>1. PICK n : n = NewProc.ret
  OBVIOUS
<1>2. PICK e : e = d + 1
  OBVIOUS
<1>3. PICK h : h = Extended(g, e, n)
  OBVIOUS
<1>4. a \in StackAt(d, proc[curp]) /\ c \in {NULL} \cup StackAt(d, proc[curp])
  <2>1. k \in 0 .. StackPages - 1 /\ CodeAt \subseteq 0 .. StackPages - 1
    BY Constants
  <2>2. \A j \in 0 .. StackPages - 1 : ctx.sp - j \in StackAt(d, proc[curp])
    BY Current
  <2> QED BY <2>1, <2>2
<1>5. /\ Inv' /\ OnChain(e, h)' /\ mode' = mode
      /\ e \in 1 .. NSlots /\ h \in [1 .. e -> Slot]
      /\ n \in Slot /\ n \notin Held(d, g) /\ n # curp /\ curp' = n
  <2>1. RunOkEffect(d, g, a, c, n, e, h)
    BY <1>1, <1>2, <1>3, <1>4, RunOkKeeps
  <2> QED BY <2>1 DEF RunOkEffect
<1>6. chain' = Append(g, n)
  <2>1. curp # NULL /\ curp = g[d] /\ n # NULL
    <3>1. curp # NULL /\ curp = g[d]
      BY Current
    <3>2. n # NULL
      BY <1>5, Constants
    <3> QED BY <3>1, <3>2
  <2>2. word[curp] = NULL \/ word[curp] \in Held(d, g)
    <3>1. d \in 1 .. d /\ (d # 1 => d - 1 \in 1 .. d)
      OBVIOUS
    <3>2. word[g[d]] = IF d = 1 THEN NULL ELSE g[d - 1]
      BY <3>1 DEF OnChain, Linked, IsChain
    <3> QED BY <2>1, <3>1, <3>2 DEF Held
  <2>3. curp' # curp /\ curp' # word[curp]
    BY <1>5, <2>1, <2>2
  <2> QED BY <1>5, <2>3 DEF HNext
<1>7. h = Append(g, n) /\ Len(h) = e
  <2>1. d \in Nat /\ IsList(d, g) /\ IsList(e, h)
    BY <1>5 DEF IsList
  <2>2. h[e] = n /\ \A i \in 1 .. d : h[i] = g[i]
    BY <1>2, <1>3 DEF Extended
  <2> QED BY <1>2, <2>1, <2>2, Pushed
<1>8. chain' = h
  BY <1>6, <1>7
<1>9. HInv'
  BY <1>5, <1>7, <1>8, HistoryIs
<1>10. Abstract!ANext
  <2>1. chain' = h /\ Len(h) = e
    BY <1>7, <1>8
  <2>2. c = NULL \/ \E j \in CodeAt : c = ctx.sp - j
    OBVIOUS
  <2> QED BY <1>1, <1>2, <1>3, <2>1, <2>2, RunOkMaps
<1> QED BY <1>9, <1>10

(* exit() of a child pops it.                                              *)
LEMMA ExitPops ==
  ASSUME TypeOK, mode = "user", NEW d \in 1 .. NSlots, NEW g \in [1 .. d -> Slot],
         OnChain(d, g), chain = g, Len(g) = d, HNext, ExitToParent
  PROVE  HInv' /\ Abstract!ANext
<1>1. PICK e : e = d - 1
  OBVIOUS
<1>2. PICK h : h = Shortened(g, e)
  OBVIOUS
<1>3. /\ Inv' /\ OnChain(e, h)' /\ d # 1 /\ mode' = mode
      /\ e \in 1 .. NSlots /\ h \in [1 .. e -> Slot] /\ word[curp] = g[e]
      /\ curp' = g[e]
  <2>1. ExitEffect(d, g, e, h)
    BY <1>1, <1>2, ExitToParentKeeps
  <2> QED BY <2>1 DEF ExitEffect
<1>4. chain' = SubSeq(g, 1, Len(g) - 1)
  <2>1. curp # NULL /\ curp = g[d]
    BY Current
  <2>2. g[e] # g[d]
    <3>1. e \in 1 .. d /\ d \in 1 .. d /\ e # d
      BY <1>1, <1>3
    <3> QED BY <3>1 DEF OnChain, Linked, IsChain
  <2> QED BY <1>3, <2>1, <2>2 DEF HNext
<1>5. h = SubSeq(g, 1, Len(g) - 1) /\ Len(h) = e
  <2>1. d \in Nat \ {0} /\ IsList(d, g) /\ IsList(e, h)
    BY <1>3 DEF IsList
  <2>2. \A i \in 1 .. e : h[i] = g[i]
    BY <1>2 DEF Shortened
  <2> QED BY <1>1, <2>1, <2>2, Popped
<1>6. chain' = h
  BY <1>4, <1>5
<1>7. HInv'
  BY <1>3, <1>5, <1>6, HistoryIs
<1>8. Abstract!ANext
  BY <1>1, <1>2, <1>5, <1>6, ExitToParentMaps
<1> QED BY <1>7, <1>8

LEMMA UserStep ==
  ASSUME HInv, HNext, mode = "user"
  PROVE  HInv' /\ [Abstract!ANext]_(Abstract!avars)
<1>1. TypeOK /\ Inv'
  <2>1. Inv'
    BY InvNext DEF HInv, HNext
  <2> QED BY <2>1 DEF HInv, Inv
<1>2. PICK g : g = chain
  OBVIOUS
<1>3. PICK d : d = Len(g)
  OBVIOUS
<1>4. d \in 1 .. NSlots /\ g \in [1 .. d -> Slot] /\ OnChain(d, g)
  <2>1. d \in 1 .. NSlots /\ g \in Seq(Slot) /\ OnChain(d, g)
    BY <1>2, <1>3 DEF HInv
  <2> QED BY <1>3, <2>1
<1>5. curp' = curp => chain' = g
  BY <1>2 DEF HNext
<1>6. CASE UserCompute \/ UserStore \/ Fault \/ sys_getargv \/ sys_read \/ sys_write
  <2>1. curp' = curp
    BY <1>6 DEF UserCompute, UserStore, Fault, sys_getargv, sys_read, sys_write
  <2> QED BY <1>1, <1>2, <1>3, <1>4, <1>5, <1>6, <2>1, CallStays
<1>7. CASE sys_run
  <2>1. AtInt
    BY <1>7 DEF sys_run
  <2>2. PICK a : /\ \E k \in ArgvAt : a = ctx.sp - k
                 /\ mem[a] \in Vec
                 /\ \/ RunRefused(a) \/ RunNoExe(a) \/ RunNoStack(a) \/ RunFault(a)
                    \/ \E c \in {NULL} \cup {ctx.sp - j : j \in CodeAt} : RunOk(a, c)
    BY <1>7 DEF sys_run
  <2>3. CASE RunRefused(a) \/ RunNoExe(a) \/ RunNoStack(a) \/ RunFault(a)
    <3>1. curp' = curp
      BY <2>3 DEF RunRefused, RunNoExe, RunNoStack, RunFault
    <3> QED BY <1>1, <1>2, <1>3, <1>4, <1>5, <2>1, <2>2, <2>3, <3>1, RunStays
  <2>4. ASSUME NEW c \in {NULL} \cup {ctx.sp - j : j \in CodeAt}, RunOk(a, c)
        PROVE  HInv' /\ Abstract!ANext
    BY <1>1, <1>2, <1>3, <1>4, <2>1, <2>2, <2>4, RunPushes
  <2> QED BY <2>2, <2>3, <2>4
<1>8. CASE ExitHalts
  <2>1. curp' = curp /\ mode' \notin {"boot", "user"}
    BY <1>8 DEF ExitHalts
  <2>2. Abstract!ANext
    BY <1>1, <1>2, <1>3, <1>4, <1>5, <1>8, <2>1, ExitHaltsMaps
  <2> QED BY <1>1, <2>1, <2>2, HistoryEnds
<1>9. CASE ExitToParent
  BY <1>1, <1>2, <1>3, <1>4, <1>9, ExitPops
<1> QED BY <1>6, <1>7, <1>8, <1>9
        DEF HNext, Next, BootOk, BootFails, BootFault, sys_exit, Stopped

(* Nothing moves.                                                          *)
LEMMA HistoryRests ==
  ASSUME HInv, UNCHANGED hvars
  PROVE  HInv' /\ UNCHANGED Abstract!avars
<1>1. UNCHANGED vars /\ chain' = chain
  BY DEF hvars
<1>2. /\ pool' = pool /\ word' = word /\ execbufp' = execbufp /\ proc' = proc
      /\ curp' = curp /\ ctx' = ctx /\ mem' = mem /\ prot' = prot /\ mode' = mode
  BY <1>1 DEF vars
<1>3. UNCHANGED Abstract!avars
  BY <1>1, <1>2 DEF Abstract!avars, Running, Suspended, FrameOf
<1>4. Inv'
  BY <1>1, Stutters DEF HInv
<1>5. OnChain(Len(chain), chain) => OnChain(Len(chain), chain)'
  BY <1>1, <1>2
     DEF OnChain, Linked, IsChain, Blocks, Placed, ArgsOK, RegsOK, Texts, HasText,
         Runs, Held, StackAt, StackTop, TextOf
<1> QED BY <1>1, <1>2, <1>3, <1>4, <1>5 DEF HInv

LEMMA HInvNext ==
  HInv /\ [HNext]_hvars => HInv' /\ [Abstract!ANext]_(Abstract!avars)
<1> SUFFICES ASSUME HInv, [HNext]_hvars
             PROVE  HInv' /\ [Abstract!ANext]_(Abstract!avars)
  OBVIOUS
<1>1. CASE UNCHANGED hvars
  BY <1>1, HistoryRests
<1>2. CASE HNext /\ mode = "boot"
  BY <1>2, BootStep
<1>3. CASE HNext /\ mode = "user"
  BY <1>3, UserStep
<1>4. CASE HNext /\ mode \notin {"boot", "user"}
  <2>1. UNCHANGED vars
    BY <1>4 DEF HNext, Next, BootOk, BootFails, BootFault, UserCompute, UserStore,
                Fault, sys_run, sys_exit, ExitHalts, ExitToParent, sys_getargv,
                sys_read, sys_write, Stopped, AtInt, Computes, CanRun
  <2>2. UNCHANGED hvars
    BY <1>4, <2>1 DEF HNext, hvars, vars
  <2> QED BY <2>2, HistoryRests
<1> QED BY <1>1, <1>2, <1>3, <1>4

(* Every behaviour of the kernel's tables, pointers and pages is one of a  *)
(* stack of programs in which run() is a procedure call: a suspended       *)
(* program keeps its registers, text, arguments and stack, only the place  *)
(* it named gets the exit code, the child gets the arguments it was run    *)
(* with, and a run fails only for want of a file, a process or memory that *)
(* is really in use. For any number of processes and pages, any programs.  *)
THEOREM KSysImplementsProcStack == HSpec => ImplementsProcStack
<1>1. HSpec => []HInv
  BY HInvInit, HInvNext, PTL DEF HSpec
<1>2. HSpec => Abstract!ASpec
  BY <1>1, InitMaps, HInvNext, PTL DEF HSpec, Abstract!ASpec
<1> QED BY <1>2 DEF ImplementsProcStack
=============================================================================
