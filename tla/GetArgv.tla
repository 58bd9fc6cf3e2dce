------------------------------ MODULE GetArgv -------------------------------
(***************************************************************************)
(* How a program gets its arguments: _main (libc/_main.c) calls            *)
(* sys_getargv (kernel/ksys.c) with the buffers args and argv of its       *)
(* frame, one iteration of the kernel's loop a step. Programs follow one   *)
(* another on the same stack pages, and nothing clears the pages between   *)
(* them, so _main finds in its buffers what an earlier program left.       *)
(*                                                                         *)
(* args holds the characters of the frame from the start of the buffer;    *)
(* those from BufSz on belong to other variables. Likewise argv[ArgvSz] is *)
(* the word behind the array. A string of the parent, found through        *)
(* curp->argv, is the sequence of its characters: its NUL is its end.      *)
(***************************************************************************)
EXTENDS Integers, Sequences

CONSTANTS
  BufSz,       \* ARRAY_SIZE(args)
  ArgvSz,      \* ARRAY_SIZE(argv)
  Char,        \* characters of arguments
  NUL,         \* the character that ends a string, and of fresh memory
  Vec,         \* argument vectors, without their last NULL
  Others       \* what programs of another size leave in the pages of args

Behind == 2                    \* how much of the frame behind args is kept
Cell == 0 .. BufSz + Behind - 1
Byte == Char \cup {NUL}

ASSUME GetArgvAssumption ==
  /\ BufSz \in Nat /\ ArgvSz \in Nat
  /\ NUL \notin Char
  /\ Vec \subseteq Seq(Seq(Char))
  /\ Others \subseteq [Cell -> Byte]

VARIABLES
  args, argv,  \* the buffers and what lies behind them; argv[i] is an index
               \* of args, or a constant below
  vec,         \* the vector the parent passed
  argc, bufp,  \* the variables of sys_getargv
  ret,         \* its result
  pc           \* idle (no program), loop (in sys_getargv), main, exit256

vars == <<args, argv, vec, argc, bufp, ret, pc>>

NullPtr == -1                  \* argv[argc] = NULL
Saved == -2                    \* what the frame keeps behind argv
Unset == -3                    \* an element the program has not set

Init ==
  /\ args = [i \in Cell |-> NUL]
  /\ argv = [i \in 0 .. ArgvSz |-> Unset]
  /\ vec = <<>>
  /\ argc = 0 /\ bufp = 0 /\ ret = 0
  /\ pc = "idle"

(* Another program has used the pages.                                     *)
OtherProgram ==
  /\ pc = "idle"
  /\ args' \in Others
  /\ UNCHANGED <<argv, vec, argc, bufp, ret, pc>>

(* A program starts: _main calls os_getargv(args, BufSz, argv, ArgvSz).    *)
Start ==
  /\ pc = "idle"
  /\ vec' \in Vec
  /\ argv' = [i \in 0 .. ArgvSz |-> IF i = ArgvSz THEN Saved ELSE Unset]
  /\ argc' = 0 /\ bufp' = 0
  /\ pc' = "loop"
  /\ UNCHANGED <<args, ret>>

(* The loop: *arg is the argument at argc, until it is NULL.               *)
InLoop == pc = "loop" /\ argc < Len(vec)
Arg == vec[argc + 1]
strlen == Len(Arg)

(* sys_getargv returns r to _main, which ends the program with code 256    *)
(* when r is negative.                                                     *)
Return(r) ==
  /\ ret' = r
  /\ pc' = IF r < 0 THEN "exit256" ELSE "main"
  /\ UNCHANGED <<vec, argc, bufp>>

(* argvsz < argc: too many arguments. The test lets argc = argvsz pass.    *)
TooMany == InLoop /\ ArgvSz < argc /\ Return(-1) /\ UNCHANGED <<args, argv>>

(* buf + bufsz - bufp < len: no room. Room for the NUL is not asked for.   *)
TooLong ==
  /\ InLoop /\ ArgvSz >= argc
  /\ BufSz - bufp < strlen
  /\ Return(-1)
  /\ UNCHANGED <<args, argv>>

(* strcpy(bufp, *arg), which does not copy the NUL.                        *)
Copied == [i \in Cell |-> IF i \in bufp .. bufp + strlen - 1
                          THEN Arg[i - bufp + 1] ELSE args[i]]

(* Faulty variants of the next action: the room is tested for one less;    *)
(* the next argument is placed over the end of this one.                   *)
Copy_OneMore ==
  /\ InLoop /\ ArgvSz >= argc
  /\ BufSz - bufp >= strlen - 1
  /\ args' = Copied
  /\ argv' = [argv EXCEPT ![argc] = bufp]
  /\ argc' = argc + 1
  /\ bufp' = bufp + strlen + 1
  /\ UNCHANGED <<vec, ret, pc>>
Copy_Overlaps ==
  /\ InLoop /\ ArgvSz >= argc
  /\ BufSz - bufp >= strlen
  /\ args' = Copied
  /\ argv' = [argv EXCEPT ![argc] = bufp]
  /\ argc' = argc + 1
  /\ bufp' = bufp + strlen - 1
  /\ UNCHANGED <<vec, ret, pc>>

(* One argument is copied.                                                 *)
Copy ==
  /\ InLoop /\ ArgvSz >= argc
  /\ BufSz - bufp >= strlen
  /\ args' = Copied
  /\ argv' = [argv EXCEPT ![argc] = bufp]
  /\ argc' = argc + 1
  /\ bufp' = bufp + strlen + 1
  /\ UNCHANGED <<vec, ret, pc>>

(* Faulty variant of the next action: no test.                             *)
Finish_Untested ==
  /\ pc = "loop" /\ argc = Len(vec)
  /\ argv' = [i \in 0 .. ArgvSz |-> IF i = argc THEN NullPtr ELSE argv[i]]
  /\ Return(argc) /\ UNCHANGED args

(* After the last argument: argv[argc] = NULL if there is room for it.     *)
Finish ==
  /\ pc = "loop" /\ argc = Len(vec)
  /\ \/ ArgvSz <= argc /\ Return(-1) /\ UNCHANGED <<args, argv>>
     \/ /\ ArgvSz > argc
        /\ argv' = [argv EXCEPT ![argc] = NullPtr]
        /\ Return(argc)
        /\ UNCHANGED args

(* The program ends; its pages stay as they are.                           *)
Exit ==
  /\ pc \in {"main", "exit256"}
  /\ pc' = "idle"
  /\ UNCHANGED <<args, argv, vec, argc, bufp, ret>>

Next == OtherProgram \/ Start \/ TooMany \/ TooLong \/ Copy \/ Finish \/ Exit

Spec == Init /\ [][Next]_vars
-----------------------------------------------------------------------------
TypeOK ==
  /\ args \in [Cell -> Byte]
  /\ argv \in [0 .. ArgvSz -> 0 .. BufSz + 1 \cup {NullPtr, Saved, Unset}]
  /\ vec \in Vec \cup {<<>>}
  /\ argc \in 0 .. ArgvSz + 1
  /\ bufp \in 0 .. BufSz + 1
  /\ ret \in -1 .. ArgvSz
  /\ pc \in {"idle", "loop", "main", "exit256"}

(* The kernel, which trusts the sizes it is given, writes no character     *)
(* behind args: not for an argument that fits to the last character, and   *)
(* not after it, when bufp is past the end.                                *)
ArgsBounded ==
  [][pc = "loop" => \A i \in Cell : i >= BufSz => args'[i] = args[i]]_vars

(* The first n arguments stand in args, one after the other, and the first *)
(* n elements of argv point to them.                                       *)
Placed(n) ==
  \A k \in 0 .. n - 1 :
    LET w == vec[k + 1]
    IN /\ argv[k] >= 0
       /\ argv[k] + Len(w) < IF k = n - 1 THEN bufp ELSE argv[k + 1]
       /\ argv[k] + Len(w) <= BufSz
       /\ \A i \in 1 .. Len(w) : args[argv[k] + i - 1] = w[i]

(* A program that gets to main finds all its arguments, none run over by   *)
(* the next one, and the NULL behind them; and although the loop may write *)
(* one word past argv, no program gets to main after that.                 *)
MainFindsArguments ==
  pc = "main" =>
    /\ ret = Len(vec)
    /\ Placed(ret)
    /\ argv[ret] = NullPtr
    /\ argv[ArgvSz] = Saved

(* The vector fits: argv has room for the NULL, and e, which adds up the   *)
(* lengths and one character between two arguments, passes no bound.       *)
Fits(v) ==
  /\ Len(v) < ArgvSz
  /\ \E e \in [0 .. Len(v) -> 0 .. BufSz + 1] :
       /\ e[0] = 0
       /\ \A k \in 1 .. Len(v) : e[k] = e[k - 1] + Len(v[k]) + 1

(* The tests spread over the loop refuse exactly the vectors that do not   *)
(* fit: the two bounds with their different comparisons agree with one     *)
(* condition on the vector.                                                *)
RefusesTheRest ==
  /\ pc = "main" => Fits(vec)
  /\ pc = "exit256" => ~ Fits(vec)

(* main(argc, argv) gets the arguments the parent passed, each ended by a  *)
(* NUL, as the expected output of the shell's test says.                   *)
GetsItsArguments ==
  pc = "main" =>
    \A k \in 0 .. ret - 1 : args[argv[k] + Len(vec[k + 1])] = NUL
=============================================================================
