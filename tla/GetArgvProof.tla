---------------------------- MODULE GetArgvProof ----------------------------
(***************************************************************************)
(* Proofs about GetArgv for every size of the buffers, every set of        *)
(* vectors and every content earlier programs leave.                       *)
(***************************************************************************)
EXTENDS GetArgv, TLAPS

(* Where the argument after argument k starts, or will start.              *)
After(k) == IF k = argc - 1 THEN bufp ELSE argv[k + 1]

(* The arguments copied so far are adjacent but for one character.         *)
Adjacent ==
  /\ argc = 0 => bufp = 0
  /\ argc > 0 => argv[0] = 0
  /\ \A k \in 0 .. argc - 1 : /\ argv[k] \in 0 .. BufSz
                              /\ After(k) = argv[k] + Len(vec[k + 1]) + 1

(* They end in the buffer and before bufp, and their characters are there. *)
Stands ==
  \A k \in 0 .. argc - 1 :
    /\ argv[k] + Len(vec[k + 1]) <= BufSz
    /\ argv[k] + Len(vec[k + 1]) < bufp
    /\ \A i \in 1 .. Len(vec[k + 1]) : args[argv[k] + i - 1] = vec[k + 1][i]

(* e adds up the arguments of v as Fits does.                              *)
AddsUp(v, e) ==
  /\ e[0] = 0
  /\ \A k \in 1 .. Len(v) : e[k] = e[k - 1] + Len(v[k]) + 1
Sums(v) == [0 .. Len(v) -> 0 .. BufSz + 1]

(* Only the sum of the arguments copied leads to bufp.                     *)
OneSum == \A e \in Sums(vec) : AddsUp(vec, e) => e[argc] = bufp

(* What holds in the loop, and what the two results mean.                  *)
LoopInv ==
  pc = "loop" =>
    /\ argc <= Len(vec)
    /\ argc <= ArgvSz => argv[ArgvSz] = Saved
    /\ Adjacent
    /\ Stands
    /\ OneSum

Inv == TypeOK /\ LoopInv /\ MainFindsArguments /\ RefusesTheRest

(* A vector is a sequence of sequences of characters.                      *)
LEMMA VecType ==
  ASSUME NEW v \in Vec \cup {<<>>}
  PROVE  /\ v \in Seq(Seq(Char))
         /\ Len(v) \in Nat
         /\ \A k \in 1 .. Len(v) : /\ v[k] \in Seq(Char)
                                   /\ Len(v[k]) \in Nat
                                   /\ \A i \in 1 .. Len(v[k]) : v[k][i] \in Char
<1>1. v \in Seq(Seq(Char))
  <2>1. <<>> \in Seq(Seq(Char))
    OBVIOUS
  <2> QED
    BY <2>1, GetArgvAssumption
<1>2. ASSUME NEW k \in 1 .. Len(v)
      PROVE  v[k] \in Seq(Char)
  BY <1>1
<1> QED
  BY <1>1, <1>2

(* A character of an argument that ends in the buffer and before b.        *)
LEMMA Inside ==
  ASSUME NEW start \in Nat, NEW len \in Nat, NEW i \in 1 .. len, NEW b \in Nat,
         start + len <= BufSz, start + len < b
  PROVE  start + i - 1 \in Cell /\ start + i - 1 < b
BY GetArgvAssumption DEF Cell, Behind

LEMMA InitInv == Init => Inv
BY GetArgvAssumption
   DEF Init, Inv, TypeOK, LoopInv, MainFindsArguments, RefusesTheRest, Cell,
       Byte, Behind, Unset

(* One argument is copied: the next one has its place, the earlier ones    *)
(* lie before bufp and stay.                                               *)
LEMMA CopyInv ==
  ASSUME Inv, Copy
  PROVE  Inv'
<1> USE GetArgvAssumption
<1>1. /\ argc \in Nat /\ argc < Len(vec) /\ argc <= ArgvSz
      /\ bufp \in Nat
      /\ vec \in Seq(Seq(Char))
      /\ Arg \in Seq(Char) /\ strlen \in Nat
      /\ \A i \in 1 .. strlen : Arg[i] \in Char
      /\ bufp + strlen <= BufSz
      /\ argv \in [0 .. ArgvSz -> 0 .. BufSz + 1 \cup {NullPtr, Saved, Unset}]
      /\ args \in [Cell -> Byte]
  <2>1. vec \in Vec \cup {<<>>} /\ argc \in 0 .. ArgvSz + 1 /\ bufp \in 0 .. BufSz + 1
    BY DEF Inv, TypeOK
  <2>2. argc < Len(vec) /\ argc <= ArgvSz
    BY <2>1, VecType DEF Copy, InLoop
  <2>3. argc + 1 \in 1 .. Len(vec)
    BY <2>1, <2>2, VecType
  <2>4. Arg \in Seq(Char) /\ strlen \in Nat /\ \A i \in 1 .. strlen : Arg[i] \in Char
    BY <2>1, <2>3, VecType DEF Arg, strlen
  <2> QED
    BY <2>1, <2>2, <2>4, VecType DEF Copy, Inv, TypeOK
<1>2. /\ args' = Copied
      /\ argv' = [argv EXCEPT ![argc] = bufp]
      /\ argc' = argc + 1
      /\ bufp' = bufp + strlen + 1
      /\ vec' = vec /\ ret' = ret /\ pc' = pc /\ pc = "loop"
  BY DEF Copy, InLoop
<1>3. Adjacent /\ Stands /\ OneSum /\ (argc <= ArgvSz => argv[ArgvSz] = Saved)
  BY <1>2 DEF Inv, LoopInv
<1>4. TypeOK'
  <2>1. args' \in [Cell -> Byte]
    <3>1. args \in [Cell -> Byte]
      BY <1>1
    <3>2. ASSUME NEW i \in bufp .. bufp + strlen - 1
          PROVE  Arg[i - bufp + 1] \in Byte
      BY <1>1 DEF Byte
    <3> QED
      BY <1>2, <3>1, <3>2 DEF Copied
  <2>2. argv' \in [0 .. ArgvSz -> 0 .. BufSz + 1 \cup {NullPtr, Saved, Unset}]
    BY <1>1, <1>2
  <2> QED
    BY <1>1, <1>2, <2>1, <2>2 DEF Inv, TypeOK
<1>5. argv'[argc] = bufp /\ \A k \in 0 .. ArgvSz : k # argc => argv'[k] = argv[k]
  BY <1>1, <1>2
<1>6. Adjacent'
  <2>1. argv'[0] = 0
    BY <1>1, <1>3, <1>5 DEF Adjacent
  <2>2. ASSUME NEW k \in 0 .. argc
        PROVE  /\ argv'[k] \in 0 .. BufSz
               /\ After(k)' = argv'[k] + Len(vec[k + 1]) + 1
    <3>1. CASE k = argc
      BY <1>1, <1>2, <1>5, <3>1 DEF After, strlen, Arg
    <3>2. CASE k < argc
      <4>1. k \in 0 .. argc - 1 /\ argv'[k] = argv[k]
        BY <1>1, <1>5, <3>2
      <4>2. After(k)' = argv'[k + 1]
        BY <1>1, <1>2, <3>2 DEF After
      <4>3. argv'[k + 1] = After(k)
        BY <1>1, <1>5, <3>2 DEF After
      <4> QED
        BY <1>3, <4>1, <4>2, <4>3 DEF Adjacent
    <3> QED
      BY <1>1, <3>1, <3>2
  <2> QED
    BY <1>1, <1>2, <2>1, <2>2 DEF Adjacent
<1>7. Stands'
  <2>1. ASSUME NEW k \in 0 .. argc
        PROVE  /\ argv'[k] + Len(vec[k + 1]) <= BufSz
               /\ argv'[k] + Len(vec[k + 1]) < bufp + strlen + 1
               /\ \A i \in 1 .. Len(vec[k + 1]) :
                    args'[argv'[k] + i - 1] = vec[k + 1][i]
    <3>1. CASE k = argc
      <4>1. ASSUME NEW i \in 1 .. strlen
            PROVE  args'[bufp + i - 1] = Arg[i]
        <5>1. bufp + i - 1 \in Cell /\ bufp + i - 1 \in bufp .. bufp + strlen - 1
          BY <1>1 DEF Cell, Behind
        <5>2. (bufp + i - 1) - bufp + 1 = i
          BY <1>1
        <5> QED
          BY <1>2, <5>1, <5>2 DEF Copied
      <4>2. argv'[k] = bufp /\ vec[k + 1] = Arg /\ Len(vec[k + 1]) = strlen
        BY <1>5, <3>1 DEF strlen, Arg
      <4>3. bufp + strlen <= BufSz /\ bufp + strlen < bufp + strlen + 1
        BY <1>1
      <4> QED
        BY <4>1, <4>2, <4>3
    <3>2. CASE k < argc
      <4>1. k \in 0 .. argc - 1 /\ argv'[k] = argv[k]
        BY <1>1, <1>5, <3>2
      <4>2. /\ argv[k] \in 0 .. BufSz
            /\ argv[k] + Len(vec[k + 1]) <= BufSz
            /\ argv[k] + Len(vec[k + 1]) < bufp
            /\ \A i \in 1 .. Len(vec[k + 1]) :
                 args[argv[k] + i - 1] = vec[k + 1][i]
        BY <1>3, <4>1 DEF Adjacent, Stands
      <4>3. Len(vec[k + 1]) \in Nat
        BY <1>1, <4>1
      <4>4. ASSUME NEW i \in 1 .. Len(vec[k + 1])
            PROVE  args'[argv[k] + i - 1] = args[argv[k] + i - 1]
        <5>1. /\ argv[k] + i - 1 \in Cell
              /\ argv[k] + i - 1 < bufp
          <6>1. PICK start : start = argv[k]
            OBVIOUS
          <6>2. PICK len : len = Len(vec[k + 1])
            OBVIOUS
          <6>3. /\ start \in Nat /\ len \in Nat /\ i \in 1 .. len /\ bufp \in Nat
                /\ start + len <= BufSz /\ start + len < bufp
            BY <1>1, <4>2, <4>3, <4>4, <6>1, <6>2
          <6>4. start + i - 1 \in Cell /\ start + i - 1 < bufp
            BY <6>3, Inside
          <6> QED
            BY <6>1, <6>4
        <5>2. argv[k] + i - 1 \notin bufp .. bufp + strlen - 1
          BY <1>1, <4>2, <5>1 DEF Cell
        <5> QED
          BY <1>2, <5>1, <5>2 DEF Copied
      <4>5. argv[k] + Len(vec[k + 1]) < bufp + strlen + 1
        BY <1>1, <4>2, <4>3
      <4> QED
        BY <4>1, <4>2, <4>4, <4>5
    <3> QED
      BY <1>1, <3>1, <3>2
  <2>2. 0 .. argc' - 1 = 0 .. argc
    BY <1>1, <1>2
  <2>3. SUFFICES ASSUME NEW k \in 0 .. argc' - 1
                 PROVE  /\ argv'[k] + Len(vec'[k + 1]) <= BufSz
                        /\ argv'[k] + Len(vec'[k + 1]) < bufp'
                        /\ \A i \in 1 .. Len(vec'[k + 1]) :
                             args'[argv'[k] + i - 1] = vec'[k + 1][i]
    BY DEF Stands
  <2> QED
    BY <1>2, <2>1, <2>2
<1>8. OneSum'
  <2>1. ASSUME NEW e \in Sums(vec), AddsUp(vec, e)
        PROVE  e[argc + 1] = bufp + strlen + 1
    <3>1. e[argc] = bufp
      BY <1>3, <2>1 DEF OneSum
    <3>2. argc + 1 \in 1 .. Len(vec) /\ (argc + 1) - 1 = argc
      BY <1>1
    <3>3. e[argc + 1] = e[argc] + Len(vec[argc + 1]) + 1
      BY <2>1, <3>2 DEF AddsUp
    <3> QED
      BY <3>1, <3>3 DEF strlen, Arg
  <2> QED
    BY <1>2, <2>1 DEF OneSum, Sums, AddsUp
<1>9. (argc <= ArgvSz => argv[ArgvSz] = Saved)'
  BY <1>1, <1>2, <1>3, <1>5
<1>10. LoopInv'
  BY <1>1, <1>2, <1>6, <1>7, <1>8, <1>9 DEF LoopInv
<1> QED
  BY <1>2, <1>4, <1>10 DEF Inv, MainFindsArguments, RefusesTheRest

(* The loop is left with all arguments copied: the program gets to main    *)
(* with its vector, which fits, or there was no room for the NULL.         *)
LEMMA FinishInv ==
  ASSUME Inv, Finish
  PROVE  Inv'
<1> USE GetArgvAssumption
<1>1. /\ argc \in Nat /\ argc = Len(vec)
      /\ vec \in Vec \cup {<<>>}
      /\ bufp \in 0 .. BufSz + 1
      /\ argv \in [0 .. ArgvSz -> 0 .. BufSz + 1 \cup {NullPtr, Saved, Unset}]
      /\ Adjacent /\ Stands
      /\ argc <= ArgvSz => argv[ArgvSz] = Saved
      /\ UNCHANGED <<vec, argc, bufp, args>>
  BY DEF Inv, TypeOK, LoopInv, Finish, Return
<1>2. CASE ArgvSz <= argc /\ Return(-1) /\ UNCHANGED <<args, argv>>
  <2>1. ret' = -1 /\ pc' = "exit256"
    BY <1>2 DEF Return
  <2>2. ~ Fits(vec)
    BY <1>1, <1>2 DEF Fits
  <2>3. TypeOK'
    BY <1>1, <1>2, <2>1 DEF Inv, TypeOK
  <2>4. (~ Fits(vec))'
    BY <1>1, <2>2 DEF Fits
  <2> QED
    BY <2>1, <2>3, <2>4 DEF Inv, LoopInv, MainFindsArguments, RefusesTheRest
<1>3. CASE ArgvSz > argc /\ argv' = [argv EXCEPT ![argc] = NullPtr] /\ Return(argc)
  <2>1. ret' = argc /\ pc' = "main"
    BY <1>1, <1>3 DEF Return
  <2>2. /\ argv'[argc] = NullPtr
        /\ \A k \in 0 .. ArgvSz : k # argc => argv'[k] = argv[k]
        /\ argv' \in [0 .. ArgvSz -> 0 .. BufSz + 1 \cup {NullPtr, Saved, Unset}]
    BY <1>1, <1>3
  <2>3. TypeOK'
    BY <1>1, <1>3, <2>1, <2>2 DEF Inv, TypeOK
  <2>4. ASSUME NEW k \in 0 .. argc - 1
        PROVE  /\ argv'[k] >= 0
               /\ argv'[k] + Len(vec[k + 1])
                    < IF k = argc - 1 THEN bufp ELSE argv'[k + 1]
               /\ argv'[k] + Len(vec[k + 1]) <= BufSz
               /\ \A i \in 1 .. Len(vec[k + 1]) :
                    args[argv'[k] + i - 1] = vec[k + 1][i]
    <3>1. argv'[k] = argv[k] /\ (k # argc - 1 => argv'[k + 1] = argv[k + 1])
      BY <1>1, <1>3, <2>2
    <3>2. Len(vec[k + 1]) \in Nat
      BY <1>1, VecType
    <3>3. /\ argv[k] \in 0 .. BufSz
          /\ After(k) = argv[k] + Len(vec[k + 1]) + 1
      BY <1>1 DEF Adjacent
    <3>4. /\ argv[k] + Len(vec[k + 1]) <= BufSz
          /\ \A i \in 1 .. Len(vec[k + 1]) :
               args[argv[k] + i - 1] = vec[k + 1][i]
      BY <1>1 DEF Stands
    <3>5. argv[k] + Len(vec[k + 1])
            < IF k = argc - 1 THEN bufp ELSE argv'[k + 1]
      BY <1>1, <3>1, <3>2, <3>3 DEF After
    <3> QED
      BY <3>1, <3>3, <3>4, <3>5
  <2>5. Placed(ret)'
    BY <1>1, <2>1, <2>4 DEF Placed
  <2>6. MainFindsArguments'
    BY <1>1, <1>3, <2>1, <2>2, <2>5 DEF MainFindsArguments
  <2>7. Fits(vec)
    <3> DEFINE e == [k \in 0 .. argc |-> IF k = argc THEN bufp ELSE argv[k]]
    <3>1. e \in [0 .. Len(vec) -> 0 .. BufSz + 1]
      <4>1. ASSUME NEW k \in 0 .. argc, k # argc
            PROVE  argv[k] \in 0 .. BufSz + 1
        <5>1. k \in 0 .. argc - 1
          BY <1>1, <4>1
        <5> QED
          BY <1>1, <5>1 DEF Adjacent
      <4> QED
        BY <1>1, <4>1
    <3>2. e[0] = 0
      BY <1>1 DEF Adjacent
    <3>3. ASSUME NEW k \in 1 .. Len(vec)
          PROVE  e[k] = e[k - 1] + Len(vec[k]) + 1
      <4>1. k - 1 \in 0 .. argc - 1 /\ (k - 1) + 1 = k
        BY <1>1
      <4>2. After(k - 1) = argv[k - 1] + Len(vec[k]) + 1
        BY <1>1, <4>1 DEF Adjacent
      <4>3. e[k] = After(k - 1) /\ e[k - 1] = argv[k - 1]
        BY <1>1, <4>1 DEF After
      <4> QED
        BY <4>2, <4>3
    <3> QED
      BY <1>1, <1>3, <3>1, <3>2, <3>3 DEF Fits
  <2> QED
    BY <1>1, <2>1, <2>3, <2>6, <2>7 DEF Inv, LoopInv, RefusesTheRest, Fits
<1> QED
  BY <1>1, <1>2, <1>3 DEF Finish

(* The two refusals inside the loop are right.                             *)
LEMMA RefusedInv ==
  ASSUME Inv, TooMany \/ TooLong
  PROVE  Inv'
<1> USE GetArgvAssumption
<1>1. /\ argc \in Nat /\ argc < Len(vec) /\ bufp \in Nat
      /\ vec \in Vec \cup {<<>>}
      /\ OneSum
      /\ UNCHANGED <<vec, argc, bufp, args, argv>>
      /\ ret' = -1 /\ pc' = "exit256"
  BY VecType DEF Inv, TypeOK, LoopInv, TooMany, TooLong, InLoop, Return
<1>2. ASSUME ArgvSz < argc
      PROVE  ~ Fits(vec)
  BY <1>1, <1>2, VecType DEF Fits
<1>3. ASSUME BufSz - bufp < strlen
      PROVE  ~ Fits(vec)
  <2>1. ASSUME NEW e \in Sums(vec), AddsUp(vec, e)
        PROVE  FALSE
    <3>1. e[argc] = bufp
      BY <1>1, <2>1 DEF OneSum
    <3>2. argc + 1 \in 1 .. Len(vec) /\ (argc + 1) - 1 = argc
      BY <1>1, VecType
    <3>3. e[argc + 1] = e[argc] + strlen + 1
      BY <2>1, <3>2 DEF AddsUp, strlen, Arg
    <3>4. strlen \in Nat
      BY <1>1, <3>2, VecType DEF strlen, Arg
    <3>5. e[argc + 1] \in 0 .. BufSz + 1
      <4>1. e \in [0 .. Len(vec) -> 0 .. BufSz + 1]
        BY <2>1 DEF Sums
      <4>2. argc + 1 \in 0 .. Len(vec)
        BY <1>1, VecType
      <4> QED BY ONLY <4>1, <4>2
    <3> QED
      BY <1>1, <1>3, <3>1, <3>3, <3>4, <3>5
  <2> QED
    BY <2>1 DEF Fits, Sums, AddsUp
<1>4. ~ Fits(vec)
  BY <1>2, <1>3 DEF TooMany, TooLong, Fits
<1>5. TypeOK'
  BY <1>1 DEF Inv, TypeOK
<1>6. (~ Fits(vec))'
  BY <1>1, <1>4 DEF Fits
<1> QED
  BY <1>1, <1>5, <1>6 DEF Inv, LoopInv, MainFindsArguments, RefusesTheRest

(* The steps outside sys_getargv.                                          *)
LEMMA OutsideInv ==
  ASSUME Inv, OtherProgram \/ Start \/ Exit \/ UNCHANGED vars
  PROVE  Inv'
<1> USE GetArgvAssumption
<1>1. CASE OtherProgram
  BY <1>1 DEF Inv, TypeOK, LoopInv, MainFindsArguments, RefusesTheRest,
              OtherProgram
<1>2. CASE Start
  <2>1. /\ vec' \in Vec /\ argc' = 0 /\ bufp' = 0 /\ pc' = "loop"
        /\ args' = args /\ ret' = ret
        /\ argv' = [i \in 0 .. ArgvSz |-> IF i = ArgvSz THEN Saved ELSE Unset]
    BY <1>2 DEF Start
  <2>2. Len(vec') \in Nat
    BY <2>1, VecType
  <2>3. TypeOK'
    BY <2>1 DEF Inv, TypeOK
  <2>4. Adjacent' /\ Stands'
    BY <2>1 DEF Adjacent, Stands
  <2>5. OneSum'
    BY <2>1 DEF OneSum, AddsUp
  <2>6. LoopInv'
    BY <2>1, <2>2, <2>4, <2>5 DEF LoopInv
  <2> QED
    BY <2>1, <2>3, <2>6 DEF Inv, MainFindsArguments, RefusesTheRest
<1>3. CASE Exit
  BY <1>3 DEF Inv, TypeOK, LoopInv, MainFindsArguments, RefusesTheRest, Exit
<1>4. CASE UNCHANGED vars
  <2>1. UNCHANGED <<args, argv, vec, argc, bufp, ret, pc>>
    BY <1>4 DEF vars
  <2>2. TypeOK'
    BY <2>1 DEF Inv, TypeOK
  <2>3. LoopInv'
    <3>1. Adjacent' <=> Adjacent
      BY <2>1 DEF Adjacent, After
    <3>2. Stands' <=> Stands
      BY <2>1 DEF Stands
    <3>3. OneSum' <=> OneSum
      BY <2>1 DEF OneSum, Sums, AddsUp
    <3> QED
      BY <2>1, <3>1, <3>2, <3>3 DEF Inv, LoopInv
  <2>4. MainFindsArguments'
    BY <2>1 DEF Inv, MainFindsArguments, Placed
  <2>5. RefusesTheRest'
    BY <2>1 DEF Inv, RefusesTheRest, Fits
  <2> QED
    BY <2>2, <2>3, <2>4, <2>5 DEF Inv
<1> QED
  BY <1>1, <1>2, <1>3, <1>4

LEMMA InvHolds == Spec => []Inv
<1>1. Inv /\ [Next]_vars => Inv'
  BY CopyInv, FinishInv, RefusedInv, OutsideInv DEF Next
<1> QED
  BY InitInv, <1>1, PTL DEF Spec

(* The variables keep their types: argc and bufp pass the ends of their    *)
(* buffers by one at most (sys_getargv).                                   *)
THEOREM GetArgvTypeCorrect == Spec => []TypeOK
<1>1. Inv => TypeOK
  BY DEF Inv
<1> QED
  BY InvHolds, <1>1, PTL

(* A program that gets to main has its arguments, whole and apart, and its *)
(* NULL (sys_getargv, _main).                                              *)
THEOREM ArgumentsCorrect == Spec => []MainFindsArguments
<1>1. Inv => MainFindsArguments
  BY DEF Inv
<1> QED
  BY InvHolds, <1>1, PTL

(* sys_getargv refuses a vector exactly when it does not fit.              *)
THEOREM RefusalCorrect == Spec => []RefusesTheRest
<1>1. Inv => RefusesTheRest
  BY DEF Inv
<1> QED
  BY InvHolds, <1>1, PTL

(* The kernel writes nothing behind the buffer it is given (sys_getargv).  *)
THEOREM WritesBounded == Spec => ArgsBounded
<1>1. ASSUME Inv, Next, pc = "loop", NEW i \in Cell, i >= BufSz
      PROVE  args'[i] = args[i]
  <2>1. args \in [Cell -> Byte] /\ bufp \in 0 .. BufSz + 1
    BY <1>1 DEF Inv, TypeOK
  <2>2. CASE Copy
    <3>1. args' = Copied /\ BufSz - bufp >= strlen
      BY <2>2 DEF Copy
    <3>2. strlen \in Nat
      <4>1. vec \in Vec \cup {<<>>} /\ argc \in 0 .. ArgvSz + 1 /\ argc < Len(vec)
        BY <1>1, <2>2 DEF Inv, TypeOK, Copy, InLoop
      <4> QED
        BY <4>1, VecType, GetArgvAssumption DEF strlen, Arg
    <3>3. i \notin bufp .. bufp + strlen - 1
      BY <1>1, <2>1, <3>1, <3>2, GetArgvAssumption DEF Cell, Behind
    <3> QED
      BY <2>1, <3>1, <3>3 DEF Copied
  <2> QED
    BY <1>1, <2>2 DEF Next, OtherProgram, Start, TooMany, TooLong, Finish, Exit
<1>2. Inv /\ [Next]_vars
        => [pc = "loop" => \A i \in Cell : i >= BufSz => args'[i] = args[i]]_vars
  BY <1>1
<1> QED
  BY InvHolds, <1>2, PTL DEF Spec, ArgsBounded
=============================================================================
