------------------------------- MODULE Shell --------------------------------
(***************************************************************************)
(* apps/shell.c: read a buffer, cut it into commands with strtok_r, cut    *)
(* each command into words with a second, nested strtok_r on the same      *)
(* memory, run the command. A child runs and exits within os_run, so the   *)
(* call is one step; with code NULL it leaves the shell's memory alone.    *)
(*                                                                         *)
(* The buffer is at 1 .. BufSize; the addresses after it are whatever the  *)
(* compiler put there.                                                     *)
(***************************************************************************)
EXTENDS LibcString, SequencesExt

CONSTANTS
  BufSize,     \* sizeof(buffer), also the number of elements of argv
  Input,       \* what one os_read may deliver
  Behind,      \* what may lie behind the buffer, up to a NUL
  Uninit       \* characters an uninitialised buffer may be filled with

ASSUME ShellAssumption ==
  /\ BufSize \in Nat \ {0}
  /\ \A l \in Input : l \in Seq(0 .. 255) /\ Len(l) \in 1 .. BufSize
  /\ \A b \in Behind : b \in Seq(0 .. 255) /\ Len(b) > 0 /\ Last(b) = NUL
  /\ Uninit \subseteq 0 .. 255

comsep == {10, 59}             \* "\n;"
argsep == {32}                 \* " "

VARIABLES
  mem,         \* the buffer and what lies behind it
  bytes,       \* what os_read returned
  stcmd,       \* saveptr of the outer strtok_r
  starg,       \* saveptr of the inner one
  argv,        \* the words of the command so far; argc is their number
  pc,
  line,        \* history: the input read last
  ran          \* history: the argument vectors run since then

vars == <<mem, bytes, stcmd, starg, argv, pc, line, ran>>

Init ==
  /\ \E b \in Behind, c \in Uninit :
       mem = [a \in 1 .. BufSize + Len(b) |->
                IF a <= BufSize THEN c ELSE b[a - BufSize]]
  /\ bytes = 0
  /\ stcmd = 1 /\ starg = 1
  /\ argv = <<>>
  /\ pc = "prompt"
  /\ line = <<>> /\ ran = <<>>

(* os_read returns 0 at the end of the input: the shell returns from main. *)
EndOfInput ==
  /\ pc = "prompt"
  /\ bytes' = 0
  /\ pc' = "done"
  /\ UNCHANGED <<mem, stcmd, starg, argv, line, ran>>

(* os_read delivers line l. One that fills the buffer has no terminator.   *)
Typed(l) ==
  /\ pc = "prompt"
  /\ bytes' = Len(l)
  /\ line' = l
  /\ mem' = memcpy(mem, 1, IF Len(l) < BufSize THEN Append(l, NUL) ELSE l)
  /\ stcmd' = 1 /\ ran' = <<>> /\ pc' = "command"
  /\ UNCHANGED <<starg, argv>>
ReadLine == \E l \in Input : Typed(l)

(* os_read returns -1, which compares as a size_t, so it is not less than  *)
(* sizeof(buffer): the shell goes on with the buffer as it is.             *)
ReadFails ==
  /\ pc = "prompt"
  /\ bytes' = -1
  /\ line' = <<>>
  /\ stcmd' = 1 /\ ran' = <<>> /\ pc' = "command"
  /\ UNCHANGED <<mem, starg, argv>>

(* strtok_r(buffer, comsep, &stcmd), later strtok_r(NULL, comsep, &stcmd): *)
(* the next command, or back to the prompt.                                *)
NextCommand ==
  LET t == strtok_r(mem, stcmd, comsep)
  IN /\ pc = "command"
     /\ mem' = t.mem
     /\ stcmd' = t.save
     /\ \/ /\ t.tok = NULL
           /\ pc' = "prompt"
           /\ UNCHANGED <<starg, argv>>
        \/ /\ t.tok # NULL
           /\ pc' = "word"
           /\ starg' = t.tok
           /\ argv' = <<>>
     /\ UNCHANGED <<bytes, line, ran>>

(* Faulty variant of the next action: "continue" instead of "break".       *)
NextWord_Continues ==
  LET t == strtok_r(mem, starg, argsep)
  IN /\ pc = "word"
     /\ mem' = t.mem
     /\ starg' = t.save
     /\ \/ t.tok # NULL /\ argv' = Append(argv, t.tok) /\ UNCHANGED pc
        \/ t.tok = NULL /\ argv # <<>> /\ pc' = "run" /\ UNCHANGED argv
        \/ t.tok = NULL /\ argv = <<>> /\ UNCHANGED <<pc, argv>>
     /\ UNCHANGED <<bytes, stcmd, line, ran>>

(* strtok_r(cmd, argsep, &starg), later strtok_r(NULL, argsep, &starg):    *)
(* one word more; or the vector is complete; or the command has no words   *)
(* and "break" leaves the loop over the commands, not only this one.       *)
NextWord ==
  LET t == strtok_r(mem, starg, argsep)
  IN /\ pc = "word"
     /\ mem' = t.mem
     /\ starg' = t.save
     /\ \/ t.tok # NULL /\ argv' = Append(argv, t.tok) /\ UNCHANGED pc
        \/ t.tok = NULL /\ argv # <<>> /\ pc' = "run" /\ UNCHANGED argv
        \/ t.tok = NULL /\ argv = <<>> /\ pc' = "prompt" /\ UNCHANGED argv
     /\ UNCHANGED <<bytes, stcmd, line, ran>>

(* os_run(argv, NULL), its result ignored. The child reads its arguments   *)
(* from the shell's buffer.                                                *)
Run ==
  /\ pc = "run"
  /\ ran' = Append(ran, [i \in DOMAIN argv |-> StringAt(mem, argv[i])])
  /\ pc' = "command"
  /\ UNCHANGED <<mem, bytes, stcmd, starg, argv, line>>

Work == NextCommand \/ NextWord \/ Run

Finished == pc = "done" /\ UNCHANGED vars

Next == EndOfInput \/ ReadLine \/ ReadFails \/ Work \/ Finished

(* The shell's thread is not stopped, and a child it runs exits.           *)
Spec == Init /\ [][Next]_vars /\ WF_vars(Work)
-----------------------------------------------------------------------------
TypeOK ==
  /\ DOMAIN mem \in {1 .. BufSize + Len(b) : b \in Behind}
  /\ \A a \in DOMAIN mem : mem[a] \in 0 .. 255
  /\ bytes \in -1 .. BufSize
  /\ stcmd \in DOMAIN mem /\ starg \in DOMAIN mem
  /\ argv \in Seq(DOMAIN mem)
  /\ pc \in {"prompt", "command", "word", "run", "done"}
  /\ line \in Seq(0 .. 255) /\ Len(line) <= BufSize

(* The maximal runs of characters of "text" outside seps, in order.        *)
Words(text, seps) ==
  LET Starts == {i \in 1 .. Len(text) :
                   text[i] \notin seps /\ (i = 1 \/ text[i - 1] \in seps)}
      Start(k) == CHOOSE i \in Starts : Cardinality({j \in Starts : j <= i}) = k
      End(i) == CHOOSE j \in i .. Len(text) :
                  /\ \A a \in i .. j : text[a] \notin seps
                  /\ j = Len(text) \/ text[j + 1] \in seps
  IN [k \in 1 .. Cardinality(Starts) |-> SubSeq(text, Start(k), End(Start(k)))]

(* The part of s before the first element in stop.                         *)
Before(s, stop) ==
  SubSeq(s, 1, Max({n \in 0 .. Len(s) : \A i \in 1 .. n : s[i] \notin stop}))

(* What a line asks for: the words of its commands, up to the first        *)
(* command that is blank. A NUL ends the line.                             *)
Asked(l) ==
  LET commands == Words(Before(l, {NUL}), comsep)
      vectors == [k \in DOMAIN commands |-> Words(commands[k], argsep)]
  IN Before(vectors, {<<>>})

(* The last read delivered a line and left room for the terminator.        *)
Terminated == bytes \in 1 .. BufSize - 1

(* The two tokenizers, which cut the same memory in turn, do not disturb   *)
(* each other: the shell runs what the line asks for, in this order,       *)
(* nothing left over from an earlier line, and all of it by the prompt.    *)
RunsItsCommands ==
  Terminated =>
    /\ IsPrefix(ran, Asked(line))
    /\ pc = "prompt" => ran = Asked(line)

(* No two words touch, so at most every other character of the line starts *)
(* one: argv, with as many elements as the buffer has characters, is more  *)
(* than enough for them and the NULL.                                      *)
ArgvFits ==
  Terminated /\ pc \in {"word", "run"} => 2 * Len(argv) <= bytes + 1

(* Every line is worked off and the shell prompts again, also after a line *)
(* without terminator and after a failed read: the nested loops end.       *)
PromptsAgain == pc \in {"command", "word", "run"} ~> pc = "prompt"
=============================================================================
