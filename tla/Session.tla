------------------------------ MODULE Session -------------------------------
(***************************************************************************)
(* A session at the console: the shell with the programs it runs, echo.c   *)
(* and echocode.c, started by _main and sys_getargv. echocode runs the     *)
(* program its arguments name, on a stack of its own above its own.        *)
(*                                                                         *)
(* All programs take the same number of pages, so those run at one depth   *)
(* follow one another on the same stack and find in the buffer args of     *)
(* _main what the last one left there. A child runs and exits within       *)
(* os_run of its parent, so all it does is one step. When there are as     *)
(* many programs as the pool has processes, os_run fails.                  *)
(***************************************************************************)
EXTENDS Shell

CONSTANTS
  Keyboards,   \* a sequence of sets of lines, what may be typed in a session
  Echo,        \* "echo"
  EchoCode,    \* "echocode"
  ArgsSz,      \* ARRAY_SIZE(args) in _main
  ArgvSz,      \* ARRAY_SIZE(argv) in _main
  Depth        \* how many processes the shell leaves free

Strings == Seq(1 .. 255)
Vectors == Seq(Strings) \ {<<>>}

ASSUME SessionAssumption ==
  /\ UNION {Keyboards[k] : k \in DOMAIN Keyboards} = Input
  /\ Echo \in Strings /\ EchoCode \in Strings /\ Echo # EchoCode
  /\ ArgsSz \in Nat \ {0} /\ ArgvSz \in Nat \ {0} /\ Depth \in Nat

VARIABLES
  kbd,         \* which of them is this session's
  left,        \* the buffer args and what lies behind it, for each number of
               \* processes free when a program is run
  out,         \* what the programs of the line have printed
  stale        \* history: an argument was copied to where no NUL was behind it

svars == <<vars, kbd, left, out, stale>>

Fresh == [i \in 1 .. ArgsSz + 2 |-> NUL]

(* What may be left: any characters up to a NUL behind the buffer.         *)
Lefts == [1 .. Depth -> {b \in [1 .. ArgsSz + 2 -> 0 .. 255] : b[ArgsSz + 2] = NUL}]

SInit ==
  /\ Init
  /\ kbd \in DOMAIN Keyboards
  /\ left = [n \in 1 .. Depth |-> Fresh]
  /\ out = <<>> /\ stale = FALSE
-----------------------------------------------------------------------------
(* Faulty variant of the next definition: no character is left between     *)
(* two strings.                                                            *)
Take_NoGap(g, w) ==
  IF ArgvSz < Len(g.argv) \/ ArgsSz - g.bufp < Len(w)
  THEN [g EXCEPT !.ret = -1]
  ELSE [g EXCEPT !.buf = strcpy(g.buf, g.bufp + 1, w),
                 !.argv = Append(g.argv, g.bufp + 1),
                 !.bufp = g.bufp + Len(w)]

(* One round of the loop of sys_getargv for the string w.                  *)
Take(g, w) ==
  IF ArgvSz < Len(g.argv) \/ ArgsSz - g.bufp < Len(w)
  THEN [g EXCEPT !.ret = -1]
  ELSE [g EXCEPT !.buf = strcpy(g.buf, g.bufp + 1, w),
                 !.argv = Append(g.argv, g.bufp + 1),
                 !.bufp = g.bufp + Len(w) + 1]

(* os_getargv of a program run with the strings words: argv points into    *)
(* buf; ret is -1 if it is refused.                                        *)
getargv(words, buf) ==
  LET loop[k \in 0 .. Len(words)] ==
        LET g == loop[k - 1]
        IN IF k = 0 THEN [ret |-> 0, buf |-> buf, argv |-> <<>>, bufp |-> 0]
           ELSE IF g.ret < 0 THEN g ELSE Take(g, words[k])
      end == loop[Len(words)]
  IN IF Len(end.argv) >= ArgvSz THEN [end EXCEPT !.ret = -1] ELSE end

(* echo.c: each argument with a blank or, the last, a newline behind it.   *)
echo(argv0) ==
  [i \in 1 .. Len(argv0) - 1 |->
     <<"word", argv0[i + 1], IF i = Len(argv0) - 1 THEN "newline" ELSE "blank">>]

Usage == << <<"Not enough arguments">> >>
FailedToRun == << <<"Failed to run">> >>
ExitCode(n) == << <<"Exit code", n>> >>

(* What echocode runs: argv + 1.                                           *)
ChildVector(argv0) == Tail(argv0)

(* A program that os_run has started, with n processes free before it and  *)
(* "below" what os_run does for it: the result, the exit code, what is left *)
(* in the buffers and printed, whether a string had no NUL behind it.      *)
Program(words, l, n, below) ==
  LET g == getargv(words, l[n])
      lg == [l EXCEPT ![n] = g.buf]
      seen == [i \in DOMAIN g.argv |-> StringAt(g.buf, g.argv[i])]
      dirty == g.ret = 0 /\ \E i \in DOMAIN words :
                               l[n][g.argv[i] + Len(words[i])] # NUL
      child == below[ChildVector(seen)][lg]
  IN CASE g.ret < 0 ->
            [ret |-> 0, code |-> 256, left |-> lg, out |-> <<>>, stale |-> FALSE]
       [] g.ret = 0 /\ words[1] = Echo ->
            [ret |-> 0, code |-> 0, left |-> lg, out |-> echo(seen), stale |-> dirty]
       [] g.ret = 0 /\ words[1] # Echo /\ Len(seen) < 2 ->
            [ret |-> 0, code |-> 1, left |-> lg, out |-> Usage, stale |-> dirty]
       [] OTHER ->
            [ret |-> 0, code |-> IF child.ret # 0 THEN 1 ELSE 0, left |-> child.left,
             out |-> child.out \o IF child.ret # 0 THEN FailedToRun
                                  ELSE ExitCode(child.code),
             stale |-> dirty \/ child.stale]

(* os_run(words, &code) with n processes free. It fails if none is, or if  *)
(* there is no such program.                                               *)
Exec[n \in 0 .. Depth] ==
  [words \in Vectors |-> [l \in Lefts |->
     IF n = 0 \/ words[1] \notin {Echo, EchoCode}
     THEN [ret |-> -1, code |-> -1, left |-> l, out |-> <<>>, stale |-> FALSE]
     ELSE Program(words, l, n, Exec[n - 1])]]

(* The shell's os_run(argv, NULL).                                         *)
SRun ==
  /\ Run
  /\ LET r == Exec[Depth][Last(ran')][left]
     IN /\ left' = r.left
        /\ out' = out \o r.out
        /\ stale' = (stale \/ r.stale)
  /\ UNCHANGED kbd

Reads ==
  /\ \/ \E l \in Keyboards[kbd] : Typed(l)
     \/ ReadFails \/ EndOfInput
  /\ out' = <<>> /\ stale' = FALSE
  /\ UNCHANGED <<kbd, left>>

Cuts == (NextCommand \/ NextWord) /\ UNCHANGED <<kbd, left, out, stale>>

SNext == Reads \/ Cuts \/ SRun \/ (Finished /\ UNCHANGED svars)

(* Fair as the shell is: its thread is not stopped and programs exit.      *)
SSpec == SInit /\ [][SNext]_svars /\ WF_vars(Work)
-----------------------------------------------------------------------------
(* The characters of the words, one more for each.                         *)
Chars(words) ==
  LET upTo[k \in 0 .. Len(words)] ==
        IF k = 0 THEN 0 ELSE upTo[k - 1] + Len(words[k]) + 1
  IN upTo[Len(words)]

(* What a program has room for.                                            *)
Fits(words) == Len(words) < ArgvSz /\ Chars(words) <= ArgsSz + 1

(* What the command "words" stands for while n processes are free: whether *)
(* it can be run, its exit code, what it prints. A program has its words,  *)
(* if they fit, and no memory of the programs before it.                   *)
Meaning[n \in 0 .. Depth] ==
  [words \in Vectors |->
     LET child == Meaning[n - 1][Tail(words)]
     IN CASE n = 0 \/ words[1] \notin {Echo, EchoCode} ->
               [runs |-> FALSE, code |-> -1, out |-> <<>>]
          [] n > 0 /\ words[1] \in {Echo, EchoCode} /\ ~ Fits(words) ->
               [runs |-> TRUE, code |-> 256, out |-> <<>>]
          [] n > 0 /\ words[1] = Echo /\ Fits(words) ->
               [runs |-> TRUE, code |-> 0, out |-> echo(words)]
          [] n > 0 /\ words = <<EchoCode>> /\ Fits(words) ->
               [runs |-> TRUE, code |-> 1, out |-> Usage]
          [] OTHER ->
               [runs |-> TRUE, code |-> IF child.runs THEN 0 ELSE 1,
                out |-> child.out \o IF child.runs THEN ExitCode(child.code)
                                     ELSE FailedToRun]]

Said == FlattenSeq([k \in DOMAIN Asked(line) |-> Meaning[Depth][Asked(line)[k]].out])

(* A line prints what its commands stand for, nested programs included,    *)
(* whatever ran before it and is left in the buffers, unless a string that *)
(* strcpy copied met other characters than a NUL behind it.                *)
PrintsWhatIsAsked ==
  pc = "prompt" /\ Terminated /\ ~ stale => out = Said
=============================================================================
