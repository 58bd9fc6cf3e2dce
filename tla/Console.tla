------------------------------ MODULE Console -------------------------------
(***************************************************************************)
(* The callers of vsnprintf: rprintf of the programs (libc/stdio.c), and   *)
(* kprint, panic and failed_assert of the kernel (kernel/util.c), the last *)
(* through snprintf. Each formats into a buffer msg on its stack, which    *)
(* holds what earlier calls left there, and writes out as many characters  *)
(* as vsnprintf counted: by dbg_out, which os_write comes to as well. Its  *)
(* fwrite may write fewer, which none of them looks at.                    *)
(***************************************************************************)
EXTENDS Printf

CONSTANTS
  Runs,        \* sequences of calls; a call names its caller, too: [fn, fmt, args]
  Wild         \* in place of a string: a pointer that cannot be read

Halting == {"panic", "failed_assert"}

ASSUME ConsoleAssumption ==
  /\ \A r \in Runs : r \in Seq(Calls) /\ Len(r) > 0
  /\ \A cl \in Calls :
       /\ cl.fn \in {"rprintf", "kprint"} \cup Halting
       /\ \A i \in 1 .. Len(cl.args) : cl.args[i].t \in {Wild} \cup Seq(1 .. 255)

VARIABLES
  todo, nth,   \* the calls of this run, and which one it is at
  console,     \* the characters written so far
  wrote,       \* history: how many characters the host took, call by call
  cpc          \* format, back in the caller's caller, halted, or killed

cvars == <<todo, nth, console, wrote, cpc>>

CInit ==
  /\ todo \in Runs /\ nth = 1
  /\ call = todo[1] /\ Init
  /\ console = <<>> /\ wrote = <<>>
  /\ cpc = "format"

(* failed_assert passes snprintf none of the strings its format asks for:  *)
(* va_arg takes what the registers hold.                                   *)
Faults == More /\ spec /\ c = Letter.s /\ Arg.t = Wild

vsnprintf ==
  /\ cpc = "format" /\ ~ Faults
  /\ Plain \/ Convert \/ End
  /\ UNCHANGED cvars

WildString ==
  /\ cpc = "format" /\ Faults
  /\ cpc' = "killed"
  /\ UNCHANGED <<vars, todo, nth, console, wrote>>

(* Faulty variant of the next definition: the NUL is written, too.         *)
Msg_WithNul(n) == [i \in 1 .. n + 1 |-> str[i - 1]]

(* The first n characters of msg.                                          *)
Msg(n) == [i \in 1 .. n |-> str[i - 1]]

Written(n) ==
  /\ console' = console \o Msg(n)
  /\ wrote' = Append(wrote, n)
  /\ UNCHANGED <<vars, todo, nth>>

(* rprintf: sys_write calls dbg_out and returns 0, and so does rprintf,    *)
(* whatever was written.                                                   *)
os_write ==
  /\ cpc = "format" /\ pc = "done" /\ call.fn = "rprintf"
  /\ \E n \in 0 .. p : Written(n)
  /\ cpc' = "back"

(* kprint returns, panic and failed_assert halt.                           *)
dbg_out ==
  /\ cpc = "format" /\ pc = "done" /\ call.fn # "rprintf"
  /\ \E n \in 0 .. p : Written(n)
  /\ cpc' = IF call.fn \in Halting THEN "halted" ELSE "back"

NextCall ==
  /\ cpc = "back" /\ nth < Len(todo)
  /\ nth' = nth + 1
  /\ call' = todo[nth + 1]
  /\ format' = 1 /\ ap' = 1 /\ spec' = FALSE /\ p' = 0 /\ pc' = "loop"
  /\ cpc' = "format"
  /\ UNCHANGED <<str, todo, console, wrote>>

Over ==
  /\ cpc \in {"halted", "killed"} \/ (cpc = "back" /\ nth = Len(todo))
  /\ UNCHANGED <<vars, cvars>>

CNext == vsnprintf \/ WildString \/ os_write \/ dbg_out \/ NextCall \/ Over

CSpec == CInit /\ [][CNext]_<<vars, cvars>>
-----------------------------------------------------------------------------
(* What a call is to print: the pieces of its format before the first that *)
(* does not fit.                                                           *)
Message(cl) ==
  LET fits == {n \in 0 .. Len(cl.fmt) : \A k \in 1 .. n : Len(Pieces(cl, k)) <= Size - 2}
  IN Pieces(cl, CHOOSE n \in fits : \A k \in fits : k <= n)

(* The console shows what was printed, call by call, as far as the host    *)
(* wrote it: nothing of an earlier message that is still in msg, no NUL,   *)
(* and nothing behind the message of a panic. IntMin is left out as above. *)
ConsoleSays ==
  (\A k \in 1 .. nth : \A i \in DOMAIN todo[k].args : todo[k].args[i].n # IntMin) =>
    /\ console = FlattenSeq([k \in DOMAIN wrote |-> SubSeq(Message(todo[k]), 1, wrote[k])])
    /\ \A k \in 1 .. nth - 1 : todo[k].fn \notin Halting
=============================================================================
