----------------------------- MODULE MCConsole ------------------------------
(***************************************************************************)
(* Console with ints of eight bits and six characters of space. One call:  *)
(* every format of up to four characters over '%', the three letters and   *)
(* another one, with two arguments; ints of each length and sign, strings  *)
(* that are empty, fit and do not fit. Two calls, the second shorter or    *)
(* longer than the first, of each of the functions; failed assertions with *)
(* readable and with wild pointers.                                        *)
(***************************************************************************)
EXTENDS Console

Argument ==
  {[n |-> 0, t |-> <<>>], [n |-> 7, t |-> <<97>>], [n |-> -10, t |-> <<97, 98>>],
   [n |-> IntMax, t |-> <<97, 98, 97>>], [n |-> IntMin + 1, t |-> <<98, 97, 98, 97>>],
   [n |-> IntMin, t |-> <<97, 98, 97, 98, 97, 98, 97>>]}
Single == [fn : {"rprintf"}, fmt : UNION {[1 .. n -> {37, 99, 100, 115, 120}] : n \in 0 .. 4},
           args : {<<a, b>> : a \in Argument, b \in Argument}]

Seen == {<<>>, <<98>>, <<97, 98>>}
Asserts ==
  [fn : {"failed_assert"}, fmt : {<<97, 37, 115, 58, 37, 115, 10, 37, 115>>},
   args : {<<[n |-> 0, t |-> s1], [n |-> 0, t |-> s2], [n |-> 0, t |-> s3]>> :
             s1 \in Seen \cup {Wild}, s2 \in Seen \cup {Wild}, s3 \in Seen \cup {Wild}}]
Several ==
  [fn : {"rprintf", "kprint", "panic"}, fmt : {<<37, 115>>, <<120>>, <<37, 115, 37, 100>>},
   args : {<<a, [n |-> -10, t |-> <<97>>]>> : a \in {b \in Argument : b.n # IntMin}}]

MCRuns == {<<cl>> : cl \in Single \cup Asserts}
            \cup {<<cl, dl>> : cl \in Several, dl \in Several}
MCCalls == Single \cup Asserts \cup Several
=============================================================================
