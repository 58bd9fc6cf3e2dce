----------------------------- MODULE MCSession ------------------------------
(***************************************************************************)
(* Session with a buffer of eight characters. Keyboard: every line of up   *)
(* to four letters, spaces and separators and those of five that begin and *)
(* end with a letter, lines that fill the buffer, lines with a NUL or a    *)
(* newline inside, none of which names a program; memory behind the buffer *)
(* separates or goes on. The letter at position i of a line is 96 + i, so  *)
(* a word tells where it comes from.                                       *)
(* Sessions: p is echo, q echocode; words that grow and shrink, commands   *)
(* side by side and nested, without arguments, with too many or too long   *)
(* ones, and of programs that do not exist.                                *)
(***************************************************************************)
EXTENDS Session

Lettered(f) == [i \in DOMAIN f |-> IF f[i] = 0 THEN 96 + i ELSE f[i]]
Keyboard ==
  {Lettered(f) : f \in UNION {[1 .. n -> {0, 32, 59}] : n \in 1 .. 4}
                         \cup {f \in [1 .. 5 -> {0, 32, 59}] : f[1] = 0 /\ f[5] = 0}}
    \cup {Lettered(<<0, 32, 0, 59, 32, 0, 0, 0>>), Lettered(<<32, 59, 0, 32, 0, 0, 0, 32>>)}
    \cup {<<97, 0, 97>>, <<0>>, <<97, 10, 98>>}

a == 97
b == 98
p == 112
q == 113
x == 120
sp == 32
semi == 59
MCEcho == <<p>>
MCEchoCode == <<q>>
MCKeyboards ==
  << Keyboard,
    {<<p, sp, a, b>>, <<p, sp, b>>, <<p>>, <<p, sp, a, semi, p, sp, b>>},
    {<<p, sp, a, sp, b>>, <<p, sp, b, b, b>>, <<p, sp, a, a, b, b, b>>},
    {<<q, sp, p, sp, a>>, <<q, sp, x>>, <<q>>, <<q, sp, p, sp, b, b>>},
    {<<q, sp, q, sp, x>>, <<q, sp, q, sp, p>>, <<q, sp, q>>, <<q, sp, p>>, <<p, sp, a>>},
    {<<q, sp, p, sp, a, sp, b>>, <<q, semi, x, semi, p, sp, a>>, <<q, sp, p, sp, b>>} >>
MCBehind == {<<97, 0>>, <<59, 97, 0>>}
MCInput == UNION {MCKeyboards[k] : k \in DOMAIN MCKeyboards}
=============================================================================
