------------------------------- MODULE Printf -------------------------------
(***************************************************************************)
(* vsnprintf (libc/stdio.c), one character of the format a step. Unlike    *)
(* the C library's it never splits a conversion: it stops before the first *)
(* one that does not fit.                                                  *)
(*                                                                         *)
(* Characters are their codes; str is at 0 .. Size - 1 and what follows    *)
(* belongs to others.                                                      *)
(***************************************************************************)
EXTENDS Integers, SequencesExt

CONSTANTS
  Size,        \* size of str
  IntMax,      \* the largest int
  Digits,      \* sizeof(b), the buffer for one number
  Calls,       \* formats with their arguments: [fmt, args]; an argument is
               \* [n, t], what va_arg makes of it as an int and as a string
  Garbage      \* what str and the memory behind it hold before

IntMin == - IntMax - 1

Percent == 37
Minus == 45
Char0 == 48
Letter == [c |-> 99, d |-> 100, s |-> 115]

(* The weights of decimal digits, as many as b could hold.                 *)
Tens[k \in 0 .. Digits] == IF k = 0 THEN 1 ELSE 10 * Tens[k - 1]

(* Character k of the format follows an odd number of '%'s.                *)
Converts(f, k) ==
  \E n \in 1 .. k - 1 :
    /\ n % 2 = 1
    /\ \A j \in k - n .. k - 1 : f[j] = Percent
    /\ n = k - 1 \/ f[k - n - 1] # Percent

(* The characters up to k that take an argument.                           *)
Takes(f, k) ==
  {j \in 1 .. k : Converts(f, j) /\ f[j] \in {Letter.c, Letter.d, Letter.s}}

(* b takes any int with its sign and one character to spare; callers pass  *)
(* an argument for each conversion.                                        *)
ASSUME PrintfAssumption ==
  /\ Size \in Nat \ {0} /\ Garbage \in 0 .. 255
  /\ IntMax \in Nat
  /\ Digits \in Nat /\ Digits > 2 /\ Tens[Digits - 2] > IntMax
  /\ \A cl \in Calls :
       /\ cl.fmt \in Seq(1 .. 255)
       /\ Len(cl.args) \in Nat /\ DOMAIN cl.args = 1 .. Len(cl.args)
       /\ \A i \in 1 .. Len(cl.args) : cl.args[i].n \in IntMin .. IntMax
       /\ Cardinality(Takes(cl.fmt, Len(cl.fmt))) <= Len(cl.args)

VARIABLES
  str,         \* the buffer and one character behind it
  call,        \* the arguments of the call
  format, ap,  \* how far the format and the arguments are consumed
  spec,        \* the character before was a '%'
  p,           \* where the next character goes
  pc           \* loop, or done: p is the result

vars == <<str, call, format, ap, spec, p, pc>>

Init ==
  /\ call \in Calls
  /\ str = [i \in 0 .. Size |-> Garbage]
  /\ format = 1 /\ ap = 1
  /\ spec = FALSE
  /\ p = 0
  /\ pc = "loop"

(* C's / and % round towards zero.                                         *)
CDiv(n, d) == IF n < 0 THEN - ((- n) \div d) ELSE n \div d
CMod(n, d) == n - d * CDiv(n, d)

(* -d for an int: IntMin stays what it is.                                 *)
Negate(d) == IF d = IntMin THEN IntMin ELSE - d

(* Faulty variant of the next definition: no case for zero.                *)
Decimal_NoZero(d0) ==
  LET d == IF d0 < 0 THEN Negate(d0) ELSE d0
      after[k \in 0 .. Digits - 1] ==
        IF k = 0 THEN [d |-> d, o |-> <<>>]
        ELSE LET b == after[k - 1]
             IN IF b.d = 0 THEN b
                ELSE [d |-> CDiv(b.d, 10),
                      o |-> <<Char0 + CMod(b.d, 10)>> \o b.o]
      o == after[Digits - 1].o
  IN IF d0 < 0 THEN <<Minus>> \o o ELSE o

(* '%d': digits from the last to the first, while there are any and room   *)
(* in b, whose first character is never a digit; then the sign.            *)
Decimal(d0) ==
  LET m == d0 < 0
      d == IF m THEN Negate(d0) ELSE d0
      after[k \in 0 .. Digits - 1] ==
        IF k = 0 THEN [d |-> d, o |-> <<>>]
        ELSE LET b == after[k - 1]
             IN IF b.d = 0 THEN b
                ELSE [d |-> CDiv(b.d, 10),
                      o |-> <<Char0 + CMod(b.d, 10)>> \o b.o]
      o == after[Digits - 1].o
  IN IF d0 = 0 THEN <<Char0>>
     ELSE IF m /\ Len(o) < Digits - 1 THEN <<Minus>> \o o ELSE o

(* Faulty variant of the next definition: the bound is off by one.         *)
Put_OneMore(o) ==
  \/ /\ Len(o) <= Size - p
     /\ str' = [i \in 0 .. Size |->
                  IF i \in p .. p + Len(o) - 1 THEN o[i - p + 1] ELSE str[i]]
     /\ p' = p + Len(o)
     /\ UNCHANGED pc
  \/ /\ Len(o) > Size - p
     /\ str' = [str EXCEPT ![p] = 0]
     /\ pc' = "done"
     /\ UNCHANGED p

(* The end of an iteration: o is copied if it fits with one character to   *)
(* spare, else the loop ends. It always ends with *p = NUL.                *)
Put(o) ==
  \/ /\ Len(o) < Size - p - 1
     /\ str' = [i \in 0 .. Size |->
                  IF i \in p .. p + Len(o) - 1 THEN o[i - p + 1] ELSE str[i]]
     /\ p' = p + Len(o)
     /\ UNCHANGED pc
  \/ /\ Len(o) >= Size - p - 1
     /\ str' = [str EXCEPT ![p] = 0]
     /\ pc' = "done"
     /\ UNCHANGED p

More == pc = "loop" /\ format <= Len(call.fmt)
c == call.fmt[format]
Arg == call.args[ap]

(* An ordinary character, or the '%' before a conversion.                  *)
Plain ==
  /\ More /\ ~ spec
  /\ spec' = (c = Percent)
  /\ Put(IF c = Percent THEN <<>> ELSE <<c>>)
  /\ format' = format + 1
  /\ UNCHANGED <<call, ap>>

(* The character after a '%'.                                              *)
Convert ==
  /\ More /\ spec
  /\ Put(IF c = Letter.s THEN Arg.t
         ELSE IF c = Letter.d THEN Decimal(Arg.n)
         ELSE IF c = Letter.c THEN <<Arg.n % 256>>
         ELSE <<c>>)
  /\ ap' = IF c \in {Letter.s, Letter.d, Letter.c} THEN ap + 1 ELSE ap
  /\ spec' = FALSE
  /\ format' = format + 1
  /\ UNCHANGED call

(* The end of the format.                                                  *)
End ==
  /\ pc = "loop" /\ format > Len(call.fmt)
  /\ str' = [str EXCEPT ![p] = 0]
  /\ pc' = "done"
  /\ UNCHANGED <<call, format, ap, spec, p>>

Done == pc = "done" /\ UNCHANGED vars

Next == Plain \/ Convert \/ End \/ Done

Spec == Init /\ [][Next]_vars
-----------------------------------------------------------------------------
TypeOK ==
  /\ \A i \in 0 .. Size : str[i] \in 0 .. 255
  /\ call \in Calls
  /\ format \in 1 .. Len(call.fmt) + 1
  /\ ap \in 1 .. Len(call.args) + 1
  /\ spec \in BOOLEAN
  /\ p \in 0 .. Size - 1
  /\ pc \in {"loop", "done"}

(* The decimal notation of d by its digits' weights.                       *)
Notation(d) ==
  LET n == IF d < 0 THEN - d ELSE d
      len == CHOOSE l \in 1 .. Digits :
               n < Tens[l] /\ \A k \in 1 .. l - 1 : n >= Tens[k]
      digits == [i \in 1 .. len |-> Char0 + ((n \div Tens[len - i]) % 10)]
  IN IF d < 0 THEN <<Minus>> \o digits ELSE digits

(* What character k of the format of call cl stands for.                   *)
Piece(cl, k) ==
  LET f == cl.fmt
      arg == cl.args[Cardinality(Takes(f, k))]
  IN IF ~ Converts(f, k) THEN IF f[k] = Percent THEN <<>> ELSE <<f[k]>>
     ELSE IF f[k] = Letter.s THEN arg.t
     ELSE IF f[k] = Letter.d THEN Notation(arg.n)
     ELSE IF f[k] = Letter.c THEN <<arg.n % 256>>
     ELSE <<f[k]>>

Pieces(cl, n) == FlattenSeq([k \in 1 .. n |-> Piece(cl, k)])

(* The result is what the format stands for, cut, if at all, before the    *)
(* first piece that would leave no character of str to spare: a number or  *)
(* a string is never printed in part. It ends with NUL and nothing behind  *)
(* str is written. IntMin is left out: its negation is itself, and its     *)
(* digits come out as other characters.                                    *)
PrintsWholePieces ==
  (pc = "done" /\ \A i \in DOMAIN call.args : call.args[i].n # IntMin) =>
    /\ str[p] = 0 /\ str[Size] = Garbage
    /\ \E n \in 0 .. Len(call.fmt) :
         /\ [i \in 1 .. p |-> str[i - 1]] = Pieces(call, n)
         /\ n < Len(call.fmt) => p + Len(Piece(call, n + 1)) > Size - 2
=============================================================================
