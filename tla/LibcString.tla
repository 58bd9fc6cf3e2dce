----------------------------- MODULE LibcString -----------------------------
(***************************************************************************)
(* libc/string.c over a memory m, a function from addresses to character   *)
(* codes. The addresses are an interval; reading outside it is an error.   *)
(* A set of separators is given as the set of its characters.              *)
(***************************************************************************)
EXTENDS KUtil, Functions, Sequences

NUL == 0

(* The loops that advance s over a string: the first address from s on   *)
(* that holds NUL or a character of the set stop.                          *)
Scan(m, s, stop) ==
  LET from[p \in DOMAIN m] ==
        IF m[p] \in stop \cup {NUL} THEN p ELSE from[p + 1]
  IN from[s]

strlen(m, s) == Scan(m, s, {}) - s
strspn(m, s, accept) == Scan(m, s, Range(m) \ accept) - s
strcspn(m, s, reject) == Scan(m, s, reject) - s

(* What a reader of the string at s sees.                                  *)
StringAt(m, s) == [i \in 1 .. strlen(m, s) |-> m[s + i - 1]]

(* memcpy of the characters of the sequence w.                             *)
memcpy(m, dest, w) ==
  [a \in DOMAIN m |-> IF a \in dest .. dest + Len(w) - 1
                      THEN w[a - dest + 1] ELSE m[a]]

(* Strings that are not part of a memory are sequences that end in NUL.    *)
(* Faulty variant of strcmp: it stops at the end of either string.         *)
strcmp_Prefix(s1, s2) ==
  LET ends(i) == s1[i] = NUL \/ s2[i] = NUL \/ s1[i] # s2[i]
      p == CHOOSE i \in DOMAIN s1 : ends(i) /\ \A j \in 1 .. i - 1 : ~ ends(j)
  IN IF s1[p] = NUL \/ s2[p] = NUL THEN 0 ELSE s1[p] - s2[p]

(* strcmp: the difference of the first characters that differ or end s1.   *)
strcmp(s1, s2) ==
  LET ends(i) == s1[i] = NUL \/ s1[i] # s2[i]
      p == CHOOSE i \in DOMAIN s1 : ends(i) /\ \A j \in 1 .. i - 1 : ~ ends(j)
  IN s1[p] - s2[p]

(* memcmp of the first n characters.                                       *)
memcmp(s1, s2, n) ==
  LET differ == {i \in 1 .. n : s1[i] # s2[i]}
      p == CHOOSE i \in differ : \A j \in differ : i <= j
  IN IF differ = {} THEN 0 ELSE s1[p] - s2[p]

(* strcpy of the string w: the loop ends at the NUL of the source and does *)
(* not copy it.                                                            *)
strcpy(m, dest, w) == memcpy(m, dest, w)

(* Faulty variants of strtok_r: the next call starts at the terminator; or *)
(* behind it even at the end; separators before a token are not skipped.   *)
strtok_r_StopsAtEnd(m, s, delim) ==
  LET t == s + strspn(m, s, delim)
      e == t + strcspn(m, t, delim)
  IN IF m[t] = NUL THEN [tok |-> NULL, save |-> t, mem |-> m]
     ELSE [tok |-> t, save |-> e, mem |-> [m EXCEPT ![e] = NUL]]
strtok_r_PastEnd(m, s, delim) ==
  LET t == s + strspn(m, s, delim)
      e == t + strcspn(m, t, delim)
  IN IF m[t] = NUL THEN [tok |-> NULL, save |-> t, mem |-> m]
     ELSE [tok |-> t, save |-> e + 1, mem |-> [m EXCEPT ![e] = NUL]]
strtok_r_EmptyTokens(m, s, delim) ==
  LET e == s + strcspn(m, s, delim)
  IN IF m[s] = NUL THEN [tok |-> NULL, save |-> s, mem |-> m]
     ELSE [tok |-> s, save |-> IF m[e] = NUL THEN e ELSE e + 1,
           mem |-> [m EXCEPT ![e] = NUL]]

(* strtok_r(str, delim, &saveptr) with s = str, or *saveptr for a NULL     *)
(* str: the token, the saveptr and the memory left.                        *)
strtok_r(m, s, delim) ==
  LET t == s + strspn(m, s, delim)
      e == t + strcspn(m, t, delim)
  IN IF m[t] = NUL THEN [tok |-> NULL, save |-> t, mem |-> m]
     ELSE [tok |-> t, save |-> IF m[e] = NUL THEN e ELSE e + 1,
           mem |-> [m EXCEPT ![e] = NUL]]
=============================================================================
