----------------------------- MODULE MCGetArgv ------------------------------
(***************************************************************************)
(* GetArgv with five characters and three pointers: vectors that fit with  *)
(* room to spare and to the last character, that are too long at their     *)
(* first or a later argument, that have as many arguments as argv has      *)
(* elements, one more and two more.                                        *)
(***************************************************************************)
EXTENDS GetArgv

a == "a"
b == "b"
Word == {<<>>, <<a>>, <<b, b>>, <<a, b, a, b, a>>, <<b, a, b, a, b, a>>}
MCVec == UNION {[1 .. n -> Word] : n \in 1 .. 3}
           \cup UNION {[1 .. n -> {<<>>, <<a>>}] : n \in 4 .. 5}
MCOthers == {[i \in Cell |-> b], [i \in Cell |-> IF i % 2 = 0 THEN a ELSE NUL]}

(* echo run twice, with a shorter word the second time; nothing else used  *)
(* the pages.                                                              *)
EchoVec == {<< <<a>>, <<b, b>> >>, << <<a>>, <<a>> >>}
=============================================================================
