------------------------------ MODULE MCWordIO ------------------------------
(* Two-byte words over a six-byte mapping that holds a string "ab" at 0,   *)
(* and two bytes without a NUL at its end.                                 *)
EXTENDS WordIO

MCText == [a \in 0 .. 5 |-> CASE a = 0 -> 97 [] a = 1 -> 98 [] a = 2 -> 0
                              [] a = 3 -> 0 [] OTHER -> 120]
=============================================================================
