------------------------------- MODULE Bounds -------------------------------
(***************************************************************************)
(* A number that is kept within a bound, as the code does at every step of *)
(* a cursor or a scroll bar, and a step that is done again and again.      *)
(***************************************************************************)
EXTENDS Integers

AtMost(a, b) == IF a < b THEN a ELSE b
AtLeast(a, b) == IF a > b THEN a ELSE b

\* What a loop makes of s that is run n times.
Iterate(F(_), s, n) ==
    LET it[k \in 0..n] == IF k = 0 THEN s ELSE LET before == it[k - 1] IN F(before)
    IN  it[n]
=============================================================================
