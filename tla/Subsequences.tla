--------------------------- MODULE Subsequences ---------------------------
(* Two loops over an array: one keeps some elements and skips the others,     *)
(* said by the positions that are kept; one adds up as it goes.               *)
EXTENDS Naturals, Sequences, FiniteSets

\* The n-th smallest member of a finite set of numbers.
Nth(S, n) == CHOOSE x \in S : Cardinality({y \in S : y <= x}) = n

\* The elements of s at the positions S, in their order.
Picked(s, S) == [n \in 1 .. Cardinality(S) |-> s[Nth(S, n)]]

\* The sum before each position of s, and after the last.
RunningTotal(s) ==
    LET at[j \in 1 .. Len(s) + 1] == IF j = 1 THEN 0 ELSE at[j - 1] + s[j - 1]
    IN  at
===========================================================================
