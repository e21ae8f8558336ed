---------------------------- MODULE Subsequence -----------------------------
(***************************************************************************)
(* The elements of a sequence that are in a set, in their order: SelectSeq,    *)
(* as a recursive function, which SubsequenceProofs can reason about.         *)
(***************************************************************************)
EXTENDS Naturals, Sequences

\* The selection from the first i elements of s.
Selections(s, T) ==
  LET sel[i \in 0..Len(s)] == IF i = 0 THEN <<>>
                              ELSE IF s[i] \in T THEN Append(sel[i - 1], s[i])
                              ELSE sel[i - 1]
  IN  sel

Select(s, T) == Selections(s, T)[Len(s)]
=============================================================================
