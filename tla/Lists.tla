------------------------------- MODULE Lists -------------------------------
(***************************************************************************)
(* Array.filter as a recursive function: what a proof can see into, unlike *)
(* SelectSeq.                                                              *)
(***************************************************************************)
EXTENDS Integers, Sequences

\* What s has at the positions in keep, in its order.
Filtered(s, keep) ==
  LET f[i \in 0..Len(s)] ==
        IF i = 0 THEN <<>> ELSE IF i \in keep THEN Append(f[i - 1], s[i]) ELSE f[i - 1]
  IN f[Len(s)]
=============================================================================
