-------------------------------- MODULE Lists --------------------------------
(***************************************************************************)
(* The loop that appends those elements of a list that pass a test.        *)
(***************************************************************************)
EXTENDS Naturals, Sequences

\* The elements of s at the positions P, in order.
Selected(s, P) ==
  LET f[n \in 0..Len(s)] ==
        IF n = 0 THEN <<>> ELSE IF n \in P THEN Append(f[n - 1], s[n]) ELSE f[n - 1]
  IN  f[Len(s)]
=============================================================================
