------------------------------ MODULE Filtering ------------------------------
(***************************************************************************)
(* Array.prototype.filter.  It is a recursive function and not SelectSeq,  *)
(* of which the prover knows nothing: FilteringTheorems says what it       *)
(* returns.                                                                *)
(***************************************************************************)
EXTENDS Integers, Sequences

\* The elements of s that pass the test, in their order.
Filter(s, Test(_)) ==
  LET kept[n \in 0..Len(s)] ==
        IF n = 0 THEN <<>>
        ELSE IF Test(s[n]) THEN Append(kept[n - 1], s[n]) ELSE kept[n - 1]
  IN kept[Len(s)]
=============================================================================
