------------------------------- MODULE Lists -------------------------------
(***************************************************************************)
(* The elements of a list that belong to a set, in the order of the list:  *)
(* SelectSeq for a test that is membership, written as a recursive         *)
(* function of the length so that it can be reasoned about.                *)
(***************************************************************************)
EXTENDS Naturals, Sequences

Only(list, keep) ==
  LET kept[n \in 0..Len(list)] ==
        IF n = 0 THEN <<>>
        ELSE IF list[n] \in keep THEN Append(kept[n - 1], list[n]) ELSE kept[n - 1]
  IN  kept[Len(list)]
=============================================================================
