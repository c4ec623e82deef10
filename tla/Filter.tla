------------------------------- MODULE Filter -------------------------------
(***************************************************************************)
(* Filtering a list, as Array.prototype.filter and Iterator::filter do it.  *)
(* It says by a set which elements stay, and by recursion over the list     *)
(* what stays of it: SelectSeq does the same with a predicate, which a      *)
(* proof cannot instantiate.                                                *)
(***************************************************************************)
EXTENDS Naturals, Sequences

Kept(seq, S) ==
    LET kept[i \in 0 .. Len(seq)] ==
            IF i = 0 THEN <<>>
            ELSE IF seq[i] \in S THEN Append(kept[i - 1], seq[i])
            ELSE kept[i - 1]
    IN  kept[Len(seq)]
=============================================================================
