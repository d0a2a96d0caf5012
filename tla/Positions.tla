------------------------------ MODULE Positions ------------------------------
(***************************************************************************)
(* Filtering by position: what sed leaves of a file, or a loop that copies  *)
(* the elements it wants to keep.                                           *)
(***************************************************************************)
EXTENDS Naturals, Sequences

(* The elements of s at the positions in K, in their order.                 *)
KeepAt(s, K) ==
    LET kept[k \in 0..Len(s)] ==
            IF k = 0 THEN <<>>
            ELSE IF k \in K THEN Append(kept[k - 1], s[k]) ELSE kept[k - 1]
    IN  kept[Len(s)]
=============================================================================
