----------------------------- MODULE Selection -----------------------------
(***************************************************************************)
(* Selection: what an iterator's filter() leaves of a sequence.            *)
(***************************************************************************)
EXTENDS Integers, Sequences

(* the elements of s that are in wanted, in their order *)
Select(s, wanted) ==
    LET kept[n \in 0..Len(s)] ==
            IF n = 0 THEN <<>>
            ELSE IF s[n] \in wanted THEN Append(kept[n - 1], s[n]) ELSE kept[n - 1]
    IN kept[Len(s)]
=============================================================================
