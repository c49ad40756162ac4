---------------------------- MODULE Subsequences ----------------------------
(***************************************************************************)
(* The selection of elements of a sequence by a set: a SelectSeq that can  *)
(* be reasoned about, as it takes no operator.                             *)
(***************************************************************************)
EXTENDS Integers, Sequences

\* The elements of s that are in S, in their order.
Keep(s, S) ==
    LET kept[n \in 0..Len(s)] ==
            IF n = 0 THEN << >>
            ELSE IF s[n] \in S THEN Append(kept[n - 1], s[n]) ELSE kept[n - 1]
    IN kept[Len(s)]

=============================================================================
