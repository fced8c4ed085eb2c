------------------------------ MODULE Filtering ------------------------------
(***************************************************************************)
(* The loop that goes through a list and appends what is to stay to a new  *)
(* one, as a function of how far it has come.                              *)
(***************************************************************************)
EXTENDS Naturals, Sequences

\* The elements of s that are in S, in their order.
Filter(s, S) ==
    LET kept[i \in 0..Len(s)] ==
            IF i = 0 THEN <<>>
            ELSE IF s[i] \in S THEN Append(kept[i - 1], s[i])
            ELSE kept[i - 1]
    IN kept[Len(s)]

Has(s, e) == \E i \in 1..Len(s) : s[i] = e

=============================================================================
