------------------------------- MODULE Filter -------------------------------
(***************************************************************************)
(* The elements of a sequence that are in a set, in their order: SelectSeq *)
(* with the test as a set, and written out, so that proofs can use it.     *)
(***************************************************************************)
EXTENDS Naturals, Sequences

Keep(q, S) ==
    LET kept[n \in 0 .. Len(q)] ==
            IF n = 0 THEN <<>>
            ELSE IF q[n] \in S THEN Append(kept[n - 1], q[n]) ELSE kept[n - 1]
    IN  kept[Len(q)]
=============================================================================
