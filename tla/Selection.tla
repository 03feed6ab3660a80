------------------------------ MODULE Selection ------------------------------
(***************************************************************************)
(* The elements of a sequence that are in a set.  It is SelectSeq for a    *)
(* test that is membership, as a recursive function that proofs can unfold.*)
(***************************************************************************)
EXTENDS Naturals, Sequences

Members(seq, set) ==
    LET picked[n \in 0 .. Len(seq)] ==
          IF n = 0 THEN <<>>
          ELSE IF seq[n] \in set THEN Append(picked[n - 1], seq[n])
          ELSE picked[n - 1]
    IN  picked[Len(seq)]
=============================================================================
