------------------------------- MODULE Filter -------------------------------
(***************************************************************************)
(* What the code writes as Array.filter or as deletions from a Map that    *)
(* keeps its insertion order: the elements of a sequence that are in a     *)
(* set; and the sum of a sequence, which is what a byte-length queuing     *)
(* strategy keeps.  Recursive functions, SelectSeq and the folds being     *)
(* opaque to the provers.                                                  *)
(***************************************************************************)
EXTENDS Naturals, Sequences

Only(seq, es) ==
    LET kept[i \in 0 .. Len(seq)] ==
          IF i = 0 THEN <<>>
          ELSE IF seq[i] \in es THEN Append(kept[i - 1], seq[i]) ELSE kept[i - 1]
    IN  kept[Len(seq)]

Total(seq) ==
    LET total[i \in 0 .. Len(seq)] == IF i = 0 THEN 0 ELSE total[i - 1] + seq[i]
    IN  total[Len(seq)]
=============================================================================
