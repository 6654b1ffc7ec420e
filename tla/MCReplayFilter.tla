--------------------------- MODULE MCReplayFilter ---------------------------
(* Instances of ReplayFilter.  Skew 1 and calls of up to 1 unit need a      *)
(* RotateRate above 4; 12 instants span two rotations and the forgetting of *)
(* the earliest payload.                                                    *)
EXTENDS ReplayFilter, TLC
CONSTANTS t1, t2, p1, p2, p3

TwoThreads == {t1, t2}
ThreePayloads == {p1, p2, p3}
TwoPayloads == {p1, p2}
TsThree == p1 :> 1 @@ p2 :> 5 @@ p3 :> 10

\* p2 shares a bit with each of the others, and p1's bits are covered by the
\* union of the bits of the others: false positives happen.
IdxColliding == p1 :> {1, 2} @@ p2 :> {2, 3} @@ p3 :> {1, 3}
IdxTwo == p1 :> {1} @@ p2 :> {2}

\* The timestamp of p2 is so late that its distance to now saturates.
TsFar == p1 :> 1 @@ p2 :> 16

Interchangeable == Permutations({t1, t2})
=============================================================================
