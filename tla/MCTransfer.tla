----------------------------- MODULE MCTransfer -----------------------------
(* Small instances of Transfer for TLC.                                    *)
EXTENDS Transfer, TLC

CONSTANTS p1, p2, v0

\* Files of two chunks, of one, and an empty one.
Lengths == p1 :> 2 @@ p2 :> 1 @@ v0 :> 0
Uneven == p1 :> 2 @@ p2 :> 1 @@ v0 :> 1

SuffixSymmetry == Permutations(Suffixes)
=============================================================================
