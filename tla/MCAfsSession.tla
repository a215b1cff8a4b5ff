---------------------------- MODULE MCAfsSession ----------------------------
(* Small instances of AfsSession for TLC.                                  *)
EXTENDS AfsSession, TLC

CONSTANTS c1, c2, t1, t2

\* Two machines with one handle at a time each, one machine with two handles,
\* and one with a single one.
Separate == t1 :> c1 @@ t2 :> c2
Shared == t1 :> c1 @@ t2 :> c1
Single == t1 :> c1

\* All clocks agree.
NoSkew == [c \in Clients |-> 0]

\* Which descriptor and which suffix a request gets does not matter.
SuffixSymmetry == Permutations(Suffixes)
FdSymmetry == Permutations(Fds)
Symmetry == FdSymmetry \cup SuffixSymmetry
=============================================================================
