---------------------------- MODULE MCNodeStart -----------------------------
(***************************************************************************)
(* Instances of NodeStart for TLC.                                         *)
(***************************************************************************)
EXTENDS NodeStart, TLC

CONSTANTS a1, a2, c1, c2

TwoAddresses == {a1, a2}
TwoCalls     == {c1, c2}

ThreeIds == 1 .. 3

\* Calls are told apart by their names only.
Symmetry == Permutations(Calls)
=============================================================================
