---------------------------- MODULE MCDiscovery -----------------------------
(***************************************************************************)
(* Instances of Discovery for TLC.                                         *)
(***************************************************************************)
EXTENDS Discovery, TLC

CONSTANTS b1, b2, s1, s2, i1, i2, i3, i4

TwoBootstraps == {b1, b2}
OneBootstrap  == {b1}
OneOther      == {s1}
TwoOthers     == {s1, s2}
TwoIds        == {i1, i2}
ThreeIds      == {i1, i2, i3}
FourIds       == {i1, i2, i3, i4}

\* Bootstrap nodes, other nodes and ids are told apart by their names only.
Symmetry == Permutations(Bootstraps) \cup Permutations(Others) \cup Permutations(Ids)
=============================================================================
