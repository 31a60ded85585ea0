----------------------------- MODULE MCFileKeys -----------------------------
(***************************************************************************)
(* Instances of FileKeys for TLC.                                          *)
(***************************************************************************)
EXTENDS FileKeys, TLC

CONSTANTS n1, n2, n3, k1, p1

TwoNodes     == {n1, n2}
ThreeNodes   == {n1, n2, n3}
OneLookup    == {k1}
OnePurchase  == {p1}

\* Nodes are told apart by their names only.
Symmetry == Permutations(Nodes)
=============================================================================
