--------------------------- MODULE MCFileService ----------------------------
(***************************************************************************)
(* Instances of FileService for TLC.                                       *)
(***************************************************************************)
EXTENDS FileService, TLC

CONSTANTS f1, f2, c1, c2, c3, c4, c5

OneFile    == {f1}
TwoFiles   == {f1, f2}
ThreeCalls == {c1, c2, c3}
FourCalls  == {c1, c2, c3, c4}
FiveCalls  == {c1, c2, c3, c4, c5}

NoDeletions == {"create", "upload", "extend"}

\* Calls and files are told apart by their names only.
Symmetry == Permutations(Calls) \cup Permutations(Files)
=============================================================================
