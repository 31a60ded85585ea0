----------------------------- MODULE MCAccounts -----------------------------
(***************************************************************************)
(* Instances of Accounts for TLC.                                          *)
(***************************************************************************)
EXTENDS Accounts, TLC

CONSTANTS a1, a2, c1, c2, c3

TwoAddresses == {a1, a2}
ThreeCalls   == {c1, c2, c3}

FourIds == 1 .. 4

\* Calls, and addresses other than the initial one, are told apart by their
\* names only.
Symmetry == Permutations(Calls) \cup Permutations(Addresses \ {InitialAddress})
=============================================================================
