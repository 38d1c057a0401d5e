------------------------------ MODULE MCFolders ------------------------------
(* Instances of Folders for TLC. *)
EXTENDS Folders, TLC

CONSTANTS d1, d2, d3, x1, x2, a, b, w1, w2, c1

MCSymmetry == Permutations(Folders) \cup Permutations(Names)
=============================================================================
