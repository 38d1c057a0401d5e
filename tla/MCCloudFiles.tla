---------------------------- MODULE MCCloudFiles ----------------------------
(* Instances of CloudFiles for TLC. *)
EXTENDS CloudFiles, TLC

CONSTANTS f1, f2, w1, w2, c1

MCSymmetry == Permutations(Files) \cup Permutations(Web)
=============================================================================
