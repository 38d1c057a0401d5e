---------------------------- MODULE MCShareLinks ----------------------------
(* Instances of ShareLinks for TLC. *)
EXTENDS ShareLinks, TLC

CONSTANTS l1, l2, l3, x1, r1, w1, w2, v1, known, secret

Free == [folders |-> FALSE, choose |-> FALSE, passwords |-> FALSE, links |-> 1, minutes |-> None]
Pro == [folders |-> TRUE, choose |-> TRUE, passwords |-> TRUE, links |-> 1, minutes |-> 2]

ShortPro == {[Pro EXCEPT !.minutes = 1]}
FreeAndPro == {Free, Pro}

MCSymmetry == Permutations(Links) \cup Permutations(Web)
=============================================================================
