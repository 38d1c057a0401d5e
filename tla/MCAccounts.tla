------------------------------ MODULE MCAccounts ------------------------------
(* Instances of Accounts for TLC. *)
EXTENDS Accounts, TLC

CONSTANTS u1, u2, u3, n1, n2, n3, e1, e2, e3, w1, w2

\* e3 is e2 with another spelling of the domain, which create_user normalizes.
MCNormal == [e \in Emails |-> IF e = e3 THEN e2 ELSE e]
MCFolded == MCNormal
\* u1 sets the password often.
MCMaxHash == [u \in Users |-> IF u = u1 THEN 3 ELSE IF u = u2 THEN 2 ELSE 1]

\* Any two of them may meet in a name, and all of them in an address.
MCNamesOf == [u \in Users |-> IF u = u1 THEN {n1} ELSE {n2, n3}]
MCEmailsOf == [u \in Users |-> IF u = u1 THEN {e1} ELSE IF u = u2 THEN {e1, e3} ELSE {e1, e2}]

MCSymmetry == Permutations(Web)
=============================================================================
