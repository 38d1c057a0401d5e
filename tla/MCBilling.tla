------------------------------ MODULE MCBilling ------------------------------
(* Instances of Billing for TLC. *)
EXTENDS Billing, TLC

CONSTANTS u1, s1, s2, i1, i2, i3, w1, w2

\* One customer: s1 is opened by i1 and renewed by i2, s2 is opened by i3.
MCOwner == [s \in Subs |-> u1]
MCSubOf == [i \in Invoices |-> IF i = i3 THEN s2 ELSE s1]
MCPeriod == [i \in Invoices |-> IF i = i2 THEN 2 ELSE 1]

MCSymmetry == Permutations(Workers)
=============================================================================
