----------------------------- MODULE Entitlement -----------------------------
(***************************************************************************)
(* What the billing of aerobox promises, without webhooks, workers or      *)
(* memory: Stripe collects invoices and ends subscriptions, and nothing is *)
(* granted, withdrawn, settled or voided here but on such grounds, one row *)
(* at a time.  Module Billing implements it.                               *)
(***************************************************************************)
EXTENDS Naturals

CONSTANTS
    Users,     \* users
    Subs,      \* paid subscriptions
    Invoices,  \* invoices
    Owner,     \* Owner[s]: who subscribed
    SubOf,     \* SubOf[i]: the subscription i bills
    Period,    \* Period[i]: the day the period i pays for ends
    Cycle,     \* invoices that renew a subscription
    None       \* no free subscription

VARIABLES
    collected,  \* the invoices Stripe has collected
    ended,      \* the subscriptions Stripe has ended
    standing,   \* standing[s]: what the subscription is here
    until,      \* until[s]: the day its plan is granted until
    payment,    \* payment[i]: what the payment of i is here
    free        \* free[u]: what the free subscription of u is

vars == <<collected, ended, standing, until, payment, free>>

\* A day in the past.
Past == 0

Init ==
    /\ collected = {}
    /\ ended = {}
    /\ standing = [s \in Subs |-> "absent"]
    /\ until = [s \in Subs |-> Past]
    /\ payment = [i \in Invoices |-> "absent"]
    /\ free \in [Users -> {"active", None}]

-----------------------------------------------------------------------------
(* What Stripe decides *)

Collect(i) ==
    /\ SubOf[i] \notin ended
    /\ collected' = collected \cup {i}
    /\ UNCHANGED <<ended, standing, until, payment, free>>

End(s) ==
    /\ ended' = ended \cup {s}
    /\ UNCHANGED <<collected, standing, until, payment, free>>

-----------------------------------------------------------------------------
(* The subscription *)

Stand(s, status, day) ==
    /\ standing' = [standing EXCEPT ![s] = status]
    /\ until' = [until EXCEPT ![s] = day]
    /\ UNCHANGED <<collected, ended, payment, free>>

Subscribe(s) ==
    /\ standing[s] = "absent"
    /\ Stand(s, "inactive", Past)

\* Granted until the end of a period that was collected, if not only until
\* the subscription ended.
PaidDays(s) == {Past} \cup {Period[i] : i \in {j \in collected : SubOf[j] = s}}
Grant(s) ==
    /\ standing[s] # "absent"
    /\ \E i \in collected : SubOf[i] = s
    /\ \E day \in PaidDays(s) : Stand(s, "active", day)

\* Only a renewal that failed suspends what was granted.
Suspend(s) ==
    /\ standing[s] # "absent"
    /\ \E i \in Cycle : SubOf[i] = s
    /\ Stand(s, "past_due", Past)

Withdraw(s) ==
    /\ standing[s] # "absent"
    /\ s \in ended
    /\ Stand(s, "canceled", Past)

-----------------------------------------------------------------------------
(* The payments and the free plan *)

Record(i, status) ==
    /\ payment' = [payment EXCEPT ![i] = status]
    /\ UNCHANGED <<collected, ended, standing, until, free>>

Bill(i) ==
    /\ payment[i] = "absent"
    /\ standing[SubOf[i]] # "absent"
    /\ Record(i, "pending")

Settle(i) ==
    /\ payment[i] # "absent"
    /\ i \in collected
    /\ Record(i, "paid")

Retry(i) ==
    /\ payment[i] # "absent"
    /\ i \in Cycle
    /\ Record(i, "retrying")

Unsettled == {"pending", "retrying"}
Void(s) ==
    /\ s \in ended
    /\ payment' = [i \in Invoices |->
          IF SubOf[i] = s /\ payment[i] \in Unsettled THEN "canceled" ELSE payment[i]]
    /\ UNCHANGED <<collected, ended, standing, until, free>>

TakeFree(u) ==
    /\ free[u] # None
    /\ \E i \in collected : Owner[SubOf[i]] = u
    /\ free' = [free EXCEPT ![u] = "inactive"]
    /\ UNCHANGED <<collected, ended, standing, until, payment>>

ReturnFree(u) ==
    /\ free[u] # None
    /\ \E s \in ended : Owner[s] = u
    /\ free' = [free EXCEPT ![u] = "active"]
    /\ UNCHANGED <<collected, ended, standing, until, payment>>

-----------------------------------------------------------------------------
Next ==
    \/ \E s \in Subs : End(s) \/ Subscribe(s) \/ Grant(s) \/ Suspend(s) \/ Withdraw(s) \/ Void(s)
    \/ \E i \in Invoices : Collect(i) \/ Bill(i) \/ Settle(i) \/ Retry(i)
    \/ \E u \in Users : TakeFree(u) \/ ReturnFree(u)

Spec == Init /\ [][Next]_vars
=============================================================================
