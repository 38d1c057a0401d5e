------------------------------- MODULE Billing -------------------------------
(***************************************************************************)
(* The billing core of aerobox: Stripe on one side, the tables             *)
(* Subscription and Payment on the other, and between them the webhook     *)
(* requests that several web workers serve at once.  There is no           *)
(* ATOMIC_REQUESTS, so every ORM statement commits on its own; a request   *)
(* is therefore a sequence of steps, one per statement that another        *)
(* request can observe or disturb, and what it has loaded stays in memory  *)
(* (its job) and may be stale when it is written back.                     *)
(*                                                                         *)
(* A request that raises answers 500, and Stripe keeps its event and       *)
(* delivers it again.  Events are delivered in any order, and the same     *)
(* event may be in the hands of two workers.                               *)
(***************************************************************************)
EXTENDS Naturals

CONSTANTS
    Users,       \* users; each one is a Stripe customer
    Subs,        \* Stripe subscription ids
    Invoices,    \* Stripe invoice ids
    Workers,     \* web workers serving webhook requests
    Owner,       \* Owner[s]: the user whose customer id s carries
    SubOf,       \* SubOf[i]: the subscription i bills
    Period,      \* Period[i]: the day the period i pays for ends
    Cycle,       \* invoices with billing_reason = subscription_cycle
    Resolvable,  \* subscriptions whose customer and price are known locally
    FreeHolders, \* users that registration gave a free subscription
    Modifiable,  \* subscriptions whose owner may call change_plan
    Amendable,   \* invoices whose amount Stripe may still change when open
    Declinable,  \* invoices whose collection may fail
    Faulty,      \* workers that may crash or lose a service call
    None         \* nothing loaded

ASSUME SubsAssumption == Owner \in [Subs -> Users]
ASSUME InvoicesAssumption ==
    /\ SubOf \in [Invoices -> Subs]
    /\ Period \in [Invoices -> Nat \ {0}]
    /\ Cycle \subseteq Invoices
ASSUME NoneAssumption ==
    /\ None \notin [status : {"absent", "inactive", "active", "past_due", "canceled"}, end : Nat]
    /\ None \notin {"active", "inactive"}

VARIABLES
    stripeSub,      \* Stripe's subscriptions
    stripeInvoice,  \* Stripe's invoices
    inbox,          \* events sent and not yet answered with a 200
    subRow,         \* table Subscription, the rows with a stripe_subscription_id
    payRow,         \* table Payment, by stripe_invoice_id
    freeRow,        \* each user's Subscription to the free plan
    job             \* what each worker is doing and what it holds in memory

stripeVars == <<stripeSub, stripeInvoice>>
dbVars == <<subRow, payRow, freeRow>>
vars == <<stripeSub, stripeInvoice, inbox, subRow, payRow, freeRow, job>>

-----------------------------------------------------------------------------
(* Data *)

\* ended_at of an ended subscription: a day no period ends on.
EndedAt == 0

SubStatus == {"inactive", "active", "past_due", "canceled"}
PayStatus == {"pending", "paid", "retrying", "canceled"}
FreeStatus == {"active", "inactive"}
Amounts == {"first", "amended"}

StripeSubs == [status : {"none", "live", "ended"}, cycle : Nat, cancelling : BOOLEAN]
StripeInvoices == [status : {"none", "open", "paid"}, amount : Amounts]
SubRow == [status : SubStatus \cup {"absent"}, end : Nat]
PayRow == [status : PayStatus \cup {"absent"}, amount : Amounts]

SubEventTypes == {"subscription.created", "subscription.updated", "subscription.deleted"}
InvoiceEventTypes == {"invoice.created", "invoice.paid", "invoice.payment_failed"}
Events == [type : SubEventTypes, obj : Subs] \cup [type : InvoiceEventTypes, obj : Invoices]

SubEvent(t, s) == [type |-> t, obj |-> s]
InvoiceEvent(t, i) == [type |-> t, obj |-> i]

Present(row) == row.status # "absent"

PCs == {"idle", "update_subscription", "get_payment", "create_payment_from_stripe",
        "get_subscription", "create_subscription_from_stripe", "create_subscription",
        "create_payment", "apply_payment", "load_subscription", "apply_subscription",
        "cancel_subscription", "get_free", "set_free", "cancel_payments", "respond"}

Job == [pc     : PCs,
        ev     : Events \cup {None},
        amount : Amounts \cup {None},        \* of the invoice summary
        end    : Nat,                        \* billing_cycle_end of the summary
        sub    : SubRow \cup {None},         \* the Subscription instance in memory
        free   : FreeStatus \cup {None}]     \* the free Subscription in memory

IdleJob == [pc |-> "idle", ev |-> None, amount |-> None, end |-> 0,
            sub |-> None, free |-> None]

At(w, label) == job[w].pc = label

\* The subscription and the user the request of w is about.
JobInvoice(w) == job[w].ev.obj
JobSub(w) == IF job[w].ev.type \in SubEventTypes THEN job[w].ev.obj ELSE SubOf[job[w].ev.obj]
JobUser(w) == Owner[JobSub(w)]

Goto(w, label) == job' = [job EXCEPT ![w].pc = label]

\* An exception leaves the view: the response is a 500 and the event stays
\* with Stripe.
Raise(w) ==
    /\ job' = [job EXCEPT ![w] = IdleJob]
    /\ UNCHANGED <<stripeVars, inbox, dbVars>>

-----------------------------------------------------------------------------
TypeOK ==
    /\ stripeSub \in [Subs -> StripeSubs]
    /\ stripeInvoice \in [Invoices -> StripeInvoices]
    /\ inbox \subseteq Events
    /\ subRow \in [Subs -> SubRow]
    /\ payRow \in [Invoices -> PayRow]
    /\ freeRow \in [Users -> FreeStatus \cup {None}]
    /\ job \in [Workers -> Job]
    /\ \A w \in Workers : job[w].pc # "idle" => job[w].ev \in Events

Init ==
    /\ stripeSub = [s \in Subs |-> [status |-> "none", cycle |-> 0, cancelling |-> FALSE]]
    /\ stripeInvoice = [i \in Invoices |-> [status |-> "none", amount |-> "first"]]
    /\ inbox = {}
    /\ subRow = [s \in Subs |-> [status |-> "absent", end |-> 0]]
    /\ payRow = [i \in Invoices |-> [status |-> "absent", amount |-> "first"]]
    /\ freeRow = [u \in Users |-> IF u \in FreeHolders THEN "active" ELSE None]
    /\ job = [w \in Workers |-> IdleJob]

-----------------------------------------------------------------------------
(* Stripe, and the two API calls that make it act *)

Emit(events) == inbox' = inbox \cup events

\* POST checkout/session hands out a checkout link whatever subscriptions the
\* user already has; the customer completes it and Stripe opens a subscription
\* with its first invoice.
Checkout(s) ==
    /\ stripeSub[s].status = "none"
    /\ \E i \in Invoices \ Cycle :
        /\ SubOf[i] = s
        /\ stripeSub' = [stripeSub EXCEPT ![s].status = "live", ![s].cycle = Period[i]]
        /\ stripeInvoice' = [stripeInvoice EXCEPT ![i].status = "open"]
        /\ Emit({SubEvent("subscription.created", s), InvoiceEvent("invoice.created", i)})
    /\ UNCHANGED <<dbVars, job>>

\* change_plan: the subscription is looked up among the ACTIVE ones; a free
\* target sets cancel_at_period_end, a paid one modifies the price.  Neither
\* writes the local row.  A refusal (over quota) or a Stripe error does nothing.
\* Bound: one event of a type and object is outstanding at a time, here and in
\* StripeDecline, so that a 200 answers the event that was delivered.
ChangePlan(s) ==
    /\ s \in Modifiable
    /\ SubEvent("subscription.updated", s) \notin inbox
    /\ subRow[s].status = "active"
    /\ stripeSub[s].status = "live"
    /\ \E cancelling \in {TRUE, stripeSub[s].cancelling} :
        stripeSub' = [stripeSub EXCEPT ![s].cancelling = cancelling]
    /\ Emit({SubEvent("subscription.updated", s)})
    /\ UNCHANGED <<stripeInvoice, dbVars, job>>

StripeRenew(i) ==
    LET s == SubOf[i] IN
    /\ i \in Cycle
    /\ stripeSub[s].status = "live"
    /\ ~stripeSub[s].cancelling
    /\ stripeInvoice[i].status = "none"
    /\ \A j \in Invoices :
        SubOf[j] = s /\ Period[j] < Period[i] => stripeInvoice[j].status # "none"
    /\ stripeInvoice' = [stripeInvoice EXCEPT ![i].status = "open"]
    /\ stripeSub' = [stripeSub EXCEPT ![s].cycle = Period[i]]
    /\ Emit({InvoiceEvent("invoice.created", i)})
    /\ UNCHANGED <<dbVars, job>>

StripeAmend(i) ==
    /\ i \in Amendable
    /\ stripeInvoice[i] = [status |-> "open", amount |-> "first"]
    /\ stripeInvoice' = [stripeInvoice EXCEPT ![i].amount = "amended"]
    /\ UNCHANGED <<stripeSub, inbox, dbVars, job>>

StripeCollect(i) ==
    /\ stripeInvoice[i].status = "open"
    /\ stripeSub[SubOf[i]].status = "live"
    /\ stripeInvoice' = [stripeInvoice EXCEPT ![i].status = "paid"]
    /\ Emit({InvoiceEvent("invoice.paid", i)})
    /\ UNCHANGED <<stripeSub, dbVars, job>>

StripeDecline(i) ==
    /\ i \in Declinable
    /\ InvoiceEvent("invoice.payment_failed", i) \notin inbox
    /\ stripeInvoice[i].status = "open"
    /\ stripeSub[SubOf[i]].status = "live"
    /\ Emit({InvoiceEvent("invoice.payment_failed", i)})
    /\ UNCHANGED <<stripeVars, dbVars, job>>

StripeEnd(s) ==
    /\ stripeSub[s].status = "live"
    /\ stripeSub' = [stripeSub EXCEPT ![s].status = "ended"]
    /\ Emit({SubEvent("subscription.deleted", s)})
    /\ UNCHANGED <<stripeInvoice, dbVars, job>>

-----------------------------------------------------------------------------
(* A request ends, or is lost *)

\* The mails are queued and the view answers 200: Stripe drops the event.
Respond(w) ==
    /\ At(w, "respond")
    /\ inbox' = inbox \ {job[w].ev}
    /\ job' = [job EXCEPT ![w] = IdleJob]
    /\ UNCHANGED <<stripeVars, dbVars>>

\* The process dies, or a call to Stripe, the database or the broker fails:
\* what has been saved stays saved.
Fail(w) ==
    /\ w \in Faulty
    /\ ~At(w, "idle")
    /\ job' = [job EXCEPT ![w] = IdleJob]
    /\ UNCHANGED <<stripeVars, inbox, dbVars>>

-----------------------------------------------------------------------------
(* The six handlers.  An event is delivered, verified and dispatched; its     *)
(* handler fetches the object as Stripe has it now, not as it was when the    *)
(* event was sent.                                                            *)

Receive(w, e, label) ==
    /\ At(w, "idle")
    /\ e \in inbox
    /\ job' = [job EXCEPT ![w] = [IdleJob EXCEPT !.pc = label, !.ev = e]]
    /\ UNCHANGED <<stripeVars, inbox, dbVars>>

ReceiveInvoice(w, e, label) ==
    /\ At(w, "idle")
    /\ e \in inbox
    /\ job' = [job EXCEPT ![w] = [IdleJob EXCEPT !.pc = label, !.ev = e,
                                     !.amount = stripeInvoice[e.obj].amount]]
    /\ UNCHANGED <<stripeVars, inbox, dbVars>>

\* An unknown customer or price makes create_subscription return False, and
\* the event is answered 200.
HandleSubscriptionCreated(w, s) ==
    LET e == SubEvent("subscription.created", s) IN
    \/ s \notin Resolvable /\ Receive(w, e, "respond")
    \/ /\ s \in Resolvable
       /\ At(w, "idle")
       /\ e \in inbox
       /\ job' = [job EXCEPT ![w] = [IdleJob EXCEPT !.pc = "create_subscription", !.ev = e,
                                        !.end = stripeSub[s].cycle]]
       /\ UNCHANGED <<stripeVars, inbox, dbVars>>

HandleSubscriptionUpdated(w, s) ==
    Receive(w, SubEvent("subscription.updated", s),
            IF stripeSub[s].cancelling THEN "update_subscription" ELSE "respond")

HandleSubscriptionDeleted(w, s) ==
    Receive(w, SubEvent("subscription.deleted", s), "cancel_subscription")

HandleInvoiceCreated(w, i) ==
    ReceiveInvoice(w, InvoiceEvent("invoice.created", i), "get_subscription")

HandleInvoicePaid(w, i) ==
    ReceiveInvoice(w, InvoiceEvent("invoice.paid", i), "get_payment")

\* apply_payment_failed returns at once unless the invoice renews a cycle.
FailedForAnyReason(w, i) ==
    ReceiveInvoice(w, InvoiceEvent("invoice.payment_failed", i), "get_payment")
HandleInvoicePaymentFailed(w, i) ==
    ReceiveInvoice(w, InvoiceEvent("invoice.payment_failed", i),
                   IF i \in Cycle THEN "get_payment" ELSE "respond")

Deliver(w) ==
    \/ \E s \in Subs : \/ HandleSubscriptionCreated(w, s)
                       \/ HandleSubscriptionUpdated(w, s)
                       \/ HandleSubscriptionDeleted(w, s)
    \/ \E i \in Invoices : \/ HandleInvoiceCreated(w, i)
                           \/ HandleInvoicePaid(w, i)
                           \/ HandleInvoicePaymentFailed(w, i)

\* With cancel_at_period_end the handler reads summary.subcription_id, which
\* SubscriptionSummary does not have: AttributeError, at every delivery.
UpdateByCorrectedName(w) ==
    LET s == JobSub(w) IN
    /\ At(w, "update_subscription")
    /\ subRow' = IF Present(subRow[s])
                 THEN [subRow EXCEPT ![s] = [status |-> "canceled", end |-> EndedAt]]
                 ELSE subRow
    /\ Goto(w, "respond")
    /\ UNCHANGED <<stripeVars, inbox, payRow, freeRow>>
UpdateSubscription(w) ==
    At(w, "update_subscription") /\ Raise(w)

-----------------------------------------------------------------------------
(* Payment rows: get_or_sync_payment_from_stripe and create_invoice *)

GetPayment(w) ==
    /\ At(w, "get_payment")
    /\ Goto(w, IF Present(payRow[JobInvoice(w)]) THEN "apply_payment"
                                                  ELSE "create_payment_from_stripe")
    /\ UNCHANGED <<stripeVars, inbox, dbVars>>

\* The invoice is fetched a second time.
CreatePaymentFromStripe(w) ==
    /\ At(w, "create_payment_from_stripe")
    /\ job' = [job EXCEPT ![w].pc = "get_subscription",
                          ![w].amount = stripeInvoice[JobInvoice(w)].amount]
    /\ UNCHANGED <<stripeVars, inbox, dbVars>>

GetSubscription(w) ==
    LET row == subRow[JobSub(w)] IN
    /\ At(w, "get_subscription")
    /\ job' = IF Present(row)
              THEN [job EXCEPT ![w].pc = "create_payment", ![w].sub = row]
              ELSE [job EXCEPT ![w].pc = "create_subscription_from_stripe"]
    /\ UNCHANGED <<stripeVars, inbox, dbVars>>

\* An unknown customer or price makes create_subscription return False, and
\* is_valid_payment raise: "Stripe should retry".
CreateSubscriptionFromStripe(w) ==
    /\ At(w, "create_subscription_from_stripe")
    /\ \/ JobSub(w) \notin Resolvable /\ Raise(w)
       \/ /\ JobSub(w) \in Resolvable
          /\ job' = [job EXCEPT ![w].pc = "create_subscription",
                                ![w].end = stripeSub[JobSub(w)].cycle]
          /\ UNCHANGED <<stripeVars, inbox, dbVars>>

\* get_or_create on the unique stripe_subscription_id, with the second get
\* after an IntegrityError.  Whichever statement decides (the get that finds,
\* the insert that succeeds, the get after the insert that failed) sees or
\* makes the row in one step.
AfterSubscription(w) ==
    IF job[w].ev.type = "subscription.created" THEN "respond" ELSE "create_payment"
UpdateOrCreateSubscription(w) ==
    LET s == JobSub(w)
        row == [status |-> "inactive", end |-> job[w].end] IN
    /\ At(w, "create_subscription")
    /\ subRow' = [subRow EXCEPT ![s] = row]
    /\ job' = [job EXCEPT ![w].pc = AfterSubscription(w), ![w].sub = row, ![w].end = 0]
    /\ UNCHANGED <<stripeVars, inbox, payRow, freeRow>>
CreateSubscription(w) ==
    LET s == JobSub(w)
        row == IF Present(subRow[s]) THEN subRow[s]
               ELSE [status |-> "inactive", end |-> job[w].end] IN
    /\ At(w, "create_subscription")
    /\ subRow' = [subRow EXCEPT ![s] = row]
    /\ job' = [job EXCEPT ![w].pc = AfterSubscription(w), ![w].sub = row, ![w].end = 0]
    /\ UNCHANGED <<stripeVars, inbox, payRow, freeRow>>

\* get_or_create on the unique stripe_invoice_id.  A payment it creates keeps
\* the Subscription instance it was given; one it finds has none loaded yet.
AfterPayment(w) ==
    IF job[w].ev.type = "invoice.created" THEN "respond" ELSE "apply_payment"
CreatePayment(w) ==
    LET i == JobInvoice(w) IN
    /\ At(w, "create_payment")
    /\ IF Present(payRow[i])
       THEN /\ job' = [job EXCEPT ![w].pc = AfterPayment(w), ![w].sub = None]
            /\ UNCHANGED payRow
       ELSE /\ payRow' = [payRow EXCEPT ![i] = [status |-> "pending", amount |-> job[w].amount]]
            /\ Goto(w, AfterPayment(w))
    /\ UNCHANGED <<stripeVars, inbox, subRow, freeRow>>

-----------------------------------------------------------------------------
(* Applying invoice.paid and invoice.payment_failed to the payment *)

\* payment.subscription: the instance the payment came with, or a query.
AfterPaymentSaved(w) == IF job[w].sub = None THEN "load_subscription" ELSE "apply_subscription"

\* can_update compares the amount recorded with the amount collected.  The
\* amount column is written by nobody else, so the copy loaded is the row's.
UpdatePaymentOfAnyAmount(w) ==
    /\ At(w, "apply_payment")
    /\ job[w].ev.type = "invoice.paid"
    /\ payRow' = [payRow EXCEPT ![JobInvoice(w)].status = "paid"]
    /\ Goto(w, AfterPaymentSaved(w))
    /\ UNCHANGED <<stripeVars, inbox, subRow, freeRow>>
UpdatePaymentRefusesPaid(w) ==
    /\ At(w, "apply_payment")
    /\ job[w].ev.type = "invoice.paid"
    /\ \/ payRow[JobInvoice(w)].status = "paid" /\ Raise(w)
       \/ payRow[JobInvoice(w)].status # "paid" /\ UpdatePaymentOfAnyAmount(w)
UpdatePaymentSkipsPaid(w) ==
    /\ At(w, "apply_payment")
    /\ job[w].ev.type = "invoice.paid"
    /\ \/ /\ payRow[JobInvoice(w)].status = "paid"
          /\ Goto(w, "respond")
          /\ UNCHANGED <<stripeVars, inbox, dbVars>>
       \/ payRow[JobInvoice(w)].status # "paid" /\ UpdatePaymentOfAnyAmount(w)
UpdatePayment(w) ==
    LET i == JobInvoice(w) IN
    /\ At(w, "apply_payment")
    /\ job[w].ev.type = "invoice.paid"
    /\ \/ payRow[i].amount # job[w].amount /\ Raise(w)
       \/ /\ payRow[i].amount = job[w].amount
          /\ payRow' = [payRow EXCEPT ![i].status = "paid"]
          /\ Goto(w, AfterPaymentSaved(w))
          /\ UNCHANGED <<stripeVars, inbox, subRow, freeRow>>

\* mark_payment_as_past_due_retrying tests nothing before it saves.
MarkPaymentRetrying(w) ==
    /\ At(w, "apply_payment")
    /\ job[w].ev.type = "invoice.payment_failed"
    /\ payRow' = [payRow EXCEPT ![JobInvoice(w)].status = "retrying"]
    /\ Goto(w, AfterPaymentSaved(w))
    /\ UNCHANGED <<stripeVars, inbox, subRow, freeRow>>

LoadSubscription(w) ==
    /\ At(w, "load_subscription")
    /\ job' = [job EXCEPT ![w].pc = "apply_subscription", ![w].sub = subRow[JobSub(w)]]
    /\ UNCHANGED <<stripeVars, inbox, dbVars>>

-----------------------------------------------------------------------------
(* Subscription rows *)

\* Each save names its update_fields: the columns that differ from the
\* instance in memory, whatever the row says by now.
SaveSubscription(s, status, end, loaded) ==
    subRow' = [subRow EXCEPT
        ![s].status = IF loaded.status # status THEN status ELSE @,
        ![s].end    = IF loaded.end # end THEN end ELSE @]

\* ACTIVE until the end of the period the invoice paid for.
ExtendToStripeCycle(w) ==
    LET s == JobSub(w) IN
    /\ At(w, "apply_subscription")
    /\ job[w].ev.type = "invoice.paid"
    /\ SaveSubscription(s, "active", stripeSub[s].cycle, job[w].sub)
    /\ job' = [job EXCEPT ![w].pc = "get_free", ![w].sub = None]
    /\ UNCHANGED <<stripeVars, inbox, payRow, freeRow>>
ApplyInvoicePaidToSubscription(w) ==
    LET s == JobSub(w) IN
    /\ At(w, "apply_subscription")
    /\ job[w].ev.type = "invoice.paid"
    /\ SaveSubscription(s, "active", Period[JobInvoice(w)], job[w].sub)
    /\ job' = [job EXCEPT ![w].pc = "get_free", ![w].sub = None]
    /\ UNCHANGED <<stripeVars, inbox, payRow, freeRow>>

CancelOnFailedPayment(w) ==
    /\ At(w, "apply_subscription")
    /\ job[w].ev.type = "invoice.payment_failed"
    /\ SaveSubscription(JobSub(w), "canceled", job[w].sub.end, job[w].sub)
    /\ job' = [job EXCEPT ![w].pc = "respond", ![w].sub = None]
    /\ UNCHANGED <<stripeVars, inbox, payRow, freeRow>>
UpdateSubscriptionPastDue(w) ==
    LET s == JobSub(w)
        loaded == job[w].sub IN
    /\ At(w, "apply_subscription")
    /\ job[w].ev.type = "invoice.payment_failed"
    /\ IF loaded.status \in {"past_due", "canceled"}
       THEN UNCHANGED subRow
       ELSE SaveSubscription(s, "past_due", loaded.end, loaded)
    /\ job' = [job EXCEPT ![w].pc = "respond", ![w].sub = None]
    /\ UNCHANGED <<stripeVars, inbox, payRow, freeRow>>

\* update_cancel_subscription_status always writes both columns; a row that is
\* not there yet is only logged, and the event is answered 200.
CancelRowsIn(w, statuses) ==
    LET s == JobSub(w) IN
    /\ At(w, "cancel_subscription")
    /\ IF subRow[s].status \in statuses
       THEN /\ subRow' = [subRow EXCEPT ![s] = [status |-> "canceled", end |-> EndedAt]]
            /\ Goto(w, "get_free")
       ELSE UNCHANGED subRow /\ Goto(w, "respond")
    /\ UNCHANGED <<stripeVars, inbox, payRow, freeRow>>
CancelOnlyActive(w) == CancelRowsIn(w, {"active"})
CancelOnlyOnce(w) == CancelRowsIn(w, SubStatus \ {"canceled"})
CancelSubscription(w) ==
    LET s == JobSub(w) IN
    /\ At(w, "cancel_subscription")
    /\ IF Present(subRow[s])
       THEN /\ subRow' = [subRow EXCEPT ![s] = [status |-> "canceled", end |-> EndedAt]]
            /\ Goto(w, "get_free")
       ELSE UNCHANGED subRow /\ Goto(w, "respond")
    /\ UNCHANGED <<stripeVars, inbox, payRow, freeRow>>

-----------------------------------------------------------------------------
(* The free subscription and the payments left over *)

AfterFree(w) == IF job[w].ev.type = "invoice.paid" THEN "respond" ELSE "cancel_payments"

GetFreeSubscription(w) ==
    /\ At(w, "get_free")
    /\ job' = IF freeRow[JobUser(w)] = None
              THEN [job EXCEPT ![w].pc = AfterFree(w)]
              ELSE [job EXCEPT ![w].pc = "set_free", ![w].free = freeRow[JobUser(w)]]
    /\ UNCHANGED <<stripeVars, inbox, dbVars>>

\* set_subscription_inactive after invoice.paid, activate_subscription after
\* subscription.deleted: a save only when the instance loaded differs.
FreeTargetCanceled(w) == IF job[w].ev.type = "invoice.paid" THEN "canceled" ELSE "active"
FreeTargetSwapped(w) == IF job[w].ev.type = "invoice.paid" THEN "active" ELSE "inactive"
FreeTarget(w) == IF job[w].ev.type = "invoice.paid" THEN "inactive" ELSE "active"
SetFreeSubscription(w) ==
    /\ At(w, "set_free")
    /\ freeRow' = IF job[w].free = FreeTarget(w) THEN freeRow
                  ELSE [freeRow EXCEPT ![JobUser(w)] = FreeTarget(w)]
    /\ job' = [job EXCEPT ![w].pc = AfterFree(w), ![w].free = None]
    /\ UNCHANGED <<stripeVars, inbox, subRow, payRow>>

\* One UPDATE over the payments of the subscription still PENDING or RETRYING.
CancelEveryPayment(w) ==
    LET s == JobSub(w) IN
    /\ At(w, "cancel_payments")
    /\ payRow' = [i \in Invoices |->
            IF SubOf[i] = s /\ Present(payRow[i])
            THEN [payRow[i] EXCEPT !.status = "canceled"] ELSE payRow[i]]
    /\ Goto(w, "respond")
    /\ UNCHANGED <<stripeVars, inbox, subRow, freeRow>>
CancelPendingPayments(w) ==
    LET s == JobSub(w) IN
    /\ At(w, "cancel_payments")
    /\ payRow' = [i \in Invoices |->
            IF SubOf[i] = s /\ payRow[i].status \in {"pending", "retrying"}
            THEN [payRow[i] EXCEPT !.status = "canceled"] ELSE payRow[i]]
    /\ Goto(w, "respond")
    /\ UNCHANGED <<stripeVars, inbox, subRow, freeRow>>

-----------------------------------------------------------------------------
Stripe ==
    \/ \E s \in Subs : Checkout(s) \/ ChangePlan(s) \/ StripeEnd(s)
    \/ \E i \in Invoices : StripeRenew(i) \/ StripeAmend(i) \/ StripeCollect(i) \/ StripeDecline(i)

\* The next step of a request under way.
Step(w) ==
    \/ UpdateSubscription(w)
    \/ GetPayment(w)
    \/ CreatePaymentFromStripe(w)
    \/ GetSubscription(w)
    \/ CreateSubscriptionFromStripe(w)
    \/ CreateSubscription(w)
    \/ CreatePayment(w)
    \/ UpdatePayment(w)
    \/ MarkPaymentRetrying(w)
    \/ LoadSubscription(w)
    \/ ApplyInvoicePaidToSubscription(w)
    \/ UpdateSubscriptionPastDue(w)
    \/ CancelSubscription(w)
    \/ GetFreeSubscription(w)
    \/ SetFreeSubscription(w)
    \/ CancelPendingPayments(w)
    \/ Respond(w)

Next ==
    \/ Stripe
    \/ \E w \in Workers : Deliver(w) \/ Step(w) \/ Fail(w)

Spec == Init /\ [][Next]_vars

\* Faults cease in the end, a request under way is not abandoned, and Stripe
\* delivers an event again for as long as it is not answered with a 200:
\* whenever workers keep coming free, one of them gets it.
Fairness ==
    /\ <>[][~\E w \in Workers : Fail(w)]_vars
    /\ \A w \in Workers : WF_vars(Step(w))
    /\ \A e \in Events : SF_vars(\E w \in Workers : Deliver(w) /\ job'[w].ev = e)

FairSpec == Spec /\ Fairness

-----------------------------------------------------------------------------
(* Safety *)

PaidInStripe(i) == stripeInvoice[i].status = "paid"

\* A subscription that grants its plan (status ACTIVE) ends no later than a
\* period Stripe has collected for, however the webhooks were ordered,
\* repeated or interleaved: apply_invoice_paid_to_subscription never extends
\* it to a period that was only invoiced.
ActiveEndIsPaidFor ==
    \A s \in Subs : subRow[s].status = "active" =>
        /\ \E i \in Invoices : SubOf[i] = s /\ PaidInStripe(i)
        /\ \/ subRow[s].end = EndedAt
           \/ \E i \in Invoices :
                SubOf[i] = s /\ PaidInStripe(i) /\ subRow[s].end = Period[i]

\* A Payment is PAID only if Stripe collected that invoice, and for the amount
\* the row shows, although the row was filled when the amount could still change.
PaidMatchesCharge ==
    \A i \in Invoices : payRow[i].status = "paid" =>
        stripeInvoice[i] = [status |-> "paid", amount |-> payRow[i].amount]

\* No collected invoice is lost: once Stripe has a 200 for its invoice.paid,
\* the Payment has been marked PAID, and it still is unless it pays a renewal
\* (whose late payment_failed may regress it).
AcknowledgedPaidIsRecorded ==
    \A i \in Invoices :
        PaidInStripe(i) /\ InvoiceEvent("invoice.paid", i) \notin inbox =>
            IF i \in Cycle THEN payRow[i].status \notin {"absent", "pending"}
                           ELSE payRow[i].status = "paid"

\* The free plan is taken from a user only after Stripe collected an invoice
\* of theirs.
FreeDisplacedOnlyByPayment ==
    \A u \in Users : freeRow[u] = "inactive" =>
        \E i \in Invoices : Owner[SubOf[i]] = u /\ PaidInStripe(i)

\* Nothing is canceled locally while Stripe still runs, and charges for, the
\* subscription; cancel_at_period_end leaves the paid period usable.
CanceledOnlyWhenEnded ==
    /\ \A s \in Subs : subRow[s].status = "canceled" => stripeSub[s].status = "ended"
    /\ \A i \in Invoices : payRow[i].status = "canceled" => stripeSub[SubOf[i]].status = "ended"

\* A late, repeated or concurrent creation never puts a row that has moved on
\* back into the state it was created in.
CreationNeverResets ==
    [][/\ \A s \in Subs : Present(subRow[s]) /\ subRow[s].status # "inactive" =>
            subRow'[s].status \notin {"absent", "inactive"}
       /\ \A i \in Invoices : Present(payRow[i]) /\ payRow[i].status # "pending" =>
            payRow'[i].status \notin {"absent", "pending"}]_vars

-----------------------------------------------------------------------------
(* What it all amounts to *)

\* Seen without webhooks, workers and what they hold in memory.
Collected == {i \in Invoices : PaidInStripe(i)}
Ended == {s \in Subs : stripeSub[s].status = "ended"}
Standing == [s \in Subs |-> subRow[s].status]
Until == [s \in Subs |-> IF subRow[s].status = "active" THEN subRow[s].end ELSE EndedAt]
Payments == [i \in Invoices |-> payRow[i].status]

E == INSTANCE Entitlement WITH
        collected <- Collected, ended <- Ended, standing <- Standing, until <- Until,
        payment <- Payments, free <- freeRow

\* Webhooks, in whatever order, however often and by however many workers they
\* are handled, do to a customer nothing that Stripe has not given ground for.
ImplementsEntitlement == E!Spec

-----------------------------------------------------------------------------
(* Liveness, under FairSpec *)

\* Stripe's queue drains: once Stripe has nothing new to say, every event has
\* been answered with a 200, save those the code can never digest (a scheduled
\* cancellation, an invoice whose amount changed after it was recorded, an
\* unknown customer or price).
Undigestible(e) ==
    \/ e.type = "subscription.updated" /\ stripeSub[e.obj].cancelling
    \/ /\ e.type \in InvoiceEventTypes
       /\ stripeInvoice[e.obj].amount = "amended" \/ SubOf[e.obj] \notin Resolvable
InboxDrains == <>[](\A e \in inbox : Undigestible(e))

\* What Stripe collected reaches the user: once invoice.paid is waiting, the
\* subscription becomes ACTIVE unless Stripe ends it first.
CollectedInvoiceActivates ==
    \A i \in Invoices :
        LET e == InvoiceEvent("invoice.paid", i) IN
        (e \in inbox /\ \A w \in Workers : job[w].ev # e) ~>
            \/ subRow[SubOf[i]].status = "active"
            \/ stripeSub[SubOf[i]].status = "ended"
            \/ stripeInvoice[i].amount = "amended"
            \/ SubOf[i] \notin Resolvable

\* A subscription whose row is there when the handler of its end looks for it
\* is CANCELED, and the free plan comes back.
EndIsKnown(s) ==
    LET e == SubEvent("subscription.deleted", s) IN
    Present(subRow[s]) /\ e \in inbox /\ \A w \in Workers : job[w].ev # e
EndedSubscriptionIsCanceled ==
    \A s \in Subs : EndIsKnown(s) ~> (subRow[s].status = "canceled")
EndedSubscriptionFreesUser ==
    \A s \in Subs : EndIsKnown(s) ~> (freeRow[Owner[s]] \in {"active", None})

-----------------------------------------------------------------------------
(* What the repository says and the code does not do *)

\* models/subscription.py: "Each user can have only one active subscription at
\* a time."  Stated where no webhook is outstanding.
OneActiveSubscription ==
    inbox = {} /\ (\A w \in Workers : At(w, "idle")) =>
        \A s, t \in Subs : s # t /\ Owner[s] = Owner[t] =>
            ~(subRow[s].status = "active" /\ subRow[t].status = "active")
=============================================================================
