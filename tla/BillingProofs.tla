---------------------------- MODULE BillingProofs ----------------------------
(* Safety of Billing for every set of customers, subscriptions, invoices and *)
(* workers, checked by TLAPS.                                                *)
EXTENDS Billing, TLAPS

-----------------------------------------------------------------------------
(* The type invariant, with what a request is about at each of its steps.    *)

\* j is a request at one of these labels only if its event is of these types.
About(j, labels, types) == j.pc \in labels => j.ev.type \in types

JobOK(j) ==
    /\ j.pc # "idle" => j.ev \in Events
    /\ About(j, {"update_subscription"}, {"subscription.updated"})
    /\ About(j, {"create_subscription"}, {"subscription.created"} \cup InvoiceEventTypes)
    /\ About(j, {"get_subscription", "create_subscription_from_stripe", "create_payment"},
                InvoiceEventTypes)
    /\ About(j, {"get_payment", "create_payment_from_stripe", "apply_payment",
                 "load_subscription", "apply_subscription"},
                {"invoice.paid", "invoice.payment_failed"})
    /\ About(j, {"cancel_subscription", "cancel_payments"}, {"subscription.deleted"})
    /\ About(j, {"get_free", "set_free"}, {"invoice.paid", "subscription.deleted"})
    /\ j.pc # "idle" /\ j.ev.type \in InvoiceEventTypes => j.amount \in Amounts
    /\ j.pc = "create_payment" => j.sub \in SubRow
    /\ j.pc = "apply_subscription" => j.sub \in SubRow
    /\ j.pc = "set_free" => j.free \in FreeStatus

TypeInv == TypeOK /\ \A w \in Workers : JobOK(job[w])

LEMMA InitTypeInv == Init => TypeInv
  BY NoneAssumption DEF Init, TypeInv, TypeOK, JobOK, About, IdleJob, Job, PCs, SubRow, PayRow,
     Amounts, SubStatus, PayStatus, FreeStatus, StripeSubs, StripeInvoices

LEMMA SubEventTyped == ASSUME NEW s \in Subs, NEW t \in SubEventTypes
                       PROVE  SubEvent(t, s) \in Events
  BY DEF SubEvent, Events

LEMMA InvoiceEventTyped == ASSUME NEW i \in Invoices, NEW t \in InvoiceEventTypes
                           PROVE  InvoiceEvent(t, i) \in Events
  BY DEF InvoiceEvent, Events

\* Stripe's own steps leave the tables and the requests alone.
LEMMA StripeLeaves == Stripe => UNCHANGED <<subRow, payRow, freeRow, job>>
  BY DEF Stripe, Checkout, ChangePlan, StripeEnd, StripeRenew, StripeAmend, StripeCollect,
     StripeDecline, dbVars

LEMMA StripeTypeInv == TypeInv /\ Stripe => TypeInv'
<1> SUFFICES ASSUME TypeInv, Stripe PROVE TypeInv'
  OBVIOUS
<1> USE InvoicesAssumption, SubsAssumption, SubEventTyped, InvoiceEventTyped
<1>1. /\ stripeSub' \in [Subs -> StripeSubs]
      /\ stripeInvoice' \in [Invoices -> StripeInvoices]
      /\ inbox' \subseteq Events
  <2> /\ stripeSub \in [Subs -> StripeSubs]
      /\ stripeInvoice \in [Invoices -> StripeInvoices]
      /\ inbox \subseteq Events
    BY DEF TypeInv, TypeOK
  <2> USE DEF Emit, StripeSubs, StripeInvoices, SubEventTypes, InvoiceEventTypes, stripeVars
  <2>1. ASSUME NEW s \in Subs, Checkout(s) PROVE <1>1!1 /\ <1>1!2 /\ <1>1!3
    <3> PICK i \in Invoices :
          /\ stripeSub' = [stripeSub EXCEPT ![s].status = "live", ![s].cycle = Period[i]]
          /\ stripeInvoice' = [stripeInvoice EXCEPT ![i].status = "open"]
          /\ inbox' = inbox \cup {SubEvent("subscription.created", s),
                                   InvoiceEvent("invoice.created", i)}
      BY <2>1 DEF Checkout
    <3>1. stripeSub' \in [Subs -> StripeSubs]
      <4>1. Period[i] \in Nat
        OBVIOUS
      <4>2. stripeSub' = [stripeSub EXCEPT
              ![s] = [stripeSub[s] EXCEPT !.status = "live", !.cycle = Period[i]]]
        OBVIOUS
      <4> QED BY <4>1, <4>2
    <3>2. /\ SubEvent("subscription.created", s) \in Events
          /\ InvoiceEvent("invoice.created", i) \in Events
      OBVIOUS
    <3> QED BY <3>1, <3>2, SMTT(30)
  <2>2. ASSUME NEW s \in Subs, ChangePlan(s) PROVE <1>1!1 /\ <1>1!2 /\ <1>1!3
    <3> PICK cancelling \in {TRUE, stripeSub[s].cancelling} :
          stripeSub' = [stripeSub EXCEPT ![s].cancelling = cancelling]
      BY <2>2 DEF ChangePlan
    <3>1. stripeSub[s] \in StripeSubs
      OBVIOUS
    <3>2. cancelling \in BOOLEAN
      BY <3>1
    <3>3. [stripeSub[s] EXCEPT !.cancelling = cancelling] \in StripeSubs
      BY <3>1, <3>2
    <3>4. stripeSub' = [stripeSub EXCEPT
            ![s] = [stripeSub[s] EXCEPT !.cancelling = cancelling]]
      BY Zenon
    <3>5. stripeSub' \in [Subs -> StripeSubs]
      <4> HIDE DEF StripeSubs
      <4> QED BY <3>3, <3>4
    <3> QED BY <2>2, <3>5 DEF ChangePlan
  <2>3. ASSUME NEW s \in Subs, StripeEnd(s) PROVE <1>1!1 /\ <1>1!2 /\ <1>1!3
    BY <2>3 DEF StripeEnd
  <2>4. ASSUME NEW i \in Invoices, StripeRenew(i) PROVE <1>1!1 /\ <1>1!2 /\ <1>1!3
    BY <2>4, SMTT(30) DEF StripeRenew
  <2>5. ASSUME NEW i \in Invoices, StripeAmend(i) PROVE <1>1!1 /\ <1>1!2 /\ <1>1!3
    BY <2>5 DEF StripeAmend, Amounts
  <2>6. ASSUME NEW i \in Invoices, StripeCollect(i) PROVE <1>1!1 /\ <1>1!2 /\ <1>1!3
    BY <2>6 DEF StripeCollect
  <2>7. ASSUME NEW i \in Invoices, StripeDecline(i) PROVE <1>1!1 /\ <1>1!2 /\ <1>1!3
    BY <2>7 DEF StripeDecline
  <2> QED BY <2>1, <2>2, <2>3, <2>4, <2>5, <2>6, <2>7 DEF Stripe
<1>2. \A w \in Workers : JobOK(job[w])'
  BY StripeLeaves DEF TypeInv
<1> QED BY <1>1, <1>2, StripeLeaves DEF TypeInv, TypeOK

LEMMA EventTyped == ASSUME NEW e \in Events
                    PROVE  /\ e.type \in SubEventTypes \cup InvoiceEventTypes
                           /\ e.type \in SubEventTypes => e.obj \in Subs
                           /\ e.type \in InvoiceEventTypes => e.obj \in Invoices
  BY DEF Events, SubEventTypes, InvoiceEventTypes

\* What the request of w is about, and what it may hold.
LEMMA JobTyped == ASSUME TypeInv, NEW w \in Workers, ~At(w, "idle")
                  PROVE  /\ job[w] \in Job
                         /\ JobOK(job[w])
                         /\ job[w].ev \in Events
                         /\ JobSub(w) \in Subs
                         /\ JobUser(w) \in Users
                         /\ job[w].ev.type \in InvoiceEventTypes => JobInvoice(w) \in Invoices
<1>1. job[w] \in Job /\ JobOK(job[w])
  BY DEF TypeInv, TypeOK
<1>2. job[w].ev \in Events
  BY <1>1 DEF JobOK, At
<1>3. JobSub(w) \in Subs
  BY <1>2, EventTyped, InvoicesAssumption DEF JobSub
<1> QED BY <1>1, <1>2, <1>3, EventTyped, SubsAssumption DEF JobUser, JobInvoice

\* A step of one request rewrites that request and, in the tables, rows by rows.
TablesTyped ==
    /\ UNCHANGED stripeVars
    /\ inbox' \subseteq Events
    /\ subRow' \in [Subs -> SubRow]
    /\ payRow' \in [Invoices -> PayRow]
    /\ freeRow' \in [Users -> FreeStatus \cup {None}]

RequestTyped(w) ==
    \E j \in Job : JobOK(j) /\ job' = [job EXCEPT ![w] = j]

\* A request that ends, or is lost.
LEMMA IdleTyped == IdleJob \in Job /\ JobOK(IdleJob)
  BY DEF IdleJob, Job, JobOK, About, PCs

LEMMA SaveTyped ==
    ASSUME subRow \in [Subs -> SubRow], NEW s \in Subs, NEW status \in SubStatus, NEW end \in Nat,
           NEW loaded, SaveSubscription(s, status, end, loaded)
    PROVE  subRow' \in [Subs -> SubRow]
<1> DEFINE row == [subRow[s] EXCEPT !.status = IF loaded.status # status THEN status ELSE @,
                                    !.end = IF loaded.end # end THEN end ELSE @]
<1>1. row \in SubRow
  BY DEF SubRow
<1>2. subRow' = [subRow EXCEPT ![s] = row]
  BY DEF SaveSubscription
<1> QED BY <1>1, <1>2

LEMMA StepTyped == ASSUME TypeInv, NEW w \in Workers, Step(w) PROVE TablesTyped /\ RequestTyped(w)
<1>1. /\ stripeSub \in [Subs -> StripeSubs]
      /\ stripeInvoice \in [Invoices -> StripeInvoices]
      /\ inbox \subseteq Events
      /\ subRow \in [Subs -> SubRow]
      /\ payRow \in [Invoices -> PayRow]
      /\ freeRow \in [Users -> FreeStatus \cup {None}]
      /\ job \in [Workers -> Job]
  BY DEF TypeInv, TypeOK
<1> USE DEF TablesTyped, dbVars, stripeVars
<1>2. SUFFICES ASSUME ~At(w, "idle") PROVE TablesTyped /\ RequestTyped(w)
  BY DEF Step, At, UpdateSubscription, GetPayment, CreatePaymentFromStripe, GetSubscription,
     CreateSubscriptionFromStripe, CreateSubscription, CreatePayment, UpdatePayment,
     MarkPaymentRetrying, LoadSubscription, ApplyInvoicePaidToSubscription,
     UpdateSubscriptionPastDue, CancelSubscription, GetFreeSubscription, SetFreeSubscription,
     CancelPendingPayments, Respond
<1>3. /\ job[w] \in Job
      /\ JobOK(job[w])
      /\ job[w].ev \in Events
      /\ JobSub(w) \in Subs
      /\ JobUser(w) \in Users
      /\ job[w].ev.type \in InvoiceEventTypes => JobInvoice(w) \in Invoices
  BY <1>2, JobTyped
<1>4. ASSUME Raise(w) PROVE TablesTyped /\ RequestTyped(w)
  BY <1>1, <1>4, IdleTyped DEF Raise, RequestTyped
<1>5. CASE UpdateSubscription(w)
  BY <1>4, <1>5 DEF UpdateSubscription
<1>6. CASE GetPayment(w)
  <2> DEFINE j == [job[w] EXCEPT !.pc = IF Present(payRow[JobInvoice(w)])
                                         THEN "apply_payment"
                                         ELSE "create_payment_from_stripe"]
  <2>1. j \in Job /\ JobOK(j)
    BY <1>3, <1>6 DEF GetPayment, At, Job, JobOK, About, PCs, InvoiceEventTypes
  <2>2. job' = [job EXCEPT ![w] = j]
    BY <1>1, <1>6 DEF GetPayment, Goto
  <2> QED BY <1>1, <1>6, <2>1, <2>2 DEF GetPayment, RequestTyped
<1>7. CASE CreatePaymentFromStripe(w)
  <2> DEFINE j == [job[w] EXCEPT !.pc = "get_subscription",
                                  !.amount = stripeInvoice[JobInvoice(w)].amount]
  <2>1. stripeInvoice[JobInvoice(w)].amount \in Amounts
    BY <1>1, <1>3, <1>7 DEF CreatePaymentFromStripe, At, JobOK, About, InvoiceEventTypes,
         StripeInvoices
  <2>2. j \in Job /\ JobOK(j)
    BY <1>3, <1>7, <2>1 DEF CreatePaymentFromStripe, At, Job, JobOK, About, PCs,
         InvoiceEventTypes
  <2>3. job' = [job EXCEPT ![w] = j]
    BY <1>1, <1>7 DEF CreatePaymentFromStripe, Goto
  <2> QED BY <1>1, <1>7, <2>2, <2>3, <2>1 DEF CreatePaymentFromStripe, RequestTyped
<1>8. CASE GetSubscription(w)
  <2> DEFINE row == subRow[JobSub(w)]
              j == IF Present(row)
                   THEN [job[w] EXCEPT !.pc = "create_payment", !.sub = row]
                   ELSE [job[w] EXCEPT !.pc = "create_subscription_from_stripe"]
  <2>1. row \in SubRow
    BY <1>1, <1>3
  <2>2. j \in Job /\ JobOK(j)
    BY <1>3, <1>8, <2>1 DEF GetSubscription, At, Job, JobOK, About, PCs, InvoiceEventTypes
  <2>3. job' = [job EXCEPT ![w] = j]
    BY <1>1, <1>8 DEF GetSubscription, Goto
  <2> QED BY <1>1, <1>8, <2>2, <2>3, <2>1 DEF GetSubscription, RequestTyped
<1>9. CASE CreateSubscriptionFromStripe(w)
  <2>1. CASE JobSub(w) \notin Resolvable
    BY <1>4, <1>9, <2>1 DEF CreateSubscriptionFromStripe
  <2>2. CASE JobSub(w) \in Resolvable
    <3> DEFINE j == [job[w] EXCEPT !.pc = "create_subscription", !.end = stripeSub[JobSub(w)].cycle]
    <3>1. stripeSub[JobSub(w)].cycle \in Nat
      BY <1>1, <1>3 DEF StripeSubs
    <3>2. j \in Job /\ JobOK(j)
      BY <1>3, <1>9, <3>1 DEF CreateSubscriptionFromStripe, At, Job, JobOK, About, PCs,
           InvoiceEventTypes
    <3>3. job' = [job EXCEPT ![w] = j]
      BY <1>1, <1>9, <2>2 DEF CreateSubscriptionFromStripe
    <3> QED BY <1>1, <1>9, <2>2, <3>2, <3>3 DEF CreateSubscriptionFromStripe, RequestTyped
  <2> QED BY <2>1, <2>2
<1>10. CASE CreateSubscription(w)
  <2> DEFINE row == IF Present(subRow[JobSub(w)]) THEN subRow[JobSub(w)]
                     ELSE [status |-> "inactive", end |-> job[w].end]
              j == [job[w] EXCEPT !.pc = AfterSubscription(w), !.sub = row, !.end = 0]
  <2>1. row \in SubRow
    BY <1>1, <1>3 DEF SubRow, SubStatus, Job
  <2>2. j \in Job /\ JobOK(j)
    BY <1>3, <1>10, <2>1 DEF CreateSubscription, At, Job, JobOK, About, PCs,
         InvoiceEventTypes, AfterSubscription
  <2>3. job' = [job EXCEPT ![w] = j]
    BY <1>1, <1>10 DEF CreateSubscription, Goto
  <2> QED BY <1>1, <1>10, <2>2, <2>3, <2>1 DEF CreateSubscription, RequestTyped
<1>11. CASE CreatePayment(w)
  <2> DEFINE i == JobInvoice(w)
             j == IF Present(payRow[i]) THEN [job[w] EXCEPT !.pc = AfterPayment(w), !.sub = None]
                                        ELSE [job[w] EXCEPT !.pc = AfterPayment(w)]
  <2>1. i \in Invoices /\ job[w].amount \in Amounts
    BY <1>3, <1>11 DEF CreatePayment, At, JobOK, About
  <2>2. j \in Job /\ JobOK(j)
    BY <1>3, <1>11, <2>1 DEF CreatePayment, At, Job, JobOK, About, PCs, InvoiceEventTypes,
         AfterPayment
  <2>3. job' = [job EXCEPT ![w] = j]
    BY <1>1, <1>11 DEF CreatePayment, Goto
  <2>4. payRow' \in [Invoices -> PayRow]
    BY <1>1, <1>11, <2>1 DEF CreatePayment, PayRow, PayStatus
  <2> QED BY <1>1, <1>11, <2>2, <2>3, <2>4 DEF CreatePayment, RequestTyped
<1>12. CASE UpdatePayment(w)
  <2> DEFINE i == JobInvoice(w)
             j == [job[w] EXCEPT !.pc = AfterPaymentSaved(w)]
  <2>1. i \in Invoices
    BY <1>3, <1>12 DEF UpdatePayment, At, JobOK, About, InvoiceEventTypes
  <2>2. CASE payRow[i].amount # job[w].amount
    BY <1>4, <1>12, <2>2 DEF UpdatePayment
  <2>3. CASE payRow[i].amount = job[w].amount
    <3>1. j \in Job /\ JobOK(j)
      BY <1>3, <1>12 DEF UpdatePayment, At, Job, JobOK, About, PCs, InvoiceEventTypes,
         AfterPaymentSaved
    <3>2. job' = [job EXCEPT ![w] = j]
      BY <1>1, <1>12, <2>3 DEF UpdatePayment, Goto
    <3>3. payRow' \in [Invoices -> PayRow]
      BY <1>1, <1>12, <2>1, <2>3 DEF UpdatePayment, PayRow, PayStatus
    <3> QED BY <1>1, <1>12, <2>3, <3>1, <3>2, <3>3 DEF UpdatePayment, RequestTyped
  <2> QED BY <2>2, <2>3
<1>13. CASE MarkPaymentRetrying(w)
  <2> DEFINE i == JobInvoice(w)
             j == [job[w] EXCEPT !.pc = AfterPaymentSaved(w)]
  <2>1. i \in Invoices
    BY <1>3, <1>13 DEF MarkPaymentRetrying, At, JobOK, About, InvoiceEventTypes
  <2>3. TablesTyped /\ RequestTyped(w)
    <3>1. j \in Job /\ JobOK(j)
      BY <1>3, <1>13 DEF MarkPaymentRetrying, At, Job, JobOK, About, PCs, InvoiceEventTypes,
         AfterPaymentSaved
    <3>2. job' = [job EXCEPT ![w] = j]
      BY <1>1, <1>13 DEF MarkPaymentRetrying, Goto
    <3>3. payRow' \in [Invoices -> PayRow]
      BY <1>1, <1>13, <2>1 DEF MarkPaymentRetrying, PayRow, PayStatus
    <3> QED BY <1>1, <1>13, <3>1, <3>2, <3>3 DEF MarkPaymentRetrying, RequestTyped
  <2> QED BY <2>3
<1>14. CASE LoadSubscription(w)
  <2> DEFINE j == [job[w] EXCEPT !.pc = "apply_subscription", !.sub = subRow[JobSub(w)]]
  <2>1. subRow[JobSub(w)] \in SubRow
    BY <1>1, <1>3
  <2>2. j \in Job /\ JobOK(j)
    BY <1>3, <1>14, <2>1 DEF LoadSubscription, At, Job, JobOK, About, PCs, InvoiceEventTypes
  <2>3. job' = [job EXCEPT ![w] = j]
    BY <1>1, <1>14 DEF LoadSubscription, Goto
  <2> QED BY <1>1, <1>14, <2>2, <2>3, <2>1 DEF LoadSubscription, RequestTyped
<1>15. CASE ApplyInvoicePaidToSubscription(w)
  <2> DEFINE j == [job[w] EXCEPT !.pc = "get_free", !.sub = None]
  <2>1. subRow' \in [Subs -> SubRow]
    <3>1. Period[JobInvoice(w)] \in Nat
      BY <1>3, <1>15, InvoicesAssumption DEF ApplyInvoicePaidToSubscription, InvoiceEventTypes
    <3> QED BY <1>1, <1>3, <1>15, <3>1, SaveTyped DEF ApplyInvoicePaidToSubscription, SubStatus
  <2>2. j \in Job /\ JobOK(j)
    BY <1>3, <1>15, <2>1 DEF ApplyInvoicePaidToSubscription, At, Job, JobOK, About, PCs,
         InvoiceEventTypes
  <2>3. job' = [job EXCEPT ![w] = j]
    BY <1>1, <1>15 DEF ApplyInvoicePaidToSubscription, Goto
  <2> QED BY <1>1, <1>15, <2>2, <2>3, <2>1 DEF ApplyInvoicePaidToSubscription, RequestTyped
<1>16. CASE UpdateSubscriptionPastDue(w)
  <2> DEFINE j == [job[w] EXCEPT !.pc = "respond", !.sub = None]
  <2>1. subRow' \in [Subs -> SubRow]
    <3>1. job[w].sub \in SubRow
      BY <1>3, <1>16 DEF UpdateSubscriptionPastDue, At, JobOK
    <3>2. job[w].sub.end \in Nat
      BY <3>1 DEF SubRow
    <3> QED BY <1>1, <1>3, <1>16, <3>2, SaveTyped DEF UpdateSubscriptionPastDue, SubStatus
  <2>2. j \in Job /\ JobOK(j)
    BY <1>3, <1>16, <2>1 DEF UpdateSubscriptionPastDue, At, Job, JobOK, About, PCs,
         InvoiceEventTypes
  <2>3. job' = [job EXCEPT ![w] = j]
    BY <1>1, <1>16 DEF UpdateSubscriptionPastDue, Goto
  <2> QED BY <1>1, <1>16, <2>2, <2>3, <2>1 DEF UpdateSubscriptionPastDue, RequestTyped
<1>17. CASE CancelSubscription(w)
  <2> DEFINE j == [job[w] EXCEPT !.pc = IF Present(subRow[JobSub(w)]) THEN "get_free"
                                                                     ELSE "respond"]
  <2>1. subRow' \in [Subs -> SubRow]
    BY <1>1, <1>3, <1>17 DEF CancelSubscription, SubRow, SubStatus, EndedAt
  <2>2. j \in Job /\ JobOK(j)
    BY <1>3, <1>17, <2>1 DEF CancelSubscription, At, Job, JobOK, About, PCs, InvoiceEventTypes
  <2>3. job' = [job EXCEPT ![w] = j]
    BY <1>1, <1>17 DEF CancelSubscription, Goto
  <2> QED BY <1>1, <1>17, <2>2, <2>3, <2>1 DEF CancelSubscription, RequestTyped
<1>18. CASE GetFreeSubscription(w)
  <2> DEFINE j == IF freeRow[JobUser(w)] = None
                   THEN [job[w] EXCEPT !.pc = AfterFree(w)]
                   ELSE [job[w] EXCEPT !.pc = "set_free", !.free = freeRow[JobUser(w)]]
  <2>1. freeRow[JobUser(w)] \in FreeStatus \cup {None}
    BY <1>1, <1>3
  <2>2. j \in Job /\ JobOK(j)
    BY <1>3, <1>18, <2>1 DEF GetFreeSubscription, At, Job, JobOK, About, PCs,
         InvoiceEventTypes, AfterFree
  <2>3. job' = [job EXCEPT ![w] = j]
    BY <1>1, <1>18 DEF GetFreeSubscription, Goto
  <2> QED BY <1>1, <1>18, <2>2, <2>3, <2>1 DEF GetFreeSubscription, RequestTyped
<1>19. CASE SetFreeSubscription(w)
  <2> DEFINE j == [job[w] EXCEPT !.pc = AfterFree(w), !.free = None]
  <2>1. freeRow' \in [Users -> FreeStatus \cup {None}]
    BY <1>1, <1>3, <1>19 DEF SetFreeSubscription, FreeTarget, FreeStatus
  <2>2. j \in Job /\ JobOK(j)
    BY <1>3, <1>19, <2>1 DEF SetFreeSubscription, At, Job, JobOK, About, PCs,
         InvoiceEventTypes, AfterFree
  <2>3. job' = [job EXCEPT ![w] = j]
    BY <1>1, <1>19 DEF SetFreeSubscription, Goto
  <2> QED BY <1>1, <1>19, <2>2, <2>3, <2>1 DEF SetFreeSubscription, RequestTyped
<1>20. CASE CancelPendingPayments(w)
  <2> DEFINE j == [job[w] EXCEPT !.pc = "respond"]
  <2>1. payRow' \in [Invoices -> PayRow]
    BY <1>1, <1>3, <1>20 DEF CancelPendingPayments, PayRow, PayStatus
  <2>2. j \in Job /\ JobOK(j)
    BY <1>3, <1>20, <2>1 DEF CancelPendingPayments, At, Job, JobOK, About, PCs,
         InvoiceEventTypes
  <2>3. job' = [job EXCEPT ![w] = j]
    BY <1>1, <1>20 DEF CancelPendingPayments, Goto
  <2> QED BY <1>1, <1>20, <2>2, <2>3, <2>1 DEF CancelPendingPayments, RequestTyped
<1>21. CASE Respond(w)
  BY <1>1, <1>21, IdleTyped DEF Respond, RequestTyped
<1> QED BY <1>5, <1>6, <1>7, <1>8, <1>9, <1>10, <1>11, <1>12, <1>13, <1>14, <1>15, <1>16,
     <1>17, <1>18, <1>19, <1>20, <1>21 DEF Step

LEMMA DeliverTyped ==
    ASSUME TypeInv, NEW w \in Workers, Deliver(w) PROVE TablesTyped /\ RequestTyped(w)
<1>1. /\ stripeSub \in [Subs -> StripeSubs]
      /\ stripeInvoice \in [Invoices -> StripeInvoices]
      /\ inbox \subseteq Events
      /\ subRow \in [Subs -> SubRow]
      /\ payRow \in [Invoices -> PayRow]
      /\ freeRow \in [Users -> FreeStatus \cup {None}]
      /\ job \in [Workers -> Job]
  BY DEF TypeInv, TypeOK
<1> USE DEF TablesTyped, dbVars, stripeVars
<1>2. ASSUME NEW s \in Subs, HandleSubscriptionCreated(w, s) PROVE TablesTyped /\ RequestTyped(w)
  <2> DEFINE e == SubEvent("subscription.created", s)
             j == IF s \in Resolvable
                  THEN [IdleJob EXCEPT !.pc = "create_subscription", !.ev = e,
                                       !.end = stripeSub[s].cycle]
                  ELSE [IdleJob EXCEPT !.pc = "respond", !.ev = e]
  <2>1. e \in Events /\ e.type = "subscription.created" /\ stripeSub[s].cycle \in Nat
    BY <1>1, SubEventTyped DEF SubEventTypes, SubEvent, StripeSubs
  <2>2. j \in Job /\ JobOK(j)
    BY <2>1 DEF IdleJob, Job, JobOK, About, PCs, InvoiceEventTypes
  <2>3. job' = [job EXCEPT ![w] = j]
    BY <1>2 DEF HandleSubscriptionCreated, Receive
  <2> QED BY <1>1, <1>2, <2>2, <2>3 DEF HandleSubscriptionCreated, Receive, RequestTyped
<1>3. ASSUME NEW s \in Subs, HandleSubscriptionUpdated(w, s) PROVE TablesTyped /\ RequestTyped(w)
  <2> DEFINE e == SubEvent("subscription.updated", s)
             j == [IdleJob EXCEPT !.pc = IF stripeSub[s].cancelling THEN "update_subscription"
                                                                    ELSE "respond",
                                  !.ev = e]
  <2>1. e \in Events /\ e.type = "subscription.updated"
    BY SubEventTyped DEF SubEventTypes, SubEvent
  <2>2. j \in Job /\ JobOK(j)
    BY <2>1 DEF IdleJob, Job, JobOK, About, PCs, InvoiceEventTypes
  <2>3. job' = [job EXCEPT ![w] = j]
    BY <1>3 DEF HandleSubscriptionUpdated, Receive
  <2> QED BY <1>1, <1>3, <2>2, <2>3 DEF HandleSubscriptionUpdated, Receive, RequestTyped
<1>4. ASSUME NEW s \in Subs, HandleSubscriptionDeleted(w, s) PROVE TablesTyped /\ RequestTyped(w)
  <2> DEFINE e == SubEvent("subscription.deleted", s)
             j == [IdleJob EXCEPT !.pc = "cancel_subscription", !.ev = e]
  <2>1. e \in Events /\ e.type = "subscription.deleted"
    BY SubEventTyped DEF SubEventTypes, SubEvent
  <2>2. j \in Job /\ JobOK(j)
    BY <2>1 DEF IdleJob, Job, JobOK, About, PCs, InvoiceEventTypes
  <2>3. job' = [job EXCEPT ![w] = j]
    BY <1>4 DEF HandleSubscriptionDeleted, Receive
  <2> QED BY <1>1, <1>4, <2>2, <2>3 DEF HandleSubscriptionDeleted, Receive, RequestTyped
<1>5. ASSUME NEW i \in Invoices, NEW t \in InvoiceEventTypes,
             NEW label \in {"get_subscription", "get_payment", "respond"},
             label = "get_payment" => t \in {"invoice.paid", "invoice.payment_failed"},
             ReceiveInvoice(w, InvoiceEvent(t, i), label)
      PROVE  TablesTyped /\ RequestTyped(w)
  <2> DEFINE e == InvoiceEvent(t, i)
             j == [IdleJob EXCEPT !.pc = label, !.ev = e, !.amount = stripeInvoice[e.obj].amount]
  <2>1. e \in Events /\ e.type = t /\ e.obj = i /\ stripeInvoice[i].amount \in Amounts
    BY <1>1, InvoiceEventTyped DEF InvoiceEvent, StripeInvoices
  <2>2. j \in Job /\ JobOK(j)
    BY <1>5, <2>1 DEF IdleJob, Job, JobOK, About, PCs, InvoiceEventTypes
  <2>3. job' = [job EXCEPT ![w] = j]
    BY <1>5 DEF ReceiveInvoice
  <2> QED BY <1>1, <1>5, <2>2, <2>3 DEF ReceiveInvoice, RequestTyped
<1>6. ASSUME NEW i \in Invoices,
             HandleInvoiceCreated(w, i) \/ HandleInvoicePaid(w, i) \/ HandleInvoicePaymentFailed(w, i)
      PROVE  TablesTyped /\ RequestTyped(w)
  BY <1>5, <1>6 DEF HandleInvoiceCreated, HandleInvoicePaid, HandleInvoicePaymentFailed,
     InvoiceEventTypes
<1> QED BY <1>2, <1>3, <1>4, <1>6 DEF Deliver

LEMMA TypeInvStep == TypeInv /\ [Next]_vars => TypeInv'
<1> SUFFICES ASSUME TypeInv, [Next]_vars PROVE TypeInv'
  OBVIOUS
<1>1. CASE Stripe
  BY <1>1, StripeTypeInv
<1>2. ASSUME NEW w \in Workers, Deliver(w) \/ Step(w) \/ Fail(w) PROVE TypeInv'
  <2>1. TablesTyped /\ RequestTyped(w)
    BY <1>2, DeliverTyped, StepTyped, IdleTyped DEF Fail, TablesTyped, RequestTyped, dbVars,
       stripeVars, TypeInv, TypeOK
  <2>2. PICK j \in Job : JobOK(j) /\ job' = [job EXCEPT ![w] = j]
    BY <2>1 DEF RequestTyped
  <2>3. job' \in [Workers -> Job] /\ \A v \in Workers : JobOK(job'[v])
    BY <2>2 DEF TypeInv, TypeOK
  <2>4. \A v \in Workers : job'[v].pc # "idle" => job'[v].ev \in Events
    BY <2>3 DEF JobOK
  <2> QED BY <2>1, <2>3, <2>4 DEF TablesTyped, stripeVars, TypeInv, TypeOK
<1>3. CASE UNCHANGED vars
  BY <1>3 DEF vars, TypeInv, TypeOK
<1> QED BY <1>1, <1>2, <1>3 DEF Next

\* Every variable keeps its type, and a request at a step is about an event
\* that step handles: the dispatch table sends no event to a wrong handler.
THEOREM TypeCorrect == Spec => []TypeOK
<1>1. TypeInv => TypeOK
  BY DEF TypeInv
<1> QED BY InitTypeInv, TypeInvStep, <1>1, PTL DEF Spec

-----------------------------------------------------------------------------
(* The inductive invariant.  Each part names what the next ones rest on.      *)

Busy(w) == job[w].pc # "idle"

\* Stripe bills only subscriptions that exist.
InvoicesBelong ==
    \A i \in Invoices : stripeInvoice[i].status # "none" => stripeSub[SubOf[i]].status # "none"

\* An event tells what has become final at Stripe, wherever the event is.
Final(e) ==
    /\ e.type = "invoice.paid" => PaidInStripe(e.obj)
    /\ e.type = "subscription.deleted" => stripeSub[e.obj].status = "ended"
EventsFinal ==
    /\ \A e \in inbox : Final(e)
    /\ \A w \in Workers : Busy(w) => Final(job[w].ev)

\* The summary of a paid invoice is not stale: the amount can no longer change.
SummariesFresh ==
    \A w \in Workers : Busy(w) /\ job[w].ev.type = "invoice.paid" =>
        job[w].amount = stripeInvoice[JobInvoice(w)].amount

\* The foreign keys: a payment, or a request that holds one, has its rows.
RowsHeld ==
    /\ \A i \in Invoices : Present(payRow[i]) => Present(subRow[SubOf[i]])
    /\ \A w \in Workers : Busy(w) =>
        /\ job[w].pc \in {"apply_payment", "load_subscription"} => Present(payRow[JobInvoice(w)])
        /\ job[w].pc = "create_payment" \/ job[w].sub # None => Present(subRow[JobSub(w)])

PaidEnd(s, day) ==
    \/ day = EndedAt
    \/ \E i \in Invoices : SubOf[i] = s /\ PaidInStripe(i) /\ day = Period[i]

\* An instance in memory still shows the end of its row, unless the row has
\* moved on to an end that was paid for.
SnapshotsUsable ==
    \A w \in Workers : Busy(w) /\ job[w].sub # None =>
        \/ subRow[JobSub(w)].end = job[w].sub.end
        \/ PaidEnd(JobSub(w), subRow[JobSub(w)].end)

\* Only a failed renewal gets as far as the payment.
FailuresAreRenewals ==
    \A w \in Workers :
        Busy(w) /\ job[w].pc # "respond" /\ job[w].ev.type = "invoice.payment_failed" =>
            JobInvoice(w) \in Cycle

Recorded(i) ==
    IF i \in Cycle THEN payRow[i].status \notin {"absent", "pending"} ELSE payRow[i].status = "paid"

Late == {"load_subscription", "apply_subscription", "get_free", "set_free", "respond"}

\* The payment is marked PAID before anything that follows it.
RecordedFirst ==
    \A w \in Workers :
        job[w].pc \in Late /\ job[w].ev.type = "invoice.paid" => Recorded(JobInvoice(w))

IInv ==
    /\ TypeInv
    /\ InvoicesBelong
    /\ EventsFinal
    /\ SummariesFresh
    /\ RowsHeld
    /\ SnapshotsUsable
    /\ FailuresAreRenewals
    /\ RecordedFirst
    /\ PaidMatchesCharge
    /\ CanceledOnlyWhenEnded
    /\ FreeDisplacedOnlyByPayment
    /\ ActiveEndIsPaidFor
    /\ AcknowledgedPaidIsRecorded

-----------------------------------------------------------------------------
(* What a step does: to Stripe, to its request, to a row of each table.       *)

\* What is final at Stripe stays: a collected invoice, an ended subscription.
FinalStays ==
    /\ \A i \in Invoices : PaidInStripe(i) => stripeInvoice'[i] = stripeInvoice[i]
    /\ \A s \in Subs : stripeSub[s].status = "ended" => stripeSub'[s].status = "ended"

LEMMA StripeSteps ==
    ASSUME TypeInv, InvoicesBelong, Stripe
    PROVE  /\ FinalStays
           /\ InvoicesBelong'
           /\ inbox \subseteq inbox'
           /\ \A e \in inbox' \ inbox : Final(e)'
           /\ \A i \in Invoices : PaidInStripe(i)' /\ ~PaidInStripe(i) =>
                InvoiceEvent("invoice.paid", i) \in inbox'
<1> DEFINE Goal == /\ FinalStays
                   /\ InvoicesBelong'
                   /\ inbox \subseteq inbox'
                   /\ \A e \in inbox' \ inbox : Final(e)'
                   /\ \A i \in Invoices : PaidInStripe(i)' /\ ~PaidInStripe(i) =>
                        InvoiceEvent("invoice.paid", i) \in inbox'
<1>1. /\ stripeSub \in [Subs -> StripeSubs]
      /\ stripeInvoice \in [Invoices -> StripeInvoices]
  BY DEF TypeInv, TypeOK
<1> USE <1>1, InvoicesAssumption DEF StripeSubs, StripeInvoices, Emit, SubEvent, InvoiceEvent, Final, FinalStays,
        InvoicesBelong, PaidInStripe, stripeVars
<1>2. ASSUME NEW s \in Subs, Checkout(s) PROVE Goal
  <2>1. PICK i \in Invoices :
          /\ SubOf[i] = s
          /\ stripeSub' = [stripeSub EXCEPT ![s].status = "live", ![s].cycle = Period[i]]
          /\ stripeInvoice' = [stripeInvoice EXCEPT ![i].status = "open"]
          /\ inbox' = inbox \cup {SubEvent("subscription.created", s),
                                  InvoiceEvent("invoice.created", i)}
    BY <1>2 DEF Checkout
  <2>2. stripeSub[s].status = "none" /\ stripeInvoice[i].status = "none"
    BY <1>2, <2>1 DEF Checkout
  <2>3. \A t \in Subs : stripeSub'[t].status = IF t = s THEN "live" ELSE stripeSub[t].status
    BY <2>1
  <2>4. \A j \in Invoices : j # i => stripeInvoice'[j] = stripeInvoice[j]
    BY <2>1
  <2>5. stripeInvoice'[i].status = "open"
    BY <2>1
  <2>6. FinalStays
    BY <2>2, <2>3, <2>4
  <2>7. InvoicesBelong'
    <3> SUFFICES ASSUME NEW j \in Invoices, stripeInvoice'[j].status # "none"
                 PROVE  stripeSub'[SubOf[j]].status # "none"
      OBVIOUS
    <3>1. SubOf[j] \in Subs
      OBVIOUS
    <3> QED BY <2>1, <2>3, <2>4, <3>1
  <2> QED BY <2>1, <2>4, <2>5, <2>6, <2>7
<1>3. ASSUME NEW s \in Subs, ChangePlan(s) PROVE Goal
  BY <1>3 DEF ChangePlan
<1>4. ASSUME NEW s \in Subs, StripeEnd(s) PROVE Goal
  BY <1>4 DEF StripeEnd
<1>5. ASSUME NEW i \in Invoices, StripeRenew(i) PROVE Goal
  BY <1>5 DEF StripeRenew
<1>6. ASSUME NEW i \in Invoices, StripeAmend(i) PROVE Goal
  BY <1>6 DEF StripeAmend
<1>7. ASSUME NEW i \in Invoices, StripeCollect(i) PROVE Goal
  BY <1>7 DEF StripeCollect
<1>8. ASSUME NEW i \in Invoices, StripeDecline(i) PROVE Goal
  BY <1>8 DEF StripeDecline
<1> QED BY <1>2, <1>3, <1>4, <1>5, <1>6, <1>7, <1>8 DEF Stripe

\* A delivery gives an idle worker an event of the inbox.
LEMMA DeliverSteps ==
    ASSUME TypeInv, NEW w \in Workers, Deliver(w)
    PROVE  /\ UNCHANGED <<stripeVars, inbox, dbVars>>
           /\ \A v \in Workers \ {w} : job'[v] = job[v]
           /\ job'[w].ev \in inbox
           /\ job'[w].pc \notin {"apply_payment", "load_subscription", "apply_subscription",
                                "get_free", "set_free", "create_payment"}
           /\ job'[w].sub = None
           /\ job'[w].ev.type = "invoice.paid" =>
                /\ job'[w].pc = "get_payment"
                /\ job'[w].amount = stripeInvoice[job'[w].ev.obj].amount
           /\ job'[w].ev.type = "invoice.payment_failed" /\ job'[w].pc # "respond" =>
                job'[w].ev.obj \in Cycle
<1>1. job \in [Workers -> Job]
  BY DEF TypeInv, TypeOK
<1> USE <1>1 DEF Receive, ReceiveInvoice, SubEvent, InvoiceEvent, IdleJob
<1> DEFINE Goal ==
        /\ UNCHANGED <<stripeVars, inbox, dbVars>>
        /\ \A v \in Workers \ {w} : job'[v] = job[v]
        /\ job'[w].ev \in inbox
        /\ job'[w].pc \notin {"apply_payment", "load_subscription", "apply_subscription",
                             "get_free", "set_free", "create_payment"}
        /\ job'[w].sub = None
        /\ job'[w].ev.type = "invoice.paid" =>
             /\ job'[w].pc = "get_payment"
             /\ job'[w].amount = stripeInvoice[job'[w].ev.obj].amount
        /\ job'[w].ev.type = "invoice.payment_failed" /\ job'[w].pc # "respond" =>
             job'[w].ev.obj \in Cycle
<1>2. ASSUME NEW s \in Subs, HandleSubscriptionCreated(w, s) PROVE Goal
  <2> DEFINE e == SubEvent("subscription.created", s)
             Start == [IdleJob EXCEPT !.pc = "create_subscription", !.ev = e,
                                      !.end = stripeSub[s].cycle]
  <2>1. CASE Receive(w, e, "respond")
    BY <2>1
  <2>2. CASE e \in inbox /\ job' = [job EXCEPT ![w] = Start] /\ UNCHANGED <<stripeVars, inbox, dbVars>>
    <3>1. job'[w] = Start
      BY <2>2
    <3>2. Start.pc = "create_subscription" /\ Start.ev = e /\ Start.sub = None
      OBVIOUS
    <3>3. e.type = "subscription.created"
      OBVIOUS
    <3> HIDE DEF Start, e
    <3> QED BY <2>2, <3>1, <3>2, <3>3
  <2> QED BY <1>2, <2>1, <2>2, Zenon DEF HandleSubscriptionCreated
<1>3. ASSUME NEW s \in Subs, HandleSubscriptionUpdated(w, s) PROVE Goal
  BY <1>3 DEF HandleSubscriptionUpdated
<1>4. ASSUME NEW s \in Subs, HandleSubscriptionDeleted(w, s) PROVE Goal
  BY <1>4 DEF HandleSubscriptionDeleted
<1>5. ASSUME NEW i \in Invoices, HandleInvoiceCreated(w, i) PROVE Goal
  BY <1>5 DEF HandleInvoiceCreated
<1>6. ASSUME NEW i \in Invoices, HandleInvoicePaid(w, i) PROVE Goal
  BY <1>6 DEF HandleInvoicePaid
<1>7. ASSUME NEW i \in Invoices, HandleInvoicePaymentFailed(w, i) PROVE Goal
  BY <1>7 DEF HandleInvoicePaymentFailed
<1> QED BY <1>2, <1>3, <1>4, <1>5, <1>6, <1>7 DEF Deliver

\* A step of a request keeps its event until the request ends, rereads the
\* invoice at most, and takes nothing but that event out of the inbox.
LEMMA RequestSteps ==
    ASSUME TypeInv, NEW w \in Workers, Step(w)
    PROVE  /\ Busy(w)
           /\ UNCHANGED stripeVars
           /\ \A v \in Workers \ {w} : job'[v] = job[v]
           /\ inbox' = inbox \/ (Respond(w) /\ inbox' = inbox \ {job[w].ev})
           /\ job'[w].pc # "idle" =>
                /\ job'[w].ev = job[w].ev
                /\ \/ job'[w].amount = job[w].amount
                   \/ job'[w].amount = stripeInvoice[JobInvoice(w)].amount
<1>1. job \in [Workers -> Job]
  BY DEF TypeInv, TypeOK
<1> USE <1>1 DEF At, Busy, Job, stripeVars
<1>2. CASE UpdateSubscription(w)
  BY <1>2 DEF UpdateSubscription, Raise, IdleJob
<1>3. CASE GetPayment(w)
  BY <1>3 DEF GetPayment, Goto
<1>4. CASE CreatePaymentFromStripe(w)
  BY <1>4 DEF CreatePaymentFromStripe
<1>5. CASE GetSubscription(w)
  BY <1>5 DEF GetSubscription
<1>6. CASE CreateSubscriptionFromStripe(w)
  BY <1>6 DEF CreateSubscriptionFromStripe, Raise, IdleJob
<1>7. CASE CreateSubscription(w)
  BY <1>7 DEF CreateSubscription, AfterSubscription
<1>8. CASE CreatePayment(w)
  BY <1>8 DEF CreatePayment, Goto, AfterPayment
<1>9. CASE UpdatePayment(w)
  BY <1>9 DEF UpdatePayment, Raise, Goto, IdleJob
<1>10. CASE MarkPaymentRetrying(w)
  BY <1>10 DEF MarkPaymentRetrying, Goto
<1>11. CASE LoadSubscription(w)
  BY <1>11 DEF LoadSubscription
<1>12. CASE ApplyInvoicePaidToSubscription(w)
  BY <1>12 DEF ApplyInvoicePaidToSubscription
<1>13. CASE UpdateSubscriptionPastDue(w)
  BY <1>13 DEF UpdateSubscriptionPastDue
<1>14. CASE CancelSubscription(w)
  BY <1>14 DEF CancelSubscription, Goto
<1>15. CASE GetFreeSubscription(w)
  BY <1>15 DEF GetFreeSubscription
<1>16. CASE SetFreeSubscription(w)
  BY <1>16 DEF SetFreeSubscription
<1>17. CASE CancelPendingPayments(w)
  BY <1>17 DEF CancelPendingPayments, Goto
<1>18. CASE Respond(w)
  BY <1>18 DEF Respond, IdleJob
<1> QED BY <1>2, <1>3, <1>4, <1>5, <1>6, <1>7, <1>8, <1>9, <1>10, <1>11, <1>12, <1>13, <1>14,
     <1>15, <1>16, <1>17, <1>18 DEF Step

\* What a step may do to one subscription row, ...
LEMMA SubRowSteps ==
    ASSUME TypeInv, NEW w \in Workers, Step(w), NEW s \in Subs
    PROVE  \/ subRow'[s] = subRow[s]
           \/ /\ CreateSubscription(w) /\ s = JobSub(w)
              /\ ~Present(subRow[s])
              /\ subRow'[s].status = "inactive"
           \/ /\ ApplyInvoicePaidToSubscription(w) /\ s = JobSub(w)
              /\ subRow'[s].status \in {subRow[s].status, "active"}
              /\ subRow'[s].end =
                    IF job[w].sub.end # Period[JobInvoice(w)] THEN Period[JobInvoice(w)]
                                                              ELSE subRow[s].end
           \/ /\ UpdateSubscriptionPastDue(w) /\ s = JobSub(w)
              /\ subRow'[s].status \in {subRow[s].status, "past_due"}
              /\ subRow'[s].end = subRow[s].end
           \/ /\ CancelSubscription(w) /\ s = JobSub(w)
              /\ Present(subRow[s])
              /\ subRow'[s] = [status |-> "canceled", end |-> EndedAt]
<1>1. subRow \in [Subs -> SubRow] /\ subRow[s] \in SubRow
  BY DEF TypeInv, TypeOK
<1>2. JobSub(w) \in Subs
  BY JobTyped, RequestSteps DEF At, Busy
<1> USE <1>1, <1>2 DEF Present, SubRow
<1>3. CASE CreateSubscription(w)
  BY <1>3 DEF CreateSubscription
<1>4. CASE ApplyInvoicePaidToSubscription(w)
  BY <1>4 DEF ApplyInvoicePaidToSubscription, SaveSubscription
<1>5. CASE UpdateSubscriptionPastDue(w)
  BY <1>5 DEF UpdateSubscriptionPastDue, SaveSubscription
<1>6. CASE CancelSubscription(w)
  BY <1>6 DEF CancelSubscription
<1>7. \/ CreateSubscription(w) \/ ApplyInvoicePaidToSubscription(w)
      \/ UpdateSubscriptionPastDue(w) \/ CancelSubscription(w)
      \/ UNCHANGED subRow
  BY DEF Step, Raise, dbVars, UpdateSubscription, GetPayment, CreatePaymentFromStripe,
      GetSubscription, CreateSubscriptionFromStripe, CreatePayment, UpdatePayment,
      MarkPaymentRetrying, LoadSubscription, GetFreeSubscription, SetFreeSubscription,
      CancelPendingPayments, Respond
<1> QED BY <1>3, <1>4, <1>5, <1>6, <1>7

\* ... to one payment row, ...
LEMMA PayRowSteps ==
    ASSUME TypeInv, NEW w \in Workers, Step(w), NEW i \in Invoices
    PROVE  \/ payRow'[i] = payRow[i]
           \/ /\ CreatePayment(w) /\ i = JobInvoice(w)
              /\ ~Present(payRow[i])
              /\ payRow'[i].status = "pending"
           \/ /\ UpdatePayment(w) /\ i = JobInvoice(w)
              /\ payRow[i].amount = job[w].amount
              /\ payRow'[i].status = "paid"
              /\ payRow'[i].amount = payRow[i].amount
           \/ /\ MarkPaymentRetrying(w) /\ i = JobInvoice(w)
              /\ payRow'[i].status = "retrying"
           \/ /\ CancelPendingPayments(w) /\ SubOf[i] = JobSub(w)
              /\ payRow[i].status \in {"pending", "retrying"}
              /\ payRow'[i].status = "canceled"
<1>1. payRow \in [Invoices -> PayRow] /\ payRow[i] \in PayRow
  BY DEF TypeInv, TypeOK
<1> USE <1>1 DEF Present, PayRow
<1>2. CASE CreatePayment(w)
  BY <1>2 DEF CreatePayment
<1>3. CASE UpdatePayment(w)
  BY <1>3 DEF UpdatePayment, Raise, dbVars
<1>4. CASE MarkPaymentRetrying(w)
  BY <1>4 DEF MarkPaymentRetrying
<1>5. CASE CancelPendingPayments(w)
  BY <1>5 DEF CancelPendingPayments
<1>6. \/ CreatePayment(w) \/ UpdatePayment(w)
      \/ MarkPaymentRetrying(w) \/ CancelPendingPayments(w)
      \/ UNCHANGED payRow
  BY DEF Step, Raise, dbVars, UpdateSubscription, GetPayment, CreatePaymentFromStripe,
      GetSubscription, CreateSubscriptionFromStripe, CreateSubscription,
      LoadSubscription, ApplyInvoicePaidToSubscription, UpdateSubscriptionPastDue,
      CancelSubscription, GetFreeSubscription, SetFreeSubscription, Respond
<1> QED BY <1>2, <1>3, <1>4, <1>5, <1>6

\* ... and to the free subscription of one user.
LEMMA FreeRowSteps ==
    ASSUME TypeInv, NEW w \in Workers, Step(w), NEW u \in Users
    PROVE  \/ freeRow'[u] = freeRow[u]
           \/ SetFreeSubscription(w) /\ u = JobUser(w) /\ freeRow'[u] = FreeTarget(w)
<1>1. freeRow \in [Users -> FreeStatus \cup {None}]
  BY DEF TypeInv, TypeOK
<1>2. SetFreeSubscription(w) \/ UNCHANGED freeRow
  BY DEF Step, Raise, dbVars, UpdateSubscription, GetPayment, CreatePaymentFromStripe,
      GetSubscription, CreateSubscriptionFromStripe, CreateSubscription, CreatePayment,
      UpdatePayment, MarkPaymentRetrying, LoadSubscription,
      ApplyInvoicePaidToSubscription, UpdateSubscriptionPastDue, CancelSubscription,
      GetFreeSubscription, CancelPendingPayments, Respond
<1> QED BY <1>1, <1>2 DEF SetFreeSubscription

\* A request that is lost leaves everything but itself.
LEMMA FailSteps ==
    ASSUME TypeInv, NEW w \in Workers, Fail(w)
    PROVE  /\ UNCHANGED <<stripeVars, inbox, dbVars>>
           /\ \A v \in Workers \ {w} : job'[v] = job[v]
           /\ job'[w].pc = "idle"
  BY DEF Fail, TypeInv, TypeOK, IdleJob

\* The cases of every proof below.
LEMMA NextCases ==
    ASSUME [Next]_vars
    PROVE  \/ Stripe
           \/ \E w \in Workers : Deliver(w) \/ Step(w) \/ Fail(w)
           \/ UNCHANGED vars
  BY DEF Next

LEMMA FinalStaysNext == ASSUME TypeInv, InvoicesBelong, [Next]_vars
                        PROVE  FinalStays /\ InvoicesBelong'
<1>1. CASE Stripe
  BY <1>1, StripeSteps
<1>2. CASE UNCHANGED stripeVars
  BY <1>2 DEF stripeVars, FinalStays, InvoicesBelong
<1> QED BY <1>1, <1>2, NextCases, DeliverSteps, RequestSteps, FailSteps DEF vars, stripeVars

LEMMA FinalPreserved == ASSUME FinalStays, NEW e \in Events, Final(e) PROVE Final(e)'
  BY EventTyped DEF FinalStays, Final, PaidInStripe, SubEventTypes, InvoiceEventTypes

LEMMA EventsFinalStep == ASSUME TypeInv, InvoicesBelong, EventsFinal, [Next]_vars
                         PROVE  EventsFinal'
<1>1. \A e \in Events : Final(e) => Final(e)'
  BY FinalStaysNext, FinalPreserved
<1>2. inbox \subseteq Events /\ \A w \in Workers : Busy(w) => job[w].ev \in Events
  BY DEF TypeInv, TypeOK, Busy
<1>3. CASE Stripe
  <2>1. \A e \in inbox' : Final(e)'
    BY <1>1, <1>2, <1>3, StripeSteps DEF EventsFinal
  <2>2. \A w \in Workers : Busy(w)' => Final(job[w].ev)'
    BY <1>1, <1>2, <1>3, StripeLeaves DEF EventsFinal, Busy
  <2> QED BY <2>1, <2>2 DEF EventsFinal
<1>4. ASSUME NEW w \in Workers, Deliver(w) \/ Step(w) \/ Fail(w) PROVE EventsFinal'
  <2>1. /\ inbox' \subseteq inbox
        /\ \A v \in Workers \ {w} : job'[v] = job[v]
        /\ job'[w].pc # "idle" => job'[w].ev \in inbox \/ (Busy(w) /\ job'[w].ev = job[w].ev)
    BY <1>4, DeliverSteps, RequestSteps, FailSteps
  <2>2. \A e \in inbox' : Final(e)'
    BY <1>1, <1>2, <2>1 DEF EventsFinal
  <2>3. \A v \in Workers : Busy(v)' => Final(job[v].ev)'
    BY <1>1, <1>2, <2>1 DEF EventsFinal, Busy
  <2> QED BY <2>2, <2>3 DEF EventsFinal
<1>5. CASE UNCHANGED vars
  BY <1>1, <1>2, <1>5 DEF EventsFinal, vars, Busy
<1> QED BY <1>3, <1>4, <1>5, NextCases

\* What a request knows of its event, by what the event is.
LEMMA EventKnown ==
    ASSUME TypeInv, EventsFinal, NEW w \in Workers, Busy(w)
    PROVE  /\ job[w].ev.type = "invoice.paid" =>
                /\ JobInvoice(w) \in Invoices
                /\ SubOf[JobInvoice(w)] = JobSub(w)
                /\ PaidInStripe(JobInvoice(w))
           /\ job[w].ev.type = "invoice.payment_failed" => JobInvoice(w) \in Invoices
           /\ job[w].ev.type = "subscription.deleted" => stripeSub[JobSub(w)].status = "ended"
<1>1. job[w].ev \in Events /\ Final(job[w].ev)
  BY DEF TypeInv, TypeOK, Busy, EventsFinal
<1> QED BY <1>1, EventTyped DEF Final, JobInvoice, JobSub, SubEventTypes, InvoiceEventTypes

LEMMA SummariesFreshStep == ASSUME TypeInv, InvoicesBelong, EventsFinal, SummariesFresh, [Next]_vars
                            PROVE  SummariesFresh'
<1> SUFFICES ASSUME NEW v \in Workers, Busy(v)', job'[v].ev.type = "invoice.paid"
             PROVE  job'[v].amount = stripeInvoice'[job'[v].ev.obj].amount
  BY DEF SummariesFresh, JobInvoice
<1>1. FinalStays
  BY FinalStaysNext
<1>2. ASSUME Busy(v), job'[v].ev = job[v].ev,
             \/ job'[v].amount = job[v].amount
             \/ job'[v].amount = stripeInvoice[JobInvoice(v)].amount
      PROVE  job'[v].amount = stripeInvoice'[job'[v].ev.obj].amount
  <2>1. job'[v].amount = stripeInvoice[JobInvoice(v)].amount
    BY <1>2 DEF SummariesFresh
  <2>2. stripeInvoice'[JobInvoice(v)] = stripeInvoice[JobInvoice(v)]
    BY <1>1, <1>2, EventKnown DEF FinalStays
  <2> QED BY <1>2, <2>1, <2>2 DEF JobInvoice
<1>3. CASE Stripe \/ UNCHANGED vars
  BY <1>2, <1>3, StripeLeaves DEF vars, Busy
<1>4. ASSUME NEW w \in Workers, Deliver(w) \/ Step(w) \/ Fail(w), v # w
      PROVE  job'[v].amount = stripeInvoice'[job'[v].ev.obj].amount
  BY <1>2, <1>4, DeliverSteps, RequestSteps, FailSteps DEF Busy
<1>5. CASE Deliver(v)
  BY <1>5, DeliverSteps DEF stripeVars
<1>6. CASE Step(v)
  BY <1>2, <1>6, RequestSteps DEF Busy
<1>7. CASE Fail(v)
  BY <1>7, FailSteps DEF Busy
<1> QED BY <1>3, <1>4, <1>5, <1>6, <1>7, NextCases

\* The tables change only by the steps of requests.
LEMMA TablesNext == ASSUME TypeInv, [Next]_vars
                    PROVE  UNCHANGED dbVars \/ \E w \in Workers : Step(w)
  BY NextCases, StripeLeaves, DeliverSteps, FailSteps DEF dbVars, vars

LEMMA PaidMatchesChargeStep ==
    ASSUME TypeInv, InvoicesBelong, EventsFinal, SummariesFresh, PaidMatchesCharge, [Next]_vars
    PROVE  PaidMatchesCharge'
<1> SUFFICES ASSUME NEW i \in Invoices, payRow'[i].status = "paid"
             PROVE  stripeInvoice'[i] = [status |-> "paid", amount |-> payRow'[i].amount]
  BY DEF PaidMatchesCharge
<1>1. FinalStays
  BY FinalStaysNext
<1>2. CASE payRow'[i] = payRow[i]
  <2>1. stripeInvoice[i] = [status |-> "paid", amount |-> payRow[i].amount]
    BY <1>2 DEF PaidMatchesCharge
  <2>2. PaidInStripe(i)
    BY <2>1 DEF PaidInStripe
  <2> QED BY <1>1, <1>2, <2>1, <2>2 DEF FinalStays
<1>3. ASSUME NEW w \in Workers, Step(w), payRow'[i] # payRow[i]
      PROVE  stripeInvoice'[i] = [status |-> "paid", amount |-> payRow'[i].amount]
  <2>1. /\ UpdatePayment(w) /\ i = JobInvoice(w)
        /\ payRow[i].amount = job[w].amount
        /\ payRow'[i].amount = payRow[i].amount
    BY <1>3, PayRowSteps
  <2>2. PaidInStripe(i)
    BY <1>3, <2>1, RequestSteps, EventKnown DEF UpdatePayment
  <2>3. job[w].amount = stripeInvoice[i].amount
    BY <1>3, <2>1, RequestSteps DEF UpdatePayment, SummariesFresh
  <2>4. stripeInvoice'[i] = stripeInvoice[i] /\ stripeInvoice[i] \in StripeInvoices
    BY <1>1, <2>2 DEF FinalStays, TypeInv, TypeOK
  <2> QED BY <2>1, <2>2, <2>3, <2>4 DEF PaidInStripe, StripeInvoices
<1> QED BY <1>2, <1>3, TablesNext DEF dbVars

LEMMA CanceledOnlyWhenEndedStep ==
    ASSUME TypeInv, InvoicesBelong, EventsFinal, CanceledOnlyWhenEnded, [Next]_vars
    PROVE  CanceledOnlyWhenEnded'
<1>1. FinalStays
  BY FinalStaysNext
<1>2. ASSUME NEW w \in Workers, Step(w), CancelSubscription(w) \/ CancelPendingPayments(w)
      PROVE  stripeSub[JobSub(w)].status = "ended"
  <2>1. TypeInv /\ Busy(w) /\ job[w].ev.type = "subscription.deleted"
    BY <1>2, RequestSteps DEF CancelSubscription, CancelPendingPayments, At, TypeInv, JobOK,
         About
  <2> QED BY <2>1, EventKnown
<1>3. ASSUME NEW s \in Subs, subRow'[s].status = "canceled" PROVE stripeSub'[s].status = "ended"
  <2>1. CASE subRow'[s].status = subRow[s].status
    BY <1>1, <1>3, <2>1 DEF CanceledOnlyWhenEnded, FinalStays
  <2>2. ASSUME NEW w \in Workers, Step(w), subRow'[s].status # subRow[s].status
        PROVE  CancelSubscription(w) /\ s = JobSub(w)
    BY <1>3, <2>2, SubRowSteps
  <2> QED BY <1>1, <1>2, <2>1, <2>2, TablesNext DEF dbVars, FinalStays
<1>4. ASSUME NEW i \in Invoices, payRow'[i].status = "canceled"
      PROVE  stripeSub'[SubOf[i]].status = "ended"
  <2> SubOf[i] \in Subs
    BY InvoicesAssumption
  <2>1. CASE payRow'[i].status = payRow[i].status
    BY <1>1, <1>4, <2>1 DEF CanceledOnlyWhenEnded, FinalStays
  <2>2. ASSUME NEW w \in Workers, Step(w), payRow'[i].status # payRow[i].status
        PROVE  CancelPendingPayments(w) /\ SubOf[i] = JobSub(w)
    BY <1>4, <2>2, PayRowSteps
  <2> QED BY <1>1, <1>2, <2>1, <2>2, TablesNext DEF dbVars, FinalStays
<1> QED BY <1>3, <1>4 DEF CanceledOnlyWhenEnded

LEMMA FreeDisplacedStep ==
    ASSUME TypeInv, InvoicesBelong, EventsFinal, FreeDisplacedOnlyByPayment, [Next]_vars
    PROVE  FreeDisplacedOnlyByPayment'
<1> SUFFICES ASSUME NEW u \in Users, freeRow'[u] = "inactive"
             PROVE  \E i \in Invoices : Owner[SubOf[i]] = u /\ PaidInStripe(i)'
  BY DEF FreeDisplacedOnlyByPayment
<1>1. \A i \in Invoices : PaidInStripe(i) => PaidInStripe(i)'
  BY FinalStaysNext DEF FinalStays, PaidInStripe
<1>2. CASE freeRow'[u] = freeRow[u]
  BY <1>1, <1>2 DEF FreeDisplacedOnlyByPayment
<1>3. ASSUME NEW w \in Workers, Step(w), freeRow'[u] # freeRow[u]
      PROVE  \E i \in Invoices : Owner[SubOf[i]] = u /\ PaidInStripe(i)
  <2>1. u = JobUser(w) /\ job[w].ev.type = "invoice.paid"
    BY <1>3, FreeRowSteps DEF FreeTarget
  <2>2. /\ JobInvoice(w) \in Invoices
        /\ SubOf[JobInvoice(w)] = JobSub(w)
        /\ PaidInStripe(JobInvoice(w))
    BY <1>3, <2>1, RequestSteps, EventKnown
  <2> QED BY <2>1, <2>2 DEF JobUser
<1> QED BY <1>1, <1>2, <1>3, TablesNext DEF dbVars

\* Where a step leaves its request, and what it then holds: an instance it has
\* just loaded, or the one it had; a payment found or created; ...
LEMMA HeldSteps ==
    ASSUME TypeInv, NEW w \in Workers, Step(w), job'[w].pc # "idle"
    PROVE  /\ ~At(w, "respond")
           /\ \/ job'[w].sub \in {None, job[w].sub}
              \/ /\ job'[w].sub = subRow'[JobSub(w)]
                 /\ Present(subRow'[JobSub(w)]) \/ At(w, "load_subscription")
           /\ job'[w].pc = "create_payment" => Present(subRow'[JobSub(w)])
           /\ job'[w].pc = "apply_payment" => Present(payRow'[JobInvoice(w)])
           /\ job'[w].pc = "load_subscription" => At(w, "apply_payment")
<1>1. /\ job \in [Workers -> Job]
      /\ subRow \in [Subs -> SubRow]
      /\ payRow \in [Invoices -> PayRow]
      /\ JobSub(w) \in Subs
      /\ job[w].ev.type \in InvoiceEventTypes => JobInvoice(w) \in Invoices
      /\ JobOK(job[w])
  BY RequestSteps, JobTyped DEF TypeInv, TypeOK, At, Busy
<1> USE <1>1 DEF At, Present, dbVars
<1>2. CASE UpdateSubscription(w)
  BY <1>2 DEF UpdateSubscription, Raise, IdleJob
<1>3. CASE GetPayment(w)
  BY <1>3 DEF GetPayment, Goto
<1>4. CASE CreatePaymentFromStripe(w)
  BY <1>4 DEF CreatePaymentFromStripe
<1>5. CASE GetSubscription(w)
  BY <1>5 DEF GetSubscription
<1>6. CASE CreateSubscriptionFromStripe(w)
  <2>1. CASE Raise(w)
    BY <2>1 DEF Raise, IdleJob
  <2>2. CASE job' = [job EXCEPT ![w].pc = "create_subscription", ![w].end = stripeSub[JobSub(w)].cycle]
    <3>1. job'[w].pc = "create_subscription" /\ job'[w].sub = job[w].sub
      BY <2>2 DEF Job
    <3> QED BY <1>6, <3>1 DEF CreateSubscriptionFromStripe
  <2> QED BY <1>6, <2>1, <2>2, Zenon DEF CreateSubscriptionFromStripe
<1>7. CASE CreateSubscription(w)
  <2>1. job'[w].sub = subRow'[JobSub(w)] /\ Present(subRow'[JobSub(w)])
    BY <1>7 DEF CreateSubscription
  <2> QED BY <1>7, <2>1 DEF CreateSubscription, AfterSubscription
<1>8. CASE CreatePayment(w)
  <2>1. JobInvoice(w) \in Invoices
    BY <1>8 DEF CreatePayment, JobOK, About
  <2>2. Present(payRow'[JobInvoice(w)])
    BY <1>8, <2>1 DEF CreatePayment
  <2>3. CASE job' = [job EXCEPT ![w].pc = AfterPayment(w), ![w].sub = None]
    BY <1>8, <2>2, <2>3 DEF CreatePayment, AfterPayment, Job
  <2>4. CASE Goto(w, AfterPayment(w))
    BY <1>8, <2>2, <2>4 DEF CreatePayment, Goto, AfterPayment, Job
  <2> QED BY <1>8, <2>3, <2>4, Zenon DEF CreatePayment
<1>9. CASE UpdatePayment(w)
  <2>1. ~Raise(w)
    BY DEF Raise, IdleJob
  <2>2. Goto(w, AfterPaymentSaved(w))
    BY <1>9, <2>1, Zenon DEF UpdatePayment
  <2> QED BY <1>9, <2>2 DEF UpdatePayment, Goto, AfterPaymentSaved
<1>10. CASE MarkPaymentRetrying(w)
  BY <1>10 DEF MarkPaymentRetrying, Goto, AfterPaymentSaved
<1>11. CASE LoadSubscription(w)
  BY <1>11 DEF LoadSubscription
<1>12. CASE ApplyInvoicePaidToSubscription(w)
  BY <1>12 DEF ApplyInvoicePaidToSubscription
<1>13. CASE UpdateSubscriptionPastDue(w)
  BY <1>13 DEF UpdateSubscriptionPastDue
<1>14. CASE CancelSubscription(w)
  <2>1. CASE Goto(w, "get_free")
    BY <1>14, <2>1 DEF CancelSubscription, Goto
  <2>2. CASE Goto(w, "respond")
    BY <1>14, <2>2 DEF CancelSubscription, Goto
  <2> QED BY <1>14, <2>1, <2>2, Zenon DEF CancelSubscription
<1>15. CASE GetFreeSubscription(w)
  BY <1>15 DEF GetFreeSubscription, AfterFree
<1>16. CASE SetFreeSubscription(w)
  BY <1>16 DEF SetFreeSubscription, AfterFree
<1>17. CASE CancelPendingPayments(w)
  BY <1>17 DEF CancelPendingPayments, Goto
<1>18. CASE Respond(w)
  BY <1>18 DEF Respond, IdleJob
<1> QED BY <1>2, <1>3, <1>4, <1>5, <1>6, <1>7, <1>8, <1>9, <1>10, <1>11, <1>12, <1>13, <1>14,
     <1>15, <1>16, <1>17, <1>18 DEF Step

\* ... and after an invoice.paid, a payment that was marked PAID on the way.
LEMMA LateSteps ==
    ASSUME TypeInv, NEW w \in Workers, Step(w),
           job'[w].pc \in Late, job'[w].ev.type = "invoice.paid"
    PROVE  \/ job[w].pc \in Late
           \/ UpdatePayment(w) /\ payRow'[JobInvoice(w)].status = "paid"
<1>1. /\ job \in [Workers -> Job]
      /\ payRow \in [Invoices -> PayRow]
      /\ job[w].ev = job'[w].ev
      /\ JobOK(job[w])
      /\ JobInvoice(w) \in Invoices
  <2>1. job'[w].pc # "idle"
    BY DEF Late
  <2> QED BY <2>1, RequestSteps, JobTyped DEF TypeInv, TypeOK, At, Busy, InvoiceEventTypes
<1> USE <1>1 DEF At, Late
<1>2. CASE UpdateSubscription(w)
  BY <1>2 DEF UpdateSubscription, JobOK, About
<1>3. CASE GetPayment(w)
  BY <1>3 DEF GetPayment, Goto
<1>4. CASE CreatePaymentFromStripe(w)
  BY <1>4 DEF CreatePaymentFromStripe
<1>5. CASE GetSubscription(w)
  BY <1>5 DEF GetSubscription
<1>6. CASE CreateSubscriptionFromStripe(w)
  <2>1. CASE Raise(w)
    BY <2>1 DEF Raise, IdleJob
  <2>2. CASE job' = [job EXCEPT ![w].pc = "create_subscription", ![w].end = stripeSub[JobSub(w)].cycle]
    <3>1. job'[w].pc = "create_subscription" /\ job'[w].sub = job[w].sub
      BY <2>2 DEF Job
    <3> QED BY <1>6, <3>1 DEF CreateSubscriptionFromStripe
  <2> QED BY <1>6, <2>1, <2>2, Zenon DEF CreateSubscriptionFromStripe
<1>7. CASE CreateSubscription(w)
  BY <1>7 DEF CreateSubscription, AfterSubscription
<1>8. CASE CreatePayment(w)
  <2>1. job'[w].pc = "apply_payment"
    <3>1. AfterPayment(w) = "apply_payment"
      BY DEF AfterPayment
    <3>2. CASE job' = [job EXCEPT ![w].pc = AfterPayment(w), ![w].sub = None]
      BY <3>1, <3>2 DEF Job
    <3>3. CASE Goto(w, AfterPayment(w))
      BY <3>1, <3>3 DEF Goto, Job
    <3> QED BY <1>8, <3>2, <3>3, Zenon DEF CreatePayment
  <2> QED BY <2>1
<1>9. CASE UpdatePayment(w)
  BY <1>9 DEF UpdatePayment, Raise, IdleJob, PayRow
<1>10. CASE MarkPaymentRetrying(w)
  BY <1>10 DEF MarkPaymentRetrying
<1>11. CASE LoadSubscription(w)
  BY <1>11 DEF LoadSubscription
<1>12. CASE ApplyInvoicePaidToSubscription(w)
  BY <1>12 DEF ApplyInvoicePaidToSubscription
<1>13. CASE UpdateSubscriptionPastDue(w)
  BY <1>13 DEF UpdateSubscriptionPastDue
<1>14. CASE CancelSubscription(w)
  BY <1>14 DEF CancelSubscription, JobOK, About
<1>15. CASE GetFreeSubscription(w)
  BY <1>15 DEF GetFreeSubscription, AfterFree
<1>16. CASE SetFreeSubscription(w)
  BY <1>16 DEF SetFreeSubscription, AfterFree
<1>17. CASE CancelPendingPayments(w)
  BY <1>17 DEF CancelPendingPayments, JobOK, About
<1>18. CASE Respond(w)
  BY <1>18 DEF Respond, IdleJob
<1> QED BY <1>2, <1>3, <1>4, <1>5, <1>6, <1>7, <1>8, <1>9, <1>10, <1>11, <1>12, <1>13, <1>14,
     <1>15, <1>16, <1>17, <1>18 DEF Step

\* Rows are never deleted.
LEMMA PresentStays ==
    ASSUME TypeInv, [Next]_vars
    PROVE  /\ \A s \in Subs : Present(subRow[s]) => Present(subRow'[s])
           /\ \A i \in Invoices : Present(payRow[i]) => Present(payRow'[i])
<1>1. ASSUME NEW s \in Subs, NEW w \in Workers, Step(w), Present(subRow[s])
      PROVE  Present(subRow'[s])
  BY <1>1, SubRowSteps DEF Present
<1>2. ASSUME NEW i \in Invoices, NEW w \in Workers, Step(w), Present(payRow[i])
      PROVE  Present(payRow'[i])
  BY <1>2, PayRowSteps DEF Present
<1> QED BY <1>1, <1>2, TablesNext DEF dbVars

LEMMA RowsHeldStep == ASSUME TypeInv, RowsHeld, [Next]_vars PROVE RowsHeld'
<1> DEFINE Holds(w) ==
        /\ job[w].pc \in {"apply_payment", "load_subscription"} => Present(payRow[JobInvoice(w)])
        /\ job[w].pc = "create_payment" \/ job[w].sub # None => Present(subRow[JobSub(w)])
<1>1. ASSUME NEW i \in Invoices, Present(payRow'[i]) PROVE Present(subRow'[SubOf[i]])
  <2> SubOf[i] \in Subs
    BY InvoicesAssumption
  <2>1. CASE Present(payRow[i])
    BY <2>1, PresentStays DEF RowsHeld
  <2>2. ASSUME NEW w \in Workers, Step(w), ~Present(payRow[i])
        PROVE  Present(subRow[SubOf[i]])
    <3>1. Busy(w) /\ JobOK(job[w]) /\ job[w].ev \in Events
      BY <2>2, RequestSteps, JobTyped DEF At, Busy
    <3>2. i = JobInvoice(w) /\ (At(w, "create_payment") \/ At(w, "apply_payment"))
      BY <1>1, <2>2, PayRowSteps DEF CreatePayment, UpdatePayment, MarkPaymentRetrying, Present
    <3>3. ~At(w, "apply_payment")
      BY <2>2, <3>1, <3>2 DEF RowsHeld, At
    <3>4. JobSub(w) = SubOf[i]
      BY <3>1, <3>2, <3>3 DEF JobOK, About, At, JobSub, JobInvoice, SubEventTypes,
           InvoiceEventTypes
    <3> QED BY <3>1, <3>2, <3>3, <3>4 DEF RowsHeld, At
  <2> QED BY <1>1, <2>1, <2>2, PresentStays, TablesNext DEF dbVars
<1>2. ASSUME NEW v \in Workers, Busy(v), job'[v] = job[v] PROVE Holds(v)'
  <2>1. /\ job[v].ev.type \in InvoiceEventTypes => JobInvoice(v) \in Invoices
        /\ JobSub(v) \in Subs
        /\ JobOK(job[v])
    BY <1>2, JobTyped DEF At, Busy
  <2>2. job[v].pc \in {"apply_payment", "load_subscription"} => JobInvoice(v) \in Invoices
    BY <2>1 DEF JobOK, About, InvoiceEventTypes
  <2>3. JobSub(v)' = JobSub(v) /\ JobInvoice(v)' = JobInvoice(v)
    BY <1>2 DEF JobSub, JobInvoice
  <2> QED BY <1>2, <2>1, <2>2, <2>3, PresentStays DEF RowsHeld
<1>3. ASSUME NEW v \in Workers, Step(v), Busy(v)' PROVE Holds(v)'
  <2>1. job'[v].pc # "idle" /\ job'[v].ev = job[v].ev /\ Busy(v)
    BY <1>3, RequestSteps DEF Busy
  <2>2. /\ job[v].ev.type \in InvoiceEventTypes => JobInvoice(v) \in Invoices
        /\ JobSub(v) \in Subs
        /\ JobOK(job[v])
    BY <2>1, JobTyped DEF At, Busy
  <2>3. JobSub(v)' = JobSub(v) /\ JobInvoice(v)' = JobInvoice(v)
    BY <2>1 DEF JobSub, JobInvoice
  <2>4. At(v, "apply_payment") \/ At(v, "load_subscription") =>
            JobInvoice(v) \in Invoices /\ SubOf[JobInvoice(v)] = JobSub(v)
    BY <2>2 DEF At, JobOK, About, JobSub, JobInvoice, SubEventTypes, InvoiceEventTypes
  <2>5. job'[v].pc \in {"apply_payment", "load_subscription"} => Present(payRow'[JobInvoice(v)])
    BY <1>3, <2>1, <2>4, HeldSteps, PresentStays DEF RowsHeld, At
  <2>6. job'[v].sub # None => Present(subRow'[JobSub(v)])
    <3>1. CASE job'[v].sub \in {None, job[v].sub}
      BY <2>1, <2>2, <3>1, PresentStays DEF RowsHeld
    <3>2. CASE At(v, "load_subscription")
      BY <2>1, <2>2, <2>4, <3>2, PresentStays DEF RowsHeld, At
    <3> QED BY <1>3, <2>1, <3>1, <3>2, HeldSteps
  <2>7. job'[v].pc = "create_payment" => Present(subRow'[JobSub(v)])
    BY <1>3, <2>1, HeldSteps
  <2> QED BY <2>3, <2>5, <2>6, <2>7
<1>4. ASSUME NEW v \in Workers, Deliver(v) PROVE Holds(v)'
  BY <1>4, DeliverSteps
<1>5. ASSUME NEW v \in Workers, Busy(v)' PROVE Holds(v)'
  <2>1. CASE job'[v] = job[v]
    BY <1>2, <1>5, <2>1 DEF Busy
  <2>2. CASE job'[v] # job[v]
    <3>1. Deliver(v) \/ Step(v)
      BY <1>5, <2>2, NextCases, StripeLeaves, DeliverSteps, RequestSteps, FailSteps DEF vars,
           Busy
    <3> QED BY <1>3, <1>4, <1>5, <3>1
  <2> QED BY <2>1, <2>2
<1> QED BY <1>1, <1>5 DEF RowsHeld

\* A request changes by its own step only.
LEMMA JobNext ==
    ASSUME TypeInv, [Next]_vars, NEW v \in Workers, Busy(v)'
    PROVE  \/ Busy(v) /\ job'[v] = job[v]
           \/ Deliver(v)
           \/ Step(v) /\ Busy(v) /\ job'[v].ev = job[v].ev
<1>1. CASE job'[v] = job[v]
  BY <1>1 DEF Busy
<1>2. CASE job'[v] # job[v]
  <2>1. Deliver(v) \/ Step(v)
    BY <1>2, NextCases, StripeLeaves, DeliverSteps, RequestSteps, FailSteps DEF vars, Busy
  <2> QED BY <2>1, RequestSteps DEF Busy
<1> QED BY <1>1, <1>2

\* An end that was paid for stays one, and a present row keeps its end or moves
\* to such an end.
LEMMA EndSteps ==
    ASSUME TypeInv, InvoicesBelong, EventsFinal, [Next]_vars, NEW s \in Subs
    PROVE  /\ \A day : PaidEnd(s, day) => PaidEnd(s, day)'
           /\ Present(subRow[s]) => subRow'[s].end = subRow[s].end \/ PaidEnd(s, subRow'[s].end)
<1>1. \A day : PaidEnd(s, day) => PaidEnd(s, day)'
  BY FinalStaysNext DEF PaidEnd, PaidInStripe, FinalStays
<1>2. ASSUME NEW w \in Workers, Step(w), Present(subRow[s]), subRow'[s].end # subRow[s].end
      PROVE  PaidEnd(s, subRow'[s].end)
  <2>1. \/ CancelSubscription(w) /\ subRow'[s].end = EndedAt
        \/ /\ ApplyInvoicePaidToSubscription(w) /\ s = JobSub(w)
           /\ subRow'[s].end = Period[JobInvoice(w)]
    BY <1>2, SubRowSteps
  <2>2. CASE ApplyInvoicePaidToSubscription(w) /\ s = JobSub(w)
             /\ subRow'[s].end = Period[JobInvoice(w)]
    <3>1. /\ JobInvoice(w) \in Invoices
          /\ SubOf[JobInvoice(w)] = s
          /\ PaidInStripe(JobInvoice(w))
      BY <1>2, <2>2, RequestSteps, EventKnown DEF ApplyInvoicePaidToSubscription
    <3> QED BY <2>2, <3>1 DEF PaidEnd
  <2> QED BY <2>1, <2>2 DEF PaidEnd
<1> QED BY <1>1, <1>2, TablesNext DEF dbVars

LEMMA SnapshotsUsableStep ==
    ASSUME TypeInv, InvoicesBelong, EventsFinal, RowsHeld, SnapshotsUsable, [Next]_vars
    PROVE  SnapshotsUsable'
<1> SUFFICES ASSUME NEW v \in Workers, Busy(v)', job'[v].sub # None, NEW s \in Subs, s = JobSub(v)'
             PROVE  subRow'[s].end = job'[v].sub.end \/ PaidEnd(s, subRow[s].end)'
  <2>1. ASSUME NEW v \in Workers, Busy(v)' PROVE JobSub(v)' \in Subs
    <3>1. TypeInv'
      BY TypeInvStep
    <3>2. job'[v].ev \in Events
      BY <2>1, <3>1 DEF TypeInv, TypeOK, Busy
    <3> QED BY <3>2, EventTyped, InvoicesAssumption DEF JobSub
  <2> QED BY <2>1 DEF SnapshotsUsable
<1>1. ASSUME Busy(v), job'[v].ev = job[v].ev, job'[v].sub = job[v].sub
      PROVE  subRow'[s].end = job'[v].sub.end \/ PaidEnd(s, subRow[s].end)'
  <2>1. JobSub(v) = s
    BY <1>1 DEF JobSub
  <2>2. Present(subRow[s])
    BY <1>1, <2>1 DEF RowsHeld
  <2>3. subRow[s].end = job[v].sub.end \/ PaidEnd(s, subRow[s].end)
    BY <1>1, <2>1 DEF SnapshotsUsable
  <2>4. /\ \A day : PaidEnd(s, day) => PaidEnd(s, day)'
        /\ subRow'[s].end = subRow[s].end \/ PaidEnd(s, subRow'[s].end)
    BY <2>2, EndSteps
  <2>5. CASE subRow'[s].end = subRow[s].end
    BY <1>1, <2>3, <2>4, <2>5 DEF PaidEnd
  <2>6. CASE PaidEnd(s, subRow'[s].end)
    BY <2>4, <2>6 DEF PaidEnd
  <2> QED BY <2>4, <2>5, <2>6
<1>2. CASE Deliver(v)
  BY <1>2, DeliverSteps
<1>3. CASE Step(v) /\ Busy(v) /\ job'[v].ev = job[v].ev
  <2>1. JobSub(v) = s
    BY <1>3 DEF JobSub
  <2> QED BY <1>1, <1>3, <2>1, HeldSteps DEF Busy
<1> QED BY <1>1, <1>2, <1>3, JobNext

LEMMA ActiveEndStep ==
    ASSUME TypeInv, InvoicesBelong, EventsFinal, SnapshotsUsable, ActiveEndIsPaidFor, [Next]_vars
    PROVE  ActiveEndIsPaidFor'
<1> DEFINE Paid(s) == \E i \in Invoices : SubOf[i] = s /\ PaidInStripe(i)
<1> SUFFICES ASSUME NEW s \in Subs, subRow'[s].status = "active"
             PROVE  Paid(s)' /\ PaidEnd(s, subRow[s].end)'
  BY DEF ActiveEndIsPaidFor, PaidEnd
<1>1. Paid(s) => Paid(s)'
  BY FinalStaysNext DEF FinalStays, PaidInStripe
<1>2. \A day : PaidEnd(s, day) => PaidEnd(s, day)'
  BY EndSteps
<1>3. CASE subRow'[s] = subRow[s]
  <2>1. Paid(s) /\ PaidEnd(s, subRow[s].end)
    BY <1>3 DEF ActiveEndIsPaidFor, PaidEnd
  <2> QED BY <1>1, <1>2, <1>3, <2>1 DEF PaidEnd
<1>4. ASSUME NEW w \in Workers, Step(w), subRow'[s] # subRow[s]
      PROVE  Paid(s)' /\ PaidEnd(s, subRow[s].end)'
  <2> DEFINE Extended == /\ s = JobSub(w)
                         /\ subRow'[s].end = IF job[w].sub.end # Period[JobInvoice(w)]
                                             THEN Period[JobInvoice(w)] ELSE subRow[s].end
  <2>1. \/ ApplyInvoicePaidToSubscription(w) /\ Extended
        \/ subRow[s].status = "active" /\ subRow'[s].end = subRow[s].end
    BY <1>4, SubRowSteps
  <2>2. CASE ApplyInvoicePaidToSubscription(w) /\ Extended
    <3>1. /\ s = JobSub(w)
          /\ subRow'[s].end = IF job[w].sub.end # Period[JobInvoice(w)]
                              THEN Period[JobInvoice(w)] ELSE subRow[s].end
      BY <2>2
    <3>2. /\ JobInvoice(w) \in Invoices
          /\ SubOf[JobInvoice(w)] = s
          /\ PaidInStripe(JobInvoice(w))
      BY <1>4, <2>2, <3>1, RequestSteps, EventKnown DEF ApplyInvoicePaidToSubscription
    <3>3. PaidEnd(s, Period[JobInvoice(w)])
      BY <3>2 DEF PaidEnd
    <3>4. PaidEnd(s, subRow'[s].end)
      <4>1. job[w].sub # None
        BY <1>4, <2>2, JobTyped, RequestSteps, NoneAssumption
           DEF ApplyInvoicePaidToSubscription, At, JobOK, SubRow, SubStatus, Busy
      <4>2. subRow[s].end = job[w].sub.end \/ PaidEnd(s, subRow[s].end)
        BY <1>4, <3>1, <4>1, RequestSteps DEF SnapshotsUsable
      <4> QED BY <3>1, <3>3, <4>2
    <3> QED BY <1>1, <1>2, <3>2, <3>4 DEF PaidEnd
  <2>3. CASE subRow[s].status = "active" /\ subRow'[s].end = subRow[s].end
    <3>1. Paid(s) /\ PaidEnd(s, subRow[s].end)
      BY <2>3 DEF ActiveEndIsPaidFor, PaidEnd
    <3> QED BY <1>1, <1>2, <2>3, <3>1 DEF PaidEnd
  <2> QED BY <2>1, <2>2, <2>3
<1> QED BY <1>3, <1>4, TablesNext DEF dbVars

LEMMA FailuresAreRenewalsStep == ASSUME TypeInv, FailuresAreRenewals, [Next]_vars
                                 PROVE  FailuresAreRenewals'
<1> SUFFICES ASSUME NEW v \in Workers, Busy(v)', job'[v].pc # "respond",
                    job'[v].ev.type = "invoice.payment_failed"
             PROVE  job'[v].ev.obj \in Cycle
  BY DEF FailuresAreRenewals, JobInvoice
<1>1. CASE Busy(v) /\ job'[v] = job[v]
  BY <1>1 DEF FailuresAreRenewals, JobInvoice
<1>2. CASE Deliver(v)
  BY <1>2, DeliverSteps
<1>3. CASE Step(v) /\ Busy(v) /\ job'[v].ev = job[v].ev
  BY <1>3, HeldSteps DEF FailuresAreRenewals, JobInvoice, Busy, At
<1> QED BY <1>1, <1>2, <1>3, JobNext

\* What is recorded stays recorded.
LEMMA RecordedStays ==
    ASSUME TypeInv, FailuresAreRenewals, [Next]_vars, NEW i \in Invoices, Recorded(i)
    PROVE  Recorded(i)'
<1>1. CASE payRow'[i] = payRow[i]
  BY <1>1 DEF Recorded
<1>2. ASSUME NEW w \in Workers, Step(w), MarkPaymentRetrying(w), i = JobInvoice(w)
      PROVE  i \in Cycle
  BY <1>2, RequestSteps DEF FailuresAreRenewals, MarkPaymentRetrying, At
<1>3. ASSUME NEW w \in Workers, Step(w), payRow'[i] # payRow[i] PROVE Recorded(i)'
  <2>1. \/ ~Present(payRow[i])
        \/ payRow'[i].status = "paid"
        \/ MarkPaymentRetrying(w) /\ i = JobInvoice(w) /\ payRow'[i].status = "retrying"
        \/ payRow[i].status \in {"pending", "retrying"} /\ payRow'[i].status = "canceled"
    BY <1>3, PayRowSteps
  <2> QED BY <1>2, <1>3, <2>1 DEF Recorded, Present
<1> QED BY <1>1, <1>3, TablesNext DEF dbVars

LEMMA RecordedFirstStep ==
    ASSUME TypeInv, EventsFinal, FailuresAreRenewals, RecordedFirst, [Next]_vars
    PROVE  RecordedFirst'
<1> SUFFICES ASSUME NEW v \in Workers, job'[v].pc \in Late, job'[v].ev.type = "invoice.paid",
                    NEW i, i = job'[v].ev.obj
             PROVE  Recorded(i)'
  BY DEF RecordedFirst, Late, JobInvoice, Recorded
<1>1. Busy(v)'
  BY DEF Busy, Late
<1>2. ASSUME Busy(v), job'[v].ev = job[v].ev, job[v].pc \in Late PROVE Recorded(i)'
  <2>1. i = JobInvoice(v) /\ i \in Invoices
    BY <1>2, EventKnown DEF JobInvoice
  <2>2. Recorded(i)
    BY <1>2, <2>1 DEF RecordedFirst, Late
  <2> QED BY <2>1, <2>2, RecordedStays
<1>3. CASE Deliver(v)
  BY <1>3, DeliverSteps DEF Late
<1>4. CASE Step(v) /\ Busy(v) /\ job'[v].ev = job[v].ev
  <2>1. CASE payRow'[JobInvoice(v)].status = "paid"
    BY <1>4, <2>1 DEF JobInvoice, Recorded
  <2> QED BY <1>2, <1>4, <2>1, LateSteps
<1> QED BY <1>1, <1>2, <1>3, <1>4, JobNext

LEMMA AcknowledgedPaidStep ==
    ASSUME TypeInv, InvoicesBelong, EventsFinal, FailuresAreRenewals, RecordedFirst,
           AcknowledgedPaidIsRecorded, [Next]_vars
    PROVE  AcknowledgedPaidIsRecorded'
<1> SUFFICES ASSUME NEW i \in Invoices, PaidInStripe(i)', InvoiceEvent("invoice.paid", i) \notin inbox'
             PROVE  Recorded(i)'
  BY DEF AcknowledgedPaidIsRecorded, Recorded
<1> DEFINE e == InvoiceEvent("invoice.paid", i)
<1>1. SUFFICES Recorded(i)
  BY RecordedStays
<1>2. PaidInStripe(i)
  BY NextCases, StripeSteps, DeliverSteps, RequestSteps, FailSteps DEF vars, stripeVars,
       PaidInStripe
<1>3. CASE e \notin inbox
  BY <1>2, <1>3 DEF AcknowledgedPaidIsRecorded, Recorded
<1>4. CASE e \in inbox
  <2>1. PICK w \in Workers : Step(w) /\ Respond(w) /\ job[w].ev = e
    BY <1>4, NextCases, StripeSteps, DeliverSteps, RequestSteps, FailSteps DEF vars
  <2> QED BY <2>1 DEF Respond, At, RecordedFirst, Late, JobInvoice, InvoiceEvent
<1> QED BY <1>3, <1>4

-----------------------------------------------------------------------------
(* The theorems *)

LEMMA InitIInv == Init => IInv
<1> SUFFICES ASSUME Init PROVE IInv
  OBVIOUS
<1>1. TypeInv
  BY InitTypeInv
<1>2. \A w \in Workers : job[w].pc = "idle"
  BY DEF Init, IdleJob
<1>3. /\ \A i \in Invoices : stripeInvoice[i].status = "none" /\ payRow[i].status = "absent"
      /\ \A s \in Subs : subRow[s].status = "absent"
      /\ \A u \in Users : freeRow[u] # "inactive"
      /\ inbox = {}
  BY NoneAssumption DEF Init
<1>4. InvoicesBelong /\ EventsFinal /\ SummariesFresh /\ RowsHeld
  BY <1>2, <1>3 DEF InvoicesBelong, EventsFinal, SummariesFresh, RowsHeld, Busy, Present
<1>5. SnapshotsUsable /\ FailuresAreRenewals /\ RecordedFirst
  BY <1>2 DEF SnapshotsUsable, FailuresAreRenewals, RecordedFirst, Late, Busy
<1>6. PaidMatchesCharge /\ CanceledOnlyWhenEnded /\ FreeDisplacedOnlyByPayment
  BY <1>3 DEF PaidMatchesCharge, CanceledOnlyWhenEnded, FreeDisplacedOnlyByPayment
<1>7. ActiveEndIsPaidFor /\ AcknowledgedPaidIsRecorded
  BY <1>3 DEF ActiveEndIsPaidFor, AcknowledgedPaidIsRecorded, PaidInStripe
<1> QED BY <1>1, <1>4, <1>5, <1>6, <1>7 DEF IInv

LEMMA IInvStep == IInv /\ [Next]_vars => IInv'
  BY TypeInvStep, FinalStaysNext, EventsFinalStep, SummariesFreshStep, RowsHeldStep,
     SnapshotsUsableStep, FailuresAreRenewalsStep, RecordedFirstStep, PaidMatchesChargeStep,
     CanceledOnlyWhenEndedStep, FreeDisplacedStep, ActiveEndStep, AcknowledgedPaidStep DEF IInv

\* Every state the system reaches satisfies the inductive invariant.
THEOREM Inductive == Spec => []IInv
  BY InitIInv, IInvStep, PTL DEF Spec

\* What an ACTIVE subscription grants was paid for, in any order of webhooks.
THEOREM ActiveEndCorrect == Spec => []ActiveEndIsPaidFor
  BY Inductive, PTL DEF IInv

\* A PAID payment shows the amount that Stripe collected.
THEOREM PaidCorrect == Spec => []PaidMatchesCharge
  BY Inductive, PTL DEF IInv

\* An acknowledged invoice.paid has been recorded.
THEOREM AcknowledgedCorrect == Spec => []AcknowledgedPaidIsRecorded
  BY Inductive, PTL DEF IInv

\* The free plan is taken only from a user who has paid.
THEOREM FreeDisplacedCorrect == Spec => []FreeDisplacedOnlyByPayment
  BY Inductive, PTL DEF IInv

\* Nothing is canceled that Stripe still runs.
THEOREM CanceledCorrect == Spec => []CanceledOnlyWhenEnded
  BY Inductive, PTL DEF IInv

\* A creation, however late or repeated, resets no row.
THEOREM CreationCorrect == Spec => CreationNeverResets
<1> DEFINE Step1 ==
        /\ \A s \in Subs : Present(subRow[s]) /\ subRow[s].status # "inactive" =>
             subRow'[s].status \notin {"absent", "inactive"}
        /\ \A i \in Invoices : Present(payRow[i]) /\ payRow[i].status # "pending" =>
             payRow'[i].status \notin {"absent", "pending"}
<1>1. ASSUME TypeInv, [Next]_vars PROVE Step1
  <2>1. CASE UNCHANGED dbVars
    BY <2>1 DEF dbVars, Present
  <2>2. ASSUME NEW w \in Workers, Step(w) PROVE Step1
    <3>1. ASSUME NEW s \in Subs, Present(subRow[s]), subRow[s].status # "inactive"
          PROVE  subRow'[s].status \notin {"absent", "inactive"}
      BY <1>1, <2>2, <3>1, SubRowSteps DEF Present
    <3>2. ASSUME NEW i \in Invoices, Present(payRow[i]), payRow[i].status # "pending"
          PROVE  payRow'[i].status \notin {"absent", "pending"}
      BY <1>1, <2>2, <3>2, PayRowSteps DEF Present
    <3> QED BY <3>1, <3>2
  <2> QED BY <1>1, <2>1, <2>2, TablesNext
<1>2. Spec => []TypeInv
  BY InitTypeInv, TypeInvStep, PTL DEF Spec
<1> QED BY <1>1, <1>2, PTL DEF Spec, CreationNeverResets
=============================================================================
