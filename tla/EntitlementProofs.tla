-------------------------- MODULE EntitlementProofs --------------------------
(***************************************************************************)
(* Billing implements Entitlement, for every set of customers,             *)
(* subscriptions, invoices and workers.                                    *)
(***************************************************************************)
EXTENDS BillingProofs

-----------------------------------------------------------------------------
(* The free subscription that a request is about to save exists *)

FreeHeld == \A w \in Workers : At(w, "set_free") => freeRow[JobUser(w)] # None

LEMMA FreeStays ==
    ASSUME TypeInv, [Next]_vars, NEW u \in Users, freeRow[u] # None
    PROVE  freeRow'[u] # None
<1>1. ASSUME NEW w \in Workers, Step(w)
      PROVE  freeRow'[u] # None
  BY <1>1, FreeRowSteps, NoneAssumption DEF FreeTarget
<1>2. QED  BY <1>1, TablesNext DEF dbVars

\* Only a request that has just found it goes on to save it.
LEMMA FreeFound ==
    ASSUME TypeInv, NEW w \in Workers, Step(w), job'[w].pc = "set_free"
    PROVE  GetFreeSubscription(w) /\ freeRow[JobUser(w)] # None
<1>1. job \in [Workers -> Job] /\ JobOK(job[w])
  BY DEF TypeInv, TypeOK
<1> USE <1>1 DEF At, Job
<1>2. CASE GetFreeSubscription(w)
  <2>1. CASE freeRow[JobUser(w)] = None
    <3>1. job' = [job EXCEPT ![w].pc = AfterFree(w)]
      BY <1>2, <2>1, Zenon DEF GetFreeSubscription
    <3>2. job'[w].pc = AfterFree(w)
      BY <3>1
    <3>3. QED  BY <3>2 DEF AfterFree
  <2>2. QED  BY <1>2, <2>1
<1>3. CASE UpdateSubscription(w)
  BY <1>3 DEF UpdateSubscription, Raise, IdleJob
<1>4. CASE GetPayment(w)
  BY <1>4 DEF GetPayment, Goto
<1>5. CASE CreatePaymentFromStripe(w) \/ GetSubscription(w) \/ LoadSubscription(w)
  BY <1>5 DEF CreatePaymentFromStripe, GetSubscription, LoadSubscription
<1>6. CASE CreateSubscriptionFromStripe(w)
  <2>1. CASE Raise(w)
    BY <2>1 DEF Raise, IdleJob
  <2>2. CASE job' = [job EXCEPT ![w].pc = "create_subscription", ![w].end = stripeSub[JobSub(w)].cycle]
    <3>1. job'[w].pc = "create_subscription"
      BY <2>2
    <3>2. QED  BY <3>1
  <2>3. QED  BY <1>6, <2>1, <2>2, Zenon DEF CreateSubscriptionFromStripe
<1>7. CASE CreateSubscription(w)
  BY <1>7 DEF CreateSubscription, AfterSubscription
<1>8. CASE CreatePayment(w)
  <2>1. job' = [job EXCEPT ![w].pc = AfterPayment(w), ![w].sub = None] \/ Goto(w, AfterPayment(w))
    BY <1>8, Zenon DEF CreatePayment
  <2>2. job'[w].pc = AfterPayment(w)
    BY <2>1 DEF Goto
  <2>3. QED  BY <2>2 DEF AfterPayment
<1>9. CASE UpdatePayment(w) \/ MarkPaymentRetrying(w)
  <2>1. Raise(w) \/ Goto(w, AfterPaymentSaved(w))
    BY <1>9, Zenon DEF UpdatePayment, MarkPaymentRetrying
  <2>2. QED  BY <2>1 DEF Raise, Goto, AfterPaymentSaved, IdleJob
<1>10. CASE ApplyInvoicePaidToSubscription(w) \/ UpdateSubscriptionPastDue(w)
  BY <1>10 DEF ApplyInvoicePaidToSubscription, UpdateSubscriptionPastDue
<1>11. CASE CancelSubscription(w)
  <2>1. Goto(w, "get_free") \/ Goto(w, "respond")
    BY <1>11, Zenon DEF CancelSubscription
  <2>2. QED  BY <2>1 DEF Goto
<1>12. CASE SetFreeSubscription(w)
  BY <1>12 DEF SetFreeSubscription, AfterFree
<1>13. CASE CancelPendingPayments(w)
  BY <1>13 DEF CancelPendingPayments, Goto
<1>14. CASE Respond(w)
  BY <1>14 DEF Respond, IdleJob
<1>15. QED  BY <1>2, <1>3, <1>4, <1>5, <1>6, <1>7, <1>8, <1>9, <1>10, <1>11, <1>12, <1>13, <1>14
               DEF Step

LEMMA JobUserTyped ==
    ASSUME TypeInv, NEW w \in Workers, Busy(w)
    PROVE  JobUser(w) \in Users
  BY JobTyped, SubsAssumption DEF JobUser, At, Busy

LEMMA FreeHeldStep == TypeInv /\ FreeHeld /\ [Next]_vars => FreeHeld'
<1> SUFFICES ASSUME TypeInv, FreeHeld, [Next]_vars, NEW v \in Workers, At(v, "set_free")'
             PROVE  freeRow'[JobUser(v)'] # None
  BY DEF FreeHeld
<1>0. Busy(v)' /\ job'[v].pc = "set_free"
  BY DEF At, Busy
<1>1. CASE Busy(v) /\ job'[v] = job[v]
  <2>1. JobUser(v)' = JobUser(v) /\ At(v, "set_free")
    BY <1>0, <1>1 DEF JobUser, JobSub, At
  <2>2. JobUser(v) \in Users /\ freeRow[JobUser(v)] # None
    BY <1>1, <2>1, JobUserTyped DEF FreeHeld
  <2>3. freeRow'[JobUser(v)] # None
    BY <2>2, FreeStays
  <2>4. QED  BY <2>1, <2>3
<1>2. CASE Deliver(v)
  BY <1>0, <1>2, DeliverSteps
<1>3. CASE Step(v) /\ Busy(v) /\ job'[v].ev = job[v].ev
  <2>1. JobUser(v)' = JobUser(v)
    BY <1>3 DEF JobUser, JobSub
  <2>2. freeRow[JobUser(v)] # None
    BY <1>0, <1>3, FreeFound
  <2>3. freeRow'[JobUser(v)] # None
    BY <1>3, <2>2, FreeStays, JobUserTyped
  <2>4. QED  BY <2>1, <2>3
<1>4. QED  BY <1>0, <1>1, <1>2, <1>3, JobNext

-----------------------------------------------------------------------------
(* What Stripe does *)

LEMMA InitMaps == Init => E!Init
<1> SUFFICES ASSUME Init PROVE E!Init
  OBVIOUS
<1>1. Collected = {} /\ Ended = {}
  BY DEF Init, Collected, Ended, PaidInStripe
<1>2. /\ Standing = [s \in Subs |-> "absent"]
      /\ Until = [s \in Subs |-> 0]
      /\ Payments = [i \in Invoices |-> "absent"]
  BY DEF Init, Standing, Until, Payments, EndedAt
<1>3. freeRow \in [Users -> {"active", None}]
  BY DEF Init
<1>4. QED  BY <1>1, <1>2, <1>3 DEF E!Init, E!Past

\* The tables alone decide the rest of the mapping.
LEMMA TablesKept ==
    ASSUME UNCHANGED dbVars
    PROVE  UNCHANGED <<Standing, Until, Payments, freeRow>>
  BY DEF dbVars, Standing, Until, Payments

LEMMA StripeKept ==
    ASSUME UNCHANGED stripeVars
    PROVE  UNCHANGED <<Collected, Ended>>
  BY DEF stripeVars, Collected, Ended, PaidInStripe

LEMMA StripeMaps ==
    ASSUME TypeInv, InvoicesBelong, Stripe
    PROVE  [E!Next]_(E!vars)
<1>1. UNCHANGED <<Standing, Until, Payments, freeRow>>
  BY StripeLeaves, TablesKept DEF dbVars
<1>2. /\ stripeSub \in [Subs -> StripeSubs]
      /\ stripeInvoice \in [Invoices -> StripeInvoices]
  BY DEF TypeInv, TypeOK
<1> USE <1>2, InvoicesAssumption DEF StripeSubs, StripeInvoices, Collected, Ended, PaidInStripe, stripeVars
<1>3. ASSUME NEW s \in Subs, Checkout(s) PROVE UNCHANGED <<Collected, Ended>>
  <2>1. PICK i \in Invoices :
          /\ SubOf[i] = s
          /\ stripeSub' = [stripeSub EXCEPT ![s].status = "live", ![s].cycle = Period[i]]
          /\ stripeInvoice' = [stripeInvoice EXCEPT ![i].status = "open"]
    BY <1>3 DEF Checkout
  <2>2. stripeSub[s].status = "none"
    BY <1>3 DEF Checkout
  <2>3. \A t \in Subs : stripeSub'[t].status = IF t = s THEN "live" ELSE stripeSub[t].status
    BY <2>1
  <2>4. Ended' = Ended
    BY <2>2, <2>3
  <2>5. stripeInvoice[i].status = "none"
    BY <2>1, <2>2 DEF InvoicesBelong
  <2>6. \A j \in Invoices : stripeInvoice'[j].status = IF j = i THEN "open" ELSE stripeInvoice[j].status
    BY <2>1
  <2>7. Collected' = Collected
    BY <2>5, <2>6
  <2>8. QED  BY <2>4, <2>7
<1>4. ASSUME NEW s \in Subs, ChangePlan(s) PROVE UNCHANGED <<Collected, Ended>>
  BY <1>4 DEF ChangePlan
<1>5. ASSUME NEW s \in Subs, StripeEnd(s) PROVE Collected' = Collected /\ Ended' = Ended \cup {s}
  BY <1>5 DEF StripeEnd
<1>6. ASSUME NEW i \in Invoices, StripeRenew(i) PROVE UNCHANGED <<Collected, Ended>>
  BY <1>6 DEF StripeRenew
<1>7. ASSUME NEW i \in Invoices, StripeAmend(i) PROVE UNCHANGED <<Collected, Ended>>
  BY <1>7 DEF StripeAmend
<1>8. ASSUME NEW i \in Invoices, StripeCollect(i)
      PROVE  Collected' = Collected \cup {i} /\ Ended' = Ended /\ SubOf[i] \notin Ended
  BY <1>8 DEF StripeCollect
<1>9. ASSUME NEW i \in Invoices, StripeDecline(i) PROVE UNCHANGED <<Collected, Ended>>
  BY <1>9 DEF StripeDecline
<1> HIDE DEF Collected, Ended
<1>10. CASE UNCHANGED <<Collected, Ended>>
  BY <1>1, <1>10 DEF E!vars
<1>11. ASSUME NEW s \in Subs, StripeEnd(s) PROVE E!Next
  BY <1>1, <1>5, <1>11 DEF E!Next, E!End
<1>12. ASSUME NEW i \in Invoices, StripeCollect(i) PROVE E!Next
  BY <1>1, <1>8, <1>12 DEF E!Next, E!Collect
<1>13. QED  BY <1>3, <1>4, <1>6, <1>7, <1>9, <1>10, <1>11, <1>12 DEF Stripe

-----------------------------------------------------------------------------
(* What a request does: a step changes one table at most *)

LEMMA OneTable ==
    ASSUME TypeInv, NEW w \in Workers, Step(w)
    PROVE  \/ UNCHANGED <<payRow, freeRow>>
           \/ UNCHANGED <<subRow, freeRow>>
           \/ UNCHANGED <<subRow, payRow>>
  BY DEF Step, Raise, dbVars, UpdateSubscription, GetPayment, CreatePaymentFromStripe,
      GetSubscription, CreateSubscriptionFromStripe, CreateSubscription, CreatePayment,
      UpdatePayment, MarkPaymentRetrying, LoadSubscription,
      ApplyInvoicePaidToSubscription, UpdateSubscriptionPastDue, CancelSubscription,
      GetFreeSubscription, SetFreeSubscription, CancelPendingPayments, Respond

LEMMA Renewals ==
    ASSUME TypeInv, FailuresAreRenewals, NEW w \in Workers, Step(w),
           UpdateSubscriptionPastDue(w) \/ MarkPaymentRetrying(w)
    PROVE  JobInvoice(w) \in Cycle /\ JobSub(w) = SubOf[JobInvoice(w)]
<1>1. Busy(w) /\ job[w].pc # "respond" /\ job[w].ev.type = "invoice.payment_failed"
  BY DEF UpdateSubscriptionPastDue, MarkPaymentRetrying, At, Busy
<1>2. QED  BY <1>1 DEF FailuresAreRenewals, JobSub, JobInvoice, SubEventTypes

LEMMA EndedSub ==
    ASSUME IInv, NEW w \in Workers, Step(w), job[w].ev.type = "subscription.deleted"
    PROVE  JobSub(w) \in Ended
<1>1. stripeSub[JobSub(w)].status = "ended"
  BY RequestSteps, EventKnown DEF IInv
<1>2. JobSub(w) \in Subs
  BY JobTyped, RequestSteps DEF IInv, At, Busy
<1>3. QED  BY <1>1, <1>2 DEF Ended

LEMMA PaidInvoice ==
    ASSUME IInv, NEW w \in Workers, Step(w), job[w].ev.type = "invoice.paid"
    PROVE  JobInvoice(w) \in Collected /\ SubOf[JobInvoice(w)] = JobSub(w)
  BY RequestSteps, EventKnown DEF IInv, Collected

LEMMA SubRowMaps ==
    ASSUME IInv, NEW w \in Workers, Step(w), UNCHANGED <<payRow, freeRow>>
    PROVE  [E!Next]_(E!vars)
<1> DEFINE s == JobSub(w)
<1>0. /\ TypeInv /\ Busy(w) /\ s \in Subs
      /\ UNCHANGED <<Collected, Ended>>
      /\ subRow \in [Subs -> SubRow] /\ subRow' \in [Subs -> SubRow]
      /\ UNCHANGED Payments
  <2>1. TypeInv'
    BY TypeInvStep DEF IInv, Next
  <2>2. Busy(w) /\ UNCHANGED stripeVars
    BY RequestSteps DEF IInv
  <2>3. QED  BY <2>1, <2>2, StripeKept, JobTyped DEF IInv, TypeInv, TypeOK, At, Busy, Payments
<1>1. \A t \in Subs : t # s => subRow'[t] = subRow[t]
  BY <1>0, SubRowSteps
<1>2. ASSUME NEW status, NEW day, subRow'[s].status = status,
             (IF status = "active" THEN subRow'[s].end ELSE EndedAt) = day
      PROVE  /\ Standing' = [Standing EXCEPT ![s] = status]
             /\ Until' = [Until EXCEPT ![s] = day]
  BY <1>0, <1>1, <1>2 DEF Standing, Until
<1>3. Standing[s] = subRow[s].status
  BY <1>0 DEF Standing
<1>4. EndedAt = 0
  BY DEF EndedAt
<1>5. CASE subRow'[s].status = subRow[s].status
           /\ (subRow[s].status = "active" => subRow'[s].end = subRow[s].end)
  <2>1. UNCHANGED <<Standing, Until>>
    BY <1>0, <1>1, <1>5 DEF Standing, Until
  <2>2. QED  BY <1>0, <2>1 DEF E!vars
<1>6. CASE CreateSubscription(w) /\ ~Present(subRow[s]) /\ subRow'[s].status = "inactive"
  <2>1. E!Subscribe(s)
    BY <1>0, <1>2, <1>3, <1>4, <1>6 DEF E!Subscribe, E!Stand, E!Past, Present
  <2>2. QED  BY <1>0, <2>1 DEF E!Next
<1>7. CASE ApplyInvoicePaidToSubscription(w) /\ subRow'[s].status = "active"
  <2>1. Present(subRow[s])
    <3>1. job[w].sub # None
      BY <1>0, <1>7, JobTyped, NoneAssumption
         DEF ApplyInvoicePaidToSubscription, At, JobOK, SubRow, SubStatus, Busy
    <3>2. QED  BY <1>0, <3>1 DEF IInv, RowsHeld
  <2>2. JobInvoice(w) \in Collected /\ SubOf[JobInvoice(w)] = s
    BY <1>7, PaidInvoice DEF ApplyInvoicePaidToSubscription
  <2>3. subRow'[s].end \in E!PaidDays(s)
    <3>1. ActiveEndIsPaidFor'
      BY ActiveEndStep DEF IInv, Next
    <3>2. \/ subRow'[s].end = EndedAt
          \/ \E i \in Invoices : SubOf[i] = s /\ PaidInStripe(i)' /\ subRow'[s].end = Period[i]
      BY <1>0, <1>7, <3>1 DEF ActiveEndIsPaidFor
    <3>3. \A i \in Invoices : PaidInStripe(i)' => i \in Collected
      BY <1>0 DEF Collected
    <3>4. QED  BY <1>4, <3>2, <3>3 DEF E!PaidDays, E!Past
  <2>4. E!Grant(s)
    <3>1. E!Stand(s, "active", subRow'[s].end)
      BY <1>0, <1>2, <1>7 DEF E!Stand
    <3>2. QED  BY <1>0, <1>3, <2>1, <2>2, <2>3, <3>1 DEF E!Grant, Present
  <2>5. QED  BY <1>0, <2>4 DEF E!Next
<1>8. CASE UpdateSubscriptionPastDue(w) /\ subRow'[s].status = "past_due"
  <2>1. Present(subRow[s])
    <3>1. job[w].sub # None
      BY <1>0, <1>8, JobTyped, NoneAssumption
         DEF UpdateSubscriptionPastDue, At, JobOK, SubRow, SubStatus, Busy
    <3>2. QED  BY <1>0, <3>1 DEF IInv, RowsHeld
  <2>2. \E i \in Cycle : SubOf[i] = s
    BY <1>8, Renewals DEF IInv
  <2>3. E!Suspend(s)
    BY <1>0, <1>2, <1>3, <1>4, <1>8, <2>1, <2>2 DEF E!Suspend, E!Stand, E!Past, Present
  <2>4. QED  BY <1>0, <2>3 DEF E!Next
<1>9. CASE CancelSubscription(w) /\ Present(subRow[s])
           /\ subRow'[s] = [status |-> "canceled", end |-> EndedAt]
  <2>1. job[w].ev.type = "subscription.deleted"
    BY <1>0, <1>9 DEF CancelSubscription, At, TypeInv, JobOK, About
  <2>2. s \in Ended
    BY <2>1, EndedSub
  <2>3. E!Withdraw(s)
    BY <1>0, <1>2, <1>3, <1>4, <1>9, <2>2 DEF E!Withdraw, E!Stand, E!Past, Present
  <2>4. QED  BY <1>0, <2>3 DEF E!Next
<1>10. QED  BY <1>0, <1>5, <1>6, <1>7, <1>8, <1>9, SubRowSteps

LEMMA PayRowMaps ==
    ASSUME IInv, NEW w \in Workers, Step(w), UNCHANGED <<subRow, freeRow>>
    PROVE  [E!Next]_(E!vars)
<1> DEFINE i == JobInvoice(w)
<1>0. /\ TypeInv /\ Busy(w)
      /\ UNCHANGED <<Collected, Ended, Standing, Until>>
      /\ payRow \in [Invoices -> PayRow] /\ payRow' \in [Invoices -> PayRow]
  <2>1. TypeInv'
    BY TypeInvStep DEF IInv, Next
  <2>2. Busy(w) /\ UNCHANGED stripeVars
    BY RequestSteps DEF IInv
  <2>3. QED  BY <2>1, <2>2, StripeKept DEF IInv, TypeInv, TypeOK, Standing, Until
<1>1. CASE payRow' = payRow
  BY <1>0, <1>1 DEF E!vars, Payments
<1>2. ASSUME NEW status, payRow'[i].status = status, i \in Invoices,
             \A j \in Invoices : j # i => payRow'[j] = payRow[j]
      PROVE  E!Record(i, status)
  <2>1. Payments' = [Payments EXCEPT ![i] = status]
    BY <1>0, <1>2 DEF Payments
  <2>2. QED  BY <1>0, <2>1 DEF E!Record
<1>3. CASE CreatePayment(w) /\ payRow' # payRow
  <2>1. i \in Invoices /\ JobSub(w) = SubOf[i] /\ Present(subRow[JobSub(w)])
    <3>1. job[w].ev.type \in InvoiceEventTypes /\ job[w].pc = "create_payment"
      BY <1>0, <1>3 DEF CreatePayment, At, TypeInv, JobOK, About
    <3>2. QED  BY <1>0, <3>1, JobTyped DEF At, Busy, IInv, RowsHeld, JobSub, JobInvoice,
                   SubEventTypes, InvoiceEventTypes
  <2>2. payRow'[i].status = "pending" /\ ~Present(payRow[i])
        /\ \A j \in Invoices : j # i => payRow'[j] = payRow[j]
    BY <1>0, <1>3, <2>1 DEF CreatePayment
  <2>3. Payments[i] = "absent" /\ Standing[SubOf[i]] # "absent"
    BY <2>1, <2>2, InvoicesAssumption DEF Payments, Standing, Present
  <2>4. E!Bill(i)
    BY <1>2, <2>1, <2>2, <2>3 DEF E!Bill
  <2>5. QED  BY <2>1, <2>4 DEF E!Next
<1>4. CASE (UpdatePayment(w) \/ MarkPaymentRetrying(w)) /\ payRow' # payRow
  <2>1. job[w].ev.type \in InvoiceEventTypes /\ job[w].pc = "apply_payment"
    BY <1>4 DEF UpdatePayment, MarkPaymentRetrying, At, InvoiceEventTypes
  <2>2. i \in Invoices /\ Present(payRow[i])
    BY <1>0, <2>1, JobTyped DEF At, Busy, IInv, RowsHeld
  <2>3. Payments[i] # "absent"
    BY <2>2 DEF Payments, Present
  <2>4. \A j \in Invoices : j # i => payRow'[j] = payRow[j]
    BY <1>0, <1>4 DEF UpdatePayment, MarkPaymentRetrying, Raise, dbVars
  <2>5. CASE UpdatePayment(w)
    <3>1. payRow'[i].status = "paid"
      BY <1>0, <1>4, <2>2, <2>5 DEF UpdatePayment, Raise, dbVars, PayRow
    <3>2. i \in Collected
      BY <2>5, PaidInvoice DEF UpdatePayment
    <3>3. E!Settle(i)
      BY <1>2, <2>2, <2>3, <2>4, <3>1, <3>2 DEF E!Settle
    <3>4. QED  BY <2>2, <3>3 DEF E!Next
  <2>6. CASE MarkPaymentRetrying(w)
    <3>1. payRow'[i].status = "retrying"
      BY <1>0, <2>2, <2>6 DEF MarkPaymentRetrying, PayRow
    <3>2. i \in Cycle
      BY <1>0, <2>6, Renewals DEF IInv
    <3>3. E!Retry(i)
      BY <1>2, <2>2, <2>3, <2>4, <3>1, <3>2 DEF E!Retry
    <3>4. QED  BY <2>2, <3>3 DEF E!Next
  <2>7. QED  BY <1>4, <2>5, <2>6
<1>5. CASE CancelPendingPayments(w)
  <2>1. job[w].ev.type = "subscription.deleted"
    BY <1>0, <1>5 DEF CancelPendingPayments, At, TypeInv, JobOK, About
  <2>2. JobSub(w) \in Ended /\ JobSub(w) \in Subs
    BY <2>1, EndedSub DEF Ended
  <2>3. \A j \in Invoices : payRow'[j].status =
          IF SubOf[j] = JobSub(w) /\ payRow[j].status \in {"pending", "retrying"}
          THEN "canceled" ELSE payRow[j].status
    BY <1>0, <1>5 DEF CancelPendingPayments, PayRow
  <2>4. Payments' = [j \in Invoices |->
          IF SubOf[j] = JobSub(w) /\ Payments[j] \in E!Unsettled
          THEN "canceled" ELSE Payments[j]]
    BY <2>3 DEF Payments, E!Unsettled
  <2>5. E!Void(JobSub(w))
    BY <1>0, <2>2, <2>4 DEF E!Void
  <2>6. QED  BY <2>2, <2>5 DEF E!Next
<1>6. \/ CreatePayment(w) \/ UpdatePayment(w)
      \/ MarkPaymentRetrying(w) \/ CancelPendingPayments(w)
      \/ UNCHANGED payRow
  BY DEF Step, Raise, dbVars, UpdateSubscription, GetPayment, CreatePaymentFromStripe,
      GetSubscription, CreateSubscriptionFromStripe, CreateSubscription,
      LoadSubscription, ApplyInvoicePaidToSubscription, UpdateSubscriptionPastDue,
      CancelSubscription, GetFreeSubscription, SetFreeSubscription, Respond
<1>7. QED  BY <1>1, <1>3, <1>4, <1>5, <1>6

LEMMA FreeRowMaps ==
    ASSUME IInv, FreeHeld, NEW w \in Workers, Step(w), UNCHANGED <<subRow, payRow>>
    PROVE  [E!Next]_(E!vars)
<1> DEFINE u == JobUser(w)
<1>0. /\ TypeInv /\ Busy(w)
      /\ UNCHANGED <<Collected, Ended, Standing, Until, Payments>>
      /\ freeRow \in [Users -> FreeStatus \cup {None}]
      /\ u \in Users
  <2>1. Busy(w) /\ UNCHANGED stripeVars
    BY RequestSteps DEF IInv
  <2>2. QED  BY <2>1, StripeKept, JobUserTyped DEF IInv, TypeInv, TypeOK, Standing, Until, Payments
<1>1. CASE freeRow' = freeRow
  BY <1>0, <1>1 DEF E!vars
<1>2. CASE freeRow' # freeRow
  <2>1. SetFreeSubscription(w) \/ UNCHANGED freeRow
    BY DEF Step, Raise, dbVars, UpdateSubscription, GetPayment, CreatePaymentFromStripe,
        GetSubscription, CreateSubscriptionFromStripe, CreateSubscription, CreatePayment,
        UpdatePayment, MarkPaymentRetrying, LoadSubscription,
        ApplyInvoicePaidToSubscription, UpdateSubscriptionPastDue, CancelSubscription,
        GetFreeSubscription, CancelPendingPayments, Respond
  <2>2. SetFreeSubscription(w) /\ freeRow' = [freeRow EXCEPT ![u] = FreeTarget(w)]
    BY <1>2, <2>1 DEF SetFreeSubscription
  <2>3. freeRow[u] # None
    BY <2>2 DEF FreeHeld, SetFreeSubscription
  <2>4. job[w].ev.type \in {"invoice.paid", "subscription.deleted"}
    BY <1>0, <2>2 DEF SetFreeSubscription, At, TypeInv, JobOK, About
  <2>5. CASE job[w].ev.type = "invoice.paid"
    <3>1. JobInvoice(w) \in Collected /\ Owner[SubOf[JobInvoice(w)]] = u
      BY <2>5, PaidInvoice DEF JobUser
    <3>2. E!TakeFree(u)
      BY <1>0, <2>2, <2>3, <2>5, <3>1 DEF E!TakeFree, FreeTarget
    <3>3. QED  BY <1>0, <3>2 DEF E!Next
  <2>6. CASE job[w].ev.type = "subscription.deleted"
    <3>1. JobSub(w) \in Ended /\ Owner[JobSub(w)] = u
      BY <2>6, EndedSub DEF JobUser
    <3>2. E!ReturnFree(u)
      BY <1>0, <2>2, <2>3, <2>6, <3>1 DEF E!ReturnFree, FreeTarget
    <3>3. QED  BY <1>0, <3>2 DEF E!Next
  <2>7. QED  BY <2>4, <2>5, <2>6
<1>3. QED  BY <1>1, <1>2

LEMMA StepMaps == IInv /\ FreeHeld /\ [Next]_vars => [E!Next]_(E!vars)
<1> SUFFICES ASSUME IInv, FreeHeld, [Next]_vars PROVE [E!Next]_(E!vars)
  OBVIOUS
<1>1. CASE Stripe
  BY <1>1, StripeMaps DEF IInv
<1>2. CASE UNCHANGED <<stripeVars, dbVars>>
  <2>1. UNCHANGED <<Collected, Ended, Standing, Until, Payments, freeRow>>
    BY <1>2, TablesKept, StripeKept
  <2>2. QED  BY <2>1 DEF E!vars
<1>3. ASSUME NEW w \in Workers, Step(w) PROVE [E!Next]_(E!vars)
  BY <1>3, OneTable, SubRowMaps, PayRowMaps, FreeRowMaps DEF IInv
<1>4. ASSUME NEW w \in Workers, Deliver(w) \/ Fail(w) PROVE UNCHANGED <<stripeVars, dbVars>>
  BY <1>4, DeliverSteps, FailSteps DEF IInv
<1>5. CASE UNCHANGED vars
  BY <1>2, <1>5 DEF vars, stripeVars, dbVars
<1>6. QED  BY <1>1, <1>2, <1>3, <1>4, <1>5, NextCases

\* Whatever the webhooks do, and however they race, is a behaviour of Entitlement.
THEOREM Refinement == Spec => ImplementsEntitlement
<1>1. Init => FreeHeld
  BY DEF Init, FreeHeld, At, IdleJob
<1>2. IInv /\ FreeHeld /\ [Next]_vars => FreeHeld'
  BY FreeHeldStep DEF IInv
<1>3. QED  BY InitMaps, StepMaps, Inductive, <1>1, <1>2, PTL DEF Spec, ImplementsEntitlement, E!Spec
=============================================================================
