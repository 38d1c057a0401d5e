---------------------------- MODULE AccountsProofs ----------------------------
(***************************************************************************)
(* What Accounts promises for any users, names, addresses and workers.     *)
(***************************************************************************)
EXTENDS Accounts, FiniteSetTheorems, TLAPS

-----------------------------------------------------------------------------
(* Types, and what a worker holds at each statement *)

Making == {"create_basic_subscription", "create_profile", "create_customer",
           "save_profile", "create_token"}
Saving == {"save_reset", "save_user"}

\* What a worker is about to write is a row, and from its first save on the user
\* it works for is in the table.
WorkOK(j) ==
    /\ j.pc # "idle" => j.user \in Users
    /\ j.pc = "create_user" => j.row \in Row
    /\ j.pc \in Making \cup Saving => Present(j.user)
    /\ j.pc \in Saving => j.row \in SavedRow

AInv ==
    /\ TypeOK
    /\ \A w \in Web : WorkOK(job[w])
    /\ \A u \in tokens \cup tasks : Present(u)
    /\ \A l \in links : l.password # 0

LEMMA EmptyRow == NoRow \notin SavedRow /\ NoRow.name = None /\ NoRow.password = 0
                  /\ \A row \in Row : row.name # None
  BY NoneAssumption DEF NoRow, SavedRow, Row

LEMMA PresentIsSaved ==
    ASSUME TypeOK, NEW u \in Users
    PROVE  /\ Present(u) <=> user[u] \in SavedRow
           /\ ~Present(u) <=> user[u] = NoRow
<1>1. \A row \in SavedRow : row.name # None
  BY NoneAssumption DEF SavedRow
<1>2. QED  BY <1>1, EmptyRow DEF TypeOK, Present

LEMMA IdleIsJob == IdleJob \in Job /\ IdleJob.pc = "idle" /\ IdleJob.user = None
  BY DEF IdleJob, Job, PCs

LEMMA GotoChanges ==
    ASSUME job \in [Web -> Job], NEW w \in Web, NEW label \in PCs, Goto(w, label)
    PROVE  /\ job' \in [Web -> Job]
           /\ job'[w] = [job[w] EXCEPT !.pc = label]
           /\ job'[w].pc = label /\ job'[w].user = job[w].user
           /\ job'[w].row = job[w].row /\ job'[w].link = job[w].link
           /\ \A v \in Web \ {w} : job'[v] = job[v]
<1>1. job' = [job EXCEPT ![w] = [job[w] EXCEPT !.pc = label]]
  BY Zenon DEF Goto
<1>2. [job[w] EXCEPT !.pc = label] \in Job
  BY DEF Job
<1>3. QED  BY <1>1, <1>2 DEF Job

LEMMA ReturnChanges ==
    ASSUME job \in [Web -> Job], NEW w \in Web, Return(w)
    PROVE  /\ job' \in [Web -> Job]
           /\ job'[w] = IdleJob /\ job'[w].pc = "idle"
           /\ \A v \in Web \ {w} : job'[v] = job[v]
  BY IdleIsJob DEF Return

\* As long as users stay in the table, other workers are not disturbed.
LEMMA WorkStays ==
    ASSUME AInv, \A u \in Users : Present(u) => Present(u)'
    PROVE  \A w \in Web : job'[w] = job[w] => WorkOK(job[w])'
  BY DEF AInv, WorkOK, Making, Saving

LEMMA IdleWorks == WorkOK(IdleJob)
  BY IdleIsJob DEF WorkOK, Making, Saving

LEMMA RaiseKeepsAInv ==
    ASSUME AInv, NEW w \in Web, Raise(w)
    PROVE  AInv'
<1>1. job \in [Web -> Job]
  BY DEF AInv, TypeOK
<1>2. job' \in [Web -> Job] /\ job'[w] = IdleJob /\ \A v \in Web \ {w} : job'[v] = job[v]
  BY <1>1, ReturnChanges DEF Raise
<1>3. user' = user
  BY DEF Raise
<1>4. \A v \in Web : WorkOK(job[v])'
  BY <1>2, <1>3, WorkStays, IdleIsJob DEF WorkOK, Making, Saving, Present
<1>5. TypeOK'
  BY <1>2, <1>4 DEF AInv, TypeOK, Raise, extras, mails, history, At, WorkOK
<1>6. QED  BY <1>4, <1>5 DEF AInv, Raise, extras, mails, Present

\* A registration that goes on, and what it changes besides the row of the user.
LEMMA MakeKeepsAInv ==
    ASSUME AInv, NEW w \in Web,
           \/ CreateBasicSubscription(w) \/ CreateProfile(w) \/ CreateStripeCustomer(w)
           \/ SaveProfile(w)
    PROVE  AInv'
<1> DEFINE u == job[w].user
<1>0. job \in [Web -> Job] /\ WorkOK(job[w]) /\ job[w].pc \in Making
  BY DEF AInv, TypeOK, CreateBasicSubscription, CreateProfile, CreateStripeCustomer,
         SaveProfile, At, Making
<1>1. u \in Users /\ Present(u)
  BY <1>0 DEF WorkOK, Making
<1>2. PICK label \in Making : Goto(w, label)
  BY DEF CreateBasicSubscription, CreateProfile, CreateStripeCustomer, SaveProfile, Making
<1>3. label \in PCs
  BY DEF Making, PCs
<1>4. /\ job' \in [Web -> Job]
      /\ job'[w].pc = label /\ job'[w].user = job[w].user /\ job'[w].row = job[w].row
      /\ \A v \in Web \ {w} : job'[v] = job[v]
  BY <1>0, <1>2, <1>3, GotoChanges
<1>5. UNCHANGED <<user, hashes, tokens, tasks, links, registered, spent>>
  BY DEF CreateBasicSubscription, CreateProfile, CreateStripeCustomer, SaveProfile, mails, history
<1>6. \A v \in Web : WorkOK(job[v])'
  BY <1>1, <1>4, <1>5, WorkStays DEF WorkOK, Making, Saving, Present
<1>7. free' \subseteq Users /\ customers' \subseteq Users
  BY <1>1 DEF AInv, TypeOK, CreateBasicSubscription, CreateProfile, CreateStripeCustomer, SaveProfile
<1>8. profile' \in [Users -> {"none", "bare", "billed"}]
  BY <1>1 DEF AInv, TypeOK, CreateBasicSubscription, CreateProfile, CreateStripeCustomer, SaveProfile
<1>9. TypeOK'
  BY <1>4, <1>5, <1>6, <1>7, <1>8 DEF AInv, TypeOK, At, WorkOK
<1>10. QED  BY <1>5, <1>6, <1>9 DEF AInv, Present

LEMMA ValidateKeepsAInv ==
    ASSUME AInv, NEW w \in Web, NEW u \in Users, ValidateUser(w, u)
    PROVE  AInv'
<1>0. job \in [Web -> Job]
  BY DEF AInv, TypeOK
<1>1. PICK name \in NamesOf[u], e \in EmailsOf[u] :
          job' = [job EXCEPT ![w] = [pc |-> "create_user", user |-> u, link |-> 0,
                    row |-> [name |-> name, email |-> e, password |-> 0]]]
  BY Zenon DEF ValidateUser
<1> DEFINE row == [name |-> name, email |-> e, password |-> 0]
           j == [pc |-> "create_user", user |-> u, link |-> 0, row |-> row]
<1>2. row \in Row
  BY InputAssumption DEF Row
<1> HIDE DEF row
<1>3. j \in Job /\ WorkOK(j)
  BY <1>2 DEF Job, PCs, WorkOK, Making, Saving
<1>4. job' = [job EXCEPT ![w] = j] /\ j.pc = "create_user" /\ j.user = u /\ j.row = row
  BY <1>1 DEF row
<1> HIDE DEF j
<1>5. job' \in [Web -> Job] /\ job'[w] = j /\ \A v \in Web \ {w} : job'[v] = job[v]
  BY <1>0, <1>3, <1>4
<1>6. UNCHANGED <<user, hashes, free, profile, customers, tokens, tasks, links, registered, spent>>
  BY DEF ValidateUser, extras, mails, history
<1>7. \A v \in Web : WorkOK(job[v])'
  BY <1>2, <1>4, <1>5, <1>6, WorkStays DEF WorkOK, Making, Saving, Present
<1>8. TypeOK'
  BY <1>5, <1>6, <1>7 DEF AInv, TypeOK, At, WorkOK
<1>9. QED  BY <1>6, <1>7, <1>8 DEF AInv, Present

\* A row that is saved, or first stored, is a whole one.
LEMMA RowWritten ==
    ASSUME AInv, NEW u \in Users, NEW row \in SavedRow,
           user' = [user EXCEPT ![u] = row]
    PROVE  /\ user' \in [Users -> {NoRow} \cup SavedRow]
           /\ user'[u].name # None
           /\ \A v \in Users : Present(v) => Present(v)'
<1>1. row.name # None
  BY NoneAssumption DEF SavedRow
<1>2. QED  BY <1>1 DEF AInv, TypeOK, Present

LEMMA NewRowIsSaved == \A row \in Row : NewRow(row) \in SavedRow
<1> SUFFICES ASSUME NEW row \in Row PROVE NewRow(row) \in SavedRow
  OBVIOUS
<1>1. Normal[row.email] \in Emails
  BY EmailAssumption DEF Row
<1>2. row.name \in Names
  BY DEF Row
<1>3. QED  BY <1>1, <1>2 DEF NewRow, SavedRow

LEMMA CreateKeepsAInv ==
    ASSUME AInv, NEW w \in Web, CreateUser(w)
    PROVE  AInv'
<1>1. CASE Raise(w)
  BY <1>1, RaiseKeepsAInv
<1>2. CASE ~Raise(w)
  <2> DEFINE u == job[w].user
  <2>1. job \in [Web -> Job] /\ u \in Users /\ job[w].row \in Row
    BY DEF AInv, TypeOK, CreateUser, At, WorkOK
  <2>2. user' = [user EXCEPT ![u] = NewRow(job[w].row)] /\ hashes' = [hashes EXCEPT ![u] = 1]
        /\ Goto(w, "create_basic_subscription")
        /\ UNCHANGED <<free, profile, customers, tokens, tasks, links, registered, spent>>
    BY <1>2 DEF CreateUser, extras, mails, history
  <2>3. PICK row \in SavedRow : user' = [user EXCEPT ![u] = row]
    BY <2>1, <2>2, NewRowIsSaved
  <2>4. /\ user' \in [Users -> {NoRow} \cup SavedRow] /\ user'[u].name # None
        /\ \A v \in Users : Present(v) => Present(v)'
    BY <2>1, <2>3, RowWritten
  <2>5. /\ job' \in [Web -> Job]
        /\ job'[w].pc = "create_basic_subscription" /\ job'[w].user = u
        /\ \A v \in Web \ {w} : job'[v] = job[v]
    BY <2>1, <2>2, GotoChanges DEF PCs
  <2>6. \A v \in Web : WorkOK(job[v])'
    BY <2>1, <2>4, <2>5, WorkStays DEF WorkOK, Making, Saving, Present
  <2>7. TypeOK'
    BY <2>1, <2>2, <2>4, <2>5, <2>6 DEF AInv, TypeOK, At, WorkOK
  <2>8. QED  BY <2>2, <2>4, <2>6, <2>7 DEF AInv, TypeOK
<1>3. QED  BY <1>1, <1>2

LEMMA TokenKeepsAInv ==
    ASSUME AInv, NEW w \in Web, CreateToken(w)
    PROVE  AInv'
<1>1. CASE Raise(w)
  BY <1>1, RaiseKeepsAInv
<1>2. CASE ~Raise(w)
  <2>1. job \in [Web -> Job] /\ job[w].user \in Users /\ Present(job[w].user)
    BY DEF AInv, TypeOK, CreateToken, At, WorkOK, Making
  <2>2. /\ tokens' = tokens \cup {job[w].user} /\ registered' = registered \cup {job[w].user}
        /\ Return(w) /\ UNCHANGED <<user, hashes, free, profile, customers, tasks, links, spent>>
    BY <1>2 DEF CreateToken, mails
  <2>3. job' \in [Web -> Job] /\ job'[w] = IdleJob /\ \A v \in Web \ {w} : job'[v] = job[v]
    BY <2>1, <2>2, ReturnChanges
  <2>4. \A v \in Web : WorkOK(job[v])'
    BY <2>2, <2>3, WorkStays, IdleIsJob DEF WorkOK, Making, Saving, Present
  <2>5. TypeOK'
    BY <2>1, <2>2, <2>3, <2>4 DEF AInv, TypeOK, At, WorkOK
  <2>6. QED  BY <2>1, <2>2, <2>4, <2>5 DEF AInv, Present
<1>3. QED  BY <1>1, <1>2

LEMMA MailKeepsAInv ==
    ASSUME AInv,
           \/ \E u \in Users : LogIn(u) \/ RequestReset(u) \/ SendPasswordResetEmail(u)
           \/ \E l \in links : Expire(l)
    PROVE  AInv'
<1>1. UNCHANGED <<user, hashes, free, profile, customers, job, registered, spent>>
  BY Zenon DEF LogIn, RequestReset, SendPasswordResetEmail, Expire, extras, mails, history
<1>2. \A v \in Web : WorkOK(job[v])'
  BY <1>1, WorkStays DEF Present
<1>3. tokens' \subseteq Users /\ tasks' \subseteq Users /\ \A u \in tokens' \cup tasks' : Present(u)
  BY DEF AInv, TypeOK, LogIn, RequestReset, SendPasswordResetEmail, Expire, extras, mails
<1>4. links' \subseteq Link /\ \A l \in links' : l.password # 0
  <2>1. ASSUME NEW u \in Users, SendPasswordResetEmail(u)
        PROVE  links' \subseteq Link /\ \A l \in links' : l.password # 0
    <3> DEFINE l == [user |-> u, password |-> user[u].password]
    <3>1. user[u] \in SavedRow
      BY <2>1, PresentIsSaved DEF AInv, SendPasswordResetEmail
    <3>2. l \in Link /\ l.password # 0
      BY <3>1 DEF SavedRow, Link
    <3> HIDE DEF l
    <3>3. links' \subseteq links \cup {l}
      BY <2>1 DEF SendPasswordResetEmail, l
    <3>4. QED  BY <3>2, <3>3 DEF AInv, TypeOK
  <2>2. QED
    BY <2>1 DEF AInv, TypeOK, LogIn, RequestReset, Expire, extras, mails
<1>5. TypeOK'
  BY <1>1, <1>2, <1>3, <1>4 DEF AInv, TypeOK, At, WorkOK
<1>6. QED  BY <1>1, <1>2, <1>3, <1>4, <1>5 DEF AInv, Present

LEMMA ChangeKeepsAInv ==
    ASSUME AInv, NEW u \in Users, ChangePassword(u)
    PROVE  AInv'
<1> DEFINE row == [user[u] EXCEPT !.password = NextHash(u)]
<1>1. user' = [user EXCEPT ![u] = row] /\ hashes' = [hashes EXCEPT ![u] = NextHash(u)]
      /\ UNCHANGED <<free, profile, customers, tokens, tasks, links, job, registered, spent>>
  BY DEF ChangePassword, extras, mails, history
<1>2. NextHash(u) \in Nat \ {0}
  BY DEF AInv, TypeOK, NextHash
<1>3. user[u] \in SavedRow
  BY PresentIsSaved DEF AInv, ChangePassword
<1>4. row \in SavedRow
  BY <1>2, <1>3 DEF SavedRow
<1> HIDE DEF row
<1>5. /\ user' \in [Users -> {NoRow} \cup SavedRow]
      /\ \A v \in Users : Present(v) => Present(v)'
  BY <1>1, <1>4, RowWritten
<1>6. \A v \in Web : WorkOK(job[v])'
  BY <1>1, <1>5, WorkStays
<1>7. TypeOK'
  BY <1>1, <1>2, <1>5, <1>6 DEF AInv, TypeOK, At, WorkOK
<1>8. QED  BY <1>1, <1>5, <1>6, <1>7 DEF AInv, TypeOK

\* A request that loads a user to save it later.
LEMMA LoadKeepsAInv ==
    ASSUME AInv, NEW w \in Web,
           \/ \E l \in links : ConfirmReset(w, l)
           \/ \E u \in Users : PatchUser(w, u)
    PROVE  AInv'
<1>0. job \in [Web -> Job]
  BY DEF AInv, TypeOK
<1>1. PICK j : job' = [job EXCEPT ![w] = j] /\ j \in Job /\ j.pc \in Saving
                  /\ j.user \in Users /\ Present(j.user) /\ j.row \in SavedRow
  <2>1. ASSUME NEW l \in links, ConfirmReset(w, l)
        PROVE  \E j \in Job : job' = [job EXCEPT ![w] = j] /\ j.pc \in Saving
                  /\ j.user \in Users /\ Present(j.user) /\ j.row \in SavedRow
    <3> DEFINE j == [pc |-> "save_reset", user |-> l.user, row |-> user[l.user],
                     link |-> l.password]
    <3>1. l \in Link /\ l.password # 0 /\ user[l.user].password = l.password
      BY <2>1 DEF AInv, TypeOK, ConfirmReset, CheckToken
    <3>2. l.user \in Users /\ l.password \in Nat
      BY <3>1 DEF Link
    <3>3. Present(l.user) /\ user[l.user] \in SavedRow
      BY <3>1, <3>2, PresentIsSaved, EmptyRow DEF AInv
    <3>4. j \in Job
      BY <3>2, <3>3 DEF Job, PCs, SavedRow, Row
    <3>5. job' = [job EXCEPT ![w] = j]
      BY <2>1 DEF ConfirmReset
    <3>6. QED  BY <3>2, <3>3, <3>4, <3>5 DEF Saving
  <2>2. ASSUME NEW u \in Users, PatchUser(w, u)
        PROVE  \E j \in Job : job' = [job EXCEPT ![w] = j] /\ j.pc \in Saving
                  /\ j.user \in Users /\ Present(j.user) /\ j.row \in SavedRow
    <3>1. PICK name \in NamesOf[u] :
              job' = [job EXCEPT ![w] = [pc |-> "save_user", user |-> u, link |-> 0,
                                         row |-> [user[u] EXCEPT !.name = name]]]
      BY <2>2, Zenon DEF PatchUser
    <3> DEFINE row == [user[u] EXCEPT !.name = name]
               j == [pc |-> "save_user", user |-> u, link |-> 0, row |-> row]
    <3>2. Present(u) /\ user[u] \in SavedRow
      BY <2>2, PresentIsSaved DEF AInv, PatchUser
    <3>3. row \in SavedRow /\ row \in Row
      BY <3>2, InputAssumption DEF SavedRow, Row
    <3> HIDE DEF row
    <3>4. j \in Job
      BY <3>3 DEF Job, PCs
    <3>5. job' = [job EXCEPT ![w] = j]
      BY <3>1 DEF row
    <3>6. QED  BY <3>2, <3>3, <3>4, <3>5 DEF Saving
  <2>3. QED  BY <2>1, <2>2, Zenon
<1>2. job' \in [Web -> Job] /\ job'[w] = j /\ \A v \in Web \ {w} : job'[v] = job[v]
  BY <1>0, <1>1
<1>3. UNCHANGED <<user, hashes, free, profile, customers, tokens, tasks, links, registered, spent>>
  BY Zenon DEF ConfirmReset, PatchUser, extras, mails, history
<1>4. \A v \in Web : WorkOK(job[v])'
  BY <1>1, <1>2, <1>3, WorkStays DEF WorkOK, Making, Saving, Present
<1>5. TypeOK'
  BY <1>2, <1>3, <1>4 DEF AInv, TypeOK, At, WorkOK
<1>6. QED  BY <1>3, <1>4, <1>5 DEF AInv, Present

LEMMA SaveKeepsAInv ==
    ASSUME AInv, NEW w \in Web, SaveReset(w) \/ SaveUser(w)
    PROVE  AInv'
<1>1. CASE Raise(w)
  BY <1>1, RaiseKeepsAInv
<1>2. CASE ~Raise(w)
  <2> DEFINE u == job[w].user
  <2>1. job \in [Web -> Job] /\ u \in Users /\ job[w].row \in SavedRow /\ job[w].link \in Nat
        /\ NextHash(u) \in Nat \ {0}
    BY DEF AInv, TypeOK, SaveReset, SaveUser, At, WorkOK, Saving, Job, NextHash
  <2>2. PICK row \in SavedRow : user' = [user EXCEPT ![u] = row]
    <3>1. [job[w].row EXCEPT !.password = NextHash(u)] \in SavedRow
      BY <2>1 DEF SavedRow
    <3>2. QED  BY <1>2, <2>1, <3>1 DEF SaveReset, SaveUser
  <2>3. /\ user' \in [Users -> {NoRow} \cup SavedRow]
        /\ \A v \in Users : Present(v) => Present(v)'
    BY <2>1, <2>2, RowWritten
  <2>4. Return(w) /\ UNCHANGED <<free, profile, customers, tokens, tasks, links, registered>>
    BY <1>2 DEF SaveReset, SaveUser, extras, mails, history
  <2>5. hashes' \in [Users -> Nat]
    BY <1>2, <2>1 DEF AInv, TypeOK, SaveReset, SaveUser
  <2>6. spent' \subseteq Link
    BY <1>2, <2>1 DEF AInv, TypeOK, SaveReset, SaveUser, Link, history
  <2>7. job' \in [Web -> Job] /\ job'[w] = IdleJob /\ \A v \in Web \ {w} : job'[v] = job[v]
    BY <2>1, <2>4, ReturnChanges
  <2>8. \A v \in Web : WorkOK(job[v])'
    BY <2>3, <2>7, WorkStays, IdleIsJob DEF WorkOK, Making, Saving
  <2>9. TypeOK'
    BY <2>3, <2>4, <2>5, <2>6, <2>7, <2>8 DEF AInv, TypeOK, At, WorkOK
  <2>10. QED  BY <2>3, <2>4, <2>8, <2>9 DEF AInv, TypeOK
<1>3. QED  BY <1>1, <1>2

LEMMA InitAInv == Init => AInv
  BY IdleIsJob, EmptyRow DEF Init, AInv, TypeOK, WorkOK, Making, Saving, At

LEMMA StepKeepsAInv == AInv /\ [Next]_vars => AInv'
<1> SUFFICES ASSUME AInv, [Next]_vars PROVE AInv'
  OBVIOUS
<1>1. ASSUME NEW w \in Web, Registration(w) \/ Fail(w)
      PROVE  AInv'
  BY <1>1, RaiseKeepsAInv, ValidateKeepsAInv, CreateKeepsAInv, MakeKeepsAInv, TokenKeepsAInv
     DEF Registration, Fail
<1>2. ASSUME NEW u \in Users, LogIn(u)
      PROVE  AInv'
  BY <1>2, MailKeepsAInv
<1>3. CASE Password
  BY <1>3, MailKeepsAInv, ChangeKeepsAInv, LoadKeepsAInv, SaveKeepsAInv DEF Password
<1>4. CASE UNCHANGED vars
  <2>1. UNCHANGED <<user, hashes, free, profile, customers, tokens, tasks, links, job,
                    registered, spent>>
    BY <1>4 DEF vars, extras, mails, history
  <2>2. QED  BY <2>1 DEF AInv, TypeOK, WorkOK, At, Present
<1>5. QED  BY <1>1, <1>2, <1>3, <1>4 DEF Next

LEMMA AccountsInvariant == Spec => []AInv
  BY InitAInv, StepKeepsAInv, PTL DEF Spec

\* Whatever users, names and addresses there are, every variable keeps its type:
\* above all, no row of a user is stored without a name, an address and a password.
THEOREM TypeCorrect == Spec => []TypeOK
<1>1. AInv => TypeOK
  BY DEF AInv
<1>2. QED  BY <1>1, AccountsInvariant, PTL

-----------------------------------------------------------------------------
(* One worker registers a user, and leaves nothing undone *)

Registering == {"create_user"} \cup Making

\* What a registration has behind it, where it has got to.
DoneSoFar(j) ==
    /\ j.pc \in Making \ {"create_basic_subscription"} => (FreePlan => j.user \in free)
    /\ j.pc \in {"save_profile", "create_token"} => j.user \in customers
    /\ j.pc = "create_token" => profile[j.user] = "billed"

OneRegistrar ==
    \A v, w \in Web :
        /\ job[v].pc \in Registering /\ job[w].pc \in Registering /\ job[v].user = job[w].user => v = w
        /\ job[w].pc = "create_user" => ~Present(job[w].user)
        /\ job[w].pc \in Registering => job[w].user \notin registered

RInv ==
    /\ AInv
    /\ OneRegistrar
    /\ \A w \in Web : DoneSoFar(job[w])
    /\ \A u \in registered : Present(u)
    /\ RegisteredIsComplete

\* Steps that leave every registration where it was.
LEMMA OthersKeepRInv ==
    ASSUME RInv, AInv',
           \A w \in Web : job'[w].pc \in Registering => job'[w] = job[w],
           UNCHANGED <<free, profile, customers, registered>>, tokens \subseteq tokens',
           \A u \in Users : Present(u)' <=> Present(u)
    PROVE  RInv'
<1>1. \A w \in Web : job'[w].pc \in Registering => job'[w].user \in Users
  BY DEF AInv, TypeOK, At, Registering, Making
<1>2. OneRegistrar'
  BY <1>1 DEF RInv, OneRegistrar, Registering
<1>3. \A w \in Web : DoneSoFar(job[w])'
  BY DEF RInv, DoneSoFar, Registering, Making
<1>4. (\A u \in registered : Present(u))' /\ RegisteredIsComplete'
  BY DEF RInv, AInv, TypeOK, RegisteredIsComplete
<1>5. QED  BY <1>2, <1>3, <1>4 DEF RInv

LEMMA RaiseKeepsRInv ==
    ASSUME RInv, NEW w \in Web, Raise(w)
    PROVE  RInv'
<1>1. AInv' /\ job \in [Web -> Job]
  BY RaiseKeepsAInv DEF RInv, AInv, TypeOK
<1>2. \A v \in Web : job'[v].pc \in Registering => job'[v] = job[v]
  BY <1>1, ReturnChanges DEF Raise, Registering, Making
<1>3. UNCHANGED <<user, free, profile, customers, tokens, registered>>
  BY DEF Raise, extras, history
<1>4. \A u \in Users : Present(u)' <=> Present(u)
  BY <1>3 DEF Present
<1>5. QED  BY <1>1, <1>2, <1>3, <1>4, OthersKeepRInv

\* Everything that is not registration: rows are written of users that are there.
LEMMA RestKeepsRInv ==
    ASSUME RInv, (\E u \in Users : LogIn(u)) \/ Password
    PROVE  RInv'
<1>0. AInv' /\ AInv /\ job \in [Web -> Job] /\ user \in [Users -> {NoRow} \cup SavedRow]
  BY StepKeepsAInv DEF Next, RInv, AInv, TypeOK
<1>1. CASE \E w \in Web : Raise(w)
  BY <1>1, RaiseKeepsRInv
<1>2. CASE ~\E w \in Web : Raise(w)
  <2>1. UNCHANGED <<free, profile, customers, registered>> /\ tokens \subseteq tokens'
    BY <1>2 DEF LogIn, Password, RequestReset, SendPasswordResetEmail, Expire, ConfirmReset,
                SaveReset, ChangePassword, PatchUser, SaveUser, extras, history
  <2>2. \A u \in Users : Present(u)' <=> Present(u)
    <3>1. ASSUME NEW u \in Users, user'[u] # user[u]
          PROVE  Present(u)
      <4>1. CASE \E v \in Users : ChangePassword(v)
        BY <1>0, <3>1, <4>1 DEF ChangePassword, AInv
      <4>2. ASSUME NEW w \in Web, SaveReset(w) \/ SaveUser(w)
            PROVE  Present(u)
        <5>1. Present(job[w].user)
          BY <1>0, <4>2 DEF AInv, WorkOK, SaveReset, SaveUser, At, Saving
        <5>2. \A v \in Users : v # job[w].user => user'[v] = user[v]
          BY <1>0, <1>2, <4>2 DEF SaveReset, SaveUser
        <5>3. QED  BY <3>1, <5>1, <5>2
      <4>3. QED
        BY <3>1, <4>1, <4>2 DEF LogIn, Password, RequestReset, SendPasswordResetEmail, Expire,
                                ConfirmReset, PatchUser
    <3>2. ASSUME NEW u \in Users, Present(u)
          PROVE  Present(u)'
      <4>1. CASE \E v \in Users : ChangePassword(v)
        <5>1. PICK v \in Users : ChangePassword(v)
          BY <4>1
        <5>2. user'[u] = IF u = v THEN [user[u] EXCEPT !.password = NextHash(u)] ELSE user[u]
          BY <1>0, <5>1 DEF ChangePassword
        <5>3. user[u] \in SavedRow
          BY <1>0, <3>2, PresentIsSaved DEF AInv
        <5>4. user'[u].name = user[u].name
          BY <5>2, <5>3 DEF SavedRow
        <5>5. QED  BY <3>2, <5>4 DEF Present
      <4>2. ASSUME NEW w \in Web, SaveReset(w) \/ SaveUser(w)
            PROVE  Present(u)'
        <5>1. job[w].row \in SavedRow /\ job[w].user \in Users
          BY <1>0, <4>2 DEF AInv, WorkOK, SaveReset, SaveUser, At, Saving
        <5>2. user'[u] = user[u] \/ user'[u].name = job[w].row.name
          <6>1. [job[w].row EXCEPT !.password = NextHash(job[w].user)].name = job[w].row.name
            BY <5>1 DEF SavedRow
          <6>2. QED  BY <1>0, <1>2, <4>2, <5>1, <6>1 DEF SaveReset, SaveUser
        <5>3. job[w].row.name # None
          BY <5>1, NoneAssumption DEF SavedRow
        <5>4. QED  BY <3>2, <5>2, <5>3 DEF Present
      <4>3. QED
        BY <3>2, <4>1, <4>2 DEF LogIn, Password, RequestReset, SendPasswordResetEmail, Expire,
                                ConfirmReset, PatchUser, Present
    <3>3. QED  BY <3>1, <3>2 DEF Present
  <2>3. \A w \in Web : job'[w].pc \in Registering => job'[w] = job[w]
    <3>1. ASSUME NEW w \in Web, \/ \E l \in links : ConfirmReset(w, l)
                                \/ \E u \in Users : PatchUser(w, u)
          PROVE  \A v \in Web : job'[v].pc \in Registering => job'[v] = job[v]
      <4>1. PICK j : job' = [job EXCEPT ![w] = j] /\ j.pc \in Saving
        <5>1. ASSUME NEW l \in links, ConfirmReset(w, l)
              PROVE  \E j : job' = [job EXCEPT ![w] = j] /\ j.pc \in Saving
          <6> DEFINE j == [pc |-> "save_reset", user |-> l.user, row |-> user[l.user],
                           link |-> l.password]
          <6>1. job' = [job EXCEPT ![w] = j] /\ j.pc \in Saving
            BY <5>1 DEF ConfirmReset, Saving
          <6>2. QED  BY <6>1
        <5>2. ASSUME NEW u \in Users, PatchUser(w, u)
              PROVE  \E j : job' = [job EXCEPT ![w] = j] /\ j.pc \in Saving
          <6>1. PICK name \in NamesOf[u] :
                    job' = [job EXCEPT ![w] = [pc |-> "save_user", user |-> u, link |-> 0,
                                               row |-> [user[u] EXCEPT !.name = name]]]
            BY <5>2, Zenon DEF PatchUser
          <6> DEFINE j == [pc |-> "save_user", user |-> u, link |-> 0,
                           row |-> [user[u] EXCEPT !.name = name]]
          <6>2. j.pc \in Saving
            BY DEF Saving
          <6>3. QED  BY <6>1, <6>2
        <5>3. QED  BY <3>1, <5>1, <5>2
      <4>2. job'[w] = j /\ \A v \in Web \ {w} : job'[v] = job[v]
        BY <1>0, <4>1
      <4>3. QED  BY <4>1, <4>2 DEF Registering, Making, Saving
    <3>2. ASSUME NEW w \in Web, SaveReset(w) \/ SaveUser(w)
          PROVE  \A v \in Web : job'[v].pc \in Registering => job'[v] = job[v]
      <4>1. Return(w)
        BY <1>2, <3>2 DEF SaveReset, SaveUser
      <4>2. QED  BY <1>0, <4>1, ReturnChanges DEF Registering, Making
    <3>3. QED
      BY <3>1, <3>2 DEF LogIn, Password, RequestReset, SendPasswordResetEmail, Expire, ChangePassword
  <2>4. QED  BY <1>0, <2>1, <2>2, <2>3, OthersKeepRInv
<1>3. QED  BY <1>1, <1>2

LEMMA ValidateKeepsRInv ==
    ASSUME RInv, NEW w \in Web, NEW u \in Users, ValidateUser(w, u)
    PROVE  RInv'
<1>0. AInv' /\ job \in [Web -> Job]
  BY ValidateKeepsAInv DEF RInv, AInv, TypeOK
<1>1. PICK j : job' = [job EXCEPT ![w] = j] /\ j.pc = "create_user" /\ j.user = u
  <2>1. PICK name \in NamesOf[u], e \in EmailsOf[u] :
          job' = [job EXCEPT ![w] = [pc |-> "create_user", user |-> u, link |-> 0,
                    row |-> [name |-> name, email |-> e, password |-> 0]]]
    BY Zenon DEF ValidateUser
  <2> DEFINE j == [pc |-> "create_user", user |-> u, link |-> 0,
                    row |-> [name |-> name, email |-> e, password |-> 0]]
  <2>2. job' = [job EXCEPT ![w] = j] /\ j.pc = "create_user" /\ j.user = u
    BY <2>1
  <2>3. QED  BY <2>2
<1>2. job'[w] = j /\ \A v \in Web \ {w} : job'[v] = job[v]
  BY <1>0, <1>1
<1>3. UNCHANGED <<user, free, profile, customers, tokens, registered>>
  BY DEF ValidateUser, extras, history
<1>4. ~Present(u) /\ \A v \in Web : job[v].user # u
  BY DEF ValidateUser, Fresh
<1>5. u \notin registered
  BY <1>4 DEF RInv
<1>6. OneRegistrar'
  BY <1>1, <1>2, <1>3, <1>4, <1>5 DEF RInv, OneRegistrar, Registering, Present
<1>7. \A v \in Web : DoneSoFar(job[v])'
  BY <1>1, <1>2, <1>3 DEF RInv, DoneSoFar, Making
<1>8. QED
  BY <1>0, <1>3, <1>6, <1>7 DEF RInv, RegisteredIsComplete, Present

LEMMA CreateKeepsRInv ==
    ASSUME RInv, NEW w \in Web, CreateUser(w)
    PROVE  RInv'
<1>1. CASE Raise(w)
  BY <1>1, RaiseKeepsRInv
<1>2. CASE ~Raise(w)
  <2> DEFINE u == job[w].user
  <2>0. AInv' /\ job \in [Web -> Job] /\ user \in [Users -> {NoRow} \cup SavedRow]
        /\ u \in Users /\ job[w].pc = "create_user" /\ job[w].row \in Row
    BY CreateKeepsAInv DEF RInv, AInv, TypeOK, CreateUser, At, WorkOK
  <2>1. /\ user' = [user EXCEPT ![u] = NewRow(job[w].row)]
        /\ Goto(w, "create_basic_subscription")
        /\ UNCHANGED <<free, profile, customers, tokens, registered>>
    BY <1>2 DEF CreateUser, extras, history
  <2>2. /\ job'[w].pc = "create_basic_subscription" /\ job'[w].user = u
        /\ \A v \in Web \ {w} : job'[v] = job[v]
    BY <2>0, <2>1, GotoChanges DEF PCs
  <2>3. \A v \in Users : v # u => user'[v] = user[v]
    BY <2>0, <2>1
  <2>4. user'[u].name # None
    BY <2>0, <2>1, EmptyRow DEF NewRow, Row
  <2>5. \A v \in Web \ {w} : job[v].pc \in Registering => job[v].user # u
    BY <2>0 DEF RInv, OneRegistrar, Registering
  <2>6. OneRegistrar'
    <3>1. \A v \in Web : job[v].pc \in Registering => job[v].user \in Users
      BY DEF RInv, AInv, TypeOK, At, Registering, Making
    <3>2. QED
      BY <2>0, <2>1, <2>2, <2>3, <2>5, <3>1 DEF RInv, OneRegistrar, Registering, Making, Present
  <2>7. \A v \in Web : DoneSoFar(job[v])'
    BY <2>1, <2>2 DEF RInv, DoneSoFar, Making
  <2>8. \A v \in registered : Present(v)'
    BY <2>3, <2>4 DEF RInv, AInv, TypeOK, Present
  <2>9. QED
    BY <2>0, <2>1, <2>6, <2>7, <2>8 DEF RInv, RegisteredIsComplete
<1>3. QED  BY <1>1, <1>2

\* The statements between, each of which adds to what is behind the registration.
LEMMA MakeKeepsRInv ==
    ASSUME RInv, NEW w \in Web,
           \/ CreateBasicSubscription(w) \/ CreateProfile(w) \/ CreateStripeCustomer(w)
           \/ SaveProfile(w)
    PROVE  RInv'
<1> DEFINE u == job[w].user
<1>0. AInv' /\ job \in [Web -> Job] /\ job[w].pc \in Making
  BY MakeKeepsAInv DEF RInv, AInv, TypeOK, CreateBasicSubscription, CreateProfile,
         CreateStripeCustomer, SaveProfile, At, Making
<1>1. u \in Users /\ Present(u) /\ u \notin registered
      /\ \A v \in Web \ {w} : job[v].pc \in Registering => job[v].user # u
  BY <1>0 DEF RInv, AInv, WorkOK, Making, OneRegistrar, Registering
<1>2. PICK label \in Making : Goto(w, label)
  BY DEF CreateBasicSubscription, CreateProfile, CreateStripeCustomer, SaveProfile, Making
<1>3. label \in PCs
  BY DEF Making, PCs
<1>4. /\ job'[w].pc = label /\ job'[w].user = u
      /\ \A v \in Web \ {w} : job'[v] = job[v]
  BY <1>0, <1>2, <1>3, GotoChanges
<1>5. UNCHANGED <<user, tokens, registered>>
  BY DEF CreateBasicSubscription, CreateProfile, CreateStripeCustomer, SaveProfile, history
<1>6. OneRegistrar'
  BY <1>0, <1>1, <1>4, <1>5 DEF RInv, OneRegistrar, Registering, Making, Present
<1>7. free \subseteq free' /\ customers \subseteq customers'
  BY DEF CreateBasicSubscription, CreateProfile, CreateStripeCustomer, SaveProfile
<1>8. \A v \in Users : v # u => profile'[v] = profile[v]
  BY DEF RInv, AInv, TypeOK, CreateBasicSubscription, CreateProfile, CreateStripeCustomer, SaveProfile
<1>9. DoneSoFar(job[w])'
  <2>1. CASE CreateBasicSubscription(w)
    <3>1. job'[w].pc = "create_profile"
      BY <1>0, <2>1, GotoChanges DEF CreateBasicSubscription, PCs
    <3>2. FreePlan => u \in free'
      BY <2>1 DEF CreateBasicSubscription
    <3>3. QED  BY <1>4, <3>1, <3>2 DEF DoneSoFar, Making
  <2>2. CASE CreateProfile(w)
    <3>1. job'[w].pc = "create_customer" /\ job[w].pc = "create_profile" /\ free' = free
      BY <1>0, <2>2, GotoChanges DEF CreateProfile, PCs, At
    <3>2. QED  BY <1>4, <3>1 DEF RInv, DoneSoFar, Making
  <2>3. CASE CreateStripeCustomer(w)
    <3>1. job'[w].pc = "save_profile" /\ job[w].pc = "create_customer" /\ free' = free
          /\ u \in customers'
      BY <1>0, <2>3, GotoChanges DEF CreateStripeCustomer, PCs, At
    <3>2. QED  BY <1>4, <3>1 DEF RInv, DoneSoFar, Making
  <2>4. CASE SaveProfile(w)
    <3>1. job'[w].pc = "create_token" /\ job[w].pc = "save_profile" /\ free' = free
          /\ customers' = customers
      BY <1>0, <2>4, GotoChanges DEF SaveProfile, PCs, At
    <3>2. profile'[u] = "billed"
      BY <1>1, <2>4 DEF RInv, AInv, TypeOK, SaveProfile
    <3>3. QED  BY <1>4, <3>1, <3>2 DEF RInv, DoneSoFar, Making
  <2>5. QED  BY <2>1, <2>2, <2>3, <2>4
<1>10. \A v \in Web : DoneSoFar(job[v])'
  <2>1. ASSUME NEW v \in Web \ {w}
        PROVE  DoneSoFar(job[v])'
    <3>1. job[v].pc \in Making => job[v].user \in Users /\ job[v].user # u
      BY <1>1 DEF RInv, AInv, TypeOK, At, Registering, Making
    <3>2. QED  BY <1>4, <1>7, <1>8, <3>1 DEF RInv, DoneSoFar, Making
  <2>2. QED  BY <1>9, <2>1
<1>11. RegisteredIsComplete'
  BY <1>1, <1>5, <1>7, <1>8 DEF RInv, AInv, TypeOK, RegisteredIsComplete
<1>12. QED
  BY <1>0, <1>5, <1>6, <1>10, <1>11 DEF RInv, Present

LEMMA TokenKeepsRInv ==
    ASSUME RInv, NEW w \in Web, CreateToken(w)
    PROVE  RInv'
<1>1. CASE Raise(w)
  BY <1>1, RaiseKeepsRInv
<1>2. CASE ~Raise(w)
  <2> DEFINE u == job[w].user
  <2>0. AInv' /\ job \in [Web -> Job] /\ job[w].pc = "create_token" /\ u \in Users /\ Present(u)
    BY TokenKeepsAInv DEF RInv, AInv, TypeOK, CreateToken, At, WorkOK, Making
  <2>1. /\ tokens' = tokens \cup {u} /\ registered' = registered \cup {u} /\ Return(w)
        /\ UNCHANGED <<user, free, profile, customers>>
    BY <1>2 DEF CreateToken
  <2>2. job'[w].pc = "idle" /\ \A v \in Web \ {w} : job'[v] = job[v]
    BY <2>0, <2>1, ReturnChanges
  <2>3. \A v \in Web \ {w} : job[v].pc \in Registering => job[v].user # u
    BY <2>0 DEF RInv, OneRegistrar, Registering, Making
  <2>4. OneRegistrar'
    BY <2>1, <2>2, <2>3 DEF RInv, OneRegistrar, Registering, Making, Present
  <2>5. \A v \in Web : DoneSoFar(job[v])'
    BY <2>1, <2>2 DEF RInv, DoneSoFar, Making
  <2>6. u \in customers /\ profile[u] = "billed" /\ (FreePlan => u \in free)
    BY <2>0 DEF RInv, DoneSoFar, Making
  <2>7. RegisteredIsComplete'
    BY <2>1, <2>6 DEF RInv, RegisteredIsComplete
  <2>8. QED
    BY <2>0, <2>1, <2>4, <2>5, <2>7 DEF RInv, Present
<1>3. QED  BY <1>1, <1>2

LEMMA RegistrationInvariant == Spec => []RInv
<1>1. Init => RInv
  <2> SUFFICES ASSUME Init PROVE RInv
    OBVIOUS
  <2>1. \A w \in Web : job[w].pc = "idle"
    BY DEF Init, IdleJob
  <2>2. registered = {}
    BY DEF Init
  <2>3. QED
    BY <2>1, <2>2, InitAInv DEF RInv, OneRegistrar, DoneSoFar, Registering, Making,
                                RegisteredIsComplete
<1>2. RInv /\ [Next]_vars => RInv'
  <2> SUFFICES ASSUME RInv, [Next]_vars PROVE RInv'
    OBVIOUS
  <2>1. ASSUME NEW w \in Web, Registration(w) \/ Fail(w)
        PROVE  RInv'
    BY <2>1, RaiseKeepsRInv, ValidateKeepsRInv, CreateKeepsRInv, MakeKeepsRInv, TokenKeepsRInv
       DEF Registration, Fail
  <2>2. CASE (\E u \in Users : LogIn(u)) \/ Password
    BY <2>2, RestKeepsRInv
  <2>3. CASE UNCHANGED vars
    <3>1. UNCHANGED <<user, free, profile, customers, tokens, job, registered>>
      BY <2>3 DEF vars, extras, history
    <3>2. AInv'
      BY <2>3, StepKeepsAInv DEF RInv
    <3>3. QED  BY <3>1, <3>2, OthersKeepRInv DEF Present
  <2>4. QED  BY <2>1, <2>2, <2>3 DEF Next
<1>3. QED  BY <1>1, <1>2, PTL DEF Spec

\* However registrations, log-ins and failures interleave, one that is answered with
\* a 201 has its token, its customer at Stripe and, if there is one, the free plan.
THEOREM RegisteredCorrect == Spec => []RegisteredIsComplete
<1>1. RInv => RegisteredIsComplete
  BY DEF RInv
<1>2. QED  BY <1>1, RegistrationInvariant, PTL

-----------------------------------------------------------------------------
(* A link that has set a password is used up *)

Steady == Users \ Renaming

\* The password of a user who never changes the name is the last that was made,
\* so a link is spent on a password that is at least as old as the one it replaced.
SInv ==
    /\ RInv
    /\ \A u \in Steady : user[u].password = hashes[u]
    /\ \A l \in spent : l.user \in Steady => l.password < hashes[l.user]
    /\ \A w \in Web : At(w, "save_reset") /\ job[w].user \in Steady =>
           job[w].link <= hashes[job[w].user]
    /\ \A w \in Web : At(w, "save_user") => job[w].user \in Renaming

\* Steps that leave the passwords, and the requests that will set one, alone.
LEMMA OthersKeepSInv ==
    ASSUME SInv, RInv', UNCHANGED <<user, hashes, spent>>,
           \A w \in Web : job'[w].pc \in Saving => job'[w] = job[w]
    PROVE  SInv'
  BY DEF SInv, At, Saving

\* Steps that set the password of one user.
LEMMA SetKeepsSInv ==
    ASSUME SInv, RInv', NEW u \in Users, NEW h \in Nat, h > hashes[u],
           hashes' = [hashes EXCEPT ![u] = h], user'[u].password = h,
           \A v \in Users \ {u} : user'[v] = user[v],
           \A l \in spent' : l \in spent \/ (l.user = u /\ (u \in Steady => l.password < h)),
           \A w \in Web : job'[w].pc \in Saving => job'[w] = job[w]
    PROVE  SInv'
<1>0. hashes \in [Users -> Nat] /\ spent \subseteq Link /\ job \in [Web -> Job]
  BY DEF SInv, RInv, AInv, TypeOK
<1>1. \A v \in Users : hashes'[v] \in Nat /\ hashes[v] <= hashes'[v]
                       /\ hashes'[v] = IF v = u THEN h ELSE hashes[v]
  BY <1>0
<1>2. \A v \in Steady : user'[v].password = hashes'[v]
  BY <1>1 DEF SInv, Steady
<1>3. \A l \in spent' : l.user \in Steady => l.password < hashes'[l.user]
  BY <1>0, <1>1 DEF SInv, Steady, Link
<1>4. \A w \in Web : job'[w].pc = "save_reset" /\ job'[w].user \in Steady =>
          job'[w].link <= hashes'[job'[w].user]
  BY <1>0, <1>1 DEF SInv, At, Saving, Steady, Job
<1>5. \A w \in Web : job'[w].pc = "save_user" => job'[w].user \in Renaming
  BY DEF SInv, At, Saving
<1>6. QED  BY <1>2, <1>3, <1>4, <1>5 DEF SInv, At

LEMMA RaiseKeepsSInv ==
    ASSUME SInv, NEW w \in Web, Raise(w)
    PROVE  SInv'
<1>1. job \in [Web -> Job]
  BY DEF SInv, RInv, AInv, TypeOK
<1>2. \A v \in Web : job'[v].pc \in Saving => job'[v] = job[v]
  BY <1>1, ReturnChanges DEF Raise, Saving
<1>3. UNCHANGED <<user, hashes, spent>>
  BY DEF Raise, history
<1>4. RInv'
  BY RaiseKeepsRInv DEF SInv
<1>5. QED  BY <1>2, <1>3, <1>4, OthersKeepSInv

LEMMA RegistrationKeepsSInv ==
    ASSUME SInv, RInv', NEW w \in Web, Registration(w), ~Raise(w)
    PROVE  SInv'
<1>0. job \in [Web -> Job] /\ hashes \in [Users -> Nat] /\ user \in [Users -> {NoRow} \cup SavedRow]
  BY DEF SInv, RInv, AInv, TypeOK
<1>1. CASE CreateUser(w)
  <2> DEFINE u == job[w].user
  <2>1. /\ user' = [user EXCEPT ![u] = NewRow(job[w].row)]
        /\ hashes' = [hashes EXCEPT ![u] = 1]
        /\ Goto(w, "create_basic_subscription") /\ UNCHANGED spent
    BY <1>1 DEF CreateUser, history
  <2>2. u \in Users /\ ~Present(u)
    BY <1>1 DEF SInv, RInv, AInv, TypeOK, OneRegistrar, CreateUser, At
  <2>3. \A v \in Web : job'[v].pc \in Saving => job'[v] = job[v]
    BY <1>0, <2>1, GotoChanges DEF PCs, Saving
  <2>4. user'[u].password = 1 /\ \A v \in Users \ {u} : user'[v] = user[v]
    BY <1>0, <2>1, <2>2 DEF NewRow
  <2>5. CASE u \in Steady
    <3>1. user[u] = NoRow
      BY <2>2, PresentIsSaved DEF SInv, RInv, AInv
    <3>2. hashes[u] = 0
      BY <2>5, <3>1, EmptyRow DEF SInv
    <3> DEFINE h == 1
    <3>3. h \in Nat /\ h > hashes[u] /\ hashes' = [hashes EXCEPT ![u] = h]
          /\ user'[u].password = h
      BY <2>1, <2>4, <3>2
    <3>4. \A l \in spent' : l \in spent \/ (l.user = u /\ (u \in Steady => l.password < h))
      BY <2>1
    <3> HIDE DEF h
    <3>5. QED  BY <2>2, <2>3, <2>4, <3>3, <3>4, SetKeepsSInv
  <2>6. CASE u \notin Steady
    <3>1. \A v \in Steady : user'[v] = user[v] /\ hashes'[v] = hashes[v]
      BY <1>0, <2>1, <2>4, <2>6 DEF Steady
    <3>2. QED  BY <2>1, <2>3, <3>1 DEF SInv, At, Saving
  <2>7. QED  BY <2>5, <2>6
<1>2. CASE ~CreateUser(w)
  <2>1. UNCHANGED <<user, hashes, spent>>
    BY <1>2 DEF Registration, ValidateUser, CreateBasicSubscription, CreateProfile,
                CreateStripeCustomer, SaveProfile, CreateToken, Raise, history
  <2>2. \A v \in Web : job'[v].pc \in Saving => job'[v] = job[v]
    <3>1. ASSUME NEW u \in Users, ValidateUser(w, u)
          PROVE  \A v \in Web : job'[v].pc \in Saving => job'[v] = job[v]
      <4>1. PICK name \in NamesOf[u], e \in EmailsOf[u] :
          job' = [job EXCEPT ![w] = [pc |-> "create_user", user |-> u, link |-> 0,
                    row |-> [name |-> name, email |-> e, password |-> 0]]]
        BY <3>1, Zenon DEF ValidateUser
      <4>2. QED  BY <1>0, <4>1 DEF Saving
    <3>2. ASSUME NEW label \in Making, Goto(w, label)
          PROVE  \A v \in Web : job'[v].pc \in Saving => job'[v] = job[v]
      BY <1>0, <3>2, GotoChanges, ZenonT(40) DEF Making, PCs, Saving
    <3>3. ASSUME Return(w)
          PROVE  \A v \in Web : job'[v].pc \in Saving => job'[v] = job[v]
      BY <1>0, <3>3, ReturnChanges DEF Saving
    <3>4. QED
      BY <1>2, <3>1, <3>2, <3>3 DEF Registration, CreateBasicSubscription, CreateProfile,
                                   CreateStripeCustomer, SaveProfile, CreateToken, Raise, Making
  <2>3. QED  BY <2>1, <2>2, OthersKeepSInv
<1>3. QED  BY <1>1, <1>2

LEMMA LoadKeepsSInv ==
    ASSUME SInv, RInv', NEW w \in Web,
           \/ \E l \in links : ConfirmReset(w, l)
           \/ \E u \in Users : PatchUser(w, u)
    PROVE  SInv'
<1>0. job \in [Web -> Job] /\ hashes \in [Users -> Nat]
  BY DEF SInv, RInv, AInv, TypeOK
<1>1. UNCHANGED <<user, hashes, spent>>
  BY Zenon DEF ConfirmReset, PatchUser, history
<1>2. PICK j : /\ job' = [job EXCEPT ![w] = j]
               /\ j.pc = "save_reset" /\ j.user \in Steady => j.link <= hashes[j.user]
               /\ j.pc = "save_user" => j.user \in Renaming
  <2>1. ASSUME NEW l \in links, ConfirmReset(w, l)
        PROVE  \E j : /\ job' = [job EXCEPT ![w] = j]
                      /\ j.pc = "save_reset" /\ j.user \in Steady => j.link <= hashes[j.user]
                      /\ j.pc = "save_user" => j.user \in Renaming
    <3> DEFINE j == [pc |-> "save_reset", user |-> l.user, row |-> user[l.user],
                     link |-> l.password]
    <3>1. job' = [job EXCEPT ![w] = j]
      BY <2>1 DEF ConfirmReset
    <3>2. l.password = user[l.user].password
      BY <2>1 DEF ConfirmReset, CheckToken
    <3>3. l.user \in Steady => l.password <= hashes[l.user]
      BY <1>0, <3>2 DEF SInv, Steady
    <3>4. j.pc = "save_reset" /\ (j.user \in Steady => j.link <= hashes[j.user])
      BY <3>3
    <3> HIDE DEF j
    <3>5. QED  BY <3>1, <3>4
  <2>2. ASSUME NEW u \in Users, PatchUser(w, u)
        PROVE  \E j : /\ job' = [job EXCEPT ![w] = j]
                      /\ j.pc = "save_reset" /\ j.user \in Steady => j.link <= hashes[j.user]
                      /\ j.pc = "save_user" => j.user \in Renaming
    <3>1. PICK name \in NamesOf[u] :
              job' = [job EXCEPT ![w] = [pc |-> "save_user", user |-> u, link |-> 0,
                                         row |-> [user[u] EXCEPT !.name = name]]]
      BY <2>2, Zenon DEF PatchUser
    <3> DEFINE j == [pc |-> "save_user", user |-> u, link |-> 0,
                     row |-> [user[u] EXCEPT !.name = name]]
    <3>2. job' = [job EXCEPT ![w] = j] /\ j.pc = "save_user" /\ j.user \in Renaming
      BY <2>2, <3>1 DEF PatchUser
    <3> HIDE DEF j
    <3>3. QED  BY <3>2
  <2>3. QED  BY <2>1, <2>2
<1>3. job'[w] = j /\ \A v \in Web \ {w} : job'[v] = job[v]
  BY <1>0, <1>2
<1>4. QED  BY <1>1, <1>2, <1>3 DEF SInv, At

LEMMA SaveKeepsSInv ==
    ASSUME SInv, RInv', NEW w \in Web, SaveReset(w) \/ SaveUser(w), ~Raise(w)
    PROVE  SInv'
<1> DEFINE u == job[w].user
<1>0. /\ job \in [Web -> Job] /\ hashes \in [Users -> Nat] /\ user \in [Users -> {NoRow} \cup SavedRow]
      /\ u \in Users /\ job[w].row \in SavedRow /\ job[w].link \in Nat
  BY DEF SInv, RInv, AInv, TypeOK, SaveReset, SaveUser, At, WorkOK, Saving, Job
<1>1. Return(w)
  BY DEF SaveReset, SaveUser
<1>2. \A v \in Web : job'[v].pc \in Saving => job'[v] = job[v]
  BY <1>0, <1>1, ReturnChanges DEF Saving
<1>3. CASE SaveReset(w)
  <2>1. /\ user' = [user EXCEPT ![u] = [job[w].row EXCEPT !.password = NextHash(u)]]
        /\ hashes' = [hashes EXCEPT ![u] = NextHash(u)]
        /\ spent' = spent \cup {[user |-> u, password |-> job[w].link]}
        /\ job[w].pc = "save_reset"
    BY <1>3 DEF SaveReset, At
  <2>2. NextHash(u) \in Nat /\ NextHash(u) > hashes[u]
    BY <1>0 DEF NextHash
  <2>3. user'[u].password = NextHash(u) /\ \A v \in Users \ {u} : user'[v] = user[v]
    BY <1>0, <2>1 DEF SavedRow
  <2>4. u \in Steady => job[w].link <= hashes[u]
    BY <2>1 DEF SInv, At
  <2>5. \A l \in spent' : l \in spent \/ (l.user = u /\ (u \in Steady => l.password < NextHash(u)))
    <3>1. u \in Steady => job[w].link < NextHash(u)
      BY <1>0, <2>2, <2>4
    <3>2. QED  BY <2>1, <3>1
  <2>6. QED  BY <1>0, <1>2, <2>1, <2>2, <2>3, <2>5, SetKeepsSInv
<1>4. CASE SaveUser(w)
  <2>1. user' = [user EXCEPT ![u] = job[w].row] /\ UNCHANGED <<hashes, spent>>
        /\ job[w].pc = "save_user"
    BY <1>4 DEF SaveUser, history, At
  <2>2. u \in Renaming
    BY <2>1 DEF SInv, At
  <2>3. \A v \in Steady : user'[v] = user[v]
    BY <1>0, <2>1, <2>2 DEF Steady
  <2>4. QED  BY <1>2, <2>1, <2>3 DEF SInv, At, Saving
<1>5. QED  BY <1>3, <1>4

LEMMA SpentInvariant == Spec => []SInv
<1>1. Init => SInv
  <2> SUFFICES ASSUME Init PROVE SInv
    OBVIOUS
  <2>1. RInv
    BY InitAInv DEF Init, RInv, OneRegistrar, DoneSoFar, Registering, Making,
                    RegisteredIsComplete, IdleJob
  <2>2. QED
    BY <2>1, EmptyRow DEF Init, SInv, Steady, At, IdleJob
<1>2. SInv /\ RInv' /\ [Next]_vars => SInv'
  <2> SUFFICES ASSUME SInv, RInv', [Next]_vars PROVE SInv'
    OBVIOUS
  <2>1. CASE \E w \in Web : Raise(w)
    BY <2>1, RaiseKeepsSInv
  <2>2. CASE ~\E w \in Web : Raise(w)
    <3>1. ASSUME NEW w \in Web, Registration(w)
          PROVE  SInv'
      BY <2>2, <3>1, RegistrationKeepsSInv
    <3>2. CASE \E w \in Web : \/ \E l \in links : ConfirmReset(w, l)
                              \/ \E u \in Users : PatchUser(w, u)
      BY <3>2, LoadKeepsSInv
    <3>3. CASE \E w \in Web : SaveReset(w) \/ SaveUser(w)
      BY <2>2, <3>3, SaveKeepsSInv
    <3>4. ASSUME NEW u \in Users, ChangePassword(u)
          PROVE  SInv'
      <4>1. /\ user' = [user EXCEPT ![u] = [user[u] EXCEPT !.password = NextHash(u)]]
            /\ hashes' = [hashes EXCEPT ![u] = NextHash(u)] /\ UNCHANGED <<job, spent>>
        BY <3>4 DEF ChangePassword, history
      <4>2. user \in [Users -> {NoRow} \cup SavedRow] /\ hashes \in [Users -> Nat]
            /\ user[u] \in SavedRow
        BY <3>4, PresentIsSaved DEF SInv, RInv, AInv, TypeOK, ChangePassword
      <4>3. NextHash(u) \in Nat /\ NextHash(u) > hashes[u]
        BY <4>2 DEF NextHash
      <4>4. user'[u].password = NextHash(u) /\ \A v \in Users \ {u} : user'[v] = user[v]
        BY <4>1, <4>2 DEF SavedRow
      <4>5. QED  BY <4>1, <4>3, <4>4, SetKeepsSInv
    <3>5. CASE \/ \E u \in Users : LogIn(u) \/ RequestReset(u) \/ SendPasswordResetEmail(u)
               \/ \E l \in links : Expire(l)
               \/ UNCHANGED vars
      <4>1. UNCHANGED <<user, hashes, job, spent>>
        BY <3>5, Zenon DEF LogIn, RequestReset, SendPasswordResetEmail, Expire, history, vars
      <4>2. QED  BY <4>1, OthersKeepSInv
    <3>6. QED
      BY <2>2, <3>1, <3>2, <3>3, <3>4, <3>5 DEF Next, Password, Fail
  <2>3. QED  BY <2>1, <2>2
<1>3. QED  BY <1>1, <1>2, RegistrationInvariant, PTL DEF Spec

\* No user who keeps the name has a password set twice through one link, but by
\* requests that were let in before the first of them saved.
THEOREM SpentCorrect == Spec => []SpentLinkIsDead
<1>1. SInv => SpentLinkIsDead
  <2> SUFFICES ASSUME SInv, NEW l \in spent, l.user \notin Renaming PROVE ~CheckToken(l)
    BY DEF SpentLinkIsDead
  <2>1. l \in Link /\ l.user \in Steady /\ hashes \in [Users -> Nat]
    BY DEF SInv, RInv, AInv, TypeOK, Link, Steady
  <2>2. user[l.user].password = hashes[l.user] /\ l.password < hashes[l.user]
    BY <2>1 DEF SInv
  <2>3. QED  BY <2>1, <2>2 DEF CheckToken, Link, Steady
<1>2. QED  BY <1>1, SpentInvariant, PTL

-----------------------------------------------------------------------------
(* How many users may share an address *)

\* An address that is only ever typed as it is stored.
Sole(e) == \A f \in Emails : Normal[f] = e => f = e

\* Those who have the address, or are about to.
Holders(e) ==
    {u \in Users : \/ user[u].email = e
                   \/ \E w \in Web : job[w].pc = "create_user" /\ job[w].user = u
                                     /\ job[w].row.email = e}

FewHold(e) == IsFiniteSet(Holders(e)) /\ Cardinality(Holders(e)) <= Cardinality(Web)

EInv ==
    /\ RInv
    /\ \A w \in Web : job[w].pc \in Saving => job[w].row.email = user[job[w].user].email
    /\ \A e \in Emails : Sole(e) => FewHold(e)

LEMMA FewerHold ==
    ASSUME NEW e \in Emails, FewHold(e), Holders(e)' \subseteq Holders(e)
    PROVE  FewHold(e)'
<1>1. IsFiniteSet(Holders(e)') /\ Cardinality(Holders(e)') <= Cardinality(Holders(e))
  BY FS_Subset DEF FewHold
<1>2. /\ Cardinality(Holders(e)) \in Nat /\ Cardinality(Holders(e)') \in Nat
      /\ Cardinality(Web) \in Nat /\ Cardinality(Holders(e)) <= Cardinality(Web)
  BY <1>1, WebAssumption, FS_CardinalityType DEF FewHold
<1>3. QED  BY <1>1, <1>2 DEF FewHold

\* As many users at most as there are workers.
LEMMA WorkersHold ==
    ASSUME NEW H, NEW holder, H \subseteq {holder[w] : w \in Web}
    PROVE  IsFiniteSet(H) /\ Cardinality(H) <= Cardinality(Web)
<1> DEFINE T == {holder[w] : w \in Web}
           g == [w \in Web |-> holder[w]]
<1>1. g \in Surjection(Web, T)
  BY DEF Surjection
<1>2. H \subseteq T
  OBVIOUS
<1> HIDE DEF g, T
<1>3. IsFiniteSet(T) /\ Cardinality(T) <= Cardinality(Web)
  BY <1>1, FS_Surjection, WebAssumption
<1>4. IsFiniteSet(H) /\ Cardinality(H) <= Cardinality(T)
  BY <1>2, <1>3, FS_Subset
<1>5. Cardinality(H) \in Nat /\ Cardinality(T) \in Nat /\ Cardinality(Web) \in Nat
  BY <1>3, <1>4, WebAssumption, FS_CardinalityType
<1>6. QED  BY <1>3, <1>4, <1>5

\* Steps that give nobody an address and start no registration.
LEMMA OthersKeepEInv ==
    ASSUME EInv, RInv',
           \A u \in Users : user'[u].email = user[u].email,
           \A w \in Web : /\ job'[w].pc = "create_user" => job'[w] = job[w]
                          /\ job'[w].pc \in Saving =>
                                 job'[w] = job[w] \/ job'[w].row.email = user[job'[w].user].email
    PROVE  EInv'
<1>1. \A w \in Web : job'[w].pc \in Saving => job'[w].user \in Users
  BY DEF RInv, AInv, TypeOK, At, Saving
<1>2. \A w \in Web : job'[w].pc \in Saving => job'[w].row.email = user'[job'[w].user].email
  BY <1>1 DEF EInv
<1>3. ASSUME NEW e \in Emails, Sole(e)
      PROVE  FewHold(e)'
  <2>1. Holders(e)' \subseteq Holders(e)
    BY DEF Holders
  <2>2. QED  BY <1>3, <2>1, FewerHold DEF EInv
<1>4. QED  BY <1>2, <1>3 DEF EInv, Sole

LEMMA ValidateKeepsEInv ==
    ASSUME EInv, NEW w \in Web, NEW u \in Users, ValidateUser(w, u)
    PROVE  EInv'
<1>0. job \in [Web -> Job] /\ RInv' /\ UNCHANGED user
  BY ValidateKeepsRInv DEF EInv, RInv, AInv, TypeOK, ValidateUser
<1>1. PICK name \in NamesOf[u], e \in EmailsOf[u] :
          /\ EmailIsNew(e)
          /\ job' = [job EXCEPT ![w] = [pc |-> "create_user", user |-> u, link |-> 0,
                       row |-> [name |-> name, email |-> e, password |-> 0]]]
  BY Zenon DEF ValidateUser
<1>2. /\ job'[w].pc = "create_user" /\ job'[w].user = u /\ job'[w].row.email = e
      /\ \A v \in Web \ {w} : job'[v] = job[v]
  BY <1>0, <1>1
<1>3. \A v \in Web : job'[v].pc \in Saving => job'[v].row.email = user'[job'[v].user].email
  BY <1>0, <1>2 DEF EInv, Saving
<1>4. ASSUME NEW f \in Emails, Sole(f)
      PROVE  FewHold(f)'
  <2>1. CASE f = e
    <3> DEFINE holder == [v \in Web |-> job'[v].user]
    <3>1. Holders(f)' \subseteq {holder[v] : v \in Web}
      BY <1>0, <1>1, <2>1 DEF Holders, EmailIsNew
    <3> HIDE DEF holder
    <3>2. QED  BY <3>1, WorkersHold DEF FewHold
  <2>2. CASE f # e
    <3>1. Holders(f)' \subseteq Holders(f)
      BY <1>0, <1>2, <2>2 DEF Holders
    <3>2. QED  BY <1>4, <3>1, FewerHold DEF EInv
  <2>3. QED  BY <2>1, <2>2
<1>5. QED  BY <1>0, <1>3, <1>4 DEF EInv, Sole

LEMMA CreateKeepsEInv ==
    ASSUME EInv, NEW w \in Web, CreateUser(w), ~Raise(w)
    PROVE  EInv'
<1> DEFINE u == job[w].user
<1>0. /\ job \in [Web -> Job] /\ user \in [Users -> {NoRow} \cup SavedRow] /\ RInv'
      /\ u \in Users /\ job[w].pc = "create_user" /\ job[w].row \in Row /\ ~Present(u)
  BY CreateKeepsRInv DEF EInv, RInv, AInv, TypeOK, OneRegistrar, CreateUser, At, WorkOK
<1>1. user' = [user EXCEPT ![u] = NewRow(job[w].row)] /\ Goto(w, "create_basic_subscription")
  BY DEF CreateUser
<1>2. /\ job'[w].pc = "create_basic_subscription"
      /\ \A v \in Web \ {w} : job'[v] = job[v]
  BY <1>0, <1>1, GotoChanges DEF PCs
<1>3. /\ user'[u].email = Normal[job[w].row.email] /\ job[w].row.email \in Emails
      /\ \A v \in Users \ {u} : user'[v] = user[v]
  BY <1>0, <1>1 DEF NewRow, Row
<1>4. \A v \in Web : job'[v].pc \in Saving => job'[v].row.email = user'[job'[v].user].email
  <2>1. ASSUME NEW v \in Web, job'[v].pc \in Saving
        PROVE  job'[v].row.email = user'[job'[v].user].email
    <3>1. v # w /\ job'[v] = job[v]
      BY <1>2, <2>1 DEF Saving
    <3>2. job[v].user \in Users /\ Present(job[v].user)
      BY <2>1, <3>1 DEF EInv, RInv, AInv, WorkOK, Saving
    <3>3. QED  BY <1>0, <1>3, <2>1, <3>1, <3>2 DEF EInv
  <2>2. QED  BY <2>1
<1>5. ASSUME NEW e \in Emails, Sole(e)
      PROVE  FewHold(e)'
  <2>1. user'[u].email = e => job[w].row.email = e
    BY <1>3, <1>5 DEF Sole
  <2>2. Holders(e)' \subseteq Holders(e)
    BY <1>0, <1>2, <1>3, <2>1 DEF Holders
  <2>3. QED  BY <1>5, <2>2, FewerHold DEF EInv
<1>6. QED  BY <1>0, <1>4, <1>5 DEF EInv, Sole

LEMMA RaiseKeepsEInv ==
    ASSUME EInv, NEW w \in Web, Raise(w)
    PROVE  EInv'
<1>1. job \in [Web -> Job] /\ RInv' /\ UNCHANGED user
  BY RaiseKeepsRInv DEF EInv, RInv, AInv, TypeOK, Raise
<1>2. \A v \in Web : job'[v].pc \in {"create_user"} \cup Saving => job'[v] = job[v]
  BY <1>1, ReturnChanges DEF Raise, Saving
<1>3. QED  BY <1>1, <1>2, OthersKeepEInv

\* The rest of a registration writes no row of a user.
LEMMA MakeKeepsEInv ==
    ASSUME EInv, RInv', NEW w \in Web, ~Raise(w),
           \/ CreateBasicSubscription(w) \/ CreateProfile(w) \/ CreateStripeCustomer(w)
           \/ SaveProfile(w) \/ CreateToken(w)
    PROVE  EInv'
<1>1. job \in [Web -> Job]
  BY DEF EInv, RInv, AInv, TypeOK
<1>2. UNCHANGED user
  BY DEF CreateBasicSubscription, CreateProfile, CreateStripeCustomer, SaveProfile, CreateToken
<1>3. Return(w) \/ \E label \in Making : Goto(w, label)
  BY DEF CreateBasicSubscription, CreateProfile, CreateStripeCustomer, SaveProfile, CreateToken, Making
<1>4. \A v \in Web : job'[v].pc \in {"create_user"} \cup Saving => job'[v] = job[v]
  BY <1>1, <1>3, ReturnChanges, GotoChanges, ZenonT(40) DEF Making, PCs, Saving
<1>5. QED  BY <1>2, <1>4, OthersKeepEInv

LEMMA LoadKeepsEInv ==
    ASSUME EInv, RInv', NEW w \in Web,
           \/ \E l \in links : ConfirmReset(w, l)
           \/ \E u \in Users : PatchUser(w, u)
    PROVE  EInv'
<1>0. job \in [Web -> Job] /\ UNCHANGED user
  BY DEF EInv, RInv, AInv, TypeOK, ConfirmReset, PatchUser
<1>1. PICK j : /\ job' = [job EXCEPT ![w] = j] /\ j.pc # "create_user"
               /\ j.row.email = user[j.user].email
  <2>1. ASSUME NEW l \in links, ConfirmReset(w, l)
        PROVE  \E j : /\ job' = [job EXCEPT ![w] = j] /\ j.pc # "create_user"
                      /\ j.row.email = user[j.user].email
    <3> DEFINE j == [pc |-> "save_reset", user |-> l.user, row |-> user[l.user],
                     link |-> l.password]
    <3>1. job' = [job EXCEPT ![w] = j] /\ j.pc # "create_user" /\ j.row.email = user[j.user].email
      BY <2>1 DEF ConfirmReset
    <3> HIDE DEF j
    <3>2. QED  BY <3>1
  <2>2. ASSUME NEW u \in Users, PatchUser(w, u)
        PROVE  \E j : /\ job' = [job EXCEPT ![w] = j] /\ j.pc # "create_user"
                      /\ j.row.email = user[j.user].email
    <3>1. PICK name \in NamesOf[u] :
              job' = [job EXCEPT ![w] = [pc |-> "save_user", user |-> u, link |-> 0,
                                         row |-> [user[u] EXCEPT !.name = name]]]
      BY <2>2, Zenon DEF PatchUser
    <3> DEFINE j == [pc |-> "save_user", user |-> u, link |-> 0,
                     row |-> [user[u] EXCEPT !.name = name]]
    <3>2. user[u] \in SavedRow
      BY <2>2, PresentIsSaved DEF EInv, RInv, AInv, PatchUser
    <3>3. [user[u] EXCEPT !.name = name].email = user[u].email
      BY <3>2 DEF SavedRow
    <3>4. job' = [job EXCEPT ![w] = j] /\ j.pc # "create_user" /\ j.row.email = user[j.user].email
      BY <3>1, <3>3
    <3> HIDE DEF j
    <3>5. QED  BY <3>4
  <2>3. QED  BY <2>1, <2>2
<1>2. job'[w] = j /\ \A v \in Web \ {w} : job'[v] = job[v]
  BY <1>0, <1>1
<1>3. QED  BY <1>0, <1>1, <1>2, OthersKeepEInv

\* What is saved has the address that was loaded, and that never changes.
LEMMA SaveKeepsEInv ==
    ASSUME EInv, RInv', NEW w \in Web, SaveReset(w) \/ SaveUser(w), ~Raise(w)
    PROVE  EInv'
<1> DEFINE u == job[w].user
<1>0. /\ job \in [Web -> Job] /\ user \in [Users -> {NoRow} \cup SavedRow]
      /\ u \in Users /\ job[w].row \in SavedRow /\ job[w].pc \in Saving
  BY DEF EInv, RInv, AInv, TypeOK, SaveReset, SaveUser, At, WorkOK, Saving
<1>1. Return(w)
  BY DEF SaveReset, SaveUser
<1>2. \A v \in Web : job'[v].pc \in {"create_user"} \cup Saving => job'[v] = job[v]
  BY <1>0, <1>1, ReturnChanges DEF Saving
<1>3. [job[w].row EXCEPT !.password = NextHash(u)].email = job[w].row.email
  BY <1>0 DEF SavedRow
<1>4. user'[u].email = job[w].row.email /\ \A v \in Users \ {u} : user'[v] = user[v]
  BY <1>0, <1>3 DEF SaveReset, SaveUser
<1>5. job[w].row.email = user[u].email
  BY <1>0 DEF EInv
<1>6. QED  BY <1>2, <1>4, <1>5, OthersKeepEInv

LEMMA EmailInvariant == Spec => []EInv
<1>1. Init /\ RInv => EInv
  <2> SUFFICES ASSUME Init, RInv PROVE EInv
    OBVIOUS
  <2>1. ASSUME NEW e \in Emails
        PROVE  FewHold(e)
    <3>1. e # None
      BY NoneAssumption
    <3>2. Holders(e) = {}
      BY <3>1 DEF Init, Holders, NoRow, IdleJob
    <3>3. Cardinality(Web) \in Nat
      BY WebAssumption, FS_CardinalityType
    <3>4. QED  BY <3>2, <3>3, FS_EmptySet DEF FewHold
  <2>2. QED  BY <2>1 DEF Init, EInv, IdleJob, Saving
<1>2. EInv /\ RInv' /\ [Next]_vars => EInv'
  <2> SUFFICES ASSUME EInv, RInv', [Next]_vars PROVE EInv'
    OBVIOUS
  <2>1. CASE \E w \in Web : Raise(w)
    BY <2>1, RaiseKeepsEInv
  <2>2. CASE ~\E w \in Web : Raise(w)
    <3>1. ASSUME NEW w \in Web, Registration(w)
          PROVE  EInv'
      BY <2>2, <3>1, ValidateKeepsEInv, CreateKeepsEInv, MakeKeepsEInv DEF Registration
    <3>2. CASE \E w \in Web : \/ \E l \in links : ConfirmReset(w, l)
                              \/ \E u \in Users : PatchUser(w, u)
      BY <3>2, LoadKeepsEInv
    <3>3. CASE \E w \in Web : SaveReset(w) \/ SaveUser(w)
      BY <2>2, <3>3, SaveKeepsEInv
    <3>4. ASSUME NEW u \in Users, ChangePassword(u)
          PROVE  EInv'
      <4>1. user[u] \in SavedRow /\ user \in [Users -> {NoRow} \cup SavedRow]
        BY <3>4, PresentIsSaved DEF EInv, RInv, AInv, TypeOK, ChangePassword
      <4>2. [user[u] EXCEPT !.password = NextHash(u)].email = user[u].email
        BY <4>1 DEF SavedRow
      <4>3. user' = [user EXCEPT ![u] = [user[u] EXCEPT !.password = NextHash(u)]]
            /\ UNCHANGED job
        BY <3>4 DEF ChangePassword
      <4>4. \A v \in Users : user'[v].email = user[v].email
        BY <4>1, <4>2, <4>3
      <4>5. QED  BY <4>3, <4>4, OthersKeepEInv
    <3>5. CASE \/ \E u \in Users : LogIn(u) \/ RequestReset(u) \/ SendPasswordResetEmail(u)
               \/ \E l \in links : Expire(l)
               \/ UNCHANGED vars
      <4>1. UNCHANGED <<user, job>>
        BY <3>5, Zenon DEF LogIn, RequestReset, SendPasswordResetEmail, Expire, vars
      <4>2. QED  BY <4>1, OthersKeepEInv
    <3>6. QED
      BY <2>2, <3>1, <3>2, <3>3, <3>4, <3>5 DEF Next, Password, Fail
  <2>3. QED  BY <2>1, <2>2
<1>3. QED  BY <1>1, <1>2, RegistrationInvariant, PTL DEF Spec

\* However many users register at once, an address that has one spelling is at most
\* that of as many users as there are workers.
THEOREM EmailCorrect == Spec => []EmailOvershoot
<1>1. EInv => EmailOvershoot
  <2> SUFFICES ASSUME EInv, NEW e \in Emails, Sole(e)
               PROVE  Cardinality({u \in Users : user[u].email = e}) <= Cardinality(Web)
    BY DEF EmailOvershoot, Sole
  <2> DEFINE H == {u \in Users : user[u].email = e}
  <2>1. H \subseteq Holders(e) /\ FewHold(e)
    BY DEF Holders, EInv
  <2> HIDE DEF H
  <2>2. IsFiniteSet(H) /\ Cardinality(H) <= Cardinality(Holders(e))
    BY <2>1, FS_Subset DEF FewHold
  <2>3. /\ Cardinality(H) \in Nat /\ Cardinality(Holders(e)) \in Nat /\ Cardinality(Web) \in Nat
        /\ Cardinality(Holders(e)) <= Cardinality(Web)
    BY <2>1, <2>2, WebAssumption, FS_CardinalityType DEF FewHold
  <2>4. Cardinality(H) <= Cardinality(Web)
    BY <2>2, <2>3
  <2>5. QED  BY <2>4 DEF H
<1>2. QED  BY <1>1, EmailInvariant, PTL
=============================================================================
