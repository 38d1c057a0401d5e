------------------------------- MODULE Accounts -------------------------------
(***************************************************************************)
(* Accounts: registration, with what its signals create one after the      *)
(* other, here and at Stripe; log-in; and the ways to a new password.      *)
(*                                                                         *)
(* There is no transaction around a request, so each statement commits     *)
(* alone, and a registration that fails midway leaves what it has made.    *)
(* save() writes every column of the instance loaded before; only the      *)
(* change of a password names its column.                                  *)
(***************************************************************************)
EXTENDS Naturals, FiniteSets

CONSTANTS
    Users,     \* ids of users
    Names,     \* usernames
    Emails,    \* e-mail addresses, as they are typed
    Normal,    \* Normal[e]: what create_user stores of e
    Folded,    \* Folded[e]: what iexact compares of e
    Web,       \* web workers
    Faulty,    \* users in whose requests a worker may crash or Stripe fail
    Renaming,  \* users who change their username
    FreePlan,  \* whether there is an active free plan
    NamesOf,   \* NamesOf[u]: the names u may type
    EmailsOf,  \* EmailsOf[u]: the addresses u may type
    MaxHash,   \* MaxHash[u]: bound on the passwords u sets
    MaxMails,  \* bound on the reset mails queued or still good
    None       \* no user, no name, no address

ASSUME WebAssumption == IsFiniteSet(Web) /\ Web # {}
ASSUME EmailAssumption == Normal \in [Emails -> Emails] /\ Folded \in [Emails -> Emails]
ASSUME UserAssumption == Renaming \subseteq Users /\ Faulty \subseteq Users /\ MaxHash \in [Users -> Nat \ {0}]
ASSUME MailAssumption == MaxMails \in Nat
ASSUME InputAssumption == NamesOf \in [Users -> SUBSET Names] /\ EmailsOf \in [Users -> SUBSET Emails]
ASSUME PlanAssumption == FreePlan \in BOOLEAN
ASSUME NoneAssumption == None \notin Users /\ None \notin Names /\ None \notin Emails

VARIABLES
    user,        \* table User
    hashes,      \* hashes[u]: how many password hashes were made for u
    free,        \* the users with a free Subscription
    profile,     \* profile[u]: u's Profile, bare or with a customer id
    customers,   \* the users Stripe has a customer for
    tokens,      \* the users with an API token
    tasks,       \* the users for whom a reset mail is queued
    links,       \* the reset links that were mailed and have not expired
    job,         \* what each worker is doing and what it holds in memory
    registered,  \* history: the users whose registration was answered with a 201
    spent        \* history: the links that have set a password

extras == <<free, profile, customers, tokens>>
mails == <<tasks, links>>
history == <<registered, spent>>
vars == <<user, hashes, extras, mails, job, history>>

-----------------------------------------------------------------------------
(* Data *)

\* A password is its hash, numbered: a password set again has another salt.
Row == [name : Names, email : Emails, password : Nat]
SavedRow == [name : Names, email : Emails, password : Nat \ {0}]
NoRow == [name |-> None, email |-> None, password |-> 0]

Present(u) == user[u].name # None
Taken(name, u) == \E v \in Users \ {u} : user[v].name = name

\* A link is signed over the user and the hash the password has at the time.
Link == [user : Users, password : Nat]

PCs == {"idle", "create_user", "create_basic_subscription", "create_profile",
        "create_customer", "save_profile", "create_token", "save_reset", "save_user"}
Job == [pc : PCs, user : Users \cup {None}, row : Row \cup {NoRow}, link : Nat]
IdleJob == [pc |-> "idle", user |-> None, row |-> NoRow, link |-> 0]

At(w, label) == job[w].pc = label
Goto(w, label) == job' = [job EXCEPT ![w].pc = label]
Return(w) == job' = [job EXCEPT ![w] = IdleJob]

TypeOK ==
    /\ user \in [Users -> {NoRow} \cup SavedRow]
    /\ hashes \in [Users -> Nat]
    /\ free \subseteq Users /\ customers \subseteq Users /\ tokens \subseteq Users
    /\ profile \in [Users -> {"none", "bare", "billed"}]
    /\ tasks \subseteq Users /\ links \subseteq Link
    /\ job \in [Web -> Job]
    /\ \A w \in Web : ~At(w, "idle") => job[w].user \in Users
    /\ registered \subseteq Users /\ spent \subseteq Link

Init ==
    /\ user = [u \in Users |-> NoRow]
    /\ hashes = [u \in Users |-> 0]
    /\ free = {} /\ customers = {} /\ tokens = {}
    /\ profile = [u \in Users |-> "none"]
    /\ tasks = {} /\ links = {}
    /\ job = [w \in Web |-> IdleJob]
    /\ registered = {} /\ spent = {}

\* The process dies, a call to Stripe fails or a constraint of the database is
\* violated: what was saved stays.
Raise(w) ==
    /\ Return(w)
    /\ UNCHANGED <<user, hashes, extras, mails, history>>
Fail(w) == job[w].user \in Faulty /\ Raise(w)

-----------------------------------------------------------------------------
(* Registration *)

Fresh(u) == ~Present(u) /\ \A w \in Web : job[w].user # u

\* Bug: the address is not looked up.
AnyEmail(e) == e \in Emails
EmailIsNew(e) == \A u \in Users : user[u].email # e

ValidateUser(w, u) ==
    /\ At(w, "idle")
    /\ Fresh(u)
    /\ \E name \in NamesOf[u], e \in EmailsOf[u] :
        /\ ~Taken(name, u)
        /\ EmailIsNew(e)
        /\ job' = [job EXCEPT ![w] = [pc |-> "create_user", user |-> u, link |-> 0,
                     row |-> [name |-> name, email |-> e, password |-> 0]]]
    /\ UNCHANGED <<user, hashes, extras, mails, history>>

\* Bug: create() in place of create_user(): nothing is normalized, nothing hashed.
RowAsTyped(row) == row
NewRow(row) == [name |-> row.name, email |-> Normal[row.email], password |-> 1]

\* The username is unique in the table, the address is not.
CreateUser(w) ==
    LET u == job[w].user
        row == job[w].row
    IN  /\ At(w, "create_user")
        /\ \/ Taken(row.name, u) /\ Raise(w)
           \/ /\ ~Taken(row.name, u)
              /\ user' = [user EXCEPT ![u] = NewRow(row)]
              /\ hashes' = [hashes EXCEPT ![u] = 1]
              /\ Goto(w, "create_basic_subscription")
              /\ UNCHANGED <<extras, mails, history>>

\* Without a free plan it is only logged.
CreateBasicSubscription(w) ==
    /\ At(w, "create_basic_subscription")
    /\ free' = IF FreePlan THEN free \cup {job[w].user} ELSE free
    /\ Goto(w, "create_profile")
    /\ UNCHANGED <<user, hashes, profile, customers, tokens, mails, history>>

CreateProfile(w) ==
    /\ At(w, "create_profile")
    /\ profile' = [profile EXCEPT ![job[w].user] = "bare"]
    /\ Goto(w, "create_customer")
    /\ UNCHANGED <<user, hashes, free, customers, tokens, mails, history>>

\* Bug: a customer that cannot be created is left for later.
CustomerIfPossible(w) ==
    /\ At(w, "create_customer")
    /\ \/ customers' = customers \cup {job[w].user} /\ Goto(w, "save_profile")
       \/ job[w].user \in Faulty /\ UNCHANGED customers /\ Goto(w, "create_token")
    /\ UNCHANGED <<user, hashes, free, profile, tokens, mails, history>>
CreateStripeCustomer(w) ==
    /\ At(w, "create_customer")
    /\ customers' = customers \cup {job[w].user}
    /\ Goto(w, "save_profile")
    /\ UNCHANGED <<user, hashes, free, profile, tokens, mails, history>>

SaveProfile(w) ==
    /\ At(w, "save_profile")
    /\ profile' = [profile EXCEPT ![job[w].user] = "billed"]
    /\ Goto(w, "create_token")
    /\ UNCHANGED <<user, hashes, free, customers, tokens, mails, history>>

\* One token per user: if a log-in has made it, the registration fails here.
CreateToken(w) ==
    LET u == job[w].user IN
    /\ At(w, "create_token")
    /\ \/ u \in tokens /\ Raise(w)
       \/ /\ u \notin tokens
          /\ tokens' = tokens \cup {u}
          /\ registered' = registered \cup {u}
          /\ Return(w)
          /\ UNCHANGED <<user, hashes, free, profile, customers, mails, spent>>

\* obtain_auth_token asks for no more than the row of the user.
LogIn(u) ==
    /\ Present(u)
    /\ u \notin tokens
    /\ tokens' = tokens \cup {u}
    /\ UNCHANGED <<user, hashes, free, profile, customers, mails, job, history>>

-----------------------------------------------------------------------------
(* A new password *)

NextHash(u) == hashes[u] + 1
CanSet(u) == hashes[u] < MaxHash[u]

\* get(email__iexact = ...) raises if the address is not one user's alone.
RequestReset(u) ==
    /\ Present(u) /\ CanSet(u)
    /\ Cardinality(tasks) + Cardinality(links) < MaxMails
    /\ \A v \in Users \ {u} : Present(v) => Folded[user[v].email] # Folded[user[u].email]
    /\ tasks' = tasks \cup {u}
    /\ UNCHANGED <<user, hashes, extras, links, job, history>>

\* A mail that cannot be sent is logged, and the task is done.
SendPasswordResetEmail(u) ==
    /\ u \in tasks
    /\ tasks' = tasks \ {u}
    /\ links' \in {links, links \cup {[user |-> u, password |-> user[u].password]}}
    /\ UNCHANGED <<user, hashes, extras, job, history>>

Expire(l) ==
    /\ links' = links \ {l}
    /\ UNCHANGED <<user, hashes, extras, tasks, job, history>>

\* Bug: the link is good for the user, whatever has become of the password.
LinkOfUser(l) == l \in links
CheckToken(l) == l \in links /\ l.password = user[l.user].password

ConfirmReset(w, l) ==
    /\ At(w, "idle")
    /\ CheckToken(l)
    /\ CanSet(l.user)
    /\ job' = [job EXCEPT ![w] = [pc |-> "save_reset", user |-> l.user,
                                  row |-> user[l.user], link |-> l.password]]
    /\ UNCHANGED <<user, hashes, extras, mails, history>>

\* The whole row as it was loaded, with a new password.
SaveReset(w) ==
    LET u == job[w].user IN
    /\ At(w, "save_reset")
    /\ \/ Taken(job[w].row.name, u) /\ Raise(w)
       \/ /\ ~Taken(job[w].row.name, u)
          /\ CanSet(u)
          /\ user' = [user EXCEPT ![u] = [job[w].row EXCEPT !.password = NextHash(u)]]
          /\ hashes' = [hashes EXCEPT ![u] = NextHash(u)]
          /\ spent' = spent \cup {[user |-> u, password |-> job[w].link]}
          /\ Return(w)
          /\ UNCHANGED <<extras, mails, registered>>

ChangePassword(u) ==
    /\ u \in tokens
    /\ CanSet(u)
    /\ user' = [user EXCEPT ![u].password = NextHash(u)]
    /\ hashes' = [hashes EXCEPT ![u] = NextHash(u)]
    /\ UNCHANGED <<extras, mails, job, history>>

PatchUser(w, u) ==
    /\ At(w, "idle")
    /\ u \in Renaming /\ u \in tokens
    /\ \E name \in NamesOf[u] :
        /\ ~Taken(name, u)
        /\ job' = [job EXCEPT ![w] = [pc |-> "save_user", user |-> u, link |-> 0,
                                      row |-> [user[u] EXCEPT !.name = name]]]
    /\ UNCHANGED <<user, hashes, extras, mails, history>>

\* The whole row as it was loaded, with another name.
SaveUser(w) ==
    LET u == job[w].user IN
    /\ At(w, "save_user")
    /\ \/ Taken(job[w].row.name, u) /\ Raise(w)
       \/ /\ ~Taken(job[w].row.name, u)
          /\ user' = [user EXCEPT ![u] = job[w].row]
          /\ Return(w)
          /\ UNCHANGED <<hashes, extras, mails, history>>

-----------------------------------------------------------------------------
Registration(w) ==
    \/ \E u \in Users : ValidateUser(w, u)
    \/ CreateUser(w) \/ CreateBasicSubscription(w) \/ CreateProfile(w)
    \/ CreateStripeCustomer(w) \/ SaveProfile(w) \/ CreateToken(w)

Password ==
    \/ \E u \in Users : RequestReset(u) \/ SendPasswordResetEmail(u) \/ ChangePassword(u)
    \/ \E l \in links : Expire(l) \/ \E w \in Web : ConfirmReset(w, l)
    \/ \E w \in Web : SaveReset(w) \/ SaveUser(w) \/ \E u \in Users : PatchUser(w, u)

Next ==
    \/ \E w \in Web : Registration(w) \/ Fail(w)
    \/ \E u \in Users : LogIn(u)
    \/ Password

Spec == Init /\ [][Next]_vars

-----------------------------------------------------------------------------
(* Safety *)

\* A registration that was answered with a 201 left nothing undone, neither here
\* nor at Stripe, although anyone may log in and start using the account halfway.
\* Of one that failed, the user stays, and nothing ever makes up for the rest.
RegisteredIsComplete ==
    \A u \in registered :
        /\ u \in tokens
        /\ u \in customers /\ profile[u] = "billed"
        /\ FreePlan => u \in free

\* Nothing but a look beforehand keeps an address to one user: as many as there
\* are workers may end up with it, provided nobody types it in another spelling.
EmailOvershoot ==
    \A e \in Emails :
        (\A f \in Emails : Normal[f] = e => f = e) =>
            Cardinality({u \in Users : user[u].email = e}) <= Cardinality(Web)

\* A reset link that has set a password lets nobody in any more, whatever other
\* requests were let in with it before and save after it. For a user who changes
\* the name it may: a stale save brings the password back that it was made for.
SpentLinkIsDead ==
    \A l \in spent : l.user \notin Renaming => ~CheckToken(l)
=============================================================================
