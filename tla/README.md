# aerobox in TLA+

aerobox is a cloud drive: a Django REST API over PostgreSQL, with the files in
S3, subscriptions sold through Stripe, and Celery for mails and clean-up. This
directory holds models of its core logic, the TLC configurations that check
them, and the theorems TLAPS proves about them.

Paths below are relative to the repository. `apps/` is where the code lives.

## The system

| Part | State it keeps | Operations | What makes it correct |
|---|---|---|---|
| **Billing webhooks** `payments/services`, `subscriptions/services` | tables `Subscription`, `Payment` | six Stripe events, delivered at least once, in any order, to several workers | what Stripe collected is recorded and grants exactly the period paid for; what Stripe runs is not canceled; the free plan goes and comes back; every event is digested |
| **Subscription and checkout API** `subscriptions/api`, `payments/api` | none of its own; makes Stripe act | checkout session, change plan | one paid subscription per user |
| **Cloud files and quota** `cloud_storage/` | table `CloudFile`, S3 objects, presigned POSTs handed out | create, patch status (finalize), update, soft delete, restore, permanent delete, purge tasks | used bytes stay within the plan; a row that is SUCCESS has its object; an object that is deleted has no row, and the other way round |
| **Folders** `cloud_storage/models/folders.py` | `Folder.parent`, `CloudFile.path` | create, rename, move, delete if empty, path task | the folders form a hierarchy; only an empty folder goes; a wrong path is owed a correction, and paths agree with the folders in the end |
| **Share links** `cloud_storage/models/share_link.py` | table `ShareLink` | create, patch, revoke, delete; public view, password, download | limits of the plan hold; only what is shared is reachable, and no longer than a token and a URL last |
| **Accounts** `users/`, `profiles/` | `User`, `Profile`, token, free `Subscription`, reset links | registration and its signals, log-in, password reset and change, username change | a registered user has profile, token, Stripe customer and free plan; a used reset link is dead |
| **Plans and features** `subscriptions/models/plan.py`, `features/` | tables `Feature`, `Plan`, `PlanFeature` | data migrations forwards and back, the seeding command, the administration | a plan grants what its migration says; a cheaper plan never grants more |
| **Mails, scheduled tasks** | none | Celery tasks | - |
| **Admin, settings, API docs** | configuration | - | - |

How they interact: the API calls make Stripe act, and Stripe answers with
events; `Subscription.status` decides through `User.active_subscription` which
plan limits the quota, folder and share-link code apply; the catalogue decides
what those limits are; deleting, restoring and purging files changes the used
bytes they are compared with; where a file is in the folders decides which share
links reach it; registration decides whether a webhook can find its user.

What is hard here: there is no `ATOMIC_REQUESTS`, and apart from
`finalize` and `delete_folder` no transaction, so every statement commits alone
and requests interleave between any two; instances loaded before are written
back after; S3 and Stripe are outside any transaction; Stripe repeats and
reorders; a crash leaves what was committed. `PROJECT.json` lists each hazard at
the line where it bites.

## Modules

| Module | What it is |
|---|---|
| `Billing` | the webhook handlers, the tables they write, and Stripe |
| `MCBilling` | the instances of `Billing` that TLC checks, one `.cfg` per run |
| `BillingProofs` | its inductive invariant and theorems |
| `Entitlement` | what billing promises, without webhooks, workers or memory |
| `EntitlementProofs` | `Billing` implements `Entitlement` |
| `CloudFiles` | the files of a user: rows, S3 objects, presigned POSTs, requests and clean-up tasks |
| `MCCloudFiles`, `CloudFilesProofs` | its instances; its inductive invariants and theorems |
| `Folders` | the folders of a user, the files in them and the path task |
| `MCFolders`, `FoldersProofs` | its instance; the hierarchy proved |
| `FolderPathsProofs` | on top of it: lemmas on the tree and its paths, and the theorems about types, deletions and paths |
| `ShareLinks` | the share links of a user, and what visitors get out of them over time |
| `MCShareLinks`, `ShareLinksProofs` | its instances; its invariants and theorems |
| `Accounts` | registration and its signals, log-in, and the ways to a new password |
| `MCAccounts`, `AccountsProofs` | its instance; its invariants and theorems |
| `Plans` | the catalogue: migrations, command, administration, and the limits read from it |
| `MCPlans`, `PlansProofs` | its instance; its invariant and theorems |

`Billing` and `Entitlement` compose by refinement. The others are separate, and meet
in what each takes from the next as a nondeterministic input: `CloudFiles` a plan that
stays, `ShareLinks` a plan that changes to any other (`ChangePlan`) and a file that
changes its root folder at any time (`Reorganise`), which is what `Folders` can do to it.

### Billing

*State.* `stripeSub` and `stripeInvoice` are what Stripe knows; `inbox` holds
the events Stripe has sent and not had a 200 for. `subRow`, `payRow` and
`freeRow` are the tables: `Subscription` rows by `stripe_subscription_id`,
`Payment` rows by `stripe_invoice_id`, and each user's subscription to the free
plan. `job[w]` is the request worker `w` is serving: the statement it is at and
what it holds in memory (the invoice's amount, the cycle end, the `Subscription`
instance, the free one).

*Actions.* `Checkout`, `ChangePlan` are the two API calls with their effect on
Stripe; the `Stripe...` actions are Stripe's own moves. `Deliver` hands an event
to a handler, one disjunct for each of the six; an event may be taken by two
workers at once, in any order, and again until it is answered. Then one action
per statement that another request can observe or disturb:

| Code | Actions |
|---|---|
| `get_or_sync_payment_from_stripe` | `GetPayment`, `CreatePaymentFromStripe` |
| `create_invoice` | `GetSubscription`, `CreateSubscriptionFromStripe`, `CreateSubscription`, `CreatePayment` |
| `apply_invoice_paid` | `UpdatePayment`, `LoadSubscription`, `ApplyInvoicePaidToSubscription`, `GetFreeSubscription`, `SetFreeSubscription` |
| `apply_payment_failed` | `MarkPaymentRetrying`, `LoadSubscription`, `UpdateSubscriptionPastDue` |
| `cancel_subscription` | `CancelSubscription`, `GetFreeSubscription`, `SetFreeSubscription`, `CancelPendingPayments` |
| `update_subscription` | `UpdateSubscription` |
| the view's 200, its 500, a crash | `Respond`, `Raise`, `Fail` |

A `save(update_fields=...)` writes the columns that differ from the instance in
memory and nothing else (`SaveSubscription`): this is where a stale instance
shows. What a mutant of the code would do stands beside the definition it
mutates (`UpdateOrCreateSubscription`, `CancelEveryPayment`, ...); no
specification uses those.

*Reductions.* Delivery and the handler's fetch from Stripe are one step, since
nothing is written in between and the fetch sees the present state anyway.
`get_or_create` is one step, the one that decides. `cancel_subscription`'s get
and save are one step: the save writes both columns without reading them. Dates
are numbers, and `ended_at` is 0, a day no period ends on. An invoice has one of
two amounts, so that "the amount changed" can be said. A missing payment method
raises like any lost call, so it is a fault. `None` returned by a Stripe lookup
makes the mapper raise: a fault as well. `mark_payment_as_past_due_retrying` saves all
columns; the others it writes are the same for every handler of that invoice.

### CloudFiles

*State.* `row` is the table `CloudFile` of one user, by s3 key: status, size,
`deleted_at` (not set, set, set more than 30 days ago) and which error code the
finalizer wrote. `object[f]` is the size of the object in S3. `post[f]` is the
size cap of the presigned POST the browser holds, 0 if it has none to use.
`job[w]` is what a web or Celery worker is doing: the statement it is at, the
file, the instance in memory, the size it has computed or S3 has answered, and
for a purge the files its first query listed, those left to try and those S3
refused.

*Actions.* One per statement that another worker can observe or disturb:

| Code | Actions |
|---|---|
| `CloudStorageViewSet.create` | `ValidateSize`, `PrepareUpload`, `PerformCreate` |
| the browser's POST to S3 | `ClientUpload` |
| `partial_update` | `Patch` (loads), then `SaveStatus`, or `SaveLast` for a failure |
| `FileUploadFinalizerService.finalize` | `Head`, `NotFound`, `SyncSize`, `CheckQuota`, `CommitSize`, `DeleteRefused`, `Refuse` |
| `CloudFileUpdateSerializer.update` | `LoadForUpdate`, `SaveUpdate`, `SaveLast` |
| `soft_delete`, `restore`, the calendar | `SoftDelete`, `Restore`, `Age` |
| `permanent_delete_file` | `LoadForPermanent`, `DeleteObject`, `DeleteRow` |
| `clear_all_deleted_files_from_user` | `EmptyBin` or `DeleteOldFiles`, `PurgeObject`, `CollectRows`, `PurgeRows` |
| a crash, an S3 error | `Fail`, `HeadFails`, `PurgeObjectFails` |

`finalize` is the one transaction. What it wrote is seen by itself alone until it
commits: `row` changes at the commit, and `CheckQuota` reads the table with the
transaction's own UPDATE on top. From the UPDATE on it holds the lock of its row,
and every other writer of that row waits (`Locked`). A `save()` without
`update_fields` writes back the whole instance (`SaveInstance`), even into a table
the row is gone from, as Django does.

*Reductions.* Sizes are small naturals. There is one user; the plan is constant
(a change of plan is billing's) and there is an active subscription. Names,
folders and content types decide nothing here. `soft_delete` and `restore` load
and save in one step: they write one column and read nothing else, so a later
save has the same effect, save that a restore after a purge would raise. A POST
is dropped when it has been used or its file deleted, except for files in
`Lingering`, whose POST stays: it is valid until it expires, and S3 takes a second
upload. `Age` waits for the tasks, which compute their threshold once.
`QuerySet.delete()` selects the rows and then deletes those by id:
`CollectRows`, `PurgeRows`. `DeleteOldFiles` runs for users on the free plan only;
`Purgers` says whether this is one. A presigned request that fails, and an S3
error in `delete_file`, raise: `Fail`.

### Entitlement

*State.* What Stripe has `collected` and `ended`, and what billing makes of it:
`standing` and `until` of each subscription, the status of each `payment`, and `free`,
the free subscription of each user. *Actions.* What may happen and on which grounds:
`Grant` only until the end of a collected period, `Withdraw` and `Void` only after
Stripe ended the subscription, `Settle` and `TakeFree` only after it collected,
`Suspend` and `Retry` only renewals. `Billing` maps its tables and Stripe to it
(`Collected`, `Ended`, `Standing`, `Until`, `Payments`, `freeRow`); inbox, workers and
their memory disappear. It says nothing of an order: a late `invoice.paid` may grant
what was withdrawn, as the code does.

### Folders

*State.* `folder` and `file` are the tables, `queue[f]` the path tasks that wait,
`job[w]` the statement a web or Celery worker is at with the instances it holds.
`moved` remembers the files moved, binned or restored since they were created, and
`abandoned` those a task had read when it raised on account of another.

| Code | Actions |
|---|---|
| `FolderSerializer.create` | `CreateFolder`, `InsertFolder` |
| `FolderSerializer.update` | `UpdateFolder`, `SaveFolder`, `EnqueuePathTask` |
| `delete_folder` | `CheckEmpty`, `DeleteFolder` |
| `CloudFilesSerializer.create`, its folder and path | `CreateFile`, `InsertFile` |
| `CloudFileUpdateSerializer.update` (PUT) | `MoveFile`, `SaveMoved`, `SavePath` |
| `soft_delete`, `restore` | `SoftDelete`, `Restore` |
| `update_folder_file_paths_task` | `StartPathTask`, `RebuildPaths`, `BulkUpdate` |

*Reductions.* Names that are equal up to case are one name. The serializer lets any
folder be the parent of any; what users pick is a parameter (`Tangled`). A walk up a
circle has no end: its worker is `stuck`. A path is the names of the folders above
(`Above`), the one with the fewest above it first, where the code walks up the parents
and puts each name before the last: the same sequence, without recursion. The task has
two outcomes in `RebuildPaths` besides the paths: a parent that is gone raises, and a
circle holds it. From the lock of the row to the commit,
`delete_folder` is one step; its look beforehand is another, since the query with
`FOR UPDATE` sees the tables as they were when it started. An id stands for a new
folder once nothing refers to the old one. A plan without `folder_creation` refuses
the request before anything is written, and is left out.

### ShareLinks

*State.* `link` is the table with what each link shares, `root[x]` the root folder
above a file, `config` the plan's limits, `token` and `url` what visitors hold,
`job[w]` requests under way. Time is what is left of a link, a token and a URL;
`Tick` takes one off each. `closed`, `away` and `locked` count the ticks since a link
was last open, held a file, or asked for nothing the visitors do not know.

| Code | Actions |
|---|---|
| `ShareLinkSerializer.create` | `CreateLink`, `InsertLink` |
| `ShareLinkSerializer.update` | `EditLink`, `SaveEdit` |
| `revoke`, `destroy` | `RevokeLink`, `DeleteLink` |
| moves of files and folders, a change of plan | `Reorganise`, `ChangePlan` |
| the public views: password, link, download | `Authenticate`, `OpenLink`, `Download` |

*Reductions.* The walk to the root folder is `Folders`' matter. A visitor's request
does not span a tick: it is short beside a URL's hour. Of all tokens and URLs for a
link the last is kept, since the earlier ones run out before it. Listing a shared
folder hands out no URL and is part of `OpenLink`. A request may name files that
are already shared, or none.

### Accounts

*State.* `user` is the table, `hashes[u]` numbers the password hashes of a user; `free`,
`profile`, `customers` and `tokens` are what registration makes; `tasks` and `links`
the reset mails queued and the links mailed; `job[w]` requests under way; `registered`
and `spent` remember whose registration was answered with a 201 and which links have
set a password.

| Code | Actions |
|---|---|
| `UserSerializer.validate_email`, `create` | `ValidateUser`, `CreateUser` |
| the signals of `User` and `Profile` | `CreateBasicSubscription`, `CreateProfile`, `CreateStripeCustomer`, `SaveProfile`, `CreateToken` |
| `obtain_auth_token` | `LogIn` |
| password reset | `RequestReset`, `SendPasswordResetEmail`, `Expire`, `ConfirmReset`, `SaveReset` |
| password change | `ChangePassword` |
| PATCH of the user | `PatchUser`, `SaveUser` |
| a constraint, a failing call, a crash | `Raise`, `Fail` |

*Reductions.* A password is its hash: set again it has another salt, so hashes are
numbered in the order they are made. Addresses are compared as typed, as normalized
(`Normal`) and as folded (`Folded`), because the code does all three. A reset link is
signed over the hash; the signature's other inputs change with the log-in by session,
which the API does not use. Requests are anonymous until a token exists. The code has
no log-out and deletes no account.

### Plans

*State.* `applied` is Django's record of migrations; `feature`, `plan` and `row` are the
tables; `edited` remembers what was written by hand since a migration wrote it.

| Code | Actions |
|---|---|
| `features/migrations/0004`, and the six of `subscriptions/migrations` that write data | one action forwards, one back (`CreateBasicFeatures`, `AssignToProPlan`, `UnassignFromProPlan`, ...) |
| `manage.py create_basic_features` | `CreateMissingFeatures` |
| the administration | `EditFeature`, `RemoveFeature`, `EditRow`, `EditPlan`, `RemovePlan` |
| `Plan.effective_feature_metadata`, `Plan.max_storage_bytes` and the like | `EffectiveMetadata`, `Limit` |
| `ChangePlanSerializer` | `MayChangeTo` |

*Reductions.* A migration is a transaction, so one step; `Needs` is its
`dependencies`. Limits are in MB, which fits TLC's integers; a limit that is null, a
word or negative is `None`, as the properties of `Plan` return it. `file_preview` and
`basic_support` decide nothing and are left out. A plan has one price.

## Runs

| Run | Instance | What it shows |
|---|---|---|
| `billing_races` | two workers; a subscription, its first invoice, a renewal that may be declined; no fault | `TypeOK`, `ActiveEndIsPaidFor`, `AcknowledgedPaidIsRecorded`, `FreeDisplacedOnlyByPayment`, `CanceledOnlyWhenEnded`, `CreationNeverResets` and the refinement `ImplementsEntitlement`, over every interleaving of two handlers (1.8 million states) |
| `billing_faults` | one worker that may crash; two subscriptions, one with an unknown customer; an amended amount; plan changes | `PaidMatchesCharge`, `AcknowledgedPaidIsRecorded`, `CanceledOnlyWhenEnded` |
| `billing_liveness` | two workers, one may crash; a subscription and its first invoice | `InboxDrains`, `CollectedInvoiceActivates`, `EndedSubscriptionIsCanceled`, `EndedSubscriptionFreesUser` |
| `billing_two_checkouts` | one worker, no fault, two checkouts | `OneActiveSubscription` is violated |
| `files_requests` | two web workers, two files, sizes 1 to 3, a file limit of 2 and a storage limit of 3; no fault, task or rename | `TypeOK`, `EachFileFits`, `SettledSizeIsReal`, `RefusedIsGone` over every interleaving of two requests (400,000 states) |
| `files_purge` | a web and a Celery worker, two files, one of them renamed; both tasks; any step may fail | `RowGoesWithObject`; under fairness `BinEmpties` |
| `files_quota` | one web worker, no fault, nothing restored | `StorageWithinLimit` is violated |
| `folders_paths` | one web and one Celery worker; two folders that nest, one file, two names | `TypeOK`, `Hierarchy`; `WrongPathIsOwed`: a wrong path always has a task that will read it right; `DeletesOnlyEmpty`: a folder that goes is empty at that moment; under fairness `PathsSettle` (900,000 states, three minutes) |
| `share_visitors` | one link, one file in or out of a shared folder, two passwords of which visitors know one, a free and a paid plan | `TypeOK`, `ClosedGivesNothing`, `UnsharedGivesNothing`, `LockedGivesNothing`: what a visitor holds ends when its time is over, whatever the owner's stale edits do |
| `share_limits` | two workers, three links, a plan that allows one | `LimitOvershoot`: at most one link too many for each worker but one |
| `accounts` | two workers; three users, one whose requests fail, one who renames; addresses in two spellings | `TypeOK`, `RegisteredIsComplete`, `EmailOvershoot`, `SpentLinkIsDead` |
| `plans` | every order of the seven data migrations and the command, with edits of the storage of two plans, of its defaults and of the Pro plan | `TypeOK`, `SeededLimits`, `ChangeOnlyReduces`, `DeployKeepsLimits` |

*Bounds.* Two workers are enough for every race of two requests, which is what
the handlers' check-then-act pairs can suffer from; three would add no new pair
of statements. One renewal is enough for "older and newer invoice", and a second
subscription of the same user for everything that goes through the free plan.
`Cycle`, `Declinable`, `Amendable`, `Modifiable`, `Faulty`, `Resolvable`
restrict which objects take part in which event, so that each run pays only for
what it asks. At most one event of a type and object is outstanding. Deadlock is
not checked: when Stripe has nothing more to say and the inbox is empty, nothing
is left to do.

For files, two are what a quota race needs, and two requests at one file, or a
request and a task, are the pairs the check-then-act code can suffer from. The
limits 2 and 3 make three cases differ: too large for a file, too large with
another file, and free space smaller than the file limit. `Restorable`,
`Renamable`, `Lingering`, `Emptiers`, `Purgers` and `Faulty` say which files and
workers take part in what. An s3 key may be used again for a new file when
nothing is left of the old one, which bounds the state without bounding the run.

For `folders_paths`, two folders nest, which is all a wrong ancestor takes, and one
web worker leaves the races of requests with the tasks; `MaxTasks` 1 bounds the
tasks that wait for one folder, so that it is changed again only once a worker has
taken the last, which may still be under way. `Tangled` is FALSE, since a circle stops workers
for good. For `share_visitors`, a token lasts two ticks and a URL one, so that each
can outlive the other's cause. For `share_limits`, three links and two workers under
a plan for one link make an overshoot of one reachable and a second conceivable. For
`accounts`, `NamesOf` and `EmailsOf` let any two users meet in a name and all three
in an address; `MaxHash` lets one of them set three passwords, which brings a spent
link's password back if anything can; `MaxMails` is the mails under way. For `plans`
nothing is bounded but what a hand may write (`HandMade`, `Prices`): the migrations
and their order are the repository's own.

*Symmetry.* Workers are interchangeable in `billing_races` and `accounts`, files and
workers in `files_requests`, links and workers in `share_limits`; the other runs use none.

*Fairness.* `FairSpec` assumes that a request under way goes on (weak fairness
of each worker's step), that faults cease, and that Stripe redelivers an
unanswered event whenever workers keep coming free (strong fairness of its
delivery). The view answers 200 only after the handler has returned
(`payments/api/views/stripe_webhook.py:31-33`), and redelivery until a 2xx is
what Stripe does and what the code's error messages rely on ("Stripe should
retry"). Stripe's redelivery ends after some days; a fault that outlasts it is
outside the model.

For files, `FairSpec` assumes that faults cease, that a request and a task go on,
and that the nightly task comes (`CELERY_BEAT_SCHEDULE`, every night at two).
Strong fairness is needed for the first two because a statement may wait for a
row's lock, again and again, and PostgreSQL serves the waiters in their order;
and for the third because the Celery worker is busy with the other task at times
and a queued task waits.

For folders, `FairSpec` assumes that a request under way goes on and that a Celery
worker takes the tasks that wait: weak fairness, since nothing waits for a lock there
and no fault is modelled. The other modules state safety only.

`InboxDrains` names the events that can never be digested: a scheduled
cancellation, an invoice whose amount changed after it was recorded,
an unknown customer or price.

## Findings

1. **Two active subscriptions** (`billing_two_checkouts`). The model's docstring
   promises one; checkout does not look, and activation deactivates only the free one.
2. **Two uploads exceed the plan** (`files_quota`). `validate_size` counts confirmed
   files only, and `finalize` rechecks only a size that changed.

### Behaviour seen that no run states

The models contain what follows, and the properties are stated so that they hold in
spite of it. Where a document says otherwise, a plain test shows the difference, or
the document does not say enough to be refuted.

Billing. `customer.subscription.deleted` handled before the row exists is answered
200, and the row a later `invoice.paid` creates is ACTIVE for good. A late
`invoice.paid` revives a CANCELED subscription and takes the free plan away; an older
one handled last moves `end_date` backward. A late `invoice.payment_failed` puts a
paid renewal back to RETRYING and its subscription to PAST_DUE
(`payments/services/invoices/status_transitions.py:10`). A scheduled cancellation is
never recorded (`subcription_id`, `update_subscription.py:13`), so its event is never
answered 200; `InboxDrains` names it. A change from one paid plan to another changes
the price in Stripe and never the plan here.

Files. The purge evaluates its query twice (`delete_file.py:40`): a file put into the
bin after the first evaluation loses its row and keeps its object. A rename writes
back every column and undoes a soft delete (`serializers/cloud_files.py:246`). With
clean-up tasks, renames, faults or a POST used twice, `SettledSizeIsReal` does not
hold: a file restored while a purge runs keeps a row without an object, and an object
replaced after finalize has another size than its row. The runs leave those out by
their constants, and the theorems state them as hypotheses; what remains true beside
tasks and renames is `StoredSizeIsReal` (Proofs).

Folders. Nothing refuses a parent below the folder itself: with `Tangled` TRUE, or with
two web workers of which one saves the parent it loaded before, a circle arises and
every walk through it never ends. A folder that gets its first content between the
look and the deletion is deleted with it; it takes two web workers, since files that are
restored come back without a folder. Between the task's query and a file's turn the
parent of the file's folder may be deleted: `rebuild_path` raises
(`models/folders.py:58-59`), the task is not retried
(`tasks/file_path_updates.py`), and the other files it had read keep wrong paths until
a folder above them changes again. `WrongPathIsOwed` and `PathsSettle` leave out those
files (`abandoned`). A task that comes to a circle hangs. `soft_delete` clears the folder and leaves
the path; `restore` restores neither.

Share links. A stale edit opens a revoked link again, and inserts a deleted one. An
edit that names no date, under a plan that lets the owner choose it, stores none, and
the link never expires. A link goes on serving a file in the bin.

Accounts. A registration that fails halfway leaves the user, and the next try is
refused for the name. A log-in in the midst makes the token, and the registration
fails on its own. Two spellings of an address's domain pass the look for its owner
and are stored as one; the password reset then raises for both. For a user who changes
the name, a stale save brings an old password back, and its reset link with it.

Plans. Without a limit a plan stores without bound for `validate_size` and
`change_plan`, and every upload raises in `prepare_file_upload` and `is_over_quota`
(the test at `test_subscription_change_plan.py:210` calls it no enforced limit). The
way back of `0014` looks for a free Pro plan, finds none and leaves its rows. Rolling
back the creation of a plan deletes its subscriptions.

## Proofs

`BillingProofs` proves, for any finite or infinite sets of users, subscriptions,
invoices and workers, any period ends and any of the fault parameters:

| Theorem | Statement |
|---|---|
| `TypeCorrect` | `Spec => []TypeOK` |
| `Inductive` | `Spec => []IInv` |
| `ActiveEndCorrect` | `Spec => []ActiveEndIsPaidFor` |
| `PaidCorrect` | `Spec => []PaidMatchesCharge` |
| `AcknowledgedCorrect` | `Spec => []AcknowledgedPaidIsRecorded` |
| `FreeDisplacedCorrect` | `Spec => []FreeDisplacedOnlyByPayment` |
| `CanceledCorrect` | `Spec => []CanceledOnlyWhenEnded` |
| `CreationCorrect` | `Spec => CreationNeverResets` |

So every safety property the runs check of `Billing` is proved too. The assumptions are the
three named in `Billing`: every subscription has an owner, every invoice a
subscription and a period that ends after day 0, and `None` is no row.

None of the properties is inductive alone, since each depends on what requests
under way hold in memory. `IInv` adds what must be known of that:

- `InvoicesBelong`: an invoice is only open or paid if its subscription was opened;
- `EventsFinal`: an event still out, or in a worker's hands, speaks of something that
  has happened in Stripe (`invoice.paid`: collected, `subscription.deleted`: ended);
- `SummariesFresh`: the amount and cycle end a request carries were Stripe's once, and
  for a collected invoice still are;
- `RowsHeld`: a request past a creation finds the row there, for rows are never removed;
- `SnapshotsUsable`: an instance in memory is one the row has been, so saving the
  columns that differ from it cannot produce an unpaid ACTIVE end;
- `FailuresAreRenewals`: only renewals reach the past-due code;
- `RecordedFirst`: a request of `invoice.paid` past `UpdatePayment` has recorded it.

Each part was checked by TLC as an invariant before it was proved. The proof
first says what a step does to each variable (`StripeSteps`, `DeliverSteps`,
`RequestSteps`, `SubRowSteps`, `PayRowSteps`, `FreeRowSteps`, ...), then has one
lemma per part of `IInv` that rests on those, so that a part is proved once over
the few ways in which the variables it reads can change.

`CloudFilesProofs` proves, for any sets of files and workers, any sizes and any plan:

| Theorem | Statement |
|---|---|
| `TypeCorrect` | `Spec => []TypeOK` |
| `SizesCorrect` | `Spec => []EachFileFits` |
| `RefusedCorrect` | `Lingering = {} => (Spec => []RefusedIsGone)` |
| `RowGoesCorrect` | `Lingering = {} => (Spec => RowGoesWithObject)` |
| `StoredCorrect` | `Attended => (Spec => []StoredSizeIsReal)` |
| `SettledCorrect` | `Undisturbed => (Spec => []SettledSizeIsReal)` |

The first two hold with every fault, task and reused POST. The next two hold with
faults, tasks and renames, if a POST is used once and not after the deletion of its
file; a POST used later writes an object nobody looks at again, and TLC shows that
both properties then fail. `Attended` says only that web workers do not fail and
that a POST is used once. Beside clean-up tasks that fail, restores, deletions and
renames of other files, the size with which a settled file counts is then its object's,
if it has an object (`StoredSizeIsReal`): a task may take the object of a file that a
restore or a stale report brings back, but never leaves one of another size.
`Undisturbed` adds that there are no tasks and no renames; then the object is there
too. It is the setting of `files_requests`. The
assumptions are the three of `CloudFiles`: limits and sizes are naturals, web and
Celery workers differ, `None` is neither.

- `Shape` adds to the type that nothing in a row, a POST or a request's memory is
  larger than a file may be, and that an instance about to be saved was loaded live;
- `Guarded` says who may still write an object: a POST in the browser's hands means a
  live row and no object; while a file is being created nobody else is at it; once a
  request has S3's answer, or a task has listed the file, no POST is left, so the
  object is the one that was answered or is gone;
- `Settling` says who owes a correction: a file that counts with another size than its
  object's is in the hands of a request that has yet to look, or will fail or remove
  it (`Obliged`), or a task has taken its object for good (`Lost`).

`Guarded` is proved with one lemma for what a step must leave alone so that the
other workers' parts survive (`GuardedFrom`), one for what each kind of step leaves
alone (`StepFrames`) and one for the step's own worker and file (`StepOwn`). All
three were checked by TLC as invariants first.

`EntitlementProofs` proves `Refinement`, `Spec => ImplementsEntitlement`, on top of
`IInv`: initial states map to initial states, and each statement of a handler is one
step of the promise or none. It needs one fact more, that the free subscription a
request is about to save exists (`FreeHeld`).

`FoldersProofs` proves `HierarchyCorrect`, `OneWriter => (Spec => []Hierarchy)`:
with one web worker and clients that pick a sensible parent, for any folders, names,
files, tasks and Celery workers. `HInv` adds the shape of the rows (`Shapes`), that a
parent exists (`NoOrphans`), and that what a request has checked still holds when it
writes (`WritersAreSafe`): an insert is nobody's parent, a save keeps the parent or
takes one that is not below. Both hypotheses are needed (see above).

`FolderPathsProofs` proves, for any folders, files, names, depth and waiting tasks:

| Theorem | Statement | From |
|---|---|---|
| `TypeCorrect` | `Spec => []TypeOK` | `TInv` |
| `DeletesCorrect` | `OneWriter => (Spec => DeletesOnlyEmpty)` | `WInv` |
| `OwedCorrect` | `OneWriter, OneTask => (Spec => []WrongPathIsOwed)` | `OInv` |

`OneWriter` is one web worker and clients that pick a sensible parent, `OneTask` one
Celery worker. With two tasks the older may write last, and with two web workers a
folder is deleted between the other's look and its save: both properties fail, so the
hypotheses stay. `TypeCorrect` needs neither, and holds for circles too.

- `TInv` adds to the type that a parent exists (`NoOrphans`) and that a worker holds
  what its next statement takes (`Held`). The type of a path is the work: on a walk
  that ends, and paths are built for no others, each depth is met by exactly one
  folder above (`EveryDepthIsMet`, `NeverTwice`).
- `WInv` says that what the one request has looked at is still so when it writes
  (`WebJob`): a folder about to be deleted is empty (`StillEmpty`), a save that does
  not queue a task changes nothing (`SaveIsDue`), an insert carries the path its file
  is to have (`InsertIsRight`), a file saved twice is one that moved (`SavesMoved`).
- `OInv` says who pays: for each file that counts, a task waits for a folder above it,
  or the running one has read its place as it is, or its path is right and no
  task will spoil it (`Debts`). A step that changes a path changes a folder above the file
  (`WalkKept`, `PathKept`), and that folder's task is queued or about to be.

What a walk up the parents computes would be shown by induction over its length. The
proofs use instead that the folders above are a set in which every part, where the walk
ends, has a folder whose parent is outside of it (`FirstOnWalk`), and count that set
(`DepthStep`; there are finitely many folders, `FolderAssumption`).

`ShareLinksProofs` proves, for any links, files, workers, plans, passwords and times:

| Theorem | Statement | From |
|---|---|---|
| `TypeCorrect` | `Spec => []TypeOK` | itself |
| `ClosedCorrect`, `UnsharedCorrect`, `LockedCorrect` | `Spec => []ClosedGivesNothing`, `UnsharedGivesNothing`, `LockedGivesNothing` | `VInv` |
| `LimitCorrect` | `Spec => []LimitOvershoot` | `LInv` |

`VInv` is an account of time: what is left of a URL and the time since the link was
open, held the file or was unlocked add up to no more than a URL's life (and a token's,
for a password), and a visitor's request that was let in is not older than its cause
(`GrantsRunOut`, `CountsStartAnew`, `VisitorsInTime`). `LInv` counts seats: the links
that are active together with those the workers are about to store (`SeatsKept`). A
worker that was let in saw fewer than the plan's, so at most it and the other
workers' exceed it.

`AccountsProofs` proves, for any users, names, addresses, workers and faults:

| Theorem | Statement | From |
|---|---|---|
| `TypeCorrect` | `Spec => []TypeOK` | `AInv` |
| `RegisteredCorrect` | `Spec => []RegisteredIsComplete` | `RInv` |
| `SpentCorrect` | `Spec => []SpentLinkIsDead` | `SInv` |
| `EmailCorrect` | `Spec => []EmailOvershoot` | `EInv` |

`AInv` says that a request at work has its user, `RInv` that one worker registers a
user and has done what comes before its statement, `SInv` that the password of a user
who keeps the name is the last that was made, and a spent link older than it, `EInv`
that those who hold an address, or are about to, are no more than the workers.

`PlansProofs` proves, for any edits and prices, with the plans and migrations as the
repository has them:

| Theorem | Statement |
|---|---|
| `TypeCorrect` | `Spec => []TypeOK` |
| `SeededCorrect` | `Spec => []SeededLimits` |
| `ChangeCorrect` | `Spec => []ChangeOnlyReduces` |
| `DeployCorrect` | `Spec => DeployKeepsLimits` |

All from `SInv`: the record of migrations respects their dependencies (`Closed`), and
the defaults, rows and plans nobody wrote by hand are as written by their migration
(`DefaultsAsSeeded`, `RowsAsGranted`, `PlansAsCreated`).

Every module's assumptions are its named `ASSUME`s, which TLC evaluates in its runs:
finite sets of workers where they are counted, limits and times that are naturals,
`None` being nothing else. All invariants were checked by TLC before they were proved.

Model-checked only: the six liveness properties (`InboxDrains`,
`CollectedInvoiceActivates`, `EndedSubscriptionIsCanceled`,
`EndedSubscriptionFreesUser`, `BinEmpties`, `PathsSettle`), since liveness under
fairness and ENABLED are beyond the prover; and the two violations. Every invariant
and every action property of the passing runs is a theorem, some under hypotheses
named with them.

## Plan

Each module takes its limits as CONSTANTS with named assumptions, has one action per
statement, and uses no RECURSIVE operator, so that it can be proved about as well as
checked. All the modules above are written, checked and, but for the exceptions just
named, proved. What is left, in this order:

1. `Folders`: three folders on a run, with smaller inputs elsewhere, for a task that
   overlaps a move two levels up; the theorems already cover it.
2. `CloudFiles`: what can be said of a file whose request died between the save of its
   status and `finalize`; the zero-amount invoice of `Billing`, which needs amounts.
3. `ShareLinks` composed with `Folders` in place of `Reorganise`: the walk to the root
   folder while folders move.
4. The look of `change_plan` at the used bytes, against uploads under way.

Not modelled, and why: the mails read state and change none, and queuing one that
fails is a fault of the models (`Fail`); the mail of a scheduled cancellation is never
queued, for the handler raises before. Admin, settings and API documentation are
declarations; what they decide is a constant of a module, and what the administration
does to the catalogue is in `Plans`. The parsing of Stripe's objects, translation,
serialization of answers and read-only endpoints change no state. Stripe, S3, Celery,
PostgreSQL and Django are external and appear as what the code relies on.
