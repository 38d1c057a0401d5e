------------------------------ MODULE CloudFiles ------------------------------
(***************************************************************************)
(* The files of one user: rows of the table CloudFile, objects in S3, and  *)
(* the presigned POSTs with which the browser uploads straight to S3.  Web *)
(* workers serve the API, Celery workers run the clean-up tasks.           *)
(*                                                                         *)
(* Outside finalize every statement commits alone, so requests interleave  *)
(* between any two of them.  save() writes every column of the instance    *)
(* loaded before, and inserts the row again if it is gone; a save with     *)
(* update_fields writes those columns and raises if the row is gone.       *)
(* finalize is a transaction at READ COMMITTED: from its first UPDATE to   *)
(* its end it holds the lock of its row and alone sees what it wrote.      *)
(***************************************************************************)
EXTENDS Integers, FiniteSetsExt

CONSTANTS
    Files,      \* s3 keys, each with the row that carries it
    Web,        \* web workers
    Celery,     \* Celery workers
    Limit,      \* max_storage_bytes of the user's plan
    MaxFile,    \* max_file_upload_size_bytes of the user's plan
    Sizes,      \* sizes clients declare and upload
    Restorable, \* files the user may restore
    Renamable,  \* files the user renames (PUT), or patches without a status
    Lingering,  \* files whose POST is used again, or after the file's deletion
    Emptiers,   \* Celery workers that run the user's "empty the bin"
    Purgers,    \* Celery workers that run the nightly clean-up for the user
    Faulty,     \* workers that may crash, or fail to reach S3
    None        \* no object, nothing loaded

Workers == Web \cup Celery

ASSUME PlanAssumption == Limit \in Nat /\ MaxFile \in Nat /\ Sizes \subseteq Nat
ASSUME ProcessAssumption == Web \cap Celery = {} /\ Emptiers \subseteq Celery /\ Purgers \subseteq Celery
ASSUME NoneAssumption == None \notin Nat /\ None \notin Files

VARIABLES
    row,     \* table CloudFile
    object,  \* object[f]: the size of f's object in S3, or None
    post,    \* post[f]: the size cap of f's presigned POST, 0 if there is none to use
    job      \* what each worker is doing and what it holds in memory

vars == <<row, object, post, job>>

-----------------------------------------------------------------------------
(* Data *)

\* bin tells deleted_at: not set, set, set more than 30 days ago.  error tells
\* the codes the finalizer writes from the others.
Row == [status : {"absent", "pending", "success", "failed"},
        size   : Nat,
        bin    : {"no", "recent", "old"},
        error  : {"none", "not_found", "quota"}]

NoRow == [status |-> "absent", size |-> 0, bin |-> "no", error |-> "none"]

Present(f) == row[f].status # "absent"
Live(f) == Present(f) /\ row[f].bin = "no"
InBin(f) == Present(f) /\ row[f].bin # "no"

\* get_user_used_bytes, in the table t
Used(t) == MapThenSumSet(LAMBDA f : t[f].size,
                         {f \in Files : t[f].status = "success" /\ t[f].bin = "no"})

PCs == {"idle", "prepare_upload", "perform_create",
        "save_status", "head", "not_found", "sync", "check_quota", "commit",
        "delete_refused", "refuse", "save_twice", "save_once",
        "delete_object", "delete_row", "purge_objects", "purge_rows"}

Job == [pc     : PCs,
        file   : Files \cup {None},
        inst   : Row \cup {None},  \* the CloudFile instance in memory
        size   : Nat,              \* max_bytes, or the size S3 answered
        scope  : SUBSET {"recent", "old"},
        listed : SUBSET Files,     \* the files the purge's first query returned
        todo   : SUBSET Files,     \* those not yet tried; then the rows to delete
        kept   : SUBSET Files]     \* failed_s3_keys

IdleJob == [pc |-> "idle", file |-> None, inst |-> None, size |-> 0,
            scope |-> {}, listed |-> {}, todo |-> {}, kept |-> {}]

At(w, label) == job[w].pc = label
Goto(w, label) == job' = [job EXCEPT ![w].pc = label]
Return(w) == job' = [job EXCEPT ![w] = IdleJob]

Start(w, label, f, inst) ==
    /\ At(w, "idle")
    /\ job' = [job EXCEPT ![w] = [IdleJob EXCEPT !.pc = label, !.file = f, !.inst = inst]]

InTransaction == {"check_quota", "commit", "delete_refused", "refuse"}
Locked(f) == \E w \in Workers : job[w].file = f /\ job[w].pc \in InTransaction

InHand(f) == \E w \in Workers : job[w].file = f \/ f \in job[w].listed \/ f \in job[w].todo

\* An s3 key is a new hash for every creation: f stands for another file once
\* nothing of the previous one is left.
Fresh(f) == ~Present(f) /\ object[f] = None /\ post[f] = 0 /\ ~InHand(f)

TypeOK ==
    /\ row \in [Files -> Row]
    /\ object \in [Files -> Nat \cup {None}]
    /\ post \in [Files -> Nat]
    /\ job \in [Workers -> Job]
    /\ \A w \in Web : job[w].pc # "idle" => job[w].file \in Files

Init ==
    /\ row = [f \in Files |-> NoRow]
    /\ object = [f \in Files |-> None]
    /\ post = [f \in Files |-> 0]
    /\ job = [w \in Workers |-> IdleJob]

-----------------------------------------------------------------------------
(* POST: validate, sign, save, in three statements *)

\* validate_size; what it refuses answers 400 and changes nothing.
ValidateSize(w, f, n) ==
    /\ Fresh(f)
    /\ n <= MaxFile
    /\ Used(row) + n <= Limit
    /\ Start(w, "prepare_upload", f,
             [status |-> "pending", size |-> n, bin |-> "no", error |-> "none"])
    /\ UNCHANGED <<row, object, post>>

AvailableBytes == IF Limit - Used(row) > 0 THEN Limit - Used(row) ELSE 0

\* A bug: the cap of the plan's storage only.
MaxBytesOfStorage(available) == available

MaxBytes(available) == IF available < MaxFile THEN available ELSE MaxFile

\* create_presigned_post_url raises if max_bytes is not positive.
PrepareUpload(w) ==
    LET max_bytes == MaxBytes(AvailableBytes) IN
    /\ At(w, "prepare_upload")
    /\ IF max_bytes \in Nat \ {0}
         THEN job' = [job EXCEPT ![w].pc = "perform_create", ![w].size = max_bytes]
         ELSE Return(w)
    /\ UNCHANGED <<row, object, post>>

\* The row is inserted, and the response brings the POST to the browser.
PerformCreate(w) ==
    LET f == job[w].file IN
    /\ At(w, "perform_create")
    /\ row' = [row EXCEPT ![f] = job[w].inst]
    /\ post' = [post EXCEPT ![f] = job[w].size]
    /\ Return(w)
    /\ UNCHANGED object

\* The browser uploads; S3 holds it to the content-length-range it was signed for.
ClientUpload(f, n) ==
    /\ post[f] # 0
    /\ n <= post[f]
    /\ object' = [object EXCEPT ![f] = n]
    /\ post' = IF f \in Lingering THEN post ELSE [post EXCEPT ![f] = 0]
    /\ UNCHANGED <<row, job>>

-----------------------------------------------------------------------------
(* PATCH: the browser reports success or failure, or neither *)

\* get_object, and the serializer's validated data set on the instance.
LoadForPatch(w, f, status) ==
    /\ Live(f)
    /\ Start(w, IF status = "success" THEN "save_status" ELSE "save_once", f,
             [row[f] EXCEPT !.status = status, !.error = "none"])
    /\ UNCHANGED <<row, object, post>>

Patch(w, f) ==
    \/ LoadForPatch(w, f, "success")
    \/ LoadForPatch(w, f, "failed")
    \/ f \in Renamable /\ row[f].status # "success" /\ LoadForPatch(w, f, row[f].status)

\* instance.save(): every column, whatever the row has become meanwhile.
SaveInstance(w) ==
    /\ ~Locked(job[w].file)
    /\ row' = [row EXCEPT ![job[w].file] = job[w].inst]
    /\ UNCHANGED <<object, post>>

\* The status is committed before S3 is asked.
SaveStatus(w) ==
    /\ At(w, "save_status")
    /\ SaveInstance(w)
    /\ Goto(w, "head")

\* A bug: a missing object is taken for an upload still under way.
HeadBelievesClient(w) ==
    LET o == object[job[w].file] IN
    /\ At(w, "head")
    /\ \/ o # None /\ job' = [job EXCEPT ![w].pc = "sync", ![w].size = o]
       \/ o = None /\ Return(w)
    /\ UNCHANGED <<row, object, post>>

\* A bug: the answer of a HEAD that found nothing is used.
HeadUnchecked(w) ==
    /\ At(w, "head")
    /\ job' = [job EXCEPT ![w].pc = "sync", ![w].size = object[job[w].file]]
    /\ UNCHANGED <<row, object, post>>

Head(w) ==
    LET o == object[job[w].file] IN
    /\ At(w, "head")
    /\ \/ o # None /\ job' = [job EXCEPT ![w].pc = "sync", ![w].size = o]
       \/ o = None /\ Goto(w, "not_found")
    /\ UNCHANGED <<row, object, post>>

\* storage.head answers None for any other error too.
HeadFails(w) ==
    /\ w \in Faulty
    /\ At(w, "head")
    /\ Goto(w, "not_found")
    /\ UNCHANGED <<row, object, post>>

\* mark_as_failed(FILE_NOT_FOUND_IN_S3), and the commit; a row that is gone raises.
NotFound(w) ==
    LET f == job[w].file IN
    /\ At(w, "not_found")
    /\ ~Locked(f)
    /\ row' = IF Present(f)
                THEN [row EXCEPT ![f].status = "failed", ![f].error = "not_found"]
                ELSE row
    /\ Return(w)
    /\ UNCHANGED <<object, post>>

\* The UPDATE of the size. With the size of the instance nothing else is
\* checked and the transaction commits; otherwise it holds the row's lock on.
SyncSize(w) ==
    LET f == job[w].file
        changed == job[w].size # job[w].inst.size IN
    /\ At(w, "sync")
    /\ ~Locked(f)
    /\ row' = IF Present(f) /\ ~changed
                THEN [row EXCEPT ![f].size = job[w].size]
                ELSE row
    /\ IF Present(f) /\ changed THEN Goto(w, "check_quota") ELSE Return(w)
    /\ UNCHANGED <<object, post>>

\* is_over_quota, which sees the transaction's own UPDATE and no one else's.
CheckQuota(w) ==
    LET seen == [row EXCEPT ![job[w].file].size = job[w].size] IN
    /\ At(w, "check_quota")
    /\ Goto(w, IF Used(seen) > Limit THEN "delete_refused" ELSE "commit")
    /\ UNCHANGED <<row, object, post>>

CommitSize(w) ==
    LET f == job[w].file IN
    /\ At(w, "commit")
    /\ row' = [row EXCEPT ![f].size = job[w].size]
    /\ Return(w)
    /\ UNCHANGED <<object, post>>

\* A bug: the upload over quota is refused and stays in S3.
KeepRefused(w) ==
    /\ At(w, "delete_refused")
    /\ Goto(w, "refuse")
    /\ UNCHANGED <<row, object, post>>

DeleteRefused(w) ==
    /\ At(w, "delete_refused")
    /\ object' = [object EXCEPT ![job[w].file] = None]
    /\ Goto(w, "refuse")
    /\ UNCHANGED <<row, post>>

\* mark_as_failed(STORAGE_QUOTA_EXCEEDED), and the commit of both UPDATEs.
Refuse(w) ==
    LET f == job[w].file IN
    /\ At(w, "refuse")
    /\ row' = [row EXCEPT ![f].size = job[w].size, ![f].status = "failed", ![f].error = "quota"]
    /\ Return(w)
    /\ UNCHANGED <<object, post>>

-----------------------------------------------------------------------------
(* PUT: a new name or folder, in two saves of the same instance *)

LoadForUpdate(w, f) ==
    /\ f \in Renamable
    /\ Live(f) /\ row[f].status = "success"
    /\ Start(w, "save_twice", f, row[f])
    /\ UNCHANGED <<row, object, post>>

SaveUpdate(w) ==
    /\ At(w, "save_twice")
    /\ SaveInstance(w)
    /\ Goto(w, "save_once")

SaveLast(w) ==
    /\ At(w, "save_once")
    /\ SaveInstance(w)
    /\ Return(w)

-----------------------------------------------------------------------------
(* The bin *)

\* soft_delete on a live instance; once the file is deleted its POST is not
\* used any more, unless it lingers.
SoftDelete(f) ==
    /\ Live(f)
    /\ ~Locked(f)
    /\ row' = [row EXCEPT ![f].bin = "recent"]
    /\ post' = IF f \in Lingering THEN post ELSE [post EXCEPT ![f] = 0]
    /\ UNCHANGED <<object, job>>

Restore(f) ==
    /\ f \in Restorable
    /\ InBin(f)
    /\ ~Locked(f)
    /\ row' = [row EXCEPT ![f].bin = "no"]
    /\ UNCHANGED <<object, post, job>>

\* Thirty days pass. The clean-up computes its threshold once, so a file that
\* reaches it meanwhile counts as recent until the task has ended.
Age(f) ==
    /\ InBin(f) /\ row[f].bin = "recent"
    /\ \A c \in Celery : At(c, "idle")
    /\ ~Locked(f)
    /\ row' = [row EXCEPT ![f].bin = "old"]
    /\ UNCHANGED <<object, post, job>>

LoadForPermanent(w, f) ==
    /\ InBin(f)
    /\ Start(w, "delete_object", f, None)
    /\ UNCHANGED <<row, object, post>>

DeleteObject(w) ==
    /\ At(w, "delete_object")
    /\ object' = [object EXCEPT ![job[w].file] = None]
    /\ Goto(w, "delete_row")
    /\ UNCHANGED <<row, post>>

DeleteRow(w) ==
    LET f == job[w].file IN
    /\ At(w, "delete_row")
    /\ ~Locked(f)
    /\ row' = [row EXCEPT ![f] = NoRow]
    /\ Return(w)
    /\ UNCHANGED <<object, post>>

-----------------------------------------------------------------------------
(* The clean-up tasks: every file of the bin, or those deleted 30 days ago *)

\* What the task's query returns in the present state.
Deleted(scope) == {f \in Files : InBin(f) /\ row[f].bin \in scope}

StartPurge(c, scope) ==
    /\ At(c, "idle")
    /\ job' = [job EXCEPT ![c] = [IdleJob EXCEPT
                 !.pc = "purge_objects", !.scope = scope,
                 !.listed = Deleted(scope), !.todo = Deleted(scope)]]
    /\ UNCHANGED <<row, object, post>>

EmptyBin(c) == c \in Emptiers /\ StartPurge(c, {"recent", "old"})

\* A bug: the threshold compared the wrong way round.
DeleteRecentFiles(c) == c \in Purgers /\ StartPurge(c, {"recent"})

DeleteOldFiles(c) == c \in Purgers /\ StartPurge(c, {"old"})

PurgeObject(c, f) ==
    /\ At(c, "purge_objects")
    /\ f \in job[c].todo
    /\ object' = [object EXCEPT ![f] = None]
    /\ job' = [job EXCEPT ![c].todo = @ \ {f}]
    /\ UNCHANGED <<row, post>>

\* S3 refuses: the key is remembered and the loop goes on.
PurgeObjectFails(c, f) ==
    /\ c \in Faulty
    /\ At(c, "purge_objects")
    /\ f \in job[c].todo
    /\ job' = [job EXCEPT ![c].todo = @ \ {f}, ![c].kept = @ \cup {f}]
    /\ UNCHANGED <<row, object, post>>

\* A bug: what S3 refused to delete is forgotten with the rest.
CollectAll(c) ==
    /\ At(c, "purge_objects")
    /\ job[c].todo = {}
    /\ job' = [job EXCEPT ![c].pc = "purge_rows", ![c].todo = Deleted(job[c].scope)]
    /\ UNCHANGED <<row, object, post>>

\* deleted_files.exclude(...) is a query of its own; delete() selects its rows,
\* then deletes those by id.
CollectRows(c) ==
    /\ At(c, "purge_objects")
    /\ job[c].todo = {}
    /\ job' = [job EXCEPT ![c].pc = "purge_rows",
                          ![c].todo = Deleted(job[c].scope) \ job[c].kept]
    /\ UNCHANGED <<row, object, post>>

PurgeRows(c) ==
    /\ At(c, "purge_rows")
    /\ \A f \in job[c].todo : ~Locked(f)
    /\ row' = [f \in Files |-> IF f \in job[c].todo THEN NoRow ELSE row[f]]
    /\ Return(c)
    /\ UNCHANGED <<object, post>>

\* The process dies, S3 refuses a deletion, or another call raises: what is
\* committed stays, what a transaction wrote does not.
Fail(w) ==
    /\ w \in Faulty
    /\ ~At(w, "idle")
    /\ Return(w)
    /\ UNCHANGED <<row, object, post>>

-----------------------------------------------------------------------------
Request(w) ==
    \E f \in Files :
        \/ \E n \in Sizes : ValidateSize(w, f, n)
        \/ Patch(w, f)
        \/ LoadForUpdate(w, f)
        \/ LoadForPermanent(w, f)

Step(w) ==
    \/ PrepareUpload(w) \/ PerformCreate(w)
    \/ SaveStatus(w) \/ Head(w) \/ NotFound(w) \/ SyncSize(w)
    \/ CheckQuota(w) \/ CommitSize(w) \/ DeleteRefused(w) \/ Refuse(w)
    \/ SaveUpdate(w) \/ SaveLast(w)
    \/ DeleteObject(w) \/ DeleteRow(w)

Task(c) ==
    \/ \E f \in Files : PurgeObject(c, f)
    \/ CollectRows(c)
    \/ PurgeRows(c)

Fault(w) ==
    \/ Fail(w)
    \/ HeadFails(w)
    \/ \E f \in Files : PurgeObjectFails(w, f)

Client ==
    \E f \in Files :
        \/ \E n \in Sizes : ClientUpload(f, n)
        \/ SoftDelete(f) \/ Restore(f) \/ Age(f)

Next ==
    \/ Client
    \/ \E w \in Web : Request(w) \/ Step(w)
    \/ \E c \in Celery : EmptyBin(c) \/ DeleteOldFiles(c) \/ Task(c)
    \/ \E w \in Workers : Fault(w)

Spec == Init /\ [][Next]_vars

\* Faults cease in the end; work under way goes on, and a statement that waits
\* for a row's lock gets it in its turn; the clean-up runs every night.
Fairness ==
    /\ <>[][~\E w \in Workers : Fault(w)]_vars
    /\ \A w \in Web : SF_vars(Step(w))
    /\ \A c \in Celery : SF_vars(Task(c))
    /\ \A c \in Purgers : SF_vars(DeleteOldFiles(c))

FairSpec == Spec /\ Fairness

-----------------------------------------------------------------------------
(* Safety *)

\* Nothing that is stored, and nothing that counts against the quota, is larger
\* than the plan allows one file to be, whatever size its client declared: the
\* POST is signed for less, and the size is taken over from S3.
EachFileFits ==
    \A f \in Files :
        /\ object[f] # None => object[f] <= MaxFile
        /\ row[f].status = "success" => row[f].size <= MaxFile

\* A file that counts as uploaded, and that nobody is working on, has its object,
\* and the size that counts against the quota is the object's: status=SUCCESS is
\* committed on the client's word, and finalize makes it true, whatever ran
\* between. Without faults, clean-up tasks and full-row renames, that is.
SettledSizeIsReal ==
    \A f \in Files : Live(f) /\ row[f].status = "success" /\ ~InHand(f) => object[f] = row[f].size

\* An upload that finalize refused for the quota has no object, and none comes back.
RefusedIsGone ==
    \A f \in Files : Present(f) /\ row[f].error = "quota" => object[f] = None

\* A row is removed only when its object is gone, also if S3 refused to delete it
\* or a crash came between; save a file that came into the bin after the task
\* had listed it, which the second query finds and the first did not.
ListedLater(f) == \E c \in Celery : At(c, "purge_rows") /\ f \in job[c].todo \ job[c].listed
RowGoesWithObject ==
    [][\A f \in Files :
        Present(f) /\ row'[f].status = "absent" => object'[f] = None \/ ListedLater(f)]_vars

-----------------------------------------------------------------------------
(* Liveness, under FairSpec *)

\* A file left in the bin for 30 days is removed by the nightly clean-up, although
\* a deletion may fail and a task may die, unless the user restores it first.
BinEmpties ==
    \A f \in Files : (InBin(f) /\ row[f].bin = "old") ~> ~(InBin(f) /\ row[f].bin = "old")

-----------------------------------------------------------------------------
(* What the repository says and the code does not do *)

AllIdle == \A w \in Workers : At(w, "idle")

\* validate_size: the user "has enough available storage space for the file
\* being uploaded, based on their target plan".
StorageWithinLimit == AllIdle => Used(row) <= Limit
=============================================================================
