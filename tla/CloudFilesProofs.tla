--------------------------- MODULE CloudFilesProofs ---------------------------
(* Safety of CloudFiles for every set of files, sizes and workers and every    *)
(* plan, checked by TLAPS.                                                     *)
EXTENDS CloudFiles, TLAPS

-----------------------------------------------------------------------------
(* The shape of the state: types, sizes, and what requests hold in memory.     *)

\* Labels at which a request holds an instance it will save.
Holding == {"prepare_upload", "perform_create", "save_status", "save_twice", "save_once"}

\* An instance in memory was loaded live, or is new.
InstOK(inst) ==
    inst \in Row /\ inst.size <= MaxFile /\ inst.status # "absent"
                 /\ inst.bin = "no" /\ inst.error = "none"

FileShape(f) ==
    /\ row[f].size <= MaxFile
    /\ post[f] <= MaxFile
    /\ object[f] # None => object[f] <= MaxFile
    /\ row[f].status = "success" => row[f].error = "none"

WebShape(j) ==
    /\ j.pc # "idle" => j.file \in Files
    /\ j.size <= MaxFile
    /\ j.pc \in Holding => InstOK(j.inst)
    /\ j.listed = {} /\ j.todo = {}

Shape ==
    /\ TypeOK
    /\ \A f \in Files : FileShape(f)
    /\ \A w \in Web : WebShape(job[w])
    /\ \A c \in Celery : job[c].file = None

LEMMA InitShape == Init => Shape
  BY PlanAssumption DEF Init, Shape, TypeOK, FileShape, WebShape, Holding, IdleJob, Job, PCs,
     Row, NoRow, Workers

LEMMA IdleTyped == IdleJob \in Job /\ WebShape(IdleJob) /\ IdleJob.file = None
  BY PlanAssumption DEF IdleJob, Job, PCs, WebShape, Holding

LEMMA NoRowTyped == NoRow \in Row /\ NoRow.size <= MaxFile /\ NoRow.error = "none"
  BY PlanAssumption DEF NoRow, Row

\* A step that changes the job of one worker and, at most, one file's state.
FilesTyped ==
    /\ row' \in [Files -> Row]
    /\ object' \in [Files -> Nat \cup {None}]
    /\ post' \in [Files -> Nat]
    /\ \A f \in Files : FileShape(f)'

WebTyped(w) == \E j \in Job : WebShape(j) /\ job' = [job EXCEPT ![w] = j]
TaskTyped(c) == \E j \in Job : j.file = None /\ job' = [job EXCEPT ![c] = j]

LEMMA ShapeFrom ==
    ASSUME Shape, FilesTyped,
           \/ job' = job
           \/ \E w \in Web : WebTyped(w)
           \/ \E c \in Celery : TaskTyped(c)
    PROVE  Shape'
<1> USE ProcessAssumption DEF Workers
<1>1. CASE job' = job
  BY <1>1 DEF Shape, TypeOK, FilesTyped
<1>2. ASSUME NEW w \in Web, WebTyped(w) PROVE Shape'
  <2> PICK j \in Job : WebShape(j) /\ job' = [job EXCEPT ![w] = j]
    BY <1>2 DEF WebTyped
  <2>1. job' \in [Workers -> Job] /\ job'[w] = j /\ \A v \in Workers \ {w} : job'[v] = job[v]
    BY DEF Shape, TypeOK
  <2>2. \A v \in Web : WebShape(job'[v])
    BY <2>1 DEF Shape
  <2>3. \A v \in Web : job'[v].pc # "idle" => job'[v].file \in Files
    BY <2>2 DEF WebShape
  <2> QED BY <2>1, <2>2, <2>3 DEF Shape, TypeOK, FilesTyped
<1>3. ASSUME NEW c \in Celery, TaskTyped(c) PROVE Shape'
  <2> PICK j \in Job : j.file = None /\ job' = [job EXCEPT ![c] = j]
    BY <1>3 DEF TaskTyped
  <2>1. job' \in [Workers -> Job] /\ job'[c] = j /\ \A v \in Workers \ {c} : job'[v] = job[v]
    BY DEF Shape, TypeOK
  <2> QED BY <2>1 DEF Shape, TypeOK, FilesTyped
<1> QED BY <1>1, <1>2, <1>3

\* What a request under way is about.
LEMMA WebJob == ASSUME Shape, NEW w \in Web
                PROVE  /\ job[w] \in Job /\ WebShape(job[w])
                       /\ ~At(w, "idle") => job[w].file \in Files
  BY DEF Shape, TypeOK, Workers, WebShape, At

LEMMA SaveTyped == ASSUME Shape, NEW w \in Web, SaveInstance(w), job[w].pc \in Holding
                   PROVE  FilesTyped
<1>1. /\ job[w].file \in Files
      /\ InstOK(job[w].inst)
  BY WebJob DEF WebShape, Holding, At
<1> QED BY <1>1 DEF Shape, TypeOK, SaveInstance, FilesTyped, FileShape, InstOK

LEMMA StepTyped == ASSUME Shape, NEW w \in Web, Step(w) PROVE FilesTyped /\ WebTyped(w)
<1> DEFINE f == job[w].file
<1>1. SUFFICES ASSUME ~At(w, "idle") PROVE FilesTyped /\ WebTyped(w)
  BY DEF Step, At, PrepareUpload, PerformCreate, SaveStatus, Head, NotFound, SyncSize, CheckQuota,
     CommitSize, DeleteRefused, Refuse, SaveUpdate, SaveLast, DeleteObject, DeleteRow
<1>2. /\ job[w] \in Job /\ WebShape(job[w]) /\ f \in Files
      /\ job \in [Workers -> Job] /\ w \in Workers
      /\ row \in [Files -> Row] /\ row[f] \in Row /\ row[f].size <= MaxFile
      /\ object \in [Files -> Nat \cup {None}] /\ post \in [Files -> Nat]
      /\ \A g \in Files : FileShape(g)
      /\ job[w].size \in Nat /\ job[w].size <= MaxFile
  <2>1. job[w] \in Job /\ WebShape(job[w]) /\ f \in Files
    BY <1>1, WebJob
  <2> QED BY <2>1 DEF Shape, TypeOK, FileShape, WebShape, Job, Workers
<1>3. ASSUME NEW l \in PCs, l \notin Holding, Goto(w, l) PROVE WebTyped(w)
  <2>1. [job[w] EXCEPT !.pc = l] \in Job /\ WebShape([job[w] EXCEPT !.pc = l])
    BY <1>1, <1>2, <1>3 DEF Job, WebShape, At
  <2> QED BY <1>2, <1>3, <2>1 DEF Goto, WebTyped
<1>4. ASSUME Return(w) PROVE WebTyped(w)
  BY <1>4, IdleTyped DEF Return, WebTyped
<1>5. ASSUME UNCHANGED <<row, object, post>> PROVE FilesTyped
  BY <1>2, <1>5 DEF FilesTyped, FileShape
<1>6. ASSUME NEW r \in Row, r.size <= MaxFile, r.status = "success" => r.error = "none",
             row' = [row EXCEPT ![f] = r], UNCHANGED <<object, post>>
      PROVE  FilesTyped
  BY <1>2, <1>6 DEF FilesTyped, FileShape
<1>7. ASSUME object' = [object EXCEPT ![f] = None], UNCHANGED <<row, post>> PROVE FilesTyped
  BY <1>2, <1>7, NoneAssumption DEF FilesTyped, FileShape
<1>8. CASE PrepareUpload(w)
  <2> DEFINE n == MaxBytes(AvailableBytes)
             j == [job[w] EXCEPT !.pc = "perform_create", !.size = n]
  <2>1. CASE n \in Nat \ {0}
    <3>1. n <= MaxFile
      BY <2>1, PlanAssumption DEF MaxBytes
    <3>2. j \in Job /\ WebShape(j)
      BY <1>2, <1>8, <2>1, <3>1 DEF PrepareUpload, At, Job, PCs, WebShape, Holding
    <3>3. job' = [job EXCEPT ![w] = j]
      BY <1>2, <1>8, <2>1 DEF PrepareUpload
    <3> QED BY <1>5, <1>8, <3>2, <3>3 DEF PrepareUpload, WebTyped
  <2> QED BY <1>4, <1>5, <1>8, <2>1 DEF PrepareUpload
<1>9. CASE PerformCreate(w)
  <2>1. InstOK(job[w].inst)
    BY <1>2, <1>9 DEF PerformCreate, At, WebShape, Holding
  <2>2. FilesTyped
    BY <1>2, <1>9, <2>1 DEF PerformCreate, FilesTyped, FileShape, InstOK
  <2> QED BY <1>4, <1>9, <2>2 DEF PerformCreate
<1>10. CASE SaveStatus(w)
  BY <1>3, <1>10, SaveTyped DEF SaveStatus, At, Holding, PCs
<1>11. CASE Head(w)
  <2>1. CASE Goto(w, "not_found")
    BY <1>3, <1>5, <1>11, <2>1 DEF Head, PCs, Holding
  <2>2. CASE object[f] # None /\ job' = [job EXCEPT ![w].pc = "sync", ![w].size = object[f]]
    <3> DEFINE j == [job[w] EXCEPT !.pc = "sync", !.size = object[f]]
    <3>1. object[f] \in Nat /\ object[f] <= MaxFile
      BY <1>2, <2>2 DEF FileShape
    <3>2. j \in Job /\ WebShape(j)
      BY <1>2, <1>11, <3>1 DEF Head, At, Job, PCs, WebShape, Holding
    <3>3. job' = [job EXCEPT ![w] = j]
      BY <1>2, <2>2
    <3> QED BY <1>5, <1>11, <3>2, <3>3 DEF Head, WebTyped
  <2> QED BY <1>11, <2>1, <2>2 DEF Head
<1>12. CASE NotFound(w)
  <2> DEFINE r == [row[f] EXCEPT !.status = "failed", !.error = "not_found"]
  <2>1. r \in Row /\ r.size <= MaxFile /\ r.status # "success"
    BY <1>2 DEF Row
  <2>2. CASE Present(f)
    <3>1. row' = [row EXCEPT ![f] = r]
      BY <1>2, <1>12, <2>2 DEF NotFound
    <3> QED BY <1>4, <1>6, <1>12, <2>1, <3>1 DEF NotFound
  <2> QED BY <1>4, <1>5, <1>12, <2>2 DEF NotFound
<1>13. ASSUME row' = [row EXCEPT ![f].size = job[w].size], UNCHANGED <<object, post>>
       PROVE  FilesTyped
  <2> DEFINE r == [row[f] EXCEPT !.size = job[w].size]
  <2>1. r \in Row /\ r.size <= MaxFile /\ (r.status = "success" => r.error = "none")
    BY <1>2 DEF Row, FileShape
  <2>2. row' = [row EXCEPT ![f] = r]
    BY <1>2, <1>13
  <2> QED BY <1>6, <1>13, <2>1, <2>2
<1>14. CASE SyncSize(w)
  <2>1. FilesTyped
    BY <1>5, <1>13, <1>14 DEF SyncSize
  <2>2. WebTyped(w)
    BY <1>3, <1>4, <1>14 DEF SyncSize, PCs, Holding
  <2> QED BY <2>1, <2>2
<1>15. CASE CheckQuota(w)
  <2>1. (IF Used([row EXCEPT ![f].size = job[w].size]) > Limit THEN "delete_refused" ELSE "commit")
          \in PCs \ Holding
    BY DEF PCs, Holding
  <2> QED BY <1>3, <1>5, <1>15, <2>1 DEF CheckQuota
<1>16. CASE CommitSize(w)
  BY <1>4, <1>13, <1>16 DEF CommitSize
<1>17. CASE DeleteRefused(w)
  BY <1>3, <1>7, <1>17 DEF DeleteRefused, PCs, Holding
<1>18. CASE Refuse(w)
  <2> DEFINE r == [row[f] EXCEPT !.size = job[w].size, !.status = "failed", !.error = "quota"]
  <2>1. r \in Row /\ r.size <= MaxFile /\ r.status # "success"
    BY <1>2 DEF Row
  <2>2. row' = [row EXCEPT ![f] = r]
    BY <1>2, <1>18 DEF Refuse
  <2> QED BY <1>4, <1>6, <1>18, <2>1, <2>2 DEF Refuse
<1>19. CASE SaveUpdate(w)
  <2> DEFINE j == [job[w] EXCEPT !.pc = "save_once"]
  <2>1. j \in Job /\ WebShape(j)
    BY <1>2, <1>19 DEF SaveUpdate, At, Job, PCs, WebShape, Holding
  <2>2. job' = [job EXCEPT ![w] = j]
    BY <1>2, <1>19 DEF SaveUpdate, Goto
  <2>3. FilesTyped
    BY <1>19, SaveTyped DEF SaveUpdate, At, Holding
  <2> QED BY <2>1, <2>2, <2>3 DEF WebTyped
<1>20. CASE SaveLast(w)
  BY <1>4, <1>20, SaveTyped DEF SaveLast, At, Holding
<1>21. CASE DeleteObject(w)
  BY <1>3, <1>7, <1>21 DEF DeleteObject, PCs, Holding
<1>22. CASE DeleteRow(w)
  BY <1>4, <1>6, <1>22, NoRowTyped DEF DeleteRow
<1> QED BY <1>8, <1>9, <1>10, <1>11, <1>12, <1>14, <1>15, <1>16, <1>17, <1>18, <1>19, <1>20,
     <1>21, <1>22 DEF Step

LEMMA StartTyped ==
    ASSUME Shape, NEW w \in Web, NEW l \in PCs, NEW f \in Files, NEW inst \in Row \cup {None},
           l \in Holding => InstOK(inst), Start(w, l, f, inst)
    PROVE  WebTyped(w)
<1> DEFINE j == [IdleJob EXCEPT !.pc = l, !.file = f, !.inst = inst]
<1>1. /\ j.pc = l /\ j.file = f /\ j.inst = inst /\ j.size = 0 /\ j.listed = {} /\ j.todo = {}
      /\ j \in Job
  BY DEF IdleJob, Job
<1>2. WebShape(j)
  BY <1>1, PlanAssumption DEF WebShape
<1> QED BY <1>1, <1>2 DEF Start, WebTyped

LEMMA RequestTyped == ASSUME Shape, NEW w \in Web, Request(w) PROVE FilesTyped /\ WebTyped(w)
<1>1. PICK f \in Files :
        \/ \E n \in Sizes : ValidateSize(w, f, n)
        \/ Patch(w, f)
        \/ LoadForUpdate(w, f)
        \/ LoadForPermanent(w, f)
  BY DEF Request
<1>2. UNCHANGED <<row, object, post>>
  BY <1>1 DEF ValidateSize, Patch, LoadForPatch, LoadForUpdate, LoadForPermanent
<1>3. FilesTyped
  BY <1>2 DEF Shape, TypeOK, FilesTyped, FileShape
<1>4. row[f] \in Row /\ FileShape(f)
  BY DEF Shape, TypeOK
<1>5. ASSUME NEW n \in Sizes, ValidateSize(w, f, n) PROVE WebTyped(w)
  <2> DEFINE inst == [status |-> "pending", size |-> n, bin |-> "no", error |-> "none"]
  <2>1. InstOK(inst) /\ Start(w, "prepare_upload", f, inst)
    BY <1>5, PlanAssumption DEF ValidateSize, InstOK, Row
  <2> QED BY <2>1, StartTyped DEF PCs, InstOK
<1>6. ASSUME NEW s \in {"pending", "success", "failed"}, LoadForPatch(w, f, s) PROVE WebTyped(w)
  <2> DEFINE inst == [row[f] EXCEPT !.status = s, !.error = "none"]
             l == IF s = "success" THEN "save_status" ELSE "save_once"
  <2>1. InstOK(inst) /\ l \in PCs
    BY <1>4, <1>6 DEF LoadForPatch, Live, InstOK, Row, FileShape, PCs
  <2>2. Start(w, l, f, inst)
    BY <1>6 DEF LoadForPatch
  <2> QED BY <2>1, <2>2, StartTyped DEF InstOK
<1>7. CASE Patch(w, f)
  <2>1. CASE LoadForPatch(w, f, row[f].status)
    <3>1. row[f].status \in {"pending", "success", "failed"}
      BY <1>4, <2>1 DEF LoadForPatch, Live, Present, Row
    <3> QED BY <1>3, <1>6, <2>1, <3>1
  <2> QED BY <1>3, <1>6, <1>7, <2>1 DEF Patch
<1>8. CASE LoadForUpdate(w, f)
  <2>1. InstOK(row[f]) /\ Start(w, "save_twice", f, row[f])
    BY <1>4, <1>8 DEF LoadForUpdate, Live, Present, InstOK, FileShape
  <2> QED BY <1>3, <1>4, <2>1, StartTyped DEF PCs
<1>9. CASE LoadForPermanent(w, f)
  <2>1. Start(w, "delete_object", f, None)
    BY <1>9 DEF LoadForPermanent
  <2> QED BY <1>3, <2>1, StartTyped DEF PCs, Holding
<1> QED BY <1>1, <1>3, <1>5, <1>7, <1>8, <1>9

\* Celery jobs, by the fields the tasks use.
LEMMA TasksTyped ==
    ASSUME Shape, NEW c \in Celery, EmptyBin(c) \/ DeleteOldFiles(c) \/ Task(c)
    PROVE  FilesTyped /\ TaskTyped(c)
<1>1. /\ job[c] \in Job /\ job[c].file = None /\ job \in [Workers -> Job] /\ c \in Workers
      /\ row \in [Files -> Row] /\ object \in [Files -> Nat \cup {None}]
      /\ post \in [Files -> Nat] /\ \A g \in Files : FileShape(g)
  BY DEF Shape, TypeOK, Workers
<1>2. ASSUME UNCHANGED <<row, object, post>> PROVE FilesTyped
  BY <1>1, <1>2 DEF FilesTyped, FileShape
<1>3. ASSUME NEW scope \in SUBSET {"recent", "old"}, StartPurge(c, scope)
      PROVE  FilesTyped /\ TaskTyped(c)
  <2> DEFINE j == [IdleJob EXCEPT !.pc = "purge_objects", !.scope = scope,
                                  !.listed = Deleted(scope), !.todo = Deleted(scope)]
  <2>1. Deleted(scope) \in SUBSET Files
    BY DEF Deleted
  <2>2. j \in Job /\ j.file = None
    BY <2>1 DEF IdleJob, Job, PCs
  <2> QED BY <1>2, <1>3, <2>2 DEF StartPurge, TaskTyped
<1>4. ASSUME NEW f \in Files, PurgeObject(c, f) PROVE FilesTyped /\ TaskTyped(c)
  <2> DEFINE j == [job[c] EXCEPT !.todo = @ \ {f}]
  <2>1. j \in Job /\ j.file = None
    BY <1>1 DEF Job
  <2>2. job' = [job EXCEPT ![c] = j]
    BY <1>1, <1>4 DEF PurgeObject
  <2>3. FilesTyped
    BY <1>1, <1>4, NoneAssumption DEF PurgeObject, FilesTyped, FileShape
  <2> QED BY <2>1, <2>2, <2>3 DEF TaskTyped
<1>5. CASE CollectRows(c)
  <2> DEFINE rows == Deleted(job[c].scope) \ job[c].kept
             j == [job[c] EXCEPT !.pc = "purge_rows", !.todo = rows]
  <2>1. rows \in SUBSET Files
    BY DEF Deleted
  <2>2. job' = [job EXCEPT ![c] = j]
    BY <1>1, <1>5 DEF CollectRows
  <2>3. j \in Job /\ j.file = None
    <3> HIDE DEF rows
    <3> QED BY <1>1, <2>1 DEF Job, PCs
  <2> QED BY <1>2, <1>5, <2>2, <2>3 DEF TaskTyped, CollectRows
<1>6. CASE PurgeRows(c)
  <2>1. FilesTyped
    BY <1>1, <1>6, PlanAssumption DEF PurgeRows, FilesTyped, FileShape, Row, NoRow
  <2> QED BY <1>6, <2>1, IdleTyped DEF PurgeRows, Return, TaskTyped
<1> QED BY <1>3, <1>4, <1>5, <1>6 DEF EmptyBin, DeleteOldFiles, Task

LEMMA ClientTyped == ASSUME Shape, Client PROVE FilesTyped /\ job' = job
<1>1. /\ row \in [Files -> Row] /\ object \in [Files -> Nat \cup {None}]
      /\ post \in [Files -> Nat] /\ \A g \in Files : FileShape(g)
  BY DEF Shape, TypeOK
<1>2. PICK f \in Files :
        \/ \E n \in Sizes : ClientUpload(f, n)
        \/ SoftDelete(f) \/ Restore(f) \/ Age(f)
  BY DEF Client
<1>3. ASSUME NEW n \in Sizes, ClientUpload(f, n) PROVE FilesTyped /\ job' = job
  <2>1. n \in Nat /\ n <= MaxFile
    BY <1>1, <1>3, PlanAssumption DEF ClientUpload, FileShape
  <2>2. /\ object' = [object EXCEPT ![f] = n]
        /\ post' = post \/ post' = [post EXCEPT ![f] = 0]
        /\ row' = row
    BY <1>3 DEF ClientUpload
  <2> QED BY <1>1, <1>3, <2>1, <2>2, PlanAssumption DEF ClientUpload, FilesTyped, FileShape
<1>4. ASSUME NEW b \in {"no", "recent", "old"}, row' = [row EXCEPT ![f].bin = b],
             post' = post \/ post' = [post EXCEPT ![f] = 0], UNCHANGED object
      PROVE  FilesTyped
  <2> DEFINE r == [row[f] EXCEPT !.bin = b]
  <2>1. r \in Row /\ r.size <= MaxFile /\ (r.status = "success" => r.error = "none")
    BY <1>1 DEF Row, FileShape
  <2>2. row' = [row EXCEPT ![f] = r]
    BY <1>1, <1>4
  <2> QED BY <1>1, <1>4, <2>1, <2>2, PlanAssumption DEF FilesTyped, FileShape
<1>5. CASE SoftDelete(f) \/ Restore(f) \/ Age(f)
  <2>1. \E b \in {"no", "recent", "old"} :
          /\ row' = [row EXCEPT ![f].bin = b]
          /\ post' = post \/ post' = [post EXCEPT ![f] = 0]
          /\ UNCHANGED <<object, job>>
    BY <1>5 DEF SoftDelete, Restore, Age
  <2> QED BY <1>4, <2>1
<1> QED BY <1>2, <1>3, <1>5

\* A fault changes the job of its worker and nothing else.
LEMMA FaultTyped ==
    ASSUME Shape, NEW w \in Workers, Fault(w)
    PROVE  FilesTyped /\ UNCHANGED <<row, object, post>>
                      /\ (w \in Web => WebTyped(w)) /\ (w \in Celery => TaskTyped(w))
<1>1. /\ job[w] \in Job /\ job \in [Workers -> Job]
      /\ w \in Web => WebShape(job[w])
      /\ w \in Celery => job[w].file = None
  BY DEF Shape, TypeOK
<1>2. UNCHANGED <<row, object, post>>
  BY DEF Fault, Fail, HeadFails, PurgeObjectFails
<1>3. FilesTyped
  BY <1>2 DEF Shape, TypeOK, FilesTyped, FileShape
<1>4. CASE Fail(w)
  BY <1>2, <1>3, <1>4, IdleTyped DEF Fail, Return, WebTyped, TaskTyped
<1>5. CASE HeadFails(w)
  <2> DEFINE j == [job[w] EXCEPT !.pc = "not_found"]
  <2>1. j \in Job /\ (w \in Web => WebShape(j)) /\ (w \in Celery => j.file = None)
    BY <1>1, <1>5 DEF HeadFails, At, Job, PCs, WebShape, Holding
  <2>2. job' = [job EXCEPT ![w] = j]
    BY <1>1, <1>5 DEF HeadFails, Goto
  <2> QED BY <1>2, <1>3, <2>1, <2>2 DEF WebTyped, TaskTyped
<1>6. ASSUME NEW f \in Files, PurgeObjectFails(w, f)
      PROVE  (w \in Web => WebTyped(w)) /\ (w \in Celery => TaskTyped(w))
  <2> DEFINE j == [job[w] EXCEPT !.todo = @ \ {f}, !.kept = @ \cup {f}]
  <2>1. j \in Job /\ (w \in Web => WebShape(j)) /\ (w \in Celery => j.file = None)
    BY <1>1, <1>6 DEF PurgeObjectFails, At, Job, PCs, WebShape, Holding
  <2>2. job' = [job EXCEPT ![w] = j]
    BY <1>1, <1>6 DEF PurgeObjectFails
  <2> QED BY <2>1, <2>2 DEF WebTyped, TaskTyped
<1> QED BY <1>2, <1>3, <1>4, <1>5, <1>6 DEF Fault

LEMMA ShapeStep == Shape /\ [Next]_vars => Shape'
<1> SUFFICES ASSUME Shape, [Next]_vars PROVE Shape'
  OBVIOUS
<1>1. CASE Client
  BY <1>1, ClientTyped, ShapeFrom
<1>2. ASSUME NEW w \in Web, Request(w) \/ Step(w) PROVE Shape'
  BY <1>2, RequestTyped, StepTyped, ShapeFrom
<1>3. ASSUME NEW c \in Celery, EmptyBin(c) \/ DeleteOldFiles(c) \/ Task(c) PROVE Shape'
  BY <1>3, TasksTyped, ShapeFrom
<1>4. ASSUME NEW w \in Workers, Fault(w) PROVE Shape'
  BY <1>4, FaultTyped, ShapeFrom DEF Workers
<1>5. CASE UNCHANGED vars
  BY <1>5 DEF vars, Shape, TypeOK, FileShape
<1> QED BY <1>1, <1>2, <1>3, <1>4, <1>5 DEF Next

LEMMA ShapeCorrect == Spec => []Shape
  BY InitShape, ShapeStep, PTL DEF Spec

\* Every state is of its type.
THEOREM TypeCorrect == Spec => []TypeOK
  BY ShapeCorrect, PTL DEF Shape

\* No object, and nothing that counts, is larger than the plan's limit for one file.
THEOREM SizesCorrect == Spec => []EachFileFits
<1>1. Shape => EachFileFits
  BY DEF Shape, FileShape, EachFileFits
<1> QED BY <1>1, ShapeCorrect, PTL

-----------------------------------------------------------------------------
(* Who may still write an object.  These parts need Lingering = {}: a POST is   *)
(* used once, and not after the file's deletion.                                *)

Creating == {"prepare_upload", "perform_create"}
Answered == {"sync", "check_quota", "commit", "delete_refused", "refuse"}

\* No other work is about the file w is creating.
Alone(w) ==
    /\ \A v \in Web \ {w} : job[v].file # job[w].file
    /\ \A c \in Celery : job[w].file \notin job[c].listed \cup job[c].todo

FileGuarded(f) ==
    /\ post[f] # 0 => Live(f) /\ object[f] = None
    /\ row[f].error = "quota" => post[f] = 0 /\ object[f] = None

WebGuarded(w) ==
    LET j == job[w]
        f == j.file IN
    /\ j.pc \in Creating => ~Present(f) /\ object[f] = None /\ post[f] = 0 /\ Alone(w)
    /\ j.pc \in Answered => post[f] = 0 /\ object[f] \in {None, j.size}
    /\ j.pc = "refuse" => object[f] = None
    /\ j.pc \in {"delete_object", "delete_row"} => post[f] = 0
    /\ j.pc = "delete_row" => object[f] = None

TaskGuarded(c) ==
    LET j == job[c] IN
    /\ \A f \in j.listed \cup j.todo : post[f] = 0
    /\ j.pc = "purge_objects" => \A f \in j.listed \ (j.todo \cup j.kept) : object[f] = None
    /\ j.pc = "purge_rows" => \A f \in j.listed \cap j.todo : object[f] = None

Guarded ==
    /\ \A f \in Files : FileGuarded(f)
    /\ \A w \in Web : WebGuarded(w)
    /\ \A c \in Celery : TaskGuarded(c)

LEMMA InitGuarded == Init => Guarded
<1> SUFFICES ASSUME Init PROVE Guarded
  OBVIOUS
<1>1. \A w \in Workers : job[w] = IdleJob
  BY DEF Init
<1>2. \A f \in Files : FileGuarded(f)
  BY DEF Init, FileGuarded, NoRow
<1>3. \A w \in Web : WebGuarded(w)
  BY <1>1 DEF Workers, WebGuarded, IdleJob, Creating, Answered
<1>4. \A c \in Celery : TaskGuarded(c)
  BY <1>1 DEF Workers, TaskGuarded, IdleJob
<1> QED BY <1>2, <1>3, <1>4 DEF Guarded

\* The guards of a worker survive a step of another that uploads nothing and
\* creates no row under it.
Withdrawn(f) == object'[f] \in {object[f], None} /\ (post[f] = 0 => post'[f] = 0)

LEMMA WebKept ==
    ASSUME NEW w \in Web, WebGuarded(w), job'[w] = job[w],
           job[w].pc # "idle" => Withdrawn(job[w].file),
           job[w].pc \in Creating => row'[job[w].file] = row[job[w].file] /\ Alone(w)'
    PROVE  WebGuarded(w)'
  BY DEF WebGuarded, Withdrawn, Creating, Answered, Present

LEMMA TaskKept ==
    ASSUME NEW c \in Celery, TaskGuarded(c), job'[c] = job[c],
           \A f \in job[c].listed \cup job[c].todo : Withdrawn(f)
    PROVE  TaskGuarded(c)'
  BY DEF TaskGuarded, Withdrawn

\* What a step of a request leaves alone.
StepFrame(w) ==
    LET f == job[w].file IN
    /\ f \in Files
    /\ \A v \in Workers \ {w} : job'[v] = job[v]
    /\ \A g \in Files \ {f} : row'[g] = row[g] /\ object'[g] = object[g] /\ post'[g] = post[g]
    /\ job'[w].file \in {f, None}
    /\ object'[f] \in {object[f], None}
    /\ post'[f] = post[f] \/ At(w, "perform_create")

LEMMA StepFrames == ASSUME Shape, NEW w \in Web, Step(w) PROVE StepFrame(w)
<1>1. SUFFICES ASSUME ~At(w, "idle") PROVE StepFrame(w)
  BY DEF Step, At, PrepareUpload, PerformCreate, SaveStatus, Head, NotFound, SyncSize, CheckQuota,
     CommitSize, DeleteRefused, Refuse, SaveUpdate, SaveLast, DeleteObject, DeleteRow
<1> DEFINE f == job[w].file
<1>2. /\ f \in Files /\ w \in Workers
      /\ job \in [Workers -> Job] /\ row \in [Files -> Row]
      /\ object \in [Files -> Nat \cup {None}] /\ post \in [Files -> Nat]
  BY <1>1, WebJob DEF Shape, TypeOK, Workers
<1>3. ASSUME Return(w) PROVE job'[w].file = None /\ \A v \in Workers \ {w} : job'[v] = job[v]
  BY <1>2, <1>3 DEF Return, IdleJob
<1>4. ASSUME NEW l, Goto(w, l) PROVE job'[w].file = f /\ \A v \in Workers \ {w} : job'[v] = job[v]
  BY <1>2, <1>4 DEF Goto, Job
<1>5. ASSUME NEW l, NEW n, job' = [job EXCEPT ![w].pc = l, ![w].size = n]
      PROVE  job'[w].file = f /\ \A v \in Workers \ {w} : job'[v] = job[v]
  BY <1>2, <1>5 DEF Job
<1> USE DEF StepFrame
<1>6. CASE PrepareUpload(w)
  BY <1>2, <1>3, <1>5, <1>6 DEF PrepareUpload
<1>7. CASE PerformCreate(w)
  BY <1>2, <1>3, <1>7 DEF PerformCreate
<1>8. CASE SaveStatus(w) \/ SaveUpdate(w) \/ SaveLast(w)
  BY <1>2, <1>3, <1>4, <1>8 DEF SaveStatus, SaveUpdate, SaveLast, SaveInstance
<1>9. CASE Head(w)
  BY <1>2, <1>4, <1>5, <1>9 DEF Head
<1>10. CASE NotFound(w) \/ CommitSize(w) \/ Refuse(w) \/ DeleteRow(w)
  BY <1>2, <1>3, <1>10 DEF NotFound, CommitSize, Refuse, DeleteRow
<1>11. CASE SyncSize(w)
  BY <1>2, <1>3, <1>4, <1>11 DEF SyncSize
<1>12. CASE CheckQuota(w)
  BY <1>2, <1>4, <1>12 DEF CheckQuota
<1>13. CASE DeleteRefused(w) \/ DeleteObject(w)
  BY <1>2, <1>4, <1>13 DEF DeleteRefused, DeleteObject
<1> QED BY <1>6, <1>7, <1>8, <1>9, <1>10, <1>11, <1>12, <1>13 DEF Step

\* The guards of a step's own worker and file.
LEMMA StepOwn ==
    ASSUME Shape, Guarded, NEW w \in Web, Step(w), NEW f, f = job[w].file
    PROVE  FileGuarded(f)' /\ WebGuarded(w)'
<1>1. StepFrame(w) /\ f \in Files
  BY StepFrames DEF StepFrame
<1>2. /\ job[w] \in Job /\ WebShape(job[w]) /\ w \in Workers
      /\ job \in [Workers -> Job] /\ row \in [Files -> Row]
      /\ object \in [Files -> Nat \cup {None}] /\ post \in [Files -> Nat]
      /\ FileShape(f)
  BY <1>1, WebJob DEF Shape, TypeOK, Workers
<1>3. FileGuarded(f) /\ WebGuarded(w)
  BY <1>1 DEF Guarded
<1>4. ASSUME Return(w) PROVE WebGuarded(w)'
  BY <1>2, <1>4 DEF Return, IdleJob, WebGuarded, Creating, Answered
<1>5. ASSUME NEW l, Goto(w, l),
             l \notin Creating \cup Answered \cup {"delete_object", "delete_row"}
      PROVE  WebGuarded(w)'
  BY <1>2, <1>5 DEF Goto, WebGuarded, Creating, Answered, Job
<1>6. ASSUME job'[w].pc \in Answered \ {"refuse"}, job'[w].file = f,
             post[f] = 0, post' = post, object' = object, object[f] \in {None, job'[w].size}
      PROVE  WebGuarded(w)'
  BY <1>6 DEF WebGuarded, Creating, Answered
<1>7. ASSUME SaveInstance(w), job[w].pc \in Holding PROVE FileGuarded(f)'
  BY <1>1, <1>2, <1>3, <1>7 DEF SaveInstance, WebShape, InstOK, FileGuarded, Live, Present
<1>8. CASE PrepareUpload(w)
  <2>1. FileGuarded(f)'
    BY <1>3, <1>8 DEF PrepareUpload, FileGuarded, Live, Present
  <2>2. CASE Return(w)
    BY <1>4, <2>1, <2>2
  <2>3. CASE job' = [job EXCEPT ![w].pc = "perform_create", ![w].size = MaxBytes(AvailableBytes)]
    <3>1. Alone(w)'
      BY <1>1, <1>2, <1>3, <1>8, <2>3 DEF PrepareUpload, At, WebGuarded, Creating, Alone, StepFrame,
         Workers, Job
    <3>2. job'[w].pc = "perform_create" /\ job'[w].file = f
      BY <1>2, <2>3 DEF Job
    <3> QED BY <1>3, <1>8, <2>1, <3>1, <3>2
            DEF PrepareUpload, At, WebGuarded, Creating, Answered, Present
  <2> QED BY <1>8, <2>2, <2>3 DEF PrepareUpload
<1>9. CASE PerformCreate(w)
  <2>1. row'[f] = job[w].inst /\ InstOK(job[w].inst) /\ object'[f] = None
    BY <1>1, <1>2, <1>3, <1>9 DEF PerformCreate, At, WebShape, Holding, WebGuarded, Creating
  <2>2. FileGuarded(f)'
    BY <2>1 DEF FileGuarded, InstOK, Live, Present
  <2> QED BY <1>4, <1>9, <2>2 DEF PerformCreate
<1>10. CASE SaveStatus(w)
  BY <1>5, <1>7, <1>10 DEF SaveStatus, At, Holding, Creating, Answered
<1>11. CASE SaveUpdate(w)
  BY <1>5, <1>7, <1>11 DEF SaveUpdate, At, Holding, Creating, Answered
<1>12. CASE SaveLast(w)
  BY <1>4, <1>7, <1>12 DEF SaveLast, At, Holding
<1>13. CASE Head(w)
  <2>1. FileGuarded(f)'
    BY <1>3, <1>13 DEF Head, FileGuarded, Live, Present
  <2>2. CASE object[f] # None /\ job' = [job EXCEPT ![w].pc = "sync", ![w].size = object[f]]
    <3>1. post[f] = 0
      BY <1>3, <2>2 DEF FileGuarded
    <3>2. job'[w].pc = "sync" /\ job'[w].file = f /\ job'[w].size = object[f]
      BY <1>2, <2>2 DEF Job
    <3> QED BY <1>6, <1>13, <2>1, <2>2, <3>1, <3>2 DEF Head, Answered
  <2>3. CASE Goto(w, "not_found")
    BY <1>5, <2>1, <2>3 DEF Creating, Answered
  <2> QED BY <1>13, <2>2, <2>3 DEF Head
<1>14. CASE NotFound(w)
  <2>1. FileGuarded(f)'
    BY <1>1, <1>2, <1>3, <1>14 DEF NotFound, FileGuarded, Live, Present
  <2> QED BY <1>4, <1>14, <2>1 DEF NotFound
<1>15. CASE SyncSize(w)
  <2>1. FileGuarded(f)'
    BY <1>1, <1>2, <1>3, <1>15 DEF SyncSize, FileGuarded, Live, Present
  <2>2. CASE Goto(w, "check_quota")
    <3>1. job'[w].pc = "check_quota" /\ job'[w].file = f /\ job'[w].size = job[w].size
      BY <1>2, <2>2 DEF Goto, Job
    <3>2. post[f] = 0 /\ object[f] \in {None, job[w].size}
      BY <1>3, <1>15 DEF SyncSize, At, WebGuarded, Answered
    <3> QED BY <1>6, <1>15, <2>1, <3>1, <3>2 DEF SyncSize, Answered
  <2> QED BY <1>4, <1>15, <2>1, <2>2 DEF SyncSize
<1>16. CASE CheckQuota(w)
  <2>1. FileGuarded(f)'
    BY <1>3, <1>16 DEF CheckQuota, FileGuarded, Live, Present
  <2>2. PICK l \in {"delete_refused", "commit"} : Goto(w, l)
    BY <1>16 DEF CheckQuota
  <2>3. job'[w].pc = l /\ job'[w].file = f /\ job'[w].size = job[w].size
    BY <1>2, <2>2 DEF Goto, Job
  <2>4. post[f] = 0 /\ object[f] \in {None, job[w].size}
    BY <1>3, <1>16 DEF CheckQuota, At, WebGuarded, Answered
  <2> QED BY <1>6, <1>16, <2>1, <2>3, <2>4 DEF CheckQuota, Answered
<1>17. CASE CommitSize(w)
  <2>1. FileGuarded(f)'
    BY <1>1, <1>2, <1>3, <1>17 DEF CommitSize, FileGuarded, Live, Present
  <2> QED BY <1>4, <1>17, <2>1 DEF CommitSize
<1>18. CASE DeleteRefused(w)
  <2>1. object'[f] = None /\ post'[f] = 0 /\ row' = row
    BY <1>1, <1>2, <1>3, <1>18 DEF DeleteRefused, At, WebGuarded, Answered
  <2>2. job'[w].pc = "refuse" /\ job'[w].file = f
    BY <1>2, <1>18 DEF DeleteRefused, Goto, Job
  <2> QED BY <2>1, <2>2 DEF FileGuarded, WebGuarded, Creating, Answered
<1>19. CASE Refuse(w)
  <2>1. FileGuarded(f)'
    BY <1>3, <1>19 DEF Refuse, At, WebGuarded, Answered, FileGuarded
  <2> QED BY <1>4, <1>19, <2>1 DEF Refuse
<1>20. CASE DeleteObject(w)
  <2>1. object'[f] = None /\ post'[f] = 0 /\ row' = row
    BY <1>1, <1>2, <1>3, <1>20 DEF DeleteObject, At, WebGuarded
  <2>2. job'[w].pc = "delete_row" /\ job'[w].file = f
    BY <1>2, <1>20 DEF DeleteObject, Goto, Job
  <2> QED BY <2>1, <2>2 DEF FileGuarded, WebGuarded, Creating, Answered
<1>21. CASE DeleteRow(w)
  <2>1. FileGuarded(f)'
    BY <1>1, <1>2, <1>3, <1>21 DEF DeleteRow, At, WebGuarded, FileGuarded, NoRow
  <2> QED BY <1>4, <1>21, <2>1 DEF DeleteRow
<1> QED BY <1>8, <1>9, <1>10, <1>11, <1>12, <1>13, <1>14, <1>15, <1>16, <1>17, <1>18, <1>19,
           <1>20, <1>21 DEF Step

\* A step of w keeps the guards if it keeps its own, withdraws objects and posts
\* only, and does not turn to a file that another worker is creating.
Away(v, w) ==
    job[v].pc \in Creating =>
        /\ row'[job[v].file] = row[job[v].file]
        /\ job'[w].file # job[v].file
        /\ job[v].file \notin job'[w].listed \cup job'[w].todo

LEMMA GuardedFrom ==
    ASSUME Shape, Guarded, NEW w \in Workers,
           \A v \in Workers \ {w} : job'[v] = job[v],
           \A f \in Files : Withdrawn(f) \/ \A v \in Workers \ {w} : f # job[v].file,
           \A c \in Celery \ {w} : \A f \in job[c].listed \cup job[c].todo : Withdrawn(f),
           \A v \in Web \ {w} : Away(v, w),
           \A f \in Files : FileGuarded(f)',
           w \in Web => WebGuarded(w)', w \in Celery => TaskGuarded(w)'
    PROVE  Guarded'
<1>1. ASSUME NEW v \in Web \ {w} PROVE WebGuarded(v)'
  <2>1. WebGuarded(v) /\ job'[v] = job[v] /\ (job[v].pc # "idle" => job[v].file \in Files)
    BY DEF Guarded, Workers, Shape, TypeOK
  <2>2. CASE job[v].pc \in Creating
    <3>1. Alone(v)'
      BY <2>1, <2>2, ProcessAssumption DEF Alone, Away, WebGuarded, Workers
    <3> QED BY <2>1, <2>2, <3>1, WebKept DEF Away, Workers, Creating
  <2> QED BY <2>1, <2>2, WebKept DEF Workers
<1>2. ASSUME NEW c \in Celery \ {w} PROVE TaskGuarded(c)'
  BY <1>2, TaskKept DEF Guarded, Workers
<1> QED BY <1>1, <1>2 DEF Guarded, Workers

LEMMA StepGuarded == ASSUME Shape, Guarded, NEW w \in Web, Step(w) PROVE Guarded'
<1> DEFINE f == job[w].file
<1>1. /\ f \in Files /\ w \in Workers
      /\ \A v \in Workers \ {w} : job'[v] = job[v]
      /\ \A g \in Files \ {f} : row'[g] = row[g] /\ object'[g] = object[g] /\ post'[g] = post[g]
      /\ job'[w].file \in {f, None}
      /\ object'[f] \in {object[f], None}
      /\ post'[f] = post[f] \/ At(w, "perform_create")
  BY StepFrames DEF StepFrame, Workers
<1>2. PICK g : g = f
  OBVIOUS
<1>3. FileGuarded(g)' /\ WebGuarded(w)'
  BY <1>2, StepOwn
<1>4. \A h \in Files : FileGuarded(h)'
  <2>1. ASSUME NEW h \in Files \ {g} PROVE FileGuarded(h)'
    BY <1>1, <1>2 DEF FileGuarded, Guarded, Live, Present
  <2> QED BY <1>3, <2>1
<1>5. At(w, "perform_create") => Alone(w)
  BY DEF Guarded, WebGuarded, At, Creating
<1>6. job'[w].listed = {} /\ job'[w].todo = {}
  <2>1. WebTyped(w)
    BY StepTyped
  <2> QED BY <2>1, <1>1 DEF WebTyped, WebShape, Shape, TypeOK
<1>7. ASSUME NEW v \in Web \ {w} PROVE Away(v, w)
  <2>1. CASE job[v].pc \in Creating
    <3>1. job[v].file \in Files /\ Alone(v)
      BY <2>1 DEF Guarded, WebGuarded, Shape, TypeOK, Workers, Creating
    <3>2. job[v].file # f
      BY <3>1 DEF Alone
    <3> QED BY <1>1, <1>6, <3>1, <3>2, NoneAssumption DEF Away
  <2> QED BY <2>1 DEF Away
<1>8. \A h \in Files : Withdrawn(h) \/ \A v \in Workers \ {w} : h # job[v].file
  BY <1>1, <1>5, NoneAssumption DEF Withdrawn, Alone, Shape, Workers
<1>9. \A c \in Celery : \A h \in job[c].listed \cup job[c].todo : Withdrawn(h)
  <2>1. \A c \in Celery : job[c].listed \cup job[c].todo \subseteq Files
    BY DEF Shape, TypeOK, Job, Workers
  <2> QED BY <1>1, <1>5, <2>1 DEF Withdrawn, Alone
<1> QED BY <1>1, <1>3, <1>4, <1>7, <1>8, <1>9, ProcessAssumption, GuardedFrom

\* A step that leaves the tables and S3 alone and only changes its worker's job.
LEMMA JobGuarded ==
    ASSUME Shape, Guarded, NEW w \in Workers, UNCHANGED <<row, object, post>>,
           \A v \in Workers \ {w} : job'[v] = job[v],
           \A v \in Web \ {w} : job[v].pc \in Creating =>
               /\ job'[w].file # job[v].file
               /\ job[v].file \notin job'[w].listed \cup job'[w].todo,
           w \in Web => WebGuarded(w)', w \in Celery => TaskGuarded(w)'
    PROVE  Guarded'
<1>1. \A f \in Files : FileGuarded(f)'
  BY DEF Guarded, FileGuarded, Live, Present
<1>2. \A f : Withdrawn(f)
  BY DEF Withdrawn
<1>3. \A v \in Web \ {w} : Away(v, w)
  BY DEF Away
<1> QED BY <1>1, <1>2, <1>3, GuardedFrom

LEMMA RequestGuarded == ASSUME Shape, Guarded, NEW w \in Web, Request(w) PROVE Guarded'
<1>1. PICK f \in Files :
        \/ \E n \in Sizes : ValidateSize(w, f, n)
        \/ Patch(w, f) \/ LoadForUpdate(w, f) \/ LoadForPermanent(w, f)
  BY DEF Request
<1>2. w \in Workers /\ job \in [Workers -> Job]
  BY DEF Workers, Shape, TypeOK
<1>3. /\ UNCHANGED <<row, object, post>>
      /\ \E l \in {"prepare_upload", "save_status", "save_once", "save_twice", "delete_object"} :
           \E inst : Start(w, l, f, inst)
  BY <1>1 DEF ValidateSize, Patch, LoadForPatch, LoadForUpdate, LoadForPermanent
<1>4. /\ \A v \in Workers \ {w} : job'[v] = job[v]
      /\ job'[w].file = f /\ job'[w].listed = {} /\ job'[w].todo = {}
      /\ job'[w].pc \in {"prepare_upload", "save_status", "save_once", "save_twice", "delete_object"}
  BY <1>2, <1>3 DEF Start, IdleJob
<1>5. Fresh(f) \/ Live(f) \/ InBin(f)
  BY <1>1 DEF ValidateSize, Patch, LoadForPatch, LoadForUpdate, LoadForPermanent
<1>6. \A v \in Web \ {w} : job[v].pc \in Creating => job[v].file # f
  BY <1>5 DEF Guarded, WebGuarded, Fresh, InHand, Live, InBin, Workers
<1>7. WebGuarded(w)'
  <2>1. CASE \E n \in Sizes : ValidateSize(w, f, n)
    <3>1. Fresh(f)
      BY <2>1 DEF ValidateSize
    <3>2. Alone(w)'
      BY <1>4, <3>1, ProcessAssumption DEF Alone, Fresh, InHand, Workers
    <3>3. ~Present(f)' /\ object'[f] = None /\ post'[f] = 0
      BY <1>3, <3>1 DEF Fresh, Present
    <3> QED BY <1>4, <3>2, <3>3 DEF WebGuarded, Creating, Answered
  <2>2. CASE Patch(w, f)
    <3>1. job'[w].pc \in {"save_status", "save_once"}
      BY <1>2, <2>2 DEF Patch, LoadForPatch, Start, IdleJob
    <3> QED BY <3>1 DEF WebGuarded, Creating, Answered
  <2>3. CASE LoadForUpdate(w, f)
    <3>1. job'[w].pc = "save_twice"
      BY <1>2, <2>3 DEF LoadForUpdate, Start, IdleJob
    <3> QED BY <3>1 DEF WebGuarded, Creating, Answered
  <2>4. CASE LoadForPermanent(w, f)
    <3>1. job'[w].pc = "delete_object"
      BY <1>2, <2>4 DEF LoadForPermanent, Start, IdleJob
    <3>2. post'[f] = 0
      BY <1>3, <2>4 DEF LoadForPermanent, Guarded, FileGuarded, Live, InBin
    <3> QED BY <1>4, <3>1, <3>2 DEF WebGuarded, Creating, Answered
  <2> QED BY <1>1, <2>1, <2>2, <2>3, <2>4
<1> QED BY <1>2, <1>3, <1>4, <1>6, <1>7, ProcessAssumption, JobGuarded

LEMMA TasksGuarded ==
    ASSUME Shape, Guarded, NEW c \in Celery, EmptyBin(c) \/ DeleteOldFiles(c) \/ Task(c)
    PROVE  Guarded'
<1>1. /\ c \in Workers /\ c \notin Web /\ job \in [Workers -> Job] /\ job[c] \in Job
      /\ job[c].file = None /\ TaskGuarded(c)
      /\ object \in [Files -> Nat \cup {None}] /\ post \in [Files -> Nat]
      /\ row \in [Files -> Row]
  BY ProcessAssumption DEF Workers, Shape, TypeOK, Guarded
<1>2. \A v \in Web : job[v].pc \in Creating =>
        job[v].file \in Files /\ ~Present(job[v].file) /\ Alone(v)
  BY DEF Guarded, WebGuarded, Shape, TypeOK, Workers, Creating
<1>3. \A scope : \A f \in Deleted(scope) : Present(f) /\ post[f] = 0
  BY DEF Deleted, InBin, Guarded, FileGuarded, Live
<1>4. ASSUME NEW scope, StartPurge(c, scope) PROVE Guarded'
  <2>1. /\ \A v \in Workers \ {c} : job'[v] = job[v]
        /\ job'[c].file = None /\ job'[c].pc = "purge_objects"
        /\ job'[c].listed = Deleted(scope) /\ job'[c].todo = Deleted(scope)
        /\ UNCHANGED <<row, object, post>>
    BY <1>1, <1>4 DEF StartPurge, IdleJob
  <2>2. TaskGuarded(c)'
    BY <1>3, <2>1 DEF TaskGuarded
  <2> QED BY <1>1, <1>2, <1>3, <2>1, <2>2, NoneAssumption, JobGuarded
<1>5. ASSUME NEW f \in Files, PurgeObject(c, f) PROVE Guarded'
  <2>1. /\ \A v \in Workers \ {c} : job'[v] = job[v]
        /\ job'[c].file = None /\ job'[c].pc = "purge_objects"
        /\ job'[c].listed = job[c].listed /\ job'[c].todo = job[c].todo \ {f}
        /\ job'[c].kept = job[c].kept
        /\ UNCHANGED <<row, post>>
        /\ object' = [object EXCEPT ![f] = None]
    BY <1>1, <1>5 DEF PurgeObject, At, Job
  <2>2. TaskGuarded(c)'
    BY <1>1, <1>5, <2>1 DEF TaskGuarded, PurgeObject, At, Job
  <2>3. \A g \in Files : FileGuarded(g)' /\ Withdrawn(g)
    BY <1>1, <2>1 DEF FileGuarded, Withdrawn, Guarded, Live, Present
  <2>4. \A v \in Web : Away(v, c)
    BY <1>2, <2>1, NoneAssumption DEF Away, Alone
  <2>5. \A d \in Celery : job[d].listed \cup job[d].todo \subseteq Files
    BY DEF Shape, TypeOK, Job, Workers
  <2> QED BY <1>1, <2>1, <2>2, <2>3, <2>4, <2>5, GuardedFrom
<1>6. CASE CollectRows(c)
  <2>1. /\ \A v \in Workers \ {c} : job'[v] = job[v]
        /\ job'[c].file = None /\ job'[c].pc = "purge_rows"
        /\ job'[c].listed = job[c].listed
        /\ job'[c].todo = Deleted(job[c].scope) \ job[c].kept
        /\ UNCHANGED <<row, object, post>>
    BY <1>1, <1>6 DEF CollectRows, Job
  <2>2. TaskGuarded(c)'
    BY <1>1, <1>3, <1>6, <2>1 DEF TaskGuarded, CollectRows, At
  <2> QED BY <1>1, <1>2, <1>3, <2>1, <2>2, NoneAssumption, JobGuarded DEF Alone
<1>7. CASE PurgeRows(c)
  <2>1. /\ \A v \in Workers \ {c} : job'[v] = job[v]
        /\ job'[c] = IdleJob
        /\ \A g \in Files : row'[g] = IF g \in job[c].todo THEN NoRow ELSE row[g]
        /\ UNCHANGED <<object, post>>
    BY <1>1, <1>7 DEF PurgeRows, Return
  <2>2. TaskGuarded(c)'
    BY <2>1 DEF TaskGuarded, IdleJob
  <2>3. \A g \in Files : FileGuarded(g)'
    BY <1>1, <2>1 DEF TaskGuarded, FileGuarded, Guarded, Live, Present, NoRow
  <2>4. \A v \in Web : Away(v, c)
    BY <1>2, <2>1, NoneAssumption DEF Away, Alone, IdleJob
  <2>5. \A g : Withdrawn(g)
    BY <2>1 DEF Withdrawn
  <2> QED BY <1>1, <2>1, <2>2, <2>3, <2>4, <2>5, GuardedFrom
<1> QED BY <1>4, <1>5, <1>6, <1>7 DEF EmptyBin, DeleteOldFiles, Task

\* The browser can only write an object through a POST, and then no request and no
\* task has begun to answer for the file.
LEMMA ClientGuarded == ASSUME Lingering = {}, Shape, Guarded, Client PROVE Guarded'
<1>1. /\ object \in [Files -> Nat \cup {None}] /\ post \in [Files -> Nat]
      /\ row \in [Files -> Row]
      /\ \A w \in Web : job[w].pc # "idle" => job[w].file \in Files
      /\ \A c \in Celery : job[c].listed \cup job[c].todo \subseteq Files
  BY DEF Shape, TypeOK, Workers, Job
<1>2. PICK f \in Files :
        \/ \E n \in Sizes : ClientUpload(f, n)
        \/ SoftDelete(f) \/ Restore(f) \/ Age(f)
  BY DEF Client
<1>3. job' = job
  BY <1>2 DEF ClientUpload, SoftDelete, Restore, Age
<1>4. \A v \in Web : Alone(v) => Alone(v)'
  BY <1>3 DEF Alone
<1>5. ASSUME NEW n \in Sizes, ClientUpload(f, n) PROVE Guarded'
  <2>1. /\ post[f] # 0 /\ post'[f] = 0 /\ row' = row
        /\ \A g \in Files \ {f} : object'[g] = object[g] /\ post'[g] = post[g]
    BY <1>1, <1>5 DEF ClientUpload
  <2>2. \A g \in Files : FileGuarded(g)'
    BY <2>1 DEF Guarded, FileGuarded, Live, Present
  <2>3. ASSUME NEW v \in Web PROVE WebGuarded(v)'
    BY <1>1, <1>3, <1>4, <2>1 DEF Guarded, WebGuarded, Creating, Answered, Present
  <2>4. ASSUME NEW c \in Celery PROVE TaskGuarded(c)'
    <3>1. TaskGuarded(c) /\ f \notin job[c].listed \cup job[c].todo
      BY <2>1 DEF Guarded, TaskGuarded
    <3> QED BY <1>1, <1>3, <2>1, <3>1 DEF TaskGuarded
  <2> QED BY <2>2, <2>3, <2>4 DEF Guarded
<1>6. CASE SoftDelete(f) \/ Restore(f) \/ Age(f)
  <2>1. /\ Present(f) /\ object' = object
        /\ \A g \in Files \ {f} : row'[g] = row[g] /\ post'[g] = post[g]
        /\ post'[f] = 0
        /\ row'[f].error = row[f].error
    BY <1>1, <1>6 DEF SoftDelete, Restore, Age, Live, InBin, Guarded, FileGuarded, Row
  <2>2. \A g \in Files : FileGuarded(g)'
    BY <2>1 DEF Guarded, FileGuarded, Live, Present
  <2>3. \A g \in Files : Withdrawn(g)
    BY <2>1 DEF Withdrawn
  <2>4. ASSUME NEW v \in Web PROVE WebGuarded(v)'
    <3>1. job[v].pc \in Creating => row'[job[v].file] = row[job[v].file] /\ Alone(v)'
      BY <1>1, <1>4, <2>1 DEF Guarded, WebGuarded, Creating
    <3> QED BY <1>1, <1>3, <2>3, <3>1, WebKept DEF Guarded
  <2>5. ASSUME NEW c \in Celery PROVE TaskGuarded(c)'
    BY <1>1, <1>3, <2>3, TaskKept DEF Guarded
  <2> QED BY <2>2, <2>4, <2>5 DEF Guarded
<1> QED BY <1>2, <1>5, <1>6

LEMMA FaultGuarded == ASSUME Shape, Guarded, NEW w \in Workers, Fault(w) PROVE Guarded'
<1>1. /\ job \in [Workers -> Job] /\ job[w] \in Job
      /\ \A v \in Web : job[v].pc \in Creating => job[v].file \in Files /\ Alone(v)
      /\ w \in Web => job[w].todo = {}
      /\ w \in Web => WebGuarded(w)
      /\ w \in Celery => TaskGuarded(w)
  BY DEF Guarded, WebGuarded, Shape, WebShape, TypeOK, Workers, Creating
<1>2. UNCHANGED <<row, object, post>>
  BY DEF Fault, Fail, HeadFails, PurgeObjectFails
<1>3. /\ \A v \in Workers \ {w} : job'[v] = job[v]
      /\ job'[w].file \in {job[w].file, None}
      /\ job'[w].listed \subseteq job[w].listed /\ job'[w].todo \subseteq job[w].todo
  <2>1. CASE Fail(w)
    BY <1>1, <2>1 DEF Fail, Return, IdleJob
  <2>2. CASE HeadFails(w)
    BY <1>1, <2>2 DEF HeadFails, Goto, Job
  <2>3. ASSUME NEW f \in Files, PurgeObjectFails(w, f)
        PROVE  /\ \A v \in Workers \ {w} : job'[v] = job[v]
               /\ job'[w].file = job[w].file
               /\ job'[w].listed = job[w].listed /\ job'[w].todo = job[w].todo \ {f}
    BY <1>1, <2>3 DEF PurgeObjectFails, Job
  <2> QED BY <2>1, <2>2, <2>3 DEF Fault
<1>4. \A v \in Web \ {w} : job[v].pc \in Creating =>
        /\ job'[w].file # job[v].file
        /\ job[v].file \notin job'[w].listed \cup job'[w].todo
  <2>1. w \in Web => job'[w].listed = {} /\ job'[w].todo = {}
    BY <1>3 DEF Shape, WebShape
  <2>2. w \in Celery => job'[w].file = None
    BY <1>3 DEF Shape
  <2> QED BY <1>1, <1>3, <2>1, <2>2, NoneAssumption DEF Alone, Workers
<1>5. (w \in Web => WebGuarded(w)') /\ (w \in Celery => TaskGuarded(w)')
  <2>1. CASE Fail(w)
    BY <1>1, <2>1 DEF Fail, Return, IdleJob, WebGuarded, TaskGuarded, Creating, Answered
  <2>2. CASE HeadFails(w)
    <3>1. job'[w] = [job[w] EXCEPT !.pc = "not_found"]
      BY <1>1, <2>2 DEF HeadFails, Goto
    <3> QED BY <1>1, <1>2, <3>1 DEF WebGuarded, TaskGuarded, Creating, Answered, Job
  <2>3. ASSUME NEW f \in Files, PurgeObjectFails(w, f) PROVE w \in Celery /\ TaskGuarded(w)'
    <3>1. w \in Celery
      BY <1>1, <2>3 DEF PurgeObjectFails, Workers
    <3>2. /\ job'[w].pc = job[w].pc /\ job'[w].pc = "purge_objects"
          /\ job'[w].listed = job[w].listed
          /\ job'[w].todo = job[w].todo \ {f} /\ job'[w].kept = job[w].kept \cup {f}
      BY <1>1, <2>3 DEF PurgeObjectFails, At, Job
    <3> QED BY <1>1, <1>2, <3>1, <3>2 DEF TaskGuarded
  <2> QED BY <2>1, <2>2, <2>3, ProcessAssumption DEF Fault
<1> QED BY <1>2, <1>3, <1>4, <1>5, JobGuarded

LEMMA GuardedStep == Lingering = {} /\ Shape /\ Guarded /\ [Next]_vars => Guarded'
<1> SUFFICES ASSUME Lingering = {}, Shape, Guarded, [Next]_vars PROVE Guarded'
  OBVIOUS
<1>1. CASE UNCHANGED vars
  BY <1>1 DEF vars, Guarded, FileGuarded, WebGuarded, TaskGuarded, Alone, Live, Present
<1>2. ASSUME NEW w \in Web, Request(w) \/ Step(w) PROVE Guarded'
  BY <1>2, RequestGuarded, StepGuarded
<1>3. ASSUME NEW c \in Celery, EmptyBin(c) \/ DeleteOldFiles(c) \/ Task(c) PROVE Guarded'
  BY <1>3, TasksGuarded
<1>4. ASSUME NEW w \in Workers, Fault(w) PROVE Guarded'
  BY <1>4, FaultGuarded
<1> QED BY <1>1, <1>2, <1>3, <1>4, ClientGuarded DEF Next

LEMMA GuardedCorrect == Lingering = {} => (Spec => []Guarded)
<1> SUFFICES ASSUME Lingering = {} PROVE Spec => []Guarded
  OBVIOUS
<1>1. Shape /\ Guarded /\ [Next]_vars => Guarded'
  BY GuardedStep
<1> QED BY <1>1, InitGuarded, ShapeCorrect, PTL DEF Spec

\* If a POST is used once and not after the deletion of its file, an upload that was
\* refused for the quota has no object, and none comes back, whatever runs at once.
THEOREM RefusedCorrect == Lingering = {} => (Spec => []RefusedIsGone)
<1>1. Guarded => RefusedIsGone
  BY DEF Guarded, FileGuarded, RefusedIsGone
<1> SUFFICES ASSUME Lingering = {} PROVE Spec => []RefusedIsGone
  OBVIOUS
<1> QED BY <1>1, GuardedCorrect, PTL

\* A row goes after its object, but for the files the second query of a clean-up
\* finds and the first did not.
THEOREM RowGoesCorrect == Lingering = {} => (Spec => RowGoesWithObject)
<1> SUFFICES ASSUME Lingering = {} PROVE Spec => RowGoesWithObject
  OBVIOUS
<1>1. Shape /\ Guarded /\ [Next]_vars =>
        \A f \in Files : Present(f) /\ row'[f].status = "absent" => object'[f] = None \/ ListedLater(f)
  <2> SUFFICES ASSUME Shape, Guarded, Next, NEW f \in Files, Present(f),
                      row'[f].status = "absent"
               PROVE  object'[f] = None \/ ListedLater(f)
    BY DEF vars, Present
  <2>1. row \in [Files -> Row]
    BY DEF Shape, TypeOK
  <2>2. ASSUME NEW w \in Web, DeleteRow(w) PROVE object'[f] = None
    BY <2>1, <2>2 DEF Guarded, WebGuarded, DeleteRow, At, Present
  <2>3. ASSUME NEW c \in Celery, PurgeRows(c) PROVE object'[f] = None \/ ListedLater(f)
    BY <2>1, <2>3 DEF Guarded, TaskGuarded, PurgeRows, At, Present, ListedLater
  <2>4. ASSUME NEW w \in Web, Step(w), ~DeleteRow(w) PROVE FALSE
    <3>1. CASE SaveInstance(w) /\ job[w].pc \in Holding
      BY <2>1, <3>1, WebJob DEF SaveInstance, WebShape, InstOK, Present
    <3>2. CASE PerformCreate(w)
      BY <2>1, <3>2, WebJob DEF PerformCreate, At, Holding, WebShape, InstOK, Present
    <3>3. CASE NotFound(w) \/ SyncSize(w) \/ CommitSize(w) \/ Refuse(w)
      BY <2>1, <3>3, SMTT(30) DEF NotFound, SyncSize, CommitSize, Refuse, Present, Row
    <3>4. CASE PrepareUpload(w) \/ Head(w) \/ CheckQuota(w) \/ DeleteRefused(w) \/ DeleteObject(w)
      BY <3>4 DEF PrepareUpload, Head, CheckQuota, DeleteRefused, DeleteObject, Present
    <3> QED BY <2>4, <3>1, <3>2, <3>3, <3>4
            DEF Step, SaveStatus, SaveUpdate, SaveLast, At, Holding
  <2>5. ASSUME NEW w \in Web, Request(w) PROVE FALSE
    BY <2>5 DEF Request, ValidateSize, Patch, LoadForPatch, LoadForUpdate, LoadForPermanent, Present
  <2>6. ASSUME NEW c \in Celery, EmptyBin(c) \/ DeleteOldFiles(c) \/ Task(c), ~PurgeRows(c)
        PROVE FALSE
    BY <2>6 DEF EmptyBin, DeleteOldFiles, StartPurge, Task, PurgeObject, CollectRows, Present
  <2>7. ASSUME NEW w \in Workers, Fault(w) PROVE FALSE
    BY <2>7 DEF Fault, Fail, HeadFails, PurgeObjectFails, Present
  <2>8. CASE Client
    BY <2>1, <2>8 DEF Client, ClientUpload, SoftDelete, Restore, Age, Present, Row
  <2> QED BY <2>2, <2>3, <2>4, <2>5, <2>6, <2>7, <2>8 DEF Next
<1> QED BY <1>1, ShapeCorrect, GuardedCorrect, PTL DEF Spec, RowGoesWithObject

-----------------------------------------------------------------------------
(* What counts against the quota is what S3 stores, once finalize is done: a    *)
(* file that counts with a size that is not its object's is in the hands of a   *)
(* request that has yet to look, or will remove or fail it, or a clean-up task  *)
(* took its object while it was in the bin.                                     *)

\* Web workers do not fail.
Attended == Lingering = {} /\ Faulty \cap Web = {}
CleanedUp == Emptiers \cup Purgers # {}

\* Nor does a clean-up task run, and nobody saves a whole row but to report an upload.
Undisturbed == Attended /\ ~CleanedUp /\ Renamable = {}

\* Instances about to be saved say what the client said, unless they are renamed;
\* Celery is at work only on clean-up.
PlainJob(j) ==
    /\ j.pc = "save_twice" => j.file \in Renamable
    /\ j.pc \in Creating => j.inst.status = "pending"
    /\ j.pc = "save_once" => j.inst.status = "failed" \/ j.file \in Renamable

Plain ==
    /\ \A c \in Celery : ~At(c, "idle") => CleanedUp
    /\ \A w \in Web : PlainJob(job[w])

Obliged(w, f) ==
    /\ job[w].file = f
    /\ \/ job[w].pc \in {"head", "not_found", "delete_refused", "refuse", "delete_row"}
       \/ job[w].pc \in {"sync", "check_quota", "commit"} /\ job[w].size = object[f]

\* A task took the object, and no upload can bring it back.
Lost(f) == CleanedUp /\ object[f] = None /\ post[f] = 0

Counted(f) ==
    row[f].status = "success" /\ object[f] # row[f].size =>
        Lost(f) \/ \E w \in Web : Obliged(w, f)

Settling == \A f \in Files \ Renamable : Counted(f)

LEMMA InitSettling == Init => Plain /\ Settling
<1> SUFFICES ASSUME Init PROVE Plain /\ Settling
  OBVIOUS
<1>1. \A w \in Workers : job[w] = IdleJob
  BY DEF Init
<1>2. Plain
  BY <1>1 DEF Workers, Plain, PlainJob, IdleJob, At, Creating
<1>3. Settling
  BY DEF Init, Settling, Counted, NoRow
<1> QED BY <1>2, <1>3

LEMMA PlainStep == Attended /\ Shape /\ Plain /\ [Next]_vars => Plain'
<1> SUFFICES ASSUME Attended, Shape, Plain, [Next]_vars PROVE Plain'
  OBVIOUS
<1>1. job \in [Workers -> Job] /\ Web \subseteq Workers /\ Celery \subseteq Workers
  BY DEF Shape, TypeOK, Workers
<1>2. CASE Client \/ UNCHANGED vars
  BY <1>2 DEF Client, ClientUpload, SoftDelete, Restore, Age, vars, Plain, At
<1>3. ASSUME NEW w \in Web, \A v \in Workers \ {w} : job'[v] = job[v], PlainJob(job'[w])
      PROVE  Plain'
  BY <1>1, <1>3, ProcessAssumption DEF Plain, At
<1>4. ASSUME NEW w \in Web, Request(w) PROVE Plain'
  <2>1. PICK f \in Files :
          (\E n \in Sizes : ValidateSize(w, f, n)) \/ Patch(w, f)
          \/ LoadForUpdate(w, f) \/ LoadForPermanent(w, f)
    BY <1>4 DEF Request
  <2>2. ASSUME NEW n \in Sizes, ValidateSize(w, f, n) PROVE Plain'
    <3>1. /\ \A v \in Workers \ {w} : job'[v] = job[v]
          /\ job'[w].pc = "prepare_upload" /\ job'[w].inst.status = "pending"
      BY <1>1, <2>2 DEF ValidateSize, Start, IdleJob
    <3> QED BY <1>3, <3>1 DEF PlainJob
  <2>3. CASE LoadForPatch(w, f, "success")
    <3>1. \A v \in Workers \ {w} : job'[v] = job[v]
      BY <1>1, <2>3 DEF LoadForPatch, Start
    <3>2. job'[w].pc = "save_status"
      BY <1>1, <2>3 DEF LoadForPatch, Start, IdleJob
    <3> QED BY <1>3, <3>1, <3>2 DEF PlainJob, Creating
  <2>4. CASE LoadForPatch(w, f, "failed")
    <3>1. \A v \in Workers \ {w} : job'[v] = job[v]
      BY <1>1, <2>4 DEF LoadForPatch, Start
    <3>2. row[f] \in Row
      BY DEF Shape, TypeOK
    <3>3. job'[w].pc = "save_once" /\ job'[w].inst.status = "failed"
      BY <1>1, <2>4, <3>2 DEF LoadForPatch, Start, IdleJob, Row
    <3> QED BY <1>3, <3>1, <3>3 DEF PlainJob, Creating
  <2>5. CASE LoadForPermanent(w, f)
    <3>1. \A v \in Workers \ {w} : job'[v] = job[v]
      BY <1>1, <2>5 DEF LoadForPermanent, Start
    <3>2. job'[w].pc = "delete_object"
      BY <1>1, <2>5 DEF LoadForPermanent, Start, IdleJob
    <3> QED BY <1>3, <3>1, <3>2 DEF PlainJob, Creating
  <2>6. CASE f \in Renamable /\ row[f].status # "success" /\ LoadForPatch(w, f, row[f].status)
    <3>1. \A v \in Workers \ {w} : job'[v] = job[v]
      BY <1>1, <2>6 DEF LoadForPatch, Start
    <3>2. job'[w].pc = "save_once" /\ job'[w].file = f
      BY <1>1, <2>6 DEF LoadForPatch, Start, IdleJob
    <3> QED BY <1>3, <2>6, <3>1, <3>2 DEF PlainJob, Creating
  <2>7. CASE LoadForUpdate(w, f)
    <3>1. \A v \in Workers \ {w} : job'[v] = job[v]
      BY <1>1, <2>7 DEF LoadForUpdate, Start
    <3>2. job'[w].pc = "save_twice" /\ job'[w].file = f
      BY <1>1, <2>7 DEF LoadForUpdate, Start, IdleJob
    <3> QED BY <1>3, <2>7, <3>1, <3>2 DEF PlainJob, Creating, LoadForUpdate
  <2> QED BY <2>1, <2>2, <2>3, <2>4, <2>5, <2>6, <2>7 DEF Patch
<1>5. ASSUME NEW w \in Web, Step(w) PROVE Plain'
  <2>1. \A v \in Workers \ {w} : job'[v] = job[v]
    BY <1>5, StepFrames DEF StepFrame
  <2>2. CASE PrepareUpload(w)
    <3>1. \/ job'[w] = IdleJob
          \/ job'[w].pc = "perform_create" /\ job'[w].inst = job[w].inst
      BY <1>1, <2>2 DEF PrepareUpload, Return, Job
    <3>2. job[w].inst.status = "pending"
      BY <2>2 DEF Plain, PlainJob, PrepareUpload, At, Creating
    <3> QED BY <1>3, <2>1, <3>1, <3>2 DEF PlainJob, IdleJob, Creating
  <2>3. ASSUME Return(w) PROVE job'[w].pc = "idle"
    BY <1>1, <2>3 DEF Return, IdleJob
  <2>4. ASSUME NEW l, Goto(w, l) PROVE job'[w].pc = l
    BY <1>1, <2>4 DEF Goto, Job
  <2>5. CASE Head(w)
    <3>1. job'[w].pc \in {"sync", "not_found"}
      BY <1>1, <2>4, <2>5 DEF Head, Job
    <3> QED BY <1>3, <2>1, <3>1 DEF PlainJob, Creating
  <2>6. CASE \/ PerformCreate(w) \/ NotFound(w) \/ CommitSize(w) \/ Refuse(w)
             \/ SaveLast(w) \/ DeleteRow(w)
    <3>1. job'[w].pc = "idle"
      BY <2>3, <2>6 DEF PerformCreate, NotFound, CommitSize, Refuse, SaveLast, DeleteRow
    <3> QED BY <1>3, <2>1, <3>1 DEF PlainJob, Creating
  <2>7. CASE \/ SaveStatus(w) \/ SyncSize(w) \/ CheckQuota(w) \/ DeleteRefused(w) \/ DeleteObject(w)
    <3>1. job'[w].pc \in {"head", "idle", "check_quota", "commit", "delete_refused", "refuse", "delete_row"}
      BY <2>3, <2>4, <2>7 DEF SaveStatus, SyncSize, CheckQuota, DeleteRefused, DeleteObject
    <3> QED BY <1>3, <2>1, <3>1 DEF PlainJob, Creating
  <2>8. CASE SaveUpdate(w)
    <3>1. job'[w].pc = "save_once" /\ job'[w].file = job[w].file
      BY <1>1, <2>8 DEF SaveUpdate, Goto, Job
    <3>2. job[w].file \in Renamable
      BY <2>8 DEF SaveUpdate, At, Plain, PlainJob
    <3> QED BY <1>3, <2>1, <3>1, <3>2 DEF PlainJob, Creating
  <2> QED BY <1>5, <2>2, <2>5, <2>6, <2>7, <2>8 DEF Step
<1>6. ASSUME NEW c \in Celery, \A v \in Workers \ {c} : job'[v] = job[v],
             CleanedUp \/ ~At(c, "idle")
      PROVE  Plain'
  BY <1>1, <1>6, ProcessAssumption DEF Plain, At
<1>7. ASSUME NEW c \in Celery, EmptyBin(c) \/ DeleteOldFiles(c) \/ Task(c) PROVE Plain'
  <2>1. \A v \in Workers \ {c} : job'[v] = job[v]
    BY <1>1, <1>7 DEF EmptyBin, DeleteOldFiles, StartPurge, Task, PurgeObject, CollectRows,
       PurgeRows, Return
  <2>2. CleanedUp \/ ~At(c, "idle")
    BY <1>7 DEF EmptyBin, DeleteOldFiles, Task, PurgeObject, CollectRows, PurgeRows, At, CleanedUp
  <2> QED BY <1>6, <2>1, <2>2
<1>8. ASSUME NEW w \in Workers, Fault(w) PROVE Plain'
  <2>1. w \in Celery /\ ~At(w, "idle")
    BY <1>8 DEF Fault, Fail, HeadFails, PurgeObjectFails, Attended, Workers, At
  <2>2. \A v \in Workers \ {w} : job'[v] = job[v]
    BY <1>1, <1>8 DEF Fault, Fail, HeadFails, PurgeObjectFails, Return, Goto
  <2> QED BY <1>6, <2>1, <2>2
<1> QED BY <1>2, <1>4, <1>5, <1>7, <1>8 DEF Next

\* The file a step is about: it no longer counts, its request is obliged, its size
\* is what the request obliged to it wrote, or nothing of the kind changes.
LEMMA StepSettles ==
    ASSUME Shape, Guarded, Plain, NEW w \in Web, Step(w),
           NEW f, f = job[w].file, f \notin Renamable
    PROVE  \/ row'[f].status # "success"
           \/ Obliged(w, f)'
           \/ object' = object /\ row'[f] = row[f] /\ ~Obliged(w, f)
           \/ object'[f] = row'[f].size
           \/ /\ object' = object /\ row'[f].status = row[f].status
              /\ object[f] = None /\ ~Obliged(w, f)
<1>1. /\ f \in Files /\ w \in Workers /\ job \in [Workers -> Job] /\ job[w] \in Job
      /\ WebShape(job[w]) /\ WebGuarded(w)
      /\ row \in [Files -> Row] /\ row[f] \in Row /\ object \in [Files -> Nat \cup {None}]
  BY StepFrames, WebJob DEF StepFrame, Shape, TypeOK, Workers, Guarded
<1>2. ASSUME NEW l \in {"head", "not_found", "delete_refused", "refuse", "delete_row"}, Goto(w, l)
      PROVE  Obliged(w, f)'
  BY <1>1, <1>2 DEF Goto, Obliged, Job
<1>3. CASE PrepareUpload(w)
  BY <1>3 DEF PrepareUpload, At, Obliged
<1>4. CASE PerformCreate(w)
  BY <1>1, <1>4 DEF PerformCreate, At, Plain, PlainJob, Creating
<1>5. CASE SaveStatus(w)
  BY <1>2, <1>5 DEF SaveStatus
<1>6. CASE Head(w)
  <2>1. CASE object[f] # None /\ job' = [job EXCEPT ![w].pc = "sync", ![w].size = object[f]]
    <3>1. job'[w].pc = "sync" /\ job'[w].file = f /\ job'[w].size = object[f]
      BY <1>1, <2>1 DEF Job
    <3> QED BY <1>6, <3>1 DEF Head, Obliged
  <2> QED BY <1>2, <1>6, <2>1 DEF Head
<1>7. CASE NotFound(w)
  BY <1>1, <1>7 DEF NotFound, Present, Row
<1>8. ASSUME job[w].pc \in {"sync", "check_quota", "commit"}, object' = object,
             row' = [row EXCEPT ![f].size = job[w].size]
      PROVE  \/ object'[f] = row'[f].size
             \/ row'[f].status = row[f].status /\ object[f] = None /\ ~Obliged(w, f)
  BY <1>1, <1>8 DEF WebGuarded, Answered, Obliged, Row
<1>9. ASSUME job[w].pc \in {"sync", "check_quota"}, UNCHANGED <<row, object>>,
             NEW l \in {"check_quota", "commit"}, Goto(w, l)
      PROVE  Obliged(w, f)' \/ ~Obliged(w, f)
  BY <1>1, <1>9 DEF Obliged, Goto, Job
<1>10. CASE SyncSize(w)
  <2>1. CASE ~Present(f)
    BY <1>10, <2>1 DEF SyncSize, Present
  <2>2. CASE Present(f) /\ job[w].size = job[w].inst.size
    BY <1>8, <1>10, <2>2 DEF SyncSize, At
  <2>3. CASE Present(f) /\ job[w].size # job[w].inst.size
    BY <1>9, <1>10, <2>3 DEF SyncSize, At
  <2> QED BY <2>1, <2>2, <2>3
<1>11. CASE CheckQuota(w)
  BY <1>2, <1>9, <1>11 DEF CheckQuota, At
<1>12. CASE CommitSize(w)
  BY <1>8, <1>12 DEF CommitSize, At
<1>13. CASE DeleteRefused(w) \/ DeleteObject(w)
  BY <1>2, <1>13 DEF DeleteRefused, DeleteObject
<1>14. CASE Refuse(w) \/ DeleteRow(w)
  BY <1>1, <1>14 DEF Refuse, DeleteRow, Row, NoRow
<1>15. CASE SaveLast(w)
  BY <1>1, <1>15 DEF SaveLast, SaveInstance, Plain, PlainJob, At
<1> QED BY <1>3, <1>4, <1>5, <1>6, <1>7, <1>10, <1>11, <1>12, <1>13, <1>14, <1>15
        DEF Step, SaveUpdate, Plain, PlainJob, At


\* Whoever is obliged to a file stays so while it does not move, the object the same.
LEMMA CountedKept ==
    ASSUME NEW f \in Files, Counted(f), object'[f] = object[f], post[f] = 0 => post'[f] = 0,
           \A v \in Web : Obliged(v, f) => job'[v] = job[v],
           \/ row'[f].status # "success"
           \/ row[f].status = "success" /\ (object[f] # row'[f].size => object[f] # row[f].size)
    PROVE  Counted(f)'
<1> SUFFICES ASSUME row'[f].status = "success", object'[f] # row'[f].size, ~Lost(f)'
             PROVE  \E v \in Web : Obliged(v, f)'
  BY DEF Counted
<1>1. ~Lost(f)
  BY DEF Lost
<1>2. PICK v \in Web : Obliged(v, f)
  BY <1>1 DEF Counted
<1> QED BY <1>2 DEF Obliged

LEMMA SettlingStep ==
    Attended /\ Shape /\ Guarded /\ Plain /\ Settling /\ [Next]_vars => Settling'
<1> SUFFICES ASSUME Attended, Shape, Guarded, Plain, Settling, [Next]_vars PROVE Settling'
  OBVIOUS
<1>1. /\ row \in [Files -> Row] /\ object \in [Files -> Nat \cup {None}] /\ post \in [Files -> Nat]
      /\ job \in [Workers -> Job] /\ Web \subseteq Workers
  BY DEF Shape, TypeOK, Workers
<1>2. CASE UNCHANGED vars
  BY <1>2 DEF vars, Settling, Counted, Obliged, Lost
<1>3. ASSUME NEW w \in Web, Request(w) PROVE Settling'
  <2>1. /\ UNCHANGED <<row, object, post>>
        /\ \E l, g, inst : Start(w, l, g, inst)
    BY <1>3 DEF Request, ValidateSize, Patch, LoadForPatch, LoadForUpdate, LoadForPermanent
  <2>2. At(w, "idle") /\ \A v \in Web \ {w} : job'[v] = job[v]
    BY <1>1, <2>1 DEF Start
  <2>3. \A v \in Web, f \in Files : Obliged(v, f) => job'[v] = job[v]
    BY <2>2 DEF At, Obliged
  <2>4. ASSUME NEW f \in Files \ Renamable PROVE Counted(f)'
    BY <2>1, <2>3, CountedKept DEF Settling
  <2> QED BY <2>4 DEF Settling
<1>4. ASSUME NEW w \in Web, Step(w) PROVE Settling'
  <2>1. PICK f : f = job[w].file
    OBVIOUS
  <2>2. /\ f \in Files
        /\ \A v \in Web \ {w} : job'[v] = job[v]
        /\ \A g \in Files \ {f} : row'[g] = row[g] /\ object'[g] = object[g] /\ post'[g] = post[g]
        /\ post'[f] = post[f] \/ At(w, "perform_create")
    BY <1>1, <1>4, <2>1, StepFrames DEF StepFrame
  <2>3. ASSUME NEW g \in Files \ Renamable, g # f PROVE Counted(g)'
    <3>1. \A v \in Web : Obliged(v, g) => job'[v] = job[v]
      BY <2>1, <2>2, <2>3 DEF Obliged
    <3>2. row'[g] = row[g] /\ object'[g] = object[g] /\ post'[g] = post[g] /\ Counted(g)
      BY <2>2, <2>3 DEF Settling
    <3> QED BY <3>1, <3>2, CountedKept DEF Counted
  <2>4. f \notin Renamable =>
        \/ row'[f].status # "success"
        \/ Obliged(w, f)'
        \/ object' = object /\ row'[f] = row[f] /\ ~Obliged(w, f)
        \/ object'[f] = row'[f].size
        \/ /\ object' = object /\ row'[f].status = row[f].status
           /\ object[f] = None /\ ~Obliged(w, f)
    BY <1>4, <2>1, StepSettles
  <2>5. ASSUME f \notin Renamable PROVE Counted(f)'
    <3>1. CASE row'[f].status # "success" \/ Obliged(w, f)' \/ object'[f] = row'[f].size
      BY <3>1 DEF Counted
    <3>0. CASE At(w, "perform_create")
      <4>1. job[w].inst.status = "pending" /\ row'[f] = job[w].inst
        BY <1>1, <1>4, <2>1, <2>2, <3>0 DEF Plain, PlainJob, Creating, Step, At, PrepareUpload, PerformCreate,
           SaveStatus, Head, NotFound, SyncSize, CheckQuota, CommitSize, DeleteRefused, Refuse,
           SaveUpdate, SaveLast, DeleteObject, DeleteRow
      <4> QED BY <4>1 DEF Counted
    <3>2. ASSUME object' = object, post'[f] = post[f], ~Obliged(w, f), row'[f].status = row[f].status,
                 row'[f].size = row[f].size \/ object[f] = None
          PROVE  Counted(f)'
      <4>1. \A v \in Web : Obliged(v, f) => job'[v] = job[v]
        BY <2>2, <3>2
      <4>2. row[f].size # None
        BY <1>1, <2>2, NoneAssumption DEF Row
      <4> QED BY <2>2, <2>5, <3>2, <4>1, <4>2, CountedKept DEF Settling
    <3> QED BY <2>2, <2>4, <2>5, <3>0, <3>1, <3>2
  <2> QED BY <2>3, <2>5 DEF Settling
<1>5. CASE Client
  <2>1. PICK f \in Files :
          \/ \E n \in Sizes : ClientUpload(f, n)
          \/ SoftDelete(f) \/ Restore(f) \/ Age(f)
    BY <1>5 DEF Client
  <2>2. job' = job
    BY <2>1 DEF ClientUpload, SoftDelete, Restore, Age
  <2>3. ASSUME NEW n \in Sizes, ClientUpload(f, n) PROVE Settling'
    <3>1. /\ row' = row /\ post[f] # 0
          /\ \A g \in Files \ {f} : object'[g] = object[g] /\ post'[g] = post[g]
      BY <1>1, <2>3 DEF ClientUpload
    <3>2. ASSUME NEW g \in Files \ Renamable, g # f PROVE Counted(g)'
      <4>1. /\ Counted(g) /\ row'[g] = row[g]
            /\ object'[g] = object[g] /\ post'[g] = post[g]
        BY <3>1, <3>2 DEF Settling
      <4> QED BY <2>2, <4>1, CountedKept DEF Counted
    <3>3. ASSUME f \notin Renamable PROVE Counted(f)'
      <4> SUFFICES ASSUME row[f].status = "success" PROVE \E v \in Web : Obliged(v, f)'
        BY <3>1 DEF Counted
      <4>1. object[f] = None /\ row[f].size # None
        BY <1>1, <3>1, NoneAssumption DEF Guarded, FileGuarded, Row
      <4>2. PICK v \in Web : Obliged(v, f)
        BY <3>1, <3>3, <4>1 DEF Settling, Counted, Lost
      <4>3. job[v] \in Job /\ WebGuarded(v)
        BY <1>1 DEF Guarded
      <4>4. job[v].pc \in {"head", "not_found"}
        BY <3>1, <4>1, <4>2, <4>3, NoneAssumption DEF Obliged, WebGuarded, Answered, Job
      <4> QED BY <2>2, <4>2, <4>4 DEF Obliged
    <3> QED BY <3>2, <3>3 DEF Settling
  <2>4. CASE SoftDelete(f) \/ Restore(f) \/ Age(f)
    <3>1. /\ object' = object
          /\ \A g \in Files : row'[g].status = row[g].status /\ row'[g].size = row[g].size
      BY <1>1, <2>4 DEF SoftDelete, Restore, Age, Row
    <3>2. \A g \in Files : post[g] = 0 => post'[g] = 0
      BY <1>1, <2>4 DEF SoftDelete, Restore, Age
    <3>3. ASSUME NEW g \in Files \ Renamable PROVE Counted(g)'
      BY <2>2, <3>1, <3>2 DEF Settling, Counted, Obliged, Lost
    <3> QED BY <3>3 DEF Settling
  <2> QED BY <2>1, <2>3, <2>4
<1>6. ASSUME NEW c \in Celery, EmptyBin(c) \/ DeleteOldFiles(c) \/ Task(c) PROVE Settling'
  <2>1. \A v \in Web : job'[v] = job[v]
    BY <1>1, <1>6, ProcessAssumption DEF EmptyBin, DeleteOldFiles, StartPurge, Task, PurgeObject,
       CollectRows, PurgeRows, Return, Workers
  <2>2. CASE EmptyBin(c) \/ DeleteOldFiles(c) \/ CollectRows(c)
    <3>1. UNCHANGED <<row, object, post>>
      BY <2>2 DEF EmptyBin, DeleteOldFiles, StartPurge, CollectRows
    <3> QED BY <2>1, <3>1 DEF Settling, Counted, Obliged, Lost
  <2>3. ASSUME NEW f \in Files, PurgeObject(c, f) PROVE Settling'
    <3>1. /\ UNCHANGED <<row, post>> /\ object'[f] = None
          /\ \A g \in Files \ {f} : object'[g] = object[g]
      BY <1>1, <2>3 DEF PurgeObject
    <3>2. CleanedUp /\ post[f] = 0
      BY <2>3 DEF PurgeObject, At, Plain, Guarded, TaskGuarded
    <3>3. Counted(f)'
      BY <3>1, <3>2 DEF Counted, Lost
    <3>4. ASSUME NEW g \in Files \ Renamable, g # f PROVE Counted(g)'
      <4>1. Counted(g) /\ object'[g] = object[g]
        BY <3>1, <3>4 DEF Settling
      <4> QED BY <2>1, <3>1, <4>1, CountedKept DEF Counted
    <3> QED BY <3>3, <3>4 DEF Settling
  <2>4. CASE PurgeRows(c)
    <3>1. /\ UNCHANGED <<object, post>>
          /\ \A g \in Files : row'[g] = row[g] \/ row'[g].status # "success"
      BY <2>4 DEF PurgeRows, NoRow
    <3>2. ASSUME NEW g \in Files \ Renamable PROVE Counted(g)'
      <4>1. Counted(g)
        BY DEF Settling
      <4> QED BY <2>1, <3>1, <4>1, CountedKept DEF Counted
    <3> QED BY <3>2 DEF Settling
  <2> QED BY <1>6, <2>2, <2>3, <2>4 DEF Task
<1>7. ASSUME NEW w \in Workers, Fault(w) PROVE Settling'
  <2>1. w \in Celery
    BY <1>7 DEF Fault, Fail, HeadFails, PurgeObjectFails, Attended, Workers
  <2>2. UNCHANGED <<row, object, post>> /\ \A v \in Web : job'[v] = job[v]
    BY <1>1, <1>7, <2>1, ProcessAssumption DEF Fault, Fail, HeadFails, PurgeObjectFails, Return, Goto
  <2> QED BY <2>2 DEF Settling, Counted, Obliged, Lost
<1> QED BY <1>2, <1>3, <1>4, <1>5, <1>6, <1>7 DEF Next

LEMMA SettlingCorrect == Attended => (Spec => []Settling)
<1> SUFFICES ASSUME Attended PROVE Spec => []Settling
  OBVIOUS
<1>1. Lingering = {}
  BY DEF Attended
<1>2. Spec => []Guarded
  BY <1>1, GuardedCorrect
<1>3. Shape /\ Plain /\ [Next]_vars => Plain'
  BY PlainStep
<1>4. Shape /\ Guarded /\ Plain /\ Settling /\ [Next]_vars => Settling'
  BY SettlingStep
<1> QED BY <1>2, <1>3, <1>4, InitSettling, ShapeCorrect, PTL DEF Spec

\* Beside clean-up tasks that may fail, restores, deletions and renames of others: the
\* size with which a settled file counts is that of its object, if it has one.  A stale
\* report, or a restore, may bring back a file whose object a task has taken, never one
\* of another size.
StoredSizeIsReal ==
    \A f \in Files \ Renamable :
        Live(f) /\ row[f].status = "success" /\ ~InHand(f) => object[f] \in {row[f].size, None}

\* What counts against the quota is never another size than what S3 stores, for any
\* clean-up tasks and any failure of theirs (finalizer.py, delete_file.py).
THEOREM StoredCorrect == Attended => (Spec => []StoredSizeIsReal)
<1>1. Settling => StoredSizeIsReal
  BY DEF Settling, Counted, Lost, Obliged, StoredSizeIsReal, InHand, Workers
<1> QED BY <1>1, SettlingCorrect, PTL

\* Without faults, clean-up tasks, full-row renames and posts used again, the size
\* of every file that counts is the size of its object, or a request still sees to it.
THEOREM SettledCorrect == Undisturbed => (Spec => []SettledSizeIsReal)
<1> SUFFICES ASSUME Undisturbed PROVE Spec => []SettledSizeIsReal
  OBVIOUS
<1>1. Settling => SettledSizeIsReal
  BY DEF Settling, Counted, Lost, Obliged, Undisturbed, SettledSizeIsReal, InHand, Workers
<1>2. Spec => []Settling
  BY SettlingCorrect DEF Undisturbed
<1> QED BY <1>1, <1>2, PTL
=============================================================================
