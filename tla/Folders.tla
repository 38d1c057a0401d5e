------------------------------- MODULE Folders -------------------------------
(***************************************************************************)
(* The folders of one user, the files in them, and the path each file     *)
(* carries as a column of its own.  A request that renames or moves a      *)
(* folder saves its row and then queues a Celery task, which writes the    *)
(* paths of the files below.                                               *)
(*                                                                         *)
(* Every statement commits alone; save() writes every column of the        *)
(* instance loaded before.  A foreign key to a folder that is gone, and a  *)
(* name twice under one parent, make the database raise.                   *)
(***************************************************************************)
EXTENDS Integers, FiniteSets, Sequences

CONSTANTS
    Folders,   \* ids of folders
    Files,     \* ids of files
    Names,     \* names of folders, equal up to case taken as equal
    Web,       \* web workers
    Celery,    \* Celery workers
    Tangled,   \* whether users move a folder under itself or its descendants
    MaxTasks,  \* bound: path tasks of one folder that wait at a time
    None       \* no folder, nothing loaded

Workers == Web \cup Celery

ASSUME FolderAssumption == IsFiniteSet(Folders)
ASSUME ProcessAssumption == Web \cap Celery = {}
ASSUME BoundAssumption == Tangled \in BOOLEAN /\ MaxTasks \in Nat
ASSUME NoneAssumption ==
    /\ None \notin Folders /\ None \notin Files /\ None \notin Names

VARIABLES
    folder,    \* table Folder
    file,      \* table CloudFile
    queue,     \* queue[f]: path tasks of f that wait for a Celery worker
    job,       \* what each worker is doing and what it holds in memory
    moved,     \* history: files moved, deleted or restored since they were created
    abandoned  \* history: files a task had read when it raised on account of others

history == <<moved, abandoned>>
vars == <<folder, file, queue, job, history>>

-----------------------------------------------------------------------------
(* Data *)

Place == Folders \cup {None}
FolderRow == [name : Names \cup {None}, parent : Place]
FileRow == [made : BOOLEAN, folder : Place, path : Seq(Names), binned : BOOLEAN]

NoFolder == [name |-> None, parent |-> None]
NoFile == [made |-> FALSE, folder |-> None, path |-> << >>, binned |-> FALSE]

Exists(f) == folder[f].name # None
ValidPlace(p) == p \in {None} \cup {f \in Folders : Exists(f)}
Live(x) == file[x].made /\ ~file[x].binned

\* g is f or lies below it: whoever walks up from g comes past f.
UpwardClosed(S) == \A g \in S : folder[g].parent \in S \cup {None}
Below(f) ==
    {g \in Folders : Exists(g) /\ \A S \in SUBSET Folders : g \in S /\ UpwardClosed(S) => f \in S}

\* Those the walk up the parents from p comes past, p among them.  It ends if one
\* of them is a root, and then they are as deep as there are folders above them.
Above(p) == {g \in Folders : p \in Below(g)}
Depth(p) == Cardinality(Above(p))
WalkEnds(p) == p = None \/ \E g \in Above(p) : folder[g].parent = None
Only(S) == CHOOSE g \in S : TRUE
NameAt(p, n) == folder[Only({g \in Above(p) : Depth(g) = n})].name

\* Bug: the root's missing parent gets into the path too.
PathFromNone(p) == [n \in 1 .. Depth(p) + 1 |-> IF n = 1 THEN None ELSE NameAt(p, n - 1)]
BuildPath(p) == [n \in 1 .. Depth(p) |-> NameAt(p, n)]

PCs == {"idle", "insert_folder", "save_folder", "enqueue", "delete_folder",
        "insert_file", "save_moved", "save_path", "rebuild", "bulk_update", "stuck"}

Job == [pc      : PCs,
        folder  : Folders \cup {None},
        inst    : FolderRow,            \* the Folder instance in memory
        changed : BOOLEAN,              \* name_changed or parent_changed
        file    : Files \cup {None},
        row     : FileRow,              \* the CloudFile instance in memory
        listed  : SUBSET Files,         \* the files the task has read
        rows    : [Files -> FolderRow], \* and the folder each of them is in,
        paths   : [Files -> Seq(Names)]]  \* and their paths as it rebuilt them

IdleJob == [pc |-> "idle", folder |-> None, inst |-> NoFolder, changed |-> FALSE,
            file |-> None, row |-> NoFile, listed |-> {},
            rows |-> [x \in Files |-> NoFolder], paths |-> [x \in Files |-> << >>]]

At(w, label) == job[w].pc = label
Goto(w, label) == job' = [job EXCEPT ![w].pc = label]
Return(w) == job' = [job EXCEPT ![w] = IdleJob]

\* An id is never used again: f stands for a new folder once nothing refers to
\* the previous one any more.
Fresh(f) ==
    /\ ~Exists(f)
    /\ queue[f] = 0
    /\ \A w \in Workers : job[w].folder # f /\ job[w].inst.parent # f /\ job[w].row.folder # f

TypeOK ==
    /\ folder \in [Folders -> FolderRow]
    /\ file \in [Files -> FileRow]
    /\ queue \in [Folders -> Nat]
    /\ job \in [Workers -> Job]
    /\ moved \subseteq Files /\ abandoned \subseteq Files

Init ==
    /\ folder = [f \in Folders |-> NoFolder]
    /\ file = [x \in Files |-> NoFile]
    /\ queue = [f \in Folders |-> 0]
    /\ job = [w \in Workers |-> IdleJob]
    /\ moved = {} /\ abandoned = {}

-----------------------------------------------------------------------------
(* Creating, renaming and moving a folder *)

\* validate: the name is looked for in the parent the request names, and among
\* the root folders if it names none.  What it refuses answers 400.
NameIsFree(f, name, parent) ==
    \A g \in Folders \ {f} : folder[g] # [name |-> name, parent |-> parent]

CreateFolder(w, f) ==
    /\ At(w, "idle")
    /\ Fresh(f)
    /\ \E name \in Names, parent \in Place :
        /\ ValidPlace(parent)
        /\ NameIsFree(f, name, parent)
        /\ job' = [job EXCEPT ![w].pc = "insert_folder", ![w].folder = f,
                              ![w].inst = [name |-> name, parent |-> parent]]
    /\ UNCHANGED <<folder, file, queue, history>>

\* The foreign key, and unique_together, which does not bind where parent is null.
Storable(f, inst) ==
    /\ ValidPlace(inst.parent)
    /\ inst.parent # None => NameIsFree(f, inst.name, inst.parent)

InsertFolder(w) ==
    LET f == job[w].folder IN
    /\ At(w, "insert_folder")
    /\ folder' = IF Storable(f, job[w].inst) THEN [folder EXCEPT ![f] = job[w].inst] ELSE folder
    /\ Return(w)
    /\ UNCHANGED <<file, queue, history>>

\* The clients of the API: what a user picks as the new parent.  The serializer
\* offers every folder of theirs.
OtherThanItself(f, parent) == parent = f => Tangled
SensibleParent(f, parent) == parent \in Below(f) => Tangled

\* Bugs: only a new name, or only a new parent, is taken for a change.
OnlyRenamed(f, name, parent) == name # folder[f].name
OnlyMoved(f, name, parent) == parent # folder[f].parent
Changed(f, name, parent) == name # folder[f].name \/ parent # folder[f].parent

UpdateFolder(w, f) ==
    /\ At(w, "idle")
    /\ Exists(f)
    /\ queue[f] < MaxTasks
    /\ \E name \in Names, parent \in Place, named \in BOOLEAN :
        /\ IF named THEN ValidPlace(parent) /\ SensibleParent(f, parent)
                    ELSE parent = folder[f].parent
        /\ NameIsFree(f, name, IF named THEN parent ELSE None)
        /\ job' = [job EXCEPT ![w].pc = "save_folder", ![w].folder = f,
                              ![w].inst = [name |-> name, parent |-> parent],
                              ![w].changed = Changed(f, name, parent)]
    /\ UNCHANGED <<folder, file, queue, history>>

\* save(): every column, and a new row if the folder is gone.
SaveFolder(w) ==
    LET f == job[w].folder IN
    /\ At(w, "save_folder")
    /\ IF Storable(f, job[w].inst)
       THEN /\ folder' = [folder EXCEPT ![f] = job[w].inst]
            /\ IF job[w].changed THEN Goto(w, "enqueue") ELSE Return(w)
       ELSE Return(w) /\ UNCHANGED folder
    /\ UNCHANGED <<file, queue, history>>

EnqueuePathTask(w) ==
    /\ At(w, "enqueue")
    /\ queue' = [queue EXCEPT ![job[w].folder] = @ + 1]
    /\ Return(w)
    /\ UNCHANGED <<folder, file, history>>

-----------------------------------------------------------------------------
(* Deleting an empty folder *)

HasSubfolders(f) == \E g \in Folders : folder[g].parent = f
HasFiles(f) == \E x \in Files : Live(x) /\ file[x].folder = f

\* Bug: the files are not looked for.
IsLeaf(f) == ~HasSubfolders(f)
IsEmpty(f) == ~HasSubfolders(f) /\ ~HasFiles(f)

\* The SELECT ... FOR UPDATE sees the tables as they are when it starts; what
\* others commit before it has the lock of the row, it does not see.
CheckEmpty(w, f) ==
    /\ At(w, "idle")
    /\ Exists(f)
    /\ IsEmpty(f)
    /\ job' = [job EXCEPT ![w].pc = "delete_folder", ![w].folder = f]
    /\ UNCHANGED <<folder, file, queue, history>>

\* folder.delete() collects what there is by now: subfolders go with their
\* parent, files are set to no folder.  From the lock to the commit nobody can
\* put anything into the folder, so both are one step.
DeleteFolder(w) ==
    LET gone == Below(job[w].folder) IN
    /\ At(w, "delete_folder")
    /\ folder' = [g \in Folders |-> IF g \in gone THEN NoFolder ELSE folder[g]]
    /\ file' = [x \in Files |-> IF file[x].folder \in gone
                                THEN [file[x] EXCEPT !.folder = None] ELSE file[x]]
    /\ Return(w)
    /\ UNCHANGED <<queue, history>>

-----------------------------------------------------------------------------
(* Creating and moving a file *)

\* A walk in a circle never returns: the worker is lost.
GotoIfWalkEnds(w, p, loaded) ==
    job' = IF WalkEnds(p) THEN [job EXCEPT ![w] = loaded] ELSE [job EXCEPT ![w].pc = "stuck"]

CreateFile(w, x) ==
    /\ At(w, "idle")
    /\ ~file[x].made
    /\ \E p \in Place :
        /\ ValidPlace(p)
        /\ GotoIfWalkEnds(w, p, [IdleJob EXCEPT !.pc = "insert_file", !.file = x,
              !.row = [made |-> TRUE, folder |-> p, path |-> BuildPath(p), binned |-> FALSE]])
    /\ UNCHANGED <<folder, file, queue, history>>

\* An insert, or a save of every column.
WriteFile(w) ==
    file' = IF ValidPlace(job[w].row.folder)
            THEN [file EXCEPT ![job[w].file] = job[w].row] ELSE file

InsertFile(w) ==
    /\ At(w, "insert_file")
    /\ WriteFile(w)
    /\ Return(w)
    /\ UNCHANGED <<folder, queue, history>>

\* PUT: the new folder is set on the instance and saved with its old path; the
\* path is rebuilt and the instance saved once more.
MoveFile(w, x) ==
    /\ At(w, "idle")
    /\ Live(x)
    /\ \E p \in Place :
        /\ ValidPlace(p)
        /\ job' = [job EXCEPT ![w].pc = "save_moved", ![w].file = x,
                              ![w].row = [file[x] EXCEPT !.folder = p]]
    /\ moved' = moved \cup {x}
    /\ UNCHANGED <<folder, file, queue, abandoned>>

SaveMoved(w) ==
    LET p == job[w].row.folder IN
    /\ At(w, "save_moved")
    /\ WriteFile(w)
    /\ IF ValidPlace(p)
       THEN GotoIfWalkEnds(w, p, [job[w] EXCEPT !.pc = "save_path", !.row.path = BuildPath(p)])
       ELSE Return(w)
    /\ UNCHANGED <<folder, queue, history>>

SavePath(w) ==
    /\ At(w, "save_path")
    /\ WriteFile(w)
    /\ Return(w)
    /\ UNCHANGED <<folder, queue, history>>

\* soft_delete and restore leave the path as it was.
SoftDelete(x) ==
    /\ Live(x)
    /\ file' = [file EXCEPT ![x].binned = TRUE, ![x].folder = None]
    /\ moved' = moved \cup {x}
    /\ UNCHANGED <<folder, queue, job, abandoned>>

Restore(x) ==
    /\ file[x].binned
    /\ file' = [file EXCEPT ![x].binned = FALSE]
    /\ moved' = moved \cup {x}
    /\ UNCHANGED <<folder, queue, job, abandoned>>

-----------------------------------------------------------------------------
(* The path task *)

\* Bug: the files of the folder itself only.
DirectFiles(f) == {x \in Files : file[x].made /\ file[x].folder = f}
FilesIncludingNested(f) == {x \in Files : file[x].made /\ file[x].folder \in Below(f)}

\* Folder.objects.get raises for a folder that is gone, and the task is done.
\* In a circle the descendants, or a walk up from them, have no end.  The query
\* brings each file with the row of its folder; the folders above are read later.
StartPathTask(c, f) ==
    /\ At(c, "idle")
    /\ queue[f] > 0
    /\ queue' = [queue EXCEPT ![f] = @ - 1]
    /\ job' = IF ~Exists(f) THEN job
              ELSE IF ~WalkEnds(f) THEN [job EXCEPT ![c].pc = "stuck"]
              ELSE LET listed == FilesIncludingNested(f) IN
                   [job EXCEPT ![c].pc = "rebuild", ![c].listed = listed,
                      ![c].rows = [x \in Files |-> IF x \in listed THEN folder[file[x].folder]
                                                                  ELSE NoFolder]]
    /\ UNCHANGED <<folder, file, history>>

\* A parent that is gone by now raises, and nothing is written, neither for that
\* file nor for the others.  A parent in a circle comes first, or after.
RebuildPaths(c) ==
    LET listed == job[c].listed
        rows == job[c].rows
        found == {x \in listed : ValidPlace(rows[x].parent)}
        rebuilt == [x \in Files |-> IF x \in listed
                                    THEN Append(BuildPath(rows[x].parent), rows[x].name) ELSE << >>]
    IN  /\ At(c, "rebuild")
        /\ \/ /\ found # listed
              /\ Return(c)
              /\ abandoned' = abandoned \cup found
           \/ /\ found = listed \/ \E x \in found : ~WalkEnds(rows[x].parent)
              /\ job' = IF \A x \in found : WalkEnds(rows[x].parent)
                        THEN [job EXCEPT ![c].pc = "bulk_update", ![c].paths = rebuilt,
                                         ![c].rows = IdleJob.rows]
                        ELSE [job EXCEPT ![c].pc = "stuck"]
              /\ UNCHANGED abandoned
        /\ UNCHANGED <<folder, file, queue, moved>>

BulkUpdate(c) ==
    /\ At(c, "bulk_update")
    /\ file' = [x \in Files |-> IF x \in job[c].listed
                                THEN [file[x] EXCEPT !.path = job[c].paths[x]] ELSE file[x]]
    /\ abandoned' = abandoned \ job[c].listed
    /\ Return(c)
    /\ UNCHANGED <<folder, queue, moved>>

-----------------------------------------------------------------------------
Request(w) ==
    \/ \E f \in Folders : CreateFolder(w, f) \/ UpdateFolder(w, f) \/ CheckEmpty(w, f)
    \/ \E x \in Files : CreateFile(w, x) \/ MoveFile(w, x)

Bin == \E x \in Files : SoftDelete(x) \/ Restore(x)

Step(w) ==
    \/ InsertFolder(w) \/ SaveFolder(w) \/ EnqueuePathTask(w) \/ DeleteFolder(w)
    \/ InsertFile(w) \/ SaveMoved(w) \/ SavePath(w)

Task(c) ==
    \/ \E f \in Folders : StartPathTask(c, f)
    \/ RebuildPaths(c) \/ BulkUpdate(c)

Next ==
    \/ \E w \in Web : Request(w) \/ Step(w)
    \/ Bin
    \/ \E c \in Celery : Task(c)

Spec == Init /\ [][Next]_vars

\* A request under way goes on, and a Celery worker takes the tasks that wait.
Fairness ==
    /\ \A w \in Web : WF_vars(Step(w))
    /\ \A c \in Celery : WF_vars(Task(c))

FairSpec == Spec /\ Fairness

-----------------------------------------------------------------------------
(* Safety *)

\* The folders form a hierarchy: every walk up the parents comes to a root.
\* get_root, build_path and the path task rely on it and nothing in the
\* serializer looks; it takes clients that pick a sensible parent, and one
\* folder request at a time, since a save puts back the parent it has loaded.
Hierarchy ==
    \A S \in SUBSET Folders :
        S # {} /\ (\A f \in S : Exists(f)) => \E f \in S : folder[f].parent \notin S

\* A path that is wrong is owed a correction: a task that has yet to read waits
\* for a folder above the file, or is about to be queued, or the task that runs
\* has read the file's place as it is.  Between a folder's save and its task many
\* requests may come; none of them may end the debt unpaid, nor may a running task
\* leave behind what it read before them.  For files that stay where they are, and
\* which no task has given up: if one file's folder has lost the parent it had, the
\* task raises, and nobody comes back for the others.  One web worker and one Celery
\* worker.
Cared == {x \in Files \ (moved \cup abandoned) : file[x].made}
PathIsRight(x) == file[x].path = BuildPath(file[x].folder)
TaskWaits(x) ==
    \E f \in Folders :
        /\ file[x].folder \in Below(f)
        /\ queue[f] > 0 \/ \E w \in Web : At(w, "enqueue") /\ job[w].folder = f
TaskPath(x, c) ==
    IF At(c, "rebuild") THEN Append(BuildPath(job[c].rows[x].parent), job[c].rows[x].name)
                        ELSE job[c].paths[x]
TaskCorrects(x, c) == x \in job[c].listed /\ TaskPath(x, c) = BuildPath(file[x].folder)
TaskSpoils(x, c) == x \in job[c].listed /\ TaskPath(x, c) # BuildPath(file[x].folder)
WrongPathIsOwed ==
    \A x \in Cared :
        \/ TaskWaits(x)
        \/ \E c \in Celery : TaskCorrects(x, c)
        \/ PathIsRight(x) /\ \A c \in Celery : ~TaskSpoils(x, c)

\* A folder goes only when there is nothing in it, whatever was put into it, moved
\* or restored since the request looked: delete_folder.py, for one web worker.
DeletesOnlyEmpty ==
    [][\A f \in Folders : Exists(f) /\ ~Exists(f)' => ~HasSubfolders(f) /\ ~HasFiles(f)]_vars

-----------------------------------------------------------------------------
(* Liveness, under FairSpec *)

\* Once the user leaves the folders alone, every path comes to be right, and stays.
FoldersLeftAlone == <>[][folder' = folder]_vars
PathsSettle ==
    FoldersLeftAlone => <>[](\A x \in Cared : PathIsRight(x))
=============================================================================
