---------------------------- MODULE FoldersProofs ----------------------------
(***************************************************************************)
(* The hierarchy of folders, for any number of folders, files, names and   *)
(* Celery workers, when one web worker serves the user.                    *)
(***************************************************************************)
EXTENDS Folders, TLAPS

\* One web worker, and clients that do not move a folder under itself.
OneWriter == ~Tangled /\ \A v, w \in Web : v = w

Fields == {"pc", "folder", "inst", "changed", "file", "row", "listed", "rows", "paths"}

\* What the argument needs of the types; paths are of no concern to it.
Shapes ==
    /\ folder \in [Folders -> FolderRow]
    /\ DOMAIN job = Workers
    /\ \A w \in Workers : DOMAIN job[w] = Fields

\* A parent exists, as the foreign key wants it; a row that is gone names none.
NoOrphans ==
    \A g \in Folders :
        IF Exists(g) THEN ValidPlace(folder[g].parent) ELSE folder[g].parent = None

\* What a request has checked is still so when it writes.
NewFolderIsSafe(w) ==
    At(w, "insert_folder") =>
        /\ job[w].folder \in Folders /\ ~Exists(job[w].folder)
        /\ job[w].inst \in [name : Names, parent : Place]
        /\ job[w].inst.parent # job[w].folder
SaveIsSafe(w) ==
    At(w, "save_folder") =>
        /\ job[w].folder \in Folders /\ Exists(job[w].folder)
        /\ job[w].inst \in [name : Names, parent : Place]
        /\ \/ job[w].inst.parent = folder[job[w].folder].parent
           \/ job[w].inst.parent \notin Below(job[w].folder)
WritersAreSafe == \A w \in Web : NewFolderIsSafe(w) /\ SaveIsSafe(w)

HInv == Shapes /\ NoOrphans /\ Hierarchy /\ WritersAreSafe

-----------------------------------------------------------------------------
(* The writes *)

\* An insert adds a folder that is nobody's parent.
LEMMA InsertKeepsHierarchy ==
    ASSUME folder \in [Folders -> FolderRow], NoOrphans, Hierarchy,
           NEW f \in Folders, ~Exists(f),
           NEW inst \in [name : Names, parent : Place], inst.parent # f,
           ValidPlace(inst.parent),
           folder' = [folder EXCEPT ![f] = inst]
    PROVE  folder' \in [Folders -> FolderRow] /\ NoOrphans' /\ Hierarchy'
<1>1. folder' \in [Folders -> FolderRow]
  BY DEF FolderRow
<1>2. \A g \in Folders : g # f => folder'[g] = folder[g]
  OBVIOUS
<1>3. folder'[f] = inst /\ inst.name # None
  BY NoneAssumption
<1>4. NoOrphans'
  BY <1>2, <1>3 DEF NoOrphans, Exists, ValidPlace
<1>5. Hierarchy'
  <2> SUFFICES ASSUME NEW S \in SUBSET Folders, S # {}, \A g \in S : Exists(g)'
               PROVE  \E g \in S : folder'[g].parent \notin S
    BY DEF Hierarchy
  <2>1. CASE f \notin S
    BY <2>1, <1>2 DEF Hierarchy, Exists
  <2>2. CASE S = {f}
    BY <2>2, <1>3
  <2>3. CASE f \in S /\ S # {f}
    <3>1. S \ {f} \in SUBSET Folders /\ S \ {f} # {} /\ \A g \in S \ {f} : Exists(g)
      BY <2>3, <1>2 DEF Exists
    <3>2. PICK g \in S \ {f} : folder[g].parent \notin S \ {f}
      BY <3>1 DEF Hierarchy
    <3>3. folder[g].parent # f
      BY <3>1, NoneAssumption DEF NoOrphans, ValidPlace
    <3>4. QED  BY <3>2, <3>3, <1>2
  <2>4. QED  BY <2>1, <2>2, <2>3
<1>6. QED  BY <1>1, <1>4, <1>5

\* A save that moves the folder to a place not below it makes no circle: in a
\* circle the new parent would lie, and what lies above it would be one already.
LEMMA SaveKeepsHierarchy ==
    ASSUME folder \in [Folders -> FolderRow], NoOrphans, Hierarchy,
           NEW f \in Folders, Exists(f),
           NEW inst \in [name : Names, parent : Place],
           ValidPlace(inst.parent),
           inst.parent = folder[f].parent \/ inst.parent \notin Below(f),
           folder' = [folder EXCEPT ![f] = inst]
    PROVE  folder' \in [Folders -> FolderRow] /\ NoOrphans' /\ Hierarchy'
<1>1. folder' \in [Folders -> FolderRow]
  BY DEF FolderRow
<1>2. \A g \in Folders : g # f => folder'[g] = folder[g]
  OBVIOUS
<1>3. folder'[f] = inst /\ inst.name # None
  BY NoneAssumption
<1>4. \A g \in Folders : Exists(g)' <=> Exists(g)
  BY <1>2, <1>3 DEF Exists
<1>5. NoOrphans'
  BY <1>2, <1>3, <1>4 DEF NoOrphans, Exists, ValidPlace
<1>6. Hierarchy'
  <2> SUFFICES ASSUME NEW S \in SUBSET Folders, S # {}, \A g \in S : Exists(g),
                      \A g \in S : folder'[g].parent \in S
               PROVE  FALSE
    BY <1>4 DEF Hierarchy
  <2>1. PICK g \in S : folder[g].parent \notin S
    BY DEF Hierarchy
  <2>2. g = f /\ inst.parent \in S /\ inst.parent \notin Below(f)
    BY <2>1, <1>2, <1>3
  <2>3. PICK U \in SUBSET Folders : inst.parent \in U /\ UpwardClosed(U) /\ f \notin U
    BY <2>2 DEF Below
  <2>4. S \cap U # {} /\ \A h \in S \cap U : Exists(h) /\ folder[h].parent \in S \cap U
    BY <2>2, <2>3, <1>2, NoneAssumption DEF UpwardClosed
  <2>5. QED  BY <2>4 DEF Hierarchy
<1>7. QED  BY <1>1, <1>5, <1>6

\* What a deletion leaves has its parents left too.
LEMMA DeleteKeepsHierarchy ==
    ASSUME folder \in [Folders -> FolderRow], NoOrphans, Hierarchy, NEW f,
           folder' = [g \in Folders |-> IF g \in Below(f) THEN NoFolder ELSE folder[g]]
    PROVE  folder' \in [Folders -> FolderRow] /\ NoOrphans' /\ Hierarchy'
<1>1. folder' \in [Folders -> FolderRow]
  BY DEF FolderRow, NoFolder, Place
<1>2. \A g \in Folders : folder'[g] = IF g \in Below(f) THEN NoFolder ELSE folder[g]
  OBVIOUS
<1>3. ASSUME NEW g \in Folders, Exists(g), g \notin Below(f)
      PROVE  folder[g].parent \notin Below(f)
  <2>1. PICK U \in SUBSET Folders : g \in U /\ UpwardClosed(U) /\ f \notin U
    BY <1>3 DEF Below
  <2>2. folder[g].parent \in U \cup {None}
    BY <2>1 DEF UpwardClosed
  <2>3. QED  BY <2>1, <2>2, NoneAssumption DEF Below
<1>4. NoOrphans'
  BY <1>2, <1>3 DEF NoOrphans, Exists, ValidPlace, NoFolder
<1>5. Hierarchy'
  <2> SUFFICES ASSUME NEW S \in SUBSET Folders, S # {}, \A g \in S : Exists(g)'
               PROVE  \E g \in S : folder'[g].parent \notin S
    BY DEF Hierarchy
  <2>1. \A g \in S : Exists(g) /\ folder'[g] = folder[g]
    BY <1>2 DEF Exists, NoFolder
  <2>2. QED  BY <2>1 DEF Hierarchy
<1>6. QED  BY <1>1, <1>4, <1>5

-----------------------------------------------------------------------------
(* The steps *)

LEMMA InitHInv == Init => HInv
<1> SUFFICES ASSUME Init PROVE HInv
  OBVIOUS
<1>1. \A f \in Folders : folder[f] = NoFolder /\ ~Exists(f)
  BY DEF Init, Exists, NoFolder
<1>2. folder \in [Folders -> FolderRow]
  BY DEF Init, FolderRow, NoFolder, Place
<1>3. NoOrphans /\ Hierarchy
  BY <1>1 DEF NoOrphans, Hierarchy, NoFolder
<1>4. DOMAIN job = Workers /\ \A w \in Workers : job[w] = IdleJob
  BY DEF Init
<1>5. DOMAIN IdleJob = Fields /\ IdleJob.pc = "idle"
  BY DEF IdleJob, Fields
<1>6. WritersAreSafe
  BY <1>4, <1>5 DEF WritersAreSafe, NewFolderIsSafe, SaveIsSafe, At, Workers
<1>7. QED  BY <1>2, <1>3, <1>4, <1>5, <1>6 DEF HInv, Shapes

\* A step that leaves the folders alone, and no web worker about to write one
\* that was not before.
LEMMA ReadOnlyStep ==
    ASSUME HInv, UNCHANGED folder,
           DOMAIN job' = Workers, \A w \in Workers : DOMAIN job'[w] = Fields,
           \A w \in Web : job'[w] = job[w] \/ job'[w].pc \notin {"insert_folder", "save_folder"}
    PROVE  HInv'
<1>1. Shapes' /\ NoOrphans' /\ Hierarchy'
  BY DEF HInv, Shapes, NoOrphans, Hierarchy, Exists, ValidPlace
<1>2. WritersAreSafe'
  <2> SUFFICES ASSUME NEW w \in Web PROVE NewFolderIsSafe(w)' /\ SaveIsSafe(w)'
    BY DEF WritersAreSafe
  <2>1. NewFolderIsSafe(w) /\ SaveIsSafe(w)
    BY DEF HInv, WritersAreSafe
  <2>2. \A f : Below(f)' = Below(f)
    BY DEF Below, UpwardClosed, Exists
  <2>3. QED  BY <2>1, <2>2 DEF NewFolderIsSafe, SaveIsSafe, At, Exists
<1>3. QED  BY <1>1, <1>2 DEF HInv

\* The same when only worker w moves, and to a statement that writes no folder.
LEMMA OneWorkerReads ==
    ASSUME HInv, UNCHANGED folder, NEW w \in Workers,
           DOMAIN job' = Workers, \A v \in Workers \ {w} : job'[v] = job[v],
           DOMAIN job'[w] = Fields,
           w \in Web => job'[w].pc \notin {"insert_folder", "save_folder"}
    PROVE  HInv'
<1>1. \A v \in Workers : DOMAIN job'[v] = Fields
  BY DEF HInv, Shapes
<1>2. \A v \in Web : job'[v] = job[v] \/ job'[v].pc \notin {"insert_folder", "save_folder"}
  BY DEF Workers
<1>3. QED  BY <1>1, <1>2, ReadOnlyStep

LEMMA CreateFolderStep ==
    ASSUME HInv, OneWriter, NEW w \in Web, NEW f \in Folders, CreateFolder(w, f)
    PROVE  HInv'
<1>1. PICK name \in Names, parent \in Place :
        /\ ValidPlace(parent)
        /\ job' = [job EXCEPT ![w].pc = "insert_folder", ![w].folder = f,
                              ![w].inst = [name |-> name, parent |-> parent]]
  BY DEF CreateFolder
<1>2. ~Exists(f) /\ UNCHANGED folder
  BY DEF CreateFolder, Fresh
<1>3. /\ DOMAIN job' = Workers /\ \A v \in Workers : DOMAIN job'[v] = Fields
      /\ job'[w].pc = "insert_folder" /\ job'[w].folder = f
      /\ job'[w].inst = [name |-> name, parent |-> parent]
  BY <1>1 DEF HInv, Shapes, Workers, Fields
<1>4. Shapes' /\ NoOrphans' /\ Hierarchy'
  BY <1>2, <1>3 DEF HInv, Shapes, NoOrphans, Hierarchy, Exists, ValidPlace
<1>5. parent # f
  BY <1>1, <1>2, NoneAssumption DEF ValidPlace
<1>6. NewFolderIsSafe(w)' /\ SaveIsSafe(w)'
  BY <1>2, <1>3, <1>5 DEF NewFolderIsSafe, SaveIsSafe, At, Exists
<1>7. WritersAreSafe'
  BY <1>6 DEF WritersAreSafe, OneWriter
<1>8. QED  BY <1>4, <1>7 DEF HInv

LEMMA UpdateFolderStep ==
    ASSUME HInv, OneWriter, NEW w \in Web, NEW f \in Folders, UpdateFolder(w, f)
    PROVE  HInv'
<1>1. PICK name \in Names, parent \in Place, named \in BOOLEAN :
        /\ IF named THEN ValidPlace(parent) /\ SensibleParent(f, parent)
                    ELSE parent = folder[f].parent
        /\ job' = [job EXCEPT ![w].pc = "save_folder", ![w].folder = f,
                              ![w].inst = [name |-> name, parent |-> parent],
                              ![w].changed = Changed(f, name, parent)]
  BY Zenon DEF UpdateFolder
<1>2. Exists(f) /\ UNCHANGED folder
  BY Zenon DEF UpdateFolder
<1>3. /\ DOMAIN job' = Workers /\ \A v \in Workers : DOMAIN job'[v] = Fields
      /\ job'[w].pc = "save_folder" /\ job'[w].folder = f
      /\ job'[w].inst = [name |-> name, parent |-> parent]
  BY <1>1 DEF HInv, Shapes, Workers, Fields
<1>4. Shapes' /\ NoOrphans' /\ Hierarchy'
  BY <1>2, <1>3 DEF HInv, Shapes, NoOrphans, Hierarchy, Exists, ValidPlace
<1>5. parent = folder[f].parent \/ parent \notin Below(f)
  BY <1>1 DEF SensibleParent, OneWriter
<1>6. Below(f)' = Below(f)
  BY <1>2 DEF Below, UpwardClosed, Exists
<1>7. NewFolderIsSafe(w)' /\ SaveIsSafe(w)'
  BY <1>2, <1>3, <1>5, <1>6 DEF NewFolderIsSafe, SaveIsSafe, At, Exists
<1>8. WritersAreSafe'
  BY <1>7 DEF WritersAreSafe, OneWriter
<1>9. QED  BY <1>4, <1>8 DEF HInv

\* The three writes; their worker is the only web worker and writes nothing next.
LEMMA AfterWrite ==
    ASSUME OneWriter, NEW w \in Web, Shapes,
           folder' \in [Folders -> FolderRow], NoOrphans', Hierarchy',
           Return(w) \/ Goto(w, "enqueue")
    PROVE  HInv'
<1>1. /\ DOMAIN job' = Workers /\ \A v \in Workers : DOMAIN job'[v] = Fields
      /\ job'[w].pc \in {"idle", "enqueue"}
  BY DEF Return, Goto, IdleJob, Shapes, Workers, Fields
<1>2. WritersAreSafe'
  BY <1>1 DEF WritersAreSafe, OneWriter, NewFolderIsSafe, SaveIsSafe, At
<1>3. QED  BY <1>1, <1>2 DEF HInv, Shapes

LEMMA InsertFolderStep ==
    ASSUME HInv, OneWriter, NEW w \in Web, InsertFolder(w)
    PROVE  HInv'
<1> DEFINE f == job[w].folder
           inst == job[w].inst
<1>1. /\ f \in Folders /\ ~Exists(f) /\ inst \in [name : Names, parent : Place]
      /\ inst.parent # f
  BY DEF InsertFolder, HInv, WritersAreSafe, NewFolderIsSafe
<1>2. folder' \in [Folders -> FolderRow] /\ NoOrphans' /\ Hierarchy'
  <2>1. CASE Storable(f, inst)
    <3>1. folder' = [folder EXCEPT ![f] = inst] /\ ValidPlace(inst.parent)
      BY <2>1 DEF InsertFolder, Storable
    <3> HIDE DEF f, inst
    <3>2. QED  BY <1>1, <3>1, InsertKeepsHierarchy DEF HInv, Shapes
  <2>2. CASE ~Storable(f, inst)
    BY <2>2 DEF InsertFolder, HInv, Shapes, NoOrphans, Hierarchy, Exists, ValidPlace
  <2>3. QED  BY <2>1, <2>2
<1>3. QED  BY <1>2, AfterWrite DEF InsertFolder, HInv

LEMMA SaveFolderStep ==
    ASSUME HInv, OneWriter, NEW w \in Web, SaveFolder(w)
    PROVE  HInv'
<1> DEFINE f == job[w].folder
           inst == job[w].inst
<1>1. /\ f \in Folders /\ Exists(f) /\ inst \in [name : Names, parent : Place]
      /\ inst.parent = folder[f].parent \/ inst.parent \notin Below(f)
  BY DEF SaveFolder, HInv, WritersAreSafe, SaveIsSafe
<1>2. folder' \in [Folders -> FolderRow] /\ NoOrphans' /\ Hierarchy'
  <2>1. CASE Storable(f, inst)
    <3>1. folder' = [folder EXCEPT ![f] = inst] /\ ValidPlace(inst.parent)
      BY <2>1 DEF SaveFolder, Storable
    <3> HIDE DEF f, inst
    <3>2. QED  BY <1>1, <3>1, SaveKeepsHierarchy DEF HInv, Shapes
  <2>2. CASE ~Storable(f, inst)
    BY <2>2 DEF SaveFolder, HInv, Shapes, NoOrphans, Hierarchy, Exists, ValidPlace
  <2>3. QED  BY <2>1, <2>2
<1>3. Return(w) \/ Goto(w, "enqueue")
  BY DEF SaveFolder
<1>4. QED  BY <1>2, <1>3, AfterWrite DEF HInv

LEMMA DeleteFolderStep ==
    ASSUME HInv, OneWriter, NEW w \in Web, DeleteFolder(w)
    PROVE  HInv'
<1>1. PICK f : f = job[w].folder
  OBVIOUS
<1>2. folder' = [g \in Folders |-> IF g \in Below(f) THEN NoFolder ELSE folder[g]]
  BY <1>1 DEF DeleteFolder
<1>3. folder' \in [Folders -> FolderRow] /\ NoOrphans' /\ Hierarchy'
  BY <1>2, DeleteKeepsHierarchy DEF HInv, Shapes
<1>4. QED  BY <1>3, AfterWrite DEF DeleteFolder, HInv

\* Everything else a web worker does.
LEMMA OtherWebStep ==
    ASSUME HInv, NEW w \in Web,
           \/ \E f \in Folders : CheckEmpty(w, f)
           \/ \E x \in Files : CreateFile(w, x) \/ MoveFile(w, x)
           \/ EnqueuePathTask(w) \/ InsertFile(w) \/ SaveMoved(w) \/ SavePath(w)
    PROVE  HInv'
<1>1. UNCHANGED folder
  BY Zenon DEF CheckEmpty, CreateFile, MoveFile, EnqueuePathTask, InsertFile, SaveMoved, SavePath
<1>2. w \in Workers /\ DOMAIN job = Workers /\ DOMAIN job[w] = Fields
  BY DEF HInv, Shapes, Workers
<1>3. /\ DOMAIN job' = Workers /\ \A v \in Workers \ {w} : job'[v] = job[v]
      /\ DOMAIN job'[w] = Fields
      /\ job'[w].pc \notin {"insert_folder", "save_folder"}
  <2>1. CASE \E f \in Folders : CheckEmpty(w, f)
    <3>1. PICK f \in Folders :
            job' = [job EXCEPT ![w].pc = "delete_folder", ![w].folder = f]
      BY <2>1, Zenon DEF CheckEmpty
    <3>2. QED  BY <3>1, <1>2 DEF Fields
  <2>2. ASSUME NEW p, NEW loaded, DOMAIN loaded = Fields,
               loaded.pc \notin {"insert_folder", "save_folder"},
               GotoIfWalkEnds(w, p, loaded)
        PROVE  <1>3
    BY <2>2, <1>2 DEF GotoIfWalkEnds, Fields
  <2>3. CASE \E x \in Files : CreateFile(w, x)
    <3>1. PICK x \in Files, p \in Place :
            GotoIfWalkEnds(w, p, [IdleJob EXCEPT !.pc = "insert_file", !.file = x,
              !.row = [made |-> TRUE, folder |-> p, path |-> BuildPath(p), binned |-> FALSE]])
      BY <2>3, Zenon DEF CreateFile
    <3> DEFINE loaded == [IdleJob EXCEPT !.pc = "insert_file", !.file = x,
              !.row = [made |-> TRUE, folder |-> p, path |-> BuildPath(p), binned |-> FALSE]]
    <3>2. DOMAIN loaded = Fields /\ loaded.pc = "insert_file"
      BY DEF IdleJob, Fields
    <3> HIDE DEF loaded
    <3>3. GotoIfWalkEnds(w, p, loaded)
      BY <3>1 DEF loaded
    <3>4. QED  BY <2>2, <3>2, <3>3
  <2>4. CASE \E x \in Files : MoveFile(w, x)
    <3>1. PICK x \in Files, p \in Place :
            job' = [job EXCEPT ![w].pc = "save_moved", ![w].file = x,
                              ![w].row = [file[x] EXCEPT !.folder = p]]
      BY <2>4, Zenon DEF MoveFile
    <3>2. QED  BY <3>1, <1>2 DEF Fields
  <2>5. CASE EnqueuePathTask(w) \/ InsertFile(w) \/ SavePath(w)
    BY <2>5, <1>2 DEF EnqueuePathTask, InsertFile, SavePath, Return, IdleJob, Fields
  <2>6. CASE SaveMoved(w)
    <3>1. CASE Return(w)
      BY <3>1, <1>2 DEF Return, IdleJob, Fields
    <3>2. CASE ~Return(w)
      <4> DEFINE p == job[w].row.folder
                 loaded == [job[w] EXCEPT !.pc = "save_path", !.row.path = BuildPath(p)]
      <4>1. GotoIfWalkEnds(w, p, loaded)
        BY <2>6, <3>2 DEF SaveMoved
      <4>2. DOMAIN loaded = Fields /\ loaded.pc = "save_path"
        BY <1>2 DEF Fields
      <4> HIDE DEF p, loaded
      <4>3. QED  BY <2>2, <4>1, <4>2
    <3>3. QED  BY <3>1, <3>2
  <2>7. QED  BY <2>1, <2>3, <2>4, <2>5, <2>6
<1>4. QED  BY <1>1, <1>2, <1>3, OneWorkerReads

\* A task touches no worker but its own.
LEMMA TaskMovesOne ==
    ASSUME HInv, NEW c \in Celery, Task(c)
    PROVE  /\ DOMAIN job' = Workers /\ \A v \in Workers \ {c} : job'[v] = job[v]
           /\ DOMAIN job'[c] = Fields
<1>1. c \in Workers /\ c \notin Web /\ DOMAIN job = Workers /\ DOMAIN job[c] = Fields
  BY ProcessAssumption DEF HInv, Shapes, Workers
<1>2. /\ DOMAIN job' = Workers /\ \A v \in Workers \ {c} : job'[v] = job[v]
      /\ DOMAIN job'[c] = Fields
  <2>1. CASE Return(c) \/ UNCHANGED job
    BY <2>1, <1>1 DEF Return, IdleJob, Fields
  <2>2. ASSUME NEW f \in Folders, StartPathTask(c, f), ~UNCHANGED job
        PROVE  <1>2
    <3>1. CASE job' = [job EXCEPT ![c].pc = "stuck"]
      BY <3>1, <1>1 DEF Fields
    <3>2. CASE Exists(f) /\ WalkEnds(f)
      <4> DEFINE rows == [x \in Files |-> IF x \in FilesIncludingNested(f)
                                         THEN folder[file[x].folder] ELSE NoFolder]
      <4>1. job' = [job EXCEPT ![c].pc = "rebuild", ![c].listed = FilesIncludingNested(f),
                              ![c].rows = rows]
        BY <2>2, <3>2, Zenon DEF StartPathTask
      <4> HIDE DEF rows
      <4>2. QED  BY <4>1, <1>1 DEF Fields
    <3>3. ASSUME ~Exists(f)
          PROVE  job' = job
      BY <2>2, <3>3, Zenon DEF StartPathTask
    <3>4. ASSUME Exists(f), ~WalkEnds(f)
          PROVE  job' = [job EXCEPT ![c].pc = "stuck"]
      BY <2>2, <3>4, Zenon DEF StartPathTask
    <3>5. QED  BY <2>2, <3>1, <3>2, <3>3, <3>4
  <2>3. ASSUME RebuildPaths(c), ~Return(c)
        PROVE  <1>2
    <3>1. CASE job' = [job EXCEPT ![c].pc = "stuck"]
      BY <3>1, <1>1 DEF Fields
    <3>2. CASE \E rebuilt : job' = [job EXCEPT ![c].pc = "bulk_update", ![c].paths = rebuilt,
                                                ![c].rows = IdleJob.rows]
      BY <3>2, <1>1 DEF Fields
    <3>3. QED  BY <2>3, <3>1, <3>2, Zenon DEF RebuildPaths
  <2>4. QED  BY <2>1, <2>2, <2>3 DEF Task, BulkUpdate
<1>3. QED  BY <1>2

LEMMA TaskStep ==
    ASSUME HInv, NEW c \in Celery, Task(c)
    PROVE  HInv'
<1>1. UNCHANGED folder
  BY Zenon DEF Task, StartPathTask, RebuildPaths, BulkUpdate
<1>2. c \in Workers /\ c \notin Web
  BY ProcessAssumption DEF Workers
<1>3. QED  BY <1>1, <1>2, TaskMovesOne, OneWorkerReads

LEMMA StepHInv == HInv /\ OneWriter /\ [Next]_vars => HInv'
<1> SUFFICES ASSUME HInv, OneWriter, [Next]_vars PROVE HInv'
  OBVIOUS
<1>1. ASSUME NEW w \in Web, Request(w) \/ Step(w)
      PROVE  HInv'
  BY <1>1, CreateFolderStep, UpdateFolderStep, InsertFolderStep, SaveFolderStep,
     DeleteFolderStep, OtherWebStep DEF Request, Step
<1>2. ASSUME Bin \/ UNCHANGED vars
      PROVE  HInv'
  <2>1. UNCHANGED <<folder, job>>
    BY <1>2 DEF Bin, SoftDelete, Restore, vars
  <2>2. QED  BY <2>1, ReadOnlyStep DEF HInv, Shapes
<1>3. ASSUME NEW c \in Celery, Task(c)
      PROVE  HInv'
  BY <1>3, TaskStep
<1>4. QED  BY <1>1, <1>2, <1>3 DEF Next

\* With one web worker and clients that do not move a folder under itself,
\* every walk up the parents comes to a root: folder_serializer.py, delete_folder.py.
THEOREM HierarchyCorrect ==
    ASSUME OneWriter PROVE Spec => []Hierarchy
<1>1. HInv /\ [Next]_vars => HInv'
  BY StepHInv
<1>2. HInv => Hierarchy
  BY DEF HInv
<1>3. QED  BY InitHInv, <1>1, <1>2, PTL DEF Spec
=============================================================================
