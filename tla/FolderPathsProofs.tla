-------------------------- MODULE FolderPathsProofs --------------------------
(***************************************************************************)
(* The paths of files, for any number of folders, files and names: what    *)
(* the operators on the tree of folders compute, and on top of it that     *)
(* states are well typed, that only empty folders go and that no wrong     *)
(* path is forgotten.                                                      *)
(***************************************************************************)
EXTENDS FoldersProofs, FiniteSetTheorems, SequenceTheorems

\* The table of folders, as the database keeps it.
Tree == folder \in [Folders -> FolderRow] /\ NoOrphans

-----------------------------------------------------------------------------
(* Below and Above *)

LEMMA BelowItself ==
    ASSUME NEW f \in Folders, Exists(f)
    PROVE  f \in Below(f)
BY DEF Below

LEMMA BelowIsTransitive ==
    ASSUME NEW f, NEW g \in Below(f), NEW h \in Below(g)
    PROVE  h \in Below(f)
BY DEF Below

\* Nothing lies below a folder that is gone.
LEMMA AboveExists ==
    ASSUME Tree, NEW p, NEW g \in Above(p)
    PROVE  g \in Folders /\ Exists(g) /\ p \in Folders /\ Exists(p)
<1> DEFINE S == {h \in Folders : Exists(h)}
<1>1. p \in S
  BY DEF Above, Below
<1>2. UpwardClosed(S)
  BY NoneAssumption DEF UpwardClosed, Tree, NoOrphans, ValidPlace
<1>3. g \in S
  BY <1>1, <1>2 DEF Above, Below
<1>4. QED  BY <1>1, <1>3

LEMMA AboveNone == Above(None) = {}
BY NoneAssumption DEF Above, Below

\* The walk from p: p itself, then the walk from its parent.
LEMMA AboveStep ==
    ASSUME Tree, NEW p \in Folders, Exists(p)
    PROVE  Above(p) = {p} \cup Above(folder[p].parent)
<1> DEFINE q == folder[p].parent
<1>1. q = None \/ (q \in Folders /\ Exists(q))
  BY DEF Tree, NoOrphans, ValidPlace
<1>2. p \in Above(p)
  BY BelowItself DEF Above
<1>3. ASSUME NEW g \in Above(q) PROVE g \in Above(p)
  <2>1. q \in Below(g) /\ g \in Folders
    BY <1>3 DEF Above
  <2>2. \A S \in SUBSET Folders : p \in S /\ UpwardClosed(S) => q \in S
    BY <2>1, <1>1, <1>3, AboveNone DEF UpwardClosed
  <2>3. QED  BY <2>1, <2>2 DEF Below, Above
<1>4. ASSUME NEW g \in Above(p), g # p PROVE g \in Above(q)
  <2>0. g \in Folders /\ p \in Below(g)
    BY <1>4 DEF Above
  <2>1. CASE q = None
    <3>1. UpwardClosed({p})
      BY <2>1 DEF UpwardClosed
    <3>2. QED  BY <2>0, <3>1, <1>4 DEF Below
  <2>2. CASE q \in Folders /\ Exists(q)
    <3>1. ASSUME NEW S \in SUBSET Folders, q \in S, UpwardClosed(S) PROVE g \in S
      <4>1. UpwardClosed(S \cup {p})
        BY <3>1 DEF UpwardClosed
      <4>2. g \in S \cup {p}
        BY <2>0, <4>1 DEF Below
      <4>3. QED  BY <4>2, <1>4
    <3>2. QED  BY <2>0, <2>2, <3>1 DEF Below, Above
  <2>3. QED  BY <2>1, <2>2, <1>1
<1>5. QED  BY <1>2, <1>3, <1>4

LEMMA AboveIsTransitive ==
    ASSUME NEW p, NEW g \in Above(p)
    PROVE  Above(g) \subseteq Above(p)
BY BelowIsTransitive DEF Above

LEMMA ParentIsAbove ==
    ASSUME Tree, NEW p, NEW g \in Above(p)
    PROVE  folder[g].parent \in Above(p) \cup {None}
<1>1. g \in Folders /\ Exists(g)
  BY AboveExists
<1>2. folder[g].parent = None \/ (folder[g].parent \in Folders /\ Exists(folder[g].parent))
  BY <1>1 DEF Tree, NoOrphans, ValidPlace
<1>3. CASE folder[g].parent \in Folders /\ Exists(folder[g].parent)
  <2>1. folder[g].parent \in Above(folder[g].parent)
    BY <1>3, BelowItself DEF Above
  <2>2. folder[g].parent \in Above(g)
    BY <2>1, <1>1, AboveStep
  <2>3. QED  BY <2>2, AboveIsTransitive
<1>4. QED  BY <1>2, <1>3

-----------------------------------------------------------------------------
(* Walks that end *)

\* A walk that ends comes by the same root from wherever one joins it.
LEMMA RootIsAboveAll ==
    ASSUME Tree, NEW p, NEW r \in Above(p), folder[r].parent = None, NEW g \in Above(p)
    PROVE  r \in Above(g)
<1> DEFINE U == {h \in Folders : r \in Above(h)}
<1>1. p \in U /\ r \in Folders
  BY AboveExists
<1>2. ASSUME NEW h \in U PROVE folder[h].parent \in U \cup {None}
  <2>1. h \in Folders /\ Exists(h) /\ r \in Above(h)
    BY AboveExists
  <2>2. r = h \/ r \in Above(folder[h].parent)
    BY <2>1, AboveStep
  <2>3. CASE r \in Above(folder[h].parent)
    BY <2>3, AboveExists
  <2>4. QED  BY <2>2, <2>3
<1>3. UpwardClosed(U)
  BY <1>2 DEF UpwardClosed
<1>4. g \in Folders /\ p \in Below(g)
  BY DEF Above
<1>5. g \in U
  BY <1>1, <1>3, <1>4 DEF Below
<1>6. QED  BY <1>5

LEMMA WalkEndsAbove ==
    ASSUME Tree, NEW p, WalkEnds(p), NEW g \in Above(p)
    PROVE  WalkEnds(g) /\ WalkEnds(folder[g].parent)
<1>1. PICK r \in Above(p) : folder[r].parent = None
  BY AboveNone DEF WalkEnds
<1>2. r \in Above(g)
  BY <1>1, RootIsAboveAll
<1>3. g \in Folders /\ Exists(g)
  BY AboveExists
<1>4. r = g \/ r \in Above(folder[g].parent)
  BY <1>2, <1>3, AboveStep
<1>5. QED  BY <1>1, <1>2, <1>4 DEF WalkEnds

\* Induction along a walk that ends: what does not hold somewhere on it fails
\* at a folder whose parent is outside.
LEMMA FirstOnWalk ==
    ASSUME Tree, NEW p, WalkEnds(p), NEW S \in SUBSET Above(p), S # {}
    PROVE  \E g \in S : folder[g].parent \notin S
<1> SUFFICES ASSUME \A g \in S : folder[g].parent \in S PROVE FALSE
  OBVIOUS
<1>1. PICK r \in Above(p) : folder[r].parent = None
  BY AboveNone DEF WalkEnds
<1>2. PICK g \in S : TRUE
  OBVIOUS
<1>3. S \in SUBSET Folders /\ UpwardClosed(S)
  BY DEF UpwardClosed, Above
<1>4. r \in Above(g)
  BY <1>1, RootIsAboveAll
<1>5. r \in S
  BY <1>3, <1>4 DEF Above, Below
<1>6. None \in S
  BY <1>1, <1>5
<1>7. QED  BY <1>6, <1>3, NoneAssumption

\* No folder is met twice.
LEMMA NeverTwice ==
    ASSUME Tree, NEW p \in Folders, Exists(p), WalkEnds(p)
    PROVE  p \notin Above(folder[p].parent)
<1> DEFINE U == {h \in Above(p) : p \in Above(h)}
<1> SUFFICES ASSUME p \in Above(folder[p].parent) PROVE FALSE
  OBVIOUS
<1>1. p \in U
  BY BelowItself DEF Above
<1>2. PICK h \in U : folder[h].parent \notin U
  BY <1>1, FirstOnWalk
<1>3. h \in Folders /\ Exists(h)
  BY AboveExists
<1>4. p = h \/ p \in Above(folder[h].parent)
  BY <1>3, AboveStep
<1>5. p \in Above(folder[h].parent)
  BY <1>4
<1>6. folder[h].parent \in Above(p)
  BY <1>5, ParentIsAbove, AboveNone
<1>7. QED  BY <1>2, <1>5, <1>6

LEMMA AboveIsFinite ==
    ASSUME NEW p
    PROVE  IsFiniteSet(Above(p)) /\ Depth(p) \in Nat
<1>1. Above(p) \in SUBSET Folders
  BY DEF Above
<1>2. IsFiniteSet(Above(p))
  BY <1>1, FS_Subset, FolderAssumption
<1>3. QED  BY <1>2, FS_CardinalityType DEF Depth

\* A hierarchy: every walk ends.
LEMMA HierarchyEnds ==
    ASSUME Tree, Hierarchy, NEW p, ValidPlace(p)
    PROVE  WalkEnds(p)
<1> SUFFICES ASSUME p # None, \A g \in Above(p) : folder[g].parent # None PROVE FALSE
  BY DEF WalkEnds
<1>1. p \in Above(p)
  BY BelowItself DEF ValidPlace, Above
<1>2. Above(p) \in SUBSET Folders /\ \A g \in Above(p) : Exists(g)
  BY AboveExists DEF Above
<1>3. \A g \in Above(p) : folder[g].parent \in Above(p)
  BY ParentIsAbove
<1>4. QED  BY <1>1, <1>2, <1>3 DEF Hierarchy

-----------------------------------------------------------------------------
(* Depth and BuildPath *)

LEMMA DepthStep ==
    ASSUME Tree, NEW p \in Folders, Exists(p), WalkEnds(p)
    PROVE  Depth(p) = Depth(folder[p].parent) + 1
BY AboveStep, NeverTwice, AboveIsFinite, FS_AddElement DEF Depth

LEMMA DepthOfNone == Depth(None) = 0
BY AboveNone, FS_EmptySet DEF Depth

LEMMA DeeperBelow ==
    ASSUME NEW p, NEW g \in Above(p)
    PROVE  Depth(g) <= Depth(p)
BY AboveIsTransitive, AboveIsFinite, FS_Subset DEF Depth

LEMMA OnlyIsIn ==
    ASSUME NEW S, S # {}
    PROVE  Only(S) \in S
BY DEF Only

\* At every depth there is a folder to take the name of.
LEMMA EveryDepthIsMet ==
    ASSUME Tree, NEW p, WalkEnds(p), NEW n \in 1 .. Depth(p)
    PROVE  {g \in Above(p) : Depth(g) = n} # {}
<1> DEFINE Met(h) == \A k \in 1 .. Depth(h) : \E g \in Above(h) : Depth(g) = k
           S == {h \in Above(p) : ~Met(h)}
<1>1. S = {}
  <2> SUFFICES ASSUME S # {} PROVE FALSE
    OBVIOUS
  <2>1. PICK h \in S : folder[h].parent \notin S
    BY FirstOnWalk
  <2>2. h \in Folders /\ Exists(h) /\ WalkEnds(h)
    BY AboveExists, WalkEndsAbove
  <2> DEFINE q == folder[h].parent
  <2>3. Above(h) = {h} \cup Above(q) /\ Depth(h) = Depth(q) + 1
    BY <2>2, AboveStep, DepthStep
  <2>4. Met(q)
    <3>1. CASE q = None
      BY <3>1, DepthOfNone
    <3>2. CASE q # None
      BY <3>2, <2>1, ParentIsAbove
    <3>3. QED  BY <3>1, <3>2
  <2>5. ASSUME NEW k \in 1 .. Depth(h) PROVE \E g \in Above(h) : Depth(g) = k
    <3>0. Depth(q) \in Nat /\ Depth(h) \in Nat
      BY AboveIsFinite
    <3>1. CASE k = Depth(h)
      BY <3>1, <2>3
    <3>2. CASE k # Depth(h)
      <4>1. k \in 1 .. Depth(q)
        BY <3>0, <3>2, <2>3
      <4>2. QED  BY <4>1, <2>4, <2>3
    <3>3. QED  BY <3>1, <3>2
  <2>6. QED  BY <2>1, <2>5
<1>2. Met(p)
  <2>1. CASE p = None
    BY <2>1, DepthOfNone
  <2>2. CASE p # None
    <3>1. p \in Above(p)
      <4>1. PICK r \in Above(p) : TRUE
        BY <2>2 DEF WalkEnds
      <4>2. p \in Folders /\ Exists(p)
        BY <4>1, AboveExists
      <4>3. QED  BY <4>2, BelowItself DEF Above
    <3>2. QED  BY <3>1, <1>1
  <2>3. QED  BY <2>1, <2>2
<1>3. QED  BY <1>2

\* What build_path returns is a list of names.
LEMMA PathIsTyped ==
    ASSUME Tree, NEW p, WalkEnds(p)
    PROVE  BuildPath(p) \in Seq(Names)
<1>1. ASSUME NEW n \in 1 .. Depth(p) PROVE NameAt(p, n) \in Names
  <2> DEFINE L == {g \in Above(p) : Depth(g) = n}
  <2>1. Only(L) \in L
    BY EveryDepthIsMet, OnlyIsIn
  <2>2. Only(L) \in Folders /\ Exists(Only(L))
    BY <2>1, AboveExists
  <2>3. folder[Only(L)].name \in Names
    BY <2>2 DEF Exists, Tree, FolderRow
  <2>4. QED  BY <2>3 DEF NameAt
<1>2. Depth(p) \in Nat
  BY AboveIsFinite
<1>3. [n \in 1 .. Depth(p) |-> NameAt(p, n)] \in [1 .. Depth(p) -> Names]
  BY <1>1
<1>4. BuildPath(p) \in [1 .. Depth(p) -> Names]
  BY <1>3 DEF BuildPath
<1>5. QED  BY <1>2, <1>4, SeqDef

LEMMA PathOfNone == BuildPath(None) = << >>
BY DepthOfNone DEF BuildPath

\* build_path, as its loop has it: the path of the parent, then the name.
LEMMA PathStep ==
    ASSUME Tree, NEW p \in Folders, Exists(p), WalkEnds(p)
    PROVE  BuildPath(p) = Append(BuildPath(folder[p].parent), folder[p].name)
<1> DEFINE q == folder[p].parent
<1>1. Above(p) = {p} \cup Above(q) /\ p \notin Above(q) /\ Depth(p) = Depth(q) + 1
  BY AboveStep, NeverTwice, DepthStep
<1>2. Depth(q) \in Nat
  BY AboveIsFinite
<1>3. BuildPath(q) \in Seq(Names)
  BY PathIsTyped, WalkEndsAbove, BelowItself DEF Above
<1>4. DOMAIN BuildPath(q) = 1 .. Depth(q) /\ DOMAIN BuildPath(p) = 1 .. Depth(q) + 1
  BY <1>1 DEF BuildPath
<1>5. Len(BuildPath(q)) = Depth(q)
  BY <1>2, <1>3, <1>4
<1>6. ASSUME NEW n \in 1 .. Depth(q) PROVE BuildPath(p)[n] = BuildPath(q)[n]
  <2>1. {g \in Above(p) : Depth(g) = n} = {g \in Above(q) : Depth(g) = n}
    BY <1>1, <1>2
  <2>2. NameAt(p, n) = NameAt(q, n)
    BY <2>1 DEF NameAt
  <2>3. BuildPath(p)[n] = NameAt(p, n) /\ BuildPath(q)[n] = NameAt(q, n)
    BY <1>1, <1>2 DEF BuildPath
  <2>4. QED  BY <2>2, <2>3
<1>7. BuildPath(p)[Depth(q) + 1] = folder[p].name
  <2>1. \A g \in Above(q) : Depth(g) # Depth(p)
    BY <1>1, <1>2, DeeperBelow, AboveIsFinite
  <2>2. {g \in Above(p) : Depth(g) = Depth(p)} = {p}
    BY <2>1, <1>1
  <2>3. Only({p}) = p
    BY OnlyIsIn
  <2>4. NameAt(p, Depth(p)) = folder[p].name
    BY <2>2, <2>3 DEF NameAt
  <2>5. BuildPath(p)[Depth(p)] = NameAt(p, Depth(p))
    BY <1>1, <1>2 DEF BuildPath
  <2>6. QED  BY <2>4, <2>5, <1>1
<1>8. Append(BuildPath(q), folder[p].name) =
        [n \in 1 .. Depth(q) + 1 |-> IF n = Depth(q) + 1 THEN folder[p].name ELSE BuildPath(q)[n]]
  BY <1>3, <1>5
<1>9. ASSUME NEW n \in 1 .. Depth(q) + 1
      PROVE  NameAt(p, n) = IF n = Depth(q) + 1 THEN folder[p].name ELSE BuildPath(q)[n]
  <2>1. BuildPath(p)[n] = NameAt(p, n)
    BY <1>1 DEF BuildPath
  <2>2. n # Depth(q) + 1 => n \in 1 .. Depth(q)
    BY <1>2
  <2>3. QED  BY <2>1, <2>2, <1>6, <1>7
<1>10. BuildPath(p) = [n \in 1 .. Depth(q) + 1 |-> NameAt(p, n)]
  BY <1>1 DEF BuildPath
<1>11. QED  BY <1>8, <1>9, <1>10

-----------------------------------------------------------------------------
(* What a change of the table leaves alone *)

LEMMA SameFolders ==
    ASSUME UNCHANGED folder, NEW p
    PROVE  /\ Below(p)' = Below(p) /\ Above(p)' = Above(p)
           /\ BuildPath(p)' = BuildPath(p) /\ (Exists(p)' <=> Exists(p))
           /\ (ValidPlace(p)' <=> ValidPlace(p))
<1>1. \A q : Exists(q)' <=> Exists(q)
  BY DEF Exists
<1>2. \A q : Below(q)' = Below(q)
  BY <1>1 DEF Below, UpwardClosed
<1>3. \A q : Above(q)' = Above(q)
  BY <1>2 DEF Above
<1>4. \A q : Depth(q)' = Depth(q)
  BY <1>3 DEF Depth
<1>5. \A n : NameAt(p, n)' = NameAt(p, n)
  <2> TAKE n
  <2>1. {g \in Above(p) : Depth(g) = n}' = {g \in Above(p) : Depth(g) = n}
    BY <1>3, <1>4
  <2>2. QED  BY <2>1 DEF NameAt
<1>6. BuildPath(p)' = BuildPath(p)
  BY <1>4, <1>5 DEF BuildPath
<1>7. QED  BY <1>1, <1>2, <1>3, <1>6 DEF ValidPlace

\* A walk that comes past no folder that changes goes as before.
LEMMA WalkKept ==
    ASSUME Tree, NEW p \in Folders, Exists(p),
           \A g \in Above(p) : folder'[g] = folder[g]
    PROVE  Above(p)' = Above(p)
<1>1. Exists(p)' /\ p \in Above(p)
  BY BelowItself DEF Above, Exists
<1>2. ASSUME NEW g \in Above(p) PROVE g \in Above(p)'
  <2>1. ASSUME NEW S \in SUBSET Folders, p \in S, UpwardClosed(S)' PROVE g \in S
    <3> DEFINE U == S \cap Above(p)
    <3>1. UpwardClosed(U)
      BY <2>1, ParentIsAbove DEF UpwardClosed
    <3>2. p \in U /\ U \in SUBSET Folders
      BY <2>1, <1>1
    <3>3. QED  BY <3>1, <3>2 DEF Above, Below
  <2>2. g \in Folders
    BY DEF Above
  <2>3. QED  BY <1>1, <2>1, <2>2 DEF Above, Below
<1>3. ASSUME NEW g \in Above(p)' PROVE g \in Above(p)
  <2>1. PICK U \in SUBSET Folders : U = Above(p)
    BY DEF Above
  <2>2. \A h \in U : folder'[h].parent \in U \cup {None}
    BY <2>1, ParentIsAbove
  <2>3. UpwardClosed(U)'
    BY <2>2 DEF UpwardClosed
  <2>4. QED  BY <2>1, <2>3, <1>1 DEF Above, Below
<1>4. QED  BY <1>2, <1>3

LEMMA PathKept ==
    ASSUME Tree, NEW p, ValidPlace(p), WalkEnds(p),
           \A g \in Above(p) : folder'[g] = folder[g]
    PROVE  Above(p)' = Above(p) /\ BuildPath(p)' = BuildPath(p)
<1>1. CASE p = None
  <2>1. Above(None)' = {} /\ Depth(None)' = Cardinality({}) /\ Depth(None) = Cardinality({})
    BY AboveNone, NoneAssumption DEF Above, Below, Depth
  <2>2. Depth(None)' = 0 /\ Depth(None) = 0
    BY <2>1, FS_EmptySet
  <2>3. BuildPath(None)' = << >> /\ BuildPath(None) = << >>
    BY <2>2 DEF BuildPath
  <2>4. QED  BY <1>1, <2>1, <2>3, AboveNone
<1>2. CASE p # None
  <2>1. p \in Folders /\ Exists(p)
    BY <1>2 DEF ValidPlace
  <2>2. Above(p)' = Above(p)
    BY <2>1, WalkKept
  <2>3. ASSUME NEW g \in Above(p) PROVE Depth(g)' = Depth(g)
    <3>1. g \in Folders /\ Exists(g) /\ \A h \in Above(g) : folder'[h] = folder[h]
      BY AboveExists, AboveIsTransitive
    <3>2. Above(g)' = Above(g)
      BY <3>1, WalkKept
    <3>3. QED  BY <3>2 DEF Depth
  <2>4. Depth(p)' = Depth(p)
    BY <2>2 DEF Depth
  <2>5. ASSUME NEW n \in 1 .. Depth(p) PROVE NameAt(p, n)' = NameAt(p, n)
    <3>1. PICK L : L = {g \in Above(p) : Depth(g) = n}
      OBVIOUS
    <3>2. {g \in Above(p) : Depth(g) = n}' = L
      BY <3>1, <2>2, <2>3
    <3>3. Only(L) \in Above(p)
      BY <3>1, EveryDepthIsMet, OnlyIsIn
    <3>4. folder'[Only(L)] = folder[Only(L)]
      BY <3>3
    <3>5. NameAt(p, n) = folder[Only(L)].name
      BY <3>1 DEF NameAt
    <3>6. NameAt(p, n)' = folder'[Only(L)].name
      BY <3>2 DEF NameAt
    <3>7. QED  BY <3>4, <3>5, <3>6
  <2>6. BuildPath(p)' = BuildPath(p)
    BY <2>4, <2>5 DEF BuildPath
  <2>7. QED  BY <2>2, <2>6
<1>3. QED  BY <1>1, <1>2

\* Moved or renamed, a folder takes along what lies below it.
LEMMA StillBelow ==
    ASSUME NEW f \in Folders, NEW p \in Below(f),
           \A g \in Folders \ {f} : folder'[g] = folder[g],
           Exists(p)'
    PROVE  p \in Below(f)'
<1>1. ASSUME NEW S \in SUBSET Folders, p \in S, UpwardClosed(S)', f \notin S PROVE FALSE
  <2>1. UpwardClosed(S)
    BY <1>1 DEF UpwardClosed
  <2>2. QED  BY <1>1, <2>1 DEF Below
<1>2. QED  BY <1>1 DEF Below

-----------------------------------------------------------------------------
(* Types, for any number of web and Celery workers *)

\* What a worker holds in memory is what its next statement needs.
Held(j) ==
    /\ j.pc \in {"insert_folder", "save_folder", "enqueue", "delete_folder"} => j.folder \in Folders
    /\ j.pc \in {"insert_folder", "save_folder"} => j.inst.name # None
    /\ j.pc \in {"insert_file", "save_moved", "save_path"} => j.file \in Files
    /\ j.pc = "rebuild" => \A x \in j.listed : j.rows[x].name # None

JobsHeld == job \in [Workers -> Job] /\ \A w \in Workers : Held(job[w])
TInv == TypeOK /\ NoOrphans /\ JobsHeld

LEMMA IdleIsJob == IdleJob \in Job /\ Held(IdleJob) /\ IdleJob.pc = "idle" /\ IdleJob.listed = {}
<1>1. NoFolder \in FolderRow /\ NoFile \in FileRow
  <2>1. << >> \in Seq(Names)
    BY EmptySeq
  <2>2. QED  BY <2>1 DEF NoFolder, NoFile, FolderRow, FileRow, Place
<1>2. [x \in Files |-> << >>] \in [Files -> Seq(Names)]
  BY EmptySeq
<1>3. [x \in Files |-> NoFolder] \in [Files -> FolderRow]
  BY <1>1
<1>4. IdleJob \in Job
  BY <1>1, <1>2, <1>3 DEF IdleJob, Job, PCs
<1>5. Held(IdleJob)
  BY DEF Held, IdleJob
<1>6. QED  BY <1>4, <1>5 DEF IdleJob

LEMMA InitTInv == Init => TInv
<1> SUFFICES ASSUME Init PROVE TInv
  OBVIOUS
<1>1. NoFolder \in FolderRow /\ NoFile \in FileRow
  <2>1. << >> \in Seq(Names)
    BY EmptySeq
  <2>2. QED  BY <2>1 DEF NoFolder, NoFile, FolderRow, FileRow, Place
<1>2. JobsHeld
  BY IdleIsJob DEF Init, JobsHeld
<1>3. NoOrphans
  BY InitHInv DEF HInv
<1>4. TypeOK
  BY <1>1, <1>2 DEF Init, TypeOK, JobsHeld
<1>5. QED  BY <1>2, <1>3, <1>4 DEF TInv

\* One worker comes to hold j.
LEMMA OneJob ==
    ASSUME JobsHeld, NEW w \in Workers, NEW j \in Job, Held(j), job' = [job EXCEPT ![w] = j]
    PROVE  JobsHeld'
<1>1. job' \in [Workers -> Job]
  BY DEF JobsHeld
<1>2. ASSUME NEW v \in Workers PROVE Held(job'[v])
  <2>1. job'[v] = job[v] \/ job'[v] = j
    BY DEF JobsHeld
  <2>2. Held(job[v])
    BY DEF JobsHeld
  <2>3. QED  BY <2>1, <2>2
<1>3. QED  BY <1>1, <1>2 DEF JobsHeld

LEMMA JobOnly ==
    ASSUME TInv, UNCHANGED <<folder, file, queue>>, JobsHeld', moved' \subseteq Files, abandoned' \subseteq Files
    PROVE  TInv'
<1>1. NoOrphans'
  BY DEF TInv, NoOrphans, Exists, ValidPlace
<1>2. TypeOK'
  BY DEF TInv, TypeOK, JobsHeld
<1>3. QED  BY <1>1, <1>2 DEF TInv

LEMMA HeldNow ==
    ASSUME TInv, NEW w \in Workers
    PROVE  job[w] \in Job /\ Held(job[w])
BY DEF TInv, JobsHeld

LEMMA JobFields ==
    ASSUME NEW j \in Job
    PROVE  /\ j.folder \in Place /\ j.inst \in FolderRow /\ j.changed \in BOOLEAN
           /\ j.file \in Files \cup {None} /\ j.row \in FileRow /\ j.listed \in SUBSET Files
           /\ j.rows \in [Files -> FolderRow] /\ j.paths \in [Files -> Seq(Names)]
           /\ j.pc \in PCs
BY DEF Job, Place

LEMMA CreateFolderTyped ==
    ASSUME TInv, NEW w \in Web, NEW f \in Folders, CreateFolder(w, f)
    PROVE  TInv'
<1>1. PICK name \in Names, parent \in Place :
        job' = [job EXCEPT ![w].pc = "insert_folder", ![w].folder = f,
                           ![w].inst = [name |-> name, parent |-> parent]]
  BY Zenon DEF CreateFolder
<1>2. UNCHANGED <<folder, file, queue, history>>
  BY Zenon DEF CreateFolder
<1> DEFINE inst == [name |-> name, parent |-> parent]
           j == [job[w] EXCEPT !.pc = "insert_folder", !.folder = f, !.inst = inst]
<1>3. job[w] \in Job /\ w \in Workers
  BY HeldNow DEF Workers
<1>4. inst \in FolderRow /\ inst.name # None
  BY NoneAssumption DEF FolderRow
<1> HIDE DEF inst
<1>5. j \in Job
  BY <1>3, <1>4 DEF Job, PCs
<1>6. j.pc = "insert_folder" /\ j.folder = f /\ j.inst = inst
  BY <1>3 DEF Job
<1>7. job' = [job EXCEPT ![w] = j]
  BY <1>1 DEF inst
<1> HIDE DEF j
<1>8. Held(j)
  BY <1>4, <1>6 DEF Held
<1>9. JobsHeld'
  BY <1>3, <1>5, <1>7, <1>8, OneJob DEF TInv
<1>10. QED  BY <1>2, <1>9, JobOnly DEF TInv, TypeOK, history

LEMMA UpdateFolderTyped ==
    ASSUME TInv, NEW w \in Web, NEW f \in Folders, UpdateFolder(w, f)
    PROVE  TInv'
<1>1. PICK name \in Names, parent \in Place :
        job' = [job EXCEPT ![w].pc = "save_folder", ![w].folder = f,
                           ![w].inst = [name |-> name, parent |-> parent],
                           ![w].changed = Changed(f, name, parent)]
  BY Zenon DEF UpdateFolder
<1>2. UNCHANGED <<folder, file, queue, history>>
  BY Zenon DEF UpdateFolder
<1> DEFINE inst == [name |-> name, parent |-> parent]
           changed == Changed(f, name, parent)
           j == [job[w] EXCEPT !.pc = "save_folder", !.folder = f, !.inst = inst, !.changed = changed]
<1>3. job[w] \in Job /\ w \in Workers
  BY HeldNow DEF Workers
<1>4. inst \in FolderRow /\ inst.name # None /\ changed \in BOOLEAN
  BY NoneAssumption DEF FolderRow, Changed
<1> HIDE DEF inst, changed
<1>5. j \in Job
  BY <1>3, <1>4 DEF Job, PCs
<1>6. j.pc = "save_folder" /\ j.folder = f /\ j.inst = inst
  BY <1>3 DEF Job
<1>7. job' = [job EXCEPT ![w] = j]
  BY <1>1 DEF inst, changed
<1> HIDE DEF j
<1>8. Held(j)
  BY <1>4, <1>6 DEF Held
<1>9. JobsHeld'
  BY <1>3, <1>5, <1>7, <1>8, OneJob DEF TInv
<1>10. QED  BY <1>2, <1>9, JobOnly DEF TInv, TypeOK, history

LEMMA CheckEmptyTyped ==
    ASSUME TInv, NEW w \in Web, NEW f \in Folders, CheckEmpty(w, f)
    PROVE  TInv'
<1> DEFINE j == [job[w] EXCEPT !.pc = "delete_folder", !.folder = f]
<1>1. job' = [job EXCEPT ![w] = j] /\ UNCHANGED <<folder, file, queue, history>>
  BY DEF CheckEmpty
<1>2. job[w] \in Job /\ w \in Workers
  BY HeldNow DEF Workers
<1>3. j \in Job /\ j.pc = "delete_folder" /\ j.folder = f
  BY <1>2 DEF Job, PCs
<1> HIDE DEF j
<1>4. Held(j)
  BY <1>3 DEF Held
<1>5. QED  BY <1>1, <1>2, <1>3, <1>4, OneJob, JobOnly DEF TInv, TypeOK, history

LEMMA GotoIfWalkEndsTyped ==
    ASSUME TInv, NEW w \in Workers, NEW p, NEW loaded, GotoIfWalkEnds(w, p, loaded),
           WalkEnds(p) => loaded \in Job /\ Held(loaded)
    PROVE  JobsHeld'
<1>1. CASE WalkEnds(p)
  <2>1. job' = [job EXCEPT ![w] = loaded]
    BY <1>1 DEF GotoIfWalkEnds
  <2>2. QED  BY <1>1, <2>1, OneJob DEF TInv
<1>2. CASE ~WalkEnds(p)
  <2> DEFINE j == [job[w] EXCEPT !.pc = "stuck"]
  <2>1. job' = [job EXCEPT ![w] = j]
    BY <1>2 DEF GotoIfWalkEnds
  <2>2. j \in Job /\ j.pc = "stuck"
    BY HeldNow DEF Job, PCs
  <2> HIDE DEF j
  <2>3. Held(j)
    BY <2>2 DEF Held
  <2>4. QED  BY <2>1, <2>2, <2>3, OneJob DEF TInv
<1>3. QED  BY <1>1, <1>2

LEMMA ReturnTyped ==
    ASSUME TInv, NEW w \in Workers, Return(w)
    PROVE  JobsHeld'
BY IdleIsJob, OneJob DEF TInv, Return

LEMMA CreateFileTyped ==
    ASSUME TInv, NEW w \in Web, NEW x \in Files, CreateFile(w, x)
    PROVE  TInv'
<1>1. PICK p \in Place :
        GotoIfWalkEnds(w, p, [IdleJob EXCEPT !.pc = "insert_file", !.file = x,
          !.row = [made |-> TRUE, folder |-> p, path |-> BuildPath(p), binned |-> FALSE]])
  BY Zenon DEF CreateFile
<1>2. UNCHANGED <<folder, file, queue, history>>
  BY Zenon DEF CreateFile
<1> DEFINE row == [made |-> TRUE, folder |-> p, path |-> BuildPath(p), binned |-> FALSE]
           j == [IdleJob EXCEPT !.pc = "insert_file", !.file = x, !.row = row]
<1>3. ASSUME WalkEnds(p) PROVE j \in Job /\ Held(j)
  <2>1. BuildPath(p) \in Seq(Names)
    BY <1>3, PathIsTyped DEF TInv, TypeOK, Tree
  <2>2. row \in FileRow
    BY <2>1 DEF FileRow
  <2> HIDE DEF row
  <2>3. j \in Job /\ j.pc = "insert_file" /\ j.file = x
    BY <2>2, IdleIsJob DEF Job, PCs
  <2> HIDE DEF j
  <2>4. QED  BY <2>3 DEF Held
<1>4. GotoIfWalkEnds(w, p, j)
  BY <1>1
<1> HIDE DEF j
<1>5. JobsHeld'
  BY <1>3, <1>4, GotoIfWalkEndsTyped DEF Workers
<1>6. QED  BY <1>2, <1>5, JobOnly DEF TInv, TypeOK, history

LEMMA MoveFileTyped ==
    ASSUME TInv, NEW w \in Web, NEW x \in Files, MoveFile(w, x)
    PROVE  TInv'
<1>1. PICK p \in Place :
        job' = [job EXCEPT ![w].pc = "save_moved", ![w].file = x,
                           ![w].row = [file[x] EXCEPT !.folder = p]]
  BY Zenon DEF MoveFile
<1>2. UNCHANGED <<folder, file, queue, abandoned>> /\ moved' = moved \cup {x}
  BY Zenon DEF MoveFile
<1> DEFINE row == [file[x] EXCEPT !.folder = p]
           j == [job[w] EXCEPT !.pc = "save_moved", !.file = x, !.row = row]
<1>3. job[w] \in Job /\ w \in Workers
  BY HeldNow DEF Workers
<1>4. row \in FileRow
  BY DEF TInv, TypeOK, FileRow
<1> HIDE DEF row
<1>5. j \in Job /\ j.pc = "save_moved" /\ j.file = x
  BY <1>3, <1>4 DEF Job, PCs
<1>6. job' = [job EXCEPT ![w] = j]
  BY <1>1 DEF row
<1> HIDE DEF j
<1>7. Held(j)
  BY <1>5 DEF Held
<1>8. QED  BY <1>2, <1>3, <1>5, <1>6, <1>7, OneJob, JobOnly DEF TInv, TypeOK

LEMMA WriteFileTyped ==
    ASSUME TInv, NEW w \in Workers, WriteFile(w)
    PROVE  file' \in [Files -> FileRow]
<1>1. job[w].row \in FileRow
  BY HeldNow, JobFields
<1>2. file \in [Files -> FileRow]
  BY DEF TInv, TypeOK
<1> DEFINE x == job[w].file
           row == job[w].row
<1>3. file' = file \/ file' = [file EXCEPT ![x] = row]
  BY DEF WriteFile
<1> HIDE DEF x, row
<1>4. row \in FileRow
  BY <1>1 DEF row
<1>5. QED  BY <1>2, <1>3, <1>4

\* A step that writes files, and no folder.
LEMMA FilesOnly ==
    ASSUME TInv, UNCHANGED <<folder, queue>>, file' \in [Files -> FileRow], JobsHeld',
           moved' \subseteq Files, abandoned' \subseteq Files
    PROVE  TInv'
<1>1. NoOrphans'
  BY DEF TInv, NoOrphans, Exists, ValidPlace
<1>2. TypeOK'
  BY DEF TInv, TypeOK, JobsHeld
<1>3. QED  BY <1>1, <1>2 DEF TInv

LEMMA SaveMovedTyped ==
    ASSUME TInv, NEW w \in Web, SaveMoved(w)
    PROVE  TInv'
<1>1. w \in Workers /\ UNCHANGED <<folder, queue, history>>
  BY DEF SaveMoved, Workers
<1>2. file' \in [Files -> FileRow]
  BY <1>1, WriteFileTyped DEF SaveMoved
<1>3. JobsHeld'
  <2>1. CASE Return(w)
    BY <2>1, <1>1, ReturnTyped
  <2>2. CASE ~Return(w)
    <3> DEFINE p == job[w].row.folder
               row == [job[w].row EXCEPT !.path = BuildPath(p)]
               j == [job[w] EXCEPT !.pc = "save_path", !.row.path = BuildPath(p)]
    <3>1. GotoIfWalkEnds(w, p, j)
      BY <2>2 DEF SaveMoved
    <3>2. job[w] \in Job /\ Held(job[w]) /\ job[w].row \in FileRow /\ job[w].pc = "save_moved"
      BY <1>1, HeldNow, JobFields DEF SaveMoved, At
    <3>3. ASSUME WalkEnds(p) PROVE j \in Job /\ Held(j)
      <4>1. BuildPath(p) \in Seq(Names)
        BY <3>3, PathIsTyped DEF TInv, TypeOK, Tree
      <4>2. row \in FileRow
        BY <4>1, <3>2 DEF FileRow
      <4>3. j = [job[w] EXCEPT !.pc = "save_path", !.row = row]
        BY <3>2 DEF Job
      <4> HIDE DEF row, p, j
      <4>4. j \in Job /\ j.pc = "save_path" /\ j.file = job[w].file
        BY <3>2, <4>2, <4>3 DEF Job, PCs
      <4>5. job[w].file \in Files
        BY <3>2 DEF Held
      <4>6. QED  BY <4>4, <4>5 DEF Held
    <3> HIDE DEF p, j
    <3>4. QED  BY <1>1, <3>1, <3>3, GotoIfWalkEndsTyped
  <2>3. QED  BY <2>1, <2>2
<1>4. QED  BY <1>1, <1>2, <1>3, FilesOnly DEF TInv, TypeOK, history

LEMMA WriteAndReturnTyped ==
    ASSUME TInv, NEW w \in Web, InsertFile(w) \/ SavePath(w)
    PROVE  TInv'
<1>1. w \in Workers /\ UNCHANGED <<folder, queue, history>> /\ WriteFile(w) /\ Return(w)
  BY DEF InsertFile, SavePath, Workers
<1>2. QED  BY <1>1, WriteFileTyped, ReturnTyped, FilesOnly DEF TInv, TypeOK, history

LEMMA BinTyped ==
    ASSUME TInv, Bin
    PROVE  TInv'
<1>1. PICK x \in Files : SoftDelete(x) \/ Restore(x)
  BY DEF Bin
<1>2. /\ UNCHANGED <<folder, queue, job, abandoned>> /\ moved' = moved \cup {x}
      /\ \/ file' = [file EXCEPT ![x].binned = TRUE, ![x].folder = None]
         \/ file' = [file EXCEPT ![x].binned = FALSE]
  BY <1>1 DEF SoftDelete, Restore
<1>3. file' \in [Files -> FileRow]
  <2>1. file[x] \in FileRow /\ file \in [Files -> FileRow]
    BY DEF TInv, TypeOK
  <2>2. [file[x] EXCEPT !.binned = TRUE, !.folder = None] \in FileRow
    BY <2>1 DEF FileRow, Place
  <2>3. [file[x] EXCEPT !.binned = FALSE] \in FileRow
    BY <2>1 DEF FileRow
  <2>4. CASE file' = [file EXCEPT ![x].binned = TRUE, ![x].folder = None]
    BY <2>1, <2>2, <2>4
  <2>5. CASE file' = [file EXCEPT ![x].binned = FALSE]
    BY <2>1, <2>3, <2>5
  <2>6. QED  BY <1>2, <2>4, <2>5
<1>4. JobsHeld'
  <2>1. job' = job
    BY <1>2
  <2>2. QED  BY <2>1 DEF TInv, JobsHeld
<1>5. QED  BY <1>2, <1>3, <1>4, FilesOnly DEF TInv, TypeOK

\* The writes of folders keep every parent in place, circles or not.
LEMMA WriteKeepsTree ==
    ASSUME Tree, NEW f \in Folders, NEW inst \in FolderRow, inst.name # None,
           ValidPlace(inst.parent), folder' = [folder EXCEPT ![f] = inst]
    PROVE  Tree'
<1>1. folder' \in [Folders -> FolderRow]
  BY DEF Tree
<1>2. folder'[f] = inst /\ \A g \in Folders \ {f} : folder'[g] = folder[g]
  BY DEF Tree
<1>3. \A g \in Folders : Exists(g) => Exists(g)'
  BY <1>2 DEF Exists
<1>4. \A p : ValidPlace(p) => ValidPlace(p)'
  BY <1>3 DEF ValidPlace
<1>5. NoOrphans'
  BY <1>2, <1>4 DEF Tree, NoOrphans, Exists
<1>6. QED  BY <1>1, <1>5 DEF Tree

LEMMA DeleteKeepsTree ==
    ASSUME Tree, NEW f,
           folder' = [g \in Folders |-> IF g \in Below(f) THEN NoFolder ELSE folder[g]]
    PROVE  Tree'
<1>1. folder' \in [Folders -> FolderRow]
  BY DEF Tree, FolderRow, NoFolder, Place
<1>2. ASSUME NEW g \in Folders, Exists(g), g \notin Below(f)
      PROVE  folder[g].parent \notin Below(f)
  <2>1. PICK U \in SUBSET Folders : g \in U /\ UpwardClosed(U) /\ f \notin U
    BY <1>2 DEF Below
  <2>2. folder[g].parent \in U \cup {None}
    BY <2>1 DEF UpwardClosed
  <2>3. QED  BY <2>1, <2>2, NoneAssumption DEF Below
<1>3. NoOrphans'
  BY <1>2 DEF Tree, NoOrphans, Exists, ValidPlace, NoFolder
<1>4. QED  BY <1>1, <1>3 DEF Tree

\* A step that writes folders, and perhaps files.
LEMMA FoldersToo ==
    ASSUME TInv, UNCHANGED <<queue, history>>, Tree', file' \in [Files -> FileRow], JobsHeld'
    PROVE  TInv'
BY DEF TInv, TypeOK, Tree, JobsHeld, history

LEMMA InsertFolderTyped ==
    ASSUME TInv, NEW w \in Web, InsertFolder(w)
    PROVE  TInv'
<1> DEFINE f == job[w].folder
           inst == job[w].inst
<1>1. w \in Workers /\ job[w].pc = "insert_folder" /\ job[w] \in Job /\ Held(job[w])
  BY HeldNow DEF InsertFolder, At, Workers
<1>2. f \in Folders /\ inst \in FolderRow /\ inst.name # None
  BY <1>1, JobFields DEF Held
<1>3. Tree'
  <2>1. CASE Storable(f, inst)
    <3>1. folder' = [folder EXCEPT ![f] = inst] /\ ValidPlace(inst.parent)
      BY <2>1 DEF InsertFolder, Storable
    <3> HIDE DEF f, inst
    <3>2. QED  BY <1>2, <3>1, WriteKeepsTree DEF TInv, TypeOK, Tree
  <2>2. CASE ~Storable(f, inst)
    BY <2>2 DEF InsertFolder, TInv, TypeOK, Tree, NoOrphans, Exists, ValidPlace
  <2>3. QED  BY <2>1, <2>2
<1>4. JobsHeld' /\ UNCHANGED <<file, queue, history>>
  BY <1>1, ReturnTyped DEF InsertFolder
<1>5. QED  BY <1>3, <1>4, FoldersToo DEF TInv, TypeOK

LEMMA SaveFolderTyped ==
    ASSUME TInv, NEW w \in Web, SaveFolder(w)
    PROVE  TInv'
<1> DEFINE f == job[w].folder
           inst == job[w].inst
<1>1. w \in Workers /\ job[w].pc = "save_folder" /\ job[w] \in Job /\ Held(job[w])
  BY HeldNow DEF SaveFolder, At, Workers
<1>2. f \in Folders /\ inst \in FolderRow /\ inst.name # None
  BY <1>1, JobFields DEF Held
<1>3. Tree'
  <2>1. CASE Storable(f, inst)
    <3>1. folder' = [folder EXCEPT ![f] = inst] /\ ValidPlace(inst.parent)
      BY <2>1 DEF SaveFolder, Storable
    <3> HIDE DEF f, inst
    <3>2. QED  BY <1>2, <3>1, WriteKeepsTree DEF TInv, TypeOK, Tree
  <2>2. CASE ~Storable(f, inst)
    BY <2>2 DEF SaveFolder, TInv, TypeOK, Tree, NoOrphans, Exists, ValidPlace
  <2>3. QED  BY <2>1, <2>2
<1>4. JobsHeld'
  <2>1. CASE Return(w)
    BY <2>1, <1>1, ReturnTyped
  <2>2. CASE Goto(w, "enqueue")
    <3> DEFINE j == [job[w] EXCEPT !.pc = "enqueue"]
    <3>1. job' = [job EXCEPT ![w] = j]
      BY <2>2 DEF Goto
    <3>2. j \in Job /\ j.pc = "enqueue" /\ j.folder = f
      BY <1>1 DEF Job, PCs
    <3> HIDE DEF j, f
    <3>3. Held(j)
      BY <1>2, <3>2 DEF Held
    <3>4. QED  BY <1>1, <3>1, <3>2, <3>3, OneJob DEF TInv
  <2>3. QED  BY <2>1, <2>2 DEF SaveFolder
<1>5. UNCHANGED <<file, queue, history>>
  BY DEF SaveFolder
<1>6. QED  BY <1>3, <1>4, <1>5, FoldersToo DEF TInv, TypeOK

LEMMA DeleteFolderTyped ==
    ASSUME TInv, NEW w \in Web, DeleteFolder(w)
    PROVE  TInv'
<1>1. PICK f : f = job[w].folder
  OBVIOUS
<1>2. /\ folder' = [g \in Folders |-> IF g \in Below(f) THEN NoFolder ELSE folder[g]]
      /\ file' = [x \in Files |-> IF file[x].folder \in Below(f)
                                  THEN [file[x] EXCEPT !.folder = None] ELSE file[x]]
      /\ UNCHANGED <<queue, history>> /\ Return(w)
  BY <1>1 DEF DeleteFolder
<1>3. Tree'
  BY <1>2, DeleteKeepsTree DEF TInv, TypeOK, Tree
<1>4. file' \in [Files -> FileRow]
  <2>1. \A x \in Files : file[x] \in FileRow /\ [file[x] EXCEPT !.folder = None] \in FileRow
    BY DEF TInv, TypeOK, FileRow, Place
  <2>2. QED  BY <1>2, <2>1
<1>5. JobsHeld'
  BY <1>2, ReturnTyped DEF Workers
<1>6. QED  BY <1>2, <1>3, <1>4, <1>5, FoldersToo

LEMMA EnqueueTyped ==
    ASSUME TInv, NEW w \in Web, EnqueuePathTask(w)
    PROVE  TInv'
<1>1. queue' \in [Folders -> Nat]
  <2>1. job[w].folder \in Folders
    BY HeldNow DEF EnqueuePathTask, At, Held, Workers
  <2>2. queue' = [queue EXCEPT ![job[w].folder] = @ + 1]
    BY DEF EnqueuePathTask
  <2>3. QED  BY <2>1, <2>2 DEF TInv, TypeOK
<1>2. JobsHeld' /\ UNCHANGED <<folder, file, history>>
  BY ReturnTyped DEF EnqueuePathTask, Workers
<1>3. NoOrphans'
  BY <1>2 DEF TInv, NoOrphans, Exists, ValidPlace
<1>4. QED  BY <1>1, <1>2, <1>3 DEF TInv, TypeOK, JobsHeld, history

LEMMA StartPathTaskTyped ==
    ASSUME TInv, NEW c \in Celery, NEW f \in Folders, StartPathTask(c, f)
    PROVE  TInv'
<1> DEFINE listed == FilesIncludingNested(f)
           rows == [x \in Files |-> IF x \in listed THEN folder[file[x].folder] ELSE NoFolder]
<1>1. c \in Workers /\ job[c] \in Job /\ Held(job[c])
  BY HeldNow DEF Workers
<1>2. queue' \in [Folders -> Nat]
  <2>1. queue[f] > 0 /\ queue' = [queue EXCEPT ![f] = @ - 1]
    BY Zenon DEF StartPathTask
  <2>2. QED  BY <2>1 DEF TInv, TypeOK
<1>3. listed \in SUBSET Files
  BY DEF FilesIncludingNested
<1>4. \A x \in listed : folder[file[x].folder] \in FolderRow /\ folder[file[x].folder].name # None
  BY DEF FilesIncludingNested, Below, Exists, TInv, TypeOK
<1>5. NoFolder \in FolderRow
  BY DEF NoFolder, FolderRow, Place
<1> HIDE DEF listed
<1>6. rows \in [Files -> FolderRow] /\ \A x \in listed : rows[x].name # None
  BY <1>3, <1>4, <1>5
<1>7. \/ UNCHANGED job
      \/ job' = [job EXCEPT ![c].pc = "stuck"]
      \/ job' = [job EXCEPT ![c].pc = "rebuild", ![c].listed = listed, ![c].rows = rows]
  BY Zenon DEF StartPathTask, listed
<1> HIDE DEF rows
<1>8. JobsHeld'
  <2>1. CASE UNCHANGED job
    BY <2>1 DEF TInv, JobsHeld
  <2>2. CASE job' = [job EXCEPT ![c].pc = "stuck"]
    <3> DEFINE j == [job[c] EXCEPT !.pc = "stuck"]
    <3>1. j \in Job /\ j.pc = "stuck" /\ job' = [job EXCEPT ![c] = j]
      BY <2>2, <1>1 DEF Job, PCs
    <3> HIDE DEF j
    <3>2. Held(j)
      BY <3>1 DEF Held
    <3>3. QED  BY <1>1, <3>1, <3>2, OneJob DEF TInv
  <2>3. CASE job' = [job EXCEPT ![c].pc = "rebuild", ![c].listed = listed, ![c].rows = rows]
    <3> DEFINE j == [job[c] EXCEPT !.pc = "rebuild", !.listed = listed, !.rows = rows]
    <3>1. j \in Job /\ j.pc = "rebuild" /\ j.listed = listed /\ j.rows = rows
      BY <1>1, <1>3, <1>6 DEF Job, PCs
    <3>2. job' = [job EXCEPT ![c] = j]
      BY <2>3
    <3> HIDE DEF j
    <3>3. Held(j)
      BY <3>1, <1>6 DEF Held
    <3>4. QED  BY <1>1, <3>1, <3>2, <3>3, OneJob DEF TInv
  <2>4. QED  BY <1>7, <2>1, <2>2, <2>3
<1>9. UNCHANGED <<folder, file, history>>
  BY Zenon DEF StartPathTask
<1>10. NoOrphans'
  BY <1>9 DEF TInv, NoOrphans, Exists, ValidPlace
<1>11. QED  BY <1>2, <1>8, <1>9, <1>10 DEF TInv, TypeOK, JobsHeld, history

LEMMA RebuildPathsTyped ==
    ASSUME TInv, NEW c \in Celery, RebuildPaths(c)
    PROVE  TInv'
<1> DEFINE listed == job[c].listed
           rows == job[c].rows
           found == {x \in listed : ValidPlace(rows[x].parent)}
           rebuilt == [x \in Files |-> IF x \in listed
                                    THEN Append(BuildPath(rows[x].parent), rows[x].name) ELSE << >>]
<1>1. c \in Workers /\ job[c] \in Job /\ Held(job[c]) /\ job[c].pc = "rebuild"
  BY HeldNow DEF Workers, RebuildPaths, At
<1>2. /\ UNCHANGED <<folder, file, queue, moved>>
      /\ abandoned' = abandoned \cup found \/ abandoned' = abandoned
      /\ \/ Return(c)
         \/ job' = [job EXCEPT ![c].pc = "stuck"]
         \/ /\ found = listed /\ \A x \in listed : WalkEnds(rows[x].parent)
            /\ job' = [job EXCEPT ![c].pc = "bulk_update", ![c].paths = rebuilt,
                                 ![c].rows = IdleJob.rows]
  <2>1. CASE found # listed /\ Return(c) /\ abandoned' = abandoned \cup found
    BY <2>1, Zenon DEF RebuildPaths
  <2>2. CASE (found = listed \/ \E x \in found : ~WalkEnds(rows[x].parent)) /\ UNCHANGED abandoned
    <3>1. CASE \A x \in found : WalkEnds(rows[x].parent)
      <4>1. found = listed
        BY <2>2, <3>1
      <4>2. \A x \in listed : WalkEnds(rows[x].parent)
        BY <3>1, <4>1
      <4>3. \/ Return(c)
            \/ job' = [job EXCEPT ![c].pc = "bulk_update", ![c].paths = rebuilt, ![c].rows = IdleJob.rows]
        BY <3>1, Zenon DEF RebuildPaths
      <4>4. UNCHANGED <<folder, file, queue, moved>>
        BY Zenon DEF RebuildPaths
      <4>5. QED  BY <4>1, <4>2, <4>3, <4>4, <2>2
    <3>2. CASE ~(\A x \in found : WalkEnds(rows[x].parent))
      <4>1. Return(c) \/ job' = [job EXCEPT ![c].pc = "stuck"]
        BY <3>2, Zenon DEF RebuildPaths
      <4>2. UNCHANGED <<folder, file, queue, moved>>
        BY Zenon DEF RebuildPaths
      <4>3. QED  BY <4>1, <4>2, <2>2
    <3>3. QED  BY <3>1, <3>2
  <2>3. QED  BY <2>1, <2>2, Zenon DEF RebuildPaths
<1>3. listed \in SUBSET Files /\ rows \in [Files -> FolderRow] /\ \A x \in listed : rows[x].name # None
  BY <1>1, JobFields DEF Held
<1>4. JobsHeld'
  <2>1. CASE Return(c)
    BY <2>1, <1>1, ReturnTyped
  <2>2. CASE job' = [job EXCEPT ![c].pc = "stuck"]
    <3> DEFINE j == [job[c] EXCEPT !.pc = "stuck"]
    <3>1. j \in Job /\ j.pc = "stuck" /\ job' = [job EXCEPT ![c] = j]
      BY <2>2, <1>1 DEF Job, PCs
    <3> HIDE DEF j
    <3>2. Held(j)
      BY <3>1 DEF Held
    <3>3. QED  BY <1>1, <3>1, <3>2, OneJob DEF TInv
  <2>3. CASE /\ \A x \in listed : WalkEnds(rows[x].parent)
             /\ job' = [job EXCEPT ![c].pc = "bulk_update", ![c].paths = rebuilt,
                                  ![c].rows = IdleJob.rows]
    <3> DEFINE j == [job[c] EXCEPT !.pc = "bulk_update", !.paths = rebuilt, !.rows = IdleJob.rows]
    <3>1. \A x \in listed : Append(BuildPath(rows[x].parent), rows[x].name) \in Seq(Names)
      <4> TAKE x \in listed
      <4>1. BuildPath(rows[x].parent) \in Seq(Names)
        BY <2>3, PathIsTyped DEF TInv, TypeOK, Tree
      <4>2. rows[x].name \in Names
        BY <1>3 DEF FolderRow
      <4>3. QED  BY <4>1, <4>2, AppendProperties
    <3>2. rebuilt \in [Files -> Seq(Names)]
      BY <3>1, EmptySeq
    <3>3. job' = [job EXCEPT ![c] = j]
      BY <2>3
    <3> HIDE DEF rebuilt
    <3>4. j \in Job /\ j.pc = "bulk_update"
      BY <1>1, <3>2, IdleIsJob DEF Job, PCs
    <3> HIDE DEF j
    <3>5. Held(j)
      BY <3>4 DEF Held
    <3>6. QED  BY <1>1, <3>3, <3>4, <3>5, OneJob DEF TInv
  <2>4. QED  BY <1>2, <2>1, <2>2, <2>3
<1>5. moved' \subseteq Files /\ abandoned' \subseteq Files
  BY <1>2, <1>3 DEF TInv, TypeOK
<1>6. QED  BY <1>2, <1>4, <1>5, JobOnly

LEMMA BulkUpdateTyped ==
    ASSUME TInv, NEW c \in Celery, BulkUpdate(c)
    PROVE  TInv'
<1>1. c \in Workers /\ job[c] \in Job
  BY HeldNow DEF Workers
<1>2. job[c].paths \in [Files -> Seq(Names)] /\ file \in [Files -> FileRow]
  BY <1>1, JobFields DEF TInv, TypeOK
<1>3. \A x \in Files : [file[x] EXCEPT !.path = job[c].paths[x]] \in FileRow
  BY <1>2 DEF FileRow
<1>4. file' \in [Files -> FileRow]
  BY <1>2, <1>3 DEF BulkUpdate
<1>5. JobsHeld' /\ UNCHANGED <<folder, queue, moved>> /\ abandoned' \subseteq Files
  BY <1>1, ReturnTyped DEF BulkUpdate, TInv, TypeOK
<1>6. QED  BY <1>4, <1>5, FilesOnly DEF TInv, TypeOK

LEMMA StepTInv == TInv /\ [Next]_vars => TInv'
<1> SUFFICES ASSUME TInv, [Next]_vars PROVE TInv'
  OBVIOUS
<1>1. ASSUME NEW w \in Web, Request(w)
      PROVE  TInv'
  BY <1>1, CreateFolderTyped, UpdateFolderTyped, CheckEmptyTyped, CreateFileTyped, MoveFileTyped DEF Request
<1>2. ASSUME NEW w \in Web, Step(w)
      PROVE  TInv'
  BY <1>2, InsertFolderTyped, SaveFolderTyped, EnqueueTyped, DeleteFolderTyped,
     WriteAndReturnTyped, SaveMovedTyped DEF Step
<1>3. ASSUME NEW c \in Celery, Task(c)
      PROVE  TInv'
  BY <1>3, StartPathTaskTyped, RebuildPathsTyped, BulkUpdateTyped DEF Task
<1>4. CASE UNCHANGED vars
  <2>1. UNCHANGED <<folder, file, queue, job, moved, abandoned>>
    BY <1>4 DEF vars, history
  <2>2. JobsHeld'
    BY <2>1 DEF TInv, JobsHeld
  <2>3. QED  BY <2>1, <2>2, JobOnly DEF TInv, TypeOK
<1>5. QED  BY <1>1, <1>2, <1>3, <1>4, BinTyped DEF Next

\* Every state is well typed, whatever users do and however many workers serve
\* them: the paths rebuilt are lists of names even where folders lie in a circle.
THEOREM TypeCorrect == Spec => []TypeOK
<1>1. TInv => TypeOK
  BY DEF TInv
<1>2. QED  BY InitTInv, StepTInv, <1>1, PTL DEF Spec

-----------------------------------------------------------------------------
(* One web worker: what a request has read is still so when it writes *)

FilesKept ==
    \A x \in Files :
        /\ file[x].binned => file[x].folder = None
        /\ ~file[x].made => file[x].folder = None /\ ~file[x].binned
        /\ ValidPlace(file[x].folder)

SaveIsDue(w) ==
    At(w, "save_folder") => (job[w].changed <=> job[w].inst # folder[job[w].folder])
StillEmpty(w) ==
    At(w, "delete_folder") => Exists(job[w].folder) /\ IsEmpty(job[w].folder)
InsertIsRight(w) ==
    At(w, "insert_file") =>
        /\ ~file[job[w].file].made /\ job[w].row.made /\ ~job[w].row.binned
        /\ ValidPlace(job[w].row.folder)
        /\ job[w].row.path = BuildPath(job[w].row.folder)
SavesMoved(w) ==
    At(w, "save_moved") \/ At(w, "save_path") =>
        job[w].file \in moved /\ job[w].row.made /\ ~job[w].row.binned
WebJob(w) == SaveIsDue(w) /\ StillEmpty(w) /\ InsertIsRight(w) /\ SavesMoved(w)

WInv == HInv /\ TInv /\ FilesKept /\ \A w \in Web : WebJob(w)

\* Nothing of that is said of a worker between two requests, or about to queue a task.
LEMMA NothingHeld ==
    ASSUME NEW w, job'[w].pc \in {"idle", "enqueue", "insert_folder", "stuck"}
    PROVE  WebJob(w)'
BY DEF WebJob, SaveIsDue, StillEmpty, InsertIsRight, SavesMoved, At

LEMMA FilesKeptSame ==
    ASSUME FilesKept, UNCHANGED <<folder, file>>
    PROVE  FilesKept'
BY DEF FilesKept, ValidPlace, Exists

LEMMA IdleAfterReturn ==
    ASSUME TInv, NEW w \in Workers, Return(w)
    PROVE  job'[w] = IdleJob /\ \A v \in Workers \ {w} : job'[v] = job[v]
BY DEF TInv, JobsHeld, Return

\* Others may throw files away, restore them or correct their paths.
LEMMA WebJobKept ==
    ASSUME WInv, NEW w \in Web, UNCHANGED folder, job'[w] = job[w], moved \subseteq moved',
           \A x \in Files : /\ file'[x].made = file[x].made
                            /\ Live(x)' /\ file'[x].folder \in Folders =>
                                 Live(x) /\ file[x].folder = file'[x].folder
    PROVE  WebJob(w)'
<1>0. WebJob(w) /\ Held(job[w]) /\ job[w] \in Job
  BY HeldNow DEF WInv, Workers
<1>1. SaveIsDue(w)'
  BY <1>0 DEF WebJob, SaveIsDue, At
<1>2. StillEmpty(w)'
  <2> SUFFICES ASSUME At(w, "delete_folder")
               PROVE  Exists(job[w].folder)' /\ IsEmpty(job[w].folder)'
    BY DEF StillEmpty, At
  <2>1. PICK f \in Folders : f = job[w].folder
    BY <1>0 DEF Held, At
  <2>2. Exists(f) /\ ~HasSubfolders(f) /\ ~HasFiles(f)
    BY <1>0, <2>1 DEF WebJob, StillEmpty, IsEmpty
  <2>3. Exists(f)' /\ ~HasSubfolders(f)'
    BY <2>2 DEF Exists, HasSubfolders
  <2>4. ~HasFiles(f)'
    BY <2>2 DEF HasFiles
  <2>5. job'[w].folder = f
    BY <2>1
  <2>6. QED  BY <2>3, <2>4, <2>5 DEF IsEmpty, Exists, HasSubfolders, HasFiles
<1>3. InsertIsRight(w)'
  <2> SUFFICES ASSUME At(w, "insert_file") PROVE InsertIsRight(w)'
    BY DEF InsertIsRight, At
  <2>1. PICK x, row : x \in Files /\ x = job[w].file /\ row = job[w].row
    BY <1>0 DEF Held, At
  <2>2. /\ ~file[x].made /\ row.made /\ ~row.binned /\ ValidPlace(row.folder)
        /\ row.path = BuildPath(row.folder)
    BY <1>0, <2>1 DEF WebJob, InsertIsRight
  <2>3. PICK p : p = row.folder
    OBVIOUS
  <2>4. ValidPlace(p)' /\ row.path = BuildPath(p)'
    BY <2>2, <2>3, SameFolders
  <2>5. job'[w].file = x /\ job'[w].row = row /\ ~file'[x].made
    BY <2>1, <2>2
  <2>6. QED  BY <2>2, <2>3, <2>4, <2>5 DEF InsertIsRight
<1>4. SavesMoved(w)'
  BY <1>0 DEF WebJob, SavesMoved, At
<1>5. QED  BY <1>1, <1>2, <1>3, <1>4 DEF WebJob

LEMMA UpdateFolderHeld ==
    ASSUME WInv, NEW w \in Web, NEW f \in Folders, UpdateFolder(w, f)
    PROVE  FilesKept' /\ WebJob(w)'
<1>1. PICK name \in Names, parent \in Place :
        job' = [job EXCEPT ![w].pc = "save_folder", ![w].folder = f,
                           ![w].inst = [name |-> name, parent |-> parent],
                           ![w].changed = Changed(f, name, parent)]
  BY Zenon DEF UpdateFolder
<1>2. UNCHANGED <<folder, file>>
  BY Zenon DEF UpdateFolder
<1>3. PICK changed, inst :
        changed = Changed(f, name, parent) /\ inst = [name |-> name, parent |-> parent]
  OBVIOUS
<1>4. job[w] \in Job /\ w \in DOMAIN job
  BY HeldNow DEF WInv, TInv, JobsHeld, Workers
<1>5. /\ job'[w].pc = "save_folder" /\ job'[w].folder = f /\ job'[w].inst = inst
      /\ job'[w].changed = changed
  BY <1>1, <1>3, <1>4 DEF Job
<1>6. folder[f] \in FolderRow
  BY DEF WInv, TInv, TypeOK
<1>7. changed <=> inst # folder[f]
  <2>1. inst = [name |-> name, parent |-> parent]
    BY <1>3
  <2>2. Changed(f, name, parent) <=> inst # folder[f]
    BY <2>1, <1>6 DEF Changed, FolderRow
  <2>3. QED  BY <2>2, <1>3, Zenon
<1>8. SaveIsDue(w)'
  BY <1>2, <1>5, <1>7 DEF SaveIsDue
<1>9. StillEmpty(w)' /\ InsertIsRight(w)' /\ SavesMoved(w)'
  BY <1>5 DEF StillEmpty, InsertIsRight, SavesMoved, At
<1>10. QED  BY <1>2, <1>8, <1>9, FilesKeptSame DEF WebJob, WInv

LEMMA CheckEmptyHeld ==
    ASSUME WInv, NEW w \in Web, NEW f \in Folders, CheckEmpty(w, f)
    PROVE  FilesKept' /\ WebJob(w)'
<1>1. /\ job' = [job EXCEPT ![w].pc = "delete_folder", ![w].folder = f]
      /\ UNCHANGED <<folder, file>> /\ Exists(f) /\ IsEmpty(f)
  BY DEF CheckEmpty
<1>2. job[w] \in Job /\ w \in DOMAIN job
  BY HeldNow DEF WInv, TInv, JobsHeld, Workers
<1>3. job'[w].pc = "delete_folder" /\ job'[w].folder = f
  BY <1>1, <1>2 DEF Job
<1>4. Exists(f)' /\ IsEmpty(f)'
  BY <1>1 DEF Exists, IsEmpty, HasSubfolders, HasFiles, Live
<1>5. StillEmpty(w)'
  <2>1. Exists(job[w].folder)' /\ IsEmpty(job[w].folder)'
    BY <1>3, <1>4 DEF Exists, IsEmpty, HasSubfolders, HasFiles
  <2>2. QED  BY <2>1 DEF StillEmpty
<1>6. SaveIsDue(w)' /\ InsertIsRight(w)' /\ SavesMoved(w)'
  BY <1>3 DEF SaveIsDue, InsertIsRight, SavesMoved, At
<1>7. QED  BY <1>1, <1>5, <1>6, FilesKeptSame DEF WebJob, WInv

LEMMA CreateFileHeld ==
    ASSUME WInv, NEW w \in Web, NEW x \in Files, CreateFile(w, x)
    PROVE  FilesKept' /\ WebJob(w)'
<1>1. PICK p \in Place :
        /\ ValidPlace(p)
        /\ GotoIfWalkEnds(w, p, [IdleJob EXCEPT !.pc = "insert_file", !.file = x,
          !.row = [made |-> TRUE, folder |-> p, path |-> BuildPath(p), binned |-> FALSE]])
  BY Zenon DEF CreateFile
<1>2. UNCHANGED <<folder, file>> /\ ~file[x].made
  BY Zenon DEF CreateFile
<1>3. PICK row : row = [made |-> TRUE, folder |-> p, path |-> BuildPath(p), binned |-> FALSE]
  OBVIOUS
<1>4. job[w] \in Job /\ w \in DOMAIN job
  BY HeldNow DEF WInv, TInv, JobsHeld, Workers
<1>5. CASE job' = [job EXCEPT ![w].pc = "stuck"]
  <2>1. job'[w].pc = "stuck"
    BY <1>4, <1>5 DEF Job
  <2>2. QED  BY <2>1, <1>2, NothingHeld, FilesKeptSame DEF WInv
<1>6. CASE job' = [job EXCEPT ![w] = [IdleJob EXCEPT !.pc = "insert_file", !.file = x, !.row = row]]
  <2>1. job'[w].pc = "insert_file" /\ job'[w].file = x /\ job'[w].row = row
    BY <1>4, <1>6, IdleIsJob DEF Job
  <2>2. row.made /\ ~row.binned /\ row.folder = p /\ row.path = BuildPath(p)
    BY <1>3
  <2>3. ValidPlace(p)' /\ BuildPath(p)' = BuildPath(p) /\ ~file'[x].made
    BY <1>1, <1>2, SameFolders
  <2>4. InsertIsRight(w)'
    BY <2>1, <2>2, <2>3 DEF InsertIsRight
  <2>5. SaveIsDue(w)' /\ StillEmpty(w)' /\ SavesMoved(w)'
    BY <2>1 DEF SaveIsDue, StillEmpty, SavesMoved, At
  <2>6. QED  BY <1>2, <2>4, <2>5, FilesKeptSame DEF WebJob, WInv
<1>7. QED  BY <1>1, <1>3, <1>5, <1>6 DEF GotoIfWalkEnds

LEMMA MoveFileHeld ==
    ASSUME WInv, NEW w \in Web, NEW x \in Files, MoveFile(w, x)
    PROVE  FilesKept' /\ WebJob(w)'
<1>1. PICK p \in Place :
        job' = [job EXCEPT ![w].pc = "save_moved", ![w].file = x,
                           ![w].row = [file[x] EXCEPT !.folder = p]]
  BY Zenon DEF MoveFile
<1>2. UNCHANGED <<folder, file>> /\ moved' = moved \cup {x} /\ Live(x)
  BY Zenon DEF MoveFile
<1>3. PICK row : row = [file[x] EXCEPT !.folder = p]
  OBVIOUS
<1>4. job[w] \in Job /\ w \in DOMAIN job /\ file[x] \in FileRow
  BY HeldNow DEF WInv, TInv, JobsHeld, Workers, TypeOK
<1>5. job'[w].pc = "save_moved" /\ job'[w].file = x /\ job'[w].row = row
  BY <1>1, <1>3, <1>4 DEF Job
<1>6. row.made /\ ~row.binned
  BY <1>2, <1>3, <1>4 DEF FileRow, Live
<1>7. SavesMoved(w)'
  BY <1>2, <1>5, <1>6 DEF SavesMoved
<1>8. SaveIsDue(w)' /\ StillEmpty(w)' /\ InsertIsRight(w)'
  BY <1>5 DEF SaveIsDue, StillEmpty, InsertIsRight, At
<1>9. QED  BY <1>2, <1>7, <1>8, FilesKeptSame DEF WebJob, WInv

\* A write puts the row where the foreign key lets it.
LEMMA WriteFileKeeps ==
    ASSUME WInv, NEW w \in Web, UNCHANGED folder, WriteFile(w),
           job[w].file \in Files, job[w].row.made, ~job[w].row.binned
    PROVE  FilesKept'
<1>1. PICK x, row : x \in Files /\ x = job[w].file /\ row = job[w].row
  OBVIOUS
<1>2. file \in [Files -> FileRow]
  BY DEF WInv, TInv, TypeOK
<1>3. \A y : ValidPlace(y)' <=> ValidPlace(y)
  BY SameFolders
<1>4. CASE ValidPlace(row.folder)
  <2>1. file' = [file EXCEPT ![x] = row]
    BY <1>1, <1>4 DEF WriteFile
  <2>2. file'[x] = row /\ \A y \in Files \ {x} : file'[y] = file[y]
    BY <1>1, <2>1, <1>2
  <2>3. row.made /\ ~row.binned
    BY <1>1
  <2>4. QED  BY <1>3, <1>4, <2>2, <2>3 DEF FilesKept, WInv
<1>5. CASE ~ValidPlace(row.folder)
  BY <1>1, <1>5, FilesKeptSame DEF WriteFile, WInv
<1>6. QED  BY <1>4, <1>5

LEMMA InsertFileHeld ==
    ASSUME WInv, NEW w \in Web, InsertFile(w)
    PROVE  FilesKept' /\ WebJob(w)'
<1>1. job[w].file \in Files /\ job[w].row.made /\ ~job[w].row.binned
  BY HeldNow DEF WInv, Held, InsertFile, At, Workers, WebJob, InsertIsRight
<1>2. UNCHANGED folder /\ WriteFile(w) /\ Return(w)
  BY DEF InsertFile
<1>3. job'[w].pc = "idle"
  BY <1>2, IdleAfterReturn, IdleIsJob DEF WInv, Workers
<1>4. QED  BY <1>1, <1>2, <1>3, WriteFileKeeps, NothingHeld

LEMMA SavePathHeld ==
    ASSUME WInv, NEW w \in Web, SavePath(w)
    PROVE  FilesKept' /\ WebJob(w)'
<1>1. job[w].file \in Files /\ job[w].row.made /\ ~job[w].row.binned
  BY HeldNow DEF WInv, Held, SavePath, At, Workers, WebJob, SavesMoved
<1>2. UNCHANGED folder /\ WriteFile(w) /\ Return(w)
  BY DEF SavePath
<1>3. job'[w].pc = "idle"
  BY <1>2, IdleAfterReturn, IdleIsJob DEF WInv, Workers
<1>4. QED  BY <1>1, <1>2, <1>3, WriteFileKeeps, NothingHeld

LEMMA SaveMovedHeld ==
    ASSUME WInv, NEW w \in Web, SaveMoved(w)
    PROVE  FilesKept' /\ WebJob(w)'
<1>1. /\ job[w].file \in Files /\ job[w].row.made /\ ~job[w].row.binned
      /\ job[w].file \in moved
  BY HeldNow DEF WInv, Held, SaveMoved, At, Workers, WebJob, SavesMoved
<1>2. UNCHANGED <<folder, history>> /\ WriteFile(w)
  BY DEF SaveMoved
<1>3. FilesKept'
  BY <1>1, <1>2, WriteFileKeeps
<1>4. job[w] \in Job /\ w \in DOMAIN job /\ job[w].row \in FileRow
  BY HeldNow, JobFields DEF WInv, TInv, JobsHeld, Workers
<1>5. WebJob(w)'
  <2>1. CASE Return(w)
    <3>1. job'[w].pc = "idle"
      BY <2>1, IdleAfterReturn, IdleIsJob DEF WInv, Workers
    <3>2. QED  BY <3>1, NothingHeld
  <2>2. CASE ~Return(w)
    <3> DEFINE p == job[w].row.folder
    <3>1. GotoIfWalkEnds(w, p, [job[w] EXCEPT !.pc = "save_path", !.row.path = BuildPath(p)])
      BY <2>2 DEF SaveMoved
    <3>2. CASE job' = [job EXCEPT ![w].pc = "stuck"]
      <4>1. job'[w].pc = "stuck"
        BY <3>2, <1>4 DEF Job
      <4>2. QED  BY <4>1, NothingHeld
    <3>3. CASE job' = [job EXCEPT ![w] = [job[w] EXCEPT !.pc = "save_path", !.row.path = BuildPath(p)]]
      <4>1. PICK path : path = BuildPath(p)
        OBVIOUS
      <4>2. job'[w] = [job[w] EXCEPT !.pc = "save_path", !.row.path = path]
        BY <3>3, <4>1, <1>4
      <4>3. job'[w].pc = "save_path" /\ job'[w].file = job[w].file
        BY <4>2, <1>4 DEF Job
      <4>4. job'[w].row = [job[w].row EXCEPT !.path = path]
        BY <4>2, <1>4 DEF Job
      <4>5. job'[w].row.made /\ ~job'[w].row.binned
        BY <4>4, <1>1, <1>4 DEF FileRow
      <4>6. SavesMoved(w)'
        BY <4>3, <4>5, <1>1, <1>2 DEF SavesMoved, history
      <4>7. SaveIsDue(w)' /\ StillEmpty(w)' /\ InsertIsRight(w)'
        BY <4>3 DEF SaveIsDue, StillEmpty, InsertIsRight, At
      <4>8. QED  BY <4>6, <4>7 DEF WebJob
    <3>4. QED  BY <3>1, <3>2, <3>3 DEF GotoIfWalkEnds
  <2>3. QED  BY <2>1, <2>2
<1>6. QED  BY <1>3, <1>5

LEMMA NoneBelowLeaf ==
    ASSUME Tree, NEW f \in Folders, Exists(f), ~HasSubfolders(f)
    PROVE  Below(f) = {f}
<1>1. f \in Below(f)
  BY BelowItself
<1>2. ASSUME NEW g \in Below(f), g # f PROVE FALSE
  <2> DEFINE U == Folders \ {f}
  <2>1. UpwardClosed(U)
    BY DEF UpwardClosed, Tree, FolderRow, Place, HasSubfolders
  <2>2. g \in U /\ U \in SUBSET Folders
    BY <1>2 DEF Below
  <2>3. QED  BY <2>1, <2>2 DEF Below
<1>3. QED  BY <1>1, <1>2

\* What is deleted is empty, so nothing else changes.
LEMMA DeleteFolderDoes ==
    ASSUME WInv, NEW w \in Web, DeleteFolder(w)
    PROVE  \E f \in Folders :
             /\ Exists(f) /\ ~HasSubfolders(f) /\ ~HasFiles(f) /\ Below(f) = {f}
             /\ folder' = [folder EXCEPT ![f] = NoFolder]
             /\ file' = file /\ \A x \in Files : file[x].folder # f
<1>1. PICK f \in Folders : f = job[w].folder
  BY HeldNow DEF WInv, Held, DeleteFolder, At, Workers
<1>2. Exists(f) /\ ~HasSubfolders(f) /\ ~HasFiles(f)
  BY <1>1 DEF WInv, WebJob, StillEmpty, IsEmpty, DeleteFolder
<1>3. Tree
  BY DEF WInv, TInv, TypeOK, Tree
<1>4. Below(f) = {f}
  BY <1>2, <1>3, NoneBelowLeaf
<1>5. /\ folder' = [g \in Folders |-> IF g \in {f} THEN NoFolder ELSE folder[g]]
      /\ file' = [x \in Files |-> IF file[x].folder \in {f}
                                  THEN [file[x] EXCEPT !.folder = None] ELSE file[x]]
  BY <1>1, <1>4 DEF DeleteFolder
<1>6. folder' = [folder EXCEPT ![f] = NoFolder]
  BY <1>3, <1>5 DEF Tree
<1>7. \A x \in Files : file[x].folder # f
  BY <1>2, NoneAssumption DEF HasFiles, Live, WInv, FilesKept
<1>8. file' = file
  <2>1. file' = [x \in Files |-> file[x]]
    BY <1>5, <1>7
  <2>2. QED  BY <2>1 DEF WInv, TInv, TypeOK
<1>9. QED  BY <1>2, <1>4, <1>6, <1>7, <1>8

\* The two writes that put a row there.
LEMMA WriteFolderDoes ==
    ASSUME WInv, NEW w \in Web, InsertFolder(w) \/ SaveFolder(w)
    PROVE  /\ job[w].folder \in Folders /\ job[w].inst \in FolderRow /\ job[w].inst.name # None
           /\ \/ UNCHANGED folder
              \/ folder' = [folder EXCEPT ![job[w].folder] = job[w].inst]
           /\ \A g \in Folders : Exists(g) => Exists(g)'
           /\ file' = file
<1>1. job[w].folder \in Folders /\ job[w].inst \in FolderRow /\ job[w].inst.name # None
  BY HeldNow, JobFields DEF WInv, Held, InsertFolder, SaveFolder, At, Workers
<1>2. \/ UNCHANGED folder
      \/ folder' = [folder EXCEPT ![job[w].folder] = job[w].inst]
  BY DEF InsertFolder, SaveFolder
<1>3. file' = file
  BY DEF InsertFolder, SaveFolder
<1>4. ASSUME NEW g \in Folders, Exists(g) PROVE Exists(g)'
  BY <1>1, <1>2, <1>4 DEF Exists, WInv, TInv, TypeOK
<1>5. QED  BY <1>1, <1>2, <1>3, <1>4

LEMMA WriteFolderHeld ==
    ASSUME WInv, NEW w \in Web, InsertFolder(w) \/ SaveFolder(w)
    PROVE  FilesKept' /\ WebJob(w)'
<1>1. job'[w].pc \in {"idle", "enqueue"}
  <2>1. CASE Return(w)
    BY <2>1, IdleAfterReturn, IdleIsJob DEF WInv, Workers
  <2>2. CASE Goto(w, "enqueue")
    BY <2>2, HeldNow DEF Goto, WInv, TInv, JobsHeld, Job, Workers
  <2>3. QED  BY <2>1, <2>2 DEF InsertFolder, SaveFolder
<1>2. FilesKept'
  BY WriteFolderDoes DEF WInv, FilesKept, ValidPlace
<1>3. QED  BY <1>1, <1>2, NothingHeld

LEMMA DeleteFolderHeld ==
    ASSUME WInv, NEW w \in Web, DeleteFolder(w)
    PROVE  FilesKept' /\ WebJob(w)'
<1>1. job'[w].pc = "idle"
  BY IdleAfterReturn, IdleIsJob DEF WInv, Workers, DeleteFolder
<1>2. PICK f \in Folders :
        /\ folder' = [folder EXCEPT ![f] = NoFolder]
        /\ file' = file /\ \A x \in Files : file[x].folder # f
  BY DeleteFolderDoes
<1>3. \A g \in Folders \ {f} : Exists(g) => Exists(g)'
  BY <1>2 DEF Exists, WInv, TInv, TypeOK
<1>4. FilesKept'
  BY <1>2, <1>3 DEF WInv, FilesKept, ValidPlace
<1>5. QED  BY <1>1, <1>4, NothingHeld

LEMMA OtherRequestHeld ==
    ASSUME WInv, NEW w \in Web, EnqueuePathTask(w) \/ \E f \in Folders : CreateFolder(w, f)
    PROVE  FilesKept' /\ WebJob(w)'
<1>1. UNCHANGED <<folder, file>>
  BY Zenon DEF EnqueuePathTask, CreateFolder
<1>2. job'[w].pc \in {"idle", "insert_folder"}
  <2>1. CASE EnqueuePathTask(w)
    BY <2>1, IdleAfterReturn, IdleIsJob DEF WInv, Workers, EnqueuePathTask
  <2>2. CASE \E f \in Folders : CreateFolder(w, f)
    <3>1. PICK f, inst :
            f \in Folders /\ job' = [job EXCEPT ![w].pc = "insert_folder", ![w].folder = f, ![w].inst = inst]
      BY <2>2, Zenon DEF CreateFolder
    <3>2. QED  BY <3>1, HeldNow DEF WInv, TInv, JobsHeld, Job, Workers
  <2>3. QED  BY <2>1, <2>2
<1>3. QED  BY <1>1, <1>2, FilesKeptSame, NothingHeld DEF WInv

LEMMA BinHeld ==
    ASSUME WInv, Bin
    PROVE  FilesKept' /\ \A w \in Web : WebJob(w)'
<1>1. PICK x \in Files : SoftDelete(x) \/ Restore(x)
  BY DEF Bin
<1>2. file \in [Files -> FileRow] /\ UNCHANGED <<folder, job>> /\ moved' = moved \cup {x}
  BY <1>1 DEF SoftDelete, Restore, WInv, TInv, TypeOK
<1>3. \A y \in Files \ {x} : file'[y] = file[y]
  BY <1>1, <1>2 DEF SoftDelete, Restore
<1>4. file'[x].made = file[x].made /\ file[x].made /\ file'[x].folder = None
  BY <1>1, <1>2 DEF SoftDelete, Restore, FileRow, Live, WInv, FilesKept
<1>5. \A p : ValidPlace(p)' <=> ValidPlace(p)
  BY <1>2, SameFolders
<1>6. FilesKept'
  BY <1>3, <1>4, <1>5 DEF WInv, FilesKept, ValidPlace
<1>7. \A y \in Files : /\ file'[y].made = file[y].made
                       /\ Live(y)' /\ file'[y].folder \in Folders =>
                            Live(y) /\ file[y].folder = file'[y].folder
  BY <1>3, <1>4, NoneAssumption DEF Live
<1>8. QED  BY <1>2, <1>6, <1>7, WebJobKept

LEMMA TaskHeld ==
    ASSUME WInv, NEW c \in Celery, Task(c)
    PROVE  FilesKept' /\ \A w \in Web : WebJob(w)'
<1>1. UNCHANGED <<folder, moved>> /\ (file' = file \/ BulkUpdate(c))
  BY Zenon DEF Task, StartPathTask, RebuildPaths, BulkUpdate, history
<1>2. file \in [Files -> FileRow]
  BY DEF WInv, TInv, TypeOK
<1>3. \A x \in Files : /\ file'[x].made = file[x].made /\ file'[x].binned = file[x].binned
                       /\ file'[x].folder = file[x].folder
  BY <1>1, <1>2 DEF BulkUpdate, FileRow
<1>4. \A p : ValidPlace(p)' <=> ValidPlace(p)
  BY <1>1, SameFolders
<1>5. FilesKept'
  BY <1>3, <1>4 DEF WInv, FilesKept
<1>6. \A w \in Web : job'[w] = job[w]
  <2>1. \A v \in Workers \ {c} : job'[v] = job[v]
    BY TaskMovesOne DEF WInv
  <2>2. QED  BY <2>1, ProcessAssumption DEF Workers
<1>7. QED  BY <1>1, <1>3, <1>5, <1>6, WebJobKept DEF Live

LEMMA InitWInv == Init => WInv
<1> SUFFICES ASSUME Init PROVE WInv
  OBVIOUS
<1>1. FilesKept
  BY DEF Init, FilesKept, NoFile, ValidPlace
<1>2. ASSUME NEW w \in Web PROVE WebJob(w)
  <2>1. job[w].pc = "idle"
    BY IdleIsJob DEF Init, Workers
  <2>2. QED  BY <2>1 DEF WebJob, SaveIsDue, StillEmpty, InsertIsRight, SavesMoved, At
<1>3. QED  BY <1>1, <1>2, InitHInv, InitTInv DEF WInv

LEMMA StepWInv == WInv /\ OneWriter /\ [Next]_vars => WInv'
<1> SUFFICES ASSUME WInv, OneWriter, [Next]_vars PROVE WInv'
  OBVIOUS
<1>1. HInv' /\ TInv'
  BY StepHInv, StepTInv DEF WInv
<1>2. FilesKept' /\ \A w \in Web : WebJob(w)'
  <2>1. ASSUME NEW w \in Web, Request(w) \/ Step(w)
        PROVE  FilesKept' /\ WebJob(w)'
    BY <2>1, UpdateFolderHeld, CheckEmptyHeld, CreateFileHeld, MoveFileHeld, InsertFileHeld,
       SavePathHeld, SaveMovedHeld, WriteFolderHeld, DeleteFolderHeld, OtherRequestHeld
       DEF Request, Step
  <2>2. CASE \E w \in Web : Request(w) \/ Step(w)
    BY <2>1, <2>2 DEF OneWriter
  <2>3. CASE UNCHANGED vars
    <3>1. UNCHANGED <<folder, file, job, moved>>
      BY <2>3 DEF vars, history
    <3>2. QED  BY <3>1, FilesKeptSame, WebJobKept DEF WInv, Live
  <2>4. QED  BY <2>2, <2>3, BinHeld, TaskHeld DEF Next
<1>3. QED  BY <1>1, <1>2 DEF WInv

\* A deletion is the only step that makes a folder go.
LEMMA OnlyDeletionEnds ==
    ASSUME WInv, [Next]_vars, NEW f \in Folders, Exists(f), ~Exists(f)'
    PROVE  \E w \in Web : DeleteFolder(w)
<1>1. ASSUME NEW w \in Web, InsertFolder(w) \/ SaveFolder(w) PROVE FALSE
  BY <1>1, WriteFolderDoes
<1>2. folder' # folder
  BY DEF Exists
<1>3. ~Bin /\ ~UNCHANGED vars
  BY <1>2 DEF Bin, SoftDelete, Restore, vars
<1>4. ASSUME NEW c \in Celery, Task(c) PROVE FALSE
  <2>1. UNCHANGED folder
    BY <1>4, Zenon DEF Task, StartPathTask, RebuildPaths, BulkUpdate
  <2>2. QED  BY <1>2, <2>1
<1>5. ASSUME NEW w \in Web, Request(w) PROVE FALSE
  <2>1. UNCHANGED folder
    BY <1>5, Zenon DEF Request, CreateFolder, UpdateFolder, CheckEmpty, CreateFile, MoveFile
  <2>2. QED  BY <1>2, <2>1
<1>6. ASSUME NEW w \in Web, EnqueuePathTask(w) \/ InsertFile(w) \/ SaveMoved(w) \/ SavePath(w)
      PROVE  FALSE
  BY <1>2, <1>6 DEF EnqueuePathTask, InsertFile, SaveMoved, SavePath
<1>7. QED  BY <1>1, <1>3, <1>4, <1>5, <1>6 DEF Next, Step

\* With one web worker a folder goes only when there is nothing in it, whatever was
\* binned or restored since the request looked: delete_folder.py.
THEOREM DeletesCorrect ==
    ASSUME OneWriter PROVE Spec => DeletesOnlyEmpty
<1>1. WInv /\ [Next]_vars => WInv'
  BY StepWInv
<1>2. WInv /\ [Next]_vars =>
        [\A f \in Folders : Exists(f) /\ ~Exists(f)' => ~HasSubfolders(f) /\ ~HasFiles(f)]_vars
  <2> SUFFICES ASSUME WInv, [Next]_vars, NEW f \in Folders, Exists(f), ~Exists(f)'
               PROVE  ~HasSubfolders(f) /\ ~HasFiles(f)
    OBVIOUS
  <2>1. PICK w \in Web : DeleteFolder(w)
    BY OnlyDeletionEnds
  <2>2. PICK g \in Folders : /\ ~HasSubfolders(g) /\ ~HasFiles(g)
                             /\ folder' = [folder EXCEPT ![g] = NoFolder]
    BY <2>1, DeleteFolderDoes
  <2>3. f = g
    BY <2>2 DEF Exists, WInv, TInv, TypeOK
  <2>4. QED  BY <2>2, <2>3
<1>3. QED  BY InitWInv, <1>1, <1>2, PTL DEF Spec, DeletesOnlyEmpty

-----------------------------------------------------------------------------
(* One Celery worker too: no wrong path is forgotten *)

OneTask == \A b, c \in Celery : b = c

QueuedFor(f) == queue[f] > 0 \/ \E w \in Web : At(w, "enqueue") /\ job[w].folder = f

\* A task lists files that exist, and only while it runs.
TaskJob(c) ==
    /\ job[c].pc \in {"idle", "rebuild", "bulk_update"}
    /\ job[c].pc = "idle" => job[c].listed = {}
    /\ \A x \in job[c].listed : file[x].made

\* What the running task holds of x is as the tables have it.
HasRead(c, x) ==
    /\ x \in job[c].listed
    /\ At(c, "rebuild") => /\ file[x].folder \in Folders
                           /\ job[c].rows[x] = folder[file[x].folder]
    /\ At(c, "bulk_update") => job[c].paths[x] = BuildPath(file[x].folder)

Settled(x) ==
    /\ x \in abandoned \/ PathIsRight(x)
    /\ \A c \in Celery : x \notin job[c].listed

\* Files a task has given up count again as soon as another task lists them.
PaidOrOwed(x) == TaskWaits(x) \/ (\E c \in Celery : HasRead(c, x)) \/ Settled(x)

Debts == \A x \in Files \ moved : file[x].made => PaidOrOwed(x)

OInv == WInv /\ (\A c \in Celery : TaskJob(c)) /\ Debts

LEMMA WaitsOn ==
    ASSUME NEW x, NEW p, p = file[x].folder, p = file'[x].folder, TaskWaits(x),
           \A f \in Folders : p \in Below(f) /\ QueuedFor(f) => p \in Below(f)' /\ QueuedFor(f)'
    PROVE  TaskWaits(x)'
<1>1. PICK f \in Folders : p \in Below(f) /\ QueuedFor(f)
  BY DEF TaskWaits, QueuedFor
<1>2. p \in Below(f)' /\ QueuedFor(f)'
  BY <1>1
<1>3. (file[x].folder \in Below(f))'
  BY <1>2
<1>4. QED  BY <1>2, <1>3 DEF TaskWaits, QueuedFor

LEMMA PlaceIsSound ==
    ASSUME WInv, NEW x \in Files
    PROVE  ValidPlace(file[x].folder) /\ WalkEnds(file[x].folder)
<1>1. Tree /\ Hierarchy
  BY DEF WInv, TInv, TypeOK, Tree, HInv
<1>2. ValidPlace(file[x].folder)
  BY DEF WInv, FilesKept
<1>3. QED  BY <1>1, <1>2, HierarchyEnds

\* A step that does not touch the file, the folders above it or the running task.
LEMMA DebtKept ==
    ASSUME WInv, NEW x \in Files, PaidOrOwed(x), file'[x] = file[x],
           \A g \in Above(file[x].folder) : folder'[g] = folder[g],
           \A c \in Celery : job'[c] = job[c],
           abandoned' = abandoned,
           \A f \in Folders : QueuedFor(f) => QueuedFor(f)'
    PROVE  PaidOrOwed(x)'
<1>1. PICK p : p = file[x].folder /\ p = file'[x].folder
  OBVIOUS
<1>2. Tree /\ ValidPlace(p) /\ WalkEnds(p)
  BY <1>1, PlaceIsSound DEF WInv, TInv, TypeOK, Tree
<1>3. Above(p)' = Above(p) /\ BuildPath(p)' = BuildPath(p)
  BY <1>1, <1>2, PathKept
<1>4. CASE TaskWaits(x)
  <2>1. \A f \in Folders : p \in Below(f) => p \in Below(f)'
    BY <1>3 DEF Above
  <2>2. TaskWaits(x)'
    BY <2>1, <1>1, <1>4, WaitsOn
  <2>3. QED  BY <2>2 DEF PaidOrOwed
<1>5. ASSUME NEW c \in Celery, HasRead(c, x) PROVE HasRead(c, x)'
  <2>1. p \in Folders => folder'[p] = folder[p]
    BY <1>1, <1>2, NoneAssumption, BelowItself DEF ValidPlace, Above
  <2>2. PICK path : path = BuildPath(p) /\ path = BuildPath(p)'
    BY <1>3
  <2>3. BuildPath(file[x].folder)' = path
    BY <1>1, <2>2
  <2>4. job'[c] = job[c]
    OBVIOUS
  <2>5. BuildPath(file[x].folder) = path
    BY <1>1, <2>2
  <2>6. QED  BY <1>1, <1>5, <2>1, <2>3, <2>4, <2>5 DEF HasRead, At
<1>6. CASE Settled(x)
  <2>1. BuildPath(file[x].folder)' = BuildPath(file[x].folder)
    <3>1. PICK path : path = BuildPath(p) /\ path = BuildPath(p)'
      BY <1>3
    <3>2. BuildPath(file[x].folder)' = path
      BY <1>1, <3>1
    <3>3. BuildPath(file[x].folder) = path
      BY <1>1, <3>1
    <3>4. QED  BY <3>2, <3>3
  <2>2. PathIsRight(x) => PathIsRight(x)'
    BY <2>1 DEF PathIsRight
  <2>3. Settled(x)'
    BY <1>6, <2>2 DEF Settled
  <2>4. QED  BY <2>3 DEF PaidOrOwed
<1>7. QED  BY <1>4, <1>5, <1>6 DEF PaidOrOwed

\* A request touches no worker but its own.
LEMMA WebMovesOne ==
    ASSUME TInv, NEW w \in Web, Request(w) \/ Step(w)
    PROVE  \A v \in Workers \ {w} : job'[v] = job[v]
<1>1. job \in [Workers -> Job] /\ w \in Workers
  BY DEF TInv, JobsHeld, Workers
<1>2. ASSUME NEW p, NEW loaded, GotoIfWalkEnds(w, p, loaded)
      PROVE  \A v \in Workers \ {w} : job'[v] = job[v]
  BY <1>1, <1>2 DEF GotoIfWalkEnds
<1>3. ASSUME NEW f \in Folders, CreateFolder(w, f)
      PROVE  \A v \in Workers \ {w} : job'[v] = job[v]
  <2>1. PICK inst : job' = [job EXCEPT ![w].pc = "insert_folder", ![w].folder = f, ![w].inst = inst]
    BY <1>3, Zenon DEF CreateFolder
  <2>2. QED  BY <1>1, <2>1
<1>4. ASSUME NEW f \in Folders, UpdateFolder(w, f)
      PROVE  \A v \in Workers \ {w} : job'[v] = job[v]
  <2>1. PICK inst, changed :
          job' = [job EXCEPT ![w].pc = "save_folder", ![w].folder = f, ![w].inst = inst,
                             ![w].changed = changed]
    BY <1>4, Zenon DEF UpdateFolder
  <2>2. QED  BY <1>1, <2>1
<1>5. ASSUME NEW f \in Folders, CheckEmpty(w, f)
      PROVE  \A v \in Workers \ {w} : job'[v] = job[v]
  BY <1>1, <1>5 DEF CheckEmpty
<1>6. ASSUME NEW x \in Files, CreateFile(w, x)
      PROVE  \A v \in Workers \ {w} : job'[v] = job[v]
  <2>1. PICK p, loaded : GotoIfWalkEnds(w, p, loaded)
    BY <1>6, Zenon DEF CreateFile
  <2>2. QED  BY <1>2, <2>1
<1>7. ASSUME NEW x \in Files, MoveFile(w, x)
      PROVE  \A v \in Workers \ {w} : job'[v] = job[v]
  <2>1. PICK row : job' = [job EXCEPT ![w].pc = "save_moved", ![w].file = x, ![w].row = row]
    BY <1>7, Zenon DEF MoveFile
  <2>2. QED  BY <1>1, <2>1
<1>8. CASE Return(w) \/ Goto(w, "enqueue")
  BY <1>1, <1>8 DEF Return, Goto
<1>9. CASE SaveMoved(w)
  <2>1. PICK loaded : Return(w) \/ GotoIfWalkEnds(w, job[w].row.folder, loaded)
    BY <1>9, Zenon DEF SaveMoved
  <2>2. QED  BY <1>2, <1>8, <2>1
<1>10. ASSUME Step(w), ~SaveMoved(w) PROVE Return(w) \/ Goto(w, "enqueue")
  BY <1>10, Zenon DEF Step, InsertFolder, SaveFolder, EnqueuePathTask, DeleteFolder, InsertFile, SavePath
<1>11. QED  BY <1>3, <1>4, <1>5, <1>6, <1>7, <1>8, <1>9, <1>10 DEF Request

\* What waits for a Celery worker goes on waiting while others act.
LEMMA StillQueued ==
    ASSUME OneWriter, NEW w \in Web, UNCHANGED queue,
           ~At(w, "enqueue"), NEW f, QueuedFor(f)
    PROVE  QueuedFor(f)'
BY DEF QueuedFor, OneWriter

LEMMA EnqueueQueues ==
    ASSUME TInv, OneWriter, NEW w \in Web, EnqueuePathTask(w), NEW f \in Folders, QueuedFor(f)
    PROVE  QueuedFor(f)'
<1>1. queue' = [queue EXCEPT ![job[w].folder] = @ + 1] /\ queue \in [Folders -> Nat]
  BY DEF EnqueuePathTask, TInv, TypeOK
<1>2. queue[f] > 0 \/ job[w].folder = f
  BY DEF QueuedFor, OneWriter
<1>3. queue'[f] > 0
  BY <1>1, <1>2
<1>4. QED  BY <1>3 DEF QueuedFor

LEMMA CeleryStays ==
    ASSUME TInv, NEW w \in Web, Request(w) \/ Step(w), NEW c \in Celery
    PROVE  job'[c] = job[c] /\ c \in Workers
BY WebMovesOne, ProcessAssumption DEF Workers

LEMMA TaskJobKept ==
    ASSUME NEW c \in Celery, TaskJob(c), job'[c] = job[c],
           \A x \in Files : file[x].made => file'[x].made, job[c].listed \subseteq Files
    PROVE  TaskJob(c)'
BY DEF TaskJob

LEMMA ListedAreFiles ==
    ASSUME TInv, NEW c \in Celery
    PROVE  job[c].listed \subseteq Files
BY HeldNow, JobFields DEF Workers

LEMMA RequestKeepsDebts ==
    ASSUME OInv, OneWriter, NEW w \in Web, Request(w)
    PROVE  (\A c \in Celery : TaskJob(c)') /\ Debts'
<1>1. UNCHANGED <<folder, file, queue, abandoned>> /\ moved \subseteq moved' /\ At(w, "idle")
  BY Zenon DEF Request, CreateFolder, UpdateFolder, CheckEmpty, CreateFile, MoveFile, history
<1>2. \A c \in Celery : job'[c] = job[c]
  BY CeleryStays DEF OInv, WInv
<1>3. \A f : QueuedFor(f) => QueuedFor(f)'
  BY <1>1, StillQueued DEF At
<1>4. \A c \in Celery : TaskJob(c)'
  BY <1>1, <1>2, ListedAreFiles, TaskJobKept DEF OInv, WInv
<1>5. ASSUME NEW x \in Files \ moved', file'[x].made PROVE PaidOrOwed(x)'
  <2>1. file[x].made /\ x \in Files \ moved
    BY <1>1, <1>5
  <2>2. PaidOrOwed(x)
    BY <2>1 DEF OInv, Debts
  <2>3. QED  BY <2>2, <1>1, <1>2, <1>3, DebtKept DEF OInv
<1>6. QED  BY <1>4, <1>5 DEF Debts

LEMMA EnqueueKeepsDebts ==
    ASSUME OInv, OneWriter, NEW w \in Web, EnqueuePathTask(w)
    PROVE  (\A c \in Celery : TaskJob(c)') /\ Debts'
<1>1. UNCHANGED <<folder, file, moved, abandoned>> /\ Step(w)
  BY DEF EnqueuePathTask, Step, history
<1>2. \A c \in Celery : job'[c] = job[c]
  BY <1>1, CeleryStays DEF OInv, WInv
<1>3. \A f \in Folders : QueuedFor(f) => QueuedFor(f)'
  BY EnqueueQueues DEF OInv, WInv
<1>4. \A c \in Celery : TaskJob(c)'
  BY <1>1, <1>2, ListedAreFiles, TaskJobKept DEF OInv, WInv
<1>5. ASSUME NEW x \in Files \ moved', file'[x].made PROVE PaidOrOwed(x)'
  <2>1. PaidOrOwed(x)
    BY <1>1, <1>5 DEF OInv, Debts
  <2>2. QED  BY <2>1, <1>1, <1>2, <1>3, DebtKept DEF OInv
<1>6. QED  BY <1>4, <1>5 DEF Debts

\* The three writes of a file: a new one has the path of its folder, and files that
\* move are of no concern.
LEMMA FileWriteKeepsDebts ==
    ASSUME OInv, OneWriter, NEW w \in Web, InsertFile(w) \/ SaveMoved(w) \/ SavePath(w)
    PROVE  (\A c \in Celery : TaskJob(c)') /\ Debts'
<1>1. /\ UNCHANGED <<folder, queue, moved, abandoned>> /\ Step(w) /\ WriteFile(w)
      /\ job[w].pc \in {"insert_file", "save_moved", "save_path"}
  BY DEF InsertFile, SaveMoved, SavePath, Step, history, At
<1>2. \A c \in Celery : job'[c] = job[c]
  BY <1>1, CeleryStays DEF OInv, WInv
<1>3. \A f : QueuedFor(f) => QueuedFor(f)'
  BY <1>1, StillQueued DEF At
<1>4. PICK y, row : y \in Files /\ y = job[w].file /\ row = job[w].row
  BY <1>1, HeldNow DEF OInv, WInv, Held, Workers
<1>5. WebJob(w) /\ file \in [Files -> FileRow]
  BY DEF OInv, WInv, TInv, TypeOK
<1>6. row.made
  BY <1>1, <1>4, <1>5 DEF WebJob, InsertIsRight, SavesMoved, At
<1>7. file' = file \/ file' = [file EXCEPT ![y] = row]
  BY <1>1, <1>4 DEF WriteFile
<1>8. \A x \in Files \ {y} : file'[x] = file[x]
  BY <1>5, <1>7
<1>9. \A x \in Files : file[x].made => file'[x].made
  BY <1>5, <1>6, <1>7
<1>10. \A c \in Celery : TaskJob(c)'
  BY <1>2, <1>9, ListedAreFiles, TaskJobKept DEF OInv, WInv
<1>11. ASSUME NEW x \in Files \ moved', file'[x].made PROVE PaidOrOwed(x)'
  <2>1. CASE x # y
    <3>1. PaidOrOwed(x)
      BY <1>1, <1>8, <1>11, <2>1 DEF OInv, Debts
    <3>2. QED  BY <3>1, <2>1, <1>1, <1>2, <1>3, <1>8, DebtKept DEF OInv
  <2>2. CASE x = y
    <3>1. At(w, "insert_file")
      BY <1>1, <1>4, <1>5, <1>11, <2>2 DEF WebJob, SavesMoved, At
    <3>2. ~file[x].made /\ ValidPlace(row.folder) /\ row.path = BuildPath(row.folder)
      BY <3>1, <1>4, <1>5, <2>2 DEF WebJob, InsertIsRight
    <3>3. file'[x] = row
      BY <3>2, <1>1, <1>4, <1>5, <2>2 DEF WriteFile
    <3>4. PICK p : p = row.folder
      OBVIOUS
    <3>5. row.path = BuildPath(p)'
      BY <3>2, <3>4, <1>1, SameFolders
    <3>6. PathIsRight(x)'
      BY <3>3, <3>4, <3>5 DEF PathIsRight
    <3>7. \A c \in Celery : x \notin job'[c].listed
      BY <3>2, <1>2 DEF OInv, TaskJob
    <3>8. QED  BY <3>6, <3>7 DEF PaidOrOwed, Settled
  <2>3. QED  BY <2>1, <2>2
<1>12. QED  BY <1>10, <1>11 DEF Debts

\* A folder that comes or goes lies above no file.
LEMMA LonelyFolderKeepsDebts ==
    ASSUME OInv, OneWriter, NEW w \in Web, Step(w), ~At(w, "enqueue"),
           UNCHANGED <<file, queue, moved, abandoned>>,
           NEW f \in Folders, \A g \in Folders \ {f} : folder'[g] = folder[g],
           \A x \in Files : f \notin Above(file[x].folder)
    PROVE  (\A c \in Celery : TaskJob(c)') /\ Debts'
<1>1. \A c \in Celery : job'[c] = job[c]
  BY CeleryStays DEF OInv, WInv
<1>2. \A g : QueuedFor(g) => QueuedFor(g)'
  BY StillQueued
<1>3. \A c \in Celery : TaskJob(c)'
  BY <1>1, ListedAreFiles, TaskJobKept DEF OInv, WInv
<1>4. ASSUME NEW x \in Files \ moved', file'[x].made PROVE PaidOrOwed(x)'
  <2>1. PaidOrOwed(x)
    BY <1>4 DEF OInv, Debts
  <2>2. \A g \in Above(file[x].folder) : folder'[g] = folder[g]
    BY DEF Above
  <2>3. QED  BY <2>1, <2>2, <1>1, <1>2, DebtKept DEF OInv
<1>5. QED  BY <1>3, <1>4 DEF Debts

LEMMA InsertFolderKeepsDebts ==
    ASSUME OInv, OneWriter, NEW w \in Web, InsertFolder(w)
    PROVE  (\A c \in Celery : TaskJob(c)') /\ Debts'
<1>1. PICK f \in Folders : f = job[w].folder /\ ~Exists(f)
  BY DEF OInv, WInv, HInv, WritersAreSafe, NewFolderIsSafe, InsertFolder
<1>2. \A g \in Folders \ {f} : folder'[g] = folder[g]
  <2>1. folder \in [Folders -> FolderRow]
    BY DEF OInv, WInv, TInv, TypeOK
  <2>2. folder' = folder \/ folder' = [folder EXCEPT ![f] = job[w].inst]
    BY <1>1 DEF InsertFolder
  <2>3. QED  BY <2>1, <2>2
<1>3. Step(w) /\ ~At(w, "enqueue") /\ UNCHANGED <<file, queue, moved, abandoned>>
  BY DEF InsertFolder, Step, At, history
<1>4. Tree
  BY DEF OInv, WInv, TInv, TypeOK, Tree
<1>5. \A x \in Files : f \notin Above(file[x].folder)
  BY <1>1, <1>4, AboveExists
<1>6. QED  BY <1>2, <1>3, <1>5, LonelyFolderKeepsDebts

LEMMA DeleteFolderKeepsDebts ==
    ASSUME OInv, OneWriter, NEW w \in Web, DeleteFolder(w)
    PROVE  (\A c \in Celery : TaskJob(c)') /\ Debts'
<1>1. PICK f \in Folders :
        /\ Below(f) = {f} /\ folder' = [folder EXCEPT ![f] = NoFolder]
        /\ file' = file /\ \A x \in Files : file[x].folder # f
  BY DeleteFolderDoes DEF OInv
<1>2. \A g \in Folders \ {f} : folder'[g] = folder[g]
  BY <1>1 DEF OInv, WInv, TInv, TypeOK
<1>3. Step(w) /\ ~At(w, "enqueue") /\ UNCHANGED <<file, queue, moved, abandoned>>
  BY <1>1 DEF DeleteFolder, Step, At, history
<1>4. \A x \in Files : f \notin Above(file[x].folder)
  BY <1>1 DEF Above
<1>5. QED  BY <1>2, <1>3, <1>4, LonelyFolderKeepsDebts

\* A save that changes nothing queues nothing; any other owes all files below.
LEMMA SaveFolderKeepsDebts ==
    ASSUME OInv, OneWriter, NEW w \in Web, SaveFolder(w)
    PROVE  (\A c \in Celery : TaskJob(c)') /\ Debts'
<1>1. Step(w) /\ ~At(w, "enqueue") /\ UNCHANGED <<file, queue, moved, abandoned>>
  BY DEF SaveFolder, Step, At, history
<1>2. PICK f, inst : f \in Folders /\ f = job[w].folder /\ inst = job[w].inst
  BY HeldNow DEF OInv, WInv, Held, SaveFolder, At, Workers
<1>3. Tree /\ folder \in [Folders -> FolderRow]
  BY DEF OInv, WInv, TInv, TypeOK, Tree
<1>4. \A c \in Celery : job'[c] = job[c]
  BY <1>1, CeleryStays DEF OInv, WInv
<1>5. \A g : QueuedFor(g) => QueuedFor(g)'
  BY <1>1, StillQueued
<1>6. \A c \in Celery : TaskJob(c)'
  BY <1>1, <1>4, ListedAreFiles, TaskJobKept DEF OInv, WInv
<1>7. CASE folder' = folder
  <2>1. ASSUME NEW x \in Files \ moved', file'[x].made PROVE PaidOrOwed(x)'
    <3>1. PaidOrOwed(x)
      BY <1>1, <2>1 DEF OInv, Debts
    <3>2. QED  BY <3>1, <1>1, <1>4, <1>5, <1>7, DebtKept DEF OInv
  <2>2. QED  BY <2>1, <1>6 DEF Debts
<1>8. CASE folder' # folder
  <2>1. folder' = [folder EXCEPT ![f] = inst]
    BY <1>2, <1>8 DEF SaveFolder
  <2>2. inst # folder[f]
    BY <2>1, <1>8, <1>3
  <2>3. job[w].changed
    BY <2>2, <1>2 DEF OInv, WInv, WebJob, SaveIsDue, SaveFolder
  <2>4. Goto(w, "enqueue")
    BY <2>3, <1>8 DEF SaveFolder
  <2>5. job'[w].pc = "enqueue" /\ job'[w].folder = f
    BY <2>4, <1>2, HeldNow DEF Goto, OInv, WInv, TInv, JobsHeld, Job, Workers
  <2>6. QueuedFor(f)'
    BY <2>5 DEF QueuedFor, At
  <2>7. \A g \in Folders \ {f} : folder'[g] = folder[g]
    BY <2>1, <1>3
  <2>8. \A g \in Folders : Exists(g) => Exists(g)'
    BY WriteFolderDoes DEF OInv
  <2>9. ASSUME NEW x \in Files \ moved', file'[x].made PROVE PaidOrOwed(x)'
    <3>1. PICK p : p = file[x].folder /\ p = file'[x].folder
      BY <1>1
    <3>2. CASE p \in Below(f)
      <4>1. p \in Below(f)'
        <5>1. p \in Folders /\ Exists(p)
          BY <3>2 DEF Below
        <5>2. Exists(p)'
          BY <5>1, <2>8
        <5>3. QED  BY <1>2, <3>2, <5>2, <2>7, StillBelow
      <4>2. (file[x].folder \in Below(f))'
        BY <3>1, <4>1
      <4>3. TaskWaits(x)'
        BY <1>2, <4>2, <2>6 DEF TaskWaits, QueuedFor
      <4>4. QED  BY <4>3 DEF PaidOrOwed
    <3>3. CASE p \notin Below(f)
      <4>1. \A g \in Above(p) : folder'[g] = folder[g]
        BY <3>3, <2>7 DEF Above
      <4>2. PaidOrOwed(x)
        BY <1>1, <2>9 DEF OInv, Debts
      <4>3. QED  BY <3>1, <4>1, <4>2, <1>1, <1>4, <1>5, DebtKept DEF OInv
    <3>4. QED  BY <3>2, <3>3
  <2>10. QED  BY <2>9, <1>6 DEF Debts
<1>9. QED  BY <1>7, <1>8

LEMMA BinKeepsDebts ==
    ASSUME OInv, Bin
    PROVE  (\A c \in Celery : TaskJob(c)') /\ Debts'
<1>1. PICK y \in Files : SoftDelete(y) \/ Restore(y)
  BY DEF Bin
<1>2. UNCHANGED <<folder, queue, job, abandoned>> /\ moved' = moved \cup {y}
  BY <1>1 DEF SoftDelete, Restore
<1>3. file \in [Files -> FileRow] /\ \A x \in Files \ {y} : file'[x] = file[x]
  BY <1>1 DEF SoftDelete, Restore, OInv, WInv, TInv, TypeOK
<1>4. file'[y].made = file[y].made
  BY <1>1, <1>3 DEF SoftDelete, Restore, FileRow
<1>5. \A f : QueuedFor(f) => QueuedFor(f)'
  BY <1>2 DEF QueuedFor, At
<1>6. \A c \in Celery : TaskJob(c)'
  BY <1>2, <1>3, <1>4, ListedAreFiles, TaskJobKept DEF OInv, WInv
<1>7. ASSUME NEW x \in Files \ moved', file'[x].made PROVE PaidOrOwed(x)'
  <2>1. x # y /\ x \notin moved /\ file'[x] = file[x]
    BY <1>2, <1>3, <1>7
  <2>2. PaidOrOwed(x)
    BY <2>1, <1>7 DEF OInv, Debts
  <2>3. QED  BY <2>1, <2>2, <1>2, <1>5, DebtKept DEF OInv
<1>8. QED  BY <1>6, <1>7 DEF Debts

-----------------------------------------------------------------------------
(* The task itself *)

LEMMA CeleryMovesOne ==
    ASSUME WInv, NEW c \in Celery, Task(c)
    PROVE  c \in Workers /\ \A w \in Web : job'[w] = job[w]
<1>1. \A v \in Workers \ {c} : job'[v] = job[v]
  BY TaskMovesOne DEF WInv
<1>2. QED  BY <1>1, ProcessAssumption DEF Workers

\* Once it has read, a task owes what it holds; the folder's other tasks still wait.
LEMMA StartPathTaskKeepsDebts ==
    ASSUME OInv, OneTask, NEW c \in Celery, NEW f \in Folders, StartPathTask(c, f)
    PROVE  (\A b \in Celery : TaskJob(b)') /\ Debts'
<1>1. UNCHANGED <<folder, file, moved, abandoned>> /\ At(c, "idle")
  BY Zenon DEF StartPathTask, history
<1>2. c \in Workers /\ \A w \in Web : job'[w] = job[w]
  BY CeleryMovesOne DEF Task, OInv
<1>3. \A g \in Folders \ {f} : QueuedFor(g) => QueuedFor(g)'
  <2>1. queue' = [queue EXCEPT ![f] = @ - 1]
    BY Zenon DEF StartPathTask
  <2>2. QED  BY <2>1, <1>2 DEF QueuedFor, At, OInv, WInv, TInv, TypeOK
<1>4. Tree /\ Hierarchy /\ job[c] \in Job /\ job[c].listed = {} /\ c \in DOMAIN job
  BY <1>1, <1>2, HeldNow DEF OInv, WInv, TInv, TypeOK, JobsHeld, HInv, Tree, TaskJob, At
<1>5. \A b \in Celery : b = c
  BY DEF OneTask
<1>6. ASSUME NEW x \in Files \ moved', file'[x].made,
             file[x].folder \notin Below(f), job'[c].listed \subseteq FilesIncludingNested(f)
      PROVE  PaidOrOwed(x)'
  <2>1. PICK p : p = file[x].folder /\ p = file'[x].folder
    BY <1>1
  <2>2. \A g : Below(g)' = Below(g) /\ BuildPath(g)' = BuildPath(g)
    BY <1>1, SameFolders
  <2>3. TaskWaits(x) \/ Settled(x)
    BY <1>1, <1>4, <1>5, <1>6 DEF OInv, Debts, PaidOrOwed, HasRead
  <2>4. CASE TaskWaits(x)
    <3>1. \A g \in Folders : p \in Below(g) /\ QueuedFor(g) => p \in Below(g)' /\ QueuedFor(g)'
      BY <1>3, <1>6, <2>1, <2>2
    <3>2. TaskWaits(x)'
      BY <2>1, <2>4, <3>1, WaitsOn
    <3>3. QED  BY <3>2 DEF PaidOrOwed
  <2>5. CASE Settled(x)
    <3>1. x \notin job'[c].listed
      BY <1>6 DEF FilesIncludingNested
    <3>2. PICK path : path = BuildPath(p) /\ path = BuildPath(p)'
      BY <2>2
    <3>3. BuildPath(file[x].folder)' = path /\ BuildPath(file[x].folder) = path
      BY <2>1, <3>2
    <3>4. PathIsRight(x) => PathIsRight(x)'
      BY <1>1, <3>3 DEF PathIsRight
    <3>5. Settled(x)'
      BY <1>1, <1>5, <2>5, <3>1, <3>4 DEF Settled
    <3>6. QED  BY <3>5 DEF PaidOrOwed
  <2>6. QED  BY <2>3, <2>4, <2>5
<1>7. CASE ~Exists(f)
  <2>1. job' = job
    BY <1>7, Zenon DEF StartPathTask
  <2>2. \A p : p \notin Below(f)
    BY <1>4, <1>7, AboveExists DEF Above
  <2>3. job'[c].listed \subseteq FilesIncludingNested(f)
    BY <1>4, <2>1
  <2>4. Debts'
    BY <1>6, <2>2, <2>3 DEF Debts
  <2>5. \A b \in Celery : TaskJob(b)'
    BY <1>1, <2>1 DEF OInv, TaskJob
  <2>6. QED  BY <2>4, <2>5
<1>8. CASE Exists(f)
  <2> DEFINE listed == FilesIncludingNested(f)
  <2>1. WalkEnds(f)
    BY <1>4, <1>8, HierarchyEnds DEF ValidPlace
  <2>2. PICK rows :
          /\ rows = [x \in Files |-> IF x \in listed THEN folder[file[x].folder] ELSE NoFolder]
          /\ job' = [job EXCEPT ![c].pc = "rebuild", ![c].listed = listed, ![c].rows = rows]
    BY <1>8, <2>1, Zenon DEF StartPathTask
  <2>3. job'[c].pc = "rebuild" /\ job'[c].listed = listed /\ job'[c].rows = rows
    BY <2>2, <1>4 DEF Job
  <2>4. listed \subseteq Files /\ \A x \in listed : file[x].made
    BY DEF FilesIncludingNested
  <2>5. TaskJob(c)'
    BY <1>1, <2>3, <2>4 DEF TaskJob
  <2>6. ASSUME NEW x \in Files \ moved', file'[x].made, file[x].folder \in Below(f)
        PROVE  PaidOrOwed(x)'
    <3>1. x \in listed /\ file[x].folder \in Folders
      BY <1>1, <2>6 DEF FilesIncludingNested, Below
    <3>2. rows[x] = folder[file[x].folder]
      BY <2>2, <3>1
    <3>3. HasRead(c, x)'
      BY <1>1, <2>3, <3>1, <3>2 DEF HasRead, At
    <3>4. QED  BY <3>3 DEF PaidOrOwed
  <2>7. Debts'
    BY <1>6, <2>3, <2>6 DEF Debts
  <2>8. QED  BY <1>5, <2>5, <2>7
<1>9. QED  BY <1>7, <1>8

\* What a task has read right gives the right path; if it raises instead, the files
\* whose folder still had its parent are given up, and the others are owed by another.
LEMMA RebuildPathsKeepsDebts ==
    ASSUME OInv, OneTask, NEW c \in Celery, RebuildPaths(c)
    PROVE  (\A b \in Celery : TaskJob(b)') /\ Debts'
<1> DEFINE listed == job[c].listed
           rows == job[c].rows
           found == {x \in listed : ValidPlace(rows[x].parent)}
           rebuilt == [x \in Files |-> IF x \in listed
                                    THEN Append(BuildPath(rows[x].parent), rows[x].name) ELSE << >>]
<1>1. UNCHANGED <<folder, file, queue, moved>> /\ At(c, "rebuild")
  BY Zenon DEF RebuildPaths
<1>2. c \in Workers /\ \A w \in Web : job'[w] = job[w]
  BY CeleryMovesOne DEF Task, OInv
<1>3. \A g \in Folders : QueuedFor(g) => QueuedFor(g)'
  BY <1>1, <1>2 DEF QueuedFor, At
<1>4. Tree /\ Hierarchy /\ job[c] \in Job /\ c \in DOMAIN job
  BY <1>2, HeldNow DEF OInv, WInv, TInv, TypeOK, JobsHeld, HInv, Tree
<1>5. \A b \in Celery : b = c
  BY DEF OneTask
<1>6. \A x \in found : WalkEnds(rows[x].parent)
  BY <1>4, HierarchyEnds
<1>7. \/ /\ Return(c) /\ abandoned' = abandoned \cup found
      \/ /\ found = listed /\ UNCHANGED abandoned
         /\ job' = [job EXCEPT ![c].pc = "bulk_update", ![c].paths = rebuilt, ![c].rows = IdleJob.rows]
  BY <1>6, Zenon DEF RebuildPaths
<1>8. \A g : Below(g)' = Below(g) /\ BuildPath(g)' = BuildPath(g)
  BY <1>1, SameFolders
<1>9. ASSUME NEW x \in Files, TaskWaits(x) PROVE PaidOrOwed(x)'
  <2>1. PICK p : p = file[x].folder /\ p = file'[x].folder
    BY <1>1
  <2>2. TaskWaits(x)'
    BY <1>3, <1>8, <1>9, <2>1, WaitsOn
  <2>3. QED  BY <2>2 DEF PaidOrOwed
<1>10. ASSUME NEW x \in Files, Settled(x), abandoned \subseteq abandoned', job'[c].listed \subseteq listed
       PROVE  PaidOrOwed(x)'
  <2>1. PICK p, path : p = file[x].folder /\ path = BuildPath(p) /\ path = BuildPath(p)'
    BY <1>8
  <2>2. BuildPath(file[x].folder)' = path /\ BuildPath(file[x].folder) = path
    BY <1>1, <2>1
  <2>3. PathIsRight(x) => PathIsRight(x)'
    BY <1>1, <2>2 DEF PathIsRight
  <2>4. Settled(x)'
    BY <1>5, <1>10, <2>3 DEF Settled
  <2>5. QED  BY <2>4 DEF PaidOrOwed
<1>11. ASSUME NEW x \in Files, HasRead(c, x)
       PROVE  /\ x \in found
              /\ Append(BuildPath(rows[x].parent), rows[x].name) = BuildPath(file[x].folder)
  <2>1. PICK p \in Folders : p = file[x].folder /\ rows[x] = folder[p] /\ x \in listed
    BY <1>1, <1>11 DEF HasRead
  <2>2. Exists(p) /\ WalkEnds(p)
    BY <2>1, NoneAssumption, PlaceIsSound DEF OInv, ValidPlace
  <2>3. ValidPlace(folder[p].parent)
    BY <2>2, <1>4 DEF Tree, NoOrphans
  <2>4. BuildPath(p) = Append(BuildPath(folder[p].parent), folder[p].name)
    BY <1>4, <2>2, PathStep
  <2>5. QED  BY <2>1, <2>3, <2>4
<1>12. CASE Return(c) /\ abandoned' = abandoned \cup found
  <2>1. job'[c] = IdleJob /\ job'[c].listed = {}
    BY <1>2, <1>12, IdleAfterReturn, IdleIsJob DEF OInv, WInv
  <2>2. TaskJob(c)'
    BY <2>1, IdleIsJob DEF TaskJob
  <2>3. ASSUME NEW x \in Files \ moved', file'[x].made PROVE PaidOrOwed(x)'
    <3>1. PaidOrOwed(x)
      BY <1>1, <2>3 DEF OInv, Debts
    <3>2. CASE HasRead(c, x)
      <4>1. x \in abandoned'
        BY <1>11, <1>12, <3>2
      <4>2. Settled(x)'
        BY <1>5, <2>1, <4>1 DEF Settled
      <4>3. QED  BY <4>2 DEF PaidOrOwed
    <3>3. abandoned \subseteq abandoned' /\ job'[c].listed \subseteq listed
      BY <1>12, <2>1
    <3>4. QED  BY <1>5, <1>9, <1>10, <3>1, <3>2, <3>3 DEF PaidOrOwed
  <2>4. QED  BY <1>5, <2>2, <2>3 DEF Debts
<1>13. CASE /\ UNCHANGED abandoned
            /\ job' = [job EXCEPT ![c].pc = "bulk_update", ![c].paths = rebuilt, ![c].rows = IdleJob.rows]
  <2>0. PICK paths, none : paths = rebuilt /\ none = IdleJob.rows
    OBVIOUS
  <2>1. job' = [job EXCEPT ![c].pc = "bulk_update", ![c].paths = paths, ![c].rows = none]
    BY <1>13, <2>0
  <2>2. job'[c].pc = "bulk_update" /\ job'[c].listed = listed /\ job'[c].paths = paths
    BY <2>1, <1>4 DEF Job
  <2>3. TaskJob(c)'
    BY <1>1, <2>2 DEF TaskJob, OInv
  <2>4. ASSUME NEW x \in Files \ moved', file'[x].made PROVE PaidOrOwed(x)'
    <3>1. PaidOrOwed(x)
      BY <1>1, <2>4 DEF OInv, Debts
    <3>2. CASE HasRead(c, x)
      <4>1. x \in listed
        BY <3>2 DEF HasRead
      <4>2. paths[x] = BuildPath(file[x].folder)
        BY <1>11, <2>0, <3>2, <4>1
      <4>3. PICK p, path : p = file[x].folder /\ path = BuildPath(p) /\ path = BuildPath(p)'
        BY <1>8
      <4>4. BuildPath(file[x].folder)' = path /\ BuildPath(file[x].folder) = path
        BY <1>1, <4>3
      <4>5. HasRead(c, x)'
        BY <2>2, <4>1, <4>2, <4>4 DEF HasRead, At
      <4>6. QED  BY <4>5 DEF PaidOrOwed
    <3>3. abandoned \subseteq abandoned' /\ job'[c].listed \subseteq listed
      BY <1>13, <2>2
    <3>4. QED  BY <1>5, <1>9, <1>10, <3>1, <3>2, <3>3 DEF PaidOrOwed
  <2>5. QED  BY <1>5, <2>3, <2>4 DEF Debts
<1>14. QED  BY <1>7, <1>12, <1>13

LEMMA BulkUpdateKeepsDebts ==
    ASSUME OInv, OneTask, NEW c \in Celery, BulkUpdate(c)
    PROVE  (\A b \in Celery : TaskJob(b)') /\ Debts'
<1>1. /\ UNCHANGED <<folder, queue, moved>> /\ At(c, "bulk_update") /\ Return(c)
      /\ file' = [x \in Files |-> IF x \in job[c].listed
                                  THEN [file[x] EXCEPT !.path = job[c].paths[x]] ELSE file[x]]
      /\ abandoned' = abandoned \ job[c].listed
  BY DEF BulkUpdate
<1>2. c \in Workers /\ \A w \in Web : job'[w] = job[w]
  BY CeleryMovesOne DEF Task, OInv
<1>3. \A g \in Folders : QueuedFor(g) => QueuedFor(g)'
  BY <1>1, <1>2 DEF QueuedFor, At
<1>4. \A b \in Celery : b = c
  BY DEF OneTask
<1>5. job'[c].listed = {} /\ job'[c].pc = "idle"
  BY <1>1, <1>2, IdleAfterReturn, IdleIsJob DEF OInv, WInv
<1>6. TaskJob(c)'
  BY <1>5 DEF TaskJob
<1>7. \A x \in Files : file[x] \in FileRow
  BY DEF OInv, WInv, TInv, TypeOK
<1>8. \A x \in Files : /\ file'[x].folder = file[x].folder /\ file'[x].made = file[x].made
                       /\ x \in job[c].listed => file'[x].path = job[c].paths[x]
                       /\ x \notin job[c].listed => file'[x] = file[x]
  BY <1>1, <1>7 DEF FileRow
<1>9. \A g : Below(g)' = Below(g) /\ BuildPath(g)' = BuildPath(g)
  BY <1>1, SameFolders
<1>10. ASSUME NEW x \in Files \ moved', file'[x].made PROVE PaidOrOwed(x)'
  <2>1. PaidOrOwed(x)
    BY <1>1, <1>8, <1>10 DEF OInv, Debts
  <2>2. PICK p, path : /\ p = file[x].folder /\ p = file'[x].folder
                       /\ path = BuildPath(p) /\ path = BuildPath(p)'
    BY <1>8, <1>9
  <2>3. BuildPath(file[x].folder)' = path /\ BuildPath(file[x].folder) = path
    BY <2>2
  <2>4. CASE TaskWaits(x)
    <3>1. TaskWaits(x)'
      BY <1>3, <1>9, <2>2, <2>4, WaitsOn
    <3>2. QED  BY <3>1 DEF PaidOrOwed
  <2>5. CASE HasRead(c, x)
    <3>1. file'[x].path = path
      BY <1>1, <1>8, <2>3, <2>5 DEF HasRead
    <3>2. PathIsRight(x)'
      BY <2>3, <3>1 DEF PathIsRight
    <3>3. QED  BY <1>4, <1>5, <3>2 DEF PaidOrOwed, Settled
  <2>6. CASE Settled(x)
    <3>1. x \notin job[c].listed /\ (x \in abandoned => x \in abandoned')
      BY <1>1, <2>6 DEF Settled
    <3>2. PathIsRight(x) => PathIsRight(x)'
      BY <1>8, <2>3, <3>1 DEF PathIsRight
    <3>3. Settled(x)'
      BY <1>4, <1>5, <2>6, <3>1, <3>2 DEF Settled
    <3>4. QED  BY <3>3 DEF PaidOrOwed
  <2>7. QED  BY <1>4, <2>1, <2>4, <2>5, <2>6 DEF PaidOrOwed
<1>11. QED  BY <1>4, <1>6, <1>10 DEF Debts

LEMMA InitOInv == Init => OInv
<1> SUFFICES ASSUME Init PROVE OInv
  OBVIOUS
<1>1. \A c \in Celery : TaskJob(c)
  <2> TAKE c \in Celery
  <2>1. job[c] = IdleJob
    BY DEF Init, Workers
  <2>2. QED  BY <2>1, IdleIsJob DEF TaskJob
<1>2. Debts
  BY DEF Init, Debts, NoFile
<1>3. QED  BY <1>1, <1>2, InitWInv DEF OInv

LEMMA StepOInv == OInv /\ OneWriter /\ OneTask /\ [Next]_vars => OInv'
<1> SUFFICES ASSUME OInv, OneWriter, OneTask, [Next]_vars PROVE OInv'
  OBVIOUS
<1>1. WInv'
  BY StepWInv DEF OInv
<1>2. (\A c \in Celery : TaskJob(c)') /\ Debts'
  <2>1. ASSUME NEW w \in Web, Request(w) \/ Step(w)
        PROVE  (\A c \in Celery : TaskJob(c)') /\ Debts'
    BY <2>1, RequestKeepsDebts, InsertFolderKeepsDebts, SaveFolderKeepsDebts, EnqueueKeepsDebts,
       DeleteFolderKeepsDebts, FileWriteKeepsDebts DEF Step
  <2>2. ASSUME NEW c \in Celery, Task(c)
        PROVE  (\A b \in Celery : TaskJob(b)') /\ Debts'
    BY <2>2, StartPathTaskKeepsDebts, RebuildPathsKeepsDebts, BulkUpdateKeepsDebts DEF Task
  <2>3. CASE UNCHANGED vars
    <3>1. UNCHANGED <<folder, file, queue, job, moved, abandoned>>
      BY <2>3 DEF vars, history
    <3>2. \A f : QueuedFor(f) => QueuedFor(f)'
      BY <3>1 DEF QueuedFor, At
    <3>3. \A c \in Celery : TaskJob(c)'
      BY <3>1, ListedAreFiles, TaskJobKept DEF OInv, WInv
    <3>4. ASSUME NEW x \in Files \ moved', file'[x].made PROVE PaidOrOwed(x)'
      <4>1. PaidOrOwed(x)
        BY <3>1, <3>4 DEF OInv, Debts
      <4>2. QED  BY <3>1, <3>2, <4>1, DebtKept DEF OInv
    <3>5. QED  BY <3>3, <3>4 DEF Debts
  <2>4. QED  BY <2>1, <2>2, <2>3, BinKeepsDebts DEF Next
<1>3. QED  BY <1>1, <1>2 DEF OInv

LEMMA DebtsAreOwed ==
    ASSUME OInv, OneTask
    PROVE  WrongPathIsOwed
<1> SUFFICES ASSUME NEW x \in Cared
             PROVE  \/ TaskWaits(x)
                    \/ \E c \in Celery : TaskCorrects(x, c)
                    \/ PathIsRight(x) /\ \A c \in Celery : ~TaskSpoils(x, c)
  BY DEF WrongPathIsOwed
<1>1. x \in Files \ moved /\ x \notin abandoned /\ file[x].made
  BY DEF Cared
<1>2. PaidOrOwed(x)
  BY <1>1 DEF OInv, Debts
<1>3. ASSUME NEW c \in Celery, HasRead(c, x) PROVE TaskCorrects(x, c)
  <2>1. job[c].pc \in {"rebuild", "bulk_update"} /\ x \in job[c].listed
    BY <1>3 DEF OInv, TaskJob, HasRead
  <2>2. CASE At(c, "bulk_update")
    BY <1>3, <2>2 DEF HasRead, TaskCorrects, TaskPath, At
  <2>3. CASE At(c, "rebuild")
    <3>1. PICK p \in Folders : p = file[x].folder /\ job[c].rows[x] = folder[p]
      BY <1>3, <2>3 DEF HasRead
    <3>2. Exists(p) /\ WalkEnds(p)
      BY <1>1, <3>1, NoneAssumption, PlaceIsSound DEF OInv, ValidPlace
    <3>3. BuildPath(p) = Append(BuildPath(folder[p].parent), folder[p].name)
      BY <3>2, PathStep DEF OInv, WInv, TInv, TypeOK, Tree
    <3>4. TaskPath(x, c) = Append(BuildPath(job[c].rows[x].parent), job[c].rows[x].name)
      BY <2>3 DEF TaskPath
    <3>5. QED  BY <2>1, <3>1, <3>3, <3>4 DEF TaskCorrects
  <2>4. QED  BY <2>1, <2>2, <2>3 DEF At
<1>4. Settled(x) => PathIsRight(x) /\ \A c \in Celery : ~TaskSpoils(x, c)
  BY <1>1 DEF Settled, TaskSpoils
<1>5. QED  BY <1>2, <1>3, <1>4 DEF PaidOrOwed

\* With one web and one Celery worker no wrong path is forgotten, for any folders
\* and files, however the requests come between a save, its task and the task's
\* statements: folder_serializer.py, file_path_updates.py.
THEOREM OwedCorrect ==
    ASSUME OneWriter, OneTask PROVE Spec => []WrongPathIsOwed
<1>1. OInv /\ [Next]_vars => OInv'
  BY StepOInv
<1>2. OInv => WrongPathIsOwed
  BY DebtsAreOwed
<1>3. QED  BY InitOInv, <1>1, <1>2, PTL DEF Spec
=============================================================================
