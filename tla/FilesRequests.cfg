\* Two web workers, two files, no fault, no clean-up task.
CONSTANTS
    f1 = f1
    f2 = f2
    w1 = w1
    w2 = w2
    c1 = c1
    None = None
    Files = {f1, f2}
    Web = {w1, w2}
    Celery = {}
    Limit = 3
    MaxFile = 2
    Sizes = {1, 2, 3}
    Restorable = {f1, f2}
    Renamable = {}
    Lingering = {}
    Emptiers = {}
    Purgers = {}
    Faulty = {}

SPECIFICATION Spec
SYMMETRY MCSymmetry
INVARIANTS
    TypeOK
    EachFileFits
    SettledSizeIsReal
    RefusedIsGone
CHECK_DEADLOCK FALSE
