\* One web worker and the clean-up tasks, any of which may fail.
CONSTANTS
    f1 = f1
    f2 = f2
    w1 = w1
    w2 = w2
    c1 = c1
    None = None
    Files = {f1, f2}
    Web = {w1}
    Celery = {c1}
    Limit = 2
    MaxFile = 1
    Sizes = {1}
    Restorable = {}
    Renamable = {f2}
    Lingering = {}
    Emptiers = {c1}
    Purgers = {c1}
    Faulty = {w1, c1}

SPECIFICATION FairSpec
PROPERTIES
    RowGoesWithObject
    BinEmpties
CHECK_DEADLOCK FALSE
