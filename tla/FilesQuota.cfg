\* One web worker, no fault, nothing restored or renamed.
CONSTANTS
    f1 = f1
    f2 = f2
    w1 = w1
    w2 = w2
    c1 = c1
    None = None
    Files = {f1, f2}
    Web = {w1}
    Celery = {}
    Limit = 3
    MaxFile = 2
    Sizes = {1, 2, 3}
    Restorable = {}
    Renamable = {}
    Lingering = {}
    Emptiers = {}
    Purgers = {}
    Faulty = {}

SPECIFICATION Spec
INVARIANTS
    StorageWithinLimit
CHECK_DEADLOCK FALSE
