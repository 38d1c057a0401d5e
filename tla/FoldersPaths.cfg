\* One web worker, one Celery worker, two folders that nest, one file.
CONSTANTS
    d1 = d1
    d2 = d2
    d3 = d3
    x1 = x1
    x2 = x2
    a = a
    b = b
    w1 = w1
    w2 = w2
    c1 = c1
    None = None
    Folders = {d1, d2}
    Files = {x1}
    Names = {a, b}
    Web = {w1}
    Celery = {c1}
    Tangled = FALSE
    MaxTasks = 1

SPECIFICATION FairSpec
INVARIANTS
    TypeOK
    
    WrongPathIsOwed
PROPERTIES
    
    PathsSettle
CHECK_DEADLOCK FALSE
