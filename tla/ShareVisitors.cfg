\* One link, one file in or out of a shared folder, two passwords, one visitor.
CONSTANTS
    l1 = l1
    l2 = l2
    l3 = l3
    x1 = x1
    r1 = r1
    w1 = w1
    w2 = w2
    v1 = v1
    known = known
    secret = secret
    None = None
    Links = {l1}
    Files = {x1}
    Roots = {r1}
    Web = {w1}
    Public = {v1}
    Configs <- FreeAndPro
    Default = 1
    Choices = {0, 2}
    Passwords = {known, secret}
    Known = {known}
    TokenLife = 2
    UrlLife = 1

SPECIFICATION Spec
INVARIANTS
    TypeOK
    ClosedGivesNothing
    UnsharedGivesNothing
    LockedGivesNothing
CHECK_DEADLOCK FALSE
