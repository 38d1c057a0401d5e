\* Three links, two workers, a plan that allows one link and lets the owner choose its end.
CONSTANTS
    l1 = l1
    l2 = l2
    l3 = l3
    x1 = x1
    r1 = r1
    w1 = w1
    w2 = w2
    v1 = v1
    known = known
    secret = secret
    None = None
    Links = {l1, l2, l3}
    Files = {x1}
    Roots = {}
    Web = {w1, w2}
    Public = {}
    Configs <- ShortPro
    Default = 1
    Choices = {1}
    Passwords = {}
    Known = {}
    TokenLife = 1
    UrlLife = 1

SPECIFICATION Spec
SYMMETRY MCSymmetry
INVARIANTS
    LimitOvershoot
CHECK_DEADLOCK FALSE
