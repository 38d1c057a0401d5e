\* u1 sets three passwords, u2 two and changes names; requests of u3 may fail.
CONSTANTS
    u1 = u1
    u2 = u2
    u3 = u3
    n1 = n1
    n2 = n2
    n3 = n3
    e1 = e1
    e2 = e2
    e3 = e3
    w1 = w1
    w2 = w2
    None = None
    Users = {u1, u2, u3}
    Names = {n1, n2, n3}
    Emails = {e1, e2, e3}
    Normal <- MCNormal
    Folded <- MCFolded
    Web = {w1, w2}
    Faulty = {u3}
    Renaming = {u2}
    FreePlan = TRUE
    NamesOf <- MCNamesOf
    EmailsOf <- MCEmailsOf
    MaxHash <- MCMaxHash
    MaxMails = 1

SPECIFICATION Spec
SYMMETRY MCSymmetry
INVARIANTS
    TypeOK
    RegisteredIsComplete
    EmailOvershoot
    SpentLinkIsDead
CHECK_DEADLOCK FALSE
