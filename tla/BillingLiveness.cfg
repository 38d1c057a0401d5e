\* Two workers, one of which may crash; one subscription and its first invoice.
CONSTANTS
    u1 = u1
    s1 = s1
    s2 = s2
    i1 = i1
    i2 = i2
    i3 = i3
    w1 = w1
    w2 = w2
    None = None
    Users = {u1}
    Subs = {s1}
    Invoices = {i1}
    Workers = {w1, w2}
    Owner <- MCOwner
    SubOf <- MCSubOf
    Period <- MCPeriod
    Cycle = {}
    Resolvable = {s1}
    FreeHolders = {u1}
    Modifiable = {}
    Amendable = {}
    Faulty = {w1}
    Declinable = {}

SPECIFICATION FairSpec
PROPERTIES
    InboxDrains
    CollectedInvoiceActivates
    EndedSubscriptionIsCanceled
    EndedSubscriptionFreesUser
CHECK_DEADLOCK FALSE
