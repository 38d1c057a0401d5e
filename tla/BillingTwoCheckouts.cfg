\* One customer completes two checkouts; one worker, no fault.
CONSTANTS
    u1 = u1
    s1 = s1
    s2 = s2
    i1 = i1
    i2 = i2
    i3 = i3
    w1 = w1
    w2 = w2
    None = None
    Users = {u1}
    Subs = {s1, s2}
    Invoices = {i1, i3}
    Workers = {w1}
    Owner <- MCOwner
    SubOf <- MCSubOf
    Period <- MCPeriod
    Cycle = {}
    Resolvable = {s1, s2}
    FreeHolders = {u1}
    Modifiable = {}
    Amendable = {}
    Faulty = {}
    Declinable = {}

SPECIFICATION Spec
INVARIANTS
    OneActiveSubscription
CHECK_DEADLOCK FALSE
