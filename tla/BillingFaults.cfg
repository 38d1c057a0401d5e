\* One worker that may crash; an amount amended, plan changes, an unknown customer (s2).
CONSTANTS
    u1 = u1
    s1 = s1
    s2 = s2
    i1 = i1
    i2 = i2
    i3 = i3
    w1 = w1
    w2 = w2
    None = None
    Users = {u1}
    Subs = {s1, s2}
    Invoices = {i1, i3}
    Workers = {w1}
    Owner <- MCOwner
    SubOf <- MCSubOf
    Period <- MCPeriod
    Cycle = {}
    Resolvable = {s1}
    FreeHolders = {}
    Modifiable = {s1}
    Amendable = {i1}
    Faulty = {w1}
    Declinable = {i1}

SPECIFICATION Spec
INVARIANTS
    PaidMatchesCharge
    AcknowledgedPaidIsRecorded
    
CHECK_DEADLOCK FALSE
