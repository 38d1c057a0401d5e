\* Two workers; one subscription, opened by i1, renewed by i2 after declines.
CONSTANTS
    u1 = u1
    s1 = s1
    s2 = s2
    i1 = i1
    i2 = i2
    i3 = i3
    w1 = w1
    w2 = w2
    None = None
    Users = {u1}
    Subs = {s1}
    Invoices = {i1, i2}
    Workers = {w1, w2}
    Owner <- MCOwner
    SubOf <- MCSubOf
    Period <- MCPeriod
    Cycle = {i2}
    Resolvable = {s1}
    FreeHolders = {u1}
    Modifiable = {}
    Amendable = {}
    Faulty = {}
    Declinable = {i2}

SPECIFICATION Spec
SYMMETRY MCSymmetry
INVARIANTS
    TypeOK
    ActiveEndIsPaidFor
    AcknowledgedPaidIsRecorded
    FreeDisplacedOnlyByPayment
    CanceledOnlyWhenEnded
PROPERTIES
    CreationNeverResets
    
CHECK_DEADLOCK FALSE
