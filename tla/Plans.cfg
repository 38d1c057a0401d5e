\* Edits of the storage of two plans, of its defaults and of the Pro plan.
CONSTANTS
    EditableFeatures <- MCFeatures
    EditableRows <- MCRows
    EditablePlans <- MCPlans
    HandMade <- MCHandMade
    Prices = {0, 20000}
    Null = Null
    Junk = Junk
    None = None

SPECIFICATION Spec
INVARIANTS
    TypeOK
    SeededLimits
    ChangeOnlyReduces
PROPERTIES
    DeployKeepsLimits
CHECK_DEADLOCK FALSE
