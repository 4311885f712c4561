SPECIFICATION Spec
CONSTANTS
    Keys = {k1}
    Requests = {r1, r2}
    MaxNo = 2
    MaxXp = 1
    None = None
INVARIANT
    NumberedWithinLimits
PROPERTY
    OneSheetThatStands
SYMMETRY Symmetry
CHECK_DEADLOCK FALSE
