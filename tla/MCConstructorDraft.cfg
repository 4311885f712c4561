SPECIFICATION Spec
CONSTANTS
    Assignments = {a1, a2}
    Contents = {x, y}
    Template = x
    MaxClicks = 3
    None = None
    Gone = Gone
INVARIANT
    PublishedOnRequest
CHECK_DEADLOCK FALSE
