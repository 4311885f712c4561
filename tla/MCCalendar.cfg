SPECIFICATION Spec
CONSTANTS
    Lessons = {l1}
    Assignments = {a1}
    Requests = {r1, r2}
    MaxTime = 2
    MaxEvents = 3
    MaxCalls = 3
    None = None
INVARIANTS
    CalendarMatchesLessons
    CalendarHeals
SYMMETRY Symmetry
CHECK_DEADLOCK FALSE
