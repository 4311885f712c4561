SPECIFICATION Spec
CONSTANTS
    Users = {u1}
    Courses = {c1}
    Payments = {p1, p2}
    Requests = {r1, r2, r3}
    None = None
INVARIANT
    ChargesMatchPlaces
PROPERTIES
    SettledForGood
    ImplementsAccessLifecycle
SYMMETRY Symmetry
CHECK_DEADLOCK FALSE
