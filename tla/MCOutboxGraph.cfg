SPECIFICATION Spec
CONSTANTS
    Owners = {o1}
    Topics = {x1, x2}
    Editors = {e1, e2}
    Ticks = {t1, t2}
    MaxAttempts = 1
    BatchSize = 2
    MaxRows = 2
    MaxMishaps = 1
    None = None
INVARIANTS
    OneRunWithFreshBatch
    DrainedGraphMatches
SYMMETRY Symmetry
