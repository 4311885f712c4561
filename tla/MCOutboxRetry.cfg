SPECIFICATION Spec
CONSTANTS
    Owners = {o1}
    Topics = {x1}
    Editors = {e1}
    Ticks = {t1, t2}
    MaxAttempts = 2
    BatchSize = 2
    MaxRows = 2
    MaxMishaps = 0
    None = None
INVARIANT
    RetriesDoNoHarm
