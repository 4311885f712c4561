SPECIFICATION FairSpec
CONSTANTS
    Owners = {o1}
    Topics = {x1}
    Editors = {e1}
    Ticks = {t1}
    MaxAttempts = 2
    BatchSize = 2
    MaxRows = 3
    MaxMishaps = 1
    None = None
INVARIANT
    SettledInOrder
PROPERTIES
    ImplementsDelivery
    EventsSettle
