SPECIFICATION Spec
CONSTANTS
    Calls = {c1, c2}
    Watched = c1
    MaxTokens = 3
    MaxFamilies = 1
    MaxRefusals = 1
    None = None
INVARIANTS
    StaysSignedIn
    EndedForGood
PROPERTY
    CallsEnd
CHECK_DEADLOCK FALSE
