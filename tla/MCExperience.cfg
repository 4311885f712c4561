SPECIFICATION Spec
CONSTANTS
    Requests = {r1, r2}
    Percents = {50, 80}
    CompletePct = 80
    MaxOpenings = 2
    AutoGraded = {q1}
    Open = {o1}
    Answers = {{}, {1}, {2}}
    Keys = {{1}, {1, 2}}
    Points = 2
    MaxXp = 2
    Tolerance = 0
    MaxCalls = 3
    Assignments = {a1, a2}
    Full = 2
    Ranks = {1, 3}
    MaxGradings = 3
    Tries = {n1, n2}
    Deltas <- UpAndDown
    MaxChanges = 4
    MaxUploads = 2
    Student = s
    Admins = {ad}
    Agents = {ag}
    Teachers = {cu}
    Threads = {t1}
    MaxMessages = 2
    MaxMoves = 1
    Followed = {"experience"}
    None = None
INVARIANTS
    LedgerExplainsBalance
    EarnedFollowsScores
SYMMETRY ExperienceSymmetry
CHECK_DEADLOCK FALSE
