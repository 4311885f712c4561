SPECIFICATION Spec
CONSTANTS
    Questions = {q1}
    Answers = {x, y}
    Slots = {s1, s2}
    MaxPayments = 2
    Assignments = {a1, a2}
    Contents = {x, y}
    Template = x
    MaxClicks = 3
    Gone = Gone
    Threads = {t1, t2}
    First = t1
    MaxReplies = 2
    MaxPosted = 2
    MaxNotes = 2
    ToastLimit = 1
    Lessons = {l1, l2}
    Dwell = 1
    MaxSent = 2
    Values = {x, y}
    MaxOthers = 1
    MaxSaves = 2
    Emails = {e1, e2, e3}
    Nicks = {n1}
    MaxCodes = 2
    MaxCalls = 2
    Texts = {x, y}
    Pictures = {p1}
    MaxPhotos = 2
    None = None
SYMMETRY Symmetry
INVARIANTS
    TypeOK
    HandedInAsShown
    WhatWasToldStands
    OwnQuestions
    QuestionsStand
    ReplyArrivesOnce
    ReminderTakenBack
    CreditIsRecorded
    VideoIsLastChosen
    SavedStands
    PageFollowsAccount
PROPERTY
    EmailByItsCode
CHECK_DEADLOCK FALSE
