\* Two notes of one task, a shipped Skill and a new one, reviews of one note.
\* Every note may be decided on and every task at its last round: no deadlock check.
SPECIFICATION Spec
CONSTANTS
    r1 = r1
    r2 = r2
    t1 = t1
    shipped = shipped
    fresh = fresh
    NoteCount = 2
    Requests = {r1, r2}
    RequestOf <- MCRequestOf
    Tasks = {t1}
    TaskOf <- MCOneTask
    Skills = {shipped, fresh}
    Bundled = {shipped}
    BatchSize = 1
    Estimates = {1}
    Overrun = 1
    ReviewBudget = 2
    DailyBudget = 3
    MaxCalls = 2
    MaxDecisions = 1
    MaxRounds = 2
    MaxRollbacks = 1
    Unread = Unread
CHECK_DEADLOCK FALSE
INVARIANTS
    NoVersionOverwritten
    UsageWithinBudget
PROPERTIES
    PublishedAsReviewed
    HistoryRefined
    EveryNoteComesUp
