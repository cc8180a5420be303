\* Three turns of a task with or without an old checkpoint.
SPECIFICATION Spec
CONSTANTS
    q1 = q1
    q2 = q2
    q3 = q3
    Turns = {q1, q2, q3}
    Old <- OldTurn
    NoTurn = NoTurn
    MaxRetries = 1
    Unsafe = {".."}
    NoTask = NoTask
    Default = Default
    Nobody = Nobody
SYMMETRY Symmetry
INVARIANTS
    CompletedTurnsKept
PROPERTIES
    ConversationRefined
