\* A failed turn before one that completes: violated, see README.md.
SPECIFICATION Spec
CONSTANTS
    q1 = q1
    q2 = q2
    q3 = q3
    Turns = {q1, q2, q3}
    Old <- OldTurn
    NoTurn = NoTurn
    MaxRetries = 1
    Unsafe = {".."}
    NoTask = NoTask
    Default = Default
    Nobody = Nobody
INVARIANTS
    FailedTurnsStayOut
