\* A cancellation that arrives while the agent is inside its finally block.
\* The backend may wait for the next request for ever: no deadlock check.
SPECIFICATION Spec
CONSTANTS
    Submits = {s1, s2}
    Controls = {c1}
    Tasks = {t1}
    Conversations = {t1, chat}
    None = None
    MaxRuns = 1
CHECK_DEADLOCK FALSE
INVARIANTS
    FollowUpNotMisclassified
