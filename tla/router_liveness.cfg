\* Two submits over two tasks, and a restart.
\* The backend may wait for the next request for ever: no deadlock check.
SPECIFICATION FairSpec
CONSTANTS
    Submits = {s1, s2}
    Controls = {}
    Tasks = {t1, t2}
    Conversations = {t1, t2}
    None = None
    MaxRuns = 2
CHECK_DEADLOCK FALSE
PROPERTIES
    HandlerReturns
    EveryRequestSettles
