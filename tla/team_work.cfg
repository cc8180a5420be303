\* Two requests, an Expert asked twice and a discussion next to it; the process dies
\* and recovers.
\* The requests may all be closed: no deadlock check.
SPECIFICATION FairSpec
CONSTANTS
    a1 = a1
    b1 = b1
    a2 = a2
    A = A
    B = B
    r1 = r1
    r2 = r2
    Orders = {a1, b1, a2}
    Experts = {a1, a2}
    Sessions = {A, B}
    Requests = {r1, r2}
    SessionOf <- MCSessionOf
    RequestOf <- MCRequestOf
    Round <- MCRound
    Executions = {1}
    FileOf <- MCFileOf
    NoName = NoName
    NoKey = NoKey
    Discussions = {"D"}
    Nobody = Nobody
    MaxRetries = 1
    MaxStops = 2
    MaxRuns = 2
CHECK_DEADLOCK FALSE
INVARIANTS
    OneActivePerSession
    LeftoverSettled
    NoExecutionOutlivesItsExpert
    EvidenceKept
PROPERTIES
    WorkBookRefined
    EveryOrderSettles
