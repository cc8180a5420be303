\* Two calls that run one program, stopped up to twice each, and a crash.
\* The calls may all be over: no deadlock check.
SPECIFICATION FairSpec
CONSTANTS
    c1 = c1
    c2 = c2
    fit = fit
    plot = plot
    grid = grid
    Calls = {c1, c2}
    Programs = {fit, plot}
    Program <- MCProgram
    Sources = {grid}
    Allowance = 2
    MaxStops <- MCMaxStops
    MaxRuns = 2
    None = None
CHECK_DEADLOCK FALSE
INVARIANTS
    SuccessIsWhole
    OutputsAsRecorded
    
PROPERTIES
    ContextProbedOnce
    RecordRefined
    EveryExecutionEnds
