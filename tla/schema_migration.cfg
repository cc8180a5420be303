\* A workspace of every release, and none, opened with one crash or end of the process.
\* A start that fails fails for good: no deadlock check.
SPECIFICATION Spec
CONSTANTS
    Releases <- AllReleases
    MaxCrashes = 1
CHECK_DEADLOCK FALSE
INVARIANTS
    RowsKept
    OpensAsInstalled
    FailsOnlyWhereUnrepeatable
    BackupAtHand
