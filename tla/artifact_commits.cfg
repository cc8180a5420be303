\* Two requests over two artifacts, three backend processes.
\* The backend may wait for the next request for ever: no deadlock check.
SPECIFICATION FairSpec
CONSTANTS
    Operations = {o1, o2}
    Artifacts = {a1, a2}
    None = None
    MaxRevision = 2
    MaxVersion = 2
    MaxRuns = 3
CHECK_DEADLOCK FALSE
INVARIANTS
    FilesKept
    ListedIfCompleted
PROPERTIES
    LibraryRefined
    EveryArtifactRequestSettles
