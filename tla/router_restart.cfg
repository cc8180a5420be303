\* Two submits and one control request over two backend processes: crashes, drains, restarts.
\* The backend may wait for the next request for ever: no deadlock check.
SPECIFICATION Spec
CONSTANTS
    Submits = {s1, s2}
    Controls = {c1}
    Tasks = {t1}
    Conversations = {t1, chat}
    None = None
    MaxRuns = 2
SYMMETRY Symmetry
CHECK_DEADLOCK FALSE
INVARIANTS
    OpenSubmitIsOwned
    SeenIsDurable
    OneAgentPerConversation
    CheckpointSound
    ReceiptSurvivesRestart
    NoQuestionAfterStop
PROPERTIES
    JournalRefined
