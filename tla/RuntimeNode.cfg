\* A node over a model, a session or a structured model.
SPECIFICATION FairSpec
CONSTANTS
    MaxNotes = 2
    MaxRepeats = 1
    MaxAttempts = 3
    MaxCancels = 2
    None = None
CHECK_DEADLOCK FALSE
INVARIANTS
    LogicalStreamWellFormed
    SuccessIsGenuine
PROPERTIES
    EverythingReleased
