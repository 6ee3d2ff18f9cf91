\* Three statements of the documentation: events behind turn/completed, and a
\* finally clause that is cut short.  Each is violated (tlc -continue).
SPECIFICATION Spec
CONSTANTS
    MaxNotes = 1
    MaxRepeats = 1
    MaxAttempts = 2
    MaxCancels = 1
    None = None
CHECK_DEADLOCK FALSE
INVARIANTS
    DrainedStreamEndsTerminal
    OneTerminalOutcome
    CleanupReleases
