\* One cancellation of a structured stream that has not begun its first attempt.
SPECIFICATION Spec
CONSTANTS
    MaxNotes = 1
    MaxRepeats = 0
    MaxAttempts = 2
    MaxCancels = 1
    None = None
CHECK_DEADLOCK FALSE
INVARIANT CancellationInterrupts
