SPECIFICATION Spec
CONSTANTS
    s1 = s1
    s2 = s2
    Starts <- MCStarts
    Closes = {k1}
    Runs = {r1}
    Tasks = {t1}
    Sessions = {v1}
    Orderly = TRUE
    MaxFaults = 1
    None = None
CONSTRAINT FirstStart
CHECK_DEADLOCK FALSE
INVARIANT
    NothingAbandoned
