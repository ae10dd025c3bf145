\* Two workers, two events, two attempts, two faults.
CONSTANTS
    w1 = w1
    w2 = w2
    NULL = NULL
    Events = {1, 2}
    Workers = {w1, w2}
    MaxAttempts = 2
    LeaseTime = 2
    JobTime = 1
    BackoffCap = 1
    BatchLimit = 2
    MaxFaults = 2
SPECIFICATION Spec
INVARIANTS
    DeadAfterMaxAttempts
\* All events may be settled.
CHECK_DEADLOCK FALSE
