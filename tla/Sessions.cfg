\* One user, two sessions, four pairs of tokens, three requests at a time.
CONSTANTS
    u1 = u1
    s1 = s1
    s2 = s2
    t1 = t1
    t2 = t2
    t3 = t3
    t4 = t4
    r1 = r1
    r2 = r2
    r3 = r3
    NULL = NULL
    Users = {u1}
    Sessions = {s1, s2}
    Tokens = {t1, t2, t3, t4}
    Requests = {r1, r2, r3}
    SessionTime = 1
    AccessTime = 1
    HashSlots = 2
    MaxTime = 1
SPECIFICATION Spec
SYMMETRY IdSymmetry
INVARIANTS
    RotatedOnce
    EndedIsDead
    NoDeadlock
PROPERTIES
    RevokedIsFinal
\* The clock and the ids are bounded, so the system may stop.
CHECK_DEADLOCK FALSE
