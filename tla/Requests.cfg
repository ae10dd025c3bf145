\* One user, two keys, two payloads, two requests at a time, two in a window.
CONSTANTS
    u1 = u1
    k1 = k1
    k2 = k2
    d1 = d1
    d2 = d2
    a1 = a1
    a2 = a2
    NULL = NULL
    Users = {u1}
    Keys = {k1, k2}
    Payloads = {d1, d2}
    UserOf <- OneUser
    Resources = {1, 2}
    Attempts = {a1, a2}
    Limit = 2
    MaxWindow = 1
SPECIFICATION FairSpec
INVARIANTS
    SaveNeverConflicts
    LimitHolds
PROPERTIES
    KeptPromise
    RequestsEnd
