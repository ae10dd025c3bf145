\* One payment, two workers, two webhook ids, two faults.
CONSTANTS
    p1 = p1
    w1 = w1
    w2 = w2
    Ids = {p1}
    Workers = {w1, w2}
    Notices = {1, 2}
    MaxFaults = 2
SPECIFICATION FairSpec
INVARIANTS
    ChargedOnce
    MoneyMatches
PROPERTIES
    NeverBack
    OwingEnds
\* All events may be settled.
CHECK_DEADLOCK FALSE
