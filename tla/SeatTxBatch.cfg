\* Two travellers with a seat each, a couple that may take both, two connections.
CONSTANTS
    b1 = b1
    b2 = b2
    b3 = b3
    f1 = f1
    s1 = s1
    s2 = s2
    c1 = c1
    c2 = c2
    NULL = NULL
    Bookings = {b1, b2, b3}
    Flights = {f1}
    Seats = {s1, s2}
    Conns = {c1, c2}
    Itinerary <- OneItinerary
    Party <- CoupleLast
    OfferEnds <- NoOffer
    Refundable = {b1}
    SeatFlight <- OneSeatFlight
    Eligible <- OneSeatEach
    Bookable = {f1}
    Departure <- OneDeparture
    Rank <- SeatOrder
    HoldDuration = 1
    BatchLimit = 2
    LockWait = 1
    MaxTime = 1
SPECIFICATION TxSpec
SYMMETRY ConnSymmetry
INVARIANTS
    NoDeadlock
\* The clock is bounded, so the system may stop.
CHECK_DEADLOCK FALSE
