\* Two couples, one flight with two seats, two connections.
CONSTANTS
    b1 = b1
    b2 = b2
    b3 = b3
    f1 = f1
    s1 = s1
    s2 = s2
    c1 = c1
    c2 = c2
    NULL = NULL
    Bookings = {b1, b2}
    Flights = {f1}
    Seats = {s1, s2}
    Conns = {c1, c2}
    Itinerary <- OneItinerary
    Party <- Couples
    OfferEnds <- NoOffer
    Refundable = {b1, b2}
    SeatFlight <- OneSeatFlight
    Eligible <- AllEligible
    Bookable = {f1}
    Departure <- OneDeparture
    Rank <- SeatOrder
    HoldDuration = 1
    BatchLimit = 2
    LockWait = 1
    MaxTime = 3
SPECIFICATION TxSpec
SYMMETRY ConnSymmetry
PROPERTIES
    Atomic
\* The clock is bounded, so the system may stop.
CHECK_DEADLOCK FALSE
