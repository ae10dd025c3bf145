\* Two flights, the second departing earlier than a hold on the first would end.
CONSTANTS
    b1 = b1
    b2 = b2
    f1 = f1
    f2 = f2
    s1 = s1
    s2 = s2
    s3 = s3
    NULL = NULL
    Bookings = {b1, b2}
    Flights = {f1, f2}
    Seats = {s1, s2, s3}
    Itinerary <- TwoItinerary
    Party <- Singles
    OfferEnds <- OfferOne
    Refundable = {b1, b2}
    SeatFlight <- TwoSeatFlight
    Eligible <- AllEligible
    Bookable = {f1, f2}
    Departure <- TwoDepartures
    HoldDuration = 3
    BatchLimit = 2
    LockWait = 1
    MaxTime = 4
SPECIFICATION Spec
INVARIANTS
    PaidHoldConfirms
\* The clock is bounded, so the system may stop.
CHECK_DEADLOCK FALSE
