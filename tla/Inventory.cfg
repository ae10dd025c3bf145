\* A couple and a single traveller, one flight with two seats.
CONSTANTS
    b1 = b1
    b2 = b2
    f1 = f1
    f2 = f2
    s1 = s1
    s2 = s2
    s3 = s3
    NULL = NULL
    Bookings = {b1, b2}
    Flights = {f1}
    Seats = {s1, s2}
    Itinerary <- OneItinerary
    Party <- CoupleAndSingle
    OfferEnds <- OfferOne
    Refundable = {b1, b2}
    SeatFlight <- OneSeatFlight
    Eligible <- AllEligible
    Bookable = {f1}
    Departure <- OneDeparture
    HoldDuration = 2
    BatchLimit = 2
    LockWait = 1
    MaxTime = 4
SPECIFICATION FairSpec
INVARIANTS
    TypeOK
    InventoryAgrees
    NoStrandedSeat
    ConfirmedIsSeated
    SeatMapTruthful
    PaymentMatchesBooking
PROPERTIES
    HoldNeverExtended
    SeatNotTakenFromOwner
    TransitionsAllowed
    SeatsOwned
    HoldsEnd
\* The clock is bounded, so the system may stop.
CHECK_DEADLOCK FALSE
