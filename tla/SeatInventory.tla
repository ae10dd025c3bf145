--------------------------- MODULE SeatInventory ---------------------------
(***************************************************************************)
(* Seat inventory and the booking lifecycle: the tables bookings,          *)
(* booking_segments, booking_passengers, flight_seats, seat_assignments,   *)
(* payments and refunds, and one atomic action for each transaction that   *)
(* writes them (internal/booking, internal/payment).  A transaction that   *)
(* returns an error rolls back and is a stuttering step.                   *)
(*                                                                         *)
(* seat_assignments keeps its history in the database.  Every statement of *)
(* the program that reads the table filters on an active status, so        *)
(* `assignments' holds the active rows only and a row that becomes         *)
(* CANCELLED or EXPIRED leaves it.                                         *)
(***************************************************************************)
EXTENDS Integers, FiniteSets

CONSTANTS
    Bookings,       \* one booking per price quote (bookings.price_quote_id is UNIQUE)
    Flights,        \* flight_instances
    Seats,          \* flight_seats
    NULL,           \* SQL's NULL
    Itinerary,      \* Itinerary[b]: the flights of b's quote, one segment each
    Party,          \* Party[b]: the passenger_count of b's quote
    OfferEnds,      \* OfferEnds[b]: when b's quote, or one of its fares, lapses
    Refundable,     \* the bookings all of whose segments are refundable
    SeatFlight,     \* SeatFlight[s]: the flight of seat s
    Eligible,       \* Eligible[b]: the seats whose cabin is that of b's fare
    Bookable,       \* the flights with status SCHEDULED or DELAYED
    Departure,      \* Departure[f]: scheduled_departure_at
    HoldDuration,   \* booking.Store.seatHoldDuration
    BatchLimit,     \* the limit the worker passes to ExpireHolds
    LockWait,       \* how long a transaction may wait for the seats it locks
    MaxTime         \* bound on the clock

ASSUME ConstantsAssumption ==
    /\ NULL \notin Int /\ NULL \notin Bookings
    /\ Itinerary \in [Bookings -> SUBSET Flights]
    /\ Party \in [Bookings -> 1..9]
    /\ OfferEnds \in [Bookings -> Nat]
    /\ Refundable \subseteq Bookings
    /\ SeatFlight \in [Seats -> Flights]
    /\ Eligible \in [Bookings -> SUBSET Seats]
    /\ Bookable \subseteq Flights
    /\ Departure \in [Flights -> Nat]
    /\ HoldDuration \in Nat \ {0}
    /\ BatchLimit \in Nat \ {0}
    /\ LockWait \in Nat
    /\ MaxTime \in Nat

ASSUME ItineraryAssumption == \A b \in Bookings : Itinerary[b] # {}

ASSUME SeatsAssumption == IsFiniteSet(Seats)

VARIABLES
    now,            \* clock_timestamp()
    bookings,       \* bookings[b]: status and hold_expires_at
    segments,       \* segments[b][f]: status of b's segment on flight f
    passengers,     \* passengers[b]: how many passengers b has, numbered from 1
    seats,          \* seats[s]: state, booking_id and hold_expires_at
    assignments,    \* the active rows of seat_assignments
    payments,       \* payments[b]: status of b's payment row
    refunds,        \* refunds[b]: status of the refund row of b's payment
    outbox          \* the outbox events that make the worker call the provider

vars == <<now, bookings, segments, passengers, seats, assignments, payments,
          refunds, outbox>>

Time == Nat \cup {NULL}

BookingStatus == {"NONE", "DRAFT", "HELD", "PAYMENT_PENDING", "CONFIRMED",
                  "TICKETED", "CANCELLED", "EXPIRED", "REFUNDED"}
SegmentStatus == {"NONE", "DRAFT", "HELD", "CONFIRMED", "CANCELLED"}
SeatState     == {"AVAILABLE", "HELD", "BOOKED", "BLOCKED"}
PaymentStatus == {"NONE", "PENDING", "RECONCILIATION_REQUIRED", "FAILED",
                  "SUCCEEDED", "REFUND_PENDING", "REFUNDED"}
RefundStatus  == {"NONE", "PENDING", "UNKNOWN", "SUCCEEDED"}
Commands      == {"PAYMENT_REQUESTED", "REFUND_REQUESTED"}

Assignment == [booking : Bookings, flight : Flights, passenger : Nat,
               seat : Seats, status : {"HELD", "CONFIRMED"}, expires : Time]

\* No booking has more passengers than its quote is for.
PartyBound == \A b \in Bookings : passengers[b] <= Party[b]

\* The rows are what the schema allows, and SavePassenger has kept to the quote and to nine.
TypeOK ==
    /\ now \in Nat
    /\ bookings \in [Bookings -> [status : BookingStatus, expires : Time]]
    /\ segments \in [Bookings -> [Flights -> SegmentStatus]]
    /\ passengers \in [Bookings -> 0..9]
    /\ PartyBound
    /\ seats \in [Seats -> [state : SeatState, booking : Bookings \cup {NULL},
                            expires : Time]]
    /\ assignments \subseteq Assignment
    /\ payments \in [Bookings -> PaymentStatus]
    /\ refunds \in [Bookings -> RefundStatus]
    /\ outbox \subseteq (Commands \X Bookings)

(***************************************************************************)
(* What the statements read.                                               *)
(***************************************************************************)

\* COALESCE(hold_expires_at > clock_timestamp(), false)
Live(t) == t # NULL /\ t > now

ActiveOn(s) == {a \in assignments : a.seat = s}

HeldBy(b) == {a \in assignments : a.booking = b /\ a.status = "HELD"}

HeldSeats(b) == {s \in Seats : seats[s].booking = b /\ seats[s].state = "HELD"}

FreeSeat == [state |-> "AVAILABLE", booking |-> NULL, expires |-> NULL]
BlockedSeat == [state |-> "BLOCKED", booking |-> NULL, expires |-> NULL]

\* What every writer of a HELD seat expects of its assignment (hold_seats.go
\* rejects anything else with ErrInventoryConflict).
Matches(a, s) ==
    /\ a.status = "HELD"
    /\ a.booking = seats[s].booking
    /\ a.expires = seats[s].expires

Init ==
    /\ now = 0
    /\ bookings = [b \in Bookings |-> [status |-> "NONE", expires |-> NULL]]
    /\ segments = [b \in Bookings |-> [f \in Flights |-> "NONE"]]
    /\ passengers = [b \in Bookings |-> 0]
    /\ seats \in [Seats -> {FreeSeat, BlockedSeat}]
    /\ assignments = {}
    /\ payments = [b \in Bookings |-> "NONE"]
    /\ refunds = [b \in Bookings |-> "NONE"]
    /\ outbox = {}

-----------------------------------------------------------------------------
(***************************************************************************)
(* booking.Create and booking.SavePassenger.                               *)
(***************************************************************************)

\* Consuming the quote and inserting the booking are one transaction, so the
\* quote is ACTIVE exactly while the booking does not exist.
Create(b) ==
    /\ bookings[b].status = "NONE"
    /\ OfferEnds[b] > now
    /\ \A f \in Itinerary[b] : f \in Bookable /\ Departure[f] > now
    /\ bookings' = [bookings EXCEPT ![b].status = "DRAFT"]
    /\ segments' = [segments EXCEPT ![b] =
                      [f \in Flights |-> IF f \in Itinerary[b] THEN "DRAFT" ELSE "NONE"]]
    /\ UNCHANGED <<now, passengers, seats, assignments, payments, refunds, outbox>>

\* Mutant: only the limit of nine is checked, not the quote's number of passengers.
HasRoomOfNine(b) == passengers[b] < 9
HasRoom(b) == passengers[b] < Party[b] /\ passengers[b] < 9

\* Adding a passenger; editing one changes nothing modelled here.
SavePassenger(b) ==
    /\ bookings[b].status = "DRAFT"
    /\ HasRoom(b)
    /\ passengers' = [passengers EXCEPT ![b] = @ + 1]
    /\ UNCHANGED <<now, bookings, segments, seats, assignments, payments, refunds, outbox>>

-----------------------------------------------------------------------------
(***************************************************************************)
(* booking.HoldSeats.  A request names a segment (the booking's, on flight *)
(* f) and a selection, a one-to-one function from seats to passengers.     *)
(***************************************************************************)

\* lockPassengers: the passengers the booking has.
PassengersOf(b) == 1..passengers[b]

\* lockFlightSeats and the cabin check: the seats the booking may ask for on flight f.
SeatsFor(b, f) == {s \in Eligible[b] : SeatFlight[s] = f}

\* normalizeHoldParams: one to nine seats, no seat and no passenger twice.
Selections(b, f) ==
    {sel \in UNION {[S -> PassengersOf(b)] : S \in SUBSET SeatsFor(b, f)} :
        /\ Cardinality(DOMAIN sel) \in 1..9
        /\ \A s, t \in DOMAIN sel : sel[s] = sel[t] => s = t}

\* What HoldSeats demands of the booking, the segment and the flight, with the clock read
\* again once all locks are held.
Holdable(b, f) ==
    /\ segments[b][f] \in {"DRAFT", "HELD"}
    /\ f \in Bookable /\ Departure[f] > now
    /\ \/ bookings[b].status = "DRAFT"
       \/ bookings[b].status = "HELD" /\ Live(bookings[b].expires)

\* A first hold lasts HoldDuration; a further one keeps the booking's expiry;
\* neither outlasts the flight's departure.
\* Mutants: the retry extends the hold; the cap at departure is forgotten.
NewExpiryExtended(b, f) ==
    IF now + HoldDuration > Departure[f] THEN Departure[f] ELSE now + HoldDuration
NewExpiryUncapped(b, f) ==
    IF bookings[b].status = "HELD" THEN bookings[b].expires ELSE now + HoldDuration
NewExpiry(b, f) ==
    LET e == IF bookings[b].status = "HELD" THEN bookings[b].expires
                                            ELSE now + HoldDuration
    IN  IF e > Departure[f] THEN Departure[f] ELSE e

Free(s) == seats[s].state = "AVAILABLE" /\ ActiveOn(s) = {}

\* Mutant: the expiry comparison of applySeatAssignments dropped.
ReclaimableLive(s) ==
    /\ seats[s].state = "HELD" /\ seats[s].expires # NULL
    /\ \E a \in ActiveOn(s) : ActiveOn(s) = {a} /\ Matches(a, s)
Reclaimable(s) ==
    /\ seats[s].state = "HELD" /\ seats[s].expires # NULL
    /\ ~Live(seats[s].expires)
    /\ \E a \in ActiveOn(s) : ActiveOn(s) = {a} /\ Matches(a, s)

\* The request repeats a live hold of the same passenger on the same seat.
AlreadyHeld(b, f, p, s, e) ==
    /\ seats[s].state = "HELD" /\ Live(seats[s].expires)
    /\ seats[s].booking = b /\ seats[s].expires = e
    /\ \E a \in ActiveOn(s) : /\ ActiveOn(s) = {a} /\ Matches(a, s)
                              /\ a.flight = f /\ a.passenger = p

\* The rows that remain once the assignments of the reclaimed seats are EXPIRED.
\* Mutant: reclaiming a seat leaves the old assignment HELD.
KeptKeepsOld(fresh) == assignments
Kept(fresh) == {a \in assignments : a.seat \notin fresh}

NewRow(b, f, p, s, e) == [booking |-> b, flight |-> f, passenger |-> p, seat |-> s,
                          status |-> "HELD", expires |-> e]

MarkedHeld(S, b, e) ==
    [s \in Seats |-> IF s \in S THEN [state |-> "HELD", booking |-> b, expires |-> e]
                                ELSE seats[s]]

Fresh(b, f, sel, e) == {s \in DOMAIN sel : ~AlreadyHeld(b, f, sel[s], s, e)}

\* What the transaction writes once its checks have passed, here and below.
HoldWrites(b, f, sel, e, fresh) ==
    /\ assignments' = Kept(fresh) \cup {NewRow(b, f, sel[s], s, e) : s \in fresh}
    /\ seats' = MarkedHeld(DOMAIN sel, b, e)
    /\ segments' = [segments EXCEPT ![b][f] = "HELD"]
    /\ bookings' = [bookings EXCEPT ![b] = [status |-> "HELD", expires |-> e]]
    /\ UNCHANGED <<now, passengers, payments, refunds, outbox>>

\* seat_assignments_active_passenger_unique
PassengersUnseated(b, f, sel, fresh) ==
    \A s \in fresh : \A a \in Kept(fresh) :
        ~(a.booking = b /\ a.flight = f /\ a.passenger = sel[s])

HoldSeats(b, f, sel) ==
    LET e     == NewExpiry(b, f)
        fresh == Fresh(b, f, sel, e)
    IN  /\ Holdable(b, f)
        /\ \A s \in fresh : Free(s) \/ Reclaimable(s)
        /\ PassengersUnseated(b, f, sel, fresh)
        /\ HoldWrites(b, f, sel, e, fresh)

-----------------------------------------------------------------------------
(***************************************************************************)
(* booking.Release (with and without cancellation) and booking.ExpireHolds.*)
(***************************************************************************)

\* releaseInventory for the bookings of B: only what they still hold.
ReleasedSeats(B) ==
    [s \in Seats |-> IF seats[s].booking \in B /\ seats[s].state = "HELD"
                     THEN FreeSeat ELSE seats[s]]

\* Mutant: the seats are freed and their assignments forgotten.
ReleasedAssignmentsNone(B) == assignments
ReleasedAssignments(B) ==
    {a \in assignments : ~(a.booking \in B /\ a.status = "HELD")}

\* Mutant: a release while the payment is being made.
ReleasableAny(b) == bookings[b].status \in {"DRAFT", "HELD", "PAYMENT_PENDING"}
Releasable(b) == bookings[b].status \in {"DRAFT", "HELD"}

ReleaseWrites(b, next) ==
    /\ seats' = ReleasedSeats({b})
    /\ assignments' = ReleasedAssignments({b})
    /\ segments' = [segments EXCEPT ![b] =
                      [f \in Flights |-> IF @[f] = "NONE" THEN "NONE" ELSE next]]
    /\ bookings' = [bookings EXCEPT ![b] = [status |-> next, expires |-> NULL]]
    /\ UNCHANGED <<now, passengers, payments, refunds, outbox>>

Release(b, next) == Releasable(b) /\ ReleaseWrites(b, next)

\* Mutant: the worker looks at HELD bookings only.
LapsedHeld == {b \in Bookings : /\ bookings[b].status = "HELD"
                                /\ bookings[b].expires # NULL
                                /\ bookings[b].expires <= now}
Lapsed == {b \in Bookings : /\ bookings[b].status \in {"HELD", "PAYMENT_PENDING"}
                            /\ bookings[b].expires # NULL
                            /\ bookings[b].expires <= now}

ExpireWrites(batch) ==
    /\ seats' = ReleasedSeats(batch)
    /\ assignments' = ReleasedAssignments(batch)
    /\ segments' = [b \in Bookings |-> [f \in Flights |->
           IF b \in batch /\ segments[b][f] \in {"DRAFT", "HELD"}
           THEN "CANCELLED" ELSE segments[b][f]]]
    /\ bookings' = [b \in Bookings |->
           IF b \in batch THEN [bookings[b] EXCEPT !.status = "EXPIRED"]
                          ELSE bookings[b]]
    /\ UNCHANGED <<now, passengers, payments, refunds, outbox>>

\* SKIP LOCKED leaves out bookings that other transactions hold: any part of
\* the lapsed bookings may be the batch.
ExpireHolds(batch) ==
    /\ batch # {} /\ batch \subseteq Lapsed
    /\ Cardinality(batch) <= BatchLimit
    /\ ExpireWrites(batch)

-----------------------------------------------------------------------------
(***************************************************************************)
(* payment.Start, payment.Apply and the writes of payment.Dispatch.        *)
(***************************************************************************)

\* Mutant: the seats are not counted.
CompleteUnseated(b) ==
    passengers[b] > 0 /\ \A f \in Itinerary[b] : Party[b] = passengers[b]
Complete(b) ==
    /\ passengers[b] > 0
    /\ \A f \in Itinerary[b] :
          /\ segments[b][f] = "HELD"
          /\ Party[b] = passengers[b]
          /\ Party[b] = Cardinality({a \in HeldBy(b) : a.flight = f /\ Live(a.expires)})

StartWrites(b) ==
    /\ payments[b] = "NONE"     \* payments.booking_id is UNIQUE
    /\ payments' = [payments EXCEPT ![b] = "PENDING"]
    /\ bookings' = [bookings EXCEPT ![b].status = "PAYMENT_PENDING"]
    /\ outbox' = outbox \cup {<<"PAYMENT_REQUESTED", b>>}
    /\ UNCHANGED <<now, segments, passengers, seats, assignments, refunds>>

\* Start on a PAYMENT_PENDING booking returns the payment it has.
Start(b) ==
    /\ bookings[b].status = "HELD" /\ Live(bookings[b].expires)
    /\ Complete(b)
    /\ StartWrites(b)

\* A payment whose outcome is final ignores further results.
Unsettled(b) ==
    payments[b] \notin {"NONE", "SUCCEEDED", "REFUND_PENDING", "REFUNDED"}

ApplyFailed(b) ==
    /\ Unsettled(b)
    /\ payments' = [payments EXCEPT ![b] = "FAILED"]
    /\ UNCHANGED <<now, bookings, segments, passengers, seats, assignments, refunds, outbox>>

\* Mutant: a late success is judged by the status alone.
ConfirmableLate(b) == bookings[b].status = "PAYMENT_PENDING"
Confirmable(b) == bookings[b].status = "PAYMENT_PENDING" /\ Live(bookings[b].expires)

\* Success with no live hold left: the money goes back.
LateWrites(b) ==
    /\ payments' = [payments EXCEPT ![b] = "REFUND_PENDING"]
    /\ refunds' = [refunds EXCEPT ![b] = IF @ = "NONE" THEN "PENDING" ELSE @]
    /\ outbox' = outbox \cup {<<"REFUND_REQUESTED", b>>}
    /\ UNCHANGED <<now, bookings, segments, passengers, seats, assignments>>

ApplyLate(b) == Unsettled(b) /\ ~Confirmable(b) /\ LateWrites(b)

\* What Apply asserts of the hold before it confirms; ErrInventoryConflict otherwise.
HoldConsistent(b) ==
    /\ HeldSeats(b) # {}
    /\ Cardinality(HeldSeats(b)) = Cardinality(HeldBy(b))
    /\ \A a \in HeldBy(b) : /\ seats[a.seat].state = "HELD" /\ Matches(a, a.seat)
                            /\ a.expires = bookings[b].expires

ConfirmedRow(a) == [a EXCEPT !.status = "CONFIRMED", !.expires = NULL]

ConfirmedAssignments(b) ==
    (assignments \ HeldBy(b)) \cup {ConfirmedRow(a) : a \in HeldBy(b)}

ConfirmWrites(b) ==
    /\ assignments' = ConfirmedAssignments(b)
    /\ seats' = [s \in Seats |->
           IF s \in HeldSeats(b) THEN [state |-> "BOOKED", booking |-> b, expires |-> NULL]
                                 ELSE seats[s]]
    /\ segments' = [segments EXCEPT ![b] =
                      [f \in Flights |-> IF @[f] = "HELD" THEN "CONFIRMED" ELSE @[f]]]
    /\ bookings' = [bookings EXCEPT ![b] = [status |-> "CONFIRMED", expires |-> NULL]]
    /\ payments' = [payments EXCEPT ![b] = "SUCCEEDED"]
    /\ UNCHANGED <<now, passengers, refunds, outbox>>

ApplyConfirm(b) ==
    Unsettled(b) /\ Confirmable(b) /\ HoldConsistent(b) /\ ConfirmWrites(b)

\* Dispatch could not learn the outcome of the charge.
DispatchUncertain(b) ==
    /\ payments[b] \in {"PENDING", "RECONCILIATION_REQUIRED"}
    /\ payments' = [payments EXCEPT ![b] = "RECONCILIATION_REQUIRED"]
    /\ UNCHANGED <<now, bookings, segments, passengers, seats, assignments, refunds, outbox>>

-----------------------------------------------------------------------------
(***************************************************************************)
(* payment.RequestRefund and the writes of payment.DispatchRefund.         *)
(***************************************************************************)

RefundedSeats(b) ==
    [s \in Seats |-> IF seats[s].booking = b /\ seats[s].state = "BOOKED"
                     THEN FreeSeat ELSE seats[s]]

RefundWrites(b) ==
    /\ refunds[b] = "NONE"      \* refunds.payment_id is UNIQUE
    /\ assignments' = {a \in assignments : ~(a.booking = b /\ a.status = "CONFIRMED")}
    /\ seats' = RefundedSeats(b)
    /\ segments' = [segments EXCEPT ![b] =
                      [f \in Flights |-> IF @[f] = "NONE" THEN "NONE" ELSE "CANCELLED"]]
    /\ bookings' = [bookings EXCEPT ![b].status = "CANCELLED"]
    /\ payments' = [payments EXCEPT ![b] = "REFUND_PENDING"]
    /\ refunds' = [refunds EXCEPT ![b] = "PENDING"]
    /\ outbox' = outbox \cup {<<"REFUND_REQUESTED", b>>}
    /\ UNCHANGED <<now, passengers>>

\* The departures are compared with the clock before the seats are locked, and not again.
RequestRefund(b) ==
    /\ bookings[b].status \in {"CONFIRMED", "TICKETED"}
    /\ b \in Refundable
    /\ \A f \in Itinerary[b] : Departure[f] + LockWait > now
    /\ payments[b] = "SUCCEEDED"
    /\ RefundWrites(b)

RefundUncertain(b) ==
    /\ refunds[b] \notin {"NONE", "SUCCEEDED"}
    /\ refunds' = [refunds EXCEPT ![b] = "UNKNOWN"]
    /\ UNCHANGED <<now, bookings, segments, passengers, seats, assignments, payments, outbox>>

\* Mutant: the refund row is not settled with the payment.
SettledRefundNone(b) == refunds
SettledRefund(b) == [refunds EXCEPT ![b] = "SUCCEEDED"]

RefundDone(b) ==
    /\ refunds[b] # "NONE"
    /\ payments[b] = "REFUND_PENDING"
    /\ payments' = [payments EXCEPT ![b] = "REFUNDED"]
    /\ refunds' = SettledRefund(b)
    /\ bookings' = [bookings EXCEPT ![b].status =
                      IF @ = "CANCELLED" THEN "REFUNDED" ELSE @]
    /\ UNCHANGED <<now, segments, passengers, seats, assignments, outbox>>

Tick ==
    /\ now < MaxTime
    /\ now' = now + 1
    /\ UNCHANGED <<bookings, segments, passengers, seats, assignments, payments,
                   refunds, outbox>>

-----------------------------------------------------------------------------
Next ==
    \/ \E b \in Bookings :
          \/ Create(b)
          \/ SavePassenger(b)
          \/ \E f \in Itinerary[b] : \E sel \in Selections(b, f) : HoldSeats(b, f, sel)
          \/ Release(b, "DRAFT")
          \/ Release(b, "CANCELLED")
          \/ Start(b)
          \/ ApplyFailed(b)
          \/ ApplyLate(b)
          \/ ApplyConfirm(b)
          \/ DispatchUncertain(b)
          \/ RequestRefund(b)
          \/ RefundUncertain(b)
          \/ RefundDone(b)
    \/ \E batch \in SUBSET Bookings : ExpireHolds(batch)
    \/ Tick

\* The worker calls ExpireHolds on every tick of its one-second ticker.
Fairness ==
    /\ WF_vars(Tick)
    /\ WF_vars(\E batch \in SUBSET Bookings : ExpireHolds(batch))

Spec == Init /\ [][Next]_vars

FairSpec == Spec /\ Fairness

-----------------------------------------------------------------------------
(***************************************************************************)
(* Properties.                                                             *)
(***************************************************************************)

SeatAgrees(s) ==
    \/ seats[s] \in {FreeSeat, BlockedSeat} /\ ActiveOn(s) = {}
    \/ /\ seats[s].state = "HELD" /\ seats[s].expires # NULL
       /\ \E a \in ActiveOn(s) : ActiveOn(s) = {a} /\ Matches(a, s)
    \/ /\ seats[s].state = "BOOKED" /\ seats[s].expires = NULL
       /\ \E a \in ActiveOn(s) : /\ ActiveOn(s) = {a} /\ a.status = "CONFIRMED"
                                 /\ a.booking = seats[s].booking

\* flight_seats and seat_assignments, which every transaction writes in separate
\* statements, tell the same story of every seat: a seat has at most one active
\* assignment, and a HELD or BOOKED seat has exactly one, of the same booking and with
\* the same expiry.  So the ErrInventoryConflict checks of applySeatAssignments on a
\* single seat never fire, and neither does the unique index on active seats, which the
\* model leaves out on purpose.
InventoryAgrees == \A s \in Seats : SeatAgrees(s)

\* No seat is stranded: a HELD assignment belongs to a booking that is HELD or
\* PAYMENT_PENDING and lasts at least as long as the booking's hold, and a CONFIRMED one
\* to a confirmed booking.  Release, ExpireHolds, reclaiming and refunds must together
\* leave nothing behind, in whatever order they meet.
NoStrandedSeat ==
    \A a \in assignments :
        IF a.status = "HELD"
        THEN /\ bookings[a.booking].status \in {"HELD", "PAYMENT_PENDING"}
             /\ bookings[a.booking].expires <= a.expires
        ELSE bookings[a.booking].status \in {"CONFIRMED", "TICKETED"}

\* The assertion Apply makes before it confirms always holds: a successful charge for a
\* live hold finds HeldSeats and HeldBy in one-to-one agreement, every one of them with
\* the booking's own hold_expires_at, so it confirms and is never answered with
\* ErrInventoryConflict, "seat inventory is inconsistent".
PaidHoldConfirms ==
    \A b \in Bookings : Unsettled(b) /\ Confirmable(b) => HoldConsistent(b)

\* A confirmed booking has paid for, and owns, one seat for each passenger on each of its
\* flights.  Start counts seats and Apply confirms whatever is still held, possibly much
\* later: nothing in between may take a seat from a live hold.
ConfirmedIsSeated ==
    \A b \in Bookings : bookings[b].status \in {"CONFIRMED", "TICKETED"} =>
        \A f \in Itinerary[b] :
            LET mine == {a \in assignments : a.booking = b /\ a.flight = f}
            IN  /\ {a.passenger : a \in mine} = 1..Party[b]
                /\ Cardinality(mine) = Party[b]
                /\ \A a \in mine : /\ SeatFlight[a.seat] = f
                                   /\ seats[a.seat].state = "BOOKED"
                                   /\ seats[a.seat].booking = b

\* A hold, the seat's and the booking's, ends by the departure of each flight it has seats
\* on (ADR 003), so that the worker gives no seat of a departed flight away as held.
HoldWithinDeparture ==
    \A a \in assignments : a.status = "HELD" =>
        /\ a.expires <= Departure[a.flight]
        /\ bookings[a.booking].expires <= Departure[a.flight]

\* flight.Store.Seats: what the seat map shows as AVAILABLE.
\* Mutant: seats with a lapsed hold are shown as taken.
SeatMapAvailableStrict(s) ==
    /\ SeatFlight[s] \in Bookable /\ Departure[SeatFlight[s]] > now
    /\ seats[s].state = "AVAILABLE" /\ ActiveOn(s) = {}
SeatMapAvailable(s) ==
    /\ SeatFlight[s] \in Bookable /\ Departure[SeatFlight[s]] > now
    /\ \/ seats[s].state = "AVAILABLE" /\ ActiveOn(s) = {}
       \/ /\ seats[s].state = "HELD" /\ ~Live(seats[s].expires)
          /\ \E a \in ActiveOn(s) : Matches(a, s)

\* On a flight that is open, the seat map shows a seat as AVAILABLE exactly when it is not
\* blocked and nobody has a booked or live claim on it.
SeatMapTruthful ==
    \A s \in Seats : SeatFlight[s] \in Bookable /\ Departure[SeatFlight[s]] > now =>
        ( SeatMapAvailable(s) <=>
            /\ seats[s].state # "BLOCKED"
            /\ \A a \in ActiveOn(s) : a.status = "HELD" /\ ~Live(a.expires) )

\* Money and seats agree: a payment is SUCCEEDED exactly while its booking is confirmed;
\* it is being or has been refunded exactly when it has a refund row, settled together
\* with it, and the worker has been told; a REFUNDED booking has its money back.
PaymentMatchesBooking ==
    \A b \in Bookings :
        /\ payments[b] = "SUCCEEDED" <=> bookings[b].status \in {"CONFIRMED", "TICKETED"}
        /\ payments[b] \in {"REFUND_PENDING", "REFUNDED"} <=> refunds[b] # "NONE"
        /\ payments[b] = "REFUNDED" <=> refunds[b] = "SUCCEEDED"
        /\ refunds[b] # "NONE" => <<"REFUND_REQUESTED", b>> \in outbox
        /\ bookings[b].status = "REFUNDED" => payments[b] = "REFUNDED"

\* Repeating or enlarging a hold, and starting to pay, never extend it (ADR 002).
HoldNeverExtended ==
    [][\A b \in Bookings :
          /\ bookings[b].status \in {"HELD", "PAYMENT_PENDING"}
          /\ bookings'[b].status \in {"HELD", "PAYMENT_PENDING"}
          => bookings'[b].expires <= bookings[b].expires]_vars

\* A seat leaves its owner only by what happens to the owner: a live held seat when its
\* booking is released, cancelled or expired, a booked one when its booking is refunded.
\* In particular no other booking's hold takes it.
SeatNotTakenFromOwner ==
    [][\A s \in Seats :
          LET b == seats[s].booking
          IN  seats'[s].booking # b =>
                /\ seats[s].state = "HELD" /\ Live(seats[s].expires) =>
                      bookings'[b].status \in {"DRAFT", "CANCELLED", "EXPIRED"}
                /\ seats[s].state = "BOOKED" =>
                      bookings'[b].status = "CANCELLED" /\ payments'[b] = "REFUND_PENDING"]_vars

\* booking.CanTransition, and the trigger enforce_booking_transition.
CanTransition ==
    {<<"DRAFT", "HELD">>, <<"DRAFT", "CANCELLED">>, <<"DRAFT", "EXPIRED">>,
     <<"HELD", "DRAFT">>, <<"HELD", "PAYMENT_PENDING">>, <<"HELD", "CANCELLED">>,
     <<"HELD", "EXPIRED">>, <<"PAYMENT_PENDING", "CONFIRMED">>,
     <<"PAYMENT_PENDING", "EXPIRED">>, <<"PAYMENT_PENDING", "CANCELLED">>,
     <<"CONFIRMED", "TICKETED">>, <<"CONFIRMED", "CANCELLED">>,
     <<"TICKETED", "CANCELLED">>, <<"CANCELLED", "REFUNDED">>}

\* The database's transition trigger never rejects a transaction of the program: every
\* update of a booking's status is one the table of CanTransition allows.
TransitionsAllowed ==
    [][\A b \in Bookings :
          LET from == bookings[b].status
              to   == bookings'[b].status
          IN  from # to /\ from # "NONE" => <<from, to>> \in CanTransition]_vars

\* A booking is confirmed only before each of its flights departs, although Apply never
\* looks at a departure time: the holds that Start demands on every segment cap the
\* booking's expiry at the earliest departure.
ConfirmedBeforeDeparture ==
    [][\A b \in Bookings :
          bookings[b].status = "PAYMENT_PENDING" /\ bookings'[b].status = "CONFIRMED"
              => \A f \in Itinerary[b] : now < Departure[f]]_vars

Ownership == INSTANCE SeatOwnership WITH claim <- seats

\* The transactions implement SeatOwnership: the seats of a request are taken all or none,
\* only when they are free, lapsed or already held by this booking until the same time;
\* those of a booking are released, expired, confirmed and refunded together; and there
\* is no other way for a flight_seats row to change.
SeatsOwned == Ownership!Spec

\* No hold lasts for ever: with the clock and the worker running, a booking that is HELD
\* or PAYMENT_PENDING leaves these states, whatever its owner and the provider do.
HoldsEnd ==
    \A b \in Bookings :
        bookings[b].status \in {"HELD", "PAYMENT_PENDING"}
            ~> bookings[b].status \notin {"HELD", "PAYMENT_PENDING"}

=============================================================================
