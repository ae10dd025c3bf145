-------------------------- MODULE MCSeatInventory --------------------------
(***************************************************************************)
(* Small instances of SeatInventory.                                       *)
(***************************************************************************)
EXTENDS SeatInventory

CONSTANTS b1, b2, f1, f2, s1, s2, s3

\* One flight: a couple and a single traveller compete for two seats.
OneItinerary == [b \in Bookings |-> {f1}]
CoupleAndSingle == [b \in Bookings |-> IF b = b1 THEN 2 ELSE 1]
OneSeatFlight == [s \in Seats |-> f1]
AllEligible == [b \in Bookings |-> Seats]
OfferOne == [b \in Bookings |-> 2]
OneDeparture == [f \in Flights |-> 3]

\* Two flights with one seat each for b1, one flight for b2.
TwoItinerary == [b \in Bookings |-> IF b = b1 THEN {f1, f2} ELSE {f1}]
Singles == [b \in Bookings |-> 1]
TwoSeatFlight == [s \in Seats |-> IF s = s2 THEN f2 ELSE f1]
SameDeparture == [f \in Flights |-> 3]
\* f2 leaves while a hold taken on f1 would still last.
TwoDepartures == [f \in Flights |-> IF f = f1 THEN 4 ELSE 2]

=============================================================================
