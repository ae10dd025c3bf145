------------------------------ MODULE MCSeatTx ------------------------------
(***************************************************************************)
(* Small instances of SeatTx: bookings compete for the two seats of one    *)
(* flight over two connections.                                            *)
(***************************************************************************)
EXTENDS SeatTx, TLC

CONSTANTS b1, b2, b3, f1, s1, s2, c1, c2

OneItinerary == [b \in Bookings |-> {f1}]
OneSeatFlight == [s \in Seats |-> f1]
NoOffer == [b \in Bookings |-> 0]
OneDeparture == [f \in Flights |-> 2]
SeatOrder == [s \in Seats |-> IF s = s1 THEN 1 ELSE 2]
ConnSymmetry == Permutations(Conns)

\* Two couples that both want both seats.
Couples == [b \in Bookings |-> 2]
AllEligible == [b \in Bookings |-> Seats]

\* Two travellers whose cabins have one seat each, and a couple that may take both.
CoupleLast == [b \in Bookings |-> IF b = b3 THEN 2 ELSE 1]
OneSeatEach == [b \in Bookings |-> CASE b = b1 -> {s2} [] b = b2 -> {s1} [] b = b3 -> Seats]

=============================================================================
