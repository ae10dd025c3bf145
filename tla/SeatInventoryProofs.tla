------------------------ MODULE SeatInventoryProofs ------------------------
(***************************************************************************)
(* Proofs about SeatInventory for every set of bookings, flights and seats *)
(* and every itinerary, party, fare and departure.                         *)
(***************************************************************************)
EXTENDS SeatInventory, TLAPS

USE DEF Time, BookingStatus, SegmentStatus, SeatState, PaymentStatus,
        RefundStatus, Commands, FreeSeat, BlockedSeat, Fresh, HoldWrites,
        PassengersUnseated, ReleaseWrites, ExpireWrites, StartWrites, LateWrites,
        ConfirmWrites, RefundWrites

\* The type invariant is inductive by itself.
LEMMA TypeInit == Init => TypeOK
<1> SUFFICES ASSUME Init PROVE TypeOK
  OBVIOUS
<1>1. PartyBound
  <2>1. \A b \in Bookings : passengers[b] = 0 /\ Party[b] \in 1..9
    BY ConstantsAssumption DEF Init
  <2> QED
    BY <2>1 DEF PartyBound
<1> QED
  BY <1>1 DEF Init, TypeOK

\* NewExpiry is a time, whatever hold the booking has.
LEMMA NewExpiryType ==
  ASSUME TypeOK, NEW b \in Bookings, NEW f \in Flights, Holdable(b, f)
  PROVE  /\ NewExpiry(b, f) \in Nat
         /\ NewExpiry(b, f) <= Departure[f]
         /\ bookings[b].status = "HELD" =>
               bookings[b].expires \in Nat /\ NewExpiry(b, f) <= bookings[b].expires
  BY ConstantsAssumption DEF TypeOK, NewExpiry, Holdable, Live

\* An update of one booking's status keeps the table well typed.
LEMMA BookingMoves ==
  ASSUME bookings \in [Bookings -> [status : BookingStatus, expires : Time]],
         NEW b \in Bookings, NEW st \in BookingStatus,
         bookings' = [bookings EXCEPT ![b].status = st]
  PROVE  bookings' \in [Bookings -> [status : BookingStatus, expires : Time]]
<1>1. [bookings[b] EXCEPT !.status = st] \in [status : BookingStatus, expires : Time]
  OBVIOUS
<1>2. bookings' = [bookings EXCEPT ![b] = [bookings[b] EXCEPT !.status = st]]
  OBVIOUS
<1> QED
  BY <1>1, <1>2

LEMMA TypeStep == TypeOK /\ [Next]_vars => TypeOK'
<1> SUFFICES ASSUME TypeOK, [Next]_vars PROVE TypeOK'
  OBVIOUS
<1>1. ASSUME NEW b \in Bookings, Create(b) PROVE TypeOK'
  BY <1>1 DEF Create, TypeOK, PartyBound
<1>2. ASSUME NEW b \in Bookings, SavePassenger(b) PROVE TypeOK'
  <2>0. passengers[b] \in 0..9 /\ passengers[b] < 9 /\ passengers[b] < Party[b]
        /\ Party[b] \in 1..9
    BY <1>2, ConstantsAssumption DEF SavePassenger, HasRoom, TypeOK
  <2>1. passengers[b] + 1 \in 0..9
    BY <2>0
  <2>2. passengers' = [passengers EXCEPT ![b] = passengers[b] + 1]
    BY <1>2 DEF SavePassenger
  <2>3. passengers' \in [Bookings -> 0..9]
    BY <2>1, <2>2 DEF TypeOK
  <2>4. passengers'[b] <= Party[b] /\ \A c \in Bookings \ {b} : passengers'[c] = passengers[c]
    BY <2>0, <2>2 DEF TypeOK
  <2>5. PartyBound'
    BY <2>4 DEF TypeOK, PartyBound
  <2> QED
    BY <1>2, <2>3, <2>5 DEF SavePassenger, TypeOK
<1>3. ASSUME NEW b \in Bookings, NEW f \in Itinerary[b], NEW sel \in Selections(b, f),
             HoldSeats(b, f, sel)
      PROVE  TypeOK'
  <2> DEFINE e == NewExpiry(b, f)
  <2>1. f \in Flights
    BY ConstantsAssumption
  <2>2. e \in Nat
    BY <1>3, <2>1, NewExpiryType DEF HoldSeats
  <2>3. DOMAIN sel \subseteq Seats /\ \A s \in DOMAIN sel : sel[s] \in Nat
    BY ConstantsAssumption DEF Selections, PassengersOf, SeatsFor, TypeOK
  <2> HIDE DEF e
  <2>4. assignments' \subseteq Assignment
    BY <1>3, <2>1, <2>2, <2>3 DEF HoldSeats, Kept, NewRow, TypeOK, Assignment, e
  <2>5. seats' \in [Seats -> [state : SeatState, booking : Bookings \cup {NULL},
                              expires : Time]]
    BY <1>3, <2>2 DEF HoldSeats, MarkedHeld, TypeOK, e
  <2>6. bookings' \in [Bookings -> [status : BookingStatus, expires : Time]]
    BY <1>3, <2>2 DEF HoldSeats, TypeOK, e
  <2>7. segments' \in [Bookings -> [Flights -> SegmentStatus]]
    BY <1>3, <2>1 DEF HoldSeats, TypeOK
  <2> QED
    BY <1>3, <2>4, <2>5, <2>6, <2>7 DEF HoldSeats, TypeOK, PartyBound
<1>4. ASSUME NEW b \in Bookings, NEW next \in {"DRAFT", "CANCELLED"}, Release(b, next)
      PROVE  TypeOK'
  BY <1>4 DEF Release, ReleasedSeats, ReleasedAssignments, TypeOK, PartyBound
<1>5. ASSUME NEW b \in Bookings, Start(b) PROVE TypeOK'
  <2>1. bookings' \in [Bookings -> [status : BookingStatus, expires : Time]]
    BY <1>5 DEF Start, TypeOK
  <2>2. outbox' \subseteq Commands \X Bookings
    BY <1>5 DEF Start, TypeOK
  <2> QED
    BY <1>5, <2>1, <2>2 DEF Start, TypeOK, PartyBound
<1>6. ASSUME NEW b \in Bookings, ApplyFailed(b) PROVE TypeOK'
  BY <1>6 DEF ApplyFailed, TypeOK, PartyBound
<1>7. ASSUME NEW b \in Bookings, ApplyLate(b) PROVE TypeOK'
  BY <1>7 DEF ApplyLate, TypeOK, PartyBound
<1>8. ASSUME NEW b \in Bookings, ApplyConfirm(b) PROVE TypeOK'
  <2>1. ASSUME NEW a \in assignments
        PROVE  ConfirmedRow(a) \in Assignment
    BY DEF TypeOK, Assignment, ConfirmedRow
  <2>2. HeldBy(b) \subseteq assignments
    BY DEF HeldBy
  <2>3. assignments' = ConfirmedAssignments(b)
    BY <1>8 DEF ApplyConfirm
  <2>4. assignments' \subseteq Assignment
    BY <2>1, <2>2, <2>3 DEF ConfirmedAssignments, TypeOK
  <2>5. seats' \in [Seats -> [state : SeatState, booking : Bookings \cup {NULL},
                              expires : Time]]
    BY <1>8 DEF ApplyConfirm, TypeOK
  <2>6. bookings' \in [Bookings -> [status : BookingStatus, expires : Time]]
    BY <1>8 DEF ApplyConfirm, TypeOK
  <2>7. segments' \in [Bookings -> [Flights -> SegmentStatus]]
    BY <1>8 DEF ApplyConfirm, TypeOK
  <2> QED
    BY <1>8, <2>4, <2>5, <2>6, <2>7 DEF ApplyConfirm, TypeOK, PartyBound
<1>9. ASSUME NEW b \in Bookings, DispatchUncertain(b) PROVE TypeOK'
  BY <1>9 DEF DispatchUncertain, TypeOK, PartyBound
<1>10. ASSUME NEW b \in Bookings, RequestRefund(b) PROVE TypeOK'
  <2>1. seats' \in [Seats -> [state : SeatState, booking : Bookings \cup {NULL},
                              expires : Time]]
    BY <1>10 DEF RequestRefund, RefundedSeats, TypeOK
  <2>2. bookings' \in [Bookings -> [status : BookingStatus, expires : Time]]
    <3>1. bookings' = [bookings EXCEPT ![b].status = "CANCELLED"]
      BY <1>10 DEF RequestRefund
    <3>2. bookings \in [Bookings -> [status : BookingStatus, expires : Time]]
      BY DEF TypeOK
    <3> QED
      BY <3>1, <3>2, BookingMoves
  <2>3. outbox' \subseteq Commands \X Bookings
    BY <1>10 DEF RequestRefund, TypeOK
  <2> QED
    BY <1>10, <2>1, <2>2, <2>3 DEF RequestRefund, TypeOK, PartyBound
<1>11. ASSUME NEW b \in Bookings, RefundUncertain(b) PROVE TypeOK'
  BY <1>11 DEF RefundUncertain, TypeOK, PartyBound
<1>12. ASSUME NEW b \in Bookings, RefundDone(b) PROVE TypeOK'
  <2>1. bookings' \in [Bookings -> [status : BookingStatus, expires : Time]]
    <3>1. bookings \in [Bookings -> [status : BookingStatus, expires : Time]]
      BY DEF TypeOK
    <3>2. PICK st \in BookingStatus : bookings' = [bookings EXCEPT ![b].status = st]
      <4> DEFINE st == IF bookings[b].status = "CANCELLED" THEN "REFUNDED"
                                                           ELSE bookings[b].status
      <4>1. bookings' = [bookings EXCEPT ![b].status = st]
        BY <1>12 DEF RefundDone
      <4>2. st \in BookingStatus
        BY <3>1
      <4> QED
        BY <4>1, <4>2
    <3> QED
      BY <3>1, <3>2, BookingMoves
  <2> QED
    BY <1>12, <2>1 DEF RefundDone, SettledRefund, TypeOK, PartyBound
<1>13. ASSUME NEW batch \in SUBSET Bookings, ExpireHolds(batch) PROVE TypeOK'
  BY <1>13 DEF ExpireHolds, ReleasedSeats, ReleasedAssignments, TypeOK, PartyBound
<1>14. CASE Tick
  BY <1>14 DEF Tick, TypeOK, PartyBound
<1>15. CASE UNCHANGED vars
  BY <1>15 DEF vars, TypeOK, PartyBound
<1> QED
  BY <1>1, <1>2, <1>3, <1>4, <1>5, <1>6, <1>7, <1>8, <1>9, <1>10, <1>11, <1>12,
     <1>13, <1>14, <1>15 DEF Next

\* Every state of the program's database is well typed, and no booking has more passengers
\* than SavePassenger lets its quote have.
THEOREM TypeCorrect == Spec => []TypeOK
  BY TypeInit, TypeStep, PTL DEF Spec

-----------------------------------------------------------------------------
(***************************************************************************)
(* The inductive invariant.  InventoryAgrees and NoStrandedSeat are not    *)
(* inductive one without the other: a release goes by flight_seats for the *)
(* seats and by seat_assignments for the rows, so it needs both tables to  *)
(* agree, and a hold on a DRAFT booking needs to know that the booking has *)
(* no rows left.  The first three parts are InventoryAgrees row by row.    *)
(***************************************************************************)

\* The seat of an active row says what the row says.
RowAgrees(a) ==
    IF a.status = "HELD"
    THEN /\ a.expires \in Nat
         /\ seats[a.seat] = [state |-> "HELD", booking |-> a.booking,
                             expires |-> a.expires]
    ELSE seats[a.seat] = [state |-> "BOOKED", booking |-> a.booking, expires |-> NULL]

RowsAgree == \A a \in assignments : RowAgrees(a)

RowsUnique == \A a, c \in assignments : a.seat = c.seat => a = c

\* A seat no row claims is free or blocked.
SeatsClaimed == \A s \in Seats : \/ seats[s] = FreeSeat \/ seats[s] = BlockedSeat
                                 \/ \E a \in assignments : a.seat = s

\* bookings_active_expiration_check
HoldsTimed == \A b \in Bookings :
    bookings[b].status \in {"HELD", "PAYMENT_PENDING"} => bookings[b].expires \in Nat

Inventory == RowsAgree /\ RowsUnique /\ SeatsClaimed

Inv == TypeOK /\ Inventory /\ HoldsTimed /\ NoStrandedSeat

LEMMA InventoryImpliesAgreement == TypeOK /\ Inventory => InventoryAgrees
<1> SUFFICES ASSUME TypeOK, Inventory, NEW s \in Seats PROVE SeatAgrees(s)
  BY DEF InventoryAgrees
<1>1. CASE \E a \in assignments : a.seat = s
  <2>1. PICK a \in assignments : a.seat = s
    BY <1>1
  <2>2. ActiveOn(s) = {a}
    BY <2>1 DEF ActiveOn, Inventory, RowsUnique
  <2>3. a \in Assignment
    BY DEF TypeOK
  <2>4. RowAgrees(a)
    BY DEF Inventory, RowsAgree
  <2>5. CASE a.status = "HELD"
    BY <2>1, <2>2, <2>4, <2>5, ConstantsAssumption DEF RowAgrees, SeatAgrees, Matches
  <2>6. CASE a.status = "CONFIRMED"
    BY <2>1, <2>2, <2>4, <2>6 DEF RowAgrees, SeatAgrees
  <2> QED
    BY <2>3, <2>5, <2>6 DEF Assignment
<1>2. CASE ~ \E a \in assignments : a.seat = s
  <2>1. ActiveOn(s) = {}
    BY <1>2 DEF ActiveOn
  <2> QED
    BY <1>2, <2>1 DEF Inventory, SeatsClaimed, SeatAgrees
<1> QED
  BY <1>1, <1>2

LEMMA InvInit == Init => Inv
<1> SUFFICES ASSUME Init PROVE Inv
  OBVIOUS
<1>1. TypeOK
  BY TypeInit
<1>2. Inventory
  BY DEF Init, Inventory, RowsAgree, RowsUnique, SeatsClaimed
<1>3. HoldsTimed /\ NoStrandedSeat
  BY DEF Init, HoldsTimed, NoStrandedSeat
<1> QED
  BY <1>1, <1>2, <1>3 DEF Inv

\* A step that writes neither table keeps them in agreement.
LEMMA InventoryUnchanged ==
  ASSUME Inventory, seats' = seats, assignments' = assignments
  PROVE  Inventory'
  BY DEF Inventory, RowsAgree, RowAgrees, RowsUnique, SeatsClaimed

\* releaseInventory keeps the tables in agreement.
LEMMA InventoryReleased ==
  ASSUME TypeOK, Inventory, NEW B \in SUBSET Bookings,
         seats' = ReleasedSeats(B), assignments' = ReleasedAssignments(B)
  PROVE  Inventory'
<1>1. \A a \in assignments' : a \in assignments /\ ~(a.booking \in B /\ a.status = "HELD")
  BY DEF ReleasedAssignments
<1>2. ASSUME NEW a \in assignments' PROVE seats'[a.seat] = seats[a.seat]
  <2>1. a \in Assignment
    BY <1>1 DEF TypeOK
  <2>2. RowAgrees(a)
    BY <1>1 DEF Inventory, RowsAgree
  <2> QED
    BY <1>1, <2>1, <2>2 DEF ReleasedSeats, RowAgrees, Assignment
<1>3. RowsAgree'
  BY <1>1, <1>2 DEF Inventory, RowsAgree, RowAgrees
<1>4. RowsUnique'
  BY <1>1 DEF Inventory, RowsUnique
<1>5. ASSUME NEW s \in Seats, seats'[s] # FreeSeat, seats'[s] # BlockedSeat
      PROVE  \E a \in assignments' : a.seat = s
  <2>1. seats'[s] = seats[s] /\ ~(seats[s].booking \in B /\ seats[s].state = "HELD")
    BY <1>5 DEF ReleasedSeats
  <2>2. PICK a \in assignments : a.seat = s
    BY <1>5, <2>1 DEF Inventory, SeatsClaimed
  <2>3. RowAgrees(a)
    BY DEF Inventory, RowsAgree
  <2>4. ~(a.booking \in B /\ a.status = "HELD")
    BY <2>1, <2>2, <2>3 DEF RowAgrees
  <2> QED
    BY <2>2, <2>4 DEF ReleasedAssignments
<1> QED
  BY <1>3, <1>4, <1>5 DEF Inventory, SeatsClaimed

\* What a successful HoldSeats leaves behind, with the set comprehensions unfolded:
\* new rows for the fresh seats of the selection, and every selected seat HELD.
HoldLeaves(b, f, sel, fresh, e) ==
    /\ DOMAIN sel \subseteq Seats
    /\ \A s \in DOMAIN sel \ fresh :
          seats[s] = [state |-> "HELD", booking |-> b, expires |-> e]
    /\ \A a : a \in assignments' <=>
          \/ a \in assignments /\ a.seat \notin fresh
          \/ \E s \in fresh : a = [booking |-> b, flight |-> f, passenger |-> sel[s],
                                   seat |-> s, status |-> "HELD", expires |-> e]
    /\ seats' = [s \in Seats |-> IF s \in DOMAIN sel
                    THEN [state |-> "HELD", booking |-> b, expires |-> e]
                    ELSE seats[s]]

LEMMA HoldEffect ==
  ASSUME TypeOK, NEW b \in Bookings, NEW f \in Itinerary[b],
         NEW sel \in Selections(b, f), HoldSeats(b, f, sel)
  PROVE  \E fresh \in SUBSET DOMAIN sel :
            /\ \A s \in fresh : Free(s) \/ Reclaimable(s)
            /\ \A s \in fresh : \A a \in assignments : a.seat \notin fresh =>
                  ~(a.booking = b /\ a.flight = f /\ a.passenger = sel[s])
            /\ HoldLeaves(b, f, sel, fresh, NewExpiry(b, f))
<1> DEFINE e == NewExpiry(b, f)
           fresh == {s \in DOMAIN sel : ~AlreadyHeld(b, f, sel[s], s, e)}
<1>1. DOMAIN sel \subseteq Seats
  BY ConstantsAssumption DEF Selections, SeatsFor
<1>2. \A s \in fresh : Free(s) \/ Reclaimable(s)
  BY DEF HoldSeats
<1>3. ASSUME NEW s \in DOMAIN sel \ fresh
      PROVE  seats[s] = [state |-> "HELD", booking |-> b, expires |-> e]
  <2>1. AlreadyHeld(b, f, sel[s], s, e)
    OBVIOUS
  <2>2. seats[s].state = "HELD" /\ seats[s].booking = b /\ seats[s].expires = e
    BY <2>1 DEF AlreadyHeld
  <2> QED
    BY <1>1, <2>2 DEF TypeOK
<1>4. assignments' = Kept(fresh) \cup {NewRow(b, f, sel[s], s, e) : s \in fresh}
  BY DEF HoldSeats
<1>5. seats' = [s \in Seats |-> IF s \in DOMAIN sel
                   THEN [state |-> "HELD", booking |-> b, expires |-> e]
                   ELSE seats[s]]
  BY DEF HoldSeats, MarkedHeld
<1>6. fresh \subseteq DOMAIN sel
  OBVIOUS
<1>9. \A s \in fresh : \A a \in assignments : a.seat \notin fresh =>
         ~(a.booking = b /\ a.flight = f /\ a.passenger = sel[s])
  BY DEF HoldSeats, Kept
<1> HIDE DEF fresh, e
<1>7. \A a : a \in assignments' <=>
               \/ a \in assignments /\ a.seat \notin fresh
               \/ \E s \in fresh : a = [booking |-> b, flight |-> f, passenger |-> sel[s],
                                        seat |-> s, status |-> "HELD", expires |-> e]
  BY <1>4 DEF Kept, NewRow
<1>8. HoldLeaves(b, f, sel, fresh, e)
  BY <1>1, <1>3, <1>5, <1>7 DEF HoldLeaves
<1> QED
  BY <1>2, <1>6, <1>8, <1>9 DEF e

LEMMA InventoryHeld ==
  ASSUME TypeOK, Inventory, NEW b \in Bookings, NEW f \in Itinerary[b],
         NEW sel \in Selections(b, f), HoldSeats(b, f, sel)
  PROVE  Inventory'
<1> DEFINE e == NewExpiry(b, f)
           held == [state |-> "HELD", booking |-> b, expires |-> e]
           row(s) == [booking |-> b, flight |-> f, passenger |-> sel[s], seat |-> s,
                      status |-> "HELD", expires |-> e]
<1>0. PICK fresh \in SUBSET DOMAIN sel : HoldLeaves(b, f, sel, fresh, e)
  BY HoldEffect
<1>1. /\ DOMAIN sel \subseteq Seats
      /\ \A s \in DOMAIN sel \ fresh : seats[s] = held
      /\ \A a : a \in assignments' <=> \/ a \in assignments /\ a.seat \notin fresh
                                       \/ \E s \in fresh : a = row(s)
      /\ seats' = [s \in Seats |-> IF s \in DOMAIN sel THEN held ELSE seats[s]]
  BY <1>0 DEF HoldLeaves
<1>2. e \in Nat
  BY NewExpiryType, ConstantsAssumption DEF HoldSeats
<1> HIDE DEF e
<1>3. ASSUME NEW a \in assignments, a.seat \notin fresh
      PROVE  RowAgrees(a)'
  <2>1. RowAgrees(a) /\ a.seat \in Seats
    BY DEF Inventory, RowsAgree, TypeOK, Assignment
  <2>2. seats'[a.seat] = seats[a.seat]
    BY <1>1, <1>3, <2>1
  <2> QED
    BY <2>1, <2>2 DEF RowAgrees
<1>8. \A s \in fresh : row(s).seat = s
  OBVIOUS
<1>9. \A a \in assignments' : \/ a \in assignments /\ a.seat \notin fresh
                              \/ a.seat \in fresh /\ a = row(a.seat)
  <2> SUFFICES ASSUME NEW a \in assignments', ~(a \in assignments /\ a.seat \notin fresh)
               PROVE  a.seat \in fresh /\ a = row(a.seat)
    OBVIOUS
  <2>1. PICK s \in fresh : a = row(s)
    BY <1>1
  <2> QED
    BY <1>8, <2>1
<1>4. ASSUME NEW a, a.seat \in fresh, a = row(a.seat)
      PROVE  RowAgrees(a)'
  <2>1. a.status = "HELD" /\ a.booking = b /\ a.expires = e
    BY <1>4
  <2>2. seats'[a.seat] = held
    BY <1>1, <1>4
  <2> QED
    BY <1>2, <2>1, <2>2 DEF RowAgrees
<1> HIDE DEF row
<1>5. RowsAgree'
  <2> SUFFICES ASSUME NEW a \in assignments' PROVE RowAgrees(a)'
    BY DEF RowsAgree
  <2>1. CASE a \in assignments /\ a.seat \notin fresh
    BY <1>3, <2>1
  <2>2. CASE a.seat \in fresh /\ a = row(a.seat)
    BY <1>4, <2>2
  <2> QED
    BY <1>9, <2>1, <2>2
<1>6. RowsUnique'
  BY <1>9 DEF Inventory, RowsUnique
<1>7. SeatsClaimed'
  <2> SUFFICES ASSUME NEW s \in Seats, seats'[s] # FreeSeat, seats'[s] # BlockedSeat
               PROVE  \E a \in assignments' : a.seat = s
    BY DEF SeatsClaimed
  <2>1. CASE s \in fresh
    <3>1. row(s) \in assignments' /\ row(s).seat = s
      BY <1>1, <1>8, <2>1
    <3> QED
      BY <3>1
  <2>2. CASE s \notin fresh
    <3>1. seats'[s] = seats[s]
      BY <1>1, <2>2
    <3>2. PICK a \in assignments : a.seat = s
      BY <3>1 DEF Inventory, SeatsClaimed
    <3> QED
      BY <1>1, <2>2, <3>2
  <2> QED
    BY <2>1, <2>2
<1> QED
  BY <1>5, <1>6, <1>7 DEF Inventory

\* Confirming turns the held rows and the held seats of a booking over together.
LEMMA InventoryConfirmed ==
  ASSUME TypeOK, Inventory, NEW b \in Bookings, ApplyConfirm(b)
  PROVE  Inventory'
<1>1. \A a \in assignments : a \in Assignment
  BY DEF TypeOK
<1>2. ASSUME NEW a \in Assignment
      PROVE  /\ ConfirmedRow(a).seat = a.seat /\ ConfirmedRow(a).booking = a.booking
             /\ ConfirmedRow(a).status = "CONFIRMED"
  BY DEF ConfirmedRow, Assignment
<1>3. ASSUME NEW a
      PROVE  a \in assignments' <=>
                \/ a \in assignments /\ ~(a.booking = b /\ a.status = "HELD")
                \/ \E c \in assignments : /\ c.booking = b /\ c.status = "HELD"
                                          /\ a = ConfirmedRow(c)
  BY DEF ApplyConfirm, ConfirmedAssignments, HeldBy
<1>4. ASSUME NEW s \in Seats
      PROVE  seats'[s] = IF seats[s].booking = b /\ seats[s].state = "HELD"
                         THEN [state |-> "BOOKED", booking |-> b, expires |-> NULL]
                         ELSE seats[s]
  BY DEF ApplyConfirm, HeldSeats
<1>5. ASSUME NEW a \in assignments, ~(a.booking = b /\ a.status = "HELD")
      PROVE  RowAgrees(a)'
  <2>1. RowAgrees(a) /\ a.seat \in Seats /\ a.status \in {"HELD", "CONFIRMED"}
    BY <1>1 DEF Inventory, RowsAgree, Assignment
  <2>2. seats'[a.seat] = seats[a.seat]
    BY <1>4, <1>5, <2>1 DEF RowAgrees
  <2> QED
    BY <2>1, <2>2 DEF RowAgrees
<1>6. ASSUME NEW c \in assignments, c.booking = b, c.status = "HELD"
      PROVE  RowAgrees(ConfirmedRow(c))'
  <2>1. RowAgrees(c) /\ c.seat \in Seats
    BY <1>1 DEF Inventory, RowsAgree, Assignment
  <2>2. seats'[c.seat] = [state |-> "BOOKED", booking |-> b, expires |-> NULL]
    BY <1>4, <1>6, <2>1 DEF RowAgrees
  <2> QED
    BY <1>1, <1>2, <1>6, <2>2 DEF RowAgrees
<1>7. RowsAgree'
  BY <1>3, <1>5, <1>6 DEF RowsAgree
<1>8. RowsUnique'
  BY <1>1, <1>2, <1>3 DEF Inventory, RowsUnique
<1>9. SeatsClaimed'
  <2> SUFFICES ASSUME NEW s \in Seats, seats'[s] # FreeSeat, seats'[s] # BlockedSeat
               PROVE  \E a \in assignments' : a.seat = s
    BY DEF SeatsClaimed
  <2>1. seats[s] # FreeSeat /\ seats[s] # BlockedSeat
    BY <1>4
  <2>2. PICK a \in assignments : a.seat = s
    BY <2>1 DEF Inventory, SeatsClaimed
  <2>3. CASE a.booking = b /\ a.status = "HELD"
    BY <1>1, <1>2, <1>3, <2>2, <2>3
  <2>4. CASE ~(a.booking = b /\ a.status = "HELD")
    BY <1>3, <2>2, <2>4
  <2> QED
    BY <2>3, <2>4
<1> QED
  BY <1>7, <1>8, <1>9 DEF Inventory

\* A refund frees exactly the booked seats whose rows it cancels.
LEMMA InventoryRefunded ==
  ASSUME TypeOK, Inventory, NEW b \in Bookings, RequestRefund(b)
  PROVE  Inventory'
<1>1. ASSUME NEW a
      PROVE  a \in assignments' <=>
                a \in assignments /\ ~(a.booking = b /\ a.status = "CONFIRMED")
  BY DEF RequestRefund
<1>2. ASSUME NEW s \in Seats
      PROVE  seats'[s] = IF seats[s].booking = b /\ seats[s].state = "BOOKED"
                         THEN FreeSeat ELSE seats[s]
  BY DEF RequestRefund, RefundedSeats
<1>3. ASSUME NEW a \in assignments'
      PROVE  RowAgrees(a)'
  <2>1. /\ RowAgrees(a) /\ a.seat \in Seats /\ a.status \in {"HELD", "CONFIRMED"}
        /\ ~(a.booking = b /\ a.status = "CONFIRMED")
    BY <1>1 DEF Inventory, RowsAgree, TypeOK, Assignment
  <2>2. seats'[a.seat] = seats[a.seat]
    BY <1>2, <2>1 DEF RowAgrees
  <2> QED
    BY <2>1, <2>2 DEF RowAgrees
<1>4. RowsUnique'
  BY <1>1 DEF Inventory, RowsUnique
<1>5. SeatsClaimed'
  <2> SUFFICES ASSUME NEW s \in Seats, seats'[s] # FreeSeat, seats'[s] # BlockedSeat
               PROVE  \E a \in assignments' : a.seat = s
    BY DEF SeatsClaimed
  <2>1. seats'[s] = seats[s] /\ ~(seats[s].booking = b /\ seats[s].state = "BOOKED")
    BY <1>2
  <2>2. PICK a \in assignments : a.seat = s
    BY <2>1 DEF Inventory, SeatsClaimed
  <2>3. RowAgrees(a) /\ a.status \in {"HELD", "CONFIRMED"}
    BY DEF Inventory, RowsAgree, TypeOK, Assignment
  <2>4. ~(a.booking = b /\ a.status = "CONFIRMED")
    BY <2>1, <2>2, <2>3 DEF RowAgrees
  <2> QED
    BY <1>1, <2>2, <2>4
<1> QED
  BY <1>3, <1>4, <1>5 DEF Inventory, RowsAgree

-----------------------------------------------------------------------------
\* A row's booking keeps the row's claim whenever the step leaves the row, and the
\* booking's status and expiry, as they were.
LEMMA RowKeepsOwner ==
  ASSUME TypeOK, NoStrandedSeat, NEW a \in assignments,
         bookings'[a.booking] = bookings[a.booking]
  PROVE  IF a.status = "HELD"
         THEN /\ bookings'[a.booking].status \in {"HELD", "PAYMENT_PENDING"}
              /\ bookings'[a.booking].expires <= a.expires
         ELSE bookings'[a.booking].status \in {"CONFIRMED", "TICKETED"}
  BY DEF NoStrandedSeat

LEMMA OwnersHeld ==
  ASSUME Inv, NEW b \in Bookings, NEW f \in Itinerary[b], NEW sel \in Selections(b, f),
         HoldSeats(b, f, sel)
  PROVE  HoldsTimed' /\ NoStrandedSeat'
<1> DEFINE e == NewExpiry(b, f)
<1>0. PICK fresh \in SUBSET DOMAIN sel : HoldLeaves(b, f, sel, fresh, e)
  BY HoldEffect DEF Inv
<1>1. \A a : a \in assignments' <=>
        \/ a \in assignments /\ a.seat \notin fresh
        \/ \E s \in fresh : a = [booking |-> b, flight |-> f, passenger |-> sel[s],
                                 seat |-> s, status |-> "HELD", expires |-> e]
  BY <1>0 DEF HoldLeaves
<1>2. /\ e \in Nat
      /\ bookings[b].status = "HELD" =>
            bookings[b].expires \in Nat /\ e <= bookings[b].expires
  BY NewExpiryType, ConstantsAssumption DEF HoldSeats, Inv
<1>3. bookings' = [bookings EXCEPT ![b] = [status |-> "HELD", expires |-> e]]
  BY DEF HoldSeats
<1>4. bookings[b].status \in {"DRAFT", "HELD"}
  BY DEF HoldSeats, Holdable
<1> HIDE DEF e
<1>5. /\ bookings'[b].status = "HELD" /\ bookings'[b].expires = e
      /\ \A c \in Bookings \ {b} : bookings'[c] = bookings[c]
  BY <1>3 DEF Inv, TypeOK
<1>6. HoldsTimed'
  BY <1>2, <1>5 DEF HoldsTimed, Inv
<1>7. NoStrandedSeat'
  <2> SUFFICES ASSUME NEW a \in assignments'
               PROVE  IF a.status = "HELD"
                      THEN /\ bookings'[a.booking].status \in {"HELD", "PAYMENT_PENDING"}
                           /\ bookings'[a.booking].expires <= a.expires
                      ELSE bookings'[a.booking].status \in {"CONFIRMED", "TICKETED"}
    BY DEF NoStrandedSeat
  <2>1. CASE a \in assignments /\ a.booking # b
    <3>1. bookings'[a.booking] = bookings[a.booking]
      BY <1>5, <2>1 DEF Inv, TypeOK, Assignment
    <3> QED
      BY <2>1, <3>1, RowKeepsOwner DEF Inv
  <2>2. CASE a \in assignments /\ a.booking = b
    <3>1. a.status = "HELD" /\ bookings[b].status = "HELD" /\ bookings[b].expires <= a.expires
      BY <1>4, <2>2 DEF Inv, NoStrandedSeat, TypeOK, Assignment
    <3>2. a.expires \in Nat
      BY <2>2, <3>1 DEF Inv, Inventory, RowsAgree, RowAgrees
    <3> QED
      BY <1>2, <1>5, <2>2, <3>1, <3>2
  <2>3. CASE a \notin assignments
    <3>1. a.status = "HELD" /\ a.booking = b /\ a.expires = e
      BY <1>1, <2>3
    <3> QED
      BY <1>2, <1>5, <3>1
  <2> QED
    BY <2>1, <2>2, <2>3
<1> QED
  BY <1>6, <1>7

LEMMA OwnersReleased ==
  ASSUME Inv, NEW b \in Bookings, NEW next \in {"DRAFT", "CANCELLED"}, Release(b, next)
  PROVE  HoldsTimed' /\ NoStrandedSeat'
<1>1. bookings' = [bookings EXCEPT ![b] = [status |-> next, expires |-> NULL]]
  BY DEF Release
<1>2. bookings'[b].status = next /\ \A c \in Bookings \ {b} : bookings'[c] = bookings[c]
  BY <1>1 DEF Inv, TypeOK
<1>3. HoldsTimed'
  BY <1>2 DEF HoldsTimed, Inv
<1>4. ASSUME NEW a \in assignments' PROVE a \in assignments /\ a.booking # b
  <2>1. a \in assignments /\ ~(a.booking = b /\ a.status = "HELD")
    BY DEF Release, ReleasedAssignments
  <2>2. bookings[b].status \notin {"CONFIRMED", "TICKETED"}
    BY DEF Release, Releasable
  <2> QED
    BY <2>1, <2>2 DEF Inv, NoStrandedSeat
<1>5. ASSUME NEW a \in assignments' PROVE bookings'[a.booking] = bookings[a.booking]
  BY <1>2, <1>4 DEF Inv, TypeOK, Assignment
<1> QED
  BY <1>3, <1>4, <1>5 DEF NoStrandedSeat, Inv

LEMMA OwnersExpired ==
  ASSUME Inv, NEW batch \in SUBSET Bookings, ExpireHolds(batch)
  PROVE  HoldsTimed' /\ NoStrandedSeat'
<1>1. \A b \in Bookings \ batch : bookings'[b] = bookings[b]
  BY DEF ExpireHolds
<1>2. \A b \in batch : bookings'[b].status = "EXPIRED"
  BY DEF ExpireHolds, Inv, TypeOK
<1>3. HoldsTimed'
  BY <1>1, <1>2 DEF HoldsTimed, Inv
<1>4. ASSUME NEW a \in assignments' PROVE a \in assignments /\ a.booking \notin batch
  <2>1. a \in assignments /\ ~(a.booking \in batch /\ a.status = "HELD")
    BY DEF ExpireHolds, ReleasedAssignments
  <2>2. \A b \in batch : bookings[b].status \notin {"CONFIRMED", "TICKETED"}
    BY DEF ExpireHolds, Lapsed
  <2> QED
    BY <2>1, <2>2 DEF Inv, NoStrandedSeat
<1>5. ASSUME NEW a \in assignments' PROVE bookings'[a.booking] = bookings[a.booking]
  BY <1>1, <1>4 DEF Inv, TypeOK, Assignment
<1> QED
  BY <1>3, <1>4, <1>5 DEF NoStrandedSeat, Inv

LEMMA OwnersConfirmed ==
  ASSUME Inv, NEW b \in Bookings, ApplyConfirm(b)
  PROVE  HoldsTimed' /\ NoStrandedSeat'
<1>1. bookings' = [bookings EXCEPT ![b] = [status |-> "CONFIRMED", expires |-> NULL]]
  BY DEF ApplyConfirm
<1>2. /\ bookings'[b].status = "CONFIRMED"
      /\ \A c \in Bookings \ {b} : bookings'[c] = bookings[c]
  BY <1>1 DEF Inv, TypeOK
<1>3. HoldsTimed'
  BY <1>2 DEF HoldsTimed, Inv
<1>4. ASSUME NEW a \in assignments'
      PROVE  \/ a \in assignments /\ a.booking # b
             \/ a.booking = b /\ a.status = "CONFIRMED"
  <2>1. CASE a \in assignments \ HeldBy(b)
    <3>1. a.status \in {"HELD", "CONFIRMED"}
      BY <2>1 DEF Inv, TypeOK, Assignment
    <3> QED
      BY <2>1, <3>1 DEF HeldBy
  <2>2. CASE \E c \in HeldBy(b) : a = ConfirmedRow(c)
    <3>1. PICK c \in assignments : c.booking = b /\ a = ConfirmedRow(c)
      BY <2>2 DEF HeldBy
    <3>2. c \in Assignment
      BY DEF Inv, TypeOK
    <3> QED
      BY <3>1, <3>2 DEF ConfirmedRow, Assignment
  <2> QED
    BY <2>1, <2>2 DEF ApplyConfirm, ConfirmedAssignments
<1>5. ASSUME NEW a \in assignments, a.booking # b
      PROVE  bookings'[a.booking] = bookings[a.booking]
  BY <1>2, <1>5 DEF Inv, TypeOK, Assignment
<1> QED
  BY <1>2, <1>3, <1>4, <1>5 DEF NoStrandedSeat, Inv

LEMMA OwnersRefunded ==
  ASSUME Inv, NEW b \in Bookings, RequestRefund(b)
  PROVE  HoldsTimed' /\ NoStrandedSeat'
<1>1. bookings' = [bookings EXCEPT ![b].status = "CANCELLED"]
  BY DEF RequestRefund
<1>2. /\ bookings'[b].status = "CANCELLED"
      /\ \A c \in Bookings \ {b} : bookings'[c] = bookings[c]
  BY <1>1 DEF Inv, TypeOK
<1>3. HoldsTimed'
  BY <1>2 DEF HoldsTimed, Inv
<1>4. ASSUME NEW a \in assignments' PROVE a \in assignments /\ a.booking # b
  <2>1. a \in assignments /\ ~(a.booking = b /\ a.status = "CONFIRMED")
    BY DEF RequestRefund
  <2>2. bookings[b].status \in {"CONFIRMED", "TICKETED"}
    BY DEF RequestRefund
  <2> QED
    BY <2>1, <2>2 DEF Inv, NoStrandedSeat, TypeOK, Assignment
<1>5. ASSUME NEW a \in assignments' PROVE bookings'[a.booking] = bookings[a.booking]
  BY <1>2, <1>4 DEF Inv, TypeOK, Assignment
<1> QED
  BY <1>3, <1>4, <1>5 DEF NoStrandedSeat, Inv

\* Create, Start and RefundDone move a booking between states and touch no row.
LEMMA OwnersMoved ==
  ASSUME Inv, NEW b \in Bookings, Create(b) \/ Start(b) \/ RefundDone(b)
  PROVE  HoldsTimed' /\ NoStrandedSeat'
<1>1. /\ assignments' = assignments
      /\ bookings'[b].expires = bookings[b].expires
      /\ \A c \in Bookings \ {b} : bookings'[c] = bookings[c]
      /\ \/ /\ bookings[b].status = "HELD" /\ bookings'[b].status = "PAYMENT_PENDING"
         \/ /\ bookings[b].status \in {"NONE", "CANCELLED"}
            /\ bookings'[b].status \in {"DRAFT", "REFUNDED"}
         \/ bookings'[b].status = bookings[b].status
  BY DEF Inv, TypeOK, Create, Start, RefundDone
<1>2. HoldsTimed'
  BY <1>1 DEF HoldsTimed, Inv
<1>3. ASSUME NEW a \in assignments, a.booking # b
      PROVE  bookings'[a.booking] = bookings[a.booking]
  BY <1>1, <1>3 DEF Inv, TypeOK, Assignment
<1> QED
  BY <1>1, <1>2, <1>3 DEF NoStrandedSeat, Inv

\* The remaining steps write neither bookings nor seat_assignments.
LEMMA OwnersUnchanged ==
  ASSUME Inv, bookings' = bookings, assignments' = assignments
  PROVE  HoldsTimed' /\ NoStrandedSeat'
  BY DEF Inv, HoldsTimed, NoStrandedSeat

LEMMA InvStep == Inv /\ [Next]_vars => Inv'
<1> SUFFICES ASSUME Inv, [Next]_vars PROVE Inv'
  OBVIOUS
<1>0. TypeOK /\ Inventory
  BY DEF Inv
<1>1. TypeOK'
  BY <1>0, TypeStep
<1>2. ASSUME NEW b \in Bookings, Create(b) \/ Start(b) \/ RefundDone(b) PROVE Inv'
  <2>1. seats' = seats /\ assignments' = assignments
    BY <1>2 DEF Create, Start, RefundDone
  <2> QED
    BY <1>0, <1>1, <1>2, <2>1, InventoryUnchanged, OwnersMoved DEF Inv
<1>3. ASSUME NEW b \in Bookings, NEW f \in Itinerary[b], NEW sel \in Selections(b, f),
             HoldSeats(b, f, sel)
      PROVE  Inv'
  BY <1>0, <1>1, <1>3, InventoryHeld, OwnersHeld DEF Inv
<1>4. ASSUME NEW b \in Bookings, NEW next \in {"DRAFT", "CANCELLED"}, Release(b, next)
      PROVE  Inv'
  <2>1. {b} \in SUBSET Bookings
    OBVIOUS
  <2>2. seats' = ReleasedSeats({b}) /\ assignments' = ReleasedAssignments({b})
    BY <1>4 DEF Release
  <2>3. Inventory'
    BY <1>0, <2>1, <2>2, InventoryReleased
  <2> QED
    BY <1>1, <1>4, <2>3, OwnersReleased DEF Inv
<1>5. ASSUME NEW batch \in SUBSET Bookings, ExpireHolds(batch) PROVE Inv'
  <2>1. seats' = ReleasedSeats(batch) /\ assignments' = ReleasedAssignments(batch)
    BY <1>5 DEF ExpireHolds
  <2>2. Inventory'
    BY <1>0, <2>1, InventoryReleased
  <2> QED
    BY <1>1, <1>5, <2>2, OwnersExpired DEF Inv
<1>6. ASSUME NEW b \in Bookings, ApplyConfirm(b) PROVE Inv'
  BY <1>0, <1>1, <1>6, InventoryConfirmed, OwnersConfirmed DEF Inv
<1>7. ASSUME NEW b \in Bookings, RequestRefund(b) PROVE Inv'
  BY <1>0, <1>1, <1>7, InventoryRefunded, OwnersRefunded DEF Inv
<1>8. ASSUME seats' = seats, assignments' = assignments, bookings' = bookings
      PROVE  Inv'
  BY <1>0, <1>1, <1>8, InventoryUnchanged, OwnersUnchanged DEF Inv
<1>9. ASSUME NEW b \in Bookings,
             \/ SavePassenger(b) \/ ApplyFailed(b) \/ ApplyLate(b)
             \/ DispatchUncertain(b) \/ RefundUncertain(b)
      PROVE  Inv'
  BY <1>8, <1>9 DEF SavePassenger, ApplyFailed, ApplyLate, DispatchUncertain, RefundUncertain
<1>10. CASE Tick
  BY <1>8, <1>10 DEF Tick
<1>11. CASE UNCHANGED vars
  BY <1>8, <1>11 DEF vars
<1> QED
  BY <1>2, <1>3, <1>4, <1>5, <1>6, <1>7, <1>9, <1>10, <1>11 DEF Next

LEMMA InvHolds == Spec => []Inv
  BY InvInit, InvStep, PTL DEF Spec

\* For any bookings, flights and seats: the two tables agree on every seat, so no seat is
\* ever assigned twice and the single-seat consistency checks of HoldSeats never fire.
THEOREM InventoryIsConsistent == Spec => []InventoryAgrees
<1>1. Inv => InventoryAgrees
  BY InventoryImpliesAgreement DEF Inv
<1> QED
  BY <1>1, InvHolds, PTL

\* No order of holds, releases, expirations, reclaims, confirmations and refunds leaves a
\* seat with a booking that has no claim to it.
THEOREM SeatsAreNotStranded == Spec => []NoStrandedSeat
<1>1. Inv => NoStrandedSeat
  BY DEF Inv
<1> QED
  BY <1>1, InvHolds, PTL

LEMMA StepsExtendNoHold == []Inv /\ [][Next]_vars => HoldNeverExtended
<1> DEFINE Kept1 == \A b \in Bookings :
              /\ bookings[b].status \in {"HELD", "PAYMENT_PENDING"}
              /\ bookings'[b].status \in {"HELD", "PAYMENT_PENDING"}
              => bookings'[b].expires <= bookings[b].expires
<1>1. ASSUME Inv, [Next]_vars PROVE [Kept1]_vars
  <2> SUFFICES ASSUME NEW c \in Bookings,
                      bookings[c].status \in {"HELD", "PAYMENT_PENDING"},
                      bookings'[c].status \in {"HELD", "PAYMENT_PENDING"}
               PROVE  bookings'[c].expires <= bookings[c].expires
    OBVIOUS
  <2>1. bookings[c].expires \in Nat
    BY <1>1 DEF Inv, HoldsTimed
  <2>2. ASSUME NEW b \in Bookings, NEW f \in Itinerary[b], NEW sel \in Selections(b, f),
               HoldSeats(b, f, sel)
        PROVE  bookings'[c].expires <= bookings[c].expires
    <3>1. bookings' = [bookings EXCEPT ![b] = [status |-> "HELD",
                                               expires |-> NewExpiry(b, f)]]
      BY <2>2 DEF HoldSeats
    <3>2. bookings[b].status = "HELD" => NewExpiry(b, f) <= bookings[b].expires
      BY <1>1, <2>2, NewExpiryType, ConstantsAssumption DEF HoldSeats, Inv
    <3>3. bookings[b].status \in {"DRAFT", "HELD"}
      BY <2>2 DEF HoldSeats, Holdable
    <3> QED
      BY <1>1, <2>1, <3>1, <3>2, <3>3 DEF Inv, TypeOK
  <2>3. ASSUME bookings'[c].expires = bookings[c].expires
        PROVE  bookings'[c].expires <= bookings[c].expires
    BY <2>1, <2>3
  <2>4. ASSUME NEW b \in Bookings,
               \/ Release(b, "DRAFT") \/ Release(b, "CANCELLED") \/ ApplyConfirm(b)
        PROVE  bookings'[c].expires = bookings[c].expires
    <3>1. \E next \in {"DRAFT", "CANCELLED", "CONFIRMED"} :
             bookings' = [bookings EXCEPT ![b] = [status |-> next, expires |-> NULL]]
      BY <2>4 DEF Release, ApplyConfirm
    <3> QED
      BY <1>1, <3>1 DEF Inv, TypeOK
  <2>5. ASSUME NEW b \in Bookings,
               \/ Create(b) \/ Start(b) \/ RequestRefund(b) \/ RefundDone(b)
        PROVE  bookings'[c].expires = bookings[c].expires
    <3>1. \E next \in BookingStatus : bookings' = [bookings EXCEPT ![b].status = next]
      <4>1. CASE RefundDone(b)
        <5>1. bookings' = [bookings EXCEPT ![b].status =
                             IF bookings[b].status = "CANCELLED" THEN "REFUNDED"
                                                               ELSE bookings[b].status]
          BY <4>1 DEF RefundDone
        <5>2. bookings[b].status \in BookingStatus
          BY <1>1 DEF Inv, TypeOK
        <5> QED
          BY <5>1, <5>2
      <4> QED
        BY <2>5, <4>1 DEF Create, Start, RequestRefund
    <3> QED
      BY <1>1, <3>1 DEF Inv, TypeOK
  <2>6. ASSUME NEW batch \in SUBSET Bookings, ExpireHolds(batch)
        PROVE  bookings'[c].expires = bookings[c].expires
    BY <1>1, <2>6 DEF Inv, TypeOK, ExpireHolds
  <2>7. ASSUME NEW b \in Bookings,
               \/ SavePassenger(b) \/ ApplyFailed(b) \/ ApplyLate(b)
               \/ DispatchUncertain(b) \/ RefundUncertain(b)
        PROVE  bookings'[c].expires = bookings[c].expires
    BY <2>7 DEF SavePassenger, ApplyFailed, ApplyLate, DispatchUncertain, RefundUncertain
  <2>8. CASE Tick \/ UNCHANGED vars
    BY <2>3, <2>8 DEF Tick, vars
  <2> QED
    BY <1>1, <2>2, <2>3, <2>4, <2>5, <2>6, <2>7, <2>8 DEF Next
<1> QED
  BY <1>1, PTL DEF HoldNeverExtended

\* Neither a repeated hold, nor one on a further segment, nor the payment extends a hold.
THEOREM HoldsAreNotExtended == Spec => HoldNeverExtended
  BY StepsExtendNoHold, InvHolds, PTL DEF Spec

-----------------------------------------------------------------------------
(***************************************************************************)
(* The transactions implement SeatOwnership.                               *)
(***************************************************************************)

\* HoldSeats is a Hold: each seat it takes is open to the booking.
LEMMA HoldIsHold ==
  ASSUME Inv, NEW b \in Bookings, NEW f \in Itinerary[b], NEW sel \in Selections(b, f),
         HoldSeats(b, f, sel)
  PROVE  [Ownership!Next]_(Ownership!vars)
<1> DEFINE e == NewExpiry(b, f)
           S == DOMAIN sel
<1>1. f \in Flights /\ TypeOK /\ InventoryAgrees
  BY ConstantsAssumption, InventoryImpliesAgreement DEF Inv
<1>2. e \in Nat
  BY <1>1, NewExpiryType DEF HoldSeats
<1>3. S \subseteq Seats
  BY ConstantsAssumption DEF Selections, SeatsFor
<1>4. \A s \in S : Free(s) \/ Reclaimable(s) \/ AlreadyHeld(b, f, sel[s], s, e)
  BY DEF HoldSeats
<1>5. seats' = MarkedHeld(S, b, e) /\ now' = now
  BY DEF HoldSeats
<1> HIDE DEF e
<1>6. ASSUME NEW s \in S PROVE Ownership!Open(s, b, e)
  <2>0. s \in Seats /\ now \in Nat
    BY <1>1, <1>3 DEF TypeOK
  <2>1. seats[s] = [state |-> seats[s].state, booking |-> seats[s].booking,
                    expires |-> seats[s].expires]
        /\ seats[s].expires \in Nat \cup {NULL}
    BY <1>1, <2>0 DEF TypeOK
  <2>2. CASE Free(s)
    <3>1. SeatAgrees(s) /\ seats[s].state = "AVAILABLE"
      BY <1>1, <2>0, <2>2 DEF InventoryAgrees, Free
    <3>2. seats[s] = FreeSeat
      BY <3>1 DEF SeatAgrees
    <3> QED
      BY <3>2 DEF Ownership!Open, Ownership!Free
  <2>3. CASE Reclaimable(s)
    <3>1. seats[s].state = "HELD" /\ seats[s].expires <= now
      BY <2>0, <2>1, <2>3 DEF Reclaimable, Live
    <3> QED
      BY <3>1 DEF Ownership!Open
  <2>4. CASE AlreadyHeld(b, f, sel[s], s, e)
    <3>1. seats[s] = [state |-> "HELD", booking |-> b, expires |-> e]
      BY <2>1, <2>4 DEF AlreadyHeld
    <3> QED
      BY <3>1 DEF Ownership!Open, Ownership!Held
  <2> QED
    BY <1>4, <2>2, <2>3, <2>4
<1>7. Ownership!Hold(b, S, e)
  BY <1>2, <1>5, <1>6 DEF Ownership!Hold, Ownership!Held, MarkedHeld
<1>8. CASE S = {}
  <2>1. seats' = [s \in Seats |-> seats[s]]
    BY <1>5, <1>8 DEF MarkedHeld
  <2>2. seats' = seats
    BY <1>1, <2>1 DEF TypeOK
  <2> QED
    BY <1>5, <2>2 DEF Ownership!vars
<1>9. CASE S # {}
  <2>1. PICK s \in S : TRUE
    BY <1>9
  <2>2. seats'[s].expires = e
    BY <1>3, <1>5, <2>1 DEF MarkedHeld
  <2>3. e \in {seats'[t].expires : t \in S}
    BY <2>1, <2>2
  <2> HIDE DEF S
  <2>4. S \in SUBSET Seats
    BY <1>3
  <2> QED
    BY <1>7, <2>3, <2>4 DEF Ownership!Next
<1> QED
  BY <1>8, <1>9

LEMMA OwnershipStep == Inv /\ [Next]_vars => [Ownership!Next]_(Ownership!vars)
<1> SUFFICES ASSUME Inv, [Next]_vars PROVE [Ownership!Next]_(Ownership!vars)
  OBVIOUS
<1>0. TypeOK
  BY DEF Inv
<1>1. ASSUME NEW B \in SUBSET Bookings, seats' = ReleasedSeats(B), now' = now
      PROVE  Ownership!GiveBack(B)
  BY <1>1 DEF ReleasedSeats, Ownership!GiveBack, Ownership!Mine, Ownership!Free
<1>2. ASSUME NEW b \in Bookings, \/ Release(b, "DRAFT") \/ Release(b, "CANCELLED")
      PROVE  Ownership!GiveBack({b})
  <2>1. {b} \in SUBSET Bookings /\ seats' = ReleasedSeats({b}) /\ now' = now
    BY <1>2 DEF Release
  <2> QED
    BY <1>1, <2>1
<1>3. ASSUME NEW batch \in SUBSET Bookings, ExpireHolds(batch)
      PROVE  Ownership!GiveBack(batch)
  BY <1>1, <1>3 DEF ExpireHolds
<1>4. ASSUME NEW b \in Bookings, ApplyConfirm(b) PROVE Ownership!Buy(b)
  BY <1>4 DEF ApplyConfirm, HoldConsistent, HeldSeats, Ownership!Buy, Ownership!Mine,
              Ownership!Booked
<1>5. ASSUME NEW b \in Bookings, RequestRefund(b) PROVE Ownership!Refund(b)
  BY <1>5 DEF RequestRefund, RefundedSeats, Ownership!Refund, Ownership!Mine, Ownership!Free
<1>6. ASSUME NEW b \in Bookings,
             \/ Create(b) \/ SavePassenger(b) \/ Start(b) \/ ApplyFailed(b) \/ ApplyLate(b)
             \/ DispatchUncertain(b) \/ RefundUncertain(b) \/ RefundDone(b)
      PROVE  UNCHANGED Ownership!vars
  BY <1>6 DEF Create, SavePassenger, Start, ApplyFailed, ApplyLate, DispatchUncertain,
              RefundUncertain, RefundDone, Ownership!vars
<1>7. CASE Tick
  BY <1>7 DEF Tick, Ownership!Next, Ownership!Tick
<1>8. CASE UNCHANGED vars
  BY <1>8 DEF vars, Ownership!vars
<1>9. ASSUME NEW b \in Bookings, Ownership!GiveBack({b}) PROVE Ownership!Next
  <2>1. {b} \in SUBSET Bookings
    OBVIOUS
  <2> QED
    BY <1>9, <2>1 DEF Ownership!Next
<1> QED
  BY <1>2, <1>3, <1>4, <1>5, <1>6, <1>7, <1>8, <1>9, HoldIsHold DEF Next, Ownership!Next

\* For any bookings, flights and seats the transactions implement SeatOwnership: a seat
\* changes hands only by one of its few actions, and never while it is somebody else's.
THEOREM SeatsAreOwned == Spec => SeatsOwned
<1>1. Init => Ownership!Init
  BY DEF Init, Ownership!Init, Ownership!Free, Ownership!Blocked
<1>2. Inv /\ [Next]_vars => [Ownership!Next]_(Ownership!vars)
  BY OwnershipStep
<1> QED
  BY <1>1, <1>2, InvHolds, PTL DEF Spec, SeatsOwned, Ownership!Spec

=============================================================================
