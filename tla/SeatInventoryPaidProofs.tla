----------------------- MODULE SeatInventoryPaidProofs -----------------------
(***************************************************************************)
(* Proofs about SeatInventory, continued: what a payment finds, and what a *)
(* confirmed booking owns, for every set of bookings, flights and seats.   *)
(***************************************************************************)
EXTENDS SeatInventoryProofs, FiniteSetTheorems

USE DEF Time, BookingStatus, SegmentStatus, SeatState, PaymentStatus,
        RefundStatus, Commands, FreeSeat, BlockedSeat, Fresh, HoldWrites,
        PassengersUnseated, ReleaseWrites, ExpireWrites, StartWrites, LateWrites,
        ConfirmWrites, RefundWrites

(***************************************************************************)
(* The inductive invariant, beyond Inv.  That a confirmed booking has all  *)
(* its seats is decided by Start, which counts them, and used by Apply,    *)
(* which does not; in between the invariant carries the count as `every    *)
(* passenger has a row on every flight', which needs no cardinalities.     *)
(***************************************************************************)

\* An active row lies on a flight of its booking's itinerary, gives a seat of that flight
\* to a passenger of the booking, and does not outlast the departure.
RowFits(a) ==
    /\ a.flight \in Itinerary[a.booking]
    /\ SeatFlight[a.seat] = a.flight
    /\ a.passenger \in 1..passengers[a.booking]
    /\ a.status = "HELD" => a.expires <= Departure[a.flight]

RowsFit == \A a \in assignments : RowFits(a)

\* seat_assignments_active_passenger_unique
SamePlace(a, c) == a.booking = c.booking /\ a.flight = c.flight /\ a.passenger = c.passenger

PassengersOnce == \A a, c \in assignments : SamePlace(a, c) => a = c

\* Every passenger of b's party has a seat on every flight of b.
AllSeated(b) == \A f \in Itinerary[b] : \A p \in 1..Party[b] :
    \E a \in assignments : a.booking = b /\ a.flight = f /\ a.passenger = p

\* A booking that is being paid for under a live hold, or is confirmed, has its seats.
MustBeSeated(b) ==
    \/ bookings[b].status = "PAYMENT_PENDING" /\ Live(bookings[b].expires)
    \/ bookings[b].status \in {"CONFIRMED", "TICKETED"}

Seated == \A b \in Bookings : MustBeSeated(b) => AllSeated(b)

\* PaymentMatchesBooking for one booking, and no payment before Start.
Money(b) ==
    /\ bookings[b].status \in {"NONE", "DRAFT", "HELD"} => payments[b] = "NONE"
    /\ payments[b] = "SUCCEEDED" <=> bookings[b].status \in {"CONFIRMED", "TICKETED"}
    /\ payments[b] \in {"REFUND_PENDING", "REFUNDED"} <=> refunds[b] # "NONE"
    /\ payments[b] = "REFUNDED" <=> refunds[b] = "SUCCEEDED"
    /\ refunds[b] # "NONE" => <<"REFUND_REQUESTED", b>> \in outbox
    /\ bookings[b].status = "REFUNDED" => payments[b] = "REFUNDED"

MoneyAgrees == \A b \in Bookings : Money(b)

Claims == RowsFit /\ PassengersOnce /\ Seated

PaidInv == Inv /\ Claims /\ MoneyAgrees

LEMMA PaidInit == Init => PaidInv
<1> SUFFICES ASSUME Init PROVE PaidInv
  OBVIOUS
<1>1. Inv
  BY InvInit
<1>2. Claims
  <2>1. \A b \in Bookings : bookings[b].status = "NONE" /\ passengers[b] = 0
    BY DEF Init
  <2>2. \A b \in Bookings : ~MustBeSeated(b)
    BY <2>1 DEF MustBeSeated
  <2> QED
    BY <2>2 DEF Init, Claims, RowsFit, PassengersOnce, Seated
<1>3. MoneyAgrees
  BY DEF Init, MoneyAgrees, Money
<1> QED
  BY <1>1, <1>2, <1>3 DEF PaidInv

-----------------------------------------------------------------------------
(***************************************************************************)
(* Payments and bookings.                                                  *)
(***************************************************************************)

LEMMA MoneyOthers ==
  ASSUME MoneyAgrees, NEW b \in Bookings, Money(b)',
         \A c \in Bookings \ {b} : /\ bookings'[c] = bookings[c]
                                   /\ payments'[c] = payments[c]
                                   /\ refunds'[c] = refunds[c],
         outbox \subseteq outbox'
  PROVE  MoneyAgrees'
  BY DEF MoneyAgrees, Money

LEMMA MoneyUnchanged ==
  ASSUME MoneyAgrees, bookings' = bookings, payments' = payments, refunds' = refunds,
         outbox' = outbox
  PROVE  MoneyAgrees'
  BY DEF MoneyAgrees, Money

LEMMA MoneyStep ==
  ASSUME TypeOK, MoneyAgrees, [Next]_vars
  PROVE  MoneyAgrees'
<1>1. ASSUME NEW b \in Bookings, Create(b) PROVE MoneyAgrees'
  <2>1. Money(b)'
    BY <1>1 DEF Create, TypeOK, MoneyAgrees, Money
  <2> QED
    BY <1>1, <2>1, MoneyOthers DEF Create, TypeOK
<1>2. ASSUME NEW b \in Bookings, NEW f \in Itinerary[b], NEW sel \in Selections(b, f),
             HoldSeats(b, f, sel)
      PROVE  MoneyAgrees'
  <2>1. bookings' = [bookings EXCEPT ![b] = [status |-> "HELD", expires |-> NewExpiry(b, f)]]
    BY <1>2 DEF HoldSeats
  <2>2. bookings'[b].status = "HELD"
    BY <2>1 DEF TypeOK
  <2>3. bookings[b].status \in {"DRAFT", "HELD"}
    BY <1>2 DEF HoldSeats, Holdable
  <2>4. payments' = payments /\ refunds' = refunds /\ outbox' = outbox
    BY <1>2 DEF HoldSeats
  <2>5. Money(b)'
    BY <2>2, <2>3, <2>4 DEF MoneyAgrees, Money
  <2> QED
    BY <2>1, <2>4, <2>5, MoneyOthers DEF TypeOK
<1>3. ASSUME NEW b \in Bookings, NEW next \in {"DRAFT", "CANCELLED"}, Release(b, next)
      PROVE  MoneyAgrees'
  <2>1. Money(b)'
    BY <1>3 DEF Release, Releasable, TypeOK, MoneyAgrees, Money
  <2> QED
    BY <1>3, <2>1, MoneyOthers DEF Release, TypeOK
<1>4. ASSUME NEW b \in Bookings, Start(b) PROVE MoneyAgrees'
  <2>1. Money(b)'
    BY <1>4 DEF Start, TypeOK, MoneyAgrees, Money
  <2> QED
    BY <1>4, <2>1, MoneyOthers DEF Start, TypeOK
<1>5. ASSUME NEW b \in Bookings, ApplyFailed(b) PROVE MoneyAgrees'
  <2>1. Money(b)'
    BY <1>5 DEF ApplyFailed, Unsettled, TypeOK, MoneyAgrees, Money
  <2> QED
    BY <1>5, <2>1, MoneyOthers DEF ApplyFailed, TypeOK
<1>6. ASSUME NEW b \in Bookings, ApplyLate(b) PROVE MoneyAgrees'
  <2>1. Money(b)'
    BY <1>6 DEF ApplyLate, Unsettled, TypeOK, MoneyAgrees, Money
  <2> QED
    BY <1>6, <2>1, MoneyOthers DEF ApplyLate, TypeOK
<1>7. ASSUME NEW b \in Bookings, ApplyConfirm(b) PROVE MoneyAgrees'
  <2>1. Money(b)'
    BY <1>7 DEF ApplyConfirm, Unsettled, Confirmable, TypeOK, MoneyAgrees, Money
  <2> QED
    BY <1>7, <2>1, MoneyOthers DEF ApplyConfirm, TypeOK
<1>8. ASSUME NEW b \in Bookings, DispatchUncertain(b) PROVE MoneyAgrees'
  <2>1. Money(b)'
    BY <1>8 DEF DispatchUncertain, TypeOK, MoneyAgrees, Money
  <2> QED
    BY <1>8, <2>1, MoneyOthers DEF DispatchUncertain, TypeOK
<1>9. ASSUME NEW b \in Bookings, RequestRefund(b) PROVE MoneyAgrees'
  <2>1. /\ bookings'[b].status = "CANCELLED" /\ payments'[b] = "REFUND_PENDING"
        /\ refunds'[b] = "PENDING" /\ <<"REFUND_REQUESTED", b>> \in outbox'
    BY <1>9 DEF RequestRefund, TypeOK
  <2>2. Money(b)'
    BY <2>1 DEF Money
  <2> QED
    BY <1>9, <2>2, MoneyOthers DEF RequestRefund, TypeOK
<1>10. ASSUME NEW b \in Bookings, RefundUncertain(b) PROVE MoneyAgrees'
  <2>1. Money(b)'
    BY <1>10 DEF RefundUncertain, TypeOK, MoneyAgrees, Money
  <2> QED
    BY <1>10, <2>1, MoneyOthers DEF RefundUncertain, TypeOK
<1>11. ASSUME NEW b \in Bookings, RefundDone(b) PROVE MoneyAgrees'
  <2>1. /\ bookings'[b].status = IF bookings[b].status = "CANCELLED" THEN "REFUNDED"
                                                                   ELSE bookings[b].status
        /\ payments'[b] = "REFUNDED" /\ refunds'[b] = "SUCCEEDED" /\ outbox' = outbox
    BY <1>11 DEF RefundDone, SettledRefund, TypeOK
  <2>2. payments[b] = "REFUND_PENDING" /\ refunds[b] # "NONE" /\ Money(b)
    BY <1>11 DEF RefundDone, MoneyAgrees
  <2>3. Money(b)'
    BY <2>1, <2>2 DEF Money
  <2> QED
    BY <1>11, <2>3, MoneyOthers DEF RefundDone, SettledRefund, TypeOK
<1>12. ASSUME NEW batch \in SUBSET Bookings, ExpireHolds(batch) PROVE MoneyAgrees'
  <2>1. \A c \in Bookings : bookings'[c].status =
                               IF c \in batch THEN "EXPIRED" ELSE bookings[c].status
    BY <1>12 DEF ExpireHolds, TypeOK
  <2>2. \A c \in batch : bookings[c].status \in {"HELD", "PAYMENT_PENDING"}
    BY <1>12 DEF ExpireHolds, Lapsed
  <2>3. payments' = payments /\ refunds' = refunds /\ outbox' = outbox
    BY <1>12 DEF ExpireHolds
  <2> QED
    BY <2>1, <2>2, <2>3 DEF MoneyAgrees, Money
<1>13. ASSUME NEW b \in Bookings, SavePassenger(b) PROVE MoneyAgrees'
  BY <1>13, MoneyUnchanged DEF SavePassenger
<1>14. CASE Tick \/ UNCHANGED vars
  BY <1>14, MoneyUnchanged DEF Tick, vars
<1> QED
  BY <1>1, <1>2, <1>3, <1>4, <1>5, <1>6, <1>7, <1>8, <1>9, <1>10, <1>11, <1>12,
     <1>13, <1>14 DEF Next

-----------------------------------------------------------------------------
(***************************************************************************)
(* The rows, and the seats they give to passengers.                        *)
(***************************************************************************)

\* Rows that disappear, and passengers that join, disturb no other row.
LEMMA RowsShrink ==
  ASSUME TypeOK, RowsFit, PassengersOnce, assignments' \subseteq assignments,
         passengers' = passengers
  PROVE  RowsFit' /\ PassengersOnce'
  BY DEF RowsFit, RowFits, PassengersOnce, SamePlace

LEMMA RowsHeld ==
  ASSUME TypeOK, RowsFit, PassengersOnce, NEW b \in Bookings, NEW f \in Itinerary[b],
         NEW sel \in Selections(b, f), HoldSeats(b, f, sel)
  PROVE  RowsFit' /\ PassengersOnce'
<1> DEFINE e == NewExpiry(b, f)
           row(s) == [booking |-> b, flight |-> f, passenger |-> sel[s], seat |-> s,
                      status |-> "HELD", expires |-> e]
<1>1. PICK fresh \in SUBSET DOMAIN sel :
         /\ HoldLeaves(b, f, sel, fresh, e)
         /\ \A s \in fresh : \A a \in assignments : a.seat \notin fresh =>
               ~(a.booking = b /\ a.flight = f /\ a.passenger = sel[s])
  BY HoldEffect
<1>2. \A a : a \in assignments' <=> \/ a \in assignments /\ a.seat \notin fresh
                                    \/ \E s \in fresh : a = row(s)
  BY <1>1 DEF HoldLeaves
<1>3. \A s \in fresh : SeatFlight[s] = f /\ sel[s] \in 1..passengers[b]
  BY DEF Selections, SeatsFor, PassengersOf
<1>4. \A s, t \in fresh : sel[s] = sel[t] => s = t
  BY DEF Selections
<1>5. e \in Nat /\ e <= Departure[f]
  BY NewExpiryType, ConstantsAssumption DEF HoldSeats
<1>6. passengers' = passengers
  BY DEF HoldSeats
<1> HIDE DEF e
<1>7. ASSUME NEW s \in fresh
      PROVE  /\ row(s).booking = b /\ row(s).flight = f /\ row(s).passenger = sel[s]
             /\ row(s).seat = s /\ row(s).expires = e
  OBVIOUS
<1> HIDE DEF row
<1>8. RowsFit'
  <2> SUFFICES ASSUME NEW a \in assignments' PROVE RowFits(a)'
    BY DEF RowsFit
  <2>1. CASE a \in assignments
    BY <1>6, <2>1 DEF RowsFit, RowFits
  <2>2. ASSUME NEW s \in fresh, a = row(s) PROVE RowFits(a)'
    BY <1>3, <1>5, <1>6, <1>7, <2>2 DEF RowFits
  <2> QED
    BY <1>2, <2>1, <2>2
<1>9. PassengersOnce'
  <2> SUFFICES ASSUME NEW a \in assignments', NEW c \in assignments', SamePlace(a, c)
               PROVE  a = c
    BY DEF PassengersOnce
  <2>1. CASE a \in assignments /\ c \in assignments
    BY <2>1 DEF PassengersOnce
  <2>2. ASSUME NEW s \in fresh, NEW t \in fresh, a = row(s), c = row(t) PROVE a = c
    BY <1>4, <1>7, <2>2 DEF SamePlace
  <2>3. ASSUME NEW s \in fresh, NEW x \in assignments, x.seat \notin fresh
        PROVE  ~SamePlace(row(s), x) /\ ~SamePlace(x, row(s))
    BY <1>1, <1>7, <2>3 DEF SamePlace
  <2> QED
    BY <1>2, <2>1, <2>2, <2>3
<1> QED
  BY <1>8, <1>9

\* What ApplyConfirm leaves behind, with the set comprehension unfolded.
LEMMA ConfirmEffect ==
  ASSUME TypeOK, NEW b \in Bookings, ApplyConfirm(b)
  PROVE  /\ \A a : a \in assignments' <=>
               \/ a \in assignments /\ ~(a.booking = b /\ a.status = "HELD")
               \/ \E c \in assignments : /\ c.booking = b /\ c.status = "HELD"
                                         /\ a = ConfirmedRow(c)
         /\ \A c \in assignments :
               /\ SamePlace(ConfirmedRow(c), c) /\ ConfirmedRow(c).seat = c.seat
               /\ ConfirmedRow(c).status = "CONFIRMED"
<1>1. \A a : a \in assignments' <=>
               \/ a \in assignments /\ ~(a.booking = b /\ a.status = "HELD")
               \/ \E c \in assignments : /\ c.booking = b /\ c.status = "HELD"
                                         /\ a = ConfirmedRow(c)
  BY DEF ApplyConfirm, ConfirmedAssignments, HeldBy
<1>2. \A c \in assignments : c \in Assignment
  BY DEF TypeOK
<1>3. \A c \in Assignment : /\ SamePlace(ConfirmedRow(c), c) /\ ConfirmedRow(c).seat = c.seat
                            /\ ConfirmedRow(c).status = "CONFIRMED"
  BY DEF ConfirmedRow, Assignment, SamePlace
<1> QED
  BY <1>1, <1>2, <1>3

LEMMA RowsConfirmed ==
  ASSUME TypeOK, RowsFit, PassengersOnce, NEW b \in Bookings, ApplyConfirm(b)
  PROVE  RowsFit' /\ PassengersOnce'
<1>1. \A a \in assignments' :
         \/ a \in assignments /\ ~(a.booking = b /\ a.status = "HELD")
         \/ \E c \in assignments : /\ c.booking = b /\ c.status = "HELD"
                                   /\ a = ConfirmedRow(c)
  BY ConfirmEffect
<1>2. \A c \in assignments :
         /\ SamePlace(ConfirmedRow(c), c) /\ ConfirmedRow(c).seat = c.seat
         /\ ConfirmedRow(c).status = "CONFIRMED"
  BY ConfirmEffect
<1>3. passengers' = passengers
  BY DEF ApplyConfirm
<1>4. RowsFit'
  BY <1>1, <1>2, <1>3 DEF RowsFit, RowFits, SamePlace
<1>5. PassengersOnce'
  BY <1>1, <1>2 DEF PassengersOnce, SamePlace
<1> QED
  BY <1>4, <1>5

-----------------------------------------------------------------------------
\* A booking that had its seats and whose rows keep their places still has its seats.
LEMMA PlacesKept ==
  ASSUME NEW b \in Bookings, AllSeated(b),
         \A a \in assignments : a.booking = b => \E c \in assignments' : SamePlace(c, a)
  PROVE  AllSeated(b)'
  BY DEF AllSeated, SamePlace

\* A booking whose row, and whose own hold, has not lapsed, or that is confirmed, loses
\* no seat to another booking's HoldSeats, which takes lapsed seats only.
LEMMA NotReclaimed ==
  ASSUME Inv, NEW b \in Bookings, NEW a \in assignments, a.booking = b, MustBeSeated(b)
  PROVE  ~Free(a.seat) /\ ~Reclaimable(a.seat)
<1>1. a \in Assignment /\ RowAgrees(a) /\ now \in Nat
  BY DEF Inv, TypeOK, Inventory, RowsAgree
<1>2. a \in ActiveOn(a.seat)
  BY DEF ActiveOn
<1>3. CASE a.status = "HELD"
  <2>1. /\ bookings[b].status \in {"HELD", "PAYMENT_PENDING"}
        /\ bookings[b].expires <= a.expires
    BY <1>3 DEF Inv, NoStrandedSeat
  <2>2. bookings[b].expires \in Nat
    BY <2>1 DEF Inv, HoldsTimed
  <2>3. bookings[b].expires > now
    BY <2>1 DEF MustBeSeated, Live
  <2>4. a.expires \in Nat /\ seats[a.seat].expires = a.expires
    BY <1>1, <1>3 DEF RowAgrees
  <2>5. a.expires > now
    BY <1>1, <2>1, <2>2, <2>3, <2>4
  <2>6. Live(seats[a.seat].expires)
    BY <2>4, <2>5, ConstantsAssumption DEF Live
  <2> QED
    BY <1>2, <2>6 DEF Free, Reclaimable
<1>4. CASE a.status = "CONFIRMED"
  <2>1. seats[a.seat].state = "BOOKED"
    BY <1>1, <1>4 DEF RowAgrees
  <2> QED
    BY <2>1 DEF Free, Reclaimable
<1> QED
  BY <1>1, <1>3, <1>4 DEF Assignment

\* The passengers are numbered from 1.
LEMMA Counting ==
  ASSUME NEW n \in Nat
  PROVE  IsFiniteSet(1..n) /\ Cardinality(1..n) = n
  BY FS_Interval

\* Start counts the seats: with one row for a passenger, as many live rows as passengers
\* means that every passenger has one.
LEMMA CompleteIsSeated ==
  ASSUME TypeOK, RowsFit, PassengersOnce, NEW b \in Bookings, Complete(b)
  PROVE  AllSeated(b)
<1> SUFFICES ASSUME NEW f \in Itinerary[b], NEW p \in 1..Party[b]
             PROVE  \E a \in assignments : a.booking = b /\ a.flight = f /\ a.passenger = p
  BY DEF AllSeated
<1> DEFINE M == {a \in HeldBy(b) : a.flight = f /\ Live(a.expires)}
           T == 1..Party[b]
           g == [a \in M |-> a.passenger]
<1>1. Party[b] \in Nat /\ Party[b] = passengers[b] /\ Cardinality(M) = Party[b]
  <2>1. Party[b] \in 1..9
    BY ConstantsAssumption
  <2> QED
    BY <2>1 DEF Complete
<1>2. IsFiniteSet(T) /\ Cardinality(T) = Party[b]
  BY <1>1, Counting
<1>3. \A a \in M : a \in assignments /\ a.booking = b /\ a.flight = f
  BY DEF HeldBy
<1>4. g \in Injection(M, T)
  <2>1. \A a \in M : a.passenger \in T
    BY <1>1, <1>3 DEF RowsFit, RowFits
  <2>2. \A a, c \in M : a.passenger = c.passenger => a = c
    BY <1>3 DEF PassengersOnce, SamePlace
  <2> QED
    BY <2>1, <2>2 DEF Injection, IsInjective
<1>5. g \in Surjection(M, T)
  <2> HIDE DEF M, T, g
  <2> QED
    BY <1>1, <1>2, <1>4, FS_Injection
<1>6. PICK a \in M : g[a] = p
  BY <1>5 DEF Surjection
<1> QED
  BY <1>3, <1>6

LEMMA SeatedHeld ==
  ASSUME Inv, Seated, NEW b \in Bookings, NEW f \in Itinerary[b],
         NEW sel \in Selections(b, f), HoldSeats(b, f, sel)
  PROVE  Seated'
<1>1. PICK fresh \in SUBSET DOMAIN sel :
         /\ \A s \in fresh : Free(s) \/ Reclaimable(s)
         /\ HoldLeaves(b, f, sel, fresh, NewExpiry(b, f))
  BY HoldEffect DEF Inv
<1>2. \A a \in assignments : a.seat \notin fresh => a \in assignments'
  BY <1>1 DEF HoldLeaves
<1>3. bookings' = [bookings EXCEPT ![b] = [status |-> "HELD", expires |-> NewExpiry(b, f)]]
      /\ now' = now
  BY DEF HoldSeats
<1>4. bookings'[b].status = "HELD" /\ \A c \in Bookings \ {b} : bookings'[c] = bookings[c]
  BY <1>3 DEF Inv, TypeOK
<1>5. ASSUME NEW c \in Bookings, MustBeSeated(c)' PROVE AllSeated(c)'
  <2>1. c # b /\ MustBeSeated(c)
    BY <1>3, <1>4, <1>5 DEF MustBeSeated, Live
  <2>2. \A a \in assignments : a.booking = c => a \in assignments'
    BY <1>1, <1>2, <2>1, NotReclaimed
  <2>3. AllSeated(c)
    BY <2>1 DEF Seated
  <2> QED
    BY <2>2, <2>3 DEF AllSeated
<1> QED
  BY <1>5 DEF Seated

LEMMA SeatedStep ==
  ASSUME Inv, RowsFit, PassengersOnce, Seated, [Next]_vars
  PROVE  Seated'
<1>0. TypeOK
  BY DEF Inv
<1>1. ASSUME \A c \in Bookings : MustBeSeated(c)' => MustBeSeated(c),
             \A a \in assignments : a.booking \in Bookings /\ MustBeSeated(a.booking)' =>
                 \E c \in assignments' : SamePlace(c, a)
      PROVE  Seated'
  <2> SUFFICES ASSUME NEW b \in Bookings, MustBeSeated(b)' PROVE AllSeated(b)'
    BY DEF Seated
  <2>1. AllSeated(b)
    BY <1>1 DEF Seated
  <2> QED
    BY <1>1, <2>1, PlacesKept
<1>2. ASSUME assignments' = assignments,
             \A c \in Bookings : MustBeSeated(c)' => MustBeSeated(c)
      PROVE  Seated'
  BY <1>1, <1>2 DEF SamePlace
<1>3. ASSUME NEW b \in Bookings, Create(b) PROVE Seated'
  <2>1. \A c \in Bookings : MustBeSeated(c)' => MustBeSeated(c)
    BY <1>0, <1>3 DEF Create, TypeOK, MustBeSeated, Live
  <2> QED
    BY <1>2, <1>3, <2>1 DEF Create
<1>4. ASSUME NEW b \in Bookings, NEW f \in Itinerary[b], NEW sel \in Selections(b, f),
             HoldSeats(b, f, sel)
      PROVE  Seated'
  BY <1>4, SeatedHeld
<1>5. ASSUME NEW b \in Bookings, NEW next \in {"DRAFT", "CANCELLED"}, Release(b, next)
      PROVE  Seated'
  <2>1. /\ bookings'[b].status = next
        /\ \A c \in Bookings \ {b} : bookings'[c] = bookings[c]
        /\ now' = now
    BY <1>0, <1>5 DEF Release, TypeOK
  <2>2. \A c \in Bookings : MustBeSeated(c)' => c # b /\ MustBeSeated(c)
    BY <2>1 DEF MustBeSeated, Live
  <2>3. \A a \in assignments : a.booking # b => a \in assignments'
    BY <1>5 DEF Release, ReleasedAssignments
  <2> QED
    BY <1>1, <2>2, <2>3 DEF SamePlace
<1>6. ASSUME NEW b \in Bookings, Start(b) PROVE Seated'
  <2>1. Complete(b) /\ assignments' = assignments /\ now' = now
        /\ \A c \in Bookings \ {b} : bookings'[c] = bookings[c]
    BY <1>0, <1>6 DEF Start, TypeOK
  <2>2. AllSeated(b)
    BY <1>0, <2>1, CompleteIsSeated
  <2>3. \A c \in Bookings : MustBeSeated(c)' => AllSeated(c)
    BY <2>1, <2>2 DEF MustBeSeated, Live, Seated
  <2> QED
    BY <2>1, <2>3 DEF Seated, AllSeated
<1>7. ASSUME NEW b \in Bookings, ApplyConfirm(b) PROVE Seated'
  <2>1. /\ \A c \in Bookings \ {b} : bookings'[c] = bookings[c]
        /\ now' = now /\ MustBeSeated(b)
    BY <1>0, <1>7 DEF ApplyConfirm, Confirmable, TypeOK, MustBeSeated
  <2>2. \A c \in Bookings : MustBeSeated(c)' => MustBeSeated(c)
    BY <2>1 DEF MustBeSeated, Live
  <2>3. \A a \in assignments : \E c \in assignments' : SamePlace(c, a)
    <3>1. \A a \in assignments : SamePlace(a, a)
      BY DEF SamePlace
    <3> QED
      BY <1>0, <1>7, <3>1, ConfirmEffect
  <2> QED
    BY <1>1, <2>2, <2>3
<1>8. ASSUME NEW b \in Bookings, RequestRefund(b) PROVE Seated'
  <2>1. /\ bookings'[b].status = "CANCELLED" /\ now' = now
        /\ \A c \in Bookings \ {b} : bookings'[c] = bookings[c]
    BY <1>0, <1>8 DEF RequestRefund, TypeOK
  <2>2. \A c \in Bookings : MustBeSeated(c)' => c # b /\ MustBeSeated(c)
    BY <2>1 DEF MustBeSeated, Live
  <2>3. \A a \in assignments : a.booking # b => a \in assignments'
    BY <1>8 DEF RequestRefund
  <2> QED
    BY <1>1, <2>2, <2>3 DEF SamePlace
<1>9. ASSUME NEW b \in Bookings, RefundDone(b) PROVE Seated'
  <2>1. /\ bookings' = [bookings EXCEPT ![b].status =
              IF bookings[b].status = "CANCELLED" THEN "REFUNDED" ELSE bookings[b].status]
        /\ now' = now /\ assignments' = assignments
    BY <1>9 DEF RefundDone
  <2>2. \A c \in Bookings : MustBeSeated(c)' => MustBeSeated(c)
    BY <1>0, <2>1 DEF TypeOK, MustBeSeated, Live
  <2> QED
    BY <1>2, <2>1, <2>2
<1>10. ASSUME NEW batch \in SUBSET Bookings, ExpireHolds(batch) PROVE Seated'
  <2>1. /\ \A c \in batch : bookings'[c].status = "EXPIRED"
        /\ \A c \in Bookings \ batch : bookings'[c] = bookings[c]
        /\ now' = now
    BY <1>0, <1>10 DEF ExpireHolds, TypeOK
  <2>2. \A c \in Bookings : MustBeSeated(c)' => c \notin batch /\ MustBeSeated(c)
    BY <2>1 DEF MustBeSeated, Live
  <2>3. \A a \in assignments : a.booking \notin batch => a \in assignments'
    BY <1>10 DEF ExpireHolds, ReleasedAssignments
  <2> QED
    BY <1>1, <2>2, <2>3 DEF SamePlace
<1>11. ASSUME bookings' = bookings, assignments' = assignments, now' = now
       PROVE  Seated'
  BY <1>2, <1>11 DEF MustBeSeated, Live
<1>12. ASSUME NEW b \in Bookings,
              \/ SavePassenger(b) \/ ApplyFailed(b) \/ ApplyLate(b)
              \/ DispatchUncertain(b) \/ RefundUncertain(b)
       PROVE  Seated'
  BY <1>11, <1>12 DEF SavePassenger, ApplyFailed, ApplyLate, DispatchUncertain, RefundUncertain
<1>13. CASE Tick
  <2>1. now \in Nat /\ now' = now + 1 /\ bookings' = bookings /\ assignments' = assignments
    BY <1>0, <1>13 DEF Tick, TypeOK
  <2>2. ASSUME NEW c \in Bookings, MustBeSeated(c)' PROVE MustBeSeated(c)
    <3>1. CASE bookings[c].status = "PAYMENT_PENDING"
      <4>1. bookings[c].expires \in Nat
        BY <3>1 DEF Inv, HoldsTimed
      <4>2. bookings[c].expires # NULL /\ bookings[c].expires > now + 1
        BY <2>1, <2>2, <3>1 DEF MustBeSeated, Live
      <4>3. bookings[c].expires > now
        BY <2>1, <4>1, <4>2
      <4> QED
        BY <3>1, <4>2, <4>3 DEF MustBeSeated, Live
    <3>2. CASE bookings[c].status # "PAYMENT_PENDING"
      BY <2>1, <2>2, <3>2 DEF MustBeSeated
    <3> QED
      BY <3>1, <3>2
  <2> QED
    BY <1>2, <2>1, <2>2
<1>14. CASE UNCHANGED vars
  BY <1>11, <1>14 DEF vars
<1> QED
  BY <1>3, <1>4, <1>5, <1>6, <1>7, <1>8, <1>9, <1>10, <1>12, <1>13, <1>14 DEF Next

-----------------------------------------------------------------------------
LEMMA RowsStep ==
  ASSUME TypeOK, RowsFit, PassengersOnce, [Next]_vars
  PROVE  RowsFit' /\ PassengersOnce'
<1>1. ASSUME NEW b \in Bookings, SavePassenger(b) PROVE RowsFit' /\ PassengersOnce'
  <2>1. passengers' = [passengers EXCEPT ![b] = passengers[b] + 1] /\ assignments' = assignments
    BY <1>1 DEF SavePassenger
  <2>2. \A c \in Bookings : passengers[c] \in Nat /\ passengers'[c] \in Nat
                            /\ passengers[c] <= passengers'[c]
    BY <2>1 DEF TypeOK
  <2>3. \A a \in assignments : a.booking \in Bookings
    BY DEF TypeOK, Assignment
  <2>4. \A a \in assignments : a.passenger \in 1..passengers'[a.booking]
    BY <2>2, <2>3 DEF RowsFit, RowFits
  <2>5. RowsFit'
    BY <2>1, <2>4 DEF RowsFit, RowFits
  <2> QED
    BY <2>1, <2>5 DEF PassengersOnce
<1>2. ASSUME NEW b \in Bookings, NEW f \in Itinerary[b], NEW sel \in Selections(b, f),
             HoldSeats(b, f, sel)
      PROVE  RowsFit' /\ PassengersOnce'
  BY <1>2, RowsHeld
<1>3. ASSUME NEW b \in Bookings, ApplyConfirm(b) PROVE RowsFit' /\ PassengersOnce'
  BY <1>3, RowsConfirmed
<1>4. ASSUME NEW b \in Bookings,
             \/ Release(b, "DRAFT") \/ Release(b, "CANCELLED") \/ RequestRefund(b)
      PROVE  RowsFit' /\ PassengersOnce'
  <2>1. assignments' \subseteq assignments /\ passengers' = passengers
    BY <1>4 DEF Release, ReleasedAssignments, RequestRefund
  <2> QED
    BY <2>1, RowsShrink
<1>5. ASSUME NEW batch \in SUBSET Bookings, ExpireHolds(batch)
      PROVE  RowsFit' /\ PassengersOnce'
  <2>1. assignments' \subseteq assignments /\ passengers' = passengers
    BY <1>5 DEF ExpireHolds, ReleasedAssignments
  <2> QED
    BY <2>1, RowsShrink
<1>6. ASSUME assignments' = assignments, passengers' = passengers
      PROVE  RowsFit' /\ PassengersOnce'
  BY <1>6, RowsShrink
<1>7. ASSUME NEW b \in Bookings,
             \/ Create(b) \/ Start(b) \/ ApplyFailed(b) \/ ApplyLate(b)
             \/ DispatchUncertain(b) \/ RefundUncertain(b) \/ RefundDone(b)
      PROVE  RowsFit' /\ PassengersOnce'
  BY <1>6, <1>7 DEF Create, Start, ApplyFailed, ApplyLate, DispatchUncertain,
                    RefundUncertain, RefundDone
<1>8. CASE Tick \/ UNCHANGED vars
  BY <1>6, <1>8 DEF Tick, vars
<1> QED
  BY <1>1, <1>2, <1>3, <1>4, <1>5, <1>7, <1>8 DEF Next

LEMMA PaidStep == PaidInv /\ [Next]_vars => PaidInv'
<1> SUFFICES ASSUME PaidInv, [Next]_vars PROVE PaidInv'
  OBVIOUS
<1>1. Inv /\ TypeOK /\ RowsFit /\ PassengersOnce /\ Seated /\ MoneyAgrees
  BY DEF PaidInv, Claims, Inv
<1>2. Inv'
  BY <1>1, InvStep
<1>3. RowsFit' /\ PassengersOnce'
  BY <1>1, RowsStep
<1>4. Seated'
  BY <1>1, SeatedStep
<1>5. MoneyAgrees'
  BY <1>1, MoneyStep
<1> QED
  BY <1>2, <1>3, <1>4, <1>5 DEF PaidInv, Claims

LEMMA PaidInvHolds == Spec => []PaidInv
  BY PaidInit, PaidStep, PTL DEF Spec

-----------------------------------------------------------------------------
(***************************************************************************)
(* What follows from it.                                                   *)
(***************************************************************************)

\* For every instance: a payment, its refund, the refund's command and the booking agree
\* whatever order provider results, expirations and refunds come in.
THEOREM PaymentsMatchBookings == Spec => []PaymentMatchesBooking
<1>1. PaidInv => PaymentMatchesBooking
  BY DEF PaidInv, MoneyAgrees, Money, PaymentMatchesBooking
<1> QED
  BY <1>1, PaidInvHolds, PTL

LEMMA PaidHoldsEnd == PaidInv => HoldWithinDeparture
<1>1. ASSUME PaidInv PROVE HoldWithinDeparture
  <2> SUFFICES ASSUME NEW a \in assignments, a.status = "HELD"
               PROVE  /\ a.expires <= Departure[a.flight]
                      /\ bookings[a.booking].expires <= Departure[a.flight]
    BY DEF HoldWithinDeparture
  <2>1. a.expires \in Nat /\ a.expires <= Departure[a.flight]
    BY <1>1 DEF PaidInv, Inv, Inventory, RowsAgree, RowAgrees, Claims, RowsFit, RowFits
  <2>2. /\ bookings[a.booking].status \in {"HELD", "PAYMENT_PENDING"}
        /\ bookings[a.booking].expires <= a.expires /\ a \in Assignment
    BY <1>1 DEF PaidInv, Inv, NoStrandedSeat, TypeOK
  <2>3. a.booking \in Bookings /\ a.flight \in Flights
    BY <2>2 DEF Assignment
  <2>4. bookings[a.booking].expires \in Nat /\ Departure[a.flight] \in Nat
    BY <1>1, <2>2, <2>3, ConstantsAssumption DEF PaidInv, Inv, HoldsTimed
  <2> QED
    BY <2>1, <2>2, <2>4
<1> QED
  BY <1>1

\* A hold never outlasts the departure of a flight it has seats on, the booking's own
\* expiry included, whatever order the segments are held in.
THEOREM HoldsEndByDeparture == Spec => []HoldWithinDeparture
  BY PaidHoldsEnd, PaidInvHolds, PTL

\* What the seat map shows as AVAILABLE is exactly what nobody has a live or booked claim
\* on: the two tables it joins never leave a lapsed hold half shown.
THEOREM SeatMapIsTruthful == Spec => []SeatMapTruthful
<1>1. ASSUME TypeOK, InventoryAgrees PROVE SeatMapTruthful
  <2> SUFFICES ASSUME NEW s \in Seats, SeatFlight[s] \in Bookable,
                      Departure[SeatFlight[s]] > now
               PROVE  SeatMapAvailable(s) <=>
                        /\ seats[s].state # "BLOCKED"
                        /\ \A a \in ActiveOn(s) : a.status = "HELD" /\ ~Live(a.expires)
    BY DEF SeatMapTruthful
  <2>1. SeatAgrees(s)
    BY <1>1 DEF InventoryAgrees
  <2>2. CASE seats[s] \in {FreeSeat, BlockedSeat} /\ ActiveOn(s) = {}
    BY <2>2 DEF SeatMapAvailable
  <2>3. ASSUME seats[s].state = "HELD", NEW a \in ActiveOn(s), ActiveOn(s) = {a},
               Matches(a, s)
        PROVE  SeatMapAvailable(s) <=>
                        /\ seats[s].state # "BLOCKED"
                        /\ \A c \in ActiveOn(s) : c.status = "HELD" /\ ~Live(c.expires)
    BY <2>3 DEF SeatMapAvailable, Matches
  <2>4. ASSUME seats[s].state = "BOOKED", NEW a \in ActiveOn(s), ActiveOn(s) = {a},
               a.status = "CONFIRMED"
        PROVE  SeatMapAvailable(s) <=>
                        /\ seats[s].state # "BLOCKED"
                        /\ \A c \in ActiveOn(s) : c.status = "HELD" /\ ~Live(c.expires)
    BY <2>4 DEF SeatMapAvailable
  <2> QED
    BY <2>1, <2>2, <2>3, <2>4 DEF SeatAgrees
<1> QED
  BY <1>1, TypeCorrect, InventoryIsConsistent, PTL

LEMMA PaidIsSeated == PaidInv => ConfirmedIsSeated
<1>1. ASSUME PaidInv PROVE ConfirmedIsSeated
  <2> SUFFICES ASSUME NEW b \in Bookings, bookings[b].status \in {"CONFIRMED", "TICKETED"},
                      NEW f \in Itinerary[b]
               PROVE  LET mine == {a \in assignments : a.booking = b /\ a.flight = f}
                      IN  /\ {a.passenger : a \in mine} = 1..Party[b]
                          /\ Cardinality(mine) = Party[b]
                          /\ \A a \in mine : /\ SeatFlight[a.seat] = f
                                             /\ seats[a.seat].state = "BOOKED"
                                             /\ seats[a.seat].booking = b
    BY DEF ConfirmedIsSeated
  <2> DEFINE mine == {a \in assignments : a.booking = b /\ a.flight = f}
             T == 1..Party[b]
             g == [a \in mine |-> a.passenger]
  <2>1. Party[b] \in Nat /\ passengers[b] \in Nat /\ passengers[b] <= Party[b]
    <3>1. Party[b] \in 1..9
      BY ConstantsAssumption
    <3>2. passengers[b] \in 0..9
      BY <1>1 DEF PaidInv, Inv, TypeOK
    <3> QED
      BY <1>1, <3>1, <3>2 DEF PaidInv, Inv, TypeOK, PartyBound
  <2>2. AllSeated(b)
    BY <1>1 DEF PaidInv, Claims, Seated, MustBeSeated
  <2>3. \A a \in mine : a.passenger \in T
    <3> SUFFICES ASSUME NEW a \in mine PROVE a.passenger \in T
      OBVIOUS
    <3>1. a.passenger \in 1..passengers[b]
      BY <1>1 DEF PaidInv, Claims, RowsFit, RowFits
    <3> QED
      BY <2>1, <3>1
  <2>4. \A p \in T : \E a \in mine : a.passenger = p
    BY <2>2 DEF AllSeated
  <2>5. {a.passenger : a \in mine} = T
    BY <2>3, <2>4
  <2>6. Cardinality(mine) = Party[b]
    <3>1. IsFiniteSet(T) /\ Cardinality(T) = Party[b]
      BY <2>1, Counting
    <3>2. g \in Injection(mine, T)
      <4>1. \A a, c \in mine : a.passenger = c.passenger => a = c
        BY <1>1 DEF PaidInv, Claims, PassengersOnce, SamePlace
      <4> QED
        BY <2>3, <4>1 DEF Injection, IsInjective
    <3>3. g \in Surjection(mine, T)
      BY <2>3, <2>4 DEF Surjection
    <3> HIDE DEF mine, T, g
    <3> QED
      BY <3>1, <3>2, <3>3, FS_Injection
  <2>7. ASSUME NEW a \in mine
        PROVE  SeatFlight[a.seat] = f /\ seats[a.seat].state = "BOOKED"
               /\ seats[a.seat].booking = b
    <3>1. SeatFlight[a.seat] = f /\ RowAgrees(a)
      BY <1>1 DEF PaidInv, Claims, RowsFit, RowFits, Inv, Inventory, RowsAgree
    <3>2. a.status # "HELD"
      BY <1>1 DEF PaidInv, Inv, NoStrandedSeat
    <3> QED
      BY <3>1, <3>2 DEF RowAgrees
  <2> QED
    BY <2>5, <2>6, <2>7
<1> QED
  BY <1>1

\* The count of Start still holds when Apply confirms and for as long as the booking is
\* confirmed: every passenger owns one booked seat on every flight of the itinerary.
THEOREM ConfirmedBookingsAreSeated == Spec => []ConfirmedIsSeated
  BY PaidIsSeated, PaidInvHolds, PTL

LEMMA StepsConfirmInTime == []PaidInv /\ [][Next]_vars => ConfirmedBeforeDeparture
<1> DEFINE InTime == \A b \in Bookings :
              bookings[b].status = "PAYMENT_PENDING" /\ bookings'[b].status = "CONFIRMED"
                  => \A f \in Itinerary[b] : now < Departure[f]
<1>1. ASSUME PaidInv, HoldWithinDeparture, [Next]_vars PROVE [InTime]_vars
  <2>0. TypeOK
    BY <1>1 DEF PaidInv, Inv
  <2> SUFFICES ASSUME NEW c \in Bookings, bookings[c].status = "PAYMENT_PENDING",
                      bookings'[c].status = "CONFIRMED", NEW f \in Itinerary[c]
               PROVE  now < Departure[f]
    OBVIOUS
  <2>1. ASSUME NEW b \in Bookings, ApplyConfirm(b) PROVE now < Departure[f]
    <3>1. b = c
      <4>1. b # c => bookings'[c] = bookings[c]
        BY <2>0, <2>1 DEF ApplyConfirm, TypeOK
      <4> QED
        BY <4>1
    <3>2. Live(bookings[c].expires)
      BY <2>1, <3>1 DEF ApplyConfirm, Confirmable
    <3>3. AllSeated(c)
      BY <1>1, <3>2 DEF PaidInv, Claims, Seated, MustBeSeated
    <3>4. 1 \in 1..Party[c]
      BY ConstantsAssumption
    <3>5. PICK a \in assignments : a.booking = c /\ a.flight = f
      BY <3>3, <3>4 DEF AllSeated
    <3>6. a.status = "HELD"
      BY <1>1, <3>5 DEF PaidInv, Inv, NoStrandedSeat
    <3>7. bookings[c].expires <= Departure[f]
      BY <1>1, <3>5, <3>6 DEF HoldWithinDeparture
    <3>8. bookings[c].expires \in Nat /\ Departure[f] \in Nat /\ now \in Nat
      BY <1>1, <2>0, ConstantsAssumption DEF PaidInv, Inv, HoldsTimed, TypeOK
    <3> QED
      BY <3>2, <3>7, <3>8 DEF Live
  <2>2. ASSUME NEW b \in Bookings, NEW st \in BookingStatus \ {"CONFIRMED"},
               bookings'[b].status = st,
               \A d \in Bookings \ {b} : bookings'[d] = bookings[d]
        PROVE  FALSE
    BY <2>2
  <2>3. ASSUME NEW b \in Bookings,
               \/ Create(b) \/ Start(b) \/ RequestRefund(b)
               \/ Release(b, "DRAFT") \/ Release(b, "CANCELLED")
        PROVE  FALSE
    <3>1. /\ bookings'[b].status \in {"DRAFT", "CANCELLED", "PAYMENT_PENDING"}
          /\ \A d \in Bookings \ {b} : bookings'[d] = bookings[d]
      BY <2>0, <2>3 DEF Create, Start, RequestRefund, Release, TypeOK
    <3> QED
      BY <2>2, <3>1
  <2>4. ASSUME NEW b \in Bookings, NEW g \in Itinerary[b], NEW sel \in Selections(b, g),
               HoldSeats(b, g, sel)
        PROVE  FALSE
    <3>1. bookings' = [bookings EXCEPT ![b] = [status |-> "HELD",
                                               expires |-> NewExpiry(b, g)]]
      BY <2>4 DEF HoldSeats
    <3> QED
      BY <2>0, <3>1 DEF TypeOK
  <2>5. ASSUME NEW b \in Bookings, RefundDone(b) PROVE FALSE
    <3>1. bookings' = [bookings EXCEPT ![b].status =
            IF bookings[b].status = "CANCELLED" THEN "REFUNDED" ELSE bookings[b].status]
      BY <2>5 DEF RefundDone
    <3> QED
      BY <2>0, <3>1 DEF TypeOK
  <2>6. ASSUME NEW batch \in SUBSET Bookings, ExpireHolds(batch) PROVE FALSE
    BY <2>0, <2>6 DEF ExpireHolds, TypeOK
  <2>7. bookings' # bookings
    OBVIOUS
  <2> QED
    BY <1>1, <2>1, <2>3, <2>4, <2>5, <2>6, <2>7
       DEF Next, SavePassenger, ApplyFailed, ApplyLate, DispatchUncertain,
           RefundUncertain, Tick, vars
<1> QED
  BY <1>1, PaidHoldsEnd, PTL DEF ConfirmedBeforeDeparture

\* Apply looks at no departure time, and yet confirms no booking whose flight has left:
\* the seats that Start demanded on every flight cap the booking's expiry.
THEOREM ConfirmedBeforeDepartures == Spec => ConfirmedBeforeDeparture
  BY StepsConfirmInTime, PaidInvHolds, PTL DEF Spec

-----------------------------------------------------------------------------
(***************************************************************************)
(* What no transaction does.                                               *)
(***************************************************************************)

LEMMA StepsAreAllowed == []TypeOK /\ [][Next]_vars => TransitionsAllowed
<1> DEFINE Allowed(c) == bookings[c].status # bookings'[c].status /\ bookings[c].status # "NONE"
                            => <<bookings[c].status, bookings'[c].status>> \in CanTransition
           Body == \A b \in Bookings :
                      bookings[b].status # bookings'[b].status /\ bookings[b].status # "NONE"
                         => <<bookings[b].status, bookings'[b].status>> \in CanTransition
<1>1. ASSUME TypeOK, [Next]_vars PROVE [Body]_vars
  <2> SUFFICES ASSUME NEW c \in Bookings PROVE Allowed(c)
    OBVIOUS
  <2>1. ASSUME NEW b \in Bookings,
               \/ Create(b) \/ Start(b) \/ RequestRefund(b)
               \/ Release(b, "DRAFT") \/ Release(b, "CANCELLED")
        PROVE  Allowed(c)
    <3>1. /\ \/ bookings[b].status = "NONE"
             \/ bookings[b].status = "HELD" /\ bookings'[b].status = "PAYMENT_PENDING"
             \/ bookings[b].status \in {"CONFIRMED", "TICKETED"}
                /\ bookings'[b].status = "CANCELLED"
             \/ bookings[b].status \in {"DRAFT", "HELD"}
                /\ bookings'[b].status \in {"DRAFT", "CANCELLED"}
          /\ \A d \in Bookings \ {b} : bookings'[d] = bookings[d]
      BY <1>1, <2>1 DEF Create, Start, RequestRefund, Release, Releasable, TypeOK
    <3> QED
      BY <3>1 DEF CanTransition
  <2>2. ASSUME NEW b \in Bookings, NEW g \in Itinerary[b], NEW sel \in Selections(b, g),
               HoldSeats(b, g, sel)
        PROVE  Allowed(c)
    <3>1. bookings' = [bookings EXCEPT ![b] = [status |-> "HELD",
                                               expires |-> NewExpiry(b, g)]]
      BY <2>2 DEF HoldSeats
    <3>2. bookings[b].status \in {"DRAFT", "HELD"}
      BY <2>2 DEF HoldSeats, Holdable
    <3>3. bookings'[b].status = "HELD" /\ \A d \in Bookings \ {b} : bookings'[d] = bookings[d]
      BY <1>1, <3>1 DEF TypeOK
    <3> QED
      BY <3>2, <3>3 DEF CanTransition
  <2>3. ASSUME NEW b \in Bookings, ApplyConfirm(b) PROVE Allowed(c)
    <3>1. /\ bookings[b].status = "PAYMENT_PENDING" /\ bookings'[b].status = "CONFIRMED"
          /\ \A d \in Bookings \ {b} : bookings'[d] = bookings[d]
      BY <1>1, <2>3 DEF ApplyConfirm, Confirmable, TypeOK
    <3> QED
      BY <3>1 DEF CanTransition
  <2>4. ASSUME NEW b \in Bookings, RefundDone(b) PROVE Allowed(c)
    <3>1. bookings' = [bookings EXCEPT ![b].status =
            IF bookings[b].status = "CANCELLED" THEN "REFUNDED" ELSE bookings[b].status]
      BY <2>4 DEF RefundDone
    <3>2. /\ bookings'[b].status = IF bookings[b].status = "CANCELLED" THEN "REFUNDED"
                                                                     ELSE bookings[b].status
          /\ \A d \in Bookings \ {b} : bookings'[d] = bookings[d]
      BY <1>1, <3>1 DEF TypeOK
    <3> QED
      BY <3>2 DEF CanTransition
  <2>5. ASSUME NEW batch \in SUBSET Bookings, ExpireHolds(batch) PROVE Allowed(c)
    <3>1. /\ \A d \in batch : /\ bookings[d].status \in {"HELD", "PAYMENT_PENDING"}
                              /\ bookings'[d].status = "EXPIRED"
          /\ \A d \in Bookings \ batch : bookings'[d] = bookings[d]
      BY <1>1, <2>5 DEF ExpireHolds, Lapsed, TypeOK
    <3> QED
      BY <3>1 DEF CanTransition
  <2>6. ASSUME NEW b \in Bookings,
               \/ SavePassenger(b) \/ ApplyFailed(b) \/ ApplyLate(b)
               \/ DispatchUncertain(b) \/ RefundUncertain(b)
        PROVE  Allowed(c)
    BY <2>6 DEF SavePassenger, ApplyFailed, ApplyLate, DispatchUncertain, RefundUncertain
  <2>7. CASE Tick \/ UNCHANGED vars
    BY <2>7 DEF Tick, vars
  <2> QED
    BY <1>1, <2>1, <2>2, <2>3, <2>4, <2>5, <2>6, <2>7 DEF Next
<1> QED
  BY <1>1, PTL DEF TransitionsAllowed

\* The database's transition trigger accepts every update of every transaction, so it
\* rolls none of them back.
THEOREM TransitionsAreAllowed == Spec => TransitionsAllowed
  BY StepsAreAllowed, TypeCorrect, PTL DEF Spec

LEMMA StepsTakeNoSeat == []TypeOK /\ [][Next]_vars => SeatNotTakenFromOwner
<1> DEFINE Safe(s) == seats'[s].booking # seats[s].booking =>
                /\ seats[s].state = "HELD" /\ Live(seats[s].expires) =>
                      bookings'[seats[s].booking].status \in {"DRAFT", "CANCELLED", "EXPIRED"}
                /\ seats[s].state = "BOOKED" =>
                      /\ bookings'[seats[s].booking].status = "CANCELLED"
                      /\ payments'[seats[s].booking] = "REFUND_PENDING"
           Body == \A s \in Seats :
                      LET b == seats[s].booking
                      IN  seats'[s].booking # b =>
                /\ seats[s].state = "HELD" /\ Live(seats[s].expires) =>
                      bookings'[b].status \in {"DRAFT", "CANCELLED", "EXPIRED"}
                /\ seats[s].state = "BOOKED" =>
                      bookings'[b].status = "CANCELLED" /\ payments'[b] = "REFUND_PENDING"
<1>1. ASSUME TypeOK, [Next]_vars PROVE [Body]_vars
  <2> SUFFICES ASSUME NEW s \in Seats PROVE Safe(s)
    OBVIOUS
  <2>1. ASSUME NEW b \in Bookings, NEW f \in Itinerary[b], NEW sel \in Selections(b, f),
               HoldSeats(b, f, sel)
        PROVE  Safe(s)
    <3> DEFINE e == NewExpiry(b, f)
    <3>1. \A t \in DOMAIN sel : Free(t) \/ Reclaimable(t) \/ AlreadyHeld(b, f, sel[t], t, e)
      BY <2>1 DEF HoldSeats
    <3>2. seats' = MarkedHeld(DOMAIN sel, b, e)
      BY <2>1 DEF HoldSeats
    <3> HIDE DEF e
    <3>3. CASE s \notin DOMAIN sel
      BY <3>2, <3>3 DEF MarkedHeld
    <3>4. CASE s \in DOMAIN sel
      <4>1. seats'[s].booking = b
        BY <3>2, <3>4 DEF MarkedHeld
      <4> QED
        BY <3>1, <3>4, <4>1 DEF Free, Reclaimable, AlreadyHeld
    <3> QED
      BY <3>3, <3>4
  <2>2. ASSUME NEW b \in Bookings, NEW next \in {"DRAFT", "CANCELLED"}, Release(b, next)
        PROVE  Safe(s)
    <3>1. seats'[s] # seats[s] => seats[s].booking = b /\ seats[s].state = "HELD"
      BY <2>2 DEF Release, ReleasedSeats
    <3>2. bookings'[b].status = next
      BY <1>1, <2>2 DEF Release, TypeOK
    <3> QED
      BY <3>1, <3>2
  <2>3. ASSUME NEW batch \in SUBSET Bookings, ExpireHolds(batch) PROVE Safe(s)
    <3>1. seats'[s] # seats[s] => seats[s].booking \in batch /\ seats[s].state = "HELD"
      BY <2>3 DEF ExpireHolds, ReleasedSeats
    <3>2. \A b \in batch : bookings'[b].status = "EXPIRED"
      BY <1>1, <2>3 DEF ExpireHolds, TypeOK
    <3> QED
      BY <3>1, <3>2
  <2>4. ASSUME NEW b \in Bookings, ApplyConfirm(b) PROVE Safe(s)
    BY <2>4 DEF ApplyConfirm, HeldSeats
  <2>5. ASSUME NEW b \in Bookings, RequestRefund(b) PROVE Safe(s)
    <3>1. seats'[s] # seats[s] => seats[s].booking = b /\ seats[s].state = "BOOKED"
      BY <2>5 DEF RequestRefund, RefundedSeats
    <3>2. bookings'[b].status = "CANCELLED" /\ payments'[b] = "REFUND_PENDING"
      BY <1>1, <2>5 DEF RequestRefund, TypeOK
    <3> QED
      BY <3>1, <3>2
  <2>6. ASSUME NEW b \in Bookings,
               \/ Create(b) \/ SavePassenger(b) \/ Start(b) \/ ApplyFailed(b) \/ ApplyLate(b)
               \/ DispatchUncertain(b) \/ RefundUncertain(b) \/ RefundDone(b)
        PROVE  Safe(s)
    <3>1. seats' = seats
      BY <2>6 DEF Create, SavePassenger, Start, ApplyFailed, ApplyLate, DispatchUncertain,
                  RefundUncertain, RefundDone
    <3> QED
      BY <3>1
  <2>7. CASE Tick \/ UNCHANGED vars
    BY <2>7 DEF Tick, vars
  <2> QED
    BY <1>1, <2>1, <2>2, <2>3, <2>4, <2>5, <2>6, <2>7 DEF Next
<1> QED
  BY <1>1, PTL DEF SeatNotTakenFromOwner

\* A live held seat is given back only with the release, cancellation or expiry of its
\* booking, and a booked one only with its refund: no request of another booking, and no
\* transaction on it, takes it.
THEOREM SeatsAreNotTaken == Spec => SeatNotTakenFromOwner
  BY StepsTakeNoSeat, TypeCorrect, PTL DEF Spec

-----------------------------------------------------------------------------
(***************************************************************************)
(* PaidHoldConfirms does not hold of every itinerary (see the run          *)
(* connection_expiry).  What holds of every one is that Apply's assertion  *)
(* can fail only for a booking whose hold was cut at the departure of one  *)
(* of its flights while another departs at a different time.               *)
(***************************************************************************)

\* The hold ends before every departure, or the flights of b all depart together.
Uncut(b) ==
    \/ \A f \in Itinerary[b] : bookings[b].expires < Departure[f]
    \/ \A f, g \in Itinerary[b] : Departure[f] = Departure[g]

\* The hold ends by the departure of some flight of b and with the rows of b on that
\* flight; unless it was cut there, all rows of b end with it.
Even(b) ==
    bookings[b].status \in {"HELD", "PAYMENT_PENDING"} =>
        /\ \E f \in Itinerary[b] :
              /\ bookings[b].expires <= Departure[f]
              /\ \A a \in assignments : a.booking = b /\ a.flight = f =>
                    a.expires = bookings[b].expires
        /\ Uncut(b) => \A a \in assignments : a.booking = b => a.expires = bookings[b].expires

EvenHolds == \A b \in Bookings : Even(b)

\* A booking that keeps its hold, and gets no new row, stays even.
LEMMA EvenKept ==
  ASSUME EvenHolds, NEW b \in Bookings,
         bookings'[b].status \in {"HELD", "PAYMENT_PENDING"} =>
            /\ bookings[b].status \in {"HELD", "PAYMENT_PENDING"}
            /\ bookings'[b].expires = bookings[b].expires
            /\ \A a \in assignments' : a.booking = b => a \in assignments
  PROVE  Even(b)'
  BY DEF EvenHolds, Even, Uncut

LEMMA EvenHeld ==
  ASSUME Inv, RowsFit, EvenHolds, NEW b \in Bookings, NEW f \in Itinerary[b],
         NEW sel \in Selections(b, f), HoldSeats(b, f, sel)
  PROVE  Even(b)'
<1> DEFINE e == NewExpiry(b, f)
<1>1. PICK fresh \in SUBSET DOMAIN sel : HoldLeaves(b, f, sel, fresh, e)
  BY HoldEffect DEF Inv
<1>2. \A a \in assignments' :
         \/ a \in assignments
         \/ \E s \in fresh : a = [booking |-> b, flight |-> f, passenger |-> sel[s],
                                  seat |-> s, status |-> "HELD", expires |-> e]
  BY <1>1 DEF HoldLeaves
<1>3. e \in Nat /\ e <= Departure[f] /\ f \in Flights
  BY NewExpiryType, ConstantsAssumption DEF HoldSeats, Inv
<1>4. bookings[b].status = "HELD" => bookings[b].expires \in Nat
                                     /\ (e = bookings[b].expires \/ e = Departure[f])
  BY ConstantsAssumption DEF NewExpiry, Inv, HoldsTimed
<1>5. bookings[b].status \in {"DRAFT", "HELD"}
  BY DEF HoldSeats, Holdable
<1>6. bookings' = [bookings EXCEPT ![b] = [status |-> "HELD", expires |-> e]]
  BY DEF HoldSeats
<1>7. \A g \in Itinerary[b] : Departure[g] \in Nat
  BY ConstantsAssumption
<1>8. bookings[b].status = "HELD" => e <= bookings[b].expires
  BY NewExpiryType, ConstantsAssumption DEF HoldSeats, Inv
<1> HIDE DEF e
<1>9. bookings'[b].expires = e
  BY <1>6 DEF Inv, TypeOK
<1>10. ASSUME Uncut(b)', NEW a \in assignments', a.booking = b
       PROVE  a.expires = e
  <2>1. CASE a \notin assignments
    BY <1>2, <2>1
  <2>2. CASE a \in assignments
    <3>1. bookings[b].status = "HELD"
      BY <1>5, <1>10, <2>2 DEF Inv, NoStrandedSeat
    <3>2. PICK g \in Itinerary[b] : bookings[b].expires <= Departure[g]
      BY <3>1 DEF EvenHolds, Even
    <3>3. CASE \A h \in Itinerary[b] : e < Departure[h]
      <4>1. e = bookings[b].expires
        BY <1>3, <1>4, <3>1, <3>3
      <4> QED
        BY <1>10, <2>2, <3>1, <3>3, <4>1 DEF EvenHolds, Even, Uncut
    <3>4. CASE \A h, k \in Itinerary[b] : Departure[h] = Departure[k]
      <4>1. Departure[f] = Departure[g]
        BY <3>4
      <4>2. e = bookings[b].expires
        BY <1>3, <1>4, <1>8, <3>1, <3>2, <4>1
      <4> QED
        BY <1>10, <2>2, <3>1, <3>4, <4>2 DEF EvenHolds, Even, Uncut
    <3> QED
      BY <1>9, <1>10, <3>3, <3>4 DEF Uncut
  <2> QED
    BY <2>1, <2>2
<1>11. ASSUME NEW a \in assignments', a.booking = b, a \in assignments
       PROVE  /\ a.status = "HELD" /\ bookings[b].status = "HELD" /\ a.expires \in Nat
              /\ bookings[b].expires <= a.expires
              /\ a.flight = f => a.expires <= Departure[f]
  <2>1. a \in Assignment /\ RowFits(a) /\ RowAgrees(a)
    BY <1>11 DEF Inv, TypeOK, RowsFit, Inventory, RowsAgree
  <2>2. a.status = "HELD" /\ bookings[b].status = "HELD" /\ bookings[b].expires <= a.expires
    BY <1>5, <1>11, <2>1 DEF Inv, NoStrandedSeat, Assignment
  <2> QED
    BY <2>1, <2>2 DEF RowFits, RowAgrees
<1>12. \E g \in Itinerary[b] :
          e <= Departure[g] /\ \A a \in assignments' : a.booking = b /\ a.flight = g =>
                                  a.expires = e
  <2>1. CASE bookings[b].status = "HELD" /\ e = bookings[b].expires
    <3>1. PICK g \in Itinerary[b] :
             /\ bookings[b].expires <= Departure[g]
             /\ \A a \in assignments : a.booking = b /\ a.flight = g =>
                   a.expires = bookings[b].expires
      BY <2>1 DEF EvenHolds, Even
    <3>2. ASSUME NEW a \in assignments', a.booking = b, a.flight = g PROVE a.expires = e
      BY <1>2, <2>1, <3>1, <3>2
    <3> QED
      BY <2>1, <3>1, <3>2
  <2>2. CASE ~(bookings[b].status = "HELD" /\ e = bookings[b].expires)
    <3>1. ASSUME NEW a \in assignments', a.booking = b, a.flight = f PROVE a.expires = e
      <4>1. CASE a \in assignments
        <5>1. e = Departure[f] /\ e <= bookings[b].expires /\ bookings[b].expires \in Nat
          BY <1>4, <1>8, <1>11, <2>2, <3>1, <4>1
        <5>2. a.expires \in Nat /\ bookings[b].expires <= a.expires
              /\ a.expires <= Departure[f]
          BY <1>11, <3>1, <4>1
        <5> QED
          BY <1>3, <5>1, <5>2
      <4>2. CASE a \notin assignments
        BY <1>2, <4>2
      <4> QED
        BY <4>1, <4>2
    <3> QED
      BY <1>3, <3>1
  <2> QED
    BY <2>1, <2>2
<1> QED
  BY <1>9, <1>10, <1>12 DEF Even

LEMMA EvenStep ==
  ASSUME Inv, RowsFit, EvenHolds, [Next]_vars
  PROVE  EvenHolds'
<1>0. TypeOK
  BY DEF Inv
<1> SUFFICES ASSUME NEW c \in Bookings PROVE Even(c)'
  BY DEF EvenHolds
<1>1. ASSUME NEW b \in Bookings, NEW f \in Itinerary[b], NEW sel \in Selections(b, f),
             HoldSeats(b, f, sel)
      PROVE  Even(c)'
  <2>1. CASE c = b
    BY <1>1, <2>1, EvenHeld
  <2>2. CASE c # b
    <3>1. PICK fresh \in SUBSET DOMAIN sel : HoldLeaves(b, f, sel, fresh, NewExpiry(b, f))
      BY <1>0, <1>1, HoldEffect
    <3>2. \A a \in assignments' : a.booking = c => a \in assignments
      BY <2>2, <3>1 DEF HoldLeaves
    <3>3. bookings'[c] = bookings[c]
      BY <1>0, <1>1, <2>2 DEF HoldSeats, TypeOK
    <3> QED
      BY <3>2, <3>3, EvenKept
  <2> QED
    BY <2>1, <2>2
<1>2. ASSUME NEW b \in Bookings, ApplyConfirm(b) PROVE Even(c)'
  <2>1. /\ bookings'[b].status = "CONFIRMED"
        /\ \A d \in Bookings \ {b} : bookings'[d] = bookings[d]
    BY <1>0, <1>2 DEF ApplyConfirm, TypeOK
  <2>2. \A a \in assignments' : a.booking = b \/ a \in assignments
    <3>1. \A d \in assignments : ConfirmedRow(d).booking = d.booking
      BY <1>0, <1>2, ConfirmEffect DEF SamePlace
    <3> QED
      BY <1>0, <1>2, <3>1, ConfirmEffect
  <2> QED
    BY <2>1, <2>2, EvenKept
<1>3. ASSUME NEW b \in Bookings,
             \/ Create(b) \/ Start(b)
             \/ Release(b, "DRAFT") \/ Release(b, "CANCELLED") \/ RequestRefund(b)
      PROVE  Even(c)'
  <2>1. assignments' \subseteq assignments
    BY <1>3 DEF Create, Start, Release, ReleasedAssignments, RequestRefund
  <2>2. /\ \A d \in Bookings \ {b} : bookings'[d] = bookings[d]
        /\ \/ bookings'[b].status \in {"DRAFT", "CANCELLED"}
           \/ bookings[b].status = "HELD" /\ bookings'[b].expires = bookings[b].expires
    BY <1>0, <1>3 DEF Create, Start, Release, RequestRefund, TypeOK
  <2> QED
    BY <2>1, <2>2, EvenKept
<1>4. ASSUME NEW b \in Bookings, RefundDone(b) PROVE Even(c)'
  <2>1. bookings' = [bookings EXCEPT ![b].status =
              IF bookings[b].status = "CANCELLED" THEN "REFUNDED" ELSE bookings[b].status]
        /\ assignments' = assignments
    BY <1>4 DEF RefundDone
  <2>2. /\ bookings'[c].expires = bookings[c].expires
        /\ bookings'[c].status \in {"REFUNDED", bookings[c].status}
    BY <1>0, <2>1 DEF TypeOK
  <2> QED
    BY <2>1, <2>2, EvenKept
<1>5. ASSUME NEW batch \in SUBSET Bookings, ExpireHolds(batch) PROVE Even(c)'
  <2>1. /\ \A d \in batch : bookings'[d].status = "EXPIRED"
        /\ \A d \in Bookings \ batch : bookings'[d] = bookings[d]
        /\ assignments' \subseteq assignments
    BY <1>0, <1>5 DEF ExpireHolds, ReleasedAssignments, TypeOK
  <2> QED
    BY <2>1, EvenKept
<1>6. ASSUME bookings' = bookings, assignments' = assignments PROVE Even(c)'
  BY <1>6, EvenKept
<1>7. ASSUME NEW b \in Bookings,
             \/ SavePassenger(b) \/ ApplyFailed(b) \/ ApplyLate(b)
             \/ DispatchUncertain(b) \/ RefundUncertain(b)
      PROVE  Even(c)'
  BY <1>6, <1>7 DEF SavePassenger, ApplyFailed, ApplyLate, DispatchUncertain, RefundUncertain
<1>8. CASE Tick \/ UNCHANGED vars
  BY <1>6, <1>8 DEF Tick, vars
<1> QED
  BY <1>1, <1>2, <1>3, <1>4, <1>5, <1>7, <1>8 DEF Next

\* The held seats of a booking and its held rows correspond one to one.
LEMMA HeldCount ==
  ASSUME Inv, NEW b \in Bookings
  PROVE  Cardinality(HeldSeats(b)) = Cardinality(HeldBy(b))
<1> DEFINE S == HeldBy(b)
           T == HeldSeats(b)
           g == [a \in S |-> a.seat]
<1>1. \A a \in S : a \in assignments /\ a \in Assignment /\ a.booking = b /\ a.status = "HELD"
  BY DEF HeldBy, Inv, TypeOK
<1>2. \A a \in S : a.seat \in T
  <2> SUFFICES ASSUME NEW a \in S PROVE a.seat \in T
    OBVIOUS
  <2>1. RowAgrees(a) /\ a.seat \in Seats
    BY <1>1 DEF Inv, Inventory, RowsAgree, Assignment
  <2> QED
    BY <1>1, <2>1 DEF RowAgrees, HeldSeats
<1>3. \A a, c \in S : a.seat = c.seat => a = c
  BY <1>1 DEF Inv, Inventory, RowsUnique
<1>4. \A s \in T : \E a \in S : a.seat = s
  <2> SUFFICES ASSUME NEW s \in T PROVE \E a \in S : a.seat = s
    OBVIOUS
  <2>1. s \in Seats /\ seats[s].booking = b /\ seats[s].state = "HELD"
    BY DEF HeldSeats
  <2>2. PICK a \in assignments : a.seat = s
    BY <2>1 DEF Inv, Inventory, SeatsClaimed
  <2>3. RowAgrees(a)
    BY DEF Inv, Inventory, RowsAgree
  <2>4. a.status = "HELD" /\ a.booking = b
    BY <2>1, <2>2, <2>3 DEF RowAgrees
  <2> QED
    BY <2>2, <2>4 DEF HeldBy
<1>5. IsFiniteSet(T)
  <2>1. T \in SUBSET Seats
    BY DEF HeldSeats
  <2> HIDE DEF T
  <2> QED
    BY <2>1, SeatsAssumption, FS_Subset
<1> HIDE DEF S, T
<1>6. g \in Injection(S, T) /\ g \in Surjection(S, T)
  BY <1>2, <1>3, <1>4 DEF Injection, IsInjective, Surjection
<1> HIDE DEF g
<1>7. Cardinality(S) = Cardinality(T)
  BY <1>5, <1>6, FS_Injection
<1> QED
  BY <1>7 DEF S, T

\* A successful charge for a live hold is confirmed, unless the hold was cut at the
\* departure of one of several flights that do not depart together: the only way Apply can
\* answer it with ErrInventoryConflict.
THEOREM OnlyCutHoldsFail ==
  Spec => [](\A b \in Bookings :
                Unsettled(b) /\ Confirmable(b) /\ Uncut(b) => HoldConsistent(b))
<1>1. Init => EvenHolds
  BY DEF Init, EvenHolds, Even
<1>2. PaidInv /\ EvenHolds /\ [Next]_vars => EvenHolds'
  BY EvenStep DEF PaidInv, Claims
<1>3. ASSUME PaidInv, EvenHolds
      PROVE  \A b \in Bookings :
                Unsettled(b) /\ Confirmable(b) /\ Uncut(b) => HoldConsistent(b)
  <2> SUFFICES ASSUME NEW b \in Bookings, Confirmable(b), Uncut(b)
               PROVE  HoldConsistent(b)
    OBVIOUS
  <2>1. bookings[b].status = "PAYMENT_PENDING" /\ AllSeated(b)
    BY <1>3 DEF Confirmable, PaidInv, Claims, Seated, MustBeSeated
  <2>2. Cardinality(HeldSeats(b)) = Cardinality(HeldBy(b))
    BY <1>3, HeldCount DEF PaidInv
  <2>3. ASSUME NEW a \in HeldBy(b)
        PROVE  /\ seats[a.seat].state = "HELD" /\ Matches(a, a.seat)
               /\ a.expires = bookings[b].expires
    <3>1. a \in assignments /\ a.status = "HELD" /\ a.booking = b
      BY DEF HeldBy
    <3>2. RowAgrees(a)
      BY <1>3, <3>1 DEF PaidInv, Inv, Inventory, RowsAgree
    <3> QED
      BY <1>3, <2>1, <3>1, <3>2 DEF RowAgrees, Matches, EvenHolds, Even
  <2>4. HeldSeats(b) # {}
    <3>1. PICK f \in Itinerary[b] : TRUE
      BY ItineraryAssumption
    <3>2. 1 \in 1..Party[b]
      BY ConstantsAssumption
    <3>3. PICK a \in assignments : a.booking = b /\ a.flight = f
      BY <2>1, <3>2 DEF AllSeated
    <3>4. a.status = "HELD" /\ a.seat \in Seats
      BY <1>3, <2>1, <3>3 DEF PaidInv, Inv, NoStrandedSeat, TypeOK, Assignment
    <3>5. RowAgrees(a)
      BY <1>3 DEF PaidInv, Inv, Inventory, RowsAgree
    <3> QED
      BY <3>3, <3>4, <3>5 DEF RowAgrees, HeldSeats
  <2> QED
    BY <2>2, <2>3, <2>4 DEF HoldConsistent
<1> QED
  BY <1>1, <1>2, <1>3, PaidInvHolds, PTL DEF Spec

\* Where the flights of an itinerary depart together, as those of a single flight do,
\* every successful charge for a live hold is confirmed.
THEOREM PaidHoldsAreConfirmed ==
  ASSUME \A b \in Bookings : \A f, g \in Itinerary[b] : Departure[f] = Departure[g]
  PROVE  Spec => []PaidHoldConfirms
<1>1. (\A b \in Bookings : Unsettled(b) /\ Confirmable(b) /\ Uncut(b) => HoldConsistent(b))
         => PaidHoldConfirms
  BY DEF Uncut, PaidHoldConfirms
<1> QED
  BY <1>1, OnlyCutHoldsFail, PTL

=============================================================================
