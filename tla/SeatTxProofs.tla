---------------------------- MODULE SeatTxProofs ----------------------------
(***************************************************************************)
(* Proofs about SeatTx for any number of connections, bookings and seats:  *)
(* statement by statement, the transactions do what SeatInventory lets     *)
(* them do all at once, and they never wait for each other in a circle.    *)
(***************************************************************************)
EXTENDS SeatTx, SeatInventoryPaidProofs

USE DEF Time, BookingStatus, SegmentStatus, SeatState, PaymentStatus,
        RefundStatus, Commands, FreeSeat, BlockedSeat, Fresh, HoldWrites,
        PassengersUnseated, ReleaseWrites, ExpireWrites, StartWrites, LateWrites,
        ConfirmWrites, RefundWrites

(***************************************************************************)
(* The inductive invariant, one connection at a time.  The locks appear in *)
(* three parts: what a transaction has read is still true (Reads), it      *)
(* comes to lock every seat it will write (Covers), and no two hold the    *)
(* same row (Exclusive).  Kind is what the first statement of each kind of *)
(* transaction checked, and it holds until the commit because it speaks of *)
(* locked rows, or of the clock in a way that time does not undo.          *)
(***************************************************************************)

Ops == {"idle", "ask", "hold", "release", "expire", "start", "apply", "refund"}

Shape(c) ==
    /\ tx[c] = [op |-> tx[c].op, batch |-> tx[c].batch, rows |-> tx[c].rows,
                todo |-> tx[c].todo, read |-> tx[c].read, since |-> tx[c].since,
                args |-> tx[c].args]
    /\ tx[c].op \in Ops
    /\ tx[c].batch \subseteq Bookings
    /\ tx[c].todo \subseteq Seats
    /\ DOMAIN tx[c].read \subseteq Seats
    /\ tx[c].since \in Nat
    /\ tx[c].op \in {"idle", "ask"} =>
          tx[c].batch = {} /\ tx[c].todo = {} /\ DOMAIN tx[c].read = {}

Reads(c) ==
    /\ \A b \in tx[c].batch : tx[c].rows[b] = bookings[b]
    /\ \A s \in DOMAIN tx[c].read : tx[c].read[s] = seats[s]

Covers(c) ==
    /\ tx[c].op = "hold" => DOMAIN tx[c].args.sel \subseteq tx[c].todo \cup DOMAIN tx[c].read
    /\ tx[c].op \in {"release", "expire", "apply", "refund"} =>
          \A s \in Seats : seats[s].booking \in tx[c].batch =>
              s \in tx[c].todo \cup DOMAIN tx[c].read

\* LockSeat goes by the order of the ids.
Ordered(c) == \A s \in DOMAIN tx[c].read : \A t \in tx[c].todo : Rank[s] < Rank[t]

\* The timeouts end a transaction before it has waited for longer.
Timely(c) == tx[c].op # "idle" => now <= tx[c].since + LockWait

KindOf(c, b) ==
    /\ tx[c].op = "hold" =>
          tx[c].args.f \in Itinerary[b] /\ tx[c].args.sel \in Selections(b, tx[c].args.f)
    /\ tx[c].op = "release" => Releasable(b) /\ tx[c].args.next \in {"DRAFT", "CANCELLED"}
    /\ tx[c].op = "apply" => Unsettled(b)
    /\ tx[c].op = "refund" =>
          /\ bookings[b].status \in {"CONFIRMED", "TICKETED"} /\ b \in Refundable
          /\ payments[b] = "SUCCEEDED"
          /\ \A f \in Itinerary[b] : Departure[f] > tx[c].since

Kind(c) ==
    /\ tx[c].op \in {"hold", "release", "start", "apply", "refund"} =>
          \E b \in Bookings : tx[c].batch = {b} /\ KindOf(c, b)
    /\ tx[c].op = "expire" =>
          /\ tx[c].batch # {} /\ tx[c].batch \subseteq Lapsed
          /\ Cardinality(tx[c].batch) <= BatchLimit
    /\ tx[c].op = "ask" => tx[c].args.b \in Bookings

Sound(c) == Shape(c) /\ Reads(c) /\ Covers(c) /\ Ordered(c) /\ Timely(c) /\ Kind(c)

Apart(c, d) == tx[c].batch \cap tx[d].batch = {} /\ DOMAIN tx[c].read \cap DOMAIN tx[d].read = {}

Exclusive == \A c, d \in Conns : c # d => Apart(c, d)

\* The tables, as the atomic transactions leave them.
Tables == PaidInv /\ EvenHolds

TxShape == tx = [c \in Conns |-> tx[c]]

TxInv == Tables /\ TxShape /\ (\A c \in Conns : Sound(c)) /\ Exclusive

LEMMA TxInvInit == TxInit => TxInv
<1> SUFFICES ASSUME TxInit PROVE TxInv
  OBVIOUS
<1>1. \A b \in Bookings : Party[b] \in 0..9 /\ Party[b] \in Nat
  <2>1. \A b \in Bookings : Party[b] \in 1..9
    BY ConstantsAssumption
  <2> QED
    BY <2>1
<1>2. passengers \in [Bookings -> 0..9]
  BY <1>1, ConstantsAssumption DEF TxInit
<1>3. TypeOK
  <2>1. PartyBound
    BY <1>1 DEF TxInit, PartyBound
  <2> QED
    BY <1>2, <2>1, ConstantsAssumption DEF TxInit, TypeOK
<1>4. Inv
  BY <1>3 DEF TxInit, Inv, Inventory, RowsAgree, RowsUnique, SeatsClaimed, HoldsTimed,
              NoStrandedSeat
<1>5. Claims
  BY <1>1 DEF TxInit, Claims, RowsFit, PassengersOnce, Seated, MustBeSeated
<1>6. MoneyAgrees /\ EvenHolds
  BY DEF TxInit, MoneyAgrees, Money, EvenHolds, Even
<1>7. \A c \in Conns : tx[c] = Idle
  BY DEF TxInit
<1>8. DOMAIN Idle.read = {}
  BY DEF Idle
<1>9. ASSUME NEW c \in Conns PROVE Sound(c)
  <2>1. tx[c] = Idle
    BY <1>7
  <2> QED
    BY <1>8, <2>1 DEF Sound, Shape, Reads, Covers, Ordered, Timely, Kind, Idle, Ops
<1>10. Exclusive
  <2>1. \A c \in Conns : tx[c].batch = {} /\ DOMAIN tx[c].read = {}
    BY <1>7, <1>8 DEF Idle
  <2> QED
    BY <2>1 DEF Exclusive, Apart
<1> QED
  BY <1>4, <1>5, <1>6, <1>9, <1>10 DEF TxInv, Tables, PaidInv, TxInit, TxShape

-----------------------------------------------------------------------------
(***************************************************************************)
(* No deadlock.                                                            *)
(***************************************************************************)

\* Each transaction of a circle would wait for a seat of a higher place than the one its
\* predecessor waits for, and there is a highest one.
LEMMA NoCircle ==
  ASSUME \A c \in Conns : Shape(c) /\ Ordered(c)
  PROVE  NoDeadlock
<1> SUFFICES ASSUME NEW group \in SUBSET Active, group # {},
                    \A c \in group : \E d \in group \ {c} : WaitsFor(c, d)
             PROVE  FALSE
  BY DEF NoDeadlock
<1> DEFINE Higher(s) == {t \in Seats : Rank[t] > Rank[s]}
           Wanted == {s \in Seats : \E c \in group : s \in NextSeats(c)}
           T == {Higher(s) : s \in Wanted}
<1>1. \A s \in Seats : Rank[s] \in Nat
  BY TxAssumption
<1>2. \A c \in group : c \in Conns /\ NextSeats(c) \subseteq Seats
  BY DEF Active, NextSeats, Shape
<1>3. ASSUME NEW s \in Wanted
      PROVE  \E t \in Wanted : Rank[s] < Rank[t]
  <2>1. PICK c \in group : s \in NextSeats(c)
    OBVIOUS
  <2>2. PICK d \in group, r \in NextSeats(c) : r \in DOMAIN tx[d].read
    BY DEF WaitsFor
  <2>3. Rank[r] = Rank[s]
    <3>1. Rank[s] \in Nat /\ Rank[r] \in Nat
      BY <1>1, <1>2, <2>1, <2>2
    <3>2. Rank[s] <= Rank[r] /\ Rank[r] <= Rank[s]
      BY <2>1, <2>2 DEF NextSeats
    <3> QED
      BY <3>1, <3>2
  <2>4. PICK t \in NextSeats(d) : TRUE
    BY <2>2 DEF WaitsFor
  <2>5. t \in tx[d].todo /\ Rank[r] < Rank[t]
    BY <1>2, <2>2, <2>4 DEF NextSeats, Ordered
  <2>6. t \in Wanted
    BY <1>2, <2>2, <2>4
  <2> QED
    BY <2>3, <2>5, <2>6
<1>4. T \subseteq FiniteSubsetsOf(Seats) /\ T # {}
  <2>1. T \subseteq SUBSET Seats
    OBVIOUS
  <2>2. PICK c \in group : TRUE
    OBVIOUS
  <2>3. PICK s \in NextSeats(c) : TRUE
    BY <2>2 DEF WaitsFor
  <2>4. s \in Wanted
    BY <1>2, <2>2, <2>3
  <2> HIDE DEF Wanted, Higher
  <2>5. T # {}
    BY <2>4
  <2> HIDE DEF T
  <2> QED
    BY <2>1, <2>5, SeatsAssumption, FS_FiniteSubsetsOfFinite
<1>5. \E x \in T : \A y \in T : ~(<<y, x>> \in StrictSubsetOrdering(Seats))
  <2>1. IsWellFoundedOn(StrictSubsetOrdering(Seats), FiniteSubsetsOf(Seats))
    BY FS_StrictSubsetOrderingWellFounded
  <2> HIDE DEF T
  <2> QED
    BY <1>4, <2>1, WFMin
<1>6. PICK s \in Wanted : \A y \in T : ~(<<y, Higher(s)>> \in StrictSubsetOrdering(Seats))
  BY <1>5
<1>7. PICK t \in Wanted : Rank[s] < Rank[t]
  BY <1>3
<1>8. Higher(t) \subseteq Higher(s) /\ t \in Higher(s) /\ t \notin Higher(t)
  BY <1>1, <1>7
<1>9. Higher(t) \in T
  OBVIOUS
<1> HIDE DEF T
<1>10. <<Higher(t), Higher(s)>> \in StrictSubsetOrdering(Seats)
  BY <1>8 DEF StrictSubsetOrdering
<1> QED
  BY <1>6, <1>9, <1>10

-----------------------------------------------------------------------------
(***************************************************************************)
(* Steps that write no table.                                              *)
(***************************************************************************)

\* What another transaction, or none, does leaves a transaction's knowledge intact as long
\* as it spares the rows that are locked and gives the locked bookings no new seat.
LEMMA SoundKept ==
  ASSUME NEW d \in Conns, Sound(d), tx'[d] = tx[d], now' = now, passengers' = passengers,
         \A b \in tx[d].batch : bookings'[b] = bookings[b] /\ payments'[b] = payments[b],
         \A s \in DOMAIN tx[d].read : seats'[s] = seats[s],
         \A s \in Seats : seats'[s].booking \in tx[d].batch => seats[s].booking \in tx[d].batch
  PROVE  Sound(d)'
<1>1. Shape(d)' /\ Ordered(d)' /\ Timely(d)'
  BY DEF Sound, Shape, Ordered, Timely
<1>2. Reads(d)'
  BY DEF Sound, Reads
<1>3. Covers(d)'
  BY DEF Sound, Covers
<1>4. Kind(d)'
  <2>1. ASSUME NEW b \in Bookings, tx[d].batch = {b}, KindOf(d, b) PROVE KindOf(d, b)'
    <3>1. bookings'[b] = bookings[b] /\ payments'[b] = payments[b]
      BY <2>1
    <3>2. \A f : Selections(b, f)' = Selections(b, f)
      BY DEF Selections, PassengersOf, SeatsFor
    <3> QED
      BY <2>1, <3>1, <3>2 DEF KindOf, Releasable, Unsettled
  <2>2. tx[d].op = "expire" => \A b \in tx[d].batch : b \in Lapsed'
    BY DEF Sound, Kind, Lapsed
  <2> QED
    BY <2>1, <2>2 DEF Sound, Kind
<1> QED
  BY <1>1, <1>2, <1>3, <1>4 DEF Sound

\* A transaction that has begun, or has one lock more, next to those that were there.
LEMMA OthersKept ==
  ASSUME TxInv, NEW c \in Conns, NEW r, tx' = [tx EXCEPT ![c] = r], UNCHANGED vars,
         Sound(c)', \A d \in Conns \ {c} : Apart(c, d)'
  PROVE  TxInv'
<1>1. tx'[c] = r /\ \A d \in Conns \ {c} : tx'[d] = tx[d]
  BY DEF TxInv, TxShape
<1>2. \A d \in Conns : Sound(d)'
  <2> SUFFICES ASSUME NEW d \in Conns, d # c PROVE Sound(d)'
    OBVIOUS
  <2>1. tx'[d] = tx[d] /\ Sound(d)
    BY <1>1 DEF TxInv
  <2> QED
    BY <2>1, SoundKept DEF vars
<1>3. Exclusive'
  <2> SUFFICES ASSUME NEW d \in Conns, NEW e \in Conns, d # e PROVE Apart(d, e)'
    BY DEF Exclusive
  <2>1. CASE d = c
    BY <2>1
  <2>2. CASE e = c
    BY <2>2 DEF Apart
  <2>3. CASE d # c /\ e # c
    BY <1>1, <2>3 DEF TxInv, Exclusive, Apart
  <2> QED
    BY <2>1, <2>2, <2>3
<1>4. Tables'
  BY DEF TxInv, Tables, PaidInv, Inv, TypeOK, Inventory, RowsAgree, RowAgrees, RowsUnique,
         SeatsClaimed, HoldsTimed, NoStrandedSeat, Claims, RowsFit, RowFits, PassengersOnce,
         PartyBound, Seated, MustBeSeated, AllSeated, Live, MoneyAgrees, Money, EvenHolds,
         Even, Uncut, vars
<1>5. TxShape'
  BY DEF TxInv, TxShape
<1> QED
  BY <1>2, <1>3, <1>4, <1>5 DEF TxInv

\* Whoever begins has its bookings to itself.
LEMMA BegunApart ==
  ASSUME TxInv, NEW c \in Conns, NEW r, tx' = [tx EXCEPT ![c] = r],
         r.batch \cap LockedBookings(c) = {}, DOMAIN r.read = {}
  PROVE  \A d \in Conns \ {c} : Apart(c, d)'
<1> SUFFICES ASSUME NEW d \in Conns \ {c} PROVE Apart(c, d)'
  OBVIOUS
<1>1. tx'[c] = r /\ tx'[d] = tx[d]
  BY DEF TxInv, TxShape
<1>2. r.batch \cap tx[d].batch = {}
  <2>1. CASE d \in Active
    BY <2>1 DEF LockedBookings
  <2>2. CASE d \notin Active
    BY <2>2 DEF Active, TxInv, Sound, Shape
  <2> QED
    BY <2>1, <2>2
<1> QED
  BY <1>1, <1>2 DEF Apart

LEMMA BeginsSound ==
  ASSUME TxInv, NEW c \in Conns, NEW op \in Ops \ {"idle", "ask"}, NEW batch \in SUBSET Bookings,
         NEW todo \in SUBSET Seats, NEW args, Begun(c, op, batch, todo, args),
         op = "hold" => DOMAIN args.sel \subseteq todo,
         op \in {"release", "expire", "apply", "refund"} => SeatsOf(batch) \subseteq todo,
         Kind(c)'
  PROVE  TxInv'
<1> DEFINE r == [op |-> op, batch |-> batch, rows |-> [b \in batch |-> bookings[b]],
                 todo |-> todo, read |-> <<>>, since |-> now, args |-> args]
<1>1. tx' = [tx EXCEPT ![c] = r] /\ UNCHANGED vars /\ batch \cap LockedBookings(c) = {}
  BY DEF Begun
<1>2. tx'[c] = r
  BY <1>1 DEF TxInv, TxShape
<1>3. DOMAIN r.read = {} /\ now \in Nat
  BY DEF TxInv, Tables, PaidInv, Inv, TypeOK
<1>4. Sound(c)'
  <2>1. Shape(c)'
    BY <1>2, <1>3 DEF Shape
  <2>2. Reads(c)'
    BY <1>1, <1>2, <1>3 DEF Reads, vars
  <2>3. Covers(c)'
    BY <1>1, <1>2, <1>3 DEF Covers, SeatsOf, vars
  <2>4. Ordered(c)'
    BY <1>2, <1>3 DEF Ordered
  <2>5. Timely(c)'
    BY <1>1, <1>2, <1>3, ConstantsAssumption DEF Timely, vars
  <2> QED
    BY <2>1, <2>2, <2>3, <2>4, <2>5 DEF Sound
<1>5. \A d \in Conns \ {c} : Apart(c, d)'
  BY <1>1, <1>3, BegunApart
<1> QED
  BY <1>1, <1>4, <1>5, OthersKept

LEMMA BegunLeaves ==
  ASSUME TxInv, NEW c \in Conns, NEW op, NEW batch, NEW todo, NEW args,
         Begun(c, op, batch, todo, args)
  PROVE  /\ tx'[c].op = op /\ tx'[c].batch = batch /\ tx'[c].args = args
         /\ tx'[c].since = now
         /\ UNCHANGED vars
  BY DEF Begun, TxInv, TxShape

\* The first statement of a transaction checks what Kind says of it.
LEMMA BeginKeeps ==
  ASSUME TxInv, NEW c \in Conns, Begin(c)
  PROVE  TxInv' /\ UNCHANGED vars
<1>1. ASSUME NEW b \in Bookings, NEW f \in Itinerary[b], NEW sel \in Selections(b, f),
             BeginHold(c, b, f, sel)
      PROVE  TxInv' /\ UNCHANGED vars
  <2> DEFINE args == [f |-> f, sel |-> sel]
  <2>1. Begun(c, "hold", {b}, DOMAIN sel, args)
    BY <1>1 DEF BeginHold
  <2>2. /\ tx'[c].op = "hold" /\ tx'[c].batch = {b} /\ tx'[c].args = args
        /\ UNCHANGED vars
    BY <2>1, BegunLeaves
  <2>3. DOMAIN sel \in SUBSET Seats
    BY ConstantsAssumption DEF Selections, SeatsFor
  <2>4. Selections(b, f)' = Selections(b, f)
    BY <2>2 DEF Selections, PassengersOf, SeatsFor, vars
  <2>5. Kind(c)'
    BY <2>2, <2>4 DEF Kind, KindOf
  <2> QED
    BY <2>1, <2>2, <2>3, <2>5, BeginsSound DEF Ops
<1>2. ASSUME NEW b \in Bookings, NEW next \in {"DRAFT", "CANCELLED"}, BeginRelease(c, b, next)
      PROVE  TxInv' /\ UNCHANGED vars
  <2> DEFINE args == [next |-> next]
  <2>1. Begun(c, "release", {b}, SeatsOf({b}), args) /\ Releasable(b)
    BY <1>2 DEF BeginRelease
  <2>2. /\ tx'[c].op = "release" /\ tx'[c].batch = {b} /\ tx'[c].args = args
        /\ UNCHANGED vars
    BY <2>1, BegunLeaves
  <2>3. Kind(c)'
    BY <2>1, <2>2 DEF Kind, KindOf, Releasable, vars
  <2>4. SeatsOf({b}) \in SUBSET Seats
    BY DEF SeatsOf
  <2> QED
    BY <2>1, <2>2, <2>3, <2>4, BeginsSound DEF Ops
<1>3. ASSUME NEW b \in Bookings, BeginApply(c, b)
      PROVE  TxInv' /\ UNCHANGED vars
  <2> DEFINE args == [live |-> Live(bookings[b].expires)]
  <2>1. Begun(c, "apply", {b}, SeatsOf({b}), args) /\ Unsettled(b)
    BY <1>3 DEF BeginApply
  <2>2. /\ tx'[c].op = "apply" /\ tx'[c].batch = {b} /\ UNCHANGED vars
    BY <2>1, BegunLeaves
  <2>3. Kind(c)'
    BY <2>1, <2>2 DEF Kind, KindOf, Unsettled, vars
  <2>4. SeatsOf({b}) \in SUBSET Seats
    BY DEF SeatsOf
  <2> QED
    BY <2>1, <2>2, <2>3, <2>4, BeginsSound DEF Ops
<1>4. ASSUME NEW b \in Bookings, BeginRefund(c, b)
      PROVE  TxInv' /\ UNCHANGED vars
  <2>1. Begun(c, "refund", {b}, SeatsOf({b}), <<>>)
    BY <1>4 DEF BeginRefund
  <2>2. /\ tx'[c].op = "refund" /\ tx'[c].batch = {b} /\ tx'[c].since = now
        /\ UNCHANGED vars
    BY <2>1, BegunLeaves
  <2>3. Kind(c)'
    BY <1>4, <2>2 DEF BeginRefund, Kind, KindOf, vars
  <2>4. SeatsOf({b}) \in SUBSET Seats
    BY DEF SeatsOf
  <2> QED
    BY <2>1, <2>2, <2>3, <2>4, BeginsSound DEF Ops
<1>5. ASSUME NEW batch \in SUBSET Bookings, BeginExpire(c, batch)
      PROVE  TxInv' /\ UNCHANGED vars
  <2>1. /\ Begun(c, "expire", batch, SeatsOf(batch), <<>>)
        /\ batch # {} /\ batch \subseteq Lapsed /\ Cardinality(batch) <= BatchLimit
    BY <1>5 DEF BeginExpire
  <2>2. tx'[c].op = "expire" /\ tx'[c].batch = batch /\ UNCHANGED vars
    BY <2>1, BegunLeaves
  <2>3. batch \subseteq Lapsed'
    BY <2>1, <2>2 DEF Lapsed, vars
  <2>4. Kind(c)'
    BY <2>1, <2>2, <2>3 DEF Kind
  <2>5. SeatsOf(batch) \in SUBSET Seats
    BY DEF SeatsOf
  <2> QED
    BY <2>1, <2>2, <2>4, <2>5, BeginsSound DEF Ops
<1>6. ASSUME NEW b \in Bookings, AskStart(c, b)
      PROVE  TxInv' /\ UNCHANGED vars
  <2> DEFINE args == [b |-> b, live |-> Live(bookings[b].expires)]
             r == [op |-> "ask", batch |-> {}, rows |-> <<>>, todo |-> {}, read |-> <<>>,
                   since |-> now, args |-> args]
  <2>1. tx' = [tx EXCEPT ![c] = r] /\ UNCHANGED vars
    BY <1>6 DEF AskStart
  <2>2. tx'[c] = r
    BY <2>1 DEF TxInv, TxShape
  <2>3. args.b = b
    OBVIOUS
  <2> HIDE DEF args
  <2>4. DOMAIN r.read = {} /\ r.batch = {} /\ now \in Nat
    BY DEF TxInv, Tables, PaidInv, Inv, TypeOK
  <2>5. Sound(c)'
    <3>1. Shape(c)'
      BY <2>2, <2>3, <2>4 DEF Shape, Ops
    <3>2. Reads(c)' /\ Covers(c)' /\ Ordered(c)' /\ Kind(c)'
      BY <2>2, <2>3, <2>4 DEF Reads, Covers, Ordered, Kind
    <3>3. Timely(c)'
      BY <2>1, <2>2, <2>3, <2>4, ConstantsAssumption DEF Timely, vars
    <3> QED
      BY <3>1, <3>2, <3>3 DEF Sound
  <2>6. \A d \in Conns \ {c} : Apart(c, d)'
    BY <2>1, <2>4, BegunApart
  <2> QED
    BY <2>1, <2>5, <2>6, OthersKept
<1>7. ASSUME BeginStart(c)
      PROVE  TxInv' /\ UNCHANGED vars
  <2> DEFINE b == tx[c].args.b
  <2>1. b \in Bookings
    BY <1>7 DEF BeginStart, TxInv, Sound, Kind
  <2>2. PICK live :
           tx' = [tx EXCEPT ![c] =
                       [op |-> "start", batch |-> {b}, rows |-> [d \in {b} |-> bookings[d]],
                        todo |-> {}, read |-> <<>>, since |-> now,
                        args |-> [live |-> live]]]
    BY <1>7 DEF BeginStart
  <2>3. UNCHANGED vars /\ b \notin LockedBookings(c)
    BY <1>7 DEF BeginStart
  <2> HIDE DEF b
  <2> DEFINE r == [op |-> "start", batch |-> {b}, rows |-> [d \in {b} |-> bookings[d]],
                   todo |-> {}, read |-> <<>>, since |-> now, args |-> [live |-> live]]
  <2>4. tx'[c] = r
    BY <2>2 DEF TxInv, TxShape
  <2>5. DOMAIN r.read = {} /\ r.batch \cap LockedBookings(c) = {} /\ now \in Nat
    BY <2>3 DEF TxInv, Tables, PaidInv, Inv, TypeOK
  <2>6. Sound(c)'
    <3>1. Shape(c)'
      BY <2>1, <2>4, <2>5 DEF Shape, Ops
    <3>2. Reads(c)' /\ Covers(c)' /\ Ordered(c)'
      BY <2>3, <2>4, <2>5 DEF Reads, Covers, Ordered, vars
    <3>3. Timely(c)'
      BY <2>3, <2>4, <2>5, ConstantsAssumption DEF Timely, vars
    <3>4. Kind(c)'
      BY <2>1, <2>4 DEF Kind, KindOf
    <3> QED
      BY <3>1, <3>2, <3>3, <3>4 DEF Sound
  <2>7. \A d \in Conns \ {c} : Apart(c, d)'
    BY <2>2, <2>5, BegunApart
  <2> QED
    BY <2>2, <2>3, <2>6, <2>7, OthersKept
<1> QED
  BY <1>1, <1>2, <1>3, <1>4, <1>5, <1>6, <1>7 DEF Begin

LEMMA LockSeatKeeps ==
  ASSUME TxInv, NEW c \in Conns, LockSeat(c)
  PROVE  TxInv' /\ UNCHANGED vars
<1>1. PICK s \in NextSeats(c) :
         /\ s \notin LockedSeats(c)
         /\ tx' = [tx EXCEPT
              ![c].todo = @ \ {s},
              ![c].read = [t \in DOMAIN @ \cup {s} |-> IF t = s THEN seats[s] ELSE @[t]]]
         /\ UNCHANGED vars
  BY DEF LockSeat
<1>2. Sound(c) /\ Shape(c)
  BY DEF TxInv, Sound
<1> DEFINE todo == tx[c].todo \ {s}
           read == [t \in DOMAIN tx[c].read \cup {s} |-> IF t = s THEN seats[s]
                                                                  ELSE tx[c].read[t]]
           r == [op |-> tx[c].op, batch |-> tx[c].batch, rows |-> tx[c].rows,
                 todo |-> todo, read |-> read, since |-> tx[c].since, args |-> tx[c].args]
<1>3. [[tx[c] EXCEPT !.todo = todo] EXCEPT !.read = read] = r
  <2> DEFINE q == [op |-> tx[c].op, batch |-> tx[c].batch, rows |-> tx[c].rows,
                   todo |-> todo, read |-> tx[c].read, since |-> tx[c].since,
                   args |-> tx[c].args]
  <2> HIDE DEF todo, read
  <2>1. [tx[c] EXCEPT !.todo = todo] = q
    BY <1>2 DEF Shape
  <2>2. [q EXCEPT !.read = read] = r
    OBVIOUS
  <2> HIDE DEF q, r
  <2> QED
    BY <2>1, <2>2
<1>4. tx' = [tx EXCEPT ![c] = r]
  <2>1. tx' = [tx EXCEPT ![c] = [[tx[c] EXCEPT !.todo = todo] EXCEPT !.read = read]]
    BY <1>1, <1>2 DEF TxInv, TxShape, Shape
  <2> QED
    BY <1>3, <2>1
<1>5. tx'[c] = r
  BY <1>4 DEF TxInv, TxShape
<1>6. s \in tx[c].todo /\ s \in Seats /\ todo \subseteq Seats
  BY <1>2 DEF NextSeats, Shape
<1>7. /\ DOMAIN read = DOMAIN tx[c].read \cup {s} /\ read[s] = seats[s]
      /\ \A t \in DOMAIN tx[c].read : t # s => read[t] = tx[c].read[t]
  OBVIOUS
<1>8. \A t \in DOMAIN read : t \in DOMAIN tx[c].read \/ t = s
  BY <1>7
<1>9. todo \cup DOMAIN read = tx[c].todo \cup DOMAIN tx[c].read
  BY <1>6, <1>7
<1>10. \A t \in todo : t \in tx[c].todo /\ t # s
  OBVIOUS
<1> HIDE DEF todo, read
<1>11. /\ r.op = tx[c].op /\ r.batch = tx[c].batch /\ r.rows = tx[c].rows /\ r.todo = todo
       /\ r.read = read /\ r.since = tx[c].since /\ r.args = tx[c].args
  OBVIOUS
<1>12. Sound(c)'
  <2>1. Shape(c)'
    BY <1>2, <1>5, <1>6, <1>7 DEF Shape, NextSeats
  <2> HIDE DEF r
  <2>2. Reads(c)'
    <3>1. bookings' = bookings /\ seats' = seats
      BY <1>1 DEF vars
    <3>2. Reads(c)
      BY DEF TxInv, Sound
    <3>3. \A t \in DOMAIN read : read[t] = seats[t]
      BY <1>7, <1>8, <3>2 DEF Reads
    <3> QED
      BY <1>5, <1>11, <3>1, <3>2, <3>3 DEF Reads
  <2>3. Covers(c)'
    <3>1. seats' = seats
      BY <1>1 DEF vars
    <3> QED
      BY <1>5, <1>9, <1>11, <3>1 DEF TxInv, Sound, Covers
  <2>4. Ordered(c)'
    <3>1. ASSUME NEW t \in todo PROVE Rank[s] < Rank[t]
      <4>1. Rank[s] \in Nat /\ Rank[t] \in Nat /\ Rank[s] # Rank[t]
        BY <1>2, <1>6, <1>10, TxAssumption DEF Shape
      <4>2. Rank[s] <= Rank[t]
        BY <1>10 DEF NextSeats
      <4> QED
        BY <4>1, <4>2
    <3>2. \A t \in DOMAIN tx[c].read : \A u \in todo : Rank[t] < Rank[u]
      BY <1>10 DEF TxInv, Sound, Ordered
    <3> QED
      BY <1>5, <1>8, <1>11, <3>1, <3>2 DEF Ordered
  <2>5. Timely(c)'
    BY <1>1, <1>5, <1>11 DEF TxInv, Sound, Timely, vars
  <2>6. Kind(c)'
    <3>1. ASSUME NEW b \in Bookings, KindOf(c, b) PROVE KindOf(c, b)'
      <4>1. \A f : Selections(b, f)' = Selections(b, f)
        BY <1>1 DEF Selections, PassengersOf, SeatsFor, vars
      <4> QED
        BY <1>1, <1>5, <1>11, <3>1, <4>1 DEF KindOf, Releasable, Unsettled, vars
    <3>2. Lapsed' = Lapsed
      BY <1>1 DEF Lapsed, vars
    <3> QED
      BY <1>5, <1>11, <3>1, <3>2 DEF TxInv, Sound, Kind
  <2> QED
    BY <2>1, <2>2, <2>3, <2>4, <2>5, <2>6 DEF Sound
<1>13. ASSUME NEW d \in Conns \ {c} PROVE Apart(c, d)'
  <2>1. tx'[d] = tx[d] /\ Apart(c, d)
    BY <1>4 DEF TxInv, TxShape, Exclusive
  <2>2. s \notin DOMAIN tx[d].read
    <3>1. CASE d \in Active
      BY <1>1, <3>1 DEF LockedSeats
    <3>2. CASE d \notin Active
      BY <3>2 DEF Active, TxInv, Sound, Shape
    <3> QED
      BY <3>1, <3>2
  <2> HIDE DEF r
  <2> QED
    BY <1>5, <1>8, <1>11, <2>1, <2>2 DEF Apart
<1> QED
  BY <1>1, <1>4, <1>12, <1>13, OthersKept

LEMMA RollbackKeeps ==
  ASSUME TxInv, NEW c \in Conns, Done(c), UNCHANGED vars
  PROVE  TxInv'
<1>1. tx' = [tx EXCEPT ![c] = Idle]
  BY DEF Done
<1>2. tx'[c] = Idle
  BY <1>1 DEF TxInv, TxShape
<1>3. /\ DOMAIN Idle.read = {} /\ Idle.batch = {} /\ Idle.todo = {}
      /\ Idle.op = "idle"
  BY DEF Idle
<1>4. Sound(c)'
  BY <1>2, <1>3 DEF Sound, Shape, Reads, Covers, Ordered, Timely, Kind, Idle, Ops
<1>5. \A d \in Conns \ {c} : Apart(c, d)'
  BY <1>2, <1>3 DEF Apart
<1> QED
  BY <1>1, <1>4, <1>5, OthersKept

\* Time passes for all transactions alike, and no further than their timeouts allow.
LEMMA TickKeeps ==
  ASSUME TxInv, TickTx
  PROVE  TxInv'
<1>1. Tick /\ tx' = tx /\ now' = now + 1 /\ now \in Nat
  BY DEF TickTx, Tick, TxInv, Tables, PaidInv, Inv, TypeOK
<1>2. Tables'
  <2>1. Next
    BY <1>1 DEF Next
  <2> QED
    BY <2>1, PaidStep, EvenStep DEF TxInv, Tables, PaidInv, Claims
<1>3. ASSUME NEW c \in Conns PROVE Sound(c)'
  <2>1. Sound(c) /\ Shape(c) /\ tx'[c] = tx[c]
    BY <1>1 DEF TxInv, Sound
  <2>2. Shape(c)' /\ Ordered(c)' /\ Reads(c)' /\ Covers(c)'
    BY <1>1, <2>1 DEF Sound, Shape, Ordered, Reads, Covers, Tick
  <2>3. Timely(c)'
    <3> SUFFICES ASSUME tx[c].op # "idle" PROVE now' <= tx[c].since + LockWait
      BY <2>1 DEF Timely
    <3>1. now < tx[c].since + LockWait
      BY DEF TickTx, Active
    <3>2. tx[c].since \in Nat /\ LockWait \in Nat
      BY <2>1, ConstantsAssumption DEF Shape
    <3> QED
      BY <1>1, <3>1, <3>2
  <2>4. Kind(c)'
    <3>1. ASSUME NEW b \in Bookings, KindOf(c, b) PROVE KindOf(c, b)'
      <4>1. \A f : Selections(b, f)' = Selections(b, f)
        BY <1>1 DEF Selections, PassengersOf, SeatsFor, Tick
      <4> QED
        BY <1>1, <2>1, <3>1, <4>1 DEF KindOf, Releasable, Unsettled, Tick
    <3>2. ASSUME NEW b \in Lapsed PROVE b \in Lapsed'
      <4>1. bookings[b].expires \in Nat /\ bookings[b].expires <= now
        BY DEF Lapsed, TxInv, Tables, PaidInv, Inv, HoldsTimed
      <4>2. bookings[b].expires <= now'
        BY <1>1, <4>1
      <4> QED
        BY <1>1, <4>2 DEF Lapsed, Tick
    <3> QED
      BY <2>1, <3>1, <3>2 DEF Sound, Kind
  <2> QED
    BY <2>2, <2>3, <2>4 DEF Sound
<1>4. Exclusive' /\ TxShape'
  BY <1>1 DEF TxInv, Exclusive, Apart, TxShape
<1> QED
  BY <1>2, <1>3, <1>4 DEF TxInv

-----------------------------------------------------------------------------
(***************************************************************************)
(* Every commit is an action of SeatInventory.                             *)
(***************************************************************************)

\* Under the locks, what a transaction has read is what there is.
LEMMA ViewIsTrue ==
  ASSUME TxInv, NEW c \in Conns, NEW b \in Bookings, NEW f \in Flights
  PROVE  /\ View(c)!NewExpiry(b, f) = NewExpiry(b, f)
         /\ View(c)!Holdable(b, f) <=> Holdable(b, f)
         /\ \A sel, e : View(c)!Fresh(b, f, sel, e) = Fresh(b, f, sel, e)
         /\ \A s \in Seats : View(c)!Free(s) <=> Free(s)
         /\ \A s \in Seats : View(c)!Reclaimable(s) <=> Reclaimable(s)
<1> DEFINE B == [d \in Bookings |-> IF d \in tx[c].batch THEN tx[c].rows[d] ELSE bookings[d]]
           S == [s \in Seats |-> IF s \in DOMAIN tx[c].read THEN tx[c].read[s] ELSE seats[s]]
<1>1. B = bookings
  <2>1. bookings = [d \in Bookings |-> bookings[d]]
    BY DEF TxInv, Tables, PaidInv, Inv, TypeOK
  <2>2. \A d \in tx[c].batch : tx[c].rows[d] = bookings[d]
    BY DEF TxInv, Sound, Reads
  <2> QED
    BY <2>1, <2>2
<1>2. S = seats
  <2>1. seats = [s \in Seats |-> seats[s]]
    BY DEF TxInv, Tables, PaidInv, Inv, TypeOK
  <2>2. \A s \in DOMAIN tx[c].read : tx[c].read[s] = seats[s]
    BY DEF TxInv, Sound, Reads
  <2> QED
    BY <2>1, <2>2
<1>3. View(c)!NewExpiry(b, f) = NewExpiry(b, f)
  BY <1>1 DEF View!NewExpiry, NewExpiry
<1>4. View(c)!Holdable(b, f) <=> Holdable(b, f)
  BY <1>1 DEF View!Holdable, Holdable, View!Live, Live
<1>5. \A s : View(c)!ActiveOn(s) = ActiveOn(s)
  BY DEF View!ActiveOn, ActiveOn
<1>6. \A s : View(c)!Free(s) <=> Free(s)
  BY <1>2, <1>5 DEF View!Free, Free
<1>7. \A a, s : View(c)!Matches(a, s) <=> Matches(a, s)
  BY <1>2 DEF View!Matches, Matches
<1>8. \A s : View(c)!Reclaimable(s) <=> Reclaimable(s)
  BY <1>2, <1>5, <1>7 DEF View!Reclaimable, Reclaimable, View!Live, Live
<1>9. \A p, s, e : View(c)!AlreadyHeld(b, f, p, s, e) <=> AlreadyHeld(b, f, p, s, e)
  BY <1>2, <1>5, <1>7 DEF View!AlreadyHeld, AlreadyHeld, View!Live, Live
<1>10. \A sel, e : View(c)!Fresh(b, f, sel, e) = Fresh(b, f, sel, e)
  BY <1>9 DEF View!Fresh
<1> QED
  BY <1>3, <1>4, <1>6, <1>8, <1>10

\* The booking of a transaction of one booking.
LEMMA OneBooking ==
  ASSUME TxInv, NEW c \in Conns, tx[c].op \in {"hold", "release", "start", "apply", "refund"}
  PROVE  /\ BookingOf(c) \in Bookings /\ tx[c].batch = {BookingOf(c)}
         /\ KindOf(c, BookingOf(c))
         /\ tx[c].rows[BookingOf(c)] = bookings[BookingOf(c)]
<1>1. PICK b \in Bookings : tx[c].batch = {b} /\ KindOf(c, b)
  BY DEF TxInv, Sound, Kind
<1>2. BookingOf(c) = b
  BY <1>1 DEF BookingOf
<1> QED
  BY <1>1, <1>2 DEF TxInv, Sound, Reads

LEMMA HoldIsAtomic ==
  ASSUME TxInv, NEW c \in Conns, CommitHold(c)
  PROVE  LET b == BookingOf(c)
         IN  /\ tx[c].args.f \in Itinerary[b]
             /\ tx[c].args.sel \in Selections(b, tx[c].args.f)
             /\ HoldSeats(b, tx[c].args.f, tx[c].args.sel)
<1> DEFINE b == BookingOf(c)
           f == tx[c].args.f
           sel == tx[c].args.sel
           e == NewExpiry(b, f)
           fresh == Fresh(b, f, sel, e)
<1>1. tx[c].op = "hold"
  BY DEF CommitHold, Locked
<1>2. b \in Bookings /\ f \in Itinerary[b] /\ sel \in Selections(b, f)
  BY <1>1, OneBooking DEF KindOf
<1>3. f \in Flights /\ DOMAIN sel \subseteq Seats
  BY <1>2, ConstantsAssumption DEF Selections, SeatsFor
<1>4. /\ View(c)!NewExpiry(b, f) = e
      /\ View(c)!Fresh(b, f, sel, View(c)!NewExpiry(b, f)) = fresh
      /\ View(c)!Holdable(b, f) <=> Holdable(b, f)
      /\ \A s \in Seats : View(c)!Free(s) <=> Free(s)
      /\ \A s \in Seats : View(c)!Reclaimable(s) <=> Reclaimable(s)
  BY <1>2, <1>3, ViewIsTrue
<1>5. /\ View(c)!Holdable(b, f)
      /\ \A s \in fresh : View(c)!Free(s) \/ View(c)!Reclaimable(s)
      /\ PassengersUnseated(b, f, sel, fresh)
      /\ HoldWrites(b, f, sel, e, fresh)
  BY <1>4 DEF CommitHold
<1>6. fresh \subseteq Seats
  BY <1>3
<1> HIDE DEF b, f, sel, e, fresh
<1>7. Holdable(b, f) /\ (\A s \in fresh : Free(s) \/ Reclaimable(s))
  BY <1>4, <1>5, <1>6
<1>8. HoldSeats(b, f, sel)
  BY <1>5, <1>7 DEF HoldSeats, e, fresh
<1> QED
  BY <1>2, <1>8 DEF b, f, sel

\* Start may have read that a hold is live before it waited for the booking's lock.  The
\* rows it then counts are live, and on one of the flights they end with the hold.
LEMMA CountedIsLive ==
  ASSUME Tables, NEW b \in Bookings, bookings[b].status = "HELD", Complete(b)
  PROVE  Live(bookings[b].expires)
<1>1. PICK f \in Itinerary[b] : \A a \in assignments : a.booking = b /\ a.flight = f =>
                                    a.expires = bookings[b].expires
  BY DEF Tables, EvenHolds, Even
<1> DEFINE counted == {a \in HeldBy(b) : a.flight = f /\ Live(a.expires)}
<1>2. Party[b] = Cardinality(counted)
  BY DEF Complete
<1>3. Party[b] \in 1..9
  BY ConstantsAssumption
<1> HIDE DEF counted
<1>4. counted # {}
  BY <1>2, <1>3, FS_EmptySet
<1>5. PICK a \in counted : TRUE
  BY <1>4
<1> USE DEF counted
<1>6. a \in assignments /\ a.booking = b /\ a.flight = f /\ Live(a.expires)
  BY DEF HeldBy
<1> QED
  BY <1>1, <1>6

LEMMA ReleaseIsAtomic ==
  ASSUME TxInv, NEW c \in Conns, CommitRelease(c)
  PROVE  /\ tx[c].args.next \in {"DRAFT", "CANCELLED"}
         /\ Release(BookingOf(c), tx[c].args.next)
<1>1. tx[c].op = "release" /\ ReleaseWrites(BookingOf(c), tx[c].args.next)
  BY DEF CommitRelease, Locked
<1>2. Releasable(BookingOf(c)) /\ tx[c].args.next \in {"DRAFT", "CANCELLED"}
  BY <1>1, OneBooking DEF KindOf
<1> QED
  BY <1>1, <1>2 DEF Release

LEMMA ExpireIsAtomic ==
  ASSUME TxInv, NEW c \in Conns, CommitExpire(c)
  PROVE  tx[c].batch \in SUBSET Bookings /\ ExpireHolds(tx[c].batch)
  BY DEF CommitExpire, Locked, TxInv, Sound, Shape, Kind, ExpireHolds

LEMMA StartIsAtomic ==
  ASSUME TxInv, NEW c \in Conns, CommitStart(c)
  PROVE  Start(BookingOf(c))
<1>1. /\ tx[c].op = "start" /\ tx[c].rows[BookingOf(c)].status = "HELD"
      /\ Complete(BookingOf(c)) /\ StartWrites(BookingOf(c))
  BY DEF CommitStart, Locked
<1>2. BookingOf(c) \in Bookings /\ bookings[BookingOf(c)].status = "HELD"
  BY <1>1, OneBooking
<1>3. Live(bookings[BookingOf(c)].expires)
  BY <1>1, <1>2, CountedIsLive DEF TxInv
<1> QED
  BY <1>1, <1>2, <1>3 DEF Start

LEMMA ApplyIsAtomic ==
  ASSUME TxInv, NEW c \in Conns, CommitConfirm(c) \/ CommitLate(c)
  PROVE  \/ CommitConfirm(c) /\ ApplyConfirm(BookingOf(c))
         \/ CommitLate(c) /\ ApplyLate(BookingOf(c))
<1>1. tx[c].op = "apply"
  BY DEF CommitConfirm, CommitLate, Locked
<1>2. Unsettled(BookingOf(c)) /\ tx[c].rows[BookingOf(c)] = bookings[BookingOf(c)]
  BY <1>1, OneBooking DEF KindOf
<1>3. Confirms(c) <=> Confirmable(BookingOf(c))
  BY <1>2 DEF Confirms, StillLive, Confirmable
<1>4. CASE CommitConfirm(c)
  BY <1>2, <1>3, <1>4 DEF CommitConfirm, ApplyConfirm
<1>5. CASE CommitLate(c)
  BY <1>2, <1>3, <1>5 DEF CommitLate, ApplyLate
<1> QED
  BY <1>4, <1>5

\* RequestRefund compared the departures with the clock no longer ago than LockWait.
LEMMA RefundIsAtomic ==
  ASSUME TxInv, NEW c \in Conns, CommitRefund(c)
  PROVE  RequestRefund(BookingOf(c))
<1>1. tx[c].op = "refund" /\ RefundWrites(BookingOf(c))
  BY DEF CommitRefund, Locked
<1>2. BookingOf(c) \in Bookings /\ KindOf(c, BookingOf(c))
  BY <1>1, OneBooking
<1>3. ASSUME NEW f \in Itinerary[BookingOf(c)] PROVE Departure[f] + LockWait > now
  <2>1. Departure[f] > tx[c].since
    BY <1>1, <1>2 DEF KindOf
  <2>2. now <= tx[c].since + LockWait
    BY <1>1 DEF TxInv, Sound, Timely
  <2>3. Departure[f] \in Nat /\ tx[c].since \in Nat /\ now \in Nat /\ LockWait \in Nat
    BY <1>2, ConstantsAssumption DEF TxInv, Sound, Shape, Tables, PaidInv, Inv, TypeOK
  <2> QED
    BY <2>1, <2>2, <2>3
<1> QED
  BY <1>1, <1>2, <1>3 DEF KindOf, RequestRefund

LEMMA CommitIsAtomic ==
  ASSUME TxInv, NEW c \in Conns, Commit(c)
  PROVE  Next
<1>1. CASE CommitHold(c)
  <2>1. tx[c].op = "hold"
    BY <1>1 DEF CommitHold, Locked
  <2>2. BookingOf(c) \in Bookings
    BY <2>1, OneBooking
  <2> QED
    BY <1>1, <2>2, HoldIsAtomic DEF Next
<1>2. CASE CommitRelease(c)
  <2>1. tx[c].op = "release"
    BY <1>2 DEF CommitRelease, Locked
  <2>2. BookingOf(c) \in Bookings
    BY <2>1, OneBooking
  <2> QED
    BY <1>2, <2>2, ReleaseIsAtomic DEF Next
<1>3. CASE CommitExpire(c)
  BY <1>3, ExpireIsAtomic DEF Next
<1>4. CASE CommitStart(c)
  <2>1. tx[c].op = "start"
    BY <1>4 DEF CommitStart, Locked
  <2>2. BookingOf(c) \in Bookings
    BY <2>1, OneBooking
  <2> QED
    BY <1>4, <2>2, StartIsAtomic DEF Next
<1>5. CASE CommitConfirm(c) \/ CommitLate(c)
  <2>1. tx[c].op = "apply"
    BY <1>5 DEF CommitConfirm, CommitLate, Locked
  <2>2. BookingOf(c) \in Bookings
    BY <2>1, OneBooking
  <2> QED
    BY <1>5, <2>2, ApplyIsAtomic DEF Next
<1>6. CASE CommitRefund(c)
  <2>1. tx[c].op = "refund"
    BY <1>6 DEF CommitRefund, Locked
  <2>2. BookingOf(c) \in Bookings
    BY <2>1, OneBooking
  <2> QED
    BY <1>6, <2>2, RefundIsAtomic DEF Next
<1> QED
  BY <1>1, <1>2, <1>3, <1>4, <1>5, <1>6 DEF Commit

-----------------------------------------------------------------------------
(***************************************************************************)
(* A commit writes only what its transaction has locked.                   *)
(***************************************************************************)

Spares(c) ==
    /\ Done(c) /\ now' = now /\ passengers' = passengers
    /\ \A b \in Bookings \ tx[c].batch : bookings'[b] = bookings[b] /\ payments'[b] = payments[b]
    /\ \A s \in Seats : \/ seats'[s] = seats[s]
                        \/ /\ s \in DOMAIN tx[c].read
                           /\ seats'[s].booking \in tx[c].batch \cup {NULL}

LEMMA CommitSpares ==
  ASSUME TxInv, NEW c \in Conns, Commit(c)
  PROVE  Spares(c)
<1>0. TypeOK /\ Covers(c)
  BY DEF TxInv, Tables, PaidInv, Inv, Sound
<1>1. CASE CommitHold(c)
  <2> DEFINE b == BookingOf(c)
             f == tx[c].args.f
             sel == tx[c].args.sel
             e == NewExpiry(b, f)
             fresh == Fresh(b, f, sel, e)
  <2>1. tx[c].op = "hold" /\ tx[c].todo = {} /\ Done(c)
    BY <1>1 DEF CommitHold, Locked
  <2>2. tx[c].batch = {b} /\ b \in Bookings
    BY <2>1, OneBooking
  <2>3. HoldWrites(b, f, sel, e, fresh)
    BY <1>1, HoldIsAtomic DEF HoldSeats
  <2>4. /\ seats' = MarkedHeld(DOMAIN sel, b, e)
        /\ bookings' = [bookings EXCEPT ![b] = [status |-> "HELD", expires |-> e]]
        /\ UNCHANGED <<now, passengers, payments>>
    BY <2>3
  <2>5. DOMAIN sel \subseteq DOMAIN tx[c].read
    BY <1>0, <2>1 DEF Covers
  <2> HIDE DEF b, f, sel, e, fresh
  <2>6. \A s \in Seats : \/ seats'[s] = seats[s]
                         \/ s \in DOMAIN sel /\ seats'[s].booking = b
    BY <2>4 DEF MarkedHeld
  <2> QED
    BY <1>0, <2>1, <2>2, <2>4, <2>5, <2>6 DEF Spares, TypeOK
<1>2. ASSUME NEW batch \in SUBSET Bookings, tx[c].batch = batch, tx[c].todo = {},
             tx[c].op \in {"release", "expire", "apply", "refund"},
             \A s \in Seats : \/ seats'[s] = seats[s]
                              \/ /\ seats[s].booking \in batch
                                 /\ seats'[s].booking \in batch \cup {NULL}
      PROVE  \A s \in Seats : \/ seats'[s] = seats[s]
                              \/ /\ s \in DOMAIN tx[c].read
                                 /\ seats'[s].booking \in tx[c].batch \cup {NULL}
  BY <1>0, <1>2 DEF Covers
<1>3. CASE CommitRelease(c)
  <2> DEFINE b == BookingOf(c)
             next == tx[c].args.next
  <2>1. tx[c].op = "release" /\ tx[c].todo = {} /\ Done(c) /\ ReleaseWrites(b, next)
    BY <1>3 DEF CommitRelease, Locked
  <2>2. tx[c].batch = {b} /\ b \in Bookings
    BY <2>1, OneBooking
  <2> HIDE DEF b, next
  <2>3. \A s \in Seats : \/ seats'[s] = seats[s]
                         \/ seats[s].booking \in {b} /\ seats'[s].booking = NULL
    BY <2>1 DEF ReleasedSeats
  <2>4. \A s \in Seats : \/ seats'[s] = seats[s]
                         \/ /\ s \in DOMAIN tx[c].read
                            /\ seats'[s].booking \in tx[c].batch \cup {NULL}
    BY <1>2, <2>1, <2>2, <2>3
  <2> QED
    BY <1>0, <2>1, <2>2, <2>4 DEF Spares, TypeOK
<1>4. CASE CommitExpire(c)
  <2> DEFINE batch == tx[c].batch
  <2>1. tx[c].op = "expire" /\ tx[c].todo = {} /\ Done(c) /\ ExpireWrites(batch)
    BY <1>4 DEF CommitExpire, Locked
  <2>2. batch \subseteq Bookings
    BY DEF TxInv, Sound, Shape
  <2>3. \A s \in Seats : \/ seats'[s] = seats[s]
                         \/ seats[s].booking \in batch /\ seats'[s].booking = NULL
    BY <2>1 DEF ReleasedSeats
  <2>4. \A s \in Seats : \/ seats'[s] = seats[s]
                         \/ /\ s \in DOMAIN tx[c].read
                            /\ seats'[s].booking \in tx[c].batch \cup {NULL}
    BY <1>2, <2>1, <2>2, <2>3
  <2> QED
    BY <1>0, <2>1, <2>2, <2>4 DEF Spares, TypeOK
<1>5. CASE CommitStart(c)
  <2>1. tx[c].op = "start" /\ Done(c) /\ StartWrites(BookingOf(c))
    BY <1>5 DEF CommitStart, Locked
  <2>2. tx[c].batch = {BookingOf(c)} /\ BookingOf(c) \in Bookings
    BY <2>1, OneBooking
  <2> QED
    BY <1>0, <2>1, <2>2 DEF Spares, TypeOK
<1>6. CASE CommitConfirm(c)
  <2> DEFINE b == BookingOf(c)
  <2>1. tx[c].op = "apply" /\ tx[c].todo = {} /\ Done(c) /\ ConfirmWrites(b)
    BY <1>6 DEF CommitConfirm, Locked
  <2>2. tx[c].batch = {b} /\ b \in Bookings
    BY <2>1, OneBooking
  <2> HIDE DEF b
  <2>3. \A s \in Seats : \/ seats'[s] = seats[s]
                         \/ seats[s].booking \in {b} /\ seats'[s].booking \in {b}
    BY <2>1 DEF HeldSeats
  <2>4. \A s \in Seats : \/ seats'[s] = seats[s]
                         \/ /\ s \in DOMAIN tx[c].read
                            /\ seats'[s].booking \in tx[c].batch \cup {NULL}
    BY <1>2, <2>1, <2>2, <2>3
  <2> QED
    BY <1>0, <2>1, <2>2, <2>4 DEF Spares, TypeOK
<1>7. CASE CommitLate(c)
  <2>1. tx[c].op = "apply" /\ Done(c) /\ LateWrites(BookingOf(c))
    BY <1>7 DEF CommitLate, Locked
  <2>2. tx[c].batch = {BookingOf(c)} /\ BookingOf(c) \in Bookings
    BY <2>1, OneBooking
  <2> QED
    BY <1>0, <2>1, <2>2 DEF Spares, TypeOK
<1>8. CASE CommitRefund(c)
  <2> DEFINE b == BookingOf(c)
  <2>1. tx[c].op = "refund" /\ tx[c].todo = {} /\ Done(c) /\ RefundWrites(b)
    BY <1>8 DEF CommitRefund, Locked
  <2>2. tx[c].batch = {b} /\ b \in Bookings
    BY <2>1, OneBooking
  <2> HIDE DEF b
  <2>3. \A s \in Seats : \/ seats'[s] = seats[s]
                         \/ seats[s].booking \in {b} /\ seats'[s].booking = NULL
    BY <2>1 DEF RefundedSeats
  <2>4. \A s \in Seats : \/ seats'[s] = seats[s]
                         \/ /\ s \in DOMAIN tx[c].read
                            /\ seats'[s].booking \in tx[c].batch \cup {NULL}
    BY <1>2, <2>1, <2>2, <2>3
  <2> QED
    BY <1>0, <2>1, <2>2, <2>4 DEF Spares, TypeOK
<1> QED
  BY <1>1, <1>3, <1>4, <1>5, <1>6, <1>7, <1>8 DEF Commit

LEMMA CommitKeeps ==
  ASSUME TxInv, NEW c \in Conns, Commit(c)
  PROVE  TxInv'
<1>1. Spares(c)
  BY CommitSpares
<1>2. tx' = [tx EXCEPT ![c] = Idle]
  BY <1>1 DEF Spares, Done
<1>3. tx'[c] = Idle /\ \A d \in Conns \ {c} : tx'[d] = tx[d]
  BY <1>2 DEF TxInv, TxShape
<1>4. DOMAIN Idle.read = {} /\ Idle.batch = {} /\ Idle.todo = {} /\ Idle.op = "idle"
  BY DEF Idle
<1>5. Sound(c)'
  BY <1>3, <1>4 DEF Sound, Shape, Reads, Covers, Ordered, Timely, Kind, Idle, Ops
<1>6. ASSUME NEW d \in Conns \ {c} PROVE Sound(d)'
  <2>1. Sound(d) /\ Apart(c, d) /\ tx'[d] = tx[d]
    BY <1>3 DEF TxInv, Exclusive
  <2>2. tx[d].batch \subseteq Bookings /\ DOMAIN tx[d].read \subseteq Seats
    BY <2>1 DEF Sound, Shape
  <2>3. \A b \in tx[d].batch : bookings'[b] = bookings[b] /\ payments'[b] = payments[b]
    BY <1>1, <2>1, <2>2 DEF Spares, Apart
  <2>4. \A s \in DOMAIN tx[d].read : seats'[s] = seats[s]
    BY <1>1, <2>1, <2>2 DEF Spares, Apart
  <2>5. ASSUME NEW s \in Seats, seats'[s].booking \in tx[d].batch
        PROVE  seats[s].booking \in tx[d].batch
    BY <1>1, <2>1, <2>2, <2>5, ConstantsAssumption DEF Spares, Apart
  <2> QED
    BY <1>1, <2>1, <2>3, <2>4, <2>5, SoundKept DEF Spares
<1>7. Exclusive'
  <2> SUFFICES ASSUME NEW d \in Conns, NEW e \in Conns, d # e PROVE Apart(d, e)'
    BY DEF Exclusive
  <2>1. CASE d = c \/ e = c
    BY <1>3, <1>4, <2>1 DEF Apart
  <2>2. CASE d # c /\ e # c
    BY <1>3, <2>2 DEF TxInv, Exclusive, Apart
  <2> QED
    BY <2>1, <2>2
<1>8. Tables'
  <2>1. Next
    BY CommitIsAtomic
  <2> QED
    BY <2>1, PaidStep, EvenStep DEF TxInv, Tables, PaidInv, Claims
<1>9. TxShape'
  BY <1>2 DEF TxInv, TxShape
<1> QED
  BY <1>5, <1>6, <1>3, <1>7, <1>8, <1>9 DEF TxInv

-----------------------------------------------------------------------------
\* The invariant holds, and whatever changes the tables is an action of SeatInventory.
LEMMA TxStep == TxInv /\ [TxNext]_txVars => TxInv' /\ [Next]_vars
<1> SUFFICES ASSUME TxInv, [TxNext]_txVars PROVE TxInv' /\ [Next]_vars
  OBVIOUS
<1>1. ASSUME NEW c \in Conns, Begin(c) PROVE TxInv' /\ [Next]_vars
  BY <1>1, BeginKeeps
<1>2. ASSUME NEW c \in Conns, LockSeat(c) PROVE TxInv' /\ [Next]_vars
  BY <1>2, LockSeatKeeps
<1>3. ASSUME NEW c \in Conns, Commit(c) PROVE TxInv' /\ [Next]_vars
  BY <1>3, CommitKeeps, CommitIsAtomic
<1>4. ASSUME NEW c \in Conns, Rollback(c) PROVE TxInv' /\ [Next]_vars
  BY <1>4, RollbackKeeps DEF Rollback
<1>5. CASE TickTx
  <2>1. Next
    BY <1>5 DEF TickTx, Next
  <2> QED
    BY <1>5, <2>1, TickKeeps
<1>6. CASE UNCHANGED txVars
  <2>1. UNCHANGED vars /\ tx' = tx
    BY <1>6 DEF txVars
  <2>2. Tables'
    BY <2>1, PaidStep, EvenStep DEF TxInv, Tables, PaidInv, Claims
  <2>3. ASSUME NEW c \in Conns PROVE Sound(c)'
    <3>1. Sound(c) /\ tx'[c] = tx[c]
      BY <2>1 DEF TxInv
    <3> QED
      BY <2>1, <3>1, SoundKept DEF vars
  <2>4. Exclusive' /\ TxShape'
    BY <2>1 DEF TxInv, Exclusive, Apart, TxShape
  <2> QED
    BY <2>1, <2>2, <2>3, <2>4 DEF TxInv
<1> QED
  BY <1>1, <1>2, <1>3, <1>4, <1>5, <1>6 DEF TxNext

LEMMA TxInvHolds == TxSpec => []TxInv
  BY TxInvInit, TxStep, PTL DEF TxSpec

\* Statement by statement is as good as all at once: every commit of HoldSeats, Release,
\* ExpireHolds, Start, Apply and RequestRefund changes the tables as the atomic transaction
\* does, with the clock and the rows there are at the commit, for any number of
\* connections and whatever else was committed in between.
THEOREM CommitsAreAtomic == TxSpec => Atomic
<1>1. TxInv /\ [TxNext]_txVars => [Next]_vars
  BY TxStep
<1> QED
  BY <1>1, TxInvHolds, PTL DEF TxSpec, Atomic

\* No circle of transactions waits for each other's seats: LockSeat goes by the order of
\* the ids in every kind of transaction, the batches of ExpireHolds included.
THEOREM NoDeadlockHolds == TxSpec => []NoDeadlock
<1>1. TxInv => NoDeadlock
  BY NoCircle DEF TxInv, Sound
<1> QED
  BY <1>1, TxInvHolds, PTL

\* What holds of the atomic transactions holds of their statements: under READ COMMITTED,
\* too, the two seat tables agree, a confirmed booking has its seats, payments match the
\* bookings, and no hold outlasts a departure.
THEOREM TablesSound ==
  TxSpec => [](InventoryAgrees /\ ConfirmedIsSeated /\ PaymentMatchesBooking
                 /\ HoldWithinDeparture)
<1>1. TxInv => InventoryAgrees
  BY InventoryImpliesAgreement DEF TxInv, Tables, PaidInv, Inv
<1>2. TxInv => ConfirmedIsSeated /\ HoldWithinDeparture
  BY PaidIsSeated, PaidHoldsEnd DEF TxInv, Tables
<1>3. TxInv => PaymentMatchesBooking
  BY DEF TxInv, Tables, PaidInv, MoneyAgrees, Money, PaymentMatchesBooking
<1> QED
  BY <1>1, <1>2, <1>3, TxInvHolds, PTL

\* And what no step of the atomic transactions does, no statement does: seats change hands
\* as SeatOwnership has it and are not taken from their owners, holds are not extended, the
\* transition trigger accepts every update, and nothing is confirmed after a departure.
THEOREM StepsSound ==
  TxSpec => /\ SeatsOwned
            /\ HoldNeverExtended /\ SeatNotTakenFromOwner
            /\ TransitionsAllowed /\ ConfirmedBeforeDeparture
<1>1. TxSpec => SeatsOwned
  <2>1. TxInit => Ownership!Init
    BY DEF TxInit, Ownership!Init, Ownership!Free, Ownership!Blocked
  <2>2. TxInv /\ [TxNext]_txVars => [Ownership!Next]_(Ownership!vars)
    BY TxStep, OwnershipStep DEF TxInv, Tables, PaidInv
  <2> QED
    BY <2>1, <2>2, TxInvHolds, PTL DEF TxSpec, SeatsOwned, Ownership!Spec
<1>2. TxInv => Inv /\ TypeOK /\ PaidInv
  BY DEF TxInv, Tables, PaidInv, Inv
<1>3. TxSpec => []Inv /\ []TypeOK /\ []PaidInv
  BY <1>2, TxInvHolds, PTL
<1>4. TxSpec => [][Next]_vars
  BY CommitsAreAtomic DEF Atomic
<1> QED
  BY <1>1, <1>3, <1>4, StepsExtendNoHold, StepsTakeNoSeat, StepsAreAllowed,
     StepsConfirmInTime, PTL

=============================================================================
