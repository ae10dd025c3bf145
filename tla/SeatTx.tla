------------------------------- MODULE SeatTx -------------------------------
(***************************************************************************)
(* The transactions of SeatInventory statement by statement, as READ       *)
(* COMMITTED runs them: a transaction locks its booking, then its seats    *)
(* one by one in the order of their ids, reads the clock again, writes and *)
(* commits.  Between any two statements other transactions run and time    *)
(* passes; what a transaction has read may be stale by the time it is      *)
(* used unless a lock protects it.  A transaction that fails a check, runs *)
(* into lock_timeout or statement_timeout, or loses its connection rolls   *)
(* back.                                                                   *)
(*                                                                         *)
(* The committed rows are the variables of SeatInventory.  The lock on a   *)
(* booking stands for its segments, passengers and payment too: each of    *)
(* these transactions takes it first, and takes the others only under it.  *)
(* A seat's lock stands for its assignments, which are written only under  *)
(* it.  The bookings start with all their passengers; Create,              *)
(* SavePassenger and the provider's other answers touch one booking and no *)
(* seat, and are left to SeatInventory.                                    *)
(***************************************************************************)
EXTENDS SeatInventory

CONSTANTS
    Conns,          \* database connections
    Rank            \* Rank[s]: the place of seat s in the order of ids

ASSUME TxAssumption ==
    /\ Rank \in [Seats -> Nat]
    /\ \A s, t \in Seats : Rank[s] = Rank[t] => s = t

VARIABLE tx         \* tx[c]: the transaction running on connection c

txVars == <<vars, tx>>

\* A transaction: its kind, the bookings it has locked and their rows, the seats it has yet
\* to lock, those it has locked as it read them, when it began, and the arguments of its kind.
Idle == [op |-> "idle", batch |-> {}, rows |-> <<>>, todo |-> {}, read |-> <<>>,
         since |-> 0, args |-> <<>>]

Active == {c \in Conns : tx[c].op # "idle"}

\* The booking of a transaction that has one.
BookingOf(c) == CHOOSE b \in tx[c].batch : TRUE

\* What a transaction has read: the rows of its bookings and of its seats as they were
\* when it locked them, everything else as it is now.
View(c) == INSTANCE SeatInventory WITH
    bookings <- [b \in Bookings |-> IF b \in tx[c].batch THEN tx[c].rows[b] ELSE bookings[b]],
    seats    <- [s \in Seats |-> IF s \in DOMAIN tx[c].read THEN tx[c].read[s] ELSE seats[s]]

\* The bookings and seats that transactions other than c's have locked.
LockedBookings(c) == UNION {tx[d].batch : d \in Active \ {c}}
LockedSeats(c) == UNION {DOMAIN tx[d].read : d \in Active \ {c}}

TxInit ==
    /\ now = 0
    /\ bookings = [b \in Bookings |-> [status |-> "DRAFT", expires |-> NULL]]
    /\ segments = [b \in Bookings |->
                     [f \in Flights |-> IF f \in Itinerary[b] THEN "DRAFT" ELSE "NONE"]]
    /\ passengers = Party
    /\ seats = [s \in Seats |-> FreeSeat]
    /\ assignments = {}
    /\ payments = [b \in Bookings |-> "NONE"]
    /\ refunds = [b \in Bookings |-> "NONE"]
    /\ outbox = {}
    /\ tx = [c \in Conns |-> Idle]

-----------------------------------------------------------------------------
(***************************************************************************)
(* The first statements: lock the bookings and read their rows.  Whoever   *)
(* waits here holds no row, and reads the row anew once it has the lock.   *)
(***************************************************************************)

Begun(c, op, batch, todo, args) ==
    /\ tx[c].op = "idle"
    /\ batch \cap LockedBookings(c) = {}
    /\ tx' = [tx EXCEPT ![c] =
                [op |-> op, batch |-> batch, rows |-> [b \in batch |-> bookings[b]],
                 todo |-> todo, read |-> <<>>, since |-> now, args |-> args]]
    /\ UNCHANGED vars

\* WHERE booking_id=ANY(...) as the statement's snapshot answers it.
SeatsOf(batch) == {s \in Seats : seats[s].booking \in batch}

BeginHold(c, b, f, sel) ==
    /\ Holdable(b, f)
    /\ Begun(c, "hold", {b}, DOMAIN sel, [f |-> f, sel |-> sel])

BeginRelease(c, b, next) ==
    /\ Releasable(b)
    /\ Begun(c, "release", {b}, SeatsOf({b}), [next |-> next])

BeginExpire(c, batch) ==
    /\ batch # {} /\ batch \subseteq Lapsed
    /\ Cardinality(batch) <= BatchLimit
    /\ Begun(c, "expire", batch, SeatsOf(batch), <<>>)

\* Apply of a successful charge.
BeginApply(c, b) ==
    /\ Unsettled(b)
    /\ Begun(c, "apply", {b}, SeatsOf({b}), [live |-> Live(bookings[b].expires)])

BeginRefund(c, b) ==
    /\ bookings[b].status \in {"CONFIRMED", "TICKETED"} /\ b \in Refundable
    /\ \A f \in Itinerary[b] : Departure[f] > now
    /\ payments[b] = "SUCCEEDED"
    /\ Begun(c, "refund", {b}, SeatsOf({b}), <<>>)

\* Start asks for the booking's lock and whether its hold is live in one SELECT; the answer
\* is as old as the wait when the row was locked but not changed meanwhile.
AskStart(c, b) ==
    /\ tx[c].op = "idle"
    /\ bookings[b].status = "HELD"
    /\ tx' = [tx EXCEPT ![c] =
                [op |-> "ask", batch |-> {}, rows |-> <<>>, todo |-> {}, read |-> <<>>,
                 since |-> now, args |-> [b |-> b, live |-> Live(bookings[b].expires)]]]
    /\ UNCHANGED vars

BeginStart(c) ==
    LET b == tx[c].args.b
    IN  /\ tx[c].op = "ask"
        /\ b \notin LockedBookings(c)
        /\ \E live \in {tx[c].args.live, Live(bookings[b].expires)} :
              tx' = [tx EXCEPT ![c] =
                       [op |-> "start", batch |-> {b}, rows |-> [d \in {b} |-> bookings[d]],
                        todo |-> {}, read |-> <<>>, since |-> now,
                        args |-> [live |-> live]]]
        /\ UNCHANGED vars

-----------------------------------------------------------------------------
(***************************************************************************)
(* SELECT ... FROM flight_seats ... ORDER BY id FOR UPDATE: one seat after *)
(* the other, each row as it is when its lock is granted.  A row that no   *)
(* longer matches stays locked and is passed over.                         *)
(***************************************************************************)

\* Mutant: ExpireHolds locks the seats of one booking after those of another.
NextSeatsByBooking(c) ==
    {s \in tx[c].todo : \A t \in tx[c].todo :
        \/ Rank[s] <= Rank[t]
        \/ tx[c].op = "expire" /\ seats[s].booking # seats[t].booking}
NextSeats(c) == {s \in tx[c].todo : \A t \in tx[c].todo : Rank[s] <= Rank[t]}

LockSeat(c) ==
    \E s \in NextSeats(c) :
        /\ s \notin LockedSeats(c)
        /\ tx' = [tx EXCEPT
              ![c].todo = @ \ {s},
              ![c].read = [t \in DOMAIN @ \cup {s} |-> IF t = s THEN seats[s] ELSE @[t]]]
        /\ UNCHANGED vars

-----------------------------------------------------------------------------
(***************************************************************************)
(* The rest of each transaction, with the clock read anew: its last checks,*)
(* its writes and its commit.                                              *)
(***************************************************************************)

Locked(c, op) == tx[c].op = op /\ tx[c].todo = {}

Done(c) == tx' = [tx EXCEPT ![c] = Idle]

CommitHold(c) ==
    LET b     == BookingOf(c)
        f     == tx[c].args.f
        sel   == tx[c].args.sel
        e     == View(c)!NewExpiry(b, f)
        fresh == View(c)!Fresh(b, f, sel, e)
    IN  /\ Locked(c, "hold")
        /\ View(c)!Holdable(b, f)
        /\ \A s \in fresh : View(c)!Free(s) \/ View(c)!Reclaimable(s)
        /\ PassengersUnseated(b, f, sel, fresh)
        /\ HoldWrites(b, f, sel, e, fresh)
        /\ Done(c)

CommitRelease(c) ==
    /\ Locked(c, "release")
    /\ ReleaseWrites(BookingOf(c), tx[c].args.next)
    /\ Done(c)

CommitExpire(c) ==
    /\ Locked(c, "expire")
    /\ ExpireWrites(tx[c].batch)
    /\ Done(c)

CommitStart(c) ==
    /\ Locked(c, "start")
    /\ tx[c].rows[BookingOf(c)].status = "HELD" /\ tx[c].args.live
    /\ Complete(BookingOf(c))
    /\ StartWrites(BookingOf(c))
    /\ Done(c)

\* Mutant: the hold is judged by what was read before the seats were locked.
StillLiveAsRead(c) == tx[c].args.live
StillLive(c) == Live(bookings[BookingOf(c)].expires)

Confirms(c) ==
    tx[c].rows[BookingOf(c)].status = "PAYMENT_PENDING" /\ StillLive(c)

CommitConfirm(c) ==
    /\ Locked(c, "apply")
    /\ Confirms(c) /\ HoldConsistent(BookingOf(c))
    /\ ConfirmWrites(BookingOf(c))
    /\ Done(c)

CommitLate(c) ==
    /\ Locked(c, "apply")
    /\ ~Confirms(c)
    /\ LateWrites(BookingOf(c))
    /\ Done(c)

CommitRefund(c) ==
    /\ Locked(c, "refund")
    /\ RefundWrites(BookingOf(c))
    /\ Done(c)

Rollback(c) == c \in Active /\ Done(c) /\ UNCHANGED vars

\* A transaction ends, one way or the other, before the timeouts of its statements do it.
TickTx ==
    /\ \A c \in Active : now < tx[c].since + LockWait
    /\ Tick
    /\ UNCHANGED tx

-----------------------------------------------------------------------------
Begin(c) ==
    \/ \E b \in Bookings :
          \/ \E f \in Itinerary[b] : \E sel \in Selections(b, f) : BeginHold(c, b, f, sel)
          \/ BeginRelease(c, b, "DRAFT")
          \/ BeginRelease(c, b, "CANCELLED")
          \/ BeginApply(c, b)
          \/ BeginRefund(c, b)
          \/ AskStart(c, b)
    \/ \E batch \in SUBSET Bookings : BeginExpire(c, batch)
    \/ BeginStart(c)

Commit(c) ==
    \/ CommitHold(c)
    \/ CommitRelease(c)
    \/ CommitExpire(c)
    \/ CommitStart(c)
    \/ CommitConfirm(c)
    \/ CommitLate(c)
    \/ CommitRefund(c)

TxNext ==
    \/ \E c \in Conns : Begin(c) \/ LockSeat(c) \/ Commit(c) \/ Rollback(c)
    \/ TickTx

TxSpec == TxInit /\ [][TxNext]_txVars

-----------------------------------------------------------------------------
(***************************************************************************)
(* Properties.                                                             *)
(***************************************************************************)

\* Statement by statement is as good as all at once: every commit changes the database in
\* a way the atomic transactions of SeatInventory allow at that moment, whatever was
\* locked, read, reclaimed or lapsed since the transaction began.
Atomic == [][Next]_vars

\* c waits for a seat that d has locked.
WaitsFor(c, d) ==
    \E s \in NextSeats(c) : s \in DOMAIN tx[d].read

\* No deadlock: there is no group of transactions each of which waits for another one of
\* the group.  HoldSeats takes the seats the customer chose, Release, Apply, RequestRefund
\* and ExpireHolds those of one or of many bookings, and the orders must agree.
NoDeadlock ==
    ~ \E group \in SUBSET Active :
          group # {} /\ \A c \in group : \E d \in group \ {c} : WaitsFor(c, d)

=============================================================================
