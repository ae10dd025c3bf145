------------------------------- MODULE Quotes -------------------------------
(***************************************************************************)
(* Prices: quote.Create, which adds up fare offers in 64-bit integers, and *)
(* booking.Create as far as it consumes a quote, statement by statement,   *)
(* while an operator changes and withdraws fare offers.                    *)
(*                                                                         *)
(* The clock is left out: offers, quotes and flights do not end here (see  *)
(* SeatInventory for that), they are withdrawn.                            *)
(***************************************************************************)
EXTENDS Integers, FiniteSets, FiniteSetsExt

CONSTANTS
    Fares,          \* fare_offers, in the order of their ids
    FlightOf, CurrencyOf,
    Offers,         \* what an offer may cost: price_minor and taxes_minor
    MaxInt,         \* math.MaxInt64
    MaxCount,       \* passengers of a quote: 9
    MaxItems,       \* items of a quote: 4
    Quotes,         \* ids of price_quotes
    Sessions,       \* requests that may run at a time
    NULL,           \* no row
    MaxChanges      \* bound on what the operator does

\* Items: fares and what they cost.
ItemLists == UNION {[S -> Offers] : S \in SUBSET Fares}

ASSUME QuotesAssumption ==
    /\ Fares \subseteq Nat
    /\ NULL \notin [status : {"ACTIVE", "USED"}, count : Nat, total : Nat, items : ItemLists]
    /\ MaxInt \in Nat /\ MaxCount \in Nat /\ MaxItems \in Nat /\ MaxChanges \in Nat
    /\ \A o \in Offers : o.price \in 0..MaxInt /\ o.taxes \in 0..MaxInt

VARIABLES
    fares,          \* fares[f]: the offer, and whether it is_active
    quotes,         \* quotes[q]: status, count, total_minor and the items' offers
    bookings,       \* the bookings made: quote, total_minor and segments
    tx,             \* tx[c]: the transaction of session c
    changes

vars == <<fares, quotes, bookings, tx, changes>>

Idle == [op |-> "idle"]

Init ==
    /\ fares \in [Fares -> {[offer |-> o, active |-> TRUE] : o \in Offers}]
    /\ quotes = [q \in Quotes |-> NULL]
    /\ bookings = {}
    /\ tx = [c \in Sessions |-> Idle]
    /\ changes = 0

End(c) == tx' = [tx EXCEPT ![c] = Idle]

\* int64 arithmetic wraps around.
Int64(n) == ((n + MaxInt + 1) % (2 * (MaxInt + 1))) - (MaxInt + 1)

-----------------------------------------------------------------------------
(***************************************************************************)
(* The operator (external).                                                *)
(***************************************************************************)

\* The fares session c has locked FOR SHARE.
\* Mutant: they are read without a lock.
SharedNone(c) == {}
Shared(c) ==
    CASE tx[c].op \in {"quote", "refused"} -> DOMAIN tx[c].read
      [] tx[c].op = "book" /\ tx[c].locked -> DOMAIN quotes[tx[c].quote].items
      [] OTHER -> {}

Change(f) ==
    /\ changes < MaxChanges /\ changes' = changes + 1
    /\ \A c \in Sessions : f \notin Shared(c)
    /\ \/ \E o \in Offers : fares' = [fares EXCEPT ![f].offer = o]
       \/ fares' = [fares EXCEPT ![f].active = ~@]
    /\ UNCHANGED <<quotes, bookings, tx>>

-----------------------------------------------------------------------------
(***************************************************************************)
(* quote.Create.                                                           *)
(***************************************************************************)

\* The items are distinct offers for one number of passengers; the code reads them in the
\* order of their ids.
Ask(c, items, count) ==
    /\ tx[c] = Idle
    /\ Cardinality(items) \in 1..MaxItems /\ count \in 1..MaxCount
    /\ tx' = [tx EXCEPT ![c] = [op |-> "quote", items |-> items, count |-> count,
                                read |-> [f \in {} |-> NULL], total |-> 0]]
    /\ UNCHANGED <<fares, quotes, bookings, changes>>

\* One flight once, one currency.
Fits(f, read) ==
    \A g \in DOMAIN read : FlightOf[g] # FlightOf[f] /\ CurrencyOf[g] = CurrencyOf[f]

\* Price > MaxInt64-Taxes || Price+Taxes > (MaxInt64-TotalMinor)/Count
\* Mutant: the total so far is left out.
OverflowsAlone(o, total, count) ==
    o.price > MaxInt - o.taxes \/ o.price + o.taxes > MaxInt \div count
Overflows(o, total, count) ==
    o.price > MaxInt - o.taxes \/ o.price + o.taxes > (MaxInt - total) \div count

Unread(c) == tx[c].items \ DOMAIN tx[c].read

WithFare(read, f, o) == [g \in DOMAIN read \cup {f} |-> IF g = f THEN o ELSE read[g]]

\* An offer that is withdrawn or does not fit ends the request: see Rollback.
ReadFare(c) ==
    LET f == Min(Unread(c))
        o == fares[f].offer
    IN  /\ tx[c].op = "quote" /\ Unread(c) # {}
        /\ fares[f].active /\ Fits(f, tx[c].read)
        /\ LET t == [tx[c] EXCEPT !.read = WithFare(@, f, o)]
           IN  tx' = [tx EXCEPT ![c] =
                  IF Overflows(o, t.total, t.count)
                  THEN [t EXCEPT !.op = "refused"]
                  ELSE [t EXCEPT !.total = Int64(@ + (o.price + o.taxes) * t.count)]]
        /\ UNCHANGED <<fares, quotes, bookings, changes>>

\* The INSERTs and the commit.
Quote(c, q) ==
    /\ tx[c].op = "quote" /\ Unread(c) = {}
    /\ quotes[q] = NULL
    /\ quotes' = [quotes EXCEPT ![q] = [status |-> "ACTIVE", count |-> tx[c].count,
                                       total |-> tx[c].total, items |-> tx[c].read]]
    /\ End(c)
    /\ UNCHANGED <<fares, bookings, changes>>

-----------------------------------------------------------------------------
(***************************************************************************)
(* booking.Create.                                                         *)
(***************************************************************************)

\* Mutant: the quote is read without FOR UPDATE.
QuoteFreeAlways(q) == TRUE
QuoteFree(q) == \A c \in Sessions : tx[c].op = "book" => tx[c].quote # q

\* The quote is locked; ErrBookingNotHoldable if it is used.
Book(c, q) ==
    /\ tx[c] = Idle
    /\ quotes[q] # NULL /\ quotes[q].status = "ACTIVE" /\ QuoteFree(q)
    /\ tx' = [tx EXCEPT ![c] = [op |-> "book", quote |-> q, locked |-> FALSE, checked |-> FALSE]]
    /\ UNCHANGED <<fares, quotes, bookings, changes>>

LockFares(c) ==
    /\ tx[c].op = "book" /\ ~tx[c].locked
    /\ tx' = [tx EXCEPT ![c].locked = TRUE]
    /\ UNCHANGED <<fares, quotes, bookings, changes>>

CheckFares(c) ==
    /\ tx[c].op = "book" /\ tx[c].locked /\ ~tx[c].checked
    /\ \A f \in DOMAIN quotes[tx[c].quote].items : fares[f].active
    /\ tx' = [tx EXCEPT ![c].checked = TRUE]
    /\ UNCHANGED <<fares, quotes, bookings, changes>>

\* unit_price_minor*passenger_count, taxes_minor*passenger_count
Segments(quote) ==
    [f \in DOMAIN quote.items |-> [price |-> quote.items[f].price * quote.count,
                                   taxes |-> quote.items[f].taxes * quote.count]]

\* The INSERTs, the quote's USED, and the commit.
Create(c) ==
    LET q == tx[c].quote
    IN  /\ tx[c].op = "book" /\ tx[c].checked
        /\ bookings' = bookings \cup {[quote |-> q, by |-> c, total |-> quotes[q].total,
                                      segments |-> Segments(quotes[q])]}
        /\ quotes' = [quotes EXCEPT ![q].status = "USED"]
        /\ End(c)
        /\ UNCHANGED <<fares, changes>>

\* Any error, and the answer to a request that was refused.
Rollback(c) ==
    /\ tx[c] # Idle
    /\ End(c)
    /\ UNCHANGED <<fares, quotes, bookings, changes>>

-----------------------------------------------------------------------------
Next ==
    \/ \E f \in Fares : Change(f)
    \/ \E c \in Sessions :
          \/ \E items \in SUBSET Fares, count \in 1..MaxCount : Ask(c, items, count)
          \/ ReadFare(c)
          \/ \E q \in Quotes : Quote(c, q) \/ Book(c, q)
          \/ LockFares(c) \/ CheckFares(c) \/ Create(c)
          \/ Rollback(c)

Spec == Init /\ [][Next]_vars

-----------------------------------------------------------------------------
(***************************************************************************)
(* Properties.                                                             *)
(***************************************************************************)

\* What the offers cost for count passengers, in unbounded integers.
Exact(offers, count) ==
    MapThenSumSet(LAMBDA f : (offers[f].price + offers[f].taxes) * count, DOMAIN offers)

\* The running total is exact, and a request is refused for its price only if the exact
\* total does not fit 64 bits: the division in the guard of quote.Create neither lets a sum
\* wrap around nor turns one away that just fits.
TotalExact == \A c \in Sessions :
    /\ tx[c].op = "quote" => tx[c].total = Exact(tx[c].read, tx[c].count)
    /\ tx[c].op = "refused" => Exact(tx[c].read, tx[c].count) > MaxInt

\* "Quotes snapshot prices, taxes and refund eligibility from locked fare offers" and "Fare
\* and flight locks keep eligibility stable until quote consumption commits": a quote
\* carries, for all its items at once, what the offers cost when it commits, and neither a
\* quote nor a booking commits over an offer that was withdrawn while it was being made.
OffersStand ==
    [][/\ \A q \in Quotes : quotes[q] = NULL /\ quotes'[q] # NULL =>
             \A f \in DOMAIN quotes'[q].items :
                 fares[f].active /\ fares[f].offer = quotes'[q].items[f]
       /\ \A b \in bookings' \ bookings :
             \A f \in DOMAIN b.segments : fares[f].active]_vars

\* A quote makes one booking, which costs what was quoted: the segments add up to the
\* total.  Two requests for one quote never both get as far as the INSERT, so the unique
\* constraint on price_quote_id, which the model leaves out, is not needed.
BookedAsQuoted ==
    /\ \A b \in bookings :
          /\ b.total = quotes[b.quote].total
          /\ b.total = Exact(b.segments, 1)
          /\ \A s \in DOMAIN b.segments : b.segments[s].price <= MaxInt
    /\ \A b, d \in bookings : b.quote = d.quote => b = d

=============================================================================
