--------------------------- MODULE SeatOwnership ---------------------------
(***************************************************************************)
(* What the seat inventory promises, without segments, passengers,         *)
(* payments or transactions: who owns each seat, and the few ways in which *)
(* a seat changes hands.  A booking's seats are taken, given back, bought  *)
(* and refunded together; a seat whose hold is running is nobody else's.   *)
(***************************************************************************)
EXTENDS Integers

CONSTANTS Seats, Bookings, NULL

VARIABLES
    now,            \* the time
    claim           \* claim[s]: the state of seat s, who claims it and until when

vars == <<now, claim>>

Free    == [state |-> "AVAILABLE", booking |-> NULL, expires |-> NULL]
Blocked == [state |-> "BLOCKED", booking |-> NULL, expires |-> NULL]
Held(b, e) == [state |-> "HELD", booking |-> b, expires |-> e]
Booked(b)  == [state |-> "BOOKED", booking |-> b, expires |-> NULL]

Init ==
    /\ now = 0
    /\ claim \in [Seats -> {Free, Blocked}]

\* A seat is open to b when it is free, when the hold on it has ended, or when b holds it
\* already until the very same time.
Open(s, b, e) ==
    \/ claim[s] = Free
    \/ claim[s].state = "HELD" /\ claim[s].expires <= now
    \/ claim[s] = Held(b, e)

Hold(b, S, e) ==
    /\ e \in Nat
    /\ \A s \in S : Open(s, b, e)
    /\ claim' = [s \in Seats |-> IF s \in S THEN Held(b, e) ELSE claim[s]]
    /\ UNCHANGED now

Mine(B, state) == {s \in Seats : claim[s].state = state /\ claim[s].booking \in B}

GiveBack(B) ==
    /\ claim' = [s \in Seats |-> IF s \in Mine(B, "HELD") THEN Free ELSE claim[s]]
    /\ UNCHANGED now

Buy(b) ==
    /\ Mine({b}, "HELD") # {}
    /\ claim' = [s \in Seats |-> IF s \in Mine({b}, "HELD") THEN Booked(b) ELSE claim[s]]
    /\ UNCHANGED now

Refund(b) ==
    /\ claim' = [s \in Seats |-> IF s \in Mine({b}, "BOOKED") THEN Free ELSE claim[s]]
    /\ UNCHANGED now

Tick == now' = now + 1 /\ UNCHANGED claim

Next ==
    \/ \E b \in Bookings :
          \/ \E S \in SUBSET Seats : \E e \in {claim'[s].expires : s \in S} : Hold(b, S, e)
          \/ Buy(b)
          \/ Refund(b)
    \/ \E B \in SUBSET Bookings : GiveBack(B)
    \/ Tick

Spec == Init /\ [][Next]_vars

=============================================================================
