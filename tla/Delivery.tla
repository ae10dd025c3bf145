------------------------------ MODULE Delivery ------------------------------
(***************************************************************************)
(* What the outbox promises to the code that inserts events and to the     *)
(* consumers that process them, without leases, batches, attempts or time: *)
(* an event is processed any number of times once it is there, is recorded *)
(* as delivered only after it was processed, and ends in one way.          *)
(***************************************************************************)
CONSTANT Events

VARIABLES
    present,        \* the events inserted so far
    processed,      \* the events a consumer has processed at least once
    delivered,      \* the events recorded as delivered
    dead            \* the events given up

vars == <<present, processed, delivered, dead>>

Init == present = {} /\ processed = {} /\ delivered = {} /\ dead = {}

Insert(e) ==
    /\ e \in Events \ present
    /\ present' = present \cup {e}
    /\ UNCHANGED <<processed, delivered, dead>>

\* Nothing says that an event is processed before it ends: a consumer that was slow may
\* still do its work after the event was recorded or given up.
Process(e) ==
    /\ e \in present
    /\ processed' = processed \cup {e}
    /\ UNCHANGED <<present, delivered, dead>>

Deliver(e) ==
    /\ e \in processed \ dead
    /\ delivered' = delivered \cup {e}
    /\ UNCHANGED <<present, processed, dead>>

GiveUp(e) ==
    /\ e \in present \ delivered
    /\ dead' = dead \cup {e}
    /\ UNCHANGED <<present, processed, delivered>>

Next == \E e \in Events : Insert(e) \/ Process(e) \/ Deliver(e) \/ GiveUp(e)

Spec == Init /\ [][Next]_vars

=============================================================================
