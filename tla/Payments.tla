------------------------------ MODULE Payments ------------------------------
(***************************************************************************)
(* Money: the worker's Dispatch and DispatchRefund, step by step, against  *)
(* an external provider whose answers get lost and whose webhooks arrive   *)
(* late, twice or never (internal/payment, the webhook of                  *)
(* internal/httpapi/payment.go).  The events that set the workers to work  *)
(* come through the outbox, of which only what Delivery promises is used.  *)
(*                                                                         *)
(* A payment stands for its booking too: of the booking only the status    *)
(* and whether its hold is live are kept.  The transactions of Start,      *)
(* Apply and RequestRefund are single steps; SeatTx justifies that.        *)
(***************************************************************************)
EXTENDS Integers, FiniteSets

CONSTANTS
    Ids,            \* ids of payments
    Workers,        \* worker processes
    Notices,        \* the ids under which the provider sends webhooks for a charge
    MaxFaults       \* bound on lost calls, lost answers and crashes

ASSUME PaymentsAssumption == MaxFaults \in Nat

VARIABLES
    booking,        \* booking[p]: status of the booking and whether its hold is live
    payment,        \* payment[p]: payments.status, "NONE" before there is a row
    refund,         \* refund[p]: refunds.status, "NONE" before there is a row
    webhooks,       \* webhook_events: payment and event id
    present, processed, delivered, dead,    \* the outbox, see Delivery
    work,           \* work[w]: what worker w is doing
    charges,        \* the provider: outcome of each charge, by key
    returned,       \* the provider: the payments refunded
    faults

outbox   == <<present, processed, delivered, dead>>
provider == <<charges, returned>>
vars     == <<booking, payment, refund, webhooks, outbox, work, provider, faults>>

Requested(p) == <<"PAYMENT_REQUESTED", p>>
RefundRequested(p) == <<"REFUND_REQUESTED", p>>

Outbox == INSTANCE Delivery WITH
    Events <- {Requested(p) : p \in Ids} \cup {RefundRequested(p) : p \in Ids}

Idle == [step |-> "idle"]

Init ==
    /\ booking = [p \in Ids |-> [status |-> "HELD", live |-> TRUE]]
    /\ payment = [p \in Ids |-> "NONE"]
    /\ refund = [p \in Ids |-> "NONE"]
    /\ webhooks = {}
    /\ Outbox!Init
    /\ work = [w \in Workers |-> Idle]
    /\ charges = {} /\ returned = {}
    /\ faults = 0

Fault == faults < MaxFaults /\ faults' = faults + 1

-----------------------------------------------------------------------------
(***************************************************************************)
(* The booking's side.                                                     *)
(***************************************************************************)

\* A second Start finds PAYMENT_PENDING and only reads.
Start(p) ==
    /\ booking[p] = [status |-> "HELD", live |-> TRUE]
    /\ booking' = [booking EXCEPT ![p].status = "PAYMENT_PENDING"]
    /\ payment' = [payment EXCEPT ![p] = "PENDING"]
    /\ Outbox!Insert(Requested(p))
    /\ UNCHANGED <<refund, webhooks, work, provider, faults>>

Lapse(p) ==
    /\ booking[p].live /\ booking[p].status \in {"HELD", "PAYMENT_PENDING"}
    /\ booking' = [booking EXCEPT ![p].live = FALSE]
    /\ UNCHANGED <<payment, refund, webhooks, outbox, work, provider, faults>>

\* ExpireHolds; its outbox event concerns no payment.
Expire(p) ==
    /\ ~booking[p].live /\ booking[p].status \in {"HELD", "PAYMENT_PENDING"}
    /\ booking' = [booking EXCEPT ![p].status = "EXPIRED"]
    /\ UNCHANGED <<payment, refund, webhooks, outbox, work, provider, faults>>

RequestRefund(p) ==
    /\ booking[p].status = "CONFIRMED" /\ payment[p] = "SUCCEEDED" /\ refund[p] = "NONE"
    /\ booking' = [booking EXCEPT ![p].status = "CANCELLED"]
    /\ payment' = [payment EXCEPT ![p] = "REFUND_PENDING"]
    /\ refund' = [refund EXCEPT ![p] = "PENDING"]
    /\ Outbox!Insert(RefundRequested(p))
    /\ UNCHANGED <<webhooks, work, provider, faults>>

-----------------------------------------------------------------------------
(***************************************************************************)
(* Apply: what the provider answered, or sent in a webhook.                *)
(***************************************************************************)

\* Mutant: a payment that was refunded is applied to again.
FinalUntilRefunded(p) == payment[p] \in {"SUCCEEDED", "REFUND_PENDING"}
Final(p) == payment[p] \in {"SUCCEEDED", "REFUND_PENDING", "REFUNDED"}

\* Mutant: the refund is recorded and nobody is told.
LateSilent(p) ==
    /\ payment' = [payment EXCEPT ![p] = "REFUND_PENDING"]
    /\ refund' = [refund EXCEPT ![p] = IF @ = "NONE" THEN "PENDING" ELSE @]
    /\ UNCHANGED <<booking, outbox>>

\* The hold has ended: the money goes back.  The payment is final from here on, so there is
\* one such event for a payment.
Late(p) ==
    /\ payment' = [payment EXCEPT ![p] = "REFUND_PENDING"]
    /\ refund' = [refund EXCEPT ![p] = IF @ = "NONE" THEN "PENDING" ELSE @]
    /\ IF RefundRequested(p) \in present THEN UNCHANGED outbox
                                         ELSE Outbox!Insert(RefundRequested(p))
    /\ UNCHANGED booking

Confirm(p) ==
    /\ payment' = [payment EXCEPT ![p] = "SUCCEEDED"]
    /\ booking' = [booking EXCEPT ![p] = [status |-> "CONFIRMED", live |-> FALSE]]
    /\ UNCHANGED <<refund, outbox>>

Failed(p) ==
    /\ payment' = [payment EXCEPT ![p] = "FAILED"]
    /\ UNCHANGED <<booking, refund, outbox>>

Nothing == UNCHANGED <<booking, payment, refund, outbox>>

\* A webhook_events row that is there already, and a final payment, end it early.
Apply(p, event, status) ==
    /\ webhooks' = webhooks \cup {<<p, event>>}
    /\ IF <<p, event>> \in webhooks \/ Final(p) THEN Nothing
       ELSE IF status = "FAILED" THEN Failed(p)
       ELSE IF booking[p] = [status |-> "PAYMENT_PENDING", live |-> TRUE] THEN Confirm(p)
       ELSE Late(p)

-----------------------------------------------------------------------------
(***************************************************************************)
(* The provider (external).  Charge and Refund are idempotent by key, as   *)
(* FakeProvider's are and docs/architecture.md asks of real ones.          *)
(***************************************************************************)

\* payment_attempts.provider_key, drawn once at Start.
\* Mutant: a key for every dispatch.
ProviderKeyPerDispatch(p, w) == <<p, w>>
ProviderKey(p, w) == <<p>>

Known(key) == {c \in charges : c.key = key}

Charged(p) == \E c \in charges : c.payment = p /\ c.status = "SUCCEEDED"

\* The webhook of a charge: in any order, any number of times, under several ids.
Webhook(c, n) ==
    /\ Apply(c.payment, <<"webhook", n>>, c.status)
    /\ UNCHANGED <<work, provider, faults>>

-----------------------------------------------------------------------------
(***************************************************************************)
(* The worker.                                                             *)
(***************************************************************************)

Goto(w, step) == work' = [work EXCEPT ![w].step = step]

Return(w) == work' = [work EXCEPT ![w] = Idle]

\* Batch hands w an event.  Two workers may have the same one: a lease may run out.
Take(w, e) ==
    /\ work[w] = Idle
    /\ e \in present \ (delivered \cup dead)
    /\ work' = [work EXCEPT ![w] = [step |-> "read", event |-> e, result |-> "NONE"]]
    /\ UNCHANGED <<booking, payment, refund, webhooks, outbox, provider, faults>>

\* Publish returned nil, or a timeout came in its place.
Publish(w) ==
    /\ work[w].step = "published"
    /\ Outbox!Process(work[w].event)
    /\ Return(w)
    /\ UNCHANGED <<booking, payment, refund, webhooks, provider, faults>>

Record(e) ==
    /\ e \notin delivered
    /\ Outbox!Deliver(e)
    /\ UNCHANGED <<booking, payment, refund, webhooks, work, provider, faults>>

DeadLetter(e) ==
    /\ e \notin dead
    /\ Outbox!GiveUp(e)
    /\ UNCHANGED <<booking, payment, refund, webhooks, work, provider, faults>>

\* The process dies, the job's deadline passes, or a statement fails.
Crash(w) ==
    /\ work[w] # Idle
    /\ Fault
    /\ Return(w)
    /\ UNCHANGED <<booking, payment, refund, webhooks, outbox, provider>>

\* Dispatch reads the status without a transaction.
Dispatch(w, p) ==
    /\ work[w].step = "read" /\ work[w].event = Requested(p)
    /\ Goto(w, IF Final(p) THEN "published" ELSE "lookup")
    /\ UNCHANGED <<booking, payment, refund, webhooks, outbox, provider, faults>>

Lookup(w, p) ==
    LET known == Known(ProviderKey(p, w))
    IN  /\ work[w].step = "lookup" /\ work[w].event = Requested(p)
        /\ \/ /\ known = {}
              /\ Goto(w, "charge") /\ UNCHANGED faults
           \/ \E c \in known :
                work' = [work EXCEPT ![w].step = "apply", ![w].result = c.status]
                /\ UNCHANGED faults
           \/ Fault /\ Goto(w, "charge")
        /\ UNCHANGED <<booking, payment, refund, webhooks, outbox, provider>>

\* The provider charges, once for a key.  The call or its answer may be lost.
Charge(w, p) ==
    LET key == ProviderKey(p, w)
    IN  /\ work[w].step = "charge" /\ work[w].event = Requested(p)
        /\ \/ \E status \in {"SUCCEEDED", "FAILED"} :
                /\ \A c \in Known(key) : c.status = status
                /\ charges' = charges \cup {[key |-> key, payment |-> p, status |-> status]}
                /\ \/ /\ work' = [work EXCEPT ![w].step = "apply", ![w].result = status]
                      /\ UNCHANGED faults
                   \/ Fault /\ Goto(w, "uncertain")
           \/ Fault /\ Goto(w, "uncertain") /\ UNCHANGED charges
        /\ UNCHANGED <<booking, payment, refund, webhooks, outbox, returned>>

Uncertain(w, p) ==
    /\ work[w].step = "uncertain" /\ work[w].event = Requested(p)
    /\ payment' = [payment EXCEPT ![p] =
          IF @ \in {"PENDING", "RECONCILIATION_REQUIRED"} THEN "RECONCILIATION_REQUIRED" ELSE @]
    /\ Return(w)
    /\ UNCHANGED <<booking, refund, webhooks, outbox, provider, faults>>

DispatchApply(w, p) ==
    /\ work[w].step = "apply" /\ work[w].event = Requested(p)
    /\ Apply(p, <<"dispatch", ProviderKey(p, w), work[w].result>>, work[w].result)
    /\ Goto(w, "published")
    /\ UNCHANGED <<provider, faults>>

DispatchRefund(w, p) ==
    /\ work[w].step = "read" /\ work[w].event = RefundRequested(p)
    /\ Goto(w, IF refund[p] = "SUCCEEDED" THEN "published" ELSE "refund")
    /\ UNCHANGED <<booking, payment, refund, webhooks, outbox, provider, faults>>

\* Provider.Refund: it succeeds; it answers something else than SUCCEEDED, which changes
\* nothing; or its outcome is not known.
Refund(w, p) ==
    /\ work[w].step = "refund" /\ work[w].event = RefundRequested(p)
    /\ \/ /\ returned' = returned \cup {p}
          /\ Goto(w, "refunded") /\ UNCHANGED faults
       \/ Fault /\ Return(w) /\ UNCHANGED returned
       \/ Fault /\ Goto(w, "unknown") /\ returned' \in {returned, returned \cup {p}}
    /\ UNCHANGED <<booking, payment, refund, webhooks, outbox, charges>>

\* Mutant: the refund is marked whatever its status.
RefundUnknownAlways(p) == [refund EXCEPT ![p] = "UNKNOWN"]
RefundUnknown(p) == [refund EXCEPT ![p] = IF @ = "SUCCEEDED" THEN @ ELSE "UNKNOWN"]

MarkUnknown(w, p) ==
    /\ work[w].step = "unknown" /\ work[w].event = RefundRequested(p)
    /\ refund' = RefundUnknown(p)
    /\ Return(w)
    /\ UNCHANGED <<booking, payment, webhooks, outbox, provider, faults>>

\* The UPDATE of a payment that is not REFUND_PENDING any more touches no row.
SettleRefund(w, p) ==
    /\ work[w].step = "refunded" /\ work[w].event = RefundRequested(p)
    /\ IF payment[p] = "REFUND_PENDING"
       THEN /\ payment' = [payment EXCEPT ![p] = "REFUNDED"]
            /\ refund' = [refund EXCEPT ![p] = "SUCCEEDED"]
            /\ booking' = [booking EXCEPT ![p].status = IF @ = "CANCELLED" THEN "REFUNDED" ELSE @]
       ELSE UNCHANGED <<payment, refund, booking>>
    /\ Goto(w, "published")
    /\ UNCHANGED <<webhooks, outbox, provider, faults>>

-----------------------------------------------------------------------------
Work(w) ==
    \/ \E e \in present : Take(w, e)
    \/ \E p \in Ids :
          \/ Dispatch(w, p) \/ Lookup(w, p) \/ Charge(w, p) \/ Uncertain(w, p)
          \/ DispatchApply(w, p)
          \/ DispatchRefund(w, p) \/ Refund(w, p) \/ MarkUnknown(w, p) \/ SettleRefund(w, p)
    \/ Publish(w)

Next ==
    \/ \E p \in Ids : Start(p) \/ Lapse(p) \/ Expire(p) \/ RequestRefund(p)
    \/ \E c \in charges, n \in Notices : Webhook(c, n)
    \/ \E w \in Workers : Work(w) \/ Crash(w)
    \/ \E e \in present : Record(e) \/ DeadLetter(e)

\* Workers go on, and what was published without an error is recorded (Outbox!Settles).
Fairness ==
    /\ \A w \in Workers : WF_vars(Work(w))
    /\ WF_vars(\E e \in present : Record(e))

Spec == Init /\ [][Next]_vars

FairSpec == Spec /\ Fairness

-----------------------------------------------------------------------------
(***************************************************************************)
(* Properties.                                                             *)
(***************************************************************************)

\* "uses a stable provider key, including retries following ambiguous timeouts": however
\* often a payment is dispatched, by workers side by side or after lost answers, the
\* customer is charged once.
ChargedOnce == \A c, d \in charges :
    c.payment = d.payment /\ {c.status, d.status} = {"SUCCEEDED"} => c = d

\* The books agree with the provider's.  A confirmed booking is paid for and the money has
\* not gone back; what is booked as failed was not charged, what is booked as refunded
\* was; and money goes back only for a payment booked as on its way back.
MoneyMatches == \A p \in Ids :
    /\ booking[p].status = "CONFIRMED" => payment[p] = "SUCCEEDED"
    /\ payment[p] = "SUCCEEDED" => Charged(p) /\ booking[p].status = "CONFIRMED"
    /\ payment[p] = "FAILED" => ~Charged(p)
    /\ payment[p] = "REFUNDED" => Charged(p) /\ p \in returned /\ refund[p] = "SUCCEEDED"
    /\ p \in returned => payment[p] \in {"REFUND_PENDING", "REFUNDED"}

\* A settled payment only goes forward, although late webhooks and the reports of slow
\* workers keep coming.
NeverBack ==
    [][\A p \in Ids :
          /\ payment[p] = "SUCCEEDED" => payment'[p] \in {"SUCCEEDED", "REFUND_PENDING"}
          /\ payment[p] = "REFUND_PENDING" => payment'[p] \in {"REFUND_PENDING", "REFUNDED"}
          /\ payment[p] = "REFUNDED" => payment'[p] = "REFUNDED"]_vars

\* The customer has paid and has neither the seats nor the money back.
Owing(p) == Charged(p) /\ p \notin returned /\ booking[p].status # "CONFIRMED"

\* That does not last: the booking is confirmed or the money goes back, unless the outbox
\* has given up on one of the payment's events.
OwingEnds == \A p \in Ids :
    Owing(p) ~> (~Owing(p) \/ Requested(p) \in dead \/ RefundRequested(p) \in dead)

=============================================================================
