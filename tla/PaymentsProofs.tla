--------------------------- MODULE PaymentsProofs ---------------------------
(***************************************************************************)
(* Proofs about Payments for any number of payments, workers, webhook ids  *)
(* and faults.                                                             *)
(***************************************************************************)
EXTENDS Payments, TLAPS

BookingStatus ==
    {"HELD", "PAYMENT_PENDING", "EXPIRED", "CONFIRMED", "CANCELLED", "REFUNDED"}

PaymentStatus ==
    {"NONE", "PENDING", "RECONCILIATION_REQUIRED", "SUCCEEDED", "FAILED",
     "REFUND_PENDING", "REFUNDED"}

RefundStatus == {"NONE", "PENDING", "UNKNOWN", "SUCCEEDED"}

Outcome == {"SUCCEEDED", "FAILED"}

Events == {Requested(p) : p \in Ids} \cup {RefundRequested(p) : p \in Ids}

Job == [step : {"read", "lookup", "charge", "uncertain", "apply", "published", "refund",
                "refunded", "unknown"},
        event : Events, result : Outcome \cup {"NONE"}]

Tables ==
    /\ booking \in [Ids -> [status : BookingStatus, live : BOOLEAN]]
    /\ payment \in [Ids -> PaymentStatus]
    /\ refund \in [Ids -> RefundStatus]
    /\ present \subseteq Events
    /\ work \in [Workers -> Job \cup {Idle}]
    /\ returned \subseteq Ids

LEMMA EventsDiffer ==
  /\ \A p, q \in Ids : /\ Requested(p) = Requested(q) => p = q
                       /\ RefundRequested(p) = RefundRequested(q) => p = q
                       /\ Requested(p) # RefundRequested(q)
  /\ \A p \in Ids : Requested(p) \in Events /\ RefundRequested(p) \in Events
  BY DEF Requested, RefundRequested, Events

(***************************************************************************)
(* The inductive invariant.                                                *)
(***************************************************************************)

\* The key stands for the payment, and the provider decides once about a key.
Charges ==
    /\ charges \subseteq [key : {<<p>> : p \in Ids}, payment : Ids, status : Outcome]
    /\ \A c \in charges : c.key = <<c.payment>> /\ Requested(c.payment) \in present
    /\ \A c, d \in charges : c.payment = d.payment => c = d

Money(p) ==
    /\ booking[p].status = "CONFIRMED" => payment[p] = "SUCCEEDED"
    /\ payment[p] = "SUCCEEDED" => Charged(p) /\ booking[p].status = "CONFIRMED"
    /\ payment[p] = "FAILED" => ~Charged(p)
    /\ payment[p] = "REFUNDED" => Charged(p) /\ p \in returned /\ refund[p] = "SUCCEEDED"
    /\ p \in returned => payment[p] \in {"REFUND_PENDING", "REFUNDED"}

\* What the rows of a payment say about one another, the outbox and the provider.
Book(p) ==
    /\ Money(p)
    /\ booking[p].status = "HELD" => payment[p] = "NONE"
    /\ payment[p] = "NONE" <=> Requested(p) \notin present
    /\ RefundRequested(p) \in present => payment[p] \in {"REFUND_PENDING", "REFUNDED"}
    /\ payment[p] = "REFUND_PENDING" => Charged(p)
    /\ payment[p] = "FAILED" => \E c \in charges : c.payment = p
    /\ refund[p] = "SUCCEEDED" <=> payment[p] = "REFUNDED"

\* What a worker carries from one step of its job to the next is true at the provider.
Carries(w) ==
    /\ work[w].event \in present
    /\ work[w].step = "apply" =>
          \E c \in charges : Requested(c.payment) = work[w].event /\ c.status = work[w].result
    /\ work[w].step = "refunded" =>
          \A p \in Ids : work[w].event = RefundRequested(p) => p \in returned

Inv ==
    /\ Tables
    /\ Charges
    /\ \A p \in Ids : Book(p)
    /\ \A w \in Workers : work[w] # Idle => Carries(w)

LEMMA InvInit == Init => Inv
<1> SUFFICES ASSUME Init PROVE Inv
  OBVIOUS
<1>1. Tables
  BY DEF Init, Tables, Outbox!Init, BookingStatus, PaymentStatus, RefundStatus
<1>2. Charges
  BY DEF Init, Charges
<1>3. \A p \in Ids : Book(p)
  BY DEF Init, Book, Money, Outbox!Init
<1>4. \A w \in Workers : work[w] = Idle
  BY DEF Init
<1> QED
  BY <1>1, <1>2, <1>3, <1>4 DEF Inv

-----------------------------------------------------------------------------
(***************************************************************************)
(* What steps leave alone.                                                 *)
(***************************************************************************)

LEMMA BookKept ==
  ASSUME NEW p \in Ids, Book(p),
         booking'[p].status = booking[p].status, payment'[p] = payment[p],
         refund'[p] = refund[p], charges' = charges,
         p \in returned' <=> p \in returned,
         Requested(p) \in present' <=> Requested(p) \in present,
         RefundRequested(p) \in present' <=> RefundRequested(p) \in present
  PROVE  Book(p)'
  BY DEF Book, Money, Charged

\* Jobs stay true while the outbox and the provider only ever gain.
LEMMA CarriesKept ==
  ASSUME Inv, present \subseteq present', charges \subseteq charges',
         returned \subseteq returned', NEW w \in Workers, work[w] # Idle, work'[w] = work[w]
  PROVE  Carries(w)'
  BY DEF Inv, Carries

\* A step of a worker that writes none of the books.
LEMMA WorkerStep ==
  ASSUME Inv, NEW w \in Workers, NEW j \in Job \cup {Idle}, work' = [work EXCEPT ![w] = j],
         UNCHANGED <<booking, payment, refund, present, provider>>,
         j # Idle => Carries(w)'
  PROVE  Inv'
<1>1. work'[w] = j /\ \A v \in Workers \ {w} : work'[v] = work[v]
  BY DEF Inv, Tables
<1>2. Tables'
  BY DEF Inv, Tables, provider
<1>3. Charges' /\ \A p \in Ids : Book(p)'
  BY BookKept DEF Inv, Charges, provider
<1>4. \A v \in Workers : work'[v] # Idle => Carries(v)'
  BY <1>1, CarriesKept DEF provider
<1> QED
  BY <1>2, <1>3, <1>4 DEF Inv

\* Another step of the same job.
LEMMA GotoType ==
  ASSUME Inv, NEW w \in Workers, work[w] # Idle,
         NEW to \in {"read", "lookup", "charge", "uncertain", "apply", "published", "refund",
                     "refunded", "unknown"},
         Goto(w, to)
  PROVE  /\ work' = [work EXCEPT ![w] = [work[w] EXCEPT !.step = to]]
         /\ [work[w] EXCEPT !.step = to] \in Job
         /\ work' \in [Workers -> Job \cup {Idle}]
         /\ work'[w].step = to /\ work'[w].event = work[w].event
         /\ work'[w].result = work[w].result
         /\ \A v \in Workers \ {w} : work'[v] = work[v]
<1>1. work[w] \in Job /\ work \in [Workers -> Job \cup {Idle}]
  BY DEF Inv, Tables
<1>2. work' = [work EXCEPT ![w] = [work[w] EXCEPT !.step = to]]
  BY <1>1 DEF Goto, Job
<1> DEFINE j == [work[w] EXCEPT !.step = to]
<1>3. j \in Job /\ j.step = to /\ j.event = work[w].event /\ j.result = work[w].result
  BY <1>1 DEF Job
<1>4. work'[w] = j /\ \A v \in Workers \ {w} : work'[v] = work[v]
  BY <1>1, <1>2
<1>5. work' \in [Workers -> Job \cup {Idle}]
  BY <1>1, <1>2, <1>3
<1> QED
  BY <1>2, <1>3, <1>4, <1>5

LEMMA GotoStep ==
  ASSUME Inv, NEW w \in Workers, work[w] # Idle,
         NEW to \in {"read", "lookup", "charge", "uncertain", "published", "refund", "unknown"},
         Goto(w, to), UNCHANGED <<booking, payment, refund, present, provider>>
  PROVE  Inv'
<1>1. /\ work' = [work EXCEPT ![w] = [work[w] EXCEPT !.step = to]]
      /\ [work[w] EXCEPT !.step = to] \in Job
      /\ work'[w].step = to /\ work'[w].event = work[w].event
  BY GotoType
<1>2. Carries(w)'
  BY <1>1 DEF Inv, Carries
<1> QED
  BY <1>1, <1>2, WorkerStep

LEMMA ReturnStep ==
  ASSUME Inv, NEW w \in Workers, Return(w),
         UNCHANGED <<booking, payment, refund, present, provider>>
  PROVE  Inv'
  BY WorkerStep DEF Return

-----------------------------------------------------------------------------
(***************************************************************************)
(* The booking's side, and Apply.                                          *)
(***************************************************************************)

Rows ==
    /\ booking \in [Ids -> [status : BookingStatus, live : BOOLEAN]]
    /\ payment \in [Ids -> PaymentStatus]
    /\ refund \in [Ids -> RefundStatus]
    /\ present \subseteq Events

\* One payment's rows and events change, the provider's books do not.
LEMMA BooksStep ==
  ASSUME Inv, NEW p \in Ids, Rows', Book(p)', UNCHANGED provider, present \subseteq present',
         \A q \in Ids \ {p} :
            /\ booking'[q].status = booking[q].status
            /\ payment'[q] = payment[q] /\ refund'[q] = refund[q]
            /\ Requested(q) \in present' <=> Requested(q) \in present
            /\ RefundRequested(q) \in present' <=> RefundRequested(q) \in present
  PROVE  /\ Charges'
         /\ \A q \in Ids : Book(q)'
         /\ work' = work => Inv'
<1>1. Charges'
  BY DEF Inv, Charges, provider
<1>2. \A q \in Ids : Book(q)'
  BY BookKept DEF Inv, provider
<1>3. ASSUME work' = work PROVE Inv'
  <2>1. Tables'
    BY <1>3 DEF Inv, Tables, Rows, provider
  <2>2. \A w \in Workers : work'[w] # Idle => Carries(w)'
    BY <1>3, CarriesKept DEF provider
  <2> QED
    BY <1>1, <1>2, <2>1, <2>2 DEF Inv
<1> QED
  BY <1>1, <1>2, <1>3

LEMMA StartStep == ASSUME Inv, NEW p \in Ids, Start(p) PROVE Inv'
<1>1. /\ booking[p].status = "HELD" /\ Requested(p) \notin present
      /\ booking' = [booking EXCEPT ![p].status = "PAYMENT_PENDING"]
      /\ payment' = [payment EXCEPT ![p] = "PENDING"]
      /\ present' = present \cup {Requested(p)}
      /\ UNCHANGED <<refund, work, provider>>
  BY DEF Start, Outbox!Insert
<1>2. /\ Rows /\ booking[p] \in [status : BookingStatus, live : BOOLEAN]
  BY DEF Inv, Tables, Rows
<1>3. /\ booking'[p].status = "PAYMENT_PENDING" /\ payment'[p] = "PENDING"
      /\ Requested(p) \in present'
      /\ RefundRequested(p) \in present' <=> RefundRequested(p) \in present
  BY <1>1, <1>2, EventsDiffer DEF Rows
<1>4. Rows'
  <2>1. booking' \in [Ids -> [status : BookingStatus, live : BOOLEAN]]
    BY <1>1, <1>2 DEF Rows, BookingStatus
  <2> QED
    BY <1>1, <1>2, <2>1, EventsDiffer DEF Rows, PaymentStatus
<1>5. Book(p)'
  <2>1. payment[p] = "NONE" /\ Book(p)
    BY <1>1 DEF Inv, Book
  <2> QED
    BY <1>1, <1>3, <2>1 DEF Book, Money, provider
<1>6. \A q \in Ids \ {p} :
         /\ booking'[q].status = booking[q].status
         /\ payment'[q] = payment[q] /\ refund'[q] = refund[q]
         /\ Requested(q) \in present' <=> Requested(q) \in present
         /\ RefundRequested(q) \in present' <=> RefundRequested(q) \in present
  BY <1>1, <1>2, EventsDiffer DEF Rows
<1> QED
  BY <1>1, <1>4, <1>5, <1>6, BooksStep

LEMMA TimeStep == ASSUME Inv, NEW p \in Ids, Lapse(p) \/ Expire(p) PROVE Inv'
<1>1. Rows /\ booking[p] \in [status : BookingStatus, live : BOOLEAN] /\ Book(p)
  BY DEF Inv, Tables, Rows
<1>2. /\ UNCHANGED <<payment, refund, present, work, provider>>
      /\ \A q \in Ids \ {p} : booking'[q] = booking[q]
  BY <1>1 DEF Lapse, Expire, Rows, outbox
<1>3. /\ booking' \in [Ids -> [status : BookingStatus, live : BOOLEAN]]
      /\ \/ booking'[p].status = booking[p].status
         \/ /\ booking[p].status \in {"HELD", "PAYMENT_PENDING"}
            /\ booking'[p].status = "EXPIRED"
  <2>1. CASE Lapse(p)
    BY <1>1, <2>1 DEF Lapse, Rows
  <2>2. CASE Expire(p)
    <3>1. booking' = [booking EXCEPT ![p] = [booking[p] EXCEPT !.status = "EXPIRED"]]
      BY <1>1, <2>2 DEF Expire, Rows
    <3>2. [booking[p] EXCEPT !.status = "EXPIRED"] \in [status : BookingStatus, live : BOOLEAN]
      BY <1>1 DEF BookingStatus
    <3> QED
      BY <1>1, <2>2, <3>1, <3>2 DEF Rows, Expire
  <2> QED
    BY <2>1, <2>2
<1>4. Rows'
  BY <1>1, <1>2, <1>3 DEF Rows
<1>5. Book(p)'
  BY <1>1, <1>2, <1>3 DEF Book, Money, Charged, provider
<1> QED
  BY <1>2, <1>4, <1>5, BooksStep

LEMMA RequestRefundStep == ASSUME Inv, NEW p \in Ids, RequestRefund(p) PROVE Inv'
<1>1. /\ payment[p] = "SUCCEEDED" /\ RefundRequested(p) \notin present
      /\ booking' = [booking EXCEPT ![p].status = "CANCELLED"]
      /\ payment' = [payment EXCEPT ![p] = "REFUND_PENDING"]
      /\ refund' = [refund EXCEPT ![p] = "PENDING"]
      /\ present' = present \cup {RefundRequested(p)}
      /\ UNCHANGED <<work, provider>>
  BY DEF RequestRefund, Outbox!Insert
<1>2. Rows /\ booking[p] \in [status : BookingStatus, live : BOOLEAN] /\ Book(p)
  BY DEF Inv, Tables, Rows
<1>3. Rows'
  <2>1. booking' \in [Ids -> [status : BookingStatus, live : BOOLEAN]]
    BY <1>1, <1>2 DEF Rows, BookingStatus
  <2> QED
    BY <1>1, <1>2, <2>1, EventsDiffer DEF Rows, PaymentStatus, RefundStatus
<1>4. /\ booking'[p].status = "CANCELLED" /\ payment'[p] = "REFUND_PENDING"
      /\ refund'[p] = "PENDING" /\ Charged(p)' = Charged(p)
      /\ Requested(p) \in present' <=> Requested(p) \in present
  BY <1>1, <1>2, EventsDiffer DEF Rows, Charged, provider
<1>5. Book(p)'
  BY <1>1, <1>2, <1>4 DEF Book, Money, provider
<1>6. \A q \in Ids \ {p} :
         /\ booking'[q].status = booking[q].status
         /\ payment'[q] = payment[q] /\ refund'[q] = refund[q]
         /\ Requested(q) \in present' <=> Requested(q) \in present
         /\ RefundRequested(q) \in present' <=> RefundRequested(q) \in present
  BY <1>1, <1>2, EventsDiffer DEF Rows
<1> QED
  BY <1>1, <1>3, <1>5, <1>6, BooksStep

\* What Apply writes about its payment, by case.  Late finds no refund yet.
LEMMA ApplyCases ==
  ASSUME Inv, NEW p \in Ids, NEW event, NEW status \in Outcome, Apply(p, event, status)
  PROVE  \/ UNCHANGED <<booking, payment, refund, outbox>>
         \/ ~Final(p) /\ status = "FAILED" /\ Failed(p)
         \/ ~Final(p) /\ status = "SUCCEEDED" /\ Confirm(p)
               /\ booking[p] = [status |-> "PAYMENT_PENDING", live |-> TRUE]
         \/ ~Final(p) /\ status = "SUCCEEDED" /\ Late(p)
<1>1. CASE <<p, event>> \in webhooks \/ Final(p)
  BY <1>1 DEF Apply, Nothing
<1>2. CASE ~(<<p, event>> \in webhooks \/ Final(p))
  <2>1. CASE status = "FAILED"
    BY <1>2, <2>1 DEF Apply
  <2>2. CASE status = "SUCCEEDED" /\ booking[p] = [status |-> "PAYMENT_PENDING", live |-> TRUE]
    BY <1>2, <2>2 DEF Apply
  <2>3. CASE status = "SUCCEEDED" /\ booking[p] # [status |-> "PAYMENT_PENDING", live |-> TRUE]
    BY <1>2, <2>3 DEF Apply
  <2> QED
    BY <2>1, <2>2, <2>3 DEF Outcome
<1> QED
  BY <1>1, <1>2

\* Apply keeps the books when the provider has said what it is told.
LEMMA ApplyStep ==
  ASSUME Inv, NEW p \in Ids, NEW event, NEW status \in Outcome, Apply(p, event, status),
         \E c \in charges : c.payment = p /\ c.status = status, UNCHANGED provider
  PROVE  /\ Rows' /\ Charges' /\ present \subseteq present'
         /\ \A q \in Ids : Book(q)'
         /\ work' = work => Inv'
<1>1. Rows /\ Book(p) /\ booking[p] \in [status : BookingStatus, live : BOOLEAN]
  BY DEF Inv, Tables, Rows
<1>2. Charged(p)' = Charged(p) /\ (status = "SUCCEEDED" => Charged(p))
  BY DEF Charged, provider
<1>3. \A c \in charges : c.payment = p => c.status = status
  BY DEF Inv, Charges
<1>4. payment[p] # "NONE"
  BY <1>1 DEF Inv, Charges, Book
<1>5. CASE UNCHANGED <<booking, payment, refund, outbox>>
  BY <1>1, <1>5, BooksStep, BookKept DEF outbox, Rows, provider
<1>6. CASE ~Final(p) /\ status = "FAILED" /\ Failed(p)
  <2>1. /\ payment' = [payment EXCEPT ![p] = "FAILED"]
        /\ UNCHANGED <<booking, refund, present>>
    BY <1>6 DEF Failed, outbox
  <2>2. Rows' /\ payment'[p] = "FAILED" /\ \A q \in Ids \ {p} : payment'[q] = payment[q]
    BY <1>1, <2>1 DEF Rows, PaymentStatus
  <2>3. ~Charged(p)'
    BY <1>3, <1>6 DEF Charged, provider
  <2>4. Book(p)'
    BY <1>1, <1>4, <1>6, <2>1, <2>2, <2>3 DEF Book, Money, Final, provider
  <2> QED
    BY <2>1, <2>2, <2>4, BooksStep
<1>7. CASE ~Final(p) /\ status = "SUCCEEDED" /\ Confirm(p)
  <2>1. /\ payment' = [payment EXCEPT ![p] = "SUCCEEDED"]
        /\ booking' = [booking EXCEPT ![p] = [status |-> "CONFIRMED", live |-> FALSE]]
        /\ UNCHANGED <<refund, present>>
    BY <1>7 DEF Confirm, outbox
  <2>2. /\ Rows' /\ payment'[p] = "SUCCEEDED" /\ booking'[p].status = "CONFIRMED"
        /\ \A q \in Ids \ {p} : payment'[q] = payment[q] /\ booking'[q] = booking[q]
    BY <1>1, <2>1 DEF Rows, PaymentStatus, BookingStatus
  <2>3. Book(p)'
    BY <1>1, <1>2, <1>4, <1>7, <2>1, <2>2 DEF Book, Money, Final, provider
  <2> QED
    BY <2>1, <2>2, <2>3, BooksStep
<1>8. CASE ~Final(p) /\ status = "SUCCEEDED" /\ Late(p)
  <2>1. /\ payment' = [payment EXCEPT ![p] = "REFUND_PENDING"]
        /\ refund' = [refund EXCEPT ![p] = IF @ = "NONE" THEN "PENDING" ELSE @]
        /\ booking' = booking
        /\ present' = present \/ present' = present \cup {RefundRequested(p)}
    BY <1>8 DEF Late, outbox, Outbox!Insert
  <2>2. /\ payment'[p] = "REFUND_PENDING"
        /\ refund'[p] = IF refund[p] = "NONE" THEN "PENDING" ELSE refund[p]
        /\ \A q \in Ids \ {p} :
              /\ payment'[q] = payment[q] /\ refund'[q] = refund[q]
              /\ Requested(q) \in present' <=> Requested(q) \in present
              /\ RefundRequested(q) \in present' <=> RefundRequested(q) \in present
        /\ Requested(p) \in present' <=> Requested(p) \in present
    BY <1>1, <2>1, EventsDiffer DEF Rows
  <2>3. refund' \in [Ids -> RefundStatus]
    BY <1>1, <2>1 DEF Rows, RefundStatus
  <2>4. Rows'
    BY <1>1, <2>1, <2>3, EventsDiffer DEF Rows, PaymentStatus
  <2>5. Book(p)'
    BY <1>1, <1>2, <1>4, <1>8, <2>1, <2>2 DEF Book, Money, Final, provider
  <2> QED
    BY <2>1, <2>2, <2>4, <2>5, BooksStep
<1> QED
  BY <1>5, <1>6, <1>7, <1>8, ApplyCases

LEMMA WebhookStep ==
  ASSUME Inv, NEW c \in charges, NEW n \in Notices, Webhook(c, n) PROVE Inv'
<1>1. c.payment \in Ids /\ c.status \in Outcome
  BY DEF Inv, Charges
<1>2. Apply(c.payment, <<"webhook", n>>, c.status) /\ UNCHANGED <<work, provider>>
  BY DEF Webhook
<1> QED
  BY <1>1, <1>2, ApplyStep

-----------------------------------------------------------------------------
(***************************************************************************)
(* The worker.                                                             *)
(***************************************************************************)

LEMMA TakeStep == ASSUME Inv, NEW w \in Workers, NEW e \in present, Take(w, e) PROVE Inv'
<1> DEFINE j == [step |-> "read", event |-> e, result |-> "NONE"]
<1>1. /\ work' = [work EXCEPT ![w] = j]
      /\ UNCHANGED <<booking, payment, refund, present, provider>>
  BY DEF Take, outbox
<1>2. j \in Job /\ j.event = e /\ j.step = "read"
  BY DEF Job, Inv, Tables
<1> HIDE DEF j
<1>3. work'[w] = j
  BY <1>1 DEF Inv, Tables
<1>4. Carries(w)'
  BY <1>1, <1>2, <1>3 DEF Carries
<1> QED
  BY <1>1, <1>2, <1>4, WorkerStep

\* Steps that only move on, or end the job.
LEMMA PlainSteps ==
  ASSUME Inv, NEW w \in Workers, NEW p \in Ids,
         Publish(w) \/ Crash(w) \/ Dispatch(w, p) \/ DispatchRefund(w, p)
  PROVE  Inv'
<1>1. CASE Publish(w) \/ Crash(w)
  BY <1>1, ReturnStep DEF Publish, Crash, outbox, Outbox!Process
<1>2. CASE Dispatch(w, p)
  <2>1. PICK to \in {"published", "lookup"} : Goto(w, to)
    BY <1>2 DEF Dispatch
  <2>2. work[w] # Idle /\ UNCHANGED <<booking, payment, refund, present, provider>>
    BY <1>2 DEF Dispatch, Idle, outbox
  <2> QED
    BY <2>1, <2>2, GotoStep
<1>3. CASE DispatchRefund(w, p)
  <2>1. PICK to \in {"published", "refund"} : Goto(w, to)
    BY <1>3 DEF DispatchRefund
  <2>2. work[w] # Idle /\ UNCHANGED <<booking, payment, refund, present, provider>>
    BY <1>3 DEF DispatchRefund, Idle, outbox
  <2> QED
    BY <2>1, <2>2, GotoStep
<1> QED
  BY <1>1, <1>2, <1>3

\* Lookup answers with what the provider has under the payment's key.
LEMMA LookupStep ==
  ASSUME Inv, NEW w \in Workers, NEW p \in Ids, Lookup(w, p) PROVE Inv'
<1>1. /\ work[w] # Idle /\ work[w].event = Requested(p)
      /\ UNCHANGED <<booking, payment, refund, present, provider>>
  BY DEF Lookup, Idle, outbox
<1>2. CASE Goto(w, "charge")
  BY <1>1, <1>2, GotoStep
<1>3. CASE ~Goto(w, "charge")
  <2>1. PICK c \in charges :
           /\ c.key = <<p>>
           /\ work' = [work EXCEPT ![w].step = "apply", ![w].result = c.status]
    BY <1>3 DEF Lookup, Known, ProviderKey
  <2> DEFINE j == [work[w] EXCEPT !.step = "apply", !.result = c.status]
  <2>2. /\ c.payment = p /\ c.status \in Outcome
    BY <2>1 DEF Inv, Charges
  <2>3. /\ work[w] \in Job /\ work \in [Workers -> Job \cup {Idle}] /\ Carries(w)
    BY <1>1 DEF Inv, Tables
  <2>4. /\ j \in Job /\ j.step = "apply" /\ j.event = Requested(p) /\ j.result = c.status
        /\ work' = [work EXCEPT ![w] = j]
    BY <1>1, <2>1, <2>2, <2>3 DEF Job
  <2> HIDE DEF j
  <2>5. work'[w] = j
    BY <2>3, <2>4
  <2>6. Carries(w)'
    BY <1>1, <2>2, <2>3, <2>4, <2>5 DEF Carries, provider
  <2> QED
    BY <1>1, <2>4, <2>6, WorkerStep
<1> QED
  BY <1>2, <1>3

\* A call of Charge leaves one charge under the key, whoever else has called.
LEMMA ChargeStep ==
  ASSUME Inv, NEW w \in Workers, NEW p \in Ids, Charge(w, p) PROVE Inv'
<1>1. /\ work[w] # Idle /\ work[w].event = Requested(p) /\ work[w] \in Job
      /\ work \in [Workers -> Job \cup {Idle}] /\ Carries(w)
      /\ UNCHANGED <<booking, payment, refund, present, returned>>
  BY DEF Charge, Idle, outbox, Inv, Tables
<1>2. CASE Goto(w, "uncertain") /\ charges' = charges
  BY <1>1, <1>2, GotoStep DEF provider
<1>3. CASE \E status \in Outcome :
              /\ \A c \in Known(<<p>>) : c.status = status
              /\ charges' = charges \cup {[key |-> <<p>>, payment |-> p, status |-> status]}
              /\ \/ work' = [work EXCEPT ![w].step = "apply", ![w].result = status]
                 \/ Goto(w, "uncertain")
  <2>1. PICK status \in Outcome :
              /\ \A c \in Known(<<p>>) : c.status = status
              /\ charges' = charges \cup {[key |-> <<p>>, payment |-> p, status |-> status]}
              /\ \/ work' = [work EXCEPT ![w].step = "apply", ![w].result = status]
                 \/ Goto(w, "uncertain")
    BY <1>3
  <2> DEFINE new == [key |-> <<p>>, payment |-> p, status |-> status]
  <2>2. /\ new \in [key : {<<q>> : q \in Ids}, payment : Ids, status : Outcome]
        /\ new.key = <<p>> /\ new.payment = p /\ new.status = status
    OBVIOUS
  <2>3. \A c \in charges : c.payment = p => c = new
    BY <2>1 DEF Inv, Charges, Known
  <2> HIDE DEF new
  <2>4. charges' = charges \cup {new}
    BY <2>1 DEF new
  <2>5. Requested(p) \in present
    BY <1>1 DEF Carries
  <2>6. Charges'
    BY <1>1, <2>2, <2>3, <2>4, <2>5 DEF Inv, Charges
  <2>7. ASSUME NEW q \in Ids PROVE Book(q)'
    <3>1. Book(q)
      BY DEF Inv
    <3>2. CASE q # p
      <4>1. Charged(q)' = Charged(q) /\ ((\E c \in charges' : c.payment = q) <=>
                                         (\E c \in charges : c.payment = q))
        BY <2>2, <2>4, <3>2 DEF Charged
      <4> QED
        BY <1>1, <3>1, <4>1 DEF Book, Money
    <3>3. CASE q = p
      <4>1. Charged(p) => Charged(p)'
        BY <2>4 DEF Charged
      <4>2. payment[p] = "FAILED" => ~Charged(p)'
        <5>1. payment[p] = "FAILED" => new \in charges /\ ~Charged(p)
          BY <2>3, <3>1, <3>3 DEF Book, Money
        <5> QED
          BY <2>4, <5>1 DEF Charged
      <4>3. payment[p] = "FAILED" => \E c \in charges' : c.payment = p
        BY <2>2, <2>4
      <4> QED
        BY <1>1, <3>1, <3>3, <4>1, <4>2, <4>3 DEF Book, Money
    <3> QED
      BY <3>2, <3>3
  <2>8. /\ work' \in [Workers -> Job \cup {Idle}] /\ Carries(w)'
        /\ \A v \in Workers \ {w} : work'[v] = work[v]
    <3>1. CASE Goto(w, "uncertain")
      BY <1>1, <3>1, GotoType DEF Carries
    <3>2. CASE work' = [work EXCEPT ![w].step = "apply", ![w].result = status]
      <4> DEFINE j == [work[w] EXCEPT !.step = "apply", !.result = status]
      <4>1. /\ j \in Job /\ j.step = "apply" /\ j.event = Requested(p) /\ j.result = status
            /\ work' = [work EXCEPT ![w] = j]
        BY <1>1, <3>2 DEF Job
      <4> HIDE DEF j
      <4>2. work'[w] = j /\ \A v \in Workers \ {w} : work'[v] = work[v]
        BY <1>1, <4>1
      <4>3. Carries(w)'
        BY <1>1, <2>2, <2>4, <2>5, <4>1, <4>2 DEF Carries
      <4> QED
        BY <1>1, <4>1, <4>2, <4>3
    <3> QED
      BY <2>1, <3>1, <3>2
  <2>9. \A v \in Workers : work'[v] # Idle => Carries(v)'
    BY <1>1, <2>4, <2>8, CarriesKept
  <2>10. Tables'
    BY <1>1, <2>8 DEF Inv, Tables
  <2> QED
    BY <2>6, <2>7, <2>9, <2>10 DEF Inv
<1> QED
  BY <1>2, <1>3 DEF Charge, ProviderKey, Outcome

LEMMA UncertainStep ==
  ASSUME Inv, NEW w \in Workers, NEW p \in Ids, Uncertain(w, p) PROVE Inv'
<1>1. /\ work' = [work EXCEPT ![w] = Idle]
      /\ payment' = [payment EXCEPT ![p] =
            IF @ \in {"PENDING", "RECONCILIATION_REQUIRED"} THEN "RECONCILIATION_REQUIRED"
                                                            ELSE @]
      /\ UNCHANGED <<booking, refund, present, provider>>
  BY DEF Uncertain, Return, outbox
<1>2. Rows /\ Book(p)
  BY DEF Inv, Tables, Rows
<1>3. /\ payment'[p] = IF payment[p] \in {"PENDING", "RECONCILIATION_REQUIRED"}
                       THEN "RECONCILIATION_REQUIRED" ELSE payment[p]
      /\ \A q \in Ids \ {p} : payment'[q] = payment[q]
      /\ payment' \in [Ids -> PaymentStatus]
  BY <1>1, <1>2 DEF Rows, PaymentStatus
<1>4. Book(p)'
  BY <1>1, <1>2, <1>3 DEF Book, Money, Charged, provider
<1>5. Rows'
  BY <1>1, <1>2, <1>3 DEF Rows
<1>6. Charges' /\ \A q \in Ids : Book(q)'
  BY <1>1, <1>3, <1>4, <1>5, BooksStep
<1>7. Tables' /\ \A v \in Workers : work'[v] # Idle => v # w /\ work'[v] = work[v]
  BY <1>1, <1>5 DEF Inv, Tables, Rows, provider
<1>8. \A v \in Workers : work'[v] # Idle => Carries(v)'
  BY <1>1, <1>7, CarriesKept DEF provider
<1> QED
  BY <1>6, <1>7, <1>8 DEF Inv

LEMMA DispatchApplyStep ==
  ASSUME Inv, NEW w \in Workers, NEW p \in Ids, DispatchApply(w, p) PROVE Inv'
<1> DEFINE status == work[w].result
<1>1. /\ work[w].step = "apply" /\ work[w].event = Requested(p) /\ work[w] # Idle
      /\ Apply(p, <<"dispatch", ProviderKey(p, w), status>>, status)
      /\ Goto(w, "published") /\ UNCHANGED provider
  BY DEF DispatchApply, Idle
<1>2. PICK c \in charges : c.payment = p /\ c.status = status /\ status \in Outcome
  BY <1>1, EventsDiffer DEF Inv, Carries, Charges
<1> HIDE DEF status
<1>3. /\ Rows' /\ Charges' /\ present \subseteq present'
      /\ \A q \in Ids : Book(q)'
  BY <1>1, <1>2, ApplyStep
<1>4. /\ work' \in [Workers -> Job \cup {Idle}]
      /\ work'[w].step = "published" /\ work'[w].event = work[w].event
      /\ \A v \in Workers \ {w} : work'[v] = work[v]
  BY <1>1, GotoType
<1>5. Tables'
  BY <1>1, <1>3, <1>4 DEF Inv, Tables, Rows, provider
<1>6. \A v \in Workers : work'[v] # Idle => Carries(v)'
  <2>1. Carries(w)'
    BY <1>1, <1>3, <1>4 DEF Inv, Carries
  <2> QED
    BY <1>1, <1>3, <1>4, <2>1, CarriesKept DEF provider
<1> QED
  BY <1>3, <1>5, <1>6 DEF Inv

\* Money goes back only for a payment that is booked as on its way back.
LEMMA RefundStep ==
  ASSUME Inv, NEW w \in Workers, NEW p \in Ids, Refund(w, p) PROVE Inv'
<1>1. /\ work[w] # Idle /\ work[w].event = RefundRequested(p) /\ Carries(w)
      /\ UNCHANGED <<booking, payment, refund, present, charges>>
      /\ returned' = returned \/ returned' = returned \cup {p}
  BY DEF Refund, Idle, outbox, Inv
<1>2. Charges' /\ \A q \in Ids : Book(q)'
  <2>1. payment[p] \in {"REFUND_PENDING", "REFUNDED"}
    BY <1>1 DEF Carries, Inv, Book
  <2> QED
    BY <1>1, <2>1 DEF Inv, Charges, Book, Money, Charged
<1>3. /\ work' \in [Workers -> Job \cup {Idle}]
      /\ \A v \in Workers \ {w} : work'[v] = work[v]
      /\ work'[w] # Idle => Carries(w)'
  <2>1. CASE Goto(w, "refunded") /\ returned' = returned \cup {p}
    <3>1. /\ work'[w].step = "refunded" /\ work'[w].event = RefundRequested(p)
          /\ work' \in [Workers -> Job \cup {Idle}]
          /\ \A v \in Workers \ {w} : work'[v] = work[v]
      BY <1>1, <2>1, GotoType
    <3>2. Carries(w)'
      BY <1>1, <2>1, <3>1, EventsDiffer DEF Carries
    <3> QED
      BY <3>1, <3>2
  <2>2. CASE Return(w)
    BY <2>2 DEF Return, Inv, Tables
  <2>3. CASE Goto(w, "unknown")
    <3>1. /\ work'[w].step = "unknown" /\ work'[w].event = RefundRequested(p)
          /\ work' \in [Workers -> Job \cup {Idle}]
          /\ \A v \in Workers \ {w} : work'[v] = work[v]
      BY <1>1, <2>3, GotoType
    <3> QED
      BY <1>1, <3>1 DEF Carries
  <2> QED
    BY <2>1, <2>2, <2>3 DEF Refund
<1>4. \A v \in Workers : work'[v] # Idle => Carries(v)'
  BY <1>1, <1>3, CarriesKept
<1>5. Tables'
  BY <1>1, <1>3 DEF Inv, Tables
<1> QED
  BY <1>2, <1>4, <1>5 DEF Inv

LEMMA MarkUnknownStep ==
  ASSUME Inv, NEW w \in Workers, NEW p \in Ids, MarkUnknown(w, p) PROVE Inv'
<1>1. /\ work' = [work EXCEPT ![w] = Idle]
      /\ refund' = [refund EXCEPT ![p] = IF @ = "SUCCEEDED" THEN @ ELSE "UNKNOWN"]
      /\ UNCHANGED <<booking, payment, present, provider>>
  BY DEF MarkUnknown, RefundUnknown, Return, outbox
<1>2. Rows /\ Book(p)
  BY DEF Inv, Tables, Rows
<1>3. /\ refund'[p] = IF refund[p] = "SUCCEEDED" THEN refund[p] ELSE "UNKNOWN"
      /\ \A q \in Ids \ {p} : refund'[q] = refund[q]
      /\ refund' \in [Ids -> RefundStatus]
  BY <1>1, <1>2 DEF Rows, RefundStatus
<1>4. Book(p)'
  BY <1>1, <1>2, <1>3 DEF Book, Money, Charged, provider
<1>5. Rows'
  BY <1>1, <1>2, <1>3 DEF Rows
<1>6. Charges' /\ \A q \in Ids : Book(q)'
  BY <1>1, <1>3, <1>4, <1>5, BooksStep
<1>7. Tables' /\ \A v \in Workers : work'[v] # Idle => v # w /\ work'[v] = work[v]
  BY <1>1, <1>5 DEF Inv, Tables, Rows, provider
<1>8. \A v \in Workers : work'[v] # Idle => Carries(v)'
  BY <1>1, <1>7, CarriesKept DEF provider
<1> QED
  BY <1>6, <1>7, <1>8 DEF Inv

LEMMA SettleRefundStep ==
  ASSUME Inv, NEW w \in Workers, NEW p \in Ids, SettleRefund(w, p) PROVE Inv'
<1>1. /\ work[w].step = "refunded" /\ work[w].event = RefundRequested(p) /\ work[w] # Idle
      /\ Goto(w, "published") /\ UNCHANGED <<present, provider>>
  BY DEF SettleRefund, Idle, outbox
<1>2. Rows /\ Book(p) /\ p \in returned
      /\ booking[p] \in [status : BookingStatus, live : BOOLEAN]
  BY <1>1 DEF Inv, Tables, Rows, Carries
<1>3. CASE UNCHANGED <<payment, refund, booking>>
  BY <1>1, <1>3, GotoStep
<1>4. CASE /\ payment[p] = "REFUND_PENDING"
           /\ payment' = [payment EXCEPT ![p] = "REFUNDED"]
           /\ refund' = [refund EXCEPT ![p] = "SUCCEEDED"]
           /\ booking' = [booking EXCEPT ![p].status =
                 IF @ = "CANCELLED" THEN "REFUNDED" ELSE @]
  <2>1. /\ payment'[p] = "REFUNDED" /\ refund'[p] = "SUCCEEDED"
        /\ booking'[p].status = IF booking[p].status = "CANCELLED" THEN "REFUNDED"
                                                                   ELSE booking[p].status
        /\ \A q \in Ids \ {p} : /\ payment'[q] = payment[q] /\ refund'[q] = refund[q]
                                /\ booking'[q] = booking[q]
    BY <1>2, <1>4 DEF Rows
  <2>2. booking' \in [Ids -> [status : BookingStatus, live : BOOLEAN]]
    <3> DEFINE to == IF booking[p].status = "CANCELLED" THEN "REFUNDED" ELSE booking[p].status
    <3>1. to \in BookingStatus
      BY <1>2 DEF BookingStatus
    <3>2. booking' = [booking EXCEPT ![p] = [booking[p] EXCEPT !.status = to]]
      BY <1>2, <1>4 DEF Rows
    <3> HIDE DEF to
    <3> QED
      BY <1>2, <3>1, <3>2 DEF Rows
  <2>3. Rows'
    BY <1>1, <1>2, <1>4, <2>2 DEF Rows, PaymentStatus, RefundStatus
  <2>4. Book(p)'
    BY <1>1, <1>2, <1>4, <2>1 DEF Book, Money, Charged, provider
  <2>5. Charges' /\ \A q \in Ids : Book(q)'
    BY <1>1, <2>1, <2>3, <2>4, BooksStep
  <2>6. /\ work' \in [Workers -> Job \cup {Idle}]
        /\ work'[w].step = "published" /\ work'[w].event = work[w].event
        /\ \A v \in Workers \ {w} : work'[v] = work[v]
    BY <1>1, GotoType
  <2>7. \A v \in Workers : work'[v] # Idle => Carries(v)'
    <3>1. Carries(w)'
      BY <1>1, <2>6 DEF Inv, Carries
    <3> QED
      BY <1>1, <2>6, <3>1, CarriesKept DEF provider
  <2>8. Tables'
    BY <1>1, <2>3, <2>6 DEF Inv, Tables, Rows, provider
  <2> QED
    BY <2>5, <2>7, <2>8 DEF Inv
<1> QED
  BY <1>3, <1>4 DEF SettleRefund

LEMMA FrameStep ==
  ASSUME Inv, UNCHANGED <<booking, payment, refund, present, work, provider>> PROVE Inv'
<1>1. Tables' /\ Charges' /\ \A p \in Ids : Book(p)'
  BY BookKept DEF Inv, Tables, Charges, provider
<1>2. \A w \in Workers : work'[w] # Idle => Carries(w)'
  BY CarriesKept DEF provider
<1> QED
  BY <1>1, <1>2 DEF Inv

LEMMA InvStep == Inv /\ [Next]_vars => Inv'
<1> SUFFICES ASSUME Inv, [Next]_vars PROVE Inv'
  OBVIOUS
<1>1. ASSUME NEW p \in Ids, Start(p) \/ Lapse(p) \/ Expire(p) \/ RequestRefund(p) PROVE Inv'
  BY <1>1, StartStep, TimeStep, RequestRefundStep
<1>2. ASSUME NEW c \in charges, NEW n \in Notices, Webhook(c, n) PROVE Inv'
  BY <1>2, WebhookStep
<1>3. ASSUME NEW w \in Workers, NEW p \in Ids,
             \/ Dispatch(w, p) \/ Lookup(w, p) \/ Charge(w, p) \/ Uncertain(w, p)
             \/ DispatchApply(w, p) \/ DispatchRefund(w, p) \/ Refund(w, p)
             \/ MarkUnknown(w, p) \/ SettleRefund(w, p)
      PROVE  Inv'
  BY <1>3, PlainSteps, LookupStep, ChargeStep, UncertainStep, DispatchApplyStep, RefundStep,
     MarkUnknownStep, SettleRefundStep
<1>4. ASSUME NEW w \in Workers, Publish(w) \/ Crash(w) PROVE Inv'
  BY <1>4, ReturnStep DEF Publish, Crash, outbox, Outbox!Process
<1>5. ASSUME NEW w \in Workers, NEW e \in present, Take(w, e) PROVE Inv'
  BY <1>5, TakeStep
<1>6. ASSUME NEW e \in present, Record(e) \/ DeadLetter(e) PROVE Inv'
  BY <1>6, FrameStep DEF Record, DeadLetter, Outbox!Deliver, Outbox!GiveUp
<1>7. CASE UNCHANGED vars
  BY <1>7, FrameStep DEF vars, outbox
<1> QED
  BY <1>1, <1>2, <1>3, <1>4, <1>5, <1>6, <1>7 DEF Next, Work

\* At every step of the workers and of webhooks the rows of a payment fit one another and the
\* provider's records, and a worker carries no outcome that the provider did not decide.
THEOREM Invariant == Spec => []Inv
  BY InvInit, InvStep, PTL DEF Spec

-----------------------------------------------------------------------------
(***************************************************************************)
(* Theorems.                                                               *)
(***************************************************************************)

\* The provider key is drawn once, at Start: however many workers dispatch a payment and
\* however many answers are lost, the customer is charged once.
THEOREM ChargedAtMostOnce == Spec => []ChargedOnce
<1>1. Inv => ChargedOnce
  BY DEF Inv, Charges, ChargedOnce
<1> QED
  BY <1>1, Invariant, PTL

\* payments, refunds and bookings say what the provider did, after lost answers, crashes and
\* webhooks in any order.
THEOREM BooksMatchProvider == Spec => []MoneyMatches
<1>1. Inv => MoneyMatches
  BY DEF Inv, Book, Money, MoneyMatches
<1> QED
  BY <1>1, Invariant, PTL

Forward ==
    \A p \in Ids :
        /\ payment[p] = "SUCCEEDED" => payment'[p] \in {"SUCCEEDED", "REFUND_PENDING"}
        /\ payment[p] = "REFUND_PENDING" => payment'[p] \in {"REFUND_PENDING", "REFUNDED"}
        /\ payment[p] = "REFUNDED" => payment'[p] = "REFUNDED"

LEMMA ForwardApply ==
  ASSUME Inv, NEW p \in Ids, NEW event, NEW status \in Outcome, Apply(p, event, status)
  PROVE  Forward
<1>1. payment \in [Ids -> PaymentStatus]
  BY DEF Inv, Tables
<1>2. payment' = payment \/ (~Final(p) /\ \A q \in Ids \ {p} : payment'[q] = payment[q])
  BY <1>1, ApplyCases DEF Failed, Confirm, Late
<1> QED
  BY <1>2 DEF Forward, Final

LEMMA ForwardStep == Inv /\ [Next]_vars => Forward
<1> SUFFICES ASSUME Inv, [Next]_vars PROVE Forward
  OBVIOUS
<1>0. payment \in [Ids -> PaymentStatus]
  BY DEF Inv, Tables
<1>1. ASSUME NEW p \in Ids, Start(p) PROVE Forward
  <2>1. payment[p] = "NONE"
    BY <1>1 DEF Start, Inv, Book
  <2> QED
    BY <1>0, <1>1, <2>1 DEF Start, Forward
<1>2. ASSUME NEW p \in Ids, RequestRefund(p) PROVE Forward
  BY <1>0, <1>2 DEF RequestRefund, Forward
<1>3. ASSUME NEW c \in charges, NEW n \in Notices, Webhook(c, n) PROVE Forward
  BY <1>3, ForwardApply DEF Webhook, Inv, Charges
<1>4. ASSUME NEW w \in Workers, NEW p \in Ids, DispatchApply(w, p) PROVE Forward
  <2>1. work[w].result \in Outcome
    BY <1>4, EventsDiffer DEF DispatchApply, Inv, Carries, Charges, Idle
  <2> QED
    BY <1>4, <2>1, ForwardApply DEF DispatchApply
<1>5. ASSUME NEW w \in Workers, NEW p \in Ids, Uncertain(w, p) \/ SettleRefund(w, p)
      PROVE  Forward
  BY <1>0, <1>5 DEF Uncertain, SettleRefund, Forward
<1>6. ASSUME payment' = payment PROVE Forward
  BY <1>6 DEF Forward
<1>7. ASSUME NEW p \in Ids, Lapse(p) \/ Expire(p) PROVE payment' = payment
  BY <1>7 DEF Lapse, Expire
<1>8. ASSUME NEW w \in Workers, NEW p \in Ids,
             \/ Dispatch(w, p) \/ Lookup(w, p) \/ Charge(w, p) \/ DispatchRefund(w, p)
             \/ Refund(w, p) \/ MarkUnknown(w, p)
      PROVE  payment' = payment
  BY <1>8 DEF Dispatch, Lookup, Charge, DispatchRefund, Refund, MarkUnknown
<1>9. ASSUME NEW w \in Workers, Publish(w) \/ Crash(w) \/ \E e \in present : Take(w, e)
      PROVE  payment' = payment
  BY <1>9 DEF Publish, Crash, Take
<1>10. CASE (\E e \in present : Record(e) \/ DeadLetter(e)) \/ UNCHANGED vars
  BY <1>10, <1>6 DEF Record, DeadLetter, vars
<1> QED
  BY <1>1, <1>2, <1>3, <1>4, <1>5, <1>6, <1>7, <1>8, <1>9, <1>10 DEF Next, Work

\* Apply ends early on a final payment and the refund's UPDATE asks for REFUND_PENDING:
\* whatever arrives late, a settled payment only goes forward.
THEOREM PaymentsGoForward == Spec => NeverBack
  BY Invariant, ForwardStep, PTL DEF Spec, NeverBack, Forward

=============================================================================
