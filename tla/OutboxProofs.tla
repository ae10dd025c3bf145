---------------------------- MODULE OutboxProofs ----------------------------
(***************************************************************************)
(* Proofs about Outbox for any number of workers and events, any limits    *)
(* and any number of faults.                                               *)
(***************************************************************************)
EXTENDS Outbox, TLAPS

(***************************************************************************)
(* The inductive invariant.  `Held' is what the leases are for: while a    *)
(* worker that was not paused has an event in hand, the row still carries  *)
(* its token, and the lease outlasts what is left of its job.              *)
(***************************************************************************)

Shape ==
    /\ token \in [Events -> Workers \cup {NULL}]
    /\ lease \in [Events -> Nat]
    /\ job \in [Workers -> Nat]
    /\ claimed \in [Workers -> SUBSET Events]
    /\ \A w \in Workers : result[w] # NULL =>
          result[w].event \in Events /\ result[w].event \notin claimed[w]
    /\ result = [w \in Workers |-> result[w]]

\* A settled event is nobody's.
Settled == \A e \in Events : e \in delivered \/ e \in dead => token[e] = NULL

\* A success about to be recorded is real.
Honest == \A w \in Workers :
    result[w] # NULL /\ result[w].ok => result[w].event \in published

Held == \A w \in Workers \ paused : \A e \in Working(w) :
    token[e] = w /\ lease[e] > job[w]

Inv == Shape /\ Settled /\ Honest /\ Held /\ DeliveredWasPublished /\ OneEnd

LEMMA InvInit == Init => Inv
  BY OutboxAssumption DEF Init, Inv, Shape, Settled, Honest, Held, Working,
     DeliveredWasPublished, OneEnd

LEMMA ClaimStep == ASSUME Inv, NEW w \in Workers, Claim(w) PROVE Inv'
<1> USE DEF Inv
<1>1. PICK batch \in SUBSET {e \in Events : Due(e)} :
         /\ token' = [e \in Events |-> IF e \in batch THEN w ELSE token[e]]
         /\ lease' = [e \in Events |-> IF e \in batch THEN LeaseTime ELSE lease[e]]
         /\ claimed' = [claimed EXCEPT ![w] = batch]
  BY DEF Claim
<1>2. /\ job' = [job EXCEPT ![w] = JobTime] /\ paused' = paused \ {w} /\ Idle(w)
      /\ UNCHANGED <<delivered, dead, result, published>>
  BY DEF Claim
<1>3. Shape'
  BY <1>1, <1>2, OutboxAssumption DEF Shape, Idle
<1>4. Settled'
  BY <1>1, <1>2 DEF Settled, Shape, Due, Pending
<1>5. Honest' /\ DeliveredWasPublished' /\ OneEnd'
  BY <1>2 DEF Honest, DeliveredWasPublished, OneEnd
<1>6. Held'
  <2> SUFFICES ASSUME NEW v \in Workers, v \notin paused', NEW e \in Working(v)'
               PROVE  token'[e] = v /\ lease'[e] > job'[v]
    BY DEF Held
  <2>1. CASE v = w
    <3>1. Working(v)' = batch
      BY <1>1, <1>2, <2>1 DEF Working, Idle, Shape
    <3> QED
      BY <1>1, <1>2, <2>1, <3>1, OutboxAssumption DEF Shape
  <2>2. CASE v # w
    <3>1. Working(v)' = Working(v) /\ v \notin paused /\ job'[v] = job[v]
      BY <1>1, <1>2, <2>2 DEF Working, Shape
    <3>2. token[e] = v /\ lease[e] > job[v] /\ e \in Events
      BY <3>1 DEF Held, Working, Shape
    <3>3. e \notin batch
      BY <3>2 DEF Due, Shape
    <3> QED
      BY <1>1, <3>1, <3>2, <3>3
  <2> QED
    BY <2>1, <2>2
<1> QED
  BY <1>3, <1>4, <1>5, <1>6

LEMMA PublishStep ==
  ASSUME Inv, NEW w \in Workers, NEW e \in claimed[w], Publish(w, e) PROVE Inv'
<1> USE DEF Inv
<1>1. PICK ok, processed \in BOOLEAN :
         /\ ok => processed
         /\ result' = [result EXCEPT ![w] = [event |-> e, ok |-> ok]]
         /\ published' = IF processed THEN published \cup {e} ELSE published
  BY DEF Publish
<1>2. /\ claimed' = [claimed EXCEPT ![w] = @ \ {e}]
      /\ UNCHANGED <<delivered, dead, token, lease, job, paused>>
      /\ e \in Events /\ result[w] = NULL
  BY DEF Publish, rows, Shape
<1>3. /\ result'[w].event = e /\ result'[w].ok = ok
      /\ \A v \in Workers \ {w} : result'[v] = result[v] /\ claimed'[v] = claimed[v]
      /\ claimed'[w] = claimed[w] \ {e}
  BY <1>1, <1>2 DEF Shape
<1>4. Shape'
  BY <1>1, <1>2, <1>3 DEF Shape
<1>5. Settled' /\ DeliveredWasPublished' /\ OneEnd'
  BY <1>1, <1>2 DEF Settled, DeliveredWasPublished, OneEnd
<1>6. Honest'
  BY <1>1, <1>3 DEF Honest
<1>7. \A v \in Workers : Working(v)' \subseteq Working(v)
  BY <1>2, <1>3 DEF Working
<1>8. Held'
  BY <1>2, <1>7 DEF Held
<1> QED
  BY <1>4, <1>5, <1>6, <1>8

\* Both ways of recording an outcome: the row is written only by the claim it belongs to,
\* and the worker has the event in hand no more.
LEMMA RecordStep ==
  ASSUME Inv, NEW w \in Workers, Ack(w) \/ Fail(w)
  PROVE  Shape' /\ Held' /\ Honest'
<1> USE DEF Inv
<1> DEFINE e == result[w].event
<1>1. /\ result[w] # NULL /\ e \in Events
      /\ \/ token' = token /\ lease' = lease
         \/ /\ token[e] = w
            /\ token' = [token EXCEPT ![e] = NULL]
            /\ lease' = [lease EXCEPT ![e] = 0]
      /\ result' = [result EXCEPT ![w] = NULL]
      /\ UNCHANGED <<claimed, job, paused, published>>
  BY DEF Ack, Fail, Owns, Shape
<1>2. Shape'
  BY <1>1 DEF Shape
<1>3. Honest'
  BY <1>1 DEF Honest, Shape
<1>4. Held'
  <2> SUFFICES ASSUME NEW v \in Workers \ paused, NEW d \in Working(v)'
               PROVE  token'[d] = v /\ lease'[d] > job[v]
    BY <1>1 DEF Held
  <2>1. d \in Working(v) /\ (v = w => d # e) /\ d \in Events
    BY <1>1 DEF Working, Shape
  <2>2. token[d] = v /\ lease[d] > job[v]
    BY <2>1 DEF Held
  <2>3. token[e] = w => d # e
    BY <2>1, <2>2
  <2> QED
    BY <1>1, <2>1, <2>2, <2>3 DEF Shape
<1> QED
  BY <1>2, <1>3, <1>4

LEMMA AckStep == ASSUME Inv, NEW w \in Workers, Ack(w) PROVE Inv'
<1> USE DEF Inv
<1> DEFINE e == result[w].event
<1>1. /\ result[w].ok /\ result[w] # NULL /\ e \in Events
      /\ dead' = dead /\ published' = published
      /\ \/ delivered' = delivered /\ token' = token
         \/ /\ token[e] = w /\ delivered' = delivered \cup {e}
            /\ token' = [token EXCEPT ![e] = NULL]
  BY DEF Ack, Owns, Acknowledges, Shape
<1>2. Settled' /\ OneEnd'
  BY <1>1, OutboxAssumption DEF Settled, OneEnd, Shape
<1>3. DeliveredWasPublished'
  BY <1>1 DEF Honest, DeliveredWasPublished
<1> QED
  BY <1>2, <1>3, RecordStep

LEMMA FailStep == ASSUME Inv, NEW w \in Workers, Fail(w) PROVE Inv'
<1> USE DEF Inv
<1> DEFINE e == result[w].event
<1>1. /\ result[w] # NULL /\ e \in Events
      /\ delivered' = delivered /\ published' = published
      /\ \/ dead' = dead /\ token' = token
         \/ /\ token[e] = w /\ (dead' = dead \/ dead' = dead \cup {e})
            /\ token' = [token EXCEPT ![e] = NULL]
  BY DEF Fail, Owns, Shape
<1>2. Settled' /\ OneEnd' /\ DeliveredWasPublished'
  BY <1>1, OutboxAssumption DEF Settled, OneEnd, DeliveredWasPublished, Shape
<1> QED
  BY <1>2, RecordStep

LEMMA FaultStep == ASSUME Inv, NEW w \in Workers, GiveUp(w) \/ Pause(w) PROVE Inv'
<1> USE DEF Inv
<1>1. CASE GiveUp(w)
  <2>1. /\ claimed' = [claimed EXCEPT ![w] = {}]
        /\ result' = [result EXCEPT ![w] = NULL]
        /\ UNCHANGED <<delivered, dead, token, lease, job, paused, published>>
    BY <1>1 DEF GiveUp, rows
  <2>2. Shape' /\ Settled' /\ Honest' /\ DeliveredWasPublished' /\ OneEnd'
    BY <2>1 DEF Shape, Settled, Honest, DeliveredWasPublished, OneEnd
  <2>3. \A v \in Workers : Working(v)' \subseteq Working(v)
    BY <2>1 DEF Working, Shape
  <2> QED
    BY <2>1, <2>2, <2>3 DEF Held
<1>2. CASE Pause(w)
  <2>1. /\ job' = [job EXCEPT ![w] = LeaseTime] /\ paused' = paused \cup {w}
        /\ UNCHANGED <<delivered, dead, token, lease, claimed, result, published>>
    BY <1>2 DEF Pause, rows
  <2>2. Shape' /\ Settled' /\ Honest' /\ DeliveredWasPublished' /\ OneEnd'
    BY <2>1, OutboxAssumption DEF Shape, Settled, Honest, DeliveredWasPublished, OneEnd
  <2>3. Held'
    BY <2>1 DEF Held, Working, Shape
  <2> QED
    BY <2>2, <2>3
<1> QED
  BY <1>1, <1>2

LEMMA TickStep == ASSUME Inv, Tick PROVE Inv'
<1> USE DEF Inv
<1>1. /\ UNCHANGED <<delivered, dead, token, claimed, result, paused, published>>
      /\ \A w \in Workers : Idle(w) \/ job[w] > 0
      /\ lease' = [e \in Events |-> Less(lease[e])]
      /\ job' = [w \in Workers |-> Less(job[w])]
  BY DEF Tick
<1>2. Shape'
  BY <1>1 DEF Shape, Less
<1>3. Settled' /\ Honest' /\ DeliveredWasPublished' /\ OneEnd'
  BY <1>1 DEF Settled, Honest, DeliveredWasPublished, OneEnd
<1>4. Held'
  <2> SUFFICES ASSUME NEW w \in Workers \ paused, NEW e \in Working(w)
               PROVE  token[e] = w /\ lease'[e] > job'[w]
    BY <1>1 DEF Held, Working
  <2>1. token[e] = w /\ lease[e] > job[w] /\ e \in Events /\ ~Idle(w)
    BY DEF Held, Working, Idle, Shape
  <2> QED
    BY <1>1, <2>1 DEF Less, Shape
<1> QED
  BY <1>2, <1>3, <1>4

LEMMA InvStep == Inv /\ [Next]_vars => Inv'
<1> SUFFICES ASSUME Inv, [Next]_vars PROVE Inv'
  OBVIOUS
<1>1. ASSUME NEW e \in Events, Insert(e) PROVE Inv'
  BY <1>1 DEF Insert, Inv, Shape, Settled, Honest, Held, Working, DeliveredWasPublished, OneEnd
<1>2. ASSUME NEW w \in Workers, Work(w) PROVE Inv'
  BY <1>2, ClaimStep, PublishStep, AckStep, FailStep DEF Work
<1>3. CASE UNCHANGED vars
  BY <1>3 DEF vars, rows, Inv, Shape, Settled, Honest, Held, Working,
              DeliveredWasPublished, OneEnd
<1> QED
  BY <1>1, <1>2, <1>3, FaultStep, TickStep DEF Next

LEMMA InvHolds == Spec => []Inv
  BY InvInit, InvStep, PTL DEF Spec

\* An event marked delivered was processed by its consumer, whatever workers crash.
THEOREM DeliveryIsAtLeastOnce == Spec => []DeliveredWasPublished
<1>1. Inv => DeliveredWasPublished
  BY DEF Inv
<1> QED
  BY <1>1, InvHolds, PTL

\* No event is both delivered and dead-lettered: lease tokens shut late workers out.
THEOREM EventsEndOnce == Spec => []OneEnd
<1>1. Inv => OneEnd
  BY DEF Inv
<1> QED
  BY <1>1, InvHolds, PTL

\* A job deadline shorter than the lease keeps two workers from publishing one event at a
\* time, except for a worker stopped past its deadline.
THEOREM WorkersDoNotOverlap == Spec => []NoOverlap
<1>1. Inv => NoOverlap
  <2> SUFFICES ASSUME Inv, NEW v \in Workers \ paused, NEW w \in Workers \ paused, v # w,
                      NEW e \in Working(v) \cap Working(w)
               PROVE  FALSE
    BY DEF NoOverlap
  <2> QED
    BY DEF Inv, Held
<1> QED
  BY <1>1, InvHolds, PTL

(***************************************************************************)
(* The outbox implements Delivery.                                         *)
(***************************************************************************)

\* What is being worked on, or was published, was inserted.
Known == published \subseteq present /\ \A w \in Workers : Working(w) \subseteq present

LEMMA KnownInit == Init => Known
  BY DEF Init, Known, Working

LEMMA KnownStep == Inv /\ Known /\ [Next]_vars => Known'
<1> SUFFICES ASSUME Inv, Known, [Next]_vars PROVE Known'
  OBVIOUS
<1> USE DEF Known
<1>0. Shape
  BY DEF Inv
<1>1. ASSUME NEW e \in Events, Insert(e) PROVE Known'
  BY <1>1 DEF Insert, Working
<1>2. ASSUME NEW w \in Workers, Claim(w) PROVE Known'
  <2>1. PICK batch \in SUBSET {e \in Events : Due(e)} : claimed' = [claimed EXCEPT ![w] = batch]
    BY <1>2 DEF Claim
  <2>2. UNCHANGED <<present, published, result>> /\ batch \subseteq present
    BY <1>2, <2>1 DEF Claim, Due, Pending
  <2> QED
    BY <1>0, <1>2, <2>1, <2>2 DEF Working, Shape, Claim, Idle
<1>3. ASSUME NEW w \in Workers, NEW e \in claimed[w], Publish(w, e) PROVE Known'
  <2>1. PICK ok \in BOOLEAN : result' = [result EXCEPT ![w] = [event |-> e, ok |-> ok]]
    BY <1>3 DEF Publish
  <2>2. /\ claimed' = [claimed EXCEPT ![w] = @ \ {e}] /\ UNCHANGED present
        /\ published' \subseteq published \cup {e} /\ e \in present
    BY <1>3 DEF Publish, Working, rows
  <2> QED
    BY <1>0, <2>1, <2>2 DEF Working, Shape
<1>4. ASSUME NEW w \in Workers, Ack(w) \/ Fail(w) PROVE Known'
  BY <1>0, <1>4 DEF Ack, Fail, Working, Shape
<1>5. ASSUME NEW w \in Workers, GiveUp(w) \/ Pause(w) PROVE Known'
  BY <1>0, <1>5 DEF GiveUp, Pause, Working, Shape, rows
<1>6. CASE Tick \/ UNCHANGED vars
  BY <1>6 DEF Tick, vars, rows, Working
<1> QED
  BY <1>1, <1>2, <1>3, <1>4, <1>5, <1>6 DEF Next, Work

\* Every step of the outbox is a step of Delivery or changes nothing Delivery sees.
LEMMA PromiseStep == Inv /\ Known /\ [Next]_vars => [Promise!Next]_(Promise!vars)
<1> SUFFICES ASSUME Inv, Known, [Next]_vars PROVE [Promise!Next]_(Promise!vars)
  OBVIOUS
<1> USE DEF Promise!vars
<1>0. Shape
  BY DEF Inv
<1>1. ASSUME NEW e \in Events, Insert(e) PROVE Promise!Insert(e)
  BY <1>1 DEF Insert, Promise!Insert
<1>2. ASSUME NEW w \in Workers, Claim(w) \/ GiveUp(w) \/ Pause(w) PROVE UNCHANGED Promise!vars
  BY <1>2 DEF Claim, GiveUp, Pause, rows
<1>3. ASSUME NEW w \in Workers, NEW e \in claimed[w], Publish(w, e)
      PROVE  e \in Events /\ (Promise!Process(e) \/ UNCHANGED Promise!vars)
  <2>1. e \in present /\ e \in Events
    BY <1>0 DEF Known, Working, Shape
  <2> QED
    BY <1>3, <2>1 DEF Publish, rows, Promise!Process
<1>4. ASSUME NEW w \in Workers, Ack(w)
      PROVE  \/ UNCHANGED Promise!vars
             \/ result[w].event \in Events /\ Promise!Deliver(result[w].event)
  <2> DEFINE e == result[w].event
  <2>1. e \in Events /\ e \in published /\ (Owns(w, e) => e \notin dead)
    BY <1>4, OutboxAssumption DEF Ack, Acknowledges, Inv, Shape, Honest, Settled, Owns
  <2> QED
    BY <1>4, <2>1 DEF Ack, Promise!Deliver
<1>5. ASSUME NEW w \in Workers, Fail(w)
      PROVE  \/ UNCHANGED Promise!vars
             \/ result[w].event \in Events /\ Promise!GiveUp(result[w].event)
  <2> DEFINE e == result[w].event
  <2>1. e \in Events /\ e \in present /\ (Owns(w, e) => e \notin delivered)
    BY <1>5, OutboxAssumption DEF Fail, Inv, Shape, Settled, Owns, Known, Working
  <2> QED
    BY <1>5, <2>1 DEF Fail, Promise!GiveUp
<1>6. CASE Tick \/ UNCHANGED vars
  BY <1>6 DEF Tick, vars, rows
<1> QED
  BY <1>1, <1>2, <1>3, <1>4, <1>5, <1>6 DEF Next, Work, Promise!Next

\* Whatever the limits, the number of workers and the faults, the outbox implements what
\* Delivery promises to the code that inserts and the code that consumes events.
THEOREM OutboxImplementsDelivery == Spec => DeliversAsPromised
<1>1. Init => Promise!Init
  BY DEF Init, Promise!Init
<1>2. Inv /\ Known /\ [Next]_vars => [Promise!Next]_(Promise!vars)
  BY PromiseStep
<1> QED
  BY <1>1, <1>2, InvHolds, KnownInit, KnownStep, PTL DEF Spec, DeliversAsPromised, Promise!Spec

-----------------------------------------------------------------------------
(***************************************************************************)
(* Bounds and types, and what a running lease protects.                    *)
(***************************************************************************)

\* The powers of two that the backoff can be.
LEMMA Powers == \A k \in 0..12 : 2^k \in Nat
<1> SUFFICES ASSUME NEW k \in 0..12 PROVE 2^k \in Nat
  OBVIOUS
<1>1. \/ k = 0 \/ k = 1 \/ k = 2 \/ k = 3 \/ k = 4 \/ k = 5 \/ k = 6
      \/ k = 7 \/ k = 8 \/ k = 9 \/ k = 10 \/ k = 11 \/ k = 12
  OBVIOUS
<1>2. /\ 2^0 \in Nat /\ 2^1 \in Nat /\ 2^2 \in Nat /\ 2^3 \in Nat /\ 2^4 \in Nat
      /\ 2^5 \in Nat /\ 2^6 \in Nat /\ 2^7 \in Nat /\ 2^8 \in Nat /\ 2^9 \in Nat
      /\ 2^10 \in Nat /\ 2^11 \in Nat /\ 2^12 \in Nat
  OBVIOUS
<1> QED
  BY <1>1, <1>2, Zenon

\* The backoff never exceeds its cap, however many attempts there were.
LEMMA BackoffCapped ==
  ASSUME NEW n \in Nat
  PROVE  Backoff(n) \in 0..BackoffCap
<1> DEFINE k == IF n < 12 THEN n ELSE 12
<1>1. k \in 0..12
  OBVIOUS
<1>2. 2^k \in Nat
  BY <1>1, Powers
<1> DEFINE p == 2^k
<1>3. Backoff(n) = IF p < BackoffCap THEN p ELSE BackoffCap
  BY DEF Backoff
<1> HIDE DEF p, k
<1>4. p \in Nat
  BY <1>2 DEF p
<1> QED
  BY <1>3, <1>4, OutboxAssumption

\* attempts and tries are kept at their limit.
LEMMA MoreCapped == \A n \in 0..MaxAttempts : More(n) \in 0..MaxAttempts
  BY OutboxAssumption DEF More

LEMMA TypeInit == Init => TypeOK
<1>1. 0 \in 0..MaxAttempts /\ 0 \in 0..LeaseTime /\ 0 \in 0..BackoffCap /\ 0 \in 0..MaxFaults
  BY OutboxAssumption
<1> QED
  BY <1>1 DEF Init, TypeOK

LEMMA TypeStep == TypeOK /\ [Next]_vars => TypeOK'
<1> SUFFICES ASSUME TypeOK, [Next]_vars PROVE TypeOK'
  OBVIOUS
<1> USE DEF TypeOK
<1>0. LeaseTime \in 0..LeaseTime /\ JobTime \in 0..LeaseTime /\ 0 \in 0..LeaseTime
  BY OutboxAssumption
<1>1. ASSUME NEW e \in Events, Insert(e) PROVE TypeOK'
  BY <1>1 DEF Insert
<1>2. ASSUME NEW w \in Workers, Claim(w) PROVE TypeOK'
  <2>1. PICK batch \in SUBSET Events :
           /\ attempts' = [e \in Events |-> IF e \in batch THEN More(attempts[e])
                                                           ELSE attempts[e]]
           /\ token' = [e \in Events |-> IF e \in batch THEN w ELSE token[e]]
           /\ lease' = [e \in Events |-> IF e \in batch THEN LeaseTime ELSE lease[e]]
           /\ claimed' = [claimed EXCEPT ![w] = batch]
    BY <1>2 DEF Claim
  <2>2. /\ job' = [job EXCEPT ![w] = JobTime] /\ paused' = paused \ {w}
        /\ UNCHANGED <<present, delivered, dead, wait, result, published, tries, faults>>
    BY <1>2 DEF Claim
  <2>3. attempts' \in [Events -> 0..MaxAttempts]
    BY <2>1, MoreCapped
  <2> QED
    BY <1>0, <2>1, <2>2, <2>3
<1>3. ASSUME NEW w \in Workers, NEW e \in claimed[w], Publish(w, e) PROVE TypeOK'
  <2>1. e \in Events
    OBVIOUS
  <2>2. PICK ok \in BOOLEAN, processed \in BOOLEAN :
           /\ result' = [result EXCEPT ![w] = [event |-> e, ok |-> ok]]
           /\ published' = IF processed THEN published \cup {e} ELSE published
    BY <1>3 DEF Publish
  <2>3. result' \in [Workers -> Outcomes \cup {NULL}]
    BY <2>1, <2>2 DEF Outcomes
  <2>4. tries' = [tries EXCEPT ![e] = More(tries[e])] /\ More(tries[e]) \in 0..MaxAttempts
    BY <1>3, <2>1, MoreCapped DEF Publish
  <2>5. claimed' = [claimed EXCEPT ![w] = claimed[w] \ {e}]
        /\ UNCHANGED <<rows, job, paused, faults>>
    BY <1>3 DEF Publish
  <2> QED
    BY <2>1, <2>2, <2>3, <2>4, <2>5 DEF rows
<1>4. ASSUME NEW w \in Workers, Ack(w) PROVE TypeOK'
  BY <1>0, <1>4 DEF Ack, Outcomes
<1>5. ASSUME NEW w \in Workers, Fail(w) PROVE TypeOK'
  <2> DEFINE e == result[w].event
  <2>1. e \in Events
    BY <1>5 DEF Fail, Outcomes
  <2>2. attempts[e] \in Nat
    BY <2>1, OutboxAssumption
  <2>3. Backoff(attempts[e]) \in 0..BackoffCap
    BY <2>2, BackoffCapped
  <2>4. \/ UNCHANGED <<token, lease, wait, dead>>
        \/ /\ token' = [token EXCEPT ![e] = NULL]
           /\ lease' = [lease EXCEPT ![e] = 0]
           /\ wait' = [wait EXCEPT ![e] = Backoff(attempts[e])]
           /\ dead' \in {dead \cup {e}, dead}
    BY <1>5 DEF Fail
  <2>5. result' = [result EXCEPT ![w] = NULL]
        /\ UNCHANGED <<present, delivered, attempts, claimed, job, paused, published,
                       tries, faults>>
    BY <1>5 DEF Fail
  <2> HIDE DEF e
  <2> QED
    BY <1>0, <2>1, <2>3, <2>4, <2>5
<1>6. ASSUME NEW w \in Workers, GiveUp(w) \/ Pause(w) PROVE TypeOK'
  <2>1. faults' \in 0..MaxFaults
    BY <1>6, OutboxAssumption DEF GiveUp, Pause
  <2> QED
    BY <1>0, <1>6, <2>1 DEF GiveUp, Pause, rows
<1>7. CASE Tick
  <2>1. \A n \in 0..LeaseTime : Less(n) \in 0..LeaseTime
    BY OutboxAssumption DEF Less
  <2>2. \A n \in 0..BackoffCap : Less(n) \in 0..BackoffCap
    BY OutboxAssumption DEF Less
  <2> QED
    BY <1>7, <2>1, <2>2 DEF Tick
<1>8. CASE UNCHANGED vars
  BY <1>8 DEF vars, rows
<1> QED
  BY <1>1, <1>2, <1>3, <1>4, <1>5, <1>6, <1>7, <1>8 DEF Next, Work

\* Backoffs stay within their cap, leases and job deadlines within theirs, and the limits
\* on attempts and faults are kept, for every value of these limits.
THEOREM TypeCorrect == Spec => []TypeOK
  BY TypeInit, TypeStep, PTL DEF Spec

\* While its lease runs an event changes hands in one way only: the worker that claimed it
\* records its outcome.  A second claim finds the lease, and the outcome of a worker that
\* lost the event finds another token.
THEOREM LeasesAreRespected == Spec => LeaseRespected
<1> DEFINE Respects == \A e \in Events :
              LET w == token[e]
              IN  w # NULL /\ lease[e] > 0 /\ token'[e] # w =>
                      result[w] # NULL /\ result[w].event = e /\ result'[w] = NULL
<1>1. ASSUME TypeOK, [Next]_vars PROVE [Respects]_vars
  <2> SUFFICES ASSUME NEW d \in Events, token[d] # NULL, lease[d] > 0, token'[d] # token[d]
               PROVE  /\ result[token[d]] # NULL /\ result[token[d]].event = d
                      /\ result'[token[d]] = NULL
    OBVIOUS
  <2>1. ASSUME NEW w \in Workers, Claim(w) PROVE FALSE
    <3>1. PICK batch \in SUBSET {e \in Events : Due(e)} :
             token' = [e \in Events |-> IF e \in batch THEN w ELSE token[e]]
      BY <2>1 DEF Claim
    <3>2. d \in batch
      BY <3>1
    <3>3. lease[d] = 0
      BY <3>2 DEF Due
    <3> QED
      BY <3>3
  <2>2. ASSUME NEW w \in Workers, Ack(w) \/ Fail(w)
        PROVE  /\ result[token[d]] # NULL /\ result[token[d]].event = d
               /\ result'[token[d]] = NULL
    <3>1. /\ result[w] # NULL
          /\ result' = [result EXCEPT ![w] = NULL]
          /\ \/ token' = token
             \/ /\ token[result[w].event] = w
                /\ token' = [token EXCEPT ![result[w].event] = NULL]
      BY <2>2 DEF Ack, Fail, Owns
    <3>2. d = result[w].event /\ token[d] = w
      BY <1>1, <3>1 DEF TypeOK
    <3> QED
      BY <1>1, <3>1, <3>2 DEF TypeOK
  <2>3. ASSUME NEW w \in Workers, NEW e \in claimed[w], Publish(w, e) PROVE FALSE
    BY <2>3 DEF Publish, rows
  <2>4. ASSUME NEW w \in Workers, GiveUp(w) \/ Pause(w) PROVE FALSE
    BY <2>4 DEF GiveUp, Pause, rows
  <2>5. ASSUME NEW e \in Events, Insert(e) PROVE FALSE
    BY <2>5 DEF Insert
  <2>6. CASE Tick \/ UNCHANGED vars
    BY <2>6 DEF Tick, vars, rows
  <2> QED
    BY <1>1, <2>1, <2>2, <2>3, <2>4, <2>5, <2>6 DEF Next, Work
<1> QED
  BY <1>1, TypeCorrect, PTL DEF Spec, LeaseRespected

=============================================================================
