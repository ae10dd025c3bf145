------------------------------- MODULE Outbox -------------------------------
(***************************************************************************)
(* The transactional outbox: rows of outbox_events that the transactions   *)
(* of the program insert, and worker processes that claim them in batches, *)
(* publish them outside any transaction and record the outcome             *)
(* (internal/outbox, cmd/worker).  Between any two of its steps a worker   *)
(* may lose its database connection, run into the deadline of its job,     *)
(* crash, or be paused by its host past that deadline.                     *)
(*                                                                         *)
(* Times are kept as what is left of them, so the clock needs no bound: a  *)
(* tick takes one from every lease, backoff and job deadline.              *)
(***************************************************************************)
EXTENDS Integers, FiniteSets

CONSTANTS
    Events,         \* ids of outbox_events
    Workers,        \* worker processes
    NULL,           \* SQL's NULL
    MaxAttempts,    \* attempts at which a failure dead-letters: 10 in the code
    LeaseTime,      \* locked_until - clock_timestamp() at a claim: 30 seconds
    JobTime,        \* deadline of a worker's job: 15 seconds
    BackoffCap,     \* longest backoff: 3600 seconds
    BatchLimit,     \* the limit the worker passes to Batch: 10
    MaxFaults       \* bound on how often a worker gives up its batch or is paused

ASSUME OutboxAssumption ==
    /\ NULL \notin Workers
    /\ MaxAttempts \in Nat \ {0}
    /\ JobTime \in Nat \ {0} /\ LeaseTime \in Nat /\ JobTime < LeaseTime
    /\ BackoffCap \in Nat \ {0}
    /\ BatchLimit \in 1..100
    /\ MaxFaults \in Nat

VARIABLES
    present,        \* the events inserted so far
    delivered,      \* the events with delivered_at set
    dead,           \* the events with dead_lettered_at set
    attempts,       \* attempts[e], kept at MaxAttempts once it gets there
    token,          \* token[e]: the claim whose lock_token the row has, or NULL
    lease,          \* lease[e]: what is left of locked_until
    wait,           \* wait[e]: what is left of next_attempt_at
    claimed,        \* claimed[w]: the events of w's batch still to do
    result,         \* result[w]: the event w has published, with its outcome, or NULL
    job,            \* job[w]: what is left of the deadline of w's job
    paused,         \* the workers stopped past their deadline, until they are idle
    published,      \* the events some consumer has processed
    tries,          \* tries[e]: how often Publish was called, kept like attempts (history)
    faults          \* how many faults there were

rows == <<present, delivered, dead, attempts, token, lease, wait>>
vars == <<rows, claimed, result, job, paused, published, tries, faults>>

\* A lock_token is drawn afresh at each claim.  A worker forgets its claim before it makes
\* another, so the worker's name tells the claims that somebody remembers apart.
Outcomes == [event : Events, ok : BOOLEAN]

TypeOK ==
    /\ present \subseteq Events
    /\ delivered \subseteq Events
    /\ dead \subseteq Events
    /\ attempts \in [Events -> 0..MaxAttempts]
    /\ token \in [Events -> Workers \cup {NULL}]
    /\ lease \in [Events -> 0..LeaseTime]
    /\ wait \in [Events -> 0..BackoffCap]
    /\ claimed \in [Workers -> SUBSET Events]
    /\ result \in [Workers -> Outcomes \cup {NULL}]
    /\ job \in [Workers -> 0..LeaseTime]
    /\ paused \subseteq Workers
    /\ published \subseteq Events
    /\ tries \in [Events -> 0..MaxAttempts]
    /\ faults \in 0..MaxFaults

Init ==
    /\ present = {} /\ delivered = {} /\ dead = {}
    /\ attempts = [e \in Events |-> 0]
    /\ token = [e \in Events |-> NULL]
    /\ lease = [e \in Events |-> 0]
    /\ wait = [e \in Events |-> 0]
    /\ claimed = [w \in Workers |-> {}]
    /\ result = [w \in Workers |-> NULL]
    /\ job = [w \in Workers |-> 0]
    /\ paused = {}
    /\ published = {}
    /\ tries = [e \in Events |-> 0]
    /\ faults = 0

-----------------------------------------------------------------------------
\* Some transaction of the program commits with this event.
Insert(e) ==
    /\ e \notin present
    /\ present' = present \cup {e}
    /\ UNCHANGED <<delivered, dead, attempts, token, lease, wait, claimed, result, job,
                   paused, published, tries, faults>>

Pending(e) == e \in present /\ e \notin delivered /\ e \notin dead

\* Mutants: a running lease is ignored; a lapsed lease is never taken over.
DueUnleased(e) == Pending(e) /\ wait[e] = 0
DueOnce(e) == Pending(e) /\ wait[e] = 0 /\ token[e] = NULL
Due(e) == Pending(e) /\ wait[e] = 0 /\ lease[e] = 0

Idle(w) == claimed[w] = {} /\ result[w] = NULL

More(n) == IF n < MaxAttempts THEN n + 1 ELSE n

\* The UPDATE ... FROM claimed RETURNING of Batch: one statement.  SKIP LOCKED leaves out
\* the rows other statements are updating: any part of the due events may be the batch.
Claim(w) ==
    /\ Idle(w)
    /\ \E batch \in SUBSET {e \in Events : Due(e)} :
          /\ batch # {} /\ Cardinality(batch) <= BatchLimit
          /\ attempts' = [e \in Events |-> IF e \in batch THEN More(attempts[e])
                                                          ELSE attempts[e]]
          /\ token' = [e \in Events |-> IF e \in batch THEN w ELSE token[e]]
          /\ lease' = [e \in Events |-> IF e \in batch THEN LeaseTime ELSE lease[e]]
          /\ claimed' = [claimed EXCEPT ![w] = batch]
    /\ job' = [job EXCEPT ![w] = JobTime]
    /\ paused' = paused \ {w}
    /\ UNCHANGED <<present, delivered, dead, wait, result, published, tries, faults>>

\* Publisher.Publish returns.  A consumer may have done its work and still report an
\* error, as when the publish deadline passes while the answer is on its way.
Publish(w, e) ==
    /\ result[w] = NULL /\ e \in claimed[w]
    /\ \E ok, processed \in BOOLEAN :
          /\ ok => processed
          /\ result' = [result EXCEPT ![w] = [event |-> e, ok |-> ok]]
          /\ published' = IF processed THEN published \cup {e} ELSE published
    /\ claimed' = [claimed EXCEPT ![w] = @ \ {e}]
    /\ tries' = [tries EXCEPT ![e] = More(@)]
    /\ UNCHANGED <<rows, job, paused, faults>>

\* WHERE id=$1 AND lock_token=$2
\* Mutant: the outcome is recorded by id alone.
OwnsById(w, e) == TRUE
Owns(w, e) == token[e] = w

\* Mutant: a failure is acknowledged too.
AcknowledgesAll(r) == TRUE
Acknowledges(r) == r.ok

\* The UPDATE after a publish that succeeded.
Ack(w) ==
    LET e == result[w].event
    IN  /\ result[w] # NULL /\ Acknowledges(result[w])
        /\ IF Owns(w, e)
           THEN /\ delivered' = delivered \cup {e}
                /\ token' = [token EXCEPT ![e] = NULL]
                /\ lease' = [lease EXCEPT ![e] = 0]
           ELSE UNCHANGED <<delivered, token, lease>>
        /\ result' = [result EXCEPT ![w] = NULL]
        /\ UNCHANGED <<present, dead, attempts, wait, claimed, job, paused, published,
                       tries, faults>>

\* LEAST(3600, power(2, LEAST(attempts, 12)))
\* Mutant: the cap on the backoff is forgotten.
BackoffUncapped(n) == 2 ^ n
Backoff(n) ==
    LET p == 2 ^ (IF n < 12 THEN n ELSE 12)
    IN  IF p < BackoffCap THEN p ELSE BackoffCap

Exhausted(e) == attempts[e] >= MaxAttempts

\* The UPDATE after a publish that failed.
Fail(w) ==
    LET e == result[w].event
    IN  /\ result[w] # NULL /\ ~Acknowledges(result[w])
        /\ IF Owns(w, e)
           THEN /\ token' = [token EXCEPT ![e] = NULL]
                /\ lease' = [lease EXCEPT ![e] = 0]
                /\ wait' = [wait EXCEPT ![e] = Backoff(attempts[e])]
                /\ dead' = IF Exhausted(e) THEN dead \cup {e} ELSE dead
           ELSE UNCHANGED <<token, lease, wait, dead>>
        /\ result' = [result EXCEPT ![w] = NULL]
        /\ UNCHANGED <<present, delivered, attempts, claimed, job, paused, published,
                       tries, faults>>

\* Batch returns early, or the process dies: the deadline of the job has passed, recording
\* the outcome failed, or the worker crashed.  The rest of the batch stays claimed in the
\* database until its leases run out.
GiveUp(w) ==
    /\ ~Idle(w)
    /\ faults < MaxFaults
    /\ faults' = faults + 1
    /\ claimed' = [claimed EXCEPT ![w] = {}]
    /\ result' = [result EXCEPT ![w] = NULL]
    /\ UNCHANGED <<rows, job, paused, published, tries>>

\* The host stops the process at its deadline and lets it go on much later, when its
\* leases may have run out, with an update already on its way to the database.
Pause(w) ==
    /\ ~Idle(w) /\ job[w] = 0
    /\ faults < MaxFaults
    /\ faults' = faults + 1
    /\ job' = [job EXCEPT ![w] = LeaseTime]
    /\ paused' = paused \cup {w}
    /\ UNCHANGED <<rows, claimed, result, published, tries>>

Less(n) == IF n = 0 THEN 0 ELSE n - 1

\* Time passes.  A worker at work is within the deadline of its job: the context it works
\* under makes it stop there.
Tick ==
    /\ \E e \in Events : lease[e] > 0 \/ wait[e] > 0
    /\ \A w \in Workers : Idle(w) \/ job[w] > 0
    /\ lease' = [e \in Events |-> Less(lease[e])]
    /\ wait' = [e \in Events |-> Less(wait[e])]
    /\ job' = [w \in Workers |-> Less(job[w])]
    /\ UNCHANGED <<present, delivered, dead, attempts, token, claimed, result, paused,
                   published, tries, faults>>

-----------------------------------------------------------------------------
Work(w) == Claim(w) \/ (\E e \in claimed[w] : Publish(w, e)) \/ Ack(w) \/ Fail(w)

Next ==
    \/ \E e \in Events : Insert(e)
    \/ \E w \in Workers : Work(w) \/ GiveUp(w) \/ Pause(w)
    \/ Tick

\* A worker's loop always takes its next step, and time passes.
Fairness == WF_vars(Tick) /\ \A w \in Workers : WF_vars(Work(w))

Spec == Init /\ [][Next]_vars

FairSpec == Spec /\ Fairness

-----------------------------------------------------------------------------
(***************************************************************************)
(* Properties.                                                             *)
(***************************************************************************)

\* Delivery is at least once: an event marked delivered was processed by its consumer,
\* although workers publish, crash and take over each other's events in any order.
DeliveredWasPublished == delivered \subseteq published

\* An event has one end: never both delivered and dead-lettered.  A slow worker may still
\* report success after another one, which took the event over, has given up on it; the
\* lease token must keep that late report out.
OneEnd == delivered \cap dead = {}

\* While its lease runs, an event is in the hands of the worker that claimed it last: the
\* lease ends early only by that worker recording its outcome, never by another claim or
\* by the outcome of a worker that lost the event.
LeaseRespected ==
    [][\A e \in Events :
          LET w == token[e]
          IN  w # NULL /\ lease[e] > 0 /\ token'[e] # w =>
                  result[w] # NULL /\ result[w].event = e /\ result'[w] = NULL]_vars

Working(w) == claimed[w] \cup (IF result[w] = NULL THEN {} ELSE {result[w].event})

\* No event is worked on by two workers at a time unless one of them was paused past its
\* deadline: the leases of a batch outlast the job that took them.
NoOverlap ==
    \A v, w \in Workers \ paused : v # w => Working(v) \cap Working(w) = {}

\* No event is lost: each one inserted is in the end delivered or dead-lettered, also when
\* workers crash between claiming, publishing and recording.
Settles == \A e \in Events : e \in present ~> (e \in delivered \/ e \in dead)

\* "Retries use exponential backoff and dead-letter after ten attempts": a dead-lettered
\* event was given to its consumer MaxAttempts times.
DeadAfterMaxAttempts == \A e \in dead : tries[e] >= MaxAttempts

Promise == INSTANCE Delivery WITH processed <- published

\* The outbox keeps the promise Delivery states, on which Payments builds: seen from
\* outside, claims, leases, retries, crashes and pauses are only events that get processed
\* some number of times and then end, in one way.
DeliversAsPromised == Promise!Spec

=============================================================================
