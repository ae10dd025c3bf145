------------------------------ MODULE Requests ------------------------------
(***************************************************************************)
(* The way of a mutating request through the API: Require and the gate in  *)
(* front of the booking handlers (internal/httpapi), the rate limiter, and *)
(* idempotency.Begin and Save around the handler's own work, all in one    *)
(* database transaction.  Requests run side by side, in one replica or in  *)
(* several, and a client may send the same one again at any moment: its    *)
(* answer may be lost, and http.TimeoutHandler gives up on a handler that  *)
(* goes on to commit.                                                      *)
(*                                                                         *)
(* A member of Keys is a user, a route and an Idempotency-Key.             *)
(***************************************************************************)
EXTENDS Integers, FiniteSets

CONSTANTS
    Users, Keys, Payloads,
    UserOf,         \* the user of a key
    Resources,      \* ids of what the handlers create
    Attempts,       \* requests that may run at a time
    NULL,           \* no record, no holder
    Limit,          \* requests a user may make in a window: 60 in a minute
    MaxWindow       \* bound on the clock, which counts windows

ASSUME RequestsAssumption ==
    /\ UserOf \in [Keys -> Users]
    /\ NULL \notin Attempts \cup [payload : Payloads, resource : Resources]
    /\ Limit \in Nat /\ MaxWindow \in Nat

VARIABLES
    window,         \* the window clock_timestamp() is in
    buckets,        \* rate_limit_buckets: requests by user and window
    admitted,       \* the requests let through, by user and window (history)
    req,            \* req[a]: the request in slot a
    lock,           \* lock[k]: holder of the advisory lock on k, or NULL
    records,        \* idempotency_records: payload's hash and response, or NULL
    effects,        \* what the handlers have committed (history)
    answers         \* what clients were told (history)

vars == <<window, buckets, admitted, req, lock, records, effects, answers>>

Idle == [step |-> "idle"]

Zeros == [u \in Users |-> [w \in 0..MaxWindow |-> 0]]

Init ==
    /\ window = 0
    /\ buckets = Zeros /\ admitted = Zeros
    /\ req = [a \in Attempts |-> Idle]
    /\ lock = [k \in Keys |-> NULL]
    /\ records = [k \in Keys |-> NULL]
    /\ effects = {} /\ answers = {}

Goto(a, step) == req' = [req EXCEPT ![a].step = step]

\* The transaction ends, and with it its advisory lock.
\* Mutant: a session-level lock, which outlives the transaction.
ReleasedSession(a) == lock
Released(a) == [k \in Keys |-> IF lock[k] = a THEN NULL ELSE lock[k]]

End(a) == req' = [req EXCEPT ![a] = Idle] /\ lock' = Released(a)

-----------------------------------------------------------------------------
(***************************************************************************)
(* The gate.                                                               *)
(***************************************************************************)

\* Require has authenticated the user and the key is well formed.
Send(a, k, d) ==
    /\ req[a] = Idle
    /\ req' = [req EXCEPT ![a] =
          [step |-> "limit", key |-> k, payload |-> d, resource |-> NULL]]
    /\ UNCHANGED <<window, buckets, admitted, lock, records, effects, answers>>

\* LEAST(requests+1, limit+1), so that the column cannot overflow.
\* Mutant: the count stops at the limit itself.
CountedToLimit(n) == IF n < Limit THEN n + 1 ELSE Limit
Counted(n) == IF n < Limit + 1 THEN n + 1 ELSE Limit + 1

\* Allow: one INSERT ... ON CONFLICT DO UPDATE ... RETURNING.  Not allowed is a 429.
Allow(a) ==
    LET u == UserOf[req[a].key]
        count == Counted(buckets[u][window])
    IN  /\ req[a].step = "limit"
        /\ buckets' = [buckets EXCEPT ![u][window] = count]
        /\ IF count <= Limit
           THEN /\ Goto(a, "begin")
                /\ admitted' = [admitted EXCEPT ![u][window] = @ + 1]
           ELSE /\ req' = [req EXCEPT ![a] = Idle]
                /\ UNCHANGED admitted
        /\ UNCHANGED <<window, lock, records, effects, answers>>

-----------------------------------------------------------------------------
(***************************************************************************)
(* Begin, the handler, Save and the commit.                                *)
(***************************************************************************)

\* Mutant: no advisory lock is taken.
LockFreeAlways(k) == TRUE
LockFree(k) == lock[k] = NULL

Lock(a) ==
    /\ req[a].step = "begin"
    /\ LockFree(req[a].key)
    /\ lock' = [lock EXCEPT ![req[a].key] = a]
    /\ Goto(a, "check")
    /\ UNCHANGED <<window, buckets, admitted, records, effects, answers>>

SamePayload(record, d) == record.payload = d

\* The SELECT, after the lock was granted: nothing there yet.
Fresh(a) ==
    /\ req[a].step = "check"
    /\ records[req[a].key] = NULL
    /\ Goto(a, "run")
    /\ UNCHANGED <<window, buckets, admitted, lock, records, effects, answers>>

\* The stored response is sent again, unless that answer is lost as well.
Replay(a) ==
    LET k == req[a].key
        told == [key |-> k, payload |-> req[a].payload, resource |-> records[k].resource]
    IN  /\ req[a].step = "check"
        /\ records[k] # NULL /\ SamePayload(records[k], req[a].payload)
        /\ answers' \in {answers, answers \cup {told}}
        /\ End(a)
        /\ UNCHANGED <<window, buckets, admitted, records, effects>>

\* ErrConflict: a 409, and nothing is done.
KeyReused(a) ==
    /\ req[a].step = "check"
    /\ records[req[a].key] # NULL /\ ~SamePayload(records[req[a].key], req[a].payload)
    /\ End(a)
    /\ UNCHANGED <<window, buckets, admitted, records, effects, answers>>

\* The handler's statements, not committed yet.  A handler that fails ends in Abort.
Run(a, r) ==
    /\ req[a].step = "run"
    /\ \A f \in effects : f.resource # r
    /\ \A b \in Attempts : req[b] # Idle => req[b].resource # r
    /\ req' = [req EXCEPT ![a].step = "save", ![a].resource = r]
    /\ UNCHANGED <<window, buckets, admitted, lock, records, effects, answers>>

\* The primary key of idempotency_records lets only one of two rows in.
CanSave(a) == records[req[a].key] = NULL

\* Mutant: Save is forgotten.
SavedNothing(a) == records
Saved(a) == [records EXCEPT ![req[a].key] =
                [payload |-> req[a].payload, resource |-> req[a].resource]]

\* Save and the commit; afterwards the answer may be lost.
Commit(a) ==
    LET done == [key |-> req[a].key, payload |-> req[a].payload, resource |-> req[a].resource]
    IN  /\ req[a].step = "save" /\ CanSave(a)
        /\ records' = Saved(a)
        /\ effects' = effects \cup {done}
        /\ answers' \in {answers, answers \cup {done}}
        /\ End(a)
        /\ UNCHANGED <<window, buckets, admitted>>

\* A domain error, a timeout, a lost connection or a crash: the transaction is rolled back.
Abort(a) ==
    /\ req[a] # Idle
    /\ End(a)
    /\ UNCHANGED <<window, buckets, admitted, records, effects, answers>>

NextWindow ==
    /\ window < MaxWindow
    /\ window' = window + 1
    /\ UNCHANGED <<buckets, admitted, req, lock, records, effects, answers>>

-----------------------------------------------------------------------------
Handle(a) ==
    \/ Allow(a) \/ Lock(a) \/ Fresh(a) \/ Replay(a) \/ KeyReused(a)
    \/ \E r \in Resources : Run(a, r)
    \/ Commit(a)

Next ==
    \/ \E a \in Attempts :
          \/ \E k \in Keys, d \in Payloads : Send(a, k, d)
          \/ Handle(a)
          \/ Abort(a)
    \/ NextWindow

\* A handler takes its next step, and PostgreSQL grants a lock to its waiters in turn.  That
\* Abort ends a request at its deadline is not assumed.
Fairness == \A a \in Attempts : SF_vars(Handle(a))

Spec == Init /\ [][Next]_vars

FairSpec == Spec /\ Fairness

-----------------------------------------------------------------------------
(***************************************************************************)
(* Properties.                                                             *)
(***************************************************************************)

Promise == INSTANCE OnceOnly

\* "Records bind user, route, key and normalized payload hash ... the domain write and saved
\* response commit together" (ADR 004): requests that overlap, that are sent again after a
\* lost answer or a timeout, or that reuse a key for something else, have one effect for a
\* key and are told about that effect or nothing.
KeptPromise == Promise!Spec

\* Begin's lock comes before its SELECT, so no request works for nothing: when a handler
\* saves its record there is none for its key, and Save never fails on the primary key.
SaveNeverConflicts == \A a \in Attempts : req[a].step = "save" => CanSave(a)

\* No window lets more than Limit requests of a user through, however many are sent, in
\* whatever order they are counted.
LimitHolds == \A u \in Users, w \in 0..MaxWindow : admitted[u][w] <= Limit

\* No request is left waiting for a lock nobody will give back: each one ends, and does not
\* need its deadline for that.
RequestsEnd == \A a \in Attempts : req[a] # Idle ~> req[a] = Idle

=============================================================================
