--------------------------- MODULE RequestsProofs ---------------------------
(***************************************************************************)
(* Proofs about Requests for any users, keys, payloads and resources, any  *)
(* number of requests at a time and any limit.                             *)
(***************************************************************************)
EXTENDS Requests, TLAPS

Row == [payload : Payloads, resource : Resources]

Effect == [key : Keys, payload : Payloads, resource : Resources]

Request == [step : {"limit", "begin", "check", "run", "save"}, key : Keys,
            payload : Payloads, resource : Resources \cup {NULL}]

Shape ==
    /\ window \in 0..MaxWindow
    /\ buckets \in [Users -> [0..MaxWindow -> Nat]]
    /\ admitted \in [Users -> [0..MaxWindow -> Nat]]
    /\ req \in [Attempts -> Request \cup {Idle}]
    /\ lock \in [Keys -> Attempts \cup {NULL}]
    /\ records \in [Keys -> Row \cup {NULL}]
    /\ effects \subseteq Effect

(***************************************************************************)
(* The inductive invariant.  A request that is past the advisory lock      *)
(* holds it, so what it saw in idempotency_records stays true until its    *)
(* own commit; and a committed effect and the record of it come together.  *)
(***************************************************************************)

\* Past Begin's lock a request is the holder of it.
Holder == \A a \in Attempts :
    req[a].step \in {"check", "run", "save"} => lock[req[a].key] = a

\* The SELECT found no record, and there still is none.
Unrecorded == \A a \in Attempts :
    req[a].step \in {"run", "save"} => records[req[a].key] = NULL

\* A record is of an effect, and an effect has its record.
Recorded ==
    /\ \A k \in Keys : records[k] # NULL =>
          [key |-> k, payload |-> records[k].payload, resource |-> records[k].resource]
             \in effects
    /\ \A e \in effects : records[e.key] # NULL

\* What a handler has created is its own.
OwnResource ==
    /\ \A a \in Attempts : req[a].step = "save" => req[a].resource # NULL
    /\ \A a \in Attempts : req[a].step \in {"limit", "begin", "check", "run"} =>
          req[a].resource = NULL
    /\ \A a, b \in Attempts : req[a].step = "save" /\ req[b].step = "save" =>
          (req[a].resource = req[b].resource => a = b)
    /\ \A a \in Attempts : req[a].step = "save" =>
          \A f \in effects : f.resource # req[a].resource

\* A bucket counts at least the requests it let through.
BucketsCount == \A u \in Users, w \in 0..MaxWindow :
    admitted[u][w] <= Limit /\ admitted[u][w] <= buckets[u][w]

Inv == Shape /\ Holder /\ Unrecorded /\ Recorded /\ OwnResource /\ BucketsCount

LEMMA InvInit == Init => Inv
  BY RequestsAssumption DEF Init, Inv, Shape, Holder, Unrecorded, Recorded, OwnResource,
     BucketsCount, Zeros, Idle

\* A request that ends gives back its lock and nobody else's.
LEMMA EndStep ==
  ASSUME Inv, NEW a \in Attempts, End(a)
  PROVE  /\ req' \in [Attempts -> Request \cup {Idle}]
         /\ lock' \in [Keys -> Attempts \cup {NULL}]
         /\ Holder'
         /\ req'[a] = Idle
         /\ \A b \in Attempts \ {a} : req'[b] = req[b]
<1>1. /\ req' = [req EXCEPT ![a] = Idle]
      /\ lock' = [k \in Keys |-> IF lock[k] = a THEN NULL ELSE lock[k]]
  BY DEF End, Released
<1>2. req \in [Attempts -> Request \cup {Idle}] /\ lock \in [Keys -> Attempts \cup {NULL}]
  BY DEF Inv, Shape
<1>3. req'[a] = Idle /\ \A b \in Attempts \ {a} : req'[b] = req[b]
  BY <1>1, <1>2
<1>4. req' \in [Attempts -> Request \cup {Idle}] /\ lock' \in [Keys -> Attempts \cup {NULL}]
  BY <1>1, <1>2
<1>5. Holder'
  <2> SUFFICES ASSUME NEW b \in Attempts, req'[b].step \in {"check", "run", "save"}
               PROVE  lock'[req'[b].key] = b
    BY DEF Holder
  <2>1. b # a
    BY <1>3 DEF Idle
  <2>2. req[b] \in Request /\ lock[req[b].key] = b
    BY <1>2, <1>3, <2>1 DEF Inv, Holder, Idle
  <2> QED
    BY <1>1, <1>3, <2>1, <2>2 DEF Request
<1> QED
  BY <1>3, <1>4, <1>5

\* The parts a request that ends without an effect of its own leaves as they were.
LEMMA EndedQuietly ==
  ASSUME Inv, NEW a \in Attempts, End(a),
         UNCHANGED <<window, buckets, admitted, records, effects>>
  PROVE  Inv'
<1>1. /\ req' \in [Attempts -> Request \cup {Idle}]
      /\ lock' \in [Keys -> Attempts \cup {NULL}] /\ Holder'
      /\ req'[a] = Idle /\ \A b \in Attempts \ {a} : req'[b] = req[b]
  BY EndStep
<1>2. \A b \in Attempts : req'[b].step # "idle" => req'[b] = req[b]
  BY <1>1 DEF Idle
<1>3. Shape'
  BY <1>1 DEF Inv, Shape
<1>4. Unrecorded' /\ Recorded' /\ BucketsCount'
  BY <1>2 DEF Inv, Unrecorded, Recorded, BucketsCount
<1>5. OwnResource'
  BY <1>2 DEF Inv, OwnResource
<1> QED
  BY <1>1, <1>3, <1>4, <1>5 DEF Inv

LEMMA SendStep ==
  ASSUME Inv, NEW a \in Attempts, NEW k \in Keys, NEW d \in Payloads, Send(a, k, d)
  PROVE  Inv'
<1> DEFINE new == [step |-> "limit", key |-> k, payload |-> d, resource |-> NULL]
<1>1. /\ req' = [req EXCEPT ![a] = new]
      /\ UNCHANGED <<window, buckets, admitted, lock, records, effects>>
  BY DEF Send
<1>2. new \in Request
  BY DEF Request
<1>3. /\ req'[a] = new /\ \A b \in Attempts \ {a} : req'[b] = req[b]
      /\ req' \in [Attempts -> Request \cup {Idle}]
  BY <1>1, <1>2 DEF Inv, Shape
<1>4. Shape'
  BY <1>1, <1>3 DEF Inv, Shape
<1>5. Holder' /\ Unrecorded' /\ Recorded' /\ BucketsCount'
  BY <1>1, <1>3 DEF Inv, Holder, Unrecorded, Recorded, BucketsCount
<1>6. OwnResource'
  BY <1>1, <1>3 DEF Inv, OwnResource
<1> QED
  BY <1>4, <1>5, <1>6 DEF Inv

\* A request that goes to its next step and does not touch its resource.
LEMMA GotoStep ==
  ASSUME Inv, NEW a \in Attempts, NEW to \in {"begin", "check", "run"},
         req[a].step \in {"limit", "begin", "check"}, Goto(a, to),
         UNCHANGED <<records, effects>>
  PROVE  /\ req' \in [Attempts -> Request \cup {Idle}]
         /\ OwnResource' /\ Recorded'
         /\ req'[a].step = to /\ req'[a].key = req[a].key
         /\ \A b \in Attempts \ {a} : req'[b] = req[b]
<1>1. req[a] \in Request
  BY DEF Inv, Shape, Idle
<1>2. req' = [req EXCEPT ![a].step = to]
  BY DEF Goto
<1>3. /\ req'[a] = [req[a] EXCEPT !.step = to]
      /\ \A b \in Attempts \ {a} : req'[b] = req[b]
      /\ req' = [req EXCEPT ![a] = [req[a] EXCEPT !.step = to]]
  BY <1>2 DEF Inv, Shape
<1>4. /\ req'[a] \in Request /\ req'[a].step = to
      /\ req'[a].key = req[a].key /\ req'[a].resource = req[a].resource
  BY <1>1, <1>3 DEF Request
<1>5. req' \in [Attempts -> Request \cup {Idle}]
  BY <1>3, <1>4 DEF Inv, Shape
<1>6. OwnResource'
  BY <1>3, <1>4 DEF Inv, OwnResource
<1> QED
  BY <1>3, <1>4, <1>5, <1>6 DEF Inv, Recorded

LEMMA AllowStep == ASSUME Inv, NEW a \in Attempts, Allow(a) PROVE Inv'
<1> DEFINE u == UserOf[req[a].key]
           n == buckets[u][window]
           count == Counted(n)
<1>1. /\ req[a].step = "limit"
      /\ buckets' = [buckets EXCEPT ![u][window] = count]
      /\ UNCHANGED <<window, lock, records, effects>>
  BY DEF Allow
<1>2. req[a] \in Request /\ u \in Users
  BY <1>1, RequestsAssumption DEF Inv, Shape, Idle, Request
<1>3. /\ n \in Nat /\ count \in Nat
      /\ count <= Limit => count = n + 1
      /\ count <= n => count > Limit
  BY <1>2, RequestsAssumption DEF Inv, Shape, Counted
<1>4. buckets' \in [Users -> [0..MaxWindow -> Nat]]
  BY <1>1, <1>2, <1>3 DEF Inv, Shape
<1> HIDE DEF u
<1>5. \A v \in Users, w \in 0..MaxWindow :
         buckets'[v][w] = IF v = u /\ w = window THEN count ELSE buckets[v][w]
  BY <1>1, <1>2 DEF Inv, Shape
<1> HIDE DEF n, count
<1>6. CASE count <= Limit
  <2>1. Goto(a, "begin") /\ admitted' = [admitted EXCEPT ![u][window] = @ + 1]
    BY <1>6 DEF Allow, u, count, n
  <2>2. /\ req' \in [Attempts -> Request \cup {Idle}]
        /\ OwnResource' /\ Recorded' /\ req'[a].step = "begin"
        /\ \A b \in Attempts \ {a} : req'[b] = req[b]
    BY <1>1, <2>1, GotoStep
  <2>3. admitted[u][window] \in Nat /\ admitted[u][window] + 1 \in Nat
    <3>1. admitted[u] \in [0..MaxWindow -> Nat] /\ window \in 0..MaxWindow
      BY <1>2 DEF Inv, Shape
    <3>2. admitted[u][window] \in Nat
      BY <3>1
    <3> QED
      BY <3>2
  <2>4. admitted' \in [Users -> [0..MaxWindow -> Nat]]
    BY <1>2, <2>1, <2>3 DEF Inv, Shape
  <2>5. \A v \in Users, w \in 0..MaxWindow :
           admitted'[v][w] = IF v = u /\ w = window THEN admitted[u][window] + 1
                                                    ELSE admitted[v][w]
    BY <1>2, <2>1 DEF Inv, Shape
  <2>6. admitted[u][window] <= n
    BY <1>2 DEF Inv, Shape, BucketsCount, n
  <2>7. admitted[u][window] + 1 <= count
    BY <1>3, <1>6, <2>3, <2>6
  <2>8. admitted[u][window] + 1 <= Limit
    BY <1>3, <1>6, <2>3, <2>7, RequestsAssumption
  <2>9. BucketsCount'
    BY <1>5, <2>5, <2>7, <2>8 DEF Inv, BucketsCount
  <2>10. Shape'
    BY <1>1, <1>4, <2>2, <2>4 DEF Inv, Shape
  <2>11. Holder' /\ Unrecorded'
    BY <1>1, <2>2 DEF Inv, Holder, Unrecorded
  <2> QED
    BY <2>2, <2>9, <2>10, <2>11 DEF Inv
<1>7. CASE ~(count <= Limit)
  <2>1. req' = [req EXCEPT ![a] = Idle] /\ admitted' = admitted
    BY <1>7 DEF Allow, u, count, n
  <2>2. /\ req'[a] = Idle /\ \A b \in Attempts \ {a} : req'[b] = req[b]
        /\ req' \in [Attempts -> Request \cup {Idle}]
    BY <2>1 DEF Inv, Shape
  <2>3. \A v \in Users, w \in 0..MaxWindow : admitted[v][w] \in Nat
    BY DEF Inv, Shape
  <2>4. BucketsCount'
    BY <1>3, <1>5, <1>7, <2>1, <2>3, RequestsAssumption DEF Inv, BucketsCount
  <2>5. Shape'
    BY <1>1, <1>4, <2>1, <2>2 DEF Inv, Shape
  <2>6. \A b \in Attempts : req'[b].step # "idle" => req'[b] = req[b]
    BY <2>2 DEF Idle
  <2>7. Holder' /\ Unrecorded' /\ Recorded'
    BY <1>1, <2>6 DEF Inv, Holder, Unrecorded, Recorded
  <2>8. OwnResource'
    BY <1>1, <2>6 DEF Inv, OwnResource
  <2> QED
    BY <2>4, <2>5, <2>7, <2>8 DEF Inv
<1> QED
  BY <1>6, <1>7

LEMMA LockStep == ASSUME Inv, NEW a \in Attempts, Lock(a) PROVE Inv'
<1>1. /\ req[a].step = "begin" /\ lock[req[a].key] = NULL
      /\ lock' = [lock EXCEPT ![req[a].key] = a]
      /\ Goto(a, "check")
      /\ UNCHANGED <<window, buckets, admitted, records, effects>>
  BY DEF Lock, LockFree
<1>2. /\ req' \in [Attempts -> Request \cup {Idle}]
      /\ OwnResource' /\ Recorded'
      /\ req'[a].step = "check" /\ req'[a].key = req[a].key
      /\ \A b \in Attempts \ {a} : req'[b] = req[b]
  BY <1>1, GotoStep
<1>3. req[a] \in Request
  BY <1>1 DEF Inv, Shape, Idle
<1>4. Shape'
  BY <1>1, <1>2, <1>3 DEF Inv, Shape, Request
<1>5. Holder'
  <2> SUFFICES ASSUME NEW b \in Attempts, req'[b].step \in {"check", "run", "save"}
               PROVE  lock'[req'[b].key] = b
    BY DEF Holder
  <2>1. CASE b = a
    BY <1>1, <1>2, <1>3, <2>1 DEF Inv, Shape, Request
  <2>2. CASE b # a
    <3>1. req'[b] = req[b] /\ lock[req[b].key] = b /\ req[b] \in Request
      BY <1>2, <2>2 DEF Inv, Shape, Holder, Idle
    <3> QED
      BY <1>1, <3>1, RequestsAssumption DEF Inv, Shape, Request
  <2> QED
    BY <2>1, <2>2
<1>6. Unrecorded' /\ BucketsCount'
  BY <1>1, <1>2 DEF Inv, Unrecorded, BucketsCount
<1> QED
  BY <1>2, <1>4, <1>5, <1>6 DEF Inv

LEMMA FreshStep == ASSUME Inv, NEW a \in Attempts, Fresh(a) PROVE Inv'
<1>1. /\ req[a].step = "check" /\ records[req[a].key] = NULL
      /\ Goto(a, "run")
      /\ UNCHANGED <<window, buckets, admitted, lock, records, effects>>
  BY DEF Fresh
<1>2. /\ req' \in [Attempts -> Request \cup {Idle}]
      /\ OwnResource' /\ Recorded'
      /\ req'[a].step = "run" /\ req'[a].key = req[a].key
      /\ \A b \in Attempts \ {a} : req'[b] = req[b]
  BY <1>1, GotoStep
<1>3. Shape'
  BY <1>1, <1>2 DEF Inv, Shape
<1>4. Holder' /\ Unrecorded' /\ BucketsCount'
  BY <1>1, <1>2 DEF Inv, Holder, Unrecorded, BucketsCount
<1> QED
  BY <1>2, <1>3, <1>4 DEF Inv

LEMMA RunStep ==
  ASSUME Inv, NEW a \in Attempts, NEW r \in Resources, Run(a, r) PROVE Inv'
<1>1. /\ req[a].step = "run"
      /\ \A f \in effects : f.resource # r
      /\ \A b \in Attempts : req[b] # Idle => req[b].resource # r
      /\ req' = [req EXCEPT ![a].step = "save", ![a].resource = r]
      /\ UNCHANGED <<window, buckets, admitted, lock, records, effects>>
  BY DEF Run
<1> DEFINE new == [req[a] EXCEPT !.step = "save", !.resource = r]
<1>2. req[a] \in Request /\ req[a] # Idle
  BY <1>1 DEF Inv, Shape, Idle
<1>3. /\ new \in Request /\ new.step = "save" /\ new.key = req[a].key /\ new.resource = r
  BY <1>2 DEF Request
<1>4. req' = [req EXCEPT ![a] = new]
  BY <1>1 DEF Inv, Shape
<1> HIDE DEF new
<1>5. /\ req'[a] = new /\ \A b \in Attempts \ {a} : req'[b] = req[b]
      /\ req' \in [Attempts -> Request \cup {Idle}]
  BY <1>3, <1>4 DEF Inv, Shape
<1>6. Shape'
  BY <1>1, <1>5 DEF Inv, Shape
<1>7. Holder' /\ Unrecorded' /\ Recorded' /\ BucketsCount'
  BY <1>1, <1>3, <1>5 DEF Inv, Holder, Unrecorded, Recorded, BucketsCount
<1>8. r # NULL
  BY <1>1, <1>2 DEF Inv, OwnResource
<1>9. \A b \in Attempts : req[b].step = "save" => req[b].resource # r
  BY <1>1 DEF Idle
<1>10. OwnResource'
  BY <1>1, <1>3, <1>5, <1>8, <1>9 DEF Inv, OwnResource
<1> QED
  BY <1>6, <1>7, <1>10 DEF Inv

\* A commit makes the effect and its record at once.
LEMMA CommitStep == ASSUME Inv, NEW a \in Attempts, Commit(a) PROVE Inv'
<1> DEFINE k == req[a].key
           row == [payload |-> req[a].payload, resource |-> req[a].resource]
           done == [key |-> req[a].key, payload |-> req[a].payload,
                    resource |-> req[a].resource]
<1>1. /\ req[a].step = "save" /\ End(a)
      /\ records' = [records EXCEPT ![k] = row]
      /\ effects' = effects \cup {done}
      /\ UNCHANGED <<window, buckets, admitted>>
  BY DEF Commit, Saved
<1>2. /\ req[a] \in Request /\ req[a].resource \in Resources
  BY <1>1 DEF Inv, Shape, Idle, OwnResource, Request
<1>3. /\ k \in Keys /\ row \in Row /\ row # NULL /\ done \in Effect /\ done.key = k
      /\ done.resource = req[a].resource
      /\ done = [key |-> k, payload |-> row.payload, resource |-> row.resource]
  BY <1>2, RequestsAssumption DEF Request, Row, Effect
<1>4. /\ req' \in [Attempts -> Request \cup {Idle}]
      /\ lock' \in [Keys -> Attempts \cup {NULL}] /\ Holder'
      /\ req'[a] = Idle /\ \A b \in Attempts \ {a} : req'[b] = req[b]
  BY <1>1, EndStep
<1>5. \A b \in Attempts : req'[b].step # "idle" => b # a /\ req'[b] = req[b]
  BY <1>4 DEF Idle
<1> HIDE DEF row, done
<1>6. \A q \in Keys : records'[q] = IF q = k THEN row ELSE records[q]
  BY <1>1, <1>3 DEF Inv, Shape
<1>7. Shape'
  BY <1>1, <1>3, <1>4 DEF Inv, Shape
<1>8. Unrecorded'
  <2> SUFFICES ASSUME NEW b \in Attempts, req'[b].step \in {"run", "save"}
               PROVE  records'[req'[b].key] = NULL
    BY DEF Unrecorded
  <2>1. b # a /\ req'[b] = req[b] /\ req[b] \in Request
    BY <1>5 DEF Inv, Shape, Idle
  <2>2. lock[req[b].key] = b /\ lock[k] = a /\ records[req[b].key] = NULL
    BY <1>1, <2>1 DEF Inv, Holder, Unrecorded
  <2> QED
    BY <1>6, <2>1, <2>2 DEF Request
<1>9. Recorded'
  <2>1. ASSUME NEW q \in Keys, records'[q] # NULL
        PROVE  [key |-> q, payload |-> records'[q].payload,
                resource |-> records'[q].resource] \in effects'
    BY <1>1, <1>3, <1>6, <2>1 DEF Inv, Recorded
  <2>2. ASSUME NEW e \in effects' PROVE records'[e.key] # NULL
    BY <1>1, <1>3, <1>6, <2>2 DEF Inv, Recorded, Shape, Effect
  <2> QED
    BY <2>1, <2>2 DEF Recorded
<1>10. OwnResource'
  BY <1>1, <1>3, <1>5 DEF Inv, OwnResource
<1>11. BucketsCount'
  BY <1>1 DEF Inv, BucketsCount
<1> QED
  BY <1>4, <1>7, <1>8, <1>9, <1>10, <1>11 DEF Inv

LEMMA InvStep == Inv /\ [Next]_vars => Inv'
<1> SUFFICES ASSUME Inv, [Next]_vars PROVE Inv'
  OBVIOUS
<1>1. ASSUME NEW a \in Attempts, NEW k \in Keys, NEW d \in Payloads, Send(a, k, d)
      PROVE  Inv'
  BY <1>1, SendStep
<1>2. ASSUME NEW a \in Attempts, Handle(a) PROVE Inv'
  <2>1. CASE Allow(a)
    BY <2>1, AllowStep
  <2>2. CASE Lock(a)
    BY <2>2, LockStep
  <2>3. CASE Fresh(a)
    BY <2>3, FreshStep
  <2>4. CASE Replay(a) \/ KeyReused(a)
    BY <2>4, EndedQuietly DEF Replay, KeyReused
  <2>5. CASE \E r \in Resources : Run(a, r)
    BY <2>5, RunStep
  <2>6. CASE Commit(a)
    BY <2>6, CommitStep
  <2> QED
    BY <1>2, <2>1, <2>2, <2>3, <2>4, <2>5, <2>6 DEF Handle
<1>3. ASSUME NEW a \in Attempts, Abort(a) PROVE Inv'
  BY <1>3, EndedQuietly DEF Abort
<1>4. CASE NextWindow
  <2>1. Shape'
    BY <1>4, RequestsAssumption DEF NextWindow, Inv, Shape
  <2> QED
    BY <1>4, <2>1 DEF NextWindow, Inv, Holder, Unrecorded, Recorded, OwnResource, BucketsCount
<1>5. CASE UNCHANGED vars
  BY <1>5 DEF vars, Inv, Shape, Holder, Unrecorded, Recorded, OwnResource, BucketsCount
<1> QED
  BY <1>1, <1>2, <1>3, <1>4, <1>5 DEF Next

\* At any moment of any requests: a handler between Begin and its commit is the only one of
\* its key and found no record, and each record is that of the key's one effect.
THEOREM Invariant == Spec => []Inv
  BY InvInit, InvStep, PTL DEF Spec

\* Begin takes the advisory lock before it reads idempotency_records, so no two handlers of
\* one user and key run side by side, and the INSERT of Save never meets a record.
THEOREM SaveNeverConflictsHolds == Spec => []SaveNeverConflicts
<1>1. Inv => SaveNeverConflicts
  BY DEF Inv, Unrecorded, SaveNeverConflicts, CanSave
<1> QED
  BY <1>1, Invariant, PTL

\* The rate limiter's single statement lets at most Limit requests of a user through in a
\* window, whatever overlaps and whatever the limit.
THEOREM LimitHoldsAlways == Spec => []LimitHolds
<1>1. Inv => LimitHolds
  BY DEF Inv, BucketsCount, LimitHolds
<1> QED
  BY <1>1, Invariant, PTL

-----------------------------------------------------------------------------
(***************************************************************************)
(* Refinement: a commit is the one effect of its key, a replay tells of it.*)
(***************************************************************************)

LEMMA CommitKeepsPromise ==
  ASSUME Inv, NEW a \in Attempts, Commit(a) PROVE Promise!Next
<1> DEFINE done == [key |-> req[a].key, payload |-> req[a].payload,
                    resource |-> req[a].resource]
<1>1. /\ req[a].step = "save" /\ records[req[a].key] = NULL
      /\ effects' = effects \cup {done}
      /\ answers' = answers \/ answers' = answers \cup {done}
  BY DEF Commit, CanSave
<1>2. done \in Promise!Effect
  BY <1>1 DEF Inv, Shape, Idle, OwnResource, Request, Promise!Effect
<1>3. \A f \in effects : f.key # done.key /\ f.resource # done.resource
  BY <1>1 DEF Inv, Recorded, OwnResource
<1> HIDE DEF done
<1>4. Promise!Do(done) \/ Promise!DoAndAnswer(done)
  BY <1>1, <1>3 DEF Promise!Do, Promise!DoAndAnswer
<1> QED
  BY <1>2, <1>4 DEF Promise!Next

LEMMA ReplayKeepsPromise ==
  ASSUME Inv, NEW a \in Attempts, Replay(a) PROVE [Promise!Next]_(Promise!vars)
<1> DEFINE k == req[a].key
           told == [key |-> k, payload |-> req[a].payload, resource |-> records[k].resource]
<1>1. /\ req[a].step = "check" /\ records[k] # NULL /\ records[k].payload = req[a].payload
      /\ effects' = effects
      /\ answers' = answers \/ answers' = answers \cup {told}
  BY DEF Replay, SamePayload
<1>2. k \in Keys
  BY <1>1 DEF Inv, Shape, Idle, Request
<1>3. told \in effects
  BY <1>1, <1>2 DEF Inv, Recorded
<1>4. told \in Promise!Effect
  BY <1>3 DEF Inv, Shape, Effect, Promise!Effect
<1> HIDE DEF told
<1> QED
  BY <1>1, <1>3, <1>4 DEF Promise!Next, Promise!Answer, Promise!vars

LEMMA StepKeepsPromise == Inv /\ [Next]_vars => [Promise!Next]_(Promise!vars)
<1> SUFFICES ASSUME Inv, [Next]_vars PROVE [Promise!Next]_(Promise!vars)
  OBVIOUS
<1>1. ASSUME NEW a \in Attempts, Commit(a) PROVE Promise!Next
  BY <1>1, CommitKeepsPromise
<1>2. ASSUME NEW a \in Attempts, Replay(a) PROVE [Promise!Next]_(Promise!vars)
  BY <1>2, ReplayKeepsPromise
<1>3. ASSUME NEW a \in Attempts,
             Allow(a) \/ Lock(a) \/ Fresh(a) \/ KeyReused(a) \/ Abort(a)
                \/ \E r \in Resources : Run(a, r)
      PROVE  UNCHANGED <<effects, answers>>
  BY <1>3 DEF Allow, Lock, Fresh, KeyReused, Abort, Run
<1>4. ASSUME NEW a \in Attempts, \E k \in Keys, d \in Payloads : Send(a, k, d)
      PROVE  UNCHANGED <<effects, answers>>
  BY <1>4 DEF Send
<1>5. CASE NextWindow \/ UNCHANGED vars
  BY <1>5 DEF NextWindow, vars, Promise!vars
<1> QED
  BY <1>1, <1>2, <1>3, <1>4, <1>5 DEF Next, Handle, Promise!vars

\* The gate, Begin, the handler, Save and the commit implement OnceOnly: however requests
\* overlap, are repeated or fail, a key has one effect and every answer tells of it.
THEOREM KeepsPromise == Spec => KeptPromise
<1>1. Init => Promise!Init
  BY DEF Init, Promise!Init
<1> QED
  BY <1>1, Invariant, StepKeepsPromise, PTL DEF Spec, KeptPromise, Promise!Spec

=============================================================================
