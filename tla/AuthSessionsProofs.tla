------------------------- MODULE AuthSessionsProofs -------------------------
(***************************************************************************)
(* Proofs about AuthSessions for any users, sessions, tokens and requests  *)
(* at a time, and any lifetimes.                                           *)
(***************************************************************************)
EXTENDS AuthSessions, TLAPS

SessionRow == [user : Users, expires : Nat, revoked : BOOLEAN]

TokenRow == [session : Sessions, access : Nat, refresh : Nat, used : BOOLEAN,
             from : Tokens \cup {NULL}]

LoginReq == [op : {"login"}, user : Users, locked : BOOLEAN]

RefreshReq == [op : {"refresh", "rotate", "reuse"}, token : Tokens, session : Sessions,
               user : Users, live : BOOLEAN]

LogoutReq == [op : {"logout"}, user : Users, session : Sessions, all : BOOLEAN,
              locked : BOOLEAN, todo : SUBSET Sessions, done : SUBSET Sessions]

Tables ==
    /\ now \in Nat
    /\ registered \subseteq Users
    /\ sessions \in [Sessions -> SessionRow \cup {NoRow}]
    /\ tokens \in [Tokens -> TokenRow \cup {NoRow}]
    /\ req \in [Requests -> {Idle} \cup LoginReq \cup RefreshReq \cup LogoutReq]
    /\ ended \subseteq Sessions

LEMMA RowsExist ==
  /\ \A row \in SessionRow : Exists(row)
  /\ \A row \in TokenRow : Exists(row)
  /\ ~Exists(NoRow)
  BY DEF SessionRow, TokenRow, NoRow, Exists

(***************************************************************************)
(* The inductive invariant.  What a request has read stays true while it   *)
(* holds the row lock it read it under, so the parts about requests stand  *)
(* on the exclusion of the locks.                                          *)
(***************************************************************************)

\* A refresh has found its token; while it holds the session, that one is as it was.
RefreshHolds(r) ==
    /\ Exists(tokens[req[r].token])
    /\ tokens[req[r].token].session = req[r].session
    /\ req[r].op = "rotate" =>
          ~tokens[req[r].token].used /\ ~sessions[req[r].session].revoked

\* A logout has a session of its user; once it holds the user, every session it is about
\* is revoked or on its way: no login can add one.
LogoutCovers(r) ==
    /\ Exists(sessions[req[r].session])
    /\ sessions[req[r].session].user = req[r].user
    /\ ~req[r].locked => req[r].todo = {} /\ req[r].done = {}
    /\ \A s \in req[r].todo \cup req[r].done :
          Exists(sessions[s]) /\ sessions[s].user = req[r].user
    /\ req[r].locked => \A s \in Sessions :
          Exists(sessions[s]) /\ sessions[s].user = req[r].user
             /\ (req[r].all \/ s = req[r].session) =>
          sessions[s].revoked \/ s \in req[r].todo \cup req[r].done

Sound(r) ==
    /\ req[r].op \in {"refresh", "rotate", "reuse"} => RefreshHolds(r)
    /\ req[r].op = "logout" => LogoutCovers(r)

\* Nobody has a row that someone else has locked, whatever the modes: of two locks on a
\* user one is a login's, or both are logouts'.
Excluded(r, q) ==
    /\ SessionLocks(r) \cap SessionLocks(q) = {}
    /\ UserLock(r) # NULL /\ UserLock(q) # NULL => req[r].user # req[q].user

Exclusive == \A r, q \in Requests : r # q => Excluded(r, q)

\* Tokens are issued for a session that is there, and the one they replace is used up.
Lineage ==
    \A t \in Tokens : Exists(tokens[t]) =>
        /\ Exists(sessions[tokens[t].session])
        /\ tokens[t].from # NULL =>
              Exists(tokens[tokens[t].from]) /\ tokens[tokens[t].from].used

EndedStaysDead == \A s \in ended : Exists(sessions[s]) /\ sessions[s].revoked

Inv ==
    /\ Tables
    /\ \A r \in Requests : Sound(r)
    /\ Exclusive
    /\ Lineage
    /\ RotatedOnce
    /\ EndedStaysDead

LEMMA InvInit == Init => Inv
<1> SUFFICES ASSUME Init PROVE Inv
  OBVIOUS
<1>1. Tables
  BY DEF Init, Tables
<1>2. \A r \in Requests : Sound(r) /\ SessionLocks(r) = {} /\ UserLock(r) = NULL
  BY DEF Init, Sound, SessionLocks, UserLock, Idle
<1>3. Exclusive
  BY <1>2 DEF Exclusive, Excluded
<1>4. Lineage /\ RotatedOnce /\ EndedStaysDead
  BY DEF Init, Lineage, RotatedOnce, EndedStaysDead, Exists
<1> QED
  BY <1>1, <1>2, <1>3, <1>4 DEF Inv

-----------------------------------------------------------------------------
(***************************************************************************)
(* Steps of a request that write no table.                                 *)
(***************************************************************************)

\* What a request holds is its own affair.
LEMMA OthersKeep ==
  ASSUME Inv, NEW r \in Requests, NEW x, req' = [req EXCEPT ![r] = x]
  PROVE  /\ req'[r] = x
         /\ \A q \in Requests \ {r} : /\ req'[q] = req[q]
                                      /\ SessionLocks(q)' = SessionLocks(q)
                                      /\ UserLock(q)' = UserLock(q)
<1>1. req'[r] = x /\ \A q \in Requests \ {r} : req'[q] = req[q]
  BY DEF Inv, Tables
<1> QED
  BY <1>1 DEF SessionLocks, UserLock

\* Enough for a step of one request: it is sound itself and excludes the others.
LEMMA RequestStep ==
  ASSUME Inv, NEW r \in Requests,
         NEW x \in {Idle} \cup LoginReq \cup RefreshReq \cup LogoutReq,
         req' = [req EXCEPT ![r] = x], UNCHANGED <<now, registered, sessions, tokens, ended>>,
         Sound(r)',
         \A q \in Requests \ {r} :
            /\ SessionLocks(r)' \cap SessionLocks(q) = {}
            /\ UserLock(r)' # NULL /\ UserLock(q) # NULL => x.user # req[q].user
  PROVE  Inv'
<1>1. /\ req'[r] = x
      /\ \A q \in Requests \ {r} : /\ req'[q] = req[q]
                                   /\ SessionLocks(q)' = SessionLocks(q)
                                   /\ UserLock(q)' = UserLock(q)
  BY OthersKeep
<1>2. Tables'
  BY DEF Inv, Tables
<1>3. \A q \in Requests : Sound(q)'
  BY <1>1 DEF Inv, Sound, RefreshHolds, LogoutCovers
<1>4. Exclusive'
  <2> SUFFICES ASSUME NEW p \in Requests, NEW q \in Requests, p # q PROVE Excluded(p, q)'
    BY DEF Exclusive
  <2>1. Excluded(p, q)
    BY DEF Inv, Exclusive
  <2>2. CASE p = r
    BY <1>1, <2>2 DEF Excluded
  <2>3. CASE q = r
    BY <1>1, <2>3 DEF Excluded
  <2>4. CASE p # r /\ q # r
    BY <1>1, <2>1, <2>4 DEF Excluded
  <2> QED
    BY <2>2, <2>3, <2>4
<1>5. Lineage' /\ RotatedOnce' /\ EndedStaysDead'
  BY DEF Inv, Lineage, RotatedOnce, EndedStaysDead
<1> QED
  BY <1>2, <1>3, <1>4, <1>5 DEF Inv

\* A request that has locked nothing yet, or nothing any more.
LEMMA UnlockedStep ==
  ASSUME Inv, NEW r \in Requests,
         NEW x \in {Idle} \cup LoginReq \cup RefreshReq \cup LogoutReq,
         req' = [req EXCEPT ![r] = x], UNCHANGED <<now, registered, sessions, tokens, ended>>,
         Sound(r)',
         x.op \in {"idle", "refresh"} \/ (x.op = "login" /\ ~x.locked)
            \/ (x.op = "logout" /\ ~x.locked /\ x.done = {})
  PROVE  Inv'
<1>1. req'[r] = x
  BY OthersKeep
<1>2. SessionLocks(r)' = {} /\ UserLock(r)' = NULL
  BY <1>1 DEF SessionLocks, UserLock
<1> QED
  BY <1>2, RequestStep

LEMMA LoginStep == ASSUME Inv, NEW r \in Requests, NEW u \in Users, Login(r, u) PROVE Inv'
<1> DEFINE x == [op |-> "login", user |-> u, locked |-> FALSE]
<1>1. /\ req' = [req EXCEPT ![r] = x]
      /\ UNCHANGED <<now, registered, sessions, tokens, ended>>
  BY DEF Login
<1>2. x \in LoginReq /\ x.op = "login" /\ ~x.locked
  BY DEF LoginReq
<1> HIDE DEF x
<1>3. Sound(r)'
  BY <1>1, <1>2, OthersKeep DEF Sound
<1> QED
  BY <1>1, <1>2, <1>3, UnlockedStep

LEMMA RefreshStep ==
  ASSUME Inv, NEW r \in Requests, NEW t \in Tokens, Refresh(r, t) PROVE Inv'
<1> DEFINE s == tokens[t].session
           x == [op |-> "refresh", token |-> t, session |-> s, user |-> sessions[s].user,
                 live |-> sessions[s].expires > now /\ tokens[t].refresh > now]
<1>1. /\ req' = [req EXCEPT ![r] = x] /\ Exists(tokens[t])
      /\ UNCHANGED <<now, registered, sessions, tokens, ended>>
  BY DEF Refresh
<1>2. tokens[t] \in TokenRow /\ sessions[s] \in SessionRow
  BY <1>1, RowsExist DEF Inv, Tables, Lineage, TokenRow
<1>3. (sessions[s].expires > now /\ tokens[t].refresh > now) \in BOOLEAN
  OBVIOUS
<1>4. x \in RefreshReq /\ x.op = "refresh" /\ x.token = t /\ x.session = s
  BY <1>2, <1>3 DEF RefreshReq, TokenRow, SessionRow
<1> HIDE DEF x
<1>5. Sound(r)'
  BY <1>1, <1>4, OthersKeep DEF Sound, RefreshHolds
<1> QED
  BY <1>1, <1>4, <1>5, UnlockedStep

LEMMA LogoutStep ==
  ASSUME Inv, NEW r \in Requests, NEW t \in Tokens, NEW all \in BOOLEAN, Logout(r, t, all)
  PROVE  Inv'
<1> DEFINE s == tokens[t].session
           x == [op |-> "logout", user |-> sessions[s].user, session |-> s, all |-> all,
                 locked |-> FALSE, todo |-> {}, done |-> {}]
<1>1. /\ req' = [req EXCEPT ![r] = x] /\ Exists(tokens[t])
      /\ UNCHANGED <<now, registered, sessions, tokens, ended>>
  BY DEF Logout, Authenticate
<1>2. tokens[t] \in TokenRow /\ sessions[s] \in SessionRow /\ s \in Sessions
  BY <1>1, RowsExist DEF Inv, Tables, Lineage, TokenRow
<1>3. /\ x \in LogoutReq /\ x.op = "logout" /\ ~x.locked /\ x.todo = {} /\ x.done = {}
      /\ x.session = s /\ x.user = sessions[s].user
  BY <1>2 DEF LogoutReq, SessionRow
<1> HIDE DEF x
<1>4. Sound(r)'
  BY <1>1, <1>2, <1>3, OthersKeep, RowsExist DEF Sound, LogoutCovers
<1> QED
  BY <1>1, <1>3, <1>4, UnlockedStep

LEMMA RollbackStep == ASSUME Inv, NEW r \in Requests, Rollback(r) PROVE Inv'
<1>1. req' = [req EXCEPT ![r] = Idle] /\ UNCHANGED <<now, registered, sessions, tokens, ended>>
  BY DEF Rollback, Finish
<1>2. req'[r] = Idle /\ Idle.op = "idle"
  BY <1>1, OthersKeep DEF Idle
<1>3. Sound(r)'
  BY <1>2 DEF Sound
<1> QED
  BY <1>1, <1>2, <1>3, UnlockedStep

-----------------------------------------------------------------------------
(***************************************************************************)
(* Steps that take a row lock.                                             *)
(***************************************************************************)

\* Whoever gets its user's row in one of these two modes has it alone.
LEMMA UserGranted ==
  ASSUME NEW r \in Requests, NEW mode \in {LoginMode, LogoutMode}, UserFree(r, mode),
         NEW q \in Requests \ {r}, UserLock(q) # NULL
  PROVE  req[q].user # req[r].user
<1>1. UserLock(q) \in {LoginMode, LogoutMode}
  BY DEF UserLock
<1> QED
  BY <1>1 DEF UserFree, Conflict, LoginMode, LogoutMode

LEMMA LoginLockStep == ASSUME Inv, NEW r \in Requests, LoginLock(r) PROVE Inv'
<1> DEFINE x == [req[r] EXCEPT !.locked = TRUE]
<1>1. /\ req[r].op = "login" /\ UserFree(r, LoginMode)
      /\ req' = [req EXCEPT ![r].locked = TRUE]
      /\ UNCHANGED <<now, registered, sessions, tokens, ended>>
  BY DEF LoginLock
<1>2. req[r] \in LoginReq
  BY <1>1 DEF Inv, Tables, Idle, RefreshReq, LogoutReq
<1>3. /\ x \in LoginReq /\ x.op = "login" /\ x.user = req[r].user
      /\ req' = [req EXCEPT ![r] = x]
  BY <1>1, <1>2 DEF LoginReq, Inv, Tables
<1> HIDE DEF x
<1>4. req'[r] = x
  BY <1>3, OthersKeep
<1>5. Sound(r)' /\ SessionLocks(r)' = {}
  BY <1>3, <1>4 DEF Sound, SessionLocks
<1>6. \A q \in Requests \ {r} : UserLock(q) # NULL => x.user # req[q].user
  BY <1>1, <1>3, UserGranted
<1> QED
  BY <1>1, <1>3, <1>5, <1>6, RequestStep

LEMMA LogoutLockStep == ASSUME Inv, NEW r \in Requests, LogoutLock(r) PROVE Inv'
<1> DEFINE todo == {s \in Sessions : /\ Exists(sessions[s]) /\ ~sessions[s].revoked
                                     /\ sessions[s].user = req[r].user
                                     /\ req[r].all \/ s = req[r].session}
           x == [req[r] EXCEPT !.locked = TRUE, !.todo = todo]
<1>1. /\ req[r].op = "logout" /\ ~req[r].locked /\ UserFree(r, LogoutMode)
      /\ req' = [req EXCEPT ![r].locked = TRUE, ![r].todo = todo]
      /\ UNCHANGED <<now, registered, sessions, tokens, ended>>
  BY DEF LogoutLock
<1>2. req[r] \in LogoutReq
  BY <1>1 DEF Inv, Tables, Idle, RefreshReq, LoginReq
<1>3. LogoutCovers(r)
  BY <1>1 DEF Inv, Sound
<1>4. todo \in SUBSET Sessions
  OBVIOUS
<1>5. \A s \in Sessions : s \in todo <=> /\ Exists(sessions[s]) /\ ~sessions[s].revoked
                                         /\ sessions[s].user = req[r].user
                                         /\ req[r].all \/ s = req[r].session
  OBVIOUS
<1> HIDE DEF todo
<1>6. /\ x \in LogoutReq /\ x.op = "logout" /\ x.user = req[r].user /\ x.locked
      /\ x.todo = todo /\ x.done = {} /\ x.session = req[r].session /\ x.all = req[r].all
  BY <1>1, <1>2, <1>3, <1>4 DEF LogoutReq, LogoutCovers
<1>7. req' = [req EXCEPT ![r] = x]
  BY <1>1, <1>2 DEF LogoutReq, Inv, Tables
<1> HIDE DEF x
<1>8. req'[r] = x
  BY <1>6, <1>7, OthersKeep
<1>9. LogoutCovers(r)'
  BY <1>1, <1>3, <1>4, <1>5, <1>6, <1>8 DEF LogoutCovers
<1>10. Sound(r)' /\ SessionLocks(r)' = {}
  BY <1>6, <1>8, <1>9 DEF Sound, SessionLocks
<1>11. \A q \in Requests \ {r} : UserLock(q) # NULL => x.user # req[q].user
  BY <1>1, <1>6, UserGranted
<1> QED
  BY <1>1, <1>6, <1>7, <1>10, <1>11, RequestStep

\* The refresh that gets the session finds the token as it is: nobody else can use it now.
LEMMA RefreshLockStep == ASSUME Inv, NEW r \in Requests, RefreshLock(r) PROVE Inv'
<1> DEFINE to == IF tokens[req[r].token].used THEN "reuse" ELSE "rotate"
           x == [req[r] EXCEPT !.op = to]
<1>1. /\ req[r].op = "refresh" /\ SessionFree(r, req[r].session)
      /\ ~sessions[req[r].session].revoked
      /\ req' = [req EXCEPT ![r].op = to]
      /\ UNCHANGED <<now, registered, sessions, tokens, ended>>
  BY DEF RefreshLock, Usable
<1>2. req[r] \in RefreshReq
  BY <1>1 DEF Inv, Tables, Idle, LoginReq, LogoutReq
<1>3. RefreshHolds(r)
  BY <1>1 DEF Inv, Sound
<1>4. /\ to \in {"rotate", "reuse"}
      /\ to = "rotate" => ~tokens[req[r].token].used
  OBVIOUS
<1> HIDE DEF to
<1>5. /\ x \in RefreshReq /\ x.op = to /\ x.token = req[r].token
      /\ x.session = req[r].session
  BY <1>2, <1>4 DEF RefreshReq
<1>6. req' = [req EXCEPT ![r] = x]
  BY <1>1, <1>2 DEF RefreshReq, Inv, Tables
<1> HIDE DEF x
<1>7. req'[r] = x
  BY <1>5, <1>6, OthersKeep
<1>8. Sound(r)'
  BY <1>1, <1>3, <1>4, <1>5, <1>7 DEF Sound, RefreshHolds
<1>9. SessionLocks(r)' = {req[r].session} /\ UserLock(r)' = NULL
  BY <1>4, <1>5, <1>7 DEF SessionLocks, UserLock
<1>10. \A q \in Requests \ {r} : SessionLocks(r)' \cap SessionLocks(q) = {}
  BY <1>1, <1>9 DEF SessionFree
<1> QED
  BY <1>1, <1>5, <1>6, <1>8, <1>9, <1>10, RequestStep

LEMMA LogoutRowStep == ASSUME Inv, NEW r \in Requests, LogoutRow(r) PROVE Inv'
<1>1. PICK s \in req[r].todo :
         /\ SessionFree(r, s)
         /\ req' = [req EXCEPT ![r].todo = @ \ {s}, ![r].done = @ \cup {s}]
  BY DEF LogoutRow
<1>2. /\ req[r].op = "logout" /\ req[r].locked
      /\ UNCHANGED <<now, registered, sessions, tokens, ended>>
  BY DEF LogoutRow
<1> DEFINE x == [req[r] EXCEPT !.todo = @ \ {s}, !.done = @ \cup {s}]
<1>3. req[r] \in LogoutReq
  BY <1>2 DEF Inv, Tables, Idle, RefreshReq, LoginReq
<1>4. LogoutCovers(r)
  BY <1>2 DEF Inv, Sound
<1>5. /\ x \in LogoutReq /\ x.op = "logout" /\ x.user = req[r].user /\ x.locked
      /\ x.todo = req[r].todo \ {s} /\ x.done = req[r].done \cup {s}
      /\ x.session = req[r].session /\ x.all = req[r].all
  BY <1>2, <1>3 DEF LogoutReq
<1>6. req' = [req EXCEPT ![r] = x]
  BY <1>1, <1>3 DEF LogoutReq, Inv, Tables
<1> HIDE DEF x
<1>7. req'[r] = x
  BY <1>5, <1>6, OthersKeep
<1>8. x.todo \cup x.done = req[r].todo \cup req[r].done
  BY <1>5
<1>9. LogoutCovers(r)'
  BY <1>2, <1>4, <1>5, <1>7, <1>8 DEF LogoutCovers
<1>10. Sound(r)' /\ SessionLocks(r)' = SessionLocks(r) \cup {s}
  BY <1>2, <1>5, <1>7, <1>9 DEF Sound, SessionLocks
<1>11. \A q \in Requests \ {r} : Excluded(r, q) /\ UserLock(r) # NULL
  BY <1>2, AuthAssumption DEF Inv, Exclusive, UserLock, LogoutMode
<1>12. \A q \in Requests \ {r} :
          /\ SessionLocks(r)' \cap SessionLocks(q) = {}
          /\ UserLock(q) # NULL => x.user # req[q].user
  BY <1>1, <1>5, <1>10, <1>11 DEF SessionFree, Excluded
<1> QED
  BY <1>2, <1>5, <1>6, <1>10, <1>12, RequestStep

-----------------------------------------------------------------------------
(***************************************************************************)
(* Commits: the request is over, the tables change under its locks.        *)
(***************************************************************************)

LEMMA FinishStep ==
  ASSUME Inv, NEW r \in Requests, Finish(r)
  PROVE  /\ req' \in [Requests -> {Idle} \cup LoginReq \cup RefreshReq \cup LogoutReq]
         /\ Sound(r)' /\ Exclusive'
         /\ \A q \in Requests \ {r} : req'[q] = req[q]
<1>1. /\ req' = [req EXCEPT ![r] = Idle]
      /\ req'[r] = Idle /\ Idle.op = "idle"
      /\ \A q \in Requests \ {r} : /\ req'[q] = req[q]
                                   /\ SessionLocks(q)' = SessionLocks(q)
                                   /\ UserLock(q)' = UserLock(q)
  BY OthersKeep DEF Finish, Idle
<1>2. SessionLocks(r)' = {} /\ UserLock(r)' = NULL /\ Sound(r)'
  BY <1>1 DEF SessionLocks, UserLock, Sound
<1>3. \A p, q \in Requests : p # q => Excluded(p, q)'
  BY <1>1, <1>2 DEF Inv, Exclusive, Excluded
<1>4. req' \in [Requests -> {Idle} \cup LoginReq \cup RefreshReq \cup LogoutReq]
  BY <1>1 DEF Inv, Tables
<1> QED
  BY <1>1, <1>2, <1>3, <1>4 DEF Exclusive

LEMMA RequestTypes ==
  ASSUME Inv, NEW r \in Requests
  PROVE  /\ req[r].op = "login" => req[r] \in LoginReq
         /\ req[r].op \in {"refresh", "rotate", "reuse"} => req[r] \in RefreshReq
         /\ req[r].op = "logout" => req[r] \in LogoutReq
  BY DEF Inv, Tables, Idle, LoginReq, RefreshReq, LogoutReq

LEMMA IssuedType ==
  ASSUME now \in Nat, NEW s \in Sessions, NEW e \in Nat, NEW from \in Tokens \cup {NULL}
  PROVE  /\ Issued(s, e, from) \in TokenRow
         /\ Issued(s, e, from).session = s /\ Issued(s, e, from).from = from
<1>1. AccessTime \in Nat
  BY AuthAssumption
<1>2. now + AccessTime \in Nat
  BY <1>1
<1>3. Least(e, now + AccessTime) \in Nat
  BY <1>2 DEF Least
<1> QED
  BY <1>3 DEF Issued, TokenRow

LEMMA LoginCommitStep == ASSUME Inv, NEW r \in Requests, LoginCommit(r) PROVE Inv'
<1> DEFINE e == now + SessionTime
           row == [user |-> req[r].user, expires |-> e, revoked |-> FALSE]
<1>1. PICK s \in Sessions, t \in Tokens :
         /\ ~Exists(sessions[s]) /\ ~Exists(tokens[t])
         /\ sessions' = [sessions EXCEPT ![s] = row]
         /\ tokens' = [tokens EXCEPT ![t] = Issued(s, e, NULL)]
  BY DEF LoginCommit
<1> DEFINE new == Issued(s, e, NULL)
<1>2. /\ req[r].op = "login" /\ req[r].locked /\ Finish(r)
      /\ UNCHANGED <<now, registered, ended>>
  BY DEF LoginCommit
<1>3. e \in Nat /\ now \in Nat /\ req[r].user \in Users
  <2>1. SessionTime \in Nat /\ now \in Nat
    BY AuthAssumption DEF Inv, Tables
  <2>2. req[r].user \in Users
    BY <1>2, RequestTypes DEF LoginReq
  <2> QED
    BY <2>1, <2>2
<1>4. row \in SessionRow /\ row.user = req[r].user
  BY <1>3 DEF SessionRow
<1>5. new \in TokenRow /\ new.session = s /\ new.from = NULL
  BY <1>3, IssuedType
<1> HIDE DEF row, new
<1>6. /\ sessions'[s] = row /\ Exists(row)
      /\ \A q \in Sessions \ {s} : sessions'[q] = sessions[q]
      /\ sessions' \in [Sessions -> SessionRow \cup {NoRow}]
  BY <1>1, <1>4, RowsExist DEF Inv, Tables, row
<1>7. /\ tokens'[t] = new /\ Exists(new)
      /\ \A v \in Tokens \ {t} : tokens'[v] = tokens[v]
      /\ tokens' \in [Tokens -> TokenRow \cup {NoRow}]
  BY <1>1, <1>5, RowsExist DEF Inv, Tables, new
<1>8. Tables'
  BY <1>2, <1>6, <1>7, FinishStep DEF Inv, Tables
<1>9. \A v \in Tokens : Exists(tokens[v]) => /\ v # t /\ tokens'[v] = tokens[v]
                                             /\ tokens[v] \in TokenRow
                                             /\ tokens[v].session # s
  BY <1>1, <1>7, RowsExist DEF Inv, Tables, Lineage
<1>10. ASSUME NEW q \in Requests \ {r} PROVE Sound(q)'
  <2>1. req'[q] = req[q] /\ Sound(q) /\ Excluded(r, q) /\ UserLock(r) # NULL
    BY <1>2, FinishStep, AuthAssumption DEF Inv, Exclusive, UserLock, LoginMode
  <2>2. CASE req[q].op \in {"refresh", "rotate", "reuse"}
    <3>1. RefreshHolds(q) /\ req[q] \in RefreshReq
      BY <2>1, <2>2, RequestTypes DEF Sound
    <3>2. /\ tokens'[req[q].token] = tokens[req[q].token]
          /\ sessions'[req[q].session] = sessions[req[q].session]
      BY <1>6, <1>9, <3>1 DEF RefreshHolds, RefreshReq
    <3>3. RefreshHolds(q)'
      BY <2>1, <3>1, <3>2 DEF RefreshHolds
    <3> QED
      BY <2>1, <2>2, <3>3 DEF Sound
  <2>3. CASE req[q].op = "logout"
    <3>1. LogoutCovers(q) /\ req[q] \in LogoutReq
      BY <2>1, <2>3, RequestTypes DEF Sound
    <3>2. req[q].locked => req[q].user # req[r].user
      BY <2>1, <2>3, AuthAssumption DEF Excluded, UserLock, LogoutMode
    <3>3. \A p \in {req[q].session} \cup req[q].todo \cup req[q].done :
             p \in Sessions /\ Exists(sessions[p]) /\ sessions'[p] = sessions[p]
      BY <1>1, <1>6, <3>1 DEF LogoutCovers, LogoutReq
    <3>4. LogoutCovers(q)'
      BY <1>4, <1>6, <2>1, <3>1, <3>2, <3>3 DEF LogoutCovers
    <3> QED
      BY <2>1, <2>3, <3>4 DEF Sound
  <2> QED
    BY <2>1, <2>2, <2>3 DEF Sound
<1>11. Lineage'
  <2> SUFFICES ASSUME NEW v \in Tokens, Exists(tokens'[v])
               PROVE  /\ Exists(sessions'[tokens'[v].session])
                      /\ tokens'[v].from # NULL =>
                            /\ Exists(tokens'[tokens'[v].from])
                            /\ tokens'[tokens'[v].from].used
    BY DEF Lineage
  <2>1. CASE v = t
    BY <1>5, <1>6, <1>7, <2>1
  <2>2. CASE v # t
    <3>1. Exists(tokens[v]) /\ tokens'[v] = tokens[v] /\ tokens[v] \in TokenRow
      BY <1>7, <1>9, <2>2
    <3>2. Exists(sessions'[tokens[v].session])
      BY <1>6, <1>9, <3>1 DEF Inv, Lineage, TokenRow
    <3>3. tokens[v].from # NULL =>
             /\ tokens[v].from \in Tokens
             /\ Exists(tokens[tokens[v].from]) /\ tokens[tokens[v].from].used
      BY <3>1 DEF Inv, Lineage, TokenRow
    <3> QED
      BY <1>9, <3>1, <3>2, <3>3
  <2> QED
    BY <2>1, <2>2
<1>12. RotatedOnce'
  BY <1>5, <1>7, <1>9 DEF Inv, RotatedOnce
<1>13. EndedStaysDead'
  BY <1>1, <1>2, <1>6 DEF Inv, EndedStaysDead, Tables
<1> QED
  BY <1>2, <1>8, <1>10, <1>11, <1>12, <1>13, FinishStep DEF Inv

LEMMA RotateStep == ASSUME Inv, NEW r \in Requests, Rotate(r) PROVE Inv'
<1> DEFINE s == req[r].session
           old == req[r].token
<1>1. PICK t \in Tokens :
         /\ ~Exists(tokens[t])
         /\ tokens' = [tokens EXCEPT ![t] = Issued(s, sessions[s].expires, old),
                                     ![old].used = TRUE]
  BY DEF Rotate
<1> DEFINE new == Issued(s, sessions[s].expires, old)
<1>2. /\ req[r].op = "rotate" /\ Finish(r)
      /\ UNCHANGED <<now, registered, sessions, ended>>
  BY DEF Rotate
<1>3. /\ req[r] \in RefreshReq /\ RefreshHolds(r) /\ s \in Sessions /\ old \in Tokens
  BY <1>2, RequestTypes DEF Inv, Sound, RefreshReq
<1>4. /\ Exists(tokens[old]) /\ tokens[old].session = s /\ ~tokens[old].used
      /\ tokens[old] \in TokenRow /\ Exists(sessions[s]) /\ sessions[s] \in SessionRow
  BY <1>2, <1>3, RowsExist DEF RefreshHolds, Inv, Tables, Lineage
<1>5. new \in TokenRow /\ new.session = s /\ new.from = old
  <2>1. sessions[s].expires \in Nat /\ now \in Nat
    BY <1>4 DEF SessionRow, Inv, Tables
  <2> QED
    BY <1>3, <2>1, IssuedType
<1> DEFINE usedUp == [tokens[old] EXCEPT !.used = TRUE]
<1>6. /\ usedUp \in TokenRow /\ usedUp.used /\ usedUp.session = s
      /\ usedUp.from = tokens[old].from
  BY <1>4 DEF TokenRow
<1>7. /\ t # old /\ tokens'[t] = new /\ tokens'[old] = usedUp
      /\ \A v \in Tokens \ {t, old} : tokens'[v] = tokens[v]
      /\ tokens' \in [Tokens -> TokenRow \cup {NoRow}]
  BY <1>1, <1>3, <1>4, <1>5, <1>6 DEF Inv, Tables
<1> HIDE DEF new, usedUp
<1>8. Exists(new) /\ Exists(usedUp)
  BY <1>5, <1>6, RowsExist
<1>9. \A v \in Tokens : Exists(tokens[v]) =>
         /\ v # t /\ Exists(tokens'[v])
         /\ tokens'[v].session = tokens[v].session /\ tokens'[v].from = tokens[v].from
         /\ tokens[v].used => tokens'[v].used
  BY <1>1, <1>4, <1>6, <1>7, <1>8
<1>10. Tables'
  BY <1>2, <1>7, FinishStep DEF Inv, Tables
<1>11. ASSUME NEW q \in Requests \ {r} PROVE Sound(q)'
  <2>1. req'[q] = req[q] /\ Sound(q) /\ Excluded(r, q)
    BY <1>2, FinishStep DEF Inv, Exclusive
  <2>2. CASE req[q].op \in {"refresh", "rotate", "reuse"}
    <3>1. RefreshHolds(q) /\ req[q] \in RefreshReq
      BY <2>1, <2>2, RequestTypes DEF Sound
    <3>2. req[q].token \in Tokens
      BY <3>1 DEF RefreshReq
    <3>3. req[q].op = "rotate" => req[q].token # old
      BY <1>2, <1>4, <2>1, <3>1 DEF Excluded, SessionLocks, RefreshHolds
    <3>4. RefreshHolds(q)'
      BY <1>2, <1>7, <1>9, <2>1, <3>1, <3>2, <3>3 DEF RefreshHolds
    <3> QED
      BY <2>1, <2>2, <3>4 DEF Sound
  <2>3. CASE req[q].op = "logout"
    BY <1>2, <2>1, <2>3 DEF Sound, LogoutCovers
  <2> QED
    BY <2>1, <2>2, <2>3 DEF Sound
<1>12. Lineage'
  <2> SUFFICES ASSUME NEW v \in Tokens, Exists(tokens'[v])
               PROVE  /\ Exists(sessions[tokens'[v].session])
                      /\ tokens'[v].from # NULL =>
                            /\ Exists(tokens'[tokens'[v].from])
                            /\ tokens'[tokens'[v].from].used
    BY <1>2 DEF Lineage
  <2>1. CASE v = t
    BY <1>3, <1>4, <1>5, <1>6, <1>7, <1>8, <2>1
  <2>2. CASE v # t
    <3>1. Exists(tokens[v]) /\ tokens[v] \in TokenRow
      BY <1>4, <1>7, <2>2, RowsExist DEF Inv, Tables
    <3> QED
      BY <1>9, <3>1 DEF Inv, Lineage, TokenRow
  <2> QED
    BY <2>1, <2>2
<1>13. RotatedOnce'
  <2>1. ASSUME NEW v \in Tokens, Exists(tokens[v]), tokens[v].from # NULL
        PROVE  tokens[v].from # old
    BY <1>4, <2>1 DEF Inv, Lineage
  <2>2. \A v \in Tokens : Exists(tokens'[v]) /\ v # t => Exists(tokens[v])
    BY <1>4, <1>7
  <2> QED
    BY <1>5, <1>7, <1>9, <2>1, <2>2 DEF Inv, RotatedOnce
<1>14. EndedStaysDead'
  BY <1>2 DEF Inv, EndedStaysDead
<1> QED
  BY <1>2, <1>10, <1>11, <1>12, <1>13, <1>14, FinishStep DEF Inv

LEMMA ReuseStep == ASSUME Inv, NEW r \in Requests, Reuse(r) PROVE Inv'
<1> DEFINE s == req[r].session
           dead == [sessions[s] EXCEPT !.revoked = TRUE]
<1>1. /\ req[r].op = "reuse" /\ Finish(r)
      /\ sessions' = [sessions EXCEPT ![s].revoked = TRUE]
      /\ ended' = ended \cup {s}
      /\ UNCHANGED <<now, registered, tokens>>
  BY DEF Reuse, Revoked
<1>2. req[r] \in RefreshReq /\ RefreshHolds(r) /\ s \in Sessions
  BY <1>1, RequestTypes DEF Inv, Sound, RefreshReq
<1>3. Exists(sessions[s]) /\ sessions[s] \in SessionRow
  BY <1>2, RowsExist DEF RefreshHolds, RefreshReq, Inv, Tables, Lineage
<1>4. dead \in SessionRow /\ dead.revoked /\ dead.user = sessions[s].user
  BY <1>3 DEF SessionRow
<1>5. /\ sessions'[s] = dead
      /\ \A p \in Sessions \ {s} : sessions'[p] = sessions[p]
      /\ sessions' \in [Sessions -> SessionRow \cup {NoRow}]
  BY <1>1, <1>2, <1>4 DEF Inv, Tables
<1> HIDE DEF dead
<1>6. \A p \in Sessions : /\ Exists(sessions'[p]) <=> Exists(sessions[p])
                          /\ sessions'[p].user = sessions[p].user
                          /\ sessions[p].revoked => sessions'[p].revoked
  BY <1>3, <1>4, <1>5, RowsExist
<1>7. ASSUME NEW q \in Requests \ {r} PROVE Sound(q)'
  <2>1. req'[q] = req[q] /\ Sound(q) /\ Excluded(r, q)
    BY <1>1, FinishStep DEF Inv, Exclusive
  <2>2. CASE req[q].op \in {"refresh", "rotate", "reuse"}
    <3>1. RefreshHolds(q) /\ req[q] \in RefreshReq
      BY <2>1, <2>2, RequestTypes DEF Sound
    <3>2. req[q].op = "rotate" => sessions'[req[q].session] = sessions[req[q].session]
      BY <1>1, <1>5, <2>1, <3>1 DEF Excluded, SessionLocks, RefreshReq
    <3>3. RefreshHolds(q)'
      BY <1>1, <2>1, <3>1, <3>2 DEF RefreshHolds
    <3> QED
      BY <2>1, <2>2, <3>3 DEF Sound
  <2>3. CASE req[q].op = "logout"
    <3>1. LogoutCovers(q) /\ req[q] \in LogoutReq
      BY <2>1, <2>3, RequestTypes DEF Sound
    <3>2. LogoutCovers(q)'
      BY <1>6, <2>1, <3>1 DEF LogoutCovers, LogoutReq
    <3> QED
      BY <2>1, <2>3, <3>2 DEF Sound
  <2> QED
    BY <2>1, <2>2, <2>3 DEF Sound
<1>8. Tables'
  BY <1>1, <1>2, <1>5, FinishStep DEF Inv, Tables
<1>9. Lineage'
  BY <1>1, <1>6, RowsExist DEF Inv, Lineage, Tables, TokenRow
<1>10. RotatedOnce'
  BY <1>1 DEF Inv, RotatedOnce
<1>11. EndedStaysDead'
  BY <1>1, <1>2, <1>3, <1>4, <1>5, <1>6 DEF Inv, EndedStaysDead, Tables
<1> QED
  BY <1>1, <1>7, <1>8, <1>9, <1>10, <1>11, FinishStep DEF Inv

LEMMA LogoutCommitStep == ASSUME Inv, NEW r \in Requests, LogoutCommit(r) PROVE Inv'
<1> DEFINE done == req[r].done
<1>1. /\ req[r].op = "logout" /\ req[r].locked /\ req[r].todo = {} /\ Finish(r)
      /\ sessions' = [s \in Sessions |-> IF s \in done
                                         THEN [sessions[s] EXCEPT !.revoked = TRUE]
                                         ELSE sessions[s]]
      /\ UNCHANGED <<now, registered, tokens>>
  BY DEF LogoutCommit
<1>2. req[r] \in LogoutReq /\ LogoutCovers(r) /\ done \subseteq Sessions
  BY <1>1, RequestTypes DEF Inv, Sound, LogoutReq
<1>3. \A s \in done : Exists(sessions[s]) /\ sessions[s] \in SessionRow
  BY <1>2, RowsExist DEF LogoutCovers, Inv, Tables
<1>4. ASSUME NEW s \in done
      PROVE  /\ sessions'[s] \in SessionRow /\ sessions'[s].revoked
             /\ sessions'[s].user = sessions[s].user
  <2>1. sessions'[s] = [sessions[s] EXCEPT !.revoked = TRUE]
    BY <1>1, <1>2
  <2> QED
    BY <1>3, <2>1 DEF SessionRow
<1>5. \A s \in Sessions \ done : sessions'[s] = sessions[s]
  BY <1>1
<1> HIDE DEF done
<1>6. sessions' \in [Sessions -> SessionRow \cup {NoRow}]
  <2>1. \A s \in Sessions : sessions'[s] \in SessionRow \cup {NoRow}
    BY <1>4, <1>5 DEF Inv, Tables
  <2> QED
    BY <1>1, <2>1
<1>7. \A p \in Sessions : /\ Exists(sessions'[p]) <=> Exists(sessions[p])
                          /\ sessions'[p].user = sessions[p].user
                          /\ sessions[p].revoked => sessions'[p].revoked
  BY <1>3, <1>4, <1>5, RowsExist
<1>8. ASSUME NEW q \in Requests \ {r} PROVE Sound(q)'
  <2>1. req'[q] = req[q] /\ Sound(q) /\ Excluded(r, q)
    BY <1>1, FinishStep DEF Inv, Exclusive
  <2>2. CASE req[q].op \in {"refresh", "rotate", "reuse"}
    <3>1. RefreshHolds(q) /\ req[q] \in RefreshReq
      BY <2>1, <2>2, RequestTypes DEF Sound
    <3>2. req[q].op = "rotate" => sessions'[req[q].session] = sessions[req[q].session]
      BY <1>1, <1>5, <2>1, <3>1 DEF Excluded, SessionLocks, RefreshReq, done
    <3>3. RefreshHolds(q)'
      BY <1>1, <2>1, <3>1, <3>2 DEF RefreshHolds
    <3> QED
      BY <2>1, <2>2, <3>3 DEF Sound
  <2>3. CASE req[q].op = "logout"
    <3>1. LogoutCovers(q) /\ req[q] \in LogoutReq
      BY <2>1, <2>3, RequestTypes DEF Sound
    <3>2. LogoutCovers(q)'
      BY <1>7, <2>1, <3>1 DEF LogoutCovers, LogoutReq
    <3> QED
      BY <2>1, <2>3, <3>2 DEF Sound
  <2> QED
    BY <2>1, <2>2, <2>3 DEF Sound
<1>9. Tables' /\ EndedStaysDead'
  <2> DEFINE new == IF req[r].all
                    THEN {s \in Sessions : /\ Exists(sessions[s])
                                           /\ sessions[s].user = req[r].user}
                    ELSE {req[r].session}
  <2>1. ended' = ended \cup new
    BY DEF LogoutCommit
  <2>2. new \subseteq Sessions
    BY <1>2 DEF LogoutReq
  <2>3. \A s \in new : Exists(sessions[s]) /\ (sessions[s].revoked \/ s \in done)
    BY <1>1, <1>2, <2>2 DEF LogoutCovers, LogoutReq, done
  <2> HIDE DEF new
  <2>4. Tables'
    BY <1>1, <1>6, <2>1, <2>2, FinishStep DEF Inv, Tables
  <2>5. EndedStaysDead'
    BY <1>4, <1>7, <2>1, <2>2, <2>3 DEF Inv, EndedStaysDead, Tables
  <2> QED
    BY <2>4, <2>5
<1>10. Lineage'
  BY <1>1, <1>7, RowsExist DEF Inv, Lineage, Tables, TokenRow
<1>11. RotatedOnce'
  BY <1>1 DEF Inv, RotatedOnce
<1> QED
  BY <1>1, <1>8, <1>9, <1>10, <1>11, FinishStep DEF Inv

LEMMA FrameStep ==
  ASSUME Inv, UNCHANGED <<sessions, tokens, req, ended>>, now' \in Nat,
         registered' \subseteq Users
  PROVE  Inv'
<1>1. Tables' /\ Lineage' /\ RotatedOnce' /\ EndedStaysDead'
  BY DEF Inv, Tables, Lineage, RotatedOnce, EndedStaysDead
<1>2. \A r \in Requests : /\ Sound(r)' /\ SessionLocks(r)' = SessionLocks(r)
                          /\ UserLock(r)' = UserLock(r)
  BY DEF Inv, Sound, RefreshHolds, LogoutCovers, SessionLocks, UserLock
<1>3. Exclusive'
  BY <1>2 DEF Inv, Exclusive, Excluded
<1> QED
  BY <1>1, <1>2, <1>3 DEF Inv

LEMMA InvStep == Inv /\ [Next]_vars => Inv'
<1> SUFFICES ASSUME Inv, [Next]_vars PROVE Inv'
  OBVIOUS
<1>1. ASSUME NEW r \in Requests,
             \/ \E u \in Users : Login(r, u)
             \/ \E t \in Tokens : Refresh(r, t)
             \/ \E t \in Tokens, all \in BOOLEAN : Logout(r, t, all)
             \/ Rollback(r)
      PROVE  Inv'
  BY <1>1, LoginStep, RefreshStep, LogoutStep, RollbackStep
<1>2. ASSUME NEW r \in Requests,
             LoginLock(r) \/ RefreshLock(r) \/ LogoutLock(r) \/ LogoutRow(r)
      PROVE  Inv'
  BY <1>2, LoginLockStep, RefreshLockStep, LogoutLockStep, LogoutRowStep
<1>3. ASSUME NEW r \in Requests, LoginCommit(r) \/ Rotate(r) \/ Reuse(r) \/ LogoutCommit(r)
      PROVE  Inv'
  BY <1>3, LoginCommitStep, RotateStep, ReuseStep, LogoutCommitStep
<1>4. ASSUME NEW u \in Users, Register(u) PROVE Inv'
  BY <1>4, FrameStep DEF Register, Inv, Tables
<1>5. CASE Tick
  <2>1. now' \in Nat
    BY <1>5 DEF Tick, Inv, Tables
  <2> QED
    BY <1>5, <2>1, FrameStep DEF Tick, Inv, Tables
<1>6. CASE UNCHANGED vars
  BY <1>6, FrameStep DEF vars, Inv, Tables
<1> QED
  BY <1>1, <1>2, <1>3, <1>4, <1>5, <1>6 DEF Next

\* Whatever requests overlap, each knows the truth about the rows it has locked, no two have
\* the same row, and a token in use has a session and no successor.
THEOREM Invariant == Spec => []Inv
  BY InvInit, InvStep, PTL DEF Spec

\* Refresh locks the session before it looks at used_at: however many requests present a
\* refresh token at the same time, one of them exchanges it.
THEOREM RotatedOnceHolds == Spec => []RotatedOnce
<1>1. Inv => RotatedOnce
  BY DEF Inv
<1> QED
  BY <1>1, Invariant, PTL

\* Once a logout, a logout-all or a reuse has ended a session it stays dead, whatever
\* overlapped it: a login of the same user waits, a refresh of the session finds it revoked.
THEOREM EndedIsDeadHolds == Spec => []EndedIsDead
<1>1. Inv => EndedIsDead
  BY DEF Inv, EndedStaysDead, EndedIsDead
<1> QED
  BY <1>1, Invariant, PTL

-----------------------------------------------------------------------------
(***************************************************************************)
(* Revocation is final.                                                    *)
(***************************************************************************)

Final ==
    \A s \in Sessions : Exists(sessions[s]) /\ sessions[s].revoked =>
        /\ sessions'[s].revoked
        /\ \A t \in Tokens : Exists(tokens'[t]) /\ tokens'[t].session = s =>
              Exists(tokens[t])

LEMMA FinalStep == Inv /\ [Next]_vars => Final
<1> SUFFICES ASSUME Inv, [Next]_vars,
                    NEW s \in Sessions, Exists(sessions[s]), sessions[s].revoked
             PROVE  /\ sessions'[s].revoked
                    /\ \A t \in Tokens : Exists(tokens'[t]) /\ tokens'[t].session = s =>
                          Exists(tokens[t])
  BY DEF Final
<1>1. sessions[s] \in SessionRow
  BY RowsExist DEF Inv, Tables
<1>2. ASSUME NEW r \in Requests, LoginCommit(r)
      PROVE  /\ sessions'[s].revoked
             /\ \A t \in Tokens : Exists(tokens'[t]) /\ tokens'[t].session = s =>
                   Exists(tokens[t])
  <2> DEFINE e == now + SessionTime
             row == [user |-> req[r].user, expires |-> e, revoked |-> FALSE]
  <2>1. PICK p \in Sessions, v \in Tokens :
           /\ ~Exists(sessions[p])
           /\ sessions' = [sessions EXCEPT ![p] = row]
           /\ tokens' = [tokens EXCEPT ![v] = Issued(p, e, NULL)]
    BY <1>2 DEF LoginCommit
  <2> HIDE DEF row
  <2>2. p # s /\ sessions'[s] = sessions[s]
    BY <2>1 DEF Inv, Tables
  <2>3. tokens'[v].session = p /\ \A t \in Tokens \ {v} : tokens'[t] = tokens[t]
    BY <2>1 DEF Inv, Tables, Issued
  <2> QED
    BY <2>2, <2>3
<1>3. ASSUME NEW r \in Requests, Rotate(r)
      PROVE  /\ sessions'[s].revoked
             /\ \A t \in Tokens : Exists(tokens'[t]) /\ tokens'[t].session = s =>
                   Exists(tokens[t])
  <2>1. /\ req[r].op = "rotate" /\ sessions' = sessions
        /\ req[r] \in RefreshReq /\ RefreshHolds(r)
    BY <1>3, RequestTypes DEF Rotate, Inv, Sound
  <2>2. req[r].session # s /\ Exists(tokens[req[r].token]) /\ req[r].token \in Tokens
    BY <2>1 DEF RefreshHolds, RefreshReq
  <2>3. PICK v \in Tokens :
           tokens' = [tokens EXCEPT ![v] = Issued(req[r].session,
                                                  sessions[req[r].session].expires,
                                                  req[r].token),
                                    ![req[r].token].used = TRUE]
    BY <1>3 DEF Rotate
  <2>4. \A t \in Tokens \ {v, req[r].token} : tokens'[t] = tokens[t]
    BY <2>2, <2>3 DEF Inv, Tables
  <2>5. v # req[r].token => tokens'[v].session = req[r].session
    BY <2>2, <2>3 DEF Inv, Tables, Issued
  <2> QED
    BY <2>1, <2>2, <2>4, <2>5
<1>4. ASSUME NEW r \in Requests, Reuse(r) \/ LogoutCommit(r)
      PROVE  sessions'[s].revoked /\ tokens' = tokens
  <2>1. \/ sessions'[s] = sessions[s]
        \/ sessions'[s] = [sessions[s] EXCEPT !.revoked = TRUE]
    BY <1>4 DEF Reuse, LogoutCommit, Revoked, Inv, Tables
  <2> QED
    BY <1>1, <1>4, <2>1 DEF Reuse, LogoutCommit, SessionRow
<1>5. ASSUME NEW r \in Requests,
             \/ \E u \in Users : Login(r, u)
             \/ \E t \in Tokens : Refresh(r, t)
             \/ \E t \in Tokens, all \in BOOLEAN : Logout(r, t, all)
             \/ LoginLock(r) \/ RefreshLock(r) \/ LogoutLock(r) \/ LogoutRow(r)
             \/ Rollback(r)
      PROVE  UNCHANGED <<sessions, tokens>>
  BY <1>5 DEF Login, Refresh, Logout, LoginLock, RefreshLock, LogoutLock, LogoutRow, Rollback
<1>6. CASE Tick \/ (\E u \in Users : Register(u)) \/ UNCHANGED vars
  BY <1>6 DEF Tick, Register, vars
<1> QED
  BY <1>2, <1>3, <1>4, <1>5, <1>6 DEF Next

\* Whatever overlaps a logout or a reuse, no step brings a revoked session back or gives it
\* new tokens: Rotate holds the session it found unrevoked, Login takes a new one.
THEOREM RevokedStaysRevoked == Spec => RevokedIsFinal
  BY Invariant, FinalStep, PTL DEF Spec, RevokedIsFinal, Final

-----------------------------------------------------------------------------
(***************************************************************************)
(* No deadlock.  The waits-for relation has no cycle because it has no     *)
(* path of more than three steps: a rotation and a login that has its user  *)
(* wait for nobody; a reuse waits for such a login only; a logout that has *)
(* its user waits for those, and never for another logout, which could not *)
(* have the same user; everyone else waits for someone who holds a lock.   *)
(***************************************************************************)

LEMMA LockHolders ==
  ASSUME Inv, NEW q \in Requests
  PROVE  /\ UserLock(q) # NULL => req[q].op \in {"login", "logout"} /\ req[q].locked
         /\ SessionLocks(q) # {} =>
               req[q].op \in {"rotate", "reuse"} \/ (req[q].op = "logout" /\ req[q].locked)
         /\ req[q].op = "login" /\ req[q].locked => UserLock(q) = "UPDATE"
         /\ req[q].op = "logout" /\ req[q].locked => UserLock(q) = "NO KEY UPDATE"
         /\ "UPDATE" # NULL /\ "NO KEY UPDATE" # NULL
<1>1. req[q].op = "logout" /\ ~req[q].locked => req[q].done = {}
  BY DEF Inv, Sound, LogoutCovers
<1>2. req[q].op \in {"login", "logout"} => req[q].locked \in BOOLEAN
  BY RequestTypes DEF LoginReq, LogoutReq
<1> QED
  BY <1>1, <1>2, AuthAssumption DEF UserLock, SessionLocks, LoginMode, LogoutMode

\* A logout in the middle of its UPDATE meets no other one.
LEMMA LogoutsApart ==
  ASSUME Inv, NEW r \in Requests, NEW q \in Requests \ {r},
         req[r].op = "logout", req[r].locked, req[q].op = "logout", req[q].locked
  PROVE  req[r].todo \cap SessionLocks(q) = {}
<1>1. req[r].user # req[q].user
  BY LockHolders DEF Inv, Exclusive, Excluded
<1>2. LogoutCovers(r) /\ LogoutCovers(q) /\ SessionLocks(q) = req[q].done
  BY DEF Inv, Sound, SessionLocks
<1> QED
  BY <1>1, <1>2 DEF LogoutCovers

LEMMA NobodyWaitsInACircle == Inv => NoDeadlock
<1> SUFFICES ASSUME Inv, NEW group \in SUBSET Requests, group # {},
                    \A r \in group : \E q \in group \ {r} : WaitsFor(r, q)
             PROVE  FALSE
  BY DEF NoDeadlock
<1>1. \A r \in group : req[r].op # "rotate" /\ ~(req[r].op = "login" /\ req[r].locked)
  BY DEF WaitsFor
<1>2. \A r \in group : req[r].op # "reuse"
  <2> SUFFICES ASSUME NEW r \in group, req[r].op = "reuse" PROVE FALSE
    OBVIOUS
  <2>1. PICK q \in group \ {r} : UserLock(q) # NULL /\ Conflict("KEY SHARE", UserLock(q))
    BY DEF WaitsFor
  <2>2. UserLock(q) = "UPDATE"
    BY <2>1, LockHolders DEF Conflict
  <2> QED
    BY <1>1, <2>1, <2>2, LockHolders
<1>3. \A r \in group : ~(req[r].op = "logout" /\ req[r].locked)
  <2> SUFFICES ASSUME NEW r \in group, req[r].op = "logout", req[r].locked PROVE FALSE
    OBVIOUS
  <2>1. PICK q \in group \ {r} : req[r].todo \cap SessionLocks(q) # {}
    BY DEF WaitsFor
  <2>2. req[q].op = "logout" /\ req[q].locked
    BY <1>1, <1>2, <2>1, LockHolders
  <2> QED
    BY <2>1, <2>2, LogoutsApart
<1>4. \A q \in group : UserLock(q) = NULL /\ SessionLocks(q) = {}
  BY <1>1, <1>2, <1>3, LockHolders
<1>5. ASSUME NEW r \in group, NEW q \in group, WaitsFor(r, q) PROVE FALSE
  BY <1>4, <1>5 DEF WaitsFor
<1> QED
  BY <1>5

\* No group of requests wait for one another, however many there are of one user: Logout
\* locks its user before sessions, and a reuse has its session before the user.
THEOREM NoDeadlockHolds == Spec => []NoDeadlock
  BY Invariant, NobodyWaitsInACircle, PTL

=============================================================================
