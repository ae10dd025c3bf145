---------------------------- MODULE AuthSessions ----------------------------
(***************************************************************************)
(* Sessions and their tokens (internal/auth): Register, Login, Refresh,    *)
(* Logout and Authenticate, statement by statement with the row locks each *)
(* statement takes, as requests that run side by side.                     *)
(*                                                                         *)
(* A member of Tokens is what issue returns: an access and a refresh token *)
(* that are inserted into auth_credentials together.  Nothing in the       *)
(* program changes users.status: every user is ACTIVE.                     *)
(***************************************************************************)
EXTENDS Integers, FiniteSets

CONSTANTS
    Users,          \* e-mail addresses
    Sessions,       \* ids of auth_sessions
    Tokens,         \* pairs of tokens
    Requests,       \* requests that may run at a time
    NULL,           \* SQL's NULL
    SessionTime,    \* the life of a session: 30 days
    AccessTime,     \* the life of an access token: 10 minutes
    HashSlots,      \* capacity of Store.hashing: 4
    MaxTime         \* bound on the clock

ASSUME AuthAssumption ==
    /\ NULL \notin Tokens \cup {"UPDATE", "NO KEY UPDATE"}
    /\ SessionTime \in Nat \ {0} /\ AccessTime \in Nat \ {0}
    /\ HashSlots \in Nat \ {0}
    /\ MaxTime \in Nat

VARIABLES
    now,            \* clock_timestamp()
    registered,     \* the users with an account
    sessions,       \* sessions[s]: user, expires_at and whether revoked_at is set
    tokens,         \* tokens[t]: session, expiry of each kind, whether the refresh token
                    \* is used, and the tokens it replaced (history)
    req,            \* req[r]: the request running in slot r
    ended           \* the sessions that a logout-all or a reuse has ended (history)

vars == <<now, registered, sessions, tokens, req, ended>>

NoRow == [exists |-> FALSE]
Idle  == [op |-> "idle"]

Init ==
    /\ now = 0
    /\ registered = {}
    /\ sessions = [s \in Sessions |-> NoRow]
    /\ tokens = [t \in Tokens |-> NoRow]
    /\ req = [r \in Requests |-> Idle]
    /\ ended = {}

Exists(row) == row # NoRow

-----------------------------------------------------------------------------
(***************************************************************************)
(* Row locks of PostgreSQL.  Refresh locks its session (and the credential *)
(* under it) FOR UPDATE; Logout updates sessions; the users row is locked  *)
(* FOR UPDATE by Login, FOR NO KEY UPDATE by Logout, and FOR KEY SHARE by  *)
(* the foreign key of security_audit_records.                              *)
(***************************************************************************)

LoginModeShared == "KEY SHARE"      \* mutant: the SELECT ... FOR UPDATE is left out
LoginMode == "UPDATE"
LogoutModeStrong == "UPDATE"        \* mutant: FOR UPDATE instead of FOR NO KEY UPDATE
LogoutMode == "NO KEY UPDATE"

Conflict(m, n) ==
    \/ "UPDATE" \in {m, n}
    \/ m = "NO KEY UPDATE" /\ n = "NO KEY UPDATE"

\* The mode in which r has its user's row locked, or NULL.
UserLock(r) ==
    CASE req[r].op = "login" /\ req[r].locked -> LoginMode
      [] req[r].op = "logout" /\ req[r].locked -> LogoutMode
      [] OTHER -> NULL

UserFree(r, mode) ==
    \A q \in Requests \ {r} :
        UserLock(q) # NULL /\ req[q].user = req[r].user => ~Conflict(mode, UserLock(q))

\* The sessions r has locked.
SessionLocks(r) ==
    CASE req[r].op \in {"rotate", "reuse"} -> {req[r].session}
      [] req[r].op = "logout" -> req[r].done
      [] OTHER -> {}

\* Mutant: Refresh reads without locking.
SessionFreeAlways(r, s) == TRUE
SessionFree(r, s) == \A q \in Requests \ {r} : s \notin SessionLocks(q)

Finish(r) == req' = [req EXCEPT ![r] = Idle]

\* An error, a timeout, a lost connection: nothing is written.
Rollback(r) ==
    /\ req[r].op # "idle"
    /\ Finish(r)
    /\ UNCHANGED <<now, registered, sessions, tokens, ended>>

-----------------------------------------------------------------------------
(***************************************************************************)
(* Register, Login and issue.                                              *)
(***************************************************************************)

\* ON CONFLICT DO NOTHING: an account that exists is left alone.
Register(u) ==
    /\ Cardinality({r \in Requests : req[r].op = "login"}) < HashSlots
    /\ registered' = registered \cup {u}
    /\ UNCHANGED <<now, sessions, tokens, req, ended>>

\* The password is right and the account is active; ErrBusy when all slots are taken.
Login(r, u) ==
    /\ req[r].op = "idle"
    /\ Cardinality({q \in Requests : req[q].op = "login"}) < HashSlots
    /\ u \in registered
    /\ req' = [req EXCEPT ![r] = [op |-> "login", user |-> u, locked |-> FALSE]]
    /\ UNCHANGED <<now, registered, sessions, tokens, ended>>

LoginLock(r) ==
    /\ req[r].op = "login" /\ ~req[r].locked
    /\ UserFree(r, LoginMode)
    /\ req' = [req EXCEPT ![r].locked = TRUE]
    /\ UNCHANGED <<now, registered, sessions, tokens, ended>>

Least(m, n) == IF m < n THEN m ELSE n

\* New tokens for a session that ends at e.
Issued(s, e, from) ==
    [session |-> s, access |-> Least(e, now + AccessTime), refresh |-> e,
     used |-> FALSE, from |-> from]

LoginCommit(r) ==
    /\ req[r].op = "login" /\ req[r].locked
    /\ \E s \in Sessions, t \in Tokens :
          /\ ~Exists(sessions[s]) /\ ~Exists(tokens[t])
          /\ sessions' = [sessions EXCEPT ![s] =
                [user |-> req[r].user, expires |-> now + SessionTime, revoked |-> FALSE]]
          /\ tokens' = [tokens EXCEPT ![t] = Issued(s, now + SessionTime, NULL)]
    /\ Finish(r)
    /\ UNCHANGED <<now, registered, ended>>

-----------------------------------------------------------------------------
(***************************************************************************)
(* Refresh.                                                                *)
(***************************************************************************)

\* The SELECT ... FOR UPDATE OF s,c begins: whether session and token are live is judged
\* now, although the locks may be granted later.
Refresh(r, t) ==
    LET s == tokens[t].session
    IN  /\ req[r].op = "idle"
        /\ Exists(tokens[t])
        /\ req' = [req EXCEPT ![r] =
              [op |-> "refresh", token |-> t, session |-> s, user |-> sessions[s].user,
               live |-> sessions[s].expires > now /\ tokens[t].refresh > now]]
        /\ UNCHANGED <<now, registered, sessions, tokens, ended>>

\* Mutant: the revocation is not looked at.
UsableRevoked(r) == req[r].live
Usable(r) == ~sessions[req[r].session].revoked /\ req[r].live

\* The locks are granted: revoked_at and used_at are those of now.  A token that was
\* exchanged before is a reuse.  A revoked or ended session is ErrUnauthorized: see Rollback.
RefreshLock(r) ==
    /\ req[r].op = "refresh"
    /\ SessionFree(r, req[r].session)
    /\ Usable(r)
    /\ req' = [req EXCEPT ![r].op = IF tokens[req[r].token].used THEN "reuse" ELSE "rotate"]
    /\ UNCHANGED <<now, registered, sessions, tokens, ended>>

Rotate(r) ==
    LET s == req[r].session
    IN  /\ req[r].op = "rotate"
        /\ \E t \in Tokens :
              /\ ~Exists(tokens[t])
              /\ tokens' = [tokens EXCEPT ![t] = Issued(s, sessions[s].expires, req[r].token),
                                          ![req[r].token].used = TRUE]
        /\ Finish(r)
        /\ UNCHANGED <<now, registered, sessions, ended>>

Revoked(s) == [sessions EXCEPT ![s].revoked = TRUE]

\* The audit record needs the user's row FOR KEY SHARE.
Reuse(r) ==
    /\ req[r].op = "reuse"
    /\ UserFree(r, "KEY SHARE")
    /\ sessions' = Revoked(req[r].session)
    /\ ended' = ended \cup {req[r].session}
    /\ Finish(r)
    /\ UNCHANGED <<now, registered, tokens>>

-----------------------------------------------------------------------------
(***************************************************************************)
(* Authenticate and Logout.                                                *)
(***************************************************************************)

Authenticate(t) ==
    /\ Exists(tokens[t]) /\ tokens[t].access > now
    /\ sessions[tokens[t].session].expires > now
    /\ ~sessions[tokens[t].session].revoked

\* Require has authenticated the request by its access token.
Logout(r, t, all) ==
    /\ req[r].op = "idle"
    /\ Authenticate(t)
    /\ LET s == tokens[t].session
       IN  req' = [req EXCEPT ![r] =
              [op |-> "logout", user |-> sessions[s].user, session |-> s, all |-> all,
               locked |-> FALSE, todo |-> {}, done |-> {}]]
    /\ UNCHANGED <<now, registered, sessions, tokens, ended>>

\* The lock on the user is granted and the UPDATE takes its snapshot of the sessions.
LogoutLock(r) ==
    /\ req[r].op = "logout" /\ ~req[r].locked
    /\ UserFree(r, LogoutMode)
    /\ req' = [req EXCEPT ![r].locked = TRUE,
                          ![r].todo = {s \in Sessions :
                             /\ Exists(sessions[s]) /\ ~sessions[s].revoked
                             /\ sessions[s].user = req[r].user
                             /\ req[r].all \/ s = req[r].session}]
    /\ UNCHANGED <<now, registered, sessions, tokens, ended>>

\* The UPDATE reaches the next row, in no particular order.
LogoutRow(r) ==
    /\ req[r].op = "logout" /\ req[r].locked
    /\ \E s \in req[r].todo :
          /\ SessionFree(r, s)
          /\ req' = [req EXCEPT ![r].todo = @ \ {s}, ![r].done = @ \cup {s}]
    /\ UNCHANGED <<now, registered, sessions, tokens, ended>>

LogoutCommit(r) ==
    /\ req[r].op = "logout" /\ req[r].locked /\ req[r].todo = {}
    /\ sessions' = [s \in Sessions |-> IF s \in req[r].done
                                       THEN [sessions[s] EXCEPT !.revoked = TRUE]
                                       ELSE sessions[s]]
    /\ ended' = IF req[r].all
                THEN ended \cup {s \in Sessions : /\ Exists(sessions[s])
                                                  /\ sessions[s].user = req[r].user}
                ELSE ended \cup {req[r].session}
    /\ Finish(r)
    /\ UNCHANGED <<now, registered, tokens>>

Tick ==
    /\ now < MaxTime
    /\ now' = now + 1
    /\ UNCHANGED <<registered, sessions, tokens, req, ended>>

-----------------------------------------------------------------------------
Next ==
    \/ \E u \in Users : Register(u)
    \/ \E r \in Requests :
          \/ \E u \in Users : Login(r, u)
          \/ LoginLock(r)
          \/ LoginCommit(r)
          \/ \E t \in Tokens : Refresh(r, t)
          \/ RefreshLock(r)
          \/ Rotate(r)
          \/ Reuse(r)
          \/ \E t \in Tokens, all \in BOOLEAN : Logout(r, t, all)
          \/ LogoutLock(r)
          \/ LogoutRow(r)
          \/ LogoutCommit(r)
          \/ Rollback(r)
    \/ Tick

Spec == Init /\ [][Next]_vars

-----------------------------------------------------------------------------
(***************************************************************************)
(* Properties.                                                             *)
(***************************************************************************)

\* A refresh token is exchanged at most once, however many requests present it at the
\* same time: no two pairs of tokens replaced the same one.
RotatedOnce ==
    \A t, v \in Tokens :
        Exists(tokens[t]) /\ Exists(tokens[v]) /\ tokens[t].from # NULL =>
            (tokens[t].from = tokens[v].from => t = v)

\* "A consumed refresh token revokes the entire session when reused" and "Logout-all
\* serializes against login and revokes all existing sessions" (ADR 001): once the reuse
\* has been answered, or the logout committed, the sessions it was about are dead.
EndedIsDead == \A s \in ended : sessions[s].revoked

\* Revocation is final: a refresh that overlaps a logout or a reuse brings no session back
\* to life and leaves no new tokens in a revoked one.
RevokedIsFinal ==
    [][\A s \in Sessions : Exists(sessions[s]) /\ sessions[s].revoked =>
          /\ sessions'[s].revoked
          /\ \A t \in Tokens : Exists(tokens'[t]) /\ tokens'[t].session = s =>
                Exists(tokens[t])]_vars

\* r waits for a row that q has locked.
WaitsFor(r, q) ==
    \/ /\ \/ req[r].op = "login" /\ ~req[r].locked /\ Conflict(LoginMode, UserLock(q))
          \/ req[r].op = "logout" /\ ~req[r].locked /\ Conflict(LogoutMode, UserLock(q))
          \/ req[r].op = "reuse" /\ Conflict("KEY SHARE", UserLock(q))
       /\ UserLock(q) # NULL /\ req[q].user = req[r].user
    \/ req[r].op = "refresh" /\ req[r].session \in SessionLocks(q)
    \/ req[r].op = "logout" /\ req[r].locked /\ req[r].todo \cap SessionLocks(q) # {}

\* No deadlock: Logout locks its user and then sessions, a Refresh that finds a reuse its
\* session and then the user.  There is no group of requests each of which waits for
\* another one of the group.
NoDeadlock ==
    ~ \E group \in SUBSET Requests :
          group # {} /\ \A r \in group : \E q \in group \ {r} : WaitsFor(r, q)

=============================================================================
