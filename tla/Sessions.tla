------------------------------ MODULE Sessions ------------------------------
(***************************************************************************)
(* Login sessions: AuthService, its tables refresh_tokens, revoked_sessions *)
(* and revoked_access_tokens, the request filter, and the cleanup job.      *)
(* Sources: auth_service.cpp, auth_session_repository_impl.cpp,             *)
(* openssl_token_service.cpp, jwt_filter.cpp,                               *)
(* postgres_session_cleanup_repository.cpp.                                 *)
(*                                                                         *)
(* A pair of an access and a refresh token is handed out as one and is     *)
(* named by its refresh token: issued[t] is the issuing time of both.      *)
(* Statements run under READ COMMITTED; a transaction's writes appear at   *)
(* its commit, so what follows its last wait is one action.  Row locks are *)
(* holds; the UPDATE of revoke_session locks the rows its snapshot shows   *)
(* (left) one by one, and any of them may be held by someone else.         *)
(***************************************************************************)
EXTENDS Integers, FiniteSets

CONSTANTS
    Sessions,       \* session ids
    Tokens,         \* opaque refresh tokens (and the pairs they belong to)
    Requests,       \* requests the servers work on at a time
    AccessTTL,      \* access_token_lifetime
    RefreshTTL,     \* refresh_token_lifetime
    Patience,       \* no request outlives this much time
    MaxClock,       \* bound of the clock
    None            \* no session, no token

ASSUME SessionsAssumption ==
    /\ AccessTTL \in Nat \ {0}
    /\ Patience \in Nat
    /\ RefreshTTL \in Nat
    /\ RefreshTTL >= AccessTTL + 2 * Patience
    /\ MaxClock \in Nat
    /\ None \notin Sessions \cup Tokens \cup Requests

VARIABLES
    clock,          \* the time all hosts and the database agree on
    status,         \* a token: "fresh", or its row "live", "revoked", "gone"
    session,        \* session_id of a row
    issued,         \* created_at of a row, iat of its access token
    parent,         \* auxiliary: the token it was exchanged for
    closedUntil,    \* expires_at of the row in revoked_sessions, 0 without one
    closedAt,       \* auxiliary: when the session was first closed, 0 if never
    accessRevoked,  \* revoked_access_tokens
    op,             \* what a request asks for
    pc,             \* where it stands
    mine,           \* the refresh token it presents
    claims,         \* the access token it presents
    now,            \* clock_.now() of the request
    holds,          \* row locks in refresh_tokens
    left,           \* rows its UPDATE has yet to lock
    late            \* auxiliary: its session was closed when it began

tokenVars == <<status, session, issued, parent>>
closeVars == <<closedUntil, closedAt, accessRevoked>>
requestVars == <<op, pc, mine, claims, now, holds, left, late>>
vars == <<clock, tokenVars, closeVars, requestVars>>

Rows == {t \in Tokens : status[t] \in {"live", "revoked"}}
RowsOf(s) == {t \in Rows : session[t] = s}
Expiry(t) == issued[t] + RefreshTTL

(* is_session_revoked and is_access_token_revoked as seen by now = n. *)
Closed(s, n) == closedUntil[s] > n
AccessRevoked(t, n) == t \in accessRevoked /\ issued[t] + AccessTTL > n

(* validate_access_token of the access token of pair t, handed out and genuine. *)
Valid(t, n) ==
    /\ status[t] \in {"live", "revoked", "gone"}
    /\ issued[t] <= n /\ n < issued[t] + AccessTTL

(* JwtFilter::authenticate at time n. *)
Admits(t, n) ==
    /\ Valid(t, n)
    /\ ~AccessRevoked(t, n)
    /\ ~Closed(session[t], n)

(* GREATEST of revoke_session's upsert. *)
Later(a, b) == IF a >= b THEN a ELSE b

\* Mutation: the row is read without FOR UPDATE.
NeverLocked(t, r) == FALSE

Locked(t, r) == \E q \in Requests \ {r} : t \in holds[q]

Init ==
    /\ clock = 1
    /\ status = [t \in Tokens |-> "fresh"]
    /\ session = [t \in Tokens |-> None]
    /\ issued = [t \in Tokens |-> 0]
    /\ parent = [t \in Tokens |-> None]
    /\ closedUntil = [s \in Sessions |-> 0]
    /\ closedAt = [s \in Sessions |-> 0]
    /\ accessRevoked = {}
    /\ op = [r \in Requests |-> "none"]
    /\ pc = [r \in Requests |-> "idle"]
    /\ mine = [r \in Requests |-> None]
    /\ claims = [r \in Requests |-> None]
    /\ now = [r \in Requests |-> 0]
    /\ holds = [r \in Requests |-> {}]
    /\ left = [r \in Requests |-> {}]
    /\ late = [r \in Requests |-> FALSE]

----------------------------------------------------------------------------
(* A request begins and reads the clock before its transaction. *)
Begin(r, kind, t, a, where) ==
    /\ pc[r] = "idle"
    /\ op' = [op EXCEPT ![r] = kind]
    /\ pc' = [pc EXCEPT ![r] = where]
    /\ mine' = [mine EXCEPT ![r] = t]
    /\ claims' = [claims EXCEPT ![r] = a]
    /\ now' = [now EXCEPT ![r] = clock]
    /\ late' = [late EXCEPT ![r] = kind = "refresh" /\ Closed(session[t], clock + Patience)]
    /\ UNCHANGED <<clock, tokenVars, closeVars, holds, left>>

(* login and register_user, when the credentials are good. *)
StartLogin(r) == Begin(r, "login", None, None, "write")

(* refresh: the row is found before the transaction begins. *)
StartRefresh(r, t) == t \in Rows /\ Begin(r, "refresh", t, None, "lock")

(* logout: the filter has admitted the access token of pair a. *)
StartLogout(r, t, a) ==
    /\ Admits(a, clock)
    /\ status[t] # "fresh"
    /\ Begin(r, "logout", t, a, "lock")

\* Mutation: a request that ends leaves its row locks behind.
EndHolding(r) ==
    /\ op' = [op EXCEPT ![r] = "none"]
    /\ pc' = [pc EXCEPT ![r] = "idle"]
    /\ mine' = [mine EXCEPT ![r] = None]
    /\ claims' = [claims EXCEPT ![r] = None]
    /\ now' = [now EXCEPT ![r] = 0]
    /\ left' = [left EXCEPT ![r] = {}]
    /\ late' = [late EXCEPT ![r] = FALSE]
    /\ UNCHANGED <<clock, holds>>

(* The request ends and its locks go. *)
End(r) ==
    /\ op' = [op EXCEPT ![r] = "none"]
    /\ pc' = [pc EXCEPT ![r] = "idle"]
    /\ mine' = [mine EXCEPT ![r] = None]
    /\ claims' = [claims EXCEPT ![r] = None]
    /\ now' = [now EXCEPT ![r] = 0]
    /\ holds' = [holds EXCEPT ![r] = {}]
    /\ left' = [left EXCEPT ![r] = {}]
    /\ late' = [late EXCEPT ![r] = FALSE]
    /\ UNCHANGED clock

(* The request ends without a pair, after revoking some tokens. *)
EndWithout(r, dead) ==
    /\ End(r)
    /\ status' = [t \in Tokens |-> IF t \in dead THEN "revoked" ELSE status[t]]
    /\ UNCHANGED <<session, issued, parent>>

(* save_refresh_token: token u of session s replaces the one presented, if any. *)
Store(r, u, s) ==
    /\ status[u] = "fresh"
    /\ status' = [t \in Tokens |-> IF t = u THEN "live"
                                   ELSE IF t = mine[r] THEN "revoked" ELSE status[t]]
    /\ session' = [session EXCEPT ![u] = s]
    /\ issued' = [issued EXCEPT ![u] = now[r]]
    /\ parent' = [parent EXCEPT ![u] = mine[r]]
    /\ End(r)
    /\ UNCHANGED closeVars

CommitLogin(r) ==
    /\ pc[r] = "write" /\ op[r] = "login"
    /\ \E u \in Tokens, s \in Sessions :
          /\ \A t \in Tokens : session[t] # s
          /\ Store(r, u, s)

(* find_refresh_token_for_update.  Taking the lock commutes with whatever others do *)
(* before the next statement, so it is one action with what that statement finds.   *)
Locks(r) ==
    /\ pc[r] = "lock"
    /\ mine[r] \in Rows
    /\ ~Locked(mine[r], r)

(* The row is gone, or belongs to another session than the access token. *)
Mismatch(r) ==
    /\ \/ pc[r] = "lock" /\ mine[r] \notin Rows
       \/ Locks(r) /\ op[r] = "logout" /\ session[mine[r]] # session[claims[r]]
    /\ EndWithout(r, {})
    /\ UNCHANGED closeVars

(* refresh finds its session revoked. *)
Refuse(r) ==
    /\ Locks(r) /\ op[r] = "refresh"
    /\ Closed(session[mine[r]], now[r])
    /\ EndWithout(r, {})
    /\ UNCHANGED closeVars

(* The token is too old: it is revoked, nothing is handed out. *)
Expire(r) ==
    /\ Locks(r) /\ op[r] = "refresh"
    /\ ~Closed(session[mine[r]], now[r])
    /\ status[mine[r]] = "live"
    /\ Expiry(mine[r]) <= now[r]
    /\ EndWithout(r, {mine[r]})
    /\ UNCHANGED closeVars

(* The checks of refresh passed: what is left of its transaction waits for nobody, *)
(* but another transaction may commit before it does.                              *)
Pass(r) ==
    /\ Locks(r) /\ op[r] = "refresh"
    /\ ~Closed(session[mine[r]], now[r])
    /\ status[mine[r]] = "live"
    /\ Expiry(mine[r]) > now[r]
    /\ holds' = [holds EXCEPT ![r] = {mine[r]}]
    /\ pc' = [pc EXCEPT ![r] = "write"]
    /\ UNCHANGED <<clock, tokenVars, closeVars, op, mine, claims, now, left, late>>

Rotate(r) ==
    /\ pc[r] = "write" /\ op[r] = "refresh"
    /\ \E u \in Tokens : Store(r, u, session[mine[r]])

(* A logout of the session, or a refresh whose token was used before. *)
MustClose(r) ==
    \/ op[r] = "logout" /\ session[mine[r]] = session[claims[r]]
    \/ /\ op[r] = "refresh"
       /\ ~Closed(session[mine[r]], now[r])
       /\ status[mine[r]] = "revoked"

(* revoke_session begins: its UPDATE takes the snapshot. *)
StartClose(r) ==
    /\ Locks(r) /\ MustClose(r)
    /\ holds' = [holds EXCEPT ![r] = {mine[r]}]
    /\ left' = [left EXCEPT ![r] = RowsOf(session[mine[r]]) \ {mine[r]}]
    /\ pc' = [pc EXCEPT ![r] = "close"]
    /\ UNCHANGED <<clock, tokenVars, closeVars, op, mine, claims, now, late>>

LockRow(r, t) ==
    /\ pc[r] = "close"
    /\ t \in left[r]
    /\ ~Locked(t, r)
    /\ left' = [left EXCEPT ![r] = @ \ {t}]
    /\ holds' = [holds EXCEPT ![r] = IF t \in Rows THEN @ \cup {t} ELSE @]
    /\ UNCHANGED <<clock, tokenVars, closeVars,
                   op, pc, mine, claims, now, late>>

(* The rest of the UPDATE, the upsert of revoked_sessions and the commit. *)
Close(r) ==
    LET s == session[mine[r]] IN
    /\ pc[r] = "close"
    /\ left[r] = {}
    /\ EndWithout(r, holds[r])
    /\ closedUntil' = [closedUntil EXCEPT ![s] = Later(@, now[r] + RefreshTTL)]
    /\ closedAt' = [closedAt EXCEPT ![s] = IF @ = 0 THEN clock ELSE @]
    /\ accessRevoked' = IF op[r] = "logout" THEN accessRevoked \cup {claims[r]}
                                            ELSE accessRevoked

(* A statement fails, PostgreSQL breaks a deadlock, or the process dies. *)
Abort(r) ==
    /\ pc[r] # "idle"
    /\ EndWithout(r, {})
    /\ UNCHANGED closeVars

----------------------------------------------------------------------------
(* CleanupExpiredSessionsUseCase: one transaction deletes, by the database clock, *)
(* rows that have expired and nobody has locked; its batch decides how many.      *)

ExpiredRows == {t \in Rows : Expiry(t) <= clock /\ ~Locked(t, None)}
ExpiredAccess == {t \in accessRevoked : issued[t] + AccessTTL <= clock}
\* Mutation: a closing is deleted by its revoked_at.
PastClosings == {s \in Sessions : closedUntil[s] # 0 /\ closedUntil[s] - RefreshTTL <= clock}

ExpiredClosings == {s \in Sessions : closedUntil[s] # 0 /\ closedUntil[s] <= clock}

Clean ==
    \E deadRows \in SUBSET ExpiredRows, deadAccess \in SUBSET ExpiredAccess,
      reopened \in SUBSET ExpiredClosings :
        /\ deadRows # {} \/ deadAccess # {} \/ reopened # {}
        /\ status' = [t \in Tokens |-> IF t \in deadRows THEN "gone" ELSE status[t]]
        /\ accessRevoked' = accessRevoked \ deadAccess
        /\ closedUntil' = [s \in Sessions |-> IF s \in reopened THEN 0 ELSE closedUntil[s]]
        /\ UNCHANGED <<clock, session, issued, parent, closedAt, requestVars>>

Tick ==
    /\ clock < MaxClock
    /\ \A r \in Requests : pc[r] # "idle" => clock < now[r] + Patience
    /\ clock' = clock + 1
    /\ UNCHANGED <<tokenVars, closeVars, requestVars>>

----------------------------------------------------------------------------
Arrive(r) ==
    \/ StartLogin(r)
    \/ \E t \in Tokens : StartRefresh(r, t)
    \/ \E t, a \in Tokens : StartLogout(r, t, a)

Work(r) ==
    \/ CommitLogin(r) \/ Mismatch(r) \/ Refuse(r) \/ Expire(r)
    \/ Pass(r) \/ Rotate(r) \/ StartClose(r) \/ Close(r)
    \/ \E t \in Tokens : LockRow(r, t)

Next ==
    \/ \E r \in Requests : Arrive(r) \/ Work(r) \/ Abort(r)
    \/ Clean
    \/ Tick

Spec == Init /\ [][Next]_vars

----------------------------------------------------------------------------
TypeOK ==
    /\ clock \in Nat
    /\ status \in [Tokens -> {"fresh", "live", "revoked", "gone"}]
    /\ session \in [Tokens -> Sessions \cup {None}]
    /\ issued \in [Tokens -> Nat]
    /\ parent \in [Tokens -> Tokens \cup {None}]
    /\ closedUntil \in [Sessions -> Nat]
    /\ closedAt \in [Sessions -> Nat]
    /\ accessRevoked \in SUBSET Tokens
    /\ op \in [Requests -> {"none", "login", "refresh", "logout"}]
    /\ pc \in [Requests -> {"idle", "lock", "write", "close"}]
    /\ mine \in [Requests -> Tokens \cup {None}]
    /\ claims \in [Requests -> Tokens \cup {None}]
    /\ now \in [Requests -> Nat]
    /\ holds \in [Requests -> SUBSET Tokens]
    /\ left \in [Requests -> SUBSET Tokens]
    /\ late \in [Requests -> BOOLEAN]

(* A refresh token is exchanged at most once, however many requests present it *)
(* at the same time, and never outside its session.                           *)
OneHeir ==
    /\ \A t, u \in Tokens : parent[t] = parent[u] /\ parent[t] # None => t = u
    /\ \A t \in Tokens : parent[t] # None => session[parent[t]] = session[t]

(* Of the tokens of a session at most one can still be exchanged: rotation, reuse, *)
(* logout and cleanup together never leave a second way in.                        *)
OneUsableToken ==
    \A t, u \in Tokens :
        status[t] = "live" /\ status[u] = "live" /\ session[t] = session[u] => t = u

(* Once a logout (or a detected reuse) is committed, the filter admits no access     *)
(* token handed out before, whatever rows the cleanup has removed in the meantime    *)
(* and however slow the request is between reading its clock and the query.          *)
ClosedSessionAdmitsNobody ==
    \A t \in Tokens : \A n \in 1..clock :
        /\ session[t] # None /\ closedAt[session[t]] # 0
        /\ issued[t] <= closedAt[session[t]]
        /\ n >= closedAt[session[t]] /\ n <= clock /\ clock <= n + Patience
        => ~Admits(t, n)

(* A refresh that begins when its session is closed hands out no pair, even if it *)
(* waits and the closing lapses before its checks.                                *)
ClosedSessionGivesNoPair ==
    \A r \in Requests : late[r] => pc[r] # "write"

(* A closing revokes every token of the session but one that was stored while it was *)
(* under way: what survives is not older than the patience of the two requests.      *)
OnlyRacersSurvive ==
    \A t \in Tokens :
        status[t] = "live" /\ closedAt[session[t]] # 0
        => issued[t] + 2 * Patience >= closedAt[session[t]]

(* Whatever requests cross, a session has one usable refresh token and each of its *)
(* tokens one heir at most.                                                        *)
TokensSound == TypeOK /\ OneHeir /\ OneUsableToken

(* A closed session stays closed, to access tokens and to refreshes, but for the *)
(* refreshes that were under way when it was closed.                             *)
ClosingHolds ==
    ClosedSessionAdmitsNobody /\ ClosedSessionGivesNoPair /\ OnlyRacersSurvive

(* What a request waits for: rows locked by others, all of those it still needs. *)
Waits(r) ==
    \/ pc[r] = "lock" /\ mine[r] \in Rows /\ Locked(mine[r], r)
    \/ pc[r] = "close" /\ left[r] # {} /\ \A t \in left[r] : Locked(t, r)

(* Closings that wait for each other: PostgreSQL aborts one of them. *)
Circle(waiting) ==
    /\ waiting # {}
    /\ \A r \in waiting :
          /\ pc[r] = "close" /\ left[r] # {}
          /\ \A t \in left[r] : \E q \in waiting \ {r} : t \in holds[q]

(* Requests never all wait for something that does not come: one of them goes on,  *)
(* or closings of a session hold rows of each other and the database breaks that. *)
SomebodyMoves ==
    \/ \A r \in Requests : pc[r] = "idle"
    \/ \E r \in Requests : pc[r] # "idle" /\ ~Waits(r)
    \/ \E waiting \in SUBSET Requests : Circle(waiting)
=============================================================================
