---------------------------- MODULE SessionsProofs ----------------------------
(***************************************************************************)
(* Proofs about Sessions, for any number of sessions, tokens and requests  *)
(* and for all lifetimes: tokens are exchanged once, a closed session      *)
(* stays closed, and requests wait in a circle only to close a session.    *)
(***************************************************************************)
EXTENDS Sessions, TLAPS

-----------------------------------------------------------------------------
(* The inductive invariant.                                                *)

\* A token has a session once it is handed out; what it was exchanged for is
\* of the same session and can no longer be exchanged.
TokensOK ==
    \A t \in Tokens :
        /\ status[t] = "fresh" <=> session[t] = None
        /\ status[t] = "fresh" => parent[t] = None
        /\ parent[t] # None =>
            /\ session[parent[t]] = session[t]
            /\ status[parent[t]] \in {"revoked", "gone"}

\* Where a request stands and what it holds there.
PlaceOK(r) ==
    /\ pc[r] = "idle" => op[r] = "none" /\ holds[r] = {} /\ left[r] = {}
    /\ pc[r] = "lock" => op[r] \in {"refresh", "logout"} /\ holds[r] = {} /\ left[r] = {}
    /\ pc[r] = "write" =>
        \/ op[r] = "login" /\ mine[r] = None /\ holds[r] = {} /\ left[r] = {}
        \/ /\ op[r] = "refresh" /\ mine[r] \in holds[r] /\ left[r] = {}
           /\ status[mine[r]] = "live"
    /\ pc[r] = "close" => op[r] \in {"refresh", "logout"} /\ mine[r] \in holds[r]
    /\ op[r] \in {"refresh", "logout"} => mine[r] \in Tokens /\ session[mine[r]] # None
    /\ op[r] = "logout" => claims[r] \in Tokens
    /\ \A t \in holds[r] : session[t] # None

\* A request is not older than its patience, and one that was late finds its
\* session closed for as long as it lasts.
TimeOK(r) ==
    /\ pc[r] # "idle" => now[r] <= clock /\ clock <= now[r] + Patience
    /\ late[r] => /\ pc[r] = "lock" /\ op[r] = "refresh"
                  /\ closedUntil[session[mine[r]]] > now[r] + Patience

\* What a closing does not see is younger than its snapshot, but for the
\* patience of the request that stored it.
SnapshotOK(r) ==
    pc[r] = "close" =>
        \A t \in Tokens :
            status[t] = "live" /\ session[t] = session[mine[r]] =>
                t \in holds[r] \cup left[r] \/ issued[t] + Patience >= now[r]

LocksExclude == \A q, r \in Requests : q # r => holds[q] \cap holds[r] = {}

\* A closing outlives every access token that was out when it was made, by
\* more than a request may last.
ClosingOK(s) ==
    closedAt[s] # 0 =>
        /\ closedAt[s] <= clock
        /\ \/ closedUntil[s] >= closedAt[s] + Patience + AccessTTL
           \/ clock >= closedAt[s] + Patience + AccessTTL

IInv ==
    /\ TypeOK
    /\ clock > 0
    /\ TokensOK
    /\ OneHeir
    /\ OneUsableToken
    /\ \A r \in Requests : PlaceOK(r) /\ TimeOK(r) /\ SnapshotOK(r)
    /\ LocksExclude
    /\ \A s \in Sessions : ClosingOK(s)
    /\ OnlyRacersSurvive

-----------------------------------------------------------------------------
LEMMA InitOK == Init => IInv
  BY SessionsAssumption
  DEF Init, IInv, TypeOK, TokensOK, OneHeir, OneUsableToken, PlaceOK, TimeOK, SnapshotOK,
      LocksExclude, ClosingOK, OnlyRacersSurvive

-----------------------------------------------------------------------------
(* Steps that hand out no token and close no session.                      *)

\* A row is that of a token of some session.
LEMMA RowHasSession ==
    ASSUME IInv, NEW t \in Rows
    PROVE  t \in Tokens /\ session[t] \in Sessions /\ session[t] # None
  <1>1. t \in Tokens /\ status[t] \in {"live", "revoked"}
    BY DEF Rows
  <1>2. session[t] # None
    BY <1>1 DEF IInv, TokensOK
  <1>3. session[t] \in Sessions \cup {None}
    BY <1>1 DEF IInv, TypeOK
  <1>. QED  BY <1>1, <1>2, <1>3

\* A step leaves request q alone.
Stays(q) ==
    /\ op'[q] = op[q] /\ pc'[q] = pc[q] /\ mine'[q] = mine[q] /\ claims'[q] = claims[q]
    /\ now'[q] = now[q] /\ holds'[q] = holds[q] /\ left'[q] = left[q] /\ late'[q] = late[q]

\* A request is in order after a step of others that does not touch the rows it
\* holds, revives no token and reopens no session.
LEMMA BystanderOK ==
    ASSUME IInv, NEW q \in Requests, Stays(q),
           UNCHANGED <<clock, session, issued>>,
           \A t \in holds[q] : status'[t] = status[t],
           \A t \in Tokens : status'[t] = "live" => status[t] = "live",
           \A s \in Sessions : closedUntil'[s] >= closedUntil[s],
           closedUntil' \in [Sessions -> Nat]
    PROVE  PlaceOK(q)' /\ TimeOK(q)' /\ SnapshotOK(q)'
  <1>1. PlaceOK(q)'
    BY DEF Stays, IInv, PlaceOK
  <1>2. TimeOK(q)'
    <2>1. pc'[q] # "idle" => now'[q] <= clock' /\ clock' <= now'[q] + Patience
      BY DEF Stays, IInv, TimeOK
    <2>2. ASSUME late[q]
          PROVE  /\ pc[q] = "lock" /\ op[q] = "refresh"
                 /\ closedUntil'[session[mine[q]]] > now[q] + Patience
      <3>1. /\ pc[q] = "lock" /\ op[q] = "refresh"
            /\ closedUntil[session[mine[q]]] > now[q] + Patience
        BY <2>2 DEF IInv, TimeOK
      <3>2. session[mine[q]] \in Sessions
        BY <3>1 DEF IInv, PlaceOK, TypeOK
      <3>3. /\ closedUntil[session[mine[q]]] \in Nat /\ closedUntil'[session[mine[q]]] \in Nat
            /\ now[q] + Patience \in Nat
        BY <3>2, SessionsAssumption DEF IInv, TypeOK
      <3>. QED  BY <3>1, <3>2, <3>3
    <2>. QED  BY <2>1, <2>2 DEF Stays, TimeOK
  <1>3. SnapshotOK(q)'
    BY DEF Stays, IInv, SnapshotOK
  <1>. QED  BY <1>1, <1>2, <1>3

\* A step that leaves tokens, closings and the clock alone, and all requests
\* but one.
LEMMA OneRequest ==
    ASSUME IInv, NEW r \in Requests, TypeOK',
           UNCHANGED <<clock, tokenVars, closeVars>>,
           \A q \in Requests \ {r} : Stays(q),
           PlaceOK(r)', TimeOK(r)', SnapshotOK(r)',
           \A q \in Requests \ {r} : holds[q] \cap holds'[r] = {}
    PROVE  IInv'
  <1>1. UNCHANGED <<clock, status, session, issued, parent, closedUntil, closedAt>>
    BY DEF tokenVars, closeVars
  <1>2. TokensOK' /\ OneHeir' /\ OneUsableToken' /\ OnlyRacersSurvive' /\ clock' > 0
    BY <1>1 DEF IInv, TokensOK, OneHeir, OneUsableToken, OnlyRacersSurvive
  <1>3. \A s \in Sessions : ClosingOK(s)'
    BY <1>1 DEF IInv, ClosingOK
  <1>4. ASSUME NEW q \in Requests \ {r}
        PROVE  PlaceOK(q)' /\ TimeOK(q)' /\ SnapshotOK(q)'
    <2>1. \A s \in Sessions : closedUntil'[s] >= closedUntil[s]
      BY <1>1 DEF IInv, TypeOK
    <2>. QED  BY <1>1, <2>1, BystanderOK DEF IInv, TypeOK
  <1>5. LocksExclude'
    BY DEF Stays, IInv, LocksExclude
  <1>. QED  BY <1>2, <1>3, <1>4, <1>5 DEF IInv

LEMMA BeginTypes ==
    ASSUME IInv, NEW r \in Requests, NEW kind \in {"login", "refresh", "logout"},
           NEW t \in Tokens \cup {None}, NEW a \in Tokens \cup {None},
           NEW where \in {"lock", "write"}, Begin(r, kind, t, a, where)
    PROVE  /\ TypeOK'
           /\ op'[r] = kind /\ pc'[r] = where /\ mine'[r] = t /\ claims'[r] = a
           /\ now'[r] = clock /\ holds'[r] = {} /\ left'[r] = {}
           /\ late'[r] = (kind = "refresh" /\ Closed(session[t], clock + Patience))
           /\ UNCHANGED <<clock, tokenVars, closeVars, holds>>
           /\ \A q \in Requests \ {r} : Stays(q)
  <1>1. (kind = "refresh" /\ Closed(session[t], clock + Patience)) \in BOOLEAN
    OBVIOUS
  <1>. DEFINE isLate == kind = "refresh" /\ Closed(session[t], clock + Patience)
  <1>2. late' = [late EXCEPT ![r] = isLate]
    BY DEF Begin
  <1>. HIDE DEF isLate
  <1>3. isLate \in BOOLEAN
    BY <1>1 DEF isLate
  <1>4. TypeOK'
    BY <1>2, <1>3 DEF IInv, TypeOK, Begin, tokenVars, closeVars
  <1>5. late'[r] = isLate /\ \A q \in Requests \ {r} : late'[q] = late[q]
    BY <1>2 DEF IInv, TypeOK
  <1>6. holds'[r] = {} /\ left'[r] = {}
    BY DEF IInv, PlaceOK, Begin
  <1>. QED
    BY <1>4, <1>5, <1>6 DEF IInv, TypeOK, Begin, isLate, Stays

LEMMA ArriveOK ==
    ASSUME IInv, NEW r \in Requests, Arrive(r)
    PROVE  IInv'
  <1>1. CASE StartLogin(r)
    <2>1. Begin(r, "login", None, None, "write")
      BY <1>1 DEF StartLogin
    <2>2. PlaceOK(r)' /\ SnapshotOK(r)'
      BY <2>1, BeginTypes DEF PlaceOK, SnapshotOK
    <2>3. TimeOK(r)'
      BY <2>1, BeginTypes, SessionsAssumption DEF TimeOK, IInv, TypeOK
    <2>. QED  BY <2>1, <2>2, <2>3, BeginTypes, OneRequest
  <1>2. ASSUME NEW t \in Tokens, StartRefresh(r, t)
        PROVE  IInv'
    <2>1. Begin(r, "refresh", t, None, "lock") /\ session[t] # None /\ session[t] \in Sessions
      BY <1>2, RowHasSession DEF StartRefresh
    <2>2. PlaceOK(r)' /\ SnapshotOK(r)'
      BY <2>1, BeginTypes DEF PlaceOK, SnapshotOK, tokenVars
    <2>3. TimeOK(r)'
      BY <2>1, BeginTypes, SessionsAssumption
      DEF TimeOK, IInv, TypeOK, Closed, tokenVars, closeVars
    <2>. QED  BY <2>1, <2>2, <2>3, BeginTypes, OneRequest
  <1>3. ASSUME NEW t \in Tokens, NEW a \in Tokens, StartLogout(r, t, a)
        PROVE  IInv'
    <2>1. Begin(r, "logout", t, a, "lock") /\ session[t] # None
      BY <1>3 DEF StartLogout, IInv, TokensOK
    <2>2. PlaceOK(r)' /\ SnapshotOK(r)'
      BY <2>1, BeginTypes DEF PlaceOK, SnapshotOK, tokenVars
    <2>3. TimeOK(r)'
      BY <2>1, BeginTypes, SessionsAssumption DEF TimeOK, IInv, TypeOK
    <2>. QED  BY <2>1, <2>2, <2>3, BeginTypes, OneRequest
  <1>. QED  BY <1>1, <1>2, <1>3 DEF Arrive

\* A request that ends is at rest.
LEMMA EndTypes ==
    ASSUME IInv, NEW r \in Requests, End(r)
    PROVE  /\ clock' = clock
           /\ op' \in [Requests -> {"none", "login", "refresh", "logout"}]
           /\ pc' \in [Requests -> {"idle", "lock", "write", "close"}]
           /\ mine' \in [Requests -> Tokens \cup {None}]
           /\ claims' \in [Requests -> Tokens \cup {None}]
           /\ now' \in [Requests -> Nat]
           /\ holds' \in [Requests -> SUBSET Tokens]
           /\ left' \in [Requests -> SUBSET Tokens]
           /\ late' \in [Requests -> BOOLEAN]
           /\ op'[r] = "none" /\ pc'[r] = "idle" /\ holds'[r] = {} /\ left'[r] = {}
           /\ late'[r] = FALSE
           /\ \A q \in Requests \ {r} : Stays(q)
           /\ PlaceOK(r)' /\ TimeOK(r)' /\ SnapshotOK(r)'
           /\ LocksExclude'
  <1>1. /\ clock' = clock
        /\ op' \in [Requests -> {"none", "login", "refresh", "logout"}]
        /\ pc' \in [Requests -> {"idle", "lock", "write", "close"}]
        /\ mine' \in [Requests -> Tokens \cup {None}]
        /\ claims' \in [Requests -> Tokens \cup {None}]
        /\ now' \in [Requests -> Nat]
        /\ holds' \in [Requests -> SUBSET Tokens]
        /\ left' \in [Requests -> SUBSET Tokens]
        /\ late' \in [Requests -> BOOLEAN]
    BY DEF IInv, TypeOK, End
  <1>2. op'[r] = "none" /\ pc'[r] = "idle" /\ holds'[r] = {} /\ left'[r] = {}
    BY DEF IInv, TypeOK, End
  <1>3. late'[r] = FALSE
    BY DEF IInv, TypeOK, End
  <1>4. \A q \in Requests \ {r} : Stays(q)
    BY DEF IInv, TypeOK, End, Stays
  <1>5. PlaceOK(r)' /\ TimeOK(r)' /\ SnapshotOK(r)'
    BY <1>2, <1>3 DEF PlaceOK, TimeOK, SnapshotOK
  <1>6. LocksExclude'
    BY <1>2, <1>4 DEF IInv, LocksExclude, Stays
  <1>. QED  BY <1>1, <1>2, <1>3, <1>4, <1>5, <1>6

\* A request that ends after revoking tokens that nobody else holds.
LEMMA EndWithoutOK ==
    ASSUME IInv, NEW r \in Requests, NEW dead \in SUBSET Tokens, EndWithout(r, dead),
           \A t \in dead : session[t] # None,
           \A q \in Requests \ {r} : holds[q] \cap dead = {},
           UNCHANGED closeVars
    PROVE  IInv'
  <1>. End(r)
    BY DEF EndWithout
  <1>1. /\ \A t \in Tokens : status'[t] = IF t \in dead THEN "revoked" ELSE status[t]
        /\ session' = session /\ issued' = issued /\ parent' = parent
        /\ closedUntil' = closedUntil /\ closedAt' = closedAt
        /\ accessRevoked' = accessRevoked
    BY DEF EndWithout, closeVars
  <1>2. status' \in [Tokens -> {"fresh", "live", "revoked", "gone"}]
    BY DEF EndWithout, IInv, TypeOK
  <1>3. TypeOK' /\ clock' > 0
    BY <1>1, <1>2, EndTypes DEF IInv, TypeOK
  <1>4. TokensOK'
    BY <1>1 DEF IInv, TypeOK, TokensOK
  <1>5. OneHeir' /\ OneUsableToken'
    BY <1>1 DEF IInv, OneHeir, OneUsableToken
  <1>6. OnlyRacersSurvive'
    BY <1>1 DEF IInv, OnlyRacersSurvive
  <1>7. \A s \in Sessions : ClosingOK(s)'
    BY <1>1, EndTypes DEF IInv, ClosingOK
  <1>8. ASSUME NEW q \in Requests \ {r}
        PROVE  PlaceOK(q)' /\ TimeOK(q)' /\ SnapshotOK(q)'
    <2>1. Stays(q) /\ clock' = clock
      BY EndTypes
    <2>2. \A t \in holds[q] : status'[t] = status[t]
      BY <1>1 DEF IInv, TypeOK
    <2>3. \A s \in Sessions : closedUntil'[s] >= closedUntil[s]
      BY <1>1 DEF IInv, TypeOK
    <2>. QED  BY <1>1, <2>1, <2>2, <2>3, BystanderOK DEF IInv, TypeOK
  <1>. QED  BY <1>3, <1>4, <1>5, <1>6, <1>7, <1>8, EndTypes DEF IInv

LEMMA EmptyHandedOK ==
    ASSUME IInv, NEW r \in Requests, Mismatch(r) \/ Refuse(r) \/ Abort(r)
    PROVE  IInv'
  <1>1. EndWithout(r, {}) /\ UNCHANGED closeVars
    BY DEF Mismatch, Refuse, Abort
  <1>. QED  BY <1>1, EndWithoutOK

\* Whoever finds a row unlocked is the only one to hold it.
LEMMA UnlockedRow ==
    ASSUME IInv, NEW r \in Requests, Locks(r)
    PROVE  /\ mine[r] \in Tokens /\ session[mine[r]] \in Sessions /\ session[mine[r]] # None
           /\ \A q \in Requests \ {r} : mine[r] \notin holds[q]
  BY RowHasSession DEF Locks, Locked

LEMMA ExpireOK ==
    ASSUME IInv, NEW r \in Requests, Expire(r)
    PROVE  IInv'
  <1>1. EndWithout(r, {mine[r]}) /\ UNCHANGED closeVars /\ Locks(r)
    BY DEF Expire
  <1>. QED  BY <1>1, UnlockedRow, EndWithoutOK

LEMMA PassOK ==
    ASSUME IInv, NEW r \in Requests, Pass(r)
    PROVE  IInv'
  <1>1. /\ pc[r] = "lock" /\ op[r] = "refresh" /\ status[mine[r]] = "live"
        /\ ~Closed(session[mine[r]], now[r]) /\ Locks(r)
    BY DEF Pass, Locks
  <1>2. TypeOK'
    BY <1>1, UnlockedRow DEF Pass, IInv, TypeOK, tokenVars, closeVars
  <1>3. /\ pc'[r] = "write" /\ op'[r] = op[r] /\ mine'[r] = mine[r] /\ holds'[r] = {mine[r]}
        /\ left'[r] = left[r] /\ now'[r] = now[r] /\ late'[r] = late[r]
        /\ claims'[r] = claims[r]
        /\ UNCHANGED <<clock, tokenVars, closeVars>>
        /\ \A q \in Requests \ {r} : Stays(q)
    BY DEF Pass, IInv, TypeOK, Stays
  \* A late request finds its session closed, and is refused.
  <1>4. ~late[r]
    <2>1. late[r] => closedUntil[session[mine[r]]] > now[r] + Patience
      BY DEF IInv, TimeOK
    <2>2. closedUntil[session[mine[r]]] \in Nat /\ now[r] \in Nat
      BY <1>1, UnlockedRow DEF IInv, TypeOK
    <2>. QED  BY <1>1, <2>1, <2>2, SessionsAssumption DEF Closed
  <1>5. PlaceOK(r)' /\ SnapshotOK(r)'
    BY <1>1, <1>3, UnlockedRow DEF IInv, PlaceOK, SnapshotOK, tokenVars
  <1>6. TimeOK(r)'
    BY <1>1, <1>3, <1>4 DEF IInv, TimeOK
  <1>. QED  BY <1>1, <1>2, <1>3, <1>5, <1>6, UnlockedRow, OneRequest

LEMMA StartCloseOK ==
    ASSUME IInv, NEW r \in Requests, StartClose(r)
    PROVE  IInv'
  <1>1. /\ pc[r] = "lock" /\ op[r] \in {"refresh", "logout"} /\ Locks(r) /\ MustClose(r)
    BY DEF StartClose, Locks, IInv, PlaceOK
  <1>2. TypeOK'
    BY <1>1, UnlockedRow DEF StartClose, RowsOf, Rows, IInv, TypeOK, tokenVars, closeVars
  <1>3. /\ pc'[r] = "close" /\ op'[r] = op[r] /\ mine'[r] = mine[r] /\ holds'[r] = {mine[r]}
        /\ left'[r] = RowsOf(session[mine[r]]) \ {mine[r]}
        /\ now'[r] = now[r] /\ late'[r] = late[r] /\ claims'[r] = claims[r]
        /\ UNCHANGED <<clock, tokenVars, closeVars>>
        /\ \A q \in Requests \ {r} : Stays(q)
    BY DEF StartClose, IInv, TypeOK, Stays
  <1>4. ~late[r]
    <2>1. late[r] => /\ closedUntil[session[mine[r]]] > now[r] + Patience
                     /\ op[r] = "refresh"
      BY DEF IInv, TimeOK
    <2>2. closedUntil[session[mine[r]]] \in Nat /\ now[r] \in Nat
      BY <1>1, UnlockedRow DEF IInv, TypeOK
    <2>. QED  BY <1>1, <2>1, <2>2, SessionsAssumption DEF MustClose, Closed
  <1>5. PlaceOK(r)'
    BY <1>1, <1>3, UnlockedRow DEF IInv, PlaceOK, tokenVars
  <1>6. TimeOK(r)'
    BY <1>1, <1>3, <1>4 DEF IInv, TimeOK
  <1>7. SnapshotOK(r)'
    BY <1>3 DEF SnapshotOK, RowsOf, Rows, tokenVars
  <1>. QED  BY <1>1, <1>2, <1>3, <1>5, <1>6, <1>7, UnlockedRow, OneRequest

LEMMA LockRowOK ==
    ASSUME IInv, NEW r \in Requests, NEW t \in Tokens, LockRow(r, t)
    PROVE  IInv'
  <1>1. TypeOK'
    BY DEF LockRow, IInv, TypeOK, tokenVars, closeVars
  <1>2. /\ pc[r] = "close" /\ pc'[r] = pc[r] /\ op'[r] = op[r] /\ mine'[r] = mine[r]
        /\ holds'[r] = (IF t \in Rows THEN holds[r] \cup {t} ELSE holds[r])
        /\ left'[r] = left[r] \ {t} /\ now'[r] = now[r] /\ late'[r] = late[r]
        /\ claims'[r] = claims[r]
        /\ UNCHANGED <<clock, tokenVars, closeVars>>
        /\ \A q \in Requests \ {r} : Stays(q)
    BY DEF LockRow, IInv, TypeOK, Stays
  <1>3. \A q \in Requests \ {r} : holds[q] \cap holds'[r] = {}
    BY <1>2 DEF LockRow, Locked, IInv, LocksExclude
  <1>4. t \in Rows => session[t] # None
    BY DEF Rows, IInv, TokensOK
  <1>5. PlaceOK(r)'
    BY <1>2, <1>4 DEF IInv, PlaceOK, tokenVars
  <1>6. TimeOK(r)'
    BY <1>2 DEF IInv, TimeOK, closeVars, tokenVars
  <1>7. SnapshotOK(r)'
    BY <1>2 DEF IInv, SnapshotOK, Rows, tokenVars
  <1>. QED  BY <1>1, <1>2, <1>3, <1>5, <1>6, <1>7, OneRequest

-----------------------------------------------------------------------------
(* Steps that hand out a token, close a session, or clean up.              *)

\* A new token, with its own session or in the place of the one presented.
LEMMA StoreOK ==
    ASSUME IInv, NEW r \in Requests, NEW u \in Tokens, NEW s \in Sessions, Store(r, u, s),
           pc[r] # "idle",
           \/ mine[r] = None /\ \A t \in Tokens : session[t] # s
           \/ /\ mine[r] \in Tokens /\ mine[r] \in holds[r] /\ s = session[mine[r]]
              /\ status[mine[r]] = "live"
    PROVE  IInv'
  <1>. DEFINE p == mine[r]
  <1>1. /\ status[u] = "fresh" /\ session[u] = None /\ parent[u] = None
        /\ p # u /\ p \in Tokens \cup {None} /\ s # None
    BY SessionsAssumption DEF Store, IInv, TypeOK, TokensOK
  <1>2. /\ status'[u] = "live" /\ session'[u] = s /\ issued'[u] = now[r] /\ parent'[u] = p
        /\ \A t \in Tokens \ {u} :
            /\ status'[t] = IF t = p THEN "revoked" ELSE status[t]
            /\ session'[t] = session[t] /\ issued'[t] = issued[t] /\ parent'[t] = parent[t]
        /\ closedUntil' = closedUntil /\ closedAt' = closedAt
        /\ accessRevoked' = accessRevoked
    BY DEF Store, closeVars, IInv, TypeOK
  <1>3. End(r)
    BY DEF Store
  <1>4. /\ clock' = clock /\ PlaceOK(r)' /\ TimeOK(r)' /\ SnapshotOK(r)' /\ LocksExclude'
        /\ \A q \in Requests \ {r} : Stays(q)
    BY <1>3, EndTypes
  <1>5. now[r] \in Nat /\ now[r] <= clock /\ clock <= now[r] + Patience
    BY DEF IInv, TypeOK, TimeOK
  <1>. HIDE DEF p
  <1>6. TypeOK' /\ clock' > 0
    <2>1. status' \in [Tokens -> {"fresh", "live", "revoked", "gone"}]
      BY DEF Store, IInv, TypeOK
    <2>2. session' \in [Tokens -> Sessions \cup {None}]
      BY DEF Store, IInv, TypeOK
    <2>3. issued' \in [Tokens -> Nat] /\ parent' \in [Tokens -> Tokens \cup {None}]
      BY DEF Store, IInv, TypeOK
    <2>4. UNCHANGED <<clock, closedUntil, closedAt, accessRevoked>>
      BY <1>2, <1>4
    <2>5. /\ clock \in Nat /\ clock > 0 /\ accessRevoked \in SUBSET Tokens
          /\ closedUntil \in [Sessions -> Nat] /\ closedAt \in [Sessions -> Nat]
      BY DEF IInv, TypeOK
    <2>6. /\ op' \in [Requests -> {"none", "login", "refresh", "logout"}]
          /\ pc' \in [Requests -> {"idle", "lock", "write", "close"}]
          /\ mine' \in [Requests -> Tokens \cup {None}]
          /\ claims' \in [Requests -> Tokens \cup {None}]
          /\ now' \in [Requests -> Nat]
          /\ holds' \in [Requests -> SUBSET Tokens]
          /\ left' \in [Requests -> SUBSET Tokens]
          /\ late' \in [Requests -> BOOLEAN]
      BY <1>3, EndTypes
    <2>. QED  BY <2>1, <2>2, <2>3, <2>4, <2>5, <2>6 DEF TypeOK
  \* Nobody was handed out for p before.
  <1>7. \A t \in Tokens : p # None => parent[t] # p
    BY <1>1 DEF IInv, TokensOK, p
  <1>8. \A t \in Tokens : parent[t] # u
    BY <1>1, SessionsAssumption DEF IInv, TokensOK
  <1>9. TokensOK'
    <2>1. ASSUME NEW t \in Tokens, t # u
          PROVE  /\ status'[t] = "fresh" <=> session'[t] = None
                 /\ status'[t] = "fresh" => parent'[t] = None
      <3>1. t = p => status[t] = "live"
        BY SessionsAssumption DEF p
      <3>. QED  BY <1>2, <2>1, <3>1 DEF IInv, TokensOK
    <2>2. ASSUME NEW t \in Tokens, t # u, parent'[t] # None
          PROVE  /\ session'[parent'[t]] = session'[t]
                 /\ status'[parent'[t]] \in {"revoked", "gone"}
      <3>1. parent'[t] = parent[t] /\ parent[t] \in Tokens \ {u}
        BY <1>2, <1>8, <2>2 DEF IInv, TypeOK
      <3>2. session[parent[t]] = session[t] /\ status[parent[t]] \in {"revoked", "gone"}
        BY <2>2, <3>1 DEF IInv, TokensOK
      <3>. QED  BY <1>2, <2>2, <3>1, <3>2
    <2>3. p # None => session'[p] = s /\ status'[p] = "revoked"
      BY <1>1, <1>2 DEF p
    <2>. QED  BY <1>1, <1>2, <2>1, <2>2, <2>3 DEF TokensOK
  <1>10. OneHeir'
    <2>1. \A t, v \in Tokens : parent'[t] = parent'[v] /\ parent'[t] # None => t = v
      BY <1>2, <1>7 DEF IInv, OneHeir
    <2>2. \A t \in Tokens : parent'[t] # None => session'[parent'[t]] = session'[t]
      BY <1>9 DEF TokensOK
    <2>. QED  BY <2>1, <2>2 DEF OneHeir
  <1>11. OneUsableToken'
    <2>1. ASSUME NEW t \in Tokens, t # u, status'[t] = "live"
          PROVE  session'[t] # s
      <3>1. status[t] = "live" /\ session'[t] = session[t] /\ t # p
        BY <1>2, <2>1
      <3>. QED  BY <3>1 DEF IInv, OneUsableToken, p
    <2>. QED  BY <1>2, <2>1 DEF IInv, OneUsableToken
  <1>12. OnlyRacersSurvive'
    <2>1. closedAt[s] # 0 => issued'[u] + 2 * Patience >= closedAt[s]
      <3>1. closedAt[s] \in Nat /\ (closedAt[s] # 0 => closedAt[s] <= clock)
        BY DEF IInv, TypeOK, ClosingOK
      <3>. QED  BY <1>2, <1>5, <3>1, SessionsAssumption DEF IInv, TypeOK
    <2>2. \A t \in Tokens \ {u} : status'[t] = "live" => status[t] = "live"
      BY <1>2
    <2>. QED  BY <1>2, <2>1, <2>2 DEF IInv, OnlyRacersSurvive
  <1>13. \A c \in Sessions : ClosingOK(c)'
    BY <1>2, <1>4 DEF IInv, ClosingOK
  <1>14. ASSUME NEW q \in Requests \ {r}
         PROVE  PlaceOK(q)' /\ TimeOK(q)' /\ SnapshotOK(q)'
    <2>1. Stays(q)
      BY <1>4
    <2>2. \A t \in holds[q] : t \in Tokens /\ t # u /\ t # p
      BY <1>1, SessionsAssumption DEF IInv, TypeOK, PlaceOK, LocksExclude, p
    <2>3. /\ \A t \in holds[q] : session[t] # None
          /\ op[q] \in {"refresh", "logout"} => mine[q] \in Tokens /\ session[mine[q]] # None
      BY DEF IInv, PlaceOK
    <2>4. op[q] \in {"refresh", "logout"} =>
             mine[q] # u /\ session'[mine[q]] = session[mine[q]]
      BY <1>1, <1>2, <2>3
    <2>5. \A t \in holds[q] : session'[t] = session[t] /\ status'[t] = status[t]
      BY <1>2, <2>2
    <2>6. PlaceOK(q)'
      BY <2>1, <2>3, <2>4, <2>5 DEF Stays, IInv, PlaceOK
    <2>7. TimeOK(q)'
      BY <1>2, <1>4, <2>1, <2>4 DEF Stays, IInv, TimeOK
    <2>8. SnapshotOK(q)'
      <3>1. SUFFICES ASSUME pc[q] = "close", NEW t \in Tokens, status'[t] = "live",
                            session'[t] = session'[mine[q]]
                     PROVE  t \in holds[q] \cup left[q] \/ issued'[t] + Patience >= now[q]
        BY <2>1 DEF Stays, SnapshotOK
      <3>2. session'[mine[q]] = session[mine[q]]
        BY <2>4, <3>1 DEF IInv, PlaceOK
      <3>3. CASE t = u
        <4>1. now[q] \in Nat /\ now[q] <= clock /\ clock \in Nat
          BY <3>1 DEF IInv, TypeOK, TimeOK
        <4>2. now[r] + Patience >= now[q]
          BY <1>5, <4>1, SessionsAssumption
        <4>. QED  BY <1>2, <3>3, <4>2
      <3>4. CASE t # u
        <4>1. status[t] = "live" /\ session[t] = session[mine[q]] /\ issued'[t] = issued[t]
          BY <1>2, <3>1, <3>2, <3>4
        <4>. QED  BY <3>1, <4>1 DEF IInv, SnapshotOK
      <3>. QED  BY <3>3, <3>4
    <2>. QED  BY <2>6, <2>7, <2>8
  <1>. QED
    BY <1>4, <1>6, <1>9, <1>10, <1>11, <1>12, <1>13, <1>14 DEF IInv

LEMMA CommitLoginOK ==
    ASSUME IInv, NEW r \in Requests, CommitLogin(r)
    PROVE  IInv'
  <1>1. mine[r] = None /\ pc[r] # "idle"
    BY DEF CommitLogin, IInv, PlaceOK
  <1>. QED  BY <1>1, StoreOK DEF CommitLogin

LEMMA RotateOK ==
    ASSUME IInv, NEW r \in Requests, Rotate(r)
    PROVE  IInv'
  <1>1. /\ mine[r] \in Tokens /\ mine[r] \in holds[r] /\ status[mine[r]] = "live"
        /\ session[mine[r]] # None /\ pc[r] # "idle"
    BY DEF Rotate, IInv, PlaceOK
  <1>2. session[mine[r]] \in Sessions
    BY <1>1 DEF IInv, TypeOK
  <1>. QED  BY <1>1, <1>2, StoreOK DEF Rotate

LEMMA CloseOK ==
    ASSUME IInv, NEW r \in Requests, Close(r)
    PROVE  IInv'
  <1>. DEFINE s == session[mine[r]]
  <1>1. /\ pc[r] = "close" /\ left[r] = {} /\ EndWithout(r, holds[r]) /\ End(r)
        /\ op[r] \in {"refresh", "logout"}
        /\ \A t \in holds[r] : t \in Tokens /\ session[t] # None
        /\ s \in Sessions
        /\ now[r] \in Nat /\ now[r] <= clock /\ clock <= now[r] + Patience
    BY DEF Close, EndWithout, IInv, TypeOK, PlaceOK, TimeOK
  <1>2. /\ \A t \in Tokens : status'[t] = IF t \in holds[r] THEN "revoked" ELSE status[t]
        /\ session' = session /\ issued' = issued /\ parent' = parent
    BY <1>1 DEF EndWithout
  <1>3. /\ closedUntil'[s] = Later(closedUntil[s], now[r] + RefreshTTL)
        /\ closedAt'[s] = IF closedAt[s] = 0 THEN clock ELSE closedAt[s]
        /\ \A c \in Sessions \ {s} : closedUntil'[c] = closedUntil[c] /\ closedAt'[c] = closedAt[c]
    BY <1>1 DEF Close, IInv, TypeOK
  <1>4. /\ clock' = clock /\ PlaceOK(r)' /\ TimeOK(r)' /\ SnapshotOK(r)' /\ LocksExclude'
        /\ \A q \in Requests \ {r} : Stays(q)
    BY <1>1, EndTypes
  <1>5. closedUntil[s] \in Nat /\ closedAt[s] \in Nat /\ clock \in Nat /\ clock > 0
    BY <1>1 DEF IInv, TypeOK
  <1>6. /\ Later(closedUntil[s], now[r] + RefreshTTL) \in Nat
        /\ Later(closedUntil[s], now[r] + RefreshTTL) >= closedUntil[s]
        /\ Later(closedUntil[s], now[r] + RefreshTTL) >= now[r] + RefreshTTL
    BY <1>1, <1>5, SessionsAssumption DEF Later
  <1>7. closedUntil' \in [Sessions -> Nat] /\ closedAt' \in [Sessions -> Nat]
    BY <1>1, <1>5, <1>6 DEF Close, IInv, TypeOK
  <1>8. TypeOK' /\ clock' > 0
    <2>1. status' \in [Tokens -> {"fresh", "live", "revoked", "gone"}]
      BY <1>1 DEF EndWithout, IInv, TypeOK
    <2>2. accessRevoked' \subseteq Tokens
      BY DEF Close, IInv, TypeOK, PlaceOK
    <2>. QED  BY <1>1, <1>2, <1>7, <2>1, <2>2, EndTypes DEF IInv, TypeOK
  <1>. HIDE DEF s
  <1>9. TokensOK'
    BY <1>1, <1>2 DEF IInv, TypeOK, TokensOK
  <1>10. OneHeir' /\ OneUsableToken'
    BY <1>2 DEF IInv, OneHeir, OneUsableToken
  <1>11. \A c \in Sessions : ClosingOK(c)'
    <2>1. SUFFICES ASSUME NEW c \in Sessions, closedAt'[c] # 0
                   PROVE  /\ closedAt'[c] <= clock
                          /\ \/ closedUntil'[c] >= closedAt'[c] + Patience + AccessTTL
                             \/ clock >= closedAt'[c] + Patience + AccessTTL
      BY <1>4 DEF ClosingOK
    <2>2. ClosingOK(c)
      BY DEF IInv
    <2>3. CASE c # s
      BY <1>3, <2>1, <2>2, <2>3 DEF ClosingOK
    <2>4. CASE c = s /\ closedAt[s] # 0
      <3>1. closedUntil'[s] \in Nat /\ closedUntil'[s] >= closedUntil[s]
        BY <1>3, <1>6
      <3>2. closedAt'[s] = closedAt[s] /\ closedAt[s] + Patience + AccessTTL \in Nat
        BY <1>3, <1>5, <2>4, SessionsAssumption
      <3>. QED  BY <1>5, <2>2, <2>4, <3>1, <3>2 DEF ClosingOK
    <2>5. CASE c = s /\ closedAt[s] = 0
      <3>1. closedUntil'[s] \in Nat /\ closedUntil'[s] >= now[r] + RefreshTTL
        BY <1>3, <1>6
      <3>2. now[r] + RefreshTTL >= clock + Patience + AccessTTL
        BY <1>1, <1>5, SessionsAssumption
      <3>3. closedAt'[s] = clock
        BY <1>3, <2>5
      <3>. QED  BY <1>1, <1>5, <2>5, <3>1, <3>2, <3>3, SessionsAssumption
    <2>. QED  BY <2>3, <2>4, <2>5
  \* What the closing has not seen is young, what it has seen is revoked.
  <1>12. OnlyRacersSurvive'
    <2>1. SUFFICES ASSUME NEW t \in Tokens, status'[t] = "live", closedAt'[session[t]] # 0
                   PROVE  issued[t] + 2 * Patience >= closedAt'[session[t]]
      BY <1>2 DEF OnlyRacersSurvive
    <2>2. status[t] = "live" /\ t \notin holds[r]
      BY <1>2, <2>1
    <2>3. session[t] \in Sessions
      BY <2>2, RowHasSession DEF Rows
    <2>4. CASE session[t] = s /\ closedAt[s] = 0
      <3>1. issued[t] + Patience >= now[r]
        BY <1>1, <2>2, <2>4 DEF IInv, SnapshotOK, s
      <3>2. issued[t] \in Nat
        BY DEF IInv, TypeOK
      <3>. QED  BY <1>1, <1>3, <1>5, <2>4, <3>1, <3>2, SessionsAssumption
    <2>5. CASE ~(session[t] = s /\ closedAt[s] = 0)
      <3>1. closedAt'[session[t]] = closedAt[session[t]]
        BY <1>3, <2>3, <2>5
      <3>. QED  BY <2>1, <2>2, <3>1 DEF IInv, OnlyRacersSurvive
    <2>. QED  BY <2>4, <2>5
  <1>13. ASSUME NEW q \in Requests \ {r}
         PROVE  PlaceOK(q)' /\ TimeOK(q)' /\ SnapshotOK(q)'
    <2>1. Stays(q)
      BY <1>4
    <2>2. \A t \in holds[q] : status'[t] = status[t]
      BY <1>2 DEF IInv, TypeOK, LocksExclude
    <2>3. \A c \in Sessions : closedUntil'[c] >= closedUntil[c]
      BY <1>3, <1>6 DEF IInv, TypeOK
    <2>4. \A t \in Tokens : status'[t] = "live" => status[t] = "live"
      BY <1>2
    <2>. QED  BY <1>2, <1>4, <1>7, <2>1, <2>2, <2>3, <2>4, BystanderOK
  <1>. QED
    BY <1>4, <1>8, <1>9, <1>10, <1>11, <1>12, <1>13 DEF IInv

LEMMA CleanOK ==
    ASSUME IInv, Clean
    PROVE  IInv'
  <1>1. PICK deadRows \in SUBSET ExpiredRows, deadAccess \in SUBSET ExpiredAccess,
             reopened \in SUBSET ExpiredClosings :
            /\ status' = [t \in Tokens |-> IF t \in deadRows THEN "gone" ELSE status[t]]
            /\ accessRevoked' = accessRevoked \ deadAccess
            /\ closedUntil' = [s \in Sessions |-> IF s \in reopened THEN 0 ELSE closedUntil[s]]
            /\ UNCHANGED <<clock, session, issued, parent, closedAt, requestVars>>
    BY DEF Clean
  <1>2. /\ UNCHANGED <<clock, session, issued, parent, closedAt>>
        /\ UNCHANGED <<op, pc, mine, claims, now, holds, left, late>>
    BY <1>1 DEF requestVars
  <1>3. \A t \in deadRows : t \in Rows /\ \A q \in Requests : t \notin holds[q]
    BY SessionsAssumption DEF ExpiredRows, Locked
  <1>4. \A t \in Tokens : status'[t] = IF t \in deadRows THEN "gone" ELSE status[t]
    BY <1>1
  <1>5. TypeOK' /\ clock' > 0
    BY <1>1, <1>2 DEF IInv, TypeOK
  <1>6. TokensOK'
    <2>1. \A t \in deadRows : session[t] # None
      BY <1>3, RowHasSession
    <2>. QED  BY <1>2, <1>4, <2>1 DEF IInv, TypeOK, TokensOK
  <1>7. OneHeir' /\ OneUsableToken'
    BY <1>2, <1>4 DEF IInv, OneHeir, OneUsableToken
  <1>8. OnlyRacersSurvive' /\ LocksExclude'
    BY <1>2, <1>4 DEF IInv, OnlyRacersSurvive, LocksExclude
  \* A closing is forgotten only when it has outlived every access token.
  <1>9. \A s \in reopened : closedUntil[s] <= clock
    BY DEF ExpiredClosings
  <1>10. ASSUME NEW s \in Sessions
         PROVE  ClosingOK(s)'
    <2>1. closedUntil'[s] = IF s \in reopened THEN 0 ELSE closedUntil[s]
      BY <1>1
    <2>2. /\ closedAt[s] \in Nat /\ closedUntil[s] \in Nat /\ clock \in Nat
          /\ closedAt[s] + Patience + AccessTTL \in Nat
      BY SessionsAssumption DEF IInv, TypeOK
    <2>3. ClosingOK(s)
      BY DEF IInv
    <2>. QED  BY <1>2, <1>9, <2>1, <2>2, <2>3 DEF ClosingOK
  <1>11. ASSUME NEW q \in Requests
         PROVE  PlaceOK(q)' /\ TimeOK(q)' /\ SnapshotOK(q)'
    <2>1. PlaceOK(q)'
      <3>1. \A t \in holds[q] : status'[t] = status[t]
        BY <1>3, <1>4 DEF IInv, TypeOK
      <3>. QED  BY <1>2, <3>1 DEF IInv, PlaceOK
    <2>2. TimeOK(q)'
      <3>1. ASSUME late[q]
            PROVE  closedUntil'[session[mine[q]]] = closedUntil[session[mine[q]]]
        <4>1. /\ pc[q] = "lock" /\ op[q] = "refresh"
              /\ closedUntil[session[mine[q]]] > now[q] + Patience
              /\ clock <= now[q] + Patience
          BY <3>1 DEF IInv, TimeOK
        <4>2. session[mine[q]] \in Sessions
          BY <4>1 DEF IInv, PlaceOK, TypeOK
        <4>3. /\ closedUntil[session[mine[q]]] \in Nat /\ clock \in Nat
              /\ now[q] + Patience \in Nat
          BY <4>2, SessionsAssumption DEF IInv, TypeOK
        <4>. QED  BY <1>1, <1>9, <4>1, <4>2, <4>3
      <3>. QED  BY <1>2, <3>1 DEF IInv, TimeOK
    <2>3. SnapshotOK(q)'
      BY <1>2, <1>4 DEF IInv, SnapshotOK
    <2>. QED  BY <2>1, <2>2, <2>3
  <1>. QED  BY <1>5, <1>6, <1>7, <1>8, <1>10, <1>11 DEF IInv

LEMMA TickOK ==
    ASSUME IInv, Tick
    PROVE  IInv'
  <1>1. /\ clock' = clock + 1 /\ clock \in Nat
        /\ UNCHANGED <<status, session, issued, parent, closedUntil, closedAt, accessRevoked>>
        /\ UNCHANGED <<op, pc, mine, claims, now, holds, left, late>>
    BY DEF Tick, tokenVars, closeVars, requestVars, IInv, TypeOK
  <1>2. TypeOK' /\ clock' > 0
    BY <1>1 DEF IInv, TypeOK
  <1>3. TokensOK' /\ OneHeir' /\ OneUsableToken' /\ OnlyRacersSurvive' /\ LocksExclude'
    BY <1>1 DEF IInv, TokensOK, OneHeir, OneUsableToken, OnlyRacersSurvive, LocksExclude
  <1>4. ASSUME NEW s \in Sessions
        PROVE  ClosingOK(s)'
    BY <1>1, SessionsAssumption DEF IInv, TypeOK, ClosingOK
  <1>5. ASSUME NEW q \in Requests
        PROVE  PlaceOK(q)' /\ TimeOK(q)' /\ SnapshotOK(q)'
    <2>1. PlaceOK(q)' /\ SnapshotOK(q)'
      BY <1>1 DEF IInv, PlaceOK, SnapshotOK
    <2>2. TimeOK(q)'
      <3>1. pc[q] # "idle" => now[q] \in Nat /\ now[q] <= clock /\ clock < now[q] + Patience
        BY DEF Tick, IInv, TypeOK, TimeOK
      <3>. QED  BY <1>1, <3>1, SessionsAssumption DEF IInv, TimeOK
    <2>. QED  BY <2>1, <2>2
  <1>. QED  BY <1>2, <1>3, <1>4, <1>5 DEF IInv

LEMMA NextOK ==
    ASSUME IInv, [Next]_vars
    PROVE  IInv'
  <1>1. CASE UNCHANGED vars
    BY <1>1
    DEF vars, tokenVars, closeVars, requestVars, IInv, TypeOK, TokensOK, OneHeir,
        OneUsableToken, PlaceOK, TimeOK, SnapshotOK, LocksExclude, ClosingOK,
        OnlyRacersSurvive
  <1>2. ASSUME NEW r \in Requests, Work(r)
        PROVE  IInv'
    BY <1>2, CommitLoginOK, EmptyHandedOK, ExpireOK, PassOK, RotateOK, StartCloseOK,
       LockRowOK, CloseOK DEF Work
  <1>. QED
    BY <1>1, <1>2, ArriveOK, EmptyHandedOK, CleanOK, TickOK DEF Next

LEMMA Inductive == Spec => []IInv
  BY InitOK, NextOK, PTL DEF Spec

-----------------------------------------------------------------------------
(* What follows.                                                           *)

\* A closing outlives the access tokens that were out when it was made: while
\* one of them is valid the row of revoked_sessions is still there.
LEMMA ClosingCovers == IInv => ClosedSessionAdmitsNobody
  <1>. SUFFICES ASSUME IInv, NEW t \in Tokens, NEW n \in 1..clock,
                       session[t] # None, closedAt[session[t]] # 0,
                       issued[t] <= closedAt[session[t]], n >= closedAt[session[t]],
                       clock <= n + Patience, Admits(t, n)
                PROVE  FALSE
    BY DEF ClosedSessionAdmitsNobody
  <1>1. session[t] \in Sessions
    BY DEF IInv, TypeOK
  <1>2. ClosingOK(session[t])
    BY <1>1 DEF IInv
  <1>3. n < issued[t] + AccessTTL /\ closedUntil[session[t]] <= n
    BY <1>1 DEF Admits, Valid, Closed, IInv, TypeOK
  <1>. QED  BY <1>1, <1>2, <1>3, SessionsAssumption DEF ClosingOK, IInv, TypeOK

LEMMA LateGetsNoPair == IInv => ClosedSessionGivesNoPair
  BY DEF IInv, TimeOK, ClosedSessionGivesNoPair

\* If everybody waits, whoever holds a row waits too, and only closings wait
\* with rows in their hands.
LEMMA OnlyClosingsWait == IInv => SomebodyMoves
  <1>. SUFFICES ASSUME IInv, \A r \in Requests : pc[r] # "idle" => Waits(r),
                       NEW r \in Requests, pc[r] # "idle"
                PROVE  \E waiting \in SUBSET Requests : Circle(waiting)
    BY DEF SomebodyMoves
  <1>. DEFINE W == {q \in Requests : pc[q] = "close"}
  \* Whoever holds a row is closing, as a writer does not wait.
  <1>1. \A q \in Requests : holds[q] # {} => q \in W
    BY DEF IInv, TypeOK, PlaceOK, Waits
  <1>2. \A q \in W : left[q] # {} /\ \A t \in left[q] : Locked(t, q)
    BY DEF Waits
  <1>3. \A q \in W : \A t \in left[q] : \E v \in W \ {q} : t \in holds[v]
    BY <1>1, <1>2 DEF Locked
  <1>4. W # {}
    BY <1>1 DEF Waits, Locked
  <1>5. Circle(W)
    BY <1>2, <1>3, <1>4 DEF Circle
  <1>. QED  BY <1>5

\* However many requests present a refresh token at the same time, it is
\* exchanged once, within its session, and a session has one token that can
\* still be exchanged (AuthService::refresh, find_refresh_token_for_update).
THEOREM TokensAreSound == Spec => []TokensSound
  <1>1. IInv => TokensSound
    BY DEF IInv, TokensSound
  <1>. QED  BY <1>1, Inductive, PTL

\* A closed session stays closed, whatever requests cross the closing and
\* whatever the cleanup forgets (revoke_session, JwtFilter::authenticate).
THEOREM ClosingsHold == Spec => []ClosingHolds
  <1>1. IInv => ClosingHolds
    BY ClosingCovers, LateGetsNoPair DEF IInv, ClosingHolds
  <1>. QED  BY <1>1, Inductive, PTL

\* Requests wait for each other in a circle only while they close a session,
\* row by row: the database breaks that one, and there is no other.
THEOREM OnlyClosingsDeadlock == Spec => []SomebodyMoves
  BY OnlyClosingsWait, Inductive, PTL

=============================================================================
