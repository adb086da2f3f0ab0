----------------------------- MODULE Idempotency ----------------------------
(***************************************************************************)
(* Idempotent writes: the table request_idempotency, the statements that   *)
(* every protected use case runs around its business write, and the        *)
(* cleanup of expired keys.                                                *)
(*                                                                         *)
(* A request is one attempt that reaches the service; a caller that        *)
(* retries sends another one with the same key.  Its transaction runs      *)
(* under READ COMMITTED: every statement takes a new snapshot, and one     *)
(* that meets a row changed by an open transaction waits for its end and   *)
(* then looks at that row again.  A statement that may wait is therefore   *)
(* two steps: what its snapshot shows (kept in target), and what it does   *)
(* once it may go on.                                                      *)
(***************************************************************************)
EXTENDS Naturals, FiniteSets

CONSTANTS Requests, Keys, Prints, NoRequest, Lifetime, Skew, MaxTime,
    BatchSize    \* rows that one cleanup deletes at most

ASSUME IdempotencyAssumption ==
    /\ NoRequest \notin Requests
    /\ Lifetime \in Nat \ {0} /\ Skew \in Nat /\ MaxTime \in Nat
    /\ BatchSize \in Nat \ {0}

VARIABLES
    now,       \* the database clock
    row,       \* the committed row of a key: the request that wrote it
    writer,    \* the request whose open transaction deleted or inserted the row
    pc, key, print, created,
    target,    \* the row in the snapshot of the running statement
    effects, made, answer

tableVars == <<row, writer>>
requestVars == <<key, print>>
resultVars == <<effects, made, answer>>
vars == <<now, tableVars, pc, requestVars, created, target, resultVars>>

Open == {"begin", "dropping", "inserting", "looking", "locking", "working"}

TypeOK ==
    /\ now \in Nat
    /\ row \in [Keys -> Requests \cup {NoRequest}]
    /\ writer \in [Keys -> Requests \cup {NoRequest}]
    /\ pc \in [Requests -> Open \cup {"new", "done", "failed"}]
    /\ key \in [Requests -> Keys]
    /\ print \in [Requests -> Prints]
    /\ created \in [Requests -> Nat]
    /\ target \in [Requests -> Requests \cup {NoRequest}]
    /\ effects \subseteq Requests
    /\ made \in [Requests -> Nat]
    /\ answer \in [Requests -> Requests \cup {NoRequest}]
    /\ \A k \in Keys : writer[k] # NoRequest =>
          key[writer[k]] = k /\ pc[writer[k]] \in {"inserting", "working"}

Init ==
    /\ now = 0
    /\ row = [k \in Keys |-> NoRequest]
    /\ writer = [k \in Keys |-> NoRequest]
    /\ pc = [p \in Requests |-> "new"]
    /\ key \in [Requests -> Keys]
    /\ print \in [Requests -> Prints]
    /\ created = [p \in Requests |-> 0]
    /\ target = [p \in Requests |-> NoRequest]
    /\ effects = {}
    /\ made = [p \in Requests |-> 0]
    /\ answer = [p \in Requests |-> NoRequest]

-----------------------------------------------------------------------------

\* Mutation: the time of the request is compared with created_at.
AtOnce(q, t) == created[q] <= t

\* expires_at <= t, for the row that q wrote.
Expired(q, t) == created[q] + Lifetime <= t

\* No other transaction has changed the row of p's key.
Mine(p) == writer[key[p]] \in {NoRequest, p}

\* Mutation: the fingerprint is not looked at.
AnyPrint(p, q) == TRUE

SameRequest(p, q) == print[p] = print[q]

\* Mutation: the transaction stays open.
NoRelease(p) == UNCHANGED writer

\* The end of p's transaction, commit or rollback.
Release(p) ==
    writer' = [writer EXCEPT ![key[p]] = IF @ = p THEN NoRequest ELSE @]

\* A server receives the request and stamps it with its own clock.
Arrive(p) ==
    /\ pc[p] = "new"
    /\ pc' = [pc EXCEPT ![p] = "begin"]
    /\ \E t \in 0 .. (now + Skew) :
        /\ now <= t + Skew
        /\ created' = [created EXCEPT ![p] = t]
    /\ UNCHANGED <<now, tableVars, requestVars, target, resultVars>>

\* DELETE ... WHERE expires_at <= created_at: the snapshot of the statement.
FindExpired(p) ==
    /\ pc[p] = "begin"
    /\ LET q == row[key[p]]
       IN  IF q # NoRequest /\ Expired(q, created[p])
           THEN /\ target' = [target EXCEPT ![p] = q]
                /\ pc' = [pc EXCEPT ![p] = "dropping"]
           ELSE /\ pc' = [pc EXCEPT ![p] = "inserting"]
                /\ UNCHANGED target
    /\ UNCHANGED <<now, tableVars, requestVars, created, resultVars>>

\* ... and its effect; a row that is gone by now is no longer looked for.
DropExpired(p) ==
    /\ pc[p] = "dropping"
    /\ Mine(p)
    /\ pc' = [pc EXCEPT ![p] = "inserting"]
    /\ writer' = [writer EXCEPT ![key[p]] =
                    IF row[key[p]] = target[p] THEN p ELSE @]
    /\ UNCHANGED <<now, row, requestVars, created, target, resultVars>>

\* INSERT ... ON CONFLICT DO NOTHING waits for whoever deletes or inserts the
\* key; then the row is there, or it is inserted.
Insert(p) ==
    /\ pc[p] = "inserting"
    /\ Mine(p)
    /\ IF row[key[p]] = NoRequest \/ writer[key[p]] = p
       THEN /\ writer' = [writer EXCEPT ![key[p]] = p]
            /\ pc' = [pc EXCEPT ![p] = "working"]
       ELSE /\ pc' = [pc EXCEPT ![p] = "looking"]
            /\ UNCHANGED writer
    /\ UNCHANGED <<now, row, requestVars, created, target, resultVars>>

\* SELECT ... FOR UPDATE of a row that another request inserted.
Look(p) ==
    /\ pc[p] = "looking"
    /\ row[key[p]] # NoRequest
    /\ target' = [target EXCEPT ![p] = row[key[p]]]
    /\ pc' = [pc EXCEPT ![p] = "locking"]
    /\ UNCHANGED <<now, tableVars, requestVars, created, resultVars>>

\* The same request is answered with the stored response.
Replay(p) ==
    /\ pc[p] = "locking"
    /\ Mine(p)
    /\ row[key[p]] = target[p]
    /\ SameRequest(p, target[p])
    /\ answer' = [answer EXCEPT ![p] = target[p]]
    /\ pc' = [pc EXCEPT ![p] = "done"]
    /\ UNCHANGED <<now, tableVars, requestVars, created, target, effects, made>>

\* "Idempotency row could not be locked", or the key belongs to another request.
Reject(p) ==
    /\ \/ pc[p] = "looking" /\ row[key[p]] = NoRequest
       \/ /\ pc[p] = "locking"
          /\ Mine(p)
          /\ row[key[p]] # target[p] \/ ~SameRequest(p, target[p])
    /\ pc' = [pc EXCEPT ![p] = "failed"]
    /\ UNCHANGED <<now, tableVars, requestVars, created, target, resultVars>>

\* The business write, complete and the commit; the reply may get lost.
Commit(p) ==
    /\ pc[p] = "working"
    /\ row' = [row EXCEPT ![key[p]] = p]
    /\ Release(p)
    /\ effects' = effects \cup {p}
    /\ made' = [made EXCEPT ![p] = now]
    /\ \/ pc' = [pc EXCEPT ![p] = "done"] /\ answer' = [answer EXCEPT ![p] = p]
       \/ pc' = [pc EXCEPT ![p] = "failed"] /\ UNCHANGED answer
    /\ UNCHANGED <<now, requestVars, created, target>>

\* The business write is refused, a statement fails or the process dies.
RollBack(p) ==
    /\ pc[p] \in Open
    /\ pc' = [pc EXCEPT ![p] = "failed"]
    /\ Release(p)
    /\ UNCHANGED <<now, row, requestVars, created, target, resultVars>>

-----------------------------------------------------------------------------
(* pfh_cleanup_expired_request_idempotency.                                *)

\* Mutation: a row is not yet expired when its time comes.
DoomedLate == {k \in Keys : /\ row[k] # NoRequest /\ writer[k] = NoRequest
                            /\ created[row[k]] + Lifetime < now}

\* Expired rows that no transaction has locked.
Doomed == {k \in Keys : row[k] # NoRequest /\ writer[k] = NoRequest /\ Expired(row[k], now)}

\* A batch of the oldest ones.
CleanUp ==
    \E K \in SUBSET Doomed :
        /\ K # {}
        /\ Cardinality(K) <= BatchSize
        /\ K # Doomed => Cardinality(K) = BatchSize
        /\ \A k \in K, j \in Doomed \ K : created[row[k]] <= created[row[j]]
        /\ row' = [k \in Keys |-> IF k \in K THEN NoRequest ELSE row[k]]
        /\ UNCHANGED <<now, writer, pc, requestVars, created, target, resultVars>>

\* Bound: MaxTime.
Tick ==
    /\ now < MaxTime
    /\ now' = now + 1
    /\ UNCHANGED <<tableVars, pc, requestVars, created, target, resultVars>>

Advance(p) ==
    \/ FindExpired(p) \/ DropExpired(p) \/ Insert(p)
    \/ Look(p) \/ Replay(p) \/ Reject(p) \/ Commit(p)

Next ==
    \/ \E p \in Requests : Arrive(p) \/ Advance(p) \/ RollBack(p)
    \/ CleanUp
    \/ Tick

Spec == Init /\ [][Next]_vars

\* While requests can go on, one of them does; the cleanup job comes around.
Fairness == WF_vars(CleanUp) /\ WF_vars(\E p \in Requests : Advance(p))

FairSpec == Spec /\ Fairness

-----------------------------------------------------------------------------
(* Properties.                                                             *)

\* A committed row belongs to a committed business write: the key of a request
\* that failed is free again, and nobody meets a row that is in progress.
RowsHaveEffects ==
    \A k \in Keys : row[k] # NoRequest => row[k] \in effects /\ key[row[k]] = k

\* An answer is the result of a committed write of the same key and the same
\* request, whichever attempts, retries and cleanups crossed.
AnswersFit ==
    \A p \in Requests : answer[p] # NoRequest =>
        LET q == answer[p]
        IN  q \in effects /\ key[q] = key[p] /\ print[q] = print[p]

\* Two business writes of one key lie at least a lifetime apart, less the
\* clock skew: no retry within the lifetime writes again.
EffectsApart ==
    \A p, q \in effects : (p # q /\ key[p] = key[q]) =>
        \/ created[p] + Lifetime <= made[q] + Skew
        \/ created[q] + Lifetime <= made[p] + Skew

\* One key has one write at a time, and its answer is that of this write.
AnswersSound == TypeOK /\ RowsHaveEffects /\ AnswersFit /\ EffectsApart

\* Every request that has arrived ends: nobody waits for a key for ever.
RequestsEnd == []<>(\A p \in Requests : pc[p] \in {"new", "done", "failed"})

\* An expired row goes away although batches are bounded and locked rows are
\* skipped.
ExpiredRowsGo ==
    \A q \in Requests : (row[key[q]] = q /\ Expired(q, now)) ~> row[key[q]] # q

\* The table keeps the promise of OncePerKey.
Promise == INSTANCE OncePerKey WITH memory <- row
PromiseSpec == Promise!Spec

=============================================================================
