------------------------------- MODULE Outbox -------------------------------
(***************************************************************************)
(* The transactional outbox: rows of domain_events_outbox, the publishers  *)
(* that claim, deliver and mark them, the handlers that leave a receipt,   *)
(* and the operator who retries a dead letter.                             *)
(*                                                                         *)
(* Every action is one database statement or transaction, or one local     *)
(* step between two of them.  Publishers of several hosts interleave       *)
(* freely; a publisher may crash anywhere, a statement may fail, and a     *)
(* statement may take effect although its caller is told that it failed.   *)
(* The database clock appears only as the two facts the SQL derives from   *)
(* it: a row is due, and the lease of a row has expired.                   *)
(***************************************************************************)
EXTENDS Naturals, FiniteSets

CONSTANTS
    Messages,    \* outbox ids; the order of the numbers is that of created_at
    Publishers,  \* worker ids, one per process running OutboxPublisher
    Handlers,    \* handlers of the event bus, in registration order
    Subscribed,  \* Subscribed[m]: the handlers whose handles(event_name) is true
    MaxRetry,    \* max_retry_count of every row
    BatchSize,   \* OutboxPublisherConfig::batch_size
    AuditBatch,  \* OutboxPublisherConfig::dead_letter_audit_batch_size
    RetryKeys,   \* idempotency keys an operator uses for dead-letter retries
    MaxFaults    \* bound on crashes, failed statements and lost replies

ASSUME OutboxAssumption ==
    /\ Messages \subseteq Nat \ {0}
    /\ Handlers \subseteq Nat \ {0}
    /\ Subscribed \in [Messages -> SUBSET Handlers]
    /\ MaxRetry \in Nat \ {0}
    /\ BatchSize \in Nat \ {0}
    /\ AuditBatch \in Nat
    /\ IsFiniteSet(RetryKeys)
    /\ MaxFaults \in Nat

NoMessage == 0          \* no row
NoToken == 0            \* claim_token IS NULL
DeadLetterReceipt == 0  \* receipt name of the dead-letter handler

ReceiptNames == Handlers \cup {DeadLetterReceipt}

VARIABLES
    \* table domain_events_outbox
    status, retry_count,
    due,          \* next_retry_at <= NOW()
    expired,      \* locked_at <= NOW() - processing_timeout
    claim_token,
    claims,       \* claims made so far; the k-th gen_random_uuid() of a row is k
    \* tables outbox_handler_receipts, audit_logs, outbox_retry_commands
    receipts, audits, commands,
    \* one run_once per publisher
    pc, audit_queue, held, current, todo,
    faults

rowVars == <<status, retry_count, due, expired, claim_token, claims>>
storeVars == <<receipts, audits>>
runVars == <<pc, audit_queue, held, current, todo>>
vars == <<rowVars, storeVars, commands, runVars, faults>>

Statuses == {"none", "pending", "processing", "published", "failed", "dead_letter"}
Places == {"idle", "auditing", "recovered", "loop", "handling", "failing", "burying"}

TypeOK ==
    /\ status \in [Messages -> Statuses]
    /\ retry_count \in [Messages -> 0..MaxRetry]
    /\ due \in [Messages -> BOOLEAN]
    /\ expired \in [Messages -> BOOLEAN]
    /\ claim_token \in [Messages -> Nat]
    /\ claims \in [Messages -> Nat]
    /\ receipts \subseteq Messages \X ReceiptNames
    /\ audits \in [Messages \X ReceiptNames -> Nat]
    /\ commands \in [RetryKeys -> Messages \cup {NoMessage}]
    /\ pc \in [Publishers -> Places]
    /\ audit_queue \in [Publishers -> SUBSET Messages]
    /\ held \in [Publishers -> [Messages -> Nat]]
    /\ current \in [Publishers -> Messages \cup {NoMessage}]
    /\ todo \in [Publishers -> SUBSET Handlers]
    /\ faults \in 0..MaxFaults

Init ==
    /\ status = [m \in Messages |-> "none"]
    /\ retry_count = [m \in Messages |-> 0]
    /\ due = [m \in Messages |-> FALSE]
    /\ expired = [m \in Messages |-> FALSE]
    /\ claim_token = [m \in Messages |-> NoToken]
    /\ claims = [m \in Messages |-> 0]
    /\ receipts = {}
    /\ audits = [r \in Messages \X ReceiptNames |-> 0]
    /\ commands = [k \in RetryKeys |-> NoMessage]
    /\ pc = [p \in Publishers |-> "idle"]
    /\ audit_queue = [p \in Publishers |-> {}]
    /\ held = [p \in Publishers |-> [m \in Messages |-> NoToken]]
    /\ current = [p \in Publishers |-> NoMessage]
    /\ todo = [p \in Publishers |-> {}]
    /\ faults = 0

-----------------------------------------------------------------------------
(* Helpers.                                                                *)

\* ORDER BY created_at LIMIT n over the rows S.
FirstOf(S, n) == {m \in S : Cardinality({k \in S : k < m}) < n}

\* h is the handler of S that was registered first.
IsFirst(h, S) == h \in S /\ \A k \in S : h <= k

\* gen_random_uuid(): a token no claim of the row ever had.
\* Mutation: every claim of a row carries the same token.
FixedToken(m) == 1
FreshToken(m) == claims[m] + 1

\* Mutation: the audit row is written although the receipt is there.
AppendAlways(m, name) ==
    /\ receipts' = receipts \cup {<<m, name>>}
    /\ audits' = [audits EXCEPT ![<<m, name>>] = @ + 1]

\* ISupplementalAuditStore::append_once: receipt and audit row in one
\* transaction, nothing when the receipt is already there.
AppendOnce(m, name) ==
    /\ receipts' = receipts \cup {<<m, name>>}
    /\ audits' = [audits EXCEPT ![<<m, name>>] =
                      IF <<m, name>> \in receipts THEN @ ELSE @ + 1]

\* Mutation: WHERE id = m AND status = 'processing'.
OwnsRow(p, m) == status[m] = "processing"

\* WHERE id = m AND status = 'processing' AND claim_token = held token.
OwnsClaim(p, m) ==
    /\ status[m] = "processing"
    /\ claim_token[m] = held[p][m]

Fault == faults < MaxFaults /\ faults' = faults + 1

\* run_once returns: whatever the run still held in memory is gone.
EndRun(p) ==
    /\ pc' = [pc EXCEPT ![p] = "idle"]
    /\ audit_queue' = [audit_queue EXCEPT ![p] = {}]
    /\ held' = [held EXCEPT ![p] = [m \in Messages |-> NoToken]]
    /\ current' = [current EXCEPT ![p] = NoMessage]
    /\ todo' = [todo EXCEPT ![p] = {}]

\* The loop of run_once leaves message m and goes on with the batch.
NextInBatch(p, m) ==
    /\ pc' = [pc EXCEPT ![p] = "loop"]
    /\ held' = [held EXCEPT ![p][m] = NoToken]
    /\ current' = [current EXCEPT ![p] = NoMessage]
    /\ UNCHANGED <<audit_queue, todo>>

-----------------------------------------------------------------------------
(* The producer side and the clock.                                        *)

\* A business transaction commits with its event: the row appears, due now.
Emit(m) ==
    /\ status[m] = "none"
    /\ status' = [status EXCEPT ![m] = "pending"]
    /\ due' = [due EXCEPT ![m] = TRUE]
    /\ UNCHANGED <<retry_count, expired, claim_token, claims, storeVars,
                   commands, runVars, faults>>

\* Database time reaches next_retry_at.
RetryTimeComes(m) ==
    /\ status[m] = "failed"
    /\ ~due[m]
    /\ due' = [due EXCEPT ![m] = TRUE]
    /\ UNCHANGED <<status, retry_count, expired, claim_token, claims, storeVars,
                   commands, runVars, faults>>

\* Database time passes locked_at + processing_timeout.
LeaseExpires(m) ==
    /\ status[m] = "processing"
    /\ ~expired[m]
    /\ expired' = [expired EXCEPT ![m] = TRUE]
    /\ UNCHANGED <<status, retry_count, due, claim_token, claims, storeVars,
                   commands, runVars, faults>>

-----------------------------------------------------------------------------
(* One run of a publisher.                                                 *)

\* The run begins by listing dead letters without a dead-letter receipt.
StartRun(p) ==
    /\ pc[p] = "idle"
    /\ pc' = [pc EXCEPT ![p] = "auditing"]
    /\ audit_queue' = [audit_queue EXCEPT ![p] =
           FirstOf({m \in Messages : /\ status[m] = "dead_letter"
                                     /\ <<m, DeadLetterReceipt>> \notin receipts},
                   AuditBatch)]
    /\ UNCHANGED <<rowVars, storeVars, commands, held, current, todo, faults>>

\* audit_dead_letter for one listed or recovered message.
AuditDeadLetter(p, m) ==
    /\ pc[p] \in {"auditing", "recovered"}
    /\ m \in audit_queue[p]
    /\ audit_queue' = [audit_queue EXCEPT ![p] = @ \ {m}]
    /\ AppendOnce(m, DeadLetterReceipt)
    /\ UNCHANGED <<rowVars, commands, pc, held, current, todo, faults>>

\* The audit write fails; audit_dead_letter only counts the failure.
AuditFails(p, m) ==
    /\ pc[p] \in {"auditing", "recovered"}
    /\ m \in audit_queue[p]
    /\ Fault
    /\ audit_queue' = [audit_queue EXCEPT ![p] = @ \ {m}]
    /\ UNCHANGED <<rowVars, storeVars, commands, pc, held, current, todo>>

\* Mutation: expired leases are never recovered.
NoStaleBatches == {{}}

\* Rows whose lease expired, at most a batch of them, the oldest lease first
\* (the order of locked_at is left open).
StaleBatches ==
    LET stale == {m \in Messages : status[m] = "processing" /\ expired[m]}
    IN  {R \in SUBSET stale :
            \/ R = stale /\ Cardinality(R) <= BatchSize
            \/ Cardinality(R) = BatchSize}

\* Mutation: one retry too many.
ExhaustedLate(m) == retry_count[m] >= MaxRetry

\* The failure that is being recorded uses up the last retry.
Exhausted(m) == retry_count[m] + 1 >= MaxRetry

\* The transaction of claim_due: recover the stale rows R, then claim the
\* oldest due rows, those just recovered included, under fresh tokens.
RecoverAndClaim(p, R) ==
    LET dead  == {m \in R : Exhausted(m)}
        ready == {m \in Messages : status[m] \in {"pending", "failed"} /\ due[m]}
        batch == FirstOf(ready \cup (R \ dead), BatchSize)
    IN
    /\ status' = [m \in Messages |->
           IF m \in batch THEN "processing"
           ELSE IF m \in dead THEN "dead_letter"
           ELSE IF m \in R THEN "failed" ELSE status[m]]
    /\ retry_count' = [m \in Messages |->
           IF m \in dead THEN MaxRetry
           ELSE IF m \in R THEN retry_count[m] + 1 ELSE retry_count[m]]
    /\ due' = [m \in Messages |-> due[m] \/ m \in R]
    /\ expired' = [m \in Messages |-> expired[m] /\ m \notin R]
    /\ claim_token' = [m \in Messages |->
           IF m \in batch THEN FreshToken(m)
           ELSE IF m \in R THEN NoToken ELSE claim_token[m]]
    /\ claims' = [m \in Messages |->
           IF m \in batch THEN claims[m] + 1 ELSE claims[m]]
    /\ held' = [held EXCEPT ![p] =
           [m \in Messages |-> IF m \in batch THEN FreshToken(m) ELSE NoToken]]
    /\ audit_queue' = [audit_queue EXCEPT ![p] = dead]

\* claim_due, once the dead letters listed at the start were audited.
ClaimDue(p) ==
    /\ pc[p] = "auditing"
    /\ audit_queue[p] = {}
    /\ \E R \in StaleBatches : RecoverAndClaim(p, R)
    /\ pc' = [pc EXCEPT ![p] = "recovered"]
    /\ UNCHANGED <<storeVars, commands, current, todo, faults>>

\* All recovered dead letters were audited: the loop over the batch begins.
BeginLoop(p) ==
    /\ pc[p] = "recovered"
    /\ audit_queue[p] = {}
    /\ pc' = [pc EXCEPT ![p] = "loop"]
    /\ UNCHANGED <<rowVars, storeVars, commands, audit_queue, held, current,
                   todo, faults>>

\* The next claimed message is handed to the event bus, which takes its
\* snapshot of the matching handlers.
TakeMessage(p, m) ==
    /\ pc[p] = "loop"
    /\ held[p][m] # NoToken
    /\ pc' = [pc EXCEPT ![p] = "handling"]
    /\ current' = [current EXCEPT ![p] = m]
    /\ todo' = [todo EXCEPT ![p] = Subscribed[m]]
    /\ UNCHANGED <<rowVars, storeVars, commands, audit_queue, held, faults>>

\* The batch is exhausted and the run returns its summary.
FinishRun(p) ==
    /\ pc[p] = "loop"
    /\ \A m \in Messages : held[p][m] = NoToken
    /\ EndRun(p)
    /\ UNCHANGED <<rowVars, storeVars, commands, faults>>

\* The next handler succeeds and leaves its receipt.
HandlerSucceeds(p) ==
    /\ pc[p] = "handling"
    /\ \E h \in Handlers :
        /\ IsFirst(h, todo[p])
        /\ AppendOnce(current[p], h)
        /\ todo' = [todo EXCEPT ![p] = @ \ {h}]
    /\ UNCHANGED <<rowVars, commands, pc, audit_queue, held, current, faults>>

\* Mutation: the failure of a handler is swallowed.
HandlerFailureSwallowed(p) ==
    /\ pc[p] = "handling"
    /\ todo[p] # {}
    /\ todo' = [todo EXCEPT ![p] = {}]
    /\ UNCHANGED <<rowVars, storeVars, commands, pc, audit_queue, held, current, faults>>

\* The next handler fails or throws: the bus stops at the first failure.
HandlerFails(p) ==
    /\ pc[p] = "handling"
    /\ todo[p] # {}
    /\ pc' = [pc EXCEPT ![p] = "failing"]
    /\ todo' = [todo EXCEPT ![p] = {}]
    /\ UNCHANGED <<rowVars, storeVars, commands, audit_queue, held, current, faults>>

\* The handler's transaction commits, but the handler is told that it failed.
HandlerFailsAfterCommit(p) ==
    /\ pc[p] = "handling"
    /\ Fault
    /\ \E h \in Handlers : IsFirst(h, todo[p]) /\ AppendOnce(current[p], h)
    /\ pc' = [pc EXCEPT ![p] = "failing"]
    /\ todo' = [todo EXCEPT ![p] = {}]
    /\ UNCHANGED <<rowVars, commands, audit_queue, held, current>>

\* UPDATE ... SET status = 'published' of mark_published.
SetPublished(m) ==
    /\ status' = [status EXCEPT ![m] = "published"]
    /\ expired' = [expired EXCEPT ![m] = FALSE]
    /\ claim_token' = [claim_token EXCEPT ![m] = NoToken]
    /\ UNCHANGED <<retry_count, due, claims>>

\* mark_published under the current claim.
MarkPublished(p) ==
    /\ pc[p] = "handling"
    /\ todo[p] = {}
    /\ OwnsClaim(p, current[p])
    /\ SetPublished(current[p])
    /\ NextInBatch(p, current[p])
    /\ UNCHANGED <<storeVars, commands, faults>>

\* UPDATE ... of mark_failed: one more retry, scheduled in the future.
SetFailed(m) ==
    /\ retry_count' = [retry_count EXCEPT ![m] =
                          IF Exhausted(m) THEN MaxRetry ELSE @ + 1]
    /\ status' = [status EXCEPT ![m] =
                     IF Exhausted(m) THEN "dead_letter" ELSE "failed"]
    /\ due' = [due EXCEPT ![m] = FALSE]
    /\ expired' = [expired EXCEPT ![m] = FALSE]
    /\ claim_token' = [claim_token EXCEPT ![m] = NoToken]
    /\ UNCHANGED claims

\* mark_failed under the current claim; a dead letter is audited next.
MarkFailed(p) ==
    /\ pc[p] = "failing"
    /\ OwnsClaim(p, current[p])
    /\ SetFailed(current[p])
    /\ IF Exhausted(current[p])
       THEN /\ pc' = [pc EXCEPT ![p] = "burying"]
            /\ UNCHANGED <<audit_queue, held, current, todo>>
       ELSE NextInBatch(p, current[p])
    /\ UNCHANGED <<storeVars, commands, faults>>

\* audit_dead_letter for the message mark_failed just buried.
AuditBuried(p) ==
    /\ pc[p] = "burying"
    /\ \/ AppendOnce(current[p], DeadLetterReceipt) /\ UNCHANGED faults
       \/ Fault /\ UNCHANGED storeVars
    /\ NextInBatch(p, current[p])
    /\ UNCHANGED <<rowVars, commands>>

\* The claim was lost to another publisher: the mark changes no row, and its
\* Conflict ends the whole run, the rest of the batch included.
MarkConflicts(p) ==
    /\ \/ pc[p] = "handling" /\ todo[p] = {}
       \/ pc[p] = "failing"
    /\ ~OwnsClaim(p, current[p])
    /\ EndRun(p)
    /\ UNCHANGED <<rowVars, storeVars, commands, faults>>

\* The mark is reported as failed, whether or not it took effect.
MarkErrors(p) ==
    /\ \/ pc[p] = "handling" /\ todo[p] = {}
       \/ pc[p] = "failing"
    /\ Fault
    /\ \/ UNCHANGED rowVars
       \/ /\ OwnsClaim(p, current[p])
          /\ IF pc[p] = "handling" THEN SetPublished(current[p])
                                   ELSE SetFailed(current[p])
    /\ EndRun(p)
    /\ UNCHANGED <<storeVars, commands>>

\* The publisher's process dies; the job starts again from nothing.
Crash(p) ==
    /\ pc[p] # "idle"
    /\ Fault
    /\ EndRun(p)
    /\ UNCHANGED <<rowVars, storeVars, commands>>

-----------------------------------------------------------------------------
(* The operator.                                                           *)

\* retry_dead_letter under a key that was never used.  A used key only
\* replays, a row that is not dead-lettered is refused: neither changes a row.
RetryDeadLetter(k, m) ==
    /\ commands[k] = NoMessage
    /\ status[m] = "dead_letter"
    /\ commands' = [commands EXCEPT ![k] = m]
    /\ status' = [status EXCEPT ![m] = "failed"]
    /\ retry_count' = [retry_count EXCEPT ![m] = 0]
    /\ due' = [due EXCEPT ![m] = TRUE]
    /\ UNCHANGED <<expired, claim_token, claims, storeVars, runVars, faults>>

-----------------------------------------------------------------------------

\* What a publisher does when nothing goes wrong around it.
Progress(p) ==
    \/ StartRun(p) \/ ClaimDue(p) \/ BeginLoop(p) \/ FinishRun(p)
    \/ \E m \in Messages : AuditDeadLetter(p, m) \/ TakeMessage(p, m)
    \/ HandlerSucceeds(p) \/ HandlerFails(p)
    \/ MarkPublished(p) \/ MarkFailed(p) \/ AuditBuried(p) \/ MarkConflicts(p)

Disturbance(p) ==
    \/ \E m \in Messages : AuditFails(p, m)
    \/ HandlerFailsAfterCommit(p) \/ MarkErrors(p) \/ Crash(p)

Clock == \E m \in Messages : RetryTimeComes(m) \/ LeaseExpires(m)

Next ==
    \/ \E m \in Messages : Emit(m)
    \/ Clock
    \/ \E p \in Publishers : Progress(p) \/ Disturbance(p)
    \/ \E k \in RetryKeys, m \in Messages : RetryDeadLetter(k, m)

Spec == Init /\ [][Next]_vars

\* The timer of OutboxPublisherJob starts run after run, a run that is not
\* disturbed goes on, and the database clock advances.
FairSpec ==
    /\ Spec
    /\ \A p \in Publishers : WF_vars(Progress(p))
    /\ WF_vars(Clock)

-----------------------------------------------------------------------------
(* Properties.                                                             *)

\* Operator retries that revived message m.
Revivals(m) == Cardinality({k \in RetryKeys : commands[k] = m})

\* Every claim of a row is accounted for exactly once: it raised retry_count
\* (by a failure or by an expired lease), or it published the row, or it is
\* still running.  A mark that comes after the claim was lost, a lost claim
\* that costs no retry, or a retry counted twice breaks the equation (recovery
\* in claim_due, mark_published, mark_failed, retry_dead_letter).
ClaimAccounting ==
    \A m \in Messages :
        claims[m] = MaxRetry * Revivals(m) + retry_count[m]
                    + (IF status[m] \in {"processing", "published"} THEN 1 ELSE 0)

\* No two publishers ever hold the same claim of the same row, although a
\* publisher may go on working long after its claim was recovered by another
\* (FOR UPDATE SKIP LOCKED and the fresh token of each claim).
ClaimsExclusive ==
    \A p, q \in Publishers : \A m \in Messages :
        (p # q /\ held[p][m] = held[q][m]) => held[p][m] = NoToken

\* Claims are sound: every claim is settled and counted once, and none is shared.
ClaimsSound == TypeOK /\ ClaimAccounting /\ ClaimsExclusive

\* A published event was handled by each of its handlers, and the supplemental
\* audit of each handler was written once, however often the event was
\* delivered again after a lost lease or a lost reply (receipt and audit commit
\* together; mark_published comes after the bus has run every handler).
DeliveredExactlyOnce ==
    \A m \in Messages : status[m] = "published" =>
        \A h \in Subscribed[m] : audits[<<m, h>>] = 1

\* A row is a dead letter exactly when its retries are used up, whichever of
\* mark_failed, lease recovery or the operator's retry moved it last.
DeadLetterIffExhausted ==
    \A m \in Messages : status[m] = "dead_letter" <=> retry_count[m] = MaxRetry

\* No step of a publisher takes a row out of published or dead_letter: a
\* publication is final and a dead letter leaves only by the operator's command.
ResolvedIsFinal ==
    [][\A m \in Messages :
          /\ status[m] = "published" => status'[m] = "published"
          /\ (status[m] = "dead_letter" /\ status'[m] # "dead_letter") =>
                \E k \in RetryKeys : commands[k] = NoMessage /\ commands'[k] = m]_vars

\* While its lease lasts, a claim is settled by the publisher that holds it and
\* by nobody else: a mark under an older claim of the same row, which another
\* publisher claimed again, changes nothing (claim_token in the WHERE clauses).
SettledByHolder ==
    [][\A m \in Messages :
          (status[m] = "processing" /\ ~expired[m] /\ status'[m] # "processing") =>
              \E p \in Publishers : /\ held[p][m] = claim_token[m]
                                    /\ current[p] = m
                                    /\ pc'[p] # pc[p]]_vars

\* Message m has come to rest: published, or buried and its burial on record.
AtRest(m) ==
    \/ status[m] = "published"
    \/ status[m] = "dead_letter" /\ audits[<<m, DeadLetterReceipt>>] > 0

\* Nothing is left lying.  Every event that was committed is in the end
\* published, or dead-lettered with an audit, although handlers may always fail
\* and leases may always expire, although the audit that follows a burial may
\* fail or its publisher die before it (audit_unhandled_dead_letters of a later
\* run), and although an operator may revive a dead letter in between.
Resolves == \A m \in Messages : status[m] # "none" ~> AtRest(m)

\* The promise of the outbox, without publishers, claims and leases.
phase == [m \in Messages |->
    IF status[m] \in {"pending", "processing", "failed"} THEN "queued" ELSE status[m]]

Delivery == INSTANCE OutboxDelivery WITH
    phase <- phase, handled <- {r \in receipts : r[2] \in Handlers}

\* The publishers implement that promise.
DeliverySpec == Delivery!Spec

=============================================================================
