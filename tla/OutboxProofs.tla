---------------------------- MODULE OutboxProofs ----------------------------
(***************************************************************************)
(* Proofs about Outbox, for any number of events, publishers, handlers,    *)
(* retries, operator commands and faults.                                  *)
(***************************************************************************)
EXTENDS Outbox, FiniteSetTheorems, TLAPS

\* A row has a token exactly while it is processing (chk_outbox_processing_lease),
\* no token outruns the claims that were made, and only an event
\* that was committed is ever claimed.
LeaseShape ==
    \A m \in Messages :
        /\ status[m] = "processing" <=> claim_token[m] # NoToken
        /\ claim_token[m] <= claims[m]
        /\ status[m] = "none" => claims[m] = 0
        /\ \A p \in Publishers : held[p][m] <= claims[m]

\* The audit log holds one entry per receipt.
OneAuditPerReceipt ==
    \A r \in Messages \X ReceiptNames : audits[r] = IF r \in receipts THEN 1 ELSE 0

\* Inside the loop a message is at hand, one that was claimed at some time;
\* the handlers no longer to do have left their receipts.
HandledSoFar ==
    \A p \in Publishers :
        /\ pc[p] \in {"handling", "failing", "burying"} =>
              current[p] \in Messages /\ claims[current[p]] > 0
        /\ pc[p] = "handling" =>
              /\ todo[p] \subseteq Subscribed[current[p]]
              /\ \A h \in Subscribed[current[p]] :
                    h \in todo[p] \/ <<current[p], h>> \in receipts

\* Every handler of a published event has left its receipt.
PublishedHasReceipts ==
    \A m \in Messages : status[m] = "published" =>
        \A h \in Subscribed[m] : <<m, h>> \in receipts

IInv ==
    /\ TypeOK
    /\ LeaseShape
    /\ ClaimsExclusive
    /\ DeadLetterIffExhausted
    /\ ClaimAccounting
    /\ OneAuditPerReceipt
    /\ HandledSoFar
    /\ PublishedHasReceipts

-----------------------------------------------------------------------------
(* Type correctness.                                                       *)

\* A batch is taken from the rows that qualify.
LEMMA FirstOfSubset == \A S, n : FirstOf(S, n) \subseteq S
  BY DEF FirstOf

LEMMA TypeInit == Init => TypeOK
  BY OutboxAssumption
  DEF Init, TypeOK, Statuses, Places, NoToken, NoMessage, ReceiptNames, DeadLetterReceipt

\* The variables of a run that ends stay well typed.
LEMMA EndRunTyped ==
  ASSUME TypeOK, NEW p \in Publishers, EndRun(p)
  PROVE  /\ pc' \in [Publishers -> Places]
         /\ audit_queue' \in [Publishers -> SUBSET Messages]
         /\ held' \in [Publishers -> [Messages -> Nat]]
         /\ current' \in [Publishers -> Messages \cup {NoMessage}]
         /\ todo' \in [Publishers -> SUBSET Handlers]
  BY DEF TypeOK, EndRun, Places, NoToken, NoMessage

LEMMA NextInBatchTyped ==
  ASSUME TypeOK, NEW p \in Publishers, NEW m \in Messages, NextInBatch(p, m)
  PROVE  /\ pc' \in [Publishers -> Places]
         /\ audit_queue' \in [Publishers -> SUBSET Messages]
         /\ held' \in [Publishers -> [Messages -> Nat]]
         /\ current' \in [Publishers -> Messages \cup {NoMessage}]
         /\ todo' \in [Publishers -> SUBSET Handlers]
  BY DEF TypeOK, NextInBatch, Places, NoToken, NoMessage

LEMMA AppendOnceTyped ==
  ASSUME TypeOK, NEW m \in Messages, NEW n \in ReceiptNames, AppendOnce(m, n)
  PROVE  /\ receipts' \subseteq Messages \X ReceiptNames
         /\ audits' \in [Messages \X ReceiptNames -> Nat]
  BY DEF TypeOK, AppendOnce

LEMMA SetPublishedTyped ==
  ASSUME TypeOK, NEW m \in Messages, SetPublished(m)
  PROVE  /\ status' \in [Messages -> Statuses]
         /\ retry_count' \in [Messages -> 0..MaxRetry]
         /\ due' \in [Messages -> BOOLEAN]
         /\ expired' \in [Messages -> BOOLEAN]
         /\ claim_token' \in [Messages -> Nat]
         /\ claims' \in [Messages -> Nat]
  BY DEF TypeOK, SetPublished, Statuses, NoToken

LEMMA SetFailedTyped ==
  ASSUME TypeOK, NEW m \in Messages, SetFailed(m)
  PROVE  /\ status' \in [Messages -> Statuses]
         /\ retry_count' \in [Messages -> 0..MaxRetry]
         /\ due' \in [Messages -> BOOLEAN]
         /\ expired' \in [Messages -> BOOLEAN]
         /\ claim_token' \in [Messages -> Nat]
         /\ claims' \in [Messages -> Nat]
  <1>1. retry_count' \in [Messages -> 0..MaxRetry]
    BY OutboxAssumption DEF TypeOK, SetFailed, Exhausted
  <1>2. QED
    BY <1>1 DEF TypeOK, SetFailed, Statuses, NoToken

\* current[p] is a message wherever the run is inside the loop: the part of
\* HandledSoFar that typing needs.
LEMMA TypeStep ==
  ASSUME TypeOK, HandledSoFar, [Next]_vars
  PROVE  TypeOK'
<1>1. CASE UNCHANGED vars
  BY <1>1 DEF TypeOK, vars, rowVars, storeVars, runVars
<1>2. ASSUME NEW m \in Messages, Emit(m) \/ RetryTimeComes(m) \/ LeaseExpires(m)
      PROVE  TypeOK'
  BY <1>2 DEF TypeOK, Emit, RetryTimeComes, LeaseExpires, Statuses, storeVars, runVars
<1>3. ASSUME NEW k \in RetryKeys, NEW m \in Messages, RetryDeadLetter(k, m)
      PROVE  TypeOK'
  BY <1>3, OutboxAssumption
  DEF TypeOK, RetryDeadLetter, Statuses, storeVars, runVars
<1>4. ASSUME NEW p \in Publishers, StartRun(p)
      PROVE  TypeOK'
  BY <1>4, FirstOfSubset DEF TypeOK, StartRun, Places, rowVars, storeVars
<1>5. ASSUME NEW p \in Publishers, NEW m \in Messages,
             AuditDeadLetter(p, m) \/ AuditFails(p, m)
      PROVE  TypeOK'
  <2>1. CASE AuditDeadLetter(p, m)
    <3>1. /\ receipts' \subseteq Messages \X ReceiptNames
          /\ audits' \in [Messages \X ReceiptNames -> Nat]
      BY <2>1, AppendOnceTyped DEF AuditDeadLetter, ReceiptNames
    <3>2. QED  BY <2>1, <3>1 DEF TypeOK, AuditDeadLetter, rowVars
  <2>2. CASE AuditFails(p, m)
    BY <2>2, OutboxAssumption DEF TypeOK, AuditFails, Fault, rowVars, storeVars
  <2>3. QED  BY <1>5, <2>1, <2>2
<1>6. ASSUME NEW p \in Publishers, ClaimDue(p)
      PROVE  TypeOK'
  <2>1. PICK R \in StaleBatches : RecoverAndClaim(p, R)
    BY <1>6 DEF ClaimDue
  <2>2. R \subseteq Messages
    BY DEF StaleBatches
  <2>3. retry_count' \in [Messages -> 0..MaxRetry]
    BY <2>1, <2>2, OutboxAssumption DEF TypeOK, RecoverAndClaim, Exhausted
  <2>4. due' \in [Messages -> BOOLEAN] /\ expired' \in [Messages -> BOOLEAN]
    BY <2>1 DEF TypeOK, RecoverAndClaim
  <2>5. QED
    BY <1>6, <2>1, <2>2, <2>3, <2>4
    DEF TypeOK, ClaimDue, RecoverAndClaim, FreshToken, Statuses, Places, NoToken, storeVars
<1>7. ASSUME NEW p \in Publishers, BeginLoop(p)
      PROVE  TypeOK'
  BY <1>7 DEF TypeOK, BeginLoop, Places, rowVars, storeVars
<1>8. ASSUME NEW p \in Publishers, NEW m \in Messages, TakeMessage(p, m)
      PROVE  TypeOK'
  BY <1>8, OutboxAssumption DEF TypeOK, TakeMessage, Places, rowVars, storeVars
<1>9. ASSUME NEW p \in Publishers, FinishRun(p) \/ MarkConflicts(p) \/ Crash(p)
      PROVE  TypeOK'
  <2>1. EndRun(p) /\ UNCHANGED <<rowVars, storeVars, commands>>
        /\ (faults' = faults \/ Fault)
    BY <1>9 DEF FinishRun, MarkConflicts, Crash
  <2>2. QED
    BY <2>1, EndRunTyped, OutboxAssumption DEF TypeOK, Fault, rowVars, storeVars
<1>10. ASSUME NEW p \in Publishers, HandlerSucceeds(p) \/ HandlerFailsAfterCommit(p)
       PROVE  TypeOK'
  <2>1. current[p] \in Messages
    BY <1>10 DEF HandledSoFar, HandlerSucceeds, HandlerFailsAfterCommit
  <2>2. PICK h \in Handlers : AppendOnce(current[p], h)
    BY <1>10 DEF HandlerSucceeds, HandlerFailsAfterCommit
  <2>3. /\ receipts' \subseteq Messages \X ReceiptNames
        /\ audits' \in [Messages \X ReceiptNames -> Nat]
    BY <2>1, <2>2, AppendOnceTyped DEF ReceiptNames
  <2>4. /\ todo' \in [Publishers -> SUBSET Handlers]
        /\ pc' \in [Publishers -> Places]
        /\ faults' \in 0..MaxFaults
    <3>1. CASE HandlerSucceeds(p)
      <4>1. PICK g \in Handlers : todo' = [todo EXCEPT ![p] = @ \ {g}]
        BY <3>1 DEF HandlerSucceeds
      <4>2. QED  BY <3>1, <4>1 DEF TypeOK, HandlerSucceeds
    <3>2. CASE HandlerFailsAfterCommit(p)
      BY <3>2, OutboxAssumption DEF TypeOK, HandlerFailsAfterCommit, Fault, Places
    <3>3. QED  BY <1>10, <3>1, <3>2
  <2>5. UNCHANGED <<rowVars, commands, audit_queue, held, current>>
    BY <1>10 DEF HandlerSucceeds, HandlerFailsAfterCommit
  <2>6. QED
    BY <2>3, <2>4, <2>5 DEF TypeOK, rowVars
<1>11. ASSUME NEW p \in Publishers, HandlerFails(p)
       PROVE  TypeOK'
  BY <1>11 DEF TypeOK, HandlerFails, Places, rowVars, storeVars
<1>12. ASSUME NEW p \in Publishers, MarkPublished(p)
       PROVE  TypeOK'
  <2>1. current[p] \in Messages
    BY <1>12 DEF HandledSoFar, MarkPublished
  <2>2. QED
    BY <1>12, <2>1, SetPublishedTyped, NextInBatchTyped
    DEF TypeOK, MarkPublished, storeVars
<1>13. ASSUME NEW p \in Publishers, MarkFailed(p)
       PROVE  TypeOK'
  <2>1. current[p] \in Messages
    BY <1>13 DEF HandledSoFar, MarkFailed
  <2>2. /\ pc' \in [Publishers -> Places]
        /\ audit_queue' \in [Publishers -> SUBSET Messages]
        /\ held' \in [Publishers -> [Messages -> Nat]]
        /\ current' \in [Publishers -> Messages \cup {NoMessage}]
        /\ todo' \in [Publishers -> SUBSET Handlers]
    BY <1>13, <2>1, NextInBatchTyped DEF TypeOK, MarkFailed, Places
  <2>3. QED
    BY <1>13, <2>1, <2>2, SetFailedTyped DEF TypeOK, MarkFailed, storeVars
<1>14. ASSUME NEW p \in Publishers, AuditBuried(p)
       PROVE  TypeOK'
  <2>1. current[p] \in Messages
    BY <1>14 DEF HandledSoFar, AuditBuried
  <2>2. /\ receipts' \subseteq Messages \X ReceiptNames
        /\ audits' \in [Messages \X ReceiptNames -> Nat]
    BY <1>14, <2>1, AppendOnceTyped DEF TypeOK, AuditBuried, ReceiptNames, storeVars
  <2>3. faults' \in 0..MaxFaults
    BY <1>14, OutboxAssumption DEF TypeOK, AuditBuried, Fault
  <2>4. QED
    BY <1>14, <2>1, <2>2, <2>3, NextInBatchTyped DEF TypeOK, AuditBuried, rowVars
<1>15. ASSUME NEW p \in Publishers, MarkErrors(p)
       PROVE  TypeOK'
  <2>1. current[p] \in Messages
    BY <1>15 DEF HandledSoFar, MarkErrors
  <2>2. /\ status' \in [Messages -> Statuses]
        /\ retry_count' \in [Messages -> 0..MaxRetry]
        /\ due' \in [Messages -> BOOLEAN]
        /\ expired' \in [Messages -> BOOLEAN]
        /\ claim_token' \in [Messages -> Nat]
        /\ claims' \in [Messages -> Nat]
    <3>1. CASE UNCHANGED rowVars
      BY <3>1 DEF TypeOK, rowVars
    <3>2. CASE SetPublished(current[p]) \/ SetFailed(current[p])
      BY <2>1, <3>2, SetPublishedTyped, SetFailedTyped
    <3>3. QED  BY <1>15, <3>1, <3>2 DEF MarkErrors
  <2>3. faults' \in 0..MaxFaults
    BY <1>15, OutboxAssumption DEF TypeOK, MarkErrors, Fault
  <2>4. QED
    BY <1>15, <2>2, <2>3, EndRunTyped DEF TypeOK, MarkErrors, storeVars
<1>16. QED
  BY <1>1, <1>2, <1>3, <1>4, <1>5, <1>6, <1>7, <1>8, <1>9, <1>10, <1>11,
     <1>12, <1>13, <1>14, <1>15
  DEF Next, Clock, Progress, Disturbance

-----------------------------------------------------------------------------
(* What a step does to one row, to one receipt and to the claims a run     *)
(* believes to hold.                                                       *)

Keeps(m) ==
    /\ status'[m] = status[m]
    /\ retry_count'[m] = retry_count[m]
    /\ claim_token'[m] = claim_token[m]
    /\ claims'[m] = claims[m]

Appears(m) ==
    /\ status[m] = "none"
    /\ status'[m] = "pending"
    /\ retry_count'[m] = retry_count[m]
    /\ claim_token'[m] = claim_token[m]
    /\ claims'[m] = claims[m]

Claimed(m) ==
    /\ status[m] \in {"pending", "failed"}
    /\ status'[m] = "processing"
    /\ retry_count'[m] = retry_count[m]
    /\ claim_token'[m] = claims[m] + 1
    /\ claims'[m] = claims[m] + 1

\* Given back by a failure or by an expired lease.
Released(m) ==
    /\ status[m] = "processing"
    /\ status'[m] = IF Exhausted(m) THEN "dead_letter" ELSE "failed"
    /\ retry_count'[m] = IF Exhausted(m) THEN MaxRetry ELSE retry_count[m] + 1
    /\ claim_token'[m] = NoToken
    /\ claims'[m] = claims[m]

\* Recovered and claimed again by the same claim_due.
Reclaimed(m) ==
    /\ status[m] = "processing"
    /\ status'[m] = "processing"
    /\ ~Exhausted(m)
    /\ retry_count'[m] = retry_count[m] + 1
    /\ claim_token'[m] = claims[m] + 1
    /\ claims'[m] = claims[m] + 1

Publishes(m) ==
    /\ status[m] = "processing"
    /\ status'[m] = "published"
    /\ retry_count'[m] = retry_count[m]
    /\ claim_token'[m] = NoToken
    /\ claims'[m] = claims[m]
    /\ \A h \in Subscribed[m] : <<m, h>> \in receipts

Revived(m) ==
    /\ status[m] = "dead_letter"
    /\ status'[m] = "failed"
    /\ retry_count'[m] = 0
    /\ claim_token'[m] = claim_token[m]
    /\ claims'[m] = claims[m]

\* claim_due, seen by one row.
LEMMA ClaimRow ==
  ASSUME TypeOK, NEW p \in Publishers, ClaimDue(p), NEW m \in Messages
  PROVE  Keeps(m) \/ Claimed(m) \/ Released(m) \/ Reclaimed(m)
<1>1. PICK R \in StaleBatches : RecoverAndClaim(p, R)
  BY DEF ClaimDue
<1>2. /\ R \subseteq Messages
      /\ \A k \in R : status[k] = "processing"
  BY DEF StaleBatches
<1> DEFINE dead  == {k \in R : Exhausted(k)}
           ready == {k \in Messages : status[k] \in {"pending", "failed"} /\ due[k]}
           batch == FirstOf(ready \cup (R \ dead), BatchSize)
<1>3. batch \subseteq ready \cup (R \ dead)
  BY FirstOfSubset
<1>4. /\ status'[m] = IF m \in batch THEN "processing"
                      ELSE IF m \in dead THEN "dead_letter"
                      ELSE IF m \in R THEN "failed" ELSE status[m]
      /\ retry_count'[m] = IF m \in dead THEN MaxRetry
                           ELSE IF m \in R THEN retry_count[m] + 1 ELSE retry_count[m]
      /\ claim_token'[m] = IF m \in batch THEN claims[m] + 1
                           ELSE IF m \in R THEN NoToken ELSE claim_token[m]
      /\ claims'[m] = IF m \in batch THEN claims[m] + 1 ELSE claims[m]
  BY <1>1 DEF RecoverAndClaim, FreshToken
<1>5. CASE m \in R
  <2>1. CASE m \in dead
    BY <1>2, <1>3, <1>4, <1>5, <2>1 DEF Released
  <2>2. CASE m \notin dead
    <3>1. ~Exhausted(m)
      BY <1>5, <2>2
    <3>2. CASE m \in batch
      BY <1>2, <1>4, <1>5, <2>2, <3>1, <3>2 DEF Reclaimed
    <3>3. CASE m \notin batch
      BY <1>2, <1>4, <1>5, <2>2, <3>1, <3>3 DEF Released
    <3>4. QED  BY <3>2, <3>3
  <2>3. QED  BY <2>1, <2>2
<1>6. CASE m \notin R /\ m \in batch
  <2>1. m \in ready
    BY <1>3, <1>6
  <2>2. QED  BY <1>4, <1>6, <2>1 DEF Claimed
<1>7. CASE m \notin R /\ m \notin batch
  BY <1>4, <1>7 DEF Keeps
<1>8. QED  BY <1>5, <1>6, <1>7

\* The two UPDATEs of a mark, seen by one row.
LEMMA MarkRow ==
  ASSUME TypeOK, NEW n \in Messages, status[n] = "processing",
         \/ SetPublished(n) /\ \A h \in Subscribed[n] : <<n, h>> \in receipts
         \/ SetFailed(n),
         NEW m \in Messages
  PROVE  Keeps(m) \/ Publishes(m) \/ Released(m)
<1>1. CASE m # n
  BY <1>1 DEF TypeOK, SetPublished, SetFailed, Keeps
<1>2. CASE m = n
  BY <1>2 DEF TypeOK, SetPublished, SetFailed, Publishes, Released
<1>3. QED  BY <1>1, <1>2

\* Every step of the system, seen by one row; only the operator's command
\* changes which commands name the row.
LEMMA RowStep ==
  ASSUME TypeOK, HandledSoFar, [Next]_vars, NEW m \in Messages
  PROVE  \/ /\ \A k \in RetryKeys : commands'[k] = m <=> commands[k] = m
            /\ \/ Keeps(m) \/ Appears(m) \/ Claimed(m) \/ Released(m)
               \/ Reclaimed(m) \/ Publishes(m)
         \/ /\ Revived(m)
            /\ \E k \in RetryKeys : /\ commands[k] = NoMessage
                                    /\ commands' = [commands EXCEPT ![k] = m]
<1>1. CASE UNCHANGED <<rowVars, commands>>
  BY <1>1 DEF Keeps, rowVars
<1>2. CASE \E n \in Messages : Emit(n) \/ RetryTimeComes(n) \/ LeaseExpires(n)
  BY <1>2 DEF TypeOK, Emit, RetryTimeComes, LeaseExpires, Keeps, Appears
<1>3. CASE \E k \in RetryKeys, n \in Messages : RetryDeadLetter(k, n)
  <2>1. PICK k \in RetryKeys, n \in Messages : RetryDeadLetter(k, n)
    BY <1>3
  <2>2. CASE n = m
    BY <2>1, <2>2 DEF TypeOK, RetryDeadLetter, Revived
  <2>3. CASE n # m
    <3>1. \A j \in RetryKeys : commands'[j] = m <=> commands[j] = m
      BY <2>1, <2>3, OutboxAssumption DEF TypeOK, RetryDeadLetter, NoMessage
    <3>2. QED  BY <2>1, <2>3, <3>1 DEF TypeOK, RetryDeadLetter, Keeps
  <2>4. QED  BY <2>2, <2>3
<1>4. CASE \E p \in Publishers : ClaimDue(p)
  <2>1. UNCHANGED commands
    BY <1>4 DEF ClaimDue
  <2>2. QED  BY <1>4, <2>1, ClaimRow
<1>5. CASE \E p \in Publishers : MarkPublished(p) \/ MarkFailed(p) \/ MarkErrors(p)
  <2>1. PICK p \in Publishers : MarkPublished(p) \/ MarkFailed(p) \/ MarkErrors(p)
    BY <1>5
  <2>2. UNCHANGED commands
    BY <2>1 DEF MarkPublished, MarkFailed, MarkErrors
  <2>3. current[p] \in Messages
    BY <2>1 DEF HandledSoFar, MarkPublished, MarkFailed, MarkErrors
  <2>4. \/ UNCHANGED rowVars
        \/ /\ status[current[p]] = "processing"
           /\ \/ SetFailed(current[p])
              \/ SetPublished(current[p]) /\ pc[p] = "handling" /\ todo[p] = {}
    BY <2>1 DEF MarkPublished, MarkFailed, MarkErrors, OwnsClaim
  <2>5. (pc[p] = "handling" /\ todo[p] = {}) =>
          \A h \in Subscribed[current[p]] : <<current[p], h>> \in receipts
    BY DEF HandledSoFar
  <2>6. CASE UNCHANGED rowVars
    BY <2>2, <2>6 DEF Keeps, rowVars
  <2>7. CASE ~UNCHANGED rowVars
    BY <2>2, <2>3, <2>4, <2>5, <2>7, MarkRow
  <2>8. QED  BY <2>6, <2>7
<1>6. QED
  BY <1>1, <1>2, <1>3, <1>4, <1>5
  DEF Next, Clock, Progress, Disturbance, vars, StartRun, AuditDeadLetter, AuditFails,
      BeginLoop, TakeMessage, FinishRun, HandlerSucceeds, HandlerFails,
      HandlerFailsAfterCommit, AuditBuried, MarkConflicts, Crash

\* Every step, seen by the audit log: nothing, or one append_once.
LEMMA StoreStep ==
  ASSUME TypeOK, HandledSoFar, [Next]_vars
  PROVE  \/ UNCHANGED storeVars
         \/ \E m \in Messages, n \in ReceiptNames : AppendOnce(m, n)
<1>1. ASSUME NEW p \in Publishers,
             HandlerSucceeds(p) \/ HandlerFailsAfterCommit(p) \/ AuditBuried(p)
      PROVE  \/ UNCHANGED storeVars
             \/ \E m \in Messages, n \in ReceiptNames : AppendOnce(m, n)
  <2>1. current[p] \in Messages
    BY <1>1 DEF HandledSoFar, HandlerSucceeds, HandlerFailsAfterCommit, AuditBuried
  <2>2. UNCHANGED storeVars \/ \E n \in ReceiptNames : AppendOnce(current[p], n)
    BY <1>1 DEF HandlerSucceeds, HandlerFailsAfterCommit, AuditBuried, ReceiptNames
  <2>3. QED  BY <2>1, <2>2
<1>2. ASSUME NEW p \in Publishers, NEW m \in Messages, AuditDeadLetter(p, m)
      PROVE  \E n \in ReceiptNames : AppendOnce(m, n)
  BY <1>2 DEF AuditDeadLetter, ReceiptNames
<1>3. QED
  BY <1>1, <1>2
  DEF Next, Clock, Progress, Disturbance, vars, Emit, RetryTimeComes, LeaseExpires,
      StartRun, AuditFails, ClaimDue, BeginLoop, TakeMessage, FinishRun, HandlerFails,
      MarkPublished, MarkFailed, MarkConflicts, MarkErrors, Crash, RetryDeadLetter

\* Every step, seen by the claims on row m that the runs believe to hold: each
\* keeps or drops its own, or one of them gets the fresh claim of the row.
LEMMA HeldStep ==
  ASSUME TypeOK, HandledSoFar, [Next]_vars, NEW m \in Messages
  PROVE  \/ \A q \in Publishers : held'[q][m] \in {held[q][m], NoToken}
         \/ \E p \in Publishers :
               /\ held'[p][m] = claims[m] + 1
               /\ claims'[m] = claims[m] + 1
               /\ \A q \in Publishers \ {p} : held'[q][m] = held[q][m]
<1>1. ASSUME NEW p \in Publishers, ClaimDue(p)
      PROVE  /\ \A q \in Publishers \ {p} : held'[q][m] = held[q][m]
             /\ \/ held'[p][m] = NoToken
                \/ held'[p][m] = claims[m] + 1 /\ claims'[m] = claims[m] + 1
  <2>1. PICK R \in StaleBatches : RecoverAndClaim(p, R)
    BY <1>1 DEF ClaimDue
  <2>2. QED  BY <2>1 DEF TypeOK, RecoverAndClaim, FreshToken
<1>2. ASSUME NEW p \in Publishers, EndRun(p)
      PROVE  \A q \in Publishers : held'[q][m] \in {held[q][m], NoToken}
  BY <1>2 DEF TypeOK, EndRun
<1>3. ASSUME NEW p \in Publishers, NEW n \in Messages, NextInBatch(p, n)
      PROVE  \A q \in Publishers : held'[q][m] \in {held[q][m], NoToken}
  BY <1>3 DEF TypeOK, NextInBatch
<1>4. ASSUME NEW p \in Publishers, MarkPublished(p) \/ MarkFailed(p) \/ AuditBuried(p)
      PROVE  \A q \in Publishers : held'[q][m] \in {held[q][m], NoToken}
  <2>1. current[p] \in Messages
    BY <1>4 DEF HandledSoFar, MarkPublished, MarkFailed, AuditBuried
  <2>2. UNCHANGED held \/ NextInBatch(p, current[p])
    BY <1>4 DEF MarkPublished, MarkFailed, AuditBuried
  <2>3. QED  BY <2>1, <2>2, <1>3
<1>5. ASSUME NEW p \in Publishers,
             FinishRun(p) \/ MarkConflicts(p) \/ MarkErrors(p) \/ Crash(p)
      PROVE  \A q \in Publishers : held'[q][m] \in {held[q][m], NoToken}
  BY <1>2, <1>5 DEF FinishRun, MarkConflicts, MarkErrors, Crash
<1>6. CASE UNCHANGED held
  BY <1>6
<1>7. QED
  BY <1>1, <1>4, <1>5, <1>6
  DEF Next, Clock, Progress, Disturbance, vars, runVars, Emit, RetryTimeComes,
      LeaseExpires, StartRun, AuditDeadLetter, AuditFails, BeginLoop, TakeMessage,
      HandlerSucceeds, HandlerFails, HandlerFailsAfterCommit, RetryDeadLetter

-----------------------------------------------------------------------------
(* One lemma per part of the invariant.                                    *)

LEMMA LeaseShapeStep ==
  ASSUME TypeOK, LeaseShape, HandledSoFar, [Next]_vars
  PROVE  LeaseShape'
<1> SUFFICES ASSUME NEW m \in Messages
             PROVE  /\ status'[m] = "processing" <=> claim_token'[m] # NoToken
                    /\ claim_token'[m] <= claims'[m]
                    /\ status'[m] = "none" => claims'[m] = 0
                    /\ \A p \in Publishers : held'[p][m] <= claims'[m]
  BY DEF LeaseShape
<1>1. /\ claim_token[m] \in Nat
      /\ claims[m] \in Nat
      /\ \A p \in Publishers : held[p][m] \in Nat
  BY DEF TypeOK
<1>2. /\ status[m] = "processing" <=> claim_token[m] # NoToken
      /\ claim_token[m] <= claims[m]
      /\ status[m] = "none" => claims[m] = 0
      /\ \A p \in Publishers : held[p][m] <= claims[m]
  BY DEF LeaseShape
<1>3. /\ status'[m] = "processing" <=> claim_token'[m] # NoToken
      /\ claim_token'[m] <= claims'[m]
      /\ status'[m] = "none" => claims'[m] = 0
      /\ claims'[m] = claims[m] \/ claims'[m] = claims[m] + 1
  BY <1>1, <1>2, RowStep
  DEF Keeps, Appears, Claimed, Released, Reclaimed, Publishes, Revived, NoToken
<1>4. \A p \in Publishers : held'[p][m] <= claims'[m]
  BY <1>1, <1>2, <1>3, HeldStep DEF NoToken
<1>5. QED  BY <1>3, <1>4

\* Fresh tokens are larger than any token that is held.
LEMMA ClaimsExclusiveStep ==
  ASSUME TypeOK, LeaseShape, HandledSoFar, ClaimsExclusive, [Next]_vars
  PROVE  ClaimsExclusive'
<1> SUFFICES ASSUME NEW p \in Publishers, NEW q \in Publishers, NEW m \in Messages,
                    p # q, held'[p][m] = held'[q][m]
             PROVE  held'[p][m] = NoToken
  BY DEF ClaimsExclusive
<1>1. /\ claims[m] \in Nat
      /\ \A r \in Publishers : held[r][m] \in Nat /\ held[r][m] <= claims[m]
  BY DEF TypeOK, LeaseShape
<1>2. CASE \A r \in Publishers : held'[r][m] \in {held[r][m], NoToken}
  BY <1>2 DEF ClaimsExclusive
<1>3. CASE \E r \in Publishers :
             /\ held'[r][m] = claims[m] + 1
             /\ \A s \in Publishers \ {r} : held'[s][m] = held[s][m]
  <2>1. PICK r \in Publishers :
             /\ held'[r][m] = claims[m] + 1
             /\ \A s \in Publishers \ {r} : held'[s][m] = held[s][m]
    BY <1>3
  <2>2. CASE r \in {p, q}
    BY <1>1, <2>1, <2>2
  <2>3. CASE r \notin {p, q}
    BY <2>1, <2>3 DEF ClaimsExclusive
  <2>4. QED  BY <2>2, <2>3
<1>4. QED  BY <1>2, <1>3, HeldStep

LEMMA DeadLetterStep ==
  ASSUME TypeOK, HandledSoFar, DeadLetterIffExhausted, [Next]_vars
  PROVE  DeadLetterIffExhausted'
<1> SUFFICES ASSUME NEW m \in Messages
             PROVE  status'[m] = "dead_letter" <=> retry_count'[m] = MaxRetry
  BY DEF DeadLetterIffExhausted
<1>1. /\ retry_count[m] \in 0..MaxRetry
      /\ MaxRetry \in Nat \ {0}
      /\ status[m] = "dead_letter" <=> retry_count[m] = MaxRetry
  BY OutboxAssumption DEF TypeOK, DeadLetterIffExhausted
<1>2. QED
  BY <1>1, RowStep
  DEF Keeps, Appears, Claimed, Released, Reclaimed, Publishes, Revived, Exhausted

LEMMA ReceiptSteps ==
  ASSUME TypeOK, HandledSoFar, OneAuditPerReceipt, PublishedHasReceipts, [Next]_vars
  PROVE  /\ receipts \subseteq receipts'
         /\ OneAuditPerReceipt'
         /\ PublishedHasReceipts'
<1>1. receipts \subseteq receipts'
  BY StoreStep DEF storeVars, AppendOnce
<1>2. OneAuditPerReceipt'
  <2>1. CASE UNCHANGED storeVars
    BY <2>1 DEF OneAuditPerReceipt, storeVars
  <2>2. ASSUME NEW m \in Messages, NEW n \in ReceiptNames, AppendOnce(m, n)
        PROVE  OneAuditPerReceipt'
    BY <2>2 DEF TypeOK, OneAuditPerReceipt, AppendOnce
  <2>3. QED  BY <2>1, <2>2, StoreStep
<1>3. PublishedHasReceipts'
  <2> SUFFICES ASSUME NEW m \in Messages, status'[m] = "published"
               PROVE  \A h \in Subscribed[m] : <<m, h>> \in receipts
    BY <1>1 DEF PublishedHasReceipts
  <2>1. QED
    BY RowStep
    DEF PublishedHasReceipts, Keeps, Appears, Claimed, Released, Reclaimed, Publishes, Revived
<1>4. QED  BY <1>1, <1>2, <1>3

LEMMA HandledSoFarStep ==
  ASSUME TypeOK, LeaseShape, HandledSoFar, [Next]_vars, receipts \subseteq receipts'
  PROVE  HandledSoFar'
<1> DEFINE Good(q) ==
      /\ pc[q] \in {"handling", "failing", "burying"} =>
            current[q] \in Messages /\ claims[current[q]] > 0
      /\ pc[q] = "handling" =>
            /\ todo[q] \subseteq Subscribed[current[q]]
            /\ \A h \in Subscribed[current[q]] :
                  h \in todo[q] \/ <<current[q], h>> \in receipts
<1> SUFFICES ASSUME NEW q \in Publishers
             PROVE  Good(q)'
  BY DEF HandledSoFar
<1>1. Good(q)
  BY DEF HandledSoFar
<1>2. \A m \in Messages : claims[m] > 0 => claims'[m] > 0
  BY RowStep
  DEF TypeOK, Keeps, Appears, Claimed, Released, Reclaimed, Publishes, Revived
<1>3. CASE /\ pc'[q] = pc[q]
           /\ current'[q] = current[q]
           /\ todo'[q] = todo[q]
  BY <1>1, <1>2, <1>3
<1>4. CASE pc'[q] \notin {"handling", "failing", "burying"}
  BY <1>4
<1>5. ASSUME TakeMessage(q, current'[q]), current'[q] \in Messages
      PROVE  Good(q)'
  <2>1. claims[current'[q]] > 0
    BY <1>5 DEF TypeOK, LeaseShape, TakeMessage, NoToken
  <2>2. todo'[q] = Subscribed[current'[q]]
    BY <1>5 DEF TypeOK, TakeMessage
  <2>3. QED  BY <1>2, <1>5, <2>1, <2>2
<1>6. CASE HandlerSucceeds(q)
  <2>1. PICK h \in Handlers : /\ AppendOnce(current[q], h)
                             /\ todo' = [todo EXCEPT ![q] = @ \ {h}]
    BY <1>6 DEF HandlerSucceeds
  <2>2. <<current[q], h>> \in receipts' /\ todo'[q] = todo[q] \ {h}
    BY <2>1 DEF TypeOK, AppendOnce
  <2>3. pc'[q] = pc[q] /\ current'[q] = current[q]
    BY <1>6 DEF HandlerSucceeds
  <2>4. QED  BY <1>1, <1>2, <2>2, <2>3
<1>7. CASE /\ pc[q] \in {"handling", "failing"}
           /\ pc'[q] \in {"failing", "burying"}
           /\ current'[q] = current[q]
  BY <1>1, <1>2, <1>7
<1>8. ASSUME NEW p \in Publishers, EndRun(p) \/ \E m \in Messages : NextInBatch(p, m)
      PROVE  Good(q)'
  <2>1. CASE p = q
    BY <1>4, <1>8, <2>1 DEF TypeOK, EndRun, NextInBatch
  <2>2. CASE p # q
    BY <1>3, <1>8, <2>2 DEF TypeOK, EndRun, NextInBatch
  <2>3. QED  BY <2>1, <2>2
<1>9. ASSUME NEW p \in Publishers,
             StartRun(p) \/ ClaimDue(p) \/ BeginLoop(p)
      PROVE  Good(q)'
  <2>1. CASE p = q
    BY <1>4, <1>9, <2>1 DEF TypeOK, StartRun, ClaimDue, BeginLoop
  <2>2. CASE p # q
    BY <1>3, <1>9, <2>2 DEF TypeOK, StartRun, ClaimDue, BeginLoop
  <2>3. QED  BY <2>1, <2>2
<1>10. ASSUME NEW p \in Publishers, NEW m \in Messages, TakeMessage(p, m)
       PROVE  Good(q)'
  <2>1. CASE p = q
    BY <1>5, <1>10, <2>1 DEF TypeOK, TakeMessage
  <2>2. CASE p # q
    BY <1>3, <1>10, <2>2 DEF TypeOK, TakeMessage
  <2>3. QED  BY <2>1, <2>2
<1>11. ASSUME NEW p \in Publishers, HandlerSucceeds(p)
       PROVE  Good(q)'
  <2>1. CASE p # q
    <3>1. \E h : todo' = [todo EXCEPT ![p] = @ \ {h}]
      BY <1>11 DEF HandlerSucceeds
    <3>2. QED  BY <1>3, <1>11, <2>1, <3>1 DEF TypeOK, HandlerSucceeds
  <2>2. QED  BY <1>6, <1>11, <2>1
<1>12. ASSUME NEW p \in Publishers, HandlerFails(p) \/ HandlerFailsAfterCommit(p)
       PROVE  Good(q)'
  <2>1. CASE p = q
    BY <1>7, <1>12, <2>1 DEF TypeOK, HandlerFails, HandlerFailsAfterCommit
  <2>2. CASE p # q
    BY <1>3, <1>12, <2>2 DEF TypeOK, HandlerFails, HandlerFailsAfterCommit
  <2>3. QED  BY <2>1, <2>2
<1>13. ASSUME NEW p \in Publishers, MarkFailed(p)
       PROVE  Good(q)'
  <2>1. current[p] \in Messages
    BY <1>13 DEF HandledSoFar, MarkFailed
  <2>2. CASE NextInBatch(p, current[p])
    BY <1>8, <2>1, <2>2
  <2>3. CASE pc' = [pc EXCEPT ![p] = "burying"] /\ UNCHANGED <<current, todo>>
    <3>1. CASE p = q
      BY <1>7, <1>13, <2>3, <3>1 DEF TypeOK, MarkFailed
    <3>2. CASE p # q
      BY <1>3, <2>3, <3>2 DEF TypeOK
    <3>3. QED  BY <3>1, <3>2
  <2>4. QED  BY <1>13, <2>2, <2>3 DEF MarkFailed
<1>14. ASSUME NEW p \in Publishers, MarkPublished(p) \/ AuditBuried(p)
       PROVE  Good(q)'
  <2>1. current[p] \in Messages /\ NextInBatch(p, current[p])
    BY <1>14 DEF HandledSoFar, MarkPublished, AuditBuried
  <2>2. QED  BY <1>8, <2>1
<1>15. ASSUME NEW p \in Publishers,
              FinishRun(p) \/ MarkConflicts(p) \/ MarkErrors(p) \/ Crash(p)
       PROVE  Good(q)'
  BY <1>8, <1>15 DEF FinishRun, MarkConflicts, MarkErrors, Crash
<1>16. CASE UNCHANGED <<pc, current, todo>>
  BY <1>3, <1>16
<1> HIDE DEF Good
<1>17. QED
  BY <1>9, <1>10, <1>11, <1>12, <1>13, <1>14, <1>15, <1>16
  DEF Next, Clock, Progress, Disturbance, vars, runVars, Emit, RetryTimeComes,
      LeaseExpires, AuditDeadLetter, AuditFails, RetryDeadLetter

\* A retry command adds one revival; nothing else changes their number.
LEMMA RevivalsNat == \A m \in Messages : Revivals(m) \in Nat
<1> SUFFICES ASSUME NEW m \in Messages
             PROVE  Cardinality({k \in RetryKeys : commands[k] = m}) \in Nat
  BY DEF Revivals
<1>1. IsFiniteSet({k \in RetryKeys : commands[k] = m})
  BY OutboxAssumption, FS_Subset
<1>2. QED  BY <1>1, FS_CardinalityType

LEMMA RevivalsStep ==
  ASSUME TypeOK, NEW m \in Messages
  PROVE  /\ (\A k \in RetryKeys : commands'[k] = m <=> commands[k] = m)
               => Revivals(m)' = Revivals(m)
         /\ (\E k \in RetryKeys : /\ commands[k] = NoMessage
                                  /\ commands' = [commands EXCEPT ![k] = m])
               => Revivals(m)' = Revivals(m) + 1
<1> DEFINE Before == {k \in RetryKeys : commands[k] = m}
           After  == {k \in RetryKeys : commands'[k] = m}
<1>1. Revivals(m) = Cardinality(Before) /\ Revivals(m)' = Cardinality(After)
  BY DEF Revivals
<1>2. ASSUME \A k \in RetryKeys : commands'[k] = m <=> commands[k] = m
      PROVE  Revivals(m)' = Revivals(m)
  <2>1. After = Before
    BY <1>2
  <2>2. QED  BY <1>1, <2>1
<1>3. ASSUME NEW k \in RetryKeys, commands[k] = NoMessage,
             commands' = [commands EXCEPT ![k] = m]
      PROVE  Revivals(m)' = Revivals(m) + 1
  <2>1. k \notin Before /\ After = Before \cup {k}
    BY <1>3, OutboxAssumption DEF TypeOK, NoMessage
  <2>2. IsFiniteSet(Before)
    BY OutboxAssumption, FS_Subset
  <2>3. Cardinality(After) = Cardinality(Before) + 1
    BY <2>1, <2>2, FS_AddElement
  <2>4. QED  BY <1>1, <2>3
<1>4. QED  BY <1>2, <1>3

LEMMA ClaimAccountingStep ==
  ASSUME TypeOK, HandledSoFar, DeadLetterIffExhausted, ClaimAccounting, [Next]_vars
  PROVE  ClaimAccounting'
<1> SUFFICES ASSUME NEW m \in Messages
             PROVE  claims'[m] = MaxRetry * Revivals(m)' + retry_count'[m]
                      + (IF status'[m] \in {"processing", "published"} THEN 1 ELSE 0)
  BY DEF ClaimAccounting
<1>1. /\ claims[m] = MaxRetry * Revivals(m) + retry_count[m]
                      + (IF status[m] \in {"processing", "published"} THEN 1 ELSE 0)
      /\ status[m] = "dead_letter" <=> retry_count[m] = MaxRetry
  BY DEF ClaimAccounting, DeadLetterIffExhausted
<1>2. /\ MaxRetry \in Nat \ {0}
      /\ retry_count[m] \in 0..MaxRetry
      /\ claims[m] \in Nat
      /\ Revivals(m) \in Nat
  BY OutboxAssumption, RevivalsNat DEF TypeOK
<1>3. CASE /\ \A k \in RetryKeys : commands'[k] = m <=> commands[k] = m
           /\ \/ Keeps(m) \/ Appears(m) \/ Claimed(m) \/ Released(m)
              \/ Reclaimed(m) \/ Publishes(m)
  <2>1. MaxRetry * Revivals(m)' = MaxRetry * Revivals(m)
    BY <1>3, RevivalsStep
  <2>2. MaxRetry * Revivals(m) \in Nat
    BY <1>2
  <2> DEFINE base == MaxRetry * Revivals(m)
  <2> HIDE DEF base
  <2>3. claims'[m] = base + retry_count'[m]
                      + (IF status'[m] \in {"processing", "published"} THEN 1 ELSE 0)
    <3>1. base \in Nat
      BY <2>2 DEF base
    <3>2. claims[m] = base + retry_count[m]
                      + (IF status[m] \in {"processing", "published"} THEN 1 ELSE 0)
      BY <1>1 DEF base
    <3>3. QED
      BY <1>1, <1>2, <1>3, <3>1, <3>2
      DEF Keeps, Appears, Claimed, Released, Reclaimed, Publishes, Exhausted
  <2>4. QED  BY <2>1, <2>3 DEF base
<1>4. CASE /\ Revived(m)
           /\ \E k \in RetryKeys : /\ commands[k] = NoMessage
                                   /\ commands' = [commands EXCEPT ![k] = m]
  <2>1. Revivals(m)' = Revivals(m) + 1
    BY <1>4, RevivalsStep
  <2>2. MaxRetry * Revivals(m)' = MaxRetry * Revivals(m) + MaxRetry
    BY <1>2, <2>1
  <2>3. claims[m] = MaxRetry * Revivals(m) + MaxRetry
    BY <1>1, <1>2, <1>4 DEF Revived
  <2>4. QED
    BY <1>2, <1>4, <2>2, <2>3 DEF Revived
<1>5. QED  BY <1>3, <1>4, RowStep

-----------------------------------------------------------------------------
(* The invariant, and what follows from it.                                *)

LEMMA InvInit == Init => IInv
<1> SUFFICES ASSUME Init
             PROVE  IInv
  OBVIOUS
<1>1. TypeOK
  BY TypeInit
<1>2. LeaseShape /\ ClaimsExclusive /\ HandledSoFar /\ PublishedHasReceipts
  BY DEF Init, LeaseShape, ClaimsExclusive, HandledSoFar, PublishedHasReceipts, NoToken
<1>3. DeadLetterIffExhausted
  BY OutboxAssumption DEF Init, DeadLetterIffExhausted
<1>4. OneAuditPerReceipt
  BY DEF Init, OneAuditPerReceipt
<1>5. ClaimAccounting
  <2> SUFFICES ASSUME NEW m \in Messages
               PROVE  claims[m] = MaxRetry * Revivals(m) + retry_count[m]
                        + (IF status[m] \in {"processing", "published"} THEN 1 ELSE 0)
    BY DEF ClaimAccounting
  <2>1. {k \in RetryKeys : commands[k] = m} = {}
    BY OutboxAssumption DEF Init, NoMessage
  <2>2. Revivals(m) = 0
    BY <2>1, FS_EmptySet DEF Revivals
  <2>3. MaxRetry * Revivals(m) = 0
    BY <2>2, OutboxAssumption
  <2>4. claims[m] = 0 /\ retry_count[m] = 0 /\ status[m] = "none"
    BY DEF Init
  <2>5. QED  BY <2>3, <2>4
<1>6. QED  BY <1>1, <1>2, <1>3, <1>4, <1>5 DEF IInv

LEMMA InvStep == IInv /\ [Next]_vars => IInv'
<1> SUFFICES ASSUME IInv, [Next]_vars
             PROVE  IInv'
  OBVIOUS
<1> USE DEF IInv
<1>1. TypeOK'
  BY TypeStep
<1>2. LeaseShape' /\ ClaimsExclusive' /\ DeadLetterIffExhausted' /\ ClaimAccounting'
  BY LeaseShapeStep, ClaimsExclusiveStep, DeadLetterStep, ClaimAccountingStep
<1>3. OneAuditPerReceipt' /\ PublishedHasReceipts' /\ HandledSoFar'
  BY ReceiptSteps, HandledSoFarStep
<1>4. QED  BY <1>1, <1>2, <1>3

\* The inductive invariant holds throughout: no interleaving of publishers,
\* lost leases, crashes, failed statements and operator retries breaks it.
THEOREM Invariance == Spec => []IInv
  BY InvInit, InvStep, PTL DEF Spec

\* The outbox rows, the receipts and the memory of the runs keep their types.
THEOREM TypeCorrect == Spec => []TypeOK
<1>1. IInv => TypeOK
  BY DEF IInv
<1>2. QED  BY <1>1, Invariance, PTL

\* Every claim that mark_published, mark_failed or the recovery of claim_due
\* settles is settled once, for any number of publishers.
THEOREM ClaimsAccounted == Spec => []ClaimAccounting
<1>1. IInv => ClaimAccounting
  BY DEF IInv
<1>2. QED  BY <1>1, Invariance, PTL

\* No claim is held twice: two runs may work on one row only under different
\* tokens, so at most one of them can mark it.
THEOREM NoSharedClaim == Spec => []ClaimsExclusive
<1>1. IInv => ClaimsExclusive
  BY DEF IInv
<1>2. QED  BY <1>1, Invariance, PTL

\* Claims are sound, for any number of events, publishers and faults.
THEOREM SoundClaims == Spec => []ClaimsSound
  BY TypeCorrect, ClaimsAccounted, NoSharedClaim, PTL DEF ClaimsSound

\* Exactly-once audit: whatever publishes an event, each of its handlers ran
\* and was audited exactly once.
THEOREM ExactlyOnce == Spec => []DeliveredExactlyOnce
<1>1. IInv => DeliveredExactlyOnce
  <2> SUFFICES ASSUME IInv, NEW m \in Messages, status[m] = "published",
                      NEW h \in Subscribed[m]
               PROVE  audits[<<m, h>>] = 1
    BY DEF DeliveredExactlyOnce
  <2>1. <<m, h>> \in receipts
    BY DEF IInv, PublishedHasReceipts
  <2>2. h \in ReceiptNames
    BY OutboxAssumption DEF ReceiptNames
  <2>3. QED  BY <2>1, <2>2 DEF IInv, OneAuditPerReceipt
<1>2. QED  BY <1>1, Invariance, PTL

\* A row is dead-lettered exactly when its retries are used up.
THEOREM DeadLetters == Spec => []DeadLetterIffExhausted
<1>1. IInv => DeadLetterIffExhausted
  BY DEF IInv
<1>2. QED  BY <1>1, Invariance, PTL

\* A publication is final, and only an operator's command revives a dead letter.
THEOREM Finality == Spec => ResolvedIsFinal
<1> DEFINE Final ==
      \A m \in Messages :
          /\ status[m] = "published" => status'[m] = "published"
          /\ (status[m] = "dead_letter" /\ status'[m] # "dead_letter") =>
                \E k \in RetryKeys : commands[k] = NoMessage /\ commands'[k] = m
<1>1. IInv /\ [Next]_vars => Final
  <2> SUFFICES ASSUME IInv, [Next]_vars, NEW m \in Messages
               PROVE  /\ status[m] = "published" => status'[m] = "published"
                      /\ (status[m] = "dead_letter" /\ status'[m] # "dead_letter") =>
                            \E k \in RetryKeys : commands[k] = NoMessage /\ commands'[k] = m
    OBVIOUS
  <2>1. TypeOK /\ HandledSoFar
    BY DEF IInv
  <2>2. CASE Revived(m) /\ \E k \in RetryKeys :
                /\ commands[k] = NoMessage
                /\ commands' = [commands EXCEPT ![k] = m]
    BY <2>1, <2>2 DEF TypeOK, Revived
  <2>3. CASE \/ Keeps(m) \/ Appears(m) \/ Claimed(m) \/ Released(m)
             \/ Reclaimed(m) \/ Publishes(m)
    BY <2>3 DEF Keeps, Appears, Claimed, Released, Reclaimed, Publishes
  <2>4. QED  BY <2>1, <2>2, <2>3, RowStep
<1>2. QED  BY <1>1, Invariance, PTL DEF Spec, ResolvedIsFinal

\* A claim whose lease has not run out is settled by the publisher that holds
\* it and by nobody else: neither the recovery of another publisher nor a mark
\* under an older claim takes the row from it.
THEOREM Holders == Spec => SettledByHolder
<1> DEFINE Settled ==
      \A m \in Messages :
          (status[m] = "processing" /\ ~expired[m] /\ status'[m] # "processing") =>
              \E p \in Publishers : /\ held[p][m] = claim_token[m]
                                    /\ current[p] = m
                                    /\ pc'[p] # pc[p]
<1>1. IInv /\ [Next]_vars => Settled
  <2> SUFFICES ASSUME IInv, [Next]_vars, NEW m \in Messages,
                      status[m] = "processing", ~expired[m], status'[m] # "processing"
               PROVE  \E p \in Publishers : /\ held[p][m] = claim_token[m]
                                            /\ current[p] = m
                                            /\ pc'[p] # pc[p]
    OBVIOUS
  <2> USE DEF IInv
  <2>1. ASSUME UNCHANGED status
        PROVE  FALSE
    BY <2>1
  <2>2. ASSUME NEW n \in Messages,
               Emit(n) \/ \E k \in RetryKeys : RetryDeadLetter(k, n)
        PROVE  FALSE
    BY <2>2 DEF TypeOK, Emit, RetryDeadLetter
  <2>3. ASSUME NEW p \in Publishers, ClaimDue(p)
        PROVE  FALSE
    <3>1. PICK R \in StaleBatches : RecoverAndClaim(p, R)
      BY <2>3 DEF ClaimDue
    <3>2. m \notin R
      BY <3>1 DEF StaleBatches
    <3>3. status'[m] \in {"processing", status[m]}
      BY <3>1, <3>2 DEF RecoverAndClaim
    <3>4. QED  BY <3>3
  <2>4. ASSUME NEW p \in Publishers, MarkPublished(p) \/ MarkFailed(p) \/ MarkErrors(p)
        PROVE  held[p][m] = claim_token[m] /\ current[p] = m /\ pc'[p] # pc[p]
    <3>1. /\ OwnsClaim(p, current[p])
          /\ SetPublished(current[p]) \/ SetFailed(current[p])
      BY <2>1, <2>4 DEF MarkPublished, MarkFailed, MarkErrors, rowVars
    <3>2. current[p] = m
      BY <3>1 DEF SetPublished, SetFailed, TypeOK
    <3>3. pc[p] \in {"handling", "failing"} /\ pc' \in {[pc EXCEPT ![p] = "idle"],
              [pc EXCEPT ![p] = "loop"], [pc EXCEPT ![p] = "burying"]}
      BY <2>4 DEF MarkPublished, MarkFailed, MarkErrors, EndRun, NextInBatch
    <3>4. pc'[p] # pc[p]
      BY <3>3 DEF TypeOK
    <3>5. QED  BY <3>1, <3>2, <3>4 DEF OwnsClaim
  <2>5. QED
    BY <2>1, <2>2, <2>3, <2>4
    DEF Next, Clock, Progress, Disturbance, vars, rowVars, RetryTimeComes, LeaseExpires,
        StartRun, AuditDeadLetter, AuditFails, BeginLoop, TakeMessage, FinishRun,
        HandlerSucceeds, HandlerFails, HandlerFailsAfterCommit, AuditBuried,
        MarkConflicts, Crash
<1>2. QED  BY <1>1, Invariance, PTL DEF Spec, SettledByHolder

-----------------------------------------------------------------------------
(* The publishers implement OutboxDelivery.                                *)

\* The pairs of an event and a handler that took effect.
Handled == {r \in receipts : r[2] \in Handlers}

\* What one row contributes to the abstract phase.
LEMMA PhaseRow ==
  ASSUME NEW m \in Messages
  PROVE  /\ phase[m] = IF status[m] \in {"pending", "processing", "failed"}
                       THEN "queued" ELSE status[m]
         /\ phase'[m] = IF status'[m] \in {"pending", "processing", "failed"}
                        THEN "queued" ELSE status'[m]
  BY DEF phase

\* The rows that change their phase in a step without an operator's command.
LEMMA PhaseStep ==
  ASSUME NEW m \in Messages,
         Keeps(m) \/ Claimed(m) \/ Released(m) \/ Reclaimed(m)
  PROVE  phase'[m] = phase[m] \/ (phase[m] = "queued" /\ phase'[m] = "dead_letter")
  BY PhaseRow DEF Keeps, Claimed, Released, Reclaimed

LEMMA SamePhase ==
  ASSUME \A m \in Messages : phase'[m] = phase[m]
  PROVE  phase' = phase
  BY DEF phase

LEMMA ImplementsInit == Init => Delivery!Init
  BY DEF Init, Delivery!Init, phase

LEMMA GiveUpStep ==
  ASSUME UNCHANGED receipts,
         \A m \in Messages :
            phase'[m] = phase[m] \/ (phase[m] = "queued" /\ phase'[m] = "dead_letter")
  PROVE  [Delivery!Next]_Delivery!vars
<1> DEFINE S == {m \in Messages : phase[m] = "queued" /\ phase'[m] = "dead_letter"}
<1>1. Handled' = Handled
  BY DEF Handled
<1>2. CASE S = {}
  <2>1. phase' = phase
    BY <1>2, SamePhase
  <2>2. QED  BY <1>1, <2>1 DEF Delivery!vars, Handled
<1>3. CASE S # {}
  <2>1. phase' = [m \in Messages |-> IF m \in S THEN "dead_letter" ELSE phase[m]]
    <3>1. phase' = [m \in Messages |-> phase'[m]]
      BY DEF phase
    <3>2. \A m \in Messages : phase'[m] = IF m \in S THEN "dead_letter" ELSE phase[m]
      OBVIOUS
    <3>3. QED  BY <3>1, <3>2
  <2>2. Delivery!GiveUp(S)
    BY <1>1, <1>3, <2>1 DEF Delivery!GiveUp, Handled
  <2>3. QED  BY <2>2 DEF Delivery!Next
<1>4. QED  BY <1>2, <1>3

LEMMA ReceiptIsHandle ==
  ASSUME IInv, NEW m \in Messages, NEW n \in ReceiptNames, AppendOnce(m, n),
         UNCHANGED status,
         n = DeadLetterReceipt \/ (n \in Subscribed[m] /\ claims[m] > 0)
  PROVE  [Delivery!Next]_Delivery!vars
<1>1. phase' = phase
  BY DEF phase
<1>2. CASE n = DeadLetterReceipt \/ <<m, n>> \in receipts
  <2>1. Handled' = Handled
    BY <1>2, OutboxAssumption DEF Handled, AppendOnce, DeadLetterReceipt
  <2>2. QED  BY <1>1, <2>1 DEF Delivery!vars, Handled
<1>3. CASE n # DeadLetterReceipt /\ <<m, n>> \notin receipts
  <2>1. n \in Handlers /\ n \in Subscribed[m]
    BY <1>3 DEF ReceiptNames
  <2>2. phase[m] \in {"queued", "dead_letter"}
    <3>1. status[m] \in Statuses
      BY DEF IInv, TypeOK
    <3>2. status[m] # "none"
      BY <1>3 DEF IInv, LeaseShape
    <3>3. status[m] # "published"
      BY <1>3, <2>1 DEF IInv, PublishedHasReceipts
    <3>4. QED  BY <3>1, <3>2, <3>3, PhaseRow DEF Statuses
  <2>3. Handled' = Handled \cup {<<m, n>>}
    BY <2>1 DEF Handled, AppendOnce
  <2>4. Delivery!Handle(m, n)
    BY <1>1, <1>3, <2>1, <2>2, <2>3 DEF Delivery!Handle, Handled
  <2>5. QED  BY <2>1, <2>4 DEF Delivery!Next
<1>4. QED  BY <1>2, <1>3

LEMMA ImplementsStep == IInv /\ [Next]_vars => [Delivery!Next]_Delivery!vars
<1> SUFFICES ASSUME IInv, [Next]_vars
             PROVE  [Delivery!Next]_Delivery!vars
  OBVIOUS
<1>1. TypeOK /\ HandledSoFar
  BY DEF IInv
<1>2. CASE UNCHANGED <<status, receipts>>
  BY <1>2 DEF Delivery!vars, phase
<1>3. ASSUME NEW m \in Messages, Emit(m)
      PROVE  Delivery!Enqueue(m)
  BY <1>1, <1>3 DEF TypeOK, Emit, phase, storeVars, Delivery!Enqueue
<1>4. ASSUME NEW k \in RetryKeys, NEW m \in Messages, RetryDeadLetter(k, m)
      PROVE  Delivery!Revive(m)
  BY <1>1, <1>4 DEF TypeOK, RetryDeadLetter, phase, storeVars, Delivery!Revive
<1>5. ASSUME NEW p \in Publishers, ClaimDue(p)
      PROVE  [Delivery!Next]_Delivery!vars
  <2>1. UNCHANGED receipts
    BY <1>5 DEF ClaimDue, storeVars
  <2>2. QED  BY <1>1, <1>5, <2>1, ClaimRow, PhaseStep, GiveUpStep
<1>6. ASSUME NEW p \in Publishers,
             MarkPublished(p) \/ MarkFailed(p) \/ MarkErrors(p)
      PROVE  [Delivery!Next]_Delivery!vars
  <2>1. current[p] \in Messages /\ UNCHANGED receipts
    BY <1>1, <1>6 DEF HandledSoFar, MarkPublished, MarkFailed, MarkErrors, storeVars
  <2>2. \/ UNCHANGED status
        \/ /\ status[current[p]] = "processing"
           /\ \/ SetFailed(current[p])
              \/ SetPublished(current[p]) /\ pc[p] = "handling" /\ todo[p] = {}
    BY <1>6 DEF MarkPublished, MarkFailed, MarkErrors, OwnsClaim, rowVars
  <2>3. CASE UNCHANGED status
    BY <1>2, <2>1, <2>3
  <2>4. CASE status[current[p]] = "processing" /\ SetFailed(current[p])
    <3>1. \A m \in Messages : Keeps(m) \/ Released(m)
      BY <1>1, <2>1, <2>4 DEF TypeOK, SetFailed, Keeps, Released
    <3>2. QED  BY <2>1, <3>1, PhaseStep, GiveUpStep
  <2>5. CASE /\ status[current[p]] = "processing"
             /\ SetPublished(current[p]) /\ pc[p] = "handling" /\ todo[p] = {}
    <3>1. \A h \in Subscribed[current[p]] : <<current[p], h>> \in Handled
      BY <1>1, <2>1, <2>5, OutboxAssumption DEF HandledSoFar, Handled
    <3>2. phase' = [phase EXCEPT ![current[p]] = "published"]
      BY <1>1, <2>1, <2>5 DEF TypeOK, SetPublished, phase
    <3>3. phase[current[p]] = "queued"
      BY <2>1, <2>5, PhaseRow
    <3>4. Delivery!Deliver(current[p])
      BY <2>1, <3>1, <3>2, <3>3 DEF Delivery!Deliver, Handled
    <3>5. QED  BY <2>1, <3>4 DEF Delivery!Next
  <2>6. QED  BY <2>2, <2>3, <2>4, <2>5
<1>7. ASSUME NEW p \in Publishers, NEW m \in Messages, AuditDeadLetter(p, m)
      PROVE  [Delivery!Next]_Delivery!vars
  BY <1>7, ReceiptIsHandle DEF AuditDeadLetter, ReceiptNames, rowVars
<1>8. ASSUME NEW p \in Publishers, AuditBuried(p)
      PROVE  [Delivery!Next]_Delivery!vars
  <2>1. current[p] \in Messages /\ UNCHANGED status
    BY <1>1, <1>8 DEF HandledSoFar, AuditBuried, rowVars
  <2>2. UNCHANGED storeVars \/ AppendOnce(current[p], DeadLetterReceipt)
    BY <1>8 DEF AuditBuried
  <2>3. QED  BY <1>2, <2>1, <2>2, ReceiptIsHandle DEF storeVars, ReceiptNames
<1>9. ASSUME NEW p \in Publishers, HandlerSucceeds(p) \/ HandlerFailsAfterCommit(p)
      PROVE  [Delivery!Next]_Delivery!vars
  <2>1. pc[p] = "handling" /\ UNCHANGED status
    BY <1>9 DEF HandlerSucceeds, HandlerFailsAfterCommit, rowVars
  <2>2. PICK h \in Handlers : IsFirst(h, todo[p]) /\ AppendOnce(current[p], h)
    BY <1>9 DEF HandlerSucceeds, HandlerFailsAfterCommit
  <2>3. /\ current[p] \in Messages
        /\ claims[current[p]] > 0
        /\ h \in Subscribed[current[p]]
    BY <1>1, <2>1, <2>2 DEF HandledSoFar, IsFirst
  <2>4. QED  BY <2>1, <2>2, <2>3, ReceiptIsHandle DEF ReceiptNames
<1>10. QED
  BY <1>2, <1>3, <1>4, <1>5, <1>6, <1>7, <1>8, <1>9
  DEF Next, Clock, Progress, Disturbance, Delivery!Next, vars, rowVars, storeVars,
      RetryTimeComes, LeaseExpires, StartRun, AuditFails, BeginLoop, TakeMessage,
      FinishRun, HandlerFails, MarkConflicts, Crash

\* The publishers, their leases and their crashes implement the promise of the
\* outbox: every handler takes effect at most once, and an event counts as
\* delivered only after all of them did.
THEOREM Implements == Spec => DeliverySpec
  BY ImplementsInit, ImplementsStep, Invariance, PTL
  DEF Spec, DeliverySpec, Delivery!Spec

=============================================================================
