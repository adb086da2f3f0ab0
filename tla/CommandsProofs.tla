--------------------------- MODULE CommandsProofs ---------------------------
(***************************************************************************)
(* The commands of clients: a request that is sent again takes effect once *)
(* and gets the answer of the first, for any number of requests and keys,  *)
(* any lifetime and any clock skew; and the figures of a command are       *)
(* rounded once or refused, moved as they were asked, kept as they were    *)
(* and answered alike whenever they are asked again, for any word, scale   *)
(* and columns.                                                            *)
(***************************************************************************)
EXTENDS Idempotency, Figures, SequenceTheorems, WellFoundedInduction, TLAPS

-----------------------------------------------------------------------------
(* The requests of a key.                                                  *)

\* An effect that may be forgotten: its row can be replaced or deleted.
Outdated(q) == created[q] + Lifetime <= now + Skew

\* Effects and answers come with the end of a request; stamps are not ahead of
\* the clock by more than the skew.
Ends ==
    /\ \A p \in effects : pc[p] \in {"done", "failed"}
    /\ \A p \in Requests : answer[p] # NoRequest => pc[p] = "done"
    /\ \A p \in Requests : created[p] <= now + Skew

\* What a waiting DELETE looks for is an effect that is due; a waiting SELECT
\* looks for a row.
Targets ==
    \A p \in Requests :
        /\ pc[p] = "dropping" => target[p] \in effects /\ Expired(target[p], created[p])
        /\ pc[p] = "locking" => target[p] # NoRequest

\* Whoever has changed a key owns it, and the row that it replaces is due.
Owners ==
    \A p \in Requests :
        /\ pc[p] = "working" => writer[key[p]] = p
        /\ writer[key[p]] = p => row[key[p]] = NoRequest \/ Outdated(row[key[p]])

\* An effect has its row until it is due.
Remembered == \A p \in effects : row[key[p]] = p \/ Outdated(p)

IInv ==
    /\ TypeOK
    /\ Ends
    /\ Targets
    /\ Owners
    /\ RowsHaveEffects
    /\ AnswersFit
    /\ Remembered
    /\ EffectsApart

-----------------------------------------------------------------------------

LEMMA IInvInit == Init => IInv
<1> SUFFICES ASSUME Init PROVE IInv
  OBVIOUS
<1> USE IdempotencyAssumption DEF Init
<1>1. TypeOK
  BY DEF TypeOK, Open
<1>2. Ends
  BY DEF Ends
<1>3. Targets /\ Owners
  BY DEF Targets, Owners
<1>4. RowsHaveEffects /\ AnswersFit /\ Remembered /\ EffectsApart
  BY DEF RowsHaveEffects, AnswersFit, Remembered, EffectsApart
<1>5. QED  BY <1>1, <1>2, <1>3, <1>4 DEF IInv

LEMMA ArriveKeeps ==
  ASSUME IInv, NEW p \in Requests, Arrive(p)
  PROVE  IInv'
<1>1. PICK t \in 0 .. (now + Skew) :
        /\ pc[p] = "new" /\ pc' = [pc EXCEPT ![p] = "begin"]
        /\ created' = [created EXCEPT ![p] = t]
        /\ UNCHANGED <<now, tableVars, requestVars, target, resultVars>>
  BY DEF Arrive
<1> USE <1>1, IdempotencyAssumption DEF IInv, TypeOK, tableVars, requestVars, resultVars
<1>2. TypeOK' /\ Ends'
  BY DEF Open, Ends
<1>3. p \notin effects /\ \A q \in effects : created'[q] = created[q]
  BY DEF Ends
<1>4. Targets'
  BY <1>3 DEF Targets, Expired
<1>5. RowsHaveEffects' /\ AnswersFit'
  BY DEF RowsHaveEffects, AnswersFit
<1>6. Owners' /\ Remembered' /\ EffectsApart'
  BY <1>3 DEF Owners, Outdated, RowsHaveEffects, Remembered, EffectsApart
<1>7. QED  BY <1>2, <1>4, <1>5, <1>6

\* The steps that only find out how to go on.
LEMMA SearchKeeps ==
  ASSUME IInv, NEW p \in Requests, FindExpired(p) \/ Look(p) \/ Reject(p)
  PROVE  IInv'
<1>1. /\ UNCHANGED <<now, tableVars, requestVars, created, resultVars>>
      /\ pc[p] \in {"begin", "looking", "locking"}
      /\ \E s \in {"dropping", "inserting", "locking", "failed"} :
            /\ pc' = [pc EXCEPT ![p] = s]
            /\ s \in {"dropping", "locking"} =>
                  target' = [target EXCEPT ![p] = row[key[p]]] /\ row[key[p]] # NoRequest
            /\ s = "dropping" => Expired(row[key[p]], created[p])
      /\ target' = target \/ target' = [target EXCEPT ![p] = row[key[p]]]
  BY DEF FindExpired, Look, Reject
<1> USE <1>1 DEF IInv, TypeOK, tableVars, requestVars, resultVars
<1>2. TypeOK'
  BY DEF Open
<1>3. Ends'
  BY DEF Ends
<1>4. Targets'
  <2>1. \A q \in Requests : q # p => pc'[q] = pc[q] /\ target'[q] = target[q]
    OBVIOUS
  <2>2. pc'[p] = "dropping" => /\ target'[p] = row[key[p]]
                               /\ row[key[p]] \in effects
                               /\ Expired(row[key[p]], created[p])
    BY DEF RowsHaveEffects
  <2>3. pc'[p] = "locking" => target'[p] # NoRequest
    OBVIOUS
  <2>4. QED  BY <2>1, <2>2, <2>3 DEF Targets, Expired
<1>5. Owners'
  BY DEF Owners, Outdated
<1>6. RowsHaveEffects' /\ AnswersFit' /\ Remembered' /\ EffectsApart'
  BY DEF RowsHaveEffects, AnswersFit, Remembered, Outdated, EffectsApart
<1>7. QED  BY <1>2, <1>3, <1>4, <1>5, <1>6

\* The steps that change a key, or leave it alone, in an open transaction.
LEMMA ClaimKeeps ==
  ASSUME IInv, NEW p \in Requests, DropExpired(p) \/ Insert(p)
  PROVE  IInv'
<1>1. /\ UNCHANGED <<now, row, requestVars, created, target, resultVars>>
      /\ pc[p] \in {"dropping", "inserting"} /\ Mine(p)
      /\ \E s \in {"inserting", "working", "looking"}, w \in {p, writer[key[p]]} :
            /\ pc' = [pc EXCEPT ![p] = s]
            /\ writer' = [writer EXCEPT ![key[p]] = w]
            /\ s = "working" => w = p
            /\ s = "looking" => w # p
            /\ w = p /\ writer[key[p]] # p =>
                  row[key[p]] = NoRequest \/ (pc[p] = "dropping" /\ row[key[p]] = target[p])
  BY IdempotencyAssumption DEF DropExpired, Insert, TypeOK, IInv
<1>2. PICK s \in {"inserting", "working", "looking"}, w \in {p, writer[key[p]]} :
            /\ pc' = [pc EXCEPT ![p] = s]
            /\ writer' = [writer EXCEPT ![key[p]] = w]
            /\ s = "working" => w = p
            /\ s = "looking" => w # p
            /\ w = p /\ writer[key[p]] # p =>
                  row[key[p]] = NoRequest \/ (pc[p] = "dropping" /\ row[key[p]] = target[p])
  BY <1>1
<1> USE <1>1, <1>2, IdempotencyAssumption DEF IInv, TypeOK, requestVars, resultVars
<1>3. TypeOK'
  <2>1. /\ pc' \in [Requests -> Open \cup {"new", "done", "failed"}]
        /\ writer' \in [Keys -> Requests \cup {NoRequest}]
    BY DEF Open
  <2>2. \A k \in Keys : writer'[k] # NoRequest =>
            key[writer'[k]] = k /\ pc'[writer'[k]] \in {"inserting", "working"}
    BY DEF Mine
  <2>3. QED  BY <2>1, <2>2
<1>4. Ends' /\ Targets'
  BY DEF Ends, Targets, Expired
<1>5. Owners'
  <2>1. \A q \in Requests : q # p => pc'[q] = pc[q] /\ (writer'[key[q]] = q <=> writer[key[q]] = q)
    BY DEF Mine
  <2>2. pc'[p] = "working" => writer'[key[p]] = p
    OBVIOUS
  <2>3. pc[p] = "dropping" => created[target[p]] + Lifetime <= created[p]
    BY DEF Targets, Expired
  <2>4. w = p /\ writer[key[p]] # p => row[key[p]] = NoRequest \/ Outdated(row[key[p]])
    <3>1. CASE pc[p] = "dropping" /\ row[key[p]] = target[p] /\ row[key[p]] # NoRequest
      <4>1. created[p] <= now + Skew
        BY DEF Ends
      <4>2. target[p] \in Requests
        BY <3>1 DEF Targets
      <4>3. created[target[p]] \in Nat /\ created[p] \in Nat
        BY <4>2
      <4>4. created[target[p]] + Lifetime <= now + Skew
        BY <2>3, <3>1, <4>1, <4>3
      <4>5. QED  BY <3>1, <4>4 DEF Outdated
    <3>2. QED  BY <3>1
  <2>5. writer'[key[p]] = p => row[key[p]] = NoRequest \/ Outdated(row[key[p]])
    BY <2>4 DEF Owners
  <2>6. QED  BY <2>1, <2>2, <2>5 DEF Owners, Outdated
<1>6. RowsHaveEffects' /\ AnswersFit' /\ Remembered' /\ EffectsApart'
  BY DEF RowsHaveEffects, AnswersFit, Remembered, Outdated, EffectsApart
<1>7. QED  BY <1>3, <1>4, <1>5, <1>6

LEMMA ReplayKeeps ==
  ASSUME IInv, NEW p \in Requests, Replay(p)
  PROVE  IInv'
<1> USE IdempotencyAssumption DEF Replay, IInv, TypeOK, tableVars, requestVars, resultVars
<1>1. TypeOK'
  BY DEF Open, Mine
<1>2. Ends' /\ Targets'
  BY DEF Ends, Targets, Expired
<1>3. Owners'
  BY DEF Owners, Outdated
<1>4. AnswersFit'
  <2>1. target[p] \in effects /\ key[target[p]] = key[p] /\ print[target[p]] = print[p]
    <3>1. row[key[p]] \in effects /\ key[row[key[p]]] = key[p]
      BY DEF Targets, RowsHaveEffects
    <3>2. QED  BY <3>1 DEF SameRequest
  <2>2. QED  BY <2>1 DEF AnswersFit
<1>5. RowsHaveEffects' /\ Remembered' /\ EffectsApart'
  BY DEF RowsHaveEffects, Remembered, Outdated, EffectsApart
<1>6. QED  BY <1>1, <1>2, <1>3, <1>4, <1>5

LEMMA CommitKeeps ==
  ASSUME IInv, NEW p \in Requests, Commit(p)
  PROVE  IInv'
<1>1. /\ pc[p] = "working" /\ writer[key[p]] = p /\ p \notin effects
      /\ answer[p] = NoRequest
      /\ row' = [row EXCEPT ![key[p]] = p]
      /\ writer' = [writer EXCEPT ![key[p]] = NoRequest]
      /\ effects' = effects \cup {p}
      /\ made' = [made EXCEPT ![p] = now]
      /\ UNCHANGED <<now, key, print, created, target>>
  BY DEF Commit, Release, IInv, TypeOK, Ends, Owners, requestVars
<1>2. \/ pc' = [pc EXCEPT ![p] = "done"] /\ answer' = [answer EXCEPT ![p] = p]
      \/ pc' = [pc EXCEPT ![p] = "failed"] /\ UNCHANGED answer
  BY DEF Commit
<1>3. row[key[p]] = NoRequest \/ Outdated(row[key[p]])
  BY <1>1 DEF IInv, Owners
<1> USE <1>1, <1>2, IdempotencyAssumption DEF IInv, TypeOK
<1>4. TypeOK'
  <2>1. \A k \in Keys : writer'[k] # NoRequest => writer[k] = writer'[k] /\ writer[k] # p
    OBVIOUS
  <2>2. QED  BY <2>1
<1>5. Ends' /\ Targets'
  BY DEF Ends, Targets, Expired
<1>6. RowsHaveEffects'
  BY DEF RowsHaveEffects
<1>7. AnswersFit'
  BY DEF AnswersFit
<1>8. Owners'
  <2>1. ASSUME NEW q \in Requests, q # p, writer[key[q]] = q
        PROVE  key[q] # key[p]
    BY <2>1
  <2>2. QED  BY <2>1 DEF Owners, Outdated
<1>9. Remembered'
  <2>1. ASSUME NEW q \in effects
        PROVE  row'[key[q]] = q \/ Outdated(q)
    <3>1. CASE key[q] = key[p]
      BY <1>3, <3>1 DEF Remembered
    <3>2. CASE key[q] # key[p]
      BY <3>2 DEF Remembered
    <3>3. QED  BY <3>1, <3>2
  <2>2. QED  BY <2>1 DEF Remembered, Outdated
<1>10. EffectsApart'
  <2>1. ASSUME NEW q \in effects, key[q] = key[p]
        PROVE  created[q] + Lifetime <= now + Skew
    BY <1>3, <2>1 DEF Remembered, Outdated
  <2>2. \A q \in effects : made'[q] = made[q]
    OBVIOUS
  <2>3. made'[p] = now
    OBVIOUS
  <2>4. QED  BY <2>1, <2>2, <2>3 DEF EffectsApart
<1>11. QED  BY <1>4, <1>5, <1>6, <1>7, <1>8, <1>9, <1>10

LEMMA RollBackKeeps ==
  ASSUME IInv, NEW p \in Requests, RollBack(p)
  PROVE  IInv'
<1> USE IdempotencyAssumption DEF RollBack, IInv, TypeOK, requestVars, resultVars
<1>1. \A k \in Keys : writer'[k] = IF writer[k] = p THEN NoRequest ELSE writer[k]
  BY DEF Release
<1>2. TypeOK'
  <2>1. /\ pc' \in [Requests -> Open \cup {"new", "done", "failed"}]
        /\ writer' \in [Keys -> Requests \cup {NoRequest}]
    BY DEF Release
  <2>2. \A k \in Keys : writer'[k] # NoRequest => writer[k] = writer'[k] /\ writer[k] # p
    BY <1>1
  <2>3. QED  BY <2>1, <2>2
<1>3. Ends' /\ Targets'
  BY DEF Ends, Targets, Expired, Open
<1>4. Owners'
  BY <1>1 DEF Owners, Outdated
<1>5. RowsHaveEffects' /\ AnswersFit' /\ Remembered' /\ EffectsApart'
  BY DEF RowsHaveEffects, AnswersFit, Remembered, Outdated, EffectsApart
<1>6. QED  BY <1>2, <1>3, <1>4, <1>5

LEMMA CleanUpKeeps ==
  ASSUME IInv, CleanUp
  PROVE  IInv'
<1>1. PICK K \in SUBSET Doomed :
        /\ row' = [k \in Keys |-> IF k \in K THEN NoRequest ELSE row[k]]
        /\ UNCHANGED <<now, writer, pc, requestVars, created, target, resultVars>>
  BY DEF CleanUp
<1> USE <1>1, IdempotencyAssumption DEF IInv, TypeOK, requestVars, resultVars
<1>2. TypeOK'
  OBVIOUS
<1>3. Ends' /\ Targets'
  BY DEF Ends, Targets, Expired
<1>4. Owners' /\ RowsHaveEffects' /\ AnswersFit' /\ EffectsApart'
  BY DEF Owners, Outdated, RowsHaveEffects, AnswersFit, EffectsApart
<1>5. Remembered'
  <2>1. \A k \in K : row[k] \in Requests /\ created[row[k]] + Lifetime <= now
    BY DEF Doomed, Expired
  <2>2. \A k \in K : Outdated(row[k])
    BY <2>1 DEF Outdated
  <2>3. QED  BY <2>2 DEF Remembered, Outdated
<1>6. QED  BY <1>2, <1>3, <1>4, <1>5

LEMMA TickKeeps ==
  ASSUME IInv, Tick
  PROVE  IInv'
<1> USE IdempotencyAssumption DEF Tick, IInv, TypeOK, tableVars, requestVars, resultVars
<1>1. TypeOK' /\ RowsHaveEffects' /\ AnswersFit' /\ EffectsApart' /\ Targets'
  BY DEF RowsHaveEffects, AnswersFit, EffectsApart, Targets, Expired
<1>2. \A q \in Requests : created[q] <= now + Skew => created'[q] <= now' + Skew
  OBVIOUS
<1>3. \A q \in Requests : Outdated(q) => Outdated(q)'
  BY DEF Outdated
<1>4. Ends'
  BY <1>2 DEF Ends
<1>5. Owners' /\ Remembered'
  BY <1>3 DEF Owners, Remembered, RowsHaveEffects
<1>6. QED  BY <1>1, <1>4, <1>5

LEMMA IInvStep == IInv /\ [Next]_vars => IInv'
<1> SUFFICES ASSUME IInv, [Next]_vars PROVE IInv'
  OBVIOUS
<1>1. CASE UNCHANGED vars
  BY <1>1
  DEF IInv, TypeOK, Ends, Targets, Expired, Owners, Outdated, RowsHaveEffects, AnswersFit,
      Remembered, EffectsApart, vars, tableVars, requestVars, resultVars
<1>2. ASSUME NEW p \in Requests, Arrive(p) \/ Advance(p) \/ RollBack(p)
      PROVE  IInv'
  BY <1>2, ArriveKeeps, SearchKeeps, ClaimKeeps, ReplayKeeps, CommitKeeps, RollBackKeeps
  DEF Advance
<1>3. QED  BY <1>1, <1>2, CleanUpKeeps, TickKeeps DEF Next

\* The inductive invariant: who changes a key owns it, and replaces only what
\* is due.
THEOREM Invariance == Spec => []IInv
  BY IInvInit, IInvStep, PTL DEF Spec

\* Every variable has its type, and no finished request keeps a key.
THEOREM TypeCorrect == Spec => []TypeOK
<1>1. IInv => TypeOK
  BY DEF IInv
<1>2. QED  BY <1>1, Invariance, PTL

\* A committed key belongs to a committed business write.
THEOREM RowsOfEffects == Spec => []RowsHaveEffects
<1>1. IInv => RowsHaveEffects
  BY DEF IInv
<1>2. QED  BY <1>1, Invariance, PTL

\* An answer is the result of a committed write of the same key and request.
THEOREM RightAnswers == Spec => []AnswersFit
<1>1. IInv => AnswersFit
  BY DEF IInv
<1>2. QED  BY <1>1, Invariance, PTL

\* Two writes of one key lie at least a lifetime apart, less the clock skew.
THEOREM NoSecondEffect == Spec => []EffectsApart
<1>1. IInv => EffectsApart
  BY DEF IInv
<1>2. QED  BY <1>1, Invariance, PTL

\* One write per key and lifetime, and every answer is that of a write.
THEOREM SoundAnswers == Spec => []AnswersSound
  BY TypeCorrect, RowsOfEffects, RightAnswers, NoSecondEffect, PTL DEF AnswersSound

-----------------------------------------------------------------------------
(* The table keeps the promise of OncePerKey.                              *)

LEMMA PromiseInit == Init => Promise!Init
  BY DEF Init, Promise!Init

LEMMA PromiseStep == IInv /\ [Next]_vars => [Promise!Next]_Promise!vars
<1> SUFFICES ASSUME IInv, [Next]_vars PROVE Promise!Next \/ UNCHANGED Promise!vars
  OBVIOUS
<1> USE DEF IInv, tableVars, requestVars, resultVars
<1>1. CASE UNCHANGED vars
  BY <1>1 DEF vars, Promise!vars
<1>2. ASSUME NEW p \in Requests, Arrive(p)
      PROVE  Promise!Next
  <2>1. p \notin effects /\ answer[p] = NoRequest
    BY <1>2 DEF Arrive, Ends
  <2>2. PICK t \in 0 .. (now + Skew) :
            now <= t + Skew /\ created' = [created EXCEPT ![p] = t]
    BY <1>2 DEF Arrive
  <2>3. t <= now + Skew
    BY <2>2, IdempotencyAssumption DEF TypeOK
  <2>4. Promise!Stamp(p, t)
    BY <1>2, <2>1, <2>2, <2>3 DEF Arrive, Promise!Stamp
  <2>5. QED  BY <2>2, <2>4 DEF Promise!Next
<1>3. ASSUME NEW p \in Requests,
             \/ FindExpired(p) \/ DropExpired(p) \/ Insert(p) \/ Look(p)
             \/ Reject(p) \/ RollBack(p)
      PROVE  UNCHANGED Promise!vars
  BY <1>3
  DEF FindExpired, DropExpired, Insert, Look, Reject, RollBack, Promise!vars
<1>4. ASSUME NEW p \in Requests, Replay(p)
      PROVE  Promise!Next
  <2>1. p \notin effects /\ row[key[p]] = target[p] /\ target[p] # NoRequest
    BY <1>4 DEF Replay, Ends, Targets
  <2>2. Promise!Replay(p)
    BY <1>4, <2>1 DEF Replay, SameRequest, Promise!Replay
  <2>3. QED  BY <2>2 DEF Promise!Next
<1>5. ASSUME NEW p \in Requests, Commit(p)
      PROVE  Promise!Next
  <2>1. /\ p \notin effects
        /\ row[key[p]] # NoRequest => Promise!Due(row[key[p]])
    BY <1>5 DEF Commit, Ends, Owners, Outdated, Promise!Due
  <2>2. Promise!Act(p)
    BY <1>5, <2>1 DEF Commit, Promise!Act
  <2>3. QED  BY <2>2 DEF Promise!Next
<1>6. CASE CleanUp
  <2>1. PICK K \in SUBSET Doomed :
          /\ row' = [k \in Keys |-> IF k \in K THEN NoRequest ELSE row[k]]
          /\ UNCHANGED <<now, writer, pc, requestVars, created, target, resultVars>>
    BY <1>6 DEF CleanUp
  <2>2. \A k \in K : row[k] \in Requests /\ row[k] # NoRequest
                     /\ created[row[k]] + Lifetime <= now
    BY IdempotencyAssumption DEF Doomed, Expired, TypeOK
  <2>3. \A k \in K : Promise!Due(row[k])
    BY <2>2, IdempotencyAssumption DEF Promise!Due, TypeOK
  <2>4. K \in SUBSET Keys
    BY DEF Doomed
  <2>5. Promise!Forget(K)
    BY <2>1, <2>2, <2>3 DEF Promise!Forget
  <2>6. QED  BY <2>4, <2>5 DEF Promise!Next
<1>7. CASE Tick
  BY <1>7 DEF Tick, Promise!Tick, Promise!Next
<1>8. QED
  BY <1>1, <1>2, <1>3, <1>4, <1>5, <1>6, <1>7 DEF Next, Advance

\* The statements around a business write implement OncePerKey.
THEOREM Implements == Spec => PromiseSpec
  BY Invariance, PromiseInit, PromiseStep, PTL DEF Spec, PromiseSpec, Promise!Spec

-----------------------------------------------------------------------------
(* What is defined step by step, and the powers of ten.                    *)

LEMMA Smallest ==
  ASSUME NEW T \in SUBSET Nat, T # {}
  PROVE  \E m \in T : \A n \in T : m <= n
<1>1. PICK R : R = OpToRel(<, Nat) /\ IsWellFoundedOn(R, Nat)
  BY NatLessThanWellFounded
<1>2. \E m \in T : \A n \in T : ~(<<n, m>> \in R)
  <2>1. T \subseteq Nat /\ T # {} /\ IsWellFoundedOn(R, Nat)
    BY <1>1
  <2>. QED  BY ONLY <2>1, WFMin, Zenon
<1>3. \A m \in T, n \in T : n < m => <<n, m>> \in R
  BY <1>1 DEF OpToRel
<1>4. PICK m \in T : \A n \in T : ~(<<n, m>> \in R)
  BY <1>2
<1>5. \A n \in T : ~(n < m)
  BY ONLY <1>3, <1>4, Zenon
<1>. QED  BY <1>5

LEMMA Steps ==
  ASSUME NEW S, 0 \in S, NEW N \in Nat,
         \A n \in 0..N - 1 : n \in S => n + 1 \in S
  PROVE  \A n \in 0..N : n \in S
<1> DEFINE T == {n \in 0..N : n \notin S}
<1>1. SUFFICES ASSUME T # {} PROVE FALSE
  OBVIOUS
<1>2. T \in SUBSET Nat
  OBVIOUS
<1>3. PICK m \in T : \A n \in T : m <= n
  <2> HIDE DEF T
  <2>. QED BY <1>1, <1>2, Smallest
<1>4. m \in 0..N /\ m \notin S /\ m # 0
  BY <1>3
<1>5. m - 1 \in 0..N - 1 /\ m - 1 \notin T
  BY <1>3, <1>4
<1>6. m - 1 \in S
  BY <1>5
<1>7. (m - 1) + 1 \in S
  BY <1>5, <1>6
<1>. QED BY <1>4, <1>7

LEMMA Induction ==
  ASSUME NEW S, 0 \in S, \A n \in Nat : n \in S => n + 1 \in S
  PROVE  \A n \in Nat : n \in S
<1> SUFFICES ASSUME NEW N \in Nat PROVE N \in S
  OBVIOUS
<1>1. \A n \in 0..N - 1 : n \in S => n + 1 \in S
  OBVIOUS
<1>2. \A n \in 0..N : n \in S
  BY <1>1, Steps
<1>. QED BY <1>2

-----------------------------------------------------------------------------
(* A function that is given its start and its steps.                       *)
Runs(X, x, N, step) ==
    \E f \in [0..N -> X] : f[0] = x /\ \A k \in 1..N : f[k] = step[k][f[k - 1]]

LEMMA Recursion ==
  ASSUME NEW X, NEW x \in X, NEW N \in Nat, NEW step \in [1..N -> [X -> X]]
  PROVE  Runs(X, x, N, step)
<1> DEFINE Good(f, n) == f[0] = x /\ \A k \in 1..n : f[k] = step[k][f[k - 1]]
           S == {n \in 0..N : \E f \in [0..n -> X] : Good(f, n)}
<1>1. 0 \in S
  <2> DEFINE f == [k \in 0..0 |-> x]
  <2>1. f \in [0..0 -> X] /\ f[0] = x /\ 1..0 = {}
    OBVIOUS
  <2> HIDE DEF f
  <2>2. f \in [0..0 -> X] /\ Good(f, 0)
    BY <2>1
  <2>. QED  BY <2>2
<1>2. \A n \in 0..N - 1 : n \in S => n + 1 \in S
  <2> SUFFICES ASSUME NEW n \in 0..N - 1, NEW f \in [0..n -> X], Good(f, n)
               PROVE  n + 1 \in S
    OBVIOUS
  <2> DEFINE g == [k \in 0..n + 1 |-> IF k = n + 1 THEN step[k][f[n]] ELSE f[k]]
  <2>1. n + 1 \in 1..N /\ n + 1 \in 0..N /\ f[n] \in X /\ step[n + 1][f[n]] \in X
    OBVIOUS
  <2>2. g \in [0..n + 1 -> X]
    BY <2>1
  <2>3. \A k \in 1..n : g[k] = step[k][g[k - 1]]
    <3> SUFFICES ASSUME NEW k \in 1..n PROVE g[k] = step[k][g[k - 1]]
      OBVIOUS
    <3>1. k # n + 1 /\ k - 1 # n + 1 /\ k \in 0..n + 1 /\ k - 1 \in 0..n + 1
      OBVIOUS
    <3>2. g[k] = f[k] /\ g[k - 1] = f[k - 1]
      BY <3>1
    <3>. QED  BY <3>2
  <2>4. g[n + 1] = step[n + 1][g[(n + 1) - 1]] /\ g[0] = x
    OBVIOUS
  <2> HIDE DEF g
  <2>5. \A k \in 1..n + 1 : k \in 1..n \/ k = n + 1
    OBVIOUS
  <2>6. Good(g, n + 1)
    BY <2>3, <2>4, <2>5
  <2> HIDE DEF Good
  <2>. QED  BY <2>1, <2>2, <2>6
<1>3. \A n \in 0..N : n \in S
  <2> HIDE DEF S
  <2>. QED  BY <1>1, <1>2, Steps
<1>. QED  BY <1>3 DEF Runs

-----------------------------------------------------------------------------
(* Powers of ten.                                                          *)

Tens(f, N) == f = [k \in 0..N |-> IF k = 0 THEN 1 ELSE 10 * f[k - 1]]

LEMMA TensExist ==
  ASSUME NEW N \in Nat
  PROVE  \E f \in [0..N -> Nat \ {0}] : Tens(f, N)
<1> DEFINE step == [k \in 1..N |-> [n \in Nat \ {0} |-> 10 * n]]
<1>1. step \in [1..N -> [Nat \ {0} -> Nat \ {0}]] /\ 1 \in Nat \ {0}
  OBVIOUS
<1>2. PICK f \in [0..N -> Nat \ {0}] :
        f[0] = 1 /\ \A k \in 1..N : f[k] = step[k][f[k - 1]]
  <2> HIDE DEF step
  <2>1. Runs(Nat \ {0}, 1, N, step)
    BY ONLY <1>1, N \in Nat, Recursion
  <2>. QED  BY <2>1 DEF Runs
<1>3. \A k \in 0..N : f[k] = IF k = 0 THEN 1 ELSE 10 * f[k - 1]
  <2> SUFFICES ASSUME NEW k \in 1..N PROVE f[k] = 10 * f[k - 1]
    BY <1>2
  <2>1. f[k - 1] \in Nat \ {0}
    OBVIOUS
  <2>2. step[k][f[k - 1]] = 10 * f[k - 1]
    BY <2>1
  <2>. QED  BY <1>2, <2>2
<1>. QED  BY <1>3 DEF Tens

LEMMA TensUnique ==
  ASSUME NEW N \in Nat, NEW f, NEW M \in Nat, NEW g, Tens(f, N), Tens(g, M)
  PROVE  \A k \in 0..N : k \in 0..M => f[k] = g[k]
<1> DEFINE S == {k \in Nat : k \in 0..N /\ k \in 0..M => f[k] = g[k]}
<1>1. \A k \in 0..N : f[k] = IF k = 0 THEN 1 ELSE 10 * f[k - 1]
  BY DEF Tens
<1>2. \A k \in 0..M : g[k] = IF k = 0 THEN 1 ELSE 10 * g[k - 1]
  BY DEF Tens
<1>3. 0 \in S
  BY <1>1, <1>2
<1>4. \A n \in Nat : n \in S => n + 1 \in S
  <2> SUFFICES ASSUME NEW n \in Nat, n \in S, n + 1 \in 0..N, n + 1 \in 0..M
               PROVE  f[n + 1] = g[n + 1]
    OBVIOUS
  <2>1. n \in 0..N /\ n \in 0..M /\ (n + 1) - 1 = n /\ n + 1 # 0
    OBVIOUS
  <2>2. f[n] = g[n]
    BY <2>1
  <2>. QED BY <1>1, <1>2, <2>1, <2>2
<1> HIDE DEF S
<1>5. \A n \in Nat : n \in S
  BY <1>3, <1>4, Induction
<1>. QED BY <1>5 DEF S

LEMMA TenToIs ==
  ASSUME NEW N \in Nat, NEW f, Tens(f, N), NEW n \in 0..N
  PROVE  TenTo(n) = f[n]
<1>1. PICK g : Tens(g, n)
  <2>1. n \in Nat
    OBVIOUS
  <2>. QED  BY <2>1, TensExist
<1> DEFINE h == CHOOSE power : Tens(power, n)
<1>2. Tens(h, n)
  BY <1>1
<1>3. TenTo(n) = h[n]
  BY DEF TenTo, Tens
<1> HIDE DEF h
<1>4. h[n] = f[n]
  <2>1. n \in Nat /\ n \in 0..n
    OBVIOUS
  <2>. QED  BY <1>2, <2>1, TensUnique
<1>. QED BY <1>3, <1>4

LEMMA TenToOK ==
  /\ TenTo(0) = 1
  /\ \A n \in Nat : TenTo(n) \in Nat \ {0} /\ TenTo(n + 1) = 10 * TenTo(n) /\ n < TenTo(n)
<1>1. \A n \in Nat : TenTo(n) \in Nat \ {0} /\ TenTo(n + 1) = 10 * TenTo(n)
  <2> SUFFICES ASSUME NEW n \in Nat
               PROVE  TenTo(n) \in Nat \ {0} /\ TenTo(n + 1) = 10 * TenTo(n)
    OBVIOUS
  <2>2. n + 1 \in Nat /\ n \in 0..n + 1 /\ n + 1 \in 0..n + 1
    OBVIOUS
  <2>1. PICK f \in [0..n + 1 -> Nat \ {0}] : Tens(f, n + 1)
    BY <2>2, TensExist
  <2>3. TenTo(n) = f[n] /\ TenTo(n + 1) = f[n + 1]
    BY <2>1, <2>2, TenToIs
  <2>4. f[n + 1] = 10 * f[(n + 1) - 1] /\ (n + 1) - 1 = n
    BY <2>1, <2>2 DEF Tens
  <2>. QED BY <2>2, <2>3, <2>4
<1>2. TenTo(0) = 1
  <2>1. PICK f \in [0..0 -> Nat \ {0}] : Tens(f, 0)
    BY TensExist
  <2>2. TenTo(0) = f[0]
    BY <2>1, TenToIs
  <2>. QED BY <2>1, <2>2 DEF Tens
<1> DEFINE S == {n \in Nat : n < TenTo(n)}
<1>3. 0 \in S
  BY <1>2
<1>4. \A n \in Nat : n \in S => n + 1 \in S
  BY <1>1
<1>5. \A n \in Nat : n \in S
  <2> HIDE DEF S
  <2>. QED BY <1>3, <1>4, Induction
<1>. QED BY <1>1, <1>2, <1>5

LEMMA TenToSum ==
  ASSUME NEW m \in Nat, NEW n \in Nat
  PROVE  TenTo(m + n) = TenTo(m) * TenTo(n)
<1> DEFINE S == {k \in Nat : TenTo(m + k) = TenTo(m) * TenTo(k)}
<1>1. 0 \in S
  <2>1. m + 0 = m /\ TenTo(m) * 1 = TenTo(m)
    BY TenToOK
  <2>. QED BY <2>1, TenToOK
<1>2. \A k \in Nat : k \in S => k + 1 \in S
  <2> SUFFICES ASSUME NEW k \in Nat, TenTo(m + k) = TenTo(m) * TenTo(k)
               PROVE  TenTo(m + (k + 1)) = TenTo(m) * TenTo(k + 1)
    OBVIOUS
  <2>1. m + (k + 1) = (m + k) + 1 /\ m + k \in Nat
    OBVIOUS
  <2>2. TenTo((m + k) + 1) = 10 * TenTo(m + k) /\ TenTo(k + 1) = 10 * TenTo(k)
    BY <2>1, TenToOK
  <2>3. TenTo(m) \in Nat /\ TenTo(k) \in Nat
    BY TenToOK
  <2>4. TenTo(m) * (10 * TenTo(k)) = 10 * (TenTo(m) * TenTo(k))
    BY <2>3
  <2>. QED BY <2>1, <2>2, <2>4
<1>3. \A k \in Nat : k \in S
  <2> HIDE DEF S
  <2>. QED BY <1>1, <1>2, Induction
<1>. QED BY <1>3

-----------------------------------------------------------------------------
(* The numbers of the reports and the transfers.                           *)

LEMMA WordParts ==
    /\ Ceiling \in Nat \ {0} /\ SignedMax \in Nat \ {0} /\ One \in Nat \ {0}
    /\ Word = 4 * Ceiling
    /\ SignedMax = 2 * Ceiling - 1
  <1>1. Scale \in Nat
    BY ScaleAssumption
  <1>2. One \in Nat \ {0}
    BY <1>1, TenToOK DEF One
  <1>. QED BY <1>2, WordAssumption DEF Ceiling, SignedMax

LEMMA Division ==
  ASSUME NEW n \in Int, NEW d \in Nat \ {0}
  PROVE  n \div d \in Int /\ n % d \in 0..d-1 /\ n = d * (n \div d) + (n % d)
  OBVIOUS

LEMMA UniqueDivision ==
  ASSUME NEW n \in Int, NEW d \in Nat \ {0}, NEW q \in Int, NEW r \in 0..(d-1),
         n = d * q + r
  PROVE  n \div d = q /\ n % d = r
  <1>1. n \div d \in Int /\ n % d \in 0..d-1 /\ n = d * (n \div d) + (n % d)
     BY Division
  <1>2. d * (n \div d - q) = r - (n % d)
     BY <1>1
  <1>3. \A k \in Int : k >= 1 => d * k >= d
     OBVIOUS
  <1>4. \A k \in Int : k <= -1 => d * k <= -d
     OBVIOUS
  <1>5. n \div d - q = 0
     BY <1>1, <1>2, <1>3, <1>4
  <1>. QED BY <1>1, <1>5

LEMMA WordRemainder ==
  ASSUME NEW n \in Int
  PROVE  /\ n \in 0..Word - 1 => n % Word = n
         /\ n \in -Word..-1 => n % Word = n + Word
  <1>1. Word \in Nat \ {0}
    BY WordAssumption
  <1>2. n \in 0..Word - 1 => n = Word * 0 + n
    BY <1>1
  <1>3. n \in -Word..-1 => n = Word * (-1) + (n + Word) /\ n + Word \in 0..Word - 1
    BY <1>1
  <1>. QED BY <1>1, <1>2, <1>3, UniqueDivision

LEMMA NearestOK ==
  ASSUME NEW n \in Nat, NEW d \in Nat \ {0}
  PROVE  /\ Nearest(n, d) \in Nat
         /\ IsNearest(Nearest(n, d), n, d)
         /\ (Nearest(n, d) - 1) * d <= n
  <1> DEFINE q == n \div d
             r == n % d
             N == Nearest(n, d)
  <1>1. q \in Int /\ r \in 0..d - 1 /\ n = d * q + r
    BY Division
  <1>2. q \in Nat
    <2>1. q <= -1 => d * q <= -d
      BY <1>1
    <2>. QED BY <1>1, <2>1
  <1>3. q * d \in Nat /\ d * q = q * d
    BY <1>2
  <1>4. (q + 1) * d = q * d + d /\ (q - 1) * d = q * d - d
    BY <1>2
  <1>5. (q + 1) % 2 = 0 <=> q % 2 = 1
    BY <1>2
  <1>6. N = IF 2 * r > d \/ (2 * r = d /\ q % 2 = 1) THEN q + 1 ELSE q
    BY DEF Nearest
  <1>7. q % 2 \in {0, 1}
    BY <1>2
  <1>8. N \in Nat
    BY <1>2, <1>6
  <1> HIDE DEF q, r, N
  <1>9. CASE N = q + 1
    <2>1. 2 * r > d \/ (2 * r = d /\ q % 2 = 1)
      BY <1>6, <1>2, <1>9
    <2>2. N * d - n = d - r /\ (N - 1) * d = q * d
      <3>1. N * d = q * d + d /\ N - 1 = q
        BY <1>2, <1>4, <1>9
      <3>. QED BY <3>1, <1>1, <1>3
    <2>3. Magnitude(N * d - n) = d - r /\ Magnitude(d) = d
      BY <1>1, <2>2 DEF Magnitude
    <2>4. 2 * (d - r) < d \/ (2 * (d - r) = d /\ N % 2 = 0)
      BY <2>1, <1>1, <1>5, <1>9
    <2>5. IsNearest(N, n, d)
      BY <2>3, <2>4 DEF IsNearest
    <2>6. (N - 1) * d <= n
      BY <2>2, <1>1, <1>3
    <2>. QED BY <1>8, <2>5, <2>6 DEF N
  <1>10. CASE N = q
    <2>1. ~(2 * r > d) /\ ~(2 * r = d /\ q % 2 = 1)
      BY <1>6, <1>2, <1>10
    <2>2. N * d - n = -r /\ (N - 1) * d = q * d - d
      <3>1. N * d = q * d /\ (N - 1) * d = q * d - d
        BY <1>2, <1>4, <1>10
      <3>. QED BY <3>1, <1>1, <1>3
    <2>3. Magnitude(N * d - n) = r /\ Magnitude(d) = d
      BY <1>1, <2>2 DEF Magnitude
    <2>4. 2 * r < d \/ (2 * r = d /\ N % 2 = 0)
      BY <2>1, <1>1, <1>7, <1>10
    <2>5. IsNearest(N, n, d)
      BY <2>3, <2>4 DEF IsNearest
    <2>6. (N - 1) * d <= n
      BY <2>2, <1>1, <1>3
    <2>. QED BY <1>8, <2>5, <2>6 DEF N
  <1>. QED BY <1>6, <1>9, <1>10 DEF N

LEMMA WrappedOK ==
  ASSUME NEW x \in Nat, NEW y \in Nat
  PROVE  /\ Wrapped(x, y) <=> x * y >= Word
         /\ ~Wrapped(x, y) => Product(x, y) = x * y
  <1>1. Word \in Nat \ {0} /\ x * y \in Nat
    BY WordAssumption
  <1>2. CASE y = 0
    BY <1>1, <1>2, WordRemainder DEF Wrapped, Product
  <1>3. CASE y # 0 /\ x * y < Word
    <2>1. Product(x, y) = x * y
      BY <1>1, <1>3, WordRemainder DEF Product
    <2>2. x * y = y * x + 0 /\ 0 \in 0..y - 1 /\ y \in Nat \ {0}
      BY <1>3
    <2>3. (x * y) \div y = x
      BY <1>1, <2>2, UniqueDivision
    <2>. QED BY <1>1, <1>3, <2>1, <2>3 DEF Wrapped
  <1>4. CASE y # 0 /\ x * y >= Word
    <2>1. Product(x, y) \in 0..Word - 1
      BY <1>1, Division DEF Product
    <2>2. PICK p \in 0..Word - 1 : p = Product(x, y)
      BY <2>1
    <2>3. p \in Int /\ y \in Nat \ {0}
      BY <1>1, <1>4
    <2>4. p \div y \in Int /\ p % y \in 0..y - 1 /\ p = y * (p \div y) + (p % y)
      BY ONLY <2>3, Division
    <2>5. p \div y # x
      <3>1. SUFFICES ASSUME p \div y = x PROVE FALSE
        OBVIOUS
      <3>2. y * (p \div y) = x * y
        BY <3>1
      <3>3. p >= x * y
        BY <2>3, <2>4, <3>2, <1>1
      <3>. QED BY <3>3, <1>4, <1>1
    <2>. QED BY <1>4, <2>2, <2>5 DEF Wrapped
  <1>. QED BY <1>1, <1>2, <1>3, <1>4

LEMMA AddExact ==
  ASSUME NEW a \in -(SignedMax + 1)..SignedMax, NEW b \in -(SignedMax + 1)..SignedMax
  PROVE  CheckedAdd(a, b) = IfInWord(a + b)
  <1> DEFINE s == a + b
             bits == s % Word
             sum == IF bits > SignedMax THEN bits - Word ELSE bits
  <1>1. Word \in Nat /\ SignedMax \in Nat /\ Word = 2 * SignedMax + 2 /\ s \in Int
    BY WordParts
  <1>2. /\ s \in 0..Word - 1 => bits = s
        /\ s \in -Word..-1 => bits = s + Word
    BY <1>1, WordRemainder
  <1>3. CheckedAdd(a, b) =
          IF ((a < 0) # (sum < 0)) /\ ((b < 0) # (sum < 0)) THEN Fail ELSE Some(sum)
    BY DEF CheckedAdd
  <1>4. IfInWord(s) = IF s \in -(SignedMax + 1)..SignedMax THEN Some(s) ELSE Fail
    BY DEF IfInWord
  <1>5. s \in -Word..Word - 1
    BY <1>1
  <1>6. s \in -(SignedMax + 1)..SignedMax =>
          sum = s /\ ~(((a < 0) # (sum < 0)) /\ ((b < 0) # (sum < 0)))
    BY <1>1, <1>2, <1>5
  <1>7. s \notin -(SignedMax + 1)..SignedMax =>
          ((a < 0) # (sum < 0)) /\ ((b < 0) # (sum < 0))
    BY <1>1, <1>2, <1>5
  <1> HIDE DEF sum, bits
  <1>8. CASE s \in -(SignedMax + 1)..SignedMax
    BY <1>3, <1>4, <1>6, <1>8
  <1>9. CASE s \notin -(SignedMax + 1)..SignedMax
    BY <1>3, <1>4, <1>7, <1>9
  <1>. QED BY <1>8, <1>9

LEMMA SignOK ==
  ASSUME NEW a \in Int, NEW b \in Int
  PROVE  /\ Magnitude(a) \in Nat
         /\ a = Signed(a < 0, Magnitude(a))
         /\ a * b = Signed((a < 0) # (b < 0), Magnitude(a) * Magnitude(b))
  <1>1. Magnitude(a) \in Nat /\ a = Signed(a < 0, Magnitude(a))
    BY DEF Magnitude, Signed
  <1>2. CASE a < 0 /\ b < 0
    <2>1. (-a) * (-b) = a * b
      OBVIOUS
    <2>. QED BY <1>1, <1>2, <2>1 DEF Magnitude, Signed
  <1>3. CASE a < 0 /\ ~(b < 0)
    <2>1. (-a) * b = -(a * b)
      OBVIOUS
    <2>. QED BY <1>1, <1>3, <2>1 DEF Magnitude, Signed
  <1>4. CASE ~(a < 0) /\ b < 0
    <2>1. a * (-b) = -(a * b)
      OBVIOUS
    <2>. QED BY <1>1, <1>4, <2>1 DEF Magnitude, Signed
  <1>5. CASE ~(a < 0) /\ ~(b < 0)
    BY <1>1, <1>5 DEF Magnitude, Signed
  <1>. QED BY <1>2, <1>3, <1>4, <1>5

LEMMA NearestSigned ==
  ASSUME NEW N \in Nat, NEW n \in Nat, NEW e \in Int \ {0}, NEW na \in BOOLEAN,
         IsNearest(N, n, Magnitude(e))
  PROVE  IsNearest(Signed(na # (e < 0), N), Signed(na, n), e)
  <1> DEFINE d == Magnitude(e)
             v == Signed(na # (e < 0), N)
             w == v * e - Signed(na, n)
             u == N * d - n
  <1>1. d \in Nat \ {0} /\ Magnitude(d) = d /\ u \in Int
    BY DEF Magnitude
  <1>2. v \in Int /\ w \in Int /\ (v % 2 = 0 <=> N % 2 = 0)
    BY DEF Signed
  <1>3. w = u \/ w = -u
    <2>1. CASE e < 0
      <3>1. N * (-e) = -(N * e) /\ (-N) * e = -(N * e)
        OBVIOUS
      <3>. QED BY <2>1, <3>1 DEF Signed, Magnitude
    <2>2. CASE ~(e < 0)
      <3>1. (-N) * e = -(N * e)
        OBVIOUS
      <3>. QED BY <2>2, <3>1 DEF Signed, Magnitude
    <2>. QED BY <2>1, <2>2
  <1>4. 2 * Magnitude(u) < d \/ (2 * Magnitude(u) = d /\ N % 2 = 0)
    BY <1>1 DEF IsNearest
  <1>5. Magnitude(w) = Magnitude(u)
    <2> HIDE DEF w, u
    <2>. QED BY <1>1, <1>2, <1>3 DEF Magnitude
  <1>6. 2 * Magnitude(w) < d \/ (2 * Magnitude(w) = d /\ v % 2 = 0)
    BY ONLY <1>4, <1>5, <1>2
  <1>. QED BY <1>6 DEF IsNearest

LEMMA CappedOK ==
  ASSUME NEW N \in Nat, NEW n \in Nat, NEW e \in Int \ {0}, NEW na \in BOOLEAN,
         IsNearest(N, n, Magnitude(e)), (N - 1) * Magnitude(e) <= n
  PROVE  RightlyRounded(Capped(na # (e < 0), N), Signed(na, n), e,
                        n > Ceiling * Magnitude(e) - Magnitude(e))
  <1> DEFINE d == Magnitude(e)
             r == Capped(na # (e < 0), N)
  <1>1. d \in Nat \ {0} /\ Ceiling \in Nat
    BY WordParts DEF Magnitude
  <1>2. CASE N > Ceiling
    <2>1. r = Fail
      BY <1>2 DEF Capped
    <2>2. PICK k \in Nat : N = Ceiling + 1 + k
      <3>1. N - Ceiling - 1 \in Nat /\ N = Ceiling + 1 + (N - Ceiling - 1)
        BY <1>1, <1>2
      <3>. QED BY <3>1
    <2>3. (N - 1) * d = Ceiling * d + k * d /\ k * d \in Nat /\ Ceiling * d \in Nat
      BY <1>1, <2>2
    <2>4. n > Ceiling * d - d
      BY <1>1, <2>3
    <2>. QED BY <2>1, <2>4 DEF RightlyRounded, Fail
  <1>3. CASE ~(N > Ceiling)
    <2>1. r = Some(Signed(na # (e < 0), N))
      BY <1>3 DEF Capped
    <2>2. IsNearest(Signed(na # (e < 0), N), Signed(na, n), e)
      BY NearestSigned
    <2>. QED BY <2>1, <2>2 DEF RightlyRounded, Some
  <1>. QED BY <1>2, <1>3

LEMMA MultiplyOK ==
  ASSUME NEW a \in Int, NEW b \in Int
  PROVE  RightlyRounded(Multiply(a, b), a * b, One,
                        \/ Magnitude(a) * Magnitude(b) >= Word
                        \/ Magnitude(a) * Magnitude(b) > Ceiling * One - One)
  <1> DEFINE negative == (a < 0) # (b < 0)
  <1>1. One \in Nat \ {0} /\ Magnitude(One) = One /\ ~(One < 0) /\ One \in Int \ {0}
    BY WordParts DEF Magnitude
  <1>2. PICK x \in Nat, y \in Nat : x = Magnitude(a) /\ y = Magnitude(b)
    BY SignOK
  <1>3. PICK n \in Nat : n = x * y
    OBVIOUS
  <1>4. PICK negated \in BOOLEAN : negated = negative
    OBVIOUS
  <1>5. a * b = Signed(negated, n)
    BY <1>2, <1>3, <1>4, SignOK
  <1>6. /\ Wrapped(x, y) <=> n >= Word
        /\ ~Wrapped(x, y) => Product(x, y) = n
    BY <1>3, WrappedOK
  <1>7. CASE Wrapped(x, y)
    <2>1. Multiply(a, b) = Fail
      BY <1>2, <1>7 DEF Multiply
    <2>. QED BY <2>1, <1>2, <1>3, <1>6, <1>7 DEF RightlyRounded, Fail
  <1>8. CASE ~Wrapped(x, y)
    <2>1. PICK N : N = Nearest(n, One)
      OBVIOUS
    <2>2. N \in Nat /\ IsNearest(N, n, One) /\ (N - 1) * One <= n
      BY <1>1, <2>1, NearestOK
    <2>3. Multiply(a, b) = Capped(negated # (One < 0), N)
      BY <1>1, <1>2, <1>4, <1>6, <1>8, <2>1 DEF Multiply
    <2>4. RightlyRounded(Capped(negated # (One < 0), N), Signed(negated, n), One,
                         n > Ceiling * Magnitude(One) - Magnitude(One))
      BY <1>1, <2>2, CappedOK
    <2>. QED BY <1>1, <1>2, <1>3, <1>5, <2>3, <2>4 DEF RightlyRounded
  <1>. QED BY <1>7, <1>8

LEMMA DivideOK ==
  ASSUME NEW a \in Int, NEW b \in Int \ {0}
  PROVE  RightlyRounded(Divide(a, b), a * One, b,
                        \/ Magnitude(a) * One >= Word
                        \/ Magnitude(a) * One > Ceiling * Magnitude(b) - Magnitude(b))
  <1>1. One \in Nat \ {0} /\ Magnitude(One) = One /\ ~(One < 0) /\ One \in Int
    BY WordParts DEF Magnitude
  <1>2. PICK x \in Nat, y \in Nat \ {0} : x = Magnitude(a) /\ y = Magnitude(b)
    BY SignOK DEF Magnitude
  <1>3. PICK n \in Nat : n = x * One
    BY <1>1
  <1>4. PICK negated \in BOOLEAN : negated <=> a < 0
    <2>1. CASE a < 0
      BY <2>1
    <2>2. CASE ~(a < 0)
      BY <2>2
    <2>. QED BY <2>1, <2>2
  <1>5. a * One = Signed(negated, n)
    <2>1. a * One = Signed((a < 0) # (One < 0), Magnitude(a) * Magnitude(One))
      BY <1>1, SignOK
    <2>. QED BY <1>1, <1>2, <1>3, <1>4, <2>1 DEF Signed
  <1>6. /\ Wrapped(x, One) <=> n >= Word
        /\ ~Wrapped(x, One) => Product(x, One) = n
    BY <1>1, <1>3, WrappedOK
  <1>7. CASE Wrapped(x, One)
    <2>1. Divide(a, b) = Fail
      BY <1>2, <1>7 DEF Divide
    <2>. QED BY <2>1, <1>2, <1>3, <1>6, <1>7 DEF RightlyRounded, Fail
  <1>8. CASE ~Wrapped(x, One)
    <2>1. PICK N : N = Nearest(n, y)
      OBVIOUS
    <2>2. N \in Nat /\ IsNearest(N, n, y) /\ (N - 1) * y <= n
      BY <2>1, NearestOK
    <2>3. Divide(a, b) = Capped(negated # (b < 0), N)
      BY <1>2, <1>4, <1>6, <1>8, <2>1 DEF Divide
    <2>4. RightlyRounded(Capped(negated # (b < 0), N), Signed(negated, n), b,
                         n > Ceiling * Magnitude(b) - Magnitude(b))
      BY <1>2, <2>2, CappedOK
    <2>. QED BY <1>2, <1>3, <1>5, <2>3, <2>4 DEF RightlyRounded
  <1>. QED BY <1>7, <1>8

LEMMA MultipleOK ==
  ASSUME NEW v \in Int, NEW u \in Nat \ {0}
  PROVE  (v * u) % u = 0 /\ (v * u) \div u = v
  <1>1. v * u \in Int /\ 0 \in 0..u - 1 /\ v * u = u * v + 0
    OBVIOUS
  <1>. QED BY <1>1, UniqueDivision

(* The code's rounding of a to a column of the given places.               *)
RoundedWell(a, places) ==
    LET unit == TenTo(Scale - places)
        r == RoundTo(a, places)
    IN  IF r.ok THEN r.value % unit = 0 /\ IsNearest(r.value \div unit, a, unit)
        ELSE Magnitude(a) + unit > SignedMax

LEMMA RoundOK ==
  ASSUME NEW a \in Int, NEW places \in 0..Scale
  PROVE  RoundedWell(a, places)
  <1>1. PICK u \in Nat \ {0} : u = TenTo(Scale - places)
    <2>1. Scale - places \in 0..Scale
      BY ScaleAssumption
    <2>. QED BY <2>1, TenToOK
  <1>2. PICK x \in Nat : x = Magnitude(a)
    BY SignOK
  <1>3. PICK N : N = Nearest(x, u)
    OBVIOUS
  <1>4. N \in Nat /\ IsNearest(N, x, u) /\ (N - 1) * u <= x
    BY <1>3, NearestOK
  <1>5. PICK negated \in BOOLEAN : negated <=> a < 0
    <2>1. CASE a < 0
      BY <2>1
    <2>2. CASE ~(a < 0)
      BY <2>2
    <2>. QED BY <2>1, <2>2
  <1>6. a = Signed(negated, x)
    BY <1>2, <1>5 DEF Signed, Magnitude
  <1>7. RoundTo(a, places) = IF N * u > SignedMax THEN Fail ELSE Some(Signed(negated, N * u))
    BY <1>1, <1>2, <1>3, <1>5 DEF RoundTo
  <1>8. CASE N * u > SignedMax
    <2>1. (N - 1) * u = N * u - u /\ N * u \in Nat
      BY <1>4
    <2>2. x + u > SignedMax
      BY <1>4, <1>8, <2>1, WordParts
    <2>. QED BY <1>1, <1>2, <1>7, <1>8, <2>2 DEF RoundedWell, Fail
  <1>9. CASE ~(N * u > SignedMax)
    <2>1. PICK v \in Int : v = Signed(negated, N)
      BY <1>4 DEF Signed
    <2>2. Signed(negated, N * u) = v * u
      <3>1. (-N) * u = -(N * u)
        BY <1>4
      <3>. QED BY <2>1, <3>1 DEF Signed
    <2>3. (v * u) % u = 0 /\ (v * u) \div u = v
      BY MultipleOK
    <2>4. u \in Int \ {0} /\ Magnitude(u) = u /\ ~(u < 0)
      BY DEF Magnitude
    <2>5. IsNearest(Signed(negated # (u < 0), N), Signed(negated, x), u)
      BY <1>4, <2>4, NearestSigned
    <2>6. IsNearest(v, a, u)
      BY <1>6, <2>1, <2>4, <2>5
    <2>7. RoundTo(a, places) = Some(v * u)
      BY <1>7, <1>9, <2>2
    <2>. QED BY <1>1, <2>3, <2>6, <2>7 DEF RoundedWell, Some
  <1>. QED BY <1>8, <1>9

LEMMA PairOK ==
  ASSUME NEW a \in -SignedMax..SignedMax, NEW b \in -SignedMax..SignedMax
  PROVE  PairSound(a, b)
  <1>1. SignedMax \in Nat /\ a \in Int /\ b \in Int
    BY WordParts
  <1>2. RightlyRounded(Multiply(a, b), a * b, One,
                       \/ Magnitude(a) * Magnitude(b) >= Word
                       \/ Magnitude(a) * Magnitude(b) > Ceiling * One - One)
    BY <1>1, MultiplyOK
  <1>3. b # 0 =>
          RightlyRounded(Divide(a, b), a * One, b,
                         \/ Magnitude(a) * One >= Word
                         \/ Magnitude(a) * One > Ceiling * Magnitude(b) - Magnitude(b))
    BY <1>1, DivideOK
  <1>4. b = 0 => ~Divide(a, b).ok
    BY DEF Divide, Fail
  <1>5. \A places \in 0..Scale : RoundedWell(a, places)
    BY <1>1, RoundOK
  <1>6. Subtract(a, b) = IfInWord(a - b)
    <2>1. PICK opposite \in -(SignedMax + 1)..SignedMax : opposite = -b
      BY <1>1
    <2>2. a \in -(SignedMax + 1)..SignedMax /\ a - b = a + opposite
      BY <1>1, <2>1
    <2>3. CheckedAdd(a, opposite) = IfInWord(a + opposite)
      BY <2>2, AddExact
    <2>. QED BY <2>1, <2>2, <2>3 DEF Subtract
  <1>. QED BY <1>2, <1>3, <1>4, <1>5, <1>6, Zenon DEF PairSound, RoundedWell

-----------------------------------------------------------------------------
(* The tolerance of a transfer.                                            *)

LEMMA UnitOK == AmountUnit \in Nat \ {0}
  <1>1. Scale - AmountPlaces \in 0..Scale
    BY ScaleAssumption
  <1>. QED BY <1>1, TenToOK DEF AmountUnit

(* A distance at most d, without the sign.                                 *)
LEMMA MagnitudeOK ==
  ASSUME NEW n \in Int, NEW d \in Int
  PROVE  2 * Magnitude(n) <= d <=> 2 * n <= d /\ -(2 * n) <= d
  BY DEF Magnitude

LEMMA ProductNear ==
  ASSUME NEW a \in Nat, NEW b \in Nat, Multiply(a, b).ok
  PROVE  /\ Multiply(a, b).value \in Nat
         /\ 2 * (Multiply(a, b).value * One - a * b) <= One
         /\ 2 * (a * b - Multiply(a, b).value * One) <= One
  <1>1. PICK v : v = Multiply(a, b).value
    OBVIOUS
  <1>2. One \in Nat \ {0} /\ Magnitude(One) = One
    BY WordParts DEF Magnitude
  <1>3. IsNearest(v, a * b, One)
    BY <1>1, MultiplyOK DEF RightlyRounded
  <1>4. v \in Nat
    <2>1. Magnitude(a) = a /\ Magnitude(b) = b /\ ~(a < 0) /\ ~(b < 0)
      BY DEF Magnitude
    <2>2. /\ ~Wrapped(a, b)
          /\ Multiply(a, b) = Capped((a < 0) # (b < 0), Nearest(Product(a, b), One))
      BY <2>1 DEF Multiply, Fail
    <2>3. Product(a, b) = a * b /\ a * b \in Nat
      BY <2>2, WrappedOK
    <2>4. Nearest(Product(a, b), One) \in Nat
      BY <1>2, <2>3, NearestOK
    <2>. QED BY <1>1, <2>1, <2>2, <2>4 DEF Capped, Some, Fail, Signed
  <1>5. v * One \in Int /\ a * b \in Int
    BY <1>2, <1>4
  <1>6. PICK n \in Int : n = v * One - a * b
    BY <1>5
  <1>7. 2 * Magnitude(n) <= One
    BY <1>2, <1>3, <1>6 DEF IsNearest, Magnitude
  <1>8. 2 * n <= One /\ -(2 * n) <= One
    BY <1>2, <1>7, MagnitudeOK
  <1>. QED BY <1>1, <1>4, <1>5, <1>6, <1>8

LEMMA QuotientNear ==
  ASSUME NEW a \in Nat, NEW b \in Nat \ {0}, Divide(a, b).ok
  PROVE  /\ Divide(a, b).value \in Nat
         /\ 2 * (Divide(a, b).value * b - a * One) <= b
         /\ 2 * (a * One - Divide(a, b).value * b) <= b
  <1>1. PICK v : v = Divide(a, b).value
    OBVIOUS
  <1>2. One \in Nat \ {0} /\ Magnitude(b) = b /\ Magnitude(a) = a
    BY WordParts DEF Magnitude
  <1>3. IsNearest(v, a * One, b)
    BY <1>1, DivideOK DEF RightlyRounded
  <1>4. v \in Nat
    <2>1. /\ ~Wrapped(a, One)
          /\ Divide(a, b) = Capped((a < 0) # (b < 0), Nearest(Product(a, One), b))
      BY <1>2 DEF Divide, Fail
    <2>2. Product(a, One) = a * One /\ a * One \in Nat
      BY <1>2, <2>1, WrappedOK
    <2>3. Nearest(Product(a, One), b) \in Nat
      BY <2>2, NearestOK
    <2>. QED BY <1>1, <2>1, <2>3 DEF Capped, Some, Fail, Signed
  <1>5. v * b \in Int /\ a * One \in Int
    BY <1>2, <1>4
  <1>6. PICK n \in Int : n = v * b - a * One
    BY <1>5
  <1>7. 2 * Magnitude(n) <= b
    BY <1>2, <1>3, <1>6 DEF IsNearest, Magnitude
  <1>8. 2 * n <= b /\ -(2 * n) <= b
    BY <1>7, MagnitudeOK
  <1>. QED BY <1>1, <1>4, <1>5, <1>6, <1>8

LEMMA ColumnNear ==
  ASSUME NEW a \in Nat, RoundTo(a, AmountPlaces).ok
  PROVE  /\ RoundTo(a, AmountPlaces).value \in Nat
         /\ 2 * (RoundTo(a, AmountPlaces).value - a) <= AmountUnit
         /\ 2 * (a - RoundTo(a, AmountPlaces).value) <= AmountUnit
  <1>1. PICK u \in Nat \ {0} : u = AmountUnit
    BY UnitOK
  <1>2. PICK N : N = Nearest(a, u)
    OBVIOUS
  <1>3. N \in Nat /\ IsNearest(N, a, u)
    BY <1>2, NearestOK
  <1>4. RoundTo(a, AmountPlaces).value = N * u
    <2>1. Magnitude(a) = a /\ ~(a < 0)
      BY DEF Magnitude
    <2>. QED BY <1>1, <1>2, <2>1 DEF RoundTo, AmountUnit, Some, Fail, Signed
  <1>5. N * u \in Nat
    BY <1>3
  <1>6. PICK n \in Int : n = N * u - a
    BY <1>5
  <1>7. 2 * Magnitude(n) <= u
    BY <1>3, <1>6 DEF IsNearest, Magnitude
  <1>8. 2 * n <= u /\ -(2 * n) <= u
    BY <1>7, MagnitudeOK
  <1>. QED BY <1>1, <1>4, <1>5, <1>6, <1>8

LEMMA SmallProduct ==
  ASSUME NEW a \in Nat, NEW b \in Nat, a * b < Ceiling
  PROVE  Multiply(a, b).ok
  <1>1. Magnitude(a) = a /\ Magnitude(b) = b
    BY DEF Magnitude
  <1>2. Ceiling \in Nat \ {0} /\ One \in Nat \ {0} /\ Word = 4 * Ceiling /\ a * b \in Nat
    BY WordParts
  <1>3. Ceiling * One - One >= Ceiling - 1
    <2>1. PICK c \in Nat, o \in Nat : Ceiling = c + 1 /\ One = o + 1
      <3>1. Ceiling - 1 \in Nat /\ One - 1 \in Nat
        BY <1>2
      <3>. QED BY <1>2, <3>1
    <2>2. Ceiling * One - One = c * o + c /\ c * o \in Nat
      BY <2>1
    <2>. QED BY <2>1, <2>2
  <1>4. ~(a * b >= Word \/ a * b > Ceiling * One - One)
    BY <1>2, <1>3
  <1>5. RightlyRounded(Multiply(a, b), a * b, One,
                       \/ Magnitude(a) * Magnitude(b) >= Word
                       \/ Magnitude(a) * Magnitude(b) > Ceiling * One - One)
    <2>1. a \in Int /\ b \in Int
      OBVIOUS
    <2>. QED BY ONLY <2>1, MultiplyOK, Zenon
  <1>. QED BY <1>1, <1>4, <1>5 DEF RightlyRounded

(* What fits a column is less than the column's integer digits allow.      *)
LEMMA ColumnBound ==
  ASSUME NEW a \in Nat, NEW digits \in {AmountDigits, RateDigits}, NEW places \in 0..Scale,
         Fits(a, digits, places)
  PROVE  TenTo(digits) \in Nat \ {0} /\ a + One < (TenTo(digits) + 1) * One
  <1>1. PICK limit \in Nat \ {0} : limit = TenTo(digits)
    BY DigitsAssumption, TenToOK
  <1>2. One \in Nat \ {0} /\ Magnitude(a) = a
    BY WordParts DEF Magnitude
  <1>3. PICK q : q = a \div One
    OBVIOUS
  <1>4. a \div One \in Int /\ a % One \in 0..One - 1 /\ a = One * (a \div One) + (a % One)
    BY <1>2, Division
  <1>5. q \in Int /\ a < One * q + One /\ q < limit
    BY <1>1, <1>2, <1>3, <1>4 DEF Fits
  <1>6. PICK k \in Nat : limit = q + 1 + k
    <2>1. limit - q - 1 \in Nat /\ limit = q + 1 + (limit - q - 1)
      BY <1>5
    <2>. QED BY <2>1
  <1>7. (limit + 1) * One = One * q + 2 * One + k * One /\ k * One \in Nat
    BY <1>2, <1>5, <1>6
  <1>. QED BY <1>1, <1>2, <1>5, <1>7

(* The tolerance covers one unit of the amount at the rate and beside it,  *)
(* and one step of the rate at the amount.                                 *)
LEMMA ToleranceOK ==
  ASSUME NEW outgoing \in Nat, NEW rate \in Nat, FitsAmount(outgoing), FitsRate(rate)
  PROVE  /\ Tolerance(outgoing, rate) \in Nat
         /\ 2 * (Tolerance(outgoing, rate) * One)
              >= 2 * (AmountUnit * rate) + 2 * (AmountUnit * One) + 2 * outgoing
  <1>1. PICK u \in Nat \ {0}, o \in Nat \ {0} : u = AmountUnit /\ o = One
    BY UnitOK, WordParts
  <1>2. Ceiling \in Nat
    BY WordParts
  <1>3. outgoing + o < Ceiling
    <2>1. outgoing + One < (TenTo(AmountDigits) + 1) * One
      BY ScaleAssumption, ColumnBound DEF FitsAmount
    <2>2. TenTo(AmountDigits) \in Nat
      BY DigitsAssumption, TenToOK
    <2>. QED BY <1>1, <1>2, <2>1, <2>2, ColumnAssumption
  <1>4. u * (rate + o) < Ceiling
    <2>1. rate + One < (TenTo(RateDigits) + 1) * One
      BY ScaleAssumption, ColumnBound DEF FitsRate
    <2>2. PICK p \in Nat : p = TenTo(RateDigits) + 1
      BY DigitsAssumption, TenToOK
    <2>3. PICK w \in Nat : w = p * o
      BY <1>1
    <2>4. rate + o < w
      BY <1>1, <2>1, <2>2, <2>3
    <2>5. u * (rate + o) < u * w
      <3>1. PICK k \in Nat : w = rate + o + 1 + k
        <4>1. w - rate - o - 1 \in Nat /\ w = rate + o + 1 + (w - rate - o - 1)
          BY <2>4
        <4>. QED BY <4>1
      <3>2. u * w = u * (rate + o) + u + u * k /\ u * k \in Nat
        BY <3>1
      <3>. QED BY <3>2
    <2>6. u * w <= Ceiling
      <3>1. u * w = u * p * o
        BY <2>3
      <3>. QED BY <1>1, <2>2, <3>1, ColumnAssumption
    <2>. QED BY <1>2, <2>5, <2>6
  <1>5. PICK x \in Nat : x = rate + o
    OBVIOUS
  <1>6. PICK y \in Nat : y = outgoing + o
    OBVIOUS
  <1>7. PICK s : s = Multiply(u, x).value
    OBVIOUS
  <1>8. PICK t : t = Multiply(1, y).value
    OBVIOUS
  <1>9. s \in Nat /\ 2 * (u * x - s * o) <= o
    BY <1>1, <1>4, <1>5, <1>7, SmallProduct, ProductNear
  <1>10. t \in Nat /\ 2 * (y - t * o) <= o
    <2>1. 1 * y < Ceiling /\ 1 * y = y
      BY <1>3, <1>6
    <2>. QED BY <1>1, <1>8, <2>1, SmallProduct, ProductNear
  <1>11. Tolerance(outgoing, rate) = s + t
    BY <1>1, <1>5, <1>6, <1>7, <1>8 DEF Tolerance, RateUnit
  <1>12. (s + t) * o = s * o + t * o /\ u * x = u * rate + u * o
    BY <1>5, <1>9, <1>10
  <1>13. s * o \in Nat /\ t * o \in Nat /\ u * rate \in Nat /\ u * o \in Nat
    BY <1>9, <1>10
  <1>14. 2 * ((s + t) * o) >= 2 * (u * rate) + 2 * (u * o) + 2 * outgoing
    BY <1>6, <1>9, <1>10, <1>12, <1>13
  <1>. QED BY <1>1, <1>9, <1>10, <1>11, <1>14

(* An amount is within the tolerance when what the rates and amounts in    *)
(* between are off by is.                                                  *)
LEMMA WithinOK ==
  ASSUME NEW outgoing \in Nat, NEW incoming \in Nat, NEW rate \in Nat,
         FitsAmount(outgoing), FitsRate(rate), Multiply(outgoing, rate).ok,
         NEW slack \in Nat,
         slack + One <= 2 * (AmountUnit * rate) + 2 * (AmountUnit * One) + 2 * outgoing,
         2 * (incoming * One - outgoing * rate) <= slack,
         2 * (outgoing * rate - incoming * One) <= slack
  PROVE  WithinTolerance(outgoing, incoming, rate)
  <1>1. PICK o \in Nat \ {0} : o = One
    BY WordParts
  <1>2. PICK e \in Nat : /\ e = Multiply(outgoing, rate).value
                         /\ 2 * (e * o - outgoing * rate) <= o
                         /\ 2 * (outgoing * rate - e * o) <= o
    BY <1>1, ProductNear
  <1>3. PICK t \in Nat :
          /\ t = Tolerance(outgoing, rate)
          /\ 2 * (t * o) >= 2 * (AmountUnit * rate) + 2 * (AmountUnit * o) + 2 * outgoing
    BY <1>1, ToleranceOK
  <1>4. /\ outgoing * rate \in Nat /\ incoming * o \in Nat /\ e * o \in Nat /\ t * o \in Nat
        /\ AmountUnit * rate \in Nat /\ AmountUnit * o \in Nat
    BY UnitOK
  <1>5. /\ incoming * o - e * o <= t * o
        /\ e * o - incoming * o <= t * o
    BY <1>1, <1>2, <1>3, <1>4
  <1>6. incoming - e <= t
    <2>1. SUFFICES ASSUME incoming - e > t PROVE FALSE
      BY <1>4
    <2>2. PICK k \in Nat : incoming = e + t + 1 + k
      <3>1. incoming - e - t - 1 \in Nat /\ incoming = e + t + 1 + (incoming - e - t - 1)
        BY <2>1
      <3>. QED BY <3>1
    <2>3. incoming * o = e * o + t * o + o + k * o /\ k * o \in Nat
      BY <2>2
    <2>. QED BY <1>4, <1>5, <2>3
  <1>7. e - incoming <= t
    <2>1. SUFFICES ASSUME e - incoming > t PROVE FALSE
      BY <1>4
    <2>2. PICK k \in Nat : e = incoming + t + 1 + k
      <3>1. e - incoming - t - 1 \in Nat /\ e = incoming + t + 1 + (e - incoming - t - 1)
        BY <2>1
      <3>. QED BY <3>1
    <2>3. e * o = incoming * o + t * o + o + k * o /\ k * o \in Nat
      BY <2>2
    <2>. QED BY <1>4, <1>5, <2>3
  <1>8. Magnitude(incoming - e) <= t
    BY <1>6, <1>7 DEF Magnitude
  <1>. QED BY <1>2, <1>3, <1>8 DEF WithinTolerance

LEMMA FitsTolerance ==
  ASSUME NEW f,
         f.mode \in Modes,
         {f.outgoing, f.incoming, f.rate, f.fee} \subseteq -SignedMax..SignedMax,
         Acceptable(f), Rechecked(f)
  PROVE  Validated(f)
  <1>1. SUFFICES ASSUME ~SameCurrency(f)
                 PROVE  WithinTolerance(Outgoing(f).value, Incoming(f).value, Rate(f).value)
    BY DEF Validated
  <1>2. PICK outgoing, incoming, rate : /\ outgoing = Outgoing(f).value
                                        /\ incoming = Incoming(f).value
                                        /\ rate = Rate(f).value
    OBVIOUS
  <1>3. /\ Outgoing(f).ok /\ Incoming(f).ok /\ Rate(f).ok
        /\ outgoing > 0 /\ FitsAmount(outgoing)
        /\ incoming > 0
        /\ rate > 0 /\ FitsRate(rate)
        /\ Multiply(outgoing, rate).ok
    BY <1>1, <1>2 DEF Acceptable, RateUsable, Rechecked
  <1>4. f.outgoing \in Int /\ f.incoming \in Int /\ f.rate \in Int
    BY WordParts
  <1>5. PICK u \in Nat \ {0}, o \in Nat \ {0} : u = AmountUnit /\ o = One
    BY UnitOK, WordParts
  <1>6. CASE f.mode = "OutgoingAndRate"
    <2>1. outgoing = f.outgoing /\ rate = f.rate
      BY <1>1, <1>2, <1>6 DEF Outgoing, Rate, Some
    <2>2. outgoing \in Nat /\ rate \in Nat
      BY <1>3, <1>4, <2>1
    <2>3. Incoming(f) = ToColumn(Multiply(outgoing, rate))
      BY <1>6, <2>1 DEF Incoming
    <2>4. PICK e \in Nat : /\ e = Multiply(outgoing, rate).value
                           /\ 2 * (e * o - outgoing * rate) <= o
                           /\ 2 * (outgoing * rate - e * o) <= o
      BY <1>3, <1>5, <2>2, ProductNear
    <2>5. Incoming(f) = RoundTo(e, AmountPlaces)
      BY <1>3, <2>3, <2>4 DEF ToColumn
    <2>6. incoming \in Nat /\ 2 * (incoming - e) <= u /\ 2 * (e - incoming) <= u
      BY <1>2, <1>3, <1>5, <2>5, ColumnNear
    <2>7. PICK t \in Nat :
            /\ t = Tolerance(outgoing, rate)
            /\ 2 * (t * o) >= 2 * (u * rate) + 2 * (u * o) + 2 * outgoing
      BY <1>3, <1>5, <2>2, ToleranceOK
    <2>8. t >= u
      <3>1. SUFFICES ASSUME t < u PROVE FALSE
        OBVIOUS
      <3>2. PICK k \in Nat : u = t + 1 + k
        <4>1. u - t - 1 \in Nat /\ u = t + 1 + (u - t - 1)
          BY <3>1
        <4>. QED BY <4>1
      <3>3. u * o = t * o + o + k * o /\ k * o \in Nat
        BY <3>2
      <3>4. u * rate \in Nat /\ t * o \in Nat
        BY <2>2
      <3>. QED BY <2>2, <2>7, <3>3, <3>4
    <2>9. Magnitude(incoming - e) <= t
      BY <2>6, <2>8 DEF Magnitude
    <2>. QED BY <1>2, <1>3, <2>4, <2>7, <2>9 DEF WithinTolerance
  <1>7. CASE f.mode = "IncomingAndRate"
    <2>1. incoming = f.incoming /\ rate = f.rate
      BY <1>1, <1>2, <1>7 DEF Incoming, Rate, Some
    <2>2. incoming \in Nat /\ rate \in Nat \ {0}
      BY <1>3, <1>4, <2>1
    <2>3. Outgoing(f) = ToColumn(Divide(incoming, rate))
      BY <1>7, <2>1 DEF Outgoing
    <2>4. Divide(incoming, rate).ok
      BY <1>3, <2>3 DEF ToColumn, Fail
    <2>5. PICK d \in Nat : /\ d = Divide(incoming, rate).value
                           /\ 2 * (d * rate - incoming * o) <= rate
                           /\ 2 * (incoming * o - d * rate) <= rate
      BY <1>5, <2>2, <2>4, QuotientNear
    <2>6. Outgoing(f) = RoundTo(d, AmountPlaces)
      BY <2>3, <2>4, <2>5 DEF ToColumn
    <2>7. outgoing \in Nat /\ 2 * (outgoing - d) <= u /\ 2 * (d - outgoing) <= u
      BY <1>2, <1>3, <1>5, <2>6, ColumnNear
    <2>8. PICK n \in Int : n = outgoing - d
      BY <2>7
    <2>9. outgoing * rate = d * rate + n * rate /\ 2 * n <= u /\ -(2 * n) <= u
      <3>1. outgoing = d + n
        BY <2>7, <2>8
      <3>. QED BY <2>2, <2>7, <2>8, <3>1
    <2>10. 2 * (n * rate) <= u * rate /\ -(2 * (n * rate)) <= u * rate
      <3>1. \A k, l \in Int : k <= l => k * rate <= l * rate
        BY <2>2
      <3>2. (2 * n) * rate <= u * rate /\ (-(2 * n)) * rate <= u * rate
        BY <2>9, <3>1
      <3>3. (2 * n) * rate = 2 * (n * rate) /\ (-(2 * n)) * rate = -(2 * (n * rate))
        BY <2>2
      <3>. QED BY <3>2, <3>3
    <2>11. PICK slack \in Nat : slack = u * rate + rate
      BY <2>2
    <2>12. /\ outgoing * rate \in Nat /\ incoming * o \in Nat /\ d * rate \in Nat
           /\ n * rate \in Int /\ u * o \in Nat /\ u * rate \in Nat
      BY <2>2, <2>7
    <2>13. /\ 2 * (incoming * o - outgoing * rate) <= slack
           /\ 2 * (outgoing * rate - incoming * o) <= slack
      BY <2>2, <2>5, <2>9, <2>10, <2>11, <2>12
    <2>14. rate <= u * rate /\ o <= u * o
      <3>1. PICK k \in Nat : u = k + 1
        <4>1. u - 1 \in Nat /\ u = (u - 1) + 1
          OBVIOUS
        <4>. QED BY <4>1
      <3>2. u * o = k * o + o /\ k * o \in Nat /\ u * rate = k * rate + rate /\ k * rate \in Nat
        BY <2>2, <3>1
      <3>. QED BY <2>2, <3>2
    <2>15. slack + o <= 2 * (u * rate) + 2 * (u * o) + 2 * outgoing
      BY <2>2, <2>7, <2>11, <2>12, <2>14
    <2>. QED BY <1>2, <1>3, <1>5, <2>2, <2>7, <2>13, <2>15, WithinOK
  <1>8. CASE f.mode = "BothAmounts"
    <2>1. outgoing = f.outgoing /\ incoming = f.incoming
      BY <1>2, <1>8 DEF Outgoing, Incoming, Some
    <2>2. outgoing \in Nat \ {0} /\ incoming \in Nat
      BY <1>3, <1>4, <2>1
    <2>3. Rate(f) = Divide(incoming, outgoing)
      BY <1>1, <1>8, <2>1 DEF Rate
    <2>4. /\ rate \in Nat
          /\ 2 * (rate * outgoing - incoming * o) <= outgoing
          /\ 2 * (incoming * o - rate * outgoing) <= outgoing
      BY <1>2, <1>3, <1>5, <2>2, <2>3, QuotientNear
    <2>5. rate * outgoing = outgoing * rate
      BY <2>2, <2>4
    <2>6. outgoing * rate \in Nat /\ u * o \in Nat /\ u * rate \in Nat /\ incoming * o \in Nat
      BY <2>2, <2>4
    <2>7. o <= u * o
      <3>1. PICK k \in Nat : u = k + 1
        <4>1. u - 1 \in Nat /\ u = (u - 1) + 1
          OBVIOUS
        <4>. QED BY <4>1
      <3>2. u * o = k * o + o /\ k * o \in Nat
        BY <3>1
      <3>. QED BY <3>2
    <2>8. outgoing + o <= 2 * (u * rate) + 2 * (u * o) + 2 * outgoing
      BY <2>2, <2>6, <2>7
    <2>9. /\ 2 * (incoming * o - outgoing * rate) <= outgoing
          /\ 2 * (outgoing * rate - incoming * o) <= outgoing
      BY <2>4, <2>5
    <2>. QED BY <1>2, <1>3, <1>5, <2>2, <2>4, <2>8, <2>9, WithinOK
  <1>. QED BY <1>6, <1>7, <1>8 DEF Modes

-----------------------------------------------------------------------------
(* What digits say.                                                        *)

Reading(f, d) == f = [k \in 0..Len(d) |-> IF k = 0 THEN 0 ELSE 10 * f[k - 1] + d[k]]

(* What the first digits say, for each number of them.                     *)
Readings(d) == CHOOSE f : Reading(f, d)

LEMMA PrefixesOK ==
  ASSUME NEW d \in Seq(0..9)
  PROVE  /\ Readings(d) \in [0..Len(d) -> Nat]
         /\ Readings(d)[0] = 0
         /\ \A k \in 1..Len(d) : Readings(d)[k] = 10 * Readings(d)[k - 1] + d[k]
         /\ Number(d) = Readings(d)[Len(d)]
<1> DEFINE step == [k \in 1..Len(d) |-> [n \in Nat |-> 10 * n + d[k]]]
<1>1. Len(d) \in Nat /\ \A k \in 1..Len(d) : d[k] \in 0..9
  OBVIOUS
<1>2. step \in [1..Len(d) -> [Nat -> Nat]]
  BY <1>1
<1>3. \A k \in 1..Len(d), n \in Nat : step[k][n] = 10 * n + d[k]
  OBVIOUS
<1> HIDE DEF step
<1>4. PICK f \in [0..Len(d) -> Nat] :
        f[0] = 0 /\ \A k \in 1..Len(d) : f[k] = step[k][f[k - 1]]
  <2>1. Len(d) \in Nat /\ 0 \in Nat
    BY <1>1
  <2>2. Runs(Nat, 0, Len(d), step)
    BY ONLY <1>2, <2>1, Recursion
  <2>. QED  BY <2>2 DEF Runs
<1>5. \A k \in 0..Len(d) : f[k] = IF k = 0 THEN 0 ELSE 10 * f[k - 1] + d[k]
  <2> SUFFICES ASSUME NEW k \in 1..Len(d) PROVE f[k] = 10 * f[k - 1] + d[k]
    BY <1>1, <1>4
  <2>1. f[k - 1] \in Nat
    BY <1>1
  <2>. QED  BY <1>3, <1>4, <2>1
<1>6. Reading(f, d)
  BY <1>5 DEF Reading
<1>7. Reading(Readings(d), d)
  BY <1>6 DEF Readings
<1> DEFINE g == Readings(d)
<1>8. Number(d) = g[Len(d)]
  BY DEF Number, Readings, Reading
<1> HIDE DEF g
<1>9. \A k \in 0..Len(d) : g[k] = IF k = 0 THEN 0 ELSE 10 * g[k - 1] + d[k]
  BY <1>7 DEF Reading, g
<1>10. g = [k \in 0..Len(d) |-> g[k]]
  BY <1>7 DEF Reading, g
<1>11. \A k \in 0..Len(d) : g[k] = f[k]
  <2> DEFINE S == {k \in 0..Len(d) : g[k] = f[k]}
  <2>1. 0 \in S
    BY <1>1, <1>4, <1>9
  <2>2. \A n \in 0..Len(d) - 1 : n \in S => n + 1 \in S
    <3> SUFFICES ASSUME NEW n \in 0..Len(d) - 1, g[n] = f[n]
                 PROVE  n + 1 \in 0..Len(d) /\ g[n + 1] = f[n + 1]
      OBVIOUS
    <3>1. n + 1 \in 0..Len(d) /\ n + 1 # 0 /\ (n + 1) - 1 = n
      BY <1>1
    <3>. QED  BY <1>5, <1>9, <3>1
  <2> HIDE DEF S
  <2>3. \A n \in 0..Len(d) : n \in S
    BY <1>1, <2>1, <2>2, Steps
  <2>. QED  BY <2>3 DEF S
<1>12. g \in [0..Len(d) -> Nat]
  BY <1>10, <1>11
<1>13. \A k \in 1..Len(d) : g[k] = 10 * g[k - 1] + d[k]
  BY <1>1, <1>9
<1>. QED  BY <1>1, <1>8, <1>9, <1>12, <1>13 DEF g

(* What says the same step by step is the same.                            *)
LEMMA PrefixesAre ==
  ASSUME NEW d \in Seq(0..9), NEW v, v[0] = 0,
         \A k \in 1..Len(d) : v[k] = 10 * v[k - 1] + d[k]
  PROVE  \A k \in 0..Len(d) : Readings(d)[k] = v[k]
<1> DEFINE S == {k \in 0..Len(d) : Readings(d)[k] = v[k]}
<1>1. Len(d) \in Nat
  OBVIOUS
<1>2. 0 \in S
  BY <1>1, PrefixesOK
<1>3. \A n \in 0..Len(d) - 1 : n \in S => n + 1 \in S
  <2> SUFFICES ASSUME NEW n \in 0..Len(d) - 1, Readings(d)[n] = v[n]
               PROVE  n + 1 \in 0..Len(d) /\ Readings(d)[n + 1] = v[n + 1]
    OBVIOUS
  <2>1. n + 1 \in 1..Len(d) /\ n + 1 \in 0..Len(d) /\ (n + 1) - 1 = n
    BY <1>1
  <2>. QED  BY <2>1, PrefixesOK
<1> HIDE DEF S
<1>4. \A n \in 0..Len(d) : n \in S
  BY <1>1, <1>2, <1>3, Steps
<1>. QED  BY <1>4 DEF S

LEMMA NumberBound ==
  ASSUME NEW d \in Seq(0..9)
  PROVE  /\ Number(d) \in 0..TenTo(Len(d)) - 1
         /\ Number(d) = 0 <=> \A k \in 1..Len(d) : d[k] = 0
<1> DEFINE p == Readings(d)
           S == {k \in 0..Len(d) : /\ p[k] < TenTo(k)
                                   /\ p[k] = 0 <=> \A i \in 1..k : d[i] = 0}
<1>1. /\ Len(d) \in Nat /\ p \in [0..Len(d) -> Nat] /\ p[0] = 0
      /\ \A k \in 1..Len(d) : p[k] = 10 * p[k - 1] + d[k] /\ d[k] \in 0..9
      /\ Number(d) = p[Len(d)]
  BY PrefixesOK
<1> HIDE DEF p
<1>2. 0 \in S
  BY <1>1, TenToOK
<1>3. \A n \in 0..Len(d) - 1 : n \in S => n + 1 \in S
  <2> SUFFICES ASSUME NEW n \in 0..Len(d) - 1, p[n] < TenTo(n),
                      p[n] = 0 <=> \A i \in 1..n : d[i] = 0
               PROVE  /\ n + 1 \in 0..Len(d) /\ p[n + 1] < TenTo(n + 1)
                      /\ p[n + 1] = 0 <=> \A i \in 1..n + 1 : d[i] = 0
    OBVIOUS
  <2>1. n + 1 \in 1..Len(d) /\ n + 1 \in 0..Len(d) /\ (n + 1) - 1 = n /\ n \in Nat
        /\ n \in 0..Len(d)
    BY <1>1
  <2>2. p[n + 1] = 10 * p[n] + d[n + 1] /\ d[n + 1] \in 0..9 /\ p[n] \in Nat
    BY <1>1, <2>1
  <2>3. TenTo(n + 1) = 10 * TenTo(n) /\ TenTo(n) \in Nat
    BY <2>1, TenToOK
  <2>4. p[n + 1] < TenTo(n + 1)
    <3>1. \A a, t \in Nat, x \in 0..9 : a < t => 10 * a + x < 10 * t
      OBVIOUS
    <3>2. 10 * p[n] + d[n + 1] < 10 * TenTo(n)
      BY ONLY <2>2, <2>3, <3>1, p[n] < TenTo(n)
    <3>. QED  BY ONLY <2>2, <2>3, <3>2
  <2>5. p[n + 1] = 0 <=> p[n] = 0 /\ d[n + 1] = 0
    <3>1. \A a \in Nat, x \in 0..9 : 10 * a + x = 0 <=> a = 0 /\ x = 0
      OBVIOUS
    <3>2. 10 * p[n] + d[n + 1] = 0 <=> p[n] = 0 /\ d[n + 1] = 0
      BY ONLY <2>2, <3>1
    <3>. QED  BY ONLY <2>2, <3>2
  <2>6. (\A i \in 1..n + 1 : d[i] = 0) <=> (\A i \in 1..n : d[i] = 0) /\ d[n + 1] = 0
    BY <2>1
  <2>. QED  BY <2>1, <2>4, <2>5, <2>6
<1> HIDE DEF S
<1>4. \A n \in 0..Len(d) : n \in S
  BY <1>1, <1>2, <1>3, Steps
<1>5. Len(d) \in 0..Len(d) /\ TenTo(Len(d)) \in Nat
  BY <1>1, TenToOK
<1>. QED  BY <1>1, <1>4, <1>5 DEF S

LEMMA NumberConcat ==
  ASSUME NEW d \in Seq(0..9), NEW e \in Seq(0..9)
  PROVE  /\ d \o e \in Seq(0..9) /\ Len(d \o e) = Len(d) + Len(e)
         /\ Number(d \o e) = Number(d) * TenTo(Len(e)) + Number(e)
<1>1. /\ d \o e \in Seq(0..9) /\ Len(d \o e) = Len(d) + Len(e)
      /\ \A k \in 1..Len(d) : (d \o e)[k] = d[k]
      /\ \A k \in 1..Len(e) : (d \o e)[Len(d) + k] = e[k]
  BY ConcatProperties
<1> DEFINE c == d \o e
           p == Readings(d)
           q == Readings(e)
           v == [k \in 0..Len(c) |-> IF k <= Len(d) THEN p[k]
                                     ELSE p[Len(d)] * TenTo(k - Len(d)) + q[k - Len(d)]]
<1>2. Len(d) \in Nat /\ Len(e) \in Nat
  OBVIOUS
<1>3. /\ p \in [0..Len(d) -> Nat] /\ p[0] = 0
      /\ \A k \in 1..Len(d) : p[k] = 10 * p[k - 1] + d[k] /\ d[k] \in 0..9
      /\ Number(d) = p[Len(d)]
  BY PrefixesOK
<1>4. /\ q \in [0..Len(e) -> Nat] /\ q[0] = 0
      /\ \A k \in 1..Len(e) : q[k] = 10 * q[k - 1] + e[k] /\ e[k] \in 0..9
      /\ Number(e) = q[Len(e)]
  BY PrefixesOK
<1>5. c \in Seq(0..9) /\ Len(c) = Len(d) + Len(e)
      /\ (\A k \in 1..Len(d) : c[k] = d[k]) /\ (\A k \in 1..Len(e) : c[Len(d) + k] = e[k])
  BY <1>1
<1> HIDE DEF c, p, q
<1>6. /\ \A k \in 0..Len(d) : v[k] = p[k]
      /\ \A k \in 0..Len(e) : v[Len(d) + k] = p[Len(d)] * TenTo(k) + q[k]
  <2>1. \A k \in 0..Len(d) : v[k] = p[k]
    BY <1>2, <1>5
  <2>2. ASSUME NEW k \in 1..Len(e)
        PROVE  v[Len(d) + k] = p[Len(d)] * TenTo(k) + q[k]
    <3>1. Len(d) + k \in 0..Len(c) /\ ~(Len(d) + k <= Len(d)) /\ (Len(d) + k) - Len(d) = k
      BY <1>2, <1>5
    <3>. QED  BY <3>1
  <2>3. v[Len(d) + 0] = p[Len(d)] * TenTo(0) + q[0]
    <3>1. Len(d) + 0 = Len(d) /\ Len(d) \in 0..Len(d) /\ p[Len(d)] \in Nat
      BY <1>2, <1>3
    <3>2. v[Len(d)] = p[Len(d)]
      BY <2>1, <3>1
    <3>3. p[Len(d)] * 1 + 0 = p[Len(d)]
      BY <3>1
    <3>. QED  BY <1>4, <3>1, <3>2, <3>3, TenToOK
  <2>4. \A k \in 0..Len(e) : k \in 1..Len(e) \/ k = 0
    BY <1>2
  <2> HIDE DEF v
  <2>. QED  BY <2>1, <2>2, <2>3, <2>4
<1> HIDE DEF v
<1>7. \A k \in 1..Len(c) : v[k] = 10 * v[k - 1] + c[k]
  <2>1. ASSUME NEW k \in 1..Len(d) PROVE v[k] = 10 * v[k - 1] + c[k]
    <3>1. k \in 0..Len(d) /\ k - 1 \in 0..Len(d)
      BY <1>2
    <3>. QED  BY <1>3, <1>5, <1>6, <3>1
  <2>2. ASSUME NEW k \in 1..Len(e) PROVE v[Len(d) + k] = 10 * v[(Len(d) + k) - 1] + c[Len(d) + k]
    <3>1. k \in 0..Len(e) /\ k - 1 \in 0..Len(e) /\ (Len(d) + k) - 1 = Len(d) + (k - 1)
          /\ k - 1 \in Nat /\ (k - 1) + 1 = k
      BY <1>2
    <3>2. TenTo(k) = 10 * TenTo(k - 1) /\ TenTo(k - 1) \in Nat
      BY <3>1, TenToOK
    <3>3. PICK a \in Nat : a = p[Len(d)]
      BY <1>2, <1>3
    <3>4. PICK t \in Nat : t = TenTo(k - 1)
      BY <3>2
    <3>5. a * (10 * t) = 10 * (a * t) /\ a * t \in Nat
      OBVIOUS
    <3>6. q[k] = 10 * q[k - 1] + e[k] /\ q[k - 1] \in Nat /\ e[k] \in 0..9
      BY <1>4, <3>1
    <3>7. v[Len(d) + k] = a * (10 * t) + q[k] /\ v[Len(d) + (k - 1)] = a * t + q[k - 1]
      BY <1>6, <3>1, <3>2, <3>3, <3>4
    <3>8. \A x, y, z \in Nat : 10 * x + (10 * y + z) = 10 * (x + y) + z
      OBVIOUS
    <3>9. 10 * (a * t) + (10 * q[k - 1] + e[k]) = 10 * (a * t + q[k - 1]) + e[k]
      <4>1. e[k] \in Nat
        BY <3>6
      <4>. QED  BY ONLY <3>5, <3>6, <3>8, <4>1
    <3>10. v[Len(d) + k] = 10 * v[Len(d) + (k - 1)] + e[k]
      BY ONLY <3>5, <3>6, <3>7, <3>9
    <3>. QED  BY <1>5, <3>1, <3>10
  <2> SUFFICES ASSUME NEW k \in 1..Len(c), k \notin 1..Len(d)
               PROVE  v[k] = 10 * v[k - 1] + c[k]
    BY <2>1
  <2>3. k - Len(d) \in 1..Len(e) /\ Len(d) + (k - Len(d)) = k
    BY <1>2, <1>5
  <2>. QED  BY <2>2, <2>3
<1>8. v[0] = 0
  BY <1>2, <1>3, <1>6
<1>9. Readings(c)[Len(c)] = v[Len(c)]
  <2>1. Len(c) \in 0..Len(c)
    BY <1>2, <1>5
  <2>. QED  BY <1>5, <1>7, <1>8, <2>1, PrefixesAre
<1>10. v[Len(c)] = p[Len(d)] * TenTo(Len(e)) + q[Len(e)]
  <2>1. Len(e) \in 0..Len(e)
    BY <1>2
  <2>. QED  BY <1>5, <1>6, <2>1
<1>11. Number(c) = Readings(c)[Len(c)]
  BY <1>5, PrefixesOK
<1>. QED  BY <1>1, <1>3, <1>4, <1>9, <1>10, <1>11 DEF c

LEMMA NumberLast ==
  ASSUME NEW d \in Seq(0..9), Len(d) > 0
  PROVE  Number(d) % 2 = d[Len(d)] % 2
<1>1. Len(d) \in Nat /\ Len(d) \in 1..Len(d) /\ Len(d) - 1 \in 0..Len(d)
  OBVIOUS
<1>2. PICK a \in Nat : a = Readings(d)[Len(d) - 1]
  BY <1>1, PrefixesOK
<1>3. PICK b \in 0..9 : b = d[Len(d)]
  BY <1>1
<1>4. Number(d) = 10 * a + b
  BY <1>1, <1>2, <1>3, PrefixesOK
<1>5. (10 * a + b) % 2 = b % 2
  OBVIOUS
<1>. QED  BY <1>3, <1>4, <1>5

LEMMA NumberOne ==
  ASSUME NEW b \in 0..9
  PROVE  <<b>> \in Seq(0..9) /\ Len(<<b>>) = 1 /\ Number(<<b>>) = b
<1>1. <<b>> \in Seq(0..9) /\ Len(<<b>>) = 1 /\ <<b>>[1] = b
  OBVIOUS
<1> DEFINE d == <<b>>
<1>2. d \in Seq(0..9) /\ Len(d) = 1 /\ d[1] = b
  BY <1>1
<1> HIDE DEF d
<1>3. Number(d) = Readings(d)[1] /\ Readings(d)[1] = 10 * Readings(d)[1 - 1] + d[1]
      /\ Readings(d)[0] = 0
  BY <1>2, PrefixesOK
<1>4. Number(d) = b
  BY <1>2, <1>3
<1>. QED  BY <1>1, <1>4 DEF d

LEMMA PlacesOK ==
  ASSUME NEW f \in Seq(0..9)
  PROVE  /\ SignificantPlaces(f) \in 0..Len(f)
         /\ SignificantPlaces(f) > 0 => f[SignificantPlaces(f)] # 0
         /\ \A k \in SignificantPlaces(f) + 1..Len(f) : f[k] = 0
<1> DEFINE LastAt(n, m) == /\ n > 0 => f[n] # 0
                           /\ \A k \in n + 1..m : f[k] = 0
           S == {m \in 0..Len(f) : \E n \in 0..m : LastAt(n, m)}
<1>1. Len(f) \in Nat
  OBVIOUS
<1>2. 0 \in S
  BY <1>1
<1>3. \A m \in 0..Len(f) - 1 : m \in S => m + 1 \in S
  <2> SUFFICES ASSUME NEW m \in 0..Len(f) - 1, NEW n \in 0..m, LastAt(n, m)
               PROVE  m + 1 \in 0..Len(f) /\ \E i \in 0..m + 1 : LastAt(i, m + 1)
    OBVIOUS
  <2>1. m + 1 \in 0..Len(f)
    BY <1>1
  <2>2. CASE f[m + 1] = 0
    <3>1. \A k \in n + 1..m + 1 : k \in n + 1..m \/ k = m + 1
      OBVIOUS
    <3>2. LastAt(n, m + 1) /\ n \in 0..m + 1
      BY <2>2, <3>1
    <3>. QED  BY <2>1, <3>2
  <2>3. CASE f[m + 1] # 0
    <3>1. LastAt(m + 1, m + 1) /\ m + 1 \in 0..m + 1
      BY <2>3
    <3>. QED  BY <2>1, <3>1
  <2>. QED  BY <2>2, <2>3
<1>4. \A m \in 0..Len(f) : m \in S
  <2> HIDE DEF S
  <2>. QED  BY <1>1, <1>2, <1>3, Steps
<1>5. \E n \in 0..Len(f) : /\ n > 0 => f[n] # 0
                           /\ \A k \in n + 1..Len(f) : f[k] = 0
  BY <1>1, <1>4
<1>. QED  BY <1>5 DEF SignificantPlaces

LEMMA WidthOK ==
  ASSUME NEW n \in Nat
  PROVE  WidthOf(n) \in Nat \ {0} /\ n < TenTo(WidthOf(n))
<1> DEFINE T == {w \in Nat : w >= 1 /\ n < TenTo(w)}
<1>1. n + 1 \in T
  <2>1. n + 1 \in Nat /\ n + 1 < TenTo(n + 1) /\ TenTo(n + 1) \in Nat
    BY TenToOK
  <2>. QED  BY <2>1
<1>2. PICK m \in T : \A w \in T : m <= w
  <2>1. T \in SUBSET Nat /\ T # {}
    BY <1>1
  <2> HIDE DEF T
  <2>. QED  BY <2>1, Smallest
<1>3. m \in 1..n + 1 /\ n < TenTo(m)
  BY <1>1, <1>2
<1>4. m > 1 => n >= TenTo(m - 1)
  <2>1. m > 1 => m - 1 \in Nat /\ m - 1 >= 1 /\ m - 1 \notin T
    BY <1>2
  <2>2. m > 1 => TenTo(m - 1) \in Nat
    BY <2>1, TenToOK
  <2>. QED  BY <2>1, <2>2
<1> HIDE DEF T
<1>5. \E w \in 1..n + 1 : n < TenTo(w) /\ (w > 1 => n >= TenTo(w - 1))
  BY <1>3, <1>4
<1>6. WidthOf(n) \in 1..n + 1 /\ n < TenTo(WidthOf(n))
  BY <1>5 DEF WidthOf
<1>. QED  BY <1>6

LEMMA Tenths ==
  ASSUME NEW n \in Nat, NEW p \in Nat \ {0}
  PROVE  n \div p \in Nat /\ n \div p = 10 * (n \div (10 * p)) + ((n \div p) % 10)
<1>1. PICK q \in Int : q = n \div p
  OBVIOUS
<1>2. PICK t \in 0..p - 1 : n = p * q + t
  <2>1. n \in Int
    OBVIOUS
  <2>. QED  BY <1>1, <2>1, Division
<1>3. q \in Nat
  <2>1. q <= -1 => p * q <= -p
    BY <1>1
  <2>. QED  BY <1>2, <2>1
<1>4. PICK s \in Nat, r \in 0..9 : q = 10 * s + r /\ r = q % 10
  <2>1. q \div 10 \in Nat /\ q % 10 \in 0..9 /\ q = 10 * (q \div 10) + (q % 10)
    BY <1>3
  <2>. QED  BY <2>1
<1>5. PICK P \in Nat \ {0} : P = 10 * p
  OBVIOUS
<1>6. PICK b \in Nat : b = p * r /\ b <= 9 * p
  <2>1. \A i \in 0..9 : p * i \in Nat /\ p * i <= 9 * p
    OBVIOUS
  <2>. QED  BY <2>1
<1>7. p * q = P * s + b
  BY <1>4, <1>5, <1>6
<1>8. PICK a \in Nat : a = P * s
  OBVIOUS
<1>9. PICK u \in 0..P - 1 : u = b + t
  BY <1>5, <1>6
<1>10. n = P * s + u
  BY <1>2, <1>7, <1>8, <1>9
<1>11. n \div P = s
  BY <1>10, UniqueDivision
<1>. QED  BY <1>1, <1>3, <1>4, <1>5, <1>11

(* The digits of a number say the number.                                  *)
LEMMA DigitsOfOK ==
  ASSUME NEW n \in Nat, NEW w \in Nat, n < TenTo(w)
  PROVE  /\ DigitsOf(n, w) \in Seq(0..9) /\ Len(DigitsOf(n, w)) = w
         /\ Number(DigitsOf(n, w)) = n
<1> DEFINE d == DigitsOf(n, w)
           v == [k \in 0..w |-> n \div TenTo(w - k)]
<1>1. ASSUME NEW k \in 0..w
      PROVE  /\ TenTo(w - k) \in Nat \ {0}
             /\ n \div TenTo(w - k) \in Nat
  <2>1. w - k \in Nat
    OBVIOUS
  <2>2. PICK p \in Nat \ {0} : p = TenTo(w - k)
    BY <2>1, TenToOK
  <2>3. n \div p \in Nat
    OBVIOUS
  <2>. QED  BY <2>2, <2>3
<1>2. \A k \in 1..w : d[k] \in 0..9 /\ d[k] = (n \div TenTo(w - k)) % 10
  <2> SUFFICES ASSUME NEW k \in 1..w
               PROVE  d[k] \in 0..9 /\ d[k] = (n \div TenTo(w - k)) % 10
    OBVIOUS
  <2>1. PICK q \in Nat : q = n \div TenTo(w - k)
    BY <1>1
  <2>2. d[k] = q % 10
    BY <2>1 DEF DigitsOf
  <2>. QED  BY <2>1, <2>2
<1>3. d = [k \in 1..w |-> d[k]]
  BY DEF DigitsOf
<1> HIDE DEF d
<1>4. d \in Seq(0..9) /\ Len(d) = w
  BY <1>2, <1>3
<1>5. \A k \in 1..w : v[k] = 10 * v[k - 1] + d[k]
  <2> SUFFICES ASSUME NEW k \in 1..w PROVE v[k] = 10 * v[k - 1] + d[k]
    OBVIOUS
  <2>1. w - k \in Nat /\ w - (k - 1) = (w - k) + 1 /\ k \in 0..w /\ k - 1 \in 0..w
    OBVIOUS
  <2>2. PICK p \in Nat \ {0} : p = TenTo(w - k)
    BY <2>1, TenToOK
  <2>3. TenTo(w - (k - 1)) = 10 * p
    BY <2>1, <2>2, TenToOK
  <2>4. v[k] = n \div p /\ v[k - 1] = n \div (10 * p) /\ d[k] = (n \div p) % 10
    BY <1>2, <2>1, <2>2, <2>3
  <2>5. n \div p = 10 * (n \div (10 * p)) + ((n \div p) % 10)
    BY Tenths
  <2>. QED  BY <2>4, <2>5
<1>6. v[0] = 0
  <2>1. PICK p \in Nat \ {0} : p = TenTo(w)
    BY TenToOK
  <2>2. v[0] = n \div p /\ n = p * 0 + n /\ n \in 0..p - 1
    BY <2>1
  <2>. QED  BY <2>2, UniqueDivision
<1>7. v[w] = n
  BY TenToOK
<1> HIDE DEF v
<1>8. Readings(d)[w] = v[w]
  <2>1. \A k \in 1..Len(d) : v[k] = 10 * v[k - 1] + d[k]
    BY <1>4, <1>5
  <2>2. w \in 0..Len(d)
    BY <1>4
  <2>. QED  BY <1>4, <1>6, <2>1, <2>2, PrefixesAre
<1>9. Number(d) = n
  BY <1>4, <1>7, <1>8, PrefixesOK
<1>. QED  BY <1>4, <1>9 DEF d

(* A word has room for a digit.                                            *)
LEMMA RoomForDigits == SignedMax >= 39 /\ Ceiling >= 20
<1>1. One >= 10
  <2>1. Scale - 1 \in Nat /\ (Scale - 1) + 1 = Scale
    BY ScaleAssumption
  <2>2. TenTo((Scale - 1) + 1) = 10 * TenTo(Scale - 1) /\ TenTo(Scale - 1) \in Nat \ {0}
    BY <2>1, TenToOK
  <2>. QED  BY <2>1, <2>2 DEF One
<1>2. PICK a \in Nat : a = TenTo(AmountDigits) /\ a >= 1
  BY DigitsAssumption, TenToOK
<1>3. PICK o \in Nat : o = One /\ o >= 10
  BY <1>1, WordParts
<1>4. (a + 1) * o <= Ceiling
  BY <1>2, <1>3, ColumnAssumption
<1>5. (a + 1) * o >= 20
  <2>1. (a + 1) * o = (a - 1) * o + 2 * o /\ (a - 1) * o >= 0
    BY <1>2, <1>3
  <2>. QED  BY <1>3, <2>1
<1>. QED  BY <1>4, <1>5, <1>2, <1>3, WordParts

Fitting(n) == IF n <= SignedMax THEN Some(n) ELSE Fail

LEMMA PushOK ==
  ASSUME NEW n \in Nat, NEW b \in 0..9
  PROVE  PushDigit(Fitting(n), b) = Fitting(10 * n + b)
<1>1. SignedMax \in Nat /\ Word = 2 * SignedMax + 2 /\ SignedMax >= 39
  BY WordParts, RoomForDigits
<1>2. CASE n > SignedMax
  BY <1>1, <1>2 DEF PushDigit, Fitting, Fail
<1>3. CASE n <= SignedMax
  <2>1. Fitting(n) = Some(n)
    BY <1>3 DEF Fitting
  <2>2. Magnitude(n) = n /\ Magnitude(10) = 10 /\ ((n < 0) # (10 < 0)) = FALSE
    BY DEF Magnitude
  <2>3. Wrapped(n, 10) <=> 10 * n >= Word
    BY WrappedOK
  <2>4. ~Wrapped(n, 10) => Product(n, 10) = 10 * n
    <3>1. 10 * n \in Nat
      OBVIOUS
    <3>. QED  BY <2>3, <3>1, WordRemainder, <1>1 DEF Product
  <2>5. CheckedMul(n, 10) = IF 10 * n <= SignedMax THEN Some(10 * n) ELSE Fail
    BY <1>1, <2>2, <2>3, <2>4 DEF CheckedMul, Signed
  <2>6. 10 * n <= SignedMax => CheckedAdd(10 * n, b) = IfInWord(10 * n + b)
    <3>1. PICK m \in Nat : m = 10 * n
      OBVIOUS
    <3>2. m <= SignedMax => m \in -(SignedMax + 1)..SignedMax
      BY <1>1
    <3>3. b \in -(SignedMax + 1)..SignedMax
      BY <1>1
    <3>. QED  BY <3>1, <3>2, <3>3, AddExact
  <2>7. 10 * n + b \in -(SignedMax + 1)..SignedMax <=> 10 * n + b <= SignedMax
    BY <1>1
  <2>. QED  BY <1>1, <2>1, <2>5, <2>6, <2>7 DEF PushDigit, Fitting, IfInWord, Some, Fail
<1>. QED  BY <1>1, <1>2, <1>3

LEMMA PushedOK ==
  ASSUME NEW d \in Seq(0..9)
  PROVE  Pushed(d) = Fitting(Number(d))
<1> DEFINE f == [k \in 0..Len(d) |-> Fitting(Readings(d)[k])]
           Pushing(p) == p = [k \in 0..Len(d) |-> IF k = 0 THEN Some(0)
                                                  ELSE PushDigit(p[k - 1], d[k])]
<1>1. /\ Len(d) \in Nat
      /\ \A k \in 1..Len(d) : k - 1 \in 0..Len(d) /\ d[k] \in 0..9
      /\ \A k \in 0..Len(d) : Readings(d)[k] \in Nat
      /\ Readings(d)[0] = 0
      /\ \A k \in 1..Len(d) : Readings(d)[k] = 10 * Readings(d)[k - 1] + d[k]
  BY PrefixesOK
<1>2. f[0] = Some(0)
  BY <1>1, WordParts DEF Fitting
<1>3. \A k \in 1..Len(d) : f[k] = PushDigit(f[k - 1], d[k])
  <2> SUFFICES ASSUME NEW k \in 1..Len(d) PROVE f[k] = PushDigit(f[k - 1], d[k])
    OBVIOUS
  <2>1. PICK n \in Nat : n = Readings(d)[k - 1]
    BY <1>1
  <2>2. PICK b \in 0..9 : b = d[k]
    BY <1>1
  <2>3. k \in 0..Len(d) /\ Readings(d)[k] = 10 * n + b
    BY <1>1, <2>1, <2>2
  <2>4. f[k] = Fitting(10 * n + b) /\ f[k - 1] = Fitting(n)
    BY <1>1, <2>1, <2>3
  <2>. QED  BY <2>2, <2>4, PushOK
<1>4. f = [k \in 0..Len(d) |-> f[k]]
  OBVIOUS
<1> HIDE DEF f
<1>5. Pushing(f)
  <2>1. \A k \in 0..Len(d) : f[k] = IF k = 0 THEN Some(0) ELSE PushDigit(f[k - 1], d[k])
    BY <1>1, <1>2, <1>3
  <2>. QED  BY <1>4, <2>1
<1> DEFINE g == CHOOSE p : Pushing(p)
<1>6. Pushing(g)
  BY <1>5
<1>7. Pushed(d) = g[Len(d)]
  BY DEF Pushed
<1> HIDE DEF g
<1>8. \A k \in 0..Len(d) : g[k] = IF k = 0 THEN Some(0) ELSE PushDigit(g[k - 1], d[k])
  BY <1>6
<1> HIDE DEF Pushing
<1> DEFINE S == {k \in 0..Len(d) : g[k] = f[k]}
<1>9. 0 \in S
  BY <1>1, <1>2, <1>8
<1>10. \A n \in 0..Len(d) - 1 : n \in S => n + 1 \in S
  <2> SUFFICES ASSUME NEW n \in 0..Len(d) - 1, g[n] = f[n]
               PROVE  n + 1 \in 0..Len(d) /\ g[n + 1] = f[n + 1]
    OBVIOUS
  <2>1. n + 1 \in 1..Len(d) /\ n + 1 \in 0..Len(d) /\ n + 1 # 0 /\ (n + 1) - 1 = n
    BY <1>1
  <2>. QED  BY <1>3, <1>8, <2>1
<1> HIDE DEF S
<1>11. \A n \in 0..Len(d) : n \in S
  BY <1>1, <1>9, <1>10, Steps
<1>12. g[Len(d)] = f[Len(d)] /\ Len(d) \in 0..Len(d)
  BY <1>1, <1>11 DEF S
<1>13. f[Len(d)] = Fitting(Number(d))
  BY <1>12, PrefixesOK DEF f
<1>. QED  BY <1>7, <1>12, <1>13

-----------------------------------------------------------------------------
(* Texts.                                                                  *)

KeptOf(fraction) ==
    [k \in 1..Scale |-> IF k <= Len(fraction) THEN fraction[k] ELSE 0]
Kept(w, f) == Number(w \o KeptOf(f))
Typed(w, f) == Number(w \o f)
Carry(f) == IF RoundsUp(f) THEN 1 ELSE 0

LEMMA KeptOfOK ==
  ASSUME NEW f \in Seq(0..9)
  PROVE  /\ KeptOf(f) \in Seq(0..9) /\ Len(KeptOf(f)) = Scale
         /\ \A k \in 1..Scale : KeptOf(f)[k] = IF k <= Len(f) THEN f[k] ELSE 0
<1>1. Scale \in Nat \ {0} /\ \A k \in 1..Len(f) : f[k] \in 0..9
  BY ScaleAssumption
<1>2. \A k \in 1..Scale : KeptOf(f)[k] = IF k <= Len(f) THEN f[k] ELSE 0
  BY DEF KeptOf
<1>3. \A k \in 1..Scale : KeptOf(f)[k] \in 0..9
  <2> SUFFICES ASSUME NEW k \in 1..Scale PROVE KeptOf(f)[k] \in 0..9
    OBVIOUS
  <2>1. k <= Len(f) => k \in 1..Len(f)
    OBVIOUS
  <2>. QED  BY <1>1, <1>2, <2>1
<1>4. KeptOf(f) = [k \in 1..Scale |-> KeptOf(f)[k]]
  BY DEF KeptOf
<1> DEFINE g == KeptOf(f)
<1>5. g = [k \in 1..Scale |-> g[k]] /\ \A k \in 1..Scale : g[k] \in 0..9
  BY <1>3, <1>4
<1> HIDE DEF g
<1>6. g \in Seq(0..9) /\ Len(g) = Scale
  BY <1>1, <1>5
<1>. QED  BY <1>2, <1>6 DEF g

LEMMA TextOK ==
  ASSUME NEW w \in Seq(0..9), NEW f \in Seq(0..9)
  PROVE  /\ w \o KeptOf(f) \in Seq(0..9) /\ Len(w \o KeptOf(f)) = Len(w) + Scale
         /\ w \o f \in Seq(0..9) /\ Len(w \o f) = Len(w) + Len(f)
         /\ Len(w) \in Nat /\ Len(f) \in Nat
         /\ Kept(w, f) \in Nat /\ Typed(w, f) \in Nat /\ Carry(f) \in 0..1
<1>1. KeptOf(f) \in Seq(0..9) /\ Len(KeptOf(f)) = Scale
  BY KeptOfOK
<1>2. /\ w \o KeptOf(f) \in Seq(0..9) /\ Len(w \o KeptOf(f)) = Len(w) + Scale
      /\ w \o f \in Seq(0..9) /\ Len(w \o f) = Len(w) + Len(f)
  BY <1>1, NumberConcat
<1>3. \A d \in Seq(0..9) : Number(d) \in Nat
  <2> SUFFICES ASSUME NEW d \in Seq(0..9) PROVE Number(d) \in Nat
    OBVIOUS
  <2>1. Number(d) \in 0..TenTo(Len(d)) - 1
    BY NumberBound
  <2>. QED  BY <2>1
<1>4. Kept(w, f) \in Nat /\ Typed(w, f) \in Nat
  BY <1>2, <1>3 DEF Kept, Typed
<1>5. Carry(f) \in 0..1
  BY DEF Carry
<1>6. Len(w) \in Nat /\ Len(f) \in Nat
  OBVIOUS
<1>. QED  BY <1>2, <1>4, <1>5, <1>6

(* What is read: the digits that are kept, and the carry.                  *)
LEMMA ParseOK ==
  ASSUME NEW t, NEW w \in Seq(0..9), NEW f \in Seq(0..9), t.whole = w, t.fraction = f
  PROVE  Parse(t) = IF (w = <<>> /\ f = <<>>) \/ Kept(w, f) + Carry(f) > Ceiling THEN Fail
                    ELSE Some(Signed(t.negative, Kept(w, f) + Carry(f)))
<1>1. PICK m \in Nat : m = Kept(w, f)
  BY TextOK
<1>2. PICK r \in 0..1 : r = Carry(f)
  BY TextOK
<1>3. Pushed(w \o KeptOf(f)) = Fitting(m)
  BY <1>1, TextOK, PushedOK DEF Kept
<1>4. /\ Ceiling \in Nat /\ SignedMax = 2 * Ceiling - 1 /\ SignedMax \in Nat
      /\ Ceiling >= 20 /\ SignedMax >= 39
  BY WordParts, RoomForDigits
<1>5. m <= SignedMax => CheckedAdd(m, 1) = IfInWord(m + 1)
  <2>1. m <= SignedMax => m \in -(SignedMax + 1)..SignedMax
    BY <1>4
  <2>2. 1 \in -(SignedMax + 1)..SignedMax
    BY <1>4
  <2>. QED  BY <2>1, <2>2, AddExact
<1> DEFINE pushed == Pushed(w \o KeptOf(f))
           carried == IF pushed.ok /\ RoundsUp(f) THEN CheckedAdd(pushed.value, 1)
                      ELSE pushed
<1>6. carried = Fitting(m + r)
  <2>1. CASE m > SignedMax
    <3>1. pushed = Fail /\ ~pushed.ok
      BY <1>3, <1>4, <2>1 DEF Fitting, Fail
    <3>2. Fitting(m + r) = Fail
      BY <1>4, <2>1 DEF Fitting
    <3>. QED  BY <3>1, <3>2
  <2>2. CASE m <= SignedMax
    <3>1. pushed = Some(m) /\ pushed.ok /\ pushed.value = m
      BY <1>3, <1>4, <2>2 DEF Fitting, Some
    <3>2. CASE RoundsUp(f)
      <4>1. carried = IfInWord(m + 1) /\ r = 1
        BY <1>2, <1>5, <2>2, <3>1, <3>2 DEF Carry
      <4>2. m + 1 \in -(SignedMax + 1)..SignedMax <=> m + 1 <= SignedMax
        BY <1>4
      <4>. QED  BY <4>1, <4>2 DEF IfInWord, Fitting
    <3>3. CASE ~RoundsUp(f)
      <4>1. carried = Some(m) /\ r = 0 /\ m + 0 = m
        BY <1>2, <3>1, <3>3 DEF Carry
      <4>. QED  BY <2>2, <4>1 DEF Fitting
    <3>. QED  BY <3>2, <3>3
  <2>. QED  BY <1>4, <2>1, <2>2
<1>7. Parse(t) = IF (w = <<>> /\ f = <<>>) \/ ~carried.ok THEN Fail
                 ELSE Capped(t.negative, carried.value)
  BY DEF Parse, KeptOf
<1>8. PICK c \in Nat : c = m + r
  OBVIOUS
<1>9. CASE c > SignedMax
  <2>1. ~carried.ok
    BY <1>4, <1>6, <1>8, <1>9 DEF Fitting, Fail
  <2>2. m + r > Ceiling
    BY <1>4, <1>8, <1>9
  <2>. QED  BY <1>1, <1>2, <1>7, <2>1, <2>2
<1>10. CASE c <= SignedMax
  <2>1. carried.ok /\ carried.value = c
    BY <1>6, <1>8, <1>10 DEF Fitting, Some
  <2>2. c = Kept(w, f) + Carry(f)
    BY <1>1, <1>2, <1>8
  <2> HIDE DEF carried
  <2>. QED  BY <1>7, <2>1, <2>2 DEF Capped
<1>. QED  BY <1>4, <1>8, <1>9, <1>10

LEMMA SameDigits ==
  ASSUME NEW d \in Seq(0..9), NEW e \in Seq(0..9), Len(d) = Len(e),
         \A k \in 1..Len(d) : d[k] = e[k]
  PROVE  d = e
OBVIOUS

(* Digits that continue others.                                            *)
LEMMA Continued ==
  ASSUME NEW d \in Seq(0..9), NEW e \in Seq(0..9), NEW c \in Seq(0..9),
         Len(c) = Len(d) + Len(e),
         \A k \in 1..Len(d) : c[k] = d[k],
         \A k \in 1..Len(e) : c[Len(d) + k] = e[k]
  PROVE  c = d \o e
<1>1. PICK b : b = d \o e
  OBVIOUS
<1>2. /\ b \in Seq(0..9) /\ Len(b) = Len(d) + Len(e)
      /\ \A k \in 1..Len(d) + Len(e) : b[k] = IF k <= Len(d) THEN d[k] ELSE e[k - Len(d)]
  BY <1>1, ConcatProperties
<1>3. Len(d) \in Nat /\ Len(e) \in Nat
  OBVIOUS
<1>4. ASSUME NEW k \in 1..Len(c) PROVE c[k] = b[k]
  <2>1. CASE k <= Len(d)
    <3>1. k \in 1..Len(d) /\ k \in 1..Len(d) + Len(e)
      BY <1>3, <2>1
    <3>. QED  BY <1>2, <2>1, <3>1
  <2>2. CASE ~(k <= Len(d))
    <3>1. PICK j \in 1..Len(e) : k = Len(d) + j /\ j = k - Len(d)
      <4>1. k - Len(d) \in 1..Len(e) /\ k = Len(d) + (k - Len(d))
        BY <1>3, <2>2
      <4>. QED  BY <4>1
    <3>2. c[k] = e[j]
      BY <3>1
    <3>3. b[k] = e[j]
      BY <1>2, <2>2, <3>1
    <3>. QED  BY <3>2, <3>3
  <2>. QED  BY <2>1, <2>2
<1>5. c = b
  BY <1>2, <1>4, SameDigits
<1>. QED  BY <1>1, <1>5

LEMMA TypedIs ==
  ASSUME NEW w \in Seq(0..9), NEW f \in Seq(0..9)
  PROVE  /\ Number(w) \in Nat /\ Number(f) \in Nat /\ Number(KeptOf(f)) \in Nat
         /\ Typed(w, f) = Number(w) * TenTo(Len(f)) + Number(f)
         /\ Kept(w, f) = Number(w) * One + Number(KeptOf(f))
<1>1. \A d \in Seq(0..9) : Number(d) \in Nat
  <2> SUFFICES ASSUME NEW d \in Seq(0..9) PROVE Number(d) \in Nat
    OBVIOUS
  <2>1. Number(d) \in 0..TenTo(Len(d)) - 1
    BY NumberBound
  <2>. QED  BY <2>1
<1>2. KeptOf(f) \in Seq(0..9) /\ Len(KeptOf(f)) = Scale
  BY KeptOfOK
<1>3. Number(w \o f) = Number(w) * TenTo(Len(f)) + Number(f)
  BY NumberConcat
<1>4. Number(w \o KeptOf(f)) = Number(w) * TenTo(Len(KeptOf(f))) + Number(KeptOf(f))
  BY <1>2, NumberConcat
<1>. QED  BY <1>1, <1>2, <1>3, <1>4 DEF Typed, Kept, One

LEMMA Padded ==
  ASSUME NEW w \in Seq(0..9), NEW f \in Seq(0..9), Len(f) <= Scale
  PROVE  /\ Kept(w, f) = Typed(w, f) * TenTo(Scale - Len(f))
         /\ Carry(f) = 0
<1>1. Scale \in Nat /\ Len(f) \in Nat
  BY ScaleAssumption
<1>2. PICK n \in Nat : n = Scale - Len(f) /\ Scale = Len(f) + n
  <2>1. Scale - Len(f) \in Nat /\ Scale = Len(f) + (Scale - Len(f))
    BY <1>1
  <2>. QED  BY <2>1
<1>3. PICK zeros \in Seq(0..9) : Len(zeros) = n /\ \A k \in 1..n : zeros[k] = 0
  <2>1. [k \in 1..n |-> 0] \in Seq(0..9) /\ Len([k \in 1..n |-> 0]) = n
        /\ \A k \in 1..n : [i \in 1..n |-> 0][k] = 0
    OBVIOUS
  <2>. QED  BY <2>1
<1>4. Number(zeros) = 0
  BY <1>3, NumberBound
<1>5. PICK g \in Seq(0..9) :
          /\ g = KeptOf(f) /\ Len(g) = Scale
          /\ \A k \in 1..Scale : g[k] = IF k <= Len(f) THEN f[k] ELSE 0
  BY KeptOfOK
<1>6. g = f \o zeros
  <2>1. Len(g) = Len(f) + Len(zeros)
    BY <1>2, <1>3, <1>5
  <2>2. \A k \in 1..Len(f) : g[k] = f[k]
    <3>1. \A k \in 1..Len(f) : k \in 1..Scale /\ k <= Len(f)
      BY <1>1, <1>2
    <3>. QED  BY <1>5, <3>1
  <2>3. \A k \in 1..Len(zeros) : g[Len(f) + k] = zeros[k]
    <3>1. \A k \in 1..n : Len(f) + k \in 1..Scale /\ ~(Len(f) + k <= Len(f))
      BY <1>1, <1>2
    <3>2. \A k \in 1..n : g[Len(f) + k] = 0
      BY <1>5, <3>1
    <3>. QED  BY <1>3, <3>2
  <2>. QED  BY <1>3, <2>1, <2>2, <2>3, Continued
<1>7. Number(g) = Number(f) * TenTo(n) + 0
  BY <1>3, <1>4, <1>6, NumberConcat
<1>8. PICK W \in Nat, F \in Nat, G \in Nat : W = Number(w) /\ F = Number(f) /\ G = Number(g)
  BY <1>5, TypedIs
<1>9. PICK p \in Nat, q \in Nat : p = TenTo(Len(f)) /\ q = TenTo(n)
  BY <1>1, TenToOK
<1>10. One = p * q
  BY <1>1, <1>2, <1>9, TenToSum DEF One
<1>11. Typed(w, f) = W * p + F /\ Kept(w, f) = W * One + G /\ G = F * q
  BY <1>5, <1>7, <1>8, <1>9, TypedIs
<1>12. W * (p * q) + F * q = (W * p + F) * q
  OBVIOUS
<1>13. Kept(w, f) = Typed(w, f) * TenTo(n)
  BY <1>9, <1>10, <1>11, <1>12
<1>14. Carry(f) = 0
  BY <1>1 DEF Carry, RoundsUp
<1>. QED  BY <1>2, <1>13, <1>14

(* A fraction of more digits than are kept: R is what is dropped, of D.    *)
HalfUp(first, T, odd, D, R) ==
    /\ R \in 0..D - 1
    /\ first > 5 \/ (first = 5 /\ (T # 0 \/ odd)) <=> 2 * R > D \/ (2 * R = D /\ odd)

LEMMA Halves ==
  ASSUME NEW E \in Nat \ {0}, NEW T \in 0..E - 1, NEW first \in 0..9, NEW odd \in BOOLEAN,
         NEW R, R = first * E + T, NEW D, D = 10 * E
  PROVE  HalfUp(first, T, odd, D, R)
<1> USE DEF HalfUp
<1>1. \A i \in 0..9 : i * E \in Nat /\ (i >= 6 => i * E >= 6 * E) /\ (i <= 4 => i * E <= 4 * E)
                     /\ (i = 5 => i * E = 5 * E) /\ i * E <= 9 * E
  OBVIOUS
<1>2. PICK b \in Nat : /\ b = first * E /\ b <= 9 * E
                       /\ first >= 6 => b >= 6 * E
                       /\ first <= 4 => b <= 4 * E
                       /\ first = 5 => b = 5 * E
  BY <1>1
<1>3. R = b + T /\ R \in 0..D - 1
  BY <1>2
<1>4. CASE first >= 6
  <2>1. 2 * R > D /\ first > 5
    BY <1>2, <1>3, <1>4
  <2>. QED  BY <1>3, <2>1
<1>5. CASE first = 5
  <2>1. 2 * R > D <=> T # 0
    BY <1>2, <1>3, <1>5
  <2>2. 2 * R = D <=> T = 0
    BY <1>2, <1>3, <1>5
  <2>3. ~(first > 5)
    BY <1>5
  <2>. QED  BY <1>3, <1>5, <2>1, <2>2, <2>3
<1>6. CASE first <= 4
  <2>1. ~(2 * R > D) /\ 2 * R # D
    BY <1>2, <1>3, <1>6
  <2>2. ~(first > 5) /\ first # 5
    BY <1>6
  <2>. QED  BY <1>3, <2>1, <2>2
<1>. QED  BY <1>4, <1>5, <1>6

Cut(w, f, D, R) ==
    /\ D = TenTo(Len(f) - Scale)
    /\ R \in 0..D - 1
    /\ Typed(w, f) = Kept(w, f) * D + R
    /\ R = 0 <=> \A k \in Scale + 1..Len(f) : f[k] = 0
    /\ RoundsUp(f) <=> 2 * R > D \/ (2 * R = D /\ Kept(w, f) % 2 = 1)

LEMMA CutOK ==
  ASSUME NEW w \in Seq(0..9), NEW f \in Seq(0..9), Len(f) > Scale
  PROVE  \E D \in Nat \ {0}, R \in Nat : Cut(w, f, D, R)
<1>1. Scale \in Nat \ {0} /\ Len(f) \in Nat /\ \A k \in 1..Len(f) : f[k] \in 0..9
  BY ScaleAssumption
<1>2. PICK m \in Nat : Len(f) = Scale + 1 + m /\ Len(f) - Scale = m + 1
  <2>1. PICK m : m = Len(f) - Scale - 1
    OBVIOUS
  <2>2. m \in Nat /\ Len(f) = Scale + 1 + m /\ Len(f) - Scale = m + 1
    BY <1>1, <2>1
  <2>. QED  BY <2>2
<1>3. PICK first \in 0..9 : first = f[Scale + 1]
  <2>1. Scale + 1 \in 1..Len(f)
    BY <1>1, <1>2
  <2>. QED  BY <1>1, <2>1
<1>4. PICK tail \in Seq(0..9) : /\ Len(tail) = m
                                /\ \A k \in 1..m : tail[k] = f[Scale + 1 + k]
  <2>1. \A k \in 1..m : Scale + 1 + k \in 1..Len(f)
    BY <1>1, <1>2
  <2>2. \A k \in 1..m : f[Scale + 1 + k] \in 0..9
    BY <1>1, <2>1
  <2>3. /\ [k \in 1..m |-> f[Scale + 1 + k]] \in Seq(0..9)
        /\ Len([k \in 1..m |-> f[Scale + 1 + k]]) = m
        /\ \A k \in 1..m : [j \in 1..m |-> f[Scale + 1 + j]][k] = f[Scale + 1 + k]
    BY <2>2
  <2>. QED  BY <2>3
<1>5. PICK one \in Seq(0..9) : one = <<first>> /\ Len(one) = 1 /\ one[1] = first
                              /\ Number(one) = first
  BY NumberOne
<1>6. PICK rest \in Seq(0..9) :
          /\ rest = one \o tail /\ Len(rest) = 1 + m
          /\ Number(rest) = Number(one) * TenTo(m) + Number(tail)
          /\ \A k \in 1..1 + m : rest[k] = IF k <= 1 THEN one[k] ELSE tail[k - 1]
  <2>1. PICK rest : rest = one \o tail
    OBVIOUS
  <2>2. rest \in Seq(0..9) /\ Len(rest) = 1 + m
        /\ Number(rest) = Number(one) * TenTo(m) + Number(tail)
    BY <1>4, <1>5, <2>1, NumberConcat
  <2>3. \A k \in 1..1 + m : rest[k] = IF k <= 1 THEN one[k] ELSE tail[k - 1]
    BY <1>4, <1>5, <2>1, ConcatProperties
  <2>. QED  BY <2>1, <2>2, <2>3
<1>7. \A k \in 1..1 + m : rest[k] = f[Scale + k]
  <2> SUFFICES ASSUME NEW k \in 1..1 + m PROVE rest[k] = f[Scale + k]
    OBVIOUS
  <2>1. CASE k <= 1
    <3>1. k = 1
      BY <2>1
    <3>. QED  BY <1>3, <1>5, <1>6, <3>1
  <2>2. CASE ~(k <= 1)
    <3>1. k - 1 \in 1..m /\ Scale + 1 + (k - 1) = Scale + k
      BY <1>1, <2>2
    <3>. QED  BY <1>4, <1>6, <2>2, <3>1
  <2>. QED  BY <2>1, <2>2
<1>8. PICK g \in Seq(0..9) :
          /\ g = KeptOf(f) /\ Len(g) = Scale
          /\ \A k \in 1..Scale : g[k] = IF k <= Len(f) THEN f[k] ELSE 0
  BY KeptOfOK
<1>9. f = g \o rest
  <2>1. Len(f) = Len(g) + Len(rest)
    BY <1>2, <1>6, <1>8
  <2>2. \A k \in 1..Len(g) : k <= Len(f)
    BY <1>1, <1>8
  <2>3. \A k \in 1..Len(g) : f[k] = g[k]
    BY <1>8, <2>2
  <2>4. \A k \in 1..Len(rest) : f[Len(g) + k] = rest[k]
    BY <1>6, <1>7, <1>8
  <2>. QED  BY <2>1, <2>3, <2>4, Continued
<1>10. PICK E \in Nat \ {0}, D \in Nat \ {0} :
          E = TenTo(m) /\ D = 10 * E /\ D = TenTo(Len(f) - Scale) /\ D = TenTo(1 + m)
  <2>1. TenTo(m) \in Nat \ {0} /\ TenTo(m + 1) = 10 * TenTo(m) /\ m + 1 = 1 + m
    <3>1. TenTo(m) \in Nat \ {0} /\ TenTo(m + 1) = 10 * TenTo(m)
      BY TenToOK
    <3>2. m + 1 = 1 + m
      OBVIOUS
    <3>. QED  BY <3>1, <3>2
  <2>2. PICK E \in Nat \ {0} : E = TenTo(m)
    BY <2>1
  <2>3. PICK D \in Nat \ {0} : D = 10 * E
    OBVIOUS
  <2>. QED  BY <1>2, <2>1, <2>2, <2>3
<1>11. PICK T \in 0..E - 1 : T = Number(tail) /\ (T = 0 <=> \A k \in 1..m : tail[k] = 0)
  BY <1>4, <1>10, NumberBound
<1>12. PICK R \in Nat : R = first * E + T /\ R = Number(rest)
  <2>1. Number(rest) = first * E + T
    BY <1>5, <1>6, <1>10, <1>11
  <2>2. first * E + T \in Nat
    OBVIOUS
  <2>. QED  BY <2>1, <2>2
<1>13. PICK odd \in BOOLEAN : odd <=> f[Scale] % 2 = 1
  OBVIOUS
<1>14. Kept(w, f) % 2 = f[Scale] % 2
  <2>1. PICK c \in Seq(0..9) : c = w \o g
    BY <1>8, NumberConcat
  <2>2. Len(c) = Len(w) + Scale /\ Len(w) \in Nat
    BY <1>8, <2>1, NumberConcat
  <2>3. c[Len(w) + Scale] = g[Scale]
    <3>1. Len(w) + Scale \in 1..Len(w) + Len(g) /\ ~(Len(w) + Scale <= Len(w))
          /\ Len(w) + Scale - Len(w) = Scale
      BY <1>1, <1>8, <2>2
    <3>2. c[Len(w) + Scale] = g[Len(w) + Scale - Len(w)]
      BY <1>8, <2>1, <3>1, ConcatProperties
    <3>. QED  BY <3>1, <3>2
  <2>4. g[Scale] = f[Scale]
    <3>1. Scale \in 1..Scale /\ Scale <= Len(f)
      BY <1>1
    <3>. QED  BY <1>8, <3>1
  <2>5. Number(c) % 2 = c[Len(c)] % 2
    <3>1. Len(c) > 0
      BY <1>1, <2>2
    <3>. QED  BY <3>1, NumberLast
  <2>. QED  BY <1>8, <2>1, <2>2, <2>3, <2>4, <2>5 DEF Kept
<1>15. /\ R \in 0..D - 1
       /\ first > 5 \/ (first = 5 /\ (T # 0 \/ odd)) <=> 2 * R > D \/ (2 * R = D /\ odd)
  <2>1. R = first * E + T /\ D = 10 * E
    BY <1>10, <1>12
  <2>2. E \in Nat \ {0} /\ T \in 0..E - 1 /\ first \in 0..9 /\ odd \in BOOLEAN
    BY <1>11
  <2>3. HalfUp(first, T, odd, D, R)
    BY ONLY <2>1, <2>2, Halves
  <2>. QED  BY <2>3 DEF HalfUp
<1>16. T # 0 <=> \E k \in Scale + 2..Len(f) : f[k] # 0
  <2>1. ASSUME NEW k \in 1..m, tail[k] # 0 PROVE \E i \in Scale + 2..Len(f) : f[i] # 0
    <3>1. Scale + 1 + k \in Scale + 2..Len(f)
      BY <1>1, <1>2
    <3>. QED  BY <1>4, <2>1, <3>1
  <2>2. ASSUME NEW i \in Scale + 2..Len(f), f[i] # 0 PROVE \E k \in 1..m : tail[k] # 0
    <3>1. i - Scale - 1 \in 1..m /\ Scale + 1 + (i - Scale - 1) = i
      BY <1>1, <1>2
    <3>. QED  BY <1>4, <2>2, <3>1
  <2>. QED  BY <1>11, <2>1, <2>2
<1>17. RoundsUp(f) <=> first > 5 \/ (first = 5 /\ (T # 0 \/ odd))
  BY <1>3, <1>13, <1>16 DEF RoundsUp
<1>18. R = 0 <=> \A k \in Scale + 1..Len(f) : f[k] = 0
  <2>1. R = 0 <=> \A k \in 1..1 + m : rest[k] = 0
    BY <1>6, <1>12, NumberBound
  <2>2. ASSUME NEW k \in Scale + 1..Len(f), \A j \in 1..1 + m : rest[j] = 0 PROVE f[k] = 0
    <3>1. k - Scale \in 1..1 + m /\ Scale + (k - Scale) = k
      BY <1>1, <1>2
    <3>. QED  BY <1>7, <2>2, <3>1
  <2>3. ASSUME NEW j \in 1..1 + m, \A k \in Scale + 1..Len(f) : f[k] = 0 PROVE rest[j] = 0
    <3>1. Scale + j \in Scale + 1..Len(f)
      BY <1>1, <1>2
    <3>. QED  BY <1>7, <2>3, <3>1
  <2>. QED  BY <2>1, <2>2, <2>3
<1>19. Typed(w, f) = Kept(w, f) * D + R
  <2>1. PICK W \in Nat, F \in Nat, G \in Nat : W = Number(w) /\ F = Number(f) /\ G = Number(g)
    BY <1>8, TypedIs
  <2>2. F = G * D + R
    <3>1. Number(g \o rest) = Number(g) * TenTo(Len(rest)) + Number(rest)
      BY NumberConcat
    <3>. QED  BY <1>6, <1>9, <1>10, <1>12, <2>1, <3>1
  <2>3. PICK o \in Nat : o = One
    BY <1>1, TenToOK DEF One
  <2>4. TenTo(Len(f)) = o * D
    <3>1. Len(f) = Scale + (1 + m) /\ 1 + m \in Nat
      BY <1>1, <1>2
    <3>. QED  BY <1>1, <1>10, <2>3, <3>1, TenToSum DEF One
  <2>5. Typed(w, f) = W * (o * D) + (G * D + R) /\ Kept(w, f) = W * o + G
    <3>1. /\ Typed(w, f) = Number(w) * TenTo(Len(f)) + Number(f)
          /\ Kept(w, f) = Number(w) * One + Number(KeptOf(f))
      BY TypedIs
    <3>. QED  BY <1>8, <2>1, <2>2, <2>3, <2>4, <3>1
  <2>6. W * (o * D) + (G * D + R) = (W * o + G) * D + R
    OBVIOUS
  <2>. QED  BY <2>5, <2>6
<1>20. Cut(w, f, D, R)
  BY <1>10, <1>13, <1>14, <1>15, <1>17, <1>18, <1>19 DEF Cut
<1>. QED  BY <1>20

(* What is kept and carried is the number that was typed, rounded half to  *)
(* even; it is exactly that number when only zeros are dropped.            *)
Halfway(K, r, D, R) == r = 1 <=> 2 * R > D \/ (2 * R = D /\ K % 2 = 1)
CutIs(K, r, D, R, o) ==
    /\ IsNearest(K + r, (K * D + R) * o, o * D)
    /\ R = 0 => (K + r) * (o * D) = (K * D + R) * o

LEMMA CutNearest ==
  ASSUME NEW o \in Nat \ {0}, NEW D \in Nat \ {0}, NEW R \in 0..D - 1, NEW K \in Nat,
         NEW r \in 0..1, Halfway(K, r, D, R)
  PROVE  CutIs(K, r, D, R, o)
<1> USE DEF Halfway, CutIs
<1>1. PICK x \in Int : x = r * D - R
  OBVIOUS
<1>2. /\ 2 * x <= D /\ -(2 * x) <= D
      /\ 2 * x = D \/ -(2 * x) = D => (K + r) % 2 = 0
      /\ R = 0 => x = 0
  <2>1. CASE r = 0
    <3>1. x = -R /\ ~(2 * R > D) /\ K + r = K /\ (2 * R = D => K % 2 = 0)
      BY <1>1, <2>1
    <3>. QED  BY <3>1
  <2>2. CASE r = 1
    <3>1. x = D - R /\ 2 * R >= D /\ K + r = K + 1 /\ (2 * R = D => K % 2 = 1)
      BY <1>1, <2>2
    <3>2. K % 2 = 1 => (K + 1) % 2 = 0
      OBVIOUS
    <3>. QED  BY <3>1, <3>2
  <2>. QED  BY <2>1, <2>2
<1>3. PICK d \in Nat \ {0} : d = o * D
  <2>1. o * D \in Nat \ {0}
    OBVIOUS
  <2>. QED  BY <2>1
<1>4. PICK m \in Int : m = o * x
  OBVIOUS
<1>5. (K + r) * (o * D) - (K * D + R) * o = m
  <2>1. (K + r) * (o * D) - (K * D + R) * o = o * (r * D - R)
    OBVIOUS
  <2>. QED  BY <1>1, <1>4, <2>1
<1>6. /\ 2 * x < D => 2 * m < d
      /\ -(2 * x) < D => -(2 * m) < d
      /\ 2 * x = D => 2 * m = d
      /\ -(2 * x) = D => -(2 * m) = d
      /\ x = 0 => m = 0
  <2>1. \A y \in Int : y < D => o * y < o * D
    OBVIOUS
  <2>2. o * (2 * x) = 2 * m /\ o * (-(2 * x)) = -(2 * m)
    BY <1>4
  <2>3. 2 * x \in Int /\ -(2 * x) \in Int
    OBVIOUS
  <2>4. x = 0 => m = 0
    BY <1>4
  <2>. QED  BY <1>3, <2>1, <2>2, <2>3, <2>4
<1>7. PICK e \in Int : e = (K + r) * d - (K * D + R) * o /\ e = m
  BY <1>3, <1>5
<1>8. IsNearest(K + r, (K * D + R) * o, d)
  <2>1. Magnitude(d) = d
    BY DEF Magnitude
  <2>2. 2 * Magnitude(e) < d \/ (2 * Magnitude(e) = d /\ (K + r) % 2 = 0)
    <3>1. 2 * x < D \/ 2 * x = D
      BY <1>2
    <3>2. -(2 * x) < D \/ -(2 * x) = D
      BY <1>2
    <3>. QED  BY <1>2, <1>6, <1>7, <3>1, <3>2 DEF Magnitude
  <2>. QED  BY <1>7, <2>1, <2>2 DEF IsNearest
<1>9. R = 0 => (K + r) * (o * D) = (K * D + R) * o
  BY <1>2, <1>5, <1>6
<1>. QED  BY <1>3, <1>8, <1>9

LEMMA ReadNearest ==
  ASSUME NEW w \in Seq(0..9), NEW f \in Seq(0..9)
  PROVE  /\ IsNearest(Kept(w, f) + Carry(f), Typed(w, f) * One, TenTo(Len(f)))
         /\ (\A k \in Scale + 1..Len(f) : f[k] = 0) =>
               (Kept(w, f) + Carry(f)) * TenTo(Len(f)) = Typed(w, f) * One
<1>1. Scale \in Nat /\ Len(f) \in Nat
  BY ScaleAssumption
<1>2. PICK o \in Nat \ {0}, u \in Nat \ {0} : o = One /\ u = TenTo(Len(f))
  BY <1>1, TenToOK DEF One
<1>3. PICK K \in Nat, r \in 0..1, T \in Nat : K = Kept(w, f) /\ r = Carry(f) /\ T = Typed(w, f)
  BY TextOK
<1>4. CASE Len(f) <= Scale
  <2>1. Scale - Len(f) \in Nat /\ Scale = Len(f) + (Scale - Len(f))
    BY <1>1, <1>4
  <2>2. PICK q \in Nat : q = TenTo(Scale - Len(f))
    BY <2>1, TenToOK
  <2>3. o = u * q
    BY <1>1, <1>2, <2>1, <2>2, TenToSum DEF One
  <2>4. K = T * q /\ r = 0
    BY <1>3, <1>4, <2>2, Padded
  <2>5. (K + r) * u = T * o
    <3>1. (T * q) * u = T * (u * q)
      OBVIOUS
    <3>. QED  BY <2>3, <2>4, <3>1
  <2>6. IsNearest(K + r, T * o, u)
    <3>1. (K + r) * u - T * o = 0
      BY <2>5
    <3>2. Magnitude(u) = u /\ Magnitude(0) = 0
      BY DEF Magnitude
    <3>. QED  BY <3>1, <3>2 DEF IsNearest
  <2>. QED  BY <1>2, <1>3, <2>5, <2>6
<1>5. CASE Len(f) > Scale
  <2>1. PICK D \in Nat \ {0}, R \in Nat : Cut(w, f, D, R)
    BY <1>5, CutOK
  <2>2. /\ D = TenTo(Len(f) - Scale) /\ R \in 0..D - 1 /\ T = K * D + R
        /\ R = 0 <=> \A k \in Scale + 1..Len(f) : f[k] = 0
        /\ r = 1 <=> 2 * R > D \/ (2 * R = D /\ K % 2 = 1)
    <3>1. r = 1 <=> RoundsUp(f)
      BY <1>3 DEF Carry
    <3>2. /\ D = TenTo(Len(f) - Scale) /\ R \in 0..D - 1 /\ T = K * D + R
          /\ (R = 0 <=> \A k \in Scale + 1..Len(f) : f[k] = 0)
          /\ (RoundsUp(f) <=> 2 * R > D \/ (2 * R = D /\ K % 2 = 1))
      BY <1>3, <2>1 DEF Cut
    <3>. QED  BY <3>1, <3>2
  <2>3. u = o * D
    <3>1. Len(f) - Scale \in Nat /\ Len(f) = Scale + (Len(f) - Scale)
      BY <1>1, <1>5
    <3>. QED  BY <1>1, <1>2, <2>2, <3>1, TenToSum DEF One
  <2>4. /\ IsNearest(K + r, (K * D + R) * o, o * D)
        /\ R = 0 => (K + r) * (o * D) = (K * D + R) * o
    <3>1. Halfway(K, r, D, R) /\ R \in 0..D - 1
      BY <2>2 DEF Halfway
    <3>2. CutIs(K, r, D, R, o)
      BY <3>1, CutNearest
    <3>. QED  BY <3>2 DEF CutIs
  <2>5. IsNearest(K + r, T * o, u) /\ (R = 0 => (K + r) * u = T * o)
    BY <2>2, <2>3, <2>4
  <2>. QED  BY <1>2, <1>3, <2>2, <2>5
<1>. QED  BY <1>1, <1>4, <1>5

(* A number that is too large to keep has a whole part that is too large.  *)
LEMMA TooLarge ==
  ASSUME NEW w \in Seq(0..9), NEW f \in Seq(0..9), Kept(w, f) + Carry(f) > Ceiling
  PROVE  Typed(w, f) \div TenTo(Len(f)) >= Ceiling \div One
<1>1. Scale \in Nat /\ Len(f) \in Nat /\ Ceiling \in Nat
  BY ScaleAssumption, WordParts
<1>2. PICK o \in Nat \ {0}, u \in Nat \ {0} : o = One /\ u = TenTo(Len(f))
  BY <1>1, TenToOK DEF One
<1>3. PICK K \in Nat, r \in 0..1, T \in Nat : K = Kept(w, f) /\ r = Carry(f) /\ T = Typed(w, f)
  BY TextOK
<1>4. PICK W \in Nat, F \in 0..u - 1, G \in 0..o - 1 :
          W = Number(w) /\ F = Number(f) /\ G = Number(KeptOf(f))
  <2>1. Number(f) \in 0..TenTo(Len(f)) - 1
    BY NumberBound
  <2>2. Number(KeptOf(f)) \in 0..TenTo(Scale) - 1
    BY KeptOfOK, NumberBound
  <2>3. Number(w) \in Nat
    BY TypedIs
  <2>. QED  BY <1>2, <2>1, <2>2, <2>3 DEF One
<1>5. T = u * W + F /\ K = o * W + G
  <2>1. T = W * u + F /\ K = W * o + G
    BY <1>2, <1>3, <1>4, TypedIs
  <2>. QED  BY <2>1
<1>6. T \div u = W
  BY <1>5, UniqueDivision
<1>7. PICK c \in Int, s \in 0..o - 1 : c = Ceiling \div o /\ Ceiling = o * c + s
  <2>1. Ceiling \div o \in Int /\ Ceiling % o \in 0..o - 1
        /\ Ceiling = o * (Ceiling \div o) + (Ceiling % o)
    BY <1>1, Division
  <2>. QED  BY <2>1
<1>8. K >= Ceiling
  BY <1>1, <1>3
<1>9. o * c < o * (W + 1)
  <2>1. PICK a \in Int, b \in Int : a = o * c /\ b = o * W
    OBVIOUS
  <2>2. a < b + o
    BY <1>5, <1>7, <1>8, <2>1
  <2>. QED  BY <2>1, <2>2
<1>10. c < W + 1
  <2>1. \A x \in Int, y \in Int : x <= y => o * x <= o * y
    OBVIOUS
  <2>. QED  BY <1>9, <2>1
<1>. QED  BY <1>2, <1>3, <1>6, <1>7, <1>10

-----------------------------------------------------------------------------
(* What is read is what was typed, or the nearest number there is.         *)

LEMMA SignedTimes ==
  ASSUME NEW n \in Nat, NEW m \in Nat, NEW negative \in BOOLEAN
  PROVE  /\ Signed(negative, n) * m = Signed(negative, n * m)
         /\ Signed(negative, n) \in Int /\ Magnitude(Signed(negative, n)) = n
<1>1. (-n) * m = -(n * m) /\ n * m \in Nat
  OBVIOUS
<1>. QED  BY <1>1 DEF Signed, Magnitude

LEMMA UnitsOK ==
  ASSUME NEW f \in Seq(0..9)
  PROVE  /\ Len(f) \in Nat /\ Scale \in Nat
         /\ One \in Nat \ {0} /\ TenTo(Len(f)) \in Nat \ {0}
<1>1. Len(f) \in Nat /\ Scale \in Nat
  BY ScaleAssumption
<1>. QED  BY <1>1, TenToOK DEF One

LEMMA ReadNumber ==
  ASSUME NEW w \in Seq(0..9), NEW f \in Seq(0..9)
  PROVE  \E N \in Nat, T \in Nat : N = Kept(w, f) + Carry(f) /\ T = Typed(w, f)
<1>1. PICK k \in Nat, r \in 0..1, T \in Nat : k = Kept(w, f) /\ r = Carry(f) /\ T = Typed(w, f)
  BY TextOK
<1>2. PICK N \in Nat : N = k + r
  OBVIOUS
<1>. QED  BY <1>1, <1>2

LEMMA NumeralOK ==
  ASSUME NEW t \in Numeral
  PROVE  /\ t.negative \in BOOLEAN /\ t.whole \in Seq(0..9) /\ t.fraction \in Seq(0..9)
         /\ NumberOf(t) = Signed(t.negative, Typed(t.whole, t.fraction))
BY DEF Numeral, NumberOf, Typed

(* What is read when it is not too large.                                  *)
LEMMA ReadOK ==
  ASSUME NEW t \in Numeral, Parse(t).ok
  PROVE  Parse(t) = Some(Signed(t.negative, Kept(t.whole, t.fraction) + Carry(t.fraction)))
<1>1. PICK w \in Seq(0..9), f \in Seq(0..9) : w = t.whole /\ f = t.fraction
  BY NumeralOK
<1>2. Parse(t) = IF (w = <<>> /\ f = <<>>) \/ Kept(w, f) + Carry(f) > Ceiling THEN Fail
                 ELSE Some(Signed(t.negative, Kept(w, f) + Carry(f)))
  BY <1>1, ParseOK
<1>3. ~Fail.ok
  BY DEF Fail
<1>. QED  BY <1>1, <1>2, <1>3

LEMMA ParseRight ==
  ASSUME NEW t \in Numeral
  PROVE  RightlyRounded(Parse(t), NumberOf(t) * One, TenTo(Len(t.fraction)),
                        \/ t.whole = <<>> /\ t.fraction = <<>>
                        \/ Magnitude(NumberOf(t)) \div TenTo(Len(t.fraction))
                             >= Ceiling \div One)
<1>1. PICK n \in BOOLEAN, w \in Seq(0..9), f \in Seq(0..9) :
          n = t.negative /\ w = t.whole /\ f = t.fraction
  BY NumeralOK
<1>2. PICK N \in Nat, T \in Nat : N = Kept(w, f) + Carry(f) /\ T = Typed(w, f)
  BY ONLY ReadNumber, w \in Seq(0..9), f \in Seq(0..9)
<1>3. PICK o \in Nat \ {0}, u \in Nat \ {0} : o = One /\ u = TenTo(Len(f))
  BY UnitsOK
<1>4. NumberOf(t) = Signed(n, T) /\ Magnitude(NumberOf(t)) = T
  BY <1>1, <1>2, NumeralOK, SignedTimes
<1>5. PICK p \in Nat : p = T * o
  OBVIOUS
<1>6. NumberOf(t) * o = Signed(n, p)
  BY <1>4, <1>5, SignedTimes
<1>7. CASE Parse(t).ok
  <2>1. Parse(t) = Some(Signed(n, N))
    BY <1>1, <1>2, <1>7, ReadOK
  <2>2. u \in Int \ {0} /\ ~(u < 0) /\ Magnitude(u) = u
    BY DEF Magnitude
  <2>3. IsNearest(N, p, Magnitude(u))
    BY <1>2, <1>3, <1>5, <2>2, ReadNearest
  <2>4. IsNearest(Signed(n # (u < 0), N), Signed(n, p), u)
    BY <2>2, <2>3, NearestSigned
  <2>5. (n # (u < 0)) = n
    BY <2>2
  <2>6. IsNearest(Signed(n, N), Signed(n, p), u)
    BY <2>4, <2>5
  <2>7. Parse(t).value = Signed(n, N)
    BY <2>1 DEF Some
  <2>. QED  BY <1>1, <1>3, <1>6, <1>7, <2>6, <2>7 DEF RightlyRounded
<1>8. CASE ~Parse(t).ok
  <2>1. (w = <<>> /\ f = <<>>) \/ N > Ceiling
    <3>1. Parse(t) = IF (w = <<>> /\ f = <<>>) \/ N > Ceiling THEN Fail
                     ELSE Some(Signed(n, N))
      BY <1>1, <1>2, ParseOK
    <3>2. Some(Signed(n, N)).ok
      BY DEF Some
    <3>. QED  BY <1>8, <3>1, <3>2
  <2>2. N > Ceiling => T \div u >= Ceiling \div One
    BY <1>2, <1>3, TooLarge
  <2>. QED  BY <1>1, <1>3, <1>4, <1>8, <2>1, <2>2 DEF RightlyRounded
<1>. QED  BY <1>7, <1>8

(* No more digits than the column keeps: what is read is what was typed.   *)
LEMMA ReadExact ==
  ASSUME NEW t \in Numeral, Parse(t).ok, SignificantPlaces(t.fraction) <= Scale
  PROVE  /\ Parse(t).value \in Int
         /\ Magnitude(Parse(t).value) * TenTo(Len(t.fraction))
              = Magnitude(NumberOf(t)) * One
         /\ Parse(t).value * TenTo(Len(t.fraction)) = NumberOf(t) * One
<1>1. PICK n \in BOOLEAN, w \in Seq(0..9), f \in Seq(0..9) :
          n = t.negative /\ w = t.whole /\ f = t.fraction
  BY NumeralOK
<1>2. PICK N \in Nat, T \in Nat : N = Kept(w, f) + Carry(f) /\ T = Typed(w, f)
  BY ONLY ReadNumber, w \in Seq(0..9), f \in Seq(0..9)
<1>3. PICK o \in Nat \ {0}, u \in Nat \ {0} : o = One /\ u = TenTo(Len(f))
  BY UnitsOK
<1>4. \A k \in Scale + 1..Len(f) : f[k] = 0
  <2>1. /\ SignificantPlaces(f) \in 0..Len(f)
        /\ \A k \in SignificantPlaces(f) + 1..Len(f) : f[k] = 0
    BY PlacesOK
  <2>2. \A k \in Scale + 1..Len(f) : k \in SignificantPlaces(f) + 1..Len(f)
    BY <1>1, <2>1, ScaleAssumption
  <2>. QED  BY <2>1, <2>2
<1>5. N * u = T * o
  BY <1>2, <1>3, <1>4, ReadNearest
<1>6. Parse(t).value = Signed(n, N)
  <2>1. Parse(t) = Some(Signed(n, N))
    BY <1>1, <1>2, ReadOK
  <2>. QED  BY <2>1 DEF Some
<1>7. NumberOf(t) = Signed(n, T)
  BY <1>1, <1>2, NumeralOK
<1>8. /\ Signed(n, N) * u = Signed(n, N * u) /\ Signed(n, N) \in Int
      /\ Magnitude(Signed(n, N)) = N
      /\ Signed(n, T) * o = Signed(n, T * o) /\ Magnitude(Signed(n, T)) = T
  BY SignedTimes
<1>. QED  BY <1>1, <1>3, <1>5, <1>6, <1>7, <1>8

LEMMA ColumnExact ==
  ASSUME NEW t \in Numeral, NEW digits, NEW places \in 0..Scale,
         ParseColumn(t, digits, places).ok
  PROVE  ParseColumn(t, digits, places).value * TenTo(Len(t.fraction)) = NumberOf(t) * One
<1>1. /\ Parse(t).ok /\ SignificantPlaces(t.fraction) <= places
      /\ ParseColumn(t, digits, places) = Parse(t)
  BY DEF ParseColumn, Fail
<1>2. SignificantPlaces(t.fraction) <= Scale
  <2>1. SignificantPlaces(t.fraction) \in Nat /\ Scale \in Nat
    <3>1. t.fraction \in Seq(0..9) /\ Len(t.fraction) \in Nat
      BY NumeralOK
    <3>. QED  BY <3>1, PlacesOK, ScaleAssumption
  <2>. QED  BY <1>1, <2>1
<1>. QED  BY <1>1, <1>2, ReadExact

-----------------------------------------------------------------------------
(* A column refuses what it cannot keep, and nothing else.                 *)

LEMMA Cancel ==
  ASSUME NEW x \in Int, NEW y \in Int, NEW k \in Nat \ {0}
  PROVE  /\ x * k = y * k => x = y
         /\ x * k < y * k => x < y
<1>1. /\ x < y => x * k < y * k
      /\ x <= y => x * k <= y * k
      /\ y < x => y * k < x * k
      /\ y <= x => y * k <= x * k
  OBVIOUS
<1>2. PICK a \in Int, b \in Int : a = x * k /\ b = y * k
  OBVIOUS
<1>. QED  BY <1>1, <1>2

(* Digits are split after the nth: R is what the others say.               *)
SplitAt(f, n, G, R) ==
    /\ Number(f) = G * TenTo(Len(f) - n) + R
    /\ R \in 0..TenTo(Len(f) - n) - 1
    /\ R = 0 <=> \A k \in n + 1..Len(f) : f[k] = 0

LEMMA SplitOK ==
  ASSUME NEW f \in Seq(0..9), NEW n \in 0..Len(f)
  PROVE  \E G \in Nat, R \in Nat : SplitAt(f, n, G, R)
<1>1. Len(f) \in Nat /\ \A k \in 1..Len(f) : f[k] \in 0..9
  OBVIOUS
<1>2. PICK m \in Nat : m = Len(f) - n /\ Len(f) = n + m
  <2>1. PICK m : m = Len(f) - n
    OBVIOUS
  <2>2. m \in Nat /\ Len(f) = n + m
    BY <1>1, <2>1
  <2>. QED  BY <2>1, <2>2
<1>3. PICK g \in Seq(0..9) : Len(g) = n /\ \A k \in 1..n : g[k] = f[k]
  <2>1. \A k \in 1..n : f[k] \in 0..9
    BY <1>1, <1>2
  <2>2. /\ [k \in 1..n |-> f[k]] \in Seq(0..9) /\ Len([k \in 1..n |-> f[k]]) = n
        /\ \A k \in 1..n : [j \in 1..n |-> f[j]][k] = f[k]
    BY <2>1
  <2>. QED  BY <2>2
<1>4. PICK rest \in Seq(0..9) : Len(rest) = m /\ \A k \in 1..m : rest[k] = f[n + k]
  <2>1. \A k \in 1..m : f[n + k] \in 0..9
    <3>1. \A k \in 1..m : n + k \in 1..Len(f)
      BY <1>1, <1>2
    <3>. QED  BY <1>1, <3>1
  <2>2. /\ [k \in 1..m |-> f[n + k]] \in Seq(0..9) /\ Len([k \in 1..m |-> f[n + k]]) = m
        /\ \A k \in 1..m : [j \in 1..m |-> f[n + j]][k] = f[n + k]
    BY <2>1
  <2>. QED  BY <2>2
<1>5. f = g \o rest
  <2>1. Len(f) = Len(g) + Len(rest)
    BY <1>2, <1>3, <1>4
  <2>2. \A k \in 1..Len(g) : f[k] = g[k]
    BY <1>3
  <2>3. \A k \in 1..Len(rest) : f[Len(g) + k] = rest[k]
    BY <1>3, <1>4
  <2>. QED  BY <2>1, <2>2, <2>3, Continued
<1>6. Number(g \o rest) = Number(g) * TenTo(Len(rest)) + Number(rest)
  BY NumberConcat
<1>7. Number(g) \in Nat
  BY TypedIs
<1>8. /\ Number(rest) \in 0..TenTo(m) - 1
      /\ Number(rest) = 0 <=> \A k \in 1..m : rest[k] = 0
  <2>1. /\ Number(rest) \in 0..TenTo(Len(rest)) - 1
        /\ Number(rest) = 0 <=> \A k \in 1..Len(rest) : rest[k] = 0
    BY NumberBound
  <2>. QED  BY <1>4, <2>1
<1>9. (\A k \in 1..m : rest[k] = 0) <=> \A k \in n + 1..Len(f) : f[k] = 0
  <2>1. ASSUME NEW k \in n + 1..Len(f), \A j \in 1..m : rest[j] = 0 PROVE f[k] = 0
    <3>1. PICK j \in 1..m : k = n + j
      <4>1. PICK j : j = k - n
        OBVIOUS
      <4>2. j \in 1..m /\ k = n + j
        BY <1>2, <4>1
      <4>. QED  BY <4>2
    <3>. QED  BY <1>4, <2>1, <3>1
  <2>2. ASSUME NEW j \in 1..m, \A k \in n + 1..Len(f) : f[k] = 0 PROVE rest[j] = 0
    <3>1. n + j \in n + 1..Len(f)
      BY <1>2
    <3>. QED  BY <1>4, <2>2, <3>1
  <2>. QED  BY <2>1, <2>2
<1>10. PICK G \in Nat, R \in Nat : G = Number(g) /\ R = Number(rest)
  <2>1. Number(rest) \in Nat
    BY TypedIs
  <2>. QED  BY <1>7, <2>1
<1>11. SplitAt(f, n, G, R)
  BY <1>2, <1>4, <1>5, <1>6, <1>8, <1>9, <1>10 DEF SplitAt
<1>. QED  BY <1>11

LEMMA FewPlaces ==
  ASSUME NEW f \in Seq(0..9), NEW n \in Nat, \A k \in n + 1..Len(f) : f[k] = 0
  PROVE  SignificantPlaces(f) <= n
<1>1. /\ SignificantPlaces(f) \in 0..Len(f)
      /\ SignificantPlaces(f) > 0 => f[SignificantPlaces(f)] # 0
  BY PlacesOK
<1>2. PICK s \in 0..Len(f) : s = SignificantPlaces(f)
  BY <1>1
<1>3. s > n => s \in n + 1..Len(f)
  OBVIOUS
<1>. QED  BY <1>1, <1>2, <1>3

(* A number of places that can be kept was typed with no others.           *)
LEMMA StorablePlaces ==
  ASSUME NEW w \in Seq(0..9), NEW f \in Seq(0..9), NEW places \in Nat, NEW n \in Nat,
         n * TenTo(Len(f)) = Typed(w, f) * TenTo(places)
  PROVE  SignificantPlaces(f) <= places
<1>1. Len(f) \in Nat
  OBVIOUS
<1>2. CASE Len(f) <= places
  <2>1. SignificantPlaces(f) \in 0..Len(f)
    BY PlacesOK
  <2>. QED  BY <1>1, <1>2, <2>1
<1>3. CASE Len(f) > places
  <2>1. PICK m \in Nat : m = Len(f) - places /\ Len(f) = places + m
    <3>1. PICK m : m = Len(f) - places
      OBVIOUS
    <3>2. m \in Nat /\ Len(f) = places + m
      BY <1>1, <1>3, <3>1
    <3>. QED  BY <3>1, <3>2
  <2>2. PICK p \in Nat \ {0}, q \in Nat \ {0} : p = TenTo(places) /\ q = TenTo(m)
    BY TenToOK
  <2>3. TenTo(Len(f)) = p * q
    BY <2>1, <2>2, TenToSum
  <2>4. PICK G \in Nat, R \in Nat : SplitAt(f, places, G, R)
    <3>1. places \in 0..Len(f)
      BY <1>1, <1>3
    <3>. QED  BY <3>1, SplitOK
  <2>5. /\ Number(f) = G * q + R /\ R \in 0..q - 1
        /\ R = 0 <=> \A k \in places + 1..Len(f) : f[k] = 0
    BY <2>1, <2>2, <2>4 DEF SplitAt
  <2>6. PICK W \in Nat : W = Number(w)
    BY TypedIs
  <2>7. Typed(w, f) = W * (p * q) + (G * q + R)
    BY <2>3, <2>5, <2>6, TypedIs
  <2>8. PICK a \in Int, b \in Int : a = n * q /\ b = W * (p * q) + (G * q + R)
    OBVIOUS
  <2>9. a * p = b * p
    <3>1. n * (p * q) = b * p
      BY <2>2, <2>3, <2>7, <2>8
    <3>2. n * (p * q) = (n * q) * p
      OBVIOUS
    <3>. QED  BY <2>8, <3>1, <3>2
  <2>10. a = b
    BY <2>9, Cancel
  <2>11. PICK z \in Int : z = n - (W * p + G)
    OBVIOUS
  <2>12. R = z * q
    <3>1. n * q - (W * (p * q) + G * q) = (n - (W * p + G)) * q
      OBVIOUS
    <3>2. R = n * q - (W * (p * q) + G * q)
      BY <2>8, <2>10
    <3>. QED  BY <2>11, <3>1, <3>2
  <2>13. R = 0
    <3>1. z * q = R + 0 * q /\ R < 1 * q /\ 0 * q = 0
      BY <2>5, <2>12
    <3>2. z < 1
      <4>1. z * q < 1 * q
        BY <3>1
      <4>. QED  BY <4>1, Cancel
    <3>3. z > -1
      <4>1. (-1) * q < z * q
        BY <2>5, <2>12
      <4>. QED  BY <4>1, Cancel
    <3>4. z = 0
      BY <3>2, <3>3
    <3>. QED  BY <2>12, <3>4
  <2>. QED  BY <2>5, <2>13, FewPlaces
<1>. QED  BY <1>1, <1>2, <1>3

(* A column refuses only what it cannot keep.                              *)
LEMMA ColumnKeeps ==
  ASSUME NEW t \in Numeral, NEW digits \in Nat, NEW places \in 0..Scale,
         Parse(t).ok,
         NEW n \in Nat, n < TenTo(digits + places),
         n * TenTo(Len(t.fraction)) = Magnitude(NumberOf(t)) * TenTo(places)
  PROVE  ParseColumn(t, digits, places) = Parse(t)
<1>1. PICK w \in Seq(0..9), f \in Seq(0..9) :
          w = t.whole /\ f = t.fraction /\ t.negative \in BOOLEAN
  BY NumeralOK
<1>2. PICK T \in Nat : T = Typed(w, f) /\ Magnitude(NumberOf(t)) = T
  <2>1. PICK T \in Nat : T = Typed(w, f)
    BY TextOK
  <2>2. NumberOf(t) = Signed(t.negative, T)
    BY <1>1, <2>1, NumeralOK
  <2>3. Magnitude(NumberOf(t)) = T
    BY <1>1, <2>2, SignedTimes
  <2>. QED  BY <2>1, <2>3
<1>3. places \in Nat /\ Scale \in Nat /\ places <= Scale
  BY ScaleAssumption
<1>4. SignificantPlaces(f) <= places
  BY <1>1, <1>2, <1>3, StorablePlaces
<1>5. SignificantPlaces(f) <= Scale
  <2>1. SignificantPlaces(f) \in 0..Len(f) /\ Len(f) \in Nat
    BY PlacesOK
  <2>. QED  BY <1>3, <1>4, <2>1
<1>6. PICK N \in Nat : N = Magnitude(Parse(t).value)
                      /\ N * TenTo(Len(f)) = T * One
  <2>1. Parse(t).value \in Int
        /\ Magnitude(Parse(t).value) * TenTo(Len(f)) = Magnitude(NumberOf(t)) * One
    BY <1>1, <1>5, ReadExact
  <2>2. Magnitude(Parse(t).value) \in Nat
    BY <2>1, SignOK
  <2>. QED  BY <1>2, <2>1, <2>2
<1>7. PICK s \in Nat \ {0}, p \in Nat \ {0}, g \in Nat \ {0}, u \in Nat \ {0} :
          /\ s = TenTo(Scale - places) /\ p = TenTo(places) /\ g = TenTo(digits)
          /\ u = TenTo(Len(f))
  <2>1. Scale - places \in Nat
    BY <1>3
  <2>2. \A k \in Nat : TenTo(k) \in Nat \ {0}
    BY TenToOK
  <2>3. Len(f) \in Nat
    OBVIOUS
  <2>. QED  BY <1>3, <2>1, <2>2, <2>3
<1>8. PICK o \in Nat \ {0} : o = One /\ o = p * s
  <2>1. Scale - places \in Nat /\ Scale = places + (Scale - places)
    BY <1>3
  <2>2. One = p * s
    BY <1>3, <1>7, <2>1, TenToSum DEF One
  <2>3. One \in Nat \ {0}
    BY WordParts
  <2>. QED  BY <2>2, <2>3
<1>9. n < g * p
  BY <1>3, <1>7, TenToSum
<1>10. N = n * s
  <2>1. N * u = T * o /\ n * u = T * p
    BY <1>1, <1>2, <1>6, <1>7, <1>8
  <2>2. (n * s) * u = N * u
    <3>1. (n * s) * u = (n * u) * s
      OBVIOUS
    <3>2. (T * p) * s = T * (p * s)
      OBVIOUS
    <3>. QED  BY <1>8, <2>1, <3>1, <3>2
  <2>3. PICK c \in Int : c = n * s
    OBVIOUS
  <2>4. c * u = N * u
    BY <2>2, <2>3
  <2>5. c = N
    BY <2>4, Cancel
  <2>. QED  BY <2>3, <2>5
<1>11. N % s = 0
  <2>1. N = s * n + 0 /\ 0 \in 0..s - 1 /\ N \in Int /\ n \in Int
    BY <1>10
  <2>. QED  BY <2>1, UniqueDivision
<1>12. N \div o < g
  <2>1. PICK c \in Int, r \in 0..o - 1 : c = N \div o /\ N = o * c + r
    <3>1. N \div o \in Int /\ N % o \in 0..o - 1 /\ N = o * (N \div o) + (N % o)
      BY Division
    <3>. QED  BY <3>1
  <2>2. N < g * o
    <3>1. PICK b \in Nat : b = g * p
      OBVIOUS
    <3>2. n * s < b * s
      BY <1>9, <3>1
    <3>3. (g * p) * s = g * (p * s)
      OBVIOUS
    <3>. QED  BY <1>8, <1>10, <3>1, <3>2, <3>3
  <2>3. c * o < g * o
    <3>1. PICK a \in Int : a = c * o /\ o * c = a
      OBVIOUS
    <3>. QED  BY <2>1, <2>2, <3>1
  <2>4. c < g
    BY <2>3, Cancel
  <2>. QED  BY <2>1, <2>4
<1>13. Fits(Parse(t).value, digits, places)
  BY <1>6, <1>7, <1>8, <1>11, <1>12 DEF Fits
<1>. QED  BY <1>1, <1>4, <1>13 DEF ParseColumn

LEMMA ColumnRefuses ==
  ASSUME NEW t \in Numeral, Parse(t).ok,
         ~ParseColumn(t, AmountDigits, AmountPlaces).ok,
         NEW units \in -(TenTo(AmountDigits + AmountPlaces) - 1)
                       ..TenTo(AmountDigits + AmountPlaces) - 1
  PROVE  units * TenTo(Len(t.fraction)) # NumberOf(t) * TenTo(AmountPlaces)
<1> SUFFICES ASSUME units * TenTo(Len(t.fraction)) = NumberOf(t) * TenTo(AmountPlaces)
             PROVE  FALSE
  OBVIOUS
<1>1. AmountDigits \in Nat /\ AmountPlaces \in Nat /\ AmountPlaces \in 0..Scale
  BY DigitsAssumption, ScaleAssumption
<1>2. PICK u \in Nat \ {0}, p \in Nat \ {0}, m \in Nat \ {0} :
          /\ u = TenTo(Len(t.fraction)) /\ p = TenTo(AmountPlaces)
          /\ m = TenTo(AmountDigits + AmountPlaces)
  <2>1. Len(t.fraction) \in Nat
    BY NumeralOK
  <2>2. AmountDigits + AmountPlaces \in Nat
    BY <1>1
  <2>3. \A k \in Nat : TenTo(k) \in Nat \ {0}
    BY TenToOK
  <2>. QED  BY <1>1, <2>1, <2>2, <2>3
<1>3. units \in Int /\ units < m /\ -units < m
  BY <1>2
<1>4. PICK v \in Int : v = NumberOf(t)
  <2>1. Typed(t.whole, t.fraction) \in Nat
    BY NumeralOK, TextOK
  <2>2. NumberOf(t) \in Int
    BY <2>1, NumeralOK, SignedTimes
  <2>. QED  BY <2>2
<1>5. Magnitude(units) * u = Magnitude(v) * p
  <2>1. units * u = v * p
    BY <1>2, <1>4
  <2>2. Magnitude(units * u) = Magnitude(units) * u /\ Magnitude(v * p) = Magnitude(v) * p
    <3>1. \A x \in Int, k \in Nat \ {0} : Magnitude(x * k) = Magnitude(x) * k
      <4> SUFFICES ASSUME NEW x \in Int, NEW k \in Nat \ {0}
                   PROVE  Magnitude(x * k) = Magnitude(x) * k
        OBVIOUS
      <4>1. (x < 0 => x * k < 0) /\ (~(x < 0) => ~(x * k < 0)) /\ (-x) * k = -(x * k)
        OBVIOUS
      <4>. QED  BY <4>1 DEF Magnitude
    <3>. QED  BY <1>3, <3>1
  <2>. QED  BY <2>1, <2>2
<1>6. PICK n \in Nat : n = Magnitude(units) /\ n < m
  <2>1. Magnitude(units) \in Nat /\ Magnitude(units) < m
    BY <1>3 DEF Magnitude
  <2>. QED  BY <2>1
<1>7. n * TenTo(Len(t.fraction)) = Magnitude(NumberOf(t)) * TenTo(AmountPlaces)
      /\ n < TenTo(AmountDigits + AmountPlaces)
  BY <1>2, <1>4, <1>5, <1>6
<1>8. ParseColumn(t, AmountDigits, AmountPlaces) = Parse(t)
  BY <1>1, <1>7, ColumnKeeps
<1>. QED  BY <1>8

-----------------------------------------------------------------------------
(* What is printed reads back as it was.                                   *)

Divided(n, d, q, r) == q = n \div d /\ r = n % d /\ n = d * q + r

LEMMA DividedOK ==
  ASSUME NEW n \in Nat, NEW d \in Nat \ {0}
  PROVE  \E q \in Nat, r \in 0..d - 1 : Divided(n, d, q, r)
<1>1. n \in Int
  OBVIOUS
<1>2. PICK q \in Int, r \in 0..d - 1 : q = n \div d /\ r = n % d /\ n = d * q + r
  <2>1. n \div d \in Int /\ n % d \in 0..d - 1 /\ n = d * (n \div d) + (n % d)
    BY <1>1, Division
  <2>. QED  BY <2>1
<1>3. q \in Nat
  <2>1. q <= -1 => d * q <= -d
    OBVIOUS
  <2>. QED  BY <1>2, <2>1
<1>. QED  BY <1>2, <1>3 DEF Divided

(* A text whose digits are those of a number reads as that number.         *)
LEMMA ReadsAs ==
  ASSUME NEW v \in Int, Magnitude(v) <= Ceiling,
         NEW t, NEW w \in Seq(0..9), NEW f \in Seq(0..9),
         t.negative = (v < 0), t.whole = w, t.fraction = f,
         Len(w) > 0, Len(f) <= Scale,
         Number(w) = Magnitude(v) \div One, Number(KeptOf(f)) = Magnitude(v) % One
  PROVE  Parse(t) = Some(v)
<1>1. PICK m \in Nat : m = Magnitude(v)
  BY SignOK
<1>2. PICK o \in Nat \ {0} : o = One
  BY WordParts
<1>3. PICK q \in Nat, r \in 0..o - 1 : q = m \div o /\ r = m % o /\ m = o * q + r
  BY DividedOK DEF Divided
<1>4. Kept(w, f) = m
  <2>1. Kept(w, f) = Number(w) * One + Number(KeptOf(f))
    BY TypedIs
  <2>2. Number(w) = q /\ Number(KeptOf(f)) = r
    BY <1>1, <1>2, <1>3
  <2>3. Kept(w, f) = q * o + r
    BY <1>2, <2>1, <2>2
  <2>. QED  BY <1>3, <2>3
<1>5. Carry(f) = 0
  BY Padded
<1>6. w # <<>>
  OBVIOUS
<1>7. Ceiling \in Nat
  BY WordParts
<1>8. m + 0 = m /\ ~(m > Ceiling)
  BY <1>1, <1>7
<1>9. Parse(t) = IF (w = <<>> /\ f = <<>>) \/ Kept(w, f) + Carry(f) > Ceiling THEN Fail
                 ELSE Some(Signed(t.negative, Kept(w, f) + Carry(f)))
  BY ParseOK
<1>10. Parse(t) = Some(Signed(v < 0, Magnitude(v)))
  BY <1>1, <1>4, <1>5, <1>6, <1>8, <1>9
<1>11. v = Signed(v < 0, Magnitude(v))
  BY SignOK
<1>. QED  BY <1>10, <1>11

(* What a number is printed from.                                          *)
WholeOf(v) == LET whole == Magnitude(v) \div One IN DigitsOf(whole, WidthOf(whole))
FractionOf(v) == DigitsOf(Magnitude(v) % One, Scale)

LEMMA PartsOK ==
  ASSUME NEW v \in Int
  PROVE  /\ WholeOf(v) \in Seq(0..9) /\ Len(WholeOf(v)) > 0
         /\ Number(WholeOf(v)) = Magnitude(v) \div One
         /\ FractionOf(v) \in Seq(0..9) /\ Len(FractionOf(v)) = Scale
         /\ Number(FractionOf(v)) = Magnitude(v) % One
<1>1. PICK m \in Nat : m = Magnitude(v)
  BY SignOK
<1>2. PICK o \in Nat \ {0} : o = One
  BY WordParts
<1>3. PICK q \in Nat, r \in 0..o - 1 : q = m \div o /\ r = m % o /\ m = o * q + r
  BY DividedOK DEF Divided
<1>4. q \in Nat
  OBVIOUS
<1>5. PICK k \in Nat \ {0} : k = WidthOf(q) /\ q < TenTo(k)
  BY <1>4, WidthOK
<1>6. /\ DigitsOf(q, k) \in Seq(0..9) /\ Len(DigitsOf(q, k)) = k
      /\ Number(DigitsOf(q, k)) = q
  BY <1>4, <1>5, DigitsOfOK
<1>7. WholeOf(v) = DigitsOf(q, k)
  BY <1>1, <1>2, <1>3, <1>5 DEF WholeOf
<1>8. Scale \in Nat /\ r \in Nat /\ r < TenTo(Scale)
  <2>1. r < o
    OBVIOUS
  <2>. QED  BY <1>2, <2>1, ScaleAssumption DEF One
<1>9. /\ DigitsOf(r, Scale) \in Seq(0..9) /\ Len(DigitsOf(r, Scale)) = Scale
      /\ Number(DigitsOf(r, Scale)) = r
  BY <1>8, DigitsOfOK
<1>10. FractionOf(v) = DigitsOf(r, Scale)
  BY <1>1, <1>2, <1>3 DEF FractionOf
<1>11. Magnitude(v) \div One = q /\ Magnitude(v) % One = r
  BY <1>1, <1>2, <1>3
<1>12. WholeOf(v) \in Seq(0..9) /\ Len(WholeOf(v)) > 0 /\ Number(WholeOf(v)) = q
  BY <1>6, <1>7
<1>. QED  BY <1>9, <1>10, <1>11, <1>12

(* Zeros may be left out at the end of a fraction, or written.             *)
LEMMA ZerosOK ==
  ASSUME NEW d \in Seq(0..9), Len(d) = Scale, NEW places \in 0..Scale,
         \A k \in places + 1..Scale : d[k] = 0,
         NEW e \in Seq(0..9), Len(e) = places, \A k \in 1..places : e[k] = d[k]
  PROVE  KeptOf(e) = d
<1>1. /\ KeptOf(e) \in Seq(0..9) /\ Len(KeptOf(e)) = Scale
      /\ \A k \in 1..Scale : KeptOf(e)[k] = IF k <= Len(e) THEN e[k] ELSE 0
  BY KeptOfOK
<1>2. PICK c \in Seq(0..9) : c = KeptOf(e)
  BY <1>1
<1>3. Scale \in Nat /\ places \in Nat
  BY ScaleAssumption
<1>4. ASSUME NEW k \in 1..Scale PROVE c[k] = d[k]
  <2>1. c[k] = IF k <= places THEN e[k] ELSE 0
    BY <1>1, <1>2
  <2>2. CASE k <= places
    <3>1. k \in 1..places
      BY <1>3, <2>2
    <3>. QED  BY <2>1, <2>2, <3>1
  <2>3. CASE ~(k <= places)
    <3>1. k \in places + 1..Scale
      BY <1>3, <2>3
    <3>. QED  BY <2>1, <2>3, <3>1
  <2>. QED  BY <2>2, <2>3
<1>5. c = d
  BY <1>1, <1>2, <1>4, SameDigits
<1>. QED  BY <1>2, <1>5

(* The fraction of a number that has no more places than the column.       *)
LEMMA FractionFits ==
  ASSUME NEW v \in Int, NEW places \in 0..Scale,
         Magnitude(v) % TenTo(Scale - places) = 0
  PROVE  \A k \in places + 1..Scale : FractionOf(v)[k] = 0
<1>1. PICK m \in Nat : m = Magnitude(v)
  BY SignOK
<1>2. Scale \in Nat /\ places \in Nat
  BY ScaleAssumption
<1>3. PICK s \in Nat \ {0}, p \in Nat \ {0}, o \in Nat \ {0} :
          s = TenTo(Scale - places) /\ p = TenTo(places) /\ o = One /\ o = s * p
  <2>1. Scale - places \in Nat /\ Scale = (Scale - places) + places
    BY <1>2
  <2>2. PICK s \in Nat \ {0} : s = TenTo(Scale - places)
    BY <2>1, TenToOK
  <2>3. PICK p \in Nat \ {0} : p = TenTo(places)
    BY <1>2, TenToOK
  <2>4. One = s * p
    BY <1>2, <2>1, <2>2, <2>3, TenToSum DEF One
  <2>5. One \in Nat \ {0}
    BY WordParts
  <2>. QED  BY <2>2, <2>3, <2>4, <2>5
<1>4. PICK q \in Nat, r \in 0..o - 1 : r = m % o /\ m = o * q + r
  <2>1. PICK q \in Nat, r \in 0..o - 1 : Divided(m, o, q, r)
    BY ONLY DividedOK, m \in Nat, o \in Nat \ {0}
  <2>. QED  BY <2>1 DEF Divided
<1>5. PICK f \in Seq(0..9) : f = FractionOf(v) /\ Len(f) = Scale /\ Number(f) = r
  <2>1. FractionOf(v) \in Seq(0..9) /\ Len(FractionOf(v)) = Scale
        /\ Number(FractionOf(v)) = Magnitude(v) % One
    BY PartsOK
  <2>2. Magnitude(v) % One = r
    BY <1>1, <1>3, <1>4
  <2>. QED  BY <2>1, <2>2
<1>6. PICK G \in Nat, R \in Nat : SplitAt(f, places, G, R)
  <2>1. places \in 0..Len(f)
    BY <1>5
  <2>. QED  BY <2>1, SplitOK
<1>7. /\ r = G * s + R /\ R \in 0..s - 1
      /\ R = 0 <=> \A k \in places + 1..Scale : f[k] = 0
  BY <1>3, <1>5, <1>6 DEF SplitAt
<1>8. PICK x \in Int : x = p * q + G
  OBVIOUS
<1>9. m = s * x + R
  <2>1. (s * p) * q + (G * s + R) = s * (p * q + G) + R
    OBVIOUS
  <2>. QED  BY <1>3, <1>4, <1>7, <1>8, <2>1
<1>10. m % s = R
  BY <1>7, <1>9, UniqueDivision
<1>. QED  BY <1>1, <1>3, <1>5, <1>7, <1>10

(* What is printed, with the zeros left out or written up to a column.     *)
Printed(v, e) == [negative |-> v < 0, whole |-> WholeOf(v), fraction |-> e]

LEMMA PrintedReads ==
  ASSUME NEW v \in Int, Magnitude(v) <= Ceiling, NEW places \in 0..Scale,
         NEW e \in Seq(0..9), Len(e) = places,
         \A k \in 1..places : e[k] = FractionOf(v)[k],
         \A k \in places + 1..Scale : FractionOf(v)[k] = 0
  PROVE  Printed(v, e) \in Numeral /\ Parse(Printed(v, e)) = Some(v)
<1>1. PICK t : t = Printed(v, e)
  OBVIOUS
<1>2. PICK w \in Seq(0..9) : w = WholeOf(v) /\ Len(w) > 0 /\ Number(w) = Magnitude(v) \div One
  BY PartsOK
<1>3. PICK d \in Seq(0..9) : d = FractionOf(v) /\ Len(d) = Scale
                            /\ Number(d) = Magnitude(v) % One
  BY PartsOK
<1>4. t.negative = (v < 0) /\ t.whole = w /\ t.fraction = e /\ t \in Numeral
  <2>1. (v < 0) \in BOOLEAN
    OBVIOUS
  <2>2. t = [negative |-> v < 0, whole |-> w, fraction |-> e]
    BY <1>1, <1>2 DEF Printed
  <2>. QED  BY <2>1, <2>2 DEF Numeral
<1>5. KeptOf(e) = d
  BY <1>3, ZerosOK
<1>6. Len(e) <= Scale
  BY ScaleAssumption
<1>7. Parse(t) = Some(v)
  BY <1>2, <1>3, <1>4, <1>5, <1>6, ReadsAs
<1>. QED  BY <1>1, <1>4, <1>7

LEMMA ToTextOK ==
  ASSUME NEW v \in Int, Magnitude(v) <= Ceiling
  PROVE  /\ ToText(v) \in Numeral /\ Parse(ToText(v)) = Some(v)
         /\ ToText(v).fraction \in Seq(0..9)
         /\ Len(ToText(v).fraction) = SignificantPlaces(FractionOf(v))
         /\ \A k \in 1..SignificantPlaces(FractionOf(v)) :
               ToText(v).fraction[k] = FractionOf(v)[k]
<1>1. PICK d \in Seq(0..9) : d = FractionOf(v) /\ Len(d) = Scale
  BY PartsOK
<1>2. PICK n \in 0..Scale : n = SignificantPlaces(d) /\ \A k \in n + 1..Scale : d[k] = 0
  BY <1>1, PlacesOK
<1>3. Scale \in Nat /\ \A k \in 1..Scale : d[k] \in 0..9
  BY <1>1, ScaleAssumption
<1>4. PICK e \in Seq(0..9) : /\ e = SubSeq(d, 1, n) /\ Len(e) = n
                            /\ \A k \in 1..n : e[k] = d[k]
  <2>1. \A i \in 1..n : d[i] \in 0..9
    BY <1>3
  <2>2. n \in Int /\ 1 \in Int
    BY <1>3
  <2>3. /\ SubSeq(d, 1, n) \in Seq(0..9)
        /\ Len(SubSeq(d, 1, n)) = IF 1 <= n THEN n - 1 + 1 ELSE 0
        /\ \A i \in 1..n - 1 + 1 : SubSeq(d, 1, n)[i] = d[1 + i - 1]
    BY <2>1, <2>2, SubSeqProperties
  <2>4. n - 1 + 1 = n /\ (\A i \in 1..n : 1 + i - 1 = i) /\ (~(1 <= n) => n = 0)
    BY <1>3
  <2>. QED  BY <2>3, <2>4
<1>5. ToText(v) = Printed(v, e)
  BY <1>1, <1>2, <1>4 DEF ToText, Printed, WholeOf, FractionOf
<1>6. Printed(v, e).fraction = e
  BY DEF Printed
<1>7. Printed(v, e) \in Numeral /\ Parse(Printed(v, e)) = Some(v)
  BY <1>1, <1>2, <1>4, PrintedReads
<1>. QED  BY <1>1, <1>2, <1>4, <1>5, <1>6, <1>7

(* A column keeps what fits it, and answers it again.                      *)
LEMMA ColumnReads ==
  ASSUME NEW v \in Int, Magnitude(v) <= Ceiling,
         NEW digits \in Nat, NEW places \in 0..Scale, Fits(v, digits, places)
  PROVE  /\ ColumnText(v, places) \in Numeral
         /\ ParseColumn(ColumnText(v, places), digits, places) = Some(v)
<1>1. PICK d \in Seq(0..9) : d = FractionOf(v) /\ Len(d) = Scale
  BY PartsOK
<1>2. PICK n \in 0..Scale : n = SignificantPlaces(d) /\ \A k \in n + 1..Scale : d[k] = 0
  BY <1>1, PlacesOK
<1>3. Scale \in Nat /\ places \in Nat /\ \A k \in 1..Scale : d[k] \in 0..9
  BY <1>1, ScaleAssumption
<1>4. PICK text : text = ToText(v)
  OBVIOUS
<1>5. PICK c \in Seq(0..9) : /\ c = text.fraction /\ Len(c) = n
                            /\ \A k \in 1..n : c[k] = d[k]
  BY <1>1, <1>2, <1>4, ToTextOK
<1>6. PICK e : e = [k \in 1..places |-> IF k <= Len(text.fraction) THEN text.fraction[k] ELSE 0]
  OBVIOUS
<1>7. \A k \in 1..places : e[k] = d[k]
  <2> SUFFICES ASSUME NEW k \in 1..places PROVE e[k] = d[k]
    OBVIOUS
  <2>1. e[k] = IF k <= n THEN c[k] ELSE 0
    BY <1>5, <1>6
  <2>2. CASE k <= n
    <3>1. k \in 1..n
      BY <1>3, <2>2
    <3>. QED  BY <1>5, <2>1, <2>2, <3>1
  <2>3. CASE ~(k <= n)
    <3>1. k \in n + 1..Scale
      BY <1>3, <2>3
    <3>. QED  BY <1>2, <2>1, <2>3, <3>1
  <2>. QED  BY <2>2, <2>3
<1>8. e \in Seq(0..9) /\ Len(e) = places
  <2>1. \A k \in 1..places : e[k] \in 0..9
    <3>1. \A k \in 1..places : k \in 1..Scale
      BY <1>3
    <3>. QED  BY <1>3, <1>7, <3>1
  <2>2. e = [k \in 1..places |-> e[k]]
    BY <1>6
  <2>3. e \in [1..places -> 0..9]
    BY <2>1, <2>2
  <2>. QED  BY <1>3, <2>3
<1>9. ColumnText(v, places) = Printed(v, e)
  <2>1. ColumnText(v, places) = [text EXCEPT !.fraction = e]
    BY <1>4, <1>6 DEF ColumnText
  <2>2. PICK x : x = SubSeq(FractionOf(v), 1, SignificantPlaces(FractionOf(v)))
    OBVIOUS
  <2>3. text = [negative |-> v < 0, whole |-> WholeOf(v), fraction |-> x]
    BY <1>4, <2>2 DEF ToText, WholeOf, FractionOf
  <2>. QED  BY <2>1, <2>3 DEF Printed
<1>10. \A k \in places + 1..Scale : FractionOf(v)[k] = 0
  BY FractionFits DEF Fits
<1>11. Printed(v, e) \in Numeral /\ Parse(Printed(v, e)) = Some(v)
  BY <1>1, <1>7, <1>8, <1>10, PrintedReads
<1>12. SignificantPlaces(e) <= places
  <2>1. SignificantPlaces(e) \in 0..places
    BY <1>8, PlacesOK
  <2>. QED  BY <1>3, <2>1
<1>13. Printed(v, e).fraction = e /\ Some(v).ok /\ Some(v).value = v
  BY DEF Printed, Some
<1>14. ParseColumn(Printed(v, e), digits, places) = Some(v)
  BY <1>11, <1>12, <1>13 DEF ParseColumn
<1>. QED  BY <1>9, <1>11, <1>14

LEMMA TextRight ==
  ASSUME NEW t \in Numeral
  PROVE  TextSound(t)
<1>1. PICK number : number = Parse(t)
  OBVIOUS
<1>2. PICK column : column = ParseColumn(t, AmountDigits, AmountPlaces)
  OBVIOUS
<1>3. AmountPlaces \in 0..Scale /\ AmountDigits \in Nat
  BY ScaleAssumption, DigitsAssumption
<1>4. column.ok => column.value * TenTo(Len(t.fraction)) = NumberOf(t) * One
  BY <1>2, <1>3, ColumnExact
<1>5. ~column.ok /\ number.ok =>
        ~(\E units \in -(TenTo(AmountDigits + AmountPlaces) - 1)
                      ..TenTo(AmountDigits + AmountPlaces) - 1 :
             units * TenTo(Len(t.fraction)) = NumberOf(t) * TenTo(AmountPlaces))
  BY <1>1, <1>2, ColumnRefuses
<1>6. number.ok => Parse(ToText(number.value)) = number
  <2> SUFFICES ASSUME number.ok PROVE Parse(ToText(number.value)) = number
    OBVIOUS
  <2>1. PICK n \in BOOLEAN, w \in Seq(0..9), f \in Seq(0..9) :
            n = t.negative /\ w = t.whole /\ f = t.fraction
    BY NumeralOK
  <2>2. PICK N \in Nat : N = Kept(w, f) + Carry(f)
    BY ONLY ReadNumber, w \in Seq(0..9), f \in Seq(0..9)
  <2>3. number = Some(Signed(n, N)) /\ N <= Ceiling
    <3>1. number = IF (w = <<>> /\ f = <<>>) \/ N > Ceiling THEN Fail ELSE Some(Signed(n, N))
      BY <1>1, <2>1, <2>2, ParseOK
    <3>2. ~Fail.ok
      BY DEF Fail
    <3>3. number = Some(Signed(n, N)) /\ ~(N > Ceiling)
      BY <3>1, <3>2
    <3>4. Ceiling \in Nat
      BY WordParts
    <3>. QED  BY <3>3, <3>4
  <2>4. PICK v \in Int : v = Signed(n, N) /\ Magnitude(v) = N
    BY SignedTimes
  <2>5. number.value = v /\ number = Some(v)
    BY <2>3, <2>4 DEF Some
  <2>. QED  BY <2>3, <2>4, <2>5, ToTextOK
<1>7. RightlyRounded(number, NumberOf(t) * One, TenTo(Len(t.fraction)),
                     \/ t.whole = <<>> /\ t.fraction = <<>>
                     \/ Magnitude(NumberOf(t)) \div TenTo(Len(t.fraction))
                          >= Ceiling \div One)
  BY <1>1, ParseRight
<1>. QED  BY <1>1, <1>2, <1>4, <1>5, <1>6, <1>7 DEF TextSound

-----------------------------------------------------------------------------
(* The parts of a transfer.                                                *)

(* What a column keeps is far from the headroom of the word.               *)
LEMMA StoredOK ==
  ASSUME NEW a \in Int, FitsAmount(a)
  PROVE  Stored(ColumnText(a, AmountPlaces)) = a /\ FitsAmount(-a)
<1>1. PICK m \in Nat : m = Magnitude(a) /\ Magnitude(m) = m /\ Magnitude(-a) = m
  <2>1. Magnitude(a) \in Nat /\ Magnitude(Magnitude(a)) = Magnitude(a)
        /\ Magnitude(-a) = Magnitude(a)
    BY DEF Magnitude
  <2>. QED  BY <2>1
<1>2. Fits(m, AmountDigits, AmountPlaces) /\ FitsAmount(-a)
  BY <1>1 DEF FitsAmount, Fits
<1>3. AmountPlaces \in 0..Scale /\ AmountDigits \in Nat
  BY ScaleAssumption, DigitsAssumption
<1>4. m <= Ceiling
  <2>1. PICK o \in Nat \ {0}, c \in Nat : o = One /\ c = Ceiling
    BY WordParts
  <2>2. PICK p \in Nat : p = (TenTo(AmountDigits) + 1) * One
    <3>1. PICK g \in Nat : g = TenTo(AmountDigits)
      BY <1>3, TenToOK
    <3>2. (g + 1) * o \in Nat
      OBVIOUS
    <3>. QED  BY <2>1, <3>1, <3>2
  <2>3. m + o < p
    BY <1>2, <1>3, <2>1, <2>2, ColumnBound
  <2>4. p <= c
    BY <2>1, <2>2, ColumnAssumption
  <2>. QED  BY <2>1, <2>3, <2>4
<1>5. ParseColumn(ColumnText(a, AmountPlaces), AmountDigits, AmountPlaces) = Some(a)
  BY <1>1, <1>3, <1>4, ColumnReads DEF FitsAmount
<1>. QED  BY <1>2, <1>5 DEF Stored, Some

LEMMA RateReads ==
  ASSUME NEW a \in Nat, FitsRate(a)
  PROVE  /\ ColumnText(a, Scale) # None
         /\ ParseColumn(ColumnText(a, Scale), RateDigits, Scale).value = a
<1>1. Magnitude(a) = a
  BY DEF Magnitude
<1>2. Scale \in 0..Scale /\ RateDigits \in Nat
  BY ScaleAssumption, DigitsAssumption
<1>3. a <= Ceiling
  <2>1. PICK o \in Nat \ {0}, c \in Nat, u \in Nat \ {0} :
            o = One /\ c = Ceiling /\ u = AmountUnit
    BY UnitOK, WordParts
  <2>2. PICK g \in Nat : g = TenTo(RateDigits)
    BY <1>2, TenToOK
  <2>3. a + o < (g + 1) * o
    BY <1>2, <2>1, <2>2, ColumnBound DEF FitsRate
  <2>4. u * (g + 1) * o <= c
    BY <2>1, <2>2, ColumnAssumption
  <2>5. PICK p \in Nat : p = (g + 1) * o
    <3>1. (g + 1) * o \in Nat
      OBVIOUS
    <3>. QED  BY <3>1
  <2>6. u * (g + 1) * o = u * p
    <3>1. u * (g + 1) * o = u * ((g + 1) * o)
      OBVIOUS
    <3>. QED  BY <2>5, <3>1
  <2>7. u * p >= p
    OBVIOUS
  <2>. QED  BY <2>1, <2>3, <2>4, <2>5, <2>6, <2>7
<1>4. /\ ColumnText(a, Scale) \in Numeral
      /\ ParseColumn(ColumnText(a, Scale), RateDigits, Scale) = Some(a)
  BY <1>1, <1>2, <1>3, ColumnReads DEF FitsRate
<1>. QED  BY <1>4, NoneAssumption DEF Some

(* The figures of an acceptable command.                                   *)
LEMMA FiguresOK ==
  ASSUME NEW f,
         f.mode \in Modes,
         {f.outgoing, f.incoming, f.rate, f.fee} \subseteq -SignedMax..SignedMax,
         Acceptable(f)
  PROVE  /\ Outgoing(f).value \in Nat \ {0} /\ Incoming(f).value \in Nat \ {0}
         /\ FitsAmount(Outgoing(f).value) /\ FitsAmount(Incoming(f).value)
         /\ f.fee \in Nat /\ FitsAmount(f.fee)
         /\ ~SameCurrency(f) => Rate(f).value \in Nat \ {0} /\ FitsRate(Rate(f).value)
         /\ SameCurrency(f) => /\ Rate(f).value = 0
                               /\ Outgoing(f).value = Incoming(f).value
         /\ f.outgoing # 0 => Outgoing(f).value = f.outgoing
         /\ f.incoming # 0 => Incoming(f).value = f.incoming
<1>1. PICK outgoing, incoming, rate : /\ outgoing = Outgoing(f).value
                                      /\ incoming = Incoming(f).value
                                      /\ rate = Rate(f).value
  OBVIOUS
<1>2. /\ Outgoing(f).ok /\ Incoming(f).ok /\ Rate(f).ok
      /\ outgoing > 0 /\ FitsAmount(outgoing)
      /\ incoming > 0 /\ FitsAmount(incoming)
      /\ ~SameCurrency(f) => rate > 0 /\ FitsRate(rate)
      /\ SameCurrency(f) => outgoing = incoming
      /\ f.fee # 0 => f.fee > 0 /\ FitsAmount(f.fee)
      /\ ModeShape(f)
  BY <1>1 DEF Acceptable, RateUsable, WellShaped
<1>3. f.outgoing \in Int /\ f.incoming \in Int /\ f.rate \in Int /\ f.fee \in Int
  BY WordParts
<1>4. ~Fail.ok
  BY DEF Fail
<1>5. f.fee \in Nat /\ FitsAmount(f.fee)
  <2>1. CASE f.fee # 0
    BY <1>2, <1>3, <2>1
  <2>2. CASE f.fee = 0
    <3>1. PICK s \in Nat \ {0}, o \in Nat \ {0}, g \in Nat \ {0} :
              s = TenTo(Scale - AmountPlaces) /\ o = One /\ g = TenTo(AmountDigits)
      <4>1. TenTo(AmountDigits) \in Nat \ {0}
        BY DigitsAssumption, TenToOK
      <4>. QED  BY <4>1, UnitOK, WordParts DEF AmountUnit
    <3>2. Magnitude(0) = 0 /\ 0 = s * 0 + 0 /\ 0 = o * 0 + 0
      BY DEF Magnitude
    <3>3. 0 % s = 0 /\ 0 \div o = 0
      BY <3>2, UniqueDivision
    <3>4. FitsAmount(0)
      BY <3>1, <3>2, <3>3 DEF FitsAmount, Fits
    <3>. QED  BY <2>2, <3>4
  <2>. QED  BY <2>1, <2>2
<1>6. CASE f.mode = "OutgoingAndRate"
  <2>1. ~SameCurrency(f) /\ outgoing = f.outgoing /\ rate = f.rate /\ f.incoming = 0
    BY <1>1, <1>2, <1>4, <1>6 DEF Outgoing, Rate, Some, ModeShape
  <2>2. outgoing \in Nat /\ rate \in Nat
    BY <1>2, <1>3, <2>1
  <2>3. Incoming(f) = ToColumn(Multiply(outgoing, rate))
    BY <1>6, <2>1 DEF Incoming
  <2>4. Multiply(outgoing, rate).ok
    BY <1>2, <1>4, <2>3 DEF ToColumn
  <2>5. PICK e \in Nat : e = Multiply(outgoing, rate).value
    BY <2>2, <2>4, ProductNear
  <2>6. Incoming(f) = RoundTo(e, AmountPlaces)
    BY <2>3, <2>4, <2>5 DEF ToColumn
  <2>7. incoming \in Nat
    BY <1>1, <1>2, <2>6, ColumnNear
  <2>. QED  BY <1>1, <1>2, <1>5, <2>1, <2>2, <2>7
<1>7. CASE f.mode = "IncomingAndRate"
  <2>1. ~SameCurrency(f) /\ incoming = f.incoming /\ rate = f.rate /\ f.outgoing = 0
    BY <1>1, <1>2, <1>4, <1>7 DEF Incoming, Rate, Some, ModeShape
  <2>2. incoming \in Nat /\ rate \in Nat \ {0}
    BY <1>2, <1>3, <2>1
  <2>3. Outgoing(f) = ToColumn(Divide(incoming, rate))
    BY <1>7, <2>1 DEF Outgoing
  <2>4. Divide(incoming, rate).ok
    BY <1>2, <1>4, <2>3 DEF ToColumn
  <2>5. PICK d \in Nat : d = Divide(incoming, rate).value
    BY <2>2, <2>4, QuotientNear
  <2>6. Outgoing(f) = RoundTo(d, AmountPlaces)
    BY <2>3, <2>4, <2>5 DEF ToColumn
  <2>7. outgoing \in Nat
    BY <1>1, <1>2, <2>6, ColumnNear
  <2>. QED  BY <1>1, <1>2, <1>5, <2>1, <2>2, <2>7
<1>8. CASE f.mode = "BothAmounts"
  <2>1. outgoing = f.outgoing /\ incoming = f.incoming
    BY <1>1, <1>8 DEF Outgoing, Incoming, Some
  <2>2. outgoing \in Nat \ {0} /\ incoming \in Nat \ {0}
    BY <1>2, <1>3, <2>1
  <2>3. CASE SameCurrency(f)
    <3>1. rate = 0
      BY <1>1, <1>8, <2>3 DEF Rate, Some
    <3>. QED  BY <1>1, <1>2, <1>5, <2>1, <2>2, <2>3, <3>1
  <2>4. CASE ~SameCurrency(f)
    <3>1. Rate(f) = Divide(incoming, outgoing)
      BY <1>8, <2>1, <2>4 DEF Rate
    <3>2. rate \in Nat
      BY <1>1, <1>2, <2>2, <3>1, QuotientNear
    <3>. QED  BY <1>1, <1>2, <1>5, <2>1, <2>2, <2>4, <3>2
  <2>. QED  BY <2>3, <2>4
<1>. QED  BY <1>6, <1>7, <1>8 DEF Modes

(* What the rows of an account add up to, row by row.                      *)
Adds(entry, account) == IF entry.account = account THEN Stored(entry.amount) ELSE 0
Summing(s, booked, account) ==
    s = [k \in 0..Len(booked) |-> IF k = 0 THEN 0
                                  ELSE s[k - 1] + (IF booked[k].account = account
                                                   THEN Stored(booked[k].amount) ELSE 0)]
Sums(booked, account) == CHOOSE s : Summing(s, booked, account)

LEMMA EffectOK ==
  ASSUME NEW saved, NEW account, NEW booked, saved.rows = booked,
         NEW a \in Int, NEW b \in Int, NEW c \in Int,
         Adds(booked[1], account) = a, Adds(booked[2], account) = b,
         \/ Len(booked) = 2 /\ c = 0
         \/ Len(booked) = 3 /\ Adds(booked[3], account) = c
  PROVE  Effect(saved, account) = a + b + c
<1>1. Effect(saved, account) = Sums(booked, account)[Len(booked)]
  BY DEF Effect, Sums, Summing
<1>2. PICK n \in {2, 3} : n = Len(booked)
  OBVIOUS
<1> DEFINE step(s, k) == s[k - 1] + (IF booked[k].account = account
                                     THEN Stored(booked[k].amount) ELSE 0)
           f == [k \in 0..n |-> IF k = 0 THEN 0 ELSE IF k = 1 THEN a
                                ELSE IF k = 2 THEN a + b ELSE a + b + c]
<1>3. f[0] = 0 /\ f[1] = a /\ f[2] = a + b /\ (n = 3 => f[3] = a + b + c)
  BY <1>2
<1>4. \A k \in 0..n : f[k] = IF k = 0 THEN 0 ELSE step(f, k)
  <2> SUFFICES ASSUME NEW k \in 0..n PROVE f[k] = IF k = 0 THEN 0 ELSE step(f, k)
    OBVIOUS
  <2> HIDE DEF f
  <2>1. k = 0 \/ k = 1 \/ k = 2 \/ (k = 3 /\ n = 3)
    BY <1>2
  <2>2. CASE k = 0
    BY <1>3, <2>2
  <2>3. CASE k = 1
    <3>1. step(f, 1) = 0 + a
      BY <1>3 DEF Adds
    <3>. QED  BY <1>3, <2>3, <3>1
  <2>4. CASE k = 2
    <3>1. step(f, 2) = a + b
      BY <1>3 DEF Adds
    <3>. QED  BY <1>3, <2>4, <3>1
  <2>5. CASE k = 3 /\ n = 3
    <3>1. step(f, 3) = a + b + c
      BY <1>2, <1>3, <2>5 DEF Adds
    <3>. QED  BY <1>3, <2>5, <3>1
  <2>. QED  BY <2>1, <2>2, <2>3, <2>4, <2>5
<1>5. f = [k \in 0..n |-> IF k = 0 THEN 0 ELSE step(f, k)]
  <2>1. f = [k \in 0..n |-> f[k]]
    OBVIOUS
  <2> HIDE DEF f
  <2>. QED  BY <1>4, <2>1
<1> HIDE DEF f
<1>6. Summing(f, booked, account)
  BY <1>2, <1>5 DEF Summing
<1>7. PICK s : s = Sums(booked, account) /\ Summing(s, booked, account)
  BY <1>6 DEF Sums
<1>8. \A k \in 0..n : s[k] = IF k = 0 THEN 0 ELSE step(s, k)
  BY <1>2, <1>7 DEF Summing
<1>9. s[0] = 0 /\ s[1] = a /\ s[2] = a + b
  <2>1. s[0] = 0
    BY <1>2, <1>8
  <2>2. s[1] = s[0] + Adds(booked[1], account)
    BY <1>2, <1>8 DEF Adds
  <2>3. s[2] = s[1] + Adds(booked[2], account)
    BY <1>2, <1>8 DEF Adds
  <2>. QED  BY <2>1, <2>2, <2>3
<1>10. n = 3 => s[3] = s[2] + Adds(booked[3], account)
  BY <1>2, <1>8 DEF Adds
<1>11. CASE n = 2
  <2>1. Effect(saved, account) = a + b /\ c = 0
    BY <1>1, <1>2, <1>7, <1>9, <1>11
  <2>. QED  BY <2>1
<1>12. CASE n = 3
  <2>1. Adds(booked[3], account) = c
    BY <1>2, <1>12
  <2>2. Effect(saved, account) = (a + b) + c
    BY <1>1, <1>2, <1>7, <1>9, <1>10, <1>12, <2>1
  <2>. QED  BY <2>2
<1>. QED  BY <1>2, <1>11, <1>12

(* The rows of a transfer and what each adds.                              *)
Accepting(f) ==
    /\ f.mode \in Modes
    /\ {f.outgoing, f.incoming, f.rate, f.fee} \subseteq -SignedMax..SignedMax
    /\ Acceptable(f)

RowsAre(f, booked, o, i) ==
    /\ o \in Nat \ {0} /\ i \in Nat \ {0} /\ f.fee \in Nat
    /\ o = Outgoing(f).value /\ i = Incoming(f).value
    /\ booked = Saved(f).rows
    /\ booked[1].account = f.source /\ booked[1].type = "transfer"
    /\ Stored(booked[1].amount) = -o
    /\ booked[2].account = f.target /\ booked[2].type = "transfer"
    /\ Stored(booked[2].amount) = i
    /\ \/ f.fee = 0 /\ Len(booked) = 2 /\ ToSet(booked) = {booked[1], booked[2]}
       \/ /\ f.fee # 0 /\ Len(booked) = 3 /\ ToSet(booked) = {booked[1], booked[2], booked[3]}
          /\ booked[3].account = FeeAccount(f) /\ booked[3].type = "adjustment"
          /\ Stored(booked[3].amount) = -f.fee

LEMMA RowsOK ==
  ASSUME NEW f, Accepting(f)
  PROVE  \E booked, o, i : RowsAre(f, booked, o, i)
<1>1. /\ Outgoing(f).value \in Nat \ {0} /\ Incoming(f).value \in Nat \ {0}
      /\ FitsAmount(Outgoing(f).value) /\ FitsAmount(Incoming(f).value)
      /\ f.fee \in Nat /\ FitsAmount(f.fee)
  BY FiguresOK DEF Accepting
<1>2. PICK o \in Nat \ {0}, i \in Nat \ {0} : o = Outgoing(f).value /\ i = Incoming(f).value
  BY <1>1
<1>3. Stored(ColumnText(-o, AmountPlaces)) = -o
  <2>1. FitsAmount(-o)
    BY <1>1, <1>2, StoredOK
  <2>. QED  BY <2>1, StoredOK
<1>4. Stored(ColumnText(i, AmountPlaces)) = i
  BY <1>1, <1>2, StoredOK
<1>5. PICK e \in Nat : e = f.fee /\ Stored(ColumnText(-e, AmountPlaces)) = -e
  <2>1. PICK e \in Nat : e = f.fee /\ FitsAmount(e)
    BY <1>1
  <2>2. FitsAmount(-e)
    BY <2>1, StoredOK
  <2>. QED  BY <2>1, <2>2, StoredOK
<1>6. PICK out, in, fee : /\ out = Row(f.source, "transfer", -o)
                          /\ in = Row(f.target, "transfer", i)
                          /\ fee = Row(FeeAccount(f), "adjustment", -e)
  OBVIOUS
<1>7. /\ out.account = f.source /\ out.type = "transfer" /\ Stored(out.amount) = -o
      /\ in.account = f.target /\ in.type = "transfer" /\ Stored(in.amount) = i
      /\ fee.account = FeeAccount(f) /\ fee.type = "adjustment" /\ Stored(fee.amount) = -e
  BY <1>3, <1>4, <1>5, <1>6 DEF Row
<1>8. Saved(f).rows = <<out, in>> \o (IF f.fee = 0 THEN <<>> ELSE <<fee>>)
  BY <1>2, <1>5, <1>6 DEF Saved
<1>9. CASE f.fee = 0
  <2>1. Saved(f).rows = <<out, in>>
    BY <1>8, <1>9
  <2>2. PICK booked : booked = Saved(f).rows /\ booked = <<out, in>>
    BY <2>1
  <2>3. Len(booked) = 2 /\ booked[1] = out /\ booked[2] = in /\ DOMAIN booked = {1, 2}
    BY <2>2
  <2>4. ToSet(booked) = {booked[1], booked[2]}
    BY <2>3 DEF ToSet
  <2>5. RowsAre(f, booked, o, i)
    BY <1>1, <1>2, <1>7, <1>9, <2>2, <2>3, <2>4 DEF RowsAre
  <2>. QED  BY <2>5
<1>10. CASE f.fee # 0
  <2>1. Saved(f).rows = <<out, in>> \o <<fee>>
    BY <1>8, <1>10
  <2>2. PICK booked : booked = Saved(f).rows /\ booked = <<out, in>> \o <<fee>>
    BY <2>1
  <2>3. /\ Len(booked) = 3 /\ booked[1] = out /\ booked[2] = in /\ booked[3] = fee
        /\ DOMAIN booked = {1, 2, 3}
    <3>1. PICK S : S = {out, in, fee}
      OBVIOUS
    <3>2. PICK d \in Seq(S), last \in Seq(S) :
              /\ d = <<out, in>> /\ last = <<fee>>
              /\ Len(d) = 2 /\ d[1] = out /\ d[2] = in
              /\ Len(last) = 1 /\ last[1] = fee
      <4>1. /\ <<out, in>> \in Seq(S) /\ <<fee>> \in Seq(S)
            /\ Len(<<out, in>>) = 2 /\ <<out, in>>[1] = out /\ <<out, in>>[2] = in
            /\ Len(<<fee>>) = 1 /\ <<fee>>[1] = fee
        BY <3>1
      <4>. QED  BY <4>1
    <3>3. /\ booked \in Seq(S) /\ Len(booked) = Len(d) + Len(last)
          /\ \A k \in 1..Len(d) + Len(last) :
                booked[k] = IF k <= Len(d) THEN d[k] ELSE last[k - Len(d)]
      BY <2>2, <3>2, ConcatProperties
    <3>4. Len(booked) = 3 /\ booked[1] = d[1] /\ booked[2] = d[2] /\ booked[3] = last[1]
      BY <3>2, <3>3
    <3>. QED  BY <3>2, <3>3, <3>4
  <2>4. ToSet(booked) = {booked[1], booked[2], booked[3]}
    BY <2>3 DEF ToSet
  <2>5. RowsAre(f, booked, o, i)
    BY <1>1, <1>2, <1>5, <1>7, <1>10, <2>2, <2>3, <2>4 DEF RowsAre
  <2>. QED  BY <2>5
<1>. QED  BY <1>9, <1>10

-----------------------------------------------------------------------------
(* The parts agree with the command, and the answers with each other.      *)

LEMMA ConservesOK ==
  ASSUME NEW f, Accepting(f)
  PROVE  Conserves(f)
<1>1. PICK booked, o, i : RowsAre(f, booked, o, i)
  BY RowsOK
<1>2. PICK saved : saved = Saved(f) /\ saved.rows = booked
  BY <1>1 DEF RowsAre
<1> DEFINE fee(account) == IF FeeAccount(f) = account THEN f.fee ELSE 0
<1>3. o \in Nat \ {0} /\ i \in Nat \ {0} /\ f.fee \in Nat
  BY <1>1 DEF RowsAre
<1>4. f.source # f.target
  BY DEF Accepting, Acceptable, WellShaped
<1>5. \A account : fee(account) \in Nat
  BY <1>3
<1>6. ASSUME NEW account, NEW a \in Int, NEW b \in Int,
             Adds(booked[1], account) = a, Adds(booked[2], account) = b
      PROVE  Effect(saved, account) = a + b - fee(account)
  <2>1. CASE f.fee = 0
    <3>1. Len(booked) = 2 /\ fee(account) = 0
      BY <1>1, <2>1 DEF RowsAre
    <3>2. 0 \in Int
      OBVIOUS
    <3>3. Effect(saved, account) = a + b + 0
      BY <1>2, <1>6, <3>1, <3>2, EffectOK
    <3>4. a + b + 0 = a + b - 0
      OBVIOUS
    <3>. QED  BY <3>1, <3>3, <3>4
  <2>2. CASE f.fee # 0
    <3>1. /\ Len(booked) = 3 /\ booked[3].account = FeeAccount(f)
          /\ Stored(booked[3].amount) = -f.fee
      BY <1>1, <2>2 DEF RowsAre
    <3>2. PICK c \in Int : c = -fee(account)
      BY <1>5
    <3>3. Adds(booked[3], account) = c
      BY <1>3, <3>1, <3>2 DEF Adds
    <3>4. Effect(saved, account) = a + b + c
      BY <1>2, <1>6, <3>1, <3>3, EffectOK
    <3>5. a + b + c = a + b - fee(account)
      BY <1>5, <3>2
    <3>. QED  BY <3>4, <3>5
  <2>. QED  BY <2>1, <2>2
<1> HIDE DEF fee
<1>7. PICK x \in Nat, y \in Nat : x = fee(f.source) /\ y = fee(f.target)
  BY <1>5
<1>8. Effect(saved, f.source) = -o - fee(f.source)
  <2>1. Adds(booked[1], f.source) = -o /\ Adds(booked[2], f.source) = 0
    BY <1>1, <1>4 DEF RowsAre, Adds
  <2>2. -o \in Int /\ 0 \in Int
    BY <1>3
  <2>3. Effect(saved, f.source) = -o + 0 - fee(f.source)
    BY <1>6, <2>1, <2>2
  <2>4. -o + 0 - x = -o - x
    BY <1>3
  <2>. QED  BY <1>7, <2>3, <2>4
<1>9. Effect(saved, f.target) = i - fee(f.target)
  <2>1. Adds(booked[1], f.target) = 0 /\ Adds(booked[2], f.target) = i
    BY <1>1, <1>4 DEF RowsAre, Adds
  <2>2. i \in Int /\ 0 \in Int
    BY <1>3
  <2>3. Effect(saved, f.target) = 0 + i - fee(f.target)
    BY <1>6, <2>1, <2>2
  <2>4. 0 + i - y = i - y
    BY <1>3
  <2>. QED  BY <1>7, <2>3, <2>4
<1>10. /\ SameCurrency(f) => o = i
       /\ f.outgoing # 0 => o = f.outgoing
       /\ f.incoming # 0 => i = f.incoming
  BY <1>1, FiguresOK DEF RowsAre, Accepting
<1>11. /\ f.outgoing # 0 => Effect(saved, f.source) = -f.outgoing - fee(f.source)
       /\ f.incoming # 0 => Effect(saved, f.target) = f.incoming - fee(f.target)
  BY <1>8, <1>9, <1>10
<1>12. Effect(saved, f.source) < 0
  BY <1>3, <1>8, <1>7
<1>13. SameCurrency(f) =>
         Effect(saved, f.source) + Effect(saved, f.target) = -fee(f.source) - fee(f.target)
  BY <1>3, <1>8, <1>9, <1>10, <1>7
<1>. QED  BY <1>2, <1>11, <1>12, <1>13 DEF Conserves, fee

LEMMA ReadBackOK ==
  ASSUME NEW f, Accepting(f)
  PROVE  ReadBack(Saved(f)) = FirstAnswer(f)
<1>1. PICK booked, o, i : RowsAre(f, booked, o, i)
  BY RowsOK
<1>2. PICK saved : saved = Saved(f) /\ saved.rows = booked
  BY <1>1 DEF RowsAre
<1>3. o \in Nat \ {0} /\ i \in Nat \ {0} /\ f.fee \in Nat
  BY <1>1 DEF RowsAre
<1> DEFINE legs == {r \in ToSet(saved.rows) : r.type = "transfer"}
           negative(r) == Stored(r.amount) < 0
           out == CHOOSE r \in legs : negative(r)
           in == CHOOSE r \in legs : ~negative(r)
           fees == {r \in ToSet(saved.rows) : r.type = "adjustment" /\ negative(r)}
           fee == IF fees = {} THEN None ELSE CHOOSE r \in fees : TRUE
           rate == IF saved.rate = None THEN 0
                   ELSE ParseColumn(saved.rate, RateDigits, Scale).value
<1>4. negative(booked[1]) /\ ~negative(booked[2])
  BY <1>1, <1>3 DEF RowsAre
<1>5. booked[1].type = "transfer" /\ booked[2].type = "transfer"
  BY <1>1 DEF RowsAre
<1>6. legs = {booked[1], booked[2]}
  BY <1>1, <1>2 DEF RowsAre
<1>7. out = booked[1] /\ in = booked[2]
  BY <1>4, <1>6
<1>8. IF f.fee = 0 THEN fees = {} ELSE fees = {booked[3]} /\ fee = booked[3]
  <2>1. CASE f.fee = 0
    <3>1. ToSet(booked) = {booked[1], booked[2]}
      BY <1>1, <2>1 DEF RowsAre
    <3>. QED  BY <1>2, <1>5, <2>1, <3>1
  <2>2. CASE f.fee # 0
    <3>1. /\ ToSet(booked) = {booked[1], booked[2], booked[3]} /\ booked[3].type = "adjustment"
          /\ Stored(booked[3].amount) = -f.fee
      BY <1>1, <2>2 DEF RowsAre
    <3>2. negative(booked[3])
      BY <1>3, <2>2, <3>1
    <3>3. fees = {booked[3]}
      BY <1>2, <1>5, <3>1, <3>2
    <3>. QED  BY <2>2, <3>3
  <2>. QED  BY <2>1, <2>2
<1>9. rate = Rate(f).value
  <2>1. CASE SameCurrency(f)
    <3>1. saved.rate = None
      BY <1>2, <2>1 DEF Saved
    <3>2. Rate(f).value = 0
      BY <2>1, FiguresOK DEF Accepting
    <3>. QED  BY <3>1, <3>2
  <2>2. CASE ~SameCurrency(f)
    <3>1. saved.rate = ColumnText(Rate(f).value, Scale)
      BY <1>2, <2>2 DEF Saved
    <3>2. Rate(f).value \in Nat /\ FitsRate(Rate(f).value)
      BY <2>2, FiguresOK DEF Accepting
    <3>3. /\ ColumnText(Rate(f).value, Scale) # None
          /\ ParseColumn(ColumnText(Rate(f).value, Scale), RateDigits, Scale).value
                = Rate(f).value
      BY <3>2, RateReads
    <3>. QED  BY <3>1, <3>3
  <2>. QED  BY <2>1, <2>2
<1>10. saved.mode = ModeNumber[f.mode]
  BY <1>2 DEF Saved
<1>11. /\ out.account = f.source /\ -Stored(out.amount) = Outgoing(f).value
       /\ in.account = f.target /\ Stored(in.amount) = Incoming(f).value
  <2>1. /\ booked[1].account = f.source /\ Stored(booked[1].amount) = -o
        /\ booked[2].account = f.target /\ Stored(booked[2].amount) = i
        /\ o = Outgoing(f).value /\ i = Incoming(f).value
    BY <1>1 DEF RowsAre
  <2>2. -(-o) = o
    BY <1>3
  <2>. QED  BY <1>7, <2>1, <2>2
<1> HIDE DEF out, in, fees, fee, rate
<1>12. /\ (IF fees = {} THEN 0 ELSE -Stored(fee.amount)) = f.fee
       /\ (IF fees = {} THEN None ELSE fee.account) = FeeAccount(f)
  <2>1. CASE f.fee = 0
    BY <1>8, <2>1 DEF FeeAccount
  <2>2. CASE f.fee # 0
    <3>1. Stored(booked[3].amount) = -f.fee /\ booked[3].account = FeeAccount(f)
      BY <1>1, <2>2 DEF RowsAre
    <3>2. fees # {} /\ fee = booked[3]
      BY <1>8, <2>2
    <3>3. -(-f.fee) = f.fee
      BY <1>3
    <3>. QED  BY <3>1, <3>2, <3>3
  <2>. QED  BY <2>1, <2>2
<1>13. ReadBack(saved) =
         Dto(InputMode(saved.mode), out.account, in.account,
             -Stored(out.amount), Stored(in.amount), rate,
             IF fees = {} THEN 0 ELSE -Stored(fee.amount),
             IF fees = {} THEN None ELSE fee.account)
  BY DEF ReadBack, out, in, fees, fee, rate
<1>. QED  BY <1>2, <1>9, <1>10, <1>11, <1>12, <1>13 DEF FirstAnswer

LEMMA PositionOK ==
  ASSUME NEW x
  PROVE  /\ x \in Modes => ModeOrder[PositionIn(ModeOrder, x) + 1] = x
         /\ x \in FeeSources => FeeOrder[PositionIn(FeeOrder, x) + 1] = x
<1>1. ASSUME NEW order, Len(order) = 3, \E k \in 1..3 : order[k] = x
      PROVE  order[PositionIn(order, x) + 1] = x
  <2>1. PICK k \in 1..3 : k = CHOOSE i \in 1..Len(order) : order[i] = x
    BY <1>1
  <2>2. order[k] = x
    BY <1>1, <2>1
  <2>3. PositionIn(order, x) = k - 1 /\ k - 1 + 1 = k
    BY <2>1 DEF PositionIn
  <2>. QED  BY <2>2, <2>3
<1>2. x \in Modes => Len(ModeOrder) = 3 /\ \E k \in 1..3 : ModeOrder[k] = x
  BY DEF Modes, ModeOrder
<1>3. x \in FeeSources => Len(FeeOrder) = 3 /\ \E k \in 1..3 : FeeOrder[k] = x
  BY DEF FeeSources, FeeOrder
<1>. QED  BY <1>1, <1>2, <1>3

AnswerOf(from, to, outgoing, incoming, m, r, e, a, s) ==
    [mode |-> m, source |-> from, target |-> to,
     outgoing |-> outgoing, incoming |-> incoming, rate |-> r,
     fee |-> e, feeAccount |-> a, feeSource |-> s]

Changed(dto, m, r, e, a, s) ==
    [dto EXCEPT !.mode = m, !.rate = r, !.fee = e, !.feeAccount = a, !.feeSource = s]

LEMMA ChangedOK ==
  ASSUME NEW from, NEW to, NEW outgoing, NEW incoming,
         NEW m, NEW r, NEW e, NEW a, NEW s, NEW mm, NEW rr, NEW ee, NEW aa, NEW ss
  PROVE  Changed(AnswerOf(from, to, outgoing, incoming, m, r, e, a, s), mm, rr, ee, aa, ss)
           = AnswerOf(from, to, outgoing, incoming, mm, rr, ee, aa, ss)
<1> DEFINE Of(m1, r1, e1, a1, s1) == AnswerOf(from, to, outgoing, incoming, m1, r1, e1, a1, s1)
<1>1. [Of(m, r, e, a, s) EXCEPT !.mode = mm] = Of(mm, r, e, a, s)
  BY DEF AnswerOf
<1>2. [Of(mm, r, e, a, s) EXCEPT !.rate = rr] = Of(mm, rr, e, a, s)
  BY DEF AnswerOf
<1>3. [Of(mm, rr, e, a, s) EXCEPT !.fee = ee] = Of(mm, rr, ee, a, s)
  BY DEF AnswerOf
<1>4. [Of(mm, rr, ee, a, s) EXCEPT !.feeAccount = aa] = Of(mm, rr, ee, aa, s)
  BY DEF AnswerOf
<1>5. [Of(mm, rr, ee, aa, s) EXCEPT !.feeSource = ss] = Of(mm, rr, ee, aa, ss)
  BY DEF AnswerOf
<1> HIDE DEF Of
<1>6. Changed(Of(m, r, e, a, s), mm, rr, ee, aa, ss) = Of(mm, rr, ee, aa, ss)
  <2>1. PICK d0, d1, d2, d3, d4, d5 :
            /\ d0 = Of(m, r, e, a, s) /\ d1 = Of(mm, r, e, a, s) /\ d2 = Of(mm, rr, e, a, s)
            /\ d3 = Of(mm, rr, ee, a, s) /\ d4 = Of(mm, rr, ee, aa, s)
            /\ d5 = Of(mm, rr, ee, aa, ss)
    OBVIOUS
  <2>2. /\ [d0 EXCEPT !.mode = mm] = d1 /\ [d1 EXCEPT !.rate = rr] = d2
        /\ [d2 EXCEPT !.fee = ee] = d3 /\ [d3 EXCEPT !.feeAccount = aa] = d4
        /\ [d4 EXCEPT !.feeSource = ss] = d5
    BY <1>1, <1>2, <1>3, <1>4, <1>5, <2>1
  <2>3. Changed(d0, mm, rr, ee, aa, ss) = d5
    BY ONLY <2>2, Zenon DEF Changed
  <2>. QED  BY ONLY <2>1, <2>3
<1>. QED  BY <1>6 DEF Of

LEMMA KeptAnswerOK ==
  ASSUME NEW f, f.mode \in Modes
  PROVE  Decode(Encode(FirstAnswer(f))) = FirstAnswer(f)
<1>1. PICK mode : mode = InputMode(ModeNumber[f.mode])
  OBVIOUS
<1>2. PICK outgoing, incoming, rate, fee, account, feeSource :
        /\ outgoing = ToText(Outgoing(f).value)
        /\ incoming = ToText(Incoming(f).value)
        /\ rate = (IF Rate(f).value = 0 THEN None ELSE ToText(Rate(f).value))
        /\ fee = (IF f.fee = 0 THEN None ELSE ToText(f.fee))
        /\ account = FeeAccount(f)
        /\ feeSource = (IF f.fee = 0 THEN None
                        ELSE InferFeeSource(FeeAccount(f), f.source, f.target))
  OBVIOUS
<1>3. mode \in Modes
  BY <1>1 DEF InputMode, Modes
<1>4. feeSource = None \/ feeSource \in FeeSources
  BY <1>2 DEF InferFeeSource, FeeSources
<1> DEFINE Kept3(m, r, e, a, s) ==
             AnswerOf(f.source, f.target, outgoing, incoming, m, r, e, a, s)
<1>5. PICK dto : dto = FirstAnswer(f) /\ dto = Kept3(mode, rate, fee, account, feeSource)
  BY <1>1, <1>2 DEF FirstAnswer, Dto, AnswerOf
<1>6. PICK position, kept :
        /\ position = PositionIn(ModeOrder, mode)
        /\ kept = IF feeSource = None THEN <<>> ELSE <<PositionIn(FeeOrder, feeSource)>>
  OBVIOUS
<1>7. \A x : OrNone(OrEmpty(x)) = x
  BY DEF OrNone, OrEmpty
<1>8. PICK r, e, a : r = OrEmpty(rate) /\ e = OrEmpty(fee) /\ a = OrEmpty(account)
  OBVIOUS
<1>9. PICK values : values = Encode(dto)
  OBVIOUS
<1>10. values = Kept3(position, r, e, a, kept)
  <2>1. /\ dto.mode = mode /\ dto.rate = rate /\ dto.fee = fee
        /\ dto.feeAccount = account /\ dto.feeSource = feeSource
    BY <1>5 DEF AnswerOf
  <2>2. values = Changed(dto, position, r, e, a, kept)
    BY <1>6, <1>8, <1>9, <2>1 DEF Encode, Changed
  <2>. QED  BY <1>5, <2>2, ChangedOK
<1>11. ModeOrder[position + 1] = mode
  BY <1>3, <1>6, PositionOK
<1>12. (IF kept = <<>> THEN None ELSE FeeOrder[kept[1] + 1]) = feeSource
  <2>1. CASE feeSource = None
    BY <1>6, <2>1
  <2>2. CASE feeSource # None
    <3>1. PICK p : p = PositionIn(FeeOrder, feeSource)
      OBVIOUS
    <3>2. kept = <<p>> /\ <<p>> # <<>> /\ <<p>>[1] = p
      BY <1>6, <2>2, <3>1
    <3>3. FeeOrder[p + 1] = feeSource
      BY <1>4, <2>2, <3>1, PositionOK
    <3>. QED  BY <3>2, <3>3
  <2>. QED  BY <2>1, <2>2
<1>13. OrNone(r) = rate /\ OrNone(e) = fee /\ OrNone(a) = account
  BY <1>7, <1>8
<1>14. Decode(values) = Kept3(mode, rate, fee, account, feeSource)
  <2>1. PICK feeKept : feeKept = IF kept = <<>> THEN None ELSE FeeOrder[kept[1] + 1]
    OBVIOUS
  <2>2. Decode(values) = Kept3(ModeOrder[position + 1], OrNone(r), OrNone(e), OrNone(a), feeKept)
    <3>1. /\ values.mode = position /\ values.rate = r /\ values.fee = e
          /\ values.feeAccount = a /\ values.feeSource = kept
      BY <1>10 DEF AnswerOf
    <3>2. Decode(values) = Changed(values, ModeOrder[position + 1], OrNone(r), OrNone(e),
                                   OrNone(a), feeKept)
      BY <2>1, <3>1 DEF Decode, Changed
    <3>. QED  BY <1>10, <3>2, ChangedOK
  <2>3. feeKept = feeSource
    BY <1>12, <2>1
  <2> HIDE DEF Kept3
  <2>. QED  BY <1>11, <1>13, <2>2, <2>3
<1>. QED  BY <1>5, <1>9, <1>14

-----------------------------------------------------------------------------
(* The numbers asked about are numbers of the signed word, and the texts   *)
(* are made of digits.                                                     *)
InWord ==
    /\ probe.kind = "pair" =>
         probe.a \in -SignedMax..SignedMax /\ probe.b \in -SignedMax..SignedMax
    /\ probe.kind = "sum" =>
         /\ probe.a \in -(SignedMax + 1)..SignedMax
         /\ probe.b \in -(SignedMax + 1)..SignedMax
    /\ probe.kind = "text" => probe.text \in Numeral

(* A product, a quotient, a rounded amount, a sum and a number that is     *)
(* read are those of exact arithmetic, or the operation fails for want of  *)
(* room; a column takes exactly the texts it can keep, and what is printed *)
(* reads back: for every word, scale, column and text (Decimal).           *)
THEOREM NumbersAreSound == ProbeSpec => []NumbersSound
  <1>1. ProbeInit => InWord
    BY DEF ProbeInit, Idle, InWord
  <1>2. InWord /\ [ProbeNext]_probe => InWord'
    <2> SUFFICES ASSUME InWord, [ProbeNext]_probe PROVE InWord'
      OBVIOUS
    <2>1. CASE AskPair
      <3>1. PICK p \in Pairs : probe' = [kind |-> "pair", a |-> p[1], b |-> p[2]]
        BY <2>1 DEF AskPair
      <3>2. p[1] \in -SignedMax..SignedMax /\ p[2] \in -SignedMax..SignedMax
        BY QuestionAssumption
      <3>. QED BY <3>1, <3>2 DEF InWord
    <2>2. CASE AskSum
      BY <2>2, QuestionAssumption DEF AskSum, InWord
    <2>3. CASE AskText
      BY <2>3, QuestionAssumption DEF AskText, InWord
    <2>4. CASE AskTransfer
      BY <2>4 DEF AskTransfer, InWord
    <2>5. CASE Answered
      BY <2>5 DEF Answered, Idle, InWord
    <2>6. CASE UNCHANGED probe
      BY <2>6 DEF InWord
    <2>. QED BY <2>1, <2>2, <2>3, <2>4, <2>5, <2>6 DEF ProbeNext, AskOne
  <1>3. InWord => NumbersSound
    <2>1. InWord => (probe.kind = "pair" => PairSound(probe.a, probe.b))
      BY PairOK DEF InWord
    <2>2. InWord => (probe.kind = "sum" => SumSound(probe.a, probe.b))
      BY AddExact DEF InWord, SumSound, Add
    <2>3. InWord => (probe.kind = "text" => TextSound(probe.text))
      BY TextRight DEF InWord
    <2>. QED BY <2>1, <2>2, <2>3 DEF NumbersSound
  <1>. QED BY <1>1, <1>2, <1>3, PTL DEF ProbeSpec

(* The commands asked about are filled in.                                 *)
Filled == probe.kind = "transfer" => probe.form \in Commands

(* No transfer is refused for what its builder rounded; one that is        *)
(* accepted is stored with the figures the client gave, moves money the    *)
(* right way, and is answered alike from the aggregate, from its rows and  *)
(* from the response kept for a retry: for every word, scale, columns that *)
(* fit it and command (TransferDomainService, save_transfer,               *)
(* to_transfer_dto).                                                       *)
THEOREM TransfersAreSound == ProbeSpec => []TransfersSound
  <1>1. ProbeInit => Filled
    BY DEF ProbeInit, Idle, Filled
  <1>2. Filled /\ [ProbeNext]_probe => Filled'
    BY DEF Filled, ProbeNext, AskOne, AskPair, AskSum, AskText, AskTransfer, Answered, Idle
  <1>3. Filled => TransfersSound
    <2> SUFFICES ASSUME Filled, probe.kind = "transfer", NEW f, f = probe.form
                 PROVE  /\ ToleranceFits(f)
                        /\ Accepted(f) => /\ Conserves(f)
                                          /\ ReadBack(Saved(f)) = FirstAnswer(f)
                                          /\ Decode(Encode(FirstAnswer(f))) = FirstAnswer(f)
      BY DEF TransfersSound
    <2>1. /\ f.mode \in Modes
          /\ {f.outgoing, f.incoming, f.rate, f.fee} \subseteq -SignedMax..SignedMax
      BY QuestionAssumption DEF Filled
    <2>2. ToleranceFits(f)
      BY <2>1, FitsTolerance DEF ToleranceFits
    <2>3. Accepted(f) => Accepting(f)
      BY <2>1 DEF Accepted, Accepting
    <2>. QED  BY <2>1, <2>2, <2>3, ConservesOK, ReadBackOK, KeptAnswerOK
  <1>. QED BY <1>1, <1>2, <1>3, PTL DEF ProbeSpec

=============================================================================
