---------------------------- MODULE LedgerProofs ----------------------------
(***************************************************************************)
(* Proofs about Ledger, for any number of accounts, postings, currencies   *)
(* and sessions.                                                           *)
(***************************************************************************)
EXTENDS Ledger, TLAPS

\* What a session does in one step.
Acts(p) == Start(p) \/ Advance(p) \/ Abort(p)

\* Row locks exclude each other.
LocksExclude ==
    \A p, q \in Sessions : p # q =>
        /\ holds[p] \cap holds[q] = {}
        /\ row[p] = row[q] => row[p] = NoPosting

\* Where each kind of request can be, and what it can carry.
Shape ==
    \A p \in Sessions :
        /\ op[p] = "none" <=> pc[p] = "idle"
        /\ op[p] \notin {"none", "read"} => pc[p] = "locking"
        /\ row[p] # NoPosting <=> op[p] \in {"correct", "delete"}
        /\ op[p] \in {"delete", "rebuild"} => plan[p] = Blank

\* A locked posting stays active, and its correction is of its kind.
OriginalsLive ==
    \A p \in Sessions : row[p] # NoPosting =>
        /\ phase[row[p]] = "active"
        /\ op[p] = "correct" => IsTransfer(plan[p]) = IsTransfer(money[row[p]])

\* A write has locked, or is still to lock, every account that it touches.
Covered ==
    \A p \in Sessions : op[p] \notin {"none", "read", "rebuild"} =>
        On(plan[p]) \cup OldAccounts(p) \subseteq need[p] \cup holds[p]

\* What was checked of an account when it was locked stays true while it is.
Checked == \A p \in Sessions : \A a \in holds[p] : Admits(p, a)

IInv ==
    /\ TypeOK
    /\ LocksExclude
    /\ Shape
    /\ OriginalsLive
    /\ Covered
    /\ Checked
    /\ RowsMatchAccounts
    /\ CorrectionsSound

-----------------------------------------------------------------------------
(* Type correctness.                                                       *)

LEMMA TypeInit == Init => TypeOK
  BY LedgerAssumption DEF Init, TypeOK, Places, Plans, Blank, NoSums, NoPosting, Kinds

\* The session variables, for the parts of the type invariant that an action
\* on one session can disturb.
SessionsTyped ==
    /\ op \in [Sessions -> Kinds \cup {"none", "purging"}]
    /\ pc \in [Sessions -> Places]
    /\ plan \in [Sessions -> Plans]
    /\ row \in [Sessions -> Postings \cup {NoPosting}]
    /\ need \in [Sessions -> SUBSET Accounts]
    /\ holds \in [Sessions -> SUBSET Accounts]
    /\ snap \in [Sessions -> [Accounts -> SUBSET Postings]]
    /\ \A p \in Sessions : pc[p] = "idle" => holds[p] = {} /\ row[p] = NoPosting

LEMMA BlankIsPlan == Blank \in Plans
  BY DEF Blank, Plans

LEMMA EndSessionTyped ==
  ASSUME TypeOK, NEW p \in Sessions, EndSession(p)
  PROVE  SessionsTyped'
  BY BlankIsPlan DEF TypeOK, EndSession, SessionsTyped, Places, NoSums

LEMMA UncacheTyped ==
  ASSUME TypeOK, NEW S, Uncache(S)
  PROVE  cached' \subseteq Accounts /\ cache' \in [Accounts -> SUBSET Postings]
  BY DEF TypeOK, Uncache

LEMMA BalanceTyped ==
  /\ \A a : Balance(a) \subseteq Postings
  /\ \A a : Balance(a)' \subseteq Postings
  BY DEF Balance

LEMMA NoticedTyped ==
  ASSUME TypeOK, NEW p \in Sessions, NEW S, Noticed(p, S)
  PROVE  /\ visible' \in [Sessions -> SUBSET Accounts]
         /\ recent' \in [Sessions -> SUBSET (SUBSET Postings)]
  BY BalanceTyped DEF TypeOK, Noticed

LEMMA RollbackTyped ==
  ASSUME TypeOK, NEW p \in Sessions, Rollback(p)
  PROVE  TypeOK'
<1>1. SessionsTyped'
  BY EndSessionTyped DEF Rollback
<1>2. /\ visible' \in [Sessions -> SUBSET Accounts]
      /\ recent' \in [Sessions -> SUBSET (SUBSET Postings)]
  BY DEF TypeOK, Rollback
<1>3. QED
  BY <1>1, <1>2 DEF TypeOK, Rollback, SessionsTyped, accountVars, postingVars, cacheVars

LEMMA BeginTyped ==
  ASSUME TypeOK, NEW p \in Sessions, NEW kind, NEW what \in Plans,
         NEW original \in Postings \cup {NoPosting}, NEW accounts \in SUBSET Accounts,
         Begin(p, kind, what, original, accounts),
         snap' \in [Sessions -> [Accounts -> SUBSET Postings]]
  PROVE  TypeOK'
  BY LedgerAssumption
  DEF TypeOK, Begin, Places, accountVars, postingVars, cacheVars

LEMMA OnAccounts == \A m : On(m) \subseteq Accounts
  BY DEF On

LEMMA SingletonPlan ==
  ASSUME NEW a \in Accounts, NEW c \in Currencies \cup {NoEntry}
  PROVE  [Blank EXCEPT ![a] = c] \in Plans
  BY DEF Blank, Plans

LEMMA StartTyped ==
  ASSUME TypeOK, NEW p \in Sessions, Start(p)
  PROVE  TypeOK'
<1>1. CASE StartPost(p)
  <2>1. PICK m \in Plans : Begin(p, "post", m, NoPosting, On(m)) /\ UNCHANGED snap
    BY <1>1 DEF StartPost
  <2>2. QED  BY <2>1, BeginTyped, OnAccounts DEF TypeOK
<1>2. CASE StartCorrect(p)
  <2>1. PICK g \in Postings, m \in Plans :
            Begin(p, "correct", m, g, On(money[g]) \cup On(m)) /\ UNCHANGED snap
    BY <1>2 DEF StartCorrect
  <2>2. On(money[g]) \cup On(m) \in SUBSET Accounts
    BY OnAccounts
  <2>3. QED  BY <2>1, <2>2, BeginTyped DEF TypeOK
<1>3. CASE StartDelete(p)
  <2>1. PICK g \in Postings : Begin(p, "delete", Blank, g, On(money[g])) /\ UNCHANGED snap
    BY <1>3 DEF StartDelete
  <2>2. QED  BY <2>1, BeginTyped, OnAccounts, BlankIsPlan DEF TypeOK
<1>4. CASE StartManage(p)
  <2>1. PICK a \in Accounts, c \in Currencies :
            /\ Begin(p, "manage", [Blank EXCEPT ![a] = c], NoPosting, {a})
            /\ UNCHANGED snap
    BY <1>4 DEF StartManage
  <2>2. [Blank EXCEPT ![a] = c] \in Plans /\ {a} \in SUBSET Accounts
    BY SingletonPlan
  <2>3. QED  BY <2>1, <2>2, BeginTyped DEF TypeOK
<1>5. CASE StartPurge(p)
  <2>1. PICK a \in Accounts, c \in Currencies :
            /\ Begin(p, "purge", [Blank EXCEPT ![a] = c], NoPosting, {a})
            /\ UNCHANGED snap
    BY <1>5 DEF StartPurge
  <2>2. [Blank EXCEPT ![a] = c] \in Plans /\ {a} \in SUBSET Accounts
    BY SingletonPlan
  <2>3. QED  BY <2>1, <2>2, BeginTyped DEF TypeOK
<1>6. CASE StartRebuild(p)
  <2>1. PICK S \in {{a} : a \in Accounts} \cup {Accounts} :
            /\ Begin(p, "rebuild", Blank, NoPosting, {a \in S : Exists(a)})
            /\ snap' = [snap EXCEPT ![p] =
                  [a \in Accounts |-> IF a \in {b \in S : Exists(b)} THEN Balance(a) ELSE {}]]
    BY <1>6 DEF StartRebuild
  <2>2. {a \in S : Exists(a)} \in SUBSET Accounts
    OBVIOUS
  <2>3. snap' \in [Sessions -> [Accounts -> SUBSET Postings]]
    BY <2>1, BalanceTyped DEF TypeOK
  <2>4. QED  BY <2>1, <2>2, <2>3, BeginTyped, BlankIsPlan
<1>7. CASE StartRead(p)
  <2>1. PICK a \in Accounts :
          /\ op' = [op EXCEPT ![p] = "read"]
          /\ pc' = [pc EXCEPT ![p] = IF a \in cached THEN "answered" ELSE "missed"]
          /\ plan' = [plan EXCEPT ![p] = [Blank EXCEPT ![a] = currency[a]]]
          /\ snap' = [snap EXCEPT ![p] = [NoSums EXCEPT ![a] = cache[a]]]
          /\ recent' = [recent EXCEPT ![p] = {Balance(a)}]
    BY <1>7 DEF StartRead
  <2>2. [Blank EXCEPT ![a] = currency[a]] \in Plans
    BY SingletonPlan DEF TypeOK
  <2>3. [NoSums EXCEPT ![a] = cache[a]] \in [Accounts -> SUBSET Postings]
    BY DEF TypeOK, NoSums
  <2>4. {Balance(a)} \in SUBSET (SUBSET Postings)
    BY BalanceTyped
  <2>5. QED
    BY <1>7, <2>1, <2>2, <2>3, <2>4
    DEF StartRead, TypeOK, Kinds, Places, accountVars, postingVars, cacheVars
<1>8. QED  BY <1>1, <1>2, <1>3, <1>4, <1>5, <1>6, <1>7 DEF Start

LEMMA CommitTyped ==
  ASSUME TypeOK, NEW p \in Sessions,
         CommitPosting(p) \/ CommitDelete(p) \/ CommitManage(p) \/ CommitPurge(p)
  PROVE  TypeOK'
<1>1. SessionsTyped'
  BY EndSessionTyped DEF CommitPosting, CommitDelete, CommitManage, CommitPurge
<1>2. PICK S : Uncache(S) /\ Noticed(p, S)
  <2>1. CASE CommitPosting(p)
    BY <2>1 DEF CommitPosting
  <2>2. CASE CommitDelete(p)
    BY <2>2 DEF CommitDelete
  <2>3. CASE CommitManage(p)
    BY <2>3 DEF CommitManage
  <2>4. CASE CommitPurge(p)
    BY <2>4 DEF CommitPurge
  <2>5. QED  BY <2>1, <2>2, <2>3, <2>4
<1>3. /\ cached' \subseteq Accounts
      /\ cache' \in [Accounts -> SUBSET Postings]
      /\ visible' \in [Sessions -> SUBSET Accounts]
      /\ recent' \in [Sessions -> SUBSET (SUBSET Postings)]
  BY <1>2, UncacheTyped, NoticedTyped
<1>4. /\ account' \in [Accounts -> {"none", "open", "archived", "gone"}]
      /\ currency' \in [Accounts -> Currencies \cup {NoEntry}]
  <2>1. CASE CommitPosting(p) \/ CommitDelete(p)
    BY <2>1 DEF CommitPosting, CommitDelete, TypeOK, accountVars
  <2>2. CASE CommitManage(p)
    <3>1. PICK a \in On(plan[p]), s \in {"open", "archived"} :
              /\ account' = [account EXCEPT ![a] = s]
              /\ currency' = [currency EXCEPT ![a] = plan[p][a]]
      BY <2>2 DEF CommitManage
    <3>2. a \in Accounts /\ plan[p] \in Plans
      BY OnAccounts DEF TypeOK
    <3>3. QED  BY <3>1, <3>2 DEF TypeOK, Plans
  <2>3. CASE CommitPurge(p)
    BY <2>3, OnAccounts DEF CommitPurge, TypeOK
  <2>4. QED  BY <2>1, <2>2, <2>3
<1>5. /\ phase' \in [Postings -> {"none", "active", "deleted", "purged"}]
      /\ money' \in [Postings -> Plans]
      /\ corrects' \in [Postings -> Postings \cup {NoPosting}]
  <2>1. CASE CommitPosting(p)
    BY <2>1 DEF CommitPosting, TypeOK
  <2>2. CASE CommitDelete(p)
    BY <2>2 DEF CommitDelete, TypeOK
  <2>3. CASE CommitManage(p)
    BY <2>3 DEF CommitManage, TypeOK, postingVars
  <2>4. CASE CommitPurge(p)
    BY <2>4, BlankIsPlan DEF CommitPurge, TypeOK
  <2>5. QED  BY <1>1, <2>1, <2>2, <2>3, <2>4
<1>6. QED  BY <1>1, <1>3, <1>4, <1>5 DEF TypeOK, SessionsTyped

LEMMA TypeStep ==
  ASSUME TypeOK, [Next]_vars
  PROVE  TypeOK'
<1>1. CASE UNCHANGED vars
  BY <1>1 DEF TypeOK, vars, accountVars, postingVars, cacheVars, sessionVars
<1>2. ASSUME NEW a \in Accounts, NEW c \in Currencies, OpenAccount(a, c)
      PROVE  TypeOK'
  BY <1>2 DEF TypeOK, OpenAccount, postingVars, cacheVars, sessionVars
<1>3. ASSUME NEW p \in Sessions, Start(p)
      PROVE  TypeOK'
  BY <1>3, StartTyped
<1>4. ASSUME NEW p \in Sessions, Abort(p) \/ Refuse(p) \/ Return(p)
      PROVE  TypeOK'
  BY <1>4, RollbackTyped DEF Abort, Refuse, Return
<1>5. ASSUME NEW p \in Sessions, LockAccount(p) \/ PassOver(p)
      PROVE  TypeOK'
  <2>1. PICK a \in Accounts :
          /\ need' = [need EXCEPT ![p] = @ \ {a}]
          /\ holds' = holds \/ holds' = [holds EXCEPT ![p] = @ \cup {a}]
    BY <1>5 DEF LockAccount, PassOver
  <2>2. need' \in [Sessions -> SUBSET Accounts] /\ holds' \in [Sessions -> SUBSET Accounts]
    BY <2>1 DEF TypeOK
  <2>3. \A q \in Sessions : pc[q] = "idle" => holds'[q] = {}
    BY <1>5, <2>1 DEF TypeOK, LockAccount, PassOver
  <2>4. QED
    BY <1>5, <2>2, <2>3
    DEF TypeOK, LockAccount, PassOver, accountVars, postingVars, cacheVars
<1>6. ASSUME NEW p \in Sessions, CommitPosting(p) \/ CommitDelete(p) \/ CommitManage(p)
                                 \/ CommitPurge(p)
      PROVE  TypeOK'
  BY <1>6, CommitTyped
<1>7. ASSUME NEW p \in Sessions, BeginPurge(p)
      PROVE  TypeOK'
  <2>1. (UNION {Affected(a) : a \in On(plan[p])}) \ holds[p] \in SUBSET Accounts
    BY OnAccounts DEF Affected
  <2>2. QED
    BY <1>7, <2>1 DEF TypeOK, BeginPurge, Locked, Places, accountVars, postingVars, cacheVars
<1>8. ASSUME NEW p \in Sessions, CommitRebuild(p)
      PROVE  TypeOK'
  <2>1. SessionsTyped'
    BY <1>8, EndSessionTyped DEF CommitRebuild
  <2>2. QED
    BY <1>8, <2>1 DEF TypeOK, SessionsTyped, CommitRebuild, accountVars, postingVars
<1>9. ASSUME NEW p \in Sessions, Recheck(p)
      PROVE  TypeOK'
  <2>1. PICK a \in Accounts :
          /\ pc' = [pc EXCEPT ![p] = IF a \in cached THEN "waiting" ELSE "locking"]
          /\ need' = [need EXCEPT ![p] = {a}]
          /\ snap' = [snap EXCEPT ![p] = [NoSums EXCEPT ![a] = cache[a]]]
    BY <1>9, OnAccounts DEF Recheck
  <2>2. [NoSums EXCEPT ![a] = cache[a]] \in [Accounts -> SUBSET Postings]
    BY DEF TypeOK, NoSums
  <2>3. /\ pc' \in [Sessions -> Places]
        /\ need' \in [Sessions -> SUBSET Accounts]
        /\ snap' \in [Sessions -> [Accounts -> SUBSET Postings]]
        /\ \A q \in Sessions : pc'[q] = "idle" => pc[q] = "idle"
    BY <2>1, <2>2 DEF TypeOK, Places
  <2>4. QED
    BY <1>9, <2>3
    DEF TypeOK, Recheck, accountVars, postingVars, cacheVars
<1>10. ASSUME NEW p \in Sessions, AnswerFromRecheck(p)
       PROVE  TypeOK'
  BY <1>10 DEF TypeOK, AnswerFromRecheck, Answer, Places, accountVars, postingVars, cacheVars
<1>11. ASSUME NEW p \in Sessions, Sum(p)
       PROVE  TypeOK'
  BY <1>11, BalanceTyped
  DEF TypeOK, Sum, Places, accountVars, postingVars, cacheVars
<1>12. ASSUME NEW p \in Sessions, Fill(p)
       PROVE  TypeOK'
  BY <1>12 DEF TypeOK, Fill, Answer, Places, accountVars, postingVars
<1>13. QED
  BY <1>1, <1>2, <1>3, <1>4, <1>5, <1>6, <1>7, <1>8, <1>9, <1>10, <1>11, <1>12
  DEF Next, Advance

-----------------------------------------------------------------------------
(* What a session does in one step, to itself and to the others.           *)

\* The other sessions keep their request and their locks.
Keeps(q) ==
    /\ op'[q] = op[q] /\ pc'[q] = pc[q] /\ plan'[q] = plan[q] /\ row'[q] = row[q]
    /\ need'[q] = need[q] /\ holds'[q] = holds[q] /\ snap'[q] = snap[q]

\* A request begins: it has no locks but that of its original.
Starts(p) ==
    /\ UNCHANGED <<accountVars, postingVars, holds>>
    /\ pc[p] = "idle" /\ pc'[p] # "idle"
    /\ op'[p] \in Kinds
    /\ op'[p] # "read" => pc'[p] = "locking"
    /\ row'[p] # NoPosting <=> op'[p] \in {"correct", "delete"}
    /\ row'[p] # NoPosting =>
          /\ row'[p] \in Postings
          /\ phase[row'[p]] = "active"
          /\ RowFree(row'[p])
          /\ op'[p] = "correct" => IsTransfer(plan'[p]) = IsTransfer(money[row'[p]])
          /\ On(money[row'[p]]) \subseteq need'[p]
    /\ op'[p] \in {"delete", "rebuild"} => plan'[p] = Blank
    /\ op'[p] \notin {"read", "rebuild"} => On(plan'[p]) \subseteq need'[p]

\* A request goes on: it may lock an account that it admits.
GoesOn(p) ==
    /\ UNCHANGED <<accountVars, postingVars>>
    /\ plan'[p] = plan[p] /\ row'[p] = row[p]
    /\ op'[p] = op[p] \/ (op[p] = "purge" /\ op'[p] = "purging")
    /\ pc[p] # "idle" /\ pc'[p] # "idle"
    /\ op[p] # "read" => pc'[p] = "locking"
    /\ op[p] \notin {"read", "rebuild"} =>
          need[p] \cup holds[p] \subseteq need'[p] \cup holds'[p]
    /\ \A a \in holds'[p] : a \in holds[p] \/ (Free(a) /\ Admits(p, a))

LEMMA OnBlank == On(Blank) = {}
  BY DEF On, Blank

LEMMA OnSingleton ==
  ASSUME NEW a \in Accounts, NEW c
  PROVE  On([Blank EXCEPT ![a] = c]) \subseteq {a}
  BY DEF On, Blank

LEMMA EndSessionKeeps ==
  ASSUME TypeOK, NEW p \in Sessions, EndSession(p), NEW q \in Sessions, q # p
  PROVE  Keeps(q)
  BY DEF TypeOK, EndSession, Keeps

LEMMA BeginKeeps ==
  ASSUME TypeOK, NEW p \in Sessions, NEW kind, NEW what, NEW original, NEW accounts,
         Begin(p, kind, what, original, accounts), NEW q \in Sessions, q # p,
         snap'[q] = snap[q]
  PROVE  Keeps(q)
  BY DEF TypeOK, Begin, Keeps

LEMMA OthersKeep ==
  ASSUME TypeOK, NEW p \in Sessions, Acts(p), NEW q \in Sessions, q # p
  PROVE  Keeps(q)
<1>1. CASE StartPost(p) \/ StartCorrect(p) \/ StartDelete(p) \/ StartManage(p) \/ StartPurge(p)
  <2>1. PICK kind, what, original, accounts :
            Begin(p, kind, what, original, accounts) /\ UNCHANGED snap
    BY <1>1 DEF StartPost, StartCorrect, StartDelete, StartManage, StartPurge
  <2>2. QED  BY <2>1, BeginKeeps
<1>2. CASE StartRebuild(p)
  <2>1. PICK what, original, accounts, f :
            Begin(p, "rebuild", what, original, accounts) /\ snap' = [snap EXCEPT ![p] = f]
    BY <1>2 DEF StartRebuild
  <2>2. QED  BY <2>1, BeginKeeps DEF TypeOK
<1>3. CASE StartRead(p)
  BY <1>3 DEF TypeOK, StartRead, Keeps
<1>4. CASE EndSession(p)
  BY <1>4, EndSessionKeeps
<1>5. CASE LockAccount(p) \/ PassOver(p) \/ BeginPurge(p)
  BY <1>5 DEF TypeOK, LockAccount, PassOver, BeginPurge, Keeps
<1>6. CASE Recheck(p) \/ AnswerFromRecheck(p) \/ Sum(p) \/ Fill(p)
  BY <1>6 DEF TypeOK, Recheck, AnswerFromRecheck, Answer, Sum, Fill, Keeps
<1>7. QED
  BY <1>1, <1>2, <1>3, <1>4, <1>5, <1>6
  DEF Acts, Start, Advance, Abort, Refuse, Return, Rollback,
      CommitPosting, CommitDelete, CommitManage, CommitPurge, CommitRebuild

LEMMA BeginStarts ==
  ASSUME TypeOK, NEW p \in Sessions, NEW kind \in Kinds \ {"read"}, NEW what, NEW original, NEW accounts,
         Begin(p, kind, what, original, accounts),
         original # NoPosting <=> kind \in {"correct", "delete"},
         original # NoPosting =>
             /\ original \in Postings
             /\ phase[original] = "active"
             /\ RowFree(original)
             /\ kind = "correct" => IsTransfer(what) = IsTransfer(money[original])
             /\ On(money[original]) \subseteq accounts,
         kind \in {"delete", "rebuild"} => what = Blank,
         kind # "rebuild" => On(what) \subseteq accounts
  PROVE  Starts(p)
<1>1. /\ op'[p] = kind /\ pc'[p] = "locking" /\ plan'[p] = what
      /\ row'[p] = original /\ need'[p] = accounts
  BY DEF TypeOK, Begin
<1>2. pc[p] = "idle" /\ UNCHANGED <<accountVars, postingVars, holds>>
  BY DEF Begin
<1>3. QED  BY <1>1, <1>2 DEF Starts

LEMMA StartStarts ==
  ASSUME TypeOK, NEW p \in Sessions, Start(p)
  PROVE  Starts(p)
<1> USE DEF Kinds
<1>1. CASE StartPost(p)
  <2>1. PICK m \in Plans : Begin(p, "post", m, NoPosting, On(m))
    BY <1>1 DEF StartPost
  <2>2. QED  BY <2>1, BeginStarts
<1>2. CASE StartCorrect(p)
  <2>1. PICK g \in Postings, m \in Plans :
            /\ phase[g] = "active" /\ RowFree(g) /\ IsTransfer(m) = IsTransfer(money[g])
            /\ Begin(p, "correct", m, g, On(money[g]) \cup On(m))
    BY <1>2 DEF StartCorrect
  <2>2. g # NoPosting
    BY LedgerAssumption
  <2>3. QED  BY <2>1, <2>2, BeginStarts
<1>3. CASE StartDelete(p)
  <2>1. PICK g \in Postings : /\ phase[g] = "active" /\ RowFree(g)
                              /\ Begin(p, "delete", Blank, g, On(money[g]))
    BY <1>3 DEF StartDelete
  <2>2. g # NoPosting
    BY LedgerAssumption
  <2>3. QED  BY <2>1, <2>2, BeginStarts, OnBlank
<1>4. CASE StartManage(p)
  <2>1. PICK a \in Accounts, c \in Currencies :
            Begin(p, "manage", [Blank EXCEPT ![a] = c], NoPosting, {a})
    BY <1>4 DEF StartManage
  <2>2. On([Blank EXCEPT ![a] = c]) \subseteq {a}
    BY OnSingleton
  <2>3. QED  BY <2>1, <2>2, BeginStarts
<1>5. CASE StartPurge(p)
  <2>1. PICK a \in Accounts, c \in Currencies :
            Begin(p, "purge", [Blank EXCEPT ![a] = c], NoPosting, {a})
    BY <1>5 DEF StartPurge
  <2>2. On([Blank EXCEPT ![a] = c]) \subseteq {a}
    BY OnSingleton
  <2>3. QED  BY <2>1, <2>2, BeginStarts
<1>6. CASE StartRebuild(p)
  <2>1. PICK S : Begin(p, "rebuild", Blank, NoPosting, S)
    BY <1>6 DEF StartRebuild
  <2>2. QED  BY <2>1, BeginStarts
<1>7. CASE StartRead(p)
  <2>1. op'[p] = "read" /\ pc'[p] \in {"answered", "missed"} /\ row'[p] = row[p]
    BY <1>7 DEF TypeOK, StartRead
  <2>2. row[p] = NoPosting
    BY <1>7 DEF TypeOK, StartRead
  <2>3. QED  BY <1>7, <2>1, <2>2 DEF Starts, StartRead
<1>8. QED  BY <1>1, <1>2, <1>3, <1>4, <1>5, <1>6, <1>7 DEF Start

LEMMA StepKinds ==
  ASSUME TypeOK, Shape, NEW p \in Sessions, Acts(p)
  PROVE  Starts(p) \/ EndSession(p) \/ GoesOn(p)
<1>1. CASE Start(p)
  BY <1>1, StartStarts
<1>2. CASE LockAccount(p)
  <2>1. PICK a \in Accounts : /\ Free(a) /\ Admits(p, a)
                              /\ need'[p] = need[p] \ {a}
                              /\ holds'[p] = holds[p] \cup {a}
    BY <1>2 DEF TypeOK, LockAccount
  <2>2. QED  BY <1>2, <2>1 DEF LockAccount, GoesOn
<1>3. CASE PassOver(p)
  BY <1>3 DEF TypeOK, PassOver, GoesOn
<1>4. CASE BeginPurge(p)
  <2>1. op'[p] = "purging" /\ need[p] = {}
    BY <1>4 DEF TypeOK, BeginPurge, Locked
  <2>2. QED  BY <1>4, <2>1 DEF BeginPurge, Locked, GoesOn
<1>5. CASE Recheck(p) \/ AnswerFromRecheck(p) \/ Sum(p) \/ Fill(p)
  <2>1. op[p] = "read"
    BY <1>5 DEF TypeOK, Shape, Recheck, AnswerFromRecheck, Sum, Fill, Locked
  <2>2. /\ pc[p] # "idle" /\ pc'[p] # "idle"
        /\ holds'[p] \subseteq holds[p]
    BY <1>5 DEF TypeOK, Recheck, AnswerFromRecheck, Answer, Sum, Fill, Locked
  <2>3. /\ UNCHANGED <<accountVars, postingVars>>
        /\ plan'[p] = plan[p] /\ row'[p] = row[p] /\ op'[p] = op[p]
    BY <1>5 DEF Recheck, AnswerFromRecheck, Answer, Sum, Fill
  <2>4. QED  BY <2>1, <2>2, <2>3 DEF GoesOn
<1>6. QED
  BY <1>1, <1>2, <1>3, <1>4, <1>5
  DEF Acts, Advance, Abort, Refuse, Return, Rollback,
      CommitPosting, CommitDelete, CommitManage, CommitPurge, CommitRebuild

-----------------------------------------------------------------------------
(* Writes stay within the locks of their session.                          *)

Commits(p) == CommitPosting(p) \/ CommitDelete(p) \/ CommitManage(p) \/ CommitPurge(p)

LEMMA OnlyCommitsWrite ==
  ASSUME NEW p \in Sessions, Acts(p), ~Commits(p)
  PROVE  UNCHANGED <<accountVars, postingVars>>
  BY DEF Acts, Commits, Start, StartPost, StartCorrect, StartDelete, StartManage,
         StartPurge, StartRebuild, StartRead, Begin, Advance, LockAccount, Refuse, PassOver,
         Abort, Rollback, Return, BeginPurge, CommitRebuild, Recheck, AnswerFromRecheck,
         Answer, Sum, Fill

\* A transaction that commits holds every account that it touches.
LEMMA CommitsHold ==
  ASSUME Covered, NEW p \in Sessions, Commits(p)
  PROVE  On(plan[p]) \cup OldAccounts(p) \subseteq holds[p]
<1>1. need[p] = {} /\ op[p] \notin {"none", "read", "rebuild"}
  BY DEF Commits, CommitPosting, CommitDelete, CommitManage, CommitPurge, Locked
<1>2. QED  BY <1>1 DEF Covered

\* An account that the session has not locked keeps its row, and gets no
\* posting that it did not have.
LEMMA UnlockedAccounts ==
  ASSUME TypeOK, Covered, NEW p \in Sessions, Acts(p), NEW a \in Accounts, a \notin holds[p]
  PROVE  /\ account'[a] = account[a] /\ currency'[a] = currency[a]
         /\ HasHistory(a)' => HasHistory(a)
<1>1. CASE ~Commits(p)
  BY <1>1, OnlyCommitsWrite DEF accountVars, postingVars, HasHistory
<1>2. CASE Commits(p)
  <2>1. a \notin On(plan[p]) /\ a \notin OldAccounts(p)
    BY <1>2, CommitsHold
  <2>2. CASE CommitPosting(p)
    <3>1. PICK g \in Postings :
            /\ phase[g] = "none"
            /\ phase' = [h \in Postings |->
                  IF h = g THEN "active" ELSE IF h = row[p] THEN "deleted" ELSE phase[h]]
            /\ money' = [money EXCEPT ![g] = plan[p]]
      BY <2>2 DEF CommitPosting
    <3>2. plan[p][a] = NoEntry
      BY <2>1 DEF On
    <3>3. row[p] # NoPosting => money[row[p]][a] = NoEntry
      BY <2>1 DEF OldAccounts, On
    <3>4. \A h \in Postings :
             (phase'[h] \in {"active", "deleted"} /\ money'[h][a] # NoEntry) =>
                 phase[h] \in {"active", "deleted"} /\ money[h][a] # NoEntry
      BY <3>1, <3>2, <3>3, LedgerAssumption DEF TypeOK
    <3>5. QED  BY <2>2, <3>4 DEF CommitPosting, accountVars, HasHistory
  <2>3. CASE CommitDelete(p)
    <3>1. /\ UNCHANGED <<accountVars, money>>
          /\ phase' = [phase EXCEPT ![row[p]] = "deleted"]
      BY <2>3 DEF CommitDelete
    <3>2. row[p] # NoPosting => money[row[p]][a] = NoEntry
      BY <2>1 DEF OldAccounts, On
    <3>3. \A h \in Postings :
             (phase'[h] \in {"active", "deleted"} /\ money[h][a] # NoEntry) =>
                 phase[h] \in {"active", "deleted"}
      BY <3>1, <3>2, LedgerAssumption DEF TypeOK
    <3>4. QED  BY <3>1, <3>3 DEF accountVars, HasHistory
  <2>4. CASE CommitManage(p)
    <3>1. PICK b \in On(plan[p]) : /\ \E s : account' = [account EXCEPT ![b] = s]
                                   /\ \E c : currency' = [currency EXCEPT ![b] = c]
      BY <2>4 DEF CommitManage
    <3>2. a # b /\ UNCHANGED postingVars
      BY <2>1, <2>4 DEF CommitManage
    <3>3. QED  BY <3>1, <3>2 DEF TypeOK, postingVars, HasHistory
  <2>5. CASE CommitPurge(p)
    <3>1. PICK b \in On(plan[p]) :
            /\ phase' = [g \in Postings |-> IF g \in PostingsOn(b) THEN "purged" ELSE phase[g]]
            /\ money' = [g \in Postings |-> IF g \in PostingsOn(b) THEN Blank ELSE money[g]]
            /\ account' = [account EXCEPT ![b] = "gone"]
            /\ currency' = [currency EXCEPT ![b] = NoEntry]
      BY <2>5 DEF CommitPurge
    <3>2. a # b
      BY <2>1
    <3>3. account'[a] = account[a] /\ currency'[a] = currency[a]
      BY <3>1, <3>2 DEF TypeOK
    <3>4. HasHistory(a)' => HasHistory(a)
      BY <3>1 DEF HasHistory
    <3>5. QED  BY <3>3, <3>4
  <2>6. QED  BY <1>2, <2>2, <2>3, <2>4, <2>5 DEF Commits
<1>3. QED  BY <1>1, <1>2

\* A posting that another session has locked stays as it is.
LEMMA LockedPosting ==
  ASSUME TypeOK, LocksExclude, OriginalsLive, NEW p \in Sessions, Acts(p),
         NEW q \in Sessions, q # p, row[q] # NoPosting
  PROVE  phase'[row[q]] = phase[row[q]] /\ money'[row[q]] = money[row[q]]
<1>1. CASE ~Commits(p)
  BY <1>1, OnlyCommitsWrite DEF postingVars
<1>2. /\ row[q] \in Postings
      /\ row[q] # row[p]
      /\ phase[row[q]] = "active"
  BY DEF TypeOK, LocksExclude, OriginalsLive
<1>3. CASE CommitPosting(p)
  <2>1. PICK g \in Postings :
          /\ phase[g] = "none"
          /\ phase' = [h \in Postings |->
                IF h = g THEN "active" ELSE IF h = row[p] THEN "deleted" ELSE phase[h]]
          /\ money' = [money EXCEPT ![g] = plan[p]]
    BY <1>3 DEF CommitPosting
  <2>2. row[q] # g
    BY <1>2, <2>1
  <2>3. QED  BY <1>2, <2>1, <2>2 DEF TypeOK
<1>4. CASE CommitDelete(p)
  BY <1>2, <1>4 DEF CommitDelete, TypeOK
<1>5. CASE CommitManage(p)
  BY <1>5 DEF CommitManage, postingVars
<1>6. CASE CommitPurge(p)
  <2>1. PICK b \in On(plan[p]) :
          /\ \A g \in PostingsOn(b) : RowFree(g)
          /\ phase' = [g \in Postings |-> IF g \in PostingsOn(b) THEN "purged" ELSE phase[g]]
          /\ money' = [g \in Postings |-> IF g \in PostingsOn(b) THEN Blank ELSE money[g]]
    BY <1>6 DEF CommitPurge
  <2>2. row[q] \notin PostingsOn(b)
    BY <2>1 DEF RowFree
  <2>3. QED  BY <1>2, <2>1, <2>2
<1>7. QED  BY <1>1, <1>3, <1>4, <1>5, <1>6 DEF Commits

-----------------------------------------------------------------------------
(* The parts of the invariant, step by step of a session.                  *)

LEMMA LocksExcludeStep ==
  ASSUME TypeOK, Shape, LocksExclude, NEW p \in Sessions, Acts(p)
  PROVE  LocksExclude'
<1>1. \A a \in holds'[p] : a \in holds[p] \/ Free(a)
  <2>1. CASE Starts(p)
    BY <2>1 DEF Starts
  <2>2. CASE EndSession(p)
    BY <2>2 DEF TypeOK, EndSession
  <2>3. CASE GoesOn(p)
    BY <2>3 DEF GoesOn
  <2>4. QED  BY <2>1, <2>2, <2>3, StepKinds
<1>2. row'[p] = NoPosting \/ row'[p] = row[p] \/ RowFree(row'[p])
  <2>1. CASE Starts(p)
    BY <2>1 DEF Starts
  <2>2. CASE EndSession(p)
    BY <2>2 DEF TypeOK, EndSession
  <2>3. CASE GoesOn(p)
    BY <2>3 DEF GoesOn
  <2>4. QED  BY <2>1, <2>2, <2>3, StepKinds
<1>3. \A q \in Sessions : q # p => holds'[q] = holds[q] /\ row'[q] = row[q]
  BY OthersKeep DEF Keeps
<1>4. ASSUME NEW q \in Sessions, q # p
      PROVE  holds'[p] \cap holds'[q] = {} /\ (row'[p] = row'[q] => row'[p] = NoPosting)
  BY <1>1, <1>2, <1>3, <1>4 DEF LocksExclude, Free, RowFree
<1>5. SUFFICES ASSUME NEW q \in Sessions, NEW r \in Sessions, q # r
               PROVE  holds'[q] \cap holds'[r] = {} /\ (row'[q] = row'[r] => row'[q] = NoPosting)
  BY DEF LocksExclude
<1>6. CASE q = p \/ r = p
  BY <1>4, <1>5, <1>6
<1>7. CASE q # p /\ r # p
  BY <1>3, <1>5, <1>7 DEF LocksExclude
<1>8. QED  BY <1>6, <1>7

LEMMA ShapeStep ==
  ASSUME TypeOK, Shape, NEW p \in Sessions, Acts(p)
  PROVE  Shape'
<1>1. /\ op'[p] = "none" <=> pc'[p] = "idle"
      /\ op'[p] \notin {"none", "read"} => pc'[p] = "locking"
      /\ row'[p] # NoPosting <=> op'[p] \in {"correct", "delete"}
      /\ op'[p] \in {"delete", "rebuild"} => plan'[p] = Blank
  <2>1. CASE Starts(p)
    BY <2>1 DEF Starts, Kinds
  <2>2. CASE EndSession(p)
    BY <2>2 DEF TypeOK, EndSession
  <2>3. CASE GoesOn(p)
    BY <2>3 DEF Shape, GoesOn
  <2>4. QED  BY <2>1, <2>2, <2>3, StepKinds
<1>2. \A q \in Sessions : q # p => Keeps(q)
  BY OthersKeep
<1>3. QED  BY <1>1, <1>2 DEF Shape, Keeps

LEMMA OriginalsLiveStep ==
  ASSUME TypeOK, Shape, LocksExclude, OriginalsLive, NEW p \in Sessions, Acts(p)
  PROVE  OriginalsLive'
<1>1. ASSUME row'[p] # NoPosting
      PROVE  /\ phase'[row'[p]] = "active"
             /\ op'[p] = "correct" => IsTransfer(plan'[p]) = IsTransfer(money'[row'[p]])
  <2>1. CASE Starts(p)
    BY <1>1, <2>1 DEF Starts, postingVars
  <2>2. CASE EndSession(p)
    BY <1>1, <2>2 DEF TypeOK, EndSession
  <2>3. CASE GoesOn(p)
    BY <1>1, <2>3 DEF OriginalsLive, GoesOn, postingVars
  <2>4. QED  BY <2>1, <2>2, <2>3, StepKinds
<1>2. ASSUME NEW q \in Sessions, q # p, row'[q] # NoPosting
      PROVE  /\ phase'[row'[q]] = "active"
             /\ op'[q] = "correct" => IsTransfer(plan'[q]) = IsTransfer(money'[row'[q]])
  <2>1. row'[q] = row[q] /\ op'[q] = op[q] /\ plan'[q] = plan[q]
    BY <1>2, OthersKeep DEF Keeps
  <2>2. phase'[row[q]] = phase[row[q]] /\ money'[row[q]] = money[row[q]]
    BY <1>2, <2>1, LockedPosting
  <2>3. QED  BY <1>2, <2>1, <2>2 DEF OriginalsLive
<1>3. QED
  BY <1>1, <1>2 DEF OriginalsLive, IsTransfer, On

LEMMA CoveredStep ==
  ASSUME TypeOK, Shape, LocksExclude, OriginalsLive, Covered, NEW p \in Sessions, Acts(p)
  PROVE  Covered'
<1>1. ASSUME op'[p] \notin {"none", "read", "rebuild"}
      PROVE  On(plan'[p]) \cup OldAccounts(p)' \subseteq need'[p] \cup holds'[p]
  <2>1. CASE Starts(p)
    <3>1. On(plan'[p]) \subseteq need'[p]
      BY <1>1, <2>1 DEF Starts
    <3>2. row'[p] # NoPosting => On(money'[row'[p]]) \subseteq need'[p]
      BY <2>1 DEF Starts, postingVars, On
    <3>3. QED  BY <3>1, <3>2 DEF OldAccounts, On
  <2>2. CASE EndSession(p)
    BY <1>1, <2>2 DEF TypeOK, EndSession
  <2>3. CASE GoesOn(p)
    <3>1. On(plan[p]) \cup OldAccounts(p) \subseteq need[p] \cup holds[p]
      BY <1>1, <2>3 DEF Covered, Shape, GoesOn
    <3>2. need[p] \cup holds[p] \subseteq need'[p] \cup holds'[p]
      BY <1>1, <2>3 DEF GoesOn
    <3>3. OldAccounts(p)' = OldAccounts(p) /\ plan'[p] = plan[p]
      BY <2>3 DEF GoesOn, OldAccounts, On, postingVars
    <3>4. QED  BY <3>1, <3>2, <3>3
  <2>4. QED  BY <2>1, <2>2, <2>3, StepKinds
<1>2. ASSUME NEW q \in Sessions, q # p, op'[q] \notin {"none", "read", "rebuild"}
      PROVE  On(plan'[q]) \cup OldAccounts(q)' \subseteq need'[q] \cup holds'[q]
  <2>1. Keeps(q)
    BY <1>2, OthersKeep
  <2>2. OldAccounts(q)' = OldAccounts(q)
    <3>1. CASE row[q] = NoPosting
      BY <2>1, <3>1 DEF Keeps, OldAccounts
    <3>2. CASE row[q] # NoPosting
      <4>1. money'[row[q]] = money[row[q]]
        BY <1>2, <3>2, LockedPosting
      <4>2. QED  BY <2>1, <3>2, <4>1 DEF Keeps, OldAccounts, On
    <3>3. QED  BY <3>1, <3>2
  <2>3. QED  BY <1>2, <2>1, <2>2 DEF Covered, Keeps
<1>3. QED  BY <1>1, <1>2 DEF Covered, On

LEMMA ActsTyped ==
  ASSUME TypeOK, NEW p \in Sessions, Acts(p)
  PROVE  TypeOK'
  BY TypeStep DEF Acts, Next

\* What Admits depends on.
LEMMA AdmitsKept ==
  ASSUME NEW p \in Sessions, NEW a \in Accounts, Admits(p, a),
         op'[p] = op[p] \/ (op[p] = "purge" /\ op'[p] = "purging"),
         plan'[p] = plan[p], OldAccounts(p)' = OldAccounts(p),
         account'[a] = account[a], currency'[a] = currency[a],
         HasHistory(a)' => HasHistory(a)
  PROVE  Admits(p, a)'
  BY DEF Admits, Exists

LEMMA CheckedStep ==
  ASSUME TypeOK, Shape, LocksExclude, OriginalsLive, Covered, Checked,
         NEW p \in Sessions, Acts(p)
  PROVE  Checked'
<1>1. ASSUME NEW a \in holds'[p]
      PROVE  Admits(p, a)'
  <2>1. CASE Starts(p)
    BY <2>1 DEF Starts, TypeOK
  <2>2. CASE EndSession(p)
    BY <2>2 DEF TypeOK, EndSession
  <2>3. CASE GoesOn(p)
    <3>1. Admits(p, a)
      BY <2>3 DEF GoesOn, Checked
    <3>2. a \in Accounts
      BY ActsTyped DEF TypeOK
    <3>3. OldAccounts(p)' = OldAccounts(p)
      BY <2>3 DEF GoesOn, OldAccounts, On, postingVars
    <3>4. /\ account'[a] = account[a] /\ currency'[a] = currency[a]
          /\ HasHistory(a)' => HasHistory(a)
      BY <2>3 DEF GoesOn, accountVars, postingVars, HasHistory
    <3>5. QED  BY <2>3, <3>1, <3>2, <3>3, <3>4, AdmitsKept DEF GoesOn
  <2>4. QED  BY <2>1, <2>2, <2>3, StepKinds
<1>2. ASSUME NEW q \in Sessions, q # p, NEW a \in holds'[q]
      PROVE  Admits(q, a)'
  <2>1. Keeps(q)
    BY <1>2, OthersKeep
  <2>2. a \in Accounts /\ a \in holds[q] /\ a \notin holds[p]
    BY <1>2, <2>1 DEF Keeps, TypeOK, LocksExclude
  <2>3. Admits(q, a)
    BY <2>2 DEF Checked
  <2>4. OldAccounts(q)' = OldAccounts(q)
    <3>1. CASE row[q] = NoPosting
      BY <2>1, <3>1 DEF Keeps, OldAccounts
    <3>2. CASE row[q] # NoPosting
      <4>1. money'[row[q]] = money[row[q]]
        BY <1>2, <3>2, LockedPosting
      <4>2. QED  BY <2>1, <3>2, <4>1 DEF Keeps, OldAccounts, On
    <3>3. QED  BY <3>1, <3>2
  <2>5. /\ account'[a] = account[a] /\ currency'[a] = currency[a]
        /\ HasHistory(a)' => HasHistory(a)
    BY <2>2, UnlockedAccounts
  <2>6. QED  BY <2>1, <2>2, <2>3, <2>4, <2>5, AdmitsKept DEF Keeps
<1>3. QED  BY <1>1, <1>2 DEF Checked, Admits, HasHistory, OldAccounts, On, Exists

\* A transaction that posts has found each account of its plan in order.
LEMMA PlanAdmitted ==
  ASSUME Covered, Checked, NEW p \in Sessions, CommitPosting(p), NEW a \in On(plan[p])
  PROVE  /\ Exists(a) /\ plan[p][a] = currency[a]
         /\ account[a] = "open" \/ (op[p] = "correct" /\ a \in OldAccounts(p))
<1>1. a \in holds[p]
  BY CommitsHold DEF Commits
<1>2. Admits(p, a) /\ op[p] \in {"post", "correct"} /\ plan[p][a] # NoEntry
  BY <1>1 DEF Checked, CommitPosting, Locked, On
<1>3. QED  BY <1>2 DEF Admits

LEMMA RowsStep ==
  ASSUME TypeOK, OriginalsLive, Covered, Checked, RowsMatchAccounts,
         NEW p \in Sessions, Acts(p)
  PROVE  RowsMatchAccounts'
<1>1. CASE ~Commits(p)
  BY <1>1, OnlyCommitsWrite DEF RowsMatchAccounts, Exists, accountVars, postingVars
<1>2. CASE CommitPosting(p)
  <2>1. PICK g \in Postings :
          /\ phase[g] = "none"
          /\ phase' = [h \in Postings |->
                IF h = g THEN "active" ELSE IF h = row[p] THEN "deleted" ELSE phase[h]]
          /\ money' = [money EXCEPT ![g] = plan[p]]
    BY <1>2 DEF CommitPosting
  <2>2. UNCHANGED accountVars
    BY <1>2 DEF CommitPosting
  <2>3. ASSUME NEW h \in Postings, NEW a \in Accounts,
               phase'[h] \in {"active", "deleted"}, money'[h][a] # NoEntry
        PROVE  Exists(a)' /\ currency'[a] = money'[h][a]
    <3>1. CASE h = g
      <4>1. money'[h] = plan[p] /\ a \in On(plan[p])
        BY <2>1, <2>3, <3>1 DEF TypeOK, On
      <4>2. QED  BY <1>2, <2>2, <4>1, PlanAdmitted DEF accountVars, Exists
    <3>2. CASE h # g
      <4>1. money'[h] = money[h]
        BY <2>1, <3>2 DEF TypeOK
      <4>2. phase[h] \in {"active", "deleted"}
        <5>1. CASE h # row[p]
          BY <2>1, <2>3, <3>2, <5>1
        <5>2. CASE h = row[p]
          BY <5>2, LedgerAssumption DEF OriginalsLive
        <5>3. QED  BY <5>1, <5>2
      <4>3. QED  BY <2>2, <2>3, <4>1, <4>2 DEF RowsMatchAccounts, accountVars, Exists
    <3>3. QED  BY <3>1, <3>2
  <2>4. QED  BY <2>3 DEF RowsMatchAccounts, Exists
<1>3. CASE CommitDelete(p)
  <2>1. phase' = [phase EXCEPT ![row[p]] = "deleted"] /\ UNCHANGED <<accountVars, money>>
    BY <1>3 DEF CommitDelete
  <2>2. \A h \in Postings : phase'[h] \in {"active", "deleted"} =>
                                phase[h] \in {"active", "deleted"}
    BY <2>1, LedgerAssumption DEF TypeOK, OriginalsLive
  <2>3. QED  BY <2>1, <2>2 DEF RowsMatchAccounts, accountVars, Exists
<1>4. CASE CommitManage(p)
  <2>1. PICK b \in On(plan[p]), s \in {"open", "archived"} :
          /\ account' = [account EXCEPT ![b] = s]
          /\ currency' = [currency EXCEPT ![b] = plan[p][b]]
    BY <1>4 DEF CommitManage
  <2>2. UNCHANGED postingVars
    BY <1>4 DEF CommitManage
  <2>3. b \in Accounts /\ b \in holds[p] /\ plan[p][b] # NoEntry /\ op[p] = "manage"
    BY <1>4, <2>1, CommitsHold DEF Commits, CommitManage, Locked, On
  <2>4. plan[p][b] = currency[b] \/ ~HasHistory(b)
    BY <2>3 DEF Checked, Admits
  <2>5. ASSUME NEW h \in Postings, NEW a \in Accounts,
               phase[h] \in {"active", "deleted"}, money[h][a] # NoEntry
        PROVE  Exists(a)' /\ currency'[a] = money[h][a]
    <3>1. Exists(a) /\ currency[a] = money[h][a]
      BY <2>5 DEF RowsMatchAccounts
    <3>2. CASE a # b
      BY <2>1, <3>1, <3>2 DEF TypeOK, Exists
    <3>3. CASE a = b
      <4>1. HasHistory(b)
        BY <2>5, <3>3 DEF HasHistory
      <4>2. QED  BY <2>1, <2>3, <2>4, <3>1, <3>3, <4>1 DEF TypeOK, Exists
    <3>4. QED  BY <3>2, <3>3
  <2>6. QED  BY <2>2, <2>5 DEF RowsMatchAccounts, postingVars
<1>5. CASE CommitPurge(p)
  <2>1. PICK b \in On(plan[p]) :
          /\ phase' = [g \in Postings |-> IF g \in PostingsOn(b) THEN "purged" ELSE phase[g]]
          /\ money' = [g \in Postings |-> IF g \in PostingsOn(b) THEN Blank ELSE money[g]]
          /\ account' = [account EXCEPT ![b] = "gone"]
          /\ currency' = [currency EXCEPT ![b] = NoEntry]
    BY <1>5 DEF CommitPurge
  <2>2. ASSUME NEW h \in Postings, NEW a \in Accounts,
               phase'[h] \in {"active", "deleted"}, money'[h][a] # NoEntry
        PROVE  Exists(a)' /\ currency'[a] = money'[h][a]
    <3>1. h \notin PostingsOn(b) /\ phase'[h] = phase[h] /\ money'[h] = money[h]
      BY <2>1, <2>2
    <3>2. Exists(a) /\ currency[a] = money[h][a]
      BY <2>2, <3>1 DEF RowsMatchAccounts
    <3>3. a # b
      BY <2>2, <3>1 DEF PostingsOn
    <3>4. QED  BY <2>1, <3>1, <3>2, <3>3 DEF TypeOK, Exists
  <2>3. QED  BY <2>2 DEF RowsMatchAccounts, Exists
<1>6. QED  BY <1>1, <1>2, <1>3, <1>4, <1>5 DEF Commits

LEMMA CorrectionsStep ==
  ASSUME TypeOK, Shape, OriginalsLive, CorrectionsSound, NEW p \in Sessions, Acts(p)
  PROVE  CorrectionsSound'
<1>1. CASE ~Commits(p)
  BY <1>1, OnlyCommitsWrite
  DEF CorrectionsSound, IsTransfer, On, postingVars
<1>2. CASE CommitPosting(p)
  <2>1. PICK g \in Postings :
          /\ phase[g] = "none"
          /\ phase' = [h \in Postings |->
                IF h = g THEN "active" ELSE IF h = row[p] THEN "deleted" ELSE phase[h]]
          /\ money' = [money EXCEPT ![g] = plan[p]]
          /\ corrects' = [corrects EXCEPT ![g] = row[p]]
    BY <1>2 DEF CommitPosting
  <2>2. /\ row[p] # NoPosting => /\ row[p] \in Postings /\ op[p] = "correct"
                                 /\ phase[row[p]] = "active"
                                 /\ IsTransfer(plan[p]) = IsTransfer(money[row[p]])
    BY <1>2 DEF CommitPosting, Locked, TypeOK, Shape, OriginalsLive
  <2>3. \A h \in Postings : corrects[h] # NoPosting =>
            h # g /\ corrects[h] \in Postings /\ corrects[h] # row[p] /\ corrects[h] # g
    BY <2>1, <2>2 DEF CorrectionsSound, TypeOK
  <2>4. ASSUME NEW h \in Postings, corrects'[h] # NoPosting
        PROVE  /\ phase'[h] \in {"active", "deleted"}
               /\ phase'[corrects'[h]] = "deleted"
               /\ IsTransfer(money'[h]) = IsTransfer(money'[corrects'[h]])
               /\ \A k \in Postings : corrects'[k] = corrects'[h] => k = h
    <3>1. CASE h = g
      <4>1. corrects'[h] = row[p] /\ row[p] # NoPosting /\ row[p] # g
        BY <2>1, <2>2, <2>4, <3>1 DEF TypeOK
      <4>2. money'[h] = plan[p] /\ money'[row[p]] = money[row[p]]
        BY <2>1, <2>2, <3>1, <4>1 DEF TypeOK
      <4>3. phase'[h] = "active" /\ phase'[row[p]] = "deleted"
        BY <2>1, <2>2, <3>1, <4>1
      <4>4. \A k \in Postings : corrects'[k] = row[p] => k = g
        BY <2>1, <2>3, <4>1 DEF TypeOK
      <4>5. QED  BY <2>2, <3>1, <4>1, <4>2, <4>3, <4>4
    <3>2. CASE h # g
      <4>1. corrects'[h] = corrects[h] /\ corrects[h] # NoPosting /\ money'[h] = money[h]
        BY <2>1, <2>4, <3>2 DEF TypeOK
      <4>2. corrects[h] # g /\ corrects[h] # row[p] /\ corrects[h] \in Postings
        BY <2>3, <4>1
      <4>3. money'[corrects[h]] = money[corrects[h]]
        BY <2>1, <4>2 DEF TypeOK
      <4>4. phase'[corrects[h]] = "deleted" /\ phase'[h] \in {"active", "deleted"}
        BY <2>1, <3>2, <4>1, <4>2 DEF CorrectionsSound
      <4>5. \A k \in Postings : corrects'[k] = corrects[h] => k = h
        BY <2>1, <4>1, <4>2 DEF TypeOK, CorrectionsSound
      <4>6. QED  BY <4>1, <4>3, <4>4, <4>5 DEF CorrectionsSound
    <3>3. QED  BY <3>1, <3>2
  <2>5. QED  BY <2>4 DEF CorrectionsSound, IsTransfer, On
<1>3. CASE CommitDelete(p)
  <2>1. phase' = [phase EXCEPT ![row[p]] = "deleted"] /\ UNCHANGED <<money, corrects>>
    BY <1>3 DEF CommitDelete
  <2>2. \A h \in Postings :
            /\ phase[h] \in {"active", "deleted"} => phase'[h] \in {"active", "deleted"}
            /\ phase[h] = "deleted" => phase'[h] = "deleted"
    BY <2>1 DEF TypeOK
  <2>3. ASSUME NEW h \in Postings, corrects[h] # NoPosting
        PROVE  /\ phase'[h] \in {"active", "deleted"}
               /\ phase'[corrects[h]] = "deleted"
               /\ IsTransfer(money[h]) = IsTransfer(money[corrects[h]])
               /\ \A k \in Postings : corrects[k] = corrects[h] => k = h
    BY <2>2, <2>3 DEF CorrectionsSound, TypeOK
  <2>4. QED  BY <2>1, <2>3 DEF CorrectionsSound, IsTransfer, On
<1>4. CASE CommitManage(p)
  <2>1. UNCHANGED postingVars
    BY <1>4 DEF CommitManage
  <2>2. QED  BY <2>1 DEF CorrectionsSound, IsTransfer, On, postingVars
<1>5. CASE CommitPurge(p)
  <2>1. PICK b \in On(plan[p]) :
          /\ phase' = [g \in Postings |-> IF g \in PostingsOn(b) THEN "purged" ELSE phase[g]]
          /\ money' = [g \in Postings |-> IF g \in PostingsOn(b) THEN Blank ELSE money[g]]
          /\ corrects' = [g \in Postings |->
                IF {g, corrects[g]} \cap PostingsOn(b) # {} THEN NoPosting ELSE corrects[g]]
    BY <1>5 DEF CommitPurge
  <2>2. ASSUME NEW h \in Postings, corrects'[h] # NoPosting
        PROVE  /\ phase'[h] \in {"active", "deleted"}
               /\ phase'[corrects'[h]] = "deleted"
               /\ IsTransfer(money'[h]) = IsTransfer(money'[corrects'[h]])
               /\ \A k \in Postings : corrects'[k] = corrects'[h] => k = h
    <3>1. /\ corrects'[h] = corrects[h] /\ corrects[h] # NoPosting
          /\ h \notin PostingsOn(b) /\ corrects[h] \notin PostingsOn(b)
      BY <2>1, <2>2
    <3>2. corrects[h] \in Postings
      BY <3>1 DEF TypeOK
    <3>3. money'[h] = money[h] /\ money'[corrects[h]] = money[corrects[h]]
      BY <2>1, <3>1, <3>2
    <3>4. phase'[h] = phase[h] /\ phase'[corrects[h]] = phase[corrects[h]]
      BY <2>1, <3>1, <3>2
    <3>5. \A k \in Postings : corrects'[k] = corrects'[h] => corrects[k] = corrects[h]
      BY <2>1, <2>2, <3>1
    <3>6. QED  BY <3>1, <3>3, <3>4, <3>5 DEF CorrectionsSound
  <2>3. QED  BY <2>2 DEF CorrectionsSound, IsTransfer, On
<1>6. QED  BY <1>1, <1>2, <1>3, <1>4, <1>5 DEF Commits

-----------------------------------------------------------------------------
(* The invariant.                                                          *)

LEMMA IInvInit == Init => IInv
<1> SUFFICES ASSUME Init PROVE IInv
  OBVIOUS
<1>1. TypeOK
  BY TypeInit
<1>2. LocksExclude /\ Shape /\ OriginalsLive
  BY LedgerAssumption DEF Init, LocksExclude, Shape, OriginalsLive, NoPosting
<1>3. Covered /\ Checked
  BY DEF Init, Covered, Checked
<1>4. RowsMatchAccounts /\ CorrectionsSound
  BY DEF Init, RowsMatchAccounts, CorrectionsSound
<1>5. QED  BY <1>1, <1>2, <1>3, <1>4 DEF IInv

\* A new account is none that a request has locked or a posting is on.
LEMMA OpenAccountKeepsIInv ==
  ASSUME IInv, NEW a \in Accounts, NEW c \in Currencies, OpenAccount(a, c)
  PROVE  IInv'
<1>1. TypeOK'
  BY TypeStep DEF IInv, Next
<1>2. /\ account[a] = "none"
      /\ account' = [account EXCEPT ![a] = "open"]
      /\ currency' = [currency EXCEPT ![a] = c]
      /\ UNCHANGED <<postingVars, cacheVars, sessionVars>>
  BY DEF OpenAccount
<1>3. LocksExclude' /\ Shape'
  BY <1>2 DEF IInv, LocksExclude, Shape, sessionVars
<1>4. OriginalsLive'
  BY <1>2 DEF IInv, OriginalsLive, IsTransfer, On, sessionVars, postingVars
<1>5. Covered'
  BY <1>2 DEF IInv, Covered, OldAccounts, On, sessionVars, postingVars
<1>6. \A b \in Accounts : Exists(b) =>
          b # a /\ Exists(b)' /\ account'[b] = account[b] /\ currency'[b] = currency[b]
  BY <1>2 DEF IInv, TypeOK, Exists
<1>7. Checked'
  <2>1. ASSUME NEW p \in Sessions, NEW b \in Accounts, Admits(p, b)
        PROVE  Admits(p, b)'
    <3>1. Exists(b)
      BY <2>1 DEF Admits
    <3>2. QED
      BY <1>2, <1>6, <2>1, <3>1
      DEF Admits, HasHistory, OldAccounts, On, sessionVars, postingVars
  <2>2. QED  BY <1>2, <2>1 DEF IInv, TypeOK, Checked, sessionVars
<1>8. RowsMatchAccounts'
  BY <1>2, <1>6 DEF IInv, RowsMatchAccounts, postingVars
<1>9. CorrectionsSound'
  BY <1>2 DEF IInv, CorrectionsSound, IsTransfer, On, postingVars
<1>10. QED  BY <1>1, <1>3, <1>4, <1>5, <1>7, <1>8, <1>9 DEF IInv

LEMMA ActsKeepIInv ==
  ASSUME IInv, NEW p \in Sessions, Acts(p)
  PROVE  IInv'
<1>1. TypeOK'
  BY ActsTyped DEF IInv
<1>2. LocksExclude' /\ Shape' /\ OriginalsLive'
  BY LocksExcludeStep, ShapeStep, OriginalsLiveStep DEF IInv
<1>3. Covered' /\ Checked'
  BY CoveredStep, CheckedStep DEF IInv
<1>4. RowsMatchAccounts' /\ CorrectionsSound'
  BY RowsStep, CorrectionsStep DEF IInv
<1>5. QED  BY <1>1, <1>2, <1>3, <1>4 DEF IInv

LEMMA IInvStep == IInv /\ [Next]_vars => IInv'
<1> SUFFICES ASSUME IInv, [Next]_vars PROVE IInv'
  OBVIOUS
<1>1. CASE UNCHANGED vars
  <2> USE <1>1 DEF IInv, vars, accountVars, postingVars, cacheVars, sessionVars
  <2>1. TypeOK'
    BY DEF TypeOK
  <2>2. LocksExclude' /\ Shape'
    BY DEF LocksExclude, Shape
  <2>3. OriginalsLive'
    BY DEF OriginalsLive, IsTransfer, On
  <2>4. Covered' /\ RowsMatchAccounts'
    BY DEF Covered, OldAccounts, On, RowsMatchAccounts, Exists
  <2>5. Checked'
    BY DEF Checked, Admits, HasHistory, OldAccounts, On, Exists
  <2>6. CorrectionsSound'
    BY DEF CorrectionsSound, IsTransfer, On
  <2>7. QED  BY <2>1, <2>2, <2>3, <2>4, <2>5, <2>6
<1>2. CASE Next
  BY <1>2, OpenAccountKeepsIInv, ActsKeepIInv DEF Next, Acts
<1>3. QED  BY <1>1, <1>2

\* The inductive invariant: what a request has locked excludes the others,
\* covers what it will write, and still is what the request checked.
THEOREM Invariance == Spec => []IInv
  BY IInvInit, IInvStep, PTL DEF Spec

\* Every variable has its type; an idle session holds no lock.
THEOREM TypeCorrect == Spec => []TypeOK
<1>1. IInv => TypeOK
  BY DEF IInv
<1>2. QED  BY <1>1, Invariance, PTL

\* Every row of a posting, deleted ones included, is on an account that exists
\* and carries its currency.
THEOREM RowsMatch == Spec => []RowsMatchAccounts
<1>1. IInv => RowsMatchAccounts
  BY DEF IInv
<1>2. QED  BY <1>1, Invariance, PTL

\* A posting is corrected at most once, and its amount never counts twice.
THEOREM Corrections == Spec => []CorrectionsSound
<1>1. IInv => CorrectionsSound
  BY DEF IInv
<1>2. QED  BY <1>1, Invariance, PTL

\* Postings, accounts and corrections fit together, for any number of each.
THEOREM SoundPostings == Spec => []PostingsSound
  BY TypeCorrect, RowsMatch, Corrections, PTL DEF PostingsSound

-----------------------------------------------------------------------------
(* Archived accounts.                                                      *)

NothingNewOnArchived ==
    \A g \in Postings : (phase[g] = "none" /\ phase'[g] # "none") =>
        \A a \in On(money'[g]) :
            \/ account[a] = "open"
            \/ /\ corrects'[g] # NoPosting
               /\ account[a] = "archived"
               /\ money[corrects'[g]][a] # NoEntry

LEMMA PostingStep ==
  ASSUME IInv, NEW p \in Sessions, CommitPosting(p)
  PROVE  NothingNewOnArchived
<1>1. PICK f \in Postings :
        /\ phase[f] = "none"
        /\ phase' = [h \in Postings |->
              IF h = f THEN "active" ELSE IF h = row[p] THEN "deleted" ELSE phase[h]]
        /\ money' = [money EXCEPT ![f] = plan[p]]
        /\ corrects' = [corrects EXCEPT ![f] = row[p]]
  BY DEF CommitPosting
<1>2. \A g \in Postings : (phase[g] = "none" /\ phase'[g] # "none") => g = f
  BY <1>1, LedgerAssumption DEF IInv, OriginalsLive
<1>3. money'[f] = plan[p] /\ corrects'[f] = row[p]
  BY <1>1 DEF IInv, TypeOK
<1>4. ASSUME NEW a \in On(plan[p])
      PROVE  \/ account[a] = "open"
             \/ row[p] # NoPosting /\ account[a] = "archived" /\ money[row[p]][a] # NoEntry
  <2>1. Exists(a) /\ (account[a] = "open" \/ a \in OldAccounts(p))
    BY PlanAdmitted DEF IInv
  <2>2. QED  BY <2>1 DEF Exists, OldAccounts, On
<1>5. QED  BY <1>2, <1>3, <1>4 DEF NothingNewOnArchived

LEMMA ArchivedStep == IInv /\ [Next]_vars => NothingNewOnArchived
<1> SUFFICES ASSUME IInv, [Next]_vars PROVE NothingNewOnArchived
  OBVIOUS
<1>1. CASE UNCHANGED phase
  BY <1>1 DEF NothingNewOnArchived
<1>2. ASSUME NEW p \in Sessions, Acts(p)
      PROVE  NothingNewOnArchived
  <2>1. CASE CommitPosting(p)
    BY <2>1, PostingStep
  <2>2. CASE CommitDelete(p)
    <3>1. /\ phase' = [phase EXCEPT ![row[p]] = "deleted"]
          /\ op[p] = "delete" /\ row[p] # NoPosting /\ phase[row[p]] = "active"
      BY <2>2 DEF CommitDelete, Locked, IInv, Shape, OriginalsLive
    <3>2. QED  BY <3>1 DEF NothingNewOnArchived, IInv, TypeOK
  <2>3. CASE CommitPurge(p)
    <3>1. PICK a \in On(plan[p]) :
            phase' = [g \in Postings |-> IF g \in PostingsOn(a) THEN "purged" ELSE phase[g]]
      BY <2>3 DEF CommitPurge
    <3>2. QED  BY <3>1 DEF NothingNewOnArchived, PostingsOn
  <2>4. CASE CommitManage(p) \/ ~Commits(p)
    BY <1>1, <1>2, <2>4, OnlyCommitsWrite DEF IInv, CommitManage, postingVars
  <2>5. QED  BY <2>1, <2>2, <2>3, <2>4 DEF Commits
<1>3. CASE UNCHANGED vars
  BY <1>1, <1>3 DEF vars, postingVars
<1>4. ASSUME NEW a \in Accounts, NEW c \in Currencies, OpenAccount(a, c)
      PROVE  NothingNewOnArchived
  BY <1>1, <1>4 DEF OpenAccount, postingVars
<1>5. QED  BY <1>2, <1>3, <1>4 DEF Next, Acts

\* Nothing new is ever posted to an archived account; a correction may stay on
\* an archived account of its original.
THEOREM ArchivedClosed == Spec => ArchivedTakesNothingNew
<1>1. IInv /\ [Next]_vars =>
        [\A g \in Postings : (phase[g] = "none" /\ phase'[g] # "none") =>
            \A a \in On(money'[g]) :
                \/ account[a] = "open"
                \/ /\ corrects'[g] # NoPosting
                   /\ account[a] = "archived"
                   /\ money[corrects'[g]][a] # NoEntry]_vars
  BY ArchivedStep DEF NothingNewOnArchived
<1>2. QED  BY <1>1, Invariance, PTL DEF Spec, ArchivedTakesNothingNew

-----------------------------------------------------------------------------
(* The balance cache, as long as no rebuild and no account deletion runs.  *)

Usual == Ops \cap {"rebuild", "purge"} = {}
UsualOnly == \A p \in Sessions : op[p] \notin {"rebuild", "purge", "purging"}

\* What a read of one balance has locked and seen.
ReadSound(p) ==
    op[p] = "read" =>
        /\ \A a, b \in On(plan[p]) : a = b
        /\ pc[p] \in {"waiting", "locking", "filling"} =>
              On(plan[p]) \subseteq need[p] \cup holds[p]
        /\ pc[p] = "filling" =>
              need[p] = {} /\ \A a \in holds[p] : snap[p][a] = Balance(a)
        /\ pc[p] \in {"waiting", "answered"} =>
              \A a \in On(plan[p]) : snap[p][a] \in recent[p]
        /\ \A a \in On(plan[p]) : Balance(a) \in recent[p]

CInv == UsualOnly /\ CacheExact /\ \A p \in Sessions : ReadSound(p)

LEMMA UsualStep ==
  ASSUME Usual, TypeOK, UsualOnly, NEW p \in Sessions, Acts(p)
  PROVE  UsualOnly'
<1>1. op'[p] \notin {"rebuild", "purge", "purging"}
  <2>1. CASE Start(p)
    BY <2>1
    DEF Usual, TypeOK, Start, StartPost, StartCorrect, StartDelete, StartManage,
        StartPurge, StartRebuild, StartRead, Begin
  <2>2. CASE EndSession(p)
    BY <2>2 DEF EndSession, TypeOK
  <2>3. CASE op' = op
    BY <2>3 DEF UsualOnly
  <2>4. CASE BeginPurge(p)
    BY <2>4 DEF BeginPurge, Locked, UsualOnly
  <2>5. QED
    BY <2>1, <2>2, <2>3, <2>4
    DEF Acts, Advance, Abort, Refuse, Return, Rollback, CommitPosting, CommitDelete,
        CommitManage, CommitPurge, CommitRebuild, LockAccount, PassOver, Recheck,
        AnswerFromRecheck, Answer, Sum, Fill
<1>2. QED  BY <1>1, OthersKeep DEF UsualOnly, Keeps

\* A commit changes no balance but those of the accounts it uncaches.
LEMMA BalanceKept ==
  ASSUME TypeOK, Shape, UsualOnly, NEW p \in Sessions, Commits(p)
  PROVE  \E S : /\ Uncache(S) /\ Noticed(p, S)
                /\ S \subseteq On(plan[p]) \cup OldAccounts(p)
                /\ \A a \in Accounts \ S : Balance(a)' = Balance(a)
<1>1. CASE CommitPosting(p)
  <2> DEFINE T == On(plan[p]) \cup OldAccounts(p)
  <2>1. Uncache(T) /\ Noticed(p, T)
    BY <1>1 DEF CommitPosting
  <2>2. PICK g \in Postings :
          /\ phase[g] = "none"
          /\ phase' = [h \in Postings |->
                IF h = g THEN "active" ELSE IF h = row[p] THEN "deleted" ELSE phase[h]]
          /\ money' = [money EXCEPT ![g] = plan[p]]
    BY <1>1 DEF CommitPosting
  <2>3. ASSUME NEW a \in Accounts \ T
        PROVE  Balance(a)' = Balance(a)
    <3>1. plan[p][a] = NoEntry /\ (row[p] # NoPosting => money[row[p]][a] = NoEntry)
      BY <2>3 DEF OldAccounts, On
    <3>2. ASSUME NEW h \in Postings
          PROVE  h \in Balance(a)' <=> h \in Balance(a)
      <4>1. CASE h = g
        BY <2>2, <3>1, <4>1 DEF Balance, TypeOK
      <4>2. CASE h # g /\ h = row[p]
        BY <2>2, <3>1, <4>2, LedgerAssumption DEF Balance, TypeOK
      <4>3. CASE h # g /\ h # row[p]
        BY <2>2, <4>3 DEF Balance, TypeOK
      <4>4. QED  BY <4>1, <4>2, <4>3
    <3>3. QED  BY <3>2, BalanceTyped
  <2>4. QED  BY <2>1, <2>3
<1>2. CASE CommitDelete(p)
  <2>1. Uncache(OldAccounts(p)) /\ Noticed(p, OldAccounts(p))
    BY <1>2 DEF CommitDelete
  <2>2. /\ phase' = [phase EXCEPT ![row[p]] = "deleted"] /\ UNCHANGED money
        /\ row[p] # NoPosting
    BY <1>2 DEF CommitDelete, Locked, Shape
  <2>3. ASSUME NEW a \in Accounts \ OldAccounts(p)
        PROVE  Balance(a)' = Balance(a)
    <3>1. money[row[p]][a] = NoEntry
      BY <2>2, <2>3 DEF OldAccounts, On
    <3>2. QED  BY <2>2, <3>1 DEF Balance, TypeOK
  <2>4. QED  BY <2>1, <2>3
<1>3. CASE CommitManage(p)
  <2>1. PICK a \in On(plan[p]) : Uncache({a}) /\ Noticed(p, {a})
    BY <1>3 DEF CommitManage
  <2>2. \A b : Balance(b)' = Balance(b)
    BY <1>3 DEF CommitManage, postingVars, Balance
  <2>3. QED  BY <2>1, <2>2
<1>4. CASE CommitPurge(p)
  BY <1>4 DEF CommitPurge, Locked, UsualOnly
<1>5. QED  BY <1>1, <1>2, <1>3, <1>4 DEF Commits

LEMMA BalanceUntouched ==
  ASSUME NEW p \in Sessions, Acts(p), ~Commits(p)
  PROVE  \A a : Balance(a)' = Balance(a)
  BY OnlyCommitsWrite DEF Balance, postingVars

\* The cache changes otherwise only when a read fills in what it summed.
LEMMA CacheWrites ==
  ASSUME UsualOnly, NEW p \in Sessions, Acts(p), ~Commits(p), ~Fill(p)
  PROVE  UNCHANGED cacheVars
  BY DEF UsualOnly, Acts, Commits, Start, StartPost, StartCorrect, StartDelete, StartManage,
         StartPurge, StartRebuild, StartRead, Begin, Advance, LockAccount, Refuse, PassOver,
         Abort, Rollback, Return, BeginPurge, CommitRebuild, Locked, Recheck,
         AnswerFromRecheck, Answer, Sum

LEMMA CacheStep ==
  ASSUME TypeOK, Shape, CInv, NEW p \in Sessions, Acts(p)
  PROVE  CacheExact'
<1>1. CASE Commits(p)
  <2>1. PICK S : Uncache(S) /\ \A a \in Accounts \ S : Balance(a)' = Balance(a)
    BY <1>1, BalanceKept DEF CInv
  <2>2. ASSUME NEW a \in cached'
        PROVE  cache'[a] = Balance(a)'
    <3>1. a \in cached /\ a \in Accounts \ S
      BY <2>1, <2>2 DEF Uncache, TypeOK
    <3>2. cache'[a] = cache[a]
      BY <2>1, <3>1 DEF Uncache
    <3>3. QED  BY <2>1, <3>1, <3>2 DEF CInv, CacheExact
  <2>3. QED  BY <2>2 DEF CacheExact
<1>2. CASE Fill(p)
  <2>1. op[p] = "read" /\ pc[p] = "filling"
    BY <1>2 DEF Fill, Shape, TypeOK
  <2>2. \A a \in holds[p] : snap[p][a] = Balance(a)
    BY <2>1 DEF CInv, ReadSound
  <2>3. /\ cached' = cached \cup holds[p]
        /\ cache' = [a \in Accounts |-> IF a \in holds[p] THEN snap[p][a] ELSE cache[a]]
    BY <1>2 DEF Fill
  <2>4. \A a : Balance(a)' = Balance(a)
    BY <1>2 DEF Fill, Answer, postingVars, Balance
  <2>5. QED  BY <2>2, <2>3, <2>4 DEF CInv, CacheExact, TypeOK
<1>3. CASE ~Commits(p) /\ ~Fill(p)
  BY <1>3, CacheWrites, BalanceUntouched DEF CInv, CacheExact, cacheVars
<1>4. QED  BY <1>1, <1>2, <1>3

\* A read keeps what it has seen while others act.
LEMMA ReadByOther ==
  ASSUME TypeOK, LocksExclude, Shape, Covered, CInv,
         NEW p \in Sessions, Acts(p), NEW q \in Sessions, q # p
  PROVE  ReadSound(q)'
<1>1. Keeps(q)
  BY OthersKeep
<1>2. SUFFICES ASSUME op[q] = "read"
               PROVE  /\ recent[q] \subseteq recent'[q]
                      /\ \A a \in On(plan[q]) : Balance(a)' \in recent'[q]
                      /\ \A a \in holds[q] : Balance(a)' = Balance(a)
  <2>1. On(plan[q])' = On(plan[q])
    BY <1>1 DEF Keeps, On
  <2>2. ReadSound(q)
    BY DEF CInv
  <2>3. CASE op[q] # "read"
    BY <1>1, <2>3 DEF ReadSound, Keeps
  <2>4. CASE op[q] = "read"
    BY <1>1, <1>2, <2>1, <2>2, <2>4 DEF ReadSound, Keeps
  <2>5. QED  BY <2>3, <2>4
<1>3. ReadSound(q)
  BY DEF CInv
<1>4. CASE Commits(p)
  <2>1. PICK S : /\ Noticed(p, S) /\ S \subseteq On(plan[p]) \cup OldAccounts(p)
                 /\ \A a \in Accounts \ S : Balance(a)' = Balance(a)
    BY <1>4, BalanceKept DEF CInv
  <2>2. recent'[q] = recent[q] \cup {Balance(a)' : a \in On(plan[q])}
    BY <1>2, <2>1 DEF Noticed
  <2>3. \A a \in holds[q] : a \in Accounts \ S
    BY <1>4, <2>1, CommitsHold DEF LocksExclude, TypeOK
  <2>4. QED  BY <2>1, <2>2, <2>3
<1>5. CASE ~Commits(p)
  <2>1. recent'[q] = recent[q]
    BY <1>5
    DEF TypeOK, Acts, Commits, Start, StartPost, StartCorrect, StartDelete, StartManage,
        StartPurge, StartRebuild, StartRead, Begin, Advance, LockAccount, Refuse, PassOver,
        Abort, Rollback, Return, BeginPurge, CommitRebuild, Recheck, AnswerFromRecheck,
        Answer, Sum, Fill
  <2>2. QED  BY <1>2, <1>3, <1>5, <2>1, BalanceUntouched DEF ReadSound
<1>6. QED  BY <1>4, <1>5

LEMMA ReadBySelf ==
  ASSUME TypeOK, Shape, CInv, NEW p \in Sessions, Acts(p)
  PROVE  ReadSound(p)'
<1>1. CASE StartRead(p)
  <2>1. PICK a \in Accounts :
          /\ pc' = [pc EXCEPT ![p] = IF a \in cached THEN "answered" ELSE "missed"]
          /\ plan' = [plan EXCEPT ![p] = [Blank EXCEPT ![a] = currency[a]]]
          /\ snap' = [snap EXCEPT ![p] = [NoSums EXCEPT ![a] = cache[a]]]
          /\ recent' = [recent EXCEPT ![p] = {Balance(a)}]
    BY <1>1 DEF StartRead
  <2>2. On(plan[p])' \subseteq {a}
    BY <2>1, OnSingleton DEF TypeOK, On
  <2>3. \A b : Balance(b)' = Balance(b)
    BY <1>1 DEF StartRead, postingVars, Balance
  <2>4. a \in cached => cache[a] = Balance(a)
    BY DEF CInv, CacheExact
  <2>5. /\ pc'[p] = IF a \in cached THEN "answered" ELSE "missed"
        /\ snap'[p][a] = cache[a]
        /\ recent'[p] = {Balance(a)}
    BY <2>1 DEF TypeOK, NoSums
  <2>6. QED  BY <2>2, <2>3, <2>4, <2>5 DEF ReadSound
<1>2. CASE op'[p] # "read"
  BY <1>2 DEF ReadSound
<1>3. CASE op[p] = "read" /\ op'[p] = "read" /\ ~Commits(p) /\ ~StartRead(p)
  <2>1. ReadSound(p) /\ pc[p] # "idle"
    BY <1>3 DEF CInv, Shape
  <2>2. ~Start(p) /\ ~Rollback(p)
    BY <1>3, <2>1
    DEF TypeOK, Start, StartPost, StartCorrect, StartDelete, StartManage, StartPurge,
        StartRebuild, Begin, Rollback, EndSession
  <2>3. UNCHANGED <<plan, recent>> /\ On(plan[p])' = On(plan[p])
    BY <1>3, <2>2
    DEF Acts, Commits, Advance, Abort, Refuse, Return, LockAccount, PassOver, BeginPurge,
        Locked, CommitRebuild, Recheck, AnswerFromRecheck, Answer, Sum, Fill, On
  <2>4. \A a : Balance(a)' = Balance(a)
    BY <1>3, BalanceUntouched
  <2>5. CASE LockAccount(p)
    <3>1. /\ pc'[p] = "locking" /\ pc[p] = "locking"
          /\ need[p] \cup holds[p] \subseteq need'[p] \cup holds'[p]
      BY <2>5 DEF LockAccount, TypeOK
    <3>2. QED  BY <1>3, <2>1, <2>3, <2>4, <3>1 DEF ReadSound
  <2>6. CASE Recheck(p)
    <3>1. PICK a \in On(plan[p]) :
            /\ pc' = [pc EXCEPT ![p] = IF a \in cached THEN "waiting" ELSE "locking"]
            /\ need' = [need EXCEPT ![p] = {a}]
            /\ snap' = [snap EXCEPT ![p] = [NoSums EXCEPT ![a] = cache[a]]]
      BY <2>6 DEF Recheck
    <3>2. On(plan[p]) \subseteq {a} /\ a \in Accounts
      BY <1>3, <2>1, <3>1, OnAccounts DEF ReadSound
    <3>3. /\ pc'[p] = IF a \in cached THEN "waiting" ELSE "locking"
          /\ need'[p] = {a} /\ snap'[p][a] = cache[a]
      BY <3>1, <3>2 DEF TypeOK, NoSums
    <3>4. a \in cached => cache[a] \in recent[p]
      BY <1>3, <2>1, <3>1 DEF CInv, CacheExact, ReadSound
    <3>5. QED  BY <1>3, <2>1, <2>3, <2>4, <3>2, <3>3, <3>4 DEF ReadSound
  <2>7. CASE AnswerFromRecheck(p)
    <3>1. pc[p] = "waiting" /\ pc'[p] = "answered" /\ UNCHANGED snap
      BY <2>7 DEF AnswerFromRecheck, Answer, TypeOK
    <3>2. QED  BY <1>3, <2>1, <2>3, <2>4, <3>1 DEF ReadSound
  <2>8. CASE Sum(p)
    <3>1. /\ pc[p] = "locking" /\ pc'[p] = "filling" /\ need[p] = {}
          /\ UNCHANGED <<need, holds>>
          /\ \A a \in holds[p] : snap'[p][a] = Balance(a)
      BY <2>8 DEF Sum, Locked, TypeOK
    <3>2. QED  BY <1>3, <2>1, <2>3, <2>4, <3>1 DEF ReadSound
  <2>9. CASE Fill(p)
    <3>1. pc[p] = "filling" /\ pc'[p] = "answered" /\ UNCHANGED snap
      BY <2>9 DEF Fill, Answer, TypeOK
    <3>2. \A a \in On(plan[p]) : snap[p][a] \in recent[p]
      BY <1>3, <2>1, <3>1 DEF ReadSound
    <3>3. QED  BY <1>3, <2>1, <2>3, <2>4, <3>1, <3>2 DEF ReadSound
  <2>10. QED
    BY <1>3, <2>2, <2>5, <2>6, <2>7, <2>8, <2>9
    DEF Acts, Commits, Advance, Abort, Refuse, Return, PassOver, BeginPurge, Locked,
        CommitRebuild
<1>4. op'[p] = "read" => StartRead(p) \/ (op[p] = "read" /\ ~Commits(p))
  BY DEF TypeOK, Acts, Commits, Start, StartPost, StartCorrect, StartDelete, StartManage,
         StartPurge, StartRebuild, Begin, Advance, Abort, Refuse, Return, Rollback,
         EndSession, CommitPosting, CommitDelete, CommitManage, CommitPurge, CommitRebuild,
         LockAccount, PassOver, BeginPurge, Recheck, AnswerFromRecheck, Answer, Sum, Fill
<1>5. QED  BY <1>1, <1>2, <1>3, <1>4

LEMMA CInvStep ==
  ASSUME Usual, IInv, CInv, [Next]_vars
  PROVE  CInv'
<1>1. ASSUME NEW p \in Sessions, Acts(p)
      PROVE  CInv'
  <2>1. UsualOnly' /\ CacheExact'
    BY <1>1, UsualStep, CacheStep DEF IInv, CInv
  <2>2. \A q \in Sessions : ReadSound(q)'
    BY <1>1, ReadByOther, ReadBySelf DEF IInv
  <2>3. QED  BY <2>1, <2>2 DEF CInv
<1>2. CASE UNCHANGED <<postingVars, cacheVars, sessionVars>>
  BY <1>2
  DEF CInv, UsualOnly, CacheExact, ReadSound, Balance, On, postingVars, cacheVars,
      sessionVars
<1>3. QED  BY <1>1, <1>2 DEF Next, Acts, OpenAccount, vars

LEMMA CInvInit == Init => CInv
  BY DEF Init, CInv, UsualOnly, CacheExact, ReadSound

\* A committed cache row is the exact sum of the active postings of its
\* account, as long as no rebuild and no account deletion runs.
THEOREM CacheIsExact ==
  ASSUME Usual
  PROVE  Spec => []CacheExact
<1>1. IInv /\ CInv /\ [Next]_vars => CInv'
  BY CInvStep
<1>2. CInv => CacheExact
  BY DEF CInv
<1>3. QED  BY <1>1, <1>2, CInvInit, Invariance, PTL DEF Spec

\* As long as no rebuild and no account deletion runs, the answer of
\* balance_of is a balance that the account had during the request.
THEOREM ReadsAreRecent ==
  ASSUME Usual
  PROVE  Spec => []ReadsRecent
<1>1. IInv /\ CInv /\ [Next]_vars => CInv'
  BY CInvStep
<1>2. IInv /\ CInv => ReadsRecent
  BY DEF IInv, TypeOK, Places, Shape, CInv, ReadSound, ReadsRecent
<1>3. QED  BY <1>1, <1>2, CInvInit, Invariance, PTL DEF Spec

-----------------------------------------------------------------------------
(* Proof that Ledger implements MemoryLedger: the requests of concurrent   *)
(* sessions amount to the units of work of the in-memory adapters, for any *)
(* number of accounts, postings, currencies and sessions, and for every    *)
(* kind of request.                                                        *)

\* A request that posts has something to post.
PlansPost == \A p \in Sessions : op[p] \in {"post", "correct"} => On(plan[p]) # {}

LEMMA PlansPostInit == Init => PlansPost
  BY DEF Init, PlansPost

LEMMA StartPlansPost ==
  ASSUME TypeOK, NEW p \in Sessions, Start(p), op'[p] \in {"post", "correct"}
  PROVE  On(plan'[p]) # {}
<1>1. CASE StartPost(p) \/ StartCorrect(p)
  <2>1. PICK kind, m, original, accounts :
            On(m) # {} /\ Begin(p, kind, m, original, accounts)
    BY <1>1 DEF StartPost, StartCorrect
  <2>2. plan'[p] = m
    BY <2>1 DEF Begin, TypeOK
  <2>3. QED  BY <2>1, <2>2
<1>2. CASE StartDelete(p) \/ StartManage(p) \/ StartPurge(p) \/ StartRebuild(p)
  <2>1. PICK kind \in {"delete", "manage", "purge", "rebuild"} :
            \E m, original, accounts : Begin(p, kind, m, original, accounts)
    BY <1>2 DEF StartDelete, StartManage, StartPurge, StartRebuild
  <2>2. op'[p] = kind
    BY <2>1 DEF Begin, TypeOK
  <2>3. QED  BY <2>2
<1>3. CASE StartRead(p)
  BY <1>3 DEF StartRead, TypeOK
<1>4. QED  BY <1>1, <1>2, <1>3 DEF Start

LEMMA PlansPostStep == IInv /\ PlansPost /\ [Next]_vars => PlansPost'
<1> SUFFICES ASSUME IInv, PlansPost, [Next]_vars PROVE PlansPost'
  OBVIOUS
<1>1. ASSUME NEW p \in Sessions, Acts(p)
      PROVE  PlansPost'
  <2> SUFFICES ASSUME NEW q \in Sessions, op'[q] \in {"post", "correct"}
               PROVE  On(plan'[q]) # {}
    BY DEF PlansPost, On
  <2>1. CASE q # p
    <3>1. Keeps(q)
      BY <1>1, <2>1, OthersKeep DEF IInv
    <3>2. QED  BY <3>1 DEF Keeps, PlansPost
  <2>2. CASE q = p /\ Start(p)
    BY <2>2, StartPlansPost DEF IInv
  <2>3. CASE q = p /\ EndSession(p)
    BY <2>3 DEF EndSession, IInv, TypeOK
  <2>4. CASE q = p /\ GoesOn(p)
    BY <2>4 DEF GoesOn, PlansPost
  <2>5. CASE q = p /\ Starts(p) /\ ~Start(p)
    <3>1. pc[p] # "idle"
      BY <1>1, <2>5
      DEF Acts, Advance, Abort, LockAccount, Refuse, PassOver, CommitPosting, CommitDelete,
          CommitManage, BeginPurge, CommitPurge, CommitRebuild, Recheck,
          AnswerFromRecheck, Sum, Fill, Return, Locked
    <3>2. QED  BY <2>5, <3>1 DEF Starts
  <2>6. QED  BY <1>1, <2>1, <2>2, <2>3, <2>4, <2>5, StepKinds DEF IInv
<1>2. CASE UNCHANGED vars
  BY <1>2 DEF PlansPost, On, vars, sessionVars
<1>3. ASSUME NEW a \in Accounts, NEW c \in Currencies, OpenAccount(a, c)
      PROVE  PlansPost'
  BY <1>3 DEF OpenAccount, PlansPost, On, sessionVars
<1>4. QED  BY <1>1, <1>2, <1>3 DEF Next, Acts

-----------------------------------------------------------------------------
(* The two modules read the tables alike.                                  *)

LEMMA SameReads ==
  /\ \A m : Memory!On(m) = On(m)
  /\ \A m : Memory!IsTransfer(m) = IsTransfer(m)
  /\ \A a : Memory!Exists(a) = Exists(a)
  /\ \A a : Memory!FindByAccount(a) = PostingsOn(a)
  /\ \A a : Memory!HasTransactions(a) = HasHistory(a)
  /\ Memory!Plans = Plans /\ Memory!Blank = Blank
<1>1. \A m : Memory!On(m) = On(m)
  BY DEF Memory!On, On, Memory!NoEntry, NoEntry
<1>2. \A m : Memory!IsTransfer(m) = IsTransfer(m)
  BY <1>1 DEF Memory!IsTransfer, IsTransfer
<1>3. \A a : Memory!FindByAccount(a) = PostingsOn(a)
  BY DEF Memory!FindByAccount, PostingsOn, Memory!NoEntry, NoEntry
<1>4. \A a : Memory!HasTransactions(a) = HasHistory(a)
  BY <1>3 DEF Memory!HasTransactions, HasHistory, PostingsOn
<1>5. QED
  BY <1>1, <1>2, <1>3, <1>4
  DEF Memory!Exists, Exists, Memory!Plans, Plans, Memory!Blank, Blank,
      Memory!NoEntry, NoEntry

LEMMA InitIsSerial == Init => Memory!Init
  BY DEF Init, Memory!Init, Memory!Blank, Blank, Memory!NoEntry, NoEntry,
         Memory!NoPosting, NoPosting

-----------------------------------------------------------------------------
(* Every commit is a unit of work.                                         *)

\* What a commit writes to the rows of the posting f and of its original.
Inserts(p, f) ==
    /\ phase[f] = "none"
    /\ \A h \in Postings : h < f => phase[h] # "none"
    /\ phase' = [h \in Postings |->
           IF h = f THEN "active" ELSE IF h = row[p] THEN "deleted" ELSE phase[h]]
    /\ money' = [money EXCEPT ![f] = plan[p]]
    /\ corrects' = [corrects EXCEPT ![f] = row[p]]
    /\ UNCHANGED <<account, currency>>

LEMMA PlanMatches ==
  ASSUME IInv, NEW p \in Sessions, CommitPosting(p)
  PROVE  /\ Memory!MatchesAccounts(plan[p])
         /\ \A a \in On(plan[p]) :
               account[a] = "open" \/ (op[p] = "correct" /\ a \in OldAccounts(p))
<1>1. \A a \in On(plan[p]) : Exists(a) /\ currency[a] = plan[p][a]
  BY PlanAdmitted DEF IInv
<1>2. QED  BY <1>1, PlanAdmitted, SameReads DEF Memory!MatchesAccounts, IInv

LEMMA PostIsSerial ==
  ASSUME IInv, PlansPost, NEW p \in Sessions, CommitPosting(p), op[p] = "post",
         NEW f \in Postings, Inserts(p, f)
  PROVE  Memory!IsNext(f) /\ Memory!Create(f)
<1> DEFINE m == plan[p]
<1>1. m \in Plans /\ On(m) # {} /\ row[p] = NoPosting
  BY DEF IInv, TypeOK, Shape, PlansPost
<1>2. Memory!IsNext(f)
  BY DEF Inserts, Memory!IsNext
<1>3. phase' = Memory!Inserted(phase, f)
  BY <1>1, LedgerAssumption DEF Inserts, Memory!Inserted, IInv, TypeOK
<1>4. corrects' = corrects
  <2>1. corrects[f] = NoPosting
    BY DEF Inserts, IInv, CorrectionsSound
  <2>2. QED  BY <1>1, <2>1 DEF Inserts, IInv, TypeOK
<1>5. \A a \in Memory!On(m) : account[a] = "open"
  BY PlanMatches, SameReads
<1>6. CASE IsTransfer(m)
  <2>1. Memory!SaveTransfer(f, m)
    BY <1>6, PlanMatches, SameReads DEF Memory!SaveTransfer, Inserts
  <2>2. Memory!CreateTransfer(f, m)
    BY <1>3, <1>4, <1>5, <2>1 DEF Memory!CreateTransfer, Inserts
  <2>3. QED  BY <1>1, <1>2, <2>2, SameReads DEF Memory!Create
<1>7. CASE ~IsTransfer(m)
  <2>1. Memory!SaveSingle(f, m)
    BY <1>1, <1>7, PlanMatches, SameReads DEF Memory!SaveSingle, Inserts
  <2>2. Memory!CreateTransaction(f, m)
    BY <1>3, <1>4, <1>5, <2>1 DEF Memory!CreateTransaction, Inserts
  <2>3. QED  BY <1>1, <1>2, <2>2, SameReads DEF Memory!Create
<1>8. QED  BY <1>6, <1>7

LEMMA CorrectIsSerial ==
  ASSUME IInv, PlansPost, NEW p \in Sessions, CommitPosting(p), op[p] = "correct",
         NEW f \in Postings, Inserts(p, f)
  PROVE  Memory!IsNext(f) /\ Memory!Correct(f, row[p]) /\ row[p] \in Postings
<1> DEFINE m == plan[p]
           o == row[p]
<1>1. m \in Plans /\ On(m) # {}
  BY DEF IInv, TypeOK, PlansPost
<1>2. o \in Postings /\ o # NoPosting /\ phase[o] = "active" /\ o # f
  BY DEF IInv, TypeOK, Shape, OriginalsLive, Inserts
<1>3. IsTransfer(m) = IsTransfer(money[o])
  BY <1>2 DEF IInv, OriginalsLive
<1>4. Memory!IsNext(f)
  BY DEF Inserts, Memory!IsNext
<1>5. phase' = Memory!SoftDeleted(Memory!Inserted(phase, f), o)
  BY <1>2 DEF Inserts, Memory!SoftDeleted, Memory!Inserted, IInv, TypeOK
<1>6. phase' = Memory!SoftDeletedTransfer(Memory!Inserted(phase, f), o)
  BY <1>2 DEF Inserts, Memory!SoftDeletedTransfer, Memory!Inserted, IInv, TypeOK
<1>7. ~Memory!IsCorrected(o)
  BY <1>2 DEF Memory!IsCorrected, IInv, CorrectionsSound
<1>8. OldAccounts(p) = On(money[o])
  BY <1>2 DEF OldAccounts
<1>9. \A a \in On(m) \ On(money[o]) : account[a] = "open"
  BY <1>8, PlanMatches
<1>10. \A a \in On(money[o]) \cup On(m) : Exists(a)
  <2>1. \A a \in On(money[o]) : Exists(a)
    BY <1>2 DEF IInv, RowsMatchAccounts, On
  <2>2. \A a \in On(m) : Exists(a)
    BY PlanAdmitted DEF IInv
  <2>3. QED  BY <2>1, <2>2
<1>11. CASE IsTransfer(m)
  <2>1. Memory!SaveTransfer(f, m)
    BY <1>11, PlanMatches, SameReads DEF Memory!SaveTransfer, Inserts
  <2>2. Memory!SaveTransferCorrection(f, m, o)
    BY <1>6, <1>7, <2>1 DEF Memory!SaveTransferCorrection, Inserts
  <2>3. Memory!CorrectTransfer(f, m, o)
    BY <1>2, <1>3, <1>9, <1>10, <1>11, <2>2, SameReads DEF Memory!CorrectTransfer, Memory!Live, Inserts
  <2>4. QED  BY <1>1, <1>2, <1>4, <2>3, SameReads DEF Memory!Correct
<1>12. CASE ~IsTransfer(m)
  <2>1. Memory!SaveSingle(f, m)
    BY <1>1, <1>12, PlanMatches, SameReads DEF Memory!SaveSingle, Inserts
  <2>2. Memory!SaveCorrection(f, m, o)
    BY <1>2, <1>3, <1>5, <1>7, <1>12, <2>1, SameReads DEF Memory!SaveCorrection, Memory!Live, Inserts
  <2>3. Memory!CorrectTransaction(f, m, o)
    BY <1>9, <1>10, <2>2, SameReads DEF Memory!CorrectTransaction, Inserts
  <2>4. QED  BY <1>1, <1>2, <1>4, <2>3, SameReads DEF Memory!Correct
<1>13. QED  BY <1>11, <1>12
LEMMA PostingIsSerial ==
  ASSUME IInv, PlansPost, NEW p \in Sessions, CommitPosting(p)
  PROVE  Memory!RunTransaction
<1>1. PICK f \in Postings : Inserts(p, f)
  BY DEF CommitPosting, Inserts, accountVars
<1>2. op[p] \in {"post", "correct"}
  BY DEF CommitPosting, Locked
<1>3. CASE op[p] = "post"
  BY <1>1, <1>3, PostIsSerial DEF Memory!RunTransaction
<1>4. CASE op[p] = "correct"
  BY <1>1, <1>4, CorrectIsSerial DEF Memory!RunTransaction
<1>5. QED  BY <1>2, <1>3, <1>4

LEMMA DeleteIsSerial ==
  ASSUME IInv, NEW p \in Sessions, CommitDelete(p)
  PROVE  Memory!RunTransaction
<1> DEFINE g == row[p]
<1>1. g \in Postings /\ phase[g] = "active"
  BY DEF CommitDelete, Locked, IInv, TypeOK, Shape, OriginalsLive
<1>2. \A a \in On(money[g]) : Exists(a)
  BY <1>1 DEF IInv, RowsMatchAccounts, On
<1>3. phase' = [phase EXCEPT ![g] = "deleted"] /\ UNCHANGED <<account, currency, money, corrects>>
  BY DEF CommitDelete, accountVars
<1>4. CASE IsTransfer(money[g])
  <2>1. Memory!DeleteTransfer(g)
    BY <1>1, <1>2, <1>3, <1>4, SameReads DEF Memory!DeleteTransfer, Memory!Live, Memory!SoftDeletedTransfer
  <2>2. QED  BY <1>1, <2>1 DEF Memory!RunTransaction
<1>5. CASE ~IsTransfer(money[g])
  <2>1. Memory!DeleteTransaction(g)
    BY <1>1, <1>3, <1>5, SameReads DEF Memory!DeleteTransaction, Memory!Live, Memory!SoftDeleted
  <2>2. QED  BY <1>1, <2>1 DEF Memory!RunTransaction
<1>6. QED  BY <1>4, <1>5

LEMMA ManageIsSerial ==
  ASSUME IInv, NEW p \in Sessions, CommitManage(p)
  PROVE  Memory!RunTransaction
<1>1. PICK a \in On(plan[p]), s \in {"open", "archived"} :
        /\ account' = [account EXCEPT ![a] = s]
        /\ currency' = [currency EXCEPT ![a] = plan[p][a]]
        /\ s # account[a] => plan[p][a] = currency[a]
  BY DEF CommitManage
<1>2. a \in Accounts /\ plan[p][a] \in Currencies
  BY DEF On, IInv, TypeOK, Plans
<1>3. Admits(p, a)
  BY CommitsHold DEF Commits, IInv, Checked
<1>4. Exists(a) /\ (plan[p][a] # currency[a] => ~HasHistory(a))
  BY <1>3 DEF Admits, On, CommitManage, Locked
<1>5. UNCHANGED <<phase, money, corrects>>
  BY DEF CommitManage, postingVars
<1>6. Memory!SaveAccount(a, s, plan[p][a])
  BY <1>1 DEF Memory!SaveAccount
<1>7. Memory!Manage(a)
  <2>1. CASE s = account[a]
    BY <1>2, <1>4, <1>5, <1>6, <2>1, SameReads DEF Memory!Manage, Memory!UpdateAccount
  <2>2. CASE s # account[a] /\ s = "archived"
    BY <1>1, <1>4, <1>5, <1>6, <2>2 DEF Memory!Manage, Memory!ArchiveAccount, Exists
  <2>3. CASE s # account[a] /\ s = "open"
    BY <1>1, <1>4, <1>5, <1>6, <2>3 DEF Memory!Manage, Memory!RestoreAccount, Exists
  <2>4. QED  BY <2>1, <2>2, <2>3
<1>8. QED  BY <1>2, <1>7 DEF Memory!RunTransaction

LEMMA PurgeIsSerial ==
  ASSUME IInv, NEW p \in Sessions, CommitPurge(p)
  PROVE  Memory!RunTransaction
<1>1. PICK a \in On(plan[p]) :
        /\ phase' = [g \in Postings |-> IF g \in PostingsOn(a) THEN "purged" ELSE phase[g]]
        /\ money' = [g \in Postings |-> IF g \in PostingsOn(a) THEN Blank ELSE money[g]]
        /\ corrects' = [g \in Postings |->
              IF {g, corrects[g]} \cap PostingsOn(a) # {} THEN NoPosting ELSE corrects[g]]
        /\ account' = [account EXCEPT ![a] = "gone"]
        /\ currency' = [currency EXCEPT ![a] = NoEntry]
  BY DEF CommitPurge
<1>2. a \in Accounts /\ Exists(a)
  BY CommitsHold DEF Commits, IInv, Checked, Admits, On
<1>3. Memory!TransfersTouching(a) \cup Memory!SinglesOn(a) = PostingsOn(a)
  BY SameReads DEF Memory!TransfersTouching, Memory!SinglesOn
<1>4. Memory!DropLinks(PostingsOn(a))
  BY <1>1 DEF Memory!DropLinks, Memory!NoPosting, NoPosting
<1>5. Memory!SaveAccount(a, "gone", Memory!NoEntry)
  BY <1>1 DEF Memory!SaveAccount, Memory!NoEntry, NoEntry
<1>6. Memory!DeleteAccount(a)
  BY <1>1, <1>2, <1>3, <1>4, <1>5, SameReads DEF Memory!DeleteAccount
<1>7. QED  BY <1>2, <1>6 DEF Memory!RunTransaction, Memory!Manage

LEMMA OpenIsSerial ==
  ASSUME NEW a \in Accounts, NEW c \in Currencies, OpenAccount(a, c)
  PROVE  Memory!RunTransaction
<1>1. Memory!CreateAccount(a, c)
  BY DEF OpenAccount, Memory!CreateAccount, Memory!SaveAccount, postingVars
<1>2. QED  BY <1>1 DEF Memory!RunTransaction, Memory!Manage

LEMMA StepIsSerial ==
  IInv /\ PlansPost /\ [Next]_vars => [Memory!RunTransaction]_(Memory!vars)
<1> SUFFICES ASSUME IInv, PlansPost, [Next]_vars
             PROVE  Memory!RunTransaction \/ UNCHANGED Memory!vars
  OBVIOUS
<1>1. ASSUME NEW p \in Sessions, Acts(p)
      PROVE  Memory!RunTransaction \/ UNCHANGED Memory!vars
  <2>1. CASE ~Commits(p)
    BY <1>1, <2>1, OnlyCommitsWrite DEF Memory!vars, accountVars, postingVars
  <2>2. CASE Commits(p)
    BY <2>2, PostingIsSerial, DeleteIsSerial, ManageIsSerial, PurgeIsSerial DEF Commits
  <2>3. QED  BY <2>1, <2>2
<1>2. CASE UNCHANGED vars
  BY <1>2 DEF vars, accountVars, postingVars, Memory!vars
<1>3. QED  BY <1>1, <1>2, OpenIsSerial DEF Next, Acts

\* What concurrent requests do to the tables is what the in-memory ledger does
\* with one unit of work after the other: requests that lock with NOWAIT, wait,
\* fail or die half-way, account deletions and rebuilds included.
THEOREM Serial == Spec => MemorySpec
<1>1. Spec => [](IInv /\ PlansPost)
  <2>1. Init => IInv /\ PlansPost
    BY IInvInit, PlansPostInit
  <2>2. IInv /\ PlansPost /\ [Next]_vars => (IInv /\ PlansPost)'
    BY IInvStep, PlansPostStep
  <2>3. QED  BY <2>1, <2>2, PTL DEF Spec
<1>2. QED
  BY <1>1, InitIsSerial, StepIsSerial, PTL DEF Spec, MemorySpec, Memory!Spec

=============================================================================
