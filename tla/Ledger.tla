------------------------------- MODULE Ledger -------------------------------
(***************************************************************************)
(* The ledger of one user: accounts, postings and the balance cache, as    *)
(* concurrent database transactions change and read them.                  *)
(*                                                                         *)
(* A posting is what the use cases create, correct and delete as one: a    *)
(* single transaction, or a transfer with all rows of its group.  An       *)
(* action is a statement that locks or reads, or the rest of a transaction *)
(* once all its locks are held: what a transaction writes is invisible     *)
(* until it commits.  Statements run under READ COMMITTED, each on the     *)
(* snapshot of its own start; a statement that first takes its snapshot    *)
(* and then locks rows is therefore split at every lock.                   *)
(***************************************************************************)
EXTENDS Naturals, FiniteSets

CONSTANTS
    Accounts,    \* account ids
    Postings,    \* posting ids, in the order of insertion
    Currencies,
    Sessions,    \* database sessions of concurrent requests
    Ops          \* kinds of request that occur

NoEntry == "no entry"   \* the posting has no row on that account
NoPosting == 0
Kinds == {"post", "correct", "delete", "manage", "purge", "read", "rebuild"}
Places == {"idle", "locking", "missed", "waiting", "filling", "answered"}

ASSUME LedgerAssumption ==
    /\ Accounts \subseteq Nat
    /\ Postings \subseteq Nat \ {NoPosting}
    /\ NoEntry \notin Currencies
    /\ Ops \subseteq Kinds

VARIABLES
    \* table accounts
    account, currency,
    \* tables transactions and transfer_groups; the correction tables
    phase, money, corrects,
    \* table account_balance_cache: the accounts with a row, and the postings
    \* whose sum the row holds
    cached, cache,
    \* one request per session
    op, pc,
    plan,     \* what the request writes on which account
    row,      \* the posting whose rows it has locked
    need,     \* accounts still to be locked by the current statement
    holds,    \* accounts it has locked
    snap,     \* snapshot of its last read: the active postings per account
    visible,  \* cache rows that its running statement can see
    recent    \* auxiliary: balances its account had since the request began

accountVars == <<account, currency>>
postingVars == <<phase, money, corrects>>
cacheVars == <<cached, cache>>
sessionVars == <<op, pc, plan, row, need, holds, snap, visible, recent>>
vars == <<accountVars, postingVars, cacheVars, sessionVars>>

Blank == [a \in Accounts |-> NoEntry]
Plans == [Accounts -> Currencies \cup {NoEntry}]
NoSums == [a \in Accounts |-> {}]

\* The accounts on which m has rows, and whether m is a transfer.
On(m) == {a \in Accounts : m[a] # NoEntry}
IsTransfer(m) == \E a, b \in On(m) : a # b

\* SUM(amount) ... WHERE account_id = a AND deleted_at IS NULL.
Balance(a) == {g \in Postings : phase[g] = "active" /\ money[g][a] # NoEntry}

TypeOK ==
    /\ account \in [Accounts -> {"none", "open", "archived", "gone"}]
    /\ currency \in [Accounts -> Currencies \cup {NoEntry}]
    /\ phase \in [Postings -> {"none", "active", "deleted", "purged"}]
    /\ money \in [Postings -> Plans]
    /\ corrects \in [Postings -> Postings \cup {NoPosting}]
    /\ cached \subseteq Accounts
    /\ cache \in [Accounts -> SUBSET Postings]
    /\ op \in [Sessions -> Kinds \cup {"none", "purging"}]
    /\ pc \in [Sessions -> Places]
    /\ plan \in [Sessions -> Plans]
    /\ row \in [Sessions -> Postings \cup {NoPosting}]
    /\ need \in [Sessions -> SUBSET Accounts]
    /\ holds \in [Sessions -> SUBSET Accounts]
    /\ snap \in [Sessions -> [Accounts -> SUBSET Postings]]
    /\ visible \in [Sessions -> SUBSET Accounts]
    /\ recent \in [Sessions -> SUBSET (SUBSET Postings)]
    /\ \A p \in Sessions :
          pc[p] = "idle" => holds[p] = {} /\ row[p] = NoPosting

Init ==
    /\ account = [a \in Accounts |-> "none"]
    /\ currency = Blank
    /\ phase = [g \in Postings |-> "none"]
    /\ money = [g \in Postings |-> Blank]
    /\ corrects = [g \in Postings |-> NoPosting]
    /\ cached = {}
    /\ cache = NoSums
    /\ op = [p \in Sessions |-> "none"]
    /\ pc = [p \in Sessions |-> "idle"]
    /\ plan = [p \in Sessions |-> Blank]
    /\ row = [p \in Sessions |-> NoPosting]
    /\ need = [p \in Sessions |-> {}]
    /\ holds = [p \in Sessions |-> {}]
    /\ snap = [p \in Sessions |-> NoSums]
    /\ visible = [p \in Sessions |-> {}]
    /\ recent = [p \in Sessions |-> {}]

-----------------------------------------------------------------------------
(* Locks and rows.                                                         *)

Exists(a) == account[a] \in {"open", "archived"}

\* Mutation: locks that do not exclude each other.
AlwaysFree(a) == TRUE

Free(a) == \A q \in Sessions : a \notin holds[q]
RowFree(g) == \A q \in Sessions : row[q] # g

\* Account locks are taken in ascending order of the ids.
\* Mutation: in any order.
AnyNeeded(p, a) == a \in need[p]
FirstNeeded(p, a) == a \in need[p] /\ \A b \in need[p] : a <= b

\* The accounts that the posting locked by p has rows on.
OldAccounts(p) == IF row[p] = NoPosting THEN {} ELSE On(money[row[p]])

\* DELETE FROM account_balance_cache for the accounts S.
\* Mutation: no cache row is deleted.
KeepCache(S) == UNCHANGED cacheVars
Uncache(S) ==
    /\ cached' = cached \ S
    /\ cache' = [a \in Accounts |-> IF a \in S THEN {} ELSE cache[a]]

\* The request is over: commit or rollback releases every lock.
EndSession(p) ==
    /\ op' = [op EXCEPT ![p] = "none"]
    /\ pc' = [pc EXCEPT ![p] = "idle"]
    /\ plan' = [plan EXCEPT ![p] = Blank]
    /\ row' = [row EXCEPT ![p] = NoPosting]
    /\ need' = [need EXCEPT ![p] = {}]
    /\ holds' = [holds EXCEPT ![p] = {}]
    /\ snap' = [snap EXCEPT ![p] = NoSums]

\* The request ends without an effect.
Rollback(p) ==
    /\ EndSession(p)
    /\ visible' = [visible EXCEPT ![p] = {}]
    /\ recent' = [recent EXCEPT ![p] = {}]
    /\ UNCHANGED <<accountVars, postingVars, cacheVars>>

\* The commit of p, which deleted the cache rows S, as others notice it: the
\* rows leave the view of statements that could still delete them, and the
\* readers' accounts may have a new balance.
Noticed(p, S) ==
    /\ visible' = [q \in Sessions |-> IF q = p THEN {} ELSE visible[q] \ S]
    /\ recent' = [q \in Sessions |->
           IF op[q] = "read"
           THEN recent[q] \cup {Balance(a)' : a \in On(plan[q])} ELSE {}]

-----------------------------------------------------------------------------
(* A request begins.                                                       *)

Begin(p, kind, what, original, accounts) ==
    /\ kind \in Ops
    /\ pc[p] = "idle"
    /\ op' = [op EXCEPT ![p] = kind]
    /\ pc' = [pc EXCEPT ![p] = "locking"]
    /\ plan' = [plan EXCEPT ![p] = what]
    /\ row' = [row EXCEPT ![p] = original]
    /\ need' = [need EXCEPT ![p] = accounts]
    /\ UNCHANGED <<accountVars, postingVars, cacheVars, holds, visible, recent>>

\* CreateAccount: one insert, without a lock on anything that exists.
OpenAccount(a, c) ==
    /\ account[a] = "none"
    /\ \A b \in Accounts : b < a => account[b] # "none"
    /\ account' = [account EXCEPT ![a] = "open"]
    /\ currency' = [currency EXCEPT ![a] = c]
    /\ UNCHANGED <<postingVars, cacheVars, sessionVars>>

\* Bound: every write in progress can still get a fresh posting id.
Room == Cardinality({g \in Postings : phase[g] = "none"})
          > Cardinality({q \in Sessions : op[q] \in {"post", "correct"}})

\* CreateTransaction and CreateTransfer.
StartPost(p) ==
    \E m \in Plans :
        /\ Room
        /\ On(m) # {}
        /\ Begin(p, "post", m, NoPosting, On(m))
        /\ UNCHANGED snap

\* CorrectTransaction and CorrectTransfer: lock the original NOWAIT, refuse it
\* when it is deleted or already corrected, keep its kind.
StartCorrect(p) ==
    \E g \in Postings, m \in Plans :
        /\ Room
        /\ phase[g] = "active"
        /\ RowFree(g)
        /\ \A r \in Postings : corrects[r] # g
        /\ On(m) # {}
        /\ IsTransfer(m) = IsTransfer(money[g])
        /\ Begin(p, "correct", m, g, On(money[g]) \cup On(m))
        /\ UNCHANGED snap

\* DeleteTransaction and DeleteTransfer: lock the posting NOWAIT.
StartDelete(p) ==
    \E g \in Postings :
        /\ phase[g] = "active"
        /\ RowFree(g)
        /\ Begin(p, "delete", Blank, g, On(money[g]))
        /\ UNCHANGED snap

\* ArchiveAccount, RestoreAccount and UpdateAccount; plan carries the currency.
StartManage(p) ==
    \E a \in Accounts, c \in Currencies :
        /\ Begin(p, "manage", [Blank EXCEPT ![a] = c], NoPosting, {a})
        /\ UNCHANGED snap

\* DeleteAccount; plan names the account.
StartPurge(p) ==
    \E a \in Accounts, c \in Currencies :
        /\ c = currency[a]
        /\ Begin(p, "purge", [Blank EXCEPT ![a] = c], NoPosting, {a})
        /\ UNCHANGED snap

\* RebuildBalanceCache, of one account or of all: the snapshot of its only
\* statement is taken before the statement locks the accounts.
StartRebuild(p) ==
    \E S \in {{a} : a \in Accounts} \cup {Accounts} :
        LET found == {a \in S : Exists(a)}
        IN  /\ found # {}
            /\ Begin(p, "rebuild", Blank, NoPosting, found)
            /\ snap' = [snap EXCEPT ![p] =
                   [a \in Accounts |-> IF a \in found THEN Balance(a) ELSE {}]]

\* balance_of, first statement: a cache row is the answer.
StartRead(p) ==
    /\ "read" \in Ops
    /\ pc[p] = "idle"
    /\ \E a \in Accounts :
        /\ Exists(a)
        /\ op' = [op EXCEPT ![p] = "read"]
        /\ pc' = [pc EXCEPT ![p] = IF a \in cached THEN "answered" ELSE "missed"]
        /\ plan' = [plan EXCEPT ![p] = [Blank EXCEPT ![a] = currency[a]]]
        /\ snap' = [snap EXCEPT ![p] = [NoSums EXCEPT ![a] = cache[a]]]
        /\ recent' = [recent EXCEPT ![p] = {Balance(a)}]
    /\ UNCHANGED <<accountVars, postingVars, cacheVars, row, need, holds, visible>>

-----------------------------------------------------------------------------
(* Locks.                                                                  *)

\* Mutation: has_transactions asks for active rows only.
HasActive(a) == Balance(a) # {}

\* has_transactions: deleted rows count as well.
HasHistory(a) ==
    \E g \in Postings : phase[g] \in {"active", "deleted"} /\ money[g][a] # NoEntry

\* What the use case demands of account a when it has locked it.
Admits(p, a) ==
    /\ Exists(a)
    /\ plan[p][a] # NoEntry =>
         \/ op[p] = "post" /\ account[a] = "open" /\ plan[p][a] = currency[a]
         \/ /\ op[p] = "correct"
            /\ account[a] = "open" \/ a \in OldAccounts(p)
            /\ plan[p][a] = currency[a]
         \/ op[p] = "manage" /\ (plan[p][a] = currency[a] \/ ~HasHistory(a))
         \/ op[p] \in {"purge", "purging", "read"}

\* find_by_id_for_update, and the locks inside the statements that take several.
LockAccount(p) ==
    /\ pc[p] = "locking"
    /\ \E a \in Accounts :
        /\ FirstNeeded(p, a)
        /\ Free(a)
        /\ Admits(p, a)
        /\ need' = [need EXCEPT ![p] = @ \ {a}]
        /\ holds' = [holds EXCEPT ![p] = @ \cup {a}]
    /\ UNCHANGED <<accountVars, postingVars, cacheVars, op, pc, plan, row, snap,
                   visible, recent>>

\* NOWAIT meets a lock, or the locked account is refused.
Refuse(p) ==
    /\ pc[p] \in {"locking", "waiting"}
    /\ op[p] # "rebuild"
    /\ \E a \in Accounts :
        /\ FirstNeeded(p, a)
        /\ \/ ~Free(a) /\ op[p] # "read"
           \/ Free(a) /\ ~Admits(p, a)
    /\ Rollback(p)

\* A rebuild passes over an account that was deleted while it waited.
PassOver(p) ==
    /\ pc[p] = "locking"
    /\ op[p] = "rebuild"
    /\ \E a \in Accounts :
        /\ FirstNeeded(p, a)
        /\ Free(a)
        /\ ~Exists(a)
        /\ need' = [need EXCEPT ![p] = @ \ {a}]
    /\ UNCHANGED <<accountVars, postingVars, cacheVars, op, pc, plan, row, holds,
                   snap, visible, recent>>

\* Any statement may fail, any process may die: the database rolls back.
Abort(p) == pc[p] # "idle" /\ Rollback(p)

-----------------------------------------------------------------------------
(* Writes: the rest of a transaction that holds its locks.                 *)

\* Mutation: the transaction goes on before it holds its locks.
Unlocked(p, kind) == pc[p] = "locking" /\ op[p] = kind

Locked(p, kind) == pc[p] = "locking" /\ op[p] = kind /\ need[p] = {}

\* save_single, save_transfer; for a correction also the soft delete of the
\* original and the link, with the cache rows of every account involved.
CommitPosting(p) ==
    /\ Locked(p, "post") \/ Locked(p, "correct")
    /\ \E g \in Postings :
        /\ phase[g] = "none"
        /\ \A h \in Postings : h < g => phase[h] # "none"
        /\ phase' = [h \in Postings |->
               IF h = g THEN "active" ELSE IF h = row[p] THEN "deleted" ELSE phase[h]]
        /\ money' = [money EXCEPT ![g] = plan[p]]
        /\ corrects' = [corrects EXCEPT ![g] = row[p]]
    /\ LET touched == On(plan[p]) \cup OldAccounts(p)
       IN  Uncache(touched) /\ Noticed(p, touched)
    /\ EndSession(p)
    /\ UNCHANGED accountVars

\* soft_delete, soft_delete_transfer.
CommitDelete(p) ==
    /\ Locked(p, "delete")
    /\ phase' = [phase EXCEPT ![row[p]] = "deleted"]
    /\ UNCHANGED <<accountVars, money, corrects>>
    /\ Uncache(OldAccounts(p))
    /\ Noticed(p, OldAccounts(p))
    /\ EndSession(p)

\* save of an existing account drops its cache row as well.
CommitManage(p) ==
    /\ Locked(p, "manage")
    /\ UNCHANGED postingVars
    /\ \E a \in On(plan[p]), s \in {"open", "archived"} :
        /\ account' = [account EXCEPT ![a] = s]
        /\ currency' = [currency EXCEPT ![a] = plan[p][a]]
        /\ s # account[a] => plan[p][a] = currency[a]
        /\ Uncache({a})
        /\ Noticed(p, {a})
    /\ EndSession(p)

\* The postings with a row on a, and the accounts of the transfers among them.
PostingsOn(a) == {g \in Postings : /\ phase[g] \in {"active", "deleted"}
                                  /\ money[g][a] # NoEntry}
Affected(a) == UNION {On(money[g]) : g \in {h \in PostingsOn(a) : IsTransfer(money[h])}}

\* physical_delete_transfers_touching_account begins: its statement sees the
\* cache rows of this moment, then locks the accounts NOWAIT.
BeginPurge(p) ==
    /\ Locked(p, "purge")
    /\ op' = [op EXCEPT ![p] = "purging"]
    /\ need' = [need EXCEPT ![p] = (UNION {Affected(a) : a \in On(plan[p])}) \ holds[p]]
    /\ visible' = [visible EXCEPT ![p] = cached]
    /\ UNCHANGED <<accountVars, postingVars, cacheVars, pc, plan, row, holds, snap,
                   recent>>

\* ... and deletes transfers and cache rows, waiting for locked rows; then
\* physical_delete_by_account, delete_balance_cache and physical_delete.  The
\* correction links of a posting go with it.
CommitPurge(p) ==
    /\ Locked(p, "purging")
    /\ \E a \in On(plan[p]) :
        /\ \A g \in PostingsOn(a) : RowFree(g)
        /\ phase' = [g \in Postings |-> IF g \in PostingsOn(a) THEN "purged" ELSE phase[g]]
        /\ money' = [g \in Postings |-> IF g \in PostingsOn(a) THEN Blank ELSE money[g]]
        /\ corrects' = [g \in Postings |->
               IF {g, corrects[g]} \cap PostingsOn(a) # {} THEN NoPosting ELSE corrects[g]]
        /\ account' = [account EXCEPT ![a] = "gone"]
        /\ currency' = [currency EXCEPT ![a] = NoEntry]
        /\ LET dropped == (holds[p] \cap visible[p]) \cup {a}
           IN  Uncache(dropped) /\ Noticed(p, dropped)
    /\ EndSession(p)

\* rebuild_balance_cache upserts what its snapshot summed.
CommitRebuild(p) ==
    /\ Locked(p, "rebuild")
    /\ cached' = cached \cup holds[p]
    /\ cache' = [a \in Accounts |-> IF a \in holds[p] THEN snap[p][a] ELSE cache[a]]
    /\ EndSession(p)
    /\ UNCHANGED <<accountVars, postingVars, visible, recent>>

-----------------------------------------------------------------------------
(* balance_of after a miss.                                                *)

\* SELECT ... FOR UPDATE OF account: the cache row is the one of the snapshot,
\* whatever happens while the statement waits for the lock.
Recheck(p) ==
    /\ pc[p] = "missed"
    /\ \E a \in On(plan[p]) :
        /\ pc' = [pc EXCEPT ![p] = IF a \in cached THEN "waiting" ELSE "locking"]
        /\ need' = [need EXCEPT ![p] = {a}]
        /\ snap' = [snap EXCEPT ![p] = [NoSums EXCEPT ![a] = cache[a]]]
    /\ UNCHANGED <<accountVars, postingVars, cacheVars, op, plan, row, holds,
                   visible, recent>>

\* The transaction ends with an answer.
Answer(p) ==
    /\ pc' = [pc EXCEPT ![p] = "answered"]
    /\ need' = [need EXCEPT ![p] = {}]
    /\ holds' = [holds EXCEPT ![p] = {}]
    /\ UNCHANGED <<accountVars, postingVars, op, plan, row, snap, visible, recent>>

\* The lock is there, and the snapshot had a cache row after all.
AnswerFromRecheck(p) ==
    /\ pc[p] = "waiting"
    /\ \E a \in need[p] : Free(a) /\ Exists(a)
    /\ Answer(p)
    /\ UNCHANGED cacheVars

\* Under the lock: the sum, by a statement of its own ...
Sum(p) ==
    /\ Locked(p, "read")
    /\ pc' = [pc EXCEPT ![p] = "filling"]
    /\ snap' = [snap EXCEPT ![p] =
           [a \in Accounts |-> IF a \in holds[p] THEN Balance(a) ELSE {}]]
    /\ UNCHANGED <<accountVars, postingVars, cacheVars, op, plan, row, need, holds,
                   visible, recent>>

\* ... then the upsert of the cache row, and the commit.
Fill(p) ==
    /\ pc[p] = "filling"
    /\ cached' = cached \cup holds[p]
    /\ cache' = [a \in Accounts |-> IF a \in holds[p] THEN snap[p][a] ELSE cache[a]]
    /\ Answer(p)

Return(p) == pc[p] = "answered" /\ Rollback(p)

-----------------------------------------------------------------------------

Start(p) ==
    \/ StartPost(p) \/ StartCorrect(p) \/ StartDelete(p) \/ StartManage(p)
    \/ StartPurge(p) \/ StartRebuild(p) \/ StartRead(p)

Advance(p) ==
    \/ LockAccount(p) \/ Refuse(p) \/ PassOver(p)
    \/ CommitPosting(p) \/ CommitDelete(p) \/ CommitManage(p)
    \/ BeginPurge(p) \/ CommitPurge(p) \/ CommitRebuild(p)
    \/ Recheck(p) \/ AnswerFromRecheck(p) \/ Sum(p) \/ Fill(p) \/ Return(p)

Next ==
    \/ \E a \in Accounts, c \in Currencies : OpenAccount(a, c)
    \/ \E p \in Sessions : Start(p) \/ Advance(p) \/ Abort(p)

Spec == Init /\ [][Next]_vars

\* A transaction that can go on goes on; PostgreSQL queues lock requests, so a
\* statement whose lock is free again and again gets it.
FairSpec == Spec /\ \A p \in Sessions : SF_vars(Advance(p))

-----------------------------------------------------------------------------
(* Properties.                                                             *)

\* A committed cache row is the exact sum of the active postings of its
\* account: what balance_of trusts when it answers from the row alone.
CacheExact == \A a \in cached : cache[a] = Balance(a)

\* The answer of balance_of is a balance the account had at some moment of the
\* request, whatever commits between its statements.
ReadsRecent ==
    \A p \in Sessions : pc[p] = "answered" =>
        \A a \in On(plan[p]) : snap[p][a] \in recent[p]

\* Every row of a posting, deleted ones included, is on an account that exists
\* and carries its currency: currency changes, postings and account deletions
\* never cross (find_by_id_for_update before has_transactions and save).
RowsMatchAccounts ==
    \A g \in Postings, a \in Accounts :
        (phase[g] \in {"active", "deleted"} /\ money[g][a] # NoEntry) =>
            Exists(a) /\ currency[a] = money[g][a]

\* A posting is corrected at most once, its replacement is of the same kind,
\* and it is no longer active: its amount never counts twice.
CorrectionsSound ==
    \A g \in Postings : corrects[g] # NoPosting =>
        /\ phase[g] \in {"active", "deleted"}
        /\ phase[corrects[g]] = "deleted"
        /\ IsTransfer(money[g]) = IsTransfer(money[corrects[g]])
        /\ \A h \in Postings : corrects[h] = corrects[g] => h = g

\* The rows of postings, accounts and corrections fit together.
PostingsSound == TypeOK /\ RowsMatchAccounts /\ CorrectionsSound

\* Nothing new is ever posted to an archived account, not even by a request
\* that saw it open before it was archived; a correction may stay on an
\* archived account of its original.
ArchivedTakesNothingNew ==
    [][\A g \in Postings : (phase[g] = "none" /\ phase'[g] # "none") =>
          \A a \in On(money'[g]) :
              \/ account[a] = "open"
              \/ /\ corrects'[g] # NoPosting
                 /\ account[a] = "archived"
                 /\ money[corrects'[g]][a] # NoEntry]_vars

\* The requests of all sessions amount to units of work done one after the
\* other, as the in-memory adapters do them under their mutex: whatever a commit
\* was checked for statements ago still holds when it is made.
Memory == INSTANCE MemoryLedger
MemorySpec == Memory!Spec

\* Every request ends: ascending lock order and NOWAIT leave no cycle of
\* transactions that wait for each other.
RequestsEnd == \A p \in Sessions : pc[p] # "idle" ~> pc[p] = "idle"

=============================================================================
