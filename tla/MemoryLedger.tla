---------------------------- MODULE MemoryLedger ----------------------------
(***************************************************************************)
(* The ledger of one user as the in-memory adapters keep it.  Their store  *)
(* has one mutex; a unit of work holds it from its first read to its last  *)
(* write, stages what it writes and merges it only when all went well.  So *)
(* a use case is one step: its checks, its write, or nothing.  The same    *)
(* use cases run on PostgreSQL with row locks in place of the mutex; this  *)
(* is what they are meant to do there.                                     *)
(***************************************************************************)
EXTENDS Naturals

CONSTANTS
    Accounts,     \* account ids
    Postings,     \* ids of transactions and of transfer groups
    Currencies

VARIABLES
    account,      \* "none", "open", "archived" or "gone"
    currency,     \* currency of an account
    phase,        \* "none", "active", "deleted" or "purged"
    money,        \* the currency of a posting's row on each account
    corrects      \* the posting that it replaced

vars == <<account, currency, phase, money, corrects>>

NoEntry == "no entry"
NoPosting == 0
Blank == [a \in Accounts |-> NoEntry]
Plans == [Accounts -> Currencies \cup {NoEntry}]

Init ==
    /\ account = [a \in Accounts |-> "none"]
    /\ currency = Blank
    /\ phase = [g \in Postings |-> "none"]
    /\ money = [g \in Postings |-> Blank]
    /\ corrects = [g \in Postings |-> NoPosting]

-----------------------------------------------------------------------------
(* What the use cases read.                                                *)

On(m) == {a \in Accounts : m[a] # NoEntry}
IsTransfer(m) == \E a, b \in On(m) : a # b

\* find_by_id, find_by_id_for_user, find_by_id_for_update.
Exists(a) == account[a] \in {"open", "archived"}

\* find_by_account with include_deleted, and has_transactions on top of it.
FindByAccount(a) ==
    {g \in Postings : phase[g] \in {"active", "deleted"} /\ money[g][a] # NoEntry}
HasTransactions(a) == FindByAccount(a) # {}

\* make_transfer_snapshot: a transfer counts as deleted when all its rows are.
Live(g) == phase[g] = "active"

\* merged_corrections, merged_transfer_corrections.
IsCorrected(g) == \E r \in Postings : corrects[r] = g

\* ensure_account_matches_transaction, for every row of a posting.
MatchesAccounts(m) == \A a \in On(m) : Exists(a) /\ currency[a] = m[a]

\* The next id of the store.
IsNext(g) == phase[g] = "none" /\ \A h \in Postings : h < g => phase[h] # "none"

-----------------------------------------------------------------------------
(* What the repositories stage.                                            *)

SaveSingle(g, m) ==
    /\ On(m) # {}
    /\ ~IsTransfer(m)
    /\ MatchesAccounts(m)
    /\ money' = [money EXCEPT ![g] = m]

SaveTransfer(g, m) ==
    /\ IsTransfer(m)
    /\ MatchesAccounts(m)
    /\ money' = [money EXCEPT ![g] = m]

\* The phases f once the rows of g are inserted, or marked as deleted.
Inserted(f, g) == [f EXCEPT ![g] = "active"]
SoftDeleted(f, g) == [f EXCEPT ![g] = "deleted"]
SoftDeletedTransfer(f, g) == [f EXCEPT ![g] = "deleted"]

SaveCorrection(g, m, original) ==
    /\ Live(original)
    /\ ~IsTransfer(money[original])
    /\ ~IsCorrected(original)
    /\ SaveSingle(g, m)
    /\ phase' = SoftDeleted(Inserted(phase, g), original)
    /\ corrects' = [corrects EXCEPT ![g] = original]

SaveTransferCorrection(g, m, original) ==
    /\ ~IsCorrected(original)
    /\ SaveTransfer(g, m)
    /\ phase' = SoftDeletedTransfer(Inserted(phase, g), original)
    /\ corrects' = [corrects EXCEPT ![g] = original]

SaveAccount(a, status, c) ==
    /\ account' = [account EXCEPT ![a] = status]
    /\ currency' = [currency EXCEPT ![a] = c]

\* The transfers with a row on a go with their rows on other accounts, then
\* the rows of a itself.
TransfersTouching(a) == {g \in FindByAccount(a) : IsTransfer(money[g])}
SinglesOn(a) == FindByAccount(a) \ TransfersTouching(a)

\* The links of deleted postings, as originals or as replacements.
DropLinks(S) ==
    corrects' = [g \in Postings |->
        IF {g, corrects[g]} \cap S # {} THEN NoPosting ELSE corrects[g]]

-----------------------------------------------------------------------------
(* The use cases.                                                          *)

CreateAccount(a, c) ==
    /\ account[a] = "none"
    /\ \A b \in Accounts : b < a => account[b] # "none"
    /\ SaveAccount(a, "open", c)
    /\ UNCHANGED <<phase, money, corrects>>

\* Nothing is posted to an archived account.
CreateTransaction(g, m) ==
    /\ \A a \in On(m) : account[a] = "open"
    /\ SaveSingle(g, m)
    /\ phase' = Inserted(phase, g)
    /\ UNCHANGED <<account, currency, corrects>>

CreateTransfer(g, m) ==
    /\ \A a \in On(m) : account[a] = "open"
    /\ SaveTransfer(g, m)
    /\ phase' = Inserted(phase, g)
    /\ UNCHANGED <<account, currency, corrects>>

\* A replacement may stay on an archived account of its original.
CorrectTransaction(g, m, original) ==
    /\ \A a \in On(money[original]) \cup On(m) : Exists(a)
    /\ \A a \in On(m) \ On(money[original]) : account[a] = "open"
    /\ SaveCorrection(g, m, original)
    /\ UNCHANGED <<account, currency>>

CorrectTransfer(g, m, original) ==
    /\ Live(original)
    /\ IsTransfer(money[original])
    /\ \A a \in On(money[original]) \cup On(m) : Exists(a)
    /\ \A a \in On(m) \ On(money[original]) : account[a] = "open"
    /\ SaveTransferCorrection(g, m, original)
    /\ UNCHANGED <<account, currency>>

DeleteTransaction(g) ==
    /\ Live(g)
    /\ ~IsTransfer(money[g])
    /\ phase' = SoftDeleted(phase, g)
    /\ UNCHANGED <<account, currency, money, corrects>>

DeleteTransfer(g) ==
    /\ Live(g)
    /\ IsTransfer(money[g])
    /\ \A a \in On(money[g]) : Exists(a)
    /\ phase' = SoftDeletedTransfer(phase, g)
    /\ UNCHANGED <<account, currency, money, corrects>>

\* The currency of an account with any row, deleted ones included, stays.
UpdateAccount(a, c) ==
    /\ Exists(a)
    /\ c # currency[a] => ~HasTransactions(a)
    /\ SaveAccount(a, account[a], c)
    /\ UNCHANGED <<phase, money, corrects>>

ArchiveAccount(a) ==
    /\ account[a] = "open"
    /\ SaveAccount(a, "archived", currency[a])
    /\ UNCHANGED <<phase, money, corrects>>

RestoreAccount(a) ==
    /\ account[a] = "archived"
    /\ SaveAccount(a, "open", currency[a])
    /\ UNCHANGED <<phase, money, corrects>>

DeleteAccount(a) ==
    /\ Exists(a)
    /\ LET purged == TransfersTouching(a) \cup SinglesOn(a)
       IN  /\ phase' = [g \in Postings |-> IF g \in purged THEN "purged" ELSE phase[g]]
           /\ money' = [g \in Postings |-> IF g \in purged THEN Blank ELSE money[g]]
           /\ DropLinks(purged)
    /\ SaveAccount(a, "gone", NoEntry)

-----------------------------------------------------------------------------

Manage(a) ==
    \/ \E c \in Currencies : UpdateAccount(a, c) \/ CreateAccount(a, c)
    \/ ArchiveAccount(a) \/ RestoreAccount(a) \/ DeleteAccount(a)

\* A posting with a new id: m is what it writes.
Create(g) ==
    \E m \in Plans : CreateTransaction(g, m) \/ CreateTransfer(g, m)
Correct(g, original) ==
    \E m \in Plans :
        CorrectTransaction(g, m, original) \/ CorrectTransfer(g, m, original)

\* run_transaction: one unit of work at a time, all that it staged or nothing.
RunTransaction ==
    \/ \E a \in Accounts : Manage(a)
    \/ \E g \in Postings : DeleteTransaction(g) \/ DeleteTransfer(g)
    \/ \E g \in Postings : IsNext(g) /\ Create(g)
    \/ \E g, original \in Postings : IsNext(g) /\ Correct(g, original)

Spec == Init /\ [][RunTransaction]_vars

=============================================================================
