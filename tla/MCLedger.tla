------------------------------ MODULE MCLedger ------------------------------
(* Instances of Ledger for TLC.                                            *)
EXTENDS Ledger, TLC

\* Sessions are interchangeable, and so are currencies.
Symmetry == Permutations(Sessions) \cup Permutations(Currencies)

\* Reads take part in the scenes of one currency, the other requests in those
\* of two: what a read caches does not depend on how many currencies there are.
Scene ==
    \/ \A p \in Sessions : op[p] # "read"
    \/ Cardinality({currency[a] : a \in Accounts} \ {NoEntry}) <= 1

\* Requests that lock an account in one statement before they touch its
\* balance in another.
LockingOps == {"post", "correct", "delete", "manage", "read"}

\* The two statements that take their snapshot before their locks, each with
\* the requests it can miss.
RebuildOps == {"post", "rebuild"}
PurgeOps == {"post", "purge", "read"}

\* Every way to wait: for the accounts of a rebuild, for the account of a
\* balance, for locked rows of a purge.
WaitingOps == {"delete", "post", "purge", "read", "rebuild"}

=============================================================================
