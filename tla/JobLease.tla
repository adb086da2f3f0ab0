------------------------------ MODULE JobLease ------------------------------
(***************************************************************************)
(* The lease of one scheduled job: the row of scheduled_job_leases, and    *)
(* the servers whose runs of the job ask for it and release it.  A server  *)
(* has one run of the job at a time (JobRuntime).                          *)
(*                                                                         *)
(* Time is the database's.  Only one fact about it matters, whether a      *)
(* lease has run out, and Lapse makes it true.  NOW() is the time at which *)
(* a statement starts, though it may then wait for the row: what it can    *)
(* take over is a lease that was over when it started (in time).           *)
(***************************************************************************)
EXTENDS Naturals, FiniteSets

CONSTANTS
    Hosts, Departed,    \* servers, and one that has restarted under another id
    Tokens, NoToken     \* gen_random_uuid()

ASSUME JobLeaseAssumption == Departed \notin Hosts /\ NoToken \notin Tokens

VARIABLES
    leaseToken, owner, live,    \* the row; live: lease_until is in the future
    doing,      \* a host is "idle", "asking", "acting" or "releasing"
    inTime,     \* the lease was over when the statement of a host started
    token,      \* what a host was granted
    over        \* the time of that lease has run out

rowVars == <<leaseToken, owner, live>>
leaseVars == <<rowVars, doing, inTime, token, over>>

LeaseTypeOK ==
    /\ leaseToken \in Tokens \cup {NoToken}
    /\ owner \in Hosts \cup {Departed}
    /\ live \in BOOLEAN
    /\ doing \in [Hosts -> {"idle", "asking", "acting", "releasing"}]
    /\ inTime \in [Hosts -> BOOLEAN]
    /\ token \in [Hosts -> Tokens \cup {NoToken}]
    /\ over \in [Hosts -> BOOLEAN]
    /\ \A h \in Hosts : token[h] # NoToken <=> doing[h] \in {"acting", "releasing"}
    /\ \A g, h \in Hosts : token[g] = token[h] => g = h \/ token[g] = NoToken

LeaseInit ==
    /\ leaseToken = NoToken
    /\ owner = Departed
    /\ live = FALSE
    /\ doing = [h \in Hosts |-> "idle"]
    /\ inTime = [h \in Hosts |-> FALSE]
    /\ token = [h \in Hosts |-> NoToken]
    /\ over = [h \in Hosts |-> FALSE]

-----------------------------------------------------------------------------

Fresh == Tokens \ ({leaseToken} \cup {token[h] : h \in Hosts})

\* Mutation: ON CONFLICT DO NOTHING.
NeverThere(h) == leaseToken = NoToken

\* No row, or WHERE lease.lease_until <= NOW().
Free(h) == inTime[h] /\ ~live

\* Mutation: release by the name of the job.
AnyLease(h) == TRUE

\* WHERE owner_id = $2 AND lease_token = $3.
OwnsLease(h) == owner = h /\ leaseToken = token[h]

\* A run of the job reaches try_acquire.
Ask(h) ==
    /\ doing[h] = "idle"
    /\ doing' = [doing EXCEPT ![h] = "asking"]
    /\ inTime' = [inTime EXCEPT ![h] = ~live]
    /\ UNCHANGED <<rowVars, token, over>>

\* The statement takes the lease; whoever waits for the row finds it changed.
TakeRow(h, t) ==
    /\ Free(h)
    /\ leaseToken' = t
    /\ owner' = h
    /\ live' = TRUE
    /\ inTime' = [g \in Hosts |-> FALSE]

Grant(h) ==
    /\ doing[h] = "asking"
    /\ \E t \in Fresh :
        /\ TakeRow(h, t)
        /\ token' = [token EXCEPT ![h] = t]
    /\ doing' = [doing EXCEPT ![h] = "acting"]
    /\ over' = [over EXCEPT ![h] = FALSE]

\* The statement takes effect, but its reply is lost: the run fails.
GrantUnheard(h) ==
    /\ doing[h] = "asking"
    /\ \E t \in Fresh : TakeRow(h, t)
    /\ doing' = [doing EXCEPT ![h] = "idle"]
    /\ UNCHANGED <<token, over>>

\* Another instance owns the lease: the run is skipped.
Refuse(h) ==
    /\ doing[h] = "asking"
    /\ ~Free(h)
    /\ doing' = [doing EXCEPT ![h] = "idle"]
    /\ UNCHANGED <<rowVars, inTime, token, over>>

AskFails(h) ==
    /\ doing[h] = "asking"
    /\ doing' = [doing EXCEPT ![h] = "idle"]
    /\ UNCHANGED <<rowVars, inTime, token, over>>

\* The use case is over, be it late.
EndAction(h) ==
    /\ doing[h] = "acting"
    /\ doing' = [doing EXCEPT ![h] = "releasing"]
    /\ UNCHANGED <<rowVars, inTime, token, over>>

Leave(h) ==
    /\ doing' = [doing EXCEPT ![h] = "idle"]
    /\ token' = [token EXCEPT ![h] = NoToken]
    /\ over' = [over EXCEPT ![h] = FALSE]

\* release; whether the host hears of it makes no difference.
Release(h) ==
    /\ doing[h] = "releasing"
    /\ live' = IF OwnsLease(h) THEN FALSE ELSE live
    /\ inTime' = [g \in Hosts |-> inTime[g] /\ ~OwnsLease(h)]
    /\ Leave(h)
    /\ UNCHANGED <<leaseToken, owner>>

ReleaseFails(h) ==
    /\ doing[h] = "releasing"
    /\ Leave(h)
    /\ UNCHANGED <<rowVars, inTime>>

\* A process dies and comes back with another scheduler instance id.
Crash(h) ==
    /\ doing[h] # "idle" \/ owner = h
    /\ Leave(h)
    /\ owner' = IF owner = h THEN Departed ELSE owner
    /\ UNCHANGED <<leaseToken, live, inTime>>

\* The time of the lease that h was granted runs out.
Lapse(h) ==
    /\ token[h] # NoToken /\ ~over[h]
    /\ over' = [over EXCEPT ![h] = TRUE]
    /\ live' = (live /\ leaseToken # token[h])
    /\ UNCHANGED <<leaseToken, owner, doing, inTime, token>>

\* ... or that of a lease that nobody knows of.
LapseUnheld ==
    /\ live
    /\ \A h \in Hosts : token[h] # leaseToken
    /\ live' = FALSE
    /\ UNCHANGED <<leaseToken, owner, doing, inTime, token, over>>

LeaseNext ==
    \/ \E h \in Hosts :
        \/ Ask(h) \/ Grant(h) \/ GrantUnheard(h) \/ Refuse(h) \/ AskFails(h)
        \/ EndAction(h) \/ Release(h) \/ ReleaseFails(h) \/ Crash(h) \/ Lapse(h)
    \/ LapseUnheld

LeaseSpec == LeaseInit /\ [][LeaseNext]_leaseVars

-----------------------------------------------------------------------------
(* Properties.                                                             *)

\* Within the time of its lease a host keeps it: no late release, restart or
\* waiting statement of another host takes it away.
HolderKeepsLease ==
    \A h \in Hosts :
        doing[h] = "acting" /\ ~over[h] => live /\ leaseToken = token[h] /\ owner = h

\* Of two hosts that run the job at the same time, one has outlived its lease.
AloneWithinLease ==
    \A g, h \in Hosts :
        doing[g] = "acting" /\ doing[h] = "acting" => g = h \/ over[g] \/ over[h]

\* A lease does what it is for.
LeaseSound == LeaseTypeOK /\ HolderKeepsLease /\ AloneWithinLease

\* Whoever crashes, forgets to release or never hears of its lease: the job is
\* run again.
JobActsAgain == []<>(\E h \in Hosts : doing[h] = "acting")

=============================================================================
