------------------------------- MODULE Rates -------------------------------
(***************************************************************************)
(* The exchange-rate job under its lease: several servers list the         *)
(* currencies in use, ask one provider and then another, and append the    *)
(* rates to a table from which nothing is ever deleted.                    *)
(* Sources: refresh_exchange_rates_use_case.h,                             *)
(* exchange_rate_providers.cpp, exchange_rate_repository_impl.cpp,         *)
(* postgres_active_currency_query.cpp; the lease is JobLease.              *)
(*                                                                         *)
(* Rates are against USD, which is no member of Currencies.  Of a provider *)
(* only its answer is known: the currencies it names, and those of them    *)
(* whose rate is a positive NUMERIC(20,10).  Of a rate only its existence  *)
(* matters here; what conversions make of it is the subject of Figures.    *)
(***************************************************************************)
EXTENDS JobLease

CONSTANT Currencies

VARIABLES
    active,     \* currencies of open accounts and of users
    rated,      \* currencies with a row in exchange_rates
    run         \* the refresh a host performs: the currencies it is about,
                \* those it has appended or found an old rate of, and whether
                \* it has found one of each so far

rateVars == <<active, rated, run>>
allVars == <<leaseVars, rateVars>>

NoRun == [at |-> "list", targets |-> {}, seen |-> {}, available |-> TRUE]

RatesTypeOK ==
    /\ active \subseteq Currencies
    /\ rated \subseteq Currencies
    /\ \A h \in Hosts :
        /\ run[h].at \in {"list", "primary", "fallback", "append", "check", "stored", "alerted", "over"}
        /\ run[h].seen \subseteq run[h].targets
        /\ doing[h] # "acting" => run[h] = NoRun

RatesInit ==
    /\ LeaseInit
    /\ active \in SUBSET Currencies
    /\ rated = {}
    /\ run = [h \in Hosts |-> NoRun]

----------------------------------------------------------------------------
(* The run of host h, which goes on although its lease may be over. *)
At(h, place) == doing[h] = "acting" /\ run[h].at = place

Turn(h, next) ==
    /\ run' = [run EXCEPT ![h] = next]
    /\ UNCHANGED <<leaseVars, active>>

(* To the run's next stage, *)
GoTo(h, place) ==
    /\ run' = [run EXCEPT ![h] = [NoRun EXCEPT !.at = place, !.targets = run[h].targets]]
    /\ UNCHANGED <<leaseVars, active, rated>>

(* or to its end, without a result. *)
Over(h) == run' = [run EXCEPT ![h] = [NoRun EXCEPT !.at = "over"]] /\ UNCHANGED <<leaseVars, active, rated>>

List(h) ==
    /\ At(h, "list")
    /\ IF active = {}
       THEN Over(h)
       ELSE /\ Turn(h, [NoRun EXCEPT !.at = "primary", !.targets = active])
            /\ UNCHANGED rated

(* FreeCurrencyApiProvider: exactly the currencies asked for, all of them valid. *)
ExactAnswer(targets, named, valid) == named = targets /\ valid = targets

(* ExchangeRateFunProvider answers with more than it was asked for. *)
AmpleAnswer(targets, named, valid) == targets \subseteq named /\ targets \subseteq valid

Primary(h) ==
    /\ At(h, "primary")
    /\ \E named \in SUBSET Currencies : \E valid \in SUBSET named :
        ExactAnswer(run[h].targets, named, valid)
    /\ GoTo(h, "append")

(* No answer in time, an error, or an answer that is not accepted. *)
PrimaryFails(h) == At(h, "primary") /\ GoTo(h, "fallback")

Fallback(h) ==
    /\ At(h, "fallback")
    /\ \E named \in SUBSET Currencies : \E valid \in SUBSET named :
        AmpleAnswer(run[h].targets, named, valid)
    /\ GoTo(h, "append")

FallbackFails(h) == At(h, "fallback") /\ GoTo(h, "check")

(* One transaction inserts the rates one after the other, *)
AppendRate(h) ==
    /\ At(h, "append")
    /\ \E c \in run[h].targets \ run[h].seen :
        Turn(h, [run[h] EXCEPT !.seen = @ \cup {c}])
    /\ UNCHANGED rated

\* Mutation: each insert is its own transaction.
StoreEach(h) ==
    /\ At(h, "append")
    /\ rated' = rated \cup run[h].seen
    /\ Turn(h, [run[h] EXCEPT !.at = "stored"])

Store(h) ==
    /\ At(h, "append")
    /\ run[h].seen = run[h].targets
    /\ rated' = rated \cup run[h].seen
    /\ Turn(h, [run[h] EXCEPT !.at = "stored"])

(* The commit takes effect, and its reply is lost: the run reports an error. *)
StoreUnheard(h) ==
    /\ At(h, "append")
    /\ run[h].seen = run[h].targets
    /\ rated' = rated \cup run[h].seen
    /\ Turn(h, [NoRun EXCEPT !.at = "over"])

(* When an insert fails none is kept. *)
AppendFails(h) == At(h, "append") /\ Over(h)

(* Both providers failed: is there an old rate for each currency?  One query *)
(* each, with no transaction around them.                                    *)
CheckHistory(h) ==
    /\ At(h, "check")
    /\ \E c \in run[h].targets \ run[h].seen :
        Turn(h, [run[h] EXCEPT !.seen = @ \cup {c}, !.available = @ /\ c \in rated])
    /\ UNCHANGED rated

(* The transaction of ExchangeRateRefreshFailedEvent. *)
Alert(h) ==
    /\ At(h, "check")
    /\ run[h].seen = run[h].targets
    /\ Turn(h, [run[h] EXCEPT !.at = "alerted"])
    /\ UNCHANGED rated

(* A query of list_active_currencies or find_latest, or the alert, fails. *)
RunFails(h) ==
    /\ At(h, "list") \/ At(h, "check")
    /\ Over(h)

----------------------------------------------------------------------------
(* The lease around it. *)
EndRun(h) ==
    /\ At(h, "stored") \/ At(h, "alerted") \/ At(h, "over")
    /\ EndAction(h)
    /\ run' = [run EXCEPT ![h] = NoRun]
    /\ UNCHANGED <<active, rated>>

CrashInRun(h) ==
    /\ Crash(h)
    /\ run' = [run EXCEPT ![h] = NoRun]
    /\ UNCHANGED <<active, rated>>

LeaseStep ==
    /\ \/ \E h \in Hosts :
            \/ Ask(h) \/ Grant(h) \/ GrantUnheard(h) \/ Refuse(h) \/ AskFails(h)
            \/ Release(h) \/ ReleaseFails(h) \/ Lapse(h)
       \/ LapseUnheld
    /\ UNCHANGED rateVars

(* Accounts are opened and archived, and users change their base currency. *)
ActiveChanges ==
    /\ \E c \in Currencies :
        active' = IF c \in active THEN active \ {c} ELSE active \cup {c}
    /\ UNCHANGED <<leaseVars, rated, run>>

RunStep(h) ==
    \/ List(h) \/ Primary(h) \/ PrimaryFails(h) \/ Fallback(h) \/ FallbackFails(h)
    \/ AppendRate(h) \/ Store(h) \/ StoreUnheard(h) \/ AppendFails(h)
    \/ CheckHistory(h) \/ Alert(h) \/ RunFails(h)

RatesNext ==
    \/ \E h \in Hosts : RunStep(h) \/ EndRun(h) \/ CrashInRun(h)
    \/ LeaseStep
    \/ ActiveChanges

RatesSpec == RatesInit /\ [][RatesNext]_allVars

(* What moves a host's run of the job on; every one of its steps has an end, *)
(* the HTTP calls having timeouts.                                           *)
Advance(h) ==
    \/ (Ask(h) \/ Refuse(h) \/ Release(h)) /\ UNCHANGED rateVars
    \/ RunStep(h) \/ EndRun(h)

\* Timers trigger runs, use cases end, time goes on, and a lease that can be
\* granted again and again is.
FairRates ==
    /\ RatesSpec
    /\ WF_allVars(\E h \in Hosts : Advance(h))
    /\ WF_allVars((LapseUnheld \/ \E h \in Hosts : Lapse(h)) /\ UNCHANGED rateVars)
    /\ SF_allVars((\E h \in Hosts : Grant(h)) /\ UNCHANGED rateVars)

----------------------------------------------------------------------------
(* A refresh stores a rate for each currency it was asked for or none at     *)
(* all, whichever provider answered and whatever the other server does; and  *)
(* an alert that says old rates cover the outage is true, although its       *)
(* queries are not one snapshot.                                             *)
RefreshSound ==
    /\ RatesTypeOK
    /\ \A h \in Hosts :
        /\ run[h].at = "stored" => run[h].seen = run[h].targets /\ run[h].seen \subseteq rated
        /\ run[h].at = "alerted" /\ run[h].available => run[h].targets \subseteq rated

============================================================================
