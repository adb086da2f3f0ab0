----------------------------- MODULE JobRuntime -----------------------------
(***************************************************************************)
(* The recurring jobs of one server process: JobManager starts and stops   *)
(* them, timers trigger them, and the workers of the background pool run   *)
(* them.                                                                   *)
(*                                                                         *)
(* One thread, called main here, runs the event loop: start_all at its     *)
(* beginning, the timer callbacks, and after its end stop_all and the      *)
(* shutdown of the pool.  Critical sections of a job's mutex are actions;  *)
(* the pool is the one of TaskPool.                                        *)
(***************************************************************************)
EXTENDS Naturals, Sequences, FiniteSets

CONSTANTS
    JobCount, Workers, Capacity,
    Leased       \* jobs that run under a lease

Jobs == 1 .. JobCount    \* in the order of register_job
NoJob == 0

ASSUME JobRuntimeAssumption ==
    JobCount \in Nat \ {0} /\ Capacity \in Nat \ {0} /\ Leased \subseteq Jobs

VARIABLES
    phase,                        \* "starting", "looping" or "stopping"
    startedCount,
    call, target,                 \* what main does to which job
    started, stopping, running,   \* the flags of a job
    timer,                        \* jobs with a registered timer
    queue, work, open, joined,    \* the pool
    step                          \* where the run of a worker is

mainVars == <<phase, startedCount, call, target>>
flagVars == <<started, stopping, running, timer>>
poolVars == <<queue, work, open, joined>>
vars == <<mainVars, flagVars, poolVars, step>>

Pool == INSTANCE TaskPool WITH Tasks <- Jobs, NoTask <- NoJob

Executing == {"leasing", "acting", "releasing", "finishing"}

TypeOK ==
    /\ phase \in {"starting", "looping", "stopping"}
    /\ startedCount \in 0 .. JobCount
    /\ call \in {"none", "triggering", "submitting", "rejected", "waiting", "asleep"}
    /\ target \in Jobs \cup {NoJob}
    /\ call # "none" => target # NoJob
    /\ started \in [Jobs -> BOOLEAN]
    /\ stopping \in [Jobs -> BOOLEAN]
    /\ running \in [Jobs -> BOOLEAN]
    /\ timer \subseteq Jobs
    /\ queue \in Seq(Jobs)
    /\ work \in [Workers -> Jobs \cup {NoJob}]
    /\ open \in BOOLEAN /\ joined \in BOOLEAN
    /\ step \in [Workers -> Executing \cup {"idle", "notifying"}]
    /\ \A w \in Workers : work[w] = NoJob <=> step[w] = "idle"
    /\ \A j \in Jobs : stopping[j] => target = j /\ call \in {"waiting", "asleep"}

Init ==
    /\ phase = "starting"
    /\ startedCount = 0
    /\ call = "none"
    /\ target = NoJob
    /\ started = [j \in Jobs |-> FALSE]
    /\ stopping = [j \in Jobs |-> FALSE]
    /\ running = [j \in Jobs |-> FALSE]
    /\ timer = {}
    /\ Pool!Init
    /\ step = [w \in Workers |-> "idle"]

-----------------------------------------------------------------------------
(* The main thread.                                                        *)

\* The call into the job returns; start_all counts the job as started.
Done ==
    /\ call' = "none"
    /\ startedCount' = IF phase = "starting" THEN startedCount + 1 ELSE startedCount
    /\ UNCHANGED <<phase, target>>

\* start: set the flags and register the timer; then run at once.
StartJob ==
    LET j == startedCount + 1
    IN  /\ phase = "starting" /\ call = "none" /\ j \in Jobs
        /\ started' = [started EXCEPT ![j] = TRUE]
        /\ stopping' = [stopping EXCEPT ![j] = FALSE]
        /\ timer' = timer \cup {j}
        /\ target' = j
        /\ call' = "triggering"
        /\ UNCHANGED <<phase, startedCount, running, poolVars, step>>

\* A configuration is invalid or a timer cannot be registered: start_all stops
\* what it has started, and the process ends.
StartFails ==
    /\ phase = "starting" /\ call = "none" /\ startedCount < JobCount
    /\ phase' = "stopping"
    /\ UNCHANGED <<startedCount, call, target, flagVars, poolVars, step>>

AllStarted ==
    /\ phase = "starting" /\ call = "none" /\ startedCount = JobCount
    /\ phase' = "looping"
    /\ UNCHANGED <<startedCount, call, target, flagVars, poolVars, step>>

\* The timer of a job calls trigger_now.
Fire(j) ==
    /\ phase = "looping" /\ call = "none"
    /\ j \in timer
    /\ target' = j
    /\ call' = "triggering"
    /\ UNCHANGED <<phase, startedCount, flagVars, poolVars, step>>

MayRun(j) == ~stopping[j] /\ ~running[j]

\* trigger_now, under the mutex of the job ...
Trigger ==
    /\ call = "triggering"
    /\ IF MayRun(target)
       THEN /\ running' = [running EXCEPT ![target] = TRUE]
            /\ call' = "submitting"
            /\ UNCHANGED <<phase, startedCount, target>>
       ELSE Done /\ UNCHANGED running
    /\ UNCHANGED <<started, stopping, timer, poolVars, step>>

\* ... the submission to the pool ...
Submit ==
    /\ call = "submitting"
    /\ IF Pool!Accepts
       THEN Done /\ Pool!Submit(target)
       ELSE call' = "rejected" /\ UNCHANGED <<phase, startedCount, target, poolVars>>
    /\ UNCHANGED <<flagVars, step>>

\* Mutation: a rejected run keeps the job busy.
StayBusy ==
    /\ call = "rejected"
    /\ Done
    /\ UNCHANGED <<flagVars, poolVars, step>>

\* ... and finish_run, when the pool has rejected it.
GiveUp ==
    /\ call = "rejected"
    /\ running' = [running EXCEPT ![target] = FALSE]
    /\ Done
    /\ UNCHANGED <<started, stopping, timer, poolVars, step>>

\* SIGTERM ends the event loop.
Quit ==
    /\ phase = "looping" /\ call = "none"
    /\ phase' = "stopping"
    /\ UNCHANGED <<startedCount, call, target, flagVars, poolVars, step>>

MoreToStop == startedCount > 0

\* stop, in the reverse order of the starts: flags and timer ...
StopNext ==
    /\ phase = "stopping" /\ call = "none" /\ MoreToStop
    /\ startedCount' = startedCount - 1
    /\ UNCHANGED <<phase, running, poolVars, step>>
    /\ LET j == startedCount
       IN  IF started[j] \/ running[j]
           THEN /\ stopping' = [stopping EXCEPT ![j] = TRUE]
                /\ started' = [started EXCEPT ![j] = FALSE]
                /\ timer' = timer \ {j}
                /\ target' = j
                /\ call' = "waiting"
           ELSE UNCHANGED <<started, stopping, timer, target, call>>

\* Mutation: stop does not wait for the run.
NoWait ==
    /\ call = "waiting"
    /\ stopping' = [stopping EXCEPT ![target] = FALSE]
    /\ call' = "none"
    /\ UNCHANGED <<phase, startedCount, target, started, running, timer, poolVars, step>>

\* ... and the wait for the end of the run, on a condition variable.
Wait ==
    /\ call = "waiting"
    /\ IF running[target]
       THEN call' = "asleep" /\ UNCHANGED stopping
       ELSE call' = "none" /\ stopping' = [stopping EXCEPT ![target] = FALSE]
    /\ UNCHANGED <<phase, startedCount, target, started, running, timer, poolVars, step>>

\* A condition variable may wake without a notification.
WakeByItself ==
    /\ call = "asleep"
    /\ call' = "waiting"
    /\ UNCHANGED <<phase, startedCount, target, flagVars, poolVars, step>>

\* The pool is shut down after the jobs.
ClosePool ==
    /\ phase = "stopping" /\ call = "none" /\ ~MoreToStop
    /\ Pool!Close
    /\ UNCHANGED <<mainVars, flagVars, step>>

JoinPool == ~joined /\ Pool!Join /\ UNCHANGED <<mainVars, flagVars, step>>

-----------------------------------------------------------------------------
(* The workers.                                                            *)

\* A worker takes a run from the queue.
Take(w) ==
    /\ Pool!Begin(w)
    /\ step' = [step EXCEPT ![w] = IF Head(queue) \in Leased THEN "leasing" ELSE "acting"]
    /\ UNCHANGED <<mainVars, flagVars>>

\* Mutation: a run that is skipped leaves its job busy.
SkipBusy(w) ==
    /\ step[w] = "leasing"
    /\ \E next \in {"acting", "notifying"} : step' = [step EXCEPT ![w] = next]
    /\ UNCHANGED <<mainVars, flagVars, poolVars>>

\* The lease is granted; or another instance has it, or the database fails.
AskLease(w) ==
    /\ step[w] = "leasing"
    /\ \E next \in {"acting", "finishing"} : step' = [step EXCEPT ![w] = next]
    /\ UNCHANGED <<mainVars, flagVars, poolVars>>

\* The use case returns, fails or throws.
Act(w) ==
    /\ step[w] = "acting"
    /\ step' = [step EXCEPT ![w] = IF work[w] \in Leased THEN "releasing" ELSE "finishing"]
    /\ UNCHANGED <<mainVars, flagVars, poolVars>>

\* Also when the release fails or throws.
ReleaseLease(w) ==
    /\ step[w] = "releasing"
    /\ step' = [step EXCEPT ![w] = "finishing"]
    /\ UNCHANGED <<mainVars, flagVars, poolVars>>

\* finish_run, under the mutex of the job ...
FinishRun(w) ==
    /\ step[w] = "finishing"
    /\ running' = [running EXCEPT ![work[w]] = FALSE]
    /\ step' = [step EXCEPT ![w] = "notifying"]
    /\ UNCHANGED <<mainVars, started, stopping, timer, poolVars>>

\* Mutation: finish_run does not notify.
LeaveQuietly(w) ==
    /\ step[w] = "notifying"
    /\ Pool!Finish(w)
    /\ step' = [step EXCEPT ![w] = "idle"]
    /\ UNCHANGED <<mainVars, flagVars>>

\* ... and after it; then the task of the pool is over.
NotifyStop(w) ==
    /\ step[w] = "notifying"
    /\ call' = IF call = "asleep" /\ target = work[w] THEN "waiting" ELSE call
    /\ Pool!Finish(w)
    /\ step' = [step EXCEPT ![w] = "idle"]
    /\ UNCHANGED <<phase, startedCount, target, flagVars>>

Main ==
    \/ StartJob \/ AllStarted \/ Trigger \/ Submit \/ GiveUp
    \/ StopNext \/ Wait \/ ClosePool \/ JoinPool

Work(w) ==
    \/ Take(w) \/ AskLease(w) \/ Act(w) \/ ReleaseLease(w)
    \/ FinishRun(w) \/ NotifyStop(w)

Next ==
    \/ Main \/ StartFails \/ Quit \/ WakeByItself
    \/ \E j \in Jobs : Fire(j)
    \/ \E w \in Workers : Work(w)

Spec == Init /\ [][Next]_vars

\* Threads that can run do run, use cases end, and the loop serves every timer.
FairSpec ==
    /\ Spec
    /\ WF_vars(Main)
    /\ \A w \in Workers : WF_vars(Work(w))
    /\ \A j \in Jobs : SF_vars(Fire(j))

-----------------------------------------------------------------------------
(* Properties.                                                             *)

\* What stands for the run of a job that its flag running announces.
Carriers(j) ==
    (IF call \in {"submitting", "rejected"} /\ target = j THEN {<<"main", NoJob>>} ELSE {})
    \cup {<<"queue", i>> : i \in {k \in DOMAIN queue : queue[k] = j}}
    \cup {<<"worker", w>> : w \in {v \in Workers : work[v] = j /\ step[v] \in Executing}}

\* A job runs at most once at a time in a process, and its flag is neither left
\* behind by a rejected or failed run nor cleared too early.
RunsAccounted ==
    \A j \in Jobs :
        IF running[j] THEN \E c \in Carriers(j) : Carriers(j) = {c} ELSE Carriers(j) = {}

\* Types, flags and runs of the jobs fit together.
JobsSound == TypeOK /\ RunsAccounted

\* stop returns only when the run is over: a job that is not started and not
\* being stopped has no run and no timer.
StoppedRests ==
    \A j \in Jobs : (~started[j] /\ ~stopping[j]) => ~running[j] /\ j \notin timer

\* The pool is shut down when no job is running or waiting to run: no action
\* uses what the process is about to destroy.
QuietAtClose ==
    ~open => /\ queue = <<>>
             /\ \A w \in Workers : step[w] \in {"idle", "notifying"}
             /\ timer = {}

\* What was stopped rests: a job after its stop, all of them before the pool closes.
StopsQuiet == StoppedRests /\ QuietAtClose

\* The process ends: a stop never waits for ever, and no worker is left.
ProcessEnds == phase = "stopping" ~> joined

\* Every run ends, the rejected ones too.
RunsEnd == \A j \in Jobs : running[j] ~> ~running[j]

\* A job whose timer is registered is never forgotten: as long as the process runs
\* it acts again and again, asks for its lease or is turned away by a full queue.
JobsRunAgain ==
    \A j \in Jobs :
        j \in timer ~> \/ \E w \in Workers : work[w] = j /\ step[w] \in Executing
                       \/ call = "rejected" /\ target = j
                       \/ phase = "stopping"

\* Runs end and begin again.
JobsGoOn == RunsEnd /\ JobsRunAgain

=============================================================================
