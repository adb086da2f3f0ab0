----------------------------- MODULE WorkerPool -----------------------------
(***************************************************************************)
(* BoundedThreadPool: the executor of the background jobs and of the HTTP  *)
(* requests.  Several threads submit, a fixed number of workers sleep on   *)
(* one condition variable, and one thread shuts the pool down.             *)
(*                                                                         *)
(* A critical section of the pool's mutex is one action; a notification    *)
(* comes after the mutex is released and is an action of its own.          *)
(***************************************************************************)
EXTENDS Naturals, Sequences, FiniteSets

CONSTANTS Submitters, Threads, Tasks, NoTask, QueueCapacity

ASSUME WorkerPoolAssumption ==
    /\ NoTask \notin Tasks
    /\ QueueCapacity \in Nat \ {0}
    /\ Threads # {}

VARIABLES
    tasks,     \* the queue of accepted tasks
    closing,   \* stopping_
    worker,    \* "ready" to look at the queue, "asleep", "running" or "exited"
    task,      \* the task that a worker runs
    at,        \* a submitter is "idle" or about to notify
    closer     \* the thread that shuts down: "open", "notifying", "joining", "joined"

threadVars == <<tasks, closing, worker, task, at, closer>>

PoolTypeOK ==
    /\ tasks \in Seq(Tasks)
    /\ Len(tasks) <= QueueCapacity
    /\ closing \in BOOLEAN
    /\ worker \in [Threads -> {"ready", "asleep", "running", "exited"}]
    /\ task \in [Threads -> Tasks \cup {NoTask}]
    /\ at \in [Submitters -> {"idle", "notifying"}]
    /\ closer \in {"open", "notifying", "joining", "joined"}
    /\ closing <=> closer # "open"
    /\ \A w \in Threads : task[w] # NoTask <=> worker[w] = "running"

PoolInit ==
    /\ tasks = <<>>
    /\ closing = FALSE
    /\ worker = [w \in Threads |-> "ready"]
    /\ task = [w \in Threads |-> NoTask]
    /\ at = [s \in Submitters |-> "idle"]
    /\ closer = "open"

-----------------------------------------------------------------------------

Room == ~closing /\ Len(tasks) < QueueCapacity

\* submit, under the mutex; a refused task changes nothing.
Push(s, t) ==
    /\ at[s] = "idle"
    /\ Room
    /\ tasks' = Append(tasks, t)
    /\ at' = [at EXCEPT ![s] = "notifying"]
    /\ UNCHANGED <<closing, worker, task, closer>>

\* Mutation: submit forgets to notify.
NoNotify(s) ==
    /\ at[s] = "notifying"
    /\ at' = [at EXCEPT ![s] = "idle"]
    /\ UNCHANGED <<tasks, closing, worker, task, closer>>

\* notify_one wakes some sleeping worker, if there is one.
Notify(s) ==
    /\ at[s] = "notifying"
    /\ at' = [at EXCEPT ![s] = "idle"]
    /\ \/ \E w \in Threads :
            /\ worker[w] = "asleep"
            /\ worker' = [worker EXCEPT ![w] = "ready"]
       \/ (\A w \in Threads : worker[w] # "asleep") /\ UNCHANGED worker
    /\ UNCHANGED <<tasks, closing, task, closer>>

\* Mutation: a stopping pool drops what is queued.
GoneWhenStopping == closing

\* A worker exits only when nothing is left to do.
Gone == tasks = <<>> /\ closing

\* A worker under the mutex: take a task, exit, or sleep.
Look(w) ==
    /\ worker[w] = "ready"
    /\ IF Gone
       THEN /\ worker' = [worker EXCEPT ![w] = "exited"]
            /\ UNCHANGED <<tasks, task>>
       ELSE IF tasks = <<>>
       THEN /\ worker' = [worker EXCEPT ![w] = "asleep"]
            /\ UNCHANGED <<tasks, task>>
       ELSE /\ worker' = [worker EXCEPT ![w] = "running"]
            /\ task' = [task EXCEPT ![w] = Head(tasks)]
            /\ tasks' = Tail(tasks)
    /\ UNCHANGED <<closing, at, closer>>

\* The task returns or throws.
Return(w) ==
    /\ worker[w] = "running"
    /\ worker' = [worker EXCEPT ![w] = "ready"]
    /\ task' = [task EXCEPT ![w] = NoTask]
    /\ UNCHANGED <<tasks, closing, at, closer>>

\* A condition variable may wake without a notification.
WakeUnasked(w) ==
    /\ worker[w] = "asleep"
    /\ worker' = [worker EXCEPT ![w] = "ready"]
    /\ UNCHANGED <<tasks, closing, task, at, closer>>

\* shutdown: set the flag under the mutex, notify_all, join the workers.
Close ==
    /\ closer = "open"
    /\ closing' = TRUE
    /\ closer' = "notifying"
    /\ UNCHANGED <<tasks, worker, task, at>>

\* Mutation: shutdown wakes one worker only.
NotifySome ==
    /\ closer = "notifying"
    /\ closer' = "joining"
    /\ \/ \E w \in Threads :
            /\ worker[w] = "asleep"
            /\ worker' = [worker EXCEPT ![w] = "ready"]
       \/ (\A w \in Threads : worker[w] # "asleep") /\ UNCHANGED worker
    /\ UNCHANGED <<tasks, closing, task, at>>

NotifyAll ==
    /\ closer = "notifying"
    /\ closer' = "joining"
    /\ worker' = [w \in Threads |-> IF worker[w] = "asleep" THEN "ready" ELSE worker[w]]
    /\ UNCHANGED <<tasks, closing, task, at>>

Join ==
    /\ closer = "joining"
    /\ \A w \in Threads : worker[w] = "exited"
    /\ closer' = "joined"
    /\ UNCHANGED <<tasks, closing, worker, task, at>>

PoolNext ==
    \/ \E s \in Submitters : Notify(s) \/ \E t \in Tasks : Push(s, t)
    \/ \E w \in Threads : Look(w) \/ Return(w) \/ WakeUnasked(w)
    \/ Close \/ NotifyAll \/ Join

PoolSpec == PoolInit /\ [][PoolNext]_threadVars

\* Threads that can run do run, and tasks end.
FairPool ==
    /\ PoolSpec
    /\ \A s \in Submitters : WF_threadVars(Notify(s))
    /\ \A w \in Threads : WF_threadVars(Look(w)) /\ WF_threadVars(Return(w))
    /\ WF_threadVars(NotifyAll) /\ WF_threadVars(Join)

-----------------------------------------------------------------------------
(* Properties.                                                             *)

\* No lost wakeup: queued work never waits for workers that all sleep, and
\* once the shutdown has notified nobody sleeps any more.
NobodySleepsThrough ==
    /\ tasks # <<>> =>
          \/ \E w \in Threads : worker[w] \in {"ready", "running"}
          \/ \E s \in Submitters : at[s] = "notifying"
          \/ closer = "notifying"
    /\ closer \in {"joining", "joined"} => \A w \in Threads : worker[w] # "asleep"

\* Workers, queue and submitters fit together, and no work is slept through.
PoolSound == PoolTypeOK /\ NobodySleepsThrough

\* A shutdown returns.
ShutdownReturns == closing ~> closer = "joined"

\* The pool keeps the promise of TaskPool.
Promise == INSTANCE TaskPool WITH Workers <- Threads, Capacity <- QueueCapacity, queue <- tasks,
                                  work <- task, open <- ~closing, joined <- (closer = "joined")
PromiseSpec == Promise!Spec

=============================================================================
