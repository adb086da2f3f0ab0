------------------------------ MODULE TaskPool ------------------------------
(***************************************************************************)
(* What IBackgroundExecutor promises: a bounded queue of accepted tasks,   *)
(* each run once, in the order of acceptance, by one of a fixed number of  *)
(* workers; a shutdown that refuses new tasks and ends when all accepted   *)
(* ones have run.                                                          *)
(***************************************************************************)
EXTENDS Naturals, Sequences

CONSTANTS Workers, Tasks, NoTask, Capacity

VARIABLES
    queue,
    work,      \* the task that a worker runs
    open,      \* new tasks are accepted
    joined     \* the shutdown has returned

vars == <<queue, work, open, joined>>

Init ==
    /\ queue = <<>>
    /\ work = [w \in Workers |-> NoTask]
    /\ open = TRUE
    /\ joined = FALSE

\* submit returns true only if there is room.
Accepts == open /\ Len(queue) < Capacity

Submit(t) ==
    /\ Accepts
    /\ queue' = Append(queue, t)
    /\ UNCHANGED <<work, open, joined>>

Begin(w) ==
    /\ work[w] = NoTask
    /\ queue # <<>>
    /\ work' = [work EXCEPT ![w] = Head(queue)]
    /\ queue' = Tail(queue)
    /\ UNCHANGED <<open, joined>>

Finish(w) ==
    /\ work[w] # NoTask
    /\ work' = [work EXCEPT ![w] = NoTask]
    /\ UNCHANGED <<queue, open, joined>>

Close ==
    /\ open
    /\ open' = FALSE
    /\ UNCHANGED <<queue, work, joined>>

Join ==
    /\ ~open
    /\ queue = <<>>
    /\ \A w \in Workers : work[w] = NoTask
    /\ joined' = TRUE
    /\ UNCHANGED <<queue, work, open>>

Next ==
    \/ \E t \in Tasks : Submit(t)
    \/ \E w \in Workers : Begin(w) \/ Finish(w)
    \/ Close
    \/ Join

Spec == Init /\ [][Next]_vars

=============================================================================
