-------------------------- MODULE SchedulerProofs --------------------------
(***************************************************************************)
(* A job runs once at a time and rests when it is stopped, and the pool is *)
(* closed on quiet workers; nobody takes a lease from its holder within    *)
(* its time; a refresh of rates stores all of them or none: for any number *)
(* of jobs, workers and servers and any capacity of the queue.             *)
(***************************************************************************)
EXTENDS JobRuntime, WorkerPool, Rates, FiniteSetTheorems, SequenceTheorems, TLAPS

Triggering == {"triggering", "submitting", "rejected"}

\* What main is doing fits the phase of the process and the flags of the job.
MainFits ==
    /\ call \in Triggering => phase # "stopping" /\ started[target]
    /\ call \in {"waiting", "asleep"} =>
          phase = "stopping" /\ ~started[target] /\ target \notin timer
    /\ phase = "starting" /\ call # "none" => target = startedCount + 1

\* Started are the jobs that start_all has counted, and the one it starts.
StartedInOrder ==
    \A j \in Jobs :
        started[j] => \/ j <= startedCount
                      \/ phase = "starting" /\ call # "none" /\ j = target

AtMain(j) == call \in {"submitting", "rejected"} /\ target = j
Queued(j) == \E i \in DOMAIN queue : queue[i] = j
AtWorker(j, w) == work[w] = j /\ step[w] \in Executing

\* RunsAccounted without sets: a flag has a carrier, and a carrier is alone.
FlagHasRun ==
    \A j \in Jobs : running[j] => AtMain(j) \/ Queued(j) \/ \E w \in Workers : AtWorker(j, w)

RunsAlone ==
    \A j \in Jobs :
        /\ AtMain(j) => running[j] /\ ~Queued(j) /\ \A w \in Workers : ~AtWorker(j, w)
        /\ Queued(j) => running[j] /\ \A w \in Workers : ~AtWorker(j, w)
        /\ \A i, k \in DOMAIN queue : queue[i] = j /\ queue[k] = j => i = k
        /\ \A v, w \in Workers : AtWorker(j, v) /\ AtWorker(j, w) => v = w
        /\ \A w \in Workers : AtWorker(j, w) => running[j]

\* The pool is closed when main has stopped every job.
ClosedLast == ~open => phase = "stopping" /\ call = "none" /\ startedCount = 0

IInv ==
    /\ TypeOK
    /\ MainFits
    /\ StartedInOrder
    /\ FlagHasRun
    /\ RunsAlone
    /\ StoppedRests
    /\ ClosedLast
    /\ QuietAtClose

-----------------------------------------------------------------------------
(* The queue.                                                              *)

LEMMA AppendAtEnd ==
    ASSUME queue \in Seq(Jobs), NEW j \in Jobs, queue' = Append(queue, j)
    PROVE  /\ queue' \in Seq(Jobs)
           /\ DOMAIN queue' = DOMAIN queue \cup {Len(queue) + 1}
           /\ Len(queue) + 1 \notin DOMAIN queue
           /\ \A i \in DOMAIN queue : queue'[i] = queue[i]
           /\ queue'[Len(queue) + 1] = j
  <1>1. /\ Append(queue, j) \in Seq(Jobs)
        /\ Len(Append(queue, j)) = Len(queue) + 1
        /\ \A i \in 1 .. Len(queue) : Append(queue, j)[i] = queue[i]
        /\ Append(queue, j)[Len(queue) + 1] = j
    BY AppendProperties
  <1>2. Len(queue) \in Nat /\ DOMAIN queue = 1 .. Len(queue)
    BY LenProperties
  <1>3. DOMAIN Append(queue, j) = 1 .. (Len(queue) + 1)
    BY <1>1, LenProperties
  <1>. QED  BY <1>1, <1>2, <1>3

LEMMA HeadOfQueue ==
    ASSUME queue \in Seq(Jobs), queue # <<>>
    PROVE  1 \in DOMAIN queue /\ Head(queue) = queue[1] /\ Head(queue) \in Jobs
  <1>1. Len(queue) \in Nat \ {0} /\ DOMAIN queue = 1 .. Len(queue)
    BY EmptySeq, LenProperties
  <1>2. Head(queue) \in Jobs
    BY HeadTailProperties
  <1>. QED  BY <1>1, <1>2

LEMMA TailMovesUp ==
    ASSUME queue \in Seq(Jobs), queue # <<>>, queue' = Tail(queue)
    PROVE  /\ queue' \in Seq(Jobs)
           /\ \A i \in DOMAIN queue' : i + 1 \in DOMAIN queue /\ queue'[i] = queue[i + 1] /\ i + 1 # 1
           /\ \A i \in DOMAIN queue : i # 1 => i - 1 \in DOMAIN queue' /\ queue'[i - 1] = queue[i]
           /\ DOMAIN queue \subseteq Int /\ DOMAIN queue' \subseteq Int
  <1>1. Len(queue) \in Nat \ {0} /\ DOMAIN queue = 1 .. Len(queue)
    BY EmptySeq, LenProperties
  <1>2. /\ Tail(queue) \in Seq(Jobs)
        /\ Len(Tail(queue)) = Len(queue) - 1
        /\ \A i \in 1 .. Len(Tail(queue)) : Tail(queue)[i] = queue[i + 1]
    BY HeadTailProperties
  <1>3. DOMAIN Tail(queue) = 1 .. (Len(queue) - 1)
    BY <1>2, LenProperties
  <1>4. \A i \in 1 .. (Len(queue) - 1) : i + 1 \in 1 .. Len(queue) /\ i + 1 # 1 /\ Tail(queue)[i] = queue[i + 1]
    BY <1>1, <1>2
  <1>5. \A i \in 1 .. Len(queue) : i # 1 => i - 1 \in 1 .. (Len(queue) - 1) /\ Tail(queue)[i - 1] = queue[i]
    BY <1>1, <1>2
  <1>. QED  BY <1>1, <1>2, <1>3, <1>4, <1>5

-----------------------------------------------------------------------------
(* What steps leave alone.                                                 *)

LEMMA RunsKept ==
    ASSUME IInv, UNCHANGED <<running, queue, work>>,
           \A j \in Jobs : AtMain(j)' <=> AtMain(j),
           \A w \in Workers : step'[w] \in Executing <=> step[w] \in Executing
    PROVE  FlagHasRun' /\ RunsAlone'
  <1>1. \A j \in Jobs : /\ Queued(j)' <=> Queued(j)
                        /\ \A w \in Workers : AtWorker(j, w)' <=> AtWorker(j, w)
    BY DEF Queued, AtWorker, Executing
  <1>2. FlagHasRun'
    BY <1>1 DEF IInv, FlagHasRun
  <1>3. RunsAlone'
    BY <1>1 DEF IInv, RunsAlone
  <1>. QED  BY <1>2, <1>3

LEMMA MainKept ==
    ASSUME IInv, UNCHANGED <<mainVars, started, timer>>
    PROVE  MainFits' /\ StartedInOrder'
  BY DEF IInv, MainFits, StartedInOrder, mainVars

LEMMA CloseKept ==
    ASSUME IInv, UNCHANGED <<phase, call, startedCount, queue, timer, open>>,
           \A w \in Workers : step[w] \in {"idle", "notifying"} => step'[w] = step[w]
    PROVE  ClosedLast' /\ QuietAtClose'
  BY DEF IInv, ClosedLast, QuietAtClose

-----------------------------------------------------------------------------
(* The steps of main.                                                      *)

LEMMA StartJobOK ==
    ASSUME IInv, StartJob
    PROVE  IInv'
  <1>. USE JobRuntimeAssumption DEF Jobs, NoJob, IInv, StartJob, poolVars
  <1>1. TypeOK'
    BY DEF TypeOK, Executing
  <1>2. MainFits'
    BY DEF TypeOK, MainFits, Triggering
  <1>3. StartedInOrder'
    BY DEF TypeOK, MainFits, StartedInOrder, Triggering
  <1>4. FlagHasRun' /\ RunsAlone'
    BY RunsKept DEF AtMain, TypeOK, Executing
  <1>5. StoppedRests'
    BY DEF TypeOK, MainFits, StoppedRests, Triggering
  <1>6. ClosedLast' /\ QuietAtClose'
    BY DEF ClosedLast, QuietAtClose, Executing
  <1>. QED  BY <1>1, <1>2, <1>3, <1>4, <1>5, <1>6

LEMMA StartFailsOK ==
    ASSUME IInv, StartFails
    PROVE  IInv'
  <1>. USE JobRuntimeAssumption DEF Jobs, NoJob, IInv, StartFails, flagVars, poolVars
  <1>1. TypeOK'
    BY DEF TypeOK, Executing
  <1>2. MainFits'
    BY DEF TypeOK, MainFits, Triggering
  <1>3. StartedInOrder'
    BY DEF TypeOK, MainFits, StartedInOrder, Triggering
  <1>4. FlagHasRun' /\ RunsAlone'
    BY RunsKept DEF AtMain, TypeOK, Executing
  <1>5. StoppedRests'
    BY DEF TypeOK, MainFits, StoppedRests, Triggering
  <1>6. ClosedLast' /\ QuietAtClose'
    BY DEF ClosedLast, QuietAtClose, Executing
  <1>. QED  BY <1>1, <1>2, <1>3, <1>4, <1>5, <1>6

LEMMA AllStartedOK ==
    ASSUME IInv, AllStarted
    PROVE  IInv'
  <1>. USE JobRuntimeAssumption DEF Jobs, NoJob, IInv, AllStarted, flagVars, poolVars
  <1>1. TypeOK'
    BY DEF TypeOK, Executing
  <1>2. MainFits'
    BY DEF TypeOK, MainFits, Triggering
  <1>3. StartedInOrder'
    BY DEF TypeOK, MainFits, StartedInOrder, Triggering
  <1>4. FlagHasRun' /\ RunsAlone'
    BY RunsKept DEF AtMain, TypeOK, Executing
  <1>5. StoppedRests'
    BY DEF TypeOK, MainFits, StoppedRests, Triggering
  <1>6. ClosedLast' /\ QuietAtClose'
    BY DEF ClosedLast, QuietAtClose, Executing
  <1>. QED  BY <1>1, <1>2, <1>3, <1>4, <1>5, <1>6

LEMMA FireOK ==
    ASSUME IInv, NEW j \in Jobs, Fire(j)
    PROVE  IInv'
  <1>. USE JobRuntimeAssumption DEF Jobs, NoJob, IInv, Fire, flagVars, poolVars
  <1>1. TypeOK'
    BY DEF TypeOK, Executing
  <1>2. MainFits'
    <2>1. started[j]
      BY DEF TypeOK, StoppedRests
    <2>. QED  BY <2>1 DEF TypeOK, MainFits, Triggering
  <1>3. StartedInOrder'
    BY DEF TypeOK, MainFits, StartedInOrder, Triggering
  <1>4. FlagHasRun' /\ RunsAlone'
    BY RunsKept DEF AtMain, TypeOK, Executing
  <1>5. StoppedRests'
    BY DEF TypeOK, MainFits, StoppedRests, Triggering
  <1>6. ClosedLast' /\ QuietAtClose'
    BY DEF ClosedLast, QuietAtClose, Executing
  <1>. QED  BY <1>1, <1>2, <1>3, <1>4, <1>5, <1>6

LEMMA TriggerOK ==
    ASSUME IInv, Trigger
    PROVE  IInv'
  <1>. USE JobRuntimeAssumption DEF Jobs, NoJob, IInv, Trigger, Done, MayRun, poolVars
  <1>1. TypeOK'
    <2>1. target \in Jobs /\ (phase = "starting" => target = startedCount + 1)
      BY DEF TypeOK, MainFits
    <2>2. \A j \in Jobs : ~stopping[j]
      BY DEF TypeOK
    <2>3. CASE MayRun(target)
      BY <2>1, <2>2, <2>3 DEF TypeOK
    <2>4. CASE ~MayRun(target)
      BY <2>1, <2>2, <2>4 DEF TypeOK
    <2>. QED  BY <2>3, <2>4
  <1>2. MainFits'
    BY DEF TypeOK, MainFits, Triggering
  <1>3. StartedInOrder'
    BY DEF TypeOK, MainFits, StartedInOrder, Triggering
  <1>4. FlagHasRun' /\ RunsAlone'
    <2>1. CASE ~MayRun(target)
      BY <2>1, RunsKept DEF AtMain, TypeOK
    <2>2. CASE MayRun(target)
      <3>1. /\ target \in Jobs
            /\ running' = [running EXCEPT ![target] = TRUE]
            /\ call' = "submitting"
            /\ UNCHANGED <<target, queue, work, step>>
        BY <2>2 DEF TypeOK
      <3>2. \A j \in Jobs : ~AtMain(j)
        BY DEF AtMain
      <3>3. \A j \in Jobs : AtMain(j)' <=> j = target
        BY <3>1 DEF AtMain
      <3>4. \A j \in Jobs : /\ Queued(j)' <=> Queued(j)
                            /\ \A w \in Workers : AtWorker(j, w)' <=> AtWorker(j, w)
        BY <3>1 DEF Queued, AtWorker
      <3>5. \A j \in Jobs : running'[j] <=> running[j] \/ j = target
        BY <3>1 DEF TypeOK
      <3>6. ~Queued(target) /\ \A w \in Workers : ~AtWorker(target, w)
        BY <2>2, <3>1 DEF RunsAlone
      <3>7. FlagHasRun'
        BY <3>2, <3>3, <3>4, <3>5 DEF FlagHasRun
      <3>8. RunsAlone'
        BY <3>1, <3>2, <3>3, <3>4, <3>5, <3>6 DEF RunsAlone
      <3>. QED  BY <3>7, <3>8
    <2>. QED  BY <2>1, <2>2
  <1>5. StoppedRests'
    BY DEF TypeOK, MainFits, StoppedRests, Triggering
  <1>6. ClosedLast' /\ QuietAtClose'
    BY DEF ClosedLast, QuietAtClose, Executing
  <1>. QED  BY <1>1, <1>2, <1>3, <1>4, <1>5, <1>6

LEMMA SubmitOK ==
    ASSUME IInv, Submit
    PROVE  IInv'
  <1>. USE JobRuntimeAssumption DEF Jobs, NoJob, IInv, Submit, Done, flagVars, poolVars, Pool!Submit
  <1>1. TypeOK'
    <2>1. target \in Jobs
      BY DEF TypeOK
    <2>2. queue' \in Seq(Jobs)
      BY <2>1, AppendAtEnd DEF TypeOK
    <2>. QED  BY <2>1, <2>2 DEF TypeOK, MainFits, Triggering
  <1>2. MainFits'
    BY DEF TypeOK, MainFits, Triggering
  <1>3. StartedInOrder'
    BY DEF TypeOK, MainFits, StartedInOrder, Triggering
  <1>4. FlagHasRun' /\ RunsAlone'
    <2>1. CASE ~Pool!Accepts
      BY <2>1, RunsKept DEF AtMain, TypeOK
    <2>2. CASE Pool!Accepts
      <3>1. /\ target \in Jobs
            /\ queue \in Seq(Jobs)
            /\ queue' = Append(queue, target)
            /\ call' = "none"
            /\ UNCHANGED <<running, work, step>>
        BY <2>2 DEF TypeOK
      <3>2. \A j \in Jobs : ~AtMain(j)' /\ (AtMain(j) <=> j = target)
        BY <3>1 DEF AtMain
      <3>3. \A j \in Jobs : /\ Queued(j)' <=> Queued(j) \/ j = target
                            /\ \A w \in Workers : AtWorker(j, w)' <=> AtWorker(j, w)
        BY <3>1, AppendAtEnd DEF Queued, AtWorker
      <3>4. FlagHasRun'
        BY <3>1, <3>2, <3>3 DEF FlagHasRun
      <3>5. \A j \in Jobs : \A i, k \in DOMAIN queue' : queue'[i] = j /\ queue'[k] = j => i = k
        BY <3>1, <3>2, AppendAtEnd DEF RunsAlone, Queued
      <3>6. RunsAlone'
        BY <3>1, <3>2, <3>3, <3>5 DEF RunsAlone
      <3>. QED  BY <3>4, <3>6
    <2>. QED  BY <2>1, <2>2
  <1>5. StoppedRests'
    BY DEF TypeOK, MainFits, StoppedRests, Triggering
  <1>6. ClosedLast' /\ QuietAtClose'
    BY DEF ClosedLast, QuietAtClose
  <1>. QED  BY <1>1, <1>2, <1>3, <1>4, <1>5, <1>6

LEMMA GiveUpOK ==
    ASSUME IInv, GiveUp
    PROVE  IInv'
  <1>. USE JobRuntimeAssumption DEF Jobs, NoJob, IInv, GiveUp, Done, poolVars
  <1>1. TypeOK'
    BY DEF TypeOK, MainFits, Triggering
  <1>2. MainFits'
    BY DEF TypeOK, MainFits, Triggering
  <1>3. StartedInOrder'
    BY DEF TypeOK, MainFits, StartedInOrder, Triggering
  <1>4. FlagHasRun'
    BY DEF TypeOK, FlagHasRun, RunsAlone, AtMain, Queued, AtWorker, Executing
  <1>5. RunsAlone'
    BY DEF TypeOK, FlagHasRun, RunsAlone, AtMain, Queued, AtWorker, Executing
  <1>6. StoppedRests'
    BY DEF TypeOK, MainFits, StoppedRests, Triggering
  <1>7. ClosedLast' /\ QuietAtClose'
    BY DEF ClosedLast, QuietAtClose, Executing
  <1>. QED  BY <1>1, <1>2, <1>3, <1>4, <1>5, <1>6, <1>7

LEMMA QuitOK ==
    ASSUME IInv, Quit
    PROVE  IInv'
  <1>. USE JobRuntimeAssumption DEF Jobs, NoJob, IInv, Quit, flagVars, poolVars
  <1>1. TypeOK'
    BY DEF TypeOK, Executing
  <1>2. MainFits'
    BY DEF TypeOK, MainFits, Triggering
  <1>3. StartedInOrder'
    BY DEF TypeOK, MainFits, StartedInOrder, Triggering
  <1>4. FlagHasRun' /\ RunsAlone'
    BY RunsKept DEF AtMain, TypeOK, Executing
  <1>5. StoppedRests'
    BY DEF TypeOK, MainFits, StoppedRests, Triggering
  <1>6. ClosedLast' /\ QuietAtClose'
    BY DEF ClosedLast, QuietAtClose, Executing
  <1>. QED  BY <1>1, <1>2, <1>3, <1>4, <1>5, <1>6

LEMMA StopNextOK ==
    ASSUME IInv, StopNext
    PROVE  IInv'
  <1>. USE JobRuntimeAssumption DEF Jobs, NoJob, IInv, StopNext, MoreToStop, poolVars
  <1>1. TypeOK'
    <2>1. startedCount \in Jobs /\ startedCount - 1 \in 0 .. JobCount
      BY DEF TypeOK
    <2>2. \A j \in Jobs : ~stopping[j]
      BY DEF TypeOK
    <2>3. CASE ~(started[startedCount] \/ running[startedCount])
      BY <2>1, <2>2, <2>3 DEF TypeOK
    <2>4. CASE started[startedCount] \/ running[startedCount]
      <3>1. /\ started' \in [Jobs -> BOOLEAN]
            /\ stopping' \in [Jobs -> BOOLEAN]
            /\ timer' \subseteq Jobs
            /\ target' = startedCount /\ call' = "waiting"
        BY <2>4 DEF TypeOK
      <3>2. \A j \in Jobs : stopping'[j] => target' = j
        BY <2>2, <2>4, <3>1 DEF TypeOK
      <3>. QED  BY <2>1, <3>1, <3>2 DEF TypeOK
    <2>. QED  BY <2>3, <2>4
  <1>2. MainFits'
    BY DEF TypeOK, MainFits, Triggering
  <1>3. StartedInOrder'
    BY DEF TypeOK, MainFits, StartedInOrder, Triggering
  <1>4. FlagHasRun' /\ RunsAlone'
    BY RunsKept DEF AtMain, TypeOK, Executing
  <1>5. StoppedRests'
    BY DEF TypeOK, MainFits, StoppedRests, Triggering
  <1>6. ClosedLast' /\ QuietAtClose'
    BY DEF ClosedLast, QuietAtClose, Executing
  <1>. QED  BY <1>1, <1>2, <1>3, <1>4, <1>5, <1>6

LEMMA WaitOK ==
    ASSUME IInv, Wait
    PROVE  IInv'
  <1>. USE JobRuntimeAssumption DEF Jobs, NoJob, IInv, Wait, poolVars
  <1>1. TypeOK'
    BY DEF TypeOK, Executing
  <1>2. MainFits'
    BY DEF TypeOK, MainFits, Triggering
  <1>3. StartedInOrder'
    BY DEF TypeOK, MainFits, StartedInOrder, Triggering
  <1>4. FlagHasRun' /\ RunsAlone'
    BY RunsKept DEF AtMain, TypeOK, Executing
  <1>5. StoppedRests'
    BY DEF TypeOK, MainFits, StoppedRests, Triggering
  <1>6. ClosedLast' /\ QuietAtClose'
    BY DEF ClosedLast, QuietAtClose, Executing
  <1>. QED  BY <1>1, <1>2, <1>3, <1>4, <1>5, <1>6

LEMMA WakeByItselfOK ==
    ASSUME IInv, WakeByItself
    PROVE  IInv'
  <1>. USE JobRuntimeAssumption DEF Jobs, NoJob, IInv, WakeByItself, flagVars, poolVars
  <1>1. TypeOK'
    BY DEF TypeOK, Executing
  <1>2. MainFits'
    BY DEF TypeOK, MainFits, Triggering
  <1>3. StartedInOrder'
    BY DEF TypeOK, MainFits, StartedInOrder, Triggering
  <1>4. FlagHasRun' /\ RunsAlone'
    BY RunsKept DEF AtMain, TypeOK, Executing
  <1>5. StoppedRests'
    BY DEF TypeOK, MainFits, StoppedRests, Triggering
  <1>6. ClosedLast' /\ QuietAtClose'
    BY DEF ClosedLast, QuietAtClose, Executing
  <1>. QED  BY <1>1, <1>2, <1>3, <1>4, <1>5, <1>6

LEMMA ClosePoolOK ==
    ASSUME IInv, ClosePool
    PROVE  IInv'
  <1>. USE JobRuntimeAssumption DEF Jobs, NoJob, IInv, ClosePool, MoreToStop, Pool!Close, mainVars, flagVars
  <1>1. TypeOK'
    BY DEF TypeOK, Executing
  <1>2. MainFits' /\ StartedInOrder'
    BY MainKept
  <1>3. FlagHasRun' /\ RunsAlone'
    BY RunsKept DEF AtMain, TypeOK, Executing
  <1>4. StoppedRests'
    BY DEF TypeOK, MainFits, StoppedRests, Triggering
  <1>5. ClosedLast'
    BY DEF TypeOK, ClosedLast
  <1>6. QuietAtClose'
    <2>1. \A j \in Jobs : ~running[j] /\ j \notin timer
      BY DEF TypeOK, StartedInOrder, StoppedRests
    <2>2. queue = <<>>
      <3>. SUFFICES ASSUME queue # <<>> PROVE FALSE
        OBVIOUS
      <3>1. \E j \in Jobs : Queued(j)
        BY HeadOfQueue DEF TypeOK, Queued
      <3>. QED  BY <2>1, <3>1 DEF RunsAlone
    <2>3. \A w \in Workers : step[w] \notin Executing
      <3>. SUFFICES ASSUME NEW w \in Workers, step[w] \in Executing PROVE FALSE
        OBVIOUS
      <3>1. work[w] \in Jobs /\ AtWorker(work[w], w)
        BY DEF TypeOK, AtWorker, Executing
      <3>. QED  BY <2>1, <3>1 DEF RunsAlone
    <2>4. timer = {}
      BY <2>1 DEF TypeOK
    <2>. QED  BY <2>2, <2>3, <2>4 DEF QuietAtClose, TypeOK
  <1>. QED  BY <1>1, <1>2, <1>3, <1>4, <1>5, <1>6

LEMMA JoinPoolOK ==
    ASSUME IInv, JoinPool
    PROVE  IInv'
  <1>. USE JobRuntimeAssumption DEF Jobs, NoJob, IInv, JoinPool, Pool!Join, mainVars, flagVars
  <1>1. TypeOK'
    BY DEF TypeOK, Executing
  <1>2. MainFits' /\ StartedInOrder'
    BY MainKept
  <1>3. FlagHasRun' /\ RunsAlone'
    BY RunsKept DEF AtMain, TypeOK, Executing
  <1>4. StoppedRests'
    BY DEF TypeOK, MainFits, StoppedRests, Triggering
  <1>5. ClosedLast' /\ QuietAtClose'
    BY CloseKept
  <1>. QED  BY <1>1, <1>2, <1>3, <1>4, <1>5

-----------------------------------------------------------------------------
(* The steps of the workers.                                               *)

LEMMA TakeOK ==
    ASSUME IInv, NEW w \in Workers, Take(w)
    PROVE  IInv'
  <1>. USE JobRuntimeAssumption DEF Jobs, NoJob, IInv, Take, Pool!Begin
  <1>1. TypeOK'
    <2>1. queue' \in Seq(Jobs) /\ Head(queue) \in Jobs
      BY HeadOfQueue, TailMovesUp DEF TypeOK
    <2>. QED  BY <2>1 DEF TypeOK, Executing, mainVars, flagVars
  <1>2. MainFits' /\ StartedInOrder'
    BY MainKept DEF flagVars
  <1>3. FlagHasRun' /\ RunsAlone'
    <2>. DEFINE h == Head(queue)
    <2>1. /\ h \in Jobs /\ 1 \in DOMAIN queue /\ queue[1] = h
          /\ UNCHANGED <<call, target, running>>
      BY HeadOfQueue DEF TypeOK, mainVars, flagVars
    <2>2. /\ \A i \in DOMAIN queue' : i + 1 \in DOMAIN queue /\ queue'[i] = queue[i + 1] /\ i + 1 # 1
          /\ \A i \in DOMAIN queue : i # 1 => i - 1 \in DOMAIN queue' /\ queue'[i - 1] = queue[i]
          /\ DOMAIN queue \subseteq Int /\ DOMAIN queue' \subseteq Int
      BY TailMovesUp DEF TypeOK
    <2>3. \A j \in Jobs : AtMain(j)' <=> AtMain(j)
      BY <2>1 DEF AtMain
    <2>4. \A j \in Jobs : Queued(j)' <=> Queued(j) /\ j # h
      <3>1. ASSUME NEW j \in Jobs, NEW i \in DOMAIN queue', queue'[i] = j
            PROVE  Queued(j) /\ j # h
        <4>1. i + 1 \in DOMAIN queue /\ queue[i + 1] = j /\ i + 1 # 1
          BY <2>2, <3>1
        <4>2. j # h
          BY <2>1, <4>1 DEF RunsAlone
        <4>. QED  BY <4>1, <4>2 DEF Queued
      <3>2. ASSUME NEW j \in Jobs, NEW i \in DOMAIN queue, queue[i] = j, j # h
            PROVE  Queued(j)'
        <4>1. i # 1
          BY <2>1, <3>2
        <4>2. i - 1 \in DOMAIN queue' /\ queue'[i - 1] = j
          BY <2>2, <3>2, <4>1
        <4>. QED  BY <4>2 DEF Queued
      <3>. QED  BY <3>1, <3>2 DEF Queued
    <2>5. \A j \in Jobs : \A v \in Workers : AtWorker(j, v)' <=> AtWorker(j, v) \/ (v = w /\ j = h)
      BY <2>1 DEF AtWorker, TypeOK, Executing
    <2>6. Queued(h)
      BY <2>1 DEF Queued
    <2>7. FlagHasRun'
      BY <2>1, <2>3, <2>4, <2>5 DEF FlagHasRun
    <2>8. \A j \in Jobs : \A i, k \in DOMAIN queue' : queue'[i] = j /\ queue'[k] = j => i = k
      <3>. SUFFICES ASSUME NEW j \in Jobs, NEW i \in DOMAIN queue', NEW k \in DOMAIN queue',
                           queue'[i] = j, queue'[k] = j
                    PROVE  i = k
        OBVIOUS
      <3>1. i + 1 = k + 1
        BY <2>2 DEF RunsAlone
      <3>. QED  BY <2>2, <3>1
    <2>9. RunsAlone'
      BY <2>1, <2>3, <2>4, <2>5, <2>6, <2>8 DEF RunsAlone
    <2>. QED  BY <2>7, <2>9
  <1>4. StoppedRests'
    BY DEF StoppedRests, flagVars
  <1>5. ClosedLast' /\ QuietAtClose'
    BY DEF ClosedLast, QuietAtClose, mainVars
  <1>. QED  BY <1>1, <1>2, <1>3, <1>4, <1>5

LEMMA AskLeaseOK ==
    ASSUME IInv, NEW w \in Workers, AskLease(w)
    PROVE  IInv'
  <1>. USE JobRuntimeAssumption DEF Jobs, NoJob, IInv, AskLease, mainVars, flagVars, poolVars
  <1>1. TypeOK'
    BY DEF TypeOK, Executing
  <1>2. MainFits' /\ StartedInOrder'
    BY MainKept
  <1>3. FlagHasRun' /\ RunsAlone'
    BY RunsKept DEF AtMain, TypeOK, Executing
  <1>4. StoppedRests'
    BY DEF TypeOK, MainFits, StoppedRests, Triggering
  <1>5. ClosedLast' /\ QuietAtClose'
    BY CloseKept
  <1>. QED  BY <1>1, <1>2, <1>3, <1>4, <1>5

LEMMA ActOK ==
    ASSUME IInv, NEW w \in Workers, Act(w)
    PROVE  IInv'
  <1>. USE JobRuntimeAssumption DEF Jobs, NoJob, IInv, Act, mainVars, flagVars, poolVars
  <1>1. TypeOK'
    BY DEF TypeOK, Executing
  <1>2. MainFits' /\ StartedInOrder'
    BY MainKept
  <1>3. FlagHasRun' /\ RunsAlone'
    BY RunsKept DEF AtMain, TypeOK, Executing
  <1>4. StoppedRests'
    BY DEF TypeOK, MainFits, StoppedRests, Triggering
  <1>5. ClosedLast' /\ QuietAtClose'
    BY CloseKept
  <1>. QED  BY <1>1, <1>2, <1>3, <1>4, <1>5

LEMMA ReleaseLeaseOK ==
    ASSUME IInv, NEW w \in Workers, ReleaseLease(w)
    PROVE  IInv'
  <1>. USE JobRuntimeAssumption DEF Jobs, NoJob, IInv, ReleaseLease, mainVars, flagVars, poolVars
  <1>1. TypeOK'
    BY DEF TypeOK, Executing
  <1>2. MainFits' /\ StartedInOrder'
    BY MainKept
  <1>3. FlagHasRun' /\ RunsAlone'
    BY RunsKept DEF AtMain, TypeOK, Executing
  <1>4. StoppedRests'
    BY DEF TypeOK, MainFits, StoppedRests, Triggering
  <1>5. ClosedLast' /\ QuietAtClose'
    BY CloseKept
  <1>. QED  BY <1>1, <1>2, <1>3, <1>4, <1>5

LEMMA FinishRunOK ==
    ASSUME IInv, NEW w \in Workers, FinishRun(w)
    PROVE  IInv'
  <1>. USE JobRuntimeAssumption DEF Jobs, NoJob, IInv, FinishRun, mainVars, poolVars
  <1>1. TypeOK'
    BY DEF TypeOK, Executing
  <1>2. MainFits' /\ StartedInOrder'
    BY MainKept
  <1>3. FlagHasRun' /\ RunsAlone'
    <2>. DEFINE d == work[w]
    <2>1. d \in Jobs /\ AtWorker(d, w)
      BY DEF TypeOK, AtWorker, Executing
    <2>2. \A j \in Jobs : (AtMain(j)' <=> AtMain(j)) /\ (Queued(j)' <=> Queued(j))
      BY DEF AtMain, Queued
    <2>3. \A j \in Jobs : \A v \in Workers : AtWorker(j, v)' <=> AtWorker(j, v) /\ v # w
      BY DEF AtWorker, TypeOK, Executing
    <2>4. \A j \in Jobs : running'[j] <=> running[j] /\ j # d
      BY <2>1 DEF TypeOK
    <2>5. \A j \in Jobs : AtWorker(j, w) => j = d
      BY DEF AtWorker
    <2>6. FlagHasRun'
      BY <2>2, <2>3, <2>4, <2>5 DEF FlagHasRun
    <2>7. RunsAlone'
      BY <2>1, <2>2, <2>3, <2>4 DEF RunsAlone
    <2>. QED  BY <2>6, <2>7
  <1>4. StoppedRests'
    BY DEF TypeOK, MainFits, StoppedRests, Triggering
  <1>5. ClosedLast' /\ QuietAtClose'
    BY CloseKept
  <1>. QED  BY <1>1, <1>2, <1>3, <1>4, <1>5

LEMMA NotifyStopOK ==
    ASSUME IInv, NEW w \in Workers, NotifyStop(w)
    PROVE  IInv'
  <1>. USE JobRuntimeAssumption DEF Jobs, NoJob, IInv, NotifyStop, Pool!Finish, flagVars
  <1>1. TypeOK'
    BY DEF TypeOK, Executing
  <1>2. MainFits'
    BY DEF TypeOK, MainFits, Triggering
  <1>3. StartedInOrder'
    BY DEF TypeOK, MainFits, StartedInOrder, Triggering
  <1>4. FlagHasRun'
    BY DEF TypeOK, FlagHasRun, RunsAlone, AtMain, Queued, AtWorker, Executing
  <1>5. RunsAlone'
    BY DEF TypeOK, FlagHasRun, RunsAlone, AtMain, Queued, AtWorker, Executing
  <1>6. StoppedRests'
    BY DEF TypeOK, MainFits, StoppedRests, Triggering
  <1>7. ClosedLast' /\ QuietAtClose'
    BY DEF ClosedLast, QuietAtClose, Executing
  <1>. QED  BY <1>1, <1>2, <1>3, <1>4, <1>5, <1>6, <1>7

-----------------------------------------------------------------------------

LEMMA InitOK == Init => IInv
  <1>. SUFFICES ASSUME Init PROVE IInv
    OBVIOUS
  <1>. USE JobRuntimeAssumption DEF Init, Pool!Init, Jobs, NoJob
  <1>1. queue \in Seq(Jobs) /\ DOMAIN queue = {}
    BY EmptySeq
  <1>2. TypeOK
    <2>1. /\ started \in [Jobs -> BOOLEAN]
          /\ stopping \in [Jobs -> BOOLEAN]
          /\ running \in [Jobs -> BOOLEAN]
          /\ \A j \in Jobs : ~stopping[j]
      OBVIOUS
    <2>2. /\ work \in [Workers -> Jobs \cup {NoJob}]
          /\ step \in [Workers -> Executing \cup {"idle", "notifying"}]
          /\ \A w \in Workers : work[w] = NoJob <=> step[w] = "idle"
      OBVIOUS
    <2>3. startedCount \in 0 .. JobCount /\ timer \subseteq Jobs /\ target \in Jobs \cup {NoJob}
      OBVIOUS
    <2>. QED  BY <1>1, <2>1, <2>2, <2>3 DEF TypeOK
  <1>3. MainFits /\ StartedInOrder /\ StoppedRests
    BY DEF MainFits, StartedInOrder, StoppedRests, Triggering
  <1>4. FlagHasRun /\ RunsAlone
    BY <1>1 DEF FlagHasRun, RunsAlone, AtMain, Queued, AtWorker, Executing
  <1>5. ClosedLast /\ QuietAtClose
    BY DEF ClosedLast, QuietAtClose
  <1>. QED  BY <1>2, <1>3, <1>4, <1>5 DEF IInv

LEMMA NextOK ==
    ASSUME IInv, [Next]_vars
    PROVE  IInv'
  <1>1. CASE Main
    BY <1>1, StartJobOK, AllStartedOK, TriggerOK, SubmitOK, GiveUpOK, StopNextOK, WaitOK,
       ClosePoolOK, JoinPoolOK DEF Main
  <1>2. CASE StartFails \/ Quit \/ WakeByItself \/ \E j \in Jobs : Fire(j)
    BY <1>2, StartFailsOK, QuitOK, WakeByItselfOK, FireOK
  <1>3. CASE \E w \in Workers : Work(w)
    BY <1>3, TakeOK, AskLeaseOK, ActOK, ReleaseLeaseOK, FinishRunOK, NotifyStopOK DEF Work
  <1>4. CASE UNCHANGED vars
    <2>. USE <1>4 DEF vars, mainVars, flagVars, poolVars
    <2>1. TypeOK' /\ StoppedRests'
      BY DEF IInv, TypeOK, StoppedRests
    <2>2. MainFits' /\ StartedInOrder'
      BY MainKept
    <2>3. FlagHasRun' /\ RunsAlone'
      BY RunsKept DEF AtMain
    <2>4. ClosedLast' /\ QuietAtClose'
      BY CloseKept
    <2>. QED  BY <2>1, <2>2, <2>3, <2>4 DEF IInv
  <1>. QED  BY <1>1, <1>2, <1>3, <1>4 DEF Next

LEMMA Inductive == Spec => []IInv
  BY InitOK, NextOK, PTL DEF Spec

\* Every variable of the runtime keeps its type; only the job that main stops is
\* marked as stopping.
THEOREM TypeCorrect == Spec => []TypeOK
  <1>1. IInv => TypeOK
    BY DEF IInv
  <1>. QED  BY <1>1, Inductive, PTL

\* A job of RecurringJob runs at most once at a time, and its flag running is
\* neither left behind nor cleared too early, for any number of jobs and workers.
THEOREM RunsAreAccounted == Spec => []RunsAccounted
  <1>. DEFINE M(j) == IF call \in {"submitting", "rejected"} /\ target = j THEN {<<"main", NoJob>>} ELSE {}
              Q(j) == {<<"queue", i>> : i \in {k \in DOMAIN queue : queue[k] = j}}
              W(j) == {<<"worker", w>> : w \in {v \in Workers : work[v] = j /\ step[v] \in Executing}}
  <1>1. ASSUME NEW j \in Jobs
        PROVE  /\ Carriers(j) = M(j) \cup Q(j) \cup W(j)
               /\ ~AtMain(j) => M(j) = {}
               /\ ~Queued(j) => Q(j) = {}
               /\ (\A w \in Workers : ~AtWorker(j, w)) => W(j) = {}
    BY DEF Carriers, AtMain, Queued, AtWorker
  <1>2. ASSUME IInv, NEW j \in Jobs, running[j]
        PROVE  \E c \in Carriers(j) : Carriers(j) = {c}
    <2>1. CASE AtMain(j)
      <3>1. M(j) = {<<"main", NoJob>>}
        BY <2>1 DEF AtMain
      <3>2. Q(j) = {} /\ W(j) = {}
        BY <1>2, <1>1, <2>1 DEF IInv, RunsAlone
      <3>. QED  BY <1>1, <3>1, <3>2
    <2>2. ASSUME NEW i \in DOMAIN queue, queue[i] = j
          PROVE  \E c \in Carriers(j) : Carriers(j) = {c}
      <3>1. {k \in DOMAIN queue : queue[k] = j} = {i}
        BY <1>2, <2>2 DEF IInv, RunsAlone
      <3>2. Q(j) = {<<"queue", i>>}
        BY <3>1
      <3>3. Queued(j)
        BY <2>2 DEF Queued
      <3>4. M(j) = {} /\ W(j) = {}
        BY <1>2, <1>1, <3>3 DEF IInv, RunsAlone
      <3>. QED  BY <1>1, <3>2, <3>4
    <2>3. ASSUME NEW w \in Workers, AtWorker(j, w)
          PROVE  \E c \in Carriers(j) : Carriers(j) = {c}
      <3>1. {v \in Workers : work[v] = j /\ step[v] \in Executing} = {w}
        BY <1>2, <2>3 DEF IInv, RunsAlone, AtWorker
      <3>2. W(j) = {<<"worker", w>>}
        BY <3>1
      <3>3. M(j) = {} /\ Q(j) = {}
        BY <1>2, <1>1, <2>3 DEF IInv, RunsAlone
      <3>. QED  BY <1>1, <3>2, <3>3
    <2>. QED  BY <1>2, <2>1, <2>2, <2>3 DEF IInv, FlagHasRun, Queued
  <1>3. ASSUME IInv, NEW j \in Jobs, ~running[j]
        PROVE  Carriers(j) = {}
    BY <1>1, <1>3 DEF IInv, RunsAlone
  <1>4. IInv => RunsAccounted
    BY <1>2, <1>3 DEF RunsAccounted
  <1>. QED  BY <1>4, Inductive, PTL

\* After stop a job has no run and no timer.
THEOREM StoppedJobsRest == Spec => []StoppedRests
  <1>1. IInv => StoppedRests
    BY DEF IInv
  <1>. QED  BY <1>1, Inductive, PTL

\* The background pool is shut down when no job runs or waits to run.
THEOREM PoolClosesQuiet == Spec => []QuietAtClose
  <1>1. IInv => QuietAtClose
    BY DEF IInv
  <1>. QED  BY <1>1, Inductive, PTL

\* Flags and runs fit together, for any number of jobs and workers.
THEOREM SoundJobs == Spec => []JobsSound
  BY TypeCorrect, RunsAreAccounted, PTL DEF JobsSound

\* What was stopped rests, and the pool closes quietly.
THEOREM QuietStops == Spec => []StopsQuiet
  BY StoppedJobsRest, PoolClosesQuiet, PTL DEF StopsQuiet

-----------------------------------------------------------------------------
(* The pool beneath the jobs, BoundedThreadPool: no wakeup is lost and no     *)
(* accepted task is dropped, for any number of submitters and threads and     *)
(* any capacity of the queue.                                                 *)

\* A worker that has left saw an empty queue that stays empty.
ExitedLast == \A w \in Threads : worker[w] = "exited" => tasks = <<>> /\ closing

PoolInv == PoolTypeOK /\ ExitedLast /\ NobodySleepsThrough

-----------------------------------------------------------------------------
(* Sequences.                                                              *)

LEMMA TailOfSeq ==
    ASSUME NEW S, NEW q \in Seq(S), q # <<>>
    PROVE  /\ Head(q) \in S
           /\ Tail(q) \in Seq(S)
           /\ Len(Tail(q)) = Len(q) - 1
  BY HeadTailProperties

LEMMA AppendToSeq ==
    ASSUME NEW S, NEW q \in Seq(S), NEW e \in S
    PROVE  /\ Append(q, e) \in Seq(S)
           /\ Len(Append(q, e)) = Len(q) + 1
           /\ Append(q, e) # <<>>
  BY AppendProperties

-----------------------------------------------------------------------------
(* The invariant.                                                          *)

LEMMA PoolInitOK == PoolInit => PoolInv
  <1>. SUFFICES ASSUME PoolInit PROVE PoolInv
    OBVIOUS
  <1>1. tasks \in Seq(Tasks) /\ Len(tasks) = 0
    BY EmptySeq DEF PoolInit
  <1>2. PoolTypeOK
    <2>1. Len(tasks) <= QueueCapacity
      BY <1>1, WorkerPoolAssumption
    <2>2. closing \in BOOLEAN /\ (closing <=> closer # "open")
      BY DEF PoolInit
    <2>3. \A w \in Threads : task[w] # NoTask <=> worker[w] = "running"
      BY DEF PoolInit
    <2>4. /\ worker \in [Threads -> {"ready", "asleep", "running", "exited"}]
          /\ task \in [Threads -> Tasks \cup {NoTask}]
          /\ at \in [Submitters -> {"idle", "notifying"}]
          /\ closer \in {"open", "notifying", "joining", "joined"}
      BY DEF PoolInit
    <2>. QED  BY <1>1, <2>1, <2>2, <2>3, <2>4 DEF PoolTypeOK
  <1>3. ExitedLast /\ NobodySleepsThrough
    BY DEF PoolInit, ExitedLast, NobodySleepsThrough
  <1>. QED  BY <1>2, <1>3 DEF PoolInv

LEMMA PushOK ==
    ASSUME PoolInv, NEW s \in Submitters, NEW t \in Tasks, Push(s, t)
    PROVE  PoolInv'
  <1>. USE WorkerPoolAssumption DEF PoolInv, Push, Room
  <1>1. /\ tasks' \in Seq(Tasks)
        /\ Len(tasks') <= QueueCapacity
    BY AppendToSeq DEF PoolTypeOK
  <1>2. PoolTypeOK'
    BY <1>1 DEF PoolTypeOK
  <1>3. ExitedLast'
    BY DEF ExitedLast
  <1>4. NobodySleepsThrough'
    BY DEF NobodySleepsThrough, PoolTypeOK
  <1>. QED  BY <1>2, <1>3, <1>4

LEMMA NotifyOK ==
    ASSUME PoolInv, NEW s \in Submitters, Notify(s)
    PROVE  PoolInv'
  <1>. USE WorkerPoolAssumption DEF PoolInv, Notify
  <1>1. PoolTypeOK'
    BY DEF PoolTypeOK
  <1>2. ExitedLast'
    BY DEF ExitedLast, PoolTypeOK
  <1>3. tasks # <<>> => \A w \in Threads : worker[w] \in {"ready", "asleep", "running"}
    BY DEF ExitedLast, PoolTypeOK
  <1>4. tasks' # <<>> => \E w \in Threads : worker'[w] \in {"ready", "running"}
    <2>1. CASE \E w \in Threads : worker[w] = "asleep" /\ worker' = [worker EXCEPT ![w] = "ready"]
      BY <2>1 DEF PoolTypeOK
    <2>2. CASE (\A w \in Threads : worker[w] # "asleep") /\ UNCHANGED worker
      BY <2>2, <1>3
    <2>. QED  BY <2>1, <2>2
  <1>5. closer' \in {"joining", "joined"} => \A w \in Threads : worker'[w] # "asleep"
    BY DEF NobodySleepsThrough, PoolTypeOK
  <1>. QED  BY <1>1, <1>2, <1>4, <1>5 DEF NobodySleepsThrough

LEMMA LookOK ==
    ASSUME PoolInv, NEW w \in Threads, Look(w)
    PROVE  PoolInv'
  <1>. USE DEF PoolInv, Look
  <1>1. CASE Gone
    BY <1>1 DEF Gone, PoolTypeOK, ExitedLast, NobodySleepsThrough
  <1>2. CASE ~Gone /\ tasks = <<>>
    BY <1>2 DEF Gone, PoolTypeOK, ExitedLast, NobodySleepsThrough
  <1>3. CASE ~Gone /\ tasks # <<>>
    <2>1. /\ tasks' \in Seq(Tasks)
          /\ Len(tasks') <= QueueCapacity
          /\ Head(tasks) \in Tasks
      <3>1. tasks \in Seq(Tasks) /\ tasks # <<>> /\ tasks' = Tail(tasks)
        BY <1>3 DEF PoolTypeOK
      <3>2. /\ Head(tasks) \in Tasks
            /\ Tail(tasks) \in Seq(Tasks)
            /\ Len(Tail(tasks)) = Len(tasks) - 1
        BY <3>1, TailOfSeq
      <3>3. Len(tasks) \in Nat /\ Len(tasks) <= QueueCapacity
        BY <3>1, LenProperties DEF PoolTypeOK
      <3>4. Len(Tail(tasks)) <= QueueCapacity
        BY ONLY <3>2, <3>3, WorkerPoolAssumption
      <3>. QED  BY ONLY <3>1, <3>2, <3>4
    <2>2. PoolTypeOK'
      <3>1. /\ worker' = [worker EXCEPT ![w] = "running"]
            /\ task' = [task EXCEPT ![w] = Head(tasks)]
            /\ UNCHANGED <<closing, at, closer>>
        BY <1>3
      <3>2. /\ worker' \in [Threads -> {"ready", "asleep", "running", "exited"}]
            /\ task' \in [Threads -> Tasks \cup {NoTask}]
            /\ \A v \in Threads : task'[v] # NoTask <=> worker'[v] = "running"
        BY <2>1, <3>1, WorkerPoolAssumption DEF PoolTypeOK
      <3>. QED  BY <2>1, <3>1, <3>2 DEF PoolTypeOK
    <2>3. ExitedLast'
      BY <1>3 DEF ExitedLast, PoolTypeOK
    <2>4. NobodySleepsThrough'
      BY <1>3 DEF NobodySleepsThrough, PoolTypeOK
    <2>. QED  BY <2>2, <2>3, <2>4
  <1>. QED  BY <1>1, <1>2, <1>3

LEMMA ReturnOK ==
    ASSUME PoolInv, NEW w \in Threads, Return(w) \/ WakeUnasked(w)
    PROVE  PoolInv'
  <1>1. PoolTypeOK'
    BY WorkerPoolAssumption DEF PoolInv, Return, WakeUnasked, PoolTypeOK
  <1>2. ExitedLast'
    BY DEF PoolInv, Return, WakeUnasked, ExitedLast, PoolTypeOK
  <1>3. NobodySleepsThrough'
    BY DEF PoolInv, Return, WakeUnasked, NobodySleepsThrough, PoolTypeOK
  <1>. QED  BY <1>1, <1>2, <1>3 DEF PoolInv

LEMMA NotifyAllOK ==
    ASSUME PoolInv, NotifyAll
    PROVE  PoolInv'
  <1>. USE DEF PoolInv, NotifyAll
  <1>1. PoolTypeOK'
    BY DEF PoolTypeOK
  <1>2. ExitedLast'
    BY DEF ExitedLast, PoolTypeOK
  <1>3. \A w \in Threads : worker'[w] # "asleep"
    BY DEF PoolTypeOK
  <1>4. tasks' # <<>> => \E w \in Threads : worker'[w] \in {"ready", "running"}
    BY <1>3, WorkerPoolAssumption DEF ExitedLast, PoolTypeOK
  <1>. QED  BY <1>1, <1>2, <1>3, <1>4 DEF NobodySleepsThrough

LEMMA CloseOK ==
    ASSUME PoolInv, Close \/ Join
    PROVE  PoolInv'
  BY DEF PoolInv, Close, Join, PoolTypeOK, ExitedLast, NobodySleepsThrough

LEMMA PoolNextOK ==
    ASSUME PoolInv, [PoolNext]_threadVars
    PROVE  PoolInv'
  <1>1. CASE UNCHANGED threadVars
    BY <1>1 DEF threadVars, PoolInv, PoolTypeOK, ExitedLast, NobodySleepsThrough
  <1>. QED
    BY <1>1, PushOK, NotifyOK, LookOK, ReturnOK, NotifyAllOK, CloseOK DEF PoolNext

LEMMA PoolInvariance == PoolSpec => []PoolInv
  BY PoolInitOK, PoolNextOK, PTL DEF PoolSpec

\* Every variable of the pool keeps its type, and only a running worker holds a
\* task, whatever the numbers of threads.
THEOREM PoolTypes == PoolSpec => []PoolTypeOK
  <1>1. PoolInv => PoolTypeOK
    BY DEF PoolInv
  <1>. QED  BY <1>1, PoolInvariance, PTL

\* No wakeup of BoundedThreadPool is lost: queued work never waits for workers
\* that all sleep, and after the shutdown's notification nobody sleeps.
THEOREM NoLostWakeup == PoolSpec => []NobodySleepsThrough
  <1>1. PoolInv => NobodySleepsThrough
    BY DEF PoolInv
  <1>. QED  BY <1>1, PoolInvariance, PTL

\* The pool is sound for any number of submitters and workers.
THEOREM SoundPool == PoolSpec => []PoolSound
  BY PoolTypes, NoLostWakeup, PTL DEF PoolSound

-----------------------------------------------------------------------------
(* The promise.                                                            *)

LEMMA InitKept == PoolInit => Promise!Init
  BY DEF PoolInit, Promise!Init

LEMMA StepKept ==
    ASSUME PoolInv, [PoolNext]_threadVars
    PROVE  [Promise!Next]_Promise!vars
  <1>. USE DEF PoolInv, Promise!vars
  <1>1. ASSUME NEW s \in Submitters, NEW t \in Tasks, Push(s, t)
        PROVE  Promise!Submit(t)
    BY <1>1 DEF Push, Room, Promise!Submit, Promise!Accepts
  <1>2. ASSUME NEW w \in Threads, Look(w)
        PROVE  Promise!Begin(w) \/ UNCHANGED Promise!vars
    BY <1>2 DEF Look, Promise!Begin, PoolTypeOK
  <1>3. ASSUME NEW w \in Threads, Return(w)
        PROVE  Promise!Finish(w)
    BY <1>3 DEF Return, Promise!Finish, PoolTypeOK
  <1>4. CASE Close
    BY <1>4 DEF Close, PoolTypeOK, Promise!Close, Promise!Next
  <1>5. CASE Join
    BY <1>5, WorkerPoolAssumption DEF Join, PoolTypeOK, ExitedLast, Promise!Join, Promise!Next
  <1>6. CASE NotifyAll
    BY <1>6 DEF NotifyAll
  <1>7. ASSUME NEW s \in Submitters, Notify(s)
        PROVE  UNCHANGED Promise!vars
    BY <1>7 DEF Notify
  <1>8. ASSUME NEW w \in Threads, WakeUnasked(w)
        PROVE  UNCHANGED Promise!vars
    BY <1>8 DEF WakeUnasked
  <1>9. CASE UNCHANGED threadVars
    BY <1>9 DEF threadVars
  <1>. QED
    BY <1>1, <1>2, <1>3, <1>4, <1>5, <1>6, <1>7, <1>8, <1>9 DEF PoolNext, Promise!Next

\* BoundedThreadPool keeps the promise of IBackgroundExecutor: accepted tasks run
\* once and in order, and a shutdown ends only when all of them have run.
THEOREM PoolKeepsPromise == PoolSpec => PromiseSpec
  <1>1. PoolInit => Promise!Init
    BY InitKept
  <1>2. PoolInv /\ [PoolNext]_threadVars => [Promise!Next]_Promise!vars
    BY StepKept
  <1>. QED  BY <1>1, <1>2, PoolInvariance, PTL DEF PoolSpec, PromiseSpec, Promise!Spec

-----------------------------------------------------------------------------
(* The lease, whatever the job.                                            *)

LeaseInv == LeaseTypeOK /\ HolderKeepsLease

LEMMA LeaseInitOK == LeaseInit => LeaseInv
  BY JobLeaseAssumption DEF LeaseInit, LeaseInv, LeaseTypeOK, HolderKeepsLease

\* Only the token of the row, and only a lease that is over, is replaced.
LEMMA GrantOK ==
    ASSUME LeaseInv, NEW h \in Hosts, Grant(h)
    PROVE  LeaseInv'
  <1>1. PICK t \in Fresh : TakeRow(h, t) /\ token' = [token EXCEPT ![h] = t]
    BY DEF Grant
  <1>2. /\ t \in Tokens /\ t # NoToken
        /\ \A g \in Hosts : token[g] # t
    BY <1>1, JobLeaseAssumption DEF Fresh
  <1>3. LeaseTypeOK'
    <2>1. \A g \in Hosts : token'[g] = IF g = h THEN t ELSE token[g]
      BY <1>1 DEF LeaseInv, LeaseTypeOK
    <2>2. \A g \in Hosts : doing'[g] = IF g = h THEN "acting" ELSE doing[g]
      BY DEF LeaseInv, LeaseTypeOK, Grant
    <2>3. \A g \in Hosts : token'[g] # NoToken <=> doing'[g] \in {"acting", "releasing"}
      BY <1>2, <2>1, <2>2 DEF LeaseInv, LeaseTypeOK
    <2>4. \A f, g \in Hosts : token'[f] = token'[g] => f = g \/ token'[f] = NoToken
      BY <1>2, <2>1 DEF LeaseInv, LeaseTypeOK
    <2>. QED  BY <1>1, <1>2, <2>3, <2>4 DEF LeaseInv, LeaseTypeOK, Grant, TakeRow
  <1>4. HolderKeepsLease'
    BY <1>1 DEF LeaseInv, LeaseTypeOK, HolderKeepsLease, Grant, TakeRow, Free
  <1>. QED  BY <1>3, <1>4 DEF LeaseInv

LEMMA GrantUnheardOK ==
    ASSUME LeaseInv, NEW h \in Hosts, GrantUnheard(h)
    PROVE  LeaseInv'
  <1>1. PICK t \in Fresh : TakeRow(h, t)
    BY DEF GrantUnheard
  <1>2. LeaseTypeOK'
    BY <1>1 DEF LeaseInv, LeaseTypeOK, GrantUnheard, TakeRow, Fresh
  <1>3. HolderKeepsLease'
    BY <1>1 DEF LeaseInv, LeaseTypeOK, HolderKeepsLease, GrantUnheard, TakeRow, Free
  <1>. QED  BY <1>2, <1>3 DEF LeaseInv

LEMMA AskOK ==
    ASSUME LeaseInv, NEW h \in Hosts, Ask(h) \/ Refuse(h) \/ AskFails(h) \/ EndAction(h)
    PROVE  LeaseInv'
  <1>1. LeaseTypeOK'
    BY DEF LeaseInv, LeaseTypeOK, Ask, Refuse, AskFails, EndAction, rowVars
  <1>2. HolderKeepsLease'
    BY DEF LeaseInv, LeaseTypeOK, HolderKeepsLease, Ask, Refuse, AskFails, EndAction, rowVars
  <1>. QED  BY <1>1, <1>2 DEF LeaseInv

LEMMA LeaveOK ==
    ASSUME LeaseInv, NEW h \in Hosts, Leave(h)
    PROVE  /\ doing' \in [Hosts -> {"idle", "asking", "acting", "releasing"}]
           /\ token' \in [Hosts -> Tokens \cup {NoToken}]
           /\ over' \in [Hosts -> BOOLEAN]
           /\ \A g \in Hosts : token'[g] # NoToken <=> doing'[g] \in {"acting", "releasing"}
           /\ \A f, g \in Hosts : token'[f] = token'[g] => f = g \/ token'[f] = NoToken
  BY DEF LeaseInv, LeaseTypeOK, Leave

\* The release of h, late or not, finds its own lease or none.
LEMMA ReleaseOK ==
    ASSUME LeaseInv, NEW h \in Hosts, Release(h) \/ ReleaseFails(h) \/ Crash(h)
    PROVE  LeaseInv'
  <1>1. Leave(h)
    BY DEF Release, ReleaseFails, Crash
  <1>2. LeaseTypeOK'
    BY <1>1, LeaveOK DEF LeaseInv, LeaseTypeOK, Release, ReleaseFails, Crash, OwnsLease, rowVars
  <1>3. HolderKeepsLease'
    BY <1>1 DEF LeaseInv, LeaseTypeOK, HolderKeepsLease, Leave, Release, ReleaseFails, Crash,
                OwnsLease, rowVars
  <1>. QED  BY <1>2, <1>3 DEF LeaseInv

LEMMA LapseOK ==
    ASSUME LeaseInv, (\E h \in Hosts : Lapse(h)) \/ LapseUnheld
    PROVE  LeaseInv'
  <1>1. LeaseTypeOK'
    BY DEF LeaseInv, LeaseTypeOK, Lapse, LapseUnheld
  <1>2. HolderKeepsLease'
    BY DEF LeaseInv, LeaseTypeOK, HolderKeepsLease, Lapse, LapseUnheld
  <1>. QED  BY <1>1, <1>2 DEF LeaseInv

LEMMA LeaseNextOK ==
    ASSUME LeaseInv, [LeaseNext]_leaseVars
    PROVE  LeaseInv'
  <1>1. CASE UNCHANGED leaseVars
    BY <1>1 DEF leaseVars, rowVars, LeaseInv, LeaseTypeOK, HolderKeepsLease
  <1>. QED
    BY <1>1, GrantOK, GrantUnheardOK, AskOK, ReleaseOK, LapseOK DEF LeaseNext

LEMMA LeaseInductive == LeaseSpec => []LeaseInv
  BY LeaseInitOK, LeaseNextOK, PTL DEF LeaseSpec

\* The row and the hosts keep their types, and no two runs hold one token.
THEOREM LeaseTypeCorrect == LeaseSpec => []LeaseTypeOK
  <1>1. LeaseInv => LeaseTypeOK
    BY DEF LeaseInv
  <1>. QED  BY <1>1, LeaseInductive, PTL

\* Within the time of its lease a run of the job keeps the row of
\* scheduled_job_leases: no other server's statement takes it away.
THEOREM LeaseIsKept == LeaseSpec => []HolderKeepsLease
  <1>1. LeaseInv => HolderKeepsLease
    BY DEF LeaseInv
  <1>. QED  BY <1>1, LeaseInductive, PTL

\* Two runs of a job overlap only when one of them has outlived its lease.
THEOREM RunsApart == LeaseSpec => []AloneWithinLease
  <1>1. LeaseInv => AloneWithinLease
    BY DEF LeaseInv, HolderKeepsLease, AloneWithinLease
  <1>. QED  BY <1>1, LeaseInductive, PTL

\* A lease does what it is for.
THEOREM LeaseWorks == LeaseSpec => []LeaseSound
  BY LeaseTypeCorrect, LeaseIsKept, RunsApart, PTL DEF LeaseSound

-----------------------------------------------------------------------------
(* The refresh.                                                            *)

(* A host runs a refresh only while it acts; what it has seen is among what *)
(* it was asked for, and while it has found an old rate of each, the table  *)
(* has them.                                                                *)
RunSound(h) ==
    /\ doing[h] # "acting" => run[h] = NoRun
    /\ run[h].seen \subseteq run[h].targets
    /\ run[h].at = "stored" => run[h].seen = run[h].targets /\ run[h].seen \subseteq rated
    /\ run[h].at \in {"check", "alerted"} /\ run[h].available => run[h].seen \subseteq rated
    /\ run[h].at = "alerted" => run[h].seen = run[h].targets

Places == {"list", "primary", "fallback", "append", "check", "stored", "alerted", "over"}
Run == [at : Places, targets : SUBSET Currencies, seen : SUBSET Currencies,
        available : BOOLEAN]

RInv ==
    /\ active \subseteq Currencies
    /\ rated \subseteq Currencies
    /\ run \in [Hosts -> Run]
    /\ \A h \in Hosts : RunSound(h)

-----------------------------------------------------------------------------
(* Steps of the composition are steps of the lease, or leave it alone.     *)

LEMMA RunStepKeepsLease ==
    ASSUME NEW h \in Hosts, RunStep(h)
    PROVE  doing[h] = "acting" /\ UNCHANGED leaseVars
  BY DEF RunStep, List, Primary, PrimaryFails, Fallback, FallbackFails, AppendRate, Store,
         StoreUnheard, AppendFails, CheckHistory, Alert, RunFails, At, Turn, GoTo, Over

LEMMA StepIsLeaseStep == [RatesNext]_allVars => [LeaseNext]_leaseVars
<1> SUFFICES ASSUME [RatesNext]_allVars PROVE [LeaseNext]_leaseVars
  OBVIOUS
<1>1. CASE \E h \in Hosts : RunStep(h)
  BY <1>1, RunStepKeepsLease
<1>2. CASE \E h \in Hosts : EndRun(h) \/ CrashInRun(h)
  BY <1>2 DEF EndRun, CrashInRun, LeaseNext
<1>3. CASE LeaseStep
  BY <1>3 DEF LeaseStep, LeaseNext
<1>4. CASE ActiveChanges
  BY <1>4 DEF ActiveChanges
<1>5. CASE UNCHANGED allVars
  BY <1>5 DEF allVars
<1>. QED  BY <1>1, <1>2, <1>3, <1>4, <1>5 DEF RatesNext

(* The refresh job is a job under a lease: what is proved of leases holds  *)
(* for it (scheduled_jobs.cpp, recurring_job.cpp).                         *)
THEOREM KeepsLease == RatesSpec => LeaseSpec
<1>1. RatesInit => LeaseInit
  BY DEF RatesInit
<1>. QED  BY <1>1, StepIsLeaseStep, PTL DEF RatesSpec, LeaseSpec

(* Two servers that refresh at the same time do so because one of them has *)
(* outlived its lease; a late release takes no lease away.                 *)
THEOREM RefreshUnderLease == RatesSpec => []LeaseSound
  BY KeepsLease, LeaseWorks, PTL

-----------------------------------------------------------------------------
(* The runs.                                                               *)

LEMMA NoRunIsRun == NoRun \in Run
  BY DEF NoRun, Run, Places

LEMMA InitSound == RatesInit => RInv
<1> SUFFICES ASSUME RatesInit PROVE RInv
  OBVIOUS
<1>1. \A h \in Hosts : run[h] = NoRun
  BY DEF RatesInit
<1>2. \A h \in Hosts : RunSound(h)
  BY <1>1 DEF RunSound, NoRun
<1>. QED  BY <1>2, NoRunIsRun DEF RatesInit, RInv

(* A step that changes the run of one host, and adds rates at most.        *)
LEMMA OneRun ==
    ASSUME RInv, NEW h \in Hosts, NEW r \in Run,
           run' = [run EXCEPT ![h] = r],
           \A g \in Hosts \ {h} : doing'[g] = doing[g],
           active' \subseteq Currencies, rated \subseteq rated', rated' \subseteq Currencies,
           RunSound(h)'
    PROVE  RInv'
<1>1. \A g \in Hosts \ {h} : run'[g] = run[g]
  BY DEF RInv
<1>2. \A g \in Hosts \ {h} : RunSound(g)'
  BY <1>1 DEF RInv, RunSound
<1>3. run' \in [Hosts -> Run]
  BY DEF RInv
<1>. QED  BY <1>2, <1>3 DEF RInv

LEMMA RunStepSound ==
    ASSUME RInv, NEW h \in Hosts, RunStep(h)
    PROVE  RInv'
<1>1. doing[h] = "acting" /\ doing' = doing
  BY RunStepKeepsLease DEF leaseVars
<1>2. /\ run[h] \in Run /\ RunSound(h) /\ active \subseteq Currencies
      /\ rated \subseteq Currencies
  BY DEF RInv
(* Stages that only move on. *)
<1>3. ASSUME NEW place \in {"append", "fallback", "check"}, GoTo(h, place)
      PROVE  RInv'
  <2> DEFINE r == [NoRun EXCEPT !.at = place, !.targets = run[h].targets]
  <2>2. r \in Run /\ r.at = place /\ r.targets = run[h].targets /\ r.seen = {}
    BY <1>2 DEF NoRun, Run, Places
  <2>3. run' = [run EXCEPT ![h] = r] /\ active' = active /\ rated' = rated
    BY <1>3 DEF GoTo
  <2>4. run'[h] = r
    BY <2>3 DEF RInv
  <2> HIDE DEF r
  <2>5. RunSound(h)'
    BY <1>1, <1>2, <2>2, <2>3, <2>4 DEF RunSound
  <2>. QED  BY <1>1, <1>2, <2>2, <2>3, <2>5, OneRun
<1>4. ASSUME NEW r \in Run, Turn(h, r), rated \subseteq rated', rated' \subseteq Currencies,
             run'[h] = r => RunSound(h)'
      PROVE  RInv'
  BY <1>1, <1>2, <1>4, OneRun DEF Turn, RInv
<1>5. ASSUME Over(h)
      PROVE  RInv'
  <2> DEFINE r == [NoRun EXCEPT !.at = "over"]
  <2>2. r \in Run /\ r.at = "over" /\ r.targets = {} /\ r.seen = {}
    BY DEF NoRun, Run, Places
  <2>3. run' = [run EXCEPT ![h] = r] /\ active' = active /\ rated' = rated
    BY <1>5 DEF Over
  <2>4. run'[h] = r
    BY <2>3 DEF RInv
  <2> HIDE DEF r
  <2>5. RunSound(h)'
    BY <1>1, <2>2, <2>3, <2>4 DEF RunSound
  <2>. QED  BY <1>1, <1>2, <2>2, <2>3, <2>5, OneRun
<1>6. CASE List(h) /\ active # {}
  <2> DEFINE r == [NoRun EXCEPT !.at = "primary", !.targets = active]
  <2>2. r \in Run /\ r.at = "primary" /\ r.targets = active /\ r.seen = {}
    BY <1>2 DEF NoRun, Run, Places
  <2>3. Turn(h, r) /\ rated' = rated
    BY <1>6 DEF List
  <2> HIDE DEF r
  <2>4. run'[h] = r => RunSound(h)'
    BY <1>1, <1>2, <2>2 DEF RunSound
  <2>. QED  BY <1>2, <1>4, <2>2, <2>3, <2>4
<1>7. CASE AppendRate(h)
  <2>1. PICK c \in run[h].targets \ run[h].seen :
            Turn(h, [run[h] EXCEPT !.seen = @ \cup {c}])
    BY <1>7 DEF AppendRate
  <2> DEFINE r == [run[h] EXCEPT !.seen = @ \cup {c}]
  <2>3. /\ r \in Run /\ r.at = "append" /\ r.targets = run[h].targets
        /\ r.seen = run[h].seen \cup {c}
    BY <1>2, <1>7 DEF Run, Places, AppendRate, At, RunSound
  <2> HIDE DEF r
  <2>4. run'[h] = r => RunSound(h)'
    BY <1>1, <1>2, <2>3 DEF RunSound
  <2>. QED  BY <1>2, <1>4, <1>7, <2>1, <2>3, <2>4 DEF AppendRate, r
<1>8. CASE Store(h)
  <2> DEFINE r == [run[h] EXCEPT !.at = "stored"]
  <2>2. /\ r \in Run /\ r.at = "stored" /\ r.targets = run[h].targets
        /\ r.seen = run[h].seen
    BY <1>2 DEF Run, Places
  <2>3. Turn(h, r) /\ rated' = rated \cup run[h].seen /\ run[h].seen = run[h].targets
    BY <1>8 DEF Store
  <2> HIDE DEF r
  <2>4. run'[h] = r => RunSound(h)'
    BY <1>1, <1>2, <2>2, <2>3 DEF RunSound
  <2>5. rated \subseteq rated' /\ rated' \subseteq Currencies
    BY <1>2, <2>3 DEF Run
  <2>. QED  BY <1>4, <2>2, <2>3, <2>4, <2>5
<1>9. CASE StoreUnheard(h)
  <2> DEFINE r == [NoRun EXCEPT !.at = "over"]
  <2>2. r \in Run /\ r.at = "over" /\ r.targets = {} /\ r.seen = {}
    BY DEF NoRun, Run, Places
  <2>3. Turn(h, r) /\ rated' = rated \cup run[h].seen
    BY <1>9 DEF StoreUnheard
  <2> HIDE DEF r
  <2>4. run'[h] = r => RunSound(h)'
    BY <1>1, <2>2 DEF RunSound
  <2>5. rated \subseteq rated' /\ rated' \subseteq Currencies
    BY <1>2, <2>3 DEF Run
  <2>. QED  BY <1>4, <2>2, <2>3, <2>4, <2>5
(* A query counts only what the table has, and the table keeps it. *)
<1>10. CASE CheckHistory(h)
  <2>1. PICK c \in run[h].targets \ run[h].seen :
            Turn(h, [run[h] EXCEPT !.seen = @ \cup {c}, !.available = @ /\ c \in rated])
    BY <1>10 DEF CheckHistory
  <2> DEFINE r == [run[h] EXCEPT !.seen = @ \cup {c}, !.available = @ /\ c \in rated]
  <2>3. /\ r \in Run /\ r.at = "check" /\ r.targets = run[h].targets
        /\ r.seen = run[h].seen \cup {c}
        /\ r.available = (run[h].available /\ c \in rated)
    BY <1>2, <1>10 DEF Run, Places, CheckHistory, At, RunSound
  <2>4. rated' = rated /\ run[h].at = "check"
    BY <1>10 DEF CheckHistory, At
  <2> HIDE DEF r
  <2>5. run'[h] = r => RunSound(h)'
    BY <1>1, <1>2, <2>3, <2>4 DEF RunSound
  <2>. QED  BY <1>2, <1>4, <2>1, <2>3, <2>4, <2>5 DEF r
<1>11. CASE Alert(h)
  <2> DEFINE r == [run[h] EXCEPT !.at = "alerted"]
  <2>2. /\ r \in Run /\ r.at = "alerted" /\ r.targets = run[h].targets
        /\ r.seen = run[h].seen /\ r.available = run[h].available
    BY <1>2 DEF Run, Places
  <2>3. /\ Turn(h, r) /\ rated' = rated /\ run[h].seen = run[h].targets
        /\ run[h].at = "check"
    BY <1>11 DEF Alert, At
  <2> HIDE DEF r
  <2>4. run'[h] = r => RunSound(h)'
    BY <1>1, <1>2, <2>2, <2>3 DEF RunSound
  <2>. QED  BY <1>2, <1>4, <2>2, <2>3, <2>4
<1>. QED
  BY <1>3, <1>5, <1>6, <1>7, <1>8, <1>9, <1>10, <1>11
  DEF RunStep, List, Primary, PrimaryFails, Fallback, FallbackFails, AppendFails, RunFails

LEMMA NextSound ==
    ASSUME LeaseTypeOK, RInv, [RatesNext]_allVars
    PROVE  RInv'
<1>1. CASE \E h \in Hosts : RunStep(h)
  BY <1>1, RunStepSound
(* The run is over, and forgotten. *)
<1>2. ASSUME NEW h \in Hosts, EndRun(h) \/ CrashInRun(h)
      PROVE  RInv'
  <2>1. /\ run' = [run EXCEPT ![h] = NoRun]
        /\ active' = active /\ rated' = rated
        /\ \A g \in Hosts \ {h} : doing'[g] = doing[g]
    BY <1>2 DEF LeaseTypeOK, EndRun, CrashInRun, EndAction, Crash, Leave
  <2>2. run'[h] = NoRun
    BY <2>1 DEF RInv
  <2>3. RunSound(h)'
    BY <2>2 DEF RunSound, NoRun
  <2>. QED  BY <2>1, <2>3, NoRunIsRun, OneRun DEF RInv
(* The lease's own steps take no host out of its run. *)
<1>3. CASE LeaseStep
  <2>1. rated' = rated /\ active' = active /\ run' = run
    BY <1>3 DEF LeaseStep, rateVars
  <2>2. \A h \in Hosts : doing[h] = "acting" => doing'[h] = "acting"
    BY <1>3
    DEF LeaseStep, LeaseTypeOK, Ask, Grant, GrantUnheard, Refuse, AskFails, Release,
        ReleaseFails, Leave, Lapse, LapseUnheld
  <2>. QED  BY <2>1, <2>2 DEF RInv, RunSound
<1>4. CASE ActiveChanges
  BY <1>4 DEF ActiveChanges, leaseVars, RInv, RunSound
<1>5. CASE UNCHANGED allVars
  BY <1>5 DEF allVars, leaseVars, rateVars, RInv, RunSound
<1>. QED  BY <1>1, <1>2, <1>3, <1>4, <1>5 DEF RatesNext

(* A refresh stores a rate for each currency or none, whichever provider    *)
(* answered and whoever refreshes beside it, and the alert that old rates   *)
(* cover an outage is true (refresh_exchange_rates_use_case.h).             *)
THEOREM RefreshesSound == RatesSpec => []RefreshSound
<1>1. RInv => RefreshSound
  BY DEF RInv, RunSound, Run, Places, RefreshSound, RatesTypeOK
<1>2. RatesSpec => []LeaseTypeOK
  BY KeepsLease, LeaseTypeCorrect, PTL
<1>. QED  BY <1>1, <1>2, InitSound, NextSound, PTL DEF RatesSpec

=============================================================================
