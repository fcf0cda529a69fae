--------------------------- MODULE ExecutionSession ---------------------------
(***************************************************************************)
(* ExecutionSession::run when it dispatches concurrently                   *)
(* (lib/Runtime/Execution/ExecutionSession.cpp): every caller submits its  *)
(* graph to the process-wide GlobalScheduler, spawns workers that acquire, *)
(* prepare, run and report tasks, joins them and releases the session.     *)
(*                                                                         *)
(* A call into the scheduler is the action of GlobalScheduler.tla.  While  *)
(* its admission loop runs, the steps of this module wait: they read       *)
(* nothing that the loop writes, so letting them in between would only     *)
(* swap independent steps.                                                 *)
(*                                                                         *)
(* Kernels run in the backends; all the model knows of one is whether it   *)
(* ended well.  Every session is run once, since its id is never reused.   *)
(***************************************************************************)
EXTENDS GlobalScheduler

CONSTANTS
  Worker,       \* worker threads of one call, numbered from 1
  Hardware      \* std::thread::hardware_concurrency()

\* orderedTasks has found an order: no tasks wait for one another in a circle.
HasOrder(j) ==
  \A S \in SUBSET j.tasks :
    S # {} => \E t \in S : \A i \in DOMAIN j.deps[t] : j.deps[t][i] \notin S

\* What run() reads of a submission besides what submit() reads.
RunShape(j) ==
  /\ HasOrder(j)
  /\ j.binds \in [j.tasks -> SUBSET Task]   \* upstream tasks of the inputs
  /\ j.supported \subseteq j.tasks          \* canScheduleTask succeeds
  /\ j.ownBackends \in BOOLEAN              \* driver_ is set

ASSUME RunAssumption == \A j \in Job : RunShape(j) /\ Cardinality(j.tasks) > 1

VARIABLES
  main,         \* the caller: "idle", "joining" or "returned"
  pc,           \* where each worker is
  task,         \* the task a worker has acquired
  broken,       \* the local `failed`
  produced,     \* completedTasks, and the tasks whose outputs are recorded
  outcome       \* what run() has returned

locals == <<main, pc, task, broken, produced, outcome>>
allVars == <<vars, locals>>

NoTask == 0

AtLeastOne(n) == IF n = 0 THEN 1 ELSE n
Least(S) == CHOOSE n \in S : \A m \in S : n <= m

\* workerCount
WorkerCount(j) ==
  Least({ Cardinality(j.tasks),
          AtLeastOne(j.maxConcurrentTasks),
          IF Hardware = 0 THEN 4 ELSE Hardware })

WorkersOf(j) == {w \in Worker : w <= WorkerCount(j)}

\* Worker has every thread that run() spawns.
ASSUME WorkerAssumption ==
  /\ Worker \subseteq Nat \ {0} /\ Hardware \in Nat /\ 0 \notin Task
  /\ \A j \in Job : 1 .. WorkerCount(j) \subseteq Worker

\* schedulerCv_.notify_all(): whoever waits looks again.
Woken(p) ==
  [s \in Session |->
     [w \in Worker |-> IF p[s][w] = "parked" THEN "acquire" ELSE p[s][w]]]

Goto(s, w, to) == [pc EXCEPT ![s][w] = to]

-----------------------------------------------------------------------------
(* The calling thread.                                                     *)

\* buildSchedulerState has accepted the graph; submit and spawn.
BeginRun(s, j) ==
  /\ main[s] = "idle"
  /\ Submit(s, j)
  /\ main' = [main EXCEPT ![s] = "joining"]
  /\ pc' = Woken([pc EXCEPT ![s] =
             [w \in Worker |-> IF w \in WorkersOf(j) THEN "start" ELSE "exited"]])
  /\ UNCHANGED <<task, broken, produced, outcome>>

\* Variants, here and below: definitions with a plausible defect, named for
\* it.  No run uses one; with it in place of the definition that follows, a
\* property of the runs must fail.
EndRunSilently(s) ==
  /\ main[s] = "joining"
  /\ \A w \in Worker : pc[s][w] = "exited"
  /\ Release(s)
  /\ main' = [main EXCEPT ![s] = "returned"]
  /\ outcome' = [outcome EXCEPT ![s] = IF broken[s] THEN "error" ELSE "ok"]
  /\ broken' = [broken EXCEPT ![s] = FALSE]
  /\ produced' = [produced EXCEPT ![s] = {}]
  /\ UNCHANGED <<pc, task>>

\* All workers are joined: release the session and return.
EndRun(s) ==
  /\ main[s] = "joining"
  /\ \A w \in Worker : pc[s][w] = "exited"
  /\ Release(s)
  /\ main' = [main EXCEPT ![s] = "returned"]
  /\ outcome' = [outcome EXCEPT ![s] =
                   IF broken[s] THEN "error"
                   ELSE IF produced[s] # job[s].tasks THEN "incomplete"
                   ELSE "ok"]
  /\ broken' = [broken EXCEPT ![s] = FALSE]
  /\ produced' = [produced EXCEPT ![s] = {}]
  /\ pc' = Woken(pc)
  /\ UNCHANGED task

-----------------------------------------------------------------------------
(* A worker.                                                               *)

\* With a driver each worker creates a backend of its own, which may fail;
\* then the worker ends without having taken a task.
StartWorker(s, w) ==
  /\ MutexFree
  /\ pc[s][w] = "start"
  /\ \/ pc' = Goto(s, w, "acquire") /\ UNCHANGED broken
     \/ /\ job[s].ownBackends
        /\ pc' = Goto(s, w, "exited")
        /\ broken' = [broken EXCEPT ![s] = TRUE]
  /\ UNCHANGED <<vars, main, task, produced, outcome>>

NothingReserved(s) == \A t \in Task : state[<<s, t>>] # "Reserved"

AcquireTask(s, w) ==
  /\ pc[s][w] = "acquire"
  /\ \E t \in Task : /\ Acquire(s, t)
                     /\ task' = [task EXCEPT ![s][w] = t]
  /\ pc' = Goto(s, w, "prepare")
  /\ UNCHANGED <<main, broken, produced, outcome>>

\* waitAndAcquireTask returns no task.
Finished(s, w) ==
  /\ MutexFree
  /\ pc[s][w] = "acquire"
  /\ NothingReserved(s)
  /\ Drained(s)
  /\ pc' = Goto(s, w, "exited")
  /\ UNCHANGED <<vars, main, task, broken, produced, outcome>>

Park(s, w) ==
  /\ MutexFree
  /\ pc[s][w] = "acquire"
  /\ NothingReserved(s)
  /\ ~Drained(s)
  /\ pc' = Goto(s, w, "parked")
  /\ UNCHANGED <<vars, main, task, broken, produced, outcome>>

Preparable(s, t) ==
  t \in job[s].supported /\ job[s].binds[t] \subseteq produced[s]

\* canScheduleTask and resolveTaskBindings, under sessionMutex.
Prepare(s, w) ==
  /\ MutexFree
  /\ pc[s][w] = "prepare"
  /\ IF Preparable(s, task[s][w])
     THEN pc' = Goto(s, w, "run") /\ UNCHANGED broken
     ELSE /\ pc' = Goto(s, w, "failing")
          /\ broken' = [broken EXCEPT ![s] = TRUE]
  /\ UNCHANGED <<vars, main, task, produced, outcome>>

RunTaskUnrecorded(s, w) ==
  /\ MutexFree
  /\ pc[s][w] = "run"
  /\ pc' = Goto(s, w, "completing")
  /\ UNCHANGED <<vars, main, task, broken, produced, outcome>>

\* The backend has run the task; outputs are recorded before the scheduler
\* hears of it.
RunTask(s, w) ==
  /\ MutexFree
  /\ pc[s][w] = "run"
  /\ pc' = Goto(s, w, "completing")
  /\ produced' = [produced EXCEPT ![s] = @ \cup {task[s][w]}]
  /\ UNCHANGED <<vars, main, task, broken, outcome>>

RunErrorUnnoticed(s, w) ==
  /\ MutexFree
  /\ pc[s][w] = "run"
  /\ pc' = Goto(s, w, "failing")
  /\ UNCHANGED <<vars, main, task, broken, produced, outcome>>

\* The backend reports an error.
RunError(s, w) ==
  /\ MutexFree
  /\ pc[s][w] = "run"
  /\ pc' = Goto(s, w, "failing")
  /\ broken' = [broken EXCEPT ![s] = TRUE]
  /\ UNCHANGED <<vars, main, task, produced, outcome>>

ReportSuccess(s, w) ==
  /\ pc[s][w] = "completing"
  /\ Complete(s, task[s][w])
  /\ pc' = Woken(Goto(s, w, "acquire"))
  /\ task' = [task EXCEPT ![s][w] = NoTask]
  /\ UNCHANGED <<main, broken, produced, outcome>>

FailureForgotten(s, w) ==
  /\ MutexFree
  /\ pc[s][w] = "failing"
  /\ pc' = Goto(s, w, "acquire")
  /\ task' = [task EXCEPT ![s][w] = NoTask]
  /\ UNCHANGED <<vars, main, broken, produced, outcome>>

ReportFailureSilently(s, w) ==
  /\ pc[s][w] = "failing"
  /\ Fail(s, task[s][w])
  /\ pc' = Goto(s, w, "acquire")
  /\ task' = [task EXCEPT ![s][w] = NoTask]
  /\ UNCHANGED <<main, broken, produced, outcome>>

ReportFailure(s, w) ==
  /\ pc[s][w] = "failing"
  /\ Fail(s, task[s][w])
  /\ pc' = Woken(Goto(s, w, "acquire"))
  /\ task' = [task EXCEPT ![s][w] = NoTask]
  /\ UNCHANGED <<main, broken, produced, outcome>>

-----------------------------------------------------------------------------

RunsInit ==
  /\ Init
  /\ main = [s \in Session |-> "idle"]
  /\ pc = [s \in Session |-> [w \in Worker |-> "exited"]]
  /\ task = [s \in Session |-> [w \in Worker |-> NoTask]]
  /\ broken = [s \in Session |-> FALSE]
  /\ produced = [s \in Session |-> {}]
  /\ outcome = [s \in Session |-> "none"]

WorkerStep(s, w) ==
  \/ StartWorker(s, w)
  \/ AcquireTask(s, w)
  \/ Finished(s, w)
  \/ Park(s, w)
  \/ Prepare(s, w)
  \/ RunTask(s, w)
  \/ RunError(s, w)
  \/ ReportSuccess(s, w)
  \/ ReportFailure(s, w)

AdmissionStep == Admission /\ UNCHANGED locals

RunsNext ==
  \/ AdmissionStep
  \/ \E s \in Session :
       \/ \E j \in Job : BeginRun(s, j)
       \/ EndRun(s)
       \/ \E w \in Worker : WorkerStep(s, w)

\* The operating system runs every thread, and every kernel ends.
RunsFairness ==
  /\ WF_allVars(AdmissionStep)
  /\ \A s \in Session :
       /\ WF_allVars(EndRun(s))
       /\ \A w \in Worker : WF_allVars(WorkerStep(s, w))

RunsSpec == RunsInit /\ [][RunsNext]_allVars /\ RunsFairness
-----------------------------------------------------------------------------
(* Properties.                                                             *)

Busy == {"prepare", "run", "completing", "failing"}

\* What is running is in the hands of exactly one worker, so no two workers
\* run the same task and no task is lost between acquisition and report.
EachTaskOneWorker ==
  \A s \in Session :
    /\ InState(s, "Running") = {task[s][w] : w \in {v \in Worker : pc[s][v] \in Busy}}
    /\ \A w, v \in Worker : /\ pc[s][w] \in Busy
                            /\ pc[s][v] \in Busy
                            /\ task[s][w] = task[s][v]
                            => w = v

\* No wakeup is lost: a worker that waits on the condition variable has
\* nothing to take, and its session is not drained.
NoLostWakeup ==
  MutexFree =>
    \A s \in Session, w \in Worker :
      pc[s][w] = "parked" => NothingReserved(s) /\ ~Drained(s)

\* Outputs are recorded before the scheduler hears of the completion, so a
\* task whose inputs come from declared dependencies always resolves them.
DeclaredInputsResolve ==
  \A s \in Session, w \in Worker :
    /\ pc[s][w] = "prepare"
    /\ job[s].binds[task[s][w]] \subseteq
         {job[s].deps[task[s][w]][i] : i \in DOMAIN job[s].deps[task[s][w]]}
    => job[s].binds[task[s][w]] \subseteq produced[s]

\* Reservations are held only for runs under way: whichever way a run ends,
\* with tasks reserved that nobody took included, it leaves nothing behind.
NothingHeldAfterwards ==
  (\A s \in Session : main[s] # "joining") =>
    /\ \A r \in Resource : used[r] = 0
    /\ DOMAIN grant = {}

\* Every run returns: no worker waits for ever, whatever fails.
EveryRunReturns ==
  \A s \in Session : main[s] = "joining" ~> main[s] = "returned"

-----------------------------------------------------------------------------
(* The promise of TaskGraphRun.tla.  A task is in execution from the time  *)
(* a worker takes it until its end is known to run(), and what it needs is *)
(* what it declares as dependencies.                                       *)

GraphOf(j) ==
  [ tasks |-> j.tasks,
    needs |-> [t \in j.tasks |-> {j.deps[t][i] : i \in DOMAIN j.deps[t]}] ]

ASSUME NoJobAssumption == \A j \in Job : GraphOf(j) # NoJob

StatusOf(s, t) ==
  IF t \in produced[s] THEN "done"
  ELSE IF \/ state[<<s, t>>] = "Failed"
          \/ \E w \in Worker : pc[s][w] = "failing" /\ task[s][w] = t
       THEN "failed"
  ELSE IF state[<<s, t>>] = "Running" THEN "executing"
  ELSE "waiting"

Promise ==
  INSTANCE TaskGraphRun WITH
    Run     <- Session,
    Graph   <- {GraphOf(j) : j \in Job},
    NoGraph <- NoJob,
    graph   <- [s \in Session |-> IF s \in Live THEN GraphOf(job[s]) ELSE NoJob],
    status  <- [s \in Session |-> [t \in Task |-> StatusOf(s, t)]],
    fault   <- broken,
    outcome <- outcome

KeepsPromise == Promise!RunSpec
=============================================================================
