------------------------------ MODULE SerialRun ------------------------------
(***************************************************************************)
(* ExecutionSession::run without concurrent dispatch                       *)
(* (lib/Runtime/Execution/ExecutionSession.cpp): forced by the environment *)
(* variable, for backends that do not support it and for single tasks.     *)
(* The caller runs one task after the other from a queue of its own.       *)
(*                                                                         *)
(* A graph is built with addTask, then planned and run once.  Tasks are    *)
(* named by their place in the plan, orderedTaskIds.                       *)
(***************************************************************************)
EXTENDS TaskGraph

CONSTANTS
  NoGraph,      \* marks that run() has not begun, or has returned
  MaxRun        \* bound: graphs of up to so many tasks are run

ASSUME MaxRunAssumption == MaxRun \in Nat

VARIABLES
  phase,        \* "built", "ready", "executing", "unprepared", "failed",
                \* "returned"
  plan,         \* orderedTaskIds with tasksById: the tasks in order
  reads,        \* upstream tasks of each task's inputs
  supported,    \* the tasks for which canScheduleTask succeeds
  remaining,    \* remainingDependencies
  readyQueue,
  completed,    \* completedTasks, and the tasks whose outputs are recorded
  outcome

run  == <<phase, plan, reads, supported, remaining, readyQueue, completed, outcome>>
vars == <<tasks, run>>

Size == Len(plan)

\* How often the task at place n lists the one at place d.
TimesListed(n, d) == Lists(plan, n, plan[d].id)

Needs(n) == {d \in 1 .. Size : TimesListed(n, d) > 0}

\* What the inputs of the tasks read: outputs of declared dependencies, or
\* besides, in one task, the output of another.
Readings(ots) ==
  LET declared ==
        [n \in Positions(ots) |->
           {d \in Positions(ots) : Lists(ots, n, ots[d].id) > 0}]
  IN  {declared} \cup
      {[declared EXCEPT ![n] = @ \cup {d}] : n, d \in Positions(ots)}

Supports(ots) ==
  {Positions(ots)} \cup {Positions(ots) \ {n} : n \in Positions(ots)}

\* buildSchedulerState; run() returns the error when there is no order.
Build ==
  LET ordered == Ordered(tasks)
      ots == [n \in DOMAIN ordered.order |-> tasks[ordered.order[n]]]
  IN  /\ phase = "built"
      /\ Len(tasks) <= MaxRun
      /\ ordered.error = "none"
      /\ plan' = ots
      /\ reads' \in Readings(ots)
      /\ supported' \in Supports(ots)
      /\ remaining' = [n \in Positions(ots) |-> Len(ots[n].deps)]
      /\ readyQueue' = Ascending({n \in Positions(ots) : ots[n].deps = <<>>})
      /\ phase' = "ready"
      /\ UNCHANGED <<tasks, completed, outcome>>

Reject ==
  /\ phase = "built"
  /\ Len(tasks) <= MaxRun
  /\ Ordered(tasks).error # "none"
  /\ phase' = "returned"
  /\ outcome' = "error"
  /\ UNCHANGED <<tasks, plan, reads, supported, remaining, readyQueue,
                 completed>>

Preparable(n) == n \in supported /\ reads[n] \subseteq completed

\* The head of the queue goes to the backend if it can be prepared.
Take ==
  /\ phase = "ready"
  /\ readyQueue # <<>>
  /\ phase' = IF Preparable(Head(readyQueue)) THEN "executing" ELSE "unprepared"
  /\ UNCHANGED <<tasks, plan, reads, supported, remaining, readyQueue,
                 completed, outcome>>

\* Variants, here and below: definitions with a plausible defect, named for
\* it.  No run uses one; with it in place of the definition that follows, a
\* property of the runs must fail.
ExecutedLeavesDuplicates ==
  LET t == Head(readyQueue)
      Counts(n) == TimesListed(n, t) > 0 /\ remaining[n] > 0
      Freed(n) == Counts(n) /\ remaining[n] = 1
  IN  /\ phase = "executing"
      /\ completed' = completed \cup {t}
      /\ remaining' = [n \in 1 .. Size |-> IF Counts(n) THEN remaining[n] - 1
                                           ELSE remaining[n]]
      /\ readyQueue' = Tail(readyQueue) \o Ascending({n \in 1 .. Size : Freed(n)})
      /\ phase' = "ready"
      /\ UNCHANGED <<tasks, plan, reads, supported, outcome>>

ExecutedToFront ==
  LET t == Head(readyQueue)
      Freed(n) == TimesListed(n, t) > 0 /\ remaining[n] = TimesListed(n, t)
  IN  /\ phase = "executing"
      /\ completed' = completed \cup {t}
      /\ remaining' = [n \in 1 .. Size |-> IF remaining[n] > TimesListed(n, t)
                                           THEN remaining[n] - TimesListed(n, t)
                                           ELSE 0]
      /\ readyQueue' = Ascending({n \in 1 .. Size : Freed(n)}) \o Tail(readyQueue)
      /\ phase' = "ready"
      /\ UNCHANGED <<tasks, plan, reads, supported, outcome>>

\* It succeeds: its dependents count one dependency less for each time they
\* list it, and join the queue when none is left.
Executed ==
  LET t == Head(readyQueue)
      Freed(n) == /\ TimesListed(n, t) > 0
                  /\ remaining[n] > 0
                  /\ remaining[n] <= TimesListed(n, t)
  IN  /\ phase = "executing"
      /\ completed' = completed \cup {t}
      /\ remaining' = [n \in 1 .. Size |-> IF remaining[n] > TimesListed(n, t)
                                           THEN remaining[n] - TimesListed(n, t)
                                           ELSE 0]
      /\ readyQueue' = Tail(readyQueue) \o Ascending({n \in 1 .. Size : Freed(n)})
      /\ phase' = "ready"
      /\ UNCHANGED <<tasks, plan, reads, supported, outcome>>

\* It fails; run() is about to return the backend's error.
ExecutionFails ==
  /\ phase = "executing"
  /\ phase' = "failed"
  /\ UNCHANGED <<tasks, plan, reads, supported, remaining, readyQueue,
                 completed, outcome>>

ReturnError ==
  /\ phase \in {"unprepared", "failed"}
  /\ phase' = "returned"
  /\ outcome' = "error"
  /\ UNCHANGED <<tasks, plan, reads, supported, remaining, readyQueue,
                 completed>>

\* The queue is empty: the tasks that were completed are counted.
ReturnResult ==
  /\ phase = "ready"
  /\ readyQueue = <<>>
  /\ phase' = "returned"
  /\ outcome' = IF Cardinality(completed) # Size THEN "incomplete" ELSE "ok"
  /\ UNCHANGED <<tasks, plan, reads, supported, remaining, readyQueue,
                 completed>>

SerialInit ==
  /\ Init
  /\ phase = "built"
  /\ plan = <<>>
  /\ reads = <<>>
  /\ supported = {}
  /\ remaining = <<>>
  /\ readyQueue = <<>>
  /\ completed = {}
  /\ outcome = "none"

SerialNext ==
  \/ phase = "built" /\ Next /\ UNCHANGED run
  \/ Build
  \/ Reject
  \/ Take
  \/ Executed
  \/ ExecutionFails
  \/ ReturnError
  \/ ReturnResult

SerialSpec == SerialInit /\ [][SerialNext]_vars
-----------------------------------------------------------------------------
(* Properties.                                                             *)

\* The serial path has a queue and counters of its own, and yet it executes
\* the tasks in exactly the order of the plan that plan() reports.
FollowsPlan ==
  LET k == Cardinality(completed)
  IN  phase \in {"ready", "executing"} =>
        /\ completed = 1 .. k
        /\ readyQueue # <<>> => Head(readyQueue) = k + 1
        /\ readyQueue = <<>> => k = Size

-----------------------------------------------------------------------------
(* The promise of TaskGraphRun.tla, for the one call.                      *)

Under == phase \in {"ready", "executing", "unprepared", "failed"}

StatusOf(n) ==
  IF ~Under \/ n > Size THEN "waiting"
  ELSE IF n \in completed THEN "done"
  ELSE IF readyQueue = <<>> \/ n # Head(readyQueue) THEN "waiting"
  ELSE IF phase \in {"executing", "failed"} THEN phase
  ELSE "waiting"

Places == 1 .. MaxRun

Graphs == [tasks : SUBSET Places, needs : [Places -> SUBSET Places]]

ASSUME NoGraphAssumption == NoGraph \notin Graphs

GraphOfPlan ==
  [ tasks |-> 1 .. Size,
    needs |-> [n \in Places |-> IF n <= Size THEN Needs(n) ELSE {}] ]

Call == "call"

Promise ==
  INSTANCE TaskGraphRun WITH
    Run     <- {Call},
    Task    <- Places,
    Graph   <- Graphs,
    NoGraph <- NoGraph,
    graph   <- [r \in {Call} |-> IF Under THEN GraphOfPlan ELSE NoGraph],
    status  <- [r \in {Call} |-> [n \in Places |-> StatusOf(n)]],
    fault   <- [r \in {Call} |-> phase \in {"unprepared", "failed"}],
    outcome <- [r \in {Call} |-> outcome]

\* The serial path keeps the promise that the concurrent one keeps.
KeepsPromise == Promise!RunSpec
=============================================================================
