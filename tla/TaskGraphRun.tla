----------------------------- MODULE TaskGraphRun -----------------------------
(***************************************************************************)
(* What ExecutionSession::run promises its caller, whichever path it takes *)
(* and however its workers are scheduled: every task starts after the      *)
(* tasks it depends on are done and at most once, no task is in execution  *)
(* any more when run() returns, and run() succeeds exactly if every task   *)
(* of the graph is done and nothing went wrong.                            *)
(***************************************************************************)
CONSTANTS
  Run,          \* the calls of run(), each on a session of its own
  Task,
  Graph,        \* what they run: records with the fields tasks and needs
  NoGraph       \* marks a call that has not begun or has returned

VARIABLES
  graph,        \* what each call runs
  status,       \* of each task of each call
  fault,        \* whether something went wrong in the call
  outcome       \* what the call returned

runVars == <<graph, status, fault, outcome>>

Status == {"waiting", "executing", "done", "failed"}

RunTypeOK ==
  /\ graph \in [Run -> Graph \cup {NoGraph}]
  /\ status \in [Run -> [Task -> Status]]
  /\ fault \in [Run -> BOOLEAN]
  /\ outcome \in [Run -> {"none", "ok", "error"}]

RunInit ==
  /\ graph = [r \in Run |-> NoGraph]
  /\ status = [r \in Run |-> [t \in Task |-> "waiting"]]
  /\ fault = [r \in Run |-> FALSE]
  /\ outcome = [r \in Run |-> "none"]

Under(r) == graph[r] # NoGraph

\* Any graph; the last but one conjunct leaves the other calls alone.
Begin(r) ==
  /\ ~Under(r)
  /\ outcome[r] = "none"
  /\ graph'[r] \in Graph
  /\ graph' = [graph EXCEPT ![r] = graph'[r]]
  /\ UNCHANGED <<status, fault, outcome>>

\* A graph without an order is not run at all.
Refuse(r) ==
  /\ ~Under(r)
  /\ outcome[r] = "none"
  /\ outcome' = [outcome EXCEPT ![r] = "error"]
  /\ UNCHANGED <<graph, status, fault>>

Start(r, t) ==
  /\ Under(r)
  /\ t \in graph[r].tasks
  /\ status[r][t] = "waiting"
  /\ \A d \in graph[r].needs[t] : status[r][d] = "done"
  /\ status' = [status EXCEPT ![r][t] = "executing"]
  /\ UNCHANGED <<graph, fault, outcome>>

Finish(r, t) ==
  /\ Under(r)
  /\ status[r][t] = "executing"
  /\ status' = [status EXCEPT ![r][t] = "done"]
  /\ UNCHANGED <<graph, fault, outcome>>

FailTask(r, t) ==
  /\ Under(r)
  /\ status[r][t] = "executing"
  /\ status' = [status EXCEPT ![r][t] = "failed"]
  /\ fault' = [fault EXCEPT ![r] = TRUE]
  /\ UNCHANGED <<graph, outcome>>

\* Something goes wrong outside the execution of a task: no backend for a
\* worker, a task that cannot be prepared.
Trouble(r) ==
  /\ Under(r)
  /\ fault' = [fault EXCEPT ![r] = TRUE]
  /\ UNCHANGED <<graph, status, outcome>>

\* The tasks that are still waiting are given up only after a fault.
Return(r) ==
  /\ Under(r)
  /\ \A t \in graph[r].tasks : status[r][t] # "executing"
  /\ ~fault[r] => \A t \in graph[r].tasks : status[r][t] = "done"
  /\ outcome' = [outcome EXCEPT ![r] = IF fault[r] THEN "error" ELSE "ok"]
  /\ graph' = [graph EXCEPT ![r] = NoGraph]
  /\ status' = [status EXCEPT ![r] = [t \in Task |-> "waiting"]]
  /\ fault' = [fault EXCEPT ![r] = FALSE]

RunNext ==
  \E r \in Run :
    \/ Begin(r)
    \/ \E t \in Task : Start(r, t) \/ Finish(r, t) \/ FailTask(r, t)
    \/ Refuse(r) \/ Trouble(r) \/ Return(r)

RunSpec == RunInit /\ [][RunNext]_runVars
=============================================================================
