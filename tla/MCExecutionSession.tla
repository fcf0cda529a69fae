-------------------------- MODULE MCExecutionSession --------------------------
(* Runs of ExecutionSession.tla: two callers with two workers each.        *)
EXTENDS ExecutionSession, TLC

CONSTANTS a, b

RunOf(deps, binds, supported, own, quota) ==
  [ tasks |-> DOMAIN deps, deps |-> deps,
    workspace |-> [t \in DOMAIN deps |-> 1],
    backendKind |-> "Simulation",
    requiresSerializedLaunch |-> FALSE,
    supportsConcurrentExecution |-> TRUE,
    maxConcurrentTasks |-> 2, maxConcurrentStreams |-> 1,
    priority |-> 1, maxAdmittedTasks |-> quota,
    binds |-> binds, supported |-> supported, ownBackends |-> own ]

\* A fork whose second branch reads an output of the first task.
Fork == (1 :> <<>> @@ 2 :> <<1>> @@ 3 :> <<1, 1>>)
ForkRun(own, quota) ==
  RunOf(Fork, (1 :> {} @@ 2 :> {} @@ 3 :> {1}), {1, 2, 3}, own, quota)

\* Two tasks side by side; the second reads an output of the first without
\* depending on it.
Loose == RunOf((1 :> <<>> @@ 2 :> <<>>), (1 :> {} @@ 2 :> {1}), {1, 2}, FALSE, 0)

\* A chain whose last task has no supported kernel.
Unsupported == RunOf((1 :> <<>> @@ 2 :> <<1>>), (1 :> {} @@ 2 :> {1}), {1}, FALSE, 0)

AllJobs == {ForkRun(TRUE, 0), ForkRun(FALSE, 1), Loose, Unsupported}

\* The callers are alike, so each pair of jobs is given to them in one order
\* only.  Where tasks overlap, one pair is enough: the fork and the loose one.
Rank == ForkRun(TRUE, 0) :> 1 @@ Loose :> 2 @@ Unsupported :> 3
        @@ ForkRun(FALSE, 1) :> 4
PairsOfJobs ==
  /\ NoJob \notin {job'[a], job'[b]} => Rank[job'[a]] <= Rank[job'[b]]
  /\ configured.workspace = 2 =>
       job'[a] \in {NoJob, ForkRun(TRUE, 0)} /\ job'[b] \in {NoJob, Loose}

\* Workspace for one task, or for two; two streams for tasks that take one.
OneOrTwo == [workspace : {1, 2}, lanes : {1}, slots : {1}, streams : {2}]
=============================================================================
