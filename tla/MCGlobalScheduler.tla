------------------------- MODULE MCGlobalScheduler -------------------------
(* GlobalScheduler on small instances: jobs that meet in every resource,   *)
(* with chains, duplicate dependencies, quotas and all priority classes.   *)
EXTENDS GlobalScheduler, TLC

None(ts) == [t \in ts |-> <<>>]
Even(ts, n) == [t \in ts |-> n]

\* A simulator job: the default capabilities of the Simulation backend.
Sim(deps, bytes, rank, quota) ==
  [ tasks |-> DOMAIN deps, deps |-> deps, workspace |-> bytes,
    backendKind |-> "Simulation", requiresSerializedLaunch |-> TRUE,
    supportsConcurrentExecution |-> FALSE, maxConcurrentTasks |-> 4,
    maxConcurrentStreams |-> 1, priority |-> rank, maxAdmittedTasks |-> quota ]

\* An NPU job: shared when the backend runs tasks concurrently.
Npu(deps, bytes, rank, concurrent) ==
  [ tasks |-> DOMAIN deps, deps |-> deps, workspace |-> bytes,
    backendKind |-> "Npu", requiresSerializedLaunch |-> FALSE,
    supportsConcurrentExecution |-> concurrent, maxConcurrentTasks |-> 2,
    maxConcurrentStreams |-> 1, priority |-> rank, maxAdmittedTasks |-> 0 ]

\* Task 2 lists task 1 twice.
Chain == [t \in {1, 2} |-> IF t = 2 THEN <<1, 1>> ELSE <<>>]

SimChain   == Sim(Chain, Even({1, 2}, 1), 1, 0)
SimQuota   == Sim(None({1, 2}), Even({1, 2}, 1), 2, 1)
SimLarge   == Sim(None({1, 2}), [t \in {1, 2} |-> IF t = 1 THEN 3 ELSE 1], 1, 0)
NpuShared  == Npu(None({1, 2}), Even({1, 2}, 0), 0, TRUE)
NpuWhole   == Npu(None({1}), Even({1}, 1), 1, FALSE)

MCJob == {SimChain, SimQuota, SimLarge, NpuShared, NpuWhole}

Cap(ws, ln, sl, st) ==
  [workspace |-> ws, lanes |-> ln, slots |-> sl, streams |-> st]

Enough  == {Cap(3, 2, 2, 3)}
Several == {Cap(3, 2, 2, 3), Cap(1, 1, 3, 0)}

Alike == Permutations(Session)
=============================================================================
