------------------------ MODULE MCSchedulerFairness ------------------------
(* SchedulerFairness on small instances: one simulator lane, so that every *)
(* admission is a choice between the sessions.                             *)
EXTENDS SchedulerFairness

Sim(deps, rank, quota) ==
  [ tasks |-> DOMAIN deps, deps |-> deps,
    workspace |-> [t \in DOMAIN deps |-> 1],
    backendKind |-> "Simulation", requiresSerializedLaunch |-> TRUE,
    supportsConcurrentExecution |-> FALSE, maxConcurrentTasks |-> 4,
    maxConcurrentStreams |-> 1, priority |-> rank, maxAdmittedTasks |-> quota ]

Roots(n) == [t \in 1 .. n |-> <<>>]
Chain    == [t \in {1, 2} |-> IF t = 2 THEN <<1>> ELSE <<>>]

\* Two jobs of the same class and one of a higher one.
TwoClasses == {Sim(Roots(2), 1, 0), Sim(Chain, 1, 0), Sim(Roots(1), 2, 0)}

Cap(ws, ln, sl, st) ==
  [workspace |-> ws, lanes |-> ln, slots |-> sl, streams |-> st]

OneLane == {Cap(3, 1, 1, 2)}
=============================================================================
