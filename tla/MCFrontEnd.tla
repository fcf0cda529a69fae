------------------------------ MODULE MCFrontEnd ------------------------------
(* Processes for FrontEnd.tla.                                             *)
EXTENDS FrontEnd, TLC

CONSTANTS p1, p2, p3, o1

Asked(cli, npu, faulty, run, tasks, profiling, expected) ==
  [ cli |-> cli, npu |-> npu, faulty |-> faulty, run |-> run,
    tasks |-> tasks, profiling |-> profiling, expected |-> expected ]

Simulate == Asked(TRUE, FALSE, "no", TRUE, 2, TRUE, {2})
SimulateOne == Asked(TRUE, FALSE, "no", TRUE, 1, TRUE, {})
Unprofiled == Asked(TRUE, FALSE, "no", TRUE, 1, FALSE, {})
Npu == Asked(TRUE, TRUE, "no", TRUE, 1, FALSE, {1})
CApi == Asked(FALSE, FALSE, "no", TRUE, 1, FALSE, {})
PlanOnly == Asked(TRUE, FALSE, "no", FALSE, 1, FALSE, {1})
BadRequest == Asked(TRUE, FALSE, "request", TRUE, 1, FALSE, {})
BadPlan == Asked(TRUE, FALSE, "plan", TRUE, 1, FALSE, {})

AllRequests == { Simulate, SimulateOne, Unprofiled, Npu, CApi, PlanOnly, BadRequest, BadPlan }
OneRequest == {Simulate}

\* Which requests are made together, and what is in the roots before.
Asks(requests) ==
  \E turn \in [Process -> 1 .. 3] :
    IsInjective(turn) /\ \A p \in Process : request[p] = requests[turn[p]]

Together ==
  \/ Asks(<<SimulateOne, SimulateOne, Npu>>) /\ In("work") = {} /\ In("kept") = {}
  \/ Asks(<<Unprofiled, Unprofiled, CApi>>) /\ In("work") = Old /\ In("kept") = {}
  \/ /\ Asks(<<Simulate, Simulate, BadRequest>>) \/ Asks(<<CApi, PlanOnly, BadPlan>>)
     /\ In("work") = Old /\ In("kept") = Old

MCInit == FrontEndInit /\ Together

MCSpec == MCInit /\ [][FrontEndNext]_frontVars

Alike == Permutations(Process)
===============================================================================
