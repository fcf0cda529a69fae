------------------------ MODULE MCResourceScheduler ------------------------
(* ResourceScheduler on small instances: two clients, five kinds of        *)
(* requirement that meet in every resource, and capacities that can be     *)
(* lowered below what is in use.                                           *)
EXTENDS ResourceScheduler

Sim(bytes, units, excl) ==
  [ backendKind |-> "Simulation", workspaceBytes |-> bytes,
    requiresSerializedLaunch |-> TRUE, exclusiveDeviceAccess |-> FALSE,
    requiresStream |-> units > 0, streamUnits |-> units,
    exclusiveStreamAccess |-> excl ]

Npu(bytes, wholeDevice) ==
  [ backendKind |-> "Npu", workspaceBytes |-> bytes,
    requiresSerializedLaunch |-> FALSE, exclusiveDeviceAccess |-> wholeDevice,
    requiresStream |-> TRUE, streamUnits |-> 0,
    exclusiveStreamAccess |-> FALSE ]

MCRequirements ==
  {Sim(1, 2, FALSE), Sim(0, 0, TRUE), Sim(0, 0, FALSE), Npu(2, FALSE),
   Npu(0, TRUE)}

MCCapacities ==
  [workspace |-> {1, 3}, lanes |-> {1, 2}, slots |-> {1, 2}, streams |-> {2}]
=============================================================================
