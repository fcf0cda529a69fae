------------------------- MODULE ResourceAdmission -------------------------
(***************************************************************************)
(* The admission arithmetic of lib/Runtime/Execution/ResourceScheduler.cpp *)
(* as operators on values, shared by ResourceScheduler (reservations with  *)
(* tokens) and by GlobalScheduler (reservations inside task records).      *)
(*                                                                         *)
(* The four counted resources are handled alike: a capacity, an amount in  *)
(* use and a demand are functions from Resource to Nat.                    *)
(***************************************************************************)
EXTENDS Integers, FiniteSets

Resource == {"workspace", "lanes", "slots", "streams"}

Amount == [Resource -> Nat]

\* TaskResourceRequirement: what one task asks for.
Requirement ==
  [ backendKind              : {"Simulation", "Npu"},
    workspaceBytes           : Nat,
    requiresSerializedLaunch : BOOLEAN,
    exclusiveDeviceAccess    : BOOLEAN,
    requiresStream           : BOOLEAN,
    streamUnits              : Nat,
    exclusiveStreamAccess    : BOOLEAN ]

LanesFor(req) ==
  IF req.backendKind = "Simulation" /\ req.requiresSerializedLaunch THEN 1 ELSE 0

\* Variants, here and below: definitions with a plausible defect, named for
\* it.  No run uses one; with it in place of the definition that follows, a
\* property of the runs must fail.
OneSlotFor(conf, req) == IF req.backendKind # "Npu" THEN 0 ELSE 1

\* An exclusive NPU task takes every slot there is.
SlotsFor(conf, req) ==
  IF req.backendKind # "Npu" THEN 0
  ELSE IF req.exclusiveDeviceAccess THEN conf.slots ELSE 1

\* A stream request of zero units takes one.
StreamsFor(req) ==
  IF req.streamUnits > 0 THEN req.streamUnits
  ELSE IF req.requiresStream \/ req.exclusiveStreamAccess THEN 1 ELSE 0

\* The units that a reservation for req takes when the capacities are conf.
Demand(conf, req) ==
  [ workspace |-> req.workspaceBytes,
    lanes     |-> LanesFor(req),
    slots     |-> SlotsFor(conf, req),
    streams   |-> StreamsFor(req) ]

-----------------------------------------------------------------------------
(* The checks of tryReserve, each named for the reason it reports.         *)

\* Without the first check the unsigned difference would wrap around.
WorkspaceWraps(conf, used, req) ==
  /\ conf.workspace >= used.workspace
  /\ req.workspaceBytes > conf.workspace - used.workspace

WorkspaceBlocked(conf, used, req) ==
  \/ conf.workspace < used.workspace
  \/ req.workspaceBytes > conf.workspace - used.workspace

LaneBlocked(conf, used, req) == LanesFor(req) > 0 /\ conf.lanes <= used.lanes

DeviceBlocked(conf, used, req) ==
  /\ req.backendKind = "Npu"
  /\ \/ SlotsFor(conf, req) = 0
     \/ conf.slots < used.slots + SlotsFor(conf, req)

OnlyExclusiveConflicts(used, exclusive, req) ==
  /\ StreamsFor(req) > 0
  /\ req.exclusiveStreamAccess
  /\ exclusive \/ used.streams > 0

\* A stream domain is shared, or held by one exclusive reservation.
StreamConflict(used, exclusive, req) ==
  /\ StreamsFor(req) > 0
  /\ \/ exclusive
     \/ req.exclusiveStreamAccess /\ used.streams > 0

StreamBlocked(conf, used, req) ==
  /\ StreamsFor(req) > 0
  /\ conf.streams < used.streams + StreamsFor(req)

\* The first check that fails names the reason.
BlockReason(conf, used, exclusive, req) ==
  IF WorkspaceBlocked(conf, used, req) THEN "Workspace"
  ELSE IF LaneBlocked(conf, used, req) THEN "SerializedLaunch"
  ELSE IF DeviceBlocked(conf, used, req) THEN "DeviceCapacity"
  ELSE IF StreamConflict(used, exclusive, req) THEN "ExclusiveStreamConflict"
  ELSE IF StreamBlocked(conf, used, req) THEN "StreamCapacity"
  ELSE "None"

\* tryReserve succeeds exactly when no check fails.
Fits(conf, used, exclusive, req) ==
  /\ ~WorkspaceBlocked(conf, used, req)
  /\ ~LaneBlocked(conf, used, req)
  /\ ~DeviceBlocked(conf, used, req)
  /\ ~StreamConflict(used, exclusive, req)
  /\ ~StreamBlocked(conf, used, req)

-----------------------------------------------------------------------------
(* Accounting: the units that a family of grants holds, one pair per unit, *)
(* so that their number is a cardinality and needs no recursive sum.       *)

UnitsHeld(grants, r) ==
  UNION {{k} \X (1 .. grants[k][r]) : k \in DOMAIN grants}

AmountHeld(grants, r) == Cardinality(UnitsHeld(grants, r))

\* One grant more; the grants of the holders in S; those of the others.
HeldWith(grants, k, units) ==
  [h \in DOMAIN grants \cup {k} |-> IF h = k THEN units ELSE grants[h]]
HeldIn(grants, S)  == [k \in DOMAIN grants \cap S |-> grants[k]]
HeldOut(grants, S) == [k \in DOMAIN grants \ S |-> grants[k]]

Plus(used, amount)  == [r \in Resource |-> used[r] + amount[r]]
Minus(used, amount) == [r \in Resource |-> used[r] - amount[r]]
=============================================================================
