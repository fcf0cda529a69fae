------------------------- MODULE ResourceScheduler -------------------------
(***************************************************************************)
(* lib/Runtime/Execution/ResourceScheduler.cpp: the ledger of workspace    *)
(* bytes, simulator launch lanes, device slots and stream units.  Clients  *)
(* reserve, keep a copy of the reservation they were given, and may        *)
(* present any copy they ever had - or one they made up - to release().    *)
(***************************************************************************)
EXTENDS ResourceAdmission

CONSTANTS
  Holder,        \* the (sessionId, taskId) pairs that reserve
  Requirements,  \* the requirements the clients present
  Capacities,    \* by resource, the capacities that are configured
  MaxToken       \* bound on nextReservationToken_

ASSUME HolderAssumption == IsFiniteSet(Holder)
ASSUME RequirementsAssumption == Requirements \subseteq Requirement
ASSUME CapacitiesAssumption == \A r \in Resource : Capacities[r] \subseteq Nat
ASSUME MaxTokenAssumption == MaxToken \in Nat

VARIABLES
  configured,    \* configured{SimDispatchLanes,DeviceSlots,...}_
  used,          \* reserved{SimDispatchLanes,DeviceSlots,...}_
  exclusive,     \* hasExclusiveStreamReservation_
  active,        \* activeReservations_, by token
  nextToken,     \* nextReservationToken_
  lastBlock,     \* lastBlockReason_
  copies         \* every reservation handed out: a client may still hold it

vars == <<configured, used, exclusive, active, nextToken, lastBlock, copies>>

Reasons == {"None", "Workspace", "SerializedLaunch", "DeviceCapacity",
            "StreamCapacity", "ExclusiveStreamConflict"}

Token == 0 .. MaxToken

Reservation == [token : Token, holder : Holder]

ActiveReservation == [holder : Holder, units : Amount, exclusive : BOOLEAN]

\* The units of every active reservation, by token.
Grants == [t \in DOMAIN active |-> active[t].units]

-----------------------------------------------------------------------------

Init ==
  /\ configured = [workspace |-> 0, lanes |-> 1, slots |-> 1, streams |-> 0]
  /\ used = [r \in Resource |-> 0]
  /\ exclusive = FALSE
  /\ active = [t \in {} |-> {}]
  /\ nextToken = 1
  /\ lastBlock = "None"
  /\ copies = {}

\* configureSimDispatchLanes .. configureStreamCapacity, one function for
\* each resource: outstanding reservations stay as they are.
Configure(r, n) ==
  /\ configured' = [configured EXCEPT ![r] = n]
  /\ UNCHANGED <<used, exclusive, active, nextToken, lastBlock, copies>>

Refuse(req) ==
  /\ ~Fits(configured, used, exclusive, req)
  /\ lastBlock' = BlockReason(configured, used, exclusive, req)
  /\ UNCHANGED <<configured, used, exclusive, active, nextToken, copies>>

Grant(h, req) ==
  LET units == Demand(configured, req)
      entry == [holder |-> h, units |-> units,
                exclusive |-> req.exclusiveStreamAccess]
  IN  /\ nextToken <= MaxToken
      /\ Fits(configured, used, exclusive, req)
      /\ active' = [t \in DOMAIN active \cup {nextToken} |->
                      IF t = nextToken THEN entry ELSE active[t]]
      /\ used' = Plus(used, units)
      /\ exclusive' = (exclusive \/ req.exclusiveStreamAccess)
      /\ copies' = copies \cup {[token |-> nextToken, holder |-> h]}
      /\ nextToken' = nextToken + 1
      /\ lastBlock' = "None"
      /\ UNCHANGED configured

TryReserve(h, req) == Refuse(req) \/ Grant(h, req)

\* The token is active and every public field agrees with the ledger's.
Matches(rsv) ==
  rsv.token \in DOMAIN active /\ active[rsv.token].holder = rsv.holder

\* A defect: workspace bytes are not returned.
ReleaseWithoutWorkspace(rsv) ==
  /\ Matches(rsv)
  /\ used' = Minus(used, [active[rsv.token].units EXCEPT !.workspace = 0])
  /\ exclusive' = (exclusive /\ ~active[rsv.token].exclusive)
  /\ active' = [t \in DOMAIN active \ {rsv.token} |-> active[t]]
  /\ lastBlock' = "None"
  /\ UNCHANGED <<configured, nextToken, copies>>

Release(rsv) ==
  /\ Matches(rsv)
  /\ LET entry == active[rsv.token]
     IN  /\ used' = Minus(used, entry.units)
         /\ exclusive' = (exclusive /\ ~entry.exclusive)
  /\ active' = [t \in DOMAIN active \ {rsv.token} |-> active[t]]
  /\ lastBlock' = "None"
  /\ UNCHANGED <<configured, nextToken, copies>>

\* A copy with a field changed, or one built by the client: its token_ is
\* private and stays zero.
Forged ==
  [token : {0}, holder : Holder]
    \cup {[c EXCEPT !.holder = h] : c \in copies, h \in Holder}

Next ==
  \/ \E r \in Resource : \E n \in Capacities[r] : Configure(r, n)
  \/ \E h \in Holder, req \in Requirements : TryReserve(h, req)
  \/ \E rsv \in copies \cup Forged : Release(rsv)

Spec == Init /\ [][Next]_vars

-----------------------------------------------------------------------------
(* Properties.                                                             *)

\* Types; every amount in use is a natural number, so no release ever
\* subtracts more than was reserved (a size_t would wrap).
TypeOK ==
  /\ configured \in Amount
  /\ used \in Amount
  /\ exclusive \in BOOLEAN
  /\ DOMAIN active \subseteq 1 .. (nextToken - 1)
  /\ active \in [DOMAIN active -> ActiveReservation]
  /\ nextToken \in 1 .. (MaxToken + 1)
  /\ lastBlock \in Reasons
  /\ copies \subseteq Reservation

\* For every resource the counter that admission reads is the number of
\* units the active reservations hold, after any mix of duplicate, stale
\* and forged releases and of reconfigurations.
Accounting ==
  \A r \in Resource : used[r] = AmountHeld(Grants, r)

\* An exclusive stream reservation holds the stream domain alone, and the
\* flag that admission reads says whether there is one.
ExclusiveStream ==
  /\ exclusive <=> \E t \in DOMAIN active : active[t].exclusive
  /\ \A t, u \in DOMAIN active :
       /\ active[t].exclusive
       /\ active[u].units["streams"] > 0
       => t = u

\* No step takes units that are not there: what is in use grows only up to
\* the capacity configured at that time, even after a capacity was lowered
\* below what is in use.
NeverOvercommit ==
  [][\A r \in Resource : used'[r] > used[r] => used'[r] <= configured[r]]_vars

-----------------------------------------------------------------------------
(* The promise of ReservationLedger.tla.  A reservation is told apart by   *)
(* its token.                                                              *)

Ledger ==
  INSTANCE ReservationLedger WITH
    Id      <- 1 .. MaxToken,
    Request <- Requirements,
    held    <- [t \in DOMAIN active |-> [ units     |-> active[t].units,
                                          exclusive |-> active[t].exclusive ]],
    answer  <- lastBlock

\* The counters and the flag that tryReserve reads are never seen: requests
\* are granted and refused, with the reason, as if what is in use were added
\* up from the reservations each time, whatever copies are presented.
KeepsLedger == Ledger!LedgerSpec
=============================================================================
