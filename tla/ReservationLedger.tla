-------------------------- MODULE ReservationLedger --------------------------
(***************************************************************************)
(* What a client of the resource ledger relies on: a reservation is made   *)
(* exactly if its requirement fits beside those that are outstanding, an   *)
(* answer names the first resource that is missing, and a reservation      *)
(* stays as it was made until it is returned.  There are no counters here: *)
(* what is in use is what is held.                                         *)
(***************************************************************************)
EXTENDS ResourceAdmission

CONSTANTS
  Id,           \* reservations, by whatever tells them apart
  Request       \* the requirements that are presented

VARIABLES
  configured,   \* the capacities
  held,         \* the outstanding reservations: units and exclusive
  answer        \* why the last request was refused, or "None"

ledgerVars == <<configured, held, answer>>

UnitsOf(reservations) ==
  [k \in DOMAIN reservations |-> reservations[k].units]

InUse == [r \in Resource |-> AmountHeld(UnitsOf(held), r)]

\* Somebody holds the stream domain alone.
Taken == \E k \in DOMAIN held : held[k].exclusive

LedgerInit ==
  /\ configured \in Amount
  /\ DOMAIN held = {}
  /\ answer = "None"

\* Whatever is held stays held when capacities change.
Reconfigure ==
  /\ configured' \in Amount
  /\ UNCHANGED <<held, answer>>

Reserve(k, req) ==
  /\ k \notin DOMAIN held
  /\ Fits(configured, InUse, Taken, req)
  /\ held' = HeldWith(held, k, [ units     |-> Demand(configured, req),
                                 exclusive |-> req.exclusiveStreamAccess ])
  /\ answer' = "None"
  /\ UNCHANGED configured

Deny(req) ==
  /\ ~Fits(configured, InUse, Taken, req)
  /\ answer' = BlockReason(configured, InUse, Taken, req)
  /\ UNCHANGED <<configured, held>>

\* Reservations come back whole, and the others are not touched.
Return(K) ==
  /\ held' = HeldOut(held, K)
  /\ answer' = "None"
  /\ UNCHANGED configured

LedgerNext ==
  \/ Reconfigure
  \/ \E req \in Request : Deny(req) \/ \E k \in Id : Reserve(k, req)
  \/ \E K \in SUBSET DOMAIN held : Return(K)

LedgerSpec == LedgerInit /\ [][LedgerNext]_ledgerVars
=============================================================================
