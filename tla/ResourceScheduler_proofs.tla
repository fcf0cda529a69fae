----------------------- MODULE ResourceScheduler_proofs -----------------------
(***************************************************************************)
(* Proofs about ResourceScheduler.tla, for every set of clients, of        *)
(* requirements and of capacities.  Accounting is inductive together with  *)
(* TypeOK; NeverOvercommit follows from their conjunction, and             *)
(* ExclusiveStream is inductive relative to it.                            *)
(***************************************************************************)
EXTENDS ResourceScheduler, ResourceAdmission_proofs

IInv == TypeOK /\ Accounting

LEMMA InitIInv == Init => IInv
<1> SUFFICES ASSUME Init PROVE IInv
  OBVIOUS
<1>1. TypeOK
  <2>1. active = [t \in {} |-> {}] /\ DOMAIN active = {}
    BY DEF Init
  <2>2. active \in [DOMAIN active -> ActiveReservation]
    BY <2>1
  <2>3. used \in Amount /\ configured \in Amount
    BY DEF Init, Amount, Resource
  <2>4. nextToken \in 1 .. (MaxToken + 1) /\ DOMAIN active \subseteq 1 .. (nextToken - 1)
    BY <2>1, MaxTokenAssumption DEF Init
  <2>5. QED
    BY <2>2, <2>3, <2>4 DEF Init, TypeOK, Reasons
<1>2. ASSUME NEW r \in Resource PROVE used[r] = AmountHeld(Grants, r)
  <2>1. DOMAIN Grants = {}
    BY DEF Init, Grants
  <2>2. QED
    BY <2>1, UnitsNone DEF Init
<1>3. QED
  BY <1>1, <1>2 DEF IInv, Accounting

\* The active reservations are a grant family: finitely many, each an amount.
LEMMA GrantsFamily ==
  ASSUME TypeOK
  PROVE  GrantFamily(Grants)
<1>1. IsFiniteSet(1 .. (nextToken - 1))
  <2>1. nextToken - 1 \in Int
    BY MaxTokenAssumption DEF TypeOK
  <2>2. QED
    BY <2>1, FS_Interval
<1>2. IsFiniteSet(DOMAIN active)
  BY <1>1, FS_Subset DEF TypeOK
<1>3. \A t \in DOMAIN active : active[t] \in ActiveReservation
  BY DEF TypeOK
<1>4. \A t \in DOMAIN active : active[t].units \in Amount
  BY <1>3 DEF ActiveReservation
<1>5. QED
  BY <1>2, <1>4 DEF GrantFamily, Grants

LEMMA ConfigureKeeps ==
  ASSUME IInv, NEW r \in Resource, NEW n \in Capacities[r], Configure(r, n)
  PROVE  IInv'
<1>1. configured' \in Amount
  BY CapacitiesAssumption DEF IInv, TypeOK, Configure, Amount
<1>2. QED
  BY <1>1 DEF IInv, TypeOK, Accounting, Grants, AmountHeld, UnitsHeld,
              Configure, Reservation, ActiveReservation

LEMMA RefuseKeeps ==
  ASSUME IInv, NEW req \in Requirements, Refuse(req)
  PROVE  IInv'
  BY DEF IInv, TypeOK, Accounting, Grants, AmountHeld, UnitsHeld, Refuse,
         BlockReason, Reasons, Reservation, ActiveReservation

LEMMA GrantKeeps ==
  ASSUME IInv, NEW h \in Holder, NEW req \in Requirements, Grant(h, req)
  PROVE  IInv'
<1> DEFINE units == Demand(configured, req)
<1>1. configured \in Amount /\ req \in Requirement
  BY RequirementsAssumption DEF IInv, TypeOK
<1>2. units \in Amount
  BY <1>1, DemandType
<1>3. req.exclusiveStreamAccess \in BOOLEAN
  BY <1>1 DEF Requirement
<1>4. TypeOK'
  <2>1. configured' \in Amount /\ lastBlock' \in Reasons
    BY DEF IInv, TypeOK, Grant, Reasons
  <2>2. used' \in Amount
    BY <1>2 DEF IInv, TypeOK, Grant, Plus, Amount
  <2>3. exclusive' \in BOOLEAN
    BY <1>3 DEF IInv, TypeOK, Grant
  <2>4. nextToken \in 1 .. MaxToken /\ nextToken' \in 1 .. (MaxToken + 1)
    BY MaxTokenAssumption DEF IInv, TypeOK, Grant
  <2>5. DOMAIN active' = DOMAIN active \cup {nextToken}
    BY DEF Grant
  <2>6. DOMAIN active' \subseteq 1 .. (nextToken' - 1)
    BY <2>4, <2>5, MaxTokenAssumption DEF IInv, TypeOK, Grant
  <2>7. active' \in [DOMAIN active' -> ActiveReservation]
    BY <1>2, <1>3, <2>5 DEF IInv, TypeOK, Grant, ActiveReservation
  <2>8. copies' \subseteq Reservation
    BY <2>4, MaxTokenAssumption DEF IInv, TypeOK, Grant, Reservation, Token
  <2>9. QED
    BY <2>1, <2>2, <2>3, <2>4, <2>6, <2>7, <2>8 DEF TypeOK
<1>5. ASSUME NEW r \in Resource PROVE (used[r] = AmountHeld(Grants, r))'
  <2>1. nextToken \notin DOMAIN Grants
    BY MaxTokenAssumption DEF IInv, TypeOK, Grants
  <2>2. Grants' = HeldWith(Grants, nextToken, units)
    BY DEF Grant, Grants, HeldWith
  <2>3. GrantFamily(Grants)
    BY GrantsFamily DEF IInv
  <2>4. AmountHeld(Grants', r) = AmountHeld(Grants, r) + units[r]
    BY <1>2, <2>1, <2>2, <2>3, UnitsGranted
  <2>5. used'[r] = used[r] + units[r]
    BY DEF Grant, Plus
  <2>6. QED
    BY <2>4, <2>5 DEF IInv, Accounting, AmountHeld, UnitsHeld, Grants
<1>6. QED
  BY <1>4, <1>5 DEF IInv, Accounting

LEMMA ReleaseKeeps ==
  ASSUME IInv, NEW rsv, Release(rsv)
  PROVE  IInv'
<1> DEFINE tok == rsv.token
           entry == active[tok]
           rest == HeldOut(Grants, {tok})
           back == HeldIn(Grants, {tok})
<1>1. tok \in DOMAIN active /\ entry \in ActiveReservation
  BY DEF Release, Matches, IInv, TypeOK
<1>2. entry.units \in Amount /\ entry.exclusive \in BOOLEAN
  BY <1>1 DEF ActiveReservation
<1>3. Grants' = rest
  BY DEF Release, Grants, HeldOut
<1>4. ASSUME NEW r \in Resource
      PROVE  /\ AmountHeld(rest, r) \in Nat
             /\ AmountHeld(rest, r) = AmountHeld(Grants, r) - entry.units[r]
  <2>1. GrantFamily(Grants)
    BY GrantsFamily DEF IInv
  <2>2. /\ AmountHeld(rest, r) \in Nat
        /\ AmountHeld(rest, r) = AmountHeld(Grants, r) - AmountHeld(back, r)
    BY <2>1, UnitsReturned
  <2>3. DOMAIN back = {tok} /\ back[tok] = entry.units
    BY <1>1 DEF Grants, HeldIn
  <2>4. AmountHeld(back, r) = entry.units[r]
    BY <1>2, <2>3, UnitsSingle
  <2>5. QED
    BY <2>2, <2>4
<1>5. ASSUME NEW r \in Resource
      PROVE  used'[r] = AmountHeld(rest, r) /\ used'[r] \in Nat
  <2>1. used'[r] = used[r] - entry.units[r]
    BY DEF Release, Minus
  <2>2. QED
    BY <1>4, <2>1 DEF IInv, Accounting
<1>6. TypeOK'
  <2>1. used' = [r \in Resource |-> used[r] - entry.units[r]]
    BY DEF Release, Minus
  <2>2. used' \in Amount
    BY <1>5, <2>1 DEF Amount
  <2>3. UNCHANGED <<configured, nextToken, copies>> /\ lastBlock' = "None"
    BY DEF Release
  <2>4. exclusive' \in BOOLEAN
    BY <1>2 DEF Release, IInv, TypeOK
  <2>5. DOMAIN active' \subseteq DOMAIN active
        /\ active' \in [DOMAIN active' -> ActiveReservation]
    BY DEF Release, IInv, TypeOK
  <2>6. QED
    BY <2>2, <2>3, <2>4, <2>5 DEF IInv, TypeOK, Reasons, Reservation
<1>7. Accounting'
  <2> HIDE DEF rest
  <2>1. QED
    BY <1>3, <1>5 DEF Accounting, AmountHeld, UnitsHeld, Grants
<1>8. QED
  BY <1>6, <1>7 DEF IInv

\* Every step keeps the invariant.
LEMMA NextIInv == IInv /\ [Next]_vars => IInv'
<1> SUFFICES ASSUME IInv, [Next]_vars PROVE IInv'
  OBVIOUS
<1>1. ASSUME NEW r \in Resource, NEW n \in Capacities[r], Configure(r, n)
      PROVE  IInv'
  BY <1>1, ConfigureKeeps
<1>2. ASSUME NEW h \in Holder, NEW req \in Requirements, TryReserve(h, req)
      PROVE  IInv'
  BY <1>2, RefuseKeeps, GrantKeeps DEF TryReserve
<1>3. ASSUME NEW rsv \in copies \cup Forged, Release(rsv) PROVE IInv'
  BY <1>3, ReleaseKeeps
<1>4. CASE UNCHANGED vars
  BY <1>4 DEF vars, IInv, TypeOK, Accounting, Grants, AmountHeld, UnitsHeld,
              Reservation, ActiveReservation
<1>5. QED
  BY <1>1, <1>2, <1>3, <1>4 DEF Next

\* The ledger is well typed - no counter ever underflows - and every counter
\* is the number of units the active reservations hold.
THEOREM AccountingCorrect == Spec => [](TypeOK /\ Accounting)
<1>1. IInv => TypeOK /\ Accounting
  BY DEF IInv
<1>2. QED
  BY InitIInv, NextIInv, <1>1, PTL DEF Spec

\* A reservation is granted only inside the capacity configured at that time.
THEOREM NoOvercommit == Spec => NeverOvercommit
<1>1. ASSUME IInv, [Next]_vars
      PROVE  [\A r \in Resource : used'[r] > used[r] =>
                                    used'[r] <= configured[r]]_vars
  <2> SUFFICES ASSUME NEW r \in Resource, used'[r] > used[r]
               PROVE  used'[r] <= configured[r]
    OBVIOUS
  <2>1. used[r] \in Nat
    BY <1>1 DEF IInv, TypeOK, Amount
  <2>2. ASSUME NEW h \in Holder, NEW req \in Requirements, Grant(h, req)
        PROVE  used'[r] <= configured[r]
    <3>1. configured \in Amount /\ req \in Requirement /\ used \in Amount
          /\ exclusive \in BOOLEAN
      BY <1>1, RequirementsAssumption DEF IInv, TypeOK
    <3>2. used'[r] = used[r] + Demand(configured, req)[r]
      BY <2>2 DEF Grant, Plus
    <3>3. Demand(configured, req)[r] \in Nat
      BY <3>1, DemandType DEF Amount
    <3>4. Demand(configured, req)[r] > 0
      BY <2>1, <3>2, <3>3
    <3>5. Fits(configured, used, exclusive, req)
      BY <2>2 DEF Grant
    <3>6. QED
      BY <3>1, <3>2, <3>4, <3>5, FitsWithinCapacity
  <2>3. ASSUME NEW rsv, Release(rsv) PROVE FALSE
    <3>1. active[rsv.token] \in ActiveReservation
      BY <1>1, <2>3 DEF Release, Matches, IInv, TypeOK
    <3>2. active[rsv.token].units[r] \in Nat
      BY <3>1 DEF ActiveReservation, Amount
    <3>3. used'[r] = used[r] - active[rsv.token].units[r]
      BY <2>3 DEF Release, Minus
    <3>4. QED
      BY <2>1, <3>2, <3>3
  <2>4. ASSUME used' = used PROVE FALSE
    BY <2>1, <2>4
  <2>5. QED
    BY <1>1, <2>2, <2>3, <2>4
    DEF Next, TryReserve, Refuse, Configure, vars
<1>2. QED
  BY InitIInv, NextIInv, <1>1, PTL DEF Spec, NeverOvercommit

-----------------------------------------------------------------------------
(* Exclusive reservations.                                                 *)

\* Inductive with IInv: an exclusive reservation has stream units, so that
\* used.streams = 0, which admission reads, excludes it as well.
ExclusiveHasStreams ==
  \A t \in DOMAIN active : active[t].exclusive => active[t].units["streams"] > 0

XInv == IInv /\ ExclusiveStream /\ ExclusiveHasStreams

LEMMA GrantKeepsExclusive ==
  ASSUME XInv, NEW h \in Holder, NEW req \in Requirements, Grant(h, req)
  PROVE  ExclusiveStream' /\ ExclusiveHasStreams'
<1> DEFINE units == Demand(configured, req)
           asked == req.exclusiveStreamAccess
<1>1. configured \in Amount /\ req \in Requirement /\ asked \in BOOLEAN
  BY RequirementsAssumption DEF XInv, IInv, TypeOK, Requirement
<1>2. units["streams"] = StreamsFor(req) /\ StreamsFor(req) \in Nat
  BY <1>1 DEF Demand, StreamsFor, Requirement
<1>3. asked => StreamsFor(req) > 0
  BY <1>1 DEF StreamsFor, Requirement
<1>4. /\ exclusive => StreamsFor(req) = 0
      /\ asked => used["streams"] = 0
  <2>1. ~StreamConflict(used, exclusive, req) /\ used["streams"] \in Nat
    BY DEF Grant, Fits, XInv, IInv, TypeOK, Amount, Resource
  <2>2. QED
    BY <1>2, <1>3, <2>1 DEF StreamConflict
<1>5. ASSUME asked, NEW t \in DOMAIN active
      PROVE  active[t].units["streams"] = 0
  <2>1. GrantFamily(Grants) /\ t \in DOMAIN Grants /\ "streams" \in Resource
    BY GrantsFamily DEF XInv, IInv, Grants, Resource
  <2>2. Grants[t]["streams"] <= AmountHeld(Grants, "streams")
    BY <2>1, HolderWithinTotal
  <2>3. AmountHeld(Grants, "streams") = 0
    BY <1>4, <1>5, <2>1 DEF XInv, IInv, Accounting
  <2>4. Grants[t]["streams"] \in Nat
    BY <2>1 DEF GrantFamily, Amount
  <2>5. QED
    BY <2>2, <2>3, <2>4 DEF Grants
<1>6. nextToken \notin DOMAIN active
  BY MaxTokenAssumption DEF XInv, IInv, TypeOK
<1>7. /\ DOMAIN active' = DOMAIN active \cup {nextToken}
      /\ \A t \in DOMAIN active : active'[t] = active[t]
      /\ active'[nextToken].exclusive = asked
      /\ active'[nextToken].units = units
      /\ exclusive' = (exclusive \/ asked)
  BY <1>6 DEF Grant
<1>8. ExclusiveHasStreams'
  BY <1>2, <1>3, <1>7 DEF XInv, ExclusiveHasStreams
<1>9. exclusive' <=> \E t \in DOMAIN active' : active'[t].exclusive
  BY <1>6, <1>7 DEF XInv, ExclusiveStream
<1>10. ASSUME NEW t \in DOMAIN active', NEW u \in DOMAIN active',
              active'[t].exclusive, active'[u].units["streams"] > 0
       PROVE  t = u
  <2>1. CASE t \in DOMAIN active
    <3>1. exclusive /\ active[t].exclusive
      BY <1>7, <1>10, <2>1 DEF XInv, ExclusiveStream
    <3>2. u \in DOMAIN active
      BY <1>2, <1>4, <1>7, <1>10, <3>1
    <3>3. QED
      BY <1>7, <1>10, <2>1, <3>1, <3>2 DEF XInv, ExclusiveStream
  <2>2. CASE t = nextToken
    BY <1>5, <1>7, <1>10, <2>2
  <2>3. QED
    BY <1>7, <2>1, <2>2
<1>11. QED
  BY <1>8, <1>9, <1>10 DEF ExclusiveStream

LEMMA ReleaseKeepsExclusive ==
  ASSUME XInv, NEW rsv, Release(rsv)
  PROVE  ExclusiveStream' /\ ExclusiveHasStreams'
<1>1. /\ rsv.token \in DOMAIN active
      /\ DOMAIN active' = DOMAIN active \ {rsv.token}
      /\ \A t \in DOMAIN active' : active'[t] = active[t]
      /\ exclusive' = (exclusive /\ ~active[rsv.token].exclusive)
  BY DEF Release, Matches
<1>2. \A t \in DOMAIN active' :
        active[t].exclusive => ~active[rsv.token].exclusive
  BY <1>1 DEF XInv, ExclusiveStream, ExclusiveHasStreams
<1>3. exclusive' <=> \E t \in DOMAIN active' : active'[t].exclusive
  BY <1>1, <1>2 DEF XInv, ExclusiveStream
<1>4. QED
  BY <1>1, <1>3 DEF XInv, ExclusiveStream, ExclusiveHasStreams

\* An exclusive stream reservation holds the stream domain alone, and the
\* flag that tryReserve reads says whether there is one, after any mix of
\* duplicate, stale and forged releases.
THEOREM ExclusiveStreamAlone == Spec => []ExclusiveStream
<1>1. Init => ExclusiveStream /\ ExclusiveHasStreams
  BY DEF Init, ExclusiveStream, ExclusiveHasStreams
<1>2. XInv /\ [Next]_vars => XInv'
  <2> SUFFICES ASSUME XInv, [Next]_vars
               PROVE  ExclusiveStream' /\ ExclusiveHasStreams'
    BY NextIInv DEF XInv
  <2>1. ASSUME NEW h \in Holder, NEW req \in Requirements, Grant(h, req)
        PROVE  ExclusiveStream' /\ ExclusiveHasStreams'
    BY <2>1, GrantKeepsExclusive
  <2>2. ASSUME NEW rsv, Release(rsv)
        PROVE  ExclusiveStream' /\ ExclusiveHasStreams'
    BY <2>2, ReleaseKeepsExclusive
  <2>3. CASE UNCHANGED <<active, exclusive>>
    BY <2>3 DEF XInv, ExclusiveStream, ExclusiveHasStreams
  <2>4. QED
    BY <2>1, <2>2, <2>3 DEF Next, TryReserve, Refuse, Configure, vars
<1>3. QED
  BY InitIInv, <1>1, <1>2, PTL DEF Spec, XInv

-----------------------------------------------------------------------------
(* The promise of ReservationLedger.tla.                                   *)

\* The refinement mapping, by name.
heldMap ==
  [t \in DOMAIN active |-> [ units     |-> active[t].units,
                             exclusive |-> active[t].exclusive ]]

\* The ledger of the promise calculates like the ledger of the code.
LEMMA SameArithmetic ==
  /\ Ledger!Resource = Resource /\ Ledger!Amount = Amount
  /\ \A conf, amount, excl, req :
       /\ Ledger!Fits(conf, amount, excl, req) <=> Fits(conf, amount, excl, req)
       /\ Ledger!BlockReason(conf, amount, excl, req)
            = BlockReason(conf, amount, excl, req)
       /\ Ledger!Demand(conf, req) = Demand(conf, req)
  /\ \A g, r : Ledger!AmountHeld(g, r) = AmountHeld(g, r)
  /\ \A g, k, units : Ledger!HeldWith(g, k, units) = HeldWith(g, k, units)
  /\ \A g, K : Ledger!HeldOut(g, K) = HeldOut(g, K)
<1>1. Ledger!Resource = Resource /\ Ledger!Amount = Amount
  BY DEF Ledger!Resource, Resource, Ledger!Amount, Amount
<1>2. \A conf, amount, excl, req :
        /\ Ledger!WorkspaceBlocked(conf, amount, req)
             <=> WorkspaceBlocked(conf, amount, req)
        /\ Ledger!LaneBlocked(conf, amount, req) <=> LaneBlocked(conf, amount, req)
        /\ Ledger!DeviceBlocked(conf, amount, req)
             <=> DeviceBlocked(conf, amount, req)
        /\ Ledger!StreamConflict(amount, excl, req)
             <=> StreamConflict(amount, excl, req)
        /\ Ledger!StreamBlocked(conf, amount, req)
             <=> StreamBlocked(conf, amount, req)
        /\ Ledger!Demand(conf, req) = Demand(conf, req)
  BY DEF Ledger!WorkspaceBlocked, WorkspaceBlocked, Ledger!LaneBlocked, LaneBlocked,
         Ledger!DeviceBlocked, DeviceBlocked, Ledger!StreamConflict, StreamConflict,
         Ledger!StreamBlocked, StreamBlocked, Ledger!LanesFor, LanesFor,
         Ledger!SlotsFor, SlotsFor, Ledger!StreamsFor, StreamsFor,
         Ledger!Demand, Demand
<1>3. \A conf, amount, excl, req :
        /\ Ledger!Fits(conf, amount, excl, req) <=> Fits(conf, amount, excl, req)
        /\ Ledger!BlockReason(conf, amount, excl, req)
             = BlockReason(conf, amount, excl, req)
  BY <1>2 DEF Ledger!Fits, Fits, Ledger!BlockReason, BlockReason
<1>4. /\ \A g, r : Ledger!AmountHeld(g, r) = AmountHeld(g, r)
      /\ \A g, k, units : Ledger!HeldWith(g, k, units) = HeldWith(g, k, units)
      /\ \A g, K : Ledger!HeldOut(g, K) = HeldOut(g, K)
  <2>1. \A S : Ledger!Cardinality(S) = Cardinality(S)
    BY Zenon DEF Ledger!Cardinality, Cardinality
  <2>2. \A g, r : Ledger!UnitsHeld(g, r) = UnitsHeld(g, r)
    BY DEF Ledger!UnitsHeld, UnitsHeld
  <2>3. QED
    BY <2>1, <2>2 DEF Ledger!AmountHeld, AmountHeld, Ledger!HeldWith, HeldWith,
                      Ledger!HeldOut, HeldOut
<1>5. QED
  BY <1>1, <1>2, <1>3, <1>4

\* The counters say what is held, and the flag whether it is held alone.
LEMMA CountersSeen ==
  ASSUME IInv, ExclusiveStream
  PROVE  /\ Ledger!InUse = used /\ Ledger!Taken = exclusive
         /\ \A req :
              /\ Ledger!Fits(configured, Ledger!InUse, Ledger!Taken, req)
                   <=> Fits(configured, used, exclusive, req)
              /\ Ledger!BlockReason(configured, Ledger!InUse, Ledger!Taken, req)
                   = BlockReason(configured, used, exclusive, req)
<1>1. Ledger!UnitsOf(heldMap) = Grants
  BY DEF Ledger!UnitsOf, heldMap, Grants
<1>2. Ledger!InUse = [r \in Resource |-> AmountHeld(Grants, r)]
  BY <1>1, SameArithmetic DEF Ledger!InUse, heldMap
<1>3. used = [r \in Resource |-> used[r]]
  BY DEF IInv, TypeOK, Amount
<1>4. Ledger!InUse = used
  BY <1>2, <1>3 DEF IInv, Accounting
<1>5. Ledger!Taken <=> \E t \in DOMAIN active : active[t].exclusive
  BY DEF Ledger!Taken
<1>6. Ledger!Taken <=> exclusive
  BY <1>5 DEF ExclusiveStream
<1>7. Ledger!Taken = exclusive
  <2>1. Ledger!Taken \in BOOLEAN
    BY DEF Ledger!Taken
  <2>2. exclusive \in BOOLEAN
    BY DEF IInv, TypeOK
  <2>3. QED
    BY <1>6, <2>1, <2>2
<1>8. QED
  BY <1>4, <1>7, SameArithmetic, Zenon

LEMMA GrantReserves ==
  ASSUME IInv, ExclusiveStream, NEW h \in Holder, NEW req \in Requirements,
         Grant(h, req)
  PROVE  \E k \in 1 .. MaxToken : Ledger!Reserve(k, req)
<1>1. nextToken \in 1 .. MaxToken /\ nextToken \notin DOMAIN active
  BY MaxTokenAssumption DEF Grant, IInv, TypeOK
<1> DEFINE entry == [ units     |-> Demand(configured, req),
                      exclusive |-> req.exclusiveStreamAccess ]
<1>2. Fits(configured, used, exclusive, req)
  BY DEF Grant
<1>3. heldMap' = HeldWith(heldMap, nextToken, entry)
  BY DEF Grant, heldMap, HeldWith
<1>4. lastBlock' = "None" /\ configured' = configured
  BY DEF Grant
<1>5. Ledger!Fits(configured, Ledger!InUse, Ledger!Taken, req)
  BY <1>2, CountersSeen, Zenon
<1>6. /\ Ledger!HeldWith(heldMap, nextToken, entry)
           = HeldWith(heldMap, nextToken, entry)
      /\ Ledger!Demand(configured, req) = Demand(configured, req)
  BY SameArithmetic, Zenon
<1>7. nextToken \notin DOMAIN heldMap
  BY <1>1 DEF heldMap
<1>8. Ledger!Reserve(nextToken, req)
  BY <1>3, <1>4, <1>5, <1>6, <1>7 DEF Ledger!Reserve, heldMap
<1>9. QED
  BY <1>1, <1>8

LEMMA ReleaseReturns ==
  ASSUME NEW rsv, Release(rsv)
  PROVE  Ledger!Return({rsv.token}) /\ rsv.token \in DOMAIN heldMap
<1>1. heldMap' = HeldOut(heldMap, {rsv.token})
  BY DEF Release, heldMap, HeldOut
<1>2. lastBlock' = "None" /\ configured' = configured
  BY DEF Release
<1>3. rsv.token \in DOMAIN heldMap
  BY DEF Release, Matches, heldMap
<1>4. QED
  BY <1>1, <1>2, <1>3, SameArithmetic DEF Ledger!Return, heldMap

LEMMA LedgerStep ==
  ASSUME IInv, ExclusiveStream, IInv', [Next]_vars
  PROVE  [Ledger!LedgerNext]_(Ledger!ledgerVars)
<1>1. ASSUME NEW r \in Resource, NEW n \in Capacities[r], Configure(r, n)
      PROVE  Ledger!Reconfigure
  <2>1. configured' \in Amount /\ UNCHANGED <<heldMap, lastBlock>>
    BY <1>1 DEF Configure, heldMap, IInv, TypeOK
  <2>2. QED
    BY <2>1, SameArithmetic DEF Ledger!Reconfigure, heldMap
<1>2. ASSUME NEW req \in Requirements, Refuse(req)
      PROVE  Ledger!Deny(req)
  <2>1. UNCHANGED <<heldMap, configured>>
    BY <1>2 DEF Refuse, heldMap
  <2>2. /\ ~Fits(configured, used, exclusive, req)
        /\ lastBlock' = BlockReason(configured, used, exclusive, req)
    BY <1>2 DEF Refuse
  <2>3. /\ ~Ledger!Fits(configured, Ledger!InUse, Ledger!Taken, req)
        /\ lastBlock' = Ledger!BlockReason(configured, Ledger!InUse, Ledger!Taken, req)
    BY <2>2, CountersSeen, Zenon
  <2>4. QED
    BY <2>1, <2>3 DEF Ledger!Deny, heldMap
<1>3. ASSUME NEW rsv, Release(rsv)
      PROVE  \E K \in SUBSET DOMAIN heldMap : Ledger!Return(K)
  <2>1. Ledger!Return({rsv.token}) /\ {rsv.token} \in SUBSET DOMAIN heldMap
    BY <1>3, ReleaseReturns
  <2>2. QED
    BY <2>1
<1>4. CASE UNCHANGED vars
  <2>1. UNCHANGED <<configured, heldMap, lastBlock>>
    BY <1>4 DEF vars, heldMap
  <2>2. QED
    BY <2>1 DEF Ledger!ledgerVars, heldMap
<1>5. CASE Next
  <2>1. ASSUME NEW h \in Holder, NEW req \in Requirements, TryReserve(h, req)
        PROVE  Ledger!LedgerNext
    BY <1>2, <2>1, GrantReserves DEF TryReserve, Ledger!LedgerNext
  <2>2. QED
    BY <1>1, <1>3, <1>5, <2>1 DEF Next, Ledger!LedgerNext, heldMap
<1>6. QED
  BY <1>4, <1>5

\* The ledger keeps the promise of ReservationLedger: its counters and its
\* flag, kept up to date by additions and subtractions, decide every request
\* as if the outstanding reservations were added up for it, for any clients
\* that present copies, stale, repeated or forged.
THEOREM LedgerKept == Spec => KeepsLedger
<1>1. Init => Ledger!LedgerInit
  <2> SUFFICES ASSUME Init PROVE Ledger!LedgerInit
    OBVIOUS
  <2>1. configured \in Amount
    BY DEF Init, Amount, Resource
  <2>2. DOMAIN heldMap = {} /\ lastBlock = "None"
    BY DEF Init, heldMap
  <2>3. QED
    BY <2>1, <2>2, SameArithmetic DEF Ledger!LedgerInit, heldMap
<1>2. /\ TypeOK /\ Accounting /\ ExclusiveStream
      /\ TypeOK' /\ Accounting' /\ [Next]_vars
      => [Ledger!LedgerNext]_(Ledger!ledgerVars)
  BY LedgerStep DEF IInv
<1>3. QED
  BY <1>1, <1>2, AccountingCorrect, ExclusiveStreamAlone, PTL
  DEF Spec, KeepsLedger, Ledger!LedgerSpec
=============================================================================
