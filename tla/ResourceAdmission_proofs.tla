----------------------- MODULE ResourceAdmission_proofs -----------------------
(***************************************************************************)
(* Facts about AmountHeld, the number of units a family of grants holds:   *)
(* it is a natural number, and it is additive over disjoint sets of        *)
(* holders.  The accounting invariants of ResourceScheduler and of         *)
(* GlobalScheduler rest on them.                                           *)
(***************************************************************************)
EXTENDS ResourceAdmission, FiniteSetTheorems, TLAPS

\* A family of grants with finitely many holders.
GrantFamily(g) == IsFiniteSet(DOMAIN g) /\ \A k \in DOMAIN g : g[k] \in Amount

\* The units one holder has form a finite set with as many members.
LEMMA UnitsOfOne ==
  ASSUME NEW k, NEW n \in Nat
  PROVE  /\ IsFiniteSet({k} \X (1 .. n))
         /\ Cardinality({k} \X (1 .. n)) = n
<1>1. IsFiniteSet({k}) /\ Cardinality({k}) = 1
  BY FS_Singleton
<1>2. IsFiniteSet(1 .. n) /\ Cardinality(1 .. n) = n
  BY FS_Interval
<1> DEFINE one == {k}
           units == 1 .. n
<1>3. ASSUME IsFiniteSet(one), IsFiniteSet(units)
      PROVE  /\ IsFiniteSet(one \X units)
             /\ Cardinality(one \X units) = Cardinality(one) * Cardinality(units)
  <2> HIDE DEF one, units
  <2>1. QED
    BY <1>3, FS_Product
<1>4. QED
  BY <1>1, <1>2, <1>3

\* A finite family holds finitely many units.
LEMMA UnitsFinite ==
  ASSUME NEW g, GrantFamily(g), NEW r \in Resource
  PROVE  IsFiniteSet(UnitsHeld(g, r)) /\ AmountHeld(g, r) \in Nat
<1> DEFINE F == [k \in DOMAIN g |-> {k} \X (1 .. g[k][r])]
           T == {{k} \X (1 .. g[k][r]) : k \in DOMAIN g}
<1>1. F \in Surjection(DOMAIN g, T)
  BY DEF Surjection
<1>2. IsFiniteSet(T)
  BY <1>1, FS_Surjection DEF GrantFamily
<1>3. \A X \in T : IsFiniteSet(X)
  <2>1. \A k \in DOMAIN g : g[k][r] \in Nat
    BY DEF GrantFamily, Amount
  <2>2. \A k \in DOMAIN g : IsFiniteSet({k} \X (1 .. g[k][r]))
    BY <2>1, UnitsOfOne
  <2>3. QED
    BY <2>2
<1>4. IsFiniteSet(UnitsHeld(g, r))
  BY <1>2, <1>3, FS_UNION DEF UnitsHeld
<1>5. QED
  BY <1>4, FS_CardinalityType DEF AmountHeld

\* Additivity: the units of a family are those of the holders in S together
\* with those of the holders outside S.
LEMMA UnitsSplit ==
  ASSUME NEW g, GrantFamily(g), NEW S, NEW r \in Resource
  PROVE  AmountHeld(g, r) = AmountHeld(HeldIn(g, S), r) + AmountHeld(HeldOut(g, S), r)
<1> DEFINE in == UnitsHeld(HeldIn(g, S), r)
           out == UnitsHeld(HeldOut(g, S), r)
<1>1. GrantFamily(HeldIn(g, S)) /\ GrantFamily(HeldOut(g, S))
  BY FS_Subset DEF GrantFamily, HeldIn, HeldOut
<1>2. UnitsHeld(g, r) = in \cup out
  BY DEF UnitsHeld, HeldIn, HeldOut
<1>3. in \cap out = {}
  BY DEF UnitsHeld, HeldIn, HeldOut
<1>4. IsFiniteSet(in) /\ IsFiniteSet(out)
  BY <1>1, UnitsFinite
<1> HIDE DEF in, out
<1>5. Cardinality(in) \in Nat /\ Cardinality(out) \in Nat
  BY <1>4, FS_CardinalityType
<1>6. Cardinality(in \cup out) =
        Cardinality(in) + Cardinality(out) - Cardinality(in \cap out)
  BY <1>4, FS_Union
<1>7. Cardinality(in \cap out) = 0
  BY <1>3, FS_EmptySet
<1>8. Cardinality(UnitsHeld(g, r)) = Cardinality(in) + Cardinality(out)
  BY <1>2, <1>5, <1>6, <1>7
<1>9. QED
  BY <1>8 DEF AmountHeld, in, out

\* One holder holds what it was granted.
LEMMA UnitsSingle ==
  ASSUME NEW g, NEW k, DOMAIN g = {k}, g[k] \in Amount, NEW r \in Resource
  PROVE  AmountHeld(g, r) = g[k][r]
<1>1. UnitsHeld(g, r) = {k} \X (1 .. g[k][r])
  BY DEF UnitsHeld
<1>2. g[k][r] \in Nat
  BY DEF Amount
<1>3. QED
  BY <1>1, <1>2, UnitsOfOne DEF AmountHeld

\* Nobody holds nothing.
LEMMA UnitsNone ==
  ASSUME NEW g, DOMAIN g = {}, NEW r \in Resource
  PROVE  AmountHeld(g, r) = 0
<1>1. UnitsHeld(g, r) = {}
  BY DEF UnitsHeld
<1>2. QED
  BY <1>1, FS_EmptySet DEF AmountHeld

\* A new holder adds exactly its grant.
LEMMA UnitsGranted ==
  ASSUME NEW g, GrantFamily(g), NEW k, k \notin DOMAIN g,
         NEW a \in Amount, NEW r \in Resource
  PROVE  AmountHeld(HeldWith(g, k, a), r) = AmountHeld(g, r) + a[r]
<1> DEFINE h == HeldWith(g, k, a)
<1>1. GrantFamily(h)
  BY FS_AddElement DEF GrantFamily, HeldWith
<1>2. AmountHeld(h, r) = AmountHeld(HeldIn(h, {k}), r) + AmountHeld(HeldOut(h, {k}), r)
  BY <1>1, UnitsSplit
<1>3. /\ DOMAIN HeldOut(h, {k}) = DOMAIN g
      /\ \A t \in DOMAIN g : HeldOut(h, {k})[t] = g[t]
  BY DEF HeldOut, HeldWith
<1>4. AmountHeld(HeldOut(h, {k}), r) = AmountHeld(g, r)
  BY <1>3 DEF AmountHeld, UnitsHeld
<1>5. DOMAIN HeldIn(h, {k}) = {k} /\ HeldIn(h, {k})[k] = a
  BY DEF HeldIn, HeldWith
<1>6. AmountHeld(HeldIn(h, {k}), r) = a[r]
  BY <1>5, UnitsSingle
<1>7. a[r] \in Nat /\ AmountHeld(g, r) \in Nat
  BY UnitsFinite DEF Amount
<1>8. QED
  BY <1>1, <1>2, <1>4, <1>6, <1>7

\* When the holders in S give their grants back, what the others hold is the
\* difference.
LEMMA UnitsReturned ==
  ASSUME NEW g, GrantFamily(g), NEW S, NEW r \in Resource
  PROVE  /\ AmountHeld(HeldOut(g, S), r) \in Nat
         /\ AmountHeld(HeldIn(g, S), r) \in Nat
         /\ AmountHeld(HeldOut(g, S), r) =
              AmountHeld(g, r) - AmountHeld(HeldIn(g, S), r)
<1>1. GrantFamily(HeldOut(g, S)) /\ GrantFamily(HeldIn(g, S))
  BY FS_Subset DEF GrantFamily, HeldOut, HeldIn
<1>2. AmountHeld(g, r) = AmountHeld(HeldIn(g, S), r) + AmountHeld(HeldOut(g, S), r)
  BY UnitsSplit
<1>3. AmountHeld(HeldOut(g, S), r) \in Nat /\ AmountHeld(HeldIn(g, S), r) \in Nat
  BY <1>1, UnitsFinite
<1>4. QED
  BY <1>2, <1>3

\* Nobody holds more units than are held.
LEMMA HolderWithinTotal ==
  ASSUME NEW g, GrantFamily(g), NEW k \in DOMAIN g, NEW r \in Resource
  PROVE  g[k][r] <= AmountHeld(g, r)
<1>1. /\ DOMAIN HeldIn(g, {k}) = {k}
      /\ HeldIn(g, {k})[k] = g[k]
  BY DEF HeldIn
<1>2. g[k] \in Amount /\ g[k][r] \in Nat
  BY DEF GrantFamily, Amount
<1>3. AmountHeld(HeldIn(g, {k}), r) = g[k][r]
  BY <1>1, <1>2, UnitsSingle
<1>4. /\ AmountHeld(HeldOut(g, {k}), r) \in Nat
      /\ AmountHeld(g, r) \in Nat
      /\ AmountHeld(HeldOut(g, {k}), r) = AmountHeld(g, r) - g[k][r]
  BY <1>3, UnitsReturned, UnitsFinite
<1>5. QED
  BY <1>2, <1>4

\* The demand of a requirement is an amount.
LEMMA DemandType ==
  ASSUME NEW conf \in Amount, NEW req \in Requirement
  PROVE  Demand(conf, req) \in Amount
  BY DEF Demand, LanesFor, SlotsFor, StreamsFor, Amount, Resource, Requirement

\* What fits stays within the capacity in every resource it takes units of.
LEMMA FitsWithinCapacity ==
  ASSUME NEW conf \in Amount, NEW inUse \in Amount, NEW excl \in BOOLEAN,
         NEW req \in Requirement, Fits(conf, inUse, excl, req),
         NEW r \in Resource, Demand(conf, req)[r] > 0
  PROVE  inUse[r] + Demand(conf, req)[r] <= conf[r]
<1> USE DEF Fits, Demand, Amount, Requirement
<1>1. CASE r = "workspace"
  BY <1>1 DEF WorkspaceBlocked, Resource
<1>2. CASE r = "lanes"
  BY <1>2 DEF LaneBlocked, LanesFor, Resource
<1>3. CASE r = "slots"
  BY <1>3 DEF DeviceBlocked, SlotsFor, Resource
<1>4. CASE r = "streams"
  BY <1>4 DEF StreamBlocked, StreamsFor, Resource
<1>5. QED
  BY <1>1, <1>2, <1>3, <1>4 DEF Resource
=============================================================================
