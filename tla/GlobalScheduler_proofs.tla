------------------------ MODULE GlobalScheduler_proofs ------------------------
(***************************************************************************)
(* Proofs about GlobalScheduler.tla, for every finite set of sessions and  *)
(* tasks, every job and every set of capacities.                           *)
(*                                                                         *)
(* The counters are natural numbers only because they count something:     *)
(* used counts the units of the outstanding grants, admitted a session's   *)
(* grants, running and completed its tasks in those states.  Typing and    *)
(* counting are therefore proved together, as one inductive invariant,     *)
(* IInv.                                                                   *)
(*                                                                         *)
(* What the scheduler promises its clients follows from it: capacities and *)
(* quotas are never exceeded, a task's record only moves forward, a        *)
(* session that has failed admits nothing more, a task that takes the      *)
(* whole device does not share it; a task becomes ready exactly when all   *)
(* it depends on has succeeded; between calls nothing that could be        *)
(* admitted is left waiting, and what is admitted is of the highest class. *)
(***************************************************************************)
EXTENDS GlobalScheduler, ResourceAdmission_proofs, WellFoundedInduction

\* The tasks of session s that hold a reservation.
HeldBy(s) == {k \in DOMAIN grant : k[1] = s}

AdmittedCount == \A s \in Session : admitted[s] = Cardinality(HeldBy(s))

Counters ==
  \A s \in Session :
    /\ running[s] = Cardinality(InState(s, "Running"))
    /\ completed[s] = Cardinality(InState(s, "Succeeded"))

\* The records in tasks_ are those of the tasks of the live sessions.
Records ==
  \A s \in Session, t \in Task :
    state[<<s, t>>] # "Absent" <=> s \in Live /\ t \in job[s].tasks

Counting == Accounting /\ Tickets /\ AdmittedCount /\ Counters

IInv == TypeOK /\ Counting /\ Records /\ Rotation

LEMMA KeysFinite == IsFiniteSet(Key)
  BY FS_Product, SessionAssumption, TaskAssumption DEF Key

\* The outstanding reservations are a grant family.
LEMMA GrantsFamily ==
  ASSUME TypeOK
  PROVE  GrantFamily(grant)
<1>1. IsFiniteSet(DOMAIN grant)
  BY KeysFinite, FS_Subset DEF TypeOK
<1>2. QED
  BY <1>1 DEF GrantFamily, TypeOK

\* Counting the tasks in a state gives a natural number.
LEMMA CountType ==
  ASSUME NEW s, NEW st
  PROVE  /\ IsFiniteSet(InState(s, st))
         /\ Cardinality(InState(s, st)) \in Nat
<1>1. IsFiniteSet(InState(s, st))
  BY TaskAssumption, FS_Subset DEF InState
<1>2. QED
  BY <1>1, FS_CardinalityType

\* A submission asks for a well-formed requirement.
LEMMA RequirementType ==
  ASSUME NEW j \in Job, NEW t \in j.tasks
  PROVE  RequirementOf(j, t) \in Requirement
<1>1. JobShape(j)
  BY JobAssumption
<1>2. QED
  BY <1>1 DEF JobShape, RequirementOf, Requirement

LEMMA InitIInv == Init => IInv
<1> SUFFICES ASSUME Init PROVE IInv
  OBVIOUS
<1>1. DOMAIN grant = {} /\ grant \in [DOMAIN grant -> Amount]
  BY DEF Init
<1>2. used \in Amount /\ configured \in Amount
  BY CapacitiesAssumption DEF Init, Amount
<1>3. order \in Seq(Session) /\ pass \in [phase : {"idle", "scan"}, start : Nat,
                                          offset : Nat, rank : -1 .. 2]
  BY DEF Init, Idle, AnyRank
<1>4. TypeOK
  BY <1>1, <1>2, <1>3 DEF Init, TypeOK
<1>5. Accounting
  BY <1>1, UnitsNone DEF Init, Accounting
<1>6. Tickets
  BY <1>1 DEF Init, Tickets, HoldsTicket, Key
<1>7. AdmittedCount
  <2>1. \A s \in Session : HeldBy(s) = {}
    BY <1>1 DEF HeldBy
  <2>2. QED
    BY <2>1, FS_EmptySet DEF AdmittedCount, Init
<1>8. Counters
  <2>1. \A s \in Session : InState(s, "Running") = {} /\ InState(s, "Succeeded") = {}
    BY DEF InState, Init, Key
  <2>2. QED
    BY <2>1, FS_EmptySet DEF Counters, Init
<1>9. Records
  BY DEF Init, Records, Live, Key
<1>10. Rotation
  BY DEF Init, Rotation, Live
<1>11. QED
  BY <1>4, <1>5, <1>6, <1>7, <1>8, <1>9, <1>10 DEF IInv, Counting

-----------------------------------------------------------------------------
(* What the counts depend on.                                              *)

\* They stay right when what they count stays as it is.
LEMMA CountsKept ==
  ASSUME IInv, UNCHANGED <<used, grant, admitted, completed, running>>,
         \A k \in Key : state'[k] = state[k]
  PROVE  Counting'
<1>1. Accounting'
  BY DEF IInv, Counting, Accounting
<1>2. Tickets'
  BY DEF IInv, Counting, Tickets, HoldsTicket
<1>3. AdmittedCount'
  BY DEF IInv, Counting, AdmittedCount, HeldBy
<1>4. \A s \in Session, st \in TaskState : InState(s, st)' = InState(s, st)
  BY DEF InState, Key
<1>5. Counters'
  BY <1>4 DEF IInv, Counting, Counters, TaskState
<1>6. QED
  BY <1>1, <1>2, <1>3, <1>5 DEF Counting

\* Returning the grants of the keys in K.
LEMMA ReturnKeeps ==
  ASSUME IInv, NEW K, ReturnGrants(K)
  PROVE  /\ used' \in Amount
         /\ DOMAIN grant' = DOMAIN grant \ K
         /\ grant' \in [DOMAIN grant' -> Amount]
         /\ Accounting'
<1>1. /\ grant' = HeldOut(grant, K)
      /\ used' = [r \in Resource |-> used[r] - AmountHeld(HeldIn(grant, K), r)]
  BY DEF ReturnGrants
<1>2. GrantFamily(grant)
  BY GrantsFamily DEF IInv
<1>3. ASSUME NEW r \in Resource
      PROVE  used'[r] = AmountHeld(grant', r) /\ used'[r] \in Nat
  <2>1. /\ AmountHeld(grant', r) \in Nat
        /\ AmountHeld(grant', r) =
             AmountHeld(grant, r) - AmountHeld(HeldIn(grant, K), r)
    BY <1>1, <1>2, UnitsReturned
  <2>2. used[r] = AmountHeld(grant, r)
    BY DEF IInv, Counting, Accounting
  <2>3. QED
    BY <1>1, <2>1, <2>2
<1>4. grant' \in [DOMAIN grant' -> Amount] /\ DOMAIN grant' = DOMAIN grant \ K
  BY <1>1 DEF IInv, TypeOK, HeldOut
<1>5. used' \in Amount
  BY <1>1, <1>3 DEF Amount
<1>6. Accounting'
  BY <1>3 DEF Accounting, AmountHeld, UnitsHeld
<1>7. QED
  BY <1>4, <1>5, <1>6

\* The session's count of admitted tasks afterwards.
LEMMA ReturnCounts ==
  ASSUME IInv, NEW s \in Session, NEW K, \A k \in K : k[1] = s,
         DOMAIN grant' = DOMAIN grant \ K,
         admitted' = [admitted EXCEPT ![s] = @ - Returned(K)]
  PROVE  admitted' \in [Session -> Nat] /\ AdmittedCount'
<1>1. IsFiniteSet(DOMAIN grant)
  BY GrantsFamily DEF IInv, GrantFamily
<1>2. ASSUME NEW x \in Session
      PROVE  /\ admitted'[x] \in Nat
             /\ admitted'[x] = Cardinality({k \in DOMAIN grant' : k[1] = x})
  <2> DEFINE new == {k \in DOMAIN grant' : k[1] = x}
  <2>1. IsFiniteSet(HeldBy(x)) /\ admitted[x] = Cardinality(HeldBy(x))
    BY <1>1, FS_Subset DEF HeldBy, IInv, Counting, AdmittedCount
  <2>2. admitted \in [Session -> Nat]
    BY DEF IInv, TypeOK
  <2>3. CASE x = s
    <3>1. new = HeldBy(s) \ K /\ HeldBy(s) \cap K = DOMAIN grant \cap K
      BY <2>3 DEF HeldBy
    <3>2. /\ IsFiniteSet(HeldBy(s) \ K)
          /\ Cardinality(HeldBy(s) \ K) =
               Cardinality(HeldBy(s)) - Cardinality(HeldBy(s) \cap K)
      BY <2>1, <2>3, FS_Difference
    <3>3. admitted'[x] = admitted[x] - Cardinality(DOMAIN grant \cap K)
      BY <2>2, <2>3 DEF Returned
    <3>4. QED
      BY <2>1, <2>3, <3>1, <3>2, <3>3, FS_CardinalityType
  <2>4. CASE x # s
    <3>1. new = HeldBy(x)
      BY <2>4 DEF HeldBy
    <3>2. admitted'[x] = admitted[x]
      BY <2>2, <2>4
    <3>3. QED
      BY <2>1, <2>2, <3>1, <3>2
  <2>5. QED
    BY <2>3, <2>4
<1>3. admitted' \in [Session -> Nat]
  BY <1>2 DEF IInv, TypeOK
<1>4. QED
  BY <1>2, <1>3 DEF AdmittedCount, HeldBy

-----------------------------------------------------------------------------
(* The admission loop.                                                     *)

\* Counting the tasks in a state when one task enters or leaves it.
LEMMA CountOneMore ==
  ASSUME NEW S, IsFiniteSet(S), NEW t, t \notin S
  PROVE  Cardinality(S \cup {t}) = Cardinality(S) + 1
  BY FS_AddElement

LEMMA CountOneLess ==
  ASSUME NEW S, IsFiniteSet(S), NEW t, t \in S
  PROVE  Cardinality(S \ {t}) = Cardinality(S) - 1 /\ Cardinality(S) - 1 \in Nat
<1>1. IsFiniteSet(S \ {t}) /\ Cardinality(S \ {t}) = Cardinality(S) - 1
  BY FS_RemoveElement
<1>2. Cardinality(S \ {t}) \in Nat
  BY <1>1, FS_CardinalityType
<1>3. QED
  BY <1>1, <1>2

LEMMA NewPassType ==
  ASSUME NEW ord \in Seq(Session), NEW cur \in Nat
  PROVE  NewPass(ord, cur) \in [phase : {"idle", "scan"}, start : Nat,
                                offset : Nat, rank : -1 .. 2]
<1>1. ord # <<>> => Len(ord) \in Nat \ {0}
  OBVIOUS
<1>2. (IF ord = <<>> THEN 0 ELSE cur % Len(ord)) \in Nat
  BY <1>1
<1>3. QED
  BY <1>2 DEF NewPass, AnyRank

\* A place of the rotation is counted from the start of the pass, modulo its
\* length.
LEMMA IndexType ==
  ASSUME IInv, NEW o \in Nat, Len(order) \in Nat \ {0}
  PROVE  Index(o) \in Nat
<1>1. PICK start \in Nat : start = pass.start
  BY DEF IInv, TypeOK
<1>2. PICK n \in Nat \ {0} : n = Len(order)
  OBVIOUS
<1>3. (start + o) % n \in Nat
  OBVIOUS
<1>4. QED
  BY <1>1, <1>2, <1>3 DEF Index

LEMMA AdmitKeeps ==
  ASSUME IInv, NEW o \in 0 .. (Len(order) - 1), NEW t \in Task, Admit(o, t)
  PROVE  IInv'
<1>1. PICK s \in Session : s = At(o) /\ s \in Live
  BY DEF Admit, Turn, CanAdmit, Live
<1> DEFINE k == <<s, t>>
           units == Demand(configured, RequirementOf(job[s], t))
<1>2. s \in Live /\ s \in Session /\ k \in Key
  BY <1>1 DEF Key
<1>3. state[k] = "Ready" /\ job[s] \in Job
  BY <1>1 DEF Admit, FirstAdmissible, Admissible, Live, IInv, TypeOK
<1>4. t \in job[s].tasks
  BY <1>2, <1>3 DEF IInv, Records
<1>5. units \in Amount
  BY <1>3, <1>4, RequirementType, DemandType DEF IInv, TypeOK
<1>6. k \notin DOMAIN grant
  BY <1>3 DEF IInv, Counting, Tickets, HoldsTicket
<1>7. /\ used' = Plus(used, units)
      /\ grant' = HeldWith(grant, k, units)
      /\ state' = [state EXCEPT ![k] = "Reserved"]
      /\ admitted' = [admitted EXCEPT ![s] = @ + 1]
      /\ UNCHANGED <<job, completed, running>>
      /\ k = <<s, t>>
  BY <1>1 DEF Admit
<1>8. pass' = [pass EXCEPT !.offset = o + 1, !.rank = job[s].priority] /\ last' = s
  BY <1>1 DEF Admit
<1>9. Len(order) \in Nat \ {0} /\ o \in Nat
  BY DEF IInv, TypeOK
<1> HIDE DEF k, units
<1>10. TypeOK'
  <2>0. used \in Amount /\ admitted \in [Session -> Nat]
    BY DEF IInv, TypeOK
  <2>1. used' \in Amount
    BY <1>5, <1>7, <2>0 DEF Plus, Amount
  <2>2. DOMAIN grant' \subseteq Key /\ grant' \in [DOMAIN grant' -> Amount]
    BY <1>2, <1>5, <1>7 DEF IInv, TypeOK, HeldWith
  <2>3. state' \in [Key -> TaskState \cup {"Absent"}]
    BY <1>7 DEF IInv, TypeOK, TaskState
  <2>4. admitted' \in [Session -> Nat]
    BY <1>2, <1>7, <2>0
  <2>5. cursor' \in Nat
    <3>1. Index(o) \in Nat
      BY <1>9, IndexType
    <3>2. QED
      BY <1>9, <3>1 DEF Admit
  <2>6. pass' \in [phase : {"idle", "scan"}, start : Nat, offset : Nat,
                   rank : -1 .. 2]
    <3>1. job[s].priority \in -1 .. 2 /\ o + 1 \in Nat
      BY <1>3, <1>9, JobAssumption DEF JobShape
    <3>2. QED
      BY <1>8, <3>1 DEF IInv, TypeOK
  <2>7. last' \in Session \cup {NoSession}
    BY <1>2, <1>8
  <2>8. QED
    BY <2>1, <2>2, <2>3, <2>4, <2>5, <2>6, <2>7 DEF Admit, IInv, TypeOK
<1>11. Accounting'
  <2>1. \A r \in Resource : AmountHeld(grant', r) = AmountHeld(grant, r) + units[r]
    BY <1>5, <1>6, <1>7, GrantsFamily, UnitsGranted DEF IInv
  <2>2. \A r \in Resource : used'[r] = AmountHeld(grant', r)
    BY <1>7, <2>1 DEF IInv, Counting, Accounting, Plus
  <2>3. QED
    BY <2>2 DEF Accounting, AmountHeld, UnitsHeld
<1>12. Tickets'
  BY <1>2, <1>7 DEF IInv, TypeOK, Counting, Tickets, HoldsTicket, HeldWith
<1>13. AdmittedCount'
  <2>1. DOMAIN grant' = DOMAIN grant \cup {k} /\ k[1] = s
    BY <1>7 DEF HeldWith
  <2>2. /\ \A x \in Session : IsFiniteSet(HeldBy(x)) /\ admitted[x] \in Nat
                                 /\ admitted[x] = Cardinality(HeldBy(x))
        /\ k \notin HeldBy(s)
    BY <1>6, GrantsFamily, FS_Subset
    DEF HeldBy, IInv, TypeOK, Counting, AdmittedCount, GrantFamily
  <2>3. /\ HeldBy(s)' = HeldBy(s) \cup {k}
        /\ \A x \in Session \ {s} : HeldBy(x)' = HeldBy(x)
    <3>1. {h \in DOMAIN grant \cup {k} : h[1] = s} = HeldBy(s) \cup {k}
      BY <2>1 DEF HeldBy
    <3>2. \A x \in Session \ {s} :
            {h \in DOMAIN grant \cup {k} : h[1] = x} = HeldBy(x)
      BY <2>1 DEF HeldBy
    <3>3. QED
      BY <2>1, <3>1, <3>2 DEF HeldBy
  <2>4. Cardinality(HeldBy(s) \cup {k}) = Cardinality(HeldBy(s)) + 1
    BY <1>2, <2>2, CountOneMore
  <2>5. \A x \in Session : admitted'[x] = Cardinality(HeldBy(x)')
    BY <1>2, <1>7, <2>2, <2>3, <2>4 DEF IInv, TypeOK
  <2>6. QED
    BY <2>5 DEF AdmittedCount
<1>14. Counters'
  <2>1. \A x \in Session : /\ InState(x, "Running")' = InState(x, "Running")
                           /\ InState(x, "Succeeded")' = InState(x, "Succeeded")
    BY <1>2, <1>3, <1>7 DEF InState, IInv, TypeOK, Key
  <2>2. QED
    BY <1>7, <2>1 DEF IInv, Counting, Counters
<1>15. Records'
  BY <1>2, <1>3, <1>7 DEF IInv, TypeOK, Records, Live, Key
<1>16. Rotation'
  <2>1. Index(o) \in Nat
    BY <1>9, IndexType
  <2>2. cursor' \in Nat /\ cursor' < Len(order)
    BY <1>9, <2>1 DEF Admit
  <2>3. UNCHANGED <<job, order>> /\ last' \in Live
    BY <1>2, <1>8 DEF Admit
  <2>4. order # <<>>
    BY <1>9
  <2>5. QED
    BY <2>2, <2>3, <2>4 DEF IInv, Rotation, Live
<1>17. QED
  BY <1>10, <1>11, <1>12, <1>13, <1>14, <1>15, <1>16 DEF IInv, Counting

\* The steps that move only the loop, and a new configuration.
LEMMA LoopKeeps ==
  ASSUME IInv, NextPass \/ EndAdmission
  PROVE  IInv'
<1>1. UNCHANGED <<resources, records, fairness>>
  BY DEF NextPass, EndAdmission
<1>2. pass' \in [phase : {"idle", "scan"}, start : Nat, offset : Nat, rank : -1 .. 2]
  BY NewPassType DEF NextPass, EndAdmission, Idle, AnyRank, IInv, TypeOK
<1>3. TypeOK'
  BY <1>1, <1>2 DEF resources, records, fairness, IInv, TypeOK
<1>4. Counting'
  BY <1>1, CountsKept DEF resources, records
<1>5. QED
  BY <1>1, <1>3, <1>4
  DEF resources, records, fairness, IInv, Records, Rotation, Live

LEMMA ConfigureKeeps ==
  ASSUME IInv, NEW conf \in Capacities, Configure(conf)
  PROVE  IInv'
<1>1. UNCHANGED <<used, grant, records, fairness>>
  BY DEF Configure
<1>2. configured' \in Amount
  BY CapacitiesAssumption DEF Configure, IInv, TypeOK, Amount, Resource
<1>3. pass' \in [phase : {"idle", "scan"}, start : Nat, offset : Nat, rank : -1 .. 2]
  BY NewPassType DEF Configure, IInv, TypeOK
<1>4. TypeOK'
  BY <1>1, <1>2, <1>3 DEF records, fairness, IInv, TypeOK
<1>5. Counting'
  BY <1>1, CountsKept DEF records
<1>6. QED
  BY <1>1, <1>4, <1>5 DEF records, fairness, IInv, Records, Rotation, Live

-----------------------------------------------------------------------------
(* The rotation.                                                           *)

Members(ord) == {ord[i] : i \in 1 .. Len(ord)}

NoRepeats(ord) == \A i, j \in 1 .. Len(ord) : ord[i] = ord[j] => i = j

LEMMA PositionType ==
  ASSUME NEW ord \in Seq(Session), NEW s, s \in Members(ord)
  PROVE  /\ PositionIn(ord, s) \in 0 .. (Len(ord) - 1)
         /\ ord[PositionIn(ord, s) + 1] = s
<1>1. \E i \in 1 .. Len(ord) : ord[i] = s
  BY DEF Members
<1>2. PICK p : p = (CHOOSE i \in 1 .. Len(ord) : ord[i] = s)
  OBVIOUS
<1>3. p \in 1 .. Len(ord) /\ ord[p] = s
  BY <1>1, <1>2
<1>4. PositionIn(ord, s) = p - 1
  BY <1>2 DEF PositionIn
<1>5. QED
  BY <1>3, <1>4

\* A cursor set behind a session points into the rotation.
LEMMA CursorBehindType ==
  ASSUME NEW ord \in Seq(Session), NEW s, NEW otherwise \in Nat,
         ord # <<>> => otherwise < Len(ord)
  PROVE  /\ CursorBehind(ord, s, otherwise) \in Nat
         /\ ord # <<>> => CursorBehind(ord, s, otherwise) < Len(ord)
         /\ ord = <<>> => CursorBehind(ord, s, otherwise) = otherwise
<1>1. CASE s \in Members(ord)
  <2>1. Len(ord) \in Nat \ {0} /\ PositionIn(ord, s) + 1 \in Nat
    BY <1>1, PositionType DEF Members
  <2>2. CursorBehind(ord, s, otherwise) = (PositionIn(ord, s) + 1) % Len(ord)
    BY <1>1 DEF CursorBehind, Members
  <2>3. QED
    BY <2>1, <2>2
<1>2. CASE s \notin Members(ord)
  BY <1>2 DEF CursorBehind, Members
<1>3. QED
  BY <1>1, <1>2

\* Erasing a session from the rotation.
LEMMA WithoutType ==
  ASSUME NEW ord \in Seq(Session), NoRepeats(ord), NEW s, s \in Members(ord)
  PROVE  /\ Without(ord, s) \in Seq(Session)
         /\ Len(Without(ord, s)) = Len(ord) - 1
         /\ Members(Without(ord, s)) = Members(ord) \ {s}
         /\ NoRepeats(Without(ord, s))
<1> DEFINE out == Without(ord, s)
<1>1. PICK p \in 0 .. (Len(ord) - 1) : p = PositionIn(ord, s) /\ ord[p + 1] = s
  BY PositionType
<1>2. Len(ord) \in Nat \ {0}
  BY DEF Members
<1>3. out = [i \in 1 .. (Len(ord) - 1) |-> IF i <= p THEN ord[i] ELSE ord[i + 1]]
  BY <1>1 DEF Without
<1>4. out \in Seq(Session) /\ Len(out) = Len(ord) - 1
  <2>1. \A i \in 1 .. (Len(ord) - 1) : i \in 1 .. Len(ord) /\ i + 1 \in 1 .. Len(ord)
    BY <1>2
  <2>2. \A i \in 1 .. Len(ord) : ord[i] \in Session
    OBVIOUS
  <2>3. out \in [1 .. (Len(ord) - 1) -> Session]
    BY <1>3, <2>1, <2>2
  <2>4. QED
    BY <1>2, <2>3
<1> HIDE DEF out
<1>5. \A x \in Members(ord) \ {s} : x \in Members(out)
  <2> SUFFICES ASSUME NEW i \in 1 .. Len(ord), ord[i] # s
               PROVE  \E h \in 1 .. Len(out) : out[h] = ord[i]
    BY DEF Members
  <2>1. i # p + 1
    BY <1>1
  <2>2. CASE i <= p
    <3>1. i \in 1 .. (Len(ord) - 1) /\ out[i] = ord[i]
      BY <1>1, <1>2, <1>3, <2>2
    <3>2. QED
      BY <1>4, <3>1
  <2>3. CASE i > p + 1
    <3>1. i - 1 \in 1 .. (Len(ord) - 1) /\ ~(i - 1 <= p) /\ (i - 1) + 1 = i
      BY <1>1, <1>2, <2>3
    <3>2. out[i - 1] = ord[i]
      BY <1>3, <3>1
    <3>3. QED
      BY <1>4, <3>1, <3>2
  <2>4. QED
    BY <1>1, <2>1, <2>2, <2>3
<1>6. ASSUME NEW h \in 1 .. Len(out)
      PROVE  \E i \in 1 .. Len(ord) : /\ out[h] = ord[i] /\ i # p + 1
                                      /\ i = IF h <= p THEN h ELSE h + 1
  <2>1. h \in 1 .. (Len(ord) - 1)
    BY <1>4
  <2>2. CASE h <= p
    BY <1>1, <1>2, <1>3, <2>1, <2>2
  <2>3. CASE ~(h <= p)
    <3>1. h + 1 \in 1 .. Len(ord) /\ out[h] = ord[h + 1] /\ h + 1 # p + 1
      BY <1>1, <1>2, <1>3, <2>1, <2>3
    <3>2. QED
      BY <2>3, <3>1
  <2>4. QED
    BY <2>2, <2>3
<1>7. p + 1 \in 1 .. Len(ord)
  BY <1>1, <1>2
<1>8. \A x \in Members(out) : x \in Members(ord) \ {s}
  BY <1>1, <1>6, <1>7 DEF Members, NoRepeats
<1>9. NoRepeats(out)
  <2> SUFFICES ASSUME NEW g \in 1 .. Len(out), NEW h \in 1 .. Len(out),
                      out[g] = out[h]
               PROVE  g = h
    BY DEF NoRepeats
  <2>1. PICK i \in 1 .. Len(ord) : /\ out[g] = ord[i]
                                   /\ i = IF g <= p THEN g ELSE g + 1
    BY <1>6
  <2>2. PICK j \in 1 .. Len(ord) : /\ out[h] = ord[j]
                                   /\ j = IF h <= p THEN h ELSE h + 1
    BY <1>6
  <2>3. i = j
    BY <2>1, <2>2 DEF NoRepeats
  <2>4. QED
    BY <1>1, <1>4, <2>1, <2>2, <2>3
<1>10. QED
  BY <1>4, <1>5, <1>8, <1>9 DEF out

-----------------------------------------------------------------------------
(* The calls.                                                              *)

\* A session that is not live has no record and no reservation.
LEMMA NothingLeft ==
  ASSUME IInv, NEW s \in Session, s \notin Live
  PROVE  /\ \A t \in Task : state[<<s, t>>] = "Absent"
         /\ \A k \in DOMAIN grant : k[1] # s
<1>1. \A t \in Task : state[<<s, t>>] = "Absent"
  BY DEF IInv, Records
<1>2. ASSUME NEW k \in DOMAIN grant, k[1] = s PROVE FALSE
  <2>1. k \in Key /\ HoldsTicket(k)
    BY DEF IInv, Counting, Tickets
  <2>2. k = <<s, k[2]>> /\ k[2] \in Task
    BY <1>2, <2>1 DEF Key
  <2>3. QED
    BY <1>1, <2>1, <2>2 DEF HoldsTicket
<1>3. QED
  BY <1>1, <1>2

LEMMA SubmitKeeps ==
  ASSUME IInv, NEW s \in Session, NEW j \in Job, Submit(s, j)
  PROVE  IInv'
<1> DEFINE Mine(k) == k[1] = s /\ k[2] \in j.tasks
           ord == Append(order, s)
           cur == CursorBehind(ord, last, cursor)
<1>1. /\ s \notin Live
      /\ job' = [job EXCEPT ![s] = j]
      /\ completed' = [completed EXCEPT ![s] = 0]
      /\ running' = [running EXCEPT ![s] = 0]
      /\ admitted' = [admitted EXCEPT ![s] = 0]
      /\ failed' = [failed EXCEPT ![s] = FALSE]
      /\ UNCHANGED <<configured, used, grant, last>>
  BY DEF Submit, resources
<1>2. /\ state' = [k \in Key |->
                     IF ~Mine(k) THEN state[k]
                     ELSE IF j.deps[k[2]] = <<>> THEN "Ready" ELSE "Submitted"]
      /\ remaining' = [k \in Key |->
                         IF Mine(k) THEN Len(j.deps[k[2]]) ELSE remaining[k]]
  BY DEF Submit
<1>3. order' = ord /\ cursor' = cur /\ pass' = NewPass(ord, cur)
  BY DEF Submit
<1>4. /\ \A t \in Task : state[<<s, t>>] = "Absent"
      /\ \A k \in DOMAIN grant : k[1] # s
  BY <1>1, NothingLeft
<1>5. JobShape(j) /\ j # NoJob
  BY JobAssumption
<1>6. /\ ord \in Seq(Session) /\ Len(ord) = Len(order) + 1 /\ Len(order) \in Nat
      /\ \A i \in 1 .. Len(ord) :
           ord[i] = IF i = Len(order) + 1 THEN s ELSE order[i]
      /\ cursor \in Nat /\ cursor < Len(ord)
  <2>1. order \in Seq(Session) /\ cursor \in Nat
    BY DEF IInv, TypeOK
  <2>2. cursor < Len(order) + 1
    BY <2>1 DEF IInv, Rotation
  <2>3. QED
    BY <2>1, <2>2
<1> HIDE DEF ord
<1>7. cur \in Nat /\ cur < Len(ord)
  BY <1>6, CursorBehindType
<1>8. TypeOK'
  <2>1. remaining' \in [Key -> Nat]
    <3>1. \A t \in j.tasks : Len(j.deps[t]) \in Nat
      BY <1>5 DEF JobShape
    <3>2. remaining \in [Key -> Nat]
      BY DEF IInv, TypeOK
    <3>3. QED
      BY <1>2, <3>1, <3>2
  <2>2. state' \in [Key -> TaskState \cup {"Absent"}]
    BY <1>2 DEF IInv, TypeOK, TaskState
  <2>3. pass' \in [phase : {"idle", "scan"}, start : Nat, offset : Nat,
                   rank : -1 .. 2]
    BY <1>3, <1>6, <1>7, NewPassType
  <2>4. QED
    BY <1>1, <1>3, <1>6, <1>7, <2>1, <2>2, <2>3 DEF IInv, TypeOK
<1>9. Accounting'
  BY <1>1 DEF IInv, Counting, Accounting
<1>10. Tickets'
  <2>1. \A k \in Key : Mine(k) => state[k] = "Absent"
    BY <1>4 DEF Key
  <2>2. \A k \in Key : HoldsTicket(k)' <=> HoldsTicket(k)
    BY <1>2, <2>1 DEF HoldsTicket
  <2>3. QED
    BY <1>1, <2>2 DEF IInv, Counting, Tickets
<1>11. AdmittedCount'
  <2>1. \A x \in Session : HeldBy(x)' = HeldBy(x)
    BY <1>1 DEF HeldBy
  <2>2. HeldBy(s) = {}
    BY <1>4 DEF HeldBy
  <2>3. admitted \in [Session -> Nat]
    BY DEF IInv, TypeOK
  <2>4. QED
    BY <1>1, <2>1, <2>2, <2>3, FS_EmptySet DEF IInv, Counting, AdmittedCount
<1>12. Counters'
  <2>1. \A x \in Session \ {s}, st \in {"Running", "Succeeded"} :
          InState(x, st)' = InState(x, st)
    BY <1>2 DEF InState, Key
  <2>2. \A st \in {"Running", "Succeeded"} : InState(s, st)' = {}
    BY <1>2, <1>4 DEF InState, Key
  <2>3. running \in [Session -> Nat] /\ completed \in [Session -> Nat]
    BY DEF IInv, TypeOK
  <2>4. QED
    BY <1>1, <2>1, <2>2, <2>3, FS_EmptySet DEF IInv, Counting, Counters
<1>13. Live' = Live \cup {s}
  BY <1>1, <1>5 DEF Live, IInv, TypeOK
<1>14. Records'
  <2>1. ASSUME NEW x \in Session, NEW t \in Task
        PROVE  state'[<<x, t>>] # "Absent" <=> x \in Live' /\ t \in job'[x].tasks
    <3>1. job \in [Session -> Job \cup {NoJob}] /\ <<x, t>> \in Key
      BY DEF IInv, TypeOK, Key
    <3>2. CASE x = s
      BY <1>1, <1>2, <1>4, <1>13, <3>1, <3>2
    <3>3. CASE x # s
      BY <1>1, <1>2, <1>13, <3>1, <3>3 DEF IInv, Records
    <3>4. QED
      BY <3>2, <3>3
  <2>2. QED
    BY <2>1 DEF Records
<1>15. Rotation'
  <2>1. Members(ord) = Members(order) \cup {s}
    BY <1>6 DEF Members
  <2>2. s \notin Members(order) /\ NoRepeats(order)
    BY <1>1 DEF IInv, Rotation, Members, NoRepeats
  <2>3. NoRepeats(ord)
    BY <1>6, <2>2 DEF NoRepeats, Members
  <2>4. Members(order) = Live
    BY DEF IInv, Rotation, Members
  <2>5. ord # <<>>
    BY <1>6
  <2>6. /\ {order'[i] : i \in 1 .. Len(order')} = Live'
        /\ \A i, h \in 1 .. Len(order') : order'[i] = order'[h] => i = h
    BY <1>3, <1>13, <2>1, <2>3, <2>4 DEF Members, NoRepeats
  <2>7. last' # NoSession => last' \in Live'
    BY <1>1, <1>13 DEF IInv, Rotation
  <2>8. order' # <<>> /\ cursor' < Len(order')
    BY <1>3, <1>7, <2>5
  <2>9. QED
    BY <2>6, <2>7, <2>8 DEF Rotation
<1>16. QED
  BY <1>8, <1>9, <1>10, <1>11, <1>12, <1>14, <1>15 DEF IInv, Counting

LEMMA AcquireKeeps ==
  ASSUME IInv, NEW s \in Session, NEW t \in Task, Acquire(s, t)
  PROVE  IInv'
<1> DEFINE k == <<s, t>>
<1>1. k \in Key /\ state[k] = "Reserved" /\ state \in [Key -> TaskState \cup {"Absent"}]
  BY DEF Acquire, Key, IInv, TypeOK
<1>2. /\ state' = [state EXCEPT ![k] = "Running"]
      /\ running' = [running EXCEPT ![s] = @ + 1]
      /\ UNCHANGED <<configured, used, grant, job, completed, admitted, failed,
                     remaining, order, cursor, last, pass>>
  BY DEF Acquire, resources, fairness
<1>3. running \in [Session -> Nat] /\ running' \in [Session -> Nat]
  BY <1>2 DEF IInv, TypeOK
<1>4. TypeOK'
  <2>1. state' \in [Key -> TaskState \cup {"Absent"}]
    BY <1>1, <1>2 DEF TaskState
  <2>2. QED
    BY <1>2, <1>3, <2>1 DEF IInv, TypeOK
<1>5. Tickets'
  BY <1>1, <1>2 DEF IInv, Counting, Tickets, HoldsTicket
<1>6. Accounting' /\ AdmittedCount'
  BY <1>2 DEF IInv, Counting, Accounting, AdmittedCount, HeldBy
<1>7. Counters'
  <2>1. /\ InState(s, "Running")' = InState(s, "Running") \cup {t}
        /\ t \notin InState(s, "Running")
        /\ \A x \in Session \ {s} : InState(x, "Running")' = InState(x, "Running")
        /\ \A x \in Session : InState(x, "Succeeded")' = InState(x, "Succeeded")
    BY <1>1, <1>2 DEF InState, Key
  <2>2. Cardinality(InState(s, "Running")') = Cardinality(InState(s, "Running")) + 1
    BY <2>1, CountType, CountOneMore
  <2>3. QED
    BY <1>2, <1>3, <2>1, <2>2 DEF IInv, Counting, Counters
<1>8. Records'
  BY <1>1, <1>2 DEF IInv, Records, Live, Key
<1>9. Rotation'
  BY <1>2 DEF IInv, Rotation, Live
<1>10. QED
  BY <1>4, <1>5, <1>6, <1>7, <1>8, <1>9 DEF IInv, Counting

\* A dependency list is finite, so is the number of times it lists a task.
LEMMA ListedType ==
  ASSUME IInv, NEW s \in Session, NEW d \in Key, NEW t,
         d[1] = s, state[d] = "Submitted"
  PROVE  Listed(job[s], d[2], t) \in Nat
<1>1. s \in Live /\ d[2] \in job[s].tasks
  BY DEF IInv, Records, Key
<1>2. JobShape(job[s])
  BY <1>1, JobAssumption DEF Live, IInv, TypeOK
<1>3. job[s].deps[d[2]] \in Seq(job[s].tasks)
  BY <1>1, <1>2 DEF JobShape
<1>4. PICK n \in Nat : DOMAIN job[s].deps[d[2]] = 1 .. n
  BY <1>3
<1>5. IsFiniteSet(1 .. n)
  BY FS_Interval
<1>6. IsFiniteSet({i \in DOMAIN job[s].deps[d[2]] : job[s].deps[d[2]][i] = t})
  BY <1>4, <1>5, FS_Subset
<1>7. QED
  BY <1>6, FS_CardinalityType DEF Listed

LEMMA CompleteKeeps ==
  ASSUME IInv, NEW s \in Session, NEW t \in Task, Complete(s, t)
  PROVE  IInv'
<1> DEFINE k == <<s, t>>
           Advances(d) == /\ ~failed[s]
                          /\ d[1] = s
                          /\ state[d] = "Submitted"
                          /\ Listed(job[s], d[2], t) > 0
           Left(d) == IF remaining[d] > Listed(job[s], d[2], t)
                      THEN remaining[d] - Listed(job[s], d[2], t) ELSE 0
<1>1. k \in Key /\ state[k] = "Running" /\ state \in [Key -> TaskState \cup {"Absent"}]
  BY DEF Complete, Key, IInv, TypeOK
<1>2. /\ ReturnGrants({k})
      /\ admitted' = [admitted EXCEPT ![s] = @ - Returned({k})]
      /\ completed' = [completed EXCEPT ![s] = @ + 1]
      /\ running' = [running EXCEPT ![s] = @ - 1]
      /\ UNCHANGED <<configured, job, failed, order, cursor, last>>
  BY DEF Complete, fairness
<1>3. /\ remaining' = [d \in Key |-> IF Advances(d) THEN Left(d) ELSE remaining[d]]
      /\ state' = [d \in Key |-> IF d = k THEN "Succeeded"
                                 ELSE IF Advances(d) /\ Left(d) = 0 THEN "Ready"
                                 ELSE state[d]]
      /\ pass' = NewPass(order, cursor)
  BY DEF Complete
<1>4. \A d \in Key : d # k => \/ state'[d] = state[d]
                              \/ state[d] = "Submitted" /\ state'[d] = "Ready"
  BY <1>3
<1>5. /\ used' \in Amount
      /\ DOMAIN grant' = DOMAIN grant \ {k}
      /\ grant' \in [DOMAIN grant' -> Amount]
      /\ Accounting'
  BY <1>2, ReturnKeeps
<1>6. admitted' \in [Session -> Nat] /\ AdmittedCount'
  <2>1. PICK K : K = {k}
    OBVIOUS
  <2>2. \A x \in K : x[1] = s
    BY <2>1
  <2>3. DOMAIN grant' = DOMAIN grant \ K
    BY <1>5, <2>1
  <2>4. admitted' = [admitted EXCEPT ![s] = @ - Returned(K)]
    BY <1>2, <2>1
  <2>5. QED
    BY <2>2, <2>3, <2>4, ReturnCounts
<1>7. /\ InState(s, "Running")' = InState(s, "Running") \ {t}
      /\ t \in InState(s, "Running")
      /\ InState(s, "Succeeded")' = InState(s, "Succeeded") \cup {t}
      /\ t \notin InState(s, "Succeeded")
      /\ \A x \in Session \ {s}, st \in {"Running", "Succeeded"} :
           InState(x, st)' = InState(x, st)
  <2>1. state'[k] = "Succeeded"
    BY <1>1, <1>3
  <2>2. \A x \in Session, u \in Task : <<x, u>> # k =>
          /\ state'[<<x, u>>] = "Running" <=> state[<<x, u>>] = "Running"
          /\ state'[<<x, u>>] = "Succeeded" <=> state[<<x, u>>] = "Succeeded"
    BY <1>4 DEF Key
  <2>3. QED
    BY <1>1, <2>1, <2>2 DEF InState
<1>8. Counters' /\ running' \in [Session -> Nat] /\ completed' \in [Session -> Nat]
  <2>1. /\ Cardinality(InState(s, "Running")') = Cardinality(InState(s, "Running")) - 1
        /\ Cardinality(InState(s, "Running")') \in Nat
    BY <1>7, CountType, CountOneLess
  <2>2. Cardinality(InState(s, "Succeeded")') = Cardinality(InState(s, "Succeeded")) + 1
    BY <1>7, CountType, CountOneMore
  <2>3. running \in [Session -> Nat] /\ completed \in [Session -> Nat]
    BY DEF IInv, TypeOK
  <2>4. /\ running[s] = Cardinality(InState(s, "Running"))
        /\ completed[s] = Cardinality(InState(s, "Succeeded"))
    BY DEF IInv, Counting, Counters
  <2>5. running' \in [Session -> Nat] /\ completed' \in [Session -> Nat]
    BY <1>2, <2>1, <2>3, <2>4
  <2>6. \A x \in Session : /\ running'[x] = Cardinality(InState(x, "Running")')
                           /\ completed'[x] = Cardinality(InState(x, "Succeeded")')
    BY <1>2, <1>7, <2>1, <2>2, <2>3, <2>4 DEF IInv, Counting, Counters
  <2>7. QED
    BY <2>5, <2>6 DEF Counters
<1>9. TypeOK'
  <2>1. remaining' \in [Key -> Nat]
    <3>1. remaining \in [Key -> Nat]
      BY DEF IInv, TypeOK
    <3>2. \A d \in Key : Advances(d) => Left(d) \in Nat
      BY <3>1, ListedType
    <3>3. QED
      BY <1>3, <3>1, <3>2
  <2>2. state' \in [Key -> TaskState \cup {"Absent"}]
    BY <1>1, <1>3 DEF TaskState
  <2>3. pass' \in [phase : {"idle", "scan"}, start : Nat, offset : Nat,
                   rank : -1 .. 2]
    BY <1>3, NewPassType DEF IInv, TypeOK
  <2>4. DOMAIN grant' \subseteq Key
    BY <1>5 DEF IInv, TypeOK
  <2>5. QED
    BY <1>2, <1>5, <1>6, <1>8, <2>1, <2>2, <2>3, <2>4 DEF IInv, TypeOK
<1>10. Tickets'
  <2>1. state'[k] = "Succeeded"
    BY <1>1, <1>3
  <2>2. \A d \in Key : HoldsTicket(d)' <=> HoldsTicket(d) /\ d # k
    BY <1>4, <2>1 DEF HoldsTicket
  <2>3. QED
    BY <1>5, <2>2 DEF IInv, Counting, Tickets
<1>11. Records'
  <2>1. \A x \in Session, u \in Task :
          state'[<<x, u>>] # "Absent" <=> state[<<x, u>>] # "Absent"
    BY <1>1, <1>3, <1>4 DEF Key
  <2>2. QED
    BY <1>2, <2>1 DEF IInv, Records, Live
<1>12. Rotation'
  BY <1>2 DEF IInv, Rotation, Live
<1>13. QED
  BY <1>5, <1>6, <1>8, <1>9, <1>10, <1>11, <1>12 DEF IInv, Counting

LEMMA FailKeeps ==
  ASSUME IInv, NEW s \in Session, NEW t \in Task, Fail(s, t)
  PROVE  IInv'
<1>1. PICK k : k = <<s, t>>
  OBVIOUS
<1>2. PICK P : P = Pending(s)
  OBVIOUS
<1>3. k \in Key /\ state[k] = "Running" /\ state \in [Key -> TaskState \cup {"Absent"}]
  BY <1>1 DEF Fail, Key, IInv, TypeOK
<1>4. /\ ReturnGrants(P \cup {k})
      /\ admitted' = [admitted EXCEPT ![s] = @ - Returned(P \cup {k})]
      /\ running' = [running EXCEPT ![s] = @ - 1]
      /\ failed' = [failed EXCEPT ![s] = TRUE]
      /\ state' = [d \in Key |-> IF d = k THEN "Failed"
                                 ELSE IF d \in P THEN "Cancelled" ELSE state[d]]
      /\ UNCHANGED <<configured, job, completed, remaining, order, cursor, last,
                     pass>>
  BY <1>1, <1>2 DEF Fail, fairness
<1>5. \A d \in P : /\ d \in Key /\ d[1] = s
                   /\ state[d] \in {"Submitted", "Ready", "Reserved"}
  BY <1>2 DEF Pending, KeysOf
<1>6. /\ used' \in Amount
      /\ DOMAIN grant' = DOMAIN grant \ (P \cup {k})
      /\ grant' \in [DOMAIN grant' -> Amount]
      /\ Accounting'
  BY <1>4, ReturnKeeps
<1>7. admitted' \in [Session -> Nat] /\ AdmittedCount'
  <2>1. PICK K : K = P \cup {k}
    OBVIOUS
  <2>2. \A x \in K : x[1] = s
    BY <1>1, <1>5, <2>1
  <2>3. DOMAIN grant' = DOMAIN grant \ K
    BY <1>6, <2>1
  <2>4. admitted' = [admitted EXCEPT ![s] = @ - Returned(K)]
    BY <1>4, <2>1
  <2>5. QED
    BY <2>2, <2>3, <2>4, ReturnCounts
<1>8. /\ state'[k] = "Failed"
      /\ \A d \in Key : d \in P => state'[d] = "Cancelled"
      /\ \A d \in Key : d \notin P /\ d # k => state'[d] = state[d]
  BY <1>3, <1>4, <1>5
<1>9. /\ InState(s, "Running")' = InState(s, "Running") \ {t}
      /\ t \in InState(s, "Running")
      /\ \A x \in Session \ {s} : InState(x, "Running")' = InState(x, "Running")
      /\ \A x \in Session : InState(x, "Succeeded")' = InState(x, "Succeeded")
  <2>1. \A x \in Session, u \in Task : <<x, u>> # k =>
          /\ state'[<<x, u>>] = "Running" <=> state[<<x, u>>] = "Running"
          /\ state'[<<x, u>>] = "Succeeded" <=> state[<<x, u>>] = "Succeeded"
    BY <1>5, <1>8 DEF Key
  <2>2. QED
    BY <1>1, <1>3, <1>8, <2>1 DEF InState
<1>10. Counters' /\ running' \in [Session -> Nat]
  <2>1. /\ Cardinality(InState(s, "Running")') = Cardinality(InState(s, "Running")) - 1
        /\ Cardinality(InState(s, "Running")') \in Nat
    BY <1>9, CountType, CountOneLess
  <2>2. running \in [Session -> Nat] /\ running[s] = Cardinality(InState(s, "Running"))
    BY DEF IInv, TypeOK, Counting, Counters
  <2>3. running' \in [Session -> Nat]
    BY <1>4, <2>1, <2>2
  <2>4. \A x \in Session : /\ running'[x] = Cardinality(InState(x, "Running")')
                           /\ completed'[x] = Cardinality(InState(x, "Succeeded")')
    BY <1>4, <1>9, <2>1, <2>2 DEF IInv, Counting, Counters
  <2>5. QED
    BY <2>3, <2>4 DEF Counters
<1>11. TypeOK'
  <2>1. state' \in [Key -> TaskState \cup {"Absent"}]
    BY <1>3, <1>4 DEF TaskState
  <2>2. DOMAIN grant' \subseteq Key /\ failed' \in [Session -> BOOLEAN]
    BY <1>4, <1>6 DEF IInv, TypeOK
  <2>3. QED
    BY <1>4, <1>6, <1>7, <1>10, <2>1, <2>2 DEF IInv, TypeOK
<1>12. Tickets'
  <2>1. \A d \in Key : HoldsTicket(d)' <=> HoldsTicket(d) /\ d \notin P \cup {k}
    BY <1>8 DEF HoldsTicket
  <2>2. QED
    BY <1>6, <2>1 DEF IInv, Counting, Tickets
<1>13. Records'
  <2>1. \A x \in Session, u \in Task :
          state'[<<x, u>>] # "Absent" <=> state[<<x, u>>] # "Absent"
    BY <1>3, <1>5, <1>8 DEF Key
  <2>2. QED
    BY <1>4, <2>1 DEF IInv, Records, Live
<1>14. Rotation'
  BY <1>4 DEF IInv, Rotation, Live
<1>15. QED
  BY <1>6, <1>7, <1>10, <1>11, <1>12, <1>13, <1>14 DEF IInv, Counting

LEMMA ReleaseKeeps ==
  ASSUME IInv, NEW s \in Session, Release(s)
  PROVE  IInv'
<1>1. PICK K : K = KeysOf(s)
  OBVIOUS
<1>2. PICK ord : ord = Without(order, s)
  OBVIOUS
<1>3. PICK cur : cur = CursorAfterRemoval(s)
  OBVIOUS
<1>4. /\ s \in Live
      /\ ReturnGrants(K)
      /\ job' = [job EXCEPT ![s] = NoJob]
      /\ completed' = [completed EXCEPT ![s] = 0]
      /\ running' = [running EXCEPT ![s] = 0]
      /\ admitted' = [admitted EXCEPT ![s] = 0]
      /\ failed' = [failed EXCEPT ![s] = FALSE]
      /\ configured' = configured
  BY <1>1 DEF Release
<1>5. /\ state' = [k \in Key |-> IF k[1] = s THEN "Absent" ELSE state[k]]
      /\ remaining' = [k \in Key |-> IF k[1] = s THEN 0 ELSE remaining[k]]
      /\ order' = ord
      /\ cursor' = cur
      /\ last' = IF last = s THEN NoSession ELSE last
      /\ pass' = NewPass(ord, cur)
  BY <1>2, <1>3 DEF Release
<1>6. /\ used' \in Amount
      /\ DOMAIN grant' = DOMAIN grant \ K
      /\ grant' \in [DOMAIN grant' -> Amount]
      /\ Accounting'
  BY <1>4, ReturnKeeps
\* Every reservation of the session is returned.
<1>7. \A k \in DOMAIN grant : k \in K <=> k[1] = s
  <2>1. \A k \in DOMAIN grant : k \in Key /\ state[k] # "Absent"
    BY DEF IInv, Counting, Tickets, HoldsTicket
  <2>2. QED
    BY <1>1, <2>1 DEF KeysOf
<1>8. /\ ord \in Seq(Session)
      /\ Len(ord) = Len(order) - 1
      /\ Members(ord) = Live \ {s}
      /\ NoRepeats(ord)
  <2>1. order \in Seq(Session) /\ NoRepeats(order) /\ Members(order) = Live
    BY DEF IInv, TypeOK, Rotation, Members, NoRepeats
  <2>2. QED
    BY <1>2, <1>4, <2>1, WithoutType
<1>9. /\ cur \in Nat
      /\ ord # <<>> => cur < Len(ord)
      /\ ord = <<>> => cur = 0
  <2>1. PICK kept : kept = IF Len(ord) = 0 THEN 0
                           ELSE (IF PositionIn(order, s) < cursor
                                 THEN cursor - 1 ELSE cursor) % Len(ord)
    OBVIOUS
  <2>2. PositionIn(order, s) \in Nat
    <3>1. order \in Seq(Session) /\ s \in Members(order)
      BY <1>4 DEF IInv, TypeOK, Rotation, Members
    <3>2. QED
      BY <3>1, PositionType
  <2>3. (IF PositionIn(order, s) < cursor THEN cursor - 1 ELSE cursor) \in Nat
    BY <2>2 DEF IInv, TypeOK
  <2>4. /\ kept \in Nat
        /\ ord # <<>> => kept < Len(ord)
        /\ ord = <<>> => kept = 0
    BY <1>8, <2>1, <2>3
  <2>5. cur = IF last = s THEN kept ELSE CursorBehind(ord, last, kept)
    BY <1>2, <1>3, <2>1 DEF CursorAfterRemoval
  <2>6. QED
    BY <1>8, <2>4, <2>5, CursorBehindType
<1>10. Live' = Live \ {s}
  BY <1>4 DEF Live, IInv, TypeOK
<1>11. TypeOK'
  <2>1. state' \in [Key -> TaskState \cup {"Absent"}]
    BY <1>5 DEF IInv, TypeOK, TaskState
  <2>2. remaining' \in [Key -> Nat]
    BY <1>5 DEF IInv, TypeOK
  <2>3. pass' \in [phase : {"idle", "scan"}, start : Nat, offset : Nat,
                   rank : -1 .. 2]
    BY <1>5, <1>8, <1>9, NewPassType
  <2>4. DOMAIN grant' \subseteq Key
    BY <1>6 DEF IInv, TypeOK
  <2>5. last' \in Session \cup {NoSession}
    BY <1>5 DEF IInv, TypeOK
  <2>6. /\ job' \in [Session -> Job \cup {NoJob}]
        /\ completed' \in [Session -> Nat]
        /\ running' \in [Session -> Nat]
        /\ admitted' \in [Session -> Nat]
        /\ failed' \in [Session -> BOOLEAN]
    BY <1>4 DEF IInv, TypeOK
  <2>7. QED
    BY <1>4, <1>5, <1>6, <1>8, <1>9, <2>1, <2>2, <2>3, <2>4, <2>5, <2>6
    DEF IInv, TypeOK
<1>12. Tickets'
  <2>1. \A k \in Key : HoldsTicket(k)' <=> HoldsTicket(k) /\ k[1] # s
    BY <1>5 DEF HoldsTicket
  <2>2. DOMAIN grant = {k \in Key : HoldsTicket(k)}
    BY DEF IInv, Counting, Tickets
  <2>3. QED
    BY <1>6, <1>7, <2>1, <2>2 DEF Tickets
<1>13. AdmittedCount'
  <2>1. {k \in DOMAIN grant' : k[1] = s} = {}
    BY <1>6, <1>7
  <2>2. \A x \in Session \ {s} : {k \in DOMAIN grant' : k[1] = x} = HeldBy(x)
    BY <1>6, <1>7 DEF HeldBy
  <2>3. \A x \in Session :
          admitted'[x] = Cardinality({k \in DOMAIN grant' : k[1] = x})
    <3>1. admitted'[s] = 0 /\ \A x \in Session \ {s} : admitted'[x] = admitted[x]
      BY <1>4 DEF IInv, TypeOK
    <3>2. \A x \in Session : admitted[x] = Cardinality(HeldBy(x))
      BY DEF IInv, Counting, AdmittedCount
    <3>3. QED
      BY <2>1, <2>2, <3>1, <3>2, FS_EmptySet
  <2>4. QED
    BY <2>3 DEF AdmittedCount, HeldBy
<1>14. Counters'
  <2>1. \A st \in {"Running", "Succeeded"} : InState(s, st)' = {}
    BY <1>5 DEF InState, Key
  <2>2. \A x \in Session \ {s}, st \in {"Running", "Succeeded"} :
          InState(x, st)' = InState(x, st)
    BY <1>5 DEF InState, Key
  <2>3. QED
    BY <1>4, <2>1, <2>2, FS_EmptySet DEF IInv, TypeOK, Counting, Counters
<1>15. Records'
  <2>1. ASSUME NEW x \in Session, NEW t \in Task
        PROVE  state'[<<x, t>>] # "Absent" <=> x \in Live' /\ t \in job'[x].tasks
    <3>1. <<x, t>> \in Key /\ job \in [Session -> Job \cup {NoJob}]
      BY DEF Key, IInv, TypeOK
    <3>2. CASE x = s
      BY <1>5, <1>10, <3>1, <3>2
    <3>3. CASE x # s
      BY <1>4, <1>5, <1>10, <3>1, <3>3 DEF IInv, Records
    <3>4. QED
      BY <3>2, <3>3
  <2>2. QED
    BY <2>1 DEF Records
<1>16. Rotation'
  <2>1. last' # NoSession => last' \in Live'
    BY <1>5, <1>10 DEF IInv, Rotation
  <2>2. QED
    BY <1>5, <1>8, <1>9, <1>10, <2>1 DEF Rotation, Members, NoRepeats
<1>17. QED
  BY <1>6, <1>11, <1>12, <1>13, <1>14, <1>15, <1>16 DEF IInv, Counting

-----------------------------------------------------------------------------
(* The theorems.                                                           *)

LEMMA NextKeeps == IInv /\ [Next]_vars => IInv'
<1> SUFFICES ASSUME IInv, [Next]_vars PROVE IInv'
  OBVIOUS
<1>1. ASSUME NEW o \in 0 .. (Len(order) - 1), NEW t \in Task, Admit(o, t)
      PROVE  IInv'
  BY <1>1, AdmitKeeps
<1>2. CASE NextPass \/ EndAdmission
  BY <1>2, LoopKeeps
<1>3. ASSUME NEW s \in Session, NEW j \in Job, Submit(s, j) PROVE IInv'
  BY <1>3, SubmitKeeps
<1>4. ASSUME NEW s \in Session, NEW t \in Task, Acquire(s, t) PROVE IInv'
  BY <1>4, AcquireKeeps
<1>5. ASSUME NEW s \in Session, NEW t \in Task, Complete(s, t) PROVE IInv'
  BY <1>5, CompleteKeeps
<1>6. ASSUME NEW s \in Session, NEW t \in Task, Fail(s, t) PROVE IInv'
  BY <1>6, FailKeeps
<1>7. ASSUME NEW s \in Session, Release(s) PROVE IInv'
  BY <1>7, ReleaseKeeps
<1>8. ASSUME NEW conf \in Capacities, Configure(conf) PROVE IInv'
  BY <1>8, ConfigureKeeps
<1>9. CASE UNCHANGED vars
  <2>1. UNCHANGED <<resources, records, fairness, pass>>
    BY <1>9 DEF vars
  <2>2. Counting'
    BY <2>1, CountsKept DEF resources, records
  <2>3. QED
    BY <2>1, <2>2
    DEF resources, records, fairness, IInv, TypeOK, Records, Rotation, Live
<1>10. QED
  BY <1>1, <1>2, <1>3, <1>4, <1>5, <1>6, <1>7, <1>8, <1>9 DEF Next, Admission

\* Typing, counting, the records of live sessions and the rotation, together.
THEOREM Inductive == Spec => []IInv
<1>1. Init => IInv
  BY InitIInv
<1>2. IInv /\ [Next]_vars => IInv'
  BY NextKeeps
<1>3. QED
  BY <1>1, <1>2, PTL DEF Spec

\* The types of the scheduler's state: no counter wraps below zero.
THEOREM TypeCorrect == Spec => []TypeOK
<1>1. IInv => TypeOK
  BY DEF IInv
<1>2. QED
  BY <1>1, Inductive, PTL

\* No unit of a resource leaks and none is returned twice.
THEOREM AccountingCorrect == Spec => []Accounting
<1>1. IInv => Accounting
  BY DEF IInv, Counting
<1>2. QED
  BY <1>1, Inductive, PTL

\* The reservations out are those of the reserved and the running tasks.
THEOREM TicketsCorrect == Spec => []Tickets
<1>1. IInv => Tickets
  BY DEF IInv, Counting
<1>2. QED
  BY <1>1, Inductive, PTL

\* The counters that end a session agree with its task records.
THEOREM CountersCorrect == Spec => []SessionCounters
<1>1. IInv => SessionCounters
  BY DEF IInv, Counting, Counters, SessionCounters, Live
<1>2. QED
  BY <1>1, Inductive, PTL

\* The rotation, the cursor and the session admitted last stay in step with
\* the live sessions.
THEOREM RotationCorrect == Spec => []Rotation
<1>1. IInv => Rotation
  BY DEF IInv
<1>2. QED
  BY <1>1, Inductive, PTL

-----------------------------------------------------------------------------
(* Capacities.                                                             *)

\* A step that returns grants takes no unit of any resource.
LEMMA ReturnTakesNothing ==
  ASSUME IInv, NEW K, ReturnGrants(K), NEW r \in Resource
  PROVE  used'[r] <= used[r]
<1>1. AmountHeld(HeldIn(grant, K), r) \in Nat
  BY GrantsFamily, UnitsReturned DEF IInv
<1>2. used[r] \in Nat
  BY DEF IInv, TypeOK, Amount
<1>3. used'[r] = used[r] - AmountHeld(HeldIn(grant, K), r)
  BY DEF ReturnGrants
<1>4. QED
  BY <1>1, <1>2, <1>3

LEMMA AdmitFits ==
  ASSUME IInv, NEW o \in 0 .. (Len(order) - 1), NEW t \in Task, Admit(o, t),
         NEW r \in Resource, used'[r] > used[r]
  PROVE  used'[r] <= configured[r]
<1>1. PICK s \in Session : s = At(o) /\ s \in Live
  BY DEF Admit, Turn, CanAdmit, Live
<1>2. PICK req : req = RequirementOf(job[s], t)
  OBVIOUS
<1>3. /\ state[<<s, t>>] = "Ready"
      /\ Fits(configured, used, FALSE, req)
      /\ used' = Plus(used, Demand(configured, req))
  BY <1>1, <1>2 DEF Admit, FirstAdmissible, Admissible
<1>4. job[s] \in Job /\ t \in job[s].tasks
  BY <1>1, <1>3 DEF Live, IInv, TypeOK, Records
<1>5. req \in Requirement
  BY <1>2, <1>4, RequirementType
<1>6. configured \in Amount /\ used \in Amount /\ used[r] \in Nat
  BY DEF IInv, TypeOK, Amount
<1>7. Demand(configured, req)[r] \in Nat
  BY <1>5, <1>6, DemandType DEF Amount
<1>8. used'[r] = used[r] + Demand(configured, req)[r]
  BY <1>3 DEF Plus
<1>9. Demand(configured, req)[r] > 0
  BY <1>6, <1>7, <1>8
<1>10. QED
  BY <1>3, <1>5, <1>6, <1>8, <1>9, FitsWithinCapacity

\* Units are taken only inside the capacity configured at that time.
THEOREM NoOvercommit == Spec => NeverOvercommit
<1>1. ASSUME IInv, [Next]_vars
      PROVE  [\A r \in Resource : used'[r] > used[r] =>
                                    used'[r] <= configured[r]]_vars
  <2> SUFFICES ASSUME NEW r \in Resource, used'[r] > used[r]
               PROVE  used'[r] <= configured[r]
    OBVIOUS
  <2>1. ASSUME NEW o \in 0 .. (Len(order) - 1), NEW t \in Task, Admit(o, t)
        PROVE  used'[r] <= configured[r]
    BY <1>1, <2>1, AdmitFits
  <2>2. used[r] \in Nat
    BY <1>1 DEF IInv, TypeOK, Amount
  <2>3. ASSUME NEW K, ReturnGrants(K) PROVE FALSE
    <3>1. used'[r] <= used[r] /\ used'[r] \in Nat
      BY <1>1, <2>3, ReturnTakesNothing, ReturnKeeps DEF Amount
    <3>2. QED
      BY <2>2, <3>1
  <2>4. used' # used
    BY <2>2
  <2>5. ASSUME NEW s \in Session, NEW t \in Task,
               Acquire(s, t) \/ Complete(s, t) \/ Fail(s, t)
        PROVE  FALSE
    BY <2>3, <2>4, <2>5 DEF Acquire, Complete, Fail, resources
  <2>6. ASSUME NEW s \in Session, Release(s) PROVE FALSE
    BY <2>3, <2>6 DEF Release
  <2>7. ASSUME NEW s \in Session, NEW j \in Job, Submit(s, j) PROVE FALSE
    BY <2>4, <2>7 DEF Submit, resources
  <2>8. ASSUME NextPass \/ EndAdmission \/ \E conf \in Capacities : Configure(conf)
        PROVE  FALSE
    BY <2>4, <2>8 DEF NextPass, EndAdmission, Configure, resources
  <2>9. ~UNCHANGED vars
    BY <2>4 DEF vars, resources
  <2>10. QED
    BY <1>1, <2>1, <2>5, <2>6, <2>7, <2>8, <2>9 DEF Next, Admission
<1>2. QED
  BY <1>1, Inductive, PTL DEF Spec, NeverOvercommit

-----------------------------------------------------------------------------
(* Quotas.                                                                 *)

WithinQuota ==
  \A s \in Live :
    job[s].maxAdmittedTasks > 0 => admitted[s] <= job[s].maxAdmittedTasks

\* Returning grants never raises a count, and leaves the jobs alone.
LEMMA ReturnKeepsQuota ==
  ASSUME IInv, WithinQuota, NEW s \in Session, NEW K,
         admitted' = [admitted EXCEPT ![s] = @ - Returned(K)],
         job' = job
  PROVE  WithinQuota'
<1>1. Returned(K) \in Nat
  <2>1. IsFiniteSet(DOMAIN grant)
    BY GrantsFamily DEF IInv, GrantFamily
  <2>2. QED
    BY <2>1, FS_Intersection, FS_CardinalityType DEF Returned
<1>2. admitted \in [Session -> Nat]
  BY DEF IInv, TypeOK
<1>3. \A x \in Session : admitted'[x] <= admitted[x] /\ admitted'[x] \in Int
  BY <1>1, <1>2
<1>4. \A x \in Live : job[x].maxAdmittedTasks \in Nat
  BY JobAssumption DEF Live, IInv, TypeOK, JobShape
<1>5. Live' = Live /\ Live \subseteq Session
  BY DEF Live
<1>6. QED
  BY <1>2, <1>3, <1>4, <1>5 DEF WithinQuota

LEMMA QuotaKept ==
  ASSUME IInv, WithinQuota, [Next]_vars
  PROVE  WithinQuota'
<1>1. ASSUME NEW o \in 0 .. (Len(order) - 1), NEW t \in Task, Admit(o, t)
      PROVE  WithinQuota'
  <2>1. PICK s \in Session : s = At(o)
    BY <1>1 DEF Admit, Turn, CanAdmit, Live
  <2>2. /\ s \in Live /\ ~QuotaExhausted(s)
        /\ admitted' = [admitted EXCEPT ![s] = @ + 1]
        /\ job' = job
    BY <1>1, <2>1 DEF Admit, Turn, CanAdmit
  <2>3. admitted \in [Session -> Nat] /\ job[s].maxAdmittedTasks \in Nat
    BY <2>2, JobAssumption DEF Live, IInv, TypeOK, JobShape
  <2>4. job[s].maxAdmittedTasks > 0 => admitted'[s] <= job[s].maxAdmittedTasks
    BY <2>2, <2>3 DEF QuotaExhausted
  <2>5. \A x \in Session \ {s} : admitted'[x] = admitted[x]
    BY <2>2, <2>3
  <2>6. QED
    BY <2>2, <2>4, <2>5 DEF WithinQuota, Live
<1>2. ASSUME NEW s \in Session, NEW j \in Job, Submit(s, j) PROVE WithinQuota'
  <2>1. /\ job' = [job EXCEPT ![s] = j]
        /\ admitted' = [admitted EXCEPT ![s] = 0]
    BY <1>2 DEF Submit
  <2>2. job \in [Session -> Job \cup {NoJob}] /\ admitted \in [Session -> Nat]
    BY DEF IInv, TypeOK
  <2>3. JobShape(j)
    BY JobAssumption
  <2>4. job'[s].maxAdmittedTasks > 0 => admitted'[s] <= job'[s].maxAdmittedTasks
    BY <2>1, <2>2, <2>3 DEF JobShape
  <2>5. QED
    BY <2>1, <2>2, <2>4 DEF WithinQuota, Live
<1>3. ASSUME NEW s \in Session, NEW t \in Task, Complete(s, t) PROVE WithinQuota'
  BY <1>3, ReturnKeepsQuota DEF Complete
<1>4. ASSUME NEW s \in Session, NEW t \in Task, Fail(s, t) PROVE WithinQuota'
  BY <1>4, ReturnKeepsQuota DEF Fail
<1>5. ASSUME NEW s \in Session, Release(s) PROVE WithinQuota'
  <2>1. /\ job' = [job EXCEPT ![s] = NoJob]
        /\ admitted' = [admitted EXCEPT ![s] = 0]
    BY <1>5 DEF Release
  <2>2. job \in [Session -> Job \cup {NoJob}] /\ admitted \in [Session -> Nat]
    BY DEF IInv, TypeOK
  <2>3. QED
    BY <2>1, <2>2 DEF WithinQuota, Live
<1>6. ASSUME UNCHANGED <<job, admitted>> PROVE WithinQuota'
  BY <1>6 DEF WithinQuota, Live
<1>7. QED
  BY <1>1, <1>2, <1>3, <1>4, <1>5, <1>6
  DEF Next, Admission, NextPass, EndAdmission, Acquire, Configure, records, vars

\* A session's count of admitted tasks is right and within its quota.
THEOREM QuotaCorrect == Spec => []Quota
<1>1. Init => WithinQuota
  BY DEF Init, WithinQuota, Live
<1>2. IInv /\ WithinQuota /\ [Next]_vars => WithinQuota'
  BY QuotaKept
<1>3. IInv /\ WithinQuota => Quota
  <2> SUFFICES ASSUME IInv, WithinQuota, NEW s \in Live
               PROVE  /\ admitted[s] =
                           Cardinality({k \in KeysOf(s) : HoldsTicket(k)})
                      /\ job[s].maxAdmittedTasks > 0 =>
                           admitted[s] <= job[s].maxAdmittedTasks
    BY DEF Quota
  <2>1. HeldBy(s) = {k \in KeysOf(s) : HoldsTicket(k)}
    BY DEF IInv, Counting, Tickets, HeldBy, KeysOf, HoldsTicket
  <2>2. QED
    BY <2>1 DEF IInv, Counting, AdmittedCount, WithinQuota, Live
<1>4. QED
  BY <1>1, <1>2, <1>3, Inductive, PTL DEF Spec

-----------------------------------------------------------------------------
(* Task records.                                                           *)

Forward(k) == \/ state'[k] = state[k]
              \/ state'[k] = "Absent"
              \/ <<state[k], state'[k]>> \in Arrows

\* A task record only moves along the arrows of the lifecycle.
THEOREM LifecycleCorrect == Spec => Lifecycle
<1>1. ASSUME IInv, [Next]_vars
      PROVE  [\A k \in Key : \/ state'[k] = state[k]
                             \/ state'[k] = "Absent"
                             \/ <<state[k], state'[k]>> \in Arrows]_vars
  <2> SUFFICES ASSUME NEW k \in Key PROVE Forward(k)
    BY DEF Forward
  <2>1. state \in [Key -> TaskState \cup {"Absent"}]
    BY <1>1 DEF IInv, TypeOK
  <2>2. ASSUME NEW o \in 0 .. (Len(order) - 1), NEW t \in Task, Admit(o, t)
        PROVE  Forward(k)
    <3>1. PICK s : s = At(o)
      OBVIOUS
    <3>2. state[<<s, t>>] = "Ready" /\ state' = [state EXCEPT ![<<s, t>>] = "Reserved"]
      BY <2>2, <3>1 DEF Admit, FirstAdmissible, Admissible
    <3>3. QED
      BY <2>1, <3>2 DEF Forward, Arrows
  <2>3. ASSUME NEW s \in Session, NEW j \in Job, Submit(s, j) PROVE Forward(k)
    <3>1. s \notin Live
      BY <2>3 DEF Submit
    <3>2. k[1] = s => state[k] = "Absent"
      BY <1>1, <3>1, NothingLeft DEF Key
    <3>3. k[1] # s => state'[k] = state[k]
      BY <2>3 DEF Submit
    <3>4. state'[k] \in {state[k], "Ready", "Submitted"}
      BY <2>3 DEF Submit
    <3>5. QED
      BY <3>2, <3>3, <3>4 DEF Forward, Arrows
  <2>4. ASSUME NEW s \in Session, NEW t \in Task, Acquire(s, t) PROVE Forward(k)
    BY <2>1, <2>4 DEF Acquire, Forward, Arrows
  <2>5. ASSUME NEW s \in Session, NEW t \in Task, Complete(s, t) PROVE Forward(k)
    <3>1. /\ state[<<s, t>>] = "Running"
          /\ \/ k = <<s, t>> /\ state'[k] = "Succeeded"
             \/ state[k] = "Submitted" /\ state'[k] = "Ready"
             \/ state'[k] = state[k]
      BY <2>5 DEF Complete
    <3>2. QED
      BY <3>1 DEF Forward, Arrows
  <2>6. ASSUME NEW s \in Session, NEW t \in Task, Fail(s, t) PROVE Forward(k)
    <3>1. /\ state[<<s, t>>] = "Running"
          /\ \/ k = <<s, t>> /\ state'[k] = "Failed"
             \/ /\ state[k] \in {"Submitted", "Ready", "Reserved"}
                /\ state'[k] = "Cancelled"
             \/ state'[k] = state[k]
      BY <2>6 DEF Fail, Pending
    <3>2. QED
      BY <3>1 DEF Forward, Arrows
  <2>7. ASSUME NEW s \in Session, Release(s) PROVE Forward(k)
    BY <2>7 DEF Release, Forward
  <2>8. ASSUME state' = state PROVE Forward(k)
    BY <2>8 DEF Forward
  <2>9. QED
    BY <1>1, <2>2, <2>3, <2>4, <2>5, <2>6, <2>7, <2>8
    DEF Next, Admission, NextPass, EndAdmission, Configure, records, vars
<1>2. QED
  BY <1>1, Inductive, PTL DEF Spec, Lifecycle

-----------------------------------------------------------------------------
(* Failure.                                                                *)

\* FailureIsFinal task by task: it only speaks of live sessions, and every
\* other session has no record at all.
Settled(s) ==
  /\ failed[s] <=> \E t \in Task : state[<<s, t>>] = "Failed"
  /\ failed[s] => \A t \in Task :
                    state[<<s, t>>] \notin {"Submitted", "Ready", "Reserved"}
  /\ ~failed[s] => \A t \in Task : state[<<s, t>>] # "Cancelled"

AllSettled == \A s \in Session : Settled(s)

LEMMA SettledKept ==
  ASSUME IInv, AllSettled, [Next]_vars
  PROVE  AllSettled'
<1>1. /\ state \in [Key -> TaskState \cup {"Absent"}]
      /\ failed \in [Session -> BOOLEAN]
  BY DEF IInv, TypeOK
<1>2. ASSUME NEW o \in 0 .. (Len(order) - 1), NEW t \in Task, Admit(o, t)
      PROVE  AllSettled'
  <2>1. PICK s \in Session : s = At(o)
    BY <1>2 DEF Admit, Turn, CanAdmit, Live
  <2>2. /\ ~failed[s] /\ state[<<s, t>>] = "Ready"
        /\ state' = [state EXCEPT ![<<s, t>>] = "Reserved"]
        /\ failed' = failed
    BY <1>2, <2>1 DEF Admit, Turn, CanAdmit, FirstAdmissible, Admissible
  <2>3. QED
    BY <1>1, <2>2 DEF AllSettled, Settled, Key
<1>3. ASSUME NEW s \in Session, NEW j \in Job, Submit(s, j) PROVE AllSettled'
  <2>1. /\ s \notin Live
        /\ failed' = [failed EXCEPT ![s] = FALSE]
        /\ \A k \in Key : state'[k] \in {state[k], "Ready", "Submitted"}
        /\ \A k \in Key : k[1] # s => state'[k] = state[k]
    BY <1>3 DEF Submit
  <2>2. \A t \in Task : state'[<<s, t>>] \in {"Absent", "Ready", "Submitted"}
    <3>1. \A t \in Task : state[<<s, t>>] = "Absent" /\ <<s, t>> \in Key
      BY <2>1, NothingLeft DEF Key
    <3>2. QED
      BY <2>1, <3>1
  <2>3. Settled(s)'
    BY <1>1, <2>1, <2>2 DEF Settled
  <2>4. ASSUME NEW x \in Session \ {s} PROVE Settled(x)'
    <3>1. \A u \in Task : state'[<<x, u>>] = state[<<x, u>>]
      BY <2>1 DEF Key
    <3>2. failed'[x] = failed[x]
      BY <1>1, <2>1
    <3>3. QED
      BY <3>1, <3>2 DEF AllSettled, Settled
  <2>5. QED
    BY <2>3, <2>4 DEF AllSettled
<1>4. ASSUME NEW s \in Session, NEW t \in Task, Acquire(s, t) PROVE AllSettled'
  <2>1. /\ state[<<s, t>>] = "Reserved" /\ failed' = failed
        /\ state' = [state EXCEPT ![<<s, t>>] = "Running"]
    BY <1>4 DEF Acquire
  <2>2. QED
    BY <1>1, <2>1 DEF AllSettled, Settled, Key
<1>5. ASSUME NEW s \in Session, NEW t \in Task, Complete(s, t) PROVE AllSettled'
  <2>1. /\ failed' = failed /\ state[<<s, t>>] = "Running"
        /\ \A k \in Key :
             \/ k = <<s, t>> /\ state'[k] = "Succeeded"
             \/ state[k] = "Submitted" /\ state'[k] = "Ready"
             \/ state'[k] = state[k]
    BY <1>5 DEF Complete
  <2>2. \A x \in Session, u \in Task : <<x, u>> \in Key
    BY DEF Key
  <2>3. \A k \in Key :
          /\ state'[k] = "Failed" <=> state[k] = "Failed"
          /\ state'[k] = "Cancelled" <=> state[k] = "Cancelled"
          /\ state'[k] \in {"Submitted", "Ready", "Reserved"} =>
               state[k] \in {"Submitted", "Ready", "Reserved"}
    BY <2>1
  <2>4. QED
    BY <2>1, <2>2, <2>3 DEF AllSettled, Settled
<1>6. ASSUME NEW s \in Session, NEW t \in Task, Fail(s, t) PROVE AllSettled'
  <2>1. /\ failed' = [failed EXCEPT ![s] = TRUE]
        /\ state' = [d \in Key |-> IF d = <<s, t>> THEN "Failed"
                                   ELSE IF d \in Pending(s) THEN "Cancelled"
                                   ELSE state[d]]
    BY <1>6 DEF Fail
  <2>2. \A x \in Session, u \in Task : <<x, u>> \in Key
    BY DEF Key
  <2>3. Settled(s)'
    <3>1. failed'[s] /\ state'[<<s, t>>] = "Failed"
      BY <1>1, <2>1, <2>2
    <3>2. \A u \in Task :
            state'[<<s, u>>] \notin {"Submitted", "Ready", "Reserved"}
      BY <2>1, <2>2 DEF Pending, KeysOf
    <3>3. QED
      BY <3>1, <3>2 DEF Settled
  <2>4. ASSUME NEW x \in Session \ {s} PROVE Settled(x)'
    <3>1. \A u \in Task : state'[<<x, u>>] = state[<<x, u>>]
      BY <2>1, <2>2 DEF Pending, KeysOf
    <3>2. failed'[x] = failed[x]
      BY <1>1, <2>1
    <3>3. QED
      BY <3>1, <3>2 DEF AllSettled, Settled
  <2>5. QED
    BY <2>3, <2>4 DEF AllSettled
<1>7. ASSUME NEW s \in Session, Release(s) PROVE AllSettled'
  <2>1. /\ failed' = [failed EXCEPT ![s] = FALSE]
        /\ state' = [k \in Key |-> IF k[1] = s THEN "Absent" ELSE state[k]]
    BY <1>7 DEF Release
  <2>2. QED
    BY <1>1, <2>1 DEF AllSettled, Settled, Key
<1>8. ASSUME UNCHANGED <<state, failed>> PROVE AllSettled'
  BY <1>8 DEF AllSettled, Settled
<1>9. QED
  BY <1>2, <1>3, <1>4, <1>5, <1>6, <1>7, <1>8
  DEF Next, Admission, NextPass, EndAdmission, Configure, records, vars

\* Once a session has failed it admits and releases nothing more.
THEOREM FailureFinal == Spec => []FailureIsFinal
<1>1. Init => AllSettled
  BY DEF Init, AllSettled, Settled, Key
<1>2. IInv /\ AllSettled /\ [Next]_vars => AllSettled'
  BY SettledKept
<1>3. AllSettled => FailureIsFinal
  BY DEF AllSettled, Settled, FailureIsFinal, InState, Live
<1>4. QED
  BY <1>1, <1>2, <1>3, Inductive, PTL DEF Spec
-----------------------------------------------------------------------------
(* The device.                                                             *)

Exclusive(k) == RequirementOf(job[k[1]], k[2]).exclusiveDeviceAccess

\* The slots of an exclusive task cover all that are configured, and nobody
\* else has any.
Alone ==
  \A k \in DOMAIN grant :
    Exclusive(k) => /\ grant[k].slots >= configured.slots
                    /\ grant[k].slots > 0
                    /\ \A h \in DOMAIN grant \ {k} : grant[h].slots = 0

\* configureResourceScheduler is not called with more device slots.
SlotsNeverRaised == [][configured'.slots <= configured.slots]_vars

\* Fewer grants, unchanged requirements, no more slots: still alone.
LEMMA FewerStillAlone ==
  ASSUME IInv, Alone, DOMAIN grant' \subseteq DOMAIN grant,
         \A k \in DOMAIN grant' : grant'[k] = grant[k] /\ job'[k[1]] = job[k[1]],
         configured.slots \in Nat, configured'.slots \in Nat,
         configured'.slots <= configured.slots
  PROVE  Alone'
<1>1. \A k \in DOMAIN grant : grant[k].slots \in Nat
  BY DEF IInv, TypeOK, Amount, Resource
<1>2. ASSUME NEW k \in DOMAIN grant', Exclusive(k)'
      PROVE  /\ grant'[k].slots >= configured'.slots
             /\ grant'[k].slots > 0
             /\ \A h \in DOMAIN grant' \ {k} : grant'[h].slots = 0
  <2>1. Exclusive(k)
    BY <1>2 DEF Exclusive, RequirementOf
  <2>2. /\ grant[k].slots >= configured.slots
        /\ grant[k].slots > 0
        /\ \A h \in DOMAIN grant \ {k} : grant[h].slots = 0
    BY <2>1 DEF Alone
  <2>3. QED
    BY <1>1, <2>2
<1>3. QED
  BY <1>2 DEF Alone

\* A new grant of device slots finds no exclusive task, and an exclusive task
\* finds the device empty.
LEMMA AdmitKeepsAlone ==
  ASSUME IInv, Alone, NEW o \in 0 .. (Len(order) - 1), NEW t \in Task,
         Admit(o, t)
  PROVE  Alone'
<1>1. PICK s \in Session : s = At(o) /\ s \in Live
  BY DEF Admit, Turn, CanAdmit, Live
<1>2. PICK k : k = <<s, t>>
  OBVIOUS
<1>3. PICK req : req = RequirementOf(job[s], t)
  OBVIOUS
<1>4. PICK units : units = Demand(configured, req)
  OBVIOUS
<1>5. /\ state[k] = "Ready"
      /\ Fits(configured, used, FALSE, req)
      /\ grant' = HeldWith(grant, k, units)
      /\ UNCHANGED <<configured, job>>
  BY <1>1, <1>2, <1>3, <1>4 DEF Admit, FirstAdmissible, Admissible
<1>6. k \notin DOMAIN grant
  BY <1>5 DEF IInv, Counting, Tickets, HoldsTicket
<1>7. req \in Requirement
  <2>1. job[s] \in Job /\ t \in job[s].tasks
    BY <1>1, <1>2, <1>5 DEF Live, IInv, TypeOK, Records
  <2>2. QED
    BY <1>3, <2>1, RequirementType
<1>8. /\ configured.slots \in Nat /\ used.slots \in Nat
      /\ \A h \in DOMAIN grant : grant[h].slots \in Nat
  BY DEF IInv, TypeOK, Amount, Resource
<1>9. units.slots = SlotsFor(configured, req) /\ units.slots \in Nat
  BY <1>4, <1>7, <1>8 DEF Demand, SlotsFor
<1>10. units.slots > 0 => used.slots + units.slots <= configured.slots
  <2>1. ~DeviceBlocked(configured, used, req)
    BY <1>5 DEF Fits
  <2>2. SlotsFor(configured, req) > 0 => req.backendKind = "Npu"
    BY DEF SlotsFor
  <2>3. units.slots > 0 => ~(configured.slots < used.slots + units.slots)
    BY <1>9, <2>1, <2>2 DEF DeviceBlocked
  <2>4. QED
    BY <1>8, <1>9, <2>3
<1>11. \A h \in DOMAIN grant : grant[h].slots <= used.slots
  <2>1. GrantFamily(grant) /\ used.slots = AmountHeld(grant, "slots")
    BY GrantsFamily DEF IInv, Counting, Accounting, Resource
  <2>2. QED
    BY <2>1, HolderWithinTotal DEF Resource
<1>12. /\ DOMAIN grant' = DOMAIN grant \cup {k}
       /\ grant'[k] = units
       /\ \A h \in DOMAIN grant : grant'[h] = grant[h]
  BY <1>5, <1>6 DEF HeldWith
<1>13. \A h : Exclusive(h)' <=> Exclusive(h)
  BY <1>5 DEF Exclusive, RequirementOf
<1>14. ASSUME Exclusive(k)
       PROVE  /\ units.slots = configured.slots
              /\ units.slots > 0
              /\ \A h \in DOMAIN grant : grant[h].slots = 0
  <2>1. req.exclusiveDeviceAccess /\ req.backendKind = "Npu"
    BY <1>2, <1>3, <1>14 DEF Exclusive, RequirementOf
  <2>2. units.slots = configured.slots /\ units.slots > 0
    BY <1>5, <1>8, <1>9, <2>1 DEF Fits, DeviceBlocked, SlotsFor
  <2>3. QED
    BY <1>8, <1>10, <1>11, <2>2
<1>15. ASSUME NEW h \in DOMAIN grant, Exclusive(h)
       PROVE  units.slots = 0
  BY <1>8, <1>9, <1>10, <1>11, <1>15 DEF Alone
<1>16. ASSUME NEW h \in DOMAIN grant', Exclusive(h)'
       PROVE  /\ grant'[h].slots >= configured'.slots
              /\ grant'[h].slots > 0
              /\ \A g \in DOMAIN grant' \ {h} : grant'[g].slots = 0
  <2>1. CASE h = k
    BY <1>5, <1>8, <1>9, <1>12, <1>13, <1>14, <1>16, <2>1
  <2>2. CASE h # k
    <3>1. h \in DOMAIN grant /\ Exclusive(h)
      BY <1>12, <1>13, <1>16, <2>2
    <3>2. /\ grant[h].slots >= configured.slots
          /\ grant[h].slots > 0
          /\ \A g \in DOMAIN grant \ {h} : grant[g].slots = 0
      BY <3>1 DEF Alone
    <3>3. units.slots = 0
      BY <1>15, <3>1
    <3>4. QED
      BY <1>5, <1>12, <3>1, <3>2, <3>3
  <2>3. QED
    BY <2>1, <2>2
<1>17. QED
  BY <1>16 DEF Alone

LEMMA AloneKept ==
  ASSUME IInv, Alone, [Next]_vars, [configured'.slots <= configured.slots]_vars
  PROVE  Alone'
<1>1. configured.slots \in Nat /\ configured'.slots \in Nat
  <2>1. IInv'
    BY NextKeeps
  <2>2. QED
    BY <2>1 DEF IInv, TypeOK, Amount, Resource
<1>2. configured'.slots <= configured.slots
  BY <1>1 DEF vars, resources
<1>3. ASSUME NEW K, ReturnGrants(K)
      PROVE  /\ DOMAIN grant' \subseteq DOMAIN grant
             /\ \A k \in DOMAIN grant' : k \notin K /\ grant'[k] = grant[k]
  BY <1>3 DEF ReturnGrants, HeldOut
<1>4. ASSUME NEW o \in 0 .. (Len(order) - 1), NEW t \in Task, Admit(o, t)
      PROVE  Alone'
  BY <1>4, AdmitKeepsAlone
<1>5. ASSUME NEW s \in Session, NEW j \in Job, Submit(s, j) PROVE Alone'
  <2>1. s \notin Live /\ grant' = grant /\ job' = [job EXCEPT ![s] = j]
    BY <1>5 DEF Submit, resources
  <2>2. \A k \in DOMAIN grant : k[1] # s /\ k \in Key
    BY <2>1, NothingLeft DEF IInv, TypeOK
  <2>3. \A k \in DOMAIN grant : job'[k[1]] = job[k[1]]
    BY <2>1, <2>2 DEF IInv, TypeOK, Key
  <2>4. QED
    BY <1>1, <1>2, <2>1, <2>3, FewerStillAlone
<1>6. ASSUME NEW s \in Session, NEW t \in Task, Complete(s, t) \/ Fail(s, t)
      PROVE  Alone'
  <2>1. job' = job /\ \E K : ReturnGrants(K)
    BY <1>6 DEF Complete, Fail
  <2>2. QED
    BY <1>1, <1>2, <1>3, <2>1, FewerStillAlone
<1>7. ASSUME NEW s \in Session, Release(s) PROVE Alone'
  <2>1. ReturnGrants(KeysOf(s)) /\ job' = [job EXCEPT ![s] = NoJob]
    BY <1>7 DEF Release
  <2>2. \A k \in DOMAIN grant : k \in Key /\ state[k] # "Absent"
    BY DEF IInv, TypeOK, Counting, Tickets, HoldsTicket
  <2>3. \A k \in DOMAIN grant' : k[1] # s
    BY <1>3, <2>1, <2>2 DEF KeysOf
  <2>4. \A k \in DOMAIN grant' : job'[k[1]] = job[k[1]]
    BY <1>3, <2>1, <2>2, <2>3 DEF IInv, TypeOK, Key
  <2>5. QED
    BY <1>1, <1>2, <1>3, <2>1, <2>4, FewerStillAlone
<1>8. ASSUME UNCHANGED <<grant, job>> PROVE Alone'
  BY <1>1, <1>2, <1>8, FewerStillAlone
<1>9. CASE \/ NextPass \/ EndAdmission
           \/ \E s \in Session, t \in Task : Acquire(s, t)
           \/ \E conf \in Capacities : Configure(conf)
           \/ UNCHANGED vars
  BY <1>8, <1>9 DEF NextPass, EndAdmission, Acquire, Configure, vars, resources,
                    records
<1>10. QED
  BY <1>4, <1>5, <1>6, <1>7, <1>9 DEF Next, Admission

\* A task that asks for the whole device shares it with no other NPU task, as
\* long as the number of device slots is not raised; it may be lowered.
THEOREM DeviceNotShared == Spec /\ SlotsNeverRaised => []ExclusiveDevice
<1>1. Init => Alone
  BY DEF Init, Alone
<1>2. IInv /\ Alone /\ [Next]_vars /\ [configured'.slots <= configured.slots]_vars
        => Alone'
  BY AloneKept
<1>3. IInv /\ Alone => ExclusiveDevice
  <2> SUFFICES ASSUME IInv, Alone, NEW k \in DOMAIN grant, NEW h \in DOMAIN grant,
                      Exclusive(k), grant[h].slots > 0
               PROVE  h = k
    BY DEF ExclusiveDevice, Exclusive
  <2>1. QED
    BY DEF Alone
<1>4. QED
  BY <1>1, <1>2, <1>3, Inductive, PTL DEF Spec, SlotsNeverRaised

-----------------------------------------------------------------------------
(* Dependencies.                                                           *)

\* Dependencies, for one session.
DepsOf(s) ==
  \A t \in job[s].tasks :
    /\ state[<<s, t>>] \notin {"Submitted", "Cancelled"} => Unmet(s, t) = {}
    /\ ~failed[s] => /\ remaining[<<s, t>>] = Cardinality(Unmet(s, t))
                     /\ state[<<s, t>>] = "Submitted" => Unmet(s, t) # {}

\* Lists and their places.
LEMMA SeqPlaces ==
  ASSUME NEW S, NEW q \in Seq(S)
  PROVE  /\ \A i \in DOMAIN q : q[i] \in S
         /\ Len(q) \in Nat
         /\ DOMAIN q = 1 .. Len(q)
         /\ q = <<>> <=> Len(q) = 0
  OBVIOUS

\* The list of a task of a live session.
LEMMA ListType ==
  ASSUME IInv, NEW s \in Live, NEW t \in job[s].tasks
  PROVE  /\ s \in Session /\ t \in Task /\ <<s, t>> \in Key
         /\ job[s] \in Job
         /\ job[s].deps[t] \in Seq(job[s].tasks)
         /\ \A i \in DOMAIN job[s].deps[t] : job[s].deps[t][i] \in Task
         /\ IsFiniteSet(DOMAIN job[s].deps[t])
<1>1. s \in Session /\ job[s] \in Job
  BY DEF IInv, TypeOK, Live
<1>2. JobShape(job[s])
  BY <1>1, JobAssumption
<1>3. job[s].deps[t] \in Seq(job[s].tasks) /\ job[s].tasks \subseteq Task
  BY <1>2 DEF JobShape
<1>4. PICK n \in Nat : DOMAIN job[s].deps[t] = 1 .. n
  BY <1>3
<1>5. IsFiniteSet(DOMAIN job[s].deps[t])
  BY <1>4, FS_Interval
<1>6. \A i \in DOMAIN job[s].deps[t] : job[s].deps[t][i] \in Task
  BY <1>3, SeqPlaces
<1>7. QED
  BY <1>1, <1>3, <1>5, <1>6 DEF Key

\* What a task waits for, and how often it lists a task, can be counted.
LEMMA UnmetType ==
  ASSUME IInv, NEW s \in Live, NEW t \in job[s].tasks
  PROVE  /\ IsFiniteSet(Unmet(s, t))
         /\ Cardinality(Unmet(s, t)) \in Nat
         /\ Cardinality(Unmet(s, t)) = 0 <=> Unmet(s, t) = {}
<1>1. IsFiniteSet(Unmet(s, t))
  BY ListType, FS_Subset DEF Unmet
<1>2. QED
  BY <1>1, FS_CardinalityType, FS_EmptySet

\* Admission and acquisition, and everything that happens to other sessions.
LEMMA DepsKept ==
  ASSUME IInv, NEW s \in Live, DepsOf(s),
         job'[s] = job[s], failed'[s] = failed[s],
         \A t \in Task : remaining'[<<s, t>>] = remaining[<<s, t>>],
         \A t \in Task : \/ state'[<<s, t>>] = state[<<s, t>>]
                         \/ /\ state[<<s, t>>] \in {"Ready", "Reserved"}
                            /\ state'[<<s, t>>] \in {"Reserved", "Running"}
  PROVE  DepsOf(s)'
<1> SUFFICES ASSUME NEW t \in job[s].tasks
             PROVE  /\ state'[<<s, t>>] \notin {"Submitted", "Cancelled"} =>
                         Unmet(s, t)' = {}
                    /\ ~failed'[s] =>
                         /\ remaining'[<<s, t>>] = Cardinality(Unmet(s, t)')
                         /\ state'[<<s, t>>] = "Submitted" => Unmet(s, t)' # {}
  BY DEF DepsOf
<1>1. t \in Task /\ \A i \in DOMAIN job[s].deps[t] : job[s].deps[t][i] \in Task
  BY ListType
<1>2. \A u \in Task : state'[<<s, u>>] = "Succeeded" <=> state[<<s, u>>] = "Succeeded"
  OBVIOUS
<1>3. Unmet(s, t)' = Unmet(s, t)
  BY <1>1, <1>2 DEF Unmet
<1>4. QED
  BY <1>1, <1>3 DEF DepsOf

\* The session that submits: nothing has succeeded, so a list of n names n
\* unmet dependencies.
LEMMA SubmitDeps ==
  ASSUME IInv, NEW s \in Session, NEW j \in Job, Submit(s, j)
  PROVE  DepsOf(s)'
<1>1. JobShape(j)
  BY JobAssumption
<1>2. job'[s] = j /\ failed'[s] = FALSE
  BY DEF Submit, IInv, TypeOK
<1>3. \A t \in j.tasks :
        /\ <<s, t>> \in Key
        /\ remaining'[<<s, t>>] = Len(j.deps[t])
        /\ state'[<<s, t>>] = IF j.deps[t] = <<>> THEN "Ready" ELSE "Submitted"
  BY <1>1 DEF Submit, Key, JobShape
<1> SUFFICES ASSUME NEW t \in j.tasks
             PROVE  /\ state'[<<s, t>>] \notin {"Submitted", "Cancelled"} =>
                         Unmet(s, t)' = {}
                    /\ remaining'[<<s, t>>] = Cardinality(Unmet(s, t)')
                    /\ state'[<<s, t>>] = "Submitted" => Unmet(s, t)' # {}
  BY <1>2 DEF DepsOf
<1>4. j.deps[t] \in Seq(j.tasks)
  BY <1>1 DEF JobShape
<1>5. Unmet(s, t)' = 1 .. Len(j.deps[t])
  <2>1. \A i \in 1 .. Len(j.deps[t]) : state'[<<s, j.deps[t][i]>>] # "Succeeded"
    BY <1>3, <1>4
  <2>2. DOMAIN j.deps[t] = 1 .. Len(j.deps[t])
    BY <1>4
  <2>3. QED
    BY <1>2, <2>1, <2>2 DEF Unmet
<1>6. Cardinality(1 .. Len(j.deps[t])) = Len(j.deps[t])
  BY <1>4, FS_Interval
<1>7. j.deps[t] = <<>> <=> 1 .. Len(j.deps[t]) = {}
  <2>1. Len(j.deps[t]) \in Nat /\ (j.deps[t] = <<>> <=> Len(j.deps[t]) = 0)
    BY <1>4, SeqPlaces
  <2>2. \A n \in Nat : n = 0 <=> 1 .. n = {}
    OBVIOUS
  <2>3. QED
    BY <2>1, <2>2
<1>8. QED
  BY <1>3, <1>5, <1>6, <1>7

\* The session of a task that completes: a dependent waits for one thing
\* less at each place where it lists the task.
LEMMA CompleteDeps ==
  ASSUME IInv, AllSettled, NEW s \in Session, NEW t \in Task, Complete(s, t),
         DepsOf(s)
  PROVE  DepsOf(s)'
<1>1. /\ s \in Live /\ job' = job /\ failed' = failed
      /\ state[<<s, t>>] = "Running" /\ <<s, t>> \in Key
  BY DEF Complete, Key
<1> SUFFICES ASSUME NEW d \in job[s].tasks
             PROVE  /\ state'[<<s, d>>] \notin {"Submitted", "Cancelled"} =>
                         Unmet(s, d)' = {}
                    /\ ~failed[s] =>
                         /\ remaining'[<<s, d>>] = Cardinality(Unmet(s, d)')
                         /\ state'[<<s, d>>] = "Submitted" => Unmet(s, d)' # {}
  BY <1>1 DEF DepsOf
<1>2. PICK lists : lists = {i \in DOMAIN job[s].deps[d] : job[s].deps[d][i] = t}
  OBVIOUS
<1>3. PICK n : n = Listed(job[s], d, t)
  OBVIOUS
<1>4. PICK left : left = IF remaining[<<s, d>>] > n THEN remaining[<<s, d>>] - n ELSE 0
  OBVIOUS
<1>5. <<s, d>> \in Key /\ d \in Task
  BY <1>1, ListType
<1>6. \A u \in Task : state'[<<s, u>>] = "Succeeded" <=>
                        u = t \/ state[<<s, u>>] = "Succeeded"
  BY DEF Complete, Key
<1>7. \A i \in DOMAIN job[s].deps[d] : job[s].deps[d][i] \in Task
  BY <1>1, ListType
<1>8. /\ lists \subseteq Unmet(s, d)
      /\ Unmet(s, d)' = Unmet(s, d) \ lists
  BY <1>1, <1>2, <1>6, <1>7 DEF Unmet
<1>9. /\ IsFiniteSet(Unmet(s, d)) /\ Cardinality(Unmet(s, d)) \in Nat
      /\ Cardinality(Unmet(s, d)) = 0 <=> Unmet(s, d) = {}
  BY <1>1, UnmetType
<1>10. /\ IsFiniteSet(lists) /\ n = Cardinality(lists) /\ n \in Nat
       /\ n = 0 <=> lists = {}
       /\ n <= Cardinality(Unmet(s, d))
  BY <1>2, <1>3, <1>8, <1>9, FS_Subset, FS_CardinalityType, FS_EmptySet DEF Listed
<1>11. /\ Cardinality(Unmet(s, d)') = Cardinality(Unmet(s, d)) - n
       /\ Cardinality(Unmet(s, d)') = 0 <=> Unmet(s, d)' = {}
  <2>1. Unmet(s, d) \cap lists = lists
    BY <1>8
  <2>2. Cardinality(Unmet(s, d) \ lists) = Cardinality(Unmet(s, d)) - n
    BY <1>9, <1>10, <2>1, FS_Difference
  <2>3. IsFiniteSet(Unmet(s, d) \ lists)
    BY <1>9, FS_Difference
  <2>4. Cardinality(Unmet(s, d) \ lists) = 0 <=> Unmet(s, d) \ lists = {}
    BY <2>3, FS_EmptySet
  <2>5. QED
    BY <1>8, <2>2, <2>4
<1>12. DepsOf(s)!(d)
  BY DEF DepsOf
<1>13. CASE ~failed[s] /\ state[<<s, d>>] = "Submitted" /\ n > 0
  <2>1. remaining[<<s, d>>] = Cardinality(Unmet(s, d))
    BY <1>12, <1>13
  <2>2. left = Cardinality(Unmet(s, d)')
    BY <1>4, <1>9, <1>10, <1>11, <2>1
  <2>3. /\ remaining'[<<s, d>>] = left
        /\ state'[<<s, d>>] = IF left = 0 THEN "Ready" ELSE "Submitted"
    BY <1>1, <1>3, <1>4, <1>5, <1>13 DEF Complete
  <2>4. QED
    BY <1>11, <2>2, <2>3
<1>14. CASE ~(~failed[s] /\ state[<<s, d>>] = "Submitted" /\ n > 0)
  <2>1. /\ remaining'[<<s, d>>] = remaining[<<s, d>>]
        /\ state'[<<s, d>>] = IF d = t THEN "Succeeded" ELSE state[<<s, d>>]
    BY <1>1, <1>3, <1>5, <1>14 DEF Complete
  <2>2. state[<<s, d>>] \notin {"Submitted", "Cancelled"} => Unmet(s, d)' = {}
    BY <1>8, <1>12
  <2>3. state'[<<s, d>>] \notin {"Submitted", "Cancelled"} => Unmet(s, d)' = {}
    BY <1>1, <2>1, <2>2
  <2>4. ASSUME ~failed[s]
        PROVE  /\ remaining'[<<s, d>>] = Cardinality(Unmet(s, d)')
               /\ state'[<<s, d>>] = "Submitted" => Unmet(s, d)' # {}
    <3>1. state[<<s, d>>] # "Cancelled"
      BY <1>5, <2>4 DEF AllSettled, Settled
    <3>2. lists = {}
      BY <1>8, <1>10, <1>12, <1>14, <2>4, <3>1
    <3>3. Unmet(s, d)' = Unmet(s, d)
      BY <1>8, <3>2
    <3>4. QED
      BY <1>1, <1>12, <2>1, <2>4, <3>3
  <2>5. QED
    BY <2>3, <2>4
<1>15. QED
  BY <1>13, <1>14

\* The session of a task that fails: nothing succeeds, nothing is let go.
LEMMA FailDeps ==
  ASSUME IInv, NEW s \in Session, NEW t \in Task, Fail(s, t), DepsOf(s)
  PROVE  DepsOf(s)'
<1>1. /\ s \in Live /\ job' = job /\ failed'[s]
      /\ state[<<s, t>>] = "Running"
  BY DEF Fail, IInv, TypeOK
<1>2. \A u \in Task :
        \/ u = t /\ state'[<<s, u>>] = "Failed"
        \/ state[<<s, u>>] # "Succeeded" /\ state'[<<s, u>>] = "Cancelled"
        \/ state'[<<s, u>>] = state[<<s, u>>]
  BY DEF Fail, Pending, Key
<1> SUFFICES ASSUME NEW d \in job[s].tasks,
                    state'[<<s, d>>] \notin {"Submitted", "Cancelled"}
             PROVE  Unmet(s, d)' = {}
  BY <1>1 DEF DepsOf
<1>3. d \in Task /\ \A i \in DOMAIN job[s].deps[d] : job[s].deps[d][i] \in Task
  BY <1>1, ListType
<1>4. state[<<s, d>>] \notin {"Submitted", "Cancelled"}
  BY <1>1, <1>2, <1>3
<1>5. Unmet(s, d) = {}
  BY <1>4 DEF DepsOf
<1>6. \A u \in Task : state[<<s, u>>] = "Succeeded" => state'[<<s, u>>] = "Succeeded"
  BY <1>1, <1>2
<1>7. QED
  BY <1>1, <1>3, <1>5, <1>6 DEF Unmet

\* A call on session s leaves the records of the others alone.
LEMMA OthersKeepDeps ==
  ASSUME IInv, Dependencies, NEW s \in Session,
         \A x \in Session \ {s} : /\ job'[x] = job[x] /\ failed'[x] = failed[x]
                                  /\ \A u \in Task :
                                       /\ remaining'[<<x, u>>] = remaining[<<x, u>>]
                                       /\ state'[<<x, u>>] = state[<<x, u>>],
         s \in Live' => DepsOf(s)'
  PROVE  Dependencies'
<1> SUFFICES ASSUME NEW x \in Session \ {s}, job'[x] # NoJob
             PROVE  DepsOf(x)'
  BY DEF Dependencies, DepsOf, Live
<1>1. x \in Live
  BY DEF Live
<1>2. DepsOf(x)
  BY <1>1 DEF Dependencies, DepsOf
<1>3. QED
  BY <1>1, <1>2, DepsKept

LEMMA DependenciesKept ==
  ASSUME IInv, AllSettled, Dependencies, [Next]_vars
  PROVE  Dependencies'
<1>1. /\ state \in [Key -> TaskState \cup {"Absent"}]
      /\ failed \in [Session -> BOOLEAN]
      /\ job \in [Session -> Job \cup {NoJob}]
      /\ remaining \in [Key -> Nat]
  BY DEF IInv, TypeOK
<1>2. \A x \in Live : DepsOf(x)
  BY DEF Dependencies, DepsOf
<1>3. \A x \in Session, u \in Task : <<x, u>> \in Key
  BY DEF Key
<1>4. ASSUME NEW o \in 0 .. (Len(order) - 1), NEW t \in Task, Admit(o, t)
      PROVE  Dependencies'
  <2>1. PICK s \in Session : s = At(o) /\ s \in Live
    BY <1>4 DEF Admit, Turn, CanAdmit, Live
  <2>2. /\ state[<<s, t>>] = "Ready"
        /\ state' = [state EXCEPT ![<<s, t>>] = "Reserved"]
        /\ UNCHANGED <<job, failed, remaining>>
    BY <1>4, <2>1 DEF Admit, FirstAdmissible, Admissible
  <2>3. DepsOf(s)'
    BY <1>1, <1>2, <1>3, <2>1, <2>2, DepsKept
  <2>4. QED
    BY <1>1, <1>3, <2>2, <2>3, OthersKeepDeps
<1>5. ASSUME NEW s \in Session, NEW j \in Job, Submit(s, j) PROVE Dependencies'
  <2>1. DepsOf(s)'
    BY <1>5, SubmitDeps
  <2>2. \A x \in Session \ {s} :
          /\ job'[x] = job[x] /\ failed'[x] = failed[x]
          /\ \A u \in Task : /\ remaining'[<<x, u>>] = remaining[<<x, u>>]
                             /\ state'[<<x, u>>] = state[<<x, u>>]
    BY <1>1, <1>3, <1>5 DEF Submit
  <2>3. QED
    BY <2>1, <2>2, OthersKeepDeps
<1>6. ASSUME NEW s \in Session, NEW t \in Task, Acquire(s, t) PROVE Dependencies'
  <2>1. /\ s \in Live /\ state[<<s, t>>] = "Reserved"
        /\ state' = [state EXCEPT ![<<s, t>>] = "Running"]
        /\ UNCHANGED <<job, failed, remaining>>
    BY <1>6 DEF Acquire
  <2>2. DepsOf(s)'
    BY <1>1, <1>2, <1>3, <2>1, DepsKept
  <2>3. QED
    BY <1>1, <1>3, <2>1, <2>2, OthersKeepDeps
<1>7. ASSUME NEW s \in Session, NEW t \in Task, Complete(s, t) PROVE Dependencies'
  <2>1. DepsOf(s)'
    BY <1>2, <1>7, CompleteDeps DEF Complete
  <2>2. \A x \in Session \ {s} :
          /\ job'[x] = job[x] /\ failed'[x] = failed[x]
          /\ \A u \in Task : /\ remaining'[<<x, u>>] = remaining[<<x, u>>]
                             /\ state'[<<x, u>>] = state[<<x, u>>]
    BY <1>1, <1>3, <1>7 DEF Complete
  <2>3. QED
    BY <2>1, <2>2, OthersKeepDeps
<1>8. ASSUME NEW s \in Session, NEW t \in Task, Fail(s, t) PROVE Dependencies'
  <2>1. DepsOf(s)'
    BY <1>2, <1>8, FailDeps DEF Fail
  <2>2. \A x \in Session \ {s} :
          /\ job'[x] = job[x] /\ failed'[x] = failed[x]
          /\ \A u \in Task : /\ remaining'[<<x, u>>] = remaining[<<x, u>>]
                             /\ state'[<<x, u>>] = state[<<x, u>>]
    BY <1>1, <1>3, <1>8 DEF Fail, Pending, KeysOf
  <2>3. QED
    BY <2>1, <2>2, OthersKeepDeps
<1>9. ASSUME NEW s \in Session, Release(s) PROVE Dependencies'
  <2>1. s \notin Live'
    BY <1>1, <1>9 DEF Release, Live
  <2>2. \A x \in Session \ {s} :
          /\ job'[x] = job[x] /\ failed'[x] = failed[x]
          /\ \A u \in Task : /\ remaining'[<<x, u>>] = remaining[<<x, u>>]
                             /\ state'[<<x, u>>] = state[<<x, u>>]
    BY <1>1, <1>3, <1>9 DEF Release
  <2>3. QED
    BY <2>1, <2>2, OthersKeepDeps
<1>10. ASSUME UNCHANGED <<job, failed, remaining, state>> PROVE Dependencies'
  <2>1. \A x, u : Unmet(x, u)' = Unmet(x, u)
    BY <1>10 DEF Unmet
  <2>2. QED
    BY <1>10, <2>1 DEF Dependencies, Live
<1>11. QED
  BY <1>4, <1>5, <1>6, <1>7, <1>8, <1>9, <1>10
  DEF Next, Admission, NextPass, EndAdmission, Configure, records, vars

\* No task is let go before everything it depends on has succeeded, and the
\* count of what it still waits for is exact, duplicates in its list included.
THEOREM DependenciesCorrect == Spec => []Dependencies
<1>1. Init => AllSettled /\ Dependencies
  BY DEF Init, AllSettled, Settled, Key, Dependencies, Live
<1>2. IInv /\ AllSettled /\ [Next]_vars => AllSettled'
  BY SettledKept
<1>3. IInv /\ AllSettled /\ Dependencies /\ [Next]_vars => Dependencies'
  BY DependenciesKept
<1>4. QED
  BY <1>1, <1>2, <1>3, Inductive, PTL DEF Spec

-----------------------------------------------------------------------------
(* The admission loop leaves nothing behind.                               *)

LEMMA LeastElement ==
  ASSUME NEW T \in SUBSET Nat, T # {}
  PROVE  \E x \in T : \A y \in T : x <= y
<1>1. PICK x \in T : \A y \in T : <<y, x>> \notin OpToRel(<, Nat)
  BY NatLessThanWellFounded, WFMin
<1>2. \A y \in T : ~(y < x)
  BY <1>1 DEF OpToRel
<1>3. QED
  BY <1>2

\* A pass begins inside the rotation, which does not change under it.
StartsInside ==
  pass.phase = "scan" /\ order # <<>> => pass.start < Len(order)

\* A pass visits every session of the rotation.
LEMMA EveryoneVisited ==
  ASSUME IInv, StartsInside, pass.phase = "scan", NEW s \in Live
  PROVE  \E o \in 0 .. (Len(order) - 1) : At(o) = s
<1>1. order \in Seq(Session) /\ pass.start \in Nat
  BY DEF IInv, TypeOK
<1>2. PICK n : n = Len(order)
  OBVIOUS
<1>3. PICK i \in 1 .. n : order[i] = s
  BY <1>2 DEF IInv, Rotation
<1>4. n \in Nat \ {0}
  BY <1>1, <1>2, <1>3
<1>5. PICK start \in 0 .. (n - 1) : start = pass.start
  BY <1>1, <1>2, <1>4 DEF StartsInside
<1>6. \E o \in 0 .. (n - 1) : (start + o) % n = i - 1
  <2>1. CASE i - 1 >= start
    <3>1. (i - 1) - start \in 0 .. (n - 1) /\ start + ((i - 1) - start) = i - 1
      BY <1>3, <1>4, <1>5, <2>1
    <3>2. (i - 1) % n = i - 1
      BY <1>3, <1>4
    <3>3. QED
      BY <3>1, <3>2
  <2>2. CASE ~(i - 1 >= start)
    <3>1. /\ (i - 1) - start + n \in 0 .. (n - 1)
          /\ start + ((i - 1) - start + n) = (i - 1) + n
      BY <1>3, <1>4, <1>5, <2>2
    <3>2. ((i - 1) + n) % n = i - 1
      BY <1>3, <1>4
    <3>3. QED
      BY <3>1, <3>2
  <2>3. QED
    BY <2>1, <2>2
<1>7. PICK o \in 0 .. (n - 1) : (start + o) % n = i - 1
  BY <1>6
<1>8. At(o) = s
  BY <1>2, <1>3, <1>5, <1>7 DEF At, Index
<1>9. QED
  BY <1>2, <1>8

\* Among the sessions that can be admitted one is of the highest class.
LEMMA HighestClass ==
  ASSUME IInv, NEW s \in Session, CanAdmit(s)
  PROVE  \E h \in Session :
           /\ CanAdmit(h)
           /\ \A x \in Session : CanAdmit(x) => job[x].priority <= job[h].priority
<1>1. \A x \in Session : CanAdmit(x) => job[x].priority \in 0 .. 2
  BY JobAssumption DEF IInv, TypeOK, CanAdmit, Live, JobShape
<1>2. CASE \E x \in Session : CanAdmit(x) /\ job[x].priority = 2
  BY <1>1, <1>2
<1>3. CASE /\ ~\E x \in Session : CanAdmit(x) /\ job[x].priority = 2
           /\ \E x \in Session : CanAdmit(x) /\ job[x].priority = 1
  BY <1>1, <1>3
<1>4. CASE /\ ~\E x \in Session : CanAdmit(x) /\ job[x].priority = 2
           /\ ~\E x \in Session : CanAdmit(x) /\ job[x].priority = 1
  BY <1>1, <1>4
<1>5. QED
  BY <1>2, <1>3, <1>4

\* A pass that has admitted nobody and finds no turn has nobody to admit.
LEMMA LoopServesAll ==
  ASSUME IInv, StartsInside, pass.phase = "scan", pass.rank = AnyRank, NoTurn
  PROVE  \A s \in Session : ~CanAdmit(s)
<1> SUFFICES ASSUME NEW s \in Session, CanAdmit(s) PROVE FALSE
  OBVIOUS
<1>1. PICK h \in Session :
        /\ CanAdmit(h)
        /\ \A x \in Session : CanAdmit(x) => job[x].priority <= job[h].priority
  BY HighestClass
<1>2. PICK n \in Nat : n = Len(order)
  <2>1. order \in Seq(Session)
    BY DEF IInv, TypeOK
  <2>2. QED
    BY <2>1, SeqPlaces
<1>3. PICK T : T = {o \in 0 .. (n - 1) :
                      CanAdmit(At(o)) /\ job[At(o)].priority = job[h].priority}
  OBVIOUS
<1>4. h \in Live
  BY <1>1 DEF CanAdmit
<1>5. T # {}
  BY <1>1, <1>2, <1>3, <1>4, EveryoneVisited
<1>6. PICK o \in T : \A p \in T : o <= p
  BY <1>3, <1>5, LeastElement
<1>7. o \in 0 .. (n - 1) /\ CanAdmit(At(o)) /\ job[At(o)].priority = job[h].priority
  BY <1>3, <1>6
<1>8. \A p \in 0 .. (n - 1) :
        CanAdmit(At(p)) => job[At(p)].priority <= job[At(o)].priority
  BY <1>1, <1>7 DEF CanAdmit, Live
<1>9. \A p \in pass.offset .. (o - 1) :
        ~(CanAdmit(At(p)) /\ job[At(p)].priority = job[At(o)].priority)
  <2>1. pass.offset \in Nat
    BY DEF IInv, TypeOK
  <2>2. \A p \in pass.offset .. (o - 1) : p \in 0 .. (n - 1) /\ ~(o <= p)
    BY <1>2, <1>7, <2>1
  <2>3. QED
    BY <1>3, <1>6, <1>7, <2>2
<1>10. Turn(o)
  BY <1>2, <1>7, <1>8, <1>9 DEF Turn
<1>11. QED
  BY <1>2, <1>7, <1>10 DEF NoTurn

\* A new pass scans, from inside the rotation.
LEMMA NewPassStarts ==
  ASSUME NEW ord \in Seq(Session), NEW cur \in Nat
  PROVE  /\ NewPass(ord, cur).phase = "scan"
         /\ ord # <<>> => NewPass(ord, cur).start < Len(ord)
<1>1. ord # <<>> => Len(ord) \in Nat \ {0}
  OBVIOUS
<1>2. ord # <<>> => cur % Len(ord) < Len(ord)
  BY <1>1
<1>3. QED
  BY <1>2 DEF NewPass

\* Every step either moves the loop, or begins it, or is one of the calls
\* that do not run it.
LEMMA StepsOfPass ==
  ASSUME IInv, [Next]_vars
  PROVE  \/ pass' = NewPass(order', cursor')
         \/ /\ pass.phase = "scan" /\ pass'.phase = "scan"
            /\ pass'.start = pass.start /\ order' = order
         \/ EndAdmission
         \/ \E s \in Session, t \in Task : Acquire(s, t) \/ Fail(s, t)
         \/ UNCHANGED vars
<1>1. ASSUME NEW o \in 0 .. (Len(order) - 1), NEW t \in Task, Admit(o, t)
      PROVE  /\ pass.phase = "scan" /\ pass'.phase = "scan"
             /\ pass'.start = pass.start /\ order' = order
  BY <1>1 DEF Admit, IInv, TypeOK
<1>2. ASSUME NextPass PROVE pass' = NewPass(order', cursor')
  BY <1>2 DEF NextPass, fairness
<1>3. ASSUME NEW s \in Session, NEW j \in Job, Submit(s, j)
      PROVE  pass' = NewPass(order', cursor')
  BY <1>3 DEF Submit
<1>4. ASSUME NEW s \in Session, NEW t \in Task, Complete(s, t)
      PROVE  pass' = NewPass(order', cursor')
  BY <1>4 DEF Complete, fairness
<1>5. ASSUME NEW s \in Session, Release(s)
      PROVE  pass' = NewPass(order', cursor')
  BY <1>5 DEF Release
<1>6. ASSUME NEW conf \in Capacities, Configure(conf)
      PROVE  pass' = NewPass(order', cursor')
  BY <1>6 DEF Configure, fairness
<1>7. QED
  BY <1>1, <1>2, <1>3, <1>4, <1>5, <1>6 DEF Next, Admission

LEMMA WorkConserved ==
  ASSUME IInv, IInv', StartsInside, WorkConserving, [Next]_vars
  PROVE  StartsInside' /\ WorkConserving'
<1>1. CASE pass' = NewPass(order', cursor')
  <2>1. order' \in Seq(Session) /\ cursor' \in Nat
    BY DEF IInv, TypeOK
  <2>2. pass'.phase = "scan" /\ (order' # <<>> => pass'.start < Len(order'))
    BY <1>1, <2>1, NewPassStarts
  <2>3. QED
    BY <2>2 DEF StartsInside, WorkConserving, MutexFree
<1>2. CASE /\ pass.phase = "scan" /\ pass'.phase = "scan"
           /\ pass'.start = pass.start /\ order' = order
  BY <1>2 DEF StartsInside, WorkConserving, MutexFree
<1>3. CASE EndAdmission
  <2>1. \A s \in Session : ~CanAdmit(s)
    BY <1>3, LoopServesAll DEF EndAdmission
  <2>2. \A s \in Session : ~CanAdmit(s)'
    BY <1>3, <2>1
    DEF EndAdmission, resources, records, CanAdmit, Live, QuotaExhausted, Admissible
  <2>3. pass'.phase = "idle"
    BY <1>3 DEF EndAdmission, Idle
  <2>4. QED
    BY <2>2, <2>3 DEF StartsInside, WorkConserving
<1>4. ASSUME NEW s \in Session, NEW t \in Task, Acquire(s, t)
      PROVE  StartsInside' /\ WorkConserving'
  <2>1. /\ UNCHANGED <<configured, used, job, admitted, failed, order, pass>>
        /\ MutexFree
    BY <1>4 DEF Acquire, resources, fairness
  <2>2. \A x \in Session, u \in Task :
          state'[<<x, u>>] = "Ready" => state[<<x, u>>] = "Ready"
    BY <1>4 DEF Acquire, IInv, TypeOK, Key
  <2>3. \A x \in Session : CanAdmit(x)' => CanAdmit(x)
    BY <2>1, <2>2 DEF CanAdmit, Live, QuotaExhausted, Admissible
  <2>4. QED
    BY <2>1, <2>3 DEF StartsInside, WorkConserving, MutexFree, Live
<1>5. ASSUME NEW s \in Session, NEW t \in Task, Fail(s, t)
      PROVE  StartsInside' /\ WorkConserving'
  <2>1. UNCHANGED <<pass, order>> /\ s \in Live' /\ failed'[s]
    BY <1>5 DEF Fail, fairness, Live, IInv, TypeOK
  <2>2. QED
    BY <2>1 DEF StartsInside, WorkConserving
<1>6. CASE UNCHANGED vars
  <2>1. \A s \in Session : CanAdmit(s)' <=> CanAdmit(s)
    BY <1>6 DEF vars, resources, records, CanAdmit, Live, QuotaExhausted, Admissible
  <2>2. QED
    BY <1>6, <2>1
    DEF vars, resources, records, fairness, StartsInside, WorkConserving,
        MutexFree, Live
<1>7. QED
  BY <1>1, <1>2, <1>3, <1>4, <1>5, <1>6, StepsOfPass

\* Between calls, and with no failed session waiting for its release, there
\* is no session with a ready task that fits and that its quota allows.
THEOREM NothingLeftWaiting == Spec => []WorkConserving
<1>1. Init => StartsInside /\ WorkConserving
  BY DEF Init, StartsInside, WorkConserving, CanAdmit, Live, Idle
<1>2. IInv /\ IInv' /\ StartsInside /\ WorkConserving /\ [Next]_vars
        => StartsInside' /\ WorkConserving'
  BY WorkConserved
<1>3. QED
  BY <1>1, <1>2, Inductive, PTL DEF Spec

-----------------------------------------------------------------------------
(* Priority.                                                               *)

\* What fits while more is in use fits while less is.
LEMMA FitsLess ==
  ASSUME NEW conf \in Amount, NEW less \in Amount, NEW more \in Amount,
         \A r \in Resource : less[r] <= more[r],
         NEW req \in Requirement, Fits(conf, more, FALSE, req)
  PROVE  Fits(conf, less, FALSE, req)
<1>1. /\ less.workspace <= more.workspace /\ less.lanes <= more.lanes
      /\ less.slots <= more.slots /\ less.streams <= more.streams
  BY DEF Resource
<1>2. /\ less.workspace \in Nat /\ less.lanes \in Nat
      /\ less.slots \in Nat /\ less.streams \in Nat
      /\ more.workspace \in Nat /\ more.lanes \in Nat
      /\ more.slots \in Nat /\ more.streams \in Nat
      /\ conf.workspace \in Nat /\ conf.lanes \in Nat
      /\ conf.slots \in Nat /\ conf.streams \in Nat
  BY DEF Amount, Resource
<1>3. ~WorkspaceBlocked(conf, less, req)
  BY <1>1, <1>2 DEF Fits, WorkspaceBlocked, Requirement
<1>4. ~LaneBlocked(conf, less, req)
  BY <1>1, <1>2 DEF Fits, LaneBlocked
<1>5. ~DeviceBlocked(conf, less, req)
  BY <1>1, <1>2 DEF Fits, DeviceBlocked, SlotsFor
<1>6. ~StreamConflict(less, FALSE, req)
  BY <1>1, <1>2 DEF Fits, StreamConflict
<1>7. ~StreamBlocked(conf, less, req)
  BY <1>1, <1>2 DEF Fits, StreamBlocked, StreamsFor, Requirement
<1>8. QED
  BY <1>3, <1>4, <1>5, <1>6, <1>7 DEF Fits

\* An admission makes nobody else admissible.
LEMMA AdmitHelpsNobody ==
  ASSUME IInv, NEW o \in 0 .. (Len(order) - 1), NEW t \in Task, Admit(o, t),
         NEW x \in Session, CanAdmit(x)'
  PROVE  CanAdmit(x)
<1>1. PICK s \in Session : s = At(o) /\ s \in Live
  BY DEF Admit, Turn, CanAdmit, Live
<1>2. PICK req : req = RequirementOf(job[s], t)
  OBVIOUS
<1>3. /\ state[<<s, t>>] = "Ready"
      /\ state' = [state EXCEPT ![<<s, t>>] = "Reserved"]
      /\ used' = Plus(used, Demand(configured, req))
      /\ admitted' = [admitted EXCEPT ![s] = @ + 1]
      /\ UNCHANGED <<configured, job, failed>>
  BY <1>1, <1>2 DEF Admit, FirstAdmissible, Admissible
<1>4. req \in Requirement
  BY <1>1, <1>2, <1>3, RequirementType DEF Live, IInv, TypeOK, Records
<1>5. configured \in Amount /\ used \in Amount
  BY DEF IInv, TypeOK
<1>6. /\ used' \in Amount
      /\ \A r \in Resource : used[r] <= used'[r]
  <2>1. Demand(configured, req) \in Amount
    BY <1>4, <1>5, DemandType
  <2>2. QED
    BY <1>3, <1>5, <2>1 DEF Plus, Amount
<1>7. PICK u \in Task : Admissible(x, u)'
  BY DEF CanAdmit
<1>8. state[<<x, u>>] = "Ready"
  BY <1>3, <1>7 DEF Admissible, IInv, TypeOK, Key
<1>9. x \in Live /\ ~failed[x] /\ job[x] \in Job
  BY <1>3 DEF CanAdmit, Live, IInv, TypeOK
<1>10. PICK need : need = RequirementOf(job[x], u)
  OBVIOUS
<1>11. need \in Requirement
  BY <1>8, <1>9, <1>10, RequirementType DEF IInv, Records
<1>12. Fits(configured, used', FALSE, need)
  BY <1>3, <1>7, <1>10 DEF Admissible
<1>13. Fits(configured, used, FALSE, need)
  BY <1>5, <1>6, <1>11, <1>12, FitsLess
<1>14. Admissible(x, u)
  BY <1>8, <1>10, <1>13 DEF Admissible
<1>15. ~QuotaExhausted(x)
  <2>1. admitted \in [Session -> Nat] /\ job[x].maxAdmittedTasks \in Nat
    BY <1>9, JobAssumption DEF IInv, TypeOK, JobShape
  <2>2. admitted[x] <= admitted'[x] /\ admitted'[x] \in Nat /\ admitted[x] \in Nat
    BY <1>3, <2>1
  <2>3. ~QuotaExhausted(x)'
    BY DEF CanAdmit
  <2>4. QED
    BY <1>3, <2>1, <2>2, <2>3 DEF QuotaExhausted
<1>16. QED
  BY <1>9, <1>14, <1>15 DEF CanAdmit

\* Once a pass has settled on a class, no session of a higher one can be
\* admitted until the pass is over.
ClassSettled ==
  pass.phase = "scan" /\ pass.rank # AnyRank =>
    \A x \in Session : CanAdmit(x) => job[x].priority <= pass.rank

LEMMA AdmitByClass ==
  ASSUME IInv, StartsInside, ClassSettled,
         NEW o \in 0 .. (Len(order) - 1), NEW t \in Task, Admit(o, t)
  PROVE  \A x \in Session : CanAdmit(x) => job[x].priority <= job[At(o)].priority
<1>1. pass.phase = "scan" /\ Turn(o)
  BY DEF Admit
<1>2. CASE pass.rank # AnyRank
  BY <1>1, <1>2 DEF ClassSettled, Turn
<1>3. CASE pass.rank = AnyRank
  <2>1. ASSUME NEW x \in Session, CanAdmit(x)
        PROVE  \E p \in 0 .. (Len(order) - 1) : At(p) = x
    BY <1>1, <2>1, EveryoneVisited DEF CanAdmit
  <2>2. QED
    BY <1>1, <1>3, <2>1 DEF Turn
<1>4. QED
  BY <1>2, <1>3

LEMMA ClassKept ==
  ASSUME IInv, StartsInside, ClassSettled, [Next]_vars
  PROVE  ClassSettled'
<1>1. ASSUME NEW o \in 0 .. (Len(order) - 1), NEW t \in Task, Admit(o, t)
      PROVE  ClassSettled'
  <2>1. pass'.rank = job[At(o)].priority /\ job' = job
    BY <1>1 DEF Admit, IInv, TypeOK
  <2>2. \A x \in Session : CanAdmit(x)' => job[x].priority <= job[At(o)].priority
    BY <1>1, AdmitByClass, AdmitHelpsNobody
  <2>3. QED
    BY <2>1, <2>2 DEF ClassSettled
<1>2. ASSUME pass' = NewPass(order', cursor') PROVE ClassSettled'
  BY <1>2 DEF NewPass, ClassSettled
<1>3. ASSUME MutexFree, pass' = pass PROVE ClassSettled'
  BY <1>3 DEF MutexFree, ClassSettled
<1>4. ASSUME EndAdmission PROVE ClassSettled'
  BY <1>4 DEF EndAdmission, Idle, ClassSettled
<1>5. ASSUME UNCHANGED vars PROVE ClassSettled'
  <2>1. \A s \in Session : CanAdmit(s)' <=> CanAdmit(s)
    BY <1>5 DEF vars, resources, records, CanAdmit, Live, QuotaExhausted, Admissible
  <2>2. QED
    BY <1>5, <2>1 DEF vars, records, ClassSettled
<1>6. QED
  BY <1>1, <1>2, <1>3, <1>4, <1>5
  DEF Next, Admission, NextPass, Submit, Acquire, Complete, Fail, Release,
      Configure, fairness

\* Only an admission raises the number of a session's admitted tasks.
LEMMA OnlyAdmitAdmits ==
  ASSUME IInv, [Next]_vars, NEW s \in Session, admitted'[s] > admitted[s]
  PROVE  \E o \in 0 .. (Len(order) - 1), t \in Task : Admit(o, t) /\ At(o) = s
<1>1. admitted \in [Session -> Nat]
  BY DEF IInv, TypeOK
<1>2. ASSUME NEW K, NEW x \in Session,
             admitted' = [admitted EXCEPT ![x] = @ - Returned(K)]
      PROVE  FALSE
  <2>1. Returned(K) \in Nat
    BY GrantsFamily, FS_Intersection, FS_CardinalityType
    DEF Returned, IInv, GrantFamily
  <2>2. QED
    BY <1>1, <1>2, <2>1
<1>3. ASSUME NEW x \in Session, admitted' = [admitted EXCEPT ![x] = 0]
      PROVE  FALSE
  BY <1>1, <1>3
<1>4. ASSUME admitted' = admitted PROVE FALSE
  BY <1>1, <1>4
<1>5. ASSUME NEW o \in 0 .. (Len(order) - 1), NEW t \in Task, Admit(o, t)
      PROVE  At(o) = s
  <2>1. admitted' = [admitted EXCEPT ![At(o)] = @ + 1]
    BY <1>5 DEF Admit
  <2>2. QED
    BY <1>1, <2>1
<1>6. ~\E x \in Session, j \in Job : Submit(x, j)
  BY <1>3 DEF Submit
<1>7. ~\E x \in Session, t \in Task : Acquire(x, t) \/ Complete(x, t) \/ Fail(x, t)
  BY <1>2, <1>4 DEF Acquire, Complete, Fail
<1>8. ~\E x \in Session : Release(x)
  BY <1>3 DEF Release
<1>9. ~(NextPass \/ EndAdmission \/ (\E conf \in Capacities : Configure(conf))
        \/ UNCHANGED vars)
  BY <1>4 DEF NextPass, EndAdmission, Configure, records, vars
<1>10. QED
  BY <1>5, <1>6, <1>7, <1>8, <1>9 DEF Next, Admission

\* An admission never passes over a session of a higher class that could
\* have been admitted.
THEOREM PriorityRespected == Spec => PriorityAmongAdmissible
<1>1. Init => StartsInside /\ WorkConserving /\ ClassSettled
  BY DEF Init, StartsInside, WorkConserving, CanAdmit, Live, Idle, ClassSettled
<1>2. IInv /\ IInv' /\ StartsInside /\ WorkConserving /\ [Next]_vars
        => StartsInside' /\ WorkConserving'
  BY WorkConserved
<1>3. IInv /\ StartsInside /\ ClassSettled /\ [Next]_vars => ClassSettled'
  BY ClassKept
<1>4. IInv /\ StartsInside /\ ClassSettled /\ [Next]_vars =>
        [\A s \in Session : admitted'[s] > admitted[s] =>
           \A h \in Session : CanAdmit(h) => job[h].priority <= job[s].priority]_vars
  BY OnlyAdmitAdmits, AdmitByClass
<1>5. QED
  BY <1>1, <1>2, <1>3, <1>4, Inductive, PTL DEF Spec, PriorityAmongAdmissible

-----------------------------------------------------------------------------
(* The promise of ReservationLedger.tla.                                   *)

\* The refinement mapping, by name.
heldMap ==
  [k \in DOMAIN grant |-> [units |-> grant[k], exclusive |-> FALSE]]

Presented == UNION {{RequirementOf(j, t) : t \in j.tasks} : j \in Job}

\* The ledger of the promise calculates like the ledger of the code.
LEMMA SameArithmetic ==
  /\ Ledger!Resource = Resource /\ Ledger!Amount = Amount
  /\ \A conf, amount, excl, req :
       /\ Ledger!Fits(conf, amount, excl, req) <=> Fits(conf, amount, excl, req)
       /\ Ledger!BlockReason(conf, amount, excl, req)
            = BlockReason(conf, amount, excl, req)
       /\ Ledger!Demand(conf, req) = Demand(conf, req)
  /\ \A g, r : Ledger!AmountHeld(g, r) = AmountHeld(g, r)
  /\ \A g, k, units : Ledger!HeldWith(g, k, units) = HeldWith(g, k, units)
  /\ \A g, K : Ledger!HeldOut(g, K) = HeldOut(g, K)
<1>1. Ledger!Resource = Resource /\ Ledger!Amount = Amount
  BY DEF Ledger!Resource, Resource, Ledger!Amount, Amount
<1>2. \A conf, amount, excl, req :
        /\ Ledger!WorkspaceBlocked(conf, amount, req)
             <=> WorkspaceBlocked(conf, amount, req)
        /\ Ledger!LaneBlocked(conf, amount, req) <=> LaneBlocked(conf, amount, req)
        /\ Ledger!DeviceBlocked(conf, amount, req)
             <=> DeviceBlocked(conf, amount, req)
        /\ Ledger!StreamConflict(amount, excl, req)
             <=> StreamConflict(amount, excl, req)
        /\ Ledger!StreamBlocked(conf, amount, req)
             <=> StreamBlocked(conf, amount, req)
        /\ Ledger!Demand(conf, req) = Demand(conf, req)
  BY DEF Ledger!WorkspaceBlocked, WorkspaceBlocked, Ledger!LaneBlocked, LaneBlocked,
         Ledger!DeviceBlocked, DeviceBlocked, Ledger!StreamConflict, StreamConflict,
         Ledger!StreamBlocked, StreamBlocked, Ledger!LanesFor, LanesFor,
         Ledger!SlotsFor, SlotsFor, Ledger!StreamsFor, StreamsFor,
         Ledger!Demand, Demand
<1>3. \A conf, amount, excl, req :
        /\ Ledger!Fits(conf, amount, excl, req) <=> Fits(conf, amount, excl, req)
        /\ Ledger!BlockReason(conf, amount, excl, req)
             = BlockReason(conf, amount, excl, req)
  BY <1>2 DEF Ledger!Fits, Fits, Ledger!BlockReason, BlockReason
<1>4. /\ \A g, r : Ledger!AmountHeld(g, r) = AmountHeld(g, r)
      /\ \A g, k, units : Ledger!HeldWith(g, k, units) = HeldWith(g, k, units)
      /\ \A g, K : Ledger!HeldOut(g, K) = HeldOut(g, K)
  <2>1. \A S : Ledger!Cardinality(S) = Cardinality(S)
    BY Zenon DEF Ledger!Cardinality, Cardinality
  <2>2. \A g, r : Ledger!UnitsHeld(g, r) = UnitsHeld(g, r)
    BY DEF Ledger!UnitsHeld, UnitsHeld
  <2>3. QED
    BY <2>1, <2>2 DEF Ledger!AmountHeld, AmountHeld, Ledger!HeldWith, HeldWith,
                      Ledger!HeldOut, HeldOut
<1>5. QED
  BY <1>1, <1>2, <1>3, <1>4

\* What the ledger adds up is what the counters say, and nobody holds the
\* stream domain alone.
LEMMA CountersSeen ==
  ASSUME IInv
  PROVE  /\ Ledger!InUse = used /\ Ledger!Taken = FALSE
         /\ \A req : Ledger!Fits(configured, Ledger!InUse, Ledger!Taken, req)
                       <=> Fits(configured, used, FALSE, req)
<1>1. Ledger!UnitsOf(heldMap) = grant
  <2>1. grant = [k \in DOMAIN grant |-> grant[k]]
    BY DEF IInv, TypeOK
  <2>2. QED
    BY <2>1 DEF Ledger!UnitsOf, heldMap
<1>2. Ledger!InUse = [r \in Resource |-> AmountHeld(grant, r)]
  BY <1>1, SameArithmetic DEF Ledger!InUse, heldMap
<1>3. used = [r \in Resource |-> used[r]]
  BY DEF IInv, TypeOK, Amount
<1>4. Ledger!InUse = used
  BY <1>2, <1>3 DEF IInv, Counting, Accounting
<1>5. Ledger!Taken = FALSE
  BY DEF Ledger!Taken
<1>6. QED
  BY <1>4, <1>5, SameArithmetic, Zenon

LEMMA AdmitReserves ==
  ASSUME IInv, NEW o \in 0 .. (Len(order) - 1), NEW t \in Task, Admit(o, t)
  PROVE  \E req \in Presented, k \in Key : Ledger!Reserve(k, req)
<1>1. PICK s \in Session : s = At(o) /\ s \in Live
  BY DEF Admit, Turn, CanAdmit, Live
<1>2. PICK k : k = <<s, t>>
  OBVIOUS
<1>3. PICK req : req = RequirementOf(job[s], t)
  OBVIOUS
<1>4. k \in Key /\ state[k] = "Ready" /\ Fits(configured, used, FALSE, req)
  BY <1>1, <1>2, <1>3 DEF Admit, FirstAdmissible, Admissible, Key
<1>5. k \notin DOMAIN grant
  BY <1>4 DEF IInv, Counting, Tickets, HoldsTicket
<1>6. req \in Presented
  <2>1. job[s] \in Job
    BY <1>1 DEF IInv, TypeOK, Live
  <2>2. t \in job[s].tasks
    BY <1>1, <1>2, <1>4 DEF IInv, Records
  <2>3. QED
    BY <1>3, <2>1, <2>2 DEF Presented
<1> DEFINE units == Demand(configured, req)
           entry == [units |-> units, exclusive |-> req.exclusiveStreamAccess]
<1>7. req.exclusiveStreamAccess = FALSE
  BY <1>3 DEF RequirementOf
<1>8. grant' = HeldWith(grant, k, units) /\ configured' = configured
  BY <1>1, <1>2, <1>3 DEF Admit
<1>9. heldMap' = HeldWith(heldMap, k, entry)
  <2> HIDE DEF units
  <2>1. QED
    BY <1>7, <1>8 DEF heldMap, HeldWith
<1>10. /\ Ledger!HeldWith(heldMap, k, entry) = HeldWith(heldMap, k, entry)
       /\ Ledger!Demand(configured, req) = units
  BY SameArithmetic, Zenon
<1>11. Ledger!Fits(configured, Ledger!InUse, Ledger!Taken, req)
  BY <1>4, CountersSeen, Zenon
<1>12. k \notin DOMAIN heldMap
  BY <1>5 DEF heldMap
<1>13. Ledger!Reserve(k, req)
  BY <1>8, <1>9, <1>10, <1>11, <1>12 DEF Ledger!Reserve, heldMap
<1>14. QED
  BY <1>4, <1>6, <1>13

LEMMA ReturnGrantsReturns ==
  ASSUME NEW K, ReturnGrants(K), configured' = configured
  PROVE  \E R \in SUBSET DOMAIN heldMap : Ledger!Return(R)
<1>1. PICK R : R = K \cap DOMAIN heldMap
  OBVIOUS
<1>2. heldMap' = HeldOut(heldMap, R)
  BY <1>1 DEF ReturnGrants, heldMap, HeldOut
<1>3. Ledger!Return(R)
  BY <1>2, SameArithmetic DEF Ledger!Return, heldMap
<1>4. QED
  BY <1>1, <1>3

LEMMA LedgerStep ==
  ASSUME IInv, IInv', [Next]_vars
  PROVE  [Ledger!LedgerNext]_(Ledger!ledgerVars)
<1>1. ASSUME NEW o \in 0 .. (Len(order) - 1), NEW t \in Task, Admit(o, t)
      PROVE  Ledger!LedgerNext
  BY <1>1, AdmitReserves DEF Ledger!LedgerNext, Presented
<1>2. ASSUME NEW K, ReturnGrants(K), configured' = configured
      PROVE  Ledger!LedgerNext
  BY <1>2, ReturnGrantsReturns DEF Ledger!LedgerNext, heldMap
<1>3. ASSUME NEW s \in Session, NEW t \in Task, Complete(s, t) \/ Fail(s, t)
      PROVE  Ledger!LedgerNext
  BY <1>2, <1>3 DEF Complete, Fail
<1>4. ASSUME NEW s \in Session, Release(s) PROVE Ledger!LedgerNext
  BY <1>2, <1>4 DEF Release
<1>5. ASSUME NEW conf \in Capacities, Configure(conf) PROVE Ledger!LedgerNext
  <2>1. configured' \in Amount /\ heldMap' = heldMap
    BY <1>5 DEF Configure, heldMap, IInv, TypeOK
  <2>2. Ledger!Reconfigure
    BY <2>1, SameArithmetic DEF Ledger!Reconfigure, heldMap
  <2>3. QED
    BY <2>2 DEF Ledger!LedgerNext
<1>6. CASE UNCHANGED <<configured, grant>>
  <2>1. UNCHANGED <<configured, heldMap>>
    BY <1>6 DEF heldMap
  <2>2. QED
    BY <2>1 DEF Ledger!ledgerVars, heldMap
<1>7. QED
  BY <1>1, <1>3, <1>4, <1>5, <1>6
  DEF Next, Admission, NextPass, EndAdmission, Submit, Acquire, vars, resources

\* The scheduler is a client of the ledger that ResourceScheduler implements:
\* every change of the reservations in its task records is one that
\* ReservationLedger allows, a reservation for a task that has none, or a
\* return; so what was proved of the one holds beneath the other.
THEOREM LedgerKept == Spec => KeepsLedger
<1>1. Init => Ledger!LedgerInit
  <2> SUFFICES ASSUME Init PROVE Ledger!LedgerInit
    OBVIOUS
  <2>1. configured \in Amount /\ DOMAIN heldMap = {}
    BY CapacitiesAssumption DEF Init, heldMap
  <2>2. QED
    BY <2>1, SameArithmetic DEF Ledger!LedgerInit, heldMap
<1>2. IInv /\ IInv' /\ [Next]_vars => [Ledger!LedgerNext]_(Ledger!ledgerVars)
  BY LedgerStep
<1>3. QED
  BY <1>1, <1>2, Inductive, PTL DEF Spec, KeepsLedger, Ledger!LedgerSpec
=============================================================================
