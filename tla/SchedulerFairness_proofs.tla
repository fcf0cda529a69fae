----------------------- MODULE SchedulerFairness_proofs -----------------------
(***************************************************************************)
(* Round robin, proved: in SchedulerFairness.tla no session is admitted    *)
(* twice while another of its class waits and could have been admitted.    *)
(*                                                                         *)
(* The rotation is read from the cursor.  Whoever is admitted goes to its  *)
(* end, since the cursor is set behind him, and so comes after everyone    *)
(* who waits; he can only be served again when they had their turn.  What  *)
(* has to be shown is that the calls between keep that order: a session    *)
(* that arrives is appended where the rotation is stored and not where it  *)
(* is read, one that leaves shifts what is behind it, and each time the    *)
(* cursor is computed anew.                                                *)
(***************************************************************************)
EXTENDS SchedulerFairness, GlobalScheduler_proofs

\* Place i comes before place j when the rotation is read from cursor c.
Sooner(i, j, c) ==
  \/ i > c /\ j <= c
  \/ (i > c <=> j > c) /\ i < j

\* Session x comes before session y.
Before(x, y) ==
  \A i, j \in 1 .. Len(order) :
    order[i] = x /\ order[j] = y => Sooner(i, j, cursor)

\* Who has been passed over comes before those he was passed over for.
TurnsKept ==
  \A s \in Session :
    /\ s \notin Live => overtaken[s] = {}
    /\ \A a \in overtaken[s] : a \in Live /\ a # s /\ Before(s, a)

\* The cursor stands behind the session admitted last.
CursorFollows ==
  last # NoSession =>
    \E i \in 1 .. Len(order) :
      /\ order[i] = last
      /\ cursor = IF i = Len(order) THEN 0 ELSE i

\* A pass has come as far as the cursor, and one that has not settled on a
\* class is at its beginning.
PassAtCursor ==
  pass.phase = "scan" /\ order # <<>> =>
    /\ pass.start < Len(order)
    /\ pass.offset <= Len(order)
    /\ pass.start + pass.offset \in {cursor, cursor + Len(order)}
    /\ pass.rank = AnyRank => pass.offset = 0

FairInv ==
  /\ overtaken \in [Session -> SUBSET Session]
  /\ TurnsKept
  /\ CursorFollows
  /\ PassAtCursor

-----------------------------------------------------------------------------
(* The rotation and the pass.                                              *)

LEMMA ModTwice ==
  ASSUME NEW n \in Nat \ {0}, NEW k \in 0 .. (2 * n - 1)
  PROVE  k % n = IF k < n THEN k ELSE k - n
<1>1. CASE k < n
  BY <1>1
<1>2. CASE ~(k < n)
  <2>1. PICK m \in 0 .. (n - 1) : m = k - n
    BY <1>2
  <2>2. (m + n) % n = m
    BY <2>1
  <2>3. QED
    BY <1>2, <2>1, <2>2
<1>3. QED
  BY <1>1, <1>2

\* What IInv says of the rotation.
LEMMA RotationFacts ==
  ASSUME IInv
  PROVE  /\ order \in Seq(Session) /\ Len(order) \in Nat
         /\ order = <<>> <=> Len(order) = 0
         /\ NoRepeats(order) /\ Members(order) = Live
         /\ cursor \in Nat
         /\ order # <<>> => cursor < Len(order)
         /\ order = <<>> => cursor = 0
         /\ last \in Session \cup {NoSession}
<1>1. order \in Seq(Session) /\ cursor \in Nat /\ last \in Session \cup {NoSession}
  BY DEF IInv, TypeOK
<1>2. Len(order) \in Nat /\ (order = <<>> <=> Len(order) = 0)
  BY <1>1, SeqPlaces
<1>3. QED
  BY <1>1, <1>2 DEF IInv, Rotation, NoRepeats, Members

\* Where the session at an offset of the pass stands.
LEMMA IndexOfOffset ==
  ASSUME IInv, PassAtCursor, pass.phase = "scan", NEW o \in 0 .. (Len(order) - 1)
  PROVE  /\ pass.start \in Nat /\ pass.offset \in Nat
         /\ Index(o) + 1 \in 1 .. Len(order)
         /\ Index(o) + 1 = IF pass.start + o < Len(order) THEN pass.start + o + 1
                           ELSE pass.start + o - Len(order) + 1
         /\ At(o) = order[Index(o) + 1]
<1>1. pass.start \in Nat /\ pass.offset \in Nat
  BY DEF IInv, TypeOK
<1>2. PICK n \in Nat \ {0} : n = Len(order)
  BY RotationFacts
<1>3. PICK b \in 0 .. (n - 1) : b = pass.start
  BY <1>1, <1>2, RotationFacts DEF PassAtCursor
<1>4. PICK k \in 0 .. (2 * n - 1) : k = b + o
  BY <1>2, <1>3
<1>5. (b + o) % n = IF b + o < n THEN b + o ELSE b + o - n
  <2>1. k % n = IF k < n THEN k ELSE k - n
    BY ModTwice
  <2>2. QED
    BY <1>4, <2>1
<1>6. Index(o) = IF b + o < n THEN b + o ELSE b + o - n
  BY <1>2, <1>3, <1>5 DEF Index
<1>7. QED
  BY <1>1, <1>2, <1>3, <1>6 DEF At

\* A pass that has come as far as the cursor meets the place at offset o,
\* not before its own offset, sooner than the one at q, which it did not
\* meet between.
LEMMA MetSooner ==
  ASSUME NEW n \in Nat \ {0}, NEW c \in 0 .. (n - 1),
         NEW b \in 0 .. (n - 1), NEW e \in 0 .. n, b + e = c \/ b + e = c + n,
         NEW o \in 0 .. (n - 1), NEW q \in 0 .. (n - 1), e <= o, q # o,
         ~(e <= q /\ q <= o - 1),
         NEW i \in Int, i = IF b + o < n THEN b + o + 1 ELSE b + o - n + 1,
         NEW j \in Int, j = IF b + q < n THEN b + q + 1 ELSE b + q - n + 1
  PROVE  Sooner(i, j, c)
<1>1. CASE b + e = c
  BY <1>1 DEF Sooner
<1>2. CASE b + e = c + n
  BY <1>2 DEF Sooner
<1>3. QED
  BY <1>1, <1>2

\* Who is admitted comes before everyone else of his class who could be.
LEMMA AdmittedFirst ==
  ASSUME IInv, PassAtCursor,
         NEW o \in 0 .. (Len(order) - 1), NEW t \in Task, Admit(o, t),
         NEW s \in Session, CanAdmit(s), s # At(o),
         job[s].priority = job[At(o)].priority
  PROVE  Before(At(o), s)
<1>1. pass.phase = "scan" /\ Turn(o)
  BY DEF Admit
<1>2. PICK n \in Nat \ {0} : n = Len(order) /\ cursor \in 0 .. (n - 1)
  BY RotationFacts
<1>3. /\ pass.start \in 0 .. (n - 1) /\ pass.offset \in 0 .. n
      /\ pass.start + pass.offset \in {cursor, cursor + n}
      /\ pass.rank = AnyRank => pass.offset = 0
  BY <1>1, <1>2, IndexOfOffset, RotationFacts DEF PassAtCursor
<1>4. pass.offset <= o
  BY <1>1, <1>2, <1>3 DEF Turn
<1>5. PICK q \in 0 .. (n - 1) : At(q) = s
  <2>1. s \in Live /\ StartsInside
    BY <1>2, <1>3 DEF CanAdmit, StartsInside
  <2>2. QED
    BY <1>1, <1>2, <2>1, EveryoneVisited
<1>6. ~(pass.offset <= q /\ q <= o - 1)
  BY <1>1, <1>2, <1>3, <1>5 DEF Turn
<1>7. ASSUME NEW i \in 1 .. n, NEW j \in 1 .. n,
             order[i] = At(o), order[j] = s
      PROVE  Sooner(i, j, cursor)
  <2>1. /\ Index(o) + 1 \in 1 .. n /\ order[Index(o) + 1] = At(o)
        /\ Index(o) + 1 = IF pass.start + o < n THEN pass.start + o + 1
                          ELSE pass.start + o - n + 1
    BY <1>1, <1>2, IndexOfOffset
  <2>2. /\ Index(q) + 1 \in 1 .. n /\ order[Index(q) + 1] = s
        /\ Index(q) + 1 = IF pass.start + q < n THEN pass.start + q + 1
                          ELSE pass.start + q - n + 1
    BY <1>1, <1>2, <1>5, IndexOfOffset
  <2>3. i = Index(o) + 1 /\ j = Index(q) + 1
    BY <1>2, <1>7, <2>1, <2>2, RotationFacts DEF NoRepeats
  <2>4. q # o
    BY <1>5
  <2>5. PICK b \in 0 .. (n - 1), e \in 0 .. n, c \in 0 .. (n - 1) :
          b = pass.start /\ e = pass.offset /\ c = cursor
    BY <1>2, <1>3
  <2>6. b + e = c \/ b + e = c + n
    BY <1>3, <2>5
  <2>7. /\ e <= o /\ ~(e <= q /\ q <= o - 1)
        /\ i = IF b + o < n THEN b + o + 1 ELSE b + o - n + 1
        /\ j = IF b + q < n THEN b + q + 1 ELSE b + q - n + 1
    BY <1>4, <1>6, <2>1, <2>2, <2>3, <2>5
  <2>8. Sooner(i, j, c)
    <3>1. i \in Int /\ j \in Int /\ o \in 0 .. (n - 1)
      BY <1>2
    <3>2. QED
      BY <2>4, <2>6, <2>7, <3>1, MetSooner
  <2>9. QED
    BY <2>5, <2>8
<1>8. QED
  BY <1>2, <1>7 DEF Before

-----------------------------------------------------------------------------
(* Admission.                                                              *)

\* The cursor behind a place makes that place the last; those that it comes
\* before keep their order.
LEMMA SoonerAfter ==
  ASSUME NEW n \in Nat \ {0}, NEW c \in 0 .. (n - 1), NEW d \in 0 .. (n - 1),
         NEW a \in 1 .. n, d = IF a = n THEN 0 ELSE a,
         NEW i \in 1 .. n, i # a
  PROVE  /\ Sooner(i, a, d)
         /\ \A j \in 1 .. n : Sooner(a, i, c) /\ Sooner(i, j, c) => Sooner(i, j, d)
  BY DEF Sooner

\* What an admission does to the rotation and the pass.
LEMMA AdmitMoves ==
  ASSUME IInv, PassAtCursor,
         NEW o \in 0 .. (Len(order) - 1), NEW t \in Task, Admit(o, t)
  PROVE  /\ order' = order /\ last' = At(o) /\ job' = job
         /\ At(o) = order[Index(o) + 1] /\ Index(o) + 1 \in 1 .. Len(order)
         /\ cursor' = IF Index(o) + 1 = Len(order) THEN 0 ELSE Index(o) + 1
         /\ pass'.start = pass.start /\ pass'.offset = o + 1
         /\ pass'.rank = job[At(o)].priority
         /\ job[At(o)].priority # AnyRank
<1>1. /\ pass.phase = "scan" /\ order' = order /\ last' = At(o) /\ job' = job
      /\ cursor' = (Index(o) + 1) % Len(order)
      /\ CanAdmit(At(o))
  BY DEF Admit, Turn
<1>2. pass' = [pass EXCEPT !.offset = o + 1, !.rank = job[At(o)].priority]
  BY DEF Admit
<1>3. PICK n \in Nat \ {0} : n = Len(order)
  BY RotationFacts
<1>4. PICK i \in 1 .. n : i = Index(o) + 1 /\ At(o) = order[i]
  BY <1>1, <1>3, IndexOfOffset
<1>5. i % n = IF i = n THEN 0 ELSE i
  BY <1>3, <1>4
<1>6. job[At(o)].priority # AnyRank
  <2>1. job[At(o)] \in Job
    BY <1>1 DEF CanAdmit, Live, IInv, TypeOK
  <2>2. job[At(o)].priority \in 0 .. 2
    BY <2>1, JobAssumption DEF JobShape
  <2>3. QED
    BY <2>2 DEF AnyRank
<1>7. /\ pass'.start = pass.start /\ pass'.offset = o + 1
      /\ pass'.rank = job[At(o)].priority
  BY <1>2 DEF IInv, TypeOK
<1>8. QED
  BY <1>1, <1>3, <1>4, <1>5, <1>6, <1>7

\* Who is admitted goes to the end, behind everyone he was preferred to.
LEMMA AdmitOrders ==
  ASSUME IInv, FairInv,
         NEW o \in 0 .. (Len(order) - 1), NEW t \in Task, Admit(o, t),
         NEW s \in Session, CanAdmit(s), s # At(o),
         job[s].priority = job[At(o)].priority,
         NEW x, x = At(o) \/ x \in overtaken[s]
  PROVE  x \in Live /\ x # s /\ Before(s, x)'
<1>1. PICK n \in Nat \ {0} : n = Len(order) /\ cursor \in 0 .. (n - 1)
  BY RotationFacts
<1>2. PICK a \in 1 .. n : a = Index(o) + 1 /\ At(o) = order[a]
  BY <1>1, AdmitMoves DEF FairInv
<1>3. /\ order' = order
      /\ cursor' = IF a = n THEN 0 ELSE a
  BY <1>1, <1>2, AdmitMoves DEF FairInv
<1>4. x \in Live /\ x # s
  <2>1. At(o) \in Live
    BY DEF Admit, Turn, CanAdmit
  <2>2. QED
    BY <2>1 DEF FairInv, TurnsKept
<1>5. ASSUME NEW i \in 1 .. n, NEW j \in 1 .. n, order[i] = s, order[j] = x
      PROVE  Sooner(i, j, cursor')
  <2>1. PICK c \in 0 .. (n - 1), d \in 0 .. (n - 1) : c = cursor /\ d = cursor'
    BY <1>1, <1>2, <1>3
  <2>2. i # a /\ d = IF a = n THEN 0 ELSE a
    BY <1>2, <1>3, <1>5, <2>1
  <2>3. /\ Sooner(i, a, d)
        /\ Sooner(a, i, c) /\ Sooner(i, j, c) => Sooner(i, j, d)
    BY <2>2, SoonerAfter
  <2>4. CASE x = At(o)
    <3>1. j = a
      BY <1>1, <1>2, <1>5, <2>4, RotationFacts DEF NoRepeats
    <3>2. QED
      BY <2>1, <2>3, <3>1
  <2>5. CASE x \in overtaken[s]
    <3>1. Sooner(a, i, c)
      BY <1>1, <1>2, <1>5, <2>1, AdmittedFirst DEF FairInv, Before
    <3>2. Sooner(i, j, c)
      BY <1>1, <1>5, <2>1, <2>5 DEF FairInv, TurnsKept, Before
    <3>3. QED
      BY <2>1, <2>3, <3>1, <3>2
  <2>6. QED
    BY <2>4, <2>5
<1>6. Before(s, x)'
  BY <1>1, <1>3, <1>5 DEF Before
<1>7. QED
  BY <1>4, <1>6

LEMMA AdmitFair ==
  ASSUME IInv, FairInv,
         NEW o \in 0 .. (Len(order) - 1), NEW t \in Task, AdmitTurn(o, t)
  PROVE  FairInv'
<1>1. Admit(o, t) /\ Overtakes(At(o))
  BY DEF AdmitTurn
<1>2. PICK n \in Nat \ {0} : n = Len(order) /\ cursor \in 0 .. (n - 1)
  BY RotationFacts
<1>3. PICK a \in 1 .. n : a = Index(o) + 1 /\ At(o) = order[a]
  BY <1>1, <1>2, AdmitMoves DEF FairInv
<1>4. /\ order' = order /\ last' = At(o) /\ Live' = Live
      /\ cursor' = IF a = n THEN 0 ELSE a
      /\ pass'.start = pass.start /\ pass'.offset = o + 1
      /\ pass'.rank # AnyRank
  BY <1>1, <1>2, <1>3, AdmitMoves DEF FairInv, Live
<1>5. At(o) \in Session
  BY <1>1 DEF Admit, Turn, CanAdmit, Live
<1>6. \A s \in Session :
        overtaken'[s] = IF /\ s # At(o) /\ CanAdmit(s)
                           /\ job[s].priority = job[At(o)].priority
                        THEN overtaken[s] \cup {At(o)} ELSE {}
  BY <1>1 DEF Overtakes
<1>7. overtaken' \in [Session -> SUBSET Session]
  BY <1>1, <1>5, <1>6 DEF Overtakes, FairInv
<1>8. TurnsKept'
  <2>1. ASSUME NEW s \in Session, NEW x \in overtaken'[s]
        PROVE  x \in Live' /\ x # s /\ Before(s, x)'
    <3>1. /\ s # At(o) /\ CanAdmit(s) /\ job[s].priority = job[At(o)].priority
          /\ x = At(o) \/ x \in overtaken[s]
      BY <1>6, <2>1
    <3>2. QED
      BY <1>1, <1>4, <3>1, AdmitOrders
  <2>2. \A s \in Session : s \notin Live' => overtaken'[s] = {}
    BY <1>4, <1>6 DEF CanAdmit
  <2>3. QED
    BY <2>1, <2>2 DEF TurnsKept
<1>9. CursorFollows'
  BY <1>2, <1>3, <1>4 DEF CursorFollows
<1>10. PassAtCursor'
  <2>1. pass.phase = "scan"
    BY <1>1 DEF Admit
  <2>2. PICK b \in 0 .. (n - 1) : b = pass.start
    BY <1>2, <2>1, IndexOfOffset, RotationFacts DEF FairInv, PassAtCursor
  <2>3. a = IF b + o < n THEN b + o + 1 ELSE b + o - n + 1
    BY <1>2, <1>3, <2>1, <2>2, IndexOfOffset DEF FairInv
  <2>4. PICK d \in 0 .. n : d = cursor' /\ d = IF a = n THEN 0 ELSE a
    BY <1>2, <1>3, <1>4
  <2>5. o \in 0 .. (n - 1) /\ o + 1 <= n
    BY <1>2
  <2>6. b + (o + 1) = d \/ b + (o + 1) = d + n
    <3>1. CASE b + o < n
      BY <2>3, <2>4, <2>5, <3>1
    <3>2. CASE ~(b + o < n)
      BY <2>3, <2>4, <2>5, <3>2
    <3>3. QED
      BY <3>1, <3>2
  <2>7. QED
    BY <1>2, <1>4, <2>2, <2>4, <2>5, <2>6 DEF PassAtCursor
<1>11. QED
  BY <1>7, <1>8, <1>9, <1>10 DEF FairInv

-----------------------------------------------------------------------------
(* The calls.                                                              *)

\* A pass begins at the cursor.
LEMMA NewPassAtCursor ==
  ASSUME IInv', pass' = NewPass(order', cursor')
  PROVE  PassAtCursor'
<1>1. PICK ord \in Seq(Session), cur \in Nat :
        /\ ord = order' /\ cur = cursor'
        /\ ord # <<>> => cur < Len(ord)
  BY DEF IInv, TypeOK, Rotation
<1>2. ASSUME ord # <<>>
      PROVE  /\ pass'.start = cur /\ pass'.offset = 0
             /\ cur < Len(ord) /\ Len(ord) \in Nat
  <2>1. Len(ord) \in Nat \ {0} /\ cur < Len(ord)
    BY <1>1, <1>2
  <2>2. cur % Len(ord) = cur
    BY <2>1
  <2>3. QED
    BY <1>1, <1>2, <2>1, <2>2 DEF NewPass
<1>3. QED
  BY <1>1, <1>2 DEF PassAtCursor

\* Where a session stands, given a place that it has.
LEMMA PlaceIs ==
  ASSUME NEW ord \in Seq(Session), NoRepeats(ord), NEW i \in 1 .. Len(ord)
  PROVE  PositionIn(ord, ord[i]) = i - 1 /\ ord[i] \in Members(ord)
<1>1. ord[i] \in Members(ord)
  BY DEF Members
<1>2. /\ PositionIn(ord, ord[i]) \in 0 .. (Len(ord) - 1)
      /\ ord[PositionIn(ord, ord[i]) + 1] = ord[i]
  BY <1>1, PositionType
<1>3. Len(ord) \in Nat
  OBVIOUS
<1>4. PositionIn(ord, ord[i]) + 1 \in 1 .. Len(ord)
  BY <1>2, <1>3
<1>5. PositionIn(ord, ord[i]) + 1 = i
  BY <1>2, <1>4 DEF NoRepeats
<1>6. QED
  BY <1>1, <1>2, <1>5

\* The cursor that is set behind the session at a place.
LEMMA CursorBehindPlace ==
  ASSUME NEW ord \in Seq(Session), NoRepeats(ord), NEW i \in 1 .. Len(ord),
         NEW otherwise
  PROVE  CursorBehind(ord, ord[i], otherwise) = IF i = Len(ord) THEN 0 ELSE i
<1>1. CursorBehind(ord, ord[i], otherwise) = (PositionIn(ord, ord[i]) + 1) % Len(ord)
  BY DEF CursorBehind
<1>2. Len(ord) \in Nat \ {0}
  OBVIOUS
<1>3. (PositionIn(ord, ord[i]) + 1) = i
  BY PlaceIs
<1>4. i % Len(ord) = IF i = Len(ord) THEN 0 ELSE i
  BY <1>2
<1>5. QED
  BY <1>1, <1>3, <1>4

\* Nobody was admitted last: the cursor stays.
LEMMA CursorBehindNobody ==
  ASSUME NEW ord \in Seq(Session), NEW otherwise
  PROVE  CursorBehind(ord, NoSession, otherwise) = otherwise
  BY SessionAssumption DEF CursorBehind

\* A session that arrives does not come between those that wait: the cursor
\* stays, or was at the front because the session at the end was the last
\* admitted, and is then at the new end.
LEMMA ArriveFair ==
  ASSUME IInv, IInv', FairInv, NEW s \in Session, NEW j \in Job, Arrive(s, j)
  PROVE  FairInv'
<1>1. /\ s \notin Live /\ last' = last /\ overtaken' = overtaken
      /\ order' = Append(order, s)
      /\ cursor' = CursorBehind(Append(order, s), last, cursor)
      /\ pass' = NewPass(order', cursor')
      /\ job' = [job EXCEPT ![s] = j]
  BY DEF Arrive, Submit
<1>2. PICK n \in Nat : n = Len(order) /\ order \in Seq(Session)
  BY RotationFacts
<1>3. PICK ord \in Seq(Session) :
        /\ ord = order' /\ Len(ord) = n + 1
        /\ \A i \in 1 .. n : ord[i] = order[i]
        /\ ord[n + 1] = s
  BY <1>1, <1>2
<1>4. NoRepeats(ord)
  BY <1>3 DEF NoRepeats, IInv, Rotation
<1>5. Live' = Live \cup {s}
  <2>1. job \in [Session -> Job \cup {NoJob}] /\ j # NoJob
    BY JobAssumption DEF IInv, TypeOK
  <2>2. QED
    BY <1>1, <2>1 DEF Live
<1>6. CASE last = NoSession
  <2>1. cursor' = cursor
    BY <1>1, <1>3, <1>6, CursorBehindNobody
  <2>2. \A x, y : x # s /\ y # s /\ Before(x, y) => Before(x, y)'
    BY <1>2, <1>3, <2>1 DEF Before
  <2>3. CursorFollows'
    BY <1>1, <1>6 DEF CursorFollows
  <2>4. QED
    BY <1>1, <1>5, <2>2, <2>3, NewPassAtCursor DEF FairInv, TurnsKept
<1>7. CASE last # NoSession
  <2>1. PICK i \in 1 .. n : order[i] = last /\ cursor = IF i = n THEN 0 ELSE i
    BY <1>2, <1>7 DEF FairInv, CursorFollows
  <2>2. cursor' = i
    <3>1. i \in 1 .. Len(ord) /\ i # Len(ord) /\ ord[i] = last
      BY <1>3, <2>1
    <3>2. CursorBehind(ord, ord[i], cursor) = i
      BY <1>4, <3>1, CursorBehindPlace
    <3>3. QED
      BY <1>1, <1>3, <3>1, <3>2
  <2>3. \A g, h \in 1 .. n : Sooner(g, h, cursor) => Sooner(g, h, i)
    <3>1. CASE i = n
      BY <2>1, <3>1 DEF Sooner
    <3>2. CASE i # n
      BY <2>1, <3>2
    <3>3. QED
      BY <3>1, <3>2
  <2>4. \A x, y : x # s /\ y # s /\ Before(x, y) => Before(x, y)'
    BY <1>2, <1>3, <2>2, <2>3 DEF Before
  <2>5. CursorFollows'
    BY <1>1, <1>3, <2>1, <2>2 DEF CursorFollows
  <2>6. QED
    BY <1>1, <1>5, <2>4, <2>5, NewPassAtCursor DEF FairInv, TurnsKept
<1>8. QED
  BY <1>6, <1>7

\* Where the places are after the one at p is gone, and where the cursor.
LEMMA SoonerWithout ==
  ASSUME NEW n \in Nat, NEW p \in 1 .. (n + 1), NEW c \in 0 .. n,
         NEW d \in 0 .. n,
         d = IF p <= c THEN c - 1 ELSE IF c = n THEN 0 ELSE c,
         NEW i \in 1 .. (n + 1), i # p, NEW j \in 1 .. (n + 1), j # p,
         Sooner(i, j, c),
         NEW g \in 1 .. n, i = IF g < p THEN g ELSE g + 1,
         NEW h \in 1 .. n, j = IF h < p THEN h ELSE h + 1
  PROVE  Sooner(g, h, d)
<1>1. CASE p <= c
  BY <1>1 DEF Sooner
<1>2. CASE ~(p <= c) /\ c = n
  BY <1>2 DEF Sooner
<1>3. CASE ~(p <= c) /\ c # n
  BY <1>3 DEF Sooner
<1>4. QED
  BY <1>1, <1>2, <1>3

\* What is left of the rotation.
LEMMA PlacesWithout ==
  ASSUME NEW ord \in Seq(Session), NoRepeats(ord), NEW p \in 1 .. Len(ord)
  PROVE  /\ PositionIn(ord, ord[p]) = p - 1
         /\ Len(Without(ord, ord[p])) = Len(ord) - 1
         /\ \A g \in 1 .. (Len(ord) - 1) :
              Without(ord, ord[p])[g] = ord[IF g < p THEN g ELSE g + 1]
<1>1. PositionIn(ord, ord[p]) = p - 1 /\ ord[p] \in Members(ord)
  BY PlaceIs
<1>2. Len(Without(ord, ord[p])) = Len(ord) - 1
  BY <1>1, WithoutType
<1>3. ASSUME NEW g \in 1 .. (Len(ord) - 1)
      PROVE  Without(ord, ord[p])[g] = ord[IF g < p THEN g ELSE g + 1]
  <2>1. Without(ord, ord[p])[g] = IF g <= p - 1 THEN ord[g] ELSE ord[g + 1]
    BY <1>1, <1>3 DEF Without
  <2>2. g <= p - 1 <=> g < p
    OBVIOUS
  <2>3. QED
    BY <2>1, <2>2
<1>4. QED
  BY <1>1, <1>2, <1>3

\* The cursor after a removal stands where it stood, before the same session.
LEMMA RemovalKeepsCursor ==
  ASSUME IInv, CursorFollows, NEW s \in Live,
         NEW p \in 1 .. Len(order), order[p] = s, Len(order) > 1
  PROVE  /\ CursorAfterRemoval(s) =
              IF p <= cursor THEN cursor - 1
              ELSE IF cursor = Len(order) - 1 THEN 0 ELSE cursor
         /\ last \notin {s, NoSession} =>
              \E g \in 1 .. (Len(order) - 1) :
                /\ Without(order, s)[g] = last
                /\ CursorAfterRemoval(s) = IF g = Len(order) - 1 THEN 0 ELSE g
<1>1. PICK n \in Nat \ {0} : Len(order) = n + 1 /\ cursor \in 0 .. n
  <2>1. PICK l \in Nat : l = Len(order) /\ l > 1
    BY RotationFacts
  <2>2. cursor \in Nat /\ cursor < l
    BY <2>1, RotationFacts
  <2>3. l - 1 \in Nat \ {0} /\ l = (l - 1) + 1 /\ cursor \in 0 .. (l - 1)
    BY <2>1, <2>2
  <2>4. QED
    BY <2>1, <2>3
<1>2. order \in Seq(Session) /\ NoRepeats(order)
  BY RotationFacts
<1>3. PICK ord : ord = Without(order, s)
  OBVIOUS
<1>4. /\ PositionIn(order, s) = p - 1
      /\ Len(ord) = n
      /\ \A g \in 1 .. n : ord[g] = order[IF g < p THEN g ELSE g + 1]
  <2>1. /\ PositionIn(order, order[p]) = p - 1
        /\ Len(Without(order, order[p])) = Len(order) - 1
        /\ \A g \in 1 .. (Len(order) - 1) :
             Without(order, order[p])[g] = order[IF g < p THEN g ELSE g + 1]
    BY <1>2, PlacesWithout
  <2>2. order[p] = s /\ Len(order) - 1 = n
    BY <1>1
  <2>3. QED
    BY <1>3, <2>1, <2>2
<1>5. ord \in Seq(Session) /\ NoRepeats(ord)
  BY <1>2, <1>3, PlaceIs, WithoutType
<1>6. PICK kept : kept = IF p <= cursor THEN cursor - 1
                         ELSE IF cursor = n THEN 0 ELSE cursor
  OBVIOUS
<1>7. CursorAfterRemoval(s) = IF last = s THEN kept ELSE CursorBehind(ord, last, kept)
  <2>1. PICK moved \in 0 .. n : moved = IF p - 1 < cursor THEN cursor - 1 ELSE cursor
    BY <1>1
  <2>2. moved % n = IF moved = n THEN 0 ELSE moved
    BY <2>1
  <2>3. moved % n = kept
    BY <1>1, <1>6, <2>1, <2>2
  <2>4. QED
    BY <1>1, <1>3, <1>4, <2>1, <2>3 DEF CursorAfterRemoval
<1>8. CASE last = NoSession \/ last = s
  <2>1. CursorAfterRemoval(s) = kept
    BY <1>5, <1>7, <1>8, CursorBehindNobody
  <2>2. QED
    BY <1>1, <1>6, <1>8, <2>1
<1>9. CASE last # NoSession /\ last # s
  <2>1. PICK i \in 1 .. (n + 1) : /\ order[i] = last
                                  /\ cursor = IF i = n + 1 THEN 0 ELSE i
    BY <1>1, <1>9 DEF CursorFollows
  <2>2. i # p
    BY <1>9, <2>1
  <2>3. PICK g \in 1 .. n : i = IF g < p THEN g ELSE g + 1
    <3>1. CASE i < p
      BY <1>1, <3>1
    <3>2. CASE i > p
      <4>1. i - 1 \in 1 .. n /\ ~(i - 1 < p) /\ i = (i - 1) + 1
        BY <1>1, <3>2
      <4>2. QED
        BY <4>1
    <3>3. QED
      BY <1>1, <2>2, <3>1, <3>2
  <2>4. ord[g] = last
    BY <1>4, <2>1, <2>3
  <2>5. CursorAfterRemoval(s) = IF g = n THEN 0 ELSE g
    <3>1. CursorBehind(ord, ord[g], kept) = IF g = n THEN 0 ELSE g
      BY <1>4, <1>5, CursorBehindPlace
    <3>2. QED
      BY <1>7, <1>9, <2>4, <3>1
  <2>6. kept = IF g = n THEN 0 ELSE g
    BY <1>1, <1>6, <2>1, <2>3
  <2>7. QED
    BY <1>1, <1>3, <1>6, <2>4, <2>5, <2>6
<1>10. QED
  BY <1>8, <1>9

LEMMA LeaveFair ==
  ASSUME IInv, IInv', FairInv, NEW s \in Session, Leave(s)
  PROVE  FairInv'
<1>1. /\ s \in Live /\ order' = Without(order, s) /\ cursor' = CursorAfterRemoval(s)
      /\ last' = (IF last = s THEN NoSession ELSE last)
      /\ pass' = NewPass(order', cursor')
      /\ job' = [job EXCEPT ![s] = NoJob]
      /\ overtaken' = [x \in Session |-> IF x = s THEN {} ELSE overtaken[x] \ {s}]
  BY DEF Leave, Release
<1>2. Live' = Live \ {s}
  BY <1>1 DEF IInv, TypeOK, Live
<1>3. order \in Seq(Session) /\ NoRepeats(order) /\ Members(order) = Live
  BY RotationFacts
<1>4. PICK p \in 1 .. Len(order) : order[p] = s
  BY <1>1, <1>3 DEF Members
<1>5. PICK n \in Nat : Len(order) = n + 1 /\ cursor \in 0 .. n
  <2>1. PICK l \in Nat : l = Len(order)
    BY RotationFacts
  <2>2. l > 0 /\ cursor \in Nat /\ cursor < l
    BY <1>4, <2>1, RotationFacts
  <2>3. l - 1 \in Nat /\ l = (l - 1) + 1 /\ cursor \in 0 .. (l - 1)
    BY <2>1, <2>2
  <2>4. QED
    BY <2>1, <2>3
<1>6. PICK ord : ord = order'
  OBVIOUS
<1>7. /\ Len(ord) = n
      /\ \A g \in 1 .. n : ord[g] = order[IF g < p THEN g ELSE g + 1]
  <2>1. /\ Len(Without(order, order[p])) = Len(order) - 1
        /\ \A g \in 1 .. (Len(order) - 1) :
             Without(order, order[p])[g] = order[IF g < p THEN g ELSE g + 1]
    BY <1>3, PlacesWithout
  <2>2. ord = Without(order, order[p]) /\ Len(order) - 1 = n
    BY <1>1, <1>4, <1>5, <1>6
  <2>3. QED
    BY <2>1, <2>2
<1>8. PassAtCursor'
  BY <1>1, NewPassAtCursor
<1>9. CursorFollows'
  <2>1. ASSUME last' # NoSession
        PROVE  \E g \in 1 .. n : ord[g] = last' /\ cursor' = IF g = n THEN 0 ELSE g
    <3>1. last' = last /\ last \notin {s, NoSession}
      BY <1>1, <2>1
    <3>2. PICK i \in 1 .. (n + 1) : order[i] = last
      BY <1>5, <3>1 DEF FairInv, CursorFollows
    <3>3. n > 0
      BY <1>4, <1>5, <3>1, <3>2
    <3>4. QED
      BY <1>1, <1>4, <1>5, <1>6, <3>1, <3>3, RemovalKeepsCursor DEF FairInv
  <2>2. QED
    BY <1>6, <1>7, <2>1 DEF CursorFollows
<1>10. ASSUME NEW x, NEW y, x # s, y # s, Before(x, y)
       PROVE  Before(x, y)'
  <2> SUFFICES ASSUME NEW g \in 1 .. n, NEW h \in 1 .. n, ord[g] = x, ord[h] = y
               PROVE  Sooner(g, h, cursor')
    BY <1>6, <1>7 DEF Before
  <2>1. PICK i \in 1 .. (n + 1), j \in 1 .. (n + 1) :
          /\ i = IF g < p THEN g ELSE g + 1
          /\ j = IF h < p THEN h ELSE h + 1
    <3>1. (IF g < p THEN g ELSE g + 1) \in 1 .. (n + 1)
      OBVIOUS
    <3>2. (IF h < p THEN h ELSE h + 1) \in 1 .. (n + 1)
      OBVIOUS
    <3>3. QED
      BY <3>1, <3>2
  <2>2. order[i] = x /\ order[j] = y
    BY <1>7, <2>1
  <2>3. i # p /\ j # p
    BY <1>4, <1>10, <2>2
  <2>4. Sooner(i, j, cursor)
    BY <1>5, <1>10, <2>2 DEF Before
  <2>5. PICK c \in 0 .. n, d \in 0 .. n :
          /\ c = cursor /\ d = cursor'
          /\ d = IF p <= c THEN c - 1 ELSE IF c = n THEN 0 ELSE c
    <3>1. Len(order) > 1
      BY <1>5
    <3>2. cursor' = IF p <= cursor THEN cursor - 1 ELSE IF cursor = n THEN 0 ELSE cursor
      BY <1>1, <1>4, <1>5, <3>1, RemovalKeepsCursor DEF FairInv
    <3>3. (IF p <= cursor THEN cursor - 1 ELSE IF cursor = n THEN 0 ELSE cursor) \in 0 .. n
      BY <1>4, <1>5
    <3>4. QED
      BY <1>5, <3>2, <3>3
  <2>6. Sooner(g, h, d)
    <3>1. p \in 1 .. (n + 1) /\ Sooner(i, j, c)
      BY <1>5, <2>4, <2>5
    <3>2. QED
      BY <2>1, <2>3, <2>5, <3>1, SoonerWithout
  <2>7. QED
    BY <2>5, <2>6
<1>11. TurnsKept'
  <2>1. ASSUME NEW x \in Session, NEW a \in overtaken'[x]
        PROVE  a \in Live' /\ a # x /\ Before(x, a)'
    <3>1. x # s /\ a # s /\ a \in overtaken[x]
      BY <1>1, <2>1
    <3>2. a \in Live /\ a # x /\ Before(x, a)
      BY <3>1 DEF FairInv, TurnsKept
    <3>3. QED
      BY <1>2, <1>10, <3>1, <3>2
  <2>2. ASSUME NEW x \in Session, x \notin Live' PROVE overtaken'[x] = {}
    <3>1. overtaken'[x] = IF x = s THEN {} ELSE overtaken[x] \ {s}
      BY <1>1
    <3>2. x # s => overtaken[x] = {}
      BY <1>2, <2>2 DEF FairInv, TurnsKept
    <3>3. QED
      BY <3>1, <3>2
  <2>3. QED
    BY <2>1, <2>2 DEF TurnsKept
<1>12. overtaken' \in [Session -> SUBSET Session]
  BY <1>1 DEF FairInv
<1>13. QED
  BY <1>8, <1>9, <1>11, <1>12 DEF FairInv

-----------------------------------------------------------------------------
(* The theorem.                                                            *)

\* The steps that leave the rotation alone.
LEMMA QuietFair ==
  ASSUME IInv, IInv', FairInv, UNCHANGED <<order, cursor, last, job, overtaken>>,
         \/ pass' = pass
         \/ pass' = Idle
         \/ pass' = NewPass(order', cursor')
  PROVE  FairInv'
<1>1. overtaken' \in [Session -> SUBSET Session] /\ CursorFollows'
  BY DEF FairInv, CursorFollows
<1>2. TurnsKept'
  BY DEF FairInv, TurnsKept, Before, Live
<1>3. PassAtCursor'
  <2>1. CASE pass' = pass
    BY <2>1 DEF FairInv, PassAtCursor
  <2>2. CASE pass' = Idle
    BY <2>2 DEF PassAtCursor, Idle
  <2>3. CASE pass' = NewPass(order', cursor')
    BY <2>3, NewPassAtCursor
  <2>4. QED
    BY <2>1, <2>2, <2>3
<1>4. QED
  BY <1>1, <1>2, <1>3 DEF FairInv

\* The clients of SchedulerFairness are clients of GlobalScheduler.
LEMMA StepOfScheduler ==
  ASSUME [FNext]_fvars
  PROVE  [Next]_vars
<1>1. ASSUME NEW o \in 0 .. (Len(order) - 1), NEW t \in Task, AdmitTurn(o, t)
      PROVE  Next
  BY <1>1 DEF AdmitTurn, Next, Admission
<1>2. ASSUME NEW s \in Session, NEW j \in Job, Arrive(s, j) PROVE Next
  BY <1>2 DEF Arrive, Next
<1>3. ASSUME NEW s \in Session, NEW t \in Task, Take(s, t) \/ End(s, t) PROVE Next
  BY <1>3 DEF Take, End, Next
<1>4. ASSUME NEW s \in Session, Leave(s) PROVE Next
  BY <1>4 DEF Leave, Next
<1>5. ASSUME Loop PROVE Next
  BY <1>5 DEF Loop, Next, Admission
<1>6. ASSUME UNCHANGED fvars PROVE UNCHANGED vars
  BY <1>6 DEF fvars
<1>7. QED
  BY <1>1, <1>2, <1>3, <1>4, <1>5, <1>6 DEF FNext, AdmissionLoop

LEMMA FairKept ==
  ASSUME IInv, IInv', FairInv, [FNext]_fvars
  PROVE  FairInv'
<1>1. ASSUME NEW s \in Session, NEW t \in Task, Take(s, t) \/ End(s, t)
      PROVE  FairInv'
  <2>1. /\ UNCHANGED <<order, cursor, last, job, overtaken>>
        /\ pass' = pass \/ pass' = NewPass(order', cursor')
    BY <1>1 DEF Take, End, Acquire, Complete, Fail, fairness
  <2>2. QED
    BY <2>1, QuietFair
<1>2. ASSUME Loop PROVE FairInv'
  <2>1. /\ UNCHANGED <<order, cursor, last, job, overtaken>>
        /\ pass' = Idle \/ pass' = NewPass(order', cursor')
    BY <1>2 DEF Loop, NextPass, EndAdmission, records, fairness
  <2>2. QED
    BY <2>1, QuietFair
<1>3. ASSUME UNCHANGED fvars PROVE FairInv'
  <2>1. UNCHANGED <<order, cursor, last, job, overtaken, pass>>
    BY <1>3 DEF fvars, vars, records, fairness
  <2>2. QED
    BY <2>1, QuietFair
<1>4. QED
  BY <1>1, <1>2, <1>3, AdmitFair, ArriveFair, LeaveFair DEF FNext, AdmissionLoop

\* Only an admission of a session adds to what it has admitted, and whoever
\* has been passed over for it comes before it.
LEMMA NobodyTwice ==
  ASSUME IInv, FairInv, [FNext]_fvars, NEW a \in Session, NEW s \in Session,
         admitted'[a] > admitted[a], a # s, CanAdmit(s),
         job[s].priority = job[a].priority
  PROVE  a \notin overtaken[s]
<1> SUFFICES ASSUME a \in overtaken[s] PROVE FALSE
  OBVIOUS
<1>1. PICK o \in 0 .. (Len(order) - 1), t \in Task : Admit(o, t) /\ At(o) = a
  BY StepOfScheduler, OnlyAdmitAdmits
<1>2. Before(a, s) /\ Before(s, a)
  BY <1>1, AdmittedFirst DEF FairInv, TurnsKept
<1>3. a \in Live /\ s \in Live
  BY <1>1 DEF Admit, Turn, CanAdmit
<1>4. PICK i \in 1 .. Len(order), j \in 1 .. Len(order) : order[i] = a /\ order[j] = s
  BY <1>3, RotationFacts DEF Members
<1>5. Sooner(i, j, cursor) /\ Sooner(j, i, cursor)
  BY <1>2, <1>4 DEF Before
<1>6. cursor \in Nat /\ Len(order) \in Nat
  BY RotationFacts
<1>7. QED
  BY <1>5, <1>6 DEF Sooner

\* Round robin inside a class, for every number of sessions that come and go
\* in any order: whoever could have been admitted each time is served before
\* anyone of his class is served twice, as long as no other class is served.
THEOREM RoundRobin == FSpec => NoDoubleTurn
<1>1. FInit => Init /\ IInv /\ FairInv
  <2>1. FInit => Init /\ IInv
    BY InitIInv DEF FInit
  <2>2. FInit => FairInv
    BY DEF FInit, Init, Idle, FairInv, TurnsKept, CursorFollows, PassAtCursor
  <2>3. QED
    BY <2>1, <2>2
<1>2. IInv /\ [FNext]_fvars => IInv'
  BY StepOfScheduler, NextKeeps
<1>3. IInv /\ IInv' /\ FairInv /\ [FNext]_fvars => FairInv'
  BY FairKept
<1>4. IInv /\ FairInv /\ [FNext]_fvars =>
        [\A a, s \in Session :
           /\ admitted'[a] > admitted[a]
           /\ a # s
           /\ CanAdmit(s)
           /\ job[s].priority = job[a].priority
           => a \notin overtaken[s]]_fvars
  BY NobodyTwice
<1>5. QED
  BY <1>1, <1>2, <1>3, <1>4, PTL DEF FSpec, NoDoubleTurn
=============================================================================
