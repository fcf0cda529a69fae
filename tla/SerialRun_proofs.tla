--------------------------- MODULE SerialRun_proofs ---------------------------
(***************************************************************************)
(* Proofs about TaskGraph.tla and SerialRun.tla, for every set of ids,     *)
(* every list of tasks and every bound on the graphs that are run.         *)
(***************************************************************************)
EXTENDS SerialRun, TLAPS, FiniteSetTheorems, WellFoundedInduction

-----------------------------------------------------------------------------
(* Induction, on the set of the numbers that have a property; functions    *)
(* defined by iteration.                                                   *)

LEMMA LeastElement ==
  ASSUME NEW T \in SUBSET Nat, T # {}
  PROVE  \E x \in T : \A y \in T : x <= y
<1>1. PICK x \in T : \A y \in T : <<y, x>> \notin OpToRel(<, Nat)
  BY NatLessThanWellFounded, WFMin
<1>2. \A y \in T : ~(y < x)
  BY <1>1 DEF OpToRel
<1>3. QED
  BY <1>2

LEMMA SetInduction ==
  ASSUME NEW G \in SUBSET Nat, 0 \in G, \A n \in Nat : n \in G => n + 1 \in G
  PROVE  \A n \in Nat : n \in G
<1> SUFFICES ASSUME Nat \ G # {} PROVE FALSE
  OBVIOUS
<1>1. PICK x \in Nat \ G : \A y \in Nat \ G : x <= y
  BY LeastElement
<1>2. x - 1 \in Nat /\ x - 1 \in G
  BY <1>1
<1>3. (x - 1) + 1 \in G
  BY <1>2
<1>4. QED
  BY <1>1, <1>3

\* What iterating a function gives.
Iterates(f, x, F, N) == f = [n \in 0 .. N |-> IF n = 0 THEN x ELSE F[f[n - 1]]]

\* A function may be iterated any number of times.
LEMMA Iteration ==
  ASSUME NEW S, NEW x \in S, NEW F \in [S -> S], NEW N \in Nat
  PROVE  \E f \in [0 .. N -> S] : Iterates(f, x, F, N)
<1> DEFINE G == {k \in Nat : \E f \in [0 .. k -> S] :
                   f = [n \in 0 .. k |-> IF n = 0 THEN x ELSE F[f[n - 1]]]}
<1>1. 0 \in G
  <2>1. PICK f : f = [n \in 0 .. 0 |-> x]
    OBVIOUS
  <2>2. f \in [0 .. 0 -> S] /\ f = [n \in 0 .. 0 |-> IF n = 0 THEN x ELSE F[f[n - 1]]]
    BY <2>1
  <2>3. QED
    BY <2>2
<1>2. ASSUME NEW k \in Nat, k \in G PROVE k + 1 \in G
  <2>1. PICK f \in [0 .. k -> S] :
          f = [n \in 0 .. k |-> IF n = 0 THEN x ELSE F[f[n - 1]]]
    BY <1>2
  <2>2. PICK g : g = [n \in 0 .. (k + 1) |-> IF n = k + 1 THEN F[f[k]] ELSE f[n]]
    OBVIOUS
  <2>3. g \in [0 .. (k + 1) -> S]
    BY <2>1, <2>2
  <2>4. \A n \in 0 .. (k + 1) : g[n] = IF n = 0 THEN x ELSE F[g[n - 1]]
    <3> TAKE n \in 0 .. (k + 1)
    <3>1. CASE n = k + 1
      BY <2>2, <3>1
    <3>2. CASE n # k + 1
      <4>1. n \in 0 .. k /\ (n # 0 => n - 1 \in 0 .. k)
        BY <3>2
      <4>2. f[n] = IF n = 0 THEN x ELSE F[f[n - 1]]
        BY <2>1, <4>1
      <4>3. g[n] = f[n] /\ (n # 0 => g[n - 1] = f[n - 1])
        BY <2>2, <4>1
      <4>4. QED
        BY <4>2, <4>3
    <3>3. QED
      BY <3>1, <3>2
  <2>5. g = [n \in 0 .. (k + 1) |-> IF n = 0 THEN x ELSE F[g[n - 1]]]
    <3>1. g = [n \in 0 .. (k + 1) |-> g[n]]
      BY <2>3
    <3>2. QED
      BY <2>4, <3>1, Zenon
  <2>6. \E h \in [0 .. (k + 1) -> S] :
          h = [n \in 0 .. (k + 1) |-> IF n = 0 THEN x ELSE F[h[n - 1]]]
    BY <2>3, <2>5, Zenon
  <2>7. k + 1 \in Nat
    OBVIOUS
  <2>8. QED
    BY <2>6, <2>7, Zenon
<1>3. G \in SUBSET Nat
  OBVIOUS
<1> HIDE DEF G
<1>4. N \in G
  BY <1>1, <1>2, <1>3, SetInduction
<1>5. QED
  BY <1>4 DEF G, Iterates

-----------------------------------------------------------------------------
(* Positions in order.                                                     *)

InOrder(s) == \A m, n \in DOMAIN s : m < n => s[m] < s[n]

\* A set of numbers can be put in order.
LEMMA OrderExists ==
  ASSUME NEW N \in Nat, NEW S \in SUBSET (1 .. N)
  PROVE  \E s \in [1 .. Cardinality(S) -> S] : InOrder(s)
<1> DEFINE G == {k \in Nat : \A T \in SUBSET (1 .. k) :
                   \E s \in [1 .. Cardinality(T) -> T] : InOrder(s)}
<1>1. 0 \in G
  <2>1. \A T \in SUBSET (1 .. 0) : T = {}
    OBVIOUS
  <2>2. Cardinality({}) = 0
    BY FS_EmptySet
  <2>3. PICK s : s = [m \in 1 .. 0 |-> m]
    OBVIOUS
  <2>4. s \in [1 .. Cardinality({}) -> {}] /\ InOrder(s)
    BY <2>2, <2>3 DEF InOrder
  <2>5. QED
    BY <2>1, <2>4
<1>2. ASSUME NEW k \in Nat, k \in G PROVE k + 1 \in G
  <2> SUFFICES ASSUME NEW T \in SUBSET (1 .. (k + 1))
               PROVE  \E s \in [1 .. Cardinality(T) -> T] : InOrder(s)
    OBVIOUS
  <2>1. CASE k + 1 \notin T
    <3>1. T \in SUBSET (1 .. k)
      BY <2>1
    <3>2. QED
      BY <1>2, <3>1
  <2>2. CASE k + 1 \in T
    <3>0. T \ {k + 1} \in SUBSET (1 .. k)
      OBVIOUS
    <3>1. PICK U \in SUBSET (1 .. k) : U = T \ {k + 1}
      BY <3>0
    <3>2. PICK s \in [1 .. Cardinality(U) -> U] : InOrder(s)
      BY <1>2
    <3>3. IsFiniteSet(1 .. k)
      BY FS_Interval
    <3>4. IsFiniteSet(U)
      BY <3>3, FS_Subset
    <3>5. PICK c \in Nat : c = Cardinality(U)
      BY <3>4, FS_CardinalityType
    <3>6. Cardinality(T) = c + 1
      <4>1. k + 1 \notin U /\ T = U \cup {k + 1}
        BY <2>2, <3>1
      <4>2. QED
        BY <3>4, <3>5, <4>1, FS_AddElement
    <3>7. PICK r : r = [m \in 1 .. (c + 1) |-> IF m = c + 1 THEN k + 1 ELSE s[m]]
      OBVIOUS
    <3>8. r \in [1 .. (c + 1) -> T]
      <4> SUFFICES ASSUME NEW m \in 1 .. (c + 1) PROVE r[m] \in T
        BY <3>7
      <4>1. CASE m = c + 1
        BY <2>2, <3>7, <4>1
      <4>2. CASE m # c + 1
        <5>1. m \in 1 .. c /\ r[m] = s[m]
          BY <3>7, <4>2
        <5>2. QED
          BY <3>1, <3>2, <3>5, <5>1
      <4>3. QED
        BY <4>1, <4>2
    <3>9. InOrder(r)
      <4> SUFFICES ASSUME NEW m \in 1 .. (c + 1), NEW n \in 1 .. (c + 1), m < n
                   PROVE  r[m] < r[n]
        BY <3>8 DEF InOrder
      <4>0. m < n /\ m # c + 1
        OBVIOUS
      <4>1. m \in 1 .. c /\ r[m] = s[m] /\ s[m] \in 1 .. k
        <5>1. m \in 1 .. c
          BY <4>0
        <5>2. r[m] = s[m]
          BY <3>7, <4>0
        <5>3. s[m] \in U
          BY <3>2, <3>5, <5>1
        <5>4. QED
          BY <5>1, <5>2, <5>3
      <4>2. CASE n = c + 1
        BY <3>7, <4>1, <4>2
      <4>3. CASE n # c + 1
        <5>1. n \in 1 .. c /\ r[n] = s[n]
          BY <3>7, <4>3
        <5>2. QED
          BY <3>2, <3>5, <4>1, <5>1 DEF InOrder
      <4>4. QED
        BY <4>2, <4>3
    <3>10. QED
      BY <3>6, <3>8, <3>9
  <2>3. QED
    BY <2>1, <2>2
<1>3. G \in SUBSET Nat
  OBVIOUS
<1> HIDE DEF G
<1>4. N \in G
  BY <1>1, <1>2, <1>3, SetInduction
<1>5. QED
  BY <1>4 DEF G

\* Ascending lists a set of positions, each once.
LEMMA AscendingLists ==
  ASSUME NEW N \in Nat, NEW S \in SUBSET (1 .. N)
  PROVE  /\ Ascending(S) \in Seq(S)
         /\ Len(Ascending(S)) = Cardinality(S)
         /\ InOrder(Ascending(S))
         /\ \A i \in S : \E n \in 1 .. Len(Ascending(S)) : Ascending(S)[n] = i
<1>1. IsFiniteSet(S)
  <2>1. IsFiniteSet(1 .. N)
    BY FS_Interval
  <2>2. QED
    BY <2>1, FS_Subset
<1>2. PICK c \in Nat : c = Cardinality(S)
  BY <1>1, FS_CardinalityType
<1>3. PICK s : s = Ascending(S)
  OBVIOUS
<1>4. s \in [1 .. c -> S] /\ InOrder(s)
  BY <1>2, <1>3, OrderExists DEF Ascending, InOrder
<1>5. s \in Seq(S) /\ Len(s) = c
  BY <1>4
<1>6. \A m, n \in 1 .. c : s[m] = s[n] => m = n
  <2>1. \A m \in 1 .. c : s[m] \in 1 .. N
    BY <1>4
  <2>2. QED
    BY <1>4, <2>1 DEF InOrder
<1>7. {s[n] : n \in 1 .. c} = S
  <2>1. PICK R : R = {s[n] : n \in 1 .. c}
    OBVIOUS
  <2>2. R \subseteq S
    BY <1>4, <2>1
  <2>3. s \in Bijection(1 .. c, R)
    BY <1>4, <1>6, <2>1 DEF Bijection, Injection, Surjection, IsInjective
  <2>4. IsFiniteSet(1 .. c) /\ Cardinality(1 .. c) = c
    BY FS_Interval
  <2>5. Cardinality(R) = c
    BY <2>3, <2>4, FS_Bijection DEF ExistsBijection
  <2>6. QED
    BY <1>1, <1>2, <2>1, <2>2, <2>5, FS_Subset
<1>8. QED
  BY <1>2, <1>3, <1>4, <1>5, <1>7

-----------------------------------------------------------------------------
(* Dependency lists.                                                       *)

\* A list of tasks as addTask leaves it: no id occurs twice.
Listed(ts) ==
  /\ ts \in Seq([id : Id, deps : Deps])
  /\ \A i, j \in Positions(ts) : ts[i].id = ts[j].id => i = j

DepsIn(ts, i) ==
  {d \in Positions(ts) : \E n \in DOMAIN ts[i].deps : ts[i].deps[n] = ts[d].id}

\* The entries of a dependency list that name none of some tasks.
Open(ts, i, done) ==
  {n \in DOMAIN ts[i].deps : \A d \in done : ts[d].id # ts[i].deps[n]}

LEMMA ListedType ==
  ASSUME NEW ts, Listed(ts), NEW i \in Positions(ts)
  PROVE  /\ Len(ts) \in Nat
         /\ ts[i].id \in Id
         /\ ts[i].deps \in Seq(Id)
         /\ Len(ts[i].deps) \in Nat
         /\ DOMAIN ts[i].deps = 1 .. Len(ts[i].deps)
         /\ \A n \in DOMAIN ts[i].deps : ts[i].deps[n] \in Id
<1>1. Len(ts) \in Nat /\ ts[i] \in [id : Id, deps : Deps]
  <2>1. PICK T : T = [id : Id, deps : Deps]
    OBVIOUS
  <2>2. ts \in Seq(T) /\ i \in 1 .. Len(ts)
    BY <2>1 DEF Listed, Positions
  <2>3. Len(ts) \in Nat /\ ts[i] \in T
    BY <2>2
  <2>4. QED
    BY <2>1, <2>3
<1>2. ts[i].deps \in Seq(Id)
  BY <1>1, DepsAssumption
<1>3. QED
  BY <1>1, <1>2

\* Counting open entries.
LEMMA OpenCount ==
  ASSUME NEW ts, Listed(ts), NEW i \in Positions(ts), NEW done
  PROVE  /\ IsFiniteSet(Open(ts, i, done))
         /\ Cardinality(Open(ts, i, done)) \in Nat
         /\ Cardinality(Open(ts, i, done)) = 0 <=> Open(ts, i, done) = {}
         /\ Cardinality(Open(ts, i, {})) = Len(ts[i].deps)
<1>1. PICK n \in Nat : n = Len(ts[i].deps) /\ DOMAIN ts[i].deps = 1 .. n
  BY ListedType
<1>2. IsFiniteSet(1 .. n) /\ Cardinality(1 .. n) = n
  BY <1>1, FS_Interval
<1>3. Open(ts, i, done) \in SUBSET (1 .. n)
  BY <1>1 DEF Open
<1>4. IsFiniteSet(Open(ts, i, done))
  BY <1>2, <1>3, FS_Subset
<1>5. Open(ts, i, {}) = 1 .. n
  BY <1>1 DEF Open
<1>6. QED
  BY <1>1, <1>2, <1>4, <1>5, FS_CardinalityType, FS_EmptySet

\* The entries that name a task are no longer open when it is done.
LEMMA OpenLess ==
  ASSUME NEW ts, Listed(ts), NEW i \in Positions(ts),
         NEW done \in SUBSET Positions(ts), NEW v \in Positions(ts) \ done
  PROVE  LET d == ts[v].id
         IN  /\ Lists(ts, i, d) \in Nat
             /\ Lists(ts, i, d) > 0 <=> v \in DepsIn(ts, i)
             /\ Cardinality(Open(ts, i, done)) =
                  Cardinality(Open(ts, i, done \cup {v})) + Lists(ts, i, d)
<1> DEFINE D == DOMAIN ts[i].deps
           B == {n \in D : ts[i].deps[n] = ts[v].id}
           A == Open(ts, i, done \cup {v})
<1>1. IsFiniteSet(D)
  <2>1. PICK n \in Nat : DOMAIN ts[i].deps = 1 .. n
    BY ListedType
  <2>2. QED
    BY <2>1, FS_Interval
<1>2. IsFiniteSet(B)
  BY <1>1, FS_Subset
<1>3. IsFiniteSet(A) /\ Cardinality(A) \in Nat
  BY OpenCount
<1>4. Cardinality(B) \in Nat /\ (Cardinality(B) = 0 <=> B = {})
  BY <1>2, FS_CardinalityType, FS_EmptySet
<1>5. Lists(ts, i, ts[v].id) = Cardinality(B)
  BY DEF Lists
<1>6. A \cap B = {}
  BY DEF Open
<1>7. Open(ts, i, done) = A \cup B
  <2>1. \A d \in done : ts[d].id # ts[v].id
    BY DEF Listed
  <2>2. QED
    BY <2>1 DEF Open
<1>8. Cardinality(A \cup B) = Cardinality(A) + Cardinality(B)
  <2>1. Cardinality(A \cup B) = Cardinality(A) + Cardinality(B) - Cardinality(A \cap B)
    BY <1>2, <1>3, FS_Union
  <2>2. Cardinality(A \cap B) = 0
    BY <1>6, FS_EmptySet
  <2>3. QED
    BY <1>3, <1>4, <2>1, <2>2
<1>9. B # {} <=> v \in DepsIn(ts, i)
  BY DEF DepsIn
<1> HIDE DEF A, B
<1>10. Cardinality(B) > 0 <=> B # {}
  BY <1>4
<1>11. QED
  BY <1>4, <1>5, <1>7, <1>8, <1>9, <1>10 DEF A

\* A task without open entries depends on done tasks only.
LEMMA NothingOpen ==
  ASSUME NEW ts, Listed(ts), NEW i \in Positions(ts),
         NEW done \in SUBSET Positions(ts), Open(ts, i, done) = {}
  PROVE  DepsIn(ts, i) \subseteq done
<1> SUFFICES ASSUME NEW d \in DepsIn(ts, i) PROVE d \in done
  OBVIOUS
<1>1. PICK n \in DOMAIN ts[i].deps : ts[i].deps[n] = ts[d].id
  BY DEF DepsIn
<1>2. PICK e \in done : ts[e].id = ts[i].deps[n]
  BY DEF Open
<1>3. QED
  BY <1>1, <1>2 DEF Listed, DepsIn

-----------------------------------------------------------------------------
(* The loop of orderedTasks.                                               *)

\* The tasks that have been queued, those that have left the queue first.
Queue(st) == st.order \o st.ready

Done(st) == {st.order[m] : m \in DOMAIN st.order}

LoopType(ts, st) ==
  /\ st = [indegree |-> st.indegree, ready |-> st.ready, order |-> st.order]
  /\ st.indegree \in [Positions(ts) -> Int]
  /\ st.ready \in Seq(Positions(ts))
  /\ st.order \in Seq(Positions(ts))

Counted(ts, st) ==
  \A i \in Positions(ts) : st.indegree[i] = Cardinality(Open(ts, i, Done(st)))

\* A task is queued when nothing it waits for is missing, and once.
Queued(ts, st) ==
  \A i \in Positions(ts) :
    (\E m \in DOMAIN Queue(st) : Queue(st)[m] = i) <=> Open(ts, i, Done(st)) = {}

Once(st) ==
  \A m, n \in DOMAIN Queue(st) : Queue(st)[m] = Queue(st)[n] => m = n

Later(ts, st) ==
  \A m \in DOMAIN Queue(st) : \A d \in DepsIn(ts, Queue(st)[m]) :
    \E e \in DOMAIN st.order : e < m /\ st.order[e] = d

\* The last dependency of a task is not after that of a task queued later.
Frontier(ts, st) ==
  \A a, b \in DOMAIN Queue(st), x \in DOMAIN st.order :
    a < b /\ st.order[x] \in DepsIn(ts, Queue(st)[a]) =>
      \E y \in DOMAIN st.order : x <= y /\ st.order[y] \in DepsIn(ts, Queue(st)[b])

LoopInv(ts, st) ==
  /\ LoopType(ts, st)
  /\ Counted(ts, st)
  /\ Queued(ts, st)
  /\ Once(st)
  /\ Later(ts, st)
  /\ Frontier(ts, st)

LEMMA ConcatShape ==
  ASSUME NEW S, NEW s, s \in Seq(S), NEW t, t \in Seq(S), NEW c, c = s \o t
  PROVE  /\ c \in Seq(S)
         /\ Len(c) = Len(s) + Len(t)
         /\ \A m \in 1 .. Len(s) : c[m] = s[m]
         /\ \A m \in 1 .. Len(t) : c[Len(s) + m] = t[m]
  OBVIOUS

LEMMA QueueShape ==
  ASSUME NEW S, NEW o \in Seq(S), NEW r \in Seq(S)
  PROVE  /\ Len(o) \in Nat /\ Len(r) \in Nat
         /\ DOMAIN o = 1 .. Len(o) /\ DOMAIN r = 1 .. Len(r)
         /\ o \o r \in Seq(S)
         /\ Len(o \o r) = Len(o) + Len(r)
         /\ DOMAIN (o \o r) = 1 .. (Len(o) + Len(r))
         /\ \A m \in 1 .. Len(o) : (o \o r)[m] = o[m]
         /\ \A m \in 1 .. Len(r) : (o \o r)[Len(o) + m] = r[m]
  OBVIOUS

\* What the queue is after an iteration: the head has moved, the rest is
\* extended.
HeadMoves(S, o, r, a) ==
  /\ Head(r) \in S /\ Append(o, Head(r)) \in Seq(S) /\ Tail(r) \o a \in Seq(S)
  /\ Len(Append(o, Head(r))) = Len(o) + 1
  /\ \A m \in 1 .. Len(o) : Append(o, Head(r))[m] = o[m]
  /\ Append(o, Head(r))[Len(o) + 1] = Head(r)
  /\ (o \o r)[Len(o) + 1] = Head(r) /\ Len(o) + 1 \in DOMAIN (o \o r)
  /\ Append(o, Head(r)) \o (Tail(r) \o a) = (o \o r) \o a

LEMMA QueueVisited ==
  ASSUME NEW S, NEW o, o \in Seq(S), NEW r, r \in Seq(S), r # <<>>,
         NEW a, a \in Seq(S)
  PROVE  HeadMoves(S, o, r, a)
<1>1. Head(r) \in S /\ Tail(r) \in Seq(S) /\ Len(r) \in Nat \ {0}
      /\ Len(Tail(r)) = Len(r) - 1 /\ r[1] = Head(r)
  OBVIOUS
<1>2. PICK lo \in Nat, lr \in Nat \ {0}, la \in Nat :
        lo = Len(o) /\ lr = Len(r) /\ la = Len(a)
  <2>1. Len(o) \in Nat /\ Len(r) \in Nat \ {0} /\ Len(a) \in Nat
    BY <1>1
  <2>2. QED
    BY <2>1
<1>3. PICK u : u = Append(o, Head(r))
  OBVIOUS
<1>4. /\ u \in Seq(S) /\ Len(u) = lo + 1
      /\ \A m \in 1 .. lo : u[m] = o[m]
      /\ u[lo + 1] = Head(r)
  BY <1>1, <1>2, <1>3
<1>5. PICK t : t = Tail(r)
  OBVIOUS
<1>6. t \in Seq(S) /\ Len(t) = lr - 1 /\ \A m \in 1 .. (lr - 1) : t[m] = r[m + 1]
  BY <1>1, <1>2, <1>5
<1>7. PICK w : w = t \o a
  OBVIOUS
<1>8. /\ w \in Seq(S) /\ Len(w) = lr - 1 + la
      /\ \A m \in 1 .. (lr - 1) : w[m] = t[m]
      /\ \A m \in 1 .. la : w[lr - 1 + m] = a[m]
  <2>1. /\ w \in Seq(S)
        /\ Len(w) = Len(t) + Len(a)
        /\ \A m \in 1 .. Len(t) : w[m] = t[m]
        /\ \A m \in 1 .. Len(a) : w[Len(t) + m] = a[m]
    <3>1. t \in Seq(S) /\ a \in Seq(S)
      BY <1>6
    <3>2. QED
      BY <3>1, <1>7, ConcatShape
  <2>2. QED
    BY <2>1, <1>2, <1>6
<1>9. PICK q : q = o \o r
  OBVIOUS
<1>10. /\ q \in Seq(S) /\ Len(q) = lo + lr
       /\ \A m \in 1 .. lo : q[m] = o[m]
       /\ \A m \in 1 .. lr : q[lo + m] = r[m]
  BY <1>2, <1>9
<1>11. PICK left, right : left = u \o w /\ right = q \o a
  OBVIOUS
<1>12. /\ left \in Seq(S) /\ Len(left) = lo + lr + la
       /\ \A m \in 1 .. (lo + 1) : left[m] = u[m]
       /\ \A m \in 1 .. (lr - 1 + la) : left[lo + 1 + m] = w[m]
  <2>1. /\ left \in Seq(S)
        /\ Len(left) = Len(u) + Len(w)
        /\ \A m \in 1 .. Len(u) : left[m] = u[m]
        /\ \A m \in 1 .. Len(w) : left[Len(u) + m] = w[m]
    <3>1. u \in Seq(S) /\ w \in Seq(S)
      BY <1>4, <1>8
    <3>2. QED
      BY <3>1, <1>11, ConcatShape
  <2>2. QED
    BY <2>1, <1>2, <1>4, <1>8
<1>13. /\ right \in Seq(S) /\ Len(right) = lo + lr + la
       /\ \A m \in 1 .. (lo + lr) : right[m] = q[m]
       /\ \A m \in 1 .. la : right[lo + lr + m] = a[m]
  <2>1. /\ right \in Seq(S)
        /\ Len(right) = Len(q) + Len(a)
        /\ \A m \in 1 .. Len(q) : right[m] = q[m]
        /\ \A m \in 1 .. Len(a) : right[Len(q) + m] = a[m]
    <3>1. q \in Seq(S) /\ a \in Seq(S)
      BY <1>10
    <3>2. QED
      BY <3>1, <1>11, ConcatShape
  <2>2. QED
    BY <2>1, <1>2, <1>10
<1>14. ASSUME NEW m \in 1 .. (lo + lr + la) PROVE left[m] = right[m]
  <2>1. CASE m <= lo
    BY <1>4, <1>10, <1>12, <1>13, <2>1
  <2>2. CASE m = lo + 1
    <3>1. left[m] = Head(r) /\ right[m] = q[lo + 1] /\ q[lo + 1] = r[1]
      BY <1>4, <1>10, <1>12, <1>13, <2>2
    <3>2. QED
      BY <1>1, <3>1
  <2>3. CASE m > lo + 1 /\ m <= lo + lr
    <3>1. PICK k \in 1 .. (lr - 1) : m = lo + 1 + k
      <4>1. m - lo - 1 \in 1 .. (lr - 1) /\ m = lo + 1 + (m - lo - 1)
        BY <2>3
      <4>2. QED
        BY <4>1
    <3>2. left[m] = r[k + 1]
      BY <1>6, <1>8, <1>12, <3>1
    <3>3. k + 1 \in 1 .. lr /\ m = lo + (k + 1)
      BY <3>1
    <3>4. right[m] = r[k + 1]
      BY <1>10, <1>13, <2>3, <3>3
    <3>5. QED
      BY <3>2, <3>4
  <2>4. CASE m > lo + lr
    <3>1. PICK k \in 1 .. la : m = lo + lr + k
      <4>1. m - lo - lr \in 1 .. la /\ m = lo + lr + (m - lo - lr)
        BY <2>4
      <4>2. QED
        BY <4>1
    <3>2. lr - 1 + k \in 1 .. (lr - 1 + la) /\ m = lo + 1 + (lr - 1 + k)
      BY <3>1
    <3>3. left[m] = a[k]
      BY <1>8, <1>12, <3>2
    <3>4. QED
      BY <1>13, <3>1, <3>3
  <2>5. QED
    BY <2>1, <2>2, <2>3, <2>4
<1>15. left = right
  BY <1>12, <1>13, <1>14
<1>16. (o \o r)[Len(o) + 1] = Head(r) /\ Len(o) + 1 \in DOMAIN (o \o r)
  BY <1>1, <1>2, <1>9, <1>10
<1>17. QED
  BY <1>1, <1>2, <1>3, <1>4, <1>5, <1>7, <1>8, <1>9, <1>11, <1>15, <1>16
  DEF HeadMoves

LEMMA LoopStart ==
  ASSUME NEW ts, Listed(ts)
  PROVE  LoopInv(ts, Roots(ts)) /\ Len(Roots(ts).order) = 0
<1> DEFINE P == Positions(ts)
           st == Roots(ts)
           free == {i \in P : ts[i].deps = <<>>}
<1>1. Len(ts) \in Nat /\ P = 1 .. Len(ts)
  BY DEF Listed, Positions
<1>2. st = [indegree |-> [i \in P |-> Len(ts[i].deps)],
            ready |-> Ascending(free), order |-> <<>>]
  BY DEF Roots
<1>3. PICK q : q = Ascending(free)
  OBVIOUS
<1>4. /\ q \in Seq(free)
      /\ \A m, n \in DOMAIN q : m < n => q[m] < q[n]
      /\ \A i \in free : \E n \in DOMAIN q : q[n] = i
  <2>1. free \in SUBSET (1 .. Len(ts))
    BY <1>1
  <2>2. /\ q \in Seq(free) /\ InOrder(q)
        /\ \A i \in free : \E n \in 1 .. Len(q) : q[n] = i
    BY <1>1, <1>3, <2>1, AscendingLists
  <2>3. DOMAIN q = 1 .. Len(q)
    BY <2>2
  <2>4. QED
    BY <2>2, <2>3 DEF InOrder
<1>5. /\ st.indegree = [i \in P |-> Len(ts[i].deps)]
      /\ st.ready = q /\ st.order = <<>>
  BY <1>2, <1>3
<1> HIDE DEF st
<1>6. q \in Seq(P) /\ DOMAIN q = 1 .. Len(q) /\ Len(q) \in Nat
      /\ \A m \in DOMAIN q : q[m] \in free
  BY <1>4
<1>7. Queue(st) = q /\ Done(st) = {} /\ DOMAIN st.order = {}
  BY <1>5, <1>6 DEF Queue, Done
<1>8. LoopType(ts, st)
  <2>1. st = [indegree |-> st.indegree, ready |-> st.ready, order |-> st.order]
    BY <1>2, <1>3, <1>5
  <2>2. \A i \in P : Len(ts[i].deps) \in Nat
    BY ListedType
  <2>3. st.indegree \in [P -> Int]
    BY <1>5, <2>2
  <2>4. st.order \in Seq(P)
    BY <1>5
  <2>5. QED
    BY <1>5, <1>6, <2>1, <2>3, <2>4 DEF LoopType
<1>9. Counted(ts, st)
  BY <1>5, <1>7, OpenCount DEF Counted
<1>10. Queued(ts, st)
  <2> SUFFICES ASSUME NEW i \in P
               PROVE  (\E m \in DOMAIN q : q[m] = i) <=> Open(ts, i, {}) = {}
    BY <1>7 DEF Queued
  <2>1. ts[i].deps = <<>> <=> Open(ts, i, {}) = {}
    BY ListedType, OpenCount
  <2>2. QED
    BY <1>4, <1>6, <2>1
<1>11. Once(st)
  <2>1. \A m \in DOMAIN q : q[m] \in Nat /\ m \in Nat
    BY <1>1, <1>6
  <2>2. QED
    BY <1>4, <1>7, <2>1 DEF Once
<1>12. Later(ts, st)
  <2>1. \A m \in DOMAIN q : DepsIn(ts, q[m]) = {}
    BY <1>6 DEF DepsIn
  <2>2. QED
    BY <1>7, <2>1 DEF Later
<1>13. Frontier(ts, st)
  BY <1>7 DEF Frontier
<1>14. LoopInv(ts, st) /\ Len(st.order) = 0
  BY <1>5, <1>8, <1>9, <1>10, <1>11, <1>12, <1>13 DEF LoopInv
<1>15. QED
  BY <1>14 DEF st

\* What an iteration does, in terms of the queue.
VisitEffect(ts, st, nx, v, a, o, l, k) ==
  /\ o = Len(st.order) /\ DOMAIN st.order = 1 .. o
  /\ k = Len(Queue(st)) /\ DOMAIN Queue(st) = 1 .. k /\ o + 1 <= k
  /\ Len(nx.order) = o + 1 /\ DOMAIN nx.order = 1 .. (o + 1)
  /\ \A m \in 1 .. o : nx.order[m] = st.order[m] /\ st.order[m] = Queue(st)[m]
  /\ nx.order[o + 1] = v /\ Queue(st)[o + 1] = v
  /\ v \notin Done(st) /\ Done(nx) = Done(st) \cup {v}
  /\ DOMAIN Queue(nx) = 1 .. (k + l)
  /\ \A m \in 1 .. k : Queue(nx)[m] = Queue(st)[m]
  /\ \A m \in 1 .. l : Queue(nx)[k + m] = a[m] /\ a[m] \in Positions(ts)
  /\ \A m, n \in 1 .. l : m < n => a[m] < a[n]
  /\ \A i \in Positions(ts) :
       (\E m \in 1 .. l : a[m] = i) <=>
         Open(ts, i, Done(st)) # {} /\ Open(ts, i, Done(nx)) = {}

LEMMA VisitQueue ==
  ASSUME NEW ts, Listed(ts), NEW st, LoopInv(ts, st), st.ready # <<>>
  PROVE  /\ \E v \in Positions(ts), a \in Seq(Positions(ts)), o, l, k \in Nat :
              VisitEffect(ts, st, Visit(ts, st), v, a, o, l, k)
         /\ LoopType(ts, Visit(ts, st)) /\ Counted(ts, Visit(ts, st))
<1> DEFINE P == Positions(ts)
           nx == Visit(ts, st)
           v == Head(st.ready)
           freed == {i \in P : /\ Lists(ts, i, ts[v].id) > 0
                               /\ st.indegree[i] = Lists(ts, i, ts[v].id)}
           a == Ascending(freed)
           o == Len(st.order)
           l == Len(a)
           q == Queue(st)
           k == Len(q)
<1>1. /\ st.indegree \in [P -> Int] /\ st.ready \in Seq(P) /\ st.order \in Seq(P)
      /\ Len(ts) \in Nat /\ P = 1 .. Len(ts)
  BY DEF LoopInv, LoopType, Listed, Positions
<1>2. nx = [ indegree |-> [i \in P |-> st.indegree[i] - Lists(ts, i, ts[v].id)],
             ready |-> Tail(st.ready) \o a, order |-> Append(st.order, v) ]
  BY DEF Visit
<1>3. /\ nx.indegree = [i \in P |-> st.indegree[i] - Lists(ts, i, ts[v].id)]
      /\ nx.ready = Tail(st.ready) \o a
      /\ nx.order = Append(st.order, v)
      /\ nx = [indegree |-> nx.indegree, ready |-> nx.ready, order |-> nx.order]
  BY <1>2
<1> HIDE DEF nx
<1>4. /\ a \in Seq(freed) /\ \A m, n \in DOMAIN a : m < n => a[m] < a[n]
      /\ \A i \in freed : \E n \in DOMAIN a : a[n] = i
  <2>1. freed \in SUBSET (1 .. Len(ts))
    BY <1>1
  <2>2. Ascending(freed) \in Seq(freed)
    BY <1>1, <2>1, AscendingLists
  <2>3. DOMAIN Ascending(freed) = 1 .. Len(Ascending(freed))
    BY <2>2
  <2>4. QED
    BY <1>1, <2>1, <2>2, <2>3, AscendingLists DEF InOrder
<1> HIDE DEF a
<1>5. a \in Seq(P) /\ l \in Nat /\ DOMAIN a = 1 .. l /\ \A m \in 1 .. l : a[m] \in freed
  BY <1>4
<1>6. /\ v \in P
      /\ nx.order \in Seq(P) /\ nx.ready \in Seq(P)
      /\ Len(nx.order) = o + 1
      /\ \A m \in 1 .. o : nx.order[m] = st.order[m]
      /\ nx.order[o + 1] = v
      /\ q[o + 1] = v /\ o + 1 \in DOMAIN q
      /\ nx.order \o nx.ready = q \o a
  <2>1. st.ready # <<>> /\ a \in Seq(P) /\ st.order \in Seq(P) /\ st.ready \in Seq(P)
    BY <1>1, <1>5
  <2>2. HeadMoves(P, st.order, st.ready, a)
    BY <2>1, QueueVisited, Zenon
  <2>3. QED
    BY <1>3, <2>2 DEF HeadMoves, Queue
<1>7. /\ q \in Seq(P) /\ o \in Nat /\ k \in Nat
      /\ DOMAIN st.order = 1 .. o /\ DOMAIN q = 1 .. k
      /\ \A m \in 1 .. o : q[m] = st.order[m]
  BY <1>1, QueueShape DEF Queue
<1> HIDE DEF v, freed, o, l, q, k
<1>8. DOMAIN nx.order = 1 .. (o + 1)
  BY <1>6, <1>7
<1>9. Queue(nx) = q \o a
  BY <1>6 DEF Queue
<1>10. /\ DOMAIN Queue(nx) = 1 .. (k + l)
       /\ \A m \in 1 .. k : Queue(nx)[m] = q[m]
       /\ \A m \in 1 .. l : Queue(nx)[k + m] = a[m]
  BY <1>5, <1>7, <1>9, QueueShape DEF k, l
<1>11. o + 1 <= k
  BY <1>6, <1>7
<1>12. v \notin Done(st)
  <2>1. \A m \in 1 .. o : m \in DOMAIN q /\ m # o + 1
    BY <1>7, <1>11
  <2>2. QED
    BY <1>6, <1>7, <2>1 DEF LoopInv, Once, Done, q
<1>13. Done(nx) = Done(st) \cup {v}
  <2>1. Done(st) = {st.order[m] : m \in 1 .. o}
    BY <1>7 DEF Done
  <2>2. Done(nx) = {nx.order[m] : m \in 1 .. (o + 1)}
    BY <1>8 DEF Done
  <2>3. \A m \in 1 .. (o + 1) : m = o + 1 \/ m \in 1 .. o
    BY <1>7
  <2>4. o + 1 \in 1 .. (o + 1) /\ \A m \in 1 .. o : m \in 1 .. (o + 1)
    BY <1>7
  <2>5. \A m \in 1 .. o : nx.order[m] = st.order[m]
    BY <1>6
  <2>6. nx.order[o + 1] = v
    BY <1>6
  <2>7. QED
    BY <2>1, <2>2, <2>3, <2>4, <2>5, <2>6, Zenon
<1>14. Done(st) \in SUBSET P
  BY <1>1, <1>7 DEF Done
<1>15. Counted(ts, nx)
  <2> SUFFICES ASSUME NEW i \in P
               PROVE  nx.indegree[i] = Cardinality(Open(ts, i, Done(nx)))
    BY DEF Counted
  <2>1. nx.indegree[i] = st.indegree[i] - Lists(ts, i, ts[v].id)
    BY <1>3
  <2>2. st.indegree[i] = Cardinality(Open(ts, i, Done(st)))
    BY DEF LoopInv, Counted
  <2>3. /\ Lists(ts, i, ts[v].id) \in Nat
        /\ Cardinality(Open(ts, i, Done(st))) =
             Cardinality(Open(ts, i, Done(st) \cup {v})) + Lists(ts, i, ts[v].id)
    BY <1>6, <1>12, <1>14, OpenLess
  <2>4. Cardinality(Open(ts, i, Done(st) \cup {v})) \in Nat
    BY OpenCount
  <2>5. QED
    BY <1>13, <2>1, <2>2, <2>3, <2>4
<1>16. LoopType(ts, nx)
  <2>1. \A i \in P : Lists(ts, i, ts[v].id) \in Nat
    BY <1>6, <1>12, <1>14, OpenLess
  <2>2. nx.indegree \in [P -> Int]
    BY <1>1, <1>3, <2>1
  <2>3. QED
    BY <1>3, <1>6, <2>2 DEF LoopType
<1>17. ASSUME NEW i \in P
       PROVE  (\E m \in 1 .. l : a[m] = i) <=>
                Open(ts, i, Done(st)) # {} /\ Open(ts, i, Done(nx)) = {}
  <2>1. (\E m \in 1 .. l : a[m] = i) <=> i \in freed
    BY <1>4, <1>5
  <2>2. st.indegree[i] = Cardinality(Open(ts, i, Done(st)))
    BY DEF LoopInv, Counted
  <2>3. /\ Lists(ts, i, ts[v].id) \in Nat
        /\ Cardinality(Open(ts, i, Done(st))) =
             Cardinality(Open(ts, i, Done(nx))) + Lists(ts, i, ts[v].id)
    <3>1. /\ Lists(ts, i, ts[v].id) \in Nat
          /\ Cardinality(Open(ts, i, Done(st))) =
               Cardinality(Open(ts, i, Done(st) \cup {v})) + Lists(ts, i, ts[v].id)
      BY <1>6, <1>12, <1>14, OpenLess
    <3>2. QED
      BY <1>13, <3>1
  <2>4. /\ Cardinality(Open(ts, i, Done(st))) \in Nat
        /\ Cardinality(Open(ts, i, Done(nx))) \in Nat
        /\ Cardinality(Open(ts, i, Done(st))) = 0 <=> Open(ts, i, Done(st)) = {}
        /\ Cardinality(Open(ts, i, Done(nx))) = 0 <=> Open(ts, i, Done(nx)) = {}
    BY OpenCount
  <2>5. i \in freed <=> /\ Lists(ts, i, ts[v].id) > 0
                        /\ st.indegree[i] = Lists(ts, i, ts[v].id)
    BY DEF freed
  <2>6. QED
    BY <2>1, <2>2, <2>3, <2>4, <2>5
<1>18. \A m, n \in 1 .. l : m < n => a[m] < a[n]
  BY <1>4, <1>5
<1>19. /\ \A m \in 1 .. o : nx.order[m] = st.order[m] /\ st.order[m] = q[m]
       /\ nx.order[o + 1] = v /\ q[o + 1] = v
  <2>1. \A m \in 1 .. o : nx.order[m] = st.order[m] /\ st.order[m] = q[m]
    BY <1>6, <1>7
  <2>2. QED
    BY <1>6, <2>1, Zenon
<1>20. \A m \in 1 .. l : Queue(nx)[k + m] = a[m] /\ a[m] \in P
  BY <1>5, <1>10 DEF freed
<1>21. /\ o = Len(st.order) /\ k = Len(Queue(st)) /\ DOMAIN Queue(st) = 1 .. k
       /\ q = Queue(st)
  BY <1>7 DEF o, k, q
<1>22. VisitEffect(ts, st, nx, v, a, o, l, k)
  BY <1>6, <1>7, <1>8, <1>10, <1>11, <1>12, <1>13, <1>17, <1>18, <1>19, <1>20, <1>21
  DEF VisitEffect
<1>23. \E v1 \in P, a1 \in Seq(P), o1, l1, k1 \in Nat :
         VisitEffect(ts, st, nx, v1, a1, o1, l1, k1)
  BY <1>5, <1>6, <1>7, <1>22, Zenon
<1>24. QED
  BY <1>15, <1>16, <1>23 DEF nx

\* An iteration keeps the invariant of the loop, and orders a task.
LEMMA LoopStep ==
  ASSUME NEW ts, Listed(ts), NEW st, LoopInv(ts, st), st.ready # <<>>
  PROVE  LoopInv(ts, Visit(ts, st)) /\ Len(Visit(ts, st).order) = Len(st.order) + 1
<1>1. PICK nx : nx = Visit(ts, st)
  OBVIOUS
<1>2. PICK v \in Positions(ts), a \in Seq(Positions(ts)), o, l, k \in Nat :
        VisitEffect(ts, st, nx, v, a, o, l, k)
  BY <1>1, VisitQueue
<1>3. LoopType(ts, nx) /\ Counted(ts, nx)
  BY <1>1, VisitQueue
<1> DEFINE P == Positions(ts)
           q == Queue(st)
           p == Queue(nx)
<1>4. /\ DOMAIN st.order = 1 .. o /\ DOMAIN q = 1 .. k /\ o + 1 <= k
      /\ DOMAIN nx.order = 1 .. (o + 1) /\ DOMAIN p = 1 .. (k + l)
      /\ \A m \in 1 .. o : nx.order[m] = st.order[m] /\ st.order[m] = q[m]
      /\ nx.order[o + 1] = v /\ q[o + 1] = v
      /\ \A m \in 1 .. k : p[m] = q[m]
      /\ \A m \in 1 .. l : p[k + m] = a[m] /\ a[m] \in P
  BY <1>2 DEF VisitEffect
<1> HIDE DEF p, q
<1>5. v \notin Done(st) /\ Done(nx) = Done(st) \cup {v}
  BY <1>2 DEF VisitEffect
<1>6. \A i \in P : (\E m \in 1 .. l : a[m] = i) <=>
                     Open(ts, i, Done(st)) # {} /\ Open(ts, i, Done(nx)) = {}
  BY <1>2 DEF VisitEffect
<1>7. \A m, n \in 1 .. l : m < n => a[m] < a[n]
  BY <1>2 DEF VisitEffect
<1>8. /\ Done(st) \in SUBSET P /\ Done(nx) \in SUBSET P
      /\ \A m \in 1 .. k : q[m] \in P
      /\ Len(ts) \in Nat /\ P = 1 .. Len(ts)
  <2>1. st.order \in Seq(P) /\ st.ready \in Seq(P)
    BY DEF LoopInv, LoopType
  <2>2. q \in Seq(P)
    BY <2>1 DEF Queue, q
  <2>3. \A m \in 1 .. o : st.order[m] \in P
    BY <1>4, <2>1
  <2>4. Done(st) \in SUBSET P
    BY <1>4, <2>3 DEF Done
  <2>5. \A m \in 1 .. k : q[m] \in P
    BY <1>4, <2>2
  <2>6. Len(ts) \in Nat /\ P = 1 .. Len(ts)
    BY DEF Listed, Positions
  <2>7. QED
    BY <1>5, <2>4, <2>5, <2>6
\* The two parts of the queue after the iteration.
<1>9. ASSUME NEW m \in 1 .. (k + l)
      PROVE  \/ m \in 1 .. k /\ p[m] = q[m]
             \/ \E j \in 1 .. l : m = k + j /\ p[m] = a[j]
  <2>1. CASE m <= k
    BY <1>4, <2>1
  <2>2. CASE m > k
    <3>1. m - k \in 1 .. l /\ m = k + (m - k)
      BY <2>2
    <3>2. p[m] = a[m - k]
      BY <1>4, <3>1
    <3>3. QED
      BY <3>1, <3>2
  <2>3. QED
    BY <2>1, <2>2
<1>10. \A i \in P : (\E m \in 1 .. k : q[m] = i) <=> Open(ts, i, Done(st)) = {}
  BY <1>4 DEF LoopInv, Queued, q
<1>11. \A i \in P : Open(ts, i, Done(st)) = {} => Open(ts, i, Done(nx)) = {}
  BY <1>5 DEF Open
<1>12. \A m \in 1 .. k : m \in 1 .. (k + l)
  OBVIOUS
<1>13. \A j \in 1 .. l : k + j \in 1 .. (k + l)
  OBVIOUS
<1>14. Queued(ts, nx)
  <2> SUFFICES ASSUME NEW i \in P
               PROVE  (\E m \in 1 .. (k + l) : p[m] = i) <=> Open(ts, i, Done(nx)) = {}
    BY <1>4 DEF Queued, p
  <2>1. (\E m \in 1 .. (k + l) : p[m] = i) <=>
          (\E m \in 1 .. k : q[m] = i) \/ (\E j \in 1 .. l : a[j] = i)
    <3>1. ASSUME NEW m \in 1 .. (k + l), p[m] = i
          PROVE  (\E n \in 1 .. k : q[n] = i) \/ (\E j \in 1 .. l : a[j] = i)
      BY <1>9, <3>1
    <3>2. ASSUME NEW m \in 1 .. k, q[m] = i PROVE \E n \in 1 .. (k + l) : p[n] = i
      BY <1>4, <1>12, <3>2
    <3>3. ASSUME NEW j \in 1 .. l, a[j] = i PROVE \E n \in 1 .. (k + l) : p[n] = i
      BY <1>4, <1>13, <3>3
    <3>4. QED
      BY <3>1, <3>2, <3>3
  <2>2. QED
    BY <1>6, <1>10, <1>11, <2>1
\* What is new in the queue was not in it.
<1>15. \A m \in 1 .. k, j \in 1 .. l : q[m] # a[j]
  BY <1>4, <1>6, <1>8, <1>10
<1>16. Once(nx)
  <2> SUFFICES ASSUME NEW m \in 1 .. (k + l), NEW n \in 1 .. (k + l), p[m] = p[n]
               PROVE  m = n
    BY <1>4 DEF Once, p
  <2>1. CASE m \in 1 .. k /\ n \in 1 .. k
    <3>1. q[m] = q[n]
      BY <1>4, <2>1
    <3>2. QED
      BY <1>4, <2>1, <3>1 DEF LoopInv, Once, q
  <2>2. CASE ~(m \in 1 .. k) /\ ~(n \in 1 .. k)
    <3>1. PICK i \in 1 .. l : m = k + i /\ p[m] = a[i]
      BY <1>9, <2>2
    <3>2. PICK j \in 1 .. l : n = k + j /\ p[n] = a[j]
      BY <1>9, <2>2
    <3>3. a[i] = a[j] /\ a[i] \in Nat
      BY <1>4, <1>8, <3>1, <3>2
    <3>4. ~(i < j) /\ ~(j < i)
      BY <1>7, <3>3
    <3>5. QED
      BY <3>1, <3>2, <3>4
  <2>3. CASE (m \in 1 .. k) # (n \in 1 .. k)
    BY <1>9, <1>15, <2>3
  <2>4. QED
    BY <2>1, <2>2, <2>3
\* What is new depends on the task that was ordered, and on ordered ones.
<1>17. ASSUME NEW j \in 1 .. l
       PROVE  v \in DepsIn(ts, a[j]) /\ DepsIn(ts, a[j]) \subseteq Done(nx)
  <2>1. a[j] \in P /\ Open(ts, a[j], Done(st)) # {} /\ Open(ts, a[j], Done(nx)) = {}
    BY <1>4, <1>6
  <2>2. PICK n \in Open(ts, a[j], Done(st)) : n \notin Open(ts, a[j], Done(nx))
    BY <2>1
  <2>3. ts[a[j]].deps[n] = ts[v].id /\ n \in DOMAIN ts[a[j]].deps
    BY <1>5, <2>2 DEF Open
  <2>4. QED
    BY <1>8, <2>1, <2>3, NothingOpen DEF DepsIn
<1>18. \A m \in 1 .. k : DepsIn(ts, q[m]) \subseteq Done(st)
  BY <1>8, <1>10, NothingOpen
<1>19. \A d \in Done(st) : \E e \in 1 .. o : nx.order[e] = d
  BY <1>4 DEF Done
<1>20. Later(ts, nx)
  <2> SUFFICES ASSUME NEW m \in 1 .. (k + l), NEW d \in DepsIn(ts, p[m])
               PROVE  \E e \in 1 .. (o + 1) : e < m /\ nx.order[e] = d
    BY <1>4 DEF Later, p
  <2>1. CASE m \in 1 .. k /\ p[m] = q[m]
    <3>1. PICK e \in 1 .. o : e < m /\ st.order[e] = d
      BY <1>4, <2>1 DEF LoopInv, Later, q
    <3>2. e \in 1 .. (o + 1) /\ nx.order[e] = d
      BY <1>4, <3>1
    <3>3. QED
      BY <3>1, <3>2
  <2>2. CASE \E j \in 1 .. l : m = k + j /\ p[m] = a[j]
    <3>1. PICK j \in 1 .. l : m = k + j /\ p[m] = a[j]
      BY <2>2
    <3>2. d \in Done(nx)
      BY <1>17, <3>1
    <3>3. PICK e \in 1 .. (o + 1) : nx.order[e] = d
      BY <1>4, <3>2 DEF Done
    <3>4. e < m
      BY <1>4, <3>1
    <3>5. QED
      BY <3>3, <3>4
  <2>3. QED
    BY <1>9, <2>1, <2>2
<1>21. Frontier(ts, nx)
  <2> SUFFICES ASSUME NEW m \in 1 .. (k + l), NEW n \in 1 .. (k + l), NEW x \in 1 .. (o + 1),
                      m < n, nx.order[x] \in DepsIn(ts, p[m])
               PROVE  \E y \in 1 .. (o + 1) : x <= y /\ nx.order[y] \in DepsIn(ts, p[n])
    BY <1>4 DEF Frontier, p
  <2>1. CASE \E j \in 1 .. l : n = k + j /\ p[n] = a[j]
    <3>1. o + 1 \in 1 .. (o + 1) /\ x <= o + 1
      OBVIOUS
    <3>2. nx.order[o + 1] \in DepsIn(ts, p[n])
      BY <1>4, <1>17, <2>1
    <3>3. QED
      BY <3>1, <3>2
  <2>2. CASE n \in 1 .. k /\ p[n] = q[n]
    <3>1. m \in 1 .. k /\ p[m] = q[m]
      <4>1. m < n /\ m \in 1 .. k
        BY <2>2
      <4>2. QED
        BY <1>4, <4>1
    <3>2. nx.order[x] \in Done(st)
      BY <1>18, <3>1
    <3>3. x \in 1 .. o
      BY <1>4, <1>5, <3>2
    <3>4. st.order[x] \in DepsIn(ts, q[m])
      BY <1>4, <3>1, <3>3
    <3>5. PICK y \in 1 .. o : x <= y /\ st.order[y] \in DepsIn(ts, q[n])
      BY <1>4, <2>2, <3>1, <3>3, <3>4 DEF LoopInv, Frontier, q
    <3>6. y \in 1 .. (o + 1) /\ nx.order[y] \in DepsIn(ts, p[n])
      BY <1>4, <2>2, <3>5
    <3>7. QED
      BY <3>5, <3>6
  <2>3. QED
    BY <1>9, <2>1, <2>2
<1>22. Len(nx.order) = Len(st.order) + 1
  BY <1>2 DEF VisitEffect
<1>23. QED
  BY <1>1, <1>3, <1>14, <1>16, <1>20, <1>21, <1>22 DEF LoopInv

\* The loop as a function of the number of iterations.
LEMMA LoopDefined ==
  ASSUME NEW ts, Listed(ts)
  PROVE  Iterations(ts) =
           [n \in 0 .. Len(ts) |->
              IF n = 0 THEN Roots(ts)
              ELSE IF Iterations(ts)[n - 1].ready = <<>> THEN Iterations(ts)[n - 1]
              ELSE Visit(ts, Iterations(ts)[n - 1])]
<1> DEFINE P == Positions(ts)
           S == {st \in [indegree : [P -> Int], ready : Seq(P), order : Seq(P)] :
                   LoopInv(ts, st)}
           F == [st \in S |-> IF st.ready = <<>> THEN st ELSE Visit(ts, st)]
           Step(g) == [n \in 0 .. Len(ts) |->
                         IF n = 0 THEN Roots(ts)
                         ELSE IF g[n - 1].ready = <<>> THEN g[n - 1]
                         ELSE Visit(ts, g[n - 1])]
<1>1. \A st : LoopInv(ts, st) => st \in S
  BY DEF LoopInv, LoopType
<1>2. Roots(ts) \in S
  BY <1>1, LoopStart
<1>3. F \in [S -> S]
  BY <1>1, LoopStep
<1>4. Len(ts) \in Nat
  BY DEF Listed
<1> HIDE DEF F, S
<1>5. PICK f \in [0 .. Len(ts) -> S] :
        f = [n \in 0 .. Len(ts) |-> IF n = 0 THEN Roots(ts) ELSE F[f[n - 1]]]
  <2>1. \E f \in [0 .. Len(ts) -> S] : Iterates(f, Roots(ts), F, Len(ts))
    BY <1>2, <1>3, <1>4, Iteration, Zenon
  <2>2. QED
    BY <2>1 DEF Iterates
<1>6. f = Step(f)
  <2> SUFFICES ASSUME NEW n \in 0 .. Len(ts), n # 0
               PROVE  F[f[n - 1]] = IF f[n - 1].ready = <<>> THEN f[n - 1]
                                    ELSE Visit(ts, f[n - 1])
    BY <1>5, Zenon
  <2>1. n - 1 \in 0 .. Len(ts)
    BY <1>4
  <2>2. f[n - 1] \in S
    BY <1>5, <2>1
  <2>3. QED
    BY <2>2 DEF F
<1>7. Iterations(ts) = CHOOSE g : g = Step(g)
  BY DEF Iterations
<1> HIDE DEF Step
<1>8. Iterations(ts) = Step(Iterations(ts))
  BY <1>6, <1>7
<1>9. QED
  BY <1>8 DEF Step

\* Where the loop ends: the queue is empty, and every task without missing
\* dependencies has been ordered.
LEMMA LoopEnd ==
  ASSUME NEW ts, Listed(ts), NEW st, st = Iterations(ts)[Len(ts)]
  PROVE  LoopInv(ts, st) /\ st.ready = <<>>
<1> DEFINE g == Iterations(ts)
           G == {n \in Nat : n <= Len(ts) =>
                   LoopInv(ts, g[n]) /\ (g[n].ready = <<>> \/ Len(g[n].order) = n)}
<1>1. Len(ts) \in Nat
  BY DEF Listed
<1>2. g = [n \in 0 .. Len(ts) |->
             IF n = 0 THEN Roots(ts)
             ELSE IF g[n - 1].ready = <<>> THEN g[n - 1] ELSE Visit(ts, g[n - 1])]
  BY LoopDefined
<1> HIDE DEF g
<1>3. 0 \in G
  <2>1. g[0] = Roots(ts)
    BY <1>1, <1>2
  <2>2. QED
    BY <2>1, LoopStart
<1>4. ASSUME NEW n \in Nat, n \in G PROVE n + 1 \in G
  <2> SUFFICES ASSUME n + 1 <= Len(ts)
               PROVE  /\ LoopInv(ts, g[n + 1])
                      /\ g[n + 1].ready = <<>> \/ Len(g[n + 1].order) = n + 1
    OBVIOUS
  <2>1. LoopInv(ts, g[n]) /\ (g[n].ready = <<>> \/ Len(g[n].order) = n)
    BY <1>1, <1>4
  <2>2. n + 1 \in 0 .. Len(ts) /\ n + 1 # 0 /\ (n + 1) - 1 = n
    BY <1>1
  <2>3. g[n + 1] = IF g[n].ready = <<>> THEN g[n] ELSE Visit(ts, g[n])
    BY <1>2, <2>2
  <2>4. CASE g[n].ready = <<>>
    BY <2>1, <2>3, <2>4
  <2>5. CASE g[n].ready # <<>>
    BY <2>1, <2>3, <2>5, LoopStep
  <2>6. QED
    BY <2>4, <2>5
<1>5. G \in SUBSET Nat
  OBVIOUS
<1> HIDE DEF G
<1>6. Len(ts) \in G
  BY <1>1, <1>3, <1>4, <1>5, SetInduction
<1>7. LoopInv(ts, st) /\ (st.ready = <<>> \/ Len(st.order) = Len(ts))
  BY <1>1, <1>6 DEF G, g
<1>8. ASSUME st.ready # <<>> PROVE FALSE
  <2> DEFINE P == Positions(ts)
             q == Queue(st)
  <2>1. /\ st.order \in Seq(P) /\ st.ready \in Seq(P) /\ P = 1 .. Len(ts)
        /\ Len(st.order) = Len(ts)
    BY <1>7, <1>8 DEF LoopInv, LoopType, Positions
  <2>2. PICK k \in Nat : k = Len(q) /\ DOMAIN q = 1 .. k /\ k > Len(ts)
    <3>1. Len(st.ready) \in Nat \ {0}
      BY <1>8, <2>1
    <3>2. st.order \in Seq(P) /\ st.ready \in Seq(P)
      BY <2>1
    <3>3. /\ Len(q) = Len(st.order) + Len(st.ready)
          /\ DOMAIN q = 1 .. (Len(st.order) + Len(st.ready))
      <4> DEFINE Shape(o, r) == /\ Len(o \o r) = Len(o) + Len(r)
                                /\ DOMAIN (o \o r) = 1 .. (Len(o) + Len(r))
      <4>1. \A o, r \in Seq(P) : Shape(o, r)
        BY QueueShape
      <4> HIDE DEF Shape
      <4>2. Shape(st.order, st.ready)
        BY <3>2, <4>1, Zenon
      <4>3. QED
        BY <4>2, Zenon DEF Shape, Queue
    <3>4. QED
      BY <1>1, <2>1, <3>1, <3>3
  <2>3. q \in Seq(P)
    BY <2>1 DEF Queue
  <2> HIDE DEF q
  <2>4. q \in [1 .. k -> P]
    BY <2>2, <2>3
  <2>5. \A m, n \in 1 .. k : q[m] = q[n] => m = n
    BY <1>7, <2>2 DEF LoopInv, Once, q
  <2>6. q \in Injection(1 .. k, P)
    BY <2>4, <2>5 DEF Injection, IsInjective
  <2>7. /\ IsFiniteSet(P) /\ Cardinality(P) = Len(ts)
        /\ Cardinality(1 .. k) = k
    <3>1. IsFiniteSet(P) /\ Cardinality(P) = Len(ts)
      <4>1. PICK N \in Nat : N = Len(ts)
        BY <1>1
      <4>2. IsFiniteSet(1 .. N) /\ Cardinality(1 .. N) = N
        BY FS_Interval
      <4>3. QED
        BY <2>1, <4>1, <4>2, Zenon
    <3>2. Cardinality(1 .. k) = k
      BY FS_Interval
    <3>3. QED
      BY <3>1, <3>2
  <2>8. Cardinality(1 .. k) <= Cardinality(P)
    BY <2>6, <2>7, FS_Injection
  <2>9. QED
    BY <1>1, <2>2, <2>7, <2>8
<1>9. QED
  BY <1>7, <1>8

-----------------------------------------------------------------------------
(* The order that the loop leaves.                                         *)

Ordering(ts, o) ==
  /\ o \in Seq(Positions(ts))
  /\ Len(o) \in Nat /\ DOMAIN o = 1 .. Len(o)
  /\ \A m, n \in DOMAIN o : o[m] = o[n] => m = n
  /\ \A i \in Positions(ts) :
       (\E m \in DOMAIN o : o[m] = i) <=>
         Open(ts, i, {o[m] : m \in DOMAIN o}) = {}
  /\ \A m \in DOMAIN o : \A d \in DepsIn(ts, o[m]) :
       \E e \in DOMAIN o : e < m /\ o[e] = d
  /\ \A a, b, x \in DOMAIN o :
       a < b /\ o[x] \in DepsIn(ts, o[a]) =>
         \E y \in DOMAIN o : x <= y /\ o[y] \in DepsIn(ts, o[b])

LEMMA OrderLeft ==
  ASSUME NEW ts, Listed(ts)
  PROVE  Ordering(ts, KahnOrder(ts))
<1>1. PICK st : st = Iterations(ts)[Len(ts)]
  OBVIOUS
<1>2. LoopInv(ts, st) /\ st.ready = <<>>
  BY <1>1, LoopEnd
<1>3. PICK o : o = st.order
  OBVIOUS
<1>4. o \in Seq(Positions(ts)) /\ Len(o) \in Nat /\ DOMAIN o = 1 .. Len(o)
  BY <1>2, <1>3 DEF LoopInv, LoopType
<1>5. Queue(st) = o
  BY <1>2, <1>3, <1>4 DEF Queue
<1>6. Done(st) = {o[m] : m \in DOMAIN o}
  BY <1>3 DEF Done
<1>7. Ordering(ts, o)
  <2>1. \A m, n \in DOMAIN o : o[m] = o[n] => m = n
    BY <1>2, <1>5 DEF LoopInv, Once
  <2>2. \A i \in Positions(ts) :
          (\E m \in DOMAIN o : o[m] = i) <=>
            Open(ts, i, {o[m] : m \in DOMAIN o}) = {}
    BY <1>2, <1>5, <1>6, Zenon DEF LoopInv, Queued
  <2>3. \A m \in DOMAIN o : \A d \in DepsIn(ts, o[m]) :
          \E e \in DOMAIN o : e < m /\ o[e] = d
    BY <1>2, <1>3, <1>5 DEF LoopInv, Later
  <2>4. \A a, b, x \in DOMAIN o :
          a < b /\ o[x] \in DepsIn(ts, o[a]) =>
            \E y \in DOMAIN o : x <= y /\ o[y] \in DepsIn(ts, o[b])
    BY <1>2, <1>3, <1>5 DEF LoopInv, Frontier
  <2>5. QED
    BY <1>4, <2>1, <2>2, <2>3, <2>4 DEF Ordering
<1>8. QED
  BY <1>1, <1>3, <1>7 DEF KahnOrder

LEMMA IntervalCount ==
  ASSUME NEW N \in Nat
  PROVE  IsFiniteSet(1 .. N) /\ Cardinality(1 .. N) = N
  BY FS_Interval

\* An order is as long as the list of tasks if it has all of them.
LEMMA OrderLength ==
  ASSUME NEW ts, Listed(ts), NEW o, Ordering(ts, o)
  PROVE  Len(o) = Len(ts) <=> {o[m] : m \in DOMAIN o} = Positions(ts)
<1>1. PICK N \in Nat, c \in Nat : N = Len(ts) /\ c = Len(o)
  <2>1. Len(ts) \in Nat
    BY DEF Listed
  <2>2. Len(o) \in Nat
    BY DEF Ordering
  <2>3. QED
    BY <2>1, <2>2
<1>2. PICK P, R : P = 1 .. N /\ R = {o[m] : m \in 1 .. c}
  OBVIOUS
<1>3. /\ \A m \in 1 .. c : o[m] \in P
      /\ \A m, n \in 1 .. c : o[m] = o[n] => m = n
  <2>1. o \in Seq(P) /\ DOMAIN o = 1 .. c
    BY <1>1, <1>2 DEF Ordering, Positions
  <2>2. QED
    BY <2>1 DEF Ordering
<1>4. o \in Bijection(1 .. c, R)
  <2>1. o \in [1 .. c -> R]
    <3>1. o = [m \in 1 .. c |-> o[m]]
      <4>1. o \in Seq(Positions(ts)) /\ c = Len(o)
        BY <1>1 DEF Ordering
      <4>2. QED
        BY <4>1
    <3>2. QED
      BY <1>2, <3>1
  <2>2. QED
    BY <1>2, <1>3, <2>1 DEF Bijection, Injection, Surjection, IsInjective
<1>5. IsFiniteSet(1 .. c) /\ Cardinality(1 .. c) = c
  BY IntervalCount
<1>6. IsFiniteSet(P) /\ Cardinality(P) = N
  BY <1>2, IntervalCount
<1>7. Cardinality(R) = c
  BY <1>4, <1>5, FS_Bijection DEF ExistsBijection
<1>8. R \in SUBSET P
  BY <1>2, <1>3
<1>9. c = N <=> R = P
  BY <1>6, <1>7, <1>8, FS_Subset
<1>10. QED
  BY <1>1, <1>2, <1>9 DEF Positions, Ordering

\* Whether a dependency is unknown is a question of counting.
LEMMA UnknownCounted ==
  ASSUME NEW ts, Listed(ts), NEW i \in Positions(ts)
  PROVE  Cardinality(DepsIn(ts, i)) <
             Cardinality({ts[i].deps[n] : n \in DOMAIN ts[i].deps})
           <=> \E n \in DOMAIN ts[i].deps : ts[i].deps[n] \notin IdsOf(ts)
<1> DEFINE D == DepsIn(ts, i)
           L == {ts[i].deps[n] : n \in DOMAIN ts[i].deps}
           K == L \cap IdsOf(ts)
<1>1. IsFiniteSet(D) /\ Cardinality(D) \in Nat
  <2>1. IsFiniteSet(Positions(ts))
    BY ListedType, IntervalCount DEF Positions
  <2>2. D \in SUBSET Positions(ts)
    BY DEF DepsIn
  <2>3. QED
    BY <2>1, <2>2, FS_Subset, FS_CardinalityType
<1>2. IsFiniteSet(L) /\ Cardinality(L) \in Nat
  <2>1. PICK N \in Nat : DOMAIN ts[i].deps = 1 .. N
    BY ListedType
  <2>2. PICK f : f = [n \in 1 .. N |-> ts[i].deps[n]]
    OBVIOUS
  <2>3. f \in Surjection(1 .. N, L)
    BY <2>1, <2>2 DEF Surjection
  <2>4. IsFiniteSet(L)
    BY <2>3, IntervalCount, FS_Surjection
  <2>5. QED
    BY <2>4, FS_CardinalityType
<1>3. Cardinality(K) = Cardinality(D)
  <2>1. PICK f : f = [d \in D |-> ts[d].id]
    OBVIOUS
  <2>2. \A d \in D : d \in Positions(ts)
    BY DEF DepsIn
  <2>3. \A d \in D : ts[d].id \in K
    BY DEF DepsIn, IdsOf
  <2>4. \A x \in K : \E d \in D : ts[d].id = x
    BY DEF DepsIn, IdsOf
  <2>5. \A d, e \in D : ts[d].id = ts[e].id => d = e
    BY <2>2 DEF Listed
  <2> HIDE DEF D, K
  <2>6. f \in Bijection(D, K)
    BY <2>1, <2>3, <2>4, <2>5 DEF Bijection, Injection, Surjection, IsInjective
  <2>7. QED
    BY <1>1, <2>6, FS_Bijection DEF ExistsBijection
<1>4. K \in SUBSET L
  OBVIOUS
<1>5. K # L <=> \E n \in DOMAIN ts[i].deps : ts[i].deps[n] \notin IdsOf(ts)
  OBVIOUS
<1> HIDE DEF D, L, K
<1>6. Cardinality(D) <= Cardinality(L) /\ (Cardinality(L) = Cardinality(D) => L = K)
  BY <1>2, <1>3, <1>4, FS_Subset
<1>7. Cardinality(D) < Cardinality(L) <=> K # L
  BY <1>1, <1>2, <1>3, <1>6
<1>8. QED
  BY <1>5, <1>7 DEF D, L

-----------------------------------------------------------------------------
(* Which graphs are refused.                                               *)

LEMMA ListedStart ==
  ASSUME Init
  PROVE  Listed(tasks)
  BY DEF Init, Listed, Positions

LEMMA ListedKept ==
  ASSUME Listed(tasks), [Next]_tasks
  PROVE  Listed(tasks')
<1>1. CASE UNCHANGED tasks
  BY <1>1
<1>2. CASE Next
  <2>1. PICK id \in Id \cup {NoId}, deps \in Deps : AddTask(id, deps)
    BY <1>2 DEF Next
  <2>2. id \in Id /\ id \notin IdsOf(tasks)
        /\ tasks' = Append(tasks, [id |-> id, deps |-> deps])
    BY <2>1 DEF AddTask
  <2>3. PICK T : T = [id : Id, deps : Deps]
    OBVIOUS
  <2>4. PICK t : t = [id |-> id, deps |-> deps]
    OBVIOUS
  <2>5. t \in T /\ t.id = id
    BY <2>2, <2>3, <2>4
  <2>6. PICK k \in Nat : k = Len(tasks)
    BY DEF Listed
  <2>7. tasks \in Seq(T) /\ tasks' = Append(tasks, t)
    BY <2>2, <2>3, <2>4 DEF Listed
  <2>8. /\ tasks' \in Seq(T) /\ Len(tasks') = k + 1
        /\ \A i \in 1 .. k : tasks'[i] = tasks[i]
        /\ tasks'[k + 1] = t
    BY <2>5, <2>6, <2>7
  <2>9. ASSUME NEW i \in 1 .. (k + 1), NEW j \in 1 .. (k + 1), tasks'[i].id = tasks'[j].id
        PROVE  i = j
    <3>1. \A n \in 1 .. k : tasks'[n].id = tasks[n].id /\ tasks[n].id # id
      <4>1. \A n \in 1 .. k : tasks[n].id \in IdsOf(tasks)
        BY <2>6 DEF IdsOf, Positions
      <4>2. QED
        BY <2>2, <2>8, <4>1
    <3>2. tasks'[k + 1].id = id
      BY <2>5, <2>8
    <3>3. CASE i \in 1 .. k /\ j \in 1 .. k
      BY <2>6, <2>9, <3>1, <3>3 DEF Listed, Positions
    <3>4. CASE i = k + 1 \/ j = k + 1
      <4>1. \A n \in 1 .. (k + 1) : n = k + 1 \/ n \in 1 .. k
        OBVIOUS
      <4>2. QED
        BY <2>9, <3>1, <3>2, <3>4, <4>1
    <3>5. QED
      BY <3>3, <3>4
  <2>10. QED
    BY <2>3, <2>8, <2>9 DEF Listed, Positions
<1>3. QED
  BY <1>1, <1>2

LEMMA DepsAreDeps ==
  \A i : DepsAt(i) = DepsIn(tasks, i)
  BY DEF DepsAt, DepsIn

\* What the loop leaves out is a set of tasks that wait for one another.
LEMMA LeftOutStuck ==
  ASSUME Listed(tasks), ~UnknownDependency(tasks),
         NEW o, Ordering(tasks, o), Len(o) # Len(tasks)
  PROVE  \E S \in SUBSET Positions(tasks) : Stuck(S)
<1> DEFINE R == {o[m] : m \in DOMAIN o}
           S == Positions(tasks) \ R
<1>1. R \subseteq Positions(tasks)
  BY DEF Ordering
<1>2. S # {}
  BY <1>1, OrderLength
<1>3. ASSUME NEW i \in S PROVE DepsAt(i) \cap S # {}
  <2>1. Open(tasks, i, R) # {}
    <3>1. ~(\E m \in DOMAIN o : o[m] = i)
      BY <1>3
    <3>2. QED
      BY <3>1 DEF Ordering
  <2>2. PICK n \in DOMAIN tasks[i].deps : \A d \in R : tasks[d].id # tasks[i].deps[n]
    BY <2>1 DEF Open
  <2>3. tasks[i].deps[n] \in IdsOf(tasks)
    BY DEF UnknownDependency
  <2>4. PICK d \in Positions(tasks) : tasks[i].deps[n] = tasks[d].id
    BY <2>3 DEF IdsOf
  <2>5. d \in S /\ d \in DepsAt(i)
    BY <2>2, <2>4 DEF DepsAt
  <2>6. QED
    BY <2>5
<1> HIDE DEF S
<1>4. Stuck(S)
  BY <1>2, <1>3 DEF Stuck
<1>5. QED
  BY <1>4 DEF S

\* An order of all tasks shows that none wait for one another.
LEMMA OrderNotStuck ==
  ASSUME Listed(tasks), NEW o, Ordering(tasks, o), Len(o) = Len(tasks),
         NEW S \in SUBSET Positions(tasks), Stuck(S)
  PROVE  FALSE
<1>1. \A i \in Positions(tasks) : \E m \in DOMAIN o : o[m] = i
  BY OrderLength
<1>2. PICK c \in Nat : DOMAIN o = 1 .. c
  BY DEF Ordering
<1>3. PICK T : T = {m \in DOMAIN o : o[m] \in S}
  OBVIOUS
<1>4. T \in SUBSET Nat /\ T # {}
  <2>1. PICK i \in S : TRUE
    BY DEF Stuck
  <2>2. PICK m \in DOMAIN o : o[m] = i
    BY <1>1
  <2>3. QED
    BY <1>2, <1>3, <2>2
<1>5. PICK m \in T : \A n \in T : m <= n
  BY <1>4, LeastElement
<1>6. PICK d \in DepsIn(tasks, o[m]) : d \in S
  BY <1>3, DepsAreDeps DEF Stuck
<1>7. PICK e \in DOMAIN o : e < m /\ o[e] = d
  BY <1>3, <1>6 DEF Ordering
<1>8. e \in T
  BY <1>3, <1>6, <1>7
<1>9. QED
  BY <1>2, <1>3, <1>5, <1>7, <1>8

LEMMA RefusedRightly ==
  ASSUME Listed(tasks)
  PROVE  RefusedOnlyIfImpossible
<1>1. PICK o : o = KahnOrder(tasks)
  OBVIOUS
<1>2. Ordering(tasks, o)
  BY <1>1, OrderLeft
<1>3. PICK error : error = Ordered(tasks).error
  OBVIOUS
<1>4. error = IF UnknownDependency(tasks) THEN "unknown"
              ELSE IF Len(o) # Len(tasks) THEN "cycle" ELSE "none"
  BY <1>1, <1>3 DEF Ordered
<1>5. error = "unknown" <=>
        \E i \in Positions(tasks) :
          Cardinality(DepsAt(i)) <
            Cardinality({tasks[i].deps[n] : n \in DOMAIN tasks[i].deps})
  <2>1. error = "unknown" <=> UnknownDependency(tasks)
    BY <1>4
  <2>2. UnknownDependency(tasks) <=>
          \E i \in Positions(tasks) :
            Cardinality(DepsIn(tasks, i)) <
              Cardinality({tasks[i].deps[n] : n \in DOMAIN tasks[i].deps})
    BY UnknownCounted, Zenon DEF UnknownDependency
  <2>3. QED
    BY <2>1, <2>2, DepsAreDeps, Zenon
<1>6. error = "cycle" => \E S \in SUBSET Positions(tasks) : Stuck(S)
  BY <1>2, <1>4, LeftOutStuck
<1>7. error = "none" => \A S \in SUBSET Positions(tasks) : ~Stuck(S)
  BY <1>2, <1>4, OrderNotStuck
<1>8. QED
  BY <1>3, <1>5, <1>6, <1>7 DEF RefusedOnlyIfImpossible

LEMMA TasksStayListed ==
  Listed(tasks) /\ [SerialNext]_vars => Listed(tasks)'
<1> SUFFICES ASSUME Listed(tasks), [SerialNext]_vars PROVE Listed(tasks')
  BY DEF Listed, Positions
<1>1. [Next]_tasks
  BY DEF SerialNext, vars, run, Build, Reject, Take, Executed, ExecutionFails,
     ReturnError, ReturnResult
<1>2. QED
  BY <1>1, ListedKept

\* A graph is refused exactly when no order of its tasks exists: whatever
\* list addTask has built, orderedTasks reports an unknown dependency if an
\* entry of a dependency list names no task, a cycle only if some tasks wait
\* for one another, and an order only if none do.
THEOREM RefusalsJustified == SerialSpec => []RefusedOnlyIfImpossible
<1>1. SerialInit => Listed(tasks)
  BY ListedStart DEF SerialInit
<1>2. Listed(tasks) /\ [SerialNext]_vars => Listed(tasks)'
  BY TasksStayListed
<1>3. Listed(tasks) => RefusedOnlyIfImpossible
  BY RefusedRightly
<1>4. QED
  BY <1>1, <1>2, <1>3, PTL DEF SerialSpec

-----------------------------------------------------------------------------
(* Breadth first.                                                          *)

LEMMA ChainsDefined ==
  ASSUME Listed(tasks)
  PROVE  Chains = [n \in 0 .. Len(tasks) |->
                     IF n = 0 THEN Positions(tasks)
                     ELSE {j \in Positions(tasks) : DepsAt(j) \cap Chains[n - 1] # {}}]
<1> DEFINE P == Positions(tasks)
           S == SUBSET P
           F == [X \in S |-> {j \in P : DepsAt(j) \cap X # {}}]
           Step(g) == [n \in 0 .. Len(tasks) |->
                         IF n = 0 THEN P
                         ELSE {j \in P : DepsAt(j) \cap g[n - 1] # {}}]
<1>1. P \in S /\ F \in [S -> S]
  OBVIOUS
<1>2. Len(tasks) \in Nat
  BY DEF Listed
<1>3. \A X \in S : F[X] = {j \in P : DepsAt(j) \cap X # {}}
  OBVIOUS
<1> HIDE DEF F, S
<1>4. PICK f \in [0 .. Len(tasks) -> S] : Iterates(f, P, F, Len(tasks))
  BY <1>1, <1>2, Iteration, Zenon
<1>5. f = Step(f)
  <2>1. f = [n \in 0 .. Len(tasks) |-> IF n = 0 THEN P ELSE F[f[n - 1]]]
    BY <1>4 DEF Iterates
  <2> SUFFICES ASSUME NEW n \in 0 .. Len(tasks), n # 0
               PROVE  F[f[n - 1]] = {j \in P : DepsAt(j) \cap f[n - 1] # {}}
    BY <2>1, Zenon
  <2>2. n - 1 \in 0 .. Len(tasks)
    BY <1>2
  <2>3. f[n - 1] \in S
    BY <1>4, <2>2
  <2>4. QED
    BY <1>3, <2>3
<1>6. Chains = CHOOSE g : g = Step(g)
  BY DEF Chains
<1> HIDE DEF Step
<1>7. Chains = Step(Chains)
  BY <1>5, <1>6
<1>8. QED
  BY <1>7 DEF Step

\* Chains end at later tasks: what can be stacked below a task can be stacked
\* below the ones that come after it.
LEMMA ChainsLater ==
  ASSUME Listed(tasks), NEW o, Ordering(tasks, o), Len(o) = Len(tasks),
         NEW k \in 0 .. Len(tasks),
         NEW n \in DOMAIN o, NEW m \in DOMAIN o, n < m, o[n] \in Chains[k]
  PROVE  o[m] \in Chains[k]
<1> DEFINE G == {j \in Nat : j <= Len(tasks) =>
                   \A a, b \in DOMAIN o : a < b /\ o[a] \in Chains[j] => o[b] \in Chains[j]}
<1>1. PICK N \in Nat : N = Len(tasks)
  BY DEF Listed
<1>2. DOMAIN o = 1 .. N /\ \A a \in DOMAIN o : o[a] \in Positions(tasks)
  BY <1>1 DEF Ordering
<1>3. 0 \in G
  <2>1. Chains[0] = Positions(tasks)
    BY <1>1, ChainsDefined
  <2>2. QED
    BY <1>2, <2>1
<1>4. ASSUME NEW j \in Nat, j \in G PROVE j + 1 \in G
  <2> SUFFICES ASSUME j + 1 <= N, NEW a \in DOMAIN o, NEW b \in DOMAIN o, a < b,
                      o[a] \in Chains[j + 1]
               PROVE  o[b] \in Chains[j + 1]
    BY <1>1
  <2>1. \A c, d \in DOMAIN o : c < d /\ o[c] \in Chains[j] => o[d] \in Chains[j]
    BY <1>1, <1>4
  <2>2. Chains[j + 1] = {i \in Positions(tasks) : DepsAt(i) \cap Chains[j] # {}}
    <3>1. j + 1 \in 0 .. Len(tasks) /\ j + 1 # 0 /\ (j + 1) - 1 = j
      BY <1>1
    <3>2. QED
      BY <3>1, ChainsDefined
  <2>3. PICK d \in DepsIn(tasks, o[a]) : d \in Chains[j]
    BY <2>2, DepsAreDeps
  <2>4. PICK x \in DOMAIN o : o[x] = d
    BY <2>3 DEF Ordering
  <2>5. PICK y \in DOMAIN o : x <= y /\ o[y] \in DepsIn(tasks, o[b])
    BY <2>3, <2>4 DEF Ordering
  <2>6. o[y] \in Chains[j]
    <3>1. x = y \/ x < y
      BY <1>2, <2>5
    <3>2. QED
      BY <2>1, <2>3, <2>4, <3>1
  <2>7. o[y] \in DepsAt(o[b])
    BY <2>5, DepsAreDeps
  <2>8. QED
    BY <1>2, <2>2, <2>6, <2>7
<1>5. G \in SUBSET Nat
  OBVIOUS
<1> HIDE DEF G
<1>6. k \in G
  BY <1>1, <1>3, <1>4, <1>5, SetInduction
<1>7. QED
  BY <1>6 DEF G

LEMMA OrderedBreadthFirst ==
  ASSUME Listed(tasks)
  PROVE  BreadthFirst
<1>1. PICK o : o = KahnOrder(tasks)
  OBVIOUS
<1>2. Ordering(tasks, o)
  BY <1>1, OrderLeft
<1>3. Ordered(tasks).error = "none" => Ordered(tasks).order = o /\ Len(o) = Len(tasks)
  BY <1>1 DEF Ordered
<1> SUFFICES ASSUME Len(o) = Len(tasks)
             PROVE  /\ {o[n] : n \in DOMAIN o} = Positions(tasks)
                    /\ Len(o) = Len(tasks)
                    /\ \A n, m \in DOMAIN o : o[m] \in DepsAt(o[n]) => m < n
                    /\ \A n, m \in DOMAIN o : n < m => ChainBelow(o[n]) <= ChainBelow(o[m])
  BY <1>3, Zenon DEF BreadthFirst
<1>4. {o[n] : n \in DOMAIN o} = Positions(tasks)
  BY <1>2, OrderLength
<1>5. ASSUME NEW n \in DOMAIN o, NEW m \in DOMAIN o, o[m] \in DepsAt(o[n])
      PROVE  m < n
  <2>1. o[m] \in DepsIn(tasks, o[n])
    BY <1>5, DepsAreDeps
  <2>2. PICK e \in DOMAIN o : e < n /\ o[e] = o[m]
    BY <1>2, <2>1 DEF Ordering
  <2>3. e = m
    BY <1>2, <2>2 DEF Ordering
  <2>4. QED
    BY <2>2, <2>3
<1>6. ASSUME NEW n \in DOMAIN o, NEW m \in DOMAIN o, n < m
      PROVE  ChainBelow(o[n]) <= ChainBelow(o[m])
  <2> DEFINE Below(i) == {k \in 1 .. Len(tasks) : i \in Chains[k]}
  <2>1. PICK N \in Nat : N = Len(tasks)
    BY DEF Listed
  <2>2. IsFiniteSet(Below(o[m]))
    <3>1. IsFiniteSet(1 .. N) /\ Below(o[m]) \in SUBSET (1 .. N)
      BY <2>1, IntervalCount
    <3>2. QED
      BY <3>1, FS_Subset
  <2>3. Below(o[n]) \in SUBSET Below(o[m])
    <3>1. \A k \in 1 .. Len(tasks) : k \in 0 .. Len(tasks)
      BY <2>1
    <3>2. \A k \in 1 .. Len(tasks) : o[n] \in Chains[k] => o[m] \in Chains[k]
      BY <1>2, <1>6, <3>1, ChainsLater
    <3>3. QED
      BY <3>2
  <2> HIDE DEF Below
  <2>4. Cardinality(Below(o[n])) <= Cardinality(Below(o[m]))
    BY <2>2, <2>3, FS_Subset
  <2>5. QED
    BY <2>4 DEF Below, ChainBelow
<1>7. QED
  BY <1>4, <1>5, <1>6

\* Whatever list addTask has built, the order that plan() reports, where
\* there is one, has every task once and after all that it depends on, and
\* never puts a task before one with a shorter chain of dependencies: the
\* queue of orderedTasks, first in, first out, makes the order breadth first.
THEOREM OrderBreadthFirst == SerialSpec => []BreadthFirst
<1>1. SerialInit => Listed(tasks)
  BY ListedStart DEF SerialInit
<1>2. Listed(tasks) /\ [SerialNext]_vars => Listed(tasks)'
  BY TasksStayListed
<1>3. Listed(tasks) => BreadthFirst
  BY OrderedBreadthFirst
<1>4. QED
  BY <1>1, <1>2, <1>3, PTL DEF SerialSpec

-----------------------------------------------------------------------------
(* A plan: tasks in the order that orderedTasks returns.  Run with another *)
(* queue of the same kind, they come in the order that they have.          *)

IsPlan(ts) ==
  /\ Listed(ts)
  /\ \A i \in Positions(ts) : Open(ts, i, Positions(ts)) = {}
  /\ \A i \in Positions(ts) : \A d \in DepsIn(ts, i) : d < i
  /\ \A i, j \in Positions(ts) : \A d \in DepsIn(ts, i) :
       i < j => \E e \in DepsIn(ts, j) : d <= e

InPlace(k) == [j \in 1 .. k |-> j]

Steps(ts, st, k) ==
  /\ LoopInv(ts, st)
  /\ st.order = InPlace(k)
  /\ \A m \in DOMAIN Queue(st) : Queue(st)[m] = m

\* Numbers above k in order, and none left out.
Gapless(a, l, k) ==
  /\ \A j \in 1 .. l : a[j] \in Nat /\ a[j] > k
  /\ \A i, j \in 1 .. l : i < j => a[i] < a[j]
  /\ \A j \in 1 .. l : \A x \in Nat :
       k < x /\ x <= a[j] => \E i \in 1 .. l : a[i] = x

\* They are the numbers after k.
LEMMA Consecutive ==
  ASSUME NEW k \in Nat, NEW l \in Nat, NEW a, Gapless(a, l, k)
  PROVE  \A j \in 1 .. l : a[j] = k + j
<1>0. /\ \A j \in 1 .. l : a[j] \in Nat /\ a[j] > k
      /\ \A i, j \in 1 .. l : i < j => a[i] < a[j]
      /\ \A j \in 1 .. l : \A x \in Nat :
           k < x /\ x <= a[j] => \E i \in 1 .. l : a[i] = x
  BY DEF Gapless
<1> DEFINE G == {n \in Nat : \A j \in 1 .. l : j <= n => a[j] = k + j}
<1>1. 0 \in G
  OBVIOUS
<1>2. ASSUME NEW n \in Nat, n \in G PROVE n + 1 \in G
  <2> SUFFICES ASSUME n + 1 \in 1 .. l PROVE a[n + 1] = k + (n + 1)
    BY <1>2
  <2>1. a[n + 1] >= k + (n + 1)
    <3>1. CASE n = 0
      BY <1>0, <3>1
    <3>2. CASE n # 0
      <4>1. n \in 1 .. l /\ n < n + 1
        BY <3>2
      <4>2. a[n] = k + n /\ a[n] < a[n + 1] /\ a[n + 1] \in Nat
        BY <1>0, <1>2, <4>1
      <4>3. QED
        BY <4>2
    <3>3. QED
      BY <3>1, <3>2
  <2>2. PICK i \in 1 .. l : a[i] = k + (n + 1)
    <3>1. k + (n + 1) \in Nat /\ k < k + (n + 1)
      OBVIOUS
    <3>2. QED
      BY <1>0, <2>1, <3>1
  <2>3. ~(i < n + 1)
    <3>1. i < n + 1 => a[i] = k + i
      BY <1>2
    <3>2. QED
      BY <2>2, <3>1
  <2>4. ~(n + 1 < i)
    <3>1. n + 1 < i => a[n + 1] < a[i]
      BY <1>0
    <3>2. a[n + 1] \in Nat
      BY <1>0
    <3>3. QED
      BY <2>1, <2>2, <3>1, <3>2
  <2>5. i = n + 1
    BY <2>3, <2>4
  <2>6. QED
    BY <2>2, <2>5
<1>3. G \in SUBSET Nat
  OBVIOUS
<1> HIDE DEF G
<1>4. l \in G
  BY <1>1, <1>2, <1>3, SetInduction
<1>5. QED
  BY <1>4 DEF G

\* In a plan, what is before a task that can run can run.
LEMMA EarlierRuns ==
  ASSUME NEW ts, IsPlan(ts), NEW k \in Nat, 1 .. k \subseteq Positions(ts),
         NEW i \in Positions(ts), NEW j \in Positions(ts), i < j,
         Open(ts, j, 1 .. k) = {}
  PROVE  Open(ts, i, 1 .. k) = {}
<1> SUFFICES ASSUME NEW n \in Open(ts, i, 1 .. k) PROVE FALSE
  OBVIOUS
<1>1. n \in DOMAIN ts[i].deps /\ \A d \in 1 .. k : ts[d].id # ts[i].deps[n]
  BY DEF Open
<1>2. PICK d \in Positions(ts) : ts[d].id = ts[i].deps[n]
  BY <1>1 DEF IsPlan, Open
<1>3. d \in DepsIn(ts, i)
  BY <1>1, <1>2 DEF DepsIn
<1>4. PICK e \in DepsIn(ts, j) : d <= e
  BY <1>3 DEF IsPlan
<1>5. e \in 1 .. k
  BY <1>4, NothingOpen DEF IsPlan
<1>6. d \in 1 .. k
  <2>1. d \in 1 .. Len(ts)
    BY <1>2 DEF Positions
  <2>2. QED
    BY <1>4, <1>5, <2>1
<1>7. QED
  BY <1>1, <1>2, <1>6

LEMMA StepsType ==
  ASSUME NEW ts, IsPlan(ts), NEW k \in Nat, NEW st, Steps(ts, st, k)
  PROVE  /\ Len(ts) \in Nat /\ Positions(ts) = 1 .. Len(ts)
         /\ st.order \in Seq(Positions(ts)) /\ st.ready \in Seq(Positions(ts))
         /\ Len(st.order) = k /\ DOMAIN st.order = 1 .. k
         /\ Done(st) = 1 .. k /\ 1 .. k \subseteq Positions(ts)
<1>1. Len(ts) \in Nat /\ Positions(ts) = 1 .. Len(ts)
  BY DEF IsPlan, Listed, Positions
<1>2. st.order \in Seq(Positions(ts)) /\ st.ready \in Seq(Positions(ts))
  BY DEF Steps, LoopInv, LoopType
<1>3. Len(st.order) = k /\ DOMAIN st.order = 1 .. k /\ \A m \in 1 .. k : st.order[m] = m
  BY DEF Steps, InPlace
<1>4. Done(st) = 1 .. k
  BY <1>3 DEF Done
<1>5. \A m \in 1 .. k : m \in Positions(ts)
  BY <1>2, <1>3
<1>6. QED
  BY <1>1, <1>2, <1>3, <1>4, <1>5

LEMMA PlanStart ==
  ASSUME NEW ts, IsPlan(ts)
  PROVE  Steps(ts, Roots(ts), 0)
<1> DEFINE P == Positions(ts)
           free == {i \in P : ts[i].deps = <<>>}
           q == Ascending(free)
<1>1. Listed(ts) /\ Len(ts) \in Nat /\ P = 1 .. Len(ts)
  BY DEF IsPlan, Listed, Positions
<1>2. LoopInv(ts, Roots(ts))
  BY <1>1, LoopStart
<1>3. Roots(ts).order = <<>> /\ Roots(ts).ready = q
  BY DEF Roots
<1>4. Roots(ts).order = InPlace(0)
  BY <1>3 DEF InPlace
<1>5. q \in Seq(free) /\ InOrder(q) /\ \A i \in free : \E n \in 1 .. Len(q) : q[n] = i
  BY <1>1, AscendingLists
<1>6. PICK l \in Nat : l = Len(q) /\ DOMAIN q = 1 .. l
  <2>1. q \in Seq(free)
    BY <1>5
  <2> HIDE DEF q
  <2>2. Len(q) \in Nat /\ DOMAIN q = 1 .. Len(q)
    BY <2>1
  <2>3. QED
    BY <2>2
<1>7. \A j \in 1 .. l : q[j] \in free
  BY <1>5, <1>6
<1>8. Queue(Roots(ts)) = q
  BY <1>3, <1>5 DEF Queue
<1>9. \A i \in P : i \in free <=> Open(ts, i, 1 .. 0) = {}
  <2>1. 1 .. 0 = {}
    OBVIOUS
  <2>2. ASSUME NEW i \in P PROVE ts[i].deps = <<>> <=> Open(ts, i, {}) = {}
    BY <1>1, ListedType, OpenCount
  <2>3. QED
    BY <2>1, <2>2
<1> HIDE DEF q
<1>10. ASSUME NEW j \in 1 .. l, NEW x \in Nat, 0 < x, x <= q[j]
       PROVE  \E i \in 1 .. l : q[i] = x
  <2>1. q[j] \in P /\ Open(ts, q[j], 1 .. 0) = {}
    BY <1>7, <1>9
  <2>2. x \in P
    BY <1>1, <1>10, <2>1
  <2>3. Open(ts, x, 1 .. 0) = {}
    <3>1. 1 .. 0 \subseteq P
      OBVIOUS
    <3>2. x = q[j] \/ x < q[j]
      BY <1>1, <1>10, <2>1
    <3>3. CASE x < q[j]
      <4>1. 0 \in Nat
        OBVIOUS
      <4>2. QED
        BY <2>1, <2>2, <3>1, <3>3, <4>1, EarlierRuns, Zenon
    <3>4. QED
      BY <2>1, <3>2, <3>3
  <2>4. QED
    BY <1>5, <1>6, <1>9, <2>2, <2>3
<1>11. \A j \in 1 .. l : q[j] = 0 + j
  <2>1. \A j \in 1 .. l : q[j] \in Nat /\ q[j] > 0
    BY <1>1, <1>7
  <2>2. \A i, j \in 1 .. l : i < j => q[i] < q[j]
    BY <1>5, <1>6 DEF InOrder
  <2>3. Gapless(q, l, 0) /\ 0 \in Nat
    BY <1>10, <2>1, <2>2 DEF Gapless
  <2>4. QED
    BY <2>3, Consecutive, Zenon
<1>12. \A m \in DOMAIN Queue(Roots(ts)) : Queue(Roots(ts))[m] = m
  BY <1>6, <1>8, <1>11
<1>13. QED
  BY <1>2, <1>4, <1>12 DEF Steps

LEMMA PlanStep ==
  ASSUME NEW ts, IsPlan(ts), NEW k \in Nat, NEW st, Steps(ts, st, k), st.ready # <<>>
  PROVE  /\ Head(st.ready) = k + 1
         /\ k + 1 \in Positions(ts)
         /\ Steps(ts, Visit(ts, st), k + 1)
<1> DEFINE P == Positions(ts)
           q == Queue(st)
           nx == Visit(ts, st)
           p == Queue(nx)
<1>1. /\ Listed(ts) /\ LoopInv(ts, st)
      /\ Len(ts) \in Nat /\ P = 1 .. Len(ts)
      /\ st.order \in Seq(P) /\ st.ready \in Seq(P)
      /\ Len(st.order) = k /\ DOMAIN st.order = 1 .. k
      /\ Done(st) = 1 .. k /\ 1 .. k \subseteq P
  BY StepsType DEF IsPlan, Steps
<1>2. Head(st.ready) = k + 1 /\ k + 1 \in P
  <2>1. st.order \in Seq(P) /\ st.ready \in Seq(P) /\ <<>> \in Seq(P)
    BY <1>1
  <2>2. HeadMoves(P, st.order, st.ready, <<>>)
    BY <2>1, QueueVisited, Zenon
  <2>3. q[k + 1] = Head(st.ready) /\ k + 1 \in DOMAIN q /\ Head(st.ready) \in P
    BY <1>1, <2>2, Zenon DEF HeadMoves, Queue
  <2>4. q[k + 1] = k + 1
    BY <2>3 DEF Steps
  <2>5. QED
    BY <2>3, <2>4
<1>3. LoopInv(ts, nx)
  BY <1>1, LoopStep
<1>4. PICK v \in P, a \in Seq(P), o, l, c \in Nat : VisitEffect(ts, st, nx, v, a, o, l, c)
  BY <1>1, VisitQueue
<1> HIDE DEF nx
<1>5. /\ o = k /\ DOMAIN q = 1 .. c /\ k + 1 <= c
      /\ DOMAIN nx.order = 1 .. (k + 1)
      /\ \A m \in 1 .. k : nx.order[m] = q[m]
      /\ nx.order[k + 1] = q[k + 1]
      /\ Done(nx) = 1 .. k \cup {q[k + 1]}
      /\ DOMAIN p = 1 .. (c + l)
      /\ \A m \in 1 .. c : p[m] = q[m]
      /\ \A m \in 1 .. l : p[c + m] = a[m] /\ a[m] \in P
      /\ \A m, n \in 1 .. l : m < n => a[m] < a[n]
      /\ \A i \in P : (\E m \in 1 .. l : a[m] = i) <=>
                        Open(ts, i, Done(st)) # {} /\ Open(ts, i, Done(nx)) = {}
  BY <1>1, <1>4 DEF VisitEffect
<1>6. \A m \in 1 .. c : q[m] = m
  BY <1>5 DEF Steps
<1> HIDE DEF p, q
<1>7. Done(nx) = 1 .. (k + 1) /\ 1 .. (k + 1) \subseteq P
  <2>1. q[k + 1] = k + 1
    BY <1>5, <1>6
  <2>2. QED
    BY <1>1, <1>2, <1>5, <2>1
<1>8. nx.order = InPlace(k + 1)
  <2>1. nx.order \in Seq(P)
    BY <1>3 DEF LoopInv, LoopType
  <2>2. \A m \in 1 .. (k + 1) : nx.order[m] = m
    BY <1>5, <1>6
  <2>3. nx.order = [m \in 1 .. (k + 1) |-> nx.order[m]]
    BY <1>5, <2>1
  <2>4. QED
    BY <2>2, <2>3 DEF InPlace
\* The tasks in the queue are those that can run.
<1>9. \A i \in P : Open(ts, i, Done(st)) = {} <=> i \in 1 .. c
  <2>1. \A i \in P : Open(ts, i, Done(st)) = {} <=> \E m \in 1 .. c : q[m] = i
    BY <1>1, <1>5 DEF LoopInv, Queued, q
  <2>2. QED
    BY <1>6, <2>1
<1>10. \A j \in 1 .. l : a[j] \in Nat /\ a[j] > c
  <2> TAKE j \in 1 .. l
  <2>1. a[j] \in P /\ Open(ts, a[j], Done(st)) # {}
    BY <1>5
  <2>2. a[j] \notin 1 .. c
    BY <1>9, <2>1
  <2>3. QED
    BY <1>1, <2>1, <2>2
<1>11. ASSUME NEW j \in 1 .. l, NEW x \in Nat, c < x, x <= a[j]
       PROVE  \E i \in 1 .. l : a[i] = x
  <2>1. a[j] \in P /\ Open(ts, a[j], 1 .. (k + 1)) = {}
    BY <1>5, <1>7
  <2>2. x \in P
    BY <1>1, <1>11, <2>1
  <2>3. Open(ts, x, 1 .. (k + 1)) = {}
    <3>1. x = a[j] \/ x < a[j]
      BY <1>1, <1>11, <2>1
    <3>2. CASE x < a[j]
      <4>1. k + 1 \in Nat
        OBVIOUS
      <4>2. QED
        BY <1>7, <2>1, <2>2, <3>2, <4>1, EarlierRuns, Zenon
    <3>3. QED
      BY <2>1, <3>1, <3>2
  <2>4. Open(ts, x, Done(st)) # {}
    BY <1>9, <1>11, <2>2
  <2>5. QED
    BY <1>5, <1>7, <2>2, <2>3, <2>4
<1>12. \A j \in 1 .. l : a[j] = c + j
  <2>1. Gapless(a, l, c)
    BY <1>5, <1>10, <1>11 DEF Gapless
  <2>2. QED
    BY <2>1, Consecutive, Zenon
<1>13. \A m \in DOMAIN p : p[m] = m
  <2> SUFFICES ASSUME NEW m \in 1 .. (c + l) PROVE p[m] = m
    BY <1>5
  <2>1. CASE m <= c
    BY <1>5, <1>6, <2>1
  <2>2. CASE m > c
    <3>1. m - c \in 1 .. l /\ m = c + (m - c)
      BY <2>2
    <3>2. p[m] = a[m - c]
      BY <1>5, <3>1
    <3>3. QED
      BY <1>12, <3>1, <3>2
  <2>3. QED
    BY <2>1, <2>2
<1>14. Steps(ts, nx, k + 1)
  BY <1>3, <1>8, <1>13 DEF Steps, p
<1>15. QED
  BY <1>2, <1>14 DEF nx

LEMMA PlanEnd ==
  ASSUME NEW ts, IsPlan(ts), NEW k \in Nat, NEW st, Steps(ts, st, k), st.ready = <<>>
  PROVE  k = Len(ts)
<1>1. /\ Len(ts) \in Nat /\ Positions(ts) = 1 .. Len(ts)
      /\ st.order \in Seq(Positions(ts)) /\ DOMAIN st.order = 1 .. k
      /\ Done(st) = 1 .. k /\ 1 .. k \subseteq Positions(ts)
  BY StepsType
<1>2. k <= Len(ts)
  <2>1. k = 0 \/ k \in 1 .. k
    OBVIOUS
  <2>2. QED
    BY <1>1, <2>1
<1>3. ASSUME k < Len(ts) PROVE FALSE
  <2>1. k + 1 \in Positions(ts)
    BY <1>1, <1>3
  <2>2. Open(ts, k + 1, 1 .. k) = {}
    <3> SUFFICES ASSUME NEW n \in Open(ts, k + 1, 1 .. k) PROVE FALSE
      OBVIOUS
    <3>1. PICK d \in Positions(ts) : ts[d].id = ts[k + 1].deps[n]
      BY <2>1 DEF IsPlan, Open
    <3>2. d < k + 1
      BY <2>1, <3>1 DEF IsPlan, DepsIn, Open
    <3>3. d \in 1 .. k
      BY <1>1, <3>1, <3>2
    <3>4. QED
      BY <3>1, <3>3 DEF Open
  <2>3. Queue(st) = st.order
    BY <1>1 DEF Queue
  <2>4. PICK m \in 1 .. k : Queue(st)[m] = k + 1
    BY <1>1, <2>1, <2>2, <2>3 DEF Steps, LoopInv, Queued
  <2>5. Queue(st)[m] = m
    BY <1>1, <2>3 DEF Steps
  <2>6. QED
    BY <2>4, <2>5
<1>4. QED
  BY <1>1, <1>2, <1>3

LEMMA PlanMade ==
  ASSUME NEW ts, Listed(ts), Ordered(ts).error = "none",
         NEW p, p = [n \in DOMAIN Ordered(ts).order |-> ts[Ordered(ts).order[n]]]
  PROVE  IsPlan(p) /\ Len(p) = Len(ts)
<1> DEFINE T == [id : Id, deps : Deps]
<1>1. PICK o : o = KahnOrder(ts)
  OBVIOUS
<1>2. Ordering(ts, o)
  BY <1>1, OrderLeft
<1>3. Ordered(ts).order = o /\ Len(o) = Len(ts) /\ ~UnknownDependency(ts)
  BY <1>1 DEF Ordered
<1>4. PICK N \in Nat : N = Len(ts)
  BY DEF Listed
<1>5. DOMAIN o = 1 .. N /\ Positions(ts) = 1 .. N
  BY <1>2, <1>3, <1>4 DEF Ordering, Positions
<1>6. \A n \in 1 .. N : o[n] \in 1 .. N
  BY <1>2, <1>5 DEF Ordering
<1>7. \A i \in 1 .. N : \E n \in 1 .. N : o[n] = i
  <2>1. {o[n] : n \in DOMAIN o} = Positions(ts)
    BY <1>2, <1>3, OrderLength
  <2>2. QED
    BY <1>5, <2>1
<1>8. p = [n \in 1 .. N |-> ts[o[n]]]
  BY <1>3, <1>5
<1>9. \A i \in 1 .. N : ts[i] \in T
  <2>1. ts \in Seq(T)
    BY DEF Listed
  <2> HIDE DEF T
  <2>2. QED
    BY <1>4, <2>1
<1> HIDE DEF T
<1>10. p \in Seq(T) /\ Len(p) = N /\ Positions(p) = 1 .. N
  BY <1>6, <1>8, <1>9 DEF Positions
<1>11. \A n \in 1 .. N : p[n] = ts[o[n]]
  BY <1>8
<1>12. Listed(p)
  <2>1. ASSUME NEW i \in 1 .. N, NEW j \in 1 .. N, p[i].id = p[j].id PROVE i = j
    <3>1. ts[o[i]].id = ts[o[j]].id
      BY <1>11, <2>1
    <3>2. o[i] = o[j]
      BY <1>5, <1>6, <3>1 DEF Listed
    <3>3. QED
      BY <1>2, <1>5, <3>2 DEF Ordering
  <2>2. QED
    BY <1>10, <2>1 DEF Listed, T
<1>13. ASSUME NEW n \in 1 .. N, NEW m \in 1 .. N
       PROVE  m \in DepsIn(p, n) <=> o[m] \in DepsIn(ts, o[n])
  <2>1. p[n] = ts[o[n]] /\ p[m] = ts[o[m]] /\ o[m] \in 1 .. N
    BY <1>6, <1>11
  <2>2. m \in DepsIn(p, n) <=> \E x \in DOMAIN p[n].deps : p[n].deps[x] = p[m].id
    BY <1>10 DEF DepsIn
  <2>3. o[m] \in DepsIn(ts, o[n]) <=>
          \E x \in DOMAIN ts[o[n]].deps : ts[o[n]].deps[x] = ts[o[m]].id
    BY <1>5, <2>1 DEF DepsIn
  <2>4. QED
    BY <2>1, <2>2, <2>3
<1>14. \A n \in 1 .. N : DepsIn(p, n) \subseteq 1 .. N
  BY <1>10 DEF DepsIn
<1>15. ASSUME NEW i \in 1 .. N, NEW x \in Open(p, i, 1 .. N) PROVE FALSE
  <2>1. x \in DOMAIN ts[o[i]].deps /\ \A d \in 1 .. N : ts[o[d]].id # ts[o[i]].deps[x]
    BY <1>11 DEF Open
  <2>2. ts[o[i]].deps[x] \in IdsOf(ts)
    BY <1>3, <1>5, <1>6, <2>1 DEF UnknownDependency
  <2>3. PICK d \in 1 .. N : ts[o[i]].deps[x] = ts[d].id
    BY <1>5, <2>2 DEF IdsOf
  <2>4. PICK m \in 1 .. N : o[m] = d
    BY <1>7
  <2>5. QED
    BY <2>1, <2>3, <2>4
<1>16. ASSUME NEW i \in 1 .. N, NEW d \in DepsIn(p, i) PROVE d < i
  <2>1. d \in 1 .. N /\ o[d] \in DepsIn(ts, o[i])
    BY <1>13, <1>14
  <2>2. PICK e \in 1 .. N : e < i /\ o[e] = o[d]
    BY <1>2, <1>5, <2>1 DEF Ordering
  <2>3. e = d
    BY <1>2, <1>5, <2>1, <2>2 DEF Ordering
  <2>4. QED
    BY <2>2, <2>3
<1>17. ASSUME NEW i \in 1 .. N, NEW j \in 1 .. N, NEW d \in DepsIn(p, i), i < j
       PROVE  \E e \in DepsIn(p, j) : d <= e
  <2>1. d \in 1 .. N /\ o[d] \in DepsIn(ts, o[i])
    BY <1>13, <1>14
  <2>2. PICK y \in 1 .. N : d <= y /\ o[y] \in DepsIn(ts, o[j])
    BY <1>2, <1>5, <1>17, <2>1 DEF Ordering
  <2>3. QED
    BY <1>13, <2>2
<1>18. \A i \in 1 .. N : Open(p, i, 1 .. N) = {}
  BY <1>15
<1>19. QED
  BY <1>4, <1>10, <1>12, <1>16, <1>17, <1>18 DEF IsPlan

-----------------------------------------------------------------------------
(* The serial path of run().                                               *)

\* Its counters, its queue and what it has executed, as a state of the loop
\* that made the plan.
LoopState(k) ==
  [indegree |-> remaining, ready |-> readyQueue, order |-> InPlace(k)]

Progress(k) == completed = 1 .. k /\ Steps(plan, LoopState(k), k)

RunInv ==
  /\ Listed(tasks)
  /\ phase = "built" => outcome = "none" /\ completed = {}
  /\ Under => /\ IsPlan(plan)
              /\ Size <= MaxRun
              /\ outcome = "none"
              /\ \E k \in Nat : Progress(k)
  /\ phase \in {"executing", "unprepared", "failed"} => readyQueue # <<>>

LEMMA RunInvInit == SerialInit => RunInv
  BY ListedStart DEF SerialInit, RunInv, Under

LEMMA BuildKeeps ==
  ASSUME RunInv, Build
  PROVE  RunInv'
<1>1. /\ Listed(tasks) /\ Ordered(tasks).error = "none" /\ Len(tasks) <= MaxRun
      /\ tasks' = tasks /\ phase' = "ready" /\ outcome' = "none"
      /\ completed' = completed
  BY DEF Build, RunInv
<1>2. PICK ts : ts = plan'
  OBVIOUS
<1>3. /\ ts = [n \in DOMAIN Ordered(tasks).order |-> tasks[Ordered(tasks).order[n]]]
      /\ remaining' = [n \in Positions(ts) |-> Len(ts[n].deps)]
      /\ readyQueue' = Ascending({n \in Positions(ts) : ts[n].deps = <<>>})
  BY <1>2 DEF Build
<1>4. IsPlan(ts) /\ Len(ts) = Len(tasks)
  BY <1>1, <1>3, PlanMade
<1>5. Steps(ts, Roots(ts), 0)
  BY <1>4, PlanStart
<1>6. LoopState(0)' = Roots(ts)
  <2>1. InPlace(0) = <<>>
    BY DEF InPlace
  <2>2. QED
    BY <1>3, <2>1, Zenon DEF LoopState, Roots
<1>7. completed' = 1 .. 0
  <2>1. 1 .. 0 = {}
    OBVIOUS
  <2>2. completed = {}
    BY DEF RunInv, Build
  <2>3. QED
    BY <1>1, <2>1, <2>2
<1>8. Progress(0)'
  BY <1>2, <1>5, <1>6, <1>7 DEF Progress
<1>9. (\E k \in Nat : Progress(k))'
  <2>1. 0 \in Nat
    OBVIOUS
  <2>2. QED
    BY <1>8, <2>1
<1>10. IsPlan(plan)' /\ Size' <= MaxRun /\ Listed(tasks)'
  BY <1>1, <1>2, <1>4 DEF Size
<1>11. QED
  BY <1>1, <1>9, <1>10 DEF RunInv, Under

LEMMA ProgressKnown ==
  ASSUME RunInv, Under
  PROVE  \E k \in Nat : /\ k = Cardinality(completed)
                        /\ completed = 1 .. k
                        /\ k <= Size
                        /\ readyQueue # <<>> => Head(readyQueue) = k + 1 /\ k < Size
                        /\ readyQueue = <<>> => k = Size
<1>1. IsPlan(plan)
  BY DEF RunInv
<1>2. PICK k \in Nat : Progress(k)
  BY DEF RunInv
<1>3. PICK st : st = LoopState(k)
  OBVIOUS
<1>4. st.ready = readyQueue /\ Steps(plan, st, k) /\ completed = 1 .. k
  BY <1>2, <1>3 DEF Progress, LoopState
<1>5. Cardinality(completed) = k
  BY <1>4, IntervalCount
<1>6. Size \in Nat /\ Positions(plan) = 1 .. Size
  BY <1>1, <1>4, StepsType DEF Size
<1>7. readyQueue # <<>> => Head(readyQueue) = k + 1 /\ k < Size
  <2> SUFFICES ASSUME readyQueue # <<>> PROVE Head(readyQueue) = k + 1 /\ k < Size
    OBVIOUS
  <2>1. Head(st.ready) = k + 1 /\ k + 1 \in Positions(plan)
    BY <1>1, <1>4, PlanStep
  <2>2. QED
    BY <1>4, <1>6, <2>1
<1>8. readyQueue = <<>> => k = Size
  BY <1>1, <1>4, PlanEnd DEF Size
<1>9. QED
  BY <1>4, <1>5, <1>6, <1>7, <1>8

\* The counters of the serial path never count below zero, so that it counts
\* as the loop that made the plan does.
LEMMA ExecutedVisits ==
  ASSUME IsPlan(plan), Executed, NEW k \in Nat, Progress(k), readyQueue # <<>>
  PROVE  LoopState(k + 1)' = Visit(plan, LoopState(k))
<1> DEFINE st == LoopState(k)
           P == Positions(plan)
<1>1. /\ st.indegree = remaining /\ st.ready = readyQueue /\ st.order = InPlace(k)
      /\ st.ready # <<>>
  BY DEF LoopState
<1>2. Steps(plan, st, k) /\ completed = 1 .. k
  BY DEF Progress
<1>3. PICK t : t = Head(readyQueue)
  OBVIOUS
<1>4. t = k + 1 /\ k + 1 \in P
  BY <1>1, <1>2, <1>3, PlanStep
<1>5. Done(st) = 1 .. k /\ 1 .. k \subseteq P /\ P = 1 .. Size
  BY <1>2, StepsType DEF Size
<1> HIDE DEF st
<1>6. ASSUME NEW n \in P
      PROVE  /\ Lists(plan, n, plan[t].id) \in Nat
             /\ remaining[n] \in Nat /\ remaining[n] >= Lists(plan, n, plan[t].id)
  <2>1. remaining[n] = Cardinality(Open(plan, n, 1 .. k))
    BY <1>1, <1>2, <1>5 DEF Steps, LoopInv, Counted
  <2>2. k + 1 \in P \ (1 .. k)
    BY <1>4
  <2>3. Listed(plan)
    BY DEF IsPlan
  <2>4. /\ Lists(plan, n, plan[k + 1].id) \in Nat
        /\ Cardinality(Open(plan, n, 1 .. k)) =
             Cardinality(Open(plan, n, 1 .. k \cup {k + 1})) + Lists(plan, n, plan[k + 1].id)
    BY <1>5, <2>2, <2>3, OpenLess
  <2>5. /\ Cardinality(Open(plan, n, 1 .. k)) \in Nat
        /\ Cardinality(Open(plan, n, 1 .. k \cup {k + 1})) \in Nat
    BY <2>3, OpenCount
  <2>6. QED
    BY <1>4, <2>1, <2>4, <2>5
<1>7. remaining' = [n \in P |-> remaining[n] - Lists(plan, n, plan[t].id)]
  <2>1. remaining' = [n \in P |-> IF remaining[n] > Lists(plan, n, plan[t].id)
                                  THEN remaining[n] - Lists(plan, n, plan[t].id)
                                  ELSE 0]
    BY <1>3, <1>5 DEF Executed, TimesListed
  <2>2. \A n \in P : (IF remaining[n] > Lists(plan, n, plan[t].id)
                      THEN remaining[n] - Lists(plan, n, plan[t].id) ELSE 0)
                     = remaining[n] - Lists(plan, n, plan[t].id)
    BY <1>6
  <2>3. QED
    BY <2>1, <2>2, Zenon
<1>8. {n \in P : /\ Lists(plan, n, plan[t].id) > 0
                 /\ remaining[n] > 0
                 /\ remaining[n] <= Lists(plan, n, plan[t].id)}
      = {n \in P : /\ Lists(plan, n, plan[t].id) > 0
                   /\ remaining[n] = Lists(plan, n, plan[t].id)}
  BY <1>6
<1>9. readyQueue' = Tail(readyQueue) \o
        Ascending({n \in P : /\ Lists(plan, n, plan[t].id) > 0
                             /\ remaining[n] = Lists(plan, n, plan[t].id)})
  BY <1>3, <1>5, <1>8 DEF Executed, TimesListed
<1>10. InPlace(k + 1) = Append(InPlace(k), t)
  BY <1>4 DEF InPlace
<1>11. LoopState(k + 1)' =
         [ indegree |-> remaining', ready |-> readyQueue', order |-> InPlace(k + 1) ]
  BY DEF LoopState
<1>12. Visit(plan, st) =
         [ indegree |-> [n \in P |-> remaining[n] - Lists(plan, n, plan[t].id)],
           ready |-> Tail(readyQueue) \o
             Ascending({n \in P : /\ Lists(plan, n, plan[t].id) > 0
                                  /\ remaining[n] = Lists(plan, n, plan[t].id)}),
           order |-> Append(InPlace(k), t) ]
  BY <1>1, <1>3, Zenon DEF Visit
<1>13. QED
  BY <1>7, <1>9, <1>10, <1>11, <1>12, Zenon DEF st

LEMMA ExecutedKeeps ==
  ASSUME RunInv, Executed
  PROVE  RunInv'
<1>1. /\ phase = "executing" /\ phase' = "ready" /\ plan' = plan
      /\ tasks' = tasks /\ outcome' = outcome
      /\ completed' = completed \cup {Head(readyQueue)}
  BY DEF Executed
<1>2. /\ Listed(tasks) /\ IsPlan(plan) /\ Size <= MaxRun /\ outcome = "none"
      /\ readyQueue # <<>>
  BY <1>1 DEF RunInv, Under
<1>3. PICK k \in Nat : Progress(k)
  BY <1>1 DEF RunInv, Under
<1>4. LoopState(k + 1)' = Visit(plan, LoopState(k))
  BY <1>2, <1>3, ExecutedVisits
<1>5. Head(readyQueue) = k + 1 /\ Steps(plan, LoopState(k + 1)', k + 1)
  <2>1. PICK st : st = LoopState(k)
    OBVIOUS
  <2>2. Steps(plan, st, k) /\ st.ready = readyQueue
    BY <1>3, <2>1 DEF Progress, LoopState
  <2>3. Head(st.ready) = k + 1 /\ Steps(plan, Visit(plan, st), k + 1)
    BY <1>2, <2>2, PlanStep
  <2>4. QED
    BY <1>4, <2>1, <2>2, <2>3
<1>6. completed' = 1 .. (k + 1)
  <2>1. completed = 1 .. k
    BY <1>3 DEF Progress
  <2>2. QED
    BY <1>1, <1>5, <2>1
<1>7. Progress(k + 1)'
  BY <1>1, <1>5, <1>6 DEF Progress
<1>8. (\E n \in Nat : Progress(n))'
  <2>1. k + 1 \in Nat
    OBVIOUS
  <2>2. QED
    BY <1>7, <2>1
<1>9. IsPlan(plan)' /\ Size' <= MaxRun /\ Listed(tasks)'
  BY <1>1, <1>2 DEF Size
<1>10. QED
  BY <1>1, <1>2, <1>8, <1>9 DEF RunInv, Under

LEMMA QuietKeeps ==
  ASSUME RunInv, Take \/ ExecutionFails
  PROVE  RunInv'
<1>1. /\ UNCHANGED <<tasks, plan, remaining, readyQueue, completed, outcome>>
      /\ Under /\ Under' /\ phase' \in {"executing", "unprepared", "failed"}
      /\ readyQueue # <<>>
  BY DEF Take, ExecutionFails, Under, RunInv
<1>2. \A k \in Nat : Progress(k)' <=> Progress(k)
  BY <1>1 DEF Progress, LoopState
<1>3. (\E k \in Nat : Progress(k))'
  BY <1>1, <1>2 DEF RunInv
<1>4. IsPlan(plan)' /\ Size' <= MaxRun /\ Listed(tasks)' /\ outcome' = "none"
  BY <1>1 DEF RunInv, Size
<1>5. phase' # "built"
  BY <1>1
<1>6. QED
  BY <1>1, <1>3, <1>4, <1>5 DEF RunInv

LEMMA ReturnKeeps ==
  ASSUME RunInv, Reject \/ ReturnError \/ ReturnResult
  PROVE  RunInv'
<1>1. phase' = "returned" /\ tasks' = tasks
  BY DEF Reject, ReturnError, ReturnResult
<1>2. QED
  BY <1>1 DEF RunInv, Under

LEMMA AddKeeps ==
  ASSUME RunInv, phase = "built", Next, UNCHANGED run
  PROVE  RunInv'
<1>1. Listed(tasks)'
  BY ListedKept DEF RunInv, Listed, Positions
<1>2. phase' = "built" /\ outcome' = outcome /\ completed' = completed
  BY DEF run
<1>3. QED
  BY <1>1, <1>2 DEF RunInv, Under

LEMMA RunInvNext == RunInv /\ [SerialNext]_vars => RunInv'
<1> SUFFICES ASSUME RunInv, [SerialNext]_vars PROVE RunInv'
  OBVIOUS
<1>1. CASE phase = "built" /\ Next /\ UNCHANGED run
  BY <1>1, AddKeeps
<1>2. CASE Build
  BY <1>2, BuildKeeps
<1>3. CASE Reject \/ ReturnError \/ ReturnResult
  BY <1>3, ReturnKeeps
<1>4. CASE Take \/ ExecutionFails
  BY <1>4, QuietKeeps
<1>5. CASE Executed
  BY <1>5, ExecutedKeeps
<1>6. CASE UNCHANGED vars
  <2>1. UNCHANGED <<tasks, phase, plan, remaining, readyQueue, completed, outcome>>
    BY <1>6 DEF vars, run
  <2>2. \A k \in Nat : Progress(k)' <=> Progress(k)
    BY <2>1 DEF Progress, LoopState
  <2>3. QED
    BY <2>1, <2>2 DEF RunInv, Under, Size
<1>7. QED
  BY <1>1, <1>2, <1>3, <1>4, <1>5, <1>6 DEF SerialNext

\* At every moment the serial path is where the loop of orderedTasks would be,
\* had it been given the plan: the same counters, the same queue.
THEOREM RunInductive == SerialSpec => []RunInv
<1>1. QED
  BY RunInvInit, RunInvNext, PTL DEF SerialSpec

\* The serial path, with counters and a queue of its own that it fills again
\* from the plan, executes the tasks of any graph in exactly the order of the
\* plan, one place after the other, and stops only at its end.
THEOREM PlanFollowed == SerialSpec => []FollowsPlan
<1>1. RunInv => FollowsPlan
  <2> SUFFICES ASSUME RunInv, phase \in {"ready", "executing"}
               PROVE  LET k == Cardinality(completed)
                      IN  /\ completed = 1 .. k
                          /\ readyQueue # <<>> => Head(readyQueue) = k + 1
                          /\ readyQueue = <<>> => k = Size
    BY DEF FollowsPlan
  <2>1. Under
    BY DEF Under
  <2>2. QED
    BY <2>1, ProgressKnown
<1>2. QED
  BY <1>1, RunInductive, PTL

-----------------------------------------------------------------------------
(* The promise of TaskGraphRun.tla, action by action.                      *)

graphMap == [r \in {Call} |-> IF Under THEN GraphOfPlan ELSE NoGraph]
statusMap == [r \in {Call} |-> [n \in Places |-> StatusOf(n)]]
faultMap == [r \in {Call} |-> phase \in {"unprepared", "failed"}]
outcomeMap == [r \in {Call} |-> outcome]
promiseVars == <<graphMap, statusMap, faultMap, outcomeMap>>

LEMMA PlanIsGraph ==
  ASSUME NEW p, Len(p) \in Nat, Len(p) <= MaxRun
  PROVE  [ tasks |-> 1 .. Len(p),
           needs |-> [n \in Places |->
                        IF n <= Len(p) THEN {d \in 1 .. Len(p) : Lists(p, n, p[d].id) > 0}
                        ELSE {}] ] \in Graphs
<1>1. 1 .. Len(p) \subseteq Places
  BY MaxRunAssumption DEF Places
<1>2. [n \in Places |->
         IF n <= Len(p) THEN {d \in 1 .. Len(p) : Lists(p, n, p[d].id) > 0} ELSE {}]
      \in [Places -> SUBSET Places]
  BY <1>1
<1>3. QED
  BY <1>1, <1>2 DEF Graphs

\* What is known of a graph that is being run.
LEMMA UnderGraph ==
  ASSUME RunInv, Under
  PROVE  /\ GraphOfPlan \in Graphs
         /\ graphMap[Call] = GraphOfPlan /\ graphMap[Call] # NoGraph
         /\ GraphOfPlan.tasks = 1 .. Size
         /\ Size \in Nat /\ 1 .. Size \subseteq Places
         /\ \A n \in 1 .. Size : GraphOfPlan.needs[n] = Needs(n)
<1>1. Size \in Nat /\ Size <= MaxRun
  BY DEF RunInv, IsPlan, Listed, Size
<1>2. 1 .. Size \subseteq Places /\ Places = 1 .. MaxRun
  BY <1>1, MaxRunAssumption DEF Places
<1>3. GraphOfPlan =
        [tasks |-> 1 .. Size, needs |-> [n \in Places |-> IF n <= Size THEN Needs(n) ELSE {}]]
  BY DEF GraphOfPlan
<1>4. GraphOfPlan \in Graphs
  BY <1>1, <1>3, PlanIsGraph DEF Size, Needs, TimesListed
<1>5. \A n \in 1 .. Size : n \in Places /\ n <= Size
  BY <1>1, <1>2
<1>6. \A n \in 1 .. Size : GraphOfPlan.needs[n] = Needs(n)
  BY <1>3, <1>5
<1>7. graphMap[Call] = GraphOfPlan
  BY DEF graphMap
<1>8. GraphOfPlan # NoGraph
  BY <1>4, NoGraphAssumption
<1>9. QED
  BY <1>1, <1>2, <1>3, <1>4, <1>6, <1>7, <1>8

\* A step that leaves the plan alone.
LEMMA GraphSame ==
  ASSUME UNCHANGED plan, Under, Under'
  PROVE  graphMap' = graphMap
  BY DEF graphMap, GraphOfPlan, Size, Needs, TimesListed

LEMMA StatusMoves ==
  ASSUME NEW t \in Places, NEW s, StatusOf(t)' = s,
         \A n \in Places \ {t} : StatusOf(n)' = StatusOf(n)
  PROVE  statusMap' = [statusMap EXCEPT ![Call][t] = s]
<1>1. [n \in Places |-> StatusOf(n)'] = [[n \in Places |-> StatusOf(n)] EXCEPT ![t] = s]
  OBVIOUS
<1>2. QED
  BY <1>1 DEF statusMap

LEMMA StatusSame ==
  ASSUME \A n \in Places : StatusOf(n)' = StatusOf(n)
  PROVE  statusMap' = statusMap
  BY DEF statusMap

\* The head of the queue, and what has been executed before it.
LEMMA HeadKnown ==
  ASSUME RunInv, Under, readyQueue # <<>>
  PROVE  /\ Head(readyQueue) \in 1 .. Size /\ Head(readyQueue) \notin completed
         /\ Needs(Head(readyQueue)) \subseteq completed
         /\ completed \subseteq 1 .. Size
<1>1. PICK k \in Nat : /\ completed = 1 .. k /\ k <= Size
                       /\ Head(readyQueue) = k + 1 /\ k < Size
  BY ProgressKnown
<1>2. Size \in Nat
  BY UnderGraph
<1>3. ASSUME NEW d \in Needs(k + 1) PROVE d \in 1 .. k
  <2>1. d \in 1 .. Size /\ Lists(plan, k + 1, plan[d].id) > 0
    BY DEF Needs, TimesListed
  <2>2. /\ Listed(plan) /\ Positions(plan) = 1 .. Size
        /\ \A i \in Positions(plan) : \A e \in DepsIn(plan, i) : e < i
    BY DEF RunInv, IsPlan, Positions, Size
  <2>3. k + 1 \in Positions(plan) /\ d \in Positions(plan) \ {} /\ {} \in SUBSET Positions(plan)
    BY <1>1, <1>2, <2>1, <2>2
  <2>4. Lists(plan, k + 1, plan[d].id) > 0 <=> d \in DepsIn(plan, k + 1)
    BY <2>2, <2>3, OpenLess, Zenon
  <2>5. d < k + 1
    BY <2>1, <2>2, <2>3, <2>4
  <2>6. QED
    BY <2>1, <2>5
<1>4. QED
  BY <1>1, <1>2, <1>3

LEMMA BuildBegins ==
  ASSUME RunInv, Build
  PROVE  Promise!Begin(Call)
<1>1. /\ phase = "built" /\ phase' = "ready" /\ outcome' = outcome
      /\ completed' = completed
  BY DEF Build
<1>2. outcome = "none" /\ completed = {}
  BY <1>1 DEF RunInv
<1>3. ~Under /\ Under' /\ RunInv'
  BY <1>1, BuildKeeps DEF Under
<1>4. GraphOfPlan' \in Graphs
  <2>1. Len(plan') \in Nat /\ Len(plan') <= MaxRun
    BY <1>3 DEF RunInv, IsPlan, Listed, Size
  <2>2. QED
    BY <2>1, PlanIsGraph DEF GraphOfPlan, Size, Needs, TimesListed
<1>5. graphMap = [r \in {Call} |-> NoGraph] /\ graphMap' = [r \in {Call} |-> GraphOfPlan']
  BY <1>3 DEF graphMap
<1>6. statusMap' = statusMap
  <2>1. \A n \in Places : StatusOf(n)' = StatusOf(n)
    BY <1>1, <1>2, <1>3 DEF StatusOf
  <2>2. QED
    BY <2>1, StatusSame
<1>7. faultMap' = faultMap /\ outcomeMap' = outcomeMap /\ outcomeMap[Call] = "none"
  BY <1>1, <1>2 DEF faultMap, outcomeMap
<1>8. /\ graphMap[Call] = NoGraph /\ graphMap'[Call] \in Graphs
      /\ graphMap' = [graphMap EXCEPT ![Call] = graphMap'[Call]]
  BY <1>4, <1>5
<1>9. QED
  BY <1>6, <1>7, <1>8 DEF Promise!Begin, Promise!Under, graphMap, statusMap, faultMap,
     outcomeMap

LEMMA RejectRefuses ==
  ASSUME RunInv, Reject
  PROVE  Promise!Refuse(Call)
<1>1. /\ phase = "built" /\ phase' = "returned" /\ outcome' = "error"
      /\ outcome = "none"
  BY DEF Reject, RunInv
<1>2. ~Under /\ ~Under'
  BY <1>1 DEF Under
<1>3. graphMap' = graphMap /\ graphMap[Call] = NoGraph
  BY <1>2 DEF graphMap
<1>4. statusMap' = statusMap
  BY <1>2, StatusSame DEF StatusOf
<1>5. /\ faultMap' = faultMap /\ outcomeMap[Call] = "none"
      /\ outcomeMap' = [outcomeMap EXCEPT ![Call] = "error"]
  BY <1>1 DEF faultMap, outcomeMap
<1>6. QED
  BY <1>3, <1>4, <1>5 DEF Promise!Refuse, Promise!Under, graphMap, statusMap, faultMap,
     outcomeMap

LEMMA TakeStarts ==
  ASSUME RunInv, Take
  PROVE  (\E t \in Places : Promise!Start(Call, t)) \/ Promise!Trouble(Call)
<1>0. PICK t : t = Head(readyQueue)
  OBVIOUS
<1>1. /\ phase = "ready" /\ readyQueue # <<>>
      /\ phase' = IF Preparable(t) THEN "executing" ELSE "unprepared"
      /\ UNCHANGED <<plan, readyQueue, completed, outcome>>
  BY <1>0 DEF Take
<1>2. Under /\ Under'
  BY <1>1 DEF Under
<1>3. /\ t \in 1 .. Size /\ t \notin completed /\ Needs(t) \subseteq completed
      /\ completed \subseteq 1 .. Size
  BY <1>0, <1>1, <1>2, HeadKnown
<1>4. graphMap' = graphMap
  BY <1>1, <1>2, GraphSame
<1>5. /\ graphMap[Call] # NoGraph /\ graphMap[Call].tasks = 1 .. Size
      /\ graphMap[Call].needs[t] = Needs(t) /\ 1 .. Size \subseteq Places /\ Size \in Nat
  BY <1>2, <1>3, UnderGraph
<1>6. outcomeMap' = outcomeMap /\ Size' = Size
  BY <1>1 DEF outcomeMap, Size
<1>7. CASE Preparable(t)
  <2>1. phase' = "executing"
    BY <1>1, <1>7
  <2>2. StatusOf(t) = "waiting" /\ StatusOf(t)' = "executing"
    BY <1>0, <1>1, <1>2, <1>3, <1>5, <1>6, <2>1 DEF StatusOf
  <2>3. \A n \in Places \ {t} : StatusOf(n)' = StatusOf(n)
    BY <1>0, <1>1, <1>2, <1>6, <2>1 DEF StatusOf
  <2>4. statusMap' = [statusMap EXCEPT ![Call][t] = "executing"]
    BY <1>3, <1>5, <2>2, <2>3, StatusMoves
  <2>5. \A d \in Needs(t) : statusMap[Call][d] = "done"
    <3> TAKE d \in Needs(t)
    <3>1. d \in completed /\ d \in 1 .. Size /\ d \in Places
      BY <1>3, <1>5
    <3>2. ~(d > Size)
      BY <1>5, <3>1
    <3>3. StatusOf(d) = "done"
      BY <1>2, <3>1, <3>2 DEF StatusOf
    <3>4. QED
      BY <3>1, <3>3 DEF statusMap
  <2>6. statusMap[Call][t] = "waiting"
    BY <1>3, <1>5, <2>2 DEF statusMap
  <2>7. faultMap' = faultMap
    BY <1>1, <2>1 DEF faultMap
  <2>8. Promise!Start(Call, t)
    <3>1. t \in graphMap[Call].tasks /\ \A d \in graphMap[Call].needs[t] : statusMap[Call][d] = "done"
      BY <1>3, <1>5, <2>5
    <3>2. QED
      BY <1>4, <1>5, <1>6, <2>4, <2>6, <2>7, <3>1
      DEF Promise!Start, Promise!Under, graphMap, statusMap, faultMap, outcomeMap
  <2>9. QED
    BY <1>3, <1>5, <2>8
<1>8. CASE ~Preparable(t)
  <2>1. phase' = "unprepared"
    BY <1>1, <1>8
  <2>2. \A n \in Places : StatusOf(n)' = StatusOf(n)
    BY <1>1, <1>2, <1>6, <2>1 DEF StatusOf
  <2>3. statusMap' = statusMap
    BY <2>2, StatusSame
  <2>4. faultMap' = [faultMap EXCEPT ![Call] = TRUE]
    BY <2>1 DEF faultMap
  <2>5. Promise!Trouble(Call)
    BY <1>4, <1>5, <1>6, <2>3, <2>4
    DEF Promise!Trouble, Promise!Under, graphMap, statusMap, faultMap, outcomeMap
  <2>6. QED
    BY <2>5
<1>9. QED
  BY <1>7, <1>8

LEMMA ExecutedFinishes ==
  ASSUME RunInv, Executed
  PROVE  \E t \in Places : Promise!Finish(Call, t)
<1>0. PICK t : t = Head(readyQueue)
  OBVIOUS
<1>1. /\ phase = "executing" /\ phase' = "ready"
      /\ completed' = completed \cup {t} /\ plan' = plan /\ outcome' = outcome
  BY <1>0 DEF Executed
<1>2. Under /\ Under' /\ readyQueue # <<>>
  BY <1>1 DEF Under, RunInv
<1>3. t \in 1 .. Size /\ t \notin completed
  BY <1>0, <1>2, HeadKnown
<1>4. graphMap' = graphMap
  BY <1>1, <1>2, GraphSame
<1>5. graphMap[Call] # NoGraph /\ 1 .. Size \subseteq Places /\ Size \in Nat
  BY <1>2, UnderGraph
<1>6. outcomeMap' = outcomeMap /\ faultMap' = faultMap /\ Size' = Size
  BY <1>1 DEF outcomeMap, faultMap, Size
<1>7. StatusOf(t) = "executing" /\ StatusOf(t)' = "done"
  BY <1>0, <1>1, <1>2, <1>3, <1>5, <1>6 DEF StatusOf
<1>8. \A n \in Places \ {t} : StatusOf(n)' = StatusOf(n)
  BY <1>0, <1>1, <1>2, <1>6 DEF StatusOf
<1>9. statusMap' = [statusMap EXCEPT ![Call][t] = "done"]
  BY <1>3, <1>5, <1>7, <1>8, StatusMoves
<1>10. statusMap[Call][t] = "executing"
  BY <1>3, <1>5, <1>7 DEF statusMap
<1>11. Promise!Finish(Call, t)
  BY <1>4, <1>5, <1>6, <1>9, <1>10
  DEF Promise!Finish, Promise!Under, graphMap, statusMap, faultMap, outcomeMap
<1>12. QED
  BY <1>3, <1>5, <1>11

LEMMA FailureFails ==
  ASSUME RunInv, ExecutionFails
  PROVE  \E t \in Places : Promise!FailTask(Call, t)
<1>0. PICK t : t = Head(readyQueue)
  OBVIOUS
<1>1. /\ phase = "executing" /\ phase' = "failed"
      /\ UNCHANGED <<completed, readyQueue, plan, outcome>>
  BY DEF ExecutionFails
<1>2. Under /\ Under' /\ readyQueue # <<>>
  BY <1>1 DEF Under, RunInv
<1>3. t \in 1 .. Size /\ t \notin completed
  BY <1>0, <1>2, HeadKnown
<1>4. graphMap' = graphMap
  BY <1>1, <1>2, GraphSame
<1>5. graphMap[Call] # NoGraph /\ 1 .. Size \subseteq Places /\ Size \in Nat
  BY <1>2, UnderGraph
<1>6. /\ outcomeMap' = outcomeMap /\ Size' = Size
      /\ faultMap' = [faultMap EXCEPT ![Call] = TRUE]
  BY <1>1 DEF outcomeMap, faultMap, Size
<1>7. StatusOf(t) = "executing" /\ StatusOf(t)' = "failed"
  BY <1>0, <1>1, <1>2, <1>3, <1>5, <1>6 DEF StatusOf
<1>8. \A n \in Places \ {t} : StatusOf(n)' = StatusOf(n)
  BY <1>0, <1>1, <1>2, <1>6 DEF StatusOf
<1>9. statusMap' = [statusMap EXCEPT ![Call][t] = "failed"]
  BY <1>3, <1>5, <1>7, <1>8, StatusMoves
<1>10. statusMap[Call][t] = "executing"
  BY <1>3, <1>5, <1>7 DEF statusMap
<1>11. Promise!FailTask(Call, t)
  BY <1>4, <1>5, <1>6, <1>9, <1>10
  DEF Promise!FailTask, Promise!Under, graphMap, statusMap, faultMap, outcomeMap
<1>12. QED
  BY <1>3, <1>5, <1>11

\* A success is returned exactly if everything has been executed.
LEMMA ReturnsRightly ==
  ASSUME RunInv, ReturnError \/ ReturnResult
  PROVE  Promise!Return(Call)
<1>1. /\ phase \in {"ready", "unprepared", "failed"} /\ phase' = "returned"
      /\ Under /\ ~Under'
  BY DEF ReturnError, ReturnResult, Under
<1>2. graphMap' = [graphMap EXCEPT ![Call] = NoGraph]
  BY <1>1 DEF graphMap
<1>3. statusMap' = [statusMap EXCEPT ![Call] = [n \in Places |-> "waiting"]]
  <2>1. \A n \in Places : StatusOf(n)' = "waiting"
    BY <1>1 DEF StatusOf
  <2>2. QED
    BY <2>1 DEF statusMap
<1>4. faultMap' = [faultMap EXCEPT ![Call] = FALSE]
  <2>1. (phase' \in {"unprepared", "failed"}) = FALSE
    BY <1>1
  <2>2. faultMap' = [r \in {Call} |-> FALSE]
    BY <2>1, Zenon DEF faultMap
  <2>3. QED
    BY <2>2 DEF faultMap
<1>5. /\ graphMap[Call] # NoGraph /\ graphMap[Call].tasks = 1 .. Size
      /\ 1 .. Size \subseteq Places /\ Size \in Nat
  BY <1>1, UnderGraph
<1>6. \A n \in graphMap[Call].tasks : statusMap[Call][n] # "executing"
  <2>1. \A n \in Places : StatusOf(n) # "executing"
    BY <1>1 DEF StatusOf
  <2>2. \A n \in 1 .. Size : statusMap[Call][n] = StatusOf(n)
    BY <1>5 DEF statusMap
  <2>3. QED
    BY <1>5, <2>1, <2>2
<1>7. faultMap[Call] <=> phase \in {"unprepared", "failed"}
  BY DEF faultMap
<1>8. ~faultMap[Call] => /\ \A n \in graphMap[Call].tasks : statusMap[Call][n] = "done"
                         /\ outcome' = "ok"
  <2> SUFFICES ASSUME ~faultMap[Call]
               PROVE  /\ \A n \in 1 .. Size : statusMap[Call][n] = "done"
                      /\ outcome' = "ok"
    BY <1>5
  <2>1. ReturnResult
    BY <1>7 DEF ReturnError
  <2>2. readyQueue = <<>>
    BY <2>1 DEF ReturnResult
  <2>3. Cardinality(completed) = Size /\ completed = 1 .. Size
    BY <1>1, <2>2, ProgressKnown
  <2>4. outcome' = "ok"
    BY <2>1, <2>3 DEF ReturnResult
  <2>5. ASSUME NEW n \in 1 .. Size PROVE statusMap[Call][n] = "done"
    <3>1. StatusOf(n) = "done"
      BY <1>1, <1>5, <2>3 DEF StatusOf
    <3>2. QED
      BY <1>5, <3>1 DEF statusMap
  <2>6. QED
    BY <2>4, <2>5
<1>9. faultMap[Call] => outcome' = "error"
  BY <1>7 DEF ReturnError, ReturnResult
<1>10. outcomeMap' = [outcomeMap EXCEPT ![Call] = IF faultMap[Call] THEN "error" ELSE "ok"]
  BY <1>8, <1>9 DEF outcomeMap
<1>11. QED
  BY <1>2, <1>3, <1>4, <1>5, <1>6, <1>8, <1>10
  DEF Promise!Return, Promise!Under, graphMap, statusMap, faultMap, outcomeMap

LEMMA PromiseStep ==
  RunInv /\ [SerialNext]_vars => [Promise!RunNext]_promiseVars
<1> SUFFICES ASSUME RunInv, [SerialNext]_vars
             PROVE  Promise!RunNext \/ UNCHANGED promiseVars
  BY DEF promiseVars
<1>1. ASSUME UNCHANGED run PROVE UNCHANGED promiseVars
  BY <1>1 DEF run, promiseVars, graphMap, statusMap, faultMap, outcomeMap, StatusOf,
     Under, GraphOfPlan, Size, Needs, TimesListed
<1>2. CASE Build
  BY <1>2, BuildBegins DEF Promise!RunNext
<1>3. CASE Reject
  BY <1>3, RejectRefuses DEF Promise!RunNext
<1>4. CASE Take
  BY <1>4, TakeStarts DEF Promise!RunNext
<1>5. CASE Executed
  BY <1>5, ExecutedFinishes DEF Promise!RunNext
<1>6. CASE ExecutionFails
  BY <1>6, FailureFails DEF Promise!RunNext
<1>7. CASE ReturnError \/ ReturnResult
  BY <1>7, ReturnsRightly DEF Promise!RunNext
<1>8. QED
  BY <1>1, <1>2, <1>3, <1>4, <1>5, <1>6, <1>7 DEF SerialNext, vars

LEMMA PromiseInit == SerialInit => Promise!RunInit
<1> SUFFICES ASSUME SerialInit PROVE Promise!RunInit
  OBVIOUS
<1>1. phase = "built" /\ outcome = "none" /\ ~Under
  BY DEF SerialInit, Under
<1>2. \A n \in Places : StatusOf(n) = "waiting"
  BY <1>1 DEF StatusOf
<1>3. (phase \in {"unprepared", "failed"}) = FALSE
  BY <1>1
<1>4. /\ [r \in {Call} |-> IF Under THEN GraphOfPlan ELSE NoGraph] = [r \in {Call} |-> NoGraph]
      /\ [r \in {Call} |-> outcome] = [r \in {Call} |-> "none"]
  BY <1>1
<1>5. [r \in {Call} |-> [n \in Places |-> StatusOf(n)]]
        = [r \in {Call} |-> [n \in Places |-> "waiting"]]
  BY <1>2
<1>6. [r \in {Call} |-> phase \in {"unprepared", "failed"}] = [r \in {Call} |-> FALSE]
  BY <1>3, Zenon
<1>7. QED
  BY <1>4, <1>5, <1>6, Zenon DEF Promise!RunInit

\* A serial run of any graph does what TaskGraphRun promises, as the
\* concurrent path does: a task is executed after all it depends on and once,
\* and run() reports a success exactly if all tasks have been executed and
\* nothing failed; it never reports an incomplete run.
THEOREM SerialPromiseKept == SerialSpec => KeepsPromise
<1>1. RunInv /\ [SerialNext]_vars => [Promise!RunNext]_(Promise!runVars)
  BY PromiseStep DEF promiseVars, graphMap, statusMap, faultMap, outcomeMap,
     Promise!runVars
<1>2. QED
  BY <1>1, PromiseInit, RunInductive, PTL DEF SerialSpec, KeepsPromise, Promise!RunSpec
=============================================================================
