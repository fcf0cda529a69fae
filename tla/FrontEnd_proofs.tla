---------------------------- MODULE FrontEnd_proofs ----------------------------
(***************************************************************************)
(* Proofs about FrontEnd.tla, for any number of processes, any limit and   *)
(* any requests.                                                           *)
(*                                                                         *)
(* The invariant has one part for each process (ProcessOK), and a step of  *)
(* one process spares what is known of the others (Spares).  A directory   *)
(* of a run is removed, or anything in it, only when its root is crowded   *)
(* for it: a root lists the newest first, so whatever is beyond the first  *)
(* ones has as many before it that runs have made, or that have become the *)
(* newest because something has been removed from them; and of neither     *)
(* there are fewer later.                                                  *)
(***************************************************************************)
EXTENDS FrontEnd, TLAPS, FiniteSetTheorems, SequenceTheorems

Dir == Process \cup Old

\* A root: it lists each directory once, and of those that were there before
\* any process the ones (U) that are as they were come last.
Distinct(s) == \A i, j \in 1 .. Len(s) : s[i] = s[j] => i = j

OldLast(s, U) == \A i, j \in 1 .. Len(s) : s[i] \in U /\ i < j => s[j] \in U

Good(s, U) == s \in Seq(Dir) /\ Distinct(s) /\ OldLast(s, U)

\* Taking a directory out of a root leaves the others in their order.
LEMMA Position ==
  ASSUME NEW s, NEW U, Good(s, U), NEW d, NEW i \in 1 .. Len(s), s[i] = d
  PROVE  RemoveFirst(s, d) = RemoveAt(s, i)
<1>1. Len(s) \in Nat
  BY DEF Good
<1>2. {k \in 1 .. Len(s) : s[k] = d} = {i}
  BY DEF Good, Distinct
<1>3. Min({i}) = i
  BY <1>1 DEF Min
<1>4. SelectInSeq(s, LAMBDA v : v = d) = i
  BY <1>2, <1>3 DEF SelectInSeq
<1> QED
  BY <1>4 DEF RemoveFirst

LEMMA Removed ==
  ASSUME NEW s, NEW U, Good(s, U), NEW i \in 1 .. Len(s)
  PROVE  /\ RemoveAt(s, i) \in Seq(Dir)
         /\ Len(RemoveAt(s, i)) = Len(s) - 1
         /\ \A j \in 1 .. Len(s) - 1 :
              RemoveAt(s, i)[j] = IF j < i THEN s[j] ELSE s[j + 1]
<1> DEFINE a == SubSeq(s, 1, i - 1)
           b == SubSeq(s, i + 1, Len(s))
<1>1. Len(s) \in Nat /\ \A k \in 1 .. Len(s) : s[k] \in Dir
  BY ElementOfSeq DEF Good
<1>2. /\ a \in Seq(Dir) /\ Len(a) = i - 1
      /\ \A j \in 1 .. i - 1 : a[j] = s[j]
  <2>1. \A k \in 1 .. i - 1 : s[k] \in Dir
    BY <1>1
  <2>2. /\ a \in Seq(Dir) /\ Len(a) = IF 1 <= i - 1 THEN i - 1 - 1 + 1 ELSE 0
        /\ \A j \in 1 .. i - 1 - 1 + 1 : a[j] = s[1 + j - 1]
    BY <2>1, <1>1, SubSeqProperties, i \in Int, i - 1 \in Int
  <2> QED
    BY <2>2, <1>1
<1>3. /\ b \in Seq(Dir) /\ Len(b) = Len(s) - i
      /\ \A j \in 1 .. Len(s) - i : b[j] = s[i + j]
  <2>1. \A k \in i + 1 .. Len(s) : s[k] \in Dir
    BY <1>1
  <2>2. /\ b \in Seq(Dir)
        /\ Len(b) = IF i + 1 <= Len(s) THEN Len(s) - (i + 1) + 1 ELSE 0
        /\ \A j \in 1 .. Len(s) - (i + 1) + 1 : b[j] = s[i + 1 + j - 1]
    BY <2>1, <1>1, SubSeqProperties, i + 1 \in Int
  <2> QED
    BY <2>2, <1>1
<1> HIDE DEF a, b
<1>4. /\ a \o b \in Seq(Dir) /\ Len(a \o b) = Len(a) + Len(b)
      /\ \A j \in 1 .. Len(a) + Len(b) :
           (a \o b)[j] = IF j <= Len(a) THEN a[j] ELSE b[j - Len(a)]
  BY <1>2, <1>3, ConcatProperties
<1>5. RemoveAt(s, i) = a \o b
  BY DEF RemoveAt, a, b
<1> QED
  BY <1>1, <1>2, <1>3, <1>4, <1>5

LEMMA WithoutOne ==
  ASSUME NEW s, NEW U, Good(s, U), NEW d
  PROVE  /\ Good(RemoveFirst(s, d), U)
         /\ ToSet(RemoveFirst(s, d)) = ToSet(s) \ {d}
<1> DEFINE t == RemoveFirst(s, d)
<1>1. Len(s) \in Nat /\ DOMAIN s = 1 .. Len(s)
  BY LenProperties DEF Good
<1>2. CASE \E i \in 1 .. Len(s) : s[i] = d
  <2>1. PICK i \in 1 .. Len(s) : s[i] = d
    BY <1>2
  <2>2. /\ t \in Seq(Dir) /\ Len(t) = Len(s) - 1
        /\ \A j \in 1 .. Len(s) - 1 : t[j] = IF j < i THEN s[j] ELSE s[j + 1]
    BY <2>1, Position, Removed
  <2> HIDE DEF t
  <2>3. Distinct(t)
    <3> SUFFICES ASSUME NEW j \in 1 .. Len(t), NEW k \in 1 .. Len(t), t[j] = t[k]
                 PROVE  j = k
      BY DEF Distinct
    <3> DEFINE up(x) == IF x < i THEN x ELSE x + 1
    <3>1. /\ up(j) \in 1 .. Len(s) /\ up(k) \in 1 .. Len(s)
          /\ t[j] = s[up(j)] /\ t[k] = s[up(k)]
      BY <1>1, <2>2
    <3>2. up(j) = up(k)
      BY <3>1 DEF Good, Distinct
    <3> QED
      BY <3>2, <1>1, <2>2
  <2>4. OldLast(t, U)
    <3> SUFFICES ASSUME NEW j \in 1 .. Len(t), NEW k \in 1 .. Len(t), t[j] \in U, j < k
                 PROVE  t[k] \in U
      BY DEF OldLast
    <3> DEFINE up(x) == IF x < i THEN x ELSE x + 1
    <3>1. /\ up(j) \in 1 .. Len(s) /\ up(k) \in 1 .. Len(s)
          /\ t[j] = s[up(j)] /\ t[k] = s[up(k)]
      BY <1>1, <2>2
    <3>2. up(j) < up(k)
      BY <1>1, <2>2
    <3> QED
      BY <3>1, <3>2 DEF Good, OldLast
  <2>5. DOMAIN t = 1 .. Len(s) - 1
    BY <2>2, LenProperties
  <2>6. ASSUME NEW x \in ToSet(t)
        PROVE  x \in ToSet(s) /\ x # d
    <3>1. PICK j \in 1 .. Len(s) - 1 : x = t[j]
      BY <2>5 DEF ToSet
    <3>2. CASE j < i
      <4>1. x = s[j] /\ j \in 1 .. Len(s) /\ j # i
        BY <3>1, <3>2, <2>2, <1>1
      <4> QED
        BY <4>1, <2>1, <1>1 DEF ToSet, Good, Distinct
    <3>3. CASE ~(j < i)
      <4>1. x = s[j + 1] /\ j + 1 \in 1 .. Len(s) /\ j + 1 # i
        BY <3>1, <3>3, <2>2, <1>1
      <4> QED
        BY <4>1, <2>1, <1>1 DEF ToSet, Good, Distinct
    <3> QED
      BY <3>2, <3>3
  <2>7. ASSUME NEW x \in ToSet(s), x # d
        PROVE  x \in ToSet(t)
    <3>1. PICK j \in 1 .. Len(s) : x = s[j]
      BY <1>1 DEF ToSet
    <3>2. CASE j < i
      <4>1. x = t[j] /\ j \in 1 .. Len(s) - 1
        BY <3>1, <3>2, <2>2, <1>1
      <4> QED
        BY <4>1, <2>5 DEF ToSet
    <3>3. CASE j > i
      <4>1. x = t[j - 1] /\ j - 1 \in 1 .. Len(s) - 1
        BY <3>1, <3>3, <2>2, <1>1
      <4> QED
        BY <4>1, <2>5 DEF ToSet
    <3>4. j # i
      BY <3>1, <2>1, <2>7
    <3> QED
      BY <3>2, <3>3, <3>4
  <2>8. ToSet(t) = ToSet(s) \ {d}
    BY <2>6, <2>7
  <2> QED
    BY <2>2, <2>3, <2>4, <2>8 DEF Good, t
<1>3. CASE ~ \E i \in 1 .. Len(s) : s[i] = d
  <2>1. t = s
    BY <1>3 DEF RemoveFirst
  <2>2. d \notin ToSet(s)
    BY <1>1, <1>3 DEF ToSet
  <2> QED
    BY <2>1, <2>2
<1> QED
  BY <1>2, <1>3

\* A directory that is made, written or damaged becomes the newest.
LEMMA NewestFirst ==
  ASSUME NEW s, NEW U, Good(s, U), NEW p \in Dir
  PROVE  /\ Good(<<p>> \o RemoveFirst(s, p), U \ {p})
         /\ ToSet(<<p>> \o RemoveFirst(s, p)) = ToSet(s) \cup {p}
<1> DEFINE t == RemoveFirst(s, p)
           u == <<p>> \o t
<1>1. Good(t, U) /\ ToSet(t) = ToSet(s) \ {p}
  BY WithoutOne
<1> HIDE DEF t
<1>2. Len(t) \in Nat /\ DOMAIN t = 1 .. Len(t) /\ t \in Seq(Dir)
  BY <1>1, LenProperties DEF Good
<1>3. <<p>> \in Seq(Dir) /\ Len(<<p>>) = 1 /\ <<p>>[1] = p
  BY DEF Dir
<1>4. /\ u \in Seq(Dir) /\ Len(u) = 1 + Len(t)
      /\ \A i \in 1 .. 1 + Len(t) : u[i] = IF i <= 1 THEN <<p>>[i] ELSE t[i - 1]
  BY <1>2, <1>3, ConcatProperties
<1>5. DOMAIN u = 1 .. 1 + Len(t)
  BY <1>4, LenProperties
<1>6. u[1] = p
  BY <1>2, <1>3, <1>4
<1>7. \A i \in 2 .. 1 + Len(t) : u[i] = t[i - 1] /\ u[i] # p /\ i - 1 \in 1 .. Len(t)
  <2> SUFFICES ASSUME NEW i \in 2 .. 1 + Len(t)
               PROVE  u[i] = t[i - 1] /\ u[i] # p /\ i - 1 \in 1 .. Len(t)
    OBVIOUS
  <2>1. u[i] = t[i - 1] /\ i - 1 \in 1 .. Len(t)
    BY <1>2, <1>4
  <2>2. t[i - 1] \in ToSet(t)
    BY <2>1, <1>2 DEF ToSet
  <2> QED
    BY <2>1, <2>2, <1>1
<1> HIDE DEF u
<1>8. Distinct(u)
  <2> SUFFICES ASSUME NEW i \in 1 .. Len(u), NEW j \in 1 .. Len(u), u[i] = u[j]
               PROVE  i = j
    BY DEF Distinct
  <2>1. CASE i = 1 \/ j = 1
    BY <2>1, <1>2, <1>4, <1>6, <1>7
  <2>2. CASE i # 1 /\ j # 1
    <3>1. i - 1 = j - 1
      BY <2>2, <1>1, <1>2, <1>4, <1>7 DEF Good, Distinct
    <3> QED
      BY <3>1, <1>2, <1>4
  <2> QED
    BY <2>1, <2>2
<1>9. OldLast(u, U \ {p})
  <2> SUFFICES ASSUME NEW i \in 1 .. Len(u), NEW j \in 1 .. Len(u), u[i] \in U \ {p}, i < j
               PROVE  u[j] \in U \ {p}
    BY DEF OldLast
  <2>1. i # 1
    BY <1>6
  <2>2. i \in 2 .. 1 + Len(t) /\ j \in 2 .. 1 + Len(t) /\ i - 1 < j - 1
    BY <2>1, <1>2, <1>4
  <2>3. t[i - 1] \in U => t[j - 1] \in U
    BY <2>2, <1>1, <1>7 DEF Good, OldLast
  <2> QED
    BY <2>2, <2>3, <1>7
<1>10. ASSUME NEW x \in ToSet(u)
       PROVE  x \in ToSet(s) \cup {p}
  <2>1. PICK i \in 1 .. 1 + Len(t) : x = u[i]
    BY <1>5 DEF ToSet
  <2>2. CASE i = 1
    BY <2>1, <2>2, <1>6
  <2>3. CASE i # 1
    <3>1. i \in 2 .. 1 + Len(t)
      BY <2>3, <1>2
    <3>2. x \in ToSet(t)
      BY <3>1, <2>1, <1>7, <1>2 DEF ToSet
    <3> QED
      BY <3>2, <1>1
  <2> QED
    BY <2>2, <2>3
<1>11. ASSUME NEW x \in ToSet(s) \cup {p}
       PROVE  x \in ToSet(u)
  <2>1. CASE x = p
    BY <2>1, <1>2, <1>5, <1>6 DEF ToSet
  <2>2. CASE x # p
    <3>1. PICK i \in 1 .. Len(t) : x = t[i]
      BY <2>2, <1>1, <1>2 DEF ToSet
    <3>2. i + 1 \in 2 .. 1 + Len(t) /\ i + 1 - 1 = i
      BY <1>2
    <3>3. x = u[i + 1]
      BY <3>1, <3>2, <1>7
    <3>4. i + 1 \in DOMAIN u
      BY <3>2, <1>2, <1>5
    <3> QED
      BY <3>3, <3>4 DEF ToSet
  <2> QED
    BY <2>1, <2>2
<1> QED
  BY <1>4, <1>8, <1>9, <1>10, <1>11 DEF Good, u, t

\* What is kept: all there is, or as many as allowed; and those which are
\* before one that is not as it was are not as they were either.
LEMMA NewestKept ==
  ASSUME NEW s, NEW U, Good(s, U)
  PROVE  LET kept == {s[i] : i \in 1 .. KeepCount \cap DOMAIN s}
         IN  /\ IsFiniteSet(ToSet(s)) /\ IsFiniteSet(kept)
             /\ Cardinality(kept) <= Limit - 1
             /\ \A d \in ToSet(s) \ kept :
                  d \notin U => kept \cap U = {} /\ Cardinality(kept) = Limit - 1
<1> DEFINE kept == {s[i] : i \in 1 .. KeepCount \cap DOMAIN s}
           n == IF Len(s) < Limit - 1 THEN Len(s) ELSE Limit - 1
           f == [i \in 1 .. n |-> s[i]]
<1>1. Len(s) \in Nat /\ DOMAIN s = 1 .. Len(s) /\ s \in [1 .. Len(s) -> Dir]
  BY LenProperties DEF Good
<1>2. /\ n \in Nat /\ n <= Limit - 1 /\ n <= Len(s)
      /\ \A i \in Int : i \in 1 .. KeepCount \cap DOMAIN s <=> i \in 1 .. n
  BY <1>1, FrontEndAssumption DEF KeepCount
<1>3. IsFiniteSet(ToSet(s))
  <2>1. s \in Surjection(1 .. Len(s), ToSet(s))
    BY <1>1 DEF ToSet, Surjection
  <2>2. IsFiniteSet(1 .. Len(s))
    BY <1>1, FS_Interval
  <2> QED
    BY <2>1, <2>2, FS_Surjection
<1>4. \A x : x \in kept <=> \E i \in 1 .. n : x = s[i]
  BY <1>1, <1>2
<1>5. IsFiniteSet(1 .. n) /\ Cardinality(1 .. n) = n
  BY <1>2, FS_Interval
<1> HIDE DEF n, kept
<1>6. f \in Surjection(1 .. n, kept)
  BY <1>4 DEF Surjection
<1>7. \A i, j \in 1 .. n : s[i] = s[j] => i = j
  BY <1>1, <1>2 DEF Good, Distinct
<1>8. f \in Injection(1 .. n, kept)
  <2>1. f \in [1 .. n -> kept]
    BY <1>4
  <2>2. IsInjective(f)
    BY <1>7 DEF IsInjective
  <2> QED
    BY <2>1, <2>2 DEF Injection
<1>9. IsFiniteSet(kept) /\ Cardinality(kept) = n
  BY <1>5, <1>6, <1>8, FS_Surjection
<1>10. ASSUME NEW d \in ToSet(s) \ kept, d \notin U
       PROVE  kept \cap U = {} /\ n = Limit - 1
  <2>1. PICK j \in 1 .. Len(s) : d = s[j]
    BY <1>1 DEF ToSet
  <2>2. n < j
    BY <2>1, <1>1, <1>2, <1>4, <1>10
  <2>3. n = Limit - 1
    BY <2>2, <1>1, FrontEndAssumption DEF n
  <2>4. ASSUME NEW i \in 1 .. n
        PROVE  s[i] \notin U
    <3>1. i \in 1 .. Len(s) /\ i < j
      BY <2>2, <1>1, <1>2
    <3> QED
      BY <3>1, <2>1, <1>10 DEF Good, OldLast
  <2> QED
    BY <2>3, <2>4, <1>4
<1> QED
  BY <1>2, <1>3, <1>9, <1>10 DEF kept

-----------------------------------------------------------------------------
(* The invariant.                                                          *)

Preparing == {"start", "listWork", "pruneWork", "listKept", "pruneKept", "session"}
Running   == {"task", "trace", "retain", "copy", "summarize", "done"}
Leaving   == {"cleanup", "ended"}

Report ==
  [ code: {-1, 0, 1, 2, 4},
    stage: {"none", "bindings", "kernel_launch", "validate", "write_outputs", "profiling"},
    validation: {"none", "passed", "failed"} ]

CopiesOK ==
  /\ copies = [p \in Process |-> copies[p]]
  /\ \A p \in Process : copies[p] \in [1 .. request[p].tasks -> Nat]

TypeOK ==
  /\ request \in [Process -> Requests]
  /\ at \in [Process -> Preparing \cup Running \cup Leaving]
  /\ doomed \in [Process -> SUBSET Dir]
  /\ listed \in [Process -> SUBSET Dir]
  /\ next \in [Process -> Nat]
  /\ outputs \in [Process -> SUBSET Nat]
  /\ trace \in [Process -> Nat]
  /\ tasksDir \in [Process -> BOOLEAN]
  /\ summary \in [Process -> BOOLEAN]
  /\ verdict \in [Process -> Report]
  /\ CopiesOK

\* The old directories that are as they were.
AsBefore(r) == Old \ damaged[r]

\* A directory is there because it may have been before, or a run has made it.
RootsOK ==
  /\ root \in [Root -> Seq(Dir)]
  /\ made \in [Root -> SUBSET Process]
  /\ damaged \in [Root -> SUBSET Dir]
  /\ \A r \in Root :
       /\ Good(root[r], AsBefore(r))
       /\ IsFiniteSet(made[r]) /\ IsFiniteSet(damaged[r])
       /\ In(r) \subseteq Old \cup made[r]
       /\ damaged[r] \subseteq Old \cup made[r]

\* Where a process is tells what it has done.
Progress(p) ==
  /\ at[p] \in {"listWork", "pruneWork", "listKept", "pruneKept",
                "retain", "copy", "summarize"} => Retains(p)
  /\ at[p] \notin {"start"} \cup Leaving => request[p].run
  /\ at[p] \in Preparing => next[p] = 1 /\ p \notin made["work"]
  /\ at[p] \in Running => p \in made["work"]
  /\ at[p] \in Preparing \cup {"task", "trace", "retain"} => p \notin made["kept"]
  /\ at[p] \in {"copy", "summarize"} => p \in made["kept"]
  /\ at[p] = "done" /\ Retains(p) => p \in made["kept"]
  /\ at[p] \in {"task", "trace", "copy"} => next[p] \in 1 .. request[p].tasks
  /\ at[p] = "copy" => request[p].profiling

Success(p) == verdict[p].code = 0 /\ request[p].run /\ Retains(p)

\* The directory of p in a root is there, and nobody has removed anything
\* from it.
Intact(r, p) == p \in In(r) /\ p \notin damaged[r]

\* What the retained directory of a process holds, as long as it is intact.
Filled(p) ==
  /\ Success(p) \/ summary[p] => p \in made["kept"]
  /\ Intact("kept", p) =>
       /\ at[p] = "copy" => \A t \in 1 .. next[p] - 1 : copies[p][t] # 0
       /\ at[p] = "summarize" => AllCopied(p)
       /\ at[p] = "done" /\ Retains(p) => summary[p]
       /\ Success(p) => summary[p]
       /\ summary[p] => AllCopied(p)

\* The working directory of p is not to stay.
Discarded(p) == verdict[p] # NoVerdict /\ ~(Retains(p) /\ verdict[p].code = 0)

Reported(p) ==
  /\ at[p] \notin Leaving => verdict[p] = NoVerdict
  /\ at[p] = "cleanup" => Discarded(p)

PlaceOf(r) == IF r = "work" THEN "pruneWork" ELSE "pruneKept"

\* Enough other directories of the root r are newer than what is removed of
\* those of runs.
DoomedOK(p) ==
  /\ \A r \in Root : at[p] = PlaceOf(r) =>
       \A d \in doomed[p] \cap Process : Crowded(r, d)
  /\ at[p] = "cleanup" => doomed[p] \subseteq {p}

Survives(p) ==
  \A r \in Root : p \in made[r] =>
    Intact(r, p) \/ Crowded(r, p) \/ (r = "work" /\ Discarded(p))

\* What was listed has gone or is kept, but for what is still to be removed.
ListedOK(p) ==
  /\ listed[p] \subseteq Old \cup made["kept"]
  /\ at[p] = "pruneKept" =>
       Cardinality((In("kept") \cap listed[p]) \ doomed[p]) <= Limit - 1
  /\ at[p] \in {"session"} \cup Running /\ Retains(p) =>
       Cardinality(In("kept") \cap listed[p]) <= Limit - 1

ProcessOK(p) ==
  Progress(p) /\ Filled(p) /\ Reported(p) /\ DoomedOK(p) /\ Survives(p) /\ ListedOK(p)

FrontInv == TypeOK /\ RootsOK /\ \A p \in Process : ProcessOK(p)

-----------------------------------------------------------------------------
(* The two roots.                                                          *)

LEMMA RootWithout ==
  ASSUME RootsOK, NEW r \in Root, NEW d, root' = Without(r, d),
         made' = made, damaged' = damaged
  PROVE  /\ RootsOK'
         /\ In(r)' = In(r) \ {d}
         /\ \A x \in Root \ {r} : In(x)' = In(x)
<1>1. /\ Good(RemoveFirst(root[r], d), AsBefore(r))
      /\ ToSet(RemoveFirst(root[r], d)) = In(r) \ {d}
  BY WithoutOne DEF RootsOK, In
<1>2. /\ root'[r] = RemoveFirst(root[r], d)
      /\ \A x \in Root \ {r} : root'[x] = root[x]
      /\ root' \in [Root -> Seq(Dir)]
  BY <1>1 DEF RootsOK, Without, Good
<1>3. In(r)' = In(r) \ {d} /\ \A x \in Root \ {r} : In(x)' = In(x)
  BY <1>1, <1>2 DEF In
<1>4. ASSUME NEW x \in Root
      PROVE  /\ Good(root'[x], AsBefore(x)') /\ IsFiniteSet(made'[x])
             /\ IsFiniteSet(damaged'[x])
             /\ In(x)' \subseteq Old \cup made'[x]
             /\ damaged'[x] \subseteq Old \cup made'[x]
  <2>0. AsBefore(x)' = AsBefore(x)
    BY DEF AsBefore
  <2>1. CASE x = r
    BY <2>0, <2>1, <1>1, <1>2, <1>3 DEF RootsOK
  <2>2. CASE x # r
    BY <2>0, <2>2, <1>2, <1>3 DEF RootsOK
  <2> QED
    BY <2>1, <2>2
<1> QED
  BY <1>2, <1>3, <1>4 DEF RootsOK

\* The directory of a process is made or written.
LEMMA RootTouched ==
  ASSUME RootsOK, NEW r \in Root, NEW p \in Process, root' = Touched(r, p),
         damaged' = damaged,
         \/ made' = made /\ p \in made[r]
         \/ made' = [made EXCEPT ![r] = @ \cup {p}]
  PROVE  /\ RootsOK'
         /\ In(r)' = In(r) \cup {p}
         /\ \A x \in Root \ {r} : In(x)' = In(x)
         /\ made'[r] = made[r] \cup {p}
         /\ \A x \in Root \ {r} : made'[x] = made[x]
<1>1. /\ Good(<<p>> \o RemoveFirst(root[r], p), AsBefore(r) \ {p})
      /\ ToSet(<<p>> \o RemoveFirst(root[r], p)) = In(r) \cup {p}
      /\ AsBefore(r) \ {p} = AsBefore(r)
  <2>1. p \in Dir /\ p \notin Old
    BY FrontEndAssumption DEF Dir
  <2>2. AsBefore(r) \ {p} = AsBefore(r)
    BY <2>1 DEF AsBefore
  <2>3. Good(root[r], AsBefore(r))
    BY DEF RootsOK
  <2> QED
    BY <2>1, <2>2, <2>3, NewestFirst DEF In
<1>2. /\ root'[r] = <<p>> \o RemoveFirst(root[r], p)
      /\ \A x \in Root \ {r} : root'[x] = root[x]
      /\ root' \in [Root -> Seq(Dir)]
  BY <1>1 DEF RootsOK, Touched, Good
<1>3. In(r)' = In(r) \cup {p} /\ \A x \in Root \ {r} : In(x)' = In(x)
  BY <1>1, <1>2 DEF In
<1>4. /\ made' \in [Root -> SUBSET Process]
      /\ made'[r] = made[r] \cup {p}
      /\ \A x \in Root \ {r} : made'[x] = made[x]
  BY DEF RootsOK
<1>5. ASSUME NEW x \in Root
      PROVE  /\ Good(root'[x], AsBefore(x)') /\ IsFiniteSet(made'[x])
             /\ IsFiniteSet(damaged'[x])
             /\ In(x)' \subseteq Old \cup made'[x]
             /\ damaged'[x] \subseteq Old \cup made'[x]
  <2>0. AsBefore(x)' = AsBefore(x)
    BY DEF AsBefore
  <2>1. CASE x = r
    <3>1. IsFiniteSet(made[r] \cup {p})
      BY FS_AddElement DEF RootsOK
    <3> QED
      BY <2>0, <2>1, <3>1, <1>1, <1>2, <1>3, <1>4 DEF RootsOK
  <2>2. CASE x # r
    BY <2>0, <2>2, <1>2, <1>3, <1>4 DEF RootsOK
  <2> QED
    BY <2>1, <2>2
<1> QED
  BY <1>2, <1>3, <1>4, <1>5 DEF RootsOK

\* Something is removed from a directory; unless it is deep down in that of
\* a process, the directory becomes the newest.
LEMMA RootDamaged ==
  ASSUME RootsOK, NEW r \in Root, NEW d \in In(r),
         root' = Touched(r, d) \/ (root' = root /\ d \in Process),
         made' = made, damaged' = [damaged EXCEPT ![r] = @ \cup {d}]
  PROVE  /\ RootsOK'
         /\ \A x \in Root : In(x)' = In(x)
         /\ damaged'[r] = damaged[r] \cup {d}
         /\ \A x \in Root \ {r} : damaged'[x] = damaged[x]
<1>0. d \in Dir
  BY FrontEndAssumption DEF RootsOK, Dir
<1>1. /\ damaged' \in [Root -> SUBSET Dir]
      /\ damaged'[r] = damaged[r] \cup {d}
      /\ \A x \in Root \ {r} : damaged'[x] = damaged[x]
  BY <1>0 DEF RootsOK
<1>2. AsBefore(r)' = AsBefore(r) \ {d} /\ \A x \in Root \ {r} : AsBefore(x)' = AsBefore(x)
  BY <1>1 DEF AsBefore
<1>3. /\ Good(root'[r], AsBefore(r)')
      /\ In(r)' = In(r)
      /\ \A x \in Root \ {r} : root'[x] = root[x]
      /\ root' \in [Root -> Seq(Dir)]
  <2>0. Good(root[r], AsBefore(r))
    BY DEF RootsOK
  <2>1. CASE root' = Touched(r, d)
    <3>1. /\ Good(<<d>> \o RemoveFirst(root[r], d), AsBefore(r) \ {d})
          /\ ToSet(<<d>> \o RemoveFirst(root[r], d)) = In(r) \cup {d}
      BY <1>0, <2>0, NewestFirst DEF In
    <3>2. /\ root'[r] = <<d>> \o RemoveFirst(root[r], d)
          /\ \A x \in Root \ {r} : root'[x] = root[x]
          /\ root' \in [Root -> Seq(Dir)]
      BY <2>1, <3>1 DEF RootsOK, Touched, Good
    <3>3. In(r)' = In(r) \cup {d}
      BY <3>1, <3>2 DEF In
    <3> QED
      BY <1>2, <3>1, <3>2, <3>3
  <2>2. CASE root' = root /\ d \in Process
    <3>1. AsBefore(r)' = AsBefore(r)
      BY <2>2, <1>2, FrontEndAssumption DEF AsBefore
    <3> QED
      BY <2>0, <2>2, <3>1 DEF RootsOK, In
  <2> QED
    BY <2>1, <2>2
<1>4. \A x \in Root : In(x)' = In(x)
  BY <1>3 DEF In
<1>5. ASSUME NEW x \in Root
      PROVE  /\ Good(root'[x], AsBefore(x)') /\ IsFiniteSet(made'[x])
             /\ IsFiniteSet(damaged'[x])
             /\ In(x)' \subseteq Old \cup made'[x]
             /\ damaged'[x] \subseteq Old \cup made'[x]
  <2>1. CASE x = r
    <3>1. IsFiniteSet(damaged[r] \cup {d})
      BY FS_AddElement DEF RootsOK
    <3> QED
      BY <2>1, <3>1, <1>1, <1>3, <1>4 DEF RootsOK
  <2>2. CASE x # r
    BY <2>2, <1>1, <1>2, <1>3, <1>4 DEF RootsOK
  <2> QED
    BY <2>1, <2>2
<1> QED
  BY <1>1, <1>3, <1>4, <1>5 DEF RootsOK

LEMMA RootSame ==
  ASSUME RootsOK, root' = root, made' = made, damaged' = damaged
  PROVE  RootsOK' /\ \A r \in Root : In(r)' = In(r)
BY DEF RootsOK, In, AsBefore

Grows == \A r \in Root : made[r] \subseteq made'[r] /\ damaged[r] \subseteq damaged'[r]

\* A root that is crowded for a directory stays so.
LEMMA StaysCrowded ==
  ASSUME RootsOK, RootsOK', Grows, NEW r \in Root, NEW p, Crowded(r, p)
  PROVE  Crowded(r, p)'
<1> DEFINE A == (made[r] \cup damaged[r]) \ {p}
           B == (made'[r] \cup damaged'[r]) \ {p}
<1>1. IsFiniteSet(A) /\ IsFiniteSet(B)
  <2>1. IsFiniteSet(made[r] \cup damaged[r]) /\ IsFiniteSet(made'[r] \cup damaged'[r])
    BY FS_Union DEF RootsOK
  <2> QED
    BY <2>1, FS_Subset
<1>2. A \subseteq B
  BY DEF Grows
<1> HIDE DEF A, B
<1>3. Cardinality(A) <= Cardinality(B)
  BY <1>1, <1>2, FS_Subset
<1>4. Cardinality(A) \in Nat /\ Cardinality(B) \in Nat /\ Limit \in Nat
  BY <1>1, FS_CardinalityType, FrontEndAssumption
<1>5. Cardinality(A) >= Limit - 1 => Cardinality(B) >= Limit - 1
  BY <1>3, <1>4
<1> QED
  BY <1>5 DEF Crowded, A, B

-----------------------------------------------------------------------------
(* A step of one process and the others.                                   *)

\* What a step of p leaves of what is known of another process q.
Spares(q) ==
  /\ request'[q] = request[q] /\ at'[q] = at[q] /\ next'[q] = next[q]
  /\ doomed'[q] = doomed[q] /\ listed'[q] = listed[q] /\ verdict'[q] = verdict[q]
  /\ \/ copies'[q] = copies[q] /\ summary'[q] = summary[q]
     \/ q \in damaged'["kept"] /\ (summary'[q] => summary[q])
  /\ \A r \in Root :
       /\ q \in made'[r] <=> q \in made[r]
       /\ q \in In(r)' => q \in In(r)
       /\ Intact(r, q) => Intact(r, q)' \/ Crowded(r, q)
  /\ In("kept")' \cap listed[q] \subseteq In("kept")

LEMMA OthersSpared ==
  ASSUME FrontInv, RootsOK', Grows, NEW q \in Process, Spares(q)
  PROVE  ProcessOK(q)'
<1> "work" \in Root /\ "kept" \in Root
  BY DEF Root
<1>1. \A r \in Root : \A d : Crowded(r, d) => Crowded(r, d)'
  BY StaysCrowded DEF FrontInv
<1>2. ProcessOK(q)
  BY DEF FrontInv
<1>3. Progress(q)'
  BY <1>2 DEF ProcessOK, Progress, Spares, Retains
<1>4. Filled(q)'
  <2>1. Success(q)' <=> Success(q)
    BY DEF Success, Spares, Retains
  <2>2. Success(q)' \/ summary'[q] => q \in made'["kept"]
    BY <1>2, <2>1 DEF ProcessOK, Filled, Spares
  <2>3. ASSUME Intact("kept", q)'
        PROVE  Intact("kept", q) /\ copies'[q] = copies[q] /\ summary'[q] = summary[q]
    BY <2>3 DEF Intact, Spares, Grows
  <2>4. copies'[q] = copies[q] => (AllCopied(q)' <=> AllCopied(q))
    BY DEF AllCopied, Spares
  <2>5. /\ at'[q] = at[q] /\ next'[q] = next[q] /\ Retains(q)' = Retains(q)
    BY DEF Spares, Retains
  <2> QED
    BY <1>2, <2>1, <2>2, <2>3, <2>4, <2>5 DEF ProcessOK, Filled
<1>5. Reported(q)'
  BY <1>2 DEF ProcessOK, Reported, Discarded, Spares, Retains
<1>6. DoomedOK(q)'
  BY <1>1, <1>2 DEF ProcessOK, DoomedOK, PlaceOf, Spares
<1>7. Survives(q)'
  <2>1. Discarded(q)' <=> Discarded(q)
    BY DEF Discarded, Spares, Retains
  <2> QED
    BY <2>1, <1>1, <1>2 DEF ProcessOK, Survives, Spares
<1>8. ListedOK(q)'
  <2>1. listed'[q] \subseteq Old \cup made'["kept"]
    BY <1>2 DEF ProcessOK, ListedOK, Spares, Grows
  <2>2. IsFiniteSet(In("kept"))
    BY NewestKept DEF FrontInv, RootsOK, In
  <2>3. ASSUME NEW A, A \subseteq In("kept"), NEW B, B \subseteq A,
               Cardinality(A) <= Limit - 1
        PROVE  Cardinality(B) <= Limit - 1
    <3>1. IsFiniteSet(A) /\ IsFiniteSet(B) /\ Cardinality(B) <= Cardinality(A)
      BY <2>2, <2>3, FS_Subset
    <3>2. Cardinality(A) \in Nat /\ Cardinality(B) \in Nat /\ Limit \in Nat
      BY <3>1, FS_CardinalityType, FrontEndAssumption
    <3> QED
      BY <2>3, <3>1, <3>2
  <2>4. at'[q] = "pruneKept" =>
          Cardinality((In("kept")' \cap listed'[q]) \ doomed'[q]) <= Limit - 1
    <3> DEFINE A == (In("kept") \cap listed[q]) \ doomed[q]
               B == (In("kept")' \cap listed'[q]) \ doomed'[q]
    <3>1. A \subseteq In("kept") /\ B \subseteq A
      BY DEF Spares
    <3>2. at'[q] = "pruneKept" => Cardinality(A) <= Limit - 1
      BY <1>2 DEF ProcessOK, ListedOK, Spares
    <3> QED
      BY <3>1, <3>2, <2>3
  <2>5. at'[q] \in {"session"} \cup Running /\ Retains(q)' =>
          Cardinality(In("kept")' \cap listed'[q]) <= Limit - 1
    <3> DEFINE A == In("kept") \cap listed[q]
               B == In("kept")' \cap listed'[q]
    <3>1. A \subseteq In("kept") /\ B \subseteq A
      BY DEF Spares
    <3>2. at'[q] \in {"session"} \cup Running /\ Retains(q)' => Cardinality(A) <= Limit - 1
      BY <1>2 DEF ProcessOK, ListedOK, Spares, Retains
    <3> QED
      BY <3>1, <3>2, <2>3
  <2> QED
    BY <2>1, <2>4, <2>5 DEF ListedOK
<1> QED
  BY <1>3, <1>4, <1>5, <1>6, <1>7, <1>8 DEF ProcessOK

-----------------------------------------------------------------------------
(* The ends of a process.                                                  *)

\* The process p leaves with the verdict v, or what it has reported before.
LEMMA EndStep ==
  ASSUME FrontInv, NEW p \in Process, NEW v, v \in Report,
         verdict' = [verdict EXCEPT ![p] = v],
         NEW place, NEW remaining, Leave(p, place, remaining),
         \/ place = "ended" /\ remaining = {}
         \/ /\ place = "cleanup" /\ remaining = {p}
            /\ v # NoVerdict /\ ~(Retains(p) /\ v.code = 0),
         at[p] \in Leaving => v = verdict[p],
         UNCHANGED <<request, root, contents, made, damaged>>,
         v.code = 0 /\ request[p].run /\ Retains(p) =>
           p \in made["kept"] /\ (Intact("kept", p) => summary[p])
  PROVE  FrontInv'
<1> "work" \in Root /\ "kept" \in Root /\ "work" # "kept"
  BY DEF Root
<1> USE DEF FrontInv
<1>0. /\ at' = [at EXCEPT ![p] = place] /\ doomed' = [doomed EXCEPT ![p] = remaining]
      /\ listed' = [listed EXCEPT ![p] = {}] /\ next' = [next EXCEPT ![p] = 1]
      /\ UNCHANGED <<outputs, trace, tasksDir, copies, summary>>
      /\ place \in Leaving
  BY DEF Leave, Goto, contents, Leaving
<1>1. TypeOK'
  <2>1. at' \in [Process -> Preparing \cup Running \cup Leaving]
    BY <1>0 DEF TypeOK
  <2>2. verdict' \in [Process -> Report] /\ next' \in [Process -> Nat]
    BY <1>0 DEF TypeOK
  <2>3. doomed' \in [Process -> SUBSET Dir] /\ listed' \in [Process -> SUBSET Dir]
    BY <1>0 DEF TypeOK, Dir
  <2>4. CopiesOK'
    BY <1>0 DEF TypeOK, CopiesOK
  <2> QED
    BY <1>0, <2>1, <2>2, <2>3, <2>4 DEF TypeOK
<1>2. RootsOK' /\ \A r \in Root : In(r)' = In(r)
  BY RootSame
<1>3. /\ at'[p] = place /\ verdict'[p] = v /\ doomed'[p] = remaining /\ listed'[p] = {}
      /\ \A q \in Process \ {p} :
           /\ at'[q] = at[q] /\ verdict'[q] = verdict[q] /\ doomed'[q] = doomed[q]
           /\ listed'[q] = listed[q] /\ next'[q] = next[q]
  BY <1>0 DEF TypeOK
<1>4. Grows
  BY DEF Grows
<1>5. \A r \in Root : \A x : Intact(r, x)' <=> Intact(r, x)
  BY <1>2 DEF Intact
<1>6. ASSUME NEW q \in Process \ {p}
      PROVE  ProcessOK(q)'
  <2>1. Spares(q)
    BY <1>0, <1>2, <1>3, <1>5 DEF Spares
  <2> QED
    BY <2>1, <1>2, <1>4, OthersSpared
<1>7. ProcessOK(p)'
  <2>0. ProcessOK(p) /\ Retains(p)' = Retains(p)
    BY DEF Retains
  <2>1. Progress(p)'
    BY <1>0, <1>3 DEF Progress, Preparing, Running, Leaving
  <2>2. Filled(p)'
    <3>1. AllCopied(p)' <=> AllCopied(p)
      BY <1>0 DEF AllCopied
    <3>2. Success(p)' <=> v.code = 0 /\ request[p].run /\ Retains(p)
      BY <1>3, <2>0 DEF Success
    <3>3. summary'[p] = summary[p] /\ made' = made
      BY <1>0
    <3> QED
      BY <1>0, <1>3, <1>5, <2>0, <3>1, <3>2, <3>3 DEF ProcessOK, Filled, Leaving
  <2>3. Discarded(p)' <=> v # NoVerdict /\ ~(Retains(p) /\ v.code = 0)
    BY <1>3, <2>0 DEF Discarded
  <2>4. Reported(p)'
    BY <1>0, <1>3, <2>3 DEF Reported
  <2>5. DoomedOK(p)'
    BY <1>0, <1>3 DEF DoomedOK, PlaceOf, Leaving
  <2>6. Survives(p)'
    <3>1. \A r \in Root : Crowded(r, p)' <=> Crowded(r, p)
      BY DEF Crowded
    <3>2. Discarded(p) => Discarded(p)'
      BY <2>0, <2>3 DEF ProcessOK, Reported, Discarded
    <3> QED
      BY <1>5, <2>0, <3>1, <3>2 DEF ProcessOK, Survives
  <2>7. ListedOK(p)'
    BY <1>0, <1>3 DEF ListedOK, Running, Leaving
  <2> QED
    BY <2>1, <2>2, <2>4, <2>5, <2>6, <2>7 DEF ProcessOK
<1> QED
  BY <1>1, <1>2, <1>6, <1>7

\* Something fails, in the stage given.
LEMMA FailStep ==
  ASSUME FrontInv, NEW p \in Process, at[p] \notin Leaving,
         NEW code \in {1, 2, 4},
         NEW stage \in {"none", "bindings", "kernel_launch", "validate",
                        "write_outputs", "profiling"},
         Fail(p, code, stage)
  PROVE  FrontInv'
<1> DEFINE v == Verdict(p, code, stage)
<1>1. v.code = code /\ code # 0 /\ code # -1
  BY DEF Verdict
<1>2. v \in Report
  BY DEF Verdict, Report
<1>3. v # NoVerdict
  BY <1>1 DEF NoVerdict
<1>4. /\ verdict' = [verdict EXCEPT ![p] = v]
      /\ UNCHANGED <<request, root, contents, made, damaged>>
  BY DEF Fail
<1> HIDE DEF v
<1>5. CASE Leave(p, "cleanup", {p})
  BY <1>1, <1>2, <1>3, <1>4, <1>5, EndStep
<1>6. CASE Leave(p, "ended", {})
  BY <1>1, <1>2, <1>4, <1>6, EndStep
<1> QED
  BY <1>5, <1>6 DEF Fail, End

LEMMA SucceedStep ==
  ASSUME FrontInv, NEW p \in Process, at[p] \notin Leaving, Succeed(p),
         request[p].run /\ Retains(p) =>
           p \in made["kept"] /\ (Intact("kept", p) => summary[p])
  PROVE  FrontInv'
<1> DEFINE v == Verdict(p, 0, "none")
<1>1. v.code = 0
  BY DEF Verdict
<1>2. v \in Report
  BY DEF Verdict, Report
<1>3. v # NoVerdict
  BY <1>1 DEF NoVerdict
<1>4. /\ verdict' = [verdict EXCEPT ![p] = v]
      /\ UNCHANGED <<request, root, contents, made, damaged>>
  BY DEF Succeed
<1> HIDE DEF v
<1>5. CASE Leave(p, "cleanup", {p}) /\ ~Retains(p)
  BY <1>1, <1>2, <1>3, <1>4, <1>5, EndStep
<1>6. CASE Leave(p, "ended", {})
  BY <1>2, <1>4, <1>6, EndStep
<1> QED
  BY <1>5, <1>6 DEF Succeed, End

\* The process is killed, or has cleaned up.
LEMMA GoneStep ==
  ASSUME FrontInv, NEW p \in Process, Leave(p, "ended", {}),
         UNCHANGED <<request, root, contents, verdict, made, damaged>>
  PROVE  FrontInv'
<1>1. verdict' = [verdict EXCEPT ![p] = verdict[p]] /\ verdict[p] \in Report
  BY DEF FrontInv, TypeOK
<1>2. Success(p) => p \in made["kept"] /\ (Intact("kept", p) => summary[p])
  BY DEF FrontInv, ProcessOK, Filled
<1>3. UNCHANGED <<request, root, contents, made, damaged>>
  OBVIOUS
<1> QED
  BY <1>1, <1>2, <1>3, EndStep DEF Success

-----------------------------------------------------------------------------
(* Steps that end no process.                                              *)

\* The step of p changes nothing of the others, and in the roots no
\* directory but that of p.
LEMMA OwnStep ==
  ASSUME FrontInv, NEW p \in Process, TypeOK', RootsOK', ProcessOK(p)',
         request' = request, damaged' = damaged,
         \A q \in Process \ {p} :
           /\ at'[q] = at[q] /\ next'[q] = next[q] /\ doomed'[q] = doomed[q]
           /\ listed'[q] = listed[q] /\ verdict'[q] = verdict[q]
           /\ copies'[q] = copies[q] /\ summary'[q] = summary[q],
         \A r \in Root : made'[r] = made[r] \/ made'[r] = made[r] \cup {p},
         \A r \in Root :
           \/ In(r)' = In(r)
           \/ /\ In(r)' = In(r) \cup {p}
              /\ r = "kept" => p \in In(r) \/ p \notin made["kept"]
  PROVE  FrontInv'
<1>1. Grows
  BY DEF Grows
<1>2. ASSUME NEW q \in Process \ {p}
      PROVE  ProcessOK(q)'
  <2>1. In("kept")' \cap listed[q] \subseteq In("kept")
    <3>1. listed[q] \subseteq Old \cup made["kept"]
      BY DEF FrontInv, ProcessOK, ListedOK
    <3>2. p \notin Old
      BY FrontEndAssumption
    <3> QED
      BY <3>1, <3>2 DEF Root
  <2>2. \A r \in Root :
          /\ q \in made'[r] <=> q \in made[r]
          /\ q \in In(r)' => q \in In(r)
          /\ Intact(r, q) => Intact(r, q)' \/ Crowded(r, q)
    BY DEF Intact
  <2>3. Spares(q)
    BY <2>1, <2>2 DEF Spares
  <2> QED
    BY <2>3, <1>1, OthersSpared
<1> QED
  BY <1>2 DEF FrontInv

\* Only where p is, what it has listed and its count change.
LEMMA Moved ==
  ASSUME FrontInv, NEW p \in Process, TypeOK', ProcessOK(p)',
         request' = request, root' = root, made' = made, damaged' = damaged,
         verdict' = verdict,
         \A q \in Process \ {p} :
           /\ at'[q] = at[q] /\ next'[q] = next[q] /\ doomed'[q] = doomed[q]
           /\ listed'[q] = listed[q]
           /\ copies'[q] = copies[q] /\ summary'[q] = summary[q]
  PROVE  FrontInv'
<1>1. RootsOK' /\ \A r \in Root : In(r)' = In(r)
  BY RootSame DEF FrontInv
<1> QED
  BY <1>1, OwnStep

\* While a process prepares its run, it has no directory and no verdict.
LEMMA Prepared ==
  ASSUME FrontInv, NEW p \in Process, at[p] \in Preparing, TypeOK',
         at'[p] \in Preparing, at'[p] # "start", request[p].run,
         at'[p] # "session" => Retains(p), summary'[p] => summary[p],
         UNCHANGED <<request, next, verdict, made>>
  PROVE  Progress(p)' /\ Filled(p)' /\ Reported(p)' /\ Survives(p)'
<1>0. ProcessOK(p) /\ at[p] \notin Leaving /\ at'[p] \notin Leaving
  BY DEF FrontInv, Preparing, Leaving
<1>1. /\ next[p] = 1 /\ p \notin made["work"] /\ p \notin made["kept"]
      /\ verdict[p] = NoVerdict /\ ~summary[p] /\ ~Success(p)
  BY <1>0 DEF ProcessOK, Progress, Reported, Filled
<1>2. Retains(p)' = Retains(p) /\ Success(p)' = Success(p)
  BY DEF Retains, Success
<1>3. Progress(p)'
  BY <1>1, <1>2 DEF Progress, Preparing, Running
<1>4. Filled(p)'
  BY <1>1, <1>2 DEF Filled, Preparing
<1>5. Reported(p)'
  BY <1>0, <1>1 DEF Reported, Leaving
<1>6. Survives(p)'
  BY <1>1 DEF Survives, Root
<1> QED
  BY <1>3, <1>4, <1>5, <1>6

-----------------------------------------------------------------------------
(* The actions.                                                            *)

LEMMA RequestOK ==
  ASSUME TypeOK, NEW p \in Process
  PROVE  RequestShape(request[p])
BY FrontEndAssumption DEF TypeOK

LEMMA StartStep ==
  ASSUME FrontInv, NEW p \in Process, Start(p)
  PROVE  FrontInv'
<1> DEFINE q == request[p]
<1>1. at[p] = "start" /\ at[p] \notin Leaving
  BY DEF Start, Leaving
<1>2. CASE Fail(p, 4, "none")
  BY <1>1, <1>2, FailStep
<1>3. CASE Fail(p, 2, "none")
  BY <1>1, <1>3, FailStep
<1>4. CASE ~q.run /\ Succeed(p)
  BY <1>1, <1>4, SucceedStep
<1>5. CASE /\ q.run
           /\ Goto(p, IF Retains(p) THEN "listWork" ELSE "session")
           /\ UNCHANGED <<request, doomed, listed, next, root, contents, verdict, made, damaged>>
  <2>1. /\ at' = [at EXCEPT ![p] = IF Retains(p) THEN "listWork" ELSE "session"]
        /\ UNCHANGED <<request, doomed, listed, next, root, outputs, trace, tasksDir, copies,
                       summary, verdict, made, damaged>>
    BY <1>5 DEF Goto, contents
  <2>2. TypeOK'
    BY <2>1 DEF FrontInv, TypeOK, CopiesOK, Preparing
  <2>3. at'[p] = IF Retains(p) THEN "listWork" ELSE "session"
    BY <2>1 DEF FrontInv, TypeOK
  <2>4. ProcessOK(p)'
    <3>0. ProcessOK(p)
      BY DEF FrontInv
    <3>1. Progress(p)' /\ Filled(p)' /\ Reported(p)' /\ Survives(p)'
      BY <1>1, <1>5, <2>1, <2>2, <2>3, Prepared DEF Preparing
    <3>2. DoomedOK(p)'
      BY <2>3 DEF DoomedOK, PlaceOf
    <3>3. ListedOK(p)'
      BY <1>1, <2>1, <2>3, <3>0 DEF ProcessOK, ListedOK, In, Retains, Running
    <3> QED
      BY <3>1, <3>2, <3>3 DEF ProcessOK
  <2>5. \A x \in Process \ {p} : at'[x] = at[x]
    BY <2>1 DEF FrontInv, TypeOK
  <2> QED
    BY <2>1, <2>2, <2>4, <2>5, Moved
<1> QED
  BY <1>2, <1>3, <1>4, <1>5 DEF Start

\* What is pruned of a root has enough before it that is not as it was.
LEMMA ListStep ==
  ASSUME FrontInv, NEW p \in Process, NEW r \in Root,
         at[p] = IF r = "work" THEN "listWork" ELSE "listKept",
         List(p, r), Goto(p, PlaceOf(r))
  PROVE  FrontInv'
<1> "work" \in Root /\ "kept" \in Root /\ "work" # "kept" /\ (r = "work" \/ r = "kept")
  BY DEF Root
<1>0. ProcessOK(p) /\ at[p] \in Preparing /\ at[p] # "start" /\ at[p] \notin Leaving
  BY DEF FrontInv, Preparing, Leaving
<1>1. PICK found \in {In(r), {}} :
        /\ at' = [at EXCEPT ![p] = PlaceOf(r)]
        /\ doomed' = [doomed EXCEPT ![p] = found \ Kept(r)]
        /\ listed' = IF r = "kept" THEN [listed EXCEPT ![p] = found] ELSE listed
        /\ UNCHANGED <<request, next, root, outputs, trace, tasksDir, copies, summary, verdict,
                       made, damaged>>
  BY DEF Goto, List, contents
<1>2. /\ IsFiniteSet(In(r)) /\ IsFiniteSet(Kept(r)) /\ Cardinality(Kept(r)) <= Limit - 1
      /\ \A d \in In(r) \ Kept(r) : d \notin AsBefore(r) =>
           Kept(r) \cap AsBefore(r) = {} /\ Cardinality(Kept(r)) = Limit - 1
  <2>1. Good(root[r], AsBefore(r))
    BY DEF FrontInv, RootsOK
  <2> QED
    BY <2>1, NewestKept DEF In, Kept
<1>3. Kept(r) \subseteq In(r) /\ found \subseteq In(r)
  BY DEF Kept, In, ToSet
<1>4. In(r) \subseteq Dir
  <2>1. root[r] \in Seq(Dir)
    BY DEF FrontInv, RootsOK
  <2>2. root[r] \in [1 .. Len(root[r]) -> Dir]
    BY <2>1, LenProperties
  <2> QED
    BY <2>2 DEF In, ToSet
<1>5. /\ at'[p] = PlaceOf(r) /\ doomed'[p] = found \ Kept(r)
      /\ listed'[p] = IF r = "kept" THEN found ELSE listed[p]
      /\ \A x \in Process \ {p} :
           at'[x] = at[x] /\ doomed'[x] = doomed[x] /\ listed'[x] = listed[x]
  BY <1>1 DEF FrontInv, TypeOK
<1>6. TypeOK'
  <2>1. at' \in [Process -> Preparing \cup Running \cup Leaving]
    BY <1>1 DEF FrontInv, TypeOK, PlaceOf, Preparing
  <2>2. doomed' \in [Process -> SUBSET Dir]
    BY <1>1, <1>3, <1>4 DEF FrontInv, TypeOK
  <2>3. listed' \in [Process -> SUBSET Dir]
    BY <1>1, <1>3, <1>4 DEF FrontInv, TypeOK
  <2>4. CopiesOK'
    BY <1>1 DEF FrontInv, TypeOK, CopiesOK
  <2> QED
    BY <1>1, <2>1, <2>2, <2>3, <2>4 DEF FrontInv, TypeOK
<1>7. ProcessOK(p)'
  <2>1. Progress(p)' /\ Filled(p)' /\ Reported(p)' /\ Survives(p)'
    <3>1. request[p].run /\ Retains(p)
      BY <1>0 DEF ProcessOK, Progress
    <3>2. at'[p] \in Preparing /\ at'[p] # "start"
      BY <1>5 DEF PlaceOf, Preparing
    <3> QED
      BY <1>0, <1>1, <1>6, <3>1, <3>2, Prepared
  <2>2. DoomedOK(p)'
    <3>0. /\ \A x \in Root : at'[p] = PlaceOf(x) => x = r
          /\ at'[p] # "cleanup"
      BY <1>5 DEF PlaceOf, Root
    <3> SUFFICES ASSUME NEW d \in doomed'[p] \cap Process
                 PROVE  Crowded(r, d)'
      BY <3>0, Zenon DEF DoomedOK
    <3>1. /\ d \notin Kept(r) /\ d \in In(r) /\ d \notin AsBefore(r)
      BY <1>3, <1>5, FrontEndAssumption DEF AsBefore
    <3>2. Kept(r) \cap AsBefore(r) = {} /\ Cardinality(Kept(r)) = Limit - 1
      BY <1>2, <3>1
    <3> DEFINE A == (made[r] \cup damaged[r]) \ {d}
    <3>3. Kept(r) \subseteq A
      BY <1>3, <3>1, <3>2 DEF FrontInv, RootsOK, AsBefore
    <3>4. IsFiniteSet(A)
      <4>1. IsFiniteSet(made[r] \cup damaged[r])
        BY FS_Union DEF FrontInv, RootsOK
      <4> QED
        BY <4>1, FS_Subset
    <3>5. Cardinality(Kept(r)) <= Cardinality(A)
      BY <3>3, <3>4, FS_Subset
    <3>6. Cardinality(A) \in Nat /\ Limit \in Nat
      BY <3>4, FS_CardinalityType, FrontEndAssumption
    <3> QED
      BY <1>1, <3>2, <3>5, <3>6 DEF Crowded
  <2>3. ListedOK(p)'
    <3>1. listed'[p] \subseteq Old \cup made'["kept"]
      BY <1>0, <1>1, <1>3, <1>5 DEF ProcessOK, ListedOK, FrontInv, RootsOK
    <3>2. at'[p] = "pruneKept" =>
            Cardinality((In("kept")' \cap listed'[p]) \ doomed'[p]) <= Limit - 1
      <4>1. SUFFICES ASSUME r = "kept"
                     PROVE  Cardinality((In("kept")' \cap listed'[p]) \ doomed'[p]) <= Limit - 1
        BY <1>5 DEF PlaceOf
      <4>2. In("kept")' = In("kept")
        BY <1>1 DEF In
      <4>3. (In("kept")' \cap listed'[p]) \ doomed'[p] = found \cap Kept(r)
        BY <1>3, <1>5, <4>1, <4>2
      <4>4. CASE found = In(r)
        <5>1. found \cap Kept(r) = Kept(r)
          BY <1>3, <4>4
        <5> QED
          BY <4>3, <5>1, <1>2
      <4>5. CASE found = {}
        <5>1. found \cap Kept(r) = {} /\ Cardinality({}) = 0 /\ 0 <= Limit - 1
          BY <4>5, FS_EmptySet, FrontEndAssumption
        <5> QED
          BY <4>3, <5>1
      <4> QED
        BY <4>4, <4>5
    <3> QED
      BY <3>1, <3>2, <1>5 DEF ListedOK, PlaceOf, Running
  <2> QED
    BY <2>1, <2>2, <2>3 DEF ProcessOK
<1> QED
  BY <1>1, <1>5, <1>6, <1>7, Moved

\* The process is through with all that was doomed.
LEMMA PrunedStep ==
  ASSUME FrontInv, NEW p \in Process, NEW r \in Root,
         at[p] = PlaceOf(r), doomed[p] = {},
         Goto(p, IF r = "work" THEN "listKept" ELSE "session"),
         UNCHANGED <<request, doomed, listed, next, root, contents, verdict, made, damaged>>
  PROVE  FrontInv'
<1> r = "work" \/ r = "kept"
  BY DEF Root
<1> "work" # "kept"
  OBVIOUS
<1> DEFINE place == IF r = "work" THEN "listKept" ELSE "session"
<1>0. ProcessOK(p) /\ at[p] \in Preparing /\ at[p] # "start" /\ at[p] \notin Leaving
  BY DEF FrontInv, Preparing, Leaving, PlaceOf
<1>1. /\ at' = [at EXCEPT ![p] = place]
      /\ UNCHANGED <<request, doomed, listed, next, root, outputs, trace, tasksDir, copies,
                     summary, verdict, made, damaged>>
  BY DEF Goto, contents
<1>2. at'[p] = place /\ \A x \in Process \ {p} : at'[x] = at[x]
  BY <1>1 DEF FrontInv, TypeOK
<1>3. TypeOK'
  BY <1>1 DEF FrontInv, TypeOK, CopiesOK, Preparing
<1>4. ProcessOK(p)'
  <2>1. Progress(p)' /\ Filled(p)' /\ Reported(p)' /\ Survives(p)'
    <3>1. request[p].run /\ Retains(p)
      BY <1>0 DEF ProcessOK, Progress, PlaceOf
    <3>2. at'[p] \in Preparing /\ at'[p] # "start"
      BY <1>2 DEF Preparing
    <3> QED
      BY <1>0, <1>1, <1>3, <3>1, <3>2, Prepared
  <2>2. DoomedOK(p)'
    BY <1>2 DEF DoomedOK, PlaceOf
  <2>3. ListedOK(p)'
    <3>1. at'[p] # "pruneKept"
      BY <1>2
    <3>2. at'[p] = "session" \/ at'[p] \notin {"session"} \cup Running
      BY <1>2 DEF Running
    <3>3. at'[p] = "session" => Cardinality(In("kept") \cap listed[p]) <= Limit - 1
      <4>1. at'[p] = "session" => at[p] = "pruneKept"
        BY <1>2 DEF PlaceOf
      <4>2. (In("kept") \cap listed[p]) \ doomed[p] = In("kept") \cap listed[p]
        OBVIOUS
      <4> QED
        BY <4>1, <4>2, <1>0 DEF ProcessOK, ListedOK
    <3>4. listed'[p] \subseteq Old \cup made'["kept"]
      BY <1>0, <1>1 DEF ProcessOK, ListedOK
    <3>5. In("kept")' \cap listed'[p] = In("kept") \cap listed[p]
      BY <1>1 DEF In
    <3> QED
      BY <3>1, <3>2, <3>3, <3>4, <3>5 DEF ListedOK
  <2> QED
    BY <2>1, <2>2, <2>3 DEF ProcessOK
<1> QED
  BY <1>1, <1>2, <1>3, <1>4, Moved

\* Where p removes from the root r: it prunes it, or cleans up after itself.
Removes(p, r) == at[p] = PlaceOf(r) \/ (at[p] = "cleanup" /\ r = "work")

\* What p removes from the directory of a process in r: there is no room for
\* it, or it is its own.
LEMMA Removable ==
  ASSUME FrontInv, NEW p \in Process, NEW r \in Root, Removes(p, r),
         NEW d \in doomed[p]
  PROVE  /\ d \in Old \/ d \in Process
         /\ d \in Process => Crowded(r, d) \/ (d = p /\ at[p] = "cleanup" /\ r = "work")
<1>1. DoomedOK(p) /\ d \in Dir
  BY DEF FrontInv, ProcessOK, TypeOK
<1> QED
  BY <1>1 DEF DoomedOK, Removes, Dir

\* What p knows of itself does not depend on what it removes.
LEMMA RemoverOK ==
  ASSUME FrontInv, NEW p \in Process, NEW r \in Root, Removes(p, r),
         TypeOK', RootsOK', Grows,
         UNCHANGED <<request, at, next, verdict, made>>,
         doomed'[p] \subseteq doomed[p], listed'[p] \subseteq listed[p],
         r = "kept" => (In(r)' \cap listed'[p]) \ doomed'[p]
                         \subseteq (In(r) \cap listed[p]) \ doomed[p],
         copies'[p] = copies[p] \/ (r = "kept" /\ p \in damaged'[r]),
         summary'[p] => summary[p],
         summary'[p] = summary[p] \/ (r = "kept" /\ p \in damaged'[r]),
         Intact("kept", p)' => Intact("kept", p),
         Intact("kept", p) => Intact("kept", p)' \/ Crowded("kept", p)
  PROVE  ProcessOK(p)'
<1> "work" \in Root /\ "kept" \in Root /\ "work" # "kept"
  BY DEF Root
<1>0. ProcessOK(p) /\ Retains(p)' = Retains(p)
  BY DEF FrontInv, Retains
<1>1. \A x \in Root : \A e : Crowded(x, e) => Crowded(x, e)'
  BY StaysCrowded DEF FrontInv
<1>2. Progress(p)'
  BY <1>0 DEF ProcessOK, Progress
<1>3. Filled(p)'
  <2>1. Success(p)' = Success(p)
    BY <1>0 DEF Success
  <2>2. Intact("kept", p)' => summary'[p] = summary[p] /\ (AllCopied(p)' <=> AllCopied(p))
    BY DEF AllCopied, Intact
  <2>3. at'[p] # "copy"
    BY DEF Removes, PlaceOf
  <2> QED
    BY <1>0, <2>1, <2>2, <2>3 DEF ProcessOK, Filled
<1>4. Reported(p)'
  BY <1>0 DEF ProcessOK, Reported, Discarded
<1>5. DoomedOK(p)'
  <2>1. ASSUME NEW x \in Root, at'[p] = PlaceOf(x), NEW e \in doomed'[p] \cap Process
        PROVE  Crowded(x, e)'
    <3>1. Crowded(x, e)
      BY <1>0, <2>1 DEF ProcessOK, DoomedOK
    <3> QED
      BY <1>1, <3>1
  <2>2. at'[p] = "cleanup" => doomed'[p] \subseteq {p}
    BY <1>0 DEF ProcessOK, DoomedOK
  <2> QED
    BY <2>1, <2>2, Zenon DEF DoomedOK
<1>6. Survives(p)'
  <2>1. CASE at[p] = "cleanup"
    <3>1. Discarded(p)'
      BY <2>1, <1>0 DEF ProcessOK, Reported, Discarded
    <3>2. p \in made'["kept"] => Intact("kept", p)' \/ Crowded("kept", p)'
      BY <1>0, <1>1 DEF ProcessOK, Survives
    <3> QED
      BY <3>1, <3>2 DEF Survives, Root
  <2>2. CASE at[p] = PlaceOf(r)
    <3>1. p \notin made'["work"] /\ p \notin made'["kept"]
      BY <2>2, <1>0 DEF ProcessOK, Progress, Preparing, PlaceOf
    <3> QED
      BY <3>1 DEF Survives, Root
  <2> QED
    BY <2>1, <2>2 DEF Removes
<1>7. ListedOK(p)'
  <2>1. at'[p] \notin {"session"} \cup Running
    BY DEF Removes, PlaceOf, Running
  <2>2. listed'[p] \subseteq Old \cup made'["kept"]
    BY <1>0 DEF ProcessOK, ListedOK
  <2>3. ASSUME at'[p] = "pruneKept"
        PROVE  Cardinality((In("kept")' \cap listed'[p]) \ doomed'[p]) <= Limit - 1
    <3> DEFINE A == (In("kept") \cap listed[p]) \ doomed[p]
               B == (In("kept")' \cap listed'[p]) \ doomed'[p]
    <3>1. r = "kept"
      BY <2>3 DEF Removes, PlaceOf, Root
    <3>2. B \subseteq A
      BY <3>1
    <3>3. IsFiniteSet(In("kept"))
      <4>1. Good(root["kept"], AsBefore("kept"))
        BY DEF FrontInv, RootsOK
      <4> QED
        BY <4>1, NewestKept DEF In
    <3>4. IsFiniteSet(A)
      BY <3>3, FS_Subset
    <3>5. Cardinality(A) <= Limit - 1
      BY <1>0, <2>3 DEF ProcessOK, ListedOK
    <3> HIDE DEF A, B
    <3>6. IsFiniteSet(B) /\ Cardinality(B) <= Cardinality(A)
      BY <3>2, <3>4, FS_Subset
    <3>7. Cardinality(A) \in Nat /\ Cardinality(B) \in Nat /\ Limit \in Nat
      BY <3>4, <3>6, FS_CardinalityType, FrontEndAssumption
    <3>8. Cardinality(B) <= Limit - 1
      BY <3>5, <3>6, <3>7
    <3> QED
      BY <3>8 DEF B
  <2> QED
    BY <2>1, <2>2, <2>3 DEF ListedOK
<1> QED
  BY <1>2, <1>3, <1>4, <1>5, <1>6, <1>7 DEF ProcessOK

\* What is in the directories after an entry of d has gone.
LEMMA EntryGone ==
  ASSUME TypeOK, NEW r \in Root, NEW d \in Dir, request' = request,
         IF d \in Old THEN root' = Touched(r, d) /\ UNCHANGED contents
         ELSE IF r = "work" THEN RemoveFromWork(d) ELSE RemoveFromKept(d)
  PROVE  /\ root' = Touched(r, d) \/ (root' = root /\ d \in Process)
         /\ outputs' \in [Process -> SUBSET Nat] /\ trace' \in [Process -> Nat]
         /\ tasksDir' \in [Process -> BOOLEAN] /\ summary' \in [Process -> BOOLEAN]
         /\ CopiesOK'
         /\ \A x \in Process :
              /\ summary'[x] => summary[x]
              /\ \/ copies'[x] = copies[x] /\ summary'[x] = summary[x]
                 \/ r = "kept" /\ x = d
<1>0. /\ outputs \in [Process -> SUBSET Nat] /\ trace \in [Process -> Nat]
      /\ tasksDir \in [Process -> BOOLEAN] /\ summary \in [Process -> BOOLEAN]
      /\ CopiesOK /\ (r = "work" \/ r = "kept") /\ "work" # "kept"
  BY DEF TypeOK, Root
<1>1. CASE root' = Touched(r, d) /\ UNCHANGED contents
  BY <1>0, <1>1 DEF contents, CopiesOK
<1>2. CASE r = "work" /\ RemoveFromWork(d)
  <2>1. /\ root' = Touched(r, d) /\ UNCHANGED <<tasksDir, copies, summary>>
        /\ outputs' = outputs \/ \E t \in outputs[d] : outputs' = [outputs EXCEPT ![d] = @ \ {t}]
        /\ trace' = trace \/ trace' = [trace EXCEPT ![d] = 0]
    BY <1>2 DEF RemoveFromWork
  <2>2. outputs' \in [Process -> SUBSET Nat]
    BY <1>0, <2>1
  <2>3. trace' \in [Process -> Nat]
    BY <1>0, <2>1
  <2>4. CopiesOK'
    BY <1>0, <2>1 DEF CopiesOK
  <2> QED
    BY <1>0, <2>1, <2>2, <2>3, <2>4
<1>3. CASE r = "kept" /\ d \in Process /\ RemoveFromKept(d)
  <2>1. /\ root' = root \/ root' = Touched(r, d)
        /\ UNCHANGED <<outputs, trace>>
        /\ copies' = copies \/ \E t \in DOMAIN copies[d] : copies' = [copies EXCEPT ![d][t] = 0]
        /\ tasksDir' = tasksDir \/ tasksDir' = [tasksDir EXCEPT ![d] = FALSE]
        /\ summary' = summary \/ summary' = [summary EXCEPT ![d] = FALSE]
    BY <1>3 DEF RemoveFromKept
  <2>2. CopiesOK' /\ \A x \in Process : x # d => copies'[x] = copies[x]
    <3>1. CASE copies' = copies
      BY <1>0, <3>1 DEF CopiesOK
    <3>2. ASSUME NEW t \in DOMAIN copies[d], copies' = [copies EXCEPT ![d][t] = 0]
          PROVE  CopiesOK' /\ \A x \in Process : x # d => copies'[x] = copies[x]
      <4>1. /\ copies[d] \in [1 .. request[d].tasks -> Nat]
            /\ copies = [x \in Process |-> copies[x]]
        BY <1>0, <1>3 DEF CopiesOK
      <4>2. [copies[d] EXCEPT ![t] = 0] \in [1 .. request[d].tasks -> Nat]
        BY <4>1
      <4>3. /\ copies' = [x \in Process |-> copies'[x]]
            /\ copies'[d] = [copies[d] EXCEPT ![t] = 0]
            /\ \A x \in Process : x # d => copies'[x] = copies[x]
        BY <1>3, <3>2, <4>1
      <4> QED
        BY <1>0, <4>2, <4>3 DEF CopiesOK
    <3> QED
      BY <2>1, <3>1, <3>2
  <2>3. tasksDir' \in [Process -> BOOLEAN]
    BY <1>0, <2>1
  <2>4. /\ summary' \in [Process -> BOOLEAN]
        /\ \A x \in Process : summary'[x] => summary[x]
        /\ \A x \in Process : x # d => summary'[x] = summary[x]
    BY <1>0, <2>1
  <2> QED
    BY <1>0, <1>3, <2>1, <2>2, <2>3, <2>4
<1> QED
  BY <1>0, <1>1, <1>2, <1>3 DEF Dir

LEMMA RemoveEntryStep ==
  ASSUME FrontInv, NEW p \in Process, NEW r \in Root, Removes(p, r),
         NEW d, RemoveEntry(p, r, d)
  PROVE  FrontInv'
<1> "work" \in Root /\ "kept" \in Root /\ "work" # "kept" /\ (r = "work" \/ r = "kept")
  BY DEF Root
<1>1. /\ d \in doomed[p] /\ d \in In(r)
      /\ damaged' = [damaged EXCEPT ![r] = @ \cup {d}]
      /\ UNCHANGED <<request, at, doomed, listed, next, verdict, made>>
  BY DEF RemoveEntry, control
<1>2. /\ d \in Dir
      /\ d \in Process => Crowded(r, d) \/ (d = p /\ at[p] = "cleanup" /\ r = "work")
  BY <1>1, Removable DEF Dir
<1>3. /\ root' = Touched(r, d) \/ (root' = root /\ d \in Process)
      /\ outputs' \in [Process -> SUBSET Nat] /\ trace' \in [Process -> Nat]
      /\ tasksDir' \in [Process -> BOOLEAN] /\ summary' \in [Process -> BOOLEAN]
      /\ CopiesOK'
      /\ \A x \in Process :
           /\ summary'[x] => summary[x]
           /\ \/ copies'[x] = copies[x] /\ summary'[x] = summary[x]
              \/ r = "kept" /\ x = d
  BY <1>1, <1>2, EntryGone DEF RemoveEntry, FrontInv
<1>4. TypeOK'
  BY <1>1, <1>3 DEF FrontInv, TypeOK
<1>5. /\ RootsOK'
      /\ \A x \in Root : In(x)' = In(x)
      /\ damaged'[r] = damaged[r] \cup {d}
      /\ \A x \in Root \ {r} : damaged'[x] = damaged[x]
  BY <1>1, <1>3, RootDamaged DEF FrontInv
<1>6. Grows
  BY <1>1, <1>5 DEF Grows
<1>7. ASSUME NEW x \in Root, NEW q \in Process
      PROVE  /\ Intact(x, q)' => Intact(x, q)
             /\ Intact(x, q) => Intact(x, q)' \/ (q = d /\ x = r)
  BY <1>5 DEF Intact
<1>8. ASSUME NEW q \in Process \ {p}
      PROVE  ProcessOK(q)'
  <2>1. \A x \in Root : Intact(x, q) => Intact(x, q)' \/ Crowded(x, q)
    BY <1>2, <1>7
  <2>2. \/ copies'[q] = copies[q] /\ summary'[q] = summary[q]
        \/ q \in damaged'["kept"] /\ (summary'[q] => summary[q])
    BY <1>3, <1>5
  <2>3. Spares(q)
    BY <1>1, <1>5, <2>1, <2>2 DEF Spares
  <2> QED
    BY <2>3, <1>5, <1>6, OthersSpared
<1>9. ProcessOK(p)'
  <2>1. Intact("kept", p) => Intact("kept", p)' \/ Crowded("kept", p)
    BY <1>2, <1>7
  <2>2. Intact("kept", p)' => Intact("kept", p)
    BY <1>7
  <2>3. /\ copies'[p] = copies[p] \/ (r = "kept" /\ p \in damaged'[r])
        /\ summary'[p] => summary[p]
        /\ summary'[p] = summary[p] \/ (r = "kept" /\ p \in damaged'[r])
    BY <1>3, <1>5
  <2>4. doomed'[p] = doomed[p] /\ listed'[p] = listed[p] /\ In(r)' = In(r)
    BY <1>1, <1>5
  <2> QED
    BY <1>1, <1>4, <1>5, <1>6, <2>1, <2>2, <2>3, <2>4, RemoverOK
<1> QED
  BY <1>4, <1>5, <1>8, <1>9 DEF FrontInv

LEMMA RemoveDirectoryStep ==
  ASSUME FrontInv, NEW p \in Process, NEW r \in Root, Removes(p, r),
         NEW d, RemoveDirectory(p, r, d)
  PROVE  FrontInv'
<1> "work" \in Root /\ "kept" \in Root /\ "work" # "kept" /\ (r = "work" \/ r = "kept")
  BY DEF Root
<1>1. /\ d \in doomed[p] /\ doomed' = [doomed EXCEPT ![p] = @ \ {d}]
      /\ \/ root' = Without(r, d) /\ listed' = listed
         \/ /\ root' = root
            /\ listed' = IF r = "kept" THEN [listed EXCEPT ![p] = @ \ {d}] ELSE listed
      /\ UNCHANGED <<request, at, next, outputs, trace, tasksDir, copies, summary, verdict,
                     made, damaged>>
  BY DEF RemoveDirectory, contents
<1>2. d \in Process => Crowded(r, d) \/ (d = p /\ at[p] = "cleanup" /\ r = "work")
  BY <1>1, Removable
<1>3. /\ doomed' \in [Process -> SUBSET Dir] /\ doomed'[p] = doomed[p] \ {d}
      /\ listed' \in [Process -> SUBSET Dir]
      /\ listed'[p] = listed[p] \/ (listed'[p] = listed[p] \ {d} /\ r = "kept")
      /\ \A q \in Process \ {p} : doomed'[q] = doomed[q] /\ listed'[q] = listed[q]
  BY <1>1 DEF FrontInv, TypeOK
<1>4. TypeOK'
  BY <1>1, <1>3 DEF FrontInv, TypeOK, CopiesOK
<1>5. /\ RootsOK'
      /\ \A x \in Root : In(x)' = In(x) \/ (x = r /\ In(x)' = In(x) \ {d})
      /\ In(r)' = In(r) \ {d} \/ r = "work" \/ listed'[p] = listed[p] \ {d}
  <2>1. CASE root' = Without(r, d) /\ listed' = listed
    BY <1>1, <2>1, RootWithout DEF FrontInv
  <2>2. CASE /\ root' = root
             /\ listed' = IF r = "kept" THEN [listed EXCEPT ![p] = @ \ {d}] ELSE listed
    <3>1. RootsOK' /\ \A x \in Root : In(x)' = In(x)
      BY <1>1, <2>2, RootSame DEF FrontInv
    <3>2. r = "kept" => listed'[p] = listed[p] \ {d}
      BY <2>2 DEF FrontInv, TypeOK
    <3> QED
      BY <3>1, <3>2
  <2> QED
    BY <1>1, <2>1, <2>2
<1>6. Grows
  BY <1>1 DEF Grows
<1>7. ASSUME NEW x \in Root, NEW q \in Process
      PROVE  /\ Intact(x, q)' => Intact(x, q)
             /\ Intact(x, q) => Intact(x, q)' \/ (q = d /\ x = r)
  BY <1>1, <1>5 DEF Intact
<1>8. ASSUME NEW q \in Process \ {p}
      PROVE  ProcessOK(q)'
  <2>1. \A x \in Root : Intact(x, q) => Intact(x, q)' \/ Crowded(x, q)
    BY <1>2, <1>7
  <2>2. Spares(q)
    BY <1>1, <1>3, <1>5, <2>1 DEF Spares
  <2> QED
    BY <2>2, <1>5, <1>6, OthersSpared
<1>9. ProcessOK(p)'
  <2>1. Intact("kept", p) => Intact("kept", p)' \/ Crowded("kept", p)
    BY <1>2, <1>7
  <2>2. Intact("kept", p)' => Intact("kept", p)
    BY <1>7
  <2>3. copies'[p] = copies[p] /\ summary'[p] = summary[p]
    BY <1>1
  <2>4. doomed'[p] \subseteq doomed[p] /\ listed'[p] \subseteq listed[p]
    BY <1>3
  <2>5. r = "kept" => (In(r)' \cap listed'[p]) \ doomed'[p]
                        \subseteq (In(r) \cap listed[p]) \ doomed[p]
    BY <1>3, <1>5
  <2>6. UNCHANGED <<request, at, next, verdict, made>>
    BY <1>1
  <2> QED
    BY <1>4, <1>5, <1>6, <2>1, <2>2, <2>3, <2>4, <2>5, <2>6, RemoverOK
<1> QED
  BY <1>4, <1>5, <1>8, <1>9 DEF FrontInv

LEMMA PruneStep ==
  ASSUME FrontInv, NEW p \in Process, ListWork(p) \/ ListKept(p) \/ Prune(p)
  PROVE  FrontInv'
<1> "work" \in Root /\ "kept" \in Root
  BY DEF Root
<1>1. CASE ListWork(p)
  <2>1. at[p] = "listWork" /\ at[p] \notin Leaving
    BY <1>1 DEF ListWork, Leaving
  <2>2. CASE Fail(p, 2, "none")
    BY <2>1, <2>2, FailStep
  <2>3. CASE List(p, "work") /\ Goto(p, "pruneWork")
    BY <2>1, <2>3, ListStep DEF PlaceOf
  <2> QED
    BY <1>1, <2>2, <2>3 DEF ListWork
<1>2. CASE ListKept(p)
  <2>1. at[p] = "listKept" /\ at[p] \notin Leaving
    BY <1>2 DEF ListKept, Leaving
  <2>2. CASE Fail(p, 2, "none")
    BY <2>1, <2>2, FailStep
  <2>3. CASE List(p, "kept") /\ Goto(p, "pruneKept")
    BY <2>1, <2>3, ListStep DEF PlaceOf
  <2> QED
    BY <1>2, <2>2, <2>3 DEF ListKept
<1>3. CASE Prune(p)
  <2>1. ASSUME NEW r \in Root, at[p] = PlaceOf(r), NEW d \in doomed[p],
               RemoveEntry(p, r, d) \/ RemoveDirectory(p, r, d)
        PROVE  FrontInv'
    BY <2>1, RemoveEntryStep, RemoveDirectoryStep DEF Removes
  <2>2. CASE /\ at[p] = "pruneWork"
             /\ \E d \in doomed[p] : RemoveEntry(p, "work", d) \/ RemoveDirectory(p, "work", d)
    BY <2>1, <2>2 DEF PlaceOf
  <2>3. CASE /\ at[p] = "pruneKept"
             /\ \E d \in doomed[p] : RemoveEntry(p, "kept", d) \/ RemoveDirectory(p, "kept", d)
    BY <2>1, <2>3 DEF PlaceOf
  <2>4. CASE /\ at[p] = "pruneWork" /\ doomed[p] = {} /\ Goto(p, "listKept")
             /\ UNCHANGED <<request, doomed, listed, next, root, contents, verdict, made, damaged>>
    BY <2>4, PrunedStep DEF PlaceOf
  <2>5. CASE /\ at[p] = "pruneKept" /\ doomed[p] = {} /\ Goto(p, "session")
             /\ UNCHANGED <<request, doomed, listed, next, root, contents, verdict, made, damaged>>
    BY <2>5, PrunedStep DEF PlaceOf
  <2> QED
    BY <1>3, <2>2, <2>3, <2>4, <2>5 DEF Prune
<1> QED
  BY <1>1, <1>2, <1>3

LEMMA CleanupStep ==
  ASSUME FrontInv, NEW p \in Process, Cleanup(p)
  PROVE  FrontInv'
<1>1. "work" \in Root /\ Removes(p, "work")
  BY DEF Root, Removes, Cleanup
<1>2. CASE RemoveEntry(p, "work", p) \/ RemoveDirectory(p, "work", p)
  BY <1>1, <1>2, RemoveEntryStep, RemoveDirectoryStep
<1>3. CASE /\ Leave(p, "ended", {})
           /\ UNCHANGED <<request, root, contents, verdict, made, damaged>>
  BY <1>3, GoneStep
<1> QED
  BY <1>2, <1>3 DEF Cleanup

-----------------------------------------------------------------------------
(* The steps of a run.                                                     *)

\* What a run changes of the roots is where its own directory stands.
LEMMA OwnRoots ==
  ASSUME RootsOK, NEW p \in Process, damaged' = damaged,
         \/ root' = root /\ made' = made
         \/ \E r \in Root :
              /\ root' = Touched(r, p)
              /\ \/ made' = made /\ p \in made[r] /\ (r = "kept" => p \in In("kept"))
                 \/ made' = [made EXCEPT ![r] = @ \cup {p}] /\ p \notin made[r]
  PROVE  /\ RootsOK'
         /\ \A x \in Root :
              /\ made'[x] = made[x] \/ made'[x] = made[x] \cup {p}
              /\ \/ In(x)' = In(x)
                 \/ In(x)' = In(x) \cup {p} /\ (x = "kept" => p \in In(x) \/ p \notin made["kept"])
              /\ p \in made'[x] => p \in In(x)' \/ (p \in made[x] /\ In(x)' = In(x))
<1>1. CASE root' = root /\ made' = made
  BY <1>1, RootSame
<1>2. CASE ~(root' = root /\ made' = made)
  <2>1. PICK r \in Root :
          /\ root' = Touched(r, p)
          /\ \/ made' = made /\ p \in made[r] /\ (r = "kept" => p \in In("kept"))
             \/ made' = [made EXCEPT ![r] = @ \cup {p}] /\ p \notin made[r]
    BY <1>2
  <2>2. /\ RootsOK' /\ In(r)' = In(r) \cup {p} /\ made'[r] = made[r] \cup {p}
        /\ \A x \in Root \ {r} : In(x)' = In(x) /\ made'[x] = made[x]
    BY <2>1, RootTouched
  <2>3. r = "kept" => p \in In(r) \/ p \notin made["kept"]
    BY <2>1
  <2>4. ASSUME NEW x \in Root
        PROVE  /\ made'[x] = made[x] \/ made'[x] = made[x] \cup {p}
               /\ \/ In(x)' = In(x)
                  \/ In(x)' = In(x) \cup {p} /\ (x = "kept" => p \in In(x) \/ p \notin made["kept"])
               /\ p \in made'[x] => p \in In(x)' \/ (p \in made[x] /\ In(x)' = In(x))
    <3>1. CASE x # r
      BY <3>1, <2>2
    <3>2. CASE x = r
      <4>1. In(x)' = In(x) \cup {p}
        BY <3>2, <2>2 DEF In
      <4>2. p \in In(x)'
        BY <4>1
      <4>3. made'[x] = made[x] \cup {p}
        BY <3>2, <2>2
      <4>4. x = "kept" => p \in In(x) \/ p \notin made["kept"]
        BY <3>2, <2>3
      <4> QED
        BY <4>1, <4>2, <4>3, <4>4
    <3> QED
      BY <3>1, <3>2
  <2> QED
    BY <2>2, <2>4
<1> QED
  BY <1>1, <1>2

\* A step of the run of p: what Progress and Filled say is for each action
\* to show, the rest follows.
LEMMA RunStep ==
  ASSUME FrontInv, NEW p \in Process, at[p] \in {"session"} \cup Running,
         NEW place \in Running, Goto(p, place),
         NEW n \in Nat, next' = [next EXCEPT ![p] = n],
         CopiesOK', \A q \in Process \ {p} : copies'[q] = copies[q],
         NEW s \in BOOLEAN, summary' = [summary EXCEPT ![p] = s],
         outputs' \in [Process -> SUBSET Nat], trace' \in [Process -> Nat],
         tasksDir' \in [Process -> BOOLEAN],
         UNCHANGED <<request, doomed, listed, verdict, damaged>>,
         \/ root' = root /\ made' = made
         \/ \E r \in Root :
              /\ root' = Touched(r, p)
              /\ \/ made' = made /\ p \in made[r] /\ (r = "kept" => p \in In("kept"))
                 \/ made' = [made EXCEPT ![r] = @ \cup {p}] /\ p \notin made[r],
         Progress(p)', Filled(p)'
  PROVE  FrontInv'
<1> "work" \in Root /\ "kept" \in Root /\ "work" # "kept"
  BY DEF Root
<1>0. ProcessOK(p)
  BY DEF FrontInv
<1>1. /\ at'[p] = place
      /\ \A q \in Process \ {p} :
           /\ at'[q] = at[q] /\ next'[q] = next[q] /\ summary'[q] = summary[q]
  BY DEF FrontInv, TypeOK, Goto
<1>2. TypeOK'
  <2>1. at' \in [Process -> Preparing \cup Running \cup Leaving]
    BY DEF FrontInv, TypeOK, Goto
  <2>2. next' \in [Process -> Nat] /\ summary' \in [Process -> BOOLEAN]
    BY DEF FrontInv, TypeOK
  <2> QED
    BY <2>1, <2>2 DEF FrontInv, TypeOK
<1>3. /\ RootsOK'
      /\ \A x \in Root :
           /\ made'[x] = made[x] \/ made'[x] = made[x] \cup {p}
           /\ \/ In(x)' = In(x)
              \/ In(x)' = In(x) \cup {p} /\ (x = "kept" => p \in In(x) \/ p \notin made["kept"])
           /\ p \in made'[x] => p \in In(x)' \/ (p \in made[x] /\ In(x)' = In(x))
  BY OwnRoots DEF FrontInv
<1>4. ProcessOK(p)'
  <2>1. verdict'[p] = NoVerdict /\ at[p] \notin Leaving
    BY <1>0 DEF ProcessOK, Reported, Running, Leaving
  <2>2. Reported(p)'
    BY <1>1, <2>1 DEF Reported, Running
  <2>3. DoomedOK(p)'
    BY <1>1 DEF DoomedOK, PlaceOf, Running
  <2>4. Survives(p)'
    <3> SUFFICES ASSUME NEW x \in Root, p \in made'[x]
                 PROVE  Intact(x, p)' \/ Crowded(x, p)'
      BY Zenon DEF Survives
    <3>1. Crowded(x, p) => Crowded(x, p)'
      <4>1. Grows
        BY <1>3 DEF Grows
      <4> QED
        BY <4>1, <1>3, StaysCrowded DEF FrontInv
    <3>2. CASE p \in made[x]
      <4>1. Intact(x, p) \/ Crowded(x, p)
        BY <1>0, <2>1, <3>2 DEF ProcessOK, Survives, Discarded
      <4>2. Intact(x, p) => Intact(x, p)'
        BY <1>3 DEF Intact
      <4> QED
        BY <4>1, <4>2, <3>1
    <3>3. CASE p \notin made[x]
      <4>1. p \in In(x)'
        BY <1>3, <3>3
      <4>2. p \notin damaged[x]
        BY <3>3, FrontEndAssumption DEF FrontInv, RootsOK
      <4> QED
        BY <4>1, <4>2 DEF Intact
    <3> QED
      BY <3>2, <3>3
  <2>5. ListedOK(p)'
    <3>1. listed[p] \subseteq Old \cup made["kept"] /\ p \notin Old
      BY <1>0, FrontEndAssumption DEF ProcessOK, ListedOK
    <3>2. made["kept"] \subseteq made'["kept"]
      BY <1>3
    <3>3. In("kept")' \cap listed'[p] = In("kept") \cap listed[p]
      BY <3>1, <1>3
    <3>4. Retains(p) => Cardinality(In("kept") \cap listed[p]) <= Limit - 1
      BY <1>0 DEF ProcessOK, ListedOK
    <3>5. at'[p] # "pruneKept"
      BY <1>1 DEF Running
    <3>6. Retains(p)' = Retains(p)
      BY DEF Retains
    <3> QED
      BY <3>1, <3>2, <3>3, <3>4, <3>5, <3>6 DEF ListedOK
  <2> QED
    BY <2>2, <2>3, <2>4, <2>5 DEF ProcessOK
<1>5. \A r \in Root : made'[r] = made[r] \/ made'[r] = made[r] \cup {p}
  BY <1>3
<1>6. \A r \in Root :
        \/ In(r)' = In(r)
        \/ /\ In(r)' = In(r) \cup {p}
           /\ r = "kept" => p \in In(r) \/ p \notin made["kept"]
  BY <1>3
<1>7. \A q \in Process \ {p} :
        /\ at'[q] = at[q] /\ next'[q] = next[q] /\ doomed'[q] = doomed[q]
        /\ listed'[q] = listed[q] /\ verdict'[q] = verdict[q]
        /\ copies'[q] = copies[q] /\ summary'[q] = summary[q]
  BY <1>1
<1> QED
  BY <1>2, <1>3, <1>4, <1>5, <1>6, <1>7, OwnStep

\* Before its profiles are retained, a run has nothing there.
LEMMA NotRetained ==
  ASSUME FrontInv, NEW p \in Process, p \notin made["kept"]
  PROVE  ~summary[p] /\ p \notin In("kept")
BY FrontEndAssumption DEF FrontInv, ProcessOK, Filled, RootsOK, Root

\* The copies stay as they are.
LEMMA SameCopies ==
  ASSUME TypeOK, request' = request, copies' = copies
  PROVE  CopiesOK' /\ \A q \in Process : copies'[q] = copies[q]
BY DEF TypeOK, CopiesOK

LEMMA CreateDirectoryStep ==
  ASSUME FrontInv, NEW p \in Process, CreateDirectory(p)
  PROVE  FrontInv'
<1> "work" \in Root /\ "kept" \in Root /\ "work" # "kept"
  BY DEF Root
<1>0. at[p] = "session" /\ at[p] \notin Leaving /\ ProcessOK(p)
  BY DEF FrontInv, CreateDirectory, Leaving
<1>1. CASE Fail(p, ErrorCode(p), "none")
  <2>1. ErrorCode(p) \in {1, 2, 4}
    BY DEF ErrorCode
  <2> QED
    BY <1>0, <1>1, <2>1, FailStep
<1>2. CASE /\ root' = Touched("work", p)
           /\ made' = [made EXCEPT !["work"] = @ \cup {p}]
           /\ Goto(p, "task")
           /\ UNCHANGED <<request, doomed, listed, next, contents, verdict, damaged>>
  <2>1. /\ next[p] = 1 /\ p \notin made["work"] /\ p \notin made["kept"] /\ ~summary[p]
        /\ request[p].run /\ verdict[p] = NoVerdict
    BY <1>0, NotRetained DEF ProcessOK, Progress, Reported, Preparing
  <2>2. /\ next' = [next EXCEPT ![p] = next[p]] /\ next[p] \in Nat
        /\ copies' = copies
        /\ summary' = [summary EXCEPT ![p] = summary[p]] /\ summary[p] \in BOOLEAN
        /\ outputs' \in [Process -> SUBSET Nat] /\ trace' \in [Process -> Nat]
        /\ tasksDir' \in [Process -> BOOLEAN]
    BY <1>2 DEF contents, FrontInv, TypeOK
  <2>3. at'[p] = "task" /\ next'[p] = 1 /\ summary'[p] = summary[p]
    BY <1>2, <2>1 DEF FrontInv, TypeOK, Goto, contents
  <2>4. p \in made'["work"] /\ p \notin made'["kept"]
    BY <1>2, <2>1 DEF FrontInv, RootsOK
  <2>5. 1 \in 1 .. request[p].tasks
    BY RequestOK DEF FrontInv, RequestShape
  <2>6. Progress(p)'
    BY <1>2, <2>1, <2>3, <2>4, <2>5 DEF Progress, Preparing, Running, Leaving
  <2>7. Filled(p)'
    BY <1>2, <2>1, <2>3 DEF Filled, Success, NoVerdict
  <2>8. "task" \in Running
    BY DEF Running
  <2>9. UNCHANGED <<request, doomed, listed, verdict, damaged>>
    BY <1>2
  <2>10. CopiesOK' /\ \A q \in Process : copies'[q] = copies[q]
    BY <2>2, <2>9, SameCopies DEF FrontInv
  <2> QED
    BY <1>0, <1>2, <2>1, <2>2, <2>6, <2>7, <2>8, <2>9, <2>10, RunStep
<1> QED
  BY <1>1, <1>2 DEF CreateDirectory

\* Where p goes after a task, with what it has counted.
LEMMA AfterTaskPlace ==
  ASSUME FrontInv, NEW p \in Process, at[p] \in {"task", "trace"},
         Goto(p, AfterTask(p)), next' = [next EXCEPT ![p] = @ + 1],
         request' = request, made' = made, summary' = summary, verdict' = verdict
  PROVE  AfterTask(p) \in Running /\ Progress(p)' /\ Filled(p)'
<1> "work" \in Root /\ "kept" \in Root /\ "work" # "kept"
  BY DEF Root
<1>0. /\ ProcessOK(p) /\ at'[p] = AfterTask(p) /\ next'[p] = next[p] + 1
      /\ next[p] \in Nat /\ request[p].tasks \in Nat
  BY RequestOK DEF FrontInv, TypeOK, Goto, RequestShape
<1>1. /\ request[p].run /\ verdict[p] = NoVerdict
      /\ p \in made["work"] /\ p \notin made["kept"] /\ next[p] \in 1 .. request[p].tasks
  BY <1>0 DEF ProcessOK, Progress, Reported, Running, Leaving
<1>2. /\ AfterTask(p) \in {"task", "retain", "done"}
      /\ AfterTask(p) = "task" => next[p] + 1 \in 1 .. request[p].tasks
      /\ AfterTask(p) = "retain" => Retains(p)
      /\ AfterTask(p) = "done" => ~Retains(p)
  BY <1>0, <1>1 DEF AfterTask
<1>3. Retains(p)' = Retains(p) /\ ~summary[p]
  BY <1>1, NotRetained DEF Retains
<1> HIDE DEF AfterTask, Retains
<1>4. Progress(p)'
  BY <1>0, <1>1, <1>2, <1>3 DEF Progress, Preparing, Running, Leaving
<1>5. Filled(p)'
  BY <1>0, <1>1, <1>2, <1>3 DEF Filled, Success, NoVerdict
<1> QED
  BY <1>2, <1>4, <1>5 DEF Running

LEMMA RunTaskStep ==
  ASSUME FrontInv, NEW p \in Process, RunTask(p)
  PROVE  FrontInv'
<1> "work" \in Root /\ "kept" \in Root /\ "work" # "kept"
  BY DEF Root
<1> DEFINE t == next[p]
           here == request[p].cli
           readable == t = 1 \/ t - 1 \in outputs[p]
           result ==
             /\ readable /\ (here => p \in In("work"))
             /\ outputs' = IF here THEN [outputs EXCEPT ![p] = @ \cup {t}] ELSE outputs
             /\ root' = IF here THEN Touched("work", p) ELSE root
             /\ IF request[p].profiling /\ ~request[p].npu
                THEN Goto(p, "trace") /\ UNCHANGED next
                ELSE Goto(p, AfterTask(p)) /\ next' = [next EXCEPT ![p] = @ + 1]
             /\ UNCHANGED <<request, doomed, listed, trace, tasksDir, copies, summary, verdict,
                            made, damaged>>
<1>0. /\ at[p] = "task" /\ at[p] \notin Leaving /\ ProcessOK(p)
      /\ ErrorCode(p) \in {1, 2, 4}
  BY DEF FrontInv, RunTask, ErrorCode, Leaving
<1>1. request[p].run /\ p \in made["work"] /\ p \notin made["kept"] /\ next[p] \in Nat
  BY <1>0 DEF FrontInv, TypeOK, ProcessOK, Progress, Running
<1>2. CASE Fail(p, ErrorCode(p), "bindings")
  BY <1>0, <1>2, FailStep
<1>3. CASE Fail(p, ErrorCode(p), "kernel_launch")
  BY <1>0, <1>3, FailStep
<1>4. CASE Fail(p, ErrorCode(p), "validate")
  BY <1>0, <1>4, FailStep
<1>5. CASE Fail(p, 2, "write_outputs")
  BY <1>0, <1>5, FailStep
<1>6. CASE result
  <2>1. /\ summary' = summary
        /\ summary' = [summary EXCEPT ![p] = summary[p]] /\ summary[p] \in BOOLEAN
        /\ trace' \in [Process -> Nat] /\ tasksDir' \in [Process -> BOOLEAN]
    BY <1>6 DEF FrontInv, TypeOK
  <2>2. outputs' \in [Process -> SUBSET Nat]
    <3>1. outputs \in [Process -> SUBSET Nat]
      BY DEF FrontInv, TypeOK
    <3>2. outputs' = [outputs EXCEPT ![p] = @ \cup {t}] \/ outputs' = outputs
      BY <1>6
    <3> QED
      BY <1>1, <3>1, <3>2
  <2>3. \/ root' = root /\ made' = made
        \/ \E r \in Root :
             /\ root' = Touched(r, p)
             /\ \/ made' = made /\ p \in made[r] /\ (r = "kept" => p \in In("kept"))
                \/ made' = [made EXCEPT ![r] = @ \cup {p}] /\ p \notin made[r]
    <3>1. root' = Touched("work", p) \/ root' = root
      BY <1>6
    <3>2. made' = made
      BY <1>6
    <3> QED
      BY <1>1, <3>1, <3>2
  <2>4. UNCHANGED <<request, doomed, listed, verdict, damaged>> /\ made' = made
    BY <1>6
  <2>5. CopiesOK' /\ \A q \in Process : copies'[q] = copies[q]
    BY <1>6, SameCopies DEF FrontInv
  <2>6. CASE Goto(p, "trace") /\ UNCHANGED next
    <3>1. /\ at'[p] = "trace" /\ next'[p] = next[p] /\ verdict'[p] = NoVerdict
          /\ next' = [next EXCEPT ![p] = next[p]]
      BY <1>0, <2>4, <2>6 DEF FrontInv, TypeOK, Goto, ProcessOK, Reported
    <3>2. Progress(p)'
      BY <1>0, <2>4, <3>1 DEF ProcessOK, Progress, Preparing, Running, Leaving
    <3>3. ~summary'[p]
      BY <1>1, <2>1, NotRetained
    <3>4. Filled(p)'
      BY <3>1, <3>3 DEF Filled, Success, NoVerdict
    <3>5. "trace" \in Running /\ at[p] \in {"session"} \cup Running
      BY <1>0 DEF Running
    <3> HIDE DEF result
    <3> QED
      BY <1>1, <2>1, <2>2, <2>3, <2>4, <2>5, <2>6, <3>1, <3>2, <3>4, <3>5, RunStep
  <2>7. CASE Goto(p, AfterTask(p)) /\ next' = [next EXCEPT ![p] = @ + 1]
    <3>1. AfterTask(p) \in Running /\ Progress(p)' /\ Filled(p)'
      BY <1>0, <2>1, <2>4, <2>7, AfterTaskPlace
    <3>2. next[p] + 1 \in Nat /\ at[p] \in {"session"} \cup Running
      BY <1>0, <1>1 DEF Running
    <3> HIDE DEF result
    <3> QED
      BY <2>1, <2>2, <2>3, <2>4, <2>5, <2>7, <3>1, <3>2, RunStep
  <2> QED
    BY <1>6, <2>6, <2>7
<1> QED
  <2>1. \/ ~readable /\ Fail(p, ErrorCode(p), "bindings")
        \/ readable /\ Fail(p, ErrorCode(p), "kernel_launch")
        \/ readable /\ t \in request[p].expected /\ Fail(p, ErrorCode(p), "validate")
        \/ readable /\ here /\ p \notin In("work") /\ Fail(p, 2, "write_outputs")
        \/ result
    BY DEF RunTask
  <2> QED
    BY <2>1, <1>2, <1>3, <1>4, <1>5, <1>6

LEMMA WriteTraceStep ==
  ASSUME FrontInv, NEW p \in Process, WriteTrace(p)
  PROVE  FrontInv'
<1> "work" \in Root /\ "kept" \in Root /\ "work" # "kept"
  BY DEF Root
<1>0. /\ at[p] = "trace" /\ at[p] \notin Leaving /\ ProcessOK(p)
      /\ ErrorCode(p) \in {1, 2, 4}
  BY DEF FrontInv, WriteTrace, ErrorCode, Leaving
<1>1. p \in made["work"] /\ next[p] \in Nat
  BY <1>0 DEF FrontInv, TypeOK, ProcessOK, Progress, Running
<1>2. CASE Fail(p, ErrorCode(p), "profiling")
  BY <1>0, <1>2, FailStep
<1>3. CASE /\ root' = IF trace[p] = 0 THEN Touched("work", p) ELSE root
           /\ trace' = [trace EXCEPT ![p] = next[p]]
           /\ next' = [next EXCEPT ![p] = @ + 1]
           /\ Goto(p, AfterTask(p))
           /\ UNCHANGED <<request, doomed, listed, outputs, tasksDir, copies, summary, verdict,
                          made, damaged>>
  <2>1. /\ summary' = summary
        /\ summary' = [summary EXCEPT ![p] = summary[p]] /\ summary[p] \in BOOLEAN
        /\ outputs' \in [Process -> SUBSET Nat] /\ tasksDir' \in [Process -> BOOLEAN]
    BY <1>3 DEF FrontInv, TypeOK
  <2>2. trace' \in [Process -> Nat]
    BY <1>1, <1>3 DEF FrontInv, TypeOK
  <2>3. \/ root' = root /\ made' = made
        \/ \E r \in Root :
             /\ root' = Touched(r, p)
             /\ \/ made' = made /\ p \in made[r] /\ (r = "kept" => p \in In("kept"))
                \/ made' = [made EXCEPT ![r] = @ \cup {p}] /\ p \notin made[r]
    <3>1. root' = Touched("work", p) \/ root' = root
      BY <1>3
    <3>2. made' = made
      BY <1>3
    <3> QED
      BY <1>1, <3>1, <3>2
  <2>4. /\ UNCHANGED <<request, doomed, listed, verdict, damaged>> /\ made' = made
        /\ Goto(p, AfterTask(p)) /\ next' = [next EXCEPT ![p] = @ + 1]
    BY <1>3
  <2>5. AfterTask(p) \in Running /\ Progress(p)' /\ Filled(p)'
    BY <1>0, <2>1, <2>4, AfterTaskPlace
  <2>6. next[p] + 1 \in Nat /\ at[p] \in {"session"} \cup Running
    BY <1>0, <1>1 DEF Running
  <2>7. CopiesOK' /\ \A q \in Process : copies'[q] = copies[q]
    BY <1>3, SameCopies DEF FrontInv
  <2> QED
    BY <2>1, <2>2, <2>3, <2>4, <2>5, <2>6, <2>7, RunStep
<1> QED
  BY <1>2, <1>3 DEF WriteTrace

LEMMA RetainStep ==
  ASSUME FrontInv, NEW p \in Process, Retain(p)
  PROVE  FrontInv'
<1> "work" \in Root /\ "kept" \in Root /\ "work" # "kept"
  BY DEF Root
<1>0. at[p] = "retain" /\ at[p] \notin Leaving /\ ProcessOK(p)
  BY DEF FrontInv, Retain, Leaving
<1>1. /\ request[p].run /\ Retains(p) /\ verdict[p] = NoVerdict
      /\ p \in made["work"] /\ p \notin made["kept"] /\ request[p].tasks \in Nat \ {0}
  BY <1>0, RequestOK DEF FrontInv, ProcessOK, Progress, Reported, Running, RequestShape
<1>2. CASE Fail(p, 2, "none")
  BY <1>0, <1>2, FailStep
<1>3. CASE /\ root' = Touched("kept", p)
           /\ made' = [made EXCEPT !["kept"] = @ \cup {p}]
           /\ tasksDir' = [tasksDir EXCEPT ![p] = TRUE]
           /\ next' = [next EXCEPT ![p] = 1]
           /\ Goto(p, IF request[p].profiling THEN "copy" ELSE "summarize")
           /\ UNCHANGED <<request, doomed, listed, outputs, trace, copies, summary, verdict,
                          damaged>>
  <2> DEFINE place == IF request[p].profiling THEN "copy" ELSE "summarize"
  <2>1. /\ summary' = [summary EXCEPT ![p] = summary[p]] /\ summary[p] \in BOOLEAN
        /\ outputs' \in [Process -> SUBSET Nat] /\ trace' \in [Process -> Nat]
        /\ tasksDir' \in [Process -> BOOLEAN] /\ summary'[p] = summary[p]
    BY <1>3 DEF FrontInv, TypeOK
  <2>2. at'[p] = place /\ next'[p] = 1
    BY <1>3 DEF FrontInv, TypeOK, Goto
  <2>3. p \in made'["work"] /\ p \in made'["kept"]
    BY <1>1, <1>3 DEF FrontInv, RootsOK
  <2>4. 1 \in 1 .. request[p].tasks /\ request' = request
    BY <1>1, <1>3
  <2>5. Progress(p)'
    BY <1>1, <2>2, <2>3, <2>4 DEF Progress, Retains, Preparing, Running, Leaving
  <2>6. Filled(p)'
    <3>1. ~summary'[p] /\ verdict'[p].code = -1
      BY <1>1, <1>3, <2>1, NotRetained DEF NoVerdict
    <3>2. place = "copy" \/ (place = "summarize" /\ AllCopied(p)')
      BY <2>4 DEF AllCopied
    <3>3. 1 .. next'[p] - 1 = {}
      BY <2>2
    <3> QED
      BY <2>2, <3>1, <3>2, <3>3 DEF Filled, Success
  <2>7. /\ place \in Running /\ at[p] \in {"session"} \cup Running /\ Goto(p, place)
        /\ next' = [next EXCEPT ![p] = 1]
        /\ UNCHANGED <<request, doomed, listed, verdict, damaged>>
    BY <1>0, <1>3 DEF Running
  <2>8. \E r \in Root :
          /\ root' = Touched(r, p)
          /\ \/ made' = made /\ p \in made[r] /\ (r = "kept" => p \in In("kept"))
             \/ made' = [made EXCEPT ![r] = @ \cup {p}] /\ p \notin made[r]
    BY <1>1, <1>3
  <2>9. CopiesOK' /\ \A q \in Process : copies'[q] = copies[q]
    BY <1>3, SameCopies DEF FrontInv
  <2> HIDE DEF place
  <2> QED
    BY <2>1, <2>5, <2>6, <2>7, <2>8, <2>9, RunStep
<1> QED
  BY <1>2, <1>3 DEF Retain

LEMMA CopyTraceStep ==
  ASSUME FrontInv, NEW p \in Process, CopyTrace(p)
  PROVE  FrontInv'
<1>0. at[p] = "copy" /\ at[p] \notin Leaving /\ ProcessOK(p)
  BY DEF FrontInv, CopyTrace, Leaving
<1>1. /\ request[p].run /\ Retains(p) /\ verdict[p] = NoVerdict /\ request[p].profiling
      /\ p \in made["work"] /\ p \in made["kept"] /\ next[p] \in 1 .. request[p].tasks
      /\ request[p].tasks \in Nat /\ next[p] \in Nat /\ trace[p] \in Nat
  BY <1>0, RequestOK
     DEF FrontInv, TypeOK, ProcessOK, Progress, Reported, Running, Leaving, RequestShape
<1>2. CASE Fail(p, 2, "none")
  BY <1>0, <1>2, FailStep
<1>3. CASE /\ trace[p] # 0 /\ tasksDir[p]
           /\ copies' = [copies EXCEPT ![p][next[p]] = trace[p]]
           /\ next' = [next EXCEPT ![p] = @ + 1]
           /\ Goto(p, IF next[p] < request[p].tasks THEN "copy" ELSE "summarize")
           /\ UNCHANGED <<request, doomed, listed, root, outputs, trace, tasksDir, summary,
                          verdict, made, damaged>>
  <2> DEFINE place == IF next[p] < request[p].tasks THEN "copy" ELSE "summarize"
  <2>1. /\ CopiesOK' /\ \A q \in Process \ {p} : copies'[q] = copies[q]
        /\ copies'[p][next[p]] # 0
        /\ \A t \in 1 .. request[p].tasks : t # next[p] => copies'[p][t] = copies[p][t]
    <3>1. request' = request /\ copies' = [copies EXCEPT ![p][next[p]] = trace[p]]
      BY <1>3
    <3>2. /\ copies = [q \in Process |-> copies[q]]
          /\ \A q \in Process : copies[q] \in [1 .. request[q].tasks -> Nat]
      BY DEF FrontInv, TypeOK, CopiesOK
    <3>3. /\ copies' = [q \in Process |-> copies'[q]]
          /\ copies'[p] = [copies[p] EXCEPT ![next[p]] = trace[p]]
          /\ \A q \in Process : q # p => copies'[q] = copies[q]
      BY <3>1, <3>2
    <3>4. copies'[p] \in [1 .. request[p].tasks -> Nat]
      BY <1>1, <3>2, <3>3
    <3>5. CopiesOK'
      BY <3>1, <3>2, <3>3, <3>4 DEF CopiesOK
    <3> QED
      BY <1>1, <1>3, <3>2, <3>3, <3>5
  <2>2. at'[p] = place /\ next'[p] = next[p] + 1
    BY <1>3 DEF FrontInv, TypeOK, Goto
  <2>3. /\ summary' = [summary EXCEPT ![p] = summary[p]] /\ summary[p] \in BOOLEAN
        /\ outputs' \in [Process -> SUBSET Nat] /\ trace' \in [Process -> Nat]
        /\ tasksDir' \in [Process -> BOOLEAN] /\ summary'[p] = summary[p]
    BY <1>3 DEF FrontInv, TypeOK
  <2>4. place = "summarize" => next[p] = request[p].tasks
    BY <1>1
  <2>5. place = "copy" => next[p] + 1 \in 1 .. request[p].tasks
    BY <1>1
  <2>6. place \in {"copy", "summarize"}
    OBVIOUS
  <2>7. /\ request' = request /\ made' = made /\ verdict' = verdict
        /\ root' = root /\ damaged' = damaged
    BY <1>3
  <2>8. /\ at[p] \in {"session"} \cup Running /\ Goto(p, place)
        /\ next' = [next EXCEPT ![p] = next[p] + 1] /\ next[p] + 1 \in Nat
        /\ UNCHANGED <<request, doomed, listed, verdict, damaged>>
    BY <1>0, <1>1, <1>3 DEF Running
  <2> HIDE DEF place
  <2>9. Progress(p)'
    BY <1>1, <2>2, <2>5, <2>6, <2>7 DEF Progress, Retains, Preparing, Running, Leaving
  <2>10. Filled(p)'
    <3>1. ~Success(p)'
      BY <1>1, <2>7 DEF Success, NoVerdict
    <3>2. Intact("kept", p)' => Intact("kept", p)
      BY <2>7 DEF Intact, In
    <3>3. ASSUME Intact("kept", p)
          PROVE  \A t \in 1 .. next[p] : copies'[p][t] # 0
      <4>1. \A t \in 1 .. next[p] - 1 : copies[p][t] # 0
        BY <1>0, <3>3 DEF ProcessOK, Filled
      <4> QED
        BY <1>1, <2>1, <4>1
    <3>4. ASSUME Intact("kept", p), summary[p]
          PROVE  AllCopied(p)'
      <4>1. \A t \in 1 .. request[p].tasks : copies[p][t] # 0
        BY <1>0, <1>1, <3>4 DEF ProcessOK, Filled, AllCopied
      <4> QED
        BY <1>1, <2>1, <2>7, <4>1 DEF AllCopied
    <3>5. place = "summarize" /\ Intact("kept", p) => AllCopied(p)'
      BY <2>4, <2>7, <3>3 DEF AllCopied
    <3>6. next'[p] - 1 = next[p]
      BY <1>1, <2>2
    <3>7. p \in made'["kept"]
      BY <1>1, <2>7
    <3> QED
      BY <2>2, <2>3, <2>6, <3>1, <3>2, <3>3, <3>4, <3>5, <3>6, <3>7 DEF Filled
  <2>11. place \in Running
    BY <2>6 DEF Running
  <2> QED
    BY <2>1, <2>3, <2>7, <2>8, <2>9, <2>10, <2>11, RunStep
<1> QED
  BY <1>2, <1>3 DEF CopyTrace

LEMMA SummarizeStep ==
  ASSUME FrontInv, NEW p \in Process, Summarize(p)
  PROVE  FrontInv'
<1> "work" \in Root /\ "kept" \in Root /\ "work" # "kept"
  BY DEF Root
<1>0. at[p] = "summarize" /\ at[p] \notin Leaving /\ ProcessOK(p)
  BY DEF FrontInv, Summarize, Leaving
<1>1. /\ request[p].run /\ Retains(p) /\ verdict[p] = NoVerdict
      /\ p \in made["work"] /\ p \in made["kept"]
  BY <1>0 DEF ProcessOK, Progress, Reported, Running, Leaving
<1>2. CASE Fail(p, 2, "none")
  BY <1>0, <1>2, FailStep
<1>3. CASE /\ p \in In("kept")
           /\ summary' = [summary EXCEPT ![p] = TRUE]
           /\ root' = Touched("kept", p)
           /\ Goto(p, "done")
           /\ UNCHANGED <<request, doomed, listed, next, outputs, trace, tasksDir, copies,
                          verdict, made, damaged>>
  <2>1. /\ next' = [next EXCEPT ![p] = next[p]] /\ next[p] \in Nat
        /\ outputs' \in [Process -> SUBSET Nat] /\ trace' \in [Process -> Nat]
        /\ tasksDir' \in [Process -> BOOLEAN] /\ summary'[p] = TRUE
    BY <1>3 DEF FrontInv, TypeOK
  <2>2. /\ at'[p] = "done" /\ request' = request /\ made' = made /\ verdict' = verdict
        /\ damaged' = damaged
    BY <1>3 DEF FrontInv, TypeOK, Goto
  <2>3. CopiesOK' /\ \A q \in Process : copies'[q] = copies[q]
    BY <1>3, SameCopies DEF FrontInv
  <2>4. Progress(p)'
    BY <1>1, <2>2 DEF Progress, Preparing, Running, Leaving
  <2>5. Filled(p)'
    <3>1. ~Success(p)'
      BY <1>1, <2>2 DEF Success, NoVerdict
    <3>2. Intact("kept", p)' => AllCopied(p)'
      <4>1. Intact("kept", p)' => Intact("kept", p)
        BY <1>3 DEF Intact
      <4>2. Intact("kept", p) => AllCopied(p)
        BY <1>0 DEF ProcessOK, Filled
      <4> QED
        BY <2>2, <2>3, <4>1, <4>2 DEF AllCopied
    <3> QED
      BY <1>1, <2>1, <2>2, <3>1, <3>2 DEF Filled
  <2>6. /\ "done" \in Running /\ at[p] \in {"session"} \cup Running /\ Goto(p, "done")
        /\ UNCHANGED <<request, doomed, listed, verdict, damaged>>
    BY <1>0, <1>3 DEF Running
  <2>7. \E r \in Root :
          /\ root' = Touched(r, p)
          /\ \/ made' = made /\ p \in made[r] /\ (r = "kept" => p \in In("kept"))
             \/ made' = [made EXCEPT ![r] = @ \cup {p}] /\ p \notin made[r]
    BY <1>1, <1>3
  <2> QED
    BY <1>3, <2>1, <2>3, <2>4, <2>5, <2>6, <2>7, RunStep
<1> QED
  BY <1>2, <1>3 DEF Summarize

LEMMA DoneStep ==
  ASSUME FrontInv, NEW p \in Process, Done(p)
  PROVE  FrontInv'
<1>0. at[p] = "done" /\ at[p] \notin Leaving /\ ProcessOK(p)
  BY DEF FrontInv, Done, Leaving
<1>1. CASE Fail(p, 1, "none")
  BY <1>0, <1>1, FailStep
<1>2. CASE Succeed(p)
  <2>1. Retains(p) => p \in made["kept"] /\ (Intact("kept", p) => summary[p])
    BY <1>0 DEF ProcessOK, Progress, Filled
  <2> QED
    BY <1>0, <1>2, <2>1, SucceedStep
<1> QED
  BY <1>1, <1>2 DEF Done

-----------------------------------------------------------------------------
(* The theorems.                                                           *)

\* What earlier processes may have left is a root.
LEMMA OldInOrder ==
  ASSUME NEW left \in SUBSET Old
  PROVE  Good(SetToSeq(left), Old) /\ ToSet(SetToSeq(left)) \subseteq Old
<1> DEFINE n == Cardinality(left)
           s == SetToSeq(left)
<1>1. n \in Nat /\ ExistsBijection(1 .. n, left)
  <2>1. IsFiniteSet(left)
    BY FS_Subset, FrontEndAssumption
  <2> QED
    BY <2>1, FS_CardinalityType
<1>2. \E f \in [1 .. n -> left] : IsInjective(f)
  BY <1>1 DEF ExistsBijection, Bijection, Injection
<1>3. s \in [1 .. n -> left] /\ IsInjective(s)
  BY <1>2 DEF SetToSeq
<1> HIDE DEF n, s
<1>4. s \in Seq(Dir) /\ Len(s) = n /\ DOMAIN s = 1 .. n
  BY <1>1, <1>3 DEF Dir
<1>5. Distinct(s)
  BY <1>3, <1>4 DEF Distinct, IsInjective
<1>6. OldLast(s, Old)
  BY <1>3, <1>4 DEF OldLast
<1>7. ToSet(s) \subseteq Old
  BY <1>3, <1>4 DEF ToSet
<1> QED
  BY <1>4, <1>5, <1>6, <1>7 DEF Good, s

LEMMA FrontStart ==
  ASSUME FrontEndInit
  PROVE  FrontInv
<1> "work" \in Root /\ "kept" \in Root
  BY DEF Root
<1>1. TypeOK
  <2>1. CopiesOK
    BY DEF FrontEndInit, CopiesOK
  <2> QED
    BY <2>1 DEF FrontEndInit, TypeOK, Preparing, NoVerdict, Report
<1>2. RootsOK
  <2>1. IsFiniteSet({})
    BY FS_EmptySet
  <2>2. \A r \in Root : made[r] = {} /\ damaged[r] = {}
    BY DEF FrontEndInit
  <2>3. \A r \in Root : \E left \in SUBSET Old : root[r] = SetToSeq(left)
    BY DEF FrontEndInit
  <2>4. ASSUME NEW r \in Root
        PROVE  Good(root[r], Old) /\ In(r) \subseteq Old
    BY <2>3, OldInOrder DEF In
  <2>5. /\ root = [r \in Root |-> root[r]]
        /\ made \in [Root -> SUBSET Process] /\ damaged \in [Root -> SUBSET Dir]
    BY DEF FrontEndInit
  <2>6. root \in [Root -> Seq(Dir)]
    BY <2>4, <2>5 DEF Good
  <2>7. \A r \in Root : AsBefore(r) = Old
    BY <2>2 DEF AsBefore
  <2> HIDE DEF FrontEndInit
  <2> QED
    BY <2>1, <2>2, <2>4, <2>5, <2>6, <2>7 DEF RootsOK
<1>3. ASSUME NEW p \in Process
      PROVE  ProcessOK(p)
  <2>1. /\ at[p] = "start" /\ next[p] = 1 /\ listed[p] = {} /\ ~summary[p]
        /\ verdict[p] = NoVerdict /\ \A r \in Root : made[r] = {}
    BY DEF FrontEndInit
  <2>2. Progress(p) /\ Filled(p) /\ Reported(p)
    BY <2>1 DEF Progress, Filled, Success, Reported, Preparing, Running, Leaving, NoVerdict
  <2>3. DoomedOK(p) /\ Survives(p) /\ ListedOK(p)
    BY <2>1 DEF DoomedOK, Survives, ListedOK, PlaceOf, Running
  <2> QED
    BY <2>2, <2>3 DEF ProcessOK
<1> QED
  BY <1>1, <1>2, <1>3 DEF FrontInv

LEMMA FrontNext ==
  ASSUME FrontInv, [FrontEndNext]_frontVars
  PROVE  FrontInv'
<1>1. CASE UNCHANGED frontVars
  <2>1. /\ UNCHANGED <<request, at, doomed, listed, next, root, verdict, made, damaged>>
        /\ UNCHANGED <<outputs, trace, tasksDir, copies, summary>>
    BY <1>1 DEF frontVars, control, contents
  <2>2. TypeOK'
    BY <2>1 DEF FrontInv, TypeOK, CopiesOK
  <2>3. RootsOK'
    BY <2>1, RootSame DEF FrontInv
  <2>4. ASSUME NEW p \in Process
        PROVE  ProcessOK(p)'
    <3>1. Spares(p)
      BY <2>1 DEF Spares, In, Intact
    <3>2. Grows
      BY <2>1 DEF Grows
    <3> QED
      BY <2>3, <3>1, <3>2, OthersSpared
  <2> QED
    BY <2>2, <2>3, <2>4 DEF FrontInv
<1>2. ASSUME NEW p \in Process, Step(p)
      PROVE  FrontInv'
  <2>1. CASE Start(p)
    BY <2>1, StartStep
  <2>2. CASE ListWork(p) \/ ListKept(p) \/ Prune(p)
    BY <2>2, PruneStep
  <2>3. CASE CreateDirectory(p)
    BY <2>3, CreateDirectoryStep
  <2>4. CASE RunTask(p)
    BY <2>4, RunTaskStep
  <2>5. CASE WriteTrace(p)
    BY <2>5, WriteTraceStep
  <2>6. CASE Retain(p)
    BY <2>6, RetainStep
  <2>7. CASE CopyTrace(p)
    BY <2>7, CopyTraceStep
  <2>8. CASE Summarize(p)
    BY <2>8, SummarizeStep
  <2>9. CASE Done(p)
    BY <2>9, DoneStep
  <2>10. CASE Cleanup(p)
    BY <2>10, CleanupStep
  <2>11. CASE Crash(p)
    BY <2>11, GoneStep DEF Crash
  <2> QED
    BY <1>2, <2>1, <2>2, <2>3, <2>4, <2>5, <2>6, <2>7, <2>8, <2>9, <2>10, <2>11 DEF Step
<1> QED
  BY <1>1, <1>2 DEF FrontEndNext

\* However many processes prepare, run, prune, clean up and are killed, and
\* whatever they cannot remove, what is known of each one and of the two
\* directories they share holds in every state.
THEOREM FrontInductive == FrontEndSpec => []FrontInv
<1>1. FrontEndInit => FrontInv
  BY FrontStart
<1>2. FrontInv /\ [FrontEndNext]_frontVars => FrontInv'
  BY FrontNext
<1> QED
  BY <1>1, <1>2, PTL DEF FrontEndSpec

\* A run loses something of the directory that it has made, in either root,
\* only when enough others have been made there or been partly removed, or
\* when it cleans up itself (pruneRetainedProfileDirectories, cleanup).
THEOREM RecentDirectoriesSurvive == FrontEndSpec => []RecentSurvive
<1>1. FrontInv => RecentSurvive
  <2> SUFFICES ASSUME FrontInv, NEW r \in Root, NEW p \in made[r]
               PROVE  \/ p \in In(r) /\ p \notin damaged[r]
                      \/ Crowded(r, p)
                      \/ /\ r = "work" /\ verdict[p] # NoVerdict
                         /\ ~(Retains(p) /\ verdict[p].code = 0)
    BY Zenon DEF RecentSurvive
  <2>1. p \in Process
    BY DEF FrontInv, RootsOK
  <2>2. Survives(p)
    BY <2>1 DEF FrontInv, ProcessOK
  <2> QED
    BY <2>2 DEF Survives, Intact, Discarded
<1> QED
  BY <1>1, FrontInductive, PTL

\* While a run goes on, at most Limit - 1 of the profiles it has found are
\* left, besides those that it has tried to remove and could not
\* (pruneRetainedProfileDirectories).
THEOREM RetainedProfilesBounded == FrontEndSpec => []KeptBounded
<1>1. FrontInv => KeptBounded
  <2> SUFFICES ASSUME FrontInv, NEW p \in Process, Retains(p),
                      at[p] \in {"session", "task", "trace", "retain", "copy",
                                 "summarize", "done"}
               PROVE  Cardinality(In("kept") \cap listed[p]) <= Limit - 1
    BY DEF KeptBounded
  <2>1. ListedOK(p)
    BY DEF FrontInv, ProcessOK
  <2> QED
    BY <2>1 DEF ListedOK, Running
<1> QED
  BY <1>1, FrontInductive, PTL

\* After a success the retained profiles are there, the summary and every
\* task's, and a summary comes after all the profiles it names, unless the
\* root was crowded and others may have removed them
\* (retainProfileArtifactsForCli, pruneRetainedProfileDirectories).
THEOREM OutcomesAreWhole == FrontEndSpec => []OutcomeIsWhole
<1>1. FrontInv => OutcomeIsWhole
  <2> SUFFICES ASSUME FrontInv, NEW p \in Process
               PROVE  /\ Success(p) => (p \in In("kept") /\ summary[p]) \/ Crowded("kept", p)
                      /\ Success(p) \/ summary[p] => AllCopied(p) \/ Crowded("kept", p)
    BY Zenon DEF OutcomeIsWhole, Success
  <2>1. Filled(p) /\ Survives(p) /\ "kept" \in Root /\ "kept" # "work"
    BY DEF FrontInv, ProcessOK, Root
  <2>2. Success(p) \/ summary[p] => Intact("kept", p) \/ Crowded("kept", p)
    BY <2>1 DEF Filled, Survives
  <2>3. Intact("kept", p) =>
          /\ p \in In("kept") /\ (Success(p) => summary[p])
          /\ summary[p] => AllCopied(p)
    BY <2>1 DEF Filled, Intact
  <2> QED
    BY <2>2, <2>3
<1> QED
  BY <1>1, FrontInductive, PTL
================================================================================
