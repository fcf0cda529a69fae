------------------------------ MODULE TaskGraph ------------------------------
(***************************************************************************)
(* lib/Runtime/Execution/TaskGraph.cpp: a list of tasks in the order they  *)
(* were added, and the order in which run() and submit() take them: Kahn's *)
(* algorithm with a first-in-first-out queue.  Dependencies may be named   *)
(* before the task that they name is added, and may be listed twice.       *)
(***************************************************************************)
EXTENDS Naturals, Sequences, FiniteSets

CONSTANTS
  Id,           \* task ids
  NoId,         \* the empty id
  Deps          \* dependency lists

ASSUME IdAssumption == NoId \notin Id
ASSUME DepsAssumption == Deps \subseteq Seq(Id)

VARIABLE
  tasks         \* tasks_: records with the fields id and deps

Positions(ts) == 1 .. Len(ts)
IdsOf(ts) == {ts[i].id : i \in Positions(ts)}

AddTask(id, deps) ==
  /\ id # NoId
  /\ id \notin IdsOf(tasks)
  /\ tasks' = Append(tasks, [id |-> id, deps |-> deps])

Init == tasks = <<>>

Next == \E id \in Id \cup {NoId}, deps \in Deps : AddTask(id, deps)

Spec == Init /\ [][Next]_tasks

-----------------------------------------------------------------------------
(* orderedTasks                                                            *)

\* How often the task at position i lists d.
Lists(ts, i, d) == Cardinality({n \in DOMAIN ts[i].deps : ts[i].deps[n] = d})

UnknownDependency(ts) ==
  \E i \in Positions(ts) :
    \E n \in DOMAIN ts[i].deps : ts[i].deps[n] \notin IdsOf(ts)

\* Some positions, in order.
Ascending(S) ==
  CHOOSE s \in [1 .. Cardinality(S) -> S] :
    \A m, n \in DOMAIN s : m < n => s[m] < s[n]

\* The state of the while loop before its first iteration: the indegrees,
\* the queue and the order so far, all by position.
Roots(ts) ==
  [ indegree |-> [i \in Positions(ts) |-> Len(ts[i].deps)],
    ready    |-> Ascending({i \in Positions(ts) : ts[i].deps = <<>>}),
    order    |-> <<>> ]

\* Variants, here and below: definitions with a plausible defect, named for
\* it.  No run uses one; with it in place of the definition that follows, a
\* property of the runs must fail.
CountsOnce(ts, st) ==
  LET v == Head(st.ready)
      Counts(i) == Lists(ts, i, ts[v].id) > 0
      Freed(i) == Counts(i) /\ st.indegree[i] = 1
  IN  [ indegree |-> [i \in Positions(ts) |->
                        IF Counts(i) THEN st.indegree[i] - 1 ELSE st.indegree[i]],
        ready    |-> Tail(st.ready) \o Ascending({i \in Positions(ts) : Freed(i)}),
        order    |-> Append(st.order, v) ]

LastInFirstOut(ts, st) ==
  LET v == Head(st.ready)
      Freed(i) == /\ Lists(ts, i, ts[v].id) > 0
                  /\ st.indegree[i] = Lists(ts, i, ts[v].id)
  IN  [ indegree |-> [i \in Positions(ts) |->
                        st.indegree[i] - Lists(ts, i, ts[v].id)],
        ready    |-> Ascending({i \in Positions(ts) : Freed(i)}) \o Tail(st.ready),
        order    |-> Append(st.order, v) ]

\* An iteration: the head of the queue is ordered, and the tasks that list
\* it count one dependency less each time they do.
Visit(ts, st) ==
  LET v == Head(st.ready)
      Freed(i) == /\ Lists(ts, i, ts[v].id) > 0
                  /\ st.indegree[i] = Lists(ts, i, ts[v].id)
  IN  [ indegree |-> [i \in Positions(ts) |->
                        st.indegree[i] - Lists(ts, i, ts[v].id)],
        ready    |-> Tail(st.ready) \o Ascending({i \in Positions(ts) : Freed(i)}),
        order    |-> Append(st.order, v) ]

\* The loop, iteration by iteration.
Iterations(ts) ==
  LET after[n \in 0 .. Len(ts)] ==
        IF n = 0 THEN Roots(ts)
        ELSE IF after[n - 1].ready = <<>> THEN after[n - 1]
        ELSE Visit(ts, after[n - 1])
  IN  after

\* The order in which the loop leaves it.  Every task is queued at most once,
\* so it ends within Len(ts) iterations.
KahnOrder(ts) == Iterations(ts)[Len(ts)].order

\* What orderedTasks returns: positions, or the error.
Ordered(ts) ==
  IF UnknownDependency(ts) THEN [error |-> "unknown", order |-> <<>>]
  ELSE IF Len(KahnOrder(ts)) # Len(ts) THEN [error |-> "cycle", order |-> <<>>]
  ELSE [error |-> "none", order |-> KahnOrder(ts)]

-----------------------------------------------------------------------------
(* Properties.                                                             *)

TypeOK == tasks \in Seq([id : Id, deps : Deps])

\* Positions of the dependencies of the task at position i.
DepsAt(i) ==
  {d \in Positions(tasks) : \E n \in DOMAIN tasks[i].deps :
                              tasks[i].deps[n] = tasks[d].id}

\* A set of tasks of which each waits for one of the set.
Stuck(S) == S # {} /\ \A i \in S : DepsAt(i) \cap S # {}

\* A graph is refused exactly if a dependency is unknown or a cycle exists.
RefusedOnlyIfImpossible ==
  LET error == Ordered(tasks).error
  IN  /\ error = "unknown" <=>
           \E i \in Positions(tasks) :
             Cardinality(DepsAt(i)) <
               Cardinality({tasks[i].deps[n] : n \in DOMAIN tasks[i].deps})
      /\ error = "cycle" => \E S \in SUBSET Positions(tasks) : Stuck(S)
      /\ error = "none"  => \A S \in SUBSET Positions(tasks) : ~Stuck(S)

\* The tasks below which n tasks can be stacked, for each n.
Chains ==
  LET long[n \in 0 .. Len(tasks)] ==
        IF n = 0 THEN Positions(tasks)
        ELSE {j \in Positions(tasks) : DepsAt(j) \cap long[n - 1] # {}}
  IN  long

\* The number of tasks on the longest chain of dependencies below a task,
\* counted without the algorithm.
ChainBelow(i) == Cardinality({n \in 1 .. Len(tasks) : i \in Chains[n]})

\* The order has every task once, after all that it depends on, and is
\* breadth first: tasks deeper in the graph never come before shallower
\* ones, so the frontier of run() widens as early as it can.
BreadthFirst ==
  LET o == Ordered(tasks).order
  IN  Ordered(tasks).error = "none" =>
        /\ {o[n] : n \in DOMAIN o} = Positions(tasks)
        /\ Len(o) = Len(tasks)
        /\ \A n, m \in DOMAIN o : o[m] \in DepsAt(o[n]) => m < n
        /\ \A n, m \in DOMAIN o : n < m => ChainBelow(o[n]) <= ChainBelow(o[m])
=============================================================================
