-------------------------- MODULE GlobalScheduler --------------------------
(***************************************************************************)
(* lib/Runtime/Execution/GlobalScheduler.cpp: the process-wide scheduler.  *)
(* Clients submit task graphs as sessions, worker threads acquire admitted *)
(* tasks and report their end, and every call that may change what can be  *)
(* admitted ends with the admission loop tryReserveReadyTasksLocked.       *)
(*                                                                         *)
(* Every call runs under mutex_.  The admission loop is the one part of a  *)
(* call that is unbounded, so it is unrolled: the call sets pass.phase to  *)
(* "scan" and keeps the mutex, the steps Admit, NextPass and EndAdmission  *)
(* are the loop's iterations, and no other call is enabled until the loop  *)
(* has ended with phase "idle".                                            *)
(*                                                                         *)
(* The telemetry counters and the waitingOn... flags that only feed them   *)
(* are left out; no decision of the scheduler reads them.                  *)
(***************************************************************************)
EXTENDS ResourceAdmission, Sequences

CONSTANTS
  Session,      \* session ids; the code never reuses one, the model may
                \* after releaseSession, when nothing of the session is left
  Task,         \* task ids, as integers in the order of the tasks_ map
  Job,          \* what may be submitted: graph, capabilities, scheduling
  Capacities,   \* capacities that configureResourceScheduler installs
  NoSession,    \* the empty lastAdmittedSessionId_
  NoJob         \* marks an id that is not in sessions_

\* A submission: RuntimeTasks with their dependency lists (duplicates kept),
\* backend, BackendCapabilities and SessionSchedulingOptions.
JobShape(j) ==
  /\ j.tasks \subseteq Task
  /\ j.tasks # {}
  /\ DOMAIN j.deps = j.tasks
  /\ \A t \in j.tasks : j.deps[t] \in Seq(j.tasks)
  /\ DOMAIN j.workspace = j.tasks
  /\ \A t \in j.tasks : j.workspace[t] \in Nat
  /\ j.backendKind \in {"Simulation", "Npu"}
  /\ j.requiresSerializedLaunch \in BOOLEAN
  /\ j.supportsConcurrentExecution \in BOOLEAN
  /\ j.maxConcurrentTasks \in Nat
  /\ j.maxConcurrentStreams \in Nat
  /\ j.priority \in 0 .. 2
  /\ j.maxAdmittedTasks \in Nat

ASSUME SessionAssumption == IsFiniteSet(Session) /\ NoSession \notin Session
ASSUME TaskAssumption == IsFiniteSet(Task) /\ Task \subseteq Int
ASSUME JobAssumption == (\A j \in Job : JobShape(j)) /\ NoJob \notin Job
ASSUME CapacitiesAssumption == Capacities \subseteq Amount /\ Capacities # {}

VARIABLES
  configured,   \* the capacities of resourceScheduler_
  used,         \* the amounts it has reserved
  job,          \* sessions_: what each session runs
  completed, running, admitted, failed,   \* counters of GlobalSessionRecord
  state,        \* tasks_: GlobalTaskRecord::state
  remaining,    \* GlobalTaskRecord::remainingDependencies
  grant,        \* GlobalTaskRecord::reservation of the tasks that have one
  order,        \* sessionOrder_
  cursor,       \* fairnessCursor_
  last,         \* lastAdmittedSessionId_
  pass          \* where the admission loop is, while the mutex is held

resources == <<configured, used, grant>>
records   == <<job, completed, running, admitted, failed, state, remaining>>
fairness  == <<order, cursor, last>>
vars      == <<resources, records, fairness, pass>>

Key == Session \X Task

TaskState == {"Submitted", "Ready", "Reserved", "Running", "Succeeded",
              "Failed", "Cancelled"}

Live == {s \in Session : job[s] # NoJob}

\* The keys of the records of session s.
KeysOf(s) == {k \in Key : k[1] = s /\ state[k] # "Absent"}

-----------------------------------------------------------------------------
(* Requirements and admissibility.                                         *)

\* The TaskResourceRequirement that submit() fills in.  The scheduler never
\* asks for an exclusive stream domain.
RequirementOf(j, t) ==
  [ backendKind              |-> j.backendKind,
    workspaceBytes           |-> j.workspace[t],
    requiresSerializedLaunch |-> j.requiresSerializedLaunch,
    exclusiveDeviceAccess    |-> /\ j.backendKind = "Npu"
                                 /\ \/ ~j.supportsConcurrentExecution
                                    \/ j.maxConcurrentTasks <= 1,
    requiresStream           |-> j.maxConcurrentStreams > 0,
    streamUnits              |-> IF j.maxConcurrentStreams > 0 THEN 1 ELSE 0,
    exclusiveStreamAccess    |-> FALSE ]

\* Variants, here and below: definitions with a plausible defect, named for
\* it.  No run uses one; with it in place of the definition that follows, a
\* property of the runs must fail.
QuotaOffByOne(s) ==
  job[s].maxAdmittedTasks > 0 /\ admitted[s] > job[s].maxAdmittedTasks

QuotaExhausted(s) ==
  job[s].maxAdmittedTasks > 0 /\ admitted[s] >= job[s].maxAdmittedTasks

\* inspectSessionAdmissionLocked for a session that has not failed: it has a
\* ready task that its quota allows.
HasEligibleReadyTask(s) ==
  /\ s \in Live
  /\ ~failed[s]
  /\ ~QuotaExhausted(s)
  /\ \E t \in Task : state[<<s, t>>] = "Ready"

\* A ready task whose reservation would succeed now.
Admissible(s, t) ==
  /\ state[<<s, t>>] = "Ready"
  /\ Fits(configured, used, FALSE, RequirementOf(job[s], t))

\* tryReserveOneReadyTaskForSessionLocked would return true.
CanAdmit(s) ==
  /\ s \in Live
  /\ ~failed[s]
  /\ ~QuotaExhausted(s)
  /\ \E t \in Task : Admissible(s, t)

\* tasks_ is scanned in key order, and the first task that fits is taken.
FirstAdmissible(s, t) ==
  Admissible(s, t) /\ \A u \in Task : u < t => ~Admissible(s, u)

-----------------------------------------------------------------------------
(* The admission loop.                                                     *)

AnyRank == -1

Idle == [phase |-> "idle", start |-> 0, offset |-> 0, rank |-> AnyRank]

\* The head of the while loop: a pass begins at the fairness cursor and has
\* not settled on a priority class.
NewPass(ord, cur) ==
  [ phase |-> "scan", offset |-> 0, rank |-> AnyRank,
    start |-> IF ord = <<>> THEN 0 ELSE cur % Len(ord) ]

\* The session at an offset of the current pass.
IndexFromFront(o) == o % Len(order)
Index(o) == (pass.start + o) % Len(order)
At(o)    == order[Index(o) + 1]

TurnOfHighestClassOnly(o) ==
  LET s == At(o)
  IN  /\ CanAdmit(s)
      /\ \A p \in 0 .. (Len(order) - 1) :
           HasEligibleReadyTask(At(p)) => job[At(p)].priority <= job[s].priority

TurnOfAnyClass(o) ==
  CanAdmit(At(o)) /\ \A p \in pass.offset .. (o - 1) : ~CanAdmit(At(p))

\* The pass admits next at offset o: a new pass settles on the highest class
\* in which a session can be admitted, later turns stay in that class, and
\* sessions take turns in the order of the rotation.
Turn(o) ==
  LET s == At(o)
  IN  /\ CanAdmit(s)
      /\ IF pass.rank = AnyRank
         THEN \A p \in 0 .. (Len(order) - 1) :
                CanAdmit(At(p)) => job[At(p)].priority <= job[s].priority
         ELSE o >= pass.offset /\ job[s].priority = pass.rank
      /\ \A p \in pass.offset .. (o - 1) :
           ~(CanAdmit(At(p)) /\ job[At(p)].priority = job[s].priority)

NoTurn == \A o \in 0 .. (Len(order) - 1) : ~Turn(o)

\* One successful tryReserveOneReadyTaskForSessionLocked.
Admit(o, t) ==
  LET s == At(o)
      k == <<s, t>>
      units == Demand(configured, RequirementOf(job[s], t))
  IN  /\ pass.phase = "scan"
      /\ Turn(o)
      /\ FirstAdmissible(s, t)
      /\ used' = Plus(used, units)
      /\ grant' = HeldWith(grant, k, units)
      /\ state' = [state EXCEPT ![k] = "Reserved"]
      /\ admitted' = [admitted EXCEPT ![s] = @ + 1]
      /\ last' = s
      /\ cursor' = (Index(o) + 1) % Len(order)
      /\ pass' = [pass EXCEPT !.offset = o + 1, !.rank = job[s].priority]
      /\ UNCHANGED <<configured, job, completed, running, failed, remaining,
                     order>>

\* A pass that admitted something is over: the while loop goes round.
NextPass ==
  /\ pass.phase = "scan"
  /\ pass.rank # AnyRank
  /\ NoTurn
  /\ pass' = NewPass(order, cursor)
  /\ UNCHANGED <<resources, records, fairness>>

\* A pass that admitted nothing ends the loop; the mutex is released.
EndAdmission ==
  /\ pass.phase = "scan"
  /\ pass.rank = AnyRank
  /\ NoTurn
  /\ pass' = Idle
  /\ UNCHANGED <<resources, records, fairness>>

-----------------------------------------------------------------------------
(* Calls.                                                                  *)

MutexFree == pass.phase = "idle"

\* Position of s in a rotation, from 0; s occurs in it.
PositionIn(ord, s) == (CHOOSE i \in 1 .. Len(ord) : ord[i] = s) - 1

\* The cursor set behind the session admitted last, if there is one.
CursorBehind(ord, s, otherwise) ==
  IF \E i \in 1 .. Len(ord) : ord[i] = s
  THEN (PositionIn(ord, s) + 1) % Len(ord)
  ELSE otherwise

Submit(s, j) ==
  LET ord == Append(order, s)
      cur == CursorBehind(ord, last, cursor)
      Mine(k) == k[1] = s /\ k[2] \in j.tasks
  IN  /\ MutexFree
      /\ s \notin Live
      /\ job' = [job EXCEPT ![s] = j]
      /\ completed' = [completed EXCEPT ![s] = 0]
      /\ running' = [running EXCEPT ![s] = 0]
      /\ admitted' = [admitted EXCEPT ![s] = 0]
      /\ failed' = [failed EXCEPT ![s] = FALSE]
      /\ state' = [k \in Key |->
                     IF ~Mine(k) THEN state[k]
                     ELSE IF j.deps[k[2]] = <<>> THEN "Ready" ELSE "Submitted"]
      /\ remaining' = [k \in Key |->
                         IF Mine(k) THEN Len(j.deps[k[2]]) ELSE remaining[k]]
      /\ order' = ord
      /\ cursor' = cur
      /\ pass' = NewPass(ord, cur)
      /\ UNCHANGED <<resources, last>>

AcquireUnreserved(s, t) ==
  /\ MutexFree
  /\ s \in Live
  /\ state[<<s, t>>] \in {"Ready", "Reserved"}
  /\ state' = [state EXCEPT ![<<s, t>>] = "Running"]
  /\ running' = [running EXCEPT ![s] = @ + 1]
  /\ UNCHANGED <<resources, job, completed, admitted, failed, remaining,
                 fairness, pass>>

AcquireUncounted(s, t) ==
  /\ MutexFree
  /\ s \in Live
  /\ state[<<s, t>>] = "Reserved"
  /\ state' = [state EXCEPT ![<<s, t>>] = "Running"]
  /\ UNCHANGED <<resources, job, completed, running, admitted, failed,
                 remaining, fairness, pass>>

\* waitAndAcquireTask hands out the first reserved task of the session; it
\* returns no task when the session is drained, and waits otherwise.
Acquire(s, t) ==
  /\ MutexFree
  /\ s \in Live
  /\ state[<<s, t>>] = "Reserved"
  /\ \A u \in Task : u < t => state[<<s, u>>] # "Reserved"
  /\ state' = [state EXCEPT ![<<s, t>>] = "Running"]
  /\ running' = [running EXCEPT ![s] = @ + 1]
  /\ UNCHANGED <<resources, job, completed, admitted, failed, remaining,
                 fairness, pass>>

\* sessionIsDrainedLocked
Drained(s) ==
  \/ s \notin Live
  \/ completed[s] = Cardinality(job[s].tasks)
  \/ failed[s] /\ running[s] = 0

ReturnGrantsTwice(K) ==
  /\ used' = [r \in Resource |-> used[r] - AmountHeld(HeldIn(grant, K), r)]
  /\ grant' = grant

ReturnGrantsOfRunning(K) ==
  LET R == {k \in K : state[k] = "Running"}
  IN  /\ used' = [r \in Resource |-> used[r] - AmountHeld(HeldIn(grant, R), r)]
      /\ grant' = HeldOut(grant, K)

\* releaseReservationLocked for the records in K.
ReturnGrants(K) ==
  /\ used' = [r \in Resource |-> used[r] - AmountHeld(HeldIn(grant, K), r)]
  /\ grant' = HeldOut(grant, K)

Returned(K) == Cardinality(DOMAIN grant \cap K)

ListedOnce(j, d, t) == IF \E i \in DOMAIN j.deps[d] : j.deps[d][i] = t THEN 1 ELSE 0

\* How often task d of job j lists t among its dependencies.
Listed(j, d, t) == Cardinality({i \in DOMAIN j.deps[d] : j.deps[d][i] = t})

\* completeTask.  A dependent that is still Submitted counts one dependency
\* less for each time it lists the task.
Complete(s, t) ==
  LET k == <<s, t>>
      Advances(d) == /\ ~failed[s]
                     /\ d[1] = s
                     /\ state[d] = "Submitted"
                     /\ Listed(job[s], d[2], t) > 0
      Left(d) == IF remaining[d] > Listed(job[s], d[2], t)
                 THEN remaining[d] - Listed(job[s], d[2], t) ELSE 0
  IN  /\ MutexFree
      /\ s \in Live
      /\ state[k] = "Running"
      /\ ReturnGrants({k})
      /\ admitted' = [admitted EXCEPT ![s] = @ - Returned({k})]
      /\ completed' = [completed EXCEPT ![s] = @ + 1]
      /\ running' = [running EXCEPT ![s] = @ - 1]
      /\ remaining' = [d \in Key |->
                         IF Advances(d) THEN Left(d) ELSE remaining[d]]
      /\ state' = [d \in Key |->
                     IF d = k THEN "Succeeded"
                     ELSE IF Advances(d) /\ Left(d) = 0 THEN "Ready"
                     ELSE state[d]]
      /\ pass' = NewPass(order, cursor)
      /\ UNCHANGED <<configured, job, failed, fairness>>

PendingButReserved(s) == {k \in KeysOf(s) : state[k] \in {"Submitted", "Ready"}}

PendingOrSucceeded(s) == {k \in KeysOf(s) : state[k] \notin {"Running", "Failed"}}

\* What cancelPendingSessionTasksLocked cancels.
Pending(s) ==
  {k \in KeysOf(s) : state[k] \in {"Submitted", "Ready", "Reserved"}}

\* failTask.  It returns reservations but, unlike every other call that
\* does, it does not run the admission loop.
Fail(s, t) ==
  LET k == <<s, t>>
  IN  /\ MutexFree
      /\ s \in Live
      /\ state[k] = "Running"
      /\ ReturnGrants(Pending(s) \cup {k})
      /\ admitted' =
           [admitted EXCEPT ![s] = @ - Returned(Pending(s) \cup {k})]
      /\ failed' = [failed EXCEPT ![s] = TRUE]
      /\ running' = [running EXCEPT ![s] = @ - 1]
      /\ state' = [d \in Key |-> IF d = k THEN "Failed"
                                 ELSE IF d \in Pending(s) THEN "Cancelled"
                                 ELSE state[d]]
      /\ UNCHANGED <<configured, job, completed, remaining, fairness, pass>>

\* noteFairnessSessionRemovalLocked: the rotation without s, and the cursor.
Without(ord, s) ==
  [i \in 1 .. (Len(ord) - 1) |->
     IF i <= PositionIn(ord, s) THEN ord[i] ELSE ord[i + 1]]

CursorNotWrapped(s) ==
  IF PositionIn(order, s) < cursor THEN cursor - 1 ELSE cursor

CursorAfterRemoval(s) ==
  LET ord == Without(order, s)
      n == Len(ord)
      moved == IF PositionIn(order, s) < cursor THEN cursor - 1 ELSE cursor
      kept == IF n = 0 THEN 0 ELSE moved % n
  IN  IF last = s THEN kept ELSE CursorBehind(ord, last, kept)

\* releaseSession erases the session and every task record of it, running or
\* not.
Release(s) ==
  LET ord == Without(order, s)
      cur == CursorAfterRemoval(s)
  IN  /\ MutexFree
      /\ s \in Live
      /\ ReturnGrants(KeysOf(s))
      /\ job' = [job EXCEPT ![s] = NoJob]
      /\ completed' = [completed EXCEPT ![s] = 0]
      /\ running' = [running EXCEPT ![s] = 0]
      /\ admitted' = [admitted EXCEPT ![s] = 0]
      /\ failed' = [failed EXCEPT ![s] = FALSE]
      /\ state' = [k \in Key |-> IF k[1] = s THEN "Absent" ELSE state[k]]
      /\ remaining' = [k \in Key |-> IF k[1] = s THEN 0 ELSE remaining[k]]
      /\ order' = ord
      /\ cursor' = cur
      /\ last' = IF last = s THEN NoSession ELSE last
      /\ pass' = NewPass(ord, cur)
      /\ UNCHANGED configured

\* configureResourceScheduler; a stream capacity of zero keeps the old one.
Configure(conf) ==
  /\ MutexFree
  /\ configured' = IF conf.streams > 0 THEN conf
                   ELSE [conf EXCEPT !.streams = configured.streams]
  /\ pass' = NewPass(order, cursor)
  /\ UNCHANGED <<used, grant, records, fairness>>

-----------------------------------------------------------------------------

Init ==
  /\ configured \in Capacities
  /\ used = [r \in Resource |-> 0]
  /\ job = [s \in Session |-> NoJob]
  /\ completed = [s \in Session |-> 0]
  /\ running = [s \in Session |-> 0]
  /\ admitted = [s \in Session |-> 0]
  /\ failed = [s \in Session |-> FALSE]
  /\ state = [k \in Key |-> "Absent"]
  /\ remaining = [k \in Key |-> 0]
  /\ grant = [k \in {} |-> used]
  /\ order = <<>>
  /\ cursor = 0
  /\ last = NoSession
  /\ pass = Idle

Admission ==
  \/ \E o \in 0 .. (Len(order) - 1), t \in Task : Admit(o, t)
  \/ NextPass
  \/ EndAdmission

Next ==
  \/ Admission
  \/ \E s \in Session, j \in Job : Submit(s, j)
  \/ \E s \in Session, t \in Task :
       Acquire(s, t) \/ Complete(s, t) \/ Fail(s, t)
  \/ \E s \in Session : Release(s)
  \/ \E conf \in Capacities : Configure(conf)

Spec == Init /\ [][Next]_vars
-----------------------------------------------------------------------------
(* Properties.                                                             *)

HoldsTicket(k) == state[k] \in {"Reserved", "Running"}

InState(s, st) == {t \in Task : state[<<s, t>>] = st}

\* Positions in the dependency list of a task whose dependency has not
\* succeeded.
Unmet(s, t) ==
  {i \in DOMAIN job[s].deps[t] :
     state[<<s, job[s].deps[t][i]>>] # "Succeeded"}

TypeOK ==
  /\ configured \in Amount
  /\ used \in Amount
  /\ job \in [Session -> Job \cup {NoJob}]
  /\ completed \in [Session -> Nat]
  /\ running \in [Session -> Nat]
  /\ admitted \in [Session -> Nat]
  /\ failed \in [Session -> BOOLEAN]
  /\ state \in [Key -> TaskState \cup {"Absent"}]
  /\ remaining \in [Key -> Nat]
  /\ DOMAIN grant \subseteq Key
  /\ grant \in [DOMAIN grant -> Amount]
  /\ order \in Seq(Session)
  /\ cursor \in Nat
  /\ last \in Session \cup {NoSession}
  /\ pass \in [phase : {"idle", "scan"}, start : Nat, offset : Nat,
               rank : -1 .. 2]

\* Every amount that admission compares with a capacity is the number of
\* units the outstanding reservations hold: nothing leaks when tasks end,
\* are cancelled or vanish with their session, and nothing is returned twice.
Accounting == \A r \in Resource : used[r] = AmountHeld(grant, r)

\* A task holds a reservation exactly while it is reserved or running: none
\* runs without a ticket, none keeps one when it has ended or is cancelled.
Tickets == DOMAIN grant = {k \in Key : HoldsTicket(k)}

\* admittedTasks, which the quota is checked against, counts the session's
\* reserved and running tasks, and the quota is never exceeded.
Quota ==
  \A s \in Live :
    /\ admitted[s] = Cardinality({k \in KeysOf(s) : HoldsTicket(k)})
    /\ job[s].maxAdmittedTasks > 0 => admitted[s] <= job[s].maxAdmittedTasks

\* The counters that decide whether a session is drained agree with the
\* records of its tasks.
SessionCounters ==
  \A s \in Live :
    /\ running[s] = Cardinality(InState(s, "Running"))
    /\ completed[s] = Cardinality(InState(s, "Succeeded"))

\* A task is let go only when every task it depends on has succeeded, and
\* until the session fails the count of what it still waits for is exact.
Dependencies ==
  \A s \in Live : \A t \in job[s].tasks :
    /\ state[<<s, t>>] \notin {"Submitted", "Cancelled"} => Unmet(s, t) = {}
    /\ ~failed[s] => /\ remaining[<<s, t>>] = Cardinality(Unmet(s, t))
                     /\ state[<<s, t>>] = "Submitted" => Unmet(s, t) # {}

\* A failed session admits and releases nothing more: what had not started
\* when it failed is cancelled, and only what was running then still runs.
FailureIsFinal ==
  \A s \in Live :
    /\ failed[s] <=> InState(s, "Failed") # {}
    /\ failed[s] => \A t \in Task :
                      state[<<s, t>>] \notin {"Submitted", "Ready", "Reserved"}
    /\ ~failed[s] => InState(s, "Cancelled") = {}

\* The rotation lists every live session once and no other, and what the
\* scheduler remembers of it points into it.
Rotation ==
  /\ {order[i] : i \in 1 .. Len(order)} = Live
  /\ \A i, j \in 1 .. Len(order) : order[i] = order[j] => i = j
  /\ last # NoSession => last \in Live
  /\ IF order = <<>> THEN cursor = 0 ELSE cursor < Len(order)

\* When the mutex is free, nothing that could be admitted is waiting - unless
\* a session has failed and has not been released yet, because failTask does
\* not run the admission loop.
WorkConserving ==
  MutexFree /\ (\A s \in Live : ~failed[s]) => \A s \in Session : ~CanAdmit(s)

\* An admission never passes over a session of a higher class that could
\* have been admitted, whatever was admitted before in the same pass.
PriorityAmongAdmissible ==
  [][\A s \in Session : admitted'[s] > admitted[s] =>
       \A h \in Session : CanAdmit(h) => job[h].priority <= job[s].priority]_vars

\* Units are taken only inside the capacity configured at that time, however
\* far it was lowered while reservations were out.
NeverOvercommit ==
  [][\A r \in Resource : used'[r] > used[r] => used'[r] <= configured[r]]_vars

\* A task that asks for the whole device shares it with no other NPU task.
\* (Raising the number of slots meanwhile breaks this: checked without.)
ExclusiveDevice ==
  \A k, h \in DOMAIN grant :
    /\ RequirementOf(job[k[1]], k[2]).exclusiveDeviceAccess
    /\ grant[h].slots > 0
    => h = k

\* A task record only moves along the arrows of the task lifecycle; nothing
\* ends twice, restarts, or is revived after it was cancelled.
Arrows ==
  { <<"Absent", "Submitted">>, <<"Absent", "Ready">>,
    <<"Submitted", "Ready">>, <<"Ready", "Reserved">>,
    <<"Reserved", "Running">>, <<"Running", "Succeeded">>,
    <<"Running", "Failed">>,
    <<"Submitted", "Cancelled">>, <<"Ready", "Cancelled">>,
    <<"Reserved", "Cancelled">> }

Lifecycle ==
  [][\A k \in Key : \/ state'[k] = state[k]
                    \/ state'[k] = "Absent"
                    \/ <<state[k], state'[k]>> \in Arrows]_vars

-----------------------------------------------------------------------------
(* The promise of ReservationLedger.tla, which ResourceScheduler keeps.  A *)
(* reservation is told apart by the task whose record holds it.            *)

Ledger ==
  INSTANCE ReservationLedger WITH
    Id      <- Key,
    Request <- UNION {{RequirementOf(j, t) : t \in j.tasks} : j \in Job},
    held    <- [k \in DOMAIN grant |-> [units |-> grant[k], exclusive |-> FALSE]],
    answer  <- "None"

\* The scheduler asks its ledger for nothing that the ledger does not
\* promise: it reserves for a task that holds nothing, what the ledger would
\* grant then, and otherwise only returns.
KeepsLedger == Ledger!LedgerSpec
=============================================================================
