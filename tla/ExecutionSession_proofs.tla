------------------------ MODULE ExecutionSession_proofs ------------------------
(***************************************************************************)
(* Proofs about ExecutionSession.tla, for every finite set of callers and  *)
(* tasks, every job and any number of workers.                             *)
(*                                                                         *)
(* Every step of a run is a step of the scheduler or leaves it alone, so   *)
(* what GlobalScheduler_proofs proves of the scheduler holds here too.     *)
(* The invariants of the run itself relate the workers of a session to the *)
(* task records of that session; they are stated for one session, with one *)
(* lemma for the sessions a step does not touch.                           *)
(***************************************************************************)
EXTENDS ExecutionSession, GlobalScheduler_proofs

Place == {"start", "acquire", "parked", "exited"} \cup Busy

LocalsOK ==
  /\ main \in [Session -> {"idle", "joining", "returned"}]
  /\ pc \in [Session -> [Worker -> Place]]
  /\ task \in [Session -> [Worker -> Task \cup {NoTask}]]
  /\ broken \in [Session -> BOOLEAN]
  /\ produced \in [Session -> SUBSET Task]
  /\ outcome \in [Session -> {"none", "ok", "error", "incomplete"}]

\* What is running is in the hands of one worker, and a worker has nothing
\* else in its hands.
Owned(s) ==
  /\ \A w \in Worker :
       pc[s][w] \in Busy => task[s][w] \in InState(s, "Running")
  /\ \A t \in InState(s, "Running") :
       \E w \in Worker : pc[s][w] \in Busy /\ task[s][w] = t
  /\ \A w, v \in Worker :
       pc[s][w] \in Busy /\ pc[s][v] \in Busy /\ task[s][w] = task[s][v] => w = v

\* The scheduler knows a session exactly while its caller is joining.
Present(s) ==
  /\ s \in Live <=> main[s] = "joining"
  /\ s \notin Live => /\ \A w \in Worker : pc[s][w] = "exited"
                      /\ ~broken[s]
                      /\ produced[s] = {}
  /\ main[s] = "idle" => outcome[s] = "none"

\* The outputs that are recorded are those of the tasks that have succeeded
\* and of those whose worker is about to report it.
Recorded(s) ==
  \A t \in Task :
    t \in produced[s] <=> \/ state[<<s, t>>] = "Succeeded"
                          \/ \E w \in Worker : /\ pc[s][w] = "completing"
                                               /\ task[s][w] = t

\* Whatever fails, run() knows of it before the scheduler does.
Noticed(s) ==
  failed[s] \/ (\E w \in Worker : pc[s][w] = "failing") => broken[s]

\* A worker that has ended found every task done, or run() knows of a fault.
Exhausted(s) ==
  s \in Live =>
    \A w \in WorkersOf(job[s]) :
      pc[s][w] = "exited" /\ ~broken[s] =>
        \A t \in job[s].tasks : state[<<s, t>>] = "Succeeded"

SessionOK(s) ==
  Owned(s) /\ Present(s) /\ Recorded(s) /\ Noticed(s) /\ Exhausted(s)

RunsInv == LocalsOK /\ \A s \in Session : SessionOK(s)

-----------------------------------------------------------------------------
(* Program counters.                                                       *)

LEMMA GotoType ==
  ASSUME LocalsOK, NEW s \in Session, NEW w \in Worker, NEW to \in Place
  PROVE  /\ Goto(s, w, to) \in [Session -> [Worker -> Place]]
         /\ Goto(s, w, to)[s][w] = to
         /\ \A v \in Worker \ {w} : Goto(s, w, to)[s][v] = pc[s][v]
         /\ \A x \in Session \ {s} : Goto(s, w, to)[x] = pc[x]
  BY DEF LocalsOK, Goto

LEMMA GotoValue ==
  ASSUME LocalsOK, NEW s \in Session, NEW w \in Worker, NEW to \in Place
  PROVE  \A x \in Session, v \in Worker :
           Goto(s, w, to)[x][v] = IF x = s /\ v = w THEN to ELSE pc[x][v]
  BY DEF LocalsOK, Goto

LEMMA WokenType ==
  ASSUME NEW p \in [Session -> [Worker -> Place]]
  PROVE  /\ Woken(p) \in [Session -> [Worker -> Place]]
         /\ \A s \in Session, w \in Worker :
              /\ Woken(p)[s][w] = IF p[s][w] = "parked" THEN "acquire" ELSE p[s][w]
              /\ Woken(p)[s][w] # "parked"
  BY DEF Woken, Place

-----------------------------------------------------------------------------
(* Every step is one of the scheduler's or leaves the scheduler alone.     *)

LEMMA BusyTask ==
  ASSUME RunsInv, NEW s \in Session, NEW w \in Worker, pc[s][w] \in Busy
  PROVE  task[s][w] \in Task /\ state[<<s, task[s][w]>>] = "Running"
  BY DEF RunsInv, SessionOK, Owned, InState

LEMMA StepOfScheduler ==
  ASSUME RunsInv, [RunsNext]_allVars
  PROVE  [Next]_vars
<1>1. ASSUME NEW s \in Session, NEW w \in Worker, WorkerStep(s, w)
      PROVE  [Next]_vars
  <2>1. CASE AcquireTask(s, w)
    BY <2>1 DEF AcquireTask, Next
  <2>2. CASE ReportSuccess(s, w)
    <3>1. task[s][w] \in Task
      BY <2>2, BusyTask DEF ReportSuccess, Busy
    <3>2. QED
      BY <2>2, <3>1 DEF ReportSuccess, Next
  <2>3. CASE ReportFailure(s, w)
    <3>1. task[s][w] \in Task
      BY <2>3, BusyTask DEF ReportFailure, Busy
    <3>2. QED
      BY <2>3, <3>1 DEF ReportFailure, Next
  <2>4. CASE UNCHANGED vars
    BY <2>4
  <2>5. QED
    BY <1>1, <2>1, <2>2, <2>3, <2>4
    DEF WorkerStep, StartWorker, Finished, Park, Prepare, RunTask, RunError
<1>2. ASSUME NEW s \in Session, NEW j \in Job, BeginRun(s, j) PROVE [Next]_vars
  BY <1>2 DEF BeginRun, Next
<1>3. ASSUME NEW s \in Session, EndRun(s) PROVE [Next]_vars
  BY <1>3 DEF EndRun, Next
<1>4. ASSUME AdmissionStep PROVE [Next]_vars
  BY <1>4 DEF AdmissionStep, Next
<1>5. ASSUME UNCHANGED allVars PROVE [Next]_vars
  BY <1>5 DEF allVars
<1>6. QED
  BY <1>1, <1>2, <1>3, <1>4, <1>5 DEF RunsNext

-----------------------------------------------------------------------------
(* Sessions that a step does not touch.                                    *)

Unfinished == {"Submitted", "Ready", "Reserved"}

\* Waiting tasks may have moved on and workers may have been woken.
Untouched(x) ==
  /\ job'[x] = job[x] /\ failed'[x] = failed[x] /\ main'[x] = main[x]
  /\ broken'[x] = broken[x] /\ produced'[x] = produced[x]
  /\ outcome'[x] = outcome[x]
  /\ \A w \in Worker :
       /\ task'[x][w] = task[x][w]
       /\ \/ pc'[x][w] = pc[x][w]
          \/ pc[x][w] = "parked" /\ pc'[x][w] = "acquire"
  /\ \A t \in Task : \/ state'[<<x, t>>] = state[<<x, t>>]
                     \/ /\ state[<<x, t>>] \in Unfinished
                        /\ state'[<<x, t>>] \in Unfinished

OthersUntouched(s) == \A x \in Session \ {s} : Untouched(x)

LEMMA UntouchedOK ==
  ASSUME IInv, NEW x \in Session, SessionOK(x), Untouched(x)
  PROVE  SessionOK(x)'
<1>1. \A w \in Worker :
        /\ pc'[x][w] \in Busy <=> pc[x][w] \in Busy
        /\ \A p \in Busy \cup {"exited"} : pc'[x][w] = p <=> pc[x][w] = p
        /\ task'[x][w] = task[x][w]
  BY DEF Untouched, Busy
<1>2. \A t \in Task, st \in {"Running", "Succeeded"} :
        state'[<<x, t>>] = st <=> state[<<x, t>>] = st
  BY DEF Untouched, Unfinished
<1>3. InState(x, "Running")' = InState(x, "Running")
  BY <1>2 DEF InState
<1>4. x \in Live' <=> x \in Live
  BY DEF Untouched, Live
<1>5. Owned(x)'
  BY <1>1, <1>3 DEF SessionOK, Owned
<1>6. Present(x)'
  BY <1>1, <1>4 DEF SessionOK, Present, Untouched
<1>7. Recorded(x)'
  BY <1>1, <1>2 DEF SessionOK, Recorded, Untouched, Busy
<1>8. Noticed(x)'
  BY <1>1 DEF SessionOK, Noticed, Untouched, Busy
<1>9. Exhausted(x)'
  <2> SUFFICES ASSUME x \in Live', NEW w \in WorkersOf(job'[x]),
                      pc'[x][w] = "exited", ~broken'[x], NEW t \in job'[x].tasks
               PROVE  state'[<<x, t>>] = "Succeeded"
    BY DEF Exhausted
  <2>1. w \in Worker /\ job'[x] = job[x]
    BY DEF WorkersOf, Untouched
  <2>2. state[<<x, t>>] = "Succeeded"
    BY <1>1, <1>4, <2>1 DEF SessionOK, Exhausted, Untouched
  <2>3. t \in Task
    BY <1>4, <2>1, JobAssumption DEF IInv, TypeOK, Live, JobShape
  <2>4. QED
    BY <1>2, <2>2, <2>3
<1>10. QED
  BY <1>5, <1>6, <1>7, <1>8, <1>9 DEF SessionOK

\* It is enough to look at the session that a step is of.
LEMMA OneSession ==
  ASSUME IInv, RunsInv, NEW s \in Session, LocalsOK', SessionOK(s)',
         \A x \in Session \ {s} : Untouched(x)
  PROVE  RunsInv'
<1>1. ASSUME NEW x \in Session \ {s} PROVE SessionOK(x)'
  BY <1>1, UntouchedOK DEF RunsInv
<1>2. QED
  BY <1>1 DEF RunsInv

-----------------------------------------------------------------------------
(* The scheduler's own steps and the calling thread.                       *)

LEMMA RunsInitOK == RunsInit => RunsInv
<1> SUFFICES ASSUME RunsInit PROVE RunsInv
  OBVIOUS
<1>1. LocalsOK
  BY DEF RunsInit, LocalsOK, Place
<1>2. ASSUME NEW s \in Session PROVE SessionOK(s)
  <2>1. \A t \in Task : state[<<s, t>>] = "Absent"
    BY DEF RunsInit, Init, Key
  <2>2. s \notin Live /\ ~failed[s]
    BY DEF RunsInit, Init, Live
  <2>3. InState(s, "Running") = {}
    BY <2>1 DEF InState
  <2>4. /\ main[s] = "idle" /\ ~broken[s] /\ produced[s] = {} /\ outcome[s] = "none"
        /\ \A w \in Worker : pc[s][w] = "exited"
    BY DEF RunsInit
  <2>5. QED
    BY <2>1, <2>2, <2>3, <2>4
    DEF SessionOK, Owned, Present, Recorded, Noticed, Exhausted, Busy
<1>3. QED
  BY <1>1, <1>2 DEF RunsInv

LEMMA AdmissionOK ==
  ASSUME IInv, RunsInv, AdmissionStep
  PROVE  RunsInv' /\ \A x \in Session : Untouched(x)
<1>1. UNCHANGED <<job, failed, locals>>
  BY DEF AdmissionStep, Admission, Admit, NextPass, EndAdmission, records
<1>2. state \in [Key -> TaskState \cup {"Absent"}]
  BY DEF IInv, TypeOK
<1>3. \A k \in Key : \/ state'[k] = state[k]
                     \/ state[k] \in Unfinished /\ state'[k] \in Unfinished
  <2>1. ASSUME NEW o \in 0 .. (Len(order) - 1), NEW t \in Task, Admit(o, t),
               NEW k \in Key
        PROVE  \/ state'[k] = state[k]
               \/ state[k] \in Unfinished /\ state'[k] \in Unfinished
    <3>1. PICK s : s = At(o)
      OBVIOUS
    <3>2. /\ state[<<s, t>>] = "Ready"
          /\ state' = [state EXCEPT ![<<s, t>>] = "Reserved"]
      BY <2>1, <3>1 DEF Admit, FirstAdmissible, Admissible
    <3>3. QED
      BY <1>2, <3>2 DEF Unfinished
  <2>2. QED
    BY <2>1 DEF AdmissionStep, Admission, NextPass, EndAdmission, records
<1>4. \A x \in Session : Untouched(x)
  BY <1>1, <1>3 DEF Untouched, locals, Key
<1>5. \A x \in Session : SessionOK(x)'
  BY <1>4, UntouchedOK DEF RunsInv
<1>6. LocalsOK'
  BY <1>1 DEF RunsInv, LocalsOK, locals
<1>7. QED
  BY <1>4, <1>5, <1>6 DEF RunsInv

LEMMA BeginRunOK ==
  ASSUME IInv, RunsInv, NEW s \in Session, NEW j \in Job, BeginRun(s, j)
  PROVE  RunsInv' /\ OthersUntouched(s)
<1> DEFINE first == [w \in Worker |-> IF w \in WorkersOf(j) THEN "start" ELSE "exited"]
           p == [pc EXCEPT ![s] = first]
<1>1. /\ main[s] = "idle" /\ s \notin Live
      /\ job' = [job EXCEPT ![s] = j] /\ failed' = [failed EXCEPT ![s] = FALSE]
      /\ main' = [main EXCEPT ![s] = "joining"]
      /\ pc' = Woken(p)
      /\ UNCHANGED <<task, broken, produced, outcome>>
  BY DEF BeginRun, Submit
<1>2. p \in [Session -> [Worker -> Place]]
  BY DEF RunsInv, LocalsOK, Place
<1>3. /\ pc' \in [Session -> [Worker -> Place]]
      /\ \A x \in Session, w \in Worker :
           pc'[x][w] = IF p[x][w] = "parked" THEN "acquire" ELSE p[x][w]
  BY <1>1, <1>2, WokenType
<1>4. /\ job \in [Session -> Job \cup {NoJob}] /\ failed \in [Session -> BOOLEAN]
      /\ LocalsOK
  BY DEF IInv, TypeOK, RunsInv
<1>5. LocalsOK'
  BY <1>1, <1>3, <1>4 DEF LocalsOK
<1>6. /\ \A w \in Worker : pc'[s][w] = first[w]
      /\ \A x \in Session \ {s} : p[x] = pc[x]
  BY <1>2, <1>3, <1>4 DEF LocalsOK
<1>7. \A t \in Task : state[<<s, t>>] = "Absent" /\ <<s, t>> \in Key
  BY <1>1, NothingLeft DEF Key
<1>8. /\ \A k \in Key : k[1] # s => state'[k] = state[k]
      /\ \A t \in Task : state'[<<s, t>>] \in {"Absent", "Ready", "Submitted"}
  BY <1>7 DEF BeginRun, Submit
<1>9. ASSUME NEW x \in Session \ {s} PROVE Untouched(x)
  <2>1. \A w \in Worker : pc'[x][w] = IF pc[x][w] = "parked" THEN "acquire" ELSE pc[x][w]
    BY <1>3, <1>6
  <2>2. \A t \in Task : state'[<<x, t>>] = state[<<x, t>>]
    BY <1>8 DEF Key
  <2>3. job'[x] = job[x] /\ failed'[x] = failed[x] /\ main'[x] = main[x]
    BY <1>1, <1>4 DEF LocalsOK
  <2>4. QED
    BY <1>1, <2>1, <2>2, <2>3 DEF Untouched
<1>10. SessionOK(s)'
  <2>1. Present(s) /\ Recorded(s)
    BY DEF RunsInv, SessionOK
  <2>2. j # NoJob /\ s \in Live'
    BY <1>1, <1>4, JobAssumption DEF Live
  <2>3. InState(s, "Running")' = {}
    BY <1>8 DEF InState
  <2>4. \A w \in Worker : pc'[s][w] \notin Busy
    BY <1>6 DEF Busy
  <2>5. Owned(s)'
    BY <2>3, <2>4 DEF Owned
  <2>6. main'[s] = "joining" /\ ~failed'[s]
    BY <1>1, <1>4 DEF LocalsOK
  <2>7. Present(s)' /\ Noticed(s)'
    BY <2>2, <2>4, <2>6 DEF Present, Noticed, Busy
  <2>8. Recorded(s)'
    BY <1>1, <1>8, <2>1, <2>4 DEF Recorded, Present, Busy
  <2>9. \A w \in WorkersOf(j) : pc'[s][w] = "start"
    BY <1>6 DEF WorkersOf
  <2>10. Exhausted(s)'
    BY <1>1, <1>4, <2>9 DEF Exhausted
  <2>11. QED
    BY <2>5, <2>7, <2>8, <2>10 DEF SessionOK
<1>11. QED
  BY <1>5, <1>9, <1>10, OneSession DEF OthersUntouched

LEMMA EndRunOK ==
  ASSUME IInv, RunsInv, NEW s \in Session, EndRun(s)
  PROVE  RunsInv' /\ OthersUntouched(s)
<1>1. /\ s \in Live /\ main[s] = "joining"
      /\ \A w \in Worker : pc[s][w] = "exited"
      /\ job' = [job EXCEPT ![s] = NoJob] /\ failed' = [failed EXCEPT ![s] = FALSE]
      /\ main' = [main EXCEPT ![s] = "returned"]
      /\ broken' = [broken EXCEPT ![s] = FALSE]
      /\ produced' = [produced EXCEPT ![s] = {}]
      /\ outcome'[s] \in {"ok", "error", "incomplete"}
      /\ \A x \in Session \ {s} : outcome'[x] = outcome[x]
      /\ outcome' \in [Session -> {"none", "ok", "error", "incomplete"}]
      /\ pc' = Woken(pc) /\ task' = task
      /\ state' = [k \in Key |-> IF k[1] = s THEN "Absent" ELSE state[k]]
  BY DEF EndRun, Release, RunsInv, LocalsOK
<1>2. /\ job \in [Session -> Job \cup {NoJob}] /\ failed \in [Session -> BOOLEAN]
      /\ LocalsOK
  BY DEF IInv, TypeOK, RunsInv
<1>3. /\ pc' \in [Session -> [Worker -> Place]]
      /\ \A x \in Session, w \in Worker :
           pc'[x][w] = IF pc[x][w] = "parked" THEN "acquire" ELSE pc[x][w]
  BY <1>1, <1>2, WokenType DEF LocalsOK
<1>4. LocalsOK'
  BY <1>1, <1>2, <1>3 DEF LocalsOK
<1>5. ASSUME NEW x \in Session \ {s} PROVE Untouched(x)
  BY <1>1, <1>2, <1>3 DEF Untouched, LocalsOK, Key
<1>6. SessionOK(s)'
  <2>1. \A t \in Task : state'[<<s, t>>] = "Absent"
    BY <1>1 DEF Key
  <2>2. InState(s, "Running")' = {}
    BY <2>1 DEF InState
  <2>3. \A w \in Worker : pc'[s][w] = "exited"
    BY <1>1, <1>3
  <2>4. s \notin Live' /\ ~failed'[s]
    BY <1>1, <1>2 DEF Live
  <2>5. main'[s] = "returned" /\ ~broken'[s] /\ produced'[s] = {}
    BY <1>1, <1>2 DEF LocalsOK
  <2>6. QED
    BY <2>1, <2>2, <2>3, <2>4, <2>5
    DEF SessionOK, Owned, Present, Recorded, Noticed, Exhausted, Busy
<1>7. QED
  BY <1>4, <1>5, <1>6, OneSession DEF OthersUntouched

-----------------------------------------------------------------------------
(* Workers, between their calls into the scheduler.                        *)

LEMMA OutsideRun ==
  ASSUME RunsInv, NEW s \in Session, NEW w \in Worker, pc[s][w] # "exited"
  PROVE  s \in Live /\ main[s] = "joining"
  BY DEF RunsInv, SessionOK, Present

\* A worker takes a step of its own: it neither takes a task nor lets one go.
LEMMA QuietStep ==
  ASSUME IInv, RunsInv, NEW s \in Session, NEW w \in Worker, NEW to \in Place,
         UNCHANGED <<vars, main, task, outcome>>, pc' = Goto(s, w, to),
         pc[s][w] # "exited", to \in Busy <=> pc[s][w] \in Busy,
         broken' \in [Session -> BOOLEAN], broken[s] => broken'[s],
         produced' \in [Session -> SUBSET Task],
         \A x \in Session \ {s} : broken'[x] = broken[x] /\ produced'[x] = produced[x],
         to = "failing" => broken'[s],
         to = "exited" => \/ broken'[s]
                          \/ \A t \in job[s].tasks : state[<<s, t>>] = "Succeeded",
         Recorded(s)'
  PROVE  RunsInv' /\ OthersUntouched(s)
<1>1. /\ pc' \in [Session -> [Worker -> Place]]
      /\ pc'[s][w] = to
      /\ \A v \in Worker \ {w} : pc'[s][v] = pc[s][v]
      /\ \A x \in Session \ {s} : pc'[x] = pc[x]
  BY GotoType DEF RunsInv
<1>2. job' = job /\ failed' = failed /\ state' = state
  BY DEF vars, records
<1>3. s \in Live /\ main[s] = "joining" /\ s \in Live'
  BY <1>2, OutsideRun DEF Live
<1>4. LocalsOK'
  BY <1>1 DEF RunsInv, LocalsOK
<1>5. \A x \in Session \ {s} : Untouched(x)
  BY <1>1, <1>2 DEF Untouched
<1>6. SessionOK(s)
  BY DEF RunsInv
<1>7. \A v \in Worker : pc'[s][v] \in Busy <=> pc[s][v] \in Busy
  BY <1>1
<1>8. Owned(s)'
  <2>1. InState(s, "Running")' = InState(s, "Running")
    BY <1>2 DEF InState
  <2>2. QED
    BY <1>6, <1>7, <2>1 DEF SessionOK, Owned
<1>9. Present(s)'
  BY <1>3, <1>6 DEF SessionOK, Present
<1>10. Noticed(s)'
  BY <1>1, <1>2, <1>6 DEF SessionOK, Noticed
<1>11. Exhausted(s)'
  BY <1>1, <1>2, <1>3, <1>6 DEF SessionOK, Exhausted, WorkersOf
<1>12. QED
  BY <1>4, <1>5, <1>8, <1>9, <1>10, <1>11, OneSession DEF SessionOK, OthersUntouched

\* The record of outputs stays right while nobody begins or ceases to report.
LEMMA RecordKept ==
  ASSUME RunsInv, NEW s \in Session, NEW w \in Worker, NEW to \in Place,
         UNCHANGED <<vars, task, produced>>, pc' = Goto(s, w, to),
         pc[s][w] # "completing", to # "completing"
  PROVE  Recorded(s)'
<1>1. /\ pc'[s][w] = to
      /\ \A v \in Worker \ {w} : pc'[s][v] = pc[s][v]
  BY GotoType DEF RunsInv
<1>2. state' = state /\ Recorded(s)
  BY DEF vars, records, RunsInv, SessionOK
<1>3. QED
  BY <1>1, <1>2 DEF Recorded

\* What is left to do in a drained session whose run knows of no fault.
LEMMA DrainedIsDone ==
  ASSUME IInv, RunsInv, NEW s \in Live, Drained(s)
  PROVE  \/ broken[s]
         \/ \A t \in job[s].tasks : state[<<s, t>>] = "Succeeded"
<1>1. s \in Session /\ job[s] \in Job
  BY DEF Live, IInv, TypeOK
<1>2. job[s].tasks \subseteq Task /\ IsFiniteSet(job[s].tasks)
  BY <1>1, JobAssumption, TaskAssumption, FS_Subset DEF JobShape
<1>3. failed[s] => broken[s]
  BY <1>1 DEF RunsInv, SessionOK, Noticed
<1>4. CASE completed[s] = Cardinality(job[s].tasks)
  <2>1. InState(s, "Succeeded") \subseteq job[s].tasks
    BY <1>1 DEF InState, IInv, Records
  <2>2. Cardinality(InState(s, "Succeeded")) = Cardinality(job[s].tasks)
    BY <1>1, <1>4 DEF IInv, Counting, Counters
  <2>3. InState(s, "Succeeded") = job[s].tasks
    BY <1>2, <2>1, <2>2, FS_Subset
  <2>4. QED
    BY <2>3 DEF InState
<1>5. QED
  BY <1>3, <1>4 DEF Drained

LEMMA StartWorkerOK ==
  ASSUME IInv, RunsInv, NEW s \in Session, NEW w \in Worker, StartWorker(s, w)
  PROVE  RunsInv' /\ OthersUntouched(s)
<1>1. /\ pc[s][w] = "start" /\ UNCHANGED <<vars, main, task, produced, outcome>>
      /\ \/ pc' = Goto(s, w, "acquire") /\ UNCHANGED broken
         \/ pc' = Goto(s, w, "exited") /\ broken' = [broken EXCEPT ![s] = TRUE]
  BY DEF StartWorker
<1>2. LocalsOK
  BY DEF RunsInv
<1>3. /\ broken' \in [Session -> BOOLEAN] /\ (broken[s] => broken'[s])
      /\ \A x \in Session \ {s} : broken'[x] = broken[x] /\ produced'[x] = produced[x]
      /\ produced' \in [Session -> SUBSET Task]
  BY <1>1, <1>2 DEF LocalsOK
<1>4. /\ {"acquire", "exited"} \subseteq Place
      /\ {"start", "acquire", "exited"} \cap Busy = {}
  BY DEF Place, Busy
<1>5. CASE pc' = Goto(s, w, "acquire")
  <2>1. Recorded(s)'
    BY <1>1, <1>4, <1>5, RecordKept
  <2>2. QED
    BY <1>1, <1>3, <1>4, <1>5, <2>1, QuietStep
<1>6. CASE pc' = Goto(s, w, "exited") /\ broken' = [broken EXCEPT ![s] = TRUE]
  <2>1. Recorded(s)'
    BY <1>1, <1>4, <1>6, RecordKept
  <2>2. broken'[s]
    BY <1>2, <1>6 DEF LocalsOK
  <2>3. QED
    BY <1>1, <1>3, <1>4, <1>6, <2>1, <2>2, QuietStep
<1>7. QED
  BY <1>1, <1>5, <1>6

LEMMA LookOK ==
  ASSUME IInv, RunsInv, NEW s \in Session, NEW w \in Worker,
         Finished(s, w) \/ Park(s, w)
  PROVE  RunsInv' /\ OthersUntouched(s)
<1>1. pc[s][w] = "acquire" /\ UNCHANGED <<vars, main, task, broken, produced, outcome>>
  BY DEF Finished, Park
<1>2. /\ broken' \in [Session -> BOOLEAN] /\ (broken[s] => broken'[s])
      /\ \A x \in Session \ {s} : broken'[x] = broken[x] /\ produced'[x] = produced[x]
      /\ produced' \in [Session -> SUBSET Task]
  BY <1>1 DEF RunsInv, LocalsOK
<1>3. /\ {"parked", "exited"} \subseteq Place
      /\ {"parked", "acquire", "exited"} \cap Busy = {}
  BY DEF Place, Busy
<1>4. CASE Finished(s, w)
  <2>1. pc' = Goto(s, w, "exited") /\ Drained(s) /\ s \in Live
    BY <1>1, <1>4, OutsideRun DEF Finished
  <2>2. Recorded(s)'
    BY <1>1, <1>3, <2>1, RecordKept
  <2>3. broken'[s] \/ \A t \in job[s].tasks : state[<<s, t>>] = "Succeeded"
    BY <1>1, <2>1, DrainedIsDone
  <2>4. QED
    BY <1>1, <1>2, <1>3, <2>1, <2>2, <2>3, QuietStep
<1>5. CASE Park(s, w)
  <2>1. pc' = Goto(s, w, "parked")
    BY <1>5 DEF Park
  <2>2. Recorded(s)'
    BY <1>1, <1>3, <2>1, RecordKept
  <2>3. QED
    BY <1>1, <1>2, <1>3, <2>1, <2>2, QuietStep
<1>6. QED
  BY <1>4, <1>5

\* A task is given up: it cannot be prepared, or the backend has failed.
LEMMA GiveUpOK ==
  ASSUME IInv, RunsInv, NEW s \in Session, NEW w \in Worker,
         pc[s][w] \in {"prepare", "run"}, pc' = Goto(s, w, "failing"),
         broken' = [broken EXCEPT ![s] = TRUE],
         UNCHANGED <<vars, main, task, produced, outcome>>
  PROVE  RunsInv' /\ OthersUntouched(s)
<1>1. /\ broken' \in [Session -> BOOLEAN] /\ broken'[s]
      /\ \A x \in Session \ {s} : broken'[x] = broken[x] /\ produced'[x] = produced[x]
      /\ produced' \in [Session -> SUBSET Task]
  BY DEF RunsInv, LocalsOK
<1>2. "failing" \in Place /\ {"prepare", "run", "failing"} \subseteq Busy
  BY DEF Place, Busy
<1>3. Recorded(s)'
  BY <1>2, RecordKept
<1>4. QED
  BY <1>1, <1>2, <1>3, QuietStep

LEMMA PrepareOK ==
  ASSUME IInv, RunsInv, NEW s \in Session, NEW w \in Worker, Prepare(s, w)
  PROVE  RunsInv' /\ OthersUntouched(s)
<1>1. pc[s][w] = "prepare" /\ UNCHANGED <<vars, main, task, produced, outcome>>
  BY DEF Prepare
<1>2. CASE pc' = Goto(s, w, "run") /\ UNCHANGED broken
  <2>1. /\ broken' \in [Session -> BOOLEAN]
        /\ produced' \in [Session -> SUBSET Task]
    BY <1>1, <1>2 DEF RunsInv, LocalsOK
  <2>2. "run" \in Place /\ {"prepare", "run"} \subseteq Busy
    BY DEF Place, Busy
  <2>3. Recorded(s)'
    BY <1>1, <1>2, <2>2, RecordKept
  <2>4. QED
    BY <1>1, <1>2, <2>1, <2>2, <2>3, QuietStep
<1>3. CASE pc' = Goto(s, w, "failing") /\ broken' = [broken EXCEPT ![s] = TRUE]
  BY <1>1, <1>3, GiveUpOK
<1>4. QED
  BY <1>2, <1>3 DEF Prepare

LEMMA RunErrorOK ==
  ASSUME IInv, RunsInv, NEW s \in Session, NEW w \in Worker, RunError(s, w)
  PROVE  RunsInv' /\ OthersUntouched(s)
  BY GiveUpOK DEF RunError

LEMMA RunTaskOK ==
  ASSUME IInv, RunsInv, NEW s \in Session, NEW w \in Worker, RunTask(s, w)
  PROVE  RunsInv' /\ OthersUntouched(s)
<1> DEFINE t == task[s][w]
<1>1. /\ pc[s][w] = "run" /\ pc' = Goto(s, w, "completing")
      /\ produced' = [produced EXCEPT ![s] = @ \cup {t}]
      /\ UNCHANGED <<vars, main, task, broken, outcome>>
  BY DEF RunTask
<1>2. "completing" \in Place /\ {"run", "completing"} \subseteq Busy
  BY DEF Place, Busy
<1>3. t \in Task
  BY <1>1, <1>2, BusyTask
<1>4. /\ broken' \in [Session -> BOOLEAN]
      /\ produced' \in [Session -> SUBSET Task]
      /\ produced'[s] = produced[s] \cup {t}
      /\ \A x \in Session \ {s} : produced'[x] = produced[x]
  BY <1>1, <1>3 DEF RunsInv, LocalsOK
<1>5. Recorded(s)'
  <2>1. /\ pc'[s][w] = "completing"
        /\ \A v \in Worker \ {w} : pc'[s][v] = pc[s][v]
    BY <1>1, <1>2, GotoType DEF RunsInv
  <2>2. state' = state /\ Recorded(s)
    BY <1>1 DEF vars, records, RunsInv, SessionOK
  <2>3. QED
    BY <1>1, <1>4, <2>1, <2>2 DEF Recorded
<1>6. QED
  BY <1>1, <1>2, <1>4, <1>5, QuietStep

-----------------------------------------------------------------------------
(* Workers, calling the scheduler.                                         *)

\* A task with a record is one of the session's.
LEMMA TaskOfJob ==
  ASSUME IInv, NEW s \in Session, NEW t \in Task, state[<<s, t>>] # "Absent"
  PROVE  s \in Live /\ t \in job[s].tasks
  BY DEF IInv, Records

\* While a task is not done, a worker that has ended knows of a fault.
LEMMA NotExhausted ==
  ASSUME IInv, RunsInv, NEW s \in Session, NEW t \in Task,
         state[<<s, t>>] \notin {"Absent", "Succeeded"}
  PROVE  \A w \in WorkersOf(job[s]) : pc[s][w] = "exited" => broken[s]
<1>1. s \in Live /\ t \in job[s].tasks
  BY TaskOfJob
<1>2. QED
  BY <1>1 DEF RunsInv, SessionOK, Exhausted

LEMMA AcquireTaskOK ==
  ASSUME IInv, RunsInv, NEW s \in Session, NEW w \in Worker, AcquireTask(s, w)
  PROVE  RunsInv' /\ OthersUntouched(s)
<1>1. PICK t \in Task : Acquire(s, t) /\ task' = [task EXCEPT ![s][w] = t]
  BY DEF AcquireTask
<1>2. /\ pc[s][w] = "acquire" /\ pc' = Goto(s, w, "prepare")
      /\ UNCHANGED <<main, broken, produced, outcome, job, failed>>
      /\ state[<<s, t>>] = "Reserved"
      /\ state' = [state EXCEPT ![<<s, t>>] = "Running"]
  BY <1>1 DEF AcquireTask, Acquire
<1>3. "prepare" \in Place /\ "prepare" \in Busy /\ "acquire" \notin Busy
  BY DEF Place, Busy
<1>4. /\ pc' \in [Session -> [Worker -> Place]]
      /\ pc'[s][w] = "prepare"
      /\ \A v \in Worker \ {w} : pc'[s][v] = pc[s][v]
      /\ \A x \in Session \ {s} : pc'[x] = pc[x]
  BY <1>2, <1>3, GotoType DEF RunsInv
<1>5. /\ task' \in [Session -> [Worker -> Task \cup {NoTask}]]
      /\ task'[s][w] = t
      /\ \A v \in Worker \ {w} : task'[s][v] = task[s][v]
      /\ \A x \in Session \ {s} : task'[x] = task[x]
  BY <1>1 DEF RunsInv, LocalsOK
<1>6. state \in [Key -> TaskState \cup {"Absent"}]
  BY DEF IInv, TypeOK
<1>7. /\ \A u \in Task : state'[<<s, u>>] = IF u = t THEN "Running" ELSE state[<<s, u>>]
      /\ \A x \in Session \ {s}, u \in Task : state'[<<x, u>>] = state[<<x, u>>]
  BY <1>2, <1>6 DEF Key
<1>8. LocalsOK'
  BY <1>2, <1>4, <1>5 DEF RunsInv, LocalsOK
<1>9. \A x \in Session \ {s} : Untouched(x)
  BY <1>2, <1>4, <1>5, <1>7 DEF Untouched
<1>10. SessionOK(s) /\ s \in Live /\ s \in Live'
  BY <1>2, OutsideRun DEF RunsInv, Live
<1>11. InState(s, "Running")' = InState(s, "Running") \cup {t} /\ t \notin InState(s, "Running")
  BY <1>2, <1>7 DEF InState
<1>12. Owned(s)'
  <2>1. \A v \in Worker : pc'[s][v] \in Busy <=> v = w \/ pc[s][v] \in Busy
    BY <1>3, <1>4
  <2>2. \A v \in Worker : pc[s][v] \in Busy => v # w /\ task[s][v] # t
    BY <1>2, <1>3, <1>10, <1>11 DEF SessionOK, Owned
  <2>3. QED
    BY <1>5, <1>10, <1>11, <2>1, <2>2 DEF SessionOK, Owned
<1>13. Present(s)'
  BY <1>2, <1>10 DEF SessionOK, Present
<1>14. Recorded(s)'
  <2>1. \A v \in Worker, u \in Task :
          pc'[s][v] = "completing" /\ task'[s][v] = u <=>
            pc[s][v] = "completing" /\ task[s][v] = u
    BY <1>2, <1>4, <1>5
  <2>2. \A u \in Task : state'[<<s, u>>] = "Succeeded" <=> state[<<s, u>>] = "Succeeded"
    BY <1>2, <1>7
  <2>3. QED
    BY <1>2, <1>10, <2>1, <2>2 DEF SessionOK, Recorded
<1>15. Noticed(s)'
  BY <1>2, <1>4, <1>10 DEF SessionOK, Noticed
<1>16. Exhausted(s)'
  <2>1. \A v \in WorkersOf(job[s]) : pc[s][v] = "exited" => broken[s]
    BY <1>2, NotExhausted
  <2>2. QED
    BY <1>2, <1>4, <2>1 DEF Exhausted, WorkersOf
<1>17. QED
  BY <1>8, <1>9, <1>12, <1>13, <1>14, <1>15, <1>16, OneSession DEF SessionOK, OthersUntouched

\* A worker reports the end of its task: everyone who waits is woken, and
\* the task is in nobody's hands.
LEMMA ReportOK ==
  ASSUME IInv, RunsInv, NEW s \in Session, NEW w \in Worker,
         NEW result \in {"Succeeded", "Failed"},
         pc[s][w] = IF result = "Succeeded" THEN "completing" ELSE "failing",
         pc' = Woken(Goto(s, w, "acquire")),
         task' = [task EXCEPT ![s][w] = NoTask],
         UNCHANGED <<main, broken, produced, outcome, job>>,
         \A x \in Session \ {s} : failed'[x] = failed[x],
         result = "Succeeded" => failed'[s] = failed[s],
         \A x \in Session \ {s}, u \in Task : state'[<<x, u>>] = state[<<x, u>>],
         state'[<<s, task[s][w]>>] = result,
         \A u \in Task \ {task[s][w]} :
            \/ state'[<<s, u>>] = state[<<s, u>>]
            \/ /\ state[<<s, u>>] \in Unfinished
               /\ state'[<<s, u>>] \in {"Ready", "Cancelled"}
  PROVE  RunsInv' /\ OthersUntouched(s)
<1> DEFINE t == task[s][w]
           p == Goto(s, w, "acquire")
<1>1. pc[s][w] \in {"completing", "failing"} /\ "acquire" \in Place
  BY DEF Place
<1>2. t \in Task /\ state[<<s, t>>] = "Running"
  BY <1>1, BusyTask DEF Busy
<1>3. /\ p \in [Session -> [Worker -> Place]]
      /\ p[s][w] = "acquire"
      /\ \A v \in Worker \ {w} : p[s][v] = pc[s][v]
      /\ \A x \in Session \ {s} : p[x] = pc[x]
  BY <1>1, GotoType DEF RunsInv
<1>4. /\ pc' \in [Session -> [Worker -> Place]]
      /\ \A x \in Session, v \in Worker :
           pc'[x][v] = IF p[x][v] = "parked" THEN "acquire" ELSE p[x][v]
  BY <1>3, WokenType
<1>5. /\ task' \in [Session -> [Worker -> Task \cup {NoTask}]]
      /\ \A v \in Worker \ {w} : task'[s][v] = task[s][v]
      /\ \A x \in Session \ {s} : task'[x] = task[x]
  BY DEF RunsInv, LocalsOK
<1>6. LocalsOK'
  BY <1>4, <1>5 DEF RunsInv, LocalsOK
<1>7. \A x \in Session \ {s} : Untouched(x)
  BY <1>3, <1>4, <1>5 DEF Untouched
<1>8. SessionOK(s) /\ s \in Live /\ s \in Live'
  BY <1>1, OutsideRun DEF RunsInv, Live
<1>9. /\ pc'[s][w] = "acquire"
      /\ \A v \in Worker \ {w} :
           \/ pc'[s][v] = pc[s][v]
           \/ pc[s][v] = "parked" /\ pc'[s][v] = "acquire"
  BY <1>3, <1>4
<1>10. \A u \in Task : state'[<<s, u>>] = "Running" <=> u # t /\ state[<<s, u>>] = "Running"
  BY <1>2 DEF Unfinished
<1>11. Owned(s)'
  <2>1. InState(s, "Running")' = InState(s, "Running") \ {t}
    BY <1>10 DEF InState
  <2>2. \A v \in Worker : pc'[s][v] \in Busy <=> v # w /\ pc[s][v] \in Busy
    BY <1>9 DEF Busy
  <2>3. \A v \in Worker \ {w} : pc[s][v] \in Busy => task[s][v] # t
    BY <1>1, <1>8 DEF SessionOK, Owned, Busy
  <2>4. pc[s][w] \in Busy
    BY <1>1 DEF Busy
  <2>5. QED
    BY <1>5, <1>8, <2>1, <2>2, <2>3, <2>4 DEF SessionOK, Owned
<1>12. Present(s)'
  BY <1>8 DEF SessionOK, Present
<1>13. Recorded(s)'
  <2>1. \A v \in Worker, u \in Task :
          pc'[s][v] = "completing" /\ task'[s][v] = u <=>
            v # w /\ pc[s][v] = "completing" /\ task[s][v] = u
    BY <1>5, <1>9
  <2>2. \A u \in Task \ {t} : state'[<<s, u>>] = "Succeeded" <=> state[<<s, u>>] = "Succeeded"
    BY DEF Unfinished
  <2>3. ASSUME NEW u \in Task \ {t} PROVE
          (\E v \in Worker : pc'[s][v] = "completing" /\ task'[s][v] = u) <=>
          (\E v \in Worker : pc[s][v] = "completing" /\ task[s][v] = u)
    BY <2>1, <2>3
  <2>4. ASSUME result = "Succeeded" PROVE t \in produced[s]
    BY <1>2, <1>8, <2>4 DEF SessionOK, Recorded
  <2>5. ASSUME result = "Failed"
        PROVE  /\ t \notin produced[s]
               /\ \A v \in Worker : ~(pc'[s][v] = "completing" /\ task'[s][v] = t)
    <3>1. \A v \in Worker : pc[s][v] = "completing" => task[s][v] # t
      BY <1>8, <2>5 DEF SessionOK, Owned, Busy
    <3>2. QED
      BY <1>2, <1>8, <2>1, <3>1 DEF SessionOK, Recorded
  <2>6. QED
    BY <1>2, <1>8, <2>2, <2>3, <2>4, <2>5 DEF SessionOK, Recorded
<1>14. Noticed(s)'
  BY <1>8, <1>9 DEF SessionOK, Noticed
<1>15. Exhausted(s)'
  <2>1. \A v \in WorkersOf(job[s]) : pc[s][v] = "exited" => broken[s]
    BY <1>2, NotExhausted
  <2>2. QED
    BY <1>9, <2>1 DEF Exhausted, WorkersOf
<1>16. QED
  BY <1>6, <1>7, <1>11, <1>12, <1>13, <1>14, <1>15, OneSession DEF SessionOK, OthersUntouched

LEMMA ReportSuccessOK ==
  ASSUME IInv, RunsInv, NEW s \in Session, NEW w \in Worker, ReportSuccess(s, w)
  PROVE  RunsInv' /\ OthersUntouched(s)
<1> DEFINE t == task[s][w]
<1>1. /\ pc[s][w] = "completing" /\ Complete(s, t)
      /\ pc' = Woken(Goto(s, w, "acquire"))
      /\ task' = [task EXCEPT ![s][w] = NoTask]
      /\ UNCHANGED <<main, broken, produced, outcome, job, failed>>
  BY DEF ReportSuccess, Complete
<1>2. t \in Task
  BY <1>1, BusyTask DEF Busy
<1>3. /\ \A k \in Key : \/ k = <<s, t>> /\ state'[k] = "Succeeded"
                        \/ k # <<s, t>> /\ state'[k] = state[k]
                        \/ /\ k # <<s, t>> /\ k[1] = s
                           /\ state[k] = "Submitted" /\ state'[k] = "Ready"
  BY <1>1 DEF Complete
<1>4. /\ \A x \in Session \ {s}, u \in Task : state'[<<x, u>>] = state[<<x, u>>]
      /\ state'[<<s, t>>] = "Succeeded"
      /\ \A u \in Task \ {t} :
           \/ state'[<<s, u>>] = state[<<s, u>>]
           \/ /\ state[<<s, u>>] \in Unfinished
              /\ state'[<<s, u>>] \in {"Ready", "Cancelled"}
  BY <1>2, <1>3 DEF Key, Unfinished
<1> HIDE DEF t
<1>5. QED
  BY <1>1, <1>4, ReportOK DEF t

LEMMA ReportFailureOK ==
  ASSUME IInv, RunsInv, NEW s \in Session, NEW w \in Worker, ReportFailure(s, w)
  PROVE  RunsInv' /\ OthersUntouched(s)
<1> DEFINE t == task[s][w]
<1>1. /\ pc[s][w] = "failing" /\ Fail(s, t)
      /\ pc' = Woken(Goto(s, w, "acquire"))
      /\ task' = [task EXCEPT ![s][w] = NoTask]
      /\ UNCHANGED <<main, broken, produced, outcome, job>>
      /\ failed' = [failed EXCEPT ![s] = TRUE]
  BY DEF ReportFailure, Fail
<1>2. t \in Task /\ failed \in [Session -> BOOLEAN]
  BY <1>1, BusyTask DEF Busy, IInv, TypeOK
<1>3. /\ \A k \in Key : \/ k = <<s, t>> /\ state'[k] = "Failed"
                        \/ k # <<s, t>> /\ state'[k] = state[k]
                        \/ /\ k # <<s, t>> /\ k[1] = s
                           /\ state[k] \in Unfinished /\ state'[k] = "Cancelled"
  BY <1>1 DEF Fail, Pending, KeysOf, Unfinished
<1>4. /\ \A x \in Session \ {s}, u \in Task : state'[<<x, u>>] = state[<<x, u>>]
      /\ state'[<<s, t>>] = "Failed"
      /\ \A u \in Task \ {t} :
           \/ state'[<<s, u>>] = state[<<s, u>>]
           \/ /\ state[<<s, u>>] \in Unfinished
              /\ state'[<<s, u>>] \in {"Ready", "Cancelled"}
      /\ \A x \in Session \ {s} : failed'[x] = failed[x]
  BY <1>1, <1>2, <1>3 DEF Key
<1> HIDE DEF t
<1>5. QED
  BY <1>1, <1>4, ReportOK DEF t

-----------------------------------------------------------------------------
(* The inductive invariant.                                                *)

SchedulerInv == IInv /\ AllSettled /\ Dependencies

LEMMA RunsInvKept ==
  ASSUME IInv, RunsInv, [RunsNext]_allVars
  PROVE  RunsInv'
<1>1. ASSUME NEW s \in Session, NEW w \in Worker, WorkerStep(s, w)
      PROVE  RunsInv'
  BY <1>1, StartWorkerOK, AcquireTaskOK, LookOK, PrepareOK, RunTaskOK,
     RunErrorOK, ReportSuccessOK, ReportFailureOK DEF WorkerStep
<1>2. CASE UNCHANGED allVars
  BY <1>2 DEF allVars, vars, records, locals, RunsInv, LocalsOK, SessionOK,
     Owned, Present, Recorded, Noticed, Exhausted, InState, Live, WorkersOf
<1>3. QED
  BY <1>1, <1>2, AdmissionOK, BeginRunOK, EndRunOK DEF RunsNext

LEMMA SchedulerInvKept ==
  ASSUME SchedulerInv, RunsInv, [RunsNext]_allVars
  PROVE  SchedulerInv'
<1>1. [Next]_vars
  BY StepOfScheduler
<1>2. IInv'
  BY <1>1, NextKeeps DEF SchedulerInv
<1>3. QED
  BY <1>1, <1>2, SettledKept, DependenciesKept DEF SchedulerInv

\* The scheduler's invariants hold in every run, and together with them the
\* relation between workers and task records.
THEOREM RunsInductive == RunsSpec => [](SchedulerInv /\ RunsInv)
<1>1. RunsInit => SchedulerInv /\ RunsInv
  <2>1. Init => AllSettled /\ Dependencies
    BY DEF Init, AllSettled, Settled, Key, Dependencies, Live
  <2>2. QED
    BY <2>1, InitIInv, RunsInitOK DEF RunsInit, SchedulerInv
<1>2. SchedulerInv /\ RunsInv /\ [RunsNext]_allVars => (SchedulerInv /\ RunsInv)'
  BY RunsInvKept, SchedulerInvKept DEF SchedulerInv
<1>3. QED
  BY <1>1, <1>2, PTL DEF RunsSpec

-----------------------------------------------------------------------------
(* What the runs check of workers and records.                             *)

\* What is running is in the hands of exactly one worker: none runs twice,
\* none is lost between acquisition and report.
THEOREM OneWorkerPerTask == RunsSpec => []EachTaskOneWorker
<1>1. RunsInv => EachTaskOneWorker
  BY DEF RunsInv, SessionOK, Owned, EachTaskOneWorker
<1>2. QED
  BY <1>1, RunsInductive, PTL

\* A task whose inputs come from declared dependencies resolves them: they
\* have succeeded, and outputs are recorded before the scheduler hears of it.
THEOREM DeclaredInputsFound == RunsSpec => []DeclaredInputsResolve
<1>1. SchedulerInv /\ RunsInv => DeclaredInputsResolve
  <2> SUFFICES ASSUME SchedulerInv, RunsInv, NEW s \in Session, NEW w \in Worker,
                      pc[s][w] = "prepare",
                      NEW i \in DOMAIN job[s].deps[task[s][w]]
               PROVE  job[s].deps[task[s][w]][i] \in produced[s]
    BY DEF DeclaredInputsResolve
  <2> DEFINE t == task[s][w]
  <2>1. t \in Task /\ state[<<s, t>>] = "Running"
    BY BusyTask DEF Busy
  <2>2. s \in Live /\ t \in job[s].tasks
    BY <2>1, TaskOfJob DEF SchedulerInv
  <2>3. Unmet(s, t) = {}
    BY <2>1, <2>2 DEF SchedulerInv, Dependencies
  <2>4. state[<<s, job[s].deps[t][i]>>] = "Succeeded"
    BY <2>3 DEF Unmet
  <2>5. job[s].deps[t][i] \in Task
    BY <2>2, ListType DEF SchedulerInv
  <2>6. QED
    BY <2>4, <2>5 DEF RunsInv, SessionOK, Recorded
<1>2. QED
  BY <1>1, RunsInductive, PTL

\* Whichever way the runs have ended, when none is under way the ledger is
\* empty: no reservation is left and nothing is in use.
THEOREM LedgerEmptyAfterRuns == RunsSpec => []NothingHeldAfterwards
<1>1. SchedulerInv /\ RunsInv => NothingHeldAfterwards
  <2> SUFFICES ASSUME SchedulerInv, RunsInv, \A s \in Session : main[s] # "joining"
               PROVE  (\A r \in Resource : used[r] = 0) /\ DOMAIN grant = {}
    BY DEF NothingHeldAfterwards
  <2>1. \A s \in Session : s \notin Live
    BY DEF RunsInv, SessionOK, Present
  <2>2. DOMAIN grant = {}
    BY <2>1, NothingLeft DEF SchedulerInv, IInv, TypeOK, Key
  <2>3. \A r \in Resource : used[r] = 0
    BY <2>2, UnitsNone DEF SchedulerInv, IInv, Counting, Accounting
  <2>4. QED
    BY <2>2, <2>3
<1>2. QED
  BY <1>1, RunsInductive, PTL

-----------------------------------------------------------------------------
(* Wakeups.                                                                *)

\* While the mutex is held by the admission loop nobody waits: the call that
\* began it has notified everyone.
AllAwake ==
  ~MutexFree => \A s \in Session, w \in Worker : pc[s][w] # "parked"

\* What a waiting worker's condition reads of its session.
SameToWaiters(s) ==
  /\ job'[s] = job[s] /\ failed'[s] = failed[s]
  /\ completed'[s] = completed[s] /\ running'[s] = running[s]
  /\ \A t \in Task : state'[<<s, t>>] = "Reserved" => state[<<s, t>>] = "Reserved"

\* A step after which nobody waits who did not wait before, and nobody of a
\* session whose condition it has changed.
LEMMA WaitersKept ==
  ASSUME NoLostWakeup, AllAwake, pass' = pass,
         \A s \in Session, w \in Worker :
           pc'[s][w] = "parked" =>
             /\ MutexFree
             /\ pc[s][w] = "parked" \/ (NothingReserved(s) /\ ~Drained(s))
             /\ SameToWaiters(s)
  PROVE  NoLostWakeup' /\ AllAwake'
<1>1. MutexFree' <=> MutexFree
  BY DEF MutexFree
<1>2. ASSUME MutexFree', NEW s \in Session, NEW w \in Worker, pc'[s][w] = "parked"
      PROVE  NothingReserved(s)' /\ ~Drained(s)'
  <2>1. NothingReserved(s) /\ ~Drained(s) /\ SameToWaiters(s)
    BY <1>1, <1>2 DEF NoLostWakeup
  <2>2. NothingReserved(s)'
    BY <2>1 DEF NothingReserved, SameToWaiters
  <2>3. ~Drained(s)'
    BY <2>1 DEF Drained, SameToWaiters, Live
  <2>4. QED
    BY <2>2, <2>3
<1>3. QED
  BY <1>1, <1>2 DEF NoLostWakeup, AllAwake

\* After a call that notifies everyone nobody waits.
LEMMA NobodyWaits ==
  ASSUME NEW p \in [Session -> [Worker -> Place]], pc' = Woken(p)
  PROVE  NoLostWakeup' /\ AllAwake'
<1>1. \A s \in Session, w \in Worker : pc'[s][w] # "parked"
  BY WokenType
<1>2. QED
  BY <1>1 DEF NoLostWakeup, AllAwake

LEMMA WakeupsKept ==
  ASSUME IInv, RunsInv, NoLostWakeup, AllAwake, [RunsNext]_allVars
  PROVE  NoLostWakeup' /\ AllAwake'
<1>1. ASSUME AdmissionStep PROVE NoLostWakeup' /\ AllAwake'
  <2>1. ~MutexFree /\ pc' = pc
    BY <1>1 DEF AdmissionStep, Admission, Admit, NextPass, EndAdmission,
                MutexFree, locals
  <2>2. \A s \in Session, w \in Worker : pc'[s][w] # "parked"
    BY <2>1 DEF AllAwake
  <2>3. QED
    BY <2>2 DEF NoLostWakeup, AllAwake
<1>2. ASSUME NEW s \in Session, NEW j \in Job, BeginRun(s, j)
      PROVE  NoLostWakeup' /\ AllAwake'
  <2>1. [pc EXCEPT ![s] =
          [w \in Worker |-> IF w \in WorkersOf(j) THEN "start" ELSE "exited"]]
          \in [Session -> [Worker -> Place]]
    BY DEF RunsInv, LocalsOK, Place
  <2>2. QED
    BY <1>2, <2>1, NobodyWaits DEF BeginRun
<1>3. ASSUME NEW s \in Session, EndRun(s) PROVE NoLostWakeup' /\ AllAwake'
  BY <1>3, NobodyWaits DEF EndRun, RunsInv, LocalsOK
<1>4. ASSUME NEW s \in Session, NEW w \in Worker,
             ReportSuccess(s, w) \/ ReportFailure(s, w)
      PROVE  NoLostWakeup' /\ AllAwake'
  <2>1. Goto(s, w, "acquire") \in [Session -> [Worker -> Place]]
    BY GotoType DEF RunsInv, Place
  <2>2. QED
    BY <1>4, <2>1, NobodyWaits DEF ReportSuccess, ReportFailure
<1>5. ASSUME NEW s \in Session, NEW w \in Worker,
             \/ StartWorker(s, w) \/ Finished(s, w) \/ Prepare(s, w)
             \/ RunTask(s, w) \/ RunError(s, w)
      PROVE  NoLostWakeup' /\ AllAwake'
  <2>1. \/ pc' = Goto(s, w, "acquire") \/ pc' = Goto(s, w, "exited")
        \/ pc' = Goto(s, w, "run") \/ pc' = Goto(s, w, "completing")
        \/ pc' = Goto(s, w, "failing")
    BY <1>5 DEF StartWorker, Finished, Prepare, RunTask, RunError
  <2>2. \A x \in Session, v \in Worker : pc'[x][v] = "parked" => pc[x][v] = "parked"
    <3>1. {"acquire", "exited", "run", "completing", "failing"} \subseteq Place
      BY DEF Place, Busy
    <3>2. PICK to \in Place \ {"parked"} : pc' = Goto(s, w, to)
      BY <2>1, <3>1
    <3>3. QED
      BY <3>2, GotoValue DEF RunsInv
  <2>3. MutexFree /\ UNCHANGED vars
    BY <1>5 DEF StartWorker, Finished, Prepare, RunTask, RunError
  <2>4. \A x \in Session : SameToWaiters(x)
    BY <2>3 DEF SameToWaiters, vars, records
  <2>5. QED
    BY <2>2, <2>3, <2>4, WaitersKept DEF vars
<1>6. ASSUME NEW s \in Session, NEW w \in Worker, Park(s, w)
      PROVE  NoLostWakeup' /\ AllAwake'
  <2>1. /\ MutexFree /\ UNCHANGED vars /\ pc' = Goto(s, w, "parked")
        /\ NothingReserved(s) /\ ~Drained(s)
    BY <1>6 DEF Park
  <2>2. \A x \in Session, v \in Worker :
          pc'[x][v] = "parked" => pc[x][v] = "parked" \/ x = s
    BY <2>1, GotoType DEF RunsInv, Place
  <2>3. \A x \in Session : SameToWaiters(x)
    BY <2>1 DEF SameToWaiters, vars, records
  <2>4. QED
    BY <2>1, <2>2, <2>3, WaitersKept DEF vars
<1>7. ASSUME NEW s \in Session, NEW w \in Worker, AcquireTask(s, w)
      PROVE  NoLostWakeup' /\ AllAwake'
  <2>1. PICK t \in Task : Acquire(s, t)
    BY <1>7 DEF AcquireTask
  <2>2. /\ MutexFree /\ state[<<s, t>>] = "Reserved" /\ pass' = pass
        /\ UNCHANGED <<job, failed, completed>>
        /\ running' = [running EXCEPT ![s] = @ + 1]
        /\ state' = [state EXCEPT ![<<s, t>>] = "Running"]
        /\ pc' = Goto(s, w, "prepare")
    BY <1>7, <2>1 DEF AcquireTask, Acquire
  <2>3. \A v \in Worker : pc[s][v] # "parked"
    BY <2>2 DEF NoLostWakeup, NothingReserved
  <2>4. \A x \in Session, v \in Worker :
          pc'[x][v] = "parked" => x # s /\ pc[x][v] = "parked"
    <3>1. "prepare" \in Place
      BY DEF Place, Busy
    <3>2. \A x \in Session, v \in Worker :
            pc'[x][v] = IF x = s /\ v = w THEN "prepare" ELSE pc[x][v]
      BY <2>2, <3>1, GotoValue DEF RunsInv
    <3>3. QED
      BY <2>3, <3>2
  <2>5. \A x \in Session \ {s} : SameToWaiters(x)
    <3>1. /\ running \in [Session -> Nat]
          /\ state \in [Key -> TaskState \cup {"Absent"}]
      BY DEF IInv, TypeOK
    <3>2. \A x \in Session \ {s} : running'[x] = running[x]
      BY <2>2, <3>1
    <3>3. \A x \in Session \ {s}, u \in Task : state'[<<x, u>>] = state[<<x, u>>]
      BY <2>2, <3>1 DEF Key
    <3>4. QED
      BY <2>2, <3>2, <3>3 DEF SameToWaiters
  <2>6. QED
    BY <2>2, <2>4, <2>5, WaitersKept
<1>8. CASE UNCHANGED allVars
  BY <1>8 DEF allVars, vars, records, locals, NoLostWakeup, AllAwake, MutexFree,
     NothingReserved, Drained, Live
<1>9. QED
  BY <1>1, <1>2, <1>3, <1>4, <1>5, <1>6, <1>7, <1>8 DEF RunsNext, WorkerStep

\* A worker waits on the condition variable only while it has nothing to
\* take and its session is not drained: no notification is missing.
THEOREM NoWakeupLost == RunsSpec => []NoLostWakeup
<1>1. RunsInit => NoLostWakeup /\ AllAwake
  BY DEF RunsInit, NoLostWakeup, AllAwake
<1>2. SchedulerInv /\ RunsInv /\ NoLostWakeup /\ AllAwake /\ [RunsNext]_allVars
        => NoLostWakeup' /\ AllAwake'
  BY WakeupsKept DEF SchedulerInv
<1>3. QED
  BY <1>1, <1>2, RunsInductive, PTL DEF RunsSpec

-----------------------------------------------------------------------------
(* The runs as clients of the scheduler.                                   *)

\* Callers and workers use the scheduler as it is meant to be used: each of
\* their steps is one call of it, made when it may be made, or none.  What
\* GlobalScheduler_proofs shows for arbitrary clients holds for runs.
THEOREM RunsAreClients == RunsSpec => Spec
<1>1. RunsInit => Init
  BY DEF RunsInit
<1>2. RunsInv /\ [RunsNext]_allVars => [Next]_vars
  BY StepOfScheduler
<1>3. QED
  BY <1>1, <1>2, RunsInductive, PTL DEF RunsSpec, Spec

LEMMA RunsConfigureNothing ==
  ASSUME IInv, [RunsNext]_allVars
  PROVE  configured'.slots <= configured.slots
<1>1. configured' = configured
  <2>1. ASSUME Admission PROVE configured' = configured
    BY <2>1 DEF Admission, Admit, NextPass, EndAdmission, resources
  <2>2. ASSUME NEW s \in Session, NEW w \in Worker, WorkerStep(s, w)
        PROVE  configured' = configured
    <3>1. CASE UNCHANGED vars
      BY <3>1 DEF vars, resources
    <3>2. CASE AcquireTask(s, w)
      BY <3>2 DEF AcquireTask, Acquire, resources
    <3>3. CASE ReportSuccess(s, w)
      BY <3>3 DEF ReportSuccess, Complete
    <3>4. CASE ReportFailure(s, w)
      BY <3>4 DEF ReportFailure, Fail
    <3>5. QED
      BY <2>2, <3>1, <3>2, <3>3, <3>4
      DEF WorkerStep, StartWorker, Finished, Park, Prepare, RunTask, RunError
  <2>3. ASSUME NEW s \in Session, (\E j \in Job : BeginRun(s, j)) \/ EndRun(s)
        PROVE  configured' = configured
    BY <2>3 DEF BeginRun, Submit, EndRun, Release, resources
  <2>4. QED
    BY <2>1, <2>2, <2>3 DEF RunsNext, AdmissionStep, allVars, vars, resources
<1>2. configured.slots \in Nat
  BY DEF IInv, TypeOK, Amount, Resource
<1>3. QED
  BY <1>1, <1>2

\* Runs do not configure: while they are the only clients, a task that takes
\* the whole device never shares it with another NPU task of any run.
THEOREM RunsShareNoDevice == RunsSpec => []ExclusiveDevice
<1>1. SchedulerInv /\ [RunsNext]_allVars => [configured'.slots <= configured.slots]_vars
  BY RunsConfigureNothing DEF SchedulerInv
<1>2. RunsSpec => SlotsNeverRaised
  BY <1>1, RunsInductive, PTL DEF RunsSpec, SlotsNeverRaised
<1>3. QED
  BY <1>2, RunsAreClients, DeviceNotShared, PTL

-----------------------------------------------------------------------------
(* Standstill.                                                             *)

\* No thread of any call has a step: in every call under way a worker waits,
\* and all that do not wait have ended.
Standstill ==
  /\ MutexFree
  /\ \A s \in Session : main[s] = "joining" =>
       /\ \E w \in Worker : pc[s][w] = "parked"
       /\ \A w \in Worker : pc[s][w] \in {"parked", "exited"}

Nothing == [r \in Resource |-> 0]

\* A task that waits for more room than there is: it would not be admitted
\* if nothing else were.
Oversized(s, t) ==
  /\ state[<<s, t>>] = "Ready"
  /\ ~Fits(configured, Nothing, FALSE, RequirementOf(job[s], t))

\* When nothing moves any more, every call under way has a ready task that
\* does not fit into the capacities of the moment.
OnlyRoomIsMissing ==
  Standstill =>
    \A s \in Session : main[s] = "joining" =>
      \E t \in job[s].tasks : Oversized(s, t)

\* Then nothing is reserved and nobody runs anything.
LEMMA NothingInUse ==
  ASSUME SchedulerInv, RunsInv, NoLostWakeup, Standstill
  PROVE  /\ \A s \in Session, t \in Task :
              state[<<s, t>>] \notin {"Reserved", "Running"}
         /\ used = Nothing
         /\ \A s \in Session : admitted[s] = 0
<1>1. /\ state \in [Key -> TaskState \cup {"Absent"}] /\ DOMAIN grant \subseteq Key
      /\ used \in [Resource -> Nat]
  BY DEF SchedulerInv, IInv, TypeOK, Amount
<1>2. \A s \in Session, t \in Task :
        state[<<s, t>>] \notin {"Reserved", "Running"}
  <2> TAKE s \in Session, t \in Task
  <2>1. CASE main[s] # "joining"
    BY <2>1, NothingLeft DEF SchedulerInv, RunsInv, SessionOK, Present
  <2>2. CASE main[s] = "joining"
    <3>1. state[<<s, t>>] # "Reserved"
      BY <2>2 DEF Standstill, NoLostWakeup, NothingReserved
    <3>2. \A w \in Worker : pc[s][w] \notin Busy
      BY <2>2 DEF Standstill, Busy
    <3>3. state[<<s, t>>] # "Running"
      BY <3>2 DEF RunsInv, SessionOK, Owned, InState
    <3>4. QED
      BY <3>1, <3>3
  <2>3. QED
    BY <2>1, <2>2
<1>3. DOMAIN grant = {}
  BY <1>1, <1>2 DEF SchedulerInv, IInv, Counting, Tickets, HoldsTicket, Key
<1>4. \A r \in Resource : used[r] = 0
  BY <1>3, UnitsNone DEF SchedulerInv, IInv, Counting, Accounting
<1>5. \A s \in Session : admitted[s] = 0
  <2>1. \A s \in Session : HeldBy(s) = {}
    BY <1>3 DEF HeldBy
  <2>2. QED
    BY <2>1, FS_EmptySet DEF SchedulerInv, IInv, Counting, AdmittedCount
<1>6. QED
  BY <1>1, <1>2, <1>4, <1>5 DEF Nothing

LEMMA LiveJob ==
  ASSUME IInv, NEW s \in Live
  PROVE  job[s] \in Job /\ job[s].tasks \subseteq Task
  BY JobAssumption DEF IInv, TypeOK, Live, JobShape

\* A call whose worker waits has not failed, and a task of it has not
\* succeeded.
LEMMA WaitersNotDone ==
  ASSUME SchedulerInv, RunsInv, NoLostWakeup, Standstill,
         NEW s \in Session, main[s] = "joining"
  PROVE  /\ s \in Live /\ ~failed[s]
         /\ \E t \in job[s].tasks : state[<<s, t>>] # "Succeeded"
<1>1. ~Drained(s)
  BY DEF Standstill, NoLostWakeup
<1>2. s \in Live /\ completed[s] # Cardinality(job[s].tasks)
  BY <1>1 DEF Drained
<1>3. InState(s, "Running") = {}
  BY NothingInUse DEF InState
<1>4. running[s] = 0
  BY <1>3, FS_EmptySet DEF SchedulerInv, IInv, Counting, Counters
<1>5. job[s].tasks \subseteq Task
  BY <1>2, LiveJob DEF SchedulerInv
<1>6. \E t \in job[s].tasks : state[<<s, t>>] # "Succeeded"
  <2> SUFFICES ASSUME \A t \in job[s].tasks : state[<<s, t>>] = "Succeeded"
               PROVE  FALSE
    OBVIOUS
  <2>1. \A t \in Task : state[<<s, t>>] = "Succeeded" => t \in job[s].tasks
    BY DEF SchedulerInv, IInv, Records
  <2>2. InState(s, "Succeeded") = job[s].tasks
    BY <1>5, <2>1 DEF InState
  <2>3. QED
    BY <1>2, <2>2 DEF SchedulerInv, IInv, Counting, Counters
<1>7. QED
  BY <1>1, <1>2, <1>4, <1>6 DEF Drained

\* Among the tasks of a graph with an order that have not succeeded one
\* depends on none of them; it is ready.
LEMMA SomeTaskReady ==
  ASSUME SchedulerInv, RunsInv, NoLostWakeup, Standstill,
         NEW s \in Session, main[s] = "joining"
  PROVE  \E t \in job[s].tasks : state[<<s, t>>] = "Ready"
<1>1. /\ s \in Live /\ ~failed[s]
      /\ \E t \in job[s].tasks : state[<<s, t>>] # "Succeeded"
  BY WaitersNotDone
<1>2. job[s] \in Job /\ job[s].tasks \subseteq Task
  BY <1>1, LiveJob DEF SchedulerInv
<1>3. HasOrder(job[s])
  BY <1>2, RunAssumption DEF RunShape
<1> DEFINE Left == {t \in job[s].tasks : state[<<s, t>>] # "Succeeded"}
<1>4. PICK t \in Left : \A i \in DOMAIN job[s].deps[t] : job[s].deps[t][i] \notin Left
  BY <1>1, <1>3 DEF HasOrder
<1>5. t \in Task /\ <<s, t>> \in Key /\ t \in job[s].tasks
  BY <1>2 DEF Key
<1>6. \A i \in DOMAIN job[s].deps[t] : job[s].deps[t][i] \in job[s].tasks
  BY <1>2, JobAssumption DEF JobShape
<1>7. Unmet(s, t) = {}
  BY <1>4, <1>6 DEF Unmet
<1>8. state[<<s, t>>] \notin {"Submitted", "Succeeded"}
  BY <1>1, <1>4, <1>5, <1>7 DEF SchedulerInv, Dependencies
<1>9. state[<<s, t>>] \notin {"Failed", "Cancelled"}
  BY <1>1, <1>5 DEF SchedulerInv, AllSettled, Settled
<1>10. state[<<s, t>>] # "Absent"
  BY <1>1, <1>5 DEF SchedulerInv, IInv, Records
<1>11. state[<<s, t>>] \in TaskState \cup {"Absent"}
  BY <1>5 DEF SchedulerInv, IInv, TypeOK
<1>12. QED
  BY <1>5, <1>8, <1>9, <1>10, <1>11, NothingInUse DEF TaskState

\* The threads of the runs never wait for one another: they all stand still
\* only when in every call a task is ready whose requirement exceeds the
\* capacities, which no return of a reservation will change, only a
\* configureResourceScheduler.  What its submission neither refuses nor ever
\* admits is the only thing that can stop run().
THEOREM StandstillExplained == RunsSpec => []OnlyRoomIsMissing
<1>1. SchedulerInv /\ RunsInv /\ NoLostWakeup /\ WorkConserving => OnlyRoomIsMissing
  <2> SUFFICES ASSUME SchedulerInv, RunsInv, NoLostWakeup, WorkConserving,
                      Standstill, NEW s \in Session, main[s] = "joining"
               PROVE  \E t \in job[s].tasks : Oversized(s, t)
    BY DEF OnlyRoomIsMissing
  <2>1. PICK t \in job[s].tasks : state[<<s, t>>] = "Ready"
    BY SomeTaskReady
  <2>2. \A x \in Live : ~failed[x]
    BY WaitersNotDone DEF RunsInv, SessionOK, Present, Live
  <2>3. ~CanAdmit(s)
    BY <2>2 DEF WorkConserving, Standstill
  <2>4. s \in Live /\ ~failed[s]
    BY WaitersNotDone
  <2>5. job[s].maxAdmittedTasks \in Nat /\ t \in Task
    BY <2>4, LiveJob, JobAssumption DEF SchedulerInv, JobShape
  <2>6. ~QuotaExhausted(s)
    BY <2>5, NothingInUse DEF QuotaExhausted
  <2>7. ~Fits(configured, used, FALSE, RequirementOf(job[s], t))
    BY <2>1, <2>3, <2>4, <2>5, <2>6 DEF CanAdmit, Admissible
  <2>8. QED
    BY <2>1, <2>7, NothingInUse DEF Oversized
<1>2. QED
  BY <1>1, RunsInductive, NoWakeupLost, RunsAreClients, NothingLeftWaiting, PTL

-----------------------------------------------------------------------------
(* The promise of TaskGraphRun.tla.                                        *)

\* The refinement mapping, by name.
graphMap  == [s \in Session |-> IF s \in Live THEN GraphOf(job[s]) ELSE NoJob]
statusMap == [s \in Session |-> [t \in Task |-> StatusOf(s, t)]]

LEMMA UntouchedStatus ==
  ASSUME NEW x \in Session, Untouched(x)
  PROVE  /\ \A t \in Task : StatusOf(x, t)' = StatusOf(x, t)
         /\ graphMap'[x] = graphMap[x]
<1>1. \A t \in Task, st \in {"Running", "Failed"} :
        state'[<<x, t>>] = st <=> state[<<x, t>>] = st
  BY DEF Untouched, Unfinished
<1>2. \A w \in Worker, t \in Task :
        pc'[x][w] = "failing" /\ task'[x][w] = t <=>
          pc[x][w] = "failing" /\ task[x][w] = t
  BY DEF Untouched
<1>3. \A t \in Task : StatusOf(x, t)' = StatusOf(x, t)
  BY <1>1, <1>2 DEF StatusOf, Untouched
<1>4. QED
  BY <1>3 DEF graphMap, Untouched, Live

\* A step that changes the status of one task, or of none.
LEMMA StatusStep ==
  ASSUME NEW s \in Session, OthersUntouched(s), NEW t \in Task, NEW st,
         \A u \in Task : StatusOf(s, u)' = IF u = t THEN st ELSE StatusOf(s, u)
  PROVE  statusMap' = [statusMap EXCEPT ![s][t] = st]
<1>1. \A x \in Session \ {s}, u \in Task : StatusOf(x, u)' = StatusOf(x, u)
  BY UntouchedStatus DEF OthersUntouched
<1>2. QED
  BY <1>1 DEF statusMap

LEMMA StatusSame ==
  ASSUME NEW s \in Session, OthersUntouched(s),
         \A u \in Task : StatusOf(s, u)' = StatusOf(s, u)
  PROVE  statusMap' = statusMap
<1>1. \A x \in Session, u \in Task : StatusOf(x, u)' = StatusOf(x, u)
  BY UntouchedStatus DEF OthersUntouched
<1>2. QED
  BY <1>1 DEF statusMap

LEMMA GraphSame ==
  ASSUME UNCHANGED job
  PROVE  graphMap' = graphMap
  BY DEF graphMap, Live

\* A call is under way exactly while the scheduler knows its session, and
\* then it runs the graph of its job.
LEMMA UnderLive ==
  ASSUME IInv, NEW s \in Session
  PROVE  /\ graphMap[s] # NoJob <=> s \in Live
         /\ s \in Live => graphMap[s] = GraphOf(job[s])
  BY NoJobAssumption DEF graphMap, IInv, TypeOK, Live

LEMMA BeginStep ==
  ASSUME IInv, RunsInv, NEW s \in Session, NEW j \in Job, BeginRun(s, j)
  PROVE  Promise!Begin(s)
<1>1. /\ s \notin Live /\ main[s] = "idle" /\ job' = [job EXCEPT ![s] = j]
      /\ UNCHANGED <<task, broken, produced, outcome>>
  BY DEF BeginRun, Submit
<1>2. job \in [Session -> Job \cup {NoJob}]
  BY DEF IInv, TypeOK
<1>3. RunsInv' /\ OthersUntouched(s)
  BY BeginRunOK
<1>4. SessionOK(s) /\ outcome[s] = "none" /\ produced[s] = {}
  BY <1>1 DEF RunsInv, SessionOK, Present
<1>5. /\ graphMap[s] = NoJob
      /\ graphMap' = [graphMap EXCEPT ![s] = graphMap'[s]]
      /\ graphMap'[s] = GraphOf(j)
  BY <1>1, <1>2, JobAssumption DEF graphMap, Live
<1>6. statusMap' = statusMap
  <2>1. \A t \in Task : /\ state[<<s, t>>] = "Absent" /\ <<s, t>> \in Key
                        /\ state'[<<s, t>>] \in {"Absent", "Ready", "Submitted"}
    <3>1. \A t \in Task : state[<<s, t>>] = "Absent" /\ <<s, t>> \in Key
      BY <1>1, NothingLeft DEF Key
    <3>2. QED
      BY <3>1 DEF BeginRun, Submit
  <2>2. \A w \in Worker : pc[s][w] # "failing" /\ pc'[s][w] # "failing"
    <3>1. \A w \in Worker : pc[s][w] # "failing"
      BY <1>1, <1>4 DEF SessionOK, Present
    <3>2. Owned(s)'
      BY <1>3 DEF RunsInv, SessionOK
    <3>3. InState(s, "Running")' = {}
      BY <2>1 DEF InState
    <3>4. \A w \in Worker : pc'[s][w] \notin Busy
      BY <3>2, <3>3 DEF Owned
    <3>5. QED
      BY <3>1, <3>4 DEF Busy
  <2>3. \A t \in Task : StatusOf(s, t)' = "waiting" /\ StatusOf(s, t) = "waiting"
    BY <1>1, <1>4, <2>1, <2>2 DEF StatusOf
  <2>4. QED
    BY <1>3, <2>3, StatusSame
<1>7. QED
  BY <1>1, <1>4, <1>5, <1>6 DEF Promise!Begin, Promise!Under, graphMap, statusMap

LEMMA AcquireStep ==
  ASSUME IInv, Dependencies, RunsInv, NEW s \in Session, NEW w \in Worker,
         AcquireTask(s, w)
  PROVE  \E t \in Task : Promise!Start(s, t)
<1>1. PICK t \in Task : Acquire(s, t) /\ task' = [task EXCEPT ![s][w] = t]
  BY DEF AcquireTask
<1>2. /\ pc[s][w] = "acquire" /\ pc' = Goto(s, w, "prepare")
      /\ UNCHANGED <<main, broken, produced, outcome, job>>
      /\ state[<<s, t>>] = "Reserved"
      /\ state' = [state EXCEPT ![<<s, t>>] = "Running"]
  BY <1>1 DEF AcquireTask, Acquire
<1>3. s \in Live /\ t \in job[s].tasks
  BY <1>2, TaskOfJob
<1>4. SessionOK(s) /\ OthersUntouched(s)
  BY AcquireTaskOK DEF RunsInv
<1>5. \A u \in Task :
        /\ state'[<<s, u>>] = IF u = t THEN "Running" ELSE state[<<s, u>>]
        /\ \A v \in Worker : pc'[s][v] = "failing" /\ task'[s][v] = u <=>
                               pc[s][v] = "failing" /\ task[s][v] = u
  <2>1. "prepare" \in Place
    BY DEF Place, Busy
  <2>2. \A v \in Worker : pc'[s][v] = IF v = w THEN "prepare" ELSE pc[s][v]
    BY <1>2, <2>1, GotoValue DEF RunsInv
  <2>3. \A v \in Worker \ {w} : task'[s][v] = task[s][v]
    BY <1>1 DEF RunsInv, LocalsOK
  <2>4. \A u \in Task : state'[<<s, u>>] = IF u = t THEN "Running" ELSE state[<<s, u>>]
    BY <1>2 DEF IInv, TypeOK, Key
  <2>5. QED
    BY <1>2, <2>2, <2>3, <2>4
<1>6. /\ t \notin produced[s]
      /\ \A v \in Worker : ~(pc[s][v] = "failing" /\ task[s][v] = t)
  <2>1. \A v \in Worker : pc[s][v] \in {"completing", "failing"} => task[s][v] # t
    BY <1>2, BusyTask DEF Busy
  <2>2. QED
    BY <1>2, <1>4, <2>1 DEF SessionOK, Recorded
<1>7. /\ StatusOf(s, t) = "waiting" /\ StatusOf(s, t)' = "executing"
      /\ \A u \in Task \ {t} : StatusOf(s, u)' = StatusOf(s, u)
  BY <1>2, <1>5, <1>6 DEF StatusOf
<1>8. statusMap' = [statusMap EXCEPT ![s][t] = "executing"] /\ statusMap[s][t] = "waiting"
  <2>1. statusMap' = [statusMap EXCEPT ![s][t] = "executing"]
    BY <1>4, <1>7, StatusStep
  <2>2. QED
    BY <1>7, <2>1 DEF statusMap
<1>9. ASSUME NEW d \in GraphOf(job[s]).needs[t] PROVE statusMap[s][d] = "done"
  <2>1. PICK i \in DOMAIN job[s].deps[t] : d = job[s].deps[t][i]
    BY <1>3, <1>9 DEF GraphOf
  <2>2. Unmet(s, t) = {}
    BY <1>2, <1>3 DEF Dependencies
  <2>3. d \in Task /\ state[<<s, d>>] = "Succeeded"
    BY <1>3, <2>1, <2>2, ListType DEF Unmet
  <2>4. d \in produced[s]
    BY <1>4, <2>3 DEF SessionOK, Recorded
  <2>5. QED
    BY <2>3, <2>4 DEF statusMap, StatusOf
<1>10. graphMap' = graphMap /\ graphMap[s] # NoJob /\ graphMap[s] = GraphOf(job[s])
  BY <1>2, <1>3, GraphSame, UnderLive
<1>11. t \in graphMap[s].tasks /\ \A d \in graphMap[s].needs[t] : statusMap[s][d] = "done"
  <2>1. GraphOf(job[s]).tasks = job[s].tasks
    BY DEF GraphOf
  <2>2. QED
    BY <1>3, <1>9, <1>10, <2>1
<1>12. QED
  BY <1>2, <1>8, <1>10, <1>11 DEF Promise!Start, Promise!Under, graphMap, statusMap

\* The task in the hands of a worker that has not run it yet.
LEMMA HeldTask ==
  ASSUME RunsInv, NEW s \in Session, NEW w \in Worker, pc[s][w] \in {"prepare", "run"}
  PROVE  /\ task[s][w] \in Task
         /\ state[<<s, task[s][w]>>] = "Running"
         /\ task[s][w] \notin produced[s]
         /\ \A v \in Worker \ {w} : pc[s][v] \in Busy => task[s][v] # task[s][w]
         /\ StatusOf(s, task[s][w]) = "executing"
<1> DEFINE t == task[s][w]
<1>1. pc[s][w] \in Busy /\ SessionOK(s)
  BY DEF Busy, RunsInv
<1>2. t \in Task /\ state[<<s, t>>] = "Running"
  BY <1>1, BusyTask
<1>3. \A v \in Worker \ {w} : pc[s][v] \in Busy => task[s][v] # t
  BY <1>1 DEF SessionOK, Owned
<1>4. \A v \in Worker : pc[s][v] \in {"completing", "failing"} => task[s][v] # t
  BY <1>3 DEF Busy
<1>5. t \notin produced[s]
  BY <1>1, <1>2, <1>4 DEF SessionOK, Recorded
<1>6. StatusOf(s, t) = "executing"
  BY <1>2, <1>4, <1>5 DEF StatusOf
<1>7. QED
  BY <1>2, <1>3, <1>5, <1>6

\* Giving a task up is its failure, as far as the caller is concerned.
LEMMA GiveUpStep ==
  ASSUME IInv, RunsInv, NEW s \in Session, NEW w \in Worker,
         pc[s][w] \in {"prepare", "run"}, pc' = Goto(s, w, "failing"),
         broken' = [broken EXCEPT ![s] = TRUE],
         UNCHANGED <<vars, main, task, produced, outcome>>
  PROVE  \E t \in Task : Promise!FailTask(s, t)
<1>1. PICK t \in Task : t = task[s][w]
  BY HeldTask
<1>2. OthersUntouched(s) /\ job' = job /\ state' = state
  BY GiveUpOK DEF vars, records
<1>3. StatusOf(s, t) = "executing" /\ t \notin produced[s] /\ s \in Live
  BY <1>1, HeldTask, OutsideRun
<1>4. \A v \in Worker : pc'[s][v] = IF v = w THEN "failing" ELSE pc[s][v]
  <2>1. "failing" \in Place
    BY DEF Place, Busy
  <2>2. QED
    BY <2>1, GotoValue DEF RunsInv
<1>5. /\ StatusOf(s, t)' = "failed"
      /\ \A u \in Task \ {t} : StatusOf(s, u)' = StatusOf(s, u)
  BY <1>1, <1>2, <1>3, <1>4 DEF StatusOf
<1>6. statusMap' = [statusMap EXCEPT ![s][t] = "failed"] /\ statusMap[s][t] = "executing"
  <2>1. statusMap' = [statusMap EXCEPT ![s][t] = "failed"]
    BY <1>2, <1>5, StatusStep
  <2>2. QED
    BY <1>3, <2>1 DEF statusMap
<1>7. graphMap' = graphMap /\ graphMap[s] # NoJob
  BY <1>2, <1>3, GraphSame, UnderLive
<1>8. QED
  BY <1>6, <1>7 DEF Promise!FailTask, Promise!Under, graphMap, statusMap

\* The end of a task is known to the caller when its outputs are recorded.
LEMMA RunTaskStep ==
  ASSUME IInv, RunsInv, NEW s \in Session, NEW w \in Worker, RunTask(s, w)
  PROVE  \E t \in Task : Promise!Finish(s, t)
<1>1. /\ pc[s][w] = "run" /\ pc' = Goto(s, w, "completing")
      /\ produced' = [produced EXCEPT ![s] = @ \cup {task[s][w]}]
      /\ UNCHANGED <<vars, main, task, broken, outcome>>
  BY DEF RunTask
<1>2. PICK t \in Task : t = task[s][w]
  BY <1>1, HeldTask
<1>3. OthersUntouched(s) /\ job' = job /\ state' = state
  BY <1>1, RunTaskOK DEF vars, records
<1>4. StatusOf(s, t) = "executing" /\ t \notin produced[s] /\ s \in Live
  BY <1>1, <1>2, HeldTask, OutsideRun
<1>5. /\ \A v \in Worker : pc'[s][v] = IF v = w THEN "completing" ELSE pc[s][v]
      /\ produced'[s] = produced[s] \cup {t}
  <2>1. "completing" \in Place
    BY DEF Place, Busy
  <2>2. QED
    BY <1>1, <1>2, <2>1, GotoValue DEF RunsInv, LocalsOK
<1>6. /\ StatusOf(s, t)' = "done"
      /\ \A u \in Task \ {t} : StatusOf(s, u)' = StatusOf(s, u)
  BY <1>1, <1>2, <1>3, <1>5 DEF StatusOf
<1>7. statusMap' = [statusMap EXCEPT ![s][t] = "done"] /\ statusMap[s][t] = "executing"
  <2>1. statusMap' = [statusMap EXCEPT ![s][t] = "done"]
    BY <1>3, <1>6, StatusStep
  <2>2. QED
    BY <1>4, <2>1 DEF statusMap
<1>8. graphMap' = graphMap /\ graphMap[s] # NoJob
  BY <1>3, <1>4, GraphSame, UnderLive
<1>9. QED
  BY <1>1, <1>7, <1>8 DEF Promise!Finish, Promise!Under, graphMap, statusMap

\* A worker moves on without its caller learning anything about a task.
LEMMA SilentStep ==
  ASSUME IInv, RunsInv, NEW s \in Session, NEW w \in Worker,
         NEW to \in Place \ {"failing"}, pc[s][w] # "failing",
         pc' = Goto(s, w, to), UNCHANGED <<job, state, task, produced>>,
         OthersUntouched(s)
  PROVE  graphMap' = graphMap /\ statusMap' = statusMap
<1>1. \A v \in Worker : pc'[s][v] = "failing" <=> pc[s][v] = "failing"
  BY GotoValue DEF RunsInv
<1>2. \A u \in Task : StatusOf(s, u)' = StatusOf(s, u)
  BY <1>1 DEF StatusOf
<1>3. QED
  BY <1>2, StatusSame, GraphSame

LEMMA StartWorkerStep ==
  ASSUME IInv, RunsInv, NEW s \in Session, NEW w \in Worker, StartWorker(s, w)
  PROVE  Promise!Trouble(s) \/ UNCHANGED <<graphMap, statusMap, broken, outcome>>
<1>1. /\ pc[s][w] = "start" /\ UNCHANGED <<vars, main, task, produced, outcome>>
      /\ \/ pc' = Goto(s, w, "acquire") /\ UNCHANGED broken
         \/ pc' = Goto(s, w, "exited") /\ broken' = [broken EXCEPT ![s] = TRUE]
  BY DEF StartWorker
<1>2. OthersUntouched(s) /\ UNCHANGED <<job, state>> /\ s \in Live
  BY <1>1, StartWorkerOK, OutsideRun DEF vars, records
<1>3. {"acquire", "exited"} \subseteq Place \ {"failing"}
  BY DEF Place
<1>4. graphMap' = graphMap /\ statusMap' = statusMap
  BY <1>1, <1>2, <1>3, SilentStep
<1>5. graphMap[s] # NoJob
  BY <1>2, UnderLive
<1>6. QED
  BY <1>1, <1>4, <1>5 DEF Promise!Trouble, Promise!Under, graphMap, statusMap

LEMMA LookStep ==
  ASSUME IInv, RunsInv, NEW s \in Session, NEW w \in Worker,
         Finished(s, w) \/ Park(s, w)
  PROVE  UNCHANGED <<graphMap, statusMap, broken, outcome>>
<1>1. /\ pc[s][w] = "acquire" /\ UNCHANGED <<vars, main, task, broken, produced, outcome>>
      /\ pc' = Goto(s, w, "exited") \/ pc' = Goto(s, w, "parked")
  BY DEF Finished, Park
<1>2. OthersUntouched(s) /\ UNCHANGED <<job, state>>
  BY <1>1, LookOK DEF vars, records
<1>3. {"parked", "exited"} \subseteq Place \ {"failing"}
  BY DEF Place
<1>4. QED
  BY <1>1, <1>2, <1>3, SilentStep

LEMMA PrepareStep ==
  ASSUME IInv, RunsInv, NEW s \in Session, NEW w \in Worker, Prepare(s, w)
  PROVE  \/ \E t \in Task : Promise!FailTask(s, t)
         \/ UNCHANGED <<graphMap, statusMap, broken, outcome>>
<1>1. pc[s][w] = "prepare" /\ UNCHANGED <<vars, main, task, produced, outcome>>
  BY DEF Prepare
<1>2. CASE pc' = Goto(s, w, "run") /\ UNCHANGED broken
  <2>1. OthersUntouched(s) /\ UNCHANGED <<job, state>>
    BY <1>1, PrepareOK DEF vars, records
  <2>2. "run" \in Place \ {"failing"}
    BY DEF Place, Busy
  <2>3. QED
    BY <1>1, <1>2, <2>1, <2>2, SilentStep
<1>3. CASE pc' = Goto(s, w, "failing") /\ broken' = [broken EXCEPT ![s] = TRUE]
  BY <1>1, <1>3, GiveUpStep
<1>4. QED
  BY <1>2, <1>3 DEF Prepare

\* What the scheduler is told the caller knows already.
LEMMA ReportStep ==
  ASSUME IInv, RunsInv, NEW s \in Session, NEW w \in Worker,
         ReportSuccess(s, w) \/ ReportFailure(s, w)
  PROVE  UNCHANGED <<graphMap, statusMap, broken, outcome>>
<1>1. PICK t : t = task[s][w]
  OBVIOUS
<1>2. /\ pc[s][w] \in {"completing", "failing"}
      /\ pc' = Woken(Goto(s, w, "acquire"))
      /\ task' = [task EXCEPT ![s][w] = NoTask]
      /\ UNCHANGED <<broken, produced, outcome, job>>
  BY DEF ReportSuccess, ReportFailure, Complete, Fail
<1>3. t \in Task /\ state[<<s, t>>] = "Running" /\ SessionOK(s)
  BY <1>1, <1>2, BusyTask DEF Busy, RunsInv
<1>4. OthersUntouched(s)
  BY ReportSuccessOK, ReportFailureOK
<1>5. \A u \in Task \ {t} :
         state'[<<s, u>>] \in {"Running", "Failed"}
           \/ state[<<s, u>>] \in {"Running", "Failed"} =>
         state'[<<s, u>>] = state[<<s, u>>]
  BY <1>1, <1>3 DEF ReportSuccess, Complete, ReportFailure, Fail, Pending, KeysOf, Key
<1>6. \A v \in Worker \ {w} :
        /\ pc'[s][v] = "failing" <=> pc[s][v] = "failing"
        /\ task'[s][v] = task[s][v]
  <2>1. "acquire" \in Place
    BY DEF Place
  <2>2. Goto(s, w, "acquire") \in [Session -> [Worker -> Place]]
    BY <2>1, GotoType DEF RunsInv
  <2>3. \A v \in Worker \ {w} : pc'[s][v] = "failing" <=> pc[s][v] = "failing"
    BY <1>2, <2>1, <2>2, WokenType, GotoValue DEF RunsInv
  <2>4. QED
    BY <1>2, <2>3 DEF RunsInv, LocalsOK
<1>7. pc'[s][w] # "failing"
  <2>1. "acquire" \in Place
    BY DEF Place
  <2>2. Goto(s, w, "acquire") \in [Session -> [Worker -> Place]]
        /\ Goto(s, w, "acquire")[s][w] = "acquire"
    BY <2>1, GotoType DEF RunsInv
  <2>3. QED
    BY <1>2, <2>2, WokenType
<1>8. ASSUME NEW u \in Task \ {t} PROVE StatusOf(s, u)' = StatusOf(s, u)
  BY <1>1, <1>2, <1>5, <1>6, <1>7 DEF StatusOf
<1>9. StatusOf(s, t)' = StatusOf(s, t)
  <2>1. CASE ReportSuccess(s, w)
    <3>1. t \in produced[s]
      BY <1>1, <1>3, <2>1 DEF ReportSuccess, SessionOK, Recorded
    <3>2. QED
      BY <1>2, <3>1 DEF StatusOf
  <2>2. CASE ReportFailure(s, w)
    <3>1. pc[s][w] = "failing" /\ Fail(s, t)
      BY <1>1, <2>2 DEF ReportFailure
    <3>2. state'[<<s, t>>] = "Failed"
      BY <1>3, <3>1 DEF Fail, Key
    <3>3. QED
      BY <1>1, <1>2, <3>1, <3>2 DEF StatusOf
  <2>3. QED
    BY <2>1, <2>2
<1>10. QED
  BY <1>2, <1>4, <1>8, <1>9, StatusSame, GraphSame

\* Every call has a worker.
LEMMA FirstWorker ==
  ASSUME NEW j \in Job
  PROVE  1 \in WorkersOf(j)
<1> DEFINE asked == AtLeastOne(j.maxConcurrentTasks)
           threads == IF Hardware = 0 THEN 4 ELSE Hardware
           size == Cardinality(j.tasks)
<1>1. IsFiniteSet(j.tasks) /\ j.maxConcurrentTasks \in Nat
  BY JobAssumption, TaskAssumption, FS_Subset DEF JobShape
<1>2. size \in Nat /\ size > 1
  BY <1>1, FS_CardinalityType, RunAssumption
<1>3. asked \in Nat \ {0} /\ threads \in Nat \ {0}
  BY <1>1, WorkerAssumption DEF AtLeastOne
<1>4. WorkerCount(j) = Least({size, asked, threads})
  BY DEF WorkerCount
<1> HIDE DEF size, asked, threads
<1>5. \E n \in {size, asked, threads} : \A m \in {size, asked, threads} : n <= m
  <2>1. CASE size <= asked /\ size <= threads
    BY <2>1, <1>2
  <2>2. CASE asked <= size /\ asked <= threads
    BY <2>2, <1>3
  <2>3. CASE threads <= size /\ threads <= asked
    BY <2>3, <1>3
  <2>4. QED
    BY <1>2, <1>3, <2>1, <2>2, <2>3
<1>6. WorkerCount(j) \in {size, asked, threads}
  BY <1>4, <1>5 DEF Least
<1>7. WorkerCount(j) \in Nat \ {0}
  BY <1>2, <1>3, <1>6
<1>8. 1 \in 1 .. WorkerCount(j)
  BY <1>7
<1>9. QED
  BY <1>7, <1>8, WorkerAssumption DEF WorkersOf

\* run() returns with nothing in execution, and reports a success only when
\* every task is done: a worker has ended, and it saw to that.
LEMMA EndStep ==
  ASSUME IInv, RunsInv, NEW s \in Session, EndRun(s)
  PROVE  Promise!Return(s)
<1>1. /\ s \in Live
      /\ \A w \in Worker : pc[s][w] = "exited"
      /\ job' = [job EXCEPT ![s] = NoJob]
      /\ outcome' = [outcome EXCEPT ![s] =
                       IF broken[s] THEN "error"
                       ELSE IF produced[s] # job[s].tasks THEN "incomplete" ELSE "ok"]
      /\ broken' = [broken EXCEPT ![s] = FALSE]
      /\ produced' = [produced EXCEPT ![s] = {}]
      /\ task' = task
      /\ state' = [k \in Key |-> IF k[1] = s THEN "Absent" ELSE state[k]]
  BY DEF EndRun, Release
<1>2. /\ job \in [Session -> Job \cup {NoJob}] /\ job[s] \in Job
      /\ produced \in [Session -> SUBSET Task]
  BY <1>1 DEF IInv, TypeOK, Live, RunsInv, LocalsOK
<1>3. RunsInv' /\ OthersUntouched(s) /\ SessionOK(s)
  BY EndRunOK DEF RunsInv
<1>4. graphMap[s] = GraphOf(job[s]) /\ graphMap[s] # NoJob
  BY <1>1, UnderLive
<1>5. graphMap[s].tasks = job[s].tasks /\ job[s].tasks \subseteq Task
  BY <1>2, <1>4, JobAssumption DEF GraphOf, JobShape
<1>6. \A t \in Task : statusMap[s][t] # "executing"
  <2>1. \A t \in Task : state[<<s, t>>] # "Running"
    BY <1>1, <1>3 DEF SessionOK, Owned, InState, Busy
  <2>2. QED
    BY <2>1 DEF statusMap, StatusOf
<1>7. ASSUME ~broken[s] PROVE produced[s] = job[s].tasks
  <2>1. 1 \in WorkersOf(job[s]) /\ 1 \in Worker
    BY <1>2, FirstWorker DEF WorkersOf
  <2>2. \A t \in job[s].tasks : state[<<s, t>>] = "Succeeded"
    BY <1>1, <1>3, <1>7, <2>1 DEF SessionOK, Exhausted
  <2>3. \A t \in produced[s] : state[<<s, t>>] = "Succeeded" /\ t \in Task
    BY <1>1, <1>2, <1>3 DEF SessionOK, Recorded
  <2>4. \A t \in Task : state[<<s, t>>] # "Absent" => t \in job[s].tasks
    BY DEF IInv, Records
  <2>5. \A t \in Task : state[<<s, t>>] = "Succeeded" <=> t \in job[s].tasks
    BY <2>2, <2>4
  <2>6. QED
    BY <1>2, <1>3, <1>5, <2>2, <2>3, <2>5 DEF SessionOK, Recorded
<1>8. ~broken[s] => \A t \in graphMap[s].tasks : statusMap[s][t] = "done"
  BY <1>5, <1>7 DEF statusMap, StatusOf
<1>9. outcome' = [outcome EXCEPT ![s] = IF broken[s] THEN "error" ELSE "ok"]
  BY <1>1, <1>7
<1>10. graphMap' = [graphMap EXCEPT ![s] = NoJob]
  BY <1>1, <1>2 DEF graphMap, Live
<1>11. statusMap' = [statusMap EXCEPT ![s] = [t \in Task |-> "waiting"]]
  <2>1. \A t \in Task : state'[<<s, t>>] = "Absent"
    BY <1>1 DEF Key
  <2>2. \A w \in Worker : pc'[s][w] # "failing"
    <3>1. \A w \in Worker : pc'[s][w] \notin Busy
      BY <1>3, <2>1 DEF RunsInv, SessionOK, Owned, InState
    <3>2. QED
      BY <3>1 DEF Busy
  <2>3. produced'[s] = {}
    BY <1>1, <1>2
  <2>4. \A t \in Task : StatusOf(s, t)' = "waiting"
    BY <2>1, <2>2, <2>3 DEF StatusOf
  <2>5. \A x \in Session \ {s}, t \in Task : StatusOf(x, t)' = StatusOf(x, t)
    BY <1>3, UntouchedStatus DEF OthersUntouched
  <2>6. QED
    BY <2>4, <2>5 DEF statusMap
<1>12. \A t \in graphMap[s].tasks : statusMap[s][t] # "executing"
  BY <1>5, <1>6
<1>13. QED
  BY <1>1, <1>4, <1>8, <1>9, <1>10, <1>11, <1>12
  DEF Promise!Return, Promise!Under, graphMap, statusMap

promiseVars == <<graphMap, statusMap, broken, outcome>>

LEMMA PromiseInit == RunsInit => Promise!RunInit
<1> SUFFICES ASSUME RunsInit PROVE Promise!RunInit
  OBVIOUS
<1>1. \A s \in Session : s \notin Live
  BY DEF RunsInit, Init, Live
<1>2. \A s \in Session, t \in Task : StatusOf(s, t) = "waiting"
  BY DEF RunsInit, Init, StatusOf, Key
<1>3. QED
  BY <1>1, <1>2 DEF RunsInit, Promise!RunInit

LEMMA PromiseStep ==
  ASSUME IInv, Dependencies, RunsInv, [RunsNext]_allVars
  PROVE  Promise!RunNext \/ UNCHANGED promiseVars
<1>1. ASSUME NEW s \in Session, NEW w \in Worker, WorkerStep(s, w)
      PROVE  Promise!RunNext \/ UNCHANGED promiseVars
  <2>1. CASE StartWorker(s, w)
    BY <2>1, StartWorkerStep DEF Promise!RunNext, promiseVars
  <2>2. CASE AcquireTask(s, w)
    BY <2>2, AcquireStep DEF Promise!RunNext
  <2>3. CASE Finished(s, w) \/ Park(s, w)
    BY <2>3, LookStep DEF promiseVars
  <2>4. CASE Prepare(s, w)
    BY <2>4, PrepareStep DEF Promise!RunNext, promiseVars
  <2>5. CASE RunTask(s, w)
    BY <2>5, RunTaskStep DEF Promise!RunNext
  <2>6. CASE RunError(s, w)
    BY <2>6, GiveUpStep DEF Promise!RunNext, RunError
  <2>7. CASE ReportSuccess(s, w) \/ ReportFailure(s, w)
    BY <2>7, ReportStep DEF promiseVars
  <2>8. QED
    BY <1>1, <2>1, <2>2, <2>3, <2>4, <2>5, <2>6, <2>7 DEF WorkerStep
<1>2. ASSUME NEW s \in Session, NEW j \in Job, BeginRun(s, j) PROVE Promise!RunNext
  BY <1>2, BeginStep DEF Promise!RunNext
<1>3. ASSUME NEW s \in Session, EndRun(s) PROVE Promise!RunNext
  BY <1>3, EndStep DEF Promise!RunNext
<1>4. ASSUME AdmissionStep PROVE UNCHANGED promiseVars
  <2>1. \A x \in Session : Untouched(x)
    BY <1>4, AdmissionOK
  <2>2. \A x \in Session : /\ graphMap'[x] = graphMap[x]
                           /\ \A t \in Task : StatusOf(x, t)' = StatusOf(x, t)
    BY <2>1, UntouchedStatus
  <2>3. graphMap' = graphMap /\ statusMap' = statusMap
    BY <2>2 DEF graphMap, statusMap
  <2>4. QED
    BY <1>4, <2>3 DEF AdmissionStep, locals, promiseVars
<1>5. ASSUME UNCHANGED allVars PROVE UNCHANGED promiseVars
  BY <1>5 DEF allVars, vars, records, locals, promiseVars, graphMap, statusMap,
     StatusOf, Live
<1>6. QED
  BY <1>1, <1>2, <1>3, <1>4, <1>5 DEF RunsNext

\* A run of a graph does what TaskGraphRun promises: a task is executed after
\* all it depends on and once, run() returns with nothing in execution, and
\* reports a success exactly if everything has been done and nothing failed.
THEOREM PromiseKept == RunsSpec => KeepsPromise
<1>1. RunsInit => Promise!RunInit
  BY PromiseInit
<1>2. SchedulerInv /\ RunsInv /\ [RunsNext]_allVars => [Promise!RunNext]_(Promise!runVars)
  BY PromiseStep DEF SchedulerInv, promiseVars, graphMap, statusMap, Promise!runVars
<1>3. QED
  BY <1>1, <1>2, RunsInductive, PTL DEF RunsSpec, KeepsPromise, Promise!RunSpec
=============================================================================
