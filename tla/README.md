# A TLA+ verification of Ascend-MLIR

Ascend-MLIR compiles AFIR modules to AscendC kernels and runs graphs of them, in
the CANN simulator or on NPUs. This directory specifies and verifies the two parts
of it whose correctness is hardest to test: the *runtime* under `lib/Runtime`, where
several callers submit task graphs to one process-wide scheduler, worker threads
run their tasks on two backends, and processes share directories; and the *kernel
compiler*, the passes from a bufferized kernel to the code of an AI core, where
buffers, queues and blocks have to agree. It is written in TLA+: the models are
checked with TLC on small instances, and what matters most of the runtime - the
ledger and the scheduler with their invariants, the order of a graph, both paths of a
run up to what a run promises, the backends and the shared directories - is proved
with TLAPS for every instance.

How to run it, in this directory:

    tlc -workers 2 -config Reconfigure.cfg MCGlobalScheduler    # a run
    tlapm GlobalScheduler_proofs.tla                            # a proof

`PROJECT.json` lists the components, the runs with their properties, a mutant for
every property (a definition with a plausible defect, with which the property
must fail), the source lines of every definition, the hazards of the code and the
property for each, the findings and the theorems.

Contents: 1 the system, 2 the plan, 3 the models, 4 the runs, 5 fairness,
6 the proofs, 7 findings, 8 what is not modelled.

## 1. The system

### Components

| component | state | operations | interacts with |
|---|---|---|---|
| `ResourceScheduler` (`Execution/ResourceScheduler.cpp`) | configured and reserved workspace bytes, simulator lanes, device slots, stream units; the exclusive-stream flag; reservations by token; last refusal | `configure*`, `tryReserve`, `release` | owned by `GlobalScheduler`, which calls it under its mutex |
| `GlobalScheduler` (`Execution/GlobalScheduler.cpp`) | sessions with counters, one record per task (state, remaining dependencies, reservation), the rotation with its cursor and the session admitted last | `submit`, `waitAndAcquireTask`, `completeTask`, `failTask`, `releaseSession`, `configureResourceScheduler`, and the admission loop most of them end with | one per process, shared by all `ExecutionSession`s through a mutex and one condition variable |
| `TaskGraph` (`Execution/TaskGraph.cpp`) | the tasks in the order they were added | `addTask`, `orderedTasks` | read by `ExecutionSession` before anything runs |
| `ExecutionSession` (`Execution/ExecutionSession.cpp`) | per call of `run()`: produced outputs, completed tasks, a `failed` flag, worker threads | `run` (a concurrent and a serial path), `submit`, `plan` | calls the scheduler, calls a backend for each task |
| `SimBackend`, `NpuBackend` (`Execution/*Backend.cpp`) | the simulator's dispatch queue, files in the working directory, the visible devices | validate and run one task | called by a worker; call an executor |
| `NativeExecutionRunner` (`Execution/NativeExecutionRunner.cpp`) | device memory, streams, registered binaries, the device-initialised flag | run one artifact | called by the backends |
| `RuntimeFrontendCore`, the C API, `runtime-session` | the result of a run and how it is reported | prepare and run a request, classify the outcome | call `ExecutionSession` |
| Profile (`Profile/ProfileUtils.cpp`) | retained profile directories on disk | retain, prune | called after a simulator run |
| Conversions (`Conversion/*`) | a kernel, rewritten pass by pass; the queue of each on-chip buffer and the tensor that stays dequeued | fold concatenations, place buffers, lower to AscendC, split over blocks, prepare for emission | each reads the attributes and shapes the one before leaves |
| CannKernel target (`Target/CannKernel/CannTranslation.cpp`) | - | print a kernel of one unit; recognise a mix kernel and print its template | after the conversions |
| Mix tiling (`Runtime/Mix/*`, `tools/mix-tiling-helper`) | a work directory | extract the interface of a mix kernel, ask for its tiling, emit its launcher | reads the text the translation started from |
| Artifact, Support | files | load, compile, read arrays | before a run |
| AFIR dialect, Python, tools | - | rewrites, converters, drivers | build-time |

### A run

A caller of `run()` orders its graph, submits it as a session and starts
`min(tasks, backend limit, hardware threads)` workers. Submission ends with the
admission loop, which reserves resources for ready tasks: session by session in
rotation, the highest priority class first, within each session's quota. A worker
waits until a task of its session is reserved, takes it, checks that the backend
supports it and that its inputs are there, runs it and reports success or
failure. Success returns the task's reservation, makes dependents ready and runs
the admission loop; failure cancels what the session has not started. When the
session is drained the workers end, the caller joins them, releases the session
and returns.

### What is hard, and what correctness means

* **Accounting.** A reservation leaves a task record in four ways (completion,
  failure, cancellation, release of the session), capacities may be lowered below
  what is reserved, and the counters are unsigned. *The reserved amounts are
  exactly what the outstanding reservations hold, nothing is granted beyond the
  capacity of the moment, and the quota counts exactly what is admitted.*
* **Dependencies.** Lists may repeat a task, sessions may fail while tasks run,
  sessions may be released while tasks run. *A task is let go only after all it
  depends on, and nothing that was cancelled comes back.*
* **Admission order.** One rotation and one cursor serve sessions of all classes
  while sessions come and go. *What can be admitted is admitted, higher classes
  first, and nobody is passed over for ever.*
* **Threads.** All workers of all sessions wait on one condition variable without
  a predicate; local flags are set before the scheduler hears of a failure;
  outputs are recorded before it hears of a completion. *No wakeup is lost, each
  task has one worker, every `run()` returns, and what it returns is true.*
* **Two implementations of one order.** The serial path has a queue and counters
  of its own, `plan()` reports the order of `TaskGraph`. *They agree.*
* **Partial failure.** A worker may fail to create its backend after its session
  was submitted; a task that cannot be prepared has already been acquired.
  *Whatever a run leaves undone, it leaves no reservation behind.*
* **Device resources.** A launch takes libraries, the device, a stream, buffers; each
  step may fail. The device flag is one per process, ACL is one per process, the
  simulator has one thread for all tasks. *Whatever fails, nothing stays held, nobody
  loses what he uses, and each call gets its own answer.*
* **Shared directories.** Tasks of a session share file names, processes prune
  directories that others use, entry by entry. *What is reported is what is on disk, as
  long as the directories are not crowded.*
* **Queues and blocks.** A lowered kernel moves data through queues of depth one:
  each tensor is allocated, enqueued, dequeued and freed in turn, in loops whose
  bodies were rewritten one operation at a time. Blocks of a launch and the two kinds
  of core run at once. *The compiled kernel computes what the kernel computed, no
  core waits for ever, no tensor is used outside its turn, no block touches what
  another writes.*

`PROJECT.json` lists each of these as a hazard, at the line where it bites.

## 2. The plan

Modules in the order of importance; all of these exist.

1. `ResourceAdmission` - the admission arithmetic, as operators that the two
   schedulers share and that the proofs are about.
2. `ReservationLedger` - the abstract specification of a ledger of reservations;
   `ResourceScheduler` - the ledger, under arbitrary clients; implements it.
3. `GlobalScheduler` - every call, with the admission loop unrolled; implements
   `ReservationLedger` too, as the ledger's one client.
4. `SchedulerFairness` - the same under clients that keep to the protocol, with a
   history variable.
5. `TaskGraphRun` - the abstract specification of a call of `run()`.
6. `ExecutionSession` - callers and workers over `GlobalScheduler`; implements 5.
7. `TaskGraph` - the order of a graph against a definition by sets.
8. `SerialRun` - the serial path over 7; implements 5.
9. `NativeRunner` - what a launch acquires and gives back, a failure at each step.
10. `Backends` - the calls of both backends over 9, with the dispatch queue.
11. `FrontEnd` - processes that share the working and the profile directories.
12. `KernelIR`, `ConcatFold`, `BufferPlacement`, `AscendCLowering`, `KernelEmission`,
    `MixTranslation`, `MixTiling` - the passes, as operators on kernels.
13. `KernelRun` - executes a kernel before and after the passes; composes 12.

Theorems, in the order in which they build on one another: the ledger, up to the
refinement of `ReservationLedger`; the scheduler's accounts, dependencies, admission
order and round robin, and the same refinement; the runs over the scheduler, up to the
refinement of `TaskGraphRun`, and when they may stop; the order of `TaskGraph` for
graphs of every size, and with it `SerialRun` up to the same refinement; the runners
and the calls of the backends; the processes over the shared directories. All done,
section 6. What is left to the model checker is liveness and the kernel compiler.

Modules still to come: gathers and transposed operands in 12; the default policy and
the counters of the scheduler; the numbers of the native planner
(`Mix/NativeMatmulPlanner.cpp`) against its limits.

## 3. The models

Names follow the code. `map` in `PROJECT.json` gives the lines of every definition.

### ResourceAdmission

The four counted resources are one function from `Resource` to the naturals, so
capacities, amounts in use and demands have one type. `Demand` is what a
requirement takes (a simulator task takes a lane if its launches are serialised,
an exclusive NPU task every slot of the moment, a stream request of zero units
takes one), and `WorkspaceBlocked` .. `StreamBlocked` are the checks of `tryReserve`,
in its order. What a family of reservations holds is a cardinality (`UnitsHeld`, a
pair for each unit) and not a recursive sum, so that it can be proved about.

Numbers are unbounded. The comparisons of the code are written so as not to wrap
for amounts the scheduler can ask for; where one could wrap, `PROJECT.json` says so.

### ReservationLedger

What a client of the ledger relies on, without a counter: what is in use is what is
held. `Reserve` adds a reservation exactly if it fits beside what is held, `Deny` names
the first resource that is missing, `Return` takes some reservations out and leaves the
others as they were made, `Reconfigure` touches none of them.

### ResourceScheduler

`Configure`, `TryReserve` (`Grant` or `Refuse`), `Release`. Clients keep a copy of
every reservation and may present any copy at any time: stale ones, ones with
another holder, ones they made (whose private token is zero). Only a copy that
agrees with the ledger releases anything. `KeepsLedger` maps the active reservations to
`ReservationLedger`, by their tokens, and forgets the counters, the flag and the copies.

### GlobalScheduler

One action per call: `Submit`, `Acquire`, `Complete`, `Fail`, `Release`,
`Configure`. Task records are functions on `Key` (session, task) with the state
`"Absent"` for a record that does not exist. Every call runs under `mutex_`; the
admission loop is unrolled into `Admit`, `NextPass`, `EndAdmission`, and while it is
under way (`pass.phase = "scan"`) no other call is enabled. `Turn` says whom a pass
serves: the first pass settles on the highest class of which a session can be
admitted, later turns stay in it, sessions in the order of the rotation from the
cursor. Tasks of a session are taken in key order, the first that fits.

The model calls the ledger through `Fits` and `Demand` and keeps the reservation in
`grant`, the reservation field of the record. `KeepsLedger` maps `grant` to the
reservations of `ReservationLedger`, by the task that has one: an admission is a
`Reserve`, and a call that ends tasks is a `Return` of theirs. So the scheduler uses
the ledger as `ResourceScheduler` implements it, with one reservation for a task and
none presented twice. (A task that does not fit is passed over without a step, so no
answer is kept here.)
Session ids may be used again after their release: nothing of a released session
is left, so a reused id is a new session, and sessions can arrive for ever.

### SchedulerFairness

The scheduler with clients like `run()`: a session is released only while none of its
tasks runs - when it is drained, or when no worker came up - tasks that were acquired
end, capacities stay.
`overtaken[s]` collects the sessions of s's class that were admitted since s has
been admissible at every admission and no other class was served. The last condition
is needed: an admission in another class moves the one cursor, after which a session
that was just served may be the first again (TLC finds this with two classes when
`overtaken` is kept across it).

### TaskGraphRun

What a caller relies on: a task starts at most once and only after what it depends
on is done; when `run()` returns nothing is in execution; it returns success exactly
if every task is done and nothing went wrong; tasks are given up only after a fault.

### ExecutionSession

`BeginRun` and `EndRun` are the caller; `StartWorker`, `AcquireTask`, `Finished`,
`Park`, `Prepare`, `RunTask`, `RunError`, `ReportSuccess`, `ReportFailure` are a
worker. Calls into the scheduler are the actions of `GlobalScheduler` conjoined with
the worker's own step; notify_all is `Woken`, applied exactly where the code
notifies. A spurious wakeup is a worker that looks again and parks again, so it is
left out. Jobs also say which upstream tasks each input is bound to - the code takes
bindings and dependencies from the manifest independently - which tasks the backend
supports, and whether workers create backends of their own, which may fail.
`StatusOf` and `GraphOf` are the refinement mapping to `TaskGraphRun`. The outcome
`"incomplete"`, the error of the final count, is not in the abstract specification:
that it is never returned is part of `KeepsPromise`. `HasOrder` says of every job what
the call of `orderedTasks` before the submission made sure of: its tasks do not wait
for one another in a circle.

### TaskGraph and SerialRun

`TaskGraph` is `addTask` and `orderedTasks` (Kahn's algorithm with a FIFO queue), the
loop as a recursive function of the number of iterations (`Iterations`). `SerialRun` builds a graph
with `addTask`, plans it and runs it as the serial path does, counters and queue
included; `KeepsPromise` is again `TaskGraphRun`, and `FollowsPlan` says the order is
that of the plan.

### NativeRunner and Backends

`NativeRunner` is one runner's way through a launch, one action for each call into a
library, each of which may fail: `Create`, attaching to the device with the
exchange of `deviceInitialized`, registering a binary, and the stages of a launch of
a device binary or, through ACL, of a shared library. `Withdraw`, `Finish` and
`Destroy` are the destructors and cleanups, which run on every way out. The device
counts its users and ACL has at most one; this is how the code uses the two
libraries and is external. Destroying a runner in mode simulation gives nothing back.

`Backends` calls it: `Sim` is the runner that the simulator's one thread keeps, an
NPU task has a runner of its own. The checks of the bindings are operators in the
order of the code (`SimAccepts`, `NpuAccepts`), so that the two can be compared; files
are modelled by whose they are. `Worker` is `SimulatorDispatchQueue`: it takes a
launch, initialises its runner if it has none, and fulfils the future.

### FrontEnd

A process is `runtime-session` or a caller of the C API. Each directory operation is
one step (list, remove an entry, make, write, copy), so pruning interleaves with
everything; a process may be killed between any two, and a step of several may fail.
`verdict` is the exit code with the stage and the validation result.

Directories are removed as `std::filesystem::remove_all` does it, by a process that
prunes (`Prune`) and by one that removes its own working directory on its way out
(`Cleanup`). Entries go one by one (`RemoveEntry`): of a working directory the outputs
and the trace, of the profiles the copies, then `tasks/`, and the summary. Then the
directory goes, if it is empty, or it stays, whole or with whatever is left or has been
written meanwhile; the callers ignore the error and go on (`RemoveDirectory`). A root is
ordered by modification times, so a directory that has lost an entry of its own becomes
the newest. `damaged` remembers which have lost something, `listed` what a process found
in the root of the profiles, without what it tried in vain to remove. Listing a root with
the times of what is in it is one step; that it fails is not noticed, and nothing is
pruned then.

### The kernel compiler

`KernelIR` represents a bufferized kernel as a sequence of operations, each with the
loop it is in. *Sizes are axes*: a buffer has two elements along each of its axes, a
loop over an axis takes two steps, and a subview at a loop's counter drops the axis.
This tells apart the right element from a wrong, missing or doubled one, and does not
tell tile sizes apart. Element types are left out.

`ConcatFold`, `BufferPlacement`, `AscendCLowering` and `KernelEmission` are the passes
`ascendc-fold-concat-alloc`, `ascendc-buffer-placement`, `linalg-to-ascendc` with
`ascendc-parallelize`, `canonicalize-cann-signature` and `ascendc-prepare-for-emit`.
They rewrite the sequence in the order in which the C++ visits operations, since what
a conversion inserts is seen by the next one. The lowering carries the map of live
tensors as the code's context does.

`MixTranslation` is the way of a kernel that uses both units: it is recognised by its
shape and printed from a template, one part for the cube core and one for its two
vector cores, joined by a flag. The form in between, lowered and partitioned, is not
executed since nothing prints it. `MixTiling` is how such a kernel is launched: from
the note about its matmul and the arguments its text mentions follow the request
for a tiling (in this process, else in a helper that sees less) and the buffers that
are passed by position. The tiling library is external: `found` says with which of
the two plans it succeeds.

`KernelRun` executes kernels symbolically. An element is a bag of terms, the sum it
stands for. A kernel is executed as it comes (`"source"`), after `Lower`
(`"lowered"`), after `Parallelize` by the blocks at once (`"parallel"`), after
`Prepare` with views turned into flat pointers (`"prepared"`), or, as a mix kernel,
by the cube core and the vector cores (`"mix"`). `Loop`, `Define`, `Signal`,
`QueueStep` and `Compute` are the steps of a core. What linalg and AscendC operations
do is external.

## 4. The runs

| run | configuration | what it shows |
|---|---|---|
| `ledger` | `ResourceScheduler.cfg` | two holders, three reservations, capacities raised and lowered: `ExclusiveStream`, `NeverOvercommit`, and the refinement `KeepsLedger` of `ReservationLedger` |
| `reconfigure` | `Reconfigure.cfg` | two sessions, five jobs, two sets of capacities: the accounts, tickets, quotas, counters, dependencies, finality of failure and the lifecycle, whatever is called when |
| `three_sessions` | `ThreeSessions.cfg` | three sessions of all classes: `Rotation`, `WorkConserving`, `ExclusiveDevice`, `PriorityAmongAdmissible` |
| `fairness` | `Fairness.cfg` | two classes, arrivals for ever: nobody is admitted twice over a waiting session of his class, unless the other class is served between |
| `serial_run` | `SerialRun.cfg` | every graph of up to four tasks: `RefusedOnlyIfImpossible`, `BreadthFirst`; the serial path for up to three: `FollowsPlan`, `KeepsPromise` |
| `runs` | `Runs.cfg` | two runs, two workers each, room for one task or for two: `NoLostWakeup`, `DeclaredInputsResolve`, `EachTaskOneWorker`, `NothingHeldAfterwards`, the refinement `KeepsPromise`, and every run returns |
| `backends` | `Backends.cfg` | simulator and NPU tasks side by side, any call into a library failing: device, ACL and buffers are given back, futures match, the backends agree on what they accept, the files are right, every call returns |
| `front_end` | `FrontEnd.cfg` | three processes over two directories, killed or failing anywhere, removals cut short anywhere: `RecentSurvive`, `KeptBounded`, `OutcomeIsWhole` |
| `compile` | `KernelRun.cfg` | twelve kernels through all passes, blocks and cores in any order: `MeaningKept`, `TensorsHeld`, `BlocksIndependent`, `NeverStuck` |
| `registered_names`, `profile_per_task`, `k_slice` | | the disagreements of section 7, each as a counterexample |

### Bounds and why they suffice

* *Sessions.* Two for what concerns a session and its neighbours; three for the
  rotation, since with two a removal leaves a rotation of one, which cannot go wrong.
  Sessions are symmetric in `three_sessions`.
* *Tasks.* Two per session in the scheduler's runs: a chain that lists its
  dependency twice, two roots, a large task before a small one. Three in the runs of
  `ExecutionSession`: a fork, one of whose branches lists its dependency twice.
* *Jobs.* Chosen to meet in every resource: simulator jobs that share the lane
  and the workspace, an NPU job that shares slots, one that takes the whole device;
  one with a quota of one; all three priority classes.
* *Capacities.* `Cap(3,2,2,3)` lets several tasks in and not all; `Cap(1,1,3,0)` is
  less than what may be reserved in workspace and lanes, more in slots, and its zero
  keeps the stream capacity. Both are reached in either order, with reservations out.
* *Tokens.* `MaxToken = 3` in the ledger: two reservations out and one released
  before, so that a stale copy exists next to active ones.
* *Workers.* Two for each run: one that takes and one that waits, or two that
  overlap. `Hardware = 4` never limits them; the job's own limit does. In `runs` each
  pair of jobs is submitted in one order (`PairsOfJobs`; the callers are alike), and
  with room for two tasks only the pair whose tasks overlap most.
* *Graphs.* Four tasks with up to two dependencies each, listed in any order and
  possibly equal, are the smallest with a diamond, a cycle of three beside a root and
  a forward reference at once. `MaxRun = 3` bounds those that are run.
* *Backends.* Two tasks of each kind are enough to meet in the queue, in the
  directory, at the device flag and at ACL; `Crowd` has all three kinds at once. The
  bindings are wrong in one respect and some in two, which is what the order of the
  checks can tell. `MaxNames = 2`: a second registration is the first that can move
  a name.
* *Processes.* Three with `Limit = 2`: one that has made its directory, one that makes
  it crowded, and one that prunes; one directory left from before, in no root, in one or
  in both. Four groups of requests (`Together`): two profiled simulations beside an NPU
  run, two without profile beside a call of the C API, two of two tasks with a comparison
  beside a request that is refused, and the requests that do not simulate together. All
  mixtures together have too many states; the four have about 5.3 million, the most of
  all runs. The theorems of `FrontEnd_proofs` do not depend on the choice.
* *Kernels.* One for each shape of the repository's examples: a broadcast with an
  epilogue in one generic, a reduction tiled in two axes, two loops that share a
  result, a kernel of one tile, a matmul with bias and relu, two concatenations, and
  five mix kernels (with and without bias and slope, one that is refused, one whose
  matmul has whole buffers as operands and so gets its note). Two blocks and two
  elements an axis: a stale tile, a missing offset or a race needs no more.

Deadlock is checked where the system goes on for ever. `serial_run`, `runs`, `backends`,
`front_end` and `compile` do not check it because they end; liveness, the promise, or
`NeverStuck` says that they end properly.

## 5. Fairness

`ExecutionSession` (and `SchedulerFairness`) assume weak fairness of

* the admission loop: it runs inside a call and its thread is not stopped;
* each worker's next step: the operating system runs every runnable thread, and
  every kernel ends, well or badly. A worker that waits on the condition variable
  has *no* step until somebody notifies, which is what makes `EveryRunReturns`
  depend on every `notify_all`;
* the caller's release of its session after it has joined its workers
  (`SchedulerFairness`, which has no workers: the release of a drained session).

`Backends` assumes weak fairness of each call's next step and of the simulator's
thread, for the same reason; a call that waits for its future has no step of its own
until it is fulfilled.

Nobody has to submit, and which of several waiting workers gets the mutex or a
task is left open. Strong fairness, which would amount to a fair mutex, is not
assumed: what holds without it holds with it. Sessions that arrive for ever can keep
one waiting for ever - `submit` sets the cursor behind the session admitted last -
so what is stated of the rotation is `NoDoubleTurn`, and `EveryRunReturns` is about
finitely many runs.

A job whose workspace exceeds the capacity is never admitted and its run waits for
ever; the interface allows capacities to be raised later. The runs that check
liveness use jobs that fit. `StandstillExplained` (section 6) says that there is no
other reason for the threads of all calls to stop.

## 6. The proofs

All theorems hold for every value of the constants that satisfies the named
assumptions of the modules, which TLC evaluates in every run: any finite set of
sessions and of tasks, any set of well-shaped jobs and of capacities
(`SessionAssumption`, `TaskAssumption`, `JobAssumption`, `CapacitiesAssumption`; for
the ledger `HolderAssumption`, `RequirementsAssumption`, `MaxTokenAssumption`); as many
workers as `run()` spawns, task ids that differ from the mark of no task and graphs
that differ from the mark of no job (`WorkerAssumption`, `NoJobAssumption`), jobs of two
tasks or more whose graph has an order, since `run()` dispatches one task serially and
submits nothing that `orderedTasks` refused (`RunAssumption`); any set of ids and of
dependency lists over it, any number of tasks that are run serially, and a mark of no
graph (`IdAssumption`, `DepsAssumption`, `MaxRunAssumption`, `NoGraphAssumption`); any finite
set of runners and any launches (`RunnerAssumption`, `RequestAssumption`), calls with
well-formed bindings, of which the NPU ones have a runner of their own (`TaskAssumption`
of `Backends`); any set of processes, requests of at least one task, any finite set of
directories left from before, any positive limit (`FrontEndAssumption`).

| module | proved |
|---|---|
| `ResourceAdmission_proofs` | lemmas on counting units: adding a grant adds its demand (`UnitsGranted`), dropping some subtracts theirs (`UnitsReturned`), nobody holds more than all do (`HolderWithinTotal`), a demand that `Fits` stays within capacity (`FitsWithinCapacity`) |
| `ResourceScheduler_proofs` | `AccountingCorrect` (typing and accounting of the ledger), `NoOvercommit`, `ExclusiveStreamAlone`, and the refinement `LedgerKept` |
| `GlobalScheduler_proofs` | `Inductive`, and from it `TypeCorrect`, `AccountingCorrect`, `TicketsCorrect`, `CountersCorrect`, `RotationCorrect`, `NoOvercommit`, `QuotaCorrect`, `LifecycleCorrect`, `FailureFinal`, `DeviceNotShared`, `DependenciesCorrect`, `NothingLeftWaiting` (that the admission loop conserves work), `PriorityRespected`, and the refinement `LedgerKept` |
| `SchedulerFairness_proofs` | `RoundRobin` |
| `ExecutionSession_proofs` | `RunsInductive`, and from it `OneWorkerPerTask`, `DeclaredInputsFound`, `LedgerEmptyAfterRuns`, `NoWakeupLost`, the refinement `PromiseKept`; `RunsAreClients`, and from it `RunsShareNoDevice` and `StandstillExplained` |
| `SerialRun_proofs` | of `TaskGraph` `RefusalsJustified` and `OrderBreadthFirst`; `RunInductive`, and from it `PlanFollowed` and the refinement `SerialPromiseKept` |
| `Backends_proofs` | `BackendsInductive`, and from it `DeviceAccounted`, `AclExclusive`, `LaunchLeavesNothing`, `FuturesAnswered`, `SameRefusals`, `FilesAreRight` |
| `FrontEnd_proofs` | `FrontInductive`, and from it `RecentDirectoriesSurvive`, `RetainedProfilesBounded`, `OutcomesAreWhole` |

**The inductive invariant.** Not even `TypeOK` is inductive: that `running - 1`,
`admitted - n` and `used - units` are natural numbers depends on what they count.
`IInv` is therefore

    TypeOK /\ Counting /\ Records /\ Rotation

where `Counting` says that `used` counts the units in `grant`, that exactly the
reserved and running tasks are in `grant`, that `admitted` counts a session's grants,
and `running` and `completed` its tasks in those states; `Records` says that the
task records are those of the live sessions (so that submission finds none and
release leaves none); and `Rotation` says that the rotation lists the live sessions
once (so that removing one shortens it by one and the cursor stays inside). One
lemma for each action shows that it keeps `IInv` (`AdmitKeeps`, `SubmitKeeps`, ...,
`ReleaseKeeps`), and `NextKeeps` collects them.

On top of it, `NoOvercommit` needs that only `Admit` takes units and that its guard
bounds them; `QuotaCorrect` strengthens by `WithinQuota` (the count only grows where
`QuotaExhausted` is false); `FailureFinal` strengthens by `AllSettled`: a session is
failed exactly if one of its tasks has failed, a failed one has nothing submitted,
ready or reserved, and only a failed one has cancelled tasks.

`DeviceNotShared` is a theorem about histories in which no call raises the number
of device slots (`SlotsNeverRaised`); lowering them is allowed, more than the runs
try. Its invariant `Alone` says that an exclusive task holds at least the slots
configured and nobody else any: a task admitted later does not fit
(`HolderWithinTotal`: nobody holds more than `used` says), and an exclusive task
only fits when `used` is zero.

`DependenciesCorrect`: `Dependencies` is inductive relative to `IInv` and
`AllSettled`. `remaining` counts the places of a task's list that name a task not yet
done, and a completion takes away as many as name the completed task, so a task
becomes ready exactly when none is left; `AllSettled` is why the tasks that were
cancelled, whose count has stopped, cannot come back.

`NothingLeftWaiting` is about the loop: when a call has ended and no session has
failed, nobody can be admitted (`WorkConserving`). `StartsInside` keeps the start of a pass inside the
rotation; a pass looks at every session (`EveryoneVisited`), so one that finds no
turn, having settled on no class, finds nobody admissible: among the admissible
ones there is one of the highest class, and among those a first in the rotation
(`HighestClass`, `LeastElement`, `LoopServesAll`).

`PriorityRespected` needs that an admission makes nobody admissible (`FitsLess`,
`AdmitHelpsNobody`): so the class that a pass settled on remains the highest that
can be admitted until the pass ends (`ClassSettled`).

**The ledger.** Of each step of `ResourceScheduler` `LedgerStep` shows which step of
`ReservationLedger` it is. The counters and the flag are what clients see of the
reservations (`CountersSeen`, from `Accounting` and `ExclusiveStream`), so a grant
is a `Reserve` that fits beside what is held (`GrantReserves`) and a refusal gives the
reason that the reservations themselves give; a release takes out the one reservation
with that token, or nothing if the copy does not match it (`ReleaseReturns`). For the
scheduler the same is shown of `grant`: `AdmitReserves`, and `ReturnGrantsReturns` for the
calls after which tasks hold nothing any more. That no task is admitted while it has
a reservation is `Tickets`.

**Round robin.** `RoundRobin` reads the rotation from the cursor (`Sooner`). Whoever is
admitted goes to its end, because the cursor is set behind him, and so comes after
everyone who waits; the next admission takes the first of a class (`AdmittedFirst`,
which needs that a pass has come as far as the cursor, `PassAtCursor`). What could
break the order is the recomputation of the cursor in `submit` and in
`releaseSession`. `CursorFollows` - the cursor stands behind the session admitted last -
shows that it does not: an arrival leaves the cursor where it is, or moves it from
the front to the new end, which is the same place of the rotation (`ArriveFair`), and a
removal leaves it before the same session (`RemovalKeepsCursor`).

**The runs.** Every step of `ExecutionSession` is a step of the scheduler or leaves it
alone (`StepOfScheduler`), so `IInv`, `AllSettled` and `Dependencies` hold there. `RunsInv`
relates the threads of one session to its task records: what is running is in the
hands of one worker and a worker holds nothing else (`Owned`); the scheduler knows the
session exactly while its caller joins (`Present`); what is recorded has succeeded or is
about to be reported (`Recorded`); a failure is known to `run()` before it is to the
scheduler (`Noticed`); a worker that has ended found everything done or knows of a fault
(`Exhausted`). Each is a statement about the order of two steps of the code. A step of
one session, and an admission, leaves the others `Untouched`, which keeps their part
(`UntouchedOK`), so there is one lemma for each action about its own session.
`NoWakeupLost` needs the scheduler's invariants as well: a parked worker is woken by
every call that could give it something (`WakeupsKept`). For `PromiseKept` each action is
shown to be the step of `TaskGraphRun` it stands for: `BeginRun` is `Begin`, `AcquireTask`
is `Start` (its needs are met by `Dependencies`), recording an output or noticing a
fault is the end of the task, `EndRun` is the return, and the others change nothing
that a caller sees (`SilentStep`). That `"incomplete"` is never returned follows from
`Exhausted`, since at least one worker is started (`FirstWorker`).

**Standstill.** `RunsAreClients` says that callers and workers only do to the scheduler
what its clients may, so its theorems hold under them (`RunsShareNoDevice` is
`DeviceNotShared`, since runs never raise the slots). `StandstillExplained` is what can be
proved where liveness cannot. Suppose that in every call under way a worker waits and
all others wait or have ended. By `NoLostWakeup` and `Owned` no task is reserved or
running, so nothing of the ledger is in use (`NothingInUse`); a waiter's session is
neither drained nor failed, so a task of it has not succeeded (`WaitersNotDone`); among
those that have not, one depends on none of them (`HasOrder`), and by `Dependencies` it
is ready (`SomeTaskReady`). By `WorkConserving` it cannot be admitted, though nothing else
is reserved and no quota is used: it exceeds the capacities (`OnlyRoomIsMissing`).

**The order of a graph.** The loop of `orderedTasks` is a function of the number of
iterations; that it is the one its definition says is shown by induction on the set of
the numbers up to which such a function exists (`Iteration`, `SetInduction`,
`LoopDefined`). Its invariant, `LoopInv`, is about the order and the queue as one list:
an indegree counts the places of the task's list that name a task not yet ordered
(`Counted`), the tasks for which none is left are in the list, once (`Queued`, `Once`),
and every iteration orders one more (`LoopStart`, `LoopStep`), so the loop has ended
after as many iterations as there are tasks (`LoopEnd`). What it leaves out waits for
one another (`LeftOutStuck`), and no such tasks can ever be ordered (`OrderNotStuck`):
hence `RefusalsJustified`. For `OrderBreadthFirst` the invariant says that of two tasks
in the list the later one depends on a task at least as late as any the earlier one
depends on (`Frontier`), which the queue's being first in, first out makes true; so
whatever can be stacked below a task can be stacked below the later ones
(`ChainsLater`, by induction on the height).

**The serial path.** `RunInv` says that the counters and the queue of the serial path are,
after k tasks, those of the loop of `orderedTasks` after k iterations on the plan
(`Progress`, `PlanStart`, `PlanStep`), where the places of the plan come out one after the
other (`Consecutive`). So the head of the queue is the next place (`PlanFollowed`), and
the queue is empty only at the end (`PlanEnd`), which is why a serial run never returns
`"incomplete"`. For `SerialPromiseKept` each action is the step of `TaskGraphRun` it
stands for, from `BuildBegins` to `ReturnsRightly`.

**The backends.** What a runner holds is a function of where its thread is (`LaunchOK`).
Over all runners, ACL's user is the one between `aclInit` and `aclFinalize` (`AclOK`), and
the device's users are counted: a step of one runner changes the count of those that
hold it by its own (`HoldingStep`), and the flag stands for one more user unless
somebody is between taking it and the answer (`FlagStep`, `ClaimOK`). Calls are proved about
one at a time: what is known of a call depends on its own stage, on the queue and on the
file of its directory (`StageOK`, `SavedOK`, `RefusalOK`, `TraceOK`), and a step of another
call leaves that alone (`OtherCall`, `OtherTrace`). The proof of `SameRefusals` corrected
the property: as first stated, a launch that NPUs accept is never refused with
`"artifact"` by the simulator, which is false of a mix launch whose environment cannot
be set up (`SimBackend.cpp:418`); the run's bindings had no mix pair, and now have one.

**The directories.** `FrontInv` has one part for each process, and a step of one spares
the others (`OthersSpared`): it removes a directory of another, or anything in it, only
if the root is `Crowded` for it, that is, at least `Limit - 1` others have been made there
or have lost an entry. The second is needed: a directory left from before that could only
be removed in part is the newest then, and takes the room of one that a run has made. A
process dooms what is beyond the newest ones, and a root is a list with the newest first
and those from before that are as they were at its end (`Good`, `OldLast`, `AsBefore`), so
whatever it dooms is crowded then; and since `made` and `damaged` only grow, it still is
when it is removed, however long that takes (`StaysCrowded`, `DoomedOK`).

What a process reports is known only of a directory that is `Intact`, in its root and with
nothing removed: then the copies made so far are there (`Filled`), and so are the summary
and all of them at the end. `OutcomesAreWhole` follows since a directory is intact or its
root crowded. `RetainedProfilesBounded` counts: what was listed has gone, is kept, is
still to be removed, or has left `listed` because it could not be (`ListedOK`).

**Only model-checked.** Liveness (`EveryRunReturns`, `EveryCallReturns`) is outside what
the prover handles; `StandstillExplained` proves the part of it that is an invariant. The
properties of `KernelRun` are checked on the kernels named above and on no others: the
passes are recursive over kernels, and a kernel's meaning is a bag of terms.

## 7. Findings

Three places where the program does not do what it says; each is a run with a
counterexample.

* `registered_names` - `registerBinary` hands the runtime the characters of a name it
  calls stable, in a vector of strings; a short name moves when the next binary is
  registered with the same runner.
* `profile_per_task` - the profiled tasks of a session write one `trace.json`, and each
  retained `tasks/<task_id>.json` is a copy of it: all hold the last task's trace.
* `k_slice` - the load of a matmul's operand from A1 into A2 always starts at the first
  element, so a loop over K that takes more than one step multiplies the first slice
  each time; the placement inserts the view of the slice, and the lowering drops it.

### Directories that are removed in part

Errors of `remove_all` are ignored (`ProfileUtils.cpp:415`, `ExecutionSession.cpp:255`).
No document says otherwise; what follows is why the properties of `front_end` say no more
than they do:

* in a crowded root the owner of a directory may still be writing when another process
  removes its entries; the owner need not notice, and reports a success with some of its
  `tasks/<task_id>.json` missing, or all of its profiles;
* a directory that cannot be removed stays beyond the limit, and one that has lost an
  entry is taken for the newest, so a half removed one may outlive whole ones;
* after an error the working directory may stay.

### Kernels the passes do not serve

The kernels of `compile` are those of the examples. While the passes were modelled, other
shapes turned out to break them; they are outside what the run claims:

* vector generics chained through a VECCALC buffer: the parallel path does not free
  the inputs it dequeues, and an intermediate read by two operations is dequeued twice;
* one generic whose body has several results in use: every operation of the body writes
  the same accumulator;
* two top-level loops of which the second reads rows other blocks have written: both are
  split, nothing separates them (`BlocksIndependent` holds for loops over the same rows);
* copies between GM buffers outside loops are made by every block, and a memmove has
  the size of its source's whole buffer also when the source is a view;
* a view whose tile is not a run of rows, behind a flat pointer; a loop that does not
  start at 0, which every block runs whole;
* a bias redirected to its tile keeps the offsets into the whole buffer;
* a mix kernel whose fourth argument has rank two, or with further vector operations,
  matches the shape and loses them in the template.

## 8. What is not modelled

* Telemetry: counters, `observabilitySnapshot`, block reasons kept for them; no
  decision reads them.
* The scheduler's default policy: it supplies a job's scheduling options, which
  the model chooses freely. The `submit` overloads read it without the mutex.
* In `ExecutionSession`: working directories, output paths, traces; `submit()` and
  `plan()`, which expose steps of `run()`. Lower-level failures are one nondeterministic
  outcome, `RunError`.
* In the native runner: contents and sizes of buffers, the list of addresses, the
  environment of the simulator libraries. In the front ends: options and their parsing,
  requests that only compile, the metrics added up from a trace.
* In the compiler: sizes, strides and element types, what an axis-based model cannot
  tell apart; gathers with their fusion, transposed and batched operands; the text of
  what is printed. Kernels are bufferized already; the AFIR dialect, its rewrites and
  the converters between textual forms come before.
* In the tiling: the numbers. The native planner's core count is a hint the library
  ignores for one core, and the library decides; parsing and writing of metadata.
* Artifact loading and compilation, Support, Python, command line tools with the
  autotuner: sequential work on text and files, whose failures are errors of one call.
