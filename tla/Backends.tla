------------------------------ MODULE Backends ------------------------------
(***************************************************************************)
(* SimBackend::run and NpuBackend::run (lib/Runtime/Execution/             *)
(* SimBackend.cpp, NpuBackend.cpp), called by the workers of sessions, one *)
(* task per call.  All simulator tasks of the process are launched by one  *)
(* thread, the worker of SimulatorDispatchQueue, on a runner that it       *)
(* keeps; an NPU task has a runner of its own, on its caller's thread.     *)
(*                                                                         *)
(* The files of a task go to the working directory of its session, which   *)
(* the tasks of the session share.                                         *)
(***************************************************************************)
EXTENDS NativeRunner, Sequences

CONSTANTS
  Task,         \* calls of run(); those on the NPU are runners as well
  Scenario,     \* what is asked: functions from tasks, see TaskShape
  Sim           \* the runner of the dispatch queue

\* The bindings of an invocation, as far as they are checked.  The input
\* bindings: external files, paths that are there, files that load.  The
\* outputs: how many, external files, paths that are there, and metadata
\* that is missing, or right, or differs from the expected output.
BindingsShape(b) ==
  /\ b.inputs \subseteq {"external", "path", "loads"}
  /\ b.tiling \in BOOLEAN
  /\ b.outputs \in Nat /\ b.output \subseteq {"external", "path"}
  /\ b.metadata \in {"missing", "right", "differs"}
  /\ b.expected \in Nat
  /\ b.expectation \subseteq {"external", "path", "loads"}

\* npu: which backend.  driver: the backend was given a driver.  complete:
\* the artifact names its files.  launch: what the runner is asked to do.
\* profiling: a trace is wanted.  directory: of the session.
TaskShape(t, a) ==
  /\ a.npu \in BOOLEAN /\ a.driver \in BOOLEAN /\ a.complete \in BOOLEAN
  /\ BindingsShape(a.bindings)
  /\ a.launch \in Request /\ a.profiling \in BOOLEAN
  /\ a.npu => t \in Runner

ASSUME TaskAssumption ==
  /\ \A asked \in Scenario :
       DOMAIN asked \subseteq Task /\ \A t \in DOMAIN asked : TaskShape(t, asked[t])
  /\ Simulator = {Sim} /\ Sim \notin Task /\ NoRunner \notin Task

VARIABLES
  asked,        \* the scenario
  stage,        \* where the call of each task is
  failure,      \* the stage its error names; "unstaged": the error has none
  workQueue,    \* launches the simulator's thread has not begun
  serving,      \* the task it serves, or NoRunner
  stopping,     \* the destructor of the queue has begun
  trace,        \* whose traces the file opprof/simulator/trace.json of each
                \* directory holds
  saved         \* the tasks whose outputs have been written

queue    == <<workQueue, serving, stopping>>
files    == <<trace, saved>>
backVars == <<runnerVars, asked, stage, failure, queue, files>>

Called == DOMAIN asked
Directory == {asked[t].directory : t \in Called}

BackendsInit ==
  /\ RunnerInit
  /\ asked \in Scenario
  /\ stage = [t \in Called |-> "called"]
  /\ failure = [t \in Called |-> "none"]
  /\ workQueue = << >>
  /\ serving = NoRunner
  /\ stopping = FALSE
  /\ trace = [d \in Directory |-> {}]
  /\ saved = {}

-----------------------------------------------------------------------------
(* Which bindings are accepted.                                            *)

\* SimBackend: an expected output decides how an output is allocated, and
\* what the output binding says of it is not looked at.
SimAccepts(b) ==
  /\ b.outputs > 0
  /\ b.tiling
  /\ {"external", "loads"} \subseteq b.inputs
  /\ b.expected > 0 => {"external", "loads"} \subseteq b.expectation
  /\ b.expected \in {0, b.outputs}
  /\ b.expected = 0 => b.metadata # "missing"

NpuValidUncounted(b) ==
  /\ b.outputs > 0
  /\ {"external", "path"} \subseteq b.inputs
  /\ b.expected > 0 => b.expectation = {"external", "path", "loads"}
  /\ b.output = {"external", "path"}
  /\ b.metadata # IF b.expected > 0 THEN "differs" ELSE "missing"

\* NpuBackend: validateInvocationBindings, then buildRunArgs.
NpuValid(b) ==
  /\ b.outputs > 0
  /\ {"external", "path"} \subseteq b.inputs
  /\ b.expected > 0 => b.expectation = {"external", "path", "loads"}
  /\ b.expected \in {0, b.outputs}
  /\ b.output = {"external", "path"}
  /\ b.metadata # IF b.expected > 0 THEN "differs" ELSE "missing"

NpuLoads(b) == b.tiling /\ "loads" \in b.inputs

NpuAccepts(b) == NpuValid(b) /\ NpuLoads(b)

-----------------------------------------------------------------------------
(* Steps that both backends have.                                          *)

Advance(t, to) == stage' = [stage EXCEPT ![t] = to] /\ UNCHANGED failure

\* stageError: the call returns an error that names the stage.
Fail(t, name) ==
  /\ stage' = [stage EXCEPT ![t] = "returned"]
  /\ failure' = [failure EXCEPT ![t] = name]

\* A driver takes the place of the launch.  The NPU backend checks the
\* bindings first and stages its error; the simulator does neither.
RunDriver(t) ==
  /\ stage[t] = "called" /\ asked[t].driver
  /\ IF asked[t].npu /\ ~NpuValid(asked[t].bindings) THEN Fail(t, "bindings")
     ELSE \/ Advance(t, "returned")
          \/ Fail(t, IF asked[t].npu THEN "driver" ELSE "unstaged")
  /\ UNCHANGED <<runnerVars, asked, queue, files>>

\* The artifact lacks a file, or the bindings are refused.
Refuse(t, accepted) ==
  \/ ~asked[t].complete /\ Fail(t, "artifact")
  \/ asked[t].complete /\ ~accepted /\ Fail(t, "bindings")

\* Outputs that differ from the expected ones are not saved.
Validate(t) ==
  /\ stage[t] = "launched"
  /\ \/ Advance(t, "validated")
     \/ asked[t].bindings.expected > 0 /\ Fail(t, "validate")
  /\ UNCHANGED <<runnerVars, asked, queue, files>>

WriteOutputs(t) ==
  /\ stage[t] = "validated"
  /\ \/ /\ saved' = saved \cup {t}
        /\ Advance(t, IF ~asked[t].npu /\ asked[t].profiling THEN "profiling"
                      ELSE "returned")
     \/ Fail(t, "write_outputs") /\ UNCHANGED saved
  /\ UNCHANGED <<runnerVars, asked, queue, trace>>

-----------------------------------------------------------------------------
(* The simulator.                                                          *)

\* The launch joins the queue and the call waits for its future.
Enqueue(t) ==
  /\ stage[t] = "called" /\ ~asked[t].npu /\ ~asked[t].driver
  /\ \/ Refuse(t, SimAccepts(asked[t].bindings)) /\ UNCHANGED workQueue
     \/ /\ asked[t].complete /\ SimAccepts(asked[t].bindings)
        /\ workQueue' = Append(workQueue, t)
        /\ Advance(t, "queued")
  /\ UNCHANGED <<runnerVars, asked, serving, stopping, files>>

TakeWorkAgain ==
  /\ serving = NoRunner
  /\ workQueue # << >>
  /\ serving' = Head(workQueue)
  /\ UNCHANGED <<runnerVars, asked, stage, failure, workQueue, stopping, files>>

TakeWorkUntilFailure ==
  /\ serving = NoRunner
  /\ workQueue # << >>
  /\ \A t \in Called : failure[t] # "kernel_launch"
  /\ serving' = Head(workQueue)
  /\ workQueue' = Tail(workQueue)
  /\ UNCHANGED <<runnerVars, asked, stage, failure, stopping, files>>

\* workerLoop
TakeWork ==
  /\ serving = NoRunner
  /\ workQueue # << >>
  /\ serving' = Head(workQueue)
  /\ workQueue' = Tail(workQueue)
  /\ UNCHANGED <<runnerVars, asked, stage, failure, stopping, files>>

\* The future of the task being served has its answer.
Answer(name) ==
  /\ serving' = NoRunner
  /\ IF name = "none" THEN Advance(serving, "launched") ELSE Fail(serving, name)
  /\ UNCHANGED <<asked, workQueue, stopping, files>>

\* getOrCreateRunner: a runner that cannot be initialized is dropped, so
\* that the next task tries again.
CreateRunner ==
  /\ serving # NoRunner
  /\ \/ Create(Sim) \/ Initialize(Sim)
  /\ UNCHANGED <<asked, stage, failure, queue, files>>

DropRunner ==
  /\ serving # NoRunner
  /\ At(Sim, "unusable")
  /\ Destroy(Sim)
  /\ Answer("unstaged")

\* The environment of a mix launch cannot be set up, or the launch begins.
SimLaunch ==
  /\ serving # NoRunner
  /\ At(Sim, "idle") /\ runner[Sim].result = "none"
  /\ \/ Begin(Sim, asked[serving].launch) /\ UNCHANGED <<asked, stage, failure, queue, files>>
     \/ /\ asked[serving].launch.mix
        /\ Answer("artifact")
        /\ UNCHANGED runnerVars

SimRun ==
  /\ serving # NoRunner
  /\ Run(Sim)
  /\ UNCHANGED <<asked, stage, failure, queue, files>>

\* The runner has returned.
SimEnd ==
  /\ serving # NoRunner
  /\ At(Sim, "idle") /\ runner[Sim].result # "none"
  /\ Answer(IF runner[Sim].result = "ok" THEN "none" ELSE "kernel_launch")
  /\ runner' = [runner EXCEPT ![Sim].result = "none"]
  /\ UNCHANGED <<process, registry>>

\* The destructor at the end of the process: what is queued is served, then
\* the thread drops its runner and ends.
Stop ==
  /\ ~stopping
  /\ \A t \in Called : stage[t] = "returned"
  /\ stopping' = TRUE
  /\ UNCHANGED <<runnerVars, asked, stage, failure, workQueue, serving, files>>

EndWorker ==
  /\ stopping /\ workQueue = << >> /\ serving = NoRunner
  /\ Destroy(Sim)
  /\ UNCHANGED <<asked, stage, failure, queue, files>>

TraceFileOfProcess(t) == CHOOSE d \in Directory : TRUE

TraceFile(t) == asked[t].directory

\* materializeSimulatorProfileArtifact: the file is truncated when it is
\* opened, and what is written then is added to what others are writing.
OpenTrace(t) ==
  /\ stage[t] = "profiling"
  /\ \/ /\ trace' = [trace EXCEPT ![TraceFile(t)] = {}]
        /\ Advance(t, "tracing")
     \/ Fail(t, "profiling") /\ UNCHANGED trace
  /\ UNCHANGED <<runnerVars, asked, queue, saved>>

WriteTrace(t) ==
  /\ stage[t] = "tracing"
  /\ trace' = [trace EXCEPT ![TraceFile(t)] = @ \cup {t}]
  /\ \/ Advance(t, "returned")
     \/ Fail(t, "profiling")
  /\ UNCHANGED <<runnerVars, asked, queue, saved>>

-----------------------------------------------------------------------------
(* The NPU: every step on the thread of the caller.                        *)

\* ASCEND_DEVICE_ID may be no number.
NpuStart(t) ==
  /\ stage[t] = "called" /\ asked[t].npu /\ ~asked[t].driver
  /\ \/ Refuse(t, NpuAccepts(asked[t].bindings)) /\ UNCHANGED runnerVars
     \/ /\ asked[t].complete /\ NpuAccepts(asked[t].bindings)
        /\ Fail(t, "executor_initialize")
        /\ UNCHANGED runnerVars
     \/ /\ asked[t].complete /\ NpuAccepts(asked[t].bindings)
        /\ Create(t)
        /\ Advance(t, "initializing")
  /\ UNCHANGED <<asked, queue, files>>

NpuInitialize(t) ==
  /\ stage[t] = "initializing"
  /\ \/ Initialize(t) /\ UNCHANGED <<stage, failure>>
     \/ At(t, "unusable") /\ Destroy(t) /\ Fail(t, "executor_initialize")
     \/ /\ At(t, "idle")
        /\ Begin(t, asked[t].launch)
        /\ Advance(t, "launching")
  /\ UNCHANGED <<asked, queue, files>>

\* The runner lives until the call returns.
NpuLaunch(t) ==
  /\ stage[t] = "launching"
  /\ \/ Run(t) /\ UNCHANGED <<stage, failure>>
     \/ /\ At(t, "idle")
        /\ IF runner[t].result = "ok" THEN Advance(t, "launched")
           ELSE Fail(t, "kernel_launch")
        /\ UNCHANGED runnerVars
  /\ UNCHANGED <<asked, queue, files>>

NpuReturn(t) ==
  /\ stage[t] = "returned" /\ asked[t].npu
  /\ Destroy(t)
  /\ UNCHANGED <<asked, stage, failure, queue, files>>

-----------------------------------------------------------------------------
Call(t) ==
  \/ RunDriver(t) \/ Enqueue(t) \/ Validate(t) \/ WriteOutputs(t)
  \/ OpenTrace(t) \/ WriteTrace(t)
  \/ NpuStart(t) \/ NpuInitialize(t) \/ NpuLaunch(t) \/ NpuReturn(t)

Worker ==
  \/ TakeWork \/ CreateRunner \/ DropRunner \/ SimLaunch \/ SimRun \/ SimEnd
  \/ EndWorker

BackendsNext == (\E t \in Called : Call(t)) \/ Worker \/ Stop

BackendsSpec ==
  /\ BackendsInit /\ [][BackendsNext]_backVars
  /\ \A t \in Task : WF_backVars(t \in Called /\ Call(t))
  /\ WF_backVars(Worker)

-----------------------------------------------------------------------------
(* Properties.                                                             *)

\* A call that waits for its future is either in the queue, once, or being
\* served, and nothing else is: no answer is lost and none goes to a call
\* that has returned.
FuturesMatch ==
  /\ \A i, j \in DOMAIN workQueue : workQueue[i] = workQueue[j] => i = j
  /\ {workQueue[i] : i \in DOMAIN workQueue} \cup ({serving} \ {NoRunner})
       = {t \in Called : stage[t] = "queued"}
  /\ \A i \in DOMAIN workQueue : workQueue[i] # serving

\* The NPU backend is the stricter one: what it accepts the simulator does
\* not refuse, whatever the two look at first.  (Of a mix launch the simulator
\* also says "artifact" when it cannot set up the environment of the launch,
\* with which it has accepted the call.)
BackendsAgree ==
  \A t, u \in Called :
    (/\ asked[t].npu /\ ~asked[u].npu
     /\ asked[t].complete = asked[u].complete
     /\ asked[t].bindings = asked[u].bindings
     /\ ~asked[t].driver /\ ~asked[u].driver
     /\ \/ failure[u] = "bindings"
        \/ failure[u] = "artifact" /\ ~asked[u].launch.mix
     /\ stage[t] = "returned")
    => failure[t] = failure[u]

\* What is left on disk is right: the outputs of exactly the tasks whose
\* outputs are as expected, and the trace of a task whose directory no other
\* profiled task shares is its own and whole when its call returns.
FilesRight ==
  \A t \in Called : ~asked[t].driver =>
    /\ stage[t] = "returned" /\ failure[t] = "none" => t \in saved
    /\ t \in saved => failure[t] \in {"none", "profiling"}
    /\ (/\ asked[t].profiling /\ ~asked[t].npu
        /\ stage[t] = "returned" /\ failure[t] = "none"
        /\ \A u \in Called \ {t} :
             asked[u].profiling => asked[u].directory # asked[t].directory)
       => trace[asked[t].directory] = {t}

\* Every call returns, whatever fails before it in the queue.
EveryCallReturns == \A t \in Task : <>(t \in Called => stage[t] = "returned")
=============================================================================
