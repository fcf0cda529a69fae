---------------------------- MODULE NativeRunner ----------------------------
(***************************************************************************)
(* NativeExecutionRunner (lib/Runtime/Execution/NativeExecutionRunner.cpp):*)
(* a runner attaches to the device, registers kernel binaries and launches *)
(* kernels, either from a device binary through the rt library or from a   *)
(* shared library through ACL.  Every call into a library may fail, and    *)
(* what the runner has acquired by then must be given back.                *)
(*                                                                         *)
(* Runners belong to different threads; each is used by one thread at a    *)
(* time.  What they share is the flag deviceInitialized, a static of       *)
(* initialize(), and the state of the two libraries, which is external:    *)
(* the device stays attached while it has been set more often than reset,  *)
(* and aclInit fails in a process that has called it without aclFinalize.  *)
(***************************************************************************)
EXTENDS Integers, FiniteSets

CONSTANTS
  Runner,
  Simulator,    \* the runners in mode Simulation; the others: RealDevice
  Request,      \* launches, see RequestShape
  Function,     \* keys of registeredFunctionHandles_
  MaxNames,     \* bound: registrations attempted by one runner
  NoRunner, NoRequest

\* A launch: of a shared library (mix) or of the function of a device
\* binary, with the number of its buffers.  brief: the name is so short that
\* std::string keeps it inside the object.
RequestShape(q) ==
  /\ q.mix \in BOOLEAN
  /\ q.function \in Function /\ q.brief \in BOOLEAN
  /\ q.inputs \in Nat /\ q.outputs \in Nat /\ q.tiling \in BOOLEAN

ASSUME RunnerAssumption ==
  /\ Simulator \subseteq Runner /\ NoRunner \notin Runner
  /\ IsFiniteSet(Runner)
  /\ NoRequest \notin Request /\ MaxNames \in Nat
ASSUME RequestAssumption == \A q \in Request : RequestShape(q)

VARIABLES
  deviceInitialized,
  deviceUsers,  \* successful calls that set the device, less the resets
  aclUser,      \* who has called aclInit and not yet aclFinalize
  runner,       \* the members of each runner, and where its thread is
  names,        \* how many names registeredNames_ holds
  handles       \* registeredFunctionHandles_

process    == <<deviceInitialized, deviceUsers, aclUser>>
registry   == <<names, handles>>
runnerVars == <<process, runner, registry>>

\* Where a runner's thread is.  "unusable": initialize() has failed.
Attaching == {"created", "claimed", "refused", "attached"}
Launching == {"unregistered", "acl", "library", "aclInit", "aclDevice",
              "aclStream", "staging", "running", "reading"}
Place == {"absent", "unusable", "idle"} \cup Attaching \cup Launching

\* What a runner may hold: libraries opened with dlopen
\* ("runtime", "acl", "artifact"), its stream, device
\* buffers, and in an ACL launch the device and a stream of its own.
Fresh(opened) ==
  [ at |-> "created", opened |-> opened, stream |-> FALSE, buffers |-> 0,
    acl |-> {}, read |-> 0, request |-> NoRequest, result |-> "none" ]

\* A handle points at a name: which one, and where the vector of the names
\* was.  A short name moves with the vector, a long one stays.
NoHandle == [name |-> 0, storage |-> 0, brief |-> FALSE]

RunnerInit ==
  /\ deviceInitialized = FALSE
  /\ deviceUsers = 0
  /\ aclUser = NoRunner
  /\ runner = [r \in Runner |-> [Fresh({}) EXCEPT !.at = "absent"]]
  /\ names = [r \in Runner |-> 0]
  /\ handles = [r \in Runner |-> [f \in Function |-> NoHandle]]

At(r, p) == runner[r].at = p
Goto(r, p) == runner' = [runner EXCEPT ![r].at = p]

-----------------------------------------------------------------------------
(* initialize() and the destructor.                                        *)

\* A simulation runner leaves open what its predecessor left open.
Create(r) ==
  /\ At(r, "absent")
  /\ runner' = [runner EXCEPT ![r] = Fresh(@.opened)]
  /\ names' = [names EXCEPT ![r] = 0]
  /\ handles' = [handles EXCEPT ![r] = [f \in Function |-> NoHandle]]
  /\ UNCHANGED process

\* loadRuntimeLibraries, then the exchange of deviceInitialized: whoever
\* finds it false sets the device, the others go on at once.
LoadRuntime(r) ==
  /\ At(r, "created")
  /\ \/ /\ runner' = [runner EXCEPT ![r].at = "unusable"]
        /\ UNCHANGED deviceInitialized
     \/ /\ runner' = [runner EXCEPT ![r].at = "unusable",
                                    ![r].opened = @ \cup {"runtime"}]
        /\ UNCHANGED deviceInitialized
     \/ /\ runner' = [runner EXCEPT
                        ![r].at = IF deviceInitialized THEN "attached"
                                  ELSE "claimed",
                        ![r].opened = @ \cup {"runtime"}]
        /\ deviceInitialized' = TRUE
  /\ UNCHANGED <<deviceUsers, aclUser, registry>>

\* rtSetDevice
SetDevice(r) ==
  /\ At(r, "claimed")
  /\ \/ Goto(r, "attached") /\ deviceUsers' = deviceUsers + 1
     \/ Goto(r, "refused") /\ UNCHANGED deviceUsers
  /\ UNCHANGED <<deviceInitialized, aclUser, registry>>

\* Variants, here and below: definitions with a plausible defect, named for
\* it.  No run uses one; with it in place of the definition that follows, a
\* property of the runs must fail.
WithdrawNothing(r) ==
  /\ At(r, "refused")
  /\ Goto(r, "unusable")
  /\ UNCHANGED <<process, registry>>

\* The device could not be set: the next runner is to try again.
Withdraw(r) ==
  /\ At(r, "refused")
  /\ deviceInitialized' = FALSE
  /\ Goto(r, "unusable")
  /\ UNCHANGED <<deviceUsers, aclUser, registry>>

\* rtStreamCreate, after which the runner is initialized.
CreateStream(r) ==
  /\ At(r, "attached")
  /\ \/ runner' = [runner EXCEPT ![r].at = "idle", ![r].stream = TRUE]
     \/ Goto(r, "unusable")
  /\ UNCHANGED <<process, registry>>

DestroyLeavesAcl(r) ==
  /\ runner[r].at \in {"idle", "unusable"}
  /\ runner' = [runner EXCEPT
       ![r] = IF r \in Simulator THEN [@ EXCEPT !.at = "absent"]
              ELSE [Fresh(@.opened \ {"runtime"}) EXCEPT !.at = "absent"]]
  /\ UNCHANGED <<process, registry>>

\* The destructor, which gives back nothing in mode Simulation.
Destroy(r) ==
  /\ runner[r].at \in {"idle", "unusable"}
  /\ runner' = [runner EXCEPT
       ![r] = IF r \in Simulator THEN [@ EXCEPT !.at = "absent"]
              ELSE [Fresh(@.opened \ {"runtime", "acl"}) EXCEPT !.at = "absent"]]
  /\ UNCHANGED <<process, registry>>

-----------------------------------------------------------------------------
(* The end of a launch, from every place where one can end.                *)

Ended(m, result) ==
  [m EXCEPT !.at = "idle", !.opened = @ \ {"artifact"}, !.buffers = 0,
            !.acl = {}, !.read = 0, !.result = result]

FinishAlwaysFinalizes(r, result) ==
  /\ runner' = [runner EXCEPT ![r] = Ended(@, result)]
  /\ deviceUsers' = IF "device" \in runner[r].acl THEN deviceUsers - 1
                    ELSE deviceUsers
  /\ aclUser' = IF runner[r].request.mix THEN NoRunner ELSE aclUser
  /\ UNCHANGED <<deviceInitialized, registry>>

\* freeAll() of a binary launch; the cleanup of a library launch, which
\* undoes what has been done: the buffers, the stream, the device, aclInit,
\* the library.
Finish(r, result) ==
  /\ runner' = [runner EXCEPT ![r] = Ended(@, result)]
  /\ deviceUsers' = IF "device" \in runner[r].acl THEN deviceUsers - 1
                    ELSE deviceUsers
  /\ aclUser' = IF aclUser = r THEN NoRunner ELSE aclUser
  /\ UNCHANGED <<deviceInitialized, registry>>

-----------------------------------------------------------------------------
(* runFile() and runDynamicLibraryArtifact() up to the first buffer.       *)

Begin(r, q) ==
  /\ At(r, "idle")
  /\ runner' = [runner EXCEPT
       ![r].request = q, ![r].result = "none",
       ![r].at = IF q.mix THEN "acl"
                 ELSE IF handles[r][q.function] = NoHandle THEN "unregistered"
                 ELSE "staging"]
  /\ UNCHANGED <<process, registry>>

\* The vector of the names moves when it grows beyond a power of two.
Storage(n) == Cardinality({k \in 0 .. n : 2^k < n})

\* registerBinary: the name is kept before the runtime has accepted it.
Register(r) ==
  LET q == runner[r].request
      n == names[r] + 1
  IN  /\ At(r, "unregistered")
      /\ \/ Finish(r, "error")            \* the file cannot be read
         \/ /\ n <= MaxNames
            /\ names' = [names EXCEPT ![r] = n]
            /\ runner' = [runner EXCEPT ![r] = Ended(@, "error")]
            /\ UNCHANGED <<process, handles>>
         \/ /\ n <= MaxNames
            /\ names' = [names EXCEPT ![r] = n]
            /\ handles' = [handles EXCEPT ![r][q.function] =
                 [name |-> n, storage |-> Storage(n), brief |-> q.brief]]
            /\ Goto(r, "staging")
            /\ UNCHANGED process

\* The functions of the ACL library: all of them or none.
LoadAcl(r) ==
  /\ At(r, "acl")
  /\ \/ "acl" \notin runner[r].opened /\ Finish(r, "error")
     \/ /\ runner' = [runner EXCEPT ![r].at = "library",
                                    ![r].opened = @ \cup {"acl"}]
        /\ UNCHANGED <<process, registry>>

\* The library of the kernel and its entry.
OpenArtifact(r) ==
  /\ At(r, "library")
  /\ \/ Finish(r, "error")
     \/ /\ runner' = [runner EXCEPT ![r].at = "aclInit",
                                    ![r].opened = @ \cup {"artifact"}]
        /\ UNCHANGED <<process, registry>>

AclInit(r) ==
  /\ At(r, "aclInit")
  /\ \/ Finish(r, "error")
     \/ /\ aclUser = NoRunner
        /\ aclUser' = r
        /\ Goto(r, "aclDevice")
        /\ UNCHANGED <<deviceInitialized, deviceUsers, registry>>

AclSetDevice(r) ==
  /\ At(r, "aclDevice")
  /\ \/ Finish(r, "error")
     \/ /\ deviceUsers' = deviceUsers + 1
        /\ runner' = [runner EXCEPT ![r].at = "aclStream",
                                    ![r].acl = @ \cup {"device"}]
        /\ UNCHANGED <<deviceInitialized, aclUser, registry>>

AclCreateStream(r) ==
  /\ At(r, "aclStream")
  /\ \/ Finish(r, "error")
     \/ /\ runner' = [runner EXCEPT ![r].at = "staging",
                                    ![r].acl = @ \cup {"stream"}]
        /\ UNCHANGED <<process, registry>>

-----------------------------------------------------------------------------
(* Buffers, kernel, outputs: runWithHandle() and the rest of               *)
(* runDynamicLibraryArtifact().                                            *)

\* Inputs, outputs and the workspace; the tiling is passed by value.
BinaryBuffers(q) == q.inputs + q.outputs + 1

\* Here the tiling, when there is one, has a buffer of its own.
LibraryBuffers(q) == q.inputs + q.outputs + 1 + IF q.tiling THEN 1 ELSE 0

Buffers(q) == IF q.mix THEN LibraryBuffers(q) ELSE BinaryBuffers(q)

\* The next buffer; for an input and the tiling also the copy to it.
Stage(r) ==
  /\ At(r, "staging")
  /\ runner[r].buffers < Buffers(runner[r].request)
  /\ \/ Finish(r, "error")
     \/ /\ runner' = [runner EXCEPT ![r].buffers = @ + 1]
        /\ UNCHANGED <<process, registry>>

\* The kernel is launched and runs until the stream is synchronized.
Launch(r) ==
  /\ At(r, "staging")
  /\ runner[r].buffers = Buffers(runner[r].request)
  /\ \/ Finish(r, "error")
     \/ Goto(r, "running") /\ UNCHANGED <<process, registry>>

Synchronize(r) ==
  /\ At(r, "running")
  /\ \/ Finish(r, "error")
     \/ Goto(r, "reading") /\ UNCHANGED <<process, registry>>

\* The next output comes back, or all are there.
Read(r) ==
  /\ At(r, "reading")
  /\ IF runner[r].read = runner[r].request.outputs
     THEN Finish(r, "ok")
     ELSE \/ Finish(r, "error")
          \/ /\ runner' = [runner EXCEPT ![r].read = @ + 1]
             /\ UNCHANGED <<process, registry>>

-----------------------------------------------------------------------------
Initialize(r) ==
  LoadRuntime(r) \/ SetDevice(r) \/ Withdraw(r) \/ CreateStream(r)

Run(r) ==
  \/ Register(r) \/ LoadAcl(r) \/ OpenArtifact(r)
  \/ AclInit(r) \/ AclSetDevice(r) \/ AclCreateStream(r)
  \/ Stage(r) \/ Launch(r) \/ Synchronize(r) \/ Read(r)

-----------------------------------------------------------------------------
(* Properties.                                                             *)

\* The device is attached as often as ACL launches hold it and, once some
\* rtSetDevice has succeeded, once more: the flag never stays set after a
\* failure, and no cleanup resets a device that it did not set.  (While a
\* runner is between the exchange and the answer of rtSetDevice, the others
\* go on without a device.)
DeviceHeld ==
  LET holding == Cardinality({r \in Runner : "device" \in runner[r].acl})
      claiming == \E r \in Runner : runner[r].at \in {"claimed", "refused"}
  IN  deviceUsers = holding + IF deviceInitialized /\ ~claiming THEN 1 ELSE 0

\* ACL belongs to one launch from aclInit to aclFinalize: nobody finalizes
\* it under another launch, and whoever holds an ACL device or stream has it.
AclHasOneUser ==
  \A r \in Runner :
    /\ runner[r].acl # {} => aclUser = r
    /\ aclUser = r <=> \/ runner[r].at \in {"aclDevice", "aclStream"}
                       \/ /\ runner[r].at \in {"staging", "running", "reading"}
                          /\ runner[r].request.mix

\* Whatever stage of a launch has failed, the runner then holds its stream
\* and the libraries and nothing else; a destroyed one holds nothing.
NothingLeft ==
  \A r \in Runner :
    /\ runner[r].at \in {"idle", "absent", "unusable"} =>
         /\ runner[r].buffers = 0 /\ runner[r].acl = {}
         /\ aclUser # r /\ "artifact" \notin runner[r].opened
    /\ At(r, "absent") /\ r \notin Simulator =>
         runner[r].opened = {} /\ ~runner[r].stream

\* A cached handle points at the name it was registered under: long names
\* stay where they are, short ones must not have moved.  registerBinary
\* calls the name it hands to the runtime stableName.
StableName ==
  \A r \in Runner, f \in Function :
    \/ handles[r][f] = NoHandle
    \/ ~handles[r][f].brief
    \/ handles[r][f].storage = Storage(names[r])
=============================================================================
