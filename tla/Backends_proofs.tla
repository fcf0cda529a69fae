---------------------------- MODULE Backends_proofs ----------------------------
(***************************************************************************)
(* Proofs about Backends.tla and the runners of NativeRunner.tla, for any  *)
(* number of calls, runners and launches, and any scenario.                *)
(*                                                                         *)
(* What a runner holds is a matter of where its thread is (LaunchOK); the  *)
(* two things that runners share, the device and ACL, are then accounted   *)
(* for over all of them.  The calls are proved about one at a time: what   *)
(* is known of a call depends on its own stage, on the queue and on the    *)
(* trace file of its directory.                                            *)
(***************************************************************************)
EXTENDS Backends, TLAPS, FiniteSetTheorems

Working   == {"staging", "running", "reading"}
Library   == {"runtime", "acl", "artifact"}

Member ==
  [ at: Place, opened: SUBSET Library, stream: BOOLEAN, buffers: Nat,
    acl: SUBSET {"device", "stream"}, read: Nat,
    request: Request \cup {NoRequest}, result: {"none", "ok", "error"} ]

ProcessType ==
  /\ deviceInitialized \in BOOLEAN
  /\ deviceUsers \in Int
  /\ aclUser \in Runner \cup {NoRunner}
  /\ runner \in [Runner -> Member]

\* What a runner with the members m holds, by where its thread is.
LaunchOK(m) ==
  /\ m.at \in Launching => m.request \in Request
  /\ m.at = "unregistered" => ~m.request.mix
  /\ m.at \in {"acl", "library", "aclInit", "aclDevice", "aclStream"} => m.request.mix
  /\ m.acl = IF m.at = "aclStream" THEN {"device"}
             ELSE IF m.at \in Working /\ m.request.mix THEN {"device", "stream"}
             ELSE {}
  /\ m.at \notin Working => m.buffers = 0
  /\ "artifact" \in m.opened =>
       m.at \in {"aclInit", "aclDevice", "aclStream"} \cup Working

\* The runner with the members m is between aclInit and aclFinalize.
InAcl(m) ==
  \/ m.at \in {"aclDevice", "aclStream"}
  \/ m.at \in Working /\ m.request.mix

AclOK == \A r \in Runner : aclUser = r <=> InAcl(runner[r])

\* A real device's runner gives everything back.
GoneOK ==
  \A r \in Runner \ Simulator :
    At(r, "absent") => runner[r].opened = {} /\ ~runner[r].stream

Claiming(r) == runner[r].at \in {"claimed", "refused"}

\* The flag is up while some runner answers for it, and only one does.
ClaimOK ==
  /\ \A r \in Runner : Claiming(r) => deviceInitialized
  /\ \A r, x \in Runner : Claiming(r) /\ Claiming(x) => r = x

RunnerInv ==
  /\ ProcessType
  /\ \A r \in Runner : LaunchOK(runner[r])
  /\ AclOK /\ GoneOK /\ ClaimOK /\ DeviceHeld

\* A step of one runner.  The simulator's thread also takes note of the
\* result of a launch before it begins the next.
Collect(r) ==
  /\ At(r, "idle")
  /\ runner' = [runner EXCEPT ![r].result = "none"]
  /\ UNCHANGED <<process, registry>>

Prelude(r) == Create(r) \/ Initialize(r) \/ Destroy(r)

RunnerStep(r) ==
  Prelude(r) \/ (\E q \in Request : Begin(r, q)) \/ Run(r) \/ Collect(r)

-----------------------------------------------------------------------------
(* The record of the runner that takes the step.                           *)

\* Every step changes the members of one runner.
LEMMA OneRunner ==
  ASSUME ProcessType, NEW r \in Runner, RunnerStep(r)
  PROVE  /\ runner' = [runner EXCEPT ![r] = runner'[r]]
         /\ \A x \in Runner \ {r} : runner'[x] = runner[x]
<1>1. CASE Prelude(r)
  BY <1>1 DEF ProcessType, Prelude, Create, Initialize, LoadRuntime, SetDevice,
     Withdraw, CreateStream, Destroy, Goto
<1>2. CASE (\E q \in Request : Begin(r, q)) \/ Collect(r)
  BY <1>2 DEF ProcessType, Begin, Collect
<1>3. CASE Run(r)
  BY <1>3 DEF ProcessType, Run, Register, LoadAcl, OpenArtifact, AclInit,
     AclSetDevice, AclCreateStream, Stage, Launch, Synchronize, Read, Finish, Goto
<1>4. QED
  BY <1>1, <1>2, <1>3 DEF RunnerStep

\* The end of a launch gives everything back that the launch has taken.
LEMMA EndedOK ==
  ASSUME NEW m \in Member, LaunchOK(m), NEW result \in {"ok", "error"}
  PROVE  /\ Ended(m, result) \in Member
         /\ LaunchOK(Ended(m, result))
         /\ ~InAcl(Ended(m, result))
         /\ Ended(m, result).at = "idle"
         /\ Ended(m, result).acl = {}
  BY DEF Ended, Member, LaunchOK, InAcl, Place, Library, Working, Launching

Quiet == {"absent", "unusable", "idle"} \cup Attaching

\* Where no launch is under way, this is all there is to it.
LEMMA QuietOK ==
  ASSUME NEW m, m.at \in Quiet, m.acl = {}, m.buffers = 0, "artifact" \notin m.opened
  PROVE  LaunchOK(m) /\ ~InAcl(m)
  BY DEF LaunchOK, InAcl, Quiet, Attaching, Working, Launching

LEMMA FreshOK ==
  ASSUME NEW opened \in SUBSET {"runtime", "acl"}
  PROVE  /\ Fresh(opened) \in Member
         /\ [Fresh(opened) EXCEPT !.at = "absent"] \in Member
         /\ Fresh(opened).acl = {} /\ Fresh(opened).buffers = 0
         /\ Fresh(opened).opened = opened /\ ~Fresh(opened).stream
         /\ Fresh(opened).at = "created"
<1>1. {"created", "absent"} \subseteq Place
  BY DEF Place, Attaching
<1>2. opened \in SUBSET Library
  BY DEF Library
<1>3. QED
  BY <1>1, <1>2 DEF Fresh, Member

\* Attaching and destruction: nothing of a launch is held.
LEMMA PreludeOK ==
  ASSUME ProcessType, NEW r \in Runner, LaunchOK(runner[r]), Prelude(r)
  PROVE  /\ runner'[r] \in Member /\ LaunchOK(runner'[r])
         /\ runner[r].acl = {} /\ runner'[r].acl = {}
         /\ ~InAcl(runner[r]) /\ ~InAcl(runner'[r])
         /\ aclUser' = aclUser
<1>1. runner[r] \in Member
  BY DEF ProcessType
<1>2. runner[r].at \in Quiet
  BY DEF Prelude, Create, Initialize, LoadRuntime, SetDevice, Withdraw, CreateStream,
     Destroy, At, Quiet, Attaching
<1>3. /\ runner[r].acl = {} /\ ~InAcl(runner[r])
      /\ "artifact" \notin runner[r].opened /\ runner[r].buffers = 0
  BY <1>2 DEF LaunchOK, InAcl, Quiet, Attaching, Working
<1>4. aclUser' = aclUser
  BY DEF Prelude, Create, Initialize, LoadRuntime, SetDevice, Withdraw, CreateStream,
     Destroy, process
<1>5. runner'[r] \in Member
  <2>1. CASE Create(r)
    <3>1. runner'[r] = Fresh(runner[r].opened)
      BY <2>1 DEF Create, ProcessType
    <3>2. runner[r].opened \in SUBSET {"runtime", "acl"}
      BY <1>1, <1>3 DEF Member, Library
    <3>3. \A o \in SUBSET {"runtime", "acl"} : Fresh(o) \in Member
      BY FreshOK
    <3>4. QED
      BY <3>1, <3>2, <3>3
  <2>2. CASE Destroy(r)
    <3>1. runner'[r] = IF r \in Simulator THEN [runner[r] EXCEPT !.at = "absent"]
                       ELSE [Fresh(runner[r].opened \ {"runtime", "acl"})
                               EXCEPT !.at = "absent"]
      BY <2>2 DEF Destroy, ProcessType
    <3>2. runner[r].opened \ {"runtime", "acl"} \in SUBSET {"runtime", "acl"}
      BY <1>1, <1>3 DEF Member, Library
    <3>3. CASE r \in Simulator
      BY <1>1, <3>1, <3>3 DEF Member, Place
    <3>4. CASE r \notin Simulator
      <4>1. PICK o \in SUBSET {"runtime", "acl"} :
              runner'[r] = [Fresh(o) EXCEPT !.at = "absent"]
        BY <3>1, <3>2, <3>4
      <4>2. QED
        BY <4>1, FreshOK
    <3>5. QED
      BY <3>3, <3>4
  <2>3. CASE LoadRuntime(r)
    BY <1>1, <2>3 DEF LoadRuntime, ProcessType, Member, Place, Attaching, Library
  <2>4. CASE SetDevice(r) \/ Withdraw(r) \/ CreateStream(r)
    BY <1>1, <2>4 DEF SetDevice, Withdraw, CreateStream, Goto, ProcessType, Member,
       Place, Attaching
  <2>5. QED
    BY <2>1, <2>2, <2>3, <2>4 DEF Prelude, Initialize
<1>6. /\ runner'[r].at \in Quiet /\ runner'[r].acl = {} /\ runner'[r].buffers = 0
      /\ "artifact" \notin runner'[r].opened
  <2>1. CASE Create(r)
    <3>1. runner'[r] = Fresh(runner[r].opened)
      BY <2>1 DEF Create, ProcessType
    <3>2. QED
      BY <1>3, <3>1 DEF Fresh, Quiet, Attaching
  <2>2. CASE Destroy(r)
    <3>1. runner'[r] = IF r \in Simulator THEN [runner[r] EXCEPT !.at = "absent"]
                       ELSE [Fresh(runner[r].opened \ {"runtime", "acl"})
                               EXCEPT !.at = "absent"]
      BY <2>2 DEF Destroy, ProcessType
    <3>2. QED
      BY <1>1, <1>3, <3>1 DEF Member, Fresh, Quiet
  <2>3. CASE LoadRuntime(r)
    BY <1>1, <1>3, <2>3 DEF LoadRuntime, ProcessType, Member, Quiet, Attaching
  <2>4. CASE SetDevice(r) \/ Withdraw(r) \/ CreateStream(r)
    BY <1>1, <1>3, <2>4 DEF SetDevice, Withdraw, CreateStream, Goto, ProcessType,
       Member, Quiet, Attaching
  <2>5. QED
    BY <2>1, <2>2, <2>3, <2>4 DEF Prelude, Initialize
<1>7. QED
  BY <1>3, <1>4, <1>5, <1>6, QuietOK

-----------------------------------------------------------------------------
(* A launch.                                                               *)

\* What the end of a launch does to the process.
Ends(r) ==
  /\ runner'[r] \in {Ended(runner[r], "ok"), Ended(runner[r], "error")}
  /\ deviceUsers' = IF "device" \in runner[r].acl THEN deviceUsers - 1 ELSE deviceUsers
  /\ aclUser' = IF aclUser = r THEN NoRunner ELSE aclUser
  /\ deviceInitialized' = deviceInitialized

\* A launch goes on: nothing that is shared is taken.
GoesOn(r) ==
  /\ runner'[r].acl = runner[r].acl
  /\ InAcl(runner'[r]) <=> InAcl(runner[r])
  /\ UNCHANGED process

TakesAcl(r) ==
  /\ At(r, "aclInit") /\ aclUser = NoRunner /\ aclUser' = r
  /\ runner'[r].at = "aclDevice" /\ runner'[r].acl = runner[r].acl
  /\ UNCHANGED <<deviceInitialized, deviceUsers>>

TakesDevice(r) ==
  /\ At(r, "aclDevice") /\ runner'[r].at = "aclStream"
  /\ runner'[r].acl = runner[r].acl \cup {"device"}
  /\ deviceUsers' = deviceUsers + 1
  /\ UNCHANGED <<deviceInitialized, aclUser>>

TakesStream(r) ==
  /\ At(r, "aclStream") /\ runner'[r].at = "staging"
  /\ runner'[r].acl = runner[r].acl \cup {"stream"}
  /\ runner'[r].request = runner[r].request
  /\ UNCHANGED process

LEMMA EndsOK ==
  ASSUME ProcessType, NEW r \in Runner, NEW result \in {"ok", "error"}, Finish(r, result)
  PROVE  Ends(r)
  BY DEF ProcessType, Finish, Ends

LEMMA EndsMember ==
  ASSUME ProcessType, NEW r \in Runner, LaunchOK(runner[r]), Ends(r)
  PROVE  /\ runner'[r] \in Member /\ LaunchOK(runner'[r])
         /\ ~InAcl(runner'[r]) /\ runner'[r].acl = {}
         /\ runner'[r].at = "idle"
<1>1. runner[r] \in Member
  BY DEF ProcessType
<1>2. PICK result \in {"ok", "error"} : runner'[r] = Ended(runner[r], result)
  BY DEF Ends
<1>3. QED
  BY <1>1, <1>2, EndedOK

\* Each step of a launch ends it, or takes one of the shared things, or
\* takes nothing that is shared; and the runner's own books stay right.
LEMMA RunOK ==
  ASSUME ProcessType, NEW r \in Runner, LaunchOK(runner[r]), ~InAcl(runner[r]) => aclUser # r,
         Run(r)
  PROVE  /\ runner'[r] \in Member /\ LaunchOK(runner'[r])
         /\ runner[r].at \in Launching /\ runner'[r].at \in Launching \cup {"idle"}
         /\ Ends(r) \/ GoesOn(r) \/ TakesAcl(r) \/ TakesDevice(r) \/ TakesStream(r)
<1>1. runner[r] \in Member
  BY DEF ProcessType
<1>2. runner[r].at \in Launching
  BY DEF Run, Register, LoadAcl, OpenArtifact, AclInit, AclSetDevice, AclCreateStream,
     Stage, Launch, Synchronize, Read, At, Launching
<1>3. CASE Ends(r)
  BY <1>2, <1>3, EndsMember
<1>4. ASSUME NEW result \in {"ok", "error"}, Finish(r, result) PROVE Ends(r)
  BY <1>4, EndsOK
<1>5. CASE Register(r)
  <2>1. At(r, "unregistered")
    BY <1>5 DEF Register
  <2>2. ~InAcl(runner[r]) /\ runner[r].acl = {} /\ aclUser # r /\ ~runner[r].request.mix
    BY <2>1 DEF LaunchOK, InAcl, At, Working
  <2>3. CASE Finish(r, "error")
    BY <1>3, <1>4, <2>3
  <2>4. CASE runner' = [runner EXCEPT ![r] = Ended(@, "error")] /\ UNCHANGED process
    <3>1. Ends(r)
      BY <2>2, <2>4 DEF Ends, ProcessType, process
    <3>2. QED
      BY <1>3, <3>1
  <2>5. CASE Goto(r, "staging") /\ UNCHANGED process
    <3>1. runner'[r] = [runner[r] EXCEPT !.at = "staging"]
      BY <2>5 DEF Goto, ProcessType
    <3>2. runner'[r] \in Member
      BY <1>1, <3>1 DEF Member, Place, Launching
    <3>3. LaunchOK(runner'[r]) /\ GoesOn(r)
      BY <1>1, <2>1, <2>2, <2>5, <3>1
      DEF Member, LaunchOK, GoesOn, InAcl, At, Working, Launching
    <3>4. QED
      BY <1>1, <1>2, <3>1, <3>2, <3>3 DEF Member, Launching
  <2>6. QED
    BY <1>5, <2>3, <2>4, <2>5 DEF Register
<1>6. CASE LoadAcl(r)
  <2>1. At(r, "acl")
    BY <1>6 DEF LoadAcl
  <2>2. CASE runner' = [runner EXCEPT ![r].at = "library", ![r].opened = @ \cup {"acl"}]
             /\ UNCHANGED process
    <3>1. /\ runner'[r] = [runner[r] EXCEPT !.at = "library", !.opened = @ \cup {"acl"}]
          /\ runner[r].opened \cup {"acl"} \in SUBSET Library
          /\ "library" \in Place
      BY <1>1, <2>2 DEF ProcessType, Member, Library, Place, Launching
    <3>2. runner'[r] \in Member
      BY <1>1, <3>1 DEF Member
    <3>3. /\ runner'[r].at = "library" /\ runner'[r].acl = runner[r].acl
          /\ runner'[r].opened = runner[r].opened \cup {"acl"}
          /\ runner'[r].request = runner[r].request
          /\ runner'[r].buffers = runner[r].buffers
      BY <1>1, <3>1 DEF Member
    <3>4. LaunchOK(runner'[r]) /\ GoesOn(r)
      BY <2>1, <2>2, <3>3 DEF LaunchOK, GoesOn, InAcl, At, Working, Launching
    <3>5. QED
      BY <1>2, <3>2, <3>3, <3>4 DEF Launching
  <2>3. QED
    BY <1>3, <1>4, <1>6, <2>2 DEF LoadAcl
<1>7. CASE OpenArtifact(r)
  <2>1. At(r, "library")
    BY <1>7 DEF OpenArtifact
  <2>2. CASE runner' = [runner EXCEPT ![r].at = "aclInit", ![r].opened = @ \cup {"artifact"}]
             /\ UNCHANGED process
    <3>1. /\ runner'[r] = [runner[r] EXCEPT !.at = "aclInit", !.opened = @ \cup {"artifact"}]
          /\ runner[r].opened \cup {"artifact"} \in SUBSET Library
          /\ "aclInit" \in Place
      BY <1>1, <2>2 DEF ProcessType, Member, Library, Place, Launching
    <3>2. runner'[r] \in Member
      BY <1>1, <3>1 DEF Member
    <3>3. /\ runner'[r].at = "aclInit" /\ runner'[r].acl = runner[r].acl
          /\ runner'[r].opened = runner[r].opened \cup {"artifact"}
          /\ runner'[r].request = runner[r].request
          /\ runner'[r].buffers = runner[r].buffers
      BY <1>1, <3>1 DEF Member
    <3>4. LaunchOK(runner'[r]) /\ GoesOn(r)
      BY <2>1, <2>2, <3>3 DEF LaunchOK, GoesOn, InAcl, At, Working, Launching
    <3>5. QED
      BY <1>2, <3>2, <3>3, <3>4 DEF Launching
  <2>3. QED
    BY <1>3, <1>4, <1>7, <2>2 DEF OpenArtifact
<1>8. CASE AclInit(r)
  <2>1. At(r, "aclInit")
    BY <1>8 DEF AclInit
  <2>2. CASE /\ aclUser = NoRunner /\ aclUser' = r /\ Goto(r, "aclDevice")
             /\ UNCHANGED <<deviceInitialized, deviceUsers>>
    <3>1. runner'[r] = [runner[r] EXCEPT !.at = "aclDevice"]
      BY <2>2 DEF Goto, ProcessType
    <3>2. runner'[r] \in Member
      BY <1>1, <3>1 DEF Member, Place, Launching
    <3>3. LaunchOK(runner'[r]) /\ TakesAcl(r)
      BY <1>1, <2>1, <2>2, <3>1 DEF Member, LaunchOK, TakesAcl, At, Working, Launching
    <3>4. QED
      BY <1>1, <1>2, <3>1, <3>2, <3>3 DEF Member, Launching
  <2>3. QED
    BY <1>3, <1>4, <1>8, <2>2 DEF AclInit
<1>9. CASE AclSetDevice(r)
  <2>1. At(r, "aclDevice")
    BY <1>9 DEF AclSetDevice
  <2>2. CASE /\ deviceUsers' = deviceUsers + 1
             /\ runner' = [runner EXCEPT ![r].at = "aclStream", ![r].acl = @ \cup {"device"}]
             /\ UNCHANGED <<deviceInitialized, aclUser>>
    <3>1. /\ runner'[r] = [runner[r] EXCEPT !.at = "aclStream", !.acl = @ \cup {"device"}]
          /\ runner[r].acl \cup {"device"} \in SUBSET {"device", "stream"}
          /\ "aclStream" \in Place
      BY <1>1, <2>2 DEF ProcessType, Member, Place, Launching
    <3>2. runner'[r] \in Member
      BY <1>1, <3>1 DEF Member
    <3>3. /\ runner'[r].at = "aclStream" /\ runner'[r].acl = runner[r].acl \cup {"device"}
          /\ runner'[r].opened = runner[r].opened
          /\ runner'[r].request = runner[r].request
          /\ runner'[r].buffers = runner[r].buffers
      BY <1>1, <3>1 DEF Member
    <3>4. LaunchOK(runner'[r]) /\ TakesDevice(r)
      BY <2>1, <2>2, <3>3 DEF LaunchOK, TakesDevice, At, Working, Launching
    <3>5. QED
      BY <1>2, <3>2, <3>3, <3>4 DEF Launching
  <2>3. QED
    BY <1>3, <1>4, <1>9, <2>2 DEF AclSetDevice
<1>10. CASE AclCreateStream(r)
  <2>1. At(r, "aclStream")
    BY <1>10 DEF AclCreateStream
  <2>2. CASE /\ runner' = [runner EXCEPT ![r].at = "staging", ![r].acl = @ \cup {"stream"}]
             /\ UNCHANGED process
    <3>1. /\ runner'[r] = [runner[r] EXCEPT !.at = "staging", !.acl = @ \cup {"stream"}]
          /\ runner[r].acl \cup {"stream"} \in SUBSET {"device", "stream"}
          /\ "staging" \in Place
      BY <1>1, <2>2 DEF ProcessType, Member, Place, Launching
    <3>2. runner'[r] \in Member
      BY <1>1, <3>1 DEF Member
    <3>3. /\ runner'[r].at = "staging" /\ runner'[r].acl = runner[r].acl \cup {"stream"}
          /\ runner'[r].opened = runner[r].opened
          /\ runner'[r].request = runner[r].request
          /\ runner'[r].buffers = runner[r].buffers
      BY <1>1, <3>1 DEF Member
    <3>4. LaunchOK(runner'[r]) /\ TakesStream(r)
      BY <2>1, <2>2, <3>3 DEF LaunchOK, TakesStream, At, Working, Launching
    <3>5. QED
      BY <1>2, <3>2, <3>3, <3>4 DEF Launching
  <2>3. QED
    BY <1>3, <1>4, <1>10, <2>2 DEF AclCreateStream
<1>11. CASE Stage(r) \/ Launch(r) \/ Synchronize(r) \/ Read(r)
  <2>1. runner[r].at \in Working
    BY <1>11 DEF Stage, Launch, Synchronize, Read, At, Working
  <2>2. CASE /\ \/ runner' = [runner EXCEPT ![r].buffers = @ + 1]
                \/ runner' = [runner EXCEPT ![r].read = @ + 1]
                \/ runner' = [runner EXCEPT ![r].at = "running"]
                \/ runner' = [runner EXCEPT ![r].at = "reading"]
             /\ UNCHANGED process
    <3>1. \/ runner'[r] = [runner[r] EXCEPT !.buffers = @ + 1]
          \/ runner'[r] = [runner[r] EXCEPT !.read = @ + 1]
          \/ runner'[r] = [runner[r] EXCEPT !.at = "running"]
          \/ runner'[r] = [runner[r] EXCEPT !.at = "reading"]
      BY <2>2 DEF ProcessType
    <3>2. runner'[r] \in Member
      BY <1>1, <3>1 DEF Member, Place, Launching
    <3>3. /\ runner'[r].at \in Working /\ runner'[r].acl = runner[r].acl
          /\ runner'[r].request = runner[r].request /\ runner'[r].opened = runner[r].opened
      BY <1>1, <2>1, <3>1 DEF Member, Working
    <3>4. LaunchOK(runner'[r]) /\ GoesOn(r)
      BY <2>1, <2>2, <3>3 DEF LaunchOK, GoesOn, InAcl, Working, Launching
    <3>5. runner'[r].at \in Launching
      BY <3>3 DEF Working, Launching
    <3>6. QED
      BY <1>2, <3>2, <3>4, <3>5
  <2>3. QED
    BY <1>3, <1>4, <1>11, <2>2 DEF Stage, Launch, Synchronize, Read, Goto
<1>12. QED
  BY <1>5, <1>6, <1>7, <1>8, <1>9, <1>10, <1>11 DEF Run

\* A launch begins, or its result is noted.
LEMMA BetweenLaunchesOK ==
  ASSUME ProcessType, NEW r \in Runner, LaunchOK(runner[r]),
         (\E q \in Request : Begin(r, q)) \/ Collect(r)
  PROVE  /\ runner'[r] \in Member /\ LaunchOK(runner'[r])
         /\ GoesOn(r)
         /\ runner[r].at = "idle" /\ runner'[r].at \in Launching \cup {"idle"}
<1>1. runner[r] \in Member /\ runner[r].at = "idle"
  BY DEF ProcessType, Begin, Collect, At
<1>2. /\ runner[r].acl = {} /\ runner[r].buffers = 0
      /\ "artifact" \notin runner[r].opened /\ ~InAcl(runner[r])
  BY <1>1 DEF LaunchOK, InAcl, Working
<1>3. CASE Collect(r)
  <2>1. runner'[r] = [runner[r] EXCEPT !.result = "none"] /\ UNCHANGED process
    BY <1>3 DEF Collect, ProcessType
  <2>2. runner'[r] \in Member
    BY <1>1, <2>1 DEF Member
  <2>3. /\ runner'[r].request = runner[r].request /\ runner'[r].acl = runner[r].acl
        /\ runner'[r].buffers = runner[r].buffers /\ runner'[r].opened = runner[r].opened
        /\ runner'[r].at = "idle"
    BY <1>1, <2>1 DEF Member
  <2>4. LaunchOK(runner'[r]) /\ GoesOn(r)
    BY <1>1, <1>2, <2>1, <2>3 DEF LaunchOK, GoesOn, InAcl, Working, Launching
  <2>5. QED
    BY <1>1, <2>2, <2>3, <2>4
<1>4. ASSUME NEW q \in Request, Begin(r, q)
      PROVE  /\ runner'[r] \in Member /\ LaunchOK(runner'[r]) /\ GoesOn(r)
             /\ runner'[r].at \in Launching
  <2>1. q.mix \in BOOLEAN /\ UNCHANGED process
    BY <1>4, RequestAssumption DEF Begin, RequestShape
  <2>2. \/ /\ q.mix
           /\ runner'[r] = [runner[r] EXCEPT !.request = q, !.result = "none",
                                             !.at = "acl"]
        \/ /\ ~q.mix
           /\ \/ runner'[r] = [runner[r] EXCEPT !.request = q, !.result = "none",
                                                !.at = "unregistered"]
              \/ runner'[r] = [runner[r] EXCEPT !.request = q, !.result = "none",
                                                !.at = "staging"]
    BY <1>4, <2>1 DEF Begin, ProcessType
  <2>3. {"acl", "unregistered", "staging"} \subseteq Place
    BY DEF Place, Launching
  <2>4. runner'[r] \in Member
    BY <1>1, <2>2, <2>3 DEF Member
  <2>5. /\ runner'[r].request = q /\ runner'[r].acl = runner[r].acl
        /\ runner'[r].buffers = runner[r].buffers /\ runner'[r].opened = runner[r].opened
        /\ \/ q.mix /\ runner'[r].at = "acl"
           \/ ~q.mix /\ runner'[r].at \in {"unregistered", "staging"}
    BY <1>1, <2>2 DEF Member
  <2>6. LaunchOK(runner'[r])
    BY <1>2, <2>5 DEF LaunchOK, Working
  <2>7. ~InAcl(runner'[r])
    BY <2>1, <2>5 DEF InAcl, Working
  <2>8. GoesOn(r)
    BY <1>2, <2>1, <2>5, <2>7 DEF GoesOn
  <2>9. QED
    BY <2>4, <2>5, <2>6, <2>8 DEF Launching
<1>5. QED
  BY <1>1, <1>3, <1>4

-----------------------------------------------------------------------------
(* What runners share.                                                     *)

HoldingDevice == {r \in Runner : "device" \in runner[r].acl}

LEMMA HoldingFinite == IsFiniteSet(HoldingDevice) /\ IsFiniteSet(HoldingDevice')
  BY RunnerAssumption, FS_Subset DEF HoldingDevice

\* One runner's step changes who holds the device by that runner.
LEMMA HoldingStep ==
  ASSUME ProcessType, NEW r \in Runner, \A x \in Runner \ {r} : runner'[x] = runner[x]
  PROVE  Cardinality(HoldingDevice') =
           Cardinality(HoldingDevice)
             + (IF "device" \in runner'[r].acl THEN 1 ELSE 0)
             - (IF "device" \in runner[r].acl THEN 1 ELSE 0)
<1>1. HoldingDevice \ {r} = HoldingDevice' \ {r}
  BY DEF HoldingDevice
<1>2. Cardinality(HoldingDevice) \in Nat /\ Cardinality(HoldingDevice') \in Nat
  BY HoldingFinite, FS_CardinalityType
<1>3. CASE "device" \in runner[r].acl /\ "device" \in runner'[r].acl
  <2>1. HoldingDevice' = HoldingDevice
    BY <1>1, <1>3 DEF HoldingDevice
  <2>2. QED
    BY <1>2, <1>3, <2>1
<1>4. CASE "device" \in runner[r].acl /\ "device" \notin runner'[r].acl
  <2>1. HoldingDevice' = HoldingDevice \ {r} /\ r \in HoldingDevice
    BY <1>1, <1>4 DEF HoldingDevice
  <2>2. QED
    BY <1>2, <1>4, <2>1, HoldingFinite, FS_RemoveElement
<1>5. CASE "device" \notin runner[r].acl /\ "device" \in runner'[r].acl
  <2>1. HoldingDevice' = HoldingDevice \cup {r} /\ r \notin HoldingDevice
    BY <1>1, <1>5 DEF HoldingDevice
  <2>2. QED
    BY <1>2, <1>5, <2>1, HoldingFinite, FS_AddElement
<1>6. CASE "device" \notin runner[r].acl /\ "device" \notin runner'[r].acl
  <2>1. HoldingDevice' = HoldingDevice
    BY <1>1, <1>6 DEF HoldingDevice
  <2>2. QED
    BY <1>2, <1>6, <2>1
<1>7. QED
  BY <1>3, <1>4, <1>5, <1>6

\* The runner that answers for the flag, if there is one.
FlagCounts == deviceInitialized /\ ~\E r \in Runner : Claiming(r)

LEMMA DeviceHeldMeans ==
  DeviceHeld <=> deviceUsers = Cardinality(HoldingDevice) + IF FlagCounts THEN 1 ELSE 0
  BY DEF DeviceHeld, HoldingDevice, FlagCounts, Claiming

\* What a step does to the flag and to the device.
LEMMA FlagStep ==
  ASSUME RunnerInv, NEW r \in Runner, Prelude(r)
  PROVE  /\ deviceInitialized' \in BOOLEAN /\ deviceUsers' \in Int
         /\ ClaimOK'
         /\ deviceUsers' - (IF FlagCounts' THEN 1 ELSE 0)
              = deviceUsers - (IF FlagCounts THEN 1 ELSE 0)
<1>1. /\ runner \in [Runner -> Member] /\ deviceInitialized \in BOOLEAN
      /\ deviceUsers \in Int /\ ClaimOK
  BY DEF RunnerInv, ProcessType
<1>2. \A x \in Runner \ {r} : Claiming(x)' <=> Claiming(x)
  BY OneRunner DEF RunnerInv, RunnerStep, Claiming
<1>3. CASE /\ deviceInitialized' = deviceInitialized /\ deviceUsers' = deviceUsers
           /\ Claiming(r)' <=> Claiming(r)
  <2>1. ClaimOK' /\ (FlagCounts' <=> FlagCounts)
    BY <1>1, <1>2, <1>3 DEF ClaimOK, FlagCounts
  <2>2. QED
    BY <1>1, <1>3, <2>1
<1>4. CASE Create(r)
  <2>1. runner[r].at = "absent" /\ runner'[r].at = "created"
    BY <1>1, <1>4 DEF Create, Fresh, At
  <2>2. QED
    BY <1>3, <1>4, <2>1 DEF Create, process, Claiming
<1>5. CASE Destroy(r)
  <2>1. runner[r].at \in {"idle", "unusable"} /\ runner'[r].at = "absent"
    BY <1>1, <1>5 DEF Destroy, Fresh, Member
  <2>2. QED
    BY <1>3, <1>5, <2>1 DEF Destroy, process, Claiming
<1>6. CASE CreateStream(r)
  <2>1. runner[r].at = "attached" /\ runner'[r].at \in {"idle", "unusable"}
    BY <1>1, <1>6 DEF CreateStream, At, Goto, Member
  <2>2. QED
    BY <1>3, <1>6, <2>1 DEF CreateStream, process, Claiming
<1>7. CASE LoadRuntime(r)
  <2>1. ~Claiming(r) /\ deviceUsers' = deviceUsers
    BY <1>7 DEF LoadRuntime, At, Claiming
  <2>2. CASE runner'[r].at = "unusable" /\ deviceInitialized' = deviceInitialized
    BY <1>3, <2>1, <2>2 DEF Claiming
  <2>3. CASE runner'[r].at = "attached" /\ deviceInitialized /\ deviceInitialized'
    BY <1>1, <1>3, <2>1, <2>3 DEF Claiming
  <2>4. CASE runner'[r].at = "claimed" /\ ~deviceInitialized /\ deviceInitialized' = TRUE
    <3>1. Claiming(r)' /\ \A x \in Runner \ {r} : ~Claiming(x) /\ ~Claiming(x)'
      BY <1>1, <1>2, <2>4 DEF Claiming, ClaimOK
    <3>2. ClaimOK' /\ ~FlagCounts /\ ~FlagCounts'
      BY <2>4, <3>1 DEF ClaimOK, FlagCounts
    <3>3. QED
      BY <1>1, <2>1, <2>4, <3>2
  <2>5. \/ /\ runner'[r] = [runner[r] EXCEPT !.at = "unusable"]
           /\ deviceInitialized' = deviceInitialized
        \/ /\ runner'[r] = [runner[r] EXCEPT !.at = "unusable", !.opened = @ \cup {"runtime"}]
           /\ deviceInitialized' = deviceInitialized
        \/ /\ runner'[r] = [runner[r] EXCEPT
                               !.at = IF deviceInitialized THEN "attached" ELSE "claimed",
                               !.opened = @ \cup {"runtime"}]
           /\ deviceInitialized' = TRUE
    BY <1>1, <1>7 DEF LoadRuntime
  <2>6. runner[r] \in Member
    BY <1>1
  <2>7. \/ runner'[r].at = "unusable" /\ deviceInitialized' = deviceInitialized
        \/ /\ runner'[r].at = IF deviceInitialized THEN "attached" ELSE "claimed"
           /\ deviceInitialized' = TRUE
    BY <2>5, <2>6 DEF Member
  <2>8. QED
    BY <1>1, <2>2, <2>3, <2>4, <2>7
<1>8. CASE SetDevice(r)
  <2>1. Claiming(r) /\ deviceInitialized' = deviceInitialized /\ deviceInitialized
    BY <1>1, <1>8 DEF SetDevice, At, Claiming, ClaimOK
  <2>2. CASE runner'[r].at = "refused" /\ deviceUsers' = deviceUsers
    BY <1>3, <2>1, <2>2 DEF Claiming
  <2>3. CASE runner'[r].at = "attached" /\ deviceUsers' = deviceUsers + 1
    <3>1. \A x \in Runner : ~Claiming(x)'
      BY <1>1, <1>2, <2>1, <2>3 DEF Claiming, ClaimOK
    <3>2. ClaimOK' /\ ~FlagCounts /\ FlagCounts'
      BY <2>1, <3>1 DEF ClaimOK, FlagCounts
    <3>3. QED
      BY <1>1, <2>1, <2>3, <3>2
  <2>4. QED
    BY <1>1, <1>8, <2>2, <2>3 DEF SetDevice, Goto, Member
<1>9. CASE Withdraw(r)
  <2>1. /\ Claiming(r) /\ deviceInitialized' = FALSE /\ deviceUsers' = deviceUsers
        /\ runner'[r].at = "unusable"
    BY <1>1, <1>9 DEF Withdraw, At, Goto, Claiming, Member
  <2>2. \A x \in Runner : ~Claiming(x)'
    BY <1>1, <1>2, <2>1 DEF Claiming, ClaimOK
  <2>3. ClaimOK' /\ ~FlagCounts /\ ~FlagCounts'
    BY <2>1, <2>2 DEF ClaimOK, FlagCounts
  <2>4. QED
    BY <1>1, <2>1, <2>3
<1>10. QED
  BY <1>4, <1>5, <1>6, <1>7, <1>8, <1>9 DEF Prelude, Initialize

\* A launch and what comes between launches leave the flag alone.
LEMMA FlagAlone ==
  ASSUME RunnerInv, NEW r \in Runner, \A x \in Runner \ {r} : runner'[x] = runner[x],
         runner[r].at \in Launching \cup {"idle"}, runner'[r].at \in Launching \cup {"idle"},
         deviceInitialized' = deviceInitialized
  PROVE  ClaimOK' /\ (FlagCounts' <=> FlagCounts)
<1>1. ~Claiming(r) /\ ~Claiming(r)'
  BY DEF Claiming, Launching
<1>2. \A x \in Runner \ {r} : Claiming(x)' <=> Claiming(x)
  BY DEF Claiming
<1>3. QED
  BY <1>1, <1>2 DEF RunnerInv, ClaimOK, FlagCounts

\* The device is accounted for when one runner's books and the counter agree.
LEMMA DeviceStep ==
  ASSUME RunnerInv, NEW r \in Runner, \A x \in Runner \ {r} : runner'[x] = runner[x],
         deviceUsers' \in Int,
         deviceUsers' - (IF FlagCounts' THEN 1 ELSE 0)
             - (IF "device" \in runner'[r].acl THEN 1 ELSE 0)
           = deviceUsers - (IF FlagCounts THEN 1 ELSE 0)
               - (IF "device" \in runner[r].acl THEN 1 ELSE 0)
  PROVE  DeviceHeld'
<1>1. deviceUsers = Cardinality(HoldingDevice) + IF FlagCounts THEN 1 ELSE 0
  BY DeviceHeldMeans DEF RunnerInv
<1>2. Cardinality(HoldingDevice) \in Nat /\ Cardinality(HoldingDevice') \in Nat
  BY HoldingFinite, FS_CardinalityType
<1>3. Cardinality(HoldingDevice') =
         Cardinality(HoldingDevice)
           + (IF "device" \in runner'[r].acl THEN 1 ELSE 0)
           - (IF "device" \in runner[r].acl THEN 1 ELSE 0)
  BY HoldingStep DEF RunnerInv
<1>4. deviceUsers \in Int
  BY DEF RunnerInv, ProcessType
<1>5. deviceUsers' = Cardinality(HoldingDevice') + IF FlagCounts' THEN 1 ELSE 0
  BY <1>1, <1>2, <1>3, <1>4
<1>6. QED
  BY <1>5 DEF DeviceHeld, HoldingDevice, FlagCounts, Claiming

\* What the step of one runner has to establish for it to be a good step.
GoodStep(r) ==
  /\ runner'[r] \in Member /\ LaunchOK(runner'[r])
  /\ deviceInitialized' \in BOOLEAN /\ deviceUsers' \in Int
  /\ aclUser' \in Runner \cup {NoRunner}
  /\ \A x \in Runner : aclUser' = x <=> InAcl(runner'[x])
  /\ ClaimOK' /\ DeviceHeld'
  /\ r \notin Simulator /\ runner'[r].at = "absent" =>
       runner'[r].opened = {} /\ ~runner'[r].stream

LEMMA PreludeGood ==
  ASSUME RunnerInv, NEW r \in Runner, Prelude(r)
  PROVE  GoodStep(r)
<1>1. ProcessType /\ LaunchOK(runner[r]) /\ \A x \in Runner \ {r} : runner'[x] = runner[x]
  BY OneRunner DEF RunnerInv, RunnerStep
<1>2. /\ runner'[r] \in Member /\ LaunchOK(runner'[r])
      /\ runner[r].acl = {} /\ runner'[r].acl = {}
      /\ ~InAcl(runner[r]) /\ ~InAcl(runner'[r])
      /\ aclUser' = aclUser
  BY <1>1, PreludeOK
<1>3. \A x \in Runner : aclUser' = x <=> InAcl(runner'[x])
  BY <1>1, <1>2 DEF RunnerInv, AclOK
<1>4. /\ deviceInitialized' \in BOOLEAN /\ deviceUsers' \in Int /\ ClaimOK'
      /\ deviceUsers' - (IF FlagCounts' THEN 1 ELSE 0)
           = deviceUsers - (IF FlagCounts THEN 1 ELSE 0)
  BY FlagStep
<1>5. DeviceHeld'
  BY <1>1, <1>2, <1>4, DeviceStep DEF ProcessType
<1>6. ASSUME r \notin Simulator, runner'[r].at = "absent"
      PROVE  runner'[r].opened = {} /\ ~runner'[r].stream
  <2>1. runner[r] \in Member
    BY <1>1 DEF ProcessType
  <2>2. CASE Destroy(r)
    <3>1. runner'[r] = [Fresh(runner[r].opened \ {"runtime", "acl"}) EXCEPT !.at = "absent"]
      BY <1>1, <1>6, <2>2 DEF Destroy, ProcessType
    <3>2. runner[r].opened \subseteq {"runtime", "acl"}
      <4>1. runner[r].at \in {"idle", "unusable"}
        BY <2>2 DEF Destroy
      <4>2. "artifact" \notin runner[r].opened
        BY <1>1, <4>1 DEF LaunchOK, Working
      <4>3. QED
        BY <2>1, <4>2 DEF Member, Library
    <3>3. QED
      BY <3>1, <3>2 DEF Fresh
  <2>3. CASE Create(r)
    BY <1>1, <1>6, <2>3 DEF Create, Fresh, ProcessType
  <2>4. CASE LoadRuntime(r) \/ SetDevice(r) \/ Withdraw(r) \/ CreateStream(r)
    <3>1. runner'[r].at # "absent"
      BY <1>1, <2>1, <2>4 DEF LoadRuntime, SetDevice, Withdraw, CreateStream, Goto,
         ProcessType, Member
    <3>2. QED
      BY <1>6, <3>1
  <2>5. QED
    BY <2>2, <2>3, <2>4 DEF Prelude, Initialize
<1>7. aclUser' \in Runner \cup {NoRunner}
  BY <1>1, <1>2 DEF ProcessType
<1>8. QED
  BY <1>2, <1>3, <1>4, <1>5, <1>6, <1>7 DEF GoodStep

LEMMA LaunchGood ==
  ASSUME RunnerInv, NEW r \in Runner,
         Run(r) \/ (\E q \in Request : Begin(r, q)) \/ Collect(r)
  PROVE  GoodStep(r)
<1>1. /\ ProcessType /\ LaunchOK(runner[r]) /\ runner[r] \in Member
      /\ \A x \in Runner \ {r} : runner'[x] = runner[x]
      /\ AclOK
  BY OneRunner DEF RunnerInv, RunnerStep, ProcessType
<1>2. /\ runner'[r] \in Member /\ LaunchOK(runner'[r])
      /\ runner[r].at \in Launching \cup {"idle"}
      /\ runner'[r].at \in Launching \cup {"idle"}
      /\ Ends(r) \/ GoesOn(r) \/ TakesAcl(r) \/ TakesDevice(r) \/ TakesStream(r)
  <2>1. CASE Run(r)
    <3>1. ~InAcl(runner[r]) => aclUser # r
      BY <1>1 DEF AclOK
    <3>2. QED
      BY <1>1, <2>1, <3>1, RunOK
  <2>2. CASE (\E q \in Request : Begin(r, q)) \/ Collect(r)
    BY <1>1, <2>2, BetweenLaunchesOK
  <2>3. QED
    BY <2>1, <2>2
<1>3. deviceInitialized' = deviceInitialized
  BY <1>2 DEF Ends, GoesOn, TakesAcl, TakesDevice, TakesStream, process
<1>4. ClaimOK' /\ (FlagCounts' <=> FlagCounts)
  BY <1>1, <1>2, <1>3, FlagAlone
<1>5. r # NoRunner /\ deviceUsers \in Int
  BY <1>1, RunnerAssumption DEF ProcessType
<1>6. /\ deviceUsers' \in Int
      /\ deviceUsers' - (IF "device" \in runner'[r].acl THEN 1 ELSE 0)
           = deviceUsers - (IF "device" \in runner[r].acl THEN 1 ELSE 0)
      /\ aclUser' \in Runner \cup {NoRunner}
      /\ aclUser' = r <=> InAcl(runner'[r])
      /\ \A x \in Runner \ {r} : aclUser' = x <=> aclUser = x
  <2>1. aclUser = r <=> InAcl(runner[r])
    BY <1>1 DEF AclOK
  <2>2. CASE Ends(r)
    <3>1. ~InAcl(runner'[r]) /\ runner'[r].acl = {}
      BY <1>1, <2>2, EndsMember
    <3>2. QED
      BY <1>1, <1>5, <2>1, <2>2, <3>1, RunnerAssumption DEF Ends, ProcessType
  <2>3. CASE GoesOn(r)
    BY <1>1, <1>5, <2>1, <2>3 DEF GoesOn, process, ProcessType
  <2>4. CASE TakesAcl(r)
    <3>1. InAcl(runner'[r])
      BY <2>4 DEF TakesAcl, InAcl
    <3>2. QED
      BY <1>1, <1>5, <2>4, <3>1, RunnerAssumption DEF TakesAcl, ProcessType
  <2>5. CASE TakesDevice(r)
    <3>1. /\ InAcl(runner[r]) /\ InAcl(runner'[r])
          /\ "device" \notin runner[r].acl /\ "device" \in runner'[r].acl
      BY <1>1, <2>5 DEF TakesDevice, InAcl, LaunchOK, At, Working
    <3>2. QED
      BY <1>1, <1>5, <2>1, <2>5, <3>1 DEF TakesDevice, ProcessType
  <2>6. CASE TakesStream(r)
    <3>1. InAcl(runner[r]) /\ InAcl(runner'[r])
      BY <1>1, <2>6 DEF TakesStream, InAcl, LaunchOK, At, Working
    <3>2. "device" \in runner'[r].acl <=> "device" \in runner[r].acl
      BY <2>6 DEF TakesStream
    <3>3. QED
      BY <1>1, <1>5, <2>1, <2>6, <3>1, <3>2 DEF TakesStream, process, ProcessType
  <2>7. QED
    BY <1>2, <2>2, <2>3, <2>4, <2>5, <2>6
<1>7. \A x \in Runner : aclUser' = x <=> InAcl(runner'[x])
  BY <1>1, <1>6 DEF AclOK
<1>8. DeviceHeld'
  <2>1. PICK before \in Int, after \in Int, n \in Int, m \in Int, k \in Int :
          /\ before = deviceUsers /\ after = deviceUsers'
          /\ n = IF FlagCounts THEN 1 ELSE 0
          /\ n = IF FlagCounts' THEN 1 ELSE 0
          /\ m = IF "device" \in runner[r].acl THEN 1 ELSE 0
          /\ k = IF "device" \in runner'[r].acl THEN 1 ELSE 0
    BY <1>4, <1>5, <1>6
  <2>2. after - k = before - m
    BY <1>6, <2>1
  <2>3. after - n - k = before - n - m
    BY <2>2
  <2>4. QED
    BY <1>1, <1>6, <2>1, <2>3, DeviceStep
<1>9. deviceInitialized' \in BOOLEAN
  BY <1>1, <1>3 DEF ProcessType
<1>10. runner'[r].at # "absent"
  BY <1>2 DEF Launching
<1>11. QED
  BY <1>2, <1>4, <1>6, <1>7, <1>8, <1>9, <1>10 DEF GoodStep

LEMMA RunnerStepKeeps ==
  ASSUME RunnerInv, NEW r \in Runner, RunnerStep(r)
  PROVE  RunnerInv'
<1>1. GoodStep(r)
  BY PreludeGood, LaunchGood DEF RunnerStep
<1>2. /\ runner' = [runner EXCEPT ![r] = runner'[r]]
      /\ \A x \in Runner \ {r} : runner'[x] = runner[x]
  BY OneRunner DEF RunnerInv
<1>3. ProcessType'
  BY <1>1, <1>2 DEF RunnerInv, ProcessType, GoodStep
<1>4. \A x \in Runner : LaunchOK(runner[x])'
  <2>1. LaunchOK(runner[r])'
    BY <1>1 DEF GoodStep, LaunchOK
  <2>2. ASSUME NEW x \in Runner \ {r} PROVE LaunchOK(runner[x])'
    <3>1. LaunchOK(runner[x]) /\ runner'[x] = runner[x]
      BY <1>2 DEF RunnerInv
    <3>2. QED
      BY <3>1 DEF LaunchOK
  <2>3. QED
    BY <2>1, <2>2
<1>5. AclOK'
  BY <1>1 DEF GoodStep, AclOK, InAcl
<1>6. GoneOK'
  BY <1>1, <1>2 DEF RunnerInv, GoneOK, GoodStep, At
<1>7. QED
  BY <1>1, <1>3, <1>4, <1>5, <1>6 DEF RunnerInv, GoodStep

LEMMA RunnerInitOK == RunnerInit => RunnerInv
<1> SUFFICES ASSUME RunnerInit PROVE RunnerInv
  OBVIOUS
<1> DEFINE gone == [Fresh({}) EXCEPT !.at = "absent"]
<1>1. /\ runner = [r \in Runner |-> gone] /\ deviceInitialized = FALSE
      /\ deviceUsers = 0 /\ aclUser = NoRunner
  BY DEF RunnerInit
<1>2. /\ gone \in Member /\ gone.at = "absent" /\ gone.acl = {} /\ gone.buffers = 0
      /\ gone.opened = {} /\ ~gone.stream
  <2>1. \A o \in SUBSET {"runtime", "acl"} : [Fresh(o) EXCEPT !.at = "absent"] \in Member
    BY FreshOK
  <2>2. QED
    BY <2>1 DEF Fresh
<1> HIDE DEF gone
<1>3. LaunchOK(gone) /\ ~InAcl(gone)
  BY <1>2 DEF LaunchOK, InAcl, Working, Launching
<1>4. \A r \in Runner : runner[r] = gone /\ r # NoRunner
  BY <1>1, RunnerAssumption
<1>5. ProcessType
  <2>1. runner \in [Runner -> Member]
    BY <1>1, <1>2
  <2>2. deviceInitialized \in BOOLEAN
    BY <1>1, Zenon
  <2>3. QED
    BY <1>1, <2>1, <2>2 DEF ProcessType
<1>6. HoldingDevice = {}
  BY <1>2, <1>4 DEF HoldingDevice
<1>7. DeviceHeld
  BY <1>1, <1>6, FS_EmptySet, DeviceHeldMeans DEF FlagCounts
<1>8. AclOK /\ GoneOK /\ ClaimOK
  BY <1>1, <1>2, <1>3, <1>4 DEF AclOK, GoneOK, ClaimOK, Claiming, At
<1>9. QED
  BY <1>3, <1>4, <1>5, <1>7, <1>8 DEF RunnerInv

-----------------------------------------------------------------------------
(* The calls.                                                              *)

StageName == {"called", "queued", "initializing", "launching", "launched",
              "validated", "profiling", "tracing", "returned"}
ErrorName == {"none", "unstaged", "driver", "artifact", "bindings", "validate",
              "write_outputs", "profiling", "kernel_launch", "executor_initialize"}

BackType ==
  /\ asked \in Scenario
  /\ stage \in [Called -> StageName]
  /\ failure \in [Called -> ErrorName]
  /\ workQueue \in Seq(Called)
  /\ serving \in Called \cup {NoRunner}
  /\ trace \in [Directory -> SUBSET Called]
  /\ saved \subseteq Called

\* Each backend has stages of its own, and a call that has a driver no others
\* than the first and the last.
StageOK(t) ==
  /\ stage[t] \in {"initializing", "launching"} => asked[t].npu
  /\ stage[t] \in {"queued", "profiling", "tracing"} => ~asked[t].npu
  /\ asked[t].driver => stage[t] \in {"called", "returned"}
  /\ stage[t] # "returned" => failure[t] = "none"

\* Outputs are saved before the traces are written, and nothing but the
\* traces can fail after that.
SavedOK(t) ==
  ~asked[t].driver =>
    /\ stage[t] \in {"profiling", "tracing"} => t \in saved /\ asked[t].profiling
    /\ stage[t] = "returned" /\ failure[t] = "none" => t \in saved
    /\ t \in saved => /\ stage[t] \in {"profiling", "tracing", "returned"}
                      /\ failure[t] \in {"none", "profiling"}

\* Why a call is refused, if it is.
RefusalOK(t) ==
  ~asked[t].driver =>
    /\ asked[t].npu /\ ~asked[t].complete =>
         stage[t] = "called" \/ failure[t] = "artifact"
    /\ asked[t].npu /\ asked[t].complete /\ ~NpuAccepts(asked[t].bindings) =>
         stage[t] = "called" \/ failure[t] = "bindings"
    /\ ~asked[t].npu /\ failure[t] = "bindings" =>
         asked[t].complete /\ ~SimAccepts(asked[t].bindings)
    /\ ~asked[t].npu /\ failure[t] = "artifact" /\ ~asked[t].launch.mix =>
         ~asked[t].complete

\* The trace file of a directory in which only one call is profiled.
TraceOK(t) ==
  (/\ ~asked[t].driver /\ ~asked[t].npu /\ asked[t].profiling
   /\ \A u \in Called \ {t} :
        asked[u].profiling => asked[u].directory # asked[t].directory)
  => /\ stage[t] = "tracing" => trace[asked[t].directory] = {}
     /\ stage[t] = "returned" /\ failure[t] = "none" =>
          trace[asked[t].directory] = {t}

CallOK(t) == StageOK(t) /\ SavedOK(t) /\ RefusalOK(t) /\ TraceOK(t)

BackInv ==
  /\ BackType
  /\ FuturesMatch
  /\ \A t \in Called : CallOK(t)

\* What the scenarios ask for, of each call.
LEMMA AskedShape ==
  ASSUME BackType, NEW t \in Called
  PROVE  /\ asked[t].npu \in BOOLEAN /\ asked[t].driver \in BOOLEAN
         /\ asked[t].complete \in BOOLEAN /\ asked[t].profiling \in BOOLEAN
         /\ asked[t].launch \in Request /\ asked[t].launch.mix \in BOOLEAN
         /\ asked[t].npu => t \in Runner
         /\ t \in Task /\ t # NoRunner
         /\ asked[t].directory \in Directory
<1>1. t \in Task /\ TaskShape(t, asked[t])
  BY TaskAssumption DEF BackType, Called
<1>2. RequestShape(asked[t].launch)
  BY <1>1, RequestAssumption DEF TaskShape
<1>3. asked[t].directory \in Directory
  BY DEF Directory
<1>4. QED
  BY <1>1, <1>2, <1>3, TaskAssumption DEF TaskShape, RequestShape

\* A call moves on, or returns with an error.
Moves(t, to, name) ==
  /\ UNCHANGED asked
  /\ stage' = [stage EXCEPT ![t] = to]
  /\ failure' = [failure EXCEPT ![t] = name]

LEMMA MovesType ==
  ASSUME BackType, NEW t \in Called, NEW to \in StageName, NEW name \in ErrorName,
         Moves(t, to, name)
  PROVE  /\ asked' = asked /\ Called' = Called /\ Directory' = Directory
         /\ stage' \in [Called -> StageName] /\ failure' \in [Called -> ErrorName]
         /\ stage'[t] = to /\ failure'[t] = name
         /\ \A u \in Called \ {t} : stage'[u] = stage[u] /\ failure'[u] = failure[u]
<1>1. asked' = asked
  BY DEF Moves
<1>2. Called' = Called /\ Directory' = Directory
  BY <1>1 DEF Called, Directory
<1>3. QED
  BY <1>1, <1>2 DEF Moves, BackType

LEMMA AdvanceMoves ==
  ASSUME BackType, NEW t \in Called, NEW to \in StageName, Advance(t, to), UNCHANGED asked
  PROVE  Moves(t, to, failure[t])
  BY DEF Advance, Moves, BackType

LEMMA FailMoves ==
  ASSUME NEW t \in Called, NEW name \in ErrorName, Fail(t, name), UNCHANGED asked
  PROVE  Moves(t, "returned", name)
  BY DEF Fail, Moves

\* Of the other calls nothing has to be shown but the trace of theirs.
LEMMA OtherCall ==
  ASSUME NEW u, CallOK(u), asked' = asked, stage'[u] = stage[u], failure'[u] = failure[u],
         u \in saved' <=> u \in saved,
         TraceOK(u)'
  PROVE  CallOK(u)'
  BY DEF CallOK, StageOK, SavedOK, RefusalOK

LEMMA OtherTrace ==
  ASSUME NEW u, TraceOK(u), asked' = asked, Called' = Called,
         stage'[u] = stage[u], failure'[u] = failure[u],
         trace'[asked[u].directory] = trace[asked[u].directory]
  PROVE  TraceOK(u)'
  BY DEF TraceOK

\* A step that moves one call and leaves the traces alone is a good step if
\* that call is all right afterwards.
LEMMA MoveKeeps ==
  ASSUME BackInv, NEW t \in Called, NEW to \in StageName, NEW name \in ErrorName,
         Moves(t, to, name), UNCHANGED trace,
         \A u \in Called \ {t} : u \in saved' <=> u \in saved,
         StageOK(t)', SavedOK(t)', RefusalOK(t)', TraceOK(t)'
  PROVE  \A u \in Called' : CallOK(u)'
<1>1. /\ asked' = asked /\ Called' = Called
      /\ \A u \in Called \ {t} : stage'[u] = stage[u] /\ failure'[u] = failure[u]
  BY MovesType DEF BackInv
<1>2. ASSUME NEW u \in Called \ {t} PROVE CallOK(u)'
  <2>1. CallOK(u) /\ stage'[u] = stage[u] /\ failure'[u] = failure[u]
    BY <1>1 DEF BackInv
  <2>2. TraceOK(u)'
    BY <1>1, <2>1, OtherTrace DEF CallOK
  <2>3. QED
    BY <1>1, <2>1, <2>2, OtherCall
<1>3. QED
  BY <1>1, <1>2 DEF CallOK

LEMMA QueueSame ==
  ASSUME BackInv, NEW t \in Called, NEW to \in StageName, NEW name \in ErrorName,
         Moves(t, to, name), UNCHANGED <<workQueue, serving>>,
         stage[t] # "queued", to # "queued"
  PROVE  FuturesMatch'
<1>1. /\ Called' = Called /\ stage'[t] = to
      /\ \A u \in Called \ {t} : stage'[u] = stage[u]
  BY MovesType DEF BackInv
<1>2. {u \in Called' : stage'[u] = "queued"} = {u \in Called : stage[u] = "queued"}
  BY <1>1
<1>3. QED
  BY <1>2 DEF BackInv, FuturesMatch

LEMMA MoveType ==
  ASSUME BackInv, NEW t \in Called, NEW to \in StageName, NEW name \in ErrorName,
         Moves(t, to, name), UNCHANGED <<workQueue, serving>>,
         trace' \in [Directory -> SUBSET Called], saved' \subseteq Called
  PROVE  BackType'
  BY MovesType DEF BackInv, BackType

\* A step of a call that has nothing to do with the queue or the traces.
LEMMA PlainMove ==
  ASSUME BackInv, NEW t \in Called, NEW to \in StageName, NEW name \in ErrorName,
         Moves(t, to, name), UNCHANGED <<queue, trace>>,
         stage[t] # "queued", to # "queued",
         saved' = saved \/ saved' = saved \cup {t},
         StageOK(t)', SavedOK(t)', RefusalOK(t)', TraceOK(t)'
  PROVE  BackInv'
<1>1. BackType /\ UNCHANGED <<workQueue, serving, trace>>
  BY DEF BackInv, queue
<1>2. BackType'
  BY <1>1, MoveType DEF BackType
<1>3. FuturesMatch'
  BY <1>1, QueueSame
<1>4. \A u \in Called' : CallOK(u)'
  BY <1>1, MoveKeeps
<1>5. QED
  BY <1>2, <1>3, <1>4 DEF BackInv

LEMMA DriverKeeps ==
  ASSUME BackInv, NEW t \in Called, RunDriver(t)
  PROVE  BackInv'
<1>1. BackType /\ CallOK(t) /\ UNCHANGED <<asked, queue, trace, saved>>
  BY DEF BackInv, RunDriver, files
<1>2. stage[t] = "called" /\ asked[t].driver
  BY DEF RunDriver
<1>3. \E name \in ErrorName : Moves(t, "returned", name)
  <2>1. {"none", "bindings", "driver", "unstaged"} \subseteq ErrorName /\ "returned" \in StageName
    BY DEF ErrorName, StageName
  <2>2. failure[t] \in ErrorName
    BY <1>1 DEF BackType
  <2>3. \/ Fail(t, "bindings") \/ Fail(t, "driver") \/ Fail(t, "unstaged")
        \/ Advance(t, "returned")
    BY DEF RunDriver
  <2>4. CASE Advance(t, "returned")
    BY <1>1, <2>1, <2>2, <2>4, AdvanceMoves
  <2>5. CASE Fail(t, "bindings") \/ Fail(t, "driver") \/ Fail(t, "unstaged")
    BY <1>1, <2>1, <2>5, FailMoves
  <2>6. QED
    BY <2>3, <2>4, <2>5
<1>4. PICK name \in ErrorName : Moves(t, "returned", name)
  BY <1>3
<1>5. stage'[t] = "returned" /\ failure'[t] = name /\ asked' = asked
  BY <1>1, <1>4, MovesType DEF StageName
<1>6. StageOK(t)' /\ SavedOK(t)' /\ RefusalOK(t)' /\ TraceOK(t)'
  BY <1>2, <1>5 DEF StageOK, SavedOK, RefusalOK, TraceOK
<1>7. QED
  BY <1>1, <1>2, <1>4, <1>6, PlainMove DEF StageName

LEMMA ValidateKeeps ==
  ASSUME BackInv, NEW t \in Called, Validate(t)
  PROVE  BackInv'
<1>1. BackType /\ CallOK(t) /\ UNCHANGED <<asked, queue, trace, saved>>
  BY DEF BackInv, Validate, files
<1>2. stage[t] = "launched" /\ ~asked[t].driver /\ failure[t] = "none" /\ t \notin saved
  BY <1>1 DEF Validate, CallOK, StageOK, SavedOK
<1>3. PICK to \in StageName, name \in ErrorName :
        /\ Moves(t, to, name)
        /\ \/ to = "validated" /\ name = "none"
           \/ to = "returned" /\ name = "validate"
  <2>1. /\ "validated" \in StageName /\ "returned" \in StageName
        /\ "none" \in ErrorName /\ "validate" \in ErrorName
    BY DEF StageName, ErrorName
  <2>2. CASE Advance(t, "validated")
    <3>1. Moves(t, "validated", "none")
      BY <1>1, <1>2, <2>1, <2>2, AdvanceMoves
    <3>2. QED
      BY <2>1, <3>1
  <2>3. CASE Fail(t, "validate")
    <3>1. Moves(t, "returned", "validate")
      BY <1>1, <2>1, <2>3, FailMoves
    <3>2. QED
      BY <2>1, <3>1
  <2>4. QED
    BY <2>2, <2>3 DEF Validate
<1>4. stage'[t] = to /\ failure'[t] = name /\ asked' = asked
  BY <1>1, <1>3, MovesType
<1>5. StageOK(t)' /\ SavedOK(t)' /\ RefusalOK(t)' /\ TraceOK(t)'
  BY <1>1, <1>2, <1>3, <1>4 DEF CallOK, StageOK, SavedOK, RefusalOK, TraceOK
<1>6. QED
  BY <1>1, <1>2, <1>3, <1>5, PlainMove

LEMMA WriteOutputsKeeps ==
  ASSUME BackInv, NEW t \in Called, WriteOutputs(t)
  PROVE  BackInv'
<1>1. BackType /\ CallOK(t) /\ UNCHANGED <<asked, queue, trace>>
  BY DEF BackInv, WriteOutputs
<1>2. /\ stage[t] = "validated" /\ ~asked[t].driver /\ failure[t] = "none"
      /\ t \notin saved
  BY <1>1 DEF WriteOutputs, CallOK, StageOK, SavedOK
<1>3. PICK to \in StageName, name \in ErrorName :
        /\ Moves(t, to, name)
        /\ \/ /\ to = IF ~asked[t].npu /\ asked[t].profiling THEN "profiling" ELSE "returned"
              /\ name = "none" /\ saved' = saved \cup {t}
           \/ to = "returned" /\ name = "write_outputs" /\ saved' = saved
  <2>1. {"profiling", "returned"} \subseteq StageName
        /\ {"none", "write_outputs"} \subseteq ErrorName
    BY DEF StageName, ErrorName
  <2>2. \/ /\ saved' = saved \cup {t}
           /\ Advance(t, IF ~asked[t].npu /\ asked[t].profiling THEN "profiling" ELSE "returned")
        \/ Fail(t, "write_outputs") /\ saved' = saved
    BY DEF WriteOutputs
  <2>3. QED
    BY <1>1, <1>2, <2>1, <2>2, AdvanceMoves, FailMoves
<1>4. stage'[t] = to /\ failure'[t] = name /\ asked' = asked
  BY <1>1, <1>3, MovesType
<1>5. StageOK(t)' /\ SavedOK(t)' /\ RefusalOK(t)' /\ TraceOK(t)'
  BY <1>1, <1>2, <1>3, <1>4 DEF CallOK, StageOK, SavedOK, RefusalOK, TraceOK
<1>6. QED
  BY <1>1, <1>2, <1>3, <1>5, PlainMove

\* A step on the runner of an NPU call, at which the call moves or stays.
LEMMA NpuKeeps ==
  ASSUME BackInv, NEW t \in Called,
         NpuStart(t) \/ NpuInitialize(t) \/ NpuLaunch(t) \/ NpuReturn(t)
  PROVE  BackInv'
<1>1. BackType /\ CallOK(t) /\ UNCHANGED <<asked, queue, trace, saved>>
  BY DEF BackInv, NpuStart, NpuInitialize, NpuLaunch, NpuReturn, files
<1>2. CASE NpuStart(t)
  <2>1. stage[t] = "called" /\ asked[t].npu /\ ~asked[t].driver /\ failure[t] = "none"
        /\ t \notin saved
    BY <1>1, <1>2 DEF NpuStart, CallOK, StageOK, SavedOK
  <2>2. PICK to \in StageName, name \in ErrorName :
          /\ Moves(t, to, name)
          /\ \/ to = "returned" /\ name = "artifact" /\ ~asked[t].complete
             \/ /\ to = "returned" /\ name = "bindings"
                /\ asked[t].complete /\ ~NpuAccepts(asked[t].bindings)
             \/ /\ to = "returned" /\ name = "executor_initialize"
                /\ asked[t].complete /\ NpuAccepts(asked[t].bindings)
             \/ /\ to = "initializing" /\ name = "none"
                /\ asked[t].complete /\ NpuAccepts(asked[t].bindings)
    <3>1. {"initializing", "returned"} \subseteq StageName
          /\ {"none", "artifact", "bindings", "executor_initialize"} \subseteq ErrorName
      BY DEF StageName, ErrorName
    <3>2. \/ ~asked[t].complete /\ Fail(t, "artifact")
          \/ asked[t].complete /\ ~NpuAccepts(asked[t].bindings) /\ Fail(t, "bindings")
          \/ /\ asked[t].complete /\ NpuAccepts(asked[t].bindings)
             /\ Fail(t, "executor_initialize") \/ Advance(t, "initializing")
      BY <1>2 DEF NpuStart, Refuse
    <3>3. QED
      BY <1>1, <2>1, <3>1, <3>2, AdvanceMoves, FailMoves
  <2>3. stage'[t] = to /\ failure'[t] = name /\ asked' = asked
    BY <1>1, <2>2, MovesType
  <2>4. StageOK(t)' /\ SavedOK(t)' /\ RefusalOK(t)' /\ TraceOK(t)'
    BY <1>1, <2>1, <2>2, <2>3 DEF CallOK, StageOK, SavedOK, RefusalOK, TraceOK
  <2>5. QED
    BY <1>1, <2>1, <2>2, <2>4, PlainMove
<1>3. CASE UNCHANGED <<stage, failure>>
  BY <1>1, <1>3 DEF BackInv, BackType, FuturesMatch, CallOK, StageOK, SavedOK, RefusalOK,
     TraceOK, Called, Directory, queue
<1>4. CASE /\ NpuInitialize(t) \/ NpuLaunch(t)
           /\ ~UNCHANGED <<stage, failure>>
  <2>1. /\ stage[t] \in {"initializing", "launching"} /\ asked[t].npu /\ ~asked[t].driver
        /\ failure[t] = "none" /\ t \notin saved
    BY <1>1, <1>4 DEF NpuInitialize, NpuLaunch, CallOK, StageOK, SavedOK
  <2>2. PICK to \in StageName, name \in ErrorName :
          /\ Moves(t, to, name)
          /\ \/ to = "returned" /\ name \in {"executor_initialize", "kernel_launch"}
             \/ to \in {"launching", "launched"} /\ name = "none"
    <3>1. {"launching", "launched", "returned"} \subseteq StageName
          /\ {"none", "kernel_launch", "executor_initialize"} \subseteq ErrorName
      BY DEF StageName, ErrorName
    <3>2. \/ Fail(t, "executor_initialize") \/ Fail(t, "kernel_launch")
          \/ Advance(t, "launching") \/ Advance(t, "launched")
      BY <1>4 DEF NpuInitialize, NpuLaunch
    <3>3. QED
      BY <1>1, <2>1, <3>1, <3>2, AdvanceMoves, FailMoves
  <2>3. stage'[t] = to /\ failure'[t] = name /\ asked' = asked
    BY <1>1, <2>2, MovesType
  <2>4. StageOK(t)' /\ SavedOK(t)' /\ RefusalOK(t)' /\ TraceOK(t)'
    BY <1>1, <2>1, <2>2, <2>3 DEF CallOK, StageOK, SavedOK, RefusalOK, TraceOK
  <2>5. QED
    BY <1>1, <2>1, <2>2, <2>4, PlainMove
<1>5. QED
  BY <1>2, <1>3, <1>4 DEF NpuReturn

-----------------------------------------------------------------------------
(* The queue of the simulator.                                             *)

\* A step of the runner alone.
LEMMA CallsAlone ==
  ASSUME BackInv, UNCHANGED <<asked, stage, failure, workQueue, serving, files>>
  PROVE  BackInv'
  BY DEF BackInv, BackType, FuturesMatch, CallOK, StageOK, SavedOK, RefusalOK,
     TraceOK, Called, Directory, files

LEMMA EnqueueKeeps ==
  ASSUME BackInv, NEW t \in Called, Enqueue(t)
  PROVE  BackInv'
<1>1. BackType /\ CallOK(t) /\ FuturesMatch /\ UNCHANGED <<asked, trace, saved, serving, stopping>>
  BY DEF BackInv, Enqueue, files
<1>2. /\ stage[t] = "called" /\ ~asked[t].npu /\ ~asked[t].driver
      /\ failure[t] = "none" /\ t \notin saved
  BY <1>1 DEF Enqueue, CallOK, StageOK, SavedOK
<1>3. /\ "queued" \in StageName /\ "returned" \in StageName
      /\ "none" \in ErrorName /\ "artifact" \in ErrorName /\ "bindings" \in ErrorName
  BY DEF StageName, ErrorName
<1>4. CASE Refuse(t, SimAccepts(asked[t].bindings)) /\ workQueue' = workQueue
  <2>1. PICK name \in ErrorName :
          /\ Moves(t, "returned", name)
          /\ \/ name = "artifact" /\ ~asked[t].complete
             \/ name = "bindings" /\ asked[t].complete /\ ~SimAccepts(asked[t].bindings)
    BY <1>1, <1>3, <1>4, FailMoves DEF Refuse
  <2>2. stage'[t] = "returned" /\ failure'[t] = name /\ asked' = asked
    BY <1>1, <1>3, <2>1, MovesType
  <2>3. StageOK(t)' /\ SavedOK(t)' /\ RefusalOK(t)' /\ TraceOK(t)'
    BY <1>1, <1>2, <2>1, <2>2 DEF CallOK, StageOK, SavedOK, RefusalOK, TraceOK
  <2>4. UNCHANGED <<queue, trace>>
    BY <1>1, <1>4 DEF queue
  <2>5. QED
    BY <1>1, <1>2, <1>3, <2>1, <2>3, <2>4, PlainMove
<1>5. CASE workQueue' = Append(workQueue, t) /\ Advance(t, "queued")
  <2>1. Moves(t, "queued", "none")
    BY <1>1, <1>2, <1>3, <1>5, AdvanceMoves
  <2>2. /\ asked' = asked /\ Called' = Called /\ Directory' = Directory
        /\ stage' \in [Called -> StageName] /\ failure' \in [Called -> ErrorName]
        /\ stage'[t] = "queued" /\ failure'[t] = "none"
        /\ \A u \in Called \ {t} : stage'[u] = stage[u]
    BY <1>1, <1>3, <2>1, MovesType
  <2>3. StageOK(t)' /\ SavedOK(t)' /\ RefusalOK(t)' /\ TraceOK(t)'
    BY <1>1, <1>2, <2>2 DEF CallOK, StageOK, SavedOK, RefusalOK, TraceOK
  <2>4. \A u \in Called' : CallOK(u)'
    BY <1>1, <1>3, <2>1, <2>3, MoveKeeps
  <2>5. /\ workQueue \in Seq(Called) /\ workQueue' \in Seq(Called)
        /\ Len(workQueue') = Len(workQueue) + 1 /\ Len(workQueue) \in Nat
        /\ DOMAIN workQueue = 1 .. Len(workQueue)
        /\ DOMAIN workQueue' = 1 .. Len(workQueue')
        /\ \A i \in 1 .. Len(workQueue) : workQueue'[i] = workQueue[i]
        /\ workQueue'[Len(workQueue) + 1] = t
    BY <1>1, <1>5 DEF BackType
  <2>6. BackType'
    BY <1>1, <2>2, <2>5 DEF BackType
  <2>7. (\A i \in 1 .. Len(workQueue) : workQueue[i] # t) /\ serving # t
    <3>1. \A x \in {workQueue[i] : i \in DOMAIN workQueue} \cup ({serving} \ {NoRunner}) :
            stage[x] = "queued"
      BY <1>1 DEF FuturesMatch
    <3>2. t # NoRunner
      BY <1>1, AskedShape
    <3>3. QED
      BY <1>2, <2>5, <3>1, <3>2
  <2>8. FuturesMatch'
    <3>1. \A i, j \in 1 .. Len(workQueue') : workQueue'[i] = workQueue'[j] => i = j
      BY <1>1, <2>5, <2>7 DEF FuturesMatch
    <3>2. \A i \in 1 .. Len(workQueue') : workQueue'[i] # serving
      BY <1>1, <2>5, <2>7 DEF FuturesMatch
    <3>3. {workQueue'[i] : i \in 1 .. Len(workQueue')}
            = {workQueue[i] : i \in 1 .. Len(workQueue)} \cup {t}
      <4>1. 1 .. Len(workQueue') = 1 .. Len(workQueue) \cup {Len(workQueue) + 1}
        BY <2>5
      <4>2. QED
        BY <2>5, <4>1
    <3>4. {u \in Called' : stage'[u] = "queued"} = {u \in Called : stage[u] = "queued"} \cup {t}
      BY <2>2
    <3>5. {workQueue[i] : i \in 1 .. Len(workQueue)} \cup ({serving} \ {NoRunner})
            = {u \in Called : stage[u] = "queued"}
      BY <1>1, <2>5 DEF FuturesMatch
    <3>6. {workQueue'[i] : i \in 1 .. Len(workQueue')} \cup ({serving'} \ {NoRunner})
            = {u \in Called' : stage'[u] = "queued"}
      BY <1>1, <3>3, <3>4, <3>5
    <3>7. QED
      BY <1>1, <2>5, <3>1, <3>2, <3>6 DEF FuturesMatch
  <2>9. QED
    BY <2>4, <2>6, <2>8 DEF BackInv
<1>6. QED
  BY <1>4, <1>5 DEF Enqueue

LEMMA TakeWorkKeeps ==
  ASSUME BackInv, TakeWork
  PROVE  BackInv'
<1>1. /\ BackType /\ FuturesMatch /\ UNCHANGED <<asked, stage, failure, trace, saved>>
      /\ serving = NoRunner /\ workQueue # << >>
      /\ serving' = Head(workQueue) /\ workQueue' = Tail(workQueue)
  BY DEF BackInv, TakeWork, files
<1>2. Called' = Called /\ Directory' = Directory
  BY <1>1 DEF Called, Directory
<1>3. /\ workQueue \in Seq(Called) /\ workQueue' \in Seq(Called)
      /\ Len(workQueue) \in Nat \ {0} /\ Len(workQueue') = Len(workQueue) - 1
      /\ DOMAIN workQueue = 1 .. Len(workQueue)
      /\ DOMAIN workQueue' = 1 .. Len(workQueue')
      /\ \A i \in 1 .. Len(workQueue') : workQueue'[i] = workQueue[i + 1]
      /\ serving' = workQueue[1]
  BY <1>1 DEF BackType
<1>4. serving' \in Called
  BY <1>3
<1>5. BackType'
  BY <1>1, <1>2, <1>3, <1>4 DEF BackType
<1>6. FuturesMatch'
  <2>1. \A i, j \in 1 .. Len(workQueue') : workQueue'[i] = workQueue'[j] => i = j
    BY <1>1, <1>3 DEF FuturesMatch
  <2>2. \A i \in 1 .. Len(workQueue') : workQueue'[i] # serving'
    BY <1>1, <1>3 DEF FuturesMatch
  <2>3. serving' # NoRunner
    BY <1>1, <1>4, AskedShape
  <2>4. {workQueue[i] : i \in 1 .. Len(workQueue)}
          = {workQueue'[i] : i \in 1 .. Len(workQueue')} \cup {serving'}
    <3>1. \A i \in 1 .. Len(workQueue) : i = 1 \/ i - 1 \in 1 .. Len(workQueue')
      BY <1>3
    <3>2. ASSUME NEW i \in 1 .. Len(workQueue)
          PROVE  \/ workQueue[i] = serving'
                 \/ \E j \in 1 .. Len(workQueue') : workQueue'[j] = workQueue[i]
      <4>1. CASE i = 1
        BY <1>3, <4>1
      <4>2. CASE i # 1
        <5>1. i - 1 \in 1 .. Len(workQueue') /\ (i - 1) + 1 = i
          BY <1>3, <3>1, <4>2
        <5>2. workQueue'[i - 1] = workQueue[i]
          BY <1>3, <5>1
        <5>3. QED
          BY <5>1, <5>2
      <4>3. QED
        BY <4>1, <4>2
    <3>3. \A j \in 1 .. Len(workQueue') : \E i \in 1 .. Len(workQueue) : workQueue'[j] = workQueue[i]
      BY <1>3
    <3>4. 1 \in 1 .. Len(workQueue)
      BY <1>3
    <3>5. serving' \in {workQueue[i] : i \in 1 .. Len(workQueue)}
      BY <1>3, <3>4
    <3>6. {workQueue[i] : i \in 1 .. Len(workQueue)}
            \subseteq {workQueue'[i] : i \in 1 .. Len(workQueue')} \cup {serving'}
      BY <3>2
    <3>7. {workQueue'[i] : i \in 1 .. Len(workQueue')}
            \subseteq {workQueue[i] : i \in 1 .. Len(workQueue)}
      BY <3>3
    <3>8. QED
      BY <3>5, <3>6, <3>7
  <2>5. {workQueue[i] : i \in 1 .. Len(workQueue)} = {u \in Called : stage[u] = "queued"}
    BY <1>1, <1>3 DEF FuturesMatch
  <2>6. {workQueue'[i] : i \in 1 .. Len(workQueue')} \cup ({serving'} \ {NoRunner})
          = {u \in Called' : stage'[u] = "queued"}
    BY <1>1, <1>2, <2>3, <2>4, <2>5
  <2>7. QED
    BY <1>3, <2>1, <2>2, <2>6 DEF FuturesMatch
<1>7. \A u \in Called' : CallOK(u)'
  BY <1>1, <1>2 DEF BackInv, CallOK, StageOK, SavedOK, RefusalOK, TraceOK
<1>8. QED
  BY <1>5, <1>6, <1>7 DEF BackInv

\* Whoever is served is waiting for its future.
LEMMA ServedCall ==
  ASSUME BackInv, serving # NoRunner
  PROVE  /\ serving \in Called /\ stage[serving] = "queued"
         /\ ~asked[serving].npu /\ ~asked[serving].driver
         /\ failure[serving] = "none" /\ serving \notin saved
<1>1. serving \in Called /\ stage[serving] = "queued"
  BY DEF BackInv, FuturesMatch
<1>2. CallOK(serving) /\ asked[serving].driver \in BOOLEAN
  BY <1>1, AskedShape DEF BackInv
<1>3. QED
  BY <1>1, <1>2 DEF CallOK, StageOK, SavedOK

LEMMA AnswerKeeps ==
  ASSUME BackInv, serving # NoRunner, NEW name, Answer(name),
         \/ name \in {"none", "unstaged", "kernel_launch"}
         \/ name = "artifact" /\ asked[serving].launch.mix
  PROVE  BackInv'
<1>1. PICK t \in Called : t = serving
  BY ServedCall
<1>2. /\ BackType /\ FuturesMatch /\ CallOK(t)
      /\ UNCHANGED <<asked, workQueue, trace, saved>> /\ serving' = NoRunner
  BY DEF BackInv, Answer, files
<1>3. /\ stage[t] = "queued" /\ ~asked[t].npu /\ ~asked[t].driver
      /\ failure[t] = "none" /\ t \notin saved
  BY <1>1, ServedCall
<1>4. PICK to \in StageName, error \in ErrorName :
        /\ Moves(t, to, error)
        /\ \/ to = "launched" /\ error = "none"
           \/ /\ to = "returned"
              /\ \/ error \in {"unstaged", "kernel_launch"}
                 \/ error = "artifact" /\ asked[t].launch.mix
  <2>1. /\ "launched" \in StageName /\ "returned" \in StageName
        /\ "none" \in ErrorName /\ "unstaged" \in ErrorName
        /\ "kernel_launch" \in ErrorName /\ "artifact" \in ErrorName
    BY DEF StageName, ErrorName
  <2>2. CASE name = "none"
    <3>1. Moves(t, "launched", "none")
      BY <1>1, <1>2, <1>3, <2>1, <2>2, AdvanceMoves DEF Answer
    <3>2. QED
      BY <2>1, <3>1
  <2>3. CASE name # "none"
    <3>1. Moves(t, "returned", name) /\ name \in ErrorName
      BY <1>1, <1>2, <2>1, <2>3, FailMoves DEF Answer
    <3>2. QED
      BY <1>1, <2>1, <2>3, <3>1
  <2>4. QED
    BY <2>2, <2>3
<1>5. /\ asked' = asked /\ Called' = Called /\ Directory' = Directory
      /\ stage' \in [Called -> StageName] /\ failure' \in [Called -> ErrorName]
      /\ stage'[t] = to /\ failure'[t] = error
      /\ \A u \in Called \ {t} : stage'[u] = stage[u]
  BY <1>2, <1>4, MovesType
<1>6. StageOK(t)' /\ SavedOK(t)' /\ RefusalOK(t)' /\ TraceOK(t)'
  BY <1>2, <1>3, <1>4, <1>5 DEF CallOK, StageOK, SavedOK, RefusalOK, TraceOK
<1>7. \A u \in Called' : CallOK(u)'
  BY <1>2, <1>4, <1>6, MoveKeeps
<1>8. BackType'
  BY <1>2, <1>5 DEF BackType
<1>9. FuturesMatch'
  <2>1. DOMAIN workQueue' = DOMAIN workQueue /\ workQueue' = workQueue
    BY <1>2
  <2>2. \A i \in DOMAIN workQueue : workQueue[i] # t /\ workQueue[i] \in Called
    BY <1>1, <1>2 DEF FuturesMatch, BackType
  <2>3. t # NoRunner /\ \A i \in DOMAIN workQueue : workQueue[i] # NoRunner
    BY <1>2, <2>2, AskedShape
  <2>4. {workQueue[i] : i \in DOMAIN workQueue} \cup {t} = {u \in Called : stage[u] = "queued"}
    BY <1>1, <1>2, <2>3 DEF FuturesMatch
  <2>5. {u \in Called' : stage'[u] = "queued"} = {u \in Called : stage[u] = "queued"} \ {t}
    BY <1>4, <1>5
  <2>6. {workQueue[i] : i \in DOMAIN workQueue} = {u \in Called' : stage'[u] = "queued"}
    BY <2>2, <2>4, <2>5
  <2>7. QED
    BY <1>2, <2>1, <2>3, <2>6 DEF FuturesMatch
<1>10. QED
  BY <1>7, <1>8, <1>9 DEF BackInv

-----------------------------------------------------------------------------
(* The traces.                                                             *)

\* A step that writes to the trace file of the directory of one call.
LEMMA TraceMove ==
  ASSUME BackInv, NEW t \in Called, NEW to \in {"tracing", "returned"},
         NEW name \in ErrorName, NEW whose \in SUBSET Called,
         Moves(t, to, name), UNCHANGED <<queue, saved>>,
         stage[t] \in {"profiling", "tracing"},
         trace' = [trace EXCEPT ![TraceFile(t)] = whose],
         to = "tracing" => name = "none" /\ whose = {},
         to = "returned" => name \in {"none", "profiling"},
         /\ \A u \in Called \ {t} :
              asked[u].profiling => asked[u].directory # asked[t].directory
         /\ to = "returned" /\ name = "none"
         => whose = {t}
  PROVE  BackInv'
<1>1. /\ BackType /\ CallOK(t) /\ UNCHANGED <<workQueue, serving, saved>>
      /\ to \in StageName
  BY DEF BackInv, queue, StageName
<1>2. /\ ~asked[t].npu /\ ~asked[t].driver /\ t \in saved /\ asked[t].profiling
      /\ failure[t] = "none"
  <2>1. asked[t].driver \in BOOLEAN
    BY <1>1, AskedShape
  <2>2. QED
    BY <1>1, <2>1 DEF CallOK, StageOK, SavedOK
<1>3. /\ asked' = asked /\ Called' = Called /\ Directory' = Directory
      /\ stage'[t] = to /\ failure'[t] = name
      /\ \A u \in Called \ {t} : stage'[u] = stage[u] /\ failure'[u] = failure[u]
  BY <1>1, MovesType
<1>4. /\ asked[t].directory \in Directory
      /\ trace \in [Directory -> SUBSET Called]
      /\ trace' = [trace EXCEPT ![asked[t].directory] = whose]
  BY <1>1, AskedShape DEF BackType, TraceFile
<1>5. trace' \in [Directory -> SUBSET Called] /\ trace'[asked[t].directory] = whose
  BY <1>4
<1>6. BackType'
  BY <1>1, <1>5, MoveType DEF BackType
<1>7. FuturesMatch'
  BY <1>1, QueueSame
<1>8. ASSUME NEW u \in Called \ {t} PROVE CallOK(u)'
  <2>1. CallOK(u) /\ stage'[u] = stage[u] /\ failure'[u] = failure[u]
    BY <1>3 DEF BackInv
  <2>2. TraceOK(u)'
    <3>1. CASE asked[u].directory = asked[t].directory
      BY <1>2, <1>3, <3>1 DEF TraceOK
    <3>2. CASE asked[u].directory # asked[t].directory
      <4>1. asked[u].directory \in Directory
        BY <1>1, AskedShape
      <4>2. trace'[asked[u].directory] = trace[asked[u].directory]
        BY <1>4, <3>2, <4>1
      <4>3. QED
        BY <1>3, <2>1, <4>2, OtherTrace DEF CallOK
    <3>3. QED
      BY <3>1, <3>2
  <2>3. QED
    BY <1>1, <1>3, <2>1, <2>2, OtherCall
<1>9. CallOK(t)'
  <2>1. StageOK(t)' /\ SavedOK(t)'
    BY <1>1, <1>2, <1>3 DEF StageOK, SavedOK
  <2>2. RefusalOK(t)'
    BY <1>2, <1>3 DEF RefusalOK
  <2>3. TraceOK(t)'
    BY <1>3, <1>5 DEF TraceOK
  <2>4. QED
    BY <2>1, <2>2, <2>3 DEF CallOK
<1>10. QED
  BY <1>3, <1>6, <1>7, <1>8, <1>9 DEF BackInv

LEMMA OpenTraceKeeps ==
  ASSUME BackInv, NEW t \in Called, OpenTrace(t)
  PROVE  BackInv'
<1>1. BackType /\ CallOK(t) /\ UNCHANGED <<asked, queue, saved>> /\ stage[t] = "profiling"
  BY DEF BackInv, OpenTrace
<1>2. /\ ~asked[t].npu /\ ~asked[t].driver /\ t \in saved /\ asked[t].profiling
      /\ failure[t] = "none"
  <2>1. asked[t].driver \in BOOLEAN
    BY <1>1, AskedShape
  <2>2. QED
    BY <1>1, <2>1 DEF CallOK, StageOK, SavedOK
<1>3. "tracing" \in StageName /\ "none" \in ErrorName /\ "profiling" \in ErrorName
  BY DEF StageName, ErrorName
<1>4. CASE Advance(t, "tracing") /\ trace' = [trace EXCEPT ![TraceFile(t)] = {}]
  <2>1. Moves(t, "tracing", "none")
    BY <1>1, <1>2, <1>3, <1>4, AdvanceMoves
  <2>2. {} \in SUBSET Called
    OBVIOUS
  <2>3. QED
    BY <1>1, <1>3, <1>4, <2>1, <2>2, TraceMove
<1>5. CASE Fail(t, "profiling") /\ trace' = trace
  <2>1. Moves(t, "returned", "profiling") /\ "returned" \in StageName
    BY <1>1, <1>3, <1>5, FailMoves DEF StageName
  <2>2. stage'[t] = "returned" /\ failure'[t] = "profiling" /\ asked' = asked
    BY <1>1, <1>3, <2>1, MovesType
  <2>3. StageOK(t)' /\ SavedOK(t)' /\ RefusalOK(t)' /\ TraceOK(t)'
    BY <1>1, <1>2, <2>2 DEF StageOK, SavedOK, RefusalOK, TraceOK
  <2>4. QED
    BY <1>1, <1>3, <1>5, <2>1, <2>3, PlainMove
<1>6. QED
  BY <1>4, <1>5 DEF OpenTrace

LEMMA WriteTraceKeeps ==
  ASSUME BackInv, NEW t \in Called, WriteTrace(t)
  PROVE  BackInv'
<1>1. /\ BackType /\ CallOK(t) /\ UNCHANGED <<asked, queue, saved>>
      /\ stage[t] = "tracing"
      /\ trace' = [trace EXCEPT ![TraceFile(t)] = @ \cup {t}]
      /\ Advance(t, "returned") \/ Fail(t, "profiling")
  BY DEF BackInv, WriteTrace
<1>2. /\ ~asked[t].npu /\ ~asked[t].driver /\ asked[t].profiling /\ failure[t] = "none"
  <2>1. asked[t].driver \in BOOLEAN
    BY <1>1, AskedShape
  <2>2. QED
    BY <1>1, <2>1 DEF CallOK, StageOK, SavedOK
<1>3. /\ "returned" \in StageName /\ "none" \in ErrorName /\ "profiling" \in ErrorName
  BY DEF StageName, ErrorName
<1>4. PICK name \in {"none", "profiling"} : Moves(t, "returned", name)
  <2>1. CASE Advance(t, "returned")
    <3>1. Moves(t, "returned", "none")
      BY <1>1, <1>2, <1>3, <2>1, AdvanceMoves
    <3>2. QED
      BY <3>1
  <2>2. CASE Fail(t, "profiling")
    <3>1. Moves(t, "returned", "profiling")
      BY <1>1, <1>3, <2>2, FailMoves
    <3>2. QED
      BY <3>1
  <2>3. QED
    BY <1>1, <2>1, <2>2
<1>5. /\ trace[TraceFile(t)] \cup {t} \in SUBSET Called
      /\ trace' = [trace EXCEPT ![TraceFile(t)] = trace[TraceFile(t)] \cup {t}]
  BY <1>1, AskedShape DEF BackType, TraceFile
<1>6. (\A u \in Called \ {t} : asked[u].profiling => asked[u].directory # asked[t].directory)
         => trace[TraceFile(t)] \cup {t} = {t}
  BY <1>1, <1>2 DEF CallOK, TraceOK, TraceFile
<1>7. name \in ErrorName
  BY <1>3, <1>4
<1>8. QED
  BY <1>1, <1>4, <1>5, <1>6, <1>7, TraceMove

-----------------------------------------------------------------------------
(* All together.                                                           *)

BackendsInv == RunnerInv /\ BackInv

LEMMA SimIsRunner == Sim \in Runner /\ Sim \in Simulator
  BY RunnerAssumption, TaskAssumption

LEMMA RunnerPart ==
  ASSUME BackendsInv, [BackendsNext]_backVars
  PROVE  RunnerInv'
<1>1. ASSUME UNCHANGED <<process, runner>> PROVE RunnerInv'
  BY <1>1 DEF BackendsInv, RunnerInv, process, ProcessType, LaunchOK, AclOK, InAcl, GoneOK, ClaimOK,
     Claiming, At, DeviceHeld
<1>2. ASSUME NEW r \in Runner, RunnerStep(r) PROVE RunnerInv'
  BY <1>2, RunnerStepKeeps DEF BackendsInv
<1>3. ASSUME NEW t \in Called, Call(t) PROVE RunnerInv'
  <2>1. BackType /\ CallOK(t)
    BY DEF BackendsInv, BackInv
  <2>2. asked[t].npu => t \in Runner
    BY <2>1, AskedShape
  <2>3. asked[t].launch \in Request
    BY <2>1, AskedShape
  <2>4. CASE NpuStart(t)
    BY <1>1, <1>2, <2>2, <2>4 DEF NpuStart, RunnerStep, Prelude, runnerVars
  <2>5. CASE NpuInitialize(t)
    <3>1. t \in Runner
      BY <2>1, <2>2, <2>5 DEF NpuInitialize, CallOK, StageOK
    <3>2. QED
      BY <1>2, <2>3, <2>5, <3>1 DEF NpuInitialize, RunnerStep, Prelude
  <2>6. CASE NpuLaunch(t)
    <3>1. t \in Runner
      BY <2>1, <2>2, <2>6 DEF NpuLaunch, CallOK, StageOK
    <3>2. QED
      BY <1>1, <1>2, <2>6, <3>1 DEF NpuLaunch, RunnerStep, runnerVars
  <2>7. CASE NpuReturn(t)
    BY <1>2, <2>2, <2>7 DEF NpuReturn, RunnerStep, Prelude
  <2>8. CASE UNCHANGED runnerVars
    BY <1>1, <2>8 DEF runnerVars
  <2>9. QED
    BY <1>3, <2>4, <2>5, <2>6, <2>7, <2>8
    DEF Call, RunDriver, Enqueue, Validate, WriteOutputs, OpenTrace, WriteTrace
<1>4. ASSUME Worker PROVE RunnerInv'
  <2>1. CASE CreateRunner
    BY <1>2, <2>1, SimIsRunner DEF CreateRunner, RunnerStep, Prelude
  <2>2. CASE DropRunner \/ EndWorker
    BY <1>2, <2>2, SimIsRunner DEF DropRunner, EndWorker, RunnerStep, Prelude
  <2>3. CASE SimLaunch
    <3>1. asked[serving].launch \in Request
      BY <2>3, ServedCall, AskedShape DEF SimLaunch, BackendsInv, BackInv
    <3>2. QED
      BY <1>1, <1>2, <2>3, <3>1, SimIsRunner DEF SimLaunch, RunnerStep, runnerVars
  <2>4. CASE SimRun
    BY <1>2, <2>4, SimIsRunner DEF SimRun, RunnerStep
  <2>5. CASE SimEnd
    BY <1>2, <2>5, SimIsRunner DEF SimEnd, RunnerStep, Collect
  <2>6. CASE TakeWork
    BY <1>1, <2>6 DEF TakeWork, runnerVars
  <2>7. QED
    BY <1>4, <2>1, <2>2, <2>3, <2>4, <2>5, <2>6 DEF Worker
<1>5. CASE Stop \/ UNCHANGED backVars
  BY <1>1, <1>5 DEF Stop, backVars, runnerVars
<1>6. QED
  BY <1>3, <1>4, <1>5 DEF BackendsNext

LEMMA CallPart ==
  ASSUME BackendsInv, [BackendsNext]_backVars
  PROVE  BackInv'
<1>1. BackInv
  BY DEF BackendsInv
<1>2. ASSUME NEW t \in Called, Call(t) PROVE BackInv'
  BY <1>1, <1>2, DriverKeeps, EnqueueKeeps, ValidateKeeps, WriteOutputsKeeps,
     OpenTraceKeeps, WriteTraceKeeps, NpuKeeps DEF Call
<1>3. ASSUME Worker PROVE BackInv'
  <2>1. CASE TakeWork
    BY <1>1, <2>1, TakeWorkKeeps
  <2>2. CASE DropRunner
    BY <1>1, <2>2, AnswerKeeps DEF DropRunner
  <2>3. CASE SimEnd
    <3>1. \E name \in {"none", "kernel_launch"} : Answer(name)
      BY <2>3 DEF SimEnd
    <3>2. QED
      BY <1>1, <2>3, <3>1, AnswerKeeps DEF SimEnd
  <2>4. CASE serving # NoRunner /\ asked[serving].launch.mix /\ Answer("artifact")
    BY <1>1, <2>4, AnswerKeeps
  <2>5. CASE UNCHANGED <<asked, stage, failure, queue, files>>
    BY <1>1, <2>5, CallsAlone DEF queue
  <2>6. QED
    BY <1>3, <2>1, <2>2, <2>3, <2>4, <2>5
    DEF Worker, CreateRunner, SimLaunch, SimRun, EndWorker
<1>4. CASE Stop \/ UNCHANGED backVars
  BY <1>1, <1>4, CallsAlone DEF Stop, backVars, queue
<1>5. QED
  BY <1>2, <1>3, <1>4 DEF BackendsNext

LEMMA BackendsInitOK == BackendsInit => BackendsInv
<1> SUFFICES ASSUME BackendsInit PROVE BackendsInv
  OBVIOUS
<1>1. RunnerInv
  BY RunnerInitOK DEF BackendsInit
<1>2. /\ asked \in Scenario /\ stage = [t \in Called |-> "called"]
      /\ failure = [t \in Called |-> "none"] /\ workQueue = << >> /\ serving = NoRunner
      /\ trace = [d \in Directory |-> {}] /\ saved = {}
  BY DEF BackendsInit
<1>3. BackType
  BY <1>2 DEF BackType, StageName, ErrorName
<1>4. FuturesMatch
  <2>1. DOMAIN workQueue = {}
    BY <1>2
  <2>2. {t \in Called : stage[t] = "queued"} = {}
    BY <1>2
  <2>3. QED
    BY <1>2, <2>1, <2>2 DEF FuturesMatch
<1>5. \A t \in Called : CallOK(t)
  BY <1>2 DEF CallOK, StageOK, SavedOK, RefusalOK, TraceOK
<1>6. QED
  BY <1>1, <1>3, <1>4, <1>5 DEF BackendsInv, BackInv

\* What a runner holds depends on where its thread is, what they share is
\* accounted for, and each call is where the queue, its error and its files
\* say: the invariant on which the properties rest.
THEOREM BackendsInductive == BackendsSpec => []BackendsInv
<1>1. BackendsInit => BackendsInv
  BY BackendsInitOK
<1>2. BackendsInv /\ [BackendsNext]_backVars => BackendsInv'
  BY RunnerPart, CallPart DEF BackendsInv
<1>3. QED
  BY <1>1, <1>2, PTL DEF BackendsSpec

\* The device stays attached for as long as somebody relies on it, and no
\* longer: every call that sets it is counted by a launch or by the flag.
THEOREM DeviceAccounted == BackendsSpec => []DeviceHeld
<1>1. BackendsInv => DeviceHeld
  BY DEF BackendsInv, RunnerInv
<1>2. QED
  BY <1>1, BackendsInductive, PTL

\* ACL is initialized and finalized by one launch at a time.
THEOREM AclExclusive == BackendsSpec => []AclHasOneUser
<1>1. BackendsInv => AclHasOneUser
  <2> SUFFICES ASSUME BackendsInv, NEW r \in Runner
               PROVE  /\ runner[r].acl # {} => aclUser = r
                      /\ aclUser = r <=> InAcl(runner[r])
    BY DEF AclHasOneUser, InAcl, Working
  <2>1. aclUser = r <=> InAcl(runner[r])
    BY DEF BackendsInv, RunnerInv, AclOK
  <2>2. LaunchOK(runner[r])
    BY DEF BackendsInv, RunnerInv
  <2>3. runner[r].acl # {} => InAcl(runner[r])
    BY <2>2 DEF LaunchOK, InAcl
  <2>4. QED
    BY <2>1, <2>3
<1>2. QED
  BY <1>1, BackendsInductive, PTL

\* Whatever has failed in a launch, its runner has given back all that the
\* launch had taken by the time it returns.
THEOREM LaunchLeavesNothing == BackendsSpec => []NothingLeft
<1>1. BackendsInv => NothingLeft
  <2> SUFFICES ASSUME BackendsInv, NEW r \in Runner
               PROVE  /\ runner[r].at \in {"idle", "absent", "unusable"} =>
                           /\ runner[r].buffers = 0 /\ runner[r].acl = {}
                           /\ aclUser # r /\ "artifact" \notin runner[r].opened
                      /\ At(r, "absent") /\ r \notin Simulator =>
                           runner[r].opened = {} /\ ~runner[r].stream
    BY DEF NothingLeft
  <2>1. LaunchOK(runner[r]) /\ (aclUser = r <=> InAcl(runner[r]))
    BY DEF BackendsInv, RunnerInv, AclOK
  <2>2. At(r, "absent") /\ r \notin Simulator => runner[r].opened = {} /\ ~runner[r].stream
    BY DEF BackendsInv, RunnerInv, GoneOK
  <2>3. QED
    BY <2>1, <2>2 DEF LaunchOK, InAcl, Working
<1>2. QED
  BY <1>1, BackendsInductive, PTL

\* No answer of the simulator's thread is lost or goes to the wrong call.
THEOREM FuturesAnswered == BackendsSpec => []FuturesMatch
<1>1. BackendsInv => FuturesMatch
  BY DEF BackendsInv, BackInv
<1>2. QED
  BY <1>1, BackendsInductive, PTL

\* What the NPU backend accepts the simulator accepts too.
LEMMA NpuStricter ==
  ASSUME NEW b, BindingsShape(b), NpuAccepts(b)
  PROVE  SimAccepts(b)
<1>1. b.expected \in Nat
  BY DEF BindingsShape
<1>2. QED
  BY <1>1 DEF NpuAccepts, NpuValid, NpuLoads, SimAccepts

\* A call that the simulator refuses is refused by the NPU backend for the
\* same reason.
THEOREM SameRefusals == BackendsSpec => []BackendsAgree
<1>1. BackendsInv => BackendsAgree
  <2> SUFFICES ASSUME BackendsInv, NEW t \in Called, NEW u \in Called,
                      asked[t].npu, ~asked[u].npu,
                      asked[t].complete = asked[u].complete,
                      asked[t].bindings = asked[u].bindings,
                      ~asked[t].driver, ~asked[u].driver,
                      \/ failure[u] = "bindings"
                      \/ failure[u] = "artifact" /\ ~asked[u].launch.mix,
                      stage[t] = "returned"
               PROVE  failure[t] = failure[u]
    BY DEF BackendsAgree
  <2>1. RefusalOK(t) /\ RefusalOK(u) /\ BindingsShape(asked[t].bindings)
    <3>1. BackType /\ CallOK(t) /\ CallOK(u)
      BY DEF BackendsInv, BackInv
    <3>2. TaskShape(t, asked[t])
      BY <3>1, TaskAssumption DEF BackType, Called
    <3>3. QED
      BY <3>1, <3>2 DEF CallOK, TaskShape
  <2>2. CASE failure[u] = "bindings"
    <3>1. asked[u].complete /\ ~SimAccepts(asked[u].bindings)
      BY <2>1, <2>2 DEF RefusalOK
    <3>2. ~NpuAccepts(asked[t].bindings)
      BY <2>1, <3>1, NpuStricter
    <3>3. QED
      BY <2>1, <2>2, <3>1, <3>2 DEF RefusalOK
  <2>3. CASE failure[u] = "artifact" /\ ~asked[u].launch.mix
    BY <2>1, <2>3 DEF RefusalOK
  <2>4. QED
    BY <2>2, <2>3
<1>2. QED
  BY <1>1, BackendsInductive, PTL

\* What is left on disk is right: outputs of exactly the calls whose outputs
\* are as expected, and whole traces where nobody else writes.
THEOREM FilesAreRight == BackendsSpec => []FilesRight
<1>1. BackendsInv => FilesRight
  <2> SUFFICES ASSUME BackendsInv, NEW t \in Called, ~asked[t].driver
               PROVE  /\ stage[t] = "returned" /\ failure[t] = "none" => t \in saved
                      /\ t \in saved => failure[t] \in {"none", "profiling"}
                      /\ (/\ asked[t].profiling /\ ~asked[t].npu
                          /\ stage[t] = "returned" /\ failure[t] = "none"
                          /\ \A u \in Called \ {t} :
                               asked[u].profiling => asked[u].directory # asked[t].directory)
                         => trace[asked[t].directory] = {t}
    BY DEF FilesRight
  <2>1. SavedOK(t) /\ TraceOK(t)
    BY DEF BackendsInv, BackInv, CallOK
  <2>2. QED
    BY <2>1 DEF SavedOK, TraceOK
<1>2. QED
  BY <1>1, BackendsInductive, PTL
=============================================================================
