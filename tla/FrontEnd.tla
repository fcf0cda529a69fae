------------------------------- MODULE FrontEnd -------------------------------
(***************************************************************************)
(* Processes that run task graphs: runtime-session                         *)
(* (tools/runtime-session/runtime_session_main.cpp) and the C API          *)
(* (lib/CAPI/Runtime/Runtime.cpp), both through                            *)
(* lib/Runtime/Execution/RuntimeFrontendCore.cpp.  They share two          *)
(* directories: "work" holds the working directories of sessions, "kept"   *)
(* the profiles that runtime-session retains after a simulator run         *)
(* (lib/Runtime/Profile/ProfileUtils.cpp).  Every runtime-session prunes   *)
(* both before it runs, whoever may be using what it removes.  A directory *)
(* is removed entry by entry, and what cannot be removed stays without an  *)
(* error: it may be left whole, or partly emptied.                         *)
(*                                                                         *)
(* A process runs one session, so that a process also names the directory  *)
(* that it makes in either root.  A root is the sequence of its            *)
(* directories from the newest modification time to the oldest; adding or  *)
(* removing an entry of a directory makes it the newest.                   *)
(***************************************************************************)
EXTENDS Integers, Sequences, FiniteSets, SequencesExt

CONSTANTS
  Process,
  Old,          \* directories that earlier processes may have left
  Limit,        \* RetainedProfileSessionLimit, RuntimeSessionWorkdirLimit
  Requests      \* what a process may be asked, see RequestShape

\* cli: runtime-session, else the C API, which always simulates.  faulty:
\* what is wrong with the request, found out by main() or plan().  run: the
\* option --run.  The graph is a chain of tasks, each reading the output of
\* the one before; expected: those whose outputs are compared.
RequestShape(q) ==
  /\ q.cli \in BOOLEAN /\ q.npu \in BOOLEAN /\ ~q.cli => ~q.npu
  /\ q.faulty \in {"no", "request", "plan"} /\ q.run \in BOOLEAN
  /\ q.tasks \in Nat \ {0} /\ q.profiling \in BOOLEAN
  /\ q.expected \subseteq 1 .. q.tasks
  /\ ~q.cli => q.run /\ q.tasks = 1 /\ ~q.profiling /\ q.expected = {}

ASSUME FrontEndAssumption ==
  /\ Process \cap Old = {} /\ IsFiniteSet(Old) /\ Limit \in Nat \ {0}
  /\ \A q \in Requests : RequestShape(q)

VARIABLES
  request,
  at,           \* where each process is
  doomed,       \* what it has decided to prune and not yet removed
  listed,       \* history: what was in "kept" when it decided, but for what it
                \* has tried to remove and could not
  root,         \* "work" and "kept"
  next,         \* the next task, or the next profile to copy
  outputs,      \* whose outputs are in the working directory
  trace,        \* whose trace is in its one trace.json, 0: there is none
  tasksDir,     \* tasks/ is in the profiles kept
  copies,       \* for each tasks/<task>.json whose trace it is, 0: it is not there
  summary,      \* session_summary.json is in the profiles kept
  verdict,      \* what the process reports
  made,         \* history: who has made a directory in each root
  damaged       \* history: the directories of which an entry has been removed

control  == <<at, doomed, listed, next>>
contents == <<outputs, trace, tasksDir, copies, summary>>

frontVars == <<request, control, root, contents, verdict, made, damaged>>

Root == {"work", "kept"}
NoVerdict == [code |-> -1, stage |-> "none", validation |-> "none"]

FrontEndInit ==
  /\ request \in [Process -> Requests]
  /\ at = [p \in Process |-> "start"]
  /\ doomed = [p \in Process |-> {}]
  /\ listed = [p \in Process |-> {}]
  /\ root \in [Root -> {SetToSeq(left) : left \in SUBSET Old}]
  /\ next = [p \in Process |-> 1]
  /\ outputs = [p \in Process |-> {}]
  /\ trace = [p \in Process |-> 0]
  /\ tasksDir = [p \in Process |-> FALSE]
  /\ copies = [p \in Process |-> [t \in 1 .. request[p].tasks |-> 0]]
  /\ summary = [p \in Process |-> FALSE]
  /\ verdict = [p \in Process |-> NoVerdict]
  /\ made = [r \in Root |-> {}]
  /\ damaged = [r \in Root |-> {}]


In(r) == ToSet(root[r])
Touched(r, d) == [root EXCEPT ![r] = <<d>> \o RemoveFirst(@, d)]
Without(r, d) == [root EXCEPT ![r] = RemoveFirst(@, d)]
Goto(p, place) == at' = [at EXCEPT ![p] = place]
Retains(p) == request[p].cli /\ ~request[p].npu

-----------------------------------------------------------------------------
(* Removing a directory, std::filesystem::remove_all.                      *)

\* An entry of a working directory goes: an output, the trace, or another.
RemoveFromWork(d) ==
  /\ root' = Touched("work", d)
  /\ \/ UNCHANGED <<outputs, trace>>
     \/ \E t \in outputs[d] : outputs' = [outputs EXCEPT ![d] = @ \ {t}] /\ UNCHANGED trace
     \/ trace[d] # 0 /\ trace' = [trace EXCEPT ![d] = 0] /\ UNCHANGED outputs
  /\ UNCHANGED <<tasksDir, copies, summary>>

\* An entry of the profiles of a session goes.  That a directory below it
\* has changed does not make it newer.
RemoveFromKept(d) ==
  /\ \/ /\ \E t \in DOMAIN copies[d] :
             copies[d][t] # 0 /\ copies' = [copies EXCEPT ![d][t] = 0]
        /\ UNCHANGED <<root, tasksDir, summary>>
     \/ /\ tasksDir[d] /\ \A t \in DOMAIN copies[d] : copies[d][t] = 0
        /\ tasksDir' = [tasksDir EXCEPT ![d] = FALSE]
        /\ root' = Touched("kept", d)
        /\ UNCHANGED <<copies, summary>>
     \/ /\ summary[d]
        /\ summary' = [summary EXCEPT ![d] = FALSE]
        /\ root' = Touched("kept", d)
        /\ UNCHANGED <<tasksDir, copies>>
  /\ UNCHANGED <<outputs, trace>>

RemoveEntry(p, r, d) ==
  /\ d \in doomed[p] \cap In(r)
  /\ IF d \in Old THEN root' = Touched(r, d) /\ UNCHANGED contents
     ELSE IF r = "work" THEN RemoveFromWork(d) ELSE RemoveFromKept(d)
  /\ damaged' = [damaged EXCEPT ![r] = @ \cup {d}]
  /\ UNCHANGED <<request, control, verdict, made>>

\* What is modelled of a directory has been removed from it.
Emptied(r, d) ==
  d \in Process =>
    IF r = "work" THEN outputs[d] = {} /\ trace[d] = 0
    ELSE ~tasksDir[d] /\ ~summary[d]

\* The process is through with a directory: it has gone, or something could
\* not be removed or has been added meanwhile; the error is not looked at.
RemoveDirectory(p, r, d) ==
  /\ d \in doomed[p]
  /\ doomed' = [doomed EXCEPT ![p] = @ \ {d}]
  /\ \/ Emptied(r, d) /\ root' = Without(r, d) /\ UNCHANGED listed
     \/ /\ listed' = IF r = "kept" THEN [listed EXCEPT ![p] = @ \ {d}] ELSE listed
        /\ UNCHANGED root
  /\ UNCHANGED <<request, at, next, contents, verdict, made, damaged>>

-----------------------------------------------------------------------------
(* How a process ends.                                                     *)

\* parseErrorStage: the stage is what the message has between the first
\* colon and the first bracket; validation has failed if that is its name.
Verdict(p, code, stage) ==
  [ code |-> code, stage |-> stage,
    validation |-> IF request[p].expected = {} \/ ~request[p].run THEN "none"
                   ELSE IF code = 0 THEN "passed"
                   ELSE IF stage = "validate" THEN "failed" ELSE "none" ]

ErrorCode(p) == IF request[p].cli THEN 2 ELSE 1

\* Where the session has a working directory, which its destructor is going
\* to remove.
HasDirectory == {"task", "trace", "retain", "copy", "summarize", "done"}

\* What the run has counted and listed goes with it.
Leave(p, place, remaining) ==
  /\ Goto(p, place)
  /\ doomed' = [doomed EXCEPT ![p] = remaining]
  /\ listed' = [listed EXCEPT ![p] = {}]
  /\ next' = [next EXCEPT ![p] = 1]

End(p) == IF at[p] \in HasDirectory THEN Leave(p, "cleanup", {p}) ELSE Leave(p, "ended", {})

Fail(p, code, stage) ==
  /\ verdict' = [verdict EXCEPT ![p] = Verdict(p, code, stage)]
  /\ End(p)
  /\ UNCHANGED <<request, root, contents, made, damaged>>

\* After a simulation runtime-session leaves the working directory where it
\* is and exits without running destructors.
Succeed(p) ==
  /\ verdict' = [verdict EXCEPT ![p] = Verdict(p, 0, "none")]
  /\ IF Retains(p) THEN Leave(p, "ended", {}) ELSE End(p)
  /\ UNCHANGED <<request, root, contents, made, damaged>>

Cleanup(p) ==
  /\ at[p] = "cleanup"
  /\ \/ RemoveEntry(p, "work", p)
     \/ RemoveDirectory(p, "work", p)
     \/ /\ doomed[p] = {}
        /\ Leave(p, "ended", {})
        /\ UNCHANGED <<request, root, contents, verdict, made, damaged>>

\* Killed: what is left to be removed stays.
Crash(p) ==
  /\ at[p] # "ended"
  /\ Leave(p, "ended", {})
  /\ UNCHANGED <<request, root, contents, verdict, made, damaged>>

-----------------------------------------------------------------------------
(* Preparation.                                                            *)

Start(p) ==
  /\ at[p] = "start"
  /\ LET q == request[p] IN
     \/ q.faulty = "request" /\ Fail(p, 4, "none")
     \/ q.faulty = "plan" /\ Fail(p, 2, "none")
     \/ q.faulty = "no" /\ ~q.run /\ Succeed(p)
     \/ /\ q.faulty = "no" /\ q.run
        /\ Goto(p, IF Retains(p) THEN "listWork" ELSE "session")
        /\ UNCHANGED <<request, doomed, listed, next, root, contents, verdict, made, damaged>>

\* Room for the directory that the run is going to make.
KeepCountTooLarge == Limit

KeepCount == Limit - 1

KeptOfOldest(r) == LET n == Len(root[r])
                   IN  {root[r][i] : i \in (n - KeepCount + 1 .. n) \cap DOMAIN root[r]}

\* pruneRetainedProfileDirectories: the newest stay.
Kept(r) == {root[r][i] : i \in 1 .. KeepCount \cap DOMAIN root[r]}

\* An error in opening the root is not noticed, it is like an empty one.
List(p, r) ==
  /\ \E found \in {In(r), {}} :
       /\ doomed' = [doomed EXCEPT ![p] = found \ Kept(r)]
       /\ listed' = IF r = "kept" THEN [listed EXCEPT ![p] = found] ELSE listed
  /\ UNCHANGED <<request, next, root, contents, verdict, made, damaged>>

\* The directory for the roots cannot be found or a root cannot be made.
ListWork(p) ==
  /\ at[p] = "listWork"
  /\ \/ Fail(p, 2, "none")
     \/ List(p, "work") /\ Goto(p, "pruneWork")
ListKept(p) ==
  /\ at[p] = "listKept"
  /\ \/ Fail(p, 2, "none")
     \/ List(p, "kept") /\ Goto(p, "pruneKept")

Prune(p) ==
  \/ /\ at[p] = "pruneWork"
     /\ \/ \E d \in doomed[p] : RemoveEntry(p, "work", d) \/ RemoveDirectory(p, "work", d)
        \/ /\ doomed[p] = {}
           /\ Goto(p, "listKept")
           /\ UNCHANGED <<request, doomed, listed, next, root, contents, verdict, made, damaged>>
  \/ /\ at[p] = "pruneKept"
     /\ \/ \E d \in doomed[p] : RemoveEntry(p, "kept", d) \/ RemoveDirectory(p, "kept", d)
        \/ /\ doomed[p] = {}
           /\ Goto(p, "session")
           /\ UNCHANGED <<request, doomed, listed, next, root, contents, verdict, made, damaged>>

-----------------------------------------------------------------------------
(* The run.                                                                *)

\* prepareSessionRuntimePaths
CreateDirectory(p) ==
  /\ at[p] = "session"
  /\ \/ Fail(p, ErrorCode(p), "none")
     \/ /\ root' = Touched("work", p)
        /\ made' = [made EXCEPT !["work"] = @ \cup {p}]
        /\ Goto(p, "task")
        /\ UNCHANGED <<request, doomed, listed, next, contents, verdict, damaged>>

AfterTask(p) ==
  IF next[p] < request[p].tasks THEN "task"
  ELSE IF Retains(p) THEN "retain" ELSE "done"

\* A task of a backend: it reads the output of the task before, may fail in
\* any stage, and writes its output, for which its directory must be there.
\* The C API has its inputs and outputs in a directory of its own.
RunTask(p) ==
  LET t == next[p]
      here == request[p].cli
      readable == t = 1 \/ t - 1 \in outputs[p]
  IN  /\ at[p] = "task"
      /\ \/ ~readable /\ Fail(p, ErrorCode(p), "bindings")
         \/ readable /\ Fail(p, ErrorCode(p), "kernel_launch")
         \/ readable /\ t \in request[p].expected /\ Fail(p, ErrorCode(p), "validate")
         \/ readable /\ here /\ p \notin In("work") /\ Fail(p, 2, "write_outputs")
         \/ /\ readable /\ (here => p \in In("work"))
            /\ outputs' = IF here THEN [outputs EXCEPT ![p] = @ \cup {t}] ELSE outputs
            /\ root' = IF here THEN Touched("work", p) ELSE root
            /\ IF request[p].profiling /\ ~request[p].npu
               THEN Goto(p, "trace") /\ UNCHANGED next
               ELSE Goto(p, AfterTask(p)) /\ next' = [next EXCEPT ![p] = @ + 1]
            /\ UNCHANGED <<request, doomed, listed, trace, tasksDir, copies, summary, verdict,
                           made, damaged>>

\* The trace of a simulated task, whose directory is made again if it has
\* gone.
WriteTrace(p) ==
  /\ at[p] = "trace"
  /\ \/ Fail(p, ErrorCode(p), "profiling")
     \/ /\ root' = IF trace[p] = 0 THEN Touched("work", p) ELSE root
        /\ trace' = [trace EXCEPT ![p] = next[p]]
        /\ next' = [next EXCEPT ![p] = @ + 1]
        /\ Goto(p, AfterTask(p))
        /\ UNCHANGED <<request, doomed, listed, outputs, tasksDir, copies, summary, verdict,
                       made, damaged>>

-----------------------------------------------------------------------------
(* retainProfileArtifactsForCli                                            *)

Retain(p) ==
  /\ at[p] = "retain"
  /\ \/ Fail(p, 2, "none")
     \/ /\ root' = Touched("kept", p)
        /\ made' = [made EXCEPT !["kept"] = @ \cup {p}]
        /\ tasksDir' = [tasksDir EXCEPT ![p] = TRUE]
        /\ next' = [next EXCEPT ![p] = 1]
        /\ Goto(p, IF request[p].profiling THEN "copy" ELSE "summarize")
        /\ UNCHANGED <<request, doomed, listed, outputs, trace, copies, summary, verdict, damaged>>

CopyTraceIfThere(p) ==
  /\ at[p] = "copy"
  /\ \/ Fail(p, 2, "none")
     \/ /\ tasksDir[p]
        /\ copies' = [copies EXCEPT ![p][next[p]] = trace[p]]
        /\ next' = [next EXCEPT ![p] = @ + 1]
        /\ Goto(p, IF next[p] < request[p].tasks THEN "copy" ELSE "summarize")
        /\ UNCHANGED <<request, doomed, listed, root, outputs, trace, tasksDir, summary, verdict,
                       made, damaged>>

\* tasks/<task>.json is a copy of the trace that the event names.
CopyTrace(p) ==
  /\ at[p] = "copy"
  /\ \/ Fail(p, 2, "none")
     \/ /\ trace[p] # 0 /\ tasksDir[p]
        /\ copies' = [copies EXCEPT ![p][next[p]] = trace[p]]
        /\ next' = [next EXCEPT ![p] = @ + 1]
        /\ Goto(p, IF next[p] < request[p].tasks THEN "copy" ELSE "summarize")
        /\ UNCHANGED <<request, doomed, listed, root, outputs, trace, tasksDir, summary, verdict,
                       made, damaged>>

Summarize(p) ==
  /\ at[p] = "summarize"
  /\ \/ Fail(p, 2, "none")
     \/ /\ p \in In("kept")
        /\ summary' = [summary EXCEPT ![p] = TRUE]
        /\ root' = Touched("kept", p)
        /\ Goto(p, "done")
        /\ UNCHANGED <<request, doomed, listed, next, outputs, trace, tasksDir, copies, verdict,
                       made, damaged>>

\* The C API fails when the outputs do not have the size it was told.
Done(p) ==
  /\ at[p] = "done"
  /\ \/ Succeed(p)
     \/ ~request[p].cli /\ Fail(p, 1, "none")

-----------------------------------------------------------------------------
Step(p) ==
  \/ Start(p) \/ ListWork(p) \/ ListKept(p) \/ Prune(p) \/ CreateDirectory(p)
  \/ RunTask(p) \/ WriteTrace(p) \/ Retain(p) \/ CopyTrace(p) \/ Summarize(p)
  \/ Done(p) \/ Cleanup(p) \/ Crash(p)

FrontEndNext == \E p \in Process : Step(p)

FrontEndSpec == FrontEndInit /\ [][FrontEndNext]_frontVars

-----------------------------------------------------------------------------
(* Properties.                                                             *)

\* Besides that of p, the directories that runs have made in a root, and
\* those that are newer because something has been removed from them, leave
\* no room.
Crowded(r, p) == Cardinality((made[r] \cup damaged[r]) \ {p}) >= Limit - 1

\* A directory that a run has made loses an entry to another one, or goes,
\* only to make room for newer ones: as long as fewer than Limit runs share a
\* root and nothing else in it has been half removed, none of them loses
\* anything of its working directory or its profiles, however their steps
\* interleave and whatever cannot be removed.
RecentSurvive ==
  \A r \in Root : \A p \in made[r] :
    \/ p \in In(r) /\ p \notin damaged[r]
    \/ Crowded(r, p)
    \/ r = "work" /\ verdict[p] # NoVerdict /\ ~(Retains(p) /\ verdict[p].code = 0)

\* Of the profiles that a run found when it began, at most Limit - 1 are
\* there while it goes on, besides those that it has tried to remove and
\* could not: runs one after the other leave at most Limit that can be
\* removed, and runs that overlap one more each.
KeptBounded ==
  \A p \in Process :
    at[p] \in {"session", "task", "trace", "retain", "copy", "summarize", "done"}
      /\ Retains(p)
    => Cardinality(In("kept") \cap listed[p]) <= Limit - 1

\* Every task that was profiled has its profile.
AllCopied(p) == request[p].profiling => \A t \in 1 .. request[p].tasks : copies[p][t] # 0

\* What runtime-session reports is true: when it has reported a success, its
\* profiles are there, the summary and every task's, and a summary is never
\* there without the profiles it names, a crash included; unless the root was
\* crowded, so that others may have removed some or all of them meanwhile,
\* before the report too.
OutcomeIsWhole ==
  \A p \in Process :
    LET success == verdict[p].code = 0 /\ request[p].run /\ Retains(p) IN
    /\ success => (p \in In("kept") /\ summary[p]) \/ Crowded("kept", p)
    /\ success \/ summary[p] => AllCopied(p) \/ Crowded("kept", p)

\* "tasks/<task_id>.json" of the retained profiles is the profile of that
\* task.
ProfilePerTask ==
  \A p \in Process : \A t \in DOMAIN copies[p] : copies[p][t] \in {0, t}
=============================================================================
