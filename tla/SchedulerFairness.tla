------------------------- MODULE SchedulerFairness -------------------------
(***************************************************************************)
(* GlobalScheduler under clients that keep to the protocol of              *)
(* ExecutionSession::run: a session is released only while none of its     *)
(* tasks runs, every acquired task ends, and capacities stay as they are.  *)
(* A history variable records who was admitted while a session that could  *)
(* have been admitted was passed over.                                     *)
(***************************************************************************)
EXTENDS GlobalScheduler

CONSTANT Resubmit   \* whether a released id may be submitted again, that
                    \* is, whether new sessions keep arriving for ever

ASSUME ResubmitAssumption == Resubmit \in BOOLEAN

VARIABLES
  overtaken,   \* by session: the sessions of its class admitted since it
               \* has been admissible at every admission
  arrived      \* the ids submitted so far

fvars == <<vars, overtaken, arrived>>

\* Who was overtaken when session a was admitted.  There is one cursor for
\* all classes: an admission in another one moves it, and s counts anew.
Overtakes(a) ==
  overtaken' = [s \in Session |->
    IF s # a /\ CanAdmit(s) /\ job[s].priority = job[a].priority
    THEN overtaken[s] \cup {a} ELSE {}]

AdmitTurn(o, t) ==
  /\ Admit(o, t)
  /\ Overtakes(At(o))
  /\ UNCHANGED arrived

Arrive(s, j) ==
  /\ Resubmit \/ s \notin arrived
  /\ Submit(s, j)
  /\ arrived' = arrived \cup {s}
  /\ UNCHANGED overtaken

\* run() releases its session when its workers have ended: the session is
\* drained, or no worker has come up.  The id stands for another session
\* from now on.
Leave(s) ==
  /\ s \in Live
  /\ running[s] = 0
  /\ Release(s)
  /\ overtaken' = [x \in Session |-> IF x = s THEN {} ELSE overtaken[x] \ {s}]
  /\ UNCHANGED arrived

Loop == (NextPass \/ EndAdmission) /\ UNCHANGED <<overtaken, arrived>>

Take(s, t) == Acquire(s, t) /\ UNCHANGED <<overtaken, arrived>>

End(s, t) ==
  (Complete(s, t) \/ Fail(s, t)) /\ UNCHANGED <<overtaken, arrived>>

FInit == Init /\ overtaken = [s \in Session |-> {}] /\ arrived = {}

AdmissionLoop ==
  (\E o \in 0 .. (Len(order) - 1), t \in Task : AdmitTurn(o, t)) \/ Loop

FNext ==
  \/ AdmissionLoop
  \/ \E s \in Session, j \in Job : Arrive(s, j)
  \/ \E s \in Session, t \in Task : Take(s, t) \/ End(s, t)
  \/ \E s \in Session : Leave(s)

\* The loop runs to its end; workers keep asking for tasks and every kernel
\* ends; run() releases its session when that is drained.  Nobody has to
\* submit.
Fairness ==
  /\ WF_fvars(AdmissionLoop)
  /\ \A s \in Session :
       /\ WF_fvars(Drained(s) /\ Leave(s))
       /\ \A t \in Task : WF_fvars(Take(s, t)) /\ WF_fvars(End(s, t))

FSpec == FInit /\ [][FNext]_fvars /\ Fairness

-----------------------------------------------------------------------------
(* Properties.                                                             *)

\* Round robin inside a class: no session is admitted twice while another
\* session of its class could have been admitted both times and every time
\* between, whoever comes and goes, unless the other classes had a turn.
NoDoubleTurn ==
  [][\A a, s \in Session :
       /\ admitted'[a] > admitted[a]
       /\ a # s
       /\ CanAdmit(s)
       /\ job[s].priority = job[a].priority
       => a \notin overtaken[s]]_fvars

=============================================================================
