------------------------------- MODULE DbCalls -------------------------------
(***************************************************************************)
(* What Db::call promises, whatever is behind it: a job runs once or not   *)
(* at all, and a caller that waits is answered when its job has run.  Jobs *)
(* that have not run when the service goes away are lost together.         *)
(***************************************************************************)
CONSTANT Callers

VARIABLES
  jobs,    \* jobs[c]: what became of the job of caller c
  callers  \* callers[c]: what became of the caller

vars == <<jobs, callers>>

Init ==
  /\ jobs = [c \in Callers |-> "unsent"]
  /\ callers = [c \in Callers |-> "idle"]

Queue(c) ==
  /\ callers[c] = "idle"
  /\ jobs' = [jobs EXCEPT ![c] = "queued"]
  /\ callers' = [callers EXCEPT ![c] = "waiting"]

\* There is no service to send the job to.
Refuse(c) ==
  /\ callers[c] = "idle"
  /\ callers' = [callers EXCEPT ![c] = "failed"]
  /\ UNCHANGED jobs

Run(c) ==
  /\ jobs[c] = "queued"
  /\ jobs' = [jobs EXCEPT ![c] = "done"]
  /\ callers' = [callers EXCEPT ![c] = IF @ = "waiting" THEN "answered" ELSE @]

\* The caller no longer waits; the job is not its own any more.
Leave(c) ==
  /\ callers[c] = "waiting"
  /\ callers' = [callers EXCEPT ![c] = "gone"]
  /\ UNCHANGED jobs

\* The service goes away, and the callers hear of it or go with it.
Lose ==
  /\ jobs' = [c \in Callers |-> IF jobs[c] = "queued" THEN "lost" ELSE jobs[c]]
  /\ \E fate \in {"failed", "gone"} :
       callers' = [c \in Callers |-> IF callers[c] = "waiting" THEN fate ELSE callers[c]]

Next == \/ \E c \in Callers : Queue(c) \/ Refuse(c) \/ Run(c) \/ Leave(c)
        \/ Lose

Spec == Init /\ [][Next]_vars
=============================================================================
