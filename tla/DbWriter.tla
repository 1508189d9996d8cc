------------------------------ MODULE DbWriter ------------------------------
(***************************************************************************)
(* The database thread: it opens the file, brings the schema up to date    *)
(* and then runs, one at a time, the jobs its callers queue.  A caller     *)
(* waits for the reply to its job; it may be dropped while it waits, and   *)
(* the process may die at any moment.  Only `version`, `objects` and       *)
(* `applied` are on disk.                                                  *)
(***************************************************************************)
EXTENDS Integers, Sequences, SequencesExt

CONSTANTS
  Callers,  \* calls of Db::call, each made once
  Scripts   \* Scripts[m]: the tables and indexes migration m creates, in order

ASSUME ScriptsAssumption == Scripts \in Seq(Seq(STRING))

VARIABLES
  version,    \* PRAGMA user_version
  objects,    \* the tables and indexes in the file
  applied,    \* history: the callers whose jobs ran, in the order they did
  writer,     \* what the thread is doing; "off" when there is no process
  migration,  \* the migration it is at
  todo,       \* what the script of that migration has left to create
  queue,      \* the channel of jobs
  calls,      \* state of each call
  sent        \* history: the callers in the order they queued their jobs

disk == <<version, objects, applied>>
migrations == <<migration, todo>>
vars == <<disk, writer, migrations, queue, calls, sent>>

CallEnd == {"answered", "panicked", "killed"}

Init ==
  /\ version = 0
  /\ objects = {}
  /\ applied = <<>>
  /\ writer = "off"
  /\ migration = 0 /\ todo = <<>>
  /\ queue = <<>>
  /\ calls = [c \in Callers |-> "idle"]
  /\ sent = <<>>

-----------------------------------------------------------------------------
(* The thread *)

\* main opens the database before it binds its socket, and the thread goes on alone.
Start ==
  /\ writer = "off"
  /\ writer' = "opening"
  /\ UNCHANGED <<disk, migrations, queue, calls, sent>>

\* The script of migration m; there is none after the last.
Script(m) == IF m \in DOMAIN Scripts THEN Scripts[m] ELSE <<>>

At(m) == migration' = m /\ todo' = Script(m)

\* The migrations numbered above the version found are run in order.
ReadVersion ==
  /\ writer = "opening"
  /\ writer' = "migrating"
  /\ At(version + 1)
  /\ UNCHANGED <<disk, queue, calls, sent>>

Exists(object) == object \in objects

\* Outside a transaction each statement of a script commits by itself.
Create ==
  /\ writer = "migrating" /\ todo # <<>>
  /\ ~Exists(Head(todo))
  /\ objects' = objects \cup {Head(todo)}
  /\ todo' = Tail(todo)
  /\ UNCHANGED <<version, applied, writer, migration, queue, calls, sent>>

\* MUTANT: the version recorded is the next one's.
RecordedNext(m) == m + 1

Recorded(m) == m

\* PRAGMA user_version, when the script is through.
SetVersion ==
  /\ writer = "migrating" /\ todo = <<>>
  /\ migration <= Len(Scripts)
  /\ version' = Recorded(migration)
  /\ At(migration + 1)
  /\ UNCHANGED <<objects, applied, writer, queue, calls, sent>>

\* MUTANT: jobs are served before the migrations are through.
OpenEarly ==
  /\ writer = "migrating"
  /\ writer' = "serving"
  /\ UNCHANGED <<disk, migrations, queue, calls, sent>>

OpenForJobs ==
  /\ writer = "migrating" /\ migration > Len(Scripts)
  /\ writer' = "serving"
  /\ UNCHANGED <<disk, migrations, queue, calls, sent>>

\* MUTANT: a caller is left waiting.
AfterPanicStill(state) == state

\* The channel and the jobs in it are gone, and with them the replies.
AfterPanic(state) == IF state = "waiting" THEN "panicked" ELSE state

\* Opening the file, configuring it or a migration fails (a table that exists is one
\* reason, the disk another) and the thread panics; the process goes on without it.
Panic ==
  /\ writer \in {"opening", "migrating"}
  /\ writer' = "dead"
  /\ queue' = <<>>
  /\ calls' = [c \in Callers |-> AfterPanic(calls[c])]
  /\ UNCHANGED <<disk, migrations, sent>>

\* MUTANT: the newest job runs first.
NewestJob == Len(queue)

NextJob == 1

\* One job runs; a caller that has been dropped is not there to get the reply.
Serve ==
  LET c == queue[NextJob] IN
  /\ writer = "serving" /\ queue # <<>>
  /\ applied' = Append(applied, c)
  /\ queue' = RemoveAt(queue, NextJob)
  /\ calls' = [calls EXCEPT ![c] = IF @ = "waiting" THEN "answered" ELSE @]
  /\ UNCHANGED <<version, objects, writer, migrations, sent>>

-----------------------------------------------------------------------------
(* The callers *)

\* MUTANT: the reply does not wait for the job.
AfterSendAtOnce == "answered"

AfterSend == "waiting"

\* Db::call queues its job, whatever the thread has reached, or panics without one.
Call(c) ==
  /\ calls[c] = "idle" /\ writer # "off"
  /\ IF writer = "dead"
     THEN /\ calls' = [calls EXCEPT ![c] = "panicked"]
          /\ UNCHANGED <<queue, sent>>
     ELSE /\ calls' = [calls EXCEPT ![c] = AfterSend]
          /\ queue' = Append(queue, c)
          /\ sent' = Append(sent, c)
  /\ UNCHANGED <<disk, writer, migrations>>

\* MUTANT: a dropped caller takes its job out of the queue.
QueueWithout(c) == SelectSeq(queue, LAMBDA d : d # c)

QueueAfterDrop(c) == queue

\* The future that waits is dropped; its job stays in the queue.
Abandon(c) ==
  /\ calls[c] = "waiting"
  /\ calls' = [calls EXCEPT ![c] = "abandoned"]
  /\ queue' = QueueAfterDrop(c)
  /\ UNCHANGED <<disk, writer, migrations, sent>>

\* The process is killed: everything but the file is gone, jobs nobody waits for too.
Kill ==
  /\ writer # "off"
  /\ writer' = "off"
  /\ migration' = 0 /\ todo' = <<>>
  /\ queue' = <<>>
  /\ calls' = [c \in Callers |-> IF calls[c] \in {"waiting", "abandoned"}
                             THEN "killed" ELSE calls[c]]
  /\ UNCHANGED <<disk, sent>>

-----------------------------------------------------------------------------

Work == ReadVersion \/ Create \/ SetVersion \/ OpenForJobs \/ Serve

Next ==
  \/ Start \/ Work \/ Panic
  \/ \E c \in Callers : Call(c) \/ Abandon(c)
  \/ Kill

Spec == Init /\ [][Next]_vars

\* The thread is a loop that never waits for anything but jobs.  When a table exists it
\* panics.
Fairness == WF_vars(Work) /\ WF_vars(Panic /\ todo # <<>> /\ Exists(Head(todo)))

-----------------------------------------------------------------------------
(* Properties *)

Position(c) == CHOOSE i \in DOMAIN sent : sent[i] = c
ScriptObjects(m) == UNION {ToSet(Scripts[i]) : i \in 1 .. m}

\* Every variable stays in its type.
TypeOK ==
  /\ version \in 0 .. Len(Scripts)
  /\ objects \subseteq ScriptObjects(Len(Scripts))
  /\ writer \in {"off", "opening", "migrating", "serving", "dead"}
  /\ migration \in 0 .. Len(Scripts) + 1
  /\ ToSet(todo) \subseteq ScriptObjects(Len(Scripts))
  /\ \A s \in {applied, queue, sent} : ToSet(s) \subseteq Callers
  /\ calls \in [Callers -> {"idle", "waiting", "abandoned"} \cup CallEnd]

\* Jobs run in the order they were queued and none runs twice, whichever callers are
\* dropped in between and however often the process starts (db/mod.rs: every query is
\* funnelled through one thread).
JobsRunOnceInOrder ==
  /\ ToSet(applied) \subseteq ToSet(sent)
  /\ \A i, j \in DOMAIN applied : i < j => Position(applied[i]) < Position(applied[j])

\* A caller with a reply knows that its job ran, and one that panicked waiting for it
\* that it did not: the thread dies only before it has run any job.
RepliesAreTrue ==
  \A c \in Callers : /\ calls[c] = "answered" => c \in ToSet(applied)
                     /\ calls[c] = "panicked" => c \notin ToSet(applied)

\* A job runs on the schema of the last migration, whole, even one queued while the
\* migrations were running.
JobsRunOnFullSchema ==
  [][applied' # applied => /\ version = Len(Scripts)
                           /\ objects = ScriptObjects(Len(Scripts))]_vars

\* A caller that waits gets its reply or panics, or the process dies: none waits on a
\* thread that is gone.
CallsSettle ==
  \A c \in Callers : calls[c] = "waiting" ~> calls[c] \in CallEnd \cup {"abandoned"}

\* A job whose caller was dropped runs all the same, unless the thread is gone first.
AbandonedJobsRun ==
  \A c \in Callers :
    calls[c] = "abandoned" ~> c \in ToSet(applied) \/ calls[c] = "killed" \/ writer = "dead"

\* What became of each job, and of each caller.
Jobs ==
  [c \in Callers |-> IF c \in ToSet(applied) THEN "done"
                     ELSE IF c \in ToSet(queue) THEN "queued"
                     ELSE IF c \in ToSet(sent) THEN "lost" ELSE "unsent"]

Outcomes ==
  [c \in Callers |-> IF calls[c] = "panicked" THEN "failed"
                     ELSE IF calls[c] \in {"abandoned", "killed"} THEN "gone" ELSE calls[c]]

\* The abstract call.
Calls == INSTANCE DbCalls WITH jobs <- Jobs, callers <- Outcomes

\* The channel, the oneshot replies and the thread together are a call that runs its
\* job once or never, answers when it has run and only then, and loses all the jobs
\* it holds or none (db/mod.rs).
ImplementsCalls == Calls!Spec

-----------------------------------------------------------------------------
(* What the comment says and the code does not do. *)

\* Each migration is applied in its own transaction (db/mod.rs): what a process that
\* ends leaves behind is the schema of the version it recorded.
MigrationsAreAtomic == writer = "off" => objects = ScriptObjects(version)
=============================================================================
