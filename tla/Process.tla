------------------------------- MODULE Process -------------------------------
(***************************************************************************)
(* The process around the database thread (src/src/main.rs): it opens the  *)
(* database, takes over its socket, accepts until it is told to stop and   *)
(* removes the socket file.  It may die at any moment, and daemontools     *)
(* starts it again.  Handlers are the callers of module DbWriter; they run *)
(* on while the accept loop has ended, until the runtime is dropped.       *)
(***************************************************************************)
EXTENDS DbWriter

CONSTANT
  Address  \* BIND_ADDR: "unix", a socket file, or "tcp"

ASSUME AddressAssumption == Address \in {"unix", "tcp"}

VARIABLES
  process,  \* what main is doing; "off" when there is no process
  socket    \* the socket file: none, the listener's own, or one an earlier one left

server == <<process, socket>>
allVars == <<vars, server>>

Accepting == process = "listening"
Up == process \in {"listening", "stopping", "leaving"}

ServerInit == Init /\ process = "off" /\ socket = "none"

-----------------------------------------------------------------------------

\* The configuration is read, and the thread set off.
Launch ==
  /\ process = "off"
  /\ Start
  /\ process' = "starting"
  /\ UNCHANGED socket

\* MUTANT: a file that is there stays.
FileToBind == socket

\* MUTANT: the file is removed once more, after the bind.
FileBoundThenRemoved == "none"

\* What remove_file leaves before the bind, and the bind leaves.
FileBeforeBind == "none"
FileAfterBind == IF Address = "unix" THEN "bound" ELSE "none"

\* bind fails on a file that exists.
Bind ==
  /\ process = "starting"
  /\ FileBeforeBind = "none"
  /\ process' = "listening"
  /\ socket' = FileAfterBind
  /\ UNCHANGED vars

\* The directory is not there, the file cannot be removed, the port is taken: main
\* panics.
BindFails ==
  /\ process = "starting"
  /\ Kill
  /\ process' = "off"
  /\ socket' \in {socket, FileBeforeBind}

\* SIGINT or SIGTERM ends the accept loop.
Signal ==
  /\ Accepting
  /\ process' = "stopping"
  /\ UNCHANGED <<vars, socket>>

RemoveSocket ==
  /\ process = "stopping"
  /\ process' = "leaving"
  /\ socket' = "none"
  /\ UNCHANGED vars

\* main returns; the handlers are dropped and the thread ends with the process.
Exit ==
  /\ process = "leaving"
  /\ Kill
  /\ process' = "off"
  /\ UNCHANGED socket

\* The process is killed at any point, and its socket file stays.
Crash ==
  /\ process # "off"
  /\ Kill
  /\ process' = "off"
  /\ socket' = IF socket = "bound" THEN "stale" ELSE socket

\* The thread works whatever main has reached.
ThreadStep == (Work \/ Panic) /\ UNCHANGED server

\* A handler of an accepted connection, or the sweep, makes a call.
HandlerStep ==
  /\ Up
  /\ \E c \in Callers : Call(c) \/ Abandon(c)
  /\ UNCHANGED server

ServerNext ==
  \/ Launch \/ Bind \/ BindFails
  \/ Signal \/ RemoveSocket \/ Exit
  \/ Crash
  \/ ThreadStep \/ HandlerStep

\* daemontools starts the process again, and main never waits on its way out.  That a
\* start which is tried again and again succeeds is asked of the machine: neither a
\* crash nor a failing bind strikes every time.
ServerFairness ==
  /\ WF_allVars(Launch) /\ SF_allVars(Bind)
  /\ WF_allVars(RemoveSocket) /\ WF_allVars(Exit)
  /\ Fairness

ServerSpec == ServerInit /\ [][ServerNext]_allVars /\ ServerFairness

-----------------------------------------------------------------------------
(* Properties *)

\* While the server accepts, the file is its listener's own, and nobody is led to a
\* listener by a file when there is no process.
SocketIsOurs ==
  /\ Accepting /\ Address = "unix" => socket = "bound"
  /\ socket = "bound" => Accepting \/ process = "stopping"

\* The server is up again and again: no file that an earlier process left behind keeps
\* the next one from starting (main.rs: "bind fails otherwise").
AlwaysUpAgain == []<>Accepting
=============================================================================
