---------------------------- MODULE ProxyServer ----------------------------
(***************************************************************************)
(* The process around the sessions: main's start-up sequence, the ready    *)
(* file it leaves for whoever started it, and TcpServer's accept loop.     *)
(* The process may be killed at any step and started again; files outlive  *)
(* it, sockets and sessions do not.                                        *)
(***************************************************************************)
EXTENDS Integers, Sequences, FiniteSets

CONSTANTS
  Ports,       \* ports the kernel may bind for port 0
  MaxStarts,   \* bound: how often the process is started
  MaxClients,  \* bound: how many clients connect to one process
  Descriptors  \* file descriptors the process has for its sessions

ASSUME BoundsAssumption == MaxStarts \in Nat /\ MaxClients \in Nat
ASSUME DescriptorsAssumption == Descriptors \in Nat \ {0}
ASSUME PortsAssumption == Ports \subseteq Nat

Absent == [state |-> "absent", port |-> 0]
Partial == [state |-> "partial", port |-> 0]    \* opened, not flushed yet
Whole(p) == [state |-> "whole", port |-> p]

VARIABLES
  pc,          \* where main is; "down" when there is no process
  starts,
  ready_wanted,   \* --ready-file was given
  port,        \* the endpoint Start() returned; 0 before
  listening,
  temporary_file, ready_file,
  backlog,     \* clients connected and not accepted
  clients,     \* clients that connected to this process
  next_session_id_,
  running,     \* ids of the sessions whose Run() has not ended
  connected    \* ids of those that have a remote socket too

files == <<temporary_file, ready_file>>
server == <<next_session_id_, running, connected>>
vars == <<pc, starts, ready_wanted, port, listening, files, backlog, clients,
          server>>

Init ==
  /\ pc = "down" /\ starts = 0 /\ ready_wanted = FALSE /\ port = 0 /\ listening = FALSE
  /\ temporary_file = Absent /\ ready_file = Absent
  /\ backlog = 0 /\ clients = 0
  /\ next_session_id_ = 1 /\ running = {} /\ connected = {}

-----------------------------------------------------------------------------
(***************************************************************************)
(* The end of the process: a return from main, or a kill at any moment.    *)
(***************************************************************************)
Exit ==
  /\ pc' = "down" /\ port' = 0 /\ listening' = FALSE
  /\ backlog' = 0 /\ clients' = 0
  /\ next_session_id_' = 1 /\ running' = {} /\ connected' = {}

Killed == pc # "down" /\ Exit /\ UNCHANGED <<starts, ready_wanted, files>>

\* Whoever started the process takes its ready file away when it has ended.
ReadyFileRemoved ==
  /\ pc = "down" /\ ready_file # Absent
  /\ ready_file' = Absent
  /\ UNCHANGED <<pc, starts, ready_wanted, port, listening, temporary_file, backlog,
                 clients, server>>

(***************************************************************************)
(* main up to the server's start.  The command line is refused when it     *)
(* names a ready file that exists already.                                 *)
(***************************************************************************)
ParseCommandLine ==
  /\ pc = "down" /\ starts < MaxStarts
  /\ starts' = starts + 1
  /\ ready_wanted' \in BOOLEAN
  /\ pc' = IF ready_wanted' /\ ready_file # Absent THEN "down" ELSE "init_log"
  /\ UNCHANGED <<port, listening, files, backlog, clients, server>>

\* log::Init opens the log file, which may throw; main does not catch it.
InitLog ==
  /\ pc = "init_log"
  /\ \/ pc' = "load_rules" /\ UNCHANGED <<port, listening, backlog, clients, server>>
     \/ Exit
  /\ UNCHANGED <<starts, ready_wanted, files>>

LoadRuleConfig ==
  /\ pc = "load_rules"
  /\ \/ pc' = "init_engine" /\ UNCHANGED <<port, listening, backlog, clients, server>>
     \/ Exit
  /\ UNCHANGED <<starts, ready_wanted, files>>

InitRuleEngine ==
  /\ pc = "init_engine"
  /\ \/ pc' = "start" /\ UNCHANGED <<port, listening, backlog, clients, server>>
     \/ Exit
  /\ UNCHANGED <<starts, ready_wanted, files>>

(***************************************************************************)
(* TcpServer::Start: parse the address, open, bind and listen, any of      *)
(* which may fail.  The accept loop it spawns runs when main runs the      *)
(* io_context.                                                             *)
(***************************************************************************)
Start ==
  /\ pc = "start"
  /\ \/ /\ port' \in Ports /\ listening' = TRUE
        /\ pc' = IF ready_wanted THEN "open_ready_file" ELSE "running"
        /\ UNCHANGED <<backlog, clients, server>>
     \/ Exit
  /\ UNCHANGED <<starts, ready_wanted, files>>

(***************************************************************************)
(* WriteReadyFile: open and truncate the temporary file, write and flush   *)
(* it, rename it.  A failure ends the process and leaves what is there.    *)
(***************************************************************************)
OpenInPlace ==   \* mutant: the ready file is written in place
  /\ pc = "open_ready_file"
  /\ temporary_file' = Partial /\ ready_file' = Partial
  /\ pc' = "write_ready_file"
  /\ UNCHANGED <<starts, ready_wanted, port, listening, backlog, clients, server>>

OpenReadyFile ==
  /\ pc = "open_ready_file"
  /\ \/ /\ temporary_file' = Partial
        /\ pc' = "write_ready_file"
        /\ UNCHANGED <<port, listening, backlog, clients, server>>
     \/ Exit /\ UNCHANGED temporary_file
  /\ UNCHANGED <<starts, ready_wanted, ready_file>>

FlushReadyFile ==
  /\ pc = "write_ready_file"
  /\ \/ /\ temporary_file' = Whole(port)
        /\ pc' = "rename_ready_file"
        /\ UNCHANGED <<port, listening, backlog, clients, server>>
     \/ Exit /\ UNCHANGED temporary_file
  /\ UNCHANGED <<starts, ready_wanted, ready_file>>

RenameReadyFile ==
  /\ pc = "rename_ready_file"
  /\ \/ /\ ready_file' = temporary_file /\ temporary_file' = Absent
        /\ pc' = "running"
        /\ UNCHANGED <<port, listening, backlog, clients, server>>
     \/ Exit /\ UNCHANGED files
  /\ UNCHANGED <<starts, ready_wanted>>

-----------------------------------------------------------------------------
\* The kernel completes connections from listen() on, accepted or not.
ClientConnects ==
  /\ listening /\ clients < MaxClients
  /\ clients' = clients + 1 /\ backlog' = backlog + 1
  /\ UNCHANGED <<pc, starts, ready_wanted, port, listening, files, server>>

(***************************************************************************)
(* The accept loop: a session of its own for every client.  Another error  *)
(* than operation_aborted is logged and the loop goes on at once.  Of the  *)
(* process's descriptors a session holds one for its client and, from      *)
(* ConnectRemote on, one for its server.                                   *)
(***************************************************************************)
InUse == Cardinality(running) + Cardinality(connected)
Exhausted == InUse >= Descriptors

AcceptNoIncrement ==   \* mutant: load() instead of fetch_add()
  /\ pc = "running" /\ backlog > 0 /\ ~Exhausted
  /\ backlog' = backlog - 1
  /\ running' = running \cup {next_session_id_}
  /\ UNCHANGED <<pc, starts, ready_wanted, port, listening, files, clients,
                 next_session_id_, connected>>

AcceptUnlessBusy ==   \* mutant: Run() awaited inside the accept loop
  /\ running = {}
  /\ pc = "running" /\ backlog > 0 /\ ~Exhausted
  /\ backlog' = backlog - 1
  /\ next_session_id_' = next_session_id_ + 1
  /\ running' = running \cup {next_session_id_}
  /\ UNCHANGED <<pc, starts, ready_wanted, port, listening, files, clients,
                 connected>>

Accept ==
  /\ pc = "running" /\ backlog > 0 /\ ~Exhausted
  /\ backlog' = backlog - 1
  /\ next_session_id_' = next_session_id_ + 1
  /\ running' = running \cup {next_session_id_}
  /\ UNCHANGED <<pc, starts, ready_wanted, port, listening, files, clients,
                 connected>>

\* The connection was gone before it was accepted, or there is no descriptor
\* for it and it stays where it is.
AcceptFails ==
  /\ pc = "running" /\ backlog > 0
  /\ \/ backlog' = backlog - 1
     \/ Exhausted /\ UNCHANGED backlog
  /\ UNCHANGED <<pc, starts, ready_wanted, port, listening, files, clients, server>>

SessionConnects ==
  /\ pc = "running" /\ ~Exhausted
  /\ \E id \in running \ connected : connected' = connected \cup {id}
  /\ UNCHANGED <<pc, starts, ready_wanted, port, listening, files, backlog, clients,
                 next_session_id_, running>>

\* CloseRemote, before a connection to another host.
SessionDisconnects ==
  /\ pc = "running"
  /\ \E id \in connected : connected' = connected \ {id}
  /\ UNCHANGED <<pc, starts, ready_wanted, port, listening, files, backlog, clients,
                 next_session_id_, running>>

\* Run() returns or throws; the completion handler swallows the exception.
\* The sockets go with the session.
SessionEnds ==
  /\ pc = "running"
  /\ \E id \in running :
       running' = running \ {id} /\ connected' = connected \ {id}
  /\ UNCHANGED <<pc, starts, ready_wanted, port, listening, files, backlog, clients,
                 next_session_id_>>

Main == \/ InitLog \/ LoadRuleConfig \/ InitRuleEngine \/ Start
        \/ OpenReadyFile \/ FlushReadyFile \/ RenameReadyFile

Next == \/ ParseCommandLine \/ Main \/ Killed \/ ReadyFileRemoved
        \/ ClientConnects \/ Accept \/ AcceptFails
        \/ SessionConnects \/ SessionDisconnects \/ SessionEnds

(***************************************************************************)
(* A process that is not killed goes on with main and, then, with its      *)
(* accept loop, which succeeds in the end when there is a client and,      *)
(* continuously, a descriptor for it.  Sessions need not end.              *)
(***************************************************************************)
Spec == Init /\ [][Next]_vars /\ WF_vars(Main) /\ WF_vars(Accept)

-----------------------------------------------------------------------------
(***************************************************************************)
(* Types of the process's state.                                           *)
(***************************************************************************)
FileContents == {Absent, Partial} \cup {Whole(p) : p \in Ports}
TypeOK ==
  /\ pc \in {"down", "init_log", "load_rules", "init_engine", "start",
            "open_ready_file", "write_ready_file", "rename_ready_file", "running"}
  /\ starts \in 0 .. MaxStarts /\ ready_wanted \in BOOLEAN /\ port \in Ports \cup {0}
  /\ listening \in BOOLEAN
  /\ temporary_file \in FileContents /\ ready_file \in FileContents
  /\ backlog \in 0 .. clients /\ clients \in 0 .. MaxClients
  /\ next_session_id_ \in Nat /\ running \subseteq 1 .. next_session_id_ - 1
  /\ connected \subseteq running /\ InUse <= Descriptors

(***************************************************************************)
(* Whoever reads the ready file finds the whole of it.  While a process    *)
(* that was asked for the file lives, it names the port this process       *)
(* listens on; when there is none, a file that a killed process left may   *)
(* name a server that is dead.  Kills between open, flush and rename, and  *)
(* files left over by an earlier process, do not change that.              *)
(***************************************************************************)
ReadyFileWhole ==
  /\ ready_file # Partial
  /\ pc # "down" /\ ready_wanted /\ ready_file # Absent =>
       listening /\ ready_file = Whole(port)

(***************************************************************************)
(* The n-th client that connected, even before the accept loop ran, is     *)
(* accepted or found gone unless the process ends or the descriptors run   *)
(* out again and again: sessions that go on for ever or throw, accepts     *)
(* that fail, and a shortage that ends, do not stop the loop.              *)
(***************************************************************************)
ClientsTaken ==
  <>[]~Exhausted =>
    \A n \in 1 .. MaxClients :
      clients >= n ~> clients - backlog >= n \/ pc = "down"

=============================================================================
