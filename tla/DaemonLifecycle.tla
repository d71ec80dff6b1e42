--------------------------- MODULE DaemonLifecycle ---------------------------
(***************************************************************************)
(* Daemons, command lines and clients meet in the file system: the PID     *)
(* file, whose lock is to keep daemons from running side by side, and the  *)
(* socket file.  Both can be unlinked by anybody, at any time, while the   *)
(* daemon they belong to holds them open.                                  *)
(*                                                                         *)
(* A file has the name of the daemon that created it: `pidFile` says which *)
(* file the path leads to, `socket` whose listener.  PIDs are not reused   *)
(* (pid_is_mcproc_daemon tells a daemon from another process that has its  *)
(* PID), so a PID, too, is the daemon.                                     *)
(***************************************************************************)
EXTENDS Naturals

CONSTANTS Daemons,  \* daemon processes ever spawned
          Commands, \* command lines and clients, each of which runs once
          Kinds,    \* what they run
          None      \* no daemon, no file, nothing written

ASSUME DaemonAssumption ==
  /\ None \notin Daemons
  /\ Kinds \subseteq {"start", "stop", "restart", "status", "connect"}

VARIABLES
  \* the file system
  pidFile, \* the file the PID file's path leads to
  content, \* what is written in each PID file
  lock,    \* who holds the lock of each PID file
  socket,  \* whose listener the socket's path leads to
  \* each daemon
  dpc,     \* where run_daemon is
  handle,  \* the PID file it opened
  server,  \* where its gRPC server task is
  term,    \* it has a SIGTERM to handle
  \* each command
  kind,    \* what it runs
  cpc,     \* where it is
  pid,     \* the PID it read last
  target,  \* the daemon it signalled
  child,   \* the daemon it spawned
  \* history
  pulled   \* daemons from under which somebody else unlinked a file

fileVars   == <<pidFile, content, lock, socket>>
daemonVars == <<dpc, handle, server, term>>
localVars  == <<kind, pid, target, child>>
vars == <<fileVars, daemonVars, localVars, cpc, pulled>>

Alive(d)  == dpc[d] \notin {"unborn", "gone"}
(* Past the lock, and not yet past everything else. *)
Active(d) == dpc[d] \in {"truncate", "write", "spawn", "handler", "serve", "stopping"}
(* connect() succeeds from bind() on, whoever serves the connection. *)
Listening(d) == Alive(d) /\ server[d] \in {"chmod", "up"}
Connectable  == socket # None /\ Listening(socket)
(* The PID a reader finds in the PID file. *)
PidRead == IF pidFile = None THEN None ELSE content[pidFile]

(* With nothing left to do but exit. *)
Over(d) == dpc[d] \in {"exiting", "gone"}

(* `who` unlinks whatever the PID file's path leads to. *)
UnlinkPid(who) ==
  /\ pidFile' = None
  /\ pulled' = pulled \cup {d \in Daemons \ {who} :
                  ~Over(d) /\ handle[d] # None /\ handle[d] = pidFile}

UnlinkSocket ==
  /\ socket' = None
  /\ pulled' = pulled \cup {d \in Daemons : d = socket /\ ~Over(d)}

(* A process ends: its lock goes, its listener goes, its files stay. *)
End(d) ==
  /\ dpc' = [dpc EXCEPT ![d] = "gone"]
  /\ server' = [server EXCEPT ![d] = "none"]
  /\ lock' = [f \in Daemons |-> IF lock[f] = d THEN None ELSE lock[f]]
  /\ UNCHANGED <<handle, term>>

Daemon(d, from, to) == dpc[d] = from /\ dpc' = [dpc EXCEPT ![d] = to]
Serve(d, from, to)  == server[d] = from /\ server' = [server EXCEPT ![d] = to]

-----------------------------------------------------------------------------
(* Faulty variants, one plausible bug each; never part of Next.            *)

(* Serves before it knows that it is alone. *)
OpenPidFile_ServeFirst(d) ==
  /\ Daemon(d, "open", "lock")
  /\ pidFile' = IF pidFile = None THEN d ELSE pidFile
  /\ handle' = [handle EXCEPT ![d] = pidFile']
  /\ server' = [server EXCEPT ![d] = "look"]
  /\ UNCHANGED <<content, lock, socket, term, localVars, cpc, pulled>>

(* Writes its PID into the file it opened, then asks for the lock. *)
OpenPidFile_Write(d) ==
  /\ Daemon(d, "open", "lock")
  /\ pidFile' = IF pidFile = None THEN d ELSE pidFile
  /\ handle' = [handle EXCEPT ![d] = pidFile']
  /\ content' = [content EXCEPT ![pidFile'] = d]
  /\ UNCHANGED <<lock, socket, server, term, localVars, cpc, pulled>>

(* Goes on without the lock. *)
LockPidFile_Anyway(d) ==
  /\ Daemon(d, "lock", "truncate")
  /\ lock' = [lock EXCEPT ![handle[d]] = IF @ = None THEN d ELSE @]
  /\ UNCHANGED <<pidFile, content, socket, handle, server, term, localVars, cpc, pulled>>

(* Gives the PID file up first, then stops the processes. *)
BeginShutdown_UnlinkFirst(d) ==
  /\ Daemon(d, "serve", "stopping")
  /\ term[d] \/ server[d] = "failed"
  /\ UnlinkPid(d)
  /\ UNCHANGED <<content, lock, socket, handle, server, term, localVars, cpc>>

-----------------------------------------------------------------------------
(* run_daemon.                                                             *)

OpenPidFile(d) ==
  /\ Daemon(d, "open", "lock")
  /\ pidFile' = IF pidFile = None THEN d ELSE pidFile
  /\ handle' = [handle EXCEPT ![d] = pidFile']
  /\ UNCHANGED <<content, lock, socket, server, term, localVars, cpc, pulled>>

LockPidFile(d) ==
  /\ Daemon(d, "lock", "truncate")
  /\ lock[handle[d]] = None
  /\ lock' = [lock EXCEPT ![handle[d]] = d]
  /\ UNCHANGED <<pidFile, content, socket, handle, server, term, localVars, cpc, pulled>>

LockRefused(d) ==
  /\ dpc[d] = "lock" /\ lock[handle[d]] # None
  /\ End(d)
  /\ UNCHANGED <<pidFile, content, socket, localVars, cpc, pulled>>

TruncatePidFile(d) ==
  /\ Daemon(d, "truncate", "write")
  /\ content' = [content EXCEPT ![handle[d]] = None]
  /\ UNCHANGED <<pidFile, lock, socket, handle, server, term, localVars, cpc, pulled>>

WritePid(d) ==
  /\ Daemon(d, "write", "spawn")
  /\ content' = [content EXCEPT ![handle[d]] = d]
  /\ UNCHANGED <<pidFile, lock, socket, handle, server, term, localVars, cpc, pulled>>

SpawnServer(d) ==
  /\ Daemon(d, "spawn", "handler")
  /\ server' = [server EXCEPT ![d] = "look"]
  /\ UNCHANGED <<fileVars, handle, term, localVars, cpc, pulled>>

InstallHandler(d) ==
  /\ Daemon(d, "handler", "serve")
  /\ UNCHANGED <<fileVars, handle, server, term, localVars, cpc, pulled>>

(* The signal, or the end of the server task. *)
BeginShutdown(d) ==
  /\ Daemon(d, "serve", "stopping")
  /\ term[d] \/ server[d] = "failed"
  /\ UNCHANGED <<fileVars, handle, server, term, localVars, cpc, pulled>>

(* All processes are stopped and all logs drained; the path may lead to    *)
(* another daemon's file by now.                                           *)
RemovePidFile(d) ==
  /\ Daemon(d, "stopping", "exiting")
  /\ UnlinkPid(d)
  /\ UNCHANGED <<content, lock, socket, handle, server, term, localVars, cpc>>

Exit(d) ==
  /\ dpc[d] = "exiting"
  /\ End(d)
  /\ UNCHANGED <<pidFile, content, socket, localVars, cpc, pulled>>

(* A crash, or somebody else's SIGKILL. *)
Crash(d) ==
  /\ Alive(d)
  /\ End(d)
  /\ UNCHANGED <<pidFile, content, socket, localVars, cpc, pulled>>

-----------------------------------------------------------------------------
(* start_grpc_server, a task of its own until the daemon exits.            *)

LookForSocket(d) ==
  /\ Serve(d, "look", IF socket = None THEN "bind" ELSE "unlink")
  /\ UNCHANGED <<fileVars, dpc, handle, term, localVars, cpc, pulled>>

RemoveOldSocket(d) ==
  /\ Serve(d, "unlink", IF socket = None THEN "failed" ELSE "bind")
  /\ IF socket = None THEN UNCHANGED <<socket, pulled>> ELSE UnlinkSocket
  /\ UNCHANGED <<pidFile, content, lock, dpc, handle, term, localVars, cpc>>

BindSocket(d) ==
  /\ Serve(d, "bind", IF socket = None THEN "chmod" ELSE "failed")
  /\ socket' = IF socket = None THEN d ELSE socket
  /\ UNCHANGED <<pidFile, content, lock, dpc, handle, term, localVars, cpc, pulled>>

SetPermissions(d) ==
  /\ Serve(d, "chmod", IF socket = None THEN "failed" ELSE "up")
  /\ UNCHANGED <<fileVars, dpc, handle, term, localVars, cpc, pulled>>

-----------------------------------------------------------------------------
(* The command line: is_daemon_running_with_details.                       *)

Client(c) == kind[c] \in {"connect", "status"}
Command(c, from, to) == cpc[c] = from /\ cpc' = [cpc EXCEPT ![c] = to]

(* Where a command goes on when the check says yes, or no (having read the *)
(* PID p).                                                                 *)
WhenRunning(c) ==
  IF target[c] # None THEN "probe"
  ELSE CASE kind[c] \in {"stop", "restart"} -> "signal"
         [] kind[c] = "status" -> "glance"
         [] OTHER -> "done"
WhenNotRunning(c, p) ==
  CASE kind[c] = "restart" -> IF target[c] = None THEN "spawn" ELSE "unsocket"
    [] kind[c] = "stop" /\ target[c] # None -> "stopped"
    [] OTHER -> IF p # None THEN "unpid" ELSE IF kind[c] = "status" THEN "done" ELSE "unsocket"

(* A faulty variant: a socket that cannot be connected to settles it, too. *)
Probe_SocketOnly(c) ==
  /\ Command(c, "probe", IF Connectable THEN WhenRunning(c) ELSE WhenNotRunning(c, None))
  /\ UNCHANGED <<fileVars, daemonVars, localVars, pulled>>

Begin(c, k) ==
  /\ Command(c, "new", IF k = "connect" THEN "glance" ELSE "probe")
  /\ kind' = [kind EXCEPT ![c] = k]
  /\ UNCHANGED <<fileVars, daemonVars, pid, target, child, pulled>>

(* A socket that can be connected to settles it. *)
Probe(c) ==
  /\ Command(c, "probe", IF Connectable THEN WhenRunning(c) ELSE "read")
  /\ UNCHANGED <<fileVars, daemonVars, localVars, pulled>>

ReadPid(c) ==
  /\ Command(c, "read", IF PidRead = None THEN WhenNotRunning(c, None) ELSE "judge")
  /\ pid' = [pid EXCEPT ![c] = PidRead]
  /\ UNCHANGED <<fileVars, daemonVars, kind, target, child, pulled>>

JudgePid(c) ==
  /\ Command(c, "judge", IF Alive(pid[c]) THEN WhenRunning(c) ELSE WhenNotRunning(c, pid[c]))
  /\ UNCHANGED <<fileVars, daemonVars, localVars, pulled>>

(* DaemonCommand::execute.                                                 *)

RemoveStalePid(c) ==
  /\ Command(c, "unpid", IF kind[c] = "stop" /\ target[c] # None THEN "killed" ELSE "unsocket")
  /\ UnlinkPid(None)
  /\ UNCHANGED <<content, lock, socket, daemonVars, localVars>>

RemoveStaleSocket(c) ==
  /\ Command(c, "unsocket", IF kind[c] \in {"start", "restart"} THEN "spawn" ELSE "done")
  /\ UnlinkSocket
  /\ UNCHANGED <<pidFile, content, lock, daemonVars, localVars>>

(* SIGTERM for the daemon whose PID the file holds now: fatal until the    *)
(* handler is there.                                                       *)
SignalDaemon(c) ==
  LET d == PidRead IN
  /\ cpc[c] = "signal"
  /\ IF d = None THEN
       /\ cpc' = [cpc EXCEPT ![c] = "error"]
       /\ UNCHANGED <<lock, daemonVars, target>>
     ELSE IF ~Alive(d) THEN
       /\ cpc' = [cpc EXCEPT ![c] = "error"]
       /\ UNCHANGED <<lock, daemonVars, target>>
     ELSE
       /\ cpc' = [cpc EXCEPT ![c] = "probe"]
       /\ target' = [target EXCEPT ![c] = d]
       /\ IF dpc[d] \in {"serve", "stopping", "exiting"}
            THEN term' = [term EXCEPT ![d] = TRUE] /\ UNCHANGED <<lock, dpc, handle, server>>
            ELSE End(d)
  /\ UNCHANGED <<pidFile, content, socket, kind, pid, child, pulled>>

(* daemon_shutdown_timeout_ms are over: SIGKILL. *)
KillDaemon(c) ==
  /\ cpc[c] = "probe" /\ target[c] # None
  /\ IF Alive(target[c])
       THEN End(target[c]) /\ cpc' = [cpc EXCEPT ![c] = "unpid"]
       ELSE UNCHANGED <<lock, daemonVars>> /\ cpc' = [cpc EXCEPT ![c] = "error"]
  /\ UNCHANGED <<pidFile, content, socket, localVars, pulled>>

(* start_daemon, and spawn_daemon of a client. *)
SpawnDaemon(c, d) ==
  /\ dpc[d] = "unborn"
  /\ dpc' = [dpc EXCEPT ![d] = "open"]
  /\ Command(c, "spawn", "await")
  /\ child' = [child EXCEPT ![c] = d]
  /\ UNCHANGED <<fileVars, handle, server, term, kind, pid, target, pulled>>

DaemonStarted(c) ==
  /\ ~Client(c)
  /\ Command(c, "await", "done")
  /\ pidFile # None /\ Connectable
  /\ UNCHANGED <<fileVars, daemonVars, localVars, pulled>>

(* startup_timeout_ms are over. *)
StartFailed(c) ==
  /\ ~Client(c)
  /\ Command(c, "await", "error")
  /\ IF Alive(child[c]) THEN End(child[c]) ELSE UNCHANGED <<lock, daemonVars>>
  /\ UNCHANGED <<pidFile, content, socket, localVars, pulled>>

-----------------------------------------------------------------------------
(* DaemonClient::connect; `daemon status` asks the daemon for details.     *)

Glance(c) ==
  /\ Command(c, "glance", IF PidRead = None THEN "spawn" ELSE "glanced")
  /\ pid' = [pid EXCEPT ![c] = PidRead]
  /\ UNCHANGED <<fileVars, daemonVars, kind, target, child, pulled>>

JudgeGlance(c) ==
  /\ Command(c, "glanced", IF Alive(pid[c]) THEN "dial" ELSE "spawn")
  /\ UNCHANGED <<fileVars, daemonVars, localVars, pulled>>

Dial(c) ==
  /\ Command(c, "dial", IF Connectable THEN "connected" ELSE "error")
  /\ UNCHANGED <<fileVars, daemonVars, localVars, pulled>>

(* One of the twenty attempts, or the last. *)
DialAgain(c) ==
  /\ Client(c)
  /\ Command(c, "await", IF Connectable THEN "connected" ELSE "error")
  /\ UNCHANGED <<fileVars, daemonVars, localVars, pulled>>

(* The daemon has the client's version, or another one: the client has a   *)
(* `daemon restart` run.                                                   *)
CheckVersion(c, same) ==
  /\ Command(c, "connected", IF same THEN "done" ELSE "probe")
  /\ kind' = [kind EXCEPT ![c] = IF same THEN @ ELSE "restart"]
  /\ UNCHANGED <<fileVars, daemonVars, pid, target, child, pulled>>

-----------------------------------------------------------------------------
(* Nothing runs, or one daemon serves. *)
Init ==
  \E up \in {{}} \cup {{d} : d \in Daemons} :
    /\ pidFile = IF up = {} THEN None ELSE CHOOSE d \in up : TRUE
    /\ socket = pidFile
    /\ content = [f \in Daemons |-> IF f \in up THEN f ELSE None]
    /\ lock = content
    /\ handle = content
    /\ dpc = [d \in Daemons |-> IF d \in up THEN "serve" ELSE "unborn"]
    /\ server = [d \in Daemons |-> IF d \in up THEN "up" ELSE "none"]
    /\ term = [d \in Daemons |-> FALSE]
    /\ kind = [c \in Commands |-> "none"]
    /\ cpc = [c \in Commands |-> "new"]
    /\ pid = [c \in Commands |-> None]
    /\ target = pid
    /\ child = pid
    /\ pulled = {}

DaemonStep(d) ==
  \/ OpenPidFile(d) \/ LockPidFile(d) \/ LockRefused(d) \/ TruncatePidFile(d) \/ WritePid(d)
  \/ SpawnServer(d) \/ InstallHandler(d) \/ BeginShutdown(d) \/ RemovePidFile(d) \/ Exit(d)
  \/ Crash(d)
  \/ LookForSocket(d) \/ RemoveOldSocket(d) \/ BindSocket(d) \/ SetPermissions(d)

CommandStep(c) ==
  \/ \E k \in Kinds : Begin(c, k)
  \/ Probe(c) \/ ReadPid(c) \/ JudgePid(c)
  \/ RemoveStalePid(c) \/ RemoveStaleSocket(c)
  \/ SignalDaemon(c) \/ KillDaemon(c)
  \/ \E d \in Daemons : SpawnDaemon(c, d)
  \/ DaemonStarted(c) \/ StartFailed(c)
  \/ Glance(c) \/ JudgeGlance(c) \/ Dial(c) \/ DialAgain(c)
  \/ \E same \in BOOLEAN : CheckVersion(c, same)

Next == (\E d \in Daemons : DaemonStep(d)) \/ (\E c \in Commands : CommandStep(c))

Spec == Init /\ [][Next]_vars

-----------------------------------------------------------------------------
(* Properties.                                                             *)

MaybeDaemon == Daemons \cup {None}

(* Every variable has its type; only a daemon that holds its PID file serves. *)
TypeOK ==
  /\ pidFile \in MaybeDaemon /\ socket \in MaybeDaemon
  /\ content \in [Daemons -> MaybeDaemon] /\ lock \in [Daemons -> MaybeDaemon]
  /\ dpc \in [Daemons -> {"unborn", "open", "lock", "truncate", "write", "spawn", "handler",
                          "serve", "stopping", "exiting", "gone"}]
  /\ handle \in [Daemons -> MaybeDaemon]
  /\ server \in [Daemons -> {"none", "look", "unlink", "bind", "chmod", "up", "failed"}]
  /\ \A d \in Daemons :
       server[d] # "none" => dpc[d] \in {"handler", "serve", "stopping", "exiting"}
  /\ term \in [Daemons -> BOOLEAN]
  /\ kind \in [Commands -> Kinds \cup {"none", "restart"}]
  /\ cpc \in [Commands -> {"new", "probe", "read", "judge", "unpid", "unsocket", "signal",
                           "spawn", "await", "glance", "glanced", "dial", "connected",
                           "done", "stopped", "killed", "error"}]
  /\ pid \in [Commands -> MaybeDaemon] /\ target \in [Commands -> MaybeDaemon]
  /\ child \in [Commands -> MaybeDaemon]
  /\ pulled \subseteq Daemons

(* A PID written in a PID file is that of the daemon that holds its lock,  *)
(* or of a dead one: whoever reads it and finds the process alive has      *)
(* found the daemon, never one that is only trying to become it            *)
(* (daemon/mod.rs:41-67).                                                  *)
PidIsLockHolder ==
  \A f \in Daemons : content[f] # None => (Alive(content[f]) => lock[f] = content[f])

(* Until somebody unlinks a file from under a daemon it belongs to, the    *)
(* lock does its work: whatever daemons are spawned, crash, are told to    *)
(* stop or killed, one at a time is past the lock and not yet done.        *)
LockKeepsOne ==
  pulled = {} => \A d, e \in Daemons : Active(d) /\ Active(e) => d = e

(* As long, a daemon that serves is found: the PID file holds its PID and  *)
(* the socket leads to it, whatever stale files it met when it started.    *)
Reachable ==
  pulled = {} => \A d \in Daemons :
    dpc[d] \in {"serve", "stopping"} /\ server[d] = "up" => PidRead = d /\ socket = d

(* As long, a `daemon stop` that says "Stopped" and a `daemon restart`     *)
(* that goes on to the new daemon have seen the end of the one they        *)
(* signalled, although they look at socket, file and process one by one.   *)
StopIsFinal ==
  pulled = {} => \A c \in Commands :
    target[c] # None /\ cpc[c] \in {"stopped", "killed", "unpid", "unsocket", "spawn", "await"}
      => Over(target[c])

(* What the lock is for (daemon/mod.rs:30): there is one daemon at a time. *)
(* Expected to fail.                                                       *)
AtMostOneDaemon ==
  \A d, e \in Daemons : Active(d) /\ Active(e) => d = e

=============================================================================
