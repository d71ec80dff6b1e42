--------------------------- MODULE ProcessManager ---------------------------
(***************************************************************************)
(* The daemon's ProcessManager and ProcessRegistry with the tasks that     *)
(* share them: concurrent start, stop, restart, force-restart and clean    *)
(* requests, one monitor task per child process, the periodic status sync, *)
(* and the operating system's side of every process group.                 *)
(*                                                                         *)
(* The daemon is a multi-threaded tokio runtime, so every access to shared *)
(* state (the two DashMaps, the status and exit-code cells, the process    *)
(* group) is one atomic step and any other task may run between two of     *)
(* them.  A check whose outcome can never change back (a group that is     *)
(* gone stays gone) is one step with the store it guards.                  *)
(***************************************************************************)
EXTENDS Naturals, FiniteSets

CONSTANTS Keys,    \* ProcessKey values: (project, name) pairs
          Ids,     \* process instances (ProxyInfo.id); bounds how many are ever launched
          Clients, \* request handlers that may run at the same time
          Ticker,  \* the periodic sync task
          NoKey, NoId, \* "none"
          Ops,     \* the kinds of requests clients make
          MaxRequests \* bound: how many requests arrive in all

AllOps == {"start", "stop", "restart", "force", "clean"}

ASSUME ConstantsAssumption ==
  /\ NoKey \notin Keys
  /\ NoId \notin Ids
  /\ Ticker \notin Clients
  /\ Ops \subseteq AllOps
  /\ MaxRequests \in Nat

VARIABLES
  \* ProcessRegistry
  processes,  \* ids in the `processes` map
  reserved,   \* keys in the `reserved_names` map
  \* ProxyInfo, by id
  keyOf,      \* its project and name; NoKey before the launch
  status,     \* the AtomicU8 cell
  exitCode,   \* the exit_code cell: "none", "zero" or "nonzero"
  monitor,    \* the monitor task: "off", "waiting", "recording", "settling", "done"
  \* the operating system, by id
  leader,     \* the direct child: "unborn", "alive", "zombie", "reaped"
  others,     \* TRUE iff a further member of its process group is alive
  killed,     \* ids whose group has a SIGKILL pending
  \* request handlers and the periodic sync, by agent
  pc,         \* where the agent is
  tgt,        \* the ProxyInfo the agent holds
  seen,       \* the status its sync_process_status is about to store
  \* request handlers only
  op, key, force, \* the request: kind, name, and stop's `force`
  out,        \* the last answer
  arrived     \* how many requests arrived (for the bound only)

Agents   == Clients \cup {Ticker}
Active   == {"Starting", "Running"}
Finished == {"Stopped", "Failed"}
Status   == Active \cup Finished \cup {"Stopping"}

regVars   == <<processes, reserved, keyOf>>
proxyVars == <<status, exitCode, monitor>>
osVars    == <<leader, others, killed>>
reqVars   == <<op, key, force, out, arrived>>
agentVars == <<pc, tgt, seen, reqVars>>
vars == <<regVars, proxyVars, osVars, agentVars>>

-----------------------------------------------------------------------------
(* Helpers.                                                                *)

Entry(k) == {i \in processes : keyOf[i] = k}

(* killpg(pgid, 0): a zombie still counts, an empty group is ESRCH. *)
GroupExists(i) == leader[i] \in {"alive", "zombie"} \/ others[i]

(* A member that is not a zombie: what `ps` reports and SIGKILL must end. *)
LiveMembers(i) == leader[i] = "alive" \/ others[i]

(* set_status: an unconditional store. *)
SetStatus(i, s) == status' = [status EXCEPT ![i] = s]

Goto(a, label) == pc' = [pc EXCEPT ![a] = label]

(* The agent goes on, with what it holds or with another ProxyInfo in hand. *)
Continue(a, label) == Goto(a, label) /\ UNCHANGED <<tgt, seen, reqVars>>

Hold(a, i, label) ==
  /\ Goto(a, label)
  /\ tgt' = [tgt EXCEPT ![a] = i]
  /\ UNCHANGED <<seen, reqVars>>

(* The handler ends, and its locals with it. *)
Answer(c, result) ==
  /\ Goto(c, "idle")
  /\ out'   = [out   EXCEPT ![c] = result]
  /\ op'    = [op    EXCEPT ![c] = "none"]
  /\ key'   = [key   EXCEPT ![c] = NoKey]
  /\ force' = [force EXCEPT ![c] = FALSE]
  /\ tgt'   = [tgt   EXCEPT ![c] = NoId]
  /\ seen'  = [seen  EXCEPT ![c] = "none"]
  /\ UNCHANGED arrived

(* sync_process_status returns. *)
Synced(a) ==
  /\ Goto(a, IF a = Ticker THEN "tick" ELSE "started")
  /\ tgt'  = [tgt  EXCEPT ![a] = IF a = Ticker THEN NoId ELSE @]
  /\ seen' = [seen EXCEPT ![a] = "none"]
  /\ UNCHANGED reqVars

(* The exit code if the monitor recorded one, else `kill -0`, for which a
   zombie is alive. *)
Verdict(i) ==
  IF exitCode[i] = "zero" THEN "Stopped"
  ELSE IF exitCode[i] = "nonzero" \/ leader[i] = "reaped" THEN "Failed"
  ELSE "Running"

-----------------------------------------------------------------------------
(* Faulty variants, one plausible bug each.  X_Y is X with the bug Y: it is
   never part of Next, and shows that the properties can tell it from X.   *)

(* Stops polling when the direct child is gone, whatever its children do. *)
StoppedGracefully_LeaderOnly(c) ==
  /\ pc[c] = "poll" /\ leader[tgt[c]] = "reaped"
  /\ SetStatus(tgt[c], "Stopped")
  /\ Continue(c, "unlink")
  /\ UNCHANGED <<regVars, exitCode, monitor, osVars>>

(* Takes over an entry that is being stopped. *)
Judge_ReuseStopping(c) ==
  /\ pc[c] = "judge"
  /\ IF status[tgt[c]] \notin Active THEN Continue(c, "evict") ELSE Answer(c, "exists")
  /\ UNCHANGED <<regVars, proxyVars, osVars>>

(* Trusts the lookup and does not test the reservation. *)
TryReserveName_Unchecked(c) ==
  /\ pc[c] = "reserve"
  /\ Continue(c, "launch") /\ reserved' = reserved \cup {key[c]}
  /\ UNCHANGED <<processes, keyOf, proxyVars, osVars>>

(* Registers before there is a process to register. *)
TryReserveName_NoLaunch(c) ==
  /\ pc[c] = "reserve"
  /\ IF key[c] \in reserved
     THEN Answer(c, "exists") /\ UNCHANGED reserved
     ELSE Continue(c, "register") /\ reserved' = reserved \cup {key[c]}
  /\ UNCHANGED <<processes, keyOf, proxyVars, osVars>>

(* Forgets the reservation on the error path. *)
LaunchFails_KeepsName(c) ==
  /\ pc[c] = "launch"
  /\ Answer(c, "launchError")
  /\ UNCHANGED <<regVars, proxyVars, osVars>>

(* Corrects a status that is Starting, never one that is Running. *)
SyncCheck_StartingOnly(a, i) ==
  /\ IF status[i] = "Starting"
     THEN /\ Goto(a, "store")
          /\ tgt' = [tgt EXCEPT ![a] = i]
          /\ seen' = [seen EXCEPT ![a] = Verdict(i)]
          /\ UNCHANGED reqVars
     ELSE Synced(a)
  /\ UNCHANGED <<regVars, proxyVars, osVars>>

-----------------------------------------------------------------------------
(* Requests arrive.                                                        *)

Arrive(c, o, k, i, f, label) ==
  /\ pc[c] = "idle" /\ o \in Ops /\ arrived < MaxRequests
  /\ arrived' = arrived + 1
  /\ op'    = [op    EXCEPT ![c] = o]
  /\ key'   = [key   EXCEPT ![c] = k]
  /\ tgt'   = [tgt   EXCEPT ![c] = i]
  /\ force' = [force EXCEPT ![c] = f]
  /\ out'   = [out   EXCEPT ![c] = "none"]
  /\ Goto(c, label)
  /\ UNCHANGED <<regVars, proxyVars, osVars, seen>>

StartRequest(c)   == \E k \in Keys : Arrive(c, "start", k, NoId, FALSE, "find")
RestartRequest(c) == \E k \in Keys : Arrive(c, "restart", k, NoId, FALSE, "target")
ForceRequest(c)   == \E k \in Keys : Arrive(c, "force", k, NoId, TRUE, "existing")
StopRequest(c)    == \E k \in Keys, f \in BOOLEAN :
                        Arrive(c, "stop", k, NoId, f, "target")

(* clean_project stops the processes of its snapshot by id, one at a time. *)
CleanRequest(c) == \E i \in processes, f \in BOOLEAN :
                      Arrive(c, "clean", keyOf[i], i, f, "target")

(* A force_restart that finds an entry stops it first, and is a plain start
   otherwise.  (Before a stop or a restart the handler looks the name up too,
   only to give the answer stop_process would give.) *)
FindExisting(c) ==
  /\ pc[c] = "existing"
  /\ \/ \E i \in Entry(key[c]) : Hold(c, i, "target")
     \/ Entry(key[c]) = {} /\ Continue(c, "find")
  /\ UNCHANGED <<regVars, proxyVars, osVars>>

-----------------------------------------------------------------------------
(* stop_process and ProxyInfo::stop.                                       *)

(* By name, or by the id force_restart and clean pass. *)
FindTarget(c) ==
  /\ pc[c] = "target"
  /\ LET found == IF op[c] \in {"force", "clean"} THEN processes \cap {tgt[c]}
                                                  ELSE Entry(key[c])
     IN \/ \E i \in found : Hold(c, i, "mark")
        \/ found = {} /\ Answer(c, "notFound")
  /\ UNCHANGED <<regVars, proxyVars, osVars>>

(* The status first, then SIGTERM unless forced.  The term signal changes
   nothing by itself: a member acts on it or not, and may exit at any time. *)
MarkStopping(c) ==
  /\ pc[c] = "mark"
  /\ SetStatus(tgt[c], "Stopping")
  /\ Continue(c, IF force[c] THEN "kill" ELSE "poll")
  /\ UNCHANGED <<regVars, exitCode, monitor, osVars>>

(* Poll until the whole group is gone ... *)
StoppedGracefully(c) ==
  /\ pc[c] = "poll" /\ ~GroupExists(tgt[c])
  /\ SetStatus(tgt[c], "Stopped")
  /\ Continue(c, "unlink")
  /\ UNCHANGED <<regVars, exitCode, monitor, osVars>>

(* ... or process_stop_timeout_ms is over. *)
GraceExpires(c) ==
  /\ pc[c] = "poll"
  /\ Continue(c, "kill")
  /\ UNCHANGED <<regVars, proxyVars, osVars>>

SendKill(c) ==
  /\ pc[c] = "kill"
  /\ killed' = IF LiveMembers(tgt[c]) THEN killed \cup {tgt[c]} ELSE killed
  /\ Continue(c, "confirm")
  /\ UNCHANGED <<regVars, proxyVars, leader, others>>

(* confirm_stopped_within: the group is gone or has only zombies left. *)
ConfirmStopped(c) ==
  /\ pc[c] = "confirm" /\ ~LiveMembers(tgt[c])
  /\ SetStatus(tgt[c], "Stopped")
  /\ Continue(c, "unlink")
  /\ UNCHANGED <<regVars, exitCode, monitor, osVars>>

(* The ten seconds are over (or `ps` could not tell), or a forced attempt
   ran into its own timeout: StopError, and the entry stays as it is. *)
StopFails(c) ==
  /\ pc[c] = "confirm"
  /\ Answer(c, "stopError")
  /\ UNCHANGED <<regVars, proxyVars, osVars>>

(* process_stop_timeout_ms + 5 s cut a graceful stop short: stop(true). *)
RetryForced(c) ==
  /\ pc[c] = "confirm" /\ ~force[c]
  /\ force' = [force EXCEPT ![c] = TRUE]
  /\ Goto(c, "mark")
  /\ UNCHANGED <<regVars, proxyVars, osVars, tgt, seen, op, key, out, arrived>>

(* ProcessRegistry::remove_process, called by a stop (from "unlink") and by a
   start over a finished entry (from "evict"): take the entry out, and only
   whoever really took it out releases the name, in a second step. *)
TakeOut(c, from, holding, next) ==
  /\ pc[c] = from
  /\ processes' = processes \ {tgt[c]}
  /\ Continue(c, IF tgt[c] \in processes THEN holding ELSE next)
  /\ UNCHANGED <<reserved, keyOf, proxyVars, osVars>>

ReleaseName(c, holding, next) ==
  /\ pc[c] = holding
  /\ reserved' = reserved \ {keyOf[tgt[c]]}
  /\ Continue(c, next)
  /\ UNCHANGED <<processes, keyOf, proxyVars, osVars>>

RemoveStopped(c)  == TakeOut(c, "unlink", "release", "removed")
ReleaseStopped(c) == ReleaseName(c, "release", "removed")

(* The stop is over.  A restart or force_restart goes on to the start, after
   wait_for_process_removal, which ends when no entry has the name or after
   process_stop_timeout_ms "proceeding anyway": either way nothing changes. *)
StopDone(c) ==
  /\ pc[c] = "removed"
  /\ IF op[c] \in {"restart", "force"} THEN Hold(c, NoId, "find") ELSE Answer(c, "stopped")
  /\ UNCHANGED <<regVars, proxyVars, osVars>>

-----------------------------------------------------------------------------
(* start_process_with_log_stream.                                          *)

FindSameName(c) ==
  /\ pc[c] = "find"
  /\ \/ \E i \in Entry(key[c]) : Hold(c, i, "judge")
     \/ Entry(key[c]) = {} /\ Continue(c, "reserve")
  /\ UNCHANGED <<regVars, proxyVars, osVars>>

(* Only a Stopped or Failed entry gives its name up. *)
Judge(c) ==
  /\ pc[c] = "judge"
  /\ IF status[tgt[c]] \in Finished THEN Continue(c, "evict") ELSE Answer(c, "exists")
  /\ UNCHANGED <<regVars, proxyVars, osVars>>

RemoveFinished(c)  == TakeOut(c, "evict", "evicted", "reserve")
ReleaseFinished(c) == ReleaseName(c, "evicted", "reserve")

TryReserveName(c) ==
  /\ pc[c] = "reserve"
  /\ IF key[c] \in reserved
     THEN Answer(c, "exists") /\ UNCHANGED reserved
     ELSE Continue(c, "launch") /\ reserved' = reserved \cup {key[c]}
  /\ UNCHANGED <<processes, keyOf, proxyVars, osVars>>

(* A bad wait pattern, a missing command or directory, a failed spawn: the
   reservation guard is dropped with the error. *)
LaunchFails(c) ==
  /\ pc[c] = "launch"
  /\ Answer(c, "launchError")
  /\ reserved' = reserved \ {key[c]}
  /\ UNCHANGED <<processes, keyOf, proxyVars, osVars>>

Launch(c) ==
  /\ pc[c] = "launch"
  /\ \E i \in Ids :
       /\ leader[i] = "unborn"
       /\ leader' = [leader EXCEPT ![i] = "alive"]
       /\ keyOf' = [keyOf EXCEPT ![i] = key[c]]
       /\ SetStatus(i, "Starting")
       /\ Hold(c, i, "register")
  /\ UNCHANGED <<processes, reserved, exitCode, monitor, others, killed>>

(* add_process; the reservation now belongs to the entry. *)
AddProcess(c) ==
  /\ pc[c] = "register"
  /\ processes' = processes \cup {tgt[c]}
  /\ Continue(c, "watch")
  /\ UNCHANGED <<reserved, keyOf, proxyVars, osVars>>

SpawnMonitor(c) ==
  /\ pc[c] = "watch"
  /\ monitor' = [monitor EXCEPT ![tgt[c]] = "waiting"]
  /\ Continue(c, "warmup")
  /\ UNCHANGED <<regVars, status, exitCode, osVars>>

Started(c) ==
  /\ pc[c] = "started"
  /\ Answer(c, "started")
  /\ UNCHANGED <<regVars, proxyVars, osVars>>

(* The client's deadline passed or its connection closed: the handler is
   dropped at the await it is suspended in, and nothing is undone. *)
Cancel(c) ==
  /\ pc[c] \in {"poll", "confirm", "removed", "warmup", "started"}
  /\ Answer(c, "cancelled")
  /\ UNCHANGED <<regVars, proxyVars, osVars>>

-----------------------------------------------------------------------------
(* sync_process_status, run by a start (a in Clients) and by the periodic
   task (a = Ticker): find out, read the status, store a new one.          *)

(* A dead process must not stay active, a live one that was starting runs.
   The verdict and the status it is compared with are read in one step: what
   counts is that either may be out of date when the new status is stored. *)
SyncCheck(a, i) ==
  LET new == Verdict(i) IN
  /\ IF \/ status[i] = "Starting"
        \/ (status[i] = "Running" /\ new # "Running")
     THEN /\ Goto(a, "store")
          /\ tgt' = [tgt EXCEPT ![a] = i]
          /\ seen' = [seen EXCEPT ![a] = new]
          /\ UNCHANGED reqVars
     ELSE Synced(a)
  /\ UNCHANGED <<regVars, proxyVars, osVars>>

(* A start syncs its own process once the pattern was seen, its timeout
   fired, or 500 ms went by. *)
StartSync(c) == pc[c] = "warmup" /\ SyncCheck(c, tgt[c])

(* `kill` could not be run: no verdict. *)
StartSyncFails(c) ==
  /\ pc[c] = "warmup" /\ exitCode[tgt[c]] = "none"
  /\ Synced(c)
  /\ UNCHANGED <<regVars, proxyVars, osVars>>

(* start_periodic_sync goes through a snapshot of the active entries, one
   after the other.  An entry that was removed or is no longer active when
   its turn comes is left alone by the check itself. *)
PeriodicCheck(i) ==
  /\ pc[Ticker] = "tick"
  /\ i \in processes /\ status[i] \in Active
  /\ SyncCheck(Ticker, i)

SyncStore(a) ==
  /\ pc[a] = "store"
  /\ SetStatus(tgt[a], seen[a])
  /\ Synced(a)
  /\ UNCHANGED <<regVars, exitCode, monitor, osVars>>

-----------------------------------------------------------------------------
(* The monitor task of process i: child.wait(), then exit_code, then status. *)

MonitorReap(i) ==
  /\ monitor[i] = "waiting" /\ leader[i] = "zombie"
  /\ leader'  = [leader EXCEPT ![i] = "reaped"]
  /\ monitor' = [monitor EXCEPT ![i] = "recording"]
  /\ UNCHANGED <<regVars, status, exitCode, others, killed, agentVars>>

(* Whatever the child ended with; ExitStatus::code() is None ("none") when a
   signal ended it. *)
MonitorRecord(i) ==
  /\ monitor[i] = "recording"
  /\ \E code \in {"none", "zero", "nonzero"} : exitCode' = [exitCode EXCEPT ![i] = code]
  /\ monitor' = [monitor EXCEPT ![i] = "settling"]
  /\ UNCHANGED <<regVars, status, osVars, agentVars>>

(* Over any status, Stopping too. *)
MonitorSettle(i) ==
  /\ monitor[i] = "settling"
  /\ SetStatus(i, IF exitCode[i] = "zero" THEN "Stopped" ELSE "Failed")
  /\ monitor' = [monitor EXCEPT ![i] = "done"]
  /\ UNCHANGED <<regVars, exitCode, osVars, agentVars>>

(* child.wait() itself failed, the child having been waited for by someone
   else: Failed, with no exit code. *)
MonitorWaitError(i) ==
  /\ monitor[i] = "waiting" /\ leader[i] = "zombie"
  /\ leader'  = [leader EXCEPT ![i] = "reaped"]
  /\ SetStatus(i, "Failed")
  /\ monitor' = [monitor EXCEPT ![i] = "done"]
  /\ UNCHANGED <<regVars, exitCode, others, killed, agentVars>>

-----------------------------------------------------------------------------
(* The operating system.                                                   *)

LeaderExits(i) ==
  /\ leader[i] = "alive" /\ i \notin killed
  /\ leader' = [leader EXCEPT ![i] = "zombie"]
  /\ UNCHANGED <<regVars, proxyVars, others, killed, agentVars>>

(* A member forks, or the last member beside the leader ends. *)
SpawnMember(i) ==
  /\ LiveMembers(i) /\ ~others[i] /\ i \notin killed
  /\ others' = [others EXCEPT ![i] = TRUE]
  /\ UNCHANGED <<regVars, proxyVars, leader, killed, agentVars>>

MembersExit(i) ==
  /\ others[i] /\ i \notin killed
  /\ others' = [others EXCEPT ![i] = FALSE]
  /\ UNCHANGED <<regVars, proxyVars, leader, killed, agentVars>>

(* SIGKILL takes effect, at once or after an uninterruptible wait. *)
KillTakesEffect(i) ==
  /\ i \in killed
  /\ leader' = [leader EXCEPT ![i] = IF @ = "alive" THEN "zombie" ELSE @]
  /\ others' = [others EXCEPT ![i] = FALSE]
  /\ killed' = killed \ {i}
  /\ UNCHANGED <<regVars, proxyVars, agentVars>>

-----------------------------------------------------------------------------
(* The specification.                                                      *)

Init ==
  /\ processes = {} /\ reserved = {}
  /\ keyOf    = [i \in Ids |-> NoKey]
  /\ status   = [i \in Ids |-> "Starting"]
  /\ exitCode = [i \in Ids |-> "none"]
  /\ monitor  = [i \in Ids |-> "off"]
  /\ leader   = [i \in Ids |-> "unborn"]
  /\ others   = [i \in Ids |-> FALSE]
  /\ killed   = {}
  /\ pc    = [a \in Agents |-> IF a = Ticker THEN "tick" ELSE "idle"]
  /\ tgt   = [a \in Agents |-> NoId]
  /\ seen  = [a \in Agents |-> "none"]
  /\ op    = [c \in Clients |-> "none"]
  /\ key   = [c \in Clients |-> NoKey]
  /\ force = [c \in Clients |-> FALSE]
  /\ out   = [c \in Clients |-> "none"]
  /\ arrived = 0

Request(c) ==
  \/ StartRequest(c) \/ RestartRequest(c) \/ ForceRequest(c)
  \/ StopRequest(c)  \/ CleanRequest(c)

Stop(c) ==
  \/ FindExisting(c) \/ FindTarget(c) \/ MarkStopping(c)
  \/ StoppedGracefully(c) \/ GraceExpires(c) \/ SendKill(c)
  \/ ConfirmStopped(c) \/ StopFails(c) \/ RetryForced(c)
  \/ RemoveStopped(c) \/ ReleaseStopped(c) \/ StopDone(c)

Start(c) ==
  \/ FindSameName(c) \/ Judge(c) \/ RemoveFinished(c) \/ ReleaseFinished(c)
  \/ TryReserveName(c) \/ LaunchFails(c) \/ Launch(c)
  \/ AddProcess(c) \/ SpawnMonitor(c) \/ StartSync(c) \/ StartSyncFails(c)
  \/ SyncStore(c) \/ Started(c)

Handler(c) == Stop(c) \/ Start(c)

PeriodicSync == (\E i \in Ids : PeriodicCheck(i)) \/ SyncStore(Ticker)

Monitor(i) == MonitorReap(i) \/ MonitorRecord(i) \/ MonitorSettle(i) \/ MonitorWaitError(i)

System(i) == LeaderExits(i) \/ SpawnMember(i) \/ MembersExit(i) \/ KillTakesEffect(i)

Next ==
  \/ \E c \in Clients : Request(c) \/ Handler(c) \/ Cancel(c)
  \/ PeriodicSync
  \/ \E i \in Ids : Monitor(i) \/ System(i)

(* Every handler runs until it ends or is cancelled (its waits are all timed),
   monitors run, SIGKILL ends up being obeyed, and the periodic sync comes by
   every entry again and again. *)
Fairness ==
  /\ \A c \in Clients : WF_vars(Handler(c))
  /\ WF_vars(SyncStore(Ticker))
  /\ \A i \in Ids :
       /\ SF_vars(PeriodicCheck(i))
       /\ WF_vars(Monitor(i))
       /\ WF_vars(KillTakesEffect(i))

Spec == Init /\ [][Next]_vars

FairSpec == Spec /\ Fairness

-----------------------------------------------------------------------------
(* Correctness.                                                            *)

StopLabels  == {"existing", "target", "mark", "poll", "kill", "confirm",
                "unlink", "release", "removed"}
StartLabels == {"find", "judge", "evict", "evicted", "reserve", "launch",
                "register", "watch", "warmup", "store", "started"}
Answers     == {"none", "started", "stopped", "exists", "notFound",
                "launchError", "stopError", "cancelled"}

(* Every variable keeps its type (proxy.rs, registry.rs: the declared types). *)
TypeOK ==
  /\ processes \subseteq Ids /\ reserved \subseteq Keys
  /\ keyOf \in [Ids -> Keys \cup {NoKey}]
  /\ status \in [Ids -> Status]
  /\ exitCode \in [Ids -> {"none", "zero", "nonzero"}]
  /\ monitor \in [Ids -> {"off", "waiting", "recording", "settling", "done"}]
  /\ leader \in [Ids -> {"unborn", "alive", "zombie", "reaped"}]
  /\ others \in [Ids -> BOOLEAN]
  /\ killed \subseteq Ids
  /\ pc \in [Agents -> StopLabels \cup StartLabels \cup {"idle", "tick"}]
  /\ tgt \in [Agents -> Ids \cup {NoId}]
  /\ seen \in [Agents -> Finished \cup {"Running", "none"}]
  /\ op \in [Clients -> Ops \cup {"none"}]
  /\ key \in [Clients -> Keys \cup {NoKey}]
  /\ force \in [Clients -> BOOLEAN]
  /\ out \in [Clients -> Answers]
  /\ arrived \in 0 .. MaxRequests

(* Who owns name k: the starts that reserved it and have not added their
   process yet, the entries, and the removals that have not released it yet. *)
Claims(k)   == {c \in Clients : pc[c] \in {"launch", "register"} /\ key[c] = k}
Releases(k) == {c \in Clients : pc[c] \in {"release", "evicted"} /\ keyOf[tgt[c]] = k}
OwnersOf(k) == ({"claim"} \X Claims(k)) \cup ({"entry"} \X Entry(k))
                 \cup ({"release"} \X Releases(k))

(* A name is reserved exactly while it has an owner, and it never has two:
   two starts of the same name cannot both go through, a reservation does not
   outlive the request or the entry that made it, and a removal never
   releases a name somebody else has taken meanwhile (registry.rs:28-47,
   manager.rs:136-218). *)
NameHeldOnce ==
  \A k \in Keys :
    /\ k \in reserved <=> OwnersOf(k) # {}
    /\ \A x, y \in OwnersOf(k) : x = y

(* A child that has been launched and is alive can be reached: it is in the
   registry or a start is about to add it.  No start over a finished entry and
   no stop ever drops the handle of a running child (manager.rs:146-156,
   504-513: the status they trust is written by four different tasks). *)
NoLostLeader ==
  \A i \in Ids : leader[i] = "alive" =>
    i \in processes \/ (\E c \in Clients : pc[c] = "register" /\ tgt[c] = i)

(* "Process name (must be unique within project)" (proxy.rs:65), of the
   children themselves and not only of the map: two live children never have
   the same project and name. *)
OneLeaderPerName ==
  \A i, j \in Ids :
    leader[i] = "alive" /\ leader[j] = "alive" /\ keyOf[i] = keyOf[j] => i = j

(* A stop that takes its entry out and goes on to answer that it has stopped
   the process has really ended the whole process group, children spawned
   while it was stopping included (CHANGELOG.md:11), whichever way out of
   ProxyInfo::stop it took (proxy.rs:143-238). *)
StopIsTotal ==
  \A c \in Clients :
    pc[c] \in {"unlink", "release", "removed"} => ~LiveMembers(tgt[c])

(* Names are handed over the way NameOwnership says. *)
Ownership == INSTANCE NameOwnership WITH
  owners <- [k \in Keys |-> OwnersOf(k)], Claimants <- Clients, Instances <- Ids
OwnershipSpec == Ownership!Spec

(* The status catches up with the child. An exit is noticed for good: sooner or
   later the entry of a dead child is no longer Starting or Running, although
   the start, the periodic sync and the monitor overwrite each other's status
   (manager.rs:300-311, 669-739). And no entry stays Starting, even if the
   start that would have moved it on was cancelled while it waited
   (manager.rs:742-780). *)
StatusCatchesUp ==
  \A i \in Ids :
    /\ <>[](i \in processes /\ leader[i] \in {"zombie", "reaped"} => status[i] \notin Active)
    /\ i \in processes /\ status[i] = "Starting"
         ~> i \notin processes \/ status[i] # "Starting"

=============================================================================
