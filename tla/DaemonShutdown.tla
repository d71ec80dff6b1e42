--------------------------- MODULE DaemonShutdown ---------------------------
(***************************************************************************)
(* The end of a daemon: what run_daemon does between the signal and its    *)
(* exit, while the gRPC server and every other task go on until the very   *)
(* last moment.                                                            *)
(*                                                                         *)
(* The process manager is reduced here to what ProcessManager promises: an *)
(* entry has its name to itself, a stop that succeeds has ended the group, *)
(* and statuses move as its tasks may move them.  A start is in the detail *)
(* that matters here: a child is launched, listed, its output captured and *)
(* its monitor spawned, and each of the last two leaves a handle.          *)
(***************************************************************************)
EXTENDS Naturals, FiniteSets

CONSTANTS Ids,     \* process instances
          Names,   \* ProcessKey values
          Namings, \* which instance has which name
          NoId     \* "none"

ASSUME ShutdownAssumption == NoId \notin Ids /\ Namings \subseteq [Ids -> Names]

VARIABLES
  \* the operating system, by id
  leader,    \* the child that leads its group: "unborn", "alive" or "dead"
  \* the process manager, by id
  nameOf,
  start,     \* how far its start is: "none", "launched", "listed", "captured", "done"
  listed,    \* ids in the registry
  status,
  asked,     \* ids a client asked to stop
  pipe,      \* its log pipeline: "none", "open", or "done": all of it is stored
  noted,     \* ids whose monitor task has ended
  handles,   \* what its hyperlog_handles hold: "pipe" and "monitor"
  \* the shutdown
  phase,     \* "serving", "stopping", "draining", "exited"
  plan,      \* id: "out" of the snapshot, "listed" there, "skip", "stop", then
             \* "busy", "ok" or "failed"
  found,    \* the id its stop found under its name
  collected, \* the handles to be awaited
  expired,   \* TRUE iff the wait for them timed out
  whole      \* auxiliary: ids that were listed with both handles at the snapshot

taskVars == <<nameOf, start, asked, pipe, noted, handles>>
downVars == <<phase, plan, found, collected, expired, whole>>
shutdownVars == <<leader, taskVars, listed, status, downVars>>

Status == {"Active", "Stopping", "Ended"} \* Active: Starting or Running

Up == phase # "exited"
SetStatus(i, s) == status' = [status EXCEPT ![i] = s]

(* Awaiting the handle returns. *)
Joined(i, h) == IF h = "pipe" THEN pipe[i] = "done" ELSE i \in noted

Settled(i) == plan[i] \in {"out", "skip", "ok", "failed"}

-----------------------------------------------------------------------------
(* Faulty variants, one plausible bug each; never part of Next.            *)

(* Does not see that the name is taken. *)
Launch_Unchecked(i) ==
  /\ Up /\ start[i] = "none"
  /\ leader' = [leader EXCEPT ![i] = "alive"]
  /\ start' = [start EXCEPT ![i] = "launched"]
  /\ UNCHANGED <<nameOf, listed, status, asked, pipe, noted, handles, downVars>>

(* Reports success once the signal is sent. *)
StopSucceeds_Sent(i) ==
  /\ phase = "stopping" /\ plan[i] = "busy"
  /\ plan' = [plan EXCEPT ![i] = "ok"]
  /\ SetStatus(found[i], "Ended")
  /\ listed' = listed \ {found[i]}
  /\ UNCHANGED <<leader, taskVars, phase, found, collected, expired, whole>>

(* Asks the registry again, which the stopped processes have left. *)
Collect_Listed ==
  /\ phase = "stopping" /\ \A i \in Ids : Settled(i)
  /\ collected' = {c \in listed \X {"pipe", "monitor"} : c[2] \in handles[c[1]]}
  /\ handles' = [i \in Ids |-> IF i \in listed THEN {} ELSE handles[i]]
  /\ phase' = "draining"
  /\ UNCHANGED <<leader, nameOf, start, asked, pipe, noted, listed, status,
                 plan, found, expired, whole>>

(* Gives up only on processes that would not stop. *)
DrainTimeout_Failed ==
  /\ phase = "draining" /\ (\E i \in Ids : plan[i] = "failed")
  /\ expired' = TRUE /\ phase' = "exited"
  /\ UNCHANGED <<leader, taskVars, listed, status, plan, found, collected, whole>>

-----------------------------------------------------------------------------
(* The operating system.                                                   *)

Die(i) ==
  /\ Up /\ leader[i] = "alive"
  /\ leader' = [leader EXCEPT ![i] = "dead"]
  /\ UNCHANGED <<taskVars, listed, status, downVars>>

-----------------------------------------------------------------------------
(* The process manager.                                                    *)

(* A start evicts an entry that has ended. *)
Evict(i) ==
  /\ Up /\ i \in listed /\ status[i] = "Ended"
  /\ listed' = listed \ {i}
  /\ UNCHANGED <<leader, taskVars, status, downVars>>

Launch(i) ==
  /\ Up /\ start[i] = "none"
  /\ \A j \in Ids : nameOf[j] = nameOf[i] => start[j] # "launched" /\ j \notin listed
  /\ leader' = [leader EXCEPT ![i] = "alive"]
  /\ start' = [start EXCEPT ![i] = "launched"]
  /\ UNCHANGED <<nameOf, listed, status, asked, pipe, noted, handles, downVars>>

Register(i) ==
  /\ Up /\ start[i] = "launched"
  /\ listed' = listed \cup {i}
  /\ SetStatus(i, "Active")
  /\ start' = [start EXCEPT ![i] = "listed"]
  /\ UNCHANGED <<leader, nameOf, asked, pipe, noted, handles, downVars>>

Capture(i) ==
  /\ Up /\ start[i] = "listed"
  /\ pipe'    = [pipe    EXCEPT ![i] = "open"]
  /\ handles' = [handles EXCEPT ![i] = @ \cup {"pipe"}]
  /\ start'   = [start   EXCEPT ![i] = "captured"]
  /\ UNCHANGED <<leader, nameOf, listed, status, asked, noted, downVars>>

Monitor(i) ==
  /\ Up /\ start[i] = "captured"
  /\ handles' = [handles EXCEPT ![i] = @ \cup {"monitor"}]
  /\ start'   = [start   EXCEPT ![i] = "done"]
  /\ UNCHANGED <<leader, nameOf, listed, status, asked, pipe, noted, downVars>>

NoteExit(i) ==
  /\ Up /\ start[i] = "done" /\ leader[i] = "dead" /\ i \notin noted
  /\ SetStatus(i, "Ended")
  /\ noted' = noted \cup {i}
  /\ UNCHANGED <<leader, nameOf, start, asked, pipe, handles, listed, downVars>>

(* The outputs are closed, by the end of the group or before it, and all that
   came is stored. *)
PipeEnds(i) ==
  /\ Up /\ pipe[i] = "open"
  /\ pipe' = [pipe EXCEPT ![i] = "done"]
  /\ UNCHANGED <<leader, nameOf, start, asked, noted, handles, listed, status, downVars>>

(* A status sync may store what it found at any time after it found it. *)
SyncStatus(i) ==
  /\ Up /\ i \in listed
  /\ \/ SetStatus(i, "Active")
     \/ leader[i] = "dead" /\ SetStatus(i, "Ended")
  /\ UNCHANGED <<leader, taskVars, listed, downVars>>

(* Somebody else's stop, which waits for the whole group: it may succeed, or
   fail and leave things so. *)
ClientStop(i) ==
  /\ Up /\ i \in listed
  /\ SetStatus(i, "Stopping")
  /\ asked' = asked \cup {i}
  /\ UNCHANGED <<leader, nameOf, start, pipe, noted, handles, listed, downVars>>

ClientStopped(i) ==
  /\ Up /\ i \in asked \cap listed /\ leader[i] = "dead"
  /\ SetStatus(i, "Ended")
  /\ listed' = listed \ {i}
  /\ UNCHANGED <<leader, taskVars, downVars>>

-----------------------------------------------------------------------------
(* run_daemon, from the signal on.                                         *)

TakeSnapshot ==
  /\ phase = "serving"
  /\ phase' = "stopping"
  /\ plan' = [i \in Ids |-> IF i \in listed THEN "listed" ELSE "out"]
  /\ whole' = {i \in listed : handles[i] = {"pipe", "monitor"}}
  /\ UNCHANGED <<leader, taskVars, listed, status, found, collected, expired>>

(* The statuses are read one after the other. *)
Filter(i) ==
  /\ phase = "stopping" /\ plan[i] = "listed"
  /\ plan' = [plan EXCEPT ![i] = IF status[i] = "Active" THEN "stop" ELSE "skip"]
  /\ UNCHANGED <<leader, taskVars, listed, status, phase, found, collected, expired, whole>>

(* The stops run in parallel.  stop_process looks the name up, not the
   instance of the snapshot. *)
BeginStop(i) ==
  /\ phase = "stopping" /\ plan[i] = "stop" /\ \A j \in Ids : plan[j] # "listed"
  /\ \/ /\ \A j \in listed : nameOf[j] # nameOf[i]
        /\ plan' = [plan EXCEPT ![i] = "failed"]
        /\ UNCHANGED <<status, found>>
     \/ \E j \in listed :
          /\ nameOf[j] = nameOf[i]
          /\ found' = [found EXCEPT ![i] = j]
          /\ plan' = [plan EXCEPT ![i] = "busy"]
          /\ SetStatus(j, "Stopping")
  /\ UNCHANGED <<leader, taskVars, listed, phase, collected, expired, whole>>

StopSucceeds(i) ==
  /\ phase = "stopping" /\ plan[i] = "busy" /\ leader[found[i]] = "dead"
  /\ plan' = [plan EXCEPT ![i] = "ok"]
  /\ SetStatus(found[i], "Ended")
  /\ listed' = listed \ {found[i]}
  /\ UNCHANGED <<leader, taskVars, phase, found, collected, expired, whole>>

(* A signal that cannot be sent, a member that survives it, a timeout. *)
StopFails(i) ==
  /\ phase = "stopping" /\ plan[i] = "busy"
  /\ plan' = [plan EXCEPT ![i] = "failed"]
  /\ UNCHANGED <<leader, taskVars, listed, status, phase, found, collected, expired, whole>>

(* From the instances of the snapshot; what is pushed later stays behind. *)
Collect ==
  /\ phase = "stopping" /\ \A i \in Ids : Settled(i)
  /\ LET snapshot == {i \in Ids : plan[i] # "out"} IN
       /\ collected' = {c \in snapshot \X {"pipe", "monitor"} : c[2] \in handles[c[1]]}
       /\ handles' = [i \in Ids |-> IF i \in snapshot THEN {} ELSE handles[i]]
  /\ phase' = "draining"
  /\ UNCHANGED <<leader, nameOf, start, asked, pipe, noted, listed, status,
                 plan, found, expired, whole>>

(* The PID file goes, run_daemon returns, and the runtime drops all tasks;
   a child is not killed by that. *)
Drained ==
  /\ phase = "draining" /\ \A c \in collected : Joined(c[1], c[2])
  /\ phase' = "exited"
  /\ UNCHANGED <<leader, taskVars, listed, status, plan, found, collected, expired, whole>>

DrainTimeout ==
  /\ phase = "draining" /\ collected # {}
  /\ expired' = TRUE /\ phase' = "exited"
  /\ UNCHANGED <<leader, taskVars, listed, status, plan, found, collected, whole>>

-----------------------------------------------------------------------------
ShutdownInit ==
  /\ leader = [i \in Ids |-> "unborn"]
  /\ nameOf \in Namings
  /\ start = [i \in Ids |-> "none"]
  /\ listed = {} /\ asked = {} /\ noted = {}
  /\ status  = [i \in Ids |-> "Active"]
  /\ pipe    = [i \in Ids |-> "none"]
  /\ handles = [i \in Ids |-> {}]
  /\ phase = "serving"
  /\ plan   = [i \in Ids |-> "out"]
  /\ found = [i \in Ids |-> NoId]
  /\ collected = {} /\ expired = FALSE /\ whole = {}

Manager(i) ==
  \/ Evict(i) \/ Launch(i) \/ Register(i) \/ Capture(i) \/ Monitor(i)
  \/ NoteExit(i) \/ PipeEnds(i) \/ SyncStatus(i) \/ ClientStop(i) \/ ClientStopped(i)

Shutdown ==
  \/ Collect \/ Drained \/ DrainTimeout
  \/ \E i \in Ids : Filter(i) \/ BeginStop(i) \/ StopSucceeds(i) \/ StopFails(i)

ShutdownNext == TakeSnapshot \/ Shutdown \/ \E i \in Ids : Die(i) \/ Manager(i)

ShutdownSpec == ShutdownInit /\ [][ShutdownNext]_shutdownVars

(* Once the signal has come the daemon's main task is polled, and the stops
   and the wait at its end have time limits.  Nothing else is promised: no
   process need end, no pipe need close. *)
FairSpec == ShutdownSpec /\ WF_shutdownVars(Shutdown)

-----------------------------------------------------------------------------
(* Correctness.                                                            *)

(* Every variable keeps its type, and a name has at most one entry. *)
ShutdownTypeOK ==
  /\ leader \in [Ids -> {"unborn", "alive", "dead"}]
  /\ nameOf \in [Ids -> Names]
  /\ start \in [Ids -> {"none", "launched", "listed", "captured", "done"}]
  /\ listed \subseteq Ids /\ asked \subseteq Ids /\ noted \subseteq Ids /\ whole \subseteq Ids
  /\ \A i, j \in listed : nameOf[i] = nameOf[j] => i = j
  /\ status \in [Ids -> Status]
  /\ pipe \in [Ids -> {"none", "open", "done"}]
  /\ handles \in [Ids -> SUBSET {"pipe", "monitor"}]
  /\ phase \in {"serving", "stopping", "draining", "exited"}
  /\ plan \in [Ids -> {"out", "listed", "skip", "stop", "busy", "ok", "failed"}]
  /\ found \in [Ids -> Ids \cup {NoId}]
  /\ collected \subseteq Ids \X {"pipe", "monitor"}
  /\ expired \in BOOLEAN

(* A child outlives the daemon only if it was not yet registered when the
   signal came, if a client's stop was at it when the statuses were read, or if
   its own stop failed; not by being replaced, relisted or overlooked in
   between (mod.rs:137-190). *)
OrphansExplained ==
  phase = "exited" => \A i \in Ids : leader[i] = "alive" =>
    \/ plan[i] = "out"
    \/ plan[i] = "skip" /\ i \in asked
    \/ plan[i] = "failed" /\ found[i] = i

(* "Daemon shutdown flushes and joins the log pipeline before exiting"
   (CHANGELOG.md:19): if the wait does not time out, every process that was
   listed and fully started when the signal came has ended and all of its
   output is stored, whoever stopped, evicted or replaced it meanwhile and
   whichever of its stops failed (mod.rs:137-225). *)
CleanExit ==
  phase = "exited" /\ ~expired =>
    \A i \in whole : leader[i] = "dead" /\ pipe[i] = "done"

(* The signal is followed by the exit, although a process may ignore every
   signal and hold its outputs open (mod.rs:174-225). *)
ShutdownEnds == phase # "serving" ~> phase = "exited"

=============================================================================
