----------------------------- MODULE StartReport -----------------------------
(***************************************************************************)
(* What clients are told of a process, from its launch on.  Its status is  *)
(* a cell that the monitor task, two syncs (the start's own and the        *)
(* periodic one) and a stop write without knowing of each other; the exit  *)
(* code is another one, under a lock.  An answer is put together from      *)
(* reads of both, and of what became of wait_for_log, one after the other, *)
(* and each client makes its own message of it.                            *)
(*                                                                         *)
(* Registry and process groups are ProcessManager's, and how a pattern is  *)
(* found is WaitForLog's: here a line matches, the time runs out or a      *)
(* stream ends, at any time and in any order.                              *)
(***************************************************************************)
CONSTANTS Readers  \* clients that ask for the process, or for lists

VARIABLES
  \* the operating system
  child,    \* "alive", "zombie" or "reaped"
  code,     \* how it ended: "zero", "nonzero" or "signal"; "none" before
  \* ProxyInfo
  status,
  recorded, \* the exit_code cell; a signal leaves it "none"
  holder,   \* the sync that holds its lock
  \* tasks
  monitor,  \* "waiting", "reaped", "recorded", "done" or "failed"
  at,       \* where a sync is
  seen,     \* the status it may store
  stop,     \* "none", "stopping", "failed" or "done"
  \* what became of wait_for_log
  waits,    \* whether there is a pattern
  line,     \* matched_line is there
  timedOut, \* timeout_occurred
  \* the start
  start,    \* where it is
  answer,
  \* readers
  reader,   \* where their requests are
  view,     \* their answers
  \* for the properties
  overwritten, \* a sync has stored over what it had not seen
  unchecked,   \* a sync could not look
  early,    \* whether the child had been "reaped" when the start woke, or all was "done"
  woke,     \* "match", "timeout" or "other", if it is awake
  told      \* somebody was told that the process had ended

osVars    == <<child, code>>
proxyVars == <<status, recorded, holder>>
waitVars  == <<waits, line, timedOut>>
startVars == <<start, answer, early, woke>>
readVars  == <<reader, view>>
obsVars   == <<overwritten, unchecked, told>>
vars == <<osVars, proxyVars, monitor, at, seen, stop, waitVars, startVars, readVars, obsVars>>

Syncs    == {"start", "ticker"}
Active   == {"Starting", "Running"}
Ended    == {"Stopped", "Failed"}
Statuses == Active \cup Ended \cup {"Stopping"}

Views == [status : Statuses \cup {"none"}, code : {"none", "zero", "nonzero"}]
Answers == [status : Statuses \cup {"none"}, code : {"none", "zero", "nonzero"},
            line : BOOLEAN, timeout : BOOLEAN]
NoView == [status |-> "none", code |-> "none"]
NoAnswer == [status |-> "none", code |-> "none", line |-> FALSE, timeout |-> FALSE]

(* What an exit code says. *)
StatusOf(c) == IF c = "zero" THEN "Stopped" ELSE "Failed"

(* sync_process_status returns, dropping the lock if it has it. *)
Synced(w) ==
  /\ at' = [at EXCEPT ![w] = "idle"]
  /\ seen' = [seen EXCEPT ![w] = "none"]
  /\ holder' = IF holder = w THEN "none" ELSE holder
  /\ start' = IF w = "start" THEN "synced" ELSE start

-----------------------------------------------------------------------------
(* Faulty variants, one plausible bug each; never part of Next.            *)

(* Trusts the status of a match. *)
Wake_Unsynced(how) ==
  /\ start = "waiting"
  /\ IF how = "match"
     THEN start' = "synced" /\ UNCHANGED at
     ELSE start' = "sync" /\ at' = [at EXCEPT !["start"] = "look"]
  /\ woke' = how
  /\ early' = CASE monitor \in {"reaped", "recorded"} -> "reaped"
                [] monitor = "done" -> "done"
                [] OTHER -> "no"
  /\ UNCHANGED <<osVars, proxyVars, monitor, seen, stop, waits, line, timedOut, answer, readVars,
                 obsVars>>

(* Does not wait for what SIGKILL does. *)
Stopped_Signalled ==
  /\ stop = "stopping"
  /\ status' = "Stopped"
  /\ stop' = "done"
  /\ UNCHANGED <<osVars, recorded, holder, monitor, at, seen, waitVars, startVars, readVars,
                 obsVars>>

(* Waits for the lock, too, but gives it back too early. *)
Look_Unlocked(w) ==
  /\ at[w] = "look" /\ holder = "none"
  /\ IF recorded # "none"
     THEN /\ at' = [at EXCEPT ![w] = "judge"]
          /\ seen' = [seen EXCEPT ![w] = StatusOf(recorded)]
     ELSE at' = [at EXCEPT ![w] = "kill"] /\ UNCHANGED seen
  /\ UNCHANGED <<osVars, proxyVars, monitor, stop, waitVars, startVars, readVars, obsVars>>

-----------------------------------------------------------------------------
(* The child and its monitor.                                              *)

Exit ==
  /\ child = "alive"
  /\ child' = "zombie"
  /\ code' \in {"zero", "nonzero", "signal"}
  /\ UNCHANGED <<proxyVars, monitor, at, seen, stop, waitVars, startVars, readVars, obsVars>>

(* child.wait() returns. *)
Reap ==
  /\ monitor = "waiting" /\ child = "zombie"
  /\ child' = "reaped"
  /\ monitor' = "reaped"
  /\ UNCHANGED <<code, proxyVars, at, seen, stop, waitVars, startVars, readVars, obsVars>>

Record ==
  /\ monitor = "reaped" /\ holder = "none"
  /\ recorded' = IF code = "signal" THEN "none" ELSE code
  /\ monitor' = "recorded"
  /\ UNCHANGED <<osVars, status, holder, at, seen, stop, waitVars, startVars, readVars, obsVars>>

Settle ==
  /\ monitor = "recorded"
  /\ status' = StatusOf(code)
  /\ monitor' = "done"
  /\ UNCHANGED <<osVars, recorded, holder, at, seen, stop, waitVars, startVars, readVars, obsVars>>

(* It cannot wait for the child, and takes it for failed. *)
WaitFails ==
  /\ monitor = "waiting"
  /\ status' = "Failed"
  /\ monitor' = "failed"
  /\ UNCHANGED <<osVars, recorded, holder, at, seen, stop, waitVars, startVars, readVars, obsVars>>

-----------------------------------------------------------------------------
(* sync_process_status.                                                    *)

(* The periodic sync takes up active entries. *)
Pick ==
  /\ at["ticker"] = "idle" /\ status \in Active /\ stop # "done"
  /\ at' = [at EXCEPT !["ticker"] = "look"]
  /\ UNCHANGED <<osVars, proxyVars, monitor, seen, stop, waitVars, startVars, readVars, obsVars>>

(* With an exit code the lock is kept to the end. *)
Look(w) ==
  /\ at[w] = "look" /\ holder = "none"
  /\ IF recorded # "none"
     THEN /\ holder' = w
          /\ at' = [at EXCEPT ![w] = "judge"]
          /\ seen' = [seen EXCEPT ![w] = StatusOf(recorded)]
     ELSE at' = [at EXCEPT ![w] = "kill"] /\ UNCHANGED <<seen, holder>>
  /\ UNCHANGED <<osVars, status, recorded, monitor, stop, waitVars, startVars, readVars, obsVars>>

(* kill -0: a zombie is still there. *)
Kill(w) ==
  /\ at[w] = "kill"
  /\ seen' = [seen EXCEPT ![w] = IF child = "reaped" THEN "Failed" ELSE "Running"]
  /\ at' = [at EXCEPT ![w] = "judge"]
  /\ UNCHANGED <<osVars, proxyVars, monitor, stop, waitVars, startVars, readVars, obsVars>>

(* Then nothing is known, and nothing stored. *)
KillError(w) ==
  /\ at[w] = "kill"
  /\ unchecked' = TRUE
  /\ Synced(w)
  /\ UNCHANGED <<osVars, status, recorded, monitor, stop, waitVars, answer, early, woke,
                 readVars, overwritten, told>>

(* An end is stored over an active status, "Running" over "Starting". *)
Judge(w) ==
  /\ at[w] = "judge"
  /\ IF status = "Starting" \/ (status = "Running" /\ seen[w] # "Running")
     THEN at' = [at EXCEPT ![w] = "store"] /\ UNCHANGED <<seen, holder, start>>
     ELSE Synced(w)
  /\ UNCHANGED <<osVars, status, recorded, monitor, stop, waitVars, answer, early, woke,
                 readVars, obsVars>>

Store(w) ==
  /\ at[w] = "store"
  /\ status' = seen[w]
  /\ overwritten' = (overwritten \/ status \notin Active)
  /\ Synced(w)
  /\ UNCHANGED <<osVars, recorded, monitor, stop, waitVars, answer, early, woke,
                 readVars, unchecked, told>>

-----------------------------------------------------------------------------
(* A stop, and its retry.                                                  *)

MarkStopping ==
  /\ stop \in {"none", "failed"}
  /\ status' = "Stopping"
  /\ stop' = "stopping"
  /\ UNCHANGED <<osVars, recorded, holder, monitor, at, seen, waitVars, startVars, readVars,
                 obsVars>>

(* The group is gone, or after SIGKILL only zombies are left of it. *)
Stopped ==
  /\ stop = "stopping" /\ child # "alive"
  /\ status' = "Stopped"
  /\ stop' = "done"
  /\ UNCHANGED <<osVars, recorded, holder, monitor, at, seen, waitVars, startVars, readVars,
                 obsVars>>

(* The process stays listed. *)
StopFails ==
  /\ stop = "stopping"
  /\ stop' = "failed"
  /\ UNCHANGED <<osVars, proxyVars, monitor, at, seen, waitVars, startVars, readVars, obsVars>>

-----------------------------------------------------------------------------
(* wait_for_log, as long as the start looks at what became of it.          *)

Match ==
  /\ waits /\ ~line /\ start \in {"waiting", "sync", "synced"}
  /\ line' = TRUE
  /\ UNCHANGED <<osVars, proxyVars, monitor, at, seen, stop, waits, timedOut, startVars,
                 readVars, obsVars>>

PatternTimeout ==
  /\ waits /\ ~timedOut /\ start \in {"waiting", "sync", "synced", "ports"}
  /\ timedOut' = TRUE
  /\ UNCHANGED <<osVars, proxyVars, monitor, at, seen, stop, waits, line, startVars,
                 readVars, obsVars>>

-----------------------------------------------------------------------------
(* The start, from its wait on.                                            *)

Wake(how) ==
  /\ start = "waiting"
  /\ start' = "sync"
  /\ at' = [at EXCEPT !["start"] = "look"]
  /\ woke' = how
  /\ early' = CASE monitor \in {"reaped", "recorded"} -> "reaped"
                [] monitor = "done" -> "done"
                [] OTHER -> "no"
  /\ UNCHANGED <<osVars, proxyVars, monitor, seen, stop, waits, line, timedOut, answer, readVars,
                 obsVars>>

Woken ==
  \/ ~waits /\ Wake("other")
  \/ line /\ Wake("match")
  \/ timedOut /\ Wake("timeout")

(* One of the two streams ends, whatever becomes of the other. *)
StreamEnds == waits /\ Wake("other")

(* Ten seconds after the processors should have woken it. *)
SafetyNet == waits /\ Wake("other")

CollectLine ==
  /\ start = "synced"
  /\ answer' = [answer EXCEPT !.line = line]
  /\ line' = FALSE
  /\ start' = "ports"
  /\ UNCHANGED <<osVars, proxyVars, monitor, at, seen, stop, waits, timedOut, early, woke,
                 readVars, obsVars>>

(* After the ports have been looked up. *)
ReadFlag ==
  /\ start = "ports"
  /\ answer' = [answer EXCEPT !.timeout = timedOut]
  /\ timedOut' = FALSE
  /\ start' = "flag"
  /\ UNCHANGED <<osVars, proxyVars, monitor, at, seen, stop, waits, line, early, woke,
                 readVars, obsVars>>

(* An exit code goes with "Failed" only; with try_lock it may be missed. *)
CodeWith(s) == IF s = "Failed" /\ holder = "none" THEN recorded ELSE "none"

ReadStatus ==
  /\ start = "flag"
  /\ answer' = [answer EXCEPT !.status = status]
  /\ start' = "status"
  /\ UNCHANGED <<osVars, proxyVars, monitor, at, seen, stop, waitVars, early, woke, readVars,
                 obsVars>>

ReadCode ==
  /\ start = "status"
  /\ answer' = [answer EXCEPT !.code = CodeWith(answer.status)]
  /\ start' = "answered"
  /\ told' = (told \/ answer.status \in Ended)
  /\ UNCHANGED <<osVars, proxyVars, monitor, at, seen, stop, waitVars, early, woke, readVars,
                 overwritten, unchecked>>

(* The client goes away while the start awaits something. *)
Drop ==
  /\ start \in {"waiting", "ports"} \/ at["start"] = "kill"
  /\ start' = "dropped"
  /\ at' = [at EXCEPT !["start"] = "idle"]
  /\ line' = FALSE /\ timedOut' = FALSE
  /\ answer' = NoAnswer /\ early' = "no" /\ woke' = "none"
  /\ UNCHANGED <<osVars, proxyVars, monitor, seen, stop, waits, readVars, obsVars>>

-----------------------------------------------------------------------------
(* Readers.                                                                *)

GetProcess(r) ==
  /\ reader[r] = "idle" /\ stop # "done"
  /\ reader' = [reader EXCEPT ![r] = "status"]
  /\ view' = [view EXCEPT ![r] = NoView]
  /\ UNCHANGED <<osVars, proxyVars, monitor, at, seen, stop, waitVars, startVars, obsVars>>

(* The filter reads the status, which tells who asked for that one something,
   and the entry is then made with another read. *)
ListProcesses(r, filter) ==
  /\ reader[r] = "idle" /\ stop # "done" /\ status = filter
  /\ reader' = [reader EXCEPT ![r] = "status"]
  /\ view' = [view EXCEPT ![r] = NoView]
  /\ told' = (told \/ filter \in Ended)
  /\ UNCHANGED <<osVars, proxyVars, monitor, at, seen, stop, waitVars, startVars, overwritten,
                 unchecked>>

ViewStatus(r) ==
  /\ reader[r] = "status"
  /\ view' = [view EXCEPT ![r] = [status |-> status, code |-> "none"]]
  /\ reader' = [reader EXCEPT ![r] = "code"]
  /\ UNCHANGED <<osVars, proxyVars, monitor, at, seen, stop, waitVars, startVars, obsVars>>

ViewCode(r) ==
  /\ reader[r] = "code"
  /\ view' = [view EXCEPT ![r].code = CodeWith(view[r].status)]
  /\ reader' = [reader EXCEPT ![r] = "idle"]
  /\ told' = (told \/ view[r].status \in Ended)
  /\ UNCHANGED <<osVars, proxyVars, monitor, at, seen, stop, waitVars, startVars, overwritten,
                 unchecked>>

-----------------------------------------------------------------------------
(* What the clients make of the answer to a start or restart.              *)

Claim(what, holds) == IF holds THEN {what} ELSE {}

StartToolSays ==
  Claim("failed", answer.status = "Failed") \cup Claim("timeout", answer.timeout)
    \cup Claim("matched", answer.status = "Running" /\ answer.line /\ ~answer.timeout)

(* It takes a wait without a timeout for a match. *)
RestartToolSays ==
  Claim("failed", answer.status = "Failed") \cup Claim("timeout", answer.timeout)
    \cup Claim("matched", waits /\ ~answer.timeout)

StartCommandSays ==
  IF answer.status = "Failed" THEN {"failed"}
  ELSE {"started"} \cup Claim("matched", answer.line)
         \cup Claim("timeout", ~answer.line /\ answer.timeout)

(* It may have a pattern from the start before, but no word for it. *)
RestartCommandSays == IF answer.status = "Failed" THEN {"failed"} ELSE {"started"}

-----------------------------------------------------------------------------
Init ==
  /\ child = "alive" /\ code = "none"
  /\ status = "Starting" /\ recorded = "none" /\ holder = "none"
  /\ monitor = "waiting" /\ stop = "none"
  /\ at = [w \in Syncs |-> "idle"] /\ seen = [w \in Syncs |-> "none"]
  /\ waits \in BOOLEAN /\ line = FALSE /\ timedOut = FALSE
  /\ start = "waiting" /\ answer = NoAnswer
  /\ reader = [r \in Readers |-> "idle"]
  /\ view = [r \in Readers |-> NoView]
  /\ overwritten = FALSE /\ unchecked = FALSE /\ told = FALSE
  /\ early = "no" /\ woke = "none"

Monitor == Exit \/ Reap \/ Record \/ Settle \/ WaitFails

Sync(w) == Look(w) \/ Kill(w) \/ KillError(w) \/ Judge(w) \/ Store(w)

Stop == MarkStopping \/ Stopped \/ StopFails

Wait == Match \/ PatternTimeout

Starter == Woken \/ StreamEnds \/ SafetyNet \/ CollectLine \/ ReadFlag \/ ReadStatus \/ ReadCode \/ Drop

Reader(r) ==
  \/ GetProcess(r) \/ ViewStatus(r) \/ ViewCode(r)
  \/ \E filter \in Statuses : ListProcesses(r, filter)

Next ==
  \/ Monitor \/ Pick \/ Stop \/ Wait \/ Starter
  \/ \E w \in Syncs : Sync(w)
  \/ \E r \in Readers : Reader(r)

Spec == Init /\ [][Next]_vars

-----------------------------------------------------------------------------
(* Correctness.                                                            *)

(* Every variable keeps its type, an exit code is recorded only of a child
   that has been reaped, a sync that stores by it holds its lock, and the
   start's own sync runs while the start waits for it (manager.rs:388, 675-697). *)
TypeOK ==
  /\ child \in {"alive", "zombie", "reaped"}
  /\ code \in {"none", "zero", "nonzero", "signal"} /\ (code = "none" <=> child = "alive")
  /\ status \in Statuses
  /\ recorded \in {"none", "zero", "nonzero"} /\ (recorded # "none" => recorded = code)
  /\ monitor \in {"waiting", "reaped", "recorded", "done", "failed"}
  /\ child = "reaped" <=> monitor \in {"reaped", "recorded", "done"}
  /\ recorded # "none" => child = "reaped"
  /\ at \in [Syncs -> {"idle", "look", "kill", "judge", "store"}]
  /\ seen \in [Syncs -> {"none", "Running"} \cup Ended]
  /\ holder \in Syncs \cup {"none"}
  /\ \A w \in Syncs :
       /\ at[w] \in {"judge", "store"} <=> seen[w] # "none"
       /\ holder = w => recorded # "none" /\ seen[w] = StatusOf(recorded)
       /\ seen[w] = "Stopped" => holder = w
  /\ stop \in {"none", "stopping", "failed", "done"}
  /\ waits \in BOOLEAN /\ line \in BOOLEAN /\ timedOut \in BOOLEAN
  /\ start \in {"waiting", "sync", "synced", "ports", "flag", "status", "answered", "dropped"}
  /\ at["start"] # "idle" <=> start = "sync"
  /\ answer \in Answers
  /\ reader \in [Readers -> {"idle", "status", "code"}]
  /\ view \in [Readers -> Views]
  /\ overwritten \in BOOLEAN /\ unchecked \in BOOLEAN /\ told \in BOOLEAN
  /\ early \in {"no", "reaped", "done"}
  /\ woke \in {"none", "match", "timeout", "other"}

(* Nobody is told that a process has ended while it runs, unless the monitor
   could not wait for it, nor told another exit code than its own; and once
   somebody was told, nobody is told that it runs again, unless a sync has
   stored over the status meanwhile (manager.rs:288-345, 675-733,
   proxy.rs:185-229, helpers.rs:28-104). *)
TrueCode(a) == a.code # "none" => a.status = "Failed" /\ a.code = code

EndToldTrue ==
  /\ told /\ child = "alive" => monitor = "failed"
  /\ told /\ status \in Active => overwritten
  /\ TrueCode(answer) /\ \A r \in Readers : TrueCode(view[r])

(* "Critical for detecting processes that exit immediately" (manager.rs:388):
   of a child that had been reaped when its start woke, the client is told the
   end, and the right one if the monitor had come to its own. *)
ImmediateExitTold ==
  start = "answered" /\ early # "no" /\ stop = "none" /\ ~overwritten /\ ~unchecked =>
    /\ answer.status \in Ended
    /\ code # "zero" \/ early = "done" => answer.status = StatusOf(code)
    /\ code # "zero" => "failed" \in RestartToolSays \cap RestartCommandSays

(* Who says that the pattern was matched has a line that did, but for the tool
   for restarts, which says so whenever there was no timeout: of a stream that
   ended first, too, or of a wait that no processor ended, and beside a failure.
   A match that woke the start is told, or else a timeout, by the tools only
   (tools/start.rs:284-293, tools/restart.rs:160-172, commands/start.rs:156-176). *)
PatternClaims ==
  start = "answered" =>
    /\ "matched" \in StartToolSays \cup StartCommandSays => answer.line
    /\ "matched" \in RestartToolSays => answer.line \/ woke = "other"
    /\ woke = "match" /\ answer.status = "Running" =>
         /\ "matched" \in StartCommandSays
         /\ \A says \in {StartToolSays, RestartToolSays} :
              "matched" \in says \/ "timeout" \in says

(* What the answer to a start claims holds: whatever it says of the status,
   and of the pattern. *)
ClaimsHold == ImmediateExitTold /\ PatternClaims

=============================================================================
