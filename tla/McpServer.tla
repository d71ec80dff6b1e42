------------------------------ MODULE McpServer ------------------------------
(***************************************************************************)
(* The MCP server on stdin and stdout: a reader task that parses lines, a  *)
(* loop that spawns a task for each message and writes what the tasks put  *)
(* into one bounded queue, and an orderly end once stdin is closed.        *)
(*                                                                         *)
(* A line is garbage, one message or a batch, or bytes that are no text.   *)
(* A message is a "call" of a tool, which may send notifications before it *)
(* is answered, a "plain" request, answered at once, if only with an       *)
(* error, or a "notice", which is not answered.                            *)
(***************************************************************************)
EXTENDS Naturals, Sequences, FiniteSets

CONSTANTS Lines,   \* what a client may write
          InCap,   \* parsed messages on their way to the loop
          OutCap,  \* OUTGOING_CHANNEL_CAPACITY
          Notes,   \* how many notifications a call sends at most
          MaxLines \* bound: how many lines the client writes

ASSUME McpAssumption ==
  /\ Lines \subseteq [form : {"garbage", "bytes", "single", "batch"},
                      items : Seq({"call", "plain", "notice"})]
  /\ \A l \in Lines :
       /\ l.form = "single" => Len(l.items) = 1
       /\ l.form \in {"garbage", "bytes"} => l.items = <<>>
  /\ InCap \in Nat \ {0} /\ OutCap \in Nat \ {0}
  /\ Notes \in Nat /\ MaxLines \in Nat

VARIABLES
  \* the client
  typed,    \* lines it has written
  eof,      \* TRUE iff it has closed stdin
  deaf,     \* TRUE iff it has closed stdout
  stdout,   \* what was written to it
  \* the reader task
  taken,    \* how many lines it has read
  gone,     \* TRUE iff it has ended
  incoming, \* its channel, and the message it waits to put there
  \* the server
  server,   \* "serving", "draining", "closed" or "dead"
  outgoing, \* the queue of notifications and responses
  \* one task per line
  task,     \* where it is
  item,     \* the message of its batch it is at
  notes,    \* notifications sent for this message
  answers   \* responses gathered

clientVars == <<typed, eof, deaf>>
readerVars == <<taken, gone, incoming>>
taskVars   == <<task, item, notes, answers>>
vars == <<clientVars, stdout, readerVars, server, outgoing, taskVars>>

Ids == 1 .. MaxLines
Up == server \in {"serving", "draining"}

Sent == [kind : {"note", "answer"}, of : Ids, count : Nat]

Note(id) == [kind |-> "note", of |-> id, count |-> 0]
Answer(id, n) == [kind |-> "answer", of |-> id, count |-> n]

(* How many responses a line calls for; an empty batch and garbage get one
   that says so. *)
Due(l) ==
  IF l.items = <<>> THEN 1
                    ELSE Cardinality({n \in DOMAIN l.items : l.items[n] # "notice"})

Room == Len(outgoing) < OutCap

-----------------------------------------------------------------------------
(* Faulty variants, one plausible bug each; never part of Next.            *)

(* Waits for no room. *)
Notify_NoRoom(id) ==
  /\ Up /\ task[id] = "run" /\ typed[id].items[item[id]] = "call" /\ notes[id] < Notes
  /\ outgoing' = Append(outgoing, Note(id))
  /\ notes' = [notes EXCEPT ![id] = @ + 1]
  /\ UNCHANGED <<clientVars, stdout, readerVars, server, task, item, answers>>

(* Writes the response itself, past the queue. *)
Reply_Direct(id) ==
  /\ Up /\ task[id] = "reply"
  /\ stdout' = Append(stdout, Answer(id, answers[id]))
  /\ task' = [task EXCEPT ![id] = "ended"]
  /\ UNCHANGED <<clientVars, readerVars, server, outgoing, item, notes, answers>>

(* Takes the end of the reader for the end of its work. *)
SeeEof_Early ==
  /\ server = "serving" /\ gone
  /\ server' = "draining"
  /\ UNCHANGED <<clientVars, stdout, readerVars, outgoing, taskVars>>

(* Does not empty the queue while it waits for the tasks to end. *)
Send_Serving ==
  /\ outgoing # <<>>
  /\ \/ server = "serving"
     \/ server = "draining" /\ (\A id \in Ids : task[id] \in {"none", "joined"})
  /\ outgoing' = Tail(outgoing)
  /\ IF deaf THEN server' = "dead" /\ UNCHANGED stdout
             ELSE stdout' = Append(stdout, Head(outgoing)) /\ UNCHANGED server
  /\ UNCHANGED <<clientVars, readerVars, taskVars>>

-----------------------------------------------------------------------------
(* The client.                                                             *)

Type(l) ==
  /\ ~eof /\ Len(typed) < MaxLines
  /\ typed' = Append(typed, l)
  /\ UNCHANGED <<eof, deaf, stdout, readerVars, server, outgoing, taskVars>>

CloseStdin ==
  /\ ~eof
  /\ eof' = TRUE
  /\ UNCHANGED <<typed, deaf, stdout, readerVars, server, outgoing, taskVars>>

CloseStdout ==
  /\ ~deaf
  /\ deaf' = TRUE
  /\ UNCHANGED <<typed, eof, stdout, readerVars, server, outgoing, taskVars>>

-----------------------------------------------------------------------------
(* The reader.                                                             *)

ReadLine ==
  /\ Up /\ ~gone /\ taken < Len(typed) /\ Len(incoming) <= InCap
  /\ typed[taken + 1].form \in {"single", "batch"}
  /\ taken' = taken + 1
  /\ incoming' = Append(incoming, taken + 1)
  /\ UNCHANGED <<clientVars, stdout, gone, server, outgoing, taskVars>>

(* The answer to garbage does not go through the queue. *)
ReadGarbage ==
  /\ Up /\ ~gone /\ taken < Len(typed) /\ Len(incoming) <= InCap
  /\ typed[taken + 1].form = "garbage"
  /\ taken' = taken + 1
  /\ IF deaf THEN gone' = TRUE /\ UNCHANGED stdout
             ELSE stdout' = Append(stdout, Answer(taken + 1, 1)) /\ UNCHANGED gone
  /\ UNCHANGED <<clientVars, incoming, server, outgoing, taskVars>>

(* What is not UTF-8 ends the reader like the end of stdin does. *)
ReadBytes ==
  /\ Up /\ ~gone /\ taken < Len(typed) /\ Len(incoming) <= InCap
  /\ typed[taken + 1].form = "bytes"
  /\ taken' = taken + 1
  /\ gone' = TRUE
  /\ UNCHANGED <<clientVars, stdout, incoming, server, outgoing, taskVars>>

ReadEof ==
  /\ Up /\ ~gone /\ eof /\ taken = Len(typed)
  /\ gone' = TRUE
  /\ UNCHANGED <<clientVars, stdout, taken, incoming, server, outgoing, taskVars>>

-----------------------------------------------------------------------------
(* The server's loop.                                                      *)

Accept ==
  /\ server = "serving" /\ incoming # <<>>
  /\ LET id    == Head(incoming)
         empty == typed[id].items = <<>>
     IN /\ task' = [task EXCEPT ![id] = IF empty THEN "reply" ELSE "run"]
        /\ answers' = [answers EXCEPT ![id] = IF empty THEN 1 ELSE 0]
  /\ incoming' = Tail(incoming)
  /\ UNCHANGED <<clientVars, stdout, taken, gone, server, outgoing, item, notes>>

(* The reader has ended, and its channel is empty. *)
SeeEof ==
  /\ server = "serving" /\ gone /\ incoming = <<>>
  /\ server' = "draining"
  /\ UNCHANGED <<clientVars, stdout, readerVars, outgoing, taskVars>>

(* A write that fails ends the server and aborts its tasks. *)
Send ==
  /\ Up /\ outgoing # <<>>
  /\ outgoing' = Tail(outgoing)
  /\ IF deaf THEN server' = "dead" /\ UNCHANGED stdout
             ELSE stdout' = Append(stdout, Head(outgoing)) /\ UNCHANGED server
  /\ UNCHANGED <<clientVars, readerVars, taskVars>>

(* So does a task that panicked. *)
Join(id) ==
  /\ Up /\ task[id] \in {"ended", "panicked"}
  /\ task' = [task EXCEPT ![id] = "joined"]
  /\ server' = IF task[id] = "panicked" THEN "dead" ELSE server
  /\ UNCHANGED <<clientVars, stdout, readerVars, outgoing, item, notes, answers>>

Finish ==
  /\ server = "draining" /\ outgoing = <<>>
  /\ \A id \in Ids : task[id] \in {"none", "joined"}
  /\ server' = "closed"
  /\ UNCHANGED <<clientVars, stdout, readerVars, outgoing, taskVars>>

-----------------------------------------------------------------------------
(* A task: handle_message_realtime, message after message of a batch.      *)

Current(id) == typed[id].items[item[id]]

Notify(id) ==
  /\ Up /\ task[id] = "run" /\ Current(id) = "call" /\ notes[id] < Notes /\ Room
  /\ outgoing' = Append(outgoing, Note(id))
  /\ notes' = [notes EXCEPT ![id] = @ + 1]
  /\ UNCHANGED <<clientVars, stdout, readerVars, server, task, item, answers>>

(* The handler of one message returns, with a result or an error. *)
Handled(id) ==
  /\ Up /\ task[id] = "run"
  /\ LET more  == item[id] < Len(typed[id].items)
         count == answers[id] + (IF Current(id) = "notice" THEN 0 ELSE 1)
     IN /\ answers' = [answers EXCEPT ![id] = count]
        /\ item' = [item EXCEPT ![id] = IF more THEN @ + 1 ELSE @]
        /\ task' = [task EXCEPT ![id] =
             IF more THEN "run" ELSE IF count > 0 THEN "reply" ELSE "ended"]
  /\ notes' = [notes EXCEPT ![id] = 0]
  /\ UNCHANGED <<clientVars, stdout, readerVars, server, outgoing>>

Panic(id) ==
  /\ Up /\ task[id] = "run" /\ Current(id) = "call"
  /\ task' = [task EXCEPT ![id] = "panicked"]
  /\ UNCHANGED <<clientVars, stdout, readerVars, server, outgoing, item, notes, answers>>

Reply(id) ==
  /\ Up /\ task[id] = "reply" /\ Room
  /\ outgoing' = Append(outgoing, Answer(id, answers[id]))
  /\ task' = [task EXCEPT ![id] = "ended"]
  /\ UNCHANGED <<clientVars, stdout, readerVars, server, item, notes, answers>>

-----------------------------------------------------------------------------
Init ==
  /\ typed = <<>> /\ eof = FALSE /\ deaf = FALSE /\ stdout = <<>>
  /\ taken = 0 /\ gone = FALSE /\ incoming = <<>>
  /\ server = "serving" /\ outgoing = <<>>
  /\ task    = [id \in Ids |-> "none"]
  /\ item    = [id \in Ids |-> 1]
  /\ notes   = [id \in Ids |-> 0]
  /\ answers = [id \in Ids |-> 0]

Client == CloseStdin \/ CloseStdout \/ \E l \in Lines : Type(l)

Reader == ReadLine \/ ReadGarbage \/ ReadBytes \/ ReadEof

(* select! takes any branch that is ready. *)
Loop == Accept \/ SeeEof \/ Send \/ (\E id \in Ids : Join(id)) \/ Finish

Task(id) == Notify(id) \/ Handled(id) \/ Reply(id)

Next == Client \/ Reader \/ Loop \/ \E id \in Ids : Task(id) \/ Panic(id)

(* stdout takes what is written, select! begins at a random branch each time,
   so that none is passed over for ever, tool calls return (each is one gRPC
   call with a time limit), and whoever waits for room gets it in turn. *)
Fairness ==
  /\ WF_vars(Reader)
  /\ WF_vars(Accept) /\ WF_vars(Send) /\ WF_vars(SeeEof) /\ WF_vars(Finish)
  /\ \A id \in Ids :
       WF_vars(Join(id)) /\ WF_vars(Handled(id)) /\ SF_vars(Notify(id) \/ Reply(id))

Spec == Init /\ [][Next]_vars

FairSpec == Spec /\ Fairness

-----------------------------------------------------------------------------
(* Correctness.                                                            *)

Answered(id) == \E n \in DOMAIN stdout : stdout[n].kind = "answer" /\ stdout[n].of = id

(* Every variable keeps its type, and the queues their bounds
   (server.rs:15, 92-99, stdio.rs:48). *)
TypeOK ==
  /\ typed \in Seq(Lines) /\ Len(typed) <= MaxLines
  /\ eof \in BOOLEAN /\ deaf \in BOOLEAN /\ gone \in BOOLEAN
  /\ stdout \in Seq(Sent) /\ outgoing \in Seq(Sent) /\ Len(outgoing) <= OutCap
  /\ taken \in 0 .. Len(typed)
  /\ incoming \in Seq(1 .. taken) /\ Len(incoming) <= InCap + 1
  /\ server \in {"serving", "draining", "closed", "dead"}
  /\ task \in [Ids -> {"none", "run", "reply", "ended", "panicked", "joined"}]
  /\ item \in [Ids -> Nat \ {0}]
  /\ notes \in [Ids -> 0 .. Notes] /\ answers \in [Ids -> Nat]

(* TRUE iff the line has text before it only, and calls for an answer. *)
Expects(id) ==
  Due(typed[id]) > 0 /\ \A n \in 1 .. id : typed[n].form # "bytes"

(* A line is answered at most once, with one response per request in it, and
   not at all if it has none (protocol.rs:134-173); "backpressure and ordering
   are preserved": the notifications of a call are written before its response,
   whatever other tasks write in between and however full the queue is
   (server.rs:90-99); and a server that has ended in an orderly way has answered
   everything that was written before stdin was closed (server.rs:140-161). *)
AnsweredAsDue ==
  /\ \A n \in DOMAIN stdout : stdout[n].kind = "answer" =>
       /\ stdout[n].count = Due(typed[stdout[n].of]) /\ stdout[n].count > 0
       /\ \A m \in DOMAIN stdout : stdout[m].of = stdout[n].of =>
            IF stdout[m].kind = "answer" THEN m = n ELSE m < n
  /\ server = "closed" /\ ~deaf => \A id \in DOMAIN typed : Expects(id) => Answered(id)

(* Every request is answered, unless a task panics or the client stops
   listening; handlers that wait for room in the queue do not keep the loop
   from emptying it (server.rs:102-138). *)
EveryRequestAnswered ==
  \A id \in Ids :
    id <= Len(typed) /\ Expects(id) ~> Answered(id) \/ server = "dead" \/ deaf

(* "MCP serve now properly exits when receiving EOF" (CHANGELOG.md:38): the end
   of stdin is the end of the server, although handlers may be waiting for room
   at that moment (server.rs:121-161). *)
ServerEnds == eof ~> ~Up

=============================================================================
