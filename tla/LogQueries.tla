------------------------------ MODULE LogQueries ------------------------------
(***************************************************************************)
(* A query while the log grows: get_logs, which lists the sources, sub-    *)
(* scribes to the event hub, sends the end of a process's log file and     *)
(* then follows the hub, and grep_logs, which goes through the file once.  *)
(*                                                                         *)
(* The lines of all processes are numbered in the order in which they are  *)
(* produced.  A line is "hit" or "miss" for the pattern, "aged" if it is   *)
(* outside the time window of the query, or of "other" processes.  It is   *)
(* handed to the writer, then published; the writer stores it some time    *)
(* later.  The query is about one process with one stream.                 *)
(***************************************************************************)
EXTENDS Naturals, Sequences, FiniteSetsExt

CONSTANTS Requests,   \* queries that may arrive
          RingCap,    \* what the event hub keeps for a slow follower
          MaxMatches, \* MAX_GREP_MATCHES
          MaxLines    \* bound: how many lines are produced

ASSUME QueriesAssumption ==
  /\ Requests \subseteq [kind : {"get", "grep"}, tail : Nat, follow : BOOLEAN,
                         before : Nat, after : Nat]
  /\ RingCap \in Nat \ {0} /\ MaxMatches \in Nat \ {0} /\ MaxLines \in Nat

VARIABLES
  \* the processes and their pipelines
  lines,      \* everything handed to the writers
  published,  \* how many of them are published
  stored,     \* how many of them are in their file
  registered, \* TRUE iff the process is in the registry
  \* the query
  req,
  at,         \* where it is
  known,      \* TRUE iff the process is among the sources
  subscribed, \* how many lines had been published when it subscribed
  next,       \* how many events its receiver has gone past
  lagged,     \* TRUE iff it has missed some
  pos,        \* how many lines of the file it has read
  window,     \* the last `tail` of them
  sent,       \* what it answered
  before, pending, results  \* grep's before-buffer, open matches and answer

sysVars  == <<lines, published, stored, registered>>
getVars  == <<known, subscribed, next, lagged, window, sent>>
grepVars == <<before, pending, results>>
vars == <<sysVars, req, at, pos, getVars, grepVars>>

Kind == {"hit", "miss", "aged", "other"}
Mine(id) == lines[id] # "other"

(* The members of a set of numbers, in their order. *)
InOrder(I) ==
  [k \in 1 .. Cardinality(I) |->
     CHOOSE n \in I : Cardinality({m \in I : m < n}) = k - 1]

(* What s has at some positions. *)
Pick(s, I) == LET order == InOrder(I) IN [k \in DOMAIN order |-> s[order[k]]]

(* The file: the numbers of the process's lines that are stored. *)
File == InOrder({n \in 1 .. stored : Mine(n)})

LastOf(n, s) == SubSeq(s, Len(s) - Min({n, Len(s)}) + 1, Len(s))

-----------------------------------------------------------------------------
(* Faulty variants, one plausible bug each; never part of Next.            *)

(* Keeps one line too many. *)
TailLine_OneMore ==
  /\ at = "tail" /\ pos < Len(File)
  /\ pos' = pos + 1
  /\ window' = Append(IF Len(window) > req.tail THEN Tail(window) ELSE window, File[pos + 1])
  /\ UNCHANGED <<sysVars, req, at, known, subscribed, next, lagged, sent, grepVars>>

(* Numbers the lines of the tail from its beginning. *)
SendTail_FromOne ==
  /\ at = "tail" /\ pos = Len(File)
  /\ sent' = [n \in DOMAIN window |-> [line |-> window[n], number |-> n]]
  /\ at' = IF req.follow THEN "follow" ELSE "done"
  /\ UNCHANGED <<sysVars, req, pos, known, subscribed, next, lagged, window, grepVars>>

(* Subscribes when it begins to follow. *)
SendTail_Subscribe ==
  /\ at = "tail" /\ pos = Len(File)
  /\ sent' = [n \in DOMAIN window |-> [line |-> window[n], number |-> pos - Len(window) + n]]
  /\ at' = IF req.follow THEN "follow" ELSE "done"
  /\ next' = published
  /\ UNCHANGED <<sysVars, req, pos, known, subscribed, lagged, window, grepVars>>

(* Closes a match one line of context early. *)
Complete_Early(match) == Len(match.after) + 1 >= req.after

-----------------------------------------------------------------------------
(* The processes and their pipelines.                                      *)

Produce(kind) ==
  /\ Len(lines) < MaxLines
  /\ lines' = Append(lines, kind)
  /\ UNCHANGED <<published, stored, registered, req, at, pos, getVars, grepVars>>

Publish ==
  /\ published < Len(lines)
  /\ published' = published + 1
  /\ UNCHANGED <<lines, stored, registered, req, at, pos, getVars, grepVars>>

(* A write batch. *)
Store ==
  /\ \E n \in stored + 1 .. Len(lines) : stored' = n
  /\ UNCHANGED <<lines, published, registered, req, at, pos, getVars, grepVars>>

(* A process is registered once it is launched and may have written before. *)
Register ==
  /\ ~registered
  /\ registered' = TRUE
  /\ UNCHANGED <<lines, published, stored, req, at, pos, getVars, grepVars>>

-----------------------------------------------------------------------------
(* get_logs.                                                               *)

(* resolve_log_sources: what is registered or has a file. *)
ListSources ==
  /\ at = "list"
  /\ known' = (registered \/ File # <<>>)
  /\ at' = "subscribe"
  /\ UNCHANGED <<sysVars, req, pos, subscribed, next, lagged, window, sent, grepVars>>

Subscribe ==
  /\ at = "subscribe"
  /\ subscribed' = published
  /\ next' = published
  /\ at' = IF req.tail > 0 /\ known THEN "tail" ELSE IF req.follow THEN "follow" ELSE "done"
  /\ UNCHANGED <<sysVars, req, pos, known, lagged, window, sent, grepVars>>

(* tail_log_lines, line by line ... *)
TailLine ==
  /\ at = "tail" /\ pos < Len(File)
  /\ pos' = pos + 1
  /\ window' = Append(IF Len(window) = req.tail THEN Tail(window) ELSE window, File[pos + 1])
  /\ UNCHANGED <<sysVars, req, at, known, subscribed, next, lagged, sent, grepVars>>

(* ... to the end of the file; the lines are numbered as in the file. *)
SendTail ==
  /\ at = "tail" /\ pos = Len(File)
  /\ sent' = [n \in DOMAIN window |-> [line |-> window[n], number |-> pos - Len(window) + n]]
  /\ at' = IF req.follow THEN "follow" ELSE "done"
  /\ UNCHANGED <<sysVars, req, pos, known, subscribed, next, lagged, window, grepVars>>

(* An event of another process is skipped; the others are not numbered. *)
Follow ==
  /\ at = "follow" /\ next < published /\ published - next <= RingCap
  /\ next' = next + 1
  /\ sent' = IF Mine(next + 1) THEN Append(sent, [line |-> next + 1, number |-> 0]) ELSE sent
  /\ UNCHANGED <<sysVars, req, at, pos, known, subscribed, lagged, window, grepVars>>

(* A slow follower goes on with the oldest event there is. *)
Lag ==
  /\ at = "follow" /\ published - next > RingCap
  /\ next' = published - RingCap
  /\ lagged' = TRUE
  /\ UNCHANGED <<sysVars, req, at, pos, known, subscribed, window, sent, grepVars>>

-----------------------------------------------------------------------------
(* grep_logs.                                                              *)

(* A file that is not there is an error. *)
OpenForGrep ==
  /\ at = "open"
  /\ at' = IF File = <<>> THEN "done" ELSE "grep"
  /\ UNCHANGED <<sysVars, req, pos, getVars, grepVars>>

Complete(match) == Len(match.after) = req.after

SkipLine ==
  /\ at = "grep" /\ pos < Len(File) /\ lines[File[pos + 1]] = "aged"
  /\ pos' = pos + 1
  /\ UNCHANGED <<sysVars, req, at, getVars, grepVars>>

(* A line is context of the matches before it, completes some of them, is a
   match itself unless there are enough, and context of those after it. *)
GrepLine ==
  /\ at = "grep" /\ pos < Len(File) /\ lines[File[pos + 1]] # "aged"
  /\ pos' = pos + 1
  /\ LET id    == File[pos + 1]
         fed   == [n \in DOMAIN pending |->
                     IF Complete(pending[n]) THEN pending[n]
                     ELSE [pending[n] EXCEPT !.after = Append(@, id)]]
         full  == {n \in DOMAIN fed : Complete(fed[n])}
         found == results \o Pick(fed, full)
         open  == Pick(fed, DOMAIN fed \ full)
         mine  == [line |-> id, before |-> before, after |-> <<>>]
     IN /\ results' = found
        /\ IF Len(found) >= MaxMatches
           THEN at' = "done" /\ UNCHANGED <<before, pending>>
           ELSE /\ pending' = IF lines[id] = "hit" THEN Append(open, mine) ELSE open
                /\ before' = LastOf(req.before, Append(before, id))
                /\ UNCHANGED at
  /\ UNCHANGED <<sysVars, req, getVars>>

(* At the end of the file the open matches are answered as they are. *)
FinishGrep ==
  /\ at = "grep" /\ pos = Len(File)
  /\ LET all == results \o pending IN results' = SubSeq(all, 1, Min({MaxMatches, Len(all)}))
  /\ at' = "done"
  /\ UNCHANGED <<sysVars, req, pos, getVars, before, pending>>

-----------------------------------------------------------------------------
Init ==
  /\ lines = <<>> /\ published = 0 /\ stored = 0 /\ registered = FALSE
  /\ req \in Requests
  /\ at = IF req.kind = "get" THEN "list" ELSE "open"
  /\ known = FALSE /\ subscribed = 0 /\ next = 0 /\ lagged = FALSE
  /\ pos = 0 /\ window = <<>> /\ sent = <<>>
  /\ before = <<>> /\ pending = <<>> /\ results = <<>>

Pipeline == (\E kind \in Kind : Produce(kind)) \/ Publish \/ Store \/ Register

Query ==
  \/ ListSources \/ Subscribe \/ TailLine \/ SendTail \/ Follow \/ Lag
  \/ OpenForGrep \/ SkipLine \/ GrepLine \/ FinishGrep

Next == Pipeline \/ Query

Spec == Init /\ [][Next]_vars

-----------------------------------------------------------------------------
(* Correctness.                                                            *)

Match == [line : Nat, before : Seq(Nat), after : Seq(Nat)]

(* Every variable keeps its type and every buffer its bound
   (log_handlers.rs:530-606). *)
TypeOK ==
  /\ lines \in Seq(Kind)
  /\ published \in 0 .. Len(lines) /\ stored \in 0 .. Len(lines)
  /\ registered \in BOOLEAN /\ known \in BOOLEAN /\ lagged \in BOOLEAN
  /\ req \in Requests
  /\ at \in {"list", "subscribe", "tail", "follow", "open", "grep", "done"}
  /\ subscribed \in 0 .. published /\ next \in subscribed .. published
  /\ pos \in 0 .. Len(File)
  /\ window \in Seq(Nat) /\ Len(window) <= req.tail
  /\ sent \in Seq([line : Nat, number : Nat])
  /\ before \in Seq(Nat) /\ Len(before) <= req.before
  /\ pending \in Seq(Match) /\ Len(pending) <= req.after + 1
  /\ results \in Seq(Match) /\ Len(results) <= MaxMatches

(* A follower that has caught up without lagging lacks only lines before its
   tail, and lines that were published before it subscribed and not yet in
   the file when it had read it: what comes after the subscription it never
   misses, whenever it is stored (log_handlers.rs:138-207). *)
FollowerMissesNothing ==
  at = "follow" /\ next = published /\ ~lagged =>
    \A id \in 1 .. published : Mine(id) =>
      \/ \E n \in DOMAIN sent : sent[n].line = id
      \/ id <= subscribed /\ (~known \/ req.tail = 0)
      \/ \E n \in 1 .. pos - req.tail : File[n] = id
      \/ id <= subscribed /\ ~ \E n \in 1 .. pos : File[n] = id

(* The tail is the end of what was read of the file, nothing left out, and
   numbered as in the file, while the file grows (log_handlers.rs:530-556); and
   a follower is sent a line twice only if the line was stored before the end
   of the tail and published after the subscription, and lines otherwise in
   order (log_handlers.rs:147-207). *)
SentInOrder ==
  /\ \A n \in DOMAIN sent : sent[n].number > 0 =>
       LET count == Min({req.tail, pos}) IN
       sent[n].number = pos - count + n /\ sent[n].line = File[sent[n].number]
  /\ \A m, n \in DOMAIN sent :
       m < n /\ sent[m].line >= sent[n].line =>
         sent[m].number > 0 /\ sent[n].number = 0 /\ sent[n].line > subscribed

(* What grep answers, defined without buffers: the first matches among the
   lines in the window, each with its neighbours there. *)
Read == InOrder({id \in {File[n] : n \in 1 .. pos} : lines[id] # "aged"})
Hits == InOrder({n \in DOMAIN Read : lines[Read[n]] = "hit"})
Context(n) ==
  [line   |-> Read[n],
   before |-> LastOf(req.before, SubSeq(Read, 1, n - 1)),
   after  |-> SubSeq(Read, n + 1, Min({Len(Read), n + req.after}))]
Answers == [k \in DOMAIN Hits |-> Context(Hits[k])]
Expected == SubSeq(Answers, 1, Min({MaxMatches, Len(Answers)}))

(* grep answers exactly that, although it goes through a growing file once,
   with matches that overlap and stop at a limit (log_handlers.rs:588-703). *)
GrepAnswersExpected == req.kind = "grep" /\ at = "done" => results = Expected

=============================================================================
