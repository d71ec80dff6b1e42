----------------------------- MODULE WaitForLog -----------------------------
(***************************************************************************)
(* A start with a wait_for_log pattern: the start waits on a channel that  *)
(* two stream processors, one per output stream of the child, may use or   *)
(* close.  They share the match and timeout flags, the matched line and    *)
(* the sending end of the channel, each behind a lock of its own.          *)
(*                                                                         *)
(* A chunk is what one read returns: a whole line that the pattern matches *)
(* ("hit") or not ("miss"), or the beginning of a matching line without    *)
(* its newline ("prompt").  The pipe, the reader task and the chunk        *)
(* channel hand chunks on in order and are one queue per stream.  A start  *)
(* that is dropped while it waits changes nothing here and is left out.    *)
(***************************************************************************)
EXTENDS Naturals, Sequences

CONSTANTS Streams,   \* stdout and stderr
          NoLine,    \* "none"
          BatchSize, \* chunks in a full batch (BATCH_SIZE)
          MaxChunks  \* bound: how many chunks the child writes

ASSUME WaitAssumption ==
  /\ NoLine \notin Streams
  /\ BatchSize \in Nat \ {0}
  /\ MaxChunks \in Nat

VARIABLES
  \* the child
  open,      \* streams whose write end somebody still holds
  written,   \* how many chunks it wrote (for the bound only)
  \* one processor per stream
  queue,     \* chunks on their way to it
  batch,     \* chunks it received and has not gone through
  partial,   \* TRUE iff its line buffer holds a prompt
  ended,     \* TRUE iff it has seen the end of its stream
  armed,     \* select!'s precondition of the timeout branch, as evaluated on entry
  at,        \* where it is
  \* shared by the processors and the start
  matched,   \* pattern_matched
  line,      \* matched_line: the stream it came from
  timedOut,  \* timeout_occurred
  ready,     \* the sender: "open", "sent" or "closed"
  \* the start
  start,     \* "waiting", "woken", "ports" or "answered"
  answer,    \* what it answers: matched_line and wait_timeout_occurred
  now        \* 0; 1 once wait_timeout is over; 2 once ten more seconds are

childVars == <<open, written>>
procVars  == <<queue, batch, partial, ended, armed, at>>
flagVars  == <<matched, line, timedOut, ready>>
startVars == <<start, answer>>
vars == <<childVars, procVars, flagVars, startVars, now>>

Chunk == {"hit", "miss", "prompt"}
Labels == {"loop", "select", "batch", "match", "save", "wake", "write", "stuck", "late",
           "tail", "done"}

To(s, label) == at' = [at EXCEPT ![s] = label]

(* Where process_batch and its callers go on once `rest` is left of the batch. *)
After(s, rest) == IF rest # <<>> THEN "batch" ELSE IF ended[s] THEN "tail" ELSE "loop"

(* Taking the sender out of its Option: only the first taker finds it. *)
Take(how) == ready' = IF ready = "open" THEN how ELSE ready

-----------------------------------------------------------------------------
(* Faulty variants, one plausible bug each; never part of Next.            *)

(* Tells the start before the line is there to be told. *)
SetMatched_NotifyFirst(s) ==
  /\ at[s] = "match"
  /\ matched' = TRUE
  /\ Take("sent")
  /\ To(s, "save")
  /\ UNCHANGED <<childVars, queue, batch, partial, ended, armed, line, timedOut,
                 startVars, now>>

(* Goes through full batches only. *)
BatchTimeout_Full(s) ==
  /\ at[s] = "select" /\ Len(batch[s]) >= BatchSize
  /\ To(s, "batch")
  /\ UNCHANGED <<childVars, queue, batch, partial, ended, armed, flagVars, startVars, now>>

(* Trusts the processors to time out. *)
SafetyNet_TimedOut ==
  /\ start = "waiting" /\ now = 2 /\ timedOut
  /\ start' = "woken"
  /\ UNCHANGED <<childVars, procVars, flagVars, answer, now>>

(* Receives without asking where the batch ends. *)
Receive_Unbounded(s) ==
  /\ at[s] = "select" /\ queue[s] # <<>>
  /\ batch' = [batch EXCEPT ![s] = Append(@, Head(queue[s]))]
  /\ To(s, "select")
  /\ queue' = [queue EXCEPT ![s] = Tail(@)]
  /\ UNCHANGED <<childVars, partial, ended, armed, flagVars, startVars, now>>

-----------------------------------------------------------------------------
(* The child.                                                              *)

Write(s, c) ==
  /\ s \in open /\ written < MaxChunks
  /\ written' = written + 1
  /\ queue' = [queue EXCEPT ![s] = Append(@, c)]
  /\ UNCHANGED <<open, batch, partial, ended, armed, at, flagVars, startVars, now>>

(* It ends, or closes or redirects one of its streams and lives on. *)
Close(s) ==
  /\ s \in open
  /\ open' = open \ {s}
  /\ UNCHANGED <<written, procVars, flagVars, startVars, now>>

Tick ==
  /\ now < 2
  /\ now' = now + 1
  /\ UNCHANGED <<childVars, procVars, flagVars, startVars>>

-----------------------------------------------------------------------------
(* A processor.                                                            *)

EnterSelect(s) ==
  /\ at[s] = "loop"
  /\ armed' = [armed EXCEPT ![s] = ~matched /\ ~timedOut]
  /\ To(s, "select")
  /\ UNCHANGED <<childVars, queue, batch, partial, ended, flagVars, startVars, now>>

Receive(s) ==
  /\ at[s] = "select" /\ queue[s] # <<>>
  /\ LET more == Append(batch[s], Head(queue[s])) IN
       /\ batch' = [batch EXCEPT ![s] = more]
       /\ To(s, IF Len(more) >= BatchSize THEN "batch" ELSE "loop")
  /\ queue' = [queue EXCEPT ![s] = Tail(@)]
  /\ UNCHANGED <<childVars, partial, ended, armed, flagVars, startVars, now>>

(* 50 ms after the last flush. *)
BatchTimeout(s) ==
  /\ at[s] = "select" /\ batch[s] # <<>>
  /\ To(s, "batch")
  /\ UNCHANGED <<childVars, queue, batch, partial, ended, armed, flagVars, startVars, now>>

(* The reader hung up. *)
StreamEnds(s) ==
  /\ at[s] = "select" /\ queue[s] = <<>> /\ s \notin open
  /\ ended' = [ended EXCEPT ![s] = TRUE]
  /\ To(s, IF batch[s] # <<>> THEN "batch" ELSE "tail")
  /\ UNCHANGED <<childVars, queue, batch, partial, armed, flagVars, startVars, now>>

(* handle_pattern_match_timeout: the flag, then the sender. *)
PatternTimeout(s) ==
  /\ at[s] = "select" /\ armed[s] /\ now >= 1
  /\ timedOut' = TRUE
  /\ To(s, "late")
  /\ UNCHANGED <<childVars, queue, batch, partial, ended, armed, matched, line, ready,
                 startVars, now>>

CloseLate(s) ==
  /\ at[s] = "late"
  /\ Take("closed")
  /\ To(s, "loop")
  /\ UNCHANGED <<childVars, queue, batch, partial, ended, armed, matched, line, timedOut,
                 startVars, now>>

(* process_batch, one chunk: a line is complete unless it is a prompt, and
   whatever completes a prompt completes a matching line. *)
ProcessChunk(s) ==
  /\ at[s] = "batch"
  /\ LET chunk == Head(batch[s])
         rest  == Tail(batch[s])
         found == (chunk = "hit" \/ (chunk = "miss" /\ partial[s])) /\ ~matched
     IN /\ batch' = [batch EXCEPT ![s] = rest]
        /\ partial' = [partial EXCEPT ![s] = chunk = "prompt"]
        /\ To(s, IF found THEN "match" ELSE IF chunk = "prompt" THEN After(s, rest) ELSE "write")
  /\ UNCHANGED <<childVars, queue, ended, armed, flagVars, startVars, now>>

(* The end of the stream completes a prompt, too. *)
FinalLine(s) ==
  /\ at[s] = "tail" /\ partial[s]
  /\ partial' = [partial EXCEPT ![s] = FALSE]
  /\ To(s, IF matched THEN "write" ELSE "match")
  /\ UNCHANGED <<childVars, queue, batch, ended, armed, flagVars, startVars, now>>

(* A match: the flag, the line, the notification, each under its own lock. *)
SetMatched(s) ==
  /\ at[s] = "match"
  /\ matched' = TRUE
  /\ To(s, "save")
  /\ UNCHANGED <<childVars, queue, batch, partial, ended, armed, line, timedOut, ready,
                 startVars, now>>

SaveLine(s) ==
  /\ at[s] = "save"
  /\ line' = s
  /\ To(s, "wake")
  /\ UNCHANGED <<childVars, queue, batch, partial, ended, armed, matched, timedOut, ready,
                 startVars, now>>

NotifyReady(s) ==
  /\ at[s] = "wake"
  /\ Take("sent")
  /\ To(s, "write")
  /\ UNCHANGED <<childVars, queue, batch, partial, ended, armed, matched, line, timedOut,
                 startVars, now>>

(* Every line then goes to the writer's channel, which may be full for a
   while, or for ever if the disk is stuck. *)
WriteLine(s) ==
  /\ at[s] = "write"
  /\ To(s, After(s, batch[s]))
  /\ UNCHANGED <<childVars, queue, batch, partial, ended, armed, flagVars, startVars, now>>

WriteBlocks(s) ==
  /\ at[s] = "write"
  /\ To(s, "stuck")
  /\ UNCHANGED <<childVars, queue, batch, partial, ended, armed, flagVars, startVars, now>>

(* At the end of its stream a processor closes the channel for both. *)
CloseReady(s) ==
  /\ at[s] = "tail" /\ ~partial[s]
  /\ Take("closed")
  /\ To(s, "done")
  /\ UNCHANGED <<childVars, queue, batch, partial, ended, armed, matched, line, timedOut,
                 startVars, now>>

-----------------------------------------------------------------------------
(* The start.                                                              *)

Woken ==
  /\ start = "waiting" /\ ready # "open"
  /\ start' = "woken"
  /\ UNCHANGED <<childVars, procVars, flagVars, answer, now>>

(* wait_timeout + 10 s, in case no processor ever comes round. *)
SafetyNet ==
  /\ start = "waiting" /\ now = 2
  /\ start' = "woken"
  /\ UNCHANGED <<childVars, procVars, flagVars, answer, now>>

(* The matched line is read before the ports are looked up, the timeout flag
   after. *)
CollectLine ==
  /\ start = "woken"
  /\ answer' = [answer EXCEPT !.line = line]
  /\ start' = "ports"
  /\ UNCHANGED <<childVars, procVars, flagVars, now>>

AnswerStart ==
  /\ start = "ports"
  /\ answer' = [answer EXCEPT !.timeout = timedOut]
  /\ start' = "answered"
  /\ UNCHANGED <<childVars, procVars, flagVars, now>>

-----------------------------------------------------------------------------
Init ==
  /\ open = Streams
  /\ written = 0
  /\ queue   = [s \in Streams |-> <<>>]
  /\ batch   = [s \in Streams |-> <<>>]
  /\ partial = [s \in Streams |-> FALSE]
  /\ ended   = [s \in Streams |-> FALSE]
  /\ armed   = [s \in Streams |-> FALSE]
  /\ at      = [s \in Streams |-> "loop"]
  /\ matched = FALSE /\ line = NoLine /\ timedOut = FALSE /\ ready = "open"
  /\ start = "waiting" /\ answer = [line |-> NoLine, timeout |-> FALSE]
  /\ now = 0

Child == \E s \in Streams : Close(s) \/ \E c \in Chunk : Write(s, c)

Processor(s) ==
  \/ EnterSelect(s) \/ Receive(s) \/ BatchTimeout(s) \/ StreamEnds(s)
  \/ PatternTimeout(s) \/ CloseLate(s) \/ ProcessChunk(s) \/ FinalLine(s)
  \/ SetMatched(s) \/ SaveLine(s) \/ NotifyReady(s) \/ WriteLine(s) \/ CloseReady(s)

Starter == Woken \/ SafetyNet \/ CollectLine \/ AnswerStart

Next ==
  \/ Child \/ Tick \/ Starter
  \/ \E s \in Streams : Processor(s) \/ WriteBlocks(s)

(* Time passes, the runtime polls what is ready, and timers fire.  A child
   need not write or close anything, and a blocked write need not return. *)
Fairness ==
  /\ WF_vars(Tick)
  /\ WF_vars(Starter)
  /\ \A s \in Streams : WF_vars(Processor(s))

Spec == Init /\ [][Next]_vars

FairSpec == Spec /\ Fairness

-----------------------------------------------------------------------------
(* Correctness.                                                            *)

(* Every variable keeps its type; a batch is gone through as soon as it is
   full, and never an empty one (hyperlog.rs:19-38, 119-121, 203-230). *)
TypeOK ==
  /\ open \subseteq Streams
  /\ written \in 0 .. MaxChunks
  /\ queue \in [Streams -> Seq(Chunk)] /\ batch \in [Streams -> Seq(Chunk)]
  /\ \A s \in Streams :
       /\ Len(batch[s]) <= BatchSize
       /\ at[s] \in {"loop", "select", "late"} => Len(batch[s]) < BatchSize
       /\ at[s] = "batch" => batch[s] # <<>>
  /\ partial \in [Streams -> BOOLEAN] /\ ended \in [Streams -> BOOLEAN]
  /\ armed \in [Streams -> BOOLEAN]
  /\ at \in [Streams -> Labels]
  /\ matched \in BOOLEAN /\ timedOut \in BOOLEAN
  /\ line \in Streams \cup {NoLine}
  /\ ready \in {"open", "sent", "closed"}
  /\ start \in {"waiting", "woken", "ports", "answered"}
  /\ answer \in [line : Streams \cup {NoLine}, timeout : BOOLEAN]
  /\ now \in 0 .. 2

(* A start that a match has woken can name the line, although flag, line and
   notification are set under three locks by processors that may both be
   matching, while another one is closing the channel (hyperlog.rs:325-351);
   one that goes on without a line has been told of a timeout, or a stream has
   ended; and it reports no timeout before the time is over, though the flag is
   read after the wait, when the processor of the other stream may have set it
   for a pattern that was found (hyperlog.rs:172, manager.rs:413-426). *)
MatchReported ==
  /\ ready = "sent" => matched /\ line # NoLine
  /\ start \in {"ports", "answered"} /\ ready = "sent" /\ now < 2 => answer.line # NoLine
  /\ start = "answered" /\ now < 2 /\ answer.line = NoLine =>
       answer.timeout \/ \E s \in Streams : ended[s]
  /\ start = "answered" /\ answer.timeout => now >= 1

(* Every start is answered, even if both processors are stuck on their disk
   and never time out (manager.rs:359-365). *)
StartAnswers == <>(start = "answered")

(* A line that matches is found, also when it comes after the timeout, in a
   batch that never fills, or from the other stream than the last one
   (hyperlog.rs:158-253). *)
HitIsFound ==
  \A s \in Streams :
    (\E n \in DOMAIN queue[s] : queue[s][n] = "hit") ~> matched \/ at[s] = "stuck"

=============================================================================
