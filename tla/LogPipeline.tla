----------------------------- MODULE LogPipeline -----------------------------
(***************************************************************************)
(* The way of a child's output to its log file and to the followers.  Per  *)
(* stream: a pipe, a reader that cuts it into chunks, a bounded channel, a *)
(* processor that gathers chunks into batches and splits them into lines,  *)
(* a bounded channel, a writer that gathers lines into batches and appends *)
(* them to a file that both streams share.  Lines are also published.      *)
(*                                                                         *)
(* The n-th byte of a stream is n, or -n if it is a newline; 0 is a        *)
(* newline that the pipeline added.  Timestamps and levels, which the      *)
(* writer puts before each line, are left out.                             *)
(***************************************************************************)
EXTENDS Integers, Sequences, SequencesExt

CONSTANTS Streams,    \* stdout and stderr
          Earlier,    \* who wrote what the file held before
          ChunkSize,  \* bytes in one read (CHUNK_SIZE)
          ChunkCap,   \* chunks on their way to the processor (CHUNK_CHANNEL_CAPACITY)
          BatchSize,  \* chunks in a full batch (BATCH_SIZE)
          MaxLine,    \* longest partial line (MAX_LINE_BUFFER_SIZE)
          WriterCap,  \* lines on their way to the writer (CHANNEL_BUFFER_SIZE)
          WriteBatch, \* lines in a full write batch (WRITE_BATCH_SIZE)
          MaxBytes    \* bound: how many bytes the child writes

ASSUME PipelineAssumption ==
  /\ Earlier \notin Streams
  /\ \A n \in {ChunkSize, ChunkCap, BatchSize, WriterCap, WriteBatch} : n \in Nat \ {0}
  /\ MaxLine \in Nat /\ MaxBytes \in Nat

VARIABLES
  \* the child
  open,      \* streams whose write end somebody still holds
  emitted,   \* everything it wrote, per stream
  pipe,      \* what of it nobody has read
  \* one processor per stream
  chunks,    \* its channel, and the chunk the reader holds
  batch,     \* chunks it received and has not gone through
  buffer,    \* its line buffer
  line,      \* the line it is about to hand on
  collected, \* lines_to_publish
  ended,     \* TRUE iff it has seen the end of its stream
  at,        \* where it is
  \* one writer per stream
  entries,   \* its channel
  wbatch,    \* lines it received and has not written
  inflight,  \* what its file object is writing behind its back
  writer,    \* where it is
  failing,   \* streams whose writer has met an error
  \* what they share
  file,      \* the log file: records of a source and a text
  published  \* per stream, the lines sent to the event hub

childVars  == <<open, emitted, pipe>>
procVars   == <<chunks, batch, buffer, line, collected, ended, at>>
writerVars == <<entries, wbatch, inflight, writer, failing>>
vars == <<childVars, procVars, writerVars, file, published>>

Byte == Int \ {0}    \* what a child writes
Bytes == Seq(Byte)
Chunks == Seq(Bytes)
Text == Seq(Int)     \* what the pipeline makes of it
Texts == Seq(Text)
Batches == Seq([from : Streams, text : Text])  \* of records
Files == Seq([from : Streams \cup {Earlier}, text : Text])
IsNewline(b) == b <= 0
EndsLine(text) == text # <<>> /\ IsNewline(Last(text))
HasLine(text) == \E n \in DOMAIN text : IsNewline(text[n])
NewlineAt(text) == SelectInSeq(text, IsNewline)

(* How many bytes all streams got. *)
TotalBytes == FoldFunction(LAMBDA text, n : Len(text) + n, 0, emitted)

Record(s, text) == [from |-> s, text |-> text]
AddedNewline(s) == Record(s, <<0>>)

To(s, label) == at' = [at EXCEPT ![s] = label]

(* The receiving end of the writer's channel is there. *)
Receiving(s) == writer[s] \in {"opening", "running", "flush", "closing"}

-----------------------------------------------------------------------------
(* Faulty variants, one plausible bug each; never part of Next.            *)

(* Hands lines on whether or not there is room. *)
SendLine_NoRoom(s) ==
  /\ at[s] = "send"
  /\ entries' = [entries EXCEPT ![s] = IF Receiving(s) THEN Append(@, line[s]) ELSE @]
  /\ collected' = [collected EXCEPT ![s] = Append(@, line[s])]
  /\ line' = [line EXCEPT ![s] = <<>>]
  /\ To(s, "lines")
  /\ UNCHANGED <<childVars, chunks, batch, buffer, ended, wbatch, inflight, writer, failing,
                 file, published>>

(* Tries again until the writer takes the line. *)
SendLine_Insist(s) ==
  /\ at[s] = "send"
  /\ Receiving(s) /\ Len(entries[s]) < WriterCap
  /\ entries' = [entries EXCEPT ![s] = Append(@, line[s])]
  /\ collected' = [collected EXCEPT ![s] = Append(@, line[s])]
  /\ line' = [line EXCEPT ![s] = <<>>]
  /\ To(s, "lines")
  /\ UNCHANGED <<childVars, chunks, batch, buffer, ended, wbatch, inflight, writer, failing,
                 file, published>>

(* Appends to whatever is there. *)
OpenLog_Unmended(s) ==
  /\ writer[s] = "opening"
  /\ writer' = [writer EXCEPT ![s] = "running"]
  /\ UNCHANGED <<childVars, procVars, entries, wbatch, inflight, failing, file, published>>

(* Writes when the batch is full, and only then. *)
WriteTimer_Full(s) ==
  /\ writer[s] = "running" /\ Len(wbatch[s]) >= WriteBatch
  /\ writer' = [writer EXCEPT ![s] = "flush"]
  /\ UNCHANGED <<childVars, procVars, entries, wbatch, inflight, failing, file, published>>

(* Writes the batch and keeps it. *)
FlushBatch_Keep(s) ==
  /\ writer[s] = "flush" /\ wbatch[s] # <<>>
  /\ inflight[s] = <<>> /\ s \notin failing
  /\ inflight' = [inflight EXCEPT ![s] =
       [n \in DOMAIN wbatch[s] |-> Record(s, wbatch[s][n])]]
  /\ writer' = [writer EXCEPT ![s] = "running"]
  /\ UNCHANGED <<childVars, procVars, entries, wbatch, failing, file, published>>

(* Does not wait for what the file object is still writing. *)
FinalFlush_NoWait(s) ==
  /\ writer[s] = "closing" /\ wbatch[s] = <<>> /\ s \notin failing
  /\ writer' = [writer EXCEPT ![s] = "done"]
  /\ UNCHANGED <<childVars, procVars, entries, wbatch, inflight, failing, file, published>>

-----------------------------------------------------------------------------
(* The child.                                                              *)

Write(s) ==
  /\ s \in open
  /\ TotalBytes < MaxBytes
  /\ \E b \in {Len(emitted[s]) + 1, -(Len(emitted[s]) + 1)} :
       /\ emitted' = [emitted EXCEPT ![s] = Append(@, b)]
       /\ pipe' = [pipe EXCEPT ![s] = Append(@, b)]
  /\ UNCHANGED <<open, procVars, writerVars, file, published>>

Close(s) ==
  /\ s \in open
  /\ open' = open \ {s}
  /\ UNCHANGED <<emitted, pipe, procVars, writerVars, file, published>>

-----------------------------------------------------------------------------
(* The reader: a chunk is what one read returns.                           *)

ReadChunk(s) ==
  /\ Len(chunks[s]) <= ChunkCap
  /\ \E n \in 1 .. Len(pipe[s]) :
       /\ n <= ChunkSize
       /\ chunks' = [chunks EXCEPT ![s] = Append(@, SubSeq(pipe[s], 1, n))]
       /\ pipe' = [pipe EXCEPT ![s] = SubSeq(@, n + 1, Len(@))]
  /\ UNCHANGED <<open, emitted, batch, buffer, line, collected, ended, at, writerVars,
                 file, published>>

-----------------------------------------------------------------------------
(* The processor.                                                          *)

(* Without its directory there is no writer; output is still published. *)
CreateWriter(s) ==
  /\ at[s] = "new"
  /\ \E w \in {"opening", "none"} : writer' = [writer EXCEPT ![s] = w]
  /\ To(s, "loop")
  /\ UNCHANGED <<childVars, chunks, batch, buffer, line, collected, ended, entries, wbatch,
                 inflight, failing, file, published>>

Receive(s) ==
  /\ at[s] = "loop" /\ chunks[s] # <<>>
  /\ LET more == Append(batch[s], Head(chunks[s])) IN
       /\ batch' = [batch EXCEPT ![s] = more]
       /\ To(s, IF Len(more) >= BatchSize THEN "batch" ELSE "loop")
  /\ chunks' = [chunks EXCEPT ![s] = Tail(@)]
  /\ UNCHANGED <<childVars, buffer, line, collected, ended, writerVars, file, published>>

(* 50 ms after the last flush. *)
BatchTimeout(s) ==
  /\ at[s] = "loop" /\ batch[s] # <<>>
  /\ To(s, "batch")
  /\ UNCHANGED <<childVars, chunks, batch, buffer, line, collected, ended, writerVars,
                 file, published>>

(* The reader saw the end of the pipe, and its channel is empty. *)
StreamEnds(s) ==
  /\ at[s] = "loop" /\ s \notin open /\ pipe[s] = <<>> /\ chunks[s] = <<>>
  /\ ended' = [ended EXCEPT ![s] = TRUE]
  /\ To(s, IF batch[s] # <<>> THEN "batch" ELSE "tail")
  /\ UNCHANGED <<childVars, chunks, batch, buffer, line, collected, writerVars, file,
                 published>>

(* process_batch: chunk after chunk into the line buffer ... *)
TakeChunk(s) ==
  /\ at[s] = "batch" /\ batch[s] # <<>>
  /\ buffer' = [buffer EXCEPT ![s] = @ \o Head(batch[s])]
  /\ batch' = [batch EXCEPT ![s] = Tail(@)]
  /\ To(s, "lines")
  /\ UNCHANGED <<childVars, chunks, line, collected, ended, writerVars, file, published>>

(* ... and complete lines out of it, ... *)
ExtractLine(s) ==
  /\ at[s] = "lines" /\ HasLine(buffer[s])
  /\ LET n == NewlineAt(buffer[s]) IN
       /\ line' = [line EXCEPT ![s] = SubSeq(buffer[s], 1, n)]
       /\ buffer' = [buffer EXCEPT ![s] = SubSeq(@, n + 1, Len(@))]
  /\ To(s, "send")
  /\ UNCHANGED <<childVars, chunks, batch, collected, ended, writerVars, file, published>>

(* ... or a partial line that has grown too long, ... *)
ForceLine(s) ==
  /\ at[s] = "lines" /\ ~HasLine(buffer[s]) /\ Len(buffer[s]) > MaxLine
  /\ line' = [line EXCEPT ![s] = Append(buffer[s], 0)]
  /\ buffer' = [buffer EXCEPT ![s] = <<>>]
  /\ To(s, "send")
  /\ UNCHANGED <<childVars, chunks, batch, collected, ended, writerVars, file, published>>

NextChunk(s) ==
  /\ at[s] = "lines" /\ ~HasLine(buffer[s]) /\ Len(buffer[s]) <= MaxLine
  /\ To(s, "batch")
  /\ UNCHANGED <<childVars, chunks, batch, buffer, line, collected, ended, writerVars,
                 file, published>>

(* ... to the writer, waiting for room; an error is logged, and the line
   published all the same. *)
SendLine(s) ==
  /\ at[s] = "send"
  /\ Receiving(s) => Len(entries[s]) < WriterCap
  /\ entries' = [entries EXCEPT ![s] = IF Receiving(s) THEN Append(@, line[s]) ELSE @]
  /\ collected' = [collected EXCEPT ![s] = Append(@, line[s])]
  /\ line' = [line EXCEPT ![s] = <<>>]
  /\ To(s, "lines")
  /\ UNCHANGED <<childVars, chunks, batch, buffer, ended, wbatch, inflight, writer, failing,
                 file, published>>

(* The end of process_batch. *)
Publish(s) ==
  /\ at[s] = "batch" /\ batch[s] = <<>>
  /\ published' = [published EXCEPT ![s] = @ \o collected[s]]
  /\ collected' = [collected EXCEPT ![s] = <<>>]
  /\ To(s, IF ended[s] THEN "tail" ELSE "loop")
  /\ UNCHANGED <<childVars, chunks, batch, buffer, line, ended, writerVars, file>>

(* What is left without a newline gets one, and a batch of its own. *)
FinalLine(s) ==
  /\ at[s] = "tail" /\ buffer[s] # <<>>
  /\ buffer' = [buffer EXCEPT ![s] = Append(@, 0)]
  /\ batch' = [batch EXCEPT ![s] = <<(<<>>)>>]
  /\ To(s, "batch")
  /\ UNCHANGED <<childVars, chunks, line, collected, ended, writerVars, file, published>>

(* BatchLogWriter::shutdown: hang up, then wait for the writer. *)
HangUp(s) ==
  /\ at[s] = "tail" /\ buffer[s] = <<>>
  /\ To(s, "closing")
  /\ UNCHANGED <<childVars, chunks, batch, buffer, line, collected, ended, writerVars, file,
                 published>>

WriterJoined(s) ==
  /\ at[s] = "closing" /\ writer[s] \in {"none", "done", "failed"}
  /\ To(s, "done")
  /\ UNCHANGED <<childVars, chunks, batch, buffer, line, collected, ended, writerVars, file,
                 published>>

-----------------------------------------------------------------------------
(* The writer.                                                             *)

(* A file that does not end with a newline is given one. *)
OpenLog(s) ==
  /\ writer[s] = "opening"
  /\ inflight' = [inflight EXCEPT ![s] =
       IF file # <<>> /\ ~EndsLine(Last(file).text) THEN <<AddedNewline(s)>> ELSE <<>>]
  /\ writer' = [writer EXCEPT ![s] = "running"]
  /\ UNCHANGED <<childVars, procVars, entries, wbatch, failing, file, published>>

(* A writer that ends drops its channel with everything in it. *)
Fail(s) ==
  /\ writer' = [writer EXCEPT ![s] = "failed"]
  /\ entries' = [entries EXCEPT ![s] = <<>>]
  /\ wbatch' = [wbatch EXCEPT ![s] = <<>>]
  /\ UNCHANGED <<childVars, procVars, inflight, file, published>>

OpenFails(s) ==
  /\ writer[s] = "opening"
  /\ failing' = failing \cup {s}
  /\ Fail(s)

Gather(s) ==
  /\ writer[s] = "running" /\ entries[s] # <<>>
  /\ LET more == Append(wbatch[s], Head(entries[s])) IN
       /\ wbatch' = [wbatch EXCEPT ![s] = more]
       /\ writer' = [writer EXCEPT ![s] = IF Len(more) >= WriteBatch THEN "flush" ELSE @]
  /\ entries' = [entries EXCEPT ![s] = Tail(@)]
  /\ UNCHANGED <<childVars, procVars, inflight, failing, file, published>>

(* Every 500 ms. *)
WriteTimer(s) ==
  /\ writer[s] = "running" /\ wbatch[s] # <<>>
  /\ writer' = [writer EXCEPT ![s] = "flush"]
  /\ UNCHANGED <<childVars, procVars, entries, wbatch, inflight, failing, file, published>>

(* The processor has hung up, and the channel is empty. *)
ChannelClosed(s) ==
  /\ writer[s] = "running" /\ entries[s] = <<>> /\ at[s] = "closing"
  /\ writer' = [writer EXCEPT ![s] = "closing"]
  /\ UNCHANGED <<childVars, procVars, entries, wbatch, inflight, failing, file, published>>

(* flush_batch: the file object takes the batch once it has finished with
   the one before, and reports that one's error instead if there was one. *)
FlushBatch(s) ==
  /\ writer[s] \in {"flush", "closing"} /\ wbatch[s] # <<>>
  /\ inflight[s] = <<>> /\ s \notin failing
  /\ inflight' = [inflight EXCEPT ![s] =
       [n \in DOMAIN wbatch[s] |-> Record(s, wbatch[s][n])]]
  /\ wbatch' = [wbatch EXCEPT ![s] = <<>>]
  /\ writer' = [writer EXCEPT ![s] = IF @ = "flush" THEN "running" ELSE @]
  /\ UNCHANGED <<childVars, procVars, entries, failing, file, published>>

FinalFlush(s) ==
  /\ writer[s] = "closing" /\ wbatch[s] = <<>>
  /\ inflight[s] = <<>> /\ s \notin failing
  /\ writer' = [writer EXCEPT ![s] = "done"]
  /\ UNCHANGED <<childVars, procVars, entries, wbatch, inflight, failing, file, published>>

FlushFails(s) ==
  /\ writer[s] \in {"flush", "closing"} /\ inflight[s] = <<>> /\ s \in failing
  /\ Fail(s)
  /\ UNCHANGED failing

-----------------------------------------------------------------------------
(* The file object and the disk: one append per batch.                     *)

AppendBatch(s) ==
  /\ inflight[s] # <<>>
  /\ file' = file \o inflight[s]
  /\ inflight' = [inflight EXCEPT ![s] = <<>>]
  /\ UNCHANGED <<childVars, procVars, entries, wbatch, writer, failing, published>>

AppendFails(s) ==
  /\ inflight[s] # <<>>
  /\ failing' = failing \cup {s}
  /\ inflight' = [inflight EXCEPT ![s] = <<>>]
  /\ UNCHANGED <<childVars, procVars, entries, wbatch, writer, file, published>>

-----------------------------------------------------------------------------
Init ==
  /\ open = Streams
  /\ emitted   = [s \in Streams |-> <<>>]
  /\ pipe      = [s \in Streams |-> <<>>]
  /\ chunks    = [s \in Streams |-> <<>>]
  /\ batch     = [s \in Streams |-> <<>>]
  /\ buffer    = [s \in Streams |-> <<>>]
  /\ line      = [s \in Streams |-> <<>>]
  /\ collected = [s \in Streams |-> <<>>]
  /\ ended     = [s \in Streams |-> FALSE]
  /\ at        = [s \in Streams |-> "new"]
  /\ entries   = [s \in Streams |-> <<>>]
  /\ wbatch    = [s \in Streams |-> <<>>]
  /\ inflight  = [s \in Streams |-> <<>>]
  /\ writer    = [s \in Streams |-> "new"]
  /\ failing   = {}
  /\ file \in {<<>>, <<Record(Earlier, <<1>>)>>}  \* a daemon may have died while writing
  /\ published = [s \in Streams |-> <<>>]

Child == \E s \in Streams : Write(s) \/ Close(s)

Processor(s) ==
  \/ CreateWriter(s) \/ Receive(s) \/ BatchTimeout(s) \/ StreamEnds(s)
  \/ TakeChunk(s) \/ ExtractLine(s) \/ ForceLine(s) \/ NextChunk(s) \/ SendLine(s)
  \/ Publish(s) \/ FinalLine(s) \/ HangUp(s) \/ WriterJoined(s)

Writer(s) ==
  \/ OpenLog(s) \/ Gather(s) \/ WriteTimer(s) \/ ChannelClosed(s)
  \/ FlushBatch(s) \/ FinalFlush(s) \/ FlushFails(s)

Disk(s) == AppendBatch(s) \/ AppendFails(s)

Next ==
  \/ Child
  \/ \E s \in Streams : ReadChunk(s) \/ Processor(s) \/ Writer(s) \/ Disk(s) \/ OpenFails(s)

(* The runtime polls what is ready, timers fire, and the disk answers, one
   way or the other.  A child need not write or close anything. *)
Fairness ==
  \A s \in Streams :
    /\ WF_vars(ReadChunk(s)) /\ WF_vars(Processor(s)) /\ WF_vars(Disk(s))
    /\ WF_vars(Writer(s))

Spec == Init /\ [][Next]_vars

FairSpec == Spec /\ Fairness

-----------------------------------------------------------------------------
(* What reached the readers, without what the pipeline added.              *)

Unmended(text) == IF text # <<>> /\ Last(text) = 0 THEN Front(text) ELSE text

Own(texts) == FlattenSeq([n \in DOMAIN texts |-> Unmended(texts[n])])

TextsOf(s, records) ==
  [n \in DOMAIN records |-> IF records[n].from = s THEN records[n].text ELSE <<>>]

Stored == [s \in Streams |-> Own(TextsOf(s, file))]

Followed == [s \in Streams |-> Own(published[s])]

(* Streams whose output does not get to the file any more. *)
Lossy == failing \cup {s \in Streams : writer[s] \in {"none", "failed"}}

-----------------------------------------------------------------------------
(* Correctness.                                                            *)

ProcessorLabels == {"new", "loop", "batch", "lines", "send", "tail", "closing", "done"}
WriterLabels == {"new", "none", "opening", "running", "flush", "closing", "done", "failed"}

Types ==
  /\ open \subseteq Streams /\ failing \subseteq Streams
  /\ emitted \in [Streams -> Bytes] /\ pipe \in [Streams -> Bytes]
  /\ chunks \in [Streams -> Chunks] /\ batch \in [Streams -> Chunks]
  /\ buffer \in [Streams -> Text] /\ line \in [Streams -> Text]
  /\ collected \in [Streams -> Texts] /\ published \in [Streams -> Texts]
  /\ entries \in [Streams -> Texts] /\ wbatch \in [Streams -> Texts]
  /\ inflight \in [Streams -> Batches] /\ file \in Files
  /\ ended \in [Streams -> BOOLEAN] /\ at \in [Streams -> ProcessorLabels]
  /\ writer \in [Streams -> WriterLabels]

WithinBounds(s) ==
  /\ Len(chunks[s]) <= ChunkCap + 1 /\ Len(batch[s]) <= BatchSize
  /\ Len(buffer[s]) <= MaxLine + ChunkSize
  /\ Len(entries[s]) <= WriterCap /\ Len(wbatch[s]) <= WriteBatch

(* Every variable keeps its type, and no queue outgrows its bound
   (hyperlog.rs:13-17, batch_writer.rs:11-13). *)
TypeOK == Types /\ \A s \in Streams : WithinBounds(s)

(* The log file has of each stream what the child wrote, in order, once, and
   without a gap, until its writer fails; so have the followers, whatever
   happens to the file (hyperlog.rs:118-265, 376-434, batch_writer.rs:69-172). *)
ToFile == INSTANCE LogFifo WITH delivered <- Stored, broken <- Lossy
ToFollowers == INSTANCE LogFifo WITH delivered <- Followed, broken <- {}

DeliveredInOrder == ToFile!FifoSpec /\ ToFollowers!FifoSpec

(* A record of the file is one whole line, unless the line was too long or the
   stream ended before the line did (hyperlog.rs:248-253, 297-419); and no line
   is appended to the torn end of another, although both writers look at the
   file before either has mended it (batch_writer.rs:82-90). *)
WholeRecord(n) ==
  LET text == file[n].text IN
  file[n].from \in Streams /\ text # <<0>> =>
    /\ NewlineAt(text) = Len(text)
    /\ Last(text) = 0 /\ Len(text) <= MaxLine + 1 =>
         /\ ended[file[n].from]
         /\ \A k \in n + 1 .. Len(file) :
              file[k].from = file[n].from => file[k].text = <<0>>

LinesWhole ==
  /\ \A n \in DOMAIN file : WholeRecord(n)
  /\ \A n \in 1 .. Len(file) - 1 : EndsLine(file[n].text) \/ file[n + 1].text = <<0>>

(* Once a stream's handle is done, which is what shutdown waits for, all its
   output has been published, and has been written unless the writer failed
   (batch_writer.rs:61-66, hyperlog.rs:262-270). *)
DoneMeansStored ==
  \A s \in Streams : at[s] = "done" =>
    Followed[s] = emitted[s] /\ (s \in Lossy \/ Stored[s] = emitted[s])

(* A line gets to the file or its writer has failed, without further output
   to push it, and with every queue as short as it may be
   (hyperlog.rs:203-207, batch_writer.rs:121-126). *)
LineReachesFile ==
  \A s \in Streams : \A n \in 1 .. MaxBytes :
    -n \in Range(emitted[s]) ~> -n \in Range(Stored[s]) \/ s \in Lossy

(* A stream that has been closed is drained, whatever happens to the file: a
   shutdown that waits for the handles gets somewhere (mod.rs:130-141). *)
ClosedIsDrained ==
  \A s \in Streams : s \notin open ~> at[s] = "done"

=============================================================================
