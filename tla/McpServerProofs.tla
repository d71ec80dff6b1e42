---------------------------- MODULE McpServerProofs ----------------------------
(***************************************************************************)
(* Proofs about McpServer, for every set of lines a client may write, any  *)
(* number of them, and all sizes of the channel and the queue.             *)
(*                                                                         *)
(* An answer exists only of a line whose task is past its reply, or of     *)
(* garbage (Good); so a task that is at work may still send, and nothing   *)
(* of its line has been answered (NotAnsweredYet).  A line is in the       *)
(* reader's channel only while it has no task (ChannelInv), so that no     *)
(* line gets two.  Owed follows each line from the channel over its task   *)
(* and the queue to stdout: when the server closes, all but stdout are     *)
(* empty.                                                                  *)
(***************************************************************************)
EXTENDS McpServer, FiniteSetTheorems, SequenceTheorems, TLAPS

-----------------------------------------------------------------------------
(* The inductive invariant.                                                *)

(* How many of the first k messages of a line call for a response. *)
Count(items, k) == Cardinality({n \in 1 .. k : items[n] # "notice"})

Message(id) == id \in 1 .. taken /\ typed[id].form \in {"single", "batch"}

(* The reader's channel holds lines no task has, in their order. *)
ChannelInv ==
  /\ \A n \in DOMAIN incoming : Message(incoming[n]) /\ task[incoming[n]] = "none"
  /\ \A n, m \in DOMAIN incoming : n < m => incoming[n] < incoming[m]

(* A task has counted the responses of the messages it is past. *)
TaskInv(id) ==
  /\ task[id] = "none" => item[id] = 1
  /\ task[id] # "none" => Message(id)
  /\ task[id] = "run" =>
       /\ item[id] \in 1 .. Len(typed[id].items)
       /\ answers[id] = Count(typed[id].items, item[id] - 1)
  /\ task[id] = "reply" => answers[id] = Due(typed[id]) /\ answers[id] > 0

(* What is sent is of a line that was read, and an answer is the whole answer
   of one that nothing else will answer. *)
Final(x) ==
  /\ x.count = Due(typed[x.of]) /\ x.count > 0
  /\ task[x.of] \in {"ended", "joined"} \/ typed[x.of].form = "garbage"
Good(x) == x.of <= taken /\ (x.kind = "answer" => Final(x))
Backed(q) == \A n \in DOMAIN q : Good(q[n])

(* After its answer nothing of a line is sent. *)
Ordered(q) == \A n, m \in DOMAIN q : n < m /\ q[n].kind = "answer" => q[m].of # q[n].of
Behind ==
  \A n \in DOMAIN stdout, m \in DOMAIN outgoing :
    stdout[n].kind = "answer" => outgoing[m].of # stdout[n].of

(* Whoever is owed an answer still has someone to give it. *)
Replied(id) == \E n \in DOMAIN outgoing : outgoing[n].kind = "answer" /\ outgoing[n].of = id
Queued(id) == \E n \in DOMAIN incoming : incoming[n] = id
Owed(id) ==
  id <= taken /\ Expects(id) /\ ~deaf /\ server # "dead" =>
    \/ Answered(id) \/ Replied(id) \/ Queued(id)
    \/ task[id] \in {"run", "reply", "panicked"}

EndInv ==
  /\ gone => \/ eof /\ taken = Len(typed)
             \/ deaf
             \/ \E n \in 1 .. taken : typed[n].form = "bytes"
  /\ server \in {"draining", "closed"} => gone /\ incoming = <<>>
  /\ server = "closed" =>
       outgoing = <<>> /\ \A id \in Ids : task[id] \in {"none", "joined"}

Inv ==
  /\ TypeOK /\ ChannelInv /\ EndInv
  /\ Backed(stdout) /\ Backed(outgoing) /\ Ordered(stdout) /\ Ordered(outgoing) /\ Behind
  /\ \A id \in Ids : TaskInv(id) /\ Owed(id)


-----------------------------------------------------------------------------
(* Types, and what every step leaves alone.                                *)

LEMMA IdsOfLines ==
  ASSUME TypeOK
  PROVE  /\ taken \in Nat /\ Len(typed) \in Nat /\ taken <= Len(typed) /\ Len(typed) <= MaxLines
         /\ MaxLines \in Nat /\ OutCap \in Nat \ {0} /\ InCap \in Nat \ {0}
         /\ 1 .. taken \subseteq Ids /\ 1 .. Len(typed) \subseteq Ids
         /\ \A id \in 1 .. Len(typed) : typed[id] \in Lines
         /\ \A n \in DOMAIN incoming : incoming[n] \in 1 .. taken
<1>1. typed \in Seq(Lines) /\ Len(typed) <= MaxLines /\ taken \in 0 .. Len(typed)
      /\ incoming \in Seq(1 .. taken)
  BY DEF TypeOK
<1>2. MaxLines \in Nat /\ OutCap \in Nat \ {0} /\ InCap \in Nat \ {0}
  BY McpAssumption
<1>3. Len(typed) \in Nat /\ \A id \in 1 .. Len(typed) : typed[id] \in Lines
  BY <1>1
<1>4. \A n \in DOMAIN incoming : incoming[n] \in 1 .. taken
  BY <1>1, ElementOfSeq, LenProperties
<1> QED
  BY <1>1, <1>2, <1>3, <1>4 DEF Ids

LEMMA FirstAndRest ==
  ASSUME NEW S, NEW q \in Seq(S), q # <<>>
  PROVE  /\ Head(q) \in S /\ Head(q) = q[1] /\ Tail(q) \in Seq(S)
         /\ Len(q) \in Nat \ {0} /\ Len(Tail(q)) = Len(q) - 1
         /\ DOMAIN q = 1 .. Len(q) /\ DOMAIN Tail(q) = 1 .. Len(q) - 1
         /\ \A n \in 1 .. Len(q) - 1 : Tail(q)[n] = q[n + 1]
  OBVIOUS

LEMMA OneMore ==
  ASSUME NEW S, NEW q \in Seq(S), NEW x \in S
  PROVE  /\ Append(q, x) \in Seq(S) /\ Len(q) \in Nat /\ Len(Append(q, x)) = Len(q) + 1
         /\ DOMAIN q = 1 .. Len(q) /\ DOMAIN Append(q, x) = 1 .. Len(q) + 1
         /\ Append(q, x)[Len(q) + 1] = x
         /\ \A n \in 1 .. Len(q) : Append(q, x)[n] = q[n]
  OBVIOUS

LEMMA NextIds ==
  ASSUME TypeOK, taken < Len(typed)
  PROVE  taken + 1 \in Ids /\ taken + 1 \in 1 .. Len(typed) /\ typed[taken + 1] \in Lines
  BY IdsOfLines DEF Ids

LEMMA SentIs ==
  ASSUME NEW id \in Ids, NEW n \in Nat
  PROVE  /\ Note(id) \in Sent /\ Note(id).of = id /\ Note(id).kind = "note"
         /\ Answer(id, n) \in Sent /\ Answer(id, n).of = id /\ Answer(id, n).count = n
         /\ Answer(id, n).kind = "answer"
  BY DEF Note, Answer, Sent, Ids

LEMMA HeadOfIncoming ==
  ASSUME TypeOK, incoming # <<>>
  PROVE  /\ Head(incoming) \in Ids /\ Head(incoming) \in 1 .. taken /\ Head(incoming) = incoming[1]
         /\ Len(incoming) \in Nat \ {0} /\ Tail(incoming) \in Seq(1 .. taken)
         /\ Len(Tail(incoming)) = Len(incoming) - 1
         /\ DOMAIN incoming = 1 .. Len(incoming) /\ DOMAIN Tail(incoming) = 1 .. Len(incoming) - 1
         /\ \A n \in 1 .. Len(incoming) - 1 : Tail(incoming)[n] = incoming[n + 1]
<1>1. incoming \in Seq(1 .. taken)
  BY DEF TypeOK
<1> DEFINE S == 1 .. taken
<1>2. S \subseteq Ids
  BY IdsOfLines
<1> HIDE DEF S
<1>3. /\ Head(incoming) \in S /\ Head(incoming) = incoming[1]
      /\ Len(incoming) \in Nat \ {0} /\ Tail(incoming) \in Seq(S)
      /\ Len(Tail(incoming)) = Len(incoming) - 1
      /\ DOMAIN incoming = 1 .. Len(incoming) /\ DOMAIN Tail(incoming) = 1 .. Len(incoming) - 1
      /\ \A n \in 1 .. Len(incoming) - 1 : Tail(incoming)[n] = incoming[n + 1]
  <2>1. incoming \in Seq(S)
    BY <1>1 DEF S
  <2> QED BY <2>1, FirstAndRest
<1> QED
  BY <1>2, <1>3 DEF S

(* The parts of TypeOK, each for the variables a step may change. *)
ClientTypes ==
  typed \in Seq(Lines) /\ Len(typed) <= MaxLines /\ eof \in BOOLEAN /\ deaf \in BOOLEAN
SentTypes == stdout \in Seq(Sent) /\ outgoing \in Seq(Sent) /\ Len(outgoing) <= OutCap
ReaderTypes ==
  /\ gone \in BOOLEAN /\ taken \in 0 .. Len(typed)
  /\ incoming \in Seq(1 .. taken) /\ Len(incoming) <= InCap + 1
ServerTypes == server \in {"serving", "draining", "closed", "dead"}
TaskTypes ==
  /\ task \in [Ids -> {"none", "run", "reply", "ended", "panicked", "joined"}]
  /\ item \in [Ids -> Nat \ {0}]
  /\ notes \in [Ids -> 0 .. Notes] /\ answers \in [Ids -> Nat]

LEMMA TypeParts ==
  TypeOK <=> ClientTypes /\ SentTypes /\ ReaderTypes /\ ServerTypes /\ TaskTypes
  BY DEF TypeOK, ClientTypes, SentTypes, ReaderTypes, ServerTypes, TaskTypes


LEMMA TypeStep ==
  ASSUME TypeOK, Next
  PROVE  TypeOK'
<1>a. ClientTypes /\ SentTypes /\ ReaderTypes /\ ServerTypes /\ TaskTypes
  BY TypeParts
<1>b. taken \in Nat /\ Len(typed) \in Nat /\ 1 .. taken \subseteq Ids
  BY IdsOfLines
<1> SUFFICES ClientTypes' /\ SentTypes' /\ ReaderTypes' /\ ServerTypes' /\ TaskTypes'
  BY DEF TypeOK, ClientTypes, SentTypes, ReaderTypes, ServerTypes, TaskTypes
<1> USE DEF clientVars, readerVars, taskVars
<1>1. ASSUME NEW l \in Lines, Type(l) PROVE ClientTypes' /\ SentTypes' /\ ReaderTypes' /\ ServerTypes' /\ TaskTypes'
  <2>1. ClientTypes'
    BY <1>a, <1>b, <1>1, McpAssumption DEF ClientTypes, Type
  <2>2. SentTypes'
    BY <1>a, <1>1 DEF SentTypes, Type
  <2>3. ReaderTypes'
    BY <1>a, <1>b, <1>1 DEF ReaderTypes, ClientTypes, Type
  <2>4. ServerTypes'
    BY <1>a, <1>1 DEF ServerTypes, Type
  <2>5. TaskTypes'
    BY <1>a, <1>1 DEF TaskTypes, Type
  <2> QED BY <2>1, <2>2, <2>3, <2>4, <2>5
<1>2. CASE CloseStdin
  <2>1. ClientTypes'
    BY <1>a, <1>2 DEF ClientTypes, CloseStdin
  <2>2. SentTypes'
    BY <1>a, <1>2 DEF SentTypes, CloseStdin
  <2>3. ReaderTypes'
    BY <1>a, <1>2 DEF ReaderTypes, CloseStdin
  <2>4. ServerTypes'
    BY <1>a, <1>2 DEF ServerTypes, CloseStdin
  <2>5. TaskTypes'
    BY <1>a, <1>2 DEF TaskTypes, CloseStdin
  <2> QED BY <2>1, <2>2, <2>3, <2>4, <2>5
<1>3. CASE CloseStdout
  <2>1. ClientTypes'
    BY <1>a, <1>3 DEF ClientTypes, CloseStdout
  <2>2. SentTypes'
    BY <1>a, <1>3 DEF SentTypes, CloseStdout
  <2>3. ReaderTypes'
    BY <1>a, <1>3 DEF ReaderTypes, CloseStdout
  <2>4. ServerTypes'
    BY <1>a, <1>3 DEF ServerTypes, CloseStdout
  <2>5. TaskTypes'
    BY <1>a, <1>3 DEF TaskTypes, CloseStdout
  <2> QED BY <2>1, <2>2, <2>3, <2>4, <2>5
<1>4. CASE ReadLine
  <2>1. ClientTypes'
    BY <1>a, <1>4 DEF ClientTypes, ReadLine
  <2>2. SentTypes'
    BY <1>a, <1>4 DEF SentTypes, ReadLine
  <2>3. ReaderTypes'
    <3>1. incoming \in Seq(1 .. taken + 1) /\ taken + 1 \in 1 .. taken + 1
      BY <1>a, <1>b, SeqMonotonic DEF ReaderTypes
    <3>2. Append(incoming, taken + 1) \in Seq(1 .. taken + 1) /\ Len(Append(incoming, taken + 1)) = Len(incoming) + 1
          /\ Len(incoming) \in Nat
      BY <3>1, OneMore, Zenon
    <3> QED BY <1>a, <1>b, <3>2, <1>4, IdsOfLines DEF ReaderTypes, ReadLine
  <2>4. ServerTypes'
    BY <1>a, <1>4 DEF ServerTypes, ReadLine
  <2>5. TaskTypes'
    BY <1>a, <1>4 DEF TaskTypes, ReadLine
  <2> QED BY <2>1, <2>2, <2>3, <2>4, <2>5
<1>5. CASE ReadGarbage
  <2>1. ClientTypes'
    BY <1>a, <1>5 DEF ClientTypes, ReadGarbage
  <2>2. SentTypes'
    <3>1. Answer(taken + 1, 1) \in Sent
      BY <1>5, NextIds, SentIs DEF ReadGarbage
    <3> QED BY <1>a, <3>1, <1>5 DEF SentTypes, ReadGarbage
  <2>3. ReaderTypes'
    <3>1. incoming \in Seq(1 .. taken + 1) /\ Len(incoming) <= InCap + 1
      BY <1>a, <1>b, SeqMonotonic DEF ReaderTypes
    <3>2. taken' = taken + 1 /\ incoming' = incoming /\ typed' = typed /\ gone' \in BOOLEAN /\ taken < Len(typed)
      BY <1>a, <1>5 DEF ReaderTypes, ReadGarbage
    <3> QED BY <1>b, <3>1, <3>2 DEF ReaderTypes
  <2>4. ServerTypes'
    BY <1>a, <1>5 DEF ServerTypes, ReadGarbage
  <2>5. TaskTypes'
    BY <1>a, <1>5 DEF TaskTypes, ReadGarbage
  <2> QED BY <2>1, <2>2, <2>3, <2>4, <2>5
<1>6. CASE ReadBytes
  <2>1. ClientTypes'
    BY <1>a, <1>6 DEF ClientTypes, ReadBytes
  <2>2. SentTypes'
    BY <1>a, <1>6 DEF SentTypes, ReadBytes
  <2>3. ReaderTypes'
    <3>1. incoming \in Seq(1 .. taken + 1) /\ Len(incoming) <= InCap + 1
      BY <1>a, <1>b, SeqMonotonic DEF ReaderTypes
    <3> QED BY <1>a, <1>b, <3>1, <1>6 DEF ReaderTypes, ReadBytes
  <2>4. ServerTypes'
    BY <1>a, <1>6 DEF ServerTypes, ReadBytes
  <2>5. TaskTypes'
    BY <1>a, <1>6 DEF TaskTypes, ReadBytes
  <2> QED BY <2>1, <2>2, <2>3, <2>4, <2>5
<1>7. CASE ReadEof
  <2>1. ClientTypes'
    BY <1>a, <1>7 DEF ClientTypes, ReadEof
  <2>2. SentTypes'
    BY <1>a, <1>7 DEF SentTypes, ReadEof
  <2>3. ReaderTypes'
    BY <1>a, <1>7 DEF ReaderTypes, ReadEof
  <2>4. ServerTypes'
    BY <1>a, <1>7 DEF ServerTypes, ReadEof
  <2>5. TaskTypes'
    BY <1>a, <1>7 DEF TaskTypes, ReadEof
  <2> QED BY <2>1, <2>2, <2>3, <2>4, <2>5
<1>8. CASE Accept
  <2>1. ClientTypes'
    BY <1>a, <1>8 DEF ClientTypes, Accept
  <2>2. SentTypes'
    BY <1>a, <1>8 DEF SentTypes, Accept
  <2>3. ReaderTypes'
    <3>1. Tail(incoming) \in Seq(1 .. taken) /\ Len(Tail(incoming)) <= InCap + 1
      BY <1>a, <1>8, HeadOfIncoming, IdsOfLines DEF ReaderTypes, Accept
    <3> QED BY <1>a, <3>1, <1>8 DEF ReaderTypes, Accept
  <2>4. ServerTypes'
    BY <1>a, <1>8 DEF ServerTypes, Accept
  <2>5. TaskTypes'
    BY <1>a, <1>8 DEF TaskTypes, Accept
  <2> QED BY <2>1, <2>2, <2>3, <2>4, <2>5
<1>9. CASE SeeEof
  <2>1. ClientTypes'
    BY <1>a, <1>9 DEF ClientTypes, SeeEof
  <2>2. SentTypes'
    BY <1>a, <1>9 DEF SentTypes, SeeEof
  <2>3. ReaderTypes'
    BY <1>a, <1>9 DEF ReaderTypes, SeeEof
  <2>4. ServerTypes'
    BY <1>a, <1>9 DEF ServerTypes, SeeEof
  <2>5. TaskTypes'
    BY <1>a, <1>9 DEF TaskTypes, SeeEof
  <2> QED BY <2>1, <2>2, <2>3, <2>4, <2>5
<1>10. CASE Send
  <2>1. ClientTypes'
    BY <1>a, <1>10 DEF ClientTypes, Send
  <2>2. SentTypes'
    <3>1. Head(outgoing) \in Sent /\ Tail(outgoing) \in Seq(Sent) /\ Len(Tail(outgoing)) <= OutCap
      BY <1>a, <1>10, IdsOfLines DEF SentTypes, Send
    <3>2. stdout' \in Seq(Sent)
      BY <1>a, <3>1, <1>10 DEF SentTypes, Send
    <3> QED BY <3>1, <3>2, <1>10 DEF SentTypes, Send
  <2>3. ReaderTypes'
    BY <1>a, <1>10 DEF ReaderTypes, Send
  <2>4. ServerTypes'
    BY <1>a, <1>10 DEF ServerTypes, Send
  <2>5. TaskTypes'
    BY <1>a, <1>10 DEF TaskTypes, Send
  <2> QED BY <2>1, <2>2, <2>3, <2>4, <2>5
<1>11. ASSUME NEW id \in Ids, Join(id) PROVE ClientTypes' /\ SentTypes' /\ ReaderTypes' /\ ServerTypes' /\ TaskTypes'
  <2>1. ClientTypes'
    BY <1>a, <1>11 DEF ClientTypes, Join
  <2>2. SentTypes'
    BY <1>a, <1>11 DEF SentTypes, Join
  <2>3. ReaderTypes'
    BY <1>a, <1>11 DEF ReaderTypes, Join
  <2>4. ServerTypes'
    BY <1>a, <1>11 DEF ServerTypes, Join
  <2>5. TaskTypes'
    BY <1>a, <1>11 DEF TaskTypes, Join
  <2> QED BY <2>1, <2>2, <2>3, <2>4, <2>5
<1>12. CASE Finish
  <2>1. ClientTypes'
    BY <1>a, <1>12 DEF ClientTypes, Finish
  <2>2. SentTypes'
    BY <1>a, <1>12 DEF SentTypes, Finish
  <2>3. ReaderTypes'
    BY <1>a, <1>12 DEF ReaderTypes, Finish
  <2>4. ServerTypes'
    BY <1>a, <1>12 DEF ServerTypes, Finish
  <2>5. TaskTypes'
    BY <1>a, <1>12 DEF TaskTypes, Finish
  <2> QED BY <2>1, <2>2, <2>3, <2>4, <2>5
<1>13. ASSUME NEW id \in Ids, Notify(id) PROVE ClientTypes' /\ SentTypes' /\ ReaderTypes' /\ ServerTypes' /\ TaskTypes'
  <2>1. ClientTypes'
    BY <1>a, <1>13 DEF ClientTypes, Notify
  <2>2. SentTypes'
    <3>1. Note(id) \in Sent
      BY <1>a, SentIs
    <3> QED BY <1>a, <3>1, <1>13, IdsOfLines DEF SentTypes, Notify, Room
  <2>3. ReaderTypes'
    BY <1>a, <1>13 DEF ReaderTypes, Notify
  <2>4. ServerTypes'
    BY <1>a, <1>13 DEF ServerTypes, Notify
  <2>5. TaskTypes'
    BY <1>a, <1>13, McpAssumption DEF TaskTypes, Notify
  <2> QED BY <2>1, <2>2, <2>3, <2>4, <2>5
<1>14. ASSUME NEW id \in Ids, Handled(id) PROVE ClientTypes' /\ SentTypes' /\ ReaderTypes' /\ ServerTypes' /\ TaskTypes'
  <2>1. ClientTypes'
    BY <1>a, <1>14 DEF ClientTypes, Handled
  <2>2. SentTypes'
    BY <1>a, <1>14 DEF SentTypes, Handled
  <2>3. ReaderTypes'
    BY <1>a, <1>14 DEF ReaderTypes, Handled
  <2>4. ServerTypes'
    BY <1>a, <1>14 DEF ServerTypes, Handled
  <2>5. TaskTypes'
    BY <1>a, <1>14, McpAssumption DEF TaskTypes, Handled
  <2> QED BY <2>1, <2>2, <2>3, <2>4, <2>5
<1>15. ASSUME NEW id \in Ids, Reply(id) PROVE ClientTypes' /\ SentTypes' /\ ReaderTypes' /\ ServerTypes' /\ TaskTypes'
  <2>1. ClientTypes'
    BY <1>a, <1>15 DEF ClientTypes, Reply
  <2>2. SentTypes'
    <3>1. Answer(id, answers[id]) \in Sent
      BY <1>a, SentIs DEF TaskTypes
    <3> QED BY <1>a, <3>1, <1>15, IdsOfLines DEF SentTypes, Reply, Room
  <2>3. ReaderTypes'
    BY <1>a, <1>15 DEF ReaderTypes, Reply
  <2>4. ServerTypes'
    BY <1>a, <1>15 DEF ServerTypes, Reply
  <2>5. TaskTypes'
    BY <1>a, <1>15 DEF TaskTypes, Reply
  <2> QED BY <2>1, <2>2, <2>3, <2>4, <2>5
<1>16. ASSUME NEW id \in Ids, Panic(id) PROVE ClientTypes' /\ SentTypes' /\ ReaderTypes' /\ ServerTypes' /\ TaskTypes'
  <2>1. ClientTypes'
    BY <1>a, <1>16 DEF ClientTypes, Panic
  <2>2. SentTypes'
    BY <1>a, <1>16 DEF SentTypes, Panic
  <2>3. ReaderTypes'
    BY <1>a, <1>16 DEF ReaderTypes, Panic
  <2>4. ServerTypes'
    BY <1>a, <1>16 DEF ServerTypes, Panic
  <2>5. TaskTypes'
    BY <1>a, <1>16 DEF TaskTypes, Panic
  <2> QED BY <2>1, <2>2, <2>3, <2>4, <2>5
<1> QED
  BY <1>1, <1>2, <1>3, <1>4, <1>5, <1>6, <1>7, <1>8, <1>9, <1>10, <1>11, <1>12, <1>13, <1>14, <1>15, <1>16 DEF Next, Client, Reader, Loop, Task

-----------------------------------------------------------------------------
(* A line that was typed stays as it is, and one that was taken stays taken. *)
LEMMA LinesStay ==
  ASSUME TypeOK, Next
  PROVE  /\ taken' \in Nat /\ taken <= taken' /\ Len(typed) <= Len(typed') /\ Len(typed') \in Nat
         /\ \A id \in 1 .. Len(typed) : typed'[id] = typed[id]
         /\ gone => gone'
         /\ deaf => deaf'
<1> DEFINE G == /\ taken' \in Nat /\ taken <= taken' /\ Len(typed) <= Len(typed') /\ Len(typed') \in Nat
                /\ \A id \in 1 .. Len(typed) : typed'[id] = typed[id]
                /\ gone => gone'
                /\ deaf => deaf'
<1>a. taken \in Nat /\ Len(typed) \in Nat /\ typed \in Seq(Lines)
  BY IdsOfLines DEF TypeOK
<1> SUFFICES G
  OBVIOUS
<1> USE DEF clientVars, readerVars, taskVars
<1>1. ASSUME NEW l \in Lines, Type(l) PROVE G
  <2>1. typed' = Append(typed, l) /\ taken' = taken /\ gone' = gone /\ deaf' = deaf
    BY <1>1 DEF Type
  <2>2. Len(typed') = Len(typed) + 1 /\ \A id \in 1 .. Len(typed) : typed'[id] = typed[id]
    BY <1>a, <2>1, OneMore
  <2> QED BY <1>a, <2>1, <2>2
<1>2. CASE CloseStdin
  BY <1>2, <1>a DEF CloseStdin
<1>3. CASE CloseStdout
  BY <1>3, <1>a DEF CloseStdout
<1>4. CASE ReadLine
  BY <1>4, <1>a DEF ReadLine
<1>5. CASE ReadGarbage
  BY <1>5, <1>a DEF ReadGarbage
<1>6. CASE ReadBytes
  BY <1>6, <1>a DEF ReadBytes
<1>7. CASE ReadEof
  BY <1>7, <1>a DEF ReadEof
<1>8. CASE Accept
  BY <1>8, <1>a DEF Accept
<1>9. CASE SeeEof
  BY <1>9, <1>a DEF SeeEof
<1>10. CASE Send
  BY <1>10, <1>a DEF Send
<1>11. ASSUME NEW id \in Ids, Join(id) PROVE G
  BY <1>11, <1>a DEF Join
<1>12. CASE Finish
  BY <1>12, <1>a DEF Finish
<1>13. ASSUME NEW id \in Ids, Notify(id) PROVE G
  BY <1>13, <1>a DEF Notify
<1>14. ASSUME NEW id \in Ids, Handled(id) PROVE G
  BY <1>14, <1>a DEF Handled
<1>15. ASSUME NEW id \in Ids, Reply(id) PROVE G
  BY <1>15, <1>a DEF Reply
<1>16. ASSUME NEW id \in Ids, Panic(id) PROVE G
  BY <1>16, <1>a DEF Panic
<1> QED
  BY <1>1, <1>2, <1>3, <1>4, <1>5, <1>6, <1>7, <1>8, <1>9, <1>10, <1>11, <1>12, <1>13, <1>14, <1>15, <1>16 DEF Next, Client, Reader, Loop, Task

LEMMA DueStays ==
  ASSUME TypeOK, Next, NEW id \in 1 .. Len(typed)
  PROVE  /\ typed'[id] = typed[id] /\ id \in 1 .. Len(typed')
         /\ Due(typed[id])' = Due(typed[id])
         /\ Expects(id)' <=> Expects(id)
<1>1. /\ typed'[id] = typed[id] /\ id \in 1 .. Len(typed')
      /\ \A n \in 1 .. id : typed'[n] = typed[n]
  BY LinesStay, IdsOfLines
<1> QED
  BY <1>1 DEF Due, Expects

LEMMA MessageStays ==
  ASSUME TypeOK, Next, NEW id, Message(id)
  PROVE  Message(id)'
<1>1. id \in 1 .. taken /\ typed[id].form \in {"single", "batch"} /\ id \in 1 .. Len(typed)
  BY IdsOfLines DEF Message
<1> QED
  BY <1>1, LinesStay, DueStays, IdsOfLines DEF Message

(* A task that has ended stays so, but for being joined. *)
LEMMA EndedStays ==
  ASSUME TypeOK, Next, ChannelInv, NEW i \in Ids, task[i] \in {"ended", "joined"}
  PROVE  task'[i] \in {"ended", "joined"}
<1>a. task \in [Ids -> {"none", "run", "reply", "ended", "panicked", "joined"}]
  BY DEF TypeOK
<1> USE DEF clientVars, readerVars, taskVars
<1>1. ASSUME NEW l \in Lines, Type(l) PROVE task'[i] \in {"ended", "joined"}
  BY <1>1, <1>a DEF Type
<1>2. CASE CloseStdin
  BY <1>2, <1>a DEF CloseStdin
<1>3. CASE CloseStdout
  BY <1>3, <1>a DEF CloseStdout
<1>4. CASE ReadLine
  BY <1>4, <1>a DEF ReadLine
<1>5. CASE ReadGarbage
  BY <1>5, <1>a DEF ReadGarbage
<1>6. CASE ReadBytes
  BY <1>6, <1>a DEF ReadBytes
<1>7. CASE ReadEof
  BY <1>7, <1>a DEF ReadEof
<1>8. CASE Accept
  <2>1. Head(incoming) \in Ids /\ task[Head(incoming)] = "none"
    BY <1>8, HeadOfIncoming DEF ChannelInv, Accept
  <2> QED BY <1>8, <1>a, <2>1 DEF Accept
<1>9. CASE SeeEof
  BY <1>9, <1>a DEF SeeEof
<1>10. CASE Send
  BY <1>10, <1>a DEF Send
<1>11. ASSUME NEW id \in Ids, Join(id) PROVE task'[i] \in {"ended", "joined"}
  BY <1>11, <1>a DEF Join
<1>12. CASE Finish
  BY <1>12, <1>a DEF Finish
<1>13. ASSUME NEW id \in Ids, Notify(id) PROVE task'[i] \in {"ended", "joined"}
  BY <1>13, <1>a DEF Notify
<1>14. ASSUME NEW id \in Ids, Handled(id) PROVE task'[i] \in {"ended", "joined"}
  BY <1>14, <1>a DEF Handled
<1>15. ASSUME NEW id \in Ids, Reply(id) PROVE task'[i] \in {"ended", "joined"}
  BY <1>15, <1>a DEF Reply
<1>16. ASSUME NEW id \in Ids, Panic(id) PROVE task'[i] \in {"ended", "joined"}
  BY <1>16, <1>a DEF Panic
<1> QED
  BY <1>1, <1>2, <1>3, <1>4, <1>5, <1>6, <1>7, <1>8, <1>9, <1>10, <1>11, <1>12, <1>13, <1>14, <1>15, <1>16 DEF Next, Client, Reader, Loop, Task

LEMMA FinalStays ==
  ASSUME TypeOK, Next, ChannelInv, NEW x \in Sent, x.of \in 1 .. taken, Final(x)
  PROVE  Final(x)'
<1>1. x.of \in 1 .. Len(typed) /\ x.of \in Ids
  BY IdsOfLines
<1>2. typed'[x.of] = typed[x.of] /\ Due(typed[x.of])' = Due(typed[x.of])
  BY <1>1, DueStays
<1>3. task[x.of] \in {"ended", "joined"} => task'[x.of] \in {"ended", "joined"}
  BY <1>1, EndedStays
<1> QED
  BY <1>2, <1>3 DEF Final, Due

-----------------------------------------------------------------------------
(* The reader's channel, and how the reader and the server end.            *)

(* Of whom a step changes the task: not of a line in the channel, but for the
   one that is accepted. *)
LEMMA NoneStays ==
  ASSUME TypeOK, Next, ~Accept, NEW i \in Ids, task[i] = "none"
  PROVE  task'[i] = "none" /\ item'[i] = item[i]
<1>a. task \in [Ids -> {"none", "run", "reply", "ended", "panicked", "joined"}] /\ item \in [Ids -> Nat \ {0}]
  BY DEF TypeOK
<1> USE DEF clientVars, readerVars, taskVars
<1>1. ASSUME NEW l \in Lines, Type(l) PROVE task'[i] = "none" /\ item'[i] = item[i]
  BY <1>1, <1>a DEF Type
<1>2. CASE CloseStdin
  BY <1>2, <1>a DEF CloseStdin
<1>3. CASE CloseStdout
  BY <1>3, <1>a DEF CloseStdout
<1>4. CASE ReadLine
  BY <1>4, <1>a DEF ReadLine
<1>5. CASE ReadGarbage
  BY <1>5, <1>a DEF ReadGarbage
<1>6. CASE ReadBytes
  BY <1>6, <1>a DEF ReadBytes
<1>7. CASE ReadEof
  BY <1>7, <1>a DEF ReadEof
<1>8. CASE Accept
  BY <1>8
<1>9. CASE SeeEof
  BY <1>9, <1>a DEF SeeEof
<1>10. CASE Send
  BY <1>10, <1>a DEF Send
<1>11. ASSUME NEW id \in Ids, Join(id) PROVE task'[i] = "none" /\ item'[i] = item[i]
  BY <1>11, <1>a DEF Join
<1>12. CASE Finish
  BY <1>12, <1>a DEF Finish
<1>13. ASSUME NEW id \in Ids, Notify(id) PROVE task'[i] = "none" /\ item'[i] = item[i]
  BY <1>13, <1>a DEF Notify
<1>14. ASSUME NEW id \in Ids, Handled(id) PROVE task'[i] = "none" /\ item'[i] = item[i]
  BY <1>14, <1>a DEF Handled
<1>15. ASSUME NEW id \in Ids, Reply(id) PROVE task'[i] = "none" /\ item'[i] = item[i]
  BY <1>15, <1>a DEF Reply
<1>16. ASSUME NEW id \in Ids, Panic(id) PROVE task'[i] = "none" /\ item'[i] = item[i]
  BY <1>16, <1>a DEF Panic
<1> QED
  BY <1>1, <1>2, <1>3, <1>4, <1>5, <1>6, <1>7, <1>8, <1>9, <1>10, <1>11, <1>12, <1>13, <1>14, <1>15, <1>16 DEF Next, Client, Reader, Loop, Task

LEMMA ChannelStep ==
  ASSUME TypeOK, Next, ChannelInv, \A id \in Ids : TaskInv(id)
  PROVE  ChannelInv'
<1>a. /\ incoming \in Seq(1 .. taken) /\ 1 .. taken \subseteq Ids
      /\ \A n \in DOMAIN incoming : incoming[n] \in 1 .. taken
  BY IdsOfLines DEF TypeOK
<1>b. \A i \in Ids : Message(i) => Message(i)'
  BY MessageStays
<1>1. CASE incoming' = incoming /\ ~Accept
  <2>1. \A n \in DOMAIN incoming : task'[incoming[n]] = "none"
    BY <1>1, <1>a, NoneStays DEF ChannelInv
  <2> QED BY <1>1, <1>a, <1>b, <2>1 DEF ChannelInv
<1>2. CASE Accept
  <2> DEFINE h == Head(incoming)
             r == Tail(incoming)
  <2>1. /\ h \in Ids /\ h = incoming[1] /\ Len(incoming) \in Nat \ {0}
        /\ DOMAIN incoming = 1 .. Len(incoming) /\ DOMAIN r = 1 .. Len(incoming) - 1
        /\ \A n \in 1 .. Len(incoming) - 1 : r[n] = incoming[n + 1]
    BY <1>2, HeadOfIncoming DEF Accept
  <2>2. incoming' = r /\ \A i \in Ids : i # h => task'[i] = task[i]
    BY <1>2 DEF Accept, TypeOK
  <2> HIDE DEF h, r
  <2>3. \A n \in DOMAIN r : n + 1 \in DOMAIN incoming /\ r[n] = incoming[n + 1] /\ 1 < n + 1 /\ 1 \in DOMAIN incoming
    BY <2>1
  <2>4. \A n \in DOMAIN r : r[n] \in Ids /\ r[n] # h /\ task[r[n]] = "none"
    BY <1>a, <2>1, <2>3 DEF ChannelInv
  <2>5. \A n \in DOMAIN r, i \in Ids : i = r[n] => Message(i)' /\ task'[i] = "none"
    BY <1>b, <2>2, <2>3, <2>4 DEF ChannelInv
  <2>6. ASSUME NEW n \in DOMAIN r, NEW m \in DOMAIN r, n < m PROVE r[n] < r[m]
    <3>1. n + 1 < m + 1
      BY <2>1, <2>6
    <3> QED BY <2>3, <3>1 DEF ChannelInv
  <2> QED BY <2>2, <2>4, <2>5, <2>6 DEF ChannelInv
<1>3. CASE ReadLine
  <2> DEFINE c == Append(incoming, taken + 1)
  <2>1. /\ incoming' = c /\ task' = task /\ taken' = taken + 1 /\ typed' = typed /\ taken < Len(typed)
        /\ typed[taken + 1].form \in {"single", "batch"}
    BY <1>3 DEF ReadLine, taskVars, clientVars
  <2>2. taken + 1 \in Ids /\ taken \in Nat
    BY <2>1, NextIds, IdsOfLines
  <2>3. task[taken + 1] = "none"
    BY <2>2 DEF TaskInv, Message
  <2>4. /\ Len(incoming) \in Nat /\ DOMAIN incoming = 1 .. Len(incoming)
        /\ DOMAIN c = 1 .. Len(incoming) + 1 /\ c[Len(incoming) + 1] = taken + 1
        /\ \A n \in 1 .. Len(incoming) : c[n] = incoming[n]
    <3>1. incoming \in Seq(Nat) /\ taken + 1 \in Nat
      BY <1>a, <2>2, SeqMonotonic
    <3> QED BY <3>1, OneMore
  <2>5. \A i \in Ids : i = taken + 1 => Message(i)'
    BY <2>1, <2>2 DEF Message
  <2> HIDE DEF c
  <2>6. ASSUME NEW n \in DOMAIN c
        PROVE  c[n] \in Ids /\ task'[c[n]] = "none" /\ \A i \in Ids : i = c[n] => Message(i)'
    <3>1. CASE n = Len(incoming) + 1
      BY <2>1, <2>2, <2>3, <2>4, <2>5, <3>1
    <3>2. CASE n \in DOMAIN incoming
      BY <1>a, <1>b, <2>1, <2>4, <3>2 DEF ChannelInv
    <3> QED BY <2>4, <3>1, <3>2
  <2>7. ASSUME NEW n \in DOMAIN c, NEW m \in DOMAIN c, n < m PROVE c[n] < c[m]
    <3>1. n \in DOMAIN incoming /\ c[n] = incoming[n] /\ incoming[n] \in 1 .. taken
      BY <1>a, <2>4, <2>7
    <3>2. CASE m = Len(incoming) + 1
      BY <2>2, <2>4, <3>1, <3>2
    <3>3. CASE m \in DOMAIN incoming
      BY <2>4, <2>7, <3>1, <3>3 DEF ChannelInv
    <3> QED BY <2>4, <3>2, <3>3
  <2> QED BY <2>1, <2>6, <2>7 DEF ChannelInv
<1> QED
  <2>1. incoming' = incoming \/ Accept \/ ReadLine
    BY DEF Next, Client, Reader, Loop, Task, Type, CloseStdin, CloseStdout, ReadGarbage, ReadBytes,
           ReadEof, SeeEof, Send, Join, Finish, Notify, Handled, Reply, Panic, readerVars
  <2> QED BY <1>1, <1>2, <1>3, <2>1

LEMMA EndStep ==
  ASSUME TypeOK, Next, EndInv
  PROVE  EndInv'
<1>a. /\ taken \in Nat /\ taken <= Len(typed) /\ Len(typed) \in Nat
      /\ task \in [Ids -> {"none", "run", "reply", "ended", "panicked", "joined"}]
      /\ \A id \in 1 .. Len(typed) : typed'[id] = typed[id]
      /\ taken' \in Nat /\ taken <= taken'
  BY IdsOfLines, LinesStay DEF TypeOK
<1> DEFINE Bytes == \E n \in 1 .. taken : typed[n].form = "bytes"
           Reading == gone => (eof /\ taken = Len(typed)) \/ deaf \/ Bytes
           Draining == server \in {"draining", "closed"} => gone /\ incoming = <<>>
           Closed == server = "closed" =>
                       outgoing = <<>> /\ \A id \in Ids : task[id] \in {"none", "joined"}
<1>b. Reading /\ Draining /\ Closed
  BY DEF EndInv
<1>c. Bytes => Bytes'
  BY <1>a
<1> SUFFICES Reading' /\ Draining' /\ Closed'
  BY DEF EndInv
<1>d. \A i \in Ids : ~(server = "closed" /\ Up)
  BY DEF Up
<1> HIDE DEF Bytes
<1> USE DEF clientVars, readerVars, taskVars, Up
<1>1. ASSUME NEW l \in Lines, Type(l) PROVE Reading' /\ Draining' /\ Closed'
  BY <1>1, <1>a, <1>b, <1>c DEF Type
<1>2. CASE CloseStdin
  BY <1>2, <1>a, <1>b, <1>c DEF CloseStdin
<1>3. CASE CloseStdout
  BY <1>3, <1>a, <1>b, <1>c DEF CloseStdout
<1>4. CASE ReadLine
  BY <1>4, <1>a, <1>b, <1>c DEF ReadLine
<1>5. CASE ReadGarbage
  BY <1>5, <1>a, <1>b, <1>c DEF ReadGarbage
<1>6. CASE ReadBytes
  <2>1. Bytes'
    BY <1>6, <1>a DEF ReadBytes, Bytes
  <2> QED BY <1>6, <1>b, <2>1 DEF ReadBytes
<1>7. CASE ReadEof
  BY <1>7, <1>a, <1>b, <1>c DEF ReadEof
<1>8. CASE Accept
  BY <1>8, <1>a, <1>b, <1>c DEF Accept
<1>9. CASE SeeEof
  BY <1>9, <1>a, <1>b, <1>c DEF SeeEof
<1>10. CASE Send
  BY <1>10, <1>a, <1>b, <1>c DEF Send
<1>11. ASSUME NEW id \in Ids, Join(id) PROVE Reading' /\ Draining' /\ Closed'
  BY <1>11, <1>a, <1>b, <1>c DEF Join
<1>12. CASE Finish
  BY <1>12, <1>a, <1>b, <1>c DEF Finish
<1>13. ASSUME NEW id \in Ids, Notify(id) PROVE Reading' /\ Draining' /\ Closed'
  BY <1>13, <1>a, <1>b, <1>c DEF Notify
<1>14. ASSUME NEW id \in Ids, Handled(id) PROVE Reading' /\ Draining' /\ Closed'
  BY <1>14, <1>a, <1>b, <1>c DEF Handled
<1>15. ASSUME NEW id \in Ids, Reply(id) PROVE Reading' /\ Draining' /\ Closed'
  BY <1>15, <1>a, <1>b, <1>c DEF Reply
<1>16. ASSUME NEW id \in Ids, Panic(id) PROVE Reading' /\ Draining' /\ Closed'
  BY <1>16, <1>a, <1>b, <1>c DEF Panic
<1> QED
  BY <1>1, <1>2, <1>3, <1>4, <1>5, <1>6, <1>7, <1>8, <1>9, <1>10, <1>11, <1>12, <1>13, <1>14, <1>15, <1>16 DEF Next, Client, Reader, Loop, Task

-----------------------------------------------------------------------------
(* How a task counts the responses.                                        *)

LEMMA LineIs ==
  ASSUME NEW l \in Lines
  PROVE  /\ l.items \in Seq({"call", "plain", "notice"})
         /\ Len(l.items) \in Nat /\ DOMAIN l.items = 1 .. Len(l.items)
         /\ l.form \in {"garbage", "bytes", "single", "batch"}
         /\ l.form = "garbage" => l.items = <<>>
         /\ Len(l.items) = 0 <=> l.items = <<>>
<1>1. l \in [form : {"garbage", "bytes", "single", "batch"}, items : Seq({"call", "plain", "notice"})]
      /\ (l.form = "garbage" => l.items = <<>>)
  BY McpAssumption
<1>2. l.items \in Seq({"call", "plain", "notice"}) /\ l.form \in {"garbage", "bytes", "single", "batch"}
  BY <1>1
<1> QED
  BY <1>1, <1>2, EmptySeq, LenProperties

LEMMA CountIs ==
  ASSUME NEW items, NEW k \in Nat
  PROVE  /\ Count(items, k) \in Nat
         /\ Count(items, 0) = 0
         /\ Count(items, k + 1) = Count(items, k) + (IF items[k + 1] = "notice" THEN 0 ELSE 1)
<1> DEFINE S(j) == {n \in 1 .. j : items[n] # "notice"}
<1>1. IsFiniteSet(S(k))
  <2>1. IsFiniteSet(1 .. k)
    BY FS_Interval
  <2> QED BY <2>1, FS_Subset
<1>2. Cardinality(S(k)) \in Nat /\ k + 1 \notin S(k)
  BY <1>1, FS_CardinalityType
<1>3. S(0) = {}
  OBVIOUS
<1>4. S(k + 1) = IF items[k + 1] = "notice" THEN S(k) ELSE S(k) \cup {k + 1}
  OBVIOUS
<1>5. Count(items, k) = Cardinality(S(k)) /\ Count(items, k + 1) = Cardinality(S(k + 1))
      /\ Count(items, 0) = Cardinality(S(0))
  BY DEF Count
<1> HIDE DEF S
<1>6. Cardinality(S(k) \cup {k + 1}) = Cardinality(S(k)) + 1
  BY <1>1, <1>2, FS_AddElement
<1>7. Count(items, 0) = 0
  BY <1>3, <1>5, FS_EmptySet
<1> QED
  BY <1>2, <1>4, <1>5, <1>6, <1>7

LEMMA DueIs ==
  ASSUME NEW l \in Lines
  PROVE  /\ Due(l) = IF l.items = <<>> THEN 1 ELSE Count(l.items, Len(l.items))
         /\ Due(l) \in Nat
         /\ l.form = "garbage" => Due(l) = 1
<1> DEFINE s == l.items
<1>1. Len(s) \in Nat /\ DOMAIN s = 1 .. Len(s) /\ (l.form = "garbage" => s = <<>>)
  BY LineIs
<1>2. Due(l) = IF s = <<>> THEN 1 ELSE Count(s, Len(s))
  BY <1>1 DEF Due, Count
<1>3. Count(s, Len(s)) \in Nat
  <2> HIDE DEF s
  <2> QED BY <1>1, CountIs
<1> QED
  BY <1>1, <1>2, <1>3

LEMMA TaskStays ==
  ASSUME TypeOK, Next, NEW i \in Ids, TaskInv(i),
         task'[i] = task[i], item'[i] = item[i], answers'[i] = answers[i]
  PROVE  TaskInv(i)'
<1>1. Message(i) => Message(i)'
  BY MessageStays
<1>2. ASSUME Message(i) PROVE typed'[i] = typed[i] /\ Due(typed[i])' = Due(typed[i])
  BY <1>2, DueStays, IdsOfLines DEF Message
<1> QED
  BY <1>1, <1>2 DEF TaskInv

LEMMA TaskStep ==
  ASSUME TypeOK, Next, ChannelInv, NEW i \in Ids, TaskInv(i)
  PROVE  TaskInv(i)'
<1>a. /\ task \in [Ids -> {"none", "run", "reply", "ended", "panicked", "joined"}]
      /\ item \in [Ids -> Nat \ {0}] /\ answers \in [Ids -> Nat]
  BY DEF TypeOK
<1>b. Message(i) => Message(i)'
  BY MessageStays
<1>c. ASSUME Message(i)
      PROVE  typed'[i] = typed[i] /\ Due(typed[i])' = Due(typed[i]) /\ typed[i] \in Lines
  BY <1>c, DueStays, IdsOfLines DEF Message
<1> USE DEF clientVars, readerVars, taskVars
<1>1. ASSUME NEW l \in Lines, Type(l) PROVE TaskInv(i)'
  BY <1>1, <1>a, TaskStays DEF Type
<1>2. CASE CloseStdin
  BY <1>2, <1>a, TaskStays DEF CloseStdin
<1>3. CASE CloseStdout
  BY <1>3, <1>a, TaskStays DEF CloseStdout
<1>4. CASE ReadLine
  BY <1>4, <1>a, TaskStays DEF ReadLine
<1>5. CASE ReadGarbage
  BY <1>5, <1>a, TaskStays DEF ReadGarbage
<1>6. CASE ReadBytes
  BY <1>6, <1>a, TaskStays DEF ReadBytes
<1>7. CASE ReadEof
  BY <1>7, <1>a, TaskStays DEF ReadEof
<1>8. CASE Accept
  <2> DEFINE h == Head(incoming)
  <2>1. h \in Ids /\ Message(h) /\ task[h] = "none"
    BY <1>8, HeadOfIncoming DEF ChannelInv, Accept
  <2>2. /\ task' = [task EXCEPT ![h] = IF typed[h].items = <<>> THEN "reply" ELSE "run"]
        /\ answers' = [answers EXCEPT ![h] = IF typed[h].items = <<>> THEN 1 ELSE 0]
        /\ item' = item
    BY <1>8 DEF Accept
  <2> HIDE DEF h
  <2>3. CASE i # h
    BY <1>a, <2>1, <2>2, <2>3, TaskStays
  <2>4. CASE i = h /\ typed[h].items = <<>>
    <3>1. task'[i] = "reply" /\ answers'[i] = 1
      BY <1>a, <2>1, <2>2, <2>4
    <3>2. Due(typed[i])' = 1
      BY <1>c, <2>1, <2>4, DueIs
    <3> QED BY <1>b, <2>1, <2>4, <3>1, <3>2 DEF TaskInv
  <2>5. CASE i = h /\ typed[h].items # <<>>
    <3>1. task'[i] = "run" /\ answers'[i] = 0 /\ item'[i] = 1
      BY <1>a, <2>1, <2>2, <2>5 DEF TaskInv
    <3>2. Len(typed[i].items) \in Nat \ {0}
      BY <1>c, <2>1, <2>5, LineIs
    <3>3. Count(typed[i].items, 0) = 0 /\ item'[i] - 1 = 0
      BY <3>1, CountIs
    <3> QED BY <1>b, <1>c, <2>1, <2>5, <3>1, <3>2, <3>3 DEF TaskInv
  <2> QED BY <2>3, <2>4, <2>5
<1>9. CASE SeeEof
  BY <1>9, <1>a, TaskStays DEF SeeEof
<1>10. CASE Send
  BY <1>10, <1>a, TaskStays DEF Send
<1>11. ASSUME NEW id \in Ids, Join(id) PROVE TaskInv(i)'
  <2>1. CASE i = id
    <3>1. task'[i] \in {"joined", "ended", "panicked"} /\ Message(i)
      BY <1>11, <1>a, <2>1 DEF Join, TaskInv
    <3> QED BY <1>b, <3>1 DEF TaskInv
  <2>2. CASE i # id
    BY <1>11, <1>a, <2>2, TaskStays DEF Join
  <2> QED BY <2>1, <2>2
<1>12. CASE Finish
  BY <1>12, <1>a, TaskStays DEF Finish
<1>13. ASSUME NEW id \in Ids, Notify(id) PROVE TaskInv(i)'
  BY <1>13, <1>a, TaskStays DEF Notify
<1>14. ASSUME NEW id \in Ids, Handled(id) PROVE TaskInv(i)'
  <2>1. CASE i = id
    <3> DEFINE items == typed[i].items
               k == item[i]
               count == answers[i] + (IF items[k] = "notice" THEN 0 ELSE 1)
    <3>1. /\ Message(i) /\ k \in 1 .. Len(items) /\ answers[i] = Count(items, k - 1)
      BY <1>14, <2>1 DEF Handled, TaskInv
    <3>2. Len(items) \in Nat /\ (Len(items) = 0 <=> items = <<>>) /\ typed[i] \in Lines
      BY <1>c, <3>1, LineIs
    <3>3. /\ answers'[i] = count /\ item'[i] = IF k < Len(items) THEN k + 1 ELSE k
          /\ task'[i] = IF k < Len(items) THEN "run" ELSE IF count > 0 THEN "reply" ELSE "ended"
      BY <1>14, <1>a, <2>1 DEF Handled, Current
    <3>4. count = Count(items, k) /\ Count(items, k) \in Nat
      <4>1. k - 1 \in Nat /\ k \in Nat /\ (k - 1) + 1 = k
        BY <3>1, <3>2
      <4> HIDE DEF items, k
      <4> QED BY <3>1, <4>1, CountIs
    <3> HIDE DEF count, k
    <3>5. CASE k < Len(items)
      <4>1. item'[i] \in 1 .. Len(items) /\ item'[i] - 1 = k /\ task'[i] = "run"
        BY <3>1, <3>2, <3>3, <3>5
      <4> QED BY <1>b, <1>c, <3>1, <3>3, <3>4, <4>1 DEF TaskInv
    <3>6. CASE ~(k < Len(items))
      <4>1. k = Len(items) /\ items # <<>>
        BY <3>1, <3>2, <3>6
      <4>2. Due(typed[i]) = count
        BY <3>2, <3>4, <4>1, DueIs
      <4>3. task'[i] \in {"reply", "ended"} /\ (task'[i] = "reply" => count > 0)
        BY <3>3, <3>6
      <4> QED BY <1>b, <1>c, <3>1, <3>3, <4>2, <4>3 DEF TaskInv
    <3> QED BY <3>5, <3>6
  <2>2. CASE i # id
    BY <1>14, <1>a, <2>2, TaskStays DEF Handled
  <2> QED BY <2>1, <2>2
<1>15. ASSUME NEW id \in Ids, Reply(id) PROVE TaskInv(i)'
  <2>1. CASE i = id
    <3>1. task'[i] \in {"joined", "ended", "panicked"} /\ Message(i)
      BY <1>15, <1>a, <2>1 DEF Reply, TaskInv
    <3> QED BY <1>b, <3>1 DEF TaskInv
  <2>2. CASE i # id
    BY <1>15, <1>a, <2>2, TaskStays DEF Reply
  <2> QED BY <2>1, <2>2
<1>16. ASSUME NEW id \in Ids, Panic(id) PROVE TaskInv(i)'
  <2>1. CASE i = id
    <3>1. task'[i] \in {"joined", "ended", "panicked"} /\ Message(i)
      BY <1>16, <1>a, <2>1 DEF Panic, TaskInv
    <3> QED BY <1>b, <3>1 DEF TaskInv
  <2>2. CASE i # id
    BY <1>16, <1>a, <2>2, TaskStays DEF Panic
  <2> QED BY <2>1, <2>2
<1> QED
  BY <1>1, <1>2, <1>3, <1>4, <1>5, <1>6, <1>7, <1>8, <1>9, <1>10, <1>11, <1>12, <1>13, <1>14, <1>15, <1>16 DEF Next, Client, Reader, Loop, Task

-----------------------------------------------------------------------------
(* What is sent, and in which order.                                       *)

(* Nothing of x's line is answered in q. *)
Unanswered(q, id) == \A n \in DOMAIN q : q[n].kind = "answer" => q[n].of # id

LEMMA OrderedMore ==
  ASSUME NEW q \in Seq(Sent), NEW x \in Sent, Ordered(q), Unanswered(q, x.of)
  PROVE  Ordered(Append(q, x))
<1> DEFINE c == Append(q, x)
<1>1. /\ Len(q) \in Nat /\ DOMAIN q = 1 .. Len(q) /\ DOMAIN c = 1 .. Len(q) + 1
      /\ c[Len(q) + 1] = x /\ \A n \in 1 .. Len(q) : c[n] = q[n]
  BY OneMore
<1> HIDE DEF c
<1>2. ASSUME NEW n \in DOMAIN c, NEW m \in DOMAIN c, n < m, c[n].kind = "answer"
      PROVE  c[m].of # c[n].of
  <2>1. n \in DOMAIN q /\ c[n] = q[n]
    BY <1>1, <1>2
  <2>2. CASE m = Len(q) + 1
    BY <1>1, <1>2, <2>1, <2>2 DEF Unanswered
  <2>3. CASE m \in DOMAIN q
    BY <1>1, <1>2, <2>1, <2>3 DEF Ordered
  <2> QED BY <1>1, <2>2, <2>3
<1> QED
  BY <1>2 DEF Ordered, c

LEMMA OrderedRest ==
  ASSUME NEW q \in Seq(Sent), q # <<>>, Ordered(q)
  PROVE  /\ Ordered(Tail(q))
         /\ Head(q).kind = "answer" => \A n \in DOMAIN Tail(q) : Tail(q)[n].of # Head(q).of
<1> DEFINE r == Tail(q)
<1>1. /\ Len(q) \in Nat \ {0} /\ DOMAIN q = 1 .. Len(q) /\ DOMAIN r = 1 .. Len(q) - 1
      /\ Head(q) = q[1] /\ \A n \in 1 .. Len(q) - 1 : r[n] = q[n + 1]
  BY FirstAndRest
<1> HIDE DEF r
<1>2. \A n \in DOMAIN r : n + 1 \in DOMAIN q /\ r[n] = q[n + 1] /\ 1 < n + 1 /\ 1 \in DOMAIN q /\ n \in Nat
  BY <1>1
<1>3. ASSUME NEW n \in DOMAIN r, NEW m \in DOMAIN r, n < m, r[n].kind = "answer"
      PROVE  r[m].of # r[n].of
  <2>1. n + 1 < m + 1
    BY <1>2, <1>3
  <2> QED BY <1>2, <1>3, <2>1 DEF Ordered
<1>4. Head(q).kind = "answer" => \A n \in DOMAIN r : r[n].of # Head(q).of
  BY <1>1, <1>2 DEF Ordered
<1> QED
  BY <1>3, <1>4 DEF Ordered, r

SentInv ==
  Backed(stdout) /\ Backed(outgoing) /\ Ordered(stdout) /\ Ordered(outgoing) /\ Behind

(* Neither has an answer of a line whose task is at work. *)
LEMMA NotAnsweredYet ==
  ASSUME TypeOK, SentInv, NEW id \in Ids, TaskInv(id), task[id] \in {"run", "reply"}
  PROVE  Unanswered(stdout, id) /\ Unanswered(outgoing, id)
<1>1. typed[id].form \in {"single", "batch"}
  BY DEF TaskInv, Message
<1> QED
  BY <1>1 DEF SentInv, Backed, Good, Final, Unanswered

LEMMA GoodStays ==
  ASSUME TypeOK, Next, ChannelInv, NEW x \in Sent, Good(x)
  PROVE  Good(x)'
<1>1. x.of \in Nat \ {0}
  BY IdsOfLines DEF Sent, Ids
<1>2. taken \in Nat /\ taken' \in Nat /\ taken <= taken'
  BY LinesStay, IdsOfLines
<1>3. x.of <= taken /\ x.of \in 1 .. taken
  BY <1>1, <1>2 DEF Good
<1>4. x.of <= taken'
  BY <1>1, <1>2, <1>3
<1> QED
  BY <1>3, <1>4, FinalStays DEF Good

LEMMA SentElements ==
  ASSUME TypeOK
  PROVE  /\ stdout \in Seq(Sent) /\ outgoing \in Seq(Sent)
         /\ \A n \in DOMAIN stdout : stdout[n] \in Sent
         /\ \A n \in DOMAIN outgoing : outgoing[n] \in Sent
<1>1. stdout \in Seq(Sent) /\ outgoing \in Seq(Sent)
  BY DEF TypeOK
<1> QED
  BY <1>1, ElementOfSeq, LenProperties

(* A step that sends nothing. *)
LEMMA SilentStep ==
  ASSUME TypeOK, Next, ChannelInv, SentInv, stdout' = stdout, outgoing' = outgoing
  PROVE  SentInv'
<1>1. Backed(stdout)' /\ Backed(outgoing)'
  BY SentElements, GoodStays DEF SentInv, Backed
<1>2. Ordered(stdout)' /\ Ordered(outgoing)' /\ Behind'
  BY DEF SentInv, Ordered, Behind
<1> QED
  BY <1>1, <1>2 DEF SentInv

(* A step that puts x on the queue. *)
LEMMA QueueStep ==
  ASSUME TypeOK, Next, ChannelInv, SentInv, NEW x \in Sent,
         stdout' = stdout, outgoing' = Append(outgoing, x), Good(x)',
         Unanswered(stdout, x.of), Unanswered(outgoing, x.of)
  PROVE  SentInv'
<1>1. /\ Len(outgoing) \in Nat /\ DOMAIN outgoing = 1 .. Len(outgoing)
      /\ DOMAIN outgoing' = 1 .. Len(outgoing) + 1 /\ outgoing'[Len(outgoing) + 1] = x
      /\ \A n \in 1 .. Len(outgoing) : outgoing'[n] = outgoing[n]
  BY SentElements, OneMore
<1>2. \A n \in DOMAIN outgoing' : outgoing'[n] = x \/ (n \in DOMAIN outgoing /\ outgoing'[n] = outgoing[n])
  BY <1>1
<1>3. Backed(stdout)'
  BY SentElements, GoodStays DEF SentInv, Backed
<1>4. Backed(outgoing)'
  BY <1>2, SentElements, GoodStays DEF SentInv, Backed
<1>5. Ordered(outgoing') /\ Ordered(stdout)
  BY SentElements, OrderedMore DEF SentInv
<1>6. Behind'
  BY <1>2 DEF SentInv, Behind, Unanswered
<1> QED
  BY <1>3, <1>4, <1>5, <1>6 DEF SentInv, Ordered

(* A step that writes x past the queue. *)
LEMMA DirectStep ==
  ASSUME TypeOK, Next, ChannelInv, SentInv, NEW x \in Sent,
         stdout' = Append(stdout, x), outgoing' = outgoing, Good(x)',
         Unanswered(stdout, x.of), \A n \in DOMAIN outgoing : outgoing[n].of # x.of
  PROVE  SentInv'
<1>1. /\ Len(stdout) \in Nat /\ DOMAIN stdout = 1 .. Len(stdout)
      /\ DOMAIN stdout' = 1 .. Len(stdout) + 1 /\ stdout'[Len(stdout) + 1] = x
      /\ \A n \in 1 .. Len(stdout) : stdout'[n] = stdout[n]
  BY SentElements, OneMore
<1>2. \A n \in DOMAIN stdout' : stdout'[n] = x \/ (n \in DOMAIN stdout /\ stdout'[n] = stdout[n])
  BY <1>1
<1>3. Backed(outgoing)'
  BY SentElements, GoodStays DEF SentInv, Backed
<1>4. Backed(stdout)'
  BY <1>2, SentElements, GoodStays DEF SentInv, Backed
<1>5. Ordered(stdout') /\ Ordered(outgoing)
  BY SentElements, OrderedMore DEF SentInv
<1>6. Behind'
  BY <1>2 DEF SentInv, Behind
<1> QED
  BY <1>3, <1>4, <1>5, <1>6 DEF SentInv, Ordered

(* A step that takes the first of the queue, and writes it if anyone reads. *)
LEMMA SendStep ==
  ASSUME TypeOK, Next, ChannelInv, SentInv, outgoing # <<>>, outgoing' = Tail(outgoing),
         stdout' = stdout \/ stdout' = Append(stdout, Head(outgoing))
  PROVE  SentInv'
<1> DEFINE x == Head(outgoing)
<1>1. /\ x \in Sent /\ x = outgoing[1] /\ 1 \in DOMAIN outgoing
      /\ \A n \in DOMAIN outgoing' : n + 1 \in DOMAIN outgoing /\ outgoing'[n] = outgoing[n + 1]
  <2>1. /\ x \in Sent /\ x = outgoing[1] /\ Len(outgoing) \in Nat \ {0}
        /\ DOMAIN outgoing = 1 .. Len(outgoing) /\ DOMAIN outgoing' = 1 .. Len(outgoing) - 1
        /\ \A n \in 1 .. Len(outgoing) - 1 : outgoing'[n] = outgoing[n + 1]
    BY SentElements, FirstAndRest
  <2> HIDE DEF x
  <2> QED BY <2>1
<1>2. Ordered(outgoing') /\ (x.kind = "answer" => \A n \in DOMAIN outgoing' : outgoing'[n].of # x.of)
  BY SentElements, OrderedRest DEF SentInv
<1> HIDE DEF x
<1>3. Backed(outgoing)'
  BY <1>1, SentElements, GoodStays DEF SentInv, Backed
<1>4. \A n \in DOMAIN stdout, m \in DOMAIN outgoing' :
        stdout[n].kind = "answer" => outgoing'[m].of # stdout[n].of
  BY <1>1 DEF SentInv, Behind
<1>5. CASE stdout' = stdout
  <2>1. Backed(stdout)'
    BY <1>5, SentElements, GoodStays DEF SentInv, Backed
  <2> QED BY <1>2, <1>3, <1>4, <1>5, <2>1 DEF SentInv, Ordered, Behind
<1>6. CASE stdout' = Append(stdout, x)
  <2>1. /\ Len(stdout) \in Nat /\ DOMAIN stdout = 1 .. Len(stdout)
        /\ DOMAIN stdout' = 1 .. Len(stdout) + 1 /\ stdout'[Len(stdout) + 1] = x
        /\ \A n \in 1 .. Len(stdout) : stdout'[n] = stdout[n]
    BY <1>1, <1>6, SentElements, OneMore
  <2>2. \A n \in DOMAIN stdout' : stdout'[n] = x \/ (n \in DOMAIN stdout /\ stdout'[n] = stdout[n])
    BY <2>1
  <2>3. Backed(stdout)'
    BY <1>1, <2>2, SentElements, GoodStays DEF SentInv, Backed
  <2>4. Unanswered(stdout, x.of)
    BY <1>1 DEF SentInv, Behind, Unanswered
  <2>5. Ordered(stdout')
    BY <1>1, <1>6, <2>4, SentElements, OrderedMore DEF SentInv
  <2>6. Behind'
    BY <1>2, <1>4, <2>2 DEF Behind
  <2> QED BY <1>2, <1>3, <2>3, <2>5, <2>6 DEF SentInv, Ordered
<1> QED
  BY <1>5, <1>6 DEF x

LEMMA SentStep ==
  ASSUME TypeOK, Next, ChannelInv, SentInv, \A i \in Ids : TaskInv(i)
  PROVE  SentInv'
<1>a. /\ task \in [Ids -> {"none", "run", "reply", "ended", "panicked", "joined"}]
      /\ answers \in [Ids -> Nat]
  BY DEF TypeOK
<1> USE DEF clientVars, readerVars, taskVars
<1>1. ASSUME NEW l \in Lines, Type(l) PROVE SentInv'
  BY <1>1, SilentStep DEF Type
<1>2. CASE CloseStdin
  BY <1>2, SilentStep DEF CloseStdin
<1>3. CASE CloseStdout
  BY <1>3, SilentStep DEF CloseStdout
<1>4. CASE ReadLine
  BY <1>4, SilentStep DEF ReadLine
<1>5. CASE ReadGarbage
  <2>1. /\ taken + 1 \in Ids /\ taken + 1 \in 1 .. Len(typed) /\ typed[taken + 1] \in Lines
        /\ taken \in Nat
    BY <1>5, NextIds, IdsOfLines DEF ReadGarbage
  <2>2. CASE deaf
    BY <1>5, <2>2, SilentStep DEF ReadGarbage
  <2>3. CASE ~deaf
    <3>1. PICK x \in Sent : x = Answer(taken + 1, 1) /\ x.of = taken + 1 /\ x.count = 1 /\ x.kind = "answer"
      BY <2>1, SentIs
    <3>2. /\ stdout' = Append(stdout, x) /\ outgoing' = outgoing /\ taken' = taken + 1 /\ typed' = typed
          /\ typed[taken + 1].form = "garbage"
      BY <1>5, <2>3, <3>1 DEF ReadGarbage
    <3>3. Due(typed[x.of])' = 1
      BY <2>1, <3>1, <3>2, DueIs DEF Due
    <3>4. Good(x)'
      BY <2>1, <3>1, <3>2, <3>3 DEF Good, Final
    <3>5. /\ \A n \in DOMAIN stdout : stdout[n].of # x.of
          /\ \A n \in DOMAIN outgoing : outgoing[n].of # x.of
      <4>1. \A y \in Sent : Good(y) => y.of # taken + 1
        BY <2>1 DEF Good, Sent, Ids
      <4> QED BY <3>1, <4>1, SentElements DEF SentInv, Backed
    <3> QED BY <3>1, <3>2, <3>4, <3>5, DirectStep DEF Unanswered
  <2> QED BY <2>2, <2>3
<1>6. CASE ReadBytes
  BY <1>6, SilentStep DEF ReadBytes
<1>7. CASE ReadEof
  BY <1>7, SilentStep DEF ReadEof
<1>8. CASE Accept
  BY <1>8, SilentStep DEF Accept
<1>9. CASE SeeEof
  BY <1>9, SilentStep DEF SeeEof
<1>10. CASE Send
  BY <1>10, SendStep DEF Send
<1>11. ASSUME NEW id \in Ids, Join(id) PROVE SentInv'
  BY <1>11, SilentStep DEF Join
<1>12. CASE Finish
  BY <1>12, SilentStep DEF Finish
<1>13. ASSUME NEW id \in Ids, Notify(id) PROVE SentInv'
  <2>1. PICK x \in Sent : x = Note(id) /\ x.of = id /\ x.kind = "note"
    BY SentIs
  <2>2. stdout' = stdout /\ outgoing' = Append(outgoing, x) /\ task[id] = "run" /\ taken' = taken
    BY <1>13, <2>1 DEF Notify
  <2>3. Unanswered(stdout, id) /\ Unanswered(outgoing, id)
    BY <2>2, NotAnsweredYet
  <2>4. id <= taken
    BY <2>2, IdsOfLines DEF TaskInv, Message
  <2>5. Good(x)'
    BY <2>1, <2>2, <2>4 DEF Good
  <2> QED BY <2>1, <2>2, <2>3, <2>5, QueueStep
<1>14. ASSUME NEW id \in Ids, Handled(id) PROVE SentInv'
  BY <1>14, SilentStep DEF Handled
<1>15. ASSUME NEW id \in Ids, Reply(id) PROVE SentInv'
  <2>1. PICK x \in Sent : x = Answer(id, answers[id]) /\ x.of = id /\ x.kind = "answer" /\ x.count = answers[id]
    BY <1>a, SentIs
  <2>2. /\ stdout' = stdout /\ outgoing' = Append(outgoing, x) /\ task[id] = "reply" /\ taken' = taken
        /\ task'[id] = "ended" /\ typed' = typed
    BY <1>15, <1>a, <2>1 DEF Reply
  <2>3. Unanswered(stdout, id) /\ Unanswered(outgoing, id)
    BY <2>2, NotAnsweredYet
  <2>4. id <= taken /\ answers[id] = Due(typed[id]) /\ answers[id] > 0
    BY <2>2, IdsOfLines DEF TaskInv, Message
  <2>5. Good(x)'
    BY <2>1, <2>2, <2>4 DEF Good, Final, Due
  <2> QED BY <2>1, <2>2, <2>3, <2>5, QueueStep
<1>16. ASSUME NEW id \in Ids, Panic(id) PROVE SentInv'
  BY <1>16, SilentStep DEF Panic
<1> QED
  BY <1>1, <1>2, <1>3, <1>4, <1>5, <1>6, <1>7, <1>8, <1>9, <1>10, <1>11, <1>12, <1>13, <1>14, <1>15, <1>16 DEF Next, Client, Reader, Loop, Task

-----------------------------------------------------------------------------
(* Whoever is owed an answer has someone to give it.                       *)

AtWork(i) == task[i] \in {"run", "reply", "panicked"}

LEMMA StillAnswered ==
  ASSUME TypeOK, NEW i \in Ids, NEW x \in Sent, stdout' = stdout \/ stdout' = Append(stdout, x)
  PROVE  /\ Answered(i) => Answered(i)'
         /\ stdout' = Append(stdout, x) /\ x.kind = "answer" /\ x.of = i => Answered(i)'
<1>1. CASE stdout' = stdout
  <2>1. Append(stdout, x) # stdout
    <3>1. Len(Append(stdout, x)) = Len(stdout) + 1 /\ Len(stdout) \in Nat
      BY SentElements, OneMore
    <3> QED BY <3>1
  <2> QED BY <1>1, <2>1 DEF Answered
<1>2. CASE stdout' = Append(stdout, x)
  <2>1. /\ Len(stdout) \in Nat /\ DOMAIN stdout = 1 .. Len(stdout)
        /\ DOMAIN stdout' = 1 .. Len(stdout) + 1 /\ stdout'[Len(stdout) + 1] = x
        /\ \A n \in 1 .. Len(stdout) : stdout'[n] = stdout[n]
    BY <1>2, SentElements, OneMore
  <2>2. Len(stdout) + 1 \in DOMAIN stdout' /\ \A n \in DOMAIN stdout : n \in DOMAIN stdout' /\ stdout'[n] = stdout[n]
    BY <2>1
  <2> QED BY <2>1, <2>2 DEF Answered
<1> QED
  BY <1>1, <1>2

LEMMA StillReplied ==
  ASSUME TypeOK, NEW i \in Ids, NEW x \in Sent, outgoing' = Append(outgoing, x)
  PROVE  (Replied(i) => Replied(i)') /\ (x.kind = "answer" /\ x.of = i => Replied(i)')
<1>1. /\ Len(outgoing) \in Nat /\ DOMAIN outgoing = 1 .. Len(outgoing)
      /\ DOMAIN outgoing' = 1 .. Len(outgoing) + 1 /\ outgoing'[Len(outgoing) + 1] = x
      /\ \A n \in 1 .. Len(outgoing) : outgoing'[n] = outgoing[n]
  BY SentElements, OneMore
<1>2. Len(outgoing) + 1 \in DOMAIN outgoing'
      /\ \A n \in DOMAIN outgoing : n \in DOMAIN outgoing' /\ outgoing'[n] = outgoing[n]
  BY <1>1
<1> QED
  BY <1>1, <1>2 DEF Replied

LEMMA RepliedIsFirst ==
  ASSUME TypeOK, NEW i \in Ids, Replied(i), outgoing' = Tail(outgoing)
  PROVE  /\ outgoing # <<>> /\ Head(outgoing) \in Sent
         /\ (Head(outgoing).kind = "answer" /\ Head(outgoing).of = i) \/ Replied(i)'
<1>1. PICK n \in DOMAIN outgoing : outgoing[n].kind = "answer" /\ outgoing[n].of = i
  BY DEF Replied
<1>2. outgoing # <<>>
  BY <1>1
<1>3. /\ Head(outgoing) \in Sent /\ Head(outgoing) = outgoing[1]
      /\ Len(outgoing) \in Nat \ {0} /\ DOMAIN outgoing = 1 .. Len(outgoing)
      /\ DOMAIN outgoing' = 1 .. Len(outgoing) - 1
      /\ \A m \in 1 .. Len(outgoing) - 1 : outgoing'[m] = outgoing[m + 1]
  BY <1>2, SentElements, FirstAndRest
<1>4. CASE n = 1
  BY <1>1, <1>2, <1>3, <1>4
<1>5. CASE n # 1
  <2>1. n - 1 \in DOMAIN outgoing' /\ outgoing'[n - 1] = outgoing[n]
    BY <1>3, <1>5
  <2> QED BY <1>1, <1>2, <1>3, <2>1 DEF Replied
<1> QED
  BY <1>4, <1>5

LEMMA ServerStays ==
  ASSUME Next, ~Up
  PROVE  server' = server
  BY DEF Next, Client, Reader, Loop, Task, Type, CloseStdin, CloseStdout, ReadLine, ReadGarbage,
         ReadBytes, ReadEof, Accept, SeeEof, Send, Join, Finish, Notify, Handled, Reply, Panic, Up

LEMMA TakenStep ==
  ASSUME TypeOK, Next
  PROVE  taken' = taken \/ ((ReadLine \/ ReadGarbage \/ ReadBytes) /\ taken' = taken + 1)
<1> USE DEF readerVars
<1>1. ASSUME NEW l \in Lines, Type(l) PROVE taken' = taken
  BY <1>1 DEF Type
<1>2. CASE CloseStdin
  BY <1>2 DEF CloseStdin
<1>3. CASE CloseStdout
  BY <1>3 DEF CloseStdout
<1>4. CASE ReadLine
  BY <1>4 DEF ReadLine
<1>5. CASE ReadGarbage
  BY <1>5 DEF ReadGarbage
<1>6. CASE ReadBytes
  BY <1>6 DEF ReadBytes
<1>7. CASE ReadEof
  BY <1>7 DEF ReadEof
<1>8. CASE Accept
  BY <1>8 DEF Accept
<1>9. CASE SeeEof
  BY <1>9 DEF SeeEof
<1>10. CASE Send
  BY <1>10 DEF Send
<1>11. ASSUME NEW id \in Ids, Join(id) PROVE taken' = taken
  BY <1>11 DEF Join
<1>12. CASE Finish
  BY <1>12 DEF Finish
<1>13. ASSUME NEW id \in Ids, Notify(id) PROVE taken' = taken
  BY <1>13 DEF Notify
<1>14. ASSUME NEW id \in Ids, Handled(id) PROVE taken' = taken
  BY <1>14 DEF Handled
<1>15. ASSUME NEW id \in Ids, Reply(id) PROVE taken' = taken
  BY <1>15 DEF Reply
<1>16. ASSUME NEW id \in Ids, Panic(id) PROVE taken' = taken
  BY <1>16 DEF Panic
<1> QED
  BY <1>1, <1>2, <1>3, <1>4, <1>5, <1>6, <1>7, <1>8, <1>9, <1>10, <1>11, <1>12, <1>13, <1>14, <1>15, <1>16 DEF Next, Client, Reader, Loop, Task

LEMMA OwedStep ==
  ASSUME TypeOK, Next, ChannelInv, NEW i \in Ids, TaskInv(i), Owed(i)
  PROVE  Owed(i)'
<1> DEFINE W == Answered(i) \/ Replied(i) \/ Queued(i) \/ AtWork(i)
<1> SUFFICES ASSUME (i <= taken)', Expects(i)', ~deaf', server' # "dead"
             PROVE  W'
  BY DEF Owed, AtWork
<1>a. /\ taken \in Nat /\ taken' \in Nat /\ i \in Nat \ {0}
      /\ task \in [Ids -> {"none", "run", "reply", "ended", "panicked", "joined"}]
      /\ answers \in [Ids -> Nat]
  <2>1. taken \in Nat /\ MaxLines \in Nat
    BY IdsOfLines
  <2>2. taken' \in Nat
    BY LinesStay
  <2>3. i \in Nat \ {0}
    BY <2>1 DEF Ids
  <2> QED BY <2>1, <2>2, <2>3 DEF TypeOK
<1>b. ~deaf /\ server # "dead"
  BY LinesStay, ServerStays DEF Up
<1>c. CASE i <= taken
  <2>a. i \in 1 .. Len(typed) /\ Expects(i) /\ typed[i] \in Lines /\ Due(typed[i]) > 0
    <3>1. i \in 1 .. Len(typed)
      BY <1>a, <1>c, IdsOfLines
    <3>2. typed[i] \in Lines
      BY <3>1, IdsOfLines
    <3>3. Expects(i)
      BY <1>c, <3>1, DueStays
    <3> QED BY <3>1, <3>2, <3>3 DEF Expects
  <2>b. W
    BY <1>b, <1>c, <2>a, Zenon DEF Owed, AtWork
  <2> USE DEF clientVars, readerVars, taskVars
  <2>1. ASSUME NEW l \in Lines, Type(l) PROVE W'
    BY <2>1, <2>b DEF Type, Answered, Replied, Queued, AtWork
  <2>2. CASE CloseStdin
    BY <2>2, <2>b DEF CloseStdin, Answered, Replied, Queued, AtWork
  <2>3. CASE CloseStdout
    BY <2>3, <2>b DEF CloseStdout, Answered, Replied, Queued, AtWork
  <2>4. CASE ReadLine
    <3>1. incoming \in Seq(Nat) /\ incoming' = Append(incoming, taken + 1) /\ taken + 1 \in Nat
      BY <1>a, <2>4, SeqMonotonic DEF TypeOK, ReadLine
    <3>2. /\ Len(incoming) \in Nat /\ DOMAIN incoming = 1 .. Len(incoming)
          /\ DOMAIN incoming' = 1 .. Len(incoming) + 1
          /\ \A n \in 1 .. Len(incoming) : incoming'[n] = incoming[n]
      BY <3>1, OneMore
    <3>3. \A n \in DOMAIN incoming : n \in DOMAIN incoming' /\ incoming'[n] = incoming[n]
      BY <3>2
    <3> QED BY <2>4, <2>b, <3>3 DEF ReadLine, Answered, Replied, Queued, AtWork
  <2>5. CASE ReadGarbage
    <3>1. Answer(taken + 1, 1) \in Sent
      BY <2>5, NextIds, SentIs DEF ReadGarbage
    <3>2. Answered(i) => Answered(i)'
      BY <2>5, <1>b, <3>1, StillAnswered DEF ReadGarbage
    <3> QED BY <2>5, <2>b, <3>2 DEF ReadGarbage, Replied, Queued, AtWork
  <2>6. CASE ReadBytes
    BY <2>6, <2>b DEF ReadBytes, Answered, Replied, Queued, AtWork
  <2>7. CASE ReadEof
    BY <2>7, <2>b DEF ReadEof, Answered, Replied, Queued, AtWork
  <2>8. CASE Accept
    <3> DEFINE h == Head(incoming)
    <3>1. /\ h \in Ids /\ h = incoming[1] /\ Len(incoming) \in Nat \ {0}
          /\ DOMAIN incoming = 1 .. Len(incoming) /\ DOMAIN Tail(incoming) = 1 .. Len(incoming) - 1
          /\ \A n \in 1 .. Len(incoming) - 1 : Tail(incoming)[n] = incoming[n + 1]
      BY <2>8, HeadOfIncoming DEF Accept
    <3>2. /\ task' = [task EXCEPT ![h] = IF typed[h].items = <<>> THEN "reply" ELSE "run"]
          /\ incoming' = Tail(incoming) /\ stdout' = stdout /\ outgoing' = outgoing
      BY <2>8 DEF Accept
    <3> HIDE DEF h
    <3>3. CASE i = h
      BY <1>a, <3>2, <3>3 DEF AtWork
    <3>4. CASE i # h /\ Queued(i)
      <4>1. PICK n \in DOMAIN incoming : incoming[n] = i
        BY <3>4 DEF Queued
      <4>2. n - 1 \in DOMAIN incoming' /\ incoming'[n - 1] = i
        BY <3>1, <3>2, <3>4, <4>1
      <4> QED BY <4>2 DEF Queued
    <3>5. CASE i # h /\ ~Queued(i)
      BY <1>a, <2>b, <3>2, <3>5 DEF Answered, Replied, AtWork
    <3> QED BY <3>3, <3>4, <3>5
  <2>9. CASE SeeEof
    BY <2>9, <2>b DEF SeeEof, Answered, Replied, Queued, AtWork
  <2>10. CASE Send
    <3>1. outgoing' = Tail(outgoing) /\ stdout' = Append(stdout, Head(outgoing))
      BY <2>10, <1>b DEF Send
    <3>2. outgoing # <<>> /\ Head(outgoing) \in Sent
      BY <2>10, SentElements, FirstAndRest DEF Send
    <3>3. Answered(i) => Answered(i)'
      BY <3>1, <3>2, StillAnswered
    <3>4. Replied(i) => Answered(i)' \/ Replied(i)'
      BY <3>1, <3>2, StillAnswered, RepliedIsFirst
    <3> QED BY <2>10, <2>b, <3>3, <3>4 DEF Send, Queued, AtWork
  <2>11. ASSUME NEW id \in Ids, Join(id) PROVE W'
    <3>1. AtWork(i) => AtWork(i)'
      BY <2>11, <1>a DEF Join, AtWork
    <3> QED BY <2>11, <2>b, <3>1 DEF Join, Answered, Replied, Queued
  <2>12. CASE Finish
    BY <2>12, <2>b DEF Finish, Answered, Replied, Queued, AtWork
  <2>13. ASSUME NEW id \in Ids, Notify(id) PROVE W'
    <3>1. Note(id) \in Sent
      BY SentIs
    <3>2. Replied(i) => Replied(i)'
      BY <2>13, <3>1, StillReplied DEF Notify
    <3> QED BY <2>13, <2>b, <3>2 DEF Notify, Answered, Queued, AtWork
  <2>14. ASSUME NEW id \in Ids, Handled(id) PROVE W'
    <3>1. AtWork(i) => AtWork(i)'
      <4>1. CASE i # id
        BY <2>14, <1>a, <4>1 DEF Handled, AtWork
      <4>2. CASE i = id
        <5> DEFINE items == typed[i].items
                   k == item[i]
                   count == answers[i] + (IF items[k] = "notice" THEN 0 ELSE 1)
        <5>1. /\ k \in 1 .. Len(items) /\ answers[i] = Count(items, k - 1)
          BY <2>14, <4>2 DEF Handled, TaskInv
        <5>2. Len(items) \in Nat /\ (Len(items) = 0 <=> items = <<>>)
          BY <2>a, LineIs
        <5>3. task'[i] = IF k < Len(items) THEN "run" ELSE IF count > 0 THEN "reply" ELSE "ended"
          BY <2>14, <1>a, <4>2 DEF Handled, Current
        <5>4. count = Count(items, k)
          <6>1. k - 1 \in Nat /\ k \in Nat /\ (k - 1) + 1 = k
            BY <5>1, <5>2
          <6> HIDE DEF items, k
          <6> QED BY <5>1, <6>1, CountIs
        <5>5. Due(typed[i]) = IF items = <<>> THEN 1 ELSE Count(items, Len(items))
          BY <2>a, DueIs
        <5> HIDE DEF items, k, count
        <5>6. k = Len(items) \/ k < Len(items)
          BY <5>1, <5>2
        <5>7. items # <<>>
          BY <5>1, <5>2
        <5> QED BY <2>a, <5>3, <5>4, <5>5, <5>6, <5>7 DEF AtWork
      <4> QED BY <4>1, <4>2
    <3> QED BY <2>14, <2>b, <3>1 DEF Handled, Answered, Replied, Queued
  <2>15. ASSUME NEW id \in Ids, Reply(id) PROVE W'
    <3>1. /\ Answer(id, answers[id]) \in Sent
          /\ Answer(id, answers[id]).kind = "answer" /\ Answer(id, answers[id]).of = id
      BY <1>a, SentIs
    <3>2. (Replied(i) => Replied(i)') /\ (i = id => Replied(i)')
      BY <2>15, <3>1, StillReplied DEF Reply
    <3>3. i # id => task'[i] = task[i]
      BY <2>15, <1>a DEF Reply
    <3> QED BY <2>15, <2>b, <3>2, <3>3 DEF Reply, Answered, Queued, AtWork
  <2>16. ASSUME NEW id \in Ids, Panic(id) PROVE W'
    <3>1. AtWork(i) => AtWork(i)'
      BY <2>16, <1>a DEF Panic, AtWork
    <3> QED BY <2>16, <2>b, <3>1 DEF Panic, Answered, Replied, Queued
  <2> QED
    BY <2>1, <2>2, <2>3, <2>4, <2>5, <2>6, <2>7, <2>8, <2>9, <2>10, <2>11, <2>12, <2>13, <2>14, <2>15, <2>16 DEF Next, Client, Reader, Loop, Task
<1>d. CASE i = taken + 1 /\ taken' = taken + 1
  <2>1. CASE ReadLine
    <3>1. incoming \in Seq(Nat) /\ incoming' = Append(incoming, i) /\ i \in Nat
      BY <1>a, <1>d, <2>1, SeqMonotonic DEF TypeOK, ReadLine
    <3>2. Len(incoming) \in Nat /\ DOMAIN incoming' = 1 .. Len(incoming) + 1 /\ incoming'[Len(incoming) + 1] = i
      BY <3>1, OneMore
    <3> QED BY <3>2 DEF Queued
  <2>2. CASE ReadGarbage
    <3>1. Answer(i, 1) \in Sent /\ Answer(i, 1).kind = "answer" /\ Answer(i, 1).of = i
      BY SentIs
    <3>2. stdout' = Append(stdout, Answer(i, 1))
      BY <1>b, <1>d, <2>2 DEF ReadGarbage
    <3> QED BY <3>1, <3>2, StillAnswered
  <2>3. CASE ReadBytes
    <3>1. typed[i].form = "bytes" /\ typed' = typed /\ i \in 1 .. i
      BY <1>a, <1>d, <2>3 DEF ReadBytes, clientVars
    <3> QED BY <3>1 DEF Expects
  <2> QED BY <1>a, <1>d, <2>1, <2>2, <2>3, TakenStep
<1> QED
  BY <1>a, <1>c, <1>d, TakenStep

-----------------------------------------------------------------------------
LEMMA InvInit ==
  ASSUME Init
  PROVE  Inv
<1>1. TypeOK
  <2>1. OutCap \in Nat \ {0} /\ MaxLines \in Nat /\ InCap \in Nat \ {0} /\ Notes \in Nat
    BY McpAssumption
  <2>2. ASSUME NEW S, NEW q, q = <<>> PROVE q \in Seq(S) /\ Len(q) = 0
    BY <2>2, EmptySeq
  <2>3. /\ typed = <<>> /\ stdout = <<>> /\ outgoing = <<>> /\ incoming = <<>>
        /\ taken = 0 /\ eof = FALSE /\ deaf = FALSE /\ gone = FALSE
    BY DEF Init
  <2>4. /\ typed \in Seq(Lines) /\ Len(typed) = 0 /\ stdout \in Seq(Sent)
        /\ outgoing \in Seq(Sent) /\ Len(outgoing) = 0
        /\ incoming \in Seq(1 .. taken) /\ Len(incoming) = 0
    BY <2>2, <2>3
  <2>5. taken = 0 /\ eof \in BOOLEAN /\ deaf \in BOOLEAN /\ gone \in BOOLEAN
    BY <2>3
  <2>6. ClientTypes /\ SentTypes /\ ReaderTypes
    BY <2>1, <2>4, <2>5 DEF ClientTypes, SentTypes, ReaderTypes
  <2>7. ServerTypes /\ TaskTypes
    BY <2>1 DEF Init, ServerTypes, TaskTypes
  <2> QED BY <2>6, <2>7, TypeParts
<1>2. DOMAIN stdout = {} /\ DOMAIN outgoing = {} /\ DOMAIN incoming = {}
  BY DEF Init
<1>3. ChannelInv /\ Backed(stdout) /\ Backed(outgoing) /\ Ordered(stdout) /\ Ordered(outgoing) /\ Behind
  BY <1>2 DEF ChannelInv, Backed, Ordered, Behind
<1>4. EndInv
  BY DEF Init, EndInv
<1>5. \A id \in Ids : TaskInv(id) /\ Owed(id)
  BY DEF Init, TaskInv, Owed, Ids
<1> QED
  BY <1>1, <1>3, <1>4, <1>5 DEF Inv

LEMMA InvStep ==
  ASSUME Inv, [Next]_vars
  PROVE  Inv'
<1>1. CASE Next
  <2>1. TypeOK /\ ChannelInv /\ EndInv /\ SentInv /\ \A id \in Ids : TaskInv(id) /\ Owed(id)
    BY DEF Inv, SentInv
  <2>2. TypeOK' /\ ChannelInv' /\ EndInv' /\ SentInv'
    BY <1>1, <2>1, TypeStep, ChannelStep, EndStep, SentStep
  <2>3. \A id \in Ids : TaskInv(id)' /\ Owed(id)'
    BY <1>1, <2>1, TaskStep, OwedStep
  <2> QED BY <2>2, <2>3 DEF Inv, SentInv, Ids
<1>2. CASE UNCHANGED vars
  <2>0. /\ typed' = typed /\ eof' = eof /\ deaf' = deaf /\ stdout' = stdout
        /\ taken' = taken /\ gone' = gone /\ incoming' = incoming /\ server' = server
        /\ outgoing' = outgoing /\ task' = task /\ item' = item /\ notes' = notes
        /\ answers' = answers
    BY <1>2 DEF vars, clientVars, readerVars, taskVars
  <2>1. TypeOK'
    BY <2>0 DEF Inv, TypeOK
  <2>2. ChannelInv' /\ EndInv'
    BY <2>0 DEF Inv, ChannelInv, EndInv, Message
  <2>3. Backed(stdout)' /\ Backed(outgoing)'
    <3>1. \A x : Good(x)' = Good(x)
      BY <2>0 DEF Good, Final, Due
    <3> QED BY <2>0, <3>1 DEF Inv, Backed
  <2>4. Ordered(stdout)' /\ Ordered(outgoing)'
    <3>1. Ordered(stdout) /\ Ordered(outgoing)
      BY DEF Inv
    <3> QED BY <2>0, <3>1, Zenon DEF Ordered
  <2>5. Behind'
    <3>1. Behind
      BY DEF Inv
    <3> QED BY <2>0, <3>1, Zenon DEF Behind
  <2>6. ASSUME NEW id \in Ids PROVE TaskInv(id)' /\ Owed(id)'
    <3>1. TaskInv(id) /\ Owed(id)
      BY DEF Inv
    <3>2. TaskInv(id)'
      BY <2>0, <3>1 DEF TaskInv, Message, Due
    <3>3. Owed(id)'
      BY <2>0, <3>1 DEF Owed, Expects, Due, Answered, Replied, Queued
    <3> QED BY <3>2, <3>3
  <2> QED BY <2>1, <2>2, <2>3, <2>4, <2>5, <2>6 DEF Inv, Ids
<1> QED
  BY <1>1, <1>2

(* The inductive invariant of the MCP server: where each line's answer is, what
   its task has counted so far, and what was sent of it in which order
   (server.rs:84-162, stdio.rs:68-111, protocol.rs:134-173). *)
THEOREM ServerInvariant == Spec => []Inv
<1>1. Init => Inv
  BY InvInit
<1>2. Inv /\ [Next]_vars => Inv'
  BY InvStep
<1> QED
  BY <1>1, <1>2, PTL DEF Spec

(* Every variable keeps its type, and the reader's channel and the queue to
   stdout their bounds, however many messages a batch has (server.rs:15, 92-99,
   stdio.rs:48). *)
THEOREM TypesHold == Spec => []TypeOK
<1>1. Inv => TypeOK
  BY DEF Inv
<1> QED
  BY <1>1, ServerInvariant, PTL

LEMMA AnsweredOnce ==
  ASSUME Inv, NEW n \in DOMAIN stdout, stdout[n].kind = "answer"
  PROVE  /\ stdout[n].count = Due(typed[stdout[n].of]) /\ stdout[n].count > 0
         /\ \A m \in DOMAIN stdout : stdout[m].of = stdout[n].of =>
              IF stdout[m].kind = "answer" THEN m = n ELSE m < n
<1>1. stdout[n].count = Due(typed[stdout[n].of]) /\ stdout[n].count > 0
  BY DEF Inv, Backed, Good, Final
<1>2. ASSUME NEW m \in DOMAIN stdout, stdout[m].of = stdout[n].of
      PROVE  IF stdout[m].kind = "answer" THEN m = n ELSE m < n
  <2>1. ~(n < m) /\ (stdout[m].kind = "answer" => ~(m < n))
    BY <1>2 DEF Inv, Ordered
  <2>2. m \in Int /\ n \in Int
    <3>1. stdout \in Seq(Sent)
      BY DEF Inv, TypeOK
    <3>2. DOMAIN stdout = 1 .. Len(stdout) /\ Len(stdout) \in Nat
      BY <3>1
    <3> QED BY <3>2
  <2>3. m # n => stdout[m].kind # "answer" \/ m < n \/ n < m
    BY <2>2
  <2>4. stdout[m].kind # "answer" => m # n
    OBVIOUS
  <2> QED BY <2>1, <2>2, <2>3, <2>4
<1> QED
  BY <1>1, <1>2

LEMMA AllAnswered ==
  ASSUME Inv, server = "closed", ~deaf, NEW id \in DOMAIN typed, Expects(id)
  PROVE  Answered(id)
<1>1. /\ taken \in Nat /\ Len(typed) \in Nat /\ DOMAIN typed = 1 .. Len(typed) /\ id \in Ids
      /\ taken <= Len(typed)
  <2>1. typed \in Seq(Lines) /\ TypeOK
    BY DEF Inv, TypeOK
  <2>2. DOMAIN typed = 1 .. Len(typed)
    BY <2>1
  <2> QED BY <2>1, <2>2, IdsOfLines
<1>2. /\ (eof /\ taken = Len(typed)) \/ \E n \in 1 .. taken : typed[n].form = "bytes"
      /\ incoming = <<>> /\ outgoing = <<>> /\ task[id] \in {"none", "joined"}
  BY <1>1 DEF Inv, EndInv
<1>3. id <= taken
  <2>1. CASE taken = Len(typed)
    BY <1>1, <2>1
  <2>2. ASSUME NEW n \in 1 .. taken, typed[n].form = "bytes" PROVE id <= taken
    <3>1. ~(n \in 1 .. id)
      BY <2>2 DEF Expects
    <3> QED BY <1>1, <3>1
  <2> QED BY <1>2, <2>1, <2>2
<1>4. Answered(id) \/ Replied(id) \/ Queued(id)
  BY <1>1, <1>2, <1>3 DEF Inv, Owed
<1> QED
  BY <1>2, <1>4 DEF Replied, Queued

(* A line is answered at most once, with one response per request in it, after
   every notification of it, and all that were written before the end of stdin
   are answered when the server has ended in an orderly way: whatever the lines,
   their number, and the sizes of the queues (protocol.rs:134-173,
   server.rs:90-161). *)
THEOREM LinesAnsweredAsDue == Spec => []AnsweredAsDue
<1>1. Inv => AnsweredAsDue
  BY AnsweredOnce, AllAnswered DEF AnsweredAsDue
<1> QED
  BY <1>1, ServerInvariant, PTL

=============================================================================
