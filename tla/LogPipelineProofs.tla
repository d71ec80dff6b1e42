------------------------- MODULE LogPipelineProofs -------------------------
(***************************************************************************)
(* Proofs about LogPipeline, for every number of streams, every byte       *)
(* alphabet, channel size, batch size and line limit.                      *)
(*                                                                         *)
(* FlattenSeq, Own, Unmended and NextEnd are recursive, and each is        *)
(* described by what it does to a concatenation; those facts are proved by *)
(* well-founded induction over the naturals, the induction hypothesis      *)
(* being membership of a set (NatInd).                                     *)
(*                                                                         *)
(* The inductive invariant Inv says, of each stream, where its bytes are:  *)
(* what the child wrote is what was handed to the writer and the followers *)
(* followed by what the processor still holds (ProcessorKeeps), and what   *)
(* was handed over is what the file has followed by what the writer still  *)
(* holds, until that writer fails (WriterKeeps).  The rest of it tells     *)
(* which queues are empty at which label, that what is handed on is a      *)
(* whole line, that a line cut off by the end of the stream is its last,   *)
(* and that a torn record is mended before another is appended.            *)
(***************************************************************************)
EXTENDS LogPipeline, WellFoundedInduction, SequenceTheorems, TLAPS

-----------------------------------------------------------------------------
(* Induction over the natural numbers, for a set instead of a predicate.   *)

Less == {p \in Nat \X Nat : p[1] < p[2]}

LEMMA NatMin ==
  ASSUME NEW T \in SUBSET Nat, T # {}
  PROVE  \E x \in T : \A y \in T : x <= y
<1>1. IsWellFoundedOn(Less, Nat)
  BY NatLessThanWellFounded, Zenon DEF OpToRel, Less
<1>2. PICK x \in T : \A y \in T : ~ (<<y, x>> \in Less)
  BY <1>1, WFMin, Zenon
<1>3. \A y \in T : y < x => <<y, x>> \in Less
  BY SMT DEF Less
<1>4. \A y \in T : ~ (y < x)
  BY <1>2, <1>3, Zenon
<1> QED
  BY <1>4

LEMMA NatInd ==
  ASSUME NEW T \in SUBSET Nat, 0 \in T, \A n \in T : n + 1 \in T
  PROVE  T = Nat
<1> DEFINE D == Nat \ T
<1> SUFFICES ASSUME D # {} PROVE FALSE
  OBVIOUS
<1>1. D \in SUBSET Nat
  OBVIOUS
<1>2. PICK x \in D : \A y \in D : x <= y
  <2> HIDE DEF D
  <2> QED BY <1>1, NatMin, Zenon
<1>3. x # 0 /\ x - 1 \in Nat /\ x - 1 \notin D
  BY <1>2
<1> QED
  BY <1>3

-----------------------------------------------------------------------------
(* FlattenSeq.                                                             *)

Flattening(ss, n, f) ==
  f = [i \in 1 .. n |-> IF i = 1 THEN ss[i] ELSE f[i - 1] \o ss[i]]

Agree(f, g, n) == \A i \in 1 .. n : f[i] = g[i]

LEMMA FlatteningExists ==
  ASSUME NEW S, NEW ss \in Seq(Seq(S)), NEW n \in 0 .. Len(ss)
  PROVE  \E f \in [1 .. n -> Seq(S)] : Flattening(ss, n, f)
<1> DEFINE T == {m \in Nat : m <= Len(ss) =>
                   \E f \in [1 .. m -> Seq(S)] : Flattening(ss, m, f)}
<1>1. 0 \in T
  <2> DEFINE f == [i \in 1 .. 0 |-> <<>>]
  <2>1. f \in [1 .. 0 -> Seq(S)] /\ Flattening(ss, 0, f)
    BY DEF Flattening
  <2> QED BY <2>1
<1>2. ASSUME NEW m \in T PROVE m + 1 \in T
  <2> SUFFICES ASSUME m + 1 <= Len(ss)
               PROVE  \E f \in [1 .. m + 1 -> Seq(S)] : Flattening(ss, m + 1, f)
    OBVIOUS
  <2>1. PICK f \in [1 .. m -> Seq(S)] : Flattening(ss, m, f)
    OBVIOUS
  <2> DEFINE g == [i \in 1 .. m + 1 |->
                     IF i <= m THEN f[i] ELSE IF m = 0 THEN ss[1] ELSE f[m] \o ss[m + 1]]
  <2>2. g \in [1 .. m + 1 -> Seq(S)]
    BY <2>1
  <2>3. \A i \in 1 .. m + 1 : g[i] = IF i = 1 THEN ss[i] ELSE g[i - 1] \o ss[i]
    <3>1. \A i \in 1 .. m : f[i] = IF i = 1 THEN ss[i] ELSE f[i - 1] \o ss[i]
      BY <2>1, Zenon DEF Flattening
    <3>2. \A i \in 1 .. m : g[i] = f[i]
      OBVIOUS
    <3>3. \A i \in 1 .. m : i # 1 => g[i - 1] = f[i - 1]
      OBVIOUS
    <3>4. g[m + 1] = IF m + 1 = 1 THEN ss[m + 1] ELSE g[m] \o ss[m + 1]
      OBVIOUS
    <3> HIDE DEF g
    <3>5. TAKE i \in 1 .. m + 1
    <3>6. CASE i \in 1 .. m
      BY <3>1, <3>2, <3>3, <3>6, Zenon
    <3>7. CASE i = m + 1
      <4>1. i - 1 = m BY <3>7
      <4> QED BY <3>4, <3>7, <4>1, Zenon
    <3> QED BY <3>6, <3>7
  <2>4. Flattening(ss, m + 1, g)
    <3> HIDE DEF g
    <3> QED BY <2>2, <2>3 DEF Flattening
  <2> QED BY <2>2, <2>4
<1>3. T = Nat
  <2> HIDE DEF T
  <2>1. T \in SUBSET Nat BY DEF T
  <2> QED BY <1>1, <1>2, <2>1, NatInd, Zenon
<1> QED
  <2> HIDE DEF T
  <2>1. n \in T BY <1>3
  <2> QED BY <2>1 DEF T

LEMMA FlatteningUnique ==
  ASSUME NEW ss, NEW tt, NEW f, NEW g, NEW m \in Nat, NEW n \in Nat, m <= n,
         Agree(ss, tt, m), Flattening(ss, m, f), Flattening(tt, n, g)
  PROVE  Agree(f, g, m)
<1> DEFINE T == {i \in Nat : i + 1 <= m => f[i + 1] = g[i + 1]}
<1>a. \A i \in 1 .. m : f[i] = IF i = 1 THEN ss[i] ELSE f[i - 1] \o ss[i]
  BY Zenon DEF Flattening
<1>b. \A i \in 1 .. n : g[i] = IF i = 1 THEN tt[i] ELSE g[i - 1] \o tt[i]
  BY Zenon DEF Flattening
<1>1. 0 \in T
  BY <1>a, <1>b DEF Agree
<1>2. ASSUME NEW i \in T PROVE i + 1 \in T
  BY <1>a, <1>b DEF Agree
<1>3. T = Nat
  <2> HIDE DEF T
  <2>1. T \in SUBSET Nat BY DEF T
  <2> QED BY <1>1, <1>2, <2>1, NatInd, Zenon
<1> QED
  <2> SUFFICES ASSUME NEW i \in 1 .. m PROVE f[i] = g[i]
    BY DEF Agree
  <2>1. i - 1 \in Nat /\ (i - 1) + 1 = i OBVIOUS
  <2>2. i - 1 \in T BY <1>3, <2>1
  <2> QED BY <2>1, <2>2

LEMMA FlattenEmpty == FlattenSeq(<<>>) = <<>>
  BY DEF FlattenSeq

LEMMA FlattenIs ==
  ASSUME NEW S, NEW ss \in Seq(Seq(S)), Len(ss) # 0
  PROVE  \E f \in [1 .. Len(ss) -> Seq(S)] :
           Flattening(ss, Len(ss), f) /\ FlattenSeq(ss) = f[Len(ss)]
<1> DEFINE F == CHOOSE f : f = [i \in 1 .. Len(ss) |->
                                  IF i = 1 THEN ss[i] ELSE f[i - 1] \o ss[i]]
<1>1. PICK f \in [1 .. Len(ss) -> Seq(S)] : Flattening(ss, Len(ss), f)
  <2>1. Len(ss) \in 0 .. Len(ss) OBVIOUS
  <2> QED BY <2>1, FlatteningExists
<1>2. F = [i \in 1 .. Len(ss) |-> IF i = 1 THEN ss[i] ELSE F[i - 1] \o ss[i]]
  BY <1>1, Zenon DEF Flattening
<1>3. FlattenSeq(ss) = F[Len(ss)]
  BY Zenon DEF FlattenSeq
<1> HIDE DEF F
<1>4. Flattening(ss, Len(ss), F)
  BY <1>2, Zenon DEF Flattening
<1>5. \A i \in 1 .. Len(ss) : f[i] = F[i]
  BY <1>1, <1>4, FlatteningUnique DEF Agree
<1>6. F \in [1 .. Len(ss) -> Seq(S)]
  BY <1>1, <1>2, <1>5
<1> QED
  BY <1>3, <1>4, <1>6

(* Concatenation is associative, as one fact about three sequences. *)
Assoc(a, b, c) == (a \o b) \o c = a \o (b \o c)

LEMMA Associates ==
  ASSUME NEW S, NEW a \in Seq(S), NEW b \in Seq(S), NEW c \in Seq(S)
  PROVE  Assoc(a, b, c)
  BY ConcatAssociative DEF Assoc

LEMMA FlattenAppend ==
  ASSUME NEW S, NEW ss \in Seq(Seq(S)), NEW t \in Seq(S)
  PROVE  /\ FlattenSeq(ss) \in Seq(S)
         /\ FlattenSeq(Append(ss, t)) = FlattenSeq(ss) \o t
<1> DEFINE st == Append(ss, t)
           n == Len(ss)
<1>1. st \in Seq(Seq(S)) /\ Len(st) = n + 1 /\ st[n + 1] = t /\ n \in Nat
      /\ \A i \in 1 .. n : ss[i] = st[i]
  OBVIOUS
<1> HIDE DEF st
<1>2. PICK g \in [1 .. n + 1 -> Seq(S)] : Flattening(st, n + 1, g) /\ FlattenSeq(st) = g[n + 1]
  BY <1>1, FlattenIs
<1>3. CASE n = 0
  <2>1. ss = <<>> BY <1>3
  <2>2. FlattenSeq(st) = t BY <1>1, <1>2, <1>3 DEF Flattening
  <2>3. FlattenSeq(ss) = <<>> BY <2>1, FlattenEmpty
  <2>4. FlattenSeq(ss) \in Seq(S) /\ FlattenSeq(ss) \o t = t BY <2>3
  <2> QED BY <2>2, <2>4 DEF st
<1>4. CASE n # 0
  <2>1. PICK f \in [1 .. n -> Seq(S)] : Flattening(ss, n, f) /\ FlattenSeq(ss) = f[n]
    BY <1>4, FlattenIs
  <2>2. f[n] = g[n]
    <3>1. n \in 1 .. n /\ n <= n + 1 /\ n <= Len(ss) /\ n + 1 <= Len(st) BY <1>1, <1>4
    <3>2. \A i \in 1 .. n : f[i] = g[i]
      <4>1. n \in Nat /\ n + 1 \in Nat /\ n <= n + 1 BY <1>1
      <4>2. Flattening(ss, n, f) /\ Flattening(st, n + 1, g) BY <1>2, <2>1
      <4>3. Agree(ss, st, n) BY <1>1 DEF Agree
      <4> HIDE DEF n
      <4>4. Agree(f, g, n) BY <4>1, <4>2, <4>3, FlatteningUnique
      <4> QED BY <4>4 DEF Agree
    <3> QED BY <3>1, <3>2
  <2>3. g[n + 1] = g[n] \o st[n + 1]
    <3>1. \A i \in 1 .. n + 1 : g[i] = IF i = 1 THEN st[i] ELSE g[i - 1] \o st[i]
      BY <1>2, Zenon DEF Flattening
    <3>2. n + 1 \in 1 .. n + 1 /\ n + 1 # 1 /\ (n + 1) - 1 = n BY <1>1, <1>4
    <3> QED BY <3>1, <3>2, Zenon
  <2> QED BY <1>1, <1>2, <1>4, <2>1, <2>2, <2>3 DEF st
<1> QED
  BY <1>3, <1>4

LEMMA FlattenConcat ==
  ASSUME NEW S, NEW ss \in Seq(Seq(S)), NEW tt \in Seq(Seq(S))
  PROVE  FlattenSeq(ss \o tt) = FlattenSeq(ss) \o FlattenSeq(tt)
<1> DEFINE P(t) == FlattenSeq(ss \o t) = FlattenSeq(ss) \o FlattenSeq(t)
           T == {n \in Nat : \A t \in Seq(Seq(S)) : Len(t) = n => P(t)}
<1>1. 0 \in T
  <2> SUFFICES ASSUME NEW t \in Seq(Seq(S)), Len(t) = 0 PROVE P(t)
    OBVIOUS
  <2>1. t = <<>> /\ ss \o t = ss OBVIOUS
  <2>2. FlattenSeq(ss) \in Seq(S) BY FlattenAppend, EmptySeq
  <2> QED BY <2>1, <2>2, FlattenEmpty
<1>2. ASSUME NEW n \in T PROVE n + 1 \in T
  <2> SUFFICES ASSUME NEW t \in Seq(Seq(S)), Len(t) = n + 1 PROVE P(t)
    OBVIOUS
  <2>1. PICK u \in Seq(Seq(S)), x \in Seq(S) : t = Append(u, x)
    <3>1. t # <<>> OBVIOUS
    <3> QED BY <3>1, SequenceEmptyOrAppend
  <2>2. Len(u) = n BY <2>1
  <2>3. P(u) BY <2>2
  <2>4. ss \o t = Append(ss \o u, x) /\ ss \o u \in Seq(Seq(S))
    <3> DEFINE R == Seq(S)
    <3>1. ss \in Seq(R) /\ u \in Seq(R) /\ x \in R /\ <<x>> \in Seq(R)
      BY <2>1
    <3> HIDE DEF R
    <3>2. ss \o u \in Seq(R)
      BY <3>1, ConcatProperties, Zenon
    <3>3. Append(u, x) = u \o <<x>> /\ Append(ss \o u, x) = (ss \o u) \o <<x>>
      BY <3>1, <3>2, AppendIsConcat, Zenon
    <3>4. (ss \o u) \o <<x>> = ss \o (u \o <<x>>)
      <4>1. Assoc(ss, u, <<x>>)
        BY <3>1, Associates
      <4> QED BY <4>1, Zenon DEF Assoc
    <3>5. ss \o t = Append(ss \o u, x)
      BY <2>1, <3>3, <3>4, Zenon
    <3> QED BY <3>2, <3>5, Zenon DEF R
  <2>5. FlattenSeq(ss \o t) = FlattenSeq(ss \o u) \o x
    BY <2>4, FlattenAppend
  <2>6. FlattenSeq(t) = FlattenSeq(u) \o x
    BY <2>1, FlattenAppend
  <2>7. FlattenSeq(ss) \in Seq(S) /\ FlattenSeq(u) \in Seq(S)
    BY FlattenAppend, EmptySeq
  <2>8. (FlattenSeq(ss) \o FlattenSeq(u)) \o x = FlattenSeq(ss) \o (FlattenSeq(u) \o x)
    <3> DEFINE a == FlattenSeq(ss)
               b == FlattenSeq(u)
    <3>1. a \in Seq(S) /\ b \in Seq(S) /\ x \in Seq(S)
      BY <2>1, <2>7
    <3> HIDE DEF a, b
    <3>2. (a \o b) \o x = a \o (b \o x)
      <4>1. Assoc(a, b, x)
        BY <3>1, Associates
      <4> QED BY <4>1, Zenon DEF Assoc
    <3> QED BY <3>2 DEF a, b
  <2> QED BY <2>3, <2>5, <2>6, <2>8, Zenon
<1>3. T = Nat
  <2> HIDE DEF T
  <2>1. T \in SUBSET Nat BY DEF T
  <2> QED BY <1>1, <1>2, <2>1, NatInd, Zenon
<1>4. Len(tt) \in Nat
  OBVIOUS
<1>5. P(tt)
  <2> HIDE DEF P
  <2> QED BY <1>3, <1>4
<1> QED
  BY <1>5, Zenon DEF P

-----------------------------------------------------------------------------
(* The first newline of a text, and the newline that the pipeline adds.    *)

LEMMA NewlineAtFirst ==
  ASSUME NEW text \in Text
  PROVE  /\ ~ HasLine(text) => NewlineAt(text) = 0
         /\ HasLine(text) =>
              /\ NewlineAt(text) \in 1 .. Len(text)
              /\ IsNewline(text[NewlineAt(text)])
              /\ \A m \in 1 .. NewlineAt(text) - 1 : ~ IsNewline(text[m])
<1> DEFINE I == {i \in 1 .. Len(text) : IsNewline(text[i])}
<1>1. DOMAIN text = 1 .. Len(text) /\ I \in SUBSET Nat
  BY DEF Text
<1>2. HasLine(text) <=> I # {}
  BY <1>1, Zenon DEF HasLine
<1>3. NewlineAt(text) = IF I # {} THEN CHOOSE x \in I : \A y \in I : x =< y ELSE 0
  BY Zenon DEF NewlineAt, SelectInSeq, Min
<1>4. CASE I # {}
  <2> HIDE DEF I
  <2>1. \E x \in I : \A y \in I : x <= y
    BY <1>1, <1>4, NatMin, Zenon
  <2>2. NewlineAt(text) \in I /\ \A y \in I : NewlineAt(text) <= y
    BY <1>3, <1>4, <2>1, Zenon
  <2>3. ASSUME NEW m \in 1 .. NewlineAt(text) - 1 PROVE m \notin I
    <3>1. NewlineAt(text) \in Nat
      BY <1>1, <2>2, Zenon
    <3>2. m < NewlineAt(text)
      BY <3>1
    <3>3. ~ (NewlineAt(text) <= m)
      BY <3>1, <3>2
    <3> QED BY <2>2, <3>3, Zenon
  <2>4. \A m \in 1 .. NewlineAt(text) - 1 : m \in 1 .. Len(text)
    BY <1>1, <2>2, LenProperties DEF Text, I
  <2> QED BY <1>2, <1>4, <2>2, <2>3, <2>4, Zenon DEF I
<1> QED
  BY <1>2, <1>3, <1>4, Zenon

-----------------------------------------------------------------------------
(* The inductive invariant, stream by stream.                              *)

(* Who is where: what an agent's label tells of its queues. *)
PlaceInv(s) ==
  /\ at[s] = "new" <=> writer[s] = "new"
  /\ at[s] = "new" => batch[s] = <<>> /\ buffer[s] = <<>>
  /\ at[s] # "send" => line[s] = <<>>
  /\ at[s] \in {"new", "loop"} => ~ended[s]
  /\ at[s] = "loop" => Len(batch[s]) < BatchSize
  /\ at[s] \in {"new", "loop", "tail", "closing", "done"} => collected[s] = <<>>
  /\ at[s] \in {"tail", "closing", "done"} => ended[s] /\ batch[s] = <<>>
  /\ at[s] \in {"closing", "done"} => buffer[s] = <<>>
  /\ at[s] = "done" => writer[s] \in {"none", "done", "failed"}
  /\ ended[s] => s \notin open /\ pipe[s] = <<>> /\ chunks[s] = <<>>

WriterPlaceInv(s) ==
  /\ writer[s] \in {"new", "none", "failed"} => entries[s] = <<>>
  /\ writer[s] \in {"new", "none", "opening", "failed"} => wbatch[s] = <<>> /\ inflight[s] = <<>>
  /\ writer[s] = "running" => Len(wbatch[s]) < WriteBatch
  /\ writer[s] \in {"closing", "done"} => at[s] \in {"closing", "done"} /\ entries[s] = <<>>
  /\ writer[s] = "done" => wbatch[s] = <<>> /\ inflight[s] = <<>> /\ s \notin failing
  /\ s \in failing => writer[s] \in {"running", "flush", "closing", "failed"} /\ inflight[s] = <<>>
  /\ writer[s] = "failed" => s \in failing

(* The line buffer holds no more than one partial line while the processor is
   not at it, or that line with the newline that makes it whole. *)
Partial(text) == ~HasLine(text) /\ Len(text) <= MaxLine
Mended(text) == Len(text) > 1 /\ Last(text) = 0 /\ Partial(Front(text))
NoZero(text) == text \in Bytes

BufferInv(s) ==
  /\ \A n \in DOMAIN chunks[s] : Len(chunks[s][n]) <= ChunkSize
  /\ \A n \in DOMAIN batch[s] : Len(batch[s][n]) <= ChunkSize
  /\ at[s] \in {"loop", "tail"} => Partial(buffer[s])
  /\ at[s] = "batch" =>
       \/ Partial(buffer[s])
       \/ Mended(buffer[s]) /\ ended[s] /\ batch[s] = <<(<<>>)>>
  /\ at[s] = "lines" =>
       \/ NoZero(buffer[s])
       \/ Mended(buffer[s]) /\ ended[s] /\ batch[s] = <<>>
  /\ at[s] = "send" => NoZero(buffer[s])

(* Nothing of a stream is lost or reordered before it is published ... *)
Waiting(s)  == FlattenSeq(chunks[s]) \o pipe[s]
Batched(s)  == FlattenSeq(batch[s]) \o Waiting(s)
Buffered(s) == Unmended(buffer[s]) \o Batched(s)
Held(s)     == Unmended(line[s]) \o Buffered(s)
Handed(s)   == Own(published[s] \o collected[s])

ProcessorKeeps(s) == emitted[s] = Handed(s) \o Held(s)

(* ... or, while its writer works, before it is in the file. *)
Queued(s)  == Own(wbatch[s]) \o Own(entries[s])
Flying(s)  == Own(TextsOf(s, inflight[s])) \o Queued(s)

FromOwn(s) == \A n \in DOMAIN inflight[s] : inflight[s][n].from = s
WriterKeeps(s) == s \notin Lossy => Handed(s) = Stored[s] \o Flying(s)

(* What is handed on are whole lines; the last of them may be one that
   the end of the stream cut off. *)
Whole(text) ==
  /\ text # <<>> /\ text # <<0>>
  /\ IsNewline(Last(text)) /\ ~HasLine(Front(text))
Cut(text) == Last(text) = 0 /\ Len(text) <= MaxLine + 1

AllWhole(texts) == \A n \in DOMAIN texts : Whole(texts[n])
WholeInv(s) ==
  /\ at[s] = "send" => Whole(line[s])
  /\ AllWhole(entries[s]) /\ AllWhole(wbatch[s])
  /\ \A n \in DOMAIN inflight[s] : inflight[s][n].text = <<0>> \/ Whole(inflight[s][n].text)

FileWhole ==
  \A n \in DOMAIN file : file[n].from \in Streams =>
    file[n].text = <<0>> \/ Whole(file[n].text)

Quiet(s) == ended[s] /\ buffer[s] = <<>> /\ batch[s] = <<>>
CutRecord(s, r) == r.from = s /\ r.text # <<0>> /\ Cut(r.text)

LineCut(s) == at[s] = "send" /\ Cut(line[s]) => Quiet(s)
EntriesCut(s) ==
  \A n \in DOMAIN entries[s] : Cut(entries[s][n]) =>
    Quiet(s) /\ n = Len(entries[s]) /\ line[s] = <<>>
WbatchCut(s) ==
  \A n \in DOMAIN wbatch[s] : Cut(wbatch[s][n]) =>
    Quiet(s) /\ n = Len(wbatch[s]) /\ line[s] = <<>> /\ entries[s] = <<>>
InflightCut(s) ==
  \A n \in DOMAIN inflight[s] : CutRecord(s, inflight[s][n]) =>
    Quiet(s) /\ n = Len(inflight[s]) /\ line[s] = <<>> /\ entries[s] = <<>> /\ wbatch[s] = <<>>
FileCut(s) ==
  \A n \in DOMAIN file : CutRecord(s, file[n]) =>
    /\ Quiet(s) /\ line[s] = <<>> /\ entries[s] = <<>> /\ wbatch[s] = <<>>
    /\ \A m \in DOMAIN inflight[s] : inflight[s][m].text = <<0>>
    /\ \A m \in n + 1 .. Len(file) : file[m].from = s => file[m].text = <<0>>

CutInv(s) == LineCut(s) /\ EntriesCut(s) /\ WbatchCut(s) /\ InflightCut(s) /\ FileCut(s)

Torn == file # <<>> /\ ~EndsLine(Last(file).text)

TornInv ==
  /\ \A n \in 1 .. Len(file) - 1 : EndsLine(file[n].text) \/ file[n + 1].text = <<0>>
  /\ Torn => \A s \in Streams :
       writer[s] \in {"running", "flush", "closing", "done"} /\ s \notin failing =>
         inflight[s] = <<AddedNewline(s)>>

StreamInv(s) ==
  /\ PlaceInv(s) /\ WriterPlaceInv(s) /\ BufferInv(s) /\ FromOwn(s)
  /\ ProcessorKeeps(s) /\ WriterKeeps(s) /\ WholeInv(s) /\ CutInv(s)

Inv == TypeOK /\ FileWhole /\ TornInv /\ \A s \in Streams : StreamInv(s)

-----------------------------------------------------------------------------
(* Types.                                                                  *)

StepOf(s) ==
  Write(s) \/ Close(s) \/ ReadChunk(s) \/ Processor(s) \/ Writer(s) \/ Disk(s) \/ OpenFails(s)

LEMMA NewlineAtType ==
  ASSUME NEW text \in Text, HasLine(text)
  PROVE  NewlineAt(text) \in 1 .. Len(text)
  BY NewlineAtFirst

LEMMA BatchesAreFiles == Batches \subseteq Files
<1> DEFINE R == [from : Streams, text : Text]
           Q == [from : Streams \cup {Earlier}, text : Text]
<1>1. R \subseteq Q
  OBVIOUS
<1>2. ASSUME NEW b \in Seq(R) PROVE b \in Seq(Q)
  <2> HIDE DEF R, Q
  <2> QED BY <1>1, SeqMonotonic
<1> QED
  BY <1>2 DEF Batches, Files

(* A chunk cut from the pipe leaves chunks and bytes behind. *)
LEMMA ChunkTypes ==
  ASSUME NEW cs \in Chunks, NEW p \in Bytes
  PROVE  \A n \in 1 .. Len(p) :
           /\ Append(cs, SubSeq(p, 1, n)) \in Chunks
           /\ SubSeq(p, n + 1, Len(p)) \in Bytes
<1> SUFFICES ASSUME NEW n \in 1 .. Len(p)
             PROVE  /\ Append(cs, SubSeq(p, 1, n)) \in Chunks
                    /\ SubSeq(p, n + 1, Len(p)) \in Bytes
  OBVIOUS
<1> DEFINE c == SubSeq(p, 1, n)
<1>1. c \in Bytes
  <2> HIDE DEF Byte
  <2> QED BY DEF Bytes
<1>2. SubSeq(p, n + 1, Len(p)) \in Bytes
  <2> HIDE DEF Byte
  <2> QED BY DEF Bytes
<1> HIDE DEF c
<1>3. Append(cs, c) \in Chunks
  BY <1>1, AppendProperties, Zenon DEF Chunks
<1> QED
  BY <1>2, <1>3 DEF c

(* Both pieces of a text that is cut are texts. *)
LEMMA TextPieces ==
  ASSUME NEW a \in Text, NEW n \in 1 .. Len(a)
  PROVE  SubSeq(a, 1, n) \in Text /\ SubSeq(a, n + 1, Len(a)) \in Text
<1>1. SubSeq(a, 1, n) \in Text
  BY DEF Text
<1>2. SubSeq(a, n + 1, Len(a)) \in Text
  BY DEF Text
<1> QED
  BY <1>1, <1>2

(* The first chunk taken off leaves chunks, and lengthens a text to a text. *)
LEMMA HeadTypes ==
  ASSUME NEW cs \in Chunks, cs # <<>>, NEW t \in Text
  PROVE  Head(cs) \in Bytes /\ Tail(cs) \in Chunks /\ t \o Head(cs) \in Text
<1>1. Head(cs) \in Bytes /\ Tail(cs) \in Chunks
  <2> HIDE DEF Byte
  <2> QED BY DEF Chunks, Bytes
<1>2. Head(cs) \in Text
  <2>1. Byte \subseteq Int
    BY DEF Byte
  <2> QED BY <1>1, <2>1, SeqMonotonic DEF Bytes, Text
<1>3. t \o Head(cs) \in Text
  BY <1>2, ConcatProperties, Zenon DEF Text
<1> QED
  BY <1>1, <1>3

LEMMA StepTypes ==
  ASSUME Types, NEW s \in Streams, StepOf(s)
  PROVE  Types'
<1> USE PipelineAssumption DEF Types, childVars, procVars, writerVars, To
<1>1. CASE Write(s)
  <2>1. ASSUME NEW b \in {Len(emitted[s]) + 1, -(Len(emitted[s]) + 1)}
      PROVE  Append(emitted[s], b) \in Bytes /\ Append(pipe[s], b) \in Bytes
    BY DEF Byte, Bytes
  <2> QED BY <1>1, <2>1 DEF Write, ProcessorLabels, WriterLabels
<1>2. CASE Close(s)
  BY <1>2 DEF Close, ProcessorLabels, WriterLabels
<1>3. CASE ReadChunk(s)
  <2>1. \A n \in 1 .. Len(pipe[s]) :
        /\ Append(chunks[s], SubSeq(pipe[s], 1, n)) \in Chunks
        /\ SubSeq(pipe[s], n + 1, Len(pipe[s])) \in Bytes
    BY ChunkTypes
  <2> QED BY <1>3, <2>1 DEF ReadChunk, ProcessorLabels, WriterLabels
<1>4. CASE CreateWriter(s)
  BY <1>4 DEF CreateWriter, ProcessorLabels, WriterLabels
<1>5. CASE Receive(s)
  <2>1. Append(batch[s], Head(chunks[s])) \in Chunks /\ Tail(chunks[s]) \in Chunks
    BY <1>5 DEF Receive, Bytes, Chunks
  <2> QED BY <1>5, <2>1 DEF Receive, ProcessorLabels, WriterLabels
<1>6. CASE BatchTimeout(s)
  BY <1>6 DEF BatchTimeout, ProcessorLabels, WriterLabels
<1>7. CASE StreamEnds(s)
  BY <1>7 DEF StreamEnds, ProcessorLabels, WriterLabels
<1>8. CASE TakeChunk(s)
  <2>1. buffer[s] \o Head(batch[s]) \in Text /\ Tail(batch[s]) \in Chunks
    BY <1>8, HeadTypes DEF TakeChunk
  <2> QED BY <1>8, <2>1 DEF TakeChunk, ProcessorLabels, WriterLabels
<1>9. CASE ExtractLine(s)
  <2>1. NewlineAt(buffer[s]) \in 1 .. Len(buffer[s])
    BY <1>9, NewlineAtType DEF ExtractLine
  <2>2. /\ SubSeq(buffer[s], 1, NewlineAt(buffer[s])) \in Text
      /\ SubSeq(buffer[s], NewlineAt(buffer[s]) + 1, Len(buffer[s])) \in Text
    <3> DEFINE n == NewlineAt(buffer[s])
    <3>1. n \in 1 .. Len(buffer[s]) /\ buffer[s] \in Text
      BY <2>1
    <3> HIDE DEF n
    <3> QED BY <3>1, TextPieces DEF n
  <2> QED BY <1>9, <2>1, <2>2 DEF ExtractLine, ProcessorLabels, WriterLabels
<1>10. CASE ForceLine(s)
  <2>1. Append(buffer[s], 0) \in Text /\ <<>> \in Text
    BY DEF Text, Texts, Bytes, Chunks
  <2> QED BY <1>10, <2>1 DEF ForceLine, ProcessorLabels, WriterLabels
<1>11. CASE NextChunk(s)
  BY <1>11 DEF NextChunk, ProcessorLabels, WriterLabels
<1>12. CASE SendLine(s)
  <2>1. Append(entries[s], line[s]) \in Texts /\ Append(collected[s], line[s]) \in Texts /\ <<>> \in Text
    BY DEF Text, Texts, Bytes, Chunks
  <2> QED BY <1>12, <2>1 DEF SendLine, ProcessorLabels, WriterLabels
<1>13. CASE Publish(s)
  <2>1. published[s] \o collected[s] \in Texts /\ <<>> \in Texts
    BY DEF Bytes, Chunks, Texts, Batches, Files
  <2> QED BY <1>13, <2>1 DEF Publish, ProcessorLabels, WriterLabels
<1>14. CASE FinalLine(s)
  <2>1. Append(buffer[s], 0) \in Text /\ <<(<<>>)>> \in Chunks
    BY DEF Text, Texts, Bytes, Chunks
  <2> QED BY <1>14, <2>1 DEF FinalLine, ProcessorLabels, WriterLabels
<1>15. CASE HangUp(s)
  BY <1>15 DEF HangUp, ProcessorLabels, WriterLabels
<1>16. CASE WriterJoined(s)
  BY <1>16 DEF WriterJoined, ProcessorLabels, WriterLabels
<1>17. CASE OpenLog(s)
  <2>1. <<AddedNewline(s)>> \in Batches /\ <<>> \in Batches
    BY DEF AddedNewline, Record, Text, Batches
  <2> QED BY <1>17, <2>1 DEF OpenLog, ProcessorLabels, WriterLabels
<1>18. CASE Gather(s)
  <2>1. Append(wbatch[s], Head(entries[s])) \in Texts /\ Tail(entries[s]) \in Texts
    BY <1>18 DEF Gather, Texts
  <2> QED BY <1>18, <2>1 DEF Gather, ProcessorLabels, WriterLabels
<1>19. CASE WriteTimer(s)
  BY <1>19 DEF WriteTimer, ProcessorLabels, WriterLabels
<1>20. CASE ChannelClosed(s)
  BY <1>20 DEF ChannelClosed, ProcessorLabels, WriterLabels
<1>21. CASE FlushBatch(s)
  <2>1. Len(wbatch[s]) \in Nat /\ DOMAIN wbatch[s] = 1 .. Len(wbatch[s])
    BY DEF Texts
  <2>2. \A n \in 1 .. Len(wbatch[s]) : Record(s, wbatch[s][n]) \in [from : Streams, text : Text]
    BY DEF Record, Texts
  <2>3. [n \in DOMAIN wbatch[s] |-> Record(s, wbatch[s][n])] \in Batches
    BY <2>1, <2>2, IsASeq DEF Batches
  <2>4. <<>> \in Texts
    BY DEF Texts
  <2> QED BY <1>21, <2>1, <2>2, <2>3, <2>4 DEF FlushBatch, ProcessorLabels, WriterLabels
<1>22. CASE FinalFlush(s)
  BY <1>22 DEF FinalFlush, ProcessorLabels, WriterLabels
<1>23. CASE FlushFails(s)
  <2>1. <<>> \in Texts
    BY DEF Texts
  <2> QED BY <1>23, <2>1 DEF FlushFails, Fail, ProcessorLabels, WriterLabels
<1>24. CASE AppendBatch(s)
  <2>1. inflight[s] \in Files
    BY BatchesAreFiles
  <2>2. file \o inflight[s] \in Files
    BY <2>1, ConcatProperties DEF Files
  <2>3. <<>> \in Batches
    BY DEF Batches
  <2> QED BY <1>24, <2>1, <2>2, <2>3 DEF AppendBatch, ProcessorLabels, WriterLabels
<1>25. CASE AppendFails(s)
  <2>1. <<>> \in Batches
    BY DEF Batches
  <2> QED BY <1>25, <2>1 DEF AppendFails, ProcessorLabels, WriterLabels
<1>26. CASE OpenFails(s)
  <2>1. <<>> \in Texts
    BY DEF Texts
  <2> QED BY <1>26, <2>1 DEF OpenFails, Fail, ProcessorLabels, WriterLabels
<1> HIDE DEF Types
<1> QED
  BY <1>1, <1>2, <1>3, <1>4, <1>5, <1>6, <1>7, <1>8, <1>9, <1>10, <1>11, <1>12, <1>13, <1>14, <1>15, <1>16, <1>17, <1>18, <1>19, <1>20, <1>21, <1>22, <1>23, <1>24, <1>25, <1>26 DEF StepOf, Processor, Writer, Disk

-----------------------------------------------------------------------------
(* A step of one stream leaves the others alone, but for the file.         *)

Untouched(u) ==
  /\ u \in open' <=> u \in open
  /\ u \in failing' <=> u \in failing
  /\ emitted'[u] = emitted[u] /\ pipe'[u] = pipe[u] /\ chunks'[u] = chunks[u]
  /\ batch'[u] = batch[u] /\ buffer'[u] = buffer[u] /\ line'[u] = line[u]
  /\ collected'[u] = collected[u] /\ ended'[u] = ended[u] /\ at'[u] = at[u]
  /\ entries'[u] = entries[u] /\ wbatch'[u] = wbatch[u] /\ inflight'[u] = inflight[u]
  /\ writer'[u] = writer[u] /\ published'[u] = published[u]

LEMMA StepElsewhere ==
  ASSUME Types, NEW s \in Streams, NEW u \in Streams, u # s, StepOf(s)
  PROVE  Untouched(u)
<1> USE DEF Types, childVars, procVars, writerVars, To, Untouched
<1>1. CASE Write(s)
  BY <1>1 DEF Write
<1>2. CASE Close(s)
  BY <1>2 DEF Close
<1>3. CASE ReadChunk(s)
  BY <1>3 DEF ReadChunk
<1>4. CASE CreateWriter(s)
  BY <1>4 DEF CreateWriter
<1>5. CASE Receive(s)
  BY <1>5 DEF Receive
<1>6. CASE BatchTimeout(s)
  BY <1>6 DEF BatchTimeout
<1>7. CASE StreamEnds(s)
  BY <1>7 DEF StreamEnds
<1>8. CASE TakeChunk(s)
  BY <1>8 DEF TakeChunk
<1>9. CASE ExtractLine(s)
  BY <1>9 DEF ExtractLine
<1>10. CASE ForceLine(s)
  BY <1>10 DEF ForceLine
<1>11. CASE NextChunk(s)
  BY <1>11 DEF NextChunk
<1>12. CASE SendLine(s)
  BY <1>12 DEF SendLine
<1>13. CASE Publish(s)
  BY <1>13 DEF Publish
<1>14. CASE FinalLine(s)
  BY <1>14 DEF FinalLine
<1>15. CASE HangUp(s)
  BY <1>15 DEF HangUp
<1>16. CASE WriterJoined(s)
  BY <1>16 DEF WriterJoined
<1>17. CASE OpenLog(s)
  BY <1>17 DEF OpenLog
<1>18. CASE Gather(s)
  BY <1>18 DEF Gather
<1>19. CASE WriteTimer(s)
  BY <1>19 DEF WriteTimer
<1>20. CASE ChannelClosed(s)
  BY <1>20 DEF ChannelClosed
<1>21. CASE FlushBatch(s)
  BY <1>21 DEF FlushBatch
<1>22. CASE FinalFlush(s)
  BY <1>22 DEF FinalFlush
<1>23. CASE FlushFails(s)
  BY <1>23 DEF FlushFails, Fail
<1>24. CASE AppendBatch(s)
  BY <1>24 DEF AppendBatch
<1>25. CASE AppendFails(s)
  BY <1>25 DEF AppendFails
<1>26. CASE OpenFails(s)
  BY <1>26 DEF OpenFails, Fail
<1> QED
  BY <1>1, <1>2, <1>3, <1>4, <1>5, <1>6, <1>7, <1>8, <1>9, <1>10, <1>11, <1>12, <1>13, <1>14, <1>15, <1>16, <1>17, <1>18, <1>19, <1>20, <1>21, <1>22, <1>23, <1>24, <1>25, <1>26 DEF StepOf, Processor, Writer, Disk

-----------------------------------------------------------------------------
(* Who is where.                                                           *)

LEMMA Sizes ==
  /\ ChunkSize \in Nat /\ ChunkSize > 0 /\ BatchSize \in Nat /\ BatchSize > 0
  /\ WriteBatch \in Nat /\ WriteBatch > 0 /\ WriterCap \in Nat /\ ChunkCap \in Nat
  /\ MaxLine \in Nat
<1>1. ChunkSize \in Nat \ {0} /\ ChunkCap \in Nat \ {0} /\ BatchSize \in Nat \ {0}
      /\ WriterCap \in Nat \ {0} /\ WriteBatch \in Nat \ {0} /\ MaxLine \in Nat
  BY PipelineAssumption, Zenon
<1> QED
  BY <1>1

LEMMA StepPlaces ==
  ASSUME Types, NEW s \in Streams, PlaceInv(s), WriterPlaceInv(s), StepOf(s)
  PROVE  PlaceInv(s)' /\ WriterPlaceInv(s)'
<1> USE Sizes DEF Types, childVars, procVars, writerVars, To, PlaceInv, WriterPlaceInv
<1>1. CASE Write(s)
  BY <1>1 DEF Write
<1>2. CASE Close(s)
  BY <1>2 DEF Close
<1>3. CASE ReadChunk(s)
  BY <1>3 DEF ReadChunk
<1>4. CASE CreateWriter(s)
  BY <1>4 DEF CreateWriter
<1>5. CASE Receive(s)
  BY <1>5 DEF Receive
<1>6. CASE BatchTimeout(s)
  BY <1>6 DEF BatchTimeout
<1>7. CASE StreamEnds(s)
  BY <1>7 DEF StreamEnds
<1>8. CASE TakeChunk(s)
  BY <1>8 DEF TakeChunk
<1>9. CASE ExtractLine(s)
  BY <1>9 DEF ExtractLine
<1>10. CASE ForceLine(s)
  BY <1>10 DEF ForceLine
<1>11. CASE NextChunk(s)
  BY <1>11 DEF NextChunk
<1>12. CASE SendLine(s)
  BY <1>12 DEF SendLine, Receiving
<1>13. CASE Publish(s)
  BY <1>13 DEF Publish
<1>14. CASE FinalLine(s)
  BY <1>14 DEF FinalLine
<1>15. CASE HangUp(s)
  BY <1>15 DEF HangUp
<1>16. CASE WriterJoined(s)
  BY <1>16 DEF WriterJoined
<1>17. CASE OpenLog(s)
  BY <1>17 DEF OpenLog
<1>18. CASE Gather(s)
  BY <1>18 DEF Gather
<1>19. CASE WriteTimer(s)
  BY <1>19 DEF WriteTimer
<1>20. CASE ChannelClosed(s)
  BY <1>20 DEF ChannelClosed
<1>21. CASE FlushBatch(s)
  BY <1>21 DEF FlushBatch
<1>22. CASE FinalFlush(s)
  BY <1>22 DEF FinalFlush
<1>23. CASE FlushFails(s)
  BY <1>23 DEF FlushFails, Fail
<1>24. CASE AppendBatch(s)
  BY <1>24 DEF AppendBatch
<1>25. CASE AppendFails(s)
  BY <1>25 DEF AppendFails, WriterLabels
<1>26. CASE OpenFails(s)
  BY <1>26 DEF OpenFails, Fail
<1> QED
  BY <1>1, <1>2, <1>3, <1>4, <1>5, <1>6, <1>7, <1>8, <1>9, <1>10, <1>11, <1>12, <1>13, <1>14, <1>15, <1>16, <1>17, <1>18, <1>19, <1>20, <1>21, <1>22, <1>23, <1>24, <1>25, <1>26 DEF StepOf, Processor, Writer, Disk

-----------------------------------------------------------------------------
(* What the line buffer holds.                                             *)

LEMMA NoLineIsBytes ==
  ASSUME NEW text \in Text, ~ HasLine(text)
  PROVE  NoZero(text)
<1>1. \A n \in 1 .. Len(text) : text[n] \in Byte
  BY DEF HasLine, IsNewline, Byte, Text
<1>2. text = [n \in 1 .. Len(text) |-> text[n]]
  BY DEF Text
<1> QED
  BY <1>1, <1>2, IsASeq, LenProperties DEF NoZero, Bytes, Text

LEMMA BytesAreText == Bytes \subseteq Text
  BY SeqMonotonic DEF Bytes, Text, Byte

LEMMA NoLineInNothing == <<>> \in Bytes /\ <<>> \in Text /\ Partial(<<>>)
  BY Sizes DEF Bytes, Text, Partial, HasLine

LEMMA PartialIsMended ==
  ASSUME NEW text \in Text, Partial(text), text # <<>>
  PROVE  Mended(Append(text, 0)) /\ Len(Append(text, 0)) <= MaxLine + 1
<1>1. Front(Append(text, 0)) = text
  BY DEF Front, Text
<1>2. Len(Append(text, 0)) = Len(text) + 1 /\ Len(text) \in Nat /\ Append(text, 0)[Len(text) + 1] = 0
  BY DEF Text
<1>3. Len(text) > 0
  BY <1>2, EmptySeq DEF Text
<1> QED
  BY <1>1, <1>2, <1>3, Sizes DEF Mended, Partial, Last

LEMMA MendedLine ==
  ASSUME NEW text \in Text, Mended(text)
  PROVE  /\ HasLine(text) /\ NewlineAt(text) = Len(text) /\ Len(text) <= MaxLine + 1
         /\ SubSeq(text, NewlineAt(text) + 1, Len(text)) = <<>>
<1>1. Len(text) \in Nat \ {0} /\ DOMAIN text = 1 .. Len(text) /\ text[Len(text)] = 0
  BY DEF Mended, Text, Last
<1>2. HasLine(text)
  BY <1>1 DEF HasLine, IsNewline
<1>3. Front(text) \in Text /\ Len(Front(text)) = Len(text) - 1
      /\ \A n \in 1 .. Len(text) - 1 : Front(text)[n] = text[n]
  BY <1>1 DEF Front, Text
<1>4. \A n \in 1 .. Len(text) - 1 : ~ IsNewline(text[n])
  <2> DEFINE f == Front(text)
  <2>1. \A n \in DOMAIN f : ~ IsNewline(f[n])
    BY DEF Mended, Partial, HasLine
  <2>2. DOMAIN f = 1 .. Len(text) - 1
    BY <1>3 DEF Text
  <2> HIDE DEF f
  <2> QED BY <1>3, <2>1, <2>2, Zenon DEF f
<1>5. NewlineAt(text) = Len(text)
  BY <1>1, <1>2, <1>4, NewlineAtFirst
<1>6. Len(text) <= MaxLine + 1
  BY <1>1, <1>3, Sizes DEF Mended, Partial
<1> QED
  BY <1>1, <1>2, <1>5, <1>6 DEF Text

LEMMA BytesConcat ==
  ASSUME NEW a \in Bytes, NEW b \in Bytes
  PROVE  a \o b \in Bytes
  BY ConcatProperties DEF Bytes

LEMMA BytesFrom ==
  ASSUME NEW a \in Bytes, NEW n \in 0 .. Len(a)
  PROVE  SubSeq(a, 1, n) \in Bytes /\ SubSeq(a, n + 1, Len(a)) \in Bytes
  BY DEF Bytes

LEMMA ChunkAdded ==
  ASSUME NEW cs \in Chunks, NEW c \in Bytes, Len(c) <= ChunkSize,
         \A m \in DOMAIN cs : Len(cs[m]) <= ChunkSize
  PROVE  /\ Len(Append(cs, c)) = Len(cs) + 1
         /\ \A m \in DOMAIN Append(cs, c) : Len(Append(cs, c)[m]) <= ChunkSize
<1>1. /\ Len(Append(cs, c)) = Len(cs) + 1 /\ Len(cs) \in Nat /\ DOMAIN cs = 1 .. Len(cs)
      /\ DOMAIN Append(cs, c) = 1 .. Len(cs) + 1 /\ Append(cs, c)[Len(cs) + 1] = c
      /\ \A m \in 1 .. Len(cs) : Append(cs, c)[m] = cs[m]
  BY DEF Chunks
<1>2. ASSUME NEW m \in DOMAIN Append(cs, c) PROVE Len(Append(cs, c)[m]) <= ChunkSize
  <2>1. m \in 1 .. Len(cs) \/ m = Len(cs) + 1
    BY <1>1
  <2> QED BY <1>1, <2>1
<1> QED
  BY <1>1, <1>2

LEMMA FirstChunk ==
  ASSUME NEW cs \in Chunks, cs # <<>>, \A m \in DOMAIN cs : Len(cs[m]) <= ChunkSize
  PROVE  /\ Head(cs) \in Bytes /\ Len(Head(cs)) <= ChunkSize
         /\ Len(Tail(cs)) = Len(cs) - 1 /\ Len(cs) \in Nat \ {0}
         /\ \A m \in DOMAIN Tail(cs) : Len(Tail(cs)[m]) <= ChunkSize
<1>1. Len(cs) \in Nat \ {0} /\ DOMAIN cs = 1 .. Len(cs) /\ Head(cs) = cs[1]
  BY DEF Chunks
<1>2. /\ Len(Tail(cs)) = Len(cs) - 1 /\ DOMAIN Tail(cs) = 1 .. Len(cs) - 1
      /\ \A m \in 1 .. Len(cs) - 1 : Tail(cs)[m] = cs[m + 1]
  BY <1>1 DEF Chunks
<1>3. ASSUME NEW m \in DOMAIN Tail(cs) PROVE Len(Tail(cs)[m]) <= ChunkSize
  <2>1. m \in 1 .. Len(cs) - 1 /\ m + 1 \in DOMAIN cs
    BY <1>1, <1>2
  <2> QED BY <1>2, <2>1
<1>4. cs[1] \in Bytes /\ Len(cs[1]) <= ChunkSize
  BY <1>1 DEF Chunks
<1> QED
  BY <1>1, <1>2, <1>3, <1>4

(* How long a buffer is when a chunk was added to it, and when a line was cut. *)
LEMMA JoinedLength ==
  ASSUME NEW a \in Text, NEW b \in Bytes
  PROVE  Len(a \o b) = Len(a) + Len(b) /\ Len(a) \in Nat /\ Len(b) \in Nat
<1>1. b \in Text
  BY BytesAreText
<1> QED
  BY <1>1 DEF Text

LEMMA CutLength ==
  ASSUME NEW a \in Text, NEW n \in 1 .. Len(a)
  PROVE  Len(SubSeq(a, n + 1, Len(a))) = Len(a) - n /\ Len(a) \in Nat
  BY DEF Text

LEMMA StepBuffer ==
  ASSUME Types, NEW s \in Streams, PlaceInv(s), WriterPlaceInv(s), BufferInv(s),
         WithinBounds(s), StepOf(s)
  PROVE  BufferInv(s)' /\ WithinBounds(s)'
<1> USE Sizes DEF Types, childVars, procVars, writerVars, To, PlaceInv, BufferInv, WithinBounds
<1>1. CASE Write(s)
  BY <1>1 DEF Write
<1>2. CASE Close(s)
  BY <1>2 DEF Close
<1>3. CASE ReadChunk(s)
  <2>1. PICK n \in 1 .. Len(pipe[s]) :
         /\ n <= ChunkSize
         /\ chunks'[s] = Append(chunks[s], SubSeq(pipe[s], 1, n))
    BY <1>3 DEF ReadChunk
  <2> DEFINE c == SubSeq(pipe[s], 1, n)
  <2>2. Len(c) = n /\ c \in Bytes
    BY DEF Bytes
  <2> HIDE DEF c
  <2>3. /\ Len(chunks'[s]) = Len(chunks[s]) + 1
        /\ \A m \in DOMAIN chunks'[s] : Len(chunks'[s][m]) <= ChunkSize
    <3>1. chunks'[s] = Append(chunks[s], c) /\ chunks[s] \in Chunks /\ Len(c) <= ChunkSize
          /\ \A m \in DOMAIN chunks[s] : Len(chunks[s][m]) <= ChunkSize
      BY <2>1, <2>2 DEF c
    <3>2. /\ Len(Append(chunks[s], c)) = Len(chunks[s]) + 1
          /\ \A m \in DOMAIN Append(chunks[s], c) : Len(Append(chunks[s], c)[m]) <= ChunkSize
      BY <2>2, <3>1, ChunkAdded
    <3> QED BY <3>1, <3>2, Zenon
  <2>4. /\ Len(chunks[s]) <= ChunkCap /\ batch' = batch /\ buffer' = buffer /\ at' = at
        /\ ended' = ended /\ entries' = entries /\ wbatch' = wbatch
    BY <1>3 DEF ReadChunk
  <2>5. Len(chunks'[s]) <= ChunkCap + 1
    <3>1. Len(chunks[s]) \in Nat
      BY DEF Chunks
    <3> QED BY <2>3, <2>4, <3>1
  <2>6. BufferInv(s)'
    BY <2>3, <2>4
  <2>7. WithinBounds(s)'
    BY <2>4, <2>5
  <2> QED BY <2>6, <2>7
<1>4. CASE CreateWriter(s)
  BY <1>4, NoLineInNothing DEF CreateWriter
<1>5. CASE Receive(s)
  <2>1. /\ chunks[s] \in Chunks /\ chunks[s] # <<>> /\ batch[s] \in Chunks
        /\ chunks'[s] = Tail(chunks[s])
        /\ batch'[s] = Append(batch[s], Head(chunks[s]))
    BY <1>5 DEF Receive
  <2>2. /\ Len(chunks'[s]) <= Len(chunks[s]) /\ Len(chunks[s]) \in Nat /\ Len(chunks'[s]) \in Nat
        /\ \A m \in DOMAIN chunks'[s] : Len(chunks'[s][m]) <= ChunkSize
    <3>1. \A m \in DOMAIN chunks[s] : Len(chunks[s][m]) <= ChunkSize
      BY DEF BufferInv
    <3>2. /\ Len(Tail(chunks[s])) = Len(chunks[s]) - 1 /\ Len(chunks[s]) \in Nat \ {0}
          /\ \A m \in DOMAIN Tail(chunks[s]) : Len(Tail(chunks[s])[m]) <= ChunkSize
      BY <2>1, <3>1, FirstChunk
    <3> QED BY <2>1, <3>2
  <2> DEFINE c == Head(chunks[s])
  <2>a. c \in Bytes /\ Len(c) <= ChunkSize
    BY <2>1, FirstChunk
  <2>b. batch'[s] = Append(batch[s], c) /\ \A m \in DOMAIN batch[s] : Len(batch[s][m]) <= ChunkSize
    BY <2>1
  <2> HIDE DEF c
  <2>3. /\ Len(batch'[s]) = Len(batch[s]) + 1
        /\ \A m \in DOMAIN batch'[s] : Len(batch'[s][m]) <= ChunkSize
    BY <2>1, <2>a, <2>b, ChunkAdded
  <2>4. at'[s] \in {"loop", "batch"} /\ Partial(buffer[s])
    BY <1>5 DEF Receive
  <2>5. /\ at[s] = "loop" /\ at'[s] \in {"loop", "batch"} /\ buffer' = buffer /\ ended' = ended
        /\ entries' = entries /\ wbatch' = wbatch
    BY <1>5 DEF Receive
  <2>6. BufferInv(s)'
    BY <2>2, <2>3, <2>4, <2>5
  <2>7. Len(chunks'[s]) <= ChunkCap + 1
    BY <2>2
  <2>8. Len(batch'[s]) <= BatchSize
    <3>1. Len(batch[s]) \in Nat
      BY <2>1 DEF Chunks
    <3>2. Len(batch[s]) + 1 <= BatchSize
      BY <1>5, <2>1, <2>3, <3>1 DEF Receive, PlaceInv
    <3> QED BY <2>3, <3>2
  <2>9. WithinBounds(s)'
    BY <2>5, <2>7, <2>8
  <2> QED BY <2>6, <2>9
<1>6. CASE BatchTimeout(s)
  BY <1>6 DEF BatchTimeout
<1>7. CASE StreamEnds(s)
  BY <1>7 DEF StreamEnds
<1>8. CASE TakeChunk(s)
  <2>1. /\ batch[s] \in Chunks /\ batch[s] # <<>> /\ buffer[s] \in Text
        /\ batch'[s] = Tail(batch[s]) /\ buffer'[s] = buffer[s] \o Head(batch[s]) /\ at'[s] = "lines"
    BY <1>8 DEF TakeChunk
  <2>2. /\ Len(batch'[s]) <= Len(batch[s]) /\ Len(batch[s]) \in Nat /\ Len(batch'[s]) \in Nat
        /\ \A m \in DOMAIN batch'[s] : Len(batch'[s][m]) <= ChunkSize
    <3>1. \A m \in DOMAIN batch[s] : Len(batch[s][m]) <= ChunkSize
      BY DEF BufferInv
    <3>2. /\ Len(Tail(batch[s])) = Len(batch[s]) - 1 /\ Len(batch[s]) \in Nat \ {0}
          /\ \A m \in DOMAIN Tail(batch[s]) : Len(Tail(batch[s])[m]) <= ChunkSize
      BY <2>1, <3>1, FirstChunk
    <3> QED BY <2>1, <3>2
  <2>3. Head(batch[s]) \in Bytes /\ Len(Head(batch[s])) <= ChunkSize
    BY <2>1, FirstChunk
  <2>4. Len(buffer'[s]) = Len(buffer[s]) + Len(Head(batch[s])) /\ Len(buffer[s]) \in Nat
        /\ Len(Head(batch[s])) \in Nat
    BY <2>1, <2>3, JoinedLength
  <2>5. CASE Partial(buffer[s])
    <3>1. NoZero(buffer'[s])
      BY <2>1, <2>3, <2>5, NoLineIsBytes, BytesConcat DEF NoZero, Partial
    <3>2. Len(buffer'[s]) <= MaxLine + ChunkSize
      <4>1. Len(buffer[s]) <= MaxLine
        BY <2>5 DEF Partial
      <4> QED BY <2>3, <2>4, <4>1
    <3>3. /\ Len(buffer[s]) \in Nat /\ chunks' = chunks /\ entries' = entries /\ wbatch' = wbatch
      BY <1>8, <2>4 DEF TakeChunk
    <3>4. BufferInv(s)'
      BY <2>1, <2>2, <3>1, <3>3
    <3>5. WithinBounds(s)'
      BY <2>2, <3>2, <3>3
    <3> QED BY <3>4, <3>5
  <2>6. CASE Mended(buffer[s]) /\ ended[s] /\ batch[s] = <<(<<>>)>>
    <3>1. batch'[s] = <<>> /\ buffer'[s] = buffer[s]
      BY <2>1, <2>6 DEF Text
    <3> QED BY <1>8, <2>1, <2>2, <2>6, <3>1 DEF TakeChunk
  <2> QED BY <1>8, <2>5, <2>6 DEF TakeChunk
<1>9. CASE ExtractLine(s)
  <2> DEFINE n == NewlineAt(buffer[s])
  <2>1. /\ buffer[s] \in Text /\ n \in 1 .. Len(buffer[s])
        /\ buffer'[s] = SubSeq(buffer[s], n + 1, Len(buffer[s])) /\ at'[s] = "send"
    BY <1>9, NewlineAtType DEF ExtractLine
  <2>2. Len(buffer'[s]) <= Len(buffer[s]) /\ Len(buffer'[s]) \in Nat /\ Len(buffer[s]) \in Nat
    <3> HIDE DEF n
    <3>1. /\ Len(SubSeq(buffer[s], n + 1, Len(buffer[s]))) = Len(buffer[s]) - n
          /\ Len(buffer[s]) \in Nat
      BY <2>1, CutLength
    <3> QED BY <2>1, <3>1
  <2>3. NoZero(buffer'[s])
    <3>1. CASE NoZero(buffer[s])
      <4> HIDE DEF n
      <4> QED BY <2>1, <3>1, BytesFrom DEF NoZero
    <3>2. CASE Mended(buffer[s])
      BY <2>1, <3>2, MendedLine, NoLineInNothing DEF NoZero
    <3> QED BY <1>9, <3>1, <3>2 DEF ExtractLine
  <2>4. /\ chunks'[s] = chunks[s] /\ batch'[s] = batch[s]
        /\ entries'[s] = entries[s] /\ wbatch'[s] = wbatch[s]
    BY <1>9 DEF ExtractLine
  <2> HIDE DEF n
  <2> QED BY <2>1, <2>2, <2>3, <2>4
<1>10. CASE ForceLine(s)
  <2>1. buffer'[s] = <<>> /\ at'[s] = "send"
    BY <1>10 DEF ForceLine
  <2> QED BY <1>10, <2>1, NoLineInNothing DEF ForceLine, NoZero
<1>11. CASE NextChunk(s)
  BY <1>11 DEF NextChunk, Partial
<1>12. CASE SendLine(s)
  <2>1. Len(entries'[s]) <= WriterCap
    <3>1. entries[s] \in Texts
      OBVIOUS
    <3>2. Len(Append(entries[s], line[s])) = Len(entries[s]) + 1 /\ Len(entries[s]) \in Nat
      BY <3>1 DEF Texts
    <3> QED BY <1>12, <3>2 DEF SendLine
  <2> QED BY <1>12, <2>1 DEF SendLine
<1>13. CASE Publish(s)
  BY <1>13 DEF Publish
<1>14. CASE FinalLine(s)
  <2>1. /\ buffer[s] \in Text /\ Partial(buffer[s]) /\ buffer[s] # <<>> /\ ended[s] /\ at'[s] = "batch"
        /\ buffer'[s] = Append(buffer[s], 0) /\ batch'[s] = <<(<<>>)>>
    BY <1>14 DEF FinalLine
  <2>2. Mended(buffer'[s]) /\ Len(buffer'[s]) <= MaxLine + 1
    BY <2>1, PartialIsMended
  <2>3. /\ Len(batch'[s]) = 1 /\ \A m \in DOMAIN batch'[s] : Len(batch'[s][m]) <= ChunkSize
    BY <2>1
  <2>4. Len(buffer'[s]) <= MaxLine + ChunkSize
    <3>1. Len(buffer'[s]) \in Nat
      BY <2>1 DEF Text
    <3> QED BY <2>2, <3>1
  <2> QED BY <1>14, <2>1, <2>2, <2>3, <2>4 DEF FinalLine
<1>15. CASE HangUp(s)
  BY <1>15 DEF HangUp
<1>16. CASE WriterJoined(s)
  BY <1>16 DEF WriterJoined
<1>17. CASE OpenLog(s)
  BY <1>17 DEF OpenLog
<1>18. CASE Gather(s)
  <2>1. /\ entries[s] \in Texts /\ wbatch[s] \in Texts /\ entries[s] # <<>>
        /\ entries'[s] = Tail(entries[s]) /\ wbatch'[s] = Append(wbatch[s], Head(entries[s]))
    BY <1>18 DEF Gather
  <2>2. Len(entries'[s]) <= Len(entries[s]) /\ Len(entries[s]) \in Nat /\ Len(entries'[s]) \in Nat
    <3> DEFINE q == entries[s]
    <3>1. q \in Seq(Text) /\ q # <<>> /\ entries'[s] = Tail(q)
      BY <2>1 DEF Texts
    <3> HIDE DEF q, Text
    <3>2. Len(Tail(q)) = Len(q) - 1 /\ Len(q) \in Nat \ {0}
      BY <3>1
    <3> QED BY <3>1, <3>2 DEF q
  <2>3. Len(wbatch'[s]) = Len(wbatch[s]) + 1 /\ Len(wbatch[s]) \in Nat
    BY <2>1 DEF Texts
  <2>4. Len(wbatch'[s]) <= WriteBatch
    BY <1>18, <2>3 DEF Gather, WriterPlaceInv
  <2> QED BY <1>18, <2>2, <2>4 DEF Gather
<1>19. CASE WriteTimer(s)
  BY <1>19 DEF WriteTimer
<1>20. CASE ChannelClosed(s)
  BY <1>20 DEF ChannelClosed
<1>21. CASE FlushBatch(s)
  BY <1>21 DEF FlushBatch
<1>22. CASE FinalFlush(s)
  BY <1>22 DEF FinalFlush
<1>23. CASE FlushFails(s)
  BY <1>23 DEF FlushFails, Fail
<1>24. CASE AppendBatch(s)
  BY <1>24 DEF AppendBatch
<1>25. CASE AppendFails(s)
  BY <1>25 DEF AppendFails
<1>26. CASE OpenFails(s)
  BY <1>26 DEF OpenFails, Fail
<1> QED
  BY <1>1, <1>2, <1>3, <1>4, <1>5, <1>6, <1>7, <1>8, <1>9, <1>10, <1>11, <1>12, <1>13, <1>14, <1>15, <1>16, <1>17, <1>18, <1>19, <1>20, <1>21, <1>22, <1>23, <1>24, <1>25, <1>26 DEF StepOf, Processor, Writer, Disk

-----------------------------------------------------------------------------
(* Concatenations of texts, and the bytes in them that a child wrote.      *)

LEMMA Concat ==
  /\ <<>> \in Text
  /\ \A a, b \in Text : a \o b \in Text
  /\ \A a, b, c \in Text : (a \o b) \o c = a \o (b \o c)
  /\ \A a \in Text : a \o <<>> = a /\ <<>> \o a = a
<1>1. \A a, b \in Text : a \o b \in Text
  BY ConcatProperties DEF Text
<1>2. ASSUME NEW a \in Text, NEW b \in Text, NEW c \in Text PROVE (a \o b) \o c = a \o (b \o c)
  BY ConcatAssociative DEF Text
<1>3. \A a \in Text : a \o <<>> = a /\ <<>> \o a = a
  BY ConcatEmptySeq DEF Text
<1>4. <<>> \in Text
  BY EmptySeq DEF Text
<1> QED
  BY <1>1, <1>2, <1>3, <1>4

LEMMA Flatten ==
  /\ FlattenSeq(<<>>) = <<>>
  /\ \A texts \in Texts : FlattenSeq(texts) \in Text
  /\ \A texts \in Texts : \A t \in Text :
       FlattenSeq(Append(texts, t)) = FlattenSeq(texts) \o t
  /\ \A texts \in Texts :
       texts # <<>> => FlattenSeq(texts) = Head(texts) \o FlattenSeq(Tail(texts))
<1>1. ASSUME NEW texts \in Texts, NEW t \in Text
      PROVE  /\ FlattenSeq(texts) \in Text
             /\ FlattenSeq(Append(texts, t)) = FlattenSeq(texts) \o t
  BY FlattenAppend DEF Texts, Text
<1>2. \A texts \in Texts : FlattenSeq(texts) \in Text
  BY <1>1, Concat
<1>3. ASSUME NEW texts \in Texts, texts # <<>>
      PROVE  FlattenSeq(texts) = Head(texts) \o FlattenSeq(Tail(texts))
  <2> DEFINE h == Head(texts)
             t == Tail(texts)
  <2>1. h \in Text /\ t \in Texts /\ texts = <<h>> \o t /\ <<h>> = Append(<<>>, h) /\ <<h>> \in Texts
    BY <1>3 DEF Texts
  <2> HIDE DEF h, t
  <2>2. FlattenSeq(<<h>> \o t) = FlattenSeq(<<h>>) \o FlattenSeq(t)
    BY <2>1, FlattenConcat DEF Texts, Text
  <2>3. <<>> \in Texts
    BY EmptySeq DEF Texts
  <2>4. FlattenSeq(<<h>>) = <<>> \o h
    BY <1>1, <2>1, <2>3, FlattenEmpty, Zenon
  <2> QED BY <2>1, <2>2, <2>4, Concat, Zenon DEF h, t
<1> QED
  BY <1>1, <1>2, <1>3, FlattenEmpty

LEMMA ChunksAreTexts == Chunks \subseteq Texts
<1>1. ASSUME NEW c \in Seq(Bytes) PROVE c \in Seq(Text)
  BY BytesAreText, SeqMonotonic
<1> QED
  BY <1>1 DEF Chunks, Texts

LEMMA UnmendedIs ==
  /\ Unmended(<<>>) = <<>>
  /\ Unmended(<<0>>) = <<>>
  /\ \A text \in Text : Unmended(text) \in Text /\ Unmended(Append(text, 0)) = text
  /\ \A text \in Bytes : Unmended(text) = text
<1>1. ASSUME NEW text \in Text PROVE Unmended(text) \in Text
  BY DEF Unmended, Text, Front
<1>2. ASSUME NEW text \in Text PROVE Unmended(Append(text, 0)) = text
  <2>1. Len(text) \in Nat /\ Len(Append(text, 0)) = Len(text) + 1
        /\ Append(text, 0)[Len(text) + 1] = 0
    BY DEF Text
  <2>2. Append(text, 0) # <<>> /\ Last(Append(text, 0)) = 0
    BY <2>1 DEF Last
  <2>3. Front(Append(text, 0)) = text
    BY DEF Front, Text
  <2> QED BY <2>2, <2>3 DEF Unmended
<1>3. ASSUME NEW text \in Bytes, text # <<>> PROVE Last(text) # 0
  BY <1>3 DEF Bytes, Byte, Last
<1>4. <<0>> = Append(<<>>, 0)
  OBVIOUS
<1>5. Unmended(<<0>>) = <<>>
  BY <1>2, <1>4, Concat, Zenon
<1> QED
  BY <1>1, <1>2, <1>3, <1>5 DEF Unmended

LEMMA TextsConcat ==
  ASSUME NEW a \in Texts, NEW b \in Texts
  PROVE  /\ a \o b \in Texts /\ Len(a \o b) = Len(a) + Len(b)
         /\ \A n \in 1 .. Len(a) + Len(b) : (a \o b)[n] = IF n <= Len(a) THEN a[n] ELSE b[n - Len(a)]
  BY ConcatProperties DEF Texts

Unmendeds(texts) == [n \in DOMAIN texts |-> Unmended(texts[n])]

LEMMA UnmendedsIs ==
  /\ Unmendeds(<<>>) = <<>>
  /\ \A texts \in Texts : Unmendeds(texts) \in Texts
  /\ \A a, b \in Texts : Unmendeds(a \o b) = Unmendeds(a) \o Unmendeds(b)
  /\ \A text \in Text : Unmendeds(<<text>>) = <<Unmended(text)>>
<1>1. Unmendeds(<<>>) = <<>>
  BY DEF Unmendeds
<1>2. ASSUME NEW texts \in Texts
      PROVE  Unmendeds(texts) \in Texts /\ Len(Unmendeds(texts)) = Len(texts)
  <2>1. Len(texts) \in Nat /\ DOMAIN texts = 1 .. Len(texts)
    BY DEF Texts
  <2>2. \A n \in 1 .. Len(texts) : Unmended(texts[n]) \in Text
    BY <2>1, UnmendedIs DEF Texts
  <2> QED BY <2>1, <2>2, IsASeq DEF Unmendeds, Texts
<1>3. ASSUME NEW a \in Texts, NEW b \in Texts
      PROVE  Unmendeds(a \o b) = Unmendeds(a) \o Unmendeds(b)
  <2>1. a \o b \in Texts
    BY TextsConcat
  <2>2. Len(a) \in Nat /\ Len(b) \in Nat /\ Len(a \o b) = Len(a) + Len(b)
        /\ DOMAIN a = 1 .. Len(a) /\ DOMAIN b = 1 .. Len(b)
        /\ DOMAIN (a \o b) = 1 .. Len(a) + Len(b)
    BY DEF Texts
  <2>3. \A n \in 1 .. Len(a) + Len(b) :
          (a \o b)[n] = IF n <= Len(a) THEN a[n] ELSE b[n - Len(a)]
    BY TextsConcat
  <2> DEFINE u == Unmendeds(a)
             v == Unmendeds(b)
             w == Unmendeds(a \o b)
  <2>4. u \in Texts /\ v \in Texts /\ w \in Texts /\ Len(u) = Len(a) /\ Len(v) = Len(b)
        /\ Len(w) = Len(a) + Len(b)
    BY <1>2, <2>1, <2>2
  <2>5. \A n \in 1 .. Len(a) + Len(b) : w[n] = IF n <= Len(a) THEN u[n] ELSE v[n - Len(a)]
    BY <2>2, <2>3 DEF Unmendeds
  <2> HIDE DEF u, v, w
  <2>6. u \o v \in Texts /\ Len(u \o v) = Len(a) + Len(b)
        /\ \A n \in 1 .. Len(a) + Len(b) : (u \o v)[n] = IF n <= Len(a) THEN u[n] ELSE v[n - Len(a)]
    <3>1. u \o v \in Texts /\ Len(u \o v) = Len(u) + Len(v)
          /\ \A n \in 1 .. Len(u) + Len(v) : (u \o v)[n] = IF n <= Len(u) THEN u[n] ELSE v[n - Len(u)]
      BY <2>4, TextsConcat
    <3> QED BY <2>4, <3>1, Zenon
  <2>7. w = u \o v
    <3>1. \A n \in 1 .. Len(w) : w[n] = (u \o v)[n]
      BY <2>4, <2>5, <2>6
    <3> QED BY <2>4, <2>6, <3>1, SeqEqual DEF Texts
  <2> QED BY <2>7 DEF u, v, w
<1>4. ASSUME NEW text \in Text PROVE Unmendeds(<<text>>) = <<Unmended(text)>>
  BY DEF Unmendeds
<1> QED
  BY <1>1, <1>2, <1>3, <1>4

LEMMA OwnIs ==
  /\ Own(<<>>) = <<>>
  /\ \A texts \in Texts : Own(texts) \in Text
  /\ \A a, b \in Texts : Own(a \o b) = Own(a) \o Own(b)
  /\ \A text \in Text : Own(<<text>>) = Unmended(text)
<1>1. \A texts : Own(texts) = FlattenSeq(Unmendeds(texts))
  BY DEF Own, Unmendeds
<1>2. Own(<<>>) = <<>>
  BY <1>1, UnmendedsIs, FlattenEmpty
<1>3. \A texts \in Texts : Own(texts) \in Text
  BY <1>1, UnmendedsIs, Flatten
<1>4. ASSUME NEW a \in Texts, NEW b \in Texts PROVE Own(a \o b) = Own(a) \o Own(b)
  <2>1. Unmendeds(a) \in Texts /\ Unmendeds(b) \in Texts
    BY UnmendedsIs
  <2>2. FlattenSeq(Unmendeds(a) \o Unmendeds(b))
          = FlattenSeq(Unmendeds(a)) \o FlattenSeq(Unmendeds(b))
    BY <2>1, FlattenConcat DEF Texts, Text
  <2> QED BY <1>1, <2>2, UnmendedsIs, Zenon
<1>5. ASSUME NEW text \in Text PROVE Own(<<text>>) = Unmended(text)
  <2>1. Unmended(text) \in Text /\ <<>> \in Texts
    BY UnmendedIs DEF Texts
  <2>2. <<Unmended(text)>> = Append(<<>>, Unmended(text))
    OBVIOUS
  <2>3. FlattenSeq(<<Unmended(text)>>) = <<>> \o Unmended(text)
    BY <2>1, <2>2, Flatten, Zenon
  <2> QED BY <1>1, <2>1, <2>3, UnmendedsIs, Concat, Zenon
<1> QED
  BY <1>2, <1>3, <1>4, <1>5

LEMMA OwnAppend ==
  ASSUME NEW texts \in Texts, NEW text \in Text
  PROVE  Own(Append(texts, text)) = Own(texts) \o Unmended(text)
<1>1. Append(texts, text) = texts \o <<text>> /\ <<text>> \in Texts
  BY DEF Texts
<1> QED
  BY <1>1, OwnIs, Zenon

LEMMA OwnHeadTail ==
  ASSUME NEW texts \in Texts, texts # <<>>
  PROVE  Own(texts) = Unmended(Head(texts)) \o Own(Tail(texts))
<1>1. texts = <<Head(texts)>> \o Tail(texts) /\ Head(texts) \in Text
      /\ <<Head(texts)>> \in Texts /\ Tail(texts) \in Texts
  BY DEF Texts
<1> QED
  BY <1>1, OwnIs, Zenon

-----------------------------------------------------------------------------
(* Nothing is lost or reordered on the way from the pipe to the readers.   *)

LEMMA HeldTypes ==
  ASSUME Types, NEW s \in Streams
  PROVE  /\ pipe[s] \in Text /\ emitted[s] \in Text
         /\ chunks[s] \in Texts /\ batch[s] \in Texts /\ buffer[s] \in Text /\ line[s] \in Text
         /\ FlattenSeq(chunks[s]) \in Text /\ FlattenSeq(batch[s]) \in Text
         /\ Unmended(buffer[s]) \in Text /\ Unmended(line[s]) \in Text
         /\ Waiting(s) \in Text /\ Batched(s) \in Text /\ Buffered(s) \in Text /\ Held(s) \in Text
         /\ published[s] \in Texts /\ collected[s] \in Texts /\ Handed(s) \in Text
         /\ Own(published[s]) \in Text /\ Own(collected[s]) \in Text
         /\ Handed(s) = Own(published[s]) \o Own(collected[s])
<1>1. /\ pipe[s] \in Bytes /\ emitted[s] \in Bytes /\ chunks[s] \in Chunks /\ batch[s] \in Chunks
      /\ buffer[s] \in Text /\ line[s] \in Text /\ published[s] \in Texts /\ collected[s] \in Texts
  BY DEF Types
<1>2. /\ pipe[s] \in Text /\ emitted[s] \in Text /\ chunks[s] \in Texts /\ batch[s] \in Texts
  BY <1>1, BytesAreText, ChunksAreTexts
<1>3. /\ FlattenSeq(chunks[s]) \in Text /\ FlattenSeq(batch[s]) \in Text
      /\ Unmended(buffer[s]) \in Text /\ Unmended(line[s]) \in Text
  BY <1>1, <1>2, Flatten, UnmendedIs, Zenon
<1>4. Waiting(s) \in Text
  BY <1>2, <1>3, Concat, Zenon DEF Waiting
<1>5. Batched(s) \in Text
  BY <1>3, <1>4, Concat, Zenon DEF Batched
<1>6. Buffered(s) \in Text
  BY <1>3, <1>5, Concat, Zenon DEF Buffered
<1>7. Held(s) \in Text
  BY <1>3, <1>6, Concat, Zenon DEF Held
<1>8. Own(published[s]) \in Text /\ Own(collected[s]) \in Text
      /\ Handed(s) = Own(published[s]) \o Own(collected[s])
  BY <1>1, OwnIs, Zenon DEF Handed
<1>9. Handed(s) \in Text
  BY <1>8, Concat, Zenon
<1> QED
  BY <1>1, <1>2, <1>3, <1>4, <1>5, <1>6, <1>7, <1>8, <1>9, Zenon

LEMMA AppendLast ==
  ASSUME NEW a \in Text, NEW b \in Text, NEW x \in Int
  PROVE  /\ Append(b, x) \in Text /\ Append(a \o b, x) \in Text
         /\ Append(a \o b, x) = a \o Append(b, x)
<1>1. <<x>> \in Text /\ Append(b, x) = b \o <<x>> /\ Append(a \o b, x) = (a \o b) \o <<x>>
  BY AppendIsConcat, Concat DEF Text
<1>2. (a \o b) \o <<x>> = a \o (b \o <<x>>) /\ b \o <<x>> \in Text
      /\ (a \o b) \o <<x>> \in Text
  BY <1>1, Concat, Zenon
<1> QED
  BY <1>1, <1>2, Zenon

LEMMA Associative ==
  ASSUME NEW a \in Text, NEW b \in Text, NEW c \in Text
  PROVE  (a \o b) \o c = a \o (b \o c)
  BY Concat

LEMMA SplitAt ==
  ASSUME NEW a \in Text, NEW n \in 0 .. Len(a)
  PROVE  /\ SubSeq(a, 1, n) \in Text /\ SubSeq(a, n + 1, Len(a)) \in Text
         /\ a = SubSeq(a, 1, n) \o SubSeq(a, n + 1, Len(a))
<1>1. a \in Seq(Int) /\ Len(a) \in Nat
  BY DEF Text
<1>2. SubSeq(a, 1, n) \in Text /\ SubSeq(a, n + 1, Len(a)) \in Text
  BY <1>1, SubSeqProperties DEF Text
<1>3. a = SubSeq(a, 1, n) \o SubSeq(a, n + 1, Len(a))
  <2>1. a = SubSeq(a, 1, Len(a))
    BY <1>1, SubSeqFull, Zenon
  <2>2. SubSeq(a, 1, n) \o SubSeq(a, n + 1, Len(a)) = SubSeq(a, 1, Len(a))
    <3>1. 1 \in 1 .. Len(a) + 1 /\ n \in 1 - 1 .. Len(a) /\ Len(a) \in n .. Len(a)
      BY <1>1
    <3> QED BY <1>1, <3>1, ConcatAdjacentSubSeq, Zenon
  <2> QED BY <2>1, <2>2, Zenon
<1> QED
  BY <1>2, <1>3

LEMMA StepKeeps ==
  ASSUME Types, Types', NEW s \in Streams, PlaceInv(s), BufferInv(s), BufferInv(s)',
         ProcessorKeeps(s), StepOf(s)
  PROVE  ProcessorKeeps(s)'
<1>Pipe. pipe[s] \in Text
  BY HeldTypes
<1>Chunks. FlattenSeq(chunks[s]) \in Text
  BY HeldTypes
<1>Waiting. Waiting(s) \in Text
  BY HeldTypes
<1>Batch. FlattenSeq(batch[s]) \in Text
  BY HeldTypes
<1>Batched. Batched(s) \in Text
  BY HeldTypes
<1>Buffer. buffer[s] \in Text /\ Unmended(buffer[s]) \in Text
  BY HeldTypes
<1>Own. Unmended(buffer[s]) \in Text
  BY HeldTypes
<1>Buffered. Buffered(s) \in Text
  BY HeldTypes
<1>Line. Unmended(line[s]) \in Text
  BY HeldTypes
<1>Held. Held(s) \in Text
  BY HeldTypes
<1>Handed. Handed(s) \in Text
  BY HeldTypes
<1> USE DEF childVars, procVars, writerVars, To
<1>1. CASE Write(s)
  <2>1. PICK b \in Int : emitted'[s] = Append(emitted[s], b) /\ pipe'[s] = Append(pipe[s], b)
    <3>1. Len(emitted[s]) \in Nat
      BY HeldTypes DEF Text
    <3>2. ASSUME NEW b \in {Len(emitted[s]) + 1, -(Len(emitted[s]) + 1)} PROVE b \in Int
      BY <3>1
    <3> QED BY <1>1, <3>2 DEF Write, Types, ProcessorKeeps
  <2>2. Waiting(s)' = Append(Waiting(s), b) /\ Append(Waiting(s), b) \in Text
    <3>1. Waiting(s)' = FlattenSeq(chunks[s]) \o pipe'[s]
      BY <1>1 DEF Write, Waiting, Types, ProcessorKeeps
    <3>2. /\ Append(Waiting(s), b) \in Text
          /\ Append(Waiting(s), b) = FlattenSeq(chunks[s]) \o Append(pipe[s], b)
      BY <1>Chunks, <1>Pipe, AppendLast, Zenon DEF Waiting
    <3> QED BY <2>1, <3>1, <3>2, Zenon
  <2>3. Batched(s)' = Append(Batched(s), b) /\ Append(Batched(s), b) \in Text
    <3>1. Batched(s)' = FlattenSeq(batch[s]) \o Waiting(s)'
      BY <1>1 DEF Write, Batched, Types, ProcessorKeeps
    <3>2. /\ Append(Batched(s), b) \in Text
          /\ Append(Batched(s), b) = FlattenSeq(batch[s]) \o Append(Waiting(s), b)
      BY <1>Batch, <1>Waiting, AppendLast, Zenon DEF Batched
    <3> QED BY <2>2, <3>1, <3>2, Zenon
  <2>4. Buffered(s)' = Append(Buffered(s), b) /\ Append(Buffered(s), b) \in Text
    <3>1. Buffered(s)' = Unmended(buffer[s]) \o Batched(s)'
      BY <1>1 DEF Write, Buffered, Types, ProcessorKeeps
    <3>2. /\ Append(Buffered(s), b) \in Text
          /\ Append(Buffered(s), b) = Unmended(buffer[s]) \o Append(Batched(s), b)
      BY <1>Own, <1>Batched, AppendLast, Zenon DEF Buffered
    <3> QED BY <2>3, <3>1, <3>2, Zenon
  <2>5. Held(s)' = Append(Held(s), b) /\ Append(Held(s), b) \in Text
    <3>1. Held(s)' = Unmended(line[s]) \o Buffered(s)'
      BY <1>1 DEF Write, Held, Types, ProcessorKeeps
    <3>2. /\ Append(Held(s), b) \in Text
          /\ Append(Held(s), b) = Unmended(line[s]) \o Append(Buffered(s), b)
      BY <1>Line, <1>Buffered, AppendLast, Zenon DEF Held
    <3> QED BY <2>4, <3>1, <3>2, Zenon
  <2>6. Handed(s)' = Handed(s)
    BY <1>1 DEF Write, Handed, Types, ProcessorKeeps
  <2>7. Append(Handed(s) \o Held(s), b) = Handed(s) \o Append(Held(s), b)
    BY <1>Held, <1>Handed, AppendLast, Zenon
  <2>8. emitted'[s] = Handed(s)' \o Held(s)'
    BY <2>1, <2>5, <2>6, <2>7, Zenon DEF ProcessorKeeps
  <2> QED BY <2>8 DEF ProcessorKeeps
<1>2. CASE Close(s)
  BY <1>2 DEF Close, Held, Handed, Buffered, Batched, Waiting, Types, ProcessorKeeps
<1>3. CASE ReadChunk(s)
  <2>1. PICK n \in 1 .. Len(pipe[s]) :
          /\ chunks'[s] = Append(chunks[s], SubSeq(pipe[s], 1, n))
          /\ pipe'[s] = SubSeq(pipe[s], n + 1, Len(pipe[s]))
    BY <1>3 DEF ReadChunk, Types, ProcessorKeeps
  <2> DEFINE c == SubSeq(pipe[s], 1, n)
  <2>2. pipe[s] \in Text /\ n \in 0 .. Len(pipe[s])
    BY HeldTypes DEF Text
  <2>3. c \in Text /\ pipe'[s] \in Text /\ pipe[s] = c \o pipe'[s]
    BY <2>1, <2>2, SplitAt, Zenon
  <2> HIDE DEF c
  <2>4. FlattenSeq(chunks'[s]) = FlattenSeq(chunks[s]) \o c
    <3>1. chunks[s] \in Texts
      BY HeldTypes
    <3>2. FlattenSeq(Append(chunks[s], c)) = FlattenSeq(chunks[s]) \o c
      BY <2>3, <3>1, Flatten, Zenon
    <3> QED BY <2>1, <3>2, Zenon DEF c
  <2>5. FlattenSeq(chunks'[s]) \o pipe'[s] = FlattenSeq(chunks[s]) \o pipe[s]
    <3>1. (FlattenSeq(chunks[s]) \o c) \o pipe'[s] = FlattenSeq(chunks[s]) \o (c \o pipe'[s])
      BY <2>3, <1>Chunks, Associative, Zenon
    <3> QED BY <2>3, <2>4, <3>1, Zenon
  <2> QED BY <1>3, <2>5 DEF ReadChunk, Held, Handed, Buffered, Batched, Waiting, Types, ProcessorKeeps
<1>4. CASE CreateWriter(s)
  BY <1>4 DEF CreateWriter, Held, Handed, Buffered, Batched, Waiting, Types, ProcessorKeeps
<1>5. CASE Receive(s)
  <2> DEFINE c == Head(chunks[s])
  <2>1. /\ chunks[s] # <<>> /\ chunks'[s] = Tail(chunks[s]) /\ pipe'[s] = pipe[s]
        /\ batch'[s] = Append(batch[s], c)
    BY <1>5 DEF Receive, Types, ProcessorKeeps
  <2>2. c \in Text
    BY <2>1, HeldTypes DEF Texts
  <2>3. FlattenSeq(chunks[s]) = c \o FlattenSeq(chunks'[s]) /\ FlattenSeq(chunks'[s]) \in Text
    <3>1. Tail(chunks[s]) \in Texts
      BY <2>1, HeldTypes DEF Texts
    <3> QED BY <2>1, <3>1, HeldTypes, Flatten, Zenon
  <2> HIDE DEF c
  <2>4. FlattenSeq(batch'[s]) = FlattenSeq(batch[s]) \o c
    <3>1. batch[s] \in Texts
      BY HeldTypes
    <3>2. FlattenSeq(Append(batch[s], c)) = FlattenSeq(batch[s]) \o c
      BY <2>2, <3>1, Flatten, Zenon
    <3> QED BY <2>1, <3>2, Zenon
  <2>5. Waiting(s)' \in Text /\ Waiting(s) = c \o Waiting(s)'
    <3>1. Waiting(s)' = FlattenSeq(chunks'[s]) \o pipe[s]
      BY <2>1, Zenon DEF Waiting
    <3>2. Waiting(s)' \in Text
      BY <2>3, <3>1, <1>Pipe, Concat, Zenon
    <3>3. (c \o FlattenSeq(chunks'[s])) \o pipe[s] = c \o (FlattenSeq(chunks'[s]) \o pipe[s])
      BY <2>2, <2>3, <1>Pipe, Associative, Zenon
    <3> QED BY <2>3, <3>1, <3>2, <3>3, Zenon DEF Waiting
  <2>6. FlattenSeq(batch'[s]) \o Waiting(s)' = FlattenSeq(batch[s]) \o Waiting(s)
    <3>1. (FlattenSeq(batch[s]) \o c) \o Waiting(s)' = FlattenSeq(batch[s]) \o (c \o Waiting(s)')
      BY <2>2, <2>5, <1>Batch, Associative, Zenon
    <3> QED BY <2>4, <2>5, <3>1, Zenon
  <2> QED BY <1>5, <2>6 DEF Receive, Held, Handed, Buffered, Batched, Types, ProcessorKeeps
<1>6. CASE BatchTimeout(s)
  BY <1>6 DEF BatchTimeout, Held, Handed, Buffered, Batched, Waiting, Types, ProcessorKeeps
<1>7. CASE StreamEnds(s)
  BY <1>7 DEF StreamEnds, Held, Handed, Buffered, Batched, Waiting, Types, ProcessorKeeps
<1>8. CASE TakeChunk(s)
  <2> DEFINE c == Head(batch[s])
  <2>1. /\ batch[s] # <<>> /\ batch'[s] = Tail(batch[s]) /\ buffer'[s] = buffer[s] \o c
        /\ at[s] = "batch" /\ at'[s] = "lines"
    BY <1>8 DEF TakeChunk, Types, ProcessorKeeps
  <2>2. c \in Text /\ c \in Bytes
    BY <2>1, BytesAreText DEF Chunks, Types
  <2>3. FlattenSeq(batch[s]) = c \o FlattenSeq(batch'[s]) /\ FlattenSeq(batch'[s]) \in Text
    <3>1. Tail(batch[s]) \in Texts
      BY <2>1, HeldTypes DEF Texts
    <3> QED BY <2>1, <3>1, HeldTypes, Flatten, Zenon
  <2>4. Unmended(buffer'[s]) = Unmended(buffer[s]) \o c
    <3>1. CASE Partial(buffer[s])
      <4>1. buffer[s] \in Bytes /\ buffer[s] \o c \in Bytes
        BY <2>2, <3>1, HeldTypes, NoLineIsBytes, BytesConcat DEF Partial, NoZero
      <4> QED BY <2>1, <4>1, UnmendedIs, Zenon
    <3>2. CASE batch[s] = <<(<<>>)>>
      <4>1. c = <<>>
        BY <3>2
      <4>2. buffer'[s] = buffer[s] /\ Unmended(buffer[s]) \o c = Unmended(buffer[s])
        BY <2>1, <4>1, <1>Buffer, Concat, Zenon
      <4> QED BY <4>2, Zenon
    <3> QED BY <2>1, <3>1, <3>2 DEF BufferInv
  <2> HIDE DEF c
  <2>5. Waiting(s)' = Waiting(s)
    BY <1>8 DEF TakeChunk, Waiting, Types, ProcessorKeeps
  <2>6. Batched(s)' \in Text /\ Batched(s) = c \o Batched(s)'
    <3>1. Batched(s)' = FlattenSeq(batch'[s]) \o Waiting(s)
      BY <2>5, Zenon DEF Batched
    <3>2. Batched(s)' \in Text
      BY <2>3, <3>1, <1>Waiting, Concat, Zenon
    <3>3. (c \o FlattenSeq(batch'[s])) \o Waiting(s) = c \o (FlattenSeq(batch'[s]) \o Waiting(s))
      BY <2>2, <2>3, <1>Waiting, Associative, Zenon
    <3> QED BY <2>3, <3>1, <3>2, <3>3, Zenon DEF Batched
  <2>7. Unmended(buffer'[s]) \o Batched(s)' = Unmended(buffer[s]) \o Batched(s)
    <3>1. (Unmended(buffer[s]) \o c) \o Batched(s)' = Unmended(buffer[s]) \o (c \o Batched(s)')
      BY <2>2, <2>6, <1>Buffer, Associative, Zenon
    <3> QED BY <2>4, <2>6, <3>1, Zenon
  <2> QED BY <1>8, <2>7 DEF TakeChunk, Held, Handed, Buffered, Types, ProcessorKeeps
<1>9. CASE ExtractLine(s)
  <2> DEFINE n == NewlineAt(buffer[s])
  <2>1. /\ at[s] = "lines" /\ line'[s] = SubSeq(buffer[s], 1, n)
        /\ buffer'[s] = SubSeq(buffer[s], n + 1, Len(buffer[s])) /\ n \in 1 .. Len(buffer[s])
    BY <1>9, HeldTypes, NewlineAtType DEF ExtractLine, Types, ProcessorKeeps
  <2>2. line[s] = <<>> /\ Unmended(line[s]) = <<>>
    BY <2>1, UnmendedIs DEF PlaceInv
  <2>3. Unmended(line'[s]) \in Text /\ Unmended(buffer'[s]) \in Text
    <3>1. line'[s] \in Text /\ buffer'[s] \in Text
      BY DEF Types
    <3> QED BY <3>1, UnmendedIs, Zenon
  <2>4. Unmended(line'[s]) \o Unmended(buffer'[s]) = Unmended(buffer[s])
    <3>1. CASE NoZero(buffer[s])
      <4> HIDE DEF n
      <4>1. line'[s] \in Bytes /\ buffer'[s] \in Bytes
        BY <2>1, <3>1, BytesFrom DEF NoZero
      <4>2. buffer[s] = line'[s] \o buffer'[s]
        <5>1. n \in 0 .. Len(buffer[s])
          BY <2>1
        <5> QED BY <2>1, <5>1, HeldTypes, SplitAt, Zenon
      <4> QED BY <3>1, <4>1, <4>2, UnmendedIs, Zenon DEF NoZero
    <3>2. CASE Mended(buffer[s])
      <4>1. n = Len(buffer[s]) /\ buffer'[s] = <<>>
        BY <2>1, <3>2, HeldTypes, MendedLine
      <4>2. line'[s] = buffer[s]
        BY <2>1, <4>1, HeldTypes DEF Text
      <4> QED BY <4>1, <4>2, HeldTypes, UnmendedIs, Concat, Zenon
    <3> QED BY <2>1, <3>1, <3>2 DEF BufferInv
  <2>5. Batched(s)' = Batched(s)
    BY <1>9 DEF ExtractLine, Batched, Waiting, Types, ProcessorKeeps
  <2>6. Unmended(line'[s]) \o Buffered(s)' = Unmended(line[s]) \o Buffered(s)
    <3>1. Buffered(s)' = Unmended(buffer'[s]) \o Batched(s)
      BY <2>5, Zenon DEF Buffered
    <3>2. (Unmended(line'[s]) \o Unmended(buffer'[s])) \o Batched(s)
            = Unmended(line'[s]) \o (Unmended(buffer'[s]) \o Batched(s))
      BY <2>3, <1>Batched, Associative, Zenon
    <3>3. <<>> \o Buffered(s) = Buffered(s)
      BY <1>Buffered, Concat, Zenon
    <3> QED BY <2>2, <2>4, <3>1, <3>2, <3>3, Zenon DEF Buffered
  <2> QED BY <1>9, <2>6 DEF ExtractLine, Held, Handed, Types, ProcessorKeeps
<1>10. CASE ForceLine(s)
  <2>1. /\ at[s] = "lines" /\ line'[s] = Append(buffer[s], 0) /\ buffer'[s] = <<>>
        /\ ~ HasLine(buffer[s])
    BY <1>10 DEF ForceLine, Types, ProcessorKeeps
  <2>2. line[s] = <<>> /\ Unmended(line[s]) = <<>>
    BY <2>1, UnmendedIs DEF PlaceInv
  <2>3. Unmended(line'[s]) \in Text /\ Unmended(buffer'[s]) \in Text
    <3>1. line'[s] \in Text /\ buffer'[s] \in Text
      BY DEF Types
    <3> QED BY <3>1, UnmendedIs, Zenon
  <2>4. Unmended(line'[s]) \o Unmended(buffer'[s]) = Unmended(buffer[s])
    <3>1. Unmended(line'[s]) = buffer[s] /\ Unmended(buffer'[s]) = <<>>
      BY <2>1, HeldTypes, UnmendedIs, Zenon
    <3>2. Unmended(buffer[s]) = buffer[s]
      BY <2>1, HeldTypes, NoLineIsBytes, UnmendedIs DEF NoZero
    <3> QED BY <3>1, <3>2, HeldTypes, Concat, Zenon
  <2>5. Batched(s)' = Batched(s)
    BY <1>10 DEF ForceLine, Batched, Waiting, Types, ProcessorKeeps
  <2>6. Unmended(line'[s]) \o Buffered(s)' = Unmended(line[s]) \o Buffered(s)
    <3>1. Buffered(s)' = Unmended(buffer'[s]) \o Batched(s)
      BY <2>5, Zenon DEF Buffered
    <3>2. (Unmended(line'[s]) \o Unmended(buffer'[s])) \o Batched(s)
            = Unmended(line'[s]) \o (Unmended(buffer'[s]) \o Batched(s))
      BY <2>3, <1>Batched, Associative, Zenon
    <3>3. <<>> \o Buffered(s) = Buffered(s)
      BY <1>Buffered, Concat, Zenon
    <3> QED BY <2>2, <2>4, <3>1, <3>2, <3>3, Zenon DEF Buffered
  <2> QED BY <1>10, <2>6 DEF ForceLine, Held, Handed, Types, ProcessorKeeps
<1>11. CASE NextChunk(s)
  BY <1>11 DEF NextChunk, Held, Handed, Buffered, Batched, Waiting, Types, ProcessorKeeps
<1>12. CASE SendLine(s)
  <2>1. collected'[s] = Append(collected[s], line[s]) /\ line'[s] = <<>> /\ published'[s] = published[s]
    BY <1>12 DEF SendLine, Types, ProcessorKeeps
  <2>2. Own(collected'[s]) = Own(collected[s]) \o Unmended(line[s])
    BY <2>1, HeldTypes, OwnAppend, Zenon
  <2>3. Handed(s)' = Handed(s) \o Unmended(line[s])
    <3>1. Handed(s)' = Own(published[s]) \o Own(collected'[s])
      <4>1. Handed(s)' = Own(published'[s] \o collected'[s]) /\ collected'[s] \in Texts
        BY DEF Handed, Types
      <4> QED BY <2>1, <4>1, HeldTypes, OwnIs, Zenon
    <3>2. Own(published[s]) \in Text /\ Own(collected[s]) \in Text
            /\ Handed(s) = Own(published[s]) \o Own(collected[s])
      BY HeldTypes
    <3>3. (Own(published[s]) \o Own(collected[s])) \o Unmended(line[s])
            = Own(published[s]) \o (Own(collected[s]) \o Unmended(line[s]))
      BY <3>2, <1>Line, Associative, Zenon
    <3> QED BY <2>2, <3>1, <3>2, <3>3, Zenon
  <2>4. Held(s)' = Buffered(s)
    <3>1. Held(s)' = Unmended(line'[s]) \o Buffered(s)
      BY <1>12 DEF SendLine, Held, Buffered, Batched, Waiting, Types, ProcessorKeeps
    <3> QED BY <2>1, <3>1, HeldTypes, UnmendedIs, Concat, Zenon
  <2>5. (Handed(s) \o Unmended(line[s])) \o Buffered(s) = Handed(s) \o Held(s)
    BY <1>Handed, <1>Line, <1>Buffered, Associative DEF Held
  <2>6. emitted'[s] = emitted[s]
    BY <1>12 DEF SendLine, Types, ProcessorKeeps
  <2> QED BY <2>3, <2>4, <2>5, <2>6, Zenon DEF ProcessorKeeps
<1>13. CASE Publish(s)
  <2>1. published'[s] = published[s] \o collected[s] /\ collected'[s] = <<>>
    BY <1>13 DEF Publish, Types, ProcessorKeeps
  <2>2. published'[s] \o collected'[s] = published[s] \o collected[s]
    BY <2>1 DEF Texts
  <2> QED BY <1>13, <2>2 DEF Publish, Held, Handed, Buffered, Batched, Waiting, Types, ProcessorKeeps
<1>14. CASE FinalLine(s)
  <2>1. /\ at[s] = "tail" /\ batch[s] = <<>> /\ batch'[s] = <<(<<>>)>>
        /\ buffer'[s] = Append(buffer[s], 0) /\ Partial(buffer[s])
    BY <1>14 DEF FinalLine, PlaceInv, BufferInv, Types, ProcessorKeeps
  <2>2. Unmended(buffer'[s]) = buffer[s] /\ Unmended(buffer[s]) = buffer[s]
    BY <2>1, HeldTypes, UnmendedIs, NoLineIsBytes DEF Partial, NoZero
  <2>3. FlattenSeq(batch'[s]) = FlattenSeq(batch[s])
    <3>1. <<(<<>>)>> = Append(<<>>, <<>>) /\ <<>> \in Texts
      BY DEF Texts
    <3>2. FlattenSeq(Append(<<>>, <<>>)) = <<>> \o <<>>
      BY <3>1, Flatten, Concat, Zenon
    <3> QED BY <2>1, <3>1, <3>2, Flatten, Concat, Zenon
  <2> QED BY <1>14, <2>2, <2>3 DEF FinalLine, Held, Handed, Buffered, Batched, Waiting, Types, ProcessorKeeps
<1>15. CASE HangUp(s)
  BY <1>15 DEF HangUp, Held, Handed, Buffered, Batched, Waiting, Types, ProcessorKeeps
<1>16. CASE WriterJoined(s)
  BY <1>16 DEF WriterJoined, Held, Handed, Buffered, Batched, Waiting, Types, ProcessorKeeps
<1>17. CASE OpenLog(s)
  BY <1>17 DEF OpenLog, Held, Handed, Buffered, Batched, Waiting, Types, ProcessorKeeps
<1>18. CASE Gather(s)
  BY <1>18 DEF Gather, Held, Handed, Buffered, Batched, Waiting, Types, ProcessorKeeps
<1>19. CASE WriteTimer(s)
  BY <1>19 DEF WriteTimer, Held, Handed, Buffered, Batched, Waiting, Types, ProcessorKeeps
<1>20. CASE ChannelClosed(s)
  BY <1>20 DEF ChannelClosed, Held, Handed, Buffered, Batched, Waiting, Types, ProcessorKeeps
<1>21. CASE FlushBatch(s)
  BY <1>21 DEF FlushBatch, Held, Handed, Buffered, Batched, Waiting, Types, ProcessorKeeps
<1>22. CASE FinalFlush(s)
  BY <1>22 DEF FinalFlush, Held, Handed, Buffered, Batched, Waiting, Types, ProcessorKeeps
<1>23. CASE FlushFails(s)
  BY <1>23 DEF FlushFails, Fail, Held, Handed, Buffered, Batched, Waiting, Types, ProcessorKeeps
<1>24. CASE AppendBatch(s)
  BY <1>24 DEF AppendBatch, Held, Handed, Buffered, Batched, Waiting, Types, ProcessorKeeps
<1>25. CASE AppendFails(s)
  BY <1>25 DEF AppendFails, Held, Handed, Buffered, Batched, Waiting, Types, ProcessorKeeps
<1>26. CASE OpenFails(s)
  BY <1>26 DEF OpenFails, Fail, Held, Handed, Buffered, Batched, Waiting, Types, ProcessorKeeps
<1> QED
  BY <1>1, <1>2, <1>3, <1>4, <1>5, <1>6, <1>7, <1>8, <1>9, <1>10, <1>11, <1>12, <1>13, <1>14, <1>15, <1>16, <1>17, <1>18, <1>19, <1>20, <1>21, <1>22, <1>23, <1>24, <1>25, <1>26 DEF StepOf, Processor, Writer, Disk

-----------------------------------------------------------------------------
(* The texts of one source among the records of a file.                    *)

LEMMA TextsOfIs ==
  ASSUME NEW s, NEW records \in Files
  PROVE  TextsOf(s, records) \in Texts /\ Len(TextsOf(s, records)) = Len(records)
<1>1. Len(records) \in Nat /\ DOMAIN records = 1 .. Len(records)
      /\ \A n \in 1 .. Len(records) : records[n] \in [from : Streams \cup {Earlier}, text : Text]
  BY LenProperties, ElementOfSeq, Zenon DEF Files
<1>2. \A n \in 1 .. Len(records) :
        (IF records[n].from = s THEN records[n].text ELSE <<>>) \in Text
  BY <1>1, Concat
<1> QED
  BY <1>1, <1>2, IsASeq DEF TextsOf, Texts

LEMMA FilesConcat ==
  ASSUME NEW a \in Files, NEW b \in Files
  PROVE  /\ a \o b \in Files /\ Len(a \o b) = Len(a) + Len(b)
         /\ \A n \in 1 .. Len(a) + Len(b) : (a \o b)[n] = IF n <= Len(a) THEN a[n] ELSE b[n - Len(a)]
         /\ Len(a) \in Nat /\ Len(b) \in Nat
         /\ DOMAIN a = 1 .. Len(a) /\ DOMAIN b = 1 .. Len(b) /\ DOMAIN (a \o b) = 1 .. Len(a) + Len(b)
<1>1. /\ a \o b \in Files /\ Len(a \o b) = Len(a) + Len(b)
      /\ \A n \in 1 .. Len(a) + Len(b) : (a \o b)[n] = IF n <= Len(a) THEN a[n] ELSE b[n - Len(a)]
  BY ConcatProperties DEF Files
<1>2. \A f \in Files : Len(f) \in Nat /\ DOMAIN f = 1 .. Len(f)
  BY DEF Files
<1> QED
  BY <1>1, <1>2

LEMMA TextsOfConcat ==
  ASSUME NEW s, NEW a \in Files, NEW b \in Files
  PROVE  TextsOf(s, a \o b) = TextsOf(s, a) \o TextsOf(s, b)
<1> DEFINE u == TextsOf(s, a)
           v == TextsOf(s, b)
           w == TextsOf(s, a \o b)
<1>1. u \in Texts /\ v \in Texts /\ w \in Texts /\ Len(u) = Len(a) /\ Len(v) = Len(b)
      /\ Len(w) = Len(a) + Len(b)
  BY FilesConcat, TextsOfIs
<1>2. \A n \in 1 .. Len(a) + Len(b) : w[n] = IF n <= Len(a) THEN u[n] ELSE v[n - Len(a)]
  <2> DEFINE c == a \o b
  <2>1. /\ DOMAIN a = 1 .. Len(a) /\ DOMAIN b = 1 .. Len(b) /\ DOMAIN c = 1 .. Len(a) + Len(b)
        /\ Len(a) \in Nat /\ Len(b) \in Nat
        /\ \A n \in 1 .. Len(a) + Len(b) : c[n] = IF n <= Len(a) THEN a[n] ELSE b[n - Len(a)]
    BY FilesConcat
  <2> HIDE DEF c
  <2>2. \A n \in 1 .. Len(a) + Len(b) :
          TextsOf(s, c)[n] = IF n <= Len(a) THEN TextsOf(s, a)[n] ELSE TextsOf(s, b)[n - Len(a)]
    BY <2>1 DEF TextsOf
  <2> QED BY <2>2 DEF c
<1> HIDE DEF u, v, w
<1>3. u \o v \in Texts /\ Len(u \o v) = Len(a) + Len(b)
      /\ \A n \in 1 .. Len(a) + Len(b) : (u \o v)[n] = IF n <= Len(a) THEN u[n] ELSE v[n - Len(a)]
  <2>1. u \o v \in Texts /\ Len(u \o v) = Len(u) + Len(v)
        /\ \A n \in 1 .. Len(u) + Len(v) : (u \o v)[n] = IF n <= Len(u) THEN u[n] ELSE v[n - Len(u)]
    BY <1>1, TextsConcat
  <2> QED BY <1>1, <2>1, Zenon
<1>4. \A n \in 1 .. Len(w) : w[n] = (u \o v)[n]
  BY <1>1, <1>2, <1>3
<1>5. w = u \o v
  BY <1>1, <1>3, <1>4, SeqEqual DEF Texts
<1> QED
  BY <1>5 DEF u, v, w

(* What another source wrote adds nothing. *)
LEMMA OwnForeign ==
  ASSUME NEW s, NEW records \in Files, \A n \in DOMAIN records : records[n].from # s
  PROVE  Own(TextsOf(s, records)) = <<>>
<1> DEFINE u == Unmendeds(TextsOf(s, records))
<1>1. Len(records) \in Nat /\ DOMAIN records = 1 .. Len(records)
  BY DEF Files
<1>2. u = [n \in 1 .. Len(records) |-> <<>>]
  <2>1. DOMAIN TextsOf(s, records) = 1 .. Len(records)
        /\ \A n \in 1 .. Len(records) : TextsOf(s, records)[n] = <<>>
    BY <1>1 DEF TextsOf
  <2> QED BY <2>1, UnmendedIs DEF Unmendeds
<1>3. u \in Seq(Seq({}))
  <2>1. <<>> \in Seq({})
    BY EmptySeq
  <2> QED BY <1>1, <1>2, <2>1, IsASeq
<1>4. FlattenSeq(u) \in Seq({})
  <2> HIDE DEF u
  <2>1. <<>> \in Seq({})
    BY EmptySeq
  <2> QED BY <1>3, <2>1, FlattenAppend
<1>5. \A t \in Seq({}) : t = <<>>
  OBVIOUS
<1> QED
  BY <1>4, <1>5 DEF Own, Unmendeds

LEMMA OwnOfNone ==
  ASSUME NEW s
  PROVE  Own(TextsOf(s, <<>>)) = <<>>
<1>1. TextsOf(s, <<>>) = <<>>
  BY DEF TextsOf
<1> QED
  BY <1>1, OwnIs

LEMMA OwnOfAdded ==
  ASSUME NEW s
  PROVE  Own(TextsOf(s, <<AddedNewline(s)>>)) = <<>>
<1>1. TextsOf(s, <<AddedNewline(s)>>) = <<(<<0>>)>>
  BY DEF TextsOf, AddedNewline, Record
<1>2. <<0>> \in Text
  BY DEF Text
<1> QED
  BY <1>1, <1>2, OwnIs, UnmendedIs, Zenon

Lines(s, texts) == [n \in DOMAIN texts |-> Record(s, texts[n])]

LEMMA TextsOfLines ==
  ASSUME NEW s, NEW texts \in Texts
  PROVE  TextsOf(s, Lines(s, texts)) = texts
<1>1. Len(texts) \in Nat /\ DOMAIN texts = 1 .. Len(texts) /\ texts = [n \in 1 .. Len(texts) |-> texts[n]]
  BY DEF Texts
<1>2. TextsOf(s, Lines(s, texts)) = [n \in 1 .. Len(texts) |-> texts[n]]
  BY <1>1 DEF TextsOf, Lines, Record
<1> QED
  BY <1>1, <1>2, Zenon

LEMMA StepFromOwn ==
  ASSUME Types, NEW s \in Streams, FromOwn(s), StepOf(s)
  PROVE  FromOwn(s)'
<1> USE DEF Types, childVars, procVars, writerVars, To, FromOwn
<1>1. CASE Write(s)
  BY <1>1 DEF Write
<1>2. CASE Close(s)
  BY <1>2 DEF Close
<1>3. CASE ReadChunk(s)
  BY <1>3 DEF ReadChunk
<1>4. CASE CreateWriter(s)
  BY <1>4 DEF CreateWriter
<1>5. CASE Receive(s)
  BY <1>5 DEF Receive
<1>6. CASE BatchTimeout(s)
  BY <1>6 DEF BatchTimeout
<1>7. CASE StreamEnds(s)
  BY <1>7 DEF StreamEnds
<1>8. CASE TakeChunk(s)
  BY <1>8 DEF TakeChunk
<1>9. CASE ExtractLine(s)
  BY <1>9 DEF ExtractLine
<1>10. CASE ForceLine(s)
  BY <1>10 DEF ForceLine
<1>11. CASE NextChunk(s)
  BY <1>11 DEF NextChunk
<1>12. CASE SendLine(s)
  BY <1>12 DEF SendLine
<1>13. CASE Publish(s)
  BY <1>13 DEF Publish
<1>14. CASE FinalLine(s)
  BY <1>14 DEF FinalLine
<1>15. CASE HangUp(s)
  BY <1>15 DEF HangUp
<1>16. CASE WriterJoined(s)
  BY <1>16 DEF WriterJoined
<1>17. CASE OpenLog(s)
  <2>1. inflight'[s] = <<AddedNewline(s)>> \/ inflight'[s] = <<>>
    BY <1>17 DEF OpenLog
  <2> QED BY <2>1 DEF AddedNewline, Record
<1>18. CASE Gather(s)
  BY <1>18 DEF Gather
<1>19. CASE WriteTimer(s)
  BY <1>19 DEF WriteTimer
<1>20. CASE ChannelClosed(s)
  BY <1>20 DEF ChannelClosed
<1>21. CASE FlushBatch(s)
  <2>1. inflight'[s] = Lines(s, wbatch[s])
    BY <1>21 DEF FlushBatch, Lines
  <2> QED BY <2>1 DEF Lines, Record
<1>22. CASE FinalFlush(s)
  BY <1>22 DEF FinalFlush
<1>23. CASE FlushFails(s)
  BY <1>23 DEF FlushFails, Fail
<1>24. CASE AppendBatch(s)
  BY <1>24 DEF AppendBatch
<1>25. CASE AppendFails(s)
  BY <1>25 DEF AppendFails
<1>26. CASE OpenFails(s)
  BY <1>26 DEF OpenFails, Fail
<1> QED
  BY <1>1, <1>2, <1>3, <1>4, <1>5, <1>6, <1>7, <1>8, <1>9, <1>10, <1>11, <1>12, <1>13, <1>14, <1>15, <1>16, <1>17, <1>18, <1>19, <1>20, <1>21, <1>22, <1>23, <1>24, <1>25, <1>26 DEF StepOf, Processor, Writer, Disk

LEMMA FlyingTypes ==
  ASSUME Types, NEW s \in Streams
  PROVE  /\ entries[s] \in Texts /\ wbatch[s] \in Texts /\ inflight[s] \in Files
         /\ Own(entries[s]) \in Text /\ Own(wbatch[s]) \in Text
         /\ TextsOf(s, inflight[s]) \in Texts /\ Own(TextsOf(s, inflight[s])) \in Text
         /\ Stored[s] = Own(TextsOf(s, file)) /\ Stored[s] \in Text
         /\ Queued(s) \in Text /\ Flying(s) \in Text
<1>1. /\ entries[s] \in Texts /\ wbatch[s] \in Texts /\ inflight[s] \in Batches /\ file \in Files
  BY DEF Types
<1>2. inflight[s] \in Files
  BY <1>1, BatchesAreFiles
<1>3. TextsOf(s, inflight[s]) \in Texts /\ TextsOf(s, file) \in Texts
  BY <1>1, <1>2, TextsOfIs
<1>4. /\ Own(entries[s]) \in Text /\ Own(wbatch[s]) \in Text
      /\ Own(TextsOf(s, inflight[s])) \in Text /\ Own(TextsOf(s, file)) \in Text
  BY <1>1, <1>3, OwnIs, Zenon
<1>5. Stored[s] = Own(TextsOf(s, file))
  BY DEF Stored
<1>6. Queued(s) \in Text
  BY <1>4, Concat, Zenon DEF Queued
<1>7. Flying(s) \in Text
  BY <1>4, <1>6, Concat, Zenon DEF Flying
<1> QED
  BY <1>1, <1>2, <1>3, <1>4, <1>5, <1>6, <1>7, Zenon

LEMMA LossyIs ==
  ASSUME NEW s \in Streams
  PROVE  /\ s \in Lossy <=> s \in failing \/ writer[s] = "none" \/ writer[s] = "failed"
         /\ s \in Lossy' <=> s \in failing' \/ writer'[s] = "none" \/ writer'[s] = "failed"
  BY DEF Lossy

LEMMA StepWriterKeeps ==
  ASSUME Types, Types', NEW s \in Streams, PlaceInv(s), WriterPlaceInv(s), WriterKeeps(s), StepOf(s)
  PROVE  WriterKeeps(s)'
<1>Stored. Stored[s] \in Text /\ Stored[s] = Own(TextsOf(s, file))
  BY FlyingTypes
<1>Stored1. Stored'[s] = Own(TextsOf(s, file'))
  BY DEF Stored
<1>Handed. Handed(s) \in Text
  BY HeldTypes
<1>Inflight. Own(TextsOf(s, inflight[s])) \in Text
  BY FlyingTypes
<1>Wbatch. wbatch[s] \in Texts /\ Own(wbatch[s]) \in Text
  BY FlyingTypes
<1>Entries. entries[s] \in Texts /\ Own(entries[s]) \in Text
  BY FlyingTypes
<1>Queued. Queued(s) \in Text
  BY FlyingTypes
<1>Flying. Flying(s) \in Text
  BY FlyingTypes
<1> USE DEF childVars, procVars, writerVars, To
<1>1. CASE Write(s)
  BY <1>1, LossyIs, <1>Stored, <1>Stored1 DEF Write, Types, Handed, Flying, Queued, WriterKeeps
<1>2. CASE Close(s)
  BY <1>2, LossyIs, <1>Stored, <1>Stored1 DEF Close, Types, Handed, Flying, Queued, WriterKeeps
<1>3. CASE ReadChunk(s)
  BY <1>3, LossyIs, <1>Stored, <1>Stored1 DEF ReadChunk, Types, Handed, Flying, Queued, WriterKeeps
<1>4. CASE CreateWriter(s)
  BY <1>4, LossyIs, <1>Stored, <1>Stored1 DEF CreateWriter, Types, Handed, Flying, Queued, WriterKeeps, PlaceInv
<1>5. CASE Receive(s)
  BY <1>5, LossyIs, <1>Stored, <1>Stored1 DEF Receive, Types, Handed, Flying, Queued, WriterKeeps
<1>6. CASE BatchTimeout(s)
  BY <1>6, LossyIs, <1>Stored, <1>Stored1 DEF BatchTimeout, Types, Handed, Flying, Queued, WriterKeeps
<1>7. CASE StreamEnds(s)
  BY <1>7, LossyIs, <1>Stored, <1>Stored1 DEF StreamEnds, Types, Handed, Flying, Queued, WriterKeeps
<1>8. CASE TakeChunk(s)
  BY <1>8, LossyIs, <1>Stored, <1>Stored1 DEF TakeChunk, Types, Handed, Flying, Queued, WriterKeeps
<1>9. CASE ExtractLine(s)
  BY <1>9, LossyIs, <1>Stored, <1>Stored1 DEF ExtractLine, Types, Handed, Flying, Queued, WriterKeeps
<1>10. CASE ForceLine(s)
  BY <1>10, LossyIs, <1>Stored, <1>Stored1 DEF ForceLine, Types, Handed, Flying, Queued, WriterKeeps
<1>11. CASE NextChunk(s)
  BY <1>11, LossyIs, <1>Stored, <1>Stored1 DEF NextChunk, Types, Handed, Flying, Queued, WriterKeeps
<1>12. CASE SendLine(s)
  <2> SUFFICES ASSUME s \notin Lossy PROVE Handed(s)' = Stored'[s] \o Flying(s)'
    BY <1>12, LossyIs DEF SendLine, WriterKeeps
  <2>1. /\ collected'[s] = Append(collected[s], line[s]) /\ published'[s] = published[s]
        /\ inflight' = inflight /\ wbatch' = wbatch /\ file' = file /\ at[s] = "send"
    BY <1>12 DEF SendLine, Types
  <2>2. Receiving(s)
    BY <1>12, <2>1, LossyIs DEF PlaceInv, WriterPlaceInv, Receiving, Types, WriterLabels
  <2>3. entries'[s] = Append(entries[s], line[s])
    BY <1>12, <2>2 DEF SendLine, Types
  <2>4. collected[s] \in Texts /\ line[s] \in Text /\ Unmended(line[s]) \in Text
        /\ Own(published[s]) \in Text /\ Own(collected[s]) \in Text
        /\ Handed(s) = Own(published[s]) \o Own(collected[s])
    BY HeldTypes
  <2>5. Own(collected'[s]) = Own(collected[s]) \o Unmended(line[s])
        /\ Own(entries'[s]) = Own(entries[s]) \o Unmended(line[s])
    BY <2>1, <2>3, <2>4, <1>Entries, OwnAppend, Zenon
  <2>6. Handed(s)' = Handed(s) \o Unmended(line[s])
    <3>1. Handed(s)' = Own(published[s]) \o Own(collected'[s])
      <4>1. Handed(s)' = Own(published'[s] \o collected'[s]) /\ collected'[s] \in Texts
            /\ published'[s] \in Texts
        BY DEF Handed, Types
      <4> QED BY <2>1, <4>1, OwnIs, Zenon
    <3>2. (Own(published[s]) \o Own(collected[s])) \o Unmended(line[s])
            = Own(published[s]) \o (Own(collected[s]) \o Unmended(line[s]))
      BY <2>4, Associative, Zenon
    <3> QED BY <2>4, <2>5, <3>1, <3>2, Zenon
  <2>7. Queued(s)' = Queued(s) \o Unmended(line[s])
    <3>1. Queued(s)' = Own(wbatch[s]) \o Own(entries'[s])
      BY <2>1, Zenon DEF Queued
    <3>2. (Own(wbatch[s]) \o Own(entries[s])) \o Unmended(line[s])
            = Own(wbatch[s]) \o (Own(entries[s]) \o Unmended(line[s]))
      <4>1. Own(wbatch[s]) \in Text /\ Own(entries[s]) \in Text /\ Unmended(line[s]) \in Text
        BY <2>4, <1>Wbatch, <1>Entries, Zenon
      <4> QED BY <4>1, Associative, Zenon
    <3> QED BY <2>5, <3>1, <3>2, Zenon DEF Queued
  <2>8. Flying(s)' = Flying(s) \o Unmended(line[s])
    <3>1. Flying(s)' = Own(TextsOf(s, inflight[s])) \o Queued(s)'
      BY <2>1, Zenon DEF Flying
    <3>2. (Own(TextsOf(s, inflight[s])) \o Queued(s)) \o Unmended(line[s])
            = Own(TextsOf(s, inflight[s])) \o (Queued(s) \o Unmended(line[s]))
      BY <2>4, <1>Inflight, <1>Queued, Associative, Zenon
    <3> QED BY <2>7, <3>1, <3>2, Zenon DEF Flying
  <2>9. Handed(s) = Stored[s] \o Flying(s) /\ Stored'[s] = Stored[s]
    BY <2>1, <1>Stored, <1>Stored1, Zenon DEF WriterKeeps
  <2>10. (Stored[s] \o Flying(s)) \o Unmended(line[s]) = Stored[s] \o (Flying(s) \o Unmended(line[s]))
    <3>1. Stored[s] \in Text /\ Flying(s) \in Text /\ Unmended(line[s]) \in Text
      BY <2>4, <1>Stored, <1>Flying, Zenon
    <3> QED BY <3>1, Associative, Zenon
  <2> QED BY <2>6, <2>8, <2>9, <2>10, Zenon
<1>13. CASE Publish(s)
  <2>1. published'[s] = published[s] \o collected[s] /\ collected'[s] = <<>>
        /\ published[s] \in Texts /\ collected[s] \in Texts
    BY <1>13 DEF Publish, Types
  <2>2. published'[s] \o collected'[s] = published[s] \o collected[s]
    BY <2>1 DEF Texts
  <2> QED BY <1>13, <2>2, LossyIs, <1>Stored, <1>Stored1 DEF Publish, Types, Handed, Flying, Queued, WriterKeeps
<1>14. CASE FinalLine(s)
  BY <1>14, LossyIs, <1>Stored, <1>Stored1 DEF FinalLine, Types, Handed, Flying, Queued, WriterKeeps
<1>15. CASE HangUp(s)
  BY <1>15, LossyIs, <1>Stored, <1>Stored1 DEF HangUp, Types, Handed, Flying, Queued, WriterKeeps
<1>16. CASE WriterJoined(s)
  BY <1>16, LossyIs, <1>Stored, <1>Stored1 DEF WriterJoined, Types, Handed, Flying, Queued, WriterKeeps
<1>17. CASE OpenLog(s)
  <2>1. inflight[s] = <<>>
    BY <1>17 DEF OpenLog, WriterPlaceInv
  <2>2. inflight'[s] = <<AddedNewline(s)>> \/ inflight'[s] = <<>>
    BY <1>17 DEF OpenLog, Types
  <2>3. Own(TextsOf(s, inflight'[s])) = Own(TextsOf(s, inflight[s]))
    BY <2>1, <2>2, OwnOfNone, OwnOfAdded, Zenon
  <2> QED BY <1>17, <2>3, LossyIs, <1>Stored, <1>Stored1 DEF OpenLog, Types, Handed, Flying, Queued, WriterKeeps
<1>18. CASE Gather(s)
  <2> DEFINE h == Head(entries[s])
  <2>1. /\ entries[s] # <<>> /\ entries'[s] = Tail(entries[s])
        /\ wbatch'[s] = Append(wbatch[s], h)
    BY <1>18 DEF Gather, Types
  <2>2. h \in Text /\ Tail(entries[s]) \in Texts
    BY <2>1, <1>Entries DEF Texts
  <2>3. Own(entries[s]) = Unmended(h) \o Own(entries'[s]) /\ Own(entries'[s]) \in Text
        /\ Unmended(h) \in Text
    BY <2>1, <2>2, <1>Entries, OwnHeadTail, OwnIs, UnmendedIs, Zenon
  <2> HIDE DEF h
  <2>4. Own(wbatch'[s]) = Own(wbatch[s]) \o Unmended(h)
    BY <2>1, <2>2, <1>Wbatch, OwnAppend, Zenon
  <2>5. Own(wbatch'[s]) \o Own(entries'[s]) = Own(wbatch[s]) \o Own(entries[s])
    <3>1. Own(wbatch[s]) \in Text /\ Unmended(h) \in Text /\ Own(entries'[s]) \in Text
      BY <2>3, <1>Wbatch, Zenon
    <3>2. (Own(wbatch[s]) \o Unmended(h)) \o Own(entries'[s])
            = Own(wbatch[s]) \o (Unmended(h) \o Own(entries'[s]))
      BY <3>1, Associative, Zenon
    <3> QED BY <2>3, <2>4, <3>2, Zenon
  <2> QED BY <1>18, <2>5, LossyIs, <1>Stored, <1>Stored1 DEF Gather, Types, Handed, Flying, Queued, WriterKeeps
<1>19. CASE WriteTimer(s)
  BY <1>19, LossyIs, <1>Stored, <1>Stored1 DEF WriteTimer, Types, Handed, Flying, Queued, WriterKeeps
<1>20. CASE ChannelClosed(s)
  BY <1>20, LossyIs, <1>Stored, <1>Stored1 DEF ChannelClosed, Types, Handed, Flying, Queued, WriterKeeps
<1>21. CASE FlushBatch(s)
  <2>1. /\ inflight[s] = <<>> /\ inflight'[s] = Lines(s, wbatch[s]) /\ wbatch'[s] = <<>>
        /\ entries'[s] = entries[s]
    BY <1>21 DEF FlushBatch, Lines, Types
  <2>2. Own(TextsOf(s, inflight'[s])) = Own(wbatch[s])
    BY <2>1, <1>Wbatch, TextsOfLines, Zenon
  <2>3. Own(wbatch'[s]) \o Own(entries'[s]) = Own(entries[s])
    <3>1. Own(wbatch'[s]) = <<>> /\ Own(entries'[s]) = Own(entries[s])
      BY <2>1, OwnIs, Zenon
    <3>2. <<>> \o Own(entries[s]) = Own(entries[s])
      BY <1>Entries, Concat, Zenon
    <3> QED BY <3>1, <3>2, Zenon
  <2>4. Own(TextsOf(s, inflight'[s])) \o (Own(wbatch'[s]) \o Own(entries'[s]))
          = Own(TextsOf(s, inflight[s])) \o (Own(wbatch[s]) \o Own(entries[s]))
    <3>1. <<>> \o (Own(wbatch[s]) \o Own(entries[s])) = Own(wbatch[s]) \o Own(entries[s])
      BY <1>Wbatch, <1>Entries, Concat, Zenon
    <3> QED BY <2>1, <2>2, <2>3, <3>1, OwnOfNone, Zenon
  <2> QED BY <1>21, <2>4, LossyIs, <1>Stored, <1>Stored1 DEF FlushBatch, Types, Handed, Flying, Queued, WriterKeeps
<1>22. CASE FinalFlush(s)
  BY <1>22, LossyIs, <1>Stored, <1>Stored1 DEF FinalFlush, Types, Handed, Flying, Queued, WriterKeeps
<1>23. CASE FlushFails(s)
  BY <1>23, LossyIs DEF FlushFails, Fail, Types, WriterKeeps
<1>24. CASE AppendBatch(s)
  <2> SUFFICES ASSUME s \notin Lossy PROVE Handed(s)' = Stored'[s] \o Flying(s)'
    BY <1>24, LossyIs DEF AppendBatch, WriterKeeps
  <2>1. /\ file' = file \o inflight[s] /\ inflight'[s] = <<>> /\ file \in Files /\ inflight[s] \in Files
        /\ wbatch' = wbatch /\ entries' = entries
    BY <1>24, FlyingTypes DEF AppendBatch, Types
  <2>2. Stored'[s] = Stored[s] \o Own(TextsOf(s, inflight[s]))
    <3>1. TextsOf(s, file') = TextsOf(s, file) \o TextsOf(s, inflight[s])
      BY <2>1, TextsOfConcat, Zenon
    <3>2. TextsOf(s, file) \in Texts /\ TextsOf(s, inflight[s]) \in Texts
      BY <2>1, TextsOfIs, Zenon
    <3> QED BY <3>1, <3>2, <1>Stored, <1>Stored1, OwnIs, Zenon
  <2>3. Flying(s)' = Queued(s)
    <3>1. Flying(s)' = Own(TextsOf(s, inflight'[s])) \o Queued(s)
      BY <2>1, Zenon DEF Flying, Queued
    <3>2. Own(TextsOf(s, inflight'[s])) = <<>>
      BY <2>1, OwnOfNone, Zenon
    <3>3. <<>> \o Queued(s) = Queued(s)
      BY <1>Queued, Concat, Zenon
    <3> QED BY <3>1, <3>2, <3>3, Zenon
  <2>4. Handed(s) = Stored[s] \o (Own(TextsOf(s, inflight[s])) \o Queued(s))
    BY DEF WriterKeeps, Flying
  <2>5. Handed(s)' = Handed(s)
    BY <1>24 DEF AppendBatch, Handed, Types
  <2>6. (Stored[s] \o Own(TextsOf(s, inflight[s]))) \o Queued(s)
          = Stored[s] \o (Own(TextsOf(s, inflight[s])) \o Queued(s))
    <3>1. Stored[s] \in Text
      BY <1>Stored, Zenon
    <3> QED BY <3>1, <1>Inflight, <1>Queued, Associative, Zenon
  <2> QED BY <2>2, <2>3, <2>4, <2>5, <2>6, Zenon
<1>25. CASE AppendFails(s)
  BY <1>25, LossyIs DEF AppendFails, Types, WriterKeeps
<1>26. CASE OpenFails(s)
  BY <1>26, LossyIs DEF OpenFails, Fail, Types, WriterKeeps
<1> QED
  BY <1>1, <1>2, <1>3, <1>4, <1>5, <1>6, <1>7, <1>8, <1>9, <1>10, <1>11, <1>12, <1>13, <1>14, <1>15, <1>16, <1>17, <1>18, <1>19, <1>20, <1>21, <1>22, <1>23, <1>24, <1>25, <1>26 DEF StepOf, Processor, Writer, Disk

-----------------------------------------------------------------------------
(* Whole lines.                                                            *)

LEMMA FirstText ==
  ASSUME NEW texts \in Texts, texts # <<>>
  PROVE  /\ Head(texts) = texts[1] /\ 1 \in DOMAIN texts
         /\ Len(texts) \in Nat \ {0} /\ DOMAIN texts = 1 .. Len(texts)
         /\ DOMAIN Tail(texts) = 1 .. Len(texts) - 1 /\ Len(Tail(texts)) = Len(texts) - 1
         /\ \A n \in 1 .. Len(texts) - 1 : Tail(texts)[n] = texts[n + 1] /\ n + 1 \in DOMAIN texts
  BY DEF Texts

LEMMA OneMoreText ==
  ASSUME NEW texts \in Texts, NEW text \in Text
  PROVE  /\ Len(texts) \in Nat /\ DOMAIN texts = 1 .. Len(texts)
         /\ DOMAIN Append(texts, text) = 1 .. Len(texts) + 1
         /\ Len(Append(texts, text)) = Len(texts) + 1
         /\ Append(texts, text)[Len(texts) + 1] = text
         /\ \A n \in DOMAIN texts : Append(texts, text)[n] = texts[n]
  BY DEF Texts

LEMMA AllWholeOf ==
  /\ AllWhole(<<>>)
  /\ \A texts \in Texts : texts # <<>> /\ AllWhole(texts) => Whole(Head(texts)) /\ AllWhole(Tail(texts))
  /\ \A texts \in Texts : \A text \in Text :
       AllWhole(texts) /\ Whole(text) => AllWhole(Append(texts, text))
<1>1. AllWhole(<<>>)
  BY DEF AllWhole
<1>2. ASSUME NEW texts \in Texts, texts # <<>>, AllWhole(texts)
      PROVE  Whole(Head(texts)) /\ AllWhole(Tail(texts))
  BY <1>2, FirstText DEF AllWhole
<1>3. ASSUME NEW texts \in Texts, NEW text \in Text, AllWhole(texts), Whole(text)
      PROVE  AllWhole(Append(texts, text))
  <2>1. \A n \in 1 .. Len(texts) + 1 : n \in DOMAIN texts \/ n = Len(texts) + 1
    BY OneMoreText
  <2>2. \A n \in DOMAIN texts : Append(texts, text)[n] = texts[n] /\ Whole(texts[n])
    BY <1>3, OneMoreText DEF AllWhole
  <2>3. DOMAIN Append(texts, text) = 1 .. Len(texts) + 1 /\ Append(texts, text)[Len(texts) + 1] = text
    BY OneMoreText
  <2> QED BY <1>3, <2>1, <2>2, <2>3, Zenon DEF AllWhole
<1> QED
  BY <1>1, <1>2, <1>3

LEMMA Prefix ==
  ASSUME NEW text \in Text, NEW n \in 1 .. Len(text)
  PROVE  LET cut == SubSeq(text, 1, n) IN
         /\ Len(cut) = n /\ \A m \in 1 .. n : cut[m] = text[m]
         /\ Len(Front(cut)) = n - 1 /\ DOMAIN Front(cut) = 1 .. n - 1
         /\ \A m \in 1 .. n - 1 : Front(cut)[m] = text[m]
         /\ Last(cut) = text[n] /\ cut # <<>>
<1> DEFINE cut == SubSeq(text, 1, n)
<1>1. n \in Nat \ {0} /\ Len(text) \in Nat
  BY DEF Text
<1>2. /\ cut \in Text /\ Len(cut) = n /\ \A m \in 1 .. n : cut[m] = text[m]
  BY <1>1, SubSeqProperties DEF Text
<1> HIDE DEF cut
<1>3. Front(cut) = SubSeq(cut, 1, n - 1) /\ Last(cut) = cut[n]
  BY <1>2 DEF Front, Last
<1>4. /\ Front(cut) \in Text /\ Len(Front(cut)) = n - 1 /\ DOMAIN Front(cut) = 1 .. n - 1
      /\ \A m \in 1 .. n - 1 : Front(cut)[m] = cut[m]
  BY <1>1, <1>2, <1>3 DEF Text
<1>5. n \in 1 .. n /\ \A m \in 1 .. n - 1 : m \in 1 .. n
  BY <1>1
<1>6. cut # <<>>
  BY <1>1, <1>2
<1>7. \A m \in 1 .. n - 1 : Front(cut)[m] = text[m]
  BY <1>2, <1>4, <1>5, Zenon
<1>8. Last(cut) = text[n]
  BY <1>2, <1>3, <1>5, Zenon
<1> QED
  BY <1>2, <1>4, <1>6, <1>7, <1>8, Zenon DEF cut

(* A line that is cut out of the buffer is whole; only one that the end of the
   stream mended is cut. *)
LEMMA LineUpTo ==
  ASSUME NEW text \in Text, NEW n \in 1 .. Len(text),
         IsNewline(text[n]), \A m \in 1 .. n - 1 : ~ IsNewline(text[m]),
         NoZero(text) \/ (Mended(text) /\ n = Len(text))
  PROVE  Whole(SubSeq(text, 1, n)) /\ (Cut(SubSeq(text, 1, n)) => Mended(text))
<1> DEFINE cut == SubSeq(text, 1, n)
<1>1. /\ Len(cut) = n
      /\ DOMAIN Front(cut) = 1 .. n - 1 /\ \A m \in 1 .. n - 1 : Front(cut)[m] = text[m]
      /\ Last(cut) = text[n] /\ cut # <<>>
  BY Prefix
<1> HIDE DEF cut
<1>2. ~ HasLine(Front(cut))
  BY <1>1 DEF HasLine
<1>3. NoZero(text) => Last(cut) # 0
  <2>1. NoZero(text) => text[n] # 0
    BY DEF NoZero, Bytes, Byte
  <2> QED BY <1>1, <2>1
<1>4. cut # <<0>>
  <2>1. CASE NoZero(text)
    <3>1. Last(<<0>>) = 0
      BY DEF Last
    <3> QED BY <1>3, <2>1, <3>1, Zenon
  <2>2. CASE Mended(text) /\ n = Len(text)
    <3>1. Len(cut) # 1
      BY <1>1, <2>2 DEF Mended
    <3>2. Len(<<0>>) = 1
      OBVIOUS
    <3> QED BY <3>1, <3>2, Zenon
  <2> QED BY <2>1, <2>2
<1>5. Whole(cut)
  BY <1>1, <1>2, <1>4, Zenon DEF Whole
<1>6. Cut(cut) => Mended(text)
  BY <1>3, Zenon DEF Cut
<1> QED
  BY <1>5, <1>6 DEF cut

LEMMA ExtractedLine ==
  ASSUME NEW text \in Text, HasLine(text), NoZero(text) \/ Mended(text)
  PROVE  /\ Whole(SubSeq(text, 1, NewlineAt(text)))
         /\ Cut(SubSeq(text, 1, NewlineAt(text))) => Mended(text)
<1>1. /\ NewlineAt(text) \in 1 .. Len(text) /\ IsNewline(text[NewlineAt(text)])
      /\ \A m \in 1 .. NewlineAt(text) - 1 : ~ IsNewline(text[m])
      /\ Mended(text) => NewlineAt(text) = Len(text)
  BY NewlineAtFirst, MendedLine
<1> QED
  BY <1>1, LineUpTo

LEMMA ForcedLine ==
  ASSUME NEW text \in Text, ~ HasLine(text), Len(text) > MaxLine
  PROVE  Whole(Append(text, 0)) /\ ~ Cut(Append(text, 0))
<1>1. /\ Len(text) \in Nat /\ Len(text) > 0 /\ Len(Append(text, 0)) = Len(text) + 1
      /\ Append(text, 0)[Len(text) + 1] = 0 /\ Front(Append(text, 0)) = text
  BY Sizes DEF Text, Front
<1>2. Append(text, 0) # <<>> /\ Append(text, 0) # <<0>>
  BY <1>1
<1>3. Last(Append(text, 0)) = 0
  BY <1>1 DEF Last
<1>4. ~ Cut(Append(text, 0))
  BY <1>1, Sizes DEF Cut
<1> QED
  BY <1>1, <1>2, <1>3, <1>4 DEF Whole, IsNewline

LEMMA StepWhole ==
  ASSUME Types, NEW s \in Streams, PlaceInv(s), WriterPlaceInv(s), BufferInv(s), WholeInv(s), StepOf(s)
  PROVE  WholeInv(s)'
<1> USE DEF Types, childVars, procVars, writerVars, To, WholeInv
<1>1. CASE Write(s)
  BY <1>1 DEF Write
<1>2. CASE Close(s)
  BY <1>2 DEF Close
<1>3. CASE ReadChunk(s)
  BY <1>3 DEF ReadChunk
<1>4. CASE CreateWriter(s)
  BY <1>4 DEF CreateWriter
<1>5. CASE Receive(s)
  BY <1>5 DEF Receive
<1>6. CASE BatchTimeout(s)
  BY <1>6 DEF BatchTimeout
<1>7. CASE StreamEnds(s)
  BY <1>7 DEF StreamEnds
<1>8. CASE TakeChunk(s)
  BY <1>8 DEF TakeChunk
<1>9. CASE ExtractLine(s)
  <2>1. line'[s] = SubSeq(buffer[s], 1, NewlineAt(buffer[s])) /\ HasLine(buffer[s]) /\ buffer[s] \in Text
        /\ (NoZero(buffer[s]) \/ Mended(buffer[s]))
    BY <1>9 DEF ExtractLine, BufferInv
  <2>2. Whole(line'[s])
    BY <2>1, ExtractedLine
  <2> QED BY <1>9, <2>2 DEF ExtractLine
<1>10. CASE ForceLine(s)
  <2>1. Whole(line'[s])
    BY <1>10, ForcedLine DEF ForceLine
  <2> QED BY <1>10, <2>1 DEF ForceLine
<1>11. CASE NextChunk(s)
  BY <1>11 DEF NextChunk
<1>12. CASE SendLine(s)
  <2>1. Whole(line[s]) /\ line[s] \in Text /\ entries[s] \in Texts
    BY <1>12 DEF SendLine
  <2>2. AllWhole(Append(entries[s], line[s]))
    BY <2>1, AllWholeOf
  <2> QED BY <1>12, <2>2 DEF SendLine
<1>13. CASE Publish(s)
  BY <1>13 DEF Publish
<1>14. CASE FinalLine(s)
  BY <1>14 DEF FinalLine
<1>15. CASE HangUp(s)
  BY <1>15 DEF HangUp
<1>16. CASE WriterJoined(s)
  BY <1>16 DEF WriterJoined
<1>17. CASE OpenLog(s)
  <2>1. inflight'[s] = <<AddedNewline(s)>> \/ inflight'[s] = <<>>
    BY <1>17 DEF OpenLog
  <2>2. \A n \in DOMAIN inflight'[s] : inflight'[s][n].text = <<0>>
    BY <2>1 DEF AddedNewline, Record
  <2> QED BY <1>17, <2>2 DEF OpenLog
<1>18. CASE Gather(s)
  <2>1. /\ wbatch[s] \in Texts /\ entries[s] \in Texts /\ entries[s] # <<>>
        /\ Head(entries[s]) \in Text
    BY <1>18 DEF Gather, Texts
  <2>2. AllWhole(Append(wbatch[s], Head(entries[s]))) /\ AllWhole(Tail(entries[s]))
    BY <2>1, AllWholeOf
  <2> QED BY <1>18, <2>2 DEF Gather
<1>19. CASE WriteTimer(s)
  BY <1>19 DEF WriteTimer
<1>20. CASE ChannelClosed(s)
  BY <1>20 DEF ChannelClosed
<1>21. CASE FlushBatch(s)
  <2>1. inflight'[s] = Lines(s, wbatch[s])
    BY <1>21 DEF FlushBatch, Lines
  <2>2. \A n \in DOMAIN inflight'[s] : Whole(inflight'[s][n].text)
    BY <2>1 DEF AllWhole, Lines, Record
  <2> QED BY <1>21, <2>2, AllWholeOf DEF FlushBatch
<1>22. CASE FinalFlush(s)
  BY <1>22 DEF FinalFlush
<1>23. CASE FlushFails(s)
  BY <1>23, AllWholeOf DEF FlushFails, Fail
<1>24. CASE AppendBatch(s)
  BY <1>24 DEF AppendBatch
<1>25. CASE AppendFails(s)
  BY <1>25 DEF AppendFails
<1>26. CASE OpenFails(s)
  BY <1>26, AllWholeOf DEF OpenFails, Fail
<1> QED
  BY <1>1, <1>2, <1>3, <1>4, <1>5, <1>6, <1>7, <1>8, <1>9, <1>10, <1>11, <1>12, <1>13, <1>14, <1>15, <1>16, <1>17, <1>18, <1>19, <1>20, <1>21, <1>22, <1>23, <1>24, <1>25, <1>26 DEF StepOf, Processor, Writer, Disk

-----------------------------------------------------------------------------
(* A line that the end of its stream cut off is the last of its stream.    *)

LEMMA StepQuiet ==
  ASSUME Types, NEW s \in Streams, PlaceInv(s), Quiet(s), StepOf(s)
  PROVE  Quiet(s)' /\ (line[s] = <<>> => line'[s] = <<>>)
<1>1. ~ HasLine(buffer[s]) /\ ~ (Len(buffer[s]) > MaxLine)
  BY Sizes DEF Quiet, HasLine
<1> USE DEF Types, childVars, procVars, writerVars, To, PlaceInv, Quiet
<1>2. CASE Write(s)
  BY <1>2 DEF Write
<1>3. CASE Close(s)
  BY <1>3 DEF Close
<1>4. CASE ReadChunk(s)
  BY <1>4 DEF ReadChunk
<1>5. CASE CreateWriter(s)
  BY <1>5 DEF CreateWriter
<1>6. CASE Receive(s)
  BY <1>6 DEF Receive
<1>7. CASE BatchTimeout(s)
  BY <1>7 DEF BatchTimeout
<1>8. CASE StreamEnds(s)
  BY <1>8 DEF StreamEnds
<1>9. CASE TakeChunk(s)
  BY <1>9 DEF TakeChunk
<1>10. CASE ExtractLine(s)
  BY <1>10, <1>1 DEF ExtractLine
<1>11. CASE ForceLine(s)
  BY <1>11, <1>1 DEF ForceLine
<1>12. CASE NextChunk(s)
  BY <1>12 DEF NextChunk
<1>13. CASE SendLine(s)
  BY <1>13 DEF SendLine
<1>14. CASE Publish(s)
  BY <1>14 DEF Publish
<1>15. CASE FinalLine(s)
  BY <1>15 DEF FinalLine
<1>16. CASE HangUp(s)
  BY <1>16 DEF HangUp
<1>17. CASE WriterJoined(s)
  BY <1>17 DEF WriterJoined
<1>18. CASE OpenLog(s)
  BY <1>18 DEF OpenLog
<1>19. CASE Gather(s)
  BY <1>19 DEF Gather
<1>20. CASE WriteTimer(s)
  BY <1>20 DEF WriteTimer
<1>21. CASE ChannelClosed(s)
  BY <1>21 DEF ChannelClosed
<1>22. CASE FlushBatch(s)
  BY <1>22 DEF FlushBatch
<1>23. CASE FinalFlush(s)
  BY <1>23 DEF FinalFlush
<1>24. CASE FlushFails(s)
  BY <1>24 DEF FlushFails, Fail
<1>25. CASE AppendBatch(s)
  BY <1>25 DEF AppendBatch
<1>26. CASE AppendFails(s)
  BY <1>26 DEF AppendFails
<1>27. CASE OpenFails(s)
  BY <1>27 DEF OpenFails, Fail
<1> QED
  BY <1>2, <1>3, <1>4, <1>5, <1>6, <1>7, <1>8, <1>9, <1>10, <1>11, <1>12, <1>13, <1>14, <1>15, <1>16, <1>17, <1>18, <1>19, <1>20, <1>21, <1>22, <1>23, <1>24, <1>25, <1>26, <1>27 DEF StepOf, Processor, Writer, Disk

(* Whole lines are not empty, so nothing that says a line is gone is true of one. *)
LEMMA WholeIsSomething == \A text : Whole(text) => text # <<>>
  BY DEF Whole

LEMMA StepLineCut ==
  ASSUME Types, NEW s \in Streams, PlaceInv(s), BufferInv(s), LineCut(s), StepOf(s)
  PROVE  LineCut(s)'
<1>a. Quiet(s) => Quiet(s)'
  BY StepQuiet
<1> USE DEF Types, childVars, procVars, writerVars, To, LineCut
<1>1. CASE Write(s)
  BY <1>1, <1>a DEF Write
<1>2. CASE Close(s)
  BY <1>2, <1>a DEF Close
<1>3. CASE ReadChunk(s)
  BY <1>3, <1>a DEF ReadChunk
<1>4. CASE CreateWriter(s)
  BY <1>4, <1>a DEF CreateWriter
<1>5. CASE Receive(s)
  BY <1>5, <1>a DEF Receive
<1>6. CASE BatchTimeout(s)
  BY <1>6, <1>a DEF BatchTimeout
<1>7. CASE StreamEnds(s)
  BY <1>7, <1>a DEF StreamEnds
<1>8. CASE TakeChunk(s)
  BY <1>8, <1>a DEF TakeChunk
<1>9. CASE ExtractLine(s)
  <2>1. line'[s] = SubSeq(buffer[s], 1, NewlineAt(buffer[s])) /\ HasLine(buffer[s]) /\ buffer[s] \in Text
        /\ (NoZero(buffer[s]) \/ (Mended(buffer[s]) /\ ended[s] /\ batch[s] = <<>>))
    BY <1>9 DEF ExtractLine, BufferInv
  <2>2. CASE NoZero(buffer[s])
    <3>1. ~ Mended(buffer[s])
      <4>1. Mended(buffer[s]) => Len(buffer[s]) \in 1 .. Len(buffer[s]) /\ buffer[s][Len(buffer[s])] = 0
        BY <2>1 DEF Mended, Last, Text
      <4> QED BY <2>2, <4>1 DEF NoZero, Bytes, Byte
    <3>2. ~ Cut(line'[s])
      BY <2>1, <2>2, <3>1, ExtractedLine
    <3> QED BY <3>2
  <2>3. CASE Mended(buffer[s]) /\ ended[s] /\ batch[s] = <<>>
    <3>1. buffer'[s] = <<>>
      BY <1>9, <2>1, <2>3, MendedLine DEF ExtractLine
    <3>2. Quiet(s)'
      BY <1>9, <2>3, <3>1 DEF ExtractLine, Quiet
    <3> QED BY <3>2
  <2> QED BY <2>1, <2>2, <2>3
<1>10. CASE ForceLine(s)
  <2>1. ~ Cut(line'[s])
    BY <1>10, ForcedLine DEF ForceLine
  <2> QED BY <2>1
<1>11. CASE NextChunk(s)
  BY <1>11, <1>a DEF NextChunk
<1>12. CASE SendLine(s)
  BY <1>12, <1>a DEF SendLine
<1>13. CASE Publish(s)
  BY <1>13, <1>a DEF Publish
<1>14. CASE FinalLine(s)
  BY <1>14, <1>a DEF FinalLine
<1>15. CASE HangUp(s)
  BY <1>15, <1>a DEF HangUp
<1>16. CASE WriterJoined(s)
  BY <1>16, <1>a DEF WriterJoined
<1>17. CASE OpenLog(s)
  BY <1>17, <1>a DEF OpenLog
<1>18. CASE Gather(s)
  BY <1>18, <1>a DEF Gather
<1>19. CASE WriteTimer(s)
  BY <1>19, <1>a DEF WriteTimer
<1>20. CASE ChannelClosed(s)
  BY <1>20, <1>a DEF ChannelClosed
<1>21. CASE FlushBatch(s)
  BY <1>21, <1>a DEF FlushBatch
<1>22. CASE FinalFlush(s)
  BY <1>22, <1>a DEF FinalFlush
<1>23. CASE FlushFails(s)
  BY <1>23, <1>a DEF FlushFails, Fail
<1>24. CASE AppendBatch(s)
  BY <1>24, <1>a DEF AppendBatch
<1>25. CASE AppendFails(s)
  BY <1>25, <1>a DEF AppendFails
<1>26. CASE OpenFails(s)
  BY <1>26, <1>a DEF OpenFails, Fail
<1> QED
  BY <1>1, <1>2, <1>3, <1>4, <1>5, <1>6, <1>7, <1>8, <1>9, <1>10, <1>11, <1>12, <1>13, <1>14, <1>15, <1>16, <1>17, <1>18, <1>19, <1>20, <1>21, <1>22, <1>23, <1>24, <1>25, <1>26 DEF StepOf, Processor, Writer, Disk

LEMMA StepEntriesCut ==
  ASSUME Types, NEW s \in Streams, PlaceInv(s), WriterPlaceInv(s), WholeInv(s), CutInv(s), StepOf(s)
  PROVE  EntriesCut(s)'
<1>a. Quiet(s) => Quiet(s)' /\ (line[s] = <<>> => line'[s] = <<>>)
  BY StepQuiet
<1> USE DEF Types, childVars, procVars, writerVars, To, CutInv, EntriesCut
<1>1. CASE Write(s)
  BY <1>1, <1>a DEF Write
<1>2. CASE Close(s)
  BY <1>2, <1>a DEF Close
<1>3. CASE ReadChunk(s)
  BY <1>3, <1>a DEF ReadChunk
<1>4. CASE CreateWriter(s)
  BY <1>4, <1>a DEF CreateWriter
<1>5. CASE Receive(s)
  BY <1>5, <1>a DEF Receive
<1>6. CASE BatchTimeout(s)
  BY <1>6, <1>a DEF BatchTimeout
<1>7. CASE StreamEnds(s)
  BY <1>7, <1>a DEF StreamEnds
<1>8. CASE TakeChunk(s)
  BY <1>8, <1>a DEF TakeChunk
<1>9. CASE ExtractLine(s)
  BY <1>9, <1>a DEF ExtractLine
<1>10. CASE ForceLine(s)
  BY <1>10, <1>a DEF ForceLine
<1>11. CASE NextChunk(s)
  BY <1>11, <1>a DEF NextChunk
<1>12. CASE SendLine(s)
  <2>1. line[s] # <<>>
    BY <1>12, WholeIsSomething DEF SendLine, WholeInv
  <2>2. \A n \in DOMAIN entries[s] : ~ Cut(entries[s][n])
    BY <2>1
  <2>3. entries[s] \in Texts /\ line[s] \in Text /\ line'[s] = <<>>
        /\ (entries'[s] = entries[s] \/ entries'[s] = Append(entries[s], line[s]))
    BY <1>12 DEF SendLine
  <2>4. CASE entries'[s] = entries[s]
    BY <2>2, <2>4
  <2>5. CASE entries'[s] = Append(entries[s], line[s])
    <3>1. \A n \in DOMAIN entries'[s] : n = Len(entries'[s]) \/ ~ Cut(entries'[s][n])
      BY <2>2, <2>3, <2>5, OneMoreText
    <3>2. entries'[s][Len(entries'[s])] = line[s]
      BY <2>3, <2>5, OneMoreText
    <3>3. Cut(line[s]) => Quiet(s)'
      BY <1>12, <1>a DEF SendLine, LineCut
    <3> QED BY <2>3, <3>1, <3>2, <3>3, Zenon
  <2> QED BY <2>3, <2>4, <2>5
<1>13. CASE Publish(s)
  BY <1>13, <1>a DEF Publish
<1>14. CASE FinalLine(s)
  BY <1>14, <1>a DEF FinalLine
<1>15. CASE HangUp(s)
  BY <1>15, <1>a DEF HangUp
<1>16. CASE WriterJoined(s)
  BY <1>16, <1>a DEF WriterJoined
<1>17. CASE OpenLog(s)
  BY <1>17, <1>a DEF OpenLog
<1>18. CASE Gather(s)
  <2>1. entries[s] \in Texts /\ entries[s] # <<>> /\ entries'[s] = Tail(entries[s])
    BY <1>18 DEF Gather
  <2>2. ASSUME NEW n \in DOMAIN entries'[s], Cut(entries'[s][n])
        PROVE  Quiet(s)' /\ n = Len(entries'[s]) /\ line'[s] = <<>>
    <3>1. /\ n \in 1 .. Len(entries[s]) - 1 /\ Len(entries[s]) \in Nat
          /\ entries'[s][n] = entries[s][n + 1] /\ n + 1 \in DOMAIN entries[s]
          /\ Len(entries'[s]) = Len(entries[s]) - 1
      BY <2>1, FirstText
    <3>2. Quiet(s) /\ n + 1 = Len(entries[s]) /\ line[s] = <<>>
      BY <2>2, <3>1
    <3> QED BY <3>1, <3>2, <1>a
  <2> QED BY <2>2
<1>19. CASE WriteTimer(s)
  BY <1>19, <1>a DEF WriteTimer
<1>20. CASE ChannelClosed(s)
  BY <1>20, <1>a DEF ChannelClosed
<1>21. CASE FlushBatch(s)
  BY <1>21, <1>a DEF FlushBatch
<1>22. CASE FinalFlush(s)
  BY <1>22, <1>a DEF FinalFlush
<1>23. CASE FlushFails(s)
  BY <1>23, <1>a DEF FlushFails, Fail
<1>24. CASE AppendBatch(s)
  BY <1>24, <1>a DEF AppendBatch
<1>25. CASE AppendFails(s)
  BY <1>25, <1>a DEF AppendFails
<1>26. CASE OpenFails(s)
  BY <1>26, <1>a DEF OpenFails, Fail
<1> QED
  BY <1>1, <1>2, <1>3, <1>4, <1>5, <1>6, <1>7, <1>8, <1>9, <1>10, <1>11, <1>12, <1>13, <1>14, <1>15, <1>16, <1>17, <1>18, <1>19, <1>20, <1>21, <1>22, <1>23, <1>24, <1>25, <1>26 DEF StepOf, Processor, Writer, Disk

LEMMA StepWbatchCut ==
  ASSUME Types, NEW s \in Streams, PlaceInv(s), WriterPlaceInv(s), WholeInv(s), CutInv(s), StepOf(s)
  PROVE  WbatchCut(s)'
<1>a. Quiet(s) => Quiet(s)' /\ (line[s] = <<>> => line'[s] = <<>>)
  BY StepQuiet
<1> USE DEF Types, childVars, procVars, writerVars, To, CutInv, WbatchCut
<1>1. CASE Write(s)
  BY <1>1, <1>a DEF Write
<1>2. CASE Close(s)
  BY <1>2, <1>a DEF Close
<1>3. CASE ReadChunk(s)
  BY <1>3, <1>a DEF ReadChunk
<1>4. CASE CreateWriter(s)
  BY <1>4, <1>a DEF CreateWriter
<1>5. CASE Receive(s)
  BY <1>5, <1>a DEF Receive
<1>6. CASE BatchTimeout(s)
  BY <1>6, <1>a DEF BatchTimeout
<1>7. CASE StreamEnds(s)
  BY <1>7, <1>a DEF StreamEnds
<1>8. CASE TakeChunk(s)
  BY <1>8, <1>a DEF TakeChunk
<1>9. CASE ExtractLine(s)
  BY <1>9, <1>a DEF ExtractLine
<1>10. CASE ForceLine(s)
  BY <1>10, <1>a DEF ForceLine
<1>11. CASE NextChunk(s)
  BY <1>11, <1>a DEF NextChunk
<1>12. CASE SendLine(s)
  <2>1. line[s] # <<>>
    BY <1>12, WholeIsSomething DEF SendLine, WholeInv
  <2>2. \A n \in DOMAIN wbatch[s] : ~ Cut(wbatch[s][n])
    BY <2>1
  <2> QED BY <1>12, <2>2 DEF SendLine
<1>13. CASE Publish(s)
  BY <1>13, <1>a DEF Publish
<1>14. CASE FinalLine(s)
  BY <1>14, <1>a DEF FinalLine
<1>15. CASE HangUp(s)
  BY <1>15, <1>a DEF HangUp
<1>16. CASE WriterJoined(s)
  BY <1>16, <1>a DEF WriterJoined
<1>17. CASE OpenLog(s)
  BY <1>17, <1>a DEF OpenLog
<1>18. CASE Gather(s)
  <2>1. /\ entries[s] \in Texts /\ entries[s] # <<>> /\ entries'[s] = Tail(entries[s])
        /\ wbatch[s] \in Texts /\ wbatch'[s] = Append(wbatch[s], Head(entries[s]))
    BY <1>18 DEF Gather
  <2>2. /\ Head(entries[s]) = entries[s][1] /\ 1 \in DOMAIN entries[s] /\ Head(entries[s]) \in Text
    BY <2>1, FirstText DEF Texts
  <2>3. \A n \in DOMAIN wbatch[s] : ~ Cut(wbatch[s][n])
    BY <2>1
  <2>4. \A n \in DOMAIN wbatch'[s] : n = Len(wbatch'[s]) \/ ~ Cut(wbatch'[s][n])
    BY <2>1, <2>2, <2>3, OneMoreText
  <2>5. wbatch'[s][Len(wbatch'[s])] = entries[s][1]
    BY <2>1, <2>2, OneMoreText
  <2>6. Cut(entries[s][1]) => Quiet(s)' /\ line'[s] = <<>> /\ entries'[s] = <<>>
    <3>1. Cut(entries[s][1]) => Quiet(s) /\ 1 = Len(entries[s]) /\ line[s] = <<>>
      BY <2>2 DEF EntriesCut
    <3>2. 1 = Len(entries[s]) => entries'[s] = <<>>
      <4>1. 1 = Len(entries[s]) => Len(entries'[s]) = 0
        BY <2>1, FirstText
      <4>2. entries'[s] \in Seq(Text)
        BY <2>1, FirstText DEF Texts
      <4> QED BY <4>1, <4>2, EmptySeq
    <3> QED BY <3>1, <3>2, <1>a
  <2> QED BY <2>4, <2>5, <2>6, Zenon
<1>19. CASE WriteTimer(s)
  BY <1>19, <1>a DEF WriteTimer
<1>20. CASE ChannelClosed(s)
  BY <1>20, <1>a DEF ChannelClosed
<1>21. CASE FlushBatch(s)
  BY <1>21 DEF FlushBatch
<1>22. CASE FinalFlush(s)
  BY <1>22, <1>a DEF FinalFlush
<1>23. CASE FlushFails(s)
  BY <1>23, <1>a DEF FlushFails, Fail
<1>24. CASE AppendBatch(s)
  BY <1>24, <1>a DEF AppendBatch
<1>25. CASE AppendFails(s)
  BY <1>25, <1>a DEF AppendFails
<1>26. CASE OpenFails(s)
  BY <1>26, <1>a DEF OpenFails, Fail
<1> QED
  BY <1>1, <1>2, <1>3, <1>4, <1>5, <1>6, <1>7, <1>8, <1>9, <1>10, <1>11, <1>12, <1>13, <1>14, <1>15, <1>16, <1>17, <1>18, <1>19, <1>20, <1>21, <1>22, <1>23, <1>24, <1>25, <1>26 DEF StepOf, Processor, Writer, Disk

LEMMA StepInflightCut ==
  ASSUME Types, NEW s \in Streams, PlaceInv(s), WriterPlaceInv(s), WholeInv(s), CutInv(s), StepOf(s)
  PROVE  InflightCut(s)'
<1>a. Quiet(s) => Quiet(s)' /\ (line[s] = <<>> => line'[s] = <<>>)
  BY StepQuiet
<1> USE DEF Types, childVars, procVars, writerVars, To, CutInv, InflightCut
<1>1. CASE Write(s)
  BY <1>1, <1>a DEF Write
<1>2. CASE Close(s)
  BY <1>2, <1>a DEF Close
<1>3. CASE ReadChunk(s)
  BY <1>3, <1>a DEF ReadChunk
<1>4. CASE CreateWriter(s)
  BY <1>4, <1>a DEF CreateWriter
<1>5. CASE Receive(s)
  BY <1>5, <1>a DEF Receive
<1>6. CASE BatchTimeout(s)
  BY <1>6, <1>a DEF BatchTimeout
<1>7. CASE StreamEnds(s)
  BY <1>7, <1>a DEF StreamEnds
<1>8. CASE TakeChunk(s)
  BY <1>8, <1>a DEF TakeChunk
<1>9. CASE ExtractLine(s)
  BY <1>9, <1>a DEF ExtractLine
<1>10. CASE ForceLine(s)
  BY <1>10, <1>a DEF ForceLine
<1>11. CASE NextChunk(s)
  BY <1>11, <1>a DEF NextChunk
<1>12. CASE SendLine(s)
  <2>1. line[s] # <<>>
    BY <1>12, WholeIsSomething DEF SendLine, WholeInv
  <2>2. \A n \in DOMAIN inflight[s] : ~ CutRecord(s, inflight[s][n])
    BY <2>1
  <2> QED BY <1>12, <2>2 DEF SendLine
<1>13. CASE Publish(s)
  BY <1>13, <1>a DEF Publish
<1>14. CASE FinalLine(s)
  BY <1>14, <1>a DEF FinalLine
<1>15. CASE HangUp(s)
  BY <1>15, <1>a DEF HangUp
<1>16. CASE WriterJoined(s)
  BY <1>16, <1>a DEF WriterJoined
<1>17. CASE OpenLog(s)
  <2>1. inflight'[s] = <<AddedNewline(s)>> \/ inflight'[s] = <<>>
    BY <1>17 DEF OpenLog
  <2>2. \A n \in DOMAIN inflight'[s] : ~ CutRecord(s, inflight'[s][n])
    BY <2>1 DEF CutRecord, AddedNewline, Record
  <2> QED BY <2>2
<1>18. CASE Gather(s)
  <2>1. \A n \in DOMAIN inflight[s] : ~ CutRecord(s, inflight[s][n])
    BY <1>18 DEF Gather
  <2> QED BY <1>18, <2>1 DEF Gather
<1>19. CASE WriteTimer(s)
  BY <1>19, <1>a DEF WriteTimer
<1>20. CASE ChannelClosed(s)
  BY <1>20, <1>a DEF ChannelClosed
<1>21. CASE FlushBatch(s)
  <2>1. /\ inflight'[s] = Lines(s, wbatch[s]) /\ wbatch'[s] = <<>> /\ wbatch[s] \in Texts
        /\ line'[s] = line[s] /\ entries'[s] = entries[s]
    BY <1>21 DEF FlushBatch, Lines
  <2>2. /\ Len(wbatch[s]) \in Nat /\ DOMAIN wbatch[s] = 1 .. Len(wbatch[s])
    BY <2>1 DEF Texts
  <2>3. /\ Len(inflight'[s]) = Len(wbatch[s]) /\ DOMAIN inflight'[s] = DOMAIN wbatch[s]
        /\ \A n \in DOMAIN wbatch[s] : inflight'[s][n] = Record(s, wbatch[s][n])
    BY <2>1, <2>2 DEF Lines
  <2>4. ASSUME NEW n \in DOMAIN inflight'[s], CutRecord(s, inflight'[s][n])
        PROVE  Quiet(s)' /\ n = Len(inflight'[s]) /\ line'[s] = <<>> /\ entries'[s] = <<>>
    <3>1. Cut(wbatch[s][n]) /\ n \in DOMAIN wbatch[s]
      <4>1. inflight'[s][n].text = wbatch[s][n] /\ n \in DOMAIN wbatch[s]
        <5>1. n \in DOMAIN wbatch[s]
          BY <2>3, <2>4, Zenon
        <5>2. inflight'[s][n] = Record(s, wbatch[s][n])
          BY <2>3, <5>1, Zenon
        <5>3. Record(s, wbatch[s][n]).text = wbatch[s][n]
          BY DEF Record
        <5> QED BY <5>1, <5>2, <5>3, Zenon
      <4>2. Cut(inflight'[s][n].text)
        BY <2>4, Zenon DEF CutRecord
      <4> QED BY <4>1, <4>2, Zenon
    <3>2. Quiet(s) /\ n = Len(wbatch[s]) /\ line[s] = <<>> /\ entries[s] = <<>>
      BY <3>1 DEF WbatchCut
    <3> QED BY <2>1, <2>3, <3>2, <1>a
  <2> QED BY <2>1, <2>4
<1>22. CASE FinalFlush(s)
  BY <1>22, <1>a DEF FinalFlush
<1>23. CASE FlushFails(s)
  BY <1>23, <1>a DEF FlushFails, Fail
<1>24. CASE AppendBatch(s)
  BY <1>24, <1>a DEF AppendBatch
<1>25. CASE AppendFails(s)
  BY <1>25, <1>a DEF AppendFails
<1>26. CASE OpenFails(s)
  BY <1>26, <1>a DEF OpenFails, Fail
<1> QED
  BY <1>1, <1>2, <1>3, <1>4, <1>5, <1>6, <1>7, <1>8, <1>9, <1>10, <1>11, <1>12, <1>13, <1>14, <1>15, <1>16, <1>17, <1>18, <1>19, <1>20, <1>21, <1>22, <1>23, <1>24, <1>25, <1>26 DEF StepOf, Processor, Writer, Disk

LEMMA StepFileCut ==
  ASSUME Types, NEW s \in Streams, PlaceInv(s), WriterPlaceInv(s), WholeInv(s), CutInv(s), StepOf(s)
  PROVE  FileCut(s)'
<1>a. Quiet(s) => Quiet(s)' /\ (line[s] = <<>> => line'[s] = <<>>)
  BY StepQuiet
<1> USE DEF Types, childVars, procVars, writerVars, To, CutInv, FileCut
<1>1. CASE Write(s)
  BY <1>1, <1>a DEF Write
<1>2. CASE Close(s)
  BY <1>2, <1>a DEF Close
<1>3. CASE ReadChunk(s)
  BY <1>3, <1>a DEF ReadChunk
<1>4. CASE CreateWriter(s)
  BY <1>4, <1>a DEF CreateWriter
<1>5. CASE Receive(s)
  BY <1>5, <1>a DEF Receive
<1>6. CASE BatchTimeout(s)
  BY <1>6, <1>a DEF BatchTimeout
<1>7. CASE StreamEnds(s)
  BY <1>7, <1>a DEF StreamEnds
<1>8. CASE TakeChunk(s)
  BY <1>8, <1>a DEF TakeChunk
<1>9. CASE ExtractLine(s)
  BY <1>9, <1>a DEF ExtractLine
<1>10. CASE ForceLine(s)
  BY <1>10, <1>a DEF ForceLine
<1>11. CASE NextChunk(s)
  BY <1>11, <1>a DEF NextChunk
<1>12. CASE SendLine(s)
  <2>1. line[s] # <<>>
    BY <1>12, WholeIsSomething DEF SendLine, WholeInv
  <2>2. \A n \in DOMAIN file : ~ CutRecord(s, file[n])
    BY <2>1
  <2> QED BY <1>12, <2>2 DEF SendLine
<1>13. CASE Publish(s)
  BY <1>13, <1>a DEF Publish
<1>14. CASE FinalLine(s)
  BY <1>14, <1>a DEF FinalLine
<1>15. CASE HangUp(s)
  BY <1>15, <1>a DEF HangUp
<1>16. CASE WriterJoined(s)
  BY <1>16, <1>a DEF WriterJoined
<1>17. CASE OpenLog(s)
  <2>1. inflight'[s] = <<AddedNewline(s)>> \/ inflight'[s] = <<>>
    BY <1>17 DEF OpenLog
  <2>2. \A m \in DOMAIN inflight'[s] : inflight'[s][m].text = <<0>>
    BY <2>1 DEF AddedNewline, Record
  <2> QED BY <1>17, <1>a, <2>2 DEF OpenLog
<1>18. CASE Gather(s)
  <2>1. \A n \in DOMAIN file : ~ CutRecord(s, file[n])
    BY <1>18 DEF Gather
  <2> QED BY <1>18, <2>1 DEF Gather
<1>19. CASE WriteTimer(s)
  BY <1>19, <1>a DEF WriteTimer
<1>20. CASE ChannelClosed(s)
  BY <1>20, <1>a DEF ChannelClosed
<1>21. CASE FlushBatch(s)
  <2>1. \A n \in DOMAIN file : ~ CutRecord(s, file[n])
    BY <1>21 DEF FlushBatch
  <2> QED BY <1>21, <2>1 DEF FlushBatch
<1>22. CASE FinalFlush(s)
  BY <1>22, <1>a DEF FinalFlush
<1>23. CASE FlushFails(s)
  BY <1>23, <1>a DEF FlushFails, Fail
<1>24. CASE AppendBatch(s)
  <2>1. /\ file \in Files /\ inflight[s] \in Files /\ file' = file \o inflight[s] /\ inflight'[s] = <<>>
        /\ line'[s] = line[s] /\ entries'[s] = entries[s] /\ wbatch'[s] = wbatch[s]
    BY <1>24, FlyingTypes DEF AppendBatch
  <2> DEFINE k == Len(file)
             l == Len(inflight[s])
  <2>2. /\ k \in Nat /\ l \in Nat /\ DOMAIN file = 1 .. k /\ DOMAIN inflight[s] = 1 .. l
        /\ DOMAIN file' = 1 .. k + l /\ Len(file') = k + l
        /\ \A n \in 1 .. k + l : file'[n] = IF n <= k THEN file[n] ELSE inflight[s][n - k]
    BY <2>1, FilesConcat
  <2> HIDE DEF k, l
  <2>3. ASSUME NEW n \in 1 .. k, CutRecord(s, file[n])
        PROVE  /\ Quiet(s)' /\ line'[s] = <<>> /\ entries'[s] = <<>> /\ wbatch'[s] = <<>>
               /\ \A m \in n + 1 .. k + l : file'[m].from = s => file'[m].text = <<0>>
    <3>1. /\ Quiet(s) /\ line[s] = <<>> /\ entries[s] = <<>> /\ wbatch[s] = <<>>
          /\ \A m \in 1 .. l : inflight[s][m].text = <<0>>
          /\ \A m \in n + 1 .. k : file[m].from = s => file[m].text = <<0>>
      BY <2>2, <2>3 DEF k
    <3>2. ASSUME NEW m \in n + 1 .. k + l, file'[m].from = s PROVE file'[m].text = <<0>>
      <4>1. CASE m <= k
        BY <2>2, <3>1, <3>2, <4>1
      <4>2. CASE m > k
        <5>1. m - k \in 1 .. l /\ file'[m] = inflight[s][m - k]
          BY <2>2, <4>2
        <5> QED BY <3>1, <5>1
      <4> QED BY <2>2, <4>1, <4>2
    <3> QED BY <2>1, <3>1, <3>2, <1>a
  <2>4. ASSUME NEW n \in k + 1 .. k + l, CutRecord(s, inflight[s][n - k])
        PROVE  /\ Quiet(s)' /\ line'[s] = <<>> /\ entries'[s] = <<>> /\ wbatch'[s] = <<>>
               /\ n = k + l
    <3>1. n - k \in 1 .. l
      BY <2>2
    <3>2. Quiet(s) /\ n - k = l /\ line[s] = <<>> /\ entries[s] = <<>> /\ wbatch[s] = <<>>
      BY <2>2, <2>4, <3>1 DEF InflightCut, l
    <3> QED BY <2>1, <2>2, <3>2, <1>a
  <2>5. ASSUME NEW n \in 1 .. k + l, CutRecord(s, file'[n])
        PROVE  /\ Quiet(s)' /\ line'[s] = <<>> /\ entries'[s] = <<>> /\ wbatch'[s] = <<>>
               /\ \A m \in n + 1 .. k + l : file'[m].from = s => file'[m].text = <<0>>
    <3>1. CASE n <= k
      BY <2>2, <2>3, <2>5, <3>1
    <3>2. CASE n > k
      BY <2>2, <2>4, <2>5, <3>2
    <3> QED BY <2>2, <3>1, <3>2
  <2>6. \A m \in DOMAIN inflight'[s] : inflight'[s][m].text = <<0>>
    BY <2>1
  <2> QED BY <2>2, <2>5, <2>6
<1>25. CASE AppendFails(s)
  BY <1>25, <1>a DEF AppendFails
<1>26. CASE OpenFails(s)
  BY <1>26, <1>a DEF OpenFails, Fail
<1> QED
  BY <1>1, <1>2, <1>3, <1>4, <1>5, <1>6, <1>7, <1>8, <1>9, <1>10, <1>11, <1>12, <1>13, <1>14, <1>15, <1>16, <1>17, <1>18, <1>19, <1>20, <1>21, <1>22, <1>23, <1>24, <1>25, <1>26 DEF StepOf, Processor, Writer, Disk

-----------------------------------------------------------------------------
(* The shared file.                                                        *)

LEMMA StepFile ==
  ASSUME NEW s \in Streams, StepOf(s)
  PROVE  AppendBatch(s) \/ file' = file
<1>1. CASE Write(s)
  BY <1>1 DEF Write
<1>2. CASE Close(s)
  BY <1>2 DEF Close
<1>3. CASE ReadChunk(s)
  BY <1>3 DEF ReadChunk
<1>4. CASE CreateWriter(s)
  BY <1>4 DEF CreateWriter
<1>5. CASE Receive(s)
  BY <1>5 DEF Receive
<1>6. CASE BatchTimeout(s)
  BY <1>6 DEF BatchTimeout
<1>7. CASE StreamEnds(s)
  BY <1>7 DEF StreamEnds
<1>8. CASE TakeChunk(s)
  BY <1>8 DEF TakeChunk
<1>9. CASE ExtractLine(s)
  BY <1>9 DEF ExtractLine
<1>10. CASE ForceLine(s)
  BY <1>10 DEF ForceLine
<1>11. CASE NextChunk(s)
  BY <1>11 DEF NextChunk
<1>12. CASE SendLine(s)
  BY <1>12 DEF SendLine
<1>13. CASE Publish(s)
  BY <1>13 DEF Publish
<1>14. CASE FinalLine(s)
  BY <1>14 DEF FinalLine
<1>15. CASE HangUp(s)
  BY <1>15 DEF HangUp
<1>16. CASE WriterJoined(s)
  BY <1>16 DEF WriterJoined
<1>17. CASE OpenLog(s)
  BY <1>17 DEF OpenLog
<1>18. CASE Gather(s)
  BY <1>18 DEF Gather
<1>19. CASE WriteTimer(s)
  BY <1>19 DEF WriteTimer
<1>20. CASE ChannelClosed(s)
  BY <1>20 DEF ChannelClosed
<1>21. CASE FlushBatch(s)
  BY <1>21 DEF FlushBatch
<1>22. CASE FinalFlush(s)
  BY <1>22 DEF FinalFlush
<1>23. CASE FlushFails(s)
  BY <1>23 DEF FlushFails, Fail
<1>24. CASE AppendBatch(s)
  BY <1>24
<1>25. CASE AppendFails(s)
  BY <1>25 DEF AppendFails
<1>26. CASE OpenFails(s)
  BY <1>26 DEF OpenFails, Fail
<1> QED
  BY <1>1, <1>2, <1>3, <1>4, <1>5, <1>6, <1>7, <1>8, <1>9, <1>10, <1>11, <1>12, <1>13, <1>14, <1>15, <1>16, <1>17, <1>18, <1>19, <1>20, <1>21, <1>22, <1>23, <1>24, <1>25, <1>26 DEF StepOf, Processor, Writer, Disk

(* After an append, every record is an old one or one of the batch. *)
LEMMA AppendedRecords ==
  ASSUME Types, NEW s \in Streams, AppendBatch(s)
  PROVE  LET k == Len(file)
             l == Len(inflight[s]) IN
         /\ k \in Nat /\ l \in Nat \ {0} /\ DOMAIN file = 1 .. k /\ DOMAIN inflight[s] = 1 .. l
         /\ Len(file') = k + l /\ DOMAIN file' = 1 .. k + l
         /\ \A n \in 1 .. k + l : file'[n] = IF n <= k THEN file[n] ELSE inflight[s][n - k]
<1>1. /\ file \in Files /\ inflight[s] \in Files /\ file' = file \o inflight[s]
  BY FlyingTypes DEF AppendBatch, Types
<1>2. Len(inflight[s]) # 0
  BY <1>1, EmptySeq DEF AppendBatch, Files
<1> QED
  BY <1>1, <1>2, FilesConcat

LEMMA StepFileWhole ==
  ASSUME Types, NEW s \in Streams, FileWhole, WholeInv(s), StepOf(s)
  PROVE  FileWhole'
<1>1. CASE file' = file
  BY <1>1 DEF FileWhole
<1>2. CASE AppendBatch(s)
  <2> DEFINE k == Len(file)
             l == Len(inflight[s])
  <2>2. /\ k \in Nat /\ l \in Nat \ {0} /\ DOMAIN file = 1 .. k /\ DOMAIN inflight[s] = 1 .. l
        /\ DOMAIN file' = 1 .. k + l
        /\ \A n \in 1 .. k + l : file'[n] = IF n <= k THEN file[n] ELSE inflight[s][n - k]
    BY <1>2, AppendedRecords
  <2> HIDE DEF k, l
  <2>3. ASSUME NEW n \in 1 .. k + l, file'[n].from \in Streams
        PROVE  file'[n].text = <<0>> \/ Whole(file'[n].text)
    <3>1. CASE n <= k
      BY <2>2, <2>3, <3>1 DEF FileWhole
    <3>2. CASE n > k
      <4>1. n - k \in 1 .. l /\ file'[n] = inflight[s][n - k]
        BY <2>2, <3>2
      <4> QED BY <2>2, <4>1 DEF WholeInv
    <3> QED BY <2>2, <3>1, <3>2
  <2> QED BY <2>2, <2>3 DEF FileWhole
<1> QED
  BY <1>1, <1>2, StepFile

LEMMA WholeEndsLine ==
  /\ \A text : Whole(text) => EndsLine(text)
  /\ EndsLine(<<0>>)
<1>1. \A text : Whole(text) => EndsLine(text)
  BY DEF Whole, EndsLine
<1>2. <<0>> # <<>> /\ Last(<<0>>) = 0
  BY DEF Last
<1> QED
  BY <1>1, <1>2 DEF EndsLine, IsNewline

(* What the file's torn end asks of a writer. *)
Mending(s) ==
  writer[s] \in {"running", "flush", "closing", "done"} /\ s \notin failing =>
    inflight[s] = <<AddedNewline(s)>>

LEMMA StepMending ==
  ASSUME Types, NEW s \in Streams, PlaceInv(s), WriterPlaceInv(s), Torn, Mending(s), StepOf(s),
         file' = file
  PROVE  Mending(s)'
<1>0. <<AddedNewline(s)>> # <<>>
  OBVIOUS
<1> USE DEF Types, childVars, procVars, writerVars, To, Mending
<1>1. CASE Write(s)
  BY <1>1, <1>0 DEF Write
<1>2. CASE Close(s)
  BY <1>2, <1>0 DEF Close
<1>3. CASE ReadChunk(s)
  BY <1>3, <1>0 DEF ReadChunk
<1>4. CASE CreateWriter(s)
  BY <1>4, <1>0 DEF CreateWriter
<1>5. CASE Receive(s)
  BY <1>5, <1>0 DEF Receive
<1>6. CASE BatchTimeout(s)
  BY <1>6, <1>0 DEF BatchTimeout
<1>7. CASE StreamEnds(s)
  BY <1>7, <1>0 DEF StreamEnds
<1>8. CASE TakeChunk(s)
  BY <1>8, <1>0 DEF TakeChunk
<1>9. CASE ExtractLine(s)
  BY <1>9, <1>0 DEF ExtractLine
<1>10. CASE ForceLine(s)
  BY <1>10, <1>0 DEF ForceLine
<1>11. CASE NextChunk(s)
  BY <1>11, <1>0 DEF NextChunk
<1>12. CASE SendLine(s)
  BY <1>12, <1>0 DEF SendLine
<1>13. CASE Publish(s)
  BY <1>13, <1>0 DEF Publish
<1>14. CASE FinalLine(s)
  BY <1>14, <1>0 DEF FinalLine
<1>15. CASE HangUp(s)
  BY <1>15, <1>0 DEF HangUp
<1>16. CASE WriterJoined(s)
  BY <1>16, <1>0 DEF WriterJoined
<1>17. CASE OpenLog(s)
  BY <1>17 DEF OpenLog, Torn
<1>18. CASE Gather(s)
  BY <1>18, <1>0 DEF Gather
<1>19. CASE WriteTimer(s)
  BY <1>19, <1>0 DEF WriteTimer
<1>20. CASE ChannelClosed(s)
  BY <1>20, <1>0 DEF ChannelClosed
<1>21. CASE FlushBatch(s)
  BY <1>21, <1>0 DEF FlushBatch
<1>22. CASE FinalFlush(s)
  BY <1>22, <1>0 DEF FinalFlush
<1>23. CASE FlushFails(s)
  BY <1>23 DEF FlushFails, Fail
<1>24. CASE AppendBatch(s)
  BY <1>24 DEF AppendBatch, Torn
<1>25. CASE AppendFails(s)
  BY <1>25, <1>0 DEF AppendFails
<1>26. CASE OpenFails(s)
  BY <1>26 DEF OpenFails, Fail
<1> QED
  BY <1>1, <1>2, <1>3, <1>4, <1>5, <1>6, <1>7, <1>8, <1>9, <1>10, <1>11, <1>12, <1>13, <1>14, <1>15, <1>16, <1>17, <1>18, <1>19, <1>20, <1>21, <1>22, <1>23, <1>24, <1>25, <1>26 DEF StepOf, Processor, Writer, Disk

LEMMA StepTorn ==
  ASSUME Types, Types', NEW s \in Streams, TornInv, PlaceInv(s), WriterPlaceInv(s), WholeInv(s), StepOf(s)
  PROVE  TornInv'
<1>1. CASE file' = file
  <2>1. Torn' <=> Torn
    BY <1>1 DEF Torn
  <2>2. ASSUME Torn, NEW u \in Streams PROVE Mending(u)'
    <3>1. Mending(u)
      BY <2>2 DEF TornInv, Mending
    <3>2. CASE u = s
      BY <1>1, <2>2, <3>1, <3>2, StepMending
    <3>3. CASE u # s
      <4>1. Untouched(u)
        BY <3>3, StepElsewhere
      <4> QED BY <3>1, <4>1 DEF Untouched, Mending, AddedNewline, Record
    <3> QED BY <3>2, <3>3
  <2> QED BY <1>1, <2>1, <2>2 DEF TornInv, Mending
<1>2. CASE AppendBatch(s)
  <2> DEFINE k == Len(file)
             l == Len(inflight[s])
  <2>2. /\ k \in Nat /\ l \in Nat \ {0} /\ DOMAIN file = 1 .. k /\ DOMAIN inflight[s] = 1 .. l
        /\ Len(file') = k + l /\ DOMAIN file' = 1 .. k + l
        /\ \A n \in 1 .. k + l : file'[n] = IF n <= k THEN file[n] ELSE inflight[s][n - k]
    BY <1>2, AppendedRecords
  <2> HIDE DEF k, l
  <2>3. \A n \in 1 .. l : EndsLine(inflight[s][n].text)
    BY <2>2, WholeEndsLine DEF WholeInv
  <2>4. ~ Torn'
    <3>1. Last(file') = inflight[s][l]
      BY <2>2 DEF Last
    <3> QED BY <2>2, <2>3, <3>1 DEF Torn
  <2>5. ASSUME NEW n \in 1 .. (k + l) - 1
        PROVE  EndsLine(file'[n].text) \/ file'[n + 1].text = <<0>>
    <3>1. CASE n < k
      <4>1. n \in 1 .. Len(file) - 1 /\ file'[n] = file[n] /\ file'[n + 1] = file[n + 1]
        BY <2>2, <3>1 DEF k
      <4> QED BY <4>1 DEF TornInv
    <3>2. CASE n = k
      <4>1. file'[n] = file[k] /\ file'[n + 1] = inflight[s][1] /\ Last(file) = file[k] /\ file # <<>>
        BY <2>2, <3>2 DEF Last, k
      <4>2. Torn => inflight[s][1].text = <<0>>
        <5>1. inflight[s] # <<>>
          BY <1>2 DEF AppendBatch
        <5>2. writer[s] \in {"running", "flush", "closing", "done"} /\ s \notin failing
          BY <5>1 DEF WriterPlaceInv, Types, WriterLabels
        <5>3. Torn => inflight[s] = <<AddedNewline(s)>>
          BY <5>2 DEF TornInv
        <5> QED BY <5>3 DEF AddedNewline, Record
      <4> QED BY <4>1, <4>2 DEF Torn
    <3>3. CASE n > k
      <4>1. n - k \in 1 .. l /\ file'[n] = inflight[s][n - k]
        BY <2>2, <3>3
      <4> QED BY <2>3, <4>1
    <3> QED BY <2>2, <3>1, <3>2, <3>3
  <2> QED BY <2>2, <2>4, <2>5 DEF TornInv
<1> QED
  BY <1>1, <1>2, StepFile

-----------------------------------------------------------------------------
(* The invariant as a whole.                                               *)

LEMMA NextIsStep == Next <=> \E s \in Streams : StepOf(s)
  BY DEF Next, Child, StepOf

LEMMA StepHere ==
  ASSUME Inv, Types', NEW s \in Streams, StepOf(s)
  PROVE  StreamInv(s)' /\ WithinBounds(s)'
<1>1. /\ Types /\ PlaceInv(s) /\ WriterPlaceInv(s) /\ BufferInv(s) /\ WithinBounds(s) /\ FromOwn(s)
      /\ ProcessorKeeps(s) /\ WriterKeeps(s) /\ WholeInv(s) /\ CutInv(s)
  BY DEF Inv, TypeOK, StreamInv
<1>2. PlaceInv(s)' /\ WriterPlaceInv(s)'
  BY <1>1, StepPlaces
<1>3. BufferInv(s)' /\ WithinBounds(s)'
  BY <1>1, StepBuffer
<1>4. FromOwn(s)'
  BY <1>1, StepFromOwn
<1>5. ProcessorKeeps(s)'
  BY <1>1, <1>3, StepKeeps
<1>6. WriterKeeps(s)'
  BY <1>1, StepWriterKeeps
<1>7. WholeInv(s)'
  BY <1>1, StepWhole
<1>8. CutInv(s)'
  <2>1. LineCut(s)'
    BY <1>1, StepLineCut DEF CutInv
  <2>2. EntriesCut(s)' /\ WbatchCut(s)' /\ InflightCut(s)' /\ FileCut(s)'
    BY <1>1, StepEntriesCut, StepWbatchCut, StepInflightCut, StepFileCut
  <2> QED BY <2>1, <2>2 DEF CutInv
<1> QED
  BY <1>2, <1>3, <1>4, <1>5, <1>6, <1>7, <1>8 DEF StreamInv

LEMMA StoredElsewhere ==
  ASSUME Types, NEW s \in Streams, NEW u \in Streams, u # s, FromOwn(s), StepOf(s)
  PROVE  Stored'[u] = Stored[u]
<1>1. Stored[u] = Own(TextsOf(u, file)) /\ Stored'[u] = Own(TextsOf(u, file'))
  BY DEF Stored
<1>2. CASE file' = file
  BY <1>1, <1>2
<1>3. CASE AppendBatch(s)
  <2>1. /\ file \in Files /\ inflight[s] \in Files /\ file' = file \o inflight[s]
    BY <1>3, FlyingTypes DEF AppendBatch, Types
  <2>2. TextsOf(u, file') = TextsOf(u, file) \o TextsOf(u, inflight[s])
    BY <2>1, TextsOfConcat, Zenon
  <2>3. Own(TextsOf(u, inflight[s])) = <<>>
    <3>1. \A n \in DOMAIN inflight[s] : inflight[s][n].from # u
      BY DEF FromOwn
    <3> QED BY <2>1, <3>1, OwnForeign
  <2>4. TextsOf(u, file) \in Texts /\ TextsOf(u, inflight[s]) \in Texts /\ Own(TextsOf(u, file)) \in Text
    BY <2>1, TextsOfIs, OwnIs, Zenon
  <2>5. Own(TextsOf(u, file')) = Own(TextsOf(u, file)) \o <<>>
    BY <2>2, <2>3, <2>4, OwnIs, Zenon
  <2> QED BY <1>1, <2>4, <2>5, Concat, Zenon
<1> QED
  BY <1>2, <1>3, StepFile

LEMMA FileCutElsewhere ==
  ASSUME Types, NEW s \in Streams, NEW u \in Streams, u # s, FromOwn(s), FileCut(u), StepOf(s)
  PROVE  FileCut(u)'
<1>1. Untouched(u)
  BY StepElsewhere
<1>2. CASE file' = file
  BY <1>1, <1>2 DEF FileCut, Untouched, Quiet
<1>3. CASE AppendBatch(s)
  <2> DEFINE k == Len(file)
             l == Len(inflight[s])
  <2>1. /\ k \in Nat /\ l \in Nat \ {0} /\ DOMAIN file = 1 .. k /\ DOMAIN inflight[s] = 1 .. l
        /\ Len(file') = k + l /\ DOMAIN file' = 1 .. k + l
        /\ \A n \in 1 .. k + l : file'[n] = IF n <= k THEN file[n] ELSE inflight[s][n - k]
    BY <1>3, AppendedRecords
  <2> HIDE DEF k, l
  <2>2. ASSUME NEW n \in 1 .. k + l, n > k PROVE file'[n].from # u
    <3>1. n - k \in 1 .. l /\ file'[n] = inflight[s][n - k]
      BY <2>1, <2>2
    <3> QED BY <2>1, <3>1 DEF FromOwn
  <2>3. ASSUME NEW n \in DOMAIN file', CutRecord(u, file'[n])
        PROVE  /\ Quiet(u)' /\ line'[u] = <<>> /\ entries'[u] = <<>> /\ wbatch'[u] = <<>>
               /\ \A m \in DOMAIN inflight'[u] : inflight'[u][m].text = <<0>>
               /\ \A m \in n + 1 .. Len(file') : file'[m].from = u => file'[m].text = <<0>>
    <3>1. n \in 1 .. k + l /\ n <= k
      BY <2>1, <2>2, <2>3 DEF CutRecord
    <3>2. n \in DOMAIN file /\ CutRecord(u, file[n])
      BY <2>1, <2>3, <3>1
    <3>3. /\ Quiet(u) /\ line[u] = <<>> /\ entries[u] = <<>> /\ wbatch[u] = <<>>
          /\ \A m \in DOMAIN inflight[u] : inflight[u][m].text = <<0>>
          /\ \A m \in n + 1 .. k : file[m].from = u => file[m].text = <<0>>
      BY <3>2 DEF FileCut, k
    <3>4. ASSUME NEW m \in n + 1 .. k + l, file'[m].from = u PROVE file'[m].text = <<0>>
      <4>1. m \in 1 .. k + l /\ m <= k /\ m \in n + 1 .. k
        BY <2>1, <2>2, <3>1, <3>4
      <4> QED BY <2>1, <3>3, <3>4, <4>1
    <3> QED BY <1>1, <2>1, <3>3, <3>4 DEF Untouched, Quiet
  <2> QED BY <2>3 DEF FileCut
<1> QED
  BY <1>2, <1>3, StepFile

LEMMA StepThere ==
  ASSUME Inv, NEW s \in Streams, NEW u \in Streams, u # s, StepOf(s)
  PROVE  StreamInv(u)' /\ WithinBounds(u)'
<1>1. /\ Types /\ PlaceInv(u) /\ WriterPlaceInv(u) /\ BufferInv(u) /\ WithinBounds(u) /\ FromOwn(u)
      /\ ProcessorKeeps(u) /\ WriterKeeps(u) /\ WholeInv(u) /\ CutInv(u) /\ FromOwn(s)
  BY DEF Inv, TypeOK, StreamInv
<1>2. Untouched(u)
  BY <1>1, StepElsewhere
<1>3. PlaceInv(u)' /\ WriterPlaceInv(u)'
  BY <1>1, <1>2 DEF Untouched, PlaceInv, WriterPlaceInv
<1>4. BufferInv(u)' /\ WithinBounds(u)'
  BY <1>1, <1>2 DEF Untouched, BufferInv, WithinBounds
<1>5. FromOwn(u)' /\ WholeInv(u)'
  BY <1>1, <1>2 DEF Untouched, FromOwn, WholeInv
<1>6. ProcessorKeeps(u)'
  BY <1>1, <1>2 DEF Untouched, ProcessorKeeps, Handed, Held, Buffered, Batched, Waiting
<1>7. WriterKeeps(u)'
  BY <1>1, <1>2, StoredElsewhere, LossyIs DEF Untouched, WriterKeeps, Handed, Flying, Queued
<1>8. CutInv(u)'
  <2>1. FileCut(u)'
    BY <1>1, FileCutElsewhere DEF CutInv
  <2>2. LineCut(u)' /\ EntriesCut(u)' /\ WbatchCut(u)' /\ InflightCut(u)'
    BY <1>1, <1>2 DEF CutInv, Untouched, LineCut, EntriesCut, WbatchCut, InflightCut, Quiet
  <2> QED BY <2>1, <2>2 DEF CutInv
<1> QED
  BY <1>3, <1>4, <1>5, <1>6, <1>7, <1>8 DEF StreamInv

LEMMA StepInv ==
  ASSUME Inv, NEW s \in Streams, StepOf(s)
  PROVE  Inv'
<1>1. Types /\ FileWhole /\ TornInv /\ StreamInv(s)
  BY DEF Inv, TypeOK
<1>2. Types'
  BY <1>1, StepTypes
<1>3. \A u \in Streams : StreamInv(u)' /\ WithinBounds(u)'
  BY <1>2, StepHere, StepThere
<1>4. FileWhole'
  BY <1>1, StepFileWhole DEF StreamInv
<1>5. TornInv'
  BY <1>1, <1>2, StepTorn DEF StreamInv
<1> QED
  BY <1>2, <1>3, <1>4, <1>5 DEF Inv, TypeOK

LEMMA HeldNothing ==
  ASSUME NEW s, pipe[s] = <<>>, chunks[s] = <<>>, batch[s] = <<>>, buffer[s] = <<>>, line[s] = <<>>
  PROVE  Held(s) = <<>>
<1>1. <<>> \o <<>> = <<>>
  BY Concat
<1>2. Waiting(s) = <<>>
  BY <1>1, Flatten, Zenon DEF Waiting
<1>3. Batched(s) = <<>>
  BY <1>1, <1>2, Flatten, Zenon DEF Batched
<1>4. Buffered(s) = <<>>
  BY <1>1, <1>3, UnmendedIs, Zenon DEF Buffered
<1> QED
  BY <1>1, <1>4, UnmendedIs, Zenon DEF Held

LEMMA InitTypes == Init => Types
<1> SUFFICES ASSUME Init PROVE Types
  OBVIOUS
<1>1. <<>> \in Bytes /\ <<>> \in Chunks /\ <<>> \in Text /\ <<>> \in Texts /\ <<>> \in Batches
  BY DEF Bytes, Chunks, Text, Texts, Batches
<1>2. file \in Files
  <2>1. <<1>> \in Text
    BY DEF Text
  <2>2. Record(Earlier, <<1>>) \in [from : Streams \cup {Earlier}, text : Text]
    BY <2>1 DEF Record
  <2>3. <<>> \in Files /\ <<Record(Earlier, <<1>>)>> \in Files
    BY <2>2 DEF Files
  <2> QED BY <2>3 DEF Init
<1> QED
  BY <1>1, <1>2 DEF Init, Types, ProcessorLabels, WriterLabels

LEMMA InitInv == Init => Inv
<1> SUFFICES ASSUME Init PROVE Inv
  OBVIOUS
<1>1. Types
  BY InitTypes
<1>2. ASSUME NEW s \in Streams
      PROVE  StreamInv(s) /\ WithinBounds(s)
  <2>1. PlaceInv(s) /\ WriterPlaceInv(s)
    BY <1>2, Sizes DEF Init, PlaceInv, WriterPlaceInv
  <2>2. BufferInv(s) /\ WithinBounds(s) /\ FromOwn(s) /\ WholeInv(s)
    BY <1>2, Sizes DEF Init, BufferInv, WithinBounds, FromOwn, WholeInv, AllWhole
  <2>3. /\ emitted[s] = <<>> /\ pipe[s] = <<>> /\ chunks[s] = <<>> /\ batch[s] = <<>>
        /\ buffer[s] = <<>> /\ line[s] = <<>> /\ collected[s] = <<>> /\ published[s] = <<>>
        /\ entries[s] = <<>> /\ wbatch[s] = <<>> /\ inflight[s] = <<>>
    BY <1>2 DEF Init
  <2>4. <<>> \o <<>> = <<>>
    BY Concat
  <2>5. Handed(s) = <<>>
    BY <2>3, <2>4, OwnIs, Zenon DEF Handed
  <2>6. ProcessorKeeps(s)
    <3>1. Held(s) = <<>>
      BY <2>3, HeldNothing
    <3> QED BY <2>3, <2>4, <2>5, <3>1, Zenon DEF ProcessorKeeps
  <2>7. \A n \in DOMAIN file : file[n].from # s
    BY PipelineAssumption DEF Init, Record
  <2>8. WriterKeeps(s)
    <3>1. Stored[s] = <<>>
      BY <1>1, <2>7, OwnForeign DEF Stored, Types
    <3>2. Flying(s) = <<>>
      BY <2>3, <2>4, OwnIs, OwnOfNone, Zenon DEF Flying, Queued
    <3> QED BY <2>4, <2>5, <3>1, <3>2, Zenon DEF WriterKeeps
  <2>9. CutInv(s)
    <3>1. FileCut(s)
      BY <2>7 DEF FileCut, CutRecord
    <3> QED BY <2>3, <3>1, <1>2
        DEF Init, CutInv, LineCut, EntriesCut, WbatchCut, InflightCut
  <2> QED BY <2>1, <2>2, <2>6, <2>8, <2>9 DEF StreamInv
<1>3. FileWhole
  BY PipelineAssumption DEF Init, FileWhole, Record
<1>4. TornInv
  <2>1. \A s \in Streams : writer[s] = "new"
    BY DEF Init
  <2>2. 1 .. Len(file) - 1 = {}
    <3>1. Len(file) = 0 \/ Len(file) = 1
      <4> DEFINE r == Record(Earlier, <<1>>)
      <4>1. file = <<>> \/ file = <<r>>
        BY DEF Init
      <4> HIDE DEF r
      <4> QED BY <4>1
    <3>2. 1 .. 0 - 1 = {} /\ 1 .. 1 - 1 = {}
      OBVIOUS
    <3> QED BY <3>1, <3>2, Zenon
  <2> QED BY <2>1, <2>2, Zenon DEF TornInv
<1> QED
  BY <1>1, <1>2, <1>3, <1>4 DEF Inv, TypeOK

LEMMA StutterInv ==
  ASSUME Inv, UNCHANGED vars
  PROVE  Inv'
<1>1. /\ Types' /\ FileWhole' /\ TornInv'
  BY DEF vars, childVars, procVars, writerVars, Inv, TypeOK, Types, FileWhole, TornInv, Torn
<1>2. ASSUME NEW u \in Streams PROVE StreamInv(u)' /\ WithinBounds(u)'
  <2>1. StreamInv(u) /\ WithinBounds(u) /\ Types
    BY DEF Inv, TypeOK
  <2>2. PlaceInv(u)' /\ WriterPlaceInv(u)' /\ BufferInv(u)' /\ WithinBounds(u)' /\ FromOwn(u)'
        /\ WholeInv(u)'
    BY <2>1 DEF vars, childVars, procVars, writerVars, StreamInv, PlaceInv, WriterPlaceInv, BufferInv,
               WithinBounds, FromOwn, WholeInv
  <2>3. ProcessorKeeps(u)'
    BY <2>1 DEF vars, childVars, procVars, writerVars, StreamInv, ProcessorKeeps, Handed, Held, Buffered,
               Batched, Waiting
  <2>4. WriterKeeps(u)'
    BY <2>1 DEF vars, childVars, procVars, writerVars, StreamInv, WriterKeeps, Handed, Flying, Queued, Stored, Lossy
  <2>5. CutInv(u)'
    BY <2>1 DEF vars, childVars, procVars, writerVars, StreamInv, CutInv, LineCut, EntriesCut, WbatchCut,
               InflightCut, FileCut, Quiet
  <2> QED BY <2>2, <2>3, <2>4, <2>5 DEF StreamInv
<1> QED
  BY <1>1, <1>2 DEF Inv, TypeOK

(* The inductive invariant holds in every state: where everyone is, what the
   line buffer holds, that the queues between the pipe and the readers add up
   to what the child wrote, and that what is on its way to the file is whole
   lines (hyperlog.rs:118-434, batch_writer.rs:42-172). *)
THEOREM PipelineInvariant == Spec => []Inv
<1>1. Inv /\ [Next]_vars => Inv'
  BY NextIsStep, StepInv, StutterInv
<1> QED
  BY <1>1, InitInv, PTL DEF Spec

(* Every variable keeps its type, and no queue outgrows its bound, for all
   sizes of the channels and batches (hyperlog.rs:13-17, batch_writer.rs:11-13). *)
THEOREM TypesHold == Spec => []TypeOK
<1>1. Inv => TypeOK
  BY DEF Inv
<1> QED
  BY <1>1, PipelineInvariant, PTL

LEMMA WholeLineEnd ==
  ASSUME NEW text \in Text, Whole(text)
  PROVE  NewlineAt(text) = Len(text)
<1>1. /\ Len(text) \in Nat \ {0} /\ DOMAIN text = 1 .. Len(text) /\ IsNewline(text[Len(text)])
      /\ \A m \in 1 .. Len(text) - 1 : ~ IsNewline(text[m])
  <2>1. Len(text) \in Nat \ {0} /\ DOMAIN text = 1 .. Len(text)
    BY DEF Whole, Text
  <2>2. DOMAIN Front(text) = 1 .. Len(text) - 1
        /\ \A m \in 1 .. Len(text) - 1 : Front(text)[m] = text[m]
    BY <2>1 DEF Front, Text
  <2> QED BY <2>1, <2>2 DEF Whole, Last, HasLine
<1>2. HasLine(text)
  BY <1>1 DEF HasLine
<1> QED
  BY <1>1, <1>2, NewlineAtFirst

(* The file's records are whole lines: the two writers, the processor that
   cuts lines and forces long ones, and the mending of a torn end never leave
   anything else (hyperlog.rs:297-419, batch_writer.rs:82-90). *)
THEOREM LinesAreWhole == Spec => []LinesWhole
<1>1. ASSUME Inv PROVE LinesWhole
  <2>1. ASSUME NEW n \in DOMAIN file PROVE WholeRecord(n)
    <3> DEFINE text == file[n].text
               s == file[n].from
    <3> SUFFICES ASSUME s \in Streams, text # << 0 >>
                 PROVE  /\ NewlineAt(text) = Len(text)
                        /\ Last(text) = 0 /\ Len(text) <= MaxLine + 1 =>
                             /\ ended[s]
                             /\ \A k \in n + 1 .. Len(file) :
                                  file[k].from = s => file[k].text = <<0>>
      BY DEF WholeRecord
    <3>1. text \in Text
      <4>1. file \in Files
        BY <1>1 DEF Inv, TypeOK, Types
      <4>2. DOMAIN file = 1 .. Len(file) /\ file[n] \in [from : Streams \cup {Earlier}, text : Text]
        BY <4>1, LenProperties, ElementOfSeq, Zenon DEF Files
      <4> QED BY <4>2
    <3>2. Whole(text)
      BY <1>1 DEF Inv, FileWhole
    <3>3. NewlineAt(text) = Len(text)
      BY <3>1, <3>2, WholeLineEnd
    <3>4. FileCut(s)
      BY <1>1 DEF Inv, StreamInv, CutInv
    <3> QED BY <3>3, <3>4 DEF FileCut, CutRecord, Cut, Quiet
  <2>2. \A n \in 1 .. Len(file) - 1 : EndsLine(file[n].text) \/ file[n + 1].text = <<0>>
    BY <1>1 DEF Inv, TornInv
  <2> QED BY <2>1, <2>2 DEF LinesWhole
<1> QED
  BY <1>1, PipelineInvariant, PTL

(* A stream's handle is not done before its last byte is published and, unless
   its writer failed, in the file (batch_writer.rs:61-66, hyperlog.rs:262-270). *)
THEOREM DoneIsStored == Spec => []DoneMeansStored
<1>1. ASSUME Inv PROVE DoneMeansStored
  <2> SUFFICES ASSUME NEW s \in Streams, at[s] = "done"
               PROVE  Followed[s] = emitted[s] /\ (s \in Lossy \/ Stored[s] = emitted[s])
    BY DEF DoneMeansStored
  <2>1. Types /\ PlaceInv(s) /\ WriterPlaceInv(s) /\ ProcessorKeeps(s) /\ WriterKeeps(s)
    BY <1>1 DEF Inv, TypeOK, StreamInv
  <2>2. /\ pipe[s] = <<>> /\ chunks[s] = <<>> /\ batch[s] = <<>> /\ buffer[s] = <<>>
        /\ line[s] = <<>> /\ collected[s] = <<>>
    BY <2>1 DEF PlaceInv
  <2>3. <<>> \o <<>> = <<>> /\ \A a \in Text : a \o <<>> = a
    BY Concat
  <2>4. Held(s) = <<>>
    BY <2>2, HeldNothing
  <2>5. Handed(s) \in Text /\ Own(published[s]) \in Text
        /\ Handed(s) = Own(published[s]) \o Own(collected[s])
    BY <2>1, HeldTypes
  <2>6. Handed(s) = emitted[s]
    BY <2>1, <2>3, <2>4, <2>5, Zenon DEF ProcessorKeeps
  <2>7. Followed[s] = Own(published[s])
    BY DEF Followed
  <2>8. Followed[s] = emitted[s]
    BY <2>2, <2>3, <2>5, <2>6, <2>7, OwnIs, Zenon
  <2>9. s \in Lossy \/ Stored[s] = emitted[s]
    <3> SUFFICES ASSUME s \notin Lossy PROVE Stored[s] = emitted[s]
      OBVIOUS
    <3>1. writer[s] = "done"
      BY <2>1, LossyIs DEF PlaceInv
    <3>2. inflight[s] = <<>> /\ wbatch[s] = <<>> /\ entries[s] = <<>>
      BY <2>1, <3>1 DEF WriterPlaceInv
    <3>3. Flying(s) = <<>>
      BY <2>3, <3>2, OwnIs, OwnOfNone, Zenon DEF Flying, Queued
    <3>4. Stored[s] \in Text
      BY <2>1, FlyingTypes
    <3> QED BY <2>1, <2>3, <2>6, <3>3, <3>4, Zenon DEF WriterKeeps
  <2> QED BY <2>8, <2>9
<1> QED
  BY <1>1, PipelineInvariant, PTL

-----------------------------------------------------------------------------
(* The pipeline delivers in order.                                         *)

LEMMA FrontOf ==
  ASSUME NEW a \in Text, NEW b \in Text
  PROVE  /\ SubSeq(a \o b, 1, Len(a)) = a
         /\ Len(a) \in Nat /\ Len(b) \in Nat /\ Len(a \o b) = Len(a) + Len(b)
         /\ Len(b) = 0 => b = <<>>
<1>1. SubSeq(a \o b, 1, Len(a)) = a
  BY SubSeqOfConcat1 DEF Text
<1> QED
  BY <1>1, EmptySeq DEF Text

LEMMA StepEmitted ==
  ASSUME NEW s \in Streams, StepOf(s)
  PROVE  Write(s) \/ emitted' = emitted
<1> USE DEF childVars, procVars, writerVars
<1>1. CASE Write(s)
  BY <1>1
<1>2. CASE Close(s)
  BY <1>2 DEF Close
<1>3. CASE ReadChunk(s)
  BY <1>3 DEF ReadChunk
<1>4. CASE CreateWriter(s)
  BY <1>4 DEF CreateWriter
<1>5. CASE Receive(s)
  BY <1>5 DEF Receive
<1>6. CASE BatchTimeout(s)
  BY <1>6 DEF BatchTimeout
<1>7. CASE StreamEnds(s)
  BY <1>7 DEF StreamEnds
<1>8. CASE TakeChunk(s)
  BY <1>8 DEF TakeChunk
<1>9. CASE ExtractLine(s)
  BY <1>9 DEF ExtractLine
<1>10. CASE ForceLine(s)
  BY <1>10 DEF ForceLine
<1>11. CASE NextChunk(s)
  BY <1>11 DEF NextChunk
<1>12. CASE SendLine(s)
  BY <1>12 DEF SendLine
<1>13. CASE Publish(s)
  BY <1>13 DEF Publish
<1>14. CASE FinalLine(s)
  BY <1>14 DEF FinalLine
<1>15. CASE HangUp(s)
  BY <1>15 DEF HangUp
<1>16. CASE WriterJoined(s)
  BY <1>16 DEF WriterJoined
<1>17. CASE OpenLog(s)
  BY <1>17 DEF OpenLog
<1>18. CASE Gather(s)
  BY <1>18 DEF Gather
<1>19. CASE WriteTimer(s)
  BY <1>19 DEF WriteTimer
<1>20. CASE ChannelClosed(s)
  BY <1>20 DEF ChannelClosed
<1>21. CASE FlushBatch(s)
  BY <1>21 DEF FlushBatch
<1>22. CASE FinalFlush(s)
  BY <1>22 DEF FinalFlush
<1>23. CASE FlushFails(s)
  BY <1>23 DEF FlushFails, Fail
<1>24. CASE AppendBatch(s)
  BY <1>24 DEF AppendBatch
<1>25. CASE AppendFails(s)
  BY <1>25 DEF AppendFails
<1>26. CASE OpenFails(s)
  BY <1>26 DEF OpenFails, Fail
<1> QED
  BY <1>1, <1>2, <1>3, <1>4, <1>5, <1>6, <1>7, <1>8, <1>9, <1>10, <1>11, <1>12, <1>13, <1>14, <1>15, <1>16, <1>17, <1>18, <1>19, <1>20, <1>21, <1>22, <1>23, <1>24, <1>25, <1>26 DEF StepOf, Processor, Writer, Disk

LEMMA StepPublished ==
  ASSUME NEW s \in Streams, StepOf(s)
  PROVE  Publish(s) \/ published' = published
<1>1. CASE Write(s)
  BY <1>1 DEF Write
<1>2. CASE Close(s)
  BY <1>2 DEF Close
<1>3. CASE ReadChunk(s)
  BY <1>3 DEF ReadChunk
<1>4. CASE CreateWriter(s)
  BY <1>4 DEF CreateWriter
<1>5. CASE Receive(s)
  BY <1>5 DEF Receive
<1>6. CASE BatchTimeout(s)
  BY <1>6 DEF BatchTimeout
<1>7. CASE StreamEnds(s)
  BY <1>7 DEF StreamEnds
<1>8. CASE TakeChunk(s)
  BY <1>8 DEF TakeChunk
<1>9. CASE ExtractLine(s)
  BY <1>9 DEF ExtractLine
<1>10. CASE ForceLine(s)
  BY <1>10 DEF ForceLine
<1>11. CASE NextChunk(s)
  BY <1>11 DEF NextChunk
<1>12. CASE SendLine(s)
  BY <1>12 DEF SendLine
<1>13. CASE Publish(s)
  BY <1>13
<1>14. CASE FinalLine(s)
  BY <1>14 DEF FinalLine
<1>15. CASE HangUp(s)
  BY <1>15 DEF HangUp
<1>16. CASE WriterJoined(s)
  BY <1>16 DEF WriterJoined
<1>17. CASE OpenLog(s)
  BY <1>17 DEF OpenLog
<1>18. CASE Gather(s)
  BY <1>18 DEF Gather
<1>19. CASE WriteTimer(s)
  BY <1>19 DEF WriteTimer
<1>20. CASE ChannelClosed(s)
  BY <1>20 DEF ChannelClosed
<1>21. CASE FlushBatch(s)
  BY <1>21 DEF FlushBatch
<1>22. CASE FinalFlush(s)
  BY <1>22 DEF FinalFlush
<1>23. CASE FlushFails(s)
  BY <1>23 DEF FlushFails, Fail
<1>24. CASE AppendBatch(s)
  BY <1>24 DEF AppendBatch
<1>25. CASE AppendFails(s)
  BY <1>25 DEF AppendFails
<1>26. CASE OpenFails(s)
  BY <1>26 DEF OpenFails, Fail
<1> QED
  BY <1>1, <1>2, <1>3, <1>4, <1>5, <1>6, <1>7, <1>8, <1>9, <1>10, <1>11, <1>12, <1>13, <1>14, <1>15, <1>16, <1>17, <1>18, <1>19, <1>20, <1>21, <1>22, <1>23, <1>24, <1>25, <1>26 DEF StepOf, Processor, Writer, Disk

LEMMA StaysLossy ==
  ASSUME Types, NEW s \in Streams, PlaceInv(s), WriterPlaceInv(s), StepOf(s), s \in Lossy
  PROVE  s \in Lossy'
<1>a. s \in failing \/ writer[s] = "none" \/ writer[s] = "failed"
  BY LossyIs
<1>b. s \in failing' \/ writer'[s] = "none" \/ writer'[s] = "failed" => s \in Lossy'
  BY LossyIs
<1> USE DEF Types, childVars, procVars, writerVars, To
<1>1. CASE Write(s)
  BY <1>1, <1>a, <1>b DEF Write
<1>2. CASE Close(s)
  BY <1>2, <1>a, <1>b DEF Close
<1>3. CASE ReadChunk(s)
  BY <1>3, <1>a, <1>b DEF ReadChunk
<1>4. CASE CreateWriter(s)
  BY <1>4, <1>a, <1>b DEF CreateWriter, PlaceInv, WriterPlaceInv
<1>5. CASE Receive(s)
  BY <1>5, <1>a, <1>b DEF Receive
<1>6. CASE BatchTimeout(s)
  BY <1>6, <1>a, <1>b DEF BatchTimeout
<1>7. CASE StreamEnds(s)
  BY <1>7, <1>a, <1>b DEF StreamEnds
<1>8. CASE TakeChunk(s)
  BY <1>8, <1>a, <1>b DEF TakeChunk
<1>9. CASE ExtractLine(s)
  BY <1>9, <1>a, <1>b DEF ExtractLine
<1>10. CASE ForceLine(s)
  BY <1>10, <1>a, <1>b DEF ForceLine
<1>11. CASE NextChunk(s)
  BY <1>11, <1>a, <1>b DEF NextChunk
<1>12. CASE SendLine(s)
  BY <1>12, <1>a, <1>b DEF SendLine
<1>13. CASE Publish(s)
  BY <1>13, <1>a, <1>b DEF Publish
<1>14. CASE FinalLine(s)
  BY <1>14, <1>a, <1>b DEF FinalLine
<1>15. CASE HangUp(s)
  BY <1>15, <1>a, <1>b DEF HangUp
<1>16. CASE WriterJoined(s)
  BY <1>16, <1>a, <1>b DEF WriterJoined
<1>17. CASE OpenLog(s)
  BY <1>17, <1>a, <1>b DEF OpenLog
<1>18. CASE Gather(s)
  BY <1>18, <1>a, <1>b DEF Gather
<1>19. CASE WriteTimer(s)
  BY <1>19, <1>a, <1>b DEF WriteTimer
<1>20. CASE ChannelClosed(s)
  BY <1>20, <1>a, <1>b DEF ChannelClosed
<1>21. CASE FlushBatch(s)
  BY <1>21, <1>a, <1>b DEF FlushBatch
<1>22. CASE FinalFlush(s)
  BY <1>22, <1>a, <1>b DEF FinalFlush
<1>23. CASE FlushFails(s)
  BY <1>23, <1>a, <1>b DEF FlushFails, Fail
<1>24. CASE AppendBatch(s)
  BY <1>24, <1>a, <1>b DEF AppendBatch
<1>25. CASE AppendFails(s)
  BY <1>25, <1>a, <1>b DEF AppendFails
<1>26. CASE OpenFails(s)
  BY <1>26, <1>a, <1>b DEF OpenFails, Fail
<1> QED
  BY <1>1, <1>2, <1>3, <1>4, <1>5, <1>6, <1>7, <1>8, <1>9, <1>10, <1>11, <1>12, <1>13, <1>14, <1>15, <1>16, <1>17, <1>18, <1>19, <1>20, <1>21, <1>22, <1>23, <1>24, <1>25, <1>26 DEF StepOf, Processor, Writer, Disk

LEMMA StepLossy ==
  ASSUME Types, Types', NEW s \in Streams, PlaceInv(s), WriterPlaceInv(s), StepOf(s)
  PROVE  Lossy' = Lossy \/ Lossy' = Lossy \cup {s}
<1>1. Lossy \subseteq Streams /\ Lossy' \subseteq Streams
  BY DEF Lossy, Types
<1>2. ASSUME NEW u \in Streams, u # s PROVE u \in Lossy <=> u \in Lossy'
  BY <1>2, StepElsewhere, LossyIs DEF Untouched
<1>3. s \in Lossy => s \in Lossy'
  BY StaysLossy
<1> QED
  BY <1>1, <1>2, <1>3

LEMMA StoredGrows ==
  ASSUME Types, NEW s \in Streams, AppendBatch(s)
  PROVE  Stored'[s] = Stored[s] \o Own(TextsOf(s, inflight[s]))
<1>1. /\ file' = file \o inflight[s] /\ file \in Files /\ inflight[s] \in Files
  BY FlyingTypes DEF AppendBatch, Types
<1>2. TextsOf(s, file') = TextsOf(s, file) \o TextsOf(s, inflight[s])
  BY <1>1, TextsOfConcat, Zenon
<1>3. TextsOf(s, file) \in Texts /\ TextsOf(s, inflight[s]) \in Texts
  BY <1>1, TextsOfIs, Zenon
<1>4. Stored[s] = Own(TextsOf(s, file)) /\ Stored'[s] = Own(TextsOf(s, file'))
  BY DEF Stored
<1> QED
  BY <1>2, <1>3, <1>4, OwnIs, Zenon

LEMMA TypesAfter ==
  ASSUME NEW s \in Streams
  PROVE  Types' => Flying(s)' \in Text /\ Held(s)' \in Text
<1> SUFFICES ASSUME Types' PROVE Flying(s)' \in Text /\ Held(s)' \in Text
  OBVIOUS
<1>1. /\ pipe'[s] \in Bytes /\ chunks'[s] \in Chunks /\ batch'[s] \in Chunks
      /\ buffer'[s] \in Text /\ line'[s] \in Text
      /\ entries'[s] \in Texts /\ wbatch'[s] \in Texts /\ inflight'[s] \in Batches
  BY DEF Types
<1>2. /\ FlattenSeq(chunks'[s]) \in Text /\ FlattenSeq(batch'[s]) \in Text /\ pipe'[s] \in Text
      /\ Unmended(buffer'[s]) \in Text /\ Unmended(line'[s]) \in Text
  BY <1>1, BytesAreText, ChunksAreTexts, Flatten, UnmendedIs
<1>3. FlattenSeq(chunks'[s]) \o pipe'[s] \in Text
  BY <1>2, Concat, Zenon
<1>4. FlattenSeq(batch'[s]) \o (FlattenSeq(chunks'[s]) \o pipe'[s]) \in Text
  BY <1>2, <1>3, Concat, Zenon
<1>5. Buffered(s)' \in Text
  BY <1>2, <1>4, Concat, Zenon DEF Buffered, Batched, Waiting
<1>6. Held(s)' \in Text
  BY <1>2, <1>5, Concat, Zenon DEF Held
<1>7. /\ Own(entries'[s]) \in Text /\ Own(wbatch'[s]) \in Text
      /\ Own(TextsOf(s, inflight'[s])) \in Text
  BY <1>1, BatchesAreFiles, TextsOfIs, OwnIs
<1>8. Queued(s)' \in Text
  BY <1>7, Concat, Zenon DEF Queued
<1>9. Flying(s)' \in Text
  BY <1>7, <1>8, Concat, Zenon DEF Flying
<1> QED
  BY <1>6, <1>9

(* What reaches the file is the next part of what the child wrote. *)
LEMMA StoredIsNext ==
  ASSUME Inv, Inv', NEW s \in Streams, AppendBatch(s)
  PROVE  /\ s \notin Lossy /\ Lossy' = Lossy /\ emitted' = emitted
         /\ Stored' = Stored
            \/ \E n \in Len(Stored[s]) + 1 .. Len(emitted[s]) :
                 Stored' = [Stored EXCEPT ![s] = SubSeq(emitted[s], 1, n)]
<1> DEFINE x == Own(TextsOf(s, inflight[s]))
           n == Len(Stored'[s])
<1>1. /\ Types /\ Types' /\ PlaceInv(s) /\ WriterPlaceInv(s) /\ FromOwn(s)
      /\ ProcessorKeeps(s)' /\ WriterKeeps(s)'
  BY DEF Inv, TypeOK, StreamInv
<1>2. s \notin Lossy /\ Lossy' = Lossy /\ emitted' = emitted
  BY <1>1, LossyIs DEF AppendBatch, WriterPlaceInv, Lossy, childVars
<1>3. StepOf(s)
  BY DEF StepOf, Disk
<1>4. \A u \in Streams : u # s => Stored'[u] = Stored[u]
  BY <1>1, <1>3, StoredElsewhere
<1>5. /\ Stored = [u \in Streams |-> Stored[u]] /\ Stored' = [u \in Streams |-> Stored'[u]]
  BY DEF Stored
<1>6. Stored'[s] = Stored[s] \o x /\ Stored[s] \in Text /\ x \in Text
  BY <1>1, StoredGrows, FlyingTypes
<1>7. Stored'[s] \in Text
  BY <1>6, Concat, Zenon
<1> HIDE DEF x
<1>8. n = Len(Stored[s]) + Len(x) /\ Len(Stored[s]) \in Nat /\ Len(x) \in Nat
      /\ (Len(x) = 0 => x = <<>>)
  BY <1>6, FrontOf
<1>9. CASE x = <<>>
  <2>1. Stored'[s] = Stored[s]
    BY <1>6, <1>9, Concat, Zenon
  <2> QED BY <1>2, <1>4, <1>5, <2>1
<1>10. CASE x # <<>>
  <2>1. PICK y \in Text : emitted[s] = Stored'[s] \o y
    <3>1. /\ Flying(s)' \in Text /\ Held(s)' \in Text
      BY <1>1, TypesAfter
    <3>2. emitted[s] = (Stored'[s] \o Flying(s)') \o Held(s)'
      BY <1>1, <1>2 DEF ProcessorKeeps, WriterKeeps
    <3>3. emitted[s] = Stored'[s] \o (Flying(s)' \o Held(s)') /\ Flying(s)' \o Held(s)' \in Text
      BY <1>7, <3>1, <3>2, Concat, Zenon
    <3> QED BY <3>3
  <2>2. SubSeq(emitted[s], 1, n) = Stored'[s] /\ n <= Len(emitted[s]) /\ Len(emitted[s]) \in Nat
    <3>1. SubSeq(Stored'[s] \o y, 1, Len(Stored'[s])) = Stored'[s]
          /\ Len(Stored'[s] \o y) = Len(Stored'[s]) + Len(y) /\ Len(y) \in Nat /\ Len(Stored'[s]) \in Nat
      BY <1>7, FrontOf
    <3> QED BY <2>1, <3>1
  <2>3. n \in Len(Stored[s]) + 1 .. Len(emitted[s])
    BY <1>8, <1>10, <2>2
  <2>4. Stored' = [Stored EXCEPT ![s] = SubSeq(emitted[s], 1, n)]
    BY <1>4, <1>5, <2>2
  <2> QED BY <1>2, <2>3, <2>4
<1> QED
  BY <1>9, <1>10

LEMMA FileStep ==
  ASSUME Inv, Inv', NEW s \in Streams, StepOf(s)
  PROVE  ToFile!FifoNext \/ UNCHANGED <<emitted, Stored, Lossy>>
<1>1. Types /\ Types' /\ PlaceInv(s) /\ WriterPlaceInv(s)
  BY DEF Inv, TypeOK, StreamInv
<1>2. CASE Write(s)
  <2>1. ToFile!Emit(s)
    <3>1. Stored' = Stored /\ Lossy' = Lossy
      BY <1>2 DEF Write, Stored, Lossy, writerVars
    <3>2. PICK b : emitted' = [emitted EXCEPT ![s] = Append(@, b)]
      BY <1>2 DEF Write
    <3>3. emitted[s] \in Bytes /\ emitted'[s] = Append(emitted[s], b)
      BY <1>1, <3>2 DEF Types
    <3>4. Len(emitted[s]) \in Nat /\ Len(emitted'[s]) = Len(emitted[s]) + 1 /\ ToFile!Last(emitted'[s]) = b
      BY <3>3 DEF Bytes, ToFile!Last
    <3>5. emitted' = [emitted EXCEPT ![s] = Append(@, ToFile!Last(emitted'[s]))]
      BY <3>2, <3>4, Zenon
    <3>6. Len(emitted'[s]) > Len(emitted[s])
      BY <3>4
    <3> QED BY <3>1, <3>5, <3>6, Zenon DEF ToFile!Emit
  <2> QED BY <2>1 DEF ToFile!FifoNext
<1>3. CASE AppendBatch(s)
  <2>1. /\ s \notin Lossy /\ Lossy' = Lossy /\ emitted' = emitted
        /\ Stored' = Stored
           \/ \E n \in Len(Stored[s]) + 1 .. Len(emitted[s]) :
                Stored' = [Stored EXCEPT ![s] = SubSeq(emitted[s], 1, n)]
    BY <1>3, StoredIsNext
  <2> QED BY <2>1, Zenon DEF ToFile!FifoNext, ToFile!Deliver
<1>4. CASE emitted' = emitted /\ file' = file
  <2>1. Stored' = Stored
    BY <1>4 DEF Stored
  <2>2. Lossy' = Lossy \/ Lossy' = Lossy \cup {s}
    BY <1>1, StepLossy
  <2> QED BY <1>4, <2>1, <2>2 DEF ToFile!FifoNext, ToFile!Break
<1> QED
  BY <1>2, <1>3, <1>4, StepEmitted, StepFile

LEMMA FollowersStep ==
  ASSUME Inv, NEW s \in Streams, StepOf(s)
  PROVE  ToFollowers!FifoNext \/ UNCHANGED <<emitted, Followed>>
<1>1. Types /\ ProcessorKeeps(s)
  BY DEF Inv, TypeOK, StreamInv
<1>2. CASE Write(s)
  <2>1. ToFollowers!Emit(s)
    <3>1. Followed' = Followed
      BY <1>2 DEF Write, Followed
    <3>2. PICK b : emitted' = [emitted EXCEPT ![s] = Append(@, b)]
      BY <1>2 DEF Write
    <3>3. emitted[s] \in Bytes /\ emitted'[s] = Append(emitted[s], b)
      BY <1>1, <3>2 DEF Types
    <3>4. Len(emitted[s]) \in Nat /\ Len(emitted'[s]) = Len(emitted[s]) + 1 /\ ToFollowers!Last(emitted'[s]) = b
      BY <3>3 DEF Bytes, ToFollowers!Last
    <3>5. emitted' = [emitted EXCEPT ![s] = Append(@, ToFollowers!Last(emitted'[s]))]
      BY <3>2, <3>4, Zenon
    <3>6. Len(emitted'[s]) > Len(emitted[s])
      BY <3>4
    <3> QED BY <3>1, <3>5, <3>6, Zenon DEF ToFollowers!Emit
  <2> QED BY <2>1 DEF ToFollowers!FifoNext
<1>3. CASE Publish(s)
  <2> DEFINE x == Own(collected[s])
             n == Len(Handed(s))
  <2>1. /\ published' = [published EXCEPT ![s] = @ \o collected[s]] /\ emitted' = emitted
        /\ published \in [Streams -> Texts]
    BY <1>1, <1>3 DEF Publish, childVars, Types
  <2>2. /\ published[s] \in Texts /\ collected[s] \in Texts /\ Handed(s) \in Text /\ Held(s) \in Text
        /\ Own(published[s]) \in Text /\ x \in Text /\ Handed(s) = Own(published[s]) \o x
    BY <1>1, HeldTypes
  <2>3. Own(published'[s]) = Handed(s)
    BY <2>1, <2>2 DEF Handed
  <2>4. Followed' = [Followed EXCEPT ![s] = Handed(s)]
    BY <2>1, <2>3 DEF Followed
  <2>5. Followed[s] = Own(published[s]) /\ Followed = [u \in Streams |-> Followed[u]]
    BY DEF Followed
  <2> HIDE DEF x
  <2>6. n = Len(Own(published[s])) + Len(x) /\ Len(Own(published[s])) \in Nat /\ Len(x) \in Nat
        /\ (Len(x) = 0 => x = <<>>)
    BY <2>2, FrontOf
  <2>7. SubSeq(emitted[s], 1, n) = Handed(s) /\ n <= Len(emitted[s]) /\ Len(emitted[s]) \in Nat
    <3>1. SubSeq(Handed(s) \o Held(s), 1, Len(Handed(s))) = Handed(s)
          /\ Len(Handed(s) \o Held(s)) = Len(Handed(s)) + Len(Held(s)) /\ Len(Held(s)) \in Nat
          /\ Len(Handed(s)) \in Nat
      BY <2>2, FrontOf
    <3> QED BY <1>1, <3>1 DEF ProcessorKeeps
  <2>8. CASE x = <<>>
    <3>1. Handed(s) = Followed[s]
      BY <2>2, <2>5, <2>8, Concat, Zenon
    <3> QED BY <2>1, <2>4, <2>5, <3>1
  <2>9. CASE x # <<>>
    <3>1. n \in Len(Followed[s]) + 1 .. Len(emitted[s])
      BY <2>5, <2>6, <2>7, <2>9
    <3>2. Followed' = [Followed EXCEPT ![s] = SubSeq(emitted[s], 1, n)]
      BY <2>4, <2>7, Zenon
    <3>3. ToFollowers!Deliver(s)
      <4> HIDE DEF n
      <4> QED BY <2>1, <3>1, <3>2 DEF ToFollowers!Deliver
    <3> QED BY <3>3 DEF ToFollowers!FifoNext
  <2> QED BY <2>8, <2>9
<1>4. CASE emitted' = emitted /\ published' = published
  BY <1>4 DEF Followed
<1> QED
  BY <1>2, <1>3, <1>4, StepEmitted, StepPublished

(* The log file and the followers each have, of every stream, a beginning of
   what the child wrote, byte for byte: the pipeline implements two ordered,
   gapless channels, the one to the file for as long as its writer works
   (hyperlog.rs:118-434, batch_writer.rs:42-172). *)
THEOREM PipelineDelivers == Spec => DeliveredInOrder
<1>1. ASSUME Init PROVE ToFile!FifoInit /\ ToFollowers!FifoInit
  <2>1. ASSUME NEW s \in Streams PROVE Stored[s] = <<>> /\ Followed[s] = <<>>
    <3>1. \A n \in DOMAIN file : file[n].from # s
      BY <1>1, PipelineAssumption DEF Init, Record
    <3>2. file \in Files
      BY <1>1, InitTypes DEF Types
    <3>3. Stored[s] = <<>>
      BY <3>1, <3>2, OwnForeign DEF Stored
    <3>4. Followed[s] = <<>>
      BY <1>1, OwnIs DEF Followed, Init
    <3> QED BY <3>3, <3>4
  <2>2. Stored = [s \in Streams |-> <<>>] /\ Followed = [s \in Streams |-> <<>>]
    <3>1. Stored = [s \in Streams |-> Stored[s]] /\ Followed = [s \in Streams |-> Followed[s]]
      BY DEF Stored, Followed
    <3> QED BY <2>1, <3>1, Zenon
  <2>3. Lossy = {} /\ emitted = [s \in Streams |-> <<>>]
    BY <1>1 DEF Init, Lossy
  <2> QED BY <2>2, <2>3 DEF ToFile!FifoInit, ToFollowers!FifoInit
<1>2. ASSUME Inv, Inv', [Next]_vars
      PROVE  [ToFile!FifoNext]_(ToFile!fifoVars) /\ [ToFollowers!FifoNext]_(ToFollowers!fifoVars)
  <2>1. CASE UNCHANGED vars
    BY <2>1 DEF vars, childVars, procVars, writerVars, ToFile!fifoVars, ToFollowers!fifoVars,
               Stored, Lossy, Followed
  <2>2. CASE Next
    <3>1. PICK s \in Streams : StepOf(s)
      BY <2>2, NextIsStep
    <3> QED BY <1>2, <3>1, FileStep, FollowersStep DEF ToFile!fifoVars, ToFollowers!fifoVars
  <2> QED BY <1>2, <2>1, <2>2
<1> QED
  BY <1>1, <1>2, PipelineInvariant, PTL
  DEF Spec, DeliveredInOrder, ToFile!FifoSpec, ToFollowers!FifoSpec

=============================================================================
