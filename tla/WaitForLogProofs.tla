-------------------------- MODULE WaitForLogProofs --------------------------
(***************************************************************************)
(* Theorems about WaitForLog, for any number of streams, batches of any    *)
(* size and any output: what a start that waits for a pattern reports.     *)
(* Each flag is tied to the place of the processor that has set it         *)
(* (FlagInv), and what the start has seen to how it was woken (StartInv).  *)
(***************************************************************************)
EXTENDS WaitForLog, TLAPS

FlagInv ==
  /\ \A s \in Streams :
       /\ at[s] \in {"tail", "done"} => ended[s]
       /\ at[s] = "late" => timedOut
       /\ at[s] \in {"save", "wake"} => matched
       /\ at[s] = "wake" => line # NoLine
  /\ timedOut => now >= 1
  /\ ready = "sent" => matched /\ line # NoLine
  /\ ready = "closed" => timedOut \/ \E s \in Streams : ended[s]

(* Before the safety net only the processors wake a start. *)
StartInv ==
  /\ start # "waiting" /\ now < 2 => ready # "open"
  /\ start \in {"ports", "answered"} /\ now < 2 /\ answer.line = NoLine => ready = "closed"
  /\ start = "answered" /\ now < 2 /\ answer.line = NoLine =>
       answer.timeout \/ \E s \in Streams : ended[s]
  /\ answer.timeout => now >= 1

-----------------------------------------------------------------------------
LEMMA InitTypes == Init => TypeOK
<1> SUFFICES ASSUME Init PROVE TypeOK
  OBVIOUS
<1>1. <<>> \in Seq(Chunk) /\ Len(<<>>) = 0
  OBVIOUS
<1>2. partial \in [Streams -> BOOLEAN] /\ ended \in [Streams -> BOOLEAN]
  BY DEF Init
<1>3. armed \in [Streams -> BOOLEAN] /\ matched \in BOOLEAN /\ timedOut \in BOOLEAN
  BY DEF Init
<1>4. answer \in [line : Streams \cup {NoLine}, timeout : BOOLEAN]
  BY DEF Init
<1> QED BY <1>1, <1>2, <1>3, <1>4, WaitAssumption DEF Init, TypeOK, Labels

LEMMA InitFlags == Init => FlagInv /\ StartInv
  BY WaitAssumption DEF Init, FlagInv, StartInv

LEMMA NextTypes == TypeOK /\ [Next]_vars => TypeOK'
<1> SUFFICES ASSUME TypeOK, [Next]_vars PROVE TypeOK'
  OBVIOUS
<1> USE WaitAssumption DEF TypeOK, To, Labels, childVars, procVars, flagVars, startVars
<1>1. ASSUME NEW s \in Streams, Close(s) PROVE TypeOK'
  BY <1>1 DEF Close
<1>2. ASSUME NEW s \in Streams, NEW c \in Chunk, Write(s, c) PROVE TypeOK'
  BY <1>2 DEF Write
<1>3. CASE Tick
  BY <1>3 DEF Tick
<1>4. CASE Woken
  BY <1>4 DEF Woken
<1>5. CASE SafetyNet
  BY <1>5 DEF SafetyNet
<1>6. CASE CollectLine
  BY <1>6 DEF CollectLine
<1>7. CASE AnswerStart
  BY <1>7 DEF AnswerStart
<1>8. ASSUME NEW s \in Streams, EnterSelect(s) PROVE TypeOK'
  BY <1>8 DEF EnterSelect
<1>9. ASSUME NEW s \in Streams, Receive(s) PROVE TypeOK'
  BY <1>9 DEF Receive
<1>10. ASSUME NEW s \in Streams, BatchTimeout(s) PROVE TypeOK'
  BY <1>10 DEF BatchTimeout
<1>11. ASSUME NEW s \in Streams, StreamEnds(s) PROVE TypeOK'
  BY <1>11 DEF StreamEnds
<1>12. ASSUME NEW s \in Streams, PatternTimeout(s) PROVE TypeOK'
  BY <1>12 DEF PatternTimeout
<1>13. ASSUME NEW s \in Streams, CloseLate(s) PROVE TypeOK'
  BY <1>13 DEF CloseLate, Take
<1>14. ASSUME NEW s \in Streams, ProcessChunk(s) PROVE TypeOK'
  BY <1>14 DEF ProcessChunk, After
<1>15. ASSUME NEW s \in Streams, FinalLine(s) PROVE TypeOK'
  BY <1>15 DEF FinalLine
<1>16. ASSUME NEW s \in Streams, SetMatched(s) PROVE TypeOK'
  BY <1>16 DEF SetMatched
<1>17. ASSUME NEW s \in Streams, SaveLine(s) PROVE TypeOK'
  BY <1>17 DEF SaveLine
<1>18. ASSUME NEW s \in Streams, NotifyReady(s) PROVE TypeOK'
  BY <1>18 DEF NotifyReady, Take
<1>19. ASSUME NEW s \in Streams, WriteLine(s) PROVE TypeOK'
  BY <1>19 DEF WriteLine, After
<1>20. ASSUME NEW s \in Streams, CloseReady(s) PROVE TypeOK'
  BY <1>20 DEF CloseReady, Take
<1>21. ASSUME NEW s \in Streams, WriteBlocks(s) PROVE TypeOK'
  BY <1>21 DEF WriteBlocks
<1>22. CASE UNCHANGED vars
  BY <1>22 DEF vars
<1> HIDE DEF TypeOK
<1> QED
  BY <1>1, <1>2, <1>3, <1>4, <1>5, <1>6, <1>7, <1>8, <1>9, <1>10, <1>11,
     <1>12, <1>13, <1>14, <1>15, <1>16, <1>17, <1>18, <1>19, <1>20, <1>21, <1>22
  DEF Next, Child, Starter, Processor

LEMMA NextFlags == TypeOK /\ FlagInv /\ [Next]_vars => FlagInv'
<1> SUFFICES ASSUME TypeOK /\ FlagInv, [Next]_vars PROVE FlagInv'
  OBVIOUS
<1> USE WaitAssumption DEF TypeOK, FlagInv, To, Labels, childVars, procVars, flagVars, startVars
<1>1. ASSUME NEW s \in Streams, Close(s) PROVE FlagInv'
  BY <1>1 DEF Close
<1>2. ASSUME NEW s \in Streams, NEW c \in Chunk, Write(s, c) PROVE FlagInv'
  BY <1>2 DEF Write
<1>3. CASE Tick
  BY <1>3 DEF Tick
<1>4. CASE Woken
  BY <1>4 DEF Woken
<1>5. CASE SafetyNet
  BY <1>5 DEF SafetyNet
<1>6. CASE CollectLine
  BY <1>6 DEF CollectLine
<1>7. CASE AnswerStart
  BY <1>7 DEF AnswerStart
<1>8. ASSUME NEW s \in Streams, EnterSelect(s) PROVE FlagInv'
  BY <1>8 DEF EnterSelect
<1>9. ASSUME NEW s \in Streams, Receive(s) PROVE FlagInv'
  BY <1>9 DEF Receive
<1>10. ASSUME NEW s \in Streams, BatchTimeout(s) PROVE FlagInv'
  BY <1>10 DEF BatchTimeout
<1>11. ASSUME NEW s \in Streams, StreamEnds(s) PROVE FlagInv'
  BY <1>11 DEF StreamEnds
<1>12. ASSUME NEW s \in Streams, PatternTimeout(s) PROVE FlagInv'
  BY <1>12 DEF PatternTimeout
<1>13. ASSUME NEW s \in Streams, CloseLate(s) PROVE FlagInv'
  BY <1>13 DEF CloseLate, Take
<1>14. ASSUME NEW s \in Streams, ProcessChunk(s) PROVE FlagInv'
  BY <1>14 DEF ProcessChunk, After
<1>15. ASSUME NEW s \in Streams, FinalLine(s) PROVE FlagInv'
  BY <1>15 DEF FinalLine
<1>16. ASSUME NEW s \in Streams, SetMatched(s) PROVE FlagInv'
  BY <1>16 DEF SetMatched
<1>17. ASSUME NEW s \in Streams, SaveLine(s) PROVE FlagInv'
  BY <1>17 DEF SaveLine
<1>18. ASSUME NEW s \in Streams, NotifyReady(s) PROVE FlagInv'
  BY <1>18 DEF NotifyReady, Take
<1>19. ASSUME NEW s \in Streams, WriteLine(s) PROVE FlagInv'
  BY <1>19 DEF WriteLine, After
<1>20. ASSUME NEW s \in Streams, CloseReady(s) PROVE FlagInv'
  BY <1>20 DEF CloseReady, Take
<1>21. ASSUME NEW s \in Streams, WriteBlocks(s) PROVE FlagInv'
  BY <1>21 DEF WriteBlocks
<1>22. CASE UNCHANGED vars
  BY <1>22 DEF vars
<1> HIDE DEF FlagInv
<1> QED
  BY <1>1, <1>2, <1>3, <1>4, <1>5, <1>6, <1>7, <1>8, <1>9, <1>10, <1>11,
     <1>12, <1>13, <1>14, <1>15, <1>16, <1>17, <1>18, <1>19, <1>20, <1>21, <1>22
  DEF Next, Child, Starter, Processor

LEMMA NextStart == TypeOK /\ FlagInv /\ StartInv /\ [Next]_vars => StartInv'
<1> SUFFICES ASSUME TypeOK /\ FlagInv /\ StartInv, [Next]_vars PROVE StartInv'
  OBVIOUS
<1> USE WaitAssumption DEF TypeOK, FlagInv, StartInv, childVars, procVars, flagVars, startVars
<1>1. ASSUME NEW s \in Streams, Close(s) PROVE StartInv'
  BY <1>1 DEF Close
<1>2. ASSUME NEW s \in Streams, NEW c \in Chunk, Write(s, c) PROVE StartInv'
  BY <1>2 DEF Write
<1>3. CASE Tick
  BY <1>3 DEF Tick
<1>4. CASE Woken
  BY <1>4 DEF Woken
<1>5. CASE SafetyNet
  BY <1>5 DEF SafetyNet
<1>6. CASE CollectLine
  BY <1>6 DEF CollectLine
<1>7. CASE AnswerStart
  BY <1>7 DEF AnswerStart
<1>8. ASSUME NEW s \in Streams, EnterSelect(s) PROVE StartInv'
  BY <1>8 DEF EnterSelect
<1>9. ASSUME NEW s \in Streams, Receive(s) PROVE StartInv'
  BY <1>9 DEF Receive
<1>10. ASSUME NEW s \in Streams, BatchTimeout(s) PROVE StartInv'
  BY <1>10 DEF BatchTimeout
<1>11. ASSUME NEW s \in Streams, StreamEnds(s) PROVE StartInv'
  BY <1>11 DEF StreamEnds
<1>12. ASSUME NEW s \in Streams, PatternTimeout(s) PROVE StartInv'
  BY <1>12 DEF PatternTimeout
<1>13. ASSUME NEW s \in Streams, CloseLate(s) PROVE StartInv'
  BY <1>13 DEF CloseLate, Take
<1>14. ASSUME NEW s \in Streams, ProcessChunk(s) PROVE StartInv'
  BY <1>14 DEF ProcessChunk, After
<1>15. ASSUME NEW s \in Streams, FinalLine(s) PROVE StartInv'
  BY <1>15 DEF FinalLine
<1>16. ASSUME NEW s \in Streams, SetMatched(s) PROVE StartInv'
  BY <1>16 DEF SetMatched
<1>17. ASSUME NEW s \in Streams, SaveLine(s) PROVE StartInv'
  BY <1>17 DEF SaveLine
<1>18. ASSUME NEW s \in Streams, NotifyReady(s) PROVE StartInv'
  BY <1>18 DEF NotifyReady, Take
<1>19. ASSUME NEW s \in Streams, WriteLine(s) PROVE StartInv'
  BY <1>19 DEF WriteLine, After
<1>20. ASSUME NEW s \in Streams, CloseReady(s) PROVE StartInv'
  BY <1>20 DEF CloseReady, Take
<1>21. ASSUME NEW s \in Streams, WriteBlocks(s) PROVE StartInv'
  BY <1>21 DEF WriteBlocks
<1>22. CASE UNCHANGED vars
  BY <1>22 DEF vars
<1> HIDE DEF StartInv
<1> QED
  BY <1>1, <1>2, <1>3, <1>4, <1>5, <1>6, <1>7, <1>8, <1>9, <1>10, <1>11,
     <1>12, <1>13, <1>14, <1>15, <1>16, <1>17, <1>18, <1>19, <1>20, <1>21, <1>22
  DEF Next, Child, Starter, Processor

-----------------------------------------------------------------------------
(* Every variable keeps its type, whatever the child writes and closes, and
   however long lines wait to be written. *)
THEOREM WaitTypes == Spec => []TypeOK
<1> QED
  BY InitTypes, NextTypes, PTL DEF Spec

(* What a start reports of its pattern, for any number of processors that share
   the flags: a match that woke it has its line, and no line has its reason. *)
THEOREM MatchesAreReported == Spec => []MatchReported
<1>1. TypeOK /\ FlagInv /\ StartInv => MatchReported
  BY DEF TypeOK, FlagInv, StartInv, MatchReported
<1> QED
  BY <1>1, WaitTypes, InitFlags, NextFlags, NextStart, PTL DEF Spec

=============================================================================
