------------------------- MODULE StartReportProofs -------------------------
(***************************************************************************)
(* Theorems about StartReport, for any number of readers: what clients are *)
(* told of the end of a process, its exit code and its log pattern.        *)
(* ToldInv ties every status that is stored, about to be stored or on its  *)
(* way to a client to the child; ClaimInv adds what the start has seen     *)
(* since it woke.                                                          *)
(***************************************************************************)
EXTENDS StartReport, TLAPS

(* Somebody was told of the end, or an answer on its way will tell it. *)
EndIsOut == told \/ answer.status \in Ended \/ \E r \in Readers : view[r].status \in Ended

ToldInv ==
  /\ \A w \in Syncs : seen[w] \in Ended => child # "alive"
  /\ child = "alive" /\ monitor # "failed" => status \notin Ended
  /\ EndIsOut => child # "alive" \/ monitor = "failed"
  /\ EndIsOut /\ status \in Active => overwritten
  /\ start # "answered" => answer.code = "none"
  /\ TrueCode(answer) /\ \A r \in Readers : TrueCode(view[r])

(* What a start that woke after the end of the child has found, or will. *)
EarlyInv ==
  /\ early # "no" => child = "reaped" /\ start # "waiting"
  /\ early = "done" => monitor = "done"
  /\ early # "no" => at["start"] = "idle" \/ seen["start"] # "Running"
  /\ stop = "none" => status # "Stopping"
  /\ stop = "none" /\ status = "Stopped" => code = "zero"
  /\ stop = "none" /\ ~overwritten /\ monitor = "done" => status = StatusOf(code)
  /\ early # "no" /\ stop = "none" /\ ~overwritten /\ ~unchecked =>
       /\ start \in {"synced", "ports", "flag", "status", "answered"} => status \in Ended
       /\ start \in {"status", "answered"} =>
            /\ answer.status \in Ended
            /\ code # "zero" \/ early = "done" => answer.status = StatusOf(code)

(* The line or the flag that woke the start is there until it takes it. *)
PatternInv ==
  /\ start = "waiting" => woke = "none"
  /\ start \notin {"waiting", "dropped"} => woke # "none"
  /\ woke = "match" /\ start \in {"sync", "synced"} => line
  /\ woke = "match" /\ start \in {"ports", "flag", "status", "answered"} => answer.line
  /\ woke = "timeout" /\ start \in {"sync", "synced", "ports"} => timedOut
  /\ woke = "timeout" /\ start \in {"flag", "status", "answered"} => answer.timeout
  /\ (line \/ answer.line \/ timedOut) => waits

ClaimInv == EarlyInv /\ PatternInv

-----------------------------------------------------------------------------
LEMMA InitTypes == Init => TypeOK
<1> SUFFICES ASSUME Init PROVE TypeOK
  OBVIOUS
<1>1. answer \in Answers /\ view \in [Readers -> Views]
  BY DEF Init, NoView, NoAnswer, Views, Answers
<1>2. overwritten \in BOOLEAN /\ unchecked \in BOOLEAN /\ told \in BOOLEAN
  BY DEF Init
<1>3. waits \in BOOLEAN /\ line \in BOOLEAN /\ timedOut \in BOOLEAN
  BY DEF Init
<1> QED BY <1>1, <1>2, <1>3 DEF Init, TypeOK, Syncs, Statuses, Active, Ended

LEMMA InitTold == Init => ToldInv
  BY DEF Init, ToldInv, EndIsOut, TrueCode, Syncs, Active, Ended, NoView, NoAnswer

LEMMA InitClaims == Init => ClaimInv
  BY DEF Init, ClaimInv, EarlyInv, PatternInv, Syncs, NoAnswer

LEMMA NextTypes == TypeOK /\ [Next]_vars => TypeOK'
<1> SUFFICES ASSUME TypeOK, [Next]_vars PROVE TypeOK'
  OBVIOUS
<1> USE DEF TypeOK, StatusOf, Syncs, Statuses, Active, Ended,
        osVars, proxyVars, waitVars, startVars, readVars, obsVars
<1>1. CASE Exit
  BY <1>1 DEF Exit
<1>2. CASE Reap
  BY <1>2 DEF Reap
<1>3. CASE Record
  BY <1>3 DEF Record
<1>4. CASE Settle
  BY <1>4 DEF Settle, StatusOf
<1>5. CASE WaitFails
  BY <1>5 DEF WaitFails
<1>6. CASE Pick
  BY <1>6 DEF Pick
<1>7. ASSUME NEW w \in Syncs, Look(w) PROVE TypeOK'
  BY <1>7 DEF Look, StatusOf
<1>8. ASSUME NEW w \in Syncs, Kill(w) PROVE TypeOK'
  BY <1>8 DEF Kill
<1>9. ASSUME NEW w \in Syncs, KillError(w) PROVE TypeOK'
  BY <1>9 DEF KillError, Synced
<1>10. ASSUME NEW w \in Syncs, Judge(w) PROVE TypeOK'
  BY <1>10 DEF Judge, Synced
<1>11. ASSUME NEW w \in Syncs, Store(w) PROVE TypeOK'
  BY <1>11 DEF Store, Synced
<1>12. CASE MarkStopping
  BY <1>12 DEF MarkStopping
<1>13. CASE Stopped
  BY <1>13 DEF Stopped
<1>14. CASE StopFails
  BY <1>14 DEF StopFails
<1>15. CASE Match
  BY <1>15 DEF Match
<1>16. CASE PatternTimeout
  BY <1>16 DEF PatternTimeout
<1>17. CASE Woken
  <2>1. early' \in {"no", "reaped", "done"}
    BY <1>17 DEF Woken, Wake
  <2> QED BY <1>17, <2>1 DEF Woken, Wake
<1>18. CASE StreamEnds
  <2>1. early' \in {"no", "reaped", "done"}
    BY <1>18 DEF StreamEnds, Wake
  <2> QED BY <1>18, <2>1 DEF StreamEnds, Wake
<1>19. CASE SafetyNet
  <2>1. early' \in {"no", "reaped", "done"}
    BY <1>19 DEF SafetyNet, Wake
  <2> QED BY <1>19, <2>1 DEF SafetyNet, Wake
<1>20. CASE CollectLine
  <2>1. answer' \in Answers
    BY <1>20 DEF CollectLine, Answers
  <2>2. line' \in BOOLEAN /\ timedOut' \in BOOLEAN
    BY <1>20 DEF CollectLine
  <2> QED BY <1>20, <2>1, <2>2 DEF CollectLine
<1>21. CASE ReadFlag
  <2>1. answer' \in Answers
    BY <1>21 DEF ReadFlag, Answers
  <2>2. line' \in BOOLEAN /\ timedOut' \in BOOLEAN
    BY <1>21 DEF ReadFlag
  <2> QED BY <1>21, <2>1, <2>2 DEF ReadFlag
<1>22. CASE ReadStatus
  <2>1. answer' \in Answers
    BY <1>22 DEF ReadStatus, Answers
  <2> QED BY <1>22, <2>1 DEF ReadStatus
<1>23. CASE ReadCode
  <2>1. answer' \in Answers
    BY <1>23 DEF ReadCode, Answers, CodeWith
  <2> QED BY <1>23, <2>1 DEF ReadCode
<1>24. CASE Drop
  <2>1. answer' \in Answers
    BY <1>24 DEF Drop, Answers, NoAnswer
  <2>2. line' \in BOOLEAN /\ timedOut' \in BOOLEAN
    BY <1>24 DEF Drop
  <2> QED BY <1>24, <2>1, <2>2 DEF Drop
<1>25. ASSUME NEW r \in Readers, GetProcess(r) PROVE TypeOK'
  <2>1. view' \in [Readers -> Views]
    BY <1>25 DEF GetProcess, Views, NoView
  <2> QED BY <1>25, <2>1 DEF GetProcess
<1>26. ASSUME NEW r \in Readers, NEW filter \in Statuses, ListProcesses(r, filter)
       PROVE  TypeOK'
  <2>1. view' \in [Readers -> Views]
    BY <1>26 DEF ListProcesses, Views, NoView
  <2> QED BY <1>26, <2>1 DEF ListProcesses
<1>27. ASSUME NEW r \in Readers, ViewStatus(r) PROVE TypeOK'
  <2>1. view' \in [Readers -> Views]
    BY <1>27 DEF ViewStatus, Views
  <2> QED BY <1>27, <2>1 DEF ViewStatus
<1>28. ASSUME NEW r \in Readers, ViewCode(r) PROVE TypeOK'
  <2>1. view' \in [Readers -> Views]
    BY <1>28 DEF ViewCode, Views, CodeWith
  <2> QED BY <1>28, <2>1 DEF ViewCode
<1>29. CASE UNCHANGED vars
  BY <1>29 DEF vars
<1> HIDE DEF TypeOK
<1> QED
  BY <1>1, <1>2, <1>3, <1>4, <1>5, <1>6, <1>7, <1>8, <1>9, <1>10, <1>11,
     <1>12, <1>13, <1>14, <1>15, <1>16, <1>17, <1>18, <1>19, <1>20, <1>21, <1>22,
     <1>23, <1>24, <1>25, <1>26, <1>27, <1>28, <1>29
  DEF Next, Monitor, Stop, Wait, Starter, Sync, Reader

LEMMA NextTold == TypeOK /\ ToldInv /\ [Next]_vars => ToldInv'
<1> SUFFICES ASSUME TypeOK /\ ToldInv, [Next]_vars PROVE ToldInv'
  OBVIOUS
<1> USE DEF TypeOK, ToldInv, EndIsOut, TrueCode, Syncs, Statuses, Active, Ended,
        osVars, proxyVars, waitVars, startVars, readVars, obsVars
<1>1. CASE Exit
  BY <1>1 DEF Exit
<1>2. CASE Reap
  BY <1>2 DEF Reap
<1>3. CASE Record
  BY <1>3 DEF Record
<1>4. CASE Settle
  BY <1>4 DEF Settle, StatusOf
<1>5. CASE WaitFails
  BY <1>5 DEF WaitFails
<1>6. CASE Pick
  BY <1>6 DEF Pick
<1>7. ASSUME NEW w \in Syncs, Look(w) PROVE ToldInv'
  BY <1>7 DEF Look, StatusOf
<1>8. ASSUME NEW w \in Syncs, Kill(w) PROVE ToldInv'
  BY <1>8 DEF Kill
<1>9. ASSUME NEW w \in Syncs, KillError(w) PROVE ToldInv'
  BY <1>9 DEF KillError, Synced
<1>10. ASSUME NEW w \in Syncs, Judge(w) PROVE ToldInv'
  BY <1>10 DEF Judge, Synced
<1>11. ASSUME NEW w \in Syncs, Store(w) PROVE ToldInv'
  BY <1>11 DEF Store, Synced
<1>12. CASE MarkStopping
  BY <1>12 DEF MarkStopping
<1>13. CASE Stopped
  BY <1>13 DEF Stopped
<1>14. CASE StopFails
  BY <1>14 DEF StopFails
<1>15. CASE Match
  BY <1>15 DEF Match
<1>16. CASE PatternTimeout
  BY <1>16 DEF PatternTimeout
<1>17. CASE Woken
  BY <1>17 DEF Woken, Wake
<1>18. CASE StreamEnds
  BY <1>18 DEF StreamEnds, Wake
<1>19. CASE SafetyNet
  BY <1>19 DEF SafetyNet, Wake
<1>20. CASE CollectLine
  BY <1>20 DEF CollectLine
<1>21. CASE ReadFlag
  BY <1>21 DEF ReadFlag
<1>22. CASE ReadStatus
  BY <1>22 DEF ReadStatus
<1>23. CASE ReadCode
  BY <1>23 DEF ReadCode, CodeWith
<1>24. CASE Drop
  BY <1>24 DEF Drop, NoAnswer
<1>25. ASSUME NEW r \in Readers, GetProcess(r) PROVE ToldInv'
  BY <1>25 DEF GetProcess, NoView
<1>26. ASSUME NEW r \in Readers, NEW filter \in Statuses, ListProcesses(r, filter)
       PROVE  ToldInv'
  BY <1>26 DEF ListProcesses, NoView
<1>27. ASSUME NEW r \in Readers, ViewStatus(r) PROVE ToldInv'
  BY <1>27 DEF ViewStatus
<1>28. ASSUME NEW r \in Readers, ViewCode(r) PROVE ToldInv'
  BY <1>28 DEF ViewCode, CodeWith
<1>29. CASE UNCHANGED vars
  BY <1>29 DEF vars
<1> HIDE DEF ToldInv
<1> QED
  BY <1>1, <1>2, <1>3, <1>4, <1>5, <1>6, <1>7, <1>8, <1>9, <1>10, <1>11,
     <1>12, <1>13, <1>14, <1>15, <1>16, <1>17, <1>18, <1>19, <1>20, <1>21, <1>22,
     <1>23, <1>24, <1>25, <1>26, <1>27, <1>28, <1>29
  DEF Next, Monitor, Stop, Wait, Starter, Sync, Reader

LEMMA NextEarly == TypeOK /\ ClaimInv /\ [Next]_vars => EarlyInv'
<1> SUFFICES ASSUME TypeOK /\ ClaimInv, [Next]_vars PROVE EarlyInv'
  OBVIOUS
<1> USE DEF TypeOK, ClaimInv, EarlyInv, PatternInv, StatusOf, Syncs, Statuses, Active, Ended,
        osVars, proxyVars, waitVars, startVars, readVars, obsVars
<1>1. CASE Exit
  BY <1>1 DEF Exit
<1>2. CASE Reap
  BY <1>2 DEF Reap
<1>3. CASE Record
  BY <1>3 DEF Record
<1>4. CASE Settle
  BY <1>4 DEF Settle, StatusOf
<1>5. CASE WaitFails
  BY <1>5 DEF WaitFails
<1>6. CASE Pick
  BY <1>6 DEF Pick
<1>7. ASSUME NEW w \in Syncs, Look(w) PROVE EarlyInv'
  BY <1>7 DEF Look, StatusOf
<1>8. ASSUME NEW w \in Syncs, Kill(w) PROVE EarlyInv'
  BY <1>8 DEF Kill
<1>9. ASSUME NEW w \in Syncs, KillError(w) PROVE EarlyInv'
  BY <1>9 DEF KillError, Synced
<1>10. ASSUME NEW w \in Syncs, Judge(w) PROVE EarlyInv'
  BY <1>10 DEF Judge, Synced
<1>11. ASSUME NEW w \in Syncs, Store(w) PROVE EarlyInv'
  <2>1. /\ at[w] = "store" /\ status' = seen[w]
        /\ overwritten' = (overwritten \/ status \notin Active)
        /\ at' = [at EXCEPT ![w] = "idle"] /\ seen' = [seen EXCEPT ![w] = "none"]
        /\ start' = IF w = "start" THEN "synced" ELSE start
        /\ UNCHANGED <<child, code, monitor, stop, answer, early, unchecked>>
    BY <1>11 DEF Store, Synced
  <2>2. seen[w] \in {"Running"} \cup Ended /\ (seen[w] = "Stopped" => code = "zero")
    BY <2>1
  <2>3. overwritten' \/ (~overwritten /\ status \in Active)
    BY <2>1
  <2>4. stop = "none" /\ monitor = "done" => overwritten'
    BY <2>3
  <2>5. CASE w = "start"
    BY <2>1, <2>2, <2>3, <2>4, <2>5
  <2>6. CASE w # "start"
    <3>1. start' = start /\ at'["start"] = at["start"] /\ seen'["start"] = seen["start"]
      BY <2>1, <2>6
    <3> QED BY <2>1, <2>2, <2>3, <2>4, <3>1
  <2> QED BY <2>5, <2>6
<1>12. CASE MarkStopping
  BY <1>12 DEF MarkStopping
<1>13. CASE Stopped
  BY <1>13 DEF Stopped
<1>14. CASE StopFails
  BY <1>14 DEF StopFails
<1>15. CASE Match
  BY <1>15 DEF Match
<1>16. CASE PatternTimeout
  BY <1>16 DEF PatternTimeout
<1>17. CASE Woken
  BY <1>17 DEF Woken, Wake
<1>18. CASE StreamEnds
  BY <1>18 DEF StreamEnds, Wake
<1>19. CASE SafetyNet
  BY <1>19 DEF SafetyNet, Wake
<1>20. CASE CollectLine
  BY <1>20 DEF CollectLine
<1>21. CASE ReadFlag
  BY <1>21 DEF ReadFlag
<1>22. CASE ReadStatus
  BY <1>22 DEF ReadStatus
<1>23. CASE ReadCode
  BY <1>23 DEF ReadCode, CodeWith
<1>24. CASE Drop
  BY <1>24 DEF Drop, NoAnswer
<1>25. ASSUME NEW r \in Readers, GetProcess(r) PROVE EarlyInv'
  BY <1>25 DEF GetProcess, NoView
<1>26. ASSUME NEW r \in Readers, NEW filter \in Statuses, ListProcesses(r, filter)
       PROVE  EarlyInv'
  BY <1>26 DEF ListProcesses, NoView
<1>27. ASSUME NEW r \in Readers, ViewStatus(r) PROVE EarlyInv'
  BY <1>27 DEF ViewStatus
<1>28. ASSUME NEW r \in Readers, ViewCode(r) PROVE EarlyInv'
  BY <1>28 DEF ViewCode, CodeWith
<1>29. CASE UNCHANGED vars
  BY <1>29 DEF vars
<1> HIDE DEF EarlyInv
<1> QED
  BY <1>1, <1>2, <1>3, <1>4, <1>5, <1>6, <1>7, <1>8, <1>9, <1>10, <1>11,
     <1>12, <1>13, <1>14, <1>15, <1>16, <1>17, <1>18, <1>19, <1>20, <1>21, <1>22,
     <1>23, <1>24, <1>25, <1>26, <1>27, <1>28, <1>29
  DEF Next, Monitor, Stop, Wait, Starter, Sync, Reader

LEMMA NextPattern == TypeOK /\ ClaimInv /\ [Next]_vars => PatternInv'
<1> SUFFICES ASSUME TypeOK /\ ClaimInv, [Next]_vars PROVE PatternInv'
  OBVIOUS
<1> USE DEF TypeOK, ClaimInv, PatternInv, Syncs, Active,
        osVars, proxyVars, waitVars, startVars, readVars, obsVars
<1>1. CASE Exit
  BY <1>1 DEF Exit
<1>2. CASE Reap
  BY <1>2 DEF Reap
<1>3. CASE Record
  BY <1>3 DEF Record
<1>4. CASE Settle
  BY <1>4 DEF Settle, StatusOf
<1>5. CASE WaitFails
  BY <1>5 DEF WaitFails
<1>6. CASE Pick
  BY <1>6 DEF Pick
<1>7. ASSUME NEW w \in Syncs, Look(w) PROVE PatternInv'
  BY <1>7 DEF Look, StatusOf
<1>8. ASSUME NEW w \in Syncs, Kill(w) PROVE PatternInv'
  BY <1>8 DEF Kill
<1>9. ASSUME NEW w \in Syncs, KillError(w) PROVE PatternInv'
  BY <1>9 DEF KillError, Synced
<1>10. ASSUME NEW w \in Syncs, Judge(w) PROVE PatternInv'
  BY <1>10 DEF Judge, Synced
<1>11. ASSUME NEW w \in Syncs, Store(w) PROVE PatternInv'
  BY <1>11 DEF Store, Synced
<1>12. CASE MarkStopping
  BY <1>12 DEF MarkStopping
<1>13. CASE Stopped
  BY <1>13 DEF Stopped
<1>14. CASE StopFails
  BY <1>14 DEF StopFails
<1>15. CASE Match
  BY <1>15 DEF Match
<1>16. CASE PatternTimeout
  BY <1>16 DEF PatternTimeout
<1>17. CASE Woken
  BY <1>17 DEF Woken, Wake
<1>18. CASE StreamEnds
  BY <1>18 DEF StreamEnds, Wake
<1>19. CASE SafetyNet
  BY <1>19 DEF SafetyNet, Wake
<1>20. CASE CollectLine
  BY <1>20 DEF CollectLine
<1>21. CASE ReadFlag
  BY <1>21 DEF ReadFlag
<1>22. CASE ReadStatus
  BY <1>22 DEF ReadStatus
<1>23. CASE ReadCode
  BY <1>23 DEF ReadCode, CodeWith
<1>24. CASE Drop
  BY <1>24 DEF Drop, NoAnswer
<1>25. ASSUME NEW r \in Readers, GetProcess(r) PROVE PatternInv'
  BY <1>25 DEF GetProcess, NoView
<1>26. ASSUME NEW r \in Readers, NEW filter \in Statuses, ListProcesses(r, filter)
       PROVE  PatternInv'
  BY <1>26 DEF ListProcesses, NoView
<1>27. ASSUME NEW r \in Readers, ViewStatus(r) PROVE PatternInv'
  BY <1>27 DEF ViewStatus
<1>28. ASSUME NEW r \in Readers, ViewCode(r) PROVE PatternInv'
  BY <1>28 DEF ViewCode, CodeWith
<1>29. CASE UNCHANGED vars
  BY <1>29 DEF vars
<1> HIDE DEF PatternInv
<1> QED
  BY <1>1, <1>2, <1>3, <1>4, <1>5, <1>6, <1>7, <1>8, <1>9, <1>10, <1>11,
     <1>12, <1>13, <1>14, <1>15, <1>16, <1>17, <1>18, <1>19, <1>20, <1>21, <1>22,
     <1>23, <1>24, <1>25, <1>26, <1>27, <1>28, <1>29
  DEF Next, Monitor, Stop, Wait, Starter, Sync, Reader

-----------------------------------------------------------------------------
(* Every variable keeps its type, and a sync that stores by an exit code holds
   the lock on it. *)
THEOREM ReportTypes == Spec => []TypeOK
<1> QED
  BY InitTypes, NextTypes, PTL DEF Spec

(* However many clients ask, nobody is told of an end before there is one, of
   another exit code than the child's, or, once an end was told, that the
   process runs, unless a sync has stored over the status. *)
THEOREM EndsToldAreTrue == Spec => []EndToldTrue
<1>1. ToldInv => EndToldTrue
  BY DEF ToldInv, EndIsOut, EndToldTrue
<1> QED
  BY <1>1, ReportTypes, InitTold, NextTold, PTL DEF Spec

(* What the clients make of the answer to a start holds: an end that had come
   when the start woke is told, and the pattern was matched if they say so, but
   for what PatternClaims says of the tool for restarts. *)
THEOREM ClaimsAreTrue == Spec => []ClaimsHold
<1>1. TypeOK /\ ClaimInv => ImmediateExitTold
  BY DEF TypeOK, ClaimInv, EarlyInv, ImmediateExitTold, StatusOf, Claim, RestartToolSays,
         RestartCommandSays
<1>2. TypeOK /\ ClaimInv => PatternClaims
  BY DEF TypeOK, ClaimInv, PatternInv, PatternClaims, Claim, StartToolSays, StartCommandSays,
         RestartToolSays
<1>3. TypeOK /\ ClaimInv /\ [Next]_vars => ClaimInv'
  BY NextEarly, NextPattern DEF ClaimInv
<1> QED
  BY <1>1, <1>2, <1>3, ReportTypes, InitClaims, PTL DEF Spec, ClaimsHold

=============================================================================
