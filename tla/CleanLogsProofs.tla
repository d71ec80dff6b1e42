-------------------------- MODULE CleanLogsProofs --------------------------
(***************************************************************************)
(* Theorems about CleanLogs, for any number of instances, names, projects  *)
(* and clean requests: who keeps its log, and what a clean has deleted     *)
(* when it is done.  KeepInv says why a clean that is deleting comes in    *)
(* the way of nobody it has not exposed, OldInv where an old log that is   *)
(* still there will be met.                                                *)
(***************************************************************************)
EXTENDS CleanLogs, TLAPS

(* No clean is going to delete the log of an instance it has not exposed, nor
   its directory before the log is there. *)
KeptFrom(i, c) ==
  /\ name[i] \notin found[c]
  /\ Deleting(c, ProjectOf[name[i]]) =>
       /\ name[i] \in exclude[c]
       /\ writer[i] \in {"none", "ready"} => link[name[i]] # NoFile

KeepInv ==
  /\ \A i \in Ids : writer[i] = "open" => fd[i] # NoFile
  /\ \A c \in Cleans : \A n \in found[c] : at[c] = "delete" /\ project[c] = ProjectOf[n]
  /\ \A i \in registry \ exposed :
       /\ writer[i] = "ready" => ProjectOf[name[i]] \in dirs
       /\ \A c \in Cleans : KeptFrom(i, c)

(* A log that was there when the clean began and that it has not met. *)
Old(c, n) ==
  /\ ProjectOf[n] \in scope[c]
  /\ before[c][n] # NoFile /\ link[n] = before[c][n]
  /\ n \notin spared[c]

OldInv ==
  /\ \A n \in Names, i \in Ids : link[n] = i => writer[i] \in {"open", "closed"}
  /\ \A c \in Cleans :
       /\ exclude[c] \subseteq spared[c]
       /\ at[c] = "done" => left[c] = {}
       /\ \A n \in Names :
            /\ \A i \in Ids : before[c][n] = i => writer[i] \in {"open", "closed"}
            /\ at[c] # "idle" /\ Old(c, n) =>
                 \/ ProjectOf[n] \in left[c]
                 \/ /\ project[c] = ProjectOf[n]
                    /\ at[c] \in {"stop", "list"} \/ (at[c] = "delete" /\ n \in found[c])

-----------------------------------------------------------------------------
LEMMA InitTypes == Init => TypeOK
  BY CleanAssumption DEF Init, TypeOK, Started, Files

LEMMA InitKeep == Init => KeepInv /\ UnexposedKeepLog
  BY DEF Init, KeepInv, UnexposedKeepLog

LEMMA InitOld == Init => OldInv
  BY CleanAssumption DEF Init, OldInv, Files

LEMMA NextTypes == TypeOK /\ [Next]_vars => TypeOK'
<1> SUFFICES ASSUME TypeOK, [Next]_vars PROVE TypeOK'
  OBVIOUS
<1> USE CleanAssumption
    DEF TypeOK, Started, Files, ProcessesOf, LogsOf, ProjectsSeen,
        procVars, fileVars, cleanVars, obsVars
<1>1. ASSUME NEW i \in Ids, NEW n \in Names, Start(i, n) PROVE TypeOK'
  BY <1>1 DEF Start
<1>2. ASSUME NEW i \in Ids, Exit(i) PROVE TypeOK'
  BY <1>2 DEF Exit
<1>3. ASSUME NEW i \in Ids, Evict(i) PROVE TypeOK'
  BY <1>3 DEF Evict
<1>4. ASSUME NEW i \in Ids, Stop(i) PROVE TypeOK'
  BY <1>4 DEF Stop
<1>5. ASSUME NEW i \in Ids, MakeDir(i) PROVE TypeOK'
  BY <1>5 DEF MakeDir
<1>6. ASSUME NEW i \in Ids, OpenLog(i) PROVE TypeOK'
  BY <1>6 DEF OpenLog
<1>7. ASSUME NEW i \in Ids, OpenFails(i) PROVE TypeOK'
  BY <1>7 DEF OpenFails
<1>8. ASSUME NEW i \in Ids, CloseLog(i) PROVE TypeOK'
  BY <1>8 DEF CloseLog
<1>9. ASSUME NEW c \in Cleans, NEW p \in Projects, BeginClean(c, p) PROVE TypeOK'
  BY <1>9 DEF BeginClean, To
<1>10. ASSUME NEW c \in Cleans, BeginCleanAll(c) PROVE TypeOK'
  BY <1>10 DEF BeginCleanAll, To
<1>11. ASSUME NEW c \in Cleans, NextProject(c) PROVE TypeOK'
  BY <1>11 DEF NextProject, To
<1>12. ASSUME NEW c \in Cleans, NEW i \in Ids, StopOne(c, i) PROVE TypeOK'
  BY <1>12 DEF StopOne
<1>13. ASSUME NEW c \in Cleans, NEW i \in Ids, StopFails(c, i) PROVE TypeOK'
  BY <1>13 DEF StopFails
<1>14. ASSUME NEW c \in Cleans, TakeExclude(c) PROVE TypeOK'
  BY <1>14 DEF TakeExclude, To
<1>15. ASSUME NEW c \in Cleans, ListFiles(c) PROVE TypeOK'
  BY <1>15 DEF ListFiles, To
<1>16. ASSUME NEW c \in Cleans, ListFails(c) PROVE TypeOK'
  BY <1>16 DEF ListFails, ToNext, To
<1>17. ASSUME NEW c \in Cleans, NEW n \in Names, DeleteFile(c, n) PROVE TypeOK'
  BY <1>17 DEF DeleteFile
<1>18. ASSUME NEW c \in Cleans, NEW n \in Names, DeleteFails(c, n) PROVE TypeOK'
  BY <1>18 DEF DeleteFails
<1>19. ASSUME NEW c \in Cleans, RemoveDir(c) PROVE TypeOK'
  BY <1>19 DEF RemoveDir, ToNext, To
<1>20. ASSUME NEW c \in Cleans, Finish(c) PROVE TypeOK'
  BY <1>20 DEF Finish, To
<1>21. CASE UNCHANGED vars
  BY <1>21 DEF vars
<1> HIDE DEF TypeOK
<1> QED
  BY <1>1, <1>2, <1>3, <1>4, <1>5, <1>6, <1>7, <1>8, <1>9, <1>10, <1>11, <1>12,
     <1>13, <1>14, <1>15, <1>16, <1>17, <1>18, <1>19, <1>20, <1>21
  DEF Next, Process, Writer, Clean

LEMMA NextKeep == TypeOK /\ KeepInv /\ [Next]_vars => KeepInv'
<1> SUFFICES ASSUME TypeOK /\ KeepInv, [Next]_vars PROVE KeepInv'
  OBVIOUS
<1> USE CleanAssumption
    DEF TypeOK, KeepInv, KeptFrom, Deleting, Started, Files, ProcessesOf, LogsOf,
        procVars, fileVars, cleanVars, obsVars
<1>1. ASSUME NEW i \in Ids, NEW n \in Names, Start(i, n) PROVE KeepInv'
  BY <1>1 DEF Start
<1>2. ASSUME NEW i \in Ids, Exit(i) PROVE KeepInv'
  BY <1>2 DEF Exit
<1>3. ASSUME NEW i \in Ids, Evict(i) PROVE KeepInv'
  BY <1>3 DEF Evict
<1>4. ASSUME NEW i \in Ids, Stop(i) PROVE KeepInv'
  BY <1>4 DEF Stop
<1>5. ASSUME NEW i \in Ids, MakeDir(i) PROVE KeepInv'
  BY <1>5 DEF MakeDir
<1>6. ASSUME NEW i \in Ids, OpenLog(i) PROVE KeepInv'
  BY <1>6 DEF OpenLog
<1>7. ASSUME NEW i \in Ids, OpenFails(i) PROVE KeepInv'
  BY <1>7 DEF OpenFails
<1>8. ASSUME NEW i \in Ids, CloseLog(i) PROVE KeepInv'
  BY <1>8 DEF CloseLog
<1>9. ASSUME NEW c \in Cleans, NEW p \in Projects, BeginClean(c, p) PROVE KeepInv'
  BY <1>9 DEF BeginClean, To
<1>10. ASSUME NEW c \in Cleans, BeginCleanAll(c) PROVE KeepInv'
  BY <1>10 DEF BeginCleanAll, To
<1>11. ASSUME NEW c \in Cleans, NextProject(c) PROVE KeepInv'
  BY <1>11 DEF NextProject, To
<1>12. ASSUME NEW c \in Cleans, NEW i \in Ids, StopOne(c, i) PROVE KeepInv'
  BY <1>12 DEF StopOne
<1>13. ASSUME NEW c \in Cleans, NEW i \in Ids, StopFails(c, i) PROVE KeepInv'
  BY <1>13 DEF StopFails
<1>14. ASSUME NEW c \in Cleans, TakeExclude(c) PROVE KeepInv'
  BY <1>14 DEF TakeExclude, To
<1>15. ASSUME NEW c \in Cleans, ListFiles(c) PROVE KeepInv'
  BY <1>15 DEF ListFiles, To
<1>16. ASSUME NEW c \in Cleans, ListFails(c) PROVE KeepInv'
  BY <1>16 DEF ListFails, ToNext, To
<1>17. ASSUME NEW c \in Cleans, NEW n \in Names, DeleteFile(c, n) PROVE KeepInv'
  BY <1>17 DEF DeleteFile
<1>18. ASSUME NEW c \in Cleans, NEW n \in Names, DeleteFails(c, n) PROVE KeepInv'
  BY <1>18 DEF DeleteFails
<1>19. ASSUME NEW c \in Cleans, RemoveDir(c) PROVE KeepInv'
  BY <1>19 DEF RemoveDir, ToNext, To
<1>20. ASSUME NEW c \in Cleans, Finish(c) PROVE KeepInv'
  BY <1>20 DEF Finish, To
<1>21. CASE UNCHANGED vars
  BY <1>21 DEF vars
<1> HIDE DEF KeepInv
<1> QED
  BY <1>1, <1>2, <1>3, <1>4, <1>5, <1>6, <1>7, <1>8, <1>9, <1>10, <1>11, <1>12,
     <1>13, <1>14, <1>15, <1>16, <1>17, <1>18, <1>19, <1>20, <1>21
  DEF Next, Process, Writer, Clean

LEMMA NextUnexposed == TypeOK /\ KeepInv /\ UnexposedKeepLog /\ [Next]_vars => UnexposedKeepLog'
<1> SUFFICES ASSUME TypeOK /\ KeepInv /\ UnexposedKeepLog, [Next]_vars PROVE UnexposedKeepLog'
  OBVIOUS
<1> USE CleanAssumption
    DEF TypeOK, KeepInv, KeptFrom, UnexposedKeepLog, Started, Files,
        procVars, fileVars, cleanVars, obsVars
<1>1. ASSUME NEW i \in Ids, NEW n \in Names, Start(i, n) PROVE UnexposedKeepLog'
  BY <1>1 DEF Start
<1>2. ASSUME NEW i \in Ids, Exit(i) PROVE UnexposedKeepLog'
  BY <1>2 DEF Exit
<1>3. ASSUME NEW i \in Ids, Evict(i) PROVE UnexposedKeepLog'
  BY <1>3 DEF Evict
<1>4. ASSUME NEW i \in Ids, Stop(i) PROVE UnexposedKeepLog'
  BY <1>4 DEF Stop
<1>5. ASSUME NEW i \in Ids, MakeDir(i) PROVE UnexposedKeepLog'
  BY <1>5 DEF MakeDir
<1>6. ASSUME NEW i \in Ids, OpenLog(i) PROVE UnexposedKeepLog'
  BY <1>6 DEF OpenLog
<1>7. ASSUME NEW i \in Ids, OpenFails(i) PROVE UnexposedKeepLog'
  BY <1>7 DEF OpenFails
<1>8. ASSUME NEW i \in Ids, CloseLog(i) PROVE UnexposedKeepLog'
  BY <1>8 DEF CloseLog
<1>9. ASSUME NEW c \in Cleans, NEW p \in Projects, BeginClean(c, p) PROVE UnexposedKeepLog'
  BY <1>9 DEF BeginClean, To
<1>10. ASSUME NEW c \in Cleans, BeginCleanAll(c) PROVE UnexposedKeepLog'
  BY <1>10 DEF BeginCleanAll, To
<1>11. ASSUME NEW c \in Cleans, NextProject(c) PROVE UnexposedKeepLog'
  BY <1>11 DEF NextProject, To
<1>12. ASSUME NEW c \in Cleans, NEW i \in Ids, StopOne(c, i) PROVE UnexposedKeepLog'
  BY <1>12 DEF StopOne
<1>13. ASSUME NEW c \in Cleans, NEW i \in Ids, StopFails(c, i) PROVE UnexposedKeepLog'
  BY <1>13 DEF StopFails
<1>14. ASSUME NEW c \in Cleans, TakeExclude(c) PROVE UnexposedKeepLog'
  BY <1>14 DEF TakeExclude, To
<1>15. ASSUME NEW c \in Cleans, ListFiles(c) PROVE UnexposedKeepLog'
  BY <1>15 DEF ListFiles, To
<1>16. ASSUME NEW c \in Cleans, ListFails(c) PROVE UnexposedKeepLog'
  BY <1>16 DEF ListFails, ToNext, To
<1>17. ASSUME NEW c \in Cleans, NEW n \in Names, DeleteFile(c, n) PROVE UnexposedKeepLog'
  BY <1>17 DEF DeleteFile
<1>18. ASSUME NEW c \in Cleans, NEW n \in Names, DeleteFails(c, n) PROVE UnexposedKeepLog'
  BY <1>18 DEF DeleteFails
<1>19. ASSUME NEW c \in Cleans, RemoveDir(c) PROVE UnexposedKeepLog'
  BY <1>19 DEF RemoveDir, ToNext, To
<1>20. ASSUME NEW c \in Cleans, Finish(c) PROVE UnexposedKeepLog'
  BY <1>20 DEF Finish, To
<1>21. CASE UNCHANGED vars
  BY <1>21 DEF vars
<1> HIDE DEF UnexposedKeepLog
<1> QED
  BY <1>1, <1>2, <1>3, <1>4, <1>5, <1>6, <1>7, <1>8, <1>9, <1>10, <1>11, <1>12,
     <1>13, <1>14, <1>15, <1>16, <1>17, <1>18, <1>19, <1>20, <1>21
  DEF Next, Process, Writer, Clean

LEMMA NextOld == TypeOK /\ OldInv /\ [Next]_vars => OldInv'
<1> SUFFICES ASSUME TypeOK /\ OldInv, [Next]_vars PROVE OldInv'
  OBVIOUS
<1> USE CleanAssumption
    DEF TypeOK, OldInv, Old, Started, Files, ProcessesOf, LogsOf, ProjectsSeen,
        procVars, fileVars, cleanVars, obsVars
<1>1. ASSUME NEW i \in Ids, NEW n \in Names, Start(i, n) PROVE OldInv'
  BY <1>1 DEF Start
<1>2. ASSUME NEW i \in Ids, Exit(i) PROVE OldInv'
  BY <1>2 DEF Exit
<1>3. ASSUME NEW i \in Ids, Evict(i) PROVE OldInv'
  BY <1>3 DEF Evict
<1>4. ASSUME NEW i \in Ids, Stop(i) PROVE OldInv'
  BY <1>4 DEF Stop
<1>5. ASSUME NEW i \in Ids, MakeDir(i) PROVE OldInv'
  BY <1>5 DEF MakeDir
<1>6. ASSUME NEW i \in Ids, OpenLog(i) PROVE OldInv'
  BY <1>6 DEF OpenLog
<1>7. ASSUME NEW i \in Ids, OpenFails(i) PROVE OldInv'
  BY <1>7 DEF OpenFails
<1>8. ASSUME NEW i \in Ids, CloseLog(i) PROVE OldInv'
  BY <1>8 DEF CloseLog
<1>9. ASSUME NEW c \in Cleans, NEW p \in Projects, BeginClean(c, p) PROVE OldInv'
  BY <1>9 DEF BeginClean, To
<1>10. ASSUME NEW c \in Cleans, BeginCleanAll(c) PROVE OldInv'
  BY <1>10 DEF BeginCleanAll, To
<1>11. ASSUME NEW c \in Cleans, NextProject(c) PROVE OldInv'
  BY <1>11 DEF NextProject, To
<1>12. ASSUME NEW c \in Cleans, NEW i \in Ids, StopOne(c, i) PROVE OldInv'
  BY <1>12 DEF StopOne
<1>13. ASSUME NEW c \in Cleans, NEW i \in Ids, StopFails(c, i) PROVE OldInv'
  BY <1>13 DEF StopFails
<1>14. ASSUME NEW c \in Cleans, TakeExclude(c) PROVE OldInv'
  BY <1>14 DEF TakeExclude, To
<1>15. ASSUME NEW c \in Cleans, ListFiles(c) PROVE OldInv'
  BY <1>15 DEF ListFiles, To
<1>16. ASSUME NEW c \in Cleans, ListFails(c) PROVE OldInv'
  BY <1>16 DEF ListFails, ToNext, To
<1>17. ASSUME NEW c \in Cleans, NEW n \in Names, DeleteFile(c, n) PROVE OldInv'
  BY <1>17 DEF DeleteFile
<1>18. ASSUME NEW c \in Cleans, NEW n \in Names, DeleteFails(c, n) PROVE OldInv'
  BY <1>18 DEF DeleteFails
<1>19. ASSUME NEW c \in Cleans, RemoveDir(c) PROVE OldInv'
  BY <1>19 DEF RemoveDir, ToNext, To
<1>20. ASSUME NEW c \in Cleans, Finish(c) PROVE OldInv'
  BY <1>20 DEF Finish, To
<1>21. CASE UNCHANGED vars
  BY <1>21 DEF vars
<1> HIDE DEF OldInv
<1> QED
  BY <1>1, <1>2, <1>3, <1>4, <1>5, <1>6, <1>7, <1>8, <1>9, <1>10, <1>11, <1>12,
     <1>13, <1>14, <1>15, <1>16, <1>17, <1>18, <1>19, <1>20, <1>21
  DEF Next, Process, Writer, Clean

-----------------------------------------------------------------------------
(* Every variable keeps its type, and every log is in a directory that is
   there, whatever is cleaned, started and written. *)
THEOREM CleanTypes == Spec => []TypeOK
<1> QED
  BY InitTypes, NextTypes, PTL DEF Spec

(* A registered process writes to the file its name leads to, unless a clean
   was deleting in its project when it was started, or before it had created
   its file: for any number of processes, projects and cleans. *)
THEOREM UnexposedKeepTheirLog == Spec => []UnexposedKeepLog
<1> QED
  BY CleanTypes, InitKeep, NextKeep, NextUnexposed, PTL DEF Spec

(* A clean that is done has left no file of its projects that was there when it
   began, but for names it found in use and files it could not delete. *)
THEOREM OldLogsAreGone == Spec => []OldLogsGone
<1>1. OldInv => OldLogsGone
  BY DEF OldInv, Old, OldLogsGone
<1> QED
  BY <1>1, CleanTypes, InitOld, NextOld, PTL DEF Spec

=============================================================================
