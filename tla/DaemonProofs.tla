----------------------------- MODULE DaemonProofs -----------------------------
(***************************************************************************)
(* Theorems about the daemon's life (DaemonLifecycle) and about its end    *)
(* (DaemonShutdown), for any number of daemons, commands, instances and    *)
(* names.                                                                  *)
(***************************************************************************)
EXTENDS DaemonLifecycle, DaemonShutdown, TLAPS

-----------------------------------------------------------------------------
(* DaemonLifecycle: what a PID in a PID file is worth, and what the lock   *)
(* of the PID file is worth as long as nobody unlinks it.                  *)


Locked(d) == Active(d) \/ dpc[d] = "exiting"
Opened(d) == Active(d) \/ dpc[d] = "lock"
Wrote(d)  == dpc[d] \in {"spawn", "handler", "serve", "stopping", "exiting", "gone"}

(* Having opened its PID file, a daemon locks it and then holds the lock;
   nobody else has written into it. *)
HoldInv ==
  /\ \A d \in Daemons : Opened(d) => handle[d] # None
  /\ \A d \in Daemons : Locked(d) => handle[d] # None /\ lock[handle[d]] = d
  /\ \A f, d \in Daemons : content[f] = d => Wrote(d) /\ (Alive(d) => handle[d] = f)
  /\ \A d \in Daemons : Locked(d) /\ Wrote(d) => content[handle[d]] = d

(* Until its file is unlinked, it is the one the path leads to. *)
PathInv ==
  \A d \in Daemons : Opened(d) /\ d \notin pulled => handle[d] = pidFile

(* Likewise for the socket, once the daemon has bound it. *)
SocketInv ==
  \A d \in Daemons :
    server[d] \in {"chmod", "up"} /\ ~Over(d) /\ d \notin pulled => socket = d

(* A command that has signalled a daemon is at one of the steps below, and
   what it has concluded about the daemon is so. *)
StopInv ==
  \A c \in Commands :
    /\ cpc[c] = "signal" => kind[c] \in {"stop", "restart"}
    /\ target[c] # None =>
         /\ kind[c] \in {"stop", "restart"}
         /\ cpc[c] \notin {"new", "signal", "glance", "glanced", "dial", "connected"}
         /\ Wrote(target[c])
         /\ cpc[c] = "judge" /\ pulled = {} => Over(target[c]) \/ pid[c] = target[c]
         /\ cpc[c] \in {"stopped", "killed", "unpid", "unsocket", "spawn", "await"} /\ pulled = {}
              => Over(target[c])

Inv == TypeOK /\ HoldInv /\ PathInv /\ SocketInv /\ StopInv

(* The steps of a command that change nothing but the command. *)
Looks(c) ==
  \/ \E k \in Kinds : Begin(c, k)
  \/ Probe(c) \/ ReadPid(c) \/ JudgePid(c) \/ DaemonStarted(c)
  \/ Glance(c) \/ JudgeGlance(c) \/ Dial(c) \/ DialAgain(c)
  \/ \E same \in BOOLEAN : CheckVersion(c, same)

-----------------------------------------------------------------------------
LEMMA LooksOnly ==
  ASSUME NEW c \in Commands, Looks(c)
  PROVE UNCHANGED <<fileVars, daemonVars, pulled>>
BY DEF Looks, Begin, Probe, ReadPid, JudgePid, DaemonStarted, Glance, JudgeGlance, Dial,
       DialAgain, CheckVersion

LEMMA InitInv == Init => Inv
<1> SUFFICES ASSUME Init PROVE Inv
  OBVIOUS
<1> PICK up \in {{}} \cup {{d} : d \in Daemons} :
      /\ pidFile = IF up = {} THEN None ELSE CHOOSE d \in up : TRUE
      /\ socket = pidFile
      /\ content = [f \in Daemons |-> IF f \in up THEN f ELSE None]
      /\ lock = content
      /\ handle = content
      /\ dpc = [d \in Daemons |-> IF d \in up THEN "serve" ELSE "unborn"]
      /\ server = [d \in Daemons |-> IF d \in up THEN "up" ELSE "none"]
      /\ term = [d \in Daemons |-> FALSE]
      /\ kind = [c \in Commands |-> "none"]
      /\ cpc = [c \in Commands |-> "new"]
      /\ pid = [c \in Commands |-> None]
      /\ target = pid
      /\ child = pid
      /\ pulled = {}
  BY DEF Init
<1>1. pidFile \in MaybeDaemon /\ \A d \in up : pidFile = d
  BY DEF MaybeDaemon
<1>2. TypeOK
  BY <1>1, DaemonAssumption DEF TypeOK, MaybeDaemon
<1>3. HoldInv
  BY DaemonAssumption DEF HoldInv, Opened, Locked, Active, Wrote
<1>4. PathInv
  BY <1>1, DaemonAssumption DEF PathInv, Opened, Active
<1>5. SocketInv
  BY <1>1, DaemonAssumption DEF SocketInv, Over
<1>6. StopInv
  BY DaemonAssumption DEF StopInv
<1> QED BY <1>2, <1>3, <1>4, <1>5, <1>6 DEF Inv

LEMMA NextTypes == TypeOK /\ [Next]_vars => TypeOK'
<1> SUFFICES ASSUME TypeOK, [Next]_vars PROVE TypeOK'
  OBVIOUS
<1> USE DaemonAssumption
    DEF TypeOK, MaybeDaemon, Daemon, Serve, Command, End, UnlinkPid, UnlinkSocket, Alive, PidRead,
        fileVars, daemonVars, localVars
<1>1. ASSUME NEW d \in Daemons, OpenPidFile(d) PROVE TypeOK'
  BY <1>1 DEF OpenPidFile
<1>2. ASSUME NEW d \in Daemons, LockPidFile(d) PROVE TypeOK'
  <2>1. /\ lock' \in [Daemons -> MaybeDaemon] /\ dpc' = [dpc EXCEPT ![d] = "truncate"]
        /\ UNCHANGED <<pidFile, socket, content, handle, server, term, kind, cpc, pid, target,
                       child, pulled>>
    BY <1>2 DEF LockPidFile
  <2>2. \A e \in Daemons : server[e] # "none" => e # d
    BY <1>2 DEF LockPidFile
  <2> QED
    BY <2>1, <2>2
<1>3. ASSUME NEW d \in Daemons, LockRefused(d) PROVE TypeOK'
  BY <1>3 DEF LockRefused
<1>4. ASSUME NEW d \in Daemons, TruncatePidFile(d) PROVE TypeOK'
  BY <1>4 DEF TruncatePidFile
<1>5. ASSUME NEW d \in Daemons, WritePid(d) PROVE TypeOK'
  BY <1>5 DEF WritePid
<1>6. ASSUME NEW d \in Daemons, SpawnServer(d) PROVE TypeOK'
  BY <1>6 DEF SpawnServer
<1>7. ASSUME NEW d \in Daemons, InstallHandler(d) PROVE TypeOK'
  BY <1>7 DEF InstallHandler
<1>8. ASSUME NEW d \in Daemons, BeginShutdown(d) PROVE TypeOK'
  BY <1>8 DEF BeginShutdown
<1>9. ASSUME NEW d \in Daemons, RemovePidFile(d) PROVE TypeOK'
  BY <1>9 DEF RemovePidFile
<1>10. ASSUME NEW d \in Daemons, Exit(d) PROVE TypeOK'
  BY <1>10 DEF Exit
<1>11. ASSUME NEW d \in Daemons, Crash(d) PROVE TypeOK'
  BY <1>11 DEF Crash
<1>12. ASSUME NEW d \in Daemons, LookForSocket(d) PROVE TypeOK'
  BY <1>12 DEF LookForSocket
<1>13. ASSUME NEW d \in Daemons, RemoveOldSocket(d) PROVE TypeOK'
  BY <1>13 DEF RemoveOldSocket
<1>14. ASSUME NEW d \in Daemons, BindSocket(d) PROVE TypeOK'
  BY <1>14 DEF BindSocket
<1>15. ASSUME NEW d \in Daemons, SetPermissions(d) PROVE TypeOK'
  BY <1>15 DEF SetPermissions
<1>16. ASSUME NEW c \in Commands, RemoveStalePid(c) PROVE TypeOK'
  BY <1>16 DEF RemoveStalePid
<1>17. ASSUME NEW c \in Commands, RemoveStaleSocket(c) PROVE TypeOK'
  BY <1>17 DEF RemoveStaleSocket
<1>18. ASSUME NEW c \in Commands, SignalDaemon(c) PROVE TypeOK'
  <2>1. CASE PidRead = None \/ (PidRead # None /\ ~Alive(PidRead))
    BY <1>18, <2>1 DEF SignalDaemon
  <2>2. ASSUME NEW t \in Daemons, PidRead = t, Alive(t) PROVE TypeOK'
    <3>1. /\ cpc' = [cpc EXCEPT ![c] = "probe"] /\ target' = [target EXCEPT ![c] = t]
          /\ UNCHANGED <<pidFile, content, socket, kind, pid, child, pulled>>
      BY <1>18, <2>2 DEF SignalDaemon
    <3>2. \/ term' = [term EXCEPT ![t] = TRUE] /\ UNCHANGED <<lock, dpc, handle, server>>
          \/ End(t)
      BY <1>18, <2>2 DEF SignalDaemon
    <3>3. CASE term' = [term EXCEPT ![t] = TRUE] /\ UNCHANGED <<lock, dpc, handle, server>>
      BY <3>1, <3>3
    <3>4. CASE End(t)
      BY <3>1, <3>4
    <3> QED BY <3>2, <3>3, <3>4
  <2> QED BY <2>1, <2>2
<1>19. ASSUME NEW c \in Commands, KillDaemon(c) PROVE TypeOK'
  BY <1>19 DEF KillDaemon
<1>20. ASSUME NEW c \in Commands, StartFailed(c) PROVE TypeOK'
  BY <1>20 DEF StartFailed
<1>21. ASSUME NEW c \in Commands, NEW d \in Daemons, SpawnDaemon(c, d) PROVE TypeOK'
  BY <1>21 DEF SpawnDaemon
<1>22. ASSUME NEW c \in Commands, Probe(c) PROVE TypeOK'
  BY <1>22 DEF Probe, WhenRunning
<1>23. ASSUME NEW c \in Commands, ReadPid(c) PROVE TypeOK'
  BY <1>23 DEF ReadPid, WhenNotRunning
<1>24. ASSUME NEW c \in Commands, JudgePid(c) PROVE TypeOK'
  BY <1>24 DEF JudgePid, WhenRunning, WhenNotRunning
<1>25. ASSUME NEW c \in Commands, DaemonStarted(c) PROVE TypeOK'
  BY <1>25 DEF DaemonStarted
<1>26. ASSUME NEW c \in Commands, Glance(c) PROVE TypeOK'
  BY <1>26 DEF Glance
<1>27. ASSUME NEW c \in Commands, JudgeGlance(c) PROVE TypeOK'
  BY <1>27 DEF JudgeGlance
<1>28. ASSUME NEW c \in Commands, Dial(c) PROVE TypeOK'
  BY <1>28 DEF Dial
<1>29. ASSUME NEW c \in Commands, DialAgain(c) PROVE TypeOK'
  BY <1>29 DEF DialAgain
<1>30. ASSUME NEW c \in Commands, NEW k \in Kinds, Begin(c, k) PROVE TypeOK'
  BY <1>30 DEF Begin
<1>31. ASSUME NEW c \in Commands, NEW same \in BOOLEAN, CheckVersion(c, same) PROVE TypeOK'
  BY <1>31 DEF CheckVersion
<1>32. CASE UNCHANGED vars
  BY <1>32 DEF vars
<1> HIDE DEF TypeOK
<1> QED
  BY <1>1, <1>2, <1>3, <1>4, <1>5, <1>6, <1>7, <1>8, <1>9, <1>10, <1>11, <1>12,
     <1>13, <1>14, <1>15, <1>16, <1>17, <1>18, <1>19, <1>20, <1>21, <1>22, <1>23,
     <1>24, <1>25, <1>26, <1>27, <1>28, <1>29, <1>30, <1>31, <1>32
  DEF Next, DaemonStep, CommandStep

LEMMA NextHold == TypeOK /\ HoldInv /\ [Next]_vars => HoldInv'
<1> SUFFICES ASSUME TypeOK, HoldInv, [Next]_vars PROVE HoldInv'
  OBVIOUS
<1> USE DaemonAssumption
    DEF TypeOK, MaybeDaemon, HoldInv, Opened, Locked, Active, Wrote, Alive, Daemon, Serve,
        End, PidRead, fileVars, daemonVars
<1>1. ASSUME NEW d \in Daemons, OpenPidFile(d) PROVE HoldInv'
  BY <1>1 DEF OpenPidFile
<1>2. ASSUME NEW d \in Daemons, LockPidFile(d) PROVE HoldInv'
  <2>1. handle[d] \in Daemons
    BY <1>2 DEF LockPidFile
  <2>2. \A e \in Daemons : Locked(e)' => handle[e] # None /\ lock'[handle[e]] = e
    BY <1>2, <2>1 DEF LockPidFile
  <2>3. \A f, e \in Daemons : content[f] = e => Wrote(e)' /\ (Alive(e)' => handle[e] = f)
    BY <1>2 DEF LockPidFile
  <2> QED BY <1>2, <2>2, <2>3 DEF LockPidFile
<1>3. ASSUME NEW d \in Daemons, LockRefused(d) PROVE HoldInv'
  BY <1>3 DEF LockRefused
<1>4. ASSUME NEW d \in Daemons, TruncatePidFile(d) PROVE HoldInv'
  BY <1>4 DEF TruncatePidFile
<1>5. ASSUME NEW d \in Daemons, WritePid(d) PROVE HoldInv'
  BY <1>5 DEF WritePid
<1>6. ASSUME NEW d \in Daemons, SpawnServer(d) PROVE HoldInv'
  BY <1>6 DEF SpawnServer
<1>7. ASSUME NEW d \in Daemons, InstallHandler(d) PROVE HoldInv'
  BY <1>7 DEF InstallHandler
<1>8. ASSUME NEW d \in Daemons, BeginShutdown(d) PROVE HoldInv'
  BY <1>8 DEF BeginShutdown
<1>9. ASSUME NEW d \in Daemons, RemovePidFile(d) PROVE HoldInv'
  BY <1>9 DEF RemovePidFile
<1>10. ASSUME NEW d \in Daemons, Exit(d) PROVE HoldInv'
  BY <1>10 DEF Exit
<1>11. ASSUME NEW d \in Daemons, Crash(d) PROVE HoldInv'
  BY <1>11 DEF Crash
<1>12. ASSUME NEW d \in Daemons, LookForSocket(d) PROVE HoldInv'
  BY <1>12 DEF LookForSocket
<1>13. ASSUME NEW d \in Daemons, RemoveOldSocket(d) PROVE HoldInv'
  BY <1>13 DEF RemoveOldSocket
<1>14. ASSUME NEW d \in Daemons, BindSocket(d) PROVE HoldInv'
  BY <1>14 DEF BindSocket
<1>15. ASSUME NEW d \in Daemons, SetPermissions(d) PROVE HoldInv'
  BY <1>15 DEF SetPermissions
<1>16. ASSUME NEW c \in Commands, RemoveStalePid(c) PROVE HoldInv'
  BY <1>16 DEF RemoveStalePid
<1>17. ASSUME NEW c \in Commands, RemoveStaleSocket(c) PROVE HoldInv'
  BY <1>17 DEF RemoveStaleSocket
<1>18. ASSUME NEW c \in Commands, SignalDaemon(c) PROVE HoldInv'
  BY <1>18 DEF SignalDaemon
<1>19. ASSUME NEW c \in Commands, KillDaemon(c) PROVE HoldInv'
  BY <1>19 DEF KillDaemon
<1>20. ASSUME NEW c \in Commands, StartFailed(c) PROVE HoldInv'
  BY <1>20 DEF StartFailed
<1>21. ASSUME NEW c \in Commands, NEW d \in Daemons, SpawnDaemon(c, d) PROVE HoldInv'
  BY <1>21 DEF SpawnDaemon
<1>22. ASSUME NEW c \in Commands, Looks(c) PROVE HoldInv'
  BY <1>22, LooksOnly
<1>23. CASE UNCHANGED vars
  BY <1>23 DEF vars
<1> HIDE DEF HoldInv
<1> QED
  BY <1>1, <1>2, <1>3, <1>4, <1>5, <1>6, <1>7, <1>8, <1>9, <1>10, <1>11, <1>12,
     <1>13, <1>14, <1>15, <1>16, <1>17, <1>18, <1>19, <1>20, <1>21, <1>22, <1>23
  DEF Next, DaemonStep, CommandStep, Looks

LEMMA NextPath == TypeOK /\ HoldInv /\ PathInv /\ [Next]_vars => PathInv'
<1> SUFFICES ASSUME TypeOK, HoldInv, PathInv, [Next]_vars PROVE PathInv'
  OBVIOUS
<1> USE DaemonAssumption
    DEF TypeOK, MaybeDaemon, HoldInv, PathInv, Opened, Active, Over, Alive, Daemon, Serve, End,
        UnlinkPid, UnlinkSocket, PidRead, fileVars, daemonVars
<1>1. ASSUME NEW d \in Daemons, OpenPidFile(d) PROVE PathInv'
  BY <1>1 DEF OpenPidFile
<1>2. ASSUME NEW d \in Daemons, LockPidFile(d) PROVE PathInv'
  BY <1>2 DEF LockPidFile
<1>3. ASSUME NEW d \in Daemons, LockRefused(d) PROVE PathInv'
  BY <1>3 DEF LockRefused
<1>4. ASSUME NEW d \in Daemons, TruncatePidFile(d) PROVE PathInv'
  BY <1>4 DEF TruncatePidFile
<1>5. ASSUME NEW d \in Daemons, WritePid(d) PROVE PathInv'
  BY <1>5 DEF WritePid
<1>6. ASSUME NEW d \in Daemons, SpawnServer(d) PROVE PathInv'
  BY <1>6 DEF SpawnServer
<1>7. ASSUME NEW d \in Daemons, InstallHandler(d) PROVE PathInv'
  BY <1>7 DEF InstallHandler
<1>8. ASSUME NEW d \in Daemons, BeginShutdown(d) PROVE PathInv'
  BY <1>8 DEF BeginShutdown
<1>9. ASSUME NEW d \in Daemons, RemovePidFile(d) PROVE PathInv'
  BY <1>9 DEF RemovePidFile
<1>10. ASSUME NEW d \in Daemons, Exit(d) PROVE PathInv'
  BY <1>10 DEF Exit
<1>11. ASSUME NEW d \in Daemons, Crash(d) PROVE PathInv'
  BY <1>11 DEF Crash
<1>12. ASSUME NEW d \in Daemons, LookForSocket(d) PROVE PathInv'
  BY <1>12 DEF LookForSocket
<1>13. ASSUME NEW d \in Daemons, RemoveOldSocket(d) PROVE PathInv'
  BY <1>13 DEF RemoveOldSocket
<1>14. ASSUME NEW d \in Daemons, BindSocket(d) PROVE PathInv'
  BY <1>14 DEF BindSocket
<1>15. ASSUME NEW d \in Daemons, SetPermissions(d) PROVE PathInv'
  BY <1>15 DEF SetPermissions
<1>16. ASSUME NEW c \in Commands, RemoveStalePid(c) PROVE PathInv'
  BY <1>16 DEF RemoveStalePid
<1>17. ASSUME NEW c \in Commands, RemoveStaleSocket(c) PROVE PathInv'
  BY <1>17 DEF RemoveStaleSocket
<1>18. ASSUME NEW c \in Commands, SignalDaemon(c) PROVE PathInv'
  BY <1>18 DEF SignalDaemon
<1>19. ASSUME NEW c \in Commands, KillDaemon(c) PROVE PathInv'
  BY <1>19 DEF KillDaemon
<1>20. ASSUME NEW c \in Commands, StartFailed(c) PROVE PathInv'
  BY <1>20 DEF StartFailed
<1>21. ASSUME NEW c \in Commands, NEW d \in Daemons, SpawnDaemon(c, d) PROVE PathInv'
  BY <1>21 DEF SpawnDaemon
<1>22. ASSUME NEW c \in Commands, Looks(c) PROVE PathInv'
  BY <1>22, LooksOnly
<1>23. CASE UNCHANGED vars
  BY <1>23 DEF vars
<1> HIDE DEF PathInv
<1> QED
  BY <1>1, <1>2, <1>3, <1>4, <1>5, <1>6, <1>7, <1>8, <1>9, <1>10, <1>11, <1>12,
     <1>13, <1>14, <1>15, <1>16, <1>17, <1>18, <1>19, <1>20, <1>21, <1>22, <1>23
  DEF Next, DaemonStep, CommandStep, Looks

LEMMA NextSocket == TypeOK /\ SocketInv /\ [Next]_vars => SocketInv'
<1> SUFFICES ASSUME TypeOK, SocketInv, [Next]_vars PROVE SocketInv'
  OBVIOUS
<1> USE DaemonAssumption
    DEF TypeOK, MaybeDaemon, SocketInv, Over, Alive, Daemon, Serve, End, UnlinkPid, UnlinkSocket,
        PidRead, fileVars, daemonVars
<1>1. ASSUME NEW d \in Daemons, OpenPidFile(d) PROVE SocketInv'
  BY <1>1 DEF OpenPidFile
<1>2. ASSUME NEW d \in Daemons, LockPidFile(d) PROVE SocketInv'
  BY <1>2 DEF LockPidFile
<1>3. ASSUME NEW d \in Daemons, LockRefused(d) PROVE SocketInv'
  BY <1>3 DEF LockRefused
<1>4. ASSUME NEW d \in Daemons, TruncatePidFile(d) PROVE SocketInv'
  BY <1>4 DEF TruncatePidFile
<1>5. ASSUME NEW d \in Daemons, WritePid(d) PROVE SocketInv'
  BY <1>5 DEF WritePid
<1>6. ASSUME NEW d \in Daemons, SpawnServer(d) PROVE SocketInv'
  BY <1>6 DEF SpawnServer
<1>7. ASSUME NEW d \in Daemons, InstallHandler(d) PROVE SocketInv'
  BY <1>7 DEF InstallHandler
<1>8. ASSUME NEW d \in Daemons, BeginShutdown(d) PROVE SocketInv'
  BY <1>8 DEF BeginShutdown
<1>9. ASSUME NEW d \in Daemons, RemovePidFile(d) PROVE SocketInv'
  BY <1>9 DEF RemovePidFile
<1>10. ASSUME NEW d \in Daemons, Exit(d) PROVE SocketInv'
  BY <1>10 DEF Exit
<1>11. ASSUME NEW d \in Daemons, Crash(d) PROVE SocketInv'
  BY <1>11 DEF Crash
<1>12. ASSUME NEW d \in Daemons, LookForSocket(d) PROVE SocketInv'
  BY <1>12 DEF LookForSocket
<1>13. ASSUME NEW d \in Daemons, RemoveOldSocket(d) PROVE SocketInv'
  BY <1>13 DEF RemoveOldSocket
<1>14. ASSUME NEW d \in Daemons, BindSocket(d) PROVE SocketInv'
  BY <1>14 DEF BindSocket
<1>15. ASSUME NEW d \in Daemons, SetPermissions(d) PROVE SocketInv'
  BY <1>15 DEF SetPermissions
<1>16. ASSUME NEW c \in Commands, RemoveStalePid(c) PROVE SocketInv'
  BY <1>16 DEF RemoveStalePid
<1>17. ASSUME NEW c \in Commands, RemoveStaleSocket(c) PROVE SocketInv'
  BY <1>17 DEF RemoveStaleSocket
<1>18. ASSUME NEW c \in Commands, SignalDaemon(c) PROVE SocketInv'
  BY <1>18 DEF SignalDaemon
<1>19. ASSUME NEW c \in Commands, KillDaemon(c) PROVE SocketInv'
  BY <1>19 DEF KillDaemon
<1>20. ASSUME NEW c \in Commands, StartFailed(c) PROVE SocketInv'
  BY <1>20 DEF StartFailed
<1>21. ASSUME NEW c \in Commands, NEW d \in Daemons, SpawnDaemon(c, d) PROVE SocketInv'
  BY <1>21 DEF SpawnDaemon
<1>22. ASSUME NEW c \in Commands, Looks(c) PROVE SocketInv'
  BY <1>22, LooksOnly
<1>23. CASE UNCHANGED vars
  BY <1>23 DEF vars
<1> HIDE DEF SocketInv
<1> QED
  BY <1>1, <1>2, <1>3, <1>4, <1>5, <1>6, <1>7, <1>8, <1>9, <1>10, <1>11, <1>12,
     <1>13, <1>14, <1>15, <1>16, <1>17, <1>18, <1>19, <1>20, <1>21, <1>22, <1>23
  DEF Next, DaemonStep, CommandStep, Looks

(* A daemon that has written its PID, and is not over, is found by a reader
   of the PID file. *)
LEMMA PidIsFound ==
  ASSUME TypeOK, HoldInv, PathInv, pulled = {}, NEW d \in Daemons, Wrote(d), ~Over(d)
  PROVE  pidFile = handle[d] /\ PidRead = d
<1>1. Active(d) /\ handle[d] # None
  BY DEF Wrote, Over, Active, Opened, HoldInv
<1>2. pidFile = handle[d] /\ content[handle[d]] = d
  BY <1>1 DEF HoldInv, PathInv, Locked, Opened
<1> QED BY <1>1, <1>2 DEF PidRead

LEMMA NextStop == TypeOK /\ HoldInv /\ PathInv /\ StopInv /\ [Next]_vars => StopInv'
<1> SUFFICES ASSUME TypeOK, HoldInv, PathInv, StopInv, [Next]_vars PROVE StopInv'
  OBVIOUS
<1> USE DaemonAssumption
    DEF TypeOK, MaybeDaemon, StopInv, Wrote, Over, Alive, Daemon, Serve, Command, End, UnlinkPid,
        UnlinkSocket, fileVars, daemonVars, localVars
<1>1. ASSUME NEW d \in Daemons, OpenPidFile(d) PROVE StopInv'
  BY <1>1 DEF OpenPidFile
<1>2. ASSUME NEW d \in Daemons, LockPidFile(d) PROVE StopInv'
  BY <1>2 DEF LockPidFile
<1>3. ASSUME NEW d \in Daemons, LockRefused(d) PROVE StopInv'
  BY <1>3 DEF LockRefused
<1>4. ASSUME NEW d \in Daemons, TruncatePidFile(d) PROVE StopInv'
  BY <1>4 DEF TruncatePidFile
<1>5. ASSUME NEW d \in Daemons, WritePid(d) PROVE StopInv'
  BY <1>5 DEF WritePid
<1>6. ASSUME NEW d \in Daemons, SpawnServer(d) PROVE StopInv'
  BY <1>6 DEF SpawnServer
<1>7. ASSUME NEW d \in Daemons, InstallHandler(d) PROVE StopInv'
  BY <1>7 DEF InstallHandler
<1>8. ASSUME NEW d \in Daemons, BeginShutdown(d) PROVE StopInv'
  BY <1>8 DEF BeginShutdown
<1>9. ASSUME NEW d \in Daemons, RemovePidFile(d) PROVE StopInv'
  BY <1>9 DEF RemovePidFile
<1>10. ASSUME NEW d \in Daemons, Exit(d) PROVE StopInv'
  BY <1>10 DEF Exit
<1>11. ASSUME NEW d \in Daemons, Crash(d) PROVE StopInv'
  BY <1>11 DEF Crash
<1>12. ASSUME NEW d \in Daemons, LookForSocket(d) PROVE StopInv'
  BY <1>12 DEF LookForSocket
<1>13. ASSUME NEW d \in Daemons, RemoveOldSocket(d) PROVE StopInv'
  BY <1>13 DEF RemoveOldSocket
<1>14. ASSUME NEW d \in Daemons, BindSocket(d) PROVE StopInv'
  BY <1>14 DEF BindSocket
<1>15. ASSUME NEW d \in Daemons, SetPermissions(d) PROVE StopInv'
  BY <1>15 DEF SetPermissions
<1>16. ASSUME NEW c \in Commands, RemoveStalePid(c) PROVE StopInv'
  BY <1>16 DEF RemoveStalePid
<1>17. ASSUME NEW c \in Commands, RemoveStaleSocket(c) PROVE StopInv'
  BY <1>17 DEF RemoveStaleSocket
<1>18. ASSUME NEW c \in Commands, SignalDaemon(c) PROVE StopInv'
  <2>1. CASE PidRead = None \/ (PidRead # None /\ ~Alive(PidRead))
    BY <1>18, <2>1 DEF SignalDaemon
  <2>2. ASSUME NEW t \in Daemons, PidRead = t, Alive(t) PROVE StopInv'
    <3>1. /\ cpc[c] = "signal" /\ cpc' = [cpc EXCEPT ![c] = "probe"]
          /\ target' = [target EXCEPT ![c] = t]
          /\ UNCHANGED <<kind, pid, pulled>>
      BY <1>18, <2>2 DEF SignalDaemon
    <3>2. UNCHANGED dpc \/ End(t)
      BY <1>18, <2>2 DEF SignalDaemon
    <3>3. Wrote(t)
      BY <2>2 DEF PidRead, HoldInv
    <3>4. \A d \in Daemons : (Wrote(d) => Wrote(d)') /\ (Over(d) => Over(d)')
      BY <3>2
    <3> QED BY <3>1, <3>3, <3>4
  <2>3. PidRead \in MaybeDaemon
    BY DEF PidRead
  <2> QED BY <2>1, <2>2, <2>3
<1>19. ASSUME NEW c \in Commands, KillDaemon(c) PROVE StopInv'
  BY <1>19 DEF KillDaemon
<1>20. ASSUME NEW c \in Commands, StartFailed(c) PROVE StopInv'
  BY <1>20 DEF StartFailed, Client
<1>21. ASSUME NEW c \in Commands, NEW d \in Daemons, SpawnDaemon(c, d) PROVE StopInv'
  BY <1>21 DEF SpawnDaemon
<1>22. ASSUME NEW c \in Commands, Probe(c) PROVE StopInv'
  BY <1>22 DEF Probe, WhenRunning
<1>23. ASSUME NEW c \in Commands, ReadPid(c) PROVE StopInv'
  <2>1. \A d \in Daemons : pulled = {} /\ Wrote(d) => Over(d) \/ PidRead = d
    BY PidIsFound
  <2>2. PidRead \in MaybeDaemon
    BY DEF PidRead
  <2> QED BY <1>23, <2>1, <2>2 DEF ReadPid, WhenNotRunning
<1>24. ASSUME NEW c \in Commands, JudgePid(c) PROVE StopInv'
  BY <1>24 DEF JudgePid, WhenRunning, WhenNotRunning
<1>25. ASSUME NEW c \in Commands, DaemonStarted(c) PROVE StopInv'
  BY <1>25 DEF DaemonStarted, Client
<1>26. ASSUME NEW c \in Commands, Glance(c) PROVE StopInv'
  BY <1>26 DEF Glance
<1>27. ASSUME NEW c \in Commands, JudgeGlance(c) PROVE StopInv'
  BY <1>27 DEF JudgeGlance
<1>28. ASSUME NEW c \in Commands, Dial(c) PROVE StopInv'
  BY <1>28 DEF Dial
<1>29. ASSUME NEW c \in Commands, DialAgain(c) PROVE StopInv'
  BY <1>29 DEF DialAgain, Client
<1>30. ASSUME NEW c \in Commands, NEW k \in Kinds, Begin(c, k) PROVE StopInv'
  BY <1>30 DEF Begin
<1>31. ASSUME NEW c \in Commands, NEW same \in BOOLEAN, CheckVersion(c, same) PROVE StopInv'
  BY <1>31 DEF CheckVersion
<1>32. CASE UNCHANGED vars
  BY <1>32 DEF vars
<1> HIDE DEF StopInv
<1> QED
  BY <1>1, <1>2, <1>3, <1>4, <1>5, <1>6, <1>7, <1>8, <1>9, <1>10, <1>11, <1>12,
     <1>13, <1>14, <1>15, <1>16, <1>17, <1>18, <1>19, <1>20, <1>21, <1>22, <1>23,
     <1>24, <1>25, <1>26, <1>27, <1>28, <1>29, <1>30, <1>31, <1>32
  DEF Next, DaemonStep, CommandStep

(* All of them are an invariant. *)
THEOREM LifecycleInv == Spec => []Inv
<1>1. Inv /\ [Next]_vars => Inv'
  BY NextTypes, NextHold, NextPath, NextSocket, NextStop DEF Inv
<1> QED BY <1>1, InitInv, PTL DEF Spec

-----------------------------------------------------------------------------
(* Types are kept, and only a daemon past its lock serves (TypeOK). *)
THEOREM LifecycleTypes == Spec => []TypeOK
<1>1. Inv => TypeOK
  BY DEF Inv
<1> QED BY <1>1, LifecycleInv, PTL

(* A live process whose PID a reader finds in a PID file is the daemon that
   holds the file's lock (PidIsLockHolder). *)
THEOREM PidsAreLockHolders == Spec => []PidIsLockHolder
<1>1. Inv => PidIsLockHolder
  <2> SUFFICES ASSUME Inv, NEW f \in Daemons, content[f] # None, Alive(content[f])
               PROVE lock[f] = content[f]
    BY DEF PidIsLockHolder
  <2> DEFINE d == content[f]
  <2>1. d \in Daemons
    BY DEF Inv, TypeOK, MaybeDaemon
  <2>2. Wrote(d) /\ handle[d] = f
    BY <2>1 DEF Inv, HoldInv
  <2>3. Locked(d)
    BY <2>2 DEF Wrote, Alive, Locked, Active
  <2> QED BY <2>1, <2>2, <2>3 DEF Inv, HoldInv
<1> QED BY <1>1, LifecycleInv, PTL

(* While nobody has unlinked a file from under a daemon, there is one daemon
   past the lock (LockKeepsOne). *)
THEOREM TheLockKeepsOne == Spec => []LockKeepsOne
<1>1. Inv => LockKeepsOne
  <2> SUFFICES ASSUME Inv, pulled = {}, NEW d \in Daemons, NEW e \in Daemons, Active(d), Active(e)
               PROVE d = e
    BY DEF LockKeepsOne
  <2>1. handle[d] = pidFile /\ handle[e] = pidFile
    BY DEF Inv, PathInv, Opened
  <2>2. lock[handle[d]] = d /\ lock[handle[e]] = e
    BY DEF Inv, HoldInv, Locked
  <2> QED BY <2>1, <2>2
<1> QED BY <1>1, LifecycleInv, PTL

(* As long, a serving daemon is found by its PID file and by its socket
   (Reachable). *)
THEOREM ServersAreReachable == Spec => []Reachable
<1>1. Inv => Reachable
  <2> SUFFICES ASSUME Inv, pulled = {}, NEW d \in Daemons, dpc[d] \in {"serve", "stopping"},
                      server[d] = "up"
               PROVE PidRead = d /\ socket = d
    BY DEF Reachable
  <2>1. Wrote(d) /\ ~Over(d)
    BY DEF Wrote, Over
  <2> QED BY <2>1, PidIsFound DEF Inv, SocketInv
<1> QED BY <1>1, LifecycleInv, PTL

(* As long, a command that takes a daemon for stopped has seen its end
   (StopIsFinal). *)
THEOREM StopsAreFinal == Spec => []StopIsFinal
<1>1. Inv => StopIsFinal
  BY DEF Inv, StopInv, StopIsFinal
<1> QED BY <1>1, LifecycleInv, PTL

-----------------------------------------------------------------------------
(* DaemonShutdown: which children may outlive the daemon, and what an exit *)
(* without a timeout guarantees.                                           *)
(*                                                                         *)
(* The invariants build on one another: who has a name (TypeInv), that a   *)
(* live child is listed (TrackInv), what the shutdown knows of an instance *)
(* (PlanInv), and where its handles are (DrainInv).                        *)


Registered == {"listed", "captured", "done"}

Claims(i) == start[i] = "launched" \/ i \in listed

(* A name is claimed once, by a start or an entry. *)
StartInv ==
  /\ \A i, j \in Ids : Claims(i) /\ Claims(j) /\ nameOf[i] = nameOf[j] => i = j
  /\ \A i \in Ids : leader[i] = "unborn" <=> start[i] = "none"
  /\ \A i \in listed : start[i] \in Registered

TypeInv == ShutdownTypeOK /\ StartInv

(* Nothing says of a live child that it has ended, and it is listed. *)
TrackInv ==
  \A i \in Ids :
    /\ status[i] = "Ended" => leader[i] = "dead"
    /\ i \in noted => leader[i] = "dead"
    /\ start[i] \in Registered /\ leader[i] = "alive" => i \in listed

(* What the plan says of an instance, and of the one its stop found. *)
PlanInv ==
  /\ (phase = "serving" \/ \E j \in Ids : plan[j] = "listed") => \A i \in Ids : found[i] = NoId
  /\ phase = "serving" => \A i \in Ids : plan[i] = "out"
  /\ phase \in {"draining", "exited"} => \A i \in Ids : Settled(i)
  /\ \A i \in Ids :
       /\ plan[i] # "out" => start[i] \in Registered
       /\ plan[i] = "stop" => found[i] = NoId
       /\ status[i] = "Stopping" => i \in asked \/ \E j \in Ids : found[j] = i
       /\ plan[i] = "skip" /\ leader[i] = "alive" => i \in asked
       /\ plan[i] = "busy" => found[i] \in Ids
       /\ plan[i] = "busy" /\ leader[i] = "alive" => found[i] = i
       /\ plan[i] = "ok" => leader[i] = "dead"
       /\ plan[i] = "failed" /\ leader[i] = "alive" => found[i] = i

Both == {"pipe", "monitor"}

(* A fully started instance of the snapshot has its handles where they were
   until they are collected, all of them. *)
DrainInv ==
  \A i \in whole :
    /\ plan[i] # "out"
    /\ phase \in {"serving", "stopping"} => handles[i] = Both
    /\ phase \in {"draining", "exited"} => \A h \in Both : <<i, h>> \in collected

ShutdownIInv == TypeInv /\ TrackInv /\ PlanInv /\ DrainInv /\ CleanExit

-----------------------------------------------------------------------------
LEMMA ShutdownInitInv == ShutdownInit => ShutdownIInv
<1> SUFFICES ASSUME ShutdownInit PROVE ShutdownIInv
  OBVIOUS
<1>1. ShutdownTypeOK
  BY ShutdownAssumption DEF ShutdownInit, ShutdownTypeOK, Status
<1>2. StartInv
  BY DEF ShutdownInit, StartInv, Claims, Registered
<1>3. TrackInv
  BY DEF ShutdownInit, TrackInv, Registered
<1>4. PlanInv
  BY DEF ShutdownInit, PlanInv, Registered, Settled
<1>5. DrainInv /\ CleanExit
  BY DEF ShutdownInit, DrainInv, CleanExit
<1> QED BY <1>1, <1>2, <1>3, <1>4, <1>5 DEF ShutdownIInv, TypeInv

LEMMA NextShutdownTypes == TypeInv /\ [ShutdownNext]_shutdownVars => ShutdownTypeOK'
<1> SUFFICES ASSUME TypeInv, [ShutdownNext]_shutdownVars PROVE ShutdownTypeOK'
  OBVIOUS
<1> USE ShutdownAssumption
    DEF TypeInv, ShutdownTypeOK, StartInv, Claims, Registered, Status, SetStatus, taskVars, downVars
<1>1. ASSUME NEW i \in Ids, Die(i) PROVE ShutdownTypeOK'
  BY <1>1 DEF Die
<1>2. ASSUME NEW i \in Ids, Evict(i) PROVE ShutdownTypeOK'
  BY <1>2 DEF Evict
<1>3. ASSUME NEW i \in Ids, Launch(i) PROVE ShutdownTypeOK'
  BY <1>3 DEF Launch
<1>4. ASSUME NEW i \in Ids, Register(i) PROVE ShutdownTypeOK'
  BY <1>4 DEF Register
<1>5. ASSUME NEW i \in Ids, Capture(i) PROVE ShutdownTypeOK'
  BY <1>5 DEF Capture
<1>6. ASSUME NEW i \in Ids, Monitor(i) PROVE ShutdownTypeOK'
  BY <1>6 DEF Monitor
<1>7. ASSUME NEW i \in Ids, NoteExit(i) PROVE ShutdownTypeOK'
  BY <1>7 DEF NoteExit
<1>8. ASSUME NEW i \in Ids, PipeEnds(i) PROVE ShutdownTypeOK'
  BY <1>8 DEF PipeEnds
<1>9. ASSUME NEW i \in Ids, SyncStatus(i) PROVE ShutdownTypeOK'
  BY <1>9 DEF SyncStatus
<1>10. ASSUME NEW i \in Ids, ClientStop(i) PROVE ShutdownTypeOK'
  BY <1>10 DEF ClientStop
<1>11. ASSUME NEW i \in Ids, ClientStopped(i) PROVE ShutdownTypeOK'
  BY <1>11 DEF ClientStopped
<1>12. ASSUME NEW i \in Ids, Filter(i) PROVE ShutdownTypeOK'
  BY <1>12 DEF Filter
<1>13. ASSUME NEW i \in Ids, BeginStop(i) PROVE ShutdownTypeOK'
  BY <1>13 DEF BeginStop
<1>14. ASSUME NEW i \in Ids, StopSucceeds(i) PROVE ShutdownTypeOK'
  <2>1. [status EXCEPT ![found[i]] = "Ended"] \in [Ids -> Status]
    BY DEF Status
  <2>2. [plan EXCEPT ![i] = "ok"]
          \in [Ids -> {"out", "listed", "skip", "stop", "busy", "ok", "failed"}]
    OBVIOUS
  <2> QED BY <1>14, <2>1, <2>2 DEF StopSucceeds
<1>15. ASSUME NEW i \in Ids, StopFails(i) PROVE ShutdownTypeOK'
  BY <1>15 DEF StopFails
<1>16. CASE TakeSnapshot
  BY <1>16 DEF TakeSnapshot
<1>17. CASE Collect
  BY <1>17 DEF Collect
<1>18. CASE Drained
  BY <1>18 DEF Drained
<1>19. CASE DrainTimeout
  BY <1>19 DEF DrainTimeout
<1>20. CASE UNCHANGED shutdownVars
  BY <1>20 DEF shutdownVars
<1> HIDE DEF ShutdownTypeOK
<1> QED
  BY <1>1, <1>2, <1>3, <1>4, <1>5, <1>6, <1>7, <1>8, <1>9, <1>10, <1>11, <1>12,
     <1>13, <1>14, <1>15, <1>16, <1>17, <1>18, <1>19, <1>20
  DEF ShutdownNext, Shutdown, Manager

LEMMA NextStart == TypeInv /\ [ShutdownNext]_shutdownVars => StartInv'
<1> SUFFICES ASSUME TypeInv, [ShutdownNext]_shutdownVars PROVE StartInv'
  OBVIOUS
<1> USE DEF TypeInv, ShutdownTypeOK, StartInv, Claims, Registered, Status, SetStatus, taskVars,
            downVars
<1>1. ASSUME NEW i \in Ids, Die(i) PROVE StartInv'
  BY <1>1 DEF Die
<1>2. ASSUME NEW i \in Ids, Evict(i) PROVE StartInv'
  BY <1>2 DEF Evict
<1>3. ASSUME NEW i \in Ids, Launch(i) PROVE StartInv'
  BY <1>3 DEF Launch
<1>4. ASSUME NEW i \in Ids, Register(i) PROVE StartInv'
  BY <1>4 DEF Register
<1>5. ASSUME NEW i \in Ids, Capture(i) PROVE StartInv'
  BY <1>5 DEF Capture
<1>6. ASSUME NEW i \in Ids, Monitor(i) PROVE StartInv'
  BY <1>6 DEF Monitor
<1>7. ASSUME NEW i \in Ids, NoteExit(i) PROVE StartInv'
  BY <1>7 DEF NoteExit
<1>8. ASSUME NEW i \in Ids, PipeEnds(i) PROVE StartInv'
  BY <1>8 DEF PipeEnds
<1>9. ASSUME NEW i \in Ids, SyncStatus(i) PROVE StartInv'
  BY <1>9 DEF SyncStatus
<1>10. ASSUME NEW i \in Ids, ClientStop(i) PROVE StartInv'
  BY <1>10 DEF ClientStop
<1>11. ASSUME NEW i \in Ids, ClientStopped(i) PROVE StartInv'
  BY <1>11 DEF ClientStopped
<1>12. ASSUME NEW i \in Ids, Filter(i) PROVE StartInv'
  BY <1>12 DEF Filter
<1>13. ASSUME NEW i \in Ids, BeginStop(i) PROVE StartInv'
  BY <1>13 DEF BeginStop
<1>14. ASSUME NEW i \in Ids, StopSucceeds(i) PROVE StartInv'
  BY <1>14 DEF StopSucceeds
<1>15. ASSUME NEW i \in Ids, StopFails(i) PROVE StartInv'
  BY <1>15 DEF StopFails
<1>16. CASE TakeSnapshot
  BY <1>16 DEF TakeSnapshot
<1>17. CASE Collect
  BY <1>17 DEF Collect
<1>18. CASE Drained
  BY <1>18 DEF Drained
<1>19. CASE DrainTimeout
  BY <1>19 DEF DrainTimeout
<1>20. CASE UNCHANGED shutdownVars
  BY <1>20 DEF shutdownVars
<1> HIDE DEF StartInv
<1> QED
  BY <1>1, <1>2, <1>3, <1>4, <1>5, <1>6, <1>7, <1>8, <1>9, <1>10, <1>11, <1>12,
     <1>13, <1>14, <1>15, <1>16, <1>17, <1>18, <1>19, <1>20
  DEF ShutdownNext, Shutdown, Manager

LEMMA NextTrack == TypeInv /\ TrackInv /\ [ShutdownNext]_shutdownVars => TrackInv'
<1> SUFFICES ASSUME TypeInv, TrackInv, [ShutdownNext]_shutdownVars PROVE TrackInv'
  OBVIOUS
<1> USE DEF TypeInv, ShutdownTypeOK, StartInv, TrackInv, Claims, Registered, Status, SetStatus,
            taskVars, downVars
<1>1. ASSUME NEW i \in Ids, Die(i) PROVE TrackInv'
  BY <1>1 DEF Die
<1>2. ASSUME NEW i \in Ids, Evict(i) PROVE TrackInv'
  BY <1>2 DEF Evict
<1>3. ASSUME NEW i \in Ids, Launch(i) PROVE TrackInv'
  BY <1>3 DEF Launch
<1>4. ASSUME NEW i \in Ids, Register(i) PROVE TrackInv'
  BY <1>4 DEF Register
<1>5. ASSUME NEW i \in Ids, Capture(i) PROVE TrackInv'
  BY <1>5 DEF Capture
<1>6. ASSUME NEW i \in Ids, Monitor(i) PROVE TrackInv'
  BY <1>6 DEF Monitor
<1>7. ASSUME NEW i \in Ids, NoteExit(i) PROVE TrackInv'
  BY <1>7 DEF NoteExit
<1>8. ASSUME NEW i \in Ids, PipeEnds(i) PROVE TrackInv'
  BY <1>8 DEF PipeEnds
<1>9. ASSUME NEW i \in Ids, SyncStatus(i) PROVE TrackInv'
  BY <1>9 DEF SyncStatus
<1>10. ASSUME NEW i \in Ids, ClientStop(i) PROVE TrackInv'
  BY <1>10 DEF ClientStop
<1>11. ASSUME NEW i \in Ids, ClientStopped(i) PROVE TrackInv'
  BY <1>11 DEF ClientStopped
<1>12. ASSUME NEW i \in Ids, Filter(i) PROVE TrackInv'
  BY <1>12 DEF Filter
<1>13. ASSUME NEW i \in Ids, BeginStop(i) PROVE TrackInv'
  BY <1>13 DEF BeginStop
<1>14. ASSUME NEW i \in Ids, StopSucceeds(i) PROVE TrackInv'
  BY <1>14 DEF StopSucceeds
<1>15. ASSUME NEW i \in Ids, StopFails(i) PROVE TrackInv'
  BY <1>15 DEF StopFails
<1>16. CASE TakeSnapshot
  BY <1>16 DEF TakeSnapshot
<1>17. CASE Collect
  BY <1>17 DEF Collect
<1>18. CASE Drained
  BY <1>18 DEF Drained
<1>19. CASE DrainTimeout
  BY <1>19 DEF DrainTimeout
<1>20. CASE UNCHANGED shutdownVars
  BY <1>20 DEF shutdownVars
<1> HIDE DEF TrackInv
<1> QED
  BY <1>1, <1>2, <1>3, <1>4, <1>5, <1>6, <1>7, <1>8, <1>9, <1>10, <1>11, <1>12,
     <1>13, <1>14, <1>15, <1>16, <1>17, <1>18, <1>19, <1>20
  DEF ShutdownNext, Shutdown, Manager

LEMMA NextPlan == TypeInv /\ TrackInv /\ PlanInv /\ [ShutdownNext]_shutdownVars => PlanInv'
<1> SUFFICES ASSUME TypeInv, TrackInv, PlanInv, [ShutdownNext]_shutdownVars PROVE PlanInv'
  OBVIOUS
<1> USE ShutdownAssumption
    DEF TypeInv, ShutdownTypeOK, StartInv, TrackInv, PlanInv, Claims, Registered, Status, Settled,
        SetStatus, Up, taskVars, downVars
<1>1. ASSUME NEW i \in Ids, Die(i) PROVE PlanInv'
  BY <1>1 DEF Die
<1>2. ASSUME NEW i \in Ids, Evict(i) PROVE PlanInv'
  BY <1>2 DEF Evict
<1>3. ASSUME NEW i \in Ids, Launch(i) PROVE PlanInv'
  BY <1>3 DEF Launch
<1>4. ASSUME NEW i \in Ids, Register(i) PROVE PlanInv'
  BY <1>4 DEF Register
<1>5. ASSUME NEW i \in Ids, Capture(i) PROVE PlanInv'
  BY <1>5 DEF Capture
<1>6. ASSUME NEW i \in Ids, Monitor(i) PROVE PlanInv'
  BY <1>6 DEF Monitor
<1>7. ASSUME NEW i \in Ids, NoteExit(i) PROVE PlanInv'
  BY <1>7 DEF NoteExit
<1>8. ASSUME NEW i \in Ids, PipeEnds(i) PROVE PlanInv'
  BY <1>8 DEF PipeEnds
<1>9. ASSUME NEW i \in Ids, SyncStatus(i) PROVE PlanInv'
  BY <1>9 DEF SyncStatus
<1>10. ASSUME NEW i \in Ids, ClientStop(i) PROVE PlanInv'
  BY <1>10 DEF ClientStop
<1>11. ASSUME NEW i \in Ids, ClientStopped(i) PROVE PlanInv'
  BY <1>11 DEF ClientStopped
<1>12. ASSUME NEW i \in Ids, Filter(i) PROVE PlanInv'
  BY <1>12 DEF Filter
<1>13. ASSUME NEW i \in Ids, BeginStop(i) PROVE PlanInv'
  <2>1. start[i] \in Registered /\ i \in Ids /\ \A j \in Ids : plan[j] # "listed"
    BY <1>13 DEF BeginStop
  <2>2. CASE \A j \in listed : nameOf[j] # nameOf[i]
    <3>1. leader[i] = "dead"
      BY <2>1, <2>2
    <3>2. plan' = [plan EXCEPT ![i] = "failed"] /\ UNCHANGED <<found, status>>
      BY <1>13, <2>2 DEF BeginStop
    <3> QED BY <1>13, <2>1, <3>1, <3>2 DEF BeginStop
  <2>3. ASSUME NEW j \in listed, nameOf[j] = nameOf[i],
               found' = [found EXCEPT ![i] = j], plan' = [plan EXCEPT ![i] = "busy"],
               SetStatus(j, "Stopping")
        PROVE PlanInv'
    <3>1. leader[i] = "alive" => j = i
      BY <2>1, <2>3
    <3>2. found'[i] = j /\ found[i] = NoId
      BY <1>13, <2>3 DEF BeginStop
    <3>3. \A k \in Ids : status'[k] = "Stopping" => k \in asked \/ \E l \in Ids : found'[l] = k
      BY <1>13, ShutdownAssumption, <2>3, <3>2 DEF BeginStop
    <3> QED BY <1>13, <2>1, <2>3, <3>1, <3>2, <3>3 DEF BeginStop
  <2> QED BY <1>13, <2>2, <2>3 DEF BeginStop
<1>14. ASSUME NEW i \in Ids, StopSucceeds(i) PROVE PlanInv'
  BY <1>14 DEF StopSucceeds
<1>15. ASSUME NEW i \in Ids, StopFails(i) PROVE PlanInv'
  BY <1>15 DEF StopFails
<1>16. CASE TakeSnapshot
  BY <1>16 DEF TakeSnapshot
<1>17. CASE Collect
  BY <1>17 DEF Collect
<1>18. CASE Drained
  BY <1>18 DEF Drained
<1>19. CASE DrainTimeout
  BY <1>19 DEF DrainTimeout
<1>20. CASE UNCHANGED shutdownVars
  BY <1>20 DEF shutdownVars
<1> HIDE DEF PlanInv
<1> QED
  BY <1>1, <1>2, <1>3, <1>4, <1>5, <1>6, <1>7, <1>8, <1>9, <1>10, <1>11, <1>12,
     <1>13, <1>14, <1>15, <1>16, <1>17, <1>18, <1>19, <1>20
  DEF ShutdownNext, Shutdown, Manager

LEMMA NextDrain ==
  TypeInv /\ PlanInv /\ DrainInv /\ [ShutdownNext]_shutdownVars => DrainInv'
<1> SUFFICES ASSUME TypeInv, PlanInv, DrainInv, [ShutdownNext]_shutdownVars PROVE DrainInv'
  OBVIOUS
<1> USE DEF TypeInv, ShutdownTypeOK, PlanInv, DrainInv, Both, SetStatus, Up, taskVars, downVars
<1>1. ASSUME NEW i \in Ids, Die(i) PROVE DrainInv'
  BY <1>1 DEF Die
<1>2. ASSUME NEW i \in Ids, Evict(i) PROVE DrainInv'
  BY <1>2 DEF Evict
<1>3. ASSUME NEW i \in Ids, Launch(i) PROVE DrainInv'
  BY <1>3 DEF Launch
<1>4. ASSUME NEW i \in Ids, Register(i) PROVE DrainInv'
  BY <1>4 DEF Register
<1>5. ASSUME NEW i \in Ids, Capture(i) PROVE DrainInv'
  <2>1. ASSUME NEW k \in whole, phase \in {"serving", "stopping"} PROVE handles'[k] = Both
    <3>1. k \in Ids /\ handles[k] = Both
      BY <2>1
    <3>2. Both \cup {"pipe"} = Both
      BY Zenon DEF Both
    <3> QED BY <1>5, <3>1, <3>2 DEF Capture
  <2> QED BY <1>5, <2>1 DEF Capture
<1>6. ASSUME NEW i \in Ids, Monitor(i) PROVE DrainInv'
  <2>1. ASSUME NEW k \in whole, phase \in {"serving", "stopping"} PROVE handles'[k] = Both
    <3>1. k \in Ids /\ handles[k] = Both
      BY <2>1
    <3>2. Both \cup {"monitor"} = Both
      BY Zenon DEF Both
    <3> QED BY <1>6, <3>1, <3>2 DEF Monitor
  <2> QED BY <1>6, <2>1 DEF Monitor
<1>7. ASSUME NEW i \in Ids, NoteExit(i) PROVE DrainInv'
  BY <1>7 DEF NoteExit
<1>8. ASSUME NEW i \in Ids, PipeEnds(i) PROVE DrainInv'
  BY <1>8 DEF PipeEnds
<1>9. ASSUME NEW i \in Ids, SyncStatus(i) PROVE DrainInv'
  BY <1>9 DEF SyncStatus
<1>10. ASSUME NEW i \in Ids, ClientStop(i) PROVE DrainInv'
  BY <1>10 DEF ClientStop
<1>11. ASSUME NEW i \in Ids, ClientStopped(i) PROVE DrainInv'
  BY <1>11 DEF ClientStopped
<1>12. ASSUME NEW i \in Ids, Filter(i) PROVE DrainInv'
  BY <1>12 DEF Filter
<1>13. ASSUME NEW i \in Ids, BeginStop(i) PROVE DrainInv'
  BY <1>13 DEF BeginStop
<1>14. ASSUME NEW i \in Ids, StopSucceeds(i) PROVE DrainInv'
  BY <1>14 DEF StopSucceeds
<1>15. ASSUME NEW i \in Ids, StopFails(i) PROVE DrainInv'
  BY <1>15 DEF StopFails
<1>16. CASE TakeSnapshot
  BY <1>16 DEF TakeSnapshot
<1>17. CASE Collect
  BY <1>17 DEF Collect
<1>18. CASE Drained
  BY <1>18 DEF Drained
<1>19. CASE DrainTimeout
  BY <1>19 DEF DrainTimeout
<1>20. CASE UNCHANGED shutdownVars
  BY <1>20 DEF shutdownVars
<1> HIDE DEF DrainInv
<1> QED
  BY <1>1, <1>2, <1>3, <1>4, <1>5, <1>6, <1>7, <1>8, <1>9, <1>10, <1>11, <1>12,
     <1>13, <1>14, <1>15, <1>16, <1>17, <1>18, <1>19, <1>20
  DEF ShutdownNext, Shutdown, Manager

LEMMA NextCleanExit ==
  TypeInv /\ TrackInv /\ DrainInv /\ CleanExit /\ [ShutdownNext]_shutdownVars => CleanExit'
<1> SUFFICES ASSUME TypeInv, TrackInv, DrainInv, CleanExit, [ShutdownNext]_shutdownVars
             PROVE  CleanExit'
  OBVIOUS
<1> USE DEF TypeInv, ShutdownTypeOK, TrackInv, DrainInv, Both, CleanExit, Joined, SetStatus, Up,
            taskVars, downVars
<1>1. ASSUME NEW i \in Ids, Die(i) PROVE CleanExit'
  BY <1>1 DEF Die
<1>2. ASSUME NEW i \in Ids, Evict(i) PROVE CleanExit'
  BY <1>2 DEF Evict
<1>3. ASSUME NEW i \in Ids, Launch(i) PROVE CleanExit'
  BY <1>3 DEF Launch
<1>4. ASSUME NEW i \in Ids, Register(i) PROVE CleanExit'
  BY <1>4 DEF Register
<1>5. ASSUME NEW i \in Ids, Capture(i) PROVE CleanExit'
  BY <1>5 DEF Capture
<1>6. ASSUME NEW i \in Ids, Monitor(i) PROVE CleanExit'
  BY <1>6 DEF Monitor
<1>7. ASSUME NEW i \in Ids, NoteExit(i) PROVE CleanExit'
  BY <1>7 DEF NoteExit
<1>8. ASSUME NEW i \in Ids, PipeEnds(i) PROVE CleanExit'
  BY <1>8 DEF PipeEnds
<1>9. ASSUME NEW i \in Ids, SyncStatus(i) PROVE CleanExit'
  BY <1>9 DEF SyncStatus
<1>10. ASSUME NEW i \in Ids, ClientStop(i) PROVE CleanExit'
  BY <1>10 DEF ClientStop
<1>11. ASSUME NEW i \in Ids, ClientStopped(i) PROVE CleanExit'
  BY <1>11 DEF ClientStopped
<1>12. ASSUME NEW i \in Ids, Filter(i) PROVE CleanExit'
  BY <1>12 DEF Filter
<1>13. ASSUME NEW i \in Ids, BeginStop(i) PROVE CleanExit'
  BY <1>13 DEF BeginStop
<1>14. ASSUME NEW i \in Ids, StopSucceeds(i) PROVE CleanExit'
  BY <1>14 DEF StopSucceeds
<1>15. ASSUME NEW i \in Ids, StopFails(i) PROVE CleanExit'
  BY <1>15 DEF StopFails
<1>16. CASE TakeSnapshot
  BY <1>16 DEF TakeSnapshot
<1>17. CASE Collect
  BY <1>17 DEF Collect
<1>18. CASE Drained
  <2>1. ASSUME NEW i \in whole, NEW h \in Both PROVE Joined(i, h)
    <3>1. <<i, h>> \in collected
      BY <1>18 DEF Drained
    <3>2. Joined(<<i, h>>[1], <<i, h>>[2])
      BY <1>18, <3>1 DEF Drained
    <3> QED BY <3>2
  <2>2. \A i \in whole : pipe[i] = "done" /\ i \in noted
    BY <2>1
  <2> QED BY <1>18, <2>2 DEF Drained
<1>19. CASE DrainTimeout
  BY <1>19 DEF DrainTimeout
<1>20. CASE UNCHANGED shutdownVars
  BY <1>20 DEF shutdownVars
<1> HIDE DEF CleanExit
<1> QED
  BY <1>1, <1>2, <1>3, <1>4, <1>5, <1>6, <1>7, <1>8, <1>9, <1>10, <1>11, <1>12,
     <1>13, <1>14, <1>15, <1>16, <1>17, <1>18, <1>19, <1>20
  DEF ShutdownNext, Shutdown, Manager

(* All of them are an invariant. *)
THEOREM ShutdownInv == ShutdownSpec => []ShutdownIInv
<1>1. ShutdownIInv /\ [ShutdownNext]_shutdownVars => ShutdownIInv'
  BY NextShutdownTypes, NextStart, NextTrack, NextPlan, NextDrain, NextCleanExit DEF ShutdownIInv, TypeInv
<1> QED BY <1>1, ShutdownInitInv, PTL DEF ShutdownSpec

-----------------------------------------------------------------------------
(* Types are kept, and a name has one entry (TypeOK). *)
THEOREM ShutdownTypes == ShutdownSpec => []ShutdownTypeOK
<1>1. ShutdownIInv => ShutdownTypeOK
  BY DEF ShutdownIInv, TypeInv
<1> QED BY <1>1, ShutdownInv, PTL

(* A child that outlives the daemon was not registered in time, was being
   stopped by a client, or could not be stopped (OrphansExplained). *)
THEOREM OrphansAreExplained == ShutdownSpec => []OrphansExplained
<1>1. ShutdownIInv => OrphansExplained
  BY DEF ShutdownIInv, TypeInv, ShutdownTypeOK, PlanInv, Settled, OrphansExplained
<1> QED BY <1>1, ShutdownInv, PTL

(* An exit without a timeout comes after the end of every process that was
   fully started when the signal came, and after its output (CleanExit). *)
THEOREM ExitsAreClean == ShutdownSpec => []CleanExit
<1>1. ShutdownIInv => CleanExit
  BY DEF ShutdownIInv
<1> QED BY <1>1, ShutdownInv, PTL

=============================================================================
