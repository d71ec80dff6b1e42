----------------------- MODULE ProcessManagerProofs -----------------------
(***************************************************************************)
(* Theorems about ProcessManager, for every set of keys, instances and     *)
(* clients.                                                                *)
(*                                                                         *)
(* Types.  TypeOK is not inductive by itself: LocalInv adds what an        *)
(* agent's label tells of the locals it holds.                             *)
(*                                                                         *)
(* Names: NameHeldOnce, and the registry as an implementation of           *)
(* NameOwnership.  OwnerInv is NameHeldOnce taken apart into pairs of      *)
(* owners.  Eight actions hand a name on (OwnerStep); all others leave     *)
(* every owner what it is (OwnersKept).                                    *)
(*                                                                         *)
(* Children: StopIsTotal, NoLostLeader and OneLeaderPerName.  DeadInv      *)
(* relates what the tasks believe of a child to what it is: a Finished     *)
(* status, whoever of the four tasks wrote it, is only ever stored for a   *)
(* child that has ended, and an ended child never comes back.              *)
(***************************************************************************)
EXTENDS ProcessManager, TLAPS


(* Labels at which a request holds a process in tgt. *)
Holding == {"mark", "poll", "kill", "confirm", "unlink", "release", "removed", "judge",
            "evict", "evicted", "register", "watch", "warmup", "store", "started"}

Born(i) == i \in Ids /\ leader[i] # "unborn" /\ keyOf[i] \in Keys

LocalInv ==
  /\ \A c \in Clients :
       /\ pc[c] # "tick"
       /\ pc[c] # "idle" => key[c] \in Keys
       /\ pc[c] \in Holding => Born(tgt[c])
       /\ pc[c] = "register" => keyOf[tgt[c]] = key[c]
  /\ pc[Ticker] \in {"tick", "store"}
  /\ \A a \in Agents : pc[a] = "store" => Born(tgt[a]) /\ seen[a] # "none"
  /\ \A i \in processes : Born(i)

TypeInv == TypeOK /\ LocalInv

LEMMA InitTypeInv == Init => TypeInv
  BY ConstantsAssumption
  DEF Init, TypeInv, TypeOK, LocalInv, Holding, Agents, Status, Active, Finished,
      StopLabels, StartLabels, Answers

LEMMA NextTypeInv == TypeInv /\ [Next]_vars => TypeInv'
<1> SUFFICES ASSUME TypeInv, [Next]_vars PROVE TypeInv'
  OBVIOUS
<1> USE ConstantsAssumption
    DEF TypeInv, Agents, Goto, Continue, Hold, Answer, Synced, SetStatus, Entry, regVars,
        proxyVars, osVars, reqVars, agentVars, AllOps
<1>1. TypeOK'
  <2> USE DEF TypeOK, LocalInv, Holding, Born, Status, Active, Finished, StopLabels, StartLabels, Answers, Verdict
  <2>1. ASSUME NEW c \in Clients, StartRequest(c) PROVE TypeOK'
    BY <2>1 DEF StartRequest, Arrive
  <2>2. ASSUME NEW c \in Clients, RestartRequest(c) PROVE TypeOK'
    BY <2>2 DEF RestartRequest, Arrive
  <2>3. ASSUME NEW c \in Clients, ForceRequest(c) PROVE TypeOK'
    BY <2>3 DEF ForceRequest, Arrive
  <2>4. ASSUME NEW c \in Clients, StopRequest(c) PROVE TypeOK'
    BY <2>4 DEF StopRequest, Arrive
  <2>5. ASSUME NEW c \in Clients, CleanRequest(c) PROVE TypeOK'
    BY <2>5 DEF CleanRequest, Arrive
  <2>6. ASSUME NEW c \in Clients, FindExisting(c) PROVE TypeOK'
    BY <2>6 DEF FindExisting
  <2>7. ASSUME NEW c \in Clients, FindTarget(c) PROVE TypeOK'
    <3>1. CASE Answer(c, "notFound") /\ UNCHANGED <<regVars, proxyVars, osVars>>
      BY <3>1
    <3>2. CASE \E i \in processes : Hold(c, i, "mark") /\ UNCHANGED <<regVars, proxyVars, osVars>>
      BY <3>2
    <3> QED BY <2>7, <3>1, <3>2, Zenon DEF FindTarget
  <2>8. ASSUME NEW c \in Clients, MarkStopping(c) PROVE TypeOK'
    BY <2>8 DEF MarkStopping
  <2>9. ASSUME NEW c \in Clients, StoppedGracefully(c) PROVE TypeOK'
    BY <2>9 DEF StoppedGracefully
  <2>10. ASSUME NEW c \in Clients, GraceExpires(c) PROVE TypeOK'
    BY <2>10 DEF GraceExpires
  <2>11. ASSUME NEW c \in Clients, SendKill(c) PROVE TypeOK'
    BY <2>11 DEF SendKill
  <2>12. ASSUME NEW c \in Clients, ConfirmStopped(c) PROVE TypeOK'
    BY <2>12 DEF ConfirmStopped
  <2>13. ASSUME NEW c \in Clients, StopFails(c) PROVE TypeOK'
    BY <2>13 DEF StopFails
  <2>14. ASSUME NEW c \in Clients, RetryForced(c) PROVE TypeOK'
    BY <2>14 DEF RetryForced
  <2>15. ASSUME NEW c \in Clients, RemoveStopped(c) PROVE TypeOK'
    BY <2>15 DEF RemoveStopped, TakeOut
  <2>16. ASSUME NEW c \in Clients, ReleaseStopped(c) PROVE TypeOK'
    BY <2>16 DEF ReleaseStopped, ReleaseName
  <2>17. ASSUME NEW c \in Clients, StopDone(c) PROVE TypeOK'
    <3>1. CASE op[c] \in {"restart", "force"}
      BY <2>17, <3>1 DEF StopDone
    <3>2. CASE ~(op[c] \in {"restart", "force"})
      <4>1. Answer(c, "stopped") /\ UNCHANGED <<regVars, proxyVars, osVars>>
        BY <2>17, <3>2 DEF StopDone
      <4> QED BY <4>1
    <3> QED BY <3>1, <3>2
  <2>18. ASSUME NEW c \in Clients, FindSameName(c) PROVE TypeOK'
    BY <2>18 DEF FindSameName
  <2>19. ASSUME NEW c \in Clients, Judge(c) PROVE TypeOK'
    <3>1. CASE status[tgt[c]] \in Finished
      BY <2>19, <3>1 DEF Judge
    <3>2. CASE ~(status[tgt[c]] \in Finished)
      <4>1. Answer(c, "exists") /\ UNCHANGED <<regVars, proxyVars, osVars>>
        BY <2>19, <3>2 DEF Judge
      <4> QED BY <4>1
    <3> QED BY <3>1, <3>2
  <2>20. ASSUME NEW c \in Clients, RemoveFinished(c) PROVE TypeOK'
    BY <2>20 DEF RemoveFinished, TakeOut
  <2>21. ASSUME NEW c \in Clients, ReleaseFinished(c) PROVE TypeOK'
    BY <2>21 DEF ReleaseFinished, ReleaseName
  <2>22. ASSUME NEW c \in Clients, TryReserveName(c) PROVE TypeOK'
    <3>1. CASE key[c] \in reserved
      <4>1. Answer(c, "exists") /\ UNCHANGED <<regVars, proxyVars, osVars>>
        BY <2>22, <3>1 DEF TryReserveName
      <4> QED BY <4>1
    <3>2. CASE ~(key[c] \in reserved)
      BY <2>22, <3>2 DEF TryReserveName
    <3> QED BY <3>1, <3>2
  <2>23. ASSUME NEW c \in Clients, LaunchFails(c) PROVE TypeOK'
    BY <2>23 DEF LaunchFails
  <2>24. ASSUME NEW c \in Clients, Launch(c) PROVE TypeOK'
    BY <2>24 DEF Launch
  <2>25. ASSUME NEW c \in Clients, AddProcess(c) PROVE TypeOK'
    BY <2>25 DEF AddProcess
  <2>26. ASSUME NEW c \in Clients, SpawnMonitor(c) PROVE TypeOK'
    BY <2>26 DEF SpawnMonitor
  <2>27. ASSUME NEW c \in Clients, StartSync(c) PROVE TypeOK'
    <3>1. CASE Synced(c) /\ UNCHANGED <<regVars, proxyVars, osVars>>
      BY <3>1
    <3>2. CASE /\ Goto(c, "store") /\ tgt' = [tgt EXCEPT ![c] = tgt[c]]
               /\ seen' = [seen EXCEPT ![c] = Verdict(tgt[c])]
               /\ pc[c] = "warmup" /\ UNCHANGED reqVars
               /\ UNCHANGED <<regVars, proxyVars, osVars>>
      BY <3>2
    <3> QED
      BY <2>27, <3>1, <3>2, Zenon DEF StartSync, SyncCheck
  <2>28. ASSUME NEW c \in Clients, StartSyncFails(c) PROVE TypeOK'
    BY <2>28 DEF StartSyncFails
  <2>29. ASSUME NEW c \in Clients, Started(c) PROVE TypeOK'
    BY <2>29 DEF Started
  <2>30. ASSUME NEW c \in Clients, Cancel(c) PROVE TypeOK'
    BY <2>30 DEF Cancel
  <2>31. ASSUME NEW a \in Agents, SyncStore(a) PROVE TypeOK'
    BY <2>31 DEF SyncStore
  <2>32. ASSUME NEW i \in Ids, PeriodicCheck(i) PROVE TypeOK'
    BY <2>32 DEF PeriodicCheck, SyncCheck
  <2>33. ASSUME NEW i \in Ids, MonitorReap(i) PROVE TypeOK'
    BY <2>33 DEF MonitorReap
  <2>34. ASSUME NEW i \in Ids, MonitorRecord(i) PROVE TypeOK'
    BY <2>34 DEF MonitorRecord
  <2>35. ASSUME NEW i \in Ids, MonitorSettle(i) PROVE TypeOK'
    BY <2>35 DEF MonitorSettle
  <2>36. ASSUME NEW i \in Ids, MonitorWaitError(i) PROVE TypeOK'
    BY <2>36 DEF MonitorWaitError
  <2>37. ASSUME NEW i \in Ids, LeaderExits(i) PROVE TypeOK'
    BY <2>37 DEF LeaderExits
  <2>38. ASSUME NEW i \in Ids, SpawnMember(i) PROVE TypeOK'
    BY <2>38 DEF SpawnMember
  <2>39. ASSUME NEW i \in Ids, MembersExit(i) PROVE TypeOK'
    BY <2>39 DEF MembersExit
  <2>40. ASSUME NEW i \in Ids, KillTakesEffect(i) PROVE TypeOK'
    BY <2>40 DEF KillTakesEffect
  <2>41. CASE UNCHANGED vars
    BY <2>41 DEF vars
  <2> QED
    BY <2>1, <2>2, <2>3, <2>4, <2>5, <2>6, <2>7, <2>8, <2>9, <2>10, <2>11, <2>12, <2>13, <2>14, <2>15, <2>16, <2>17, <2>18, <2>19, <2>20, <2>21, <2>22, <2>23, <2>24, <2>25, <2>26, <2>27, <2>28, <2>29, <2>30, <2>31, <2>32, <2>33, <2>34, <2>35, <2>36, <2>37, <2>38, <2>39, <2>40, <2>41
    DEF Next, Request, Handler, Stop, Start, PeriodicSync, Monitor, System, Agents

<1>2. LocalInv'
  <2> USE DEF TypeOK, LocalInv, Holding, Born, Status, Active, Finished, StopLabels, StartLabels, Answers, Verdict
  <2>1. ASSUME NEW c \in Clients, StartRequest(c) PROVE LocalInv'
    BY <2>1 DEF StartRequest, Arrive
  <2>2. ASSUME NEW c \in Clients, RestartRequest(c) PROVE LocalInv'
    BY <2>2 DEF RestartRequest, Arrive
  <2>3. ASSUME NEW c \in Clients, ForceRequest(c) PROVE LocalInv'
    BY <2>3 DEF ForceRequest, Arrive
  <2>4. ASSUME NEW c \in Clients, StopRequest(c) PROVE LocalInv'
    BY <2>4 DEF StopRequest, Arrive
  <2>5. ASSUME NEW c \in Clients, CleanRequest(c) PROVE LocalInv'
    BY <2>5 DEF CleanRequest, Arrive
  <2>6. ASSUME NEW c \in Clients, FindExisting(c) PROVE LocalInv'
    BY <2>6 DEF FindExisting
  <2>7. ASSUME NEW c \in Clients, FindTarget(c) PROVE LocalInv'
    BY <2>7 DEF FindTarget
  <2>8. ASSUME NEW c \in Clients, MarkStopping(c) PROVE LocalInv'
    BY <2>8 DEF MarkStopping
  <2>9. ASSUME NEW c \in Clients, StoppedGracefully(c) PROVE LocalInv'
    BY <2>9 DEF StoppedGracefully
  <2>10. ASSUME NEW c \in Clients, GraceExpires(c) PROVE LocalInv'
    BY <2>10 DEF GraceExpires
  <2>11. ASSUME NEW c \in Clients, SendKill(c) PROVE LocalInv'
    BY <2>11 DEF SendKill
  <2>12. ASSUME NEW c \in Clients, ConfirmStopped(c) PROVE LocalInv'
    BY <2>12 DEF ConfirmStopped
  <2>13. ASSUME NEW c \in Clients, StopFails(c) PROVE LocalInv'
    BY <2>13 DEF StopFails
  <2>14. ASSUME NEW c \in Clients, RetryForced(c) PROVE LocalInv'
    BY <2>14 DEF RetryForced
  <2>15. ASSUME NEW c \in Clients, RemoveStopped(c) PROVE LocalInv'
    BY <2>15 DEF RemoveStopped, TakeOut
  <2>16. ASSUME NEW c \in Clients, ReleaseStopped(c) PROVE LocalInv'
    BY <2>16 DEF ReleaseStopped, ReleaseName
  <2>17. ASSUME NEW c \in Clients, StopDone(c) PROVE LocalInv'
    BY <2>17 DEF StopDone
  <2>18. ASSUME NEW c \in Clients, FindSameName(c) PROVE LocalInv'
    BY <2>18 DEF FindSameName
  <2>19. ASSUME NEW c \in Clients, Judge(c) PROVE LocalInv'
    BY <2>19 DEF Judge
  <2>20. ASSUME NEW c \in Clients, RemoveFinished(c) PROVE LocalInv'
    BY <2>20 DEF RemoveFinished, TakeOut
  <2>21. ASSUME NEW c \in Clients, ReleaseFinished(c) PROVE LocalInv'
    BY <2>21 DEF ReleaseFinished, ReleaseName
  <2>22. ASSUME NEW c \in Clients, TryReserveName(c) PROVE LocalInv'
    BY <2>22 DEF TryReserveName
  <2>23. ASSUME NEW c \in Clients, LaunchFails(c) PROVE LocalInv'
    BY <2>23 DEF LaunchFails
  <2>24. ASSUME NEW c \in Clients, Launch(c) PROVE LocalInv'
    BY <2>24 DEF Launch
  <2>25. ASSUME NEW c \in Clients, AddProcess(c) PROVE LocalInv'
    BY <2>25 DEF AddProcess
  <2>26. ASSUME NEW c \in Clients, SpawnMonitor(c) PROVE LocalInv'
    BY <2>26 DEF SpawnMonitor
  <2>27. ASSUME NEW c \in Clients, StartSync(c) PROVE LocalInv'
    BY <2>27 DEF StartSync, SyncCheck
  <2>28. ASSUME NEW c \in Clients, StartSyncFails(c) PROVE LocalInv'
    BY <2>28 DEF StartSyncFails
  <2>29. ASSUME NEW c \in Clients, Started(c) PROVE LocalInv'
    BY <2>29 DEF Started
  <2>30. ASSUME NEW c \in Clients, Cancel(c) PROVE LocalInv'
    BY <2>30 DEF Cancel
  <2>31. ASSUME NEW a \in Agents, SyncStore(a) PROVE LocalInv'
    BY <2>31 DEF SyncStore
  <2>32. ASSUME NEW i \in Ids, PeriodicCheck(i) PROVE LocalInv'
    BY <2>32 DEF PeriodicCheck, SyncCheck
  <2>33. ASSUME NEW i \in Ids, MonitorReap(i) PROVE LocalInv'
    BY <2>33 DEF MonitorReap
  <2>34. ASSUME NEW i \in Ids, MonitorRecord(i) PROVE LocalInv'
    BY <2>34 DEF MonitorRecord
  <2>35. ASSUME NEW i \in Ids, MonitorSettle(i) PROVE LocalInv'
    BY <2>35 DEF MonitorSettle
  <2>36. ASSUME NEW i \in Ids, MonitorWaitError(i) PROVE LocalInv'
    BY <2>36 DEF MonitorWaitError
  <2>37. ASSUME NEW i \in Ids, LeaderExits(i) PROVE LocalInv'
    BY <2>37 DEF LeaderExits
  <2>38. ASSUME NEW i \in Ids, SpawnMember(i) PROVE LocalInv'
    BY <2>38 DEF SpawnMember
  <2>39. ASSUME NEW i \in Ids, MembersExit(i) PROVE LocalInv'
    BY <2>39 DEF MembersExit
  <2>40. ASSUME NEW i \in Ids, KillTakesEffect(i) PROVE LocalInv'
    BY <2>40 DEF KillTakesEffect
  <2>41. CASE UNCHANGED vars
    BY <2>41 DEF vars
  <2> QED
    BY <2>1, <2>2, <2>3, <2>4, <2>5, <2>6, <2>7, <2>8, <2>9, <2>10, <2>11, <2>12, <2>13, <2>14, <2>15, <2>16, <2>17, <2>18, <2>19, <2>20, <2>21, <2>22, <2>23, <2>24, <2>25, <2>26, <2>27, <2>28, <2>29, <2>30, <2>31, <2>32, <2>33, <2>34, <2>35, <2>36, <2>37, <2>38, <2>39, <2>40, <2>41
    DEF Next, Request, Handler, Stop, Start, PeriodicSync, Monitor, System, Agents

<1> QED BY <1>1, <1>2

(* Types are kept (TypeOK, with LocalInv as the strengthening). *)
THEOREM TypeCorrect == Spec => []TypeOK
<1>1. TypeInv => TypeOK
  BY DEF TypeInv
<1> QED BY <1>1, InitTypeInv, NextTypeInv, PTL DEF Spec

-----------------------------------------------------------------------------

(* NameHeldOnce, pair by pair.                                             *)

Claiming(c)  == c \in Clients /\ pc[c] \in {"launch", "register"}
Releasing(c) == c \in Clients /\ pc[c] \in {"release", "evicted"}

Disjoint ==
  /\ \A i, j \in processes : keyOf[i] = keyOf[j] => i = j
  /\ \A c, d \in Clients : Claiming(c) /\ Claiming(d) /\ key[c] = key[d] => c = d
  /\ \A c, d \in Clients :
       Releasing(c) /\ Releasing(d) /\ keyOf[tgt[c]] = keyOf[tgt[d]] => c = d
  /\ \A c \in Clients, i \in processes : Claiming(c) => key[c] # keyOf[i]
  /\ \A c \in Clients, i \in processes : Releasing(c) => keyOf[tgt[c]] # keyOf[i]
  /\ \A c, d \in Clients : Claiming(c) /\ Releasing(d) => key[c] # keyOf[tgt[d]]

Covered ==
  /\ \A i \in processes : keyOf[i] \in reserved
  /\ \A c \in Clients : Claiming(c) => key[c] \in reserved
  /\ \A c \in Clients : Releasing(c) => keyOf[tgt[c]] \in reserved

Owned ==
  \A k \in reserved :
    \/ \E i \in processes : keyOf[i] = k
    \/ \E c \in Clients : Claiming(c) /\ key[c] = k
    \/ \E c \in Clients : Releasing(c) /\ keyOf[tgt[c]] = k

OwnerInv == Disjoint /\ Covered /\ Owned

LEMMA InitOwnerInv == Init => OwnerInv
  BY ConstantsAssumption
  DEF Init, OwnerInv, Disjoint, Covered, Owned, Claiming, Releasing, Agents


(* The steps that hand a name on. *)
OwnerStep ==
  \E c \in Clients :
    \/ RemoveStopped(c)  \/ ReleaseStopped(c)
    \/ RemoveFinished(c) \/ ReleaseFinished(c)
    \/ TryReserveName(c) \/ LaunchFails(c) \/ Launch(c) \/ AddProcess(c)

(* What every other step leaves alone. *)
OwnersKept ==
  /\ UNCHANGED regVars
  /\ \A c \in Clients :
       /\ Claiming(c)' <=> Claiming(c)
       /\ Claiming(c) => key'[c] = key[c]
       /\ Releasing(c)' <=> Releasing(c)
       /\ Releasing(c) => tgt'[c] = tgt[c]

LEMMA OtherSteps == TypeInv /\ [Next]_vars => OwnersKept \/ OwnerStep
<1> SUFFICES ASSUME TypeInv, [Next]_vars PROVE OwnersKept \/ OwnerStep
  OBVIOUS
<1> USE ConstantsAssumption
    DEF TypeInv, TypeOK, LocalInv, Agents, Goto, Continue, Hold, Answer, Synced, SetStatus,
        Entry, regVars, proxyVars, osVars, reqVars, agentVars, Claiming, Releasing, OwnersKept
<1>1. ASSUME NEW c \in Clients, StartRequest(c) PROVE OwnersKept
  BY <1>1 DEF StartRequest, Arrive
<1>2. ASSUME NEW c \in Clients, RestartRequest(c) PROVE OwnersKept
  BY <1>2 DEF RestartRequest, Arrive
<1>3. ASSUME NEW c \in Clients, ForceRequest(c) PROVE OwnersKept
  BY <1>3 DEF ForceRequest, Arrive
<1>4. ASSUME NEW c \in Clients, StopRequest(c) PROVE OwnersKept
  BY <1>4 DEF StopRequest, Arrive
<1>5. ASSUME NEW c \in Clients, CleanRequest(c) PROVE OwnersKept
  BY <1>5 DEF CleanRequest, Arrive
<1>6. ASSUME NEW c \in Clients, FindExisting(c) PROVE OwnersKept
  BY <1>6 DEF FindExisting
<1>7. ASSUME NEW c \in Clients, FindTarget(c) PROVE OwnersKept
  <2>1. ASSUME pc[c] = "target", UNCHANGED regVars, Answer(c, "notFound") PROVE OwnersKept
    BY <2>1
  <2>2. ASSUME pc[c] = "target", UNCHANGED regVars, NEW i \in processes, Hold(c, i, "mark")
        PROVE OwnersKept
    BY <2>2
  <2> QED BY <1>7, <2>1, <2>2, Zenon DEF FindTarget
<1>8. ASSUME NEW c \in Clients, MarkStopping(c) PROVE OwnersKept
  BY <1>8 DEF MarkStopping
<1>9. ASSUME NEW c \in Clients, StoppedGracefully(c) PROVE OwnersKept
  BY <1>9 DEF StoppedGracefully
<1>10. ASSUME NEW c \in Clients, GraceExpires(c) PROVE OwnersKept
  BY <1>10 DEF GraceExpires
<1>11. ASSUME NEW c \in Clients, SendKill(c) PROVE OwnersKept
  BY <1>11 DEF SendKill
<1>12. ASSUME NEW c \in Clients, ConfirmStopped(c) PROVE OwnersKept
  BY <1>12 DEF ConfirmStopped
<1>13. ASSUME NEW c \in Clients, StopFails(c) PROVE OwnersKept
  BY <1>13 DEF StopFails
<1>14. ASSUME NEW c \in Clients, RetryForced(c) PROVE OwnersKept
  BY <1>14 DEF RetryForced
<1>15. ASSUME NEW c \in Clients, StopDone(c) PROVE OwnersKept
  <2>1. CASE op[c] \in {"restart", "force"}
    BY <1>15, <2>1 DEF StopDone
  <2>2. CASE ~(op[c] \in {"restart", "force"})
    <3>1. pc[c] \in {"removed", "judge"} /\ Answer(c, "stopped") /\ UNCHANGED regVars
      BY <1>15, <2>2 DEF StopDone
    <3> QED BY <3>1
  <2> QED BY <2>1, <2>2
<1>16. ASSUME NEW c \in Clients, FindSameName(c) PROVE OwnersKept
  BY <1>16 DEF FindSameName
<1>17. ASSUME NEW c \in Clients, Judge(c) PROVE OwnersKept
  <2>1. CASE status[tgt[c]] \in Finished
    BY <1>17, <2>1 DEF Judge
  <2>2. CASE ~(status[tgt[c]] \in Finished)
    <3>1. pc[c] \in {"removed", "judge"} /\ Answer(c, "exists") /\ UNCHANGED regVars
      BY <1>17, <2>2 DEF Judge
    <3> QED BY <3>1
  <2> QED BY <2>1, <2>2
<1>18. ASSUME NEW c \in Clients, SpawnMonitor(c) PROVE OwnersKept
  BY <1>18 DEF SpawnMonitor
<1>19. ASSUME NEW c \in Clients, StartSync(c) PROVE OwnersKept
  BY <1>19 DEF StartSync, SyncCheck
<1>20. ASSUME NEW c \in Clients, StartSyncFails(c) PROVE OwnersKept
  BY <1>20 DEF StartSyncFails
<1>21. ASSUME NEW c \in Clients, Started(c) PROVE OwnersKept
  BY <1>21 DEF Started
<1>22. ASSUME NEW c \in Clients, Cancel(c) PROVE OwnersKept
  BY <1>22 DEF Cancel
<1>23. ASSUME NEW a \in Agents, SyncStore(a) PROVE OwnersKept
  BY <1>23 DEF SyncStore
<1>24. ASSUME NEW i \in Ids, PeriodicCheck(i) PROVE OwnersKept
  BY <1>24 DEF PeriodicCheck, SyncCheck
<1>25. ASSUME NEW i \in Ids, Monitor(i) \/ System(i) PROVE OwnersKept
  BY <1>25 DEF Monitor, System, MonitorReap, MonitorRecord, MonitorSettle, MonitorWaitError,
              LeaderExits, SpawnMember, MembersExit, KillTakesEffect
<1>26. CASE UNCHANGED vars
  BY <1>26 DEF vars
<1> QED
  BY <1>1, <1>2, <1>3, <1>4, <1>5, <1>6, <1>7, <1>8, <1>9, <1>10, <1>11, <1>12,
     <1>13, <1>14, <1>15, <1>16, <1>17, <1>18, <1>19, <1>20, <1>21, <1>22, <1>23,
     <1>24, <1>25, <1>26
  DEF Next, Request, Handler, Stop, Start, PeriodicSync, OwnerStep, Agents

LEMMA NextOwnerInv == TypeInv /\ OwnerInv /\ [Next]_vars => OwnerInv'
<1> SUFFICES ASSUME TypeInv, OwnerInv, [Next]_vars PROVE OwnerInv'
  OBVIOUS
<1>1. CASE OwnersKept
  BY <1>1 DEF OwnersKept, OwnerInv, Disjoint, Covered, Owned, TypeInv, LocalInv, regVars
<1> USE ConstantsAssumption
    DEF TypeInv, TypeOK, LocalInv, Holding, Born, Agents, Goto, Continue, Hold, Answer,
        regVars, proxyVars, osVars, reqVars, OwnerInv, Disjoint, Covered, Owned,
        Claiming, Releasing
<1>2. ASSUME NEW c \in Clients, RemoveStopped(c) PROVE OwnerInv'
  <2>1. Disjoint'
    BY <1>2 DEF RemoveStopped, TakeOut
  <2>2. Covered'
    BY <1>2 DEF RemoveStopped, TakeOut
  <2>3. Owned'
    BY <1>2 DEF RemoveStopped, TakeOut
  <2> QED BY <2>1, <2>2, <2>3
<1>3. ASSUME NEW c \in Clients, ReleaseStopped(c) PROVE OwnerInv'
  <2>1. Disjoint'
    BY <1>3 DEF ReleaseStopped, ReleaseName
  <2>2. Covered'
    BY <1>3 DEF ReleaseStopped, ReleaseName
  <2>3. Owned'
    BY <1>3 DEF ReleaseStopped, ReleaseName
  <2> QED BY <2>1, <2>2, <2>3
<1>4. ASSUME NEW c \in Clients, RemoveFinished(c) PROVE OwnerInv'
  <2>1. Disjoint'
    BY <1>4 DEF RemoveFinished, TakeOut
  <2>2. Covered'
    BY <1>4 DEF RemoveFinished, TakeOut
  <2>3. Owned'
    BY <1>4 DEF RemoveFinished, TakeOut
  <2> QED BY <2>1, <2>2, <2>3
<1>5. ASSUME NEW c \in Clients, ReleaseFinished(c) PROVE OwnerInv'
  <2>1. Disjoint'
    BY <1>5 DEF ReleaseFinished, ReleaseName
  <2>2. Covered'
    BY <1>5 DEF ReleaseFinished, ReleaseName
  <2>3. Owned'
    BY <1>5 DEF ReleaseFinished, ReleaseName
  <2> QED BY <2>1, <2>2, <2>3
<1>6. ASSUME NEW c \in Clients, TryReserveName(c) PROVE OwnerInv'
  <2>1. CASE key[c] \in reserved
    <3>1. pc[c] = "reserve" /\ Answer(c, "exists") /\ UNCHANGED regVars
      BY <1>6, <2>1 DEF TryReserveName
    <3>2. OwnersKept
      BY <3>1 DEF OwnersKept
    <3> QED BY <1>1, <3>2
  <2>2. CASE key[c] \notin reserved
    <3>1. /\ pc[c] = "reserve" /\ Continue(c, "launch")
          /\ reserved' = reserved \cup {key[c]} /\ UNCHANGED <<processes, keyOf>>
      BY <1>6, <2>2 DEF TryReserveName
    <3>2. Disjoint'
      BY <2>2, <3>1
    <3>3. Covered'
      BY <2>2, <3>1
    <3>4. Owned'
      <4>1. \A i \in processes : keyOf'[i] = keyOf[i] /\ i \in processes'
        BY <3>1
      <4>2. \A d \in Clients : /\ Claiming(d) => Claiming(d)'
                               /\ Releasing(d) => Releasing(d)' /\ tgt'[d] = tgt[d]
        BY <3>1
      <4>3. Claiming(c)' /\ key' = key
        BY <3>1
      <4> QED BY <3>1, <4>1, <4>2, <4>3
    <3> QED BY <3>2, <3>3, <3>4
  <2> QED BY <2>1, <2>2
<1>7. ASSUME NEW c \in Clients, LaunchFails(c) PROVE OwnerInv'
  <2>1. Disjoint'
    BY <1>7 DEF LaunchFails
  <2>2. Covered'
    BY <1>7 DEF LaunchFails
  <2>3. Owned'
    BY <1>7 DEF LaunchFails
  <2> QED BY <2>1, <2>2, <2>3
<1>8. ASSUME NEW c \in Clients, Launch(c) PROVE OwnerInv'
  <2>1. Disjoint'
    BY <1>8 DEF Launch
  <2>2. Covered'
    BY <1>8 DEF Launch
  <2>3. Owned'
    BY <1>8 DEF Launch
  <2> QED BY <2>1, <2>2, <2>3
<1>9. ASSUME NEW c \in Clients, AddProcess(c) PROVE OwnerInv'
  <2>1. Disjoint'
    BY <1>9 DEF AddProcess
  <2>2. Covered'
    BY <1>9 DEF AddProcess
  <2>3. Owned'
    BY <1>9 DEF AddProcess
  <2> QED BY <2>1, <2>2, <2>3
<1> QED BY <1>1, <1>2, <1>3, <1>4, <1>5, <1>6, <1>7, <1>8, <1>9, OtherSteps DEF OwnerStep

(* The pairs make up NameHeldOnce. *)
LEMMA OwnersAreOne == TypeInv /\ OwnerInv => NameHeldOnce
<1> SUFFICES ASSUME TypeInv, OwnerInv, NEW k \in Keys
             PROVE  /\ k \in reserved <=> OwnersOf(k) # {}
                    /\ \A x, y \in OwnersOf(k) : x = y
  BY DEF NameHeldOnce
<1>1. \A x \in OwnersOf(k) :
        \/ \E c \in Claims(k) : x = <<"claim", c>>
        \/ \E i \in Entry(k) : x = <<"entry", i>>
        \/ \E c \in Releases(k) : x = <<"release", c>>
  BY DEF OwnersOf
<1>2. OwnersOf(k) # {} <=> Claims(k) # {} \/ Entry(k) # {} \/ Releases(k) # {}
  <2>1. \A c \in Claims(k) : <<"claim", c>> \in OwnersOf(k)
    BY DEF OwnersOf
  <2>2. \A i \in Entry(k) : <<"entry", i>> \in OwnersOf(k)
    BY DEF OwnersOf
  <2>3. \A c \in Releases(k) : <<"release", c>> \in OwnersOf(k)
    BY DEF OwnersOf
  <2> QED BY <1>1, <2>1, <2>2, <2>3
<1> USE DEF OwnerInv, Disjoint, Covered, Owned, Claiming, Releasing, Claims, Releases, Entry
<1>3. k \in reserved <=> OwnersOf(k) # {}
  BY <1>2
<1>4. \A x, y \in OwnersOf(k) : x = y
  <2> SUFFICES ASSUME NEW x \in OwnersOf(k), NEW y \in OwnersOf(k) PROVE x = y
    OBVIOUS
  <2>1. CASE \E c \in Claims(k) : x = <<"claim", c>>
    BY <1>1, <2>1
  <2>2. CASE \E i \in Entry(k) : x = <<"entry", i>>
    BY <1>1, <2>2
  <2>3. CASE \E c \in Releases(k) : x = <<"release", c>>
    BY <1>1, <2>3
  <2> QED BY <1>1, <2>1, <2>2, <2>3
<1> QED BY <1>3, <1>4

(* A name is reserved exactly while somebody owns it, and never by two
   (NameHeldOnce; registry.rs:28-47, manager.rs:136-218). *)
THEOREM NamesHeldOnce == Spec => []NameHeldOnce
<1>1. Init => TypeInv /\ OwnerInv
  BY InitTypeInv, InitOwnerInv
<1>2. TypeInv /\ OwnerInv /\ [Next]_vars => (TypeInv /\ OwnerInv)'
  BY NextTypeInv, NextOwnerInv
<1> QED BY <1>1, <1>2, OwnersAreOne, PTL DEF Spec

-----------------------------------------------------------------------------
(* Refinement.  By NameHeldOnce a name has one owner or none, so a step that *)
(* hands a name on is known by one owner before and one after it.            *)

Owners == [k \in Keys |-> OwnersOf(k)]

(* Nobody but the owners of k0 changes. *)
OnlyAt(k0) ==
  \A k \in Keys \ {k0} :
    Claims(k)' = Claims(k) /\ Entry(k)' = Entry(k) /\ Releases(k)' = Releases(k)

LEMMA OwnersElsewhere ==
  ASSUME NEW k0, OnlyAt(k0) PROVE \A k \in Keys \ {k0} : OwnersOf(k)' = OwnersOf(k)
BY DEF OnlyAt, OwnersOf

LEMMA PassIsStep ==
  ASSUME NEW k0 \in Keys, OnlyAt(k0), NEW from, NEW to,
         OwnersOf(k0) = from, OwnersOf(k0)' = to
  PROVE  Ownership!Pass(k0, from, to)
BY OwnersElsewhere DEF Ownership!Pass

LEMMA KeptIsStutter == ASSUME TypeInv, OwnersKept PROVE UNCHANGED Owners
<1>1. \A k \in Keys : Claims(k)' = Claims(k)
  BY DEF OwnersKept, Claims, Claiming
<1>2. \A k \in Keys : Entry(k)' = Entry(k)
  BY DEF OwnersKept, Entry, regVars
<1>3. \A k \in Keys : Releases(k)' = Releases(k)
  BY DEF OwnersKept, Releases, Releasing, regVars
<1> QED BY <1>1, <1>2, <1>3 DEF Owners, OwnersOf

(* A name with an owner has no other. *)
LEMMA OnlyOwner ==
  ASSUME NameHeldOnce, NEW k \in Keys, NEW x \in OwnersOf(k) PROVE OwnersOf(k) = {x}
BY DEF NameHeldOnce

LEMMA OnlyOwnerNext ==
  ASSUME NameHeldOnce', NEW k \in Keys, NEW x \in OwnersOf(k)' PROVE OwnersOf(k)' = {x}
BY DEF NameHeldOnce

LEMMA NextOwnership ==
  ASSUME TypeInv, TypeInv', NameHeldOnce, NameHeldOnce', [Next]_vars
  PROVE  Ownership!Next \/ UNCHANGED Owners
<1>1. CASE OwnersKept
  BY <1>1, KeptIsStutter
<1> USE ConstantsAssumption
    DEF TypeInv, TypeOK, LocalInv, Holding, Born, Agents, Goto, Continue, Hold, Answer,
        regVars, proxyVars, osVars, reqVars
<1>2. ASSUME NEW c \in Clients,
             \/ TakeOut(c, "unlink", "release", "removed")
             \/ TakeOut(c, "evict", "evicted", "reserve")
      PROVE  Ownership!Next \/ UNCHANGED Owners
  <2>1. CASE tgt[c] \in processes
    <3>1. PICK i \in Ids, k0 \in Keys : i = tgt[c] /\ k0 = keyOf[i]
      BY <2>1
    <3>2. OnlyAt(k0)
      BY <1>2, <2>1, <3>1 DEF TakeOut, OnlyAt, Claims, Entry, Releases
    <3>3. i \in Entry(k0)
      BY <2>1, <3>1 DEF Entry
    <3>4. c \in Releases(k0)'
      BY <1>2, <2>1, <3>1 DEF TakeOut, Releases
    <3>5. <<"entry", i>> \in OwnersOf(k0) /\ <<"release", c>> \in OwnersOf(k0)'
      BY <3>3, <3>4 DEF OwnersOf
    <3>6. OwnersOf(k0) = {<<"entry", i>>}
      BY <3>5, OnlyOwner
    <3>7. OwnersOf(k0)' = {<<"release", c>>}
      BY <3>5, OnlyOwnerNext
    <3>8. Ownership!Evict(k0, c, i)
      BY <3>2, <3>6, <3>7, PassIsStep DEF Ownership!Evict
    <3> QED BY <3>8 DEF Ownership!Next
  <2>2. CASE tgt[c] \notin processes
    <3>1. processes' = processes
      <4>1. processes' = processes \ {tgt[c]}
        BY <1>2 DEF TakeOut
      <4>2. \A i : i \in processes' <=> i \in processes
        BY <2>2, <4>1
      <4> QED BY <4>2, SetExtensionality, Zenon
    <3>2. /\ pc[c] \in {"unlink", "evict"}
          /\ pc' = [pc EXCEPT ![c] = IF pc[c] = "unlink" THEN "removed" ELSE "reserve"]
          /\ UNCHANGED <<reserved, keyOf, tgt, key>>
      BY <1>2, <2>2 DEF TakeOut
    <3>3. OwnersKept
      BY <3>1, <3>2 DEF OwnersKept, Claiming, Releasing
    <3> QED BY <1>1, <3>3
  <2> QED BY <2>1, <2>2
<1>3. ASSUME NEW c \in Clients,
             \/ ReleaseName(c, "release", "removed")
             \/ ReleaseName(c, "evicted", "reserve")
      PROVE  Ownership!Next \/ UNCHANGED Owners
  <2>1. PICK k0 \in Keys : k0 = keyOf[tgt[c]]
    BY <1>3 DEF ReleaseName
  <2>2. OnlyAt(k0)
    BY <1>3, <2>1 DEF ReleaseName, OnlyAt, Claims, Entry, Releases
  <2>3. c \in Releases(k0) /\ k0 \notin reserved'
    BY <1>3, <2>1 DEF ReleaseName, Releases
  <2>4. <<"release", c>> \in OwnersOf(k0)
    BY <2>3 DEF OwnersOf
  <2>5. OwnersOf(k0) = {<<"release", c>>}
    BY <2>4, OnlyOwner
  <2>6. OwnersOf(k0)' = {}
    BY <2>3 DEF NameHeldOnce
  <2>7. Ownership!Free(k0, c)
    BY <2>2, <2>5, <2>6, PassIsStep DEF Ownership!Free
  <2> QED BY <2>7 DEF Ownership!Next
<1>4. ASSUME NEW c \in Clients, TryReserveName(c) PROVE Ownership!Next \/ UNCHANGED Owners
  <2>1. CASE key[c] \in reserved
    <3>1. pc[c] = "reserve" /\ Answer(c, "exists") /\ UNCHANGED regVars
      BY <1>4, <2>1 DEF TryReserveName
    <3>2. OwnersKept
      BY <3>1 DEF OwnersKept, Claiming, Releasing
    <3> QED BY <1>1, <3>2
  <2>2. CASE key[c] \notin reserved
    <3>1. /\ pc[c] = "reserve" /\ Continue(c, "launch")
          /\ reserved' = reserved \cup {key[c]} /\ UNCHANGED <<processes, keyOf>>
      BY <1>4, <2>2 DEF TryReserveName
    <3>2. PICK k0 \in Keys : k0 = key[c]
      BY <3>1
    <3>3. OnlyAt(k0)
      BY <3>1, <3>2 DEF OnlyAt, Claims, Entry, Releases
    <3>4. c \in Claims(k0)'
      BY <3>1, <3>2 DEF Claims
    <3>5. <<"claim", c>> \in OwnersOf(k0)'
      BY <3>4 DEF OwnersOf
    <3>6. OwnersOf(k0) = {}
      BY <2>2, <3>2 DEF NameHeldOnce
    <3>7. OwnersOf(k0)' = {<<"claim", c>>}
      BY <3>5, OnlyOwnerNext
    <3>8. Ownership!Claim(k0, c)
      BY <3>3, <3>6, <3>7, PassIsStep DEF Ownership!Claim
    <3> QED BY <3>8 DEF Ownership!Next
  <2> QED BY <2>1, <2>2
<1>5. ASSUME NEW c \in Clients, LaunchFails(c) PROVE Ownership!Next \/ UNCHANGED Owners
  <2>1. PICK k0 \in Keys : k0 = key[c]
    BY <1>5 DEF LaunchFails
  <2>2. OnlyAt(k0)
    BY <1>5, <2>1 DEF LaunchFails, OnlyAt, Claims, Entry, Releases
  <2>3. c \in Claims(k0) /\ k0 \notin reserved'
    BY <1>5, <2>1 DEF LaunchFails, Claims
  <2>4. <<"claim", c>> \in OwnersOf(k0)
    BY <2>3 DEF OwnersOf
  <2>5. OwnersOf(k0) = {<<"claim", c>>}
    BY <2>4, OnlyOwner
  <2>6. OwnersOf(k0)' = {}
    BY <2>3 DEF NameHeldOnce
  <2>7. Ownership!Abandon(k0, c)
    BY <2>2, <2>5, <2>6, PassIsStep DEF Ownership!Abandon
  <2> QED BY <2>7 DEF Ownership!Next
<1>6. ASSUME NEW c \in Clients, Launch(c) PROVE Ownership!Next \/ UNCHANGED Owners
  <2>1. \A k \in Keys : Claims(k)' = Claims(k)
    BY <1>6 DEF Launch, Claims
  <2>2. \A k \in Keys : Entry(k)' = Entry(k)
    BY <1>6 DEF Launch, Entry
  <2>3. \A k \in Keys : Releases(k)' = Releases(k)
    BY <1>6 DEF Launch, Releases
  <2> QED BY <2>1, <2>2, <2>3 DEF Owners, OwnersOf
<1>7. ASSUME NEW c \in Clients, AddProcess(c) PROVE Ownership!Next \/ UNCHANGED Owners
  <2>1. PICK i \in Ids, k0 \in Keys : i = tgt[c] /\ k0 = key[c] /\ k0 = keyOf[i]
    BY <1>7 DEF AddProcess
  <2>2. OnlyAt(k0)
    BY <1>7, <2>1 DEF AddProcess, OnlyAt, Claims, Entry, Releases
  <2>3. c \in Claims(k0) /\ i \in Entry(k0)'
    BY <1>7, <2>1 DEF AddProcess, Claims, Entry
  <2>4. <<"claim", c>> \in OwnersOf(k0) /\ <<"entry", i>> \in OwnersOf(k0)'
    BY <2>3 DEF OwnersOf
  <2>5. OwnersOf(k0) = {<<"claim", c>>}
    BY <2>4, OnlyOwner
  <2>6. OwnersOf(k0)' = {<<"entry", i>>}
    BY <2>4, OnlyOwnerNext
  <2>7. Ownership!Commit(k0, c, i)
    BY <2>2, <2>5, <2>6, PassIsStep DEF Ownership!Commit
  <2> QED BY <2>7 DEF Ownership!Next
<1> QED
  BY <1>1, <1>2, <1>3, <1>4, <1>5, <1>6, <1>7, OtherSteps
  DEF OwnerStep, RemoveStopped, ReleaseStopped, RemoveFinished, ReleaseFinished

(* The registry hands names over the way NameOwnership says, whatever     *)
(* starts, stops, evictions and cancellations overlap (registry.rs,        *)
(* manager.rs:136-218, 504-513).                                           *)
THEOREM ManagerImplementsOwnership == Spec => OwnershipSpec
<1>1. Init => TypeInv /\ OwnerInv
  BY InitTypeInv, InitOwnerInv
<1>2. TypeInv /\ OwnerInv /\ [Next]_vars => (TypeInv /\ OwnerInv)'
  BY NextTypeInv, NextOwnerInv
<1>3. TypeInv /\ OwnerInv => NameHeldOnce
  BY OwnersAreOne
<1>4. Init => Ownership!Init
  BY ConstantsAssumption
  DEF Init, Ownership!Init, OwnersOf, Claims, Entry, Releases, Agents
<1>5. TypeInv /\ NameHeldOnce /\ TypeInv' /\ NameHeldOnce' /\ [Next]_vars
        => [Ownership!Next]_Owners
  BY NextOwnership
<1> QED BY <1>1, <1>2, <1>3, <1>4, <1>5, PTL DEF Spec, OwnershipSpec, Ownership!Spec, Owners

-----------------------------------------------------------------------------

Dead(i) == leader[i] \in {"zombie", "reaped"}

DeadInv ==
  /\ \A i \in Ids : status[i] \in Finished => Dead(i)
  /\ \A i \in Ids : exitCode[i] # "none" => leader[i] = "reaped"
  /\ \A i \in Ids : monitor[i] \in {"recording", "settling", "done"} => leader[i] = "reaped"
  /\ \A a \in Agents : pc[a] = "store" /\ seen[a] \in Finished => leader[tgt[a]] = "reaped"
  /\ \A c \in Clients : pc[c] = "evict" => Dead(tgt[c])

LEMMA InitDeadInv == Init => DeadInv /\ StopIsTotal
  BY ConstantsAssumption
  DEF Init, DeadInv, Dead, StopIsTotal, LiveMembers, Agents, Finished

LEMMA NextDeadInv == TypeInv /\ DeadInv /\ [Next]_vars => DeadInv'
<1> SUFFICES ASSUME TypeInv, DeadInv, [Next]_vars PROVE DeadInv'
  OBVIOUS
<1> USE ConstantsAssumption
    DEF TypeInv, TypeOK, LocalInv, Holding, Born, Agents, Goto, Continue, Hold, Answer,
        Synced, SetStatus, Entry, LiveMembers, GroupExists, Verdict, Finished, Status, Active,
        regVars, proxyVars, osVars, reqVars, agentVars, DeadInv, Dead
<1>1. ASSUME NEW c \in Clients, StartRequest(c) PROVE DeadInv'
  BY <1>1 DEF StartRequest, Arrive
<1>2. ASSUME NEW c \in Clients, RestartRequest(c) PROVE DeadInv'
  BY <1>2 DEF RestartRequest, Arrive
<1>3. ASSUME NEW c \in Clients, ForceRequest(c) PROVE DeadInv'
  BY <1>3 DEF ForceRequest, Arrive
<1>4. ASSUME NEW c \in Clients, StopRequest(c) PROVE DeadInv'
  BY <1>4 DEF StopRequest, Arrive
<1>5. ASSUME NEW c \in Clients, CleanRequest(c) PROVE DeadInv'
  BY <1>5 DEF CleanRequest, Arrive
<1>6. ASSUME NEW c \in Clients, FindExisting(c) PROVE DeadInv'
  BY <1>6 DEF FindExisting
<1>7. ASSUME NEW c \in Clients, FindTarget(c) PROVE DeadInv'
  <2>1. /\ UNCHANGED <<status, exitCode, leader, monitor>>
        /\ \A a \in Agents : pc'[a] \in {"store", "evict"} =>
             pc'[a] = pc[a] /\ tgt'[a] = tgt[a] /\ seen'[a] = seen[a]
    BY <1>7 DEF FindTarget
  <2> QED BY <2>1
<1>8. ASSUME NEW c \in Clients, MarkStopping(c) PROVE DeadInv'
  BY <1>8 DEF MarkStopping
<1>9. ASSUME NEW c \in Clients, StoppedGracefully(c) PROVE DeadInv'
  BY <1>9 DEF StoppedGracefully
<1>10. ASSUME NEW c \in Clients, GraceExpires(c) PROVE DeadInv'
  BY <1>10 DEF GraceExpires
<1>11. ASSUME NEW c \in Clients, SendKill(c) PROVE DeadInv'
  BY <1>11 DEF SendKill
<1>12. ASSUME NEW c \in Clients, ConfirmStopped(c) PROVE DeadInv'
  BY <1>12 DEF ConfirmStopped
<1>13. ASSUME NEW c \in Clients, StopFails(c) PROVE DeadInv'
  BY <1>13 DEF StopFails
<1>14. ASSUME NEW c \in Clients, RetryForced(c) PROVE DeadInv'
  BY <1>14 DEF RetryForced
<1>15. ASSUME NEW c \in Clients, RemoveStopped(c) PROVE DeadInv'
  BY <1>15 DEF RemoveStopped, TakeOut
<1>16. ASSUME NEW c \in Clients, ReleaseStopped(c) PROVE DeadInv'
  BY <1>16 DEF ReleaseStopped, ReleaseName
<1>17. ASSUME NEW c \in Clients, StopDone(c) PROVE DeadInv'
  BY <1>17 DEF StopDone
<1>18. ASSUME NEW c \in Clients, FindSameName(c) PROVE DeadInv'
  BY <1>18 DEF FindSameName
<1>19. ASSUME NEW c \in Clients, Judge(c) PROVE DeadInv'
  BY <1>19 DEF Judge
<1>20. ASSUME NEW c \in Clients, RemoveFinished(c) PROVE DeadInv'
  <2>1. /\ UNCHANGED <<status, exitCode, leader, monitor>>
        /\ \A a \in Agents : pc'[a] \in {"store", "evict"} =>
             pc'[a] = pc[a] /\ tgt'[a] = tgt[a] /\ seen'[a] = seen[a]
    BY <1>20 DEF RemoveFinished, TakeOut
  <2> QED BY <2>1
<1>21. ASSUME NEW c \in Clients, ReleaseFinished(c) PROVE DeadInv'
  BY <1>21 DEF ReleaseFinished, ReleaseName
<1>22. ASSUME NEW c \in Clients, TryReserveName(c) PROVE DeadInv'
  <2>1. /\ UNCHANGED <<status, exitCode, leader, monitor>>
        /\ \A a \in Agents : pc'[a] \in {"store", "evict"} =>
             pc'[a] = pc[a] /\ tgt'[a] = tgt[a] /\ seen'[a] = seen[a]
    BY <1>22 DEF TryReserveName
  <2> QED BY <2>1
<1>23. ASSUME NEW c \in Clients, LaunchFails(c) PROVE DeadInv'
  BY <1>23 DEF LaunchFails
<1>24. ASSUME NEW c \in Clients, Launch(c) PROVE DeadInv'
  BY <1>24 DEF Launch
<1>25. ASSUME NEW c \in Clients, AddProcess(c) PROVE DeadInv'
  BY <1>25 DEF AddProcess
<1>26. ASSUME NEW c \in Clients, SpawnMonitor(c) PROVE DeadInv'
  BY <1>26 DEF SpawnMonitor
<1>27. ASSUME NEW c \in Clients, StartSync(c) PROVE DeadInv'
  BY <1>27 DEF StartSync, SyncCheck
<1>28. ASSUME NEW c \in Clients, StartSyncFails(c) PROVE DeadInv'
  BY <1>28 DEF StartSyncFails
<1>29. ASSUME NEW c \in Clients, Started(c) PROVE DeadInv'
  BY <1>29 DEF Started
<1>30. ASSUME NEW c \in Clients, Cancel(c) PROVE DeadInv'
  BY <1>30 DEF Cancel
<1>31. ASSUME NEW a \in Agents, SyncStore(a) PROVE DeadInv'
  BY <1>31 DEF SyncStore
<1>32. ASSUME NEW i \in Ids, PeriodicCheck(i) PROVE DeadInv'
  BY <1>32 DEF PeriodicCheck, SyncCheck
<1>33. ASSUME NEW i \in Ids, MonitorReap(i) PROVE DeadInv'
  BY <1>33 DEF MonitorReap
<1>34. ASSUME NEW i \in Ids, MonitorRecord(i) PROVE DeadInv'
  BY <1>34 DEF MonitorRecord
<1>35. ASSUME NEW i \in Ids, MonitorSettle(i) PROVE DeadInv'
  BY <1>35 DEF MonitorSettle
<1>36. ASSUME NEW i \in Ids, MonitorWaitError(i) PROVE DeadInv'
  BY <1>36 DEF MonitorWaitError
<1>37. ASSUME NEW i \in Ids, LeaderExits(i) PROVE DeadInv'
  BY <1>37 DEF LeaderExits
<1>38. ASSUME NEW i \in Ids, SpawnMember(i) PROVE DeadInv'
  BY <1>38 DEF SpawnMember
<1>39. ASSUME NEW i \in Ids, MembersExit(i) PROVE DeadInv'
  BY <1>39 DEF MembersExit
<1>40. ASSUME NEW i \in Ids, KillTakesEffect(i) PROVE DeadInv'
  BY <1>40 DEF KillTakesEffect
<1>41. CASE UNCHANGED vars
  BY <1>41 DEF vars
<1> HIDE DEF DeadInv
<1> QED
  BY <1>1, <1>2, <1>3, <1>4, <1>5, <1>6, <1>7, <1>8, <1>9, <1>10, <1>11, <1>12,
     <1>13, <1>14, <1>15, <1>16, <1>17, <1>18, <1>19, <1>20, <1>21, <1>22, <1>23,
     <1>24, <1>25, <1>26, <1>27, <1>28, <1>29, <1>30, <1>31, <1>32, <1>33, <1>34,
     <1>35, <1>36, <1>37, <1>38, <1>39, <1>40, <1>41
  DEF Next, Request, Handler, Stop, Start, PeriodicSync, Monitor, System, Agents

LEMMA NextStopIsTotal == TypeInv /\ StopIsTotal /\ [Next]_vars => StopIsTotal'
<1> SUFFICES ASSUME TypeInv, StopIsTotal, [Next]_vars PROVE StopIsTotal'
  OBVIOUS
<1> USE ConstantsAssumption
    DEF TypeInv, TypeOK, LocalInv, Holding, Born, Agents, Goto, Continue, Hold, Answer,
        Synced, SetStatus, Entry, LiveMembers, GroupExists, 
        regVars, proxyVars, osVars, reqVars, agentVars, StopIsTotal
<1>1. ASSUME NEW c \in Clients, StartRequest(c) PROVE StopIsTotal'
  BY <1>1 DEF StartRequest, Arrive
<1>2. ASSUME NEW c \in Clients, RestartRequest(c) PROVE StopIsTotal'
  BY <1>2 DEF RestartRequest, Arrive
<1>3. ASSUME NEW c \in Clients, ForceRequest(c) PROVE StopIsTotal'
  BY <1>3 DEF ForceRequest, Arrive
<1>4. ASSUME NEW c \in Clients, StopRequest(c) PROVE StopIsTotal'
  BY <1>4 DEF StopRequest, Arrive
<1>5. ASSUME NEW c \in Clients, CleanRequest(c) PROVE StopIsTotal'
  BY <1>5 DEF CleanRequest, Arrive
<1>6. ASSUME NEW c \in Clients, FindExisting(c) PROVE StopIsTotal'
  BY <1>6 DEF FindExisting
<1>7. ASSUME NEW c \in Clients, FindTarget(c) PROVE StopIsTotal'
  BY <1>7 DEF FindTarget
<1>8. ASSUME NEW c \in Clients, MarkStopping(c) PROVE StopIsTotal'
  BY <1>8 DEF MarkStopping
<1>9. ASSUME NEW c \in Clients, StoppedGracefully(c) PROVE StopIsTotal'
  BY <1>9 DEF StoppedGracefully
<1>10. ASSUME NEW c \in Clients, GraceExpires(c) PROVE StopIsTotal'
  BY <1>10 DEF GraceExpires
<1>11. ASSUME NEW c \in Clients, SendKill(c) PROVE StopIsTotal'
  BY <1>11 DEF SendKill
<1>12. ASSUME NEW c \in Clients, ConfirmStopped(c) PROVE StopIsTotal'
  BY <1>12 DEF ConfirmStopped
<1>13. ASSUME NEW c \in Clients, StopFails(c) PROVE StopIsTotal'
  BY <1>13 DEF StopFails
<1>14. ASSUME NEW c \in Clients, RetryForced(c) PROVE StopIsTotal'
  BY <1>14 DEF RetryForced
<1>15. ASSUME NEW c \in Clients, RemoveStopped(c) PROVE StopIsTotal'
  BY <1>15 DEF RemoveStopped, TakeOut
<1>16. ASSUME NEW c \in Clients, ReleaseStopped(c) PROVE StopIsTotal'
  BY <1>16 DEF ReleaseStopped, ReleaseName
<1>17. ASSUME NEW c \in Clients, StopDone(c) PROVE StopIsTotal'
  BY <1>17 DEF StopDone
<1>18. ASSUME NEW c \in Clients, FindSameName(c) PROVE StopIsTotal'
  BY <1>18 DEF FindSameName
<1>19. ASSUME NEW c \in Clients, Judge(c) PROVE StopIsTotal'
  BY <1>19 DEF Judge
<1>20. ASSUME NEW c \in Clients, RemoveFinished(c) PROVE StopIsTotal'
  BY <1>20 DEF RemoveFinished, TakeOut
<1>21. ASSUME NEW c \in Clients, ReleaseFinished(c) PROVE StopIsTotal'
  BY <1>21 DEF ReleaseFinished, ReleaseName
<1>22. ASSUME NEW c \in Clients, TryReserveName(c) PROVE StopIsTotal'
  BY <1>22 DEF TryReserveName
<1>23. ASSUME NEW c \in Clients, LaunchFails(c) PROVE StopIsTotal'
  BY <1>23 DEF LaunchFails
<1>24. ASSUME NEW c \in Clients, Launch(c) PROVE StopIsTotal'
  BY <1>24 DEF Launch
<1>25. ASSUME NEW c \in Clients, AddProcess(c) PROVE StopIsTotal'
  BY <1>25 DEF AddProcess
<1>26. ASSUME NEW c \in Clients, SpawnMonitor(c) PROVE StopIsTotal'
  BY <1>26 DEF SpawnMonitor
<1>27. ASSUME NEW c \in Clients, StartSync(c) PROVE StopIsTotal'
  BY <1>27 DEF StartSync, SyncCheck
<1>28. ASSUME NEW c \in Clients, StartSyncFails(c) PROVE StopIsTotal'
  BY <1>28 DEF StartSyncFails
<1>29. ASSUME NEW c \in Clients, Started(c) PROVE StopIsTotal'
  BY <1>29 DEF Started
<1>30. ASSUME NEW c \in Clients, Cancel(c) PROVE StopIsTotal'
  BY <1>30 DEF Cancel
<1>31. ASSUME NEW a \in Agents, SyncStore(a) PROVE StopIsTotal'
  BY <1>31 DEF SyncStore
<1>32. ASSUME NEW i \in Ids, PeriodicCheck(i) PROVE StopIsTotal'
  BY <1>32 DEF PeriodicCheck, SyncCheck
<1>33. ASSUME NEW i \in Ids, MonitorReap(i) PROVE StopIsTotal'
  BY <1>33 DEF MonitorReap
<1>34. ASSUME NEW i \in Ids, MonitorRecord(i) PROVE StopIsTotal'
  BY <1>34 DEF MonitorRecord
<1>35. ASSUME NEW i \in Ids, MonitorSettle(i) PROVE StopIsTotal'
  BY <1>35 DEF MonitorSettle
<1>36. ASSUME NEW i \in Ids, MonitorWaitError(i) PROVE StopIsTotal'
  BY <1>36 DEF MonitorWaitError
<1>37. ASSUME NEW i \in Ids, LeaderExits(i) PROVE StopIsTotal'
  BY <1>37 DEF LeaderExits
<1>38. ASSUME NEW i \in Ids, SpawnMember(i) PROVE StopIsTotal'
  BY <1>38 DEF SpawnMember
<1>39. ASSUME NEW i \in Ids, MembersExit(i) PROVE StopIsTotal'
  BY <1>39 DEF MembersExit
<1>40. ASSUME NEW i \in Ids, KillTakesEffect(i) PROVE StopIsTotal'
  BY <1>40 DEF KillTakesEffect
<1>41. CASE UNCHANGED vars
  BY <1>41 DEF vars
<1> HIDE DEF StopIsTotal
<1> QED
  BY <1>1, <1>2, <1>3, <1>4, <1>5, <1>6, <1>7, <1>8, <1>9, <1>10, <1>11, <1>12,
     <1>13, <1>14, <1>15, <1>16, <1>17, <1>18, <1>19, <1>20, <1>21, <1>22, <1>23,
     <1>24, <1>25, <1>26, <1>27, <1>28, <1>29, <1>30, <1>31, <1>32, <1>33, <1>34,
     <1>35, <1>36, <1>37, <1>38, <1>39, <1>40, <1>41
  DEF Next, Request, Handler, Stop, Start, PeriodicSync, Monitor, System, Agents

LEMMA NextNoLostLeader ==
  TypeInv /\ DeadInv /\ StopIsTotal /\ NoLostLeader /\ [Next]_vars => NoLostLeader'
<1> SUFFICES ASSUME TypeInv, DeadInv, StopIsTotal, NoLostLeader, [Next]_vars PROVE NoLostLeader'
  OBVIOUS
<1> USE ConstantsAssumption
    DEF TypeInv, TypeOK, LocalInv, Holding, Born, Agents, Goto, Continue, Hold, Answer,
        Synced, SetStatus, Entry, LiveMembers,
        regVars, proxyVars, osVars, reqVars, agentVars, StopIsTotal, DeadInv, Dead, NoLostLeader
<1>1. ASSUME NEW c \in Clients, StartRequest(c) PROVE NoLostLeader'
  BY <1>1 DEF StartRequest, Arrive
<1>2. ASSUME NEW c \in Clients, RestartRequest(c) PROVE NoLostLeader'
  BY <1>2 DEF RestartRequest, Arrive
<1>3. ASSUME NEW c \in Clients, ForceRequest(c) PROVE NoLostLeader'
  BY <1>3 DEF ForceRequest, Arrive
<1>4. ASSUME NEW c \in Clients, StopRequest(c) PROVE NoLostLeader'
  BY <1>4 DEF StopRequest, Arrive
<1>5. ASSUME NEW c \in Clients, CleanRequest(c) PROVE NoLostLeader'
  BY <1>5 DEF CleanRequest, Arrive
<1>6. ASSUME NEW c \in Clients, FindExisting(c) PROVE NoLostLeader'
  BY <1>6 DEF FindExisting
<1>7. ASSUME NEW c \in Clients, FindTarget(c) PROVE NoLostLeader'
  BY <1>7 DEF FindTarget
<1>8. ASSUME NEW c \in Clients, MarkStopping(c) PROVE NoLostLeader'
  BY <1>8 DEF MarkStopping
<1>9. ASSUME NEW c \in Clients, StoppedGracefully(c) PROVE NoLostLeader'
  BY <1>9 DEF StoppedGracefully
<1>10. ASSUME NEW c \in Clients, GraceExpires(c) PROVE NoLostLeader'
  BY <1>10 DEF GraceExpires
<1>11. ASSUME NEW c \in Clients, SendKill(c) PROVE NoLostLeader'
  BY <1>11 DEF SendKill
<1>12. ASSUME NEW c \in Clients, ConfirmStopped(c) PROVE NoLostLeader'
  BY <1>12 DEF ConfirmStopped
<1>13. ASSUME NEW c \in Clients, StopFails(c) PROVE NoLostLeader'
  BY <1>13 DEF StopFails
<1>14. ASSUME NEW c \in Clients, RetryForced(c) PROVE NoLostLeader'
  BY <1>14 DEF RetryForced
<1>15. ASSUME NEW c \in Clients, RemoveStopped(c) PROVE NoLostLeader'
  BY <1>15 DEF RemoveStopped, TakeOut
<1>16. ASSUME NEW c \in Clients, ReleaseStopped(c) PROVE NoLostLeader'
  BY <1>16 DEF ReleaseStopped, ReleaseName
<1>17. ASSUME NEW c \in Clients, StopDone(c) PROVE NoLostLeader'
  BY <1>17 DEF StopDone
<1>18. ASSUME NEW c \in Clients, FindSameName(c) PROVE NoLostLeader'
  BY <1>18 DEF FindSameName
<1>19. ASSUME NEW c \in Clients, Judge(c) PROVE NoLostLeader'
  BY <1>19 DEF Judge
<1>20. ASSUME NEW c \in Clients, RemoveFinished(c) PROVE NoLostLeader'
  BY <1>20 DEF RemoveFinished, TakeOut
<1>21. ASSUME NEW c \in Clients, ReleaseFinished(c) PROVE NoLostLeader'
  BY <1>21 DEF ReleaseFinished, ReleaseName
<1>22. ASSUME NEW c \in Clients, TryReserveName(c) PROVE NoLostLeader'
  BY <1>22 DEF TryReserveName
<1>23. ASSUME NEW c \in Clients, LaunchFails(c) PROVE NoLostLeader'
  BY <1>23 DEF LaunchFails
<1>24. ASSUME NEW c \in Clients, Launch(c) PROVE NoLostLeader'
  BY <1>24 DEF Launch
<1>25. ASSUME NEW c \in Clients, AddProcess(c) PROVE NoLostLeader'
  BY <1>25 DEF AddProcess
<1>26. ASSUME NEW c \in Clients, SpawnMonitor(c) PROVE NoLostLeader'
  BY <1>26 DEF SpawnMonitor
<1>27. ASSUME NEW c \in Clients, StartSync(c) PROVE NoLostLeader'
  BY <1>27 DEF StartSync, SyncCheck
<1>28. ASSUME NEW c \in Clients, StartSyncFails(c) PROVE NoLostLeader'
  BY <1>28 DEF StartSyncFails
<1>29. ASSUME NEW c \in Clients, Started(c) PROVE NoLostLeader'
  BY <1>29 DEF Started
<1>30. ASSUME NEW c \in Clients, Cancel(c) PROVE NoLostLeader'
  BY <1>30 DEF Cancel
<1>31. ASSUME NEW a \in Agents, SyncStore(a) PROVE NoLostLeader'
  BY <1>31 DEF SyncStore
<1>32. ASSUME NEW i \in Ids, PeriodicCheck(i) PROVE NoLostLeader'
  BY <1>32 DEF PeriodicCheck, SyncCheck
<1>33. ASSUME NEW i \in Ids, MonitorReap(i) PROVE NoLostLeader'
  BY <1>33 DEF MonitorReap
<1>34. ASSUME NEW i \in Ids, MonitorRecord(i) PROVE NoLostLeader'
  BY <1>34 DEF MonitorRecord
<1>35. ASSUME NEW i \in Ids, MonitorSettle(i) PROVE NoLostLeader'
  BY <1>35 DEF MonitorSettle
<1>36. ASSUME NEW i \in Ids, MonitorWaitError(i) PROVE NoLostLeader'
  BY <1>36 DEF MonitorWaitError
<1>37. ASSUME NEW i \in Ids, LeaderExits(i) PROVE NoLostLeader'
  BY <1>37 DEF LeaderExits
<1>38. ASSUME NEW i \in Ids, SpawnMember(i) PROVE NoLostLeader'
  BY <1>38 DEF SpawnMember
<1>39. ASSUME NEW i \in Ids, MembersExit(i) PROVE NoLostLeader'
  BY <1>39 DEF MembersExit
<1>40. ASSUME NEW i \in Ids, KillTakesEffect(i) PROVE NoLostLeader'
  BY <1>40 DEF KillTakesEffect
<1>41. CASE UNCHANGED vars
  BY <1>41 DEF vars
<1> HIDE DEF NoLostLeader
<1> QED
  BY <1>1, <1>2, <1>3, <1>4, <1>5, <1>6, <1>7, <1>8, <1>9, <1>10, <1>11, <1>12,
     <1>13, <1>14, <1>15, <1>16, <1>17, <1>18, <1>19, <1>20, <1>21, <1>22, <1>23,
     <1>24, <1>25, <1>26, <1>27, <1>28, <1>29, <1>30, <1>31, <1>32, <1>33, <1>34,
     <1>35, <1>36, <1>37, <1>38, <1>39, <1>40, <1>41
  DEF Next, Request, Handler, Stop, Start, PeriodicSync, Monitor, System, Agents

-----------------------------------------------------------------------------
LeaderInv == TypeInv /\ OwnerInv /\ DeadInv /\ StopIsTotal /\ NoLostLeader

LEMMA InitLeaderInv == Init => LeaderInv
<1>1. Init => NoLostLeader
  BY DEF Init, NoLostLeader
<1> QED BY <1>1, InitTypeInv, InitOwnerInv, InitDeadInv DEF LeaderInv

LEMMA NextLeaderInv == LeaderInv /\ [Next]_vars => LeaderInv'
  BY NextTypeInv, NextOwnerInv, NextDeadInv, NextStopIsTotal, NextNoLostLeader DEF LeaderInv

(* A live child is an entry or about to become one, and both own its name. *)
LEMMA LeadersOwnNames == LeaderInv => OneLeaderPerName
<1> SUFFICES ASSUME LeaderInv, NEW i \in Ids, NEW j \in Ids,
                    leader[i] = "alive", leader[j] = "alive", keyOf[i] = keyOf[j]
             PROVE  i = j
  BY DEF OneLeaderPerName
<1> USE DEF LeaderInv, TypeInv, LocalInv, OwnerInv, Disjoint, Claiming
<1>1. \A l \in {i, j} : \/ l \in processes
                        \/ \E c \in Clients : pc[c] = "register" /\ tgt[c] = l /\ key[c] = keyOf[l]
  BY DEF NoLostLeader
<1>2. CASE i \in processes /\ j \in processes
  BY <1>2
<1>3. CASE \E c \in Clients : pc[c] = "register" /\ tgt[c] = i /\ key[c] = keyOf[i]
  BY <1>1, <1>3
<1>4. CASE \E c \in Clients : pc[c] = "register" /\ tgt[c] = j /\ key[c] = keyOf[j]
  BY <1>1, <1>4
<1> QED BY <1>1, <1>2, <1>3, <1>4

(* No start and no stop drops the handle of a child that is alive
   (NoLostLeader; manager.rs:146-156, 504-513). *)
THEOREM LeadersTracked == Spec => []NoLostLeader
<1>1. LeaderInv => NoLostLeader
  BY DEF LeaderInv
<1> QED BY <1>1, InitLeaderInv, NextLeaderInv, PTL DEF Spec

(* A stop that takes its entry out has ended the whole process group
   (StopIsTotal; proxy.rs:143-238). *)
THEOREM StopsAreTotal == Spec => []StopIsTotal
<1>1. LeaderInv => StopIsTotal
  BY DEF LeaderInv
<1> QED BY <1>1, InitLeaderInv, NextLeaderInv, PTL DEF Spec

(* Two live children never have the same project and name
   (OneLeaderPerName; proxy.rs:65). *)
THEOREM LeadersUnique == Spec => []OneLeaderPerName
  BY InitLeaderInv, NextLeaderInv, LeadersOwnNames, PTL DEF Spec

=============================================================================
