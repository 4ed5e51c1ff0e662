------------------------- MODULE UpdateAgentProofs -------------------------
(***************************************************************************)
(* Proofs about UpdateAgent, for every set of schedules, requests, images  *)
(* and handlers, and every number of restarts.                             *)
(***************************************************************************)
EXTENDS UpdateAgent, FiniteSetTheorems, TLAPS

\* The executor is working on a schedule.
Busy == {"mark", "expire", "saveRun", "start", "hung", "fetch", "flash", "verify", "record",
         "clear", "set", "completed", "failed", "saveEnd"}

\* The task is updating or rolling back a slot.
OnSlot == {"fetch", "flash", "verify", "record", "clear", "set", "rbClear", "rbSet"}

(***************************************************************************)
(* What TypeOK needs to be inductive: a schedule that exists has a         *)
(* request, in memory and in the file; the executor's snapshot and its     *)
(* current schedule exist; a task at work on a slot has a slot, and one    *)
(* that flashes has a request.                                             *)
(***************************************************************************)
Known ==
  /\ \A i \in Ids : sched[i].status # "Absent" => sched[i].req \in Requests
  /\ \A i \in Ids : file[i].status # "Absent" => file[i].req \in Requests
  /\ \A i \in due : sched[i].status # "Absent"
  /\ pc[Exec] \in Busy => cur \in Ids /\ sched[cur].status # "Absent"
  /\ \A t \in Tasks : pc[t] \in OnSlot => job[t].slot \in Slots
  /\ \A t \in Tasks : pc[t] \in {"fetch", "flash", "verify"} => job[t].req \in Requests

TypeInv == TypeOK /\ Known

\* The number of the next start is a number.
LEMMA NextStartType == TypeOK => NextStart \in Nat
<1> SUFFICES ASSUME TypeOK PROVE NextStart \in Nat
  OBVIOUS
<1>1. IsFiniteSet({i \in Ids : sched[i].started > 0})
  BY AgentAssumption, FS_Subset, {i \in Ids : sched[i].started > 0} \subseteq Ids
<1>2. Cardinality({i \in Ids : sched[i].started > 0}) \in Nat
  BY <1>1, FS_CardinalityType
<1> QED
  BY <1>2 DEF NextStart

\* The state the agent starts in has its types.
LEMMA InitTypeInv == Init => TypeInv
<1> SUFFICES ASSUME Init PROVE TypeInv
  OBVIOUS
<1>1. TypeOK
  BY DiskAssumption, AgentAssumption
  DEF Init, TypeOK, StoreInit, StoreTypeOK, DiskInit, DiskTypeOK, Started, PCs, Job,
      NoJob, Slots, NoSlot, Bytes, Blocks, Empty, NoSchedule, Schedule, Status, Tasks, Exec, Sup
<1>2. Known
  BY AgentAssumption DEF Init, Known, StoreInit, Started, NoJob, Empty, NoSchedule, Busy, OnSlot, Tasks, Exec, Sup
<1> QED
  BY <1>1, <1>2 DEF TypeInv

\* What the operations of the schedule store leave in memory and in the file has its types.
LEMMA StoreTypes ==
  ASSUME TypeOK
  PROVE  /\ \A i \in Ids, r \in Requests : Insert(i, r) => sched' \in [Ids -> Schedule]
         /\ \A i \in Ids : Cancel(i) => sched' \in [Ids -> Schedule]
         /\ \A i \in Ids, st \in Status : UpdateStatus(i, st) => sched' \in [Ids -> Schedule]
         /\ \A i \in Ids : RegisterRollback(i) => sched' \in [Ids -> Schedule]
         /\ Persist => file' \in [Ids -> Schedule]
         /\ \A torn \in BOOLEAN : Reload(torn) => /\ sched' \in [Ids -> Schedule]
                                                 /\ file' \in [Ids -> Schedule]
<1> USE DEF TypeOK, StoreTypeOK
<1>0. Empty \in [Ids -> Schedule]
  BY DEF Empty, NoSchedule, Schedule, Status
<1>1. ASSUME NEW i \in Ids, NEW r \in Requests, Insert(i, r) PROVE sched' \in [Ids -> Schedule]
  <2>1. [NoSchedule EXCEPT !.status = "Pending", !.req = r] \in Schedule
    BY DEF NoSchedule, Schedule, Status
  <2> QED
    BY <1>1, <2>1 DEF Insert
<1>2. ASSUME NEW i \in Ids, Cancel(i) PROVE sched' \in [Ids -> Schedule]
  BY <1>2 DEF Cancel, Schedule, Status
<1>3. ASSUME NEW i \in Ids, NEW st \in Status, UpdateStatus(i, st) PROVE sched' \in [Ids -> Schedule]
  <2> DEFINE n == IF st = "Running" THEN NextStart ELSE sched[i].started
             e == [sched[i] EXCEPT !.status = st, !.started = n]
  <2>1. n \in Nat
    BY NextStartType DEF Schedule
  <2>2. e \in Schedule
    <3> HIDE DEF n
    <3> QED
      BY <2>1 DEF Schedule
  <2>3. sched' = [sched EXCEPT ![i] = e]
    BY <1>3 DEF UpdateStatus, Schedule
  <2> QED
    BY <2>2, <2>3
<1>4. ASSUME NEW i \in Ids, RegisterRollback(i) PROVE sched' \in [Ids -> Schedule]
  <2> DEFINE e == [sched[i] EXCEPT !.status = "RolledBack", !.rolled = TRUE]
  <2>1. e \in Schedule
    BY DEF Schedule, Status
  <2>2. sched' = [sched EXCEPT ![i] = e]
    BY <1>4 DEF RegisterRollback, Schedule
  <2> QED
    BY <2>1, <2>2
<1>5. ASSUME Persist PROVE file' \in [Ids -> Schedule]
  BY <1>0, <1>5 DEF Persist
<1>6. ASSUME NEW torn \in BOOLEAN, Reload(torn)
      PROVE  sched' \in [Ids -> Schedule] /\ file' \in [Ids -> Schedule]
  BY <1>0, <1>6 DEF Reload
<1> QED
  BY <1>1, <1>2, <1>3, <1>4, <1>5, <1>6

\* The jobs the tasks make have their types.
LEMMA JobTypes ==
  /\ NoJob \in Job
  /\ \A s \in Slots \cup {NoSlot} : [NoJob EXCEPT !.slot = s] \in Job
  /\ \A s \in Slots, r \in Requests : NewJob(s, r) \in Job
  /\ \A j \in Job, d \in Bytes : [j EXCEPT !.data = d, !.blk = 0] \in Job
  /\ \A j \in Job : [j EXCEPT !.full = TRUE] \in Job
<1>1. 0 \in 0 .. NBlocks /\ Junk \in Bytes
  BY DiskAssumption DEF Bytes
<1>2. \A r \in Requests : r.delta \in BOOLEAN
  BY StoreAssumption
<1> QED
  BY <1>1, <1>2 DEF Job, NoJob, NewJob

\* The inactive partition is a slot.
LEMMA InactiveType == InactivePartition \subseteq Slots
  BY DEF InactivePartition, Other, Slots

\* Every step of every task preserves the types.
LEMMA NextTypeOK == TypeInv /\ [Next]_vars => TypeOK'
<1> SUFFICES ASSUME TypeInv, [Next]_vars PROVE TypeOK'
  OBVIOUS
<1> USE DiskAssumption, AgentAssumption
    DEF TypeInv, TypeOK, StoreTypeOK, DiskTypeOK, Goto, At, Finish, storeVars, diskVars,
        Tasks, Exec, Sup, PCs
<1>0. NoJob \in Job
  BY JobTypes
<1>1. ASSUME NEW t \in Rpcs, RpcSchedule(t) PROVE TypeOK'
  BY <1>1, StoreTypes DEF RpcSchedule
<1>2. ASSUME NEW t \in Rpcs, RpcCancel(t) PROVE TypeOK'
  BY <1>2, StoreTypes DEF RpcCancel
<1>3. ASSUME NEW t \in Rpcs, RpcSave(t) PROVE TypeOK'
  BY <1>3, StoreTypes DEF RpcSave
<1>4. ASSUME NEW t \in Rpcs, RpcInstall(t) PROVE TypeOK'
  <2>1. job' \in [Tasks -> Job]
    <3>1. PICK s \in InactivePartition, r \in Requests : job' = [job EXCEPT ![t] = NewJob(s, r)]
      BY <1>4 DEF RpcInstall
    <3>2. NewJob(s, r) \in Job
      BY JobTypes, InactiveType
    <3> QED
      BY <3>1, <3>2
  <2> QED
    BY <1>4, <2>1 DEF RpcInstall
<1>5. ASSUME NEW t \in Rpcs, RpcDropped(t) PROVE TypeOK'
  BY <1>0, <1>5 DEF RpcDropped
<1>6. ASSUME NEW t \in Rpcs, RpcRollback(t) PROVE TypeOK'
  <2>1. job' \in [Tasks -> Job]
    BY <1>6, JobTypes DEF RpcRollback
  <2> QED
    BY <1>6, <2>1 DEF RpcRollback
<1>7. ASSUME NEW t \in Updaters, UpdateStep(t) PROVE TypeOK'
  <2> t \in Tasks
    BY DEF Updaters
  <2>0. ASSUME FlashFailed(t) PROVE job' \in [Tasks -> Job] /\ pc' \in [Tasks -> PCs]
    <3>1. job' \in [Tasks -> Job]
      <4>1. CASE job' = [job EXCEPT ![t].full = TRUE]
        <5>1. job' = [job EXCEPT ![t] = [job[t] EXCEPT !.full = TRUE]]
          BY <4>1
        <5> QED
          BY <5>1, JobTypes
      <4>2. CASE job' = [job EXCEPT ![t] = NoJob]
        BY <1>0, <4>2
      <4> QED
        BY <2>0, <4>1, <4>2 DEF FlashFailed
    <3>2. pc' \in [Tasks -> PCs]
      BY <2>0 DEF FlashFailed, Failed
    <3> QED
      BY <3>1, <3>2
  <2>1. CASE FetchFull(t)
    <3>1. job' \in [Tasks -> Job]
      <4>1. PICK d \in {job[t].req.image} \cup {Junk} :
              job' = [job EXCEPT ![t].data = d, ![t].blk = 0]
        BY <2>1 DEF FetchFull
      <4>2. d \in Bytes
        BY <2>1 DEF FetchFull, Known, Bytes
      <4>3. job' = [job EXCEPT ![t] = [job[t] EXCEPT !.data = d, !.blk = 0]]
        BY <4>1
      <4> QED
        BY <4>2, <4>3, JobTypes
    <3> QED
      BY <2>1, <3>1 DEF FetchFull
  <2>2. CASE FetchDelta(t)
    <3>1. job' \in [Tasks -> Job] /\ pc' \in [Tasks -> PCs]
      <4>1. CASE FlashFailed(t)
        BY <2>0, <4>1
      <4>2. CASE ~FlashFailed(t)
        <5> PICK a \in ActivePartition :
              /\ job' = [job EXCEPT ![t].data = Patch(a, job[t].req.base, job[t].req.image),
                                    ![t].blk = 0]
              /\ Goto(t, "flash")
          BY <2>2, <4>2 DEF FetchDelta
        <5>1. Patch(a, job[t].req.base, job[t].req.image) \in Bytes
          BY <2>2 DEF FetchDelta, Patch, Known, Bytes
        <5>2. job' \in [Tasks -> Job]
          BY <5>1 DEF Job
        <5> QED
          BY <5>2
      <4> QED
        BY <4>1, <4>2
    <3> QED
      BY <2>2, <3>1 DEF FetchDelta
  <2>3. CASE Flash(t)
    <3>1. job' \in [Tasks -> Job]
      BY <2>3 DEF Flash, Job
    <3>2. slot' \in [Slots -> [Blocks -> Bytes]]
      BY <2>3 DEF Flash, WriteBlock, Job
    <3> QED
      BY <2>3, <3>1, <3>2 DEF Flash
  <2>4. CASE FlashError(t)
    BY <2>0, <2>4 DEF FlashError
  <2>8. CASE FetchStalls(t)
    BY <2>8 DEF FetchStalls
  <2>5. CASE Verify(t)
    <3>1. job' \in [Tasks -> Job]
      BY <1>0, <2>5 DEF Verify
    <3> QED
      BY <2>5, <3>1 DEF Verify, Flashed, Failed
  <2>6. CASE SwitchClear(t, "clear", "set", Failed(t))
    <3>1. job' \in [Tasks -> Job]
      BY <1>0, <2>6 DEF SwitchClear
    <3> QED
      BY <2>6, <3>1 DEF SwitchClear, ClearBootFlag, Failed
  <2>7. CASE SwitchSet(t, "set", Updated(t), Failed(t))
    <3>1. job' \in [Tasks -> Job] /\ job[t].slot \in Slots
      BY <1>0, <2>7 DEF SwitchSet, Known, OnSlot
    <3> QED
      BY <2>7, <3>1 DEF SwitchSet, SetBootFlag, Updated, Failed
  <2> QED
    BY <1>7, <2>1, <2>2, <2>3, <2>4, <2>5, <2>6, <2>7, <2>8 DEF UpdateStep
<1>8. ASSUME NEW t \in Rpcs \cup {Sup}, RollbackStep(t) PROVE TypeOK'
  <2>1. CASE SwitchClear(t, "rbClear", "rbSet", Unrolled(t))
    <3>1. job' \in [Tasks -> Job]
      BY <1>0, <2>1 DEF SwitchClear
    <3> QED
      BY <2>1, <3>1 DEF SwitchClear, ClearBootFlag, Unrolled
  <2>2. CASE SwitchSet(t, "rbSet", "forget", Unrolled(t))
    <3>1. job' \in [Tasks -> Job] /\ job[t].slot \in Slots
      BY <1>0, <2>2 DEF SwitchSet, Known, OnSlot
    <3> QED
      BY <2>2, <3>1 DEF SwitchSet, SetBootFlag, Unrolled
  <2>3. CASE Forget(t)
    BY <2>3 DEF Forget, ForgetPrevious, Rolled, Unrolled
  <2> QED
    BY <1>8, <2>1, <2>2, <2>3 DEF RollbackStep
<1>9. CASE ExecPoll
  BY <1>9 DEF ExecPoll, Due
<1>10. CASE ExecNext
  BY <1>10 DEF ExecNext
<1>10a. CASE ExecMark
  <2>1. sched' \in [Ids -> Schedule]
    BY <1>10a, StoreTypes DEF ExecMark, Known, Busy, Status
  <2> QED
    BY <1>10a, <2>1 DEF ExecMark
<1>11. CASE ExecSaveRun
  BY <1>11, StoreTypes DEF ExecSaveRun
<1>12. CASE ExecStart
  <2>1. sched[cur].req \in Requests
    BY <1>12 DEF ExecStart, Known, Busy
  <2>2. job' \in [Tasks -> Job]
    <3>1. CASE UNCHANGED job
      BY <3>1
    <3>2. CASE \E s \in InactivePartition : job' = [job EXCEPT ![Exec] = NewJob(s, sched[cur].req)]
      <4>1. PICK s \in InactivePartition : job' = [job EXCEPT ![Exec] = NewJob(s, sched[cur].req)]
        BY <3>2
      <4>2. NewJob(s, sched[cur].req) \in Job
        BY <2>1, JobTypes, InactiveType
      <4> QED
        BY <4>1, <4>2
    <3> QED
      BY <1>12, <3>1, <3>2 DEF ExecStart
  <2>3. runs' \in [Ids -> Nat]
    BY <1>12 DEF ExecStart, Known, Busy
  <2> QED
    BY <1>12, <2>2, <2>3 DEF ExecStart
<1>13. CASE ExecHookHangs
  BY <1>13 DEF ExecHookHangs
<1>14. CASE ExecRecord
  <2>1. job' \in [Tasks -> Job]
    BY <1>0, <1>14 DEF ExecRecord
  <2>2. previous' \in Slots \cup {NoSlot}
    BY <1>14 DEF ExecRecord, RecordActive, ActivePartition, Slots
  <2> QED
    BY <1>14, <2>1, <2>2 DEF ExecRecord
<1>15. CASE ExecFinish
  <2>1. sched' \in [Ids -> Schedule]
    BY <1>15, StoreTypes DEF ExecFinish, Known, Busy, Status
  <2> QED
    BY <1>15, <2>1 DEF ExecFinish
<1>16. CASE ExecSaveEnd
  BY <1>16, StoreTypes DEF ExecSaveEnd
<1>17. CASE SupCheck \/ SupRebootFails
  BY <1>17 DEF SupCheck, SupRebootFails
<1>18. CASE SupRegister
  BY <1>18, StoreTypes DEF SupRegister, LatestActive, Active
<1>19. CASE SupSave
  BY <1>19, StoreTypes DEF SupSave
<1>20. CASE SupRollback
  <2>1. job' \in [Tasks -> Job]
    <3>1. [NoJob EXCEPT !.slot = previous] \in Job
      BY JobTypes
    <3> QED
      BY <1>20, <3>1 DEF SupRollback
  <2> QED
    BY <1>20, <2>1 DEF SupRollback
<1>21. ASSUME Restart, BootSlot \/ UNCHANGED booted PROVE TypeOK'
  <2>1. sched' \in [Ids -> Schedule] /\ file' \in [Ids -> Schedule]
    BY <1>21, StoreTypes DEF Restart
  <2>2. job' \in [Tasks -> Job] /\ pc' \in [Tasks -> PCs]
    BY <1>0, <1>21 DEF Restart, Started
  <2>3. booted' \in Slots \cup {NoSlot}
    BY <1>21 DEF BootSlot
  <2>4. previous' \in Slots \cup {NoSlot}
    BY <1>21 DEF Restart
  <2> QED
    BY <1>21, <2>1, <2>2, <2>3, <2>4 DEF Restart
<1>22. CASE AgentRestart \/ Reboot \/ SupReboot
  BY <1>21, <1>22 DEF AgentRestart, Reboot, SupReboot
<1>23. CASE Tick
  BY <1>23 DEF Tick, taskVars
<1>24. CASE UNCHANGED vars
  BY <1>24 DEF vars
<1> QED
  BY <1>1, <1>2, <1>3, <1>4, <1>5, <1>6, <1>7, <1>8, <1>9, <1>10, <1>10a, <1>11, <1>12,
     <1>13, <1>14, <1>15, <1>16, <1>17, <1>18, <1>19, <1>20, <1>22, <1>23, <1>24
  DEF Next, ExecStep, SupStep, RpcStep, RpcCall, Updaters

\* Every step preserves that a task at work has a schedule, a slot and a request.
LEMMA NextKnown == TypeInv /\ [Next]_vars => Known'
<1> SUFFICES ASSUME TypeInv, [Next]_vars PROVE Known'
  OBVIOUS
<1> USE AgentAssumption
    DEF TypeInv, TypeOK, StoreTypeOK, DiskTypeOK, Known, Goto, At, Finish, storeVars, diskVars,
        Tasks, Exec, Sup, Job, NoJob, Busy, OnSlot
<1>1. ASSUME NEW t \in Rpcs, RpcSchedule(t) PROVE Known'
  BY <1>1 DEF RpcSchedule, Insert, NoSchedule, Schedule, Status
<1>2. ASSUME NEW t \in Rpcs, RpcCancel(t) PROVE Known'
  BY <1>2 DEF RpcCancel, Cancel, Schedule, Status
<1>3. ASSUME NEW t \in Rpcs, RpcSave(t) PROVE Known'
  BY <1>3 DEF RpcSave, Persist, Schedule, Empty, NoSchedule
<1>4. ASSUME NEW t \in Rpcs, RpcInstall(t) PROVE Known'
  BY <1>4 DEF RpcInstall, NewJob, InactivePartition, Other, Slots, Bytes
<1>5. ASSUME NEW t \in Rpcs, RpcDropped(t) PROVE Known'
  BY <1>5 DEF RpcDropped, Bytes
<1>6. ASSUME NEW t \in Rpcs, RpcRollback(t) PROVE Known'
  BY <1>6 DEF RpcRollback, Bytes, Slots, NoSlot
<1>7. ASSUME NEW t \in Updaters, UpdateStep(t) PROVE Known'
  <2> t \in Tasks
    BY DEF Updaters
  <2>1. CASE FetchFull(t)
    BY <2>1 DEF FetchFull, Bytes
  <2>2. CASE FetchDelta(t)
    BY <2>2 DEF FetchDelta, FlashFailed, Patch, Failed, Bytes
  <2>3. CASE Flash(t)
    BY <2>3 DEF Flash, WriteBlock, Blocks
  <2>4. CASE FlashError(t)
    <3>1. \A u \in Tasks \ {t} : pc'[u] = pc[u] /\ job'[u] = job[u]
      BY <2>4 DEF FlashError, FlashFailed
    <3>2. CASE pc'[t] = "fetch" /\ job' = [job EXCEPT ![t].full = TRUE]
      <4>1. job'[t].slot = job[t].slot /\ job'[t].req = job[t].req
        BY <3>2
      <4>2. job[t].slot \in Slots /\ job[t].req \in Requests
        BY <2>4 DEF FlashError
      <4> QED
        BY <2>4, <3>1, <3>2, <4>1, <4>2 DEF FlashError
    <3>3. CASE pc'[t] = Failed(t)
      BY <2>4, <3>1, <3>3 DEF FlashError, Failed
    <3> QED
      BY <2>4, <3>2, <3>3 DEF FlashError, FlashFailed
  <2>8. CASE FetchStalls(t)
    BY <2>8 DEF FetchStalls
  <2>5. CASE Verify(t)
    <3>1. t = Exec \/ pc'[Exec] = pc[Exec]
      BY <2>5 DEF Verify
    <3>2. job'[t] = NoJob \/ job' = job
      BY <2>5 DEF Verify
    <3>3. pc'[t] \in {"failed", "idle", "record", "clear"}
      BY <2>5 DEF Verify, Failed, Flashed
    <3>4. \A u \in Tasks \ {t} : pc'[u] = pc[u] /\ job'[u] = job[u]
      BY <2>5 DEF Verify
    <3>5. pc'[t] \in OnSlot => job' = job
      BY <2>5 DEF Verify, Failed, Flashed
    <3> QED
      BY <2>5, <3>1, <3>3, <3>4, <3>5 DEF Verify
  <2>6. CASE SwitchClear(t, "clear", "set", Failed(t))
    BY <2>6 DEF SwitchClear, ClearBootFlag, Failed, Bytes
  <2>7. CASE SwitchSet(t, "set", Updated(t), Failed(t))
    BY <2>7 DEF SwitchSet, SetBootFlag, Updated, Failed, Bytes
  <2> QED
    BY <1>7, <2>1, <2>2, <2>3, <2>4, <2>5, <2>6, <2>7, <2>8 DEF UpdateStep
<1>8. ASSUME NEW t \in Rpcs \cup {Sup}, RollbackStep(t) PROVE Known'
  <2>1. CASE SwitchClear(t, "rbClear", "rbSet", Unrolled(t))
    BY <2>1 DEF SwitchClear, ClearBootFlag, Unrolled, Bytes
  <2>2. CASE SwitchSet(t, "rbSet", "forget", Unrolled(t))
    BY <2>2 DEF SwitchSet, SetBootFlag, Unrolled, Bytes
  <2>3. CASE Forget(t)
    BY <2>3 DEF Forget, ForgetPrevious, Rolled, Unrolled
  <2> QED
    BY <1>8, <2>1, <2>2, <2>3 DEF RollbackStep
<1>9. CASE ExecPoll
  BY <1>9 DEF ExecPoll, Due
<1>10. CASE ExecNext
  BY <1>10 DEF ExecNext
<1>10a. CASE ExecMark
  <2>1. \A j \in Ids : /\ sched'[j].status # "Absent" <=> sched[j].status # "Absent"
                       /\ sched'[j].req = sched[j].req
    <3>1. PICK st \in {"Running", "Failed"} : UpdateStatus(cur, st)
      BY <1>10a DEF ExecMark
    <3>2. cur \in Ids /\ sched[cur].status # "Absent"
      BY <1>10a DEF ExecMark
    <3> QED
      BY <3>1, <3>2 DEF UpdateStatus, Schedule
  <2> QED
    BY <1>10a, <2>1 DEF ExecMark
<1>11. CASE ExecSaveRun
  BY <1>11 DEF ExecSaveRun, Persist, Schedule, Empty, NoSchedule
<1>12. CASE ExecStart
  BY <1>12 DEF ExecStart, NewJob, InactivePartition, Other, Slots, Bytes
<1>13. CASE ExecHookHangs
  BY <1>13 DEF ExecHookHangs
<1>14. CASE ExecRecord
  BY <1>14 DEF ExecRecord, RecordActive, ActivePartition, Slots, Bytes
<1>15. CASE ExecFinish
  BY <1>15, NextStartType DEF ExecFinish, UpdateStatus, Schedule, Status
<1>16. CASE ExecSaveEnd
  BY <1>16 DEF ExecSaveEnd, Persist, Schedule, Empty, NoSchedule
<1>17. CASE SupCheck \/ SupRebootFails
  BY <1>17 DEF SupCheck, SupRebootFails
<1>18. CASE SupRegister
  <2>1. \A j \in Ids : /\ sched'[j].status # "Absent" <=> sched[j].status # "Absent"
                       /\ sched'[j].req = sched[j].req
    <3>1. CASE LatestActive = {} /\ UNCHANGED sched
      BY <3>1
    <3>2. ASSUME NEW i \in LatestActive, RegisterRollback(i)
          PROVE  \A j \in Ids : /\ sched'[j].status # "Absent" <=> sched[j].status # "Absent"
                                /\ sched'[j].req = sched[j].req
      BY <3>2 DEF RegisterRollback, LatestActive, Active, Schedule
    <3> QED
      BY <1>18, <3>1, <3>2 DEF SupRegister
  <2> QED
    BY <1>18, <2>1 DEF SupRegister
<1>19. CASE SupSave
  BY <1>19 DEF SupSave, Persist, Schedule, Empty, NoSchedule
<1>20. CASE SupRollback
  BY <1>20 DEF SupRollback, Bytes
<1>21. ASSUME Restart, BootSlot \/ UNCHANGED booted PROVE Known'
  BY <1>21 DEF Restart, Reload, BootSlot, Started, Schedule, Empty, NoSchedule, Status, Bytes
<1>22. CASE AgentRestart \/ Reboot \/ SupReboot
  BY <1>21, <1>22 DEF AgentRestart, Reboot, SupReboot
<1>23. CASE Tick
  BY <1>23 DEF Tick, taskVars
<1>24. CASE UNCHANGED vars
  BY <1>24 DEF vars
<1> QED
  BY <1>1, <1>2, <1>3, <1>4, <1>5, <1>6, <1>7, <1>8, <1>9, <1>10, <1>10a, <1>11, <1>12,
     <1>13, <1>14, <1>15, <1>16, <1>17, <1>18, <1>19, <1>20, <1>22, <1>23, <1>24
  DEF Next, ExecStep, SupStep, RpcStep, RpcCall, Updaters

\* Every step preserves the strengthened type invariant.
LEMMA NextTypeInv == TypeInv /\ [Next]_vars => TypeInv'
  BY NextTypeOK, NextKnown DEF TypeInv

(***************************************************************************)
(* Type correctness: every task stays at a label of its code, with a job   *)
(* whose slot, request and block count fit, whatever tasks, crashes and    *)
(* reboots interleave.                                                     *)
(***************************************************************************)
THEOREM TypeCorrect == Spec => []TypeOK
<1>1. TypeInv => TypeOK
  BY DEF TypeInv
<1> QED
  BY InitTypeInv, NextTypeInv, <1>1, PTL DEF Spec
-----------------------------------------------------------------------------

\* Where a task is about to save the table.
Saves == {"save", "saveRun", "saveEnd"}

\* Where the executor is about to change a schedule of its snapshot or to start it.
Starts == {"mark", "expire", "start"}

\* Work on the slots leaves the table, the file and the executor's bookkeeping
\* alone, and concerns one task.
LEMMA DiskStepFrame ==
  ASSUME TypeInv, NEW t \in Tasks, UpdateStep(t) \/ RollbackStep(t)
  PROVE  /\ UNCHANGED <<sched, file, now, booted, due, cur, issued, runs, restarts>>
         /\ \A u \in Tasks \ {t} : pc'[u] = pc[u] /\ job'[u] = job[u]
         /\ pc[t] \notin Saves \cup Starts
         /\ pc'[t] \notin Saves \cup Starts
<1> USE DEF TypeInv, TypeOK, Goto, At, Finish, storeVars, diskVars, Saves, Starts
<1>1. CASE FetchFull(t)
  BY <1>1 DEF FetchFull
<1>2. CASE FetchDelta(t)
  BY <1>2 DEF FetchDelta, FlashFailed, Failed
<1>3. CASE Flash(t)
  BY <1>3 DEF Flash
<1>4. CASE FlashError(t)
  BY <1>4 DEF FlashError, FlashFailed, Failed
<1>9. CASE FetchStalls(t)
  BY <1>9 DEF FetchStalls
<1>5. CASE Verify(t)
  BY <1>5 DEF Verify, Failed, Flashed
<1>6. ASSUME NEW l \in {"clear", "rbClear"}, NEW n \in {"set", "rbSet"},
             SwitchClear(t, l, n, Failed(t)) \/ SwitchClear(t, l, n, Unrolled(t))
      PROVE  /\ UNCHANGED <<sched, file, now, booted, due, cur, issued, runs, restarts>>
             /\ \A u \in Tasks \ {t} : pc'[u] = pc[u] /\ job'[u] = job[u]
             /\ pc[t] \notin Saves \cup Starts
             /\ pc'[t] \notin Saves \cup Starts
  BY <1>6 DEF SwitchClear, Failed, Unrolled
<1>7. ASSUME SwitchSet(t, "set", Updated(t), Failed(t)) \/ SwitchSet(t, "rbSet", "forget", Unrolled(t))
      PROVE  /\ UNCHANGED <<sched, file, now, booted, due, cur, issued, runs, restarts>>
             /\ \A u \in Tasks \ {t} : pc'[u] = pc[u] /\ job'[u] = job[u]
             /\ pc[t] \notin Saves \cup Starts
             /\ pc'[t] \notin Saves \cup Starts
  BY <1>7 DEF SwitchSet, Failed, Updated, Unrolled
<1>8. CASE Forget(t)
  BY <1>8 DEF Forget, Rolled, Unrolled
<1> QED
  BY <1>1, <1>2, <1>3, <1>4, <1>5, <1>6, <1>7, <1>8, <1>9 DEF UpdateStep, RollbackStep

\* Neither the table nor the file knows an id that was not handed out.
Fresh == \A i \in Ids \ issued : sched[i] = NoSchedule /\ file[i] = NoSchedule

\* The executor or the supervisor is about to save its change.
OwnSaving == pc[Exec] \in {"saveRun", "saveEnd"} \/ pc[Sup] = "save"

\* A step that changes no schedule, hands out no id and moves neither the
\* executor nor the supervisor away from a save leaves the file as good as it was.
LEMMA SavedFrame ==
  ASSUME Fresh, SavedWhenQuiet, UNCHANGED <<sched, file, issued>>, OwnSaving => OwnSaving'
  PROVE  Fresh' /\ SavedWhenQuiet'
  BY DEF Fresh, SavedWhenQuiet, ClientsOnly, OwnSaving

\* A change of a schedule that exists, made by a task that goes on to save it,
\* does not concern ids that were not handed out.
LEMMA SavedLater ==
  ASSUME TypeInv, Fresh, NEW i \in Ids, sched[i].status # "Absent",
         \A j \in Ids \ {i} : sched'[j] = sched[j], UNCHANGED <<file, issued>>, OwnSaving'
  PROVE  Fresh' /\ SavedWhenQuiet'
<1>1. i \in issued
  BY DEF Fresh, NoSchedule
<1>2. Fresh'
  BY <1>1 DEF Fresh
<1>3. SavedWhenQuiet'
  BY DEF SavedWhenQuiet, OwnSaving
<1> QED
  BY <1>2, <1>3

\* Every step preserves that the file lacks only what clients did, and that
\* ids not handed out are unknown.
LEMMA NextSaved ==
  ASSUME ~PersistFaults, TypeInv, Fresh, SavedWhenQuiet, [Next]_vars
  PROVE  Fresh' /\ SavedWhenQuiet'
<1> USE AgentAssumption DEF TypeInv, TypeOK, StoreTypeOK, Goto, At, Finish, storeVars,
        diskVars, Tasks, Exec, Sup
<1>1. ASSUME Persist, UNCHANGED <<sched, issued>> PROVE Fresh' /\ SavedWhenQuiet'
  BY <1>1 DEF Persist, Fresh, SavedWhenQuiet
<1>2. ASSUME NEW t \in Tasks, UpdateStep(t) \/ RollbackStep(t) PROVE Fresh' /\ SavedWhenQuiet'
  BY <1>2, DiskStepFrame, SavedFrame DEF Saves, Starts, OwnSaving
<1>3. ASSUME NEW t \in Rpcs, RpcSchedule(t) PROVE Fresh' /\ SavedWhenQuiet'
  <2>1. PICK i \in Ids \ issued : /\ issued' = issued \cup {i}
                                 /\ sched'[i].status = "Pending"
                                 /\ \A j \in Ids \ {i} : sched'[j] = sched[j]
    BY <1>3 DEF RpcSchedule, Insert, NoSchedule, Schedule
  <2>2. UNCHANGED file /\ pc'[Exec] = pc[Exec] /\ pc'[Sup] = pc[Sup]
    BY <1>3 DEF RpcSchedule
  <2>3. Fresh'
    BY <2>1, <2>2 DEF Fresh
  <2>4. SavedWhenQuiet'
    BY <2>1, <2>2 DEF Fresh, SavedWhenQuiet, ClientsOnly
  <2> QED
    BY <2>3, <2>4
<1>4. ASSUME NEW t \in Rpcs, RpcCancel(t) PROVE Fresh' /\ SavedWhenQuiet'
  <2>1. PICK i \in Ids : /\ sched[i].status = "Pending"
                         /\ sched' = [sched EXCEPT ![i].status = "Cancelled"]
    BY <1>4 DEF RpcCancel, Cancel
  <2>2. /\ sched'[i].status = "Cancelled"
        /\ [sched'[i] EXCEPT !.status = "Pending"] = sched[i]
        /\ \A j \in Ids \ {i} : sched'[j] = sched[j]
    BY <2>1 DEF Schedule
  <2>3. UNCHANGED <<file, issued>> /\ pc'[Exec] = pc[Exec] /\ pc'[Sup] = pc[Sup]
    BY <1>4 DEF RpcCancel
  <2>4. i \in issued
    BY <2>1 DEF Fresh, NoSchedule
  <2>5. Fresh'
    BY <2>2, <2>3, <2>4 DEF Fresh
  <2>6. SavedWhenQuiet'
    <3>1. ClientsOnly(i)' \/ ~(file[i] = sched[i] \/ ClientsOnly(i))
      BY <2>1, <2>2, <2>3 DEF ClientsOnly
    <3>2. ASSUME NEW j \in Ids \ {i}
          PROVE  file[j] = sched[j] \/ ClientsOnly(j)
                   => file'[j] = sched'[j] \/ ClientsOnly(j)'
      BY <2>2, <2>3 DEF ClientsOnly
    <3> QED
      BY <2>3, <3>1, <3>2 DEF SavedWhenQuiet
  <2> QED
    BY <2>5, <2>6
<1>5. ASSUME NEW t \in Rpcs, RpcSave(t) PROVE Fresh' /\ SavedWhenQuiet'
  BY <1>1, <1>5 DEF RpcSave
<1>6. ASSUME NEW t \in Rpcs, RpcInstall(t) \/ RpcDropped(t) \/ RpcRollback(t)
      PROVE  Fresh' /\ SavedWhenQuiet'
  BY <1>6, SavedFrame DEF RpcInstall, RpcDropped, RpcRollback, OwnSaving
<1>7. CASE ExecMark \/ ExecFinish
  <2>1. cur \in Ids /\ sched[cur].status # "Absent"
    BY <1>7 DEF ExecMark, ExecFinish, Known, Busy
  <2>2. \A j \in Ids \ {cur} : sched'[j] = sched[j]
    BY <1>7 DEF ExecMark, ExecFinish, UpdateStatus
  <2>3. UNCHANGED <<file, issued>> /\ OwnSaving'
    BY <1>7 DEF ExecMark, ExecFinish, OwnSaving
  <2> QED
    BY <2>1, <2>2, <2>3, SavedLater
<1>8. CASE ExecSaveRun \/ ExecSaveEnd \/ SupSave
  BY <1>1, <1>8 DEF ExecSaveRun, ExecSaveEnd, SupSave
<1>9. CASE ExecPoll \/ ExecNext \/ ExecStart \/ ExecHookHangs \/ ExecRecord
  BY <1>9, SavedFrame DEF ExecPoll, ExecNext, ExecStart, ExecHookHangs, ExecRecord, OwnSaving
<1>10. CASE SupCheck \/ SupRollback \/ SupRebootFails
  BY <1>10, SavedFrame DEF SupCheck, SupRollback, SupRebootFails, OwnSaving
<1>11. CASE SupRegister
  <2>1. CASE UNCHANGED sched
    BY <1>11, <2>1, SavedFrame DEF SupRegister, OwnSaving
  <2>2. ASSUME NEW i \in LatestActive, RegisterRollback(i), Goto(Sup, "save")
        PROVE  Fresh' /\ SavedWhenQuiet'
    <3>1. i \in Ids /\ sched[i].status # "Absent"
      BY DEF LatestActive, Active
    <3>2. \A j \in Ids \ {i} : sched'[j] = sched[j]
      BY <2>2 DEF RegisterRollback
    <3>3. UNCHANGED <<file, issued>> /\ OwnSaving'
      BY <1>11, <2>2 DEF SupRegister, OwnSaving
    <3> QED
      BY <3>1, <3>2, <3>3, SavedLater
  <2> QED
    BY <1>11, <2>1, <2>2 DEF SupRegister
<1>12. CASE AgentRestart \/ Reboot \/ SupReboot
  <2>1. sched' = file' /\ (file' = file \/ file' = Empty) /\ UNCHANGED issued
    BY <1>12 DEF AgentRestart, Reboot, SupReboot, Restart, Reload
  <2> QED
    BY <2>1 DEF Fresh, SavedWhenQuiet, Empty
<1>13. CASE Tick \/ UNCHANGED vars
  BY <1>13, SavedFrame DEF Tick, taskVars, vars, OwnSaving
<1> QED
  BY <1>2, <1>3, <1>4, <1>5, <1>6, <1>7, <1>8, <1>9, <1>10, <1>11, <1>12, <1>13
  DEF Next, ExecStep, SupStep, RpcStep, RpcCall

(***************************************************************************)
(* As long as the file can be written, it falls behind the table only by   *)
(* what clients did in calls not yet saved, or dropped before their save;  *)
(* what the executor and the supervisor decide is saved before they go on. *)
(***************************************************************************)
THEOREM SavedSafe == ASSUME ~PersistFaults PROVE Spec => []SavedWhenQuiet
<1>1. Init => Fresh /\ SavedWhenQuiet
  BY DEF Init, StoreInit, Empty, Fresh, SavedWhenQuiet
<1>2. TypeInv /\ Fresh /\ SavedWhenQuiet /\ [Next]_vars => Fresh' /\ SavedWhenQuiet'
  BY NextSaved
<1> QED
  BY <1>1, <1>2, InitTypeInv, NextTypeInv, PTL DEF Spec

-----------------------------------------------------------------------------

(***************************************************************************)
(* What AtMostOnce needs to be inductive: an id that is Pending anywhere,  *)
(* in the snapshot or current has been handed out; an execution that was   *)
(* started never looks due again, not even to an agent that reloads the    *)
(* file; the executor is about to start a schedule only when it has left   *)
(* Pending in the table and, once saved, in the file.                      *)
(***************************************************************************)
Once(i) ==
  /\ runs[i] <= 1
  /\ runs[i] = 1 => /\ i \in issued
                    /\ i \notin due
                    /\ sched[i].status # "Pending"
                    /\ file[i].status # "Pending"
  /\ i \notin issued => /\ i \notin due
                        /\ sched[i].status # "Pending"
                        /\ file[i].status # "Pending"

Starting ==
  /\ pc[Exec] \in {"mark", "saveRun", "start"} => /\ cur \in issued
                                                  /\ cur \notin due
                                                  /\ runs[cur] = 0
  /\ pc[Exec] \in {"saveRun", "start"} => sched[cur].status # "Pending"
  /\ pc[Exec] = "start" => file[cur].status # "Pending"

OnceInv == (\A i \in Ids : Once(i)) /\ Starting

\* Every step preserves that a schedule is started once.
LEMMA NextOnce ==
  ASSUME ~PersistFaults, TypeInv, OnceInv, [Next]_vars
  PROVE  OnceInv'
<1> USE AgentAssumption DEF TypeInv, TypeOK, StoreTypeOK, OnceInv, Once, Starting, Goto, At, Finish,
        storeVars, diskVars, Tasks, Exec, Sup
<1>1. ASSUME Persist PROVE file' = sched
  BY <1>1 DEF Persist
<1>2. ASSUME NEW t \in Tasks, UpdateStep(t) \/ RollbackStep(t) PROVE OnceInv'
  BY <1>2, DiskStepFrame DEF Saves, Starts
<1>3. ASSUME NEW t \in Rpcs, RpcSchedule(t) PROVE OnceInv'
  <2>1. PICK i \in Ids \ issued : /\ issued' = issued \cup {i}
                                 /\ \A j \in Ids \ {i} : sched'[j] = sched[j]
    BY <1>3 DEF RpcSchedule, Insert
  <2>2. \A j \in Ids : Once(j)'
    BY <1>3, <2>1 DEF RpcSchedule
  <2>3. Starting'
    BY <1>3, <2>1 DEF RpcSchedule, Known, Busy
  <2> QED
    BY <2>2, <2>3
<1>4. ASSUME NEW t \in Rpcs, RpcCancel(t) PROVE OnceInv'
  <2>1. \A j \in Ids : sched'[j].status = "Pending" => sched[j].status = "Pending"
    BY <1>4 DEF RpcCancel, Cancel, Schedule
  <2> QED
    BY <1>4, <2>1 DEF RpcCancel, Known, Busy
<1>5. ASSUME NEW t \in Rpcs, RpcSave(t) PROVE OnceInv'
  BY <1>1, <1>5 DEF RpcSave
<1>6. ASSUME NEW t \in Rpcs, RpcInstall(t) \/ RpcDropped(t) \/ RpcRollback(t)
      PROVE  OnceInv'
  BY <1>6 DEF RpcInstall, RpcDropped, RpcRollback
<1>7. CASE ExecPoll
  BY <1>7 DEF ExecPoll, Due
<1>8. CASE ExecNext
  <2>1. PICK i \in due : /\ due' = due \ {i}
                         /\ cur' = i
                         /\ pc'[Exec] \in {"mark", "expire"}
    BY <1>8 DEF ExecNext
  <2>2. UNCHANGED <<sched, file, issued, runs>>
    BY <1>8 DEF ExecNext
  <2> QED
    BY <2>1, <2>2
<1>8a. CASE ExecMark
  <2>1. cur \in Ids /\ \E st \in {"Running", "Failed"} : UpdateStatus(cur, st)
    BY <1>8a DEF ExecMark, Known, Busy
  <2>2. /\ sched'[cur].status # "Pending"
        /\ \A j \in Ids \ {cur} : sched'[j] = sched[j]
    BY <2>1 DEF UpdateStatus, Schedule
  <2>3. /\ pc'[Exec] \in {"saveRun", "saveEnd"}
        /\ pc'[Exec] = "saveRun" => pc[Exec] = "mark"
        /\ UNCHANGED <<file, due, cur, issued, runs>>
    BY <1>8a DEF ExecMark
  <2>4. \A j \in Ids : Once(j)'
    BY <2>1, <2>2, <2>3
  <2>5. Starting'
    BY <2>1, <2>2, <2>3
  <2> QED
    BY <2>4, <2>5
<1>9. CASE ExecSaveRun
  BY <1>1, <1>9 DEF ExecSaveRun, Known, Busy
<1>10. CASE ExecStart
  <2>1. cur \in Ids /\ runs' = [runs EXCEPT ![cur] = 1]
    BY <1>10 DEF ExecStart, Known, Busy
  <2> QED
    BY <1>10, <2>1 DEF ExecStart
<1>11. CASE ExecHookHangs \/ ExecRecord
  BY <1>11 DEF ExecHookHangs, ExecRecord
<1>12. CASE ExecFinish
  <2>1. cur \in Ids
    BY <1>12 DEF ExecFinish, Known, Busy
  <2>2. \A j \in Ids : sched'[j].status = "Pending" => sched[j].status = "Pending"
    BY <1>12, <2>1 DEF ExecFinish, UpdateStatus, Schedule
  <2> QED
    BY <1>12, <2>2 DEF ExecFinish
<1>13. CASE ExecSaveEnd
  BY <1>1, <1>13 DEF ExecSaveEnd
<1>14. CASE SupCheck \/ SupRollback \/ SupRebootFails
  BY <1>14 DEF SupCheck, SupRollback, SupRebootFails
<1>15. CASE SupRegister
  <2>1. \A j \in Ids : sched'[j].status = "Pending" => sched[j].status = "Pending"
    <3>1. ASSUME NEW i \in Ids, RegisterRollback(i)
          PROVE  \A j \in Ids : sched'[j].status = "Pending" => sched[j].status = "Pending"
      BY <3>1 DEF RegisterRollback, Schedule
    <3> QED
      BY <1>15, <3>1 DEF SupRegister, LatestActive, Active
  <2> QED
    BY <1>15, <2>1 DEF SupRegister, Known, Busy
<1>16. CASE SupSave
  BY <1>1, <1>16 DEF SupSave
<1>17. CASE AgentRestart \/ Reboot \/ SupReboot
  <2>1. \A j \in Ids : /\ sched'[j].status = "Pending" => file[j].status = "Pending"
                       /\ file'[j].status = "Pending" => file[j].status = "Pending"
    BY <1>17 DEF AgentRestart, Reboot, SupReboot, Restart, Reload, Empty, NoSchedule
  <2>2. due' = {} /\ UNCHANGED <<issued, runs>> /\ pc'[Exec] = "idle"
    BY <1>17 DEF AgentRestart, Reboot, SupReboot, Restart, Started
  <2> QED
    BY <2>1, <2>2
<1>18. CASE Tick \/ UNCHANGED vars
  BY <1>18 DEF Tick, taskVars, vars
<1> QED
  BY <1>2, <1>3, <1>4, <1>5, <1>6, <1>7, <1>8, <1>8a, <1>9, <1>10, <1>11, <1>12, <1>13,
     <1>14, <1>15, <1>16, <1>17, <1>18
  DEF Next, ExecStep, SupStep, RpcStep, RpcCall

(***************************************************************************)
(* As long as the file can be written, no schedule is executed twice:      *)
(* Running is saved before execute_scheduled_update begins, so neither the *)
(* next poll nor an agent or a node that restarts finds it due.            *)
(***************************************************************************)
THEOREM AtMostOnceSafe == ASSUME ~PersistFaults PROVE Spec => []AtMostOnce
<1>1. Init => OnceInv
  BY DEF Init, StoreInit, Started, Empty, NoSchedule, OnceInv, Once, Starting, Tasks, Exec, Sup
<1>2. TypeInv /\ OnceInv /\ [Next]_vars => OnceInv'
  BY NextOnce
<1>3. OnceInv => AtMostOnce
  BY DEF OnceInv, Once, AtMostOnce
<1> QED
  BY <1>1, <1>2, <1>3, InitTypeInv, NextTypeInv, PTL DEF Spec

-----------------------------------------------------------------------------

\* A task that writes, or is about to, writes to the slot not booted.
Writing == {"fetch", "flash", "verify"}

SlotInv == \A t \in Updaters : pc[t] \in Writing => job[t].slot = Other(booted)

\* Every step preserves that no task is about to write to the running slot.
LEMMA NextSlotInv ==
  ASSUME ~ActiveFallback, TypeInv, SlotInv, [Next]_vars
  PROVE  SlotInv'
<1> USE AgentAssumption DEF TypeInv, TypeOK, SlotInv, Writing, Goto, At, Finish, Updaters,
        storeVars, diskVars, Tasks, Exec, Sup
<1>1. InactivePartition = {Other(booted)}
  BY DEF InactivePartition, ActivePartition
<1>2. ASSUME NEW t \in Updaters, UpdateStep(t) PROVE SlotInv'
  <2>1. /\ booted' = booted
        /\ \A u \in Tasks \ {t} : pc'[u] = pc[u] /\ job'[u] = job[u]
    BY <1>2, DiskStepFrame
  <2>2. pc'[t] \in Writing => pc[t] \in Writing /\ job'[t].slot = job[t].slot
    <3> t \in Tasks
      OBVIOUS
    <3>1. CASE FetchFull(t)
      <4>1. PICK d : job' = [job EXCEPT ![t].data = d, ![t].blk = 0]
        BY <3>1 DEF FetchFull
      <4> QED
        BY <3>1, <4>1 DEF FetchFull, Job
    <3>2. CASE FetchDelta(t)
      BY <3>2 DEF FetchDelta, FlashFailed, Failed, Job
    <3>3. CASE FlashError(t)
      BY <3>3 DEF FlashError, FlashFailed, Failed, Job
    <3>4. CASE Verify(t)
      BY <3>4 DEF Verify, Failed, Flashed
    <3>5. CASE SwitchClear(t, "clear", "set", Failed(t))
      BY <3>5 DEF SwitchClear, Failed
    <3>6. CASE SwitchSet(t, "set", Updated(t), Failed(t))
      BY <3>6 DEF SwitchSet, Failed, Updated
    <3>7. CASE Flash(t)
      BY <3>7 DEF Flash, Job
    <3>8. CASE FetchStalls(t)
      BY <3>8 DEF FetchStalls
    <3> QED
      BY <1>2, <3>1, <3>2, <3>3, <3>4, <3>5, <3>6, <3>7, <3>8 DEF UpdateStep
  <2> QED
    BY <2>1, <2>2
<1>3. ASSUME NEW t \in Rpcs \cup {Sup}, RollbackStep(t) PROVE SlotInv'
  <2>1. /\ booted' = booted
        /\ \A u \in Tasks \ {t} : pc'[u] = pc[u] /\ job'[u] = job[u]
    BY <1>3, DiskStepFrame
  <2>2. pc'[t] \notin Writing
    BY <1>3 DEF RollbackStep, SwitchClear, SwitchSet, Forget, Rolled, Unrolled
  <2> QED
    BY <2>1, <2>2
<1>4. ASSUME NEW t \in Rpcs, RpcSchedule(t) \/ RpcCancel(t) \/ RpcSave(t) PROVE SlotInv'
  BY <1>4 DEF RpcSchedule, RpcCancel, RpcSave
<1>5. ASSUME NEW t \in Rpcs, RpcInstall(t) PROVE SlotInv'
  <2>1. PICK r \in Requests : job' = [job EXCEPT ![t] = NewJob(Other(booted), r)]
    BY <1>1, <1>5 DEF RpcInstall
  <2> QED
    BY <1>5, <2>1 DEF RpcInstall, NewJob
<1>6. ASSUME NEW t \in Rpcs, RpcDropped(t) \/ RpcRollback(t) PROVE SlotInv'
  BY <1>6 DEF RpcDropped, RpcRollback
<1>7. CASE ExecPoll \/ ExecNext \/ ExecMark \/ ExecSaveRun
  BY <1>7 DEF ExecPoll, ExecNext, ExecMark, ExecSaveRun
<1>8. CASE ExecStart
  <2>1. CASE job' = [job EXCEPT ![Exec] = NewJob(Other(booted), sched[cur].req)]
    BY <1>8, <2>1 DEF ExecStart, NewJob
  <2>2. CASE Goto(Exec, "failed") /\ UNCHANGED job
    BY <1>8, <2>2 DEF ExecStart
  <2> QED
    BY <1>1, <1>8, <2>1, <2>2 DEF ExecStart
<1>9. CASE ExecHookHangs \/ ExecRecord
  BY <1>9 DEF ExecHookHangs, ExecRecord
<1>10. CASE ExecFinish \/ ExecSaveEnd
  BY <1>10 DEF ExecFinish, ExecSaveEnd
<1>11. CASE SupCheck \/ SupRegister \/ SupSave \/ SupRollback \/ SupRebootFails
  BY <1>11 DEF SupCheck, SupRegister, SupSave, SupRollback, SupRebootFails
<1>12. CASE AgentRestart \/ Reboot \/ SupReboot
  BY <1>12 DEF AgentRestart, Reboot, SupReboot, Restart, Started
<1>13. CASE Tick \/ UNCHANGED vars
  BY <1>13 DEF Tick, taskVars, vars
<1> QED
  BY <1>2, <1>3, <1>4, <1>5, <1>6, <1>7, <1>8, <1>9, <1>10, <1>11, <1>12, <1>13
  DEF Next, ExecStep, SupStep, RpcStep, RpcCall

\* No step of a node that is up changes the slot it runs from.
LEMMA StepUntouched ==
  ASSUME TypeInv, SlotInv, [Next]_vars, Up
  PROVE  slot'[booted] = slot[booted]
<1> USE DEF TypeInv, TypeOK, DiskTypeOK, Tasks, storeVars, diskVars
<1>1. booted \in Slots
  BY DEF Up
<1>2. ASSUME NEW t \in Updaters, Flash(t) PROVE slot'[booted] = slot[booted]
  <2>1. job[t].slot = Other(booted) /\ Other(booted) # booted
    BY <1>1, <1>2 DEF Flash, At, SlotInv, Writing, Other, Slots
  <2> QED
    BY <1>1, <1>2, <2>1 DEF Flash, WriteBlock
<1>3. ASSUME NEW t \in Updaters, UpdateStep(t), ~Flash(t) PROVE UNCHANGED slot
  BY <1>3 DEF UpdateStep, FetchFull, FetchDelta, FlashError, FetchStalls, Verify, SwitchClear,
                SwitchSet
<1>4. ASSUME NEW t \in Tasks, RollbackStep(t) PROVE UNCHANGED slot
  BY <1>4 DEF RollbackStep, SwitchClear, SwitchSet, Forget
<1>5. ASSUME NEW t \in Rpcs, RpcSave(t) \/ RpcCall(t) PROVE UNCHANGED slot
  BY <1>5 DEF RpcSave, RpcCall, RpcSchedule, RpcCancel, RpcInstall, RpcRollback, RpcDropped
<1>6. CASE ExecPoll \/ ExecNext \/ ExecMark \/ ExecSaveRun \/ ExecStart \/ ExecHookHangs
  BY <1>6 DEF ExecPoll, ExecNext, ExecMark, ExecSaveRun, ExecStart, ExecHookHangs
<1>7. CASE ExecRecord \/ ExecFinish \/ ExecSaveEnd
  BY <1>7 DEF ExecRecord, ExecFinish, ExecSaveEnd
<1>8. CASE SupCheck \/ SupRegister \/ SupSave \/ SupRollback \/ SupRebootFails
  BY <1>8 DEF SupCheck, SupRegister, SupSave, SupRollback, SupRebootFails
<1>9. CASE AgentRestart \/ Reboot \/ SupReboot
  BY <1>9 DEF AgentRestart, Reboot, SupReboot, Restart
<1>10. CASE Tick \/ UNCHANGED vars
  BY <1>10 DEF Tick, vars
<1> QED
  BY <1>2, <1>3, <1>4, <1>5, <1>6, <1>7, <1>8, <1>9, <1>10
  DEF Next, ExecStep, SupStep, RpcStep, Updaters

(***************************************************************************)
(* As long as the command line tells the root, no step writes to the slot  *)
(* the node runs from, whichever handlers and executor flash at the same   *)
(* time: get_inactive_partition is asked once, and the booted slot changes *)
(* only with the process.                                                  *)
(***************************************************************************)
THEOREM RunningSlotSafe == ASSUME ~ActiveFallback PROVE Spec => RunningSlotUntouched
<1>1. Init => SlotInv
  BY AgentAssumption DEF Init, Started, SlotInv, Writing, Updaters, Tasks, Exec, Sup
<1>2. TypeInv /\ SlotInv /\ [Next]_vars => SlotInv'
  BY NextSlotInv
<1>3. TypeInv /\ SlotInv /\ [Next]_vars => [Up => slot'[booted] = slot[booted]]_vars
  BY StepUntouched
<1> QED
  BY <1>1, <1>2, <1>3, InitTypeInv, NextTypeInv, PTL DEF Spec, RunningSlotUntouched
=============================================================================
