------------------------ MODULE UpdateInstallProofs -------------------------
(***************************************************************************)
(* More proofs about UpdateAgent: what a schedule's life can look like,    *)
(* what is on the disk when an update completes, and that scheduled        *)
(* updates implement UpdateJournal.                                        *)
(***************************************************************************)
EXTENDS UpdateAgentProofs

\* The executor has saved its schedule as Running and is executing it.
Work == {"start", "hung", "fetch", "flash", "verify", "record", "clear", "set",
         "completed", "failed"}

(***************************************************************************)
(* The life of a schedule while one agent runs: it exists only under an id *)
(* that was handed out; one in the executor's snapshot has a time that has *)
(* come, and was at most cancelled since, also when the executor has taken *)
(* it up and waits for the lock; one that is to expire is past its window; *)
(* one that is executed is Running, or was rolled back meanwhile, until it *)
(* ends.                                                                   *)
(***************************************************************************)
LifeInv ==
  /\ \A i \in Ids : sched[i].status # "Absent" \/ file[i].status # "Absent" => i \in issued
  /\ \A i \in due : /\ sched[i].status \in {"Pending", "Cancelled"}
                    /\ sched[i].req.at # NoTime /\ sched[i].req.at <= now
  /\ pc[Exec] \in {"mark", "expire"} =>
       /\ sched[cur].status \in {"Pending", "Cancelled"}
       /\ sched[cur].req.at # NoTime /\ sched[cur].req.at <= now
  /\ pc[Exec] = "expire" => ~WithinWindow(sched[cur].req, now)
  /\ pc[Exec] \in Work \cup {"saveRun"} => sched[cur].status \in {"Running", "RolledBack"}
  /\ pc[Exec] \in Busy => cur \notin due

\* What the executor is executing, past its start, was counted as started.
StartedInv == pc[Exec] \in Work \ {"start", "hung"} => runs[cur] > 0

\* Nobody but the executor touches the disk's slots: there is no InstallUpdate.
RpcsIdle == \A t \in Rpcs : pc[t] \in {"idle", "save"}

\* How far the executor is with an image whose SHA256 was given.
InstallInv ==
  /\ RpcsIdle
  /\ pc[Exec] \in {"fetch", "flash", "verify", "record", "clear", "set"} =>
       job[Exec].slot = Other(booted) /\ job[Exec].req = sched[cur].req
  /\ pc[Exec] \in {"flash", "verify"} /\ ~job[Exec].full => job[Exec].data = job[Exec].req.image
  /\ pc[Exec] = "flash" => \A b \in 1 .. job[Exec].blk : slot[job[Exec].slot][b] = job[Exec].data
  /\ pc[Exec] = "verify" => Holds(job[Exec].slot, job[Exec].data)
  /\ pc[Exec] \in {"record", "clear", "set"} => Holds(job[Exec].slot, job[Exec].req.image)
  /\ pc[Exec] = "completed" => Holds(Other(booted), sched[cur].req.image)

(***************************************************************************)
(* The table is never behind the file; the schedule under execution has    *)
(* begun in the file; and a completion that is not in the file yet is the  *)
(* executor's own, about to be saved, with the image still in its slot.    *)
(***************************************************************************)
JournalInv ==
  /\ \A i \in Ids : Journal!Advances(file[i].status, sched[i].status)
  /\ pc[Exec] \in Work => file[cur].status \in {"Running", "RolledBack"}
  /\ (\E i \in Ids : file[i].status # "Completed" /\ sched[i].status = "Completed")
       => pc[Exec] = "saveEnd" /\ Whole(Other(booted))

\* At most one schedule has been executed.
FewRuns == \A i, j \in Ids : runs[i] > 0 /\ runs[j] > 0 => i = j
NoRuns == \A i \in Ids : runs[i] = 0

\* Until the first update is on the other slot, the node runs the slot it was
\* installed on and nothing refers to the other one.
BootInv ==
  /\ pc[Exec] \in {"fetch", "flash", "verify", "record", "clear", "set"} => ~NoRuns
  /\ FewRuns =>
       /\ \A s \in bootable \cup ({previous} \ {NoSlot}) : Whole(s)
       /\ pc[Sup] \in {"rbClear", "rbSet"} => Whole(job[Sup].slot)
       /\ NoRuns \/ pc[Exec] \in {"fetch", "flash", "verify"} =>
            /\ booted = "A" /\ bootable = {"A"} /\ previous = NoSlot
            /\ pc[Sup] \notin {"rbClear", "rbSet"}
-----------------------------------------------------------------------------
(* What a step does to the schedules                                       *)

\* Schedule i, and no other, goes to status st.
StatusTo(i, st) ==
  /\ sched'[i].status = st /\ sched'[i].req = sched[i].req
  /\ \A j \in Ids \ {i} : sched'[j] = sched[j]

ExecutorWaits == pc'[Exec] = pc[Exec] /\ UNCHANGED <<due, cur, restarts>> /\ now' = now

TableKept ==
  /\ UNCHANGED <<sched, file, issued, due, cur, restarts>> /\ now' >= now
  /\ pc'[Exec] = pc[Exec] \/ (pc[Exec] \in Work /\ pc'[Exec] \in Work)

Scheduled ==
  /\ ExecutorWaits /\ UNCHANGED file
  /\ \E i \in Ids \ issued : /\ sched'[i].status = "Pending" /\ issued' = issued \cup {i}
                             /\ \A j \in Ids \ {i} : sched'[j] = sched[j]

Cancelled ==
  /\ ExecutorWaits /\ UNCHANGED <<file, issued>>
  /\ \E i \in Ids : sched[i].status = "Pending" /\ StatusTo(i, "Cancelled")

Registered ==
  /\ ExecutorWaits /\ UNCHANGED <<file, issued>>
  /\ \E i \in Ids : sched[i].status \in {"Completed", "Running"} /\ StatusTo(i, "RolledBack")

Saved == ExecutorWaits /\ UNCHANGED <<sched, issued>> /\ Persist

Polled ==
  /\ UNCHANGED <<sched, file, now, issued, cur, restarts>>
  /\ due' = Due /\ pc[Exec] = "idle" /\ pc'[Exec] = "next"

Taken ==
  /\ UNCHANGED <<sched, file, now, issued, restarts>>
  /\ pc[Exec] = "next"
  /\ \E i \in due : /\ due' = due \ {i} /\ cur' = i
                    /\ \/ WithinWindow(sched[i].req, now) /\ pc'[Exec] = "mark"
                       \/ ~WithinWindow(sched[i].req, now) /\ pc'[Exec] = "expire"

Marked(st) ==
  /\ UNCHANGED <<file, now, issued, due, cur, restarts>>
  /\ StatusTo(cur, st)
  /\ st = "Running" => pc[Exec] = "mark" /\ pc'[Exec] = "saveRun"
  /\ st = "Failed" => pc[Exec] = "expire" /\ pc'[Exec] = "saveEnd"

Launched == UNCHANGED <<sched, now, issued, due, cur, restarts>> /\ Persist
         /\ pc[Exec] = "saveRun" /\ pc'[Exec] = "start"

Concluded(st) ==
  /\ UNCHANGED <<file, now, issued, due, cur, restarts>>
  /\ pc[Exec] \in Work /\ pc'[Exec] = "saveEnd" /\ StatusTo(cur, st)
  /\ pc[Exec] = IF st = "Completed" THEN "completed" ELSE "failed"

Closed == UNCHANGED <<sched, now, issued, due, restarts>> /\ Persist
          /\ pc[Exec] = "saveEnd" /\ pc'[Exec] \in {"idle", "next"}

Restarted ==
  /\ restarts' = restarts + 1 /\ UNCHANGED <<now, issued, runs, slot>>
  /\ sched' = file' /\ file' \in {file, Empty}
  /\ due' = {} /\ pc'[Exec] = "idle" /\ (\A t \in Rpcs : pc'[t] = "idle") /\ pc'[Sup] = "grace"

\* Every step is one of these to the table, the file and the executor's
\* bookkeeping; a task that is at work on a slot touches none of them.
LEMMA TableSteps ==
  ASSUME TypeInv, [Next]_vars
  PROVE  \/ TableKept \/ Scheduled \/ Cancelled \/ Registered \/ Saved \/ Polled \/ Taken
         \/ Marked("Running") \/ Marked("Failed") \/ Launched
         \/ Concluded("Completed") \/ Concluded("Failed") \/ Closed \/ Restarted
<1> USE AgentAssumption DEF TypeInv, TypeOK, StoreTypeOK, Goto, At, Finish, storeVars, diskVars,
        Tasks, Exec, Sup, ExecutorWaits
<1>0. now \in Nat /\ now >= now
  OBVIOUS
<1>1. ASSUME NEW t \in Rpcs \cup {Sup}, UpdateStep(t) \/ RollbackStep(t) PROVE TableKept
  BY <1>0, <1>1, DiskStepFrame DEF TableKept
<1>2. ASSUME UpdateStep(Exec) PROVE TableKept
  <2>1. UNCHANGED <<sched, file, now, booted, due, cur, issued, runs, restarts>>
    BY <1>2, DiskStepFrame
  <2>2. pc[Exec] \in Work
    BY <1>2 DEF UpdateStep, FetchFull, FetchDelta, Flash, FlashError, FetchStalls, Verify, SwitchClear,
                SwitchSet, Work
  <2>3. pc'[Exec] \in Work
    <3>1. CASE FetchFull(Exec) \/ Flash(Exec) \/ FetchStalls(Exec)
      BY <3>1 DEF FetchFull, Flash, FetchStalls, Work
    <3>2. CASE FetchDelta(Exec) \/ FlashError(Exec)
      BY <3>2 DEF FetchDelta, FlashError, FlashFailed, Failed, Work
    <3>3. CASE Verify(Exec)
      BY <3>3 DEF Verify, Failed, Flashed, Work
    <3>4. CASE SwitchClear(Exec, "clear", "set", Failed(Exec))
      BY <3>4 DEF SwitchClear, Failed, Work
    <3>5. CASE SwitchSet(Exec, "set", Updated(Exec), Failed(Exec))
      BY <3>5 DEF SwitchSet, Failed, Updated, Work
    <3> QED
      BY <1>2, <3>1, <3>2, <3>3, <3>4, <3>5 DEF UpdateStep
  <2> QED
    BY <1>0, <2>1, <2>2, <2>3 DEF TableKept
<1>3. ASSUME NEW t \in Rpcs, RpcSchedule(t) PROVE Scheduled
  <2>1. PICK i \in Ids \ issued, r \in Requests : Insert(i, r) /\ issued' = issued \cup {i}
    BY <1>3 DEF RpcSchedule
  <2>2. sched'[i].status = "Pending" /\ \A j \in Ids \ {i} : sched'[j] = sched[j]
    BY <2>1 DEF Insert, NoSchedule
  <2> QED
    BY <1>3, <2>1, <2>2 DEF RpcSchedule, Scheduled
<1>4. ASSUME NEW t \in Rpcs, RpcCancel(t) PROVE Cancelled
  <2>1. PICK i \in Ids : Cancel(i)
    BY <1>4 DEF RpcCancel
  <2>2. sched[i].status = "Pending" /\ StatusTo(i, "Cancelled")
    BY <2>1 DEF Cancel, StatusTo, Schedule
  <2> QED
    BY <1>4, <2>2 DEF RpcCancel, Cancelled
<1>5. ASSUME NEW t \in Rpcs, RpcSave(t) PROVE Saved
  BY <1>5 DEF RpcSave, Saved
<1>6. ASSUME NEW t \in Rpcs, RpcInstall(t) \/ RpcDropped(t) \/ RpcRollback(t)
      PROVE  TableKept
  BY <1>0, <1>6 DEF RpcInstall, RpcDropped, RpcRollback, TableKept
<1>7. CASE ExecPoll
  BY <1>7 DEF ExecPoll, Polled
<1>8. CASE ExecNext
  <2>1. UNCHANGED <<sched, file, now, issued, restarts>> /\ pc[Exec] = "next"
    BY <1>8 DEF ExecNext
  <2>2. PICK i \in due :
          /\ due' = due \ {i} /\ cur' = i
          /\ pc'[Exec] = IF WithinWindow(sched[i].req, now) THEN "mark" ELSE "expire"
    BY <1>8 DEF ExecNext
  <2>3. Taken
    BY <2>1, <2>2 DEF Taken
  <2> QED
    BY <2>3
<1>8a. CASE ExecMark
  <2>1. cur \in Ids
    BY <1>8a DEF ExecMark, Known, Busy
  <2>2. ASSUME NEW st \in {"Running", "Failed"}, UpdateStatus(cur, st) PROVE StatusTo(cur, st)
    BY <2>1, <2>2 DEF UpdateStatus, StatusTo, Schedule
  <2>3. UNCHANGED <<file, now, issued, due, cur, restarts>>
    BY <1>8a DEF ExecMark
  <2>4. \/ UpdateStatus(cur, "Running") /\ pc[Exec] = "mark" /\ pc'[Exec] = "saveRun"
        \/ UpdateStatus(cur, "Failed") /\ pc[Exec] = "expire" /\ pc'[Exec] = "saveEnd"
    BY <1>8a DEF ExecMark
  <2>5. Marked("Running") \/ Marked("Failed")
    BY <2>2, <2>3, <2>4 DEF Marked
  <2> QED
    BY <2>5
<1>9. CASE ExecSaveRun
  BY <1>9 DEF ExecSaveRun, Launched
<1>10. CASE ExecStart \/ ExecHookHangs \/ ExecRecord
  <2>1. UNCHANGED <<sched, file, now, issued, due, cur, restarts>>
    BY <1>10 DEF ExecStart, ExecHookHangs, ExecRecord
  <2>2. pc[Exec] \in Work
    BY <1>10 DEF ExecStart, ExecHookHangs, ExecRecord, Work
  <2>3. pc'[Exec] \in Work
    BY <1>10 DEF ExecStart, ExecHookHangs, ExecRecord, Work
  <2> QED
    BY <1>0, <2>1, <2>2, <2>3 DEF TableKept
<1>11. CASE ExecFinish
  <2>1. ASSUME NEW st \in {"Completed", "Failed"}, UpdateStatus(cur, st) PROVE StatusTo(cur, st)
    <3>1. cur \in Ids
      BY <1>11 DEF ExecFinish, Known, Busy
    <3> QED
      BY <2>1, <3>1 DEF UpdateStatus, StatusTo, Schedule
  <2>2. /\ UNCHANGED <<file, now, issued, due, cur, restarts>>
        /\ pc[Exec] \in {"completed", "failed"} /\ pc'[Exec] = "saveEnd"
    BY <1>11 DEF ExecFinish
  <2>3. CASE pc[Exec] = "completed"
    <3>1. StatusTo(cur, "Completed")
      BY <1>11, <2>1, <2>3 DEF ExecFinish
    <3> QED
      BY <2>2, <2>3, <3>1 DEF Concluded, Work
  <2>4. CASE pc[Exec] = "failed"
    <3>1. StatusTo(cur, "Failed")
      BY <1>11, <2>1, <2>4 DEF ExecFinish
    <3> QED
      BY <2>2, <2>4, <3>1 DEF Concluded, Work
  <2> QED
    BY <2>2, <2>3, <2>4
<1>12. CASE ExecSaveEnd
  BY <1>12 DEF ExecSaveEnd, Closed
<1>13. CASE SupCheck \/ SupRollback \/ SupRebootFails
  BY <1>0, <1>13 DEF SupCheck, SupRollback, SupRebootFails, TableKept
<1>14. CASE SupRegister
  <2>1. ASSUME NEW i \in LatestActive, RegisterRollback(i) PROVE Registered
    <3>1. i \in Ids /\ sched[i].status \in {"Completed", "Running"}
      BY DEF LatestActive, Active
    <3>2. StatusTo(i, "RolledBack")
      BY <2>1, <3>1 DEF RegisterRollback, StatusTo, Schedule
    <3> QED
      BY <1>14, <3>1, <3>2 DEF SupRegister, Registered
  <2>2. CASE UNCHANGED sched
    BY <1>0, <1>14, <2>2 DEF SupRegister, TableKept
  <2> QED
    BY <1>14, <2>1, <2>2 DEF SupRegister
<1>15. CASE SupSave
  BY <1>15 DEF SupSave, Saved
<1>16. CASE AgentRestart \/ Reboot \/ SupReboot
  <2>1. Restart
    BY <1>16 DEF AgentRestart, Reboot, SupReboot
  <2>2. sched' = file' /\ file' \in {file, Empty}
    BY <2>1 DEF Restart, Reload
  <2>3. pc'[Exec] = "idle" /\ (\A t \in Rpcs : pc'[t] = "idle") /\ pc'[Sup] = "grace"
    BY <2>1 DEF Restart, Started
  <2> QED
    BY <2>1, <2>2, <2>3 DEF Restart, Restarted
<1>17. CASE Tick
  BY <1>17 DEF Tick, taskVars, TableKept
<1>18. CASE UNCHANGED vars
  BY <1>0, <1>18 DEF vars, TableKept
<1> QED
  BY <1>1, <1>2, <1>3, <1>4, <1>5, <1>6, <1>7, <1>8, <1>8a, <1>9, <1>10, <1>11, <1>12, <1>13,
     <1>14, <1>15, <1>16, <1>17, <1>18
  DEF Next, ExecStep, SupStep, RpcStep, RpcCall
-----------------------------------------------------------------------------
(* The life of a schedule                                                  *)

\* A new agent has no schedule and nothing due.
LEMMA InitLife == Init => LifeInv
BY AgentAssumption DEF Init, StoreInit, Started, Empty, NoSchedule, LifeInv, Work, Busy, Tasks, Exec, Sup

\* What persist_schedules leaves in the file is in the file or the table.
LEMMA PersistFacts ==
  ASSUME Persist
  PROVE  /\ file' \in {sched, file, Empty}
         /\ ~PersistFaults => file' = sched
         /\ \A i \in Ids : Empty[i].status = "Absent"
BY DEF Persist, Empty, NoSchedule

\* Every step preserves what is known of the life of a schedule.
LEMMA NextLife ==
  ASSUME TypeInv, LifeInv, [Next]_vars
  PROVE  LifeInv'
<1> USE DEF StatusTo, ExecutorWaits
<1>0. /\ now \in Nat /\ due \subseteq Ids /\ issued \subseteq Ids
      /\ pc[Exec] \in Busy => cur \in Ids /\ sched[cur].status # "Absent"
      /\ Work \subseteq Busy /\ {"mark", "expire", "saveRun", "saveEnd"} \subseteq Busy
      /\ "mark" \notin Work /\ "expire" \notin Work
      /\ "next" \notin Busy /\ "idle" \notin Busy /\ "saveEnd" \notin Work /\ "saveRun" \notin Work
  BY DEF TypeInv, TypeOK, StoreTypeOK, Known, Work, Busy
<1>a. \A i \in Ids : sched[i].status # "Absent" =>
        /\ sched[i].req.at \in Int /\ sched[i].req.window \in Nat
        /\ sched[i].req.at # NoTime => sched[i].req.at \in Nat
  BY StoreAssumption DEF TypeInv, Known, NoTime
<1>b. now' \in Nat
  BY NextTypeInv DEF TypeInv, TypeOK, StoreTypeOK
<1>1. CASE TableKept
  <2>1. now' >= now
    BY <1>1 DEF TableKept
  <2>2. \A i \in due : sched[i].req.at <= now'
    BY <1>0, <1>a, <1>b, <2>1 DEF LifeInv
  <2>3. pc[Exec] \in {"mark", "expire"} => sched[cur].req.at <= now'
    BY <1>0, <1>a, <1>b, <2>1 DEF LifeInv
  <2>4. pc[Exec] = "expire" => ~WithinWindow(sched[cur].req, now')
    BY <1>0, <1>a, <1>b, <2>1 DEF LifeInv, WithinWindow
  <2> QED
    BY <1>0, <1>1, <2>2, <2>3, <2>4 DEF TableKept, LifeInv
<1>2. CASE Scheduled
  <2>1. PICK i \in Ids \ issued : /\ sched'[i].status = "Pending" /\ issued' = issued \cup {i}
                                  /\ \A j \in Ids \ {i} : sched'[j] = sched[j]
    BY <1>2 DEF Scheduled
  <2>2. i \notin due /\ (pc[Exec] \in Busy => cur # i)
    BY <1>0 DEF LifeInv
  <2> QED
    BY <1>0, <1>2, <2>1, <2>2 DEF Scheduled, LifeInv
<1>3. CASE Cancelled
  BY <1>0, <1>3 DEF Cancelled, LifeInv
<1>4. CASE Registered
  BY <1>0, <1>4 DEF Registered, LifeInv
<1>5. CASE Saved
  BY <1>0, <1>5, PersistFacts DEF Saved, LifeInv
<1>6. CASE Polled
  BY <1>0, <1>6 DEF Polled, Due, LifeInv
<1>7. CASE Taken
  <2>1. PICK i \in due :
          /\ due' = due \ {i} /\ cur' = i
          /\ \/ WithinWindow(sched[i].req, now) /\ pc'[Exec] = "mark"
             \/ ~WithinWindow(sched[i].req, now) /\ pc'[Exec] = "expire"
    BY <1>7 DEF Taken
  <2>2. UNCHANGED <<sched, file, now, issued>>
    BY <1>7 DEF Taken
  <2> QED
    BY <1>0, <2>1, <2>2 DEF LifeInv
<1>7a. ASSUME NEW st \in {"Running", "Failed"}, Marked(st) PROVE LifeInv'
  <2>1. pc[Exec] \in {"mark", "expire"} /\ cur \in Ids /\ cur \notin due
    BY <1>0, <1>7a DEF Marked, LifeInv
  <2> QED
    BY <1>0, <1>7a, <2>1 DEF Marked, LifeInv
<1>8. CASE Launched
  BY <1>0, <1>8, PersistFacts DEF Launched, LifeInv, Work
<1>9. ASSUME NEW st \in {"Completed", "Failed"}, Concluded(st) PROVE LifeInv'
  BY <1>0, <1>9 DEF Concluded, LifeInv
<1>10. CASE Closed
  BY <1>0, <1>10, PersistFacts DEF Closed, LifeInv, Work
<1>11. CASE Restarted
  BY <1>0, <1>11 DEF Restarted, LifeInv, Empty, NoSchedule, Work
<1> QED
  BY <1>1, <1>2, <1>3, <1>4, <1>5, <1>6, <1>7, <1>7a, <1>8, <1>9, <1>10, <1>11, TableSteps

\* LifeInv, with the types.
LEMMA Life == Spec => [](TypeInv /\ LifeInv)
<1>1. TypeInv /\ LifeInv /\ [Next]_vars => LifeInv'
  BY NextLife
<1> QED
  BY <1>1, InitLife, InitTypeInv, NextTypeInv, PTL DEF Spec

(***************************************************************************)
(* Failed is final while the agent runs, under every interleaving of the   *)
(* executor with cancellations, new schedules and the supervisor: the      *)
(* executor overwrites only the status of the schedule it is executing or  *)
(* of one it polled, and register_rollback takes no failed one.            *)
(***************************************************************************)
THEOREM FailedIsFinalSafe == Spec => FailedIsFinal
<1>1. TypeInv /\ LifeInv /\ [Next]_vars
        => [\A i \in Ids : SameAgent /\ sched[i].status = "Failed"
                             => sched'[i].status = "Failed"]_vars
  <2> SUFFICES ASSUME TypeInv, LifeInv, [Next]_vars, SameAgent,
                      NEW i \in Ids, sched[i].status = "Failed"
               PROVE  sched'[i].status = "Failed"
    OBVIOUS
  <2>1. i \in issued /\ i \notin due /\ (pc[Exec] \in Work \cup {"mark", "expire"} => cur # i)
    BY DEF LifeInv
  <2>2. ~Restarted
    BY DEF Restarted, SameAgent, TypeInv, TypeOK
  <2>3. pc[Exec] \in Work \cup {"mark", "expire"} => cur \in Ids
    BY DEF TypeInv, Known, Work, Busy
  <2> QED
    BY <2>1, <2>2, <2>3, TableSteps DEF TableKept, Scheduled, Cancelled, Registered, Saved, Polled,
       Taken, Marked, Launched, Concluded, Closed, StatusTo
<1> QED
  BY <1>1, Life, PTL DEF Spec, FailedIsFinal

\* Every step preserves that a schedule past its start was counted.
LEMMA NextStarted ==
  ASSUME TypeInv, StartedInv, [Next]_vars
  PROVE  StartedInv'
<1> USE AgentAssumption DEF TypeInv, TypeOK, StartedInv, Goto, At, Finish, storeVars, diskVars,
        Tasks, Exec, Sup
<1>1. ASSUME NEW t \in Rpcs \cup {Sup}, UpdateStep(t) \/ RollbackStep(t) PROVE StartedInv'
  BY <1>1, DiskStepFrame
<1>2. CASE UpdateStep(Exec)
  <2>1. UNCHANGED <<cur, runs>>
    BY <1>2, DiskStepFrame
  <2>2. pc[Exec] \in Work \ {"start", "hung"}
    BY <1>2 DEF UpdateStep, FetchFull, FetchDelta, Flash, FlashError, FetchStalls, Verify,
                SwitchClear, SwitchSet, Work
  <2> QED
    BY <2>1, <2>2
<1>3. ASSUME NEW t \in Rpcs,
             \/ RpcSchedule(t) \/ RpcCancel(t) \/ RpcSave(t)
             \/ RpcInstall(t) \/ RpcDropped(t) \/ RpcRollback(t)
      PROVE  StartedInv'
  BY <1>3 DEF RpcSchedule, RpcCancel, RpcSave, RpcInstall, RpcDropped, RpcRollback
<1>4. CASE ExecPoll \/ ExecNext \/ ExecMark \/ ExecSaveRun \/ ExecHookHangs
  BY <1>4 DEF ExecPoll, ExecNext, ExecMark, ExecSaveRun, ExecHookHangs, Work
<1>5. CASE ExecStart
  <2>1. cur \in Ids /\ runs'[cur] = runs[cur] + 1 /\ runs[cur] \in Nat /\ cur' = cur
    BY <1>5 DEF ExecStart, Known, Busy
  <2> QED
    BY <2>1
<1>6. CASE ExecRecord
  BY <1>6 DEF ExecRecord, Work
<1>7. CASE ExecFinish \/ ExecSaveEnd
  BY <1>7 DEF ExecFinish, ExecSaveEnd, Work
<1>8. CASE SupCheck \/ SupRegister \/ SupSave \/ SupRollback \/ SupRebootFails
  BY <1>8 DEF SupCheck, SupRegister, SupSave, SupRollback, SupRebootFails
<1>9. CASE AgentRestart \/ Reboot \/ SupReboot
  BY <1>9 DEF AgentRestart, Reboot, SupReboot, Restart, Started, Work
<1>10. CASE Tick \/ UNCHANGED vars
  BY <1>10 DEF Tick, taskVars, vars
<1> QED
  BY <1>1, <1>2, <1>3, <1>4, <1>5, <1>6, <1>7, <1>8, <1>9, <1>10
  DEF Next, ExecStep, SupStep, RpcStep, RpcCall

\* What a step that takes up, starts or gives up a schedule knows of its window.
LEMMA WindowStep ==
  ASSUME TypeInv, LifeInv, StartedInv, [Next]_vars, NEW i \in Ids
  PROVE  LET r == sched[i].req IN
         /\ cur # i /\ cur' = i /\ pc'[Exec] = "mark"
              => r.at \in 0 .. now /\ (r.window > 0 => now <= r.at + r.window)
         /\ SameAgent /\ sched[i].status # "Running" /\ sched'[i].status = "Running"
              => cur = i /\ r.at \in 0 .. now
         /\ SameAgent /\ sched[i].status # "Failed" /\ sched'[i].status = "Failed" /\ runs[i] = 0
              => r.window > 0 /\ now > r.at + r.window
<1> DEFINE r == sched[i].req
<1>0. now \in Nat /\ (SameAgent => ~Restarted)
  BY DEF TypeInv, TypeOK, StoreTypeOK, Restarted, SameAgent
<1>1. sched[i].status # "Absent" => /\ r.window \in Nat
                                    /\ r.at \in Nat \cup {NoTime}
  BY StoreAssumption DEF TypeInv, Known
<1>2. pc[Exec] \in Work \cup {"mark", "expire"} => cur \in Ids
  BY DEF TypeInv, Known, Work, Busy
<1>3. ASSUME cur # i, cur' = i, pc'[Exec] = "mark"
      PROVE  r.at \in 0 .. now /\ (r.window > 0 => now <= r.at + r.window)
  <2>1. Taken
    BY <1>3, TableSteps DEF TableKept, Scheduled, Cancelled, Registered, Saved, Polled, Marked,
       Launched, Concluded, Closed, Restarted, ExecutorWaits
  <2>2. i \in due /\ WithinWindow(r, now)
    BY <1>3, <2>1 DEF Taken
  <2>3. sched[i].status # "Absent" /\ r.at # NoTime /\ r.at <= now
    BY <2>2 DEF LifeInv
  <2> QED
    BY <1>0, <1>1, <2>2, <2>3 DEF WithinWindow
<1>4. ASSUME SameAgent, sched[i].status # "Running", sched'[i].status = "Running"
      PROVE  cur = i /\ r.at \in 0 .. now
  <2>1. Marked("Running")
    BY <1>0, <1>2, <1>4, TableSteps DEF TableKept, Scheduled, Cancelled, Registered, Saved, Polled,
       Taken, Marked, Launched, Concluded, Closed, StatusTo
  <2>2. cur = i /\ pc[Exec] = "mark"
    BY <1>4, <2>1 DEF Marked, StatusTo
  <2>3. sched[i].status # "Absent" /\ r.at # NoTime /\ r.at <= now
    BY <2>2 DEF LifeInv
  <2> QED
    BY <1>0, <1>1, <2>2, <2>3
<1>5. ASSUME SameAgent, sched[i].status # "Failed", sched'[i].status = "Failed", runs[i] = 0
      PROVE  r.window > 0 /\ now > r.at + r.window
  <2>1. Marked("Failed") \/ Concluded("Failed")
    BY <1>0, <1>2, <1>5, TableSteps DEF TableKept, Scheduled, Cancelled, Registered, Saved, Polled,
       Taken, Marked, Launched, Concluded, Closed, StatusTo
  <2>2. cur = i
    BY <1>5, <2>1 DEF Marked, Concluded, StatusTo
  <2>3. pc[Exec] = "failed" => runs[i] > 0
    BY <2>2 DEF StartedInv, Work
  <2>4. ~Concluded("Failed")
    BY <1>5, <2>3 DEF Concluded
  <2>5. pc[Exec] = "expire"
    BY <2>1, <2>4 DEF Marked
  <2>6. sched[i].status # "Absent" /\ r.at # NoTime /\ ~WithinWindow(r, now)
    BY <2>2, <2>5 DEF LifeInv
  <2> QED
    BY <1>0, <1>1, <2>6 DEF WithinWindow
<1> QED
  BY <1>3, <1>4, <1>5

(***************************************************************************)
(* The executor takes a schedule up only between scheduled_at and the end  *)
(* of its maintenance window, however long the schedules before it took;   *)
(* it starts no other, and fails one it never started only when the window *)
(* is over, also by the time it gets the table's lock.                     *)
(***************************************************************************)
THEOREM WindowIsCheckedSafe == Spec => WindowIsChecked
<1>1. Init => StartedInv
  BY AgentAssumption DEF Init, Started, StartedInv, Work, Tasks, Exec, Sup
<1>2. TypeInv /\ StartedInv /\ [Next]_vars => StartedInv'
  BY NextStarted
<1>3. TypeInv /\ LifeInv /\ StartedInv /\ [Next]_vars
        => [\A i \in Ids :
              LET r == sched[i].req IN
              /\ cur # i /\ cur' = i /\ pc'[Exec] = "mark"
                   => r.at \in 0 .. now /\ (r.window > 0 => now <= r.at + r.window)
              /\ SameAgent /\ sched[i].status # "Running" /\ sched'[i].status = "Running"
                   => cur = i /\ r.at \in 0 .. now
              /\ SameAgent /\ sched[i].status # "Failed" /\ sched'[i].status = "Failed"
                   /\ runs[i] = 0
                   => r.window > 0 /\ now > r.at + r.window]_vars
  BY WindowStep
<1> QED
  BY <1>1, <1>2, <1>3, Life, PTL DEF Spec, WindowIsChecked
-----------------------------------------------------------------------------
(* What is on the disk when an update completes                            *)

\* Updates come from schedules with a SHA256 only, and the node knows which
\* slot it runs from.
Verified == ~AllowInstall /\ ~ActiveFallback /\ \A r \in Requests : r.sha

\* No step but the executor's, short of a restart, concerns the slots' contents
\* or the executor.
LEMMA OtherSteps ==
  ASSUME Verified, TypeInv, RpcsIdle, [Next]_vars
  PROVE  \/ ExecStep
         \/ Restarted
         \/ /\ UNCHANGED <<slot, booted, runs, cur>> /\ RpcsIdle'
            /\ pc'[Exec] = pc[Exec] /\ job'[Exec] = job[Exec]
<1> USE AgentAssumption DEF Verified, TypeInv, TypeOK, Goto, At, Finish, storeVars, diskVars,
        Tasks, Exec, Sup, RpcsIdle
<1>1. ASSUME NEW t \in Rpcs PROVE ~UpdateStep(t) /\ ~RollbackStep(t)
  BY <1>1 DEF UpdateStep, FetchFull, FetchDelta, Flash, FlashError, FetchStalls, Verify,
              SwitchClear, SwitchSet, RollbackStep, Forget
<1>2. ASSUME NEW t \in Rpcs PROVE ~RpcInstall(t) /\ ~RpcRollback(t)
  BY <1>2 DEF RpcInstall, RpcRollback
<1>3. ASSUME NEW t \in Rpcs, RpcSchedule(t) \/ RpcCancel(t) \/ RpcSave(t) \/ RpcDropped(t)
      PROVE  /\ UNCHANGED <<slot, booted, runs, cur>> /\ RpcsIdle'
             /\ pc'[Exec] = pc[Exec] /\ job'[Exec] = job[Exec]
  BY <1>3 DEF RpcSchedule, RpcCancel, RpcSave, RpcDropped
<1>4. ASSUME RollbackStep(Sup)
      PROVE  /\ UNCHANGED <<slot, booted, runs, cur>> /\ RpcsIdle'
             /\ pc'[Exec] = pc[Exec] /\ job'[Exec] = job[Exec]
  <2>1. UNCHANGED slot
    BY <1>4 DEF RollbackStep, SwitchClear, SwitchSet, Forget
  <2> QED
    BY <1>4, <2>1, DiskStepFrame
<1>5. ASSUME SupCheck \/ SupRegister \/ SupSave \/ SupRollback \/ SupRebootFails
      PROVE  /\ UNCHANGED <<slot, booted, runs, cur>> /\ RpcsIdle'
             /\ pc'[Exec] = pc[Exec] /\ job'[Exec] = job[Exec]
  BY <1>5 DEF SupCheck, SupRegister, SupSave, SupRollback, SupRebootFails
<1>6. ASSUME AgentRestart \/ Reboot \/ SupReboot
      PROVE  Restarted
  <2>1. Restart
    BY <1>6 DEF AgentRestart, Reboot, SupReboot
  <2>2. sched' = file' /\ file' \in {file, Empty}
    BY <2>1 DEF Restart, Reload
  <2>3. pc'[Exec] = "idle" /\ (\A t \in Rpcs : pc'[t] = "idle") /\ pc'[Sup] = "grace"
    BY <2>1 DEF Restart, Started
  <2> QED
    BY <2>1, <2>2, <2>3 DEF Restart, Restarted
<1>7. ASSUME Tick \/ UNCHANGED vars
      PROVE  /\ UNCHANGED <<slot, booted, runs, cur>> /\ RpcsIdle'
             /\ pc'[Exec] = pc[Exec] /\ job'[Exec] = job[Exec]
  BY <1>7 DEF Tick, taskVars, vars
<1> QED
  BY <1>1, <1>2, <1>3, <1>4, <1>5, <1>6, <1>7 DEF Next, SupStep, RpcStep, RpcCall

\* A schedule that the executor works on keeps its request.
LEMMA RequestKept ==
  ASSUME TypeInv, LifeInv, [Next]_vars, pc[Exec] \in Work, pc'[Exec] \in Work
  PROVE  cur' = cur /\ sched'[cur].req = sched[cur].req
<1>1. cur \in Ids /\ cur \in issued
  BY DEF TypeInv, Known, LifeInv, Work, Busy
<1>2. /\ ~Restarted /\ ~Polled /\ ~Taken /\ ~Marked("Running") /\ ~Marked("Failed")
      /\ ~Launched /\ ~Concluded("Completed") /\ ~Concluded("Failed") /\ ~Closed
  BY DEF Restarted, Polled, Taken, Marked, Launched, Concluded, Closed, Work
<1> QED
  BY <1>1, <1>2, TableSteps DEF TableKept, Scheduled, Cancelled, Registered, Saved, StatusTo, ExecutorWaits

\* The executor's job goes where flash_image, its fallback or its failure leads.
LEMMA ExecFlashFailed ==
  ASSUME TypeInv, FlashFailed(Exec)
  PROVE  \/ pc'[Exec] = "failed"
         \/ /\ pc'[Exec] = "fetch"
            /\ job'[Exec].slot = job[Exec].slot /\ job'[Exec].req = job[Exec].req
BY DEF TypeInv, TypeOK, FlashFailed, Failed, Finish, Goto, Tasks, Job

\* Each step of the executor's update takes the image one step further.
LEMMA ExecInstall ==
  ASSUME Verified, TypeInv, LifeInv, InstallInv, ExecStep
  PROVE  InstallInv'
<1> USE DEF Verified, TypeInv, TypeOK, InstallInv, Goto, At, Finish, storeVars, diskVars, Tasks, Exec, Sup
<1>1. RpcsIdle'
  <2>1. \A t \in Tasks \ {Exec} : pc'[t] = pc[t]
    <3>1. CASE UpdateStep(Exec)
      BY <3>1, DiskStepFrame
    <3>2. CASE ExecPoll \/ ExecNext \/ ExecMark \/ ExecSaveRun \/ ExecStart \/ ExecHookHangs
      BY <3>2 DEF ExecPoll, ExecNext, ExecMark, ExecSaveRun, ExecStart, ExecHookHangs
    <3>3. CASE ExecRecord \/ ExecFinish \/ ExecSaveEnd
      BY <3>3 DEF ExecRecord, ExecFinish, ExecSaveEnd
    <3> QED
      BY <3>1, <3>2, <3>3 DEF ExecStep
  <2> QED
    BY <2>1, AgentAssumption DEF RpcsIdle
<1>2. [Next]_vars
  BY DEF Next
<1>3. pc[Exec] \in Work /\ pc'[Exec] \in Work => cur' = cur /\ sched'[cur].req = sched[cur].req
  BY <1>2, RequestKept
<1>4. ASSUME pc[Exec] \in Busy PROVE cur \in Ids /\ sched[cur].req \in Requests
  BY <1>4 DEF Known
<1>5. CASE ExecPoll \/ ExecNext \/ ExecMark \/ ExecSaveRun
  BY <1>1, <1>5 DEF ExecPoll, ExecNext, ExecMark, ExecSaveRun
<1>6. CASE ExecStart
  <2>1. CASE pc'[Exec] = "failed"
    BY <1>1, <2>1
  <2>2. CASE pc'[Exec] # "failed"
    <3>1. pc'[Exec] = "fetch" /\ job' = [job EXCEPT ![Exec] = NewJob(Other(booted), sched[cur].req)]
      BY <1>6, <2>2 DEF ExecStart, InactivePartition, ActivePartition
    <3>2. job'[Exec].slot = Other(booted) /\ job'[Exec].req = sched[cur].req
      BY <3>1 DEF NewJob
    <3>3. UNCHANGED <<sched, cur, booted>>
      BY <1>6 DEF ExecStart
    <3> QED
      BY <1>1, <3>1, <3>2, <3>3
  <2> QED
    BY <2>1, <2>2
<1>7. CASE FetchFull(Exec)
  <2>1. PICK d : job' = [job EXCEPT ![Exec].data = d, ![Exec].blk = 0]
    BY <1>7 DEF FetchFull
  <2>2. /\ job'[Exec].slot = job[Exec].slot /\ job'[Exec].req = job[Exec].req
        /\ job'[Exec].full /\ job'[Exec].blk = 0 /\ pc'[Exec] = "flash"
    BY <1>7, <2>1 DEF FetchFull, Job
  <2>3. UNCHANGED <<slot, booted, sched, cur>> /\ pc[Exec] = "fetch"
    BY <1>7 DEF FetchFull
  <2> QED
    BY <1>1, <2>2, <2>3
<1>8. CASE FetchDelta(Exec)
  <2>1. UNCHANGED <<slot, booted, sched, cur>> /\ pc[Exec] = "fetch"
    BY <1>8 DEF FetchDelta
  <2>2. CASE FlashFailed(Exec)
    BY <1>1, <2>1, <2>2, ExecFlashFailed
  <2>3. CASE ~FlashFailed(Exec)
    <3>1. job[Exec].req \in Requests
      BY <2>1 DEF Known
    <3>2. PICK d : /\ d = job[Exec].req.image
                   /\ job' = [job EXCEPT ![Exec].data = d, ![Exec].blk = 0] /\ Goto(Exec, "flash")
      BY <1>8, <2>3, <3>1 DEF FetchDelta
    <3>3. /\ job'[Exec].slot = job[Exec].slot /\ job'[Exec].req = job[Exec].req
          /\ job'[Exec].data = d /\ job'[Exec].blk = 0 /\ pc'[Exec] = "flash"
      BY <3>2 DEF Job
    <3> QED
      BY <1>1, <2>1, <3>2, <3>3
  <2> QED
    BY <2>2, <2>3
<1>9. CASE Flash(Exec)
  <2> DEFINE j == job[Exec]
  <2>1. /\ UNCHANGED <<booted, sched, cur>> /\ pc[Exec] = "flash" /\ j.blk < NBlocks
        /\ slot' = [slot EXCEPT ![j.slot][j.blk + 1] = j.data]
        /\ pc'[Exec] = IF j.blk + 1 = NBlocks THEN "verify" ELSE "flash"
    BY <1>9 DEF Flash, WriteBlock
  <2>2. j \in Job /\ j.slot \in Slots /\ j.blk \in 0 .. NBlocks /\ NBlocks \in Nat
    BY <2>1, DiskAssumption DEF Known, OnSlot, Job
  <2>3. /\ job'[Exec].slot = j.slot /\ job'[Exec].req = j.req /\ job'[Exec].data = j.data
        /\ job'[Exec].full = j.full /\ job'[Exec].blk = j.blk + 1
    BY <1>9 DEF Flash, Job
  <2>4. \A b \in 1 .. j.blk + 1 : slot'[j.slot][b] = j.data
    <3>1. j.blk + 1 \in Blocks /\ slot[j.slot] \in [Blocks -> Bytes]
      BY <2>1, <2>2 DEF Blocks, DiskTypeOK
    <3>2. slot'[j.slot] = [slot[j.slot] EXCEPT ![j.blk + 1] = j.data]
      BY <2>1, <2>2 DEF DiskTypeOK
    <3>3. \A b \in Blocks : slot'[j.slot][b] = IF b = j.blk + 1 THEN j.data ELSE slot[j.slot][b]
      BY <3>1, <3>2
    <3>4. \A b \in 1 .. j.blk : slot[j.slot][b] = j.data
      BY <2>1
    <3> QED
      BY <2>1, <2>2, <3>3, <3>4 DEF Blocks
  <2>5. j.blk + 1 = NBlocks => Holds(j.slot, j.data)'
    BY <2>3, <2>4 DEF Holds, Blocks
  <2> HIDE DEF j
  <2>6. pc'[Exec] \in {"flash", "verify"} /\ (pc'[Exec] = "verify" => j.blk + 1 = NBlocks)
    BY <2>1
  <2>7. j.slot = Other(booted) /\ j.req = sched[cur].req /\ (~j.full => j.data = j.req.image)
    BY <2>1 DEF j
  <2>8. pc'[Exec] = "verify" => \A b \in Blocks : slot'[j.slot][b] = j.data
    BY <2>4, <2>6 DEF Blocks
  <2> QED
    BY <1>1, <2>1, <2>3, <2>4, <2>6, <2>7, <2>8 DEF Holds
<1>10. CASE FlashError(Exec)
  <2>1. /\ UNCHANGED <<slot, booted, sched, cur>> /\ FlashFailed(Exec)
        /\ pc[Exec] \in {"fetch", "flash", "verify"}
    BY <1>10 DEF FlashError
  <2> QED
    BY <1>1, <2>1, ExecFlashFailed
<1>11. CASE Verify(Exec)
  <2>1. UNCHANGED <<slot, booted, sched, cur>> /\ pc[Exec] = "verify"
    BY <1>11 DEF Verify
  <2>2. job[Exec].req \in Requests
    BY <2>1 DEF Known
  <2>3. CASE pc'[Exec] = "failed"
    BY <1>1, <2>3
  <2>4. CASE pc'[Exec] # "failed"
    <3>1. pc'[Exec] = "record" /\ UNCHANGED job /\ (job[Exec].full => job[Exec].data = job[Exec].req.image)
      BY <1>11, <2>2, <2>4 DEF Verify, Failed, Flashed
    <3>2. job[Exec].data = job[Exec].req.image
      BY <2>1, <3>1 DEF Job
    <3>3. Holds(job[Exec].slot, job[Exec].req.image)'
      BY <2>1, <3>1, <3>2 DEF Holds
    <3> QED
      BY <1>1, <2>1, <3>1, <3>3
  <2> QED
    BY <2>3, <2>4
<1>12. CASE ExecRecord
  <2>1. UNCHANGED <<slot, booted, sched, cur>> /\ pc[Exec] = "record"
    BY <1>12 DEF ExecRecord
  <2>2. pc'[Exec] = "failed" \/ (pc'[Exec] = "clear" /\ UNCHANGED job)
    BY <1>12 DEF ExecRecord
  <2> QED
    BY <1>1, <2>1, <2>2 DEF Holds
<1>13. CASE SwitchClear(Exec, "clear", "set", Failed(Exec))
  <2>1. UNCHANGED <<slot, booted, sched, cur>> /\ pc[Exec] = "clear"
    BY <1>13 DEF SwitchClear
  <2>2. pc'[Exec] = "failed" \/ (pc'[Exec] = "set" /\ UNCHANGED job)
    BY <1>13 DEF SwitchClear, Failed
  <2> QED
    BY <1>1, <2>1, <2>2 DEF Holds
<1>14. CASE SwitchSet(Exec, "set", Updated(Exec), Failed(Exec))
  <2>1. UNCHANGED <<slot, booted, sched, cur>> /\ pc[Exec] = "set"
    BY <1>14 DEF SwitchSet
  <2>2. pc'[Exec] \in {"completed", "failed"}
    BY <1>14 DEF SwitchSet, Updated, Failed
  <2>3. Holds(Other(booted), sched[cur].req.image)'
    BY <2>1 DEF Holds
  <2> QED
    BY <1>1, <2>2, <2>3
<1>15. CASE ExecHookHangs \/ FetchStalls(Exec) \/ ExecFinish \/ ExecSaveEnd
  BY <1>1, <1>15 DEF ExecHookHangs, FetchStalls, ExecFinish, ExecSaveEnd
<1> QED
  BY <1>5, <1>6, <1>7, <1>8, <1>9, <1>10, <1>11, <1>12, <1>13, <1>14, <1>15 DEF ExecStep, UpdateStep

\* Every step preserves that what the executor has verified is in the slot.
LEMMA NextInstall ==
  ASSUME Verified, TypeInv, LifeInv, InstallInv, [Next]_vars
  PROVE  InstallInv'
<1>1. CASE ExecStep
  BY <1>1, ExecInstall
<1>2. CASE Restarted
  BY <1>2 DEF Restarted, InstallInv, RpcsIdle
<1>3. CASE /\ UNCHANGED <<slot, booted, runs, cur>> /\ RpcsIdle'
           /\ pc'[Exec] = pc[Exec] /\ job'[Exec] = job[Exec]
  <2>1. pc[Exec] \in Work => sched'[cur].req = sched[cur].req
    BY <1>3, RequestKept
  <2> QED
    BY <1>3, <2>1 DEF InstallInv, Holds, Work
<1> QED
  BY <1>1, <1>2, <1>3, OtherSteps DEF InstallInv

\* A new agent installs nothing.
LEMMA InitInstall == Init => InstallInv
BY AgentAssumption DEF Init, Started, InstallInv, RpcsIdle, Tasks, Exec, Sup

\* InstallInv, with the invariants it rests on.
LEMMA Install == ASSUME Verified PROVE Spec => [](TypeInv /\ LifeInv /\ InstallInv)
<1>1. TypeInv /\ LifeInv /\ InstallInv /\ [Next]_vars => InstallInv'
  BY NextInstall
<1> QED
  BY <1>1, InitInstall, Life, PTL DEF Spec

\* The executor completes an update with its image in the other slot.
LEMMA CompletionStep ==
  ASSUME Verified, TypeInv, LifeInv, InstallInv, [Next]_vars, SameAgent,
         NEW i \in Ids, sched[i].status # "Completed", sched'[i].status = "Completed"
  PROVE  Concluded("Completed") /\ i = cur /\ Holds(Other(booted), sched[i].req.image)
<1>1. ~Restarted
  BY DEF Restarted, SameAgent, TypeInv, TypeOK
<1>2. pc[Exec] \in Work \cup {"mark", "expire"} => cur \in Ids
  BY DEF TypeInv, Known, Work, Busy
<1>3. ~Marked("Running") /\ ~Marked("Failed")
  BY <1>2 DEF Marked, StatusTo
<1>4. Concluded("Completed")
  BY <1>1, <1>2, <1>3, TableSteps DEF TableKept, Scheduled, Cancelled, Registered, Saved, Polled,
     Taken, Launched, Concluded, Closed, StatusTo
<1>5. i = cur /\ pc[Exec] = "completed"
  BY <1>2, <1>4 DEF Concluded, StatusTo
<1> QED
  BY <1>4, <1>5 DEF InstallInv

(***************************************************************************)
(* When the executor marks a schedule Completed, the slot the node does    *)
(* not run from holds the whole image the schedule asked for, whatever     *)
(* downloads, deltas and retries went before: for schedules with a SHA256, *)
(* no InstallUpdate at the same time (MCUpdateAgent_TwoFlashers shows why) *)
(* and a command line that tells the running slot.                         *)
(***************************************************************************)
THEOREM CompletedIsInstalledSafe == ASSUME Verified PROVE Spec => CompletedIsInstalled
<1>1. TypeInv /\ LifeInv /\ InstallInv /\ [Next]_vars
        => [\A i \in Ids :
              SameAgent /\ sched[i].status # "Completed" /\ sched'[i].status = "Completed"
                => Holds(Other(booted), sched[i].req.image)]_vars
  BY CompletionStep
<1> QED
  BY <1>1, Install, PTL DEF Spec, CompletedIsInstalled

-----------------------------------------------------------------------------
(* Scheduled updates implement UpdateJournal                               *)

\* How the moves of a schedule in the table add to what the file may still say.
LEMMA AdvanceRules ==
  ASSUME NEW e \in Status \cup {"Absent"}
  PROVE  /\ Journal!Advances(e, e) /\ Journal!Advances("Absent", "Pending")
         /\ Journal!Advances(e, "Pending") => Journal!Advances(e, "Cancelled")
         /\ Journal!Advances(e, "Pending") \/ Journal!Advances(e, "Cancelled")
              => Journal!Advances(e, "Running") /\ Journal!Advances(e, "Failed")
         /\ Journal!Advances(e, "Running") \/ Journal!Advances(e, "Completed")
              => Journal!Advances(e, "RolledBack")
         /\ e \in {"Running", "RolledBack"}
              => Journal!Advances(e, "Completed") /\ Journal!Advances(e, "Failed")
BY DEF Journal!Advances, Journal!Rank, Journal!Ended, Status

\* Only a flashing executor changes what the slots hold.
LEMMA SlotKept ==
  ASSUME Verified, TypeInv, RpcsIdle, [Next]_vars, pc[Exec] # "flash", ~Restarted
  PROVE  UNCHANGED <<slot, booted>>
<1>1. CASE ExecStep
  <2>1. CASE UpdateStep(Exec)
    <3>1. UNCHANGED booted
      BY <2>1, DiskStepFrame DEF Tasks
    <3>2. UNCHANGED slot
      BY <2>1 DEF UpdateStep, FetchFull, FetchDelta, Flash, FlashError, FetchStalls, Verify,
                  SwitchClear, SwitchSet, diskVars, At
    <3> QED
      BY <3>1, <3>2
  <2>2. CASE ExecPoll \/ ExecNext \/ ExecMark \/ ExecSaveRun \/ ExecStart \/ ExecHookHangs
    BY <2>2 DEF ExecPoll, ExecNext, ExecMark, ExecSaveRun, ExecStart, ExecHookHangs, diskVars
  <2>3. CASE ExecRecord \/ ExecFinish \/ ExecSaveEnd
    BY <2>3 DEF ExecRecord, ExecFinish, ExecSaveEnd, diskVars
  <2> QED
    BY <1>1, <2>1, <2>2, <2>3 DEF ExecStep
<1> QED
  BY <1>1, OtherSteps

\* A new agent has nothing in its journal.
LEMMA InitJournal == Init => JournalInv
<1> SUFFICES ASSUME Init PROVE JournalInv
  OBVIOUS
<1>1. \A i \in Ids : file[i].status = "Absent" /\ sched[i].status = "Absent"
  BY DEF Init, StoreInit, Empty, NoSchedule
<1>2. pc[Exec] = "idle"
  BY DEF Init, Started, Tasks, Exec, Sup
<1> QED
  BY <1>1, <1>2, AdvanceRules DEF JournalInv, Work

\* Every step preserves that the table is never behind the file.
LEMMA NextJournal ==
  ASSUME Verified, ~PersistFaults, TypeInv, LifeInv, InstallInv, JournalInv, [Next]_vars
  PROVE  JournalInv'
<1> USE DEF StatusTo, ExecutorWaits
<1>0. /\ \A i \in Ids : /\ file[i].status \in Status \cup {"Absent"}
                        /\ sched[i].status \in Status \cup {"Absent"}
      /\ pc[Exec] \in Work \cup {"mark", "expire", "saveRun"} => cur \in Ids
      /\ "saveEnd" \notin Work /\ "saveRun" \notin Work /\ due \subseteq Ids
  BY DEF TypeInv, TypeOK, StoreTypeOK, Schedule, Known, Work, Busy
<1> DEFINE Adv == \A i \in Ids : Journal!Advances(file[i].status, sched[i].status)
           Unsaved == \E i \in Ids : file[i].status # "Completed" /\ sched[i].status = "Completed"
<1>1. Adv /\ (pc[Exec] \in Work => file[cur].status \in {"Running", "RolledBack"})
      /\ (Unsaved => pc[Exec] = "saveEnd" /\ Whole(Other(booted)))
  BY DEF JournalInv
<1>2. /\ Adv'
      /\ (pc[Exec] \in Work => file[cur].status \in {"Running", "RolledBack"})'
      /\ (Unsaved => pc[Exec] = "saveEnd" /\ Whole(Other(booted)))'
      => JournalInv'
  BY DEF JournalInv
<1>3. ~Restarted /\ pc[Exec] # "flash" /\ Whole(Other(booted)) => Whole(Other(booted))'
  BY SlotKept DEF InstallInv, Whole, Holds
<1>4. ASSUME file' = sched, sched' = sched,
             (pc[Exec] \in Work)' => pc[Exec] \in Work \cup {"saveRun"} /\ cur' = cur
      PROVE  JournalInv'
  <2>1. Adv' /\ ~Unsaved'
    BY <1>0, <1>4, AdvanceRules
  <2>2. (pc[Exec] \in Work => file[cur].status \in {"Running", "RolledBack"})'
    BY <1>4 DEF LifeInv
  <2> QED
    BY <1>2, <2>1, <2>2
<1>5. CASE TableKept
  <2>1. pc[Exec] = "saveEnd" => pc'[Exec] = "saveEnd" /\ ~Restarted
    BY <1>0, <1>5 DEF TableKept, Restarted
  <2>2. Adv' /\ (Unsaved' <=> Unsaved) /\ cur' = cur /\ file' = file
    BY <1>1, <1>5 DEF TableKept
  <2>3. pc'[Exec] \in Work => pc[Exec] \in Work
    BY <1>5 DEF TableKept
  <2> HIDE DEF Adv, Unsaved
  <2> QED
    BY <1>1, <1>2, <1>3, <2>1, <2>2, <2>3
<1>6. CASE Scheduled
  <2>1. PICK i \in Ids \ issued : /\ sched'[i].status = "Pending"
                                  /\ \A j \in Ids \ {i} : sched'[j] = sched[j]
    BY <1>6 DEF Scheduled
  <2>2. file[i].status = "Absent" /\ file' = file /\ pc'[Exec] = pc[Exec] /\ cur' = cur
    BY <1>6 DEF Scheduled, LifeInv
  <2>3. Adv'
    BY <1>0, <1>1, <2>1, <2>2, AdvanceRules
  <2>4. Unsaved' => Unsaved
    BY <2>1, <2>2
  <2>5. pc[Exec] = "saveEnd" => ~Restarted
    BY <2>2 DEF Restarted
  <2> HIDE DEF Adv, Unsaved
  <2> QED
    BY <1>1, <1>2, <1>3, <2>2, <2>3, <2>4, <2>5
<1>7. CASE Cancelled \/ Registered
  <2>1. PICK i \in Ids, st \in {"Cancelled", "RolledBack"} :
           /\ StatusTo(i, st)
           /\ st = "Cancelled" => sched[i].status = "Pending"
           /\ st = "RolledBack" => sched[i].status \in {"Completed", "Running"}
    BY <1>7 DEF Cancelled, Registered
  <2>2. file' = file /\ pc'[Exec] = pc[Exec] /\ cur' = cur
    BY <1>7 DEF Cancelled, Registered
  <2>3. Journal!Advances(file[i].status, st)
    BY <1>0, <1>1, <2>1, AdvanceRules
  <2>4. Adv'
    BY <1>1, <2>1, <2>2, <2>3
  <2>5. Unsaved' => Unsaved
    BY <2>1, <2>2
  <2>6. pc[Exec] = "saveEnd" => ~Restarted
    BY <2>2 DEF Restarted
  <2> HIDE DEF Adv, Unsaved
  <2> QED
    BY <1>1, <1>2, <1>3, <2>2, <2>4, <2>5, <2>6
<1>8. CASE Saved \/ Launched \/ Closed
  <2>1. file' = sched /\ sched' = sched
    BY <1>8, PersistFacts DEF Saved, Launched, Closed
  <2>2. (pc[Exec] \in Work)' => pc[Exec] \in Work \cup {"saveRun"} /\ cur' = cur
    BY <1>8 DEF Saved, Launched, Closed, Work
  <2> QED
    BY <1>4, <2>1, <2>2
<1>9. CASE Polled \/ Taken
  <2>1. pc'[Exec] \in {"next", "mark", "expire"} /\ sched' = sched /\ file' = file
    BY <1>9 DEF Polled, Taken
  <2>2. pc[Exec] # "saveEnd"
    BY <1>9 DEF Polled, Taken
  <2> QED
    BY <1>1, <1>2, <2>1, <2>2 DEF Work
<1>10. ASSUME NEW st \in {"Running", "Failed"}, Marked(st) PROVE JournalInv'
  <2> DEFINE i == cur
  <2>1. StatusTo(i, st) /\ i \in Ids
    BY <1>0, <1>10 DEF Marked
  <2>2. /\ file' = file /\ pc[Exec] \in {"mark", "expire"}
        /\ pc'[Exec] \in {"saveRun", "saveEnd"}
    BY <1>10 DEF Marked
  <2>3. Journal!Advances(file[i].status, st)
    <3>1. sched[i].status \in {"Pending", "Cancelled"}
      BY <2>2 DEF LifeInv
    <3> QED
      BY <1>0, <1>1, <2>1, <3>1, AdvanceRules
  <2> HIDE DEF i
  <2>4. Adv'
    BY <1>0, <1>1, <2>1, <2>2, <2>3
  <2>5. Unsaved' => Unsaved
    BY <1>0, <2>1, <2>2
  <2>6. ~Unsaved'
    BY <1>1, <2>2, <2>5
  <2> QED
    BY <1>0, <1>2, <2>2, <2>4, <2>6
<1>11. ASSUME NEW st \in {"Completed", "Failed"}, Concluded(st) PROVE JournalInv'
  <2>1. /\ StatusTo(cur, st) /\ file' = file /\ pc'[Exec] = "saveEnd" /\ cur \in Ids
        /\ pc[Exec] \in Work /\ (st = "Completed" => pc[Exec] = "completed")
    BY <1>0, <1>11 DEF Concluded
  <2>2. Journal!Advances(file[cur].status, st)
    <3>1. file[cur].status \in {"Running", "RolledBack"}
      BY <1>1, <2>1
    <3> QED
      BY <3>1, AdvanceRules DEF Status
  <2>3. Adv'
    BY <1>1, <2>1, <2>2
  <2>4. CASE st = "Completed"
    <3>1. Holds(Other(booted), sched[cur].req.image) /\ sched[cur].req \in Requests
      BY <2>1, <2>4 DEF InstallInv, TypeInv, Known, Busy
    <3>2. Whole(Other(booted))
      BY <3>1, AgentAssumption DEF Whole
    <3>3. Whole(Other(booted))'
      BY <1>3, <2>1, <2>4, <3>2 DEF Restarted
    <3> QED
      BY <1>0, <1>2, <2>1, <2>3, <3>3
  <2>5. CASE st = "Failed"
    <3>1. Unsaved' => Unsaved
      BY <2>1, <2>5
    <3>2. ~Unsaved'
      BY <1>0, <1>1, <2>1, <3>1
    <3> QED
      BY <1>0, <1>2, <2>1, <2>3, <3>2
  <2> QED
    BY <2>4, <2>5
<1>12. CASE Restarted
  <2>1. sched' = file' /\ pc'[Exec] = "idle" /\ \A i \in Ids : file'[i].status \in Status \cup {"Absent"}
    BY <1>0, <1>12 DEF Restarted, Empty, NoSchedule
  <2>2. Adv' /\ ~Unsaved'
    BY <2>1, AdvanceRules
  <2> QED
    BY <1>2, <2>1, <2>2 DEF Work
<1> QED
  BY <1>5, <1>6, <1>7, <1>8, <1>9, <1>10, <1>11, <1>12, TableSteps
\* JournalInv, with the invariants it rests on.
LEMMA Journalled ==
  ASSUME Verified, ~PersistFaults
  PROVE  Spec => [](TypeInv /\ LifeInv /\ InstallInv /\ JournalInv)
<1>1. TypeInv /\ LifeInv /\ InstallInv /\ JournalInv /\ [Next]_vars => JournalInv'
  BY NextJournal
<1> QED
  BY <1>1, InitJournal, Install, PTL DEF Spec

\* A whole slot is one in the journal's sense.
LEMMA WholeSlots ==
  ASSUME NEW s \in Slots, Whole(s)
  PROVE  Journal!WholeSlot(s)
<1>1. PICK i \in Images : \A b \in Blocks : slot[s][b] = i
  BY DEF Whole, Holds
<1>2. 1 \in Blocks /\ i # Junk
  BY DiskAssumption DEF Blocks
<1>3. i \in {slot[s][b] : b \in Blocks} \ {Junk}
  BY <1>1, <1>2
<1> QED
  BY <1>1, <1>3 DEF Journal!WholeSlot

\* A factory-fresh node is a node with an empty journal.
LEMMA InitRefines == Init => Journal!Init
<1> SUFFICES ASSUME Init PROVE Journal!Init
  OBVIOUS
<1>1. [i \in Ids |-> file[i].status] = [u \in Ids |-> "Absent"]
  BY DEF Init, StoreInit, Empty, NoSchedule
<1>2. booted \in Slots /\ Whole(booted)
  BY DiskAssumption DEF Init, DiskInit, Slots, Whole, Holds
<1> QED
  BY <1>1, <1>2, WholeSlots DEF Journal!Init

\* persist_schedules is an entry in the journal.
LEMMA SaveRefines ==
  ASSUME TypeInv, JournalInv, Up, file' = sched, UNCHANGED <<slot, booted>>
  PROVE  Journal!Log
<1> DEFINE e == [i \in Ids |-> file[i].status]
<1>1. \A i \in Ids : e[i] = file[i].status /\ e'[i] = sched[i].status
  OBVIOUS
<1>2. \A i \in Ids : Journal!Advances(e[i], e'[i])
  <2>1. \A i \in Ids : Journal!Advances(file[i].status, sched[i].status)
    BY DEF JournalInv
  <2> QED
    BY <1>1, <2>1 DEF Journal!Advances
<1>3. ASSUME NEW i \in Ids, e[i] # "Completed", e'[i] = "Completed"
      PROVE  \E s \in Slots \ {booted} : Journal!WholeSlot(s)
  <2>1. Whole(Other(booted))
    BY <1>1, <1>3 DEF JournalInv
  <2>2. Other(booted) \in Slots \ {booted}
    BY DEF Up, TypeInv, TypeOK, DiskTypeOK, Other, Slots
  <2> QED
    BY <2>1, <2>2, WholeSlots
<1> QED
  BY <1>2, <1>3 DEF Journal!Log

\* A chunk that the executor writes is a write of an update in the journal.
LEMMA FlashRefines ==
  ASSUME TypeInv, InstallInv, JournalInv, Flash(Exec)
  PROVE  Journal!Write
<1> DEFINE e == [i \in Ids |-> file[i].status]
           s == Other(booted)
<1>1. /\ pc[Exec] = "flash" /\ Up /\ UNCHANGED <<file, booted>>
      /\ slot' = [slot EXCEPT ![job[Exec].slot][job[Exec].blk + 1] = job[Exec].data]
  BY DEF Flash, At, WriteBlock, storeVars
<1>2. cur \in Ids /\ Journal!Begun(e[cur])
  BY <1>1 DEF JournalInv, TypeInv, Known, Busy, Work, Journal!Begun
<1>3. s \in Slots \ {booted}
  BY <1>1 DEF Up, TypeInv, TypeOK, DiskTypeOK, Other, Slots
<1>4. slot' = [slot EXCEPT ![s] = slot'[s]]
  <2>1. job[Exec].slot = s
    BY <1>1 DEF InstallInv
  <2>2. slot' = [slot EXCEPT ![s] = [slot[s] EXCEPT ![job[Exec].blk + 1] = job[Exec].data]]
    BY <1>1, <1>3, <2>1 DEF TypeInv, TypeOK, DiskTypeOK
  <2> QED
    BY <1>3, <2>2 DEF TypeInv, TypeOK, DiskTypeOK
<1>5. slot'[s] \in {slot'[t] : t \in Slots}
  BY <1>3
<1>6. e' = e
  BY <1>1
<1> QED
  BY <1>1, <1>2, <1>3, <1>4, <1>5, <1>6 DEF Journal!Write

\* A restart is a restart of the journal's node.
LEMMA RestartRefines ==
  ASSUME TypeInv, Restart, BootSlot \/ UNCHANGED booted
  PROVE  Journal!Start
<1>1. booted' \in Slots \cup {NoSlot}
  BY DEF TypeInv, TypeOK, DiskTypeOK, BootSlot
<1>2. file' = file \/ file' = Empty
  BY DEF Restart, Reload
<1>3. \/ [i \in Ids |-> file[i].status]' = [i \in Ids |-> file[i].status]
      \/ [i \in Ids |-> file[i].status]' = [i \in Ids |-> "Absent"]
  BY <1>2 DEF Empty, NoSchedule
<1> QED
  BY <1>1, <1>3 DEF Restart, Journal!Start, Journal!Lost
\* Every step of the agent is a step of the journalled update, or none.
LEMMA NextRefines ==
  ASSUME Verified, ~PersistFaults, TypeInv, InstallInv, JournalInv, [Next]_vars
  PROVE  [Journal!Next]_(Journal!journalVars)
<1> USE DEF storeVars, diskVars
<1>1. ASSUME UNCHANGED <<file, slot, booted>> PROVE UNCHANGED Journal!journalVars
  BY <1>1 DEF Journal!journalVars
<1>2. ASSUME Up, Persist, UNCHANGED <<slot, booted>> PROVE Journal!Next
  BY <1>2, PersistFacts, SaveRefines DEF Journal!Next
<1>3. ASSUME NEW t \in Rpcs PROVE ~UpdateStep(t) /\ ~RollbackStep(t)
  BY <1>3 DEF InstallInv, RpcsIdle, UpdateStep, FetchFull, FetchDelta, Flash, FlashError,
              FetchStalls, Verify, SwitchClear, SwitchSet, RollbackStep, Forget, At
<1>4. ASSUME NEW t \in Rpcs, RpcCall(t) PROVE UNCHANGED <<file, slot, booted>>
  BY <1>4 DEF RpcCall, RpcSchedule, RpcCancel, RpcInstall, RpcRollback, RpcDropped
<1>5. ASSUME NEW t \in Rpcs, RpcSave(t) PROVE Journal!Next
  BY <1>2, <1>5 DEF RpcSave, At
<1>6. CASE ExecSaveRun \/ ExecSaveEnd \/ SupSave
  BY <1>2, <1>6 DEF ExecSaveRun, ExecSaveEnd, SupSave, At
<1>7. CASE Flash(Exec)
  BY <1>7, FlashRefines DEF Journal!Next
<1>8. CASE UpdateStep(Exec) /\ ~Flash(Exec)
  <2>1. UNCHANGED <<file, slot, booted>>
    BY <1>8 DEF UpdateStep, FetchFull, FetchDelta, FlashError, FetchStalls, Verify, SwitchClear,
                SwitchSet
  <2> QED
    BY <1>1, <2>1
<1>9. CASE RollbackStep(Sup)
  <2>1. UNCHANGED <<file, slot, booted>>
    BY <1>9 DEF RollbackStep, SwitchClear, SwitchSet, Forget
  <2> QED
    BY <1>1, <2>1
<1>10. CASE \/ ExecPoll \/ ExecNext \/ ExecMark \/ ExecStart \/ ExecHookHangs \/ ExecRecord
            \/ ExecFinish
  <2>1. UNCHANGED <<file, slot, booted>>
    BY <1>10 DEF ExecPoll, ExecNext, ExecMark, ExecStart, ExecHookHangs, ExecRecord, ExecFinish
  <2> QED
    BY <1>1, <2>1
<1>11. CASE SupCheck \/ SupRegister \/ SupRollback \/ SupRebootFails \/ Tick \/ UNCHANGED vars
  <2>1. UNCHANGED <<file, slot, booted>>
    BY <1>11 DEF SupCheck, SupRegister, SupRollback, SupRebootFails, Tick, vars
  <2> QED
    BY <1>1, <2>1
<1>12. CASE AgentRestart \/ Reboot \/ SupReboot
  BY <1>12, RestartRefines DEF AgentRestart, Reboot, SupReboot, Journal!Next
<1> QED
  BY <1>1, <1>3, <1>4, <1>5, <1>6, <1>7, <1>8, <1>9, <1>10, <1>11, <1>12
  DEF Next, ExecStep, SupStep, RpcStep

(***************************************************************************)
(* Scheduled updates implement the journalled update of UpdateJournal,     *)
(* with the schedule file as the journal: an update is in the file before  *)
(* it writes to the slot that is not running, it is Completed there only   *)
(* when that slot holds a whole image, and no schedule that left Pending   *)
(* comes back to it, whatever crashes and reboots interleave.              *)
(***************************************************************************)
THEOREM JournalRefinement == ASSUME Verified, ~PersistFaults PROVE Spec => ImplementsJournal
<1>1. TypeInv /\ InstallInv /\ JournalInv /\ [Next]_vars => [Journal!Next]_(Journal!journalVars)
  BY NextRefines
<1> QED
  BY <1>1, InitRefines, Journalled, PTL DEF Spec, ImplementsJournal, Journal!Spec
-----------------------------------------------------------------------------
(* A node's first update                                                   *)

\* A node that never updated boots a whole image.
LEMMA InitBoot == Init => BootInv
<1> SUFFICES ASSUME Init PROVE BootInv
  OBVIOUS
<1>1. pc[Exec] = "idle" /\ pc[Sup] = "grace"
  BY DEF Init, Started, Tasks, Exec, Sup
<1>2. booted = "A" /\ bootable = {"A"} /\ previous = NoSlot
  BY DEF Init, DiskInit
<1>3. Whole("A")
  BY DiskAssumption DEF Init, DiskInit, Slots, Whole, Holds
<1> QED
  BY <1>1, <1>2, <1>3 DEF BootInv

\* The executor's steps and the boot flags.
LEMMA ExecBoot ==
  ASSUME Verified, ~PersistFaults, TypeInv, OnceInv, InstallInv, BootInv, ExecStep
  PROVE  BootInv'
<1> USE DEF Goto, At, Finish, storeVars, diskVars, Tasks, Exec, Sup
<1>1. pc \in [Tasks -> PCs] /\ job \in [Tasks -> Job] /\ Exec # Sup /\ runs \in [Ids -> Nat]
  BY DEF TypeInv, TypeOK
<1>2. /\ UNCHANGED booted /\ Up
      /\ pc'[Sup] = pc[Sup] /\ job'[Sup] = job[Sup]
  <2>1. CASE UpdateStep(Exec)
    <3>1. Up
      BY <2>1 DEF UpdateStep, FetchFull, FetchDelta, Flash, FlashError, FetchStalls, Verify,
                  SwitchClear, SwitchSet
    <3> QED
      BY <2>1, <3>1, DiskStepFrame
  <2>2. CASE \/ ExecPoll \/ ExecNext \/ ExecMark \/ ExecSaveRun \/ ExecHookHangs \/ ExecFinish
             \/ ExecSaveEnd
    BY <1>1, <2>2 DEF ExecPoll, ExecNext, ExecMark, ExecSaveRun, ExecHookHangs, ExecFinish,
                      ExecSaveEnd
  <2>3. CASE ExecStart \/ ExecRecord
    BY <1>1, <2>3 DEF ExecStart, ExecRecord
  <2> QED
    BY <2>1, <2>2, <2>3 DEF ExecStep
<1>3. ASSUME UNCHANGED <<slot, bootable, previous, runs>>,
             pc'[Exec] \in {"fetch", "flash", "verify"} => pc[Exec] \in {"fetch", "flash", "verify"},
             pc'[Exec] \in {"record", "clear", "set"}
               => pc[Exec] \in {"fetch", "flash", "verify", "record", "clear", "set"}
      PROVE  BootInv'
  BY <1>2, <1>3 DEF BootInv, FewRuns, NoRuns, Whole, Holds
<1>4. CASE \/ ExecPoll \/ ExecNext \/ ExecMark \/ ExecSaveRun \/ ExecHookHangs \/ ExecFinish
           \/ ExecSaveEnd
  BY <1>1, <1>3, <1>4 DEF ExecPoll, ExecNext, ExecMark, ExecSaveRun, ExecHookHangs, ExecFinish,
                          ExecSaveEnd
<1>5. CASE ExecStart
  <2>1. UNCHANGED <<slot, bootable, previous>> /\ pc[Exec] = "start" /\ cur \in Ids /\ runs[cur] = 0
    BY <1>5 DEF ExecStart, TypeInv, Known, Busy, OnceInv, Starting, Once
  <2>2. runs'[cur] = 1 /\ \A i \in Ids \ {cur} : runs'[i] = runs[i]
    BY <1>1, <1>5, <2>1 DEF ExecStart
  <2>3. FewRuns' => NoRuns /\ FewRuns
    BY <1>1, <2>1, <2>2 DEF FewRuns, NoRuns
  <2>4. ~NoRuns'
    BY <2>1, <2>2 DEF NoRuns
  <2> QED
    BY <1>2, <2>1, <2>3, <2>4 DEF BootInv, Whole, Holds
<1>6. CASE \/ FetchFull(Exec) \/ FetchDelta(Exec) \/ FlashError(Exec) \/ FetchStalls(Exec)
           \/ Verify(Exec)
  <2>1. UNCHANGED <<slot, bootable, previous, runs>> /\ pc[Exec] \in {"fetch", "flash", "verify"}
    BY <1>6 DEF FetchFull, FetchDelta, FlashError, FetchStalls, Verify
  <2> QED
    BY <1>3, <2>1
<1>7. CASE Flash(Exec)
  <2>1. /\ UNCHANGED <<bootable, previous, runs>> /\ pc[Exec] = "flash"
        /\ slot' = [slot EXCEPT ![job[Exec].slot][job[Exec].blk + 1] = job[Exec].data]
    BY <1>7 DEF Flash, WriteBlock
  <2>2. ~NoRuns /\ (FewRuns' <=> FewRuns) /\ (NoRuns' <=> NoRuns)
    BY <2>1 DEF BootInv, FewRuns, NoRuns
  <2>3. SUFFICES ASSUME FewRuns PROVE BootInv'
    BY <2>2 DEF BootInv
  <2>4. booted = "A" /\ bootable = {"A"} /\ previous = NoSlot /\ pc[Sup] \notin {"rbClear", "rbSet"}
    BY <2>1, <2>3 DEF BootInv
  <2>5. job[Exec].slot = "B"
    BY <2>1, <2>4 DEF InstallInv, Other
  <2>6. slot'["A"] = slot["A"]
    BY <2>1, <2>5 DEF TypeInv, TypeOK, DiskTypeOK, Slots
  <2>7. Whole("A")'
    <3>1. Whole("A")
      BY <2>3, <2>4 DEF BootInv
    <3> QED
      BY <2>6, <3>1 DEF Whole, Holds
  <2> QED
    BY <1>2, <2>1, <2>2, <2>4, <2>7 DEF BootInv
<1>8. CASE ExecRecord
  <2>1. /\ UNCHANGED <<slot, bootable, runs>> /\ pc[Exec] = "record" /\ pc'[Exec] \in {"clear", "failed"}
        /\ previous' \in {booted, previous}
    BY <1>1, <1>8 DEF ExecRecord, RecordActive, ActivePartition, Verified
  <2>2. ~NoRuns /\ (FewRuns' <=> FewRuns) /\ (NoRuns' <=> NoRuns)
    BY <2>1 DEF BootInv, FewRuns, NoRuns
  <2>3. \A s \in Slots : Whole(s)' <=> Whole(s)
    BY <2>1 DEF Whole, Holds
  <2>4. Whole(booted) /\ booted \in Slots
    BY <1>2 DEF Up, TypeInv, TypeOK, DiskTypeOK
  <2>5. bootable \subseteq Slots /\ previous \in Slots \cup {NoSlot}
    BY DEF TypeInv, TypeOK, DiskTypeOK
  <2>6. FewRuns => \A s \in bootable \cup ({previous'} \ {NoSlot}) : Whole(s)'
    BY <2>1, <2>3, <2>4, <2>5 DEF BootInv
  <2>7. FewRuns /\ pc[Sup] \in {"rbClear", "rbSet"} => Whole(job[Sup].slot)'
    BY <1>2, <2>1 DEF BootInv, Whole, Holds
  <2> QED
    BY <1>2, <2>1, <2>2, <2>6, <2>7 DEF BootInv, Whole, Holds
<1>9. CASE \/ SwitchClear(Exec, "clear", "set", Failed(Exec))
           \/ SwitchSet(Exec, "set", Updated(Exec), Failed(Exec))
  <2>1. /\ UNCHANGED <<slot, previous, runs>> /\ pc[Exec] \in {"clear", "set"}
        /\ pc'[Exec] \in {"set", "completed", "failed"}
    BY <1>1, <1>9 DEF SwitchClear, SwitchSet, Updated, Failed
  <2>2. bootable' \subseteq bootable \cup {job[Exec].slot}
    BY <1>9 DEF SwitchClear, SwitchSet, ClearBootFlag, SetBootFlag
  <2>3. Whole(job[Exec].slot)
    <3>1. Holds(job[Exec].slot, job[Exec].req.image) /\ job[Exec].req = sched[cur].req
      BY <2>1 DEF InstallInv
    <3>2. sched[cur].req \in Requests
      BY <2>1 DEF TypeInv, Known, Busy
    <3> QED
      BY <3>1, <3>2, AgentAssumption DEF Whole
  <2>4. ~NoRuns /\ (FewRuns' <=> FewRuns) /\ (NoRuns' <=> NoRuns)
    BY <2>1 DEF BootInv, FewRuns, NoRuns
  <2>5. \A s : Whole(s) => Whole(s)'
    BY <2>1 DEF Whole, Holds
  <2>6. FewRuns => \A s \in bootable' \cup ({previous} \ {NoSlot}) : Whole(s)'
    BY <2>2, <2>3, <2>5 DEF BootInv
  <2>7. FewRuns /\ pc[Sup] \in {"rbClear", "rbSet"} => Whole(job[Sup].slot)'
    BY <1>2, <2>1 DEF BootInv, Whole, Holds
  <2> QED
    BY <1>2, <2>1, <2>4, <2>6, <2>7 DEF BootInv, Whole, Holds
<1> QED
  BY <1>4, <1>5, <1>6, <1>7, <1>8, <1>9 DEF ExecStep, UpdateStep
\* The supervisor's rollback and the boot flags.
LEMMA SupBoot ==
  ASSUME TypeInv, BootInv, SupRollback \/ RollbackStep(Sup)
  PROVE  BootInv'
<1> USE DEF Goto, At, Finish, storeVars, diskVars, Tasks, Exec, Sup
<1>1. pc \in [Tasks -> PCs] /\ job \in [Tasks -> Job] /\ Exec # Sup /\ Sup \in Tasks
  BY DEF TypeInv, TypeOK
<1>2. UNCHANGED <<slot, booted, runs>> /\ pc'[Exec] = pc[Exec]
  BY <1>1 DEF SupRollback, RollbackStep, SwitchClear, SwitchSet, Forget
<1>3. /\ \A s : Whole(s)' <=> Whole(s)
      /\ FewRuns' <=> FewRuns
      /\ NoRuns' <=> NoRuns
  BY <1>2 DEF Whole, Holds, FewRuns, NoRuns
<1>4. SUFFICES ASSUME FewRuns PROVE BootInv'
  BY <1>2, <1>3 DEF BootInv
<1>5. CASE SupRollback
  <2>1. UNCHANGED <<bootable, previous>>
    BY <1>5 DEF SupRollback
  <2>2. CASE pc'[Sup] = "done"
    BY <1>2, <1>3, <2>1, <2>2 DEF BootInv
  <2>3. CASE pc'[Sup] # "done"
    <3>1. /\ previous # NoSlot /\ pc'[Sup] = "rbClear"
          /\ job' = [job EXCEPT ![Sup] = [NoJob EXCEPT !.slot = previous]]
      BY <1>1, <1>5, <2>3 DEF SupRollback
    <3>2. NoJob \in Job
      BY JobTypes
    <3>3. job'[Sup].slot = previous
      BY <1>1, <3>1, <3>2 DEF Job
    <3>4. Whole(previous) /\ ~NoRuns /\ pc[Exec] \notin {"fetch", "flash", "verify"}
      BY <1>4, <3>1 DEF BootInv
    <3>5. Whole(job[Sup].slot)'
      BY <1>3, <3>3, <3>4 DEF Whole, Holds
    <3> QED
      BY <1>2, <1>3, <2>1, <3>4, <3>5 DEF BootInv
  <2> QED
    BY <2>2, <2>3
<1>6. CASE SwitchClear(Sup, "rbClear", "rbSet", Unrolled(Sup))
  <2>1. UNCHANGED previous /\ pc[Sup] = "rbClear" /\ bootable' \subseteq bootable
    BY <1>6 DEF SwitchClear, ClearBootFlag
  <2>2. pc'[Sup] = "done" \/ (pc'[Sup] = "rbSet" /\ UNCHANGED job)
    BY <1>1, <1>6 DEF SwitchClear, Unrolled
  <2>3. ~NoRuns /\ pc[Exec] \notin {"fetch", "flash", "verify"} /\ Whole(job[Sup].slot)
    BY <1>4, <2>1 DEF BootInv
  <2>4. \A s \in bootable' \cup ({previous'} \ {NoSlot}) : Whole(s)'
    BY <1>3, <1>4, <2>1 DEF BootInv
  <2>5. pc'[Sup] = "rbSet" => Whole(job[Sup].slot)'
    BY <1>2, <2>2, <2>3 DEF Whole, Holds
  <2> QED
    BY <1>2, <1>3, <2>2, <2>3, <2>4, <2>5 DEF BootInv
<1>7. CASE SwitchSet(Sup, "rbSet", "forget", Unrolled(Sup))
  <2>1. /\ UNCHANGED previous /\ pc[Sup] = "rbSet" /\ bootable' \subseteq bootable \cup {job[Sup].slot}
        /\ pc'[Sup] \in {"done", "forget"}
    BY <1>1, <1>7 DEF SwitchSet, SetBootFlag, Unrolled
  <2>2. ~NoRuns /\ pc[Exec] \notin {"fetch", "flash", "verify"} /\ Whole(job[Sup].slot)
    BY <1>4, <2>1 DEF BootInv
  <2>3. \A s \in bootable' \cup ({previous'} \ {NoSlot}) : Whole(s)'
    BY <1>3, <1>4, <2>1, <2>2 DEF BootInv
  <2> QED
    BY <1>2, <1>3, <2>1, <2>2, <2>3 DEF BootInv
<1>8. CASE Forget(Sup)
  <2>1. UNCHANGED bootable /\ previous' \in {previous, NoSlot} /\ pc'[Sup] \in {"reboot", "done"}
    BY <1>1, <1>8 DEF Forget, ForgetPrevious, Rolled, Unrolled
  <2> QED
    BY <1>2, <1>3, <1>4, <2>1 DEF BootInv
<1> QED
  BY <1>5, <1>6, <1>7, <1>8 DEF RollbackStep

\* Every step preserves that what can be booted is whole, until the second update.
LEMMA NextBoot ==
  ASSUME Verified, ~PersistFaults, TypeInv, OnceInv, InstallInv, BootInv, [Next]_vars
  PROVE  BootInv'
<1> USE DEF Goto, At, Finish, storeVars, diskVars, Tasks, Exec, Sup
<1>1. /\ pc \in [Tasks -> PCs] /\ job \in [Tasks -> Job]
      /\ Exec # Sup /\ Sup \in Tasks /\ Sup \notin Rpcs
  BY AgentAssumption DEF TypeInv, TypeOK
<1>2. ASSUME UNCHANGED <<slot, booted, bootable, previous, runs>>, pc'[Exec] = pc[Exec],
             \/ pc'[Sup] = pc[Sup] /\ job'[Sup] = job[Sup]
             \/ pc'[Sup] \notin {"rbClear", "rbSet"}
      PROVE  BootInv'
  BY <1>2 DEF BootInv, FewRuns, NoRuns, Whole, Holds
<1>3. ASSUME NEW t \in Rpcs PROVE ~UpdateStep(t) /\ ~RollbackStep(t)
  BY <1>3 DEF InstallInv, RpcsIdle, UpdateStep, FetchFull, FetchDelta, Flash, FlashError,
              FetchStalls, Verify, SwitchClear, SwitchSet, RollbackStep, Forget
<1>4. ASSUME NEW t \in Rpcs PROVE ~RpcInstall(t) /\ ~RpcRollback(t)
  BY <1>4 DEF RpcInstall, RpcRollback, Verified
<1>5. ASSUME NEW t \in Rpcs, RpcSchedule(t) \/ RpcCancel(t) \/ RpcSave(t) \/ RpcDropped(t)
      PROVE  BootInv'
  <2>1. t # Exec /\ t # Sup
    BY AgentAssumption
  <2>2. /\ UNCHANGED <<slot, booted, bootable, previous, runs>>
        /\ pc'[Exec] = pc[Exec] /\ pc'[Sup] = pc[Sup] /\ job'[Sup] = job[Sup]
    BY <1>1, <1>5, <2>1 DEF RpcSchedule, RpcCancel, RpcSave, RpcDropped
  <2> QED
    BY <1>2, <2>2
<1>6. CASE SupCheck \/ SupRegister \/ SupSave \/ SupRebootFails
  <2>1. UNCHANGED <<slot, booted, bootable, previous, runs>> /\ pc'[Exec] = pc[Exec]
    BY <1>1, <1>6 DEF SupCheck, SupRegister, SupSave, SupRebootFails
  <2>2. pc'[Sup] \in {"done", "register", "save", "rollback"}
    BY <1>1, <1>6 DEF SupCheck, SupRegister, SupSave, SupRebootFails
  <2> QED
    BY <1>2, <2>1, <2>2
<1>7. CASE AgentRestart \/ Reboot \/ SupReboot
  <2>1. /\ UNCHANGED <<slot, bootable, runs>> /\ previous' \in {previous, NoSlot}
        /\ pc'[Exec] = "idle" /\ pc'[Sup] = "grace"
    BY <1>7 DEF AgentRestart, Reboot, SupReboot, Restart, Started
  <2>2. booted' = booted \/ booted' \in (IF bootable = {} THEN {NoSlot} ELSE bootable)
    BY <1>7 DEF AgentRestart, Reboot, SupReboot, BootSlot
  <2> QED
    BY <2>1, <2>2 DEF BootInv, FewRuns, NoRuns, Whole, Holds
<1>8. CASE Tick \/ UNCHANGED vars
  BY <1>2, <1>8 DEF Tick, taskVars, vars
<1> QED
  BY <1>3, <1>4, <1>5, <1>6, <1>7, <1>8, ExecBoot, SupBoot
  DEF Next, SupStep, RpcStep, RpcCall

\* At most one schedule with a start, in terms of its members.
LEMMA FewRunsByCardinality ==
  ASSUME Cardinality({i \in Ids : runs[i] > 0}) <= 1
  PROVE  FewRuns
<1> DEFINE S == {i \in Ids : runs[i] > 0}
<1>1. SUFFICES ASSUME NEW i \in S, NEW j \in S, i # j PROVE FALSE
  BY DEF FewRuns
<1>2. IsFiniteSet(S) /\ Cardinality(S) \in Nat
  BY AgentAssumption, FS_Subset, FS_CardinalityType, S \subseteq Ids
<1>3. IsFiniteSet({i}) /\ Cardinality({i}) = 1
  BY FS_Singleton
<1>4. Cardinality({i} \cup {j}) = 2
  <2>1. Cardinality({i} \cup {j}) = IF j \in {i} THEN Cardinality({i}) ELSE Cardinality({i}) + 1
    <3> HIDE DEF S
    <3> QED
      BY <1>3, FS_AddElement, Zenon
  <2> QED
    BY <1>1, <1>3, <2>1
<1>5. Cardinality({i} \cup {j}) <= Cardinality(S)
  BY <1>2, FS_Subset, {i} \cup {j} \in SUBSET S
<1> QED
  BY <1>2, <1>4, <1>5

(***************************************************************************)
(* The first update of a node, with a SHA256, never leaves it a boot flag  *)
(* or a rollback target on half an image: whatever download, sgdisk call,  *)
(* hook or state file fails, and wherever the agent or the node dies.      *)
(***************************************************************************)
THEOREM FirstUpdateBootsSafe == ASSUME Verified, ~PersistFaults PROVE Spec => []FirstUpdateBoots
<1>1. Init => OnceInv
  BY DEF Init, StoreInit, Started, Empty, NoSchedule, OnceInv, Once, Starting, Tasks, Exec, Sup
<1>2. TypeInv /\ OnceInv /\ [Next]_vars => OnceInv'
  BY NextOnce
<1>3. TypeInv /\ OnceInv /\ InstallInv /\ BootInv /\ [Next]_vars => BootInv'
  BY NextBoot
<1>4. BootInv => FirstUpdateBoots
  BY FewRunsByCardinality DEF BootInv, FirstUpdateBoots
<1> QED
  BY <1>1, <1>2, <1>3, <1>4, InitBoot, Install, PTL DEF Spec
=============================================================================
