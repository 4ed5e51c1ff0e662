---------------------------- MODULE UpdateAgent -----------------------------
(***************************************************************************)
(* OS updates in keel-agent: the background schedule executor and the      *)
(* rollback supervisor (cmd/keel-agent/src/main.rs), and the gRPC handlers *)
(* that schedule, cancel, install and roll back (cmd/keel-agent/src/       *)
(* lib.rs), all running concurrently over one schedule table               *)
(* (ScheduleStore) and one A/B disk (BootDisk).                            *)
(*                                                                         *)
(* Each task is a thread of control of the tokio runtime.  A step ends     *)
(* where the code awaits, takes or drops the table's lock, or starts an    *)
(* external command; between two steps of a task any other task may run,   *)
(* the agent may die, or the node may reboot.                              *)
(***************************************************************************)
EXTENDS ScheduleStore, BootDisk

CONSTANTS
  Rpcs,          \* gRPC handlers that may be in flight at the same time
  NoId,          \* "no schedule"
  BadImages,     \* images whose critical health checks fail
  Flaky,         \* a health check may also fail on a good image
  UpdateFaults,  \* hooks, downloads and device writes may fail
  Stalls,        \* an update hook or a download may never end
  AllowCancel,   \* clients send CancelScheduledUpdate
  AllowInstall,  \* clients send InstallUpdate and TriggerRollback
  Interrupts,    \* crashes and reboots may hit a task between two of its steps
  MaxTime,       \* bound on the clock
  MaxRestarts    \* bound on agent restarts and reboots

Exec == "executor"
Sup == "supervisor"
Tasks == Rpcs \cup {Exec, Sup}

ASSUME AgentAssumption ==
  /\ IsFiniteSet(Ids)
  /\ NoId \notin Ids
  /\ Exec \notin Rpcs /\ Sup \notin Rpcs
  /\ BadImages \subseteq Images
  /\ \A r \in Requests : r.image \in Images /\ r.base \in Images
  /\ {Flaky, UpdateFaults, Stalls, AllowCancel, AllowInstall, Interrupts} \subseteq BOOLEAN
  /\ MaxTime \in Nat /\ MaxRestarts \in Nat

VARIABLES
  pc,        \* where each task is
  job,       \* the update or rollback a task is carrying out
  due,       \* the executor's snapshot of get_due_schedules, still to do
  cur,       \* the schedule the executor is working on
  issued,    \* ids handed out so far (UUIDs are not reused)
  runs,      \* how often each schedule's execution was started
  restarts   \* agent restarts and reboots so far

taskVars == <<pc, job, due, cur, issued, runs, restarts>>
vars == <<sched, file, now, booted, slot, bootable, previous,
          pc, job, due, cur, issued, runs, restarts>>

PCs == {"idle", "save",                                       \* gRPC handlers
        "next", "mark", "expire", "saveRun", "start", "record", "completed", "failed",
        "saveEnd", "hung",
        "fetch", "flash", "verify", "clear", "set",           \* an update
        "grace", "register", "rollback", "reboot", "done",    \* supervisor
        "rbClear", "rbSet", "forget"}                         \* a rollback

Job == [slot : Slots \cup {NoSlot},           \* the slot to write or to boot
        req : Requests \cup {NoReq},
        data : Bytes,                         \* the bytes being written
        blk : 0 .. NBlocks,                   \* blocks written
        full : BOOLEAN]                       \* flash_full_image, not a delta

NoJob == [slot |-> NoSlot, req |-> NoReq, data |-> Junk, blk |-> 0, full |-> TRUE]

TypeOK ==
  /\ StoreTypeOK
  /\ DiskTypeOK
  /\ pc \in [Tasks -> PCs]
  /\ job \in [Tasks -> Job]
  /\ due \in SUBSET Ids
  /\ cur \in Ids \cup {NoId}
  /\ issued \in SUBSET Ids
  /\ runs \in [Ids -> Nat]
  /\ restarts \in Nat

\* Where main() leaves the tasks of an agent that has just started.
Started == [t \in Tasks |-> IF t = Sup THEN "grace" ELSE "idle"]

Init ==
  /\ StoreInit
  /\ DiskInit
  /\ pc = Started
  /\ job = [t \in Tasks |-> NoJob]
  /\ due = {}
  /\ cur = NoId
  /\ issued = {}
  /\ runs = [i \in Ids |-> 0]
  /\ restarts = 0

-----------------------------------------------------------------------------

Goto(t, l) == pc' = [pc EXCEPT ![t] = l]

At(t, l) == Up /\ pc[t] = l

\* The task is finished with its job and goes to l.
Finish(t, l) == Goto(t, l) /\ job' = [job EXCEPT ![t] = NoJob]

\* Where an update that went wrong, and one that went right, takes its task.
Failed(t) == IF t = Exec THEN "failed" ELSE "idle"
Flashed(t) == IF t = Exec THEN "record" ELSE "clear"
Updated(t) == IF t = Exec THEN "completed" ELSE "idle"

\* Where a rollback that went wrong, and one that went right, takes its task:
\* only the supervisor reboots.
Unrolled(t) == IF t = Sup THEN "done" ELSE "idle"
Rolled(t) == IF t = Sup THEN "reboot" ELSE "idle"

NewJob(s, r) == [slot |-> s, req |-> r, data |-> Junk, blk |-> 0, full |-> ~r.delta]

-----------------------------------------------------------------------------
(* gRPC handlers                                                           *)

\* schedule_update: a Pending schedule under a fresh id, then the file.
RpcSchedule(t) ==
  /\ At(t, "idle")
  /\ \E i \in Ids \ issued, r \in Requests :
       Insert(i, r) /\ issued' = issued \cup {i}
  /\ Goto(t, "save")
  /\ UNCHANGED <<file, now, diskVars, job, due, cur, runs, restarts>>

\* cancel_scheduled_update on a Pending schedule; on any other it changes
\* nothing.
RpcCancel(t) ==
  /\ AllowCancel
  /\ At(t, "idle")
  /\ \E i \in Ids : Cancel(i)
  /\ Goto(t, "save")
  /\ UNCHANGED <<file, now, diskVars, job, due, cur, issued, runs, restarts>>

\* The handler's persist_schedules; its outcome only shapes the reply.
RpcSave(t) ==
  /\ At(t, "save")
  /\ Persist
  /\ Goto(t, "idle")
  /\ UNCHANGED <<sched, now, diskVars, job, due, cur, issued, runs, restarts>>

\* install_update: the inactive slot is chosen when the stream starts.
RpcInstall(t) ==
  /\ AllowInstall
  /\ At(t, "idle")
  /\ \E s \in InactivePartition, r \in Requests :
       job' = [job EXCEPT ![t] = NewJob(s, r)]
  /\ Goto(t, "fetch")
  /\ UNCHANGED <<storeVars, diskVars, due, cur, issued, runs, restarts>>

\* The client goes away and tonic drops the handler's future where it awaits or
\* yields: before persist_schedules has the table's read lock, or in the middle
\* of an install_update.
RpcDropped(t) ==
  /\ t \in Rpcs
  /\ Up /\ pc[t] \in {"save", "fetch", "flash", "verify", "clear", "hung"}
  /\ Finish(t, "idle")
  /\ UNCHANGED <<storeVars, diskVars, due, cur, issued, runs, restarts>>

\* trigger_rollback: an error reply when no previous partition is recorded.
RpcRollback(t) ==
  /\ AllowInstall
  /\ At(t, "idle")
  /\ previous # NoSlot
  /\ job' = [job EXCEPT ![t] = [NoJob EXCEPT !.slot = previous]]
  /\ Goto(t, "rbClear")
  /\ UNCHANGED <<storeVars, diskVars, due, cur, issued, runs, restarts>>

-----------------------------------------------------------------------------
(* disk::flash_image and disk::switch_boot_partition, run by the executor  *)
(* for a schedule or by an install_update handler.                         *)

Updaters == Rpcs \cup {Exec}

\* flash_full_image opens the download.
FetchFull(t) ==
  /\ At(t, "fetch") /\ job[t].full
  /\ \E d \in {job[t].req.image} \cup (IF UpdateFaults THEN {Junk} ELSE {}) :
       job' = [job EXCEPT ![t].data = d, ![t].blk = 0]
  /\ Goto(t, "flash")
  /\ UNCHANGED <<storeVars, diskVars, due, cur, issued, runs, restarts>>

\* An error inside flash_image: a delta falls back to the full image when the
\* request has a fallback, anything else gives the update up.
FlashFailed(t) ==
  IF ~job[t].full /\ job[t].req.fallback
  THEN job' = [job EXCEPT ![t].full = TRUE] /\ Goto(t, "fetch")
  ELSE Finish(t, Failed(t))

\* apply_delta_update up to its SHA256 check, which precedes the first write.
FetchDelta(t) ==
  /\ At(t, "fetch") /\ ~job[t].full
  /\ \E a \in ActivePartition :
       LET r == job[t].req
           d == Patch(a, r.base, r.image)
       IN  IF r.sha /\ d # r.image
           THEN FlashFailed(t)
           ELSE job' = [job EXCEPT ![t].data = d, ![t].blk = 0] /\ Goto(t, "flash")
  /\ UNCHANGED <<storeVars, diskVars, due, cur, issued, runs, restarts>>

\* Mutant: the end of the image is noticed one chunk late.
FlashPastEnd(t) ==
  /\ At(t, "flash")
  /\ WriteBlock(job[t].slot, IF job[t].blk < NBlocks THEN job[t].blk + 1 ELSE NBlocks, job[t].data)
  /\ job' = [job EXCEPT ![t].blk = @ + 1]
  /\ Goto(t, IF job[t].blk = NBlocks THEN "verify" ELSE "flash")
  /\ UNCHANGED <<storeVars, booted, bootable, previous,
                 due, cur, issued, runs, restarts>>

\* One chunk of the image reaches the device.
Flash(t) ==
  /\ At(t, "flash") /\ job[t].blk < NBlocks
  /\ WriteBlock(job[t].slot, job[t].blk + 1, job[t].data)
  /\ job' = [job EXCEPT ![t].blk = @ + 1]
  /\ Goto(t, IF job[t].blk + 1 = NBlocks THEN "verify" ELSE "flash")
  /\ UNCHANGED <<storeVars, booted, bootable, previous,
                 due, cur, issued, runs, restarts>>

\* The connection or the device fails on the way, or the flush at the end.
FlashError(t) ==
  /\ UpdateFaults
  /\ Up /\ pc[t] \in {"fetch", "flash", "verify"}
  /\ FlashFailed(t)
  /\ UNCHANGED <<storeVars, diskVars, due, cur, issued, runs, restarts>>

\* The server stops sending: no request has a time limit.  A full image is
\* written while it arrives, a delta once it is complete.
FetchStalls(t) ==
  /\ Stalls
  /\ At(t, "fetch") \/ (At(t, "flash") /\ job[t].full)
  /\ Goto(t, "hung")
  /\ UNCHANGED <<storeVars, diskVars, job, due, cur, issued, runs, restarts>>

\* Mutant: the SHA256 is not checked.
VerifyNothing(t) ==
  /\ At(t, "verify")
  /\ Goto(t, Flashed(t))
  /\ UNCHANGED <<storeVars, diskVars, job, due, cur, issued, runs, restarts>>

\* The SHA256 of a full image is checked once everything is on the device.
Verify(t) ==
  /\ At(t, "verify")
  /\ IF job[t].full /\ job[t].req.sha /\ job[t].data # job[t].req.image
     THEN Finish(t, Failed(t))
     ELSE Goto(t, Flashed(t)) /\ UNCHANGED job
  /\ UNCHANGED <<storeVars, diskVars, due, cur, issued, runs, restarts>>

\* switch_boot_partition(job.slot), from label l: the other slot's flag goes
\* first.  sgdisk may be missing or fail to start, which changes nothing.
SwitchClear(t, l, next, failed) ==
  /\ At(t, l)
  /\ \/ /\ ClearBootFlag(Other(job[t].slot))
        /\ Goto(t, next) /\ UNCHANGED job
     \/ /\ DiskFaults
        /\ Finish(t, failed) /\ UNCHANGED bootable
  /\ UNCHANGED <<storeVars, booted, slot, previous, due, cur, issued, runs, restarts>>

\* Then the target's flag; here a failure is an error.
SwitchSet(t, l, next, failed) ==
  /\ At(t, l)
  /\ \/ SetBootFlag(job[t].slot) /\ Goto(t, next)
     \/ DiskFaults /\ Goto(t, failed) /\ UNCHANGED bootable
  /\ job' = [job EXCEPT ![t] = NoJob]
  /\ UNCHANGED <<storeVars, booted, slot, previous, due, cur, issued, runs, restarts>>

UpdateStep(t) ==
  \/ FetchFull(t) \/ FetchDelta(t) \/ Flash(t) \/ FlashError(t) \/ FetchStalls(t)
  \/ Verify(t)
  \/ SwitchClear(t, "clear", "set", Failed(t))
  \/ SwitchSet(t, "set", Updated(t), Failed(t))

-----------------------------------------------------------------------------
(* schedule_executor                                                       *)

\* Mutant: nothing is polled while a schedule is Running.
ExecPollAlone ==
  /\ At(Exec, "idle")
  /\ Due # {} /\ \A i \in Ids : sched[i].status # "Running"
  /\ due' = Due
  /\ Goto(Exec, "next")
  /\ UNCHANGED <<storeVars, diskVars, job, cur, issued, runs, restarts>>

\* The 30 s poll: a snapshot of the due schedules.
ExecPoll ==
  /\ At(Exec, "idle")
  /\ Due # {}
  /\ due' = Due
  /\ Goto(Exec, "next")
  /\ UNCHANGED <<storeVars, diskVars, job, cur, issued, runs, restarts>>

\* The next schedule of the snapshot, in the map's arbitrary order: its window
\* is checked.
ExecNext ==
  /\ At(Exec, "next")
  /\ \E i \in due :
       /\ due' = due \ {i}
       /\ cur' = i
       /\ Goto(Exec, IF WithinWindow(sched[i].req, now) THEN "mark" ELSE "expire")
  /\ UNCHANGED <<storeVars, diskVars, job, issued, runs, restarts>>

\* update_status has the write lock: the status is overwritten without being
\* looked at again.
ExecMark ==
  /\ \/ At(Exec, "mark") /\ UpdateStatus(cur, "Running") /\ Goto(Exec, "saveRun")
     \/ At(Exec, "expire") /\ UpdateStatus(cur, "Failed") /\ Goto(Exec, "saveEnd")
  /\ UNCHANGED <<file, now, diskVars, job, due, cur, issued, runs, restarts>>

\* Mutant: Running is saved only with the outcome.
ExecSaveLater ==
  /\ At(Exec, "saveRun")
  /\ Goto(Exec, "start")
  /\ UNCHANGED <<storeVars, diskVars, job, due, cur, issued, runs, restarts>>

ExecSaveRun ==
  /\ At(Exec, "saveRun")
  /\ Persist
  /\ Goto(Exec, "start")
  /\ UNCHANGED <<sched, now, diskVars, job, due, cur, issued, runs, restarts>>

\* execute_scheduled_update: the inactive slot, then the pre-update hook.
ExecStart ==
  /\ At(Exec, "start")
  /\ runs' = [runs EXCEPT ![cur] = @ + 1]
  /\ \/ /\ \E s \in InactivePartition :
             job' = [job EXCEPT ![Exec] = NewJob(s, sched[cur].req)]
        /\ Goto(Exec, "fetch")
     \/ UpdateFaults /\ Goto(Exec, "failed") /\ UNCHANGED job
  /\ UNCHANGED <<storeVars, diskVars, due, cur, issued, restarts>>

\* execute_hook waits for the command with no limit of time, before the update
\* and after it.
ExecHookHangs ==
  /\ Stalls
  /\ Up /\ pc[Exec] \in {"start", "record"}
  /\ Goto(Exec, "hung")
  /\ UNCHANGED <<storeVars, diskVars, job, due, cur, issued, runs, restarts>>

\* The post-update hook, then record_active_partition_for_rollback.
ExecRecord ==
  /\ At(Exec, "record")
  /\ \/ RecordActive /\ Goto(Exec, "clear") /\ UNCHANGED job
     \/ UpdateFaults /\ Finish(Exec, "failed") /\ UNCHANGED previous
  /\ UNCHANGED <<storeVars, booted, slot, bootable, due, cur, issued, runs, restarts>>

ExecFinish ==
  /\ Up /\ pc[Exec] \in {"completed", "failed"}
  /\ UpdateStatus(cur, IF pc[Exec] = "completed" THEN "Completed" ELSE "Failed")
  /\ Goto(Exec, "saveEnd")
  /\ UNCHANGED <<file, now, diskVars, job, due, cur, issued, runs, restarts>>

ExecSaveEnd ==
  /\ At(Exec, "saveEnd")
  /\ Persist
  /\ Goto(Exec, IF due = {} THEN "idle" ELSE "next")
  /\ cur' = NoId
  /\ UNCHANGED <<sched, now, diskVars, job, due, issued, runs, restarts>>

ExecStep ==
  \/ ExecPoll \/ ExecNext \/ ExecMark \/ ExecSaveRun \/ ExecStart \/ ExecHookHangs
  \/ UpdateStep(Exec)
  \/ ExecRecord \/ ExecFinish \/ ExecSaveEnd

-----------------------------------------------------------------------------
(* start_rollback_supervisor: once per agent start                         *)

Bad(s) == \E i \in BadImages : Holds(s, i)

\* The grace period ends: run_all_checks, then the latest active schedule.
SupCheck ==
  /\ At(Sup, "grace")
  /\ \/ ~Bad(booted) /\ Goto(Sup, "done")
     \/ /\ Bad(booted) \/ Flaky
        /\ Goto(Sup, IF \E i \in LatestActive : sched[i].req.auto
                     THEN "register" ELSE "done")
  /\ UNCHANGED <<storeVars, diskVars, job, due, cur, issued, runs, restarts>>

\* Mutant: register_rollback changes the table and saves nothing.
SupRegisterUnsaved ==
  /\ At(Sup, "register")
  /\ \/ \E i \in LatestActive : RegisterRollback(i)
     \/ LatestActive = {} /\ UNCHANGED sched
  /\ Goto(Sup, "rollback")
  /\ UNCHANGED <<file, now, diskVars, job, due, cur, issued, runs, restarts>>

\* register_rollback looks for the latest active schedule again.
SupRegister ==
  /\ At(Sup, "register")
  /\ \/ \E i \in LatestActive : RegisterRollback(i) /\ Goto(Sup, "save")
     \/ LatestActive = {} /\ Goto(Sup, "rollback") /\ UNCHANGED sched
  /\ UNCHANGED <<file, now, diskVars, job, due, cur, issued, runs, restarts>>

SupSave ==
  /\ At(Sup, "save")
  /\ Persist
  /\ Goto(Sup, "rollback")
  /\ UNCHANGED <<sched, now, diskVars, job, due, cur, issued, runs, restarts>>

\* rollback_to_previous_partition reads the rollback state.
SupRollback ==
  /\ At(Sup, "rollback")
  /\ IF previous = NoSlot
     THEN Goto(Sup, "done") /\ UNCHANGED job
     ELSE /\ job' = [job EXCEPT ![Sup] = [NoJob EXCEPT !.slot = previous]]
          /\ Goto(Sup, "rbClear")
  /\ UNCHANGED <<storeVars, diskVars, due, cur, issued, runs, restarts>>

\* The end of rollback_to_previous_partition: when the state file cannot be
\* saved the rollback is reported as failed, although the flags are switched.
Forget(t) ==
  /\ At(t, "forget")
  /\ \/ ForgetPrevious /\ Goto(t, Rolled(t))
     \/ DiskFaults /\ Goto(t, Unrolled(t)) /\ UNCHANGED previous
  /\ UNCHANGED <<storeVars, booted, slot, bootable, job, due, cur, issued, runs, restarts>>

RollbackStep(t) ==
  \/ SwitchClear(t, "rbClear", "rbSet", Unrolled(t))
  \/ SwitchSet(t, "rbSet", "forget", Unrolled(t))
  \/ Forget(t)

-----------------------------------------------------------------------------
(* Restarts                                                                *)

Saving == \E t \in Tasks : pc[t] \in {"save", "saveRun", "saveEnd"}
SavingState == \E t \in Tasks : pc[t] \in {"record", "forget"}
Quiet == \A t \in Tasks : pc[t] \in {"idle", "grace", "done"}

\* A new agent process.  One that died inside fs::write leaves that file cut
\* short: the schedules, or the rollback state, load as empty.
Restart ==
  /\ restarts' = restarts + 1
  /\ \E torn \in BOOLEAN : (torn => Saving) /\ Reload(torn)
  /\ \/ UNCHANGED previous
     \/ SavingState /\ previous' = NoSlot
  /\ pc' = Started
  /\ job' = [t \in Tasks |-> NoJob]
  /\ due' = {} /\ cur' = NoId
  /\ UNCHANGED <<now, slot, bootable, issued, runs>>

\* The agent dies and keel-init starts it again; the node keeps running.
AgentRestart ==
  /\ Up /\ restarts < MaxRestarts
  /\ Interrupts \/ Quiet
  /\ Restart
  /\ UNCHANGED booted

\* The operator reboots the node, or it loses power.
Reboot ==
  /\ Up /\ restarts < MaxRestarts
  /\ Interrupts \/ Quiet
  /\ Restart
  /\ BootSlot

\* The supervisor runs `reboot`, whatever the other tasks are doing; it may be
\* the one restart beyond MaxRestarts.
SupReboot ==
  /\ At(Sup, "reboot") /\ restarts <= MaxRestarts
  /\ Restart
  /\ BootSlot

\* `reboot` is missing or fails, which is ignored.
SupRebootFails ==
  /\ DiskFaults
  /\ At(Sup, "reboot")
  /\ Goto(Sup, "done")
  /\ UNCHANGED <<storeVars, diskVars, job, due, cur, issued, runs, restarts>>

SupStep ==
  \/ SupCheck \/ SupRegister \/ SupSave \/ SupRollback
  \/ RollbackStep(Sup) \/ SupReboot \/ SupRebootFails

RpcStep(t) ==
  \/ RpcSave(t) \/ UpdateStep(t) \/ RollbackStep(t)

RpcCall(t) ==
  \/ RpcSchedule(t) \/ RpcCancel(t) \/ RpcInstall(t) \/ RpcRollback(t)
  \/ RpcDropped(t)

Tick ==
  /\ now < MaxTime
  /\ now' = now + 1
  /\ UNCHANGED <<sched, file, diskVars, taskVars>>

Next ==
  \/ ExecStep
  \/ SupStep
  \/ \E t \in Rpcs : RpcStep(t) \/ RpcCall(t)
  \/ AgentRestart \/ Reboot
  \/ Tick

Spec == Init /\ [][Next]_vars

(***************************************************************************)
(* The tokio runtime keeps polling tasks that can go on, and the clock     *)
(* advances.  Nothing is assumed of clients, of crashes or of the          *)
(* operator's reboots, nor, with Stalls, of hooks and download servers: a  *)
(* wait on one of them ends with what it waits for, with an error, or in   *)
(* "hung".                                                                 *)
(***************************************************************************)
Fairness ==
  /\ WF_vars(ExecStep)
  /\ WF_vars(SupStep)
  /\ \A t \in Rpcs : WF_vars(RpcStep(t))
  /\ WF_vars(Tick)

FairSpec == Spec /\ Fairness

-----------------------------------------------------------------------------
(* Properties                                                              *)

\* The step is one of the running agent, not the start of a new one.
SameAgent == restarts' = restarts

(***************************************************************************)
(* A schedule is executed at most once, whatever crashes and reboots come  *)
(* in between: update_status(Running) reaches the file before              *)
(* execute_scheduled_update touches the disk, and only Pending schedules   *)
(* are ever due.  It relies on the file being writable.                    *)
(***************************************************************************)
AtMostOnce == \A i \in Ids : runs[i] <= 1

\* All that the file lacks of schedule i is what clients did: that it was
\* scheduled or cancelled.
ClientsOnly(i) ==
  \/ sched[i].status \in {"Pending", "Cancelled"} /\ file[i] = NoSchedule
  \/ sched[i].status = "Cancelled" /\ file[i] = [sched[i] EXCEPT !.status = "Pending"]

(***************************************************************************)
(* Whatever calls are dropped between their change and their save, the     *)
(* file falls behind the table only by what clients did; the next save of  *)
(* any task catches up.  What the executor and the supervisor make of a    *)
(* schedule is in the file unless they are just about to save it.          *)
(***************************************************************************)
SavedWhenQuiet ==
  \/ pc[Exec] \in {"saveRun", "saveEnd"} \/ pc[Sup] = "save"
  \/ \A i \in Ids : file[i] = sched[i] \/ ClientsOnly(i)

(***************************************************************************)
(* docs/architecture.md: "The image is written to the *inactive*           *)
(* partition".  Whichever tasks flash at the same time, the agent never    *)
(* writes to the slot the node is running from (get_inactive_partition:    *)
(* "the one we can safely write to").  It takes a root that                *)
(* get_active_partition can find.                                          *)
(***************************************************************************)
RunningSlotUntouched == [][Up => slot'[booted] = slot[booted]]_vars

(***************************************************************************)
(* A node's first update, asked for with a SHA256, never makes it boot, or *)
(* roll back to, half an image: whatever fails or dies on the way, each    *)
(* slot flagged for boot and the one that                                  *)
(* record_active_partition_for_rollback recorded hold a whole image.  A    *)
(* second update rewrites a slot that may be flagged.                      *)
(***************************************************************************)
FirstUpdateBoots ==
  Cardinality({i \in Ids : runs[i] > 0}) <= 1
    => \A s \in bootable \cup ({previous} \ {NoSlot}) : Whole(s)

(***************************************************************************)
(* When the executor marks a schedule Completed, the inactive slot holds   *)
(* the whole image that was asked for.                                     *)
(***************************************************************************)
CompletedIsInstalled ==
  [][\A i \in Ids :
       SameAgent /\ sched[i].status # "Completed" /\ sched'[i].status = "Completed"
         => Holds(Other(booted), sched[i].req.image)]_vars

(***************************************************************************)
(* The maintenance window is looked at when a schedule's turn comes, not   *)
(* when it was polled: however long earlier schedules of the snapshot      *)
(* took, the executor takes one up only between scheduled_at and the end   *)
(* of its window, starts none that it has not taken up, and fails one that *)
(* it never started only when the window is really over.  Between the look *)
(* and the start it waits for the table's lock, so the start itself may    *)
(* come after the end.                                                     *)
(***************************************************************************)
WindowIsChecked ==
  [][\A i \in Ids :
       LET r == sched[i].req IN
       /\ cur # i /\ cur' = i /\ pc'[Exec] = "mark"
            => r.at \in 0 .. now /\ (r.window > 0 => now <= r.at + r.window)
       /\ SameAgent /\ sched[i].status # "Running" /\ sched'[i].status = "Running"
            => cur = i /\ r.at \in 0 .. now
       /\ SameAgent /\ sched[i].status # "Failed" /\ sched'[i].status = "Failed" /\ runs[i] = 0
            => r.window > 0 /\ now > r.at + r.window]_vars

(***************************************************************************)
(* Failed is final for as long as the agent runs: neither a cancellation   *)
(* nor the supervisor's register_rollback takes a schedule out of it.      *)
(***************************************************************************)
FailedIsFinal ==
  [][\A i \in Ids : SameAgent /\ sched[i].status = "Failed"
                      => sched'[i].status = "Failed"]_vars

(***************************************************************************)
(* A schedule with a time does not stay Pending for ever: the executor     *)
(* polls it once it is due, whatever fails, is restarted or is dropped on  *)
(* the way, unless the node itself goes down or the executor is stuck in a *)
(* hook or a download that never ends.  After a restart frees it, the      *)
(* promise holds again.                                                    *)
(***************************************************************************)
DueIsTaken ==
  \A i \in Ids : (sched[i].status = "Pending" /\ sched[i].req.at # NoTime)
                    ~> (sched[i].status # "Pending" \/ ~Up \/ pc[Exec] = "hung")

(***************************************************************************)
(* A node that runs a bad image, put there by a schedule with              *)
(* auto-rollback, ends up on another one: the supervisor finds the latest  *)
(* schedule, switches back and reboots, whatever the executor and the      *)
(* handlers do meanwhile.  Two things stop it: a second update, which may  *)
(* overwrite the slot to go back to, and an agent that dies inside the     *)
(* rollback.  That leaves the node without a slot to boot, or a new agent  *)
(* without an active schedule, and visibly so: the slot to go back to is   *)
(* still recorded, or flagged for a boot that nobody orders.               *)
(***************************************************************************)
BadImageIsRolledBack ==
  (Up /\ Bad(booted) /\ \E i \in LatestActive : sched[i].req.auto)
    ~> \/ Up /\ ~Bad(booted)
       \/ Cardinality({i \in Ids : runs[i] > 0 \/ sched[i].started > 0}) > 1
       \/ /\ pc[Sup] = "grace"
          /\ ~Up \/ (Active = {} /\ (previous # NoSlot \/ booted \notin bootable))

(***************************************************************************)
(* Scheduled updates implement the journalled update of UpdateJournal: the *)
(* journal is the schedule file, not the table in memory.  It takes a file *)
(* that can be written and no InstallUpdate, which writes a slot without   *)
(* leaving a trace in the schedule file.                                   *)
(***************************************************************************)
Journal == INSTANCE UpdateJournal
             WITH Updates <- Ids, run <- booted, content <- slot,
                  entry <- [i \in Ids |-> file[i].status]

ImplementsJournal == Journal!Spec

-----------------------------------------------------------------------------
(* What the documentation says and the code does not do                    *)

(***************************************************************************)
(* docs/api/update-scheduling.md: "Update was cancelled before execution." *)
(* A cancelled schedule is never executed.                                 *)
(***************************************************************************)
CancelledIsFinal ==
  [][\A i \in Ids : SameAgent /\ sched[i].status = "Cancelled"
                      => sched'[i].status = "Cancelled"]_vars

(***************************************************************************)
(* docs/architecture.md: "A/B partition scheme ensures safe,               *)
(* rollback-capable updates."  There is always a slot to boot, except      *)
(* while a running agent is between the two sgdisk calls of a switch.      *)
(***************************************************************************)
AlwaysABootTarget ==
  bootable = {} => \E t \in Tasks : pc[t] \in {"set", "rbSet"}
=============================================================================
