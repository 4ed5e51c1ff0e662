--------------------------- MODULE ScheduleStore ----------------------------
(***************************************************************************)
(* The table of update schedules (cmd/keel-agent/src/update_scheduler.rs): *)
(* the map the agent keeps in memory, and the JSON file it rewrites after  *)
(* every change and reads once, at start.                                  *)
(*                                                                         *)
(* A change to the map and the rewrite of the file are two steps: the      *)
(* write lock is dropped in between.  file is what load_schedules would    *)
(* return: a file cut short by a crash or an error fails to parse and      *)
(* loads as the empty map.                                                 *)
(***************************************************************************)
EXTENDS Integers, FiniteSets

CONSTANTS
  Ids,            \* schedule ids (UUIDs)
  Requests,       \* the schedule_update requests clients may send
  NoReq,          \* the request of an id that is not in the map
  PersistFaults   \* writing the schedule file may fail

(***************************************************************************)
(* A request: when to run (NoTime when scheduled_at is empty), the         *)
(* maintenance window in clock units (0: none), whether auto-rollback is   *)
(* on, the image the URL stands for, whether a SHA256 was given, and for a *)
(* delta its base image and whether a full-image fallback was given.       *)
(***************************************************************************)
NoTime == -1

ASSUME StoreAssumption ==
  /\ NoReq \notin Requests
  /\ \A r \in Requests : /\ r.at \in Nat \cup {NoTime}
                         /\ r.window \in Nat
                         /\ r.auto \in BOOLEAN
                         /\ r.sha \in BOOLEAN
                         /\ r.delta \in BOOLEAN
                         /\ r.fallback \in BOOLEAN
  /\ PersistFaults \in BOOLEAN

VARIABLES
  sched,  \* the map in memory
  file,   \* the map the schedule file holds
  now     \* the wall clock

storeVars == <<sched, file, now>>

Status == {"Pending", "Running", "Completed", "Failed", "Cancelled", "RolledBack"}

\* status is "Absent" for an id that is not in the map.  started is the rank of
\* started_at among all starts, 0 for None; rolled is rollback_triggered.
Schedule == [status : Status \cup {"Absent"},
             req : Requests \cup {NoReq},
             started : Nat,
             rolled : BOOLEAN]

NoSchedule == [status |-> "Absent", req |-> NoReq, started |-> 0, rolled |-> FALSE]

Empty == [i \in Ids |-> NoSchedule]

StoreTypeOK ==
  /\ sched \in [Ids -> Schedule]
  /\ file \in [Ids -> Schedule]
  /\ now \in Nat

StoreInit ==
  /\ sched = Empty
  /\ file = Empty
  /\ now = 0

-----------------------------------------------------------------------------

\* schedule_update: the map with a new Pending entry.
Insert(i, r) ==
  sched' = [sched EXCEPT ![i] = [NoSchedule EXCEPT !.status = "Pending", !.req = r]]

\* cancel_schedule: only a Pending schedule.
Cancel(i) ==
  /\ sched[i].status = "Pending"
  /\ sched' = [sched EXCEPT ![i].status = "Cancelled"]

\* A start is later than every start in the map.
NextStart == 1 + Cardinality({i \in Ids : sched[i].started > 0})

\* update_status: overwrites the status, whatever it was.
UpdateStatus(i, st) ==
  sched' = [sched EXCEPT ![i].status = st,
                         ![i].started = IF st = "Running" THEN NextStart ELSE @]

\* Mutant: any schedule that was ever started.
EverStarted == {i \in Ids : sched[i].status \in {"Completed", "Running", "Failed"}}

\* The schedules register_rollback and get_latest_active_schedule choose from,
\* and the one that started last.
Active == {i \in Ids : sched[i].status \in {"Completed", "Running"}}

LatestActive == {i \in Active : \A j \in Active : sched[j].started <= sched[i].started}

RegisterRollback(i) ==
  sched' = [sched EXCEPT ![i].status = "RolledBack", ![i].rolled = TRUE]

\* Mutant: the end of the window is off by one.
WithinLongWindow(r, t) == r.at = NoTime \/ r.window = 0 \/ t <= r.at + r.window + 1

\* is_within_maintenance_window at time t.
WithinWindow(r, t) == r.at = NoTime \/ r.window = 0 \/ t <= r.at + r.window

\* get_due_schedules.
Due == {i \in Ids : /\ sched[i].status = "Pending"
                    /\ sched[i].req.at # NoTime
                    /\ sched[i].req.at <= now}

\* persist_schedules: the file becomes a copy of the map; when the write fails
\* it keeps its contents (open failed) or is left cut short (write failed).
Persist ==
  file' \in {sched} \cup (IF PersistFaults THEN {file, Empty} ELSE {})

\* UpdateScheduler::new in a process that starts: load_schedules.  torn tells
\* that the previous process died inside persist_schedules' fs::write.
Reload(torn) ==
  LET loaded == IF torn THEN Empty ELSE file
  IN  sched' = loaded /\ file' = loaded
=============================================================================
