----------------------------- MODULE Diagnostics -----------------------------
(***************************************************************************)
(* The diagnostics of keel-agent (cmd/keel-agent/src/diagnostics.rs): the  *)
(* time-limited debug and recovery sessions of DiagnosticsManager, each    *)
(* behind a lock, and the crash dumps and snapshots, files named after the *)
(* second in which they were asked for.                                    *)
(***************************************************************************)
EXTENDS Integers, FiniteSets, Sequences

CONSTANTS
  Messages,         \* what the kernel may log, a subset of Findings
  DefaultDuration,  \* DEFAULT_SESSION_DURATION_SECS
  MaxDuration,      \* MAX_SESSION_DURATION_SECS
  MaxTime           \* bound on the clock, in seconds

Findings == {"oom_kill", "kernel_panic", "segfault", "io_error", "stack_trace"}

ASSUME DiagnosticsAssumption ==
  /\ Messages \subseteq Findings
  /\ DefaultDuration \in Nat \ {0} /\ MaxDuration \in Nat \ {0} /\ MaxTime \in Nat
  /\ DefaultDuration <= MaxDuration

VARIABLES
  now,      \* the wall clock
  kmsg,     \* the messages in the kernel's buffer
  session,  \* expires_at of each mode's session, None when there is none
  holder,   \* the call that holds each mode's write lock, None if free
  grants,   \* the sessions this agent process has granted, in order
  dumps     \* the files: what each holds, NoDump if it is not there

sessionVars == <<session, holder, grants>>

None == 0

\* enable_recovery_mode does what enable_debug_mode does, over a lock and a
\* session of its own; a snapshot is written the way a crash dump is.
Modes == {"enable_debug_mode", "enable_recovery_mode"}
DumpOps == {"collect_crash_dump", "create_system_snapshot"}
Paths == DumpOps \X (0 .. MaxTime)
NoDump == {"no dump"}

\* Memory of an agent that starts.
NoSessions ==
  [session |-> [m \in Modes |-> None], holder |-> [m \in Modes |-> None],
   grants |-> [m \in Modes |-> <<>>]]

DiagnosticsInit ==
  /\ now = 0 /\ kmsg = {}
  /\ session = NoSessions.session /\ holder = NoSessions.holder
  /\ grants = NoSessions.grants
  /\ dumps = [p \in Paths |-> NoDump]

\* The environment: seconds pass, the kernel logs.
Tick == now < MaxTime /\ now' = now + 1
KernelLogs == \E k \in Messages \ kmsg : kmsg' = kmsg \cup {k}

-----------------------------------------------------------------------------
(* Sessions                                                                *)

\* clamp_duration
ClampDuration(d) ==
  IF d = 0 THEN DefaultDuration ELSE IF d > MaxDuration THEN MaxDuration ELSE d

Active(m) == session[m] > now

\* Mutant: a read lock, which several calls hold at once.
LockShared(n, m) == holder' = [holder EXCEPT ![m] = n]

\* write().await on the session's RwLock.
LockSession(n, m) == holder[m] = None /\ holder' = [holder EXCEPT ![m] = n]

\* The answer is an error while a session is active: the lock is released.
Refuse(m) == holder' = [holder EXCEPT ![m] = None] /\ UNCHANGED <<session, grants>>

\* expires_at is counted from a second reading of the clock.
Grant(m, d) ==
  LET until == now + ClampDuration(d)
  IN  /\ session' = [session EXCEPT ![m] = until]
      /\ grants' = [grants EXCEPT ![m] = Append(@, [from |-> now, until |-> until])]
      /\ holder' = [holder EXCEPT ![m] = None]

-----------------------------------------------------------------------------
(* Crash dumps and snapshots                                               *)

\* Mutant: names that do not tell two seconds apart.
SharedName(op, s) == <<op, s - (s % 2)>>

\* crash-%Y%m%d-%H%M%S.txt and snapshot-%Y%m%d-%H%M%S.txt
DumpPath(op, s) == <<op, s>>

\* What a dump holds of the kernel's messages.  dmesg may be left out or fail;
\* a snapshot keeps the last 200 lines only.
Gathered(op) ==
  IF op = "collect_crash_dump" THEN {kmsg, {}} ELSE SUBSET kmsg

\* Mutant: the file is opened as it is.
KeepDump(p) == UNCHANGED dumps

\* fs::write truncates the file and then fills it from its start: where a
\* longer dump was written in between, its tail stays.
TruncateDump(p) == dumps' = [dumps EXCEPT ![p] = {}]

FillDump(p, found) ==
  \E tail \in SUBSET dumps[p] : dumps' = [dumps EXCEPT ![p] = found \cup tail]

\* analyze_crash_dump: the kind of a line decides its severity.
SeverityOf(k) ==
  CASE k \in {"oom_kill", "kernel_panic"} -> "critical"
    [] k \in {"segfault", "io_error"} -> "error"
    [] k = "stack_trace" -> "warning"

Severity(found) ==
  LET s == {SeverityOf(k) : k \in found}
  IN  CASE "critical" \in s -> "critical"
        [] "critical" \notin s /\ "error" \in s -> "error"
        [] s = {"warning"} -> "warning"
        [] s = {} -> "clean"
=============================================================================
