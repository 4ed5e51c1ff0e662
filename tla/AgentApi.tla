------------------------------ MODULE AgentApi ------------------------------
(***************************************************************************)
(* The request path of keel-agent: the gRPC server that main starts with   *)
(* the TLS configuration of that moment, the audit layer around every      *)
(* call, authorization, and the handlers of lib.rs that diagnostics and    *)
(* init_bootstrap serve, with the osctl command that calls the latter.     *)
(* The handlers that other modules model are calls without an effect here. *)
(*                                                                         *)
(* Calls run on the threads of the runtime: any two interleave, and the    *)
(* agent may be killed between any two of their steps.                     *)
(***************************************************************************)
EXTENDS AuditLog, Diagnostics

CONSTANTS
  Groups,     \* sets of methods: the clients of one behaviour call those of one
  Durations,  \* the durations they ask for
  MaxCalls,   \* bounds: calls in all,
  MaxActive,  \* calls in flight together,
  MaxFaults,  \* system calls that fail,
  MaxCrashes  \* and times the agent dies

ASSUME ApiAssumption ==
  /\ Durations \subseteq Nat
  /\ {MaxCalls, MaxActive, MaxFaults, MaxCrashes} \subseteq Nat

VARIABLES
  group,    \* the methods that are called
  up,       \* the agent runs
  tls,      \* it has the TLS configuration that loaded was built into
  loaded,   \* the bootstrap certificates in that configuration
  certs,    \* trusted-clients/bootstrap: the file of each certificate
  store,    \* osctl's client.pem and client.key, 0 for none or a torn one
  pc,       \* where each call is
  call,     \* its method and what it works on
  result,   \* its answer
  report,   \* what analyze_crash_dump answers
  skipped,  \* calls recorded while no log file was open
  cut,      \* entries whose write failed
  faults, crashes

trustVars == <<tls, loaded, certs, store>>
callVars == <<pc, call, result>>
countVars == <<skipped, cut, faults, crashes>>
vars == <<lines, writer, now, kmsg, session, holder, grants, dumps,
          group, up, tls, loaded, certs, store, pc, call, result, report,
          skipped, cut, faults, crashes>>

Calls == 1 .. MaxCalls
PCs == {"new", "lock", "grant", "gather", "truncate", "fill", "analyze",
        "store0", "store", "record", "answered", "key", "saved", "lost"}

\* The client has its answer; osctl may have done more since.
Done == {"answered", "key", "saved"}

-----------------------------------------------------------------------------
(* Authorization                                                           *)

\* Role::privilege_level
Level == [Viewer |-> 0, Operator |-> 1, Admin |-> 2]

\* The role each handler passes to authorize; init_bootstrap has none.
Required(op) ==
  CASE op \in {"get_status", "get_update_schedule", "get_health", "get_rollback_history",
               "get_bootstrap_status", "get_network_config", "get_network_status",
               "get_debug_status"} -> "Viewer"
    [] op \in {"install_update", "schedule_update", "cancel_scheduled_update",
               "rotate_certificate", "collect_crash_dump", "stream_logs",
               "create_system_snapshot", "analyze_crash_dump"} -> "Operator"
    [] op \in {"reboot", "trigger_rollback", "bootstrap_kubernetes", "configure_network",
               "enable_debug_mode", "enable_recovery_mode"} -> "Admin"

\* What peer_certs gives: no certificates, an empty chain, a certificate whose
\* organization names no role, or one of a role.
Peers == {"anonymous", "empty", "unrecognised"} \cup DOMAIN Level

\* authorize
Authorize(peer, op) ==
  CASE op = "init_bootstrap" \/ peer = "anonymous" -> "ok"
    [] op # "init_bootstrap" /\ peer = "empty" -> "unauthenticated"
    [] op # "init_bootstrap" /\ peer \notin {"anonymous", "empty"} ->
         IF peer \in DOMAIN Level /\ Level[peer] >= Level[Required(op)]
         THEN "ok" ELSE "denied"

-----------------------------------------------------------------------------
NoCall == [op |-> "none", for |-> 0, found |-> {}]
NoReport == [path |-> <<"none", 0>>, severity |-> "none", after |-> {}]

TypeOK ==
  /\ lines \in Seq(Seq(0 .. MaxCalls)) /\ writer \in BOOLEAN
  /\ now \in 0 .. MaxTime /\ kmsg \subseteq Messages
  /\ session \in [Modes -> 0 .. MaxTime + MaxDuration]
  /\ holder \in [Modes -> 0 .. MaxCalls]
  /\ \A m \in Modes : Len(grants[m]) <= MaxCalls
  /\ dumps \in [Paths -> {NoDump} \cup SUBSET Messages]
  /\ group \in Groups /\ up \in BOOLEAN /\ tls \in BOOLEAN /\ loaded \subseteq Calls
  /\ certs \in [Calls -> {"none", "torn", "whole"}]
  /\ store \in [cert : 0 .. MaxCalls, key : 0 .. MaxCalls]
  /\ pc \in [Calls -> PCs]
  /\ \A n \in Calls : call[n].op \in group \cup {"none"} /\ call[n].found \subseteq Messages
  /\ result \in [Calls -> {"none", "ok", "failed"}]
  /\ report.path \in Paths \cup {NoReport.path}
  /\ {skipped, cut} \subseteq 0 .. MaxCalls
  /\ faults \in 0 .. MaxFaults /\ crashes \in 0 .. MaxCrashes

Init ==
  /\ AuditInit /\ DiagnosticsInit
  /\ group \in Groups /\ up = TRUE /\ tls \in BOOLEAN /\ loaded = {}
  /\ certs = [n \in Calls |-> "none"] /\ store = [cert |-> 0, key |-> 0]
  /\ pc = [n \in Calls |-> "new"] /\ call = [n \in Calls |-> NoCall]
  /\ result = [n \in Calls |-> "none"] /\ report = NoReport
  /\ skipped = 0 /\ cut = 0 /\ faults = 0 /\ crashes = 0

Fault == faults < MaxFaults /\ faults' = faults + 1

\* The handler of n goes on to p, or ends with the answer r.
Goto(n, p) == pc' = [pc EXCEPT ![n] = p] /\ UNCHANGED result
Answer(n, r) == pc' = [pc EXCEPT ![n] = "record"] /\ result' = [result EXCEPT ![n] = r]

\* What remains of a call that is over: the dump or the certificate it left.
Remains(n, kept) == IF call[n].op \in kept THEN call[n] ELSE NoCall

-----------------------------------------------------------------------------
(* Calls                                                                   *)

\* What a connected client may be told: only a TLS peer has certificates, of
\* the operational CA or one of those loaded.
Verdicts(op) == {Authorize(peer, op) : peer \in IF tls THEN Peers ELSE {"anonymous"}}

\* The step each handler starts with, after authorization.
Start(op) ==
  CASE op \in Modes \cup {"get_debug_status"} -> "lock"
    [] op \in DumpOps -> "gather"
    [] op = "analyze_crash_dump" -> "analyze"
    [] op = "init_bootstrap" -> "store0"
    [] OTHER -> "record"

InFlight(n) == pc[n] \notin Done \cup {"new", "lost"}

(***************************************************************************)
(* A call arrives.  What it works on is the duration asked for, or the     *)
(* second that names its dump.                                             *)
(***************************************************************************)
Call(n, op) ==
  /\ up /\ pc[n] = "new" /\ (n > 1 => pc[n - 1] # "new")
  /\ Cardinality({k \in Calls : InFlight(k)}) < MaxActive
  /\ \/ /\ "ok" \in Verdicts(op) /\ Goto(n, Start(op))
        /\ \E d \in IF op \in Modes THEN Durations ELSE IF op \in DumpOps THEN {now} ELSE {0} :
             call' = [call EXCEPT ![n] = [op |-> op, for |-> d, found |-> {}]]
     \/ /\ Verdicts(op) # {"ok"} /\ Answer(n, "failed")
        /\ UNCHANGED call
  /\ UNCHANGED <<auditVars, now, kmsg, sessionVars, dumps, up, trustVars, report, countVars>>

\* The session whose lock a call waits for.
Lock(n) == IF call[n].op = "get_debug_status" THEN "enable_debug_mode" ELSE call[n].op

\* enable_debug_mode and enable_recovery_mode: the lock and the check under it.
EnterSession(n) ==
  /\ up /\ pc[n] = "lock" /\ call[n].op \in Modes
  /\ LET m == call[n].op
     IN  IF Active(m)
         THEN holder[m] = None /\ Refuse(m) /\ Answer(n, "failed")
         ELSE LockSession(n, m) /\ Goto(n, "grant") /\ UNCHANGED <<session, grants>>
  /\ UNCHANGED <<auditVars, now, kmsg, dumps, up, trustVars, call, report, countVars>>

GrantSession(n) ==
  /\ up /\ pc[n] = "grant"
  /\ Grant(call[n].op, call[n].for)
  /\ Answer(n, "ok")
  /\ UNCHANGED <<auditVars, now, kmsg, dumps, up, trustVars, call, report, countVars>>

\* get_debug_status, under the read lock; it answers whether a session is active.
GetDebugStatus(n) ==
  /\ up /\ pc[n] = "lock" /\ call[n].op = "get_debug_status"
  /\ holder[Lock(n)] = None
  /\ Answer(n, "ok")
  /\ UNCHANGED <<auditVars, now, kmsg, sessionVars, dumps, up, trustVars, call,
                 report, countVars>>

\* collect_crash_dump and create_system_snapshot.
Gather(n) ==
  /\ up /\ pc[n] = "gather"
  /\ \E found \in Gathered(call[n].op) : call' = [call EXCEPT ![n].found = found]
  /\ Goto(n, "truncate")
  /\ UNCHANGED <<auditVars, now, kmsg, sessionVars, dumps, up, trustVars, report, countVars>>

Truncate(n) ==
  /\ up /\ pc[n] = "truncate"
  /\ TruncateDump(DumpPath(call[n].op, call[n].for))
  /\ Goto(n, "fill")
  /\ UNCHANGED <<auditVars, now, kmsg, sessionVars, up, trustVars, call, report, countVars>>

Fill(n) ==
  /\ up /\ pc[n] = "fill"
  /\ FillDump(DumpPath(call[n].op, call[n].for), call[n].found)
  /\ Answer(n, "ok")
  /\ UNCHANGED <<auditVars, now, kmsg, sessionVars, up, trustVars, call, report, countVars>>

\* The directory, the file or its contents cannot be written.
DumpFails(n) ==
  /\ up /\ pc[n] \in {"gather", "truncate", "fill"} /\ Fault
  /\ IF pc[n] = "fill"
     THEN \E part \in SUBSET call[n].found : FillDump(DumpPath(call[n].op, call[n].for), part)
     ELSE UNCHANGED dumps
  /\ Answer(n, "failed")
  /\ UNCHANGED <<auditVars, now, kmsg, sessionVars, up, trustVars, call, report,
                 skipped, cut, crashes>>

\* k was answered, or will be, with the path p of its dump.
Holds(k, p) ==
  call[k].op \in DumpOps /\ result[k] = "ok" /\ DumpPath(call[k].op, call[k].for) = p

\* analyze_crash_dump of a path the client was told, or of none.
Analyze(n) ==
  /\ up /\ pc[n] = "analyze"
  /\ \/ \E p \in Paths :
          /\ dumps[p] # NoDump
          /\ report' = [path |-> p, severity |-> Severity(dumps[p]),
                       after |-> {k \in Calls : Holds(k, p) /\ pc[k] \in Done}]
          /\ Answer(n, "ok")
     \/ Answer(n, "failed") /\ UNCHANGED report
  /\ UNCHANGED <<auditVars, now, kmsg, sessionVars, dumps, up, trustVars, call, countVars>>

(***************************************************************************)
(* init_bootstrap.  osctl sends a certificate it has just made, so the     *)
(* file named after its hash is a new one: certificate n is that of call   *)
(* n.  (The same certificate sent again would empty its file and fill it   *)
(* once more; osctl never does that.)  An invalid certificate and a file   *)
(* that cannot be written are answered with success: false.                *)
(***************************************************************************)
StoreCert(n) ==
  /\ up
  /\ \/ /\ pc[n] = "store0" /\ Goto(n, "store")
        /\ certs' = [certs EXCEPT ![n] = "torn"]
     \/ /\ pc[n] = "store" /\ Answer(n, "ok")
        /\ certs' = [certs EXCEPT ![n] = "whole"]
  /\ UNCHANGED <<auditVars, now, kmsg, sessionVars, dumps, up, tls, loaded, store,
                 call, report, countVars>>

RejectCert(n) ==
  /\ up /\ pc[n] \in {"store0", "store"}
  /\ \/ pc[n] = "store0" /\ UNCHANGED faults
     \/ Fault
  /\ Answer(n, "failed")
  /\ UNCHANGED <<auditVars, now, kmsg, sessionVars, dumps, up, trustVars, call, report,
                 skipped, cut, crashes>>

\* AuditService::call awaits the handler, then record, then answers.
Record(n) ==
  /\ up /\ pc[n] = "record"
  /\ \/ RecordOk(n) /\ UNCHANGED <<cut, faults>>
     \/ RecordFails(n) /\ Fault /\ cut' = cut + 1
  /\ skipped' = IF writer THEN skipped ELSE skipped + 1
  /\ pc' = [pc EXCEPT ![n] = "answered"]
  /\ call' = [call EXCEPT ![n] = Remains(n, DumpOps \cup {"init_bootstrap"})]
  /\ report' = IF call[n].op = "analyze_crash_dump" THEN NoReport ELSE report
  /\ result' = [result EXCEPT ![n] = IF call'[n] = NoCall THEN "none" ELSE @]
  /\ UNCHANGED <<now, kmsg, sessionVars, dumps, up, trustVars, crashes>>

(***************************************************************************)
(* A client that is gone, osctl after its 30 s timeout among them, takes   *)
(* the call with it, wherever it waits for a lock that another call has.   *)
(***************************************************************************)
Drop(n) ==
  /\ up
  /\ \/ pc[n] = "lock" /\ holder[Lock(n)] # None
     \/ pc[n] = "record" /\ \E k \in Calls \ {n} : pc[k] = "record"
  /\ pc' = [pc EXCEPT ![n] = "lost"] /\ result' = [result EXCEPT ![n] = "none"]
  /\ call' = [call EXCEPT ![n] = Remains(n, DumpOps)]
  /\ UNCHANGED <<auditVars, now, kmsg, sessionVars, dumps, up, trustVars, report, countVars>>

-----------------------------------------------------------------------------
(* osctl init bootstrap                                                    *)

Accepted(n) == call[n].op = "init_bootstrap" /\ pc[n] \in Done /\ result[n] = "ok"

\* Mutant: the pair is saved without waiting for the answer.
SaveEarly(n) ==
  /\ call[n].op = "init_bootstrap" /\ store.cert # n
  /\ store' = [store EXCEPT !.cert = n]
  /\ UNCHANGED <<auditVars, now, kmsg, sessionVars, dumps, up, tls, loaded, certs, callVars,
                 report, countVars>>

\* save_certs, after the answer: client.pem, then client.key.  fs::write empties
\* the file first; osctl may end there, killed or with a full disk.
SaveCert(n) ==
  /\ Accepted(n) /\ pc[n] = "answered"
  /\ \/ Goto(n, "key") /\ store' = [store EXCEPT !.cert = n]
     \/ Goto(n, "saved") /\ store' = [store EXCEPT !.cert = 0]
  /\ UNCHANGED <<auditVars, now, kmsg, sessionVars, dumps, up, tls, loaded, certs, call,
                 report, countVars>>

SaveKey(n) ==
  /\ pc[n] = "key" /\ Goto(n, "saved")
  /\ \E k \in {n, 0} : store' = [store EXCEPT !.key = k]
  /\ UNCHANGED <<auditVars, now, kmsg, sessionVars, dumps, up, tls, loaded, certs, call,
                 report, countVars>>

-----------------------------------------------------------------------------
(* The agent                                                               *)

\* The agent dies.  A call that was writing its entry leaves it cut short.
Crash ==
  /\ up /\ up' = FALSE /\ crashes < MaxCrashes /\ crashes' = crashes + 1
  /\ \/ UNCHANGED lines
     \/ \E n \in Calls : /\ pc[n] = "record" /\ writer
                       /\ (lines' \in CutShort(n) \/ WriteLine(n))
  /\ pc' = [n \in Calls |-> IF InFlight(n) THEN "lost" ELSE pc[n]]
  /\ call' = [n \in Calls |-> IF InFlight(n) THEN Remains(n, DumpOps) ELSE call[n]]
  /\ result' = [n \in Calls |-> IF InFlight(n) THEN "none" ELSE result[n]]
  /\ session' = NoSessions.session /\ holder' = NoSessions.holder /\ grants' = NoSessions.grants
  /\ tls' = FALSE /\ loaded' = {} /\ writer' = FALSE /\ report' = NoReport
  /\ UNCHANGED <<now, kmsg, dumps, certs, store, skipped, cut, faults>>

\* Mutant: each certificate replaces the one before it.
LoadLast(missed) ==
  LET found == {n \in Calls : certs[n] = "whole"} \ missed
  IN  {n \in found : \A k \in found : k <= n}

\* build_tls_config reads every file of the directory; one that it cannot read
\* is left out.
Loadable(missed) == {n \in Calls : certs[n] = "whole"} \ missed

(***************************************************************************)
(* main: the TLS configuration, if there is a server certificate, then the *)
(* audit log.  A torn certificate may make tls_config fail; the agent then *)
(* exits and stays down.                                                   *)
(***************************************************************************)
Boot ==
  /\ ~up /\ up' = TRUE
  /\ \E missed \in SUBSET Loadable({}), opens \in BOOLEAN :
       /\ IF missed # {} \/ ~opens THEN Fault ELSE UNCHANGED faults
       /\ \E configured \in BOOLEAN :
            /\ tls' = configured
            /\ loaded' = IF configured THEN Loadable(missed) ELSE {}
       /\ OpenFile(opens)
  /\ UNCHANGED <<lines, now, kmsg, sessionVars, dumps, certs, store, callVars, report,
                 skipped, cut, crashes>>

Environment ==
  /\ \/ Tick /\ UNCHANGED kmsg
     \/ KernelLogs /\ UNCHANGED now
  /\ UNCHANGED <<auditVars, sessionVars, dumps, up, trustVars, callVars, report, countVars>>

CallStep(n) ==
  \/ \E op \in group : Call(n, op)
  \/ EnterSession(n) \/ GrantSession(n) \/ GetDebugStatus(n)
  \/ Gather(n) \/ Truncate(n) \/ Fill(n) \/ DumpFails(n) \/ Analyze(n)
  \/ StoreCert(n) \/ RejectCert(n)
  \/ Record(n) \/ Drop(n)
  \/ SaveCert(n) \/ SaveKey(n)

Next ==
  /\ (\E n \in Calls : CallStep(n)) \/ Crash \/ Boot \/ Environment
  /\ UNCHANGED group

Spec == Init /\ [][Next]_vars

-----------------------------------------------------------------------------
(* Properties                                                              *)

(***************************************************************************)
(* What AuditLog::record may lose.  An entry whose write fails may also    *)
(* spoil the next one, which lands on the same line, and so may an agent   *)
(* that dies while it writes one; beyond that, every call that was         *)
(* answered has a line of its own, unless no log file was open.            *)
(***************************************************************************)
LossBounded ==
  Cardinality({n \in Calls : pc[n] \in Done /\ ~Logged(n)}) <= 2 * cut + crashes + skipped

(***************************************************************************)
(* Debug and recovery sessions are time-limited: those that one agent      *)
(* process grants in one mode never overlap, however many calls ask at     *)
(* once and however late the grant comes after the check, and none is      *)
(* longer than MAX_SESSION_DURATION_SECS.                                  *)
(***************************************************************************)
GrantsDisjoint ==
  \A m \in Modes : \A i \in DOMAIN grants[m] :
    /\ grants[m][i].until - grants[m][i].from \in 1 .. MaxDuration
    /\ \A j \in 1 .. i - 1 : grants[m][j].until <= grants[m][i].from

\* No other dump was asked for in the second that names k's.
OnlyInItsSecond(k) ==
  \A n \in Calls \ {k} : call[n].op = call[k].op => call[n].for # call[k].for

(***************************************************************************)
(* analyze_crash_dump, of a path that a call was answered with, reports    *)
(* the severity of what that call collected, unless another dump was asked *)
(* for in the same second and took the name too.                           *)
(***************************************************************************)
ReportMatchesDump ==
  \A k \in report.after : OnlyInItsSecond(k) => report.severity = Severity(call[k].found)

(***************************************************************************)
(* osctl keeps a certificate only once the agent has it in full: whoever   *)
(* dies on the way, the one in osctl's store is one the agent stored.      *)
(***************************************************************************)
SavedIsStored == store.cert # 0 => certs[store.cert] = "whole"

(***************************************************************************)
(* A certificate that init_bootstrap accepted, and that was sent once, is  *)
(* in the TLS configuration of every later agent that has one, unless its  *)
(* file cannot be read.                                                    *)
(***************************************************************************)
AcceptedIsLoaded ==
  [][(~up /\ tls' /\ faults' = faults) => {n \in Calls : Accepted(n)} \subseteq loaded']_vars
=============================================================================
