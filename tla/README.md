# A TLA+ model of KeelOS

KeelOS is a small immutable operating system for Kubernetes nodes. Two programs carry
its own logic: `keel-init`, which is PID 1 and supervises the node's services, and
`keel-agent`, the gRPC server that updates the node's A/B partitions, rolls them back,
joins the node to a cluster and looks after its certificates. `osctl` is the client.

This directory holds TLA+ modules translated from that code, TLC configurations that
check them, and proofs that TLAPS checks. `PROJECT.json` maps each definition to the
lines it models.

## 1. Inventory

| Component | State | Operations | Interacts with |
|---|---|---|---|
| Update scheduler (`keel-agent/src/update_scheduler.rs`) | map of schedules behind an `RwLock`; `update-schedule.json`, rewritten after each change and read at start | schedule, cancel, update status, register rollback, due and latest queries | handlers, executor, supervisor |
| A/B disk (`disk.rs`) | two slots, their `legacy_boot` flags, `rollback_state.json` | flash (full, delta with fallback), verify, switch, record, roll back | executor, handlers, supervisor, firmware |
| Schedule executor (`main.rs`, `hooks.rs`) | snapshot of due schedules | poll, start, hooks, flash, switch, finish | scheduler, disk |
| Rollback supervisor (`main.rs`, `health_check.rs`) | none; runs once per agent start | grace period, health checks, register, roll back, reboot | scheduler, disk |
| Update handlers (`lib.rs`) | one future per request | ScheduleUpdate, CancelScheduledUpdate, InstallUpdate, TriggerRollback | scheduler, disk |
| Supervision (`keel-init/src/main.rs`) | child handles, restart count, `SWITCHED` | reap, restart, start and restart the kubelet | services; files of keel-agent |
| Kubernetes bootstrap (`lib.rs`, `pkg/config/src/bootstrap.rs`) | bootstrap kubeconfig, `bootstrap.json`, `/run/keel/restart-kubelet` | BootstrapKubernetes | keel-init, kubelet |
| Data disk (`keel-init/src/main.rs`) | what `/data` holds | mount, format, bind-mount at boot | every file above |
| Certificates (`cert_renewal.rs`, `k8s_csr.rs`, `lib.rs`, `main.rs`, `pkg/crypto`) | certificate, key and their backups; one CSR object in the cluster | request at start, renew, rotate | Kubernetes API |
| Network configuration (`network.rs`, `pkg/config/src/network.rs`, `keel-init`) | `network/config.json`; pending auto-reboots; the kernel's links, addresses, routes | convert, validate and save; show; load, apply or fall back at boot | keel-init |
| Diagnostics (`diagnostics.rs`) | debug and recovery session, each behind an `RwLock`; crash dumps and snapshots, named after a second | enable, expire, collect, analyze | handlers, kernel log |
| Access control (`rbac.rs`, `mtls.rs`, `lib.rs`) | trusted client certificates; the TLS configuration built from them at start | authorize, InitBootstrap, load | every handler, osctl |
| Audit log (`audit.rs`) | `audit.log`, an open file behind a mutex | record every call before it is answered, reopen | every handler |
| osctl (`osctl/src`) | the client's certificate pair | one call per command; `init bootstrap` saves a pair | keel-agent |
| Health endpoints, telemetry, generated API | none that matters here | | |

What is hard in this code: four kinds of tasks (executor, supervisor, handlers, client
disconnects that drop a handler) work on one table and one disk with no lock between them
but the table's own; a change to the table and its save are two steps; files are rewritten
in place, so a crash leaves them cut short; a boot switch is two commands; keel-init and
keel-agent talk through files; `reap_zombies` and `try_wait` compete for exit statuses; three
tasks share one CSR name; a client that goes away takes its call with it wherever it waits.
`PROJECT.json` lists these as hazards, line by line.

What makes the parts correct: a schedule runs at most once, is taken up in its window, and is saved;
nothing writes the running slot; Completed means installed; a due schedule is taken; a bad
image is rolled back; one instance of each service; no acknowledged bootstrap is lost; a
stored certificate belongs to the stored key and is renewed; a network configuration that was
accepted is what the next boot applies, and a node whose file is spoilt stays accessible; a
session is time-limited; a call that was answered is in the audit log; a report is about the
dump it was asked for; a client certificate that was accepted works after the next start.

## 2. Modules

    BootDisk ----\
                  UpdateAgent --- UpdateAgentProofs --- UpdateInstallProofs (TLAPS)
    ScheduleStore/     | \------- MCUpdateAgent (TLC)
                       implements UpdateJournal
    InitSupervisor ------ InitSupervisorProofs (TLAPS)
                 \------- MCInitSupervisor (TLC)
    AuditLog ----\
                  AgentApi ------ AgentApiProofs (TLAPS)
    Diagnostics -/     \--------- MCAgentApi (TLC)
    Certificates -------- CertificatesProofs (TLAPS)
               \--------- MCCertificates (TLC)
    NetworkConfig ------- NetworkTextProofs --- NetworkConfigProofs (TLAPS)
                \-------- MCNetworkConfig (TLC)

**BootDisk** is the disk. A slot is a function from blocks to the image each block came
from, so that a half-written slot and a slot two tasks have mixed are visible; `Whole` and
`Holds` say that all blocks come from one image. `Junk` is any other bytes. `ActivePartition`
is `get_active_partition` with its fallback to slot A, which `ActiveFallback` switches on: it is
taken when there is no `root=` and no device on `/`, as with the repository's own boot lines
(`tools/testing/run-qemu.sh:32`, `tools/builder/iso-build.sh:39`), and when a PARTUUID does not
resolve. The passing runs and the proofs are about nodes whose root is found; `wrong_slot` is
about the others.
`DiskFaults` lets `sgdisk`, `reboot` and the rollback state file fail; images built by
`tools/builder/initramfs-build.sh` contain neither of the two commands, so these paths are
not exotic. `BootSlot` is the firmware, external.

**ScheduleStore** is the table and its file. Times are clock units; `started` is the rank of
`started_at`. `Persist` copies the map to the file, or, with `PersistFaults`, leaves the file
as it was or unreadable. An unreadable file loads as the empty map. No file of the agent is
synced (`update_scheduler.rs:330`, `disk.rs:468`, `pkg/config/src/network.rs:254`); the model takes
what `fs::write` has written as durable. A node that loses power within the seconds the kernel
keeps such data to itself is outside the model; one whose agent dies, or that reboots in order,
is inside.

**UpdateAgent** composes both and adds the tasks. `pc[t]` is the place a task awaits at;
`job[t]` is its request, target slot and progress. One action is the code between two awaits,
lock releases or external commands. `RpcDropped` is a client that goes away: tonic drops the
handler where it awaits, so an install stops where it is, and a schedule or cancellation that
waits for the table's lock to save it (`update_scheduler.rs:319`) stays in memory only. With
`Stalls`, hooks and downloads, which have no time limit (`hooks.rs:28`, `disk.rs:205`, `:295`), may
never end: their task is then `hung` until the agent is restarted or, for a handler, its client
goes away. `ExecNext` looks at the window and `ExecMark` has the write lock of `update_status`,
for which the executor waits. `Restart` rebuilds the agent's memory from the files; if a task was
inside `fs::write`, that file may be cut short.

| Code | Actions |
|---|---|
| `schedule_update`, `cancel_scheduled_update` | `RpcSchedule`, `RpcCancel`, then `RpcSave` or `RpcDropped` |
| `install_update` | `RpcInstall`, `UpdateStep`, `RpcDropped` |
| `trigger_rollback` | `RpcRollback`, `RollbackStep` |
| `flash_image` and its callees | `FetchFull`, `FetchDelta`, `Flash`, `FlashError`, `FetchStalls`, `Verify` |
| `switch_boot_partition` | `SwitchClear`, `SwitchSet` |
| `schedule_executor`, `execute_scheduled_update` | `ExecPoll`, `ExecNext`, `ExecMark` ... `ExecSaveEnd` |
| `start_rollback_supervisor` | `SupCheck` ... `SupReboot` |

**UpdateJournal** is what scheduled updates promise, without tasks: a journal of updates, the
slot the node runs from, and the contents of the slots. `Log` moves entries forward, and to
Completed only while another slot holds one whole image; `Write` changes a slot the node does
not run from, while some update has begun; `Start` is any restart, which may lose the journal
as a whole (a file cut short loads as empty) but no single entry. `UpdateAgent` implements it
(`ImplementsJournal`) with the schedule *file* as the journal. The mapping is the interesting
part: with the table in memory as the journal the statement would say nothing about crashes.
It holds when the file can be written and nobody calls `InstallUpdate`, which writes a slot
without a trace in the schedules; the `two_flashers` run shows what happens otherwise.

**InitSupervisor** is the loop of `supervise_services`, one action per block of its body, next
to the `bootstrap_kubernetes` handlers that write files for it. `child` is what keel-init
believes about its `Option<Child>`, `alive` counts the processes there really are. A file
being written passes through `Torn`, and stays there when two handlers that fill it at once mix
their bytes (`Filled`). `ca.crt`, written before the kubeconfig, has no reader here. Local variables of a pass (`probe`, `delay`) are reset when
they go out of scope. `SpawnKubelet` reads the files in one step (they are read
within milliseconds by one function; a handler that changes them in between signals
afterwards). `SetupStorage` is the boot-time mount: any mount failure formats the disk, and
without a disk the state lives in RAM. The state directories are mounted together or not at all;
one bind mount failing alone (`keel-init/src/main.rs:335`) is not modelled. `/run` is RAM in any case. A pid that is used again
after `reap_zombies` freed it is not modelled.

**Certificates** is the certificate pair. A certificate is identified with the key it was
issued for, so "the pair matches" is equality. `Submit` is the create call on the one CSR
name; `Truncate` and `Fill` are the two halves of every file write. The cluster is external:
it takes the request the agent sends for one (the agent sends a self-signed certificate, encoded
twice, where Kubernetes expects a PKCS#10 request; the comments call it provisional), and deletes
old ones (`Expire`) after an hour or a day, that is, never during the minute in which
`request_certificate` waits. `willing` says that the agent has the roles to create and approve
requests and that approved ones are signed within that minute. A cluster that is not willing may
refuse the creation (`SubmitFails`), the approval (`Approve`, a warning in the code, after which it
waits), or let the wait run into its 30th poll (`WaitFails`), and an administrator may approve a
request by hand (`AdminApproves`) or grant the roles (`Grant`). A request deleted by hand during
the wait is not modelled.

**NetworkConfig** is one file with its writers and its reader. A configuration goes through
the conversion from the request (`ToConfig`), `Valid`, and the JSON text (`Text`, a record
without the fields serde skips; `Parse` fills in the defaults) to the file, and back through
`Load` at boot or `Shown` for `get_network_config`. `Open` and `Write` are the two halves of
`fs::write`; a text shorter than the one another handler has just written leaves that one's
tail behind it, and the file no longer parses. What the address parsers accept, which gateway
is a neighbour and what the `ip` commands do are external; the last of them sets the MTU
(`SetMtu`), and below 1280 the kernel then stops IPv6 on the link (`StopV6`). The requests are any the protobuf
messages allow (`RequestMsg`); of the length of a text only that it is a number
(`SizeAssumption`). `Boot` ends all tasks and loads;
`ApplyInterface` configures one link and `ApplyRest` DNS and routes. `harmed` and `solo` record
whether a write had the file for itself. `/etc/hosts` and the search domains have no reader
here. A write that was answered is on disk when the node goes down, although nothing syncs it; the
data disk mounts (`InitSupervisor` has the case where it does not).

**AuditLog** is the file and its writer. `writeln!` writes the text and the line end, so a
failed write leaves nothing, a fragment, or an entry without its line end, and the next entry
lands behind it on the same line; an entry is readable when its line holds it alone.

**Diagnostics** has the two sessions with their locks, and the dumps. A dump holds the kinds of
kernel messages in it, which is what `analyze_crash_dump` looks for; its name is the second.
`TruncateDump` and `FillDump` are the two halves of `fs::write`.

**AgentApi** composes both with the path of a call. `pc[n]` is where call `n` is: in its
handler, at `record`, answered, or lost with the agent or its client. The handlers run between
awaits on several threads, so every file write and every reading of the clock is a step of its
own; a client can only take a call with it where the call awaits a lock. The methods whose
effect other modules model go straight to `record`. A behaviour's clients call the methods of
one of `Groups`: the groups share nothing but the audit log, the clock and the process, which
every group has. The clock does not go back. Of osctl there are `init bootstrap` (`SaveCert`,
`SaveKey` after the answer; either may end with its file emptied) and the timeout. A certificate is
sent once, as osctl does: sent again it would empty the accepted file of that name for a moment
(`lib.rs:630`), and `AcceptedIsLoaded` would not survive an agent that dies then. `authorize` is a
guard of `Call`. No property speaks of roles: the check is the first statement of each handler and
reads nothing that another call changes, so a property would say the guard again. `Boot` builds the TLS configuration from the files
there are, with or without server certificates, and opens the log.

| Code | Actions |
|---|---|
| `AuditService::call`, `authorize` | `Call`, `Record`, `Drop` |
| `enable_debug_mode`, `enable_recovery_mode` | `EnterSession`, `GrantSession` |
| `get_debug_status` | `GetDebugStatus` |
| `collect_crash_dump`, `create_system_snapshot` | `Gather`, `Truncate`, `Fill`, `DumpFails` |
| `analyze_crash_dump` | `Analyze` |
| `init_bootstrap` | `StoreCert`, `RejectCert` |
| `osctl init bootstrap` | `SaveCert`, `SaveKey` |
| `main`, `build_tls_config` | `Boot` |

## 3. Runs

Passing runs:

| Run | Shows |
|---|---|
| `updates` | Executor, supervisor and a handler over two schedules (one with a window that closes, one delta with a fallback), with faults in downloads and hooks, dropped calls, crashes and reboots at any step: `AtMostOnce`, `SavedWhenQuiet`, `FirstUpdateBoots`, `RunningSlotUntouched`, `CompletedIsInstalled`, `WindowIsChecked`, and the refinement `ImplementsJournal` |
| `update_faults` | The same with `InstallUpdate`, `TriggerRollback`, failing commands, an unwritable schedule file, hooks and downloads that never end: `RunningSlotUntouched`, `FailedIsFinal` |
| `updates_live` | `DueIsTaken`: a schedule with a time is taken, over crashes at any step, unless the executor is stuck in a hook or a download, and then again once the agent is restarted. `BadImageIsRolledBack`, with the two things that stop it named: a second update, and an agent that dies inside the rollback |
| `supervision` | `OneInstance`, `BootstrapNotMissed`, `BootstrapPickedUp` and `PermanentPickedUp`, with services that die, failing spawns, a data disk that may not mount and two reboots |
| `certificates` | `OneWriter`, `Recoverable`, `SuccessMatches`, `DaemonRenews` with any two of outages, failing file operations and crashes, a dropped client, and a cluster that is willing from the start, later or never |
| `network` | Two `configure_network` calls at once, failing writes and `ip` commands, auto-reboots, crashes: `NextBootApplies`, `ShownIsAccepted`, `SpoiltFileIsAccessible`, `StaticIsUp`, `AutoRebootApplies` |
| `api` | Calls with a failing system call, clients that go away and an agent that dies at any step: `LossBounded`, `GrantsDisjoint`, `ReportMatchesDump`, `SavedIsStored`, `AcceptedIsLoaded` |

Runs in which TLC finds what the code does against its documentation:

| Run | What happens |
|---|---|
| `cancelled` | The executor works through a snapshot; a schedule cancelled meanwhile, with a success reply, is executed |
| `no_boot_target` | A crash between the two `sgdisk` calls leaves no slot to boot |
| `two_flashers` | `InstallUpdate` and the executor write the same slot; the schedule is Completed over a mixture |
| `wrong_slot` | Without a root device to be found, a node that an update has brought to slot B takes A for the running slot and writes the next image over B |
| `lost_exit` | A service that dies during the five-second sleep is reaped by `reap_zombies`; `try_wait` never sees the exit and the service is not restarted |

Other differences between code and documents that the modelling brought up, not given a run:

- A schedule without `scheduled_at` is never executed (`update_scheduler.rs:286`; the API
  page says "empty = immediate").
- A schedule left Running by a crash cannot be cancelled (`update_scheduler.rs:228`;
  `docs/troubleshooting.md:94` says to cancel it).
- The supervisor runs at every agent start and may roll back an update that has not been
  booted yet (`main.rs:408`).
- `register_rollback` saves RolledBack before the slots are switched; after a crash in between
  the next start does nothing. `BadImageIsRolledBack` names this as an exception.
- A schedule or a cancellation whose client goes away before the save is in the table and not in
  the file, until the next save of any task (`update_scheduler.rs:134`, `:232`). `SavedWhenQuiet`
  states what remains true: what the executor and the supervisor did is never missing.
- The executor looks at the maintenance window, then waits for the table's lock, which another
  task may hold while it writes the file (`main.rs:287`, `update_scheduler.rs:252`), so an update
  may start after the window's end by that wait (`docs/api/update-scheduling.md:190` says "will
  only execute if the current time falls within"). `WindowIsChecked` is about the look.
- An update rewrites the inactive slot in place even when it is flagged for the next boot, or
  recorded for rollback; going down in the middle boots half an image (`disk.rs:309`). This takes
  two updates: `FirstUpdateBoots` shows that the first one is safe.
- `execute_hook` has no timeout (`hooks.rs:28`, against the comment at line 10), and neither have
  the downloads (`disk.rs:205`, `:295`). One that never ends stops the executor for good, later
  schedules included; `DueIsTaken` excuses it while it lasts.
- `TriggerRollback` leaves no trace in the rollback history (`lib.rs:392`).
- With a bootstrap kubeconfig in place, a kubelet that exits is started again at once
  (`keel-init/src/main.rs:1208`, against the comment at 1196); a kubelet that already uses the
  permanent kubeconfig is killed once at every boot (1218); a joined node ignores a second
  bootstrap (1066).
- The renewal daemon is started only if the certificate exists when the agent starts
  (`main.rs:145`): when the request at start fails and a rotation obtains the certificate later,
  nothing renews it (`docs/certificate-management.md:27` says "with automatic renewal"). This is
  why `DaemonRenews` speaks of nodes where the daemon runs.
- `configure_interface` brings a link up before it creates it and returns if that fails, so a
  VLAN or a bond is never created (`keel-init/src/main.rs:565`;
  `docs/learn-more/networking.md:20` lists both as supported).
- An MTU of 68 to 1279 is valid (`pkg/config/src/network.rs:352`), is set after the addresses and
  makes the kernel remove the IPv6 ones. `StaticIsUp` promises them from 1280 on.
- There is no DHCP client (581); the "DHCP fallback" is a fixed address (768).
- `osctl network dns set` sends a configuration without interfaces, which replaces the saved
  one (`osctl/src/main.rs:702`); the next boot configures no link but loopback.
- A gateway in another subnet is accepted and its route refused at boot
  (`docs/reference/network-api.md:391` lists the check); a gateway is not even parsed when there
  is no IPv4 address (`pkg/config/src/network.rs:331`).
- A configuration saved with success can be lost before the next boot: a second call truncates
  the file and a reboot or a failed write follows, or two calls write at once
  (`pkg/config/src/network.rs:254`; `network.rs:180` answers "Changes will apply on next boot").
  `NextBootApplies` states what remains true.
- `1u64 << agent_restart_count` counts modulo 64: after 64 restarts the backoff falls back to
  one second (`keel-init/src/main.rs:1174`).
- `bytes_saved` wraps when a delta is larger than the image (`disk.rs:283`); it is only shown.
- The `reboot` method only answers (`lib.rs:94`).
- After a failed write the audit log is reopened at once; when that fails it stays closed until
  the agent restarts (`audit.rs:98`; the comment and `docs/guides/audit-logging.md:150` say "on
  next write"). `LossBounded` counts the calls of that time (`skipped`).
- A call whose client goes away while it waits for the audit log's lock has had its effect and is
  not recorded (`audit.rs:185`; `docs/guides/audit-logging.md:15` says "Every request").
- The `reboot` command that the auto-reboot runs is not in the image
  (`tools/builder/initramfs-build.sh:164`), and its failure is ignored (`network.rs:172`).
  `AutoRebootApplies` excuses it (`dropped`).
- After a renewal that stops between certificate and key the next start takes the mismatched pair
  as it is, and nothing reads the backups (`cert_renewal.rs:160`). `Recoverable` says that they are
  there.
- The audit status of a call that succeeds is taken from the HTTP headers, where gRPC puts no
  status on success.
- Bootstrap certificates carry no organization, so `role_from_cert_der` finds no role in them.
- A certificate that InitBootstrap accepts takes effect when the agent next starts
  (`main.rs:200`).
- Two dumps of one second share a file name (`diagnostics.rs:188`); both calls are answered with
  success. `ReportMatchesDump` leaves them out.
- An agent restart ends the debug and recovery sessions; `GrantsDisjoint` is about one process.
- `osctl` connects with the saved pair before it looks at the command (`osctl/src/main.rs:302`);
  a pair half replaced by `save_certs` (`cert_store.rs:48`) has to be removed by hand.

### Bounds

- `NBlocks = 2`: a slot can be half old and half new, which is all that tells slots apart.
  The fault run uses 1; it is about control, not contents.
- Two schedules: a snapshot with an element left while another runs. Three images: factory
  and one per schedule.
- `MaxTime = 3` in `updates`: the windowed schedule is due at 1, its window ends at 2, and 3
  is past it.
- `MaxRestarts = 1`: one crash or reboot at every possible step, plus the supervisor's own
  reboot. `updates_live` has 2: boot the bad image, and one more, or two crashes. Its first schedule
  installs the bad image with auto-rollback; the second is one more that may become due.
- One handler in the update runs; the executor is the second writer.
- `supervision`: one handler and bootstrap, one backoff step, and two reboots, so that a disk that
  was not mounted comes back. Several handlers at once are the business of the theorem `NotMissed`.
- `api`: three calls of which two are in flight together: one to collide with, and one after
  both. One kind of kernel message, durations below and above the limits, two seconds, one failing
  system call, one death of the agent.
- `certificates`: seven keys, more than can be in use at a time; one rotation, and two mishaps
  of any kind (`MaxMishaps`); the daemon and the ageing of certificates are unbounded.
- `network`: two handlers and three calls, enough for a write over another's and one after
  both; one failure; two crashes; three links, one of them with an MTU just too small for
  IPv6. Requests: what `osctl network config set` and `dns set` send,
  one with every kind of interface, and one for each reason to refuse.

Deadlock is not checked for the update, certificate, network and API runs, where a node really can come to
rest: it no longer boots, or its certificate is unreadable and nobody calls; besides, the
bounds exhaust the clients. keel-init's loop never stops, and deadlock is checked there.

### Fairness

Weak fairness on each task that can go on (tokio polls a task that is ready), on the clock,
and on PID 1's boot and loop (nothing else schedules it, and it never exits). A task in a hook or a
download that never ends is at `hung`, where it has no step, so the fairness of the executor
promises nothing of the network. For certificates, also that an outage ends, that a *willing* cluster
signs an approved request, and that any cluster deletes old requests, which Kubernetes' controllers
do; that a cluster ever becomes willing is not assumed. Nothing is assumed of clients, administrators,
crashes or reboots, nor that a service stays up.

## 4. Proofs

TLAPS checks seven modules. Between them they prove every invariant and every action property
of the passing runs, and the refinement, for any sets of schedules, requests, images, keys,
handlers and clients, any number of blocks and calls, and any bounds. What a theorem needs beyond
the named assumptions of its module (`AgentAssumption`, `NetworkAssumption` and so on, which TLC
evaluates in every run) is in the last column.

| Module | Theorem | Property | Assumes |
|---|---|---|---|
| `UpdateAgentProofs` | `TypeCorrect` | `TypeOK` | |
| | `SavedSafe` | `SavedWhenQuiet` | `~PersistFaults` |
| | `AtMostOnceSafe` | `AtMostOnce` | `~PersistFaults` |
| | `RunningSlotSafe` | `RunningSlotUntouched` | `~ActiveFallback` |
| `UpdateInstallProofs` | `FailedIsFinalSafe` | `FailedIsFinal` | |
| | `WindowIsCheckedSafe` | `WindowIsChecked` | |
| | `CompletedIsInstalledSafe` | `CompletedIsInstalled` | `Verified` |
| | `JournalRefinement` | `ImplementsJournal` | `Verified`, `~PersistFaults` |
| | `FirstUpdateBootsSafe` | `FirstUpdateBoots` | `Verified`, `~PersistFaults` |
| `InitSupervisorProofs` | `TypeCorrect` | `TypeOK` | |
| | `OneInstanceSafe` | `OneInstance` | |
| | `NotMissed` | `BootstrapNotMissed` | |
| `CertificatesProofs` | `TypeCorrect` | `TypeOK` | |
| | `OneWriterSafe` | `OneWriter` | |
| | `RecoverableSafe` | `Recoverable` | |
| | `SuccessMatchesSafe` | `SuccessMatches` | |
| `AgentApiProofs` | `TypeCorrect` | `TypeOK` | |
| | `LossBoundedSafe` | `LossBounded` | |
| | `GrantsDisjointSafe` | `GrantsDisjoint` | |
| | `ReportMatchesDumpSafe` | `ReportMatchesDump` | |
| | `SavedIsStoredSafe` | `SavedIsStored` | |
| | `AcceptedIsLoadedSafe` | `AcceptedIsLoaded` | |
| `NetworkConfigProofs` | `TypeCorrect` | `TypeOK` | |
| | `StaticIsUpSafe` | `StaticIsUp` | |
| | `ShownIsAcceptedSafe` | `ShownIsAccepted` | |
| | `NextBootAppliesSafe` | `NextBootApplies` | |
| | `SpoiltFileIsAccessibleSafe` | `SpoiltFileIsAccessible` | `Eth0 \in Hardware` |

The assumptions are needed. With an unwritable file (`PersistFaults`) a crash makes a schedule
run again; when the root is not found (`ActiveFallback`) slot A is taken for the running one
(`wrong_slot`). `Verified` says that nobody calls `InstallUpdate`, that the root resolves and that
every request has a SHA256: `InstallUpdate` writes to the executor's slot (`two_flashers`), and
an image without a checksum is not compared with anything. A machine without an eth0 has no
link to put the fallback address on.

### Updates

*Types* are not inductive alone: a task at `fetch` reads the request of its job, so `Known`
adds which program points come with a job and which with a current schedule.

*Saved* needs `Fresh`, that neither the table nor the file knows an id that was not handed out:
a dropped ScheduleUpdate then leaves the file without the schedule, and not with something else
under its id.

*At most once* needs `OnceInv`: a schedule that was started, or that the executor is about to
start, is not Pending in the table, nor in the file unless the save is still to come; the
executor's snapshot holds no started schedule. A restart replaces the table by the file, which
is why the file must appear in the invariant. A dropped call does no harm: what the file then
lacks is a schedule, or a cancellation, and never a start.

*The running slot* needs `SlotInv`: the target of every task that writes is the other slot
than the booted one. `booted` changes only with a restart, which also forgets every job.

*The life of a schedule* (`LifeInv`): every schedule has an id that was handed out, one in the
executor's snapshot has a time that has come and was at most cancelled since, and one under
execution is Running or was rolled back meanwhile. The lemma `TableSteps` sorts the steps of all
tasks by what they do to the table, so that `FailedIsFinal` and `WindowIsChecked` look at fourteen
kinds of changes instead of every action of every task. Both hold under every fault.

*Installed* (`InstallInv`) follows one image through the executor: the blocks up to `blk` are of
the data that was fetched, the data is the image unless the full download is still to replace a
delta, and past `verify` the slot holds the image that was asked for. The SHA256 is what closes
the gap: a delta that produced something else is seen at `verify`.

*The refinement* needs `JournalInv`: the table is never behind the file, the schedule under
execution has begun in the file, and a completion that is not in the file yet is about to be
saved, with the image still in its slot. The first conjunct is why a save is a step of `Log`
whatever several tasks have changed since the last one.

*The first update* (`BootInv`): as long as one schedule at most has run, the slot being written is
neither flagged nor recorded. It uses `OnceInv`: were a schedule to run twice, its second run
would write to a slot the first one had flagged.

### Supervision

*Types and one instance* are proved together, because neither is inductive alone. `Handles`
says that a service has one live process when its handle says running and none otherwise, and
that at the points of the loop that spawn the handle refers to no live process. The
lemma `BackoffBounded` puts the delay between 1 and 60 seconds for every restart count.

*No missed bootstrap* becomes inductive with `Requests`: requests are numbered as they arrive, no
two handlers carry the same one, and the one acknowledged last is no longer carried. Without it a
handler could rewrite the files under a number that was already acknowledged.

### Certificates

Nothing locks the files, and that one task at a time writes them rests on the request object:
`OwnerInv` says that a task past `Submit` holds the object with its own key in it, so no two are
there together, whatever the cluster refuses; `StartInv` that nobody runs before `init_k8s_certificates` is through; `WriterInv`
how far the writer is with each of the four files; and `PairInv` that the backups are complete and match
before the pair in place is touched.

### Calls

`PlaceInv` says what each place of a call has done already. Sessions need `SessionInv`: the
holder of a mode's lock is the only call past the check, and what it saw is still true, since
the clock only helps. `LossInv` strengthens `LossBounded`, which is not inductive: a failed write
spoils the next entry only when that is written, so it is the calls whose line can still be spoilt
*and one for a line left open* that `2 * cut + crashes + skipped` bounds. `CountInv` counts the failed
writes and the grants against the calls, for the types. `DumpInv` says whose text a dump's file
holds; `CertInv` and `TlsInv` connect the stored certificates with the calls that were accepted.

### Network

`NetworkTextProofs` is about data alone: for every request the messages allow, the JSON text
parses back to the configuration (`TextBack`) and what is shown converts back to it (`ShownBack`).
Serde's skipped fields are the point of it (`FillSkip`): a field may be left out of the text
only if its default is what was left out. The conversions keep no empty string and no zero in
an Option, and without that (`ToConfigTyped`) the way back would not be one.

`NetworkConfigProofs` has the state. `HandlerInv`: a handler with the file open has truncated it,
its configuration is valid, and if it is still alone the file is empty, so that its text will be
whole; `AcceptedInv`: until the file is truncated again it holds the text of what was accepted.
`BootInv`: keel-init has a tail of the loaded configuration to do, and every interface before it is
applied. That one stays applied rests on `GrowsBut`: no command for one link takes another one down or
an address of it away, and the interfaces of a valid configuration have different names
(`Distinct`). On its own link the MTU may cost the IPv6 addresses, and only those; hence the
condition of `StaticIsUp`. `ConfigureBond` would take a link down, and the proof has to show that it never gets there, which is the
behaviour listed above: a link that could be brought up exists, and one that exists cannot be
created. `CountInv` bounds the auto-reboots that wait by the calls.

### What stays with TLC

All liveness (`DueIsTaken`, `BadImageIsRolledBack`, `BootstrapPickedUp`, `PermanentPickedUp`,
`DaemonRenews`, `AutoRebootApplies`): the prover has no rules for fairness. And the five runs
that expect a violation.

## 5. Not modelled

Handlers that only read (`get_*`, `stream_logs`), logging, metrics and generated code change no
state that a property is about. The commands of `osctl` other than `init bootstrap` are one call
and its output. Health checks count as one bit: whether a critical one fails, which depends on
the image or, with `Flaky`, on nothing (a grace period shorter than ten seconds of uptime, for
one). The functions without a caller (boot counters, `UpdateScheduler::trigger_rollback`,
`run_with_retry`, `cleanup_old_csrs`) are left out. Mounts other than the data disk, cgroups and
the hostname are one pass of system calls. `get_network_status` reads the kernel's state. What
a TLS library makes of a torn certificate, and a wall clock that is set back, are left out of
`AgentApi`.

## 6. Plan

1. *Done*: BootDisk, ScheduleStore, UpdateAgent, UpdateJournal, InitSupervisor, Certificates,
   NetworkConfig, AuditLog, Diagnostics, AgentApi, and the proofs of all their safety properties.
2. Proofs beyond the runs: that the two restrictions of `Recoverable` and `NextBootApplies`
   (`harmed`) are no wider than needed, and what a second update keeps of `FirstUpdateBoots`.
3. NetworkConfig on the data disk of InitSupervisor, so that a disk that is not mounted or is
   formatted takes the configuration with it.
