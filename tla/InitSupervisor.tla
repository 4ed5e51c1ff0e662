--------------------------- MODULE InitSupervisor ---------------------------
(***************************************************************************)
(* keel-init, PID 1: supervise_services (cmd/keel-init/src/main.rs), the   *)
(* loop that reaps zombies and restarts containerd, keel-agent and the     *)
(* kubelet, and the bootstrap_kubernetes handler of keel-agent             *)
(* (cmd/keel-agent/src/lib.rs), which talks to it through files: the       *)
(* bootstrap kubeconfig, bootstrap.json and the restart signal.            *)
(*                                                                         *)
(* The loop is sequential; services die, handlers write and the kubelet    *)
(* joins its cluster between any two of its steps.                         *)
(***************************************************************************)
EXTENDS Integers, FiniteSets

CONSTANTS
  Handlers,     \* bootstrap_kubernetes calls that may be in flight together
  SpawnFaults,  \* a binary may be missing or fail to start
  WriteFaults,  \* a handler's writes may fail
  DiskFaults,   \* the data disk may be missing or fail to mount
  MaxBootstraps, MaxAttempts, MaxReboots   \* bounds

ASSUME SupervisorAssumption ==
  /\ {SpawnFaults, WriteFaults, DiskFaults} \subseteq BOOLEAN
  /\ {MaxBootstraps, MaxAttempts, MaxReboots} \subseteq Nat

VARIABLES
  pc,        \* where supervise_services is
  child,     \* the process each service's Option<Child> refers to
  alive,     \* how many live processes each service has
  probe,     \* bootstrap_exists and permanent_exists, as last read
  switched,  \* the SWITCHED flag
  attempts,  \* agent_restart_count
  delay,     \* the backoff delay being slept, in seconds
  ran,       \* what the last spawn_kubelet call found
  kubeconf,  \* the bootstrap kubeconfig: None, Torn or the request it is from
  bootjson,  \* bootstrap.json, likewise
  permanent, \* the permanent kubeconfig exists
  signal,    \* /run/keel/restart-kubelet exists
  mounted,   \* the files are on the data disk, not in RAM
  disk,      \* what a data disk that is not mounted holds
  hpc, hreq, \* where each handler is, and its request
  requests,  \* bootstrap requests so far
  ack,       \* the request acknowledged last, None at first
  reboots

loopVars == <<pc, child, alive, probe, switched, attempts, delay, ran>>
fileVars == <<kubeconf, bootjson, permanent, signal>>
diskVars == <<mounted, disk>>
handlerVars == <<hpc, hreq, requests, ack>>
envVars == <<fileVars, handlerVars, diskVars, reboots>>
vars == <<pc, child, alive, probe, switched, attempts, delay, ran,
          kubeconf, bootjson, permanent, signal, mounted, disk,
          hpc, hreq, requests, ack, reboots>>

Services == {"agent", "containerd", "kubelet"}

\* A file that fs::write has truncated and not yet filled is Torn.
None == 0
Torn == -1
Contents == -1 .. MaxBootstraps

LoopPCs == {"startAgent", "startContainerd", "startKubelet",
            "reap", "containerd", "agent", "backoff", "kubelet",
            "probe", "bootstrap", "check", "stop", "unlink", "respawn", "sleep"}
HandlerPCs == {"idle", "conf0", "conf", "json0", "json", "signal"}

TypeOK ==
  /\ pc \in LoopPCs
  /\ child \in [Services -> {"none", "running", "exited", "reaped"}]
  /\ alive \in [Services -> Nat]
  /\ probe \in [boot : BOOLEAN, perm : BOOLEAN]
  /\ switched \in BOOLEAN
  /\ attempts \in 0 .. MaxAttempts
  /\ delay \in 0 .. 60
  /\ ran \in [mode : {"none", "standalone", "bootstrap", "permanent"},
              conf : Contents, name : Contents]
  /\ kubeconf \in Contents /\ bootjson \in Contents
  /\ permanent \in BOOLEAN /\ signal \in BOOLEAN
  /\ mounted \in BOOLEAN
  /\ disk \in [conf : Contents, json : Contents, perm : BOOLEAN]
  /\ hpc \in [Handlers -> HandlerPCs]
  /\ hreq \in [Handlers -> 0 .. MaxBootstraps]
  /\ requests \in 0 .. MaxBootstraps
  /\ ack \in 0 .. MaxBootstraps
  /\ reboots \in 0 .. MaxReboots

NotRun == [mode |-> "none", conf |-> None, name |-> None]

NoFiles == [conf |-> None, json |-> None, perm |-> FALSE]

\* Memory and the RAM-backed /run of a node that has just booted.
BootState ==
  [pc |-> "startAgent", child |-> [s \in Services |-> "none"],
   alive |-> [s \in Services |-> 0], probe |-> [boot |-> FALSE, perm |-> FALSE],
   hpc |-> [h \in Handlers |-> "idle"], hreq |-> [h \in Handlers |-> 0]]

Init ==
  /\ pc = BootState.pc /\ child = BootState.child /\ alive = BootState.alive
  /\ probe = BootState.probe /\ switched = FALSE
  /\ attempts = 0 /\ delay = 0 /\ ran = NotRun
  /\ kubeconf = None /\ bootjson = None /\ permanent = FALSE /\ signal = FALSE
  /\ mounted \in {TRUE, ~DiskFaults} /\ disk = NoFiles
  /\ hpc = BootState.hpc /\ hreq = BootState.hreq
  /\ requests = 0 /\ ack = 0 /\ reboots = 0

-----------------------------------------------------------------------------
(* Processes                                                               *)

Outcomes == {"running"} \cup (IF SpawnFaults THEN {"none"} ELSE {})

\* spawn_service: the handle is Some(child) or None, o says which.
SpawnService(s, o) ==
  /\ child' = [child EXCEPT ![s] = o]
  /\ alive' = [alive EXCEPT ![s] = IF o = "running" THEN @ + 1 ELSE @]

\* spawn_kubelet: the node name comes from bootstrap.json when it parses, the
\* mode from which kubeconfigs exist.
SpawnKubelet(o) ==
  /\ SpawnService("kubelet", o)
  /\ ran' = [mode |-> IF permanent THEN "permanent"
                      ELSE IF kubeconf # None THEN "bootstrap" ELSE "standalone",
             conf |-> kubeconf,
             name |-> IF bootjson = Torn THEN None ELSE bootjson]

\* reap_zombies takes the exit status of every child, supervised or not.
ReapZombies ==
  child' = [s \in Services |-> IF child[s] = "exited" THEN "reaped" ELSE child[s]]

\* try_wait gives an exit status only for a zombie nobody has waited for; for
\* one that was reaped it gives ECHILD.
TryWait(s) == child[s] = "exited"

\* min(1u64 << n, 60), where the shift counts modulo 64.
Backoff(n) ==
  LET shift == n % 64 IN IF shift >= 6 THEN 60 ELSE <<1, 2, 4, 8, 16, 32>>[shift + 1]

-----------------------------------------------------------------------------
(* supervise_services                                                      *)

StartAgent ==
  /\ pc = "startAgent" /\ pc' = "startContainerd"
  /\ \E o \in Outcomes : SpawnService("agent", o)
  /\ UNCHANGED <<probe, switched, attempts, delay, ran, envVars>>

StartContainerd ==
  /\ pc = "startContainerd" /\ pc' = "startKubelet"
  /\ \E o \in Outcomes : SpawnService("containerd", o)
  /\ UNCHANGED <<probe, switched, attempts, delay, ran, envVars>>

\* After containerd's socket is up and the preloaded images are imported.
StartKubelet ==
  /\ pc = "startKubelet" /\ pc' = "reap"
  /\ \E o \in Outcomes : SpawnKubelet(o)
  /\ UNCHANGED <<probe, switched, attempts, delay, envVars>>

Reap ==
  /\ pc = "reap" /\ pc' = "containerd"
  /\ ReapZombies
  /\ UNCHANGED <<alive, probe, switched, attempts, delay, ran, envVars>>

CheckContainerd ==
  /\ pc = "containerd" /\ pc' = "agent"
  /\ IF TryWait("containerd")
     THEN \E o \in Outcomes : SpawnService("containerd", o)
     ELSE UNCHANGED <<child, alive>>
  /\ UNCHANGED <<probe, switched, attempts, delay, ran, envVars>>

CheckAgent ==
  /\ pc = "agent"
  /\ IF TryWait("agent")
     THEN pc' = "backoff" /\ delay' = Backoff(attempts)
     ELSE pc' = "kubelet" /\ UNCHANGED delay
  /\ UNCHANGED <<child, alive, probe, switched, attempts, ran, envVars>>

\* The delay is slept inside the loop; nothing else is supervised meanwhile.
RestartAgent ==
  /\ pc = "backoff" /\ pc' = "kubelet"
  /\ \E o \in Outcomes : /\ SpawnService("agent", o)
                         /\ attempts' = IF o = "running" THEN attempts + 1 ELSE attempts
  /\ delay' = 0
  /\ UNCHANGED <<probe, switched, ran, envVars>>

CheckKubelet ==
  /\ pc = "kubelet" /\ pc' = "probe"
  /\ child' = IF TryWait("kubelet") THEN [child EXCEPT !["kubelet"] = "none"] ELSE child
  /\ UNCHANGED <<alive, probe, switched, attempts, delay, ran, envVars>>

Probe ==
  /\ pc = "probe" /\ pc' = "bootstrap"
  /\ probe' = [boot |-> kubeconf # None, perm |-> permanent]
  /\ UNCHANGED <<child, alive, switched, attempts, delay, ran, envVars>>

DetectBootstrap ==
  /\ pc = "bootstrap" /\ pc' = "check"
  /\ IF probe.boot /\ child["kubelet"] = "none"
     THEN \E o \in Outcomes : SpawnKubelet(o)
     ELSE UNCHANGED <<child, alive, ran>>
  /\ UNCHANGED <<probe, switched, attempts, delay, envVars>>

\* Mutant: the SWITCHED flag also masks the signal.
CheckSignalOnce ==
  /\ pc = "check"
  /\ pc' = IF ~switched /\ (signal \/ (probe.boot /\ probe.perm /\ child["kubelet"] # "none"))
           THEN "stop" ELSE "sleep"
  /\ switched' = (switched \/ (probe.boot /\ probe.perm /\ child["kubelet"] # "none"))
  /\ UNCHANGED <<child, alive, probe, attempts, delay, ran, envVars>>

\* Mutant: only a kubelet that is still running is switched.
SwitchRunning ==
  ~signal /\ probe.boot /\ probe.perm /\ child["kubelet"] = "running" /\ ~switched

\* should_restart: the signal, or once per boot the permanent kubeconfig.
SwitchToPermanent ==
  ~signal /\ probe.boot /\ probe.perm /\ child["kubelet"] # "none" /\ ~switched

CheckSignal ==
  /\ pc = "check"
  /\ pc' = IF signal \/ SwitchToPermanent THEN "stop" ELSE "sleep"
  /\ switched' = (switched \/ SwitchToPermanent)
  /\ UNCHANGED <<child, alive, probe, attempts, delay, ran, envVars>>

\* Mutant: the handle is dropped without a kill.
DropKubelet ==
  /\ pc = "stop" /\ pc' = "unlink"
  /\ child' = [child EXCEPT !["kubelet"] = "none"]
  /\ UNCHANGED <<alive, probe, switched, attempts, delay, ran, envVars>>

\* Mutant: a handle is taken for a live process.
StopStaleKubelet ==
  /\ pc = "stop" /\ pc' = "unlink"
  /\ child' = [child EXCEPT !["kubelet"] = IF @ = "none" THEN "none" ELSE "reaped"]
  /\ alive' = [alive EXCEPT !["kubelet"] = IF child["kubelet"] # "none" THEN @ - 1 ELSE @]
  /\ UNCHANGED <<probe, switched, attempts, delay, ran, envVars>>

\* kill and wait; on a handle whose process was reaped both do nothing.
StopKubelet ==
  /\ pc = "stop" /\ pc' = "unlink"
  /\ child' = [child EXCEPT !["kubelet"] = IF @ = "none" THEN "none" ELSE "reaped"]
  /\ alive' = [alive EXCEPT !["kubelet"] =
                 IF child["kubelet"] = "running" THEN @ - 1 ELSE @]
  /\ UNCHANGED <<probe, switched, attempts, delay, ran, envVars>>

\* Mutant: only a kubelet that was there is started again.
RemoveSignalOnly ==
  /\ pc = "unlink" /\ pc' = (IF child["kubelet"] = "none" THEN "sleep" ELSE "respawn")
  /\ signal' = FALSE
  /\ UNCHANGED <<child, alive, probe, switched, attempts, delay, ran,
                 kubeconf, bootjson, permanent, handlerVars, diskVars, reboots>>

RemoveSignal ==
  /\ pc = "unlink" /\ pc' = "respawn"
  /\ signal' = FALSE
  /\ UNCHANGED <<child, alive, probe, switched, attempts, delay, ran,
                 kubeconf, bootjson, permanent, handlerVars, diskVars, reboots>>

RespawnKubelet ==
  /\ pc = "respawn" /\ pc' = "sleep"
  /\ \E o \in Outcomes : SpawnKubelet(o)
  /\ UNCHANGED <<probe, switched, attempts, delay, envVars>>

\* The end of an iteration, and of its local variables.
Sleep ==
  /\ pc = "sleep" /\ pc' = "reap"
  /\ probe' = BootState.probe
  /\ UNCHANGED <<child, alive, switched, attempts, delay, ran, envVars>>

LoopStep ==
  \/ StartAgent \/ StartContainerd \/ StartKubelet
  \/ Reap \/ CheckContainerd \/ CheckAgent \/ RestartAgent \/ CheckKubelet
  \/ Probe \/ DetectBootstrap \/ CheckSignal
  \/ StopKubelet \/ RemoveSignal \/ RespawnKubelet \/ Sleep

-----------------------------------------------------------------------------
(* bootstrap_kubernetes                                                    *)

\* A request that passes the validation; a handler runs inside a live agent.
Bootstrap(h) ==
  /\ alive["agent"] > 0 /\ hpc[h] = "idle" /\ requests < MaxBootstraps
  /\ requests' = requests + 1
  /\ hreq' = [hreq EXCEPT ![h] = requests + 1]
  /\ hpc' = [hpc EXCEPT ![h] = "conf0"]
  /\ UNCHANGED <<loopVars, fileVars, ack, diskVars, reboots>>

\* What h leaves in a file that holds c: two handlers that fill a file at once
\* may mix their bytes.
Filled(h, c) ==
  {hreq[h]} \cup (IF c # Torn \/ \E o \in Handlers \ {h} : hpc[o] # "idle"
                  THEN {Torn} ELSE {})

\* fs::write of the kubeconfig, then of bootstrap.json: truncate, then fill.
WriteConf(h) ==
  /\ alive["agent"] > 0
  /\ \/ /\ hpc[h] = "conf0" /\ hpc' = [hpc EXCEPT ![h] = "conf"]
        /\ kubeconf' = Torn
     \/ /\ hpc[h] = "conf" /\ hpc' = [hpc EXCEPT ![h] = "json0"]
        /\ kubeconf' \in Filled(h, kubeconf)
  /\ UNCHANGED <<loopVars, bootjson, permanent, signal, hreq, requests, ack,
                 diskVars, reboots>>

WriteJson(h) ==
  /\ alive["agent"] > 0
  /\ \/ /\ hpc[h] = "json0" /\ hpc' = [hpc EXCEPT ![h] = "json"]
        /\ bootjson' = Torn
     \/ /\ hpc[h] = "json" /\ hpc' = [hpc EXCEPT ![h] = "signal"]
        /\ bootjson' \in Filled(h, bootjson)
  /\ UNCHANGED <<loopVars, kubeconf, permanent, signal, hreq, requests, ack,
                 diskVars, reboots>>

\* The signal comes last, and with it the reply that says success.
WriteSignal(h) ==
  /\ alive["agent"] > 0 /\ hpc[h] = "signal"
  /\ signal' = TRUE
  /\ ack' = hreq[h]
  /\ hpc' = [hpc EXCEPT ![h] = "idle"] /\ hreq' = [hreq EXCEPT ![h] = 0]
  /\ UNCHANGED <<loopVars, kubeconf, bootjson, permanent, requests, diskVars, reboots>>

\* A directory, a file or the generated kubeconfig fails: an error reply.
WriteError(h) ==
  /\ WriteFaults /\ alive["agent"] > 0 /\ hpc[h] # "idle"
  /\ hpc' = [hpc EXCEPT ![h] = "idle"] /\ hreq' = [hreq EXCEPT ![h] = 0]
  /\ UNCHANGED <<loopVars, fileVars, requests, ack, diskVars, reboots>>

HandlerStep(h) ==
  Bootstrap(h) \/ WriteConf(h) \/ WriteJson(h) \/ WriteSignal(h) \/ WriteError(h)

-----------------------------------------------------------------------------
(* The environment                                                         *)

\* A supervised process exits; the agent takes its handlers with it.
Die(s) ==
  /\ child[s] = "running"
  /\ s = "agent" => attempts < MaxAttempts
  /\ child' = [child EXCEPT ![s] = "exited"]
  /\ alive' = [alive EXCEPT ![s] = @ - 1]
  /\ IF s = "agent" THEN hpc' = BootState.hpc /\ hreq' = BootState.hreq
     ELSE UNCHANGED <<hpc, hreq>>
  /\ UNCHANGED <<pc, probe, switched, attempts, delay, ran, fileVars, requests, ack,
                 diskVars, reboots>>

\* External: a kubelet in bootstrap mode has its CSR approved and writes the
\* permanent kubeconfig.
Join ==
  /\ child["kubelet"] = "running" /\ ran.mode = "bootstrap"
  /\ permanent' = TRUE
  /\ UNCHANGED <<loopVars, kubeconf, bootjson, signal, handlerVars, diskVars, reboots>>

(***************************************************************************)
(* setup_persistent_storage: the disk is mounted under the state           *)
(* directories.  Whatever the reason a mount fails for, the disk is        *)
(* formatted and mounted again; a node without a disk keeps its state in   *)
(* RAM, and the disk what it held, unless formatting went through.         *)
(***************************************************************************)
SetupStorage ==
  LET held == IF mounted THEN [conf |-> kubeconf, json |-> bootjson, perm |-> permanent]
              ELSE disk
  IN  \E found \in {held} \cup (IF DiskFaults THEN {NoFiles} ELSE {}),
         m \in {TRUE, ~DiskFaults} :
        LET files == IF m THEN found ELSE NoFiles
        IN  /\ kubeconf' = files.conf /\ bootjson' = files.json /\ permanent' = files.perm
            /\ mounted' = m
            /\ disk' = IF m THEN NoFiles ELSE found

\* The node goes down at any moment and boots again.
Reboot ==
  /\ reboots < MaxReboots /\ reboots' = reboots + 1
  /\ pc' = BootState.pc /\ child' = BootState.child /\ alive' = BootState.alive
  /\ probe' = BootState.probe /\ switched' = FALSE
  /\ attempts' = 0 /\ delay' = 0 /\ ran' = NotRun
  /\ signal' = FALSE
  /\ hpc' = BootState.hpc /\ hreq' = BootState.hreq
  /\ SetupStorage
  /\ UNCHANGED <<requests, ack>>

Next ==
  \/ LoopStep
  \/ \E h \in Handlers : HandlerStep(h)
  \/ \E s \in Services : Die(s)
  \/ Join
  \/ Reboot

Spec == Init /\ [][Next]_vars

\* PID 1 keeps running; nothing is assumed of the services or of clients.
FairSpec == Spec /\ WF_vars(LoopStep)

-----------------------------------------------------------------------------
(* Properties                                                              *)

(***************************************************************************)
(* Two processes of one service never run side by side: every respawn      *)
(* replaces a handle whose process is known to be dead.                    *)
(***************************************************************************)
OneInstance == \A s \in Services : alive[s] <= 1

\* spawn_kubelet is on its way, whatever the signal file says.
WillSpawn == pc \in {"startAgent", "startContainerd", "startKubelet", "respawn"}

(***************************************************************************)
(* No acknowledged bootstrap is missed.  While the files of the request    *)
(* acknowledged last are in place, either the signal is still there, or    *)
(* spawn_kubelet is about to run, or its last call has seen both files:    *)
(* the signal is removed before the files are read, so a handler that      *)
(* signals between the two costs one more restart and nothing else.        *)
(***************************************************************************)
BootstrapNotMissed ==
  (ack # 0 /\ kubeconf = ack /\ bootjson = ack)
    => signal \/ WillSpawn \/ (ran.conf = ack /\ ran.name = ack)

(***************************************************************************)
(* The loop does get there: an acknowledged bootstrap is read by a         *)
(* spawn_kubelet call, unless a later request overwrites it first.         *)
(***************************************************************************)
BootstrapPickedUp ==
  \A v \in 1 .. MaxBootstraps :
    (ack = v /\ kubeconf = v /\ bootjson = v)
      ~> ((ran.conf = v /\ ran.name = v) \/ kubeconf # v \/ bootjson # v)

(***************************************************************************)
(* A node that joined leaves bootstrap mode: once the permanent kubeconfig *)
(* is there next to the bootstrap one, spawn_kubelet runs and finds it,    *)
(* though the kubelet may have died, and been reaped, since it wrote it,   *)
(* and though the switch is made at most once per boot.                    *)
(***************************************************************************)
PermanentPickedUp ==
  (permanent /\ kubeconf # None) ~> (ran.mode = "permanent" \/ ~permanent)

-----------------------------------------------------------------------------
(* What the documentation says and the code does not do                    *)

(***************************************************************************)
(* cmd/keel-init/README.md: "Restarts `containerd` and `keel-agent`        *)
(* automatically on crash".  A process that dies is replaced.              *)
(***************************************************************************)
CrashedIsRestarted ==
  \A s \in {"agent", "containerd"} : child[s] = "exited" ~> alive[s] > 0
=============================================================================
