----------------------- MODULE InitSupervisorProofs -----------------------
(***************************************************************************)
(* Proofs about InitSupervisor, for every number of bootstrap handlers,    *)
(* requests, agent restarts and reboots, with and without faults.          *)
(***************************************************************************)
EXTENDS InitSupervisor, TLAPS

(***************************************************************************)
(* What supervise_services knows of its children: a service has a live     *)
(* process exactly when its handle refers to one, and wherever the loop    *)
(* is about to spawn, the handle refers to none.                           *)
(***************************************************************************)
Handles ==
  /\ \A s \in Services : alive[s] = IF child[s] = "running" THEN 1 ELSE 0
  /\ pc = "startAgent" => child["agent"] = "none"
  /\ pc \in {"startAgent", "startContainerd"} => child["containerd"] = "none"
  /\ pc \in {"startAgent", "startContainerd", "startKubelet"} => child["kubelet"] = "none"
  /\ pc = "backoff" => child["agent"] = "exited"
  /\ child["agent"] = "exited" => attempts < MaxAttempts
  /\ pc \in {"unlink", "respawn"} => child["kubelet"] # "running"

TypeInv == TypeOK /\ Handles

(***************************************************************************)
(* Requests are numbered as they arrive, and no two handlers carry the     *)
(* same one; the request acknowledged last is no longer carried.           *)
(***************************************************************************)
Requests ==
  /\ ack <= requests
  /\ \A h \in Handlers : hpc[h] # "idle" => hreq[h] \in 1 .. requests /\ hreq[h] # ack
  /\ \A h, k \in Handlers :
       h # k /\ hpc[h] # "idle" /\ hpc[k] # "idle" => hreq[h] # hreq[k]

BootstrapInv == TypeInv /\ Requests /\ BootstrapNotMissed

\* The delay before a restart is one second to a minute, where the shift wraps too.
LEMMA BackoffBounded == \A n \in Nat : Backoff(n) \in 1 .. 60
<1> SUFFICES ASSUME NEW n \in Nat PROVE Backoff(n) \in 1 .. 60
  OBVIOUS
<1> DEFINE shift == n % 64
<1>1. shift \in 0 .. 63
  OBVIOUS
<1>2. Backoff(n) = IF shift >= 6 THEN 60 ELSE <<1, 2, 4, 8, 16, 32>>[shift + 1]
  BY DEF Backoff
<1> HIDE DEF shift
<1>3. \/ shift >= 6 \/ shift = 0 \/ shift = 1 \/ shift = 2
      \/ shift = 3 \/ shift = 4 \/ shift = 5
  BY <1>1
<1>4. /\ 0 + 1 = 1 /\ 1 + 1 = 2 /\ 2 + 1 = 3
      /\ 3 + 1 = 4 /\ 4 + 1 = 5 /\ 5 + 1 = 6
  OBVIOUS
<1>5. shift = 0 => Backoff(n) = 1
  BY <1>2, <1>4
<1>6. shift = 1 => Backoff(n) = 2
  BY <1>2, <1>4
<1>7. shift = 2 => Backoff(n) = 4
  BY <1>2, <1>4
<1>8. shift = 3 => Backoff(n) = 8
  BY <1>2, <1>4
<1>9. shift = 4 => Backoff(n) = 16
  BY <1>2, <1>4
<1>10. shift = 5 => Backoff(n) = 32
  BY <1>2, <1>4
<1>11. shift >= 6 => Backoff(n) = 60
  BY <1>2
<1> QED
  BY <1>3, <1>5, <1>6, <1>7, <1>8, <1>9, <1>10, <1>11

\* What a boot resets the supervisor to has its types.
LEMMA BootTypes ==
  /\ BootState.pc = "startAgent"
  /\ BootState.child = [s \in Services |-> "none"]
  /\ BootState.alive = [s \in Services |-> 0]
  /\ BootState.probe \in [boot : BOOLEAN, perm : BOOLEAN]
  /\ BootState.hpc = [h \in Handlers |-> "idle"]
  /\ BootState.hreq = [h \in Handlers |-> 0]
  /\ NotRun \in [mode : {"none", "standalone", "bootstrap", "permanent"},
               conf : Contents, name : Contents]
  /\ NoFiles \in [conf : Contents, json : Contents, perm : BOOLEAN]
<1>1. BootState.probe = [boot |-> FALSE, perm |-> FALSE]
  BY DEF BootState
<1>2. None \in Contents
  BY SupervisorAssumption DEF None, Contents
<1> QED
  BY <1>1, <1>2 DEF BootState, NotRun, NoFiles

\* The state keel-init starts in has its types.
LEMMA InitTypeInv == Init => TypeInv
<1> SUFFICES ASSUME Init PROVE TypeInv
  OBVIOUS
<1>1. Handles
  BY SupervisorAssumption, BootTypes DEF Init, Handles, Services
<1>2. /\ pc \in LoopPCs /\ hpc \in [Handlers -> HandlerPCs]
      /\ child \in [Services -> {"none", "running", "exited", "reaped"}]
      /\ alive \in [Services -> Nat] /\ hreq \in [Handlers -> 0 .. MaxBootstraps]
  BY SupervisorAssumption, BootTypes DEF Init, LoopPCs, HandlerPCs
<1>3. /\ probe \in [boot : BOOLEAN, perm : BOOLEAN]
      /\ ran \in [mode : {"none", "standalone", "bootstrap", "permanent"},
                  conf : Contents, name : Contents]
      /\ disk \in [conf : Contents, json : Contents, perm : BOOLEAN]
  BY BootTypes DEF Init
<1>4. /\ switched \in BOOLEAN /\ permanent \in BOOLEAN /\ signal \in BOOLEAN
      /\ mounted \in BOOLEAN
  BY SupervisorAssumption DEF Init
<1>5. /\ attempts \in 0 .. MaxAttempts /\ delay \in 0 .. 60
      /\ kubeconf \in Contents /\ bootjson \in Contents
      /\ requests \in 0 .. MaxBootstraps /\ ack \in 0 .. MaxBootstraps
      /\ reboots \in 0 .. MaxReboots
  BY SupervisorAssumption DEF Init, None, Contents
<1> QED
  BY <1>1, <1>2, <1>3, <1>4, <1>5 DEF TypeInv, TypeOK

(***************************************************************************)
(* The first two parts of the invariant, one action at a time.             *)
(***************************************************************************)
LEMMA NextTypeInv == TypeInv /\ [Next]_vars => TypeInv'
<1> SUFFICES ASSUME TypeInv, [Next]_vars PROVE TypeInv'
  OBVIOUS
<1> USE SupervisorAssumption
    DEF TypeInv, TypeOK, Handles, Services, LoopPCs, HandlerPCs, Contents,
        loopVars, fileVars, diskVars, handlerVars, envVars
<1>1. CASE StartAgent
  BY <1>1 DEF StartAgent, SpawnService, Outcomes
<1>2. CASE StartContainerd
  BY <1>2 DEF StartContainerd, SpawnService, Outcomes
<1>3. CASE StartKubelet
  BY <1>3 DEF StartKubelet, SpawnKubelet, SpawnService, Outcomes, None, Torn
<1>4. CASE Reap
  BY <1>4 DEF Reap, ReapZombies
<1>5. CASE CheckContainerd
  BY <1>5 DEF CheckContainerd, SpawnService, Outcomes, TryWait
<1>6. CASE CheckAgent
  BY <1>6, BackoffBounded DEF CheckAgent, TryWait
<1>7. CASE RestartAgent
  BY <1>7 DEF RestartAgent, SpawnService, Outcomes
<1>8. CASE CheckKubelet
  BY <1>8 DEF CheckKubelet, TryWait
<1>9. CASE Probe
  BY <1>9 DEF Probe
<1>10. CASE DetectBootstrap
  BY <1>10 DEF DetectBootstrap, SpawnKubelet, SpawnService, Outcomes, None, Torn
<1>11. CASE CheckSignal
  BY <1>11 DEF CheckSignal, SwitchToPermanent
<1>12. CASE StopKubelet
  BY <1>12 DEF StopKubelet
<1>13. CASE RemoveSignal
  BY <1>13 DEF RemoveSignal
<1>14. CASE RespawnKubelet
  BY <1>14 DEF RespawnKubelet, SpawnKubelet, SpawnService, Outcomes, None, Torn
<1>15. CASE Sleep
  BY <1>15 DEF Sleep, BootState
<1>16. ASSUME NEW h \in Handlers, Bootstrap(h) PROVE TypeInv'
  BY <1>16 DEF Bootstrap
<1>17. ASSUME NEW h \in Handlers, WriteConf(h) PROVE TypeInv'
  BY <1>17 DEF WriteConf, Filled, Torn
<1>18. ASSUME NEW h \in Handlers, WriteJson(h) PROVE TypeInv'
  BY <1>18 DEF WriteJson, Filled, Torn
<1>19. ASSUME NEW h \in Handlers, WriteSignal(h) PROVE TypeInv'
  BY <1>19 DEF WriteSignal
<1>20. ASSUME NEW h \in Handlers, WriteError(h) PROVE TypeInv'
  BY <1>20 DEF WriteError
<1>21. ASSUME NEW s \in Services, Die(s) PROVE TypeInv'
  BY <1>21 DEF Die, BootState
<1>22. CASE Join
  BY <1>22 DEF Join
<1>23. CASE Reboot
  <2>1. PICK found \in {IF mounted THEN [conf |-> kubeconf, json |-> bootjson, perm |-> permanent]
                          ELSE disk, NoFiles}, m \in BOOLEAN :
               LET files == IF m THEN found ELSE NoFiles
               IN  /\ kubeconf' = files.conf /\ bootjson' = files.json /\ permanent' = files.perm
                   /\ mounted' = m
                   /\ disk' = IF m THEN NoFiles ELSE found
    BY <1>23 DEF Reboot, SetupStorage
  <2>2. found \in [conf : Contents, json : Contents, perm : BOOLEAN]
    BY BootTypes
  <2>3. /\ kubeconf' \in Contents /\ bootjson' \in Contents /\ permanent' \in BOOLEAN
        /\ mounted' \in BOOLEAN /\ disk' \in [conf : Contents, json : Contents, perm : BOOLEAN]
    BY <2>1, <2>2, BootTypes
  <2>4. /\ pc' \in LoopPCs /\ hpc' \in [Handlers -> HandlerPCs]
        /\ child' \in [Services -> {"none", "running", "exited", "reaped"}]
        /\ alive' \in [Services -> Nat] /\ hreq' \in [Handlers -> 0 .. MaxBootstraps]
    BY <1>23, BootTypes DEF Reboot
  <2>5. /\ probe' \in [boot : BOOLEAN, perm : BOOLEAN]
        /\ ran' \in [mode : {"none", "standalone", "bootstrap", "permanent"},
                      conf : Contents, name : Contents]
    BY <1>23, BootTypes DEF Reboot
  <2>6. Handles'
    BY <1>23, BootTypes DEF Reboot
  <2>7. switched' \in BOOLEAN /\ signal' \in BOOLEAN
    BY <1>23 DEF Reboot
  <2>8. /\ attempts' \in 0 .. MaxAttempts /\ delay' \in 0 .. 60
        /\ requests' \in 0 .. MaxBootstraps /\ ack' \in 0 .. MaxBootstraps
        /\ reboots' \in 0 .. MaxReboots
    BY <1>23 DEF Reboot
  <2> HIDE SupervisorAssumption DEF Handles, Services, LoopPCs, HandlerPCs, Contents
  <2> QED
    BY <2>3, <2>4, <2>5, <2>6, <2>7, <2>8
<1>24. CASE UNCHANGED vars
  BY <1>24 DEF vars
<1> QED
  BY <1>1, <1>2, <1>3, <1>4, <1>5, <1>6, <1>7, <1>8, <1>9, <1>10, <1>11, <1>12,
     <1>13, <1>14, <1>15, <1>16, <1>17, <1>18, <1>19, <1>20, <1>21, <1>22, <1>23,
     <1>24
  DEF Next, LoopStep, HandlerStep

(***************************************************************************)
(* Type correctness of the supervisor: no counter leaves its range and no  *)
(* count of live processes goes below zero.                                *)
(***************************************************************************)
THEOREM TypeCorrect == Spec => []TypeOK
<1>1. TypeInv => TypeOK
  BY DEF TypeInv
<1> QED
  BY <1>1, InitTypeInv, NextTypeInv, PTL DEF Spec

(***************************************************************************)
(* supervise_services never has two processes of one service.              *)
(***************************************************************************)
THEOREM OneInstanceSafe == Spec => []OneInstance
<1>1. TypeInv => OneInstance
  BY DEF TypeInv, Handles, OneInstance
<1> QED
  BY <1>1, InitTypeInv, NextTypeInv, PTL DEF Spec

\* No step confuses the bootstrap requests of two handlers.
LEMMA NextRequests == TypeInv /\ Requests /\ [Next]_vars => Requests'
<1> SUFFICES ASSUME TypeInv, Requests, [Next]_vars PROVE Requests'
  OBVIOUS
<1> USE SupervisorAssumption
    DEF TypeInv, TypeOK, Requests, HandlerPCs, loopVars, fileVars, diskVars,
        handlerVars, envVars
<1>1. CASE StartAgent
  BY <1>1 DEF StartAgent, SpawnService, Outcomes
<1>2. CASE StartContainerd
  BY <1>2 DEF StartContainerd, SpawnService, Outcomes
<1>3. CASE StartKubelet
  BY <1>3 DEF StartKubelet, SpawnKubelet, SpawnService, Outcomes, None, Torn
<1>4. CASE Reap
  BY <1>4 DEF Reap, ReapZombies
<1>5. CASE CheckContainerd
  BY <1>5 DEF CheckContainerd, SpawnService, Outcomes, TryWait
<1>6. CASE CheckAgent
  BY <1>6 DEF CheckAgent, TryWait
<1>7. CASE RestartAgent
  BY <1>7 DEF RestartAgent, SpawnService, Outcomes
<1>8. CASE CheckKubelet
  BY <1>8 DEF CheckKubelet, TryWait
<1>9. CASE Probe
  BY <1>9 DEF Probe
<1>10. CASE DetectBootstrap
  BY <1>10 DEF DetectBootstrap, SpawnKubelet, SpawnService, Outcomes, None, Torn
<1>11. CASE CheckSignal
  BY <1>11 DEF CheckSignal, SwitchToPermanent
<1>12. CASE StopKubelet
  BY <1>12 DEF StopKubelet
<1>13. CASE RemoveSignal
  BY <1>13 DEF RemoveSignal
<1>14. CASE RespawnKubelet
  BY <1>14 DEF RespawnKubelet, SpawnKubelet, SpawnService, Outcomes, None, Torn
<1>15. CASE Sleep
  BY <1>15 DEF Sleep, BootState
<1>16. ASSUME NEW h \in Handlers, Bootstrap(h) PROVE Requests'
  BY <1>16 DEF Bootstrap
<1>17. ASSUME NEW h \in Handlers, WriteConf(h) PROVE Requests'
  BY <1>17 DEF WriteConf, Filled, Torn
<1>18. ASSUME NEW h \in Handlers, WriteJson(h) PROVE Requests'
  BY <1>18 DEF WriteJson, Filled, Torn
<1>19. ASSUME NEW h \in Handlers, WriteSignal(h) PROVE Requests'
  BY <1>19 DEF WriteSignal
<1>20. ASSUME NEW h \in Handlers, WriteError(h) PROVE Requests'
  BY <1>20 DEF WriteError
<1>21. ASSUME NEW s \in Services, Die(s) PROVE Requests'
  BY <1>21 DEF Die, BootState
<1>22. CASE Join
  BY <1>22 DEF Join
<1>23. CASE Reboot
  BY <1>23 DEF Reboot, BootState, NotRun, NoFiles, None, SetupStorage
<1>24. CASE UNCHANGED vars
  BY <1>24 DEF vars
<1> QED
  BY <1>1, <1>2, <1>3, <1>4, <1>5, <1>6, <1>7, <1>8, <1>9, <1>10, <1>11, <1>12,
     <1>13, <1>14, <1>15, <1>16, <1>17, <1>18, <1>19, <1>20, <1>21, <1>22, <1>23,
     <1>24
  DEF Next, LoopStep, HandlerStep

(***************************************************************************)
(* A step that changes a file, the signal, ack or ran, or leaves WillSpawn *)
(* keeps BootstrapNotMissed.                                               *)
(***************************************************************************)
LEMMA NextNotMissed == BootstrapInv /\ [Next]_vars => BootstrapNotMissed'
<1> SUFFICES ASSUME BootstrapInv, [Next]_vars PROVE BootstrapNotMissed'
  OBVIOUS
<1> USE SupervisorAssumption
    DEF BootstrapInv, TypeInv, TypeOK, Requests, BootstrapNotMissed, WillSpawn,
        Contents, HandlerPCs, loopVars, fileVars, diskVars, handlerVars, envVars
<1>1. CASE StartAgent
  BY <1>1 DEF StartAgent, SpawnService, Outcomes
<1>2. CASE StartContainerd
  BY <1>2 DEF StartContainerd, SpawnService, Outcomes
<1>3. CASE StartKubelet
  BY <1>3 DEF StartKubelet, SpawnKubelet, SpawnService, Outcomes, None, Torn
<1>4. CASE Reap
  BY <1>4 DEF Reap, ReapZombies
<1>5. CASE CheckContainerd
  BY <1>5 DEF CheckContainerd, SpawnService, Outcomes, TryWait
<1>6. CASE CheckAgent
  BY <1>6 DEF CheckAgent, TryWait
<1>7. CASE RestartAgent
  BY <1>7 DEF RestartAgent, SpawnService, Outcomes
<1>8. CASE CheckKubelet
  BY <1>8 DEF CheckKubelet, TryWait
<1>9. CASE Probe
  BY <1>9 DEF Probe
<1>10. CASE DetectBootstrap
  BY <1>10 DEF DetectBootstrap, SpawnKubelet, SpawnService, Outcomes, None, Torn
<1>11. CASE CheckSignal
  BY <1>11 DEF CheckSignal, SwitchToPermanent
<1>12. CASE StopKubelet
  BY <1>12 DEF StopKubelet
<1>13. CASE RemoveSignal
  BY <1>13 DEF RemoveSignal
<1>14. CASE RespawnKubelet
  BY <1>14 DEF RespawnKubelet, SpawnKubelet, SpawnService, Outcomes, None, Torn
<1>15. CASE Sleep
  BY <1>15 DEF Sleep, BootState
<1>16. ASSUME NEW h \in Handlers, Bootstrap(h) PROVE BootstrapNotMissed'
  BY <1>16 DEF Bootstrap
<1>17. ASSUME NEW h \in Handlers, WriteConf(h) PROVE BootstrapNotMissed'
  BY <1>17 DEF WriteConf, Filled, Torn
<1>18. ASSUME NEW h \in Handlers, WriteJson(h) PROVE BootstrapNotMissed'
  BY <1>18 DEF WriteJson, Filled, Torn
<1>19. ASSUME NEW h \in Handlers, WriteSignal(h) PROVE BootstrapNotMissed'
  BY <1>19 DEF WriteSignal
<1>20. ASSUME NEW h \in Handlers, WriteError(h) PROVE BootstrapNotMissed'
  BY <1>20 DEF WriteError
<1>21. ASSUME NEW s \in Services, Die(s) PROVE BootstrapNotMissed'
  BY <1>21 DEF Die, BootState
<1>22. CASE Join
  BY <1>22 DEF Join
<1>23. CASE Reboot
  BY <1>23 DEF Reboot, BootState, NotRun, NoFiles, None, SetupStorage
<1>24. CASE UNCHANGED vars
  BY <1>24 DEF vars
<1> QED
  BY <1>1, <1>2, <1>3, <1>4, <1>5, <1>6, <1>7, <1>8, <1>9, <1>10, <1>11, <1>12,
     <1>13, <1>14, <1>15, <1>16, <1>17, <1>18, <1>19, <1>20, <1>21, <1>22, <1>23,
     <1>24
  DEF Next, LoopStep, HandlerStep

(***************************************************************************)
(* No acknowledged bootstrap is missed, however many handlers write at     *)
(* once, wherever the loop is and whatever dies.                           *)
(***************************************************************************)
THEOREM NotMissed == Spec => []BootstrapNotMissed
<1>1. Init => Requests /\ BootstrapNotMissed
  BY SupervisorAssumption DEF Init, Requests, BootstrapNotMissed, BootState
<1>2. BootstrapInv /\ [Next]_vars => BootstrapInv'
  BY NextTypeInv, NextRequests, NextNotMissed DEF BootstrapInv
<1>3. Init => BootstrapInv
  BY <1>1, InitTypeInv DEF BootstrapInv
<1>4. BootstrapInv => BootstrapNotMissed
  BY DEF BootstrapInv
<1> QED
  BY <1>2, <1>3, <1>4, PTL DEF Spec
=============================================================================
