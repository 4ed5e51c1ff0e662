---------------------------- MODULE Certificates ----------------------------
(***************************************************************************)
(* The operational certificate of a node in a Kubernetes cluster: its      *)
(* request when the agent starts (init_k8s_certificates in cmd/keel-agent/ *)
(* src/main.rs), the renewal daemon (cert_renewal.rs) and the              *)
(* rotate_certificate handler (lib.rs).                                    *)
(*                                                                         *)
(* All three run request_certificate (k8s_csr.rs), which goes through one  *)
(* CertificateSigningRequest object whose name depends on the node only,   *)
(* and all three write the same two files, without a lock.  A certificate  *)
(* is identified with the key it was issued for.                           *)
(***************************************************************************)
EXTENDS Integers, FiniteSets

CONSTANTS
  Keys,          \* private keys, as positive numbers
  Rotators,      \* rotate_certificate calls that may be in flight together
  MaxRotations,  \* bound on rotate_certificate calls
  MaxMishaps     \* bound on outages of the cluster, failing file system calls
                 \* and agent restarts, together

Start == "start"
Renewer == "renewer"
Tasks == Rotators \cup {Start, Renewer}

ASSUME CertificatesAssumption ==
  /\ Keys \subseteq Nat \ {0}
  /\ Start \notin Rotators /\ Renewer \notin Rotators
  /\ MaxRotations \in Nat /\ MaxMishaps \in Nat

VARIABLES
  file,      \* the certificate, the key, and the .backup of each
  stale,     \* the certificate is past its renewal deadline
  csr,       \* the CertificateSigningRequest object
  down,      \* the API server does not answer, or not in time
  willing,   \* the cluster lets the agent create and approve requests, and
             \* signs approved ones within a minute
  pc,        \* where each task is
  job,       \* a task's key and certificate, and how far it is with the files
  rotations, mishaps,  \* rotate_certificate calls, and mishaps, so far
  complete,  \* a matching pair has been stored once
  harmed     \* some write of a file was cut short or failed

otherVars == <<down, willing, rotations, mishaps, complete, harmed>>
vars == <<file, stale, csr, down, willing, pc, job,
          rotations, mishaps, complete, harmed>>

\* A file that fs::write or fs::copy has truncated and not filled is Torn.
None == 0
Torn == -1
Contents == Keys \cup {None, Torn}
Files == {"cert", "key", "certBackup", "keyBackup"}

NoCsr == [key |-> None, approved |-> FALSE, signed |-> FALSE]

\* The files a task still has to write, in this order; open tells that the
\* first one is truncated.
Order == <<"certBackup", "keyBackup", "cert", "key">>
NoJob == [key |-> None, cert |-> None, at |-> 1, open |-> FALSE]

TypeOK ==
  /\ file \in [Files -> Contents]
  /\ stale \in BOOLEAN /\ down \in BOOLEAN /\ willing \in BOOLEAN
  /\ csr \in [key : Keys \cup {None}, approved : BOOLEAN, signed : BOOLEAN]
  /\ pc \in [Tasks -> {"begin", "off", "idle", "done", "submit", "approve", "wait", "write"}]
  /\ job \in [Tasks -> [key : Contents, cert : Contents, at : 1 .. 4, open : BOOLEAN]]
  /\ rotations \in 0 .. MaxRotations
  /\ mishaps \in 0 .. MaxMishaps
  /\ complete \in BOOLEAN /\ harmed \in BOOLEAN

\* main() runs init_k8s_certificates before it starts the daemon and serves.
Started == [t \in Tasks |-> IF t = Start THEN "begin" ELSE "off"]

Init ==
  /\ file = [f \in Files |-> None]
  /\ stale = FALSE
  /\ csr = NoCsr /\ down = FALSE /\ willing \in BOOLEAN
  /\ pc = Started
  /\ job = [t \in Tasks |-> NoJob]
  /\ rotations = 0 /\ mishaps = 0
  /\ complete = FALSE /\ harmed = FALSE

-----------------------------------------------------------------------------

Mishap == mishaps < MaxMishaps /\ mishaps' = mishaps + 1

Matching(c, k) == c \in Keys /\ c = k

InUse == {file[f] : f \in Files} \cup {csr.key} \cup {job[t].key : t \in Tasks}
           \cup {job[t].cert : t \in Tasks}

\* generate_csr_and_key: a key unlike any other.
NewKey == CHOOSE k \in Keys : k \notin InUse

\* request_certificate begins.
Request(t) ==
  /\ Keys \ InUse # {}
  /\ pc' = [pc EXCEPT ![t] = "submit"]
  /\ job' = [job EXCEPT ![t] = [NoJob EXCEPT !.key = NewKey]]

\* Mutant: the daemon's loop ends with its first error.
LeaveForGood(t) ==
  /\ pc' = IF t # Start THEN [pc EXCEPT ![t] = IF t = Renewer THEN "done" ELSE "idle"]
           ELSE [u \in Tasks |-> IF u = Start THEN "done" ELSE "idle"]
  /\ job' = [job EXCEPT ![t] = NoJob]

\* A task is through, with or without a new certificate.  After the start the
\* daemon runs if there is a certificate, and calls are served.
Leave(t) ==
  /\ pc' = IF t # Start THEN [pc EXCEPT ![t] = "idle"]
           ELSE [u \in Tasks |-> CASE u = Start -> "done"
                                   [] u = Renewer -> IF file["cert"] = None THEN "off" ELSE "idle"
                                   [] OTHER -> "idle"]
  /\ job' = [job EXCEPT ![t] = NoJob]

-----------------------------------------------------------------------------
(* The three callers                                                       *)

\* init_k8s_certificates: files that exist are taken as they are.
Begin ==
  /\ pc[Start] = "begin"
  /\ IF file["cert"] # None /\ file["key"] # None THEN Leave(Start) ELSE Request(Start)
  /\ UNCHANGED <<file, stale, csr, otherVars>>

\* check_and_renew, once a day: a certificate that does not parse is an error,
\* one that is not due is left alone.
CheckAndRenew ==
  /\ pc[Renewer] = "idle"
  /\ file["cert"] \in Keys /\ stale
  /\ Request(Renewer)
  /\ UNCHANGED <<file, stale, csr, otherVars>>

RotateCertificate(t) ==
  /\ pc[t] = "idle" /\ rotations < MaxRotations
  /\ rotations' = rotations + 1
  /\ Request(t)
  /\ UNCHANGED <<file, stale, csr, down, willing, mishaps, complete, harmed>>

\* The client goes away and the handler is dropped where it awaits.
Dropped(t) ==
  /\ pc[t] \in {"submit", "approve", "wait"}
  /\ Leave(t)
  /\ UNCHANGED <<file, stale, csr, otherVars>>

-----------------------------------------------------------------------------
(* request_certificate                                                     *)

Fail(t) == Leave(t) /\ UNCHANGED csr

Submitted(k) == [key |-> k, approved |-> FALSE, signed |-> FALSE]

\* Mutant: an object that is there already is as good as a new one.
SubmitOrReuse(t) ==
  /\ pc[t] = "submit" /\ ~down
  /\ csr' = IF csr.key = None THEN Submitted(job[t].key) ELSE csr
  /\ pc' = [pc EXCEPT ![t] = "approve"]
  /\ UNCHANGED <<file, stale, job, otherVars>>

\* submit_csr: create fails when the object is there already or the server
\* refuses it, or loses its answer.
Submit(t) ==
  /\ pc[t] = "submit" /\ csr.key = None /\ ~down
  /\ csr' = Submitted(job[t].key)
  /\ pc' = [pc EXCEPT ![t] = "approve"]
  /\ UNCHANGED <<file, stale, job, otherVars>>

SubmitFails(t) ==
  /\ pc[t] = "submit"
  /\ \/ (csr.key # None \/ down \/ ~willing) /\ Fail(t)
     \/ csr.key = None /\ down /\ Leave(t) /\ csr' = Submitted(job[t].key)
  /\ UNCHANGED <<file, stale, otherVars>>

\* approve_csr; an error, such as a missing permission, is only a warning.
Approve(t) ==
  /\ pc[t] = "approve"
  /\ pc' = [pc EXCEPT ![t] = "wait"]
  /\ \/ csr.key # None /\ csr' = [csr EXCEPT !.approved = TRUE]
     \/ (csr.key = None \/ down \/ ~willing) /\ UNCHANGED csr
  /\ UNCHANGED <<file, stale, job, otherVars>>

\* Mutant: the daemon makes no backup.
FirstFileRotate(t) == IF t \in Rotators /\ file["cert"] # None THEN 1 ELSE 3

\* The files start with the backups, if the caller makes any.
FirstFile(t) == IF t # Start /\ file["cert"] # None THEN 1 ELSE 3

\* wait_for_certificate: polls the object by its name, for a minute.
Obtain(t) ==
  /\ pc[t] = "wait" /\ csr.signed /\ ~down
  /\ pc' = [pc EXCEPT ![t] = "write"]
  /\ job' = [job EXCEPT ![t].cert = csr.key, ![t].at = FirstFile(t)]
  /\ UNCHANGED <<file, stale, csr, otherVars>>

\* The call fails, or nobody approves or signs within the minute.
WaitFails(t) ==
  /\ pc[t] = "wait"
  /\ csr.key = None \/ down \/ ~csr.approved \/ (~csr.signed /\ ~willing)
  /\ Fail(t)
  /\ UNCHANGED <<file, stale, otherVars>>
-----------------------------------------------------------------------------
(* The files: no await from the first backup to the last write             *)

\* What the current file of task t is filled with.
Content(t) == CASE Order[job[t].at] = "certBackup" -> file["cert"]
                [] Order[job[t].at] = "keyBackup" -> file["key"]
                [] Order[job[t].at] = "cert" -> job[t].cert
                [] OTHER -> job[t].key

\* Mutant: one file too many.
AdvancePastEnd(t) ==
  IF job[t].at > 4 THEN Leave(t)
  ELSE /\ job' = [job EXCEPT ![t].at = @ + 1, ![t].open = FALSE]
       /\ UNCHANGED pc

\* On to the next file, or out after the last one.
Advance(t) ==
  IF job[t].at = 4 THEN Leave(t)
  ELSE /\ job' = [job EXCEPT ![t].at = @ + 1, ![t].open = FALSE]
       /\ UNCHANGED pc

Truncate(t) ==
  /\ pc[t] = "write" /\ ~job[t].open
  /\ Content(t) # None
  /\ file' = [file EXCEPT ![Order[job[t].at]] = Torn]
  /\ job' = [job EXCEPT ![t].open = TRUE]
  /\ UNCHANGED <<stale, csr, pc, otherVars>>

Fill(t) ==
  /\ pc[t] = "write" /\ job[t].open
  /\ file' = [file EXCEPT ![Order[job[t].at]] = Content(t)]
  /\ stale' = (stale /\ Order[job[t].at] # "cert")
  /\ complete' = (complete \/ Matching(file'["cert"], file'["key"]))
  /\ Advance(t)
  /\ UNCHANGED <<csr, down, willing, rotations, mishaps, harmed>>

\* A backup that fails, for want of a key file for one, is a warning; a write
\* that fails ends the task.  The file is as it was or left truncated.
WriteFails(t) ==
  /\ pc[t] = "write"
  /\ \/ Mishap
     \/ Content(t) = None /\ UNCHANGED mishaps
  /\ UNCHANGED file
  /\ IF job[t].at <= 2 THEN Advance(t) ELSE Leave(t)
  /\ harmed' = TRUE
  /\ UNCHANGED <<stale, csr, down, willing, rotations, complete>>

TaskStep(t) ==
  \/ Submit(t) \/ SubmitFails(t) \/ Approve(t) \/ Obtain(t) \/ WaitFails(t)
  \/ Truncate(t) \/ Fill(t) \/ WriteFails(t)

-----------------------------------------------------------------------------
(* The environment                                                         *)

\* External: the API server becomes unreachable, and comes back.
Outage ==
  /\ ~down /\ down' = TRUE
  /\ Mishap
  /\ UNCHANGED <<file, stale, csr, willing, pc, job, rotations, complete, harmed>>

Recover ==
  /\ down /\ down' = FALSE
  /\ UNCHANGED <<file, stale, csr, willing, pc, job, rotations, mishaps, complete, harmed>>

\* External: an administrator grants the agent the roles it needs.
Grant ==
  /\ ~willing /\ willing' = TRUE
  /\ UNCHANGED <<file, stale, csr, down, pc, job, rotations, mishaps, complete, harmed>>

\* External: where the agent's own approval failed, an administrator's may come.
AdminApproves ==
  /\ csr.key # None /\ ~csr.approved
  /\ csr' = [csr EXCEPT !.approved = TRUE]
  /\ UNCHANGED <<file, stale, pc, job, otherVars>>

\* External: the signer issues the certificate of an approved request.
Sign ==
  /\ csr.approved /\ ~csr.signed
  /\ csr' = [csr EXCEPT !.signed = TRUE]
  /\ UNCHANGED <<file, stale, pc, job, otherVars>>

(***************************************************************************)
(* External: the cluster deletes old requests, an hour after they were     *)
(* signed and a day after they were created; request_certificate takes a   *)
(* minute.  The agent never deletes one (cleanup_old_csrs has no caller).  *)
(***************************************************************************)
Expire ==
  /\ csr.key # None
  /\ \A t \in Tasks : pc[t] \in {"approve", "wait", "write"} => job[t].key # csr.key
  /\ csr' = NoCsr
  /\ UNCHANGED <<file, stale, pc, job, otherVars>>

\* Time passes the renewal deadline of the certificate in place.
Age ==
  /\ file["cert"] \in Keys /\ ~stale
  /\ stale' = TRUE
  /\ UNCHANGED <<file, csr, pc, job, otherVars>>

\* The agent dies, at any moment, and starts again.
Restart ==
  /\ Mishap
  /\ harmed' = (harmed \/ \E t \in Tasks : pc[t] = "write")
  /\ pc' = Started
  /\ job' = [t \in Tasks |-> NoJob]
  /\ UNCHANGED <<file, stale, csr, down, willing, rotations, complete>>

Next ==
  \/ Begin \/ CheckAndRenew
  \/ \E t \in Tasks : TaskStep(t)
  \/ \E t \in Rotators : RotateCertificate(t) \/ Dropped(t)
  \/ Outage \/ Recover \/ Grant \/ AdminApproves \/ Sign \/ Expire \/ Age \/ Restart

Spec == Init /\ [][Next]_vars

(***************************************************************************)
(* Tasks keep running, and the cluster comes back and deletes old          *)
(* requests.  Only a willing one is sure to sign what is approved, and     *)
(* nothing is assumed of administrators.                                   *)
(***************************************************************************)
Fairness ==
  /\ WF_vars(Begin) /\ WF_vars(CheckAndRenew)
  /\ \A t \in Tasks : WF_vars(TaskStep(t))
  /\ WF_vars(Recover) /\ WF_vars(willing /\ Sign) /\ WF_vars(Expire)

FairSpec == Spec /\ Fairness

-----------------------------------------------------------------------------
(* Properties                                                              *)

(***************************************************************************)
(* At most one task writes the files at a time, although nothing locks     *)
(* them: they are written only by the one whose create call succeeded, and *)
(* its request object outlives the writes.                                 *)
(***************************************************************************)
OneWriter == \A t, u \in Tasks : pc[t] = "write" /\ pc[u] = "write" => t = u

(***************************************************************************)
(* A task that writes both files to the end, which is what renewal and     *)
(* rotation report as success, leaves a certificate with its own key.      *)
(***************************************************************************)
SuccessMatches ==
  [][\A t \in Tasks : job[t].at = 4 /\ job[t].open /\ file'["key"] = job[t].key
                        => Matching(file'["cert"], file'["key"])]_vars

(***************************************************************************)
(* Until a first write has been cut short or has failed, and right after   *)
(* it, a matching pair can be found: in place or in the backups.  The      *)
(* backups are complete before the pair in place is touched.               *)
(***************************************************************************)
Recoverable ==
  complete /\ ~harmed => \/ Matching(file["cert"], file["key"])
                         \/ Matching(file["certBackup"], file["keyBackup"])

(***************************************************************************)
(* Where the daemon runs, a certificate that is due for renewal is         *)
(* replaced if the cluster is willing, unless a write of it is cut short:  *)
(* the daemon tries again day after day, past requests that others have    *)
(* left behind.  In a cluster that refuses or does not sign in time it     *)
(* still never stops asking, and succeeds once the roles are granted.      *)
(***************************************************************************)
DaemonRenews ==
  (stale /\ pc[Renewer] # "off")
    ~> (~stale \/ file["cert"] = Torn \/ (~willing /\ pc[Renewer] = "submit"))
=============================================================================
