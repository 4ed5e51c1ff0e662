------------------------- MODULE CertificatesProofs -------------------------
(***************************************************************************)
(* Proofs about Certificates, for any set of keys and of rotation calls    *)
(* and any bound on outages, failures and restarts, in a willing cluster   *)
(* or not: the request object is a lock on the files, a success leaves a   *)
(* matching pair, and until a write goes wrong there is a pair to go back  *)
(* to.                                                                     *)
(***************************************************************************)
EXTENDS Certificates, TLAPS

\* A task that created the request object and is not through.
Owns(t) == pc[t] \in {"approve", "wait", "write"}

\* A task outside request_certificate and the writes has nothing in hand; one
\* inside has a key, and touches no file before it writes.
JobInv ==
  \A t \in Tasks :
    /\ pc[t] \in {"begin", "off", "idle", "done"} => job[t] = NoJob
    /\ pc[t] \in {"submit", "approve", "wait", "write"} => job[t].key \in Keys
    /\ pc[t] # "write" => job[t].at = 1 /\ ~job[t].open

\* The object carries the key of its owner, so there is one owner at a time.
OwnerInv ==
  /\ \A t \in Tasks : Owns(t) => csr.key = job[t].key
  /\ \A t, u \in Tasks : Owns(t) /\ Owns(u) => t = u

\* Nobody runs before init_k8s_certificates is through.
StartInv == pc[Start] # "done" => \A t \in Tasks \ {Start} : pc[t] = "off"

\* How far the writer is shows in the files.
WriterInv ==
  \A t \in Tasks : pc[t] = "write" =>
    /\ job[t].cert = job[t].key
    /\ job[t].open => file[Order[job[t].at]] = Torn
    /\ job[t].at = 4 => file["cert"] = job[t].cert

\* While no write has gone wrong: between writers the pair in place is whole
\* or absent, and a writer that touches it has put a copy of it aside.
PairInv ==
  ~harmed =>
    /\ (\A t \in Tasks : pc[t] # "write") =>
         IF complete THEN Matching(file["cert"], file["key"])
                     ELSE file["cert"] = None /\ file["key"] = None
    /\ \A t \in Tasks : pc[t] = "write" =>
         /\ job[t].at <= 2 => complete /\ Matching(file["cert"], file["key"])
         /\ job[t].at = 2 => file["certBackup"] = file["cert"]
         /\ job[t].at >= 3 /\ complete => Matching(file["certBackup"], file["keyBackup"])
         /\ job[t].at = 3 /\ ~complete => file["key"] = None
    /\ pc[Start] \notin {"begin", "done"} => ~complete


-----------------------------------------------------------------------------
(* The operators the actions share                                         *)

PcStates == {"begin", "off", "idle", "done", "submit", "approve", "wait", "write"}
Jobs == [key : Contents, cert : Contents, at : 1 .. 4, open : BOOLEAN]

USE CertificatesAssumption

\* The writes go to four different files, in a fixed order.
LEMMA OrderFacts ==
  /\ Order[1] = "certBackup" /\ Order[2] = "keyBackup"
  /\ Order[3] = "cert" /\ Order[4] = "key"
  /\ \A n \in 1 .. 4 : Order[n] \in Files
BY DEF Order, Files

\* None and Torn are not keys.
LEMMA ContentFacts ==
  /\ None \notin Keys /\ Torn \notin Keys /\ None # Torn
  /\ Keys \subseteq Contents /\ None \in Contents /\ Torn \in Contents
  /\ NoJob \in Jobs
BY DEF None, Torn, Contents, NoJob, Jobs

\* generate_csr_and_key returns a key.
LEMMA NewKeyFacts ==
  ASSUME Keys \ InUse # {}
  PROVE  NewKey \in Keys /\ NewKey \notin InUse
BY DEF NewKey

\* What Leave does to the tasks: t has nothing in hand, and the end of the
\* start lets the others run.
LEMMA LeaveFacts ==
  ASSUME TypeOK, StartInv, NEW t \in Tasks, Leave(t), pc[t] # "done"
  PROVE  /\ pc' \in [Tasks -> PcStates] /\ job' \in [Tasks -> Jobs]
         /\ job'[t] = NoJob /\ \A u \in Tasks \ {t} : job'[u] = job[u]
         /\ pc'[t] \in {"idle", "done"} /\ (pc'[Start] = "done" <=> pc[Start] = "done" \/ t = Start)
         /\ \A u \in Tasks \ {t} : \/ pc'[u] = pc[u]
                                   \/ t = Start /\ pc[u] = "off" /\ pc'[u] = "idle"
<1>1. job' = [job EXCEPT ![t] = NoJob]
  BY DEF Leave
<1>2. job' \in [Tasks -> Jobs] /\ job'[t] = NoJob /\ \A u \in Tasks \ {t} : job'[u] = job[u]
  BY <1>1, ContentFacts DEF TypeOK, Jobs
<1>3. CASE t # Start
  <2>1. pc' = [pc EXCEPT ![t] = "idle"]
    BY <1>3 DEF Leave
  <2>2. Start \in Tasks
    BY DEF Tasks
  <2> QED BY <1>2, <1>3, <2>1, <2>2 DEF TypeOK, PcStates
<1>4. CASE t = Start
  <2>1. pc' = [u \in Tasks |-> CASE u = Start -> "done"
                                 [] u = Renewer -> IF file["cert"] = None THEN "off" ELSE "idle"
                                 [] OTHER -> "idle"]
    BY <1>4 DEF Leave
  <2>2. \A u \in Tasks : /\ u = Start => pc'[u] = "done"
                         /\ u # Start => pc'[u] \in {"off", "idle"}
    BY <2>1 DEF Start, Renewer
  <2>3. \A u \in Tasks \ {Start} : pc[u] = "off"
    BY <1>4 DEF StartInv
  <2>4. pc' \in [Tasks -> PcStates]
    BY <2>1, <2>2 DEF PcStates
  <2>5. Start \in Tasks
    BY DEF Tasks
  <2> QED BY <1>2, <1>4, <2>2, <2>3, <2>4, <2>5
<1> QED BY <1>3, <1>4

\* What Request does: t has a fresh key and nothing else.
LEMMA RequestFacts ==
  ASSUME TypeOK, NEW t \in Tasks, Request(t)
  PROVE  /\ pc' \in [Tasks -> PcStates] /\ job' \in [Tasks -> Jobs]
         /\ job'[t].key \in Keys /\ job'[t].at = 1 /\ ~job'[t].open
         /\ \A u \in Tasks \ {t} : job'[u] = job[u] /\ pc'[u] = pc[u]
         /\ pc'[t] = "submit"
<1>1. NewKey \in Keys
  BY NewKeyFacts DEF Request
<1>2. job' = [job EXCEPT ![t] = [key |-> NewKey, cert |-> None, at |-> 1, open |-> FALSE]]
  <2>1. NoJob \in Jobs /\ NoJob.cert = None /\ NoJob.at = 1 /\ NoJob.open = FALSE
    BY ContentFacts DEF NoJob
  <2>2. \A j \in Jobs : [j EXCEPT !.key = NewKey]
                         = [key |-> NewKey, cert |-> j.cert, at |-> j.at, open |-> j.open]
    BY DEF Jobs
  <2> QED BY <2>1, <2>2 DEF Request
<1>3. [key |-> NewKey, cert |-> None, at |-> 1, open |-> FALSE] \in Jobs
  BY <1>1, ContentFacts DEF Jobs
<1>4. pc' = [pc EXCEPT ![t] = "submit"]
  BY DEF Request
<1> QED BY <1>1, <1>2, <1>3, <1>4 DEF TypeOK, PcStates, Jobs

\* What Advance does to a writer that is not at its last file.
LEMMA AdvanceFacts ==
  ASSUME TypeOK, NEW t \in Tasks, Advance(t), job[t].at # 4
  PROVE  /\ job' \in [Tasks -> Jobs] /\ pc' = pc
         /\ job'[t].key = job[t].key /\ job'[t].cert = job[t].cert
         /\ job'[t].at = job[t].at + 1 /\ ~job'[t].open
         /\ \A u \in Tasks \ {t} : job'[u] = job[u]
<1>1. job[t] \in Jobs
  BY DEF TypeOK, Jobs
<1>2. job' = [job EXCEPT ![t] = [key |-> job[t].key, cert |-> job[t].cert, at |-> job[t].at + 1,
                                 open |-> FALSE]]
  BY <1>1 DEF Advance, TypeOK, Jobs
<1>3. [key |-> job[t].key, cert |-> job[t].cert, at |-> job[t].at + 1, open |-> FALSE] \in Jobs
  BY <1>1 DEF Jobs
<1>4. pc' = pc
  BY DEF Advance
<1> QED BY <1>2, <1>3, <1>4 DEF TypeOK, Jobs

\* What a write in progress is filled with is one of the contents.
LEMMA ContentType ==
  ASSUME TypeOK, NEW t \in Tasks
  PROVE  /\ Content(t) \in Contents
         /\ job[t].at = 1 => Content(t) = file["cert"]
         /\ job[t].at = 2 => Content(t) = file["key"]
         /\ job[t].at = 3 => Content(t) = job[t].cert
         /\ job[t].at = 4 => Content(t) = job[t].key
<1>1. job[t] \in Jobs
  BY DEF TypeOK, Jobs
<1>2. job[t].at \in {1, 2, 3, 4}
  BY <1>1 DEF Jobs
<1>3. /\ file["cert"] \in Contents /\ file["key"] \in Contents
      /\ job[t].cert \in Contents /\ job[t].key \in Contents
  BY <1>1 DEF TypeOK, Files, Jobs
<1> QED BY <1>2, <1>3, OrderFacts DEF Content
-----------------------------------------------------------------------------
(* Types                                                                   *)

\* The state the agent starts in has its types.
LEMMA InitType == Init => TypeOK
<1> SUFFICES ASSUME Init PROVE TypeOK
  OBVIOUS
<1>1. file \in [Files -> Contents]
  BY ContentFacts DEF Init
<1>2. csr \in [key : Keys \cup {None}, approved : BOOLEAN, signed : BOOLEAN]
  BY DEF Init, NoCsr
<1>3. pc \in [Tasks -> PcStates]
  BY DEF Init, Started, PcStates
<1>4. job \in [Tasks -> Jobs]
  BY ContentFacts DEF Init
<1>5. 0 \in 0 .. MaxRotations /\ 0 \in 0 .. MaxMishaps
  OBVIOUS
<1> QED BY <1>1, <1>2, <1>3, <1>4, <1>5 DEF Init, TypeOK, Jobs, PcStates

\* Every step keeps the types; the files and the object are written by few.
LEMMA NextType ==
  ASSUME TypeOK, JobInv, StartInv, [Next]_vars
  PROVE  TypeOK'
<1> USE DEF Jobs, PcStates
<1> DEFINE CsrType == [key : Keys \cup {None}, approved : BOOLEAN, signed : BOOLEAN]
<1>1. /\ Start \in Tasks /\ Renewer \in Tasks /\ Rotators \subseteq Tasks
  BY DEF Tasks
<1>2. ASSUME NEW t \in Tasks, Request(t),
             UNCHANGED <<file, stale, csr, down, willing, mishaps, complete, harmed>>,
             rotations' \in 0 .. MaxRotations
      PROVE  TypeOK'
  <2>1. pc' \in [Tasks -> PcStates] /\ job' \in [Tasks -> Jobs]
    BY <1>2, RequestFacts
  <2> QED BY <1>2, <2>1 DEF TypeOK
<1>3. ASSUME NEW t \in Tasks, Leave(t), pc[t] # "done", UNCHANGED <<file, stale, otherVars>>,
             csr' = csr \/ (csr' = Submitted(job[t].key) /\ pc[t] = "submit")
      PROVE  TypeOK'
  <2>1. pc' \in [Tasks -> PcStates] /\ job' \in [Tasks -> Jobs]
    BY <1>3, LeaveFacts
  <2>2. csr' \in CsrType
    <3>1. CASE csr' = csr
      BY <3>1 DEF TypeOK
    <3>2. CASE csr' = Submitted(job[t].key) /\ pc[t] = "submit"
      BY <3>2 DEF JobInv, Submitted
    <3> QED BY <1>3, <3>1, <3>2
  <2> QED BY <1>3, <2>1, <2>2 DEF TypeOK, otherVars
<1>4. ASSUME NEW t \in Tasks, Submit(t)
      PROVE  TypeOK'
  <2>1. csr' \in CsrType
    BY <1>4 DEF JobInv, Submit, Submitted
  <2>2. pc' \in [Tasks -> PcStates]
    BY <1>4 DEF Submit, TypeOK
  <2> QED BY <1>4, <2>1, <2>2 DEF TypeOK, otherVars, Submit
<1>5. ASSUME NEW t \in Tasks, Approve(t)
      PROVE  TypeOK'
  <2>1. csr' \in CsrType
    BY <1>5 DEF Approve, TypeOK
  <2>2. pc' \in [Tasks -> PcStates]
    BY <1>5 DEF Approve, TypeOK
  <2> QED BY <1>5, <2>1, <2>2 DEF TypeOK, otherVars, Approve
<1>6. ASSUME NEW t \in Tasks, Obtain(t)
      PROVE  TypeOK'
  <2>1. job[t] \in Jobs /\ csr.key \in Contents /\ FirstFile(t) \in 1 .. 4
    BY ContentFacts DEF TypeOK, FirstFile, Contents
  <2>2. job' = [job EXCEPT ![t] = [job[t] EXCEPT !.cert = csr.key, !.at = FirstFile(t)]]
    BY <1>6 DEF Obtain, TypeOK
  <2>3. job' \in [Tasks -> Jobs]
    BY <2>1, <2>2 DEF TypeOK
  <2>4. pc' \in [Tasks -> PcStates]
    BY <1>6 DEF Obtain, TypeOK
  <2> QED BY <1>6, <2>3, <2>4 DEF TypeOK, otherVars, Obtain
<1>7. ASSUME NEW t \in Tasks, Truncate(t)
      PROVE  TypeOK'
  <2>1. file' \in [Files -> Contents]
    <3>1. file' = [file EXCEPT ![Order[job[t].at]] = Torn]
      BY <1>7 DEF Truncate
    <3> QED BY <3>1, ContentFacts DEF TypeOK
  <2>2. job' = [job EXCEPT ![t] = [job[t] EXCEPT !.open = TRUE]]
    BY <1>7 DEF Truncate, TypeOK
  <2>3. job' \in [Tasks -> Jobs]
    BY <2>2 DEF TypeOK
  <2> QED BY <1>7, <2>1, <2>3 DEF TypeOK, otherVars, Truncate
<1>8. ASSUME NEW t \in Tasks, Advance(t), pc[t] # "done"
      PROVE  pc' \in [Tasks -> PcStates] /\ job' \in [Tasks -> Jobs]
  <2>1. CASE job[t].at = 4
    BY <1>8, <2>1, LeaveFacts DEF Advance
  <2>2. CASE job[t].at # 4
    BY <1>8, <2>2, AdvanceFacts DEF TypeOK
  <2> QED BY <2>1, <2>2
<1>9. ASSUME NEW t \in Tasks, Fill(t)
      PROVE  TypeOK'
  <2>1. file' \in [Files -> Contents]
    BY <1>9, ContentType DEF Fill, TypeOK
  <2>2. complete' \in BOOLEAN /\ stale' \in BOOLEAN
    BY <1>9 DEF Fill, TypeOK, Matching
  <2>3. pc' \in [Tasks -> PcStates] /\ job' \in [Tasks -> Jobs]
    BY <1>8, <1>9 DEF Fill
  <2> QED BY <1>9, <2>1, <2>2, <2>3 DEF TypeOK, Fill
<1>10. ASSUME NEW t \in Tasks, WriteFails(t)
       PROVE  TypeOK'
  <2>1. pc' \in [Tasks -> PcStates] /\ job' \in [Tasks -> Jobs]
    <3>1. pc[t] # "done"
      BY <1>10 DEF WriteFails
    <3>2. CASE job[t].at <= 2
      BY <1>8, <1>10, <3>1, <3>2 DEF WriteFails
    <3>3. CASE ~(job[t].at <= 2)
      BY <1>10, <3>1, <3>3, LeaveFacts DEF WriteFails
    <3> QED BY <3>2, <3>3
  <2>2. mishaps' \in 0 .. MaxMishaps
    BY <1>10 DEF WriteFails, Mishap, TypeOK
  <2> QED BY <1>10, <2>1, <2>2 DEF TypeOK, WriteFails
<1>11. ASSUME Begin PROVE TypeOK'
  BY <1>1, <1>2, <1>3, <1>11 DEF Begin, otherVars, TypeOK
<1>12. ASSUME CheckAndRenew PROVE TypeOK'
  BY <1>1, <1>2, <1>12 DEF CheckAndRenew, otherVars, TypeOK
<1>13. ASSUME NEW t \in Rotators, RotateCertificate(t) PROVE TypeOK'
  <2>1. rotations' \in 0 .. MaxRotations
    BY <1>13 DEF RotateCertificate, TypeOK
  <2> QED BY <1>1, <1>2, <1>13, <2>1 DEF RotateCertificate
<1>14. ASSUME NEW t \in Rotators, Dropped(t) PROVE TypeOK'
  BY <1>1, <1>3, <1>14 DEF Dropped, otherVars
<1>15. ASSUME NEW t \in Tasks, SubmitFails(t) PROVE TypeOK'
  <2>1. pc[t] = "submit" /\ UNCHANGED <<file, stale, otherVars>> /\ Leave(t)
    BY <1>15 DEF SubmitFails, Fail
  <2>2. csr' = csr \/ (csr' = Submitted(job[t].key) /\ pc[t] = "submit")
    BY <1>15 DEF SubmitFails, Fail
  <2>3. pc[t] # "done"
    BY <2>1
  <2> QED BY <1>3, <2>1, <2>2, <2>3, Zenon
<1>16. ASSUME NEW t \in Tasks, WaitFails(t) PROVE TypeOK'
  <2>1. pc[t] = "wait" /\ UNCHANGED <<file, stale, otherVars>> /\ Leave(t) /\ csr' = csr
    BY <1>16 DEF WaitFails, Fail
  <2> QED BY <1>3, <2>1
<1>17. ASSUME Outage \/ Recover \/ Grant PROVE TypeOK'
  <2>1. down' \in BOOLEAN /\ willing' \in BOOLEAN /\ mishaps' \in 0 .. MaxMishaps
    <3>1. CASE Outage
      BY <3>1 DEF Outage, Mishap, TypeOK
    <3>2. CASE Recover \/ Grant
      BY <3>2 DEF Recover, Grant, TypeOK
    <3> QED BY <1>17, <3>1, <3>2
  <2>2. UNCHANGED <<file, stale, csr, pc, job, rotations, complete, harmed>>
    BY <1>17 DEF Outage, Recover, Grant
  <2> QED BY <2>1, <2>2 DEF TypeOK
<1>18. ASSUME AdminApproves \/ Sign \/ Expire PROVE TypeOK'
  <2>1. csr' \in CsrType
    <3>1. CASE AdminApproves
      BY <3>1 DEF AdminApproves, TypeOK
    <3>2. CASE Sign
      BY <3>2 DEF Sign, TypeOK
    <3>3. CASE Expire
      BY <3>3 DEF Expire, NoCsr
    <3> QED BY <1>18, <3>1, <3>2, <3>3
  <2> QED BY <1>18, <2>1 DEF AdminApproves, Sign, Expire, TypeOK, otherVars
<1>19. ASSUME Age PROVE TypeOK'
  BY <1>19 DEF Age, TypeOK, otherVars
<1>20. ASSUME Restart PROVE TypeOK'
  <2>1. pc' \in [Tasks -> PcStates] /\ job' \in [Tasks -> Jobs]
    BY <1>20, ContentFacts DEF Restart, Started
  <2>2. mishaps' \in 0 .. MaxMishaps
    BY <1>20 DEF Restart, Mishap, TypeOK
  <2>3. harmed' \in BOOLEAN
    BY <1>20 DEF Restart, TypeOK
  <2> QED BY <1>20, <2>1, <2>2, <2>3 DEF Restart, TypeOK
<1>21. ASSUME UNCHANGED vars PROVE TypeOK'
  BY <1>21 DEF vars, TypeOK
<1> QED BY <1>4, <1>5, <1>6, <1>7, <1>9, <1>10, <1>11, <1>12, <1>13, <1>14, <1>15, <1>16,
           <1>17, <1>18, <1>19, <1>20, <1>21 DEF Next, TaskStep
-----------------------------------------------------------------------------
(* The steps, by what they do to the invariant                             *)

Inv == JobInv /\ OwnerInv /\ StartInv /\ WriterInv /\ PairInv

\* request_certificate begins, in a task that has nothing in hand.
LEMMA RequestStep ==
  ASSUME TypeOK, Inv, NEW t \in Tasks, Request(t), UNCHANGED <<file, csr, complete, harmed>>,
         pc[t] \in {"begin", "idle"},
         t = Start => file["cert"] = None \/ file["key"] = None
  PROVE  Inv'
<1> USE DEF Inv
<1>1. /\ job'[t].key \in Keys /\ job'[t].at = 1 /\ ~job'[t].open
      /\ \A u \in Tasks \ {t} : job'[u] = job[u] /\ pc'[u] = pc[u]
      /\ pc'[t] = "submit" /\ Start \in Tasks
  BY RequestFacts DEF Tasks
<1>2. JobInv'
  BY <1>1 DEF JobInv
<1>3. OwnerInv'
  BY <1>1 DEF OwnerInv, Owns
<1>4. StartInv'
  BY <1>1 DEF StartInv
<1>5. WriterInv'
  BY <1>1 DEF WriterInv
<1>6. PairInv'
  <2>1. t = Start /\ ~harmed => ~complete
    <3> SUFFICES ASSUME t = Start, ~harmed PROVE ~complete
      OBVIOUS
    <3>1. \A u \in Tasks : pc[u] # "write"
      BY DEF StartInv
    <3> QED BY <3>1, ContentFacts DEF PairInv, Matching
  <2> QED BY <1>1, <2>1 DEF PairInv
<1> QED BY <1>2, <1>3, <1>4, <1>5, <1>6

\* A task ends before it has touched a file; a create call that lost its
\* answer may have left an object behind.
LEMMA LeaveStep ==
  ASSUME TypeOK, Inv, NEW t \in Tasks, Leave(t), UNCHANGED <<file, complete, harmed>>,
         pc[t] \in {"begin", "submit", "approve", "wait"},
         csr' = csr \/ csr.key = None
  PROVE  Inv'
<1> USE DEF Inv
<1>1. /\ job'[t] = NoJob /\ \A u \in Tasks \ {t} : job'[u] = job[u]
      /\ pc'[t] \in {"idle", "done"} /\ (pc'[Start] = "done" <=> pc[Start] = "done" \/ t = Start)
      /\ \A u \in Tasks \ {t} : \/ pc'[u] = pc[u]
                                \/ t = Start /\ pc[u] = "off" /\ pc'[u] = "idle"
      /\ Start \in Tasks
  BY LeaveFacts DEF Tasks
<1>2. NoJob.at = 1 /\ ~NoJob.open
  BY DEF NoJob
<1>3. JobInv'
  BY <1>1, <1>2 DEF JobInv
<1>4. OwnerInv'
  <2>1. csr' # csr => \A u \in Tasks : ~Owns(u)
    BY ContentFacts DEF OwnerInv, JobInv, Owns
  <2> QED BY <1>1, <2>1 DEF OwnerInv, Owns
<1>5. StartInv'
  BY <1>1 DEF StartInv
<1>6. \A u \in Tasks : pc'[u] = "write" <=> pc[u] = "write"
  BY <1>1
<1>7. \A u \in Tasks : pc[u] = "write" => job'[u] = job[u]
  BY <1>1
<1>8. WriterInv'
  BY <1>6, <1>7 DEF WriterInv
<1>9. PairInv'
  <2>1. pc'[Start] \notin {"begin", "done"} => pc[Start] \notin {"begin", "done"}
    BY <1>1
  <2> QED BY <1>6, <1>7, <2>1 DEF PairInv
<1> QED BY <1>3, <1>4, <1>5, <1>8, <1>9

\* The task whose create call succeeds is the only one past it.
LEMMA SubmitStep ==
  ASSUME TypeOK, Inv, NEW t \in Tasks, Submit(t)
  PROVE  Inv'
<1> USE DEF Inv
<1>1. /\ pc[t] = "submit" /\ csr.key = None /\ csr'.key = job[t].key
      /\ pc' = [pc EXCEPT ![t] = "approve"]
      /\ UNCHANGED <<file, job, complete, harmed>>
  BY DEF Submit, Submitted, otherVars
<1>2. /\ pc'[t] = "approve" /\ \A u \in Tasks \ {t} : pc'[u] = pc[u]
      /\ Start \in Tasks
  BY <1>1 DEF TypeOK, Tasks
<1>3. \A u \in Tasks : ~Owns(u)
  BY <1>1, ContentFacts DEF OwnerInv, JobInv, Owns
<1>4. JobInv'
  BY <1>1, <1>2 DEF JobInv
<1>5. OwnerInv'
  BY <1>1, <1>2, <1>3 DEF OwnerInv, Owns
<1>6. StartInv'
  BY <1>1, <1>2 DEF StartInv
<1>7. WriterInv'
  BY <1>1, <1>2 DEF WriterInv
<1>8. PairInv'
  BY <1>1, <1>2 DEF PairInv
<1> QED BY <1>4, <1>5, <1>6, <1>7, <1>8

\* The certificate request is approved, and the task waits for the certificate.
LEMMA ApproveStep ==
  ASSUME TypeOK, Inv, NEW t \in Tasks, Approve(t)
  PROVE  Inv'
<1> USE DEF Inv
<1>1. /\ pc[t] = "approve" /\ pc' = [pc EXCEPT ![t] = "wait"]
      /\ UNCHANGED <<file, job, complete, harmed>>
  BY DEF Approve, otherVars
<1>2. csr'.key = csr.key
  BY DEF Approve, TypeOK
<1>3. /\ pc'[t] = "wait" /\ \A u \in Tasks \ {t} : pc'[u] = pc[u]
      /\ Start \in Tasks
  BY <1>1 DEF TypeOK, Tasks
<1>4. JobInv'
  BY <1>1, <1>3 DEF JobInv
<1>5. OwnerInv'
  BY <1>1, <1>2, <1>3 DEF OwnerInv, Owns
<1>6. StartInv'
  BY <1>1, <1>3 DEF StartInv
<1>7. WriterInv'
  BY <1>1, <1>3 DEF WriterInv
<1>8. PairInv'
  BY <1>1, <1>3 DEF PairInv
<1> QED BY <1>4, <1>5, <1>6, <1>7, <1>8

\* The owner obtains the certificate of its own key and begins to write, with
\* the backups if there is a pair to save.
LEMMA ObtainStep ==
  ASSUME TypeOK, Inv, NEW t \in Tasks, Obtain(t)
  PROVE  Inv'
<1> USE DEF Inv
<1>1. /\ pc[t] = "wait" /\ pc' = [pc EXCEPT ![t] = "write"]
      /\ UNCHANGED <<file, csr, complete, harmed>>
  BY DEF Obtain, otherVars
<1>2. /\ pc'[t] = "write" /\ \A u \in Tasks \ {t} : pc'[u] = pc[u]
      /\ Start \in Tasks
  BY <1>1 DEF TypeOK, Tasks
<1>3. /\ job'[t].key = job[t].key /\ job'[t].cert = csr.key /\ job'[t].at = FirstFile(t)
      /\ job'[t].open = job[t].open
      /\ \A u \in Tasks \ {t} : job'[u] = job[u]
  <2>1. job' = [job EXCEPT ![t] = [job[t] EXCEPT !.cert = csr.key, !.at = FirstFile(t)]]
    BY DEF Obtain, TypeOK
  <2> QED BY <2>1 DEF TypeOK
<1>4. Owns(t) /\ \A u \in Tasks \ {t} : ~Owns(u)
  BY <1>1 DEF OwnerInv, Owns
<1>5. JobInv'
  BY <1>1, <1>2, <1>3 DEF JobInv
<1>6. OwnerInv'
  BY <1>1, <1>2, <1>3 DEF OwnerInv, Owns
<1>7. StartInv'
  BY <1>1, <1>2 DEF StartInv
<1>8. job'[t].key = csr.key /\ ~job'[t].open /\ job'[t].at \in {1, 3}
  BY <1>1, <1>3, <1>4 DEF OwnerInv, JobInv, FirstFile
<1>9. WriterInv'
  BY <1>2, <1>3, <1>4, <1>8 DEF WriterInv, Owns
<1>10. PairInv'
  <2> SUFFICES ASSUME ~harmed PROVE PairInv'
    BY <1>1 DEF PairInv
  <2>1. \A u \in Tasks : pc[u] # "write"
    BY <1>1, <1>4 DEF Owns
  <2>2. IF complete THEN Matching(file["cert"], file["key"])
                    ELSE file["cert"] = None /\ file["key"] = None
    BY <2>1 DEF PairInv
  <2>3. t = Start => ~complete
    BY <1>1 DEF PairInv
  <2>4. job'[t].at = 1 => complete
    BY <1>3, <2>2 DEF FirstFile
  <2>5. job'[t].at = 3 => ~complete
    BY <1>3, <2>2, <2>3, ContentFacts DEF FirstFile, Matching
  <2>6. \A u \in Tasks : pc'[u] = "write" => u = t
    BY <1>2, <1>4 DEF Owns
  <2>7. pc'[Start] \notin {"begin", "done"} => pc[Start] \notin {"begin", "done"}
    BY <1>1, <1>2
  <2>8. \A u \in Tasks : pc'[u] = "write" =>
         /\ job'[u].at <= 2 => complete /\ Matching(file["cert"], file["key"])
         /\ job'[u].at = 2 => file["certBackup"] = file["cert"]
         /\ job'[u].at >= 3 /\ complete => Matching(file["certBackup"], file["keyBackup"])
         /\ job'[u].at = 3 /\ ~complete => file["key"] = None
    BY <1>8, <2>2, <2>4, <2>5, <2>6
  <2> QED BY <1>1, <1>2, <2>7, <2>8 DEF PairInv, Matching
<1> QED BY <1>5, <1>6, <1>7, <1>9, <1>10

\* The writer truncates its next file.
LEMMA TruncateStep ==
  ASSUME TypeOK, Inv, NEW t \in Tasks, Truncate(t)
  PROVE  Inv'
<1> USE DEF Inv
<1>1. /\ pc[t] = "write" /\ file' = [file EXCEPT ![Order[job[t].at]] = Torn]
      /\ UNCHANGED <<csr, pc, complete, harmed>> /\ ~job[t].open
  BY DEF Truncate, otherVars
<1>2. /\ job'[t].key = job[t].key /\ job'[t].cert = job[t].cert /\ job'[t].at = job[t].at
      /\ job'[t].open
      /\ \A u \in Tasks \ {t} : job'[u] = job[u]
  <2>1. job' = [job EXCEPT ![t] = [job[t] EXCEPT !.open = TRUE]]
    BY DEF Truncate, TypeOK
  <2> QED BY <2>1 DEF TypeOK
<1>3. \A u \in Tasks : pc[u] = "write" => u = t
  BY <1>1 DEF OwnerInv, Owns
<1>4. /\ file'[Order[job[t].at]] = Torn
      /\ \A f \in Files : f # Order[job[t].at] => file'[f] = file[f]
  BY <1>1, OrderFacts DEF TypeOK
<1>5. {"cert", "key", "certBackup", "keyBackup"} \subseteq Files /\ job[t].at \in 1 .. 4
  BY DEF Files, TypeOK
<1>6. JobInv'
  BY <1>1, <1>2 DEF JobInv
<1>7. OwnerInv'
  BY <1>1, <1>2 DEF OwnerInv, Owns
<1>8. StartInv'
  BY <1>1 DEF StartInv
<1>9. WriterInv'
  BY <1>1, <1>2, <1>3, <1>4, <1>5, OrderFacts DEF WriterInv
<1>10. PairInv'
  <2>1. job[t].at <= 2 => file'["cert"] = file["cert"] /\ file'["key"] = file["key"]
    BY <1>4, <1>5, OrderFacts
  <2>2. job[t].at = 2 => file'["certBackup"] = file["certBackup"]
    BY <1>4, <1>5, OrderFacts
  <2>3. job[t].at >= 3 => /\ file'["certBackup"] = file["certBackup"]
                          /\ file'["keyBackup"] = file["keyBackup"]
    BY <1>4, <1>5, OrderFacts
  <2>4. job[t].at = 3 => file'["key"] = file["key"]
    BY <1>4, <1>5, OrderFacts
  <2> QED BY <1>1, <1>2, <1>3, <1>5, <2>1, <2>2, <2>3, <2>4 DEF PairInv, Matching
<1> QED BY <1>6, <1>7, <1>8, <1>9, <1>10

\* The writer fills a file that is not the last, and goes on to the next.
LEMMA FillStep ==
  ASSUME TypeOK, Inv, NEW t \in Tasks, Fill(t), job[t].at # 4
  PROVE  Inv'
<1> USE DEF Inv
<1>1. /\ pc[t] = "write" /\ file' = [file EXCEPT ![Order[job[t].at]] = Content(t)]
      /\ complete' = (complete \/ Matching(file'["cert"], file'["key"]))
      /\ UNCHANGED <<csr, harmed>> /\ Advance(t)
  BY DEF Fill
<1>2. /\ job'[t].key = job[t].key /\ job'[t].cert = job[t].cert /\ job'[t].at = job[t].at + 1
      /\ ~job'[t].open /\ pc' = pc
      /\ \A u \in Tasks \ {t} : job'[u] = job[u]
  BY <1>1, AdvanceFacts
<1>3. \A u \in Tasks : pc[u] = "write" => u = t
  BY <1>1 DEF OwnerInv, Owns
<1>4. /\ file'[Order[job[t].at]] = Content(t)
      /\ \A f \in Files : f # Order[job[t].at] => file'[f] = file[f]
  BY <1>1, OrderFacts DEF TypeOK
<1>5. {"cert", "key", "certBackup", "keyBackup"} \subseteq Files /\ job[t].at \in {1, 2, 3}
  BY DEF Files, TypeOK
<1>6. JobInv'
  BY <1>1, <1>2 DEF JobInv
<1>7. OwnerInv'
  BY <1>1, <1>2 DEF OwnerInv, Owns
<1>8. StartInv'
  BY <1>2 DEF StartInv
<1>9. WriterInv'
  <2>1. job'[t].at = 4 => file'["cert"] = job'[t].cert
    BY <1>2, <1>4, <1>5, OrderFacts, ContentType
  <2> QED BY <1>1, <1>2, <1>3, <2>1 DEF WriterInv
<1>10. PairInv'
  <2> SUFFICES ASSUME ~harmed PROVE PairInv'
    BY <1>1 DEF PairInv
  <2>1. CASE job[t].at = 1
    <3>1. /\ complete /\ Matching(file["cert"], file["key"])
          /\ file'["cert"] = file["cert"] /\ file'["key"] = file["key"]
          /\ file'["certBackup"] = file["cert"]
      BY <1>1, <1>4, <1>5, <2>1, OrderFacts, ContentType DEF PairInv
    <3>2. complete' /\ pc[Start] \in {"begin", "done"}
      BY <1>1, <3>1 DEF PairInv
    <3> QED BY <1>1, <1>2, <1>3, <2>1, <3>1, <3>2 DEF PairInv, Matching
  <2>2. CASE job[t].at = 2
    <3>1. /\ complete /\ Matching(file["cert"], file["key"])
          /\ file'["certBackup"] = file["cert"] /\ file'["keyBackup"] = file["key"]
      BY <1>1, <1>4, <1>5, <2>2, OrderFacts, ContentType DEF PairInv
    <3>2. complete' /\ pc[Start] \in {"begin", "done"}
      BY <1>1, <3>1 DEF PairInv
    <3> QED BY <1>1, <1>2, <1>3, <2>2, <3>1, <3>2 DEF PairInv, Matching
  <2>3. CASE job[t].at = 3
    <3>1. /\ file'["key"] = file["key"]
          /\ file'["certBackup"] = file["certBackup"] /\ file'["keyBackup"] = file["keyBackup"]
      BY <1>4, <1>5, <2>3, OrderFacts
    <3>2. complete' = complete
      BY <1>1, <2>3, <3>1, ContentFacts DEF PairInv, Matching, TypeOK
    <3> QED BY <1>1, <1>2, <1>3, <2>3, <3>1, <3>2 DEF PairInv, Matching
  <2> QED BY <1>5, <2>1, <2>2, <2>3
<1> QED BY <1>6, <1>7, <1>8, <1>9, <1>10

\* The writer fills its last file: the pair is the new one, and it is whole.
LEMMA LastFillStep ==
  ASSUME TypeOK, Inv, NEW t \in Tasks, Fill(t), job[t].at = 4
  PROVE  Inv'
<1> USE DEF Inv
<1>1. /\ pc[t] = "write" /\ file' = [file EXCEPT !["key"] = job[t].key]
      /\ complete' = (complete \/ Matching(file'["cert"], file'["key"]))
      /\ UNCHANGED <<csr, harmed>> /\ Leave(t)
  BY OrderFacts, ContentType DEF Fill, Advance
<1>2. /\ job'[t] = NoJob /\ \A u \in Tasks \ {t} : job'[u] = job[u]
      /\ pc'[t] \in {"idle", "done"} /\ (pc'[Start] = "done" <=> pc[Start] = "done" \/ t = Start)
      /\ \A u \in Tasks \ {t} : \/ pc'[u] = pc[u]
                                \/ t = Start /\ pc[u] = "off" /\ pc'[u] = "idle"
      /\ Start \in Tasks
  BY <1>1, LeaveFacts DEF Tasks
<1>3. \A u \in Tasks \ {t} : ~Owns(u)
  BY <1>1 DEF OwnerInv, Owns
<1>4. \A u \in Tasks : pc'[u] # "write"
  BY <1>2, <1>3 DEF Owns
<1>5. NoJob.at = 1 /\ ~NoJob.open
  BY DEF NoJob
<1>6. JobInv'
  BY <1>2, <1>5 DEF JobInv
<1>7. OwnerInv'
  BY <1>1, <1>2, <1>3 DEF OwnerInv, Owns
<1>8. pc'[Start] = "done"
  BY <1>1, <1>2 DEF StartInv
<1>9. StartInv'
  BY <1>8 DEF StartInv
<1>10. WriterInv'
  BY <1>4 DEF WriterInv
<1>11. Matching(file'["cert"], file'["key"])
  <2>1. file'["key"] = job[t].key /\ file'["cert"] = file["cert"]
    BY <1>1 DEF TypeOK, Files
  <2> QED BY <1>1, <2>1 DEF WriterInv, JobInv, Matching
<1>12. PairInv'
  BY <1>1, <1>4, <1>8, <1>11 DEF PairInv
<1> QED BY <1>6, <1>7, <1>9, <1>10, <1>12

\* A write fails: from here on PairInv claims nothing, and the other parts hold.
LEMMA WriteFailsStep ==
  ASSUME TypeOK, Inv, NEW t \in Tasks, WriteFails(t)
  PROVE  Inv'
<1> USE DEF Inv
<1>1. pc[t] = "write" /\ UNCHANGED <<file, csr>> /\ harmed'
  BY DEF WriteFails
<1>2. \A u \in Tasks \ {t} : ~Owns(u)
  BY <1>1 DEF OwnerInv, Owns
<1>3. PairInv'
  BY <1>1 DEF PairInv
<1>4. CASE job[t].at <= 2
  <2>1. Advance(t) /\ job[t].at \in {1, 2}
    BY <1>4 DEF WriteFails, TypeOK
  <2>2. /\ job'[t].key = job[t].key /\ job'[t].cert = job[t].cert /\ job'[t].at = job[t].at + 1
        /\ ~job'[t].open /\ pc' = pc
        /\ \A u \in Tasks \ {t} : job'[u] = job[u]
    BY <2>1, AdvanceFacts
  <2>3. JobInv' /\ OwnerInv' /\ StartInv'
    BY <1>1, <2>2 DEF JobInv, OwnerInv, Owns, StartInv
  <2>4. WriterInv'
    BY <1>1, <1>2, <2>1, <2>2 DEF WriterInv, Owns
  <2> QED BY <1>3, <2>3, <2>4
<1>5. CASE ~(job[t].at <= 2)
  <2>1. Leave(t)
    BY <1>5 DEF WriteFails
  <2>2. /\ job'[t] = NoJob /\ \A u \in Tasks \ {t} : job'[u] = job[u]
        /\ pc'[t] \in {"idle", "done"} /\ (pc'[Start] = "done" <=> pc[Start] = "done" \/ t = Start)
        /\ \A u \in Tasks \ {t} : \/ pc'[u] = pc[u]
                                  \/ t = Start /\ pc[u] = "off" /\ pc'[u] = "idle"
        /\ Start \in Tasks
    BY <1>1, <2>1, LeaveFacts DEF Tasks
  <2>3. NoJob.at = 1 /\ ~NoJob.open
    BY DEF NoJob
  <2>4. JobInv'
    BY <2>2, <2>3 DEF JobInv
  <2>5. OwnerInv'
    BY <1>1, <2>2 DEF OwnerInv, Owns
  <2>6. StartInv'
    BY <1>1, <2>2 DEF StartInv
  <2>7. WriterInv'
    BY <1>2, <2>2 DEF WriterInv, Owns
  <2> QED BY <1>3, <2>4, <2>5, <2>6, <2>7
<1> QED BY <1>4, <1>5

\* The cluster, an administrator and the clock leave tasks and files alone, and
\* an object with an owner does not expire.
LEMMA EnvironmentStep ==
  ASSUME TypeOK, Inv,
         \/ Outage \/ Recover \/ Grant \/ AdminApproves \/ Sign \/ Expire \/ Age
         \/ UNCHANGED vars
  PROVE  Inv'
<1> USE DEF Inv
<1>1. UNCHANGED <<file, pc, job, complete, harmed>>
  BY DEF Outage, Recover, Grant, AdminApproves, Sign, Expire, Age, vars, otherVars
<1>2. csr'.key = csr.key \/ \A t \in Tasks : ~Owns(t)
  <2>1. CASE Expire
    BY <2>1 DEF Expire, OwnerInv, Owns
  <2>2. CASE AdminApproves \/ Sign
    BY <2>2 DEF AdminApproves, Sign, TypeOK
  <2> QED BY <2>1, <2>2 DEF Outage, Recover, Grant, Age, vars
<1>3. OwnerInv'
  BY <1>1, <1>2 DEF OwnerInv, Owns
<1> QED BY <1>1, <1>3 DEF JobInv, StartInv, WriterInv, PairInv, Matching

\* A restart ends every task; one that was writing leaves harm behind.
LEMMA RestartStep ==
  ASSUME TypeOK, Inv, Restart
  PROVE  Inv'
<1> USE DEF Inv
<1>1. /\ UNCHANGED <<file, csr, complete>>
      /\ harmed' = (harmed \/ \E t \in Tasks : pc[t] = "write")
  BY DEF Restart
<1>2. /\ \A t \in Tasks : job'[t] = NoJob /\ pc'[t] = IF t = Start THEN "begin" ELSE "off"
      /\ Start \in Tasks
  BY DEF Restart, Started, Tasks
<1>3. NoJob.at = 1 /\ ~NoJob.open
  BY DEF NoJob
<1>4. JobInv' /\ OwnerInv' /\ StartInv' /\ WriterInv'
  BY <1>2, <1>3 DEF JobInv, OwnerInv, Owns, StartInv, WriterInv
<1>5. PairInv'
  BY <1>1, <1>2 DEF PairInv, Matching
<1> QED BY <1>4, <1>5

\* The invariant holds when the agent starts.
LEMMA InitInv == Init => Inv
<1> SUFFICES ASSUME Init PROVE Inv
  OBVIOUS
<1>1. /\ \A t \in Tasks : job[t] = NoJob /\ pc[t] = IF t = Start THEN "begin" ELSE "off"
      /\ Start \in Tasks
  BY DEF Init, Started, Tasks
<1>2. NoJob.at = 1 /\ ~NoJob.open
  BY DEF NoJob
<1>3. file["cert"] = None /\ file["key"] = None /\ ~complete
  BY DEF Init, Files
<1> QED BY <1>1, <1>2, <1>3 DEF Inv, JobInv, OwnerInv, Owns, StartInv, WriterInv, PairInv

\* Every step keeps the invariant.
LEMMA NextInv ==
  ASSUME TypeOK, Inv, [Next]_vars
  PROVE  Inv'
<1>1. Start \in Tasks /\ Renewer \in Tasks /\ Rotators \subseteq Tasks /\ Start # Renewer
      /\ Start \notin Rotators
  BY DEF Tasks, Start, Renewer
<1>2. ASSUME Begin PROVE Inv'
  BY <1>1, <1>2, RequestStep, LeaveStep DEF Begin, otherVars
<1>3. ASSUME CheckAndRenew PROVE Inv'
  BY <1>1, <1>3, RequestStep DEF CheckAndRenew, otherVars
<1>4. ASSUME NEW t \in Rotators, RotateCertificate(t) PROVE Inv'
  BY <1>1, <1>4, RequestStep DEF RotateCertificate
<1>5. ASSUME NEW t \in Rotators, Dropped(t) PROVE Inv'
  BY <1>1, <1>5, LeaveStep DEF Dropped, otherVars
<1>6. ASSUME NEW t \in Tasks, SubmitFails(t) \/ WaitFails(t) PROVE Inv'
  BY <1>6, LeaveStep DEF SubmitFails, WaitFails, Fail, otherVars
<1>7. ASSUME NEW t \in Tasks, Fill(t) PROVE Inv'
  BY <1>7, FillStep, LastFillStep
<1> QED BY <1>2, <1>3, <1>4, <1>5, <1>6, <1>7, SubmitStep, ApproveStep, ObtainStep, TruncateStep,
           WriteFailsStep, EnvironmentStep, RestartStep DEF Next, TaskStep

-----------------------------------------------------------------------------
(* The theorems                                                            *)

\* The inductive invariant, with the types.
LEMMA Invariance == Spec => [](TypeOK /\ Inv)
<1>1. Init => TypeOK /\ Inv
  BY InitType, InitInv
<1>2. TypeOK /\ Inv /\ [Next]_vars => (TypeOK /\ Inv)'
  BY NextType, NextInv DEF Inv
<1> QED BY <1>1, <1>2, PTL DEF Spec

\* The state of the certificate code keeps its types in every behaviour.
THEOREM TypeCorrect == Spec => []TypeOK
BY Invariance, PTL

(***************************************************************************)
(* At most one task writes the certificate and key files at a time, with   *)
(* any number of rotation calls: the request object of the cluster, which  *)
(* submit_csr creates and nothing of the agent deletes, is their lock.     *)
(***************************************************************************)
THEOREM OneWriterSafe == Spec => []OneWriter
<1>1. Inv => OneWriter
  BY DEF Inv, OwnerInv, Owns, OneWriter
<1> QED BY <1>1, Invariance, PTL

(***************************************************************************)
(* Until a write has failed or been cut short, a matching pair is in place *)
(* or in the backups once there has been one, at every point of every      *)
(* renewal, rotation and restart.                                          *)
(***************************************************************************)
THEOREM RecoverableSafe == Spec => []Recoverable
<1>1. TypeOK /\ Inv => Recoverable
  <2> SUFFICES ASSUME TypeOK, Inv, complete, ~harmed
               PROVE  \/ Matching(file["cert"], file["key"])
                      \/ Matching(file["certBackup"], file["keyBackup"])
    BY DEF Recoverable
  <2>1. CASE \A t \in Tasks : pc[t] # "write"
    BY <2>1 DEF Inv, PairInv
  <2>2. ASSUME NEW t \in Tasks, pc[t] = "write"
        PROVE  \/ Matching(file["cert"], file["key"])
               \/ Matching(file["certBackup"], file["keyBackup"])
    <3>1. job[t].at <= 2 \/ job[t].at >= 3
      BY DEF TypeOK
    <3> QED BY <2>2, <3>1 DEF Inv, PairInv
  <2> QED BY <2>1, <2>2
<1> QED BY <1>1, Invariance, PTL

(***************************************************************************)
(* A task that writes both files to the end, which is what check_and_renew *)
(* and rotate_certificate report as success, leaves a certificate with its *)
(* own key, whatever failed before.                                        *)
(***************************************************************************)
THEOREM SuccessMatchesSafe == Spec => SuccessMatches
<1> DEFINE A == \A t \in Tasks : job[t].at = 4 /\ job[t].open /\ file'["key"] = job[t].key
                                   => Matching(file'["cert"], file'["key"])
<1>1. TypeOK /\ Inv /\ [Next]_vars => [A]_vars
  <2> SUFFICES ASSUME TypeOK, Inv, Next,
                      NEW t \in Tasks, job[t].at = 4, job[t].open, file'["key"] = job[t].key
               PROVE  Matching(file'["cert"], file'["key"])
    BY DEF A
  <2>1. pc[t] = "write" /\ job[t].key \in Keys /\ file["cert"] = job[t].key /\ file["key"] = Torn
    BY OrderFacts DEF Inv, JobInv, WriterInv
  <2>2. \A u \in Tasks : pc[u] = "write" => u = t
    BY <2>1 DEF Inv, OwnerInv, Owns
  <2>3. file' # file
    BY <2>1, ContentFacts
  <2>4. PICK u \in Tasks : Truncate(u) \/ Fill(u)
    BY <2>3 DEF Next, TaskStep, Begin, CheckAndRenew, RotateCertificate, Dropped, Submit, SubmitFails,
                Approve, Obtain, WaitFails, WriteFails, Outage, Recover, Grant, AdminApproves, Sign,
                Expire, Age, Restart
  <2>5. u = t
    BY <2>2, <2>4 DEF Truncate, Fill
  <2>6. file'["cert"] = file["cert"]
    BY <2>4, <2>5, OrderFacts DEF Truncate, Fill, TypeOK, Files
  <2> QED BY <2>1, <2>6 DEF Matching
<1> QED BY <1>1, Invariance, PTL DEF Spec, SuccessMatches
=============================================================================
