--------------------------- MODULE AgentApiProofs ---------------------------
(***************************************************************************)
(* The safety properties of AgentApi, proved for every set of methods, any *)
(* number of calls and every bound.  The invariant says where a call is    *)
(* and what it has then (PlaceInv), that a call which grants a session     *)
(* holds the lock under which it found none active (SessionInv), what an   *)
(* accepted certificate and a finished dump left (CertInv, DumpInv), and   *)
(* counts calls and lines of the audit log (CountInv, LossInv).            *)
(***************************************************************************)
EXTENDS AgentApi, FiniteSetTheorems, TLAPS

\* The steps of a call that makes a dump.
Dumping == {"gather", "truncate", "fill"}

\* The steps before a handler has its answer.
Running == {"new", "lock", "grant", "analyze", "store0", "store"} \cup Dumping

\* The file of a call's dump.
Path(n) == DumpPath(call[n].op, call[n].for)

\* The types of the variables; what counts calls is only a number here.
Types ==
  /\ lines \in Seq(Seq(0 .. MaxCalls)) /\ lines # <<>> /\ writer \in BOOLEAN
  /\ now \in 0 .. MaxTime /\ kmsg \subseteq Messages
  /\ session \in [Modes -> 0 .. MaxTime + MaxDuration]
  /\ holder \in [Modes -> 0 .. MaxCalls]
  /\ grants \in [Modes -> Seq([from : Nat, until : Nat])]
  /\ dumps \in [Paths -> {NoDump} \cup SUBSET Messages]
  /\ group \in Groups /\ up \in BOOLEAN /\ tls \in BOOLEAN /\ loaded \subseteq Calls
  /\ certs \in [Calls -> {"none", "torn", "whole"}]
  /\ store \in [cert : 0 .. MaxCalls, key : 0 .. MaxCalls]
  /\ pc \in [Calls -> PCs]
  /\ call \in [Calls -> [op : group \cup {"none"}, for : Nat, found : SUBSET Messages]]
  /\ result \in [Calls -> {"none", "ok", "failed"}]
  /\ report.path \in Paths \cup {NoReport.path} /\ report.after \subseteq Calls
  /\ skipped \in Nat /\ cut \in Nat
  /\ faults \in 0 .. MaxFaults /\ crashes \in 0 .. MaxCrashes

\* What a call is, and has, where it is.
Place(n) ==
  /\ pc[n] = "new" => call[n] = NoCall
  /\ pc[n] \in Running => result[n] = "none"
  /\ pc[n] \in Dumping => call[n].op \in DumpOps
  /\ pc[n] = "fill" => dumps[Path(n)] # NoDump
  /\ pc[n] = "analyze" => call[n].op = "analyze_crash_dump"
  /\ pc[n] \in {"store0", "store"} => call[n].op = "init_bootstrap"
  /\ call[n].op \in DumpOps => call[n].for \in 0 .. MaxTime

PlaceInv == \A n \in Calls : Place(n)

\* A call about to grant a session has its lock, and the last one is over; no
\* session granted before outlives the one that is remembered.
SessionInv ==
  /\ \A n \in Calls : pc[n] = "grant" =>
       /\ call[n].op \in Modes /\ holder[call[n].op] = n
       /\ session[call[n].op] <= now
  /\ \A m \in Modes : \A i \in DOMAIN grants[m] : grants[m][i].until <= session[m]

\* A call of init_bootstrap with the answer ok has stored its certificate in
\* full, and osctl keeps that of a call whose answer it has.
CertInv ==
  /\ \A n \in Calls : call[n].op = "init_bootstrap" /\ result[n] = "ok" => certs[n] = "whole"
  /\ store.cert # 0 => pc[store.cert] \in {"key", "saved"} /\ certs[store.cert] = "whole"

TlsInv == tls => up

\* Where no other call has the name of its dump, the file holds what the call
\* has written so far; the calls a report is about have their answers.
DumpInv ==
  /\ \A k \in Calls : call[k].op \in DumpOps /\ OnlyInItsSecond(k) =>
       /\ pc[k] = "fill" => dumps[Path(k)] = {}
       /\ result[k] = "ok" => dumps[Path(k)] = call[k].found
  /\ \A k \in report.after : pc[k] \in Done /\ call[k].op \in DumpOps

\* Calls that have their answer, and calls past the check of a session.
Ended == {n \in Calls : pc[n] \in Done}
Checked == {n \in Calls : pc[n] \notin {"new", "lock", "grant"}}

CountInv ==
  /\ skipped <= Cardinality(Ended) /\ cut <= Cardinality(Ended)
  /\ \A m \in Modes : Len(grants[m]) <= Cardinality(Checked)

\* The entry of n is alone on a line that has its end: nothing can spoil it.
\* An Open last line will spoil the next entry, and one on it may be spoilt.
Settled(n) == \E i \in 1 .. Len(lines) - 1 : lines[i] = <<n>>
Unsettled == {n \in Calls : pc[n] \in Done /\ ~Settled(n)}
Open == IF lines[Len(lines)] = <<>> THEN 0 ELSE 1

\* LossBounded is not inductive: the damage of a write that failed may come
\* with the next entry.  The open line pays for it in advance.
LossInv == Cardinality(Unsettled) + Open <= 2 * cut + crashes + skipped

\* Every step, by whom it is taken.
AnyStep == (\E n \in Calls : CallStep(n)) \/ Crash \/ Boot \/ Environment \/ UNCHANGED vars

-----------------------------------------------------------------------------
(* Types                                                                   *)

\* The record of a call that is over is one of the same type.
LEMMA RemainsType ==
  ASSUME Types, NEW n \in Calls, NEW kept
  PROVE  /\ Remains(n, kept) \in [op : group \cup {"none"}, for : Nat, found : SUBSET Messages]
         /\ Remains(n, kept) = call[n] \/ Remains(n, kept) = NoCall
BY DEF Types, Remains, NoCall

\* The number of a call is never that of a fragment.
LEMMA CallsAreNumbers ==
  /\ MaxCalls \in Nat /\ Calls \subseteq 0 .. MaxCalls /\ 0 \notin Calls
  /\ \A n \in Calls : n \in Nat /\ n > 0
BY ApiAssumption DEF Calls

\* What is appended to the log goes to its last line, the only one that changes.
LEMMA LineTypes ==
  ASSUME Types, NEW e \in 0 .. MaxCalls
  PROVE  /\ Len(lines) \in Nat \ {0} /\ lines[Len(lines)] \in Seq(0 .. MaxCalls)
         /\ Appended(e) \in Seq(Seq(0 .. MaxCalls)) /\ Len(Appended(e)) = Len(lines)
         /\ Appended(e) # <<>>
         /\ \A i \in 1 .. Len(lines) - 1 : Appended(e)[i] = lines[i]
         /\ Appended(e)[Len(lines)] = Append(lines[Len(lines)], e)
         /\ Append(Appended(e), <<>>) \in Seq(Seq(0 .. MaxCalls))
         /\ Append(Appended(e), <<>>) # <<>>
         /\ Len(Append(Appended(e), <<>>)) = Len(lines) + 1
         /\ \A i \in 1 .. Len(lines) : Append(Appended(e), <<>>)[i] = Appended(e)[i]
         /\ Append(Appended(e), <<>>)[Len(lines) + 1] = <<>>
<1>1. /\ lines \in Seq(Seq(0 .. MaxCalls)) /\ Len(lines) \in Nat \ {0}
      /\ lines[Len(lines)] \in Seq(0 .. MaxCalls)
  BY DEF Types
<1>2. Append(lines[Len(lines)], e) \in Seq(0 .. MaxCalls)
  BY <1>1
<1>3. Appended(e) = [lines EXCEPT ![Len(lines)] = Append(lines[Len(lines)], e)]
  BY DEF Appended
<1>4. Appended(e) \in Seq(Seq(0 .. MaxCalls)) /\ Len(Appended(e)) = Len(lines)
  BY <1>1, <1>2, <1>3
<1>5. /\ \A i \in 1 .. Len(lines) - 1 : Appended(e)[i] = lines[i]
      /\ Appended(e)[Len(lines)] = Append(lines[Len(lines)], e)
  BY <1>1, <1>2, <1>3
<1>6. <<>> \in Seq(0 .. MaxCalls)
  OBVIOUS
<1>. DEFINE L == Appended(e)
            A == Append(L, <<>>)
<1>. HIDE DEF L
<1>7. /\ A \in Seq(Seq(0 .. MaxCalls)) /\ Len(A) = Len(lines) + 1
      /\ \A i \in 1 .. Len(lines) : A[i] = L[i]
      /\ A[Len(lines) + 1] = <<>>
  BY <1>1, <1>4, <1>6 DEF L
<1>. HIDE DEF A
<1>8. A # <<>>
  BY <1>1, <1>7
<1>9. L # <<>>
  BY <1>1, <1>4 DEF L
<1>. QED  BY <1>1, <1>4, <1>5, <1>7, <1>8, <1>9 DEF L, A

\* Where each handler starts is a place of the program.
LEMMA StartPlaces ==
  ASSUME NEW op
  PROVE  /\ Start(op) \in {"lock", "gather", "analyze", "store0", "record"}
         /\ Start(op) = "gather" <=> op \in DumpOps
         /\ Start(op) = "store0" <=> op = "init_bootstrap"
         /\ Start(op) = "analyze" => op = "analyze_crash_dump"
<1>1. CASE op \in Modes \cup {"get_debug_status"}  BY <1>1 DEF Start, Modes, DumpOps
<1>2. CASE op \in DumpOps  BY <1>2 DEF Start, Modes, DumpOps
<1>3. CASE op = "analyze_crash_dump"  BY <1>3 DEF Start, Modes, DumpOps
<1>4. CASE op = "init_bootstrap"  BY <1>4 DEF Start, Modes, DumpOps
<1>5. CASE op \notin Modes \cup DumpOps \cup
             {"get_debug_status", "analyze_crash_dump", "init_bootstrap"}
  BY <1>5 DEF Start, Modes, DumpOps
<1>. QED  BY <1>1, <1>2, <1>3, <1>4, <1>5

\* A session ends within the longest duration from now.
LEMMA Clamped ==
  ASSUME NEW d \in Nat
  PROVE  ClampDuration(d) \in 1 .. MaxDuration
BY DiagnosticsAssumption DEF ClampDuration

\* A dump's file is one of the paths, and its contents are messages.
LEMMA DumpTypes ==
  ASSUME Types, PlaceInv, NEW n \in Calls, call[n].op \in DumpOps
  PROVE  /\ Path(n) \in Paths /\ Path(n) = <<call[n].op, call[n].for>>
         /\ NoDump \notin SUBSET Messages
         /\ call[n].found \subseteq Messages
         /\ pc[n] = "fill" => dumps[Path(n)] \subseteq Messages
<1>1. Path(n) \in Paths /\ Path(n) = <<call[n].op, call[n].for>>
  BY DEF PlaceInv, Place, Path, DumpPath, Paths
<1>2. NoDump \notin SUBSET Messages
  BY DiagnosticsAssumption DEF NoDump, Findings
<1>3. call[n].found \subseteq Messages
  BY DEF Types
<1>4. pc[n] = "fill" => dumps[Path(n)] \subseteq Messages
  BY <1>1 DEF Types, PlaceInv, Place
<1>. QED  BY <1>1, <1>2, <1>3, <1>4

\* A step of one call leaves where the others are and what they have.
LEMMA OtherCalls ==
  ASSUME Types, NEW n \in Calls, CallStep(n), NEW k \in Calls \ {n}
  PROVE  pc'[k] = pc[k] /\ call'[k] = call[k] /\ result'[k] = result[k]
<1>. USE DEF Types, Goto, Answer, callVars
<1>1. ASSUME NEW op \in group, Call(n, op)
      PROVE  pc'[k] = pc[k] /\ call'[k] = call[k] /\ result'[k] = result[k]
  BY <1>1 DEF Call
<1>2. CASE EnterSession(n)  BY <1>2 DEF EnterSession
<1>3. CASE GrantSession(n)  BY <1>3 DEF GrantSession
<1>4. CASE GetDebugStatus(n)  BY <1>4 DEF GetDebugStatus
<1>5. CASE Gather(n)  BY <1>5 DEF Gather
<1>6. CASE Truncate(n)  BY <1>6 DEF Truncate
<1>7. CASE Fill(n)  BY <1>7 DEF Fill
<1>8. CASE DumpFails(n)  BY <1>8 DEF DumpFails
<1>9. CASE Analyze(n)  BY <1>9 DEF Analyze
<1>10. CASE StoreCert(n)  BY <1>10 DEF StoreCert
<1>11. CASE RejectCert(n)  BY <1>11 DEF RejectCert
<1>12. CASE Record(n)  BY <1>12 DEF Record
<1>13. CASE Drop(n)  BY <1>13 DEF Drop
<1>14. CASE SaveCert(n)  BY <1>14 DEF SaveCert
<1>15. CASE SaveKey(n)  BY <1>15 DEF SaveKey
<1>. QED  BY <1>1, <1>2, <1>3, <1>4, <1>5, <1>6, <1>7, <1>8, <1>9, <1>10, <1>11, <1>12, <1>13,
     <1>14, <1>15 DEF CallStep

\* The types of the first state.
LEMMA TypesInit == Init => Types
<1>. SUFFICES ASSUME Init PROVE Types
  OBVIOUS
<1>. USE DiagnosticsAssumption, ApiAssumption
<1>1. /\ lines \in Seq(Seq(0 .. MaxCalls)) /\ lines # <<>> /\ writer \in BOOLEAN
  BY DEF Init, AuditInit
<1>2. /\ now \in 0 .. MaxTime /\ kmsg \subseteq Messages
      /\ session \in [Modes -> 0 .. MaxTime + MaxDuration]
      /\ holder \in [Modes -> 0 .. MaxCalls]
      /\ grants \in [Modes -> Seq([from : Nat, until : Nat])]
      /\ dumps \in [Paths -> {NoDump} \cup SUBSET Messages]
  BY DEF Init, DiagnosticsInit, NoSessions, None
<1>3. /\ group \in Groups /\ up \in BOOLEAN /\ tls \in BOOLEAN /\ loaded \subseteq Calls
      /\ certs \in [Calls -> {"none", "torn", "whole"}]
      /\ pc \in [Calls -> PCs]
      /\ result \in [Calls -> {"none", "ok", "failed"}]
      /\ report.path \in Paths \cup {NoReport.path} /\ report.after \subseteq Calls
      /\ skipped \in Nat /\ cut \in Nat
      /\ faults \in 0 .. MaxFaults /\ crashes \in 0 .. MaxCrashes
  BY DEF Init, PCs, NoReport
<1>4. /\ store \in [cert : 0 .. MaxCalls, key : 0 .. MaxCalls]
      /\ call \in [Calls -> [op : group \cup {"none"}, for : Nat, found : SUBSET Messages]]
  BY DEF Init, NoCall
<1>. QED  BY <1>1, <1>2, <1>3, <1>4 DEF Types

\* A write of the log, whole or cut short, leaves a sequence of lines.
LEMMA LogSteps ==
  ASSUME Types, NEW e \in Calls
  PROVE  /\ RecordOk(e) => lines' \in Seq(Seq(0 .. MaxCalls)) /\ lines' # <<>>
                           /\ writer' \in BOOLEAN
         /\ RecordFails(e) => lines' \in Seq(Seq(0 .. MaxCalls)) /\ lines' # <<>>
                              /\ writer' \in BOOLEAN
         /\ WriteLine(e) => lines' \in Seq(Seq(0 .. MaxCalls)) /\ lines' # <<>>
         /\ lines' \in CutShort(e) => lines' \in Seq(Seq(0 .. MaxCalls)) /\ lines' # <<>>
<1>1. e \in 0 .. MaxCalls /\ Fragment \in 0 .. MaxCalls
  BY CallsAreNumbers DEF Fragment
<1>2. lines \in Seq(Seq(0 .. MaxCalls)) /\ lines # <<>> /\ writer \in BOOLEAN
  BY DEF Types
<1>3. WriteLine(e) => lines' \in Seq(Seq(0 .. MaxCalls)) /\ lines' # <<>>
  BY <1>1, LineTypes DEF WriteLine
<1>4. lines' \in CutShort(e) => lines' \in Seq(Seq(0 .. MaxCalls)) /\ lines' # <<>>
  BY <1>1, <1>2, LineTypes DEF CutShort
<1>. QED  BY <1>2, <1>3, <1>4 DEF RecordOk, RecordFails, OpenFile

\* The file a dump is written to holds messages.
LEMMA DumpSteps ==
  ASSUME Types, PlaceInv, NEW n \in Calls, call[n].op \in DumpOps
  PROVE  /\ TruncateDump(Path(n)) =>
              /\ dumps' \in [Paths -> {NoDump} \cup SUBSET Messages]
              /\ dumps'[Path(n)] = {}
              /\ \A p \in Paths \ {Path(n)} : dumps'[p] = dumps[p]
         /\ \A part \in SUBSET call[n].found : pc[n] = "fill" /\ FillDump(Path(n), part) =>
              /\ dumps' \in [Paths -> {NoDump} \cup SUBSET Messages]
              /\ \E tail \in SUBSET dumps[Path(n)] : dumps'[Path(n)] = part \cup tail
              /\ \A p \in Paths \ {Path(n)} : dumps'[p] = dumps[p]
              /\ dumps'[Path(n)] # NoDump
<1>1. dumps \in [Paths -> {NoDump} \cup SUBSET Messages]
  BY DEF Types
<1>2. ASSUME TruncateDump(Path(n))
      PROVE  /\ dumps' \in [Paths -> {NoDump} \cup SUBSET Messages]
             /\ dumps'[Path(n)] = {}
             /\ \A p \in Paths \ {Path(n)} : dumps'[p] = dumps[p]
  BY <1>1, <1>2, DumpTypes DEF TruncateDump
<1>3. ASSUME NEW part \in SUBSET call[n].found, pc[n] = "fill", FillDump(Path(n), part)
      PROVE  /\ dumps' \in [Paths -> {NoDump} \cup SUBSET Messages]
             /\ \E tail \in SUBSET dumps[Path(n)] : dumps'[Path(n)] = part \cup tail
             /\ \A p \in Paths \ {Path(n)} : dumps'[p] = dumps[p]
             /\ dumps'[Path(n)] # NoDump
  <2>1. PICK tail \in SUBSET dumps[Path(n)] :
               dumps' = [dumps EXCEPT ![Path(n)] = part \cup tail]
    BY <1>3 DEF FillDump
  <2>2. part \cup tail \in SUBSET Messages
    BY <1>3, DumpTypes
  <2>3. dumps'[Path(n)] = part \cup tail
    BY <1>1, <2>1, DumpTypes
  <2>. QED  BY <1>1, <2>1, <2>2, <2>3, DumpTypes
<1>. QED  BY <1>2, <1>3

\* The moment a session ends, and what is written of it.
LEMMA GrantTypes ==
  ASSUME Types, NEW m \in Modes, NEW d \in Nat, Grant(m, d)
  PROVE  /\ now + ClampDuration(d) \in 1 .. MaxTime + MaxDuration
         /\ session' = [session EXCEPT ![m] = now + ClampDuration(d)]
         /\ session' \in [Modes -> 0 .. MaxTime + MaxDuration]
         /\ holder' = [holder EXCEPT ![m] = 0] /\ holder' \in [Modes -> 0 .. MaxCalls]
         /\ grants' \in [Modes -> Seq([from : Nat, until : Nat])]
         /\ Len(grants'[m]) = Len(grants[m]) + 1
         /\ \A i \in 1 .. Len(grants[m]) : grants'[m][i] = grants[m][i]
         /\ grants'[m][Len(grants[m]) + 1].from = now
         /\ grants'[m][Len(grants[m]) + 1].until = now + ClampDuration(d)
         /\ \A q \in Modes \ {m} : grants'[q] = grants[q]
<1>0. ClampDuration(d) \in 1 .. MaxDuration /\ now \in 0 .. MaxTime
  BY Clamped DEF Types
<1>1. now + ClampDuration(d) \in 1 .. MaxTime + MaxDuration
  BY <1>0, DiagnosticsAssumption
<1>. DEFINE until == now + ClampDuration(d)
            g == [from |-> now, until |-> until]
<1>2. /\ session' = [session EXCEPT ![m] = until]
      /\ grants' = [grants EXCEPT ![m] = Append(grants[m], g)]
      /\ holder' = [holder EXCEPT ![m] = 0]
  BY DEF Grant, None
<1>3. until \in Nat /\ until \in 0 .. MaxTime + MaxDuration /\ now \in Nat
  BY <1>1, DiagnosticsAssumption DEF Types
<1>. HIDE DEF until
<1>4. g \in [from : Nat, until : Nat] /\ g.from = now /\ g.until = until
  BY <1>3
<1>. HIDE DEF g
<1>5. grants \in [Modes -> Seq([from : Nat, until : Nat])]
  BY DEF Types
<1>6. /\ Append(grants[m], g) \in Seq([from : Nat, until : Nat])
      /\ Len(Append(grants[m], g)) = Len(grants[m]) + 1
      /\ \A i \in 1 .. Len(grants[m]) : Append(grants[m], g)[i] = grants[m][i]
      /\ Append(grants[m], g)[Len(grants[m]) + 1] = g
  BY <1>4, <1>5
<1>7. grants'[m] = Append(grants[m], g) /\ \A q \in Modes \ {m} : grants'[q] = grants[q]
  BY <1>2, <1>5
<1>8. grants' \in [Modes -> Seq([from : Nat, until : Nat])]
  BY <1>2, <1>5, <1>6
<1>9. /\ session' \in [Modes -> 0 .. MaxTime + MaxDuration]
      /\ holder' \in [Modes -> 0 .. MaxCalls]
  BY <1>2, <1>3, CallsAreNumbers DEF Types
<1>. QED  BY <1>1, <1>2, <1>4, <1>6, <1>7, <1>8, <1>9 DEF until

\* What a step of a call does to where it is, what it has and its answer.
LEMMA OwnCall ==
  ASSUME Types, NEW n \in Calls, CallStep(n), UNCHANGED group
  PROVE  /\ pc' \in [Calls -> PCs]
         /\ result' \in [Calls -> {"none", "ok", "failed"}]
         /\ call' \in [Calls -> [op : group' \cup {"none"}, for : Nat, found : SUBSET Messages]]
<1>. DEFINE Record0 == [op : group \cup {"none"}, for : Nat, found : SUBSET Messages]
            Goal == /\ pc' \in [Calls -> PCs]
                    /\ result' \in [Calls -> {"none", "ok", "failed"}]
                    /\ call' \in [Calls -> Record0]
<1>0. /\ pc \in [Calls -> PCs] /\ result \in [Calls -> {"none", "ok", "failed"}]
      /\ call \in [Calls -> Record0] /\ kmsg \subseteq Messages /\ now \in Nat
  BY DiagnosticsAssumption DEF Types
<1>. SUFFICES Goal
  OBVIOUS
<1>. USE DEF PCs, Goto, Answer, callVars
<1>1. ASSUME NEW op \in group, Call(n, op)  PROVE Goal
  <2>1. CASE Goto(n, Start(op)) /\ \E d \in Nat :
               call' = [call EXCEPT ![n] = [op |-> op, for |-> d, found |-> {}]]
    BY <1>0, <2>1, StartPlaces
  <2>2. CASE Answer(n, "failed") /\ UNCHANGED call
    BY <1>0, <2>2
  <2>3. Durations \subseteq Nat /\ now \in Nat /\ 0 \in Nat
    BY <1>0, ApiAssumption
  <2>. QED  BY <1>1, <2>1, <2>2, <2>3 DEF Call
<1>2. CASE EnterSession(n)  BY <1>0, <1>2 DEF EnterSession
<1>3. CASE GrantSession(n)  BY <1>0, <1>3 DEF GrantSession
<1>4. CASE GetDebugStatus(n)  BY <1>0, <1>4 DEF GetDebugStatus
<1>5. CASE Gather(n)
  <2>1. PICK found \in Gathered(call[n].op) : call' = [call EXCEPT ![n].found = found]
    BY <1>5 DEF Gather
  <2>2. found \in SUBSET Messages
    BY <1>0 DEF Gathered
  <2>3. call' = [call EXCEPT ![n] = [call[n] EXCEPT !.found = found]]
    BY <1>0, <2>1
  <2>4. [call[n] EXCEPT !.found = found] \in Record0
    BY <1>0, <2>2
  <2>5. call' \in [Calls -> Record0]
    BY <1>0, <2>3, <2>4
  <2>. QED  BY <1>0, <1>5, <2>5 DEF Gather
<1>6. CASE Truncate(n)  BY <1>0, <1>6 DEF Truncate
<1>7. CASE Fill(n)  BY <1>0, <1>7 DEF Fill
<1>8. CASE DumpFails(n)  BY <1>0, <1>8 DEF DumpFails
<1>9. CASE Analyze(n)  BY <1>0, <1>9 DEF Analyze
<1>10. CASE StoreCert(n)  BY <1>0, <1>10 DEF StoreCert
<1>11. CASE RejectCert(n)  BY <1>0, <1>11 DEF RejectCert
<1>12. CASE Record(n)
  <2>1. call' = [call EXCEPT ![n] = Remains(n, DumpOps \cup {"init_bootstrap"})]
    BY <1>12 DEF Record
  <2>2. call' \in [Calls -> Record0]
    BY <1>0, <2>1, RemainsType
  <2>. QED  BY <1>0, <1>12, <2>2 DEF Record
<1>13. CASE Drop(n)
  <2>1. call' = [call EXCEPT ![n] = Remains(n, DumpOps)]
    BY <1>13 DEF Drop
  <2>2. call' \in [Calls -> Record0]
    BY <1>0, <2>1, RemainsType
  <2>. QED  BY <1>0, <1>13, <2>2 DEF Drop
<1>14. CASE SaveCert(n)  BY <1>0, <1>14 DEF SaveCert
<1>15. CASE SaveKey(n)  BY <1>0, <1>15 DEF SaveKey
<1>. QED
  BY <1>1, <1>2, <1>3, <1>4, <1>5, <1>6, <1>7, <1>8, <1>9, <1>10, <1>11, <1>12, <1>13,
     <1>14, <1>15 DEF CallStep

\* A fault is one of those the bound allows.
LEMMA FaultTypes ==
  ASSUME Types, Fault
  PROVE  faults' \in 0 .. MaxFaults
BY ApiAssumption DEF Types, Fault

\* Every step of a call keeps the types.
LEMMA TypesCall ==
  ASSUME Types, PlaceInv, SessionInv, NEW n \in Calls, CallStep(n), UNCHANGED group
  PROVE  Types'
<1>. DEFINE
       LogT == lines \in Seq(Seq(0 .. MaxCalls)) /\ lines # <<>> /\ writer \in BOOLEAN
       SessionT == /\ session \in [Modes -> 0 .. MaxTime + MaxDuration]
                   /\ holder \in [Modes -> 0 .. MaxCalls]
                   /\ grants \in [Modes -> Seq([from : Nat, until : Nat])]
       DumpT == dumps \in [Paths -> {NoDump} \cup SUBSET Messages]
       TrustT == /\ tls \in BOOLEAN /\ loaded \subseteq Calls
                 /\ certs \in [Calls -> {"none", "torn", "whole"}]
                 /\ store \in [cert : 0 .. MaxCalls, key : 0 .. MaxCalls]
       ReportT == report.path \in Paths \cup {NoReport.path} /\ report.after \subseteq Calls
       CountT == /\ skipped \in Nat /\ cut \in Nat
                 /\ faults \in 0 .. MaxFaults /\ crashes \in 0 .. MaxCrashes
       Rest == /\ LogT /\ SessionT /\ DumpT /\ TrustT /\ ReportT /\ CountT
               /\ now \in 0 .. MaxTime /\ kmsg \subseteq Messages
               /\ group \in Groups /\ up \in BOOLEAN
<1>a. Rest
  BY DEF Types
<1>. SUFFICES Rest'
  BY OwnCall DEF Types
<1>. USE DEF auditVars, sessionVars, trustVars, countVars
<1>1. ASSUME NEW op \in group, Call(n, op)  PROVE Rest'
  BY <1>a, <1>1 DEF Call
<1>2. CASE EnterSession(n)
  <2>1. (holder' = [holder EXCEPT ![call[n].op] = 0] \/ holder' = [holder EXCEPT ![call[n].op] = n])
        /\ UNCHANGED <<session, grants>>
    BY <1>2 DEF EnterSession, Refuse, LockSession, None
  <2>a. n \in 0 .. MaxCalls /\ 0 \in 0 .. MaxCalls
    BY CallsAreNumbers
  <2>b. holder' \in [Modes -> 0 .. MaxCalls]
    <3>1. CASE holder' = [holder EXCEPT ![call[n].op] = 0]
      BY <1>a, <2>a, <3>1
    <3>2. CASE holder' = [holder EXCEPT ![call[n].op] = n]
      BY <1>a, <2>a, <3>2
    <3>. QED  BY <2>1, <3>1, <3>2
  <2>2. SessionT'
    BY <1>a, <2>1, <2>b
  <2>. QED  BY <1>a, <1>2, <2>2 DEF EnterSession
<1>3. CASE GrantSession(n)
  <2>1. call[n].op \in Modes /\ call[n].for \in Nat /\ Grant(call[n].op, call[n].for)
    BY <1>3 DEF GrantSession, SessionInv, Types
  <2>2. SessionT'
    BY <2>1, GrantTypes
  <2>. QED  BY <1>a, <1>3, <2>2 DEF GrantSession
<1>4. CASE GetDebugStatus(n)  BY <1>a, <1>4 DEF GetDebugStatus
<1>5. CASE Gather(n)  BY <1>a, <1>5 DEF Gather
<1>6. CASE Truncate(n)
  <2>1. call[n].op \in DumpOps /\ TruncateDump(Path(n))
    BY <1>6 DEF Truncate, PlaceInv, Place, Dumping, Path
  <2>2. DumpT'
    BY <2>1, DumpSteps
  <2>. QED  BY <1>a, <1>6, <2>2 DEF Truncate
<1>7. CASE Fill(n)
  <2>1. call[n].op \in DumpOps /\ pc[n] = "fill" /\ FillDump(Path(n), call[n].found)
    BY <1>7 DEF Fill, PlaceInv, Place, Dumping, Path
  <2>2. DumpT'
    BY <2>1, DumpSteps
  <2>. QED  BY <1>a, <1>7, <2>2 DEF Fill
<1>8. CASE DumpFails(n)
  <2>1. DumpT'
    <3>1. call[n].op \in DumpOps
      BY <1>8 DEF DumpFails, PlaceInv, Place, Dumping
    <3>2. CASE pc[n] = "fill"
      <4>1. PICK part \in SUBSET call[n].found : FillDump(Path(n), part)
        BY <1>8, <3>2 DEF DumpFails, Path
      <4>. QED  BY <3>1, <3>2, <4>1, DumpSteps
    <3>3. CASE pc[n] # "fill"
      BY <1>a, <1>8, <3>3 DEF DumpFails
    <3>. QED  BY <3>2, <3>3
  <2>2. faults' \in 0 .. MaxFaults
    BY <1>8, FaultTypes DEF DumpFails
  <2>. QED  BY <1>a, <1>8, <2>1, <2>2 DEF DumpFails
<1>9. CASE Analyze(n)
  <2>1. ReportT'
    BY <1>a, <1>9 DEF Analyze
  <2>. QED  BY <1>a, <1>9, <2>1 DEF Analyze
<1>10. CASE StoreCert(n)
  <2>1. TrustT'
    BY <1>a, <1>10 DEF StoreCert
  <2>. QED  BY <1>a, <1>10, <2>1 DEF StoreCert
<1>11. CASE RejectCert(n)
  <2>1. faults' \in 0 .. MaxFaults
    BY <1>a, <1>11, FaultTypes DEF RejectCert
  <2>. QED  BY <1>a, <1>11, <2>1 DEF RejectCert
<1>12. CASE Record(n)
  <2>1. LogT'
    BY <1>12, LogSteps DEF Record
  <2>2. ReportT'
    <3>1. NoReport.path \in Paths \cup {NoReport.path} /\ NoReport.after \subseteq Calls
      BY DEF NoReport
    <3>. QED  BY <1>a, <1>12, <3>1 DEF Record
  <2>3. CountT'
    BY <1>a, <1>12, FaultTypes DEF Record
  <2>. QED  BY <1>a, <1>12, <2>1, <2>2, <2>3 DEF Record
<1>13. CASE Drop(n)  BY <1>a, <1>13 DEF Drop
<1>z. 0 \in 0 .. MaxCalls
  BY ApiAssumption
<1>14. CASE SaveCert(n)
  <2>1. TrustT'
    BY <1>a, <1>14, <1>z, CallsAreNumbers DEF SaveCert
  <2>. QED  BY <1>a, <1>14, <2>1 DEF SaveCert
<1>15. CASE SaveKey(n)
  <2>1. TrustT'
    <3>1. PICK k \in {n, 0} : store' = [store EXCEPT !.key = k]
      BY <1>15 DEF SaveKey
    <3>2. k \in 0 .. MaxCalls
      BY <1>z, CallsAreNumbers
    <3>. QED  BY <1>a, <1>15, <3>1, <3>2 DEF SaveKey
  <2>. QED  BY <1>a, <1>15, <2>1 DEF SaveKey
<1>. QED
  BY <1>1, <1>2, <1>3, <1>4, <1>5, <1>6, <1>7, <1>8, <1>9, <1>10, <1>11, <1>12, <1>13,
     <1>14, <1>15 DEF CallStep

\* So does every other step, and one that changes nothing.
LEMMA TypesRest ==
  ASSUME Types,
         (Crash /\ UNCHANGED group) \/ (Boot /\ UNCHANGED group)
           \/ (Environment /\ UNCHANGED group) \/ UNCHANGED vars
  PROVE  Types'
<1>1. CASE Crash /\ UNCHANGED group
  <2>1. lines' \in Seq(Seq(0 .. MaxCalls)) /\ lines' # <<>> /\ writer' \in BOOLEAN
    <3>1. CASE UNCHANGED lines
      BY <1>1, <3>1 DEF Crash, Types
    <3>2. CASE \E n \in Calls : lines' \in CutShort(n) \/ WriteLine(n)
      BY <1>1, <3>2, LogSteps DEF Crash
    <3>. QED  BY <1>1, <3>1, <3>2 DEF Crash
  <2>2. /\ session' \in [Modes -> 0 .. MaxTime + MaxDuration]
        /\ holder' \in [Modes -> 0 .. MaxCalls]
        /\ grants' \in [Modes -> Seq([from : Nat, until : Nat])]
    BY <1>1, ApiAssumption, DiagnosticsAssumption DEF Crash, NoSessions, None
  <2>3. pc' \in [Calls -> PCs] /\ result' \in [Calls -> {"none", "ok", "failed"}]
    BY <1>1 DEF Crash, Types, PCs
  <2>4. call' \in [Calls -> [op : group' \cup {"none"}, for : Nat, found : SUBSET Messages]]
    BY <1>1, RemainsType DEF Crash, Types
  <2>5. crashes' \in 0 .. MaxCrashes
    BY <1>1, ApiAssumption DEF Crash, Types
  <2>6. report'.path \in Paths \cup {NoReport.path} /\ report'.after \subseteq Calls
    BY <1>1 DEF Crash, NoReport
  <2>. QED  BY <1>1, <2>1, <2>2, <2>3, <2>4, <2>5, <2>6 DEF Crash, Types
<1>2. CASE Boot /\ UNCHANGED group
  <2>1. faults' \in 0 .. MaxFaults
    BY <1>2, FaultTypes DEF Boot, Types
  <2>2. tls' \in BOOLEAN /\ writer' \in BOOLEAN /\ loaded' \subseteq Calls /\ up' \in BOOLEAN
    BY <1>2 DEF Boot, OpenFile, Loadable
  <2>. QED  BY <1>2, <2>1, <2>2 DEF Boot, Types, sessionVars, callVars
<1>3. CASE Environment /\ UNCHANGED group
  <2>1. now' \in 0 .. MaxTime /\ kmsg' \subseteq Messages
    BY <1>3, DiagnosticsAssumption DEF Environment, Tick, KernelLogs, Types
  <2>. QED
    BY <1>3, <2>1 DEF Environment, Types, auditVars, sessionVars, trustVars, callVars, countVars
<1>4. CASE UNCHANGED vars
  BY <1>4 DEF vars, Types
<1>. QED  BY <1>1, <1>2, <1>3, <1>4

-----------------------------------------------------------------------------
(* Where a call is and what it has then                                    *)

\* A file that a dump has made is never taken away.
LEMMA DumpsStay ==
  ASSUME Types, PlaceInv, NEW n \in Calls, CallStep(n), NEW p \in Paths, dumps[p] # NoDump
  PROVE  dumps'[p] # NoDump
<1>. USE DEF Types
<1>1. CASE UNCHANGED dumps
  BY <1>1
<1>2. CASE Truncate(n)
  <2>1. call[n].op \in DumpOps /\ TruncateDump(Path(n))
    BY <1>2 DEF Truncate, PlaceInv, Place, Dumping, Path
  <2>2. {} # NoDump
    BY DEF NoDump
  <2>. QED  BY <2>1, <2>2, DumpSteps
<1>3. CASE Fill(n)
  <2>1. call[n].op \in DumpOps /\ pc[n] = "fill" /\ FillDump(Path(n), call[n].found)
    BY <1>3 DEF Fill, PlaceInv, Place, Dumping, Path
  <2>. QED  BY <2>1, DumpSteps
<1>4. CASE DumpFails(n)
  <2>1. call[n].op \in DumpOps
    BY <1>4 DEF DumpFails, PlaceInv, Place, Dumping
  <2>2. CASE pc[n] = "fill"
    <3>1. PICK part \in SUBSET call[n].found : FillDump(Path(n), part)
      BY <1>4, <2>2 DEF DumpFails, Path
    <3>. QED  BY <2>1, <2>2, <3>1, DumpSteps
  <2>3. CASE pc[n] # "fill"
    BY <1>4, <2>3 DEF DumpFails
  <2>. QED  BY <2>2, <2>3
<1>. QED
  BY <1>1, <1>2, <1>3, <1>4 DEF CallStep, Call, EnterSession, GrantSession, GetDebugStatus,
     Gather, Analyze, StoreCert, RejectCert, Record, Drop, SaveCert, SaveKey

\* A step of a call keeps its own place ...
LEMMA PlaceOwn ==
  ASSUME Types, PlaceInv, NEW n \in Calls, CallStep(n)
  PROVE  Place(n)'
<1>a. /\ pc \in [Calls -> PCs] /\ result \in [Calls -> {"none", "ok", "failed"}]
      /\ call \in [Calls -> [op : group \cup {"none"}, for : Nat, found : SUBSET Messages]]
      /\ now \in 0 .. MaxTime
  BY DEF Types
<1>b. Place(n)
  BY DEF PlaceInv
<1>c. NoCall.op \notin DumpOps
  BY DEF NoCall, DumpOps
<1>. USE DEF Place, Running, Dumping, Goto, Answer, callVars, DumpPath, Path
<1>1. ASSUME NEW op \in group, Call(n, op)  PROVE Place(n)'
  <2>1. ASSUME Goto(n, Start(op)),
               NEW d \in IF op \in Modes THEN Durations ELSE IF op \in DumpOps THEN {now} ELSE {0},
               call' = [call EXCEPT ![n] = [op |-> op, for |-> d, found |-> {}]]
        PROVE  Place(n)'
    <3>1. /\ pc'[n] = Start(op) /\ result'[n] = "none"
          /\ call'[n].op = op /\ call'[n].for = d
      BY <1>a, <1>b, <1>1, <2>1 DEF Call
    <3>2. op \in DumpOps => d = now
      BY DEF Modes, DumpOps
    <3>. QED  BY <1>a, <3>1, <3>2, StartPlaces
  <2>2. CASE Answer(n, "failed") /\ UNCHANGED call
    <3>1. /\ pc'[n] = "record" /\ call'[n] = call[n]
      BY <1>a, <2>2
    <3>. QED  BY <1>b, <3>1
  <2>. QED  BY <1>1, <2>1, <2>2 DEF Call
<1>2. CASE EnterSession(n)
  <2>1. /\ call' = call
        /\ \/ pc'[n] = "record"
           \/ pc'[n] = "grant" /\ pc[n] = "lock" /\ result'[n] = result[n]
    BY <1>a, <1>2 DEF EnterSession
  <2>. QED  BY <1>b, <2>1
<1>3. CASE GrantSession(n)
  <2>1. pc'[n] = "record" /\ call' = call  BY <1>a, <1>3 DEF GrantSession
  <2>. QED  BY <1>b, <2>1
<1>4. CASE GetDebugStatus(n)
  <2>1. pc'[n] = "record" /\ call' = call  BY <1>a, <1>4 DEF GetDebugStatus
  <2>. QED  BY <1>b, <2>1
<1>5. CASE Gather(n)
  <2>1. /\ pc[n] = "gather" /\ pc'[n] = "truncate" /\ result' = result
        /\ call'[n].op = call[n].op /\ call'[n].for = call[n].for
    BY <1>a, <1>5 DEF Gather
  <2>. QED  BY <1>b, <2>1
<1>6. CASE Truncate(n)
  <2>1. /\ pc[n] = "truncate" /\ pc'[n] = "fill" /\ result' = result /\ call' = call
        /\ TruncateDump(Path(n))
    BY <1>a, <1>6 DEF Truncate
  <2>2. dumps'[Path(n)] = {} /\ {} # NoDump
    BY <1>b, <2>1, DumpSteps DEF NoDump
  <2>. QED  BY <1>b, <2>1, <2>2
<1>7. CASE Fill(n)
  <2>1. pc'[n] = "record" /\ call' = call  BY <1>a, <1>7 DEF Fill
  <2>. QED  BY <1>b, <2>1
<1>8. CASE DumpFails(n)
  <2>1. pc'[n] = "record" /\ call' = call  BY <1>a, <1>8 DEF DumpFails
  <2>. QED  BY <1>b, <2>1
<1>9. CASE Analyze(n)
  <2>1. pc'[n] = "record" /\ call' = call  BY <1>a, <1>9 DEF Analyze
  <2>. QED  BY <1>b, <2>1
<1>10. CASE StoreCert(n)
  <2>1. /\ call' = call
        /\ \/ pc'[n] = "record"
           \/ pc[n] = "store0" /\ pc'[n] = "store" /\ result' = result
    BY <1>a, <1>10 DEF StoreCert
  <2>. QED  BY <1>b, <2>1
<1>11. CASE RejectCert(n)
  <2>1. pc'[n] = "record" /\ call' = call  BY <1>a, <1>11 DEF RejectCert
  <2>. QED  BY <1>b, <2>1
<1>12. CASE Record(n)
  <2>1. pc'[n] = "answered" /\ (call'[n] = call[n] \/ call'[n] = NoCall)
    BY <1>a, <1>12, RemainsType DEF Record
  <2>. QED  BY <1>b, <1>c, <2>1
<1>13. CASE Drop(n)
  <2>1. pc'[n] = "lost" /\ (call'[n] = call[n] \/ call'[n] = NoCall)
    BY <1>a, <1>13, RemainsType DEF Drop
  <2>. QED  BY <1>b, <1>c, <2>1
<1>14. CASE SaveCert(n)
  <2>1. pc'[n] \in {"key", "saved"} /\ call' = call  BY <1>a, <1>14 DEF SaveCert
  <2>. QED  BY <1>b, <2>1
<1>15. CASE SaveKey(n)
  <2>1. pc'[n] = "saved" /\ call' = call  BY <1>a, <1>15 DEF SaveKey
  <2>. QED  BY <1>b, <2>1
<1>. QED
  BY <1>1, <1>2, <1>3, <1>4, <1>5, <1>6, <1>7, <1>8, <1>9, <1>10, <1>11, <1>12, <1>13,
     <1>14, <1>15 DEF CallStep

\* ... and that of the others.
LEMMA PlaceCall ==
  ASSUME Types, PlaceInv, NEW n \in Calls, CallStep(n)
  PROVE  PlaceInv'
<1>1. ASSUME NEW k \in Calls \ {n}  PROVE Place(k)'
  <2>1. pc'[k] = pc[k] /\ call'[k] = call[k] /\ result'[k] = result[k]
    BY OtherCalls
  <2>2. Place(k)
    BY DEF PlaceInv
  <2>3. Path(k)' = Path(k)
    BY <2>1 DEF Path, DumpPath
  <2>4. pc[k] = "fill" => dumps'[Path(k)] # NoDump
    <3>1. SUFFICES ASSUME pc[k] = "fill"  PROVE dumps'[Path(k)] # NoDump
      OBVIOUS
    <3>2. call[k].op \in DumpOps /\ dumps[Path(k)] # NoDump
      BY <2>2, <3>1 DEF Place, Dumping
    <3>3. Path(k) \in Paths
      BY <3>2, DumpTypes
    <3>. QED  BY <3>2, <3>3, DumpsStay
  <2>. QED  BY <2>1, <2>2, <2>3, <2>4 DEF Place
<1>. QED  BY <1>1, PlaceOwn DEF PlaceInv

\* When the agent dies no call is under way any more.
LEMMA CrashCalls ==
  ASSUME Types, Crash, NEW k \in Calls
  PROVE  \/ /\ pc[k] \in Done \cup {"new", "lost"}
            /\ pc'[k] = pc[k] /\ call'[k] = call[k] /\ result'[k] = result[k]
         \/ /\ pc[k] \notin Done \cup {"new", "lost"} /\ pc'[k] = "lost" /\ result'[k] = "none"
            /\ call'[k] = Remains(k, DumpOps)
            /\ call'[k] = call[k] \/ (call'[k] = NoCall /\ call[k].op \notin DumpOps)
BY DEF Crash, InFlight, Types, Remains

\* The other steps keep every call where it is, or end it.
LEMMA PlaceRest ==
  ASSUME Types, PlaceInv, Crash \/ Boot \/ Environment \/ UNCHANGED vars
  PROVE  PlaceInv'
<1>1. CASE Crash
  <2>. SUFFICES ASSUME NEW k \in Calls  PROVE Place(k)'
    BY DEF PlaceInv
  <2>1. Place(k) /\ NoCall.op \notin DumpOps /\ UNCHANGED dumps
    BY <1>1 DEF PlaceInv, NoCall, DumpOps, Crash
  <2>. QED
    BY <1>1, <2>1, CrashCalls DEF Place, Path, DumpPath, Done, Running, Dumping
<1>2. CASE Boot \/ Environment \/ UNCHANGED vars
  <2>1. UNCHANGED <<pc, call, result, dumps>>
    BY <1>2 DEF Boot, Environment, vars, callVars
  <2>. QED  BY <2>1 DEF PlaceInv, Place, Path
<1>. QED  BY <1>1, <1>2

-----------------------------------------------------------------------------
(* Sessions                                                                *)

\* A call that enters the lock found no session active; one that grants had
\* the lock since, so what it grants starts after every other ended.
LEMMA SessionCall ==
  ASSUME Types, PlaceInv, SessionInv, GrantsDisjoint, NEW n \in Calls, CallStep(n)
  PROVE  SessionInv' /\ GrantsDisjoint'
<1>a. /\ pc \in [Calls -> PCs] /\ holder \in [Modes -> 0 .. MaxCalls]
      /\ session \in [Modes -> 0 .. MaxTime + MaxDuration] /\ now \in 0 .. MaxTime
      /\ grants \in [Modes -> Seq([from : Nat, until : Nat])]
      /\ \A k \in Calls : call[k].for \in Nat
  BY DEF Types
<1>b. 0 \notin Calls
  BY CallsAreNumbers
<1>o. \A k \in Calls \ {n} : pc'[k] = pc[k] /\ call'[k] = call[k]
  BY OtherCalls
<1>1. CASE EnterSession(n)
  <2>. DEFINE m == call[n].op
  <2>1. m \in Modes /\ UNCHANGED <<session, grants, now, call>>
    BY <1>1 DEF EnterSession, Refuse
  <2>2. GrantsDisjoint'
    BY <2>1 DEF GrantsDisjoint
  <2>3. holder[m] = 0
    BY <1>1 DEF EnterSession, LockSession, None
  <2>4. ASSUME NEW k \in Calls \ {n}, pc'[k] = "grant"
        PROVE  call'[k].op \in Modes /\ holder'[call'[k].op] = k /\ session'[call'[k].op] <= now'
    <3>1. call[k].op \in Modes /\ holder[call[k].op] = k /\ session[call[k].op] <= now
      BY <1>o, <2>4 DEF SessionInv
    <3>2. call[k].op # m
      BY <1>b, <2>3, <3>1
    <3>3. holder'[call[k].op] = holder[call[k].op]
      BY <1>1, <1>a, <3>1, <3>2 DEF EnterSession, Refuse, LockSession
    <3>. QED  BY <2>1, <3>1, <3>3
  <2>5. ASSUME pc'[n] = "grant"
        PROVE  call'[n].op \in Modes /\ holder'[call'[n].op] = n /\ session'[call'[n].op] <= now'
    <3>1. ~Active(m) /\ LockSession(n, m)
      BY <1>1, <1>a, <2>5 DEF EnterSession, Answer
    <3>2. session[m] <= now
      BY <1>a, <2>1, <3>1, DiagnosticsAssumption DEF Active
    <3>3. holder'[m] = n
      BY <1>a, <2>1, <3>1 DEF LockSession
    <3>. QED  BY <2>1, <3>2, <3>3
  <2>. QED  BY <2>1, <2>2, <2>4, <2>5 DEF SessionInv
<1>2. CASE GrantSession(n)
  <2>. DEFINE m == call[n].op
              d == call[n].for
              g == Len(grants[m]) + 1
              until == now + ClampDuration(d)
  <2>1. /\ m \in Modes /\ holder[m] = n /\ session[m] <= now /\ d \in Nat /\ Grant(m, d)
        /\ UNCHANGED <<now, call>> /\ pc'[n] = "record"
    BY <1>2, <1>a DEF GrantSession, SessionInv, Answer
  <2>. HIDE DEF m, d
  <2>2. /\ until \in 1 .. MaxTime + MaxDuration
        /\ session' = [session EXCEPT ![m] = until]
        /\ holder' = [holder EXCEPT ![m] = 0]
        /\ grants' \in [Modes -> Seq([from : Nat, until : Nat])]
        /\ Len(grants'[m]) = g
        /\ \A i \in 1 .. Len(grants[m]) : grants'[m][i] = grants[m][i]
        /\ grants'[m][g].from = now
        /\ grants'[m][g].until = until
        /\ \A q \in Modes \ {m} : grants'[q] = grants[q]
    BY <2>1, GrantTypes
  <2>3. ClampDuration(d) \in 1 .. MaxDuration
    BY <2>1, Clamped
  <2>4. until > now /\ until - now \in 1 .. MaxDuration /\ until \in Nat
    BY <1>a, <2>3, DiagnosticsAssumption
  <2>. HIDE DEF until
  <2>5. session'[m] = until /\ \A q \in Modes \ {m} : session'[q] = session[q]
    BY <1>a, <2>1, <2>2
  <2>6. /\ Len(grants[m]) \in Nat /\ DOMAIN grants[m] = 1 .. Len(grants[m])
        /\ DOMAIN grants'[m] = 1 .. Len(grants[m]) + 1
    BY <1>a, <2>1, <2>2
  <2>7. \A i \in 1 .. Len(grants[m]) : grants[m][i].until \in Nat /\ grants[m][i].until <= now
    <3>. SUFFICES ASSUME NEW i \in 1 .. Len(grants[m])
                  PROVE  grants[m][i].until \in Nat /\ grants[m][i].until <= now
      OBVIOUS
    <3>0. grants[m] \in Seq([from : Nat, until : Nat])
      BY <1>a, <2>1
    <3>. DEFINE R == [from : Nat, until : Nat]
    <3>. HIDE DEF R
    <3>a. grants[m] \in Seq(R)
      BY <3>0 DEF R
    <3>b. grants[m][i] \in R
      BY <3>a
    <3>1. grants[m][i] \in [from : Nat, until : Nat]
      BY <3>b DEF R
    <3>2. grants[m][i].until <= session[m]
      BY <2>1, <2>6 DEF SessionInv
    <3>3. session[m] \in Nat /\ now \in Nat
      BY <1>a, <2>1, DiagnosticsAssumption
    <3>. QED  BY <2>1, <3>1, <3>2, <3>3
  <2>8. \A q \in Modes : \A i \in DOMAIN grants'[q] : grants'[q][i].until <= session'[q]
    <3>1. ASSUME NEW i \in DOMAIN grants'[m]  PROVE grants'[m][i].until <= session'[m]
      <4>1. CASE i = g
        BY <2>2, <2>4, <2>5, <4>1
      <4>2. CASE i \in 1 .. Len(grants[m])
        <5>1. grants'[m][i] = grants[m][i] /\ now \in Nat
          BY <1>a, <2>2, <4>2, DiagnosticsAssumption
        <5>2. grants[m][i].until \in Nat /\ grants[m][i].until <= now
          BY <2>7, <4>2
        <5>. QED  BY <2>4, <2>5, <5>1, <5>2
      <4>. QED  BY <2>6, <4>1, <4>2
    <3>2. ASSUME NEW q \in Modes \ {m}, NEW i \in DOMAIN grants'[q]
          PROVE  grants'[q][i].until <= session'[q]
      BY <2>2, <2>5 DEF SessionInv
    <3>. QED  BY <3>1, <3>2
  <2>9. \A k \in Calls : pc'[k] = "grant" =>
          call'[k].op \in Modes /\ holder'[call'[k].op] = k /\ session'[call'[k].op] <= now'
    <3>. SUFFICES ASSUME NEW k \in Calls, pc'[k] = "grant"
                  PROVE  /\ call'[k].op \in Modes /\ holder'[call'[k].op] = k
                         /\ session'[call'[k].op] <= now'
      OBVIOUS
    <3>1. k # n /\ pc[k] = "grant" /\ call'[k] = call[k]
      BY <1>o, <2>1
    <3>2. call[k].op \in Modes /\ holder[call[k].op] = k /\ session[call[k].op] <= now
      BY <3>1 DEF SessionInv
    <3>3. call[k].op # m
      BY <2>1, <3>1, <3>2
    <3>. QED  BY <1>a, <2>1, <2>2, <2>5, <3>1, <3>2, <3>3
  <2>10. GrantsDisjoint'
    <3>. SUFFICES ASSUME NEW q \in Modes, NEW i \in DOMAIN grants'[q]
                  PROVE  /\ grants'[q][i].until - grants'[q][i].from \in 1 .. MaxDuration
                         /\ \A j \in 1 .. i - 1 : grants'[q][j].until <= grants'[q][i].from
      BY DEF GrantsDisjoint
    <3>1. CASE q # m
      BY <2>2, <3>1 DEF GrantsDisjoint
    <3>2. CASE q = m /\ i = g
      <4>1. grants'[q][i].from = now /\ grants'[q][i].until = until
        BY <2>2, <3>2
      <4>2. \A j \in 1 .. i - 1 : j \in 1 .. Len(grants[m])
        BY <2>6, <3>2
      <4>3. \A j \in 1 .. i - 1 : grants'[q][j] = grants[m][j]
        BY <2>2, <3>2, <4>2
      <4>. QED  BY <2>4, <2>7, <4>1, <4>2, <4>3
    <3>3. CASE q = m /\ i \in 1 .. Len(grants[m])
      <4>1. \A j \in 1 .. i - 1 : j \in 1 .. Len(grants[m])
        BY <2>6, <3>3
      <4>2. grants'[m][i] = grants[m][i] /\ \A j \in 1 .. i - 1 : grants'[m][j] = grants[m][j]
        BY <2>2, <3>3, <4>1
      <4>. QED  BY <2>1, <2>6, <3>3, <4>2 DEF GrantsDisjoint
    <3>. QED  BY <2>6, <3>1, <3>2, <3>3
  <2>. QED  BY <2>8, <2>9, <2>10 DEF SessionInv
<1>3. CASE UNCHANGED <<session, holder, grants, now>> /\ pc'[n] # "grant"
  <2>1. GrantsDisjoint'
    BY <1>3 DEF GrantsDisjoint
  <2>. QED  BY <1>3, <1>o, <2>1 DEF SessionInv
<1>4. ASSUME NEW op \in group, Call(n, op)
      PROVE  UNCHANGED <<session, holder, grants, now>> /\ pc'[n] # "grant"
  <2>1. Start(op) # "grant"
    BY StartPlaces
  <2>. QED  BY <1>4, <1>a, <2>1 DEF Call, Goto, Answer, sessionVars
<1>. QED
  BY <1>1, <1>2, <1>3, <1>4, <1>a DEF CallStep, GetDebugStatus, Gather, Truncate, Fill, DumpFails,
     Analyze, StoreCert, RejectCert, Record, Drop, SaveCert, SaveKey, Goto, Answer, sessionVars

\* An agent that starts has granted nothing; the clock does not go back.
LEMMA SessionRest ==
  ASSUME Types, SessionInv, GrantsDisjoint, Crash \/ Boot \/ Environment \/ UNCHANGED vars
  PROVE  SessionInv' /\ GrantsDisjoint'
<1>1. CASE Crash
  <2>1. \A m \in Modes : grants'[m] = <<>>
    BY <1>1 DEF Crash, NoSessions
  <2>2. \A k \in Calls : pc'[k] # "grant"
    BY <1>1, CrashCalls DEF Done
  <2>. QED  BY <2>1, <2>2 DEF SessionInv, GrantsDisjoint
<1>2. CASE Environment
  <2>1. UNCHANGED <<pc, call, session, holder, grants>>
    BY <1>2 DEF Environment, callVars, sessionVars
  <2>2. now' >= now /\ now \in Nat /\ now' \in Nat
    BY <1>2, DiagnosticsAssumption DEF Environment, Tick, Types
  <2>3. \A m \in Modes : session[m] \in Nat
    BY DiagnosticsAssumption DEF Types
  <2>. QED  BY <2>1, <2>2, <2>3 DEF SessionInv, GrantsDisjoint
<1>3. CASE Boot \/ UNCHANGED vars
  <2>1. UNCHANGED <<pc, call, session, holder, grants, now>>
    BY <1>3 DEF Boot, vars, callVars, sessionVars
  <2>. QED  BY <2>1 DEF SessionInv, GrantsDisjoint
<1>. QED  BY <1>1, <1>2, <1>3

-----------------------------------------------------------------------------
(* Certificates                                                            *)

\* Only a call that stored its certificate in full has the answer ok, and
\* osctl saves one of those.
LEMMA CertCall ==
  ASSUME Types, PlaceInv, SessionInv, CertInv, NEW n \in Calls, CallStep(n)
  PROVE  CertInv'
<1>a. /\ pc \in [Calls -> PCs] /\ result \in [Calls -> {"none", "ok", "failed"}]
      /\ certs \in [Calls -> {"none", "torn", "whole"}]
      /\ call \in [Calls -> [op : group \cup {"none"}, for : Nat, found : SUBSET Messages]]
      /\ store \in [cert : 0 .. MaxCalls, key : 0 .. MaxCalls]
  BY DEF Types
<1>b. Place(n) /\ NoCall.op # "init_bootstrap"
  BY DEF PlaceInv, NoCall
<1>c. store.cert # 0 => store.cert \in Calls
  BY <1>a, ApiAssumption DEF Calls
<1>d. call[n].op = "init_bootstrap" /\ result[n] = "ok" => certs[n] = "whole"
  BY DEF CertInv
<1>o. \A k \in Calls \ {n} : pc'[k] = pc[k] /\ call'[k] = call[k] /\ result'[k] = result[k]
  BY OtherCalls
<1>1. ASSUME \A k \in Calls \ {n} : certs'[k] = certs[k],
             call'[n].op = "init_bootstrap" /\ result'[n] = "ok" => certs'[n] = "whole",
             store' = store,
             store.cert = n => pc'[n] \in {"key", "saved"} /\ certs'[n] = certs[n]
      PROVE  CertInv'
  BY <1>1, <1>o, <1>c DEF CertInv
<1>2. ASSUME UNCHANGED <<certs, store>>, pc[n] \notin {"key", "saved"},
             call'[n].op = "init_bootstrap" /\ result'[n] = "ok" =>
               call[n].op = "init_bootstrap" /\ result[n] = "ok"
      PROVE  CertInv'
  <2>1. store.cert # n
    BY <1>2, CallsAreNumbers DEF CertInv
  <2>. QED  BY <1>1, <1>2, <1>d, <2>1
<1>. USE DEF trustVars, callVars, Goto, Answer
<1>3. ASSUME NEW op \in group, Call(n, op)  PROVE CertInv'
  <2>1. UNCHANGED <<certs, store>> /\ pc[n] = "new" /\ result[n] = "none"
    BY <1>3, <1>b DEF Call, Place, Running
  <2>2. result'[n] # "ok"
    BY <1>3, <1>a, <2>1 DEF Call
  <2>. QED  BY <1>2, <2>1, <2>2
<1>4. CASE EnterSession(n)
  <2>1. UNCHANGED <<certs, store>> /\ pc[n] = "lock" /\ call[n].op \in Modes /\ call' = call
    BY <1>4 DEF EnterSession
  <2>2. call'[n].op # "init_bootstrap"
    BY <2>1 DEF Modes
  <2>. QED  BY <1>2, <2>1, <2>2
<1>5. CASE GrantSession(n)
  <2>1. UNCHANGED <<certs, store>> /\ pc[n] = "grant" /\ call[n].op \in Modes /\ call' = call
    BY <1>5 DEF GrantSession, SessionInv
  <2>2. call'[n].op # "init_bootstrap"
    BY <2>1 DEF Modes
  <2>. QED  BY <1>2, <2>1, <2>2
<1>6. CASE GetDebugStatus(n)
  <2>1. UNCHANGED <<certs, store>> /\ pc[n] = "lock" /\ call' = call
        /\ call[n].op = "get_debug_status"
    BY <1>6 DEF GetDebugStatus
  <2>. QED  BY <1>2, <2>1
<1>7. CASE Gather(n)
  <2>1. UNCHANGED <<certs, store, result>> /\ pc[n] = "gather" /\ call'[n].op = call[n].op
    BY <1>7, <1>a DEF Gather
  <2>. QED  BY <1>2, <2>1
<1>8. CASE Truncate(n) \/ Fill(n) \/ DumpFails(n)
  <2>1. UNCHANGED <<certs, store, call>> /\ pc[n] \in Dumping
    BY <1>8 DEF Truncate, Fill, DumpFails, Dumping
  <2>2. call'[n].op # "init_bootstrap"
    BY <1>b, <2>1 DEF Place, DumpOps
  <2>. QED  BY <1>2, <2>1, <2>2 DEF Dumping
<1>9. CASE Analyze(n)
  <2>1. UNCHANGED <<certs, store, call>> /\ pc[n] = "analyze"
    BY <1>9 DEF Analyze
  <2>2. call'[n].op # "init_bootstrap"
    BY <1>b, <2>1 DEF Place
  <2>. QED  BY <1>2, <2>1, <2>2
<1>10. CASE StoreCert(n)
  <2>1. /\ pc[n] \in {"store0", "store"} /\ UNCHANGED store
        /\ \A k \in Calls \ {n} : certs'[k] = certs[k]
        /\ \/ pc[n] = "store0" /\ UNCHANGED result
           \/ certs'[n] = "whole"
    BY <1>10, <1>a DEF StoreCert
  <2>2. store.cert # n
    BY <2>1, CallsAreNumbers DEF CertInv
  <2>3. result'[n] = "ok" => certs'[n] = "whole"
    BY <1>b, <2>1 DEF Place, Running
  <2>. QED  BY <1>1, <2>1, <2>2, <2>3
<1>11. CASE RejectCert(n)
  <2>1. UNCHANGED <<certs, store>> /\ pc[n] \in {"store0", "store"} /\ result'[n] = "failed"
    BY <1>11, <1>a DEF RejectCert
  <2>. QED  BY <1>2, <2>1
<1>12. CASE Record(n) \/ Drop(n)
  <2>1. UNCHANGED <<certs, store>> /\ pc[n] \in {"record", "lock"}
    BY <1>12 DEF Record, Drop
  <2>2. /\ call'[n] = call[n] \/ call'[n] = NoCall
        /\ result'[n] = result[n] \/ result'[n] = "none"
    BY <1>12, <1>a, RemainsType DEF Record, Drop
  <2>. QED  BY <1>2, <1>b, <2>1, <2>2
<1>13. CASE SaveCert(n)
  <2>1. /\ store'.cert \in {n, 0} /\ pc'[n] \in {"key", "saved"} /\ UNCHANGED <<certs, call, result>>
        /\ call[n].op = "init_bootstrap" /\ result[n] = "ok"
    BY <1>13, <1>a DEF SaveCert, Accepted
  <2>2. certs[n] = "whole"
    BY <1>d, <2>1
  <2>. QED  BY <1>o, <2>1, <2>2 DEF CertInv
<1>14. CASE SaveKey(n)
  <2>1. /\ store'.cert = store.cert /\ pc'[n] = "saved" /\ UNCHANGED <<certs, call, result>>
    BY <1>14, <1>a DEF SaveKey
  <2>. QED  BY <2>1, <1>o, <1>c DEF CertInv
<1>. QED
  BY <1>3, <1>4, <1>5, <1>6, <1>7, <1>8, <1>9, <1>10, <1>11, <1>12, <1>13, <1>14 DEF CallStep

\* The files survive the agent.
LEMMA CertRest ==
  ASSUME Types, CertInv, Crash \/ Boot \/ Environment \/ UNCHANGED vars
  PROVE  CertInv'
<1>1. UNCHANGED <<certs, store>>
  BY DEF Crash, Boot, Environment, vars, trustVars
<1>2. CASE Crash
  <2>1. \A k \in Calls : /\ result'[k] = "ok" => call'[k] = call[k] /\ result'[k] = result[k]
                         /\ pc[k] \in {"key", "saved"} => pc'[k] = pc[k]
    BY <1>2, CrashCalls DEF Done
  <2>2. store.cert # 0 => store.cert \in Calls
    BY ApiAssumption DEF Calls, Types
  <2>. QED  BY <1>1, <2>1, <2>2 DEF CertInv
<1>3. CASE Boot \/ Environment \/ UNCHANGED vars
  <2>1. UNCHANGED <<pc, call, result>>
    BY <1>3 DEF Boot, Environment, vars, callVars
  <2>. QED  BY <1>1, <2>1 DEF CertInv
<1>. QED  BY <1>2, <1>3

\* No call changes the TLS configuration, or whether the agent runs.
LEMMA TlsOfCalls ==
  ASSUME NEW n \in Calls, CallStep(n)
  PROVE  UNCHANGED <<tls, up>>
BY DEF CallStep, Call, EnterSession, GrantSession, GetDebugStatus, Gather, Truncate, Fill,
   DumpFails, Analyze, StoreCert, RejectCert, Record, Drop, SaveCert, SaveKey, trustVars

\* Only an agent that runs has a TLS configuration.
LEMMA TlsStep ==
  ASSUME TlsInv, AnyStep
  PROVE  TlsInv'
BY TlsOfCalls DEF AnyStep, TlsInv, Crash, Boot, Environment, vars, trustVars

-----------------------------------------------------------------------------
(* Counting calls and lines                                                *)

\* Sets of calls are finite, and one more call makes them larger by one.
LEMMA SetsOfCalls ==
  ASSUME NEW S \in SUBSET Calls, NEW T \in SUBSET Calls
  PROVE  /\ Cardinality(S) \in Nat /\ Cardinality(S) <= MaxCalls
         /\ S \subseteq T => Cardinality(S) <= Cardinality(T)
         /\ \A n \in Calls : T \subseteq S \cup {n} => Cardinality(T) <= Cardinality(S) + 1
         /\ \A n \in T \ S : S \subseteq T => Cardinality(S) + 1 <= Cardinality(T)
<1>1. IsFiniteSet(Calls) /\ Cardinality(Calls) = MaxCalls
  <2>1. MaxCalls \in Nat /\ Calls = 1 .. MaxCalls
    BY CallsAreNumbers DEF Calls
  <2>2. /\ IsFiniteSet(1 .. MaxCalls)
        /\ Cardinality(1 .. MaxCalls) = IF 1 > MaxCalls THEN 0 ELSE MaxCalls - 1 + 1
    BY <2>1, FS_Interval
  <2>. QED  BY <2>1, <2>2
<1>2. IsFiniteSet(S) /\ IsFiniteSet(T) /\ Cardinality(S) <= Cardinality(Calls)
  BY <1>1, FS_Subset
<1>3. Cardinality(S) \in Nat /\ Cardinality(T) \in Nat
  BY <1>2, FS_CardinalityType
<1>4. S \subseteq T => Cardinality(S) <= Cardinality(T)
  BY <1>2, FS_Subset
<1>5. ASSUME NEW n \in Calls
      PROVE  /\ IsFiniteSet(S \cup {n}) /\ Cardinality(S \cup {n}) \in Nat
             /\ Cardinality(S \cup {n}) <= Cardinality(S) + 1
             /\ n \notin S => Cardinality(S \cup {n}) = Cardinality(S) + 1
  <2>1. IsFiniteSet(S \cup {n})
    BY <1>2, FS_AddElement, Zenon
  <2>2. CASE n \in S
    <3>1. S \cup {n} = S
      BY <2>2
    <3>. QED  BY <1>3, <2>1, <2>2, <3>1
  <2>3. CASE n \notin S
    <3>1. Cardinality(S \cup {n}) = Cardinality(S) + 1
      BY <1>2, <2>3, FS_AddElement, Zenon
    <3>. QED  BY <1>3, <2>1, <3>1
  <2>. QED  BY <2>2, <2>3
<1>6. ASSUME NEW n \in Calls, T \subseteq S \cup {n}
      PROVE  Cardinality(T) <= Cardinality(S) + 1
  <2>1. Cardinality(T) <= Cardinality(S \cup {n})
    BY <1>5, <1>6, FS_Subset
  <2>. QED  BY <1>3, <1>5, <2>1
<1>7. ASSUME NEW n \in T \ S, S \subseteq T
      PROVE  Cardinality(S) + 1 <= Cardinality(T)
  <2>1. S \cup {n} \subseteq T
    BY <1>7
  <2>2. Cardinality(S \cup {n}) <= Cardinality(T)
    BY <1>2, <2>1, FS_Subset
  <2>. QED  BY <1>3, <1>5, <1>7, <2>2
<1>. QED  BY <1>1, <1>2, <1>3, <1>4, <1>6, <1>7

\* A call that is over stays over; one that has its answer is past its check.
LEMMA CallsGoOn ==
  ASSUME Types, AnyStep
  PROVE  Ended \subseteq Ended' /\ Checked \subseteq Checked'
<1>1. ASSUME NEW n \in Calls, CallStep(n)
      PROVE  Ended \subseteq Ended' /\ Checked \subseteq Checked'
  <2>1. \A k \in Calls \ {n} : pc'[k] = pc[k]
    BY <1>1, OtherCalls
  <2>2. /\ pc[n] \in Done => pc'[n] \in Done
        /\ pc[n] \notin {"new", "lock", "grant"} => pc'[n] \notin {"new", "lock", "grant"}
    <3>. USE DEF Types, Done, Goto, Answer, callVars
    <3>1. ASSUME NEW op \in group, Call(n, op)
          PROVE  pc[n] = "new"
      BY <3>1 DEF Call
    <3>2. CASE \/ EnterSession(n) \/ GrantSession(n) \/ GetDebugStatus(n)
      BY <3>2 DEF EnterSession, GrantSession, GetDebugStatus
    <3>3. CASE Gather(n) \/ Truncate(n) \/ Fill(n) \/ DumpFails(n) \/ Analyze(n)
      BY <3>3 DEF Gather, Truncate, Fill, DumpFails, Analyze
    <3>4. CASE StoreCert(n) \/ RejectCert(n) \/ Record(n) \/ Drop(n)
      BY <3>4 DEF StoreCert, RejectCert, Record, Drop
    <3>5. CASE SaveCert(n) \/ SaveKey(n)
      BY <3>5 DEF SaveCert, SaveKey
    <3>. QED  BY <1>1, <3>1, <3>2, <3>3, <3>4, <3>5 DEF CallStep
  <2>. QED  BY <2>1, <2>2 DEF Ended, Checked
<1>2. CASE Crash
  BY <1>2, CrashCalls DEF Ended, Checked, Done
<1>3. CASE Boot \/ Environment \/ UNCHANGED vars
  <2>1. UNCHANGED pc
    BY <1>3 DEF Boot, Environment, vars, callVars
  <2>. QED  BY <2>1 DEF Ended, Checked
<1>. QED  BY <1>1, <1>2, <1>3 DEF AnyStep

\* Each call is counted at most once.
LEMMA CountStep ==
  ASSUME Types, SessionInv, CountInv, AnyStep
  PROVE  CountInv'
<1>a. /\ Ended \in SUBSET Calls /\ Ended' \in SUBSET Calls /\ Ended \subseteq Ended'
      /\ Checked \in SUBSET Calls /\ Checked' \in SUBSET Calls /\ Checked \subseteq Checked'
  BY CallsGoOn DEF Ended, Checked
<1>b. /\ Cardinality(Ended) \in Nat /\ Cardinality(Ended') \in Nat
      /\ Cardinality(Ended) <= Cardinality(Ended')
      /\ Cardinality(Checked) \in Nat /\ Cardinality(Checked') \in Nat
      /\ Cardinality(Checked) <= Cardinality(Checked')
  BY <1>a, SetsOfCalls
<1>c. /\ skipped \in Nat /\ cut \in Nat
      /\ skipped <= Cardinality(Ended) /\ cut <= Cardinality(Ended)
      /\ \A m \in Modes : Len(grants[m]) \in Nat /\ Len(grants[m]) <= Cardinality(Checked)
  BY DEF Types, CountInv
<1>1. CASE UNCHANGED <<skipped, cut, grants>>
  BY <1>1, <1>b, <1>c DEF CountInv
<1>2. ASSUME NEW n \in Calls, Record(n)  PROVE CountInv'
  <2>1. /\ pc[n] = "record" /\ pc'[n] = "answered" /\ UNCHANGED grants
        /\ skipped' \in {skipped, skipped + 1} /\ cut' \in {cut, cut + 1}
    BY <1>2 DEF Record, Types, sessionVars
  <2>2. n \in Ended' \ Ended
    BY <2>1 DEF Ended, Done
  <2>3. Cardinality(Ended) + 1 <= Cardinality(Ended')
    BY <1>a, <2>2, SetsOfCalls
  <2>4. skipped' <= Cardinality(Ended') /\ cut' <= Cardinality(Ended')
    BY <1>b, <1>c, <2>1, <2>3
  <2>. QED  BY <1>b, <1>c, <2>1, <2>4 DEF CountInv
<1>3. ASSUME NEW n \in Calls, GrantSession(n)  PROVE CountInv'
  <2>1. /\ pc[n] = "grant" /\ pc'[n] = "record" /\ UNCHANGED <<skipped, cut>>
        /\ call[n].op \in Modes /\ call[n].for \in Nat /\ Grant(call[n].op, call[n].for)
    BY <1>3 DEF GrantSession, Answer, SessionInv, Types, countVars
  <2>2. n \in Checked' \ Checked
    BY <2>1 DEF Checked
  <2>3. Cardinality(Checked) + 1 <= Cardinality(Checked')
    BY <1>a, <2>2, SetsOfCalls
  <2>4. \A m \in Modes : Len(grants'[m]) \in {Len(grants[m]), Len(grants[m]) + 1}
    BY <2>1, GrantTypes
  <2>5. \A m \in Modes : Len(grants'[m]) <= Cardinality(Checked')
    BY <1>b, <1>c, <2>3, <2>4
  <2>. QED  BY <1>b, <1>c, <2>1, <2>5 DEF CountInv
<1>4. CASE Crash
  <2>1. UNCHANGED <<skipped, cut>> /\ \A m \in Modes : grants'[m] = <<>>
    BY <1>4 DEF Crash, NoSessions
  <2>. QED  BY <1>b, <1>c, <2>1 DEF CountInv
<1>5. ASSUME NEW n \in Calls, CallStep(n), ~Record(n), ~GrantSession(n)
      PROVE  UNCHANGED <<skipped, cut, grants>>
  BY <1>5 DEF CallStep, Call, EnterSession, Refuse, GetDebugStatus, Gather, Truncate, Fill,
     DumpFails, Analyze, StoreCert, RejectCert, Drop, SaveCert, SaveKey, sessionVars, countVars
<1>6. CASE Boot \/ Environment \/ UNCHANGED vars
  BY <1>1, <1>6 DEF Boot, Environment, vars, sessionVars, countVars
<1>. QED  BY <1>1, <1>2, <1>3, <1>4, <1>5, <1>6 DEF AnyStep

\* A line that has its end never changes, so what is settled stays so.
LEMMA LinesStay ==
  ASSUME Types, NEW e \in Calls,
         \/ UNCHANGED lines
         \/ lines' \in CutShort(e)
         \/ WriteLine(e)
  PROVE  /\ \A n \in Calls : Settled(n) => Settled(n)'
         /\ lines' \in CutShort(e) => Open' <= 1
         /\ WriteLine(e) => Open' = 0
         /\ WriteLine(e) /\ Open = 0 => Settled(e)'
<1>1. e \in 0 .. MaxCalls /\ Fragment \in 0 .. MaxCalls
  BY CallsAreNumbers DEF Fragment
<1>2. Len(lines) \in Nat \ {0}
  BY <1>1, LineTypes
<1>3. ASSUME UNCHANGED lines
      PROVE  \A n \in Calls : Settled(n) => Settled(n)'
  BY <1>3 DEF Settled
<1>4. ASSUME NEW x \in 0 .. MaxCalls, lines' = Appended(x)
      PROVE  \A n \in Calls : Settled(n) => Settled(n)'
  BY <1>2, <1>4, LineTypes DEF Settled
<1>5. ASSUME lines' \in CutShort(e)
      PROVE  \A n \in Calls : Settled(n) => Settled(n)'
  BY <1>1, <1>3, <1>4, <1>5 DEF CutShort
<1>6. ASSUME WriteLine(e)
      PROVE  /\ \A n \in Calls : Settled(n) => Settled(n)'
             /\ Open' = 0
             /\ Open = 0 => Settled(e)'
  <2>1. /\ Len(lines') = Len(lines) + 1 /\ lines'[Len(lines) + 1] = <<>>
        /\ \A i \in 1 .. Len(lines) - 1 : lines'[i] = lines[i]
        /\ lines'[Len(lines)] = Append(lines[Len(lines)], e)
    BY <1>1, <1>2, <1>6, LineTypes DEF WriteLine
  <2>2. \A n \in Calls : Settled(n) => Settled(n)'
    BY <1>2, <2>1 DEF Settled
  <2>3. Open' = 0
    BY <1>2, <2>1 DEF Open
  <2>4. ASSUME Open = 0  PROVE Settled(e)'
    <3>1. lines[Len(lines)] = <<>>
      BY <2>4 DEF Open
    <3>2. lines'[Len(lines)] = <<e>>
      BY <2>1, <3>1
    <3>3. Len(lines) \in 1 .. Len(lines') - 1
      BY <1>2, <2>1
    <3>. QED  BY <3>2, <3>3 DEF Settled
  <2>. QED  BY <2>2, <2>3, <2>4
<1>7. lines' \in CutShort(e) => Open' <= 1
  BY DEF Open
<1>. QED  BY <1>3, <1>5, <1>6, <1>7

\* An entry is lost to its own write that failed, to the one before it that
\* failed or was cut off by a crash, or to a log that was not open.
LEMMA LossStep ==
  ASSUME Types, LossInv, AnyStep
  PROVE  LossInv'
<1>a. Unsettled \in SUBSET Calls /\ Unsettled' \in SUBSET Calls
  BY DEF Unsettled
<1>b. /\ Cardinality(Unsettled) \in Nat /\ Cardinality(Unsettled') \in Nat
      /\ Unsettled' \subseteq Unsettled => Cardinality(Unsettled') <= Cardinality(Unsettled)
      /\ \A n \in Calls : Unsettled' \subseteq Unsettled \cup {n} =>
           Cardinality(Unsettled') <= Cardinality(Unsettled) + 1
  BY <1>a, SetsOfCalls
<1>c. /\ skipped \in Nat /\ cut \in Nat /\ crashes \in Nat
      /\ Open \in {0, 1} /\ Open' \in {0, 1}
      /\ Cardinality(Unsettled) + Open <= 2 * cut + crashes + skipped
  BY ApiAssumption DEF Types, LossInv, Open
<1>1. ASSUME NEW n \in Calls, Record(n)  PROVE LossInv'
  <2>1. /\ pc' = [pc EXCEPT ![n] = "answered"] /\ UNCHANGED crashes
        /\ skipped' = IF writer THEN skipped ELSE skipped + 1
    BY <1>1 DEF Record
  <2>2. ASSUME \A k \in Calls : Settled(k) => Settled(k)'
        PROVE  /\ Unsettled' \subseteq Unsettled \cup {n}
               /\ Settled(n)' => Unsettled' \subseteq Unsettled
    BY <2>1, <2>2 DEF Unsettled, Types, Done
  <2>3. CASE RecordOk(n) /\ UNCHANGED cut /\ writer
    <3>1. WriteLine(n)
      BY <2>3 DEF RecordOk
    <3>2. /\ Unsettled' \subseteq Unsettled \cup {n} /\ Open' = 0
          /\ Open = 0 => Unsettled' \subseteq Unsettled
      BY <2>2, <3>1, LinesStay
    <3>3. CASE Open = 0
      BY <1>b, <1>c, <2>1, <2>3, <3>2, <3>3 DEF LossInv
    <3>4. CASE Open = 1
      BY <1>b, <1>c, <2>1, <2>3, <3>2, <3>4 DEF LossInv
    <3>. QED  BY <1>c, <3>3, <3>4
  <2>4. CASE RecordOk(n) /\ UNCHANGED cut /\ ~writer
    <3>1. UNCHANGED lines /\ skipped' = skipped + 1
      BY <2>1, <2>4 DEF RecordOk
    <3>2. Unsettled' \subseteq Unsettled \cup {n} /\ Open' = Open
      BY <2>2, <3>1, LinesStay DEF Open
    <3>. QED  BY <1>b, <1>c, <2>1, <2>4, <3>1, <3>2 DEF LossInv
  <2>5. CASE RecordFails(n) /\ cut' = cut + 1
    <3>1. lines' \in CutShort(n) /\ UNCHANGED skipped
      BY <2>1, <2>5 DEF RecordFails
    <3>2. Unsettled' \subseteq Unsettled \cup {n}
      BY <2>2, <3>1, LinesStay
    <3>. QED  BY <1>b, <1>c, <2>1, <2>5, <3>1, <3>2 DEF LossInv
  <2>. QED  BY <1>1, <2>3, <2>4, <2>5 DEF Record
<1>2. CASE Crash
  <2>1. \A k \in Calls : Settled(k) => Settled(k)'
    <3>1. CASE UNCHANGED lines
      BY <3>1 DEF Settled
    <3>2. ASSUME NEW n \in Calls, lines' \in CutShort(n) \/ WriteLine(n)
          PROVE  \A k \in Calls : Settled(k) => Settled(k)'
      BY <3>2, LinesStay
    <3>. QED  BY <1>2, <3>1, <3>2 DEF Crash
  <2>2. \A k \in Calls : pc'[k] \in Done => pc[k] \in Done
    BY <1>2, CrashCalls DEF Done
  <2>3. Unsettled' \subseteq Unsettled
    BY <2>1, <2>2 DEF Unsettled
  <2>4. crashes' = crashes + 1 /\ UNCHANGED <<skipped, cut>>
    BY <1>2 DEF Crash
  <2>. QED  BY <1>b, <1>c, <2>3, <2>4 DEF LossInv
<1>3. ASSUME UNCHANGED <<lines, skipped, cut, crashes>>,
             \A k \in Calls : pc'[k] \in Done => pc[k] \in Done
      PROVE  LossInv'
  <2>1. Unsettled' \subseteq Unsettled /\ Open' = Open
    BY <1>3 DEF Unsettled, Settled, Open
  <2>. QED  BY <1>b, <1>c, <1>3, <2>1 DEF LossInv
<1>4. ASSUME NEW n \in Calls, CallStep(n), ~Record(n)  PROVE LossInv'
  <2>1. UNCHANGED <<lines, skipped, cut, crashes>>
    BY <1>4 DEF CallStep, Call, EnterSession, GrantSession, GetDebugStatus, Gather, Truncate, Fill,
       DumpFails, Analyze, StoreCert, RejectCert, Drop, SaveCert, SaveKey, auditVars, countVars
  <2>2. pc'[n] \in Done => pc[n] \in Done
    <3>. USE DEF Types, Done, Goto, Answer, callVars
    <3>1. ASSUME NEW op \in group, Call(n, op)
          PROVE  pc'[n] \notin Done
      <4>1. Start(op) \notin Done
        BY StartPlaces
      <4>. QED  BY <3>1, <4>1 DEF Call
    <3>2. CASE \/ EnterSession(n) \/ GrantSession(n) \/ GetDebugStatus(n)
      BY <3>2 DEF EnterSession, GrantSession, GetDebugStatus
    <3>3. CASE Gather(n) \/ Truncate(n) \/ Fill(n) \/ DumpFails(n) \/ Analyze(n)
      BY <3>3 DEF Gather, Truncate, Fill, DumpFails, Analyze
    <3>4. CASE StoreCert(n) \/ RejectCert(n) \/ Drop(n)
      BY <3>4 DEF StoreCert, RejectCert, Drop
    <3>5. CASE SaveCert(n) \/ SaveKey(n)
      BY <3>5 DEF SaveCert, SaveKey
    <3>. QED  BY <1>4, <3>1, <3>2, <3>3, <3>4, <3>5 DEF CallStep
  <2>3. \A k \in Calls : pc'[k] \in Done => pc[k] \in Done
    BY <1>4, <2>2, OtherCalls
  <2>. QED  BY <1>3, <2>1, <2>3
<1>5. CASE Boot \/ Environment \/ UNCHANGED vars
  <2>1. UNCHANGED <<lines, skipped, cut, crashes, pc>>
    BY <1>5 DEF Boot, Environment, vars, callVars, auditVars, countVars
  <2>. QED  BY <1>3, <2>1
<1>. QED  BY <1>1, <1>2, <1>4, <1>5 DEF AnyStep

-----------------------------------------------------------------------------
(* Dumps and reports                                                       *)

\* The name of a call's dump stays with the call, and its contents once it
\* has gathered them; an answered call has what it had.
LEMMA DumpCallsStay ==
  ASSUME Types, PlaceInv, AnyStep, NEW k \in Calls
  PROVE  /\ call[k].op \in DumpOps =>
              /\ call'[k].op = call[k].op /\ call'[k].for = call[k].for
              /\ pc[k] # "gather" => call'[k].found = call[k].found
         /\ pc[k] \in Done =>
              pc'[k] \in Done /\ call'[k] = call[k] /\ result'[k] = result[k]
<1>. DEFINE Goal == /\ call[k].op \in DumpOps =>
                         /\ call'[k].op = call[k].op /\ call'[k].for = call[k].for
                         /\ pc[k] # "gather" => call'[k].found = call[k].found
                    /\ pc[k] \in Done =>
                         pc'[k] \in Done /\ call'[k] = call[k] /\ result'[k] = result[k]
<1>a. pc[k] \in Done => pc'[k] \in Done
  BY CallsGoOn DEF AnyStep, Ended
<1>b. call[k].op \in DumpOps => pc[k] # "new"
  BY DEF PlaceInv, Place, NoCall, DumpOps
<1>1. ASSUME NEW n \in Calls, CallStep(n)  PROVE Goal
  <2>1. CASE k # n
    BY <1>1, <1>a, <2>1, OtherCalls
  <2>2. CASE k = n
    <3>. USE DEF Types, Done, Goto, Answer, callVars
    <3>1. ASSUME NEW op \in group, Call(n, op)  PROVE Goal
      BY <1>b, <2>2, <3>1 DEF Call
    <3>2. CASE UNCHANGED call /\ (pc[n] \in Done => UNCHANGED result)
      BY <1>a, <2>2, <3>2
    <3>3. CASE Gather(n)
      BY <2>2, <3>3 DEF Gather
    <3>4. CASE Record(n)
      <4>1. call'[n] = Remains(n, DumpOps \cup {"init_bootstrap"}) /\ pc[n] = "record"
        BY <3>4 DEF Record
      <4>. QED  BY <2>2, <4>1 DEF Remains
    <3>5. CASE Drop(n)
      <4>1. call'[n] = Remains(n, DumpOps) /\ pc[n] \notin Done
        BY <3>5 DEF Drop
      <4>. QED  BY <2>2, <4>1 DEF Remains
    <3>. QED
      BY <1>1, <3>1, <3>2, <3>3, <3>4, <3>5 DEF CallStep, EnterSession, GrantSession,
         GetDebugStatus, Truncate, Fill, DumpFails, Analyze, StoreCert, RejectCert, SaveCert,
         SaveKey
  <2>. QED  BY <2>1, <2>2
<1>2. CASE Crash
  <2>1. NoCall.op \notin DumpOps
    BY DEF NoCall, DumpOps
  <2>. QED  BY <1>2, <1>a, <2>1, CrashCalls
<1>3. CASE Boot \/ Environment \/ UNCHANGED vars
  BY <1>3 DEF Boot, Environment, vars, callVars
<1>. QED  BY <1>1, <1>2, <1>3 DEF AnyStep

\* So a name that two calls share, they share for good.
LEMMA OnlyStays ==
  ASSUME Types, PlaceInv, AnyStep, NEW k \in Calls, call[k].op \in DumpOps, OnlyInItsSecond(k)'
  PROVE  OnlyInItsSecond(k) /\ Path(k)' = Path(k)
<1>1. ASSUME NEW n \in Calls \ {k}, call[n].op = call[k].op, call[n].for = call[k].for
      PROVE  FALSE
  <2>1. /\ call'[n].op = call[n].op /\ call'[n].for = call[n].for
        /\ call'[k].op = call[k].op /\ call'[k].for = call[k].for
    BY <1>1, DumpCallsStay
  <2>. QED  BY <1>1, <2>1 DEF OnlyInItsSecond
<1>2. Path(k)' = Path(k)
  BY DumpCallsStay DEF Path, DumpPath
<1>. QED  BY <1>1, <1>2 DEF OnlyInItsSecond

\* A call writes to the file of its own dump alone.
LEMMA DumpsOwn ==
  ASSUME Types, PlaceInv, NEW n \in Calls, CallStep(n)
  PROVE  \/ UNCHANGED dumps
         \/ /\ call[n].op \in DumpOps /\ pc[n] \in {"truncate", "fill"}
            /\ \A p \in Paths \ {Path(n)} : dumps'[p] = dumps[p]
<1>1. CASE Truncate(n)
  <2>1. call[n].op \in DumpOps /\ TruncateDump(Path(n)) /\ pc[n] = "truncate"
    BY <1>1 DEF Truncate, PlaceInv, Place, Dumping, Path
  <2>. QED  BY <2>1, DumpSteps
<1>2. CASE Fill(n)
  <2>1. call[n].op \in DumpOps /\ pc[n] = "fill" /\ FillDump(Path(n), call[n].found)
    BY <1>2 DEF Fill, PlaceInv, Place, Dumping, Path
  <2>. QED  BY <2>1, DumpSteps
<1>3. CASE DumpFails(n)
  <2>1. call[n].op \in DumpOps
    BY <1>3 DEF DumpFails, PlaceInv, Place, Dumping
  <2>2. CASE pc[n] = "fill"
    <3>1. PICK part \in SUBSET call[n].found : FillDump(Path(n), part)
      BY <1>3, <2>2 DEF DumpFails, Path
    <3>. QED  BY <2>1, <2>2, <3>1, DumpSteps
  <2>3. CASE pc[n] # "fill"
    BY <1>3, <2>3 DEF DumpFails
  <2>. QED  BY <2>2, <2>3
<1>. QED
  BY <1>1, <1>2, <1>3 DEF CallStep, Call, EnterSession, GrantSession, GetDebugStatus,
     Gather, Analyze, StoreCert, RejectCert, Record, Drop, SaveCert, SaveKey

\* The file of a dump that is alone in its second holds what the call found.
LEMMA DumpStep ==
  ASSUME Types, PlaceInv, SessionInv, DumpInv, AnyStep, NEW k \in Calls,
         call'[k].op \in DumpOps, OnlyInItsSecond(k)'
  PROVE  /\ pc'[k] = "fill" => dumps'[Path(k)'] = {}
         /\ result'[k] = "ok" => dumps'[Path(k)'] = call'[k].found
<1>. DEFINE Goal == /\ pc'[k] = "fill" => dumps'[Path(k)'] = {}
                    /\ result'[k] = "ok" => dumps'[Path(k)'] = call'[k].found
<1>k. Place(k)
  BY DEF PlaceInv
<1>a. ASSUME call[k].op \in DumpOps
      PROVE  /\ OnlyInItsSecond(k) /\ Path(k)' = Path(k)
             /\ pc[k] = "fill" => dumps[Path(k)] = {}
             /\ result[k] = "ok" => dumps[Path(k)] = call[k].found
             /\ pc[k] # "gather" => call'[k].found = call[k].found
             /\ Path(k) \in Paths /\ Path(k) = <<call[k].op, call[k].for>>
  BY <1>a, OnlyStays, DumpCallsStay, DumpTypes DEF DumpInv
<1>1. ASSUME NEW n \in Calls, CallStep(n), k # n  PROVE Goal
  <2>1. pc'[k] = pc[k] /\ call'[k] = call[k] /\ result'[k] = result[k]
    BY <1>1, OtherCalls
  <2>2. call[k].op \in DumpOps
    BY <2>1
  <2>3. dumps'[Path(k)] = dumps[Path(k)]
    <3>1. CASE UNCHANGED dumps
      BY <3>1
    <3>2. ASSUME call[n].op \in DumpOps, \A p \in Paths \ {Path(n)} : dumps'[p] = dumps[p]
          PROVE  dumps'[Path(k)] = dumps[Path(k)]
      <4>1. Path(n) = <<call[n].op, call[n].for>>
        BY <3>2, DumpTypes
      <4>2. Path(n) # Path(k)
        BY <1>1, <1>a, <2>2, <4>1 DEF OnlyInItsSecond
      <4>. QED  BY <1>a, <2>2, <3>2, <4>2
    <3>. QED  BY <1>1, <3>1, <3>2, DumpsOwn
  <2>. QED  BY <1>a, <2>1, <2>2, <2>3
<1>2. ASSUME CallStep(k)  PROVE Goal
  <2>t. /\ pc \in [Calls -> PCs] /\ result \in [Calls -> {"none", "ok", "failed"}]
        /\ call \in [Calls -> [op : group \cup {"none"}, for : Nat, found : SUBSET Messages]]
    BY DEF Types
  <2>. USE DEF Goto, Answer, callVars
  <2>1. ASSUME NEW op \in group, Call(k, op)  PROVE Goal
    <3>1. pc[k] = "new" /\ result[k] = "none" /\ Start(op) # "fill"
      BY <1>k, <2>1, StartPlaces DEF Call, Place, Running
    <3>. QED  BY <2>t, <2>1, <3>1 DEF Call
  <2>2. CASE Truncate(k)
    <3>1. /\ pc[k] = "truncate" /\ call' = call /\ result' = result /\ TruncateDump(Path(k))
          /\ call[k].op \in DumpOps
      BY <1>k, <2>2 DEF Truncate, Place, Dumping, Path
    <3>2. dumps'[Path(k)] = {} /\ result[k] = "none"
      BY <1>k, <3>1, DumpSteps DEF Place, Running, Dumping
    <3>. QED  BY <1>a, <3>1, <3>2
  <2>3. CASE Fill(k)
    <3>1. /\ pc[k] = "fill" /\ call' = call /\ FillDump(Path(k), call[k].found)
          /\ call[k].op \in DumpOps /\ pc'[k] = "record"
      BY <1>k, <2>t, <2>3 DEF Fill, Place, Dumping, Path
    <3>2. PICK tail \in SUBSET dumps[Path(k)] : dumps'[Path(k)] = call[k].found \cup tail
      BY <3>1, DumpSteps
    <3>3. dumps'[Path(k)] = call[k].found
      BY <1>a, <3>1, <3>2
    <3>. QED  BY <1>a, <3>1, <3>3
  <2>4. CASE DumpFails(k)
    BY <2>t, <2>4 DEF DumpFails
  <2>5. CASE EnterSession(k) \/ GetDebugStatus(k) \/ GrantSession(k)
    <3>1. call' = call /\ call[k].op \in Modes \cup {"get_debug_status"}
      BY <2>5 DEF EnterSession, GetDebugStatus, GrantSession, SessionInv
    <3>. QED  BY <3>1 DEF Modes, DumpOps
  <2>6. CASE Gather(k)
    <3>1. pc'[k] = "truncate" /\ result' = result /\ pc[k] = "gather"
      BY <2>t, <2>6 DEF Gather
    <3>. QED  BY <1>k, <3>1 DEF Place, Running, Dumping
  <2>7. CASE Analyze(k)
    <3>1. pc[k] = "analyze" /\ call' = call
      BY <2>7 DEF Analyze
    <3>. QED  BY <1>k, <3>1 DEF Place, DumpOps
  <2>8. CASE StoreCert(k)
    <3>1. pc[k] \in {"store0", "store"} /\ call' = call /\ pc'[k] # "fill" /\ UNCHANGED dumps
      BY <2>t, <2>8 DEF StoreCert
    <3>2. call[k].op = "init_bootstrap"
      BY <1>k, <3>1 DEF Place
    <3>. QED  BY <3>1, <3>2 DEF DumpOps
  <2>9. CASE RejectCert(k)
    BY <2>t, <2>9 DEF RejectCert
  <2>10. CASE Record(k) \/ Drop(k)
    <3>1. /\ UNCHANGED dumps /\ pc'[k] # "fill"
          /\ result'[k] = result[k] \/ result'[k] = "none"
          /\ call'[k] = call[k] \/ call'[k] = NoCall
      BY <2>t, <2>10, RemainsType DEF Record, Drop
    <3>2. call'[k] = call[k]
      BY <3>1 DEF NoCall, DumpOps
    <3>. QED  BY <1>a, <3>1, <3>2
  <2>11. CASE SaveCert(k) \/ SaveKey(k)
    <3>1. UNCHANGED <<dumps, result, call>> /\ pc'[k] # "fill"
      BY <2>t, <2>11 DEF SaveCert, SaveKey
    <3>. QED  BY <1>a, <3>1
  <2>. QED
    BY <1>2, <2>1, <2>2, <2>3, <2>4, <2>5, <2>6, <2>7, <2>8, <2>9, <2>10, <2>11 DEF CallStep
<1>3. CASE Crash
  <2>1. UNCHANGED dumps /\ NoCall.op \notin DumpOps
    BY <1>3 DEF Crash, NoCall, DumpOps
  <2>. QED  BY <1>3, <1>a, <2>1, CrashCalls
<1>4. CASE Boot \/ Environment \/ UNCHANGED vars
  <2>1. UNCHANGED <<dumps, pc, call, result>>
    BY <1>4 DEF Boot, Environment, vars, callVars
  <2>. QED  BY <1>a, <2>1
<1>. QED  BY <1>1, <1>2, <1>3, <1>4 DEF AnyStep

\* A report is about calls that have their answers, and stays what it was.
LEMMA ReportStep ==
  ASSUME Types, PlaceInv, SessionInv, DumpInv, ReportMatchesDump, AnyStep
  PROVE  DumpInv' /\ ReportMatchesDump'
<1>1. \A k \in Calls : call'[k].op \in DumpOps /\ OnlyInItsSecond(k)' =>
        /\ pc'[k] = "fill" => dumps'[Path(k)'] = {}
        /\ result'[k] = "ok" => dumps'[Path(k)'] = call'[k].found
  BY DumpStep
<1>. SUFFICES ASSUME NEW k \in report'.after
              PROVE  /\ pc'[k] \in Done /\ call'[k].op \in DumpOps
                     /\ OnlyInItsSecond(k)' => report'.severity = Severity(call'[k].found)
  BY <1>1 DEF DumpInv, ReportMatchesDump
<1>2. ASSUME UNCHANGED report
      PROVE  /\ pc'[k] \in Done /\ call'[k].op \in DumpOps
             /\ OnlyInItsSecond(k)' => report'.severity = Severity(call'[k].found)
  <2>1. k \in Calls /\ pc[k] \in Done /\ call[k].op \in DumpOps
    BY <1>2 DEF Types, DumpInv
  <2>2. pc'[k] \in Done /\ call'[k] = call[k]
    BY <2>1, DumpCallsStay
  <2>3. OnlyInItsSecond(k)' => OnlyInItsSecond(k)
    BY <2>1, OnlyStays
  <2>. QED  BY <1>2, <2>1, <2>2, <2>3 DEF ReportMatchesDump
<1>3. ASSUME report' = NoReport  PROVE FALSE
  BY <1>3 DEF NoReport
<1>4. ASSUME NEW n \in Calls, Analyze(n), ~UNCHANGED report
      PROVE  /\ pc'[k] \in Done /\ call'[k].op \in DumpOps
             /\ OnlyInItsSecond(k)' => report'.severity = Severity(call'[k].found)
  <2>1. PICK p \in Paths :
          report' = [path |-> p, severity |-> Severity(dumps[p]),
                     after |-> {q \in Calls : Holds(q, p) /\ pc[q] \in Done}]
    BY <1>4 DEF Analyze
  <2>2. /\ report'.severity = Severity(dumps[p])
        /\ k \in Calls /\ Holds(k, p) /\ pc[k] \in Done
    BY <2>1
  <2>3. call[k].op \in DumpOps /\ result[k] = "ok" /\ Path(k) = p
    BY <2>2 DEF Holds, Path
  <2>4. pc'[k] \in Done /\ call'[k] = call[k]
    BY <2>2, DumpCallsStay
  <2>5. ASSUME OnlyInItsSecond(k)'  PROVE dumps[p] = call[k].found
    <3>1. OnlyInItsSecond(k)
      BY <2>2, <2>3, <2>5, OnlyStays
    <3>. QED  BY <2>2, <2>3, <3>1 DEF DumpInv
  <2>. QED  BY <2>2, <2>3, <2>4, <2>5
<1>5. ASSUME NEW n \in Calls, CallStep(n), ~Analyze(n)
      PROVE  UNCHANGED report \/ report' = NoReport
  BY <1>5 DEF CallStep, Call, EnterSession, GrantSession, GetDebugStatus, Gather, Truncate, Fill,
     DumpFails, StoreCert, RejectCert, Record, Drop, SaveCert, SaveKey
<1>6. ASSUME Crash \/ Boot \/ Environment \/ UNCHANGED vars
      PROVE  UNCHANGED report \/ report' = NoReport
  BY <1>6 DEF Crash, Boot, Environment, vars
<1>. QED  BY <1>2, <1>3, <1>4, <1>5, <1>6 DEF AnyStep

-----------------------------------------------------------------------------
(* The invariant and the theorems                                          *)

\* The inductive invariant.
Inv ==
  /\ Types /\ PlaceInv
  /\ SessionInv /\ GrantsDisjoint
  /\ CertInv /\ TlsInv
  /\ DumpInv /\ ReportMatchesDump
  /\ CountInv /\ LossInv

\* It holds when the agent first starts, ...
LEMMA InvInit == Init => Inv
<1>. SUFFICES ASSUME Init PROVE Inv
  OBVIOUS
<1>1. Types
  BY TypesInit
<1>2. /\ pc = [n \in Calls |-> "new"] /\ call = [n \in Calls |-> NoCall]
      /\ result = [n \in Calls |-> "none"] /\ report = NoReport
      /\ store = [cert |-> 0, key |-> 0] /\ lines = <<<<>>>>
      /\ skipped = 0 /\ cut = 0 /\ crashes = 0
  BY DEF Init, AuditInit
<1>3. PlaceInv
  BY <1>2 DEF PlaceInv, Place, NoCall, DumpOps, Dumping
<1>4. SessionInv /\ GrantsDisjoint
  <2>1. \A m \in Modes : grants[m] = <<>>
    BY DEF Init, DiagnosticsInit, NoSessions
  <2>. QED  BY <1>2, <2>1 DEF SessionInv, GrantsDisjoint
<1>5. CertInv
  BY <1>2 DEF CertInv
<1>t. TlsInv
  BY DEF Init, TlsInv
<1>6. DumpInv /\ ReportMatchesDump
  BY <1>2 DEF DumpInv, ReportMatchesDump, NoReport, NoCall, DumpOps
<1>7. CountInv
  <2>1. Cardinality(Ended) \in Nat /\ Cardinality(Checked) \in Nat
    BY SetsOfCalls DEF Ended, Checked
  <2>2. \A m \in Modes : Len(grants[m]) = 0
    BY DEF Init, DiagnosticsInit, NoSessions
  <2>. QED  BY <1>2, <2>1, <2>2 DEF CountInv
<1>8. LossInv
  <2>1. Unsettled = {} /\ Open = 0
    BY <1>2 DEF Unsettled, Open, Done
  <2>2. Cardinality({}) = 0
    BY FS_EmptySet
  <2>. QED  BY <1>2, <2>1, <2>2 DEF LossInv
<1>. QED  BY <1>1, <1>3, <1>4, <1>5, <1>6, <1>7, <1>8, <1>t DEF Inv

\* ... and every step keeps it.
LEMMA InvStep == Inv /\ [Next]_vars => Inv'
<1>. SUFFICES ASSUME Inv, [Next]_vars PROVE Inv'
  OBVIOUS
<1>a. /\ Types /\ PlaceInv /\ SessionInv /\ GrantsDisjoint /\ CertInv /\ TlsInv
      /\ DumpInv /\ ReportMatchesDump /\ CountInv /\ LossInv
  BY DEF Inv
<1>b. AnyStep
  BY DEF AnyStep, Next
<1>1. ReportMatchesDump' /\ DumpInv' /\ CountInv' /\ LossInv' /\ TlsInv'
  BY <1>a, <1>b, ReportStep, CountStep, LossStep, TlsStep
<1>2. ASSUME NEW n \in Calls, CallStep(n), UNCHANGED group
      PROVE  Types' /\ PlaceInv' /\ SessionInv' /\ GrantsDisjoint' /\ CertInv'
  BY <1>a, <1>2, TypesCall, PlaceCall, SessionCall, CertCall
<1>3. ASSUME Crash \/ Boot \/ Environment, UNCHANGED group
      PROVE  Types' /\ PlaceInv' /\ SessionInv' /\ GrantsDisjoint' /\ CertInv'
  BY <1>a, <1>3, TypesRest, PlaceRest, SessionRest, CertRest
<1>4. ASSUME UNCHANGED vars
      PROVE  Types' /\ PlaceInv' /\ SessionInv' /\ GrantsDisjoint' /\ CertInv'
  BY <1>a, <1>4, TypesRest, PlaceRest, SessionRest, CertRest
<1>5. Types' /\ PlaceInv' /\ SessionInv' /\ GrantsDisjoint' /\ CertInv'
  BY <1>2, <1>3, <1>4 DEF Next
<1>. QED  BY <1>1, <1>5 DEF Inv

\* The invariant holds in every state of the request path.
THEOREM Invariance == Spec => []Inv
BY InvInit, InvStep, PTL DEF Spec

(***************************************************************************)
(* The variables of the request path keep their types; no more sessions    *)
(* are granted, no more entries skipped or cut short, than there were      *)
(* calls.                                                                  *)
(***************************************************************************)
THEOREM TypeCorrect == Spec => []TypeOK
<1>1. Inv => TypeOK
  <2>. SUFFICES ASSUME Inv PROVE TypeOK
    OBVIOUS
  <2>1. Types /\ CountInv
    BY DEF Inv
  <2>2. /\ Cardinality(Ended) \in Nat /\ Cardinality(Ended) <= MaxCalls
        /\ Cardinality(Checked) \in Nat /\ Cardinality(Checked) <= MaxCalls
    BY SetsOfCalls DEF Ended, Checked
  <2>3. \A m \in Modes : Len(grants[m]) \in Nat
    BY <2>1 DEF Types
  <2>4. \A m \in Modes : Len(grants[m]) <= MaxCalls
    BY <2>1, <2>2, <2>3, ApiAssumption DEF CountInv
  <2>5. {skipped, cut} \subseteq 0 .. MaxCalls
    BY <2>1, <2>2, ApiAssumption DEF Types, CountInv
  <2>6. \A n \in Calls : call[n].op \in group \cup {"none"} /\ call[n].found \subseteq Messages
    BY <2>1 DEF Types
  <2>. QED  BY <2>1, <2>4, <2>5, <2>6 DEF Types, TypeOK
<1>. QED  BY <1>1, Invariance, PTL

(***************************************************************************)
(* Of the calls that were answered, the audit log lacks at most two for    *)
(* every write that failed, one for every crash and one for every call     *)
(* recorded without a file, whatever calls interleave and however often.   *)
(***************************************************************************)
THEOREM LossBoundedSafe == Spec => []LossBounded
<1>1. Inv => LossBounded
  <2>. SUFFICES ASSUME Inv PROVE LossBounded
    OBVIOUS
  <2>. DEFINE Missing == {n \in Calls : pc[n] \in Done /\ ~Logged(n)}
  <2>1. Types /\ LossInv
    BY DEF Inv
  <2>2. ASSUME NEW n \in Calls, Settled(n)  PROVE Logged(n)
    <3>1. DOMAIN lines = 1 .. Len(lines) /\ Len(lines) \in Nat
      BY <2>1 DEF Types
    <3>. QED  BY <2>2, <3>1 DEF Settled, Logged
  <2>3. Missing \subseteq Unsettled /\ Missing \in SUBSET Calls /\ Unsettled \in SUBSET Calls
    BY <2>2 DEF Unsettled
  <2>. HIDE DEF Missing
  <2>4. /\ Cardinality(Missing) <= Cardinality(Unsettled)
        /\ Cardinality(Missing) \in Nat /\ Cardinality(Unsettled) \in Nat
    BY <2>3, SetsOfCalls
  <2>5. Open \in {0, 1} /\ skipped \in Nat /\ cut \in Nat /\ crashes \in Nat
    BY <2>1, ApiAssumption DEF Types, Open
  <2>6. Cardinality(Missing) <= 2 * cut + crashes + skipped
    BY <2>1, <2>4, <2>5 DEF LossInv
  <2>. QED  BY <2>6 DEF LossBounded, Missing
<1>. QED  BY <1>1, Invariance, PTL

(***************************************************************************)
(* The sessions that one agent process grants in a mode never overlap, and *)
(* none is longer than MAX_SESSION_DURATION_SECS: the lock is held from    *)
(* the check of the old session to the grant of the new one.               *)
(***************************************************************************)
THEOREM GrantsDisjointSafe == Spec => []GrantsDisjoint
<1>1. Inv => GrantsDisjoint
  BY DEF Inv
<1>. QED  BY <1>1, Invariance, PTL

(***************************************************************************)
(* analyze_crash_dump reports the severity of what the call collected that *)
(* was answered with the path, unless another dump has the same name.      *)
(***************************************************************************)
THEOREM ReportMatchesDumpSafe == Spec => []ReportMatchesDump
<1>1. Inv => ReportMatchesDump
  BY DEF Inv
<1>. QED  BY <1>1, Invariance, PTL

(***************************************************************************)
(* The certificate in osctl's store is one that the agent has in full,     *)
(* whoever died on the way.                                                *)
(***************************************************************************)
THEOREM SavedIsStoredSafe == Spec => []SavedIsStored
<1>1. Inv => SavedIsStored
  BY DEF Inv, CertInv, SavedIsStored
<1>. QED  BY <1>1, Invariance, PTL

(***************************************************************************)
(* Every agent that starts with a TLS configuration, and whose system      *)
(* calls all succeed, has in it each certificate that init_bootstrap       *)
(* accepted before.                                                        *)
(***************************************************************************)
THEOREM AcceptedIsLoadedSafe == Spec => AcceptedIsLoaded
<1>1. Inv /\ [Next]_vars =>
        [(~up /\ tls' /\ faults' = faults) => {n \in Calls : Accepted(n)} \subseteq loaded']_vars
  <2>. SUFFICES ASSUME Inv, [Next]_vars, ~UNCHANGED vars, ~up, tls', faults' = faults,
                       NEW n \in Calls, Accepted(n)
                PROVE  n \in loaded'
    OBVIOUS
  <2>1. Types /\ CertInv
    BY DEF Inv
  <2>2. certs[n] = "whole"
    BY <2>1 DEF CertInv, Accepted
  <2>3. CASE Boot
    <3>1. PICK missed \in SUBSET Loadable({}), opens \in BOOLEAN :
            /\ IF missed # {} \/ ~opens THEN Fault ELSE UNCHANGED faults
            /\ \E configured \in BOOLEAN :
                 /\ tls' = configured
                 /\ loaded' = IF configured THEN Loadable(missed) ELSE {}
      BY <2>3 DEF Boot
    <3>2. ~Fault
      BY <2>1 DEF Fault, Types
    <3>3. missed = {} /\ loaded' = Loadable({})
      BY <3>1, <3>2
    <3>. QED  BY <2>2, <3>3 DEF Loadable
  <2>4. CASE (\E k \in Calls : CallStep(k)) \/ Crash \/ Environment
    <3>1. UNCHANGED tls \/ ~tls'
      BY <2>4, TlsOfCalls DEF Crash, Environment, trustVars
    <3>2. FALSE
      BY <3>1 DEF Inv, TlsInv, Types
    <3>. QED  BY <3>2
  <2>. QED  BY <2>3, <2>4 DEF Next
<1>. QED  BY <1>1, Invariance, PTL DEF Spec, AcceptedIsLoaded
=============================================================================
