------------------------------ MODULE AuditLog ------------------------------
(***************************************************************************)
(* The audit log of keel-agent (cmd/keel-agent/src/audit.rs): a JSON-lines *)
(* file opened for appending when the agent starts.  An entry is the       *)
(* number of the call it is about; what a write that failed left of an     *)
(* entry is a Fragment.  A line holds what was written between two line    *)
(* ends, so a reader parses it when it is one whole entry.                 *)
(***************************************************************************)
EXTENDS Integers, Sequences

VARIABLES
  lines,   \* the file: its lines, the last one without its line end
  writer   \* AuditLog.writer holds an open file

auditVars == <<lines, writer>>

Fragment == 0

AuditInit == lines = <<<<>>>> /\ writer = TRUE

\* Text is appended to the last line.
Appended(e) == [lines EXCEPT ![Len(lines)] = Append(@, e)]

\* What a write that fails, or that the process does not survive, leaves:
\* nothing, part of the text, or the text without its line end.
CutShort(e) == {lines, Appended(Fragment), Appended(e)}

\* Mutant: the entry is written without its line end.
WriteNoEnd(e) == lines' = Appended(e)

\* writeln!: the text, then the line end.
WriteLine(e) == lines' = Append(Appended(e), <<>>)

\* open_file, which fails when the directory or the file cannot be opened.
OpenFile(opens) == writer' = opens

(***************************************************************************)
(* record, under the writer's mutex.  Without a file the entry goes to     *)
(* tracing alone.  After a write that fails the file is opened again at    *)
(* once, and the entry is not written again.                               *)
(***************************************************************************)
RecordOk(e) ==
  /\ UNCHANGED writer
  /\ IF writer THEN WriteLine(e) ELSE UNCHANGED lines

RecordFails(e) ==
  /\ writer
  /\ lines' \in CutShort(e)
  /\ \E opens \in BOOLEAN : OpenFile(opens)

\* A reader of the log finds the entry.
Logged(e) == \E i \in DOMAIN lines : lines[i] = <<e>>
=============================================================================
