--------------------------- MODULE UpdateJournal ----------------------------
(***************************************************************************)
(* What scheduled updates promise of a node with two slots and a journal   *)
(* of updates on disk, whatever dies in between.  An update is in the      *)
(* journal before it writes anything; it writes only the slot that the     *)
(* node does not run from; it is journalled as completed only when that    *)
(* slot holds one whole image; and no update that left its first states    *)
(* begins again.  UpdateAgent implements it.                               *)
(***************************************************************************)
EXTENDS Integers

CONSTANTS
  Updates,  \* update ids
  Slots,    \* the two slots
  NoSlot,   \* the node did not come up
  Blocks,   \* the blocks of a slot
  Junk      \* a block of no image

VARIABLES
  entry,    \* the journal: the state of each update
  run,      \* the slot the node runs from
  content   \* what each slot holds

journalVars == <<entry, run, content>>

Ended == {"Completed", "Failed", "RolledBack"}

\* How far an update has come.  A journal that is written late may skip states,
\* and an update that is cancelled too late begins all the same.
Rank(e) ==
  CASE e = "Absent" -> 0 [] e = "Pending" -> 1 [] e = "Cancelled" -> 2
    [] e = "Running" -> 3 [] e \in Ended -> 4

\* An update that ended may still be rolled back, or end again if it was
\* rolled back before it ended; one that failed stays failed.
Advances(e, f) ==
  \/ e = f
  \/ Rank(e) < Rank(f)
  \/ e = "Completed" /\ f = "RolledBack"
  \/ e = "RolledBack" /\ f \in Ended

Begun(e) == e \in {"Running", "RolledBack"}

\* All blocks of the slot come from one image.
WholeSlot(s) ==
  \E i \in {content[s][b] : b \in Blocks} \ {Junk} : \A b \in Blocks : content[s][b] = i

Lost == entry' = [u \in Updates |-> "Absent"]

Init ==
  /\ entry = [u \in Updates |-> "Absent"]
  /\ run \in Slots /\ WholeSlot(run)

Log ==
  /\ \A u \in Updates : Advances(entry[u], entry'[u])
  /\ (\E u \in Updates : entry[u] # "Completed" /\ entry'[u] = "Completed")
       => \E s \in Slots \ {run} : WholeSlot(s)
  /\ UNCHANGED <<run, content>>

Write ==
  /\ \E u \in Updates : Begun(entry[u])
  /\ \E s \in Slots \ {run}, c \in {content'[t] : t \in Slots} :
       content' = [content EXCEPT ![s] = c]
  /\ UNCHANGED <<entry, run>>

\* The agent or the node starts again, perhaps without a journal.
Start ==
  /\ run' \in Slots \cup {NoSlot}
  /\ UNCHANGED entry \/ Lost
  /\ UNCHANGED content

Next == Log \/ Write \/ Start

Spec == Init /\ [][Next]_journalVars
=============================================================================
