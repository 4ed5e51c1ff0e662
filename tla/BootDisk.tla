------------------------------ MODULE BootDisk ------------------------------
(***************************************************************************)
(* The A/B disk of a KeelOS node (cmd/keel-agent/src/disk.rs).             *)
(*                                                                         *)
(* An OS image is written to a slot in NBlocks chunks, so a slot holds a   *)
(* sequence of blocks, each tagged with the image it came from.  A slot    *)
(* can be booted into a working system only when all its blocks come from  *)
(* one image.  Junk stands for any bytes that belong to no image: a blank  *)
(* slot, a corrupted download, a patch applied to the wrong base.          *)
(***************************************************************************)
EXTENDS Integers, FiniteSets

CONSTANTS
  Images,         \* OS images that exist
  Factory,        \* the image the node was installed with
  Junk,           \* bytes of no image
  NBlocks,        \* chunks per image
  DiskFaults,     \* sgdisk, reboot and the rollback state file may fail
  ActiveFallback  \* the command line may not tell the root's partition

ASSUME DiskAssumption ==
  /\ Factory \in Images
  /\ Junk \notin Images
  /\ NBlocks \in Nat \ {0}
  /\ DiskFaults \in BOOLEAN
  /\ ActiveFallback \in BOOLEAN

VARIABLES
  booted,    \* the slot the node runs from, NoSlot when it could not boot
  slot,      \* what each slot holds, block by block
  bootable,  \* the slots whose legacy_boot GPT attribute is set
  previous   \* RollbackState.previous_partition in rollback_state.json

diskVars == <<booted, slot, bootable, previous>>

Slots == {"A", "B"}
NoSlot == "none"
Blocks == 1 .. NBlocks
Bytes == Images \cup {Junk}

DiskTypeOK ==
  /\ booted \in Slots \cup {NoSlot}
  /\ slot \in [Slots -> [Blocks -> Bytes]]
  /\ bootable \in SUBSET Slots
  /\ previous \in Slots \cup {NoSlot}

\* A fresh node runs the factory image from slot A; slot B is blank.
DiskInit ==
  /\ booted = "A"
  /\ slot = [s \in Slots |-> [b \in Blocks |-> IF s = "A" THEN Factory ELSE Junk]]
  /\ bootable = {"A"}
  /\ previous = NoSlot

-----------------------------------------------------------------------------

Other(s) == IF s = "A" THEN "B" ELSE "A"

\* The whole of image i is in slot s.
Holds(s, i) == \A b \in Blocks : slot[s][b] = i

\* Slot s holds one complete image, whichever it is.
Whole(s) == \E i \in Images : Holds(s, i)

\* The node is running: the firmware found a slot and the kernel came up.
Up == booted # NoSlot /\ Whole(booted)

(***************************************************************************)
(* What get_active_partition may answer.  A root= parameter names the      *)
(* booted slot.  When there is none and no device is mounted on /, as with *)
(* an initramfs booted without root=, or when its PARTUUID link cannot be  *)
(* read, the code assumes slot A.                                          *)
(***************************************************************************)
ActivePartition == {booted} \cup (IF ActiveFallback THEN {"A"} ELSE {})

\* Mutant: the inactive slot is the one not flagged for boot.
InactiveByFlag == Slots \ bootable

InactivePartition == {Other(a) : a \in ActivePartition}

\* bsdiff::patch on the active slot: the right base gives the image the delta
\* was made for, any other base gives bytes of no image.
Patch(a, base, image) == IF Holds(a, base) THEN image ELSE Junk

WriteBlock(s, b, bytes) == slot' = [slot EXCEPT ![s][b] = bytes]

\* switch_boot_partition, first half: a failing `clear` is only a warning.
ClearBootFlag(s) ==
  bootable' \in {bootable \ {s}} \cup (IF DiskFaults THEN {bootable} ELSE {})

\* switch_boot_partition, second half.
SetBootFlag(s) == bootable' = bootable \cup {s}

\* Mutant: the slot just written is recorded.
RecordInactive ==
  previous' \in InactivePartition \cup (IF DiskFaults THEN {previous} ELSE {})

\* record_active_partition_for_rollback; a failure to save is only a warning.
RecordActive ==
  previous' \in ActivePartition \cup (IF DiskFaults THEN {previous} ELSE {})

\* The end of rollback_to_previous_partition.
ForgetPrevious == previous' = NoSlot

(***************************************************************************)
(* External: the firmware boots a slot whose flag is set, any of them when *)
(* both are, and nothing when none is.                                     *)
(***************************************************************************)
BootSlot ==
  booted' \in (IF bootable = {} THEN {NoSlot} ELSE bootable)
=============================================================================
