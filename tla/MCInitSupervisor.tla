-------------------------- MODULE MCInitSupervisor --------------------------
(***************************************************************************)
(* Instances of InitSupervisor for TLC, which give the constants in their  *)
(* configurations.                                                         *)
(***************************************************************************)
EXTENDS InitSupervisor
=============================================================================
