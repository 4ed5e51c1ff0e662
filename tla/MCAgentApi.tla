----------------------------- MODULE MCAgentApi -----------------------------
(***************************************************************************)
(* An instance of AgentApi for TLC.  The groups of methods share the audit *)
(* log, the clock and the agent process, and no other state.               *)
(***************************************************************************)
EXTENDS AgentApi

MCGroups == {{"enable_debug_mode", "enable_recovery_mode", "get_debug_status"},
             {"collect_crash_dump", "analyze_crash_dump"},
             {"init_bootstrap", "reboot"}, {"create_system_snapshot"}}
=============================================================================
