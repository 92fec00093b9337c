----------------------------- MODULE UpdateState ----------------------------
(***************************************************************************)
(* The state of a configuration update, and what must be true of it while  *)
(* the threads of module ConfigUpdate change it.  It stands apart because  *)
(* Threads_proofs proves it beside what it proves of another component.    *)
(***************************************************************************)
EXTENDS Integers

VARIABLES files,     \* number of the configuration files on disk
          sound,     \* whether f_ReadConfigFile accepts them
          update,    \* m_nUpdateCfg
          cmd,       \* command thread: "idle", or "reset" once it saw 100 or 101
          pkt,       \* packet thread: its place in TS_UpdateConfig, or "idle"
          new,       \* the configuration TS_UpdateConfig has read
          inForce,   \* the configuration of the modules and of m_piTsCfg
          task,      \* m_nTaskRun
          stat,      \* statistics thread: its place in svc
          started,   \* history: the files when m_nUpdateCfg was last reset
          before,    \* history: the configuration in force then
          acked      \* history: the files when a request to apply was last answered
-----------------------------------------------------------------------------
(* Pause and svc exclude each other: while TS_UpdateConfig rebuilds the modules
   (vectors are erased, hosts deleted) the statistics thread is not reading them. *)
ModulesQuiet == pkt \in {"modules", "continue"} => stat # "reading"

(* The progress the operator polls (OnCmd_CheckUpdateCfg) is honest about the
   update it was reset for: from 98 on a configuration at least as new as the files
   of that moment is in force, and at 101 the one of that moment still is. *)
ProgressHonest ==
  /\ update \in {98, 99, 100} => inForce >= started
  /\ update = 101 => inForce = before
=============================================================================
