---------------------------- MODULE ConfigUpdate ----------------------------
(***************************************************************************)
(* How a new configuration is put in force while the probe runs.  Three    *)
(* threads share it:                                                       *)
(*   - the command thread, which accepts OnCmd_ApplyUpdateCfg              *)
(*     (CConfigAndCtrlDoCmd.cpp) and resets the progress m_nUpdateCfg;     *)
(*   - the packet thread, which moves the progress at every timer          *)
(*     (PushPacket) and rebuilds all modules in TS_UpdateConfig            *)
(*     (FluxControlObserver.cpp), parking the third thread meanwhile;      *)
(*   - the statistics thread, which reads the modules (TS_StatMgmt.cpp).   *)
(* There is no lock: m_nUpdateCfg and m_nTaskRun are plain integers, and   *)
(* each read or write of them is a step here.  Requests are handled one at *)
(* a time.  A configuration is the number of the files it was read from.   *)
(***************************************************************************)
EXTENDS UpdateState

CONSTANT MaxWrites   \* bound: how often the configuration files are rewritten

ASSUME BoundsOK == MaxWrites \in Nat

pktVars == <<pkt, new, inForce>>
history == <<started, before, acked>>
vars == <<files, sound, update, cmd, pkt, new, inForce, task, stat, started, before, acked>>

Progress == {0, 1, 98, 99, 100, 101}
-----------------------------------------------------------------------------
Init == /\ files = 0 /\ sound = TRUE
        /\ update = 100 /\ cmd = "idle"
        /\ pkt = "idle" /\ new = 0 /\ inForce = 0
        /\ task = 1 /\ stat = "top"
        /\ started = 0 /\ before = 0 /\ acked = 0
-----------------------------------------------------------------------------
(* The operator's side *)

WriteFiles == /\ files < MaxWrites
              /\ files' = files + 1
              /\ sound' \in BOOLEAN
              /\ UNCHANGED <<update, cmd, pktVars, task, stat, history>>

ApplyTest_Always == /\ cmd = "idle"
                    /\ cmd' = "reset"
                    /\ UNCHANGED <<files, sound, update, pktVars, task, stat, history>>

(* OnCmd_ApplyUpdateCfg: during an update the request is answered with success and
   nothing is done. *)
ApplyTest == /\ cmd = "idle"
             /\ IF 100 <= update THEN cmd' = "reset" /\ UNCHANGED acked
                                 ELSE cmd' = cmd /\ acked' = files
             /\ UNCHANGED <<files, sound, update, pktVars, task, stat, started, before>>

ApplyReset == /\ cmd = "reset"
              /\ update' = 0
              /\ cmd' = "idle"
              /\ started' = files /\ before' = inForce /\ acked' = files
              /\ UNCHANGED <<files, sound, pktVars, task, stat>>
-----------------------------------------------------------------------------
(* The packet thread: one timer (PushPacket) *)

(* The progress moves by one; at 100 the timer runs the detections and the switch
   (module Failover), at 101 it does nothing. *)
Tick == /\ pkt = "idle" /\ update \in {0, 98, 99}
        /\ update' = update + 1
        /\ UNCHANGED <<files, sound, cmd, pktVars, task, stat, history>>

(* TS_UpdateConfig, f_ReadConfigFile *)
ReadConfig ==
  /\ pkt = "idle" /\ update = 1
  /\ IF sound THEN pkt' = "pause" /\ new' = files /\ UNCHANGED update
              ELSE update' = 101 /\ UNCHANGED <<pkt, new>>
  /\ UNCHANGED <<files, sound, cmd, inForce, task, stat, history>>

(* CTS_StatMgmt::Pause *)
Pause == /\ pkt = "pause"
         /\ task' = 2
         /\ pkt' = "wait"
         /\ UNCHANGED <<files, sound, update, cmd, new, inForce, stat, history>>

PauseWait_NoWait == /\ pkt = "wait"
                    /\ pkt' = "modules"
                    /\ UNCHANGED <<files, sound, update, cmd, new, inForce, task, stat, history>>

PauseWait == /\ pkt = "wait" /\ task = 3
             /\ pkt' = "modules"
             /\ UNCHANGED <<files, sound, update, cmd, new, inForce, task, stat, history>>

(* f_ModUpdateCfg of every module *)
UpdateModules == /\ pkt = "modules"
                 /\ inForce' = new
                 /\ pkt' = "continue"
                 /\ UNCHANGED <<files, sound, update, cmd, new, task, stat, history>>

(* CTS_StatMgmt::Continue *)
Continue == /\ pkt = "continue"
            /\ task' = 1
            /\ pkt' = "done"
            /\ UNCHANGED <<files, sound, update, cmd, new, inForce, stat, history>>

(* The old configuration is deleted, m_piTsCfg replaced and success recorded. *)
Finish == /\ pkt = "done"
          /\ pkt' = "idle"
          /\ update' = 98
          /\ UNCHANGED <<files, sound, cmd, new, inForce, task, stat, history>>

PacketThread == \/ Tick
                \/ ReadConfig
                \/ Pause
                \/ PauseWait
                \/ UpdateModules
                \/ Continue
                \/ Finish
-----------------------------------------------------------------------------
(* The statistics thread: svc *)

StatStep(from, to) == /\ stat = from
                      /\ stat' = to
                      /\ UNCHANGED <<files, sound, update, cmd, pktVars, history>>

StatSwitch_NoPause == task \in {1, 2} /\ StatStep("top", "reading") /\ UNCHANGED task

(* The switch on m_nTaskRun: 1 reads the modules, 2 acknowledges, 3 sleeps. *)
StatSwitch == \/ task = 1 /\ StatStep("top", "reading") /\ UNCHANGED task
              \/ task = 2 /\ StatStep("top", "acknowledge") /\ UNCHANGED task

StatReadDone == StatStep("reading", "top") /\ UNCHANGED task

StatAcknowledge == StatStep("acknowledge", "top") /\ task' = 3

StatThread == StatSwitch \/ StatReadDone \/ StatAcknowledge
-----------------------------------------------------------------------------
Next == \/ WriteFiles
        \/ ApplyTest
        \/ ApplyReset
        \/ PacketThread
        \/ StatThread

(* Timers keep coming and no thread is starved. *)
Fairness == WF_vars(PacketThread) /\ WF_vars(StatThread) /\ WF_vars(ApplyReset)

Spec == Init /\ [][Next]_vars
FairSpec == Spec /\ Fairness
-----------------------------------------------------------------------------
(* The states of the three threads and what they share are well formed. *)
TypeOK ==
  /\ files \in 0 .. MaxWrites /\ sound \in BOOLEAN
  /\ update \in Progress /\ cmd \in {"idle", "reset"}
  /\ pkt \in {"idle", "pause", "wait", "modules", "continue", "done"}
  /\ new \in 0 .. MaxWrites /\ inForce \in 0 .. MaxWrites
  /\ task \in {1, 2, 3} /\ stat \in {"top", "reading", "acknowledge"}
  /\ started \in 0 .. MaxWrites /\ before \in 0 .. MaxWrites /\ acked \in 0 .. MaxWrites

(* An update that was started comes to an end, however the threads interleave: the
   hand-shake on m_nTaskRun never leaves the packet thread waiting for good. *)
UpdateEnds == update = 0 ~> update \in {100, 101}

(* m_nUpdateCfg = 100 tells the operator that the update he asked for is complete:
   the files of the last request that was answered are then in force. *)
AppliedWhenComplete == update = 100 /\ cmd = "idle" => inForce >= acked
=============================================================================
