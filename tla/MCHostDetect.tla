---------------------------- MODULE MCHostDetect ----------------------------
(***************************************************************************)
(* HostDetect with two history variables: what the channel has heard since *)
(* its last probe was answered, and since it was last declared failed.     *)
(***************************************************************************)
EXTENDS HostDetect

(* Configurations that differ in the size of the table and in the thresholds. *)
TwoTables == {[period |-> 1, queue |-> 3, lost |-> 2, recover |-> 1, timeout |-> 2],
              [period |-> 2, queue |-> 2, lost |-> 1, recover |-> 0, timeout |-> 2]}

VARIABLES silent,   \* checks since an answer was last booked
          heard     \* answers booked since the channel was last not usable

mcvars == <<vars, silent, heard>>

(* A count is capped where the properties no longer tell its values apart. *)
Upto(limit, n) == IF n > limit THEN limit ELSE n

Booked == win'.rsp > win.rsp

MCInit == Init /\ silent = 0 /\ heard = 0

MCCheck == /\ f_BackNetCheck
           /\ silent' = IF chkPeriod' = 0 THEN Upto(ChkLost + 1, silent + 1) ELSE silent
           /\ heard' = IF stat' # stat /\ stat' \in {"ECHO_FAILED", "UNKNOWN"}
                       THEN 0 ELSE heard

MCIcmp == /\ HandleMyIcmp
          /\ silent' = IF Booked THEN 0 ELSE silent
          /\ heard' = IF Booked THEN Upto(ChkQueue, heard + 1) ELSE heard

(* A new configuration restarts both counts: its thresholds are others. *)
MCUpdate == f_ModUpdateCfg /\ silent' = 0 /\ heard' = ChkQueue'

MCWire == /\ HandleArp \/ SetLink \/ ReplacePeer \/ PeerArpReq
          /\ UNCHANGED <<silent, heard>>

MCNext == MCCheck \/ MCIcmp \/ MCUpdate \/ MCWire

MCSpec == MCInit /\ [][MCNext]_mcvars
MCFairSpec == /\ MCSpec
              /\ WF_mcvars(MCCheck) /\ WF_mcvars(MCIcmp)
              /\ WF_mcvars(HandleArp /\ UNCHANGED <<silent, heard>>)
-----------------------------------------------------------------------------
(* A dead channel is given up in time: f_BackNetCheck keeps it in ECHO_OK for at
   most m_nChkLostNum checks after the last answer, even though answers are only
   looked for slot by slot and ECHO_CHECKING may hand over untimed probes. *)
DetectsFailure == stat = "ECHO_OK" => silent <= ChkLost

(* A channel comes (back) into use only on new answers: as many as separate the
   loss that condemned it from the loss recovery tolerates were booked since it
   was last failed or unknown, so old answers in the table never revive it. *)
FreshEvidence == [][stat' = "ECHO_OK" /\ stat # "ECHO_OK" => heard >= cfg.lost - cfg.recover]_mcvars

(* A probe counted lost stays lost until a new probe overwrites its slot: an
   answer that comes after the time-out never turns the loss back. *)
LossIsFinal ==
  [][\A k \in SlotsOf(win) \cap SlotsOf(win') :
       win.items[k].fate = "lost" => win'.items[k].fate # "got"]_mcvars

(* Once the wire stays good the channel comes back into use and stays there, even
   if the device behind the peer's address was replaced meanwhile. *)
Recovers == <>[](link = "good") => <>[](stat = "ECHO_OK")
=============================================================================
