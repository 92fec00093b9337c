---------------------------- MODULE MCBackNetEoL3 ---------------------------
(***************************************************************************)
(* BackNetEoL3 with a history variable: for how many checks of the peer no *)
(* answer was booked.                                                      *)
(***************************************************************************)
EXTENDS BackNetEoL3

MCConfigs == {[period |-> 2, queue |-> 1, lost |-> 1, recover |-> 0, timeout |-> 3],
              [period |-> 1, queue |-> 2, lost |-> 2, recover |-> 1, timeout |-> 2]}

VARIABLE silent   \* checks of the peer since an answer was last booked

mcvars == <<vars, silent>>

MCInit == Init /\ silent = 0

(* Capped where DetectsFailure no longer tells its values apart. *)
Cap(n) == IF n > cfg.lost + 1 THEN cfg.lost + 1 ELSE n

(* A check of the peer always sends it a probe. *)
MCCheck == /\ f_BackNetCheck
           /\ silent' = IF echoSeq' # echoSeq THEN Cap(silent + 1) ELSE silent

MCIcmp == HandleMyIcmp /\ silent' = IF win'.rsp > win.rsp THEN 0 ELSE silent

(* A new configuration restarts the count: its thresholds are others. *)
MCUpdate == f_ModUpdateCfg /\ silent' = 0

MCWire == (HandleArp \/ SetLink \/ ReplaceGateway \/ GatewayArp) /\ UNCHANGED silent

MCNext == MCCheck \/ MCIcmp \/ MCUpdate \/ MCWire

MCSpec == MCInit /\ [][MCNext]_mcvars
MCFairSpec == /\ MCSpec
              /\ SF_mcvars(MCCheck) /\ WF_mcvars(MCIcmp)
              /\ WF_mcvars(HandleArp /\ UNCHANGED silent)
-----------------------------------------------------------------------------
(* A dead back-up network is given up in time: the peer stays in ECHO_OK for at most
   m_nChkLostNum checks after its last answer, whatever happens to the gateway. *)
DetectsFailure == stat = "ECHO_OK" => silent <= cfg.lost
=============================================================================
