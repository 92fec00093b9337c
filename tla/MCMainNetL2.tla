---------------------------- MODULE MCMainNetL2 -----------------------------
(***************************************************************************)
(* MainNetL2 with two history variables: for how many checks the gateway   *)
(* has been silent, and which hosts the probe cannot set right any more.   *)
(***************************************************************************)
EXTENDS MainNetL2

MCConfigs == {[period |-> 2, queue |-> 1, lost |-> 1, recover |-> 0, timeout |-> 3]}

VARIABLES silent,  \* checks since an ARP packet of the gateway arrived
          stray    \* spoofed hosts of which the probe has no record

mcvars == <<vars, silent, stray>>

MCInit == Init /\ silent = 0 /\ stray = {}

(* A host goes astray when it is answered while the ARP table has no room for it, or
   when an update resets the gateway's record while the host is spoofed. *)
Astray ==
  LET unrecorded == spoofed' \ (spoofed \cup arpTable')
      dropped == IF gwStat = "ARP_FAILED" /\ gwStat' = "UNKNOWN" THEN spoofed ELSE {}
  IN stray' = spoofed' \cap (stray \cup unrecorded \cup dropped)

MCCheck == f_MainNetCheck /\ silent' = (IF silent < 2 THEN silent + 1 ELSE silent) /\ Astray

MCGatewayArp == HandleGatewayArp /\ silent' = 0 /\ Astray

MCHostArp == (\E h \in Hosts : HandleHostArp(h)) /\ Astray /\ UNCHANGED silent

MCIcmp == HandleMyIcmp /\ Astray /\ UNCHANGED silent

MCUpdate == f_ModUpdateCfg /\ Astray /\ UNCHANGED silent

MCWire == (SetLink \/ ReplaceGateway \/ GatewayArp) /\ Astray /\ UNCHANGED silent

MCNext == MCCheck \/ MCGatewayArp \/ MCHostArp \/ MCIcmp \/ MCUpdate \/ MCWire

MCSpec == MCInit /\ [][MCNext]_mcvars
MCFairSpec == /\ MCSpec
              /\ WF_mcvars(MCCheck) /\ WF_mcvars(MCGatewayArp) /\ WF_mcvars(MCIcmp)
-----------------------------------------------------------------------------
(* A gateway that falls silent is noticed at the second check: the answer a check
   found in the table's one slot never counts for the next check, not even across
   a reset of the record, which keeps the table. *)
DetectsGatewayLoss == gwStat = "ARP_OK" => silent <= 1

(* The probe gives the gateway's address back: when the gateway is not lost, no
   host it has a record of still sends the gateway's packets to the probe. *)
SpoofUndone == gwStat # "ARP_FAILED" => spoofed \subseteq stray

(* The peer's MAC was copied from a gateway that has been replaced since. *)
StaleRoute == mac \notin {NoMac, gwTrue}

(* Once the wire stays good the main network comes back into use for good, unless
   the gateway was replaced so fast that it was never declared lost: the peer is
   then probed at the old MAC, which nothing ages. *)
Recovers == <>[](link = "good") => <>[](stat = "ECHO_OK" \/ StaleRoute)
=============================================================================
