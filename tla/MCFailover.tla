----------------------------- MODULE MCFailover -----------------------------
(***************************************************************************)
(* Failover with two history variables: the packets each back-up network   *)
(* was to buffer, of those offered since the channel in use came into use, *)
(* and those of them whose push gave up.                                   *)
(***************************************************************************)
EXTENDS Failover, SequencesExt

VARIABLES since, dropped

mcvars == <<vars, since, dropped>>
None == [n \in BackNets |-> <<>>]

MCInit == Init /\ since = None /\ dropped = [n \in BackNets |-> {}]

(* A push has given up only after so many reads that ReadLimit packets are gone. *)
GaveUp(n) == /\ nPackets' \notin ToSet(queue'[n].pkts)
             /\ Len(queue[n].pkts) - Len(queue'[n].pkts) >= ReadLimit

Noted(pass) ==
  LET buffers == {n \in pass \cap Buffering(peerStat) : mode = "ASYNC"} IN
  /\ since' = [n \in BackNets |->
                 IF n \in buffers THEN Append(since[n], nPackets') ELSE since[n]]
  /\ dropped' = [n \in BackNets |->
                   IF n \in buffers /\ GaveUp(n) THEN dropped[n] \cup {nPackets'} ELSE dropped[n]]

MCTimer == /\ TS_HandleTimer /\ UNCHANGED dropped
           /\ since' = IF peerStat' = peerStat THEN since ELSE None
MCUnicast == \E pass \in SUBSET BackNets : TS_ForwardIpOut_Unicast(pass) /\ Noted(pass)
MCMulticast == TS_ForwardIpOut_Multicast /\ UNCHANGED <<since, dropped>>
MCArp == \E pass \in SUBSET BackNets : TS_ForwardArpOut(pass) /\ Noted(pass)
MCUpdate == TS_UpdateConfig /\ since' = None /\ UNCHANGED dropped

MCNext == MCTimer \/ MCUnicast \/ MCMulticast \/ MCArp \/ MCUpdate

MCSpec == MCInit /\ [][MCNext]_mcvars
-----------------------------------------------------------------------------
(* What a switch from a channel that fails to a back-up network below it may lose of
   the recent packets: the newest ones the network was to buffer for the channel that
   failed, as many as its buffer always has room beside, are sent by the step that
   switches, all but those whose own push gave up after ReadLimit packets were gone. *)
NoGap ==
  [][\A n \in BackNets :
       peerStat' = n /\ peerStat \in {"main", "net1"} \ {n}
         => LET m == IF Len(since[n]) < Keep THEN Len(since[n]) ELSE Keep
            IN ToSet(Newest(since[n], m)) \ dropped[n] \subseteq ToSet(sent'[n])]_mcvars
=============================================================================
