------------------------------ MODULE MainNetL2 ------------------------------
(***************************************************************************)
(* How the main network is watched in L2 mode, and what the probe does for *)
(* the hosts of its network meanwhile: CTS_MainNetL2 in                    *)
(* ts_module/TS_MainNetL2.cpp, all in the packet thread.                   *)
(*                                                                         *)
(* Every second f_MainNetCheck asks the gateway for its MAC and moves the  *)
(* state of the gateway from a probe table of one slot.  Only while the    *)
(* gateway answers does f_PeerDetect probe the peer behind it, as in       *)
(* HostDetect.  While the gateway is lost the probe takes its place: it    *)
(* gives the hosts it has heard of its own MAC for the gateway's address   *)
(* (f_ArpSpoof), so that their packets reach it and can leave through a    *)
(* back-up channel, and it answers their ARP requests; when the gateway is *)
(* back it gives them the gateway's MAC again (f_ArpRestore).              *)
(*                                                                         *)
(* TS_MainNetL3.cpp repeats this code without what concerns the hosts: in  *)
(* L3 mode the probe detects as here when no host ever sends.              *)
(*                                                                         *)
(* The wire is "good" (what is sent arrives and is answered before the     *)
(* next check) or "lossy" (anything may be late, duplicated or lost, all   *)
(* of it too).  ARP packets to hosts on the same network always arrive.    *)
(***************************************************************************)
EXTENDS Integers, TestWindow

CONSTANTS Configs,     \* configurations of the main network
          Macs, NoMac, \* MACs the gateway may have; the six zero bytes
          SeqSpace,    \* m_nChkEchoSeq counts modulo this (2^16 in the code)
          Hosts,       \* hosts of the network, without gateway and probe
          TableLimit,  \* entries of m_pArpTable (1000 in the code)
          MaxUpdates   \* bound: configuration updates

ConfigType == [period : Nat \ {0}, queue : Nat \ {0}, lost : Nat \ {0},
               recover : Nat, timeout : Nat]

(* The configurations the program is meant for, as in HostDetect. *)
ASSUME MainConfigsOK ==
  /\ Configs # {} /\ Configs \subseteq ConfigType
  /\ \A c \in Configs : c.lost <= c.queue /\ c.recover < c.lost /\ c.queue < SeqSpace
ASSUME MainConstantsOK ==
  /\ SeqSpace \in Nat /\ MaxUpdates \in Nat /\ TableLimit \in Nat
  /\ NoMac \notin Macs /\ Macs # {}

VARIABLES cfg,       \* m_pTsCfg->m_iMainNetCfg
          chkPeriod, chkReply, echoSeq,  \* m_nChkPeriod, m_nChkReplyNum, m_nChkEchoSeq
          gwStat, gwMac, gwWin,          \* m_piGatewayDct: state, MAC, probe table
          stat, mac, timer, win,         \* m_vtPeerDct[0], likewise
          arpTable,  \* hosts in m_pArpTable
          spoofed,   \* hosts that have the probe's MAC for the gateway's address
          link, gwTrue,  \* the wire, and the MAC of the device at the gateway's address
          arp,       \* sender MAC of the gateway's ARP packet under way, or NoMac
          net,       \* ids of the echo answers under way to us
          updates    \* configuration updates so far

cfgVars  == <<cfg, chkReply, updates>>
gwVars   == <<gwStat, gwMac, gwWin>>
peerVars == <<chkPeriod, echoSeq, stat, mac, timer, win, net>>
hostVars == <<arpTable, spoofed>>
vars == <<cfgVars, gwVars, peerVars, hostVars, link, gwTrue, arp>>

GatewayStats == {"UNKNOWN", "ARP_CHECKING", "ARP_OK", "ARP_FAILED"}
PeerStats == {"UNKNOWN", "ECHO_CHECKING", "ECHO_OK", "ECHO_FAILED"}
EchoIds == 0 .. SeqSpace - 1
ArpIds == {0, 1}  \* every ARP request is booked as number 1
-----------------------------------------------------------------------------
Init == /\ cfg \in Configs
        /\ chkPeriod = cfg.period /\ chkReply = cfg.queue - cfg.recover /\ echoSeq = 0
        /\ gwStat = "UNKNOWN" /\ gwMac = NoMac /\ gwWin = InitWindow(1)
        /\ stat = "UNKNOWN" /\ mac = NoMac /\ timer = 0 /\ win = InitWindow(cfg.queue)
        /\ arpTable = {} /\ spoofed = {}
        /\ link \in {"good", "lossy"} /\ gwTrue \in Macs
        /\ arp = NoMac /\ net = {}
        /\ updates = 0
-----------------------------------------------------------------------------
(* The network *)

(* The answers under way after probes ids went to the MAC m, for a table w; the
   others find no slot in f_HandleMyIcmp. *)
UnderWay(ids, m, w) == (IF m = gwTrue THEN net \cup ids ELSE net) \cap IdsIn(w)

(* On a good wire what is asked is answered before the next check. *)
Prompt == link = "good" => /\ net = {}
                           /\ arp = NoMac \/ Overdue(gwWin) = {}

SetLink == /\ link' \in {"good", "lossy"} \ {link}
           /\ UNCHANGED <<cfgVars, gwVars, peerVars, hostVars, gwTrue, arp>>

ReplaceGateway == /\ link = "lossy"
                  /\ gwTrue' \in Macs \ {gwTrue}
                  /\ UNCHANGED <<cfgVars, gwVars, peerVars, hostVars, link, arp>>

(* The gateway sends an ARP packet on its own account. *)
GatewayArp == /\ arp # gwTrue
              /\ arp' = gwTrue
              /\ UNCHANGED <<cfgVars, gwVars, peerVars, hostVars, link, gwTrue>>
-----------------------------------------------------------------------------
(* What arrives *)

(* f_HandleArp, sent by the gateway: any ARP packet counts as an answer. *)
HandleGatewayArp ==
  /\ arp # NoMac
  /\ gwWin' = OnGetOneRsp(gwWin, 1)
  /\ gwMac' = arp
  /\ arp' = NoMac
  /\ UNCHANGED <<cfgVars, gwStat, peerVars, hostVars, link, gwTrue>>

(* InsertArpItem: a full table takes no new host. *)
InsertArpItem(h) == IF Cardinality(arpTable) < TableLimit THEN arpTable \cup {h} ELSE arpTable

(* f_HandleArp, sent by a host.  A request for the gateway is answered with the
   probe's MAC while the gateway is lost; the gateway may answer it after us. *)
HandleHostArp(h) ==
  /\ arpTable' = InsertArpItem(h)
  /\ spoofed' \in {spoofed, spoofed \ {h}}
                    \cup (IF gwStat = "ARP_FAILED" THEN {spoofed \cup {h}} ELSE {})
  /\ UNCHANGED <<cfgVars, gwVars, peerVars, link, gwTrue, arp>>

(* f_HandleMyIcmp: an echo answer; a lossy wire may duplicate it. *)
HandleMyIcmp ==
  \E i \in net :
    /\ win' = OnGetOneRsp(win, i)
    /\ \/ net' = net \ {i}
       \/ link = "lossy" /\ net' = net
    /\ UNCHANGED <<cfgVars, gwVars, hostVars, chkPeriod, echoSeq, stat, mac, timer,
                   link, gwTrue, arp>>
-----------------------------------------------------------------------------
(* f_PeerDetect, one operator per state of the peer (as in TS_MainNetL3.cpp) *)

(* f_SendEchoReq and OnSendOneRequest on the table w. *)
f_SendEchoReq(w) == /\ echoSeq' = (echoSeq + 1) % SeqSpace
                    /\ win' = OnSendOneRequest(w, echoSeq')
                    /\ net' = UnderWay({echoSeq'}, mac, win')

(* The peer is reached through the MAC the gateway has now. *)
PeerUnknown == /\ stat = "UNKNOWN"
               /\ stat' = "ECHO_CHECKING" /\ timer' = 0 /\ mac' = gwMac
               /\ echoSeq' = (echoSeq + cfg.queue) % SeqSpace
               /\ win' = FillWindow(win, echoSeq, SeqSpace)
               /\ net' = UnderWay(IdsIn(win'), mac', win')

PeerChecking ==
  /\ stat = "ECHO_CHECKING"
  /\ \/ /\ chkReply <= GetRspNum(win)
        /\ timer' = timer + cfg.period
        /\ stat' = IF timer' >= cfg.timeout THEN "ECHO_OK" ELSE stat
        /\ f_SendEchoReq(win)
     \/ /\ chkReply > GetRspNum(win)
        /\ LET w == CheckTimeout(win) IN
           /\ stat' = IF cfg.lost <= w.lost THEN "ECHO_FAILED" ELSE stat
           /\ f_SendEchoReq(w)
        /\ UNCHANGED timer
  /\ UNCHANGED mac

PeerOk == /\ stat = "ECHO_OK"
          /\ LET w == CheckTimeout(win) IN
             /\ stat' = IF cfg.lost <= w.lost THEN "ECHO_FAILED" ELSE stat
             /\ f_SendEchoReq(w)
          /\ UNCHANGED <<mac, timer>>

PeerFailed == /\ stat = "ECHO_FAILED"
              /\ IF chkReply <= GetRspNum(win)
                 THEN stat' = "ECHO_CHECKING" /\ timer' = 0
                 ELSE UNCHANGED <<stat, timer>>
              /\ f_SendEchoReq(win)
              /\ UNCHANGED mac

f_PeerDetect == \/ /\ chkPeriod + 1 < cfg.period
                   /\ chkPeriod' = chkPeriod + 1
                   /\ UNCHANGED <<echoSeq, stat, mac, timer, win, net>>
                \/ /\ chkPeriod + 1 >= cfg.period
                   /\ chkPeriod' = 0
                   /\ PeerUnknown \/ PeerChecking \/ PeerOk \/ PeerFailed
-----------------------------------------------------------------------------
(* f_MainNetCheck, one action per state of the gateway *)

(* f_SendArpReq and OnSendOneRequest on the gateway's table w. *)
f_SendArpReq(w) == /\ gwWin' = OnSendOneRequest(w, 1)
                   /\ \/ arp' = gwTrue
                      \/ link = "lossy" /\ arp' = arp

f_ArpSpoof == spoofed' = spoofed \cup arpTable
f_ArpRestore == spoofed' = spoofed \ arpTable

(* The checks that end in ARP_OK probe the peer, and every fifth second drop the
   hosts that have been silent for a minute (CheckTimeout_DataTime). *)
GatewayServes == /\ gwStat' = "ARP_OK"
                 /\ f_PeerDetect
                 /\ arpTable' \in SUBSET arpTable
                 /\ UNCHANGED spoofed

GatewayLost_KeepsPeer == /\ gwStat' = "ARP_FAILED"
                         /\ f_ArpSpoof
                         /\ UNCHANGED <<peerVars, arpTable>>

GatewayLost == /\ gwStat' = "ARP_FAILED" /\ stat' = "UNKNOWN"
               /\ f_ArpSpoof
               /\ UNCHANGED <<chkPeriod, echoSeq, mac, timer, win, net, arpTable>>

CheckGatewayUnknown == /\ Prompt /\ gwStat = "UNKNOWN"
                       /\ gwStat' = "ARP_CHECKING" /\ stat' = "UNKNOWN"
                       /\ f_SendArpReq(gwWin)
                       /\ UNCHANGED <<cfgVars, gwMac, chkPeriod, echoSeq, mac, timer, win,
                                      net, hostVars, link, gwTrue>>

CheckGatewayChecking ==
  /\ Prompt /\ gwStat = "ARP_CHECKING"
  /\ \/ /\ GetRspNum(gwWin) >= 1
        /\ GatewayServes
        /\ f_SendArpReq(gwWin)
     \/ /\ GetRspNum(gwWin) < 1
        /\ LET w == CheckTimeout(gwWin) IN
           /\ IF w.lost >= 1 THEN GatewayLost ELSE UNCHANGED <<gwStat, peerVars, hostVars>>
           /\ f_SendArpReq(w)
  /\ UNCHANGED <<cfgVars, gwMac, link, gwTrue>>

CheckGatewayOk_NoTimeout ==
  /\ Prompt /\ gwStat = "ARP_OK"
  /\ IF gwWin.lost >= 1 THEN GatewayLost ELSE GatewayServes
  /\ f_SendArpReq(gwWin)
  /\ UNCHANGED <<cfgVars, gwMac, link, gwTrue>>

CheckGatewayOk ==
  /\ Prompt /\ gwStat = "ARP_OK"
  /\ LET w == CheckTimeout(gwWin) IN
     /\ IF w.lost >= 1 THEN GatewayLost ELSE GatewayServes
     /\ f_SendArpReq(w)
  /\ UNCHANGED <<cfgVars, gwMac, link, gwTrue>>

CheckGatewayFailed_Ages ==
  /\ Prompt /\ gwStat = "ARP_FAILED"
  /\ IF GetRspNum(gwWin) >= 1
     THEN gwStat' = "ARP_CHECKING" /\ f_ArpRestore
     ELSE f_ArpSpoof /\ UNCHANGED gwStat
  /\ f_SendArpReq(gwWin)
  /\ arpTable' \in SUBSET arpTable
  /\ UNCHANGED <<cfgVars, gwMac, peerVars, link, gwTrue>>

CheckGatewayFailed_NoRequest ==
  /\ Prompt /\ gwStat = "ARP_FAILED"
  /\ IF GetRspNum(gwWin) >= 1
     THEN gwStat' = "ARP_CHECKING" /\ f_ArpRestore /\ f_SendArpReq(gwWin)
     ELSE f_ArpSpoof /\ UNCHANGED <<gwStat, gwWin, arp>>
  /\ UNCHANGED <<cfgVars, gwMac, peerVars, arpTable, link, gwTrue>>

(* One answer ends the spoofing, a second one brings the gateway back. *)
CheckGatewayFailed ==
  /\ Prompt /\ gwStat = "ARP_FAILED"
  /\ IF GetRspNum(gwWin) >= 1
     THEN gwStat' = "ARP_CHECKING" /\ f_ArpRestore
     ELSE f_ArpSpoof /\ UNCHANGED gwStat
  /\ f_SendArpReq(gwWin)
  /\ UNCHANGED <<cfgVars, gwMac, peerVars, arpTable, link, gwTrue>>

f_MainNetCheck == \/ CheckGatewayUnknown
                  \/ CheckGatewayChecking
                  \/ CheckGatewayOk
                  \/ CheckGatewayFailed
-----------------------------------------------------------------------------
(* f_ModUpdateCfg *)

f_ResetGateway_KeepsStat ==
  /\ gwMac' = NoMac /\ UNCHANGED gwStat
  /\ \/ UNCHANGED <<gwTrue, arp, spoofed>>
     \/ gwTrue' \in Macs /\ arp' = NoMac /\ spoofed' = {}

(* Our address or netmask changes, or the gateway's address: its record is reset
   (f_ResetIp, which keeps the table) and the hosts are told nothing.  What they
   were told of another address no longer matters to them. *)
f_ResetGateway ==
  /\ gwStat' = "UNKNOWN" /\ gwMac' = NoMac
  /\ \/ UNCHANGED <<gwTrue, arp, spoofed>>
     \/ gwTrue' \in Macs /\ arp' = NoMac /\ spoofed' = {}

(* The peer is kept, gets another test address or is replaced by another, on a
   table t; n are the answers under way to an address that is still ours. *)
f_UpdatePeer(c, t, n) ==
  \/ UNCHANGED <<stat, mac, timer>> /\ win' = t /\ net' = n
  \/ /\ stat' = "UNKNOWN" /\ mac' = NoMac /\ timer' = 0
     /\ win' \in {t, InitWindow(c.queue)}
     /\ net' = {}

f_ModUpdateCfg ==
  /\ updates < MaxUpdates /\ updates' = updates + 1
  /\ \E c \in Configs, n \in {net, {}} :
       /\ cfg' = c
       /\ chkPeriod' = IF c.period # cfg.period THEN c.period ELSE chkPeriod
       /\ chkReply' = IF c.recover # cfg.recover THEN c.queue - c.recover ELSE chkReply
       /\ \/ n = net /\ UNCHANGED <<gwStat, gwMac, gwTrue, arp, spoofed>>
          \/ f_ResetGateway
       /\ f_UpdatePeer(c, IF c.queue # cfg.queue THEN InitWindow(c.queue) ELSE win, n)
  /\ UNCHANGED <<echoSeq, gwWin, arpTable, link>>
-----------------------------------------------------------------------------
Next == \/ f_MainNetCheck
        \/ HandleGatewayArp
        \/ \E h \in Hosts : HandleHostArp(h)
        \/ HandleMyIcmp
        \/ f_ModUpdateCfg
        \/ SetLink
        \/ ReplaceGateway
        \/ GatewayArp

(* The timer of the packet thread and the reception of packets never stop. *)
Fairness == WF_vars(f_MainNetCheck) /\ WF_vars(HandleGatewayArp) /\ WF_vars(HandleMyIcmp)

Spec == Init /\ [][Next]_vars
FairSpec == Spec /\ Fairness
-----------------------------------------------------------------------------
(* The state of both records, of the ARP table and of the wire is well formed,
   and the counters the checks decide on are what a scan of their table counts. *)
TypeOK ==
  /\ cfg \in Configs
  /\ chkPeriod \in Nat /\ chkReply \in Nat /\ echoSeq \in EchoIds
  /\ gwStat \in GatewayStats /\ gwMac \in Macs \cup {NoMac}
  /\ gwWin \in Windows(1, ArpIds) /\ CountersExact(gwWin)
  /\ stat \in PeerStats /\ mac \in Macs \cup {NoMac} /\ timer \in Nat
  /\ win \in Windows(cfg.queue, EchoIds) /\ CountersExact(win)
  /\ arpTable \subseteq Hosts /\ spoofed \subseteq Hosts
  /\ link \in {"good", "lossy"} /\ gwTrue \in Macs
  /\ arp \in Macs \cup {NoMac} /\ net \subseteq EchoIds
  /\ updates \in 0 .. MaxUpdates

(* The verdict on the peer, which the switch of channels reads right after every
   check, falls with the gateway: the peer has one only behind a gateway that
   answers, or until the first check after an update has reset the gateway. *)
GatewayFirst == stat # "UNKNOWN" => gwStat \in {"ARP_OK", "UNKNOWN"}

(* What f_ArpRestore publishes and what packets carry is a real MAC: that of a gateway
   in use is known, that of a lost or a new gateway as soon as an answer is counted in
   its slot, which is when the next check restores it or brings it into use, and that
   of a peer under test.  Nothing is said of a gateway reset or not yet heard of:
   f_ForwardIp, which asks for no state, then writes six zero bytes. *)
MacKnown ==
  /\ gwStat = "ARP_OK" => gwMac # NoMac
  /\ gwStat \in {"ARP_CHECKING", "ARP_FAILED"} /\ GetRspNum(gwWin) >= 1 => gwMac # NoMac
  /\ stat # "UNKNOWN" => mac # NoMac
=============================================================================
