----------------------------- MODULE BackNetEoL3 ----------------------------
(***************************************************************************)
(* How the back-up network is watched in L3 mode, where the peer is behind *)
(* a gateway: CTS_BackNetEoL3 in ts_module/TS_BackNet.cpp, all in the      *)
(* packet thread.                                                          *)
(*                                                                         *)
(* Every second f_BackNetCheck learns the MAC of the gateway by ARP and    *)
(* lets it age: a gateway not heard of for 300 seconds is forgotten, and   *)
(* it is asked again during the last five.  The peer is probed through the *)
(* MAC the gateway has now (f_PeerDetect); what is forwarded to the peer   *)
(* goes to the MAC the gateway had when the detection of the peer began    *)
(* (m_aHostMac of the peer, written by CTS_BackNetL3::f_ForwardIp).        *)
(*                                                                         *)
(* The wire is that of HostDetect: "good" or "lossy", and the device at    *)
(* the gateway's address can be replaced.                                  *)
(***************************************************************************)
EXTENDS Integers, TestWindow

CONSTANTS Configs,     \* configurations of the back-up network
          Macs, NoMac, \* MACs the gateway may have; the six zero bytes
          SeqSpace,    \* m_nChkEchoSeq counts modulo this (2^16 in the code)
          AgeLimit,    \* seconds after which a gateway is forgotten (300 in the code)
          AskFrom,     \* seconds after which it is asked again (295 in the code)
          MaxUpdates   \* bound: configuration updates

ConfigType == [period : Nat \ {0}, queue : Nat \ {0}, lost : Nat \ {0},
               recover : Nat, timeout : Nat]

(* The configurations the program is meant for, as in HostDetect. *)
ASSUME RoutedConfigsOK ==
  /\ Configs # {} /\ Configs \subseteq ConfigType
  /\ \A c \in Configs : c.lost <= c.queue /\ c.recover < c.lost /\ c.queue < SeqSpace
ASSUME RoutedConstantsOK ==
  /\ SeqSpace \in Nat /\ MaxUpdates \in Nat
  /\ AgeLimit \in Nat /\ AskFrom \in Nat /\ AskFrom < AgeLimit
  /\ NoMac \notin Macs /\ Macs # {}

VARIABLES cfg,       \* m_pTsCfg->m_iBackNet2Cfg
          chkPeriod, chkReply, echoSeq,  \* m_nChkPeriod, m_nChkReplyNum, m_nChkEchoSeq
          gwStat, gwMac, gwTimer,        \* m_piGatewayDct: state, MAC, m_nHostRecoverTimer
          stat, mac, timer, win,         \* m_vtPeerDct[0], with its probe table
          link, gwTrue,  \* the wire, and the MAC of the device at the gateway's address
          arp,       \* sender MAC of the gateway's ARP packet under way, or NoMac
          net,       \* ids of the echo answers under way to us
          updates    \* configuration updates so far

cfgVars  == <<cfg, chkReply, updates>>
gwVars   == <<gwStat, gwMac, gwTimer>>
hostVars == <<stat, mac, timer>>
peerVars == <<chkPeriod, echoSeq, win, net, hostVars>>
vars == <<cfgVars, gwVars, peerVars, link, gwTrue, arp>>

GatewayStats == {"UNKNOWN", "ARP_CHECKING", "ARP_OK"}
PeerStats == {"UNKNOWN", "ECHO_CHECKING", "ECHO_OK", "ECHO_FAILED"}
EchoIds == 0 .. SeqSpace - 1
-----------------------------------------------------------------------------
Init == /\ cfg \in Configs
        /\ chkPeriod = cfg.period /\ chkReply = cfg.queue - cfg.recover /\ echoSeq = 0
        /\ gwStat = "UNKNOWN" /\ gwMac = NoMac /\ gwTimer = 0
        /\ stat = "UNKNOWN" /\ mac = NoMac /\ timer = 0 /\ win = InitWindow(cfg.queue)
        /\ link \in {"good", "lossy"} /\ gwTrue \in Macs
        /\ arp = NoMac /\ net = {}
        /\ updates = 0
-----------------------------------------------------------------------------
(* The network *)

(* The answers under way after probes ids went to the gateway's MAC, for a table
   w; the others find no slot in f_HandleMyIcmp. *)
UnderWay(ids, w) == (IF gwMac = gwTrue THEN net \cup ids ELSE net) \cap IdsIn(w)

(* On a good wire what is asked is answered before the next check. *)
Prompt == link = "good" => net = {} /\ arp = NoMac

SetLink == /\ link' \in {"good", "lossy"} \ {link}
           /\ UNCHANGED <<cfgVars, gwVars, peerVars, gwTrue, arp>>

ReplaceGateway == /\ link = "lossy"
                  /\ gwTrue' \in Macs \ {gwTrue}
                  /\ UNCHANGED <<cfgVars, gwVars, peerVars, link, arp>>

(* The gateway sends an ARP packet on its own account. *)
GatewayArp == /\ arp # gwTrue
              /\ arp' = gwTrue
              /\ UNCHANGED <<cfgVars, gwVars, peerVars, link, gwTrue>>

(* f_HandleArp: any ARP packet of the gateway gives its MAC and its age. *)
HandleArp == /\ arp # NoMac
             /\ gwMac' = arp /\ gwTimer' = 0
             /\ arp' = NoMac
             /\ UNCHANGED <<cfgVars, gwStat, peerVars, link, gwTrue>>

(* f_HandleMyIcmp: an echo answer; a lossy wire may duplicate it. *)
HandleMyIcmp ==
  \E i \in net :
    /\ win' = OnGetOneRsp(win, i)
    /\ \/ net' = net \ {i}
       \/ link = "lossy" /\ net' = net
    /\ UNCHANGED <<cfgVars, gwVars, hostVars, chkPeriod, echoSeq, link, gwTrue, arp>>
-----------------------------------------------------------------------------
(* f_PeerDetect, one operator per state of the peer *)

(* f_SendEchoReq and OnSendOneRequest on the table w. *)
f_SendEchoReq(w) == /\ echoSeq' = (echoSeq + 1) % SeqSpace
                    /\ win' = OnSendOneRequest(w, echoSeq')
                    /\ net' = UnderWay({echoSeq'}, win')

PeerUnknown == /\ stat = "UNKNOWN"
               /\ stat' = "ECHO_CHECKING" /\ timer' = 0 /\ mac' = gwMac
               /\ echoSeq' = (echoSeq + cfg.queue) % SeqSpace
               /\ win' = FillWindow(win, echoSeq, SeqSpace)
               /\ net' = UnderWay(IdsIn(win'), win')

PeerChecking ==
  /\ stat = "ECHO_CHECKING"
  /\ \/ /\ chkReply <= GetRspNum(win)
        /\ timer' = timer + cfg.period
        /\ stat' = IF timer' >= cfg.timeout THEN "ECHO_OK" ELSE stat
        /\ f_SendEchoReq(win)
     \/ /\ chkReply > GetRspNum(win)
        /\ LET w == CheckTimeout(win) IN
           /\ stat' = IF cfg.lost <= w.lost THEN "ECHO_FAILED" ELSE stat
           /\ f_SendEchoReq(w)
        /\ UNCHANGED timer
  /\ UNCHANGED mac

PeerOk_NoTimeout == /\ stat = "ECHO_OK"
                    /\ stat' = IF cfg.lost <= win.lost THEN "ECHO_FAILED" ELSE stat
                    /\ f_SendEchoReq(win)
                    /\ UNCHANGED <<mac, timer>>

PeerOk == /\ stat = "ECHO_OK"
          /\ LET w == CheckTimeout(win) IN
             /\ stat' = IF cfg.lost <= w.lost THEN "ECHO_FAILED" ELSE stat
             /\ f_SendEchoReq(w)
          /\ UNCHANGED <<mac, timer>>

PeerFailed == /\ stat = "ECHO_FAILED"
              /\ IF chkReply <= GetRspNum(win)
                 THEN stat' = "ECHO_CHECKING" /\ timer' = 0
                 ELSE UNCHANGED <<stat, timer>>
              /\ f_SendEchoReq(win)
              /\ UNCHANGED mac

f_PeerDetect == \/ /\ chkPeriod + 1 < cfg.period
                   /\ chkPeriod' = chkPeriod + 1
                   /\ UNCHANGED <<echoSeq, win, net, hostVars>>
                \/ /\ chkPeriod + 1 >= cfg.period
                   /\ chkPeriod' = 0
                   /\ PeerUnknown \/ PeerChecking \/ PeerOk \/ PeerFailed
-----------------------------------------------------------------------------
(* f_BackNetCheck, one action per state of the gateway *)

f_SendArpReq == \/ arp' = gwTrue
                \/ link = "lossy" /\ arp' = arp

CheckUnknown_KeepsPeer == /\ Prompt /\ gwStat = "UNKNOWN"
                          /\ gwStat' = "ARP_CHECKING"
                          /\ f_SendArpReq
                          /\ UNCHANGED <<cfgVars, gwMac, gwTimer, peerVars, link, gwTrue>>

CheckUnknown == /\ Prompt /\ gwStat = "UNKNOWN"
                /\ gwStat' = "ARP_CHECKING" /\ stat' = "UNKNOWN"
                /\ f_SendArpReq
                /\ UNCHANGED <<cfgVars, gwMac, gwTimer, chkPeriod, echoSeq, win, net, mac, timer,
                               link, gwTrue>>

(* The check that finds a MAC begins the detection of the peer at once. *)
CheckArpChecking ==
  /\ Prompt /\ gwStat = "ARP_CHECKING"
  /\ \/ gwMac # NoMac /\ gwStat' = "ARP_OK" /\ gwTimer' = 0 /\ f_PeerDetect /\ UNCHANGED arp
     \/ gwMac = NoMac /\ f_SendArpReq /\ UNCHANGED <<gwStat, gwTimer, peerVars>>
  /\ UNCHANGED <<cfgVars, gwMac, link, gwTrue>>

CheckArpOk_NeverAsks ==
  /\ Prompt /\ gwStat = "ARP_OK"
  /\ gwTimer' = gwTimer + 1
  /\ IF AgeLimit <= gwTimer'
     THEN gwStat' = "UNKNOWN" /\ gwMac' = NoMac /\ UNCHANGED peerVars
     ELSE UNCHANGED <<gwStat, gwMac>> /\ f_PeerDetect
  /\ UNCHANGED <<cfgVars, arp, link, gwTrue>>

(* The peer keeps its state until the next check when the gateway is forgotten. *)
CheckArpOk ==
  /\ Prompt /\ gwStat = "ARP_OK"
  /\ gwTimer' = gwTimer + 1
  /\ IF AgeLimit <= gwTimer'
     THEN gwStat' = "UNKNOWN" /\ gwMac' = NoMac /\ UNCHANGED <<peerVars, arp>>
     ELSE /\ UNCHANGED <<gwStat, gwMac>>
          /\ IF AskFrom <= gwTimer' THEN f_SendArpReq ELSE UNCHANGED arp
          /\ f_PeerDetect
  /\ UNCHANGED <<cfgVars, link, gwTrue>>

f_BackNetCheck == CheckUnknown \/ CheckArpChecking \/ CheckArpOk
-----------------------------------------------------------------------------
(* f_ModUpdateCfg *)

(* The gateway gets another address (f_ResetIp). *)
f_ResetGateway == /\ gwStat' = "UNKNOWN" /\ gwMac' = NoMac /\ gwTimer' = 0
                  /\ gwTrue' \in Macs /\ arp' = NoMac

(* The peer is kept, gets another test address or is replaced by another, on a
   table t; n are the answers under way to an address that is still ours. *)
f_PeerUpdateCfg(c, t, n) ==
  \/ UNCHANGED hostVars /\ win' = t /\ net' = n
  \/ /\ stat' = "UNKNOWN" /\ mac' = NoMac /\ timer' = 0
     /\ win' \in {t, InitWindow(c.queue)}
     /\ net' = {}

f_ModUpdateCfg ==
  /\ updates < MaxUpdates /\ updates' = updates + 1
  /\ \E c \in Configs, n \in {net, {}} :
       /\ cfg' = c
       /\ chkPeriod' = IF c.period # cfg.period THEN c.period ELSE chkPeriod
       /\ chkReply' = IF c.recover # cfg.recover THEN c.queue - c.recover ELSE chkReply
       /\ f_PeerUpdateCfg(c, IF c.queue # cfg.queue THEN InitWindow(c.queue) ELSE win, n)
  /\ UNCHANGED <<gwVars, gwTrue, arp>> \/ f_ResetGateway
  /\ UNCHANGED <<echoSeq, link>>
-----------------------------------------------------------------------------
Next == \/ f_BackNetCheck
        \/ HandleArp
        \/ HandleMyIcmp
        \/ f_ModUpdateCfg
        \/ SetLink
        \/ ReplaceGateway
        \/ GatewayArp

(* The timer of the packet thread and the reception of packets never stop, and the
   thread polls the timer after every packet: no stream of ARP packets keeps the
   checks off (SF). *)
Fairness == SF_vars(f_BackNetCheck) /\ WF_vars(HandleArp) /\ WF_vars(HandleMyIcmp)

Spec == Init /\ [][Next]_vars
FairSpec == Spec /\ Fairness
-----------------------------------------------------------------------------
(* The state of both records and of the wire is well formed, and the counters the
   checks decide on are what a scan of the table counts. *)
TypeOK ==
  /\ cfg \in Configs
  /\ chkPeriod \in Nat /\ chkReply \in Nat /\ echoSeq \in EchoIds
  /\ gwStat \in GatewayStats /\ gwMac \in Macs \cup {NoMac} /\ gwTimer \in 0 .. AgeLimit
  /\ stat \in PeerStats /\ mac \in Macs \cup {NoMac} /\ timer \in Nat
  /\ win \in Windows(cfg.queue, EchoIds) /\ CountersExact(win)
  /\ link \in {"good", "lossy"} /\ gwTrue \in Macs
  /\ arp \in Macs \cup {NoMac} /\ net \subseteq EchoIds
  /\ updates \in 0 .. MaxUpdates

(* A peer has a verdict only behind a gateway whose MAC is known, or until the
   first check after the gateway was forgotten or an update has reset it; what
   f_ForwardIp writes into the packets for a peer with a verdict is a MAC learnt. *)
GatewayFirst == stat # "UNKNOWN" => gwStat \in {"ARP_OK", "UNKNOWN"} /\ mac # NoMac

(* The back-up network comes into use, and stays so, once the wire stays good: the
   gateway is asked early enough never to be forgotten while it answers. *)
Recovers == <>[](link = "good") => <>[](stat = "ECHO_OK")
=============================================================================
