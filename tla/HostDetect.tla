----------------------------- MODULE HostDetect -----------------------------
(***************************************************************************)
(* How one back-up channel decides whether the peer can be reached through *)
(* it: CTS_BackNetEoSgl1 in ts_module/TS_BackNet.cpp, with the record      *)
(* CTS_HOST_DETECT (TS_Base.cpp) it keeps for the peer and the probe table *)
(* of module TestWindow.                                                   *)
(*                                                                         *)
(* Every period the packet thread runs f_BackNetCheck, which learns the    *)
(* MAC of the peer by ARP, then sends echo requests and moves the state    *)
(* from the counters of the table; between two checks the same thread      *)
(* handles whatever arrives (f_HandleArp, f_HandleMyIcmp), and the update  *)
(* of the configuration rewrites the thresholds (f_ModUpdateCfg).          *)
(*                                                                         *)
(* The wire is the environment: it can be "good" (everything sent arrives  *)
(* and is answered before the next check) or "lossy" (anything may be      *)
(* late, duplicated or lost, all of it too), and the device at the peer's  *)
(* address can be replaced by one with another MAC.                        *)
(***************************************************************************)
EXTENDS Integers, TestWindow

CONSTANTS Configs,     \* configurations the channel may be given
          Macs,        \* MACs the peer may have
          NoMac,       \* the six zero bytes of a MAC not learnt
          SeqSpace,    \* m_nChkEchoSeq counts modulo this (2^16 in the code)
          AgeLimit,    \* seconds in ECHO_FAILED before the MAC is forgotten (60 in the code)
          MaxUpdates   \* bound: configuration updates

ConfigType == [period : Nat \ {0}, queue : Nat \ {0}, lost : Nat \ {0},
               recover : Nat, timeout : Nat]

(* The configurations the program is meant for: the loss that condemns a
   channel fits the table, and recovery tolerates less loss than failure. *)
ASSUME ConfigsOK ==
  /\ Configs # {} /\ Configs \subseteq ConfigType
  /\ \A c \in Configs : c.lost <= c.queue /\ c.recover < c.lost
ASSUME SeqSpaceOK == SeqSpace \in Nat /\ \A c \in Configs : c.queue < SeqSpace
ASSUME MacsOK == NoMac \notin Macs /\ Macs # {}
ASSUME BoundsOK == AgeLimit \in Nat /\ MaxUpdates \in Nat

VARIABLES cfg,       \* *m_pTsCfg
          chkPeriod, \* m_nChkPeriod: ticks since the last check
          chkReply,  \* m_nChkReplyNum: answers in the table that let the channel recover
          echoSeq,   \* m_nChkEchoSeq
          stat,      \* m_eHostStat
          mac,       \* m_aHostMac
          timer,     \* m_nHostRecoverTimer
          win,       \* m_iHostTest
          link, peerMac,  \* the wire, and the MAC of the device at the peer's address
          arp,       \* sender MAC of the ARP packet under way to us, or NoMac
          net,       \* ids of the echo answers under way to us
          updates    \* configuration updates so far

cfgVars  == <<cfg, chkReply, updates>>
hostVars == <<stat, mac, timer>>
wireVars == <<link, peerMac, arp, net>>
vars == <<cfg, chkPeriod, chkReply, echoSeq, stat, mac, timer, win,
          link, peerMac, arp, net, updates>>

Stats == {"UNKNOWN", "ARP_CHECKING", "ARP_OK", "ECHO_CHECKING", "ECHO_OK", "ECHO_FAILED"}
EchoIds == 0 .. SeqSpace - 1

(* m_nChkLostNum and m_nChkQueue follow the configuration at every update. *)
ChkLost == cfg.lost
ChkQueue == cfg.queue
-----------------------------------------------------------------------------
Init == /\ cfg \in Configs
        /\ chkPeriod = cfg.period
        /\ chkReply = cfg.queue - cfg.recover
        /\ echoSeq = 0
        /\ stat = "UNKNOWN" /\ mac = NoMac /\ timer = 0
        /\ win = InitWindow(cfg.queue)
        /\ link \in {"good", "lossy"} /\ peerMac \in Macs
        /\ arp = NoMac /\ net = {}
        /\ updates = 0
-----------------------------------------------------------------------------
(* The wire *)

(* The answers under way once the probes ids are sent to the MAC known.  An
   answer whose probe has left the table is dropped here: f_HandleMyIcmp finds
   no slot for it. *)
UnderWay(ids, w) ==
  (IF mac = peerMac THEN net \cup ids ELSE net) \cap IdsIn(w)

(* On a good wire every echo is answered before the next tick. *)
Prompt == link = "good" => net = {}

SetLink == /\ link' \in {"good", "lossy"} \ {link}
           /\ UNCHANGED <<cfgVars, hostVars, chkPeriod, echoSeq, win, peerMac, arp, net>>

ReplacePeer == /\ link # "good"
               /\ peerMac' \in Macs \ {peerMac}
               /\ UNCHANGED <<cfgVars, hostVars, chkPeriod, echoSeq, win, link, arp, net>>

(* The peer asks for our MAC on its own account. *)
PeerArpReq == /\ arp # peerMac
              /\ arp' = peerMac
              /\ UNCHANGED <<cfgVars, hostVars, chkPeriod, echoSeq, win, link, peerMac, net>>
-----------------------------------------------------------------------------
(* What arrives *)

(* f_HandleArp: an ARP packet for our address from the peer's address. *)
HandleArp == /\ arp # NoMac
             /\ mac' = arp
             /\ arp' = NoMac
             /\ UNCHANGED <<cfgVars, chkPeriod, echoSeq, stat, timer, win, link, peerMac, net>>

(* f_HandleMyIcmp: an echo answer; a wire that is not good may duplicate it. *)
HandleMyIcmp ==
  \E i \in net :
    /\ win' = OnGetOneRsp(win, i)
    /\ \/ net' = net \ {i}
       \/ link # "good" /\ net' = net
    /\ UNCHANGED <<cfgVars, hostVars, chkPeriod, echoSeq, link, peerMac, arp>>
-----------------------------------------------------------------------------
(* f_BackNetCheck, one action per state of the peer *)

f_SendArpReq == \/ arp' = peerMac
                \/ link # "good" /\ arp' = arp

(* f_SendEchoReq and OnSendOneRequest on the table w. *)
f_SendEchoReq(w) ==
  /\ echoSeq' = (echoSeq + 1) % SeqSpace
  /\ win' = OnSendOneRequest(w, echoSeq')
  /\ net' = UnderWay({echoSeq'}, win')

Due == Prompt /\ chkPeriod + 1 >= cfg.period

NotDue == /\ Prompt /\ chkPeriod + 1 < cfg.period
          /\ chkPeriod' = chkPeriod + 1
          /\ UNCHANGED <<cfgVars, hostVars, wireVars, echoSeq, win>>

CheckUnknown == /\ Due /\ stat = "UNKNOWN"
                /\ chkPeriod' = 0
                /\ stat' = "ARP_CHECKING"
                /\ f_SendArpReq
                /\ UNCHANGED <<cfgVars, mac, timer, echoSeq, win, link, peerMac, net>>

CheckArpChecking == /\ Due /\ stat = "ARP_CHECKING"
                    /\ chkPeriod' = 0
                    /\ \/ mac # NoMac /\ stat' = "ARP_OK" /\ UNCHANGED arp
                       \/ mac = NoMac /\ f_SendArpReq /\ UNCHANGED stat
                    /\ UNCHANGED <<cfgVars, mac, timer, echoSeq, win, link, peerMac, net>>

(* The whole table is filled with new probes. *)
CheckArpOk ==
  /\ Due /\ stat = "ARP_OK"
  /\ chkPeriod' = 0
  /\ stat' = "ECHO_CHECKING" /\ timer' = 0
  /\ echoSeq' = (echoSeq + ChkQueue) % SeqSpace
  /\ win' = FillWindow(win, echoSeq, SeqSpace)
  /\ net' = UnderWay(IdsIn(win'), win')
  /\ UNCHANGED <<cfgVars, mac, link, peerMac, arp>>

CheckEchoChecking ==
  /\ Due /\ stat = "ECHO_CHECKING"
  /\ chkPeriod' = 0
  /\ \/ /\ chkReply <= GetRspNum(win)
        /\ timer' = timer + cfg.period
        /\ stat' = IF timer' >= cfg.timeout THEN "ECHO_OK" ELSE stat
        /\ f_SendEchoReq(win)
     \/ /\ chkReply > GetRspNum(win)
        /\ LET w == CheckTimeout(win) IN
           /\ IF ChkLost <= w.lost
              THEN stat' = "ECHO_FAILED" /\ timer' = 0
              ELSE UNCHANGED <<stat, timer>>
           /\ f_SendEchoReq(w)
  /\ UNCHANGED <<cfgVars, mac, link, peerMac, arp>>

CheckEchoOk_NoTimeout ==
  /\ Due /\ stat = "ECHO_OK"
  /\ chkPeriod' = 0
  /\ IF ChkLost <= win.lost
     THEN stat' = "ECHO_FAILED" /\ timer' = 0
     ELSE UNCHANGED <<stat, timer>>
  /\ f_SendEchoReq(win)
  /\ UNCHANGED <<cfgVars, mac, link, peerMac, arp>>

CheckEchoOk ==
  /\ Due /\ stat = "ECHO_OK"
  /\ chkPeriod' = 0
  /\ LET w == CheckTimeout(win) IN
     /\ IF ChkLost <= w.lost
        THEN stat' = "ECHO_FAILED" /\ timer' = 0
        ELSE UNCHANGED <<stat, timer>>
     /\ f_SendEchoReq(w)
  /\ UNCHANGED <<cfgVars, mac, link, peerMac, arp>>

CheckEchoFailed_NoAging ==
  /\ Due /\ stat = "ECHO_FAILED"
  /\ chkPeriod' = 0
  /\ IF chkReply <= GetRspNum(win)
     THEN stat' = "ECHO_CHECKING" /\ timer' = 0
     ELSE UNCHANGED <<stat, timer>>
  /\ f_SendEchoReq(win)
  /\ UNCHANGED <<cfgVars, mac, link, peerMac, arp>>

(* The MAC is forgotten after AgeLimit seconds of failure; until then the
   channel goes on probing and re-enters ECHO_CHECKING on enough answers. *)
CheckEchoFailed ==
  /\ Due /\ stat = "ECHO_FAILED"
  /\ chkPeriod' = 0
  /\ \/ /\ timer + cfg.period >= AgeLimit
        /\ timer' = timer + cfg.period
        /\ stat' = "ARP_CHECKING" /\ mac' = NoMac
        /\ UNCHANGED <<echoSeq, win, net>>
     \/ /\ timer + cfg.period < AgeLimit
        /\ IF chkReply <= GetRspNum(win)
           THEN stat' = "ECHO_CHECKING" /\ timer' = 0
           ELSE timer' = timer + cfg.period /\ UNCHANGED stat
        /\ f_SendEchoReq(win)
        /\ UNCHANGED mac
  /\ UNCHANGED <<cfgVars, link, peerMac, arp>>

f_BackNetCheck == \/ NotDue
                  \/ CheckUnknown
                  \/ CheckArpChecking
                  \/ CheckArpOk
                  \/ CheckEchoChecking
                  \/ CheckEchoOk
                  \/ CheckEchoFailed
-----------------------------------------------------------------------------
(* f_ModUpdateCfg *)

f_PeerUpdateCfg_KeepsStat(c, t) ==
  \/ UNCHANGED <<hostVars, arp, net>> /\ win' = t
  \/ /\ stat' = stat /\ mac' = NoMac /\ timer' = 0
     /\ win' \in {t, InitWindow(c.queue)}
     /\ arp' = NoMac /\ net' = {}

(* f_PeerUpdateCfg: the peer is kept, gets another test address (f_ResetIp) or
   is replaced by another peer (delete and f_Init), on a table t. *)
f_PeerUpdateCfg(c, t) ==
  \/ UNCHANGED <<hostVars, arp, net>> /\ win' = t
  \/ /\ stat' = "UNKNOWN" /\ mac' = NoMac /\ timer' = 0
     /\ win' \in {t, InitWindow(c.queue)}
     /\ arp' = NoMac /\ net' = {}

f_ModUpdateCfg ==
  /\ updates < MaxUpdates /\ updates' = updates + 1
  /\ \E c \in Configs :
       /\ cfg' = c
       /\ chkPeriod' = IF c.period # cfg.period THEN c.period ELSE chkPeriod
       /\ chkReply' = IF c.recover # cfg.recover THEN c.queue - c.recover ELSE chkReply
       /\ f_PeerUpdateCfg(c, IF c.queue # cfg.queue THEN InitWindow(c.queue) ELSE win)
  /\ UNCHANGED <<echoSeq, link, peerMac>>
-----------------------------------------------------------------------------
Next == \/ f_BackNetCheck
        \/ HandleArp
        \/ HandleMyIcmp
        \/ f_ModUpdateCfg
        \/ SetLink
        \/ ReplacePeer
        \/ PeerArpReq

(* The timer of the packet thread and the reception of packets never stop. *)
Fairness == WF_vars(f_BackNetCheck) /\ WF_vars(HandleArp) /\ WF_vars(HandleMyIcmp)

Spec == Init /\ [][Next]_vars
FairSpec == Spec /\ Fairness
-----------------------------------------------------------------------------
(* The state of the channel is well formed; the table always has the size of
   the configured queue, across every update of the configuration. *)
TypeOK ==
  /\ cfg \in Configs
  /\ chkPeriod \in Nat /\ chkReply \in Nat /\ echoSeq \in EchoIds
  /\ stat \in Stats /\ mac \in Macs \cup {NoMac} /\ timer \in Nat
  /\ win \in Windows(cfg.queue, EchoIds)
  /\ link \in {"good", "lossy"} /\ peerMac \in Macs
  /\ arp \in Macs \cup {NoMac} /\ net \subseteq EchoIds
  /\ updates \in 0 .. MaxUpdates

(* m_lost_num and m_rsp_num, which f_BackNetCheck decides on, are what a scan of
   the table would count, whatever checks, answers and updates interleave. *)
CountersAgree == CountersExact(win)

(* f_ForwardIp writes m_aHostMac into every packet it sends once the channel is
   in use: a channel that probes or carries traffic has learnt the peer's MAC. *)
MacKnown == stat \in {"ARP_OK", "ECHO_CHECKING", "ECHO_OK", "ECHO_FAILED"} => mac # NoMac
=============================================================================
