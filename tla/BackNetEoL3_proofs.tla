------------------------- MODULE BackNetEoL3_proofs -------------------------
(***************************************************************************)
(* For every set of configurations, every space of echo numbers, all ages  *)
(* of a gateway and every behaviour of the wire: the records of gateway    *)
(* and peer are well formed, the counters of the peer are exact, and no    *)
(* verdict on the peer outlives its gateway by more than one check; a      *)
(* peer that is silent is given up in time.                                *)
(***************************************************************************)
EXTENDS MCBackNetEoL3, TestWindow_proofs

(* A gateway in use has been heard of, and not too long ago: without it nothing
   says that the MAC a new peer is probed at is one. *)
GatewayHeard == gwStat = "ARP_OK" => gwMac # NoMac /\ gwTimer < AgeLimit

IInv == TypeOK /\ GatewayFirst /\ GatewayHeard

(* What the assumptions say of one configuration. *)
LEMMA RoutedConfigFacts ==
  ASSUME NEW c \in Configs
  PROVE  /\ c.queue \in Nat \ {0} /\ c.period \in Nat \ {0} /\ c.lost \in Nat \ {0}
         /\ c.recover \in Nat /\ c.timeout \in Nat
         /\ c.queue - c.recover \in Nat
         /\ SeqSpace \in Nat \ {0}
         /\ 0 \in EchoIds
<1>1. c \in ConfigType /\ c.lost <= c.queue /\ c.recover < c.lost /\ c.queue < SeqSpace
  BY RoutedConfigsOK
<1>2. /\ c.queue \in Nat \ {0} /\ c.period \in Nat \ {0} /\ c.lost \in Nat \ {0}
      /\ c.recover \in Nat /\ c.timeout \in Nat
  BY <1>1 DEF ConfigType
<1> QED BY <1>1, <1>2, RoutedConstantsOK DEF EchoIds

(* The table of the peer is a table of the configuration's size, its counters exact,
   and the answers under way are answers to probes. *)
Table == /\ echoSeq \in EchoIds
         /\ win \in Windows(cfg.queue, EchoIds) /\ CountersExact(win)
         /\ net \subseteq EchoIds

PeerFine == /\ Table /\ chkPeriod \in Nat
            /\ stat \in PeerStats /\ mac \in Macs \cup {NoMac} /\ timer \in Nat
            /\ stat # "UNKNOWN" => mac # NoMac

GatewayFine == /\ gwStat \in GatewayStats /\ gwMac \in Macs \cup {NoMac}
               /\ gwTimer \in 0 .. AgeLimit
               /\ arp \in Macs \cup {NoMac}

RestFine == /\ cfg \in Configs /\ chkReply \in Nat
            /\ link \in {"good", "lossy"} /\ gwTrue \in Macs
            /\ updates \in 0 .. MaxUpdates

(* The invariant by parts, for the steps that touch one of them only. *)
LEMMA Parts ==
  IInv <=> /\ PeerFine /\ GatewayFine /\ RestFine /\ GatewayHeard
           /\ stat # "UNKNOWN" => gwStat \in {"ARP_OK", "UNKNOWN"}
BY DEF IInv, TypeOK, GatewayFirst, PeerFine, Table, GatewayFine, RestFine

(* Sending one probe keeps the table, its counters and the answers under way. *)
LEMMA SendKeepsTable ==
  ASSUME RestFine, Table, cfg' = cfg,
         NEW w \in Windows(cfg.queue, EchoIds), CountersExact(w), f_SendEchoReq(w)
  PROVE  Table'
<1>1. cfg.queue \in Nat \ {0} /\ SeqSpace \in Nat \ {0} /\ echoSeq \in EchoIds
  BY RoutedConfigFacts DEF RestFine, Table
<1>2. echoSeq' = (echoSeq + 1) % SeqSpace /\ win' = OnSendOneRequest(w, echoSeq')
  BY DEF f_SendEchoReq
<1>3. echoSeq' \in EchoIds
  BY <1>1, <1>2 DEF EchoIds
<1>4. win' \in Windows(cfg.queue, EchoIds) /\ CountersExact(win')
  BY <1>1, <1>2, <1>3, SendKeepsCounters
<1>5. net' \subseteq EchoIds
  BY <1>3 DEF f_SendEchoReq, UnderWay, Table
<1> QED BY <1>3, <1>4, <1>5 DEF Table

(* One check of the peer, behind a gateway whose MAC is known. *)
LEMMA DetectKeepsPeer ==
  ASSUME RestFine, PeerFine, gwMac \in Macs, cfg' = cfg, f_PeerDetect
  PROVE  PeerFine'
<1>1. /\ cfg.queue \in Nat \ {0} /\ cfg.period \in Nat /\ timer \in Nat
      /\ SeqSpace \in Nat \ {0} /\ echoSeq \in EchoIds /\ 0 \in EchoIds
      /\ win \in Windows(cfg.queue, EchoIds) /\ CountersExact(win)
      /\ net \subseteq EchoIds
      /\ stat \in PeerStats /\ mac \in Macs \cup {NoMac}
      /\ stat # "UNKNOWN" => mac # NoMac
  BY RoutedConfigFacts DEF RestFine, PeerFine, Table
<1>2. /\ CheckTimeout(win) \in Windows(cfg.queue, EchoIds)
      /\ CountersExact(CheckTimeout(win))
  BY <1>1, TimeoutKeepsCounters
<1>3. ASSUME f_SendEchoReq(win) \/ f_SendEchoReq(CheckTimeout(win)) PROVE Table'
  BY <1>1, <1>2, <1>3, SendKeepsTable DEF PeerFine
<1>4. CASE UNCHANGED <<echoSeq, win, net, hostVars>> /\ chkPeriod' = chkPeriod + 1
  BY <1>4 DEF PeerFine, Table, hostVars
<1>5. ASSUME chkPeriod' = 0, PeerUnknown PROVE PeerFine'
  <2>1. /\ stat' = "ECHO_CHECKING" /\ timer' = 0 /\ mac' = gwMac
        /\ echoSeq' = (echoSeq + cfg.queue) % SeqSpace
        /\ win' = FillWindow(win, echoSeq, SeqSpace)
        /\ net' = UnderWay(IdsIn(win'), win')
    BY <1>5 DEF PeerUnknown
  <2>2. win' \in Windows(cfg.queue, EchoIds) /\ CountersExact(win')
    BY <1>1, <2>1, FillKeepsCounters DEF EchoIds
  <2>3. IdsIn(win') \subseteq EchoIds
    BY <2>2 DEF IdsIn, SlotsOf, Windows, OneTestItem
  <2>4. net' \subseteq EchoIds
    BY <1>1, <2>1, <2>3 DEF UnderWay
  <2>5. echoSeq' \in EchoIds
    BY <1>1, <2>1 DEF EchoIds
  <2> QED BY <1>5, <2>1, <2>2, <2>4, <2>5, RoutedConstantsOK DEF PeerFine, Table, PeerStats
<1>6. ASSUME chkPeriod' = 0, PeerChecking PROVE PeerFine'
  <2>1. Table'
    BY <1>3, <1>6 DEF PeerChecking
  <2> QED BY <1>1, <1>6, <2>1 DEF PeerChecking, PeerFine, PeerStats
<1>7. ASSUME chkPeriod' = 0, PeerOk PROVE PeerFine'
  <2>1. Table'
    BY <1>3, <1>7 DEF PeerOk
  <2> QED BY <1>1, <1>7, <2>1 DEF PeerOk, PeerFine, PeerStats
<1>8. ASSUME chkPeriod' = 0, PeerFailed PROVE PeerFine'
  <2>1. Table'
    BY <1>3, <1>8 DEF PeerFailed
  <2> QED BY <1>1, <1>8, <2>1 DEF PeerFailed, PeerFine, PeerStats
<1> QED BY <1>4, <1>5, <1>6, <1>7, <1>8 DEF f_PeerDetect

LEMMA InitIInv == Init => IInv
<1> SUFFICES ASSUME Init PROVE IInv
  OBVIOUS
<1>1. cfg \in Configs /\ win = InitWindow(cfg.queue)
  BY DEF Init
<1>2. /\ cfg.queue \in Nat \ {0} /\ cfg.period \in Nat /\ cfg.queue - cfg.recover \in Nat
      /\ 0 \in EchoIds
  BY <1>1, RoutedConfigFacts
<1>3. win \in Windows(cfg.queue, EchoIds) /\ CountersExact(win)
  BY <1>1, <1>2, InitKeepsCounters
<1>4. PeerFine /\ stat = "UNKNOWN"
  BY <1>2, <1>3 DEF Init, PeerFine, Table, PeerStats
<1>5. GatewayFine /\ RestFine /\ GatewayHeard
  BY <1>1, <1>2, RoutedConstantsOK DEF Init, GatewayFine, RestFine, GatewayHeard, GatewayStats
<1> QED BY <1>4, <1>5, Parts

(* The wire and the ARP packets of the gateway. *)
LEMMA WireKeepsIInv ==
  ASSUME IInv, SetLink \/ ReplaceGateway \/ GatewayArp \/ HandleArp
  PROVE  IInv'
<1> USE DEF IInv, TypeOK, GatewayFirst, GatewayHeard, cfgVars, gwVars, hostVars, peerVars
<1>1. CASE SetLink
  BY <1>1 DEF SetLink
<1>2. CASE ReplaceGateway
  BY <1>2 DEF ReplaceGateway
<1>3. CASE GatewayArp
  BY <1>3 DEF GatewayArp
<1>4. CASE HandleArp
  BY <1>4, RoutedConstantsOK DEF HandleArp
<1> QED BY <1>1, <1>2, <1>3, <1>4

LEMMA IcmpKeepsIInv == ASSUME IInv, HandleMyIcmp PROVE IInv'
<1>1. PICK i \in net :
        /\ win' = OnGetOneRsp(win, i)
        /\ net' = net \ {i} \/ net' = net
        /\ UNCHANGED <<cfgVars, gwVars, hostVars, chkPeriod, echoSeq, link, gwTrue, arp>>
  BY DEF HandleMyIcmp
<1>2. cfg.queue \in Nat
  BY RoutedConfigFacts DEF IInv, TypeOK
<1>3. win' \in Windows(cfg.queue, EchoIds) /\ CountersExact(win')
  BY <1>1, <1>2, RspKeepsCounters DEF IInv, TypeOK
<1> QED BY <1>1, <1>3 DEF IInv, TypeOK, GatewayFirst, GatewayHeard, cfgVars, gwVars, hostVars

(* One check, by the state of the gateway. *)
LEMMA CheckKeepsIInv == ASSUME IInv, f_BackNetCheck PROVE IInv'
<1>1. /\ PeerFine /\ GatewayFine /\ RestFine /\ GatewayHeard
      /\ stat # "UNKNOWN" => gwStat \in {"ARP_OK", "UNKNOWN"}
  BY Parts
<1>2. AgeLimit \in Nat /\ AskFrom \in Nat /\ AskFrom < AgeLimit /\ NoMac \notin Macs
  BY RoutedConstantsOK
<1>3. ASSUME f_SendArpReq \/ UNCHANGED arp PROVE arp' \in Macs \cup {NoMac}
  BY <1>1, <1>3 DEF f_SendArpReq, GatewayFine, RestFine
<1>4. ASSUME UNCHANGED <<cfgVars, link, gwTrue>> PROVE RestFine' /\ cfg' = cfg
  BY <1>1, <1>4 DEF RestFine, cfgVars
<1>5. ASSUME UNCHANGED peerVars, cfg' = cfg PROVE PeerFine'
  BY <1>1, <1>5 DEF PeerFine, Table, peerVars, hostVars
<1>6. CASE CheckUnknown
  <2>1. RestFine' /\ cfg' = cfg
    BY <1>4, <1>6 DEF CheckUnknown
  <2>2. PeerFine' /\ stat' = "UNKNOWN"
    BY <1>1, <1>6, <2>1 DEF CheckUnknown, PeerFine, Table, PeerStats
  <2>3. GatewayFine' /\ GatewayHeard'
    BY <1>1, <1>3, <1>6 DEF CheckUnknown, GatewayFine, GatewayHeard, GatewayStats
  <2> QED BY <2>1, <2>2, <2>3, Parts DEF IInv, TypeOK, GatewayFirst, PeerFine, Table,
                                          GatewayFine, RestFine
<1>7. CASE CheckArpChecking
  <2>1. RestFine' /\ cfg' = cfg
    BY <1>4, <1>7 DEF CheckArpChecking
  <2>2. CASE gwMac # NoMac /\ gwStat' = "ARP_OK" /\ gwTimer' = 0 /\ f_PeerDetect /\ UNCHANGED arp
    <3>1. PeerFine'
      BY <1>1, <2>1, <2>2, DetectKeepsPeer DEF GatewayFine
    <3>2. GatewayFine' /\ GatewayHeard'
      BY <1>1, <1>2, <1>7, <2>2 DEF CheckArpChecking, GatewayFine, GatewayHeard, GatewayStats
    <3> QED BY <2>1, <2>2, <3>1, <3>2 DEF IInv, TypeOK, GatewayFirst, PeerFine, Table,
                                           GatewayFine, RestFine
  <2>3. CASE gwMac = NoMac /\ f_SendArpReq /\ UNCHANGED <<gwStat, gwTimer, peerVars>>
    <3>1. PeerFine' /\ stat' = stat
      BY <1>5, <2>1, <2>3 DEF peerVars, hostVars
    <3>2. GatewayFine' /\ GatewayHeard' /\ gwStat' = gwStat
      BY <1>1, <1>3, <1>7, <2>3 DEF CheckArpChecking, GatewayFine, GatewayHeard
    <3> QED BY <1>1, <2>1, <3>1, <3>2 DEF IInv, TypeOK, GatewayFirst, PeerFine, Table,
                                           GatewayFine, RestFine
  <2> QED BY <1>7, <2>2, <2>3 DEF CheckArpChecking
<1>8. CASE CheckArpOk
  <2>1. RestFine' /\ cfg' = cfg
    BY <1>4, <1>8 DEF CheckArpOk
  <2>2. gwTimer' = gwTimer + 1 /\ gwTimer' \in 0 .. AgeLimit /\ gwMac \in Macs
    BY <1>1, <1>2, <1>8 DEF CheckArpOk, GatewayFine, GatewayHeard
  <2>3. CASE AgeLimit <= gwTimer'
    <3>1. PeerFine' /\ gwStat' = "UNKNOWN" /\ gwMac' = NoMac /\ arp' = arp
      BY <1>5, <1>8, <2>1, <2>3 DEF CheckArpOk
    <3>2. GatewayFine' /\ GatewayHeard'
      BY <1>1, <2>2, <3>1 DEF GatewayFine, GatewayHeard, GatewayStats
    <3> QED BY <2>1, <3>1, <3>2 DEF IInv, TypeOK, GatewayFirst, PeerFine, Table,
                                     GatewayFine, RestFine
  <2>4. CASE ~(AgeLimit <= gwTimer')
    <3>1. f_PeerDetect /\ UNCHANGED <<gwStat, gwMac>> /\ (f_SendArpReq \/ UNCHANGED arp)
      BY <1>8, <2>4 DEF CheckArpOk
    <3>2. PeerFine'
      BY <1>1, <2>1, <2>2, <3>1, DetectKeepsPeer
    <3>3. GatewayFine' /\ GatewayHeard' /\ gwStat' = "ARP_OK"
      BY <1>1, <1>2, <1>3, <1>8, <2>2, <2>4, <3>1
         DEF CheckArpOk, GatewayFine, GatewayHeard
    <3> QED BY <2>1, <3>2, <3>3 DEF IInv, TypeOK, GatewayFirst, PeerFine, Table,
                                     GatewayFine, RestFine
  <2> QED BY <2>3, <2>4
<1> QED BY <1>6, <1>7, <1>8 DEF f_BackNetCheck

LEMMA UpdateKeepsIInv == ASSUME IInv, f_ModUpdateCfg PROVE IInv'
<1>1. /\ PeerFine /\ GatewayFine /\ RestFine /\ GatewayHeard
      /\ stat # "UNKNOWN" => gwStat \in {"ARP_OK", "UNKNOWN"}
  BY Parts
<1>2. PICK c \in Configs, n \in {net, {}} :
        /\ cfg' = c
        /\ chkPeriod' = IF c.period # cfg.period THEN c.period ELSE chkPeriod
        /\ chkReply' = IF c.recover # cfg.recover THEN c.queue - c.recover ELSE chkReply
        /\ f_PeerUpdateCfg(c, IF c.queue # cfg.queue THEN InitWindow(c.queue) ELSE win, n)
  BY DEF f_ModUpdateCfg
<1> DEFINE t == IF c.queue # cfg.queue THEN InitWindow(c.queue) ELSE win
<1>3. /\ c.queue \in Nat \ {0} /\ c.period \in Nat /\ c.queue - c.recover \in Nat
      /\ 0 \in EchoIds
  BY RoutedConfigFacts
<1>4. /\ InitWindow(c.queue) \in Windows(c.queue, EchoIds)
      /\ CountersExact(InitWindow(c.queue))
  BY <1>3, InitKeepsCounters
<1>5. t \in Windows(c.queue, EchoIds) /\ CountersExact(t)
  BY <1>1, <1>4 DEF PeerFine, Table
<1>6. echoSeq' = echoSeq /\ link' = link /\ updates' \in 0 .. MaxUpdates
  BY <1>1, RoutedConstantsOK DEF f_ModUpdateCfg, RestFine
<1>7. PeerFine' /\ (UNCHANGED stat \/ stat' = "UNKNOWN")
  <2>1. f_PeerUpdateCfg(c, t, n)
    BY <1>2
  <2> HIDE DEF t
  <2>2. chkPeriod' \in Nat
    BY <1>1, <1>2, <1>3 DEF PeerFine
  <2>3. CASE UNCHANGED hostVars /\ win' = t /\ net' = n
    BY <1>1, <1>2, <1>5, <1>6, <2>2, <2>3 DEF PeerFine, Table, hostVars
  <2>4. CASE /\ stat' = "UNKNOWN" /\ mac' = NoMac /\ timer' = 0
             /\ win' \in {t, InitWindow(c.queue)}
             /\ net' = {}
    BY <1>1, <1>2, <1>4, <1>5, <1>6, <2>2, <2>4 DEF PeerFine, Table, PeerStats
  <2> QED BY <2>1, <2>3, <2>4 DEF f_PeerUpdateCfg, hostVars
<1>8. /\ GatewayFine' /\ GatewayHeard' /\ gwTrue' \in Macs
      /\ gwStat' = gwStat \/ gwStat' = "UNKNOWN"
  <2>1. CASE UNCHANGED <<gwVars, gwTrue, arp>>
    BY <1>1, <2>1 DEF GatewayFine, GatewayHeard, RestFine, gwVars
  <2>2. CASE f_ResetGateway
    BY <2>2, RoutedConstantsOK DEF f_ResetGateway, GatewayFine, GatewayHeard, GatewayStats
  <2> QED BY <2>1, <2>2 DEF f_ModUpdateCfg
<1>9. RestFine'
  BY <1>1, <1>2, <1>3, <1>6, <1>8 DEF RestFine
<1> QED BY <1>1, <1>7, <1>8, <1>9 DEF IInv, TypeOK, GatewayFirst, PeerFine, Table,
                                       GatewayFine, RestFine

(* Each step keeps the invariant. *)
LEMMA StepIInv == IInv /\ [Next]_vars => IInv'
<1> SUFFICES ASSUME IInv, [Next]_vars PROVE IInv'
  OBVIOUS
<1>1. CASE f_BackNetCheck
  BY <1>1, CheckKeepsIInv
<1>2. CASE HandleMyIcmp
  BY <1>2, IcmpKeepsIInv
<1>3. CASE f_ModUpdateCfg
  BY <1>3, UpdateKeepsIInv
<1>4. CASE SetLink \/ ReplaceGateway \/ GatewayArp \/ HandleArp
  BY <1>4, WireKeepsIInv
<1>5. CASE UNCHANGED vars
  BY <1>5 DEF vars, cfgVars, gwVars, peerVars, hostVars, IInv, TypeOK, GatewayFirst, GatewayHeard
<1> QED BY <1>1, <1>2, <1>3, <1>4, <1>5 DEF Next

(* What a channel forwards goes to a MAC that was learnt, and a peer has a verdict
   only behind a gateway in use, or until the first check after it was lost. *)
THEOREM RoutedSafety == Spec => [](TypeOK /\ GatewayFirst)
<1>1. IInv => TypeOK /\ GatewayFirst
  BY DEF IInv
<1> QED BY InitIInv, StepIInv, <1>1, PTL DEF Spec

-----------------------------------------------------------------------------
(* What the peer was heard of *)

(* A peer that is probed has answered none of its last silent probes. *)
Silence == stat # "UNKNOWN" => Unheard(win, silent)
History == silent \in Nat /\ Silence

(* The threshold for recovery belongs to the table: m_nChkReplyNum is what f_Init
   computes from the configuration in force. *)
ReplyFollowsTable == chkReply = cfg.queue - cfg.recover

(* No update changes the size of the table and leaves the loss recovery tolerates:
   f_ModUpdateCfg computes m_nChkReplyNum anew with the latter only. *)
TablesDifferInRecover == \A c, d \in Configs : c.recover = d.recover => c.queue = d.queue

(* The facts about the state the steps start from. *)
LEMMA HistoryFacts ==
  ASSUME IInv, History
  PROVE  /\ cfg \in Configs /\ cfg.queue \in Nat \ {0} /\ cfg.lost \in Nat \ {0}
         /\ cfg.recover \in Nat /\ cfg.lost <= cfg.queue /\ cfg.recover < cfg.lost
         /\ win \in Windows(cfg.queue, EchoIds) /\ CountersExact(win) /\ win.rsp \in Nat
         /\ SeqSpace \in Nat \ {0} /\ echoSeq \in EchoIds
         /\ CheckTimeout(win) \in Windows(cfg.queue, EchoIds)
         /\ silent \in Nat
<1>1. cfg \in Configs /\ cfg.queue \in Nat \ {0} /\ win \in Windows(cfg.queue, EchoIds)
  BY RoutedConfigFacts DEF IInv, TypeOK
<1>2. cfg.lost <= cfg.queue /\ cfg.recover < cfg.lost
  BY <1>1, RoutedConfigsOK
<1>3. CheckTimeout(win) \in Windows(cfg.queue, EchoIds)
  BY <1>1, TimeoutKeepsCounters DEF IInv, TypeOK
<1>4. win.rsp \in Nat
  BY <1>1 DEF Windows
<1> QED BY <1>1, <1>2, <1>3, <1>4, RoutedConfigFacts DEF IInv, TypeOK, History

(* A check of the peer probes it once more and hears nothing. *)
LEMMA DetectHistory ==
  ASSUME IInv, History, f_PeerDetect, cfg' = cfg, win' \in Windows(cfg.queue, EchoIds),
         silent' \in Nat, silent' <= silent + 1, echoSeq' # echoSeq \/ silent' = silent
  PROVE  Silence'
<1>1. /\ cfg.queue \in Nat \ {0} /\ silent \in Nat
      /\ win \in Windows(cfg.queue, EchoIds) /\ CountersExact(win)
      /\ CheckTimeout(win) \in Windows(cfg.queue, EchoIds)
      /\ SeqSpace \in Nat \ {0} /\ echoSeq \in EchoIds
  BY HistoryFacts
<1>2. CASE UNCHANGED <<echoSeq, win, net, hostVars>>
  BY <1>2 DEF History, Silence, hostVars
<1>3. CASE PeerUnknown
  <2>1. Unheard(win', silent')
    BY <1>1, <1>3, NothingHeard DEF PeerUnknown, EchoIds
  <2> QED BY <2>1 DEF Silence
<1>4. CASE PeerChecking \/ PeerOk \/ PeerFailed
  <2>1. /\ f_SendEchoReq(win) \/ f_SendEchoReq(CheckTimeout(win))
        /\ Unheard(win, silent)
    BY <1>4 DEF PeerChecking, PeerOk, PeerFailed, History, Silence
  <2>2. Unheard(CheckTimeout(win), silent)
    BY <2>1, TimeoutStaysUnheard
  <2>3. Unheard(win', silent + 1)
    BY <1>1, <2>1, <2>2, SendIsUnheard DEF f_SendEchoReq
  <2>4. Unheard(win', silent')
    BY <1>1, <2>3, UnheardShrinks
  <2> QED BY <2>4 DEF Silence
<1> QED BY <1>2, <1>3, <1>4 DEF f_PeerDetect

LEMMA CheckHistory == ASSUME IInv, History, MCCheck PROVE History'
<1>1. silent' \in Nat /\ silent' <= silent + 1 /\ (echoSeq' # echoSeq \/ silent' = silent)
  BY HistoryFacts DEF MCCheck, Cap
<1>2. cfg' = cfg
  BY DEF MCCheck, f_BackNetCheck, CheckUnknown, CheckArpChecking, CheckArpOk, cfgVars
<1>3. win' \in Windows(cfg.queue, EchoIds)
  BY <1>2, CheckKeepsIInv DEF MCCheck, IInv, TypeOK
<1>4. CASE f_PeerDetect
  BY <1>1, <1>2, <1>3, <1>4, DetectHistory DEF History
<1>5. CASE UNCHANGED peerVars
  BY <1>1, <1>5 DEF peerVars, hostVars, History, Silence
<1>6. CASE CheckUnknown
  BY <1>1, <1>6 DEF CheckUnknown, History, Silence
<1> QED
  BY <1>4, <1>5, <1>6 DEF MCCheck, f_BackNetCheck, CheckArpChecking, CheckArpOk

(* An answer that is booked ends the silence. *)
LEMMA IcmpHistory == ASSUME IInv, History, MCIcmp PROVE History'
<1>1. /\ cfg.queue \in Nat \ {0} /\ silent \in Nat
      /\ win \in Windows(cfg.queue, EchoIds) /\ CountersExact(win) /\ win.rsp \in Nat
      /\ SeqSpace \in Nat \ {0} /\ echoSeq \in EchoIds
  BY HistoryFacts
<1>2. PICK i \in net : win' = OnGetOneRsp(win, i)
  BY DEF MCIcmp, HandleMyIcmp
<1>3. stat' = stat
  BY DEF MCIcmp, HandleMyIcmp, hostVars
<1>4. /\ win' \in Windows(cfg.queue, EchoIds) /\ CountersExact(win')
      /\ win' = win \/ win'.rsp > win.rsp
  BY <1>1, <1>2, RspKeepsCounters, AnswerCounts
<1>5. CASE win'.rsp > win.rsp
  <2>1. silent' = 0 /\ Unheard(win', 0)
    BY <1>1, <1>4, <1>5, NothingHeard DEF MCIcmp, EchoIds
  <2> QED BY <2>1 DEF History, Silence
<1>6. CASE ~ (win'.rsp > win.rsp)
  BY <1>1, <1>3, <1>4, <1>6 DEF MCIcmp, History, Silence
<1> QED BY <1>5, <1>6

(* An update begins the count anew. *)
LEMMA UpdateHistory == ASSUME IInv, MCUpdate PROVE History'
<1>1. cfg' \in Configs /\ win' \in Windows(cfg'.queue, EchoIds) /\ CountersExact(win')
  BY UpdateKeepsIInv DEF MCUpdate, IInv, TypeOK
<1>2. cfg'.queue \in Nat \ {0} /\ SeqSpace \in Nat \ {0} /\ echoSeq \in EchoIds
  BY <1>1, RoutedConfigFacts DEF IInv, TypeOK
<1>3. silent' = 0 /\ Unheard(win', 0)
  BY <1>1, <1>2, NothingHeard DEF MCUpdate, EchoIds
<1> QED BY <1>3 DEF History, Silence

LEMMA WireHistory == ASSUME History, MCWire PROVE History'
BY DEF MCWire, HandleArp, SetLink, ReplaceGateway, GatewayArp, peerVars, hostVars,
       History, Silence

(* Each step keeps what was heard. *)
LEMMA StepHistory == IInv /\ History /\ [MCNext]_mcvars => History'
<1> SUFFICES ASSUME IInv, History, [MCNext]_mcvars PROVE History'
  OBVIOUS
<1>1. CASE UNCHANGED mcvars
  BY <1>1 DEF mcvars, vars, peerVars, hostVars, History, Silence
<1> QED BY <1>1, CheckHistory, IcmpHistory, UpdateHistory, WireHistory DEF MCNext

(* The check with which the peer comes into use: enough is answered, so little is
   silent. *)
LEMMA EntryIsHeard ==
  ASSUME IInv, History, ReplyFollowsTable, f_PeerDetect, stat # "ECHO_OK", stat' = "ECHO_OK"
  PROVE  silent <= cfg.recover
<1>1. /\ cfg.queue \in Nat \ {0} /\ cfg.lost \in Nat \ {0} /\ cfg.lost <= cfg.queue
      /\ cfg.recover \in Nat /\ cfg.recover < cfg.lost
      /\ win \in Windows(cfg.queue, EchoIds) /\ CountersExact(win) /\ win.rsp \in Nat
      /\ silent \in Nat
  BY HistoryFacts
<1>2. stat = "ECHO_CHECKING" /\ chkReply <= win.rsp
  BY DEF f_PeerDetect, PeerUnknown, PeerChecking, PeerOk, PeerFailed, hostVars, GetRspNum
<1>3. chkReply = cfg.queue - cfg.recover /\ Unheard(win, silent)
  BY <1>2 DEF ReplyFollowsTable, History, Silence
<1>4. silent < cfg.queue
  <2> SUFFICES ASSUME silent >= cfg.queue PROVE FALSE
    BY <1>1
  <2>1. Unheard(win, cfg.queue)
    BY <1>1, <1>3, UnheardShrinks
  <2>2. win.rsp + cfg.queue <= cfg.queue
    BY <1>1, <2>1, UnheardBoundsRsp
  <2> QED BY <1>1, <1>2, <1>3, <2>2
<1>5. win.rsp + silent <= cfg.queue
  BY <1>1, <1>3, <1>4, UnheardBoundsRsp
<1> QED BY <1>1, <1>2, <1>3, <1>5

(* The check that keeps the peer in use: what is silent is lost. *)
LEMMA StayIsHeard ==
  ASSUME IInv, History, DetectsFailure, PeerOk, stat' = "ECHO_OK"
  PROVE  silent < cfg.lost
<1>1. /\ cfg.queue \in Nat \ {0} /\ cfg.lost \in Nat \ {0} /\ cfg.lost <= cfg.queue
      /\ win \in Windows(cfg.queue, EchoIds) /\ CountersExact(win) /\ silent \in Nat
      /\ CheckTimeout(win) \in Windows(cfg.queue, EchoIds)
  BY HistoryFacts
<1>2. stat = "ECHO_OK" /\ ~ (cfg.lost <= CheckTimeout(win).lost)
  BY DEF PeerOk
<1>3. Unheard(win, silent) /\ silent <= cfg.lost
  BY <1>2 DEF History, Silence, DetectsFailure
<1>4. CheckTimeout(win).lost >= silent
  BY <1>1, <1>3, TimeoutIsUnheard
<1>5. CheckTimeout(win).lost \in Nat
  BY <1>1 DEF Windows
<1> QED BY <1>1, <1>2, <1>4, <1>5

(* Silence grows only with a check of the peer, and none keeps a silent peer in use. *)
LEMMA StepDetects ==
  IInv /\ History /\ ReplyFollowsTable /\ DetectsFailure /\ [MCNext]_mcvars => DetectsFailure'
<1> SUFFICES ASSUME IInv, History, ReplyFollowsTable, DetectsFailure, [MCNext]_mcvars,
                    stat' = "ECHO_OK"
             PROVE  silent' <= cfg'.lost
  BY DEF DetectsFailure
<1>1. /\ cfg.lost \in Nat \ {0} /\ cfg.recover \in Nat /\ cfg.recover < cfg.lost
      /\ silent \in Nat
  BY HistoryFacts
<1>2. CASE MCCheck
  <2>1. silent' <= silent + 1 /\ silent' \in Nat /\ (echoSeq' # echoSeq \/ silent' = silent)
    BY <1>1, <1>2 DEF MCCheck, Cap
  <2>2. cfg' = cfg
    BY <1>2 DEF MCCheck, f_BackNetCheck, CheckUnknown, CheckArpChecking, CheckArpOk, cfgVars
  <2>3. f_PeerDetect \/ UNCHANGED peerVars
    BY <1>2 DEF MCCheck, f_BackNetCheck, CheckUnknown, CheckArpChecking, CheckArpOk
  <2>4. CASE f_PeerDetect /\ stat # "ECHO_OK"
    BY <1>1, <2>1, <2>2, <2>4, EntryIsHeard
  <2>5. CASE PeerOk
    BY <1>1, <2>1, <2>2, <2>5, StayIsHeard
  <2>6. CASE stat = "ECHO_OK" /\ echoSeq' = echoSeq
    BY <2>1, <2>2, <2>6 DEF DetectsFailure
  <2>7. f_PeerDetect /\ stat = "ECHO_OK" => PeerOk \/ echoSeq' = echoSeq
    BY DEF f_PeerDetect, PeerUnknown, PeerChecking, PeerFailed
  <2> QED BY <2>3, <2>4, <2>5, <2>6, <2>7 DEF peerVars, hostVars
<1>3. CASE MCIcmp
  BY <1>1, <1>3 DEF MCIcmp, HandleMyIcmp, DetectsFailure, cfgVars, hostVars
<1>4. CASE MCUpdate
  <2>1. silent' = 0 /\ cfg' \in Configs
    BY <1>4 DEF MCUpdate, f_ModUpdateCfg
  <2> QED BY <2>1, RoutedConfigFacts
<1>5. CASE MCWire
  BY <1>5 DEF MCWire, HandleArp, SetLink, ReplaceGateway, GatewayArp, DetectsFailure,
              cfgVars, peerVars, hostVars
<1>6. CASE UNCHANGED mcvars
  BY <1>6 DEF mcvars, vars, peerVars, hostVars, cfgVars, DetectsFailure
<1> QED BY <1>2, <1>3, <1>4, <1>5, <1>6 DEF MCNext

(* The history variable watches the network and does not steer it. *)
LEMMA MCStepIsStep == [MCNext]_mcvars => [Next]_vars
BY DEF MCNext, MCCheck, MCIcmp, MCUpdate, MCWire, Next, mcvars, vars

(* The threshold the answers are compared with is the one the configuration in force
   asks for, if every update that changes the size of the table changes the loss
   recovery tolerates too; f_ModUpdateCfg computes it then. *)
THEOREM ReplyIsRight ==
  ASSUME TablesDifferInRecover PROVE Spec => []ReplyFollowsTable
<1>1. Init => ReplyFollowsTable
  BY DEF Init, ReplyFollowsTable
<1>2. ASSUME IInv, ReplyFollowsTable, [Next]_vars PROVE ReplyFollowsTable'
  <2>1. CASE f_ModUpdateCfg
    BY <1>2, <2>1 DEF f_ModUpdateCfg, ReplyFollowsTable, TablesDifferInRecover, IInv, TypeOK
  <2>2. CASE UNCHANGED cfgVars
    BY <1>2, <2>2 DEF ReplyFollowsTable, cfgVars
  <2>3. f_ModUpdateCfg \/ UNCHANGED cfgVars
    BY <1>2 DEF Next, f_BackNetCheck, CheckUnknown, CheckArpChecking, CheckArpOk, HandleArp,
                HandleMyIcmp, SetLink, ReplaceGateway, GatewayArp, vars
  <2> QED BY <2>1, <2>2, <2>3
<1> QED BY InitIInv, StepIInv, <1>1, <1>2, PTL DEF Spec

(* A dead back-up network is given up in time, whatever happens to its gateway: as
   long as the threshold of recovery belongs to the table, the peer does not stay in
   use for more than m_nChkLostNum checks after the last answer that was booked. *)
THEOREM DeadNetworkGivenUp == MCSpec /\ []ReplyFollowsTable => []DetectsFailure
<1>1. MCInit => IInv /\ History /\ DetectsFailure
  BY InitIInv DEF MCInit, Init, History, Silence, DetectsFailure
<1>2. IInv /\ History /\ [MCNext]_mcvars => (IInv /\ History)'
  BY MCStepIsStep, StepIInv, StepHistory
<1> QED BY <1>1, <1>2, StepDetects, PTL DEF MCSpec
=============================================================================
