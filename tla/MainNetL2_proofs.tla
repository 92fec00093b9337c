--------------------------- MODULE MainNetL2_proofs --------------------------
(***************************************************************************)
(* For every configuration, network and sequence of updates: the records   *)
(* of gateway and peer are well formed with exact counters, the peer has a *)
(* verdict only behind a gateway that answers, and MACs are known when     *)
(* they are used.                                                          *)
(***************************************************************************)
EXTENDS MCMainNetL2, TestWindow_proofs

(* MacKnown holds because every request that finds the MAC forgotten empties the
   table's only slot: the answer counted in it came after the reset. *)
IInv == TypeOK /\ GatewayFirst /\ MacKnown

(* What the assumptions say of one configuration. *)
LEMMA MainConfigFacts ==
  ASSUME NEW c \in Configs
  PROVE  /\ c.queue \in Nat \ {0} /\ c.period \in Nat \ {0} /\ c.timeout \in Nat
         /\ c.queue - c.recover \in Nat
         /\ SeqSpace \in Nat \ {0} /\ 0 \in EchoIds
<1>1. c \in ConfigType /\ c.lost <= c.queue /\ c.recover < c.lost /\ c.queue < SeqSpace
  BY MainConfigsOK
<1>2. /\ c.queue \in Nat \ {0} /\ c.period \in Nat \ {0} /\ c.lost \in Nat \ {0}
      /\ c.recover \in Nat /\ c.timeout \in Nat
  BY <1>1 DEF ConfigType
<1> QED BY <1>1, <1>2, MainConstantsOK DEF EchoIds

(* Sending one probe to the peer keeps its table and the answers under way. *)
LEMMA EchoKeeps ==
  ASSUME TypeOK, NEW w \in Windows(cfg.queue, EchoIds), CountersExact(w), f_SendEchoReq(w)
  PROVE  /\ echoSeq' \in EchoIds
         /\ win' \in Windows(cfg.queue, EchoIds) /\ CountersExact(win')
         /\ net' \subseteq EchoIds
<1>1. cfg.queue \in Nat \ {0} /\ SeqSpace \in Nat \ {0} /\ echoSeq \in EchoIds
  BY MainConfigFacts DEF TypeOK
<1>2. echoSeq' = (echoSeq + 1) % SeqSpace /\ win' = OnSendOneRequest(w, echoSeq')
  BY DEF f_SendEchoReq
<1>3. echoSeq' \in EchoIds
  BY <1>1, <1>2 DEF EchoIds
<1>4. win' \in Windows(cfg.queue, EchoIds) /\ CountersExact(win')
  BY <1>1, <1>2, <1>3, SendKeepsCounters
<1>5. net' \subseteq EchoIds
  <2>1. net' = UnderWay({echoSeq'}, mac, win')
    BY DEF f_SendEchoReq
  <2> QED BY <1>3, <2>1 DEF UnderWay, TypeOK
<1> QED BY <1>3, <1>4, <1>5

(* What the rest of the invariant needs from a probe of the peer. *)
PeerFine == /\ chkPeriod' \in Nat /\ echoSeq' \in EchoIds
            /\ stat' \in PeerStats /\ mac' \in Macs \cup {NoMac} /\ timer' \in Nat
            /\ win' \in Windows(cfg.queue, EchoIds) /\ CountersExact(win')
            /\ net' \subseteq EchoIds
            /\ stat' # "UNKNOWN" => mac' # NoMac

(* f_PeerDetect, behind a gateway whose MAC is known. *)
LEMMA DetectKeeps == ASSUME TypeOK, MacKnown, gwMac # NoMac, f_PeerDetect PROVE PeerFine
<1>1. /\ cfg.queue \in Nat \ {0} /\ cfg.period \in Nat /\ timer \in Nat
      /\ SeqSpace \in Nat \ {0} /\ echoSeq \in EchoIds /\ chkPeriod \in Nat
      /\ win \in Windows(cfg.queue, EchoIds) /\ CountersExact(win)
      /\ net \subseteq EchoIds /\ stat \in PeerStats
      /\ mac \in Macs \cup {NoMac} /\ gwMac \in Macs \cup {NoMac}
      /\ stat # "UNKNOWN" => mac # NoMac
  BY MainConfigFacts DEF TypeOK, MacKnown
<1>2. /\ CheckTimeout(win) \in Windows(cfg.queue, EchoIds)
      /\ CountersExact(CheckTimeout(win))
  BY <1>1, TimeoutKeepsCounters
<1> DEFINE Sent == /\ echoSeq' \in EchoIds
                   /\ win' \in Windows(cfg.queue, EchoIds) /\ CountersExact(win')
                   /\ net' \subseteq EchoIds
<1>3. ASSUME f_SendEchoReq(win) \/ f_SendEchoReq(CheckTimeout(win)) PROVE Sent
  BY <1>1, <1>2, <1>3, EchoKeeps
<1>4. CASE chkPeriod' = chkPeriod + 1 /\ UNCHANGED <<echoSeq, stat, mac, timer, win, net>>
  BY <1>1, <1>4 DEF PeerFine
<1>5. CASE chkPeriod' = 0 /\ PeerUnknown
  <2>1. win' = FillWindow(win, echoSeq, SeqSpace) /\ net' = UnderWay(IdsIn(win'), mac', win')
    BY <1>5 DEF PeerUnknown
  <2>2. win' \in Windows(cfg.queue, EchoIds) /\ CountersExact(win')
    BY <1>1, <2>1, FillKeepsCounters DEF EchoIds
  <2>3. echoSeq' \in EchoIds
    BY <1>1, <1>5 DEF PeerUnknown, EchoIds
  <2>4. net' \subseteq EchoIds
    <3>1. IdsIn(win') \subseteq EchoIds
      BY <2>2 DEF IdsIn, SlotsOf, Windows, OneTestItem
    <3> QED BY <1>1, <2>1, <3>1 DEF UnderWay
  <2>5. stat' = "ECHO_CHECKING" /\ timer' = 0 /\ mac' = gwMac
    BY <1>5 DEF PeerUnknown
  <2> QED BY <1>1, <1>5, <2>2, <2>3, <2>4, <2>5 DEF PeerFine, PeerStats
<1>6. CASE chkPeriod' = 0 /\ PeerChecking
  <2>1. Sent
    BY <1>3, <1>6 DEF PeerChecking
  <2> QED BY <1>1, <1>6, <2>1 DEF PeerChecking, PeerFine, PeerStats
<1>7. CASE chkPeriod' = 0 /\ PeerOk
  <2>1. Sent
    BY <1>3, <1>7 DEF PeerOk
  <2> QED BY <1>1, <1>7, <2>1 DEF PeerOk, PeerFine, PeerStats
<1>8. CASE chkPeriod' = 0 /\ PeerFailed
  <2>1. Sent
    BY <1>3, <1>8 DEF PeerFailed
  <2> QED BY <1>1, <1>8, <2>1 DEF PeerFailed, PeerFine, PeerStats
<1> QED BY <1>4, <1>5, <1>6, <1>7, <1>8 DEF f_PeerDetect

LEMMA InitIInv == Init => IInv
<1> SUFFICES ASSUME Init PROVE IInv
  OBVIOUS
<1>1. cfg \in Configs
  BY DEF Init
<1>2. win \in Windows(cfg.queue, EchoIds) /\ CountersExact(win)
  BY <1>1, MainConfigFacts, InitKeepsCounters DEF Init
<1>3. gwWin \in Windows(1, ArpIds) /\ CountersExact(gwWin)
  BY InitKeepsCounters DEF Init, ArpIds
<1>4. 0 \in EchoIds /\ cfg.period \in Nat /\ cfg.queue - cfg.recover \in Nat
  BY <1>1, MainConfigFacts
<1>5. TypeOK
  BY <1>1, <1>2, <1>3, <1>4, MainConstantsOK DEF Init, TypeOK, GatewayStats, PeerStats
<1> QED BY <1>5 DEF IInv, GatewayFirst, MacKnown, GetRspNum, Init

(* The network, and the packets that do not concern the gateway. *)
LEMMA WireIInv ==
  ASSUME IInv, SetLink \/ ReplaceGateway \/ GatewayArp \/ \E h \in Hosts : HandleHostArp(h)
  PROVE  IInv'
<1> USE DEF IInv, TypeOK, GatewayFirst, MacKnown, GetRspNum, cfgVars, gwVars, peerVars,
            hostVars
<1>1. CASE SetLink
  BY <1>1 DEF SetLink
<1>2. CASE ReplaceGateway
  BY <1>2 DEF ReplaceGateway
<1>3. CASE GatewayArp
  BY <1>3 DEF GatewayArp
<1>4. CASE \E h \in Hosts : HandleHostArp(h)
  <2>1. PICK h \in Hosts : HandleHostArp(h)
    BY <1>4
  <2>2. arpTable' \subseteq Hosts /\ spoofed' \subseteq Hosts
    BY <2>1 DEF HandleHostArp, InsertArpItem
  <2> QED BY <2>1, <2>2 DEF HandleHostArp
<1> QED BY <1>1, <1>2, <1>3, <1>4

(* The answers of the gateway and of the peer. *)
LEMMA AnswerIInv == ASSUME IInv, HandleGatewayArp \/ HandleMyIcmp PROVE IInv'
<1>1. CASE HandleGatewayArp
  <2>1. gwWin' \in Windows(1, ArpIds) /\ CountersExact(gwWin')
    BY <1>1, RspKeepsCounters DEF HandleGatewayArp, IInv, TypeOK
  <2>2. gwMac' \in Macs /\ gwMac' # NoMac
    BY <1>1, MainConstantsOK DEF HandleGatewayArp, IInv, TypeOK
  <2> QED BY <1>1, <2>1, <2>2 DEF HandleGatewayArp, IInv, TypeOK, GatewayFirst, MacKnown,
                                  GetRspNum, cfgVars, peerVars, hostVars
<1>2. CASE HandleMyIcmp
  <2>1. PICK i \in net :
          /\ win' = OnGetOneRsp(win, i)
          /\ net' = net \ {i} \/ net' = net
          /\ UNCHANGED <<cfgVars, gwVars, hostVars, chkPeriod, echoSeq, stat, mac, timer,
                         link, gwTrue, arp>>
    BY <1>2 DEF HandleMyIcmp
  <2>2. cfg.queue \in Nat
    BY MainConfigFacts DEF IInv, TypeOK
  <2>3. win' \in Windows(cfg.queue, EchoIds) /\ CountersExact(win')
    BY <2>1, <2>2, RspKeepsCounters DEF IInv, TypeOK
  <2> QED BY <2>1, <2>3 DEF IInv, TypeOK, GatewayFirst, MacKnown, GetRspNum, cfgVars,
                            gwVars, hostVars
<1> QED BY <1>1, <1>2

(* What a check leaves of the gateway's record and of the ARP packet under way, when
   it sends its request with the table w. *)
LEMMA RequestKeeps ==
  ASSUME TypeOK, NEW w \in Windows(1, ArpIds), CountersExact(w), f_SendArpReq(w)
  PROVE  /\ gwWin' \in Windows(1, ArpIds) /\ CountersExact(gwWin') /\ gwWin'.rsp = 0
         /\ arp' \in Macs \cup {NoMac}
<1>1. gwWin' = OnSendOneRequest(w, 1) /\ (arp' = gwTrue \/ arp' = arp)
  BY DEF f_SendArpReq
<1> QED BY <1>1, OneSlotSend DEF TypeOK, ArpIds

(* One check, by the state the gateway is in. *)
LEMMA CheckIInv == ASSUME IInv, f_MainNetCheck PROVE IInv'
<1> DEFINE Rest == UNCHANGED <<cfgVars, gwMac, link, gwTrue>>
           Asked == /\ gwWin' \in Windows(1, ArpIds) /\ CountersExact(gwWin')
                    /\ gwWin'.rsp = 0
                    /\ arp' \in Macs \cup {NoMac}
           Peer == /\ PeerFine
                   /\ gwStat' \in GatewayStats
                   /\ gwStat' # "ARP_OK" => stat' = "UNKNOWN"
                   /\ gwStat' = "ARP_OK" => gwMac # NoMac
           Told == arpTable' \subseteq Hosts /\ spoofed' \subseteq Hosts
<1>1. ASSUME Rest, Asked, Peer, Told PROVE IInv'
  BY <1>1 DEF IInv, TypeOK, GatewayFirst, MacKnown, GetRspNum, PeerFine, cfgVars
<1>2. /\ TypeOK /\ GatewayFirst /\ MacKnown
      /\ gwWin \in Windows(1, ArpIds) /\ CountersExact(gwWin) /\ gwWin.rsp \in 0 .. 1
  BY DEF IInv, TypeOK, Windows
<1>3. /\ CheckTimeout(gwWin) \in Windows(1, ArpIds)
      /\ CountersExact(CheckTimeout(gwWin))
  BY <1>2, TimeoutKeepsCounters
<1>4. ASSUME f_SendArpReq(gwWin) \/ f_SendArpReq(CheckTimeout(gwWin)) PROVE Asked
  BY <1>2, <1>3, <1>4, RequestKeeps
<1>5. ASSUME UNCHANGED <<chkPeriod, echoSeq, mac, timer, win, net>>,
             stat' = "UNKNOWN" \/ UNCHANGED stat
      PROVE  PeerFine
  BY <1>2, <1>5 DEF TypeOK, MacKnown, PeerFine, PeerStats
<1>6. ASSUME GatewayLost PROVE Peer /\ Told
  BY <1>2, <1>5, <1>6 DEF GatewayLost, GatewayStats, f_ArpSpoof, TypeOK
<1>7. ASSUME GatewayServes, gwMac # NoMac PROVE Peer /\ Told
  <2>1. PeerFine
    BY <1>2, <1>7, DetectKeeps DEF GatewayServes
  <2> QED BY <1>2, <1>7, <2>1 DEF GatewayServes, GatewayStats, TypeOK
<1>8. CASE CheckGatewayUnknown
  <2>1. Rest /\ Asked
    BY <1>4, <1>8 DEF CheckGatewayUnknown
  <2>2. Peer /\ Told
    BY <1>2, <1>5, <1>8 DEF CheckGatewayUnknown, GatewayStats, TypeOK, hostVars
  <2> QED BY <1>1, <2>1, <2>2
<1>9. CASE CheckGatewayChecking
  <2>1. Rest /\ Asked
    BY <1>4, <1>9 DEF CheckGatewayChecking
  <2>2. Peer /\ Told
    <3>1. CASE GetRspNum(gwWin) >= 1 /\ GatewayServes
      BY <1>2, <1>7, <1>9, <3>1 DEF CheckGatewayChecking, MacKnown
    <3>2. CASE GatewayLost
      BY <1>6, <3>2
    <3>3. CASE UNCHANGED <<gwStat, peerVars, hostVars>>
      <4>1. gwStat' = "ARP_CHECKING" /\ stat' = "UNKNOWN"
        BY <1>2, <1>9, <3>3 DEF CheckGatewayChecking, GatewayFirst, peerVars
      <4> QED BY <1>2, <1>5, <3>3, <4>1 DEF GatewayStats, TypeOK, peerVars, hostVars
    <3> QED BY <1>9, <3>1, <3>2, <3>3 DEF CheckGatewayChecking
  <2> QED BY <1>1, <2>1, <2>2
<1>10. CASE CheckGatewayOk
  <2>1. Rest /\ Asked
    BY <1>4, <1>10 DEF CheckGatewayOk
  <2>2. Peer /\ Told
    BY <1>2, <1>6, <1>7, <1>10 DEF CheckGatewayOk, MacKnown
  <2> QED BY <1>1, <2>1, <2>2
<1>11. CASE CheckGatewayFailed
  <2>1. Rest /\ Asked
    BY <1>4, <1>11 DEF CheckGatewayFailed
  <2>2. stat' = "UNKNOWN" /\ gwStat' \in {"ARP_CHECKING", "ARP_FAILED"}
    BY <1>2, <1>11 DEF CheckGatewayFailed, GatewayFirst, peerVars
  <2>3. Peer
    BY <1>5, <1>11, <2>2 DEF CheckGatewayFailed, GatewayStats, peerVars
  <2>4. Told
    BY <1>2, <1>11 DEF CheckGatewayFailed, f_ArpSpoof, f_ArpRestore, TypeOK
  <2> QED BY <1>1, <2>1, <2>3, <2>4
<1> QED BY <1>8, <1>9, <1>10, <1>11 DEF f_MainNetCheck

LEMMA UpdateIInv == ASSUME IInv, f_ModUpdateCfg PROVE IInv'
<1>1. PICK c \in Configs, n \in {net, {}} :
        /\ cfg' = c
        /\ chkPeriod' = IF c.period # cfg.period THEN c.period ELSE chkPeriod
        /\ chkReply' = IF c.recover # cfg.recover THEN c.queue - c.recover ELSE chkReply
        /\ \/ n = net /\ UNCHANGED <<gwStat, gwMac, gwTrue, arp, spoofed>>
           \/ f_ResetGateway
        /\ f_UpdatePeer(c, IF c.queue # cfg.queue THEN InitWindow(c.queue) ELSE win, n)
  BY DEF f_ModUpdateCfg
<1> DEFINE t == IF c.queue # cfg.queue THEN InitWindow(c.queue) ELSE win
<1>2. /\ c.queue \in Nat \ {0} /\ c.period \in Nat /\ c.queue - c.recover \in Nat
      /\ 0 \in EchoIds
  BY MainConfigFacts
<1>3. /\ InitWindow(c.queue) \in Windows(c.queue, EchoIds)
      /\ CountersExact(InitWindow(c.queue))
  BY <1>2, InitKeepsCounters
<1>4. t \in Windows(c.queue, EchoIds) /\ CountersExact(t)
  BY <1>3 DEF IInv, TypeOK
<1>5. /\ win' \in Windows(c.queue, EchoIds) /\ CountersExact(win')
      /\ mac' \in Macs \cup {NoMac} /\ timer' \in Nat /\ net' \subseteq EchoIds
      /\ \/ stat' = "UNKNOWN"
         \/ UNCHANGED <<stat, mac>>
  <2>1. f_UpdatePeer(c, t, n)
    BY <1>1
  <2> HIDE DEF t
  <2>2. CASE UNCHANGED <<stat, mac, timer>> /\ win' = t /\ net' = n
    BY <1>4, <2>2 DEF IInv, TypeOK
  <2>3. CASE /\ stat' = "UNKNOWN" /\ mac' = NoMac /\ timer' = 0
             /\ win' \in {t, InitWindow(c.queue)}
             /\ net' = {}
    BY <1>3, <1>4, <2>3
  <2> QED BY <2>1, <2>2, <2>3 DEF f_UpdatePeer
<1>6. /\ gwMac' \in Macs \cup {NoMac} /\ gwTrue' \in Macs /\ arp' \in Macs \cup {NoMac}
      /\ spoofed' \subseteq Hosts
      /\ gwStat' = "UNKNOWN" \/ UNCHANGED <<gwStat, gwMac>>
  BY <1>1 DEF f_ResetGateway, IInv, TypeOK
<1>7. chkPeriod' \in Nat /\ chkReply' \in Nat
  BY <1>1, <1>2 DEF IInv, TypeOK
<1>8. updates' \in 0 .. MaxUpdates /\ UNCHANGED <<echoSeq, gwWin, arpTable, link>>
  BY MainConstantsOK DEF f_ModUpdateCfg, IInv, TypeOK
<1>9. TypeOK'
  BY <1>1, <1>5, <1>6, <1>7, <1>8 DEF IInv, TypeOK, PeerStats, GatewayStats
<1>10. GatewayFirst' /\ MacKnown'
  BY <1>5, <1>6, <1>8 DEF IInv, GatewayFirst, MacKnown, GetRspNum
<1> QED BY <1>9, <1>10 DEF IInv

LEMMA StepIInv == IInv /\ [Next]_vars => IInv'
<1> SUFFICES ASSUME IInv, [Next]_vars PROVE IInv'
  OBVIOUS
<1>1. CASE f_MainNetCheck
  BY <1>1, CheckIInv
<1>2. CASE HandleGatewayArp \/ HandleMyIcmp
  BY <1>2, AnswerIInv
<1>3. CASE f_ModUpdateCfg
  BY <1>3, UpdateIInv
<1>4. CASE SetLink \/ ReplaceGateway \/ GatewayArp \/ \E h \in Hosts : HandleHostArp(h)
  BY <1>4, WireIInv
<1>5. CASE UNCHANGED vars
  BY <1>5 DEF vars, cfgVars, gwVars, peerVars, hostVars, IInv, TypeOK, GatewayFirst,
              MacKnown, GetRspNum
<1> QED BY <1>1, <1>2, <1>3, <1>4, <1>5 DEF Next

(* Gateway and peer: the records are well formed with exact counters, the peer has a
   verdict only behind a gateway that answers, and MACs are known when used. *)
THEOREM MainNetSafety == Spec => [](TypeOK /\ GatewayFirst /\ MacKnown)
<1>1. IInv => TypeOK /\ GatewayFirst /\ MacKnown
  BY DEF IInv
<1> QED BY InitIInv, StepIInv, <1>1, PTL DEF Spec

(* The MAC of a gateway in use, that of a lost or new one an answer of which was
   counted, and that of a peer under test are known. *)
THEOREM GatewayMacKnown == Spec => []MacKnown
BY MainNetSafety, PTL
-----------------------------------------------------------------------------
(* The properties that look back, with the history variables of MCMainNetL2. *)

(* SpoofUndone is not inductive: f_ArpRestore reaches every spoofed host only because
   those that are not astray are in the table, and none leaves it while the gateway
   is lost. *)
SpoofKnown == SpoofUndone /\ spoofed \subseteq arpTable \cup stray

LEMMA AstrayKnows ==
  ASSUME SpoofKnown, Astray,
         \/ gwStat' = "ARP_FAILED" /\ arpTable \subseteq arpTable'
         \/ gwStat # "ARP_FAILED" /\ spoofed' \subseteq spoofed
         \/ gwStat = "ARP_FAILED" /\ gwStat' = "UNKNOWN" /\ spoofed' \subseteq spoofed
         \/ spoofed' = spoofed \ arpTable
  PROVE  SpoofKnown'
BY DEF SpoofKnown, SpoofUndone, Astray

(* When the gateway is not lost, no host the probe has a record of still sends the
   gateway's packets to it: for any number of hosts and any size of the table. *)
THEOREM SpoofingUndone == MCSpec => []SpoofUndone
<1>1. MCInit => SpoofKnown
  BY DEF MCInit, Init, SpoofKnown, SpoofUndone
<1>2. SpoofKnown /\ [MCNext]_mcvars => SpoofKnown'
  <2> SUFFICES ASSUME SpoofKnown, [MCNext]_mcvars PROVE SpoofKnown'
    OBVIOUS
  <2>1. CASE MCCheck
    <3>1. CASE CheckGatewayUnknown
      BY <2>1, <3>1, AstrayKnows DEF MCCheck, CheckGatewayUnknown, hostVars
    <3>2. CASE CheckGatewayChecking
      BY <2>1, <3>2, AstrayKnows
      DEF MCCheck, CheckGatewayChecking, GatewayServes, GatewayLost, gwVars, hostVars
    <3>3. CASE CheckGatewayOk
      BY <2>1, <3>3, AstrayKnows DEF MCCheck, CheckGatewayOk, GatewayServes, GatewayLost
    <3>4. CASE CheckGatewayFailed
      BY <2>1, <3>4, AstrayKnows DEF MCCheck, CheckGatewayFailed, f_ArpRestore
    <3> QED BY <2>1, <3>1, <3>2, <3>3, <3>4 DEF MCCheck, f_MainNetCheck
  <2>2. CASE MCGatewayArp
    BY <2>2, AstrayKnows DEF MCGatewayArp, HandleGatewayArp, hostVars
  <2>3. CASE MCHostArp
    <3>1. PICK h \in Hosts : HandleHostArp(h)
      BY <2>3 DEF MCHostArp
    <3>2. \/ gwStat' = "ARP_FAILED" /\ arpTable \subseteq arpTable'
          \/ gwStat # "ARP_FAILED" /\ spoofed' \subseteq spoofed
      BY <3>1 DEF HandleHostArp, InsertArpItem, gwVars
    <3> QED BY <2>3, <3>2, AstrayKnows DEF MCHostArp
  <2>4. CASE MCIcmp
    BY <2>4, AstrayKnows DEF MCIcmp, HandleMyIcmp, gwVars, hostVars
  <2>5. CASE MCUpdate
    <3>1. /\ arpTable' = arpTable /\ spoofed' \subseteq spoofed
          /\ gwStat' = gwStat \/ gwStat' = "UNKNOWN"
      BY <2>5 DEF MCUpdate, f_ModUpdateCfg, f_ResetGateway
    <3> QED BY <2>5, <3>1, AstrayKnows DEF MCUpdate
  <2>6. CASE MCWire
    BY <2>6, AstrayKnows DEF MCWire, SetLink, ReplaceGateway, GatewayArp, gwVars, hostVars
  <2>7. CASE UNCHANGED mcvars
    BY <2>7 DEF mcvars, vars, gwVars, hostVars, SpoofKnown, SpoofUndone
  <2> QED BY <2>1, <2>2, <2>3, <2>4, <2>5, <2>6, <2>7 DEF MCNext
<1>3. SpoofKnown => SpoofUndone
  BY DEF SpoofKnown
<1> QED BY <1>1, <1>2, <1>3, PTL DEF MCSpec

LEMMA MCStepIsStep == [MCNext]_mcvars => [Next]_vars
BY DEF MCNext, MCCheck, MCGatewayArp, MCHostArp, MCIcmp, MCUpdate, MCWire, mcvars, Next

(* What ties the silence to the table: an answer in its slot came since the last check,
   and the slot holds a request from the first check on. *)
SilenceKnown == /\ DetectsGatewayLoss
                /\ silent \in Nat
                /\ gwWin.rsp >= 1 => silent = 0
                /\ gwStat # "UNKNOWN" => gwWin.items[0].sent

(* Every check leaves a new request in the slot. *)
LEMMA RequestSent ==
  ASSUME NEW w \in Windows(1, ArpIds), CountersExact(w), f_SendArpReq(w)
  PROVE  gwWin'.rsp = 0 /\ gwWin'.items[0].sent
BY OneSlotSend DEF f_SendArpReq, ArpIds

(* A gateway in use was heard since the last check, or is given up at this one. *)
LEMMA CheckSilence == ASSUME IInv, SilenceKnown, MCCheck PROVE SilenceKnown'
<1>1. /\ gwWin \in Windows(1, ArpIds) /\ CountersExact(gwWin)
      /\ CheckTimeout(gwWin) \in Windows(1, ArpIds) /\ CountersExact(CheckTimeout(gwWin))
  BY TimeoutKeepsCounters DEF IInv, TypeOK
<1>2. f_SendArpReq(gwWin) \/ f_SendArpReq(CheckTimeout(gwWin))
  BY DEF MCCheck, f_MainNetCheck, CheckGatewayUnknown, CheckGatewayChecking, CheckGatewayOk,
         CheckGatewayFailed
<1>3. gwWin'.rsp = 0 /\ gwWin'.items[0].sent
  BY <1>1, <1>2, RequestSent
<1>4. gwStat' = "ARP_OK" => gwWin.rsp >= 1
  <2>1. CASE CheckGatewayChecking
    BY <2>1 DEF CheckGatewayChecking, GatewayLost, GetRspNum
  <2>2. CASE CheckGatewayOk
    <3>1. gwWin.items[0].sent
      BY <2>2 DEF SilenceKnown, CheckGatewayOk
    <3>2. CheckTimeout(gwWin).lost >= 1 => gwStat' = "ARP_FAILED"
      BY <2>2 DEF CheckGatewayOk, GatewayLost
    <3> QED BY <1>1, <3>1, <3>2, UnansweredIsLost
  <2>3. CASE CheckGatewayUnknown \/ CheckGatewayFailed
    BY <2>3 DEF CheckGatewayUnknown, CheckGatewayFailed
  <2> QED BY <2>1, <2>2, <2>3 DEF MCCheck, f_MainNetCheck
<1> QED BY <1>3, <1>4 DEF SilenceKnown, DetectsGatewayLoss, MCCheck

(* An answer does not take the request out of the slot. *)
LEMMA AnswerSilence == ASSUME IInv, SilenceKnown, MCGatewayArp PROVE SilenceKnown'
<1>1. silent' = 0 /\ gwStat' = gwStat /\ gwWin' = OnGetOneRsp(gwWin, 1)
  BY DEF MCGatewayArp, HandleGatewayArp
<1>2. gwWin.items[0].sent => gwWin'.items[0].sent
  BY <1>1, OneSlotAnswer DEF IInv, TypeOK
<1> QED BY <1>1, <1>2 DEF SilenceKnown, DetectsGatewayLoss

(* A gateway that falls silent is declared lost at the second check, whatever answers,
   resets and updates came before. *)
THEOREM GatewayLossDetected == MCSpec => []DetectsGatewayLoss
<1>1. MCInit => IInv /\ SilenceKnown
  <2> SUFFICES ASSUME MCInit PROVE IInv /\ SilenceKnown
    OBVIOUS
  <2>1. IInv
    BY InitIInv DEF MCInit
  <2> QED BY <2>1 DEF MCInit, Init, InitWindow, SilenceKnown, DetectsGatewayLoss
<1>2. IInv /\ SilenceKnown /\ [MCNext]_mcvars => IInv' /\ SilenceKnown'
  <2> SUFFICES ASSUME IInv, SilenceKnown, [MCNext]_mcvars PROVE IInv' /\ SilenceKnown'
    OBVIOUS
  <2>1. IInv'
    BY MCStepIsStep, StepIInv
  <2>2. CASE MCCheck
    BY <2>1, <2>2, CheckSilence
  <2>3. CASE MCGatewayArp
    BY <2>1, <2>3, AnswerSilence
  <2>4. CASE MCHostArp \/ MCIcmp \/ MCWire
    <3>1. UNCHANGED <<gwStat, gwWin, silent>>
      BY <2>4 DEF MCHostArp, MCIcmp, MCWire, HandleHostArp, HandleMyIcmp, SetLink,
                  ReplaceGateway, GatewayArp, gwVars
    <3> QED BY <2>1, <3>1 DEF SilenceKnown, DetectsGatewayLoss
  <2>5. CASE MCUpdate
    <3>1. /\ UNCHANGED <<gwWin, silent>>
          /\ gwStat' = gwStat \/ gwStat' = "UNKNOWN"
      BY <2>5 DEF MCUpdate, f_ModUpdateCfg, f_ResetGateway
    <3> QED BY <2>1, <3>1 DEF SilenceKnown, DetectsGatewayLoss
  <2>6. CASE UNCHANGED mcvars
    BY <2>1, <2>6 DEF mcvars, vars, gwVars, SilenceKnown, DetectsGatewayLoss
  <2> QED BY <2>2, <2>3, <2>4, <2>5, <2>6 DEF MCNext
<1>3. SilenceKnown => DetectsGatewayLoss
  BY DEF SilenceKnown
<1> QED BY <1>1, <1>2, <1>3, PTL DEF MCSpec
=============================================================================
