------------------------- MODULE HostDetect_proofs --------------------------
(***************************************************************************)
(* For every set of configurations, every space of echo numbers and every  *)
(* behaviour of the wire: the state of a channel is well formed, its       *)
(* counters are exact and a channel that carries traffic knows the MAC.    *)
(***************************************************************************)
EXTENDS MCHostDetect, TestWindow_proofs

(* The three invariants hold together: TypeOK needs the counters to be exact
   (else one could leave the range of the table) and the counters need it. *)
IInv == TypeOK /\ CountersAgree /\ MacKnown

(* What the assumptions say of one configuration. *)
LEMMA ConfigFacts ==
  ASSUME NEW c \in Configs
  PROVE  /\ c.queue \in Nat \ {0} /\ c.period \in Nat \ {0} /\ c.lost \in Nat \ {0}
         /\ c.recover \in Nat /\ c.timeout \in Nat
         /\ c.queue - c.recover \in Nat
         /\ SeqSpace \in Nat \ {0} /\ c.queue < SeqSpace
         /\ 0 \in EchoIds
<1>1. c \in ConfigType
  BY ConfigsOK
<1>2. c.lost <= c.queue /\ c.recover < c.lost
  BY ConfigsOK
<1>3. /\ c.queue \in Nat \ {0} /\ c.period \in Nat \ {0} /\ c.lost \in Nat \ {0}
      /\ c.recover \in Nat /\ c.timeout \in Nat
  BY <1>1 DEF ConfigType
<1>4. SeqSpace \in Nat /\ c.queue < SeqSpace
  BY SeqSpaceOK
<1> QED BY <1>2, <1>3, <1>4 DEF EchoIds

(* Sending one probe keeps the table, its counters and the answers under way. *)
LEMMA SendKeeps ==
  ASSUME TypeOK, NEW w \in Windows(cfg.queue, EchoIds), CountersExact(w), f_SendEchoReq(w)
  PROVE  /\ echoSeq' \in EchoIds
         /\ win' \in Windows(cfg.queue, EchoIds) /\ CountersExact(win')
         /\ net' \subseteq EchoIds
<1>1. cfg.queue \in Nat \ {0} /\ SeqSpace \in Nat \ {0} /\ echoSeq \in EchoIds
  BY ConfigFacts DEF TypeOK
<1>2. echoSeq' = (echoSeq + 1) % SeqSpace /\ win' = OnSendOneRequest(w, echoSeq')
  BY DEF f_SendEchoReq
<1>3. echoSeq' \in EchoIds
  BY <1>1, <1>2 DEF EchoIds
<1>4. win' \in Windows(cfg.queue, EchoIds) /\ CountersExact(win')
  BY <1>1, <1>2, <1>3, SendKeepsCounters
<1>5. net' \subseteq EchoIds
  <2>1. net' = UnderWay({echoSeq'}, win')
    BY DEF f_SendEchoReq
  <2> QED BY <1>3, <2>1 DEF UnderWay, TypeOK
<1> QED BY <1>3, <1>4, <1>5

LEMMA InitIInv == Init => IInv
<1> SUFFICES ASSUME Init PROVE IInv
  OBVIOUS
<1>1. cfg \in Configs
  BY DEF Init
<1>2. win \in Windows(cfg.queue, EchoIds) /\ CountersExact(win)
  BY <1>1, ConfigFacts, InitKeepsCounters DEF Init
<1>3. 0 \in EchoIds /\ cfg.period \in Nat /\ cfg.queue - cfg.recover \in Nat
  BY <1>1, ConfigFacts
<1>4. TypeOK
  BY <1>1, <1>2, <1>3, BoundsOK DEF Init, TypeOK, Stats
<1> QED BY <1>2, <1>4 DEF IInv, CountersAgree, MacKnown, Init

(* The wire and the packets that arrive. *)
LEMMA WireIInv ==
  ASSUME IInv, SetLink \/ ReplacePeer \/ PeerArpReq \/ HandleArp \/ NotDue
  PROVE  IInv'
<1> USE DEF IInv, TypeOK, CountersAgree, MacKnown, cfgVars, hostVars, wireVars
<1>1. CASE SetLink
  BY <1>1 DEF SetLink
<1>2. CASE ReplacePeer
  BY <1>2 DEF ReplacePeer
<1>3. CASE PeerArpReq
  BY <1>3 DEF PeerArpReq
<1>4. CASE HandleArp
  BY <1>4, MacsOK DEF HandleArp
<1>5. CASE NotDue
  BY <1>5 DEF NotDue
<1> QED BY <1>1, <1>2, <1>3, <1>4, <1>5

LEMMA IcmpIInv == ASSUME IInv, HandleMyIcmp PROVE IInv'
<1>1. PICK i \in net :
        /\ win' = OnGetOneRsp(win, i)
        /\ net' = net \ {i} \/ net' = net
        /\ UNCHANGED <<cfgVars, hostVars, chkPeriod, echoSeq, link, peerMac, arp>>
  BY DEF HandleMyIcmp
<1>2. cfg.queue \in Nat
  BY ConfigFacts DEF IInv, TypeOK
<1>3. win' \in Windows(cfg.queue, EchoIds) /\ CountersExact(win')
  BY <1>1, <1>2, RspKeepsCounters DEF IInv, TypeOK, CountersAgree
<1> QED BY <1>1, <1>3 DEF IInv, TypeOK, CountersAgree, MacKnown, cfgVars, hostVars

(* One check of the channel, by the state the peer is in. *)
LEMMA CheckIInv == ASSUME IInv, f_BackNetCheck PROVE IInv'
<1> DEFINE Rest == /\ UNCHANGED <<cfgVars, link, peerMac>>
                   /\ chkPeriod' = 0
           Table == /\ echoSeq' \in EchoIds
                    /\ win' \in Windows(cfg.queue, EchoIds) /\ CountersExact(win')
                    /\ net' \subseteq EchoIds
           Host == /\ stat' \in Stats /\ mac' \in Macs \cup {NoMac} /\ timer' \in Nat
                   /\ arp' \in Macs \cup {NoMac}
                   /\ MacKnown'
<1>1. ASSUME Rest, Table, Host PROVE IInv'
  BY <1>1 DEF IInv, TypeOK, CountersAgree, cfgVars
<1>2. /\ cfg.queue \in Nat \ {0} /\ cfg.period \in Nat /\ timer \in Nat
      /\ SeqSpace \in Nat \ {0} /\ echoSeq \in EchoIds
      /\ win \in Windows(cfg.queue, EchoIds) /\ CountersExact(win)
      /\ net \subseteq EchoIds
      /\ stat \in Stats /\ mac \in Macs \cup {NoMac} /\ arp \in Macs \cup {NoMac}
      /\ peerMac \in Macs
  BY ConfigFacts DEF IInv, TypeOK, CountersAgree
<1>3. /\ CheckTimeout(win) \in Windows(cfg.queue, EchoIds)
      /\ CountersExact(CheckTimeout(win))
  BY <1>2, TimeoutKeepsCounters
<1>4. ASSUME f_SendEchoReq(win) \/ f_SendEchoReq(CheckTimeout(win)) PROVE Table
  BY <1>2, <1>3, <1>4, SendKeeps DEF IInv
<1>5. CASE NotDue
  BY <1>5, WireIInv
<1>6. CASE CheckUnknown
  <2>1. Rest
    BY <1>6 DEF CheckUnknown
  <2>2. Table
    BY <1>2, <1>6 DEF CheckUnknown
  <2>3. Host
    BY <1>2, <1>6 DEF CheckUnknown, f_SendArpReq, MacKnown, Stats
  <2> QED BY <1>1, <2>1, <2>2, <2>3
<1>7. CASE CheckArpChecking
  <2>1. Rest
    BY <1>7 DEF CheckArpChecking
  <2>2. Table
    BY <1>2, <1>7 DEF CheckArpChecking
  <2>3. Host
    BY <1>2, <1>7 DEF CheckArpChecking, f_SendArpReq, MacKnown, Stats
  <2> QED BY <1>1, <2>1, <2>2, <2>3
<1>8. CASE CheckArpOk
  <2>1. Rest
    BY <1>8 DEF CheckArpOk
  <2>2. win' = FillWindow(win, echoSeq, SeqSpace) /\ net' = UnderWay(IdsIn(win'), win')
    BY <1>8 DEF CheckArpOk
  <2>3. win' \in Windows(cfg.queue, EchoIds) /\ CountersExact(win')
    BY <1>2, <2>2, FillKeepsCounters DEF EchoIds
  <2>4. echoSeq' \in EchoIds
    BY <1>2, <1>8 DEF CheckArpOk, EchoIds, ChkQueue
  <2>5. net' \subseteq EchoIds
    <3>1. IdsIn(win') \subseteq EchoIds
      BY <2>3 DEF IdsIn, SlotsOf, Windows, OneTestItem
    <3> QED BY <1>2, <2>2, <3>1 DEF UnderWay
  <2>6. Host
    BY <1>2, <1>8 DEF CheckArpOk, IInv, MacKnown, Stats
  <2> QED BY <1>1, <2>1, <2>3, <2>4, <2>5, <2>6
<1>9. CASE CheckEchoChecking
  <2>1. Rest
    BY <1>9 DEF CheckEchoChecking
  <2>2. Table
    BY <1>4, <1>9 DEF CheckEchoChecking
  <2>3. Host
    BY <1>2, <1>9 DEF CheckEchoChecking, IInv, MacKnown, Stats
  <2> QED BY <1>1, <2>1, <2>2, <2>3
<1>10. CASE CheckEchoOk
  <2>1. Rest
    BY <1>10 DEF CheckEchoOk
  <2>2. Table
    BY <1>4, <1>10 DEF CheckEchoOk
  <2>3. Host
    BY <1>2, <1>10 DEF CheckEchoOk, IInv, MacKnown, Stats
  <2> QED BY <1>1, <2>1, <2>2, <2>3
<1>11. CASE CheckEchoFailed
  <2>1. Rest
    BY <1>11 DEF CheckEchoFailed
  <2>2. Table
    BY <1>2, <1>4, <1>11 DEF CheckEchoFailed
  <2>3. Host
    BY <1>2, <1>11 DEF CheckEchoFailed, IInv, MacKnown, Stats
  <2> QED BY <1>1, <2>1, <2>2, <2>3
<1> QED
  BY <1>5, <1>6, <1>7, <1>8, <1>9, <1>10, <1>11 DEF f_BackNetCheck

LEMMA UpdateIInv == ASSUME IInv, f_ModUpdateCfg PROVE IInv'
<1>1. PICK c \in Configs :
        /\ cfg' = c
        /\ chkPeriod' = IF c.period # cfg.period THEN c.period ELSE chkPeriod
        /\ chkReply' = IF c.recover # cfg.recover THEN c.queue - c.recover ELSE chkReply
        /\ f_PeerUpdateCfg(c, IF c.queue # cfg.queue THEN InitWindow(c.queue) ELSE win)
  BY DEF f_ModUpdateCfg
<1> DEFINE t == IF c.queue # cfg.queue THEN InitWindow(c.queue) ELSE win
<1>2. /\ c.queue \in Nat \ {0} /\ c.period \in Nat /\ c.queue - c.recover \in Nat
      /\ 0 \in EchoIds
  BY ConfigFacts
<1>3. /\ InitWindow(c.queue) \in Windows(c.queue, EchoIds)
      /\ CountersExact(InitWindow(c.queue))
  BY <1>2, InitKeepsCounters
<1>4. t \in Windows(c.queue, EchoIds) /\ CountersExact(t)
  BY <1>3 DEF IInv, TypeOK, CountersAgree
<1>5. /\ win' \in Windows(c.queue, EchoIds) /\ CountersExact(win')
      /\ stat' \in Stats /\ mac' \in Macs \cup {NoMac} /\ timer' \in Nat
      /\ arp' \in Macs \cup {NoMac} /\ net' \subseteq EchoIds
      /\ MacKnown'
  <2>1. f_PeerUpdateCfg(c, t)
    BY <1>1
  <2> HIDE DEF t
  <2>2. CASE UNCHANGED <<hostVars, arp, net>> /\ win' = t
    BY <1>4, <2>2 DEF IInv, TypeOK, MacKnown, hostVars
  <2>3. CASE /\ stat' = "UNKNOWN" /\ mac' = NoMac /\ timer' = 0
             /\ win' \in {t, InitWindow(c.queue)}
             /\ arp' = NoMac /\ net' = {}
    BY <1>3, <1>4, <2>3 DEF MacKnown, Stats
  <2> QED BY <2>1, <2>2, <2>3 DEF f_PeerUpdateCfg
<1>6. chkPeriod' \in Nat /\ chkReply' \in Nat
  BY <1>1, <1>2 DEF IInv, TypeOK
<1>7. updates' \in 0 .. MaxUpdates /\ UNCHANGED <<echoSeq, link, peerMac>>
  BY BoundsOK DEF f_ModUpdateCfg, IInv, TypeOK
<1> QED BY <1>1, <1>5, <1>6, <1>7 DEF IInv, TypeOK, CountersAgree

(* Each step keeps the invariant. *)
LEMMA StepIInv == IInv /\ [Next]_vars => IInv'
<1> SUFFICES ASSUME IInv, [Next]_vars PROVE IInv'
  OBVIOUS
<1>1. CASE f_BackNetCheck
  BY <1>1, CheckIInv
<1>2. CASE HandleMyIcmp
  BY <1>2, IcmpIInv
<1>3. CASE f_ModUpdateCfg
  BY <1>3, UpdateIInv
<1>4. CASE SetLink \/ ReplacePeer \/ PeerArpReq \/ HandleArp
  BY <1>4, WireIInv
<1>5. CASE UNCHANGED vars
  BY <1>5 DEF vars, IInv, TypeOK, CountersAgree, MacKnown
<1> QED BY <1>1, <1>2, <1>3, <1>4, <1>5 DEF Next

(* The channel's state is well formed, its counters exact, its MAC known. *)
THEOREM HostDetectSafety == Spec => [](TypeOK /\ CountersAgree /\ MacKnown)
<1>1. IInv => TypeOK /\ CountersAgree /\ MacKnown
  BY DEF IInv
<1> QED BY InitIInv, StepIInv, <1>1, PTL DEF Spec

(* A channel that probes or carries traffic has learnt the MAC of the peer. *)
THEOREM ChannelMacKnown == Spec => []MacKnown
BY HostDetectSafety, PTL

(* One step of the channel, whatever it is, turns no loss back. *)
LEMMA StepDoesNotRevive == ASSUME IInv, [Next]_vars PROVE NotRevived(win, win')
<1>1. /\ cfg.queue \in Nat \ {0} /\ win \in Windows(cfg.queue, EchoIds)
      /\ NotRevived(win, win)
  BY ConfigFacts, StayingDoesNotRevive DEF IInv, TypeOK
<1>2. CASE f_BackNetCheck
  <2>1. ASSUME f_SendEchoReq(win) \/ f_SendEchoReq(CheckTimeout(win))
        PROVE  NotRevived(win, win')
    BY <1>1, <2>1, SendDoesNotRevive DEF f_SendEchoReq
  <2>2. CASE NotDue \/ CheckUnknown \/ CheckArpChecking
    BY <1>1, <2>2 DEF NotDue, CheckUnknown, CheckArpChecking, vars, hostVars, cfgVars
  <2>3. CASE CheckArpOk
    BY <2>3, NewProbesDoNotRevive DEF CheckArpOk
  <2>4. CASE CheckEchoChecking \/ CheckEchoOk
    BY <2>1, <2>4 DEF CheckEchoChecking, CheckEchoOk
  <2>5. CASE CheckEchoFailed
    BY <1>1, <2>1, <2>5 DEF CheckEchoFailed
  <2> QED BY <1>2, <2>2, <2>3, <2>4, <2>5 DEF f_BackNetCheck
<1>3. CASE HandleMyIcmp
  BY <1>1, <1>3, AnswerDoesNotRevive DEF HandleMyIcmp
<1>4. CASE f_ModUpdateCfg
  BY <1>1, <1>4, NewProbesDoNotRevive DEF f_ModUpdateCfg, f_PeerUpdateCfg
<1>5. CASE SetLink \/ ReplacePeer \/ PeerArpReq \/ HandleArp
  BY <1>1, <1>5 DEF SetLink, ReplacePeer, PeerArpReq, HandleArp
<1>6. CASE UNCHANGED vars
  BY <1>1, <1>6 DEF vars
<1> QED BY <1>2, <1>3, <1>4, <1>5, <1>6 DEF Next

(* The history variables watch the channel and do not steer it. *)
LEMMA MCStepIsStep == [MCNext]_mcvars => [Next]_vars
BY DEF MCNext, MCCheck, MCIcmp, MCUpdate, MCWire, Next, mcvars, vars

(* A probe that was counted lost stays lost until its slot is used again: late
   answers never bring a failed channel back. *)
THEOREM LossStaysFinal == MCSpec => LossIsFinal
<1>1. MCInit => IInv
  BY InitIInv DEF MCInit
<1>2. IInv /\ [MCNext]_mcvars => IInv'
  BY MCStepIsStep, StepIInv
<1>3. IInv /\ [MCNext]_mcvars =>
        [\A k \in SlotsOf(win) \cap SlotsOf(win') :
           win.items[k].fate = "lost" => win'.items[k].fate # "got"]_mcvars
  BY MCStepIsStep, StepDoesNotRevive DEF NotRevived
<1> QED BY <1>1, <1>2, <1>3, PTL DEF MCSpec, LossIsFinal
-----------------------------------------------------------------------------
(* What the channel has heard *)

(* A channel that probes has heard nothing since its last silent probes, and what
   the table holds as answers was booked since the channel was last not usable, but
   for as many as failing leaves. *)
Silence == stat \in {"ECHO_CHECKING", "ECHO_OK", "ECHO_FAILED"} => Unheard(win, silent)
Evidence == win.rsp <= ChkQueue - ChkLost + heard
History == silent \in Nat /\ heard \in Nat /\ Silence /\ Evidence

(* The threshold for recovery belongs to the table: m_nChkReplyNum is what f_Init
   computes from the configuration in force. *)
ReplyFollowsTable == chkReply = ChkQueue - cfg.recover

(* No update changes the size of the table and leaves the loss recovery tolerates:
   f_ModUpdateCfg computes m_nChkReplyNum anew with the latter only. *)
TablesDifferInRecover == \A c, d \in Configs : c.recover = d.recover => c.queue = d.queue
(* What one probe changes in what was heard. *)
LEMMA SendHistory ==
  ASSUME IInv, NEW w \in Windows(cfg.queue, EchoIds), CountersExact(w), f_SendEchoReq(w)
  PROVE  /\ win'.rsp <= w.rsp
         /\ \A n \in Nat : Unheard(w, n) => Unheard(win', n + 1)
<1>1. cfg.queue \in Nat \ {0} /\ win' = OnSendOneRequest(w, echoSeq')
  BY ConfigFacts DEF IInv, TypeOK, f_SendEchoReq
<1>2. win'.rsp <= w.rsp
  BY <1>1 DEF OnSendOneRequest, Decrement, Windows
<1>3. \A n \in Nat : Unheard(w, n) => Unheard(win', n + 1)
  BY <1>1, SendIsUnheard
<1> QED BY <1>2, <1>3

(* The facts about the state the steps start from. *)
LEMMA HistoryFacts ==
  ASSUME IInv, History
  PROVE  /\ cfg \in Configs /\ cfg.queue \in Nat \ {0} /\ cfg.lost \in Nat \ {0}
         /\ cfg.recover \in Nat /\ cfg.lost <= cfg.queue /\ cfg.recover < cfg.lost
         /\ win \in Windows(cfg.queue, EchoIds) /\ CountersExact(win) /\ win.rsp \in Nat
         /\ SeqSpace \in Nat \ {0} /\ echoSeq \in EchoIds
         /\ CheckTimeout(win) \in Windows(cfg.queue, EchoIds)
         /\ CountersExact(CheckTimeout(win)) /\ CheckTimeout(win).rsp = win.rsp
         /\ silent \in Nat /\ heard \in Nat
         /\ stat \in Stats /\ win.rsp <= cfg.queue - cfg.lost + heard
<1>1. cfg \in Configs /\ cfg.queue \in Nat \ {0} /\ win \in Windows(cfg.queue, EchoIds)
  BY ConfigFacts DEF IInv, TypeOK
<1>2. cfg.lost <= cfg.queue /\ cfg.recover < cfg.lost
  BY <1>1, ConfigsOK
<1>3. /\ CheckTimeout(win) \in Windows(cfg.queue, EchoIds)
      /\ CountersExact(CheckTimeout(win)) /\ CheckTimeout(win).rsp = win.rsp
  BY <1>1, TimeoutKeepsCounters DEF IInv, CountersAgree, CheckTimeout
<1>4. win.rsp \in Nat
  BY <1>1 DEF Windows
<1> QED
  BY <1>1, <1>2, <1>3, <1>4, ConfigFacts
     DEF IInv, TypeOK, CountersAgree, History, Evidence, ChkLost, ChkQueue

(* Failing leaves at most as many answers as the lost ones leave room for. *)
LEMMA FailingLeavesRoom ==
  ASSUME IInv, History, ChkLost <= CheckTimeout(win).lost
  PROVE  win.rsp <= ChkQueue - ChkLost
<1> DEFINE w == CheckTimeout(win)
<1>1. /\ cfg.queue \in Nat \ {0} /\ cfg.lost \in Nat
      /\ w \in Windows(cfg.queue, EchoIds) /\ CountersExact(w) /\ w.rsp = win.rsp
      /\ win.rsp \in Nat
  BY HistoryFacts
<1> HIDE DEF w
<1>2. w.lost + w.rsp <= cfg.queue /\ w.lost \in Nat
  <2>1. w.lost \in Nat
    BY <1>1 DEF Windows
  <2> QED BY <1>1, <2>1, LostOrAnswered
<1> QED BY <1>1, <1>2 DEF ChkLost, ChkQueue, w

(* One check: the channel probes once more and hears nothing. *)
LEMMA CheckHistory == ASSUME IInv, History, MCCheck PROVE History'
<1>1. /\ cfg.queue \in Nat \ {0} /\ cfg.lost \in Nat \ {0} /\ cfg.lost <= cfg.queue
      /\ win \in Windows(cfg.queue, EchoIds) /\ CountersExact(win) /\ win.rsp \in Nat
      /\ SeqSpace \in Nat \ {0} /\ echoSeq \in EchoIds
      /\ CheckTimeout(win) \in Windows(cfg.queue, EchoIds)
      /\ CountersExact(CheckTimeout(win)) /\ CheckTimeout(win).rsp = win.rsp
      /\ silent \in Nat /\ heard \in Nat /\ win.rsp <= cfg.queue - cfg.lost + heard
  BY HistoryFacts
<1>2. cfg' = cfg /\ win' \in Windows(cfg.queue, EchoIds) /\ win'.rsp \in Nat
  <2>1. cfg' = cfg
    BY DEF MCCheck, f_BackNetCheck, NotDue, CheckUnknown, CheckArpChecking, CheckArpOk,
           CheckEchoChecking, CheckEchoOk, CheckEchoFailed, cfgVars
  <2>2. win' \in Windows(cfg'.queue, EchoIds)
    BY CheckIInv DEF MCCheck, IInv, TypeOK
  <2> QED BY <2>1, <2>2 DEF Windows
<1>3. silent' \in Nat /\ silent' <= silent + 1
  BY <1>1 DEF MCCheck, Upto, ChkLost
<1>4. /\ heard' \in Nat
      /\ \/ heard' = heard
         \/ heard' = 0 /\ stat' # stat /\ stat' \in {"ECHO_FAILED", "UNKNOWN"}
  BY <1>1 DEF MCCheck
<1>5. ASSUME f_SendEchoReq(win) \/ f_SendEchoReq(CheckTimeout(win)), Unheard(win, silent)
      PROVE  Unheard(win', silent') /\ win'.rsp <= win.rsp
  <2>1. Unheard(CheckTimeout(win), silent)
    BY <1>5, TimeoutStaysUnheard
  <2>2. Unheard(win', silent + 1) /\ win'.rsp <= win.rsp
    BY <1>1, <1>5, <2>1, SendHistory
  <2> QED BY <1>1, <1>2, <1>3, <2>2, UnheardShrinks
<1>6. ASSUME NEW r \in Nat, r <= win.rsp, win'.rsp = r,
             heard' = heard \/ ChkLost <= CheckTimeout(win).lost
      PROVE  Evidence'
  <2>1. CASE heard' = heard
    BY <1>1, <1>2, <1>6, <2>1 DEF Evidence, ChkQueue, ChkLost
  <2>2. CASE ChkLost <= CheckTimeout(win).lost
    <3>1. win.rsp <= cfg.queue - cfg.lost
      BY <2>2, FailingLeavesRoom DEF ChkQueue, ChkLost
    <3> QED BY <1>1, <1>2, <1>4, <1>6, <3>1 DEF Evidence, ChkQueue, ChkLost
  <2> QED BY <1>6, <2>1, <2>2
<1>7. CASE NotDue
  <2>1. UNCHANGED <<stat, win, cfg>> /\ silent' = silent /\ heard' = heard
    BY <1>1, <1>7 DEF NotDue, MCCheck, IInv, TypeOK, hostVars, cfgVars
  <2> QED BY <2>1 DEF History, Silence, Evidence, ChkQueue, ChkLost
<1>8. CASE CheckUnknown \/ CheckArpChecking
  <2>1. win' = win /\ stat' \in {"ARP_CHECKING", "ARP_OK"}
    BY <1>8 DEF CheckUnknown, CheckArpChecking
  <2>2. Evidence'
    BY <1>1, <1>4, <1>6, <2>1
  <2> QED BY <1>3, <1>4, <2>1, <2>2 DEF History, Silence
<1>9. CASE CheckArpOk
  <2>1. stat' = "ECHO_CHECKING" /\ win' = FillWindow(win, echoSeq, SeqSpace)
    BY <1>9 DEF CheckArpOk
  <2>2. Unheard(win', silent') /\ win'.rsp = 0
    BY <1>1, <2>1, NothingHeard DEF EchoIds
  <2>3. Evidence'
    BY <1>1, <1>4, <1>6, <2>1, <2>2
  <2> QED BY <1>3, <1>4, <2>2, <2>3 DEF History, Silence
<1>10. CASE CheckEchoChecking \/ CheckEchoOk
  <2>1. /\ f_SendEchoReq(win) \/ f_SendEchoReq(CheckTimeout(win))
        /\ stat \in {"ECHO_CHECKING", "ECHO_OK"}
        /\ stat' \in {"ECHO_FAILED", "UNKNOWN"} => ChkLost <= CheckTimeout(win).lost
    BY <1>10 DEF CheckEchoChecking, CheckEchoOk
  <2>2. Unheard(win, silent)
    BY <2>1 DEF History, Silence
  <2>3. Unheard(win', silent') /\ win'.rsp <= win.rsp
    BY <1>5, <2>1, <2>2
  <2>4. Evidence'
    BY <1>2, <1>4, <1>6, <2>1, <2>3
  <2> QED BY <1>3, <1>4, <2>3, <2>4 DEF History, Silence
<1>11. CASE CheckEchoFailed
  <2>1. stat = "ECHO_FAILED" /\ Unheard(win, silent)
    BY <1>11 DEF CheckEchoFailed, History, Silence
  <2>2. CASE win' = win /\ stat' = "ARP_CHECKING"
    <3>1. Evidence'
      BY <1>1, <1>4, <1>6, <2>2
    <3> QED BY <1>3, <1>4, <2>2, <3>1 DEF History, Silence
  <2>3. CASE f_SendEchoReq(win) /\ stat' \in {"ECHO_CHECKING", stat}
    <3>1. Unheard(win', silent') /\ win'.rsp <= win.rsp
      BY <1>5, <2>1, <2>3
    <3>2. Evidence'
      BY <1>2, <1>4, <1>6, <2>1, <2>3, <3>1
    <3> QED BY <1>3, <1>4, <3>1, <3>2 DEF History, Silence
  <2> QED BY <1>11, <2>2, <2>3 DEF CheckEchoFailed
<1> QED BY <1>7, <1>8, <1>9, <1>10, <1>11 DEF MCCheck, f_BackNetCheck

(* An answer that is booked ends the silence and is one answer heard. *)
LEMMA IcmpHistory == ASSUME IInv, History, MCIcmp PROVE History'
<1>1. /\ cfg.queue \in Nat \ {0} /\ cfg.lost \in Nat \ {0} /\ cfg.lost <= cfg.queue
      /\ win \in Windows(cfg.queue, EchoIds) /\ CountersExact(win) /\ win.rsp \in Nat
      /\ SeqSpace \in Nat \ {0} /\ echoSeq \in EchoIds
      /\ silent \in Nat /\ heard \in Nat /\ win.rsp <= cfg.queue - cfg.lost + heard
  BY HistoryFacts
<1>2. PICK i \in net : win' = OnGetOneRsp(win, i)
  BY DEF MCIcmp, HandleMyIcmp
<1>3. cfg' = cfg /\ stat' = stat
  BY DEF MCIcmp, HandleMyIcmp, cfgVars, hostVars
<1>4. /\ win' \in Windows(cfg.queue, EchoIds) /\ CountersExact(win')
      /\ win' = win \/ win'.rsp > win.rsp
      /\ win'.rsp <= win.rsp + 1
  BY <1>1, <1>2, RspKeepsCounters, AnswerCounts
<1>5. win'.rsp \in 0 .. cfg.queue
  BY <1>4 DEF Windows
<1>6. CASE Booked
  <2>1. silent' = 0 /\ heard' = Upto(ChkQueue, heard + 1)
    BY <1>6 DEF MCIcmp
  <2>2. heard' \in Nat /\ Evidence'
    BY <1>1, <1>3, <1>4, <1>5, <2>1 DEF Upto, Evidence, ChkQueue, ChkLost
  <2>3. Unheard(win', 0)
    BY <1>1, <1>4, NothingHeard DEF EchoIds
  <2> QED BY <2>1, <2>2, <2>3 DEF History, Silence
<1>7. CASE ~Booked
  <2>1. win' = win /\ silent' = silent /\ heard' = heard
    BY <1>1, <1>4, <1>5, <1>7 DEF MCIcmp, Booked
  <2> QED BY <1>3, <2>1 DEF History, Silence, Evidence, ChkQueue, ChkLost
<1> QED BY <1>6, <1>7

(* An update begins both counts anew. *)
LEMMA UpdateHistory == ASSUME IInv, History, MCUpdate PROVE History'
<1>1. cfg' \in Configs /\ win' \in Windows(cfg'.queue, EchoIds) /\ CountersExact(win')
  BY UpdateIInv DEF MCUpdate, IInv, TypeOK, CountersAgree
<1>2. /\ cfg'.queue \in Nat \ {0} /\ cfg'.lost \in Nat \ {0} /\ cfg'.lost <= cfg'.queue
      /\ SeqSpace \in Nat \ {0} /\ echoSeq \in EchoIds
  BY <1>1, ConfigFacts, ConfigsOK DEF IInv, TypeOK
<1>3. silent' = 0 /\ heard' = cfg'.queue
  BY DEF MCUpdate, ChkQueue
<1>4. Unheard(win', 0)
  BY <1>1, <1>2, NothingHeard DEF EchoIds
<1>5. Evidence'
  <2>1. win'.rsp \in 0 .. cfg'.queue
    BY <1>1 DEF Windows
  <2> QED BY <1>2, <1>3, <2>1 DEF Evidence, ChkQueue, ChkLost
<1> QED BY <1>2, <1>3, <1>4, <1>5 DEF History, Silence

LEMMA WireHistory == ASSUME History, MCWire PROVE History'
BY DEF MCWire, HandleArp, SetLink, ReplacePeer, PeerArpReq, cfgVars, hostVars,
       History, Silence, Evidence, ChkQueue, ChkLost
LEMMA InitHistory == MCInit => History /\ DetectsFailure
<1> SUFFICES ASSUME MCInit PROVE History /\ DetectsFailure
  OBVIOUS
<1>1. cfg \in Configs /\ stat = "UNKNOWN" /\ win.rsp = 0 /\ silent = 0 /\ heard = 0
  BY DEF MCInit, Init, InitWindow
<1>2. cfg.lost <= cfg.queue /\ cfg.lost \in Nat /\ cfg.queue \in Nat
  BY <1>1, ConfigFacts, ConfigsOK
<1> QED BY <1>1, <1>2 DEF History, Silence, Evidence, DetectsFailure, ChkQueue, ChkLost

(* Each step keeps what was heard. *)
LEMMA StepHistory == IInv /\ History /\ [MCNext]_mcvars => History'
<1> SUFFICES ASSUME IInv, History, [MCNext]_mcvars PROVE History'
  OBVIOUS
<1>1. CASE UNCHANGED mcvars
  BY <1>1 DEF mcvars, vars, History, Silence, Evidence, ChkQueue, ChkLost
<1> QED BY <1>1, CheckHistory, IcmpHistory, UpdateHistory, WireHistory DEF MCNext

(* The check with which a channel comes into use: enough is answered, so little is
   silent. *)
LEMMA EntryIsHeard ==
  ASSUME IInv, History, ReplyFollowsTable, MCCheck, stat # "ECHO_OK", stat' = "ECHO_OK"
  PROVE  /\ stat = "ECHO_CHECKING" /\ cfg' = cfg
         /\ chkReply <= win.rsp /\ silent <= cfg.recover
         /\ heard >= cfg.lost - cfg.recover
<1>1. /\ cfg.queue \in Nat \ {0} /\ cfg.lost \in Nat \ {0} /\ cfg.lost <= cfg.queue
      /\ cfg.recover \in Nat /\ cfg.recover < cfg.lost
      /\ win \in Windows(cfg.queue, EchoIds) /\ CountersExact(win) /\ win.rsp \in Nat
      /\ silent \in Nat /\ heard \in Nat /\ win.rsp <= cfg.queue - cfg.lost + heard
  BY HistoryFacts
<1>2. stat = "ECHO_CHECKING" /\ cfg' = cfg /\ chkReply <= win.rsp
  BY DEF MCCheck, f_BackNetCheck, NotDue, CheckUnknown, CheckArpChecking, CheckArpOk,
         CheckEchoChecking, CheckEchoOk, CheckEchoFailed, cfgVars, hostVars, GetRspNum
<1>3. chkReply = cfg.queue - cfg.recover /\ Unheard(win, silent)
  BY <1>2 DEF ReplyFollowsTable, ChkQueue, History, Silence
<1>4. silent < cfg.queue
  <2> SUFFICES ASSUME silent >= cfg.queue PROVE FALSE
    BY <1>1
  <2>1. Unheard(win, cfg.queue)
    BY <1>1, <1>3, UnheardShrinks
  <2>2. win.rsp + cfg.queue <= cfg.queue
    BY <1>1, <2>1, UnheardBoundsRsp
  <2> QED BY <1>1, <1>2, <1>3, <2>2
<1>5. win.rsp + silent <= cfg.queue
  BY <1>1, <1>3, <1>4, UnheardBoundsRsp
<1> QED BY <1>1, <1>2, <1>3, <1>5

(* The check that keeps a channel in use: what is silent is lost. *)
LEMMA StayIsHeard ==
  ASSUME IInv, History, DetectsFailure, MCCheck, stat = "ECHO_OK", stat' = "ECHO_OK",
         ~ NotDue
  PROVE  cfg' = cfg /\ silent < cfg.lost
<1>1. /\ cfg.queue \in Nat \ {0} /\ cfg.lost \in Nat \ {0} /\ cfg.lost <= cfg.queue
      /\ win \in Windows(cfg.queue, EchoIds) /\ CountersExact(win) /\ silent \in Nat
      /\ CheckTimeout(win) \in Windows(cfg.queue, EchoIds)
  BY HistoryFacts
<1>2. /\ CheckEchoOk /\ cfg' = cfg /\ ~ (cfg.lost <= CheckTimeout(win).lost)
  BY DEF MCCheck, f_BackNetCheck, CheckUnknown, CheckArpChecking, CheckArpOk,
         CheckEchoChecking, CheckEchoOk, CheckEchoFailed, cfgVars, ChkLost
<1>3. Unheard(win, silent) /\ silent <= cfg.lost
  BY DEF History, Silence, DetectsFailure, ChkLost
<1>4. CheckTimeout(win).lost >= silent
  BY <1>1, <1>3, TimeoutIsUnheard
<1>5. CheckTimeout(win).lost \in Nat
  BY <1>1 DEF Windows
<1> QED BY <1>1, <1>2, <1>4, <1>5

(* Silence grows only with a check, and none keeps a silent channel in use. *)
LEMMA StepDetects ==
  IInv /\ History /\ ReplyFollowsTable /\ DetectsFailure /\ [MCNext]_mcvars => DetectsFailure'
<1> SUFFICES ASSUME IInv, History, ReplyFollowsTable, DetectsFailure, [MCNext]_mcvars,
                    stat' = "ECHO_OK"
             PROVE  silent' <= cfg'.lost
  BY DEF DetectsFailure, ChkLost
<1>1. /\ cfg.lost \in Nat \ {0} /\ cfg.recover \in Nat /\ cfg.recover < cfg.lost
      /\ silent \in Nat
  BY HistoryFacts
<1>2. CASE MCCheck
  <2>1. silent' <= silent + 1 /\ silent' \in Nat
    BY <1>1, <1>2 DEF MCCheck, Upto, ChkLost
  <2>2. CASE stat # "ECHO_OK"
    BY <1>1, <1>2, <2>1, <2>2, EntryIsHeard
  <2>3. CASE stat = "ECHO_OK" /\ ~ NotDue
    BY <1>1, <1>2, <2>1, <2>3, StayIsHeard
  <2>4. CASE stat = "ECHO_OK" /\ NotDue
    BY <1>1, <1>2, <2>4
       DEF MCCheck, NotDue, DetectsFailure, ChkLost, IInv, TypeOK, cfgVars
  <2> QED BY <2>2, <2>3, <2>4
<1>3. CASE MCIcmp
  BY <1>1, <1>3 DEF MCIcmp, HandleMyIcmp, DetectsFailure, ChkLost, cfgVars, hostVars
<1>4. CASE MCUpdate
  <2>1. silent' = 0 /\ cfg' \in Configs
    BY <1>4 DEF MCUpdate, f_ModUpdateCfg
  <2> QED BY <2>1, ConfigFacts
<1>5. CASE MCWire
  BY <1>5 DEF MCWire, HandleArp, SetLink, ReplacePeer, PeerArpReq, DetectsFailure, ChkLost,
              cfgVars, hostVars
<1>6. CASE UNCHANGED mcvars
  BY <1>6 DEF mcvars, vars, DetectsFailure, ChkLost
<1> QED BY <1>2, <1>3, <1>4, <1>5, <1>6 DEF MCNext

(* Only a check brings a channel into use. *)
LEMMA StepFresh ==
  ASSUME IInv, History, ReplyFollowsTable, [MCNext]_mcvars, stat' = "ECHO_OK", stat # "ECHO_OK"
  PROVE  heard >= cfg.lost - cfg.recover
<1>1. MCCheck
  BY DEF MCNext, MCIcmp, MCUpdate, MCWire, HandleMyIcmp, HandleArp, SetLink, ReplacePeer,
         PeerArpReq, f_ModUpdateCfg, f_PeerUpdateCfg, hostVars, mcvars, vars
<1> QED BY <1>1, EntryIsHeard

(* An update that computes the threshold anew leaves it right. *)
LEMMA StepReply ==
  ASSUME TablesDifferInRecover
  PROVE  IInv /\ ReplyFollowsTable /\ [Next]_vars => ReplyFollowsTable'
<1> SUFFICES ASSUME IInv, ReplyFollowsTable, [Next]_vars PROVE ReplyFollowsTable'
  OBVIOUS
<1>1. CASE f_ModUpdateCfg
  BY <1>1 DEF f_ModUpdateCfg, ReplyFollowsTable, ChkQueue, TablesDifferInRecover, IInv, TypeOK
<1>2. CASE UNCHANGED <<cfg, chkReply>>
  BY <1>2 DEF ReplyFollowsTable, ChkQueue
<1>3. f_ModUpdateCfg \/ UNCHANGED <<cfg, chkReply>>
  BY DEF Next, f_BackNetCheck, NotDue, CheckUnknown, CheckArpChecking, CheckArpOk,
         CheckEchoChecking, CheckEchoOk, CheckEchoFailed, HandleArp, HandleMyIcmp,
         SetLink, ReplacePeer, PeerArpReq, cfgVars, vars
<1> QED BY <1>1, <1>2, <1>3

(* The threshold f_BackNetCheck compares the answers with is the one the
   configuration in force asks for, if every update that changes the size of the
   table changes the loss recovery tolerates too; f_ModUpdateCfg computes it then. *)
THEOREM ReplyIsRight ==
  ASSUME TablesDifferInRecover PROVE Spec => []ReplyFollowsTable
<1>1. Init => ReplyFollowsTable
  BY DEF Init, ReplyFollowsTable, ChkQueue
<1> QED BY InitIInv, StepIInv, <1>1, StepReply, PTL DEF Spec

(* The history holds of every behaviour. *)
LEMMA HistoryHolds == MCSpec => [](IInv /\ History)
<1>1. MCInit => IInv /\ History
  BY InitIInv, InitHistory DEF MCInit
<1>2. IInv /\ History /\ [MCNext]_mcvars => (IInv /\ History)'
  BY MCStepIsStep, StepIInv, StepHistory
<1> QED BY <1>1, <1>2, PTL DEF MCSpec

(* A dead channel is given up in time: as long as the threshold of recovery belongs
   to the table, no channel stays in use for more than m_nChkLostNum checks after
   the last answer that was booked. *)
THEOREM DeadChannelGivenUp == MCSpec /\ []ReplyFollowsTable => []DetectsFailure
<1>1. MCInit => DetectsFailure
  BY InitHistory
<1> QED BY HistoryHolds, <1>1, StepDetects, PTL DEF MCSpec

(* Old answers never bring a channel back: as many new ones as separate failure from
   recovery were booked since it was last failed or unknown. *)
THEOREM RecoveryNeedsAnswers == MCSpec /\ []ReplyFollowsTable => FreshEvidence
<1>1. IInv /\ History /\ ReplyFollowsTable /\ [MCNext]_mcvars =>
        [stat' = "ECHO_OK" /\ stat # "ECHO_OK" => heard >= cfg.lost - cfg.recover]_mcvars
  BY StepFresh
<1> QED BY HistoryHolds, <1>1, PTL DEF MCSpec, FreshEvidence
=============================================================================
