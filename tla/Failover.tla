------------------------------ MODULE Failover ------------------------------
(***************************************************************************)
(* The switch of the peer's traffic between the main network and its four  *)
(* back-up channels: TS_HandleTimer and TS_ForwardIpOut / TS_ForwardArpOut *)
(* in FluxControlObserver.cpp, with the buffers of the two back-up         *)
(* networks (PacketQueue).  There is one peer: f_GetPeerConfig             *)
(* (ts_module/TS_Config.cpp:745) reads one and refuses a file with none.   *)
(*                                                                         *)
(* The verdicts of the detections (HostDetect, SerialDetect) are inputs:   *)
(* any set of channels may be usable after a check.  Everything here runs  *)
(* in the packet thread, one timer or one packet at a time.  The network   *)
(* modes L2 and L3 are modelled; they share this code.                     *)
(***************************************************************************)
EXTENDS Channels, PacketQueue

CONSTANT MaxPackets  \* bound: packets offered

ASSUME BoundsOK == MaxPackets \in Nat

VARIABLES mode,      \* m_eForwardMode
          usable,    \* the channels whose m_eHostStat is ECHO_OK
          checking,  \* m_eHostStat is ECHO_CHECKING in the main network
          peerStat,  \* m_vtPeerStat[0]: the channel in use
          queue,     \* m_vtPeerPktQueue[0] of the two back-up networks
          sent,      \* history: the packets each back-up network has sent
          nPackets   \* packets offered so far; a packet is its number

vars == <<mode, usable, checking, peerStat, queue, sent, nPackets>>
-----------------------------------------------------------------------------
Init == /\ mode \in {"ASYNC", "SYNC"}
        /\ usable = {} /\ checking = FALSE
        /\ peerStat = NoChannel
        /\ queue = [n \in BackNets |-> EmptyQueue]
        /\ sent = [n \in BackNets |-> <<>>]
        /\ nPackets = 0
-----------------------------------------------------------------------------
(* The timer *)

NextStat_NoReturn(s, ok) ==
  IF s \in ok THEN s
  ELSE IF ok # {} THEN First(ok) ELSE NoChannel

(* The switch on the channel in use: a better channel that is usable is taken at
   once, the channel in use is kept while usable, else the next best follows. *)
NextStat(s, ok) ==
  IF s = NoChannel THEN IF ok = {} THEN s ELSE First(ok)
  ELSE LET better == {c \in ok : Better(c, s)}
           worse == {c \in ok : Better(s, c)}
       IN IF better # {} THEN First(better)
          ELSE IF s \in ok THEN s
          ELSE IF worse # {} THEN First(worse)
          ELSE NoChannel

Flushes_MainOnly(s, t) == {n \in BackNets : s = "main" /\ n = t}

(* The buffer that is flushed when the channel in use changes from s to t. *)
Flushes(s, t) == {n \in BackNets : n = t /\ <<s, t>> \in {<<"main", "net1">>,
                                                         <<"main", "net2">>,
                                                         <<"net1", "net2">>}}

TS_HandleTimer ==
  /\ usable' \in SUBSET Channels
  /\ checking' \in BOOLEAN
  /\ "main" \in usable' => ~checking' /\ ("main" \in usable \/ checking)
  /\ peerStat' = NextStat(peerStat, usable')
  /\ LET flushed == Flushes(peerStat, peerStat') IN
     /\ queue' = [n \in BackNets |-> IF n \in flushed THEN EmptyQueue ELSE queue[n]]
     /\ sent' = [n \in BackNets |->
                   IF n \in flushed THEN sent[n] \o Pending(queue[n]) ELSE sent[n]]
  /\ UNCHANGED <<mode, nPackets>>
-----------------------------------------------------------------------------
(* Traffic from the local network to the peer.  pass: the back-up networks whose
   filter (m_piPeerPktFilter) lets the packet through.  The main network carries
   its packets without the probe; what a serial line sends is not recorded, as it
   buffers nothing. *)

NewPacket == nPackets + 1

AfterPush(n, B) == IF n \in B THEN f_PushPktQueue(queue[n], NewPacket) ELSE {queue[n]}

(* The networks in S send the packet (f_ForwardIp does so in any state of the
   channel), those in B buffer it. *)
SendAndPush(S, B) ==
  /\ nPackets < MaxPackets /\ nPackets' = NewPacket
  /\ sent' = [n \in BackNets |-> IF n \in S THEN Append(sent[n], NewPacket) ELSE sent[n]]
  /\ \E q1 \in AfterPush("net1", B), q2 \in AfterPush("net2", B) :
       queue' = [n \in BackNets |-> IF n = "net1" THEN q1 ELSE q2]
  /\ UNCHANGED <<mode, usable, checking, peerStat>>

(* The networks a packet to the peer is handed to at once. *)
Carrying == IF mode = "SYNC" \/ peerStat = NoChannel THEN BackNets
            ELSE BackNets \cap {peerStat}

Buffering_InUse(s) == IF s = "main" THEN BackNets ELSE BackNets \cap {s, "net2"}

(* The networks that buffer a packet while channel s carries it. *)
Buffering(s) == {n \in BackNets : s = "main" \/ (s = "net1" /\ n = "net2")}

TS_ForwardIpOut_Unicast(pass) ==
  SendAndPush(Carrying \cap pass, pass \cap IF mode = "SYNC" THEN {} ELSE Buffering(peerStat))

(* A multicast packet passes no filter and is never buffered. *)
TS_ForwardIpOut_Multicast ==
  /\ mode = "ASYNC"
  /\ SendAndPush(BackNets \cap {peerStat}, {})

(* f_ForwardArp of the back-up networks sends nothing; ARP packets are buffered,
   and flushed with the rest. *)
TS_ForwardArpOut(pass) ==
  /\ mode = "ASYNC" /\ ~checking
  /\ SendAndPush({}, pass \cap IF peerStat = NoChannel THEN BackNets ELSE Buffering(peerStat))
-----------------------------------------------------------------------------
(* What an update of the configuration does here: it may reset the detection of
   any network (f_ResetIp, or a new peer), clear or replace the buffers
   (f_QueueUpdateCfg), and with any change of the peer drop the channel in use.
   The serial lines keep their state.  Clearing a buffer whose head is marked as
   read leaves no queue at all (ReadsBehindWrites in CommonQueue): buffers are
   empty afterwards here because they were replaced, or had no mark. *)
TS_UpdateConfig ==
  /\ \E kept \in SUBSET {"main", "net1", "net2"} :
       /\ usable' = usable \cap (kept \cup BackComs)
       /\ checking' = (checking /\ "main" \in kept)
  /\ peerStat' \in {peerStat, NoChannel}
  /\ queue' \in {queue, [n \in BackNets |-> EmptyQueue]}
  /\ UNCHANGED <<mode, sent, nPackets>>
-----------------------------------------------------------------------------
Next == \/ TS_HandleTimer
        \/ \E pass \in SUBSET BackNets : TS_ForwardIpOut_Unicast(pass)
        \/ TS_ForwardIpOut_Multicast
        \/ \E pass \in SUBSET BackNets : TS_ForwardArpOut(pass)
        \/ TS_UpdateConfig

Spec == Init /\ [][Next]_vars
-----------------------------------------------------------------------------
(* The state of the switch is well formed: a packet number is never above those
   offered, and a buffer never holds more packets than fit. *)
TypeOK ==
  /\ mode \in {"ASYNC", "SYNC"}
  /\ usable \subseteq Channels /\ checking \in BOOLEAN
  /\ peerStat \in Channels \cup {NoChannel}
  /\ nPackets \in 0 .. MaxPackets
  /\ DOMAIN queue = BackNets
  /\ \A n \in BackNets : IsQueue(queue[n], 1 .. nPackets)
  /\ sent \in [BackNets -> Seq(1 .. nPackets)]

BestOf == INSTANCE BestChannel WITH running <- peerStat

(* The table of switches in TS_HandleTimer always arrives at the best usable
   channel, and nothing else but an update moves the peer's traffic: the switch
   implements the abstract specification. *)
ImplementsBest == BestOf!Spec

(* No network sends a packet twice: what f_PushPktQueue buffers for a later switch
   is never what the same network also sends directly, over any sequence of
   switches, overflows and updates. *)
OncePerNet ==
  \A n \in BackNets : \A i, j \in DOMAIN sent[n] :
    sent[n][i] = sent[n][j] => i = j
=============================================================================
