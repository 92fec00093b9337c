----------------------------- MODULE FrameState -----------------------------
(***************************************************************************)
(* What the two ends of a serial line share, how a packet is framed, and   *)
(* the state of both ends with what must be true of it while module        *)
(* SerialFrame changes it.  It stands apart because SerialDetect_proofs    *)
(* proves it beside what it proves of the detection of the line.           *)
(*                                                                         *)
(* Four bytes stand for all: the flag, the escape, and what they become    *)
(* when escaped.  They are closed under XOR with 0x7D.                     *)
(***************************************************************************)
EXTENDS Integers, Sequences, SequencesExt

Flag == 126   \* 0x7E
Esc == 125    \* 0x7D
Bytes == {0, 3, Esc, Flag}
Xor7D(b) == CHOOSE c \in Bytes : {b, c} \in {{0, Esc}, {3, Flag}}

CONSTANTS Packets,     \* packets that may be sent
          Fcs(_),      \* GetFCS16: the two bytes of a packet's checksum
          MaxPackets   \* bound: packets sent

ASSUME PacketsOK == Packets # {} /\ Packets \subseteq Seq(Bytes) \ {<<>>}
ASSUME FcsOK == \A p \in Packets : Fcs(p) \in Bytes \X Bytes
ASSUME BoundsOK == MaxPackets \in Nat

VARIABLES frame,      \* m_acPacketBuf of the sender
          left,       \* iLeftDataLen
          written,    \* iSentDataLen: what the last call of write took
          line,       \* bytes on their way
          recv,       \* m_eRecvStat
          buf,        \* the bytes received of the frame
          sent,       \* history: the packets framed
          failed,     \* history: the numbers of those whose write failed
          strayed,    \* history: of those a write went on elsewhere than the last stopped
          delivered   \* history: the packets put into the receive queue
-----------------------------------------------------------------------------
Stuffed_FlagOnly(b) == IF b = Flag THEN <<Esc, Xor7D(b)>> ELSE <<b>>

Stuffed(b) == IF b \in {Flag, Esc} THEN <<Esc, Xor7D(b)>> ELSE <<b>>

Frame(p) == LET body == p \o Fcs(p)
            IN <<Flag>> \o FlattenSeq([k \in 1 .. Len(body) |-> Stuffed(body[k])]) \o <<Flag>>
-----------------------------------------------------------------------------
(* The state of both ends is well formed.  Whatever write does, the receiver never
   collects as many bytes as the frame of one packet has, and both ends reserve the
   same (m_acPacketBuf); unless a write strayed, no more than a packet and its
   checksum.  What is delivered behind a write that failed or strayed may be pieces
   of packets: the checksum decides. *)
EndsWellFormed ==
  /\ frame \in Seq(Bytes) /\ left \in 0 .. Len(frame) /\ written \in -1 .. Len(frame)
  /\ line \in Seq(Bytes)
  /\ recv \in {"IDLE", "DATA", "7D"}
  /\ buf \in Seq(Bytes) /\ \E p \in Packets : Len(buf) < Len(Frame(p))
  /\ strayed = {} => \E p \in Packets : Len(buf) <= Len(p) + 2
  /\ sent \in Seq(Packets) /\ delivered \in Seq(Seq(Bytes))
  /\ failed \subseteq DOMAIN sent /\ strayed \subseteq DOMAIN sent

(* Nothing is on its way. *)
Quiet == left = 0 /\ line = <<>>

(* Framing is transparent: whatever bytes a packet and its checksum are made of, the
   receiver gets the packets sent, in order, and after the last byte of a frame it
   waits for the next one.  Up to the first write that fails, for from then on the
   ends may disagree which flag opens a frame, and up to the first that strays: where
   a frame takes a third call of write, or one takes nothing behind a part, the call
   after begins at a byte that was sent or at one too far (SerialDataSend.cpp:127). *)
Transparent == failed = {} /\ strayed = {} =>
                 /\ IsPrefix(delivered, sent)
                 /\ Quiet => delivered = sent /\ recv = "IDLE"
=============================================================================
