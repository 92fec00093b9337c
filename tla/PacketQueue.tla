----------------------------- MODULE PacketQueue ----------------------------
(***************************************************************************)
(* The buffer a back-up network keeps for the peer (CTS_PACKET_QUEUE), as  *)
(* f_PushPktQueue and f_FlushPktQueue in ts_module/TS_BackNetL3.cpp leave  *)
(* it: a sequence of packets that makes room for a new one by giving up    *)
(* its oldest.  How many it gives up depends on where the packets lie in   *)
(* the ring of bytes underneath (module CommonQueue), so a push has        *)
(* several outcomes, and one of them is that it gives up itself: the       *)
(* packet it brought, the newest of all, is then dropped.                  *)
(*                                                                         *)
(* read is the mark QueueReadNextPacket leaves (m_nLastReadPktLen > 0):    *)
(* the head was read and goes away, unsent, at the next read.              *)
(***************************************************************************)
EXTENDS Naturals, Sequences

CONSTANTS QueueCap,  \* packets a buffer can hold
          Keep,      \* packets so few that there is always room for one more
          ReadLimit  \* reads after which a push may still go on (30 in the code)

ASSUME QueueOK == /\ QueueCap \in Nat \ {0} /\ Keep \in Nat /\ Keep < QueueCap
                  /\ ReadLimit \in Nat

(* q is a buffer of packets from P. *)
IsQueue(q, P) == /\ q \in [pkts : Seq(P), read : BOOLEAN]
                 /\ Len(q.pkts) <= QueueCap
                 /\ q.read => q.pkts # <<>>

EmptyQueue == [pkts |-> <<>>, read |-> FALSE]

Marked(q) == IF q.read THEN 1 ELSE 0

(* The packets a flush would send. *)
Pending(q) == IF q.read THEN Tail(q.pkts) ELSE q.pkts

Newest(s, m) == SubSeq(s, Len(s) - m + 1, Len(s))

(* How many packets, p included, may be left. *)
Left(q) == {m \in 1 .. Len(q.pkts) + 1 :
              m <= QueueCap /\ (m < Len(q.pkts) + 1 => m > Keep)}

(* The push finds room: the newest packets are left.  The head is read, at the
   latest when a packet has gone; a push reads it only for lack of room, so more
   than Keep are there, and it is never p. *)
MakesRoom(q, p) ==
  {r \in {[pkts |-> Newest(Append(q.pkts, p), m), read |-> b] : m \in Left(q), b \in BOOLEAN} :
     /\ q.read \/ Len(r.pkts) <= Len(q.pkts) => r.read
     /\ r.read => Len(r.pkts) > 1 /\ Len(r.pkts) > Keep}

(* The push finds none in ReadLimit reads: it reads once more, of the packets read only
   the last is left, and p is dropped. *)
GivesUp(q) ==
  {[pkts |-> Newest(q.pkts, m), read |-> TRUE] :
     m \in {k \in 1 .. Len(q.pkts) : k >= Keep /\ k = Len(q.pkts) - ReadLimit - Marked(q)}}

(* The outcomes of a push.  A buffer that is too small for a few packets may also end
   empty, and p dropped. *)
f_PushPktQueue(q, p) ==
  MakesRoom(q, p) \cup GivesUp(q) \cup {e \in {EmptyQueue} : Keep = 0}
=============================================================================
