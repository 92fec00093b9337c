----------------------------- MODULE CommonQueue ----------------------------
(***************************************************************************)
(* The ring of bytes that buffers the packets of a peer:                   *)
(* comm_base_module/cpf_wrappers/cpf/source/CommonQueueManager.cpp, driven *)
(* by f_PushPktQueue and f_FlushPktQueue (ts_module/TS_BackNetL2.cpp and   *)
(* its twin TS_BackNetL3.cpp), all in the packet thread.                   *)
(*                                                                         *)
(* The two packet counters are kept as their difference, which is all the  *)
(* code looks at.                                                          *)
(***************************************************************************)
EXTENDS RingState

vars == <<ring, out, pushed>>

(* QueueClearShareBuffer; m_nLastReadPktLen (last) is not touched. *)
QueueClearQueue(r) == [r EXCEPT !.wp = 0, !.rp = 0, !.count = 0]

(* QueueInitialize_new on the zeroed buffer. *)
NewRing == [mem   |-> [k \in Places |-> Zero],
            wp    |-> 0,   \* pWritePosition
            rp    |-> 0,   \* pReadPosition
            count |-> 0,   \* iWritePacketCount - iReadPacketCount
            last  |-> 0]   \* m_nLastReadPktLen, negative after an error
-----------------------------------------------------------------------------
(* Reading *)

(* QueueReadCurrentPacket: the packet at the reader, which stays in the buffer. *)
QueueReadCurrentPacket(r) ==
  LET k == PastPadding(r, r.rp) IN
  IF r.count <= 0 \/ r.wp = r.rp THEN [r EXCEPT !.last = 0]
  ELSE IF r.wp = k THEN [r EXCEPT !.last = 0, !.rp = k]
  ELSE IF r.mem[k].kind = "packet" THEN [r EXCEPT !.last = r.mem[k].len, !.rp = k]
  ELSE [r EXCEPT !.last = -4, !.rp = r.wp, !.count = 0]

QueueSkipCurrentPacket(r) ==
  LET k == PastPadding(r, r.rp)
      next == k + (IF r.mem[k].kind = "packet" THEN r.mem[k].len + 1 ELSE 0)
  IN [r EXCEPT !.rp = IF next >= Size THEN 0 ELSE next, !.count = @ - 1]

QueueReadNextPacket(r) ==
  QueueReadCurrentPacket(IF r.last > 0 THEN QueueSkipCurrentPacket(r) ELSE r)
-----------------------------------------------------------------------------
(* Writing *)

FitsAtEnd_NoReserve(r, len) == r.wp >= r.rp /\ Size - r.wp >= len + 1
FitsBefore_NoReserve(r, len) == r.wp < r.rp /\ r.rp - r.wp >= len + 1

(* QueueWriteAllocateBuffer asks for the packet and two headers: its own and the
   one that keeps the writer from catching up with the reader. *)
FitsAtEnd(r, len) == r.wp >= r.rp /\ Size - r.wp > len + 2
FitsAtStart(r, len) == r.wp >= r.rp /\ r.rp >= len + 2
FitsBefore(r, len) == r.wp < r.rp /\ r.rp - r.wp >= len + 2
Fits(r, len) == FitsAtEnd(r, len) \/ FitsAtStart(r, len) \/ FitsBefore(r, len)

(* QueueWriteDataFinished at k, for a packet of used units. *)
Written(r, k, p, used) ==
  [r EXCEPT !.mem = [j \in Places |-> IF j = k THEN Header(p, used)
                                      ELSE IF j \in k + 1 .. k + used THEN Data
                                      ELSE r.mem[j]],
            !.wp = k + used + 1,
            !.count = @ + 1]

QueueWrite_NoPadding(r, p, len, used) ==
  IF FitsAtEnd(r, len) \/ FitsBefore(r, len) THEN Written(r, r.wp, p, used)
  ELSE Written(r, 0, p, used)

(* Allocate, then Finished: room was asked for len units and used are taken. *)
QueueWrite(r, p, len, used) ==
  IF FitsAtEnd(r, len) \/ FitsBefore(r, len) THEN Written(r, r.wp, p, used)
  ELSE Written([r EXCEPT !.mem[r.wp] = Padding], 0, p, used)
-----------------------------------------------------------------------------
Init == ring = NewRing /\ out = <<>> /\ pushed = 0

(* The ring r after k reads of the next packet, for k up to n. *)
Reads(r, n) == LET after[k \in 0 .. n] ==
                     IF k = 0 THEN r ELSE QueueReadNextPacket(after[k - 1])
               IN after

First(S) == CHOOSE k \in S : \A j \in S : k <= j

(* f_PushPktQueue: packets are read away until the new one fits, none is left, or
   the limit is passed.  Stripping a VLAN tag (4 bytes) may save a unit after the
   room was allocated. *)
f_PushPktQueue ==
  /\ pushed < MaxPushed /\ pushed' = pushed + 1
  /\ \E len \in Lens : \E used \in {len - 1, len} \ {0} :
       LET after == Reads(ring, EvictLimit + 1)
           GivesUp(j) == j > EvictLimit \/ (j > 0 /\ after[j].last = 0)
           k == First({j \in 0 .. EvictLimit + 1 : GivesUp(j) \/ Fits(after[j], len)})
       IN ring' = IF GivesUp(k) THEN after[k] ELSE QueueWrite(after[k], pushed', len, used)
  /\ UNCHANGED out

(* f_FlushPktQueue: read and send until nothing is left. *)
f_FlushPktQueue ==
  LET after == Reads(ring, Size)
      n == First({k \in 1 .. Size : after[k].last <= 0})
  IN /\ ring' = after[n]
     /\ out' = out \o [k \in 1 .. n - 1 |-> after[k].mem[after[k].rp].id]
     /\ UNCHANGED pushed

(* f_ClearQueue, when an update changes the peer's addresses. *)
f_ClearQueue == /\ ring' = QueueClearQueue(ring)
                /\ UNCHANGED <<out, pushed>>

Next == f_PushPktQueue \/ f_FlushPktQueue
Spec == Init /\ [][Next]_vars

NextOrClear == Next \/ f_ClearQueue
SpecWithClear == Init /\ [][NextOrClear]_vars
-----------------------------------------------------------------------------
(* The counters never show more packets read than written. *)
ReadsBehindWrites == ring.count >= 0
=============================================================================
