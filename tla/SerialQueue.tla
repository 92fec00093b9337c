----------------------------- MODULE SerialQueue ----------------------------
(***************************************************************************)
(* The two rings between the packet thread and the tasks of the serial     *)
(* lines, each used by two threads without a common lock:                  *)
(*  - "send": CSerialDataSend::f_SendPacket (packet thread) writes, the    *)
(*    task CSerialSendTask::svc reads, woken by a semaphore                *)
(*    (PacketIO/source/SerialDataSend.cpp);                                *)
(*  - "recv": the tasks CSerialRecvTask::svc write, one at a time under    *)
(*    m_mutex, so that they are one writer here; the packet thread reads   *)
(*    in CSerialDataRecv::f_GetPacket and polls (SerialDataRecv.cpp).      *)
(*                                                                         *)
(* The operators of CommonQueue are taken apart here: one access to the    *)
(* memory both share is one step.  The last three stores of a write are    *)
(* plain stores without a fence; where the semaphore follows them they     *)
(* are made in any order, where nothing does in that of the source, which  *)
(* is that of an x86.                                                      *)
(***************************************************************************)
EXTENDS Integers, Sequences

CONSTANTS Size,        \* units of 8 bytes in the buffer
          Lens,        \* lengths of packets, in units
          MaxPackets   \* bound: packets written

ASSUME QueueOK == Size \in Nat \ {0} /\ Lens \subseteq Nat \ {0} /\ MaxPackets \in Nat

VARIABLES use,       \* "send" or "recv"
          ring,      \* the buffer, its positions, the difference of its counters, m_nLastReadPktLen
          sem,       \* m_sem; not used by "recv"
          wpc,       \* where the writer is
          packet,    \* the packet the writer has: its number, length and place
          stores,    \* the stores QueueWriteDataFinished has still to make, "send"
          rpc,       \* where the reader is
          seen,      \* the units of the packet the reader has looked at
          taken,     \* history: the packets that found room, with the places they got
          out        \* history: the packets the reader made out, 0 for a mixed one

vars == <<use, ring, sem, wpc, packet, stores, rpc, seen, taken, out>>

nPackets == packet.id
Q == INSTANCE CommonQueue WITH EvictLimit <- 0, MaxPushed <- MaxPackets, pushed <- nPackets

(* A unit of payload belongs to a packet. *)
Unit(p) == [kind |-> "data", id |-> p, len |-> 0]
-----------------------------------------------------------------------------
(* The writer: QueueWriteAllocateBuffer, memcpy, QueueWriteDataFinished *)

writerVars == <<wpc, packet, stores, taken>>
readerVars == <<rpc, seen, out>>

(* How often the writer has gone back to the start of the buffer. *)
Lap == IF taken = <<>> THEN 0 ELSE taken[Len(taken)].lap

(* Allocation looks at pReadPosition once. *)
Allocate ==
  /\ wpc = "idle" /\ nPackets < MaxPackets
  /\ \E len \in Lens :
       /\ packet' = [id |-> nPackets + 1, len |-> len]
       /\ \/ /\ Q!FitsAtEnd(ring, len) \/ Q!FitsBefore(ring, len)
             /\ wpc' = "copy"
             /\ taken' = Append(taken, [id |-> packet'.id, len |-> len, at |-> ring.wp, lap |-> Lap])
          \/ /\ ~ (Q!FitsAtEnd(ring, len) \/ Q!FitsBefore(ring, len)) /\ Q!FitsAtStart(ring, len)
             /\ wpc' = "pad"
             /\ taken' = Append(taken, [id |-> packet'.id, len |-> len, at |-> 0, lap |-> Lap + 1])
          \/ ~ Q!Fits(ring, len) /\ UNCHANGED <<wpc, taken>>
  /\ UNCHANGED <<use, ring, sem, stores, readerVars>>

Pad == /\ wpc = "pad" /\ wpc' = "wrap"
       /\ ring' = [ring EXCEPT !.mem[ring.wp] = Q!Padding]
       /\ UNCHANGED <<use, sem, packet, stores, taken, readerVars>>

Wrap == /\ wpc = "wrap" /\ wpc' = "copy"
        /\ ring' = [ring EXCEPT !.wp = 0]
        /\ UNCHANGED <<use, sem, packet, stores, taken, readerVars>>

Copy == /\ wpc = "copy" /\ wpc' = "finish"
        /\ ring' = [ring EXCEPT !.mem = [k \in Q!Places |->
                      IF k \in ring.wp + 1 .. ring.wp + packet.len THEN Unit(packet.id) ELSE @[k]]]
        /\ stores' = {"header", "wp", "count"}
        /\ UNCHANGED <<use, sem, packet, taken, readerVars>>

(* The place of the packet is known before pWritePosition moves. *)
Store(s) ==
  LET at == IF "wp" \in stores THEN ring.wp ELSE ring.wp - packet.len - 1
  IN ring' = CASE s = "header" -> [ring EXCEPT !.mem[at] = Q!Header(packet.id, packet.len)]
               [] s = "wp"     -> [ring EXCEPT !.wp = @ + packet.len + 1]
               [] s = "count"  -> [ring EXCEPT !.count = @ + 1]

NextStores_AnyOrder == stores
(* Which stores may come next. *)
NextStores == IF use = "send" THEN stores
              ELSE IF "header" \in stores THEN {"header"}
              ELSE IF "wp" \in stores THEN {"wp"} ELSE stores

WriteDataFinished ==
  /\ wpc = "finish"
  /\ \E s \in NextStores : Store(s) /\ stores' = stores \ {s}
  /\ wpc' = IF stores' = {} THEN "post" ELSE "finish"
  /\ UNCHANGED <<use, sem, packet, taken, readerVars>>

Post_Binary == /\ wpc = "post" /\ wpc' = "idle"
               /\ sem' = IF use = "send" THEN 1 ELSE sem
               /\ UNCHANGED <<use, ring, packet, stores, taken, readerVars>>

(* sem_post; on the way in the mutex is let go instead. *)
Post == /\ wpc = "post" /\ wpc' = "idle"
        /\ sem' = IF use = "send" THEN sem + 1 ELSE sem
        /\ UNCHANGED <<use, ring, packet, stores, taken, readerVars>>

Writer == Allocate \/ Pad \/ Wrap \/ Copy \/ WriteDataFinished \/ Post
-----------------------------------------------------------------------------
(* The reader: QueueReadNextPacket, then the packet is used where it lies *)

(* sem_wait, or the next poll; the packet read before is skipped now. *)
Wait == /\ rpc = "wait"
        /\ use = "send" => sem > 0
        /\ sem' = IF use = "send" THEN sem - 1 ELSE sem
        /\ rpc' = IF ring.last > 0 THEN "skip" ELSE "count"
        /\ seen' = <<>>
        /\ UNCHANGED <<use, ring, writerVars, out>>

Skip == /\ rpc = "skip" /\ rpc' = "skipped"
        /\ ring' = [ring EXCEPT !.rp = Q!QueueSkipCurrentPacket(ring).rp]
        /\ UNCHANGED <<use, sem, writerVars, seen, out>>

Skipped == /\ rpc = "skipped" /\ rpc' = "count"
           /\ ring' = [ring EXCEPT !.count = @ - 1, !.last = 0]
           /\ UNCHANGED <<use, sem, writerVars, seen, out>>

CheckCount_OffByOne == /\ rpc = "count"
                       /\ rpc' = IF ring.count <= 1 THEN "wait" ELSE "positions"
                       /\ ring' = [ring EXCEPT !.last = 0]
                       /\ UNCHANGED <<use, sem, writerVars, seen, out>>

(* The counters are looked at first, then the positions, then the header. *)
CheckCount == /\ rpc = "count"
              /\ rpc' = IF ring.count <= 0 THEN "wait" ELSE "positions"
              /\ ring' = [ring EXCEPT !.last = 0]
              /\ UNCHANGED <<use, sem, writerVars, seen, out>>

CheckPositions == /\ rpc = "positions"
                  /\ rpc' = IF ring.wp = ring.rp THEN "wait" ELSE "header"
                  /\ UNCHANGED <<use, ring, sem, writerVars, seen, out>>

(* PACKET_TYPE_PKT_ERROR gives up everything there is.  FindsHeader shows that the
   reader never gets there, so what it does after that is left out. *)
ReadHeader ==
  /\ rpc = "header"
  /\ LET unit == ring.mem[ring.rp]
     IN \/ unit.kind = "padding" /\ rpc' = "count" /\ ring' = [ring EXCEPT !.rp = 0]
        \/ unit.kind = "packet" /\ rpc' = "use" /\ ring' = [ring EXCEPT !.last = unit.len]
        \/ unit.kind \in {"zero", "data"} /\ rpc' = "error" /\ ring' = [ring EXCEPT !.count = 0]
  /\ UNCHANGED <<use, sem, writerVars, seen, out>>

(* The payload is read unit by unit, by the loop of svc or by who handles the
   packet f_GetPacket returned. *)
Use ==
  /\ rpc = "use"
  /\ IF Len(seen) < ring.last
     THEN /\ seen' = Append(seen, ring.mem[ring.rp + Len(seen) + 1])
          /\ UNCHANGED <<rpc, out>>
     ELSE /\ out' = Append(out, IF \E p \in 1 .. nPackets : \A k \in DOMAIN seen : seen[k] = Unit(p)
                                THEN seen[1].id ELSE 0)
          /\ rpc' = "wait" /\ UNCHANGED seen
  /\ UNCHANGED <<use, ring, sem, writerVars>>

Reader == Wait \/ Skip \/ Skipped \/ CheckCount \/ CheckPositions \/ ReadHeader \/ Use
-----------------------------------------------------------------------------
Init == /\ use \in {"send", "recv"}
        /\ ring = Q!NewRing /\ sem = 0
        /\ wpc = "idle" /\ packet = [id |-> 0, len |-> 0] /\ stores = {}
        /\ rpc = "wait" /\ seen = <<>>
        /\ taken = <<>> /\ out = <<>>

Next == Writer \/ Reader

(* Both threads run. *)
Spec == Init /\ [][Next]_vars /\ WF_vars(Writer) /\ WF_vars(Reader)
-----------------------------------------------------------------------------
TypeOK ==
  /\ use \in {"send", "recv"} /\ sem \in 0 .. MaxPackets
  /\ ring.wp \in Q!Places /\ ring.rp \in Q!Places
  /\ ring.count \in 0 .. MaxPackets /\ ring.last \in Lens \cup {0}
  /\ wpc \in {"idle", "pad", "wrap", "copy", "finish", "post"}
  /\ packet.id \in 0 .. MaxPackets /\ packet.len \in Lens \cup {0}
  /\ stores \subseteq {"header", "wp", "count"}
  /\ rpc \in {"wait", "skip", "skipped", "count", "positions", "header", "use", "error"}

(* Where the reader looks for a header there is one, of a packet or of padding,
   whatever the writer is in the middle of.  Otherwise the ring counts as damaged
   and all it holds is thrown away. *)
FindsHeader == rpc = "header" => ring.mem[ring.rp].kind \in {"packet", "padding"}

(* The packets that found room come out whole and in order: none is overwritten
   while it is read in place, none is read twice or skipped. *)
DeliveredInOrder == Len(out) <= Len(taken) /\ \A k \in DOMAIN out : out[k] = taken[k].id

(* Between two packets the semaphore counts those the sending task has not seen:
   no wake-up is lost and none finds nothing. *)
SignalPerPacket ==
  use = "send" /\ wpc = "idle" /\ rpc = "wait" => sem + Len(out) = Len(taken)

(* What found room is read. *)
EverythingRead == \A k \in 1 .. MaxPackets : Len(taken) >= k ~> Len(out) >= k
=============================================================================
