----------------------------- MODULE RingBuffer -----------------------------
(***************************************************************************)
(* The ring of CommonQueue as the buffer of a peer (PeerBuffer): what is   *)
(* in it, how much it holds, and how much it keeps.                        *)
(***************************************************************************)
EXTENDS RingState

CONSTANTS MaxLen,   \* no packet is longer
          RingCap,  \* packets the ring can hold
          RingKeep  \* packets so few that there is room for one more

(* A packet takes two units or more.  One that finds no room, because there are less
   than MaxLen + 2 units before the reader and MaxLen + 3 lost at the end, finds more
   than RingKeep in the ring. *)
ASSUME BufferOK ==
  /\ MaxLen \in Nat /\ \A len \in Lens : len <= MaxLen
  /\ RingCap \in Nat /\ Size <= 2 * RingCap
  /\ RingKeep \in Nat
  /\ RingKeep > 0 => RingKeep * (MaxLen + 1) < Size - 2 * MaxLen - 3
-----------------------------------------------------------------------------
(* The packets in the buffer, oldest first, as the reader will find them. *)
Content(r) ==
  LET at[k \in 1 .. r.count] ==
        IF k = 1 THEN PastPadding(r, r.rp)
        ELSE PastPadding(r, at[k - 1] + r.mem[at[k - 1]].len + 1)
  IN [k \in 1 .. r.count |-> r.mem[at[k]].id]

Buffer == INSTANCE PeerBuffer WITH
            QueueCap <- RingCap, Keep <- RingKeep, ReadLimit <- EvictLimit, Packets <- 1 .. MaxPushed,
            queue <- [pkts |-> Content(ring), read |-> ring.last > 0]

(* Through every wrap-around, eviction and flush the ring behaves like a queue that
   gives up its oldest packets, never one of the newest RingKeep while it has room for
   the next, and loses a newer one in one way only: a push that has no room after
   EvictLimit reads drops the packet it brought, and leaves of those that were buffered
   at least RingKeep, the last one read among them. *)
IsPeerBuffer == Buffer!Spec
=============================================================================
