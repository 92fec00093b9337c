----------------------------- MODULE RingState ------------------------------
(***************************************************************************)
(* The state of the ring of module CommonQueue, and what must be true of   *)
(* it whatever is written, read and evicted.  It stands apart because      *)
(* Failover_proofs proves it beside what it proves of the switch, which    *)
(* sends what the rings hold.                                              *)
(*                                                                         *)
(* Everything is measured in units of 8 bytes, the size of a packet header *)
(* and the alignment (INT_PTR_ALIGN), and positions count from the end of  *)
(* the buffer's own head.  A packet of len units takes one more for its    *)
(* header.                                                                 *)
(***************************************************************************)
EXTENDS Integers, Sequences

CONSTANTS Size,        \* units in the buffer
          Lens,        \* lengths of packets
          EvictLimit,  \* reads one push may make (30 in the code)
          MaxPushed    \* bound: packets pushed

ASSUME RingOK == /\ Size \in Nat \ {0} /\ Lens \subseteq Nat \ {0}
                 /\ EvictLimit \in Nat /\ MaxPushed \in Nat

VARIABLES ring,   \* the buffer, with its positions and counters
          out,    \* history: the packets sent
          pushed  \* packets pushed so far; a packet is its number

Places == 0 .. Size - 1

(* A unit is never written, the header of a packet or of padding, or payload. *)
Zero == [kind |-> "zero", id |-> 0, len |-> 0]
Padding == [kind |-> "padding", id |-> 0, len |-> 0]
Data == [kind |-> "data", id |-> 0, len |-> 0]
Header(p, len) == [kind |-> "packet", id |-> p, len |-> len]

(* Padding sends the reader back to the start. *)
PastPadding(r, k) == IF r.mem[k].kind = "padding" THEN 0 ELSE k
-----------------------------------------------------------------------------
(* The ring is well formed: positions stay inside the buffer (rule 3 of the
   comment on the queue), its units are of the four kinds, and the reader never
   finds it damaged. *)
WellFormed ==
  /\ ring.wp \in Places /\ ring.rp \in Places
  /\ ring.count \in Nat /\ ring.last \in Nat
  /\ \A k \in Places : ring.mem[k] \in {Zero, Padding, Data}
                         \cup {Header(p, l) : p \in 1 .. pushed, l \in 1 .. Size}
  /\ pushed \in 0 .. MaxPushed /\ out \in Seq(1 .. pushed)

(* Rules 4 and 5 of the comment on the queue: the positions meet exactly when the
   buffer is empty, so a full buffer is never taken for an empty one. *)
EmptyIffMeet == ring.wp = ring.rp <=> ring.count = 0
=============================================================================
