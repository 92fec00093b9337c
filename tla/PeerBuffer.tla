----------------------------- MODULE PeerBuffer -----------------------------
(***************************************************************************)
(* The abstract specification of one peer's buffer: what the ring of bytes *)
(* in module CommonQueue has to implement, and what Failover builds on.    *)
(***************************************************************************)
EXTENDS PacketQueue

CONSTANT Packets

VARIABLES queue,   \* what is buffered
          out      \* what was sent, in order

Init == queue = EmptyQueue /\ out = <<>>

Push == /\ \E p \in Packets : queue' \in f_PushPktQueue(queue, p)
        /\ out' = out

Flush == /\ queue' = EmptyQueue
         /\ out' = out \o Pending(queue)

Spec == Init /\ [][Push \/ Flush]_<<queue, out>>
=============================================================================
