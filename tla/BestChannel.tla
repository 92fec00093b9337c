---------------------------- MODULE BestChannel -----------------------------
(***************************************************************************)
(* What the probe promises about the channel the peer's traffic takes,     *)
(* without the table of switches that achieves it: after every periodic    *)
(* check it is the best of the channels that are usable, and none if none  *)
(* is.                                                                     *)
(***************************************************************************)
EXTENDS Channels

VARIABLES running,   \* the channel in use
          usable     \* the channels whose detection reports them usable

Best(S) == IF S = {} THEN NoChannel ELSE First(S)

Init == running = NoChannel /\ usable = {}

Check == /\ usable' \in SUBSET Channels
         /\ running' = Best(usable')

(* An update of the configuration may take channels away, and drop the one in
   use until the next check. *)
Reset == /\ usable' \in SUBSET usable
         /\ running' \in {running, NoChannel}

Spec == Init /\ [][Check \/ Reset]_<<running, usable>>
=============================================================================
