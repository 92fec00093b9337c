------------------------------ MODULE Channels ------------------------------
(***************************************************************************)
(* The five channels to the peer and the order in which the probe prefers  *)
(* them: TS_PEER_STAT_E, and the order of the tests in TS_HandleTimer      *)
(* (FluxControlObserver.cpp).                                              *)
(***************************************************************************)
EXTENDS Integers, Sequences

Order == <<"main", "net1", "net2", "com1", "com2">>
Channels == {"main", "net1", "net2", "com1", "com2"}
BackNets == {"net1", "net2"}     \* the back-up networks: they buffer packets
BackComs == {"com1", "com2"}     \* the serial lines
NoChannel == "none"              \* DISCONNECT

Rank(c) == CHOOSE k \in 1 .. 5 : Order[k] = c
Better(c, d) == Rank(c) < Rank(d)
First(S) == CHOOSE c \in S : \A d \in S \ {c} : Better(c, d)
=============================================================================
