---------------------------- MODULE MCSerialFrame ---------------------------
(***************************************************************************)
(* SerialFrame for packets of one and two bytes that hold every byte, with *)
(* a checksum that has a plain byte and one that depends on the packet.    *)
(***************************************************************************)
EXTENDS SerialFrame

MCPackets == {<<3>>, <<Flag>>, <<Esc, 0>>}

MCFcs(p) == <<3, Last(p)>>
=============================================================================
