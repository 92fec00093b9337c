---------------------------- MODULE MCCommonQueue ---------------------------
(***************************************************************************)
(* CommonQueue against its abstract specification.                         *)
(***************************************************************************)
EXTENDS CommonQueue, RingBuffer
=============================================================================
