---------------------------- MODULE MCSupervisor ----------------------------
(***************************************************************************)
(* The supervisor of one program for TLC: an entry of ProbeService.xml per *)
(* kind, and the changes the properties are tried against.                 *)
(***************************************************************************)
EXTENDS Supervisor

(* The first entry of the shipped file is the one whose state is saved and
   that unierm_ctrl.xml lists. *)
testcontrol == [kind |-> "event", saved |-> TRUE, timeback |-> TRUE]
another     == [kind |-> "common", saved |-> FALSE, timeback |-> FALSE]

Both == {testcontrol, another}
=============================================================================
