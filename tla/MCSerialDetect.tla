--------------------------- MODULE MCSerialDetect ---------------------------
(***************************************************************************)
(* SerialDetect with history variables: how long the line has been good    *)
(* and the timers running, and how long each end has heard nothing.        *)
(***************************************************************************)
EXTENDS SerialDetect

Settled == 4 * Period   \* rounds; both counts are capped there

VARIABLES calm,    \* rounds since the line was last bad or a tick was skipped
          silent,  \* checks of each end since it last heard the other
          heard    \* packets each end has heard since it last failed (1 at the start)

mcvars == <<vars, calm, silent, heard>>

AtMost(n, max) == IF n > max THEN max ELSE n

MCInit == /\ Init /\ calm = 0
          /\ silent = [e \in Ends |-> 0] /\ heard = [e \in Ends |-> 1]

(* A round ends with its second tick. *)
RoundDone == calm' = IF ticked' = {} /\ (\A e \in Ends : good[e])
                     THEN AtMost(calm + 1, Settled) ELSE calm

MCLine == /\ SetLine /\ calm' = 0 /\ UNCHANGED <<silent, heard>>
MCSkip(e) == /\ Skip(e) /\ calm' = 0 /\ UNCHANGED <<silent, heard>>
MCNotDue(e) == /\ NotDue(e) /\ RoundDone /\ UNCHANGED <<silent, heard>>

MCShort(e) == /\ HandleShortPacket(e)
              /\ silent' = [silent EXCEPT ![e] = 0]
              /\ heard' = [heard EXCEPT ![e] = AtMost(@ + 1, 2)]
              /\ UNCHANGED calm

MCCheck(e) == /\ f_BackComCheck(e) /\ RoundDone
              /\ silent' = [silent EXCEPT ![e] = AtMost(@ + 1, 3)]
              /\ heard' = IF stat[e] # "ECHO_FAILED" /\ stat'[e] = "ECHO_FAILED"
                          THEN [heard EXCEPT ![e] = 0] ELSE heard

MCNext == \/ MCLine
          \/ \E e \in Ends : MCSkip(e)
          \/ \E e \in Ends : MCNotDue(e)
          \/ \E e \in Ends : MCShort(e)
          \/ \E e \in Ends : MCCheck(e)

MCSpec == MCInit /\ [][MCNext]_mcvars
-----------------------------------------------------------------------------
(* A line that has gone silent is given up at the second check: an end in ECHO_OK
   has heard the other since the check before the last. *)
DetectsSilence == \A e \in Ends : stat[e] = "ECHO_OK" => silent[e] <= 1

(* A single packet, perhaps one that was late, does not bring a failed line back:
   it takes one in each of two periods. *)
FreshEvidence ==
  [][\A e \in Ends : stat[e] # "ECHO_OK" /\ stat'[e] = "ECHO_OK"
       => heard[e] >= 2]_mcvars

(* Once the line is good both ways and no timer stands still, both ends find it
   usable within four periods and never give it up again, unless their checks have
   the same phase: then one end may check twice between two checks of the other. *)
GoodLineIsUsed ==
  calm = Settled /\ chkPeriod["a"] # chkPeriod["b"] /\ ticked = {}
    => \A e \in Ends : stat[e] = "ECHO_OK"
=============================================================================
