----------------------------- MODULE SerialDetect ----------------------------
(***************************************************************************)
(* How the probes at the two ends of a serial line decide whether it is    *)
(* usable: CTS_BackCom (ts_module/TS_BackCom.cpp), and the short packets   *)
(* that TS_HandleSerialPacket (FluxControlObserver.cpp) takes for answers. *)
(*                                                                         *)
(* There are no answers: every fifth tick each end sends six bytes of its  *)
(* own accord, and what an end books as the answer to its probe is the     *)
(* probe of the other end.  The probe table (TestWindow) has one slot and  *)
(* every probe has the id 1.  An update of the configuration does not      *)
(* touch any of this, but the ticks stop while it lasts.                   *)
(*                                                                         *)
(* Both ends run the same code.  Their timers have the same rate: a round  *)
(* is a tick of each, in either order.  What is sent over a good direction *)
(* of the line arrives before the next tick of any end.                    *)
(***************************************************************************)
EXTENDS TestWindow

CONSTANT Period   \* ticks from one check to the next (5 in the code)

ASSUME PeriodOK == Period \in Nat \ {0}

Ends == {"a", "b"}
Other(e) == CHOOSE f \in Ends : f # e
EchoId == 1

VARIABLES stat,      \* m_eHostStat at each end
          chkPeriod, \* m_nChkPeriod at each end
          win,       \* m_iHostTest at each end
          good,      \* whether the direction of the line towards an end works
          net,       \* whether a short packet is on its way to an end
          ticked     \* the ends whose timer has gone off in this round

vars == <<stat, chkPeriod, win, good, net, ticked>>

Stats == {"UNKNOWN", "ECHO_CHECKING", "ECHO_OK", "ECHO_FAILED"}
-----------------------------------------------------------------------------
(* The ends are started independently: their checks may have any phase. *)
Init == /\ stat = [e \in Ends |-> "UNKNOWN"]
        /\ chkPeriod \in [Ends -> 0 .. Period - 1]
        /\ win = [e \in Ends |-> InitWindow(1)]
        /\ good \in [Ends -> BOOLEAN]
        /\ net = [e \in Ends |-> FALSE]
        /\ ticked = {}
-----------------------------------------------------------------------------
(* The line *)

SetLine == /\ \E e \in Ends : good' = [good EXCEPT ![e] = ~@]
           /\ UNCHANGED <<stat, chkPeriod, win, net, ticked>>

(* TS_HandleSerialPacket: a packet of at most 60 bytes counts.  Here it is always a
   heartbeat of the other end, never a short packet that it forwards. *)
HandleShortPacket(e) == /\ net[e]
                        /\ net' = [net EXCEPT ![e] = FALSE]
                        /\ win' = [win EXCEPT ![e] = OnGetOneRsp(@, EchoId)]
                        /\ UNCHANGED <<stat, chkPeriod, good, ticked>>
-----------------------------------------------------------------------------
(* The timer *)

Prompt == \A e \in Ends : ~net[e]

Round(e) == /\ Prompt /\ e \notin ticked
            /\ ticked' = IF ticked = {} THEN {e} ELSE {}

(* An update of the configuration: PushPacket skips the detections. *)
Skip(e) == Round(e) /\ UNCHANGED <<stat, chkPeriod, win, good, net>>

NotDue(e) == /\ Round(e) /\ chkPeriod[e] < Period - 1
             /\ chkPeriod' = [chkPeriod EXCEPT ![e] = @ + 1]
             /\ UNCHANGED <<stat, win, good, net>>

f_SendEchoReq(e) == net' = [net EXCEPT ![Other(e)] = good[Other(e)]]

NextStat_NoTimeout(s, w) ==
  IF s = "UNKNOWN" THEN "ECHO_CHECKING"
  ELSE IF GetRspNum(w) < 1 THEN IF s = "ECHO_CHECKING" THEN "ECHO_FAILED" ELSE s
  ELSE IF s = "ECHO_FAILED" THEN "ECHO_CHECKING" ELSE "ECHO_OK"

(* The switch on m_eHostStat, for a table w. *)
NextStat(s, w) ==
  LET heard == GetRspNum(w) >= 1
      lost == CheckTimeout(w).lost >= 1
  IN IF s = "UNKNOWN" THEN "ECHO_CHECKING"
     ELSE IF s = "ECHO_CHECKING" THEN IF heard THEN "ECHO_OK" ELSE IF lost THEN "ECHO_FAILED" ELSE s
     ELSE IF s = "ECHO_OK" THEN IF lost THEN "ECHO_FAILED" ELSE s
     ELSE IF heard THEN "ECHO_CHECKING" ELSE s

(* The table CheckTimeout leaves: it is called unless enough was heard already. *)
Timed(s, w) == IF s = "ECHO_OK" \/ (s = "ECHO_CHECKING" /\ GetRspNum(w) < 1)
               THEN CheckTimeout(w) ELSE w

f_BackComCheck_MuteFailed(e) ==
  /\ Round(e) /\ chkPeriod[e] >= Period - 1
  /\ chkPeriod' = [chkPeriod EXCEPT ![e] = 0]
  /\ stat' = [stat EXCEPT ![e] = NextStat(@, win[e])]
  /\ IF stat[e] = "ECHO_FAILED" THEN UNCHANGED net ELSE f_SendEchoReq(e)
  /\ win' = [win EXCEPT ![e] = OnSendOneRequest(Timed(stat[e], @), EchoId)]
  /\ UNCHANGED good

f_BackComCheck(e) ==
  /\ Round(e) /\ chkPeriod[e] >= Period - 1
  /\ chkPeriod' = [chkPeriod EXCEPT ![e] = 0]
  /\ stat' = [stat EXCEPT ![e] = NextStat(@, win[e])]
  /\ f_SendEchoReq(e)
  /\ win' = [win EXCEPT ![e] = OnSendOneRequest(Timed(stat[e], @), EchoId)]
  /\ UNCHANGED good

Next == \/ SetLine
        \/ \E e \in Ends : HandleShortPacket(e)
        \/ \E e \in Ends : Skip(e)
        \/ \E e \in Ends : NotDue(e)
        \/ \E e \in Ends : f_BackComCheck(e)

Spec == Init /\ [][Next]_vars
-----------------------------------------------------------------------------
(* The state of both ends is well formed, and the counters of a table agree with
   its one slot. *)
TypeOK ==
  /\ stat \in [Ends -> Stats] /\ chkPeriod \in [Ends -> 0 .. Period - 1]
  /\ win \in [Ends -> Windows(1, {0, EchoId})]
  /\ \A e \in Ends : CountersExact(win[e])
  /\ good \in [Ends -> BOOLEAN] /\ net \in [Ends -> BOOLEAN]
  /\ ticked \in {{}} \cup {{e} : e \in Ends}
=============================================================================
