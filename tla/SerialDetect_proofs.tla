------------------------ MODULE SerialDetect_proofs -------------------------
(***************************************************************************)
(* For every period of the checks, every phase between the two ends and    *)
(* every behaviour of the line: the state of both ends is well formed, a   *)
(* line that falls silent is given up at the second check, no single       *)
(* packet brings a failed line back, and a line that has become good is    *)
(* found so by both ends.  For any packets, any checksum and any number of *)
(* calls of write: frames bring the packets to the other end unchanged and *)
(* in order until a write fails or strays, and the receiver never collects *)
(* more than a buffer of the sender's size holds.                          *)
(***************************************************************************)
EXTENDS MCSerialDetect, FrameState, TestWindow_proofs, SequenceTheorems

F == INSTANCE SerialFrame

Ids == {0, EchoId}

(* There is another end to send to. *)
LEMMA EndFacts ==
  ASSUME NEW e \in Ends
  PROVE  Other(e) \in Ends
BY DEF Ends, Other

(* The table of one end, and what a short packet and a check make of it. *)
LEMMA TableSteps ==
  ASSUME NEW w \in Windows(1, Ids), CountersExact(w), NEW s
  PROVE  /\ OnGetOneRsp(w, EchoId) \in Windows(1, Ids)
         /\ CountersExact(OnGetOneRsp(w, EchoId))
         /\ w.items[0].sent => OnGetOneRsp(w, EchoId).items[0].sent
         /\ OnSendOneRequest(Timed(s, w), EchoId) \in Windows(1, Ids)
         /\ CountersExact(OnSendOneRequest(Timed(s, w), EchoId))
         /\ OnSendOneRequest(Timed(s, w), EchoId).rsp = 0
         /\ OnSendOneRequest(Timed(s, w), EchoId).items[0].sent
<1>1. Timed(s, w) \in Windows(1, Ids) /\ CountersExact(Timed(s, w))
  BY TimeoutKeepsCounters DEF Timed
<1> QED BY <1>1, RspKeepsCounters, OneSlotAnswer, OneSlotSend DEF Ids

(* A new state is one of the four; the line is used only after a packet was heard in
   this period, or the one before it was answered. *)
LEMMA StatSteps ==
  ASSUME NEW w \in Windows(1, Ids), CountersExact(w), NEW s \in Stats
  PROVE  /\ NextStat(s, w) \in Stats
         /\ NextStat(s, w) = "ECHO_OK" =>
              \/ s = "ECHO_CHECKING" /\ w.rsp >= 1
              \/ s = "ECHO_OK" /\ (w.items[0].sent => w.rsp >= 1)
         /\ NextStat(s, w) = "ECHO_CHECKING" =>
              \/ s = "UNKNOWN"
              \/ s = "ECHO_CHECKING"
              \/ s = "ECHO_FAILED" /\ w.rsp >= 1
         /\ NextStat(s, w) # "UNKNOWN"
<1>1. w.items[0].sent => CheckTimeout(w).lost >= 1 \/ w.rsp >= 1
  BY UnansweredIsLost
<1> QED BY <1>1 DEF NextStat, GetRspNum, Stats

-----------------------------------------------------------------------------
(* What the silence of an end says of its table, and what it has heard. *)
SilenceKnown(e) == /\ win[e].rsp >= 1 => silent[e] = 0
                   /\ stat[e] # "UNKNOWN" => win[e].items[0].sent
                   /\ stat[e] = "ECHO_OK" => silent[e] <= 1

(* A packet booked now is one more than what the last period, or the failure, left. *)
HeardEnough(e) == /\ stat[e] = "UNKNOWN" => heard[e] >= 1
                  /\ stat[e] = "ECHO_CHECKING" =>
                       heard[e] >= 1 /\ (win[e].rsp >= 1 => heard[e] >= 2)
                  /\ stat[e] = "ECHO_FAILED" => (win[e].rsp >= 1 => heard[e] >= 1)

HistoryOK == silent \in [Ends -> 0 .. 3] /\ heard \in [Ends -> 0 .. 2]

IInv == TypeOK /\ HistoryOK /\ \A e \in Ends : SilenceKnown(e) /\ HeardEnough(e)

(* Both ends start with an empty table and one packet to their credit. *)
LEMMA InitIInv == MCInit => IInv
<1> SUFFICES ASSUME MCInit PROVE IInv
  OBVIOUS
<1>1. InitWindow(1) \in Windows(1, Ids) /\ CountersExact(InitWindow(1)) /\ InitWindow(1).rsp = 0
  BY InitKeepsCounters DEF Ids, InitWindow
<1>2. TypeOK
  BY <1>1, PeriodOK DEF MCInit, Init, TypeOK, Stats, Ids
<1>3. HistoryOK
  BY DEF MCInit, HistoryOK
<1>4. \A e \in Ends : SilenceKnown(e) /\ HeardEnough(e)
  BY <1>1 DEF MCInit, Init, SilenceKnown, HeardEnough
<1> QED BY <1>2, <1>3, <1>4 DEF IInv

(* The line, and the ticks at which no check is due. *)
LEMMA QuietIInv ==
  ASSUME IInv, MCLine \/ \E e \in Ends : MCSkip(e) \/ MCNotDue(e)
  PROVE  IInv' /\ stat' = stat
<1>1. UNCHANGED <<stat, win, net, silent, heard>>
  BY DEF MCLine, MCSkip, MCNotDue, SetLine, Skip, NotDue
<1>2. /\ good' \in [Ends -> BOOLEAN] /\ chkPeriod' \in [Ends -> 0 .. Period - 1]
      /\ ticked' \in {{}} \cup {{e} : e \in Ends}
  <2>1. CASE MCLine
    BY <2>1 DEF IInv, TypeOK, MCLine, SetLine
  <2>2. ASSUME NEW e \in Ends, MCSkip(e)
        PROVE  UNCHANGED <<chkPeriod, good>> /\ ticked' \in {{}} \cup {{f} : f \in Ends}
    BY <2>2 DEF MCSkip, Skip, Round
  <2>3. ASSUME NEW e \in Ends, MCNotDue(e)
        PROVE  /\ chkPeriod' \in [Ends -> 0 .. Period - 1] /\ UNCHANGED good
               /\ ticked' \in {{}} \cup {{f} : f \in Ends}
    BY <2>3, PeriodOK DEF IInv, TypeOK, MCNotDue, NotDue, Round
  <2> QED BY <2>1, <2>2, <2>3 DEF IInv, TypeOK
<1> QED BY <1>1, <1>2 DEF IInv, TypeOK, HistoryOK, SilenceKnown, HeardEnough

(* A short packet is counted, and booked if a probe still waits. *)
LEMMA ShortIInv ==
  ASSUME IInv, NEW e \in Ends, MCShort(e)
  PROVE  IInv' /\ stat' = stat
<1>1. /\ UNCHANGED <<stat, chkPeriod, good, ticked>>
      /\ net' = [net EXCEPT ![e] = FALSE]
      /\ win' = [win EXCEPT ![e] = OnGetOneRsp(@, EchoId)]
      /\ silent' = [silent EXCEPT ![e] = 0]
      /\ heard' = [heard EXCEPT ![e] = AtMost(@ + 1, 2)]
  BY DEF MCShort, HandleShortPacket
<1>2. /\ win[e] \in Windows(1, Ids) /\ CountersExact(win[e])
      /\ win \in [Ends -> Windows(1, Ids)] /\ net \in [Ends -> BOOLEAN]
  BY DEF IInv, TypeOK, Ids
<1>3. /\ win'[e] = OnGetOneRsp(win[e], EchoId)
      /\ \A f \in Ends \ {e} : win'[f] = win[f] /\ silent'[f] = silent[f] /\ heard'[f] = heard[f]
      /\ silent'[e] = 0 /\ heard'[e] = AtMost(heard[e] + 1, 2)
  BY <1>1, <1>2 DEF IInv, HistoryOK
<1>4. TypeOK'
  BY <1>1, <1>2, <1>3, TableSteps DEF IInv, TypeOK, Ids
<1>5. HistoryOK'
  BY <1>1 DEF IInv, HistoryOK, AtMost
<1>6. SilenceKnown(e)' /\ HeardEnough(e)'
  <2>1. /\ silent[e] \in 0 .. 3 /\ heard[e] \in 0 .. 2 /\ stat'[e] = stat[e]
        /\ SilenceKnown(e) /\ HeardEnough(e)
    BY <1>1 DEF IInv, HistoryOK
  <2>2. win[e].items[0].sent => win'[e].items[0].sent
    BY <1>2, <1>3, TableSteps
  <2>3. SilenceKnown(e)'
    BY <1>3, <2>1, <2>2 DEF SilenceKnown
  <2>4. HeardEnough(e)'
    BY <1>3, <2>1 DEF HeardEnough, AtMost
  <2> QED BY <2>3, <2>4
<1>7. \A f \in Ends \ {e} : SilenceKnown(f)' /\ HeardEnough(f)'
  BY <1>1, <1>3 DEF IInv, SilenceKnown, HeardEnough
<1> QED BY <1>1, <1>4, <1>5, <1>6, <1>7 DEF IInv

(* A check decides by the table and leaves a new probe in it. *)
LEMMA CheckIInv ==
  ASSUME IInv, NEW e \in Ends, MCCheck(e)
  PROVE  /\ IInv'
         /\ \A f \in Ends : stat[f] # "ECHO_OK" /\ stat'[f] = "ECHO_OK" => heard[f] >= 2
<1>1. /\ chkPeriod' = [chkPeriod EXCEPT ![e] = 0]
      /\ stat' = [stat EXCEPT ![e] = NextStat(@, win[e])]
      /\ net' = [net EXCEPT ![Other(e)] = good[Other(e)]]
      /\ win' = [win EXCEPT ![e] = OnSendOneRequest(Timed(stat[e], @), EchoId)]
      /\ silent' = [silent EXCEPT ![e] = AtMost(@ + 1, 3)]
      /\ heard' = IF stat[e] # "ECHO_FAILED" /\ stat'[e] = "ECHO_FAILED"
                  THEN [heard EXCEPT ![e] = 0] ELSE heard
      /\ UNCHANGED good
      /\ ticked' = IF ticked = {} THEN {e} ELSE {}
  BY DEF MCCheck, f_BackComCheck, f_SendEchoReq, Round
<1>2. /\ win[e] \in Windows(1, Ids) /\ CountersExact(win[e]) /\ stat[e] \in Stats
      /\ win \in [Ends -> Windows(1, Ids)] /\ stat \in [Ends -> Stats]
      /\ good \in [Ends -> BOOLEAN] /\ net \in [Ends -> BOOLEAN]
  BY DEF IInv, TypeOK, Ids
<1>3. /\ win'[e] = OnSendOneRequest(Timed(stat[e], win[e]), EchoId)
      /\ stat'[e] = NextStat(stat[e], win[e])
      /\ silent'[e] = AtMost(silent[e] + 1, 3)
      /\ heard'[e] = IF stat[e] # "ECHO_FAILED" /\ stat'[e] = "ECHO_FAILED" THEN 0 ELSE heard[e]
      /\ \A f \in Ends \ {e} : /\ win'[f] = win[f] /\ stat'[f] = stat[f]
                               /\ silent'[f] = silent[f] /\ heard'[f] = heard[f]
  BY <1>1, <1>2 DEF IInv, HistoryOK
<1>4. /\ win'[e] \in Windows(1, Ids) /\ CountersExact(win'[e])
      /\ win'[e].rsp = 0 /\ win'[e].items[0].sent
  BY <1>2, <1>3, TableSteps
<1>5. TypeOK'
  <2>1. /\ win' \in [Ends -> Windows(1, Ids)] /\ \A f \in Ends : CountersExact(win'[f])
        /\ stat' \in [Ends -> Stats]
    BY <1>1, <1>2, <1>3, <1>4, StatSteps DEF IInv, TypeOK
  <2>2. chkPeriod' \in [Ends -> 0 .. Period - 1]
    BY <1>1, PeriodOK DEF IInv, TypeOK
  <2>3. net' \in [Ends -> BOOLEAN]
    BY <1>1, <1>2, EndFacts
  <2>4. ticked' \in {{}} \cup {{f} : f \in Ends}
    BY <1>1
  <2> QED BY <1>1, <1>2, <2>1, <2>2, <2>3, <2>4 DEF TypeOK, Ids
<1>6. HistoryOK'
  BY <1>1 DEF IInv, HistoryOK, AtMost
<1>7. silent[e] \in 0 .. 3 /\ heard[e] \in 0 .. 2 /\ SilenceKnown(e) /\ HeardEnough(e)
  BY DEF IInv, HistoryOK
<1>8. SilenceKnown(e)'
  <2>1. stat'[e] = "ECHO_OK" => win[e].rsp >= 1
    <3>1. stat'[e] = "ECHO_OK" =>
            win[e].rsp >= 1 \/ (stat[e] = "ECHO_OK" /\ (win[e].items[0].sent => win[e].rsp >= 1))
      <4>1. NextStat(stat[e], win[e]) = "ECHO_OK" =>
              \/ stat[e] = "ECHO_CHECKING" /\ win[e].rsp >= 1
              \/ stat[e] = "ECHO_OK" /\ (win[e].items[0].sent => win[e].rsp >= 1)
        BY <1>2, StatSteps
      <4> QED BY <1>3, <4>1
    <3>2. stat[e] = "ECHO_OK" => win[e].items[0].sent
      BY <1>7 DEF SilenceKnown
    <3> QED BY <3>1, <3>2
  <2> QED BY <1>3, <1>4, <1>7, <2>1 DEF SilenceKnown, AtMost
<1>9. HeardEnough(e)'
  BY <1>2, <1>3, <1>4, <1>7, StatSteps DEF HeardEnough
<1>10. \A f \in Ends \ {e} : SilenceKnown(f)' /\ HeardEnough(f)'
  BY <1>3 DEF IInv, SilenceKnown, HeardEnough
<1>11. stat[e] # "ECHO_OK" /\ stat'[e] = "ECHO_OK" => heard[e] >= 2
  BY <1>2, <1>3, <1>7, StatSteps DEF HeardEnough
<1> QED BY <1>3, <1>5, <1>6, <1>8, <1>9, <1>10, <1>11 DEF IInv

(* Each step keeps the invariant, and uses the line only on fresh evidence. *)
LEMMA StepIInv ==
  IInv /\ [MCNext]_mcvars =>
    /\ IInv'
    /\ \A e \in Ends : stat[e] # "ECHO_OK" /\ stat'[e] = "ECHO_OK" => heard[e] >= 2
<1> SUFFICES ASSUME IInv, [MCNext]_mcvars
             PROVE  /\ IInv'
                    /\ \A e \in Ends : stat[e] # "ECHO_OK" /\ stat'[e] = "ECHO_OK" => heard[e] >= 2
  OBVIOUS
<1>1. CASE MCLine \/ \E e \in Ends : MCSkip(e) \/ MCNotDue(e)
  BY <1>1, QuietIInv
<1>2. CASE \E e \in Ends : MCShort(e)
  BY <1>2, ShortIInv
<1>3. CASE \E e \in Ends : MCCheck(e)
  BY <1>3, CheckIInv
<1>4. CASE UNCHANGED mcvars
  BY <1>4 DEF mcvars, vars, IInv, TypeOK, HistoryOK, SilenceKnown, HeardEnough
<1> QED BY <1>1, <1>2, <1>3, <1>4 DEF MCNext

(* The state of both ends is well formed and the counters agree with the slot; an end
   that uses the line has heard the other since the check before the last. *)
THEOREM SerialSafety == MCSpec => [](TypeOK /\ DetectsSilence)
<1>1. IInv => TypeOK /\ DetectsSilence
  BY DEF IInv, SilenceKnown, DetectsSilence
<1> QED BY <1>1, InitIInv, StepIInv, PTL DEF MCSpec

(* A failed line comes back only on packets in two periods. *)
THEOREM SerialEvidence == MCSpec => FreshEvidence
<1>1. IInv /\ [MCNext]_mcvars => IInv'
  BY StepIInv
<1>2. IInv /\ [MCNext]_mcvars =>
        [\A e \in Ends : stat[e] # "ECHO_OK" /\ stat'[e] = "ECHO_OK" => heard[e] >= 2]_mcvars
  BY StepIInv
<1> QED BY <1>1, <1>2, InitIInv, PTL DEF MCSpec, FreshEvidence
-----------------------------------------------------------------------------
(* A line that has become good *)

(* Ticks of e since its last check, counted to the end of the last whole round. *)
Since(e) == chkPeriod[e] - (IF e \in ticked THEN 1 ELSE 0)

(* n ticks before its last check e had already been ticking on a calm line: the round
   in which the calm began may have been half over. *)
CalmFor(e, n) == Since(e) + n + 1 < calm

(* The two ends do not check in the same round. *)
OutOfPhase == /\ Since("a") # Since("b")
              /\ Since("a") # Since("b") + Period
              /\ Since("b") # Since("a") + Period

CalmIsGood == calm \in 0 .. Settled /\ (calm > 0 => \A e \in Ends : good[e])

(* The slot of an end that has begun takes the next packet, or has taken one. *)
ProbeWaits(e) == stat[e] # "UNKNOWN" => /\ win[e].items[0].id = EchoId
                                        /\ win[e].items[0].fate \in {"none", "got"}

(* In the calm: an end has begun at its first check, hears every check of the other
   end from then on, has not failed from its second and uses the line from its third. *)
LineHeard(e) ==
  /\ CalmFor(e, 0) => stat[e] # "UNKNOWN"
  /\ CalmFor(e, 0) /\ Since(Other(e)) < Since(e) => net[e] \/ win[e].rsp >= 1
  /\ CalmFor(e, Period) => stat[e] \in {"ECHO_CHECKING", "ECHO_OK"}
  /\ CalmFor(e, 2 * Period) => stat[e] = "ECHO_OK"

CalmInv == /\ CalmIsGood
           /\ \A e \in Ends : ProbeWaits(e)
           /\ OutOfPhase => \A e \in Ends : LineHeard(e)
(* What a short packet, and a check after one was heard, make of the slot. *)
LEMMA HeardSlot ==
  ASSUME NEW w \in Windows(1, Ids), CountersExact(w), w.items[0].id = EchoId,
         w.items[0].fate \in {"none", "got"}
  PROVE  /\ OnGetOneRsp(w, EchoId).rsp >= 1
         /\ OnGetOneRsp(w, EchoId).items[0].id = EchoId
         /\ OnGetOneRsp(w, EchoId).items[0].fate = "got"
<1> DEFINE v == OnGetOneRsp(w, EchoId)
<1>1. SlotsOf(w) = {0} /\ w.items \in [{0} -> OneTestItem(Ids)]
  BY Slots DEF Windows, SlotsOf
<1>2. v \in Windows(1, Ids) /\ CountersExact(v)
  BY RspKeepsCounters
<1>3. v.items[0].id = EchoId /\ v.items[0].fate = "got"
  <2>1. CASE w.items[0].fate = "got"
    <3>1. Waiting(w, EchoId) = {}
      BY <1>1, <2>1 DEF Waiting
    <3> QED BY <2>1, <3>1 DEF OnGetOneRsp
  <2>2. CASE w.items[0].fate = "none"
    <3>1. Waiting(w, EchoId) = {0}
      BY <1>1, <2>2 DEF Waiting
    <3>2. Earliest({0}) = 0
      BY DEF Earliest
    <3>3. v.items = [w.items EXCEPT ![0].fate = "got"]
      BY <3>1, <3>2 DEF OnGetOneRsp
    <3> QED BY <1>1, <3>3 DEF OneTestItem
  <2> QED BY <2>1, <2>2
<1> HIDE DEF v
<1>4. WithFate(v, "got") = {0}
  BY <1>2, <1>3, Slots DEF WithFate
<1>5. v.rsp = 1
  BY <1>2, <1>4, FS_Singleton DEF CountersExact
<1> QED BY <1>3, <1>5 DEF v

LEMMA SentSlot ==
  ASSUME NEW w \in Windows(1, Ids), NEW s
  PROVE  /\ OnSendOneRequest(Timed(s, w), EchoId).items[0].id = EchoId
         /\ OnSendOneRequest(Timed(s, w), EchoId).items[0].fate = "none"
<1>1. SlotsOf(w) = {0}
  BY Slots
<1> DEFINE t == Timed(s, w)
<1>2. SlotsOf(t) = {0} /\ NextSlot(t) = 0
  BY <1>1 DEF Timed, CheckTimeout, SlotsOf, NextSlot
<1> HIDE DEF t
<1>3. OnSendOneRequest(t, EchoId).items =
        [t.items EXCEPT ![0] = [id |-> EchoId, sent |-> TRUE, fate |-> "none"]]
  BY <1>2 DEF OnSendOneRequest
<1> QED BY <1>2, <1>3 DEF SlotsOf, t

(* A check that has heard the other end moves the state towards use. *)
LEMMA HeardCheck ==
  ASSUME NEW w \in Windows(1, Ids), CountersExact(w), w.rsp >= 1, NEW s \in Stats
  PROVE  /\ s # "UNKNOWN" => NextStat(s, w) \in {"ECHO_CHECKING", "ECHO_OK"}
         /\ s \in {"ECHO_CHECKING", "ECHO_OK"} => NextStat(s, w) = "ECHO_OK"
<1> DEFINE t == CheckTimeout(w)
<1>1. t \in Windows(1, Ids) /\ CountersExact(t) /\ t.rsp = w.rsp
  BY TimeoutKeepsCounters DEF CheckTimeout
<1> HIDE DEF t
<1>2. t.lost + t.rsp <= 1
  BY <1>1, LostOrAnswered
<1>3. t.lost \in Nat /\ w.rsp \in Nat
  BY <1>1 DEF Windows
<1>4. ~ (t.lost >= 1)
  BY <1>1, <1>2, <1>3
<1> QED BY <1>4 DEF NextStat, GetRspNum, Stats, t

(* The two ends, and the ranges of what the invariant counts. *)
LEMMA CalmFacts ==
  ASSUME IInv
  PROVE  /\ Period \in Nat \ {0}
         /\ \A e \in Ends : /\ chkPeriod[e] \in 0 .. Period - 1
                           /\ Since(e) \in -1 .. Period - 1
                           /\ Since(e) = chkPeriod[e] - (IF e \in ticked THEN 1 ELSE 0)
         /\ \A e, f \in Ends : e # f =>
              /\ Other(e) = f
              /\ OutOfPhase <=> /\ Since(e) # Since(f)
                                /\ Since(e) # Since(f) + Period
                                /\ Since(f) # Since(e) + Period
<1>1. Period \in Nat \ {0}
  BY PeriodOK
<1>2. \A e \in Ends : /\ chkPeriod[e] \in 0 .. Period - 1
                     /\ Since(e) \in -1 .. Period - 1
                     /\ Since(e) = chkPeriod[e] - (IF e \in ticked THEN 1 ELSE 0)
  BY <1>1 DEF IInv, TypeOK, Since
<1>3. ASSUME NEW e \in Ends, NEW f \in Ends, e # f
      PROVE  /\ Other(e) = f
             /\ OutOfPhase <=> /\ Since(e) # Since(f)
                               /\ Since(e) # Since(f) + Period
                               /\ Since(f) # Since(e) + Period
  <2>1. (e = "a" /\ f = "b") \/ (e = "b" /\ f = "a")
    BY <1>3 DEF Ends
  <2>2. Other(e) = f
    BY <2>1 DEF Other, Ends
  <2> QED BY <2>1, <2>2 DEF OutOfPhase
<1> QED BY <1>1, <1>2, <1>3

(* A tick of e moves both ends on by the same, but for a check. *)
LEMMA TickShift ==
  ASSUME IInv, IInv', CalmInv, NEW e \in Ends, NEW f \in Ends, e # f,
         Round(e), RoundDone, chkPeriod'[f] = chkPeriod[f]
  PROVE  \E d \in {0, 1} :
           /\ Since(e) = chkPeriod[e] /\ Since(e)' = chkPeriod'[e] - 1 + d
           /\ Since(f)' = Since(f) + d
           /\ \/ calm' = calm + d
              \/ calm = Settled /\ calm' = Settled
              \/ calm' = 0
<1>1. /\ Since(e) = chkPeriod[e] - (IF e \in ticked THEN 1 ELSE 0)
      /\ Since(f) = chkPeriod[f] - (IF f \in ticked THEN 1 ELSE 0)
      /\ chkPeriod[e] \in Int /\ chkPeriod[f] \in Int
  BY CalmFacts
<1>2. /\ Since(e)' = chkPeriod'[e] - (IF e \in ticked' THEN 1 ELSE 0)
      /\ Since(f)' = chkPeriod'[f] - (IF f \in ticked' THEN 1 ELSE 0)
      /\ chkPeriod'[e] \in Int
  BY PeriodOK DEF IInv, TypeOK, Since
<1>3. e \notin ticked /\ (ticked = {} \/ ticked = {f})
  BY DEF Round, IInv, TypeOK, Ends
<1>4. calm \in 0 .. Settled /\ (calm > 0 => \A g \in Ends : good[g]) /\ Settled \in Nat
  BY PeriodOK DEF CalmInv, CalmIsGood, Settled
<1>5. CASE ticked = {}
  <2>1. ticked' = {e} /\ calm' = calm
    BY <1>5 DEF Round, RoundDone
  <2> WITNESS 0 \in {0, 1}
  <2> QED BY <1>1, <1>2, <1>4, <1>5, <2>1
<1>6. CASE ticked = {f}
  <2>1. ticked' = {}
    BY <1>6 DEF Round
  <2>2. \/ calm' = calm + 1
        \/ calm = Settled /\ calm' = Settled
        \/ calm' = 0
    BY <1>4, <2>1 DEF RoundDone, AtMost
  <2> WITNESS 1 \in {0, 1}
  <2> QED BY <1>1, <1>2, <1>3, <1>6, <2>1, <2>2
<1> QED BY <1>3, <1>5, <1>6

(* Both counts of calm move on together: without a check none is longer after a tick. *)
LEMMA CalmShift ==
  ASSUME IInv, IInv', CalmInv, NEW g \in Ends, NEW d \in {0, 1}, Since(g)' = Since(g) + d,
         \/ calm' = calm + d
         \/ calm = Settled /\ calm' = Settled
         \/ calm' = 0
  PROVE  /\ CalmFor(g, 0)' => CalmFor(g, 0)
         /\ CalmFor(g, Period)' => CalmFor(g, Period)
         /\ CalmFor(g, 2 * Period)' => CalmFor(g, 2 * Period)
<1>1. Period \in Nat \ {0} /\ Since(g) \in -1 .. Period - 1
  BY CalmFacts
<1>2. Since(g)' \in -1 .. Period - 1 /\ calm \in Int
  BY PeriodOK DEF IInv, TypeOK, Since, CalmInv, CalmIsGood, Settled
<1> QED BY <1>1, <1>2 DEF CalmFor, Settled

(* Before there is calm nothing is claimed. *)
LEMMA NoCalm ==
  ASSUME IInv, calm = 0 PROVE \A e \in Ends : LineHeard(e)
<1> SUFFICES ASSUME NEW e \in Ends PROVE LineHeard(e)
  OBVIOUS
<1>1. Period \in Nat \ {0} /\ Since(e) \in -1 .. Period - 1
  BY CalmFacts
<1> QED BY <1>1 DEF LineHeard, CalmFor

(* The line changes, or a tick is skipped: the calm is over. *)
LEMMA QuietCalm ==
  ASSUME IInv, IInv', CalmInv, MCLine \/ \E e \in Ends : MCSkip(e)
  PROVE  CalmInv'
<1>1. calm' = 0 /\ UNCHANGED <<stat, win>>
  BY DEF MCLine, MCSkip, SetLine, Skip
<1>2. CalmIsGood'
  BY <1>1, PeriodOK DEF CalmIsGood, Settled
<1>3. \A e \in Ends : LineHeard(e)'
  BY <1>1, PeriodOK DEF IInv, TypeOK, LineHeard, CalmFor, Since
<1> QED BY <1>1, <1>2, <1>3 DEF CalmInv, ProbeWaits

(* A tick keeps the calm what it is. *)
LEMMA RoundCalm ==
  ASSUME IInv, CalmInv, RoundDone, UNCHANGED good
  PROVE  CalmIsGood'
BY PeriodOK DEF CalmInv, CalmIsGood, RoundDone, AtMost, Settled

LEMMA TickCalm ==
  ASSUME IInv, IInv', CalmInv, NEW e \in Ends, MCNotDue(e)
  PROVE  CalmInv'
<1>1. /\ Round(e) /\ RoundDone /\ chkPeriod' = [chkPeriod EXCEPT ![e] = @ + 1]
      /\ UNCHANGED <<stat, win, good, net>>
  BY DEF MCNotDue, NotDue
<1>2. PICK f \in Ends : f # e
  BY DEF Ends
<1>3. \A g \in Ends : g = e \/ g = f
  BY <1>2 DEF Ends
<1>4. chkPeriod'[e] = chkPeriod[e] + 1 /\ chkPeriod'[f] = chkPeriod[f]
  BY <1>1, <1>2 DEF IInv, TypeOK
<1>5. PICK d \in {0, 1} :
        /\ Since(e) = chkPeriod[e] /\ Since(e)' = chkPeriod'[e] - 1 + d
        /\ Since(f)' = Since(f) + d
        /\ \/ calm' = calm + d
           \/ calm = Settled /\ calm' = Settled
           \/ calm' = 0
  BY <1>1, <1>2, <1>4, TickShift
<1>6. Period \in Nat \ {0} /\ \A g \in Ends : chkPeriod[g] \in Int /\ Since(g) \in Int
  BY CalmFacts
<1>7. \A g \in Ends : Since(g)' = Since(g) + d
  <2>1. Since(e)' = Since(e) + d
    BY <1>2, <1>4, <1>5, <1>6
  <2> QED BY <1>3, <1>5, <2>1
<1>8. ASSUME OutOfPhase' PROVE OutOfPhase
  <2>1. Since("a")' = Since("a") + d /\ Since("b")' = Since("b") + d
    BY <1>7 DEF Ends
  <2>2. Since("a") \in Int /\ Since("b") \in Int
    BY <1>6 DEF Ends
  <2> QED BY <1>6, <1>8, <2>1, <2>2 DEF OutOfPhase
<1>9. ASSUME NEW g \in Ends, LineHeard(g) PROVE LineHeard(g)'
  <2>1. /\ CalmFor(g, 0)' => CalmFor(g, 0)
        /\ CalmFor(g, Period)' => CalmFor(g, Period)
        /\ CalmFor(g, 2 * Period)' => CalmFor(g, 2 * Period)
    BY <1>5, <1>7, CalmShift
  <2>2. Since(Other(g))' < Since(g)' => Since(Other(g)) < Since(g)
    <3>1. Other(g) \in Ends
      BY EndFacts
    <3>2. Since(Other(g))' = Since(Other(g)) + d /\ Since(g)' = Since(g) + d
      BY <1>7, <3>1
    <3> QED BY <1>6, <3>1, <3>2
  <2> QED BY <1>1, <1>9, <2>1, <2>2 DEF LineHeard
<1>10. CalmIsGood'
  BY <1>1, RoundCalm
<1> QED BY <1>1, <1>8, <1>9, <1>10 DEF CalmInv, ProbeWaits
(* A packet on a calm line is booked by the end that has begun. *)
LEMMA ShortCalm ==
  ASSUME IInv, CalmInv, NEW e \in Ends, MCShort(e)
  PROVE  CalmInv'
<1>1. /\ UNCHANGED <<stat, chkPeriod, good, ticked, calm>>
      /\ net' = [net EXCEPT ![e] = FALSE]
      /\ win' = [win EXCEPT ![e] = OnGetOneRsp(@, EchoId)]
  BY DEF MCShort, HandleShortPacket
<1>2. /\ win[e] \in Windows(1, Ids) /\ CountersExact(win[e])
      /\ win \in [Ends -> Windows(1, Ids)] /\ net \in [Ends -> BOOLEAN]
  BY DEF IInv, TypeOK, Ids
<1>3. /\ win'[e] = OnGetOneRsp(win[e], EchoId)
      /\ \A g \in Ends \ {e} : win'[g] = win[g] /\ net'[g] = net[g]
  BY <1>1, <1>2
<1>4. stat[e] # "UNKNOWN" => /\ win'[e].rsp >= 1 /\ win'[e].items[0].id = EchoId
                            /\ win'[e].items[0].fate = "got"
  BY <1>2, <1>3, HeardSlot DEF CalmInv, ProbeWaits
<1>5. \A g \in Ends : ProbeWaits(g)'
  BY <1>1, <1>3, <1>4 DEF CalmInv, ProbeWaits
<1>6. /\ \A g \in Ends : Since(g)' = Since(g)
      /\ \A g \in Ends, n \in {0, Period, 2 * Period} : CalmFor(g, n)' <=> CalmFor(g, n)
      /\ OutOfPhase' <=> OutOfPhase
      /\ CalmIsGood'
  BY <1>1 DEF Since, CalmFor, OutOfPhase, CalmInv, CalmIsGood
<1>7. ASSUME NEW g \in Ends, LineHeard(g) PROVE LineHeard(g)'
  <2>1. /\ CalmFor(g, 0)' <=> CalmFor(g, 0)
        /\ CalmFor(g, Period)' <=> CalmFor(g, Period)
        /\ CalmFor(g, 2 * Period)' <=> CalmFor(g, 2 * Period)
        /\ Since(Other(g))' = Since(Other(g)) /\ Since(g)' = Since(g)
    BY <1>6, EndFacts
  <2>2. CASE g = e
    BY <1>1, <1>4, <1>7, <2>1, <2>2 DEF LineHeard
  <2>3. CASE g # e
    BY <1>1, <1>3, <1>7, <2>1, <2>3 DEF LineHeard
  <2> QED BY <2>2, <2>3
<1> QED BY <1>5, <1>6, <1>7 DEF CalmInv

(* A check on a calm line has heard the other end, and is heard by it. *)
LEMMA CheckCalm ==
  ASSUME IInv, IInv', CalmInv, NEW e \in Ends, MCCheck(e)
  PROVE  CalmInv'
<1>1. /\ Round(e) /\ RoundDone /\ chkPeriod[e] >= Period - 1
      /\ chkPeriod' = [chkPeriod EXCEPT ![e] = 0]
      /\ stat' = [stat EXCEPT ![e] = NextStat(@, win[e])]
      /\ net' = [net EXCEPT ![Other(e)] = good[Other(e)]]
      /\ win' = [win EXCEPT ![e] = OnSendOneRequest(Timed(stat[e], @), EchoId)]
      /\ UNCHANGED good
  BY DEF MCCheck, f_BackComCheck, f_SendEchoReq
<1>2. PICK f \in Ends : f # e
  BY DEF Ends
<1>3. \A g \in Ends : g = e \/ g = f
  BY <1>2 DEF Ends
<1>4. /\ win[e] \in Windows(1, Ids) /\ CountersExact(win[e]) /\ stat[e] \in Stats
      /\ win \in [Ends -> Windows(1, Ids)] /\ stat \in [Ends -> Stats]
      /\ net \in [Ends -> BOOLEAN] /\ chkPeriod \in [Ends -> 0 .. Period - 1]
      /\ ~net[e]
  BY <1>1 DEF IInv, TypeOK, Ids, Round, Prompt
<1>5. Period \in Nat \ {0} /\ Since(e) \in -1 .. Period - 1 /\ Since(f) \in -1 .. Period - 1
  BY CalmFacts
<1>6. /\ chkPeriod[e] = Period - 1 /\ chkPeriod'[e] = 0 /\ chkPeriod'[f] = chkPeriod[f]
      /\ stat'[e] = NextStat(stat[e], win[e]) /\ stat'[f] = stat[f]
      /\ win'[e] = OnSendOneRequest(Timed(stat[e], win[e]), EchoId) /\ win'[f] = win[f]
      /\ net'[f] = good[f]
  <2>1. Other(e) = f
    BY <1>2, CalmFacts
  <2>2. chkPeriod[e] \in 0 .. Period - 1
    BY <1>4
  <2>3. chkPeriod[e] = Period - 1
    BY <1>1, <1>5, <2>2
  <2> QED BY <1>1, <1>2, <1>4, <2>1, <2>3
<1>7. PICK d \in {0, 1} :
        /\ Since(e) = chkPeriod[e] /\ Since(e)' = chkPeriod'[e] - 1 + d
        /\ Since(f)' = Since(f) + d
        /\ \/ calm' = calm + d
           \/ calm = Settled /\ calm' = Settled
           \/ calm' = 0
  BY <1>1, <1>2, <1>6, TickShift
<1>8. Since(e) = Period - 1 /\ Since(e)' = d - 1 /\ Since(f)' = Since(f) + d
  BY <1>6, <1>7
<1>9. ASSUME OutOfPhase' PROVE OutOfPhase /\ Since(f) < Since(e)
  <2>1. /\ Since(e)' # Since(f)'
        /\ Since(e)' # Since(f)' + Period
        /\ Since(f)' # Since(e)' + Period
    <3>1. (e = "a" /\ f = "b") \/ (e = "b" /\ f = "a")
      BY <1>2 DEF Ends
    <3> QED BY <1>9, <3>1 DEF OutOfPhase
  <2>2. /\ Since(e) # Since(f)
        /\ Since(e) # Since(f) + Period
        /\ Since(f) # Since(e) + Period
    BY <1>5, <1>8, <2>1
  <2>3. OutOfPhase
    BY <1>2, <2>2, CalmFacts
  <2> QED BY <1>5, <1>8, <2>2, <2>3
<1>10. calm \in 0 .. Settled /\ (calm > 0 => good[f])
  BY DEF CalmInv, CalmIsGood
<1>11. /\ CalmFor(e, Period)' => CalmFor(e, 0)
       /\ CalmFor(e, 2 * Period)' => CalmFor(e, Period) /\ CalmFor(e, 0)
  BY <1>5, <1>7, <1>8, <1>10 DEF CalmFor, Settled
<1>12. ProbeWaits(e)' /\ ProbeWaits(f)'
  BY <1>4, <1>6, SentSlot DEF CalmInv, ProbeWaits
<1>13. CalmIsGood'
  BY <1>1, RoundCalm
<1>14. ASSUME OutOfPhase' PROVE LineHeard(e)' /\ LineHeard(f)'
  <2>1. LineHeard(e) /\ LineHeard(f) /\ Since(f) < Since(e)
    BY <1>9, <1>14 DEF CalmInv
  <2>2. CalmFor(e, 0) => stat[e] # "UNKNOWN" /\ win[e].rsp >= 1
    <3>1. Other(e) = f
      BY <1>2, CalmFacts
    <3> QED BY <1>4, <2>1, <3>1 DEF LineHeard
  <2>3. stat'[e] # "UNKNOWN"
    BY <1>4, <1>6, StatSteps
  <2>4. CalmFor(e, Period)' => stat'[e] \in {"ECHO_CHECKING", "ECHO_OK"}
    BY <1>4, <1>6, <1>11, <2>2, HeardCheck
  <2>5. CalmFor(e, 2 * Period)' => stat'[e] = "ECHO_OK"
    <3>1. CalmFor(e, 2 * Period)' => stat[e] \in {"ECHO_CHECKING", "ECHO_OK"} /\ win[e].rsp >= 1
      BY <1>11, <2>1, <2>2 DEF LineHeard
    <3> QED BY <1>4, <1>6, <3>1, HeardCheck
  <2>6. LineHeard(e)'
    <3>1. Other(e) = f /\ ~ (Since(f)' < Since(e)')
      BY <1>2, <1>5, <1>8, CalmFacts
    <3> QED BY <2>3, <2>4, <2>5, <3>1 DEF LineHeard
  <2>7. LineHeard(f)'
    <3>1. /\ CalmFor(f, 0)' => CalmFor(f, 0)
          /\ CalmFor(f, Period)' => CalmFor(f, Period)
          /\ CalmFor(f, 2 * Period)' => CalmFor(f, 2 * Period)
      BY <1>7, CalmShift
    <3>2. CalmFor(f, 0) => calm > 0
      BY <1>5, <1>10 DEF CalmFor
    <3> QED BY <1>6, <1>10, <2>1, <3>1, <3>2 DEF LineHeard
  <2> QED BY <2>6, <2>7
<1> QED BY <1>3, <1>12, <1>13, <1>14 DEF CalmInv

LEMMA InitCalm == MCInit => CalmInv
<1> SUFFICES ASSUME MCInit PROVE CalmInv
  OBVIOUS
<1>1. IInv
  BY InitIInv
<1>2. \A e \in Ends : LineHeard(e)
  BY <1>1, NoCalm DEF MCInit
<1> QED BY <1>2, PeriodOK DEF CalmInv, CalmIsGood, ProbeWaits, MCInit, Init, Settled

LEMMA StepCalm == IInv /\ CalmInv /\ [MCNext]_mcvars => CalmInv'
<1> SUFFICES ASSUME IInv, CalmInv, [MCNext]_mcvars PROVE CalmInv'
  OBVIOUS
<1>1. IInv'
  BY StepIInv
<1>2. CASE MCLine \/ \E e \in Ends : MCSkip(e)
  BY <1>1, <1>2, QuietCalm
<1>3. CASE \E e \in Ends : MCNotDue(e)
  BY <1>1, <1>3, TickCalm
<1>4. CASE \E e \in Ends : MCShort(e)
  BY <1>4, ShortCalm
<1>5. CASE \E e \in Ends : MCCheck(e)
  BY <1>1, <1>5, CheckCalm
<1>6. CASE UNCHANGED mcvars
  BY <1>6 DEF mcvars, vars, CalmInv, CalmIsGood, ProbeWaits, LineHeard, CalmFor, OutOfPhase, Since
<1> QED BY <1>2, <1>3, <1>4, <1>5, <1>6 DEF MCNext

(* Four periods of calm are enough for both ends, whatever they thought of the line
   before, unless both check in the same round. *)
LEMMA CalmIsEnough == IInv /\ CalmInv => GoodLineIsUsed
<1> SUFFICES ASSUME IInv, CalmInv, calm = Settled, chkPeriod["a"] # chkPeriod["b"], ticked = {},
                    NEW e \in Ends
             PROVE  stat[e] = "ECHO_OK"
  BY DEF GoodLineIsUsed
<1>1. /\ Period \in Nat \ {0} /\ Since(e) \in -1 .. Period - 1
      /\ chkPeriod["a"] \in 0 .. Period - 1 /\ chkPeriod["b"] \in 0 .. Period - 1
  BY CalmFacts DEF Ends
<1>2. Since("a") = chkPeriod["a"] /\ Since("b") = chkPeriod["b"]
  BY <1>1 DEF Since
<1>3. OutOfPhase
  BY <1>1, <1>2 DEF OutOfPhase
<1>4. CalmFor(e, 2 * Period)
  BY <1>1 DEF CalmFor, Settled
<1> QED BY <1>3, <1>4 DEF CalmInv, LineHeard

(* Once the line is good both ways and no timer stands still, both ends use it after
   at most four periods and never give it up again, for every period and every two
   phases of the checks that differ. *)
THEOREM GoodLineFound == MCSpec => []GoodLineIsUsed
<1>1. IInv /\ [MCNext]_mcvars => IInv'
  BY StepIInv
<1> QED BY InitIInv, <1>1, InitCalm, StepCalm, CalmIsEnough, PTL DEF MCSpec
-----------------------------------------------------------------------------
(* How packets cross the line: FrameState, changed by SerialFrame. *)

(* The recursive function in FlattenSeq is what its definition says. *)
LEMMA FlattenDefined ==
  ASSUME NEW ss, NEW n \in Nat, Len(ss) = n, n > 0
  PROVE  \E f : /\ f = [i \in 1 .. n |-> IF i = 1 THEN ss[i] ELSE f[i - 1] \o ss[i]]
                /\ FlattenSeq(ss) = f[n]
<1> DEFINE Is(f, m) == f = [i \in 1 .. m |-> IF i = 1 THEN ss[i] ELSE f[i - 1] \o ss[i]]
           Missing == {m \in Nat : ~ \E f : Is(f, m)}
<1>1. Missing = {}
  <2> SUFFICES ASSUME Missing # {} PROVE FALSE
    OBVIOUS
  <2>1. PICK m \in Missing : \A l \in Missing : m <= l
    <3> HIDE DEF Missing
    <3>1. Missing \in SUBSET Nat
      BY DEF Missing
    <3> QED BY <3>1, LeastNatural
  <2>2. CASE m = 0
    <3> DEFINE g == [i \in 1 .. 0 |-> ss[i]]
    <3>1. Is(g, 0)
      OBVIOUS
    <3> QED BY <2>1, <2>2, <3>1
  <2>3. CASE m > 0
    <3>1. m \in Nat /\ m - 1 \in Nat /\ m - 1 \notin Missing
      <4> HIDE DEF Is
      <4>1. m \in Nat /\ m - 1 \in Nat
        BY <2>1, <2>3
      <4> HIDE DEF Missing
      <4> QED BY <2>1, <4>1
    <3>2. PICK f : Is(f, m - 1)
      BY <3>1
    <3> DEFINE g == [i \in 1 .. m |-> IF i = m THEN IF m = 1 THEN ss[1] ELSE f[m - 1] \o ss[m] ELSE f[i]]
    <3>3. \A i \in 1 .. m - 1 : f[i] = IF i = 1 THEN ss[i] ELSE f[i - 1] \o ss[i]
      BY <3>2
    <3>4. \A i \in 1 .. m : g[i] = IF i = 1 THEN ss[i] ELSE g[i - 1] \o ss[i]
      BY <2>3, <3>1, <3>3
    <3>5. Is(g, m)
      BY <3>4
    <3> QED BY <2>1, <3>5
  <2> QED BY <2>1, <2>2, <2>3
<1>2. PICK f : Is(f, n)
  <2> HIDE DEF Is
  <2> QED BY <1>1
<1> DEFINE h == CHOOSE g : Is(g, n)
<1>3. Is(h, n)
  <2> HIDE DEF Is
  <2> QED BY <1>2
<1>4. FlattenSeq(ss) = h[n]
  BY DEF FlattenSeq
<1> QED BY <1>3, <1>4

(* The bytes, and what escaping makes of one. *)
LEMMA ByteFacts ==
  /\ Flag \in Bytes /\ Esc \in Bytes /\ Flag # Esc /\ Bytes \subseteq Int
  /\ Xor7D(Esc) = 0 /\ Xor7D(Flag) = 3 /\ Xor7D(0) = Esc /\ Xor7D(3) = Flag
  /\ 0 \notin {Flag, Esc} /\ 3 \notin {Flag, Esc} /\ 0 \in Bytes /\ 3 \in Bytes
<1>1. /\ Flag \in Bytes /\ Esc \in Bytes /\ Flag # Esc /\ Bytes \subseteq Int
      /\ 0 \notin {Flag, Esc} /\ 3 \notin {Flag, Esc} /\ 0 \in Bytes /\ 3 \in Bytes
  BY DEF Flag, Esc, Bytes
<1>2. ASSUME NEW b \in Bytes, NEW d \in Bytes, {b, d} \in {{0, Esc}, {3, Flag}},
             \A c \in Bytes : {b, c} \in {{0, Esc}, {3, Flag}} => c = d
      PROVE  Xor7D(b) = d
  BY <1>2 DEF Xor7D
<1>3. \A c \in Bytes : {Esc, c} \in {{0, Esc}, {3, Flag}} => c = 0
  BY DEF Flag, Esc, Bytes
<1>4. \A c \in Bytes : {Flag, c} \in {{0, Esc}, {3, Flag}} => c = 3
  BY DEF Flag, Esc, Bytes
<1>5. \A c \in Bytes : {0, c} \in {{0, Esc}, {3, Flag}} => c = Esc
  BY DEF Flag, Esc, Bytes
<1>6. \A c \in Bytes : {3, c} \in {{0, Esc}, {3, Flag}} => c = Flag
  BY DEF Flag, Esc, Bytes
<1>7. {Esc, 0} = {0, Esc} /\ {Flag, 3} = {3, Flag}
  OBVIOUS
<1>8. Xor7D(Esc) = 0
  BY <1>1, <1>2, <1>3, <1>7
<1>9. Xor7D(Flag) = 3
  BY <1>1, <1>2, <1>4, <1>7
<1>10. Xor7D(0) = Esc
  BY <1>1, <1>2, <1>5
<1>11. Xor7D(3) = Flag
  BY <1>1, <1>2, <1>6
<1> QED BY <1>1, <1>8, <1>9, <1>10, <1>11

(* x is the flag and what the first m bytes of a body become; pos says how much
   of it stands for the flag and the first i of them. *)
ShapeUpTo(body, x, pos, m) ==
  /\ x \in Seq(Bytes) /\ pos \in [0 .. m -> Nat]
  /\ pos[0] = 1 /\ Len(x) = pos[m]
  /\ x[1] = Flag /\ \A q \in 2 .. Len(x) : x[q] # Flag
  /\ \A i \in 0 .. m, j \in 0 .. m : i < j => pos[i] < pos[j]
  /\ \A i \in 0 .. m - 1 :
       IF body[i + 1] \in {Flag, Esc}
       THEN /\ pos[i + 1] = pos[i] + 2
            /\ x[pos[i] + 1] = Esc /\ x[pos[i] + 2] = Xor7D(body[i + 1])
       ELSE pos[i + 1] = pos[i] + 1 /\ x[pos[i] + 1] = body[i + 1]

(* What is stuffed is the escape and a byte that is neither flag nor escape, which
   gives the byte back. *)
LEMMA StuffedFacts ==
  ASSUME NEW b \in Bytes
  PROVE  /\ Stuffed(b) \in Seq(Bytes) /\ Xor7D(b) \in Bytes
         /\ b \in {Flag, Esc} => /\ Len(Stuffed(b)) = 2
                                 /\ Stuffed(b)[1] = Esc /\ Stuffed(b)[2] = Xor7D(b)
                                 /\ Xor7D(b) \notin {Flag, Esc} /\ Xor7D(Xor7D(b)) = b
         /\ b \notin {Flag, Esc} => Len(Stuffed(b)) = 1 /\ Stuffed(b)[1] = b
<1>1. Xor7D(b) \in Bytes /\ (b \in {Flag, Esc} => Xor7D(b) \notin {Flag, Esc} /\ Xor7D(Xor7D(b)) = b)
  <2>1. b \in {0, 3, Esc, Flag}
    BY DEF Bytes
  <2> QED BY <2>1, ByteFacts
<1>2. CASE b \in {Flag, Esc}
  <2>1. Stuffed(b) = <<Esc, Xor7D(b)>>
    BY <1>2 DEF Stuffed
  <2> QED BY <1>1, <1>2, <2>1, ByteFacts
<1>3. CASE b \notin {Flag, Esc}
  <2>1. Stuffed(b) = <<b>>
    BY <1>3 DEF Stuffed
  <2> QED BY <1>1, <1>3, <2>1
<1> QED BY <1>2, <1>3

(* One byte more. *)
LEMMA ShapeStep ==
  ASSUME NEW body \in Seq(Bytes), NEW m \in Nat, m < Len(body),
         NEW x, NEW pos, ShapeUpTo(body, x, pos, m)
  PROVE  \E pos2 : ShapeUpTo(body, x \o Stuffed(body[m + 1]), pos2, m + 1)
<1> DEFINE b == body[m + 1]
           u == Stuffed(b)
           y == x \o u
           pos2 == [i \in 0 .. m + 1 |-> IF i = m + 1 THEN pos[m] + Len(u) ELSE pos[i]]
<1>1. b \in Bytes
  BY ElementOfSeq
<1>2. /\ u \in Seq(Bytes)
      /\ b \in {Flag, Esc} => /\ Len(u) = 2 /\ u[1] = Esc /\ u[2] = Xor7D(b)
                              /\ Xor7D(b) # Flag
      /\ b \notin {Flag, Esc} => Len(u) = 1 /\ u[1] = b
      /\ Esc # Flag
  BY <1>1, StuffedFacts, ByteFacts
<1>3. /\ x \in Seq(Bytes) /\ pos \in [0 .. m -> Nat]
      /\ pos[0] = 1 /\ Len(x) = pos[m] /\ pos[m] \in Nat
      /\ x[1] = Flag /\ \A q \in 2 .. Len(x) : x[q] # Flag
      /\ \A i \in 0 .. m, j \in 0 .. m : i < j => pos[i] < pos[j]
  BY DEF ShapeUpTo
<1>4. /\ y \in Seq(Bytes) /\ Len(y) = Len(x) + Len(u)
      /\ \A q \in 1 .. Len(x) + Len(u) : y[q] = IF q <= Len(x) THEN x[q] ELSE u[q - Len(x)]
  <2> HIDE DEF u
  <2> QED BY <1>2, <1>3, ConcatProperties
<1>5. \A i \in 0 .. m : pos[i] \in Nat /\ 1 <= pos[i] /\ pos[i] <= pos[m] /\ (i < m => pos[i] < pos[m])
  BY <1>3
<1>6. Len(u) \in 1 .. 2
  BY <1>2
<1> HIDE DEF u, y
<1>7. /\ pos2 \in [0 .. m + 1 -> Nat] /\ pos2[m + 1] = pos[m] + Len(u)
      /\ \A i \in 0 .. m : pos2[i] = pos[i]
  BY <1>5, <1>6
<1> HIDE DEF pos2
<1>8. pos2[0] = 1 /\ Len(y) = pos2[m + 1]
  BY <1>3, <1>4, <1>7
<1>9. y[1] = Flag
  BY <1>3, <1>4, <1>5, <1>6
<1>10. \A q \in 2 .. Len(y) : y[q] # Flag
  <2> SUFFICES ASSUME NEW q \in 2 .. Len(y) PROVE y[q] # Flag
    OBVIOUS
  <2>1. CASE q <= Len(x)
    BY <1>3, <1>4, <1>6, <2>1
  <2>2. CASE q > Len(x)
    <3>1. q - Len(x) \in 1 .. Len(u) /\ y[q] = u[q - Len(x)]
      BY <1>3, <1>4, <1>6, <2>2
    <3>2. \A k \in 1 .. Len(u) : u[k] # Flag
      BY <1>2, <1>6
    <3> QED BY <3>1, <3>2
  <2> QED BY <1>3, <2>1, <2>2
<1>11. \A i \in 0 .. m + 1, j \in 0 .. m + 1 : i < j => pos2[i] < pos2[j]
  <2> SUFFICES ASSUME NEW i \in 0 .. m + 1, NEW j \in 0 .. m + 1, i < j PROVE pos2[i] < pos2[j]
    OBVIOUS
  <2>1. i \in 0 .. m /\ pos2[i] = pos[i]
    BY <1>7
  <2>2. CASE j = m + 1
    BY <1>5, <1>6, <1>7, <2>1, <2>2
  <2>3. CASE j \in 0 .. m
    BY <1>3, <1>7, <2>1, <2>3
  <2> QED BY <2>2, <2>3
<1>12. ASSUME NEW i \in 0 .. m
       PROVE IF body[i + 1] \in {Flag, Esc}
             THEN /\ pos2[i + 1] = pos2[i] + 2
                  /\ y[pos2[i] + 1] = Esc /\ y[pos2[i] + 2] = Xor7D(body[i + 1])
             ELSE pos2[i + 1] = pos2[i] + 1 /\ y[pos2[i] + 1] = body[i + 1]
  <2>1. CASE i = m
    <3>1. pos2[i] = Len(x) /\ pos2[i + 1] = Len(x) + Len(u) /\ body[i + 1] = b
      BY <1>3, <1>7, <2>1
    <3>2. y[Len(x) + 1] = u[1] /\ (Len(u) = 2 => y[Len(x) + 2] = u[2])
      BY <1>3, <1>4, <1>6
    <3> HIDE DEF b
    <3>3. CASE b \in {Flag, Esc}
      <4>1. Len(u) = 2 /\ u[1] = Esc /\ u[2] = Xor7D(b)
        BY <1>2, <3>3
      <4> QED BY <3>1, <3>2, <3>3, <4>1
    <3>4. CASE b \notin {Flag, Esc}
      <4>1. Len(u) = 1 /\ u[1] = b
        BY <1>2, <3>4
      <4> QED BY <3>1, <3>2, <3>4, <4>1
    <3> QED BY <3>3, <3>4
  <2>2. CASE i < m
    <3>1. i \in 0 .. m - 1 /\ i + 1 \in 0 .. m /\ pos2[i] = pos[i] /\ pos2[i + 1] = pos[i + 1]
      BY <1>7, <2>2
    <3>2. pos[i + 1] <= Len(x) /\ pos[i] \in Nat /\ pos[i + 1] \in Nat /\ Len(x) \in Nat
      BY <1>3, <1>5, <3>1
    <3>3. \A q \in 1 .. Len(x) : y[q] = x[q]
      BY <1>3, <1>4, <1>6
    <3>4. IF body[i + 1] \in {Flag, Esc}
          THEN /\ pos[i + 1] = pos[i] + 2
               /\ x[pos[i] + 1] = Esc /\ x[pos[i] + 2] = Xor7D(body[i + 1])
          ELSE pos[i + 1] = pos[i] + 1 /\ x[pos[i] + 1] = body[i + 1]
      BY <3>1 DEF ShapeUpTo
    <3>5. CASE body[i + 1] \in {Flag, Esc}
      <4>1. pos[i] + 1 \in 1 .. Len(x) /\ pos[i] + 2 \in 1 .. Len(x)
        BY SMTT(30), <3>2, <3>4, <3>5
      <4> QED BY <3>1, <3>3, <3>4, <3>5, <4>1
    <3>6. CASE body[i + 1] \notin {Flag, Esc}
      <4>1. pos[i] + 1 \in 1 .. Len(x)
        BY <3>2, <3>4, <3>6
      <4> QED BY <3>1, <3>3, <3>4, <3>6, <4>1
    <3> QED BY <3>5, <3>6
  <2> QED BY <2>1, <2>2
<1>13. ShapeUpTo(body, y, pos2, m + 1)
  <2>1. (m + 1) - 1 = m
    OBVIOUS
  <2>2. \A i \in 0 .. (m + 1) - 1 :
          IF body[i + 1] \in {Flag, Esc}
          THEN /\ pos2[i + 1] = pos2[i] + 2
               /\ y[pos2[i] + 1] = Esc /\ y[pos2[i] + 2] = Xor7D(body[i + 1])
          ELSE pos2[i + 1] = pos2[i] + 1 /\ y[pos2[i] + 1] = body[i + 1]
    BY <1>12, <2>1
  <2>3. y \in Seq(Bytes) /\ pos2 \in [0 .. m + 1 -> Nat]
    BY <1>4, <1>7
  <2> QED BY <1>8, <1>9, <1>10, <1>11, <2>2, <2>3 DEF ShapeUpTo
<1> QED BY <1>13 DEF y, u

BodyOf(p) == p \o Fcs(p)

(* The body of a frame is the packet and its checksum, and can be taken apart
   again. *)
LEMMA BodyFacts ==
  ASSUME NEW p \in Packets
  PROVE  /\ BodyOf(p) \in Seq(Bytes) /\ p \in Seq(Bytes) /\ Len(p) \in Nat /\ Len(p) > 0
         /\ Len(BodyOf(p)) = Len(p) + 2
         /\ SubSeq(BodyOf(p), 1, Len(p)) = p
         /\ SubSeq(BodyOf(p), Len(p) + 1, Len(p) + 2) = Fcs(p)
<1>1. p \in Seq(Bytes) /\ p # <<>> /\ Len(p) \in Nat /\ Len(p) > 0
  BY PacketsOK, EmptySeq
<1>2. Fcs(p) \in Seq(Bytes) /\ Len(Fcs(p)) = 2
  BY FcsOK
<1> DEFINE body == BodyOf(p)
<1>3. /\ body \in Seq(Bytes) /\ Len(body) = Len(p) + 2
      /\ \A i \in 1 .. Len(p) + 2 : body[i] = IF i <= Len(p) THEN p[i] ELSE Fcs(p)[i - Len(p)]
  <2>1. /\ p \o Fcs(p) \in Seq(Bytes) /\ Len(p \o Fcs(p)) = Len(p) + Len(Fcs(p))
        /\ \A i \in 1 .. Len(p) + Len(Fcs(p)) :
             (p \o Fcs(p))[i] = IF i <= Len(p) THEN p[i] ELSE Fcs(p)[i - Len(p)]
    BY <1>1, <1>2, ConcatProperties
  <2> QED BY <1>2, <2>1 DEF BodyOf
<1> HIDE DEF body
<1>4. \A i \in 1 .. Len(p) + 2 : body[i] \in Bytes
  BY <1>3, ElementOfSeq
<1>5. SubSeq(body, 1, Len(p)) = p
  <2>1. /\ SubSeq(body, 1, Len(p)) \in Seq(Bytes) /\ Len(SubSeq(body, 1, Len(p))) = Len(p)
        /\ \A i \in 1 .. Len(p) : SubSeq(body, 1, Len(p))[i] = body[i]
    <3>1. \A i \in 1 .. Len(p) : body[i] \in Bytes
      BY <1>1, <1>4
    <3> QED BY <1>1, <3>1, SubSeqProperties
  <2>2. \A i \in 1 .. Len(p) : body[i] = p[i]
    BY <1>1, <1>3
  <2> QED BY <1>1, <2>1, <2>2, SeqEqual
<1>6. SubSeq(body, Len(p) + 1, Len(p) + 2) = Fcs(p)
  <2> DEFINE t == SubSeq(body, Len(p) + 1, Len(p) + 2)
  <2>1. /\ t \in Seq(Bytes) /\ Len(t) = 2
        /\ t[1] = body[Len(p) + 1] /\ t[2] = body[Len(p) + 2]
    <3>1. \A i \in Len(p) + 1 .. Len(p) + 2 : body[i] \in Bytes
      BY <1>1, <1>4
    <3>2. /\ t \in Seq(Bytes)
          /\ Len(t) = IF Len(p) + 1 <= Len(p) + 2 THEN (Len(p) + 2) - (Len(p) + 1) + 1 ELSE 0
          /\ \A i \in 1 .. (Len(p) + 2) - (Len(p) + 1) + 1 : t[i] = body[(Len(p) + 1) + i - 1]
      BY <1>1, <3>1, SubSeqProperties
    <3> HIDE DEF t
    <3>3. /\ Len(p) + 1 \in Int /\ Len(p) + 2 \in Int /\ (Len(p) + 2) - (Len(p) + 1) + 1 = 2
          /\ (Len(p) + 1) + 1 - 1 = Len(p) + 1 /\ (Len(p) + 1) + 2 - 1 = Len(p) + 2
      BY <1>1
    <3> QED BY <1>1, <3>2, <3>3
  <2>2. body[Len(p) + 1] = Fcs(p)[1] /\ body[Len(p) + 2] = Fcs(p)[2]
    BY <1>1, <1>3
  <2> HIDE DEF t
  <2>3. \A i \in 1 .. Len(t) : t[i] = Fcs(p)[i]
    BY <2>1, <2>2
  <2>4. t = Fcs(p)
    BY <1>2, <2>1, <2>3, SeqEqual
  <2> QED BY <2>4 DEF t
<1> QED BY <1>1, <1>3, <1>5, <1>6 DEF body

(* A frame: pos says how much of it the receiver has taken once it has put the
   first i bytes of the body together. *)
Shape(p, pos) ==
  /\ Frame(p) \in Seq(Bytes) /\ pos \in [0 .. Len(p) + 2 -> Nat]
  /\ pos[0] = 1 /\ Len(Frame(p)) = pos[Len(p) + 2] + 1
  /\ \A q \in 1 .. Len(Frame(p)) : Frame(p)[q] = Flag <=> q \in {1, Len(Frame(p))}
  /\ \A i \in 0 .. Len(p) + 2, j \in 0 .. Len(p) + 2 : i < j => pos[i] < pos[j]
  /\ \A i \in 0 .. Len(p) + 1 :
       IF BodyOf(p)[i + 1] \in {Flag, Esc}
       THEN /\ pos[i + 1] = pos[i] + 2
            /\ Frame(p)[pos[i] + 1] = Esc /\ Frame(p)[pos[i] + 2] = Xor7D(BodyOf(p)[i + 1])
       ELSE pos[i + 1] = pos[i] + 1 /\ Frame(p)[pos[i] + 1] = BodyOf(p)[i + 1]

LEMMA FrameShape ==
  ASSUME NEW p \in Packets
  PROVE  \E pos : Shape(p, pos)
<1> DEFINE body == BodyOf(p)
           n == Len(p) + 2
           ss == [k \in 1 .. Len(body) |-> Stuffed(body[k])]
<1>1. body \in Seq(Bytes) /\ Len(body) = n /\ n \in Nat /\ n > 0
  BY BodyFacts
<1>2. \A k \in 1 .. n : ss[k] = Stuffed(body[k]) /\ ss[k] \in Seq(Bytes)
  <2>1. \A k \in 1 .. n : body[k] \in Bytes
    BY <1>1, ElementOfSeq
  <2> HIDE DEF body, n
  <2> QED BY <1>1, <2>1, StuffedFacts
<1>3. Len(ss) = n
  <2> HIDE DEF body, n
  <2> QED BY <1>1
<1>4. Frame(p) = <<Flag>> \o FlattenSeq(ss) \o <<Flag>>
  BY DEF Frame, BodyOf
<1> HIDE DEF ss, n, body
<1>5. PICK f : /\ f = [i \in 1 .. n |-> IF i = 1 THEN ss[i] ELSE f[i - 1] \o ss[i]]
               /\ FlattenSeq(ss) = f[n]
  BY <1>1, <1>3, FlattenDefined
<1> DEFINE x(i) == IF i = 0 THEN <<Flag>> ELSE <<Flag>> \o f[i]
           Done(i) == i > 0 => f[i] \in Seq(Bytes)
           Good(i) == Done(i) /\ \E pos : ShapeUpTo(body, x(i), pos, i)
<1>6. Good(0)
  <2> DEFINE pos == [i \in 0 .. 0 |-> 1]
  <2>1. ShapeUpTo(body, <<Flag>>, pos, 0)
    <3>1. <<Flag>> \in Seq(Bytes) /\ Len(<<Flag>>) = 1 /\ <<Flag>>[1] = Flag
      BY ByteFacts
    <3>2. pos \in [0 .. 0 -> Nat] /\ pos[0] = 1
      OBVIOUS
    <3> HIDE DEF pos
    <3> QED BY <3>1, <3>2 DEF ShapeUpTo
  <2>2. x(0) = <<Flag>>
    OBVIOUS
  <2> HIDE DEF x
  <2> QED BY <2>1, <2>2
<1>7. ASSUME NEW i \in 0 .. n - 1, Good(i) PROVE Good(i + 1)
  <2>1. i + 1 \in 1 .. n /\ i \in Nat /\ i < Len(body) /\ ss[i + 1] = Stuffed(body[i + 1])
        /\ ss[i + 1] \in Seq(Bytes)
    BY <1>1, <1>2
  <2>2. f[i + 1] = IF i = 0 THEN ss[i + 1] ELSE f[i] \o ss[i + 1]
    <3>1. f[i + 1] = IF i + 1 = 1 THEN ss[i + 1] ELSE f[(i + 1) - 1] \o ss[i + 1]
      BY <1>5, <2>1
    <3>2. (i + 1) - 1 = i /\ (i + 1 = 1 <=> i = 0)
      BY <2>1
    <3> QED BY <3>1, <3>2
  <2>3. f[i + 1] \in Seq(Bytes)
    BY <1>7, <2>1, <2>2, ConcatProperties
  <2>4. x(i + 1) = x(i) \o ss[i + 1]
    <3>1. x(i + 1) = <<Flag>> \o f[i + 1]
      BY <2>1
    <3>2. CASE i = 0
      BY <2>2, <3>1, <3>2
    <3>3. CASE i # 0
      <4>1. <<Flag>> \in Seq(Bytes) /\ f[i] \in Seq(Bytes)
        BY <1>7, <2>1, <3>3, ByteFacts
      <4>2. \A s \in Seq(Bytes), t \in Seq(Bytes), u \in Seq(Bytes) :
              (s \o t) \o u = s \o (t \o u)
        BY ConcatAssociative
      <4>3. (<<Flag>> \o f[i]) \o ss[i + 1] = <<Flag>> \o (f[i] \o ss[i + 1])
        BY <2>1, <4>1, <4>2
      <4> QED BY <2>1, <2>2, <3>1, <3>3, <4>3
    <3> QED BY <3>2, <3>3
  <2>5. PICK pos : ShapeUpTo(body, x(i), pos, i)
    BY <1>7
  <2> HIDE DEF x
  <2>6. \E pos2 : ShapeUpTo(body, x(i) \o Stuffed(body[i + 1]), pos2, i + 1)
    BY <1>1, <2>1, <2>5, ShapeStep
  <2> QED BY <2>1, <2>3, <2>4, <2>6
<1>8. Good(n)
  <2> DEFINE Bad == {i \in 0 .. n : ~ Good(i)}
  <2> HIDE DEF Good
  <2> SUFFICES ASSUME Bad # {} PROVE FALSE
    BY <1>1
  <2>1. Bad \in SUBSET Nat
    BY <1>1
  <2>2. PICK i \in Bad : \A l \in Bad : i <= l
    BY <2>1, LeastNatural
  <2>3. i # 0 /\ i - 1 \in 0 .. n - 1 /\ i - 1 \notin Bad
    BY <1>1, <1>6, <2>2
  <2>4. Good(i - 1) /\ (i - 1) + 1 = i
    BY <1>1, <2>2, <2>3
  <2> QED BY <1>7, <2>2, <2>3, <2>4
<1>9. PICK pos : ShapeUpTo(body, <<Flag>> \o f[n], pos, n)
  BY <1>1, <1>8
<1> DEFINE y == <<Flag>> \o f[n]
           z == y \o <<Flag>>
<1>10. Frame(p) = z
  BY <1>4, <1>5
<1>11. /\ y \in Seq(Bytes) /\ pos \in [0 .. n -> Nat] /\ pos[0] = 1 /\ Len(y) = pos[n]
       /\ y[1] = Flag /\ \A q \in 2 .. Len(y) : y[q] # Flag
       /\ \A i \in 0 .. n, j \in 0 .. n : i < j => pos[i] < pos[j]
       /\ \A i \in 0 .. n - 1 :
            IF body[i + 1] \in {Flag, Esc}
            THEN /\ pos[i + 1] = pos[i] + 2
                 /\ y[pos[i] + 1] = Esc /\ y[pos[i] + 2] = Xor7D(body[i + 1])
            ELSE pos[i + 1] = pos[i] + 1 /\ y[pos[i] + 1] = body[i + 1]
  BY <1>9 DEF ShapeUpTo
<1> HIDE DEF y
<1>12. /\ z \in Seq(Bytes) /\ Len(z) = Len(y) + 1 /\ z[Len(z)] = Flag
       /\ \A q \in 1 .. Len(y) : z[q] = y[q]
  <2>1. <<Flag>> \in Seq(Bytes) /\ Len(<<Flag>>) = 1 /\ <<Flag>>[1] = Flag
    BY ByteFacts
  <2>2. Len(y) \in Nat
    BY <1>11
  <2>3. /\ z \in Seq(Bytes) /\ Len(z) = Len(y) + Len(<<Flag>>)
        /\ \A q \in 1 .. Len(y) + Len(<<Flag>>) :
             z[q] = IF q <= Len(y) THEN y[q] ELSE <<Flag>>[q - Len(y)]
    BY <1>11, <2>1, ConcatProperties
  <2> HIDE DEF z
  <2> QED BY <2>1, <2>2, <2>3
<1> HIDE DEF z
<1>13. \A i \in 0 .. n : pos[i] \in Nat /\ 1 <= pos[i] /\ (i < n => pos[i] < pos[n])
  BY <1>1, <1>11
<1>14. \A q \in 1 .. Len(z) : z[q] = Flag <=> q \in {1, Len(z)}
  <2>1. Len(y) \in Nat /\ Len(y) >= 1
    BY <1>1, <1>11, <1>13
  <2> SUFFICES ASSUME NEW q \in 1 .. Len(z) PROVE z[q] = Flag <=> q \in {1, Len(z)}
    OBVIOUS
  <2>2. CASE q = Len(z)
    BY <1>12, <2>2
  <2>3. CASE q \in 1 .. Len(y)
    <3>1. z[q] = y[q] /\ q # Len(z) /\ q \in Int
      BY <1>12, <2>1, <2>3
    <3>2. q # 1 => q \in 2 .. Len(y)
      BY <2>1, <2>3
    <3> QED BY <1>11, <3>1, <3>2
  <2> QED BY <1>12, <2>1, <2>2, <2>3
<1>15. ASSUME NEW i \in 0 .. n - 1
       PROVE  IF body[i + 1] \in {Flag, Esc}
              THEN /\ pos[i + 1] = pos[i] + 2
                   /\ z[pos[i] + 1] = Esc /\ z[pos[i] + 2] = Xor7D(body[i + 1])
              ELSE pos[i + 1] = pos[i] + 1 /\ z[pos[i] + 1] = body[i + 1]
  <2>1. pos[i] \in Nat /\ pos[i + 1] \in Nat /\ pos[i + 1] <= Len(y) /\ Len(y) \in Nat
    <3>1. i \in 0 .. n /\ i + 1 \in 0 .. n /\ n \in 0 .. n /\ (i + 1 = n \/ i + 1 < n)
      BY <1>1
    <3>2. Len(y) = pos[n] /\ pos[n] \in Nat
      BY <1>11, <1>13, <3>1
    <3>3. pos[i] \in Nat /\ pos[i + 1] \in Nat
      BY <1>13, <3>1
    <3>4. i + 1 < n => pos[i + 1] < pos[n]
      BY <1>13, <3>1
    <3> QED BY <3>1, <3>2, <3>3, <3>4
  <2>2. /\ pos[i] + 1 <= pos[i + 1] => z[pos[i] + 1] = y[pos[i] + 1]
        /\ pos[i] + 2 <= pos[i + 1] => z[pos[i] + 2] = y[pos[i] + 2]
    <3>1. \A q : q \in 1 .. Len(y) => z[q] = y[q]
      BY <1>12
    <3>2. /\ pos[i] + 1 <= pos[i + 1] => pos[i] + 1 \in 1 .. Len(y)
          /\ pos[i] + 2 <= pos[i + 1] => pos[i] + 2 \in 1 .. Len(y)
      BY <2>1
    <3> QED BY <3>1, <3>2
  <2>3. CASE body[i + 1] \in {Flag, Esc}
    <3>1. pos[i + 1] = pos[i] + 2 /\ y[pos[i] + 1] = Esc /\ y[pos[i] + 2] = Xor7D(body[i + 1])
      BY <1>11, <2>3
    <3> QED BY <2>1, <2>2, <2>3, <3>1
  <2>4. CASE body[i + 1] \notin {Flag, Esc}
    <3>1. pos[i + 1] = pos[i] + 1 /\ y[pos[i] + 1] = body[i + 1]
      BY <1>11, <2>4
    <3> QED BY <2>1, <2>2, <2>4, <3>1
  <2> QED BY <2>3, <2>4
<1>16. /\ n - 1 = Len(p) + 1 /\ n = Len(p) + 2 /\ body = BodyOf(p)
  BY BodyFacts DEF n, body
<1>17. \A i \in 0 .. Len(p) + 1 :
         IF BodyOf(p)[i + 1] \in {Flag, Esc}
         THEN /\ pos[i + 1] = pos[i] + 2
              /\ z[pos[i] + 1] = Esc /\ z[pos[i] + 2] = Xor7D(BodyOf(p)[i + 1])
         ELSE pos[i + 1] = pos[i] + 1 /\ z[pos[i] + 1] = BodyOf(p)[i + 1]
  BY <1>15, <1>16
<1>18. pos[0] = 1 /\ Len(z) = pos[Len(p) + 2] + 1 /\ pos \in [0 .. Len(p) + 2 -> Nat]
  BY <1>11, <1>12, <1>16
<1>19. \A i \in 0 .. Len(p) + 2, j \in 0 .. Len(p) + 2 : i < j => pos[i] < pos[j]
  BY <1>11, <1>16
<1>20. Shape(p, pos)
  BY <1>10, <1>12, <1>14, <1>17, <1>18, <1>19 DEF Shape
<1> QED BY <1>20

(* The receiver, in state r with the bytes t, has taken o bytes of the frame of p. *)
Reading(p, o, r, t) ==
  \E pos, m : /\ Shape(p, pos) /\ m \in 0 .. Len(p) + 2 /\ t = SubSeq(BodyOf(p), 1, m)
              /\ \/ r = "DATA" /\ o = pos[m]
                 \/ /\ r = "7D" /\ o = pos[m] + 1
                    /\ m < Len(p) + 2 /\ BodyOf(p)[m + 1] \in {Flag, Esc}

(* The positions of Shape are inside the frame, before the flag that closes it. *)
LEMMA ShapeFacts ==
  ASSUME NEW p \in Packets, NEW pos, Shape(p, pos)
  PROVE  /\ Len(Frame(p)) \in Nat /\ Len(Frame(p)) >= 2 /\ Len(p) \in Nat
         /\ \A m \in 0 .. Len(p) + 2 : /\ pos[m] \in Nat /\ 1 <= pos[m] /\ pos[m] < Len(Frame(p))
                                       /\ m = Len(p) + 2 => pos[m] + 1 = Len(Frame(p))
                                       /\ m < Len(p) + 2 => /\ pos[m] < pos[m + 1]
                                                            /\ pos[m + 1] < Len(Frame(p))
                                                            /\ pos[m + 1] \in Nat
<1>1. Len(p) \in Nat /\ Len(p) > 0
  BY BodyFacts
<1>2. /\ pos \in [0 .. Len(p) + 2 -> Nat] /\ pos[0] = 1
      /\ Len(Frame(p)) = pos[Len(p) + 2] + 1
      /\ \A i \in 0 .. Len(p) + 2, j \in 0 .. Len(p) + 2 : i < j => pos[i] < pos[j]
  BY DEF Shape
<1>3. \A m \in 0 .. Len(p) + 2 : pos[m] \in Nat /\ (m < Len(p) + 2 => m + 1 \in 0 .. Len(p) + 2)
  BY <1>1, <1>2
<1>4. \A m \in 0 .. Len(p) + 2 : 1 <= pos[m]
  BY <1>1, <1>2, <1>3
<1>5. \A m \in 0 .. Len(p) + 2 : pos[m] <= pos[Len(p) + 2]
  BY <1>1, <1>2, <1>3
<1>6. Len(p) + 2 \in 0 .. Len(p) + 2
  BY <1>1
<1>7. Len(Frame(p)) \in Nat /\ Len(Frame(p)) >= 2
  BY <1>2, <1>3, <1>4, <1>6
<1> SUFFICES ASSUME NEW m \in 0 .. Len(p) + 2
             PROVE  /\ pos[m] \in Nat /\ 1 <= pos[m] /\ pos[m] < Len(Frame(p))
                    /\ m = Len(p) + 2 => pos[m] + 1 = Len(Frame(p))
                    /\ m < Len(p) + 2 => /\ pos[m] < pos[m + 1]
                                         /\ pos[m + 1] < Len(Frame(p))
                                         /\ pos[m + 1] \in Nat
  BY <1>1, <1>7
<1>8. pos[m] < Len(Frame(p)) /\ pos[m] \in Nat /\ 1 <= pos[m]
  BY <1>2, <1>3, <1>4, <1>5, <1>6
<1>9. ASSUME m < Len(p) + 2
      PROVE  pos[m] < pos[m + 1] /\ pos[m + 1] < Len(Frame(p)) /\ pos[m + 1] \in Nat
  <2>1. m + 1 \in 0 .. Len(p) + 2 /\ m < m + 1
    BY <1>3, <1>9
  <2> QED BY <1>2, <1>3, <1>5, <1>6, <2>1
<1> QED BY <1>2, <1>8, <1>9

(* What the receiver has put together grows by one byte of the body. *)
LEMMA BodyPrefix ==
  ASSUME NEW p \in Packets, NEW m \in 0 .. Len(p) + 2
  PROVE  /\ SubSeq(BodyOf(p), 1, m) \in Seq(Bytes) /\ Len(SubSeq(BodyOf(p), 1, m)) = m
         /\ m < Len(p) + 2 => /\ BodyOf(p)[m + 1] \in Bytes
                              /\ Append(SubSeq(BodyOf(p), 1, m), BodyOf(p)[m + 1])
                                   = SubSeq(BodyOf(p), 1, m + 1)
<1> DEFINE b == BodyOf(p)
           L == Len(p) + 2
<1>1. b \in Seq(Bytes) /\ Len(b) = L /\ L \in Nat
  BY BodyFacts
<1> HIDE DEF b, L
<1>2. \A i \in 1 .. L : b[i] \in Bytes
  BY <1>1, ElementOfSeq
<1>3. m \in Nat /\ m <= L
  BY <1>1 DEF L
<1>4. ASSUME NEW k \in Nat, k <= L
      PROVE  /\ SubSeq(b, 1, k) \in Seq(Bytes) /\ Len(SubSeq(b, 1, k)) = k
             /\ \A i \in 1 .. k : SubSeq(b, 1, k)[i] = b[i]
  <2>1. \A i \in 1 .. k : b[i] \in Bytes
    BY <1>1, <1>2, <1>4
  <2>2. /\ SubSeq(b, 1, k) \in Seq(Bytes)
        /\ Len(SubSeq(b, 1, k)) = IF 1 <= k THEN k - 1 + 1 ELSE 0
        /\ \A i \in 1 .. k - 1 + 1 : SubSeq(b, 1, k)[i] = b[1 + i - 1]
    BY <1>4, <2>1, SubSeqProperties
  <2>3. k - 1 + 1 = k /\ (~ 1 <= k => k = 0) /\ \A i \in 1 .. k : 1 + i - 1 = i
    BY <1>4
  <2> QED BY <2>2, <2>3
<1>5. ASSUME m < L
      PROVE  b[m + 1] \in Bytes /\ Append(SubSeq(b, 1, m), b[m + 1]) = SubSeq(b, 1, m + 1)
  <2> DEFINE u == SubSeq(b, 1, m)
             v == SubSeq(b, 1, m + 1)
  <2>1. b[m + 1] \in Bytes
    BY <1>1, <1>2, <1>3, <1>5
  <2>2. /\ u \in Seq(Bytes) /\ Len(u) = m
        /\ \A i \in 1 .. m : u[i] = b[i]
    BY <1>3, <1>4
  <2>3. /\ v \in Seq(Bytes) /\ Len(v) = m + 1
        /\ \A i \in 1 .. m + 1 : v[i] = b[i]
    <3>1. m + 1 \in Nat /\ m + 1 <= L
      BY <1>1, <1>3, <1>5
    <3> QED BY <1>4, <3>1
  <2> HIDE DEF u, v
  <2>4. /\ Append(u, b[m + 1]) \in Seq(Bytes) /\ Len(Append(u, b[m + 1])) = m + 1
        /\ \A i \in 1 .. m + 1 : Append(u, b[m + 1])[i] = IF i <= m THEN u[i] ELSE b[m + 1]
    BY <1>3, <2>1, <2>2
  <2>5. \A i \in 1 .. m + 1 : Append(u, b[m + 1])[i] = v[i]
    BY <1>3, <2>2, <2>3, <2>4
  <2>6. Append(u, b[m + 1]) = v
    BY <2>3, <2>4, <2>5, SeqEqual
  <2> QED BY <2>1, <2>6 DEF u, v
<1> QED BY <1>3, <1>4, <1>5 DEF b, L

(* A receiver inside a frame has taken the flag that opens it and not the one that
   closes it. *)
LEMMA ReadingFacts ==
  ASSUME NEW p \in Packets, NEW o, NEW r, NEW t, Reading(p, o, r, t)
  PROVE  /\ o \in 1 .. Len(Frame(p)) - 1 /\ Len(Frame(p)) \in Nat
         /\ r \in {"DATA", "7D"}
         /\ t \in Seq(Bytes) /\ Len(t) <= Len(p) + 2
<1>1. PICK pos, m : /\ Shape(p, pos) /\ m \in 0 .. Len(p) + 2 /\ t = SubSeq(BodyOf(p), 1, m)
                    /\ \/ r = "DATA" /\ o = pos[m]
                       \/ /\ r = "7D" /\ o = pos[m] + 1
                          /\ m < Len(p) + 2 /\ BodyOf(p)[m + 1] \in {Flag, Esc}
  BY DEF Reading
<1>2. t \in Seq(Bytes) /\ Len(t) <= Len(p) + 2
  BY <1>1, BodyPrefix
<1>3. /\ Len(Frame(p)) \in Nat /\ Len(p) \in Nat
      /\ pos[m] \in Nat /\ 1 <= pos[m] /\ pos[m] < Len(Frame(p))
      /\ m < Len(p) + 2 => /\ pos[m] < pos[m + 1] /\ pos[m + 1] < Len(Frame(p)) /\ pos[m + 1] \in Nat
  BY <1>1, ShapeFacts
<1>4. o \in 1 .. Len(Frame(p)) - 1
  BY <1>1, <1>3
<1> QED BY <1>1, <1>2, <1>3, <1>4

(* The flag that opens a frame has been taken. *)
LEMMA ReadingStarts ==
  ASSUME NEW p \in Packets
  PROVE  Reading(p, 1, "DATA", <<>>)
<1>1. PICK pos : Shape(p, pos)
  BY FrameShape
<1>2. 0 \in 0 .. Len(p) + 2 /\ SubSeq(BodyOf(p), 1, 0) = <<>>
  BY BodyFacts, SubSeqEmpty
<1>3. pos[0] = 1
  BY <1>1 DEF Shape
<1> QED BY <1>1, <1>2, <1>3 DEF Reading

(* SerialFrame takes these from FrameState too. *)
LEMMA SameFrames ==
  /\ F!Flag = Flag /\ F!Esc = Esc /\ \A b : F!Xor7D(b) = Xor7D(b)
  /\ \A p : F!Frame(p) = Frame(p)
<1>1. F!Flag = Flag /\ F!Esc = Esc /\ F!Bytes = Bytes
  BY DEF F!Flag, Flag, F!Esc, Esc, F!Bytes, Bytes
<1>2. \A b : F!Xor7D(b) = Xor7D(b)
  BY <1>1 DEF F!Xor7D, Xor7D
<1>3. \A b : F!Stuffed(b) = Stuffed(b)
  BY <1>1, <1>2 DEF F!Stuffed, Stuffed
<1>4. \A ss : F!FlattenSeq(ss) = FlattenSeq(ss)
  BY DEF F!FlattenSeq, FlattenSeq
<1>5. \A p : F!Frame(p) = Frame(p)
  BY <1>1, <1>3, <1>4 DEF F!Frame, Frame
<1> QED BY <1>1, <1>2, <1>5

(* One byte more of a frame that is being read: a byte of the body, or half of one,
   or the flag at the end, at which the packet is delivered. *)
LEMMA ReadOn ==
  ASSUME NEW p \in Packets, NEW o, Reading(p, o, recv, buf), NEW b, b = Frame(p)[o + 1],
         F!RecvIdle(b) \/ F!RecvData(b) \/ F!RecvEscaped(b)
  PROVE  \/ Reading(p, o + 1, recv', buf') /\ delivered' = delivered
         \/ /\ o + 1 = Len(Frame(p))
            /\ recv' = "IDLE" /\ buf' = buf /\ delivered' = Append(delivered, p)
<1> DEFINE body == BodyOf(p)
           L == Len(p) + 2
<1>1. PICK pos, m : /\ Shape(p, pos) /\ m \in 0 .. Len(p) + 2 /\ buf = SubSeq(BodyOf(p), 1, m)
                    /\ \/ recv = "DATA" /\ o = pos[m]
                       \/ /\ recv = "7D" /\ o = pos[m] + 1
                          /\ m < Len(p) + 2 /\ BodyOf(p)[m + 1] \in {Flag, Esc}
  BY DEF Reading
<1>2. /\ Len(Frame(p)) \in Nat /\ Len(p) \in Nat
      /\ pos[m] \in Nat /\ 1 <= pos[m] /\ pos[m] < Len(Frame(p))
      /\ m = Len(p) + 2 => pos[m] + 1 = Len(Frame(p))
      /\ m < Len(p) + 2 => /\ pos[m] < pos[m + 1] /\ pos[m + 1] < Len(Frame(p)) /\ pos[m + 1] \in Nat
  BY <1>1, ShapeFacts
<1>3. \A q \in 1 .. Len(Frame(p)) : Frame(p)[q] = Flag <=> q \in {1, Len(Frame(p))}
  BY <1>1 DEF Shape
<1>4. m < L =>
        IF body[m + 1] \in {Flag, Esc}
        THEN /\ pos[m + 1] = pos[m] + 2
             /\ Frame(p)[pos[m] + 1] = Esc /\ Frame(p)[pos[m] + 2] = Xor7D(body[m + 1])
        ELSE pos[m + 1] = pos[m] + 1 /\ Frame(p)[pos[m] + 1] = body[m + 1]
  <2>1. m < L => m \in 0 .. Len(p) + 1
    BY <1>1, <1>2
  <2> QED BY <1>1, <2>1 DEF Shape
<1>5. m < L => body[m + 1] \in Bytes /\ Append(buf, body[m + 1]) = SubSeq(body, 1, m + 1)
  BY <1>1, BodyPrefix
<1>6. CASE m = L
  <2>1. recv = "DATA" /\ o = pos[m] /\ o + 1 = Len(Frame(p))
    BY <1>1, <1>2, <1>6
  <2>2. b = Flag
    BY <1>2, <1>3, <2>1
  <2>3. F!RecvData(b)
    BY <2>1, SameFrames DEF F!RecvIdle, F!RecvEscaped
  <2>4. recv' = "IDLE" /\ buf' = buf /\ delivered' = IF F!Intact THEN Append(delivered, F!Body) ELSE delivered
    BY <2>2, <2>3, ByteFacts, SameFrames DEF F!RecvData
  <2>5. buf = body /\ Len(buf) = Len(p) + 2
    <3>1. body \in Seq(Bytes) /\ Len(body) = L
      BY BodyFacts
    <3> HIDE DEF body
    <3>2. SubSeq(body, 1, Len(body)) = body
      BY <3>1, SubSeqFull
    <3> QED BY <1>1, <1>6, <3>1, <3>2 DEF body
  <2>6. SubSeq(buf, 1, Len(p)) = p /\ SubSeq(buf, Len(p) + 1, Len(p) + 2) = Fcs(p) /\ Len(p) > 0
    BY <2>5, BodyFacts
  <2>7. F!Body = p
    <3>1. Len(buf) - 2 = Len(p)
      BY <1>2, <2>5
    <3> QED BY <2>6, <3>1 DEF F!Body
  <2>8. F!Intact
    <3>1. Len(buf) > 2 /\ Len(buf) - 1 = Len(p) + 1
      BY <1>2, <2>5, <2>6
    <3> QED BY <2>5, <2>6, <2>7, <3>1 DEF F!Intact
  <2> QED BY <2>1, <2>4, <2>7, <2>8
<1>7. CASE m < L /\ recv = "DATA"
  <2>1. o = pos[m] /\ F!RecvData(b)
    BY <1>1, <1>7, SameFrames DEF F!RecvIdle, F!RecvEscaped
  <2>2. CASE body[m + 1] \in {Flag, Esc}
    <3>1. b = Esc
      BY <1>4, <1>7, <2>1, <2>2
    <3>2. recv' = "7D" /\ buf' = buf /\ delivered' = delivered
      BY <2>1, <3>1, ByteFacts, SameFrames DEF F!RecvData
    <3> QED BY <1>1, <1>7, <2>1, <2>2, <3>2 DEF Reading
  <2>3. CASE body[m + 1] \notin {Flag, Esc}
    <3>1. b = body[m + 1] /\ pos[m + 1] = o + 1
      BY <1>4, <1>7, <2>1, <2>3
    <3>2. recv' = recv /\ buf' = Append(buf, b) /\ delivered' = delivered
      BY <2>1, <2>3, <3>1, SameFrames DEF F!RecvData
    <3>3. m + 1 \in 0 .. Len(p) + 2 /\ buf' = SubSeq(BodyOf(p), 1, m + 1)
      BY <1>1, <1>2, <1>5, <1>7, <3>1, <3>2
    <3> QED BY <1>1, <1>7, <3>1, <3>2, <3>3 DEF Reading
  <2> QED BY <2>2, <2>3
<1>8. CASE m < L /\ recv # "DATA"
  <2>1. recv = "7D" /\ o = pos[m] + 1 /\ body[m + 1] \in {Flag, Esc} /\ F!RecvEscaped(b)
    BY <1>1, <1>8, SameFrames DEF F!RecvIdle, F!RecvData
  <2>2. pos[m + 1] = o + 1 /\ b = Xor7D(body[m + 1])
    <3>1. pos[m + 1] = pos[m] + 2 /\ Frame(p)[pos[m] + 2] = Xor7D(body[m + 1])
      BY <1>4, <1>8, <2>1
    <3>2. o + 1 = pos[m] + 2
      BY <1>2, <2>1
    <3> QED BY <3>1, <3>2
  <2>3. b \notin {Flag, Esc} /\ Xor7D(b) = body[m + 1]
    BY <1>5, <1>8, <2>1, <2>2, StuffedFacts
  <2>4. recv' = "DATA" /\ buf' = Append(buf, body[m + 1]) /\ delivered' = delivered
    BY <2>1, <2>3, SameFrames DEF F!RecvEscaped
  <2>5. m + 1 \in 0 .. Len(p) + 2 /\ buf' = SubSeq(BodyOf(p), 1, m + 1)
    BY <1>1, <1>2, <1>5, <1>8, <2>4
  <2> QED BY <1>1, <2>2, <2>4, <2>5 DEF Reading
<1>9. m = L \/ m < L
  BY <1>1, <1>2
<1> QED BY <1>6, <1>7, <1>8, <1>9

(* A flag ends whatever the receiver is reading. *)
LEMMA FlagCloses ==
  ASSUME NEW b, b = Flag, recv \in {"DATA", "7D"},
         F!RecvIdle(b) \/ F!RecvData(b) \/ F!RecvEscaped(b)
  PROVE  recv' = "IDLE" /\ buf' = buf
BY ByteFacts, SameFrames DEF F!RecvIdle, F!RecvData, F!RecvEscaped

(* A receiver between frames waits for a flag. *)
LEMMA IdleWaits ==
  ASSUME NEW b, recv = "IDLE", F!RecvIdle(b) \/ F!RecvData(b) \/ F!RecvEscaped(b)
  PROVE  /\ delivered' = delivered
         /\ b = Flag => recv' = "DATA" /\ buf' = <<>>
         /\ b # Flag => recv' = "IDLE" /\ buf' = buf
BY SameFrames DEF F!RecvIdle, F!RecvData, F!RecvEscaped
-----------------------------------------------------------------------------
(* Why the receiver keeps up.  S is all that write ever took; what it took of the
   frame of the j-th packet is behind start[j]. *)
Framed(S, start) ==
  /\ S \in Seq(Bytes) /\ start \in [1 .. Len(sent) + 1 -> Nat]
  /\ start[1] = 0 /\ start[Len(sent) + 1] = Len(S)
  /\ \A i \in 1 .. Len(sent) + 1, j \in 1 .. Len(sent) + 1 : i <= j => start[i] <= start[j]
  /\ \A j \in 1 .. Len(sent) :
       /\ start[j + 1] - start[j] <= Len(Frame(sent[j]))
       /\ \A q \in 1 .. start[j + 1] - start[j] : S[start[j] + q] = Frame(sent[j])[q]
       /\ j \notin failed => start[j + 1] - start[j]
                               = Len(Frame(sent[j])) - (IF j = Len(sent) THEN left ELSE 0)

(* The receiver is between two frames, inside one, or has taken the end of one for
   a beginning. *)
Between(start, c) ==
  /\ recv = "IDLE"
  /\ failed = {} => \E k \in 0 .. Len(sent) : /\ c = start[k + 1] /\ (k = Len(sent) => left = 0)
                                              /\ delivered = SubSeq(sent, 1, k)
Inside(start, c) ==
  \E k \in 1 .. Len(sent) : \E o \in 1 .. start[k + 1] - start[k] :
    /\ c = start[k] + o /\ Reading(sent[k], o, recv, buf)
    /\ failed = {} => delivered = SubSeq(sent, 1, k - 1)
Misled(start, c) ==
  /\ failed # {} /\ recv = "DATA" /\ buf = <<>>
  /\ \E k \in 1 .. Len(sent) : c = start[k + 1] /\ c = start[k] + Len(Frame(sent[k]))

(* It has taken c bytes. *)
Received(S, start, c) ==
  /\ c \in 0 .. Len(S) /\ line = SubSeq(S, c + 1, Len(S))
  /\ Between(start, c) \/ Inside(start, c) \/ Misled(start, c)

(* The types of the state, and with them what the buffer holds while no write strays. *)
Types ==
  /\ frame \in Seq(Bytes) /\ left \in 0 .. Len(frame) /\ written \in -1 .. Len(frame)
  /\ line \in Seq(Bytes)
  /\ recv \in {"IDLE", "DATA", "7D"} /\ buf \in Seq(Bytes)
  /\ sent \in Seq(Packets) /\ delivered \in Seq(Seq(Bytes))
  /\ failed \subseteq 1 .. Len(sent) /\ strayed \subseteq 1 .. Len(sent)

EndTypes == Types /\ \E p \in Packets : Len(buf) <= Len(p) + 2

(* The sender writes the frame of the last packet; the next call finds at least as many
   bytes behind its offset as are left. *)
Sending ==
  left > 0 => /\ Len(sent) > 0 /\ frame = Frame(sent[Len(sent)]) /\ Len(sent) \notin failed
              /\ written \in 0 .. Len(frame) - left

FrameInv ==
  /\ EndTypes /\ Sending
  /\ \E S, start, c : Framed(S, start) /\ Received(S, start, c)

(* A frame has a flag at either end and nowhere else. *)
LEMMA FrameFacts ==
  ASSUME NEW p \in Packets
  PROVE  /\ Frame(p) \in Seq(Bytes) /\ Len(Frame(p)) \in Nat /\ Len(Frame(p)) >= 2
         /\ \A q \in 1 .. Len(Frame(p)) : Frame(p)[q] = Flag <=> q \in {1, Len(Frame(p))}
<1>1. PICK pos : Shape(p, pos)
  BY FrameShape
<1> QED BY <1>1, ShapeFacts DEF Shape

(* The bytes write may take: as many as it takes, whatever its offset is. *)
Part(t) == SubSeq(frame, written + 1, written + t)

LEMMA PartFacts ==
  ASSUME Types, Sending, left > 0, NEW t \in 0 .. left
  PROVE  /\ Part(t) \in Seq(Bytes) /\ Len(Part(t)) = t
         /\ \A q \in 1 .. t : Part(t)[q] = frame[written + q]
<1>1. /\ frame \in Seq(Bytes) /\ Len(frame) \in Nat /\ left \in Nat /\ t \in Nat /\ t <= left
      /\ written \in Nat /\ written + left <= Len(frame)
  BY DEF Types, Sending
<1>2. /\ written + 1 \in Int /\ written + t \in Int
      /\ (written + t) - (written + 1) + 1 = t /\ (~ written + 1 <= written + t => t = 0)
      /\ \A q \in 1 .. t : (written + 1) + q - 1 = written + q
      /\ \A q \in written + 1 .. written + t : q \in 1 .. Len(frame)
  BY <1>1
<1>3. \A q \in written + 1 .. written + t : frame[q] \in Bytes
  BY <1>1, <1>2, ElementOfSeq
<1> DEFINE u == SubSeq(frame, written + 1, written + t)
<1>4. /\ u \in Seq(Bytes)
      /\ Len(u) = IF written + 1 <= written + t THEN (written + t) - (written + 1) + 1 ELSE 0
      /\ \A q \in 1 .. (written + t) - (written + 1) + 1 : u[q] = frame[(written + 1) + q - 1]
  BY <1>2, <1>3, SubSeqProperties
<1> HIDE DEF u
<1>5. u \in Seq(Bytes) /\ Len(u) = t /\ \A q \in 1 .. t : u[q] = frame[written + q]
  BY <1>2, <1>4
<1> QED BY <1>5 DEF u, Part

(* What a byte makes of the state and of what is delivered, whether or not it is
   expected. *)
LEMMA RecvTypes ==
  ASSUME Types, NEW b \in Bytes, F!RecvIdle(b) \/ F!RecvData(b) \/ F!RecvEscaped(b)
  PROVE  /\ recv' \in {"IDLE", "DATA", "7D"} /\ delivered' \in Seq(Seq(Bytes))
         /\ buf' \in Seq(Bytes)
         /\ \/ recv' = "IDLE" /\ buf' = buf
            \/ recv = "IDLE" /\ b = Flag /\ buf' = <<>>
            \/ recv # "IDLE" /\ b # Flag /\ (buf' = buf \/ Len(buf') = Len(buf) + 1)
<1>1. recv \in {"IDLE", "DATA", "7D"} /\ delivered \in Seq(Seq(Bytes)) /\ buf \in Seq(Bytes)
  BY DEF Types
<1>2. recv' \in {"IDLE", "DATA", "7D"}
  BY <1>1 DEF F!RecvIdle, F!RecvData, F!RecvEscaped
<1>3. ASSUME F!Intact PROVE F!Body \in Seq(Bytes)
  <2>1. Len(buf) \in Nat /\ Len(buf) > 2
    BY <1>1, <1>3 DEF F!Intact
  <2>2. SubSeq(buf, 1, Len(buf) - 2) \in Seq(Bytes)
    BY <1>1, <2>1
  <2> QED BY <2>2 DEF F!Body
<1>4. delivered' = delivered \/ (F!Intact /\ delivered' = Append(delivered, F!Body))
  BY DEF F!RecvIdle, F!RecvData, F!RecvEscaped
<1>5. delivered' \in Seq(Seq(Bytes))
  <2>1. CASE delivered' = delivered
    BY <1>1, <2>1
  <2>2. CASE F!Intact /\ delivered' = Append(delivered, F!Body)
    <3>1. PICK e : e = F!Body
      OBVIOUS
    <3>2. e \in Seq(Bytes) /\ delivered' = Append(delivered, e)
      BY <1>3, <2>2, <3>1
    <3> QED BY <1>1, <3>2, AppendProperties
  <2> QED BY <1>4, <2>1, <2>2
<1>6. \/ recv' = "IDLE" /\ buf' = buf
      \/ recv = "IDLE" /\ b = Flag /\ buf' = <<>>
      \/ /\ recv # "IDLE" /\ b # Flag
         /\ buf' = buf \/ buf' = Append(buf, b) \/ (b # Esc /\ buf' = Append(buf, Xor7D(b)))
  <2>1. CASE F!RecvIdle(b)
    BY <2>1, SameFrames DEF F!RecvIdle
  <2>2. CASE F!RecvData(b)
    BY <2>2, ByteFacts, SameFrames DEF F!RecvData
  <2>3. CASE F!RecvEscaped(b)
    BY <2>3, SameFrames DEF F!RecvEscaped
  <2> QED BY <2>1, <2>2, <2>3
<1>7. ASSUME NEW d \in Bytes PROVE Append(buf, d) \in Seq(Bytes) /\ Len(Append(buf, d)) = Len(buf) + 1
  BY <1>1, AppendProperties
<1>8. b \notin {Esc, Flag} => Xor7D(b) \in Bytes
  <2>1. b \in {0, 3, Esc, Flag}
    BY DEF Bytes
  <2> QED BY <2>1, ByteFacts
<1> QED BY <1>1, <1>2, <1>5, <1>6, <1>7, <1>8, EmptySeq

(* Every step keeps the state of both ends well formed. *)
LEMMA TypesStep == Types /\ Sending /\ [F!Next]_F!vars => Types' /\ Sending'
<1> SUFFICES ASSUME Types, Sending, [F!Next]_F!vars PROVE Types' /\ Sending'
  OBVIOUS
<1>1. /\ frame \in Seq(Bytes) /\ Len(frame) \in Nat /\ left \in Nat /\ left <= Len(frame)
      /\ sent \in Seq(Packets) /\ Len(sent) \in Nat
      /\ line \in Seq(Bytes)
  BY DEF Types
<1>2. CASE F!StartFrame
  <2>1. PICK p \in Packets : /\ sent' = Append(sent, p) /\ frame' = Frame(p)
                             /\ left' = Len(Frame(p)) /\ written' = 0
                             /\ UNCHANGED <<line, recv, buf, delivered, failed, strayed>>
    BY <1>2, SameFrames DEF F!StartFrame, F!recvVars
  <2>2. Frame(p) \in Seq(Bytes) /\ Len(Frame(p)) \in Nat
    BY FrameFacts
  <2>3. /\ sent' \in Seq(Packets) /\ Len(sent') = Len(sent) + 1 /\ sent'[Len(sent')] = p
    BY <1>1, <2>1, AppendProperties
  <2>4. Types'
    <3>1. failed' \subseteq 1 .. Len(sent') /\ strayed' \subseteq 1 .. Len(sent')
      BY <1>1, <2>1, <2>3 DEF Types
    <3>2. left' \in 0 .. Len(frame') /\ written' \in -1 .. Len(frame')
      BY <2>1, <2>2
    <3> QED BY <2>1, <2>2, <2>3, <3>1, <3>2 DEF Types
  <2>5. Sending'
    <3>1. Len(sent') \notin failed' /\ Len(sent') > 0
      BY <1>1, <2>1, <2>3 DEF Types
    <3>2. written' \in 0 .. Len(frame') - left'
      BY <2>1, <2>2
    <3> QED BY <2>1, <2>3, <3>1, <3>2 DEF Sending
  <2> QED BY <2>4, <2>5
<1>3. CASE F!Write
  <2>1. /\ left > 0
        /\ UNCHANGED <<frame, recv, buf, delivered, sent, failed>>
        /\ strayed' \subseteq strayed \cup {Len(sent)}
    BY <1>3 DEF F!Write, F!recvVars
  <2>2. PICK t \in 0 .. left : line' = line \o Part(t) /\ left' = left - t /\ written' = t
    BY <1>3 DEF F!Write, Part
  <2>3. /\ written \in 0 .. Len(frame) - left /\ Len(sent) > 0
        /\ frame = Frame(sent[Len(sent)]) /\ Len(sent) \notin failed
    BY <2>1 DEF Sending
  <2>4. line' \in Seq(Bytes)
    BY <1>1, <2>1, <2>2, PartFacts, ConcatProperties
  <2>5. /\ left' \in 0 .. Len(frame) /\ written' \in -1 .. Len(frame)
        /\ written' \in 0 .. Len(frame) - left'
    BY <1>1, <2>2
  <2>6. strayed' \subseteq 1 .. Len(sent)
    BY <1>1, <2>1, <2>3 DEF Types
  <2> QED BY <2>1, <2>3, <2>4, <2>5, <2>6 DEF Types, Sending
<1>4. CASE F!WriteFails
  <2>1. /\ left > 0 /\ left' = 0 /\ written' = -1 /\ failed' = failed \cup {Len(sent)}
        /\ UNCHANGED <<frame, line, recv, buf, delivered, sent, strayed>>
    BY <1>4 DEF F!WriteFails, F!recvVars
  <2>2. Len(sent) > 0
    BY <2>1 DEF Sending
  <2>3. failed' \subseteq 1 .. Len(sent)
    <3>1. failed \subseteq 1 .. Len(sent) /\ Len(sent) \in 1 .. Len(sent)
      BY <1>1, <2>2 DEF Types
    <3> QED BY <2>1, <3>1
  <2>4. left' \in 0 .. Len(frame) /\ written' \in -1 .. Len(frame) /\ ~ left' > 0
    BY <1>1, <2>1
  <2> QED BY <2>1, <2>3, <2>4 DEF Types, Sending
<1>5. CASE F!Recv
  <2>1. /\ line # <<>> /\ line' = Tail(line)
        /\ F!RecvIdle(Head(line)) \/ F!RecvData(Head(line)) \/ F!RecvEscaped(Head(line))
        /\ UNCHANGED <<frame, left, written, sent, failed, strayed>>
    BY <1>5 DEF F!Recv, F!sendVars
  <2>2. Head(line) \in Bytes /\ line' \in Seq(Bytes)
    BY <1>1, <2>1, HeadTailProperties
  <2>3. /\ recv' \in {"IDLE", "DATA", "7D"} /\ delivered' \in Seq(Seq(Bytes))
        /\ buf' \in Seq(Bytes)
    BY <2>1, <2>2, RecvTypes
  <2> QED BY <2>1, <2>2, <2>3 DEF Types, Sending
<1>6. CASE UNCHANGED F!vars
  BY <1>6 DEF F!vars, F!sendVars, F!recvVars, Types, Sending
<1> QED BY <1>2, <1>3, <1>4, <1>5, <1>6 DEF F!Next

(* What follows the first c bytes is of the frame of the j-th packet. *)
Follows(S, start, c, j) ==
  /\ j \in 1 .. Len(sent) /\ start[j] <= c /\ c < start[j + 1]
  /\ S[c + 1] = Frame(sent[j])[c - start[j] + 1]

(* The next byte is of the frame of some packet. *)
LEMMA NextByte ==
  ASSUME EndTypes, NEW S, NEW start, Framed(S, start), NEW c, c \in Nat, c < Len(S)
  PROVE  \E j : Follows(S, start, c, j)
<1> DEFINE After == {j \in 1 .. Len(sent) : c < start[j + 1]}
<1>1. Len(sent) \in Nat
  BY DEF EndTypes, Types
<1>2. /\ start \in [1 .. Len(sent) + 1 -> Nat] /\ start[1] = 0 /\ start[Len(sent) + 1] = Len(S)
      /\ \A j \in 1 .. Len(sent) :
           \A q \in 1 .. start[j + 1] - start[j] : S[start[j] + q] = Frame(sent[j])[q]
  BY DEF Framed
<1>3. Len(sent) \in After
  BY <1>1, <1>2
<1>4. After \in SUBSET Nat
  BY <1>1
<1>5. PICK j \in After : \A l \in After : j <= l
  BY <1>3, <1>4, LeastNatural
<1>6. j \in 1 .. Len(sent) /\ c < start[j + 1] /\ j \in Nat
  BY <1>4, <1>5
<1>7. start[j] <= c
  <2>1. CASE j = 1
    BY <1>2, <2>1
  <2>2. CASE j > 1
    <3>1. j - 1 \in 1 .. Len(sent) /\ j - 1 \notin After /\ (j - 1) + 1 = j
      <4>1. j - 1 \in 1 .. Len(sent) /\ (j - 1) + 1 = j /\ ~ j <= j - 1
        BY <1>1, <1>6, <2>2
      <4> HIDE DEF After
      <4> QED BY <1>5, <4>1
    <3>2. ~ c < start[j] /\ start[j] \in Nat
      BY <1>1, <1>2, <1>6, <3>1
    <3> QED BY <3>2
  <2> QED BY <1>6, <2>1, <2>2
<1>8. start[j] \in Nat /\ start[j + 1] \in Nat
  BY <1>1, <1>2, <1>6
<1> DEFINE q == c - start[j] + 1
<1>9. q \in 1 .. start[j + 1] - start[j] /\ start[j] + q = c + 1
  <2>1. c \in Nat /\ start[j] <= c /\ c < start[j + 1]
    BY <1>6, <1>7
  <2> QED BY <1>8, <2>1
<1>10. S[start[j] + q] = Frame(sent[j])[q]
  <2> HIDE DEF q
  <2> QED BY <1>2, <1>6, <1>9
<1> QED BY <1>6, <1>7, <1>9, <1>10 DEF Follows

(* The next byte is of the frame being read, unless that ends here. *)
LEMMA SameFrame ==
  ASSUME EndTypes, NEW S, NEW start, Framed(S, start), NEW c \in Nat,
         NEW j \in 1 .. Len(sent), start[j] <= c, c < start[j + 1],
         NEW k \in 1 .. Len(sent), start[k] < c, c <= start[k + 1]
  PROVE  j = k \/ (j > k /\ c = start[k + 1] /\ start[j] = c)
<1>1. Len(sent) \in Nat
  BY DEF EndTypes, Types
<1>2. /\ start \in [1 .. Len(sent) + 1 -> Nat]
      /\ \A i \in 1 .. Len(sent) + 1, l \in 1 .. Len(sent) + 1 : i <= l => start[i] <= start[l]
  BY DEF Framed
<1>3. /\ j \in 1 .. Len(sent) + 1 /\ j + 1 \in 1 .. Len(sent) + 1
      /\ k \in 1 .. Len(sent) + 1 /\ k + 1 \in 1 .. Len(sent) + 1
  BY <1>1
<1>4. start[j] \in Nat /\ start[j + 1] \in Nat /\ start[k] \in Nat /\ start[k + 1] \in Nat
  BY <1>2, <1>3
<1>5. CASE j < k
  <2>1. start[j + 1] <= start[k]
    BY <1>2, <1>3, <1>5
  <2> QED BY <1>4, <2>1
<1>6. CASE j > k
  <2>1. start[k + 1] <= start[j]
    BY <1>2, <1>3, <1>6
  <2> QED BY <1>4, <1>6, <2>1
<1> QED BY <1>5, <1>6

(* At first nothing is sent and nothing taken. *)
LEMMA InitFrameInv == F!Init => FrameInv
<1> SUFFICES ASSUME F!Init PROVE FrameInv
  OBVIOUS
<1>1. /\ frame = <<>> /\ left = 0 /\ written = 0 /\ line = <<>>
      /\ recv = "IDLE" /\ buf = <<>> /\ delivered = <<>> /\ sent = <<>> /\ failed = {}
      /\ strayed = {} /\ Len(<<>>) = 0
  BY DEF F!Init
<1>2. EndTypes
  <2>1. PICK p \in Packets : Len(p) \in Nat
    BY PacketsOK, BodyFacts
  <2> QED BY <1>1, <2>1 DEF EndTypes, Types
<1> DEFINE start == [i \in 1 .. 1 |-> 0]
<1>3. start \in [1 .. 1 -> Nat] /\ start[1] = 0
  OBVIOUS
<1> HIDE DEF start
<1>4. Framed(<<>>, start)
  BY <1>1, <1>3 DEF Framed
<1>5. Received(<<>>, start, 0)
  <2>1. SubSeq(<<>>, 0 + 1, 0) = <<>> /\ SubSeq(sent, 1, 0) = <<>>
    BY SubSeqEmpty
  <2>2. Between(start, 0)
    BY <1>1, <1>3, <2>1 DEF Between
  <2> QED BY <1>1, <2>1, <2>2 DEF Received
<1> QED BY <1>1, <1>2, <1>4, <1>5 DEF FrameInv, Sending

(* A new frame: nothing of it is on the line yet. *)
LEMMA StartFrameInv == FrameInv /\ F!StartFrame => FrameInv'
<1>0. SUFFICES ASSUME FrameInv, F!StartFrame PROVE FrameInv'
  OBVIOUS
<1>1. PICK p \in Packets : /\ sent' = Append(sent, p) /\ frame' = Frame(p)
                           /\ left = 0 /\ left' = Len(Frame(p)) /\ written' = 0
                           /\ line' = line /\ recv' = recv /\ buf' = buf
                           /\ delivered' = delivered /\ failed' = failed
                           /\ strayed' = strayed
  BY <1>0, SameFrames DEF F!StartFrame, F!recvVars
<1>2. EndTypes
  BY <1>0 DEF FrameInv
<1>3. PICK S, start, c : Framed(S, start) /\ Received(S, start, c)
  BY <1>0 DEF FrameInv
<1> DEFINE n == Len(sent)
<1>4. /\ n \in Nat /\ sent \in Seq(Packets)
      /\ sent' \in Seq(Packets) /\ Len(sent') = n + 1
      /\ sent'[n + 1] = p /\ \A j \in 1 .. n : sent'[j] = sent[j]
  BY <1>1, <1>2 DEF EndTypes, Types
<1>5. /\ Frame(p) \in Seq(Bytes) /\ Len(Frame(p)) \in Nat /\ Len(Frame(p)) >= 2
  BY FrameFacts
<1>6. \A k \in 0 .. n : SubSeq(sent', 1, k) = SubSeq(sent, 1, k)
  <2> SUFFICES ASSUME NEW k \in 0 .. n PROVE SubSeq(sent', 1, k) = SubSeq(sent, 1, k)
    OBVIOUS
  <2>1. \A j \in 1 .. k : sent[j] \in Packets /\ sent'[j] = sent[j]
    BY <1>4
  <2> QED BY <1>4, <2>1
<1> HIDE DEF n
<1>7. Types' /\ Sending'
  BY <1>0, TypesStep DEF FrameInv, EndTypes, F!Next
<1>8. EndTypes'
  BY <1>1, <1>2, <1>7 DEF EndTypes
<1>9. /\ S \in Seq(Bytes) /\ Len(S) \in Nat /\ start \in [1 .. n + 1 -> Nat]
      /\ start[1] = 0 /\ start[n + 1] = Len(S)
      /\ \A i \in 1 .. n + 1, j \in 1 .. n + 1 : i <= j => start[i] <= start[j]
      /\ \A j \in 1 .. n :
           /\ start[j + 1] - start[j] <= Len(Frame(sent[j]))
           /\ \A q \in 1 .. start[j + 1] - start[j] : S[start[j] + q] = Frame(sent[j])[q]
           /\ j \notin failed => start[j + 1] - start[j]
                                   = Len(Frame(sent[j])) - (IF j = n THEN left ELSE 0)
  <2>1. S \in Seq(Bytes) /\ Framed(S, start)
    BY <1>3 DEF Framed
  <2>2. Len(S) \in Nat
    BY <2>1
  <2> QED BY <2>1, <2>2 DEF Framed, n
<1>10. PICK start2 \in [1 .. n + 2 -> Nat] :
         start2[n + 2] = Len(S) /\ \A i \in 1 .. n + 1 : start2[i] = start[i]
  <2> DEFINE f == [i \in 1 .. n + 2 |-> IF i = n + 2 THEN Len(S) ELSE start[i]]
  <2>1. f \in [1 .. n + 2 -> Nat] /\ f[n + 2] = Len(S) /\ \A i \in 1 .. n + 1 : f[i] = start[i]
    BY <1>4, <1>9
  <2> HIDE DEF f
  <2> QED BY <2>1
<1>11. \A k \in 1 .. n : k \in 1 .. n + 1 /\ start2[k] = start[k] /\ start2[k + 1] = start[k + 1]
  <2> SUFFICES ASSUME NEW k \in 1 .. n
               PROVE  k \in 1 .. n + 1 /\ start2[k] = start[k] /\ start2[k + 1] = start[k + 1]
    OBVIOUS
  <2>1. k \in 1 .. n + 1 /\ k + 1 \in 1 .. n + 1
    BY <1>4
  <2> QED BY <1>10, <2>1
<1>12. Framed(S, start2)'
  <2>1. start2[1] = 0
    BY <1>4, <1>9, <1>10
  <2>2. ASSUME NEW i \in 1 .. n + 2, NEW j \in 1 .. n + 2, i <= j PROVE start2[i] <= start2[j]
    <3>1. CASE j \in 1 .. n + 1
      <4>1. i \in 1 .. n + 1
        BY <1>4, <2>2, <3>1
      <4> QED BY <1>9, <1>10, <2>2, <3>1, <4>1
    <3>2. CASE j = n + 2 /\ i \in 1 .. n + 1
      <4>1. start[i] <= start[n + 1]
        BY <1>4, <1>9, <3>2
      <4> QED BY <1>9, <1>10, <3>2, <4>1
    <3>3. CASE j = n + 2 /\ i = n + 2
      BY <1>9, <1>10, <3>3
    <3> QED BY <1>4, <3>1, <3>2, <3>3
  <2>3. ASSUME NEW j \in 1 .. n + 1
        PROVE  /\ start2[j + 1] - start2[j] <= Len(Frame(sent'[j]))
               /\ \A q \in 1 .. start2[j + 1] - start2[j] : S[start2[j] + q] = Frame(sent'[j])[q]
               /\ j \notin failed => start2[j + 1] - start2[j]
                                       = Len(Frame(sent'[j])) - (IF j = n + 1 THEN left' ELSE 0)
    <3>1. CASE j \in 1 .. n
      <4>1. start2[j + 1] = start[j + 1] /\ start2[j] = start[j] /\ sent'[j] = sent[j] /\ j # n + 1
        BY <1>4, <1>10, <3>1
      <4> QED BY <1>1, <1>9, <3>1, <4>1
    <3>2. CASE j = n + 1
      <4>1. start2[j + 1] = Len(S) /\ start2[j] = Len(S) /\ sent'[j] = p
        BY <1>4, <1>9, <1>10, <3>2
      <4>2. start2[j + 1] - start2[j] = 0
        BY <1>9, <4>1
      <4>3. Len(Frame(p)) - left' = 0 /\ 0 <= Len(Frame(p))
        BY <1>1, <1>5
      <4>4. Len(Frame(sent'[j])) - (IF j = n + 1 THEN left' ELSE 0) = 0 /\ 0 <= Len(Frame(sent'[j]))
        BY <3>2, <4>1, <4>3
      <4>5. \A q \in 1 .. start2[j + 1] - start2[j] : S[start2[j] + q] = Frame(sent'[j])[q]
        <5> SUFFICES ASSUME NEW q \in 1 .. start2[j + 1] - start2[j] PROVE FALSE
          OBVIOUS
        <5> QED BY <4>2
      <4>6. start2[j + 1] - start2[j] <= Len(Frame(sent'[j]))
        BY <4>2, <4>4
      <4>7. start2[j + 1] - start2[j] = Len(Frame(sent'[j])) - (IF j = n + 1 THEN left' ELSE 0)
        BY <4>2, <4>4
      <4> QED BY <4>5, <4>6, <4>7
    <3>3. j \in 1 .. n \/ j = n + 1
      BY <1>4
    <3> QED BY <3>1, <3>2, <3>3
  <2>4. Len(sent') + 1 = n + 2 /\ Len(sent') = n + 1
    BY <1>4
  <2>5. S \in Seq(Bytes) /\ start2 \in [1 .. n + 2 -> Nat] /\ start2[n + 2] = Len(S)
    BY <1>9, <1>10
  <2>6. \A j \in 1 .. n + 1 :
          /\ start2[j + 1] - start2[j] <= Len(Frame(sent'[j]))
          /\ \A q \in 1 .. start2[j + 1] - start2[j] : S[start2[j] + q] = Frame(sent'[j])[q]
          /\ j \notin failed' => start2[j + 1] - start2[j]
                                   = Len(Frame(sent'[j])) - (IF j = n + 1 THEN left' ELSE 0)
    BY <1>1, <2>3
  <2> QED BY <2>1, <2>2, <2>4, <2>5, <2>6 DEF Framed
<1>13. Received(S, start2, c)'
  <2>1. c \in 0 .. Len(S) /\ line' = SubSeq(S, c + 1, Len(S))
    BY <1>1, <1>3 DEF Received
  <2>2. ASSUME Between(start, c) PROVE Between(start2, c)'
    <3> SUFFICES ASSUME failed = {}
                 PROVE  \E k \in 0 .. Len(sent') : /\ c = start2[k + 1] /\ (k = Len(sent') => left' = 0)
                                                   /\ delivered = SubSeq(sent', 1, k)
      BY <1>1, <2>2 DEF Between
    <3>1. PICK k \in 0 .. n : c = start[k + 1] /\ delivered = SubSeq(sent, 1, k)
      BY <2>2 DEF Between, n
    <3>2. k \in 0 .. Len(sent') /\ k # Len(sent') /\ start2[k + 1] = start[k + 1]
      BY <1>4, <1>10, <3>1
    <3> QED BY <1>6, <3>1, <3>2
  <2>3. ASSUME Inside(start, c) PROVE Inside(start2, c)'
    <3>1. PICK k \in 1 .. n : \E o \in 1 .. start[k + 1] - start[k] :
                 /\ c = start[k] + o /\ Reading(sent[k], o, recv, buf)
                 /\ failed = {} => delivered = SubSeq(sent, 1, k - 1)
      BY <2>3 DEF Inside, n
    <3>2. /\ k \in 1 .. Len(sent') /\ start2[k + 1] = start[k + 1] /\ start2[k] = start[k]
          /\ sent'[k] = sent[k] /\ k - 1 \in 0 .. n
      <4>1. k \in 1 .. n + 1 /\ k - 1 \in 0 .. n
        BY <1>4, <3>1
      <4> QED BY <1>4, <1>11, <3>1, <4>1
    <3>3. SubSeq(sent', 1, k - 1) = SubSeq(sent, 1, k - 1)
      BY <1>6, <3>2 DEF n
    <3>4. PICK o \in 1 .. start[k + 1] - start[k] :
                 /\ c = start[k] + o /\ Reading(sent[k], o, recv, buf)
                 /\ failed = {} => delivered = SubSeq(sent, 1, k - 1)
      BY <3>1
    <3>5. Reading(sent'[k], o, recv', buf')
      BY <1>1, <3>2, <3>4
    <3> QED BY <1>1, <3>2, <3>3, <3>4, <3>5 DEF Inside
  <2>4. ASSUME Misled(start, c) PROVE Misled(start2, c)'
    <3>1. PICK k \in 1 .. n : c = start[k + 1] /\ c = start[k] + Len(Frame(sent[k]))
      BY <2>4 DEF Misled, n
    <3>2. /\ k \in 1 .. Len(sent') /\ start2[k + 1] = start[k + 1] /\ start2[k] = start[k]
          /\ sent'[k] = sent[k]
      BY <1>4, <1>11, <3>1
    <3> QED BY <1>1, <2>4, <3>1, <3>2 DEF Misled
  <2> QED BY <1>3, <2>1, <2>2, <2>3, <2>4 DEF Received
<1> QED BY <1>7, <1>8, <1>12, <1>13 DEF FrameInv

(* What the receiver has not taken yet, and what it becomes when bytes are written. *)
LEMMA RestOf ==
  ASSUME NEW S \in Seq(Bytes), NEW c \in 0 .. Len(S)
  PROVE  LET u == SubSeq(S, c + 1, Len(S))
         IN  /\ u \in Seq(Bytes) /\ Len(u) = Len(S) - c
             /\ \A q \in 1 .. Len(S) - c : u[q] = S[c + q]
<1> DEFINE u == SubSeq(S, c + 1, Len(S))
<1>1. Len(S) \in Nat /\ c \in Nat /\ c <= Len(S)
  OBVIOUS
<1>2. \A q \in c + 1 .. Len(S) : S[q] \in Bytes
  BY <1>1, ElementOfSeq
<1>3. /\ u \in Seq(Bytes)
      /\ Len(u) = IF c + 1 <= Len(S) THEN Len(S) - (c + 1) + 1 ELSE 0
      /\ \A q \in 1 .. Len(S) - (c + 1) + 1 : u[q] = S[(c + 1) + q - 1]
  BY <1>1, <1>2, SubSeqProperties
<1> HIDE DEF u
<1>4. Len(S) - (c + 1) + 1 = Len(S) - c /\ (~ c + 1 <= Len(S) => Len(S) - c = 0)
  BY <1>1
<1>5. \A q \in 1 .. Len(S) - c : (c + 1) + q - 1 = c + q
  BY <1>1
<1> QED BY <1>3, <1>4, <1>5 DEF u

(* Bytes that are written come behind what is on the line. *)
LEMMA RestGrows ==
  ASSUME NEW S \in Seq(Bytes), NEW c \in 0 .. Len(S), NEW part \in Seq(Bytes)
  PROVE  SubSeq(S, c + 1, Len(S)) \o part = SubSeq(S \o part, c + 1, Len(S \o part))
<1> DEFINE V == S \o part
           u == SubSeq(S, c + 1, Len(S))
           w == SubSeq(V, c + 1, Len(V))
<1>1. Len(S) \in Nat /\ c \in Nat /\ c <= Len(S) /\ Len(part) \in Nat
  OBVIOUS
<1>2. /\ V \in Seq(Bytes) /\ Len(V) = Len(S) + Len(part)
      /\ \A q \in 1 .. Len(S) + Len(part) : V[q] = IF q <= Len(S) THEN S[q] ELSE part[q - Len(S)]
  BY ConcatProperties
<1>3. /\ u \in Seq(Bytes) /\ Len(u) = Len(S) - c
      /\ \A q \in 1 .. Len(S) - c : u[q] = S[c + q]
  BY RestOf
<1>4. /\ w \in Seq(Bytes) /\ Len(w) = Len(V) - c
      /\ \A q \in 1 .. Len(V) - c : w[q] = V[c + q]
  <2>1. c \in 0 .. Len(V)
    BY <1>1, <1>2
  <2> QED BY <1>2, <2>1, RestOf
<1> HIDE DEF u, w
<1>5. /\ u \o part \in Seq(Bytes) /\ Len(u \o part) = Len(u) + Len(part)
      /\ \A q \in 1 .. Len(u) + Len(part) :
           (u \o part)[q] = IF q <= Len(u) THEN u[q] ELSE part[q - Len(u)]
  BY <1>3, ConcatProperties
<1>6. Len(u \o part) = Len(w)
  BY <1>1, <1>2, <1>3, <1>4, <1>5
<1>7. ASSUME NEW q \in 1 .. Len(u \o part) PROVE (u \o part)[q] = w[q]
  <2>1. /\ q \in 1 .. Len(u) + Len(part) /\ w[q] = V[c + q] /\ q \in Nat /\ q >= 1
        /\ q <= Len(S) - c + Len(part)
    BY <1>1, <1>2, <1>3, <1>4, <1>5
  <2>2. V[c + q] = IF c + q <= Len(S) THEN S[c + q] ELSE part[(c + q) - Len(S)]
    <3>1. c + q \in 1 .. Len(S) + Len(part)
      BY <1>1, <2>1
    <3> QED BY <1>2, <3>1
  <2>3. CASE q <= Len(u)
    <3>1. q \in 1 .. Len(S) - c /\ c + q <= Len(S)
      BY <1>1, <1>3, <2>1, <2>3
    <3> QED BY <1>3, <1>5, <2>1, <2>2, <2>3, <3>1
  <2>4. CASE ~ q <= Len(u)
    <3>1. (c + q) - Len(S) = q - Len(u) /\ ~ c + q <= Len(S)
      BY <1>1, <1>3, <2>1, <2>4
    <3> QED BY <1>5, <2>1, <2>2, <2>4, <3>1
  <2> QED BY <2>3, <2>4
<1>8. u \o part = w
  BY <1>4, <1>5, <1>6, <1>7, SeqEqual
<1> QED BY <1>8 DEF u, w

(* write takes the next bytes of the frame, from where the call before stopped. *)
LEMMA WritePart ==
  ASSUME FrameInv, NEW t \in 1 .. left, written = Len(frame) - left,
         line' = line \o Part(t), left' = left - t,
         UNCHANGED <<frame, recv, buf, delivered, sent, failed>>,
         Types', Sending'
  PROVE  FrameInv'
<1>1. /\ line' = line \o Part(t) /\ left' = left - t /\ frame' = frame /\ recv' = recv
      /\ buf' = buf /\ delivered' = delivered /\ sent' = sent /\ failed' = failed
  OBVIOUS
<1>2. EndTypes /\ Sending
  BY DEF FrameInv
<1>3. PICK S, start, c : Framed(S, start) /\ Received(S, start, c)
  BY DEF FrameInv
<1> DEFINE n == Len(sent)
           p == sent[n]
<1>4. /\ n \in Nat /\ n > 0 /\ n \in 1 .. n /\ p \in Packets /\ sent \in Seq(Packets)
      /\ frame = Frame(p) /\ n \notin failed
      /\ left \in Nat /\ left > 0 /\ t \in Nat /\ 1 <= t /\ t <= left
      /\ written = Len(frame) - left /\ Len(frame) \in Nat /\ left <= Len(frame)
  <2>1. left \in Nat /\ left > 0
    BY <1>2 DEF EndTypes, Types
  <2>2. n \in Nat /\ n > 0 /\ sent \in Seq(Packets) /\ frame \in Seq(Bytes) /\ Len(frame) \in Nat
    BY <1>2, <2>1 DEF EndTypes, Types, Sending
  <2>3. p \in Packets
    BY <2>2
  <2> QED BY <1>2, <2>1, <2>2, <2>3 DEF EndTypes, Types, Sending
<1>5. /\ Frame(p) \in Seq(Bytes) /\ Len(Frame(p)) \in Nat
  BY <1>4, FrameFacts
<1> DEFINE part == Part(t)
           S2 == S \o part
<1>6. /\ part \in Seq(Bytes) /\ Len(part) = t
      /\ \A q \in 1 .. t : part[q] = frame[written + q]
  <2>1. Types /\ Sending /\ left > 0 /\ t \in 0 .. left
    BY <1>2, <1>4 DEF EndTypes
  <2> HIDE DEF S2, p, n
  <2> QED BY <2>1, PartFacts
<1>7. /\ S \in Seq(Bytes) /\ Len(S) \in Nat /\ start \in [1 .. n + 1 -> Nat]
      /\ start[1] = 0 /\ start[n + 1] = Len(S)
      /\ \A i \in 1 .. n + 1, j \in 1 .. n + 1 : i <= j => start[i] <= start[j]
      /\ \A j \in 1 .. n :
           /\ start[j + 1] - start[j] <= Len(Frame(sent[j]))
           /\ \A q \in 1 .. start[j + 1] - start[j] : S[start[j] + q] = Frame(sent[j])[q]
           /\ j \notin failed => start[j + 1] - start[j]
                                   = Len(Frame(sent[j])) - (IF j = n THEN left ELSE 0)
  BY <1>3 DEF Framed
<1> HIDE DEF n, p, part
<1>8. /\ start[1] = 0 /\ start[n + 1] = Len(S) /\ start \in [1 .. n + 1 -> Nat] /\ Len(S) \in Nat
      /\ \A i \in 1 .. n + 1, j \in 1 .. n + 1 : i <= j => start[i] <= start[j]
  BY <1>7
<1>9. /\ left \in Nat /\ t \in Nat /\ 1 <= t /\ t <= left /\ Len(frame) \in Nat
      /\ left <= Len(frame) /\ written = Len(frame) - left /\ left' = left - t
      /\ n \in Nat /\ n > 0 /\ Len(S) \in Nat
  BY <1>1, <1>4, <1>7
<1>10. /\ S2 \in Seq(Bytes) /\ Len(S2) = Len(S) + t
       /\ \A q \in 1 .. Len(S) : S2[q] = S[q]
       /\ \A q \in 1 .. t : S2[Len(S) + q] = part[q]
  <2>1. /\ S2 \in Seq(Bytes) /\ Len(S2) = Len(S) + Len(part)
        /\ \A q \in 1 .. Len(S) + Len(part) : S2[q] = IF q <= Len(S) THEN S[q] ELSE part[q - Len(S)]
    <3>1. S \in Seq(Bytes) /\ part \in Seq(Bytes)
      BY <1>6, <1>7
    <3> QED BY <3>1, ConcatProperties
  <2> HIDE DEF S2
  <2>2. S2 \in Seq(Bytes) /\ Len(S2) = Len(S) + t
    BY <1>6, <2>1
  <2>3. \A q \in 1 .. Len(S) : S2[q] = S[q]
    BY <1>6, <1>9, <2>1
  <2>4. ASSUME NEW q \in 1 .. t PROVE S2[Len(S) + q] = part[q]
    <3>1. Len(S) + q \in 1 .. Len(S) + t /\ ~ Len(S) + q <= Len(S) /\ (Len(S) + q) - Len(S) = q
      BY <1>9
    <3> QED BY <1>6, <2>1, <3>1
  <2> QED BY <2>2, <2>3, <2>4
<1>11. PICK V : V = S2
  OBVIOUS
<1> HIDE DEF S2
<1>12. PICK start2 :
         start2 \in [1 .. n + 1 -> Nat] /\ start2[n + 1] = Len(S) + t /\ \A i \in 1 .. n : start2[i] = start[i]
  <2> DEFINE f == [i \in 1 .. n + 1 |-> IF i = n + 1 THEN Len(S) + t ELSE start[i]]
  <2>1. f \in [1 .. n + 1 -> Nat] /\ f[n + 1] = Len(S) + t /\ \A i \in 1 .. n : f[i] = start[i]
    BY SMTT(30), <1>4, <1>7
  <2> HIDE DEF f
  <2> QED BY <2>1
<1>13. EndTypes' /\ Sending'
  BY <1>2 DEF EndTypes
<1>15. \A k \in 1 .. n : /\ k \in 1 .. n + 1 /\ start2[k] = start[k]
                         /\ k < n => start2[k + 1] = start[k + 1]
                         /\ k = n => start2[k + 1] = start[k + 1] + t
                         /\ start[k] \in Nat /\ start[k + 1] \in Nat
                         /\ start[k + 1] <= Len(S)
  <2> SUFFICES ASSUME NEW k \in 1 .. n
               PROVE  /\ k \in 1 .. n + 1 /\ start2[k] = start[k]
                      /\ k < n => start2[k + 1] = start[k + 1]
                      /\ k = n => start2[k + 1] = start[k + 1] + t
                      /\ start[k] \in Nat /\ start[k + 1] \in Nat
                      /\ start[k + 1] <= Len(S)
    OBVIOUS
  <2>1. k \in 1 .. n + 1 /\ k + 1 \in 1 .. n + 1 /\ (k < n => k + 1 \in 1 .. n) /\ n + 1 \in 1 .. n + 1
        /\ k + 1 <= n + 1
    BY <1>4
  <2> QED BY <1>7, <1>12, <2>1
<1>16. start[n + 1] - start[n] = Len(frame) - left /\ start[n + 1] = Len(S)
       /\ start[n] \in Nat /\ start[n] + (Len(frame) - left) = Len(S)
  <2>1. start[n + 1] - start[n] = Len(Frame(sent[n])) - left
    BY <1>4, <1>7
  <2>2. start[n] \in Nat /\ start[n + 1] \in Nat
    BY <1>4, <1>15
  <2>3. Len(Frame(sent[n])) = Len(frame)
    BY <1>4 DEF p
  <2> QED BY <1>8, <1>9, <2>1, <2>2, <2>3
<1>17. PICK base, len, rest, rest2, all :
         base = start[n] /\ len = Len(frame) /\ rest = left /\ rest2 = left' /\ all = Len(S)
  OBVIOUS
<1>18. \A e \in 1 .. t : V[all + e] = part[e]
  <2> SUFFICES ASSUME NEW e \in 1 .. t PROVE V[all + e] = part[e]
    OBVIOUS
  <2>1. S2[Len(S) + e] = part[e]
    BY <1>10
  <2>2. all = Len(S)
    BY <1>17
  <2>3. all + e = Len(S) + e
    BY <2>2
  <2> QED BY <1>11, <2>1, <2>3
<1>19. /\ base \in Nat /\ len \in Nat /\ rest \in Nat /\ rest2 \in Nat /\ all \in Nat
       /\ t \in Nat /\ 1 <= t /\ t <= rest /\ rest <= len /\ rest2 = rest - t
       /\ base + (len - rest) = all
  <2>1. left' \in Nat
    BY <1>9
  <2> QED BY <1>9, <1>16, <1>17, <2>1
<1>20. Framed(V, start2)'
  <2>1. start2[1] = 0
    BY <1>12, <1>8, <1>9
  <2>2. ASSUME NEW i \in 1 .. n + 1, NEW j \in 1 .. n + 1, i <= j PROVE start2[i] <= start2[j]
    <3>1. CASE j \in 1 .. n
      <4>1. i \in 1 .. n
        BY <1>4, <2>2, <3>1
      <4>2. start2[i] = start[i] /\ start2[j] = start[j]
        BY <1>12, <3>1, <4>1
      <4> QED BY <1>7, <2>2, <4>2
    <3>2. CASE j = n + 1 /\ i \in 1 .. n
      <4>1. start[i] <= start[n + 1] /\ start[i] \in Nat /\ start2[i] = start[i]
        <5>1. i \in 1 .. n + 1 /\ n + 1 \in 1 .. n + 1 /\ i <= n + 1
          BY <1>9, <3>2
        <5> QED BY <1>12, <1>8, <3>2, <5>1
      <4> QED BY <1>12, <1>8, <1>9, <3>2, <4>1
    <3>3. CASE j = n + 1 /\ i = n + 1
      BY <1>12, <1>9, <3>3
    <3> QED BY <1>4, <3>1, <3>2, <3>3
  <2>3. ASSUME NEW j \in 1 .. n
        PROVE  /\ start2[j + 1] - start2[j] <= Len(Frame(sent[j]))
               /\ \A q \in 1 .. start2[j + 1] - start2[j] : V[start2[j] + q] = Frame(sent[j])[q]
               /\ j \notin failed => start2[j + 1] - start2[j]
                                       = Len(Frame(sent[j])) - (IF j = n THEN left' ELSE 0)
    <3>1. CASE j < n
      <4>1. start2[j + 1] = start[j + 1] /\ start2[j] = start[j] /\ j # n
        BY <1>15, <3>1
      <4>2. \A q \in 1 .. start[j + 1] - start[j] : V[start[j] + q] = S[start[j] + q]
        <5> SUFFICES ASSUME NEW q \in 1 .. start[j + 1] - start[j]
                     PROVE  V[start[j] + q] = S[start[j] + q]
          OBVIOUS
        <5>1. start[j] + q \in 1 .. Len(S)
          BY SMTT(30), <1>7, <1>15
        <5> QED BY <1>10, <1>11, <5>1
      <4>3. /\ start[j + 1] - start[j] <= Len(Frame(sent[j]))
            /\ \A q \in 1 .. start[j + 1] - start[j] : V[start[j] + q] = Frame(sent[j])[q]
        BY <1>7, <4>2
      <4>4. j \notin failed => start[j + 1] - start[j] = Len(Frame(sent[j])) - 0
        BY <1>7, <4>1
      <4> QED BY <4>1, <4>3, <4>4
    <3>2. CASE j = n
      <4>1. start2[j + 1] = Len(S) + t /\ start2[j] = start[n] /\ Frame(sent[j]) = frame
        BY <1>4, <1>12, <3>2 DEF p
      <4>2. start2[j + 1] - start2[j] = len - rest2 /\ len - rest2 <= len
        <5>1. start2[j + 1] = all + t /\ start2[j] = base
          BY <4>1, <1>17
        <5> QED BY <1>19, <5>1
      <4>3. ASSUME NEW q \in 1 .. len - rest2 PROVE V[base + q] = frame[q]
        <5>1. CASE q <= len - rest
          <6>1. base + q \in 1 .. all /\ q \in 1 .. len - rest
            BY <1>19, <5>1
          <6>2. S[base + q] = frame[q]
            <7>1. start[n + 1] - start[n] = len - rest
              BY <1>16, <1>17
            <7>2. S[start[n] + q] = Frame(sent[n])[q]
              BY <1>4, <1>7, <6>1, <7>1
            <7> QED BY <1>4, <1>17, <7>2 DEF p
          <6>3. V[base + q] = S[base + q]
            BY <1>10, <1>11, <1>17, <6>1
          <6> QED BY <6>2, <6>3
        <5>2. CASE q > len - rest
          <6> DEFINE d == q - (len - rest)
          <6>1. d \in 1 .. t /\ base + q = all + d /\ (len - rest) + d = q
            BY <1>19, <5>2
          <6> HIDE DEF d
          <6>2. V[all + d] = part[d]
            <7>1. d \in 1 .. t
              BY <6>1
            <7> QED BY <1>18, <7>1
          <6>3. part[d] = frame[written + d] /\ written = len - rest
            BY <1>6, <1>9, <1>17, <6>1
          <6> QED BY <6>1, <6>2, <6>3
        <5> QED BY <1>19, <5>1, <5>2
      <4>4. /\ start2[j + 1] - start2[j] <= Len(Frame(sent[j]))
            /\ start2[j + 1] - start2[j] = Len(Frame(sent[j])) - left'
        BY <1>17, <4>1, <4>2
      <4>5. \A q \in 1 .. start2[j + 1] - start2[j] : V[start2[j] + q] = Frame(sent[j])[q]
        BY <1>17, <4>1, <4>2, <4>3
      <4> QED BY <3>2, <4>4, <4>5
    <3>3. j < n \/ j = n
      BY <1>9
    <3> QED BY <3>1, <3>2, <3>3
  <2>4. V \in Seq(Bytes) /\ start2[n + 1] = Len(V)
    BY <1>10, <1>11, <1>12
  <2>5. start2 \in [1 .. n + 1 -> Nat]
    BY <1>12
  <2> QED BY <1>1, <2>1, <2>2, <2>3, <2>4, <2>5 DEF Framed, n
<1>21. c \in 0 .. Len(S) /\ line = SubSeq(S, c + 1, Len(S))
  BY <1>3 DEF Received
<1>22. line' = SubSeq(V, c + 1, Len(V))
  <2>1. line' = SubSeq(S, c + 1, Len(S)) \o part
    BY <1>1, <1>21 DEF part
  <2>2. part \in Seq(Bytes) /\ V = S \o part
    BY <1>6, <1>11 DEF S2
  <2>3. S \in Seq(Bytes)
    BY <1>7
  <2>4. \A a \in Seq(Bytes), b \in Seq(Bytes) : \A d \in 0 .. Len(a) :
          SubSeq(a, d + 1, Len(a)) \o b = SubSeq(a \o b, d + 1, Len(a \o b))
    <3>1. TAKE a \in Seq(Bytes), b \in Seq(Bytes)
    <3>2. TAKE d \in 0 .. Len(a)
    <3> QED BY RestGrows
  <2>5. SubSeq(S, c + 1, Len(S)) \o part = SubSeq(S \o part, c + 1, Len(S \o part))
    BY <1>21, <2>2, <2>3, <2>4
  <2> QED BY <2>1, <2>2, <2>5
<1>23. Received(V, start2, c)'
  <2>1. c \in 0 .. Len(V)
    BY SMTT(30), <1>4, <1>7, <1>10, <1>11, <1>21
  <2>2. ASSUME Between(start, c) PROVE Between(start2, c)'
    <3> SUFFICES ASSUME failed = {}
                 PROVE  \E k \in 0 .. n : /\ c = start2[k + 1] /\ (k = n => left' = 0)
                                          /\ delivered = SubSeq(sent, 1, k)
      BY <1>1, <2>2 DEF Between, n
    <3>1. PICK k \in 0 .. n : /\ c = start[k + 1] /\ (k = n => left = 0)
                              /\ delivered = SubSeq(sent, 1, k)
      BY <2>2 DEF Between, n
    <3>2. k # n /\ k + 1 \in 1 .. n
      BY <1>4, <3>1
    <3> QED BY <1>12, <3>1, <3>2
  <2>3. ASSUME Inside(start, c) PROVE Inside(start2, c)'
    <3>1. PICK k \in 1 .. n : \E o \in 1 .. start[k + 1] - start[k] :
                 /\ c = start[k] + o /\ Reading(sent[k], o, recv, buf)
                 /\ failed = {} => delivered = SubSeq(sent, 1, k - 1)
      BY <2>3 DEF Inside, n
    <3>2. PICK o \in 1 .. start[k + 1] - start[k] :
                 /\ c = start[k] + o /\ Reading(sent[k], o, recv, buf)
                 /\ failed = {} => delivered = SubSeq(sent, 1, k - 1)
      BY <3>1
    <3>3. start2[k] = start[k] /\ start2[k + 1] >= start[k + 1]
          /\ start2[k + 1] \in Nat /\ start[k + 1] \in Nat /\ start[k] \in Nat
      <4>1. CASE k < n
        BY <1>15, <4>1
      <4>2. CASE k = n
        <5>1. /\ start2[k] = start[k] /\ start2[k + 1] = start[k + 1] + t
              /\ start[k] \in Nat /\ start[k + 1] \in Nat /\ t \in Nat
          BY <1>4, <1>15, <4>2
        <5> QED BY <5>1
      <4> QED BY <1>4, <4>1, <4>2
    <3>4. o \in 1 .. start2[k + 1] - start2[k]
      BY <3>3
    <3> QED BY <1>1, <3>2, <3>3, <3>4 DEF Inside, n
  <2>4. ASSUME Misled(start, c) PROVE Misled(start2, c)'
    <3>1. PICK k \in 1 .. n : c = start[k + 1] /\ c = start[k] + Len(Frame(sent[k]))
      BY <2>4 DEF Misled, n
    <3>2. k < n
      <4>1. k # n
        <5>1. start[n + 1] = Len(S) /\ Len(Frame(sent[n])) = Len(frame)
          BY <1>4, <1>16 DEF p
        <5>2. CASE k = n
          <6>1. Len(S) = start[n] + Len(frame)
            BY <3>1, <5>1, <5>2
          <6> QED BY <1>16, <1>9, <6>1
        <5> QED BY <5>2
      <4> QED BY <1>4, <4>1
    <3>3. start2[k + 1] = start[k + 1] /\ start2[k] = start[k]
      BY <1>15, <3>2
    <3> QED BY <1>1, <2>4, <3>1, <3>3 DEF Misled, n
  <2> QED BY <1>3, <1>22, <2>1, <2>2, <2>3, <2>4 DEF Received
<1> QED BY <1>13, <1>20, <1>23 DEF FrameInv

(* A write that does not stray takes nothing or the next bytes. *)
LEMMA WriteInv == FrameInv /\ F!Write /\ strayed' = {} => FrameInv'
<1> SUFFICES ASSUME FrameInv, F!Write, strayed' = {} PROVE FrameInv'
  OBVIOUS
<1>1. PICK t \in 0 .. left :
        /\ line' = line \o Part(t) /\ left' = left - t
        /\ t > 0 => written = Len(frame) - left
        /\ UNCHANGED <<frame, recv, buf, delivered, sent, failed>>
  BY DEF F!Write, F!recvVars, Part
<1>2. Types' /\ Sending' /\ EndTypes
  BY TypesStep DEF FrameInv, EndTypes, F!Next
<1>3. left \in Nat /\ left > 0 /\ line \in Seq(Bytes)
  BY <1>2 DEF EndTypes, Types, F!Write
<1>4. CASE t > 0
  <2>1. t \in 1 .. left /\ written = Len(frame) - left
    BY <1>1, <1>3, <1>4
  <2> QED BY <1>1, <1>2, <2>1, WritePart
<1>5. CASE t = 0
  <2>1. Part(t) \in Seq(Bytes) /\ Len(Part(t)) = 0
    BY <1>3, <1>5, PartFacts DEF FrameInv, EndTypes
  <2>2. Part(t) = <<>>
    BY <2>1, EmptySeq
  <2>3. line' = line /\ left' = left
    BY <1>1, <1>3, <1>5, <2>2, ConcatEmptySeq
  <2>4. PICK S, start, c : Framed(S, start) /\ Received(S, start, c)
    BY DEF FrameInv
  <2>5. Framed(S, start)'
    BY <1>1, <2>3, <2>4 DEF Framed
  <2>6. Received(S, start, c)'
    BY <1>1, <2>3, <2>4 DEF Received, Between, Inside, Misled
  <2> QED BY <1>1, <1>2, <2>5, <2>6 DEF FrameInv, EndTypes
<1> QED BY <1>1, <1>4, <1>5

(* The frame of the last packet is given up: it is among those that failed. *)
LEMMA WriteFailsInv == FrameInv /\ F!WriteFails => FrameInv'
<1>0. SUFFICES ASSUME FrameInv, F!WriteFails PROVE FrameInv'
  OBVIOUS
<1>1. /\ left > 0 /\ left' = 0 /\ written' = -1 /\ failed' = failed \cup {Len(sent)}
      /\ frame' = frame /\ line' = line /\ recv' = recv /\ buf' = buf
      /\ delivered' = delivered /\ sent' = sent
  BY <1>0 DEF F!WriteFails, F!recvVars
<1>2. EndTypes /\ Sending
  BY <1>0 DEF FrameInv
<1>3. PICK S, start, c : Framed(S, start) /\ Received(S, start, c)
  BY <1>0 DEF FrameInv
<1>4. Len(sent) \in Nat /\ Len(sent) \in 1 .. Len(sent) /\ frame \in Seq(Bytes) /\ Len(frame) \in Nat
  BY <1>1, <1>2 DEF EndTypes, Types, Sending
<1>5. Types' /\ Sending'
  BY <1>0, TypesStep DEF FrameInv, EndTypes, F!Next
<1>6. EndTypes'
  BY <1>1, <1>2, <1>5 DEF EndTypes
<1>7. Framed(S, start)'
  <2>1. ASSUME NEW j \in 1 .. Len(sent), j \notin failed'
        PROVE  start[j + 1] - start[j] = Len(Frame(sent[j])) - (IF j = Len(sent) THEN left' ELSE 0)
    <3>1. j \notin failed /\ j # Len(sent)
      BY <1>1, <2>1
    <3>2. start[j + 1] - start[j] = Len(Frame(sent[j])) - (IF j = Len(sent) THEN left ELSE 0)
      BY <1>3, <3>1 DEF Framed
    <3> QED BY <3>1, <3>2
  <2> QED BY <1>1, <1>3, <2>1 DEF Framed
<1>8. failed' # {} /\ (failed # {} \/ failed = {})
  BY <1>1
<1>9. Received(S, start, c)'
  <2>1. c \in 0 .. Len(S) /\ line' = SubSeq(S, c + 1, Len(S))
    BY <1>1, <1>3 DEF Received
  <2>2. Between(start, c) => Between(start, c)'
    BY <1>1, <1>8 DEF Between
  <2>3. Inside(start, c) => Inside(start, c)'
    BY <1>1, <1>8 DEF Inside
  <2>4. Misled(start, c) => Misled(start, c)'
    BY <1>1, <1>8 DEF Misled
  <2> QED BY <1>3, <2>1, <2>2, <2>3, <2>4 DEF Received
<1> QED BY <1>5, <1>6, <1>7, <1>9 DEF FrameInv

(* The receiver takes the byte b, the next one, of the frame of the j-th packet. *)
Takes(S, start, c, j, b) ==
  /\ EndTypes /\ Framed(S, start) /\ c \in Nat
  /\ j \in 1 .. Len(sent) /\ start[j] <= c /\ c < start[j + 1]
  /\ b = Frame(sent[j])[c - start[j] + 1]
  /\ F!RecvIdle(b) \/ F!RecvData(b) \/ F!RecvEscaped(b)
  /\ left' = left /\ sent' = sent /\ failed' = failed

(* What Framed says of one frame. *)
LEMMA FramedFacts ==
  ASSUME EndTypes, NEW S, NEW start, Framed(S, start), NEW k \in 1 .. Len(sent)
  PROVE  /\ Len(sent) \in Nat /\ k \in Nat /\ k >= 1 /\ k <= Len(sent) /\ sent[k] \in Packets
         /\ start[k] \in Nat /\ start[k + 1] \in Nat
         /\ Len(Frame(sent[k])) \in Nat /\ Len(Frame(sent[k])) >= 2
         /\ start[k + 1] - start[k] <= Len(Frame(sent[k]))
         /\ k \notin failed => start[k + 1] - start[k]
                                 = Len(Frame(sent[k])) - (IF k = Len(sent) THEN left ELSE 0)
         /\ \A q \in 1 .. Len(Frame(sent[k])) :
              Frame(sent[k])[q] = Flag <=> q \in {1, Len(Frame(sent[k]))}
<1>1. /\ Len(sent) \in Nat /\ k \in Nat /\ k >= 1 /\ k <= Len(sent) /\ sent[k] \in Packets
      /\ k \in 1 .. Len(sent) + 1 /\ k + 1 \in 1 .. Len(sent) + 1
  BY DEF EndTypes, Types
<1>2. start \in [1 .. Len(sent) + 1 -> Nat]
  BY DEF Framed
<1>3. start[k] \in Nat /\ start[k + 1] \in Nat
  BY <1>1, <1>2
<1>4. /\ start[k + 1] - start[k] <= Len(Frame(sent[k]))
      /\ k \notin failed => start[k + 1] - start[k]
                              = Len(Frame(sent[k])) - (IF k = Len(sent) THEN left ELSE 0)
  BY DEF Framed
<1>5. /\ Len(Frame(sent[k])) \in Nat /\ Len(Frame(sent[k])) >= 2
      /\ \A q \in 1 .. Len(Frame(sent[k])) :
           Frame(sent[k])[q] = Flag <=> q \in {1, Len(Frame(sent[k]))}
  BY <1>1, FrameFacts
<1> QED BY <1>1, <1>3, <1>4, <1>5

(* The byte taken lies in its frame, and is a flag at either end only. *)
LEMMA TakesFacts ==
  ASSUME NEW S, NEW start, NEW c, NEW j, NEW b, Takes(S, start, c, j, b)
  PROVE  /\ c - start[j] + 1 \in 1 .. start[j + 1] - start[j]
         /\ b = Flag <=> c - start[j] + 1 \in {1, Len(Frame(sent[j]))}
<1>1. /\ c \in Nat /\ j \in 1 .. Len(sent) /\ start[j] <= c /\ c < start[j + 1]
      /\ b = Frame(sent[j])[c - start[j] + 1]
  BY DEF Takes
<1>2. /\ start[j] \in Nat /\ start[j + 1] \in Nat /\ Len(Frame(sent[j])) \in Nat
      /\ start[j + 1] - start[j] <= Len(Frame(sent[j]))
      /\ \A q \in 1 .. Len(Frame(sent[j])) :
           Frame(sent[j])[q] = Flag <=> q \in {1, Len(Frame(sent[j]))}
  BY FramedFacts DEF Takes
<1>3. /\ c - start[j] + 1 \in 1 .. start[j + 1] - start[j]
      /\ c - start[j] + 1 \in 1 .. Len(Frame(sent[j]))
  BY <1>1, <1>2
<1> QED BY <1>1, <1>2, <1>3

(* While no write has failed, what follows k whole frames is the flag that opens the next. *)
LEMMA NextFrame ==
  ASSUME NEW S, NEW start, NEW c, NEW j, NEW b, Takes(S, start, c, j, b),
         failed = {}, NEW k, k \in 0 .. Len(sent), c = start[k + 1]
  PROVE  j = k + 1 /\ start[j] = c
<1>1. /\ Len(sent) \in Nat /\ c \in Nat /\ j \in 1 .. Len(sent) /\ start[j] <= c /\ c < start[j + 1]
      /\ start \in [1 .. Len(sent) + 1 -> Nat]
      /\ \A i \in 1 .. Len(sent) + 1, l \in 1 .. Len(sent) + 1 : i <= l => start[i] <= start[l]
  <2>1. /\ EndTypes /\ Framed(S, start)
        /\ c \in Nat /\ j \in 1 .. Len(sent) /\ start[j] <= c /\ c < start[j + 1]
    BY DEF Takes
  <2>2. Len(sent) \in Nat
    BY <2>1 DEF EndTypes, Types
  <2> QED BY <2>1, <2>2 DEF Framed
<1>2. /\ j \in 1 .. Len(sent) + 1 /\ j + 1 \in 1 .. Len(sent) + 1 /\ k + 1 \in 1 .. Len(sent) + 1
      /\ j \in Nat /\ k \in Nat /\ start[j] \in Nat /\ start[j + 1] \in Nat /\ start[k + 1] \in Nat
  BY <1>1
<1>3. ~ j <= k
  <2>1. j <= k => start[j + 1] <= start[k + 1]
    BY <1>1, <1>2
  <2> QED BY <1>1, <1>2, <2>1
<1>4. start[k + 1] <= start[j] /\ start[j] = c
  BY <1>1, <1>2, <1>3
<1>5. ~ k + 1 < j
  <2> SUFFICES ASSUME k + 1 < j PROVE FALSE
    OBVIOUS
  <2>1. k + 1 \in 1 .. Len(sent) /\ k + 1 # Len(sent) /\ (k + 1) + 1 <= j
        /\ (k + 1) + 1 \in 1 .. Len(sent) + 1
    BY <1>1, <1>2
  <2>2. /\ start[(k + 1) + 1] \in Nat /\ Len(Frame(sent[k + 1])) \in Nat
        /\ Len(Frame(sent[k + 1])) >= 2
        /\ start[(k + 1) + 1] - start[k + 1]
             = Len(Frame(sent[k + 1])) - (IF k + 1 = Len(sent) THEN left ELSE 0)
    BY <2>1, FramedFacts DEF Takes
  <2>3. start[(k + 1) + 1] - start[k + 1] = Len(Frame(sent[k + 1])) - 0
    BY <2>1, <2>2
  <2>4. start[(k + 1) + 1] <= start[j]
    BY <1>1, <1>2, <2>1
  <2> QED BY <1>2, <1>4, <2>2, <2>3, <2>4
<1> QED BY <1>2, <1>3, <1>4, <1>5

(* Where the receiver stands when it has taken c bytes, and a frame's worth in buf. *)
Stands(start, c) ==
  /\ Between(start, c) \/ Inside(start, c) \/ Misled(start, c)
  /\ buf \in Seq(Bytes) /\ \E p \in Packets : Len(buf) <= Len(p) + 2

(* An empty buffer is not too long. *)
LEMMA EmptyBuffer ==
  ASSUME NEW t, t = <<>>
  PROVE  t \in Seq(Bytes) /\ \E p \in Packets : Len(t) <= Len(p) + 2
<1>1. PICK p \in Packets : Len(p) \in Nat
  BY PacketsOK, BodyFacts
<1> QED BY <1>1

(* Inside a frame the buffer holds the beginning of a body. *)
LEMMA InsideBuffer ==
  ASSUME EndTypes, NEW start, NEW c, Inside(start, c)
  PROVE  buf \in Seq(Bytes) /\ \E p \in Packets : Len(buf) <= Len(p) + 2
<1>1. PICK k \in 1 .. Len(sent) : \E o : Reading(sent[k], o, recv, buf)
  BY DEF Inside
<1>2. sent[k] \in Packets
  BY DEF EndTypes, Types
<1> QED BY <1>1, <1>2, ReadingFacts

(* The receiver waited: the byte is a flag that opens a frame or, after a failure,
   the flag that ends one. *)
LEMMA TakesBetween ==
  ASSUME NEW S, NEW start, NEW c, NEW j, NEW b, Takes(S, start, c, j, b), Between(start, c)
  PROVE  Stands(start, c + 1)'
<1>1. /\ EndTypes /\ Framed(S, start) /\ j \in 1 .. Len(sent) /\ c \in Nat
      /\ F!RecvIdle(b) \/ F!RecvData(b) \/ F!RecvEscaped(b)
      /\ left' = left /\ sent' = sent /\ failed' = failed
  BY DEF Takes
<1>2. /\ delivered' = delivered
      /\ b = Flag => recv' = "DATA" /\ buf' = <<>>
      /\ b # Flag => recv' = "IDLE" /\ buf' = buf
  BY <1>1, IdleWaits DEF Between
<1>3. /\ Len(sent) \in Nat /\ sent[j] \in Packets /\ start[j] \in Nat /\ start[j + 1] \in Nat
      /\ Len(Frame(sent[j])) \in Nat /\ Len(Frame(sent[j])) >= 2
      /\ start[j + 1] - start[j] <= Len(Frame(sent[j]))
      /\ c - start[j] + 1 \in 1 .. start[j + 1] - start[j]
      /\ b = Flag <=> c - start[j] + 1 \in {1, Len(Frame(sent[j]))}
  BY <1>1, FramedFacts, TakesFacts
<1>4. buf' \in Seq(Bytes) /\ \E p \in Packets : Len(buf') <= Len(p) + 2
  <2>1. buf' = buf \/ buf' = <<>>
    BY <1>2
  <2>2. CASE buf' = buf
    BY <1>1, <2>2 DEF EndTypes, Types
  <2>3. CASE buf' = <<>>
    BY <2>3, EmptyBuffer
  <2> QED BY <2>1, <2>2, <2>3
<1>5. ASSUME failed = {} PROVE start[j] = c /\ delivered = SubSeq(sent, 1, j - 1)
  <2>1. PICK k : k \in 0 .. Len(sent) /\ c = start[k + 1] /\ delivered = SubSeq(sent, 1, k)
    BY <1>5 DEF Between
  <2>2. j = k + 1 /\ start[j] = c
    BY <1>5, <2>1, NextFrame
  <2>3. j - 1 = k
    BY <1>3, <2>1, <2>2
  <2> QED BY <2>1, <2>2, <2>3
<1>6. CASE start[j] = c
  <2>1. b = Flag
    <3>1. c - start[j] + 1 = 1
      BY <1>1, <1>6
    <3> QED BY <1>3, <3>1
  <2>2. recv' = "DATA" /\ buf' = <<>> /\ Reading(sent[j], 1, recv', buf')
    BY <1>2, <1>3, <2>1, ReadingStarts
  <2>3. c + 1 = start[j] + 1 /\ 1 \in 1 .. start[j + 1] - start[j]
    BY <1>1, <1>3, <1>6
  <2>4. failed' = {} => delivered' = SubSeq(sent', 1, j - 1)
    BY <1>1, <1>2, <1>5
  <2>5. Inside(start, c + 1)'
    BY <1>1, <2>2, <2>3, <2>4 DEF Inside
  <2> QED BY <1>4, <2>5 DEF Stands
<1>7. CASE start[j] # c /\ b # Flag
  <2>1. Between(start, c + 1)'
    BY <1>1, <1>2, <1>5, <1>7 DEF Between
  <2> QED BY <1>4, <2>1 DEF Stands
<1>8. CASE start[j] # c /\ b = Flag
  <2>1. failed' # {} /\ recv' = "DATA" /\ buf' = <<>>
    BY <1>1, <1>2, <1>5, <1>8
  <2>2. c - start[j] + 1 = Len(Frame(sent[j]))
    BY <1>1, <1>3, <1>8
  <2>3. c + 1 = start[j + 1] /\ c + 1 = start[j] + Len(Frame(sent[j]))
    <3>1. /\ c \in Nat /\ start[j] \in Nat /\ start[j + 1] \in Nat /\ Len(Frame(sent[j])) \in Nat
          /\ start[j + 1] - start[j] <= Len(Frame(sent[j]))
          /\ c - start[j] + 1 <= start[j + 1] - start[j]
      BY <1>1, <1>3
    <3> QED BY <2>2, <3>1
  <2>4. Misled(start, c + 1)'
    BY <1>1, <2>1, <2>3 DEF Misled
  <2> QED BY <1>4, <2>4 DEF Stands
<1> QED BY <1>6, <1>7, <1>8

(* The receiver read a frame: it reads on, ends it, or meets the flag of the next
   because a write failed. *)
LEMMA TakesInside ==
  ASSUME NEW S, NEW start, NEW c, NEW j, NEW b, Takes(S, start, c, j, b), Inside(start, c)
  PROVE  Stands(start, c + 1)'
<1>1. /\ EndTypes /\ Framed(S, start) /\ j \in 1 .. Len(sent) /\ c \in Nat
      /\ start[j] <= c /\ c < start[j + 1] /\ b = Frame(sent[j])[c - start[j] + 1]
      /\ F!RecvIdle(b) \/ F!RecvData(b) \/ F!RecvEscaped(b)
      /\ left' = left /\ sent' = sent /\ failed' = failed
  BY DEF Takes
<1>2. PICK k : k \in 1 .. Len(sent) /\ \E o \in 1 .. start[k + 1] - start[k] :
                 /\ c = start[k] + o /\ Reading(sent[k], o, recv, buf)
                 /\ failed = {} => delivered = SubSeq(sent, 1, k - 1)
  BY DEF Inside
<1>3. PICK o : /\ o \in 1 .. start[k + 1] - start[k]
               /\ c = start[k] + o /\ Reading(sent[k], o, recv, buf)
               /\ failed = {} => delivered = SubSeq(sent, 1, k - 1)
  BY <1>2
<1>4. /\ Len(sent) \in Nat /\ k \in Nat /\ k >= 1 /\ k <= Len(sent) /\ sent[k] \in Packets
      /\ start[k] \in Nat /\ start[k + 1] \in Nat
      /\ Len(Frame(sent[k])) \in Nat
      /\ start[k + 1] - start[k] <= Len(Frame(sent[k]))
      /\ k \notin failed => start[k + 1] - start[k]
                              = Len(Frame(sent[k])) - (IF k = Len(sent) THEN left ELSE 0)
  <2>1. k \in 1 .. Len(sent)
    BY <1>2
  <2> QED BY <1>1, <2>1, FramedFacts
<1>5. /\ start[j] \in Nat /\ start[j + 1] \in Nat
      /\ c - start[j] + 1 \in 1 .. start[j + 1] - start[j]
      /\ b = Flag <=> c - start[j] + 1 \in {1, Len(Frame(sent[j]))}
  BY <1>1, FramedFacts, TakesFacts
<1>6. /\ o \in 1 .. Len(Frame(sent[k])) - 1 /\ recv \in {"DATA", "7D"}
  BY <1>3, <1>4, ReadingFacts
<1>7. j = k \/ (j > k /\ c = start[k + 1] /\ start[j] = c)
  <2>1. start[k] < c /\ c <= start[k + 1]
    BY <1>1, <1>3, <1>4
  <2> QED BY <1>1, <1>2, <2>1, SameFrame
<1>8. CASE j = k
  <2>1. c - start[j] + 1 = o + 1 /\ o + 1 \in 1 .. start[k + 1] - start[k] /\ c + 1 = start[k] + (o + 1)
    <3>1. /\ start[k] \in Nat /\ start[k + 1] \in Nat /\ o \in Nat /\ c = start[k] + o
      BY <1>3, <1>4
    <3>2. c - start[k] + 1 \in 1 .. start[k + 1] - start[k]
      BY <1>5, <1>8
    <3>3. /\ c - start[k] + 1 = o + 1 /\ o + 1 \in 1 .. start[k + 1] - start[k]
          /\ c + 1 = start[k] + (o + 1)
      BY <3>1, <3>2
    <3> QED BY <1>8, <3>3
  <2>2. \/ Reading(sent[k], o + 1, recv', buf') /\ delivered' = delivered
        \/ /\ o + 1 = Len(Frame(sent[k]))
           /\ recv' = "IDLE" /\ buf' = buf /\ delivered' = Append(delivered, sent[k])
    <3>1. b = Frame(sent[k])[o + 1]
      BY <1>1, <1>8, <2>1
    <3> QED BY <1>1, <1>3, <1>4, <3>1, ReadOn
  <2>3. CASE Reading(sent[k], o + 1, recv', buf') /\ delivered' = delivered
    <3>1. Inside(start, c + 1)'
      BY <1>1, <1>2, <1>3, <2>1, <2>3 DEF Inside
    <3>2. buf' \in Seq(Bytes) /\ \E p \in Packets : Len(buf') <= Len(p) + 2
      BY <1>4, <2>3, ReadingFacts
    <3> QED BY <3>1, <3>2 DEF Stands
  <2>4. CASE /\ o + 1 = Len(Frame(sent[k]))
             /\ recv' = "IDLE" /\ buf' = buf /\ delivered' = Append(delivered, sent[k])
    <3>1. c + 1 = start[k + 1] /\ start[k + 1] - start[k] = Len(Frame(sent[k]))
      BY <1>1, <1>4, <2>1, <2>4
    <3>2. ASSUME failed = {}
          PROVE  (k = Len(sent) => left = 0) /\ delivered' = SubSeq(sent, 1, k)
      <4>1. k = Len(sent) => left = 0
        <5>1. left \in Nat
          BY <1>1 DEF EndTypes, Types
        <5>2. k = Len(sent) => Len(Frame(sent[k])) = Len(Frame(sent[k])) - left
          BY <1>4, <3>1, <3>2
        <5> QED BY <1>4, <5>1, <5>2
      <4>2. sent \in Seq(Packets)
        BY <1>1 DEF EndTypes, Types
      <4>3. Append(SubSeq(sent, 1, k - 1), sent[k]) = SubSeq(sent, 1, k)
        BY <1>4, <4>2
      <4> QED BY <1>3, <2>4, <3>2, <4>1, <4>3
    <3>3. k \in 0 .. Len(sent)
      BY <1>4
    <3>4. Between(start, c + 1)'
      BY <1>1, <2>4, <3>1, <3>2, <3>3 DEF Between
    <3> QED BY <1>1, <2>4, <3>4 DEF Stands, EndTypes, Types
  <2> QED BY <2>2, <2>3, <2>4
<1>9. CASE j > k /\ c = start[k + 1] /\ start[j] = c
  <2>1. b = Flag
    <3>1. c - start[j] + 1 = 1
      BY <1>1, <1>9
    <3> QED BY <1>5, <3>1
  <2>2. recv' = "IDLE" /\ buf' = buf
    BY <1>1, <1>6, <2>1, FlagCloses
  <2>3. failed # {}
    <3> SUFFICES ASSUME failed = {} PROVE FALSE
      OBVIOUS
    <3>1. k \notin failed /\ k # Len(sent)
      BY <1>1, <1>4, <1>9
    <3>2. start[k + 1] - start[k] = Len(Frame(sent[k])) - 0
      BY <1>4, <3>1
    <3>3. o = start[k + 1] - start[k]
      BY <1>3, <1>4, <1>6, <1>9
    <3> QED BY <1>4, <1>6, <3>2, <3>3
  <2>4. Between(start, c + 1)'
    BY <1>1, <2>2, <2>3 DEF Between
  <2> QED BY <1>1, <2>2, <2>4 DEF Stands, EndTypes, Types
<1> QED BY <1>7, <1>8, <1>9

(* The receiver took the end of a frame for a beginning: the flag of the next frame
   ends that. *)
LEMMA TakesMisled ==
  ASSUME NEW S, NEW start, NEW c, NEW j, NEW b, Takes(S, start, c, j, b), Misled(start, c)
  PROVE  Stands(start, c + 1)'
<1>1. /\ EndTypes /\ Framed(S, start) /\ j \in 1 .. Len(sent) /\ c \in Nat
      /\ start[j] <= c /\ c < start[j + 1]
      /\ F!RecvIdle(b) \/ F!RecvData(b) \/ F!RecvEscaped(b)
      /\ left' = left /\ sent' = sent /\ failed' = failed
  BY DEF Takes
<1>2. PICK k : k \in 1 .. Len(sent) /\ c = start[k + 1] /\ c = start[k] + Len(Frame(sent[k]))
  BY DEF Misled
<1>3. /\ start[k] \in Nat /\ Len(Frame(sent[k])) \in Nat /\ Len(Frame(sent[k])) >= 2
  BY <1>1, <1>2, FramedFacts
<1>4. start[j] = c
  <2>1. start[k] < c /\ c <= start[k + 1]
    BY <1>1, <1>2, <1>3
  <2>2. j = k \/ (j > k /\ c = start[k + 1] /\ start[j] = c)
    <3>1. k \in 1 .. Len(sent)
      BY <1>2
    <3> QED BY <1>1, <2>1, <3>1, SameFrame
  <2>3. j # k
    <3>1. c \in Nat /\ c < start[j + 1] /\ c = start[k + 1]
      BY <1>1, <1>2
    <3> QED BY <3>1
  <2> QED BY <2>2, <2>3
<1>5. b = Flag
  <2>1. c - start[j] + 1 = 1
    BY <1>1, <1>4
  <2> QED BY <2>1, TakesFacts
<1>6. recv' = "IDLE" /\ buf' = buf
  BY <1>1, <1>5, FlagCloses DEF Misled
<1>7. Between(start, c + 1)'
  BY <1>1, <1>6 DEF Misled, Between
<1> QED BY <1>1, <1>6, <1>7 DEF Stands, EndTypes, Types

(* The byte the receiver takes is the next one of all that write ever took. *)
LEMMA NextTaken ==
  ASSUME NEW S \in Seq(Bytes), NEW c \in 0 .. Len(S), line = SubSeq(S, c + 1, Len(S)),
         line # <<>>
  PROVE  /\ c < Len(S) /\ c + 1 \in 1 .. Len(S) /\ S[c + 1] \in Bytes
         /\ Head(line) = S[c + 1] /\ Tail(line) = SubSeq(S, (c + 1) + 1, Len(S))
<1>1. Len(S) \in Nat /\ c \in Nat
  OBVIOUS
<1>2. c < Len(S) /\ c + 1 \in 1 .. Len(S) /\ Len(S) \in c + 1 .. Len(S)
  <2>1. Len(line) = Len(S) - c /\ line \in Seq(Bytes)
    BY RestOf
  <2>2. Len(line) # 0
    BY <2>1, EmptySeq
  <2> QED BY <1>1, <2>1, <2>2
<1>3. S[c + 1] \in Bytes
  BY <1>2, ElementOfSeq
<1> QED BY <1>2, <1>3, HeadTailOfSubSeq

(* The receiver takes one byte off the line. *)
LEMMA RecvInv == FrameInv /\ F!Recv => FrameInv'
<1>0. SUFFICES ASSUME FrameInv, F!Recv PROVE FrameInv'
  OBVIOUS
<1>1. /\ line # <<>> /\ line' = Tail(line)
      /\ F!RecvIdle(Head(line)) \/ F!RecvData(Head(line)) \/ F!RecvEscaped(Head(line))
      /\ frame' = frame /\ left' = left /\ sent' = sent /\ failed' = failed
  BY <1>0 DEF F!Recv, F!sendVars
<1>2. EndTypes /\ Sending
  BY <1>0 DEF FrameInv
<1>3. PICK S, start, c : Framed(S, start) /\ Received(S, start, c)
  BY <1>0 DEF FrameInv
<1>4. S \in Seq(Bytes) /\ Len(S) \in Nat /\ c \in 0 .. Len(S) /\ line = SubSeq(S, c + 1, Len(S))
  BY <1>3 DEF Framed, Received
<1>5. c \in Nat /\ c < Len(S) /\ c + 1 \in 1 .. Len(S)
  BY <1>1, <1>4, NextTaken
<1>6. Head(line) = S[c + 1] /\ line' = SubSeq(S, (c + 1) + 1, Len(S))
  BY <1>1, <1>4, NextTaken
<1>7. PICK j : Follows(S, start, c, j)
  BY <1>2, <1>3, <1>5, NextByte
<1>8. Takes(S, start, c, j, Head(line))
  <2>1. /\ j \in 1 .. Len(sent) /\ start[j] <= c /\ c < start[j + 1]
        /\ Head(line) = Frame(sent[j])[c - start[j] + 1]
    BY <1>6, <1>7 DEF Follows
  <2> QED BY <1>1, <1>2, <1>3, <1>5, <2>1 DEF Takes
<1>9. Stands(start, c + 1)'
  <2>1. Between(start, c) \/ Inside(start, c) \/ Misled(start, c)
    BY <1>3 DEF Received
  <2> QED BY <1>8, <2>1, TakesBetween, TakesInside, TakesMisled
<1>10. Types' /\ Sending'
  BY <1>0, TypesStep DEF FrameInv, EndTypes, F!Next
<1>11. EndTypes'
  BY <1>9, <1>10 DEF EndTypes, Stands
<1>12. Framed(S, start)'
  BY <1>1, <1>3 DEF Framed
<1>13. Received(S, start, c + 1)'
  <2>1. c + 1 \in 0 .. Len(S)
    BY <1>5
  <2> QED BY <1>6, <1>9, <2>1 DEF Received, Stands
<1> QED BY <1>10, <1>11, <1>12, <1>13 DEF FrameInv

-----------------------------------------------------------------------------
(* Why the receive buffer is large enough even when writes stray.  A stretch is a flag
   and what follows it up to the next; whatever order write sends bytes in, what it
   takes of a frame begins with the frame's first flag and is no longer than the frame,
   so that a stretch lies within one frame. *)
Stretch(S, a, b) == a > 0 /\ S[a] = Flag /\ \A q \in a + 1 .. b : S[q] # Flag

Short(S) == \A a \in 1 .. Len(S), b \in 1 .. Len(S) :
              a <= b /\ Stretch(S, a, b) => \E p \in Packets : b - a < Len(Frame(p))

(* What was taken of the frame being written is behind base. *)
Begun(S, base) == /\ Len(S) - base <= Len(frame) - left
                  /\ IF Len(S) = base THEN written = 0 ELSE S[base + 1] = Flag

BufferFits == \E p \in Packets : Len(buf) < Len(Frame(p))

(* S is all that write ever took; the receiver has taken c bytes of it and, inside a
   frame, collected some of those behind the flag at a. *)
Sized(S, base, c, a) ==
  /\ S \in Seq(Bytes) /\ base \in 0 .. Len(S) /\ c \in 0 .. Len(S) /\ a \in 0 .. c
  /\ line = SubSeq(S, c + 1, Len(S))
  /\ Short(S)
  /\ left > 0 => Begun(S, base)
  /\ recv # "IDLE" => Stretch(S, a, c) /\ Len(buf) <= c - a

SizeInv == Types /\ Sending /\ BufferFits /\ \E S, base, c, a : Sized(S, base, c, a)

LEMMA InitSizeInv == F!Init => SizeInv
<1> SUFFICES ASSUME F!Init PROVE SizeInv
  OBVIOUS
<1>1. /\ frame = <<>> /\ left = 0 /\ written = 0 /\ line = <<>> /\ Len(<<>>) = 0
      /\ recv = "IDLE" /\ buf = <<>> /\ delivered = <<>> /\ sent = <<>>
      /\ failed = {} /\ strayed = {}
  BY DEF F!Init
<1>2. Types /\ Sending
  BY <1>1 DEF Types, Sending
<1>3. BufferFits
  <2>1. PICK p \in Packets : Len(Frame(p)) \in Nat /\ Len(Frame(p)) >= 2
    BY PacketsOK, FrameFacts
  <2> QED BY <1>1, <2>1 DEF BufferFits
<1>4. Sized(<<>>, 0, 0, 0)
  <2>1. SubSeq(<<>>, 0 + 1, 0) = <<>>
    BY SubSeqEmpty
  <2> QED BY <1>1, <2>1 DEF Sized, Short
<1> QED BY <1>2, <1>3, <1>4 DEF SizeInv

(* Bytes of the frame being written lengthen the stretches within it only. *)
LEMMA ShortGrows ==
  ASSUME Types, Sending, left > 0, NEW t \in 0 .. left,
         NEW S \in Seq(Bytes), NEW base \in 0 .. Len(S), Short(S), Begun(S, base)
  PROVE  LET V == S \o Part(t)
         IN  /\ V \in Seq(Bytes) /\ Len(V) = Len(S) + t
             /\ \A q \in 1 .. Len(S) : V[q] = S[q]
             /\ Short(V)
             /\ Len(V) - base <= Len(frame) - (left - t)
             /\ Len(V) # base => V[base + 1] = Flag
<1> DEFINE V == S \o Part(t)
<1>1. /\ Part(t) \in Seq(Bytes) /\ Len(Part(t)) = t
      /\ \A q \in 1 .. t : Part(t)[q] = frame[written + q]
  BY PartFacts
<1>2. /\ Len(sent) > 0 /\ frame = Frame(sent[Len(sent)]) /\ sent[Len(sent)] \in Packets
      /\ Len(frame) \in Nat /\ left \in Nat /\ left <= Len(frame) /\ t \in Nat /\ t <= left
      /\ Len(S) \in Nat /\ base \in Nat /\ base <= Len(S)
      /\ Len(S) - base <= Len(frame) - left
  BY DEF Types, Sending, Begun
<1>3. frame[1] = Flag
  BY <1>2, FrameFacts
<1>4. /\ V \in Seq(Bytes) /\ Len(V) = Len(S) + t
      /\ \A q \in 1 .. Len(S) + t : V[q] = IF q <= Len(S) THEN S[q] ELSE Part(t)[q - Len(S)]
  <2>1. PICK u : u = Part(t)
    OBVIOUS
  <2>2. /\ S \o u \in Seq(Bytes) /\ Len(S \o u) = Len(S) + Len(u)
        /\ \A q \in 1 .. Len(S) + Len(u) : (S \o u)[q] = IF q <= Len(S) THEN S[q] ELSE u[q - Len(S)]
    BY <1>1, <2>1, ConcatProperties
  <2>3. Len(u) = t
    BY <1>1, <2>1
  <2> QED BY <2>1, <2>2, <2>3
<1> HIDE DEF V
<1>5. \A q \in 1 .. Len(S) : V[q] = S[q]
  BY <1>2, <1>4
<1>6. Len(V) - base <= Len(frame) - (left - t)
  BY <1>2, <1>4
<1>7. Len(V) # base => V[base + 1] = Flag
  <2>1. CASE Len(S) # base
    <3>1. base + 1 \in 1 .. Len(S)
      BY <1>2, <2>1
    <3> QED BY <1>5, <2>1, <3>1 DEF Begun
  <2>2. CASE Len(S) = base /\ t > 0
    <3>1. base + 1 \in 1 .. Len(S) + t /\ ~ base + 1 <= Len(S) /\ base + 1 - Len(S) = 1
          /\ 1 \in 1 .. t
      BY <1>2, <2>2
    <3>2. V[base + 1] = Part(t)[1] /\ Part(t)[1] = frame[written + 1]
      BY <1>1, <1>4, <3>1
    <3>3. written = 0
      BY <2>2 DEF Begun
    <3> QED BY <1>3, <3>2, <3>3
  <2>3. Len(S) = base /\ ~ t > 0 => Len(V) = base
    BY <1>2, <1>4
  <2> QED BY <2>1, <2>2, <2>3
<1>8. Short(V)
  <2> SUFFICES ASSUME NEW a \in 1 .. Len(V), NEW b \in 1 .. Len(V), a <= b, Stretch(V, a, b)
               PROVE  \E p \in Packets : b - a < Len(Frame(p))
    BY DEF Short
  <2>1. a \in Nat /\ b \in Nat /\ Len(V) \in Nat /\ a >= 1 /\ b <= Len(V)
    BY <1>2, <1>4
  <2>2. V[a] = Flag /\ \A q \in a + 1 .. b : V[q] # Flag
    BY DEF Stretch
  <2>3. CASE b <= Len(S)
    <3>1. a \in 1 .. Len(S) /\ b \in 1 .. Len(S) /\ \A q \in a + 1 .. b : q \in 1 .. Len(S)
      BY <1>2, <2>1, <2>3
    <3>2. Stretch(S, a, b)
      BY <1>5, <2>1, <2>2, <3>1 DEF Stretch
    <3> QED BY <3>1, <3>2 DEF Short
  <2>4. CASE ~ b <= Len(S)
    <3>1. V[base + 1] = Flag
      BY <1>2, <1>7, <2>1, <2>4
    <3>2. ~ base + 1 \in a + 1 .. b
      BY <2>2, <3>1
    <3>3. b - a < Len(frame)
      BY <1>2, <1>6, <2>1, <2>4, <3>2
    <3> QED BY <1>2, <3>3
  <2> QED BY <2>3, <2>4
<1> QED BY <1>4, <1>5, <1>6, <1>7, <1>8 DEF V

(* The sender. *)
LEMMA SendSizeInv == SizeInv /\ (F!StartFrame \/ F!Write \/ F!WriteFails) => SizeInv'
<1>0. SUFFICES ASSUME SizeInv, F!StartFrame \/ F!Write \/ F!WriteFails PROVE SizeInv'
  OBVIOUS
<1>1. Types' /\ Sending'
  BY <1>0, TypesStep DEF SizeInv, F!Next
<1>2. UNCHANGED <<recv, buf>>
  BY <1>0 DEF F!StartFrame, F!Write, F!WriteFails, F!recvVars
<1>3. BufferFits'
  BY <1>0, <1>2 DEF SizeInv, BufferFits
<1>4. PICK S, base, c, a : Sized(S, base, c, a)
  BY <1>0 DEF SizeInv
<1>5. S \in Seq(Bytes) /\ Len(S) \in Nat
  BY <1>4 DEF Sized
<1>6. CASE F!StartFrame
  <2>1. line' = line /\ written' = 0 /\ frame' \in Seq(Bytes) /\ left' = Len(frame')
    BY <1>1, <1>6 DEF F!StartFrame, Types
  <2>2. Len(S) \in 0 .. Len(S) /\ Len(S) - Len(S) <= Len(frame') - left'
    BY <1>5, <2>1
  <2>3. Begun(S, Len(S))'
    BY <2>1, <2>2 DEF Begun
  <2>4. Sized(S, Len(S), c, a)'
    BY <1>2, <1>4, <2>1, <2>2, <2>3 DEF Sized, Short, Stretch
  <2> QED BY <1>1, <1>3, <2>4 DEF SizeInv
<1>7. CASE F!WriteFails
  <2>1. line' = line /\ ~ left' > 0
    BY <1>7 DEF F!WriteFails
  <2>2. Sized(S, base, c, a)'
    BY <1>2, <1>4, <2>1 DEF Sized, Short, Stretch
  <2> QED BY <1>1, <1>3, <2>2 DEF SizeInv
<1>8. CASE F!Write
  <2>1. left > 0 /\ UNCHANGED frame
    BY <1>8 DEF F!Write
  <2>2. PICK t \in 0 .. left : line' = line \o Part(t) /\ left' = left - t /\ written' = t
    BY <1>8 DEF F!Write, Part
  <2>3. Types /\ Sending /\ Short(S) /\ Begun(S, base) /\ base \in 0 .. Len(S)
    BY <1>0, <1>4, <2>1 DEF SizeInv, Sized
  <2>4. c \in 0 .. Len(S) /\ a \in 0 .. c /\ line = SubSeq(S, c + 1, Len(S))
    BY <1>4 DEF Sized
  <2>5. PICK V : V = S \o Part(t)
    OBVIOUS
  <2>6. /\ V \in Seq(Bytes) /\ Len(V) = Len(S) + t
        /\ \A q \in 1 .. Len(S) : V[q] = S[q]
        /\ Short(V)
        /\ Len(V) - base <= Len(frame) - (left - t)
        /\ Len(V) # base => V[base + 1] = Flag
    BY <1>5, <2>1, <2>3, <2>5, ShortGrows
  <2>7. line' = SubSeq(V, c + 1, Len(V))
    <3>1. Part(t) \in Seq(Bytes)
      BY <2>1, <2>3, PartFacts
    <3> QED BY <1>5, <2>2, <2>4, <2>5, <3>1, RestGrows
  <2>8. base \in 0 .. Len(V) /\ c \in 0 .. Len(V) /\ (Len(V) = base => t = 0)
    BY <1>5, <2>3, <2>4, <2>6
  <2>9. Begun(V, base)'
    BY <2>1, <2>2, <2>6, <2>8 DEF Begun
  <2>10. recv # "IDLE" => Stretch(V, a, c) /\ Len(buf) <= c - a
    <3> SUFFICES ASSUME recv # "IDLE" PROVE Stretch(V, a, c) /\ Len(buf) <= c - a
      OBVIOUS
    <3>1. a > 0 /\ S[a] = Flag /\ (\A q \in a + 1 .. c : S[q] # Flag) /\ Len(buf) <= c - a
      BY <1>4 DEF Sized, Stretch
    <3>2. a \in 1 .. Len(S) /\ \A q \in a + 1 .. c : q \in 1 .. Len(S)
      BY <1>5, <2>4, <3>1
    <3> QED BY <2>6, <3>1, <3>2 DEF Stretch
  <2>11. Sized(V, base, c, a)'
    BY <1>2, <2>4, <2>6, <2>7, <2>8, <2>9, <2>10 DEF Sized, Short, Stretch
  <2> QED BY <1>1, <1>3, <2>11 DEF SizeInv
<1> QED BY <1>0, <1>6, <1>7, <1>8

(* The receiver: a flag ends a stretch, any other byte lengthens it. *)
LEMMA RecvSizeInv == SizeInv /\ F!Recv => SizeInv'
<1>0. SUFFICES ASSUME SizeInv, F!Recv PROVE SizeInv'
  OBVIOUS
<1>1. Types' /\ Sending'
  BY <1>0, TypesStep DEF SizeInv, F!Next
<1>2. PICK b : b = Head(line)
  OBVIOUS
<1>3. /\ line # <<>> /\ line' = Tail(line)
      /\ F!RecvIdle(b) \/ F!RecvData(b) \/ F!RecvEscaped(b)
      /\ UNCHANGED <<frame, left, written>>
  BY <1>0, <1>2 DEF F!Recv, F!sendVars
<1>4. Types /\ BufferFits
  BY <1>0 DEF SizeInv
<1>5. PICK S, base, c, a : Sized(S, base, c, a)
  BY <1>0 DEF SizeInv
<1>6. /\ S \in Seq(Bytes) /\ Len(S) \in Nat /\ base \in 0 .. Len(S) /\ c \in Nat /\ a \in 0 .. c
      /\ c \in 0 .. Len(S) /\ line = SubSeq(S, c + 1, Len(S)) /\ Short(S)
      /\ left > 0 => Begun(S, base)
      /\ recv # "IDLE" => Stretch(S, a, c) /\ Len(buf) <= c - a
  BY <1>5 DEF Sized
<1>7. /\ c + 1 \in 1 .. Len(S) /\ b = S[c + 1] /\ line' = SubSeq(S, (c + 1) + 1, Len(S))
      /\ b \in Bytes
  BY <1>2, <1>3, <1>6, NextTaken
<1>8. \/ recv' = "IDLE" /\ buf' = buf
      \/ recv = "IDLE" /\ b = Flag /\ buf' = <<>>
      \/ recv # "IDLE" /\ b # Flag /\ (buf' = buf \/ Len(buf') = Len(buf) + 1)
  BY <1>3, <1>4, <1>7, RecvTypes
<1>9. (left > 0 => Begun(S, base))'
  BY <1>3, <1>6 DEF Begun
<1> DEFINE Goal(d) == /\ d \in 0 .. c + 1 /\ BufferFits'
                      /\ recv' # "IDLE" => Stretch(S, d, c + 1) /\ Len(buf') <= (c + 1) - d
<1>10. \E d : Goal(d)
  <2>1. CASE recv' = "IDLE" /\ buf' = buf
    <3>1. Goal(a)
      BY <1>4, <1>6, <2>1 DEF BufferFits
    <3> QED BY <3>1
  <2>2. CASE recv = "IDLE" /\ b = Flag /\ buf' = <<>>
    <3>1. PICK p \in Packets : Len(Frame(p)) \in Nat /\ Len(Frame(p)) >= 2
      BY PacketsOK, FrameFacts
    <3>2. Len(buf') = 0 /\ BufferFits'
      BY <2>2, <3>1 DEF BufferFits
    <3>3. Stretch(S, c + 1, c + 1)
      BY <1>6, <1>7, <2>2 DEF Stretch
    <3>4. Goal(c + 1)
      BY <1>6, <3>2, <3>3
    <3> QED BY <3>4
  <2>3. CASE recv # "IDLE" /\ b # Flag /\ (buf' = buf \/ Len(buf') = Len(buf) + 1)
    <3>1. Stretch(S, a, c) /\ Len(buf) <= c - a
      BY <1>6, <2>3
    <3>2. Stretch(S, a, c + 1) /\ a \in 1 .. Len(S) /\ a <= c + 1
      BY <1>6, <1>7, <2>3, <3>1 DEF Stretch
    <3>3. PICK p \in Packets : (c + 1) - a < Len(Frame(p))
      BY <1>6, <1>7, <3>2 DEF Short
    <3>4. Len(buf) \in Nat /\ Len(buf') \in Nat /\ Len(Frame(p)) \in Nat
      BY SMTT(30), <1>1, <1>4, FrameFacts DEF Types
    <3>5. Len(buf') <= (c + 1) - a
      BY <1>6, <2>3, <3>1, <3>4
    <3>6. BufferFits'
      BY <1>6, <3>2, <3>3, <3>4, <3>5 DEF BufferFits
    <3>7. Goal(a)
      BY <1>6, <3>2, <3>5, <3>6
    <3> QED BY <3>7
  <2> QED BY <1>8, <2>1, <2>2, <2>3
<1>11. PICK d : Goal(d)
  BY <1>10
<1>12. Sized(S, base, c + 1, d)'
  <2>1. c + 1 \in 0 .. Len(S)
    BY <1>6, <1>7
  <2> QED BY <1>6, <1>7, <1>9, <1>11, <2>1 DEF Sized, Short, Stretch
<1> QED BY <1>1, <1>11, <1>12 DEF SizeInv
-----------------------------------------------------------------------------
(* The two invariants together: the buffer is large enough whatever write does, and
   the receiver keeps up as long as no write strays. *)
LineInv == SizeInv /\ (strayed = {} => FrameInv)

LEMMA LineInvHolds == F!Spec => []LineInv
<1>1. F!Init => LineInv
  BY InitSizeInv, InitFrameInv DEF LineInv
<1>2. LineInv /\ [F!Next]_F!vars => LineInv'
  <2> SUFFICES ASSUME LineInv, [F!Next]_F!vars PROVE LineInv'
    OBVIOUS
  <2>1. strayed' = {} => strayed = {}
    BY DEF F!Next, F!StartFrame, F!Write, F!WriteFails, F!Recv, F!vars
  <2>2. CASE F!StartFrame
    BY <2>1, <2>2, SendSizeInv, StartFrameInv DEF LineInv
  <2>3. CASE F!Write
    BY <2>1, <2>3, SendSizeInv, WriteInv DEF LineInv
  <2>4. CASE F!WriteFails
    BY <2>1, <2>4, SendSizeInv, WriteFailsInv DEF LineInv
  <2>5. CASE F!Recv
    BY <2>1, <2>5, RecvSizeInv, RecvInv DEF LineInv
  <2>6. CASE UNCHANGED F!vars
    <3>1. UNCHANGED <<frame, left, written, line, recv, buf, sent, failed, strayed, delivered>>
      BY <2>6 DEF F!vars, F!sendVars, F!recvVars
    <3>2. Types' /\ Sending' /\ BufferFits'
      BY <3>1 DEF LineInv, SizeInv, Types, Sending, BufferFits
    <3>3. SizeInv'
      <4>1. PICK S, base, c, a : Sized(S, base, c, a)
        BY DEF LineInv, SizeInv
      <4>2. Sized(S, base, c, a)'
        BY <3>1, <4>1 DEF Sized, Short, Stretch, Begun
      <4> QED BY <3>2, <4>2 DEF SizeInv
    <3>4. ASSUME FrameInv PROVE FrameInv'
      <4>1. PICK S, start, c : Framed(S, start) /\ Received(S, start, c)
        BY <3>4 DEF FrameInv
      <4>2. Framed(S, start)' /\ Received(S, start, c)'
        BY <3>1, <4>1 DEF Framed, Received, Between, Inside, Misled
      <4> QED BY <3>1, <3>2, <3>4, <4>2 DEF FrameInv, EndTypes
    <3> QED BY <3>1, <3>3, <3>4 DEF LineInv
  <2> QED BY <2>2, <2>3, <2>4, <2>5, <2>6 DEF F!Next
<1> QED BY <1>1, <1>2, PTL DEF F!Spec

(* Both ends stay well formed (CSerialSendTask::svc, CSerialRecvTask::svc), whatever
   bytes packets are made of, however write cuts a frame and whichever writes fail or
   stray: the receiver never collects as many bytes as the frame of one packet has,
   so that a buffer of the sender's size holds them; and as long as no write strays,
   what it collects is the beginning of one packet and its checksum. *)
THEOREM FramesWellFormed == F!Spec => []EndsWellFormed
<1>1. LineInv => EndsWellFormed
  BY DEF LineInv, SizeInv, BufferFits, FrameInv, EndTypes, Types, EndsWellFormed
<1> QED BY <1>1, LineInvHolds, PTL

(* Framing is transparent (CSerialSendTask::svc, CSerialRecvTask::svc), for any number
   of calls of write: until one fails or strays the packets delivered are the first
   ones sent, and once the line is empty they are all of them and the receiver waits
   for a flag. *)
THEOREM FramingTransparent == F!Spec => []Transparent
<1>1. LineInv => Transparent
  <2> SUFFICES ASSUME FrameInv, failed = {}
               PROVE  /\ IsPrefix(delivered, sent)
                      /\ Quiet => delivered = sent /\ recv = "IDLE"
    BY DEF LineInv, Transparent
  <2>1. PICK S, start, c : Framed(S, start) /\ Received(S, start, c)
    BY DEF FrameInv
  <2>2. EndTypes
    BY DEF FrameInv
  <2>3. /\ S \in Seq(Bytes) /\ Len(S) \in Nat /\ c \in 0 .. Len(S) /\ line = SubSeq(S, c + 1, Len(S))
        /\ sent \in Seq(Packets) /\ Len(sent) \in Nat /\ start[Len(sent) + 1] = Len(S)
    BY <2>1, <2>2 DEF Framed, Received, EndTypes, Types
  <2>4. ASSUME NEW k \in 0 .. Len(sent), delivered = SubSeq(sent, 1, k)
        PROVE  IsPrefix(delivered, sent)
    <3>1. Len(delivered) = k /\ k \in Nat /\ k <= Len(sent)
      BY <2>3, <2>4
    <3> QED BY <2>4, <3>1 DEF IsPrefix
  <2>5. Quiet => c = Len(S)
    <3>1. line = <<>> => Len(line) = 0
      OBVIOUS
    <3>2. Len(line) = Len(S) - c
      BY <2>3, RestOf
    <3> QED BY <2>3, <3>1, <3>2 DEF Quiet
  <2>6. CASE Between(start, c)
    <3>1. PICK k : /\ k \in 0 .. Len(sent) /\ c = start[k + 1] /\ delivered = SubSeq(sent, 1, k)
      BY <2>6 DEF Between
    <3>2. ASSUME Quiet PROVE k = Len(sent)
      <4> SUFFICES ASSUME k < Len(sent) PROVE FALSE
        BY <2>3, <3>1
      <4>1. k + 1 \in 1 .. Len(sent) /\ (k + 1) + 1 \in 1 .. Len(sent) + 1
        BY <2>3, <3>1
      <4>2. /\ start[k + 1] \in Nat /\ start[(k + 1) + 1] \in Nat
            /\ Len(Frame(sent[k + 1])) \in Nat /\ Len(Frame(sent[k + 1])) >= 2
            /\ start[(k + 1) + 1] - start[k + 1]
                 = Len(Frame(sent[k + 1])) - (IF k + 1 = Len(sent) THEN left ELSE 0)
        BY <2>1, <2>2, <4>1, FramedFacts
      <4>3. start[(k + 1) + 1] - start[k + 1] = Len(Frame(sent[k + 1])) - 0
        BY <3>2, <4>2 DEF Quiet
      <4>4. start[(k + 1) + 1] <= start[Len(sent) + 1]
        <5>1. Len(sent) + 1 \in 1 .. Len(sent) + 1 /\ (k + 1) + 1 <= Len(sent) + 1
          BY <2>3, <4>1
        <5> QED BY <2>1, <4>1, <5>1 DEF Framed
      <4>5. start[k + 1] = Len(S)
        BY <2>5, <3>1, <3>2
      <4>6. start[(k + 1) + 1] <= Len(S)
        BY <2>3, <4>4
      <4> QED BY <2>3, <4>2, <4>3, <4>5, <4>6
    <3>3. ASSUME Quiet PROVE delivered = sent
      <4>1. SubSeq(sent, 1, Len(sent)) = sent
        BY <2>3, SubSeqFull
      <4> QED BY <3>1, <3>2, <3>3, <4>1
    <3> QED BY <2>4, <2>6, <3>1, <3>3 DEF Between
  <2>7. CASE Inside(start, c)
    <3>1. PICK k : k \in 1 .. Len(sent) /\ \E o \in 1 .. start[k + 1] - start[k] :
                     /\ c = start[k] + o /\ Reading(sent[k], o, recv, buf)
                     /\ delivered = SubSeq(sent, 1, k - 1)
      BY <2>7 DEF Inside
    <3>2. PICK o : /\ o \in 1 .. start[k + 1] - start[k]
                   /\ c = start[k] + o /\ Reading(sent[k], o, recv, buf)
                   /\ delivered = SubSeq(sent, 1, k - 1)
      BY <3>1
    <3>3. k - 1 \in 0 .. Len(sent)
      BY <2>3, <3>1
    <3>4. ASSUME Quiet PROVE FALSE
      <4>1. /\ k \in Nat /\ k <= Len(sent) /\ sent[k] \in Packets /\ start[k] \in Nat /\ start[k + 1] \in Nat
            /\ Len(Frame(sent[k])) \in Nat
            /\ start[k + 1] - start[k] = Len(Frame(sent[k])) - (IF k = Len(sent) THEN left ELSE 0)
        BY <2>1, <2>2, <3>1, FramedFacts
      <4>2. start[k + 1] - start[k] = Len(Frame(sent[k])) - 0
        BY <3>4, <4>1 DEF Quiet
      <4>3. o \in 1 .. Len(Frame(sent[k])) - 1
        BY <3>2, <4>1, ReadingFacts
      <4>4. start[k + 1] <= start[Len(sent) + 1]
        <5>1. /\ k + 1 \in 1 .. Len(sent) + 1 /\ Len(sent) + 1 \in 1 .. Len(sent) + 1
              /\ k + 1 <= Len(sent) + 1
          BY <2>3, <3>1
        <5> QED BY <2>1, <5>1 DEF Framed
      <4>5. start[k] + o = Len(S) /\ start[k + 1] <= Len(S)
        BY <2>3, <2>5, <3>2, <3>4, <4>4
      <4> QED BY <2>3, <4>1, <4>2, <4>3, <4>5
    <3> QED BY <2>4, <3>2, <3>3, <3>4
  <2>8. ~ Misled(start, c)
    BY DEF Misled
  <2> QED BY <2>1, <2>6, <2>7, <2>8 DEF Received
<1> QED BY <1>1, LineInvHolds, PTL
=============================================================================
