----------------------------- MODULE TestWindow -----------------------------
(***************************************************************************)
(* The probe table every monitored host owns: COneTypeTestInfo in          *)
(* ts_module/TS_OneWanLineStatusManager.h.  A table is a ring of slots,    *)
(* one per probe sent, with two running counters that the channel checks   *)
(* read instead of scanning the ring: m_lost_num and m_rsp_num.            *)
(*                                                                         *)
(* A slot keeps the id of its probe, whether a probe was ever sent in it   *)
(* (send_time # 0) and the fate of that probe, which the code encodes in   *)
(* rsp_time: 0 is "none", (ACE_UINT32)-1 is "lost", any other time is      *)
(* "got".  Times themselves are abstracted: every caller passes a timeout  *)
(* of 0 to CheckTimeout, so a sent probe that has no answer is overdue at  *)
(* the very next check.  onoff is 1 in every table the program creates     *)
(* (TS_Base.cpp:125 and 141).                                              *)
(***************************************************************************)
EXTENDS Integers, FiniteSets

Fates == {"none", "lost", "got"}

OneTestItem(Ids) == [id : Ids, sent : BOOLEAN, fate : Fates]

(* A table of max slots; cur_index may equal max until the next send wraps it. *)
Windows(max, Ids) == [items : [0 .. max - 1 -> OneTestItem(Ids)],
                      cur   : 0 .. max,
                      lost  : 0 .. max,
                      rsp   : 0 .. max]

NewItem == [id |-> 0, sent |-> FALSE, fate |-> "none"]

(* init(1, nums): a fresh table, counters at zero. *)
InitWindow(max) == [items |-> [k \in 0 .. max - 1 |-> NewItem],
                    cur   |-> 0,
                    lost  |-> 0,
                    rsp   |-> 0]

SlotsOf(w) == DOMAIN w.items
IdsIn(w) == {w.items[k].id : k \in SlotsOf(w)}
WithFate(w, f) == {k \in SlotsOf(w) : w.items[k].fate = f}

(* The slot the next probe goes to. *)
NextSlot(w) == IF w.cur \in SlotsOf(w) THEN w.cur ELSE 0

Decrement(n) == IF n > 0 THEN n - 1 ELSE n

OnSendOneRequest_KeepsLost(w, i) ==
  LET c == NextSlot(w) IN
  [items |-> [w.items EXCEPT ![c] = [id |-> i, sent |-> TRUE, fate |-> "none"]],
   cur   |-> c + 1,
   lost  |-> w.lost,
   rsp   |-> IF w.items[c].fate = "got" THEN Decrement(w.rsp) ELSE w.rsp]

OnSendOneRequest_KeepsRsp(w, i) ==
  LET c == NextSlot(w) IN
  [items |-> [w.items EXCEPT ![c] = [id |-> i, sent |-> TRUE, fate |-> "none"]],
   cur   |-> c + 1,
   lost  |-> IF w.items[c].fate = "lost" THEN Decrement(w.lost) ELSE w.lost,
   rsp   |-> w.rsp]

(* A probe is sent: the slot it overwrites leaves the counter it was in. *)
OnSendOneRequest(w, i) ==
  LET c   == NextSlot(w)
      old == w.items[c].fate
  IN [items |-> [w.items EXCEPT ![c] = [id |-> i, sent |-> TRUE, fate |-> "none"]],
      cur   |-> c + 1,
      lost  |-> IF old = "lost" THEN Decrement(w.lost) ELSE w.lost,
      rsp   |-> IF old = "got" THEN Decrement(w.rsp) ELSE w.rsp]

(* The slots an answer may be booked in: pending ones with its id, sent or not. *)
Waiting(w, i) == {k \in SlotsOf(w) : w.items[k].id = i /\ w.items[k].fate = "none"}

Earliest(S) == CHOOSE k \in S : \A l \in S : k <= l

OnGetOneRsp_Late(w, i) ==
  LET hits == {k \in SlotsOf(w) : w.items[k].id = i /\ w.items[k].fate # "got"} IN
  IF hits = {} THEN w
  ELSE [w EXCEPT !.items[Earliest(hits)].fate = "got", !.rsp = @ + 1]

(* An answer arrives: the first slot that waits for it is booked, if any. *)
OnGetOneRsp(w, i) ==
  IF Waiting(w, i) = {} THEN w
  ELSE [w EXCEPT !.items[Earliest(Waiting(w, i))].fate = "got",
                 !.rsp = IF @ < Cardinality(SlotsOf(w)) THEN @ + 1 ELSE @]

Overdue(w) == {k \in SlotsOf(w) : w.items[k].sent /\ w.items[k].fate = "none"}

(* CheckTimeout(now, 0): every probe sent and not answered becomes lost. *)
CheckTimeout(w) ==
  [items |-> [k \in SlotsOf(w) |->
                IF k \in Overdue(w) THEN [w.items[k] EXCEPT !.fate = "lost"]
                                    ELSE w.items[k]],
   cur   |-> w.cur,
   lost  |-> w.lost + Cardinality(Overdue(w)),
   rsp   |-> w.rsp]

(* What the loop leaves with which a channel enters ECHO_CHECKING: one OnSendOneRequest
   per slot, with consecutive ids after seq (modulo M), the first in the slot that is
   next.  The loop itself, one call after the other, is FillLoop in TestWindow_proofs,
   and lemma FillByLoop there says that it leaves this. *)
FillWindow(w, seq, M) ==
  LET max == Cardinality(SlotsOf(w)) IN
  [items |-> [k \in SlotsOf(w) |->
                [id   |-> (seq + 1 + ((k - NextSlot(w) + max) % max)) % M,
                 sent |-> TRUE,
                 fate |-> "none"]],
   cur   |-> IF NextSlot(w) = 0 THEN max ELSE NextSlot(w),
   lost  |-> w.lost - Cardinality(WithFate(w, "lost")),
   rsp   |-> w.rsp - Cardinality(WithFate(w, "got"))]

(* GetRspNum and the counter CheckTimeout returns are read through these.  *)
GetRspNum(w) == w.rsp

(***************************************************************************)
(* What the counters promise (TS_OneWanLineStatusManager.h:100): they are  *)
(* the numbers of slots in the lost and in the answered state.             *)
(***************************************************************************)
CountersExact(w) ==
  /\ w.lost = Cardinality(WithFate(w, "lost"))
  /\ w.rsp = Cardinality(WithFate(w, "got"))
=============================================================================
