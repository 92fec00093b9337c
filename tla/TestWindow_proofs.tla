------------------------- MODULE TestWindow_proofs --------------------------
(***************************************************************************)
(* The counters of a probe table are exact after every operation, for every*)
(* size of the table and every space of ids.                               *)
(***************************************************************************)
EXTENDS TestWindow, FiniteSetTheorems, WellFoundedInduction, TLAPS

(* Every non-empty set of natural numbers has a least element. *)
LEMMA LeastNatural ==
  ASSUME NEW S \in SUBSET Nat, S # {}
  PROVE  \E k \in S : \A l \in S : k <= l
<1> DEFINE R == OpToRel(<, Nat)
<1>1. IsWellFoundedOn(R, Nat)
  BY NatLessThanWellFounded
<1>2. PICK k \in S : \A l \in S : ~ (<<l, k>> \in R)
  <2> HIDE DEF R
  <2> QED BY <1>1, WFMin
<1>3. \A l \in S : ~ (l < k)
  BY <1>2 DEF OpToRel
<1> QED BY <1>3

(* The slots of a table and the subsets of them the counters stand for. *)
LEMMA Slots ==
  ASSUME NEW max \in Nat, NEW Ids, NEW w \in Windows(max, Ids)
  PROVE  /\ SlotsOf(w) = 0 .. max - 1
         /\ IsFiniteSet(SlotsOf(w)) /\ Cardinality(SlotsOf(w)) = max
         /\ \A S \in SUBSET SlotsOf(w) : IsFiniteSet(S) /\ Cardinality(S) \in 0 .. max
<1>1. SlotsOf(w) = 0 .. max - 1
  BY DEF Windows, SlotsOf
<1>2. IsFiniteSet(SlotsOf(w)) /\ Cardinality(SlotsOf(w)) = max
  BY <1>1, FS_Interval
<1>3. ASSUME NEW S \in SUBSET SlotsOf(w)
      PROVE  IsFiniteSet(S) /\ Cardinality(S) \in 0 .. max
  <2>1. IsFiniteSet(S) /\ Cardinality(S) <= max
    BY <1>2, FS_Subset
  <2>2. Cardinality(S) \in Nat
    BY <2>1, FS_CardinalityType
  <2> QED BY <2>1, <2>2
<1> QED BY <1>1, <1>2, <1>3

(* Sending a probe takes its slot out of whichever counter held it. *)
LEMMA SendKeepsCounters ==
  ASSUME NEW max \in Nat \ {0}, NEW Ids, NEW i \in Ids,
         NEW w \in Windows(max, Ids), CountersExact(w)
  PROVE  /\ OnSendOneRequest(w, i) \in Windows(max, Ids)
         /\ CountersExact(OnSendOneRequest(w, i))
<1> DEFINE c == NextSlot(w)
           v == OnSendOneRequest(w, i)
<1>1. /\ SlotsOf(w) = 0 .. max - 1
      /\ \A S \in SUBSET SlotsOf(w) : IsFiniteSet(S) /\ Cardinality(S) \in 0 .. max
  BY Slots
<1>2. c \in SlotsOf(w) /\ c \in 0 .. max - 1
  BY <1>1 DEF NextSlot
<1>3. /\ v.items = [w.items EXCEPT ![c] = [id |-> i, sent |-> TRUE, fate |-> "none"]]
      /\ v.cur = c + 1
      /\ v.lost = IF w.items[c].fate = "lost" THEN Decrement(w.lost) ELSE w.lost
      /\ v.rsp = IF w.items[c].fate = "got" THEN Decrement(w.rsp) ELSE w.rsp
      /\ v = [items |-> v.items, cur |-> v.cur, lost |-> v.lost, rsp |-> v.rsp]
  BY DEF OnSendOneRequest
<1>4. v.items \in [0 .. max - 1 -> OneTestItem(Ids)]
  BY <1>2, <1>3 DEF Windows, OneTestItem, Fates
<1>5. ASSUME NEW f \in {"lost", "got"}
      PROVE  WithFate(v, f) = WithFate(w, f) \ {c}
  BY <1>1, <1>2, <1>3 DEF WithFate, SlotsOf, Windows, OneTestItem
<1>6. ASSUME NEW f \in {"lost", "got"}
      PROVE  /\ Cardinality(WithFate(w, f)) \in 0 .. max
             /\ Cardinality(WithFate(v, f)) =
                  IF w.items[c].fate = f THEN Cardinality(WithFate(w, f)) - 1
                                         ELSE Cardinality(WithFate(w, f))
             /\ Cardinality(WithFate(v, f)) \in Nat
  <2>1. IsFiniteSet(WithFate(w, f)) /\ Cardinality(WithFate(w, f)) \in 0 .. max
    BY <1>1 DEF WithFate
  <2>2. c \in WithFate(w, f) <=> w.items[c].fate = f
    BY <1>2 DEF WithFate
  <2>3. Cardinality(WithFate(w, f) \ {c}) \in Nat
    BY <2>1, FS_RemoveElement, FS_CardinalityType
  <2>4. Cardinality(WithFate(v, f)) =
          IF c \in WithFate(w, f) THEN Cardinality(WithFate(w, f)) - 1
                                  ELSE Cardinality(WithFate(w, f))
    BY <1>5, <2>1, FS_RemoveElement
  <2>5. Cardinality(WithFate(v, f)) \in Nat
    BY <1>5, <2>3
  <2> HIDE DEF v
  <2> QED BY <2>1, <2>2, <2>4, <2>5
<1>7. v.lost = Cardinality(WithFate(v, "lost")) /\ v.rsp = Cardinality(WithFate(v, "got"))
  BY <1>3, <1>6 DEF CountersExact, Decrement
<1>8. v.lost \in 0 .. max /\ v.rsp \in 0 .. max
  BY <1>6, <1>7
<1>9. v \in Windows(max, Ids)
  <2>1. v.cur \in 0 .. max
    BY <1>2, <1>3
  <2> HIDE DEF v
  <2>2. [items |-> v.items, cur |-> v.cur, lost |-> v.lost, rsp |-> v.rsp]
          \in Windows(max, Ids)
    BY <1>4, <1>8, <2>1 DEF Windows
  <2> QED BY <1>3, <2>2
<1> QED BY <1>7, <1>9 DEF CountersExact

(* Booking an answer moves one pending slot to the answered ones. *)
LEMMA RspKeepsCounters ==
  ASSUME NEW max \in Nat, NEW Ids, NEW i,
         NEW w \in Windows(max, Ids), CountersExact(w)
  PROVE  /\ OnGetOneRsp(w, i) \in Windows(max, Ids)
         /\ CountersExact(OnGetOneRsp(w, i))
<1> DEFINE e == Earliest(Waiting(w, i))
           v == OnGetOneRsp(w, i)
<1>1. /\ SlotsOf(w) = 0 .. max - 1 /\ Cardinality(SlotsOf(w)) = max
      /\ IsFiniteSet(SlotsOf(w))
      /\ \A S \in SUBSET SlotsOf(w) : IsFiniteSet(S) /\ Cardinality(S) \in 0 .. max
  BY Slots
<1>2. CASE Waiting(w, i) = {}
  BY <1>2 DEF OnGetOneRsp
<1>3. CASE Waiting(w, i) # {}
  <2>1. e \in Waiting(w, i)
    <3>1. Waiting(w, i) \subseteq 0 .. max - 1
      BY <1>1 DEF Waiting
    <3>2. \E k \in Waiting(w, i) : \A l \in Waiting(w, i) : k <= l
      BY <1>3, <3>1, LeastNatural
    <3> QED BY <3>2 DEF Earliest
  <2>2. e \in SlotsOf(w) /\ w.items[e].fate = "none"
    BY <2>1 DEF Waiting
  <2>3. /\ v.items = [w.items EXCEPT ![e].fate = "got"]
        /\ v.cur = w.cur /\ v.lost = w.lost
        /\ v.rsp = IF w.rsp < max THEN w.rsp + 1 ELSE w.rsp
        /\ v = [items |-> v.items, cur |-> v.cur, lost |-> v.lost, rsp |-> v.rsp]
    BY <1>1, <1>3 DEF OnGetOneRsp, Windows
  <2>4. v.items \in [0 .. max - 1 -> OneTestItem(Ids)]
    BY <1>1, <2>2, <2>3 DEF Windows, OneTestItem, Fates
  <2>5. WithFate(v, "lost") = WithFate(w, "lost")
    BY <1>1, <2>2, <2>3 DEF WithFate, SlotsOf, Windows, OneTestItem
  <2>6. WithFate(v, "got") = WithFate(w, "got") \cup {e}
    BY <1>1, <2>2, <2>3 DEF WithFate, SlotsOf, Windows, OneTestItem
  <2>7. e \notin WithFate(w, "got")
    BY <2>2 DEF WithFate
  <2>8. /\ IsFiniteSet(WithFate(w, "got")) /\ Cardinality(WithFate(w, "got")) \in 0 .. max
        /\ Cardinality(WithFate(v, "got")) \in 0 .. max
    <3>1. WithFate(w, "got") \subseteq SlotsOf(w) /\ WithFate(v, "got") \subseteq SlotsOf(w)
      BY <2>2, <2>6 DEF WithFate
    <3> QED BY <1>1, <3>1
  <2>9. Cardinality(WithFate(v, "got")) = Cardinality(WithFate(w, "got")) + 1
    BY <2>6, <2>7, <2>8, FS_AddElement
  <2>10. v.rsp = Cardinality(WithFate(v, "got"))
    BY <2>3, <2>8, <2>9 DEF CountersExact
  <2> QED BY <2>3, <2>4, <2>5, <2>8, <2>10 DEF Windows, CountersExact
<1> QED BY <1>2, <1>3

(* A timeout moves every pending slot that was sent to the lost ones. *)
LEMMA TimeoutKeepsCounters ==
  ASSUME NEW max \in Nat, NEW Ids, NEW w \in Windows(max, Ids), CountersExact(w)
  PROVE  /\ CheckTimeout(w) \in Windows(max, Ids)
         /\ CountersExact(CheckTimeout(w))
<1> DEFINE v == CheckTimeout(w)
<1>1. /\ SlotsOf(w) = 0 .. max - 1
      /\ \A S \in SUBSET SlotsOf(w) : IsFiniteSet(S) /\ Cardinality(S) \in 0 .. max
  BY Slots
<1>2. /\ v.items = [k \in SlotsOf(w) |->
                      IF k \in Overdue(w) THEN [w.items[k] EXCEPT !.fate = "lost"]
                                          ELSE w.items[k]]
      /\ v.cur = w.cur /\ v.rsp = w.rsp
      /\ v.lost = w.lost + Cardinality(Overdue(w))
      /\ v = [items |-> v.items, cur |-> v.cur, lost |-> v.lost, rsp |-> v.rsp]
  BY DEF CheckTimeout
<1>3. v.items \in [0 .. max - 1 -> OneTestItem(Ids)]
  BY <1>1, <1>2 DEF Windows, OneTestItem, Fates
<1>4. WithFate(v, "got") = WithFate(w, "got")
  BY <1>1, <1>2 DEF WithFate, SlotsOf, Windows, OneTestItem, Overdue
<1>5. WithFate(v, "lost") = WithFate(w, "lost") \cup Overdue(w)
  BY <1>1, <1>2 DEF WithFate, SlotsOf, Windows, OneTestItem, Overdue
<1>6. WithFate(w, "lost") \cap Overdue(w) = {}
  BY DEF WithFate, Overdue
<1>7. /\ WithFate(w, "lost") \in SUBSET SlotsOf(w) /\ Overdue(w) \in SUBSET SlotsOf(w)
      /\ WithFate(v, "lost") \in SUBSET SlotsOf(w)
  BY <1>5 DEF WithFate, Overdue
<1>8. Cardinality(WithFate(v, "lost")) =
        Cardinality(WithFate(w, "lost")) + Cardinality(Overdue(w))
  <2>1. IsFiniteSet(WithFate(w, "lost")) /\ IsFiniteSet(Overdue(w))
    BY <1>1, <1>7
  <2>2. Cardinality(WithFate(w, "lost") \cap Overdue(w)) = 0
    BY <1>6, FS_EmptySet
  <2>3. /\ Cardinality(WithFate(w, "lost")) \in Nat
        /\ Cardinality(Overdue(w)) \in Nat
    BY <1>1, <1>7
  <2> QED BY <1>5, <2>1, <2>2, <2>3, FS_Union
<1>9. v.lost = Cardinality(WithFate(v, "lost")) /\ v.lost \in 0 .. max
  BY <1>1, <1>2, <1>7, <1>8 DEF CountersExact
<1> QED BY <1>2, <1>3, <1>4, <1>9 DEF Windows, CountersExact

(* A filled table holds only pending probes, whatever it held before. *)
LEMMA FillKeepsCounters ==
  ASSUME NEW M \in Nat \ {0}, NEW seq \in 0 .. M - 1, NEW max \in Nat \ {0},
         NEW w \in Windows(max, 0 .. M - 1), CountersExact(w)
  PROVE  /\ FillWindow(w, seq, M) \in Windows(max, 0 .. M - 1)
         /\ CountersExact(FillWindow(w, seq, M))
<1> DEFINE v == FillWindow(w, seq, M)
<1>1. /\ SlotsOf(w) = 0 .. max - 1 /\ Cardinality(SlotsOf(w)) = max
  BY Slots
<1>2. NextSlot(w) \in 0 .. max - 1
  BY <1>1 DEF NextSlot
<1>3. \A k \in 0 .. max - 1 : (seq + 1 + ((k - NextSlot(w) + max) % max)) % M \in 0 .. M - 1
  <2> TAKE k \in 0 .. max - 1
  <2>1. (k - NextSlot(w) + max) % max \in Nat
    BY <1>2
  <2> QED BY <2>1
<1>4. v.items = [k \in 0 .. max - 1 |->
                   [id   |-> (seq + 1 + ((k - NextSlot(w) + max) % max)) % M,
                    sent |-> TRUE,
                    fate |-> "none"]]
  BY <1>1 DEF FillWindow
<1>5. v.items \in [0 .. max - 1 -> OneTestItem(0 .. M - 1)]
  BY <1>3, <1>4 DEF OneTestItem, Fates
<1>6. WithFate(v, "lost") = {} /\ WithFate(v, "got") = {}
  BY <1>4 DEF WithFate, SlotsOf
<1>7. v.lost = 0 /\ v.rsp = 0
  BY DEF FillWindow, CountersExact, Windows
<1>8. v.cur \in 0 .. max
  BY <1>1, <1>2 DEF FillWindow
<1>9. v \in Windows(max, 0 .. M - 1)
  <2>1. v = [items |-> v.items, cur |-> v.cur, lost |-> v.lost, rsp |-> v.rsp]
    BY DEF FillWindow
  <2> HIDE DEF v
  <2>2. v.lost \in 0 .. max /\ v.rsp \in 0 .. max
    BY <1>7
  <2>3. [items |-> v.items, cur |-> v.cur, lost |-> v.lost, rsp |-> v.rsp]
          \in Windows(max, 0 .. M - 1)
    BY <1>5, <1>8, <2>2 DEF Windows
  <2> QED BY <2>1, <2>3
<1> HIDE DEF v
<1>10. CountersExact(v)
  BY <1>6, <1>7, FS_EmptySet DEF CountersExact
<1> QED BY <1>9, <1>10 DEF v

(* The loop in f_BackNetCheck: one OnSendOneRequest per slot. *)
FillLoop(w, seq, M) ==
  LET max == Cardinality(SlotsOf(w))
      after[k \in 0 .. max] ==
        IF k = 0 THEN w ELSE OnSendOneRequest(after[k - 1], (seq + k) % M)
  IN after[max]

(* v holds the table before the loop of the fill and after each of its n turns. *)
FillSteps(v, w, seq, M, n) ==
  v = [k \in 0 .. n |-> IF k = 0 THEN w ELSE OnSendOneRequest(v[k - 1], (seq + k) % M)]

(* The recursive function in FillLoop is what its definition says. *)
LEMMA LoopDefined ==
  ASSUME NEW w, NEW seq, NEW M, NEW n \in Nat, Cardinality(SlotsOf(w)) = n
  PROVE  \E v : FillSteps(v, w, seq, M, n) /\ FillLoop(w, seq, M) = v[n]
<1> DEFINE Next(u, k) == OnSendOneRequest(u, (seq + k) % M)
           Is(v, m) == v = [k \in 0 .. m |-> IF k = 0 THEN w ELSE Next(v[k - 1], k)]
           Missing == {m \in Nat : ~ \E v : Is(v, m)}
<1> HIDE DEF Next
<1>1. Missing = {}
  <2> SUFFICES ASSUME Missing # {} PROVE FALSE
    OBVIOUS
  <2>1. PICK m \in Missing : \A l \in Missing : m <= l
    <3> HIDE DEF Missing
    <3>1. Missing \in SUBSET Nat
      BY DEF Missing
    <3> QED BY <3>1, LeastNatural
  <2>2. CASE m = 0
    <3> DEFINE g == [k \in 0 .. 0 |-> w]
    <3>1. Is(g, 0)
      OBVIOUS
    <3> QED BY <2>1, <2>2, <3>1
  <2>3. CASE m > 0
    <3>1. m \in Nat /\ m - 1 \in Nat /\ m - 1 \notin Missing
      <4> HIDE DEF Is
      <4>1. m \in Nat /\ m - 1 \in Nat
        BY <2>1, <2>3
      <4> HIDE DEF Missing
      <4> QED BY <2>1, <4>1
    <3>2. PICK f : Is(f, m - 1)
      BY <3>1
    <3> DEFINE g == [k \in 0 .. m |-> IF k = m THEN Next(f[m - 1], m) ELSE f[k]]
    <3>3. \A k \in 0 .. m - 1 : f[k] = IF k = 0 THEN w ELSE Next(f[k - 1], k)
      BY <3>2
    <3>4. \A k \in 0 .. m : g[k] = IF k = 0 THEN w ELSE Next(g[k - 1], k)
      BY <2>3, <3>1, <3>3
    <3>5. Is(g, m)
      BY <3>4
    <3> QED BY <2>1, <3>5
  <2> QED BY <2>1, <2>2, <2>3
<1>2. PICK f : Is(f, n)
  <2> HIDE DEF Is
  <2> QED BY <1>1
<1> DEFINE h == CHOOSE v : Is(v, n)
<1>3. Is(h, n)
  <2> HIDE DEF Is
  <2> QED BY <1>2
<1>4. FillLoop(w, seq, M) = h[n]
  BY DEF FillLoop, Next
<1>5. FillSteps(h, w, seq, M, n)
  BY <1>3 DEF FillSteps, Next
<1> QED BY <1>4, <1>5

(* The closed form of the fill is the loop in f_BackNetCheck, one OnSendOneRequest
   per slot.  Next to go is the slot that lies k slots behind the first one. *)
LEMMA FillByLoop ==
  ASSUME NEW M \in Nat \ {0}, NEW seq \in 0 .. M - 1, NEW n \in Nat \ {0},
         NEW w \in Windows(n, 0 .. M - 1), CountersExact(w)
  PROVE  FillWindow(w, seq, M) = FillLoop(w, seq, M)
<1>1. SlotsOf(w) = 0 .. n - 1 /\ Cardinality(SlotsOf(w)) = n
  BY Slots
<1>3. PICK v : FillSteps(v, w, seq, M, n) /\ FillLoop(w, seq, M) = v[n]
  BY <1>1, LoopDefined
<1> DEFINE c0 == NextSlot(w)
           Dist(s) == IF s >= c0 THEN s - c0 ELSE (s - c0) + n
           Probe(k) == [id |-> (seq + k) % M, sent |-> TRUE, fate |-> "none"]
<1>2. c0 \in 0 .. n - 1
  BY <1>1 DEF NextSlot
<1> DEFINE Filled(k) ==
             /\ v[k] \in Windows(n, 0 .. M - 1) /\ CountersExact(v[k])
             /\ NextSlot(v[k]) = IF c0 + k < n THEN c0 + k ELSE (c0 + k) - n
             /\ k > 0 => v[k].cur = IF c0 + k <= n THEN c0 + k ELSE (c0 + k) - n
             /\ \A s \in 0 .. n - 1 :
                  v[k].items[s] = IF Dist(s) < k THEN Probe(Dist(s) + 1) ELSE w.items[s]
<1>4. Filled(0)
  <2>1. v[0] = w
    BY <1>3 DEF FillSteps
  <2>2. \A s \in 0 .. n - 1 : ~ Dist(s) < 0
    BY <1>2
  <2> HIDE DEF c0, Dist, Probe
  <2>3. NextSlot(v[0]) = IF c0 + 0 < n THEN c0 + 0 ELSE (c0 + 0) - n
    BY <1>2, <2>1 DEF c0
  <2> QED BY <2>1, <2>2, <2>3
<1>5. ASSUME NEW k \in 0 .. n - 1, Filled(k) PROVE Filled(k + 1)
  <2> DEFINE u == v[k]
             c == NextSlot(u)
  <2>1. v[k + 1] = OnSendOneRequest(u, (seq + (k + 1)) % M) /\ (seq + (k + 1)) % M \in 0 .. M - 1
    <3>1. k + 1 \in 0 .. n /\ k + 1 # 0 /\ (k + 1) - 1 = k /\ seq + (k + 1) \in Nat
      OBVIOUS
    <3> QED BY <1>3, <3>1 DEF FillSteps
  <2>2. u \in Windows(n, 0 .. M - 1) /\ CountersExact(u)
    BY <1>5
  <2>3. v[k + 1] \in Windows(n, 0 .. M - 1) /\ CountersExact(v[k + 1])
    BY <2>1, <2>2, SendKeepsCounters
  <2>4. c = (IF c0 + k < n THEN c0 + k ELSE (c0 + k) - n) /\ c \in 0 .. n - 1
    BY <1>2, <1>5
  <2>5. \A s \in 0 .. n - 1 : (s = c <=> Dist(s) = k) /\ Dist(s) \in Nat
    BY <1>2, <2>4
  <2> HIDE DEF u, c0, Dist
  <2>6. v[k + 1].cur = c + 1 /\ v[k + 1].items = [u.items EXCEPT ![c] = Probe(k + 1)]
    BY <2>1 DEF OnSendOneRequest
  <2>7. v[k + 1].cur = IF c0 + (k + 1) <= n THEN c0 + (k + 1) ELSE (c0 + (k + 1)) - n
    BY <1>2, <2>4, <2>6
  <2>8. SlotsOf(v[k + 1]) = 0 .. n - 1
    BY <2>3, Slots
  <2>9. NextSlot(v[k + 1]) = IF c0 + (k + 1) < n THEN c0 + (k + 1) ELSE (c0 + (k + 1)) - n
    BY <1>2, <2>7, <2>8 DEF NextSlot
  <2>10. ASSUME NEW s \in 0 .. n - 1
         PROVE  v[k + 1].items[s] = IF Dist(s) < k + 1 THEN Probe(Dist(s) + 1) ELSE w.items[s]
    <3> HIDE DEF Probe, c
    <3>1. u.items[s] = IF Dist(s) < k THEN Probe(Dist(s) + 1) ELSE w.items[s]
      BY <1>5 DEF u
    <3>2. DOMAIN u.items = 0 .. n - 1
      BY <2>2 DEF Windows
    <3>3. CASE s = c
      <4>1. v[k + 1].items[s] = Probe(k + 1) /\ Dist(s) = k
        BY <2>4, <2>5, <2>6, <3>2, <3>3
      <4> QED BY <4>1
    <3>4. CASE s # c
      <4>1. v[k + 1].items[s] = u.items[s]
        BY <2>4, <2>6, <3>2, <3>4
      <4>2. Dist(s) < k + 1 <=> Dist(s) < k
        BY <2>5, <3>4
      <4> QED BY <3>1, <4>1, <4>2
    <3> QED BY <3>3, <3>4
  <2> HIDE DEF Probe
  <2> QED BY <2>3, <2>7, <2>9, <2>10
<1>6. Filled(n)
  <2> DEFINE Bad == {k \in 0 .. n : ~ Filled(k)}
  <2> HIDE DEF Filled
  <2> SUFFICES ASSUME Bad # {} PROVE FALSE
    OBVIOUS
  <2>1. Bad \in SUBSET Nat
    OBVIOUS
  <2>2. PICK k \in Bad : \A l \in Bad : k <= l
    BY <2>1, LeastNatural
  <2>3. k # 0 /\ k - 1 \in 0 .. n - 1 /\ k - 1 \notin Bad
    BY <1>4, <2>2
  <2>4. Filled(k - 1) /\ (k - 1) + 1 = k
    BY <2>2, <2>3
  <2> QED BY <1>5, <2>2, <2>3, <2>4
<1> DEFINE f == FillWindow(w, seq, M)
           t == v[n]
<1>7. /\ f \in Windows(n, 0 .. M - 1) /\ CountersExact(f)
      /\ t \in Windows(n, 0 .. M - 1) /\ CountersExact(t)
  BY <1>6, FillKeepsCounters
<1>8. f.items = [s \in 0 .. n - 1 |-> Probe(1 + ((s - c0 + n) % n))]
  <2>1. f.items = [s \in 0 .. n - 1 |->
                     [id |-> (seq + 1 + ((s - c0 + n) % n)) % M, sent |-> TRUE, fate |-> "none"]]
    BY <1>1 DEF FillWindow
  <2>2. \A s \in 0 .. n - 1 : (s - c0 + n) % n \in Nat
    BY <1>2
  <2>3. \A s \in 0 .. n - 1 : seq + (1 + ((s - c0 + n) % n)) = seq + 1 + ((s - c0 + n) % n)
    BY <2>2
  <2> QED BY <2>1, <2>3
<1> HIDE DEF f, t, Probe, c0
<1>9. ASSUME NEW s \in 0 .. n - 1 PROVE (s - c0 + n) % n = Dist(s) /\ Dist(s) \in 0 .. n - 1
  <2>1. PICK c \in 0 .. n - 1 : c = c0
    BY <1>2
  <2>2. CASE s >= c
    <3>1. PICK x \in n .. 2 * n - 1 : x = s - c + n
      BY <2>2
    <3>2. x % n = x - n
      OBVIOUS
    <3>3. (s - c + n) % n = s - c /\ s - c \in 0 .. n - 1
      <4>1. x - n = s - c
        BY <3>1
      <4>2. s - c \in 0 .. n - 1
        BY <2>2
      <4> QED BY <3>1, <3>2, <4>1, <4>2
    <3>4. Dist(s) = s - c
      BY <2>1, <2>2
    <3> QED BY <2>1, <3>3, <3>4
  <2>3. CASE s < c
    <3>1. PICK x \in 0 .. n - 1 : x = s - c + n
      BY <2>3
    <3>2. x % n = x
      OBVIOUS
    <3>3. (s - c + n) % n = s - c + n
      BY <3>1, <3>2
    <3>4. Dist(s) = s - c + n /\ s - c + n \in 0 .. n - 1
      <4>1. Dist(s) = (s - c) + n
        BY <2>1, <2>3
      <4> QED BY <2>3, <4>1
    <3> QED BY <2>1, <3>3, <3>4
  <2> QED BY <2>2, <2>3
<1> HIDE DEF Dist
<1>10. t.items = f.items
  <2>1. \A s \in 0 .. n - 1 : t.items[s] = Probe(Dist(s) + 1)
    BY <1>6, <1>9 DEF t
  <2>2. ASSUME NEW s \in 0 .. n - 1 PROVE f.items[s] = Probe(Dist(s) + 1)
    <3>1. f.items[s] = Probe(1 + ((s - c0 + n) % n))
      BY <1>8
    <3>2. f.items[s] = Probe(1 + Dist(s))
      BY <1>9, <3>1
    <3>3. 1 + Dist(s) = Dist(s) + 1
      BY <1>9
    <3> QED BY <3>2, <3>3
  <2>3. \A s \in 0 .. n - 1 : t.items[s] = f.items[s]
    BY <2>1, <2>2
  <2>4. t.items \in [0 .. n - 1 -> OneTestItem(0 .. M - 1)] /\ f.items \in [0 .. n - 1 -> OneTestItem(0 .. M - 1)]
    BY <1>7 DEF Windows
  <2> QED BY <2>3, <2>4
<1>11. t.cur = f.cur
  <2>1. f.cur = IF c0 = 0 THEN n ELSE c0
    BY <1>1 DEF f, FillWindow, c0
  <2>2. t.cur = IF c0 + n <= n THEN c0 + n ELSE (c0 + n) - n
    BY <1>6 DEF t
  <2> QED BY <1>2, <2>1, <2>2
<1>12. t.lost = f.lost /\ t.rsp = f.rsp
  <2>1. WithFate(t, "lost") = WithFate(f, "lost") /\ WithFate(t, "got") = WithFate(f, "got")
    BY <1>10 DEF WithFate, SlotsOf
  <2> QED BY <1>7, <2>1 DEF CountersExact
<1>13. t = f
  <2>1. /\ t = [items |-> t.items, cur |-> t.cur, lost |-> t.lost, rsp |-> t.rsp]
        /\ f = [items |-> f.items, cur |-> f.cur, lost |-> f.lost, rsp |-> f.rsp]
    BY <1>7 DEF Windows
  <2> QED BY <1>10, <1>11, <1>12, <2>1
<1> QED BY <1>3, <1>13 DEF f, t

(* A new table is empty. *)
LEMMA InitKeepsCounters ==
  ASSUME NEW max \in Nat, NEW Ids, 0 \in Ids
  PROVE  InitWindow(max) \in Windows(max, Ids) /\ CountersExact(InitWindow(max))
<1>1. InitWindow(max) \in Windows(max, Ids)
  BY DEF InitWindow, Windows, NewItem, OneTestItem, Fates
<1>2. WithFate(InitWindow(max), "lost") = {} /\ WithFate(InitWindow(max), "got") = {}
  BY DEF WithFate, SlotsOf, InitWindow, NewItem
<1> QED BY <1>1, <1>2, FS_EmptySet DEF CountersExact, InitWindow

(* No operation turns a probe that was counted lost into an answered one. *)
NotRevived(w, v) ==
  \A k \in SlotsOf(w) \cap SlotsOf(v) : w.items[k].fate = "lost" => v.items[k].fate # "got"

(* A new probe, with or without a time-out before it. *)
LEMMA SendDoesNotRevive ==
  ASSUME NEW max \in Nat \ {0}, NEW Ids, NEW i, NEW w \in Windows(max, Ids)
  PROVE  /\ NotRevived(w, OnSendOneRequest(w, i))
         /\ NotRevived(w, OnSendOneRequest(CheckTimeout(w), i))
<1>1. SlotsOf(w) = 0 .. max - 1 /\ NextSlot(w) \in SlotsOf(w)
  BY Slots DEF NextSlot
<1>2. NotRevived(w, OnSendOneRequest(w, i))
  BY <1>1 DEF NotRevived, OnSendOneRequest, SlotsOf
<1> DEFINE t == CheckTimeout(w)
<1>3. /\ SlotsOf(t) = SlotsOf(w) /\ NextSlot(t) = NextSlot(w)
      /\ \A k \in SlotsOf(w) : w.items[k].fate = "lost" => t.items[k].fate = "lost"
  BY DEF CheckTimeout, SlotsOf, NextSlot, Overdue
<1>4. NotRevived(w, OnSendOneRequest(t, i))
  <2> HIDE DEF t
  <2> QED BY <1>1, <1>3 DEF NotRevived, OnSendOneRequest, SlotsOf
<1> QED BY <1>2, <1>4

(* An answer is booked in a slot that still waits. *)
LEMMA AnswerDoesNotRevive ==
  ASSUME NEW max \in Nat, NEW Ids, NEW i, NEW w \in Windows(max, Ids)
  PROVE  NotRevived(w, OnGetOneRsp(w, i))
<1>1. CASE Waiting(w, i) = {}
  BY <1>1 DEF OnGetOneRsp, NotRevived
<1>2. CASE Waiting(w, i) # {}
  <2>1. SlotsOf(w) \subseteq Nat
    BY Slots
  <2>2. Earliest(Waiting(w, i)) \in Waiting(w, i)
    BY <1>2, <2>1, LeastNatural DEF Earliest, Waiting
  <2>3. OnGetOneRsp(w, i).items = [w.items EXCEPT ![Earliest(Waiting(w, i))].fate = "got"]
    BY <1>2 DEF OnGetOneRsp, Windows
  <2> QED BY <2>2, <2>3 DEF NotRevived, Waiting, SlotsOf
<1> QED BY <1>1, <1>2

(* A filled table and a new one hold no answers. *)
LEMMA NewProbesDoNotRevive ==
  ASSUME NEW w, NEW seq, NEW M, NEW max
  PROVE  NotRevived(w, FillWindow(w, seq, M)) /\ NotRevived(w, InitWindow(max))
BY DEF NotRevived, FillWindow, InitWindow, NewItem, SlotsOf

(* Nor does doing nothing. *)
LEMMA StayingDoesNotRevive ==
  ASSUME NEW max \in Nat, NEW Ids, NEW w \in Windows(max, Ids)
  PROVE  NotRevived(w, w)
BY DEF NotRevived

-----------------------------------------------------------------------------
(* Tables that wait for an answer *)

(* How many probes ago the slot k was last sent to. *)
Age(w, k) == IF k < w.cur THEN w.cur - k ELSE w.cur + Cardinality(SlotsOf(w)) - k

Recent(w, n) == {k \in SlotsOf(w) : Age(w, k) <= n}

(* None of the last n probes was answered. *)
Unheard(w, n) == \A k \in Recent(w, n) : w.items[k].sent /\ w.items[k].fate # "got"

LEMMA IntervalCount ==
  ASSUME NEW a \in Int, NEW b \in Int, a <= b + 1
  PROVE  IsFiniteSet(a .. b) /\ Cardinality(a .. b) = b - a + 1
<1>1. IsFiniteSet(a .. b) /\ Cardinality(a .. b) = IF a > b THEN 0 ELSE b - a + 1
  BY FS_Interval
<1> QED BY <1>1

(* The last n probes are in n slots. *)
LEMMA RecentCount ==
  ASSUME NEW max \in Nat \ {0}, NEW Ids, NEW w \in Windows(max, Ids), NEW n \in 0 .. max
  PROVE  /\ IsFiniteSet(Recent(w, n)) /\ Cardinality(Recent(w, n)) = n
         /\ Recent(w, n) \subseteq SlotsOf(w)
<1>1. /\ SlotsOf(w) = 0 .. max - 1 /\ Cardinality(SlotsOf(w)) = max
      /\ w.cur \in 0 .. max
  BY Slots DEF Windows
<1>2. CASE n <= w.cur
  <2>1. Recent(w, n) = w.cur - n .. w.cur - 1
    BY <1>1, <1>2 DEF Recent, Age
  <2>2. w.cur - n \in Int /\ w.cur - 1 \in Int /\ w.cur - n <= w.cur - 1 + 1
    BY <1>1
  <2>3. /\ IsFiniteSet(w.cur - n .. w.cur - 1)
        /\ Cardinality(w.cur - n .. w.cur - 1) = (w.cur - 1) - (w.cur - n) + 1
    BY <2>2, IntervalCount
  <2>4. (w.cur - 1) - (w.cur - n) + 1 = n
    BY <1>1
  <2>5. Recent(w, n) \subseteq SlotsOf(w)
    BY DEF Recent
  <2> QED BY <2>1, <2>3, <2>4, <2>5
<1>3. CASE n > w.cur
  <2> DEFINE A == 0 .. w.cur - 1
             B == w.cur + max - n .. max - 1
  <2>1. Recent(w, n) = A \cup B /\ A \cap B = {}
    BY <1>1, <1>3 DEF Recent, Age
  <2>2. IsFiniteSet(A) /\ Cardinality(A) = w.cur
    <3> DEFINE b == w.cur - 1
    <3>1. b \in Int /\ 0 <= b + 1 /\ b - 0 + 1 = w.cur
      BY <1>1
    <3> HIDE DEF b
    <3>2. IsFiniteSet(0 .. b) /\ Cardinality(0 .. b) = b - 0 + 1
      BY <3>1, IntervalCount
    <3> QED BY <3>1, <3>2 DEF b
  <2>3. IsFiniteSet(B) /\ Cardinality(B) = n - w.cur
    <3>1. /\ w.cur + max - n \in Int /\ max - 1 \in Int
          /\ w.cur + max - n <= max - 1 + 1
      BY <1>1, <1>3
    <3>2. IsFiniteSet(B) /\ Cardinality(B) = max - 1 - (w.cur + max - n) + 1
      BY <3>1, IntervalCount
    <3> QED BY <1>1, <3>2
  <2>4. Cardinality(A \cap B) = 0
    BY <2>1, FS_EmptySet
  <2> HIDE DEF A, B
  <2>5. IsFiniteSet(A \cup B) /\ Cardinality(A \cup B) = w.cur + (n - w.cur) - 0
    BY <2>2, <2>3, <2>4, FS_Union
  <2>6. Recent(w, n) \subseteq SlotsOf(w)
    BY DEF Recent
  <2> QED BY <1>1, <2>1, <2>5, <2>6
<1> QED BY <1>1, <1>2, <1>3 DEF Recent

(* A new probe is one more that was not answered. *)
LEMMA SendIsUnheard ==
  ASSUME NEW max \in Nat \ {0}, NEW Ids, NEW i, NEW w \in Windows(max, Ids),
         NEW n \in Nat, Unheard(w, n)
  PROVE  Unheard(OnSendOneRequest(w, i), n + 1)
<1> DEFINE c == NextSlot(w)
           v == OnSendOneRequest(w, i)
<1>1. /\ SlotsOf(w) = 0 .. max - 1 /\ Cardinality(SlotsOf(w)) = max
      /\ w.cur \in 0 .. max
  BY Slots DEF Windows
<1>2. c = IF w.cur < max THEN w.cur ELSE 0
  BY <1>1 DEF NextSlot
<1>3. /\ v.items = [w.items EXCEPT ![c] = [id |-> i, sent |-> TRUE, fate |-> "none"]]
      /\ v.cur = c + 1
  BY DEF OnSendOneRequest
<1>4. SlotsOf(v) = SlotsOf(w)
  BY <1>3 DEF SlotsOf
<1> HIDE DEF v, c
<1> SUFFICES ASSUME NEW k \in 0 .. max - 1, Age(v, k) <= n + 1
             PROVE  v.items[k].sent /\ v.items[k].fate # "got"
  BY <1>1, <1>4 DEF Unheard, Recent, v
<1>5. CASE k = c
  BY <1>1, <1>3, <1>5 DEF SlotsOf
<1>6. CASE k # c
  <2>1. Age(v, k) = Age(w, k) + 1
    BY <1>1, <1>2, <1>3, <1>4, <1>6 DEF Age
  <2>2. Age(w, k) \in Int
    BY <1>1 DEF Age
  <2>3. k \in Recent(w, n)
    BY <1>1, <2>1, <2>2 DEF Recent
  <2>4. v.items[k] = w.items[k]
    BY <1>1, <1>3, <1>6 DEF SlotsOf
  <2> QED BY <2>3, <2>4 DEF Unheard
<1> QED BY <1>5, <1>6

(* A time-out answers nothing, and of unanswered probes it leaves none pending. *)
LEMMA TimeoutIsUnheard ==
  ASSUME NEW max \in Nat \ {0}, NEW Ids, NEW w \in Windows(max, Ids), CountersExact(w),
         NEW n \in 0 .. max, Unheard(w, n)
  PROVE  CheckTimeout(w).lost >= n
<1> DEFINE v == CheckTimeout(w)
<1>1. v \in Windows(max, Ids) /\ CountersExact(v)
  BY TimeoutKeepsCounters
<1>2. /\ v.items = [k \in SlotsOf(w) |->
                      IF k \in Overdue(w) THEN [w.items[k] EXCEPT !.fate = "lost"]
                                          ELSE w.items[k]]
      /\ v.cur = w.cur
  BY DEF CheckTimeout
<1>3. /\ \A k \in SlotsOf(w) : w.items[k] \in OneTestItem(Ids)
      /\ SlotsOf(v) = SlotsOf(w)
  BY <1>2 DEF Windows, SlotsOf
<1> HIDE DEF v
<1>4. Recent(w, n) \subseteq WithFate(v, "lost")
  BY <1>2, <1>3 DEF Unheard, Recent, WithFate, Overdue, OneTestItem, Fates
<1>5. IsFiniteSet(WithFate(v, "lost"))
  BY <1>1, Slots DEF WithFate
<1>6. Cardinality(Recent(w, n)) = n
  BY RecentCount
<1>7. Cardinality(Recent(w, n)) <= Cardinality(WithFate(v, "lost"))
  BY <1>4, <1>5, FS_Subset
<1> QED BY <1>1, <1>6, <1>7 DEF CountersExact, v

LEMMA TimeoutStaysUnheard ==
  ASSUME NEW w, NEW n, Unheard(w, n)
  PROVE  Unheard(CheckTimeout(w), n)
<1> DEFINE v == CheckTimeout(w)
<1>1. SlotsOf(v) = SlotsOf(w) /\ v.cur = w.cur
  BY DEF CheckTimeout, SlotsOf
<1>2. Recent(v, n) = Recent(w, n)
  <2> HIDE DEF v
  <2> QED BY <1>1 DEF Recent, Age
<1>3. ASSUME NEW k \in Recent(w, n) PROVE v.items[k].sent /\ v.items[k].fate # "got"
  <2>1. w.items[k].sent /\ w.items[k].fate # "got" /\ k \in SlotsOf(w)
    BY <1>3 DEF Unheard, Recent
  <2> QED BY <2>1 DEF CheckTimeout, SlotsOf, Overdue
<1> HIDE DEF v
<1> QED BY <1>2, <1>3 DEF Unheard, v

(* What was not answered is not among the answers. *)
LEMMA UnheardBoundsRsp ==
  ASSUME NEW max \in Nat \ {0}, NEW Ids, NEW w \in Windows(max, Ids), CountersExact(w),
         NEW n \in 0 .. max, Unheard(w, n)
  PROVE  w.rsp + n <= max
<1> DEFINE R == Recent(w, n)
           G == WithFate(w, "got")
<1>1. IsFiniteSet(R) /\ Cardinality(R) = n /\ R \subseteq SlotsOf(w)
  BY RecentCount
<1>2. IsFiniteSet(G) /\ Cardinality(G) \in Nat /\ G \subseteq SlotsOf(w)
  BY Slots DEF WithFate
<1>3. R \cap G = {}
  BY DEF Unheard, WithFate
<1>4. w.rsp = Cardinality(G)
  BY DEF CountersExact
<1>5. IsFiniteSet(SlotsOf(w)) /\ Cardinality(SlotsOf(w)) = max
  BY Slots
<1> HIDE DEF R, G
<1>6. Cardinality(R \cup G) = n + Cardinality(G)
  <2>1. Cardinality(R \cap G) = 0
    BY <1>3, FS_EmptySet
  <2>2. Cardinality(R \cup G) = n + Cardinality(G) - 0
    BY <1>1, <1>2, <2>1, FS_Union
  <2> QED BY <1>2, <2>2
<1>7. R \cup G \subseteq SlotsOf(w)
  BY <1>1, <1>2
<1>8. Cardinality(R \cup G) <= max
  BY <1>5, <1>7, FS_Subset
<1> QED BY <1>2, <1>4, <1>6, <1>8

(* An answer that is not booked changes nothing; a booked one counts for one. *)
LEMMA AnswerCounts ==
  ASSUME NEW max \in Nat \ {0}, NEW Ids, NEW i, NEW w \in Windows(max, Ids), CountersExact(w)
  PROVE  /\ OnGetOneRsp(w, i) = w \/ OnGetOneRsp(w, i).rsp > w.rsp
         /\ OnGetOneRsp(w, i).rsp <= w.rsp + 1
<1> DEFINE v == OnGetOneRsp(w, i)
<1>1. w.rsp \in Nat /\ w = [w EXCEPT !.rsp = w.rsp]
  BY DEF Windows
<1>2. CASE Waiting(w, i) = {}
  BY <1>1, <1>2 DEF OnGetOneRsp
<1>3. CASE Waiting(w, i) # {}
  <2>1. PICK e \in SlotsOf(w) : w.items[e].fate = "none"
    BY <1>3 DEF Waiting
  <2>2. /\ SlotsOf(w) = 0 .. max - 1 /\ Cardinality(SlotsOf(w)) = max
        /\ IsFiniteSet(WithFate(w, "got")) /\ IsFiniteSet(SlotsOf(w))
    BY Slots DEF WithFate
  <2>3. v.rsp = IF w.rsp < max THEN w.rsp + 1 ELSE w.rsp
    BY <1>3, <2>2 DEF OnGetOneRsp, Windows
  <2>4. Cardinality(WithFate(w, "got") \cup {e}) = w.rsp + 1
    <3>1. e \notin WithFate(w, "got")
      BY <2>1 DEF WithFate
    <3>2. Cardinality(WithFate(w, "got") \cup {e}) = Cardinality(WithFate(w, "got")) + 1
      BY <2>2, <3>1, FS_AddElement
    <3>3. Cardinality(WithFate(w, "got")) = w.rsp
      BY DEF CountersExact
    <3> QED BY <3>2, <3>3
  <2>5. Cardinality(WithFate(w, "got") \cup {e}) <= max
    <3>1. WithFate(w, "got") \cup {e} \subseteq SlotsOf(w)
      BY <2>1 DEF WithFate
    <3> QED BY <2>2, <3>1, FS_Subset
  <2> HIDE DEF v
  <2> QED BY <1>1, <2>3, <2>4, <2>5 DEF v
<1> QED BY <1>2, <1>3

(* Slots are not lost and answered at once. *)
LEMMA LostOrAnswered ==
  ASSUME NEW max \in Nat \ {0}, NEW Ids, NEW w \in Windows(max, Ids), CountersExact(w)
  PROVE  w.lost + w.rsp <= max
<1> DEFINE L == WithFate(w, "lost")
           G == WithFate(w, "got")
<1>1. IsFiniteSet(L) /\ Cardinality(L) \in Nat /\ L \subseteq SlotsOf(w)
  BY Slots DEF WithFate
<1>2. IsFiniteSet(G) /\ Cardinality(G) \in Nat /\ G \subseteq SlotsOf(w)
  BY Slots DEF WithFate
<1>3. L \cap G = {}
  BY DEF WithFate
<1>4. w.lost = Cardinality(L) /\ w.rsp = Cardinality(G)
  BY DEF CountersExact
<1>5. IsFiniteSet(SlotsOf(w)) /\ Cardinality(SlotsOf(w)) = max
  BY Slots
<1> HIDE DEF L, G
<1>6. Cardinality(L \cap G) = 0
  BY <1>3, FS_EmptySet
<1>7. Cardinality(L \cup G) = Cardinality(L) + Cardinality(G) - 0
  BY <1>1, <1>2, <1>6, FS_Union
<1>8. Cardinality(L \cup G) <= max
  BY <1>1, <1>2, <1>5, FS_Subset
<1> QED BY <1>1, <1>2, <1>4, <1>7, <1>8

(* A filled table has answered nothing, and of no probe at all nothing is asked. *)
LEMMA NothingHeard ==
  ASSUME NEW M \in Nat \ {0}, NEW seq \in 0 .. M - 1, NEW max \in Nat \ {0},
         NEW w \in Windows(max, 0 .. M - 1), CountersExact(w), NEW n
  PROVE  /\ Unheard(FillWindow(w, seq, M), n)
         /\ FillWindow(w, seq, M).rsp = 0
         /\ Unheard(w, 0)
<1>1. Unheard(FillWindow(w, seq, M), n)
  BY DEF Unheard, Recent, SlotsOf, FillWindow
<1>2. FillWindow(w, seq, M).rsp = 0
  BY DEF FillWindow, CountersExact, Windows
<1>3. Unheard(w, 0)
  <2>1. /\ SlotsOf(w) = 0 .. max - 1 /\ Cardinality(SlotsOf(w)) = max
        /\ w.cur \in 0 .. max
    BY Slots DEF Windows
  <2> QED BY <2>1 DEF Unheard, Recent, Age
<1> QED BY <1>1, <1>2, <1>3

(* Fewer probes were not answered either. *)
LEMMA UnheardShrinks ==
  ASSUME NEW max \in Nat \ {0}, NEW Ids, NEW w \in Windows(max, Ids),
         NEW n \in Nat, NEW m \in Nat, m <= n, Unheard(w, n)
  PROVE  Unheard(w, m)
<1>1. /\ SlotsOf(w) = 0 .. max - 1 /\ Cardinality(SlotsOf(w)) = max
      /\ w.cur \in 0 .. max
  BY Slots DEF Windows
<1>2. \A k \in SlotsOf(w) : Age(w, k) \in Int
  BY <1>1 DEF Age
<1>3. Recent(w, m) \subseteq Recent(w, n)
  BY <1>2 DEF Recent
<1> QED BY <1>3 DEF Unheard

-----------------------------------------------------------------------------
(* Tables of one slot *)

(* A probe empties the only slot: no answer is booked any more. *)
LEMMA OneSlotSend ==
  ASSUME NEW Ids, NEW i \in Ids, NEW w \in Windows(1, Ids), CountersExact(w)
  PROVE  /\ OnSendOneRequest(w, i) \in Windows(1, Ids)
         /\ CountersExact(OnSendOneRequest(w, i))
         /\ OnSendOneRequest(w, i).rsp = 0
         /\ OnSendOneRequest(w, i).items[0].sent
<1> DEFINE v == OnSendOneRequest(w, i)
<1>1. v \in Windows(1, Ids) /\ CountersExact(v)
  BY SendKeepsCounters
<1>2. SlotsOf(w) = {0} /\ NextSlot(w) = 0
  BY Slots DEF NextSlot
<1>3. v.items = [w.items EXCEPT ![0] = [id |-> i, sent |-> TRUE, fate |-> "none"]]
  BY <1>2 DEF OnSendOneRequest
<1>4. WithFate(v, "got") = {} /\ v.items[0].sent
  BY <1>2, <1>3 DEF WithFate, SlotsOf
<1> QED BY <1>1, <1>4, FS_EmptySet DEF CountersExact

(* An answer leaves the probe in the slot. *)
LEMMA OneSlotAnswer ==
  ASSUME NEW Ids, NEW i, NEW w \in Windows(1, Ids), w.items[0].sent
  PROVE  OnGetOneRsp(w, i).items[0].sent
<1>1. SlotsOf(w) = {0}
  BY Slots
<1>2. CASE Waiting(w, i) = {}
  BY <1>2 DEF OnGetOneRsp
<1>3. CASE Waiting(w, i) # {}
  <2>1. OnGetOneRsp(w, i).items = [w.items EXCEPT ![Earliest(Waiting(w, i))].fate = "got"]
    BY <1>3 DEF OnGetOneRsp
  <2>2. w.items \in [{0} -> OneTestItem(Ids)]
    BY <1>1 DEF Windows, SlotsOf
  <2> QED BY <2>1, <2>2 DEF OneTestItem
<1> QED BY <1>2, <1>3

(* A check that finds the probe before it unanswered counts it lost. *)
LEMMA UnansweredIsLost ==
  ASSUME NEW Ids, NEW w \in Windows(1, Ids), CountersExact(w), w.items[0].sent
  PROVE  CheckTimeout(w).lost >= 1 \/ w.rsp >= 1
<1>1. SlotsOf(w) = {0} /\ w.lost \in Nat /\ w.items[0].fate \in Fates
  BY Slots DEF Windows, OneTestItem, SlotsOf
<1>2. CheckTimeout(w).lost = w.lost + Cardinality(Overdue(w))
  BY DEF CheckTimeout
<1>3. Cardinality({0}) = 1 /\ Cardinality({}) = 0
  BY FS_Singleton, FS_EmptySet
<1>4. Cardinality(Overdue(w)) \in Nat
  BY <1>1, <1>3 DEF Overdue
<1>5. CASE w.items[0].fate = "none"
  <2>1. Overdue(w) = {0}
    BY <1>1, <1>5 DEF Overdue
  <2> QED BY <1>1, <1>2, <1>3, <2>1
<1>6. CASE w.items[0].fate = "lost"
  <2>1. WithFate(w, "lost") = {0}
    BY <1>1, <1>6 DEF WithFate
  <2>2. w.lost = 1
    BY <1>3, <2>1 DEF CountersExact
  <2> QED BY <1>2, <1>4, <2>2
<1>7. CASE w.items[0].fate = "got"
  <2>1. WithFate(w, "got") = {0}
    BY <1>1, <1>7 DEF WithFate
  <2>2. w.rsp = 1
    BY <1>3, <2>1 DEF CountersExact
  <2> QED BY <2>2
<1> QED BY <1>1, <1>5, <1>6, <1>7 DEF Fates

=============================================================================
