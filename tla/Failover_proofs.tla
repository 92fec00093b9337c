-------------------------- MODULE Failover_proofs ---------------------------
(***************************************************************************)
(* Proofs about the packet thread.  First Failover, for any number of      *)
(* packets and any buffer: the switch implements BestChannel, no network   *)
(* sends a packet twice, and a switch leaves none of the newest packets of *)
(* the failed channel unsent.  Then CommonQueue (C), the ring in which a   *)
(* network keeps its packets, for any size of the buffer, any lengths of   *)
(* packets and any number of them: whatever is pushed, evicted and         *)
(* flushed, the reader goes from header to header, the writer never        *)
(* reaches a packet not yet read, and a full ring is not taken for an      *)
(* empty one.  At last, that this ring is the buffer Failover builds on.   *)
(***************************************************************************)
EXTENDS MCFailover, RingBuffer, SequenceTheorems, FiniteSetTheorems, WellFoundedInduction, TLAPS

C == INSTANCE CommonQueue
-----------------------------------------------------------------------------
(* The order of the channels *)

(* The place of each channel in Order. *)
LEMMA Ranks ==
  /\ Rank("main") = 1 /\ Rank("net1") = 2 /\ Rank("net2") = 3
  /\ Rank("com1") = 4 /\ Rank("com2") = 5
<1>1. \A k \in 1 .. 5 : \/ k = 1 /\ Order[k] = "main"
                        \/ k = 2 /\ Order[k] = "net1"
                        \/ k = 3 /\ Order[k] = "net2"
                        \/ k = 4 /\ Order[k] = "com1"
                        \/ k = 5 /\ Order[k] = "com2"
  BY DEF Order
<1>2. \A k \in 1 .. 5 : Order[k] = "main" <=> k = 1
  BY <1>1
<1>3. \A k \in 1 .. 5 : Order[k] = "net1" <=> k = 2
  BY <1>1
<1>4. \A k \in 1 .. 5 : Order[k] = "net2" <=> k = 3
  BY <1>1
<1>5. \A k \in 1 .. 5 : Order[k] = "com1" <=> k = 4
  BY <1>1
<1>6. \A k \in 1 .. 5 : Order[k] = "com2" <=> k = 5
  BY <1>1
<1>7. Rank("main") = 1 /\ Rank("net1") = 2
  BY <1>2, <1>3 DEF Rank
<1>8. Rank("net2") = 3 /\ Rank("com1") = 4
  BY <1>4, <1>5 DEF Rank
<1>9. Rank("com2") = 5
  BY <1>6 DEF Rank
<1> QED BY <1>7, <1>8, <1>9

(* Better is a strict total order on the channels. *)
LEMMA BetterOrder ==
  ASSUME NEW c \in Channels, NEW d \in Channels
  PROVE  /\ c # d => Better(c, d) \/ Better(d, c)
         /\ ~(Better(c, d) /\ Better(d, c))
         /\ ~Better(c, c)
BY Ranks DEF Channels, Better

LEMMA BetterTransitive ==
  ASSUME NEW b \in Channels, NEW c \in Channels, NEW d \in Channels,
         Better(b, c), Better(c, d)
  PROVE  Better(b, d)
BY Ranks DEF Channels, Better

(* What First returns: the one member of a set that is better than the others. *)
LEMMA FirstIsBest ==
  ASSUME NEW S \in SUBSET Channels, S # {}
  PROVE  /\ First(S) \in S
         /\ \A d \in S \ {First(S)} : Better(First(S), d)
         /\ \A c \in S : (\A d \in S \ {c} : Better(c, d)) => c = First(S)
<1>1. \E c \in S : \A d \in S \ {c} : Better(c, d)
  <2>1. CASE "main" \in S
    BY <2>1, Ranks DEF Channels, Better
  <2>2. CASE "main" \notin S /\ "net1" \in S
    BY <2>2, Ranks DEF Channels, Better
  <2>3. CASE S \cap {"main", "net1"} = {} /\ "net2" \in S
    BY <2>3, Ranks DEF Channels, Better
  <2>4. CASE S \cap {"main", "net1", "net2"} = {} /\ "com1" \in S
    BY <2>4, Ranks DEF Channels, Better
  <2>5. CASE S \cap {"main", "net1", "net2", "com1"} = {}
    <3>1. S = {"com2"}
      BY <2>5 DEF Channels
    <3> QED BY <3>1
  <2> QED BY <2>1, <2>2, <2>3, <2>4, <2>5
<1>2. First(S) \in S /\ \A d \in S \ {First(S)} : Better(First(S), d)
  BY <1>1 DEF First
<1>3. ASSUME NEW c \in S, \A d \in S \ {c} : Better(c, d), c # First(S)
      PROVE  FALSE
  <2>1. Better(c, First(S)) /\ Better(First(S), c)
    BY <1>2, <1>3
  <2> QED BY <1>2, <2>1, BetterOrder
<1> QED BY <1>2, <1>3

-----------------------------------------------------------------------------
(* The switch *)

(* The order the abstract specification is stated with is the same. *)
LEMMA SameOrder ==
  /\ BestOf!NoChannel = NoChannel /\ BestOf!Channels = Channels
  /\ \A S : BestOf!First(S) = First(S)
BY DEF BestOf!NoChannel, NoChannel, BestOf!Channels, Channels, BestOf!First, First,
       BestOf!Better, Better, BestOf!Rank, Rank, BestOf!Order, Order

(* Whatever channel is in use, the table of TS_HandleTimer ends at the best of
   the usable channels. *)
LEMMA NextStatIsBest ==
  ASSUME NEW s \in Channels \cup {NoChannel}, NEW ok \in SUBSET Channels
  PROVE  NextStat(s, ok) = BestOf!Best(ok)
<1>1. NoChannel \notin Channels
  BY DEF NoChannel, Channels
<1>2. CASE s = NoChannel
  BY <1>2, SameOrder DEF NextStat, BestOf!Best
<1>3. CASE s \in Channels
  <2> DEFINE better == {c \in ok : Better(c, s)}
             worse == {c \in ok : Better(s, c)}
  <2>0. NextStat(s, ok) = IF better # {} THEN First(better)
                          ELSE IF s \in ok THEN s
                          ELSE IF worse # {} THEN First(worse)
                          ELSE NoChannel
    BY <1>1, <1>3 DEF NextStat
  <2>1. CASE better # {}
    <3>1. First(better) \in ok /\ Better(First(better), s)
      BY <2>1, FirstIsBest
    <3>2. ASSUME NEW d \in ok \ {First(better)}
          PROVE  Better(First(better), d)
      <4>1. CASE d \in better
        BY <2>1, <4>1, FirstIsBest
      <4>2. CASE d \notin better
        <5>1. d = s \/ Better(s, d)
          BY <1>3, <4>2, BetterOrder
        <5>2. First(better) \in Channels
          BY <3>1
        <5> HIDE DEF better
        <5> QED BY <1>3, <3>1, <5>1, <5>2, BetterTransitive
      <4> QED BY <4>1, <4>2
    <3> QED BY <2>0, <2>1, <3>1, <3>2, FirstIsBest, SameOrder DEF BestOf!Best
  <2>2. CASE better = {} /\ s \in ok
    <3>1. \A d \in ok \ {s} : Better(s, d)
      BY <1>3, <2>2, BetterOrder
    <3> QED BY <2>0, <2>2, <3>1, FirstIsBest, SameOrder DEF BestOf!Best
  <2>3. CASE better = {} /\ s \notin ok
    <3>1. worse = ok
      BY <1>3, <2>3, BetterOrder
    <3> QED BY <2>0, <2>3, <3>1, SameOrder DEF BestOf!Best
  <2> QED BY <2>1, <2>2, <2>3
<1> QED BY <1>2, <1>3

(* The initial state maps to the initial state, the timer to Check, an update to
   Reset and a packet to a stutter. *)
LEMMA StepRefines ==
  ASSUME TypeOK, [Next]_vars
  PROVE  [BestOf!Check \/ BestOf!Reset]_<<peerStat, usable>>
<1>1. CASE TS_HandleTimer
  <2>1. peerStat' = NextStat(peerStat, usable') /\ usable' \in SUBSET Channels
    BY <1>1 DEF TS_HandleTimer
  <2>2. peerStat' = BestOf!Best(usable')
    BY <2>1, NextStatIsBest DEF TypeOK
  <2> QED BY <2>1, <2>2, SameOrder DEF BestOf!Check
<1>2. CASE TS_UpdateConfig
  BY <1>2, SameOrder DEF TS_UpdateConfig, BestOf!Reset
<1>3. CASE \E pass \in SUBSET BackNets : TS_ForwardIpOut_Unicast(pass)
  BY <1>3 DEF TS_ForwardIpOut_Unicast, SendAndPush
<1>4. CASE TS_ForwardIpOut_Multicast
  BY <1>4 DEF TS_ForwardIpOut_Multicast, SendAndPush
<1>5. CASE \E pass \in SUBSET BackNets : TS_ForwardArpOut(pass)
  BY <1>5 DEF TS_ForwardArpOut, SendAndPush
<1>6. CASE UNCHANGED vars
  BY <1>6 DEF vars
<1> QED BY <1>1, <1>2, <1>3, <1>4, <1>5, <1>6 DEF Next

-----------------------------------------------------------------------------
(* The buffers *)

(* All elements of s differ. *)
Distinct(s) == \A i, j \in 1 .. Len(s) : s[i] = s[j] => i = j

(* No element of s is one of t. *)
Apart(s, t) == \A i \in 1 .. Len(s), j \in 1 .. Len(t) : s[i] # t[j]

(* A buffer q and the packets st sent, of n offered.  OncePerNet is not inductive:
   a flush sends all that is buffered, so nothing buffered may have been sent, or
   be buffered twice. *)
Good(q, st, n) ==
  /\ IsQueue(q, 1 .. n)
  /\ st \in Seq(1 .. n)
  /\ Distinct(q.pkts)
  /\ Distinct(st)
  /\ Apart(st, q.pkts)

IInv ==
  /\ mode \in {"ASYNC", "SYNC"}
  /\ usable \subseteq Channels /\ checking \in BOOLEAN
  /\ peerStat \in Channels \cup {NoChannel}
  /\ nPackets \in 0 .. MaxPackets
  /\ queue = [n \in BackNets |-> queue[n]]
  /\ sent = [n \in BackNets |-> sent[n]]
  /\ \A n \in BackNets : Good(queue[n], sent[n], nPackets)

(* One more packet is offered and the network neither sends nor buffers it. *)
LEMMA WidenKeeps ==
  ASSUME NEW n \in Nat, NEW q, NEW st, Good(q, st, n)
  PROVE  Good(q, st, n + 1)
<1>1. 1 .. n \subseteq 1 .. n + 1
  OBVIOUS
<1>2. Seq(1 .. n) \subseteq Seq(1 .. n + 1)
  BY <1>1, SeqMonotonic
<1> QED BY <1>2 DEF Good, IsQueue

(* A new number at the end of a sequence of older ones. *)
LEMMA AppendNew ==
  ASSUME NEW n \in Nat, NEW s \in Seq(1 .. n), Distinct(s)
  PROVE  /\ Append(s, n + 1) \in Seq(1 .. n + 1)
         /\ Len(Append(s, n + 1)) = Len(s) + 1
         /\ Distinct(Append(s, n + 1))
         /\ \A t \in Seq(1 .. n) : Apart(s, t) => Apart(Append(s, n + 1), t)
         /\ \A t \in Seq(1 .. n) : Apart(t, s) => Apart(t, Append(s, n + 1))
<1>1. s \in Seq(1 .. n + 1)
  <2>1. 1 .. n \subseteq 1 .. n + 1
    OBVIOUS
  <2> QED BY <2>1, SeqMonotonic
<1> DEFINE a == Append(s, n + 1)
<1>2. /\ a \in Seq(1 .. n + 1) /\ Len(a) = Len(s) + 1
      /\ \A i \in 1 .. Len(s) : a[i] = s[i]
      /\ a[Len(s) + 1] = n + 1
  BY <1>1, AppendProperties
<1>3. Len(s) \in Nat /\ \A i \in 1 .. Len(s) : s[i] \in 1 .. n
  BY ElementOfSeq, LenProperties
<1>4. \A t \in Seq(1 .. n) : Len(t) \in Nat /\ \A i \in 1 .. Len(t) : t[i] \in 1 .. n
  BY ElementOfSeq, LenProperties
<1> HIDE DEF a
<1>5. \A i \in 1 .. Len(a) : \/ i \in 1 .. Len(s) /\ a[i] = s[i]
                             \/ i = Len(s) + 1 /\ a[i] = n + 1
  BY <1>2, <1>3
<1>6. Distinct(a)
  <2> SUFFICES ASSUME NEW i \in 1 .. Len(a), NEW j \in 1 .. Len(a), a[i] = a[j]
               PROVE  i = j
    BY DEF Distinct
  <2>1. CASE i \in 1 .. Len(s) /\ a[i] = s[i] /\ j \in 1 .. Len(s) /\ a[j] = s[j]
    BY <2>1 DEF Distinct
  <2>2. \A k \in 1 .. Len(s) : s[k] # n + 1
    BY <1>3
  <2> QED BY <1>5, <2>1, <2>2
<1>7. ASSUME NEW t \in Seq(1 .. n), Apart(s, t)
      PROVE  Apart(a, t)
  <2> SUFFICES ASSUME NEW i \in 1 .. Len(a), NEW j \in 1 .. Len(t)
               PROVE  a[i] # t[j]
    BY DEF Apart
  <2>1. t[j] # n + 1
    BY <1>4
  <2>2. i \in 1 .. Len(s) => s[i] # t[j]
    BY <1>7 DEF Apart
  <2> QED BY <1>5, <2>1, <2>2
<1>8. ASSUME NEW t \in Seq(1 .. n), Apart(t, s)
      PROVE  Apart(t, a)
  <2> SUFFICES ASSUME NEW i \in 1 .. Len(t), NEW j \in 1 .. Len(a)
               PROVE  t[i] # a[j]
    BY DEF Apart
  <2>1. t[i] # n + 1
    BY <1>4
  <2>2. j \in 1 .. Len(s) => t[i] # s[j]
    BY <1>8 DEF Apart
  <2> QED BY <1>5, <2>1, <2>2
<1> QED BY <1>2, <1>6, <1>7, <1>8 DEF a

(* The network sends the new packet and does not buffer it. *)
LEMMA SendKeeps ==
  ASSUME NEW n \in Nat, NEW q, NEW st, Good(q, st, n)
  PROVE  Good(q, Append(st, n + 1), n + 1)
<1>1. /\ st \in Seq(1 .. n) /\ Distinct(st) /\ q.pkts \in Seq(1 .. n)
      /\ Apart(st, q.pkts)
  BY DEF Good, IsQueue
<1>2. /\ Append(st, n + 1) \in Seq(1 .. n + 1) /\ Distinct(Append(st, n + 1))
      /\ Apart(Append(st, n + 1), q.pkts)
  BY <1>1, AppendNew
<1>3. Good(q, st, n + 1)
  BY WidenKeeps
<1> QED BY <1>2, <1>3 DEF Good

(* What is left of a sequence without its head. *)
LEMMA TailKeeps ==
  ASSUME NEW n \in Nat, NEW s \in Seq(1 .. n), s # <<>>, Distinct(s)
  PROVE  /\ Tail(s) \in Seq(1 .. n) /\ Len(Tail(s)) = Len(s) - 1
         /\ Distinct(Tail(s))
         /\ \A t \in Seq(1 .. n) : Apart(t, s) => Apart(t, Tail(s))
<1>1. /\ Tail(s) \in Seq(1 .. n) /\ Len(Tail(s)) = Len(s) - 1
      /\ \A i \in 1 .. Len(Tail(s)) : Tail(s)[i] = s[i + 1]
  BY HeadTailProperties
<1>2. Len(s) \in Nat
  BY LenProperties
<1>3. \A i \in 1 .. Len(Tail(s)) : i + 1 \in 1 .. Len(s)
  BY <1>1, <1>2
<1>4. Distinct(Tail(s))
  <2> SUFFICES ASSUME NEW i \in 1 .. Len(Tail(s)), NEW j \in 1 .. Len(Tail(s)),
                      Tail(s)[i] = Tail(s)[j]
               PROVE  i = j
    BY DEF Distinct
  <2>1. s[i + 1] = s[j + 1]
    BY <1>1
  <2>2. i + 1 = j + 1
    BY <1>3, <2>1 DEF Distinct
  <2> QED BY <2>2
<1>5. ASSUME NEW t \in Seq(1 .. n), Apart(t, s)
      PROVE  Apart(t, Tail(s))
  BY <1>1, <1>3, <1>5 DEF Apart
<1> QED BY <1>1, <1>4, <1>5

(* A buffer that is cleared. *)
LEMMA ClearKeeps ==
  ASSUME NEW n \in Nat, NEW q, NEW st, Good(q, st, n)
  PROVE  Good(EmptyQueue, st, n)
BY QueueOK DEF Good, IsQueue, EmptyQueue, Distinct, Apart

(* The newest m elements of a sequence. *)
LEMMA NewestOf ==
  ASSUME NEW S, NEW a \in Seq(S), NEW m \in 0 .. Len(a)
  PROVE  /\ Newest(a, m) \in Seq(S) /\ Len(Newest(a, m)) = m
         /\ \A i \in 1 .. m : Newest(a, m)[i] = a[Len(a) - m + i]
<1> DEFINE first == Len(a) - m + 1
<1>1. /\ Len(a) \in Nat /\ first \in Int /\ Len(a) - first + 1 = m
      /\ (m = 0 <=> ~ (first <= Len(a)))
      /\ \A i \in 1 .. m : first + i - 1 = Len(a) - m + i
      /\ \A i \in first .. Len(a) : i \in 1 .. Len(a)
  BY LenProperties
<1>2. \A i \in first .. Len(a) : a[i] \in S
  BY <1>1, ElementOfSeq
<1> HIDE DEF first
<1>3. /\ SubSeq(a, first, Len(a)) \in Seq(S) /\ Len(SubSeq(a, first, Len(a))) = m
      /\ \A i \in 1 .. m : SubSeq(a, first, Len(a))[i] = a[first + i - 1]
  BY <1>1, <1>2, SubSeqProperties
<1> QED BY <1>1, <1>3 DEF Newest, first

(* Its order and what it has in common with others. *)
LEMMA NewestKeeps ==
  ASSUME NEW n \in Nat, NEW s \in Seq(1 .. n), NEW m \in 1 .. Len(s), Distinct(s)
  PROVE  /\ Newest(s, m) \in Seq(1 .. n) /\ Len(Newest(s, m)) = m
         /\ Distinct(Newest(s, m))
         /\ \A t \in Seq(1 .. n) : Apart(t, s) => Apart(t, Newest(s, m))
<1> DEFINE r == Newest(s, m)
           old(i) == Len(s) - m + i
<1>1. Len(s) \in Nat
  BY LenProperties
<1>2. /\ r \in Seq(1 .. n) /\ Len(r) = m
      /\ \A i \in 1 .. m : r[i] = s[old(i)]
  BY <1>1, NewestOf
<1>3. /\ \A i \in 1 .. m : old(i) \in 1 .. Len(s)
      /\ \A i, j \in 1 .. m : old(i) = old(j) => i = j
  BY <1>1
<1> HIDE DEF r, old
<1>4. Distinct(r)
  <2>1. ASSUME NEW i \in 1 .. m, NEW j \in 1 .. m, r[i] = r[j] PROVE i = j
    <3>1. s[old(i)] = s[old(j)] /\ old(i) \in 1 .. Len(s) /\ old(j) \in 1 .. Len(s)
      BY <1>2, <1>3, <2>1
    <3>2. old(i) = old(j)
      BY <3>1 DEF Distinct
    <3> QED BY <1>3, <3>2
  <2> QED BY <1>2, <2>1 DEF Distinct
<1>5. \A t \in Seq(1 .. n) : Apart(t, s) => Apart(t, r)
  BY <1>2, <1>3 DEF Apart
<1> QED BY <1>2, <1>4, <1>5 DEF r

(* The network buffers the new packet and does not send it. *)
LEMMA PushKeeps ==
  ASSUME NEW n \in Nat, NEW q, NEW st, Good(q, st, n),
         NEW r \in f_PushPktQueue(q, n + 1)
  PROVE  Good(r, st, n + 1)
<1>1. /\ q.pkts \in Seq(1 .. n) /\ Distinct(q.pkts) /\ st \in Seq(1 .. n)
      /\ Apart(st, q.pkts)
  BY DEF Good, IsQueue
<1>2. Good(q, st, n + 1) /\ st \in Seq(1 .. n + 1)
  BY WidenKeeps DEF Good
<1>3. CASE r = EmptyQueue
  BY <1>2, <1>3, ClearKeeps, n + 1 \in Nat
<1>4. CASE r \in MakesRoom(q, n + 1)
  <2> DEFINE a == Append(q.pkts, n + 1)
  <2>1. PICK m \in Left(q), b \in BOOLEAN :
          r = [pkts |-> Newest(a, m), read |-> b] /\ (r.read => Len(r.pkts) > 1)
    BY <1>4 DEF MakesRoom
  <2>2. /\ a \in Seq(1 .. n + 1) /\ Len(a) = Len(q.pkts) + 1 /\ Distinct(a)
        /\ Apart(st, a)
    BY <1>1, AppendNew
  <2>3. m \in 1 .. Len(a) /\ m <= QueueCap
    BY <2>2 DEF Left
  <2> HIDE DEF a
  <2>4. /\ Newest(a, m) \in Seq(1 .. n + 1) /\ Len(Newest(a, m)) = m
        /\ Distinct(Newest(a, m)) /\ Apart(st, Newest(a, m))
    BY <1>2, <2>2, <2>3, NewestKeeps, n + 1 \in Nat
  <2>5. b => Newest(a, m) # <<>>
    BY <2>1, <2>4, EmptySeq
  <2> DEFINE w == Newest(a, m)
  <2>6. r = [pkts |-> w, read |-> b]
    BY <2>1
  <2>7. w \in Seq(1 .. n + 1) /\ Len(w) <= QueueCap /\ Distinct(w) /\ Apart(st, w)
    BY <2>3, <2>4
  <2>8. b => w # <<>>
    BY <2>5
  <2> HIDE DEF w
  <2> QED BY <1>2, <2>6, <2>7, <2>8 DEF Good, IsQueue
<1>5. CASE r \in GivesUp(q)
  <2>1. PICK m \in 1 .. Len(q.pkts) : r = [pkts |-> Newest(q.pkts, m), read |-> TRUE]
    BY <1>5 DEF GivesUp
  <2> DEFINE w == Newest(q.pkts, m)
  <2>2. w \in Seq(1 .. n) /\ Len(w) = m /\ Distinct(w) /\ Apart(st, w)
    BY <1>1, NewestKeeps
  <2>3. w # <<>> /\ Len(w) <= QueueCap
    <3>1. Len(q.pkts) \in Nat /\ Len(q.pkts) <= QueueCap
      BY <1>1, LenProperties DEF Good, IsQueue
    <3> HIDE DEF w
    <3> QED BY <2>2, <3>1, EmptySeq, QueueOK
  <2>4. r = [pkts |-> w, read |-> TRUE]
    BY <2>1
  <2> HIDE DEF w
  <2>5. Good(r, st, n)
    BY <1>1, <2>2, <2>3, <2>4 DEF Good, IsQueue
  <2> QED BY <2>5, WidenKeeps
<1> QED BY <1>3, <1>4, <1>5 DEF f_PushPktQueue

(* A buffer that is flushed. *)
LEMMA FlushKeeps ==
  ASSUME NEW n \in Nat, NEW q, NEW st, Good(q, st, n)
  PROVE  Good(EmptyQueue, st \o Pending(q), n)
<1>1. /\ q \in [pkts : Seq(1 .. n), read : BOOLEAN] /\ (q.read => q.pkts # <<>>)
      /\ Distinct(q.pkts) /\ st \in Seq(1 .. n) /\ Distinct(st) /\ Apart(st, q.pkts)
  BY DEF Good, IsQueue
<1> DEFINE p == Pending(q)
<1>2. p \in Seq(1 .. n) /\ Distinct(p) /\ Apart(st, p)
  BY <1>1, TailKeeps DEF Pending
<1> HIDE DEF p
<1>3. /\ st \o p \in Seq(1 .. n) /\ Len(st \o p) = Len(st) + Len(p)
      /\ \A i \in 1 .. Len(st) + Len(p) :
           (st \o p)[i] = IF i <= Len(st) THEN st[i] ELSE p[i - Len(st)]
  BY <1>1, <1>2, ConcatProperties
<1>4. Len(st) \in Nat /\ Len(p) \in Nat
  BY <1>1, <1>2, LenProperties
<1>5. Distinct(st \o p)
  <2> SUFFICES ASSUME NEW i \in 1 .. Len(st) + Len(p), NEW j \in 1 .. Len(st) + Len(p),
                      (st \o p)[i] = (st \o p)[j]
               PROVE  i = j
    BY <1>3 DEF Distinct
  <2>1. CASE i <= Len(st) /\ j <= Len(st)
    BY <1>1, <1>3, <1>4, <2>1 DEF Distinct
  <2>2. CASE i > Len(st) /\ j > Len(st)
    <3>1. i - Len(st) \in 1 .. Len(p) /\ j - Len(st) \in 1 .. Len(p)
      BY <1>4, <2>2
    <3>2. p[i - Len(st)] = p[j - Len(st)]
      BY <1>3, <1>4, <2>2
    <3>3. i - Len(st) = j - Len(st)
      BY <1>2, <3>1, <3>2 DEF Distinct
    <3> QED BY <1>4, <3>3
  <2>3. CASE i <= Len(st) /\ j > Len(st)
    <3>1. i \in 1 .. Len(st) /\ j - Len(st) \in 1 .. Len(p)
      BY <1>4, <2>3
    <3>2. st[i] = p[j - Len(st)]
      BY <1>3, <1>4, <2>3
    <3> QED BY <1>2, <3>1, <3>2 DEF Apart
  <2>4. CASE i > Len(st) /\ j <= Len(st)
    <3>1. j \in 1 .. Len(st) /\ i - Len(st) \in 1 .. Len(p)
      BY <1>4, <2>4
    <3>2. st[j] = p[i - Len(st)]
      BY <1>3, <1>4, <2>4
    <3> QED BY <1>2, <3>1, <3>2 DEF Apart
  <2> QED BY <1>4, <2>1, <2>2, <2>3, <2>4
<1>6. Good(EmptyQueue, st, n)
  BY ClearKeeps
<1> QED BY <1>3, <1>5, <1>6 DEF Good, EmptyQueue, Apart, p

-----------------------------------------------------------------------------
(* The invariant *)

(* Every step that offers a packet: each network sends it, buffers it or neither,
   never both. *)
LEMMA OfferKeeps ==
  ASSUME IInv, NEW S, NEW B, SendAndPush(S, B), S \cap B = {}
  PROVE  IInv'
<1>1. /\ nPackets \in Nat /\ nPackets' = nPackets + 1 /\ nPackets' \in 0 .. MaxPackets
      /\ \A n \in BackNets : Good(queue[n], sent[n], nPackets)
      /\ queue' = [n \in BackNets |-> queue'[n]] /\ sent' = [n \in BackNets |-> sent'[n]]
  BY BoundsOK DEF IInv, SendAndPush, NewPacket
<1>2. ASSUME NEW n \in BackNets
      PROVE  Good(queue'[n], sent'[n], nPackets')
  <2>1. /\ sent'[n] = IF n \in S THEN Append(sent[n], nPackets + 1) ELSE sent[n]
        /\ queue'[n] \in IF n \in B THEN f_PushPktQueue(queue[n], nPackets + 1)
                                     ELSE {queue[n]}
    BY DEF SendAndPush, AfterPush, NewPacket, BackNets
  <2>2. CASE n \in S
    BY <1>1, <2>1, <2>2, SendKeeps
  <2>3. CASE n \in B
    BY <1>1, <2>1, <2>3, PushKeeps
  <2>4. CASE n \notin S \cup B
    BY <1>1, <2>1, <2>4, WidenKeeps
  <2> QED BY <2>2, <2>3, <2>4
<1>3. UNCHANGED <<mode, usable, checking, peerStat>>
  BY DEF SendAndPush
<1> QED BY <1>1, <1>2, <1>3 DEF IInv

LEMMA NextKeepsIInv ==
  ASSUME IInv, [Next]_vars
  PROVE  IInv'
<1>1. CASE TS_HandleTimer
  <2>1. /\ mode' = mode /\ nPackets' = nPackets /\ nPackets \in Nat
        /\ usable' \in SUBSET Channels /\ checking' \in BOOLEAN
        /\ queue' = [n \in BackNets |-> queue'[n]] /\ sent' = [n \in BackNets |-> sent'[n]]
    BY <1>1, BoundsOK DEF TS_HandleTimer, IInv
  <2>2. peerStat' \in Channels \cup {NoChannel}
    <3>1. peerStat' = BestOf!Best(usable')
      BY <1>1, <2>1, NextStatIsBest DEF TS_HandleTimer, IInv
    <3> QED BY <2>1, <3>1, SameOrder, FirstIsBest DEF BestOf!Best
  <2>3. ASSUME NEW n \in BackNets
        PROVE  Good(queue'[n], sent'[n], nPackets)
    <3>1. Good(queue[n], sent[n], nPackets)
      BY DEF IInv
    <3>2. CASE n \in Flushes(peerStat, peerStat')
      <4>1. queue'[n] = EmptyQueue /\ sent'[n] = sent[n] \o Pending(queue[n])
        BY <1>1, <3>2 DEF TS_HandleTimer
      <4> QED BY <2>1, <3>1, <4>1, FlushKeeps
    <3>3. CASE n \notin Flushes(peerStat, peerStat')
      <4>1. queue'[n] = queue[n] /\ sent'[n] = sent[n]
        BY <1>1, <3>3 DEF TS_HandleTimer
      <4> QED BY <3>1, <4>1
    <3> QED BY <3>2, <3>3
  <2> QED BY <2>1, <2>2, <2>3 DEF IInv
<1>2. CASE \E pass \in SUBSET BackNets : TS_ForwardIpOut_Unicast(pass)
  <2>1. PICK pass \in SUBSET BackNets : TS_ForwardIpOut_Unicast(pass)
    BY <1>2
  <2>2. Carrying \cap (IF mode = "SYNC" THEN {} ELSE Buffering(peerStat)) = {}
    BY DEF IInv, Carrying, Buffering, BackNets, Channels, NoChannel
  <2> QED BY <2>1, <2>2, OfferKeeps DEF TS_ForwardIpOut_Unicast
<1>3. CASE TS_ForwardIpOut_Multicast
  BY <1>3, OfferKeeps DEF TS_ForwardIpOut_Multicast
<1>4. CASE \E pass \in SUBSET BackNets : TS_ForwardArpOut(pass)
  BY <1>4, OfferKeeps DEF TS_ForwardArpOut
<1>5. CASE TS_UpdateConfig
  <2>1. /\ mode' = mode /\ nPackets' = nPackets /\ sent' = sent /\ nPackets \in Nat
        /\ usable' \subseteq usable /\ checking' \in BOOLEAN
        /\ peerStat' \in {peerStat, NoChannel}
        /\ queue' \in {queue, [n \in BackNets |-> EmptyQueue]}
    BY <1>5, BoundsOK DEF TS_UpdateConfig, IInv
  <2>2. ASSUME NEW n \in BackNets
        PROVE  Good(queue'[n], sent'[n], nPackets')
    <3>1. Good(queue[n], sent[n], nPackets)
      BY DEF IInv
    <3>2. queue'[n] = queue[n] \/ queue'[n] = EmptyQueue
      BY <2>1
    <3> QED BY <2>1, <3>1, <3>2, ClearKeeps
  <2> QED BY <2>1, <2>2 DEF IInv
<1>6. CASE UNCHANGED vars
  BY <1>6 DEF vars, IInv
<1> QED BY <1>1, <1>2, <1>3, <1>4, <1>5, <1>6 DEF Next

LEMMA InitIInv == Init => IInv
<1> SUFFICES ASSUME Init PROVE IInv
  OBVIOUS
<1>1. Good(EmptyQueue, <<>>, 0)
  BY QueueOK DEF Good, IsQueue, EmptyQueue, Distinct, Apart
<1>2. /\ queue = [n \in BackNets |-> queue[n]] /\ sent = [n \in BackNets |-> sent[n]]
      /\ \A n \in BackNets : Good(queue[n], sent[n], nPackets)
  BY <1>1 DEF Init
<1>3. /\ mode \in {"ASYNC", "SYNC"} /\ usable \subseteq Channels
      /\ peerStat \in Channels \cup {NoChannel} /\ nPackets \in 0 .. MaxPackets
  BY BoundsOK DEF Init
<1>4. checking \in BOOLEAN
  BY DEF Init
<1> QED BY <1>2, <1>3, <1>4, Zenon DEF IInv

LEMMA IInvSuffices == IInv => TypeOK /\ OncePerNet
<1> SUFFICES ASSUME IInv PROVE TypeOK /\ OncePerNet
  OBVIOUS
<1>1. ASSUME NEW n \in BackNets
      PROVE  /\ IsQueue(queue[n], 1 .. nPackets)
             /\ sent[n] \in Seq(1 .. nPackets)
             /\ \A i, j \in DOMAIN sent[n] : sent[n][i] = sent[n][j] => i = j
  BY LenProperties DEF IInv, Good, Distinct
<1>2. sent \in [BackNets -> Seq(1 .. nPackets)] /\ DOMAIN queue = BackNets
  BY <1>1 DEF IInv
<1> QED BY <1>1, <1>2 DEF IInv, TypeOK, OncePerNet

(* No back-up network ever sends one packet twice, and no buffer overflows, for
   any buffer size and any number of packets: the flush of TS_HandleTimer and the
   direct sending of TS_ForwardIpOut never meet in one packet. *)
THEOREM FailoverSafety == Spec => [](TypeOK /\ OncePerNet)
<1>1. Init => IInv
  BY InitIInv
<1>2. IInv /\ [Next]_vars => IInv'
  BY NextKeepsIInv
<1>3. IInv => TypeOK /\ OncePerNet
  BY IInvSuffices
<1> QED BY <1>1, <1>2, <1>3, PTL DEF Spec

(* The switch implements the abstract specification of the best usable channel. *)
THEOREM FailoverImplementsBest == Spec => ImplementsBest
<1>1. Init => BestOf!Init
  BY SameOrder DEF Init, BestOf!Init
<1>2. TypeOK /\ [Next]_vars => [BestOf!Check \/ BestOf!Reset]_<<peerStat, usable>>
  BY StepRefines
<1>3. Spec => []TypeOK
  BY FailoverSafety, PTL
<1> QED BY <1>1, <1>2, <1>3, PTL DEF Spec, ImplementsBest, BestOf!Spec
-----------------------------------------------------------------------------
(* What a buffer keeps of what was noted since the last switch *)

(* How many of the packets in s a buffer is held to keep. *)
Due(s) == IF Len(s) < Keep THEN Len(s) ELSE Keep

(* The newest packets of s are as near to the end of the buffer as to that of s, behind a
   head that may be marked, but for those in d. *)
Kept(s, q, d) ==
  /\ s \in Seq(Nat)
  /\ \A j \in 0 .. Due(s) - 1 :
       \/ s[Len(s) - j] \in d
       \/ \E i \in 0 .. j : /\ i < Len(q.pkts) - Marked(q)
                            /\ q.pkts[Len(q.pkts) - i] = s[Len(s) - j]

(* A switch to no channel forgets what was noted, and none is noted until the next. *)
Remembered == /\ since = [n \in BackNets |-> since[n]]
              /\ dropped = [n \in BackNets |-> dropped[n]]
              /\ peerStat = NoChannel => since = None
              /\ \A n \in BackNets : Kept(since[n], queue[n], dropped[n])

(* Nothing was noted: there is nothing to keep. *)
LEMMA NoneKept ==
  ASSUME NEW q, NEW d
  PROVE  Kept(<<>>, q, d)
<1>1. Len(<<>>) = 0 /\ <<>> \in Seq(Nat)
  BY EmptySeq
<1>2. Due(<<>>) = 0
  BY <1>1, QueueOK DEF Due
<1> QED BY <1>1, <1>2 DEF Kept

(* A packet that is noted and buffered is the newest of both, and what the buffer
   gives up for it was not due; if its push gives up, the others due stay. *)
LEMMA PushKept ==
  ASSUME NEW n \in Nat, NEW q, NEW s, NEW d, IsQueue(q, 1 .. n), Kept(s, q, d),
         NEW r \in f_PushPktQueue(q, n + 1), NEW e, d \subseteq e,
         n + 1 \notin ToSet(r.pkts) /\ Len(q.pkts) - Len(r.pkts) >= ReadLimit => n + 1 \in e
  PROVE  Kept(Append(s, n + 1), r, e)
<1> DEFINE a == Append(q.pkts, n + 1)
           t == Append(s, n + 1)
<1>1. /\ s \in Seq(Nat) /\ Len(s) \in Nat /\ Keep \in Nat /\ ReadLimit \in Nat
      /\ q.pkts \in Seq(1 .. n) /\ Len(q.pkts) \in Nat /\ Marked(q) \in {0, 1}
  BY LenProperties, QueueOK DEF Kept, IsQueue, Marked
<1>2. /\ t \in Seq(Nat) /\ Len(t) = Len(s) + 1 /\ t[Len(s) + 1] = n + 1
      /\ \A i \in 1 .. Len(s) : t[i] = s[i]
  BY <1>1, AppendProperties, n + 1 \in Nat
<1>3. /\ a \in Seq(1 .. n + 1) /\ Len(a) = Len(q.pkts) + 1 /\ a[Len(q.pkts) + 1] = n + 1
      /\ \A i \in 1 .. Len(q.pkts) : a[i] = q.pkts[i]
  <2>1. q.pkts \in Seq(1 .. n + 1)
    BY <1>1, SeqMonotonic, 1 .. n \subseteq 1 .. n + 1
  <2> QED BY <2>1, AppendProperties
<1>4. Due(t) \in Nat /\ Due(t) <= Keep /\ Due(t) <= Due(s) + 1 /\ Due(s) \in Nat /\ Due(s) <= Len(s)
  BY <1>1, <1>2 DEF Due
<1> HIDE DEF a, t
(* Every packet due but the new one was due before. *)
<1>5. ASSUME NEW j \in 0 .. Due(t) - 1, j # 0
      PROVE  /\ t[Len(t) - j] = s[Len(s) - (j - 1)]
             /\ \/ t[Len(t) - j] \in e
                \/ \E i \in 0 .. j - 1 : /\ i < Len(q.pkts) - Marked(q)
                                         /\ q.pkts[Len(q.pkts) - i] = t[Len(t) - j]
  <2>1. j - 1 \in 0 .. Due(s) - 1 /\ Len(t) - j = Len(s) - (j - 1) /\ Len(t) - j \in 1 .. Len(s)
    <3>1. PICK x, y, l \in Nat : x = Due(s) /\ y = Due(t) /\ l = Len(s) /\ y <= x + 1 /\ x <= l
      BY <1>1, <1>4
    <3>2. j \in 1 .. x /\ Len(t) = l + 1
      BY <1>2, <1>5, <3>1
    <3> QED BY <3>1, <3>2
  <2>2. t[Len(t) - j] = s[Len(s) - (j - 1)]
    BY <1>2, <2>1
  <2> QED BY <2>1, <2>2 DEF Kept
<1>6. CASE r = EmptyQueue /\ Keep = 0
  BY <1>2, <1>4, <1>6 DEF Kept, t
<1>7. CASE r \in MakesRoom(q, n + 1)
  <2>1. PICK m \in Left(q), b \in BOOLEAN :
          /\ r = [pkts |-> Newest(a, m), read |-> b]
          /\ Len(r.pkts) <= Len(q.pkts) => r.read
          /\ r.read => Len(r.pkts) > 1 /\ Len(r.pkts) > Keep
    BY <1>7 DEF MakesRoom, a
  <2>2. m \in 1 .. Len(a)
    BY <1>3, <2>1 DEF Left
  <2>3. /\ Len(r.pkts) = m /\ m \in Nat
        /\ \A i \in 1 .. m : r.pkts[i] = a[Len(a) - m + i]
    <3>1. m \in 0 .. Len(a) /\ m \in Nat
      BY <1>1, <1>3, <2>2
    <3>2. r.pkts = Newest(a, m)
      BY <2>1
    <3>3. Len(Newest(a, m)) = m /\ \A i \in 1 .. m : Newest(a, m)[i] = a[Len(a) - m + i]
      BY ZenonT(30), <1>3, <3>1, NewestOf
    <3> QED BY <3>1, <3>2, <3>3
  <2>4. /\ Marked(r) = 1 => m > 1 /\ m > Keep
        /\ Marked(r) = 0 => m = Len(a)
        /\ Marked(r) \in {0, 1}
    BY <1>1, <1>3, <2>1, <2>2, <2>3 DEF Marked
  <2>5. ASSUME NEW j \in 0 .. Due(t) - 1, t[Len(t) - j] \notin e
        PROVE  \E i \in 0 .. j : /\ i < Len(r.pkts) - Marked(r)
                                 /\ r.pkts[Len(r.pkts) - i] = t[Len(t) - j]
    <3>1. CASE j = 0
      <4>1. r.pkts[m - 0] = t[Len(t) - 0]
        <5>1. m - 0 \in 1 .. m /\ m - 0 = m /\ Len(a) - m + m = Len(q.pkts) + 1
          BY <1>1, <1>3, <2>2, <2>3
        <5>2. Len(t) - 0 = Len(s) + 1
          BY <1>1, <1>2
        <5> QED BY SMTT(30), <1>2, <1>3, <2>3, <5>1, <5>2
      <4>2. 0 < m - Marked(r)
        BY <2>2, <2>3, <2>4
      <4> QED BY <2>3, <3>1, <4>1, <4>2
    <3>2. CASE j # 0
      <4>1. PICK i \in 0 .. j - 1 : /\ i < Len(q.pkts) - Marked(q)
                                    /\ q.pkts[Len(q.pkts) - i] = t[Len(t) - j]
        BY <1>5, <2>5, <3>2
      <4>2. i + 1 \in 0 .. j /\ i + 1 < Keep /\ i \in Nat /\ i + 1 < Len(a)
        <5>1. PICK x \in Nat : x = Due(t) /\ x <= Keep
          BY <1>4
        <5>2. i + 1 \in 0 .. j /\ i \in Nat /\ i + 1 < Keep
          BY <1>1, <3>2, <5>1
        <5>3. i < Len(q.pkts)
          BY <1>1, <4>1, <5>2
        <5> QED BY <1>1, <1>3, <5>2, <5>3
      <4>3. i + 1 < m - Marked(r)
        BY <1>1, <1>3, <2>3, <2>4, <4>2
      <4>4. m - (i + 1) \in 1 .. m
        BY <2>3, <2>4, <4>2, <4>3
      <4>5. Len(a) - m + (m - (i + 1)) = Len(q.pkts) - i /\ Len(q.pkts) - i \in 1 .. Len(q.pkts)
        <5>1. PICK x \in Nat : x = Len(q.pkts) /\ Len(a) = x + 1 /\ i + 1 < x + 1
          BY <1>1, <1>3, <4>2
        <5> QED BY <2>3, <4>2, <5>1
      <4>6. r.pkts[m - (i + 1)] = t[Len(t) - j]
        BY ZenonT(30), <1>3, <2>3, <4>1, <4>4, <4>5
      <4> QED BY <2>3, <4>2, <4>3, <4>6
    <3> QED BY <3>1, <3>2
  <2> QED BY <1>2, <2>5 DEF Kept, t
<1>8. CASE r \in GivesUp(q)
  <2>1. PICK m \in 1 .. Len(q.pkts) :
          /\ r = [pkts |-> Newest(q.pkts, m), read |-> TRUE]
          /\ m >= Keep /\ m = Len(q.pkts) - ReadLimit - Marked(q)
    BY <1>8 DEF GivesUp
  <2>2. /\ Len(r.pkts) = m /\ m \in Nat /\ Marked(r) = 1 /\ r.pkts \in Seq(1 .. n)
        /\ \A i \in 1 .. m : r.pkts[i] = q.pkts[Len(q.pkts) - m + i]
    <3>1. m \in 0 .. Len(q.pkts) /\ m \in Nat
      BY <1>1, <2>1
    <3>2. r.pkts = Newest(q.pkts, m) /\ r.read = TRUE
      BY <2>1
    <3>3. Marked(r) = 1
      BY <3>2 DEF Marked
    <3>4. /\ Newest(q.pkts, m) \in Seq(1 .. n) /\ Len(Newest(q.pkts, m)) = m
          /\ \A i \in 1 .. m : Newest(q.pkts, m)[i] = q.pkts[Len(q.pkts) - m + i]
      BY <1>1, <3>1, NewestOf
    <3> QED BY <3>1, <3>2, <3>3, <3>4
  <2>3. n + 1 \in e
    <3>1. Len(q.pkts) - Len(r.pkts) >= ReadLimit
      <4>1. PICK x, y \in Nat : x = Len(q.pkts) /\ y = Marked(q) /\ m = x - ReadLimit - y
        BY <1>1, <2>1
      <4> QED BY <1>1, <2>2, <4>1
    <3>2. n + 1 \notin ToSet(r.pkts)
      <4>1. \A i \in DOMAIN r.pkts : r.pkts[i] \in 1 .. n
        BY <2>2, ElementOfSeq, LenProperties
      <4>2. n + 1 \notin 1 .. n
        OBVIOUS
      <4> QED BY <4>1, <4>2 DEF ToSet
    <3> QED BY <3>1, <3>2
  <2>4. ASSUME NEW j \in 0 .. Due(t) - 1, t[Len(t) - j] \notin e
        PROVE  \E i \in 0 .. j : /\ i < Len(r.pkts) - Marked(r)
                                 /\ r.pkts[Len(r.pkts) - i] = t[Len(t) - j]
    <3>1. j # 0
      BY <1>1, <1>2, <2>3, <2>4
    <3>2. PICK i \in 0 .. j - 1 : /\ i < Len(q.pkts) - Marked(q)
                                  /\ q.pkts[Len(q.pkts) - i] = t[Len(t) - j]
      BY <1>5, <2>4, <3>1
    <3>3. i \in 0 .. j /\ i + 1 < Keep /\ i \in Nat
      BY <1>1, <1>4, <3>1, <3>2
    <3>4. i < m - 1 /\ m - i \in 1 .. m /\ Len(q.pkts) - m + (m - i) = Len(q.pkts) - i
      <4>1. PICK x \in Nat : x = Len(q.pkts)
        BY <1>1
      <4>2. i + 1 < m
        BY <1>1, <2>1, <2>2, <3>3
      <4> QED BY <2>2, <3>3, <4>1, <4>2
    <3>5. r.pkts[m - i] = t[Len(t) - j]
      BY <2>2, <3>2, <3>4
    <3> QED BY <2>2, <3>3, <3>4, <3>5
  <2> QED BY <1>2, <2>4 DEF Kept, t
<1> QED BY <1>6, <1>7, <1>8 DEF f_PushPktQueue

(* One packet is offered: who buffers it has noted it, who notes it buffers it. *)
LEMMA OfferKept ==
  ASSUME IInv, Remembered, NEW S, NEW B, NEW N, SendAndPush(S, B),
         N \subseteq B, peerStat # NoChannel => B \subseteq N, peerStat = NoChannel => N = {},
         since' = [n \in BackNets |-> IF n \in N THEN Append(since[n], nPackets') ELSE since[n]],
         dropped' = [n \in BackNets |-> IF n \in N /\ GaveUp(n) THEN dropped[n] \cup {nPackets'}
                                                               ELSE dropped[n]]
  PROVE  Remembered'
<1>1. peerStat' = peerStat /\ nPackets' = nPackets + 1 /\ nPackets \in Nat
  BY BoundsOK DEF SendAndPush, NewPacket, IInv
<1>2. ASSUME NEW n \in BackNets
      PROVE  Kept(since'[n], queue'[n], dropped'[n])
  <2>1. /\ Kept(since[n], queue[n], dropped[n]) /\ IsQueue(queue[n], 1 .. nPackets)
        /\ since'[n] = IF n \in N THEN Append(since[n], nPackets + 1) ELSE since[n]
        /\ dropped'[n] = IF n \in N /\ GaveUp(n) THEN dropped[n] \cup {nPackets + 1} ELSE dropped[n]
    BY <1>1 DEF Remembered, IInv, Good
  <2>2. queue'[n] \in IF n \in B THEN f_PushPktQueue(queue[n], nPackets + 1)
                                 ELSE {queue[n]}
    BY DEF SendAndPush, AfterPush, NewPacket, BackNets
  <2>3. CASE n \in N
    <3>1. dropped[n] \subseteq dropped'[n]
      BY <2>1
    <3>2. /\ nPackets + 1 \notin ToSet(queue'[n].pkts)
          /\ Len(queue[n].pkts) - Len(queue'[n].pkts) >= ReadLimit
          => nPackets + 1 \in dropped'[n]
      BY <1>1, <2>1, <2>3 DEF GaveUp
    <3>3. queue'[n] \in f_PushPktQueue(queue[n], nPackets + 1)
      BY <2>2, <2>3
    <3>4. since'[n] = Append(since[n], nPackets + 1)
      BY <2>1, <2>3
    <3> QED BY ZenonT(30), <1>1, <2>1, <3>1, <3>2, <3>3, <3>4, PushKept
  <2>4. CASE n \notin B
    BY <2>1, <2>2, <2>4
  <2>5. CASE n \in B /\ n \notin N
    <3>1. since'[n] = <<>>
      BY <2>1, <2>5 DEF Remembered, None
    <3> QED BY <3>1, NoneKept
  <2> QED BY <2>3, <2>4, <2>5
<1>3. peerStat = NoChannel => since' = None
  BY DEF Remembered, None
<1> QED BY <1>1, <1>2, <1>3 DEF Remembered

(* What NoGap says of one step. *)
Gapless ==
  \A n \in BackNets :
    peerStat' = n /\ peerStat \in {"main", "net1"} \ {n}
      => ToSet(Newest(since[n], Due(since[n]))) \ dropped[n] \subseteq ToSet(sent'[n])

(* The step that switches sends what is pending, and what is due is pending. *)
LEMMA SwitchSendsDue ==
  ASSUME IInv, Remembered, MCTimer, NEW n \in BackNets,
         peerStat' = n, peerStat \in {"main", "net1"} \ {n}
  PROVE  ToSet(Newest(since[n], Due(since[n]))) \ dropped[n] \subseteq ToSet(sent'[n])
<1> DEFINE s == since[n]
           p == queue[n].pkts
           w == Pending(queue[n])
           k == Due(s)
           v == sent[n]
           marked == Marked(queue[n])
<1>1. n \in Flushes(peerStat, peerStat')
  BY DEF Flushes, BackNets
<1>2. sent'[n] = v \o w
  BY <1>1 DEF MCTimer, TS_HandleTimer
<1>3. /\ s \in Seq(Nat) /\ Len(s) \in Nat /\ Keep \in Nat
      /\ p \in Seq(1 .. nPackets) /\ Len(p) \in Nat /\ (queue[n].read => p # <<>>)
      /\ queue[n].read \in BOOLEAN
      /\ v \in Seq(1 .. nPackets) /\ Len(v) \in Nat
      /\ Kept(s, queue[n], dropped[n])
  BY LenProperties, QueueOK DEF Remembered, Kept, IInv, Good, IsQueue
<1>4. k \in Nat /\ k <= Len(s)
  BY <1>3 DEF Due
<1>5. /\ w \in Seq(1 .. nPackets) /\ Len(w) = Len(p) - marked
      /\ \A i \in 1 .. Len(w) : w[i] = p[i + marked]
      /\ marked \in {0, 1} /\ Len(w) \in Nat
  <2>1. CASE queue[n].read
    <3>1. p # <<>> /\ w = Tail(p) /\ marked = 1
      BY <1>3, <2>1 DEF Pending, Marked
    <3> HIDE DEF w, p, marked
    <3> QED BY <1>3, <3>1, HeadTailProperties, LenProperties
  <2>2. CASE ~queue[n].read
    <3>1. w = p /\ marked = 0
      BY <2>2 DEF Pending, Marked
    <3> HIDE DEF w, p, marked
    <3>2. \A i \in 1 .. Len(p) : i + 0 = i
      OBVIOUS
    <3> QED BY <1>3, <3>1, <3>2
  <2> QED BY <2>1, <2>2
<1>6. ASSUME NEW j \in 0 .. k - 1, s[Len(s) - j] \notin dropped[n]
      PROVE  s[Len(s) - j] \in ToSet(sent'[n])
  <2>1. PICK i \in 0 .. j : i < Len(p) - marked /\ p[Len(p) - i] = s[Len(s) - j]
    BY <1>3, <1>6 DEF Kept
  <2> HIDE DEF s, p, w, k, v, marked
  <2>2. Len(w) - i \in 1 .. Len(w) /\ (Len(w) - i) + marked = Len(p) - i
    BY SMTT(30), <1>3, <1>4, <1>5, <2>1
  <2>3. w[Len(w) - i] = s[Len(s) - j]
    BY <1>5, <2>1, <2>2
  <2>4. /\ v \o w \in Seq(1 .. nPackets) /\ Len(v \o w) = Len(v) + Len(w)
        /\ \A h \in 1 .. Len(v) + Len(w) :
             (v \o w)[h] = IF h <= Len(v) THEN v[h] ELSE w[h - Len(v)]
    BY <1>3, <1>5, ConcatProperties
  <2> DEFINE h == Len(v) + (Len(w) - i)
  <2>5. h \in 1 .. Len(v) + Len(w) /\ ~ (h <= Len(v)) /\ h - Len(v) = Len(w) - i
    BY <1>3, <1>5, <2>2
  <2> HIDE DEF h
  <2>6. (v \o w)[h] = s[Len(s) - j]
    BY <2>3, <2>4, <2>5
  <2>7. h \in DOMAIN (v \o w)
    BY <2>4, <2>5, LenProperties
  <2> QED BY <1>2, <2>6, <2>7 DEF ToSet
<1>7. \A x \in ToSet(Newest(s, k)) : \E j \in 0 .. k - 1 : x = s[Len(s) - j]
  <2> HIDE DEF s, k
  <2> DEFINE u == Newest(s, k)
  <2>1. u \in Seq(Nat) /\ Len(u) = k /\ \A i \in 1 .. k : u[i] = s[Len(s) - k + i]
    <3>1. k \in 0 .. Len(s)
      BY <1>3, <1>4
    <3> QED BY <1>3, <3>1, NewestOf
  <2>2. DOMAIN u = 1 .. k
    BY <2>1, LenProperties
  <2> HIDE DEF u
  <2>3. ASSUME NEW i \in 1 .. k
        PROVE  \E j \in 0 .. k - 1 : u[i] = s[Len(s) - j]
    <3>1. k - i \in 0 .. k - 1 /\ Len(s) - k + i = Len(s) - (k - i)
      BY <1>3, <1>4
    <3> QED BY <2>1, <3>1
  <2> QED BY <2>2, <2>3 DEF ToSet, u
<1> QED BY <1>6, <1>7

LEMMA NextRemembers ==
  ASSUME IInv, Remembered, [MCNext]_mcvars
  PROVE  Remembered' /\ Gapless
<1>1. mode \in {"ASYNC", "SYNC"} /\ peerStat \in Channels \cup {NoChannel}
  BY DEF IInv
<1>2. NoChannel \notin {"main", "net1", "net2"} /\ BackNets = {"net1", "net2"}
  BY DEF NoChannel, BackNets
<1>3. ASSUME NEW c \in {peerStat, NoChannel}, peerStat' = c PROVE Gapless
  BY <1>2, <1>3 DEF Gapless
<1>4. ASSUME since' = None, dropped' = dropped
      PROVE  Remembered'
  BY <1>4, NoneKept DEF Remembered, None
<1>5. \A pass \in SUBSET BackNets : \A N :
        (\A n \in BackNets : n \in N <=> mode = "ASYNC" /\ n \in pass \cap Buffering(peerStat))
        /\ Noted(pass)
        => /\ since' = [n \in BackNets |-> IF n \in N THEN Append(since[n], nPackets') ELSE since[n]]
           /\ dropped' = [n \in BackNets |-> IF n \in N /\ GaveUp(n) THEN dropped[n] \cup {nPackets'}
                                                                    ELSE dropped[n]]
  BY DEF Noted
<1>6. peerStat = NoChannel => Buffering(peerStat) = {}
  BY <1>2 DEF Buffering
<1>7. CASE MCTimer
  <2>1. ASSUME peerStat' = peerStat PROVE Remembered' /\ Gapless
    <3>1. Flushes(peerStat, peerStat') = {}
      BY <2>1 DEF Flushes
    <3>2. /\ queue' = [n \in BackNets |-> queue[n]]
          /\ since' = since /\ dropped' = dropped
      BY <1>7, <2>1, <3>1 DEF MCTimer, TS_HandleTimer
    <3> QED BY <1>3, <2>1, <3>2 DEF Remembered
  <2>2. ASSUME peerStat' # peerStat PROVE Remembered'
    BY <1>4, <1>7, <2>2 DEF MCTimer
  <2> QED BY <1>7, <2>1, <2>2, SwitchSendsDue DEF Gapless
<1>8. CASE MCUnicast
  <2>1. PICK pass \in SUBSET BackNets : TS_ForwardIpOut_Unicast(pass) /\ Noted(pass)
    BY <1>8 DEF MCUnicast
  <2> DEFINE B == pass \cap IF mode = "SYNC" THEN {} ELSE Buffering(peerStat)
  <2>2. SendAndPush(Carrying \cap pass, B)
    BY <2>1 DEF TS_ForwardIpOut_Unicast
  <2>3. \A n \in BackNets : n \in B <=> mode = "ASYNC" /\ n \in pass \cap Buffering(peerStat)
    BY <1>1
  <2>4. peerStat = NoChannel => B = {}
    BY <1>6
  <2> HIDE DEF B
  <2>5. Remembered'
    BY <1>5, <2>1, <2>2, <2>3, <2>4, OfferKept
  <2> QED BY <1>3, <2>2, <2>5 DEF SendAndPush
<1>9. CASE MCMulticast
  <2> DEFINE N == {}
  <2>1. SendAndPush(BackNets \cap {peerStat}, N) /\ since' = since /\ dropped' = dropped
    BY <1>9 DEF MCMulticast, TS_ForwardIpOut_Multicast
  <2>2. /\ since' = [n \in BackNets |-> IF n \in N THEN Append(since[n], nPackets') ELSE since[n]]
        /\ dropped' = [n \in BackNets |-> IF n \in N /\ GaveUp(n) THEN dropped[n] \cup {nPackets'}
                                                                 ELSE dropped[n]]
    BY <2>1 DEF Remembered
  <2>3. N = {}
    OBVIOUS
  <2> HIDE DEF N
  <2>4. Remembered'
    BY <2>1, <2>2, <2>3, OfferKept
  <2> QED BY <1>3, <2>1, <2>4 DEF SendAndPush
<1>10. CASE MCArp
  <2>1. PICK pass \in SUBSET BackNets : TS_ForwardArpOut(pass) /\ Noted(pass)
    BY <1>10 DEF MCArp
  <2> DEFINE B == pass \cap IF peerStat = NoChannel THEN BackNets ELSE Buffering(peerStat)
             N == pass \cap Buffering(peerStat)
  <2>2. SendAndPush({}, B) /\ mode = "ASYNC"
    BY <2>1 DEF TS_ForwardArpOut
  <2>3. \A n \in BackNets : n \in N <=> mode = "ASYNC" /\ n \in pass \cap Buffering(peerStat)
    BY <2>2
  <2>4. N \subseteq B /\ (peerStat # NoChannel => B \subseteq N) /\ (peerStat = NoChannel => N = {})
    BY <1>6
  <2> HIDE DEF B, N
  <2>5. Remembered'
    BY <1>5, <2>1, <2>2, <2>3, <2>4, OfferKept
  <2> QED BY <1>3, <2>2, <2>5 DEF SendAndPush
<1>11. CASE MCUpdate
  <2>1. since' = None /\ dropped' = dropped /\ peerStat' \in {peerStat, NoChannel}
    BY <1>11 DEF MCUpdate, TS_UpdateConfig
  <2> QED BY <1>3, <1>4, <2>1
<1>12. CASE UNCHANGED mcvars
  BY <1>3, <1>12 DEF mcvars, vars, Remembered
<1> QED BY <1>7, <1>8, <1>9, <1>10, <1>11, <1>12 DEF MCNext

(* The history variables watch the switch and do not steer it. *)
LEMMA MCStepIsStep == [MCNext]_mcvars => [Next]_vars
BY DEF MCNext, MCTimer, MCUnicast, MCMulticast, MCArp, MCUpdate, Next, mcvars, vars

(* A switch to a back-up network below sends, in the step that switches, the newest
   packets offered to its buffer since the channel that failed came into use, but for
   those whose own push gave up. *)
THEOREM SwitchLeavesNoGap == MCSpec => NoGap
<1>1. MCInit => IInv /\ Remembered
  <2> SUFFICES ASSUME MCInit PROVE Remembered
    BY InitIInv DEF MCInit
  <2>1. IInv
    BY InitIInv DEF MCInit
  <2> QED BY <2>1, NoneKept DEF MCInit, Remembered, None, IInv, Good
<1>2. IInv /\ Remembered /\ [MCNext]_mcvars => IInv' /\ Remembered'
  BY MCStepIsStep, NextKeepsIInv, NextRemembers
<1>3. IInv /\ Remembered /\ [MCNext]_mcvars =>
        [\A n \in BackNets :
           peerStat' = n /\ peerStat \in {"main", "net1"} \ {n}
             => LET m == IF Len(since[n]) < Keep THEN Len(since[n]) ELSE Keep
                IN ToSet(Newest(since[n], m)) \ dropped[n] \subseteq ToSet(sent'[n])]_mcvars
  BY NextRemembers DEF Gapless, Due
<1> QED BY <1>1, <1>2, <1>3, PTL DEF MCSpec, NoGap
-----------------------------------------------------------------------------
(* Where the packets of a ring lie: the inductive invariant of CommonQueue.  The
   memory keeps what was evicted or sent, payload included, so that nothing can be
   said of a unit by itself; the invariant follows the packets not yet read from
   header to header, and says that the writer has nothing of them before it. *)

(* What the memory may hold when n packets were pushed, and the rings with it. *)
UnitsOf(n) == {Zero, Padding, Data} \cup {Header(p, l) : p \in 1 .. n, l \in 1 .. Size}
RingsOf(n) == [mem : [Places -> UnitsOf(n)], wp : Places, rp : Places, count : Nat, last : Nat]

(* The place after the packet at k. *)
Behind(r, k) == k + r.mem[k].len + 1

(* The reader, starting at rp, comes from packet to packet to wp. *)
Linked(r, at) ==
  /\ at = <<>> => r.rp = r.wp
  /\ at # <<>> => at[1] = C!PastPadding(r, r.rp)
  /\ \A k \in 1 .. Len(at) :
       /\ r.mem[at[k]].kind = "packet"
       /\ IF k = Len(at) THEN r.wp = Behind(r, at[k])
          ELSE at[k + 1] = C!PastPadding(r, Behind(r, at[k]))

(* The packets lie one after the other between rp and wp. *)
Flat(r, at) ==
  /\ r.rp <= r.wp
  /\ \A k \in 1 .. Len(at) : r.rp <= at[k] /\ Behind(r, at[k]) <= r.wp
  /\ \A j, k \in 1 .. Len(at) : j < k => Behind(r, at[j]) <= at[k]

(* The first m lie between rp and the padding at e, the others before wp. *)
Wrapped(r, at, m, e) ==
  /\ r.wp < r.rp /\ r.rp <= e /\ r.mem[e] = Padding /\ at[m + 1] = 0
  /\ \A k \in 1 .. Len(at) : IF k <= m THEN r.rp <= at[k] /\ Behind(r, at[k]) <= e
                              ELSE Behind(r, at[k]) <= r.wp
  /\ \A j, k \in 1 .. Len(at) : j < k /\ (j <= m <=> k <= m) => Behind(r, at[j]) <= at[k]

(* at are the places of the packets in r, oldest first. *)
Lies(r, at) ==
  /\ at \in Seq(Places) /\ Len(at) = r.count
  /\ Linked(r, at)
  /\ Flat(r, at) \/ \E m \in 0 .. Len(at) - 1, e \in Places : Wrapped(r, at, m, e)

(* The packet last read is at the reader until the next read skips it. *)
MarkOK(r, at) == r.last > 0 => at # <<>> /\ r.rp = at[1]

-----------------------------------------------------------------------------
(* The units of a ring. *)
LEMMA RingTypes ==
  ASSUME NEW n \in Nat, NEW r \in RingsOf(n)
  PROVE  /\ r.wp \in Int /\ r.rp \in Int /\ r.count \in Nat /\ r.last \in Nat
         /\ 0 <= r.wp /\ r.wp < Size /\ 0 <= r.rp /\ r.rp < Size /\ Size \in Nat
         /\ \A k \in Places : /\ k \in Int /\ 0 <= k /\ k < Size
                              /\ r.mem[k] \in UnitsOf(n) /\ r.mem[k].len \in Nat
                              /\ r.mem[k].kind = "packet" =>
                                   r.mem[k].len \in 1 .. Size /\ r.mem[k].id \in 1 .. n
                              /\ r.mem[k] = Padding => r.mem[k].kind = "padding"
<1>1. \A u \in UnitsOf(n) : /\ u.len \in Nat
                            /\ u.kind = "packet" => u.len \in 1 .. Size /\ u.id \in 1 .. n
  BY RingOK DEF UnitsOf, Zero, Padding, Data, Header
<1>2. /\ r.mem \in [Places -> UnitsOf(n)] /\ r.wp \in Places /\ r.rp \in Places
      /\ r.count \in Nat /\ r.last \in Nat
  BY DEF RingsOf
<1>3. Size \in Nat /\ \A k \in Places : k \in Int /\ 0 <= k /\ k < Size
  BY RingOK DEF Places
<1> QED BY <1>1, <1>2, <1>3 DEF Padding

(* The places of the packets of a ring, and what lies behind each. *)
LEMMA PlaceTypes ==
  ASSUME NEW n \in Nat, NEW r \in RingsOf(n), NEW at, Lies(r, at)
  PROVE  /\ Len(at) \in Nat /\ at \in Seq(Places)
         /\ \A k \in 1 .. Len(at) :
              /\ at[k] \in Places /\ at[k] \in Int /\ at[k] >= 0
              /\ r.mem[at[k]].len \in Nat \ {0} /\ r.mem[at[k]].id \in 1 .. n
              /\ Behind(r, at[k]) \in Int /\ at[k] + 1 < Behind(r, at[k])
<1>1. at \in Seq(Places) /\ Len(at) \in Nat
  BY LenProperties DEF Lies
<1>2. ASSUME NEW k \in 1 .. Len(at)
      PROVE  /\ at[k] \in Places /\ at[k] \in Int /\ at[k] >= 0
             /\ r.mem[at[k]].len \in Nat \ {0} /\ r.mem[at[k]].id \in 1 .. n
             /\ Behind(r, at[k]) \in Int /\ at[k] + 1 < Behind(r, at[k])
  <2>1. at[k] \in Places /\ r.mem[at[k]].kind = "packet"
    BY <1>1, <1>2, ElementOfSeq DEF Lies, Linked
  <2>2. /\ at[k] \in Int /\ at[k] >= 0
        /\ r.mem[at[k]].len \in 1 .. Size /\ r.mem[at[k]].id \in 1 .. n
    BY <2>1, RingTypes
  <2>3. Behind(r, at[k]) = at[k] + r.mem[at[k]].len + 1
    BY DEF Behind
  <2>4. r.mem[at[k]].len \in Nat \ {0}
    BY <2>2
  <2>5. Behind(r, at[k]) \in Int /\ at[k] + 1 < Behind(r, at[k])
    BY <2>2, <2>3, <2>4
  <2> QED BY <2>1, <2>2, <2>4, <2>5
<1> QED BY <1>1, <1>2

(* The positions meet exactly when the ring is empty. *)
LEMMA MeetsWhenEmpty ==
  ASSUME NEW n \in Nat, NEW r \in RingsOf(n), NEW at, Lies(r, at)
  PROVE  r.wp = r.rp <=> r.count = 0
<1>1. CASE at = <<>>
  BY <1>1, EmptySeq DEF Lies, Linked
<1>2. CASE at # <<>>
  <2>1. Len(at) = r.count /\ Len(at) > 0
    BY <1>2, EmptySeq, PlaceTypes DEF Lies
  <2>2. CASE Flat(r, at)
    <3>1. r.rp <= at[1] /\ Behind(r, at[1]) <= r.wp
      BY <2>1, <2>2 DEF Flat
    <3>2. at[1] \in Int /\ Behind(r, at[1]) \in Int /\ at[1] + 1 < Behind(r, at[1])
      BY <2>1, PlaceTypes
    <3> QED BY <2>1, <3>1, <3>2, RingTypes
  <2>3. ASSUME NEW m \in 0 .. Len(at) - 1, NEW e \in Places, Wrapped(r, at, m, e)
        PROVE  r.wp # r.rp
    BY <2>3, RingTypes DEF Wrapped
  <2> QED BY <2>1, <2>2, <2>3 DEF Lies
<1> QED BY <1>1, <1>2

(* The packets of a ring without the oldest. *)
LEMMA TailOf ==
  ASSUME NEW at \in Seq(Places), at # <<>>
  PROVE  /\ Tail(at) \in Seq(Places) /\ Len(Tail(at)) = Len(at) - 1 /\ Len(at) \in Nat \ {0}
         /\ \A k \in 1 .. Len(at) - 1 : Tail(at)[k] = at[k + 1]
         /\ Tail(at) = <<>> <=> Len(at) = 1
<1>1. Len(at) \in Nat \ {0} /\ Tail(at) \in Seq(Places) /\ Len(Tail(at)) = Len(at) - 1
      /\ \A k \in 1 .. Len(Tail(at)) : Tail(at)[k] = at[k + 1]
  BY HeadTailProperties, EmptySeq, LenProperties
<1>2. Tail(at) = <<>> <=> Len(Tail(at)) = 0
  BY <1>1, EmptySeq
<1> QED BY <1>1, <1>2

(* Skipping the packet at the reader leaves the others where they are. *)
LEMMA SkipLies ==
  ASSUME NEW n \in Nat, NEW r \in RingsOf(n), NEW at, Lies(r, at), at # <<>>, r.rp = at[1]
  PROVE  LET s == C!QueueSkipCurrentPacket(r)
         IN  s \in RingsOf(n) /\ Lies(s, Tail(at)) /\ s.mem = r.mem
<1> DEFINE s == C!QueueSkipCurrentPacket(r)
           t == Tail(at)
           next == Behind(r, at[1])
<1>1. /\ at \in Seq(Places) /\ Len(at) \in Nat \ {0} /\ Len(at) = r.count
      /\ t \in Seq(Places) /\ Len(t) = Len(at) - 1 /\ (t = <<>> <=> Len(at) = 1)
      /\ \A k \in 1 .. Len(at) - 1 : t[k] = at[k + 1]
  BY TailOf DEF Lies
<1>2. \A k \in 1 .. Len(at) : /\ at[k] \in Int /\ at[k] >= 0 /\ Behind(r, at[k]) \in Int
                              /\ at[k] + 1 < Behind(r, at[k])
  BY PlaceTypes
<1>3. r.mem[at[1]].kind = "packet" /\ 1 \in 1 .. Len(at)
  BY <1>1 DEF Lies, Linked
<1>4. \A m, e : Wrapped(r, at, m, e) /\ m \in 0 .. Len(at) - 1 => m >= 1
  <2> SUFFICES ASSUME NEW e, Wrapped(r, at, 0, e) PROVE FALSE
    BY <1>1
  <2> QED BY RingTypes DEF Wrapped
<1>5. Flat(r, at) \/ \E m \in 0 .. Len(at) - 1, e \in Places : Wrapped(r, at, m, e)
  BY DEF Lies
<1>6. next \in Places
  <2>1. CASE Flat(r, at)
    BY SMTT(30), <1>2, <1>3, <2>1, RingTypes DEF Flat, Places
  <2>2. ASSUME NEW m \in 0 .. Len(at) - 1, NEW e \in Places, Wrapped(r, at, m, e)
        PROVE  next \in Places
    <3>1. e \in Int /\ e < Size
      BY RingTypes
    <3>2. 1 <= m
      BY <1>4, <2>2
    <3>3. next <= e
      BY <1>3, <2>2, <3>2 DEF Wrapped
    <3>4. next \in Int /\ next >= 0
      BY <1>2, <1>3
    <3> HIDE DEF next
    <3> QED BY <3>1, <3>3, <3>4, RingOK DEF Places
  <2> QED BY <1>5, <2>1, <2>2
<1>7. /\ s \in RingsOf(n) /\ s.mem = r.mem /\ s.wp = r.wp /\ s.rp = next
      /\ s.count = Len(at) - 1
  <2>1. ~ next >= Size
    BY <1>6, RingOK DEF Places
  <2>2. C!PastPadding(r, r.rp) = r.rp /\ r.mem[r.rp].kind = "packet"
    BY <1>3 DEF C!PastPadding
  <2>3. next = r.rp + (r.mem[r.rp].len + 1)
    BY <1>2, <1>3, RingTypes, PlaceTypes DEF Behind
  <2>4. s = [r EXCEPT !.rp = next, !.count = r.count - 1]
    BY <2>1, <2>2, <2>3 DEF C!QueueSkipCurrentPacket
  <2>5. r.count - 1 \in Nat /\ r.count - 1 = Len(at) - 1
    BY <1>1
  <2> HIDE DEF s, next
  <2> QED BY <1>6, <2>4, <2>5 DEF RingsOf
<1> HIDE DEF s, t
<1>8. \A k : Behind(s, k) = Behind(r, k) /\ C!PastPadding(s, k) = C!PastPadding(r, k)
  BY <1>7 DEF Behind, C!PastPadding
<1>9. Linked(s, t)
  <2>1. t = <<>> => s.rp = s.wp
    BY <1>1, <1>7 DEF Lies, Linked
  <2>2. t # <<>> => t[1] = C!PastPadding(s, s.rp)
    BY <1>1, <1>7, <1>8 DEF Lies, Linked
  <2>3. ASSUME NEW k \in 1 .. Len(t)
        PROVE  /\ s.mem[t[k]].kind = "packet"
               /\ IF k = Len(t) THEN s.wp = Behind(s, t[k])
                  ELSE t[k + 1] = C!PastPadding(s, Behind(s, t[k]))
    <3>1. k + 1 \in 1 .. Len(at) /\ t[k] = at[k + 1] /\ (k = Len(t) <=> k + 1 = Len(at))
      BY <1>1
    <3>2. k # Len(t) => t[k + 1] = at[k + 1 + 1]
      BY <1>1
    <3> QED BY <1>7, <1>8, <3>1, <3>2 DEF Lies, Linked
  <2> QED BY <2>1, <2>2, <2>3 DEF Linked
<1>10. ASSUME Flat(r, at) PROVE Lies(s, t)
  <2>1. s.rp <= s.wp
    BY <1>3, <1>7, <1>10 DEF Flat
  <2>2. \A k \in 1 .. Len(t) : s.rp <= t[k] /\ Behind(s, t[k]) <= s.wp
    BY <1>1, <1>7, <1>8, <1>10 DEF Flat
  <2>3. ASSUME NEW j \in 1 .. Len(t), NEW k \in 1 .. Len(t), j < k PROVE Behind(s, t[j]) <= t[k]
    <3>1. j + 1 \in 1 .. Len(at) /\ t[j] = at[j + 1] /\ j + 1 < k + 1
      BY <1>1, <2>3
    <3>2. k + 1 \in 1 .. Len(at) /\ t[k] = at[k + 1]
      BY <1>1
    <3> QED BY <1>8, <1>10, <3>1, <3>2 DEF Flat
  <2> QED BY <1>1, <1>7, <1>9, <2>1, <2>2, <2>3 DEF Lies, Flat
<1>11. ASSUME NEW m \in 0 .. Len(at) - 1, NEW e \in Places, Wrapped(r, at, m, e)
       PROVE  Lies(s, t)
  <2>1. /\ m >= 1 /\ m \in Int /\ m - 1 \in 0 .. Len(t) - 1 /\ m <= Len(at) - 1
        /\ e \in Int /\ (m - 1) + 1 = m /\ t[m] = at[m + 1]
    BY SMTT(30), <1>1, <1>4, <1>11, RingTypes
  <2>2. /\ r.wp < r.rp /\ r.rp <= e /\ r.mem[e] = Padding /\ at[m + 1] = 0
        /\ next <= e /\ r.rp < next /\ r.wp \in Int /\ r.rp \in Int /\ next \in Int
    <3>1. r.wp < r.rp /\ r.rp <= e /\ r.mem[e] = Padding /\ at[m + 1] = 0
      BY <1>11 DEF Wrapped
    <3>2. r.rp <= at[1] /\ next <= e
      BY <1>3, <1>11, <2>1 DEF Wrapped
    <3>3. at[1] \in Int /\ next \in Int /\ at[1] + 1 < next
      BY <1>2, <1>3
    <3>4. r.wp \in Int /\ r.rp \in Int
      BY RingTypes
    <3> HIDE DEF next
    <3> QED BY <3>1, <3>2, <3>3, <3>4
  <2>3. ASSUME NEW k \in 1 .. Len(t)
        PROVE  IF k <= m - 1 THEN next <= t[k] /\ Behind(r, t[k]) <= e ELSE Behind(r, t[k]) <= r.wp
    <3>1. k + 1 \in 1 .. Len(at) /\ t[k] = at[k + 1] /\ (k <= m - 1 <=> k + 1 <= m) /\ 1 < k + 1
      BY <1>1, <2>1
    <3>2. k + 1 <= m => next <= at[k + 1]
      BY <1>3, <1>11, <2>1, <3>1 DEF Wrapped
    <3> QED BY <1>11, <3>1, <3>2 DEF Wrapped
  <2>4. ASSUME NEW j \in 1 .. Len(t), NEW k \in 1 .. Len(t), j < k, j <= m - 1 <=> k <= m - 1
        PROVE  Behind(r, t[j]) <= t[k]
    <3>1. j + 1 \in 1 .. Len(at) /\ t[j] = at[j + 1] /\ (j <= m - 1 <=> j + 1 <= m)
      BY SMTT(30), <1>1, <2>1
    <3>2. k + 1 \in 1 .. Len(at) /\ t[k] = at[k + 1] /\ (k <= m - 1 <=> k + 1 <= m)
      BY SMTT(30), <1>1, <2>1
    <3> QED BY <1>11, <2>4, <3>1, <3>2 DEF Wrapped
  <2>5. Wrapped(s, t, m - 1, e)
    <3>1. s.wp < s.rp /\ s.rp <= e /\ s.mem[e] = Padding /\ t[(m - 1) + 1] = 0
      BY <1>7, <2>1, <2>2
    <3> QED BY <1>7, <1>8, <2>3, <2>4, <3>1 DEF Wrapped
  <2> QED BY <1>1, <1>7, <1>9, <2>1, <2>5 DEF Lies
<1>12. Lies(s, t)
  BY <1>5, <1>10, <1>11
<1> QED BY <1>7, <1>12 DEF s, t

(* The packet at the reader, if there is one, is found. *)
LEMMA ReadLies ==
  ASSUME NEW n \in Nat, NEW r \in RingsOf(n), NEW at, Lies(r, at)
  PROVE  LET s == C!QueueReadCurrentPacket(r)
         IN  /\ s \in RingsOf(n) /\ Lies(s, at) /\ s.mem = r.mem
             /\ s.last > 0 <=> at # <<>>
             /\ at # <<>> => s.rp = at[1]
<1> DEFINE s == C!QueueReadCurrentPacket(r)
<1>1. /\ at \in Seq(Places) /\ Len(at) \in Nat /\ Len(at) = r.count
      /\ at = <<>> <=> Len(at) = 0
  BY PlaceTypes, EmptySeq DEF Lies
<1>2. \A k \in 1 .. Len(at) : /\ at[k] \in Places /\ at[k] \in Int /\ at[k] >= 0
                              /\ Behind(r, at[k]) \in Int /\ at[k] + 1 < Behind(r, at[k])
                              /\ r.mem[at[k]].len \in Nat \ {0}
  BY PlaceTypes
<1>3. r.wp \in Int /\ r.rp \in Int /\ 0 <= r.wp /\ 0 <= r.rp
  BY RingTypes
<1>4. CASE at = <<>>
  <2>1. s = [r EXCEPT !.last = 0]
    BY <1>1, <1>4 DEF C!QueueReadCurrentPacket
  <2>2. s \in RingsOf(n) /\ s.mem = r.mem /\ s.last = 0 /\ s.count = r.count
        /\ s.wp = r.wp /\ s.rp = r.rp
    BY <2>1 DEF RingsOf
  <2> HIDE DEF s
  <2>3. Linked(s, at) /\ Flat(s, at)
    BY <1>1, <1>3, <1>4, <2>2 DEF Lies, Linked, Flat
  <2> QED BY <1>1, <1>4, <2>2, <2>3 DEF Lies, s
<1>5. CASE at # <<>>
  <2>1. /\ 1 \in 1 .. Len(at) /\ r.count > 0 /\ r.wp # r.rp /\ r.mem[at[1]].kind = "packet"
        /\ C!PastPadding(r, r.rp) = at[1]
    <3>1. 1 \in 1 .. Len(at) /\ r.count > 0
      BY <1>1, <1>5
    <3>2. r.wp # r.rp
      BY <3>1, MeetsWhenEmpty
    <3> QED BY <1>5, <3>1, <3>2 DEF Lies, Linked
  <2>2. at[1] = 0 \/ at[1] = r.rp
    BY <2>1 DEF C!PastPadding
  <2>3. ASSUME NEW m \in 0 .. Len(at) - 1, NEW e \in Places, Wrapped(r, at, m, e)
        PROVE  IF m = 0 THEN at[1] = 0 /\ r.wp > 0 ELSE at[1] = r.rp /\ r.wp < r.rp
    <3>1. CASE m = 0
      <4>1. at[1] = 0 /\ Behind(r, at[1]) <= r.wp
        BY <2>1, <2>3, <3>1 DEF Wrapped
      <4> QED BY <1>2, <1>3, <2>1, <3>1, <4>1
    <3>2. CASE m >= 1
      <4>1. r.rp <= at[1] /\ r.wp < r.rp
        BY <2>1, <2>3, <3>2 DEF Wrapped
      <4> QED BY <1>2, <1>3, <2>1, <2>2, <3>2, <4>1
    <3> QED BY <3>1, <3>2
  <2>4. Flat(r, at) \/ \E m \in 0 .. Len(at) - 1, e \in Places : Wrapped(r, at, m, e)
    BY DEF Lies
  <2>5. Flat(r, at) => at[1] # r.wp
    BY <1>2, <1>3, <2>1 DEF Flat
  <2>6. r.wp # at[1]
    BY <1>2, <1>3, <2>1, <2>3, <2>4, <2>5
  <2>7. s = [r EXCEPT !.last = r.mem[at[1]].len, !.rp = at[1]]
    BY <1>1, <2>1, <2>6 DEF C!QueueReadCurrentPacket
  <2>8. /\ s \in RingsOf(n) /\ s.mem = r.mem /\ s.last = r.mem[at[1]].len /\ s.count = r.count
        /\ s.wp = r.wp /\ s.rp = at[1] /\ s.last > 0
    <3>1. at[1] \in Places /\ r.mem[at[1]].len \in Nat \ {0}
      BY <1>2, <2>1
    <3> DEFINE l == r.mem[at[1]].len
               k == at[1]
    <3>2. l \in Nat \ {0} /\ k \in Places /\ s = [r EXCEPT !.last = l, !.rp = k]
      BY <2>7, <3>1
    <3> HIDE DEF s, l, k
    <3>3. /\ s.mem = r.mem /\ s.last = l /\ s.count = r.count /\ s.wp = r.wp /\ s.rp = k
          /\ s \in RingsOf(n)
      BY <3>2 DEF RingsOf
    <3>4. s.last > 0
      BY <3>2, <3>3
    <3> QED BY <3>3, <3>4 DEF l, k
  <2> HIDE DEF s
  <2>9. \A k : Behind(s, k) = Behind(r, k) /\ C!PastPadding(s, k) = C!PastPadding(r, k)
    BY <2>8 DEF Behind, C!PastPadding
  <2>10. Linked(s, at)
    <3>1. at[1] = C!PastPadding(s, s.rp)
      BY <2>1, <2>8 DEF C!PastPadding
    <3> QED BY <1>5, <2>8, <2>9, <3>1 DEF Lies, Linked
  <2>11. ASSUME Flat(r, at) PROVE Lies(s, at)
    <3>1. \A k \in 1 .. Len(at) : at[1] <= at[k]
      <4> SUFFICES ASSUME NEW k \in 1 .. Len(at), k > 1 PROVE at[1] <= at[k]
        BY <1>2
      <4>1. Behind(r, at[1]) <= at[k]
        BY <2>1, <2>11 DEF Flat
      <4> QED BY <1>2, <2>1, <4>1
    <3>2. at[1] <= r.wp
      BY <1>2, <1>3, <2>1, <2>11 DEF Flat
    <3>3. s.rp <= s.wp /\ \A k \in 1 .. Len(at) : s.rp <= at[k] /\ Behind(s, at[k]) <= s.wp
      BY <2>8, <2>9, <2>11, <3>1, <3>2 DEF Flat
    <3>4. \A j, k \in 1 .. Len(at) : j < k => Behind(s, at[j]) <= at[k]
      BY <2>9, <2>11 DEF Flat
    <3>5. Flat(s, at)
      BY <3>3, <3>4 DEF Flat
    <3> QED BY <1>1, <2>8, <2>10, <3>5 DEF Lies
  <2>12. ASSUME NEW m \in 0 .. Len(at) - 1, NEW e \in Places, Wrapped(r, at, m, e)
         PROVE  Lies(s, at)
    <3>1. CASE m = 0
      <4>1. s.rp = 0 /\ s.rp <= s.wp
        BY <1>3, <2>3, <2>8, <2>12, <3>1
      <4>2. \A k \in 1 .. Len(at) : Behind(s, at[k]) <= s.wp
        BY <2>8, <2>9, <2>12, <3>1 DEF Wrapped
      <4>3. \A j, k \in 1 .. Len(at) : j < k => Behind(s, at[j]) <= at[k]
        BY <2>9, <2>12, <3>1 DEF Wrapped
      <4>4. \A k \in 1 .. Len(at) : s.rp <= at[k]
        BY <1>2, <4>1
      <4>5. Flat(s, at)
        BY <4>1, <4>2, <4>3, <4>4 DEF Flat
      <4> QED BY <1>1, <2>8, <2>10, <4>5 DEF Lies
    <3>2. CASE m >= 1
      <4>1. s.rp = r.rp
        BY <2>3, <2>8, <2>12, <3>2
      <4>2. Wrapped(s, at, m, e)
        BY <2>8, <2>9, <2>12, <4>1 DEF Wrapped
      <4> QED BY <1>1, <2>8, <2>10, <4>2 DEF Lies
    <3> QED BY <3>1, <3>2
  <2>13. Lies(s, at)
    BY <2>4, <2>11, <2>12
  <2> QED BY <1>5, <2>8, <2>13 DEF s
<1> QED BY <1>4, <1>5

(* QueueReadNextPacket drops the packet that was read before, if any, and reads the
   oldest of the others. *)
LEMMA NextLies ==
  ASSUME NEW n \in Nat, NEW r \in RingsOf(n), NEW at, Lies(r, at), MarkOK(r, at)
  PROVE  LET s == C!QueueReadNextPacket(r)
             t == IF r.last > 0 THEN Tail(at) ELSE at
         IN  /\ s \in RingsOf(n) /\ Lies(s, t) /\ MarkOK(s, t) /\ s.mem = r.mem
             /\ s.last > 0 <=> t # <<>>
<1>1. CASE r.last > 0
  <2> DEFINE q == C!QueueSkipCurrentPacket(r)
  <2>1. q \in RingsOf(n) /\ Lies(q, Tail(at)) /\ q.mem = r.mem
    BY <1>1, SkipLies DEF MarkOK
  <2>2. C!QueueReadNextPacket(r) = C!QueueReadCurrentPacket(q)
    BY <1>1 DEF C!QueueReadNextPacket
  <2> HIDE DEF q
  <2>3. /\ C!QueueReadNextPacket(r) \in RingsOf(n) /\ C!QueueReadNextPacket(r).mem = r.mem
        /\ Lies(C!QueueReadNextPacket(r), Tail(at))
        /\ C!QueueReadNextPacket(r).last > 0 <=> Tail(at) # <<>>
        /\ Tail(at) # <<>> => C!QueueReadNextPacket(r).rp = Tail(at)[1]
    BY <2>1, <2>2, ReadLies
  <2> QED BY <1>1, <2>3 DEF MarkOK
<1>2. CASE ~ r.last > 0
  <2>1. C!QueueReadNextPacket(r) = C!QueueReadCurrentPacket(r)
    BY <1>2 DEF C!QueueReadNextPacket
  <2> QED BY <1>2, <2>1, ReadLies DEF MarkOK
<1> QED BY <1>1, <1>2

(* The places of the packets with that of a new one. *)
LEMMA PlacesAppended ==
  ASSUME NEW at \in Seq(Places), NEW k \in Places
  PROVE  LET b == Append(at, k)
         IN  /\ b \in Seq(Places) /\ Len(b) = Len(at) + 1 /\ Len(at) \in Nat /\ b # <<>>
             /\ b[Len(at) + 1] = k /\ \A i \in 1 .. Len(at) : b[i] = at[i]
             /\ at = <<>> <=> Len(at) = 0
<1>1. Len(at) \in Nat /\ (at = <<>> <=> Len(at) = 0)
  BY LenProperties, EmptySeq
<1>2. /\ Append(at, k) \in Seq(Places) /\ Len(Append(at, k)) = Len(at) + 1
      /\ Append(at, k)[Len(at) + 1] = k
      /\ \A i \in 1 .. Len(at) : Append(at, k)[i] = at[i]
  BY AppendProperties
<1>3. Append(at, k) # <<>>
  BY <1>1, <1>2, EmptySeq
<1> QED BY <1>1, <1>2, <1>3

(* What QueueWriteDataFinished makes of a ring. *)
LEMMA WrittenRing ==
  ASSUME NEW n \in Nat, NEW r \in RingsOf(n), NEW k \in Places, NEW used \in 1 .. Size,
         k + used + 1 < Size
  PROVE  LET s == C!Written(r, k, n + 1, used)
         IN  /\ s \in RingsOf(n + 1)
             /\ s.wp = k + used + 1 /\ s.rp = r.rp /\ s.count = r.count + 1 /\ s.last = r.last
             /\ s.mem[k] = Header(n + 1, used)
             /\ \A j \in Places : j < k \/ j > k + used => s.mem[j] = r.mem[j]
<1> DEFINE s == C!Written(r, k, n + 1, used)
           mem == [j \in Places |-> IF j = k THEN Header(n + 1, used)
                                   ELSE IF j \in k + 1 .. k + used THEN Data ELSE r.mem[j]]
<1>1. k \in Int /\ k >= 0 /\ used \in Int /\ used >= 1 /\ Size \in Nat
  BY RingOK DEF Places
<1>2. r.mem \in [Places -> UnitsOf(n)]
  BY DEF RingsOf
<1>3. mem \in [Places -> UnitsOf(n + 1)]
  <2>1. UnitsOf(n) \subseteq UnitsOf(n + 1)
    BY DEF UnitsOf
  <2>2. Header(n + 1, used) \in UnitsOf(n + 1) /\ Data \in UnitsOf(n + 1)
    BY DEF UnitsOf
  <2> QED BY <1>2, <2>1, <2>2
<1>4. s = [r EXCEPT !.mem = mem, !.wp = k + used + 1, !.count = r.count + 1]
  BY DEF C!Written, C!Places, Places, C!Header, Header, C!Data, Data
<1>5. k + used + 1 \in Places
  BY <1>1 DEF Places
<1>6. mem[k] = Header(n + 1, used) /\ \A j \in Places : j < k \/ j > k + used => mem[j] = r.mem[j]
  BY <1>1 DEF Places
<1> HIDE DEF s, mem
<1>7. /\ s.mem = mem /\ s.wp = k + used + 1 /\ s.rp = r.rp /\ s.count = r.count + 1
      /\ s.last = r.last /\ s \in RingsOf(n + 1)
  <2> DEFINE w == k + used + 1
             c == r.count + 1
  <2>1. w \in Places /\ c \in Nat /\ s = [r EXCEPT !.mem = mem, !.wp = w, !.count = c]
    BY <1>4, <1>5, RingTypes
  <2> HIDE DEF w, c
  <2>2. /\ s.mem = mem /\ s.wp = w /\ s.rp = r.rp /\ s.count = c /\ s.last = r.last
        /\ s \in RingsOf(n + 1)
    BY <1>3, <2>1 DEF RingsOf
  <2> QED BY <2>2 DEF w, c
<1> QED BY <1>6, <1>7 DEF s

(* A packet behind all others is the last on the way of the reader. *)
LEMMA AppendLinked ==
  ASSUME NEW n \in Nat, NEW r \in RingsOf(n), NEW at, Lies(r, at), NEW s, NEW k \in Places,
         s.rp = r.rp, s.mem[k].kind = "packet", s.wp = Behind(s, k),
         C!PastPadding(s, r.wp) = k,
         at # <<>> => C!PastPadding(s, r.rp) = C!PastPadding(r, r.rp),
         \A i \in 1 .. Len(at) : s.mem[at[i]] = r.mem[at[i]],
         \A i \in 1 .. Len(at) - 1 :
           C!PastPadding(s, Behind(r, at[i])) = C!PastPadding(r, Behind(r, at[i]))
  PROVE  Linked(s, Append(at, k))
<1> DEFINE b == Append(at, k)
<1>1. /\ b # <<>> /\ Len(b) = Len(at) + 1 /\ Len(at) \in Nat /\ b[Len(at) + 1] = k
      /\ \A i \in 1 .. Len(at) : b[i] = at[i]
      /\ at = <<>> <=> Len(at) = 0
  BY PlacesAppended DEF Lies
<1> HIDE DEF b
<1>2. b[1] = C!PastPadding(s, s.rp)
  <2>1. CASE at = <<>>
    BY <1>1, <2>1 DEF Lies, Linked
  <2>2. CASE at # <<>>
    BY <1>1, <2>2 DEF Lies, Linked
  <2> QED BY <2>1, <2>2
<1>3. ASSUME NEW i \in 1 .. Len(b)
      PROVE  /\ s.mem[b[i]].kind = "packet"
             /\ IF i = Len(b) THEN s.wp = Behind(s, b[i])
                ELSE b[i + 1] = C!PastPadding(s, Behind(s, b[i]))
  <2>1. CASE i = Len(b)
    BY <1>1, <2>1
  <2>2. CASE i # Len(b)
    <3>1. i \in 1 .. Len(at) /\ b[i] = at[i] /\ s.mem[at[i]] = r.mem[at[i]]
      BY <1>1, <2>2
    <3>2. Behind(s, b[i]) = Behind(r, at[i])
      BY <3>1 DEF Behind
    <3>3. CASE i = Len(at)
      <4>1. Behind(r, at[i]) = r.wp /\ r.mem[at[i]].kind = "packet"
        BY <3>1, <3>3 DEF Lies, Linked
      <4>2. b[i + 1] = k
        BY <1>1, <3>3
      <4> QED BY <2>2, <3>1, <3>2, <4>1, <4>2
    <3>4. CASE i # Len(at)
      <4>1. i \in 1 .. Len(at) - 1 /\ i + 1 \in 1 .. Len(at)
        BY <1>1, <3>1, <3>4
      <4>2. at[i + 1] = C!PastPadding(r, Behind(r, at[i])) /\ r.mem[at[i]].kind = "packet"
        BY <3>1, <3>4 DEF Lies, Linked
      <4>3. b[i + 1] = at[i + 1]
        BY <1>1, <4>1
      <4> QED BY <2>2, <3>1, <3>2, <4>1, <4>2, <4>3
    <3> QED BY <3>3, <3>4
  <2> QED BY <2>1, <2>2
<1> QED BY <1>1, <1>2, <1>3 DEF Linked, b

(* The packets do not lie where the writer is, up to the reader. *)
LEMMA WriterIsClear ==
  ASSUME NEW n \in Nat, NEW r \in RingsOf(n), NEW at, Lies(r, at), NEW i \in 1 .. Len(at)
  PROVE  \/ Behind(r, at[i]) <= r.wp
         \/ r.wp < r.rp /\ r.rp <= at[i]
<1>1. Flat(r, at) \/ \E m \in 0 .. Len(at) - 1, e \in Places : Wrapped(r, at, m, e)
  BY DEF Lies
<1>2. CASE Flat(r, at)
  BY <1>2 DEF Flat
<1>3. ASSUME NEW m \in 0 .. Len(at) - 1, NEW e \in Places, Wrapped(r, at, m, e)
      PROVE  Behind(r, at[i]) <= r.wp \/ (r.wp < r.rp /\ r.rp <= at[i])
  BY <1>3 DEF Wrapped
<1> QED BY <1>1, <1>2, <1>3

(* A packet written where the writer is. *)
LEMMA WriteBehindLies ==
  ASSUME NEW n \in Nat, NEW r \in RingsOf(n), NEW at, Lies(r, at), NEW used \in 1 .. Size,
         r.wp + used + 1 < Size, r.wp < r.rp => r.wp + used + 1 < r.rp
  PROVE  LET s == C!Written(r, r.wp, n + 1, used)
         IN  /\ s \in RingsOf(n + 1) /\ Lies(s, Append(at, r.wp))
             /\ s.rp = r.rp /\ s.last = r.last /\ s.mem[r.wp].id = n + 1
             /\ \A i \in 1 .. Len(at) : s.mem[at[i]] = r.mem[at[i]]
<1> DEFINE s == C!Written(r, r.wp, n + 1, used)
           b == Append(at, r.wp)
           next == r.wp + used + 1
<1>1. r.wp \in Places
  BY DEF RingsOf
<1>2. /\ r.wp \in Int /\ r.rp \in Int /\ 0 <= r.wp /\ 0 <= r.rp /\ used \in Int /\ used >= 1
      /\ next \in Int /\ r.wp < next
  BY RingTypes
<1>3. /\ s \in RingsOf(n + 1)
      /\ s.wp = next /\ s.rp = r.rp /\ s.count = r.count + 1 /\ s.last = r.last
      /\ s.mem[r.wp] = Header(n + 1, used)
      /\ \A j \in Places : j < r.wp \/ j >= next => s.mem[j] = r.mem[j]
  <2>1. \A j \in Places : j \in Int
    BY RingTypes
  <2>2. /\ s \in RingsOf(n + 1)
        /\ s.wp = next /\ s.rp = r.rp /\ s.count = r.count + 1 /\ s.last = r.last
        /\ s.mem[r.wp] = Header(n + 1, used)
        /\ \A j \in Places : j < r.wp \/ j > r.wp + used => s.mem[j] = r.mem[j]
    BY <1>1, WrittenRing
  <2> HIDE DEF s
  <2> QED BY <1>2, <2>1, <2>2
<1>4. /\ at \in Seq(Places) /\ Len(at) \in Nat /\ Len(at) = r.count
      /\ \A k \in 1 .. Len(at) :
           /\ at[k] \in Places /\ at[k] \in Int /\ at[k] >= 0
           /\ Behind(r, at[k]) \in Int /\ at[k] + 1 < Behind(r, at[k])
  BY PlaceTypes DEF Lies
<1>5. /\ b \in Seq(Places) /\ Len(b) = Len(at) + 1 /\ b # <<>>
      /\ b[Len(at) + 1] = r.wp /\ \A i \in 1 .. Len(at) : b[i] = at[i]
      /\ at = <<>> <=> Len(at) = 0
  BY <1>1, <1>4, PlacesAppended
<1> HIDE DEF s, b
<1>6. ASSUME NEW j \in Places, j < r.wp \/ (r.wp < r.rp /\ r.rp <= j)
      PROVE  s.mem[j] = r.mem[j]
  <2>1. j \in Int
    BY RingTypes
  <2> QED BY <1>2, <1>3, <1>6, <2>1
<1>7. \A i \in 1 .. Len(at) : s.mem[at[i]] = r.mem[at[i]] /\ Behind(s, at[i]) = Behind(r, at[i])
  <2> SUFFICES ASSUME NEW i \in 1 .. Len(at) PROVE s.mem[at[i]] = r.mem[at[i]]
    BY DEF Behind
  <2>1. at[i] < r.wp \/ (r.wp < r.rp /\ r.rp <= at[i])
    BY SMTT(30), <1>2, <1>4, WriterIsClear
  <2> QED BY <1>4, <1>6, <2>1
<1>8. Behind(s, r.wp) = next /\ s.mem[r.wp].kind = "packet" /\ s.mem[r.wp].id = n + 1
  BY <1>2, <1>3 DEF Behind, Header
<1>9. Flat(r, at) \/ \E m \in 0 .. Len(at) - 1, e \in Places : Wrapped(r, at, m, e)
  BY DEF Lies
<1>10. Linked(s, b)
  <2>1. C!PastPadding(s, r.wp) = r.wp
    BY <1>8 DEF C!PastPadding
  <2>2. at # <<>> => C!PastPadding(s, r.rp) = C!PastPadding(r, r.rp)
    <3> SUFFICES ASSUME at # <<>> PROVE s.mem[r.rp] = r.mem[r.rp]
      BY DEF C!PastPadding
    <3>1. r.wp # r.rp /\ r.rp \in Places
      BY <1>4, <1>5, MeetsWhenEmpty DEF RingsOf
    <3> QED BY <1>2, <1>6, <3>1
  <2>3. ASSUME NEW i \in 1 .. Len(at) - 1
        PROVE  C!PastPadding(s, Behind(r, at[i])) = C!PastPadding(r, Behind(r, at[i]))
    <3> DEFINE x == Behind(r, at[i])
    <3>1. i \in 1 .. Len(at) /\ i + 1 \in 1 .. Len(at) /\ i < i + 1
      BY <1>4
    <3>2. x \in Int /\ x >= 0 /\ at[i] < x /\ at[i + 1] < Behind(r, at[i + 1])
          /\ at[i + 1] \in Int /\ Behind(r, at[i + 1]) \in Int
      BY SMTT(30), <1>4, <3>1
    <3>3. x < r.wp \/ (r.wp < r.rp /\ r.rp <= x /\ x \in Places)
      <4>1. CASE Flat(r, at)
        <5>1. x <= at[i + 1] /\ Behind(r, at[i + 1]) <= r.wp
          BY <3>1, <4>1 DEF Flat
        <5> HIDE DEF x
        <5> QED BY <1>2, <3>2, <5>1
      <4>2. ASSUME NEW m \in 0 .. Len(at) - 1, NEW e \in Places, Wrapped(r, at, m, e)
            PROVE  x < r.wp \/ (r.wp < r.rp /\ r.rp <= x /\ x \in Places)
        <5>1. CASE i <= m
          <6>1. r.wp < r.rp /\ r.rp <= at[i] /\ x <= e
            BY <3>1, <4>2, <5>1 DEF Wrapped
          <6>2. e \in Int /\ e < Size
            BY RingTypes
          <6> HIDE DEF x
          <6>3. at[i] \in Int
            BY <1>4, <3>1
          <6>4. r.rp \in Int /\ x \in Int /\ Size \in Int /\ at[i] < x
            BY <1>2, <3>2, RingTypes
          <6>5. r.rp <= x
            BY <6>1, <6>3, <6>4
          <6>6. x < Size
            BY <6>1, <6>2, <6>4
          <6> QED BY <3>2, <6>1, <6>5, <6>6, RingOK DEF Places
        <5>2. CASE ~ i <= m
          <6>1. x <= at[i + 1] /\ Behind(r, at[i + 1]) <= r.wp
            BY <3>1, <4>2, <5>2 DEF Wrapped
          <6> HIDE DEF x
          <6> QED BY <1>2, <3>2, <6>1
        <5> QED BY <5>1, <5>2
      <4> QED BY <1>9, <4>1, <4>2
    <3> HIDE DEF x
    <3>4. x \in Places
      BY <1>1, <1>2, <3>2, <3>3, RingOK DEF Places
    <3>5. s.mem[x] = r.mem[x]
      BY <1>6, <3>3, <3>4
    <3> QED BY <3>5 DEF C!PastPadding, x
  <2> QED BY <1>1, <1>3, <1>7, <1>8, <2>1, <2>2, <2>3, AppendLinked DEF b
<1>11. ASSUME NEW i \in 1 .. Len(b)
       PROVE  \/ i \in 1 .. Len(at) /\ b[i] = at[i] /\ Behind(s, b[i]) = Behind(r, at[i])
              \/ i = Len(at) + 1 /\ b[i] = r.wp /\ Behind(s, b[i]) = next
  <2>1. i \in 1 .. Len(at) \/ i = Len(at) + 1
    BY <1>4, <1>5
  <2> QED BY <1>5, <1>7, <1>8, <2>1
<1>12. ASSUME Flat(r, at) PROVE Flat(s, b)
  <2>1. s.rp <= s.wp
    BY <1>2, <1>3, <1>12 DEF Flat
  <2>2. \A i \in 1 .. Len(b) : s.rp <= b[i] /\ Behind(s, b[i]) <= s.wp
    <3> SUFFICES ASSUME NEW i \in 1 .. Len(b) PROVE s.rp <= b[i] /\ Behind(s, b[i]) <= s.wp
      OBVIOUS
    <3>1. CASE i \in 1 .. Len(at) /\ b[i] = at[i] /\ Behind(s, b[i]) = Behind(r, at[i])
      <4>1. r.rp <= at[i] /\ Behind(r, at[i]) <= r.wp
        BY <1>12, <3>1 DEF Flat
      <4> QED BY <1>2, <1>3, <1>4, <3>1, <4>1
    <3>2. CASE i = Len(at) + 1 /\ b[i] = r.wp /\ Behind(s, b[i]) = next
      BY <1>2, <1>3, <1>12, <3>2 DEF Flat
    <3> QED BY <1>11, <3>1, <3>2
  <2>3. ASSUME NEW j \in 1 .. Len(b), NEW k \in 1 .. Len(b), j < k PROVE Behind(s, b[j]) <= b[k]
    <3>1. j \in 1 .. Len(at) /\ Behind(s, b[j]) = Behind(r, at[j])
      BY <1>4, <1>5, <1>7, <2>3
    <3>2. CASE k \in 1 .. Len(at)
      BY <1>5, <1>12, <2>3, <3>1, <3>2 DEF Flat
    <3>3. CASE k = Len(at) + 1
      BY <1>5, <1>12, <3>1, <3>3 DEF Flat
    <3> QED BY <1>4, <1>5, <3>2, <3>3
  <2> QED BY <2>1, <2>2, <2>3 DEF Flat
<1>13. ASSUME NEW m \in 0 .. Len(at) - 1, NEW e \in Places, Wrapped(r, at, m, e)
       PROVE  m \in 0 .. Len(b) - 1 /\ Wrapped(s, b, m, e)
  <2>1. /\ m \in Int /\ 0 <= m /\ m <= Len(at) - 1 /\ m + 1 \in 1 .. Len(at) /\ e \in Int
        /\ m \in 0 .. Len(b) - 1 /\ ~ Len(at) + 1 <= m
    <3>1. e \in Int
      BY RingTypes
    <3> QED BY SMTT(30), <1>4, <1>5, <3>1
  <2>2. r.wp < r.rp /\ r.rp <= e /\ r.mem[e] = Padding /\ at[m + 1] = 0
    BY <1>13 DEF Wrapped
  <2>3. s.wp < s.rp /\ s.rp <= e /\ s.mem[e] = Padding /\ b[m + 1] = 0
    BY <1>3, <1>5, <1>6, <2>1, <2>2
  <2>4. ASSUME NEW i \in 1 .. Len(b)
        PROVE  IF i <= m THEN s.rp <= b[i] /\ Behind(s, b[i]) <= e ELSE Behind(s, b[i]) <= s.wp
    <3>1. CASE i \in 1 .. Len(at) /\ b[i] = at[i] /\ Behind(s, b[i]) = Behind(r, at[i])
      <4>1. IF i <= m THEN r.rp <= at[i] /\ Behind(r, at[i]) <= e ELSE Behind(r, at[i]) <= r.wp
        BY <1>13, <3>1 DEF Wrapped
      <4> QED BY SMTT(30), <1>2, <1>3, <1>4, <3>1, <4>1
    <3>2. CASE i = Len(at) + 1 /\ b[i] = r.wp /\ Behind(s, b[i]) = next
      BY <1>2, <1>3, <2>1, <3>2
    <3> QED BY <1>11, <3>1, <3>2
  <2>5. ASSUME NEW j \in 1 .. Len(b), NEW k \in 1 .. Len(b), j < k, j <= m <=> k <= m
        PROVE  Behind(s, b[j]) <= b[k]
    <3>1. j \in 1 .. Len(at) /\ Behind(s, b[j]) = Behind(r, at[j])
      BY <1>4, <1>5, <1>7, <2>5
    <3>2. CASE k \in 1 .. Len(at)
      BY <1>5, <1>13, <2>5, <3>1, <3>2 DEF Wrapped
    <3>3. CASE k = Len(at) + 1
      <4>1. ~ j <= m
        BY <2>1, <2>5, <3>3
      <4>2. Behind(r, at[j]) <= r.wp
        BY <1>13, <3>1, <4>1 DEF Wrapped
      <4> QED BY <1>5, <3>1, <3>3, <4>2
    <3> QED BY <1>4, <1>5, <3>2, <3>3
  <2> QED BY <2>1, <2>3, <2>4, <2>5 DEF Wrapped
<1>14. Lies(s, b)
  BY <1>3, <1>4, <1>5, <1>9, <1>10, <1>12, <1>13 DEF Lies
<1> QED BY <1>3, <1>7, <1>8, <1>14 DEF s, b

(* A packet written at the start, with padding for the rest of the buffer. *)
LEMMA WriteAtStartLies ==
  ASSUME NEW n \in Nat, NEW r \in RingsOf(n), NEW at, Lies(r, at), NEW used \in 1 .. Size,
         r.rp <= r.wp, used + 1 < r.rp, NEW q, q = [r EXCEPT !.mem[r.wp] = Padding]
  PROVE  LET s == C!Written(q, 0, n + 1, used)
         IN  /\ s \in RingsOf(n + 1) /\ Lies(s, Append(at, 0))
             /\ s.rp = r.rp /\ s.last = r.last /\ s.mem[0].id = n + 1
             /\ \A i \in 1 .. Len(at) : s.mem[at[i]] = r.mem[at[i]]
<1> DEFINE s == C!Written(q, 0, n + 1, used)
           b == Append(at, 0)
           next == used + 1
<1>1. r.wp \in Places /\ 0 \in Places
  BY RingOK DEF RingsOf, Places
<1>2. /\ r.wp \in Int /\ r.rp \in Int /\ 0 <= r.wp /\ 0 <= r.rp /\ used \in Int /\ used >= 1
      /\ next \in Int /\ 1 < next /\ r.wp < Size /\ next < Size /\ Size \in Int
  BY RingTypes
<1>3. /\ q \in RingsOf(n) /\ q.rp = r.rp /\ q.count = r.count /\ q.last = r.last
      /\ q.mem[r.wp] = Padding /\ \A j \in Places : j # r.wp => q.mem[j] = r.mem[j]
  <2> DEFINE mem == [r.mem EXCEPT ![r.wp] = Padding]
  <2>1. r.mem \in [Places -> UnitsOf(n)] /\ Padding \in UnitsOf(n)
    BY DEF RingsOf, UnitsOf
  <2>2. /\ mem \in [Places -> UnitsOf(n)] /\ mem[r.wp] = Padding
        /\ \A j \in Places : j # r.wp => mem[j] = r.mem[j]
    BY <1>1, <2>1
  <2>3. q = [r EXCEPT !.mem = mem]
    OBVIOUS
  <2> HIDE DEF mem
  <2> QED BY <2>2, <2>3 DEF RingsOf
<1>4. /\ s \in RingsOf(n + 1)
      /\ s.wp = next /\ s.rp = r.rp /\ s.count = r.count + 1 /\ s.last = r.last
      /\ s.mem[0] = Header(n + 1, used) /\ s.mem[r.wp] = Padding
      /\ \A j \in Places : j >= next /\ j # r.wp => s.mem[j] = r.mem[j]
  <2>1. \A j \in Places : j \in Int
    BY RingTypes
  <2>2. /\ s \in RingsOf(n + 1)
        /\ s.wp = 0 + used + 1 /\ s.rp = q.rp /\ s.count = q.count + 1 /\ s.last = q.last
        /\ s.mem[0] = Header(n + 1, used)
        /\ \A j \in Places : j < 0 \/ j > 0 + used => s.mem[j] = q.mem[j]
    <3>1. 0 + used + 1 < Size
      BY <1>2
    <3> QED BY ZenonT(30), <1>1, <1>3, <3>1, WrittenRing
  <2> HIDE DEF s
  <2> QED BY <1>1, <1>2, <1>3, <2>1, <2>2
<1>5. /\ at \in Seq(Places) /\ Len(at) \in Nat /\ Len(at) = r.count
      /\ \A k \in 1 .. Len(at) :
           /\ at[k] \in Places /\ at[k] \in Int /\ at[k] >= 0
           /\ Behind(r, at[k]) \in Int /\ at[k] + 1 < Behind(r, at[k])
  BY PlaceTypes DEF Lies
<1>6. /\ b \in Seq(Places) /\ Len(b) = Len(at) + 1 /\ b # <<>>
      /\ b[Len(at) + 1] = 0 /\ \A i \in 1 .. Len(at) : b[i] = at[i]
      /\ at = <<>> <=> Len(at) = 0
  BY <1>1, <1>5, PlacesAppended
<1> HIDE DEF s, b
<1>7. Flat(r, at)
  <2>1. \A m, e : ~ Wrapped(r, at, m, e)
    BY <1>2 DEF Wrapped
  <2> QED BY <2>1 DEF Lies
<1>8. \A i \in 1 .. Len(at) : /\ s.mem[at[i]] = r.mem[at[i]] /\ Behind(s, at[i]) = Behind(r, at[i])
                              /\ r.rp <= at[i] /\ Behind(r, at[i]) <= r.wp
  <2> SUFFICES ASSUME NEW i \in 1 .. Len(at)
               PROVE  s.mem[at[i]] = r.mem[at[i]] /\ r.rp <= at[i] /\ Behind(r, at[i]) <= r.wp
    BY DEF Behind
  <2>1. r.rp <= at[i] /\ Behind(r, at[i]) <= r.wp
    BY <1>7 DEF Flat
  <2>2. at[i] \in Places /\ at[i] >= next /\ at[i] # r.wp
    BY <1>2, <1>5, <2>1
  <2> QED BY <1>4, <2>1, <2>2
<1>9. Behind(s, 0) = next /\ s.mem[0].kind = "packet" /\ s.mem[0].id = n + 1
  BY <1>2, <1>4 DEF Behind, Header
<1>10. Linked(s, b)
  <2>1. C!PastPadding(s, r.wp) = 0
    BY <1>4 DEF C!PastPadding, Padding
  <2>2. at # <<>> => C!PastPadding(s, r.rp) = C!PastPadding(r, r.rp)
    <3> SUFFICES ASSUME at # <<>> PROVE s.mem[r.rp] = r.mem[r.rp]
      BY DEF C!PastPadding
    <3>1. r.wp # r.rp /\ r.rp \in Places
      BY <1>5, <1>6, MeetsWhenEmpty DEF RingsOf
    <3> QED BY <1>2, <1>4, <3>1
  <2>3. ASSUME NEW i \in 1 .. Len(at) - 1
        PROVE  C!PastPadding(s, Behind(r, at[i])) = C!PastPadding(r, Behind(r, at[i]))
    <3> DEFINE x == Behind(r, at[i])
    <3>1. i \in 1 .. Len(at) /\ i + 1 \in 1 .. Len(at) /\ i < i + 1
      BY <1>5
    <3>2. /\ x \in Int /\ at[i] < x /\ at[i] \in Int
          /\ at[i + 1] < Behind(r, at[i + 1])
          /\ at[i + 1] \in Int /\ Behind(r, at[i + 1]) \in Int
      BY SMTT(30), <1>5, <3>1
    <3>3. x <= at[i + 1] /\ r.rp <= at[i] /\ Behind(r, at[i + 1]) <= r.wp
      BY <1>7, <3>1 DEF Flat
    <3> HIDE DEF x
    <3>4. next <= x
      BY <1>2, <3>2, <3>3
    <3>5. x < r.wp
      BY <1>2, <3>2, <3>3
    <3>6. x \in Places /\ x # r.wp
      BY <1>2, <3>2, <3>4, <3>5 DEF Places
    <3>7. s.mem[x] = r.mem[x]
      BY <1>4, <3>4, <3>6
    <3> QED BY <3>7 DEF C!PastPadding, x
  <2> QED BY <1>1, <1>4, <1>8, <1>9, <2>1, <2>2, <2>3, AppendLinked DEF b
<1>11. Len(at) \in 0 .. Len(b) - 1 /\ Wrapped(s, b, Len(at), r.wp)
  <2>1. s.wp < s.rp /\ s.rp <= r.wp /\ s.mem[r.wp] = Padding /\ b[Len(at) + 1] = 0
    BY <1>4, <1>6
  <2>2. ASSUME NEW i \in 1 .. Len(b)
        PROVE  IF i <= Len(at) THEN s.rp <= b[i] /\ Behind(s, b[i]) <= r.wp ELSE Behind(s, b[i]) <= s.wp
    <3>1. CASE i \in 1 .. Len(at)
      BY <1>4, <1>6, <1>8, <3>1
    <3>2. CASE i = Len(at) + 1
      BY <1>2, <1>4, <1>5, <1>6, <1>9, <3>2
    <3> QED BY <1>5, <1>6, <3>1, <3>2
  <2>3. ASSUME NEW j \in 1 .. Len(b), NEW k \in 1 .. Len(b), j < k, j <= Len(at) <=> k <= Len(at)
        PROVE  Behind(s, b[j]) <= b[k]
    <3>1. j \in 1 .. Len(at) /\ k \in 1 .. Len(at)
      BY <1>5, <1>6, <2>3
    <3> QED BY <1>6, <1>7, <1>8, <2>3, <3>1 DEF Flat
  <2>4. Len(at) \in 0 .. Len(b) - 1
    BY <1>5, <1>6
  <2> QED BY <2>1, <2>2, <2>3, <2>4 DEF Wrapped
<1>12. Lies(s, b)
  BY <1>1, <1>4, <1>5, <1>6, <1>10, <1>11 DEF Lies
<1> QED BY <1>4, <1>8, <1>9, <1>12 DEF s, b

(* A packet for which there is room becomes the last. *)
LEMMA WriteLies ==
  ASSUME NEW n \in Nat, NEW r \in RingsOf(n), NEW at, Lies(r, at), MarkOK(r, at),
         NEW len \in Lens, NEW used \in {len - 1, len} \ {0}, C!Fits(r, len)
  PROVE  LET s == C!QueueWrite(r, n + 1, len, used)
         IN  /\ s \in RingsOf(n + 1) /\ s.last = r.last
             /\ \E k \in Places : /\ Lies(s, Append(at, k)) /\ MarkOK(s, Append(at, k))
                                  /\ s.mem[k].id = n + 1
             /\ \A i \in 1 .. Len(at) : s.mem[at[i]] = r.mem[at[i]]
<1>1. /\ r.wp \in Int /\ r.rp \in Int /\ 0 <= r.wp /\ 0 <= r.rp /\ r.wp < Size /\ r.rp < Size
      /\ len \in Nat \ {0} /\ used \in Int /\ used >= 1 /\ used <= len /\ Size \in Int
  BY RingTypes, RingOK
<1>2. r.wp \in Places /\ 0 \in Places /\ at \in Seq(Places)
  BY RingOK DEF RingsOf, Places, Lies
<1>3. used \in 1 .. Size
  BY <1>1 DEF C!Fits, C!FitsAtEnd, C!FitsAtStart, C!FitsBefore
<1>4. ASSUME NEW s, NEW k \in Places, Lies(s, Append(at, k)), s.rp = r.rp, s.last = r.last
      PROVE  MarkOK(s, Append(at, k))
  <2>1. /\ Append(at, k) # <<>> /\ (at # <<>> => 1 \in 1 .. Len(at))
        /\ \A i \in 1 .. Len(at) : Append(at, k)[i] = at[i]
    BY <1>2, PlacesAppended
  <2> QED BY <1>4, <2>1 DEF MarkOK
<1>5. CASE C!FitsAtEnd(r, len) \/ C!FitsBefore(r, len)
  <2> DEFINE s == C!Written(r, r.wp, n + 1, used)
  <2>1. r.wp + used + 1 < Size /\ (r.wp < r.rp => r.wp + used + 1 < r.rp)
    BY <1>1, <1>5 DEF C!FitsAtEnd, C!FitsBefore
  <2>2. C!QueueWrite(r, n + 1, len, used) = s
    BY <1>5 DEF C!QueueWrite
  <2>3. /\ s \in RingsOf(n + 1) /\ Lies(s, Append(at, r.wp))
        /\ s.rp = r.rp /\ s.last = r.last /\ s.mem[r.wp].id = n + 1
        /\ \A i \in 1 .. Len(at) : s.mem[at[i]] = r.mem[at[i]]
    BY <1>3, <2>1, WriteBehindLies
  <2> HIDE DEF s
  <2> QED BY <1>2, <1>4, <2>2, <2>3
<1>6. CASE ~ (C!FitsAtEnd(r, len) \/ C!FitsBefore(r, len))
  <2> DEFINE q == [r EXCEPT !.mem[r.wp] = Padding]
             s == C!Written(q, 0, n + 1, used)
  <2>1. r.rp <= r.wp /\ used + 1 < r.rp
    BY <1>1, <1>6 DEF C!Fits, C!FitsAtStart
  <2>2. C!QueueWrite(r, n + 1, len, used) = s
    BY <1>6 DEF C!QueueWrite, C!Padding, Padding
  <2>3. /\ s \in RingsOf(n + 1) /\ Lies(s, Append(at, 0))
        /\ s.rp = r.rp /\ s.last = r.last /\ s.mem[0].id = n + 1
        /\ \A i \in 1 .. Len(at) : s.mem[at[i]] = r.mem[at[i]]
    <3>1. q = [r EXCEPT !.mem[r.wp] = Padding]
      OBVIOUS
    <3> HIDE DEF q
    <3> QED BY <1>3, <2>1, <3>1, WriteAtStartLies
  <2> HIDE DEF s
  <2> QED BY <1>2, <1>4, <2>2, <2>3
<1> QED BY <1>5, <1>6
-----------------------------------------------------------------------------
(* The loops of a push and a flush *)

(* Every non-empty set of natural numbers has a least element. *)
LEMMA LeastOf ==
  ASSUME NEW S \in SUBSET Nat, S # {}
  PROVE  \E k \in S : \A l \in S : k <= l
<1> DEFINE R == OpToRel(<, Nat)
<1>1. IsWellFoundedOn(R, Nat)
  BY NatLessThanWellFounded
<1>2. PICK k \in S : \A l \in S : ~ (<<l, k>> \in R)
  <2> HIDE DEF R
  <2> QED BY <1>1, WFMin
<1>3. \A l \in S : ~ (l < k)
  BY <1>2 DEF OpToRel
<1> QED BY <1>3

(* The first of some reads. *)
LEMMA FirstIsLeast ==
  ASSUME NEW S \in SUBSET Nat, S # {}
  PROVE  C!First(S) \in S /\ \A l \in S : C!First(S) <= l
BY LeastOf DEF C!First

(* The recursive function Reads is what its definition says. *)
LEMMA ReadsDefined ==
  ASSUME NEW r, NEW n \in Nat
  PROVE  C!Reads(r, n) = [k \in 0 .. n |-> IF k = 0 THEN r
                                          ELSE C!QueueReadNextPacket(C!Reads(r, n)[k - 1])]
<1> DEFINE Is(f, m) == f = [k \in 0 .. m |-> IF k = 0 THEN r ELSE C!QueueReadNextPacket(f[k - 1])]
           Missing == {m \in Nat : ~ \E f : Is(f, m)}
<1>1. Missing = {}
  <2> SUFFICES ASSUME Missing # {} PROVE FALSE
    OBVIOUS
  <2>1. PICK m \in Missing : \A l \in Missing : m <= l
    <3> HIDE DEF Missing
    <3>1. Missing \in SUBSET Nat
      BY DEF Missing
    <3> QED BY <3>1, LeastOf
  <2>2. CASE m = 0
    <3> DEFINE g == [k \in 0 .. 0 |-> r]
    <3>1. Is(g, 0)
      OBVIOUS
    <3> QED BY <2>1, <2>2, <3>1
  <2>3. CASE m > 0
    <3>1. m \in Nat /\ m - 1 \in Nat /\ m - 1 \notin Missing
      BY <2>1, <2>3
    <3>2. PICK f : Is(f, m - 1)
      BY <3>1
    <3> DEFINE g == [k \in 0 .. m |-> IF k = m THEN C!QueueReadNextPacket(f[m - 1]) ELSE f[k]]
    <3>3. \A k \in 0 .. m - 1 : f[k] = IF k = 0 THEN r ELSE C!QueueReadNextPacket(f[k - 1])
      BY <3>2
    <3>4. \A k \in 0 .. m : g[k] = IF k = 0 THEN r ELSE C!QueueReadNextPacket(g[k - 1])
      BY <2>3, <3>1, <3>3
    <3>5. Is(g, m)
      BY <3>4
    <3> QED BY <2>1, <3>5
  <2> QED BY <2>1, <2>2, <2>3
<1>2. PICK f : Is(f, n)
  BY <1>1
<1>3. C!Reads(r, n) = CHOOSE g : Is(g, n)
  BY DEF C!Reads
<1>4. Is(C!Reads(r, n), n)
  <2> HIDE DEF Is
  <2> QED BY <1>2, <1>3
<1> QED BY <1>4

(* A sequence without its first d elements. *)
From(at, d) == SubSeq(at, d + 1, Len(at))

LEMMA FromOf ==
  ASSUME NEW P, NEW at \in Seq(P), NEW d \in Nat
  PROVE  /\ From(at, d) \in Seq(P) /\ From(at, 0) = at /\ Len(at) \in Nat
         /\ From(at, d) = <<>> <=> Len(at) <= d
         /\ d < Len(at) => Len(From(at, d)) = Len(at) - d /\ Tail(From(at, d)) = From(at, d + 1)
         /\ \A i \in 1 .. Len(at) - d : From(at, d)[i] = at[d + i]
<1>1. Len(at) \in Nat /\ \A i \in 1 .. Len(at) : at[i] \in P
  BY LenProperties, ElementOfSeq
<1>2. /\ From(at, d) \in Seq(P)
      /\ Len(From(at, d)) = IF d + 1 <= Len(at) THEN Len(at) - (d + 1) + 1 ELSE 0
      /\ \A i \in 1 .. Len(at) - (d + 1) + 1 : From(at, d)[i] = at[d + 1 + i - 1]
  <2>1. \A i \in d + 1 .. Len(at) : at[i] \in P
    BY <1>1
  <2> QED BY <1>1, <2>1, SubSeqProperties DEF From
<1>3. From(at, d) = <<>> <=> Len(at) <= d
  <2>1. From(at, d) = <<>> <=> Len(From(at, d)) = 0
    BY <1>2, EmptySeq
  <2> QED BY <1>1, <1>2, <2>1
<1>4. From(at, 0) = at
  BY SubSeqFull DEF From
<1>5. d < Len(at) => Tail(From(at, d)) = From(at, d + 1)
  <2> SUFFICES ASSUME d < Len(at) PROVE Tail(From(at, d)) = From(at, d + 1)
    OBVIOUS
  <2>1. d + 1 \in 1 .. Len(at) /\ Len(at) \in d + 1 .. Len(at)
    BY <1>1
  <2> QED BY <2>1, HeadTailOfSubSeq DEF From
<1>6. \A i \in 1 .. Len(at) - d : From(at, d)[i] = at[d + i]
  BY <1>1, <1>2
<1> QED BY <1>1, <1>2, <1>3, <1>4, <1>5, <1>6

(* How many packets are gone after k reads: each read but the first drops one, and
   the first drops one that was read before. *)
Gone(r, k) == IF k = 0 THEN 0 ELSE IF r.last > 0 THEN k ELSE k - 1

(* After k reads the oldest packets are gone and the others lie where they lay. *)
LEMMA ReadsLie ==
  ASSUME NEW n \in Nat, NEW r \in RingsOf(n), NEW at, Lies(r, at), MarkOK(r, at), NEW N \in Nat,
         NEW k \in 0 .. N
  PROVE  LET s == C!Reads(r, N)[k]
             t == From(at, Gone(r, k))
         IN  /\ s \in RingsOf(n) /\ Lies(s, t) /\ MarkOK(s, t) /\ s.mem = r.mem
             /\ IF k = 0 THEN s = r ELSE s.last > 0 <=> t # <<>>
<1> DEFINE s(j) == C!Reads(r, N)[j]
           t(j) == From(at, Gone(r, j))
           Right(j) == /\ s(j) \in RingsOf(n) /\ Lies(s(j), t(j)) /\ MarkOK(s(j), t(j))
                       /\ s(j).mem = r.mem
                       /\ IF j = 0 THEN s(j) = r ELSE s(j).last > 0 <=> t(j) # <<>>
           Wrong == {j \in 0 .. N : ~ Right(j)}
<1>1. at \in Seq(Places) /\ Len(at) \in Nat /\ (at = <<>> <=> Len(at) = 0)
  BY PlaceTypes, EmptySeq
<1>2. \A j \in 0 .. N : s(j) = IF j = 0 THEN r ELSE C!QueueReadNextPacket(s(j - 1))
  BY ReadsDefined
<1>3. Right(0)
  <2>1. 0 \in 0 .. N /\ Gone(r, 0) = 0
    BY DEF Gone
  <2>2. s(0) = r
    BY <1>2, <2>1
  <2>3. t(0) = at
    BY <1>1, <2>1, FromOf
  <2> HIDE DEF s, t
  <2> QED BY <2>2, <2>3
<1>4. ASSUME NEW j \in 1 .. N, Right(j - 1) PROVE Right(j)
  <2>1. j - 1 \in 0 .. N /\ j \in 0 .. N /\ j # 0 /\ Gone(r, j - 1) \in Nat
    BY <1>4 DEF Gone
  <2>2. s(j) = C!QueueReadNextPacket(s(j - 1))
    BY <1>2, <2>1
  <2> DEFINE u == IF s(j - 1).last > 0 THEN Tail(t(j - 1)) ELSE t(j - 1)
  <2>3. /\ s(j) \in RingsOf(n) /\ Lies(s(j), u) /\ MarkOK(s(j), u) /\ s(j).mem = s(j - 1).mem
        /\ s(j).last > 0 <=> u # <<>>
    <3> HIDE DEF s, t
    <3> QED BY <1>4, <2>2, NextLies
  <2>4. u = t(j)
    <3>1. CASE j = 1
      <4>1. s(j - 1) = r /\ t(j - 1) = at /\ Gone(r, 1) = IF r.last > 0 THEN 1 ELSE 0
        BY <1>1, <1>4, <3>1, FromOf DEF Gone
      <4>2. r.last > 0 => 0 < Len(at)
        BY <1>1 DEF MarkOK
      <4>3. CASE r.last > 0
        <5>1. Tail(at) = From(at, 1)
          <6>1. Tail(From(at, 0)) = From(at, 0 + 1) /\ From(at, 0) = at
            BY <1>1, <4>2, <4>3, FromOf
          <6> QED BY <6>1
        <5>2. Gone(r, j) = 1
          BY <3>1, <4>3 DEF Gone
        <5> QED BY <4>1, <4>3, <5>1, <5>2
      <4>4. CASE ~ r.last > 0
        <5>1. Gone(r, j) = 0
          BY <3>1, <4>4 DEF Gone
        <5>2. From(at, 0) = at
          BY <1>1, FromOf
        <5> QED BY <4>1, <4>4, <5>1, <5>2
      <4> QED BY <4>3, <4>4
    <3>2. CASE j # 1
      <4>1. Gone(r, j) = Gone(r, j - 1) + 1 /\ j - 1 # 0 /\ Gone(r, j) \in Nat
        BY <3>2 DEF Gone
      <4>2. s(j - 1).last > 0 <=> t(j - 1) # <<>>
        BY <1>4, <4>1
      <4>3. CASE Gone(r, j - 1) < Len(at)
        <5> DEFINE g == Gone(r, j - 1)
        <5>1. g \in Nat /\ g < Len(at) /\ Gone(r, j) = g + 1
          BY <2>1, <4>1, <4>3
        <5> HIDE DEF g
        <5>2. From(at, g) # <<>> /\ Tail(From(at, g)) = From(at, g + 1)
          BY <1>1, <5>1, FromOf
        <5> QED BY <4>2, <5>1, <5>2 DEF g
      <4>4. CASE ~ Gone(r, j - 1) < Len(at)
        <5>1. t(j - 1) = <<>> /\ t(j) = <<>>
          BY <1>1, <2>1, <4>1, <4>4, FromOf
        <5> QED BY <4>2, <5>1
      <4> QED BY <4>3, <4>4
    <3> QED BY <3>1, <3>2
  <2> HIDE DEF s, t, u
  <2> QED BY <1>4, <2>1, <2>3, <2>4
<1>5. Wrong = {}
  <2> SUFFICES ASSUME Wrong # {} PROVE FALSE
    OBVIOUS
  <2> HIDE DEF Right
  <2>1. Wrong \in SUBSET Nat
    OBVIOUS
  <2>2. PICK j \in Wrong : \A l \in Wrong : j <= l
    <3> HIDE DEF Wrong
    <3> QED BY <2>1, LeastOf
  <2>3. j \in 1 .. N
    BY <1>3, <2>2
  <2>4. Right(j - 1)
    BY <2>2, <2>3
  <2> QED BY <1>4, <2>2, <2>3, <2>4
<1> QED BY <1>5

(* No two packets lie at one place, and none lies where the next is written. *)
LEMMA PlacesApart ==
  ASSUME NEW n \in Nat, NEW r \in RingsOf(n), NEW at, Lies(r, at)
  PROVE  /\ \A k \in 1 .. Len(at) : at[k] # r.wp
         /\ \A j, k \in 1 .. Len(at) : j < k => at[j] # at[k]
<1>1. \A k \in 1 .. Len(at) : /\ at[k] \in Int /\ Behind(r, at[k]) \in Int
                              /\ at[k] + 1 < Behind(r, at[k])
  BY PlaceTypes
<1>2. r.wp \in Int /\ r.rp \in Int
  BY RingTypes
<1>3. CASE Flat(r, at)
  <2>1. ASSUME NEW k \in 1 .. Len(at) PROVE at[k] # r.wp
    <3>1. Behind(r, at[k]) <= r.wp
      BY <1>3 DEF Flat
    <3> QED BY <1>1, <1>2, <3>1
  <2>2. ASSUME NEW j \in 1 .. Len(at), NEW k \in 1 .. Len(at), j < k PROVE at[j] # at[k]
    <3>1. Behind(r, at[j]) <= at[k]
      BY <1>3, <2>2 DEF Flat
    <3> QED BY <1>1, <3>1
  <2> QED BY <2>1, <2>2
<1>4. ASSUME NEW m \in 0 .. Len(at) - 1, NEW e \in Places, Wrapped(r, at, m, e)
      PROVE  /\ \A k \in 1 .. Len(at) : at[k] # r.wp
             /\ \A j, k \in 1 .. Len(at) : j < k => at[j] # at[k]
  <2>1. ASSUME NEW k \in 1 .. Len(at) PROVE IF k <= m THEN r.wp < at[k] ELSE at[k] < r.wp
    <3>1. CASE k <= m
      <4>1. r.rp <= at[k] /\ r.wp < r.rp
        BY <1>4, <3>1 DEF Wrapped
      <4> QED BY <1>1, <1>2, <3>1, <4>1
    <3>2. CASE ~ (k <= m)
      <4>1. Behind(r, at[k]) <= r.wp
        BY <1>4, <3>2 DEF Wrapped
      <4> QED BY <1>1, <1>2, <3>2, <4>1
    <3> QED BY <3>1, <3>2
  <2>2. ASSUME NEW j \in 1 .. Len(at), NEW k \in 1 .. Len(at), j < k PROVE at[j] # at[k]
    <3>1. CASE j <= m <=> k <= m
      <4>1. Behind(r, at[j]) <= at[k]
        BY <1>4, <2>2, <3>1 DEF Wrapped
      <4> QED BY <1>1, <4>1
    <3>2. CASE ~ (j <= m <=> k <= m)
      BY <1>1, <1>2, <2>1, <3>2
    <3> QED BY <3>1, <3>2
  <2>3. \A k \in 1 .. Len(at) : at[k] # r.wp
    BY <1>1, <1>2, <2>1
  <2> QED BY <2>2, <2>3
<1> QED BY <1>3, <1>4 DEF Lies

(* A ring holds fewer packets than units. *)
LEMMA FewPackets ==
  ASSUME NEW n \in Nat, NEW r \in RingsOf(n), NEW at, Lies(r, at)
  PROVE  Len(at) < Size
<1> DEFINE S == 1 .. Len(at)
           T == Places \ {r.wp}
           f == [k \in S |-> at[k]]
<1>1. Len(at) \in Nat /\ Size \in Nat /\ r.wp \in Places /\ \A k \in S : at[k] \in T
  BY PlaceTypes, PlacesApart, RingOK DEF RingsOf
<1>2. IsFiniteSet(S) /\ Cardinality(S) = Len(at)
  <2>1. IsFiniteSet(S) /\ Cardinality(S) = IF 1 > Len(at) THEN 0 ELSE Len(at) - 1 + 1
    <3>1. 1 \in Int /\ Len(at) \in Int
      BY <1>1
    <3> QED BY ONLY <3>1, FS_Interval DEF S
  <2> QED BY <1>1, <2>1
<1>3. IsFiniteSet(T) /\ Cardinality(T) = Size - 1
  <2>1. IsFiniteSet(Places) /\ Cardinality(Places) = Size
    BY RingOK, FS_Interval DEF Places
  <2> QED BY <1>1, <2>1, FS_RemoveElement
<1>4. SUFFICES ASSUME ~ Len(at) < Size PROVE FALSE
  OBVIOUS
<1>5. f \in [S -> T] /\ Cardinality(T) < Cardinality(S)
  BY <1>1, <1>2, <1>3, <1>4
<1>6. PICK x, y \in S : x # y /\ f[x] = f[y]
  <2> HIDE DEF S, T, f
  <2> QED BY <1>2, <1>3, <1>5, FS_PigeonHole
<1> QED BY <1>1, <1>6, PlacesApart

(* The packet a read has found is one that was pushed. *)
LEMMA ReadsPushed ==
  ASSUME NEW n \in Nat, NEW r \in RingsOf(n), NEW at, Lies(r, at), MarkOK(r, at), r.last > 0
  PROVE  r.mem[r.rp].id \in 1 .. n
<1>1. at # <<>> /\ r.rp = at[1]
  BY DEF MarkOK
<1>2. 1 \in 1 .. Len(at)
  BY <1>1, PlaceTypes, EmptySeq
<1> QED BY <1>1, <1>2, PlaceTypes
-----------------------------------------------------------------------------
(* The ring *)

(* The packets not yet read lie somewhere in the ring, as its reader needs them. *)
RingInv ==
  /\ pushed \in 0 .. MaxPushed /\ out \in Seq(1 .. pushed) /\ ring \in RingsOf(pushed)
  /\ \E at : Lies(ring, at) /\ MarkOK(ring, at)

(* The new ring. *)
LEMMA InitRing == C!Init => RingInv
<1> SUFFICES ASSUME C!Init PROVE RingInv
  OBVIOUS
<1>1. ring = C!NewRing /\ out = <<>> /\ pushed = 0 /\ 0 \in Places /\ 0 \in 0 .. MaxPushed
  BY RingOK DEF C!Init, Places
<1>2. /\ ring.mem \in [Places -> UnitsOf(0)] /\ ring.wp = 0 /\ ring.rp = 0
      /\ ring.count = 0 /\ ring.last = 0
  BY <1>1 DEF C!NewRing, C!Places, Places, UnitsOf, C!Zero, Zero
<1>3. ring \in RingsOf(0)
  <2>1. \E mem \in [Places -> UnitsOf(0)] :
          ring = [mem |-> mem, wp |-> 0, rp |-> 0, count |-> 0, last |-> 0]
    BY <1>1, <1>2 DEF C!NewRing
  <2> QED BY <1>1, <2>1 DEF RingsOf
<1>4. <<>> \in Seq(Places) /\ Len(<<>>) = 0 /\ <<>> \in Seq(1 .. 0)
  BY EmptySeq
<1>5. Lies(ring, <<>>) /\ MarkOK(ring, <<>>)
  BY <1>2, <1>4 DEF Lies, Linked, Flat, MarkOK
<1> QED BY <1>1, <1>3, <1>4, <1>5 DEF RingInv

(* Packets are evicted until the new one fits, or until the push gives up. *)
LEMMA PushKeepsRing == RingInv /\ C!f_PushPktQueue => RingInv'
<1> SUFFICES ASSUME RingInv, C!f_PushPktQueue PROVE RingInv'
  OBVIOUS
<1>1. /\ pushed \in Nat /\ pushed' = pushed + 1 /\ pushed' \in 0 .. MaxPushed /\ out' = out
      /\ ring \in RingsOf(pushed) /\ out \in Seq(1 .. pushed)
  BY RingOK DEF RingInv, C!f_PushPktQueue
<1>2. out' \in Seq(1 .. pushed')
  <2>1. 1 .. pushed \subseteq 1 .. pushed'
    BY <1>1
  <2> QED BY <1>1, <2>1, SeqMonotonic
<1>3. PICK at : Lies(ring, at) /\ MarkOK(ring, at)
  BY DEF RingInv
<1> DEFINE after == C!Reads(ring, EvictLimit + 1)
           Stops(j) == j > EvictLimit \/ (j > 0 /\ after[j].last = 0)
<1>4. PICK len \in Lens : \E used \in {len - 1, len} \ {0} :
        LET k == C!First({j \in 0 .. EvictLimit + 1 : Stops(j) \/ C!Fits(after[j], len)})
        IN  ring' = IF Stops(k) THEN after[k] ELSE C!QueueWrite(after[k], pushed', len, used)
  BY DEF C!f_PushPktQueue
<1> DEFINE K == {j \in 0 .. EvictLimit + 1 : Stops(j) \/ C!Fits(after[j], len)}
           k == C!First(K)
<1>5. PICK used \in {len - 1, len} \ {0} :
         ring' = IF Stops(k) THEN after[k] ELSE C!QueueWrite(after[k], pushed', len, used)
  BY <1>4
<1>6. k \in 0 .. EvictLimit + 1 /\ (Stops(k) \/ C!Fits(after[k], len))
  <2>1. EvictLimit + 1 \in K /\ K \in SUBSET Nat
    BY RingOK
  <2>2. k \in K
    <3> HIDE DEF K
    <3> QED BY <2>1, FirstIsLeast
  <2> QED BY <2>2
<1> DEFINE s == after[k]
           t == From(at, Gone(ring, k))
<1>7. s \in RingsOf(pushed) /\ Lies(s, t) /\ MarkOK(s, t)
  <2> HIDE DEF k
  <2>1. EvictLimit + 1 \in Nat
    BY RingOK
  <2> QED BY <1>1, <1>3, <1>6, <2>1, ReadsLie
<1>8. ring' = IF Stops(k) THEN s ELSE C!QueueWrite(s, pushed', len, used)
  BY <1>5
<1> HIDE DEF k, after, s, t
<1>9. CASE Stops(k)
  <2>1. ring' = s
    BY <1>8, <1>9
  <2>2. RingsOf(pushed) \subseteq RingsOf(pushed + 1)
    <3>1. UnitsOf(pushed) \subseteq UnitsOf(pushed + 1)
      BY <1>1 DEF UnitsOf
    <3> QED BY <3>1 DEF RingsOf
  <2> QED BY <1>1, <1>2, <1>7, <2>1, <2>2 DEF RingInv
<1>10. CASE ~ Stops(k)
  <2>1. C!Fits(s, len) /\ ring' = C!QueueWrite(s, pushed + 1, len, used)
    BY <1>1, <1>6, <1>8, <1>10 DEF s
  <2>2. /\ ring' \in RingsOf(pushed + 1)
        /\ \E p \in Places : Lies(ring', Append(t, p)) /\ MarkOK(ring', Append(t, p))
    BY <1>1, <1>7, <2>1, WriteLies
  <2> QED BY <1>1, <1>2, <2>2 DEF RingInv
<1> QED BY <1>9, <1>10

(* Every packet is read and sent; there is an end to it, as packets are fewer than
   units. *)
LEMMA FlushKeepsRing == RingInv /\ C!f_FlushPktQueue => RingInv'
<1> SUFFICES ASSUME RingInv, C!f_FlushPktQueue PROVE RingInv'
  OBVIOUS
<1>1. /\ pushed \in Nat /\ pushed' = pushed /\ pushed \in 0 .. MaxPushed
      /\ ring \in RingsOf(pushed) /\ out \in Seq(1 .. pushed) /\ Size \in Nat \ {0}
  BY RingOK DEF RingInv, C!f_FlushPktQueue
<1>2. PICK at : Lies(ring, at) /\ MarkOK(ring, at)
  BY DEF RingInv
<1> DEFINE after == C!Reads(ring, Size)
           K == {k \in 1 .. Size : after[k].last <= 0}
           n == C!First(K)
           ids == [k \in 1 .. n - 1 |-> after[k].mem[after[k].rp].id]
<1>3. ring' = after[n] /\ out' = out \o ids
  BY DEF C!f_FlushPktQueue
<1>4. ASSUME NEW k \in 0 .. Size
      PROVE  /\ after[k] \in RingsOf(pushed) /\ after[k].last \in Nat
             /\ Lies(after[k], From(at, Gone(ring, k))) /\ MarkOK(after[k], From(at, Gone(ring, k)))
             /\ k > 0 => (after[k].last > 0 <=> From(at, Gone(ring, k)) # <<>>)
  <2>1. Size \in Nat
    BY <1>1
  <2>2. after[k] \in RingsOf(pushed) => after[k].last \in Nat
    BY DEF RingsOf
  <2> QED BY <1>1, <1>2, <2>1, <2>2, ReadsLie
<1>5. n \in 1 .. Size /\ \A k \in 1 .. n - 1 : after[k].last > 0
  <2>1. Size \in K
    <3>1. Size \in 0 .. Size /\ Size > 0 /\ Size \in 1 .. Size
      BY <1>1
    <3>2. at \in Seq(Places) /\ Len(at) \in Nat /\ Len(at) < Size
      BY <1>1, <1>2, FewPackets, PlaceTypes
    <3>3. Gone(ring, Size) \in Nat /\ Len(at) <= Gone(ring, Size)
      BY <1>1, <3>2 DEF Gone
    <3>4. From(at, Gone(ring, Size)) = <<>>
      BY <3>2, <3>3, FromOf
    <3>5. after[Size].last = 0
      <4> HIDE DEF after
      <4> QED BY <1>4, <3>1, <3>4
    <3> QED BY <3>1, <3>5
  <2>2. K \in SUBSET Nat
    OBVIOUS
  <2>3. n \in K /\ \A l \in K : n <= l
    <3> HIDE DEF K
    <3> QED BY <2>1, <2>2, FirstIsLeast
  <2>4. \A k \in 1 .. n - 1 : k \in 0 .. Size /\ k \notin K /\ k \in 1 .. Size
    <3> HIDE DEF n
    <3>1. n \in 1 .. Size
      BY <2>3
    <3>2. \A k \in 1 .. n - 1 : k \in 0 .. Size /\ k \in 1 .. Size /\ ~ (n <= k)
      BY <1>1, <3>1
    <3> HIDE DEF K
    <3> QED BY <2>3, <3>2
  <2> HIDE DEF n
  <2> QED BY <1>4, <2>3, <2>4
<1> HIDE DEF after, K, n
<1>6. ring' \in RingsOf(pushed) /\ \E t : Lies(ring', t) /\ MarkOK(ring', t)
  BY <1>3, <1>4, <1>5
<1>7. ids \in Seq(1 .. pushed)
  <2>1. n - 1 \in Nat
    BY <1>1, <1>5
  <2>2. ASSUME NEW k \in 1 .. n - 1 PROVE after[k].mem[after[k].rp].id \in 1 .. pushed
    <3>1. k \in 0 .. Size /\ after[k].last > 0
      BY <1>1, <1>5
    <3> QED BY <1>1, <1>4, <3>1, ReadsPushed
  <2>3. ids \in [1 .. n - 1 -> 1 .. pushed]
    BY <2>2
  <2> HIDE DEF ids
  <2> QED BY <2>1, <2>3, SeqDef
<1> HIDE DEF ids
<1>8. out' \in Seq(1 .. pushed')
  BY <1>1, <1>3, <1>7, ConcatProperties
<1> QED BY <1>1, <1>6, <1>8 DEF RingInv

(* Every step keeps the invariant of the ring, and the invariant is enough. *)
LEMMA RingStays == RingInv /\ [C!Next]_C!vars => RingInv'
<1>1. ASSUME RingInv, UNCHANGED C!vars PROVE RingInv'
  BY <1>1 DEF C!vars, RingInv
<1> QED BY <1>1, PushKeepsRing, FlushKeepsRing DEF C!Next

LEMMA RingSuffices == RingInv => WellFormed /\ EmptyIffMeet
<1> SUFFICES ASSUME RingInv PROVE WellFormed /\ EmptyIffMeet
  OBVIOUS
<1>1. pushed \in Nat /\ pushed \in 0 .. MaxPushed /\ out \in Seq(1 .. pushed) /\ ring \in RingsOf(pushed)
  BY RingOK DEF RingInv
<1>2. PICK at : Lies(ring, at)
  BY DEF RingInv
<1>3. EmptyIffMeet
  BY <1>1, <1>2, MeetsWhenEmpty DEF EmptyIffMeet
<1> QED BY <1>1, <1>3 DEF WellFormed, RingsOf, UnitsOf

(* CommonQueueManager.cpp: the positions stay inside the buffer, and what the reader
   takes for a packet is the header of one that was pushed: no read returns an error. *)
THEOREM RingIsWellFormed == C!Spec => []WellFormed
<1> QED BY InitRing, RingStays, RingSuffices, PTL DEF C!Spec

(* CommonQueueManager.cpp, rules 4 and 5: the header that QueueWriteAllocateBuffer
   keeps free is enough for the writer never to catch up with the reader. *)
THEOREM FullIsNotEmpty == C!Spec => []EmptyIffMeet
<1> QED BY InitRing, RingStays, RingSuffices, PTL DEF C!Spec
-----------------------------------------------------------------------------
(* The ring as a buffer: CommonQueue implements PeerBuffer.  What the packets take of
   the ring bounds how many there are, from either side. *)

(* The packets at some places, as Content finds them. *)
Ids(r, at) == [k \in 1 .. Len(at) |-> r.mem[at[k]].id]

LEMMA ContentIs ==
  ASSUME NEW n \in Nat, NEW r \in RingsOf(n), NEW at, Lies(r, at)
  PROVE  Content(r) = Ids(r, at)
<1> DEFINE N == r.count
           Next1(f, k) == PastPadding(r, f[k - 1] + r.mem[f[k - 1]].len + 1)
           Is(f) == f = [k \in 1 .. N |-> IF k = 1 THEN PastPadding(r, r.rp) ELSE Next1(f, k)]
<1>1. at \in Seq(Places) /\ Len(at) = N /\ N \in Nat
  BY PlaceTypes DEF Lies
<1>2. ASSUME NEW k \in 1 .. N
      PROVE  at[k] = IF k = 1 THEN PastPadding(r, r.rp) ELSE Next1(at, k)
  <2>1. CASE k = 1
    <3>1. at # <<>>
      BY <1>1, EmptySeq
    <3> QED BY <2>1, <3>1 DEF Lies, Linked, C!PastPadding, PastPadding
  <2>2. CASE k # 1
    <3>1. k - 1 \in 1 .. Len(at) /\ k - 1 # Len(at) /\ (k - 1) + 1 = k
      BY <1>1, <2>2
    <3>2. at[(k - 1) + 1] = C!PastPadding(r, Behind(r, at[k - 1]))
      BY <3>1 DEF Lies, Linked
    <3> QED BY <2>2, <3>1, <3>2 DEF Behind, C!PastPadding, PastPadding
  <2> QED BY <2>1, <2>2
<1>3. Is(at)
  <2>1. at = [k \in 1 .. N |-> at[k]]
    BY <1>1
  <2> HIDE DEF Next1
  <2> QED BY <1>2, <2>1
<1>4. ASSUME NEW f, Is(f) PROVE f = at
  <2> DEFINE Off == {k \in 1 .. N : f[k] # at[k]}
  <2>1. \A k \in 1 .. N : f[k] = IF k = 1 THEN PastPadding(r, r.rp) ELSE Next1(f, k)
    <3> HIDE DEF Next1
    <3> QED BY <1>4
  <2>2. Off = {}
    <3> SUFFICES ASSUME Off # {} PROVE FALSE
      OBVIOUS
    <3>1. Off \in SUBSET Nat
      OBVIOUS
    <3>2. PICK k \in Off : \A l \in Off : k <= l
      <4> HIDE DEF Off
      <4> QED BY <3>1, LeastOf
    <3>3. k \in 1 .. N /\ f[k] # at[k]
      BY <3>2
    <3>4. k = 1 \/ f[k - 1] = at[k - 1]
      <4>1. k # 1 => k - 1 \in 1 .. N /\ ~ (k <= k - 1)
        BY <1>1, <3>3
      <4> QED BY <3>2, <4>1
    <3> QED BY <1>2, <2>1, <3>3, <3>4
  <2>3. f = [k \in 1 .. N |-> f[k]]
    BY <1>4
  <2>4. at = [k \in 1 .. N |-> at[k]]
    BY <1>1
  <2> QED BY <2>2, <2>3, <2>4
<1>5. at = CHOOSE f : Is(f)
  <2> HIDE DEF Is
  <2> QED BY <1>3, <1>4
<1>6. Content(r) = [k \in 1 .. N |-> r.mem[(CHOOSE f : Is(f))[k]].id]
  BY DEF Content
<1> QED BY <1>1, <1>5, <1>6 DEF Ids

(* A packet has the length it was given, or one unit less for its tag; padding is
   written where the longest packet does not fit. *)
Sized(r) ==
  \A k \in Places :
    /\ r.mem[k].kind = "packet" => \E len \in Lens : r.mem[k].len \in {len - 1, len} \ {0}
    /\ r.mem[k].kind = "padding" => Size <= k + MaxLen + 2

(* The units a packet takes, its header included. *)
Units(r, k) == r.mem[k].len + 1

LEMMA PacketUnits ==
  ASSUME NEW n \in Nat, NEW r \in RingsOf(n), NEW at, Lies(r, at), Sized(r), NEW k \in 1 .. Len(at)
  PROVE  /\ Units(r, at[k]) \in 2 .. MaxLen + 1
         /\ \A least \in Nat : (\A len \in Lens : least <= len) => least <= Units(r, at[k])
<1>1. at[k] \in Places /\ r.mem[at[k]].len \in Nat \ {0}
  BY PlaceTypes
<1>2. r.mem[at[k]].kind = "packet"
  BY DEF Lies, Linked
<1>3. PICK len \in Lens : r.mem[at[k]].len \in {len - 1, len} \ {0}
  BY <1>1, <1>2 DEF Sized
<1>4. MaxLen \in Nat /\ len <= MaxLen /\ len \in Nat \ {0}
  BY BufferOK, RingOK
<1>5. Units(r, at[k]) \in 2 .. MaxLen + 1 /\ len <= Units(r, at[k])
  <2>1. PICK x \in Nat \ {0} : x = r.mem[at[k]].len /\ x \in {len - 1, len}
    BY <1>1, <1>3
  <2>2. x <= len /\ len <= x + 1 /\ x >= 1
    BY <1>4, <2>1
  <2>3. x + 1 \in 2 .. MaxLen + 1
    BY <1>4, <2>2
  <2> QED BY <2>1, <2>2, <2>3 DEF Units
<1>6. ASSUME NEW least \in Nat, \A l \in Lens : least <= l PROVE least <= Units(r, at[k])
  <2>1. least <= len
    BY <1>6
  <2> QED BY <1>4, <1>5, <2>1
<1> QED BY <1>5, <1>6

(* Multiplication, as far as it is needed. *)
LEMMA Times ==
  ASSUME NEW a \in Nat, NEW b \in Nat
  PROVE  /\ a * b \in Nat /\ (a + 1) * b = a * b + b /\ 0 * b = 0
         /\ \A c \in Nat : c <= a => c * b <= a * b
<1>1. a * b \in Nat /\ (a + 1) * b = a * b + b /\ 0 * b = 0
  OBVIOUS
<1>2. ASSUME NEW c \in Nat, c <= a PROVE c * b <= a * b
  <2>1. PICK d \in Nat : a = c + d
    <3>1. a - c \in Nat /\ a = c + (a - c)
      BY <1>2
    <3> QED BY <3>1
  <2>2. (c + d) * b = c * b + d * b /\ d * b \in Nat /\ c * b \in Nat
    OBVIOUS
  <2> QED BY <2>1, <2>2
<1> QED BY <1>1, <1>2

(* Packets that lie one behind the other, each of u to v units. *)
LEMMA Stretch ==
  ASSUME NEW n \in Nat, NEW r \in RingsOf(n), NEW at, Lies(r, at),
         NEW u \in Nat, NEW v \in Nat,
         \A k \in 1 .. Len(at) : u <= Units(r, at[k]) /\ Units(r, at[k]) <= v,
         NEW lo \in 1 .. Len(at), NEW hi \in 1 .. Len(at),
         \A k \in lo .. hi - 1 : at[k + 1] = Behind(r, at[k])
  PROVE  \A d \in 0 .. hi - lo :
           /\ at[lo] + d * u <= at[lo + d] /\ at[lo + d] <= at[lo] + d * v
           /\ at[lo] + (d + 1) * u <= Behind(r, at[lo + d])
           /\ Behind(r, at[lo + d]) <= at[lo] + (d + 1) * v
<1> DEFINE Near(d) == at[lo] + d * u <= at[lo + d] /\ at[lo + d] <= at[lo] + d * v
           Far(d) == /\ at[lo] + (d + 1) * u <= Behind(r, at[lo + d])
                     /\ Behind(r, at[lo + d]) <= at[lo] + (d + 1) * v
           Bad == {d \in 0 .. hi - lo : ~ Near(d)}
<1>1. Len(at) \in Nat /\ at[lo] \in Int
  BY PlaceTypes
<1>2. ASSUME NEW d \in 0 .. hi - lo
      PROVE  /\ lo + d \in 1 .. Len(at) /\ at[lo + d] \in Int
             /\ Behind(r, at[lo + d]) \in Int /\ d \in Nat
             /\ at[lo + d] + u <= Behind(r, at[lo + d])
             /\ Behind(r, at[lo + d]) <= at[lo + d] + v
  <2>1. lo + d \in 1 .. Len(at) /\ d \in Nat
    BY <1>1
  <2>2. at[lo + d] \in Int /\ Behind(r, at[lo + d]) \in Int /\ r.mem[at[lo + d]].len \in Nat
    BY <2>1, PlaceTypes
  <2>3. Behind(r, at[lo + d]) = at[lo + d] + Units(r, at[lo + d]) /\ Units(r, at[lo + d]) \in Nat
    <3>1. PICK x \in Int : x = at[lo + d]
      BY <2>2
    <3>2. PICK y \in Nat : y = r.mem[at[lo + d]].len
      BY <2>2
    <3>3. x + y + 1 = x + (y + 1) /\ y + 1 \in Nat
      OBVIOUS
    <3> QED BY <3>1, <3>2, <3>3 DEF Behind, Units
  <2>4. u <= Units(r, at[lo + d]) /\ Units(r, at[lo + d]) <= v
    BY <2>1
  <2>5. PICK x \in Int : x = at[lo + d]
    BY <2>2
  <2>6. PICK y \in Nat : y = Units(r, at[lo + d]) /\ u <= y /\ y <= v
    BY <2>3, <2>4
  <2>7. x + u <= x + y /\ x + y <= x + v
    BY <2>6
  <2>8. Behind(r, at[lo + d]) = x + y
    BY <2>3, <2>5, <2>6
  <2> QED BY <2>1, <2>2, <2>5, <2>7, <2>8
<1>3. ASSUME NEW d \in 0 .. hi - lo, Near(d) PROVE Far(d)
  <2>1. PICK du \in Nat : du = d * u /\ (d + 1) * u = du + u
    BY <1>2, Times
  <2>2. PICK dv \in Nat : dv = d * v /\ (d + 1) * v = dv + v
    BY <1>2, Times
  <2>3. at[lo] + du <= at[lo + d] /\ at[lo + d] <= at[lo] + dv
    BY <1>3, <2>1, <2>2
  <2>4. at[lo] + (du + u) <= Behind(r, at[lo + d]) /\ Behind(r, at[lo + d]) <= at[lo] + (dv + v)
    <3>1. PICK x \in Int : x = at[lo]
      BY <1>1
    <3>2. PICK y \in Int : y = at[lo + d]
      BY <1>2
    <3>3. PICK z \in Int : z = Behind(r, at[lo + d])
      BY <1>2
    <3>4. x + du <= y /\ y <= x + dv
      BY <2>3, <3>1, <3>2
    <3>5. y + u <= z /\ z <= y + v
      BY <1>2, <3>2, <3>3
    <3>6. x + (du + u) <= z /\ z <= x + (dv + v)
      BY <3>4, <3>5
    <3> QED BY <3>1, <3>3, <3>6
  <2> QED BY <2>1, <2>2, <2>4
<1>4. 0 \in 0 .. hi - lo => Near(0)
  <2>1. 0 * u = 0 /\ 0 * v = 0 /\ lo + 0 = lo
    BY Times
  <2> QED BY <1>1, <2>1
<1>5. Bad = {}
  <2> SUFFICES ASSUME Bad # {} PROVE FALSE
    OBVIOUS
  <2> HIDE DEF Near, Far
  <2>1. Bad \in SUBSET Nat
    OBVIOUS
  <2>2. PICK d \in Bad : \A l \in Bad : d <= l
    <3> HIDE DEF Bad
    <3> QED BY <2>1, LeastOf
  <2>3. d \in 0 .. hi - lo /\ ~ Near(d) /\ d # 0
    BY <1>4, <2>2
  <2>4. d - 1 \in 0 .. hi - lo /\ ~ (d <= d - 1) /\ (d - 1) + 1 = d
    BY <2>3
  <2>5. Far(d - 1)
    BY <1>3, <2>2, <2>4
  <2>6. lo + (d - 1) \in lo .. hi - 1 /\ (lo + (d - 1)) + 1 = lo + d
    BY <2>3
  <2>7. at[lo + d] = Behind(r, at[lo + (d - 1)])
    BY <2>6
  <2> QED BY <2>3, <2>4, <2>5, <2>7 DEF Near, Far
<1>6. \A d \in 0 .. hi - lo : Near(d) /\ Far(d)
  <2> HIDE DEF Near, Far
  <2> QED BY <1>3, <1>5
<1> QED BY <1>6
(* Where the reader of a ring that does not wrap around goes. *)
LEMMA FlatChain ==
  ASSUME NEW n \in Nat, NEW r \in RingsOf(n), NEW at, Lies(r, at), Flat(r, at), at # <<>>
  PROVE  /\ at[1] = r.rp /\ r.wp = Behind(r, at[Len(at)])
         /\ \A k \in 1 .. Len(at) - 1 : at[k + 1] = Behind(r, at[k])
<1>1. Len(at) \in Nat /\ 1 \in 1 .. Len(at) /\ Len(at) \in 1 .. Len(at)
  BY PlaceTypes, EmptySeq
<1>2. \A k \in 1 .. Len(at) : at[k] \in Int /\ Behind(r, at[k]) \in Int /\ at[k] + 1 < Behind(r, at[k])
                               /\ at[k] >= 0
  BY PlaceTypes
<1>3. at[1] = r.rp
  <2>1. at[1] = C!PastPadding(r, r.rp) /\ r.rp <= at[1] /\ r.rp >= 0 /\ r.rp \in Int
    BY <1>1, RingTypes DEF Lies, Linked, Flat
  <2> QED BY <2>1 DEF C!PastPadding
<1>4. r.wp = Behind(r, at[Len(at)])
  BY <1>1 DEF Lies, Linked
<1>5. ASSUME NEW k \in 1 .. Len(at) - 1 PROVE at[k + 1] = Behind(r, at[k])
  <2>1. k \in 1 .. Len(at) /\ k # Len(at) /\ k + 1 \in 1 .. Len(at) /\ k < k + 1
    BY <1>1
  <2>2. at[k + 1] = C!PastPadding(r, Behind(r, at[k]))
    BY <2>1 DEF Lies, Linked
  <2>3. Behind(r, at[k]) <= at[k + 1]
    BY <2>1 DEF Flat
  <2>4. Behind(r, at[k]) \in Int /\ Behind(r, at[k]) > 0
    BY <1>2, <2>1
  <2> QED BY <2>2, <2>3, <2>4 DEF C!PastPadding
<1> QED BY <1>3, <1>4, <1>5

(* The padding at which the reader goes back to the start, behind the m-th packet. *)
Turn(r, at, m) == IF m = 0 THEN r.rp ELSE Behind(r, at[m])

LEMMA WrappedChain ==
  ASSUME NEW n \in Nat, NEW r \in RingsOf(n), NEW at, Lies(r, at),
         NEW m \in 0 .. Len(at) - 1, NEW e \in Places, Wrapped(r, at, m, e)
  PROVE  /\ m > 0 => at[1] = r.rp
         /\ at[m + 1] = 0 /\ r.wp = Behind(r, at[Len(at)]) /\ r.wp < r.rp
         /\ \A k \in 1 .. Len(at) - 1 : k # m => at[k + 1] = Behind(r, at[k])
         /\ Turn(r, at, m) \in Places /\ r.mem[Turn(r, at, m)].kind = "padding"
<1>1. /\ Len(at) \in Nat \ {0} /\ at # <<>> /\ 1 \in 1 .. Len(at) /\ Len(at) \in 1 .. Len(at)
      /\ m + 1 \in 1 .. Len(at) /\ m \in Nat
  BY PlaceTypes, EmptySeq
<1>2. \A k \in 1 .. Len(at) : at[k] \in Int /\ Behind(r, at[k]) \in Int /\ at[k] + 1 < Behind(r, at[k])
                               /\ at[k] >= 0
  BY PlaceTypes
<1>3. /\ r.wp < r.rp /\ at[m + 1] = 0 /\ r.wp \in Int /\ r.rp \in Int /\ r.wp >= 0
      /\ r.rp \in Places
  BY RingTypes DEF Wrapped, RingsOf
<1>4. m > 0 => at[1] = r.rp
  <2> SUFFICES ASSUME m > 0 PROVE at[1] = r.rp
    OBVIOUS
  <2>1. at[1] = C!PastPadding(r, r.rp)
    BY <1>1 DEF Lies, Linked
  <2>2. r.rp <= at[1]
    BY <1>1 DEF Wrapped
  <2> QED BY <1>3, <2>1, <2>2 DEF C!PastPadding
<1>5. r.wp = Behind(r, at[Len(at)])
  BY <1>1 DEF Lies, Linked
<1>6. ASSUME NEW k \in 1 .. Len(at) - 1, k # m PROVE at[k + 1] = Behind(r, at[k])
  <2>1. /\ k \in 1 .. Len(at) /\ k # Len(at) /\ k + 1 \in 1 .. Len(at) /\ k < k + 1
        /\ k <= m <=> k + 1 <= m
    BY <1>1, <1>6
  <2>2. at[k + 1] = C!PastPadding(r, Behind(r, at[k]))
    BY <2>1 DEF Lies, Linked
  <2>3. Behind(r, at[k]) <= at[k + 1]
    BY <2>1 DEF Wrapped
  <2>4. Behind(r, at[k]) \in Int /\ Behind(r, at[k]) > 0
    BY <1>2, <2>1
  <2> QED BY <2>2, <2>3, <2>4 DEF C!PastPadding
<1>7. Turn(r, at, m) \in Places /\ r.mem[Turn(r, at, m)].kind = "padding"
  <2>1. CASE m = 0
    <3>1. at[1] = C!PastPadding(r, r.rp) /\ at[1] = 0 /\ r.rp # 0
      BY <1>1, <1>3, <2>1 DEF Lies, Linked
    <3> QED BY <1>3, <2>1, <3>1 DEF Turn, C!PastPadding
  <2>2. CASE m # 0
    <3>1. m \in 1 .. Len(at) /\ m # Len(at)
      BY <1>1, <2>2
    <3>2. at[m + 1] = C!PastPadding(r, Behind(r, at[m]))
      BY <3>1 DEF Lies, Linked
    <3>3. Behind(r, at[m]) \in Int /\ Behind(r, at[m]) > 0
      BY <1>2, <3>1
    <3>4. Behind(r, at[m]) <= e
      BY <3>1 DEF Wrapped
    <3>5. Behind(r, at[m]) \in Places
      BY <3>3, <3>4, RingOK DEF Places
    <3> QED BY <1>3, <2>2, <3>2, <3>3, <3>5 DEF Turn, C!PastPadding
  <2> QED BY <2>1, <2>2
<1> QED BY <1>3, <1>4, <1>5, <1>6, <1>7

(* How far the reader has to go. *)
LEMMA FlatTotal ==
  ASSUME NEW n \in Nat, NEW r \in RingsOf(n), NEW at, Lies(r, at), Flat(r, at),
         NEW u \in Nat, NEW v \in Nat,
         \A k \in 1 .. Len(at) : u <= Units(r, at[k]) /\ Units(r, at[k]) <= v
  PROVE  r.rp + Len(at) * u <= r.wp /\ r.wp <= r.rp + Len(at) * v
<1>1. Len(at) \in Nat /\ r.rp \in Int /\ r.wp \in Int
  BY PlaceTypes, RingTypes
<1>2. CASE at = <<>>
  <2>1. Len(at) = 0 /\ r.rp = r.wp
    BY <1>2, EmptySeq DEF Lies, Linked
  <2>2. 0 * u = 0 /\ 0 * v = 0
    BY Times
  <2> QED BY <1>1, <2>1, <2>2
<1>3. CASE at # <<>>
  <2>1. /\ 1 \in 1 .. Len(at) /\ Len(at) \in 1 .. Len(at) /\ Len(at) - 1 \in 0 .. Len(at) - 1
        /\ 1 + (Len(at) - 1) = Len(at) /\ (Len(at) - 1) + 1 = Len(at)
    BY <1>1, <1>3, PlaceTypes, EmptySeq
  <2>2. /\ at[1] = r.rp /\ r.wp = Behind(r, at[Len(at)])
        /\ \A k \in 1 .. Len(at) - 1 : at[k + 1] = Behind(r, at[k])
    BY <1>3, FlatChain
  <2>3. \A d \in 0 .. Len(at) - 1 :
           /\ at[1] + (d + 1) * u <= Behind(r, at[1 + d])
           /\ Behind(r, at[1 + d]) <= at[1] + (d + 1) * v
    BY <2>1, <2>2, Stretch
  <2> QED BY <2>1, <2>2, <2>3
<1> QED BY <1>2, <1>3

LEMMA WrappedTotal ==
  ASSUME NEW n \in Nat, NEW r \in RingsOf(n), NEW at, Lies(r, at),
         NEW m \in 0 .. Len(at) - 1, NEW e \in Places, Wrapped(r, at, m, e),
         NEW u \in Nat, NEW v \in Nat,
         \A k \in 1 .. Len(at) : u <= Units(r, at[k]) /\ Units(r, at[k]) <= v
  PROVE  /\ r.rp + m * u <= Turn(r, at, m) /\ Turn(r, at, m) <= r.rp + m * v
         /\ (Len(at) - m) * u <= r.wp /\ r.wp <= (Len(at) - m) * v
<1>1. Len(at) \in Nat /\ r.rp \in Int /\ r.wp \in Int /\ m \in Nat
  BY PlaceTypes, RingTypes
<1>2. /\ m > 0 => at[1] = r.rp
      /\ at[m + 1] = 0 /\ r.wp = Behind(r, at[Len(at)])
      /\ \A k \in 1 .. Len(at) - 1 : k # m => at[k + 1] = Behind(r, at[k])
  BY WrappedChain
<1>3. r.rp + m * u <= Turn(r, at, m) /\ Turn(r, at, m) <= r.rp + m * v
  <2>1. CASE m = 0
    <3>1. 0 * u = 0 /\ 0 * v = 0
      BY Times
    <3> QED BY <1>1, <2>1, <3>1 DEF Turn
  <2>2. CASE m # 0
    <3>1. /\ 1 \in 1 .. Len(at) /\ m \in 1 .. Len(at) /\ m - 1 \in 0 .. m - 1 /\ m > 0
          /\ 1 + (m - 1) = m /\ (m - 1) + 1 = m
      BY <1>1, <2>2
    <3>2. \A k \in 1 .. m - 1 : at[k + 1] = Behind(r, at[k])
      <4>1. \A k \in 1 .. m - 1 : k \in 1 .. Len(at) - 1 /\ k # m
        BY <1>1
      <4> QED BY <1>2, <4>1
    <3>3. \A d \in 0 .. m - 1 : /\ at[1] + (d + 1) * u <= Behind(r, at[1 + d])
                                /\ Behind(r, at[1 + d]) <= at[1] + (d + 1) * v
      BY <3>1, <3>2, Stretch
    <3>4. r.rp + m * u <= Behind(r, at[m]) /\ Behind(r, at[m]) <= r.rp + m * v
      BY <1>2, <3>1, <3>3
    <3> QED BY <2>2, <3>4 DEF Turn
  <2> QED BY <2>1, <2>2
<1>4. (Len(at) - m) * u <= r.wp /\ r.wp <= (Len(at) - m) * v
  <2> DEFINE lo == m + 1
             d == Len(at) - lo
  <2>1. /\ lo \in 1 .. Len(at) /\ Len(at) \in 1 .. Len(at) /\ d \in 0 .. Len(at) - lo
        /\ lo + d = Len(at) /\ d + 1 = Len(at) - m
    BY <1>1
  <2>2. \A k \in lo .. Len(at) - 1 : at[k + 1] = Behind(r, at[k])
    <3>1. \A k \in lo .. Len(at) - 1 : k \in 1 .. Len(at) - 1 /\ k # m
      BY <1>1
    <3> QED BY <1>2, <3>1
  <2>3. at[lo] = 0
    BY <1>2
  <2> HIDE DEF lo, d
  <2>4. \A f \in 0 .. Len(at) - lo : /\ at[lo] + (f + 1) * u <= Behind(r, at[lo + f])
                                    /\ Behind(r, at[lo + f]) <= at[lo] + (f + 1) * v
    BY <2>1, <2>2, Stretch
  <2>5. 0 + (d + 1) * u <= r.wp /\ r.wp <= 0 + (d + 1) * v
    BY <1>2, <2>1, <2>3, <2>4
  <2>6. d + 1 \in Nat
    BY <1>1, <2>1
  <2>7. PICK x \in Nat : x = (d + 1) * u
    BY <2>6, Times
  <2>8. PICK y \in Nat : y = (d + 1) * v
    BY <2>6, Times
  <2>9. x <= r.wp /\ r.wp <= y
    BY <2>5, <2>7, <2>8
  <2> QED BY <2>1, <2>7, <2>8, <2>9
<1> QED BY <1>3, <1>4

(* A ring of n packets has 2 n units or more. *)
LEMMA RingHolds ==
  ASSUME NEW n \in Nat, NEW r \in RingsOf(n), NEW at, Lies(r, at), Sized(r)
  PROVE  Len(at) <= RingCap
<1>1. \A k \in 1 .. Len(at) : 2 <= Units(r, at[k]) /\ Units(r, at[k]) <= MaxLen + 1
  BY PacketUnits, BufferOK
<1>2. /\ Len(at) \in Nat /\ r.rp \in Nat /\ r.wp \in Nat /\ r.wp < Size
      /\ RingCap \in Nat /\ Size <= 2 * RingCap /\ Size \in Nat /\ MaxLen + 1 \in Nat
  BY PlaceTypes, RingTypes, BufferOK
<1>3. CASE Flat(r, at)
  <2>1. r.rp + Len(at) * 2 <= r.wp
    BY <1>1, <1>2, <1>3, FlatTotal
  <2> QED BY <1>2, <2>1
<1>4. ASSUME NEW m \in 0 .. Len(at) - 1, NEW e \in Places, Wrapped(r, at, m, e)
      PROVE  Len(at) <= RingCap
  <2>1. r.rp + m * 2 <= Turn(r, at, m) /\ (Len(at) - m) * 2 <= r.wp
    BY <1>1, <1>2, <1>4, WrappedTotal
  <2>2. Turn(r, at, m) \in Places /\ r.wp < r.rp
    BY <1>4, WrappedChain
  <2>3. Turn(r, at, m) \in Nat /\ Turn(r, at, m) < Size
    BY <1>2, <2>2, RingTypes
  <2> QED BY <1>2, <2>1, <2>2, <2>3
<1> QED BY <1>3, <1>4 DEF Lies

(* A ring without room for a packet holds more than it has to keep. *)
LEMMA NoRoomKeeps ==
  ASSUME NEW n \in Nat, NEW r \in RingsOf(n), NEW at, Lies(r, at), Sized(r),
         NEW len \in Lens, ~ C!Fits(r, len), RingKeep > 0
  PROVE  Len(at) > RingKeep
<1> DEFINE v == MaxLen + 1
<1>1. \A k \in 1 .. Len(at) : 2 <= Units(r, at[k]) /\ Units(r, at[k]) <= v
  BY PacketUnits, BufferOK
<1>2. /\ Len(at) \in Nat /\ r.rp \in Nat /\ r.wp \in Nat /\ Size \in Nat
      /\ v \in Nat /\ RingKeep \in Nat /\ len \in Nat /\ len <= MaxLen /\ MaxLen \in Nat
  BY PlaceTypes, RingTypes, BufferOK, RingOK
<1>3. RingKeep * v < Size - 2 * MaxLen - 3
  BY BufferOK
<1>4. /\ r.rp <= r.wp => r.rp <= MaxLen + 1 /\ Size - r.wp <= MaxLen + 2
      /\ r.wp < r.rp => r.rp <= r.wp + MaxLen + 1
  <2>1. PICK x \in Nat : x = r.rp
    BY <1>2
  <2>2. PICK y \in Nat : y = r.wp
    BY <1>2
  <2>3. /\ y >= x => ~ (Size - y > len + 2) /\ ~ (x >= len + 2)
        /\ y < x => ~ (x - y >= len + 2)
    BY <2>1, <2>2 DEF C!Fits, C!FitsAtEnd, C!FitsAtStart, C!FitsBefore
  <2> HIDE DEF v
  <2>4. /\ x <= y => x <= MaxLen + 1 /\ Size - y <= MaxLen + 2
        /\ y < x => x <= y + MaxLen + 1
    BY <1>2, <2>3
  <2> QED BY <2>1, <2>2, <2>4
<1>5. Size - 2 * MaxLen - 3 <= Len(at) * v
  <2>1. CASE Flat(r, at)
    <3>1. r.wp <= r.rp + Len(at) * v
      BY <1>1, <1>2, <2>1, FlatTotal
    <3>2. r.rp <= r.wp
      BY <2>1 DEF Flat
    <3>3. PICK t \in Nat : t = Len(at) * v
      BY <1>2, Times
    <3> HIDE DEF v
    <3>4. r.wp <= r.rp + t
      BY <3>1, <3>3
    <3>5. Size - 2 * MaxLen - 3 <= t
      BY <1>2, <1>4, <3>2, <3>4
    <3> QED BY <3>3, <3>5
  <2>2. ASSUME NEW m \in 0 .. Len(at) - 1, NEW e \in Places, Wrapped(r, at, m, e)
        PROVE  Size - 2 * MaxLen - 3 <= Len(at) * v
    <3>1. Turn(r, at, m) <= r.rp + m * v /\ r.wp <= (Len(at) - m) * v
      BY <1>1, <1>2, <2>2, WrappedTotal
    <3>2. /\ Turn(r, at, m) \in Places /\ r.wp < r.rp
          /\ r.mem[Turn(r, at, m)].kind = "padding"
      BY <2>2, WrappedChain
    <3>3. Size <= Turn(r, at, m) + MaxLen + 2 /\ Turn(r, at, m) \in Int
      BY <3>2, RingTypes DEF Sized
    <3>4. m \in Nat /\ Len(at) - m \in Nat
      BY <1>2
    <3>5. PICK a \in Nat : a = m * v
      BY <1>2, <3>4, Times
    <3>6. PICK b \in Nat : b = (Len(at) - m) * v
      BY <1>2, <3>4, Times
    <3>7. a + b = Len(at) * v
      BY <1>2, <3>4, <3>5, <3>6
    <3> HIDE DEF v
    <3>8. PICK e1 \in Int : e1 = Turn(r, at, m)
      BY <3>3
    <3>9. /\ e1 <= r.rp + a /\ r.wp <= b /\ Size <= e1 + MaxLen + 2
          /\ r.rp <= r.wp + MaxLen + 1
      BY <1>4, <3>1, <3>2, <3>3, <3>5, <3>6, <3>8
    <3>10. Size - 2 * MaxLen - 3 <= a + b
      BY <1>2, <3>9
    <3> QED BY <3>7, <3>10
  <2> QED BY <2>1, <2>2 DEF Lies
<1> HIDE DEF v
<1>6. ~ (Len(at) <= RingKeep)
  <2> SUFFICES ASSUME Len(at) <= RingKeep PROVE FALSE
    OBVIOUS
  <2>1. Len(at) * v <= RingKeep * v /\ Len(at) * v \in Nat /\ RingKeep * v \in Nat
    BY <1>2, Times
  <2> QED BY <1>2, <1>3, <1>5, <2>1
<1> QED BY <1>2, <1>6

(* A write keeps what is known of the units. *)
LEMMA WriteSized ==
  ASSUME NEW n \in Nat, NEW r \in RingsOf(n), Sized(r), NEW p, NEW len \in Lens,
         NEW used \in {len - 1, len} \ {0}, C!Fits(r, len)
  PROVE  Sized(C!QueueWrite(r, p, len, used))
<1>1. /\ r.wp \in Places /\ r.wp \in Int /\ r.rp \in Int /\ Size \in Int /\ MaxLen \in Nat
      /\ len <= MaxLen /\ len \in Nat
  BY RingTypes, RingOK, BufferOK DEF RingsOf
<1>2. ASSUME NEW q \in RingsOf(n), Sized(q), NEW k \in Places PROVE Sized(C!Written(q, k, p, used))
  <2> DEFINE w == C!Written(q, k, p, used)
  <2>1. \A j \in Places : \/ w.mem[j] = q.mem[j]
                          \/ w.mem[j].kind = "packet" /\ w.mem[j].len = used
                          \/ w.mem[j].kind = "data"
    <3>1. q = [mem |-> q.mem, wp |-> q.wp, rp |-> q.rp, count |-> q.count, last |-> q.last]
      BY DEF RingsOf
    <3>2. w.mem = [j \in Places |-> IF j = k THEN C!Header(p, used)
                                    ELSE IF j \in k + 1 .. k + used THEN C!Data ELSE q.mem[j]]
      BY <3>1 DEF C!Written, C!Places, Places
    <3>3. C!Header(p, used).kind = "packet" /\ C!Header(p, used).len = used /\ C!Data.kind = "data"
      BY DEF C!Header, C!Data
    <3> HIDE DEF w
    <3> QED BY <3>2, <3>3
  <2> HIDE DEF w
  <2>2. ASSUME NEW j \in Places
        PROVE  /\ w.mem[j].kind = "packet" => \E l \in Lens : w.mem[j].len \in {l - 1, l} \ {0}
               /\ w.mem[j].kind = "padding" => Size <= j + MaxLen + 2
    <3>1. /\ q.mem[j].kind = "packet" => \E l \in Lens : q.mem[j].len \in {l - 1, l} \ {0}
          /\ q.mem[j].kind = "padding" => Size <= j + MaxLen + 2
      BY <1>2 DEF Sized
    <3>2. CASE w.mem[j] = q.mem[j]
      BY <3>1, <3>2
    <3>3. CASE w.mem[j].kind = "packet" /\ w.mem[j].len = used
      BY <3>3
    <3>4. CASE w.mem[j].kind = "data"
      BY <3>4
    <3> QED BY <2>1, <3>2, <3>3, <3>4
  <2> QED BY <2>2 DEF Sized, w
<1>3. CASE C!FitsAtEnd(r, len) \/ C!FitsBefore(r, len)
  BY <1>1, <1>2, <1>3 DEF C!QueueWrite
<1>4. CASE ~ (C!FitsAtEnd(r, len) \/ C!FitsBefore(r, len))
  <2> DEFINE q == [r EXCEPT !.mem[r.wp] = C!Padding]
  <2>1. Size <= r.wp + MaxLen + 2
    BY <1>1, <1>4 DEF C!Fits, C!FitsAtEnd, C!FitsAtStart
  <2>2. q = [r EXCEPT !.mem[r.wp] = Padding]
    BY DEF C!Padding, Padding
  <2>3. q.mem = [r.mem EXCEPT ![r.wp] = Padding] /\ DOMAIN r.mem = Places
    BY <2>2 DEF RingsOf
  <2>4. q \in RingsOf(n)
    <3>1. Padding \in UnitsOf(n)
      BY DEF UnitsOf
    <3>2. q.mem \in [Places -> UnitsOf(n)]
      BY <1>1, <2>3, <3>1 DEF RingsOf
    <3>3. q = [mem |-> q.mem, wp |-> r.wp, rp |-> r.rp, count |-> r.count, last |-> r.last]
      BY <2>2 DEF RingsOf
    <3> HIDE DEF q
    <3> QED BY <3>2, <3>3 DEF RingsOf
  <2>5. \A j \in Places : IF j = r.wp THEN q.mem[j] = Padding ELSE q.mem[j] = r.mem[j]
    BY <1>1, <2>3
  <2> HIDE DEF q
  <2>6. Sized(q)
    BY <2>1, <2>5 DEF Sized, Padding
  <2>7. Sized(C!Written(q, 0, p, used))
    <3>1. 0 \in Places
      BY RingOK DEF Places
    <3> QED BY <1>2, <2>4, <2>6, <3>1
  <2> QED BY <1>4, <2>7 DEF C!QueueWrite, q
<1> QED BY <1>3, <1>4

(* What the buffer holds is a sequence of packets that were pushed. *)
LEMMA IdsTypes ==
  ASSUME NEW n \in Nat, NEW r \in RingsOf(n), NEW at, Lies(r, at)
  PROVE  /\ Ids(r, at) \in Seq(Nat) /\ Len(Ids(r, at)) = Len(at) /\ Len(at) \in Nat
         /\ \A k \in 1 .. Len(at) : Ids(r, at)[k] = r.mem[at[k]].id
<1>1. Len(at) \in Nat /\ \A k \in 1 .. Len(at) : r.mem[at[k]].id \in Nat
  BY PlaceTypes
<1>2. Ids(r, at) \in [1 .. Len(at) -> Nat]
  BY <1>1 DEF Ids
<1>3. Ids(r, at) \in Seq(Nat)
  BY <1>1, <1>2, SeqDef
<1> QED BY <1>1, <1>2, <1>3 DEF Ids

(* After a push the newest packets are left, the new one behind them. *)
LEMMA IdsPushed ==
  ASSUME NEW n \in Nat, NEW r \in RingsOf(n), NEW at, Lies(r, at), NEW g \in 0 .. Len(at),
         NEW s, NEW p \in Places, s.mem[p].id = n + 1,
         \A i \in 1 .. Len(From(at, g)) : s.mem[From(at, g)[i]] = r.mem[From(at, g)[i]]
  PROVE  /\ Len(From(at, g)) = Len(at) - g
         /\ Ids(s, Append(From(at, g), p))
              = Buffer!Newest(Append(Ids(r, at), n + 1), Len(at) - g + 1)
<1> DEFINE t == From(at, g)
           b == Append(t, p)
           x == Append(Ids(r, at), n + 1)
<1>1. at \in Seq(Places) /\ Len(at) \in Nat /\ g \in Nat
  BY PlaceTypes
<1>2. /\ t \in Seq(Places) /\ Len(t) = Len(at) - g
      /\ \A i \in 1 .. Len(at) - g : t[i] = at[g + i]
  <2>1. t \in Seq(Places)
    BY <1>1, FromOf
  <2>2. \A i \in 1 .. Len(at) - g : t[i] = at[g + i]
    BY <1>1, FromOf
  <2>3. Len(t) = Len(at) - g
    <3>1. g < Len(at) => Len(t) = Len(at) - g
      BY <1>1, FromOf
    <3>2. g = Len(at) => t = <<>>
      BY <1>1, FromOf
    <3>3. g = Len(at) => Len(t) = 0
      BY <3>2, EmptySeq
    <3> HIDE DEF t
    <3> QED BY <1>1, <3>1, <3>3
  <2> QED BY <2>1, <2>2, <2>3
<1>3. /\ Len(b) = Len(t) + 1 /\ b[Len(t) + 1] = p
      /\ \A i \in 1 .. Len(t) : b[i] = t[i]
  BY <1>2, PlacesAppended
<1>4. /\ x \in Seq(Nat) /\ Len(x) = Len(at) + 1 /\ x[Len(at) + 1] = n + 1
      /\ \A i \in 1 .. Len(at) : x[i] = r.mem[at[i]].id
  <2>1. /\ Ids(r, at) \in Seq(Nat) /\ Len(Ids(r, at)) = Len(at) /\ n + 1 \in Nat
        /\ \A k \in 1 .. Len(at) : Ids(r, at)[k] = r.mem[at[k]].id
    BY IdsTypes
  <2> QED BY <2>1, AppendProperties
<1>5. \A i \in 1 .. Len(t) : s.mem[t[i]] = r.mem[t[i]]
  OBVIOUS
<1> HIDE DEF t, b, x
<1>6. Buffer!Newest(x, Len(at) - g + 1) = From(x, g)
  <2>1. Len(x) - (Len(at) - g + 1) + 1 = g + 1
    BY <1>1, <1>4
  <2> QED BY <2>1 DEF Buffer!Newest, From
<1>7. /\ From(x, g) \in Seq(Nat) /\ Len(From(x, g)) = Len(at) - g + 1
      /\ \A i \in 1 .. Len(at) - g + 1 : From(x, g)[i] = x[g + i]
  <2>1. g < Len(x) /\ Len(x) - g = Len(at) - g + 1
    BY <1>1, <1>4
  <2>2. x \in Seq(Nat)
    BY <1>4
  <2>3. From(x, g) \in Seq(Nat)
    BY <1>1, <2>2, FromOf
  <2>4. \A i \in 1 .. Len(x) - g : From(x, g)[i] = x[g + i]
    BY <1>1, <2>2, FromOf
  <2>5. Len(From(x, g)) = Len(x) - g
    BY <1>1, <1>4, <2>1, FromOf
  <2> QED BY <2>1, <2>3, <2>4, <2>5
<1>8. ASSUME NEW i \in 1 .. Len(at) - g + 1 PROVE s.mem[b[i]].id = x[g + i]
  <2>1. CASE i = Len(at) - g + 1
    <3>1. b[i] = p /\ g + i = Len(at) + 1
      BY <1>1, <1>2, <1>3, <2>1
    <3> QED BY <1>4, <3>1
  <2>2. CASE i # Len(at) - g + 1
    <3>1. i \in 1 .. Len(t) /\ i \in 1 .. Len(at) - g /\ g + i \in 1 .. Len(at)
      <4>1. PICK a \in Nat : a = Len(at)
        BY <1>1
      <4>2. i \in 1 .. a - g /\ g + i \in 1 .. a
        BY <1>1, <2>2, <4>1
      <4> QED BY <1>2, <4>1, <4>2
    <3>2. b[i] = at[g + i] /\ t[i] = at[g + i]
      BY <1>2, <1>3, <3>1
    <3>3. s.mem[b[i]] = r.mem[at[g + i]]
      BY <1>5, <3>1, <3>2
    <3> QED BY <1>4, <3>1, <3>3
  <2> QED BY <2>1, <2>2
<1>9. Ids(s, b) = From(x, g)
  <2>1. Len(b) = Len(at) - g + 1
    BY <1>2, <1>3
  <2>2. Ids(s, b) = [i \in 1 .. Len(at) - g + 1 |-> x[g + i]]
    BY <1>8, <2>1 DEF Ids
  <2>3. From(x, g) = [i \in 1 .. Len(at) - g + 1 |-> From(x, g)[i]]
    BY <1>7
  <2> QED BY <1>7, <2>2, <2>3
<1> QED BY <1>2, <1>6, <1>9 DEF t, b, x

(* The reads of a push that stores nothing leave the newest packets. *)
LEMMA IdsLeft ==
  ASSUME NEW n \in Nat, NEW r \in RingsOf(n), NEW at, Lies(r, at), NEW g \in 0 .. Len(at),
         NEW s, s.mem = r.mem
  PROVE  /\ Len(From(at, g)) = Len(at) - g
         /\ Ids(s, From(at, g)) = Buffer!Newest(Ids(r, at), Len(at) - g)
<1> DEFINE t == From(at, g)
           x == Ids(r, at)
<1>1. /\ at \in Seq(Places) /\ Len(at) \in Nat /\ g \in Nat
      /\ x \in Seq(Nat) /\ Len(x) = Len(at) /\ \A k \in 1 .. Len(at) : x[k] = r.mem[at[k]].id
  BY PlaceTypes, IdsTypes
<1> HIDE DEF x
<1>2. /\ Len(t) = Len(at) - g /\ \A i \in 1 .. Len(at) - g : t[i] = at[g + i]
      /\ From(x, g) \in Seq(Nat) /\ Len(From(x, g)) = Len(at) - g
      /\ \A i \in 1 .. Len(at) - g : From(x, g)[i] = x[g + i]
  <2>1. ASSUME NEW P, NEW a \in Seq(P), Len(a) = Len(at)
        PROVE  /\ From(a, g) \in Seq(P) /\ Len(From(a, g)) = Len(at) - g
               /\ \A i \in 1 .. Len(at) - g : From(a, g)[i] = a[g + i]
    <3>1. g < Len(at) => Len(From(a, g)) = Len(at) - g
      BY <1>1, <2>1, FromOf
    <3>2. g = Len(at) => From(a, g) = <<>>
      BY <1>1, <2>1, FromOf
    <3>3. g = Len(at) => Len(From(a, g)) = 0
      BY <3>2, EmptySeq
    <3>4. Len(From(a, g)) = Len(at) - g
      BY <1>1, <3>1, <3>3
    <3> QED BY <1>1, <2>1, <3>4, FromOf
  <2> QED BY <1>1, <2>1
<1>3. Buffer!Newest(x, Len(at) - g) = From(x, g)
  <2>1. Len(x) - (Len(at) - g) + 1 = g + 1
    BY <1>1
  <2> QED BY <2>1 DEF Buffer!Newest, From
<1> HIDE DEF t
<1>4. \A i \in 1 .. Len(at) - g : s.mem[t[i]].id = x[g + i]
  <2>1. \A i \in 1 .. Len(at) - g : g + i \in 1 .. Len(at)
    BY <1>1
  <2> QED BY <1>1, <1>2, <2>1
<1>5. Ids(s, t) = [i \in 1 .. Len(at) - g |-> x[g + i]]
  BY <1>2, <1>4 DEF Ids
<1>6. From(x, g) = [i \in 1 .. Len(at) - g |-> From(x, g)[i]]
  BY <1>2
<1>7. Ids(s, t) = From(x, g)
  BY <1>2, <1>5, <1>6
<1> QED BY <1>2, <1>3, <1>7 DEF t, x

(* The ring as a buffer: while a packet is marked, as many are left as must be kept. *)
BufferInv == /\ RingInv /\ Sized(ring)
             /\ ring.last > 0 => ring.count >= RingKeep

(* A packet is evicted only for lack of room: what a push leaves are the newest packets,
   more than RingKeep with the new one.  A push that the limit ends stores nothing, and
   leaves the newest RingKeep of those that were there, the last one read among them. *)
LEMMA PushImplements ==
  ASSUME BufferInv, C!f_PushPktQueue
  PROVE  BufferInv' /\ Buffer!Push
<1>1. /\ pushed \in Nat /\ pushed' = pushed + 1 /\ pushed' \in 1 .. MaxPushed /\ out' = out
      /\ ring \in RingsOf(pushed) /\ Sized(ring) /\ EvictLimit \in Nat /\ RingKeep \in Nat
      /\ ring.last > 0 => ring.count >= RingKeep
  BY RingOK, BufferOK DEF BufferInv, RingInv, C!f_PushPktQueue
<1>2. PICK at : Lies(ring, at) /\ MarkOK(ring, at)
  BY DEF BufferInv, RingInv
<1>3. at \in Seq(Places) /\ Len(at) \in Nat /\ Len(at) = ring.count
  BY <1>1, <1>2, PlaceTypes DEF Lies
<1> DEFINE after == C!Reads(ring, EvictLimit + 1)
           Stops(j) == j > EvictLimit \/ (j > 0 /\ after[j].last = 0)
<1>4. PICK len \in Lens : \E used \in {len - 1, len} \ {0} :
        LET k == C!First({j \in 0 .. EvictLimit + 1 : Stops(j) \/ C!Fits(after[j], len)})
        IN  ring' = IF Stops(k) THEN after[k] ELSE C!QueueWrite(after[k], pushed', len, used)
  BY DEF C!f_PushPktQueue
<1> DEFINE K == {j \in 0 .. EvictLimit + 1 : Stops(j) \/ C!Fits(after[j], len)}
           k == C!First(K)
<1>5. PICK used \in {len - 1, len} \ {0} :
         ring' = IF Stops(k) THEN after[k] ELSE C!QueueWrite(after[k], pushed', len, used)
  BY <1>4
<1>6. /\ k \in 0 .. EvictLimit + 1 /\ (Stops(k) \/ C!Fits(after[k], len))
      /\ \A j \in 0 .. k - 1 : ~ Stops(j) /\ ~ C!Fits(after[j], len)
  <2>1. EvictLimit + 1 \in K /\ K \in SUBSET Nat
    BY <1>1
  <2>2. k \in K /\ \A l \in K : k <= l
    <3> HIDE DEF K
    <3> QED BY <2>1, FirstIsLeast
  <2>3. k \in 0 .. EvictLimit + 1 /\ (Stops(k) \/ C!Fits(after[k], len))
    BY <2>2
  <2>4. \A j \in 0 .. k - 1 : j \in 0 .. EvictLimit + 1 /\ j \notin K
    <3> HIDE DEF k
    <3>1. \A j \in 0 .. k - 1 : j \in 0 .. EvictLimit + 1 /\ ~ (k <= j)
      BY <1>1, <2>3
    <3> HIDE DEF K
    <3> QED BY <2>2, <3>1
  <2> QED BY <2>3, <2>4
<1> HIDE DEF k, K
<1>7. ASSUME NEW j \in 0 .. EvictLimit + 1
      PROVE  /\ after[j] \in RingsOf(pushed) /\ Lies(after[j], From(at, Gone(ring, j)))
             /\ MarkOK(after[j], From(at, Gone(ring, j))) /\ after[j].mem = ring.mem
             /\ Sized(after[j]) /\ after[j].last \in Nat
             /\ IF j = 0 THEN after[j] = ring
                ELSE after[j].last > 0 <=> From(at, Gone(ring, j)) # <<>>
  <2>1. EvictLimit + 1 \in Nat
    BY <1>1
  <2>2. /\ after[j] \in RingsOf(pushed) /\ Lies(after[j], From(at, Gone(ring, j)))
        /\ MarkOK(after[j], From(at, Gone(ring, j))) /\ after[j].mem = ring.mem
        /\ IF j = 0 THEN after[j] = ring
           ELSE after[j].last > 0 <=> From(at, Gone(ring, j)) # <<>>
    BY <1>1, <1>2, <2>1, ReadsLie
  <2> HIDE DEF after
  <2>3. Sized(after[j])
    BY <1>1, <2>2 DEF Sized
  <2>4. after[j].last \in Nat
    BY <1>1, <2>2, RingTypes
  <2> QED BY <2>2, <2>3, <2>4
<1> DEFINE g == Gone(ring, k)
           s == after[k]
           t == From(at, g)
(* What was evicted left more than must be kept: the ring had no room before. *)
<1>8. ASSUME k > 0, RingKeep > 0 PROVE g <= Len(at) /\ Len(at) - g >= RingKeep
  <2>1. k - 1 \in 0 .. k - 1 /\ k - 1 \in 0 .. EvictLimit + 1
    BY <1>1, <1>6, <1>8
  <2>2. ~ C!Fits(after[k - 1], len)
    BY <1>6, <2>1
  <2>3. Len(From(at, Gone(ring, k - 1))) > RingKeep
    <3> HIDE DEF after
    <3> QED BY <1>1, <1>7, <1>8, <2>1, <2>2, NoRoomKeeps
  <2>4. PICK h \in Nat : h = Gone(ring, k - 1) /\ g <= h + 1 /\ g \in Nat
    BY <1>1, <1>6, <1>8 DEF Gone
  <2>5. h < Len(at) => Len(From(at, h)) = Len(at) - h
    BY <1>3, FromOf
  <2>6. ~ (h < Len(at)) => Len(From(at, h)) = 0
    <3>1. From(at, h) = <<>> <=> Len(at) <= h
      BY <1>3, FromOf
    <3>2. ~ (h < Len(at)) => Len(at) <= h
      BY <1>3
    <3> QED BY <3>1, <3>2, EmptySeq
  <2> HIDE DEF g
  <2> QED BY <1>1, <1>3, <2>3, <2>4, <2>5, <2>6
<1>9. RingInv'
  BY PushKeepsRing DEF BufferInv
<1>10. ring' = IF Stops(k) THEN s ELSE C!QueueWrite(s, pushed + 1, len, used)
  BY <1>1, <1>5
<1>11. /\ s \in RingsOf(pushed) /\ Lies(s, t) /\ MarkOK(s, t) /\ s.mem = ring.mem /\ Sized(s)
       /\ s.last \in Nat
       /\ IF k = 0 THEN s = ring ELSE s.last > 0 <=> t # <<>>
  BY <1>6, <1>7
<1>12. g \in Nat /\ (k = 0 => g = 0) /\ (k = 1 => g <= 1) /\ (g > 0 => k > 0)
  BY <1>1, <1>6 DEF Gone
<1>13. Content(ring) = Ids(ring, at)
  BY <1>1, <1>2, ContentIs
(* The push finds nothing left to read. *)
<1>14. CASE k > 0 /\ s.last = 0
  <2>1. ring' = s /\ t = <<>>
    <3>1. ring' = s
      BY <1>10, <1>14
    <3> QED BY <1>11, <1>14, <3>1
  <2> HIDE DEF s
  <2>2. Content(ring') = <<>> /\ ring'.last = 0 /\ Sized(ring')
    <3>1. Content(s) = Ids(s, <<>>)
      BY <1>1, <1>11, <2>1, ContentIs
    <3>2. Ids(s, <<>>) = <<>>
      BY DEF Ids
    <3> QED BY <1>11, <1>14, <2>1, <3>1, <3>2
  <2>3. RingKeep = 0
    <3> SUFFICES ASSUME RingKeep > 0 PROVE FALSE
      BY <1>1
    <3>1. g <= Len(at) /\ Len(at) - g >= RingKeep
      BY <1>8, <1>14
    <3>2. Len(at) <= g
      BY <1>3, <1>12, <2>1, FromOf
    <3> HIDE DEF g
    <3> QED BY <1>1, <1>3, <1>12, <3>1, <3>2
  <2>4. [pkts |-> Content(ring'), read |-> ring'.last > 0] = Buffer!EmptyQueue
    <3>1. (ring'.last > 0) = FALSE
      BY <2>2
    <3> QED BY <2>2, <3>1 DEF Buffer!EmptyQueue
  <2>5. Buffer!Push
    BY <1>1, <2>3, <2>4 DEF Buffer!Push, Buffer!f_PushPktQueue
  <2> QED BY <1>9, <2>2, <2>5 DEF BufferInv
(* The push gives up at its limit, with a packet read. *)
<1>15. CASE k > EvictLimit /\ s.last # 0
  <2>1. k = EvictLimit + 1 /\ k > 0 /\ ring' = s /\ s.last > 0 /\ t # <<>>
    <3>1. k = EvictLimit + 1 /\ k > 0 /\ ring' = s
      BY <1>1, <1>6, <1>10, <1>15
    <3> HIDE DEF s, t
    <3> QED BY <1>11, <1>15, <3>1
  <2> DEFINE old == Ids(ring, at)
             marked == IF ring.last > 0 THEN 1 ELSE 0
             m == Len(at) - EvictLimit - marked
  <2>2. g \in 0 .. Len(at) /\ Len(at) - g = m /\ m \in 1 .. Len(at)
    <3>1. g = EvictLimit + marked
      BY <1>1, <2>1 DEF Gone
    <3>2. ~ (Len(at) <= g)
      <4>1. t = <<>> <=> Len(at) <= g
        BY <1>3, <1>12, FromOf
      <4> HIDE DEF g, t
      <4> QED BY <2>1, <4>1
    <3> HIDE DEF g
    <3> QED BY <1>1, <1>3, <1>12, <3>1, <3>2
  <2>3. m >= RingKeep
    <3>1. CASE RingKeep > 0
      <4>1. g <= Len(at) /\ Len(at) - g >= RingKeep
        BY <1>8, <2>1, <3>1
      <4> HIDE DEF g, m
      <4> QED BY <2>2, <4>1
    <3>2. CASE ~ (RingKeep > 0)
      <4> HIDE DEF g, m
      <4> QED BY <1>1, <1>3, <2>2, <3>2
    <3> QED BY <3>1, <3>2
  <2>4. old \in Seq(Nat) /\ Len(old) = Len(at)
    BY <1>1, <1>2, IdsTypes
  <2> HIDE DEF s, m
  <2>5. Content(ring') = Buffer!Newest(old, m) /\ Len(t) = m
    <3>1. Content(s) = Ids(s, t)
      BY <1>1, <1>11, ContentIs
    <3>2. Len(t) = Len(at) - g /\ Ids(s, t) = Buffer!Newest(old, Len(at) - g)
      <4>1. s.mem = ring.mem /\ g \in 0 .. Len(at)
        BY <1>11, <2>2
      <4> HIDE DEF g
      <4> QED BY <1>1, <1>2, <4>1, IdsLeft
    <3> HIDE DEF g, t, old
    <3> QED BY <2>1, <2>2, <3>1, <3>2
  <2>6. ring'.last > 0 /\ ring'.count >= RingKeep /\ Sized(ring')
    <3>1. s.count = m
      <4> HIDE DEF t
      <4> QED BY <1>11, <2>5 DEF Lies
    <3> QED BY <1>11, <2>1, <2>3, <3>1
  <2> HIDE DEF t, g, old
  <2> DEFINE q == [pkts |-> old, read |-> ring.last > 0]
  <2>7. [pkts |-> Buffer!Newest(old, m), read |-> TRUE] \in Buffer!GivesUp(q)
    <3>1. q.pkts = old /\ Buffer!Marked(q) = marked
      BY DEF Buffer!Marked
    <3>2. m \in 1 .. Len(q.pkts) /\ m >= RingKeep /\ m = Len(q.pkts) - EvictLimit - Buffer!Marked(q)
      <4>1. m = Len(at) - EvictLimit - marked
        BY DEF m
      <4> HIDE DEF q, marked
      <4> QED BY <2>2, <2>3, <2>4, <3>1, <4>1
    <3> HIDE DEF q
    <3> QED BY <3>1, <3>2 DEF Buffer!GivesUp
  <2>8. Buffer!Push
    <3>1. [pkts |-> Content(ring), read |-> ring.last > 0] = q
      BY <1>13 DEF old
    <3>2. [pkts |-> Content(ring'), read |-> ring'.last > 0] = [pkts |-> Buffer!Newest(old, m), read |-> TRUE]
      <4>1. (ring'.last > 0) = TRUE
        BY <2>6
      <4> QED BY <2>5, <4>1
    <3>3. pushed + 1 \in 1 .. MaxPushed
      BY <1>1
    <3> HIDE DEF q
    <3> QED BY <1>1, <2>7, <3>1, <3>2, <3>3 DEF Buffer!Push, Buffer!f_PushPktQueue
  <2> QED BY <1>9, <2>6, <2>8 DEF BufferInv
<1>16. CASE ~ Stops(k)
  <2>1. C!Fits(s, len) /\ ring' = C!QueueWrite(s, pushed + 1, len, used)
    BY <1>6, <1>10, <1>16
  <2>2. k > 0 => s.last > 0 /\ t # <<>>
    <3>1. k > 0 => ~ s.last = 0
      BY <1>16
    <3> HIDE DEF s, t
    <3> QED BY <1>6, <1>11, <3>1
  <2>3. /\ g \in 0 .. Len(at)
        /\ k > 0 => g < Len(at)
    <3>1. k > 0 => g < Len(at)
      <4>1. t = <<>> <=> Len(at) <= g
        BY <1>3, <1>12, FromOf
      <4> HIDE DEF g, t
      <4> QED BY <1>3, <1>12, <2>2, <4>1
    <3> HIDE DEF g
    <3> QED BY <1>3, <1>6, <1>12, <3>1
  <2> HIDE DEF s
  <2>4. ring' \in RingsOf(pushed + 1) /\ ring'.last = s.last /\ Sized(ring')
    BY <1>1, <1>11, <2>1, WriteLies, WriteSized
  <2>5. PICK p \in Places : Lies(ring', Append(t, p)) /\ ring'.mem[p].id = pushed + 1
    BY <1>1, <1>11, <2>1, WriteLies
  <2>6. \A i \in 1 .. Len(t) : ring'.mem[t[i]] = ring.mem[t[i]]
    BY <1>1, <1>11, <2>1, WriteLies
  <2> DEFINE m == Len(at) - g + 1
             old == Ids(ring, at)
  <2>7. /\ Len(t) = Len(at) - g
        /\ Ids(ring', Append(t, p)) = Buffer!Newest(Append(old, pushed + 1), m)
    <3> HIDE DEF g
    <3> QED BY <1>1, <1>2, <2>3, <2>5, <2>6, IdsPushed
  <2>8. Content(ring') = Buffer!Newest(Append(old, pushed + 1), m)
    <3>1. pushed + 1 \in Nat
      BY <1>1
    <3> QED BY <2>4, <2>5, <2>7, <3>1, ContentIs
  <2>9. t \in Seq(Places)
    BY <1>1, <1>11, PlaceTypes
  <2>10. Len(Append(t, p)) = m /\ ring'.count = m
    <3>1. Len(Append(t, p)) = Len(t) + 1
      BY <2>9, PlacesAppended
    <3> HIDE DEF t, g
    <3> QED BY <2>5, <2>7, <3>1 DEF Lies
  <2>11. m <= RingCap
    <3>1. pushed + 1 \in Nat
      BY <1>1
    <3> QED BY <2>4, <2>5, <2>10, <3>1, RingHolds
  <2>12. /\ old \in Seq(Nat) /\ Len(old) = Len(at)
    BY <1>1, <1>2, IdsTypes
  <2> HIDE DEF g, t, old
  <2>13. m \in 1 .. Len(at) + 1 /\ (m < Len(at) + 1 => k > 0)
    BY <1>3, <1>12, <2>3
  <2>14. k > 0 => m > RingKeep
    <3> SUFFICES ASSUME k > 0 PROVE m > RingKeep
      OBVIOUS
    <3>1. CASE RingKeep > 0
      BY <1>1, <1>3, <1>8, <1>12, <3>1
    <3>2. CASE ~ (RingKeep > 0)
      BY <1>1, <2>13, <3>2
    <3> QED BY <3>1, <3>2
  <2>15. s.last > 0 => m > 1 /\ m > RingKeep
    <3> SUFFICES ASSUME s.last > 0 PROVE m > 1 /\ m > RingKeep
      OBVIOUS
    <3>1. CASE k = 0
      <4>1. ring.last > 0 /\ g = 0 /\ Len(at) >= RingKeep
        BY <1>1, <1>3, <1>11, <1>12, <3>1
      <4>2. Len(at) # 0
        BY <1>2, <1>3, <4>1, EmptySeq DEF MarkOK
      <4> QED BY <1>1, <1>3, <4>1, <4>2
    <3>2. CASE k # 0
      BY <1>3, <1>6, <1>12, <2>3, <2>14, <3>2
    <3> QED BY <3>1, <3>2
  <2>16. ring.last > 0 => s.last > 0
    BY <1>6, <1>11, <2>2
  <2>17. m <= Len(at) => s.last > 0
    BY <1>3, <2>2, <2>13
  <2> DEFINE q == [pkts |-> old, read |-> ring.last > 0]
             n == [pkts |-> Buffer!Newest(Append(old, pushed + 1), m), read |-> s.last > 0]
  <2>18. m \in Buffer!Left(q)
    BY <1>3, <2>11, <2>12, <2>13, <2>14 DEF Buffer!Left
  <2>19. Len(n.pkts) = m
    <3>1. Content(ring') = Ids(ring', Append(t, p)) /\ Len(Ids(ring', Append(t, p))) = m
      <4>1. pushed + 1 \in Nat
        BY <1>1
      <4> QED BY <2>4, <2>5, <2>10, <4>1, ContentIs, IdsTypes
    <3> QED BY <2>8, <3>1
  <2>20. n \in Buffer!f_PushPktQueue(q, pushed + 1)
    <3>1. n \in {[pkts |-> Buffer!Newest(Append(q.pkts, pushed + 1), l), read |-> b] :
                   l \in Buffer!Left(q), b \in BOOLEAN}
      <4>1. PICK b \in BOOLEAN : b = (s.last > 0)
        <5>1. (s.last > 0) \in BOOLEAN
          OBVIOUS
        <5> QED BY <5>1, Zenon
      <4>2. n = [pkts |-> Buffer!Newest(Append(q.pkts, pushed + 1), m), read |-> b]
        BY <4>1
      <4> HIDE DEF n, q
      <4> QED BY <2>18, <4>2
    <3>2. q.read \/ Len(n.pkts) <= Len(q.pkts) => n.read
      BY <2>12, <2>16, <2>17, <2>19
    <3>3. n.read => Len(n.pkts) > 1 /\ Len(n.pkts) > RingKeep
      BY <2>15, <2>19
    <3> HIDE DEF n, q
    <3> QED BY <3>1, <3>2, <3>3 DEF Buffer!f_PushPktQueue, Buffer!MakesRoom
  <2>21. Buffer!Push
    <3>1. [pkts |-> Content(ring), read |-> ring.last > 0] = q
      BY <1>13 DEF old
    <3>2. [pkts |-> Content(ring'), read |-> ring'.last > 0] = n
      BY <2>4, <2>8
    <3>3. pushed + 1 \in 1 .. MaxPushed
      BY <1>1
    <3> HIDE DEF n, q
    <3> QED BY <1>1, <2>20, <3>1, <3>2, <3>3 DEF Buffer!Push
  <2>22. ring'.last > 0 => ring'.count >= RingKeep
    <3> HIDE DEF m
    <3> QED BY <1>1, <2>4, <2>10, <2>13, <2>15
  <2> QED BY <1>9, <2>4, <2>21, <2>22 DEF BufferInv
<1>17. CASE Stops(k)
  <2>1. k > EvictLimit => k > 0
    BY <1>1, <1>6
  <2>2. k > EvictLimit \/ (k > 0 /\ s.last = 0)
    BY <1>17
  <2> HIDE DEF s
  <2> QED BY <1>14, <1>15, <2>1, <2>2
<1> QED BY <1>16, <1>17

(* A flush sends what was not marked, oldest first, and leaves nothing. *)
LEMMA FlushImplements ==
  ASSUME BufferInv, C!f_FlushPktQueue
  PROVE  BufferInv' /\ Buffer!Flush
<1>1. /\ pushed \in Nat /\ pushed' = pushed /\ Size \in Nat \ {0}
      /\ ring \in RingsOf(pushed) /\ Sized(ring)
  BY RingOK DEF BufferInv, RingInv, C!f_FlushPktQueue
<1>2. PICK at : Lies(ring, at) /\ MarkOK(ring, at)
  BY DEF BufferInv, RingInv
<1>3. at \in Seq(Places) /\ Len(at) \in Nat /\ Len(at) < Size
  BY <1>1, <1>2, PlaceTypes, FewPackets
<1> DEFINE after == C!Reads(ring, Size)
           K == {k \in 1 .. Size : after[k].last <= 0}
           n == C!First(K)
           ids == [k \in 1 .. n - 1 |-> after[k].mem[after[k].rp].id]
<1>4. ring' = after[n] /\ out' = out \o ids
  BY DEF C!f_FlushPktQueue
<1> DEFINE o == IF ring.last > 0 THEN 1 ELSE 0
<1>5. o \in 0 .. 1 /\ o <= Len(at)
  <2>1. ring.last > 0 => Len(at) # 0
    BY <1>2, <1>3, EmptySeq DEF MarkOK
  <2> QED BY <1>3, <2>1
<1>6. ASSUME NEW k \in 1 .. Size
      PROVE  /\ after[k] \in RingsOf(pushed) /\ after[k].last \in Nat /\ after[k].mem = ring.mem
             /\ Lies(after[k], From(at, k - 1 + o)) /\ MarkOK(after[k], From(at, k - 1 + o))
             /\ after[k].last > 0 <=> k - 1 + o < Len(at)
  <2>1. Size \in Nat /\ k \in 0 .. Size /\ k # 0 /\ k - 1 + o \in Nat /\ Gone(ring, k) = k - 1 + o
    BY <1>1 DEF Gone
  <2>2. /\ after[k] \in RingsOf(pushed) /\ after[k].mem = ring.mem
        /\ Lies(after[k], From(at, k - 1 + o)) /\ MarkOK(after[k], From(at, k - 1 + o))
        /\ after[k].last > 0 <=> From(at, k - 1 + o) # <<>>
    BY <1>1, <1>2, <2>1, ReadsLie
  <2>3. From(at, k - 1 + o) = <<>> <=> Len(at) <= k - 1 + o
    <3>1. PICK d \in Nat : d = k - 1 + o
      BY <2>1
    <3>2. From(at, d) = <<>> <=> Len(at) <= d
      BY <1>3, FromOf
    <3> QED BY <3>1, <3>2
  <2> HIDE DEF after, o
  <2>4. after[k].last \in Nat
    BY <1>1, <2>2, RingTypes
  <2>5. after[k].last > 0 <=> k - 1 + o < Len(at)
    BY <1>3, <2>1, <2>2, <2>3
  <2> QED BY <2>2, <2>4, <2>5
<1> HIDE DEF after, o
<1>7. n \in 1 .. Size /\ after[n].last = 0 /\ \A k \in 1 .. n - 1 : after[k].last > 0
  <2>1. Size \in K
    <3>1. Size \in 1 .. Size /\ ~ (Size - 1 + o < Len(at))
      BY <1>1, <1>3, <1>5
    <3> QED BY <1>6, <3>1
  <2>2. K \in SUBSET Nat
    OBVIOUS
  <2>3. n \in K /\ \A l \in K : n <= l
    <3> HIDE DEF K
    <3> QED BY <2>1, <2>2, FirstIsLeast
  <2> HIDE DEF n
  <2>4. n \in 1 .. Size
    BY <2>3
  <2>5. after[n].last = 0
    BY <1>6, <2>3
  <2>6. ASSUME NEW k \in 1 .. n - 1 PROVE after[k].last > 0
    <3>1. k \in 1 .. Size /\ ~ (n <= k)
      BY <1>1, <2>4
    <3>2. k \notin K
      <4> HIDE DEF K
      <4> QED BY <2>3, <3>1
    <3> QED BY <1>6, <3>1, <3>2
  <2> QED BY <2>4, <2>5, <2>6
<1> HIDE DEF K, n
<1>8. n - 1 + o = Len(at)
  <2>1. ~ (n - 1 + o < Len(at))
    BY <1>6, <1>7
  <2>2. n # 1 => n - 1 - 1 + o < Len(at)
    <3>1. n # 1 => n - 1 \in 1 .. n - 1 /\ n - 1 \in 1 .. Size
      BY <1>1, <1>7
    <3> QED BY <1>6, <1>7, <3>1
  <2> QED BY <1>3, <1>5, <1>7, <2>1, <2>2
<1>9. Content(ring') = <<>> /\ ring'.last = 0 /\ Sized(ring')
  <2>1. From(at, n - 1 + o) = <<>>
    BY <1>3, <1>8, FromOf
  <2>2. Lies(ring', <<>>) /\ ring' \in RingsOf(pushed) /\ ring'.last = 0 /\ ring'.mem = ring.mem
    BY <1>4, <1>6, <1>7, <2>1
  <2>3. Content(ring') = Ids(ring', <<>>)
    BY <1>1, <2>2, ContentIs
  <2>4. Ids(ring', <<>>) = <<>>
    BY DEF Ids
  <2> QED BY <1>1, <2>2, <2>3, <2>4 DEF Sized
<1>10. Content(ring) = Ids(ring, at)
  BY <1>1, <1>2, ContentIs
<1>11. /\ Ids(ring, at) \in Seq(Nat) /\ Len(Ids(ring, at)) = Len(at)
       /\ \A k \in 1 .. Len(at) : Ids(ring, at)[k] = ring.mem[at[k]].id
  BY <1>1, <1>2, IdsTypes
<1>12. ASSUME NEW k \in 1 .. n - 1 PROVE after[k].mem[after[k].rp].id = Ids(ring, at)[k + o]
  <2>1. k \in 1 .. Size /\ after[k].last > 0 /\ k - 1 + o \in Nat
    BY <1>1, <1>5, <1>7
  <2>2. /\ after[k].mem = ring.mem /\ k - 1 + o < Len(at)
        /\ after[k].rp = From(at, k - 1 + o)[1]
    BY <1>6, <2>1 DEF MarkOK
  <2>3. 1 \in 1 .. Len(at) - (k - 1 + o) /\ k - 1 + o + 1 = k + o /\ k + o \in 1 .. Len(at)
    BY <1>3, <1>5, <2>1, <2>2
  <2>4. PICK d \in Nat : d = k - 1 + o
    BY <2>1
  <2>5. From(at, d)[1] = at[d + 1]
    BY <1>3, <2>3, <2>4, FromOf
  <2> QED BY <1>11, <2>2, <2>3, <2>4, <2>5
<1>13. ids = Buffer!Pending([pkts |-> Content(ring), read |-> ring.last > 0])
  <2> DEFINE old == Ids(ring, at)
  <2>1. ids = [k \in 1 .. n - 1 |-> old[k + o]]
    BY <1>12
  <2> HIDE DEF old, ids
  <2>2. CASE ring.last > 0
    <3>1. o = 1 /\ n = Len(at) /\ Len(old) = Len(at) /\ old \in Seq(Nat) /\ Len(at) # 0
      BY <1>3, <1>5, <1>7, <1>8, <1>11, <2>2 DEF o, old
    <3>2. old # <<>>
      BY <3>1, EmptySeq
    <3>3. /\ Tail(old) \in Seq(Nat) /\ Len(Tail(old)) = Len(old) - 1
          /\ \A k \in 1 .. Len(Tail(old)) : Tail(old)[k] = old[k + 1]
      BY <3>1, <3>2, HeadTailProperties
    <3>4. PICK x \in Seq(Nat) : x = Tail(old) /\ Len(x) = n - 1
      BY <3>1, <3>3
    <3>5. x = [k \in 1 .. n - 1 |-> x[k]] /\ \A k \in 1 .. n - 1 : x[k] = old[k + 1]
      <4>1. x = [k \in 1 .. Len(x) |-> x[k]]
        OBVIOUS
      <4>2. \A k \in 1 .. Len(x) : x[k] = old[k + 1]
        BY <3>3, <3>4
      <4> QED BY <3>4, <4>1, <4>2
    <3>6. ids = [k \in 1 .. n - 1 |-> old[k + 1]]
      BY <2>1, <3>1
    <3>7. Tail(old) = ids
      BY <3>4, <3>5, <3>6
    <3> QED BY <1>10, <2>2, <3>7 DEF Buffer!Pending, old
  <2>3. CASE ~ ring.last > 0
    <3>1. o = 0 /\ n - 1 = Len(at) /\ Len(old) = Len(at) /\ old \in Seq(Nat)
      BY <1>3, <1>7, <1>8, <1>11, <2>3 DEF o, old
    <3>2. old = [k \in 1 .. Len(at) |-> old[k]]
      BY <3>1
    <3>3. \A k \in 1 .. n - 1 : k + o = k
      BY <3>1
    <3>4. ids = old
      BY <2>1, <3>1, <3>2, <3>3
    <3> QED BY <1>10, <2>3, <3>4 DEF Buffer!Pending, old
  <2> QED BY <2>2, <2>3
<1>14. [pkts |-> Content(ring'), read |-> ring'.last > 0] = Buffer!EmptyQueue
  <2>1. (ring'.last > 0) = FALSE
    BY <1>9
  <2> QED BY <1>9, <2>1 DEF Buffer!EmptyQueue
<1>15. Buffer!Flush
  BY <1>4, <1>13, <1>14 DEF Buffer!Flush
<1>16. RingInv'
  BY FlushKeepsRing DEF BufferInv
<1> QED BY <1>9, <1>15, <1>16 DEF BufferInv

(* The new ring is the empty buffer. *)
LEMMA InitBuffer == C!Init => BufferInv /\ Buffer!Init
<1> SUFFICES ASSUME C!Init PROVE BufferInv /\ Buffer!Init
  OBVIOUS
<1>1. RingInv /\ ring = C!NewRing /\ out = <<>>
  BY InitRing DEF C!Init
<1>2. ring.count = 0 /\ ring.last = 0 /\ \A k \in Places : ring.mem[k].kind = "zero"
  BY <1>1 DEF C!NewRing, C!Places, Places, C!Zero
<1>3. BufferInv
  BY <1>1, <1>2 DEF BufferInv, Sized
<1>4. Content(ring) = <<>>
  BY <1>2 DEF Content
<1>5. (ring.last > 0) = FALSE
  BY <1>2
<1>6. [pkts |-> Content(ring), read |-> ring.last > 0] = Buffer!EmptyQueue
  BY <1>4, <1>5 DEF Buffer!EmptyQueue
<1> QED BY <1>1, <1>3, <1>6 DEF Buffer!Init

(* CommonQueueManager.cpp under f_PushPktQueue and f_FlushPktQueue: through every
   wrap-around, eviction and flush the ring is the buffer PacketQueue says it is, for
   every size of the buffer, every lengths of packets and every limit of a push: it gives
   up its oldest packets and keeps RingKeep, but for the newest one of a push that the
   limit ends. *)
THEOREM RingImplementsBuffer == C!Spec => IsPeerBuffer
<1>1. BufferInv /\ [C!Next]_C!vars =>
        BufferInv' /\ [Buffer!Push \/ Buffer!Flush]_<<[pkts |-> Content(ring), read |-> ring.last > 0], out>>
  <2> SUFFICES ASSUME BufferInv, [C!Next]_C!vars
      PROVE  BufferInv' /\ [Buffer!Push \/ Buffer!Flush]_<<[pkts |-> Content(ring), read |-> ring.last > 0], out>>
    OBVIOUS
  <2>1. CASE C!f_PushPktQueue
    BY <2>1, PushImplements
  <2>2. CASE C!f_FlushPktQueue
    BY <2>2, FlushImplements
  <2>3. CASE UNCHANGED C!vars
    <3>1. ring' = ring /\ out' = out /\ pushed' = pushed
      BY <2>3 DEF C!vars
    <3>2. RingInv'
      BY <2>3, RingStays DEF BufferInv
    <3>3. Sized(ring)' /\ (ring.last > 0 => ring.count >= RingKeep)'
      BY <3>1 DEF BufferInv, Sized
    <3> QED BY <3>1, <3>2, <3>3 DEF BufferInv
  <2> QED BY <2>1, <2>2, <2>3 DEF C!Next
<1> QED BY InitBuffer, <1>1, PTL DEF C!Spec, IsPeerBuffer, Buffer!Spec
=============================================================================
