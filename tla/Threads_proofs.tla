--------------------------- MODULE Threads_proofs ---------------------------
(***************************************************************************)
(* Proofs about the two components whose threads share memory without a    *)
(* lock.  First the rings of SerialQueue: whatever the order in which the  *)
(* writer and the reader make their accesses, for any size of the buffer,  *)
(* any lengths of packets and any number of them, the reader finds a       *)
(* header where it looks for one, the packets come out whole and in order, *)
(* and the semaphore counts them.  Then ConfigUpdate (U), for any number   *)
(* of rewritten files: its threads exclude each other and the progress     *)
(* shown is honest.                                                        *)
(***************************************************************************)
EXTENDS SerialQueue, UpdateState, SequenceTheorems, TLAPS

CONSTANT MaxWrites   \* of ConfigUpdate
U == INSTANCE ConfigUpdate
-----------------------------------------------------------------------------
(* The inductive invariant of SerialQueue *)

(* QueueWriteDataFinished has made a store, or has it still to make. *)
Made(s) == wpc = "finish" /\ s \notin stores
ToMake(s) == wpc = "finish" /\ s \in stores

(* The packet the reader has not passed yet, that in use included. *)
Oldest == IF ring.last > 0 /\ rpc \in {"wait", "skip"} THEN Len(out) ELSE Len(out) + 1

(* Packets whose reading is counted, and whose writing is complete or counted. *)
CountedOut == IF ring.last > 0 /\ rpc # "use" THEN Len(out) - 1 ELSE Len(out)
Complete == IF wpc \in {"idle", "post"} THEN Len(taken) ELSE Len(taken) - 1
CountedIn == IF wpc \in {"idle", "post"} \/ Made("count")
             THEN Len(taken) ELSE Len(taken) - 1
Posted == IF wpc = "idle" THEN Len(taken) ELSE Len(taken) - 1

(* Where the unit after the packet is. *)
End(k) == taken[k].at + taken[k].len + 1

(* How often the reader has gone back to the start. *)
ReaderLap == IF Oldest <= Len(taken) /\ ring.rp = taken[Oldest].at THEN taken[Oldest].lap
             ELSE IF Oldest = 1 THEN 0 ELSE taken[Oldest - 1].lap

Units == {Q!Zero, Q!Padding} \cup [kind : {"packet", "data"}, id : Nat, len : Nat]

Rings == [mem : [Q!Places -> Units], wp : Q!Places, rp : Q!Places, count : Int, last : Lens \cup {0}]
Packets == [id : Nat \ {0}, len : Lens, at : Nat, lap : Nat]

Types ==
  /\ use \in {"send", "recv"} /\ sem \in Nat
  /\ ring \in Rings
  /\ wpc \in {"idle", "pad", "wrap", "copy", "finish", "post"}
  /\ packet \in [id : 0 .. MaxPackets, len : Lens \cup {0}]
  /\ stores \subseteq {"header", "wp", "count"}
  /\ rpc \in {"wait", "skip", "skipped", "count", "positions", "header", "use"}
  /\ seen \in Seq(Units) /\ out \in Seq(Nat)
  /\ taken \in Seq(Packets)

(* One packet after the other, each behind the last or back at the start. *)
Laid ==
  /\ Len(taken) <= packet.id
  /\ \A k \in 1 .. Len(taken) : End(k) < Size /\ taken[k].id <= packet.id
  /\ \A k \in 1 .. Len(taken) :
       IF k = 1 THEN taken[k].at = 0 /\ taken[k].lap = 0
       ELSE \/ taken[k].lap = taken[k - 1].lap /\ taken[k].at = End(k - 1)
            \/ taken[k].lap = taken[k - 1].lap + 1 /\ taken[k].at = 0
  /\ \A j, k \in 1 .. Len(taken) :
       j < k => /\ taken[j].lap <= taken[k].lap
                /\ taken[j].lap = taken[k].lap => End(j) <= taken[k].at

WriterAt ==
  LET n == Len(taken) IN
  /\ wpc # "idle" => n > 0 /\ packet = [id |-> taken[n].id, len |-> taken[n].len]
  /\ wpc = "finish" => stores # {}
  /\ wpc = "finish" /\ use = "recv" => "count" \in stores
  /\ wpc \in {"pad", "wrap"} =>
       n > 1 /\ taken[n].lap = taken[n - 1].lap + 1 /\ taken[n].at = 0 /\ ring.wp = End(n - 1)
  /\ wpc = "copy" \/ ToMake("wp") => ring.wp = taken[n].at
  /\ wpc \in {"idle", "post"} \/ Made("wp") =>
       ring.wp = IF n = 0 THEN 0 ELSE End(n)

ReaderAt ==
  LET n == Len(taken) IN
  /\ Len(out) <= Complete
  /\ Oldest \in 1 .. n + 1
  /\ Oldest = 1 /\ n = 0 => ring.rp = 0
  /\ Oldest = n + 1 /\ n > 0 => ring.rp = End(n)
  /\ Oldest <= n => \/ ring.rp = taken[Oldest].at
                    \/ /\ Oldest > 1 /\ ring.rp = End(Oldest - 1)
                       /\ taken[Oldest].lap = taken[Oldest - 1].lap + 1
  /\ rpc \in {"skip", "skipped", "use"} => ring.last > 0
  /\ rpc \in {"count", "positions", "header"} => ring.last = 0
  /\ ring.last > 0 /\ rpc \in {"wait", "skip", "skipped"} => Len(out) > 0
  /\ ring.last > 0 /\ rpc \in {"wait", "skip", "use"} =>
       Oldest <= n /\ ring.rp = taken[Oldest].at /\ ring.last = taken[Oldest].len
  /\ rpc \in {"positions", "header", "use"} => Oldest <= Complete
  /\ rpc \in {"skip", "skipped", "count", "positions", "header"} => seen = <<>>
  /\ rpc = "use" => /\ Len(seen) <= ring.last
                    /\ \A k \in DOMAIN seen : seen[k] = Unit(taken[Oldest].id)
  /\ \A k \in DOMAIN out : out[k] = taken[k].id

(* The reader is less than a lap behind, and what it has not read is out of the
   writer's way. *)
Apart ==
  \A k \in Oldest .. Len(taken) :
    \/ taken[k].lap = ReaderLap /\ ring.rp <= taken[k].at
    \/ taken[k].lap = ReaderLap + 1 /\ End(k) < ring.rp

Payload(k) == \A u \in taken[k].at + 1 .. taken[k].at + taken[k].len :
                ring.mem[u] = Unit(taken[k].id)
Headed(k) == ring.mem[taken[k].at] = Q!Header(taken[k].id, taken[k].len)

Intact ==
  LET n == Len(taken) IN
  /\ \A k \in Oldest .. Complete : Headed(k) /\ Payload(k)
  /\ wpc = "finish" => Payload(n) /\ ("header" \notin stores => Headed(n))
  /\ \A k \in Oldest .. n :
       k > 1 /\ taken[k].lap = ReaderLap + 1 /\ taken[k - 1].lap = ReaderLap /\ ~ (k = n /\ wpc = "pad")
         => ring.mem[End(k - 1)] = Q!Padding

Counted == ring.count = CountedIn - CountedOut
Signalled ==
  /\ use = "send" => sem + Len(out) + (IF rpc = "wait" THEN 0 ELSE 1) = Posted
  /\ use = "recv" => sem = 0

(* All of it together. *)
IInv == Types /\ Laid /\ WriterAt /\ ReaderAt /\ Apart /\ Intact /\ Counted /\ Signalled

-----------------------------------------------------------------------------
USE QueueOK

LEMMA InitIInv == Init => IInv
<1> SUFFICES ASSUME Init PROVE IInv
  OBVIOUS
<1> USE DEF Init
<1>1. ring \in Rings
  BY DEF Rings, Q!NewRing, Q!Places, Units
<1>2. Types
  BY <1>1 DEF Types
<1>3. Laid
  BY DEF Laid
<1>4. ring.wp = 0 /\ ring.rp = 0 /\ ring.count = 0 /\ ring.last = 0
  BY DEF Q!NewRing
<1>5. WriterAt
  BY <1>4 DEF WriterAt, Made, ToMake
<1>6. Oldest = 1 /\ Complete = 0 /\ CountedIn = 0 /\ CountedOut = 0 /\ Posted = 0
  BY <1>4 DEF Oldest, Complete, CountedIn, CountedOut, Posted
<1>7. ReaderAt
  BY <1>4, <1>6 DEF ReaderAt
<1>8. Apart /\ Intact /\ Counted /\ Signalled
  BY <1>4, <1>6 DEF Apart, Intact, Counted, Signalled
<1> QED BY <1>2, <1>3, <1>5, <1>7, <1>8 DEF IInv

LEMMA RingNumbers ==
  ASSUME NEW r \in Rings
  PROVE  /\ r.wp \in 0 .. Size - 1 /\ r.rp \in 0 .. Size - 1 /\ r.count \in Int /\ r.last \in Nat
         /\ r.mem \in [Q!Places -> Units]
<1>1. r.last \in Lens \cup {0}
  BY DEF Rings
<1>2. /\ r.wp \in 0 .. Size - 1 /\ r.rp \in 0 .. Size - 1 /\ r.count \in Int
      /\ r.mem \in [Q!Places -> Units]
  BY DEF Rings, Q!Places
<1>3. \A x \in Lens \cup {0} : x \in Nat
  OBVIOUS
<1> QED BY <1>1, <1>2, <1>3

LEMMA RingIn == IInv => ring \in Rings
BY DEF IInv, Types

LEMMA PacketNumbers ==
  ASSUME IInv, NEW k \in 1 .. Len(taken)
  PROVE  /\ taken[k] \in Packets /\ taken[k].at \in Nat /\ taken[k].lap \in Nat
         /\ taken[k].id \in Nat \ {0} /\ taken[k].len \in Nat \ {0}
         /\ End(k) \in Nat /\ taken[k].at < End(k) /\ End(k) = taken[k].at + taken[k].len + 1
         /\ 1 < End(k) /\ End(k) < Size
<1>1. taken[k] \in Packets
  <2>1. taken \in Seq(Packets)
    BY DEF IInv, Types
  <2> QED BY <2>1, ElementOfSeq
<1>2. End(k) < Size
  BY DEF IInv, Laid
<1>3. /\ taken[k].at \in Nat /\ taken[k].lap \in Nat
      /\ taken[k].id \in Nat \ {0} /\ taken[k].len \in Nat \ {0}
  BY <1>1 DEF Packets
<1>4. End(k) = taken[k].at + taken[k].len + 1
  BY DEF End
<1> QED BY <1>1, <1>2, <1>3, <1>4

LEMMA Numbers ==
  ASSUME IInv
  PROVE  /\ Len(taken) \in Nat /\ Len(out) \in Nat /\ Len(seen) \in Nat /\ sem \in Nat
         /\ Oldest \in Nat /\ 1 <= Oldest /\ Oldest <= Len(taken) + 1
         /\ ReaderLap \in Nat /\ CountedOut \in Int
         /\ ring.wp \in Nat /\ ring.wp < Size /\ ring.rp \in Nat /\ ring.rp < Size
         /\ ring.count \in Int /\ ring.last \in Nat
         /\ Posted \in Int /\ Complete \in Int /\ CountedIn \in Int
         /\ Posted <= Complete /\ Complete <= CountedIn /\ CountedIn <= Len(taken)
<1>1. /\ Len(taken) \in Nat /\ Len(out) \in Nat /\ Len(seen) \in Nat /\ sem \in Nat
  BY DEF IInv, Types
<1>2. Oldest \in 1 .. Len(taken) + 1
  BY DEF IInv, ReaderAt
<1>3. \A k \in 1 .. Len(taken) : taken[k].lap \in Nat
  BY PacketNumbers
<1>4. ReaderLap \in Nat
  BY <1>1, <1>2, <1>3 DEF ReaderLap
<1>5. /\ Posted \in Int /\ Complete \in Int /\ CountedIn \in Int /\ CountedOut \in Int
      /\ Posted <= Complete /\ Complete <= CountedIn /\ CountedIn <= Len(taken)
  BY <1>1 DEF Posted, Complete, CountedIn, CountedOut, Made
<1>6. /\ ring.wp \in Nat /\ ring.wp < Size /\ ring.rp \in Nat /\ ring.rp < Size
      /\ ring.count \in Int /\ ring.last \in Nat
  BY RingIn, RingNumbers
<1> QED BY <1>1, <1>2, <1>4, <1>5, <1>6

LEMMA Index ==
  IInv => Len(taken) \in Nat /\ Oldest \in Nat /\ 1 <= Oldest /\ Oldest <= Len(taken) + 1
BY Numbers

LEMMA Counts ==
  IInv => /\ Len(out) \in Nat /\ sem \in Nat /\ ring.count \in Int /\ ring.last \in Nat
          /\ Posted \in Int /\ Complete \in Int /\ CountedIn \in Int /\ CountedOut \in Int
          /\ Posted <= Complete /\ Complete <= CountedIn
BY Numbers

LEMMA InOrder ==
  ASSUME IInv, NEW j \in 1 .. Len(taken), NEW k \in 1 .. Len(taken), j < k
  PROVE  taken[j].lap <= taken[k].lap /\ (taken[j].lap = taken[k].lap => End(j) <= taken[k].at)
BY DEF IInv, Laid

LEMMA NextPlace ==
  ASSUME IInv, NEW j \in 1 .. Len(taken), NEW k \in 1 .. Len(taken), k = j + 1
  PROVE  \/ taken[k].lap = taken[j].lap /\ taken[k].at = End(j)
         \/ taken[k].lap = taken[j].lap + 1 /\ taken[k].at = 0
<1>1. k # 1 /\ k - 1 = j
  BY Numbers
<1> QED BY <1>1 DEF IInv, Laid

LEMMA OutOfTheWay ==
  ASSUME IInv, NEW k \in Oldest .. Len(taken)
  PROVE  \/ taken[k].lap = ReaderLap /\ ring.rp <= taken[k].at
         \/ taken[k].lap = ReaderLap + 1 /\ End(k) < ring.rp
BY DEF IInv, Apart

(* What a step that leaves the memory, the laid packets and the reader's place alone keeps. *)
LEMMA ReaderKeeps ==
  ASSUME IInv, UNCHANGED <<use, writerVars>>, ring'.wp = ring.wp, ring'.rp = ring.rp,
         ring'.mem = ring.mem, Oldest' = Oldest
  PROVE  Laid' /\ WriterAt' /\ Apart' /\ Intact'
<1> USE DEF writerVars
<1>1. Complete' = Complete /\ ReaderLap' = ReaderLap /\ \A k : End(k)' = End(k)
  BY DEF Complete, ReaderLap, End
<1>2. Laid'
  BY <1>1 DEF IInv, Laid
<1>3. WriterAt'
  BY <1>1 DEF IInv, WriterAt, Made, ToMake
<1>4. Apart'
  BY <1>1 DEF IInv, Apart
<1>5. \A k : (Headed(k)' <=> Headed(k)) /\ (Payload(k)' <=> Payload(k))
  BY DEF Headed, Payload
<1>6. Intact'
  BY <1>1, <1>5 DEF IInv, Intact
<1> QED BY <1>2, <1>3, <1>4, <1>6

LEMMA WaitStep == ASSUME IInv, Wait PROVE IInv'
<1> USE DEF Wait, writerVars
<1>1. Oldest' = Oldest /\ CountedOut' = CountedOut
  BY DEF Oldest, CountedOut, IInv, Types, ReaderAt
<1>2. Complete' = Complete /\ CountedIn' = CountedIn /\ Posted' = Posted /\ \A k : End(k)' = End(k)
  BY DEF Complete, CountedIn, Made, Posted, End
<1>3. Laid' /\ WriterAt' /\ Apart' /\ Intact'
  BY <1>1, ReaderKeeps
<1>4. Types'
  BY EmptySeq DEF IInv, Types
<1>5. ReaderAt'
  <2>1. rpc = "wait" /\ rpc' = (IF ring.last > 0 THEN "skip" ELSE "count") /\ seen' = <<>>
    OBVIOUS
  <2>2. ring.last \in Nat
    BY Counts
  <2> QED BY <1>1, <1>2, <2>1, <2>2 DEF IInv, ReaderAt
<1>6. Counted' /\ Signalled'
  <2>1. sem \in Nat /\ Len(out) \in Nat
    BY Counts
  <2> QED BY <1>1, <1>2, <2>1 DEF IInv, Counted, Signalled
<1> QED BY <1>3, <1>4, <1>5, <1>6 DEF IInv

(* The header of the packet that was read still stands when it is skipped. *)
LEMMA SkipStep == ASSUME IInv, Skip PROVE IInv'
<1> USE DEF Skip, writerVars
<1> DEFINE n == Len(taken)
           o == Oldest
<1>1. /\ ring.last > 0 /\ o = Len(out) /\ o \in 1 .. n /\ o <= Complete
      /\ ring.rp = taken[o].at /\ Headed(o) /\ End(o) < Size
  <2>1. rpc = "skip" /\ ring.last > 0
    BY DEF IInv, ReaderAt
  <2>2. o = Len(out)
    BY <2>1 DEF Oldest
  <2>3. o <= n /\ ring.rp = taken[o].at /\ Len(out) <= Complete /\ Oldest \in 1 .. n + 1
    BY <2>1 DEF IInv, ReaderAt
  <2>4. o \in 1 .. n /\ o \in Oldest .. Complete
    BY <2>2, <2>3, Index, Counts
  <2> QED BY <2>1, <2>2, <2>3, <2>4 DEF IInv, Intact, Laid
<1>2. taken[o] \in Packets
  BY <1>1, PacketNumbers
<1>3. Q!QueueSkipCurrentPacket(ring).rp = End(o)
  <2>1. ring.mem[ring.rp].kind = "packet" /\ ring.mem[ring.rp].len = taken[o].len
    BY <1>1 DEF Headed, Q!Header
  <2>2. Q!PastPadding(ring, ring.rp) = taken[o].at
    BY <1>1, <2>1 DEF Q!PastPadding
  <2>3. End(o) \in Nat /\ End(o) < Size /\ Size \in Nat /\ End(o) = taken[o].at + (taken[o].len + 1)
    BY <1>1, PacketNumbers
  <2>4. Q!QueueSkipCurrentPacket(ring) = [ring EXCEPT !.rp = End(o), !.count = @ - 1]
    <3>1. taken[o].at + (taken[o].len + 1) = End(o) /\ ~ (End(o) >= Size)
      BY <2>3
    <3>2. ring.mem[taken[o].at].kind = "packet" /\ ring.mem[taken[o].at].len = taken[o].len
      BY <1>1, <2>1
    <3> QED BY <2>2, <3>1, <3>2 DEF Q!QueueSkipCurrentPacket
  <2> QED BY <2>4, RingIn DEF Rings
<1>4. ring' = [ring EXCEPT !.rp = End(o)]
  BY <1>3
<1>5. /\ ring'.rp = End(o) /\ ring'.wp = ring.wp /\ ring'.mem = ring.mem
      /\ ring'.last = ring.last /\ ring'.count = ring.count
  BY <1>4, RingIn DEF Rings
<1>6. Oldest' = o + 1 /\ CountedOut' = CountedOut
  BY <1>1, <1>5 DEF Oldest, CountedOut
<1>7. /\ Complete' = Complete /\ CountedIn' = CountedIn /\ Posted' = Posted
      /\ \A k : End(k)' = End(k)
  BY DEF Complete, CountedIn, Made, Posted, End
<1>8. Types'
  <2>1. ring' \in Rings
    <3>1. End(o) \in Q!Places
      BY <1>1, PacketNumbers DEF Q!Places
    <3> QED BY <1>4, <3>1, RingIn DEF Rings
  <2> QED BY <2>1 DEF IInv, Types
<1>9. Laid' /\ WriterAt' /\ Counted' /\ Signalled'
  BY <1>5, <1>6, <1>7 DEF IInv, Laid, WriterAt, Made, ToMake, Counted, Signalled
<1>10. ReaderAt'
  <2>1. ASSUME o + 1 <= Len(taken)
        PROVE  End(o) = taken[o + 1].at \/ taken[o + 1].lap = taken[o].lap + 1
    <3>1. o + 1 \in 1 .. Len(taken) /\ o \in 1 .. Len(taken)
      BY <1>1, <2>1, Numbers
    <3> QED BY <3>1, NextPlace
  <2>2. o = Len(out) /\ o \in Nat /\ Len(taken) \in Nat /\ o + 1 - 1 = o /\ o + 1 > 1
    BY <1>1, Numbers
  <2>3. Len(out') = Len(out) /\ seen = <<>> /\ \A k \in DOMAIN out : out[k] = taken[k].id
    BY <1>1 DEF IInv, ReaderAt
  <2> QED BY <1>1, <1>5, <1>6, <1>7, <2>1, <2>2, <2>3 DEF ReaderAt
<1>11. ReaderLap = taken[o].lap
  BY <1>1 DEF ReaderLap
<1>12. ReaderLap' = taken[o].lap
  <2>1. CASE o = Len(taken)
    BY <1>1, <1>6, <2>1, Numbers DEF ReaderLap
  <2>2. CASE o < Len(taken)
    <3>1. \/ taken[o + 1].lap = taken[o].lap /\ taken[o + 1].at = End(o)
          \/ taken[o + 1].lap = taken[o].lap + 1 /\ taken[o + 1].at = 0
      <4>1. o + 1 \in 1 .. Len(taken) /\ o \in 1 .. Len(taken)
        BY <1>1, <2>2, Numbers
      <4> QED BY <4>1, NextPlace
    <3>2. End(o) # 0 /\ o + 1 - 1 = o /\ o + 1 # 1 /\ o + 1 <= Len(taken)
      BY <1>1, <2>2, PacketNumbers
    <3>3. taken' = taken /\ Len(taken') = Len(taken)
      OBVIOUS
    <3>4. End(o) = taken[o + 1].at => taken[o + 1].lap = taken[o].lap
      BY <3>1, <3>2
    <3>5. ReaderLap' = IF End(o) = taken[o + 1].at THEN taken[o + 1].lap ELSE taken[o].lap
      <4>1. Oldest' <= Len(taken') /\ Oldest' # 1 /\ Oldest' - 1 = o
        <5>1. o \in Nat \ {0} /\ Oldest' = o + 1 /\ o < Len(taken)
          BY <1>1, <1>6, <2>2
        <5>2. Len(taken') = Len(taken) /\ Len(taken) \in Nat
          BY <3>3, Numbers
        <5> QED BY <5>1, <5>2
      <4> QED BY <1>5, <1>6, <3>3, <4>1 DEF ReaderLap
    <3> QED BY <3>4, <3>5
  <2> QED BY <1>1, <2>1, <2>2, Numbers
<1>13. Apart'
  <2> SUFFICES ASSUME NEW k \in o + 1 .. Len(taken)
               PROVE  \/ taken[k].lap = taken[o].lap /\ End(o) <= taken[k].at
                      \/ taken[k].lap = taken[o].lap + 1 /\ End(k) < End(o)
    BY <1>5, <1>6, <1>7, <1>12 DEF Apart
  <2>1. \/ taken[k].lap = taken[o].lap /\ ring.rp <= taken[k].at
        \/ taken[k].lap = taken[o].lap + 1 /\ End(k) < ring.rp
    BY <1>1, <1>11, OutOfTheWay
  <2>2. taken[o].lap = taken[k].lap => End(o) <= taken[k].at
    <3>1. o \in 1 .. Len(taken) /\ k \in 1 .. Len(taken) /\ o < k
      BY <1>1, Index
    <3> QED BY <3>1, InOrder
  <2>3. ring.rp < End(o) /\ ring.rp \in Nat /\ End(o) \in Nat
    BY <1>1, PacketNumbers
  <2>4. End(k) \in Nat
    <3>1. k \in 1 .. Len(taken)
      BY <1>1, Numbers
    <3> QED BY <3>1, PacketNumbers
  <2> QED BY <2>1, <2>2, <2>3, <2>4
<1>14. \A k : (Headed(k)' <=> Headed(k)) /\ (Payload(k)' <=> Payload(k))
  BY <1>5 DEF Headed, Payload
<1>15. Intact'
  BY <1>1, <1>5, <1>6, <1>7, <1>11, <1>12, <1>14 DEF IInv, Intact
<1> QED BY <1>8, <1>9, <1>10, <1>13, <1>15 DEF IInv

LEMMA SkippedStep == ASSUME IInv, Skipped PROVE IInv'
<1> USE DEF Skipped, writerVars
<1>1. /\ ring'.rp = ring.rp /\ ring'.wp = ring.wp /\ ring'.mem = ring.mem
      /\ ring'.last = 0 /\ ring'.count = ring.count - 1
  BY DEF IInv, Types
<1>2. Oldest' = Oldest /\ CountedOut' = CountedOut + 1
  BY <1>1 DEF Oldest, CountedOut, IInv, ReaderAt, Types
<1>3. Complete' = Complete /\ CountedIn' = CountedIn /\ Posted' = Posted /\ \A k : End(k)' = End(k)
  BY DEF Complete, CountedIn, Made, Posted, End
<1>4. Laid' /\ WriterAt' /\ Apart' /\ Intact'
  BY <1>1, <1>2, ReaderKeeps
<1>5. Types'
  <2>1. ring' \in Rings
    <3>1. ring.count - 1 \in Int /\ 0 \in Nat
      BY Numbers
    <3> QED BY <3>1, RingIn DEF Rings
  <2> QED BY <2>1 DEF IInv, Types
<1>6. ReaderAt'
  BY <1>1, <1>2, <1>3, Numbers DEF IInv, ReaderAt
<1>7. Counted' /\ Signalled'
  BY <1>1, <1>2, <1>3, Numbers DEF IInv, Counted, Signalled
<1> QED BY <1>4, <1>5, <1>6, <1>7 DEF IInv

LEMMA CheckCountStep == ASSUME IInv, CheckCount PROVE IInv'
<1> USE DEF CheckCount, writerVars
<1>1. /\ ring'.rp = ring.rp /\ ring'.wp = ring.wp /\ ring'.mem = ring.mem
      /\ ring'.last = ring.last /\ ring'.count = ring.count /\ ring.last = 0
  BY DEF IInv, Types, ReaderAt
<1>2. /\ Oldest' = Oldest /\ CountedOut' = CountedOut
      /\ Oldest = Len(out) + 1 /\ CountedOut = Len(out)
  BY <1>1 DEF Oldest, CountedOut, IInv, ReaderAt, Types
<1>3. Complete' = Complete /\ CountedIn' = CountedIn /\ Posted' = Posted /\ \A k : End(k)' = End(k)
  BY DEF Complete, CountedIn, Made, Posted, End
<1>4. use = "send" => Oldest <= Posted
  BY <1>2, Numbers DEF IInv, Signalled
<1>5. use = "recv" => CountedIn = Complete
  BY DEF CountedIn, Complete, Made, IInv, WriterAt, Types
<1>6. ring.count > 0 => Oldest <= Complete
  <2>1. use \in {"send", "recv"}
    BY DEF IInv, Types
  <2>2. ring.count = CountedIn - CountedOut
    BY DEF IInv, Counted
  <2> QED BY <1>2, <1>4, <1>5, <2>1, <2>2, Counts
<1>7. use = "send" => ring.count > 0
  BY <1>2, <1>4, Numbers DEF IInv, Counted
<1>8. Laid' /\ WriterAt' /\ Apart' /\ Intact'
  BY <1>1, <1>2, ReaderKeeps
<1>9. Types'
  <2>1. ring' \in Rings
    BY RingIn DEF Rings
  <2> QED BY <2>1 DEF IInv, Types
<1>10. ReaderAt'
  <2>1. ring.count \in Int /\ (rpc' = "wait" \/ (rpc' = "positions" /\ Oldest <= Complete))
    <3>1. ring.count \in Int
      BY Counts
    <3> QED BY <1>6, <3>1
  <2>2. seen = <<>>
    BY DEF IInv, ReaderAt
  <2> QED BY <1>1, <1>2, <1>3, <2>1, <2>2 DEF IInv, ReaderAt
<1>11. Counted' /\ Signalled'
  <2>1. use = "send" => rpc' = "positions"
    BY <1>7, Counts
  <2> QED BY <1>1, <1>2, <1>3, <2>1 DEF IInv, Counted, Signalled
<1> QED BY <1>8, <1>9, <1>10, <1>11 DEF IInv

(* While a whole packet waits for the reader the positions differ. *)
LEMMA PositionsDiffer == ASSUME IInv, Oldest <= Complete PROVE ring.wp # ring.rp
<1> DEFINE n == Len(taken)
           o == Oldest
<1>1. o \in 1 .. n /\ n \in Nat /\ ring.rp \in Nat /\ ring.wp \in Nat /\ ReaderLap \in Nat
  BY Numbers
<1>2. CASE wpc \in {"idle", "post"} \/ Made("wp")
  <2>1. ring.wp = End(n)
    BY <1>1, <1>2 DEF IInv, WriterAt
  <2>2. \/ taken[n].lap = ReaderLap /\ ring.rp <= taken[n].at
        \/ taken[n].lap = ReaderLap + 1 /\ End(n) < ring.rp
    BY <1>1, OutOfTheWay
  <2>3. taken[n].at \in Nat /\ taken[n].at < End(n) /\ End(n) \in Nat
    BY <1>1, PacketNumbers
  <2> QED BY <1>1, <2>1, <2>2, <2>3
<1>3. CASE wpc = "copy" \/ ToMake("wp")
  <2>1. ring.wp = taken[n].at /\ o < n
    BY <1>1, <1>3 DEF IInv, WriterAt, Complete, ToMake
  <2>2. taken[o].lap <= taken[n].lap /\ (taken[o].lap = taken[n].lap => End(o) <= taken[n].at)
    BY <1>1, <2>1, InOrder
  <2>3. \/ taken[n].lap = ReaderLap /\ ring.rp <= taken[n].at
        \/ taken[n].lap = ReaderLap + 1 /\ End(n) < ring.rp
    BY <1>1, OutOfTheWay
  <2>4. \/ taken[o].lap = ReaderLap /\ ring.rp <= taken[o].at
        \/ taken[o].lap = ReaderLap + 1
    BY <1>1, OutOfTheWay
  <2>5. /\ taken[n].at \in Nat /\ taken[n].at < End(n) /\ End(n) \in Nat
        /\ taken[o].at \in Nat /\ taken[o].at < End(o) /\ End(o) \in Nat
    BY <1>1, PacketNumbers
  <2> QED BY <1>1, <2>1, <2>2, <2>3, <2>4, <2>5
<1>4. CASE wpc \in {"pad", "wrap"}
  <2>1. o <= n - 1 /\ ring.wp = End(n - 1) /\ taken[n].lap = taken[n - 1].lap + 1
    BY <1>1, <1>4 DEF IInv, WriterAt, Complete
  <2>2. /\ taken[n].lap = ReaderLap \/ taken[n].lap = ReaderLap + 1
        /\ \/ taken[n - 1].lap = ReaderLap /\ ring.rp <= taken[n - 1].at
           \/ taken[n - 1].lap = ReaderLap + 1
    BY <1>1, <2>1, OutOfTheWay
  <2>3. taken[n - 1].at \in Nat /\ taken[n - 1].at < End(n - 1) /\ End(n - 1) \in Nat
    BY <1>1, <2>1, PacketNumbers
  <2> QED BY <1>1, <2>1, <2>2, <2>3
<1> QED BY <1>2, <1>3, <1>4 DEF IInv, Types, Made, ToMake

LEMMA CheckPositionsStep == ASSUME IInv, CheckPositions PROVE IInv'
<1> USE DEF CheckPositions, writerVars
<1>1. Oldest <= Complete
  BY DEF IInv, ReaderAt
<1>2. rpc' = "header"
  BY <1>1, PositionsDiffer
<1>3. Oldest' = Oldest /\ CountedOut' = CountedOut
  BY <1>2 DEF Oldest, CountedOut, IInv, ReaderAt
<1>4. Complete' = Complete /\ CountedIn' = CountedIn /\ Posted' = Posted /\ \A k : End(k)' = End(k)
  BY DEF Complete, CountedIn, Made, Posted, End
<1>5. Laid' /\ WriterAt' /\ Apart' /\ Intact'
  BY <1>3, ReaderKeeps
<1>6. Types'
  BY <1>2 DEF IInv, Types
<1>7. ReaderAt'
  BY <1>1, <1>2, <1>3, <1>4 DEF IInv, ReaderAt
<1>8. Counted' /\ Signalled'
  BY <1>2, <1>3, <1>4 DEF IInv, Counted, Signalled
<1> QED BY <1>5, <1>6, <1>7, <1>8 DEF IInv

(* Where the reader looks for a header there is one, of the packet or of padding. *)
LEMMA HeaderThere ==
  ASSUME IInv, rpc = "header"
  PROVE  /\ Oldest <= Complete /\ Oldest \in 1 .. Len(taken)
         /\ \/ ring.rp = taken[Oldest].at /\ Headed(Oldest)
            \/ /\ ring.rp # taken[Oldest].at /\ Oldest > 1 /\ ring.rp = End(Oldest - 1)
               /\ taken[Oldest].at = 0
               /\ taken[Oldest].lap = ReaderLap + 1 /\ ReaderLap = taken[Oldest - 1].lap
               /\ ring.mem[ring.rp] = Q!Padding
<1> DEFINE o == Oldest
<1> USE Numbers
<1>1. o <= Complete /\ o \in 1 .. Len(taken) /\ Complete <= Len(taken)
  BY DEF Complete, IInv, ReaderAt
<1>2. CASE ring.rp = taken[o].at
  BY <1>1, <1>2 DEF IInv, Intact
<1>3. CASE ring.rp # taken[o].at
  <2>1. o > 1 /\ ring.rp = End(o - 1) /\ taken[o].lap = taken[o - 1].lap + 1
    BY <1>1, <1>3 DEF IInv, ReaderAt
  <2>2. ReaderLap = taken[o - 1].lap
    BY <1>1, <1>3, <2>1 DEF ReaderLap
  <2>3. taken[o].at = 0
    <3>1. PICK q \in 1 .. Len(taken) : q = o - 1
      BY <1>1, <2>1
    <3>2. taken[q].lap \in Nat /\ o = q + 1
      <4>1. o = q + 1
        BY <1>1, <3>1
      <4> QED BY <4>1, PacketNumbers
    <3>3. taken[o].lap = taken[q].lap \/ taken[o].at = 0
      BY <1>1, <3>2, NextPlace
    <3>4. taken[o].lap = taken[q].lap + 1
      BY <2>1, <3>1
    <3>5. taken[o].lap # taken[q].lap
      BY <3>2, <3>4
    <3> QED BY <3>3, <3>5
  <2>4. ~ (o = Len(taken) /\ wpc = "pad")
    BY <1>1 DEF Complete
  <2> QED BY <1>1, <1>3, <2>1, <2>2, <2>3, <2>4 DEF IInv, Intact
<1> QED BY <1>1, <1>2, <1>3

LEMMA ReadHeaderStep == ASSUME IInv, ReadHeader PROVE IInv'
<1> USE DEF writerVars
<1> DEFINE o == Oldest
<1>1. rpc = "header" /\ UNCHANGED <<use, sem, writerVars, seen, out>>
  BY DEF ReadHeader
<1>2. ring.last = 0 /\ o = Len(out) + 1 /\ CountedOut = Len(out) /\ seen = <<>>
  BY <1>1 DEF Oldest, CountedOut, IInv, ReaderAt
<1>3. /\ Complete' = Complete /\ CountedIn' = CountedIn /\ Posted' = Posted
      /\ \A k : End(k)' = End(k)
  BY <1>1 DEF Complete, CountedIn, Made, Posted, End
<1>4. CASE ring.rp = taken[o].at /\ Headed(o)
  <2>1. o <= Complete /\ o \in 1 .. Len(taken) /\ taken[o].len \in Nat \ {0}
    BY <1>1, HeaderThere, PacketNumbers
  <2>2. ring.mem[ring.rp].kind = "packet" /\ ring.mem[ring.rp].len = taken[o].len
    BY <1>4 DEF Headed, Q!Header
  <2>3. rpc' = "use" /\ ring' = [ring EXCEPT !.last = taken[o].len]
    BY <2>2 DEF ReadHeader
  <2>4. /\ ring'.rp = ring.rp /\ ring'.wp = ring.wp /\ ring'.mem = ring.mem
        /\ ring'.last = taken[o].len /\ ring'.count = ring.count
    BY <2>3, RingIn DEF Rings
  <2>5. Oldest' = o /\ CountedOut' = CountedOut
    BY <1>1, <1>2, <2>1, <2>3, <2>4 DEF Oldest, CountedOut
  <2>6. Laid' /\ WriterAt' /\ Apart' /\ Intact'
    BY <1>1, <2>4, <2>5, ReaderKeeps
  <2>7. Types'
    <3>1. taken[o].len \in Lens
      BY <2>1, PacketNumbers DEF Packets
    <3>2. ring' \in Rings
      BY <2>3, <3>1, RingIn DEF Rings
    <3> QED BY <1>1, <2>3, <3>2 DEF IInv, Types
  <2>8. ReaderAt'
    <3>1. Len(seen) = 0 /\ \A k \in DOMAIN seen : FALSE
      BY <1>2
    <3>2. /\ Len(seen) <= taken[o].len /\ taken[o].len > 0 /\ Complete <= Len(taken) /\ o <= Len(taken)
      <4>1. Complete <= Len(taken)
        BY Numbers
      <4> QED BY <2>1, <3>1, <4>1
    <3>3. /\ Len(out) <= Complete /\ Oldest \in 1 .. Len(taken) + 1
          /\ Oldest = 1 /\ Len(taken) = 0 => ring.rp = 0
          /\ \A k \in DOMAIN out : out[k] = taken[k].id
      BY DEF IInv, ReaderAt
    <3>4. ~ (Oldest = Len(taken) + 1)
      BY <2>1, Index
    <3> QED BY <1>1, <1>2, <1>3, <1>4, <2>1, <2>3, <2>4, <2>5, <3>1, <3>2, <3>3, <3>4 DEF ReaderAt
  <2>9. Counted' /\ Signalled'
    BY <1>1, <1>3, <2>3, <2>4, <2>5 DEF IInv, Counted, Signalled
  <2> QED BY <2>6, <2>7, <2>8, <2>9 DEF IInv
<1>5. CASE /\ ring.rp # taken[o].at /\ o > 1 /\ ring.rp = End(o - 1) /\ taken[o].at = 0
           /\ taken[o].lap = ReaderLap + 1 /\ ReaderLap = taken[o - 1].lap
           /\ ring.mem[ring.rp] = Q!Padding
  <2>1. o <= Complete /\ o \in 1 .. Len(taken)
    BY <1>1, HeaderThere
  <2>2. rpc' = "count" /\ ring' = [ring EXCEPT !.rp = 0]
    BY <1>5 DEF ReadHeader, Q!Padding
  <2>3. /\ ring'.rp = 0 /\ ring'.wp = ring.wp /\ ring'.mem = ring.mem
        /\ ring'.last = 0 /\ ring'.count = ring.count
    BY <1>2, <2>2, RingIn DEF Rings
  <2>4. Oldest' = o /\ CountedOut' = CountedOut
    BY <1>1, <1>2, <2>1, <2>2, <2>3 DEF Oldest, CountedOut
  <2>5. Types'
    <3>1. ring' \in Rings
      BY <2>2, RingIn DEF Rings, Q!Places
    <3> QED BY <1>1, <2>2, <3>1 DEF IInv, Types
  <2>6. Laid' /\ WriterAt' /\ Counted' /\ Signalled'
    BY <1>1, <1>3, <2>2, <2>3, <2>4 DEF IInv, Laid, WriterAt, Made, ToMake, Counted, Signalled
  <2>7. ReaderAt'
    <3>1. Len(out) <= Complete /\ \A k \in DOMAIN out : out[k] = taken[k].id
      BY DEF IInv, ReaderAt
    <3>2. ~ (Oldest = Len(taken) + 1) /\ Len(taken) # 0 /\ Oldest \in 1 .. Len(taken) + 1
      BY <2>1, Index
    <3> QED BY <1>1, <1>2, <1>3, <1>5, <2>1, <2>2, <2>3, <2>4, <3>1, <3>2 DEF ReaderAt
  <2>8. ReaderLap' = ReaderLap + 1
    BY <1>1, <1>5, <2>1, <2>3, <2>4 DEF ReaderLap
  <2>9. \A k \in o .. Len(taken) : taken[k].lap = ReaderLap + 1 /\ taken[k].at \in Nat
    <3> SUFFICES ASSUME NEW k \in o .. Len(taken)
                 PROVE  taken[k].lap = ReaderLap + 1 /\ taken[k].at \in Nat
      OBVIOUS
    <3>1. taken[k].lap >= taken[o].lap
      <4>1. o \in 1 .. Len(taken) /\ k \in 1 .. Len(taken) /\ taken[o].lap \in Nat /\ taken[k].lap \in Nat
        <5>1. o \in 1 .. Len(taken) /\ k \in 1 .. Len(taken)
          BY <2>1
        <5> QED BY <5>1, PacketNumbers
      <4>2. CASE k = o
        BY <4>1, <4>2
      <4>3. CASE o < k
        BY <4>1, <4>3, InOrder
      <4> QED BY <2>1, <4>2, <4>3
    <3>2. taken[k].lap = ReaderLap \/ taken[k].lap = ReaderLap + 1
      BY DEF IInv, Apart
    <3>3. taken[k].at \in Nat /\ taken[k].lap \in Nat /\ ReaderLap \in Nat
      <4>1. k \in 1 .. Len(taken)
        BY <2>1, Numbers
      <4> QED BY <4>1, PacketNumbers, Numbers
    <3> QED BY <1>5, <3>1, <3>2, <3>3
  <2>10. Apart'
    BY <1>1, <2>3, <2>4, <2>8, <2>9 DEF Apart
  <2>11. \A k : (Headed(k)' <=> Headed(k)) /\ (Payload(k)' <=> Payload(k))
    BY <1>1, <2>3 DEF Headed, Payload
  <2>12. \A k \in o .. Len(taken) : taken[k].lap # ReaderLap' + 1
    BY <2>8, <2>9, Numbers
  <2>13. Intact'
    BY <1>1, <1>3, <2>4, <2>11, <2>12 DEF IInv, Intact
  <2> QED BY <2>5, <2>6, <2>7, <2>10, <2>13 DEF IInv
<1> QED BY <1>1, <1>4, <1>5, HeaderThere

LEMMA UseStep == ASSUME IInv, Use PROVE IInv'
<1> USE DEF writerVars
<1> DEFINE o == Oldest
           p == taken[o]
<1>1. rpc = "use" /\ UNCHANGED <<use, ring, sem, writerVars>>
  BY DEF Use
<1>2. /\ ring.last > 0 /\ o = Len(out) + 1 /\ CountedOut = Len(out)
      /\ o <= Complete /\ o \in 1 .. Len(taken) /\ Complete \in Nat /\ Complete <= Len(taken)
      /\ ring.rp = p.at /\ ring.last = p.len
      /\ Len(seen) <= ring.last /\ \A k \in DOMAIN seen : seen[k] = Unit(p.id)
  BY <1>1, Numbers DEF Oldest, CountedOut, IInv, ReaderAt, Complete
<1>3. /\ Complete' = Complete /\ CountedIn' = CountedIn /\ Posted' = Posted
      /\ \A k : End(k)' = End(k)
  BY <1>1 DEF Complete, CountedIn, Made, Posted, End
<1>4. Payload(o) /\ p \in Packets
  BY <1>2, PacketNumbers DEF IInv, Intact
<1>5. CASE Len(seen) < ring.last
  <2>1. /\ seen' = Append(seen, ring.mem[ring.rp + Len(seen) + 1])
        /\ UNCHANGED <<rpc, out>>
    BY <1>5 DEF Use
  <2>2. Len(seen) \in Nat /\ seen \in Seq(Units)
    BY DEF IInv, Types
  <2>3. ring.mem[ring.rp + Len(seen) + 1] = Unit(p.id)
    <3>1. p.at \in Nat /\ p.len \in Nat
      BY <1>2, Numbers
    <3>2. ring.rp + Len(seen) + 1 \in p.at + 1 .. p.at + p.len
      BY <1>2, <1>5, <2>2, <3>1
    <3> QED BY <1>4, <3>2 DEF Payload
  <2>4. Unit(p.id) \in Units
    BY <1>4 DEF Unit, Units, Packets
  <2>5. /\ seen' \in Seq(Units) /\ Len(seen') = Len(seen) + 1
        /\ \A k \in DOMAIN seen' : seen'[k] = Unit(p.id)
    BY <1>2, <2>1, <2>2, <2>3, <2>4
  <2>6. Oldest' = o /\ CountedOut' = CountedOut
    BY <1>1, <2>1 DEF Oldest, CountedOut
  <2>7. Laid' /\ WriterAt' /\ Apart' /\ Intact'
    BY <1>1, <2>6, ReaderKeeps
  <2>8. Types'
    BY <1>1, <2>1, <2>5 DEF IInv, Types
  <2>9. ReaderAt'
    <3>1. Len(seen') <= ring.last
      BY <1>2, <1>5, <2>2, <2>5, Numbers
    <3> QED BY <1>1, <1>2, <1>3, <2>1, <2>5, <2>6, <3>1 DEF IInv, ReaderAt
  <2>10. Counted' /\ Signalled'
    BY <1>1, <1>3, <2>1, <2>6 DEF IInv, Counted, Signalled
  <2> QED BY <2>7, <2>8, <2>9, <2>10 DEF IInv
<1>6. CASE ~ (Len(seen) < ring.last)
  <2>1. Len(seen) = p.len /\ p.len \in Nat \ {0} /\ seen \in Seq(Units)
    <3>1. p.len \in Nat \ {0} /\ Len(seen) \in Nat /\ seen \in Seq(Units)
      BY <1>2, Numbers DEF IInv, Types
    <3> QED BY <1>2, <1>6, <3>1
  <2>2. p.id \in 1 .. nPackets /\ seen[1] = Unit(p.id)
    <3>1. p.id <= packet.id /\ p.id \in Nat \ {0}
      BY <1>2, PacketNumbers DEF IInv, Laid
    <3>2. packet.id \in Nat
      BY DEF IInv, Types
    <3>3. 1 \in DOMAIN seen
      BY <2>1
    <3> QED BY <1>2, <3>1, <3>2, <3>3 DEF nPackets
  <2>3. out' = Append(out, p.id) /\ rpc' = "wait" /\ UNCHANGED seen
    BY <1>2, <1>6, <2>2 DEF Use, Unit
  <2>4. out \in Seq(Nat) /\ p.id \in Nat
    BY <1>4 DEF IInv, Types, Packets
  <2>5. /\ out' \in Seq(Nat) /\ Len(out') = Len(out) + 1
        /\ \A k \in DOMAIN out' : out'[k] = taken[k].id
    BY <1>2, <2>3, <2>4 DEF IInv, ReaderAt
  <2>6. Oldest' = o /\ CountedOut' = CountedOut
    BY <1>1, <1>2, <2>3, <2>4, <2>5 DEF Oldest, CountedOut
  <2>7. Laid' /\ WriterAt' /\ Apart' /\ Intact'
    BY <1>1, <2>6, ReaderKeeps
  <2>8. Types'
    BY <1>1, <2>3, <2>5 DEF IInv, Types
  <2>9. ReaderAt'
    <3>1. Len(out') <= Complete' /\ Len(out') > 0
      BY <1>2, <1>3, <2>5, Numbers
    <3> QED BY <1>1, <1>2, <1>3, <2>3, <2>5, <2>6, <3>1 DEF IInv, ReaderAt
  <2>10. Counted' /\ Signalled'
    BY <1>1, <1>3, <2>3, <2>4, <2>5, <2>6, Numbers DEF IInv, Counted, Signalled
  <2> QED BY <2>7, <2>8, <2>9, <2>10 DEF IInv
<1> QED BY <1>5, <1>6

(* What a step that lays no packet and leaves the reader's variables alone keeps. *)
LEMMA WriterKeeps ==
  ASSUME IInv, UNCHANGED <<use, readerVars, taken, packet>>, ring'.rp = ring.rp,
         ring'.last = ring.last, Complete' \in Int, Complete <= Complete'
  PROVE  /\ Laid' /\ ReaderAt' /\ Apart' /\ Oldest' = Oldest /\ ReaderLap' = ReaderLap
         /\ CountedOut' = CountedOut /\ \A k : End(k)' = End(k)
<1> USE DEF readerVars
<1>1. Oldest' = Oldest /\ CountedOut' = CountedOut /\ \A k : End(k)' = End(k)
  BY DEF Oldest, CountedOut, End
<1>2. ReaderLap' = ReaderLap
  BY <1>1 DEF ReaderLap
<1>3. Laid'
  BY <1>1 DEF IInv, Laid
<1>4. Apart'
  BY <1>1, <1>2 DEF IInv, Apart
<1>5. Len(out) <= Complete' /\ (Oldest <= Complete => Oldest <= Complete')
  <2>1. Len(out) <= Complete
    BY DEF IInv, ReaderAt
  <2>2. Len(out) \in Nat /\ Oldest \in Nat /\ Complete \in Int
    BY Numbers
  <2> QED BY <2>1, <2>2
<1>6. ReaderAt'
  BY <1>1, <1>5 DEF IInv, ReaderAt
<1> QED BY <1>1, <1>2, <1>3, <1>4, <1>6

(* The packet being written is apart from those that wait to be read, and from the
   padding the reader has still to meet. *)
LEMMA NewIsApart ==
  ASSUME IInv, Len(taken) > 0, NEW k \in Oldest .. Len(taken) - 1
  PROVE  End(k) <= taken[Len(taken)].at \/ End(Len(taken)) < taken[k].at
<1> DEFINE n == Len(taken)
<1>1. k \in 1 .. n /\ n \in 1 .. n /\ k < n /\ k \in Oldest .. n /\ n \in Oldest .. n
  BY Index
<1>2. taken[k].lap <= taken[n].lap /\ (taken[k].lap = taken[n].lap => End(k) <= taken[n].at)
  BY <1>1, InOrder
<1>3. \/ taken[k].lap = ReaderLap /\ ring.rp <= taken[k].at
      \/ taken[k].lap = ReaderLap + 1 /\ End(k) < ring.rp
  BY <1>1, OutOfTheWay
<1>4. \/ taken[n].lap = ReaderLap /\ ring.rp <= taken[n].at
      \/ taken[n].lap = ReaderLap + 1 /\ End(n) < ring.rp
  BY <1>1, OutOfTheWay
<1>5. ReaderLap \in Nat /\ ring.rp \in Nat
  BY Numbers
<1>6. taken[k].at \in Nat /\ End(n) \in Nat
  BY <1>1, PacketNumbers
<1> QED BY <1>2, <1>3, <1>4, <1>5, <1>6

LEMMA PaddingIsApart ==
  ASSUME IInv, NEW k \in Oldest .. Len(taken), NEW j \in 1 .. Len(taken), k = j + 1,
         taken[k].lap = ReaderLap + 1, taken[j].lap = ReaderLap
  PROVE  End(Len(taken)) < End(j) /\ taken[Len(taken)].lap = ReaderLap + 1
<1> DEFINE n == Len(taken)
<1>1. k \in 1 .. n /\ n \in 1 .. n /\ n \in Oldest .. n /\ ReaderLap \in Nat /\ ring.rp \in Nat
  <2>1. k \in 1 .. n /\ n \in 1 .. n /\ n \in Oldest .. n
    BY Index
  <2> QED BY <2>1, Numbers
<1>2. taken[n].lap >= taken[k].lap
  <2>1. taken[k].lap \in Nat
    BY <1>1, PacketNumbers
  <2>2. CASE k = n
    BY <2>1, <2>2
  <2>3. CASE k < n
    BY <1>1, <2>3, InOrder
  <2> QED BY <1>1, <2>2, <2>3
<1>3. \/ taken[n].lap = ReaderLap /\ ring.rp <= taken[n].at
      \/ taken[n].lap = ReaderLap + 1 /\ End(n) < ring.rp
  BY <1>1, OutOfTheWay
<1>4. taken[n].lap = ReaderLap + 1 /\ End(n) < ring.rp
  BY <1>1, <1>2, <1>3
<1>5. End(n) \in Nat /\ End(j) \in Nat /\ taken[j].at \in Nat /\ taken[j].at < End(j)
  BY <1>1, PacketNumbers
<1>6. CASE j \in Oldest .. n
  <2>1. \/ taken[j].lap = ReaderLap /\ ring.rp <= taken[j].at
        \/ taken[j].lap = ReaderLap + 1 /\ End(j) < ring.rp
    BY <1>6, OutOfTheWay
  <2>2. ring.rp <= taken[j].at
    BY <1>1, <2>1
  <2> QED BY <1>1, <1>4, <1>5, <2>2
<1>7. CASE k = Oldest
  <2>1. Oldest <= n /\ Oldest - 1 = j /\ taken[Oldest].lap # ReaderLap
    BY <1>1, <1>7
  <2>2. ring.rp # taken[Oldest].at
    BY <2>1 DEF ReaderLap
  <2>3. ring.rp = End(j)
    BY <2>1, <2>2 DEF IInv, ReaderAt
  <2> QED BY <1>4, <2>3
<1> QED BY <1>1, <1>6, <1>7, Numbers

LEMMA PadStep == ASSUME IInv, Pad PROVE IInv'
<1> USE DEF Pad, readerVars
<1> DEFINE n == Len(taken)
<1>1. /\ ring' = [ring EXCEPT !.mem[ring.wp] = Q!Padding]
      /\ n > 1 /\ taken[n].lap = taken[n - 1].lap + 1 /\ taken[n].at = 0 /\ ring.wp = End(n - 1)
  BY DEF IInv, WriterAt
<1>2. /\ ring'.rp = ring.rp /\ ring'.wp = ring.wp /\ ring'.count = ring.count
      /\ ring'.last = ring.last
      /\ ring'.mem = [ring.mem EXCEPT ![ring.wp] = Q!Padding]
  BY <1>1, RingIn DEF Rings
<1>3. /\ Complete' = Complete /\ CountedIn' = CountedIn /\ Posted' = Posted
      /\ Complete = n - 1
  BY DEF Complete, CountedIn, Made, Posted
<1>4. /\ Laid' /\ ReaderAt' /\ Apart' /\ Oldest' = Oldest /\ ReaderLap' = ReaderLap
      /\ CountedOut' = CountedOut /\ \A k : End(k)' = End(k)
  BY <1>2, <1>3, WriterKeeps, Numbers
<1>5. Types'
  <2>1. ring' \in Rings
    <3>1. Q!Padding \in Units /\ ring.mem \in [Q!Places -> Units]
      BY RingIn, RingNumbers DEF Units
    <3>2. [ring.mem EXCEPT ![ring.wp] = Q!Padding] \in [Q!Places -> Units]
      BY <3>1
    <3> QED BY <1>1, <3>2, RingIn DEF Rings
  <2> QED BY <2>1 DEF IInv, Types
<1>6. WriterAt'
  BY <1>1, <1>2, <1>4 DEF IInv, WriterAt, Made, ToMake
<1>7. Counted' /\ Signalled'
  BY <1>2, <1>3, <1>4 DEF IInv, Counted, Signalled
<1>8. ReaderLap \in Nat /\ Oldest \in Nat /\ 1 <= Oldest /\ n \in 1 .. n /\ n - 1 \in 1 .. n
  <2>1. ReaderLap \in Nat /\ Oldest \in Nat /\ 1 <= Oldest /\ n \in Nat
    BY Numbers
  <2>2. n > 1
    BY <1>1
  <2> QED BY <2>1, <2>2
<1>9. ASSUME NEW k \in Oldest .. n - 1
      PROVE  taken[k].lap = ReaderLap /\ End(k) <= ring.wp
  <2>1. k \in 1 .. n /\ k \in Oldest .. n /\ n - 1 \in Oldest .. n /\ n \in Oldest .. n
    BY <1>8
  <2>2. taken[n].lap = ReaderLap \/ taken[n].lap = ReaderLap + 1
    BY <2>1, OutOfTheWay
  <2>3. taken[n - 1].lap = ReaderLap \/ taken[n - 1].lap = ReaderLap + 1
    BY <2>1, OutOfTheWay
  <2>4. taken[k].lap = ReaderLap \/ taken[k].lap = ReaderLap + 1
    BY <2>1, OutOfTheWay
  <2>5. taken[n - 1].lap = ReaderLap
    BY <1>1, <1>8, <2>2, <2>3
  <2>6. taken[n - 1].at < End(n - 1) /\ taken[n - 1].at \in Nat /\ End(n - 1) \in Nat /\ End(k) \in Nat
    BY <1>8, <2>1, PacketNumbers
  <2>7. CASE k = n - 1
    BY <1>1, <2>5, <2>6, <2>7
  <2>8. CASE k < n - 1
    <3>1. taken[k].lap <= taken[n - 1].lap /\ (taken[k].lap = taken[n - 1].lap => End(k) <= taken[n - 1].at)
      BY <1>8, <2>1, <2>8, InOrder
    <3> QED BY <1>1, <1>8, <2>4, <2>5, <2>6, <3>1
  <2> QED BY <2>1, <2>7, <2>8, Numbers
<1>10. ASSUME NEW k \in Oldest .. n - 1
       PROVE  Headed(k)' /\ Payload(k)'
  <2>1. Headed(k) /\ Payload(k)
    BY <1>3 DEF IInv, Intact
  <2>2. k \in 1 .. n
    BY <1>8, Index
  <2>3. /\ taken[k].at \in Nat /\ End(k) = taken[k].at + taken[k].len + 1 /\ taken[k].at < End(k)
        /\ taken[k].len \in Nat /\ ring.wp \in Nat
    BY <2>2, PacketNumbers, Numbers
  <2>4. ring.wp \notin taken[k].at .. taken[k].at + taken[k].len
    BY <1>9, <2>3
  <2>5. /\ ring'.mem[taken[k].at] = ring.mem[taken[k].at]
        /\ \A u \in taken[k].at + 1 .. taken[k].at + taken[k].len : ring'.mem[u] = ring.mem[u]
    <3>1. ring.mem \in [Q!Places -> Units]
      BY RingIn, RingNumbers
    <3>2. \A u : u # ring.wp => ring'.mem[u] = ring.mem[u]
      BY <1>2, <3>1
    <3>3. taken[k].at # ring.wp
      BY <2>3, <2>4
    <3>4. \A u \in taken[k].at + 1 .. taken[k].at + taken[k].len : u # ring.wp
      BY <2>3, <2>4
    <3> QED BY <3>2, <3>3, <3>4
  <2> QED BY <2>1, <2>5 DEF Headed, Payload
<1>11. Intact'
  <2> SUFFICES ASSUME NEW k \in Oldest .. n, k > 1, taken[k].lap = ReaderLap + 1,
                      taken[k - 1].lap = ReaderLap
               PROVE  ring'.mem[End(k - 1)] = Q!Padding
    BY <1>3, <1>4, <1>10 DEF Intact
  <2>1. k = n
    <3>1. CASE k \in Oldest .. n - 1
      BY <1>8, <1>9, <3>1
    <3> QED BY <1>8, <3>1
  <2>2. ring.wp \in Q!Places /\ ring.mem \in [Q!Places -> Units]
    BY RingIn DEF Rings
  <2> QED BY <1>1, <1>2, <2>1, <2>2
<1> QED BY <1>4, <1>5, <1>6, <1>7, <1>11 DEF IInv

LEMMA WrapStep == ASSUME IInv, Wrap PROVE IInv'
<1> USE DEF Wrap, readerVars
<1>1. /\ ring'.rp = ring.rp /\ ring'.wp = 0 /\ ring'.count = ring.count
      /\ ring'.last = ring.last /\ ring'.mem = ring.mem
  BY RingIn DEF Rings
<1>2. Complete' = Complete /\ CountedIn' = CountedIn /\ Posted' = Posted
  BY DEF Complete, CountedIn, Made, Posted
<1>3. /\ Laid' /\ ReaderAt' /\ Apart' /\ Oldest' = Oldest /\ ReaderLap' = ReaderLap
      /\ CountedOut' = CountedOut /\ \A k : End(k)' = End(k)
  BY <1>1, <1>2, WriterKeeps, Numbers
<1>4. Types'
  <2>1. ring' \in Rings
    BY RingIn DEF Rings, Q!Places
  <2> QED BY <2>1 DEF IInv, Types
<1>5. WriterAt'
  BY <1>1, <1>3 DEF IInv, WriterAt, Made, ToMake
<1>6. Counted' /\ Signalled'
  BY <1>1, <1>2, <1>3 DEF IInv, Counted, Signalled
<1>7. \A k : (Headed(k)' <=> Headed(k)) /\ (Payload(k)' <=> Payload(k))
  BY <1>1 DEF Headed, Payload
<1>8. Intact'
  BY <1>1, <1>2, <1>3, <1>7 DEF IInv, Intact
<1> QED BY <1>3, <1>4, <1>5, <1>6, <1>8 DEF IInv

(* A step that writes only into the place of the new packet leaves what the reader
   has still to read. *)
LEMMA OthersIntact ==
  ASSUME IInv, UNCHANGED taken, Len(taken) > 0, Complete = Len(taken) - 1, wpc # "pad",
         \A k : End(k)' = End(k), Oldest' = Oldest, ReaderLap' = ReaderLap,
         \A u \in Q!Places :
           (u < taken[Len(taken)].at \/ End(Len(taken)) <= u) => ring'.mem[u] = ring.mem[u]
  PROVE  /\ \A k \in Oldest .. Len(taken) - 1 : Headed(k)' /\ Payload(k)'
         /\ \A k \in Oldest .. Len(taken) :
              k > 1 /\ taken[k].lap = ReaderLap + 1 /\ taken[k - 1].lap = ReaderLap
                => ring'.mem[End(k - 1)] = Q!Padding
<1> DEFINE n == Len(taken)
<1>1. n \in Nat /\ n \in 1 .. n /\ Oldest \in Nat /\ 1 <= Oldest
  <2>1. n \in Nat /\ Oldest \in Nat /\ 1 <= Oldest
    BY Numbers
  <2> QED BY <2>1
<1>2. taken[n].at \in Nat /\ End(n) \in Nat /\ taken[n].at < End(n)
  BY <1>1, PacketNumbers
<1>3. ASSUME NEW k \in Oldest .. n - 1
      PROVE  Headed(k)' /\ Payload(k)'
  <2>1. Headed(k) /\ Payload(k)
    BY <1>3 DEF IInv, Intact
  <2>2. k \in 1 .. n
    BY <1>1
  <2>3. /\ taken[k].at \in Nat /\ End(k) = taken[k].at + taken[k].len + 1
        /\ taken[k].len \in Nat /\ End(k) < Size
    BY <2>2, PacketNumbers
  <2>4. End(k) <= taken[n].at \/ End(n) < taken[k].at
    BY <1>1, NewIsApart
  <2>5. ASSUME NEW u \in taken[k].at .. taken[k].at + taken[k].len
        PROVE  ring'.mem[u] = ring.mem[u]
    <3>1. u \in Q!Places
      BY <2>3 DEF Q!Places
    <3>2. u < taken[n].at \/ End(n) <= u
      BY <1>2, <2>3, <2>4
    <3> QED BY <3>1, <3>2
  <2>6. ring'.mem[taken[k].at] = ring.mem[taken[k].at]
    BY <2>3, <2>5
  <2>7. \A u \in taken[k].at + 1 .. taken[k].at + taken[k].len : ring'.mem[u] = ring.mem[u]
    BY <2>3, <2>5
  <2> QED BY <2>1, <2>6, <2>7 DEF Headed, Payload
<1>4. ASSUME NEW k \in Oldest .. n, k > 1, taken[k].lap = ReaderLap + 1, taken[k - 1].lap = ReaderLap
      PROVE  ring'.mem[End(k - 1)] = Q!Padding
  <2>1. PICK j \in 1 .. n : j = k - 1
    BY <1>1, <1>4
  <2>2. k = j + 1
    BY <1>1, <2>1
  <2>3. End(n) < End(j)
    BY <1>4, <2>1, <2>2, PaddingIsApart
  <2>4. End(j) \in Q!Places /\ End(n) <= End(j)
    <3>1. End(j) \in Nat /\ End(j) < Size
      BY PacketNumbers
    <3> QED BY <1>2, <2>3, <3>1 DEF Q!Places
  <2>5. ring.mem[End(k - 1)] = Q!Padding
    BY <1>4 DEF IInv, Intact
  <2> QED BY <2>1, <2>4, <2>5
<1> QED BY <1>3, <1>4

LEMMA CopyStep == ASSUME IInv, Copy PROVE IInv'
<1> DEFINE n == Len(taken)
           p == taken[n]
<1> USE DEF readerVars
<1>1. /\ wpc = "copy" /\ wpc' = "finish" /\ stores' = {"header", "wp", "count"}
      /\ UNCHANGED <<use, sem, packet, taken, readerVars>>
      /\ n > 0 /\ packet.id = p.id /\ packet.len = p.len /\ ring.wp = p.at
  BY DEF Copy, IInv, WriterAt
<1>2. /\ n \in 1 .. n /\ p.at \in Nat /\ p.len \in Nat /\ End(n) = p.at + p.len + 1
      /\ p.id \in Nat
  <2>1. n \in Nat
    BY Numbers
  <2>2. n \in 1 .. n
    BY <1>1, <2>1
  <2> QED BY <2>2, PacketNumbers
<1>3. /\ ring' = [ring EXCEPT !.mem = [k \in Q!Places |->
                    IF k \in ring.wp + 1 .. ring.wp + packet.len THEN Unit(packet.id) ELSE @[k]]]
      /\ ring'.mem = [k \in Q!Places |->
                    IF k \in p.at + 1 .. p.at + p.len THEN Unit(p.id) ELSE ring.mem[k]]
  BY <1>1, RingIn DEF Copy, Rings
<1>4. /\ ring'.rp = ring.rp /\ ring'.wp = ring.wp /\ ring'.count = ring.count
      /\ ring'.last = ring.last
  BY <1>3, RingIn DEF Rings
<1>5. /\ Complete' = Complete /\ CountedIn' = CountedIn /\ Posted' = Posted
      /\ Complete = n - 1
  BY <1>1 DEF Complete, CountedIn, Made, Posted
<1>6. /\ Laid' /\ ReaderAt' /\ Apart' /\ Oldest' = Oldest /\ ReaderLap' = ReaderLap
      /\ CountedOut' = CountedOut /\ \A k : End(k)' = End(k)
  BY <1>1, <1>4, <1>5, WriterKeeps, Numbers
<1>7. Types'
  <2>1. Unit(p.id) \in Units
    BY <1>2 DEF Unit, Units
  <2>2. ring.mem \in [Q!Places -> Units]
    BY RingIn, RingNumbers
  <2>3. ring'.mem \in [Q!Places -> Units]
    BY <1>3, <2>1, <2>2
  <2>4. ring' = [ring EXCEPT !.mem = ring'.mem]
    BY <1>3, RingIn DEF Rings
  <2>5. ring' \in Rings
    BY <2>3, <2>4, RingIn DEF Rings
  <2> QED BY <1>1, <2>5 DEF IInv, Types
<1>8. WriterAt'
  BY <1>1, <1>4, <1>6 DEF IInv, WriterAt, Made, ToMake
<1>9. Counted' /\ Signalled'
  BY <1>1, <1>4, <1>5, <1>6 DEF IInv, Counted, Signalled
<1>10. \A u \in Q!Places : (u < p.at \/ End(n) <= u) => ring'.mem[u] = ring.mem[u]
  <2> SUFFICES ASSUME NEW u \in Q!Places, u < p.at \/ End(n) <= u
               PROVE  ring'.mem[u] = ring.mem[u]
    OBVIOUS
  <2>1. u \in Int
    BY DEF Q!Places
  <2>2. u \notin p.at + 1 .. p.at + p.len
    BY <1>2, <2>1
  <2> QED BY <1>3, <2>2
<1>11. /\ \A k \in Oldest .. n - 1 : Headed(k)' /\ Payload(k)'
       /\ \A k \in Oldest .. n :
            k > 1 /\ taken[k].lap = ReaderLap + 1 /\ taken[k - 1].lap = ReaderLap
              => ring'.mem[End(k - 1)] = Q!Padding
  BY <1>1, <1>5, <1>6, <1>10, OthersIntact
<1>12. Payload(n)'
  <2> SUFFICES ASSUME NEW u \in p.at + 1 .. p.at + p.len
               PROVE  ring'.mem[u] = Unit(p.id)
    BY <1>1 DEF Payload
  <2>1. End(n) < Size
    BY <1>2, PacketNumbers
  <2>2. u \in Q!Places
    BY <1>2, <2>1 DEF Q!Places
  <2> QED BY <1>3, <2>2
<1>13. Intact'
  BY <1>1, <1>5, <1>6, <1>11, <1>12 DEF Intact
<1> QED BY <1>6, <1>7, <1>8, <1>9, <1>13 DEF IInv

LEMMA PostStep == ASSUME IInv, Post PROVE IInv'
<1> USE DEF Post, readerVars
<1>1. Complete' = Complete /\ CountedIn' = CountedIn /\ Posted' = Posted + 1
  BY Numbers DEF Complete, CountedIn, Made, Posted
<1>2. /\ Laid' /\ ReaderAt' /\ Apart' /\ Oldest' = Oldest /\ ReaderLap' = ReaderLap
      /\ CountedOut' = CountedOut /\ \A k : End(k)' = End(k)
  BY <1>1, WriterKeeps, Numbers
<1>3. Types'
  BY Numbers DEF IInv, Types
<1>4. WriterAt'
  BY <1>2 DEF IInv, WriterAt, Made, ToMake
<1>5. Counted'
  BY <1>1, <1>2 DEF IInv, Counted
<1>6. Signalled'
  <2> SUFFICES ASSUME use = "send"
               PROVE  sem + 1 + Len(out) + (IF rpc = "wait" THEN 0 ELSE 1) = Posted + 1
    BY <1>1 DEF IInv, Signalled
  <2>1. sem + Len(out) + (IF rpc = "wait" THEN 0 ELSE 1) = Posted
    BY DEF IInv, Signalled
  <2>2. sem \in Nat /\ Len(out) \in Nat
    BY Numbers
  <2> QED BY <2>1, <2>2
<1>7. \A k : (Headed(k)' <=> Headed(k)) /\ (Payload(k)' <=> Payload(k))
  BY DEF Headed, Payload
<1>8. Intact'
  BY <1>1, <1>2, <1>7 DEF IInv, Intact
<1> QED BY <1>2, <1>3, <1>4, <1>5, <1>6, <1>8 DEF IInv

(* What the three stores of QueueWriteDataFinished change. *)
LEMMA StoreChanges ==
  ASSUME IInv, WriteDataFinished
  PROVE  LET n == Len(taken) IN
         \E s \in stores :
           /\ s \in {"header", "wp", "count"} /\ stores' = stores \ {s}
           /\ ring' \in Rings /\ ring'.rp = ring.rp /\ ring'.last = ring.last
           /\ ring'.wp = IF s = "wp" THEN End(n) ELSE ring.wp
           /\ ring'.count = IF s = "count" THEN ring.count + 1 ELSE ring.count
           /\ ring'.mem = IF s = "header"
                          THEN [ring.mem EXCEPT ![taken[n].at] = Q!Header(taken[n].id, taken[n].len)]
                          ELSE ring.mem
           /\ use = "recv" /\ s = "count" => stores' = {}
<1> DEFINE n == Len(taken)
           p == taken[n]
<1>1. wpc = "finish" /\ n > 0 /\ packet.id = p.id /\ packet.len = p.len
  BY DEF WriteDataFinished, IInv, WriterAt
<1>2. /\ n \in 1 .. n /\ p.at \in Nat /\ p.len \in Nat \ {0} /\ End(n) = p.at + p.len + 1
      /\ End(n) \in Nat /\ End(n) < Size /\ p.id \in Nat /\ ring.wp \in Nat
  <2>1. n \in Nat /\ ring.wp \in Nat
    BY Numbers
  <2>2. n \in 1 .. n
    BY <1>1, <2>1
  <2> QED BY <2>1, <2>2, PacketNumbers
<1>3. PICK s \in NextStores : Store(s) /\ stores' = stores \ {s}
  BY DEF WriteDataFinished
<1>4. s \in stores /\ s \in {"header", "wp", "count"} /\ (use = "recv" /\ s = "count" => stores' = {})
  <2>1. stores \subseteq {"header", "wp", "count"}
    BY DEF IInv, Types
  <2>2. NextStores \subseteq stores
    BY DEF NextStores
  <2>3. use = "recv" /\ s = "count" => "header" \notin stores /\ "wp" \notin stores
    BY <1>3 DEF NextStores
  <2> QED BY <1>3, <2>1, <2>2, <2>3
<1>5. (IF "wp" \in stores THEN ring.wp ELSE ring.wp - packet.len - 1) = p.at
  <2>1. CASE "wp" \in stores
    BY <1>1, <2>1 DEF IInv, WriterAt, ToMake
  <2>2. CASE "wp" \notin stores
    <3>1. ring.wp = End(n)
      BY <1>1, <1>2, <2>2 DEF IInv, WriterAt, Made
    <3> QED BY <1>1, <1>2, <2>2, <3>1
  <2> QED BY <2>1, <2>2
<1>6. CASE s = "header"
  <2>1. ring' = [ring EXCEPT !.mem[p.at] = Q!Header(p.id, p.len)]
    BY <1>1, <1>3, <1>5, <1>6 DEF Store
  <2>2. Q!Header(p.id, p.len) \in Units
    BY <1>2 DEF Q!Header, Units
  <2>3. ring.mem \in [Q!Places -> Units] /\ [ring.mem EXCEPT ![p.at] = Q!Header(p.id, p.len)] \in [Q!Places -> Units]
    BY <2>2, RingIn, RingNumbers
  <2>4. ring' = [ring EXCEPT !.mem = [ring.mem EXCEPT ![p.at] = Q!Header(p.id, p.len)]]
    BY <2>1
  <2>5. ring' \in Rings
    BY <2>3, <2>4, RingIn DEF Rings
  <2>6. /\ ring'.rp = ring.rp /\ ring'.last = ring.last /\ ring'.wp = ring.wp /\ ring'.count = ring.count
        /\ ring'.mem = [ring.mem EXCEPT ![p.at] = Q!Header(p.id, p.len)]
    BY <2>4, RingIn DEF Rings
  <2> QED BY <1>3, <1>4, <1>6, <2>5, <2>6
<1>7. CASE s = "wp"
  <2>1. ring.wp + packet.len + 1 = End(n)
    <3>1. ring.wp = p.at
      BY <1>4, <1>5, <1>7
    <3> QED BY <1>1, <1>2, <3>1
  <2>2. ring' = [ring EXCEPT !.wp = End(n)]
    BY <1>3, <1>7, <2>1 DEF Store
  <2>3. End(n) \in Q!Places
    BY <1>2 DEF Q!Places
  <2>4. /\ ring' \in Rings /\ ring'.rp = ring.rp /\ ring'.last = ring.last
        /\ ring'.wp = End(n) /\ ring'.count = ring.count /\ ring'.mem = ring.mem
    BY <2>2, <2>3, RingIn DEF Rings
  <2> QED BY <1>3, <1>4, <1>7, <2>4
<1>8. CASE s = "count"
  <2>1. ring' = [ring EXCEPT !.count = ring.count + 1]
    BY <1>3, <1>8 DEF Store
  <2>2. ring.count + 1 \in Int
    BY Numbers
  <2>3. /\ ring' \in Rings /\ ring'.rp = ring.rp /\ ring'.last = ring.last
        /\ ring'.wp = ring.wp /\ ring'.count = ring.count + 1 /\ ring'.mem = ring.mem
    BY <2>1, <2>2, RingIn DEF Rings
  <2> QED BY <1>3, <1>4, <1>8, <2>3
<1> QED BY <1>4, <1>6, <1>7, <1>8

LEMMA FinishStep == ASSUME IInv, WriteDataFinished PROVE IInv'
<1> DEFINE n == Len(taken)
           p == taken[n]
<1> USE DEF readerVars
<1>1. /\ wpc = "finish" /\ wpc' = (IF stores' = {} THEN "post" ELSE "finish")
      /\ UNCHANGED <<use, sem, packet, taken, readerVars>>
      /\ n > 0 /\ packet = [id |-> p.id, len |-> p.len]
  BY DEF WriteDataFinished, IInv, WriterAt
<1>2. PICK s \in stores :
           /\ s \in {"header", "wp", "count"} /\ stores' = stores \ {s}
           /\ ring' \in Rings /\ ring'.rp = ring.rp /\ ring'.last = ring.last
           /\ ring'.wp = IF s = "wp" THEN End(n) ELSE ring.wp
           /\ ring'.count = IF s = "count" THEN ring.count + 1 ELSE ring.count
           /\ ring'.mem = IF s = "header"
                          THEN [ring.mem EXCEPT ![p.at] = Q!Header(p.id, p.len)]
                          ELSE ring.mem
           /\ use = "recv" /\ s = "count" => stores' = {}
  BY StoreChanges
<1>3. stores \subseteq {"header", "wp", "count"} /\ stores' \subseteq {"header", "wp", "count"}
  BY <1>2 DEF IInv, Types
<1>4. /\ n \in Nat /\ n \in 1 .. n /\ p.at \in Nat /\ p.len \in Nat \ {0} /\ End(n) = p.at + p.len + 1
      /\ End(n) < Size /\ p.at < End(n)
  <2>1. n \in Nat
    BY Numbers
  <2>2. n \in 1 .. n
    BY <1>1, <2>1
  <2> QED BY <2>1, <2>2, PacketNumbers
<1>5. Complete = n - 1 /\ Posted' = Posted
  BY <1>1 DEF Complete, Posted
<1>6. Complete' = IF stores' = {} THEN n ELSE n - 1
  BY <1>1 DEF Complete
<1>7. CountedIn' = IF s = "count" THEN CountedIn + 1 ELSE CountedIn
  <2>1. CountedIn = IF "count" \in stores THEN n - 1 ELSE n
    BY <1>1 DEF CountedIn, Made
  <2>2. CountedIn' = IF "count" \in stores' THEN n - 1 ELSE n
    BY <1>1 DEF CountedIn, Made
  <2> QED BY <1>2, <1>4, <2>1, <2>2
<1>8. /\ Laid' /\ ReaderAt' /\ Apart' /\ Oldest' = Oldest /\ ReaderLap' = ReaderLap
      /\ CountedOut' = CountedOut /\ \A k : End(k)' = End(k)
  <2>1. Complete' \in Int /\ Complete <= Complete'
    BY <1>4, <1>5, <1>6
  <2> QED BY <1>1, <1>2, <2>1, WriterKeeps
<1>9. Types'
  BY <1>1, <1>2, <1>3 DEF IInv, Types
<1>10. WriterAt'
  <2>1. ring.wp = IF "wp" \in stores THEN p.at ELSE End(n)
    BY <1>1, <1>4 DEF IInv, WriterAt, Made, ToMake
  <2>2. ring'.wp = IF "wp" \in stores' THEN p.at ELSE End(n)
    BY <1>2, <2>1
  <2>3. use = "recv" /\ stores' # {} => "count" \in stores'
    <3>1. use = "recv" => "count" \in stores
      BY <1>1 DEF IInv, WriterAt
    <3> QED BY <1>2, <3>1
  <2> QED BY <1>1, <1>4, <1>8, <2>2, <2>3 DEF WriterAt, Made, ToMake
<1>11. Counted' /\ Signalled'
  <2>1. Counted'
    BY <1>2, <1>7, <1>8, Numbers DEF IInv, Counted
  <2>2. Signalled'
    BY <1>1, <1>5 DEF IInv, Signalled
  <2> QED BY <2>1, <2>2
<1>12. ring.mem \in [Q!Places -> Units] /\ p.at \in Q!Places
  BY <1>4, RingIn, RingNumbers DEF Q!Places
<1>13. \A u \in Q!Places : (u < p.at \/ End(n) <= u) => ring'.mem[u] = ring.mem[u]
  <2> SUFFICES ASSUME NEW u \in Q!Places, u < p.at \/ End(n) <= u
               PROVE  ring'.mem[u] = ring.mem[u]
    OBVIOUS
  <2>1. u # p.at
    BY <1>4 DEF Q!Places
  <2> QED BY <1>2, <1>12, <2>1
<1>14. /\ \A k \in Oldest .. n - 1 : Headed(k)' /\ Payload(k)'
       /\ \A k \in Oldest .. n :
            k > 1 /\ taken[k].lap = ReaderLap + 1 /\ taken[k - 1].lap = ReaderLap
              => ring'.mem[End(k - 1)] = Q!Padding
  BY <1>1, <1>5, <1>8, <1>13, OthersIntact
<1>15. Payload(n)'
  <2>1. Payload(n)
    BY <1>1 DEF IInv, Intact
  <2> SUFFICES ASSUME NEW u \in p.at + 1 .. p.at + p.len
               PROVE  ring'.mem[u] = Unit(p.id)
    BY <1>1 DEF Payload
  <2>2. u # p.at /\ ring.mem[u] = Unit(p.id)
    BY <1>4, <2>1 DEF Payload
  <2>3. u \in Q!Places
    BY <1>4 DEF Q!Places
  <2> QED BY <1>2, <1>12, <2>2, <2>3
<1>16. "header" \notin stores' => Headed(n)'
  <2>1. CASE s = "header"
    BY <1>1, <1>2, <1>12, <2>1 DEF Headed
  <2>2. CASE s # "header" /\ "header" \notin stores'
    <3>1. Headed(n)
      BY <1>1, <1>2, <2>2 DEF IInv, Intact
    <3> QED BY <1>1, <1>2, <2>2, <3>1 DEF Headed
  <2> QED BY <2>1, <2>2
<1>17. \A k \in Oldest .. Complete' : Headed(k)' /\ Payload(k)'
  <2> SUFFICES ASSUME NEW k \in Oldest .. Complete'
               PROVE  Headed(k)' /\ Payload(k)'
    OBVIOUS
  <2>1. CASE k = n
    <3>1. stores' = {}
      BY <1>4, <1>6, <2>1
    <3>2. "header" \notin stores'
      BY <3>1
    <3>3. Headed(n)' /\ Payload(n)'
      BY <1>15, <1>16, <3>2
    <3> QED BY <1>1, <2>1, <3>3 DEF Headed, Payload
  <2>2. CASE k # n
    <3>1. k \in Oldest .. n - 1
      <4>1. Oldest \in Nat
        BY Numbers
      <4> QED BY <1>4, <1>6, <2>2, <4>1
    <3> QED BY <1>14, <3>1
  <2> QED BY <2>1, <2>2
<1>18. Intact'
  BY <1>1, <1>8, <1>14, <1>15, <1>16, <1>17 DEF Intact
<1> QED BY <1>8, <1>9, <1>10, <1>11, <1>18 DEF IInv


(* Between two packets the writer is in the reader's lap when it is not below the
   reader, and one ahead when it is. *)
LEMMA WriterLap ==
  ASSUME IInv, wpc = "idle"
  PROVE  /\ Lap \in Nat /\ ring.wp = (IF Len(taken) = 0 THEN 0 ELSE End(Len(taken)))
         /\ Len(taken) = 0 => ring.rp = 0 /\ Lap = 0
         /\ Len(taken) > 0 => Lap = taken[Len(taken)].lap
         /\ ring.wp >= ring.rp => Lap = ReaderLap
         /\ ring.wp < ring.rp => Lap = ReaderLap + 1
         /\ Oldest = Len(taken) + 1 => ring.rp = ring.wp
<1> DEFINE n == Len(taken)
<1>1. n \in Nat /\ Oldest \in 1 .. n + 1 /\ ring.rp \in Nat /\ ring.wp \in Nat /\ ReaderLap \in Nat
  BY Numbers
<1>2. ring.wp = IF n = 0 THEN 0 ELSE End(n)
  BY DEF IInv, WriterAt
<1>3. CASE n = 0
  <2>1. taken = <<>> /\ Oldest = 1
    BY <1>1, <1>3, EmptySeq DEF IInv, Types
  <2>2. ring.rp = 0 /\ ReaderLap = 0 /\ Lap = 0
    BY <1>3, <2>1 DEF IInv, ReaderAt, ReaderLap, Lap
  <2> QED BY <1>2, <1>3, <2>1, <2>2
<1>4. CASE n > 0
  <2>1. Lap = taken[n].lap
    <3>1. taken # <<>>
      BY <1>4
    <3> QED BY <3>1 DEF Lap
  <2>2. n \in 1 .. n
    BY <1>1, <1>4
  <2>3. Lap \in Nat /\ taken[n].at < End(n) /\ taken[n].at \in Nat /\ End(n) \in Nat
    BY <2>1, <2>2, PacketNumbers
  <2>4. CASE Oldest <= n
    <3>1. n \in Oldest .. n
      BY <1>1, <2>4
    <3>2. \/ taken[n].lap = ReaderLap /\ ring.rp <= taken[n].at
          \/ taken[n].lap = ReaderLap + 1 /\ End(n) < ring.rp
      BY <3>1, OutOfTheWay
    <3> QED BY <1>1, <1>2, <1>4, <2>1, <2>3, <2>4, <3>2
  <2>5. CASE Oldest = n + 1
    <3>1. ring.rp = End(n)
      BY <1>4, <2>5 DEF IInv, ReaderAt
    <3>2. ReaderLap = taken[n].lap
      <4>1. ~ (Oldest <= n) /\ Oldest # 1 /\ Oldest - 1 = n
        BY <1>1, <1>4, <2>5
      <4> QED BY <4>1 DEF ReaderLap
    <3> QED BY <1>1, <1>2, <1>4, <2>1, <2>3, <2>5, <3>1, <3>2
  <2> QED BY <1>1, <2>4, <2>5
<1> QED BY <1>1, <1>3, <1>4

(* A packet laid behind the last one, or at the start after a padding. *)
LEMMA LayStep ==
  ASSUME IInv, wpc = "idle", NEW q \in Packets, taken' = Append(taken, q),
         packet' = [id |-> q.id, len |-> q.len], q.id = packet.id + 1, q.id <= MaxPackets,
         q.at + q.len + 1 < Size, UNCHANGED <<use, ring, sem, stores, readerVars>>,
         \/ q.lap = ReaderLap /\ ring.rp <= q.at
         \/ q.lap = ReaderLap + 1 /\ q.at + q.len + 1 < ring.rp,
         \/ wpc' = "copy" /\ q.at = ring.wp /\ q.lap = Lap
         \/ wpc' = "pad" /\ q.at = 0 /\ q.lap = Lap + 1 /\ Len(taken) > 0 /\ ring.rp > 0
  PROVE  IInv'
<1> USE DEF readerVars
<1>1. PICK n \in Nat : n = Len(taken)
  BY Numbers
<1>2. /\ taken' \in Seq(Packets) /\ Len(taken') = n + 1 /\ taken'[n + 1] = q
      /\ \A k \in 1 .. n : taken'[k] = taken[k]
  BY <1>1 DEF IInv, Types
<1>3. Complete = n /\ CountedIn = n /\ Posted = n /\ Complete' = n /\ CountedIn' = n /\ Posted' = n
  BY <1>1, <1>2 DEF Complete, CountedIn, Made, Posted
<1>4. Oldest' = Oldest /\ CountedOut' = CountedOut
  BY DEF Oldest, CountedOut
<1>5. /\ \A k \in 1 .. n : End(k)' = End(k)
      /\ End(n + 1)' = q.at + q.len + 1
  BY <1>2 DEF End
<1>6. Oldest \in 1 .. n + 1 /\ ring.rp \in Nat /\ ring.wp \in Nat /\ ReaderLap \in Nat /\ Lap \in Nat
  BY <1>1, Numbers, WriterLap
<1>7. q.at \in Nat /\ q.len \in Nat \ {0} /\ q.lap \in Nat /\ q.id \in Nat
  BY DEF Packets
<1>8. /\ ring.wp = IF n = 0 THEN 0 ELSE End(n)
      /\ n = 0 => ring.rp = 0 /\ Lap = 0
      /\ n > 0 => Lap = taken[n].lap
      /\ Oldest = n + 1 => ring.rp = ring.wp
      /\ ring.wp >= ring.rp => Lap = ReaderLap
  BY <1>1, WriterLap
<1>9. n > 0 => /\ n \in 1 .. n /\ taken[n].at \in Nat /\ End(n) \in Nat /\ taken[n].at < End(n)
               /\ taken[n].lap \in Nat
  <2> SUFFICES ASSUME n > 0
               PROVE  /\ n \in 1 .. n /\ taken[n].at \in Nat /\ End(n) \in Nat
                      /\ taken[n].at < End(n) /\ taken[n].lap \in Nat
    OBVIOUS
  <2>1. n \in 1 .. n
    OBVIOUS
  <2> QED BY <1>1, <2>1, PacketNumbers
<1>10. ReaderLap' = ReaderLap
  <2>1. CASE Oldest <= n
    <3>1. /\ taken'[Oldest] = taken[Oldest] /\ (Oldest # 1 => taken'[Oldest - 1] = taken[Oldest - 1])
          /\ Oldest <= n + 1
      BY <1>2, <1>6, <2>1
    <3> QED BY <1>1, <1>2, <1>4, <2>1, <3>1 DEF ReaderLap
  <2>2. CASE Oldest = n + 1
    <3>1. ring.rp = ring.wp /\ Lap = ReaderLap
      BY <1>6, <1>8, <2>2
    <3>2. ring.rp = q.at => q.lap = Lap
      <4>1. CASE wpc' = "pad"
        BY <4>1
      <4> QED BY <4>1
    <3>3. ReaderLap' = IF ring.rp = q.at THEN q.lap
                       ELSE IF n + 1 = 1 THEN 0 ELSE taken'[n + 1 - 1].lap
      BY <1>2, <1>4, <2>2 DEF ReaderLap
    <3>4. n > 0 => n + 1 # 1 /\ n + 1 - 1 = n /\ taken'[n] = taken[n]
      BY <1>2, <1>9
    <3>5. CASE n = 0
      BY <1>8, <3>1, <3>2, <3>3, <3>5
    <3>6. CASE n > 0
      BY <1>8, <3>1, <3>2, <3>3, <3>4, <3>6
    <3> QED BY <3>5, <3>6
  <2> QED BY <1>6, <2>1, <2>2
<1>11. Types'
  <2>1. packet' \in [id : 0 .. MaxPackets, len : Lens \cup {0}]
    <3>1. q.len \in Lens /\ q.id \in 0 .. MaxPackets
      BY <1>7 DEF Packets
    <3> QED BY <3>1
  <2>2. wpc' \in {"copy", "pad"}
    OBVIOUS
  <2> QED BY <1>2, <2>1, <2>2 DEF IInv, Types
<1>12. \A k \in 1 .. n + 1 : k \in 1 .. n \/ k = n + 1
  OBVIOUS
<1>13. Laid'
  <2>1. packet.id \in Nat /\ packet'.id = packet.id + 1 /\ n <= packet.id
    BY <1>1 DEF IInv, Types, Laid
  <2>2. ASSUME NEW k \in 1 .. n + 1
        PROVE  End(k)' < Size /\ taken'[k].id <= packet'.id
    <3>1. CASE k \in 1 .. n
      <4>1. End(k) < Size /\ taken[k].id <= packet.id /\ taken[k].id \in Nat
        <5>1. k \in 1 .. Len(taken)
          BY <1>1, <3>1
        <5>2. taken[k].id \in Nat
          BY <5>1, PacketNumbers
        <5> QED BY <5>1, <5>2 DEF IInv, Laid
      <4> QED BY <1>2, <1>5, <2>1, <3>1, <4>1
    <3>2. CASE k = n + 1
      BY <1>2, <1>5, <1>7, <3>2
    <3> QED BY <1>12, <3>1, <3>2
  <2>3. ASSUME NEW k \in 1 .. n + 1
        PROVE  IF k = 1 THEN taken'[k].at = 0 /\ taken'[k].lap = 0
               ELSE \/ taken'[k].lap = taken'[k - 1].lap + 1 /\ taken'[k].at = 0
                    \/ taken'[k].lap = taken'[k - 1].lap /\ taken'[k].at = End(k - 1)'
    <3>1. CASE k \in 1 .. n
      <4>1. k # 1 => k - 1 \in 1 .. n /\ taken'[k - 1] = taken[k - 1] /\ End(k - 1)' = End(k - 1)
        <5> SUFFICES ASSUME k # 1
                     PROVE  k - 1 \in 1 .. n /\ taken'[k - 1] = taken[k - 1] /\ End(k - 1)' = End(k - 1)
          OBVIOUS
        <5>1. PICK j \in 1 .. n : j = k - 1
          BY <3>1
        <5> QED BY <1>2, <1>5, <5>1
      <4>2. IF k = 1 THEN taken[k].at = 0 /\ taken[k].lap = 0
            ELSE \/ taken[k].lap = taken[k - 1].lap /\ taken[k].at = End(k - 1)
                 \/ taken[k].lap = taken[k - 1].lap + 1 /\ taken[k].at = 0
        BY <1>1, <3>1 DEF IInv, Laid
      <4> QED BY <1>2, <3>1, <4>1, <4>2
    <3>2. CASE k = n + 1 /\ n = 0
      <4>1. wpc' = "copy" /\ q.at = 0 /\ q.lap = 0
        BY <1>1, <1>8, <3>2
      <4> QED BY <1>2, <3>2, <4>1
    <3>3. CASE k = n + 1 /\ n > 0
      <4>1. k # 1 /\ k - 1 = n /\ taken'[n] = taken[n] /\ End(n)' = End(n)
        BY <1>2, <1>5, <1>9, <3>3
      <4>2. (q.lap = taken[n].lap /\ q.at = End(n)) \/ (q.lap = taken[n].lap + 1 /\ q.at = 0)
        BY <1>1, <1>8, <3>3
      <4>3. End(k - 1)' = End(n)
        BY <4>1
      <4> QED BY <1>2, <3>3, <4>1, <4>2, <4>3
    <3> QED BY <1>1, <1>12, <3>1, <3>2, <3>3
  <2>4. ASSUME NEW j \in 1 .. n + 1, NEW k \in 1 .. n + 1, j < k
        PROVE  taken'[j].lap <= taken'[k].lap /\ (taken'[j].lap = taken'[k].lap => End(j)' <= taken'[k].at)
    <3>1. j \in 1 .. n /\ taken'[j] = taken[j] /\ End(j)' = End(j)
      <4>1. j \in 1 .. n
        BY <2>4
      <4> QED BY <1>2, <1>5, <4>1
    <3>2. CASE k \in 1 .. n
      <4>1. taken[j].lap <= taken[k].lap /\ (taken[j].lap = taken[k].lap => End(j) <= taken[k].at)
        BY <1>1, <2>4, <3>1, <3>2, InOrder
      <4> QED BY <1>2, <3>1, <3>2, <4>1
    <3>3. CASE k = n + 1
      <4>1. n > 0 /\ taken[j].lap \in Nat /\ End(j) \in Nat
        <5>1. j \in 1 .. Len(taken) /\ n > 0
          BY <1>1, <3>1
        <5> QED BY <5>1, PacketNumbers
      <4>2. taken[j].lap <= taken[n].lap /\ (taken[j].lap = taken[n].lap => End(j) <= End(n))
        <5>1. CASE j = n
          BY <4>1, <5>1
        <5>2. CASE j < n
          BY <1>1, <1>9, <3>1, <4>1, <5>2, InOrder
        <5> QED BY <3>1, <5>1, <5>2
      <4>3. (q.lap = taken[n].lap /\ q.at = End(n)) \/ q.lap = taken[n].lap + 1
        BY <1>8, <4>1
      <4>4. taken[j].lap <= q.lap /\ (taken[j].lap = q.lap => End(j) <= q.at)
        <5>1. CASE q.lap = taken[n].lap /\ q.at = End(n)
          BY <4>2, <5>1
        <5>2. CASE q.lap = taken[n].lap + 1
          <6>1. taken[j].lap <= taken[n].lap /\ taken[j].lap \in Nat /\ taken[n].lap \in Nat
            BY <1>9, <4>1, <4>2
          <6> QED BY <5>2, <6>1
        <5> QED BY <4>3, <5>1, <5>2
      <4> QED BY <1>2, <3>1, <3>3, <4>4
    <3> QED BY <1>12, <3>2, <3>3
  <2> QED BY <1>2, <2>1, <2>2, <2>3, <2>4 DEF Laid
<1>14. WriterAt'
  <2>1. packet' = [id |-> taken'[n + 1].id, len |-> taken'[n + 1].len]
    BY <1>2
  <2>2. wpc' = "pad" => /\ n + 1 > 1 /\ n + 1 - 1 = n /\ ring.wp = End(n)'
                        /\ taken'[n + 1].lap = taken'[n].lap + 1 /\ taken'[n + 1].at = 0
    BY <1>1, <1>2, <1>5, <1>8, <1>9
  <2>3. wpc' \in {"copy", "pad"} /\ (wpc' = "copy" => ring.wp = taken'[n + 1].at)
    BY <1>2
  <2>4. wpc' = "pad" => ring.wp = End(n + 1 - 1)' /\ taken'[n + 1].lap = taken'[n + 1 - 1].lap + 1
    BY <2>2
  <2> QED BY <1>2, <2>1, <2>2, <2>3, <2>4 DEF WriterAt, Made, ToMake
<1>15. ReaderAt'
  <2>1. Oldest <= n + 1 =>
          \/ ring.rp = taken'[Oldest].at
          \/ /\ Oldest > 1 /\ ring.rp = End(Oldest - 1)'
             /\ taken'[Oldest].lap = taken'[Oldest - 1].lap + 1
    <3>1. CASE Oldest <= n
      <4>1. PICK o \in 1 .. n : o = Oldest
        BY <1>6, <3>1
      <4>2. \/ ring.rp = taken[o].at
            \/ o > 1 /\ ring.rp = End(o - 1) /\ taken[o].lap = taken[o - 1].lap + 1
        BY <1>1, <4>1 DEF IInv, ReaderAt
      <4>3. o > 1 => o - 1 \in 1 .. n
        OBVIOUS
      <4>4. o > 1 => taken'[o - 1] = taken[o - 1] /\ End(o - 1)' = End(o - 1)
        <5> SUFFICES ASSUME o > 1
                     PROVE  taken'[o - 1] = taken[o - 1] /\ End(o - 1)' = End(o - 1)
          OBVIOUS
        <5>1. PICK j \in 1 .. n : j = o - 1
          BY <4>3
        <5> QED BY <1>2, <1>5, <5>1
      <4>5. \/ ring.rp = taken'[o].at
            \/ o > 1 /\ ring.rp = End(o - 1)' /\ taken'[o].lap = taken'[o - 1].lap + 1
        BY <1>2, <4>2, <4>4
      <4>6. Oldest' = o
        BY <1>4, <4>1
      <4> QED BY <4>1, <4>5, <4>6
    <3>2. CASE Oldest = n + 1
      <4>1. wpc' = "copy" => ring.rp = q.at
        BY <1>8, <3>2
      <4>2. wpc' = "pad" => n + 1 > 1 /\ n + 1 - 1 = n /\ ring.rp = End(n)' /\ q.lap = taken'[n].lap + 1
        BY <1>1, <1>2, <1>5, <1>8, <1>9, <3>2
      <4>3. n + 1 - 1 = n
        OBVIOUS
      <4>4. wpc' = "pad" => n + 1 > 1 /\ ring.rp = End(n + 1 - 1)' /\ q.lap = taken'[n + 1 - 1].lap + 1
        BY <4>2, <4>3
      <4>5. Oldest' = n + 1
        BY <1>4, <3>2
      <4> QED BY <1>2, <3>2, <4>1, <4>4, <4>5
    <3> QED BY <1>1, <1>6, <3>1, <3>2
  <2>2. \A k \in DOMAIN out : out[k] = taken'[k].id
    <3> SUFFICES ASSUME NEW k \in DOMAIN out
                 PROVE  out[k] = taken'[k].id
      OBVIOUS
    <3>1. k \in 1 .. n
      <4>1. Len(out) <= n /\ out \in Seq(Nat) /\ Len(out) \in Nat
        BY <1>3, Numbers DEF IInv, ReaderAt, Types
      <4> QED BY <4>1
    <3>2. out[k] = taken[k].id
      BY DEF IInv, ReaderAt
    <3> QED BY <1>2, <3>1, <3>2
  <2>3. Oldest <= n => taken'[Oldest] = taken[Oldest]
    BY <1>2, <1>6
  <2>4. Len(out) <= n /\ ~ (Oldest = n + 2) /\ Oldest \in 1 .. n + 2 /\ n + 1 + 1 = n + 2 /\ n + 1 # 0
    BY <1>3, <1>6 DEF IInv, ReaderAt
  <2>5. ring.last > 0 /\ rpc \in {"wait", "skip", "use"} =>
          Oldest <= n /\ Oldest <= n + 1 /\ ring.rp = taken'[Oldest].at /\ ring.last = taken'[Oldest].len
    BY <1>1, <1>6, <2>3 DEF IInv, ReaderAt
  <2>6. rpc \in {"positions", "header", "use"} => Oldest <= n
    BY <1>3 DEF IInv, ReaderAt
  <2>7. rpc = "use" => Len(seen) <= ring.last /\ \A k \in DOMAIN seen : seen[k] = Unit(taken'[Oldest].id)
    BY <2>3, <2>6 DEF IInv, ReaderAt
  <2>8. /\ rpc \in {"skip", "skipped", "use"} => ring.last > 0
        /\ rpc \in {"count", "positions", "header"} => ring.last = 0
        /\ ring.last > 0 /\ rpc \in {"wait", "skip", "skipped"} => Len(out) > 0
        /\ rpc \in {"skip", "skipped", "count", "positions", "header"} => seen = <<>>
    BY DEF IInv, ReaderAt
  <2> QED BY <1>2, <1>3, <1>4, <2>1, <2>2, <2>4, <2>5, <2>6, <2>7, <2>8 DEF ReaderAt
<1>16. Apart'
  <2> SUFFICES ASSUME NEW k \in Oldest .. n + 1
               PROVE  \/ taken'[k].lap = ReaderLap /\ ring.rp <= taken'[k].at
                      \/ taken'[k].lap = ReaderLap + 1 /\ End(k)' < ring.rp
    BY <1>2, <1>4, <1>10 DEF Apart
  <2>1. CASE k = n + 1
    BY <1>2, <1>5, <2>1
  <2>2. CASE k \in 1 .. n
    <3>1. k \in Oldest .. Len(taken)
      BY <1>1, <2>2
    <3>2. \/ taken[k].lap = ReaderLap /\ ring.rp <= taken[k].at
          \/ taken[k].lap = ReaderLap + 1 /\ End(k) < ring.rp
      BY <3>1, OutOfTheWay
    <3> QED BY <1>2, <1>5, <2>2, <3>2
  <2> QED BY <1>1, <1>6, <2>1, <2>2
<1>17. Intact'
  <2>1. ASSUME NEW k \in Oldest .. n
        PROVE  Headed(k)' /\ Payload(k)'
    <3>1. Headed(k) /\ Payload(k)
      BY <1>3 DEF IInv, Intact
    <3>2. taken'[k] = taken[k]
      BY <1>2, <1>6
    <3> QED BY <3>1, <3>2 DEF Headed, Payload
  <2>2. ASSUME NEW k \in Oldest .. n + 1, k > 1, taken'[k].lap = ReaderLap + 1,
               taken'[k - 1].lap = ReaderLap, ~ (k = n + 1 /\ wpc' = "pad")
        PROVE  ring.mem[End(k - 1)'] = Q!Padding
    <3>1. PICK j \in 1 .. n : j = k - 1
      BY <1>6, <2>2
    <3>2. taken'[j] = taken[j] /\ End(j)' = End(j)
      BY <1>2, <1>5
    <3>3. CASE k = n + 1
      <4>1. j = n /\ n > 0
        BY <3>1, <3>3
      <4>2. wpc' = "copy" /\ q.lap = taken[n].lap
        BY <1>8, <2>2, <3>3, <4>1
      <4>3. q.lap = ReaderLap + 1 /\ taken[n].lap = ReaderLap
        BY <1>2, <2>2, <3>1, <3>2, <3>3, <4>1
      <4>4. ReaderLap + 1 # ReaderLap
        BY <1>6
      <4> QED BY <4>2, <4>3, <4>4
    <3>4. CASE k \in 1 .. n
      <4>1. k \in Oldest .. Len(taken) /\ taken[k].lap = ReaderLap + 1 /\ taken[k - 1].lap = ReaderLap
        BY <1>1, <1>2, <2>2, <3>1, <3>2, <3>4
      <4>2. ring.mem[End(k - 1)] = Q!Padding
        BY <2>2, <4>1 DEF IInv, Intact
      <4> QED BY <3>1, <3>2, <4>2
    <3> QED BY <1>6, <3>3, <3>4
  <2>3. wpc' # "finish"
    OBVIOUS
  <2> QED BY <1>2, <1>3, <1>4, <1>10, <2>1, <2>2, <2>3 DEF Intact
<1>18. Counted' /\ Signalled'
  BY <1>3, <1>4 DEF IInv, Counted, Signalled
<1> QED BY <1>11, <1>13, <1>14, <1>15, <1>16, <1>17, <1>18 DEF IInv

LEMMA AllocateStep == ASSUME IInv, Allocate PROVE IInv'
<1> USE DEF readerVars
<1>1. /\ wpc = "idle" /\ nPackets < MaxPackets /\ packet.id = nPackets
      /\ UNCHANGED <<use, ring, sem, stores, readerVars>>
  BY DEF Allocate, nPackets
<1>2. PICK len \in Lens :
        /\ packet' = [id |-> nPackets + 1, len |-> len]
        /\ \/ /\ Q!FitsAtEnd(ring, len) \/ Q!FitsBefore(ring, len)
              /\ wpc' = "copy"
              /\ taken' = Append(taken, [id |-> packet'.id, len |-> len, at |-> ring.wp, lap |-> Lap])
           \/ /\ ~ (Q!FitsAtEnd(ring, len) \/ Q!FitsBefore(ring, len)) /\ Q!FitsAtStart(ring, len)
              /\ wpc' = "pad"
              /\ taken' = Append(taken, [id |-> packet'.id, len |-> len, at |-> 0, lap |-> Lap + 1])
           \/ ~ Q!Fits(ring, len) /\ UNCHANGED <<wpc, taken>>
  BY DEF Allocate
<1>3. /\ packet.id \in Nat /\ len \in Nat \ {0} /\ packet'.id = packet.id + 1 /\ packet'.len = len
      /\ packet.id + 1 <= MaxPackets /\ packet.id + 1 \in Nat \ {0}
      /\ ring.rp \in Nat /\ ring.wp \in Nat /\ Lap \in Nat /\ Lap + 1 \in Nat /\ ReaderLap \in Nat
      /\ Len(taken) \in Nat
  <2>1. packet.id \in 0 .. MaxPackets
    BY DEF IInv, Types
  <2>2. /\ ring.rp \in Nat /\ ring.wp \in Nat /\ Lap \in Nat /\ ReaderLap \in Nat
        /\ Len(taken) \in Nat
    BY <1>1, Numbers, WriterLap
  <2>3. packet'.id = packet.id + 1 /\ packet'.len = len
    BY <1>1, <1>2
  <2>4. packet.id \in Nat /\ packet.id < MaxPackets
    BY <1>1, <2>1
  <2> QED BY <2>2, <2>3, <2>4
<1>4. CASE /\ Q!FitsAtEnd(ring, len) \/ Q!FitsBefore(ring, len)
           /\ wpc' = "copy"
           /\ taken' = Append(taken, [id |-> packet'.id, len |-> len, at |-> ring.wp, lap |-> Lap])
  <2>1. PICK q \in Packets : q = [id |-> packet.id + 1, len |-> len, at |-> ring.wp, lap |-> Lap]
    BY <1>3 DEF Packets
  <2>2. q.id = packet.id + 1 /\ q.len = len /\ q.at = ring.wp /\ q.lap = Lap
    BY <2>1
  <2>3. taken' = Append(taken, q) /\ packet' = [id |-> q.id, len |-> q.len]
    BY <1>1, <1>2, <1>3, <1>4, <2>1, <2>2
  <2>4. /\ ring.wp >= ring.rp => Lap = ReaderLap
        /\ ring.wp < ring.rp => Lap = ReaderLap + 1
        /\ ring.rp < Size
    BY <1>1, WriterLap, Numbers
  <2>5. \/ ring.wp >= ring.rp /\ Size - ring.wp > len + 2
        \/ ring.wp < ring.rp /\ ring.rp - ring.wp >= len + 2
    BY <1>4 DEF Q!FitsAtEnd, Q!FitsBefore
  <2>6. q.at + q.len + 1 < Size
    BY <1>3, <2>2, <2>4, <2>5
  <2>7. \/ q.lap = ReaderLap /\ ring.rp <= q.at
        \/ q.lap = ReaderLap + 1 /\ q.at + q.len + 1 < ring.rp
    BY <1>3, <2>2, <2>4, <2>5
  <2> QED BY <1>1, <1>3, <1>4, <2>2, <2>3, <2>6, <2>7, LayStep
<1>5. CASE /\ Q!FitsAtStart(ring, len) /\ wpc' = "pad"
           /\ taken' = Append(taken, [id |-> packet'.id, len |-> len, at |-> 0, lap |-> Lap + 1])
  <2>1. PICK q \in Packets : q = [id |-> packet.id + 1, len |-> len, at |-> 0, lap |-> Lap + 1]
    BY <1>3 DEF Packets
  <2>2. q.id = packet.id + 1 /\ q.len = len /\ q.at = 0 /\ q.lap = Lap + 1
    BY <2>1
  <2>3. taken' = Append(taken, q) /\ packet' = [id |-> q.id, len |-> q.len]
    BY <1>1, <1>2, <1>3, <1>5, <2>1, <2>2
  <2>4. ring.wp >= ring.rp /\ ring.rp >= len + 2 /\ ring.rp < Size
    BY <1>5, Numbers DEF Q!FitsAtStart
  <2>5. Lap = ReaderLap /\ Len(taken) > 0 /\ ring.rp > 0
    <3>1. ring.rp > 0
      BY <1>3, <2>4
    <3>2. Lap = ReaderLap /\ Len(taken) # 0
      BY <1>1, <2>4, <3>1, WriterLap
    <3> QED BY <1>3, <3>1, <3>2
  <2>6. q.at + q.len + 1 < Size /\ q.at + q.len + 1 < ring.rp
    <3>1. ring.rp < Size /\ Size \in Nat
      BY Numbers
    <3>2. q.at + q.len + 1 = len + 1
      BY <1>3, <2>2
    <3> QED BY <1>3, <2>4, <3>1, <3>2
  <2>7. q.lap = ReaderLap + 1
    BY <2>2, <2>5
  <2> QED BY <1>1, <1>3, <1>5, <2>2, <2>3, <2>5, <2>6, <2>7, LayStep
<1>6. CASE UNCHANGED <<wpc, taken>>
  <2>1. /\ Complete' = Complete /\ CountedIn' = CountedIn /\ Posted' = Posted
        /\ Oldest' = Oldest /\ CountedOut' = CountedOut /\ \A k : End(k)' = End(k)
    BY <1>1, <1>6 DEF Complete, CountedIn, Made, Posted, Oldest, CountedOut, End
  <2>2. ReaderLap' = ReaderLap
    BY <1>1, <1>6, <2>1 DEF ReaderLap
  <2>3. \A k : (Headed(k)' <=> Headed(k)) /\ (Payload(k)' <=> Payload(k))
    BY <1>1, <1>6 DEF Headed, Payload
  <2>4. Types'
    <3>1. packet' \in [id : 0 .. MaxPackets, len : Lens \cup {0}]
      BY <1>1, <1>2, <1>3
    <3> QED BY <1>1, <1>6, <3>1 DEF IInv, Types
  <2>5. Laid'
    <3>1. Len(taken) <= packet'.id /\ \A k \in 1 .. Len(taken) : End(k) < Size /\ taken[k].id <= packet'.id
      <4>1. Len(taken) <= packet.id
        BY DEF IInv, Laid
      <4>2. ASSUME NEW k \in 1 .. Len(taken)
            PROVE  End(k) < Size /\ taken[k].id <= packet'.id
        <5>1. taken[k].id <= packet.id /\ taken[k].id \in Nat /\ End(k) < Size
          BY PacketNumbers DEF IInv, Laid
        <5> QED BY <1>3, <5>1
      <4> QED BY <1>3, <4>1, <4>2
    <3> QED BY <1>6, <2>1, <3>1 DEF IInv, Laid
  <2>6. WriterAt'
    BY <1>1, <1>6, <2>1 DEF IInv, WriterAt, Made, ToMake
  <2>7. ReaderAt' /\ Apart' /\ Intact' /\ Counted' /\ Signalled'
    <3>1. ReaderAt'
      BY <1>1, <1>6, <2>1 DEF IInv, ReaderAt
    <3>2. Apart'
      BY <1>1, <1>6, <2>1, <2>2 DEF IInv, Apart
    <3>3. Intact'
      BY <1>1, <1>6, <2>1, <2>2, <2>3 DEF IInv, Intact
    <3> QED BY <1>1, <2>1, <3>1, <3>2, <3>3 DEF IInv, Counted, Signalled
  <2> QED BY <2>4, <2>5, <2>6, <2>7 DEF IInv
<1> QED BY <1>2, <1>4, <1>5, <1>6

LEMMA NextKeepsIInv ==
  ASSUME IInv, [Next]_vars
  PROVE  IInv'
<1>1. CASE Writer
  BY <1>1, AllocateStep, PadStep, WrapStep, CopyStep, FinishStep, PostStep DEF Writer
<1>2. CASE Reader
  BY <1>2, WaitStep, SkipStep, SkippedStep, CheckCountStep, CheckPositionsStep, ReadHeaderStep,
     UseStep DEF Reader
<1>3. CASE UNCHANGED vars
  <2> USE <1>3 DEF vars, writerVars, readerVars
  <2>1. /\ Complete' = Complete /\ CountedIn' = CountedIn /\ Posted' = Posted
        /\ Oldest' = Oldest /\ CountedOut' = CountedOut
    BY DEF Complete, CountedIn, Made, Posted, Oldest, CountedOut
  <2>2. Laid' /\ WriterAt' /\ Apart' /\ Intact'
    BY <2>1, ReaderKeeps
  <2>3. \A k : End(k)' = End(k)
    BY DEF End
  <2>4. Types'
    BY DEF IInv, Types
  <2>5. ReaderAt'
    BY <2>1, <2>3 DEF IInv, ReaderAt
  <2>6. Counted' /\ Signalled'
    BY <2>1 DEF IInv, Counted, Signalled
  <2> QED BY <2>2, <2>4, <2>5, <2>6 DEF IInv
<1> QED BY <1>1, <1>2, <1>3 DEF Next

(* Both threads keep the ring laid out, whatever the order of their accesses to the
   shared memory. *)
THEOREM RingInvariant == Spec => []IInv
<1>1. Init => IInv
  BY InitIInv
<1>2. IInv /\ [Next]_vars => IInv'
  BY NextKeepsIInv
<1> QED BY <1>1, <1>2, PTL DEF Spec

(* Positions, counters and lengths stay in range; the counters, of packets that are
   counted by two threads, and the semaphore never go below zero.  The error path of
   the reader is a place TypeOK admits; HeaderFound shows it is not reached. *)
THEOREM RingTypeOK == Spec => []TypeOK
<1>1. ASSUME IInv
      PROVE  TypeOK
  <2>1. /\ Len(taken) \in Nat /\ Len(out) \in Nat /\ sem \in Nat /\ ring.count \in Int
        /\ CountedIn <= Len(taken) /\ CountedIn \in Int /\ CountedOut \in Int
        /\ Posted <= Len(taken) /\ Posted \in Int /\ Complete \in Int /\ Complete <= CountedIn
        /\ Complete <= Len(taken)
    BY <1>1, Numbers
  <2>2. packet \in [id : 0 .. MaxPackets, len : Lens \cup {0}] /\ Len(taken) <= packet.id
    BY <1>1 DEF IInv, Types, Laid
  <2>3. packet.id \in 0 .. MaxPackets /\ packet.len \in Lens \cup {0}
    BY <2>2
  <2>4. Len(taken) <= MaxPackets
    BY <2>1, <2>2, <2>3
  <2>5. 0 <= CountedOut /\ CountedOut <= Len(out) /\ Len(out) <= Complete
    <3>1. Len(out) <= Complete
      BY <1>1 DEF IInv, ReaderAt
    <3>2. ring.last > 0 /\ rpc # "use" => Len(out) > 0
      BY <1>1 DEF IInv, ReaderAt, Types
    <3> QED BY <2>1, <3>1, <3>2 DEF CountedOut
  <2>6. ring.count \in 0 .. MaxPackets
    BY <1>1, <2>1, <2>4, <2>5 DEF IInv, Counted
  <2>7. ring.wp \in Q!Places /\ ring.rp \in Q!Places /\ ring.last \in Lens \cup {0}
    BY <1>1, RingIn DEF Rings
  <2>8. sem \in 0 .. MaxPackets
    BY <1>1, <2>1, <2>4, <2>5 DEF IInv, Types, Signalled
  <2> QED BY <1>1, <2>3, <2>6, <2>7, <2>8 DEF TypeOK, IInv, Types
<1> QED BY <1>1, RingInvariant, PTL

(* Where the reader looks for a header there is one. *)
THEOREM HeaderFound == Spec => []FindsHeader
<1>1. ASSUME IInv, rpc = "header"
      PROVE  ring.mem[ring.rp].kind \in {"packet", "padding"}
  BY <1>1, HeaderThere DEF Headed, Q!Header, Q!Padding
<1>2. IInv => FindsHeader
  BY <1>1 DEF FindsHeader
<1> QED BY <1>2, RingInvariant, PTL

(* The packets that found room come out whole, once each and in order. *)
THEOREM DeliveryInOrder == Spec => []DeliveredInOrder
<1>1. ASSUME IInv
      PROVE  DeliveredInOrder
  <2>1. Len(out) <= Complete /\ \A k \in DOMAIN out : out[k] = taken[k].id
    BY <1>1 DEF IInv, ReaderAt
  <2>2. Len(out) \in Nat /\ Complete \in Int /\ Len(taken) \in Nat /\ Complete <= Len(taken)
    BY <1>1, Numbers
  <2> QED BY <2>1, <2>2 DEF DeliveredInOrder
<1> QED BY <1>1, RingInvariant, PTL

(* Between two packets the semaphore counts those the sending task has not seen. *)
THEOREM SignalForEach == Spec => []SignalPerPacket
<1>1. IInv => SignalPerPacket
  <2> SUFFICES ASSUME IInv, use = "send", wpc = "idle", rpc = "wait"
               PROVE  sem + Len(out) = Len(taken)
    BY DEF SignalPerPacket
  <2>1. sem + Len(out) + 0 = Len(taken)
    BY DEF IInv, Signalled, Posted
  <2> QED BY <2>1, Numbers
<1> QED BY <1>1, RingInvariant, PTL
-----------------------------------------------------------------------------
(* ConfigUpdate *)

(* The hand-shake: who may have written m_nTaskRun last, by the place of each
   thread.  ModulesQuiet is its middle part; the rest makes it inductive. *)
HandShake ==
  /\ pkt \in {"idle", "pause", "done"} => task = 1 /\ stat # "acknowledge"
  /\ pkt = "wait" => task \in {2, 3}
  /\ pkt \in {"modules", "continue"} => task = 3
  /\ task = 3 => stat = "top"
  /\ stat = "acknowledge" => task = 2

(* The packet thread is the only writer of m_nUpdateCfg below 100, the command
   thread from 100 on. *)
OneWriter ==
  /\ pkt # "idle" => update = 1
  /\ cmd = "reset" => update \in {100, 101}

(* How far the configuration in force is, by the progress. *)
InForce ==
  /\ started <= files
  /\ pkt # "idle" => new >= started
  /\ pkt \in {"continue", "done"} => inForce >= started
  /\ update \in {0, 1} /\ pkt = "idle" => inForce = before
  /\ ProgressHonest

UpdateIInv == U!TypeOK /\ HandShake /\ OneWriter /\ InForce

LEMMA InitUpdateIInv ==
  ASSUME MaxWrites \in Nat, U!Init
  PROVE  UpdateIInv
BY DEF U!Init, UpdateIInv, U!TypeOK, HandShake, OneWriter, InForce, ProgressHonest, U!Progress

LEMMA NextKeepsUpdateIInv ==
  ASSUME MaxWrites \in Nat, UpdateIInv, [U!Next]_(U!vars)
  PROVE  UpdateIInv'
<1> USE DEF UpdateIInv, U!TypeOK, HandShake, OneWriter, InForce, ProgressHonest,
            U!pktVars, U!history
<1>1. CASE U!WriteFiles
  BY <1>1 DEF U!WriteFiles
<1>2. CASE U!ApplyTest
  BY <1>2 DEF U!ApplyTest, U!Progress
<1>3. CASE U!ApplyReset
  BY <1>3 DEF U!ApplyReset, U!Progress
<1>4. CASE U!PacketThread
  <2>1. CASE U!Tick
    BY <2>1 DEF U!Tick, U!Progress
  <2>2. CASE U!ReadConfig
    BY <2>2 DEF U!ReadConfig, U!Progress
  <2>3. CASE U!Pause
    BY <2>3 DEF U!Pause
  <2>4. CASE U!PauseWait
    BY <2>4 DEF U!PauseWait
  <2>5. CASE U!UpdateModules
    BY <2>5 DEF U!UpdateModules
  <2>6. CASE U!Continue
    BY <2>6 DEF U!Continue
  <2>7. CASE U!Finish
    BY <2>7 DEF U!Finish, U!Progress
  <2> QED BY <1>4, <2>1, <2>2, <2>3, <2>4, <2>5, <2>6, <2>7 DEF U!PacketThread
<1>5. CASE U!StatThread
  BY <1>5 DEF U!StatThread, U!StatSwitch, U!StatReadDone, U!StatAcknowledge, U!StatStep
<1>6. CASE UNCHANGED U!vars
  BY <1>6 DEF U!vars
<1> QED BY <1>1, <1>2, <1>3, <1>4, <1>5, <1>6 DEF U!Next

(* The statistics thread never reads the modules while they are rebuilt, and the
   progress the operator polls never claims more than was done. *)
THEOREM ConfigUpdateSafety ==
  ASSUME MaxWrites \in Nat
  PROVE  U!Spec => [](U!TypeOK /\ ModulesQuiet /\ ProgressHonest)
<1>1. UpdateIInv => U!TypeOK /\ ModulesQuiet /\ ProgressHonest
  BY DEF UpdateIInv, HandShake, InForce, ModulesQuiet
<1>2. U!Init => UpdateIInv
  BY InitUpdateIInv
<1>3. UpdateIInv /\ [U!Next]_(U!vars) => UpdateIInv'
  BY NextKeepsUpdateIInv
<1> QED BY <1>1, <1>2, <1>3, PTL DEF U!Spec

(* What the operator polls never claims more than was done. *)
THEOREM ProgressIsHonest ==
  ASSUME MaxWrites \in Nat
  PROVE  U!Spec => []ProgressHonest
BY ConfigUpdateSafety, PTL
=============================================================================
