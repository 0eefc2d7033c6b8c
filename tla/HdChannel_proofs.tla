-------------------------- MODULE HdChannel_proofs --------------------------
(***************************************************************************)
(* For every ring size, area size and set of packet lengths: the fields of *)
(* a channel keep their types; as long as the data area has fewer blocks   *)
(* than the ring has descriptors, packets in use never share a block, no   *)
(* publication is lost and the channel implements the queue of HdFifo.     *)
(***************************************************************************)
EXTENDS HdChannel, TLAPS

-----------------------------------------------------------------------------
(* Ring arithmetic.                                                        *)

(* The next ring position, without the remainder (the % max_entries of     *)
(* read_finish and write_finish).                                          *)
LEMMA SuccValue ==
  ASSUME NEW i \in Slot
  PROVE  Succ(i) = IF i = MaxEntries - 1 THEN 0 ELSE i + 1
<1>1. CASE i = MaxEntries - 1
  BY <1>1, ChannelAssumption DEF Slot, Succ
<1>2. CASE i # MaxEntries - 1
  BY <1>2, ChannelAssumption DEF Slot, Succ
<1> QED BY <1>1, <1>2

(* Positions stay positions.                                               *)
LEMMA RingType ==
  ASSUME NEW i \in Slot
  PROVE  Succ(i) \in Slot /\ Pred(i) \in Slot /\ 0 \in Slot
BY SuccValue, ChannelAssumption DEF Slot, Pred

(* A ring distance is a number below the number of descriptors.            *)
LEMMA DistanceType ==
  ASSUME NEW i \in Slot, NEW j \in Slot
  PROVE  /\ Distance(i, j) \in 0 .. MaxEntries - 1
         /\ Distance(i, i) = 0
BY ChannelAssumption DEF Slot, Distance

-----------------------------------------------------------------------------
(* Types.                                                                  *)

(* Packet lengths are positive numbers.                                    *)
LEMMA PacketType ==
  ASSUME NEW n \in PacketBlocks \cup {0}
  PROVE  n \in Nat /\ (n \in PacketBlocks => n >= 1)
<1>1. PacketBlocks \subseteq Nat \ {0}
  BY ChannelAssumption
<1> QED BY <1>1

LEMMA TypeInit == Init => TypeOK
<1> SUFFICES ASSUME Init PROVE TypeOK
  OBVIOUS
<1>1. 0 \in Slot
  BY ChannelAssumption DEF Slot
<1>2. entries \in [Slot -> [offset : Nat, rsize : Nat, size : Nat]]
  BY DEF Init
<1>3. mem \in [Block -> Payload \cup {NoData}]
  BY DEF Init
<1> QED
  BY <1>1, <1>2, <1>3 DEF Init, TypeOK

(* No step of either side leaves the types.                                *)
LEMMA TypeStep == TypeOK /\ [Next]_vars => TypeOK'
<1> SUFFICES ASSUME TypeOK, [Next]_vars PROVE TypeOK'
  OBVIOUS
<1> USE DEF TypeOK, shared, writer, reader
<1>1. ASSUME NEW n \in PacketBlocks, WriteStart(n) PROVE TypeOK'
  BY <1>1 DEF WriteStart
<1>2. CASE Reserve
  <2> PICK o \in FindSpace(wrp, wsize) :
        entries' = [entries EXCEPT ![writeEntry] =
                      [offset |-> o, rsize |-> wsize, size |-> 0]]
    BY <1>2 DEF Reserve
  <2>1. Newest \in [offset : Nat, rsize : Nat, size : Nat]
    BY RingType DEF Newest
  <2>2. o \in Nat
    BY <2>1 DEF FindSpace, EndOfNewest
  <2>3. wsize \in Nat
    BY PacketType
  <2> QED
    BY <1>2, <2>2, <2>3, RingType DEF Reserve
<1>3. CASE WriteRetry
  BY <1>3 DEF WriteRetry
<1>4. CASE WriteTimeout
  BY <1>4, RingType DEF WriteTimeout
<1>5. ASSUME NEW d \in Payload, Fill(d) PROVE TypeOK'
  BY <1>5 DEF Fill
<1>6. ASSUME NEW s \in PacketBlocks, WriteFinish(s) PROVE TypeOK'
  BY <1>6, RingType, ChannelAssumption DEF WriteFinish
<1>7. CASE WriteAbandon
  BY <1>7 DEF WriteAbandon
<1>8. CASE Flushing
  BY <1>8 DEF Flushing, Invalidate, InvalidateDone, InvalidateTimeout
<1>9. CASE Read
  BY <1>9, RingType DEF Read, FlushSample, FlushClear, FlushDrop, ReadStart,
     ReadTimeout, ReadTake, ReadFinish
<1>10. CASE UNCHANGED vars
  BY <1>10 DEF vars
<1> QED
  BY <1>1, <1>2, <1>3, <1>4, <1>5, <1>6, <1>7, <1>8, <1>9, <1>10
  DEF Next, Write

(* Every field of the control area, the data area and the two handles      *)
(* keeps its type, whatever the two sides interleave.                      *)
THEOREM TypeCorrect == Spec => []TypeOK
BY TypeInit, TypeStep, PTL DEF Spec

-----------------------------------------------------------------------------
(* The layout of the packets in the data area.                             *)

Descriptor == [offset : Nat, rsize : Nat, size : Nat]

(* Ring distances add up as long as they stay within one round.            *)
LEMMA DistanceAdds ==
  ASSUME NEW b \in Slot, NEW c \in Slot, NEW i \in Slot,
         Distance(b, c) + Distance(c, i) < MaxEntries
  PROVE  Distance(b, i) = Distance(b, c) + Distance(c, i)
BY ChannelAssumption DEF Slot, Distance

(* Stepping forward by one adds one to the distance, within one round.     *)
LEMMA DistanceSucc ==
  ASSUME NEW b \in Slot, NEW i \in Slot,
         Distance(b, i) + 1 < MaxEntries
  PROVE  /\ Distance(b, Succ(i)) = Distance(b, i) + 1
         /\ Succ(i) # b
BY SuccValue, ChannelAssumption DEF Slot, Distance

(* The slot before one that is not at the base is one closer to the base.  *)
LEMMA DistancePred ==
  ASSUME NEW b \in Slot, NEW i \in Slot, i # b
  PROVE  /\ Pred(i) \in Slot
         /\ Distance(b, Pred(i)) = Distance(b, i) - 1
         /\ Distance(b, i) >= 1
BY ChannelAssumption DEF Slot, Distance, Pred

(* Two slots at the same distance from a third are the same slot.          *)
LEMMA DistanceInjective ==
  ASSUME NEW b \in Slot, NEW i \in Slot, NEW j \in Slot,
         Distance(b, i) = Distance(b, j)
  PROVE  i = j
BY ChannelAssumption DEF Slot, Distance

(* When the reader moves on (read_finish, or the jump of a flush), what is *)
(* left is still laid out in at most two runs.                             *)
LEMMA LayoutAdvances ==
  ASSUME NEW ring \in [Slot -> Descriptor], NEW b \in Slot, NEW c \in Slot,
         NEW n \in 0 .. MaxEntries, Layout(ring, b, n), Distance(b, c) <= n
  PROVE  Layout(ring, c, n - Distance(b, c))
<1> DEFINE d == Distance(b, c)
<1>d. d \in Nat /\ n - d \in Nat /\ n \in Nat /\ n <= MaxEntries /\ MaxEntries \in Nat
  BY DistanceType, ChannelAssumption
<1>1. ASSUME NEW i \in Slot, Distance(c, i) < n - d
      PROVE  Distance(b, i) = d + Distance(c, i) /\ Distance(b, i) < n
  <2>1. Distance(c, i) \in Nat
    BY DistanceType
  <2>2. d + Distance(c, i) < MaxEntries
    BY <1>1, <1>d, <2>1
  <2>3. Distance(b, i) = d + Distance(c, i)
    BY <2>2, DistanceAdds
  <2> QED BY <2>1, <2>3, <1>1, <1>d
<1>2. ASSUME NEW i \in Slot, Distance(c, i) < n - d
      PROVE  ring[i].rsize >= 1 /\ End(ring[i]) <= AreaBlocks
  BY <1>1, <1>2 DEF Layout
<1>3. ASSUME NEW i \in Slot, NEW j \in Slot,
             Distance(c, i) < Distance(c, j), Distance(c, j) < n - d
      PROVE  Ordered(ring, c, i, j)
  <2>t. /\ Distance(c, i) \in Nat /\ Distance(c, j) \in Nat
        /\ Distance(c, c) = 0 /\ Distance(b, b) = 0
    BY DistanceType
  <2>1. /\ Distance(b, i) = d + Distance(c, i)
        /\ Distance(b, j) = d + Distance(c, j)
        /\ Distance(b, c) = d
        /\ Distance(b, i) < Distance(b, j) /\ Distance(b, j) < n
        /\ Distance(c, i) < n - d
    BY <1>1, <1>3, <2>t, <1>d
  <2>2. Distance(b, j) - Distance(b, i) = Distance(c, j) - Distance(c, i)
    BY <2>1, <2>t, <1>d
  <2>3. Ordered(ring, b, i, j)
    BY <2>1 DEF Layout
  <2>4. b = c \/ Ordered(ring, b, b, c)
    BY <2>1, <2>t, <1>d, DistanceInjective DEF Layout
  <2>5. b = i \/ Ordered(ring, b, b, i)
    BY <2>1, <2>t, <1>d, DistanceInjective DEF Layout
  <2>6. c = i \/ Ordered(ring, b, c, i)
    BY <2>1, <2>t, <1>d, DistanceInjective DEF Layout
  <2>7. Ordered(ring, b, c, j)
    BY <2>1, <2>t, <1>d DEF Layout
  <2>8. /\ ring[b] \in Descriptor /\ ring[c] \in Descriptor
        /\ ring[i] \in Descriptor /\ ring[j] \in Descriptor
    OBVIOUS
  <2>9. ring[b].rsize >= 1 /\ ring[c].rsize >= 1 /\ ring[i].rsize >= 1 /\ ring[j].rsize >= 1
    BY <2>1, <2>t, <1>d DEF Layout
  <2> QED
    BY <2>t, <2>1, <2>2, <2>3, <2>4, <2>5, <2>6, <2>7, <2>8, <2>9, <1>d
    DEF Ordered, FirstRun, End, Descriptor
<1> QED BY <1>2, <1>3 DEF Layout

(* Every distance short of a full round is the distance of some slot.      *)
LEMMA SlotAt ==
  ASSUME NEW b \in Slot, NEW m \in 0 .. MaxEntries - 1
  PROVE  \E k \in Slot : Distance(b, k) = m
<1> DEFINE k == IF b + m < MaxEntries THEN b + m ELSE b + m - MaxEntries
<1>1. k \in Slot /\ Distance(b, k) = m
  BY ChannelAssumption DEF Slot, Distance
<1> QED BY <1>1

(* There are never more packets in use than blocks in the data area.       *)
LEMMA LayoutBounded ==
  ASSUME NEW ring \in [Slot -> Descriptor], NEW b \in Slot,
         NEW n \in 1 .. MaxEntries, Layout(ring, b, n)
  PROVE  n <= AreaBlocks
<1>0. n \in Nat /\ n >= 1 /\ n - 1 \in 0 .. MaxEntries - 1
  BY ChannelAssumption
<1> PICK k \in Slot : Distance(b, k) = n - 1
  BY <1>0, SlotAt
<1>1. Distance(b, b) = 0
  BY DistanceType
<1>2. /\ ring[b] \in Descriptor /\ ring[k] \in Descriptor
      /\ AreaBlocks \in Nat
  BY ChannelAssumption
<1>3. /\ ring[b].rsize >= 1 /\ End(ring[b]) <= AreaBlocks
      /\ ring[k].rsize >= 1 /\ End(ring[k]) <= AreaBlocks
  BY <1>0, <1>1 DEF Layout
<1>4. CASE n = 1
  BY <1>4, <1>2, <1>3 DEF End, Descriptor
<1>5. CASE n > 1
  <2>1. Ordered(ring, b, b, k)
    BY <1>0, <1>1, <1>5 DEF Layout
  <2> QED
    BY <2>1, <1>0, <1>1, <1>2, <1>3 DEF Ordered, FirstRun, End, Descriptor
<1> QED BY <1>0, <1>4, <1>5

(* What find_space hands out fits behind the newest packet of the last run *)
(* or starts the second one: the new packet keeps the layout.              *)
LEMMA LayoutAppends ==
  ASSUME TypeOK, NEW b \in Slot, NEW m \in Nat, m >= 1,
         Layout(entries, b, Distance(b, writeEntry)),
         NEW o \in FindSpace(b, m)
  PROVE  Layout([entries EXCEPT ![writeEntry] =
                   [offset |-> o, rsize |-> m, size |-> 0]],
                b, Distance(b, writeEntry) + 1)
<1> DEFINE w == writeEntry
           n == Distance(b, w)
           e == [offset |-> o, rsize |-> m, size |-> 0]
           ring == [entries EXCEPT ![w] = e]
           p == Pred(w)
<1>0. /\ w \in Slot /\ entries \in [Slot -> Descriptor]
      /\ n \in Nat /\ n < MaxEntries /\ AreaBlocks \in Nat /\ MaxEntries \in Nat
      /\ Distance(b, b) = 0
  BY DistanceType, ChannelAssumption DEF TypeOK, Descriptor
<1>1. /\ ring[w] = e
      /\ \A i \in Slot : i # w => ring[i] = entries[i]
  BY <1>0
<1>2. \A i \in Slot : /\ Distance(b, i) \in Nat
                      /\ Distance(b, i) < n + 1 => i = w \/ Distance(b, i) < n
                      /\ Distance(b, i) < n => i # w
  BY <1>0, DistanceType, DistanceInjective
<1>3. CASE b = w
  <2>1. o = 0 /\ m <= AreaBlocks
    BY <1>3 DEF FindSpace
  <2>2. n = 0
    BY <1>0, <1>3
  <2>3. \A i \in Slot : Distance(b, i) < n + 1 => i = w
    BY <1>2, <2>2, <1>0
  <2>4. \A i \in Slot : Distance(b, i) < n + 1 =>
           ring[i].rsize >= 1 /\ End(ring[i]) <= AreaBlocks
    BY <2>1, <2>3, <1>1 DEF End
  <2>5. \A i, j \in Slot :
          ~(Distance(b, i) < Distance(b, j) /\ Distance(b, j) < n + 1)
    BY <2>2, <1>2
  <2> QED BY <2>4, <2>5 DEF Layout
<1>4. CASE b # w
  <2>1. p \in Slot /\ Distance(b, p) = n - 1 /\ n >= 1 /\ p # w /\ Distance(b, p) < n
    BY <1>4, <1>0, <1>2, DistancePred
  <2>2. /\ entries[b].rsize >= 1 /\ End(entries[b]) <= AreaBlocks
        /\ entries[p].rsize >= 1 /\ End(entries[p]) <= AreaBlocks
    BY <2>1, <1>0 DEF Layout
  <2>3. /\ entries[b] \in Descriptor /\ entries[p] \in Descriptor
    BY <2>1, <1>0
  <2>4. \/ /\ entries[b].offset <= entries[p].offset
           /\ o = End(entries[p]) /\ o + m < AreaBlocks
        \/ /\ entries[b].offset <= entries[p].offset
           /\ o = 0 /\ m < entries[b].offset
        \/ /\ entries[b].offset > entries[p].offset
           /\ o = End(entries[p]) /\ o + m < entries[b].offset
    <3>1. /\ Newest = entries[p] /\ EndOfNewest = End(entries[p])
          /\ Oldest(b) = entries[b] /\ b # writeEntry
      BY <1>4 DEF Newest, EndOfNewest, Oldest, End
    <3>2. o \in (IF entries[b].offset <= entries[p].offset
                   THEN IF End(entries[p]) + m < AreaBlocks
                          THEN {End(entries[p])}
                          ELSE {z \in {0} : m < entries[b].offset}
                   ELSE {z \in {End(entries[p])} :
                           End(entries[p]) + m < entries[b].offset})
      BY <3>1 DEF FindSpace
    <3>3. End(entries[p]) \in Nat /\ entries[b].offset \in Nat /\ entries[p].offset \in Nat
      BY <2>3 DEF End, Descriptor
    <3> QED BY <3>2, <3>3
  <2>5. e \in Descriptor /\ e.offset = o /\ e.rsize = m
    BY <2>3, <2>4 DEF End, Descriptor
  <2>6. ring[b] = entries[b]
    BY <1>1, <1>4
  <2>7. \A i \in Slot : Distance(b, i) < n + 1 =>
           ring[i].rsize >= 1 /\ End(ring[i]) <= AreaBlocks
    <3>1. e.rsize >= 1 /\ End(e) <= AreaBlocks
      BY <2>2, <2>3, <2>4, <2>5, <1>0 DEF End, Descriptor
    <3> QED BY <3>1, <1>1, <1>2 DEF Layout
  <2>8. ASSUME NEW i \in Slot, NEW j \in Slot,
               Distance(b, i) < Distance(b, j), Distance(b, j) < n + 1
        PROVE  Ordered(ring, b, i, j)
    <3>1. CASE j # w
      <4>1. Distance(b, j) < n /\ Distance(b, i) < n /\ i # w
        BY <2>8, <3>1, <1>0, <1>2
      <4>2. Ordered(entries, b, i, j)
        BY <4>1, <2>8 DEF Layout
      <4> QED BY <4>1, <4>2, <3>1, <2>6, <1>1 DEF Ordered, FirstRun
    <3>2. CASE j = w
      <4>1. Distance(b, i) < n /\ i # w /\ Distance(b, j) = n /\ Distance(b, i) \in Nat
        BY <2>8, <3>2, <1>2
      <4>2. i = p \/ Ordered(entries, b, i, p)
        <5>1. i = p \/ Distance(b, i) # Distance(b, p)
          BY <2>1, DistanceInjective
        <5> QED BY <5>1, <4>1, <2>1, <1>0 DEF Layout
      <4>3. i = b \/ Ordered(entries, b, b, i)
        <5>1. i = b \/ Distance(b, i) # 0
          BY <1>0, DistanceInjective
        <5> QED BY <5>1, <4>1, <1>0 DEF Layout
      <4>4. p = b \/ Ordered(entries, b, b, p)
        <5>1. p = b \/ Distance(b, p) # 0
          BY <1>0, <2>1, DistanceInjective
        <5> QED BY <5>1, <2>1, <1>0 DEF Layout
      <4>5. entries[i] \in Descriptor /\ entries[i].rsize >= 1 /\ End(entries[i]) <= AreaBlocks
        BY <4>1, <1>0 DEF Layout
      <4>6. ring[i] = entries[i] /\ ring[j] = e
        BY <4>1, <3>2, <1>1
      <4>7. ASSUME entries[b].offset <= entries[p].offset,
                   o = End(entries[p]), o + m < AreaBlocks
            PROVE  Ordered(ring, b, i, j)
        BY <4>1, <4>2, <4>3, <4>4, <4>5, <4>6, <4>7, <2>1, <2>2, <2>3, <2>5, <2>6, <1>0
        DEF Ordered, FirstRun, End, Descriptor
      <4>8. ASSUME entries[b].offset <= entries[p].offset,
                   o = 0, m < entries[b].offset
            PROVE  Ordered(ring, b, i, j)
        BY <4>1, <4>2, <4>3, <4>4, <4>5, <4>6, <4>8, <2>1, <2>2, <2>3, <2>5, <2>6, <1>0
        DEF Ordered, FirstRun, End, Descriptor
      <4>9. ASSUME entries[b].offset > entries[p].offset,
                   o = End(entries[p]), o + m < entries[b].offset
            PROVE  Ordered(ring, b, i, j)
        BY <4>1, <4>2, <4>3, <4>4, <4>5, <4>6, <4>9, <2>1, <2>2, <2>3, <2>5, <2>6, <1>0
        DEF Ordered, FirstRun, End, Descriptor
      <4> QED BY <4>7, <4>8, <4>9, <2>4
    <3> QED BY <3>1, <3>2
  <2> QED BY <2>7, <2>8 DEF Layout
<1> QED BY <1>3, <1>4

(* What remains of a distance after part of it has been walked.            *)
LEMMA DistanceRemains ==
  ASSUME NEW b \in Slot, NEW c \in Slot, NEW i \in Slot,
         Distance(b, c) <= Distance(b, i)
  PROVE  Distance(c, i) = Distance(b, i) - Distance(b, c)
BY ChannelAssumption DEF Slot, Distance

(* The layout seen from a later base, with or without a reservation (r) at *)
(* write_entry w.                                                          *)
LEMMA LayoutRebased ==
  ASSUME NEW ring \in [Slot -> Descriptor], NEW b \in Slot, NEW c \in Slot,
         NEW w \in Slot, NEW r \in {0, 1},
         Layout(ring, b, Distance(b, w) + r), Distance(b, c) <= Distance(b, w)
  PROVE  Layout(ring, c, Distance(c, w) + r)
<1>1. /\ Distance(b, w) \in Nat /\ Distance(b, c) \in Nat
      /\ Distance(b, w) + r \in 0 .. MaxEntries
  BY DistanceType, ChannelAssumption
<1>2. Distance(c, w) = Distance(b, w) - Distance(b, c)
  BY DistanceRemains
<1>3. Distance(b, c) <= Distance(b, w) + r
  BY <1>1
<1>4. Layout(ring, c, (Distance(b, w) + r) - Distance(b, c))
  BY <1>1, <1>3, LayoutAdvances
<1>5. (Distance(b, w) + r) - Distance(b, c) = Distance(c, w) + r
  BY <1>1, <1>2
<1> QED BY <1>4, <1>5

(* Fewer slots of a layout are a layout.                                   *)
LEMMA LayoutShrinks ==
  ASSUME NEW ring \in [Slot -> Descriptor], NEW b \in Slot,
         NEW n \in Nat, Layout(ring, b, n + 1)
  PROVE  Layout(ring, b, n)
<1>1. \A i \in Slot : Distance(b, i) < n => Distance(b, i) < n + 1
  BY DistanceType, ChannelAssumption
<1> QED BY <1>1 DEF Layout

(* The layout is about offsets and reservations, not about sizes.          *)
LEMMA LayoutIgnoresSize ==
  ASSUME NEW ring \in [Slot -> Descriptor], NEW new \in [Slot -> Descriptor],
         NEW b \in Slot, NEW n \in Nat,
         \A i \in Slot : /\ new[i].offset = ring[i].offset
                         /\ new[i].rsize = ring[i].rsize,
         Layout(ring, b, n)
  PROVE  Layout(new, b, n)
BY DEF Layout, Ordered, FirstRun, End

-----------------------------------------------------------------------------
(* The inductive invariant.                                                *)

(* What RingInv says of the ring itself; the rest is about the write_entry *)
(* that the reader has seen and jumps to.                                  *)
CoreInv ==
  /\ Layout(entries, Base, Used)
  /\ Distance(Base, readEntry) <= Distance(Base, writeEntry)
  /\ rpc = "held" => readEntry # writeEntry
  /\ wpc = "find" => wsize >= 1
InOrder(b, r, c, w) ==
  Distance(b, r) <= Distance(b, c) /\ Distance(b, c) <= Distance(b, w)

LEMMA RingIsCore ==
  RingInv <=> /\ CoreInv
              /\ rpc \in {"clear", "drop"} => InOrder(Base, readEntry, bwe, writeEntry)
BY DEF RingInv, CoreInv, InOrder

(* Base is a position, and with the positions in order so is what is left. *)
LEMMA BaseType ==
  ASSUME TypeOK
  PROVE  /\ Base \in Slot /\ readEntry \in Slot /\ writeEntry \in Slot
         /\ bwe \in Slot /\ entries \in [Slot -> Descriptor]
         /\ Distance(Base, Base) = 0
         /\ Distance(Base, readEntry) \in Nat /\ Distance(Base, writeEntry) \in Nat
         /\ Distance(Base, bwe) \in Nat
BY DistanceType, ChannelAssumption DEF TypeOK, Base, Descriptor

(* At the start nothing is in use.                                         *)
LEMMA RingInvInit == Init => RingInv
<1> SUFFICES ASSUME Init PROVE RingInv
  OBVIOUS
<1>1. /\ Base = 0 /\ writeEntry = 0 /\ readEntry = 0
      /\ ~Reserved /\ rpc = "idle" /\ wpc = "idle"
  BY DEF Init, Base, Reserved
<1>2. 0 \in Slot /\ Distance(0, 0) = 0
  BY DistanceType, ChannelAssumption DEF Slot
<1>3. Used = 0
  BY <1>1, <1>2 DEF Used
<1>4. \A i \in Slot : ~(Distance(0, i) < 0)
  BY <1>2, DistanceType, ChannelAssumption
<1>5. \A i, j \in Slot : ~(Distance(0, i) < Distance(0, j) /\ Distance(0, j) < 0)
  BY <1>4
<1>6. Layout(entries, Base, Used)
  BY <1>1, <1>3, <1>4, <1>5 DEF Layout
<1> QED BY <1>1, <1>2, <1>6 DEF RingInv

(* With the packet about to be published there is a descriptor to spare.   *)
(* The code does not look (write_finish): where the area has fewer blocks  *)
(* than the ring descriptors, the blocks run out first; elsewhere it is a  *)
(* condition on how small the packets are.                                 *)
HasRoom ==
  wpc = "ready" => Distance(readEntry, writeEntry) + 1 < MaxEntries

LEMMA RoomBySize ==
  ASSUME TypeOK, CoreInv, AreaBlocks < MaxEntries
  PROVE  HasRoom
<1> SUFFICES ASSUME wpc = "ready"
             PROVE  Distance(readEntry, writeEntry) + 1 < MaxEntries
  BY DEF HasRoom
<1>1. Base = readEntry /\ Used = Distance(readEntry, writeEntry) + 1
  BY DEF Base, Used, Reserved
<1>2. Distance(readEntry, writeEntry) \in 0 .. MaxEntries - 1
  BY BaseType, DistanceType
<1>3. Used \in 1 .. MaxEntries
  BY <1>1, <1>2, ChannelAssumption
<1>4. Used <= AreaBlocks
  BY <1>1, <1>3, BaseType, LayoutBounded DEF CoreInv
<1> QED BY <1>1, <1>2, <1>3, <1>4, ChannelAssumption

(* The step of write_entry keeps the ring distance growing.                *)
LEMMA PublishFits ==
  ASSUME TypeOK, HasRoom, wpc = "ready"
  PROVE  /\ Base = readEntry /\ Used = Distance(readEntry, writeEntry) + 1
         /\ Distance(readEntry, writeEntry) + 1 < MaxEntries
         /\ Distance(readEntry, Succ(writeEntry)) = Distance(readEntry, writeEntry) + 1
         /\ Succ(writeEntry) # readEntry
<1>1. Base = readEntry /\ Used = Distance(readEntry, writeEntry) + 1
  BY DEF Base, Used, Reserved
<1>2. Distance(readEntry, writeEntry) + 1 < MaxEntries
  BY DEF HasRoom
<1> QED BY <1>1, <1>2, BaseType, DistanceSucc

(* Positions seen from a later base are in the same order.                 *)
LEMMA OrderRebased ==
  ASSUME NEW b \in Slot, NEW r \in Slot, NEW c \in Slot, NEW w \in Slot,
         InOrder(b, r, c, w)
  PROVE  InOrder(r, r, c, w)
<1>1. /\ Distance(b, r) \in Nat /\ Distance(b, c) \in Nat /\ Distance(b, w) \in Nat
      /\ Distance(r, r) = 0 /\ Distance(r, c) \in Nat
  BY DistanceType, ChannelAssumption
<1>2. Distance(b, r) <= Distance(b, c) /\ Distance(b, c) <= Distance(b, w)
      /\ Distance(b, r) <= Distance(b, w)
  BY <1>1 DEF InOrder
<1>3. /\ Distance(r, c) = Distance(b, c) - Distance(b, r)
      /\ Distance(r, w) = Distance(b, w) - Distance(b, r)
  BY <1>2, DistanceRemains
<1> QED BY <1>1, <1>2, <1>3 DEF InOrder

(* A step that leaves a position between the two sides where it is.        *)
KeepsOrder ==
  \A c \in Slot : InOrder(Base, readEntry, c, writeEntry)
                    => InOrder(Base', readEntry', c, writeEntry')

(* What is known of the ring when only the reader's program counter or     *)
(* locals of the writer change.                                            *)
LEMMA SameRing ==
  ASSUME TypeOK, CoreInv,
         UNCHANGED <<entries, readEntry, writeEntry>>,
         Base' = Base, Used' = Used,
         rpc' = "held" => readEntry # writeEntry,
         wpc' = "find" => wsize' >= 1
  PROVE  CoreInv' /\ KeepsOrder
BY DEF CoreInv, KeepsOrder, Layout, Ordered, FirstRun, End

(* The writer looks at read_entry again: the base becomes read_entry.      *)
LEMMA RebaseKeepsOrder ==
  ASSUME TypeOK, UNCHANGED <<readEntry, writeEntry>>, Base' = readEntry
  PROVE  KeepsOrder
BY BaseType, OrderRebased DEF KeepsOrder

(* The writer's steps.                                                     *)
LEMMA WriteKeepsRing ==
  ASSUME TypeOK, CoreInv, HasRoom, Write \/ Flushing
  PROVE  CoreInv' /\ KeepsOrder
<1> USE DEF shared, writer, reader
<1>1. ASSUME NEW n \in PacketBlocks, WriteStart(n) PROVE CoreInv' /\ KeepsOrder
  <2>1. n >= 1
    BY PacketType
  <2>2. Base' = Base /\ Used' = Used
    BY <1>1 DEF WriteStart, Base, Used, Reserved
  <2> QED BY <1>1, <2>1, <2>2, SameRing DEF WriteStart, CoreInv
<1>2. CASE Reserve
  <2> DEFINE d == Distance(wrp, writeEntry)
  <2> PICK o \in FindSpace(wrp, wsize) :
        entries' = [entries EXCEPT ![writeEntry] =
                      [offset |-> o, rsize |-> wsize, size |-> 0]]
    BY <1>2 DEF Reserve
  <2>1. /\ Base = wrp /\ ~Reserved /\ Used = d /\ wrp \in Slot
        /\ d \in Nat /\ wsize \in Nat /\ wsize >= 1 /\ Layout(entries, wrp, d)
    <3>1. Base = wrp /\ ~Reserved /\ wrp \in Slot /\ wsize \in Nat /\ wsize >= 1
      BY <1>2, PacketType DEF Reserve, Base, Reserved, CoreInv, TypeOK
    <3>2. d \in Nat
      BY <3>1, BaseType
    <3> QED BY <3>1, <3>2 DEF Used, CoreInv
  <2>2. Layout(entries', wrp, d + 1)
    BY <2>1, LayoutAppends
  <2>3. entries' \in [Slot -> Descriptor]
    <3>1. /\ Newest \in Descriptor /\ entries \in [Slot -> Descriptor]
      BY RingType, BaseType DEF Newest, Descriptor
    <3>2. o \in Nat
      BY <3>1 DEF FindSpace, EndOfNewest, Descriptor
    <3> QED BY <3>1, <3>2, <2>1 DEF Descriptor
  <2>4. Distance(wrp, readEntry) <= d
    BY <2>1 DEF CoreInv
  <2>5. Layout(entries', readEntry, Distance(readEntry, writeEntry) + 1)
    BY <2>1, <2>2, <2>3, <2>4, BaseType, LayoutRebased
  <2>6. /\ readEntry' = readEntry /\ writeEntry' = writeEntry /\ rpc' = rpc
        /\ wpc' = "fill" /\ Base' = readEntry
        /\ Used' = Distance(readEntry, writeEntry) + 1
    BY <1>2 DEF Reserve, Base, Used, Reserved
  <2>7. KeepsOrder
    BY <2>6, RebaseKeepsOrder
  <2>8. Distance(readEntry, readEntry) <= Distance(readEntry, writeEntry)
    BY BaseType, DistanceType, ChannelAssumption
  <2>9. Layout(entries, Base, Used)'
    BY <2>5, <2>6 DEF Layout, Ordered, FirstRun, End
  <2>10. rpc' = "held" => readEntry' # writeEntry'
    BY <2>6 DEF CoreInv
  <2> QED BY <2>6, <2>7, <2>8, <2>9, <2>10 DEF CoreInv
<1>3. CASE WriteRetry \/ WriteTimeout
  <2>1. /\ Base = wrp /\ ~Reserved /\ Used = Distance(wrp, writeEntry) + 0
        /\ UNCHANGED <<entries, readEntry, writeEntry, rpc>>
        /\ Base' = readEntry /\ Used' = Distance(readEntry, writeEntry) + 0
        /\ wpc' = "find" => wsize' >= 1
    <3>1. /\ Base = wrp /\ ~Reserved /\ ~Reserved'
          /\ UNCHANGED <<entries, readEntry, writeEntry, rpc>>
          /\ Base' = readEntry
          /\ wpc' = "find" => wsize' >= 1
      BY <1>3 DEF WriteRetry, WriteTimeout, Base, Reserved, CoreInv
    <3> QED BY <3>1 DEF Used
  <2>2. Layout(entries, readEntry, Distance(readEntry, writeEntry) + 0)
    BY <2>1, BaseType, LayoutRebased DEF CoreInv
  <2>3. KeepsOrder
    BY <2>1, RebaseKeepsOrder
  <2>4. Distance(readEntry, readEntry) <= Distance(readEntry, writeEntry)
    BY BaseType, DistanceType, ChannelAssumption
  <2>5. Layout(entries, Base, Used)'
    BY <2>1, <2>2 DEF Layout, Ordered, FirstRun, End
  <2> QED BY <2>1, <2>3, <2>4, <2>5 DEF CoreInv
<1>4. ASSUME NEW d \in Payload, Fill(d) PROVE CoreInv' /\ KeepsOrder
  <2>1. Base' = Base /\ Used' = Used
    BY <1>4 DEF Fill, Base, Used, Reserved
  <2> QED BY <1>4, <2>1, SameRing DEF Fill, CoreInv
<1>5. ASSUME NEW s \in PacketBlocks, WriteFinish(s) PROVE CoreInv' /\ KeepsOrder
  <2> DEFINE d == Distance(readEntry, writeEntry)
  <2>1. wpc = "ready" /\ wpc' = "idle" /\ UNCHANGED <<readEntry, rpc>>
        /\ writeEntry' = Succ(writeEntry)
    BY <1>5 DEF WriteFinish
  <2>2. /\ Base = readEntry /\ Used = d + 1 /\ d \in Nat
        /\ Distance(readEntry, Succ(writeEntry)) = d + 1
        /\ Succ(writeEntry) # readEntry
    BY <2>1, PublishFits, BaseType
  <2>3. /\ entries' \in [Slot -> Descriptor]
        /\ \A i \in Slot : /\ entries'[i].offset = entries[i].offset
                            /\ entries'[i].rsize = entries[i].rsize
    <3>1. s \in Nat
      BY PacketType
    <3> QED BY <3>1, <1>5, BaseType DEF WriteFinish, Descriptor
  <2>4. Layout(entries', readEntry, d + 1)
    BY <2>2, <2>3, BaseType, LayoutIgnoresSize DEF CoreInv
  <2>5. Base' = readEntry /\ Used' = d + 1
    BY <2>1, <2>2 DEF Base, Used, Reserved
  <2>6. Layout(entries, Base, Used)'
    BY <2>4, <2>5 DEF Layout, Ordered, FirstRun, End
  <2>7. /\ Distance(readEntry, readEntry) <= d + 1
        /\ rpc = "held" => readEntry # Succ(writeEntry)
    BY <2>2, BaseType, DistanceType, ChannelAssumption DEF CoreInv
  <2>8. ASSUME NEW c \in Slot, InOrder(readEntry, readEntry, c, writeEntry)
        PROVE  InOrder(readEntry, readEntry, c, Succ(writeEntry))
    BY <2>2, <2>8, BaseType, DistanceType DEF InOrder
  <2>9. KeepsOrder
    BY <2>1, <2>2, <2>5, <2>8 DEF KeepsOrder
  <2> QED BY <2>1, <2>2, <2>5, <2>6, <2>7, <2>9 DEF CoreInv
<1>6. CASE WriteAbandon
  <2>1. /\ Base = readEntry /\ Used = Distance(readEntry, writeEntry) + 1
        /\ Base' = readEntry /\ Used' = Distance(readEntry, writeEntry)
        /\ UNCHANGED <<entries, readEntry, writeEntry, rpc>> /\ wpc' = "idle"
    <3>1. Distance(readEntry, writeEntry) \in Nat
      BY BaseType, DistanceType
    <3> QED BY <1>6, <3>1 DEF WriteAbandon, Base, Used, Reserved
  <2>2. Layout(entries, readEntry, Distance(readEntry, writeEntry))
    BY <2>1, BaseType, LayoutShrinks DEF CoreInv
  <2>3. Layout(entries, Base, Used)'
    BY <2>1, <2>2 DEF Layout, Ordered, FirstRun, End
  <2>4. KeepsOrder
    BY <2>1, RebaseKeepsOrder
  <2> QED BY <2>1, <2>3, <2>4 DEF CoreInv
<1>7. CASE Flushing
  <2>1. Base' = Base /\ Used' = Used /\ wpc' # "find"
        /\ UNCHANGED <<entries, readEntry, writeEntry, rpc>>
    BY <1>7 DEF Flushing, Invalidate, InvalidateDone, InvalidateTimeout, Base, Used, Reserved
  <2> QED BY <2>1, SameRing DEF CoreInv
<1> QED BY <1>1, <1>2, <1>3, <1>4, <1>5, <1>6, <1>7 DEF Write

(* What the writer leaves to the reader.                                   *)
LEMMA WriteSparesReader ==
  ASSUME Write \/ Flushing
  PROVE  UNCHANGED <<readEntry, rpc, bwe>>
BY DEF Write, Flushing, WriteStart, Reserve, WriteRetry, WriteTimeout, Fill,
   WriteFinish, WriteAbandon, Invalidate, InvalidateDone, InvalidateTimeout,
   shared, reader

(* The reader moves to a position c between its own and the writer's.      *)
LEMMA ReaderMoves ==
  ASSUME TypeOK, CoreInv, NEW c \in Slot,
         readEntry' = c,
         UNCHANGED <<entries, writeEntry, wpc, wrp, wsize>>,
         InOrder(Base, readEntry, c, writeEntry),
         rpc' = "idle"
  PROVE  CoreInv'
<1> DEFINE r == IF Reserved THEN 1 ELSE 0
<1>0. r \in {0, 1} /\ Used = Distance(Base, writeEntry) + r
      /\ Layout(entries, Base, Used)
      /\ Distance(Base, c) <= Distance(Base, writeEntry)
  BY DEF Used, CoreInv, InOrder
<1>1. CASE wpc = "find"
  <2>1. Base' = Base /\ Used' = Used
    BY <1>1 DEF Base, Used, Reserved
  <2> QED BY <1>0, <2>1, <1>1 DEF CoreInv, Layout, Ordered, FirstRun, End
<1>2. CASE wpc # "find"
  <2>1. Base' = c /\ Used' = Distance(c, writeEntry) + r
    BY <1>2 DEF Base, Used, Reserved
  <2>2. Layout(entries, c, Distance(c, writeEntry) + r)
    BY <1>0, BaseType, LayoutRebased
  <2>3. Layout(entries, Base, Used)'
    BY <2>1, <2>2 DEF Layout, Ordered, FirstRun, End
  <2>4. Distance(c, c) <= Distance(c, writeEntry)
    BY BaseType, DistanceType, ChannelAssumption
  <2> QED BY <2>1, <2>3, <2>4, <1>2 DEF CoreInv
<1> QED BY <1>1, <1>2

(* The reader's steps with the flag clear.                                 *)
Taking == ReadStart \/ ReadTimeout \/ ReadTake \/ ReadFinish

(* The next packet after a held one is still not beyond the writer.        *)
LEMMA NextInOrder ==
  ASSUME TypeOK, CoreInv, rpc = "held"
  PROVE  /\ Succ(readEntry) \in Slot /\ readEntry # writeEntry
         /\ InOrder(Base, readEntry, Succ(readEntry), writeEntry)
<1>1. readEntry # writeEntry /\ Succ(readEntry) \in Slot
  BY BaseType, RingType DEF CoreInv
<1>2. Distance(Base, readEntry) < Distance(Base, writeEntry)
  BY <1>1, BaseType, DistanceInjective DEF CoreInv
<1>3. Distance(Base, Succ(readEntry)) = Distance(Base, readEntry) + 1
  <2>1. Distance(Base, writeEntry) < MaxEntries
    BY BaseType, DistanceType, ChannelAssumption
  <2>2. Distance(Base, readEntry) + 1 < MaxEntries
    BY <1>2, <2>1, BaseType, ChannelAssumption
  <2> QED BY <2>2, BaseType, DistanceSucc
<1> QED BY <1>1, <1>2, <1>3, BaseType DEF InOrder

LEMMA TakingKeepsRing ==
  ASSUME TypeOK, CoreInv, Taking
  PROVE  CoreInv' /\ rpc' \in {"idle", "poll", "held"}
<1> USE DEF shared, writer, reader
<1>1. CASE ReadStart \/ ReadTimeout \/ ReadTake
  <2>1. Base' = Base /\ Used' = Used
    BY <1>1 DEF ReadStart, ReadTimeout, ReadTake, Base, Used, Reserved
  <2> QED
    BY <1>1, <2>1, SameRing DEF ReadStart, ReadTimeout, ReadTake, CoreInv
<1>2. CASE ReadFinish
  BY <1>2, NextInOrder, ReaderMoves DEF ReadFinish
<1> QED BY <1>1, <1>2 DEF Taking

(* The reader's steps.                                                     *)
LEMMA ReadKeepsRing ==
  ASSUME TypeOK, RingInv, Read
  PROVE  RingInv'
<1> USE DEF shared, writer, reader
<1>0. /\ CoreInv
      /\ rpc \in {"clear", "drop"} => InOrder(Base, readEntry, bwe, writeEntry)
  BY RingIsCore
<1>1. CASE FlushSample
  <2>1. Base' = Base /\ Used' = Used
    BY <1>1 DEF FlushSample, Base, Used, Reserved
  <2> QED
    BY <1>1, <2>1, BaseType DEF FlushSample, RingInv, Layout, Ordered, FirstRun, End
<1>2. CASE FlushClear
  <2>1. Base' = Base /\ Used' = Used
    BY <1>2 DEF FlushClear, Base, Used, Reserved
  <2> QED
    BY <1>2, <2>1 DEF FlushClear, RingInv, Layout, Ordered, FirstRun, End
<1>3. CASE FlushDrop
  <2>1. CoreInv'
    BY <1>0, <1>3, BaseType, ReaderMoves DEF FlushDrop
  <2> QED BY <1>3, <2>1 DEF FlushDrop, RingInv, CoreInv
<1>4. CASE Taking
  BY <1>0, <1>4, TakingKeepsRing DEF RingInv, CoreInv
<1> QED BY <1>1, <1>2, <1>3, <1>4 DEF Read, Taking

(* RingInv is inductive.                                                   *)
LEMMA RingInvStep ==
  ASSUME TypeOK, RingInv, HasRoom, [Next]_vars
  PROVE  RingInv'
<1>1. ASSUME TypeOK, RingInv, UNCHANGED vars PROVE RingInv'
  BY <1>1 DEF vars, shared, writer, reader, RingInv, Layout, Ordered, FirstRun,
     End, Base, Used, Reserved
<1>2. ASSUME TypeOK, RingInv, HasRoom, Write \/ Flushing PROVE RingInv'
  <2>1. /\ CoreInv' /\ KeepsOrder
        /\ rpc \in {"clear", "drop"} => InOrder(Base, readEntry, bwe, writeEntry)
    BY <1>2, RingIsCore, WriteKeepsRing
  <2>2. UNCHANGED <<readEntry, rpc, bwe>> /\ bwe \in Slot
    BY <1>2, WriteSparesReader, BaseType
  <2>3. rpc \in {"clear", "drop"} => InOrder(Base', readEntry', bwe, writeEntry')
    BY <2>1, <2>2 DEF KeepsOrder
  <2> QED BY <2>1, <2>2, <2>3 DEF RingInv, CoreInv, InOrder
<1> QED BY <1>1, <1>2, ReadKeepsRing DEF Next

LEMMA RingInvWithRoom == Spec /\ []HasRoom => [](TypeOK /\ RingInv)
BY RingInvInit, RingInvStep, TypeCorrect, PTL DEF Spec

(* Where the area has fewer blocks than the ring has descriptors it needs  *)
(* no condition, and there is always a descriptor to spare.                *)
THEOREM RingInvHolds ==
  ASSUME AreaBlocks < MaxEntries
  PROVE  Spec => [](TypeOK /\ RingInv /\ HasRoom)
<1>1. TypeOK /\ RingInv => HasRoom
  BY RoomBySize, RingIsCore
<1> QED BY <1>1, RingInvInit, RingInvStep, TypeCorrect, PTL DEF Spec

-----------------------------------------------------------------------------
(* Packets in use share no block.                                          *)
LEMMA Disjoint ==
  ASSUME TypeOK, CoreInv, NEW i \in Slot, NEW j \in Slot, InUse(i), InUse(j), i # j
  PROVE  ~Overlap(entries[i], entries[j])
<1>1. /\ entries[i] \in Descriptor /\ entries[j] \in Descriptor
      /\ entries[Base] \in Descriptor
  BY BaseType
<1>2. Distance(Base, i) \in Nat /\ Distance(Base, j) \in Nat
  BY BaseType, DistanceType
<1>3. Distance(Base, i) # Distance(Base, j)
  BY BaseType, DistanceInjective
<1>4. Ordered(entries, Base, i, j) \/ Ordered(entries, Base, j, i)
  BY <1>2, <1>3 DEF CoreInv, Layout, InUse
<1>5. entries[i].rsize >= 1 /\ entries[j].rsize >= 1
  BY DEF CoreInv, Layout, InUse
<1> QED BY <1>1, <1>2, <1>4, <1>5 DEF Ordered, FirstRun, Overlap, End, Descriptor

(* No two packets in use share a block: whatever the writer puts into its  *)
(* reservation, the packets the reader has not finished stay untouched     *)
(* (find_space against read_finish and the flush).                         *)
THEOREM NoOverwrite ==
  ASSUME AreaBlocks < MaxEntries
  PROVE  Spec => []RegionsDisjoint
<1>1. TypeOK /\ RingInv => RegionsDisjoint
  BY Disjoint, RingIsCore DEF RegionsDisjoint
<1> QED BY <1>1, RingInvHolds, PTL

(* A publication is always visible: write_entry never runs into read_entry *)
(* from behind, although write_finish does not look.                       *)
THEOREM NothingPublishedIsLost ==
  ASSUME AreaBlocks < MaxEntries
  PROVE  Spec => PublishIsVisible
<1>1. TypeOK /\ HasRoom /\ [Next]_vars
        => [writeEntry' # writeEntry => writeEntry' # readEntry]_vars
  <2> SUFFICES ASSUME TypeOK, HasRoom, Next, writeEntry' # writeEntry
               PROVE  writeEntry' # readEntry
    BY DEF vars
  <2> USE DEF shared, writer, reader
  <2>1. PICK s \in PacketBlocks : WriteFinish(s)
    BY DEF Next, Write, Flushing, Read, WriteStart, Reserve, WriteRetry, WriteTimeout,
       Fill, WriteAbandon, Invalidate, InvalidateDone, InvalidateTimeout, FlushSample,
       FlushClear, FlushDrop, ReadStart, ReadTimeout, ReadTake, ReadFinish
  <2> QED BY <2>1, PublishFits DEF WriteFinish
<1> QED BY <1>1, RingInvHolds, PTL DEF Spec, PublishIsVisible

-----------------------------------------------------------------------------
(* What invalidate waits for.  A request that no earlier one overlaps is   *)
(* answered from the start: write_entry is sampled after it was made, and  *)
(* once it is taken back the reader has nothing left to find.              *)
FlushInv ==
  /\ rpc = "clear" => invalidate
  /\ wpc = "inval" /\ ~wstale /\ rpc = "clear" => bwe = writeEntry
  /\ wpc = "inval" /\ ~wstale /\ ~invalidate => First = writeEntry /\ rpc # "held"

(* No step breaks it, on either side.                                      *)
LEMMA FlushInvariance == Spec => [](TypeOK /\ FlushInv)
<1>1. Init => FlushInv
  BY DEF Init, FlushInv
<1>2. TypeOK /\ FlushInv /\ [Next]_vars => FlushInv'
  <2> SUFFICES ASSUME TypeOK, FlushInv, [Next]_vars PROVE FlushInv'
    OBVIOUS
  <2> USE DEF TypeOK, FlushInv, First, shared, writer, reader
  <2>1. CASE Write
    BY <2>1 DEF Write, WriteStart, Reserve, WriteRetry, WriteTimeout, Fill, WriteFinish,
       WriteAbandon
  <2>2. CASE Flushing
    BY <2>2 DEF Flushing, Invalidate, InvalidateDone, InvalidateTimeout
  <2>3. CASE FlushSample \/ FlushClear \/ FlushDrop
    BY <2>3 DEF FlushSample, FlushClear, FlushDrop
  <2>4. CASE ReadStart \/ ReadTimeout \/ ReadTake \/ ReadFinish
    BY <2>4 DEF ReadStart, ReadTimeout, ReadTake, ReadFinish
  <2>5. CASE UNCHANGED vars
    BY <2>5 DEF vars
  <2> QED BY <2>1, <2>2, <2>3, <2>4, <2>5 DEF Next, Read
<1> QED BY <1>1, <1>2, TypeCorrect, PTL DEF Spec

(* For every ring: when invalidate returns 0 and no earlier request was    *)
(* outstanding, nothing written before the call can be read any more.      *)
THEOREM FlushLeavesNothing == Spec => []FlushEmptiesChannel
<1>1. TypeOK /\ FlushInv => FlushEmptiesChannel
  <2> SUFFICES ASSUME TypeOK, FlushInv, wpc = "inval", ~invalidate, ~wstale
               PROVE  Pending = << >>
    BY DEF FlushEmptiesChannel
  <2>1. First = writeEntry
    BY DEF FlushInv
  <2>2. Distance(First, writeEntry) = 0
    BY <2>1, DistanceType DEF TypeOK
  <2> QED BY <2>2 DEF Pending
<1> QED BY <1>1, FlushInvariance, PTL

-----------------------------------------------------------------------------
(* The queue of the refinement, for any ring and any content of the data   *)
(* area: what a descriptor stands for, and the packets from f to w.        *)
Content(ring, m, i) ==
  [k \in 1 .. ring[i].size |-> m[ring[i].offset + k - 1]]
Queue(ring, m, f, w) ==
  [k \in 1 .. Distance(f, w) |-> Content(ring, m, (f + k - 1) % MaxEntries)]

(* One remainder is enough for the sum of two positions.                   *)
LEMMA ModOnce ==
  ASSUME NEW a \in Nat, a < 2 * MaxEntries
  PROVE  a % MaxEntries = IF a < MaxEntries THEN a ELSE a - MaxEntries
<1>1. CASE a < MaxEntries
  BY <1>1, ChannelAssumption
<1>2. CASE a >= MaxEntries
  BY <1>2, ChannelAssumption
<1> QED BY <1>1, <1>2, ChannelAssumption

(* The k-th slot from f on is k - 1 away from it.                          *)
LEMMA SlotOf ==
  ASSUME NEW f \in Slot, NEW w \in Slot, NEW k \in 1 .. Distance(f, w)
  PROVE  /\ (f + k - 1) % MaxEntries \in Slot
         /\ Distance(f, (f + k - 1) % MaxEntries) = k - 1
<1> DEFINE a == f + k - 1
<1>1. a \in Nat /\ a < 2 * MaxEntries /\ k \in Nat /\ k < MaxEntries
  BY DistanceType, ChannelAssumption DEF Slot
<1>2. a % MaxEntries = IF a < MaxEntries THEN a ELSE a - MaxEntries
  <2> HIDE DEF a
  <2> QED BY <1>1, ModOnce
<1> QED BY <1>1, <1>2, ChannelAssumption DEF Slot, Distance

(* The k-th slot from f on, the other way round.                           *)
LEMMA SlotIs ==
  ASSUME NEW f \in Slot, NEW i \in Slot
  PROVE  (f + Distance(f, i)) % MaxEntries = i
<1> DEFINE a == f + Distance(f, i)
<1>1. a \in Nat /\ a < 2 * MaxEntries
  BY DistanceType, ChannelAssumption DEF Slot
<1>2. a % MaxEntries = IF a < MaxEntries THEN a ELSE a - MaxEntries
  <2> HIDE DEF a
  <2> QED BY <1>1, ModOnce
<1> QED BY <1>1, <1>2, ChannelAssumption DEF Slot, Distance

(* Append, Head and Tail of a sequence given as a function.                *)
LEMMA SeqIsFun ==
  ASSUME NEW n \in Nat, NEW f, f = [k \in 1 .. n |-> f[k]], NEW x
  PROVE  /\ Append(f, x) = [k \in 1 .. n + 1 |-> IF k = n + 1 THEN x ELSE f[k]]
         /\ n > 0 => Head(f) = f[1] /\ Tail(f) = [k \in 1 .. n - 1 |-> f[k+1]]
OBVIOUS

(* Rings that agree on the slots from f to w hold the same packets.        *)
LEMMA QueueSame ==
  ASSUME NEW ring, NEW new, NEW m, NEW n, NEW f \in Slot, NEW w \in Slot,
         \A i \in Slot : Distance(f, i) < Distance(f, w) =>
                           Content(new, n, i) = Content(ring, m, i)
  PROVE  Queue(new, n, f, w) = Queue(ring, m, f, w)
<1>1. ASSUME NEW k \in 1 .. Distance(f, w)
      PROVE  Content(new, n, (f + k - 1) % MaxEntries)
               = Content(ring, m, (f + k - 1) % MaxEntries)
  <2>1. Distance(f, w) \in Nat
    BY DistanceType
  <2>2. k - 1 < Distance(f, w)
    BY <2>1
  <2> QED BY <2>2, SlotOf
<1> QED BY <1>1 DEF Queue

(* One packet more: it comes last.                                         *)
LEMMA QueueAppends ==
  ASSUME NEW ring, NEW m, NEW f \in Slot, NEW w \in Slot,
         Distance(f, w) + 1 < MaxEntries
  PROVE  Queue(ring, m, f, Succ(w)) = Append(Queue(ring, m, f, w), Content(ring, m, w))
<1> DEFINE n == Distance(f, w)
           q == Queue(ring, m, f, w)
           e(k) == Content(ring, m, (f + k - 1) % MaxEntries)
<1>1. n \in Nat
  BY DistanceType
<1>2. Distance(f, Succ(w)) = n + 1
  BY DistanceSucc
<1>3. q = [k \in 1 .. n |-> q[k]] /\ \A k \in 1 .. n : q[k] = e(k)
  BY DEF Queue
<1>4. e(n + 1) = Content(ring, m, w)
  BY <1>1, SlotIs DEF Slot
<1>5. Queue(ring, m, f, Succ(w)) = [k \in 1 .. n + 1 |-> e(k)]
  BY <1>2 DEF Queue
<1>6. Append(q, Content(ring, m, w))
        = [k \in 1 .. n + 1 |-> IF k = n + 1 THEN Content(ring, m, w) ELSE q[k]]
  <2> HIDE DEF q, n
  <2> QED BY <1>1, <1>3, SeqIsFun
<1>7. \A k \in 1 .. n + 1 :
        e(k) = IF k = n + 1 THEN Content(ring, m, w) ELSE q[k]
  <2> SUFFICES ASSUME NEW k \in 1 .. n + 1
               PROVE  e(k) = IF k = n + 1 THEN Content(ring, m, w) ELSE q[k]
    OBVIOUS
  <2> HIDE DEF e, q, n
  <2>1. k = n + 1 \/ k \in 1 .. n
    BY <1>1
  <2> QED BY <2>1, <1>3, <1>4
<1> HIDE DEF e, q, n
<1>8. [k \in 1 .. n + 1 |-> e(k)]
        = [k \in 1 .. n + 1 |-> IF k = n + 1 THEN Content(ring, m, w) ELSE q[k]]
  BY <1>7
<1> QED BY <1>5, <1>6, <1>8 DEF n, q

(* One packet less: the rest moves up.                                     *)
LEMMA QueueAdvances ==
  ASSUME NEW ring, NEW m, NEW f \in Slot, NEW w \in Slot, f # w
  PROVE  /\ Queue(ring, m, f, w) # << >>
         /\ Head(Queue(ring, m, f, w)) = Content(ring, m, f)
         /\ Queue(ring, m, Succ(f), w) = Tail(Queue(ring, m, f, w))
<1> DEFINE n == Distance(f, w)
           q == Queue(ring, m, f, w)
           e(k) == Content(ring, m, (f + k - 1) % MaxEntries)
<1>1. n \in Nat /\ n > 0 /\ Succ(f) \in Slot
  <2>1. n \in Nat /\ Distance(f, f) = 0
    BY DistanceType
  <2>2. n # 0
    BY <2>1, DistanceInjective
  <2> QED BY <2>1, <2>2, RingType
<1>2. Distance(Succ(f), w) = n - 1
  BY SuccValue, ChannelAssumption DEF Slot, Distance
<1>3. q = [k \in 1 .. n |-> q[k]] /\ \A k \in 1 .. n : q[k] = e(k)
  BY DEF Queue
<1>4. e(1) = Content(ring, m, f)
  <2>1. (f + 1 - 1) = f + Distance(f, f)
    BY DistanceType DEF Slot
  <2> QED BY <2>1, SlotIs
<1>5. \A k \in 1 .. n - 1 : (Succ(f) + k - 1) % MaxEntries = (f + (k + 1) - 1) % MaxEntries
  <2> SUFFICES ASSUME NEW k \in 1 .. n - 1
               PROVE  (Succ(f) + k - 1) % MaxEntries = (f + (k + 1) - 1) % MaxEntries
    OBVIOUS
  <2>1. k \in 1 .. Distance(Succ(f), w) /\ k + 1 \in 1 .. Distance(f, w) /\ k \in Nat
    BY <1>1, <1>2
  <2> DEFINE i == (Succ(f) + k - 1) % MaxEntries
             j == (f + (k + 1) - 1) % MaxEntries
  <2>2. i \in Slot /\ Distance(Succ(f), i) = k - 1
    BY <1>1, <2>1, SlotOf
  <2>3. j \in Slot /\ Distance(f, j) = (k + 1) - 1
    BY <1>1, <2>1, SlotOf
  <2> HIDE DEF i, j
  <2>4. i = j
    BY <2>1, <2>2, <2>3, SuccValue, ChannelAssumption DEF Slot, Distance
  <2> QED BY <2>4 DEF i, j
<1>6. Queue(ring, m, Succ(f), w) = [k \in 1 .. n - 1 |-> e(k + 1)]
  BY <1>2, <1>5 DEF Queue
<1> HIDE DEF e, q, n
<1>7. Head(q) = q[1] /\ Tail(q) = [k \in 1 .. n - 1 |-> q[k + 1]]
  BY <1>1, <1>3, SeqIsFun
<1>8. 1 \in 1 .. n /\ \A k \in 1 .. n - 1 : k + 1 \in 1 .. n
  BY <1>1
<1>9. q # << >>
  BY <1>1, <1>3
<1> QED BY <1>3, <1>4, <1>6, <1>7, <1>8, <1>9 DEF q

(* What the packets contain.  The writer fills what it has reserved with   *)
(* one payload, and every packet that is still to be read is what it was   *)
(* when it was published.                                                  *)
OnePayload(i) ==
  \E d \in Payload : \A b \in Block :
    b >= entries[i].offset /\ b < End(entries[i]) => mem[b] = d
Whole(i) == /\ entries[i].size \in PacketBlocks
            /\ entries[i].size <= entries[i].rsize
            /\ OnePayload(i)

PacketInv ==
  /\ wpc = "find" => wsize \in PacketBlocks
  /\ Reserved => entries[writeEntry].rsize \in PacketBlocks
  /\ wpc = "ready" => OnePayload(writeEntry)
  /\ \A i \in Slot : Unread(i) => Whole(i)

(* Unread packets and the reservation are the slots in use.                *)
LEMMA UnreadInUse ==
  ASSUME TypeOK, CoreInv, NEW i \in Slot
  PROVE  /\ Unread(i) => InUse(i) /\ i # writeEntry
         /\ Reserved => InUse(writeEntry)
         /\ InUse(i) => End(entries[i]) <= AreaBlocks /\ entries[i].rsize >= 1
<1>1. /\ Base \in Slot /\ readEntry \in Slot /\ writeEntry \in Slot
      /\ Distance(Base, readEntry) \in Nat /\ Distance(Base, writeEntry) \in Nat
      /\ Distance(Base, readEntry) <= Distance(Base, writeEntry)
      /\ Distance(Base, i) \in Nat
      /\ Distance(readEntry, i) \in Nat /\ Distance(readEntry, writeEntry) \in Nat
  BY BaseType, DistanceType DEF CoreInv
<1>2. Distance(readEntry, writeEntry)
        = Distance(Base, writeEntry) - Distance(Base, readEntry)
  BY <1>1, DistanceRemains
<1>3. Distance(Base, writeEntry) < MaxEntries /\ MaxEntries \in Nat
  BY <1>1, DistanceType, ChannelAssumption
<1>4. Unread(i) => Distance(Base, i) < Distance(Base, writeEntry)
  <2> SUFFICES ASSUME Unread(i) PROVE Distance(Base, i) < Distance(Base, writeEntry)
    OBVIOUS
  <2>1. Distance(Base, readEntry) + Distance(readEntry, i) < Distance(Base, writeEntry)
    BY <1>1, <1>2 DEF Unread
  <2>2. Distance(Base, readEntry) + Distance(readEntry, i) < MaxEntries
    BY <2>1, <1>1, <1>3
  <2>3. Distance(Base, i) = Distance(Base, readEntry) + Distance(readEntry, i)
    BY <2>2, <1>1, DistanceAdds
  <2> QED BY <2>1, <2>3
<1>5. Unread(i) => i # writeEntry
  BY <1>1 DEF Unread
<1>6. Reserved => Used = Distance(Base, writeEntry) + 1
  BY DEF Used
<1>7. Used >= Distance(Base, writeEntry) /\ Used \in Nat
  BY <1>1 DEF Used
<1>8. InUse(i) => End(entries[i]) <= AreaBlocks /\ entries[i].rsize >= 1
  BY DEF CoreInv, Layout, InUse
<1> QED BY <1>1, <1>4, <1>5, <1>6, <1>7, <1>8 DEF InUse

(* What a fill leaves alone.                                               *)
LEMMA FillSpares ==
  ASSUME TypeOK, CoreInv, NEW d \in Payload, Fill(d), NEW i \in Slot, Unread(i),
         NEW b \in Block, b >= entries[i].offset, b < End(entries[i])
  PROVE  mem'[b] = mem[b]
<1>1. InUse(i) /\ InUse(writeEntry) /\ i # writeEntry
  BY UnreadInUse DEF Fill, Reserved
<1>2. ~Overlap(entries[i], entries[writeEntry])
  BY <1>1, BaseType, Disjoint
<1>3. /\ entries[i] \in Descriptor /\ entries[writeEntry] \in Descriptor
      /\ b \in Nat
  BY BaseType DEF Block
<1>4. ~(b >= entries[writeEntry].offset /\ b < End(entries[writeEntry]))
  BY <1>2, <1>3 DEF Overlap, End, Descriptor
<1> QED BY <1>4 DEF Fill, End

(* From a position between the two sides on, all is unread.                *)
LEMMA UnreadFrom ==
  ASSUME NEW r \in Slot, NEW c \in Slot, NEW w \in Slot, NEW i \in Slot,
         Distance(r, c) <= Distance(r, w), Distance(c, i) < Distance(c, w)
  PROVE  Distance(r, i) < Distance(r, w)
<1>1. /\ Distance(r, c) \in Nat /\ Distance(r, w) \in Nat /\ Distance(c, i) \in Nat
      /\ Distance(r, w) < MaxEntries /\ MaxEntries \in Nat
  BY DistanceType, ChannelAssumption
<1>2. Distance(c, w) = Distance(r, w) - Distance(r, c)
  BY DistanceRemains
<1>3. Distance(r, i) = Distance(r, c) + Distance(c, i)
  BY <1>1, <1>2, DistanceAdds
<1> QED BY <1>1, <1>2, <1>3

(* The sampled write_entry lies between the two sides.                     *)
LEMMA FirstInRange ==
  ASSUME TypeOK, RingInv
  PROVE  /\ First \in Slot
         /\ Distance(readEntry, First) <= Distance(readEntry, writeEntry)
         /\ rpc \in {"clear", "drop"} =>
               Distance(readEntry, bwe) <= Distance(readEntry, writeEntry)
         /\ \A i \in Slot : Distance(First, i) < Distance(First, writeEntry) => Unread(i)
<1>1. First \in Slot
  BY BaseType DEF First
<1>2. rpc \in {"clear", "drop"} =>
        Distance(readEntry, bwe) <= Distance(readEntry, writeEntry)
  BY BaseType, DistanceRemains DEF RingInv
<1>3. Distance(readEntry, First) <= Distance(readEntry, writeEntry)
  <2>1. Distance(readEntry, readEntry) <= Distance(readEntry, writeEntry)
    BY BaseType, DistanceType, ChannelAssumption
  <2> QED BY <2>1, <1>2 DEF First
<1> QED BY <1>1, <1>2, <1>3, BaseType, UnreadFrom DEF Unread

(* When nothing is written, what becomes unread stays whole.               *)
LEMMA MoveKeepsPackets ==
  ASSUME TypeOK, PacketInv, UNCHANGED <<entries, mem, writeEntry, wpc, wsize>>,
         NEW c \in Slot, readEntry' = c,
         Distance(readEntry, c) <= Distance(readEntry, writeEntry)
  PROVE  PacketInv'
<1>1. \A i \in Slot : Unread(i)' => Unread(i)
  BY BaseType, UnreadFrom DEF Unread
<1>2. ASSUME NEW i \in Slot, Unread(i)' PROVE Whole(i)'
  BY <1>1, <1>2 DEF PacketInv, Whole, OnePayload, End
<1> QED BY <1>1, <1>2 DEF PacketInv, Reserved, OnePayload, End

LEMMA StayKeepsPackets ==
  ASSUME TypeOK, PacketInv, UNCHANGED <<entries, mem, writeEntry, wpc, wsize, readEntry>>
  PROVE  PacketInv'
BY BaseType, DistanceType, ChannelAssumption, MoveKeepsPackets

LEMMA TakingKeepsPackets ==
  ASSUME TypeOK, CoreInv, PacketInv, Taking
  PROVE  PacketInv'
<1> USE DEF shared, writer
<1>1. CASE ReadStart \/ ReadTimeout \/ ReadTake
  BY <1>1, StayKeepsPackets DEF ReadStart, ReadTimeout, ReadTake
<1>2. CASE ReadFinish
  <2>1. readEntry # writeEntry /\ readEntry \in Slot /\ writeEntry \in Slot
        /\ Succ(readEntry) \in Slot
    BY <1>2, BaseType, RingType DEF ReadFinish, CoreInv
  <2>2. Distance(readEntry, Succ(readEntry)) <= Distance(readEntry, writeEntry)
    BY <2>1, SuccValue, ChannelAssumption DEF Slot, Distance
  <2> QED BY <1>2, <2>1, <2>2, MoveKeepsPackets DEF ReadFinish
<1> QED BY <1>1, <1>2 DEF Taking

LEMMA ReadKeepsPackets ==
  ASSUME TypeOK, RingInv, PacketInv, Read
  PROVE  PacketInv'
<1> USE DEF shared, writer
<1>1. CASE FlushSample \/ FlushClear
  BY <1>1, StayKeepsPackets DEF FlushSample, FlushClear
<1>2. CASE FlushDrop
  BY <1>2, BaseType, FirstInRange, MoveKeepsPackets DEF FlushDrop
<1>3. CASE Taking
  BY <1>3, RingIsCore, TakingKeepsPackets
<1> QED BY <1>1, <1>2, <1>3 DEF Read, Taking

(* No write reaches a packet that is to be read, and what is published has *)
(* been filled with one payload and is no longer than its reservation.     *)
LEMMA WriteKeepsPackets ==
  ASSUME TypeOK, CoreInv, PacketInv, HasRoom, Write \/ Flushing
  PROVE  PacketInv'
<1> USE DEF shared, writer, reader
<1>0. readEntry' = readEntry
  BY DEF Write, Flushing, WriteStart, Reserve, WriteRetry, WriteTimeout, Fill,
     WriteFinish, WriteAbandon, Invalidate, InvalidateDone, InvalidateTimeout
<1>1. CASE (\E n \in PacketBlocks : WriteStart(n)) \/ WriteRetry \/ WriteTimeout
           \/ WriteAbandon \/ Flushing
  BY <1>1 DEF WriteStart, WriteRetry, WriteTimeout, WriteAbandon, Flushing, Invalidate,
     InvalidateDone, InvalidateTimeout, PacketInv, Reserved, Unread, Whole, OnePayload, End
<1>2. CASE Reserve
  <2> PICK o \in FindSpace(wrp, wsize) :
        entries' = [entries EXCEPT ![writeEntry] =
                      [offset |-> o, rsize |-> wsize, size |-> 0]]
    BY <1>2 DEF Reserve
  <2>1. \A i \in Slot : i # writeEntry => entries'[i] = entries[i]
    BY BaseType
  <2>2. entries'[writeEntry].rsize \in PacketBlocks
    BY <1>2, BaseType DEF Reserve, PacketInv
  <2>3. /\ UNCHANGED <<mem, readEntry, writeEntry>> /\ wpc' = "fill"
    BY <1>2 DEF Reserve
  <2>4. ASSUME NEW i \in Slot, Unread(i)' PROVE Whole(i)'
    <3>1. Unread(i) /\ i # writeEntry
      BY <2>3, <2>4, UnreadInUse DEF Unread
    <3> QED BY <2>1, <2>3, <3>1 DEF PacketInv, Whole, OnePayload, End
  <2> QED BY <2>2, <2>3, <2>4 DEF PacketInv
<1>3. ASSUME NEW d \in Payload, Fill(d) PROVE PacketInv'
  <2>1. wpc = "fill" /\ wpc' = "ready" /\ UNCHANGED <<entries, writeEntry, wsize>>
    BY <1>3 DEF Fill
  <2>2. OnePayload(writeEntry)'
    BY <1>3, <2>1 DEF Fill, OnePayload, End
  <2>3. ASSUME NEW i \in Slot, Unread(i)' PROVE Whole(i)'
    <3>1. Unread(i) /\ Whole(i)
      BY <1>0, <2>1, <2>3 DEF PacketInv, Unread
    <3>2. PICK c \in Payload : \A b \in Block :
            b >= entries[i].offset /\ b < End(entries[i]) => mem[b] = c
      BY <3>1 DEF Whole, OnePayload
    <3>3. \A b \in Block :
            b >= entries[i].offset /\ b < End(entries[i]) => mem'[b] = c
      BY <1>3, <3>1, <3>2, FillSpares
    <3> QED BY <2>1, <3>1, <3>3 DEF Whole, OnePayload, End
  <2> QED BY <2>1, <2>2, <2>3 DEF PacketInv, Reserved
<1>4. ASSUME NEW s \in PacketBlocks, WriteFinish(s) PROVE PacketInv'
  <2>1. /\ wpc = "ready" /\ wpc' = "idle" /\ UNCHANGED mem /\ Reserved
        /\ writeEntry' = Succ(writeEntry)
    BY <1>4 DEF WriteFinish, Reserved
  <2>2. \A i \in Slot : i # writeEntry => entries'[i] = entries[i]
    BY <1>4, BaseType DEF WriteFinish
  <2>3. /\ entries'[writeEntry].offset = entries[writeEntry].offset
        /\ entries'[writeEntry].rsize = entries[writeEntry].rsize
        /\ entries'[writeEntry].size \in PacketBlocks
        /\ entries'[writeEntry].size <= entries[writeEntry].rsize
    <3>1. s \in Nat /\ entries[writeEntry] \in Descriptor
      BY PacketType, BaseType
    <3> QED BY <1>4, <2>1, <3>1, BaseType DEF WriteFinish, PacketInv, Descriptor
  <2>4. ASSUME NEW i \in Slot, Unread(i)' PROVE Whole(i)'
    <3>1. Distance(readEntry, i) < Distance(readEntry, writeEntry) + 1
      BY <1>0, <2>1, <2>4, PublishFits DEF Unread
    <3>2. i = writeEntry \/ Unread(i)
      BY <3>1, BaseType, DistanceType, DistanceInjective, ChannelAssumption DEF Unread
    <3>3. CASE i = writeEntry
      BY <2>1, <2>3, <3>3 DEF PacketInv, Whole, OnePayload, End
    <3>4. CASE i # writeEntry
      BY <2>1, <2>2, <3>2, <3>4 DEF PacketInv, Whole, OnePayload, End
    <3> QED BY <3>3, <3>4
  <2> QED BY <2>1, <2>4 DEF PacketInv, Reserved
<1> QED BY <1>1, <1>2, <1>3, <1>4 DEF Write

(* At the start nothing is to be read.                                     *)
LEMMA PacketInit == Init => PacketInv
<1> SUFFICES ASSUME Init PROVE PacketInv
  OBVIOUS
<1>1. \A i \in Slot : ~Unread(i)
  BY DistanceType, ChannelAssumption DEF Init, Unread, Slot
<1> QED BY <1>1 DEF Init, PacketInv, Reserved

(* The inductive invariant of the refinement: a packet is what was written,*)
(* from its publication until the reader is done with it.                  *)
THEOREM PacketsStayWhole ==
  Spec /\ []HasRoom => [](TypeOK /\ RingInv /\ PacketInv)
<1>1. TypeOK /\ RingInv /\ PacketInv /\ HasRoom /\ [Next]_vars => PacketInv'
  <2>1. ASSUME PacketInv, UNCHANGED vars PROVE PacketInv'
    BY <2>1 DEF vars, shared, writer, reader, PacketInv, Reserved, Unread, Whole,
       OnePayload, End
  <2> QED BY <2>1, RingIsCore, WriteKeepsPackets, ReadKeepsPackets DEF Next
<1> QED BY <1>1, PacketInit, RingInvWithRoom, PTL DEF Spec

-----------------------------------------------------------------------------
(* The refinement of HdFifo.                                               *)

Packets == {[k \in 1 .. n |-> d] : d \in Payload, n \in PacketBlocks}
Holding == IF rpc = "held" THEN <<Message(readEntry)>> ELSE << >>

(* Pending in these terms.                                                 *)
LEMMA PendingIsQueue ==
  /\ Pending = Queue(entries, mem, First, writeEntry)
  /\ \A i \in Slot : Message(i) = Content(entries, mem, i)
BY DEF Pending, Queue, Message, Content

(* The same after a step.                                                  *)
LEMMA PendingIsQueueNext ==
  /\ Pending' = Queue(entries', mem', First', writeEntry')
  /\ \A i \in Slot : Message(i)' = Content(entries', mem', i)
BY DEF Pending, Queue, Message, Content

(* A whole packet is one that somebody can have written.                   *)
LEMMA WholeIsPacket ==
  ASSUME NEW ring \in [Slot -> Descriptor], NEW m, NEW i \in Slot,
         NEW d \in Payload,
         \A b \in Block : b >= ring[i].offset /\ b < ring[i].offset + ring[i].rsize
                            => m[b] = d,
         ring[i].size \in PacketBlocks, ring[i].size <= ring[i].rsize,
         ring[i].offset + ring[i].rsize <= AreaBlocks
  PROVE  Content(ring, m, i) \in Packets
<1>1. /\ ring[i].offset \in Nat /\ ring[i].rsize \in Nat /\ ring[i].size \in Nat
      /\ AreaBlocks \in Nat
  BY ChannelAssumption DEF Descriptor
<1>2. ASSUME NEW k \in 1 .. ring[i].size
      PROVE  m[ring[i].offset + k - 1] = d
  <2> DEFINE b == ring[i].offset + k - 1
  <2>1. b \in Block /\ b >= ring[i].offset /\ b < ring[i].offset + ring[i].rsize
    BY <1>1 DEF Block
  <2> QED BY <2>1
<1>3. Content(ring, m, i) = [k \in 1 .. ring[i].size |-> d]
  BY <1>2 DEF Content
<1> QED BY <1>3 DEF Packets

(* What is in the queue from f on when nothing in use changes.             *)
LEMMA SameQueue ==
  ASSUME TypeOK, NEW f \in Slot,
         Distance(readEntry, f) <= Distance(readEntry, writeEntry),
         \A i \in Slot : Unread(i) => Content(entries', mem', i) = Content(entries, mem, i)
  PROVE  Queue(entries', mem', f, writeEntry) = Queue(entries, mem, f, writeEntry)
<1>1. \A i \in Slot : Distance(f, i) < Distance(f, writeEntry) =>
        Content(entries', mem', i) = Content(entries, mem, i)
  BY BaseType, UnreadFrom DEF Unread
<1> QED BY <1>1, BaseType, QueueSame

(* The packet the reader works on is an unread one.                        *)
LEMMA HeldIsUnread ==
  ASSUME TypeOK, CoreInv, readEntry # writeEntry
  PROVE  Unread(readEntry) /\ readEntry \in Slot
<1>1. /\ readEntry \in Slot /\ writeEntry \in Slot
      /\ Distance(readEntry, readEntry) = 0
      /\ Distance(readEntry, writeEntry) \in Nat
  BY BaseType, DistanceType
<1>2. Distance(readEntry, writeEntry) # 0
  BY <1>1, DistanceInjective
<1> QED BY <1>1, <1>2 DEF Unread

(* It does not change while the reader works on it.                        *)
LEMMA SameHolding ==
  ASSUME TypeOK, CoreInv, UNCHANGED <<readEntry, rpc>>,
         \A i \in Slot : Unread(i) => Content(entries', mem', i) = Content(entries, mem, i)
  PROVE  Holding' = Holding
<1>1. CASE rpc = "held"
  <2>1. Unread(readEntry) /\ readEntry \in Slot
    BY <1>1, HeldIsUnread DEF CoreInv
  <2>2. Message(readEntry)' = Message(readEntry)
    BY <2>1, PendingIsQueue DEF Content, Message
  <2> QED BY <1>1, <2>2 DEF Holding
<1>2. CASE rpc # "held"
  BY <1>2 DEF Holding
<1> QED BY <1>1, <1>2

(* The writer's steps: publishing is Put, the request is RequestFlush, the *)
(* rest is not seen.                                                       *)
LEMMA WriteRefines ==
  ASSUME TypeOK, CoreInv, PacketInv, HasRoom, Write \/ Flushing,
         NEW f \in Slot, Distance(readEntry, f) <= Distance(readEntry, writeEntry)
  PROVE  LET q    == Queue(entries, mem, f, writeEntry)
             next == Queue(entries', mem', f, writeEntry')
         IN  \/ next = q /\ UNCHANGED <<Holding, invalidate>>
             \/ \E m \in Packets :
                  next = Append(q, m) /\ UNCHANGED <<Holding, invalidate>>
             \/ invalidate' = TRUE /\ next = q /\ UNCHANGED Holding
<1> DEFINE q    == Queue(entries, mem, f, writeEntry)
           next == Queue(entries', mem', f, writeEntry')
<1> USE DEF shared, writer, reader
<1>1. CASE (\E n \in PacketBlocks : WriteStart(n)) \/ WriteRetry \/ WriteTimeout
           \/ WriteAbandon \/ InvalidateDone \/ InvalidateTimeout
  <2>1. UNCHANGED shared /\ UNCHANGED reader
    BY <1>1 DEF WriteStart, WriteRetry, WriteTimeout, WriteAbandon, InvalidateDone,
       InvalidateTimeout
  <2> QED BY <2>1 DEF Holding, Message
<1>2. CASE Invalidate
  BY <1>2 DEF Invalidate, Holding, Message
<1>3. CASE Reserve
  <2>1. /\ UNCHANGED <<mem, readEntry, writeEntry, invalidate, rpc, bwe>>
        /\ \A i \in Slot : i # writeEntry => entries'[i] = entries[i]
    BY <1>3, BaseType DEF Reserve
  <2>2. \A i \in Slot : Unread(i) => Content(entries', mem', i) = Content(entries, mem, i)
    BY <2>1, UnreadInUse DEF Content
  <2> QED BY <2>1, <2>2, SameQueue, SameHolding
<1>4. ASSUME NEW d \in Payload, Fill(d)
      PROVE  next = q /\ UNCHANGED <<Holding, invalidate>>
  <2>1. UNCHANGED <<entries, readEntry, writeEntry, invalidate, rpc, bwe>>
    BY <1>4 DEF Fill
  <2>2. ASSUME NEW i \in Slot, Unread(i)
        PROVE  Content(entries', mem', i) = Content(entries, mem, i)
    <3>1. /\ entries[i].offset \in Nat /\ entries[i].rsize \in Nat
          /\ entries[i].size \in Nat /\ entries[i].size <= entries[i].rsize
          /\ AreaBlocks \in Nat
      BY <2>2, BaseType, ChannelAssumption DEF PacketInv, Whole, Descriptor
    <3>2. End(entries[i]) <= AreaBlocks
      BY <2>2, UnreadInUse
    <3>3. ASSUME NEW k \in 1 .. entries[i].size
          PROVE  mem'[entries[i].offset + k - 1] = mem[entries[i].offset + k - 1]
      <4> DEFINE b == entries[i].offset + k - 1
      <4>1. b \in Block /\ b >= entries[i].offset /\ b < End(entries[i])
        BY <3>1, <3>2 DEF Block, End
      <4> HIDE DEF b
      <4>2. mem'[b] = mem[b]
        BY <1>4, <2>2, <4>1, FillSpares
      <4> QED BY <4>2 DEF b
    <3> QED BY <2>1, <3>3 DEF Content
  <2> QED BY <2>1, <2>2, SameQueue, SameHolding
<1>5. ASSUME NEW s \in PacketBlocks, WriteFinish(s)
      PROVE  \E m \in Packets :
               next = Append(q, m) /\ UNCHANGED <<Holding, invalidate>>
  <2> DEFINE w == writeEntry
  <2>1. /\ wpc = "ready" /\ Reserved
        /\ UNCHANGED <<mem, readEntry, invalidate, rpc>>
        /\ writeEntry' = Succ(w)
    BY <1>5 DEF WriteFinish, Reserved
  <2>2. \A i \in Slot : i # w => entries'[i] = entries[i]
    BY <1>5, BaseType DEF WriteFinish
  <2>3. /\ entries'[w].offset = entries[w].offset
        /\ entries'[w].rsize = entries[w].rsize
        /\ entries'[w].size \in PacketBlocks
        /\ entries'[w].size <= entries[w].rsize
        /\ entries' \in [Slot -> Descriptor]
    <3>1. s \in Nat /\ entries[w] \in Descriptor /\ entries \in [Slot -> Descriptor] /\ w \in Slot
      BY PacketType, BaseType
    <3> QED BY <1>5, <2>1, <3>1 DEF WriteFinish, PacketInv, Descriptor
  <2>4. w \in Slot /\ Distance(f, w) + 1 < MaxEntries
    <3>1. w \in Slot /\ readEntry \in Slot
      BY BaseType
    <3>2. Distance(f, w) = Distance(readEntry, w) - Distance(readEntry, f)
      BY <3>1, DistanceRemains
    <3>3. Distance(readEntry, w) + 1 < MaxEntries
      BY <2>1, PublishFits
    <3> QED BY <3>1, <3>2, <3>3, DistanceType, ChannelAssumption
  <2>5. Content(entries', mem', w) \in Packets
    <3>1. End(entries[w]) <= AreaBlocks
      BY <2>1, <2>4, UnreadInUse
    <3>2. PICK d \in Payload : \A b \in Block :
            b >= entries[w].offset /\ b < End(entries[w]) => mem[b] = d
      BY <2>1 DEF PacketInv, OnePayload
    <3>3. \A b \in Block :
            b >= entries'[w].offset /\ b < entries'[w].offset + entries'[w].rsize
              => mem'[b] = d
      BY <2>1, <2>3, <3>2 DEF End
    <3>4. entries'[w].offset + entries'[w].rsize <= AreaBlocks
      BY <2>3, <3>1 DEF End
    <3>5. entries'[w].size <= entries'[w].rsize
      BY <2>3
    <3> QED BY <2>3, <2>4, <3>3, <3>4, <3>5, WholeIsPacket
  <2>6. \A i \in Slot : Unread(i) => Content(entries', mem', i) = Content(entries, mem, i)
    BY <2>1, <2>2, UnreadInUse DEF Content
  <2>7. Queue(entries', mem', f, w) = q
    BY <2>4, <2>6, SameQueue
  <2>8. Queue(entries', mem', f, Succ(w))
          = Append(Queue(entries', mem', f, w), Content(entries', mem', w))
    BY <2>4, QueueAppends
  <2>9. next = Append(q, Content(entries', mem', w))
    BY <2>1, <2>7, <2>8
  <2>10. UNCHANGED Holding
    BY <2>1, <2>6, SameHolding
  <2> QED BY <2>1, <2>5, <2>9, <2>10
<1> QED BY <1>1, <1>2, <1>3, <1>4, <1>5 DEF Write, Flushing

(* The reader's steps with the flag clear: Take, Release or not seen.      *)
LEMMA TakingRefines ==
  ASSUME TypeOK, CoreInv, PacketInv, Taking
  PROVE  LET q    == Queue(entries, mem, readEntry, writeEntry)
             next == Queue(entries', mem', readEntry', writeEntry')
         IN  \/ next = q /\ UNCHANGED <<Holding, invalidate>>
             \/ /\ Holding = << >> /\ q # << >> /\ Holding' = <<Head(q)>>
                /\ next = q /\ UNCHANGED invalidate
             \/ /\ Holding # << >> /\ Holding' = << >> /\ next = Tail(q)
                /\ UNCHANGED invalidate
<1> DEFINE q    == Queue(entries, mem, readEntry, writeEntry)
           next == Queue(entries', mem', readEntry', writeEntry')
<1> USE DEF shared, writer, reader
<1>1. CASE ReadStart \/ ReadTimeout
  BY <1>1 DEF ReadStart, ReadTimeout, Holding, Message
<1>2. CASE ReadTake
  <2>1. rpc = "poll" /\ readEntry # writeEntry /\ UNCHANGED shared
    BY <1>2 DEF ReadTake
  <2>2. Unread(readEntry) /\ readEntry \in Slot /\ writeEntry \in Slot
    BY <2>1, HeldIsUnread, BaseType
  <2>3. entries[readEntry].size # 0
    BY <2>2, PacketType DEF PacketInv, Whole
  <2>4. rpc' = "held"
    BY <1>2, <2>3 DEF ReadTake
  <2>5. q # << >> /\ Head(q) = Message(readEntry)
    BY <2>1, <2>2, PendingIsQueue, QueueAdvances
  <2>6. Message(readEntry)' = Message(readEntry)
    BY <2>1 DEF Message
  <2> QED BY <2>1, <2>4, <2>5, <2>6 DEF Holding
<1>3. CASE ReadFinish
  <2>1. /\ rpc = "held" /\ rpc' = "idle" /\ readEntry # writeEntry
        /\ readEntry' = Succ(readEntry)
        /\ UNCHANGED <<entries, mem, writeEntry, invalidate>>
    BY <1>3 DEF ReadFinish, CoreInv
  <2>2. readEntry \in Slot /\ writeEntry \in Slot
    BY BaseType
  <2>3. next = Tail(q)
    BY <2>1, <2>2, QueueAdvances
  <2>4. Holding # << >> /\ Holding' = << >>
    BY <2>1 DEF Holding
  <2> QED BY <2>1, <2>3, <2>4
<1> QED BY <1>1, <1>2, <1>3 DEF Taking

(* The reader's steps: sampling write_entry is Flush, taking the request   *)
(* back Acknowledge, and the jump is not seen.                             *)
LEMMA ReadRefines ==
  ASSUME TypeOK, RingInv, PacketInv, Read
  PROVE  \/ UNCHANGED <<Pending, Holding, invalidate>>
         \/ /\ Holding = << >> /\ Pending # << >> /\ Holding' = <<Head(Pending)>>
            /\ UNCHANGED <<Pending, invalidate>>
         \/ /\ Holding # << >> /\ Holding' = << >> /\ Pending' = Tail(Pending)
            /\ UNCHANGED invalidate
         \/ /\ invalidate /\ Holding = << >> /\ Pending' = << >>
            /\ UNCHANGED <<Holding, invalidate>>
         \/ invalidate' = FALSE /\ UNCHANGED <<Pending, Holding>>
<1> USE DEF shared, writer, reader
<1>1. CASE FlushSample
  <2>1. /\ rpc = "idle" /\ invalidate /\ rpc' = "clear" /\ bwe' = writeEntry
        /\ UNCHANGED shared
    BY <1>1 DEF FlushSample
  <2>2. First' = writeEntry /\ Distance(writeEntry, writeEntry) = 0
    BY <2>1, BaseType, DistanceType DEF First
  <2>3. Pending' = << >>
    BY <2>1, <2>2 DEF Pending
  <2>4. Holding = << >> /\ Holding' = << >>
    BY <2>1 DEF Holding
  <2> QED BY <2>1, <2>3, <2>4
<1>2. CASE FlushClear
  BY <1>2 DEF FlushClear, Pending, Holding, Message, First
<1>3. CASE FlushDrop
  BY <1>3 DEF FlushDrop, Pending, Holding, Message, First
<1>4. CASE Taking
  <2>1. CoreInv /\ rpc' \in {"idle", "poll", "held"}
    BY <1>4, RingIsCore, TakingKeepsRing
  <2>2. First = readEntry /\ First' = readEntry'
    BY <1>4, <2>1 DEF Taking, ReadStart, ReadTimeout, ReadTake, ReadFinish, First
  <2>3. /\ Pending = Queue(entries, mem, readEntry, writeEntry)
        /\ Pending' = Queue(entries', mem', readEntry', writeEntry')
    BY <2>2, PendingIsQueue, PendingIsQueueNext
  <2> QED BY <1>4, <2>1, <2>3, TakingRefines
<1> QED BY <1>1, <1>2, <1>3, <1>4 DEF Read, Taking

(* The channel is the queue of HdFifo: whatever the two sides interleave   *)
(* and whatever is requested meanwhile, packets are read whole, in the     *)
(* order they were written, each once, and only a request to empty the     *)
(* channel takes any away (read_start, write_finish, read_finish).         *)
THEOREM FifoWithRoom == Spec /\ []HasRoom => ImplementsFifo
<1>1. Init => Fifo!Init
  <2> SUFFICES ASSUME Init PROVE Fifo!Init
    OBVIOUS
  <2>1. First = 0 /\ Distance(0, 0) = 0
    BY DistanceType, ChannelAssumption DEF Init, First, Slot
  <2>2. Pending = << >>
    BY <2>1 DEF Init, Pending
  <2> QED BY <2>2 DEF Init, Fifo!Init
<1>2. TypeOK /\ RingInv /\ PacketInv /\ HasRoom /\ [Next]_vars
        => [Fifo!Next]_Fifo!fifoVars
  <2> SUFFICES ASSUME TypeOK, RingInv, PacketInv, HasRoom, [Next]_vars
               PROVE  [Fifo!Next]_Fifo!fifoVars
    OBVIOUS
  <2>1. UNCHANGED <<Pending, Holding, invalidate>> => UNCHANGED Fifo!fifoVars
    BY DEF Fifo!fifoVars, Holding
  <2>2. ASSUME NEW m \in Packets, Pending' = Append(Pending, m),
               UNCHANGED <<Holding, invalidate>>
        PROVE  Fifo!Next
    <3>1. Fifo!Put(m)
      BY <2>2 DEF Fifo!Put, Holding
    <3> QED BY <3>1 DEF Fifo!Next, Packets
  <2>3. invalidate' = TRUE /\ UNCHANGED <<Pending, Holding>> => Fifo!Next
    BY DEF Fifo!Next, Fifo!RequestFlush, Holding
  <2>4. /\ Holding = << >> /\ Pending # << >> /\ Holding' = <<Head(Pending)>>
        /\ UNCHANGED <<Pending, invalidate>>
        => Fifo!Next
    BY DEF Fifo!Next, Fifo!Take, Holding
  <2>5. /\ Holding # << >> /\ Holding' = << >> /\ Pending' = Tail(Pending)
        /\ UNCHANGED invalidate
        => Fifo!Next
    BY DEF Fifo!Next, Fifo!Release, Holding
  <2>6. /\ invalidate /\ Holding = << >> /\ Pending' = << >>
        /\ UNCHANGED <<Holding, invalidate>>
        => Fifo!Next
    BY DEF Fifo!Next, Fifo!Flush, Holding
  <2>7. invalidate' = FALSE /\ UNCHANGED <<Pending, Holding>> => Fifo!Next
    BY DEF Fifo!Next, Fifo!Acknowledge, Holding
  <2>8. CASE UNCHANGED vars
    BY <2>1, <2>8 DEF vars, shared, writer, reader, Pending, Holding, Message, First
  <2>9. CASE Write \/ Flushing
    <3>1. CoreInv /\ First \in Slot
          /\ Distance(readEntry, First) <= Distance(readEntry, writeEntry)
      BY RingIsCore, FirstInRange
    <3>2. UNCHANGED First
      BY <2>9, WriteSparesReader DEF First
    <3>3. /\ Pending = Queue(entries, mem, First, writeEntry)
          /\ Pending' = Queue(entries', mem', First, writeEntry')
      BY <3>2, PendingIsQueue, PendingIsQueueNext
    <3> QED BY <2>1, <2>2, <2>3, <2>9, <3>1, <3>3, WriteRefines
  <2>10. CASE Read
    BY <2>1, <2>4, <2>5, <2>6, <2>7, <2>10, ReadRefines
  <2> QED BY <2>8, <2>9, <2>10 DEF Next
<1> QED
  BY <1>1, <1>2, PacketsStayWhole, PTL DEF Spec, ImplementsFifo, Fifo!Spec

(* The channels of the HD extension: 1792 descriptors and fewer blocks.    *)
THEOREM ChannelIsFifo ==
  ASSUME AreaBlocks < MaxEntries
  PROVE  Spec => ImplementsFifo
BY RingInvHolds, FifoWithRoom, PTL

-----------------------------------------------------------------------------
(* The channels of the BSP (bspchannel.c): the same writer and the same    *)
(* reader, but for how a channel is emptied.                               *)
Bsp == INSTANCE BspChannel

(* The operators of the ring are the same in both.                         *)
LEMMA SameOperators ==
  /\ \A i, j : Bsp!Ring!Distance(i, j) = Distance(i, j)
  /\ \A i : Bsp!Ring!Succ(i) = Succ(i)
  /\ \A r, n : Bsp!Ring!FindSpace(r, n) = FindSpace(r, n)
  /\ \A i : Bsp!Ring!Message(i) = Message(i)
BY DEF Bsp!Ring!Distance, Distance, Bsp!Ring!Succ, Succ, Bsp!Ring!FindSpace, FindSpace,
   Bsp!Ring!Message, Message, Bsp!Ring!Oldest, Oldest, Bsp!Ring!Newest, Newest,
   Bsp!Ring!EndOfNewest, EndOfNewest, Bsp!Ring!Pred, Pred

LEMMA SameWriter ==
  ASSUME Bsp!Writing
  PROVE  Write \/ Flushing
<1> USE DEF shared, writer, reader, Bsp!Ring!shared, Bsp!Ring!writer, Bsp!Ring!reader
<1>1. ASSUME NEW n \in PacketBlocks, Bsp!StartWrite(n) PROVE WriteStart(n)
  BY <1>1 DEF Bsp!StartWrite, Bsp!Ring!WriteStart, WriteStart
<1>2. ASSUME NEW s \in PacketBlocks, Bsp!FinishWrite(s) PROVE WriteFinish(s)
  BY <1>2, SameOperators DEF Bsp!FinishWrite, Bsp!Ring!WriteFinish, WriteFinish
<1>3. Bsp!ReserveSpace => Reserve
  BY SameOperators DEF Bsp!ReserveSpace, Bsp!Ring!Reserve, Reserve
<1>4. Bsp!RetrySpace => WriteRetry
  BY SameOperators DEF Bsp!RetrySpace, Bsp!Ring!WriteRetry, WriteRetry
<1>5. Bsp!GiveUpSpace => WriteTimeout
  BY SameOperators DEF Bsp!GiveUpSpace, Bsp!Ring!WriteTimeout, WriteTimeout
<1>6. ASSUME NEW d \in Payload, Bsp!CopyIn(d) PROVE Fill(d)
  BY <1>6 DEF Bsp!CopyIn, Bsp!Ring!Fill, Fill, Bsp!Ring!Block, Block
<1>7. Bsp!AskInvalidate \/ Bsp!Invalidated => Flushing
  BY DEF Bsp!AskInvalidate, Bsp!Invalidated, Bsp!Ring!Invalidate, Bsp!Ring!InvalidateDone,
     Bsp!Ring!InvalidateTimeout, Flushing, Invalidate, InvalidateDone, InvalidateTimeout
<1> QED BY <1>1, <1>2, <1>3, <1>4, <1>5, <1>6, <1>7 DEF Bsp!Writing, Write

LEMMA SameReader ==
  ASSUME Bsp!StartRead \/ Bsp!NothingToRead \/ Bsp!TakePacket \/ Bsp!FinishRead
  PROVE  Taking
BY SameOperators
DEF Bsp!StartRead, Bsp!NothingToRead, Bsp!TakePacket, Bsp!FinishRead, Bsp!Ring!ReadStart,
    Bsp!Ring!ReadTimeout, Bsp!Ring!ReadTake, Bsp!Ring!ReadFinish, ReadStart, ReadTimeout,
    ReadTake, ReadFinish, Taking, shared, writer, reader, Bsp!Ring!shared,
    Bsp!Ring!writer, Bsp!Ring!reader

LEMMA SameStart == Bsp!ChanInit => Init
BY DEF Bsp!ChanInit, Bsp!Ring!Init, Init, Bsp!Ring!Slot, Slot, Bsp!Ring!Block, Block

(* The two sides of a channel of the BSP keep its types (bspchannel.c), for*)
(* rings and areas of every size, full ones included.                      *)
THEOREM BspTypeCorrect == Bsp!ChanSpec => []Bsp!ChanTypeOK
<1>1. Bsp!ChanInit => TypeOK
  BY SameStart, TypeInit
<1>2. TypeOK /\ [Bsp!ChanNext]_(Bsp!chanVars) => TypeOK'
  <2> SUFFICES ASSUME TypeOK, [Bsp!ChanNext]_(Bsp!chanVars) PROVE TypeOK'
    OBVIOUS
  <2>1. CASE UNCHANGED Bsp!chanVars
    BY <2>1 DEF Bsp!chanVars, TypeOK
  <2>2. CASE Bsp!Writing
    BY <2>2, SameWriter, TypeStep DEF Next
  <2>3. CASE Bsp!StartRead \/ Bsp!NothingToRead \/ Bsp!TakePacket \/ Bsp!FinishRead
    BY <2>3, SameReader, TypeStep DEF Taking, Next, Read
  <2>4. CASE Bsp!TakeBack \/ Bsp!LookAhead \/ Bsp!JumpAhead
    BY <2>4, RingType DEF Bsp!TakeBack, Bsp!LookAhead, Bsp!JumpAhead, TypeOK
  <2> QED BY <2>1, <2>2, <2>3, <2>4 DEF Bsp!ChanNext, Bsp!Reading
<1>3. TypeOK => Bsp!ChanTypeOK
  BY DEF Bsp!ChanTypeOK, Bsp!Ring!TypeOK, TypeOK, Bsp!Ring!Slot, Slot, Bsp!Ring!Block, Block
<1> QED BY <1>1, <1>2, <1>3, PTL DEF Bsp!ChanSpec

(* What keeps a channel of the BSP in order: only the write_entry that the *)
(* reader is about to jump to is a position in the ring.                   *)
BspInv ==
  /\ TypeOK /\ CoreInv /\ PacketInv
  /\ rpc = "drop" => InOrder(Base, readEntry, bwe, writeEntry)

LEMMA BspWriteKeeps ==
  ASSUME BspInv, HasRoom, Bsp!Writing
  PROVE  BspInv'
<1>1. Write \/ Flushing
  BY SameWriter
<1>2. /\ TypeOK' /\ CoreInv' /\ PacketInv' /\ KeepsOrder
      /\ UNCHANGED <<readEntry, rpc, bwe>> /\ bwe \in Slot
  BY <1>1, TypeStep, WriteKeepsRing, WriteKeepsPackets, WriteSparesReader, BaseType
     DEF BspInv, Next
<1>3. rpc = "drop" => InOrder(Base', readEntry', bwe, writeEntry')
  BY <1>2 DEF KeepsOrder, BspInv
<1> QED BY <1>2, <1>3 DEF BspInv, InOrder

LEMMA BspReadKeeps ==
  ASSUME BspInv, Bsp!Reading
  PROVE  BspInv'
<1> USE DEF BspInv
<1>1. CASE Bsp!StartRead \/ Bsp!NothingToRead \/ Bsp!TakePacket \/ Bsp!FinishRead
  <2>1. Taking
    BY <1>1, SameReader
  <2> QED
    BY <2>1, TypeStep, TakingKeepsRing, TakingKeepsPackets DEF Taking, Next, Read
<1>2. CASE Bsp!TakeBack \/ Bsp!LookAhead
  <2>1. /\ UNCHANGED <<entries, mem, readEntry, writeEntry, wpc, wrp, wsize, wstale>>
        /\ rpc' \in {"clear", "drop"} /\ invalidate' \in BOOLEAN /\ bwe' \in Slot
        /\ rpc' = "drop" => bwe' = writeEntry
    BY <1>2 DEF Bsp!TakeBack, Bsp!LookAhead, TypeOK
  <2>2. Base' = Base /\ Used' = Used
    BY <2>1 DEF Base, Used, Reserved
  <2>3. CoreInv'
    BY <2>1, <2>2, SameRing DEF CoreInv
  <2>4. TypeOK' /\ PacketInv'
    BY <2>1, StayKeepsPackets DEF TypeOK
  <2>5. rpc' = "drop" => InOrder(Base', readEntry', bwe', writeEntry')
    BY <2>1, <2>2, BaseType DEF InOrder, CoreInv
  <2> QED BY <2>3, <2>4, <2>5 DEF InOrder
<1>3. CASE Bsp!JumpAhead
  <2>1. /\ rpc = "drop" /\ rpc' = "idle" /\ readEntry' = bwe /\ bwe' = 0
        /\ UNCHANGED <<entries, mem, writeEntry, invalidate, wpc, wrp, wsize, wstale>>
        /\ bwe \in Slot
    BY <1>3, BaseType DEF Bsp!JumpAhead
  <2>2. CoreInv'
    BY <2>1, ReaderMoves
  <2>3. Distance(readEntry, bwe) <= Distance(readEntry, writeEntry)
    BY <2>1, BaseType, OrderRebased DEF InOrder
  <2>4. PacketInv'
    BY <2>1, <2>3, MoveKeepsPackets
  <2>5. TypeOK'
    BY <2>1, RingType DEF TypeOK
  <2> QED BY <2>1, <2>2, <2>4, <2>5
<1> QED BY <1>1, <1>2, <1>3 DEF Bsp!Reading

(* Where the packets begin that the reader can still get.                  *)
LEMMA BspLeft ==
  /\ Bsp!Left = Queue(entries, mem, Bsp!FirstLeft, writeEntry)
  /\ Bsp!Left' = Queue(entries', mem', Bsp!FirstLeft', writeEntry')
  /\ Bsp!FirstLeft = IF rpc = "drop" THEN bwe ELSE readEntry
  /\ Bsp!FirstLeft' = IF rpc' = "drop" THEN bwe' ELSE readEntry'
<1> USE DEF Bsp!Ring!Distance, Bsp!Ring!Message
<1>1. Bsp!Left = Queue(entries, mem, Bsp!FirstLeft, writeEntry)
  BY DEF Bsp!Left, Queue, Content, Distance
<1>2. Bsp!Left' = Queue(entries', mem', Bsp!FirstLeft', writeEntry')
  BY DEF Bsp!Left, Queue, Content, Distance
<1> QED BY <1>1, <1>2 DEF Bsp!FirstLeft

(* The writer's steps are Put and RequestFlush, or not seen.               *)
LEMMA BspWriteRefines ==
  ASSUME BspInv, HasRoom, Bsp!Writing
  PROVE  \/ UNCHANGED <<Bsp!Left, Holding, invalidate>>
         \/ \E m \in Packets :
              Bsp!Left' = Append(Bsp!Left, m) /\ UNCHANGED <<Holding, invalidate>>
         \/ invalidate' = TRUE /\ UNCHANGED <<Bsp!Left, Holding>>
<1> DEFINE f == Bsp!FirstLeft
<1>1. (Write \/ Flushing) /\ UNCHANGED f
  BY SameWriter, WriteSparesReader, BspLeft
<1>2. f \in Slot /\ Distance(readEntry, f) <= Distance(readEntry, writeEntry)
  <2>1. f \in Slot /\ Distance(readEntry, readEntry) <= Distance(readEntry, writeEntry)
    BY BspLeft, BaseType, DistanceType, ChannelAssumption DEF BspInv
  <2>2. rpc = "drop" => Distance(readEntry, bwe) <= Distance(readEntry, writeEntry)
    BY BaseType, OrderRebased DEF BspInv, InOrder
  <2> QED BY <2>1, <2>2, BspLeft
<1> HIDE DEF f
<1>3. /\ Bsp!Left = Queue(entries, mem, f, writeEntry)
      /\ Bsp!Left' = Queue(entries', mem', f, writeEntry')
  BY <1>1, BspLeft DEF f
<1> QED BY <1>1, <1>2, <1>3, WriteRefines DEF BspInv

(* The reader's steps: taking the request back is Acknowledge, the look at *)
(* write_entry is the step that loses what nobody asked to lose, and the   *)
(* jump is not seen; the rest is Take, Release or not seen.                *)
LEMMA BspReadRefines ==
  ASSUME BspInv, Bsp!Reading
  PROVE  \/ UNCHANGED <<Bsp!Left, Holding, invalidate>>
         \/ /\ Holding = << >> /\ Bsp!Left # << >> /\ Holding' = <<Head(Bsp!Left)>>
            /\ UNCHANGED <<Bsp!Left, invalidate>>
         \/ /\ Holding # << >> /\ Holding' = << >> /\ Bsp!Left' = Tail(Bsp!Left)
            /\ UNCHANGED invalidate
         \/ invalidate' = FALSE /\ UNCHANGED <<Bsp!Left, Holding>>
         \/ Bsp!DropUnasked
<1>1. CASE Bsp!StartRead \/ Bsp!NothingToRead \/ Bsp!TakePacket \/ Bsp!FinishRead
  <2>1. Taking
    BY <1>1, SameReader
  <2>2. rpc # "drop" /\ rpc' # "drop"
    BY <2>1, TakingKeepsRing DEF BspInv, Taking, ReadStart, ReadTimeout, ReadTake, ReadFinish
  <2>3. /\ Bsp!Left = Queue(entries, mem, readEntry, writeEntry)
        /\ Bsp!Left' = Queue(entries', mem', readEntry', writeEntry')
    BY <2>2, BspLeft
  <2> QED BY <2>1, <2>3, TakingRefines DEF BspInv
<1>2. CASE Bsp!TakeBack
  <2>1. Bsp!FirstLeft = readEntry /\ Bsp!FirstLeft' = readEntry
    BY <1>2, BspLeft DEF Bsp!TakeBack
  <2>2. UNCHANGED Bsp!Left
    BY <1>2, <2>1, BspLeft DEF Bsp!TakeBack
  <2> QED BY <1>2, <2>2 DEF Bsp!TakeBack, Holding
<1>3. CASE Bsp!LookAhead
  <2>1. Bsp!FirstLeft' = writeEntry /\ writeEntry' = writeEntry
    BY <1>3, BspLeft DEF Bsp!LookAhead
  <2>2. Distance(writeEntry, writeEntry) = 0
    BY BaseType, DistanceType DEF BspInv
  <2>3. Bsp!Left' = << >>
    BY <2>1, <2>2, BspLeft DEF Queue
  <2> QED BY <1>3, <2>3 DEF Bsp!LookAhead, Bsp!DropUnasked
<1>4. CASE Bsp!JumpAhead
  <2>1. Bsp!FirstLeft = bwe /\ Bsp!FirstLeft' = bwe
    BY <1>4, BspLeft DEF Bsp!JumpAhead
  <2>2. UNCHANGED Bsp!Left
    BY <1>4, <2>1, BspLeft DEF Bsp!JumpAhead
  <2> QED BY <1>4, <2>2 DEF Bsp!JumpAhead, Holding
<1> QED BY <1>1, <1>2, <1>3, <1>4 DEF Bsp!Reading

(* BspInv is inductive.                                                    *)
LEMMA BspInvInit == Bsp!ChanInit => BspInv
<1> SUFFICES ASSUME Bsp!ChanInit PROVE BspInv
  OBVIOUS
<1>1. Init
  BY SameStart
<1>2. TypeOK /\ RingInv /\ PacketInv
  BY <1>1, TypeInit, RingInvInit, PacketInit
<1> QED BY <1>1, <1>2, RingIsCore DEF Init, BspInv

LEMMA BspInvStep ==
  ASSUME BspInv, HasRoom, [Bsp!ChanNext]_(Bsp!chanVars)
  PROVE  BspInv'
<1>1. ASSUME BspInv, UNCHANGED Bsp!chanVars PROVE BspInv'
  <2>1. /\ UNCHANGED <<entries, mem, readEntry, writeEntry, invalidate, wpc, wrp>>
        /\ UNCHANGED <<wsize, wstale, rpc, bwe>>
    BY <1>1 DEF Bsp!chanVars
  <2>2. TypeOK' /\ PacketInv' /\ Base' = Base /\ Used' = Used
    BY <1>1, <2>1, StayKeepsPackets DEF BspInv, TypeOK, Base, Used, Reserved
  <2>3. CoreInv'
    BY <1>1, <2>1, <2>2, SameRing DEF BspInv, CoreInv
  <2> QED BY <1>1, <2>1, <2>2, <2>3 DEF BspInv, InOrder
<1> QED BY <1>1, BspWriteKeeps, BspReadKeeps DEF Bsp!ChanNext

(* A channel of the BSP is the queue of HdFifo but for one step, on rings  *)
(* that always have a descriptor to spare: packets are read whole, in      *)
(* order and once, and get lost only in a read_start that has just taken a *)
(* request back (bsp_channel_read_start).                                  *)
THEOREM BspFifoWithRoom == Bsp!ChanSpec /\ []HasRoom => Bsp!LosesOnlyWhenAsked
<1>1. Bsp!ChanInit => BspInv
  BY BspInvInit
<1>2. BspInv /\ HasRoom /\ [Bsp!ChanNext]_(Bsp!chanVars) => BspInv'
  BY BspInvStep
<1>3. Bsp!ChanInit => Bsp!Queue!Init
  <2> SUFFICES ASSUME Bsp!ChanInit PROVE Bsp!Queue!Init
    OBVIOUS
  <2>1. Init
    BY SameStart
  <2>2. Bsp!FirstLeft = 0 /\ writeEntry = 0 /\ Distance(0, 0) = 0
    BY <2>1, BspLeft, DistanceType, ChannelAssumption DEF Init, Slot
  <2>3. Bsp!Left = << >>
    BY <2>2, BspLeft DEF Queue
  <2> QED BY <2>1, <2>3 DEF Init, Bsp!Queue!Init
<1>4. BspInv /\ HasRoom /\ [Bsp!ChanNext]_(Bsp!chanVars)
        => [Bsp!Queue!Next \/ Bsp!DropUnasked]_(Bsp!Queue!fifoVars)
  <2> SUFFICES ASSUME BspInv, HasRoom, [Bsp!ChanNext]_(Bsp!chanVars)
               PROVE  [Bsp!Queue!Next \/ Bsp!DropUnasked]_(Bsp!Queue!fifoVars)
    OBVIOUS
  <2>0. /\ Holding = IF rpc = "held" THEN <<Bsp!Ring!Message(readEntry)>> ELSE << >>
        /\ Holding' = IF rpc' = "held" THEN <<Bsp!Ring!Message(readEntry)'>> ELSE << >>
    BY DEF Holding, Message, Bsp!Ring!Message
  <2>1. UNCHANGED <<Bsp!Left, Holding, invalidate>> => UNCHANGED Bsp!Queue!fifoVars
    BY <2>0 DEF Bsp!Queue!fifoVars
  <2>2. ASSUME NEW m \in Packets, Bsp!Left' = Append(Bsp!Left, m),
               UNCHANGED <<Holding, invalidate>>
        PROVE  Bsp!Queue!Next
    <3>1. Bsp!Queue!Put(m)
      BY <2>0, <2>2 DEF Bsp!Queue!Put
    <3> QED BY <3>1 DEF Bsp!Queue!Next, Packets
  <2>3. invalidate' = TRUE /\ UNCHANGED <<Bsp!Left, Holding>> => Bsp!Queue!Next
    BY <2>0 DEF Bsp!Queue!Next, Bsp!Queue!RequestFlush
  <2>4. /\ Holding = << >> /\ Bsp!Left # << >> /\ Holding' = <<Head(Bsp!Left)>>
        /\ UNCHANGED <<Bsp!Left, invalidate>>
        => Bsp!Queue!Next
    BY <2>0 DEF Bsp!Queue!Next, Bsp!Queue!Take
  <2>5. /\ Holding # << >> /\ Holding' = << >> /\ Bsp!Left' = Tail(Bsp!Left)
        /\ UNCHANGED invalidate
        => Bsp!Queue!Next
    BY <2>0 DEF Bsp!Queue!Next, Bsp!Queue!Release
  <2>6. invalidate' = FALSE /\ UNCHANGED <<Bsp!Left, Holding>> => Bsp!Queue!Next
    BY <2>0 DEF Bsp!Queue!Next, Bsp!Queue!Acknowledge
  <2>7. CASE UNCHANGED Bsp!chanVars
    <3>1. /\ UNCHANGED <<entries, mem, readEntry, writeEntry, invalidate, rpc, bwe>>
      BY <2>7 DEF Bsp!chanVars
    <3>2. UNCHANGED <<Bsp!Left, Holding>>
      BY <3>1, BspLeft DEF Holding, Message
    <3> QED BY <2>1, <3>1, <3>2
  <2>8. CASE Bsp!Writing
    BY <2>1, <2>2, <2>3, <2>8, BspWriteRefines
  <2>9. CASE Bsp!Reading
    BY <2>1, <2>4, <2>5, <2>6, <2>9, BspReadRefines
  <2> QED BY <2>7, <2>8, <2>9 DEF Bsp!ChanNext
<1> QED BY <1>1, <1>2, <1>3, <1>4, PTL DEF Bsp!ChanSpec, Bsp!LosesOnlyWhenAsked
=============================================================================
