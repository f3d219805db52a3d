------------------------ MODULE SPSCRingBuffer_proofs ------------------------
(***************************************************************************)
(* Proofs about the audio ring, for every capacity and every mix of call   *)
(* sizes.                                                                  *)
(***************************************************************************)
EXTENDS SPSCRingBuffer, TLAPS

(* Two positions less than a ring apart are in different slots. *)
LEMMA SlotsDistinct ==
  ASSUME NEW i \in Nat, NEW j \in Nat, i < j, j < i + Capacity
  PROVE  Slot(i) # Slot(j)
<1> DEFINE C == Capacity
           qi == i \div C
           qj == j \div C
<1>1. C \in Nat /\ C > 0
  BY CapacityAssumption
<1>2. /\ qi \in Int /\ qj \in Int
      /\ i = (C * qi) + (i % C)
      /\ j = (C * qj) + (j % C)
  BY <1>1
<1>3. SUFFICES ASSUME i % C = j % C PROVE FALSE
  BY DEF Slot
<1>4. j - i = C * (qj - qi)
  BY <1>1, <1>2, <1>3
<1>5. CASE qj - qi >= 1
  <2>1. C * (qj - qi) >= C
    BY <1>1, <1>2, <1>5
  <2>2. QED
    BY <1>1, <1>4, <2>1
<1>6. CASE qj - qi <= 0
  <2>1. C * (qj - qi) <= 0
    BY <1>1, <1>2, <1>6
  <2>2. QED
    BY <1>1, <1>4, <2>1
<1>7. QED
  BY <1>2, <1>5, <1>6

(* A position's slot is one of the ring's slots. *)
LEMMA SlotInRange ==
  ASSUME NEW i \in Nat
  PROVE  Slot(i) \in Slots
BY CapacityAssumption DEF Slot, Slots

(* The two values a call record is set to. *)
LEMMA CallRecords ==
  /\ Idle \in CallRecord
  /\ Idle.pc = "idle" /\ Idle.count = 0 /\ Idle.done = 0
  /\ \A at \in Nat, count \in 1..Capacity :
       /\ Copying(at, count) \in CallRecord
       /\ Copying(at, count).pc = "copying" /\ Copying(at, count).at = at
       /\ Copying(at, count).count = count /\ Copying(at, count).done = 0
BY CapacityAssumption DEF Idle, Copying, CallRecord

LEMMA InitIInv == Init => IInv
<1> SUFFICES ASSUME Init PROVE IInv
  OBVIOUS
<1> USE CapacityAssumption DEF Init
<1>1. TypeOK
  BY DEF TypeOK, CallRecord, Idle, Empty, Slots
<1>2. IndexInv
  BY DEF IndexInv, Idle
<1>3. ContentInv
  BY DEF ContentInv, Idle
<1>4. QED
  BY <1>1, <1>2, <1>3 DEF IInv

LEMMA WriteBeginIInv ==
  ASSUME IInv, NEW n \in WriteSizes, WriteBegin(n)
  PROVE  IInv'
<1> USE CapacityAssumption DEF IInv
<1>1. PICK t \in tails :
        LET count == Least(Space(head, t), n) IN
        /\ tails' = {u \in tails : u >= t}
        /\ producer' = IF count > 0 THEN Copying(head, count) ELSE producer
  BY DEF WriteBegin
<1> DEFINE count == Least(Space(head, t), n)
<1>2. n \in Nat /\ t \in Nat /\ head \in Nat /\ tail \in Nat
  BY SizesAssumption DEF TypeOK
<1>3. /\ count \in Int /\ count <= Capacity
      /\ head + count <= t + Capacity
      /\ t <= tail /\ tail <= head
  BY <1>2 DEF Least, Space, IndexInv, TypeOK, CallRecord
<1>4. /\ producer.pc = "idle" /\ producer.count = 0 /\ producer.done = 0
  BY DEF WriteBegin, IndexInv, TypeOK, CallRecord
<1>5. TypeOK'
  <2>1. producer' \in CallRecord
    BY <1>1, <1>2, <1>3, CallRecords DEF TypeOK
  <2>2. tails' \subseteq Nat
    BY <1>1 DEF TypeOK
  <2>3. QED
    BY <2>1, <2>2 DEF TypeOK, WriteBegin
<1>6. IndexInv'
  <2>1. /\ head' = head /\ tail' = tail /\ heads' = heads /\ consumer' = consumer
        /\ tails' = {u \in tails : u >= t}
    BY <1>1 DEF WriteBegin
  <2>2. CASE count > 0
    <3>1. producer' = Copying(head, count)
      BY <1>1, <2>2
    <3>2. \A u \in tails' : u <= tail /\ head + count <= u + Capacity
      BY <1>2, <1>3, <2>1 DEF IndexInv, TypeOK
    <3>3. QED
      BY <1>2, <1>3, <2>1, <2>2, <3>1, <3>2 DEF IndexInv, Copying, TypeOK
  <2>3. CASE ~(count > 0)
    <3>1. producer' = producer
      BY <1>1, <2>3
    <3>2. QED
      BY <1>2, <1>3, <2>1, <3>1 DEF IndexInv, TypeOK
  <2>4. QED
    BY <2>2, <2>3
<1>7. ContentInv'
  <2>1. producer'.done = 0
    BY <1>1, <1>4 DEF Copying
  <2>2. QED
    BY <1>4, <2>1 DEF ContentInv, WriteBegin
<1>8. QED
  BY <1>5, <1>6, <1>7

LEMMA WriteSampleIInv ==
  ASSUME IInv, WriteSample
  PROVE  IInv'
<1> USE CapacityAssumption DEF IInv
<1> DEFINE index == producer.at + producer.done
<1>1. /\ producer.pc = "copying" /\ producer.done < producer.count
      /\ producer.at = head /\ index \in Nat
      /\ producer \in CallRecord
      /\ producer' = [producer EXCEPT !.done = @ + 1]
      /\ storage' = [storage EXCEPT ![Slot(index)] = index]
      /\ head \in Nat /\ tail \in Nat
  BY DEF WriteSample, IndexInv, TypeOK, CallRecord
<1>2. /\ producer'.pc = "copying" /\ producer'.at = head
      /\ producer'.count = producer.count /\ producer'.done = producer.done + 1
  BY <1>1 DEF CallRecord
<1>3. UNCHANGED <<head, tail, heads, tails, consumer, out, returned>>
  BY DEF WriteSample
<1>4. TypeOK'
  <2>1. producer' \in CallRecord
    BY <1>1 DEF CallRecord
  <2>2. storage' \in [Slots -> Nat \union {Empty}]
    BY <1>1, SlotInRange DEF TypeOK
  <2>3. QED
    BY <1>3, <2>1, <2>2 DEF TypeOK
<1>5. IndexInv'
  BY <1>1, <1>2, <1>3 DEF IndexInv, TypeOK, CallRecord
<1>6. ContentInv'
  <2>1. ASSUME NEW p \in tail..(head + producer.done)
        PROVE  storage'[Slot(p)] = p
    <3>1. /\ p \in Nat /\ index = head + producer.done
          /\ tail <= p /\ p <= index /\ index < tail + Capacity
      BY <1>1 DEF IndexInv, TypeOK, CallRecord
    <3>2. Slot(p) \in Slots /\ Slot(index) \in Slots
      BY <1>1, <3>1, SlotInRange
    <3>3. CASE p = index
      BY <1>1, <3>2, <3>3 DEF TypeOK
    <3>4. CASE p < index
      <4>1. Slot(p) # Slot(index)
        BY <1>1, <3>1, <3>4, SlotsDistinct
      <4>2. storage[Slot(p)] = p
        BY <1>1, <3>1, <3>4 DEF ContentInv, CallRecord
      <4>3. QED
        BY <1>1, <3>2, <4>1, <4>2 DEF TypeOK
    <3>5. QED
      BY <1>1, <3>1, <3>3, <3>4
  <2>3. \A p \in tail..(head + producer'.done - 1) : storage'[Slot(p)] = p
    <3>2. head + producer'.done - 1 = head + producer.done
      BY <1>1, <1>2 DEF CallRecord
    <3>3. QED
      BY <2>1, <3>2
  <2>4. QED
    BY <1>3, <2>3 DEF ContentInv
<1>7. QED
  BY <1>4, <1>5, <1>6

LEMMA WritePublishIInv ==
  ASSUME IInv, WritePublish
  PROVE  IInv'
<1> USE CapacityAssumption DEF IInv
<1>1. /\ producer.pc = "copying" /\ producer.done = producer.count
      /\ producer.at = head /\ head' = head + producer.count
      /\ heads' = heads \union {head'} /\ producer' = Idle
      /\ UNCHANGED <<storage, tail, tails, consumer, out, returned>>
  BY DEF WritePublish, IndexInv
<1>2. head \in Nat /\ producer.count \in Nat /\ producer.done \in Nat /\ tail \in Nat
  BY DEF TypeOK, CallRecord
<1>3. TypeOK'
  <2>1. head' \in Nat
    BY <1>1, <1>2
  <2>2. heads' \subseteq Nat
    BY <1>1, <2>1 DEF TypeOK
  <2>3. QED
    BY <1>1, <2>1, <2>2, CallRecords DEF TypeOK
<1>4. IndexInv'
  <2>1. \A h \in heads' : tail + consumer.count <= h /\ h <= head'
    BY <1>1, <1>2 DEF IndexInv, TypeOK, CallRecord
  <2>2. \A t \in tails : t <= tail /\ head' + 0 <= t + Capacity
    BY <1>1, <1>2 DEF IndexInv, TypeOK
  <2>3. producer'.pc = "idle" /\ producer'.count = 0 /\ producer'.done = 0
    BY <1>1, CallRecords
  <2>4. head' \in heads' /\ tail' \in tails'
    BY <1>1 DEF IndexInv
  <2>5. QED
    BY <1>1, <2>1, <2>2, <2>3, <2>4 DEF IndexInv
<1>5. ContentInv'
  <2>1. head' + Idle.done - 1 = head + producer.done - 1
    BY <1>1, <1>2 DEF Idle
  <2>2. QED
    BY <1>1, <2>1 DEF ContentInv
<1>6. QED
  BY <1>3, <1>4, <1>5

LEMMA ReadBeginIInv ==
  ASSUME IInv, NEW n \in ReadSizes, ReadBegin(n)
  PROVE  IInv'
<1> USE CapacityAssumption DEF IInv
<1>1. PICK h \in heads :
        LET count == Least(h - tail, n) IN
        /\ heads' = {u \in heads : u >= h}
        /\ consumer' = IF count > 0 THEN Copying(tail, count) ELSE consumer
        /\ out' = IF count > 0 THEN <<>> ELSE out
  BY DEF ReadBegin
<1> DEFINE count == Least(h - tail, n)
<1>2. n \in Nat /\ h \in Nat /\ head \in Nat /\ tail \in Nat
  BY SizesAssumption DEF TypeOK
<1>3. /\ consumer.pc = "idle" /\ consumer.count = 0
      /\ UNCHANGED <<storage, head, tail, tails, producer, returned>>
  BY DEF ReadBegin, IndexInv
<1>4. /\ count \in Int /\ tail + count <= h /\ h <= head /\ head <= tail + Capacity
  BY <1>2 DEF Least, IndexInv, TypeOK, CallRecord
<1>5. CASE count > 0
  <2>1. /\ consumer' = Copying(tail, count) /\ out' = <<>>
        /\ heads' = {u \in heads : u >= h}
    BY <1>1, <1>5
  <2>2. TypeOK'
    <3>1. consumer' \in CallRecord
      BY <1>2, <1>4, <1>5, <2>1, CallRecords
    <3>2. /\ heads' \subseteq Nat
          /\ out' \in Seq(Nat \union {Empty})
      <4>1. heads' \subseteq Nat
        BY <2>1 DEF TypeOK
      <4>2. out' \in Seq(Nat \union {Empty})
        BY <2>1
      <4>3. QED
        BY <4>1, <4>2
    <3>3. QED
      BY <1>3, <3>1, <3>2 DEF TypeOK
  <2>3. IndexInv'
    <3>1. \A u \in heads' : tail + count <= u /\ u <= head
      BY <1>2, <1>4, <2>1 DEF IndexInv, TypeOK
    <3>2. head \in heads'
      BY <1>2, <1>4, <2>1 DEF IndexInv, TypeOK
    <3>3. QED
      <4>1. /\ consumer'.pc = "copying" /\ consumer'.at = tail
            /\ consumer'.count = count /\ consumer'.done = 0
        BY <1>2, <1>4, <1>5, <2>1, CallRecords
      <4>2. QED
        BY <1>2, <1>3, <1>4, <1>5, <3>1, <3>2, <4>1 DEF IndexInv, TypeOK, CallRecord
  <2>4. ContentInv'
    BY <1>3, <2>1 DEF ContentInv, Copying
  <2>5. QED
    BY <2>2, <2>3, <2>4
<1>6. CASE ~(count > 0)
  <2>1. consumer' = consumer /\ out' = out /\ heads' = {u \in heads : u >= h}
    BY <1>1, <1>6
  <2>2. TypeOK'
    BY <1>3, <2>1 DEF TypeOK
  <2>3. IndexInv'
    BY <1>2, <1>3, <1>4, <2>1 DEF IndexInv, TypeOK
  <2>4. ContentInv'
    BY <1>3, <2>1 DEF ContentInv
  <2>5. QED
    BY <2>2, <2>3, <2>4
<1>7. QED
  BY <1>5, <1>6

LEMMA ReadSampleIInv ==
  ASSUME IInv, ReadSample
  PROVE  IInv'
<1> USE CapacityAssumption DEF IInv
<1> DEFINE index == consumer.at + consumer.done
<1>1. /\ consumer.pc = "copying" /\ consumer.done < consumer.count
      /\ consumer.at = tail /\ consumer \in CallRecord
      /\ consumer' = [consumer EXCEPT !.done = @ + 1]
      /\ out' = Append(out, storage[Slot(index)])
      /\ UNCHANGED <<storage, head, tail, heads, tails, producer, returned>>
      /\ head \in Nat /\ tail \in Nat /\ index \in Nat
  BY DEF ReadSample, IndexInv, TypeOK, CallRecord
<1>2. /\ consumer'.pc = "copying" /\ consumer'.at = tail
      /\ consumer'.count = consumer.count /\ consumer'.done = consumer.done + 1
  BY <1>1 DEF CallRecord
<1>3. storage[Slot(index)] \in Nat \union {Empty}
  BY <1>1, SlotInRange DEF TypeOK
<1>4. TypeOK'
  <2>1. consumer' \in CallRecord
    BY <1>1 DEF CallRecord
  <2>2. out' \in Seq(Nat \union {Empty})
    BY <1>1, <1>3 DEF TypeOK
  <2>3. QED
    BY <1>1, <2>1, <2>2 DEF TypeOK
<1>5. IndexInv'
  BY <1>1, <1>2 DEF IndexInv, TypeOK, CallRecord
<1>6. ContentInv'
  <2>1. index \in tail..(head + producer.done - 1)
    <3>1. /\ producer.done \in Nat /\ consumer.done \in Nat
          /\ consumer.count \in Nat /\ tail + consumer.count <= head
      BY <1>1 DEF IndexInv, TypeOK, CallRecord
    <3>2. QED
      BY <1>1, <3>1
  <2>2. storage[Slot(index)] = tail + consumer.done
    BY <1>1, <2>1 DEF ContentInv
  <2>3. /\ Len(out) = consumer.done /\ out \in Seq(Nat \union {Empty})
        /\ consumer.done \in Nat
        /\ \A i \in 1..consumer.done : out[i] = tail + i - 1
    BY <1>1 DEF ContentInv, TypeOK, CallRecord
  <2>4. Len(out') = consumer.done + 1
    BY <1>1, <1>3, <2>3
  <2>5. ASSUME NEW i \in 1..(consumer.done + 1)
        PROVE  out'[i] = tail + i - 1
    <3>1. CASE i = consumer.done + 1
      BY <1>1, <1>3, <2>2, <2>3, <3>1
    <3>2. CASE i \in 1..consumer.done
      BY <1>1, <1>3, <2>3, <3>2
    <3>3. QED
      BY <2>3, <3>1, <3>2
  <2>6. QED
    BY <1>1, <1>2, <2>4, <2>5 DEF ContentInv
<1>7. QED
  BY <1>4, <1>5, <1>6

LEMMA ReadPublishIInv ==
  ASSUME IInv, ReadPublish
  PROVE  IInv'
<1> USE CapacityAssumption DEF IInv
<1>1. /\ consumer.pc = "copying" /\ consumer.done = consumer.count
      /\ consumer.at = tail /\ tail' = tail + consumer.count
      /\ tails' = tails \union {tail'} /\ consumer' = Idle /\ returned' = out
      /\ UNCHANGED <<storage, head, heads, producer, out>>
  BY DEF ReadPublish, IndexInv
<1>2. /\ head \in Nat /\ tail \in Nat
      /\ consumer.count \in Nat /\ producer.count \in Nat /\ producer.done \in Nat
  BY DEF TypeOK, CallRecord
<1>3. TypeOK'
  <2>1. tail' \in Nat
    BY <1>1, <1>2
  <2>2. tails' \subseteq Nat
    BY <1>1, <2>1 DEF TypeOK
  <2>3. QED
    BY <1>1, <2>1, <2>2, CallRecords DEF TypeOK
<1>4. IndexInv'
  <2>1. \A h \in heads : tail' + 0 <= h /\ h <= head
    BY <1>1, <1>2 DEF IndexInv, TypeOK
  <2>2. \A t \in tails' : t <= tail' /\ head + producer.count <= t + Capacity
    <3>1. tail \in tails
      BY DEF IndexInv
    <3>2. QED
      BY <1>1, <1>2, <3>1 DEF IndexInv, TypeOK
  <2>3. consumer'.pc = "idle" /\ consumer'.count = 0 /\ consumer'.done = 0
    BY <1>1, CallRecords
  <2>4. head' \in heads' /\ tail' \in tails'
    BY <1>1 DEF IndexInv
  <2>5. QED
    BY <1>1, <2>1, <2>2, <2>3, <2>4 DEF IndexInv
<1>5. ContentInv'
  BY <1>1, <1>2 DEF ContentInv, Idle
<1>6. QED
  BY <1>3, <1>4, <1>5

(* The inductive invariant holds of every behaviour of the ring. *)
THEOREM Inductive == Spec => []IInv
<1>1. IInv /\ [Next]_vars => IInv'
  <2> SUFFICES ASSUME IInv, [Next]_vars PROVE IInv'
    OBVIOUS
  <2>1. CASE Producer
    BY <2>1, WriteBeginIInv, WriteSampleIInv, WritePublishIInv DEF Producer
  <2>2. CASE Consumer
    BY <2>2, ReadBeginIInv, ReadSampleIInv, ReadPublishIInv DEF Consumer
  <2>3. CASE UNCHANGED vars
    BY <2>3 DEF vars, IInv, TypeOK, IndexInv, ContentInv
  <2>4. QED
    BY <2>1, <2>2, <2>3 DEF Next
<1>2. QED
  BY <1>1, InitIInv, PTL DEF Spec

(* The variables keep the types the code declares, and no call copies more *)
(* samples than the ring holds.                                            *)
THEOREM TypeCorrect == Spec => []TypeOK
<1>1. IInv => TypeOK
  BY DEF IInv
<1>2. QED
  BY <1>1, Inductive, PTL

(* Producer and consumer never copy the same slot at once, for any         *)
(* capacity and however stale the index either side loaded.                *)
THEOREM NoRace == Spec => []RaceFree
<1>1. IInv => RaceFree
  <2> SUFFICES ASSUME IInv,
                      NEW s \in Pending(producer), s \in Pending(consumer)
               PROVE  FALSE
    BY DEF RaceFree
  <2>1. /\ producer.pc = "copying" /\ consumer.pc = "copying"
        /\ producer.at = head /\ consumer.at = tail
    BY DEF Pending, IInv, IndexInv
  <2>2. PICK i \in (head + producer.done)..(head + producer.count - 1) : s = Slot(i)
    BY <2>1 DEF Pending
  <2>3. PICK j \in (tail + consumer.done)..(tail + consumer.count - 1) : s = Slot(j)
    BY <2>1 DEF Pending
  <2>4. /\ i \in Nat /\ j \in Nat /\ j < i /\ i < j + Capacity
    <3>1. /\ head \in Nat /\ tail \in Nat
          /\ producer.count \in Nat /\ producer.done \in Nat
          /\ consumer.count \in Nat /\ consumer.done \in Nat
      BY DEF IInv, TypeOK, CallRecord
    <3>2. /\ tail + consumer.count <= head
          /\ head + producer.count <= tail + Capacity
      BY <3>1 DEF IInv, IndexInv, TypeOK
    <3>3. QED
      BY <2>2, <2>3, <3>1, <3>2, CapacityAssumption
  <2>5. QED
    BY <2>2, <2>3, <2>4, SlotsDistinct
<1>2. QED
  BY <1>1, Inductive, PTL

(* Every sample a read copies is the next one of the stream. *)
THEOREM InOrder == Spec => []ReadsInOrder
<1>1. IInv => ReadsInOrder
  BY DEF IInv, ContentInv, ReadsInOrder
<1>2. QED
  BY <1>1, Inductive, PTL

(* The fill level the rate control computes is always within the ring. *)
THEOREM OccupancyBounded == Spec => []OccupancyInRange
<1>1. IInv => OccupancyInRange
  BY CapacityAssumption
  DEF IInv, IndexInv, TypeOK, CallRecord, OccupancyInRange, Occupancies
<1>2. QED
  BY <1>1, Inductive, PTL
-----------------------------------------------------------------------------
LEMMA MultipleHasNoRest ==
  ASSUME NEW d \in Nat \ {0}, NEW q \in Int
  PROVE  (d * q) % d = 0
<1> DEFINE m == d * q
           r == m % d
           k == q - (m \div d)
<1>1. m \in Int /\ k \in Int /\ r \in 0..(d - 1) /\ r = d * k
  <2>1. m \in Int
    OBVIOUS
  <2>2. m \div d \in Int /\ r \in 0..(d - 1) /\ m = (d * (m \div d)) + r
    BY <2>1
  <2>3. QED
    BY <2>1, <2>2
<1>2. CASE k >= 1
  <2>1. d * k >= d
    BY <1>1, <1>2
  <2>2. QED
    BY <1>1, <2>1
<1>3. CASE k <= 0
  <2>1. d * k <= 0
    BY <1>1, <1>3
  <2>2. QED
    BY <1>1, <2>1
<1>4. QED
  BY <1>1, <1>2, <1>3

(* Sums and differences of whole numbers of frames are whole numbers of    *)
(* frames.                                                                 *)
LEMMA MultiplesCombine ==
  ASSUME NEW d \in Nat \ {0}, NEW a \in Int, NEW b \in Int, a % d = 0, b % d = 0,
         NEW c \in Int, c = a + b \/ c = a - b
  PROVE  c % d = 0
<1> DEFINE qa == a \div d
           qb == b \div d
<1>1. qa \in Int /\ qb \in Int /\ a = d * qa /\ b = d * qb
  OBVIOUS
<1>2. CASE c = a + b
  <2>1. qa + qb \in Int /\ c = d * (qa + qb)
    BY <1>1, <1>2
  <2>2. QED
    BY <2>1, MultipleHasNoRest
<1>3. CASE c = a - b
  <2>1. qa - qb \in Int /\ c = d * (qa - qb)
    BY <1>1, <1>3
  <2>2. QED
    BY <2>1, MultipleHasNoRest
<1>4. QED
  BY <1>2, <1>3

(* What StereoAligned needs to be inductive: the indices a load may still  *)
(* return are whole frames too.                                            *)
AlignInv ==
  /\ StereoAligned
  /\ \A i \in heads \union tails : i % Channels = 0

WholeFrames ==
  /\ Channels \in Nat \ {0}
  /\ Capacity % Channels = 0
  /\ \A n \in WriteSizes \union ReadSizes : n % Channels = 0

(* A call sets out to copy whole frames if what it is asked for and what   *)
(* limits it are whole frames.                                             *)
LEMMA WriteBeginAligned ==
  ASSUME WholeFrames, IInv, AlignInv, NEW n \in WriteSizes, WriteBegin(n)
  PROVE  AlignInv'
<1>1. PICK t \in tails :
        LET count == Least(Space(head, t), n) IN
        /\ tails' = {u \in tails : u >= t}
        /\ producer' = IF count > 0 THEN Copying(head, count) ELSE producer
  BY DEF WriteBegin
<1>2. /\ n \in Nat /\ head \in Nat /\ t \in Nat /\ Capacity \in Nat
      /\ n % Channels = 0 /\ head % Channels = 0 /\ t % Channels = 0
  BY CapacityAssumption, SizesAssumption DEF IInv, TypeOK, AlignInv, StereoAligned, WholeFrames
<1>3. PICK unread \in Int : unread = head - t /\ unread % Channels = 0
  <2>1. \A c \in Int : c = head - t => c % Channels = 0
    <3>1. head \in Int /\ t \in Int
      BY <1>2
    <3>2. QED
      BY <1>2, <3>1, MultiplesCombine, Zenon DEF WholeFrames
  <2>2. QED
    BY <1>2, <2>1
<1>4. PICK space \in Int : space = Capacity - unread /\ space % Channels = 0
  <2>1. Capacity % Channels = 0
    BY DEF WholeFrames
  <2>2. \A c \in Int : c = Capacity - unread => c % Channels = 0
    <3>1. Capacity \in Int
      BY <1>2
    <3>2. QED
      BY <1>3, <2>1, <3>1, MultiplesCombine, Zenon DEF WholeFrames
  <2>3. QED
    BY <1>2, <2>2
<1>5. Least(Space(head, t), n) % Channels = 0
  BY <1>2, <1>3, <1>4 DEF Least, Space
<1>6. producer'.count % Channels = 0
  BY <1>1, <1>5 DEF AlignInv, StereoAligned, Copying
<1>7. UNCHANGED <<head, tail, heads, consumer>> /\ tails' \subseteq tails
  BY <1>1 DEF WriteBegin
<1>8. QED
  BY <1>6, <1>7 DEF AlignInv, StereoAligned

LEMMA ReadBeginAligned ==
  ASSUME WholeFrames, IInv, AlignInv, NEW n \in ReadSizes, ReadBegin(n)
  PROVE  AlignInv'
<1>1. PICK h \in heads :
        LET count == Least(h - tail, n) IN
        /\ heads' = {u \in heads : u >= h}
        /\ consumer' = IF count > 0 THEN Copying(tail, count) ELSE consumer
  BY DEF ReadBegin
<1>2. /\ n \in Nat /\ tail \in Nat /\ h \in Nat
      /\ n % Channels = 0 /\ tail % Channels = 0 /\ h % Channels = 0
  BY SizesAssumption DEF IInv, TypeOK, AlignInv, StereoAligned, WholeFrames
<1>3. PICK unread \in Int : unread = h - tail /\ unread % Channels = 0
  <2>1. \A c \in Int : c = h - tail => c % Channels = 0
    <3>1. h \in Int /\ tail \in Int
      BY <1>2
    <3>2. QED
      BY <1>2, <3>1, MultiplesCombine, Zenon DEF WholeFrames
  <2>2. QED
    BY <1>2, <2>1
<1>4. Least(h - tail, n) % Channels = 0
  BY <1>2, <1>3 DEF Least
<1>5. consumer'.count % Channels = 0
  BY <1>1, <1>4 DEF AlignInv, StereoAligned, Copying
<1>6. UNCHANGED <<head, tail, tails, producer>> /\ heads' \subseteq heads
  BY <1>1 DEF ReadBegin
<1>7. QED
  BY <1>5, <1>6 DEF AlignInv, StereoAligned

(* A publication moves its index by a call's count. *)
LEMMA PublishAligned ==
  ASSUME WholeFrames, IInv, AlignInv, WritePublish \/ ReadPublish
  PROVE  AlignInv'
<1>1. Idle.count % Channels = 0
  BY DEF WholeFrames, Idle
<1>2. /\ head \in Nat /\ tail \in Nat
      /\ producer.count \in Nat /\ consumer.count \in Nat
  BY DEF IInv, TypeOK, CallRecord
<1>3. CASE WritePublish
  <2>1. head' = head + producer.count
    BY <1>3 DEF WritePublish, IInv, IndexInv
  <2>2. head' % Channels = 0
    BY <1>2, <2>1, MultiplesCombine DEF WholeFrames, AlignInv, StereoAligned
  <2>3. /\ heads' = heads \union {head'} /\ producer' = Idle
        /\ UNCHANGED <<tail, tails, consumer>>
    BY <1>3 DEF WritePublish
  <2>4. QED
    BY <1>1, <2>2, <2>3 DEF AlignInv, StereoAligned
<1>4. CASE ReadPublish
  <2>1. tail' = tail + consumer.count
    BY <1>4 DEF ReadPublish, IInv, IndexInv
  <2>2. tail' % Channels = 0
    BY <1>2, <2>1, MultiplesCombine DEF WholeFrames, AlignInv, StereoAligned
  <2>3. /\ tails' = tails \union {tail'} /\ consumer' = Idle
        /\ UNCHANGED <<head, heads, producer>>
    BY <1>4 DEF ReadPublish
  <2>4. QED
    BY <1>1, <2>2, <2>3 DEF AlignInv, StereoAligned
<1>5. QED
  BY <1>3, <1>4

(* With a capacity and calls of whole frames, for any number of channels,  *)
(* no call ever splits a frame, also when a full or an empty ring cuts it  *)
(* short.                                                                  *)
THEOREM FramesStayWhole ==
  ASSUME WholeFrames
  PROVE  Spec => []StereoAligned
<1>1. Init => AlignInv
  BY DEF Init, AlignInv, StereoAligned, Idle, WholeFrames
<1>2. IInv /\ AlignInv /\ [Next]_vars => AlignInv'
  <2> SUFFICES ASSUME IInv, AlignInv, [Next]_vars PROVE AlignInv'
    OBVIOUS
  <2>1. ASSUME NEW n \in WriteSizes, WriteBegin(n) PROVE AlignInv'
    BY <2>1, WriteBeginAligned
  <2>2. ASSUME NEW n \in ReadSizes, ReadBegin(n) PROVE AlignInv'
    BY <2>2, ReadBeginAligned
  <2>3. CASE WritePublish \/ ReadPublish
    BY <2>3, PublishAligned
  <2>4. CASE WriteSample
    <3>1. producer' = [producer EXCEPT !.done = @ + 1]
          /\ UNCHANGED <<head, tail, heads, tails, consumer>>
      BY <2>4 DEF WriteSample
    <3>2. producer'.count = producer.count
      BY <3>1 DEF IInv, TypeOK, CallRecord
    <3>3. QED
      BY <3>1, <3>2 DEF AlignInv, StereoAligned
  <2>5. CASE ReadSample
    <3>1. consumer' = [consumer EXCEPT !.done = @ + 1]
          /\ UNCHANGED <<head, tail, heads, tails, producer>>
      BY <2>5 DEF ReadSample
    <3>2. consumer'.count = consumer.count
      BY <3>1 DEF IInv, TypeOK, CallRecord
    <3>3. QED
      BY <3>1, <3>2 DEF AlignInv, StereoAligned
  <2>6. CASE UNCHANGED vars
    BY <2>6 DEF vars, AlignInv, StereoAligned
  <2>7. QED
    BY <2>1, <2>2, <2>3, <2>4, <2>5, <2>6 DEF Next, Producer, Consumer
<1>3. AlignInv => StereoAligned
  BY DEF AlignInv
<1>4. QED
  BY <1>1, <1>2, <1>3, Inductive, PTL DEF Spec
-----------------------------------------------------------------------------
(* The part of the stream from position a up to, not including, b. *)
Stream(a, b) == [i \in 1..(b - a) |-> a + i - 1]

LEMMA StreamSeq ==
  ASSUME NEW a \in Nat, NEW b \in Nat, a <= b
  PROVE  Stream(a, b) \in Seq(Nat) /\ Len(Stream(a, b)) = b - a
<1>1. \A i \in 1..(b - a) : a + i - 1 \in Nat
  OBVIOUS
<1>2. QED
  BY <1>1 DEF Stream

LEMMA StreamAppend ==
  ASSUME NEW a \in Nat, NEW b \in Nat, NEW c \in Nat, a <= b, b <= c
  PROVE  Stream(a, c) = Stream(a, b) \o Stream(b, c)
<1> DEFINE whole == Stream(a, b) \o Stream(b, c)
<1>1. /\ Stream(a, b) \in Seq(Nat) /\ Len(Stream(a, b)) = b - a
      /\ Stream(b, c) \in Seq(Nat) /\ Len(Stream(b, c)) = c - b
  BY StreamSeq
<1>2. whole \in Seq(Nat) /\ Len(whole) = c - a
  BY <1>1
<1>3. ASSUME NEW i \in 1..(c - a) PROVE whole[i] = a + i - 1
  <2>1. CASE i \in 1..(b - a)
    BY <1>1, <2>1 DEF Stream
  <2>2. CASE i \in (b - a + 1)..(c - a)
    <3>1. whole[i] = Stream(b, c)[i - (b - a)]
      BY <1>1, <2>2
    <3>2. i - (b - a) \in 1..(c - b)
      BY <2>2
    <3>3. QED
      BY <3>1, <3>2 DEF Stream
  <2>3. i \in Int /\ 1 <= i /\ i <= c - a
    OBVIOUS
  <2>4. i \in 1..(b - a) \/ i \in (b - a + 1)..(c - a)
    BY <2>3
  <2>5. QED
    BY <2>1, <2>2, <2>4
<1>4. whole = [i \in 1..(c - a) |-> a + i - 1]
  <2> HIDE DEF whole
  <2>1. DOMAIN whole = 1..(c - a)
    BY <1>2
  <2>2. whole = [i \in DOMAIN whole |-> whole[i]]
    BY <1>2
  <2>3. QED
    BY <1>3, <2>1, <2>2
<1>5. QED
  BY <1>4 DEF Stream

LEMMA StreamSplit ==
  ASSUME NEW a \in Nat, NEW k \in Nat, NEW c \in Nat, a + k <= c
  PROVE  /\ SubSeq(Stream(a, c), 1, k) = Stream(a, a + k)
         /\ SubSeq(Stream(a, c), k + 1, c - a) = Stream(a + k, c)
<1>1. Stream(a, c) \in Seq(Nat) /\ Len(Stream(a, c)) = c - a
  BY StreamSeq
<1>2. SubSeq(Stream(a, c), 1, k) = Stream(a, a + k)
  <2>1. SubSeq(Stream(a, c), 1, k) = [i \in 1..k |-> Stream(a, c)[i]]
    BY <1>1
  <2>2. \A i \in 1..k : Stream(a, c)[i] = a + i - 1
    BY DEF Stream
  <2>3. (a + k) - a = k
    OBVIOUS
  <2>4. QED
    BY <2>1, <2>2, <2>3 DEF Stream
<1>3. SubSeq(Stream(a, c), k + 1, c - a) = Stream(a + k, c)
  <2>1. SubSeq(Stream(a, c), k + 1, c - a)
          = [i \in 1..(c - a - k) |-> Stream(a, c)[i + k]]
    BY <1>1
  <2>2. \A i \in 1..(c - a - k) : Stream(a, c)[i + k] = (a + k) + i - 1
    BY DEF Stream
  <2>3. c - a - k = c - (a + k)
    OBVIOUS
  <2>4. QED
    BY <2>1, <2>2, <2>3 DEF Stream
<1>4. QED
  BY <1>2, <1>3

(* The samples in the ring are the part of the stream between the indices. *)
LEMMA UnreadStream == IInv => Unread = Stream(tail, head)
<1> SUFFICES ASSUME IInv PROVE Unread = Stream(tail, head)
  OBVIOUS
<1>1. head \in Nat /\ tail \in Nat /\ producer.done \in Nat
  BY DEF IInv, TypeOK, CallRecord
<1>2. ASSUME NEW i \in 1..(head - tail)
      PROVE  storage[Slot(tail + i - 1)] = tail + i - 1
  <2>1. tail + i - 1 \in tail..(head + producer.done - 1)
    BY <1>1
  <2>2. QED
    BY <2>1 DEF IInv, ContentInv
<1>3. QED
  BY <1>2 DEF Unread, Stream

(* A step that moves neither index is a stutter of the abstract queue. *)
LEMMA SameIndices ==
  ASSUME IInv, IInv', UNCHANGED <<head, tail, returned>>
  PROVE  UNCHANGED SQ!vars
<1>1. Unread = Stream(tail, head)
  BY UnreadStream
<1>2. Unread' = Stream(tail', head')
  <2>1. (IInv => Unread = Stream(tail, head))'
    BY UnreadStream, PTL
  <2>2. QED
    BY <2>1 DEF Stream
<1>3. QED
  BY <1>1, <1>2 DEF SQ!vars

(* Publishing a write is a Put of as many samples as were copied. *)
LEMMA WritePublishPuts ==
  ASSUME IInv, IInv', WritePublish
  PROVE  SQ!Next
<1> DEFINE k == producer.count
<1>1. /\ head \in Nat /\ tail \in Nat /\ k \in Nat /\ tail <= head
      /\ head + k <= tail + Capacity
      /\ head' = head + k /\ tail' = tail /\ returned' = returned
  <2>1. /\ head \in Nat /\ tail \in Nat /\ k \in Nat /\ consumer.count \in Nat
        /\ head \in heads /\ tail \in tails
    BY DEF IInv, IndexInv, TypeOK, CallRecord
  <2>2. /\ tail + consumer.count <= head
        /\ head + k <= tail + Capacity
    BY <2>1 DEF IInv, IndexInv
  <2>3. head' = head + k /\ tail' = tail /\ returned' = returned
    BY DEF WritePublish, IInv, IndexInv
  <2>4. QED
    BY <2>1, <2>2, <2>3
<1>2. k > 0
  BY DEF WritePublish, IInv, IndexInv
<1>3. Unread = Stream(tail, head) /\ Unread' = Stream(tail, head + k)
  <2>1. (IInv => Unread = Stream(tail, head))'
    BY UnreadStream, PTL
  <2>2. QED
    BY <1>1, <2>1, UnreadStream DEF Stream
<1>4. Len(Unread) = head - tail
  BY <1>1, <1>3, StreamSeq
<1>5. Unread' = Unread \o [i \in 1..k |-> head + i - 1]
  <2>1. Stream(head, head + k) = [i \in 1..k |-> head + i - 1]
    BY <1>1 DEF Stream
  <2>2. head <= head + k /\ head + k \in Nat
    BY <1>1
  <2>3. Stream(tail, head + k) = Stream(tail, head) \o Stream(head, head + k)
    BY <1>1, <2>2, StreamAppend
  <2>4. QED
    BY <1>3, <2>1, <2>3
<1>6. SQ!Put(k) /\ k \in 1..Capacity
  BY <1>1, <1>2, <1>4, <1>5, CapacityAssumption DEF SQ!Put
<1>7. QED
  BY <1>6 DEF SQ!Next

(* Publishing a read is a Take of the samples that were copied. *)
LEMMA ReadPublishTakes ==
  ASSUME IInv, IInv', ReadPublish
  PROVE  SQ!Next
<1> DEFINE k == consumer.count
<1>1. /\ head \in Nat /\ tail \in Nat /\ k \in Nat /\ tail + k <= head
      /\ head <= tail + Capacity
      /\ tail' = tail + k /\ head' = head /\ returned' = out
      /\ consumer.pc = "copying" /\ consumer.done = k
  <2>1. /\ head \in Nat /\ tail \in Nat /\ k \in Nat /\ producer.count \in Nat
        /\ head \in heads /\ tail \in tails
    BY DEF IInv, IndexInv, TypeOK, CallRecord
  <2>2. /\ tail + k <= head
        /\ head + producer.count <= tail + Capacity
    BY <2>1 DEF IInv, IndexInv
  <2>3. /\ tail' = tail + k /\ head' = head /\ returned' = out
        /\ consumer.pc = "copying" /\ consumer.done = k
    BY DEF ReadPublish, IInv, IndexInv
  <2>4. QED
    BY <2>1, <2>2, <2>3, CapacityAssumption
<1>2. k > 0
  BY DEF ReadPublish, IInv, IndexInv
<1>3. Unread = Stream(tail, head) /\ Unread' = Stream(tail + k, head)
  <2>1. (IInv => Unread = Stream(tail, head))'
    BY UnreadStream, PTL
  <2>2. QED
    BY <1>1, <2>1, UnreadStream DEF Stream
<1>4. Len(Unread) = head - tail
  <2>1. tail <= head
    BY <1>1
  <2>2. QED
    BY <1>1, <1>3, <2>1, StreamSeq
<1>5. out = Stream(tail, tail + k)
  <2>1. /\ out \in Seq(Nat \union {Empty}) /\ Len(out) = k
        /\ \A i \in 1..k : out[i] = tail + i - 1
    BY <1>1 DEF IInv, TypeOK, ContentInv
  <2>2. out = [i \in 1..k |-> out[i]]
    BY <2>1
  <2>3. (tail + k) - tail = k
    BY <1>1
  <2>4. QED
    BY <2>1, <2>2, <2>3 DEF Stream
<1>6. /\ returned' = SubSeq(Unread, 1, k)
      /\ Unread' = SubSeq(Unread, k + 1, Len(Unread))
  <2>1. /\ SubSeq(Stream(tail, head), 1, k) = Stream(tail, tail + k)
        /\ SubSeq(Stream(tail, head), k + 1, head - tail) = Stream(tail + k, head)
    BY <1>1, StreamSplit
  <2>2. QED
    BY <1>1, <1>3, <1>4, <1>5, <2>1
<1>7. SQ!Take(k) /\ k \in 1..Capacity
  BY <1>1, <1>2, <1>4, <1>6, CapacityAssumption DEF SQ!Take
<1>8. QED
  BY <1>7 DEF SQ!Next

(* The ring implements the bounded FIFO queue: publishing a write is a     *)
(* Put, publishing a read is a Take, and every other step is invisible.    *)
THEOREM Refinement == Spec => RingIsAQueue
<1>1. Init => SQ!Init
  <2>1. Init => Unread = <<>>
    BY DEF Init, Unread
  <2>2. QED
    BY <2>1 DEF Init, SQ!Init
<1>2. IInv /\ IInv' /\ [Next]_vars => [SQ!Next]_(SQ!vars)
  <2> SUFFICES ASSUME IInv, IInv', [Next]_vars PROVE [SQ!Next]_(SQ!vars)
    OBVIOUS
  <2>1. ASSUME NEW n \in WriteSizes, WriteBegin(n) PROVE UNCHANGED SQ!vars
    BY <2>1, SameIndices DEF WriteBegin
  <2>2. CASE WriteSample
    BY <2>2, SameIndices DEF WriteSample
  <2>3. CASE WritePublish
    BY <2>3, WritePublishPuts
  <2>4. ASSUME NEW n \in ReadSizes, ReadBegin(n) PROVE UNCHANGED SQ!vars
    BY <2>4, SameIndices DEF ReadBegin
  <2>5. CASE ReadSample
    BY <2>5, SameIndices DEF ReadSample
  <2>6. CASE ReadPublish
    BY <2>6, ReadPublishTakes
  <2>7. CASE UNCHANGED vars
    BY <2>7, SameIndices DEF vars
  <2>8. QED
    BY <2>1, <2>2, <2>3, <2>4, <2>5, <2>6, <2>7 DEF Next, Producer, Consumer
<1>3. QED
  BY <1>1, <1>2, Inductive, PTL DEF Spec, RingIsAQueue, SQ!Spec
=============================================================================
