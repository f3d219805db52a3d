--------------------------- MODULE SPSCRingBuffer ---------------------------
(***************************************************************************)
(* The lock-free ring between the core thread (producer) and the audio     *)
(* render callback (consumer): Audio/SPSCRingBuffer.swift.                 *)
(*                                                                         *)
(* A call of write or read is three kinds of step: it loads the two        *)
(* indices, it copies one sample at a time, it publishes its own index.    *)
(* The atomics are release stores and acquire loads, not sequentially      *)
(* consistent ones, so a load of the other side's index may return any     *)
(* value stored there that is not older than the one it returned last:     *)
(* heads and tails hold the values such a load may still return.  What a   *)
(* release store publishes are the plain copies before it; RaceFree says   *)
(* that no slot is copied by both sides without such a pair in between, so *)
(* the copies may be taken to happen in the order they are written here.   *)
(*                                                                         *)
(* A sample is its place in the producer's stream.  Indices are unbounded  *)
(* here; in the code they are 64-bit and count samples since the session   *)
(* began.                                                                  *)
(***************************************************************************)
EXTENDS Integers, Sequences, FiniteSets

CONSTANTS
  Capacity,    \* slots in the ring, after init has rounded the request up
  WriteSizes,  \* how many samples a call of write may offer
  ReadSizes,   \* how many samples a call of read may ask for
  Channels,    \* samples of one audio frame: 2, the stream is stereo
  MaxSamples   \* bound: samples offered in one behaviour

ASSUME CapacityAssumption == Capacity \in Nat \ {0}
ASSUME SizesAssumption == WriteSizes \subseteq Nat /\ ReadSizes \subseteq Nat
ASSUME MaxSamplesAssumption == MaxSamples \in Nat

VARIABLES
  storage,   \* slot -> the sample last stored there
  head,      \* next write position, stored by the producer only
  tail,      \* next read position, stored by the consumer only
  heads,     \* values the consumer's next load of head may return
  tails,     \* values the producer's next load of tail may return
  producer,  \* the call of write in progress
  consumer,  \* the call of read in progress
  out,       \* the consumer's destination buffer, as far as it is filled
  returned   \* what the last call of read that read anything returned

vars == <<storage, head, tail, heads, tails, producer, consumer, out, returned>>

Empty == -1    \* what no sample is: storage starts out as zeros nobody wrote

(* init rounds the requested capacity up to a power of two. *)
RoundedUp(requested) ==
  CHOOSE p \in {2 ^ k : k \in 0..requested} :
    /\ p >= requested
    /\ \A q \in {2 ^ k : k \in 0..requested} : q >= requested => p <= q

(* index & (capacity - 1), for a capacity that is a power of two. *)
Slot(index) == index % Capacity

Slots == 0..(Capacity - 1)

Least(m, n) == IF m <= n THEN m ELSE n

Idle == [pc |-> "idle", at |-> 0, count |-> 0, done |-> 0]
Copying(at, count) == [pc |-> "copying", at |-> at, count |-> count, done |-> 0]

(* What availableToRead may return to the producer, which is the thread    *)
(* that calls it: occupancy and the rate control divide it by Capacity.    *)
Occupancies == {head - t : t \in tails}

Init ==
  /\ storage = [s \in Slots |-> Empty]
  /\ head = 0 /\ tail = 0
  /\ heads = {0} /\ tails = {0}
  /\ producer = Idle /\ consumer = Idle
  /\ out = <<>> /\ returned = <<>>
-----------------------------------------------------------------------------
\* Mutants of the definitions below, for the runs that must notice them.

SpaceOffByOne(at, t) == Capacity - (at - t) + 1
SpaceOneSlotFree(at, t) == Capacity - (at - t) - 1
SpaceSinceLastRead(at, t) == Capacity

(* Room for new samples, as the producer computes it. *)
Space(at, t) == Capacity - (at - t)
-----------------------------------------------------------------------------
(* write: load both indices, work out how many samples fit. *)
WriteBegin(n) ==
  /\ producer.pc = "idle"
  /\ head + n <= MaxSamples
  /\ \E t \in tails :
       LET count == Least(Space(head, t), n) IN
       /\ tails' = {u \in tails : u >= t}
       /\ producer' = IF count > 0 THEN Copying(head, count) ELSE producer
  /\ UNCHANGED <<storage, head, tail, heads, consumer, out, returned>>

(* write: one turn of the copying loop. *)
WriteSample ==
  /\ producer.pc = "copying"
  /\ producer.done < producer.count
  /\ LET index == producer.at + producer.done IN
       storage' = [storage EXCEPT ![Slot(index)] = index]
  /\ producer' = [producer EXCEPT !.done = @ + 1]
  /\ UNCHANGED <<head, tail, heads, tails, consumer, out, returned>>

WritePublishEarly ==
  /\ producer.pc = "copying"
  /\ head' = producer.at + producer.count
  /\ heads' = heads \union {head'}
  /\ producer' = IF producer.done = producer.count THEN Idle ELSE producer
  /\ UNCHANGED <<storage, tail, tails, consumer, out, returned>>

(* write: the release store of head. *)
WritePublish ==
  /\ producer.pc = "copying"
  /\ producer.done = producer.count
  /\ head' = producer.at + producer.count
  /\ heads' = heads \union {head'}
  /\ producer' = Idle
  /\ UNCHANGED <<storage, tail, tails, consumer, out, returned>>
-----------------------------------------------------------------------------
(* read: load both indices, work out how many samples there are. *)
ReadBegin(n) ==
  /\ consumer.pc = "idle"
  /\ \E h \in heads :
       LET count == Least(h - tail, n) IN
       /\ heads' = {u \in heads : u >= h}
       /\ consumer' = IF count > 0 THEN Copying(tail, count) ELSE consumer
       /\ out' = IF count > 0 THEN <<>> ELSE out
  /\ UNCHANGED <<storage, head, tail, tails, producer, returned>>

(* read: one turn of the copying loop. *)
ReadSample ==
  /\ consumer.pc = "copying"
  /\ consumer.done < consumer.count
  /\ out' = Append(out, storage[Slot(consumer.at + consumer.done)])
  /\ consumer' = [consumer EXCEPT !.done = @ + 1]
  /\ UNCHANGED <<storage, head, tail, heads, tails, producer, returned>>

ReadPublishEarly ==
  /\ consumer.pc = "copying"
  /\ tail' = consumer.at + consumer.count
  /\ tails' = tails \union {tail'}
  /\ consumer' = IF consumer.done = consumer.count THEN Idle ELSE consumer
  /\ returned' = out
  /\ UNCHANGED <<storage, head, heads, producer, out>>

(* read: the release store of tail. *)
ReadPublish ==
  /\ consumer.pc = "copying"
  /\ consumer.done = consumer.count
  /\ tail' = consumer.at + consumer.count
  /\ tails' = tails \union {tail'}
  /\ consumer' = Idle
  /\ returned' = out
  /\ UNCHANGED <<storage, head, heads, producer, out>>
-----------------------------------------------------------------------------
Producer == (\E n \in WriteSizes : WriteBegin(n)) \/ WriteSample \/ WritePublish
Consumer == (\E n \in ReadSizes : ReadBegin(n)) \/ ReadSample \/ ReadPublish

Next == Producer \/ Consumer

Spec == Init /\ [][Next]_vars
-----------------------------------------------------------------------------
CallRecord ==
  [pc : {"idle", "copying"}, at : Nat, count : 0..Capacity, done : Nat]

(* Every variable has the kind of value the code gives it, and a call      *)
(* never sets out to copy more samples than the ring has slots.            *)
TypeOK ==
  /\ storage \in [Slots -> Nat \union {Empty}]
  /\ head \in Nat /\ tail \in Nat
  /\ heads \subseteq Nat /\ tails \subseteq Nat
  /\ producer \in CallRecord /\ consumer \in CallRecord
  /\ out \in Seq(Nat \union {Empty})
  /\ returned \in Seq(Nat \union {Empty})

(* The slots a call in progress has still to copy. *)
Pending(call) ==
  IF call.pc = "copying"
  THEN {Slot(i) : i \in (call.at + call.done)..(call.at + call.count - 1)}
  ELSE {}

(* The two sides never copy the same slot at once, however old the index   *)
(* either of them loaded: the writer fills only slots whose sample has     *)
(* been read and published as read.                                        *)
RaceFree == Pending(producer) \intersect Pending(consumer) = {}

(* Read copies samples in stream order from where the last read ended, and *)
(* never one that is stale, torn or not yet written.                       *)
ReadsInOrder ==
  consumer.pc = "copying" =>
    \A i \in 1..consumer.done : out[i] = tail + i - 1

(* A fill level the rate control can see is between empty and full,        *)
(* whichever value of tail the producer happens to load: resampleRatio's   *)
(* clamp never hides a negative or overfull ring.                          *)
OccupancyInRange == Occupancies \subseteq 0..Capacity

(* When every batch and every request is whole frames, no call splits a    *)
(* frame: the resampler, which takes a short pair for an underrun, never   *)
(* drops half a frame and swaps left and right for the rest of the game.   *)
StereoAligned ==
  /\ head % Channels = 0 /\ tail % Channels = 0
  /\ producer.count % Channels = 0 /\ consumer.count % Channels = 0

(* The positions: a call in progress starts where its side's index is, the *)
(* reader's call ends before every head it may load, and the writer's ends *)
(* within Capacity of every tail it may load.                              *)
IndexInv ==
  /\ head \in heads /\ tail \in tails
  /\ \A h \in heads : tail + consumer.count <= h /\ h <= head
  /\ \A t \in tails : t <= tail /\ head + producer.count <= t + Capacity
  /\ producer.done <= producer.count /\ consumer.done <= consumer.count
  /\ producer.pc = "idle" => producer.count = 0
  /\ consumer.pc = "idle" => consumer.count = 0
  /\ producer.pc = "copying" => producer.at = head /\ producer.count > 0
  /\ consumer.pc = "copying" => consumer.at = tail /\ consumer.count > 0

(* The contents: every sample that is published, or already copied by the  *)
(* call of write in progress, and not yet read is in its slot, and the     *)
(* reader's buffer holds the samples from tail on.                         *)
ContentInv ==
  /\ \A p \in tail..(head + producer.done - 1) : storage[Slot(p)] = p
  /\ consumer.pc = "copying" =>
       /\ Len(out) = consumer.done
       /\ \A i \in 1..consumer.done : out[i] = tail + i - 1

(* What is inductive: every property above follows from it.                *)
IInv == TypeOK /\ IndexInv /\ ContentInv

(* The samples accepted and not yet taken, as the abstract queue has them. *)
Unread == [i \in 1..(head - tail) |-> storage[Slot(tail + i - 1)]]

SQ == INSTANCE SampleQueue
        WITH queue <- Unread, accepted <- head, taken <- returned

(* The ring is a bounded FIFO queue: what the two sides see of it, with    *)
(* every interleaving of their copying and publishing, is what they would  *)
(* see of a queue each of whose calls is one indivisible step.             *)
RingIsAQueue == SQ!Spec
=============================================================================
