---------------------------- MODULE SampleQueue ----------------------------
(***************************************************************************)
(* What the audio ring promises its two ends (ADR 0003): a bounded FIFO    *)
(* queue of samples.  A sample is named by its place in the stream, so     *)
(* that a lost, repeated or reordered sample shows in the values.          *)
(***************************************************************************)
EXTENDS Naturals, Sequences

CONSTANT Capacity    \* the most samples the queue holds

VARIABLES
  queue,     \* the samples accepted and not yet taken, oldest first
  accepted,  \* how many samples the producer has had accepted so far
  taken      \* the samples the last take returned

vars == <<queue, accepted, taken>>

Init ==
  /\ queue = <<>>
  /\ accepted = 0
  /\ taken = <<>>

(* The producer has the next k samples of its stream accepted. *)
Put(k) ==
  /\ k > 0
  /\ Len(queue) + k <= Capacity
  /\ queue' = queue \o [i \in 1..k |-> accepted + i - 1]
  /\ accepted' = accepted + k
  /\ UNCHANGED taken

(* The consumer takes the k oldest samples. *)
Take(k) ==
  /\ k > 0
  /\ k <= Len(queue)
  /\ taken' = SubSeq(queue, 1, k)
  /\ queue' = SubSeq(queue, k + 1, Len(queue))
  /\ UNCHANGED accepted

Next == \E k \in 1..Capacity : Put(k) \/ Take(k)

Spec == Init /\ [][Next]_vars
=============================================================================
