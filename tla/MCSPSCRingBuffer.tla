-------------------------- MODULE MCSPSCRingBuffer --------------------------
(***************************************************************************)
(* A small instance of the audio ring.  A capacity of 4 lets the indices   *)
(* wrap several times within MaxSamples; a batch larger than the ring is   *)
(* cut short, and a request larger than what is there is served in part.   *)
(***************************************************************************)
EXTENDS SPSCRingBuffer

FourSlots == RoundedUp(3)
StereoBatches == {2, 6}
StereoRequests == {2, 4}
=============================================================================
