\* Whole stereo frames in and out; the proofs cover every other size.
SPECIFICATION Spec
CONSTANTS
  Capacity <- FourSlots
  WriteSizes <- StereoBatches
  ReadSizes <- StereoRequests
  Channels = 2
  MaxSamples = 30
INVARIANTS
  RaceFree
  ReadsInOrder
  OccupancyInRange
  StereoAligned
  IInv
PROPERTIES
  RingIsAQueue
