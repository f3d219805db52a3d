--------------------------- MODULE MCPresentation ---------------------------
(* The pacing of small instances; TLC also evaluates the path of a frame   *)
(* on small frames, and on the examples of PixelConverterTests and         *)
(* IntegerScalerTests.                                                     *)
EXTENDS FramePacer, FramePath

\* Memory in which the byte at every offset is another.
MCData == [i \in 0..200 |-> (i * 37 + 11) % 256]
MCCalls == [duplicate : BOOLEAN, data : {MCData}, width : 0..2, height : 0..2, pitch : {0, 2, 3, 4, 8, 11}]

MCSurface == [width |-> 3, height |-> 2, rowBytes |-> 14, bytes |-> [i \in Nat |-> 0]]

MCFrames == UNION {Captured(call, format) : call \in MCCalls, format \in PixelFormats}

ASSUME FramesAreShown ==
  \A frame \in MCFrames :
    /\ Convertible(frame) /\ Fits(frame, MCSurface)
    /\ \A row \in 0..(frame.height - 1), column \in 0..(frame.width - 1), k \in 0..3 :
         CopiedRows(frame, MCSurface)[row * 14 + column * 4 + k] = BGRA(frame, row, column)[k + 1]
    /\ \A i \in 0..60 : CopiedRows(frame, MCSurface)[i] # 0 => i < 2 * 14 /\ i % 14 < 12

ASSUME SomeFrames == {frame.format : frame \in MCFrames} = PixelFormats

ASSUME Primaries ==
  /\ BGRA565(0, 248) = <<0, 0, 255, 255>> /\ BGRA565(224, 7) = <<0, 255, 0, 255>>
  /\ BGRA565(31, 0) = <<255, 0, 0, 255>> /\ BGRA565(0, 128) = <<0, 0, 132, 255>>
  /\ BGRA565(0, 4) = <<0, 130, 0, 255>>
  /\ BGRA1555(0, 124) = <<0, 0, 255, 255>> /\ BGRA1555(224, 3) = <<0, 255, 0, 255>>
  /\ BGRA1555(31, 0) = <<255, 0, 0, 255>> /\ BGRA1555(0, 252) = <<0, 0, 255, 255>>

Size(w, h) == [width |-> w, height |-> h]
FourToThree == [num |-> 4, den |-> 3]

ASSUME Rectangles ==
  /\ DestinationRect(Size(320, 240), FourToThree, Size(1920, 1080), TRUE)
       = [x |-> 320, y |-> 60, width |-> 1280, height |-> 960]
  /\ DestinationRect(Size(320, 240), FourToThree, Size(200, 100), TRUE)
       = [x |-> -60, y |-> -70, width |-> 320, height |-> 240]
  /\ DestinationRect(Size(256, 224), FourToThree, Size(1920, 1080), FALSE)
       = [x |-> 240, y |-> 0, width |-> 1440, height |-> 1080]
  /\ DestinationRect(Size(320, 240), FourToThree, Size(800, 1000), FALSE)
       = [x |-> 0, y |-> 200, width |-> 800, height |-> 600]
=============================================================================
