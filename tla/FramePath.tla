----------------------------- MODULE FramePath -----------------------------
(***************************************************************************)
(* The way of one frame from the core's buffer to the screen:              *)
(* CoreSession.captureVideo, PixelConverter.toBGRA8, the copy into the     *)
(* shared surface by runFramesShared, and IntegerScaler.                   *)
(*                                                                         *)
(* A buffer is a function from offsets to bytes.  The numbers are the      *)
(* core's: any width, height and pitch whose product fits an Int.  The     *)
(* Doubles of the scaler are exact fractions here.                         *)
(***************************************************************************)
EXTENDS Integers

Bytes == 0..255

(* LibretroPixelFormat *)
PixelFormats == {"0RGB1555", "RGB565", "XRGB8888"}
bytesPerPixel == [format \in PixelFormats |-> IF format = "XRGB8888" THEN 4 ELSE 2]

(* A call of retro_video_refresh; the duplicate of a frame has no data.    *)
(* data is what the core's memory holds from its pointer on.               *)
VideoCalls ==
  [duplicate : BOOLEAN, data : [Nat -> Bytes], width : Nat, height : Nat, pitch : Nat]

(* What both captureVideo and toBGRA8 ask of a geometry. *)
RowsFit(width, height, pitch, format) ==
  width > 0 /\ height > 0 /\ pitch >= width * bytesPerPixel[format]

(* captureVideo: the frames a call may leave in latestFrame, if it is not  *)
(* a duplicate and its rows fit.                                           *)
Captured(call, format) ==
  IF call.duplicate \/ ~RowsFit(call.width, call.height, call.pitch, format) THEN {}
  ELSE {[width |-> call.width, height |-> call.height, pitch |-> call.pitch, format |-> format,
         count |-> call.pitch * call.height,
         bytes |-> [i \in 0..(call.pitch * call.height - 1) |-> call.data[i]]]}

(* The guard of toBGRA8. *)
Convertible(frame) ==
  /\ RowsFit(frame.width, frame.height, frame.pitch, frame.format)
  /\ frame.count >= frame.pitch * frame.height

(* Where toBGRA8 reads the bytes of a pixel, and writes its four.          *)
ReadAt(frame, row, column) == row * frame.pitch + column * bytesPerPixel[frame.format]
WriteAt(frame, row, column) == row * (frame.width * 4) + column * 4

(* A channel of 5 or 6 bits is spread over 8 by repeating its first bits.  *)
Spread5(channel) == channel * 8 + channel \div 4
Spread6(channel) == channel * 4 + channel \div 16

(* Blue, green, red and alpha of two little-endian bytes. *)
BGRA565(low, high) ==
  <<Spread5(low % 32), Spread6((low \div 32) + 8 * (high % 8)), Spread5(high \div 8), 255>>
BGRA1555(low, high) ==
  <<Spread5(low % 32), Spread5((low \div 32) + 8 * (high % 4)), Spread5((high \div 4) % 32), 255>>

BGRA(frame, row, column) ==
  LET at == ReadAt(frame, row, column) IN
  IF frame.format = "XRGB8888"
  THEN <<frame.bytes[at], frame.bytes[at + 1], frame.bytes[at + 2], 255>>
  ELSE IF frame.format = "RGB565" THEN BGRA565(frame.bytes[at], frame.bytes[at + 1])
  ELSE BGRA1555(frame.bytes[at], frame.bytes[at + 1])

(* toBGRA8: the rows of pixels, tightly packed. *)
ToBGRA8(frame) ==
  LET rowBytes == frame.width * 4 IN
  [i \in 0..(frame.height * rowBytes - 1) |->
     BGRA(frame, i \div rowBytes, (i % rowBytes) \div 4)[(i % 4) + 1]]

(* External: an IOSurface of four bytes an element has rows of at least    *)
(* its width, padded as the system likes.                                  *)
Surfaces ==
  {surface \in [width : Nat, height : Nat, rowBytes : Nat, bytes : [Nat -> Bytes]] :
     surface.rowBytes >= surface.width * 4}

Fits(frame, surface) == frame.width <= surface.width /\ frame.height <= surface.height

(* runFramesShared: each row is copied to the row of the surface. *)
CopiedRows(frame, surface) ==
  LET rowBytes == frame.width * 4 IN
  [i \in Nat |->
     IF i < frame.height * surface.rowBytes /\ i % surface.rowBytes < rowBytes
     THEN ToBGRA8(frame)[(i \div surface.rowBytes) * rowBytes + (i % surface.rowBytes)]
     ELSE surface.bytes[i]]
-----------------------------------------------------------------------------
(* IntegerScaler.destinationRect.  aspect is a fraction.  Swift's division *)
(* of Ints drops the rest, also of a negative number.                      *)
Halved(n) == IF n < 0 THEN -((-n) \div 2) ELSE n \div 2

AtLeastOne(n) == IF n < 1 THEN 1 ELSE n
Smaller(m, n) == IF m < n THEN m ELSE n

(* The nearest whole number to n / d, the greater of two. *)
Rounded(n, d) == (2 * n + d) \div (2 * d)

Scale(content, drawable) ==
  AtLeastOne(Smaller(drawable.width \div content.width, drawable.height \div content.height))

IntegerSize(content, drawable) ==
  [width |-> content.width * Scale(content, drawable), height |-> content.height * Scale(content, drawable)]

FittedSize(aspect, drawable) ==
  IF drawable.width * aspect.den > aspect.num * drawable.height
  THEN [width |-> Rounded(drawable.height * aspect.num, aspect.den), height |-> drawable.height]
  ELSE [width |-> drawable.width, height |-> Rounded(drawable.width * aspect.den, aspect.num)]

Placed(size, drawable) ==
  [x |-> Halved(drawable.width - size.width), y |-> Halved(drawable.height - size.height),
   width |-> size.width, height |-> size.height]

DestinationRect(content, aspect, drawable, integerOnly) ==
  Placed(IF integerOnly THEN IntegerSize(content, drawable) ELSE FittedSize(aspect, drawable), drawable)
=============================================================================
