----------------------------- MODULE FramePacer -----------------------------
(***************************************************************************)
(* The pacing of a core against a display: Presentation/FramePacer.swift,  *)
(* as both display loops use it.  The mode is picked once, when the        *)
(* session is open; from then on every vblank asks the clock how many      *)
(* frames to run.  A rate is a number of frames, or refreshes, in a fixed  *)
(* stretch of time, and the code's Doubles are exact fractions here: the   *)
(* credit is counted in units of 1/den of a frame.  (Rounding can put a    *)
(* frame off by one vblank in the code: 1/6 added six times is below 1.)   *)
(***************************************************************************)
EXTENDS Integers, FiniteSets

CONSTANTS
  CoreRates, Refreshes, \* what cores and displays run at
  MaxVblanks            \* bound: vblanks in one behaviour

ASSUME RatesAssumption == CoreRates \subseteq Nat \ {0} /\ Refreshes \subseteq Nat \ {0}
ASSUME MaxVblanksAssumption == MaxVblanks \in Nat

maxVblanksPerFrame == 8
maxCatchUp == 4
maxMismatch == 5  \* per cent of the core's rate

VARIABLES
  coreRate, refresh, \* of this session
  credit,            \* FrameClock.credit, in units
  vblanks, frames,   \* how many there have been
  framesBy           \* history: how many frames there had been by each vblank

vars == <<coreRate, refresh, credit, vblanks, frames, framesBy>>

Abs(n) == IF n < 0 THEN -n ELSE n

(* |refresh / v - core| / core < |refresh / w - core| / core *)
Closer(core, display, v, w) == Abs(display - core * v) * w < Abs(display - core * w) * v

(* The divisor of the refresh that comes closest to the core's rate, the   *)
(* first of equals.                                                        *)
Best(core, display) ==
  CHOOSE v \in 1..maxVblanksPerFrame : \A w \in 1..maxVblanksPerFrame :
    ~Closer(core, display, w, v) /\ (w < v => Closer(core, display, v, w))

\* Mutant: the mismatch is not looked at.
AlwaysVideoMaster(core, display) == TRUE

(* mode: video-master if that divisor is close enough, else audio-master.  *)
IsVideoMaster(core, display) ==
  LET v == Best(core, display) IN
  100 * Abs(display - core * v) <= maxMismatch * core * v

(* FrameClock.init: framesPerVblank is num / den. *)
num == IF IsVideoMaster(coreRate, refresh) THEN 1 ELSE coreRate
den == IF IsVideoMaster(coreRate, refresh) THEN Best(coreRate, refresh) ELSE refresh

Init ==
  /\ coreRate \in CoreRates /\ refresh \in Refreshes
  /\ credit = 0 /\ vblanks = 0 /\ frames = 0
  /\ framesBy = [k \in 0..0 |-> 0]

Lesser(a, b) == IF a < b THEN a ELSE b

\* Mutants: no cap; a frame takes the fraction left over with it.
DueWithoutCap == (credit + num) \div den
SpentAll(due) == IF due > 0 THEN 0 ELSE credit + num

Due == Lesser((credit + num) \div den, maxCatchUp)
Spent(due) == credit + num - due * den

(* framesDue, at each vblank. *)
framesDue ==
  /\ vblanks < MaxVblanks
  /\ vblanks' = vblanks + 1
  /\ frames' = frames + Due
  /\ credit' = Spent(Due)
  /\ framesBy' = [k \in 0..vblanks' |-> IF k = vblanks' THEN frames' ELSE framesBy[k]]
  /\ UNCHANGED <<coreRate, refresh>>

Next == framesDue
Spec == Init /\ [][Next]_vars
-----------------------------------------------------------------------------
(* Frames per vblank that a clock of this rate runs, in units: a vblank    *)
(* never runs more than maxCatchUp, so a faster core runs at that.         *)
Pace == Lesser(num, maxCatchUp * den)

(* A core that the cap lets keep up is never owed a whole frame.  One that *)
(* it does not, such as 6000 frames on 60 vblanks (catchUpIsBounded of     *)
(* FramePacerTests), is owed the excess of every vblank, for good.         *)
TypeOK ==
  /\ coreRate \in CoreRates /\ refresh \in Refreshes
  /\ vblanks \in 0..MaxVblanks /\ frames \in Nat /\ framesBy \in [0..vblanks -> Nat]
  /\ credit \in Nat
  /\ IF num <= maxCatchUp * den THEN credit < den
     ELSE credit = vblanks * (num - maxCatchUp * den)

(* The core runs at its own speed on every display, over any stretch of    *)
(* vblanks: within 5% where a divisor of the refresh stands in for its     *)
(* rate, and else to less than a frame, if its rate is within the cap; at  *)
(* the cap if it is not (mode, framesDue).                                 *)
SpeedIsRight ==
  IF IsVideoMaster(coreRate, refresh)
  THEN 100 * Abs(frames * refresh - vblanks * coreRate)
         <= maxMismatch * vblanks * coreRate + 100 * refresh
  ELSE Abs(frames * refresh - vblanks * Lesser(coreRate, maxCatchUp * refresh)) < refresh

(* No burst and no stall: between any two vblanks of a session, however    *)
(* near or far apart, the frames that ran are those of that many vblanks,  *)
(* to less than a frame (framesDue).                                       *)
EvenPacing ==
  LET pace == Pace
      unit == den
  IN \A i, j \in 0..vblanks : i < j =>
       Abs((framesBy[j] - framesBy[i]) * unit - (j - i) * pace) < unit
=============================================================================
