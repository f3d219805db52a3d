------------------------- MODULE Presentation_proofs -------------------------
(***************************************************************************)
(* Proofs about what is shown, and when.  Pacing: for any rates of core    *)
(* and display, and any number of vblanks.  Frames: for any geometry a     *)
(* core reports, any surface and any drawable.                             *)
(***************************************************************************)
EXTENDS FramePacer, FramePath, WellFoundedInduction, TLAPS

Divisors == 1..maxVblanksPerFrame

PacingTypes ==
  /\ coreRate \in CoreRates /\ refresh \in Refreshes
  /\ vblanks \in 0..MaxVblanks /\ frames \in Nat
  /\ framesBy \in [0..vblanks -> Nat] /\ framesBy[vblanks] = frames

(* Frames and credit together are what the vblanks so far have earned, and *)
(* by every vblank the frames are all the whole ones of the pace.          *)
Balance ==
  /\ credit = vblanks * num - frames * den
  /\ \A k \in 0..vblanks : k * Pace - framesBy[k] * den \in 0..(den - 1)

IInv == PacingTypes /\ Balance

-----------------------------------------------------------------------------
(* There is a best divisor. *)

LEMMA FirstOne ==
  ASSUME NEW S \in SUBSET Nat, S # {}
  PROVE  \E i \in S : \A j \in S : i <= j
<1>1. PICK x \in S : \A y \in S : ~(<<y, x>> \in OpToRel(<, Nat))
  BY WFMin, NatLessThanWellFounded, Zenon
<1>2. \A y \in S : ~(y < x)
  BY <1>1, Zenon DEF OpToRel
<1>3. QED
  BY <1>2

LEMMA FirstLeast ==
  ASSUME NEW f \in [Divisors -> Nat]
  PROVE  \E v \in Divisors : \A w \in Divisors : f[v] <= f[w] /\ (w < v => f[v] < f[w])
<1>1. PICK m \in {f[v] : v \in Divisors} : \A n \in {f[v] : v \in Divisors} : m <= n
  <2>1. {f[v] : v \in Divisors} \in SUBSET Nat /\ f[1] \in {f[v] : v \in Divisors}
    BY DEF Divisors, maxVblanksPerFrame
  <2>2. QED
    BY <2>1, FirstOne
<1>2. PICK v \in {w \in Divisors : f[w] = m} : \A w \in {x \in Divisors : f[x] = m} : v <= w
  <2>1. {w \in Divisors : f[w] = m} \in SUBSET Nat /\ {w \in Divisors : f[w] = m} # {}
    BY <1>1 DEF Divisors
  <2>2. QED
    BY <2>1, FirstOne
<1>3. ASSUME NEW w \in Divisors PROVE f[v] <= f[w] /\ (w < v => f[v] < f[w])
  BY <1>1, <1>2 DEF Divisors
<1>4. QED
  BY <1>2, <1>3

(* 840 is a multiple of every divisor, so fractions over them compare like *)
(* whole numbers of 840ths.                                                *)
Weight == <<840, 420, 280, 210, 168, 140, 120, 105>>

LEMMA Comparing ==
  ASSUME NEW v \in Divisors, NEW w \in Divisors, NEW x \in Nat, NEW y \in Nat
  PROVE  x * w < y * v <=> x * Weight[v] < y * Weight[w]
<1>1. v \in {1, 2, 3, 4, 5, 6, 7, 8} /\ w \in {1, 2, 3, 4, 5, 6, 7, 8}
  BY DEF Divisors, maxVblanksPerFrame
<1>2. CASE v = 1
  BY <1>1, <1>2 DEF Weight
<1>3. CASE v = 2
  BY <1>1, <1>3 DEF Weight
<1>4. CASE v = 3
  BY <1>1, <1>4 DEF Weight
<1>5. CASE v = 4
  BY <1>1, <1>5 DEF Weight
<1>6. CASE v = 5
  BY <1>1, <1>6 DEF Weight
<1>7. CASE v = 6
  BY <1>1, <1>7 DEF Weight
<1>8. CASE v = 7
  BY <1>1, <1>8 DEF Weight
<1>9. CASE v = 8
  BY <1>1, <1>9 DEF Weight
<1>10. QED
  BY <1>1, <1>2, <1>3, <1>4, <1>5, <1>6, <1>7, <1>8, <1>9

(* mode has a divisor to compare with the core's rate. *)
LEMMA BestDivides ==
  ASSUME NEW core \in Nat, NEW display \in Nat
  PROVE  Best(core, display) \in Divisors
<1>1. PICK a \in [Divisors -> Nat] : \A v \in Divisors : a[v] = Abs(display - core * v)
  <2>1. \A v \in Divisors : Abs(display - core * v) \in Nat
    BY DEF Abs, Divisors
  <2>2. PICK b : b = [v \in Divisors |-> Abs(display - core * v)]
    OBVIOUS
  <2>3. QED
    BY <2>1, <2>2
<1>2. PICK f \in [Divisors -> Nat] : \A v \in Divisors : f[v] = a[v] * Weight[v]
  <2>1. \A v \in Divisors : Weight[v] \in Nat
    BY DEF Weight, Divisors, maxVblanksPerFrame
  <2>2. \A v \in Divisors : a[v] * Weight[v] \in Nat
    BY <2>1
  <2>3. PICK g : g = [v \in Divisors |-> a[v] * Weight[v]]
    OBVIOUS
  <2>4. QED
    BY <2>2, <2>3
<1>3. \A v, w \in Divisors : Closer(core, display, v, w) <=> f[v] < f[w]
  BY <1>1, <1>2, Comparing DEF Closer
<1>4. \E v \in Divisors : \A w \in Divisors :
        ~Closer(core, display, w, v) /\ (w < v => Closer(core, display, v, w))
  <2>1. PICK v \in Divisors : \A w \in Divisors : f[v] <= f[w] /\ (w < v => f[v] < f[w])
    BY FirstLeast
  <2>2. QED
    BY <1>3, <2>1
<1>5. QED
  BY <1>4 DEF Best, Divisors

LEMMA Earning ==
  ASSUME coreRate \in CoreRates, refresh \in Refreshes
  PROVE  num \in Nat \ {0} /\ den \in Nat \ {0} /\ Pace \in Nat
<1>1. coreRate \in Nat \ {0} /\ refresh \in Nat \ {0}
  BY RatesAssumption
<1>2. Best(coreRate, refresh) \in 1..8
  BY <1>1, BestDivides DEF Divisors, maxVblanksPerFrame
<1>3. num \in Nat \ {0} /\ den \in Nat \ {0}
  BY <1>1, <1>2 DEF num, den
<1>4. QED
  BY <1>3 DEF Pace, Lesser, maxCatchUp

-----------------------------------------------------------------------------
(* One vblank, in whole numbers: F frames were run by v vblanks of a clock  *)
(* that earns N units at each, D of which make a frame.                     *)

LEMMA WholeFrames ==
  ASSUME NEW D \in Nat \ {0}, NEW m \in Int, m * D \in 0..(D - 1)
  PROVE  m = 0
<1>1. CASE m >= 1
  <2>1. D * 1 <= D * m
    BY <1>1
  <2>2. QED
    BY <2>1
<1>2. CASE m <= -1
  <2>1. D * m <= D * (-1)
    BY <1>2
  <2>2. QED
    BY <2>1
<1>3. QED
  BY <1>1, <1>2

LEMMA Fourfold == ASSUME NEW v \in Nat, NEW F \in Nat PROVE 4 * v - F \in Int
OBVIOUS

LEMMA Paying ==
  ASSUME NEW n \in Nat, NEW d \in Nat \ {0}, n < (maxCatchUp + 1) * d
  PROVE  Lesser(n \div d, maxCatchUp) \in 0..4 /\ n - Lesser(n \div d, maxCatchUp) * d \in 0..(d - 1)
<1>1. PICK q \in Int : q = n \div d /\ q * d <= n /\ n < (q + 1) * d
  OBVIOUS
<1>2. q \in 0..4
  BY <1>1 DEF maxCatchUp
<1>3. Lesser(q, maxCatchUp) = q
  BY <1>2 DEF Lesser, maxCatchUp
<1>4. QED
  BY <1>1, <1>2, <1>3 DEF maxCatchUp

(* A clock beyond the cap has run maxCatchUp frames at every vblank. *)
LEMMA Debt ==
  ASSUME NEW v \in Nat, NEW F \in Nat, NEW N \in Nat, NEW D \in Nat \ {0}, N > maxCatchUp * D,
         v * Lesser(N, maxCatchUp * D) - F * D \in 0..(D - 1)
  PROVE  F = maxCatchUp * v /\ v * N - F * D = v * (N - maxCatchUp * D) /\ v * N - F * D \in Nat
<1>1. Lesser(N, maxCatchUp * D) = 4 * D
  BY DEF Lesser, maxCatchUp
<1>2. (4 * v - F) * D \in 0..(D - 1)
  <2>1. (4 * v - F) * D = v * (4 * D) - F * D
    OBVIOUS
  <2>2. QED
    BY <1>1, <2>1
<1>3. 4 * v - F = 0
  <2>1. PICK m \in Int : m = 4 * v - F
    BY Fourfold, Zenon
  <2>2. m * D \in 0..(D - 1)
    BY <1>2, <2>1, Zenon
  <2>3. QED
    BY <2>1, <2>2, WholeFrames
<1>4. F = 4 * v
  BY <1>3
<1>5. v * N - F * D = v * (N - 4 * D)
  BY <1>4
<1>6. v * (N - 4 * D) \in Nat
  <2>1. PICK x \in Nat : x = N - 4 * D
    BY DEF maxCatchUp
  <2>2. QED
    BY <2>1
<1>7. QED
  BY <1>4, <1>5, <1>6 DEF maxCatchUp

LEMMA OneVblank ==
  ASSUME NEW v \in Nat, NEW F \in Nat, NEW N \in Nat, NEW D \in Nat \ {0}, NEW P, NEW due,
         P = Lesser(N, maxCatchUp * D), v * P - F * D \in 0..(D - 1),
         due = Lesser((v * N - F * D + N) \div D, maxCatchUp)
  PROVE  due \in 0..4 /\ (v + 1) * P - (F + due) * D \in 0..(D - 1)
<1>1. CASE N <= maxCatchUp * D
  <2>1. P = N
    BY <1>1 DEF Lesser, maxCatchUp
  <2>2. PICK r \in 0..(D - 1) : r = v * N - F * D
    BY <2>1
  <2>3. r + N \in Nat /\ r + N < (maxCatchUp + 1) * D
    BY <1>1 DEF maxCatchUp
  <2>4. PICK n \in Nat : n = r + N
    BY <2>3
  <2>5. PICK q \in 0..4 : q = Lesser(n \div D, maxCatchUp) /\ n - q * D \in 0..(D - 1)
    BY <2>3, <2>4, Paying
  <2>6. due = q
    BY <2>2, <2>4, <2>5, Zenon
  <2>7. (v + 1) * P - (F + q) * D = n - q * D
    <3>1. (v + 1) * N = v * N + N /\ (F + q) * D = F * D + q * D
      OBVIOUS
    <3>2. v * N \in Int /\ F * D \in Int /\ q * D \in Int
      OBVIOUS
    <3>3. QED
      BY <2>1, <2>2, <2>4, <3>1, <3>2
  <2>8. QED
    BY <2>5, <2>6, <2>7
<1>2. CASE N > maxCatchUp * D
  <2>1. P = 4 * D
    BY <1>2 DEF Lesser, maxCatchUp
  <2>2. F = 4 * v /\ v * N - F * D \in Nat
    BY <1>2, Debt DEF maxCatchUp
  <2>3. PICK n \in Nat : n = v * N - F * D + N /\ n >= 4 * D
    BY <1>2, <2>2 DEF maxCatchUp
  <2>4. PICK q \in Int : q = n \div D /\ n < (q + 1) * D
    OBVIOUS
  <2>5. q >= 4
    <3>1. ASSUME q <= 3 PROVE FALSE
      <4>1. D * (q + 1) <= D * 4
        BY <3>1
      <4>2. QED
        BY <2>3, <2>4, <4>1
    <3>2. QED
      BY <3>1
  <2>6. due = 4
    BY <2>3, <2>4, <2>5 DEF Lesser, maxCatchUp
  <2>7. (v + 1) * (4 * D) - (4 * v + 4) * D = 0
    OBVIOUS
  <2>8. QED
    BY <2>1, <2>2, <2>6, <2>7
<1>3. QED
  BY <1>1, <1>2 DEF maxCatchUp

LEMMA StepIInv == ASSUME IInv, framesDue PROVE IInv'
<1>1. /\ num \in Nat /\ den \in Nat \ {0} /\ Pace \in Nat
      /\ frames \in Nat /\ vblanks \in 0..(MaxVblanks - 1) /\ vblanks \in Nat
      /\ UNCHANGED <<coreRate, refresh>> /\ vblanks' = vblanks + 1
  BY Earning, MaxVblanksAssumption DEF IInv, PacingTypes, framesDue
<1>2. num' = num /\ den' = den /\ Pace' = Pace
  BY <1>1 DEF num, den, Pace
<1>3. PICK due : /\ due = Lesser((credit + num) \div den, maxCatchUp)
                 /\ frames' = frames + due /\ credit' = credit + num - due * den
  BY DEF framesDue, Due, Spent
<1>4. credit = vblanks * num - frames * den /\ vblanks * Pace - frames * den \in 0..(den - 1)
  <2>1. vblanks \in 0..vblanks /\ framesBy[vblanks] = frames
    BY <1>1 DEF IInv, PacingTypes
  <2>2. QED
    BY <2>1 DEF IInv, Balance
<1>5. due \in 0..4 /\ (vblanks + 1) * Pace - (frames + due) * den \in 0..(den - 1)
  <2>1. PICK N \in Nat : N = num
    BY <1>1
  <2>2. PICK D \in Nat \ {0} : D = den
    BY <1>1
  <2>3. PICK P : P = Pace
    OBVIOUS
  <2>4. P = Lesser(N, maxCatchUp * D)
    BY <2>1, <2>2, <2>3 DEF Pace
  <2>5. vblanks * P - frames * D \in 0..(D - 1)
    BY <1>4, <2>2, <2>3, Zenon
  <2>6. due = Lesser((vblanks * N - frames * D + N) \div D, maxCatchUp)
    BY <1>3, <1>4, <2>1, <2>2, Zenon
  <2>7. due \in 0..4 /\ (vblanks + 1) * P - (frames + due) * D \in 0..(D - 1)
    <3>1. vblanks \in Nat /\ frames \in Nat
      BY <1>1
    <3>2. QED
      BY <2>1, <2>2, <2>4, <2>5, <2>6, <3>1, OneVblank
  <2>8. QED
    BY <2>2, <2>3, <2>7, Zenon
<1>6. frames' \in Nat
  <2>1. frames' = frames + due /\ frames \in Nat /\ due \in Nat
    <3>1. due \in Nat
      BY <1>5
    <3>2. QED
      BY <1>1, <1>3, <3>1, Zenon
  <2>2. QED
    BY <2>1
<1>7. /\ framesBy' = [k \in 0..vblanks' |-> IF k = vblanks' THEN frames' ELSE framesBy[k]]
      /\ framesBy \in [0..vblanks -> Nat]
  BY DEF framesDue, IInv, PacingTypes
<1>8. /\ framesBy' \in [0..vblanks' -> Nat] /\ framesBy'[vblanks'] = frames'
      /\ \A k \in 0..vblanks : framesBy'[k] = framesBy[k]
  BY <1>1, <1>6, <1>7
<1>9. PacingTypes'
  BY <1>1, <1>6, <1>8, MaxVblanksAssumption DEF IInv, PacingTypes
<1>10. credit' = vblanks' * num' - frames' * den'
  <2>1. PICK N \in Nat : N = num
    BY <1>1
  <2>2. PICK D \in Nat \ {0} : D = den
    BY <1>1
  <2>3. (vblanks + 1) * N - (frames + due) * D = (vblanks * N - frames * D) + N - due * D
    BY <1>1, <1>5
  <2>4. QED
    BY <1>1, <1>2, <1>3, <1>4, <2>1, <2>2, <2>3, Zenon
<1>11. ASSUME NEW k \in 0..vblanks' PROVE k * Pace' - framesBy'[k] * den' \in 0..(den' - 1)
  <2>1. CASE k = vblanks'
    BY <1>1, <1>2, <1>3, <1>5, <1>8, <2>1, Zenon
  <2>2. CASE k \in 0..vblanks
    <3>1. k * Pace - framesBy[k] * den \in 0..(den - 1)
      BY <2>2 DEF IInv, Balance
    <3>2. QED
      BY <1>2, <1>8, <2>2, <3>1, Zenon
  <2>3. QED
    BY <1>1, <2>1, <2>2
<1>12. QED
  BY <1>9, <1>10, <1>11 DEF IInv, Balance

LEMMA InitIInv == Init => IInv
<1>1. SUFFICES ASSUME Init PROVE IInv
  OBVIOUS
<1>2. /\ coreRate \in CoreRates /\ refresh \in Refreshes
      /\ vblanks = 0 /\ frames = 0 /\ credit = 0 /\ framesBy = [k \in 0..0 |-> 0]
  BY <1>1 DEF Init
<1>3. num \in Nat /\ den \in Nat \ {0} /\ Pace \in Nat
  BY <1>2, Earning
<1>4. 0..0 = {0} /\ framesBy[0] = 0 /\ framesBy \in [0..vblanks -> Nat]
  BY <1>2
<1>5. PacingTypes
  BY <1>2, <1>4, MaxVblanksAssumption DEF PacingTypes
<1>6. Balance
  <2>1. 0 * num - 0 * den = 0 /\ 0 * Pace - 0 * den = 0 /\ 0 \in 0..(den - 1)
    BY <1>3
  <2>2. QED
    BY <1>2, <1>4, <2>1, Zenon DEF Balance
<1>7. QED
  BY <1>5, <1>6 DEF IInv

LEMMA NextIInv == ASSUME IInv, [Next]_vars PROVE IInv'
<1>1. CASE framesDue
  BY <1>1, StepIInv
<1>2. CASE UNCHANGED vars
  <2>1. UNCHANGED <<coreRate, refresh, credit, vblanks, frames, framesBy>>
    BY <1>2 DEF vars
  <2>2. UNCHANGED <<num, den, Pace>>
    BY <2>1 DEF num, den, Pace
  <2>3. QED
    BY <2>1, <2>2 DEF IInv, PacingTypes, Balance
<1>3. QED
  BY <1>1, <1>2 DEF Next
-----------------------------------------------------------------------------
(* The speed, in whole numbers.  F frames were run in B vblanks of a       *)
(* display of rate R, one every v, with K vblanks since the last; the core *)
(* asks for a rate of C.                                                   *)

LEMMA Scaling == ASSUME NEW n \in Nat, NEW a \in Int, NEW b \in Int, a <= b PROVE n * a <= n * b
OBVIOUS

LEMMA Drift ==
  ASSUME NEW F \in Nat, NEW v \in Nat \ {0}, NEW K \in 0..(v - 1), NEW R \in Nat, NEW C \in Nat,
         NEW B \in Nat, B = F * v + K,
         100 * Abs(R - C * v) <= maxMismatch * C * v
  PROVE  100 * Abs(F * R - B * C) <= maxMismatch * B * C + 100 * R
<1>1. PICK D \in Int : D = R - C * v
  OBVIOUS
<1>2. PICK Q \in Nat : Q = C * v
  OBVIOUS
<1>3. 100 * D <= 5 * Q /\ 100 * (-D) <= 5 * Q /\ R = D + Q
  BY <1>1, <1>2 DEF Abs, maxMismatch
<1>4. F * (100 * D) <= F * (5 * Q) /\ F * (100 * (-D)) <= F * (5 * Q)
  BY <1>3, Scaling
<1>5. PICK FD \in Int : FD = F * D
  OBVIOUS
<1>6. PICK FQ \in Nat : FQ = F * Q
  OBVIOUS
<1>7. PICK KC \in Nat : KC = K * C
  OBVIOUS
<1>8. 100 * FD <= 5 * FQ /\ 100 * (-FD) <= 5 * FQ
  BY <1>4, <1>5, <1>6
<1>9. KC <= Q
  <2>1. C * K <= C * v
    BY Scaling
  <2>2. QED
    BY <1>2, <1>7, <2>1
<1>10. B * C = FQ + KC
  BY <1>2, <1>6, <1>7
<1>11. F * R = FD + FQ
  BY <1>3, <1>5, <1>6
<1>12. F * R - B * C = FD - KC
  BY <1>10, <1>11
<1>13. 95 * KC <= 100 * R
  BY <1>3, <1>9
<1>14. maxMismatch * B * C = 5 * FQ + 5 * KC
  <2>1. maxMismatch * B * C = 5 * (B * C)
    BY DEF maxMismatch
  <2>2. QED
    BY <1>10, <2>1
<1>15. 100 * Abs(FD - KC) <= 5 * FQ + 5 * KC + 100 * R
  BY <1>8, <1>13 DEF Abs
<1>16. QED
  BY <1>12, <1>14, <1>15
-----------------------------------------------------------------------------
(* Frames and credit always balance with the vblanks (framesDue). *)
THEOREM Inductive == Spec => []IInv
BY InitIInv, NextIInv, PTL DEF Spec

(* What a clock owes at any time. *)
LEMMA Owed ==
  ASSUME IInv
  PROVE  IF num <= maxCatchUp * den
         THEN credit = vblanks * Pace - frames * den /\ credit \in 0..(den - 1)
         ELSE credit = vblanks * (num - maxCatchUp * den) /\ credit \in Nat
<1>1. /\ num \in Nat \ {0} /\ den \in Nat \ {0} /\ vblanks \in Nat /\ frames \in Nat
      /\ credit = vblanks * num - frames * den
      /\ vblanks * Pace - frames * den \in 0..(den - 1)
  <2>1. vblanks \in Nat /\ vblanks \in 0..vblanks /\ framesBy[vblanks] = frames /\ frames \in Nat
    BY MaxVblanksAssumption DEF IInv, PacingTypes
  <2>2. QED
    BY <2>1, Earning DEF IInv, PacingTypes, Balance
<1>2. PICK N \in Nat \ {0} : N = num
  BY <1>1
<1>3. PICK D \in Nat \ {0} : D = den
  BY <1>1
<1>4. Pace = Lesser(N, maxCatchUp * D)
  BY <1>2, <1>3 DEF Pace
<1>5. CASE N <= maxCatchUp * D
  <2>1. Pace = N
    BY <1>4, <1>5 DEF Lesser
  <2>2. QED
    BY <1>1, <1>2, <1>3, <1>5, <2>1
<1>6. CASE ~(N <= maxCatchUp * D)
  <2>1. N > maxCatchUp * D
    BY <1>6 DEF maxCatchUp
  <2>2. vblanks * Lesser(N, maxCatchUp * D) - frames * D \in 0..(D - 1)
    BY <1>1, <1>3, <1>4, Zenon
  <2>3. vblanks * N - frames * D = vblanks * (N - maxCatchUp * D) /\ vblanks * N - frames * D \in Nat
    <3>1. vblanks \in Nat /\ frames \in Nat
      BY <1>1
    <3>2. N \in Nat /\ D \in Nat \ {0}
      BY <1>2, <1>3
    <3>3. PICK v \in Nat, F \in Nat : v = vblanks /\ F = frames
      BY <3>1
    <3>4. v * Lesser(N, maxCatchUp * D) - F * D \in 0..(D - 1)
      BY <2>2, <3>3, Zenon
    <3>5. v * N - F * D = v * (N - maxCatchUp * D) /\ v * N - F * D \in Nat
      BY <2>1, <3>2, <3>3, <3>4, Debt DEF maxCatchUp
    <3>6. QED
      BY <3>3, <3>5, Zenon
  <2>4. credit = vblanks * (num - maxCatchUp * den) /\ credit \in Nat
    BY <1>1, <1>2, <1>3, <2>3, Zenon
  <2>5. ~(num <= maxCatchUp * den)
    BY <1>2, <1>3, <1>6
  <2>6. QED
    BY <2>4, <2>5
<1>7. QED
  BY <1>2, <1>3, <1>5, <1>6

(* A core within the cap is never owed a whole frame, and one beyond it is *)
(* owed the excess of every vblank so far (framesDue, maxCatchUp).         *)
THEOREM TypeCorrect == Spec => []TypeOK
<1>1. ASSUME IInv PROVE TypeOK
  <2>1. /\ coreRate \in CoreRates /\ refresh \in Refreshes
        /\ vblanks \in 0..MaxVblanks /\ frames \in Nat /\ framesBy \in [0..vblanks -> Nat]
    BY <1>1 DEF IInv, PacingTypes
  <2>2. num \in Nat \ {0} /\ den \in Nat \ {0}
    BY <2>1, Earning
  <2>3. /\ credit \in Nat
        /\ IF num <= maxCatchUp * den THEN credit < den
           ELSE credit = vblanks * (num - maxCatchUp * den)
    BY <1>1, <2>2, Owed
  <2>4. QED
    BY <2>1, <2>3 DEF TypeOK
<1>2. QED
  BY <1>1, Inductive, PTL

(* The core runs within 5% of its speed where it follows the display, and  *)
(* to less than a frame where it does not, or at the cap (mode, framesDue).*)
THEOREM SpeedAlwaysRight == Spec => []SpeedIsRight
<1>1. ASSUME IInv PROVE SpeedIsRight
  <2>1. /\ coreRate \in Nat \ {0} /\ refresh \in Nat \ {0} /\ frames \in Nat /\ vblanks \in Nat
        /\ num \in Nat /\ den \in Nat \ {0} /\ Pace \in Nat
        /\ vblanks * Pace - frames * den \in 0..(den - 1)
    <3>1. vblanks \in Nat /\ vblanks \in 0..vblanks /\ framesBy[vblanks] = frames /\ frames \in Nat
      BY <1>1, MaxVblanksAssumption DEF IInv, PacingTypes
    <3>2. vblanks * Pace - frames * den \in 0..(den - 1)
      BY <1>1, <3>1 DEF IInv, Balance
    <3>3. QED
      BY <1>1, <3>1, <3>2, RatesAssumption, Earning DEF IInv, PacingTypes
  <2>2. CASE IsVideoMaster(coreRate, refresh)
    <3>1. den = Best(coreRate, refresh) /\ num = 1
      BY <2>2 DEF num, den
    <3>2. 100 * Abs(refresh - coreRate * den) <= maxMismatch * coreRate * den
      BY <2>2, <3>1 DEF IsVideoMaster
    <3>3. Pace = 1
      BY <2>1, <3>1 DEF Pace, Lesser, maxCatchUp
    <3>4. PICK K \in 0..(den - 1) : vblanks = frames * den + K
      <4>1. vblanks - frames * den \in 0..(den - 1) /\ frames * den \in Int
        BY <2>1, <3>3
      <4>2. QED
        BY <2>1, <4>1
    <3>5. 100 * Abs(frames * refresh - vblanks * coreRate) <= maxMismatch * vblanks * coreRate + 100 * refresh
      BY <2>1, <3>2, <3>4, Drift
    <3>6. QED
      BY <2>2, <3>5 DEF SpeedIsRight
  <2>3. CASE ~IsVideoMaster(coreRate, refresh)
    <3>1. den = refresh /\ Pace = Lesser(coreRate, maxCatchUp * refresh)
      BY <2>3 DEF num, den, Pace
    <3>2. PICK p \in Nat : p = Pace
      BY <2>1
    <3>3. vblanks * p - frames * refresh \in 0..(refresh - 1)
      BY <2>1, <3>1, <3>2
    <3>4. Abs(frames * refresh - vblanks * p) < refresh
      <4>1. vblanks * p \in Int /\ frames * refresh \in Int
        BY <2>1
      <4>2. QED
        BY <2>1, <3>3, <4>1 DEF Abs
    <3>5. QED
      BY <2>3, <3>1, <3>2, <3>4, Zenon DEF SpeedIsRight
  <2>4. QED
    BY <2>2, <2>3
<1>2. QED
  BY <1>1, Inductive, PTL

(* Between any two vblanks the frames that ran are those of that many      *)
(* vblanks, to less than a frame: no burst, no stall (framesDue).          *)
THEOREM AlwaysEven == Spec => []EvenPacing
<1>1. ASSUME IInv PROVE EvenPacing
  <2>1. den \in Nat \ {0} /\ Pace \in Nat
    BY <1>1, Earning DEF IInv, PacingTypes
  <2>2. PICK D \in Nat \ {0} : D = den
    BY <2>1
  <2>3. PICK P \in Nat : P = Pace
    BY <2>1
  <2>4. vblanks \in Nat /\ framesBy \in [0..vblanks -> Nat]
    BY <1>1, MaxVblanksAssumption DEF IInv, PacingTypes
  <2>5. \A k \in 0..vblanks : k * P - framesBy[k] * D \in 0..(D - 1)
    BY <1>1, <2>2, <2>3 DEF IInv, Balance
  <2>6. ASSUME NEW i \in 0..vblanks, NEW j \in 0..vblanks, i < j
        PROVE  Abs((framesBy[j] - framesBy[i]) * D - (j - i) * P) < D
    <3>1. PICK a \in Nat : a = framesBy[i]
      BY <2>4
    <3>2. PICK b \in Nat : b = framesBy[j]
      BY <2>4
    <3>3. i * P - a * D \in 0..(D - 1) /\ j * P - b * D \in 0..(D - 1)
      BY <2>5, <3>1, <3>2
    <3>4. i \in Int /\ j \in Int
      BY <2>4
    <3>5. i * P \in Int /\ j * P \in Int /\ a * D \in Int /\ b * D \in Int
      BY <3>4
    <3>6. (b - a) * D = b * D - a * D /\ (j - i) * P = j * P - i * P
      BY <3>4
    <3>7. Abs((b - a) * D - (j - i) * P) < D
      BY <3>3, <3>5, <3>6 DEF Abs
    <3>8. QED
      BY <3>1, <3>2, <3>7
  <2>7. QED
    BY <2>2, <2>3, <2>6, Zenon DEF EvenPacing
<1>2. QED
  BY <1>1, Inductive, PTL
-----------------------------------------------------------------------------
(* Arithmetic of rows. *)

LEMMA Dividing ==
  ASSUME NEW d \in Nat \ {0}, NEW q \in Nat, NEW r \in 0..(d - 1)
  PROVE  (q * d + r) \div d = q /\ (q * d + r) % d = r
<1>1. PICK n \in Nat : n = q * d + r
  OBVIOUS
<1>2. PICK p \in Int : p = n \div d /\ p * d <= n /\ n < (p + 1) * d
  OBVIOUS
<1>3. p = q
  <2>1. ASSUME p < q PROVE FALSE
    <3>1. d * (p + 1) <= d * q
      BY <2>1, Scaling
    <3>2. QED
      BY <1>1, <1>2, <3>1
  <2>2. ASSUME q < p PROVE FALSE
    <3>1. d * (q + 1) <= d * p
      BY <2>2, Scaling
    <3>2. QED
      BY <1>1, <1>2, <3>1
  <2>3. QED
    BY <2>1, <2>2
<1>4. n % d = n - (n \div d) * d
  OBVIOUS
<1>5. QED
  BY <1>1, <1>2, <1>3, <1>4

(* Rows that are apart stay apart: the last byte of a row comes before the *)
(* end of the buffer.                                                      *)
LEMMA RowInside ==
  ASSUME NEW height \in Nat, NEW pitch \in Nat, NEW row \in 0..(height - 1), NEW b \in 0..(pitch - 1)
  PROVE  row * pitch + b \in 0..(height * pitch - 1)
<1>1. pitch * (row + 1) <= pitch * height
  BY Scaling
<1>2. QED
  BY <1>1

-----------------------------------------------------------------------------
(* Frames that were captured. *)

LEMMA FrameTypes ==
  ASSUME NEW call \in VideoCalls, NEW format \in PixelFormats, NEW frame \in Captured(call, format)
  PROVE  /\ frame.width \in Nat \ {0} /\ frame.height \in Nat \ {0} /\ frame.pitch \in Nat
         /\ frame.format = format /\ bytesPerPixel[format] \in {2, 4}
         /\ frame.pitch >= frame.width * bytesPerPixel[format]
         /\ frame.count = frame.pitch * frame.height
         /\ frame.bytes \in [0..(frame.count - 1) -> Bytes]
         /\ \A i \in 0..(frame.count - 1) : frame.bytes[i] = call.data[i]
<1>1. /\ RowsFit(call.width, call.height, call.pitch, format)
      /\ frame = [width |-> call.width, height |-> call.height, pitch |-> call.pitch, format |-> format,
                  count |-> call.pitch * call.height,
                  bytes |-> [i \in 0..(call.pitch * call.height - 1) |-> call.data[i]]]
  BY DEF Captured
<1>2. /\ call.width \in Nat /\ call.height \in Nat /\ call.pitch \in Nat /\ call.data \in [Nat -> Bytes]
  BY DEF VideoCalls
<1>3. bytesPerPixel[format] \in {2, 4}
  BY DEF bytesPerPixel
<1>4. call.pitch * call.height \in Nat
  BY <1>2
<1>5. frame.bytes \in [0..(frame.count - 1) -> Bytes] /\ \A i \in 0..(frame.count - 1) : frame.bytes[i] = call.data[i]
  BY <1>1, <1>2, <1>4
<1>6. QED
  BY <1>1, <1>2, <1>3, <1>5 DEF RowsFit

(* A frame that captureVideo lets through is one that toBGRA8 converts: no *)
(* presenter ever throws invalidGeometry, and no batch reports failure for *)
(* the shape of its frame.                                                 *)
THEOREM CapturedConverts ==
  ASSUME NEW call \in VideoCalls, NEW format \in PixelFormats, NEW frame \in Captured(call, format)
  PROVE  Convertible(frame)
BY FrameTypes DEF Convertible, RowsFit

(* toBGRA8 reads only inside the bytes that were captured, of whatever     *)
(* width, height and pitch, and gets what the core drew there.             *)
THEOREM ReadsInside ==
  ASSUME NEW call \in VideoCalls, NEW format \in PixelFormats, NEW frame \in Captured(call, format),
         NEW row \in 0..(frame.height - 1), NEW column \in 0..(frame.width - 1),
         NEW k \in 0..(bytesPerPixel[format] - 1)
  PROVE  LET at == ReadAt(frame, row, column) + k IN
         /\ at \in DOMAIN frame.bytes /\ frame.bytes[at] \in Bytes
         /\ frame.bytes[at] = call.data[row * call.pitch + column * bytesPerPixel[format] + k]
<1> DEFINE w == frame.width
           h == frame.height
           p == frame.pitch
           b == bytesPerPixel[format]
<1>1. /\ w \in Nat /\ h \in Nat /\ p \in Nat /\ b \in {2, 4}
      /\ p >= w * b /\ frame.count = p * h /\ frame.format = format
      /\ frame.bytes \in [0..(frame.count - 1) -> Bytes]
      /\ \A i \in 0..(frame.count - 1) : frame.bytes[i] = call.data[i]
      /\ row \in 0..(h - 1) /\ column \in 0..(w - 1) /\ k \in 0..(b - 1)
      /\ ReadAt(frame, row, column) = row * p + column * b
  BY FrameTypes DEF ReadAt
<1> HIDE DEF w, h, p, b
<1>2. column * b + k \in 0..(p - 1)
  <2>1. CASE b = 2
    BY <1>1, <2>1
  <2>2. CASE b = 4
    BY <1>1, <2>2
  <2>3. QED
    BY <1>1, <2>1, <2>2
<1>3. row * p + (column * b + k) \in 0..(h * p - 1)
  BY <1>1, <1>2, RowInside
<1>4. PICK at : at = ReadAt(frame, row, column) + k
  OBVIOUS
<1>5. at = row * p + (column * b + k)
  BY <1>1, <1>4
<1>6. p * h = h * p
  BY <1>1
<1>7. at \in 0..(frame.count - 1)
  BY <1>1, <1>3, <1>5, <1>6
<1>8. call.pitch = frame.pitch
  BY DEF Captured
<1>9. call.data[at] = call.data[row * call.pitch + column * bytesPerPixel[format] + k]
  BY <1>1, <1>4, <1>8 DEF ReadAt
<1>10. QED
  BY <1>1, <1>4, <1>7, <1>9

(* The channels of a converted pixel are bytes, whatever the core drew:    *)
(* shifting 5 and 6 bits into 8 loses none of them and the bits that fill  *)
(* the rest never collide with them.                                       *)
THEOREM ChannelsAreBytes ==
  ASSUME NEW low \in Bytes, NEW high \in Bytes
  PROVE  /\ BGRA565(low, high) \in [1..4 -> Bytes]
         /\ BGRA1555(low, high) \in [1..4 -> Bytes]
<1>1. /\ low % 32 \in 0..31 /\ low \div 32 \in 0..7 /\ high % 8 \in 0..7 /\ high \div 8 \in 0..31
      /\ high % 4 \in 0..3 /\ (high \div 4) % 32 \in 0..31
  BY DEF Bytes
<1>2. /\ \A c \in 0..31 : Spread5(c) \in Bytes
      /\ \A c \in 0..63 : Spread6(c) \in Bytes
  BY DEF Spread5, Spread6, Bytes
<1>3. (low \div 32) + 8 * (high % 8) \in 0..63 /\ (low \div 32) + 8 * (high % 4) \in 0..31 /\ 255 \in Bytes
  BY <1>1 DEF Bytes
<1>4. QED
  BY <1>1, <1>2, <1>3 DEF BGRA565, BGRA1555

-----------------------------------------------------------------------------
(* What is seen. *)

LEMMA Packed ==
  ASSUME NEW call \in VideoCalls, NEW format \in PixelFormats, NEW frame \in Captured(call, format),
         NEW row \in 0..(frame.height - 1), NEW column \in 0..(frame.width - 1), NEW k \in 0..3
  PROVE  /\ column * 4 + k \in 0..(frame.width * 4 - 1)
         /\ WriteAt(frame, row, column) + k \in DOMAIN ToBGRA8(frame)
         /\ ToBGRA8(frame)[WriteAt(frame, row, column) + k] = BGRA(frame, row, column)[k + 1]
<1>0. /\ frame.width \in Nat \ {0} /\ frame.height \in Nat \ {0}
      /\ row \in 0..(frame.height - 1) /\ column \in 0..(frame.width - 1)
  BY FrameTypes
<1> DEFINE w == frame.width * 4
           h == frame.height
           b == column * 4 + k
<1>1. /\ w \in Nat \ {0} /\ h \in Nat /\ row \in 0..(h - 1) /\ b \in 0..(w - 1)
      /\ WriteAt(frame, row, column) + k = row * w + b
  <2>1. w \in Nat \ {0} /\ b \in 0..(w - 1)
    BY <1>0
  <2>2. WriteAt(frame, row, column) = row * w + column * 4 /\ row * w \in Nat
    BY <1>0 DEF WriteAt
  <2>3. QED
    BY <1>0, <2>1, <2>2
<1>2. ToBGRA8(frame) = [i \in 0..(h * w - 1) |-> BGRA(frame, i \div w, (i % w) \div 4)[(i % 4) + 1]]
  BY DEF ToBGRA8
<1>3. b \div 4 = column /\ b % 4 = k
  <2>1. \A c \in Nat, j \in 0..3 : (c * 4 + j) \div 4 = c /\ (c * 4 + j) % 4 = j
    OBVIOUS
  <2>2. QED
    BY <1>0, <2>1
<1>4. (row * w + b) % 4 = k
  <2>1. PICK r \in Nat : r = row * frame.width
    BY <1>0
  <2>2. row * w + b = (r + column) * 4 + k /\ r + column \in Nat
    BY <1>0, <2>1
  <2>3. QED
    BY <2>2, Dividing
<1> HIDE DEF w, h, b
<1>5. PICK i : i = row * w + b
  OBVIOUS
<1>6. i \in 0..(h * w - 1) /\ i \div w = row /\ i % w = b /\ i % 4 = k
  <2>1. i \in 0..(h * w - 1)
    BY <1>1, <1>5, RowInside
  <2>2. (row * w + b) \div w = row /\ (row * w + b) % w = b
    <3>1. w \in Nat \ {0} /\ row \in Nat /\ b \in 0..(w - 1)
      BY <1>1
    <3>2. QED
      BY <3>1, Dividing
  <2>3. QED
    BY <1>4, <1>5, <2>1, <2>2, Zenon
<1>7. ToBGRA8(frame)[i] = BGRA(frame, i \div w, (i % w) \div 4)[(i % 4) + 1] /\ i \in DOMAIN ToBGRA8(frame)
  BY <1>2, <1>6
<1>8. ToBGRA8(frame)[i] = BGRA(frame, row, column)[k + 1]
  BY <1>3, <1>6, <1>7
<1>9. b \in 0..(frame.width * 4 - 1)
  BY <1>1 DEF w
<1>10. QED
  BY <1>1, <1>5, <1>7, <1>8, <1>9 DEF b

(* The frame in the shared surface is the frame the core drew: for any     *)
(* padding of the core's rows and of the surface's, the bytes of a pixel   *)
(* of the surface are those of the pixel of the core in that row and       *)
(* column (captureVideo, toBGRA8, runFramesShared).                        *)
THEOREM ShownAsDrawn ==
  ASSUME NEW call \in VideoCalls, NEW format \in PixelFormats, NEW frame \in Captured(call, format),
         NEW surface \in Surfaces, Fits(frame, surface),
         NEW row \in 0..(frame.height - 1), NEW column \in 0..(frame.width - 1), NEW k \in 0..3
  PROVE  CopiedRows(frame, surface)[row * surface.rowBytes + (column * 4 + k)] = BGRA(frame, row, column)[k + 1]
<1> DEFINE w == frame.width * 4
           h == frame.height
           b == column * 4 + k
           s == surface.rowBytes
<1>1. b \in 0..(w - 1) /\ ToBGRA8(frame)[row * w + b] = BGRA(frame, row, column)[k + 1]
  <2>1. /\ WriteAt(frame, row, column) + k = row * w + b /\ b \in 0..(w - 1)
        /\ ToBGRA8(frame)[WriteAt(frame, row, column) + k] = BGRA(frame, row, column)[k + 1]
    <3>1. frame.width \in Nat /\ row \in Nat /\ column \in Nat
      BY FrameTypes
    <3>2. WriteAt(frame, row, column) + k = row * w + b
      BY <3>1 DEF WriteAt
    <3>3. QED
      BY <3>2, Packed
  <2>2. QED
    BY <2>1
<1>2. /\ w \in Nat \ {0} /\ h \in Nat /\ row \in 0..(h - 1) /\ s \in Nat /\ s >= w
  BY FrameTypes DEF Surfaces, Fits
<1>3. CopiedRows(frame, surface) =
        [i \in Nat |-> IF i < h * s /\ i % s < w THEN ToBGRA8(frame)[(i \div s) * w + (i % s)]
                       ELSE surface.bytes[i]]
  BY DEF CopiedRows
<1> HIDE DEF w, h, b, s
<1>4. PICK i : i = row * s + b
  OBVIOUS
<1>5. i \in 0..(h * s - 1) /\ i \div s = row /\ i % s = b
  <2>1. s \in Nat \ {0} /\ b \in 0..(s - 1)
    BY <1>1, <1>2
  <2>2. i \in 0..(h * s - 1)
    BY <1>2, <1>4, <2>1, RowInside
  <2>3. (row * s + b) \div s = row /\ (row * s + b) % s = b
    BY <1>2, <2>1, Dividing
  <2>4. QED
    BY <1>4, <2>2, <2>3, Zenon
<1>6. h * s \in Nat
  BY <1>2
<1>7. CopiedRows(frame, surface)[i] = ToBGRA8(frame)[row * w + b]
  <2>1. i \in Nat /\ i < h * s /\ i % s < w
    BY <1>1, <1>2, <1>5, <1>6
  <2>2. CopiedRows(frame, surface)[i] = ToBGRA8(frame)[(i \div s) * w + (i % s)]
    BY <1>3, <2>1
  <2>3. QED
    BY <1>5, <2>2, Zenon
<1>8. QED
  BY <1>1, <1>4, <1>7 DEF b, s

(* The copy stays inside the surface and leaves alone what is not of the   *)
(* frame: nothing past its last row, and no padding (runFramesShared).     *)
THEOREM CopyInside ==
  ASSUME NEW call \in VideoCalls, NEW format \in PixelFormats, NEW frame \in Captured(call, format),
         NEW surface \in Surfaces, Fits(frame, surface), NEW i \in Nat,
         CopiedRows(frame, surface)[i] # surface.bytes[i]
  PROVE  i < surface.height * surface.rowBytes /\ i % surface.rowBytes < surface.width * 4
<1>1. i < frame.height * surface.rowBytes /\ i % surface.rowBytes < frame.width * 4
  BY DEF CopiedRows
<1>2. /\ frame.height \in Nat /\ surface.height \in Nat /\ frame.height <= surface.height
      /\ frame.width \in Nat \ {0} /\ surface.width \in Nat /\ frame.width <= surface.width
      /\ surface.rowBytes \in Nat /\ surface.rowBytes >= surface.width * 4
  BY FrameTypes DEF Surfaces, Fits
<1>3. surface.rowBytes * frame.height <= surface.rowBytes * surface.height
  BY <1>2, Scaling
<1>4. i % surface.rowBytes \in Int
  BY <1>2
<1>5. QED
  BY <1>1, <1>2, <1>3, <1>4
-----------------------------------------------------------------------------
(* Where it is shown. *)

Sizes == [width : Nat \ {0}, height : Nat \ {0}]
Aspects == [num : Nat \ {0}, den : Nat \ {0}]

LEMMA RoundedBelow ==
  ASSUME NEW n \in Nat, NEW d \in Nat \ {0}, NEW m \in Nat, n <= m * d
  PROVE  Rounded(n, d) \in 0..m
<1>1. PICK q \in Int : /\ q = (2 * n + d) \div (2 * d)
                      /\ q * (2 * d) <= 2 * n + d /\ 2 * n + d < (q + 1) * (2 * d)
  OBVIOUS
<1>2. q <= m
  <2>1. ASSUME m < q PROVE FALSE
    <3>1. (2 * d) * (m + 1) <= (2 * d) * q
      BY <2>1, Scaling
    <3>2. QED
      BY <1>1, <3>1
  <2>2. QED
    BY <2>1
<1>3. 0 <= q
  <2>1. ASSUME q < 0 PROVE FALSE
    <3>1. (2 * d) * (q + 1) <= (2 * d) * 0
      BY <2>1, Scaling
    <3>2. QED
      BY <1>1, <3>1
  <2>2. QED
    BY <2>1
<1>4. QED
  BY <1>1, <1>2, <1>3 DEF Rounded

LEMMA PlacedInside ==
  ASSUME NEW drawable \in Sizes, NEW w \in 0..drawable.width, NEW h \in 0..drawable.height
  PROVE  LET rect == Placed([width |-> w, height |-> h], drawable) IN
         /\ rect.x >= 0 /\ rect.x + w <= drawable.width /\ drawable.width - w - 2 * rect.x \in {0, 1}
         /\ rect.y >= 0 /\ rect.y + h <= drawable.height /\ drawable.height - h - 2 * rect.y \in {0, 1}
BY DEF Placed, Halved, Sizes

(* A frame that is fitted, or scaled by whole numbers and no larger than   *)
(* the drawable, is shown inside it, in the middle to a pixel              *)
(* (destinationRect).                                                      *)
THEOREM ShownInside ==
  ASSUME NEW drawable \in Sizes, NEW content \in Sizes, NEW aspect \in Aspects, NEW integerOnly \in BOOLEAN,
         integerOnly => content.width <= drawable.width /\ content.height <= drawable.height
  PROVE  LET rect == DestinationRect(content, aspect, drawable, integerOnly) IN
         /\ rect.x >= 0 /\ rect.x + rect.width <= drawable.width
         /\ rect.y >= 0 /\ rect.y + rect.height <= drawable.height
         /\ drawable.width - rect.width - 2 * rect.x \in {0, 1}
         /\ drawable.height - rect.height - 2 * rect.y \in {0, 1}
<1>1. CASE integerOnly
  <2>1. PICK k \in Nat : k = Scale(content, drawable) /\ k * content.width <= drawable.width
                                                   /\ k * content.height <= drawable.height
    <3>1. /\ drawable.width \div content.width \in Nat /\ drawable.height \div content.height \in Nat
          /\ (drawable.width \div content.width) * content.width <= drawable.width
          /\ (drawable.height \div content.height) * content.height <= drawable.height
      BY DEF Sizes
    <3>2. content.width * 1 <= drawable.width /\ content.height * 1 <= drawable.height
      BY <1>1 DEF Sizes
    <3>3. PICK k \in Nat : /\ k = Scale(content, drawable)
                           /\ k = 1 \/ (/\ k <= drawable.width \div content.width
                                        /\ k <= drawable.height \div content.height)
      BY <3>1 DEF Scale, AtLeastOne, Smaller
    <3>4. CASE k = 1
      BY <3>2, <3>3, <3>4 DEF Sizes
    <3>5. CASE k <= drawable.width \div content.width /\ k <= drawable.height \div content.height
      <4>1. /\ content.width * k <= content.width * (drawable.width \div content.width)
            /\ content.height * k <= content.height * (drawable.height \div content.height)
        BY <3>1, <3>5, Scaling DEF Sizes
      <4>2. QED
        BY <3>1, <3>3, <4>1 DEF Sizes
    <3>6. QED
      BY <3>3, <3>4, <3>5
  <2>2. PICK w \in 0..drawable.width, h \in 0..drawable.height :
          IntegerSize(content, drawable) = [width |-> w, height |-> h]
    BY <2>1 DEF IntegerSize, Sizes
  <2>3. DestinationRect(content, aspect, drawable, integerOnly) = Placed([width |-> w, height |-> h], drawable)
    BY <1>1, <2>2 DEF DestinationRect
  <2>4. QED
    BY <2>3, PlacedInside DEF Placed
<1>2. CASE ~integerOnly
  <2>1. PICK w \in 0..drawable.width, h \in 0..drawable.height :
          FittedSize(aspect, drawable) = [width |-> w, height |-> h]
    <3>1. /\ drawable.width \in Nat /\ drawable.height \in Nat
          /\ aspect.num \in Nat \ {0} /\ aspect.den \in Nat \ {0}
          /\ drawable.height * aspect.num \in Nat /\ drawable.width * aspect.den \in Nat
      BY DEF Sizes, Aspects
    <3>2. CASE drawable.width * aspect.den > aspect.num * drawable.height
      <4>1. Rounded(drawable.height * aspect.num, aspect.den) \in 0..drawable.width
        BY <3>1, <3>2, RoundedBelow
      <4>2. QED
        BY <3>1, <3>2, <4>1 DEF FittedSize
    <3>3. CASE ~(drawable.width * aspect.den > aspect.num * drawable.height)
      <4>1. Rounded(drawable.width * aspect.den, aspect.num) \in 0..drawable.height
        BY <3>1, <3>3, RoundedBelow
      <4>2. FittedSize(aspect, drawable) =
              [width |-> drawable.width, height |-> Rounded(drawable.width * aspect.den, aspect.num)]
        BY <3>3 DEF FittedSize
      <4>3. drawable.width \in 0..drawable.width
        BY <3>1
      <4>4. QED
        BY <4>1, <4>2, <4>3
    <3>4. QED
      BY <3>2, <3>3
  <2>2. DestinationRect(content, aspect, drawable, integerOnly) = Placed([width |-> w, height |-> h], drawable)
    BY <1>2, <2>1 DEF DestinationRect
  <2>3. QED
    BY <2>2, PlacedInside DEF Placed
<1>3. QED
  BY <1>1, <1>2
=============================================================================
