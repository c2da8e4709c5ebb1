--------------------------- MODULE AutoFocusProofs ---------------------------
(***************************************************************************)
(* Proofs about AutoFocus and what it is fed by, for every lens, scene,    *)
(* display and time at which a key is pressed: the peak is this sweep's,   *)
(* the lens rests once the sweeps are over, on a scene that stands still   *)
(* it rests near the sharpest step, the sync it is moved by has a polarity *)
(* that is known, and a frame is measured by what is in it.                *)
(*                                                                         *)
(* A frame is compared two frames after it was shown, and shows where the  *)
(* lens was up to LAG frames before, at several places at once.  The       *)
(* invariant for where the lens rests therefore gives bounds on what the   *)
(* registers of both blocks hold in each stage of both sweeps.  The        *)
(* invariants of FocusStart and Sharpness say what each register holds as  *)
(* a function of the place in the frame.                                   *)
(***************************************************************************)
EXTENDS MCFocus, FiniteSetTheorems, TLAPS

\* A frame that ends with the sweep off clears the peak; with enough of them,
\* SUM holds nothing of the old focus when the next sweep begins.
IInv ==
  /\ age \in 0 .. AGED /\ peakFresh \in BOOLEAN
  /\ age > 0 => peakFresh
  /\ AUTO_FOC => peakFresh /\ age = AGED

\* No frame has ended and no peak is left over.
LEMMA Initially == Init => IInv
BY FocusAssumption DEF Init, IInv, AGED

\* Every step keeps IInv.
LEMMA Preserved == IInv /\ [Next]_vars => IInv'
<1> SUFFICES ASSUME IInv, [Next]_vars PROVE IInv'
  OBVIOUS
<1>1. CASE FrameEnds \/ DriverStarts
  BY <1>1 DEF FrameEnds, DriverStarts, historyVars, IInv
<1>2. CASE Measure
  <2>1. UNCHANGED AUTO_FOC /\ age' = IF age < AGED THEN age + 1 ELSE age
    BY <1>2 DEF Measure
  <2>2. peakFresh' = (ClearsPeak \/ (IF NewPeak THEN age >= AGED ELSE peakFresh))
    BY <1>2 DEF Measure
  <2>3. peakFresh'
    <3>1. CASE ~AUTO_FOC
      BY <2>2, <3>1 DEF ClearsPeak
    <3>2. CASE AUTO_FOC
      <4>1. peakFresh /\ age >= AGED
        BY <3>2, FocusAssumption DEF IInv, AGED
      <4>2. (IF NewPeak THEN age >= AGED ELSE peakFresh) = TRUE
        BY <4>1
      <4> QED
        BY <2>2, <4>2
    <3> QED
      BY <3>1, <3>2
  <2> QED
    BY <2>1, <2>3, FocusAssumption DEF IInv, AGED
<1>3. CASE FocusOff \/ Released
  <2>1. CASE SweepReset
    <3>1. age' = 0 /\ ~AUTO_FOC' /\ peakFresh' \in BOOLEAN
      BY <2>1 DEF SweepReset
    <3> QED
      BY <3>1, FocusAssumption DEF IInv, AGED
  <2>2. CASE ~SweepReset
    <3>1. UNCHANGED <<AUTO_FOC, age, peakFresh>>
      BY <1>3, <2>2 DEF FocusOff, Released
    <3> QED
      BY <3>1 DEF IInv
  <2> QED
    BY <2>1, <2>2
<1>4. CASE FocusOn
  BY <1>4, FocusAssumption DEF FocusOn, IInv, AGED, historyVars
<1>5. CASE UNCHANGED vars
  BY <1>5 DEF vars, historyVars, IInv
<1> QED
  BY <1>1, <1>2, <1>3, <1>4, <1>5 DEF Next

\* The peak that steers a sweep was measured in that sweep, whenever the key
\* was pressed between a sync and the measurement (VCM_CTRL_P.v:60-66).
THEOREM PeaksAreFresh == Spec => []PeakOfThisSweep
<1>1. IInv => PeakOfThisSweep
  BY DEF IInv, PeakOfThisSweep
<1> QED
  BY <1>1, Initially, Preserved, PTL DEF Spec

\* Once the sweeps are over the lens stays where it is, whatever the frames
\* show from then on (F_VCM.v:54, VCM_CTRL_P.v:66).
THEOREM LensRests == Spec => FocusHolds
<1>1. [Next]_vars => [VCM_END /\ VCM_END' => END_STEP' = END_STEP]_vars
  <2>1. CASE FrameEnds
    BY <2>1 DEF FrameEnds, measureVars, END_STEP
  <2>2. CASE Measure
    BY <2>2 DEF Measure, NewPeak, sweepVars, END_STEP
  <2>3. CASE FocusOff \/ Released
    BY <2>3 DEF FocusOff, Released, SweepReset, sweepVars, measureVars, END_STEP, STEP
  <2>4. CASE FocusOn \/ DriverStarts
    BY <2>4 DEF FocusOn, DriverStarts, sweepVars, measureVars, END_STEP, STEP
  <2> QED
    BY <2>1, <2>2, <2>3, <2>4 DEF Next
<1> QED
  BY <1>1, PTL DEF Spec, FocusHolds

-----------------------------------------------------------------------------
\* What a still scene shows around its sharpest step p; a coarse step y whose
\* frame, when it is compared, shows nothing but the surroundings of p; and the
\* last step u that the coarse sweep may be remembered at.
Target(s, p, y, u) ==
  /\ p \in Blur + 1 .. STEP_LAST - SCAL - Blur
  /\ y \in p - Blur + SCAL * LAG .. p + Blur /\ y % SCAL = 0
  /\ u \in p + 1 .. STEP_LAST + SCAL /\ u <= p + 2 * SCAL + SCAL * LAG + Blur
  /\ u = STEP_LAST + SCAL \/ u = p + 2 * SCAL + SCAL * LAG + Blur
  /\ \A a, b \in 0 .. UP_SIZE - 1 : p <= a /\ a <= b => s[b] <= s[a]
  /\ \A q, b \in 0 .. UP_SIZE - 1 :
       p - Blur <= q /\ q <= p + Blur =>
         s[q] > 0 /\ (s[q] <= s[b] => p - Blur <= b /\ b <= p + Blur)
  /\ \A q \in 0 .. UP_SIZE - 1 : q # p => s[q] < s[p]

\* Where the lens may have been in a frame that is in SUM when the coarse sweep
\* has sent it to c.
Window(q, c) == (q + SCAL <= c \/ q = 0) /\ c <= q + SCAL + SCAL * LAG

\* While the key is pressed the old focus fades: first the peak, then the
\* frames on their way, then SUM.
Off ==
  ~AUTO_FOC =>
    /\ ~V_C /\ ~VCM_END /\ ~GO_F /\ STEP_i = 0
    /\ age > 0 => ~rGO_F /\ peakSUM = 0
    /\ \A i \in 0 .. LAG : (edge /\ i < age) \/ i + 1 < age => seen[i] = 0
    /\ age = AGED => SUM = scene[0]

\* The lens is at STEP_i; the frame measured is a step behind, and up to LAG
\* more, the one that is compared two.
CoarseSum ==
  LET c == IF edge THEN STEP_i - SCAL ELSE STEP_i
  IN  \E a, b \in 0 .. UP_SIZE - 1 :
        Window(a, c) /\ Window(b, c) /\ scene[a] <= SUM /\ SUM <= scene[b]

\* The step remembered is ahead of where its frame was taken.
CoarsePeak ==
  \/ peakSUM = 0
  \/ /\ STEP_UP <= STEP_LAST + SCAL
     /\ \E b \in 0 .. UP_SIZE - 1 : Window(b, STEP_UP - SCAL) /\ peakSUM <= scene[b]

\* Once the coarse step y has been compared, the peak is one from around p.
PeakFound(p) ==
  \E q \in 0 .. UP_SIZE - 1 : p - Blur <= q /\ q <= p + Blur /\ scene[q] <= peakSUM

Coarse(p, y) ==
  AUTO_FOC /\ ~V_C =>
    /\ ~VCM_END /\ ~GO_F /\ ~rGO_F
    /\ STEP_i \in 0 .. STEP_LAST + SCAL /\ STEP_i % SCAL = 0
    /\ \A i \in 0 .. LAG :
         (seen[i] + SCAL <= STEP_i \/ seen[i] = 0) /\ STEP_i <= seen[i] + SCAL * (i + 1)
    /\ CoarseSum /\ CoarsePeak
    /\ STEP_i > y + 2 * SCAL \/ (STEP_i = y + 2 * SCAL /\ ~edge) => PeakFound(p)

\* The first step that the fine sweep may be set up at.
FirstFine(p) == p + 2 * SCAL - SCAL_f - Blur

\* Past u the fine sweep moves away from what it looks for, and once it has
\* compared a frame from there it remembers no other.
FineFades(u) ==
  LET g == IF edge THEN STEP_f - SCAL_f ELSE STEP_f
  IN  /\ \A i \in 0 .. LAG : STEP_f >= u + i => seen[i] = STEP_f - 1 - i
      /\ g >= u + LAG => scene[g - 1] <= SUM /\ SUM <= scene[g - 1 - LAG]
      /\ g >= u + LAG + 1 => scene[u + LAG - 1] <= peakSUM

\* The fine sweep: set up; the last coarse step compared; on its way, and over.
Fine(p, u) ==
  V_C =>
    /\ AUTO_FOC
    /\ \/ /\ edge /\ ~GO_F /\ ~rGO_F /\ ~VCM_END
          /\ STEP_f = STEP_UP - SCAL_f /\ STEP_f \in FirstFine(p) .. u - 1
       \/ /\ ~edge /\ ~GO_F /\ ~rGO_F /\ ~VCM_END
          /\ STEP_UP \in {STEP_f, STEP_f + 1} /\ STEP_f \in FirstFine(p) .. u - 1
       \/ /\ GO_F
          /\ STEP_UP \in FirstFine(p) .. u + 2 * LAG + 1 /\ STEP_f \in STEP_UP .. STEP_UP + 2
          /\ ~rGO_F => edge /\ ~VCM_END /\ STEP_f <= u /\ STEP_f <= STEP_UP + 1
          /\ ~VCM_END => FineFades(u)

\* What the registers hold.
Types ==
  /\ AUTO_FOC \in BOOLEAN /\ V_C \in BOOLEAN /\ VCM_END \in BOOLEAN /\ GO_F \in BOOLEAN
  /\ rGO_F \in BOOLEAN /\ edge \in BOOLEAN /\ driven \in BOOLEAN /\ led \in BOOLEAN
  /\ scene \in Scenes /\ seen \in [0 .. LAG -> 0 .. UP_SIZE - 1]
  /\ SUM \in 0 .. SUM_MAX /\ peakSUM \in 0 .. SUM_MAX
  /\ STEP_i \in Nat /\ STEP_f \in Nat /\ STEP_UP \in 0 .. UP_SIZE - 1

\* How far the focus has come towards its target.
Tracks(p, y, u) == Off /\ Coarse(p, y) /\ Fine(p, u)

\* On a still scene, and with the lens at work since the key was pressed, the
\* focus is on its way to each target, or past it.
NearInv ==
  /\ Types
  /\ led => driven
  /\ led /\ scene \notin Moving =>
       \A p, y, u \in Nat : Target(scene, p, y, u) => Tracks(p, y, u)

\* The board's numbers, and what relates the parameters.
LEMMA Sizes ==
  /\ SCAL = 3 /\ SCAL_f = 1 /\ LAG \in Nat /\ AGED = LAG + 2 /\ SUM_MAX \in Nat
  /\ Blur \in Nat /\ 2 * Blur >= 3 * LAG + 2 /\ 2 * Blur <= 3 * LAG + 3
  /\ STEP_LAST \in Nat /\ UP_SIZE \in Nat /\ STEP_SIZE \in Nat
  /\ STEP_LAST % 3 = 0 /\ STEP_LAST >= 6
  /\ STEP_LAST + 6 + 2 * LAG < UP_SIZE /\ UP_SIZE < STEP_SIZE
<1>1. LAG \in Nat /\ SUM_MAX \in Nat /\ AGED = LAG + 2
  BY FocusAssumption DEF AGED
<1>2. Blur = (3 * LAG + 3) \div 2
  BY <1>1 DEF Blur, SCAL
<1>3. Blur \in Nat /\ 2 * Blur >= 3 * LAG + 2 /\ 2 * Blur <= 3 * LAG + 3
  BY <1>1, <1>2, Z3
<1>4. /\ STEP_LAST % 3 = 0 /\ STEP_LAST >= 2 * 3 /\ STEP_LAST + 2 * 3 + 2 * 1 * LAG < UP_SIZE
  BY LensAssumption DEF SCAL, SCAL_f
<1>5. STEP_LAST \in Nat /\ UP_SIZE \in Nat /\ STEP_SIZE \in Nat /\ UP_SIZE < STEP_SIZE
  BY FocusAssumption
<1> QED
  BY <1>1, <1>3, <1>4, <1>5 DEF SCAL, SCAL_f

\* One of three steps is a coarse one.
LEMMA CoarseStep ==
  ASSUME NEW m \in Nat
  PROVE  \E y \in m .. m + 2 : y % 3 = 0
<1>1. m % 3 \in {0, 1, 2}
  BY Z3
<1>2. CASE m % 3 = 0
  BY <1>2
<1>3. CASE m % 3 = 1
  <2>1. (m + 2) % 3 = 0 /\ m + 2 \in m .. m + 2
    BY <1>3, Z3
  <2> QED
    BY <2>1, Zenon
<1>4. CASE m % 3 = 2
  <2>1. (m + 1) % 3 = 0 /\ m + 1 \in m .. m + 2
    BY <1>4, Z3
  <2> QED
    BY <2>1, Zenon
<1> QED
  BY <1>1, <1>2, <1>3, <1>4

\* Every still scene has a target.
LEMMA TargetExists ==
  ASSUME NEW s \in Scenes \ Moving
  PROVE  \E p, y, u \in Nat : Target(s, p, y, u)
<1> USE Sizes
<1>1. PICK p \in Blur + 1 .. STEP_LAST - SCAL - Blur : FallsFrom(s, p)
  BY SceneAssumption
<1>2. p \in Nat /\ p >= Blur + 1 /\ p + 3 + Blur <= STEP_LAST /\ p - Blur + 3 * LAG \in Nat
  BY DEF SCAL
<1>3. PICK y \in p - Blur + 3 * LAG .. p - Blur + 3 * LAG + 2 : y % 3 = 0
  BY <1>2, CoarseStep
<1>4. y \in Nat /\ y \in p - Blur + 3 * LAG .. p + Blur
  BY <1>2
<1>5. PICK u \in Nat : /\ u \in p + 1 .. STEP_LAST + 3 /\ u <= p + 6 + 3 * LAG + Blur
                       /\ u = STEP_LAST + 3 \/ u = p + 6 + 3 * LAG + Blur
  <2> DEFINE far == p + 6 + 3 * LAG + Blur
  <2>1. far \in Nat /\ far >= p + 1 /\ STEP_LAST + 3 \in Nat /\ p + 1 <= STEP_LAST + 3
    BY <1>2
  <2>2. CASE far <= STEP_LAST + 3
    <3>1. far \in p + 1 .. STEP_LAST + 3 /\ far <= far
      BY <1>2, <2>1, <2>2
    <3> QED
      BY <2>1, <3>1, Zenon
  <2>3. CASE ~(far <= STEP_LAST + 3)
    <3>1. STEP_LAST + 3 \in p + 1 .. STEP_LAST + 3 /\ STEP_LAST + 3 <= far
      BY <1>2, <2>1, <2>3
    <3> QED
      BY <2>1, <3>1
  <2> QED
    BY <2>2, <2>3
<1>6. /\ s \in [0 .. UP_SIZE - 1 -> 0 .. SUM_MAX]
      /\ \A a \in 0 .. UP_SIZE - 1 : s[a] \in Nat
      /\ \A a \in 0 .. UP_SIZE - 1 : p - Blur <= a /\ a <= p + Blur => s[a] > 0
      /\ \A a, b \in 0 .. UP_SIZE - 1 :
           Distance(a, p) < Distance(b, p) => s[b] < s[a] \/ (s[a] = 0 /\ s[b] = 0)
  <2>1. s \in [0 .. UP_SIZE - 1 -> 0 .. SUM_MAX]
    BY FocusAssumption
  <2>2. \A a \in 0 .. UP_SIZE - 1 : s[a] \in Nat
    BY <2>1
  <2>3. \A a \in 0 .. UP_SIZE - 1 : p - Blur <= a /\ a <= p + Blur => Distance(a, p) <= Blur
    BY <1>2 DEF Distance
  <2> QED
    BY <1>1, <2>1, <2>2, <2>3 DEF FallsFrom
<1>7. \A q \in 0 .. UP_SIZE - 1 : q # p => s[q] < s[p]
  BY <1>2, <1>6 DEF Distance
<1>8. \A a, b \in 0 .. UP_SIZE - 1 : p <= a /\ a <= b => s[b] <= s[a]
  <2> SUFFICES ASSUME NEW a \in 0 .. UP_SIZE - 1, NEW b \in 0 .. UP_SIZE - 1, p <= a, a < b
               PROVE  s[b] <= s[a]
    BY <1>6
  <2>1. Distance(a, p) < Distance(b, p)
    BY <1>2 DEF Distance
  <2>2. s[a] \in Nat /\ s[b] \in Nat
    BY <1>6
  <2> QED
    BY <1>6, <2>1, <2>2
<1>9. ASSUME NEW q \in 0 .. UP_SIZE - 1, NEW b \in 0 .. UP_SIZE - 1,
             p - Blur <= q, q <= p + Blur
      PROVE  s[q] > 0 /\ (s[q] <= s[b] => p - Blur <= b /\ b <= p + Blur)
  <2>1. s[q] > 0 /\ s[q] \in Nat /\ s[b] \in Nat
    BY <1>6, <1>9
  <2>2. ~(p - Blur <= b /\ b <= p + Blur) => Distance(q, p) < Distance(b, p)
    BY <1>2, <1>9 DEF Distance
  <2> QED
    BY <1>6, <2>1, <2>2
<1>10. Target(s, p, y, u)
  BY <1>3, <1>4, <1>5, <1>7, <1>8, <1>9 DEF Target, SCAL
<1> QED
  BY <1>2, <1>4, <1>5, <1>10

\* What % leaves of a step.
LEMMA Remainder ==
  ASSUME NEW m \in Nat, m > 0, NEW x \in Int
  PROVE  x % m \in 0 .. m - 1 /\ (x \in 0 .. m - 1 => x % m = x)
<1>1. x % m \in 0 .. m - 1
  BY Z3
<1>2. x \in 0 .. m - 1 => x % m = x
  BY Z3
<1> QED
  BY <1>1, <1>2

\* The lens is sent to a step that it has.
LEMMA StepType ==
  ASSUME Types
  PROVE  STEP \in 0 .. UP_SIZE - 1 /\ END_STEP \in 0 .. UP_SIZE - 1 /\ FineStart \in Nat
<1>1. /\ STEP_i \in Int /\ STEP_f \in Int /\ STEP_UP \in 0 .. UP_SIZE - 1
      /\ STEP_UP - SCAL \div 2 \in Int /\ SCAL \div 2 = 1
      /\ UP_SIZE \in Nat /\ UP_SIZE > 0 /\ STEP_SIZE \in Nat /\ STEP_SIZE > 0
  BY Sizes DEF Types
<1>2. STEP \in 0 .. UP_SIZE - 1
  <2>1. STEP_i % UP_SIZE \in 0 .. UP_SIZE - 1 /\ STEP_f % UP_SIZE \in 0 .. UP_SIZE - 1
    BY <1>1, Remainder
  <2> QED
    BY <2>1 DEF STEP
<1>3. FineStart \in Nat
  <2>1. (STEP_UP - SCAL \div 2) % STEP_SIZE \in 0 .. STEP_SIZE - 1
    BY <1>1, Remainder
  <2> QED
    BY <2>1, <1>1 DEF FineStart
<1> QED
  BY <1>1, <1>2, <1>3 DEF END_STEP

\* Each frame that may be on its way is one later, and the one that ends is new.
LEMMA FrameSeen ==
  ASSUME Types, LensMoves
  PROVE  /\ seen' \in [0 .. LAG -> 0 .. UP_SIZE - 1]
         /\ driven => seen'[0] = END_STEP
         /\ \A i \in 0 .. LAG : i > 0 => i - 1 \in 0 .. LAG /\ seen'[i] = seen[i - 1]
<1>1. END_STEP \in 0 .. UP_SIZE - 1 /\ LAG \in Nat /\ seen \in [0 .. LAG -> 0 .. UP_SIZE - 1]
  BY StepType, Sizes DEF Types
<1>2. \A i \in 0 .. LAG : i > 0 => i - 1 \in 0 .. LAG
  BY <1>1
<1> QED
  BY <1>1, <1>2 DEF LensMoves

\* What a frame may sum up to lies between what two places show that the lens
\* was at or passed.
LEMMA SumBounds ==
  ASSUME Types, NEW n \in Sums
  PROVE  /\ n \in 0 .. SUM_MAX
         /\ \E a, b \in Passed : scene[a] <= n /\ n <= scene[b]
BY DEF Sums

\* Where the lens passed is between where it was at the end of two frames.
LEMMA PassedBounds ==
  ASSUME Types, NEW q \in Passed
  PROVE  /\ q \in 0 .. UP_SIZE - 1
         /\ \E i, j \in 0 .. LAG : seen[i] <= q /\ q <= seen[j]
<1>1. LAG \in Nat /\ seen \in [0 .. LAG -> 0 .. UP_SIZE - 1]
  BY Sizes DEF Types
<1>2. CASE q = seen[0]
  BY <1>1, <1>2
<1>3. CASE q # seen[0]
  <2>1. PICK i \in 1 .. LAG : q \in Way(seen[i], seen[i - 1])
    BY <1>3 DEF Passed
  <2>2. /\ i \in 0 .. LAG /\ i - 1 \in 0 .. LAG
        /\ seen[i] \in 0 .. UP_SIZE - 1 /\ seen[i - 1] \in 0 .. UP_SIZE - 1
    BY <1>1
  <2> QED
    BY <2>1, <2>2, Sizes DEF Way
<1> QED
  BY <1>2, <1>3

\* Every step keeps the types.
LEMMA TypesKept ==
  ASSUME Types, [Next]_vars
  PROVE  Types'
<1>0. /\ STEP \in 0 .. UP_SIZE - 1 /\ END_STEP \in 0 .. UP_SIZE - 1 /\ FineStart \in Nat
      /\ STEP_SIZE \in Nat /\ STEP_SIZE > 0
  BY StepType, Sizes
<1>1. CASE FrameEnds
  <2>1. /\ UNCHANGED <<AUTO_FOC, rGO_F, SUM, peakSUM, STEP_UP, scene, driven, led>>
        /\ edge' = TRUE /\ seen' \in [0 .. LAG -> 0 .. UP_SIZE - 1]
    BY <1>1, FrameSeen DEF FrameEnds, measureVars, historyVars
  <2>2. STEP_i' \in Nat /\ V_C' \in BOOLEAN
    <3>1. (STEP_i + SCAL) % STEP_SIZE \in Nat
      <4>1. STEP_i + SCAL \in Int
        BY Sizes DEF Types
      <4> QED
        BY <1>0, <4>1, Remainder
    <3>2. V_C \in BOOLEAN /\ STEP_i \in Nat
      BY DEF Types
    <3>3. CASE ~AUTO_FOC
      <4>1. V_C' = FALSE /\ STEP_i' = 0
        BY <1>1, <3>3, Zenon DEF FrameEnds, CoarseSweep
      <4> QED
        BY <4>1
    <3>4. CASE AUTO_FOC /\ CoarseOver
      <4>1. V_C' = TRUE /\ STEP_i' = STEP_i
        BY <1>1, <3>4, Zenon DEF FrameEnds, CoarseSweep
      <4> QED
        BY <3>2, <4>1
    <3>5. CASE AUTO_FOC /\ ~CoarseOver
      <4>1. V_C' = V_C /\ STEP_i' = (STEP_i + SCAL) % STEP_SIZE
        BY <1>1, <3>5, Zenon DEF FrameEnds, CoarseSweep
      <4> QED
        BY <3>1, <3>2, <4>1, Zenon
    <3> QED
      BY <3>3, <3>4, <3>5
  <2>3. STEP_f' \in Nat /\ VCM_END' \in BOOLEAN /\ GO_F' \in BOOLEAN
    <3>1. (STEP_f + SCAL_f) % STEP_SIZE \in Nat
      <4>1. STEP_f + SCAL_f \in Int
        BY Sizes DEF Types
      <4> QED
        BY <1>0, <4>1, Remainder
    <3> QED
      BY <1>0, <1>1, <3>1 DEF FrameEnds, FineSweep, Types
  <2> QED
    BY <2>1, <2>2, <2>3, Zenon DEF Types
<1>2. CASE Measure
  <2>1. /\ UNCHANGED <<AUTO_FOC, V_C, STEP_i, STEP_f, VCM_END, GO_F, driven, seen, led>>
        /\ edge' = FALSE /\ rGO_F' = GO_F /\ SUM' \in Sums
        /\ scene' \in Moving \/ scene' = scene
        /\ peakSUM' \in {0, SUM, peakSUM} /\ STEP_UP' \in {STEP, STEP_UP}
    BY <1>2 DEF Measure, sweepVars, lensVars
  <2>2. SUM' \in 0 .. SUM_MAX /\ scene' \in Scenes
    BY <2>1, FocusAssumption, SumBounds DEF Types
  <2>3. edge' \in BOOLEAN /\ peakSUM' \in 0 .. SUM_MAX /\ STEP_UP' \in 0 .. UP_SIZE - 1
    <3>1. /\ 0 \in 0 .. SUM_MAX /\ SUM \in 0 .. SUM_MAX /\ peakSUM \in 0 .. SUM_MAX
          /\ STEP_UP \in 0 .. UP_SIZE - 1
      BY Sizes DEF Types
    <3>2. peakSUM' \in 0 .. SUM_MAX
      BY <2>1, <3>1, Zenon
    <3>3. STEP_UP' \in 0 .. UP_SIZE - 1
      BY <1>0, <2>1, <3>1, Zenon
    <3> QED
      BY <2>1, <3>2, <3>3, Zenon
  <2> QED
    BY <2>1, <2>2, <2>3, Zenon DEF Types
<1>3. CASE FocusOff \/ Released
  <2>1. /\ UNCHANGED <<rGO_F, SUM, peakSUM, STEP_UP, edge, seen, scene>>
        /\ driven' \in BOOLEAN /\ led' \in BOOLEAN
    BY <1>3 DEF FocusOff, Released, SweepReset, measureVars, Types
  <2>2. /\ AUTO_FOC' \in BOOLEAN /\ V_C' \in BOOLEAN /\ VCM_END' \in BOOLEAN /\ GO_F' \in BOOLEAN
        /\ STEP_i' \in Nat /\ STEP_f' \in Nat
    <3>1. CASE SweepReset
      <4>1. STEP_f' \in {FineStart, STEP_f} /\ STEP_f \in Nat
        BY <3>1 DEF SweepReset, Types
      <4>2. STEP_f' \in Nat
        BY <1>0, <4>1, Zenon
      <4> QED
        BY <3>1, <4>2 DEF SweepReset
    <3>2. CASE ~SweepReset
      BY <1>3, <3>2 DEF FocusOff, Released, sweepVars, Types
    <3> QED
      BY <3>1, <3>2
  <2> QED
    BY <2>1, <2>2, Zenon DEF Types
<1>4. CASE FocusOn
  BY <1>4 DEF FocusOn, sweepVars, measureVars, lensVars, historyVars, Types
<1>5. CASE DriverStarts
  BY <1>5 DEF DriverStarts, sweepVars, measureVars, historyVars, Types
<1>6. CASE UNCHANGED vars
  BY <1>6 DEF vars, sweepVars, measureVars, lensVars, historyVars, Types
<1> QED
  BY <1>1, <1>2, <1>3, <1>4, <1>5, <1>6 DEF Next

\* What is known of the registers, the scene and its target at any time.
LEMMA Known ==
  ASSUME Types, IInv, NEW p \in Nat, NEW y \in Nat, NEW u \in Nat, Target(scene, p, y, u)
  PROVE  /\ AUTO_FOC \in BOOLEAN /\ V_C \in BOOLEAN /\ VCM_END \in BOOLEAN /\ GO_F \in BOOLEAN
         /\ rGO_F \in BOOLEAN /\ edge \in BOOLEAN /\ age \in 0 .. LAG + 2
         /\ seen \in [0 .. LAG -> 0 .. UP_SIZE - 1]
         /\ \A i \in 0 .. LAG : seen[i] \in 0 .. UP_SIZE - 1
         /\ SUM \in Nat /\ peakSUM \in Nat
         /\ STEP_i \in Nat /\ STEP_f \in Nat /\ STEP_UP \in 0 .. UP_SIZE - 1
         /\ \A q \in 0 .. UP_SIZE - 1 : scene[q] \in Nat
         /\ p >= Blur + 1 /\ p + 3 + Blur <= STEP_LAST
         /\ p - Blur + 3 * LAG <= y /\ y <= p + Blur /\ y % 3 = 0
         /\ p + 1 <= u /\ u <= STEP_LAST + 3 /\ u <= p + 6 + 3 * LAG + Blur
<1> USE Sizes
<1>1. /\ age \in 0 .. LAG + 2 /\ STEP_UP \in 0 .. UP_SIZE - 1
      /\ SUM \in Nat /\ peakSUM \in Nat
  BY DEF Types, IInv
<1>2. scene \in [0 .. UP_SIZE - 1 -> 0 .. SUM_MAX]
  BY FocusAssumption DEF Types
<1>3. \A q \in 0 .. UP_SIZE - 1 : scene[q] \in Nat
  BY <1>2
<1>4. /\ p >= Blur + 1 /\ p + 3 + Blur <= STEP_LAST
      /\ p - Blur + 3 * LAG <= y /\ y <= p + Blur /\ y % 3 = 0
      /\ p + 1 <= u /\ u <= STEP_LAST + 3 /\ u <= p + 6 + 3 * LAG + Blur
  BY DEF Target, SCAL
<1>5. \A i \in 0 .. LAG : seen[i] \in 0 .. UP_SIZE - 1
  BY DEF Types
<1> QED
  BY <1>1, <1>3, <1>4, <1>5 DEF Types

\* A frame ends with the key pressed.
LEMMA FrameOff ==
  ASSUME Types, IInv, driven, Off, FrameEnds
  PROVE  Off'
<1> USE Sizes
<1> SUFFICES ASSUME ~AUTO_FOC PROVE Off'
  BY DEF Off, FrameEnds
<1>0. /\ ~edge /\ edge' /\ LensMoves
      /\ UNCHANGED <<AUTO_FOC, rGO_F, SUM, peakSUM, STEP_UP, scene, age>>
  BY DEF FrameEnds, measureVars, historyVars
<1>1. ~V_C /\ ~VCM_END /\ ~GO_F /\ STEP_i = 0
  BY DEF Off
<1>2. END_STEP = 0
  <2>1. 0 % UP_SIZE = 0
    BY Remainder
  <2> QED
    BY <1>1, <2>1 DEF END_STEP, STEP
<1>3. ~V_C' /\ STEP_i' = 0 /\ ~VCM_END' /\ ~GO_F'
  BY <1>1 DEF FrameEnds, CoarseSweep, FineSweep
<1>4. ASSUME NEW i \in 0 .. LAG, (edge' /\ i < age') \/ i + 1 < age'
      PROVE  seen'[i] = 0
  <2>1. i < age /\ age \in 0 .. LAG + 2
    BY <1>0, <1>4 DEF IInv
  <2>2. CASE i = 0
    BY <1>0, <1>2, <2>2, FrameSeen
  <2>3. CASE i > 0
    <3>1. i - 1 \in 0 .. LAG /\ seen'[i] = seen[i - 1]
      BY <1>0, <2>3, FrameSeen
    <3>2. (i - 1) + 1 < age
      BY <2>1
    <3>3. seen[i - 1] = 0
      BY <3>1, <3>2 DEF Off
    <3> QED
      BY <3>1, <3>3
  <2> QED
    BY <2>2, <2>3
<1> QED
  BY <1>0, <1>1, <1>3, <1>4 DEF Off

\* A frame is taken with the key pressed, and the peak cleared.
LEMMA MeasureOff ==
  ASSUME Types, IInv, Off, Measure, scene' = scene
  PROVE  Off'
<1> USE Sizes
<1> SUFFICES ASSUME ~AUTO_FOC PROVE Off'
  BY DEF Off, Measure
<1>0. /\ edge /\ ~edge' /\ SUM' \in Sums /\ (rGO_F' <=> GO_F) /\ peakSUM' = 0
      /\ UNCHANGED <<AUTO_FOC, V_C, STEP_i, VCM_END, GO_F, seen>>
      /\ age' = IF age < AGED THEN age + 1 ELSE age
  BY DEF Measure, sweepVars, lensVars, ClearsPeak
<1>1. ~V_C /\ ~VCM_END /\ ~GO_F /\ STEP_i = 0 /\ age \in 0 .. LAG + 2
  BY DEF Off, IInv
<1>2. \A i \in 0 .. LAG : i < age => seen[i] = 0
  BY <1>0 DEF Off
<1>3. \A i \in 0 .. LAG : (edge' /\ i < age') \/ i + 1 < age' => seen'[i] = 0
  BY <1>0, <1>1, <1>2
<1>4. ASSUME age' = AGED PROVE SUM' = scene[0]
  <2>1. \A i \in 0 .. LAG : seen[i] = 0
    BY <1>0, <1>1, <1>2, <1>4
  <2>2. \A q \in Passed : q = 0
    <3> TAKE q \in Passed
    <3>1. q \in 0 .. UP_SIZE - 1 /\ \E i, j \in 0 .. LAG : seen[i] <= q /\ q <= seen[j]
      BY PassedBounds
    <3> QED
      BY <2>1, <3>1
  <2>3. SUM' \in Nat /\ scene[0] \in Nat /\ scene[0] <= SUM' /\ SUM' <= scene[0]
    <3>1. SUM' \in 0 .. SUM_MAX /\ \E a, b \in Passed : scene[a] <= SUM' /\ SUM' <= scene[b]
      BY <1>0, SumBounds
    <3>2. scene \in [0 .. UP_SIZE - 1 -> 0 .. SUM_MAX]
      BY FocusAssumption DEF Types
    <3> QED
      BY <2>2, <3>1, <3>2
  <2> QED
    BY <2>3
<1> QED
  BY <1>0, <1>1, <1>3, <1>4 DEF Off

\* A frame ends while the coarse sweep goes on, or is over.
LEMMA FrameCoarse ==
  ASSUME Types, IInv, driven, NEW p \in Nat, NEW y \in Nat, NEW u \in Nat,
         Target(scene, p, y, u), Coarse(p, y), FrameEnds, AUTO_FOC, ~V_C
  PROVE  Coarse(p, y)' /\ Fine(p, u)'
<1> USE Sizes
<1>0. /\ ~edge /\ edge' /\ LensMoves
      /\ UNCHANGED <<AUTO_FOC, rGO_F, SUM, peakSUM, STEP_UP, scene>>
  BY DEF FrameEnds, measureVars, historyVars
<1>1. /\ \A i \in 0 .. LAG : seen[i] \in 0 .. UP_SIZE - 1
      /\ SUM \in Nat /\ peakSUM \in Nat
      /\ STEP_i \in Nat /\ STEP_f \in Nat /\ STEP_UP \in 0 .. UP_SIZE - 1
      /\ \A q \in 0 .. UP_SIZE - 1 : scene[q] \in Nat
      /\ p >= Blur + 1 /\ p + 3 + Blur <= STEP_LAST
      /\ p - Blur + 3 * LAG <= y /\ y <= p + Blur /\ y % 3 = 0
      /\ p + 1 <= u /\ u <= STEP_LAST + 3 /\ u <= p + 6 + 3 * LAG + Blur
  BY Known
<1>2. /\ ~VCM_END /\ ~GO_F /\ ~rGO_F
      /\ STEP_i \in 0 .. STEP_LAST + 3 /\ STEP_i % 3 = 0
      /\ \A i \in 0 .. LAG :
           (seen[i] + 3 <= STEP_i \/ seen[i] = 0) /\ STEP_i <= seen[i] + 3 * (i + 1)
      /\ CoarseSum /\ CoarsePeak
      /\ STEP_i >= y + 6 => PeakFound(p)
  BY <1>0 DEF Coarse, SCAL
<1>3. END_STEP = STEP_i
  <2>1. STEP_i % UP_SIZE = STEP_i
    BY <1>2, Remainder
  <2> QED
    BY <1>2, <2>1 DEF END_STEP, STEP
<1>4. ~VCM_END' /\ ~GO_F' /\ STEP_f' = FineStart
  BY <1>2 DEF FrameEnds, FineSweep
<1>5. CASE CoarseOver
  <2>1. STEP_i = STEP_LAST + 3
    BY <1>2, <1>5, Z3 DEF CoarseOver
  <2>2. V_C'
    BY <1>5 DEF FrameEnds, CoarseSweep
  <2>3. PICK q \in 0 .. UP_SIZE - 1 : p - Blur <= q /\ q <= p + Blur /\ scene[q] <= peakSUM
    <3>1. PeakFound(p)
      BY <1>1, <1>2, <2>1
    <3> QED
      BY <3>1 DEF PeakFound
  <2>4. scene[q] > 0 /\ \A b \in 0 .. UP_SIZE - 1 :
                          scene[q] <= scene[b] => p - Blur <= b /\ b <= p + Blur
    BY <2>3 DEF Target
  <2>5. scene[q] \in Nat /\ peakSUM # 0
    BY <1>1, <2>3, <2>4
  <2>6. PICK b \in 0 .. UP_SIZE - 1 : Window(b, STEP_UP - 3) /\ peakSUM <= scene[b]
    BY <1>2, <2>5 DEF CoarsePeak, SCAL
  <2>7. STEP_UP <= STEP_LAST + 3
    BY <1>2, <2>5 DEF CoarsePeak, SCAL
  <2>8. p - Blur <= b /\ b <= p + Blur
    <3>1. scene[q] <= scene[b]
      BY <1>1, <2>3, <2>6
    <3> QED
      BY <2>4, <3>1
  <2>9. b + 3 <= STEP_UP - 3 /\ STEP_UP - 3 <= b + 3 + 3 * LAG
    <3>1. b # 0
      BY <1>1, <2>8
    <3> QED
      BY <2>6, <3>1 DEF Window, SCAL
  <2>10. STEP_UP - 1 \in p + 5 - Blur .. u - 1
    <3>1. u = STEP_LAST + 3 \/ u = p + 6 + 3 * LAG + Blur
      BY DEF Target, SCAL
    <3> QED
      BY <1>1, <2>7, <2>8, <2>9, <3>1
  <2>11. FineStart = STEP_UP - 1
    <3>1. STEP_UP - SCAL \div 2 = STEP_UP - 1 /\ STEP_UP - 1 \in 0 .. STEP_SIZE - 1
      BY <1>1, <2>10
    <3>2. (STEP_UP - 1) % STEP_SIZE = STEP_UP - 1
      BY <3>1, Remainder
    <3> QED
      BY <3>1, <3>2 DEF FineStart
  <2>12. FirstFine(p) = p + 5 - Blur
    BY DEF FirstFine
  <2> QED
    BY <1>0, <1>2, <1>4, <2>2, <2>10, <2>11, <2>12 DEF Coarse, Fine
<1>6. CASE ~CoarseOver
  <2>1. STEP_i <= STEP_LAST
    BY <1>1, <1>6 DEF CoarseOver
  <2>2. ~V_C' /\ STEP_i' = STEP_i + 3
    <3>1. STEP_i + 3 \in 0 .. STEP_SIZE - 1
      BY <1>1, <2>1
    <3>2. (STEP_i + 3) % STEP_SIZE = STEP_i + 3
      BY <3>1, Remainder
    <3> QED
      BY <1>6, <3>2 DEF FrameEnds, CoarseSweep
  <2>3. STEP_i' % 3 = 0 /\ STEP_i' \in 0 .. STEP_LAST + 3
    <3>1. (STEP_i + 3) % 3 = 0
      BY <1>1, <1>2, Z3
    <3> QED
      BY <1>2, <2>1, <2>2, <3>1
  <2>4. ASSUME NEW i \in 0 .. LAG
        PROVE  (seen'[i] + 3 <= STEP_i' \/ seen'[i] = 0) /\ STEP_i' <= seen'[i] + 3 * (i + 1)
    <3>1. CASE i = 0
      BY <1>0, <1>1, <1>3, <2>2, <3>1, FrameSeen
    <3>2. CASE i > 0
      <4>1. i - 1 \in 0 .. LAG /\ seen'[i] = seen[i - 1]
        BY <1>0, <3>2, FrameSeen
      <4>2. PICK v \in 0 .. UP_SIZE - 1 : v = seen[i - 1]
        BY <1>1, <4>1
      <4>3. (v + 3 <= STEP_i \/ v = 0) /\ STEP_i <= v + 3 * ((i - 1) + 1)
        BY <1>2, <4>1, <4>2
      <4> QED
        BY <1>1, <2>2, <4>1, <4>2, <4>3
    <3> QED
      BY <3>1, <3>2
  <2>5. CoarseSum' /\ CoarsePeak' /\ (PeakFound(p) => PeakFound(p)')
    <3>1. STEP_i' - 3 = STEP_i
      BY <1>1, <2>2
    <3> QED
      BY <1>0, <1>2, <3>1 DEF CoarseSum, CoarsePeak, PeakFound, Window, SCAL
  <2>6. STEP_i' > y + 6 => STEP_i >= y + 6
    <3>1. PICK c \in Nat : c = STEP_i
      BY <1>1
    <3>2. c + 3 > y + 6 => c >= y + 6
      BY <1>1, <1>2, <3>1, Z3
    <3> QED
      BY <2>2, <3>1, <3>2
  <2>7. Coarse(p, y)'
    BY <1>0, <1>2, <1>4, <2>2, <2>3, <2>4, <2>5, <2>6 DEF Coarse, SCAL
  <2> QED
    BY <2>2, <2>7 DEF Fine
<1> QED
  BY <1>5, <1>6

\* The coarse sweep compares the frame before, and remembers how far it is.
LEMMA MeasureCoarse ==
  ASSUME Types, IInv, NEW p \in Nat, NEW y \in Nat, NEW u \in Nat,
         Target(scene, p, y, u), Coarse(p, y), Measure, scene' = scene, AUTO_FOC, ~V_C
  PROVE  Coarse(p, y)'
<1> USE Sizes
<1>0. /\ edge /\ ~edge' /\ SUM' \in Sums /\ (rGO_F' <=> GO_F)
      /\ UNCHANGED <<AUTO_FOC, V_C, STEP_i, VCM_END, GO_F, seen>>
  BY DEF Measure, sweepVars, lensVars
<1>1. /\ \A i \in 0 .. LAG : seen[i] \in 0 .. UP_SIZE - 1
      /\ SUM \in Nat /\ peakSUM \in Nat /\ STEP_i \in Nat
      /\ \A q \in 0 .. UP_SIZE - 1 : scene[q] \in Nat
      /\ p >= Blur + 1 /\ p + 3 + Blur <= STEP_LAST
      /\ p - Blur + 3 * LAG <= y /\ y <= p + Blur
  BY Known
<1>2. /\ ~VCM_END /\ ~GO_F /\ ~rGO_F
      /\ STEP_i \in 0 .. STEP_LAST + 3 /\ STEP_i % 3 = 0
      /\ \A i \in 0 .. LAG :
           (seen[i] + 3 <= STEP_i \/ seen[i] = 0) /\ STEP_i <= seen[i] + 3 * (i + 1)
      /\ CoarsePeak
      /\ STEP_i > y + 6 => PeakFound(p)
  BY <1>0 DEF Coarse, SCAL
<1>3. PICK a \in 0 .. UP_SIZE - 1, b \in 0 .. UP_SIZE - 1 :
        /\ Window(a, STEP_i - 3) /\ Window(b, STEP_i - 3)
        /\ scene[a] <= SUM /\ SUM <= scene[b]
  BY <1>0 DEF Coarse, CoarseSum, SCAL
<1>4. /\ ~NewPeak => peakSUM' = peakSUM /\ STEP_UP' = STEP_UP
      /\ NewPeak => peakSUM' = SUM /\ STEP_UP' = STEP_i
      /\ NewPeak <=> peakSUM < SUM
  <2>1. ~ClearsPeak /\ (NewPeak <=> peakSUM < SUM)
    BY <1>2 DEF ClearsPeak, NewPeak
  <2>2. STEP = STEP_i
    <3>1. STEP_i % UP_SIZE = STEP_i
      BY <1>2, Remainder
    <3> QED
      BY <3>1 DEF STEP
  <2> QED
    BY <2>1, <2>2 DEF Measure
<1>5. CoarseSum'
  <2>1. PICK v \in Passed, w \in Passed : scene[v] <= SUM' /\ SUM' <= scene[w]
    BY <1>0, SumBounds
  <2>2. ASSUME NEW q \in Passed PROVE q \in 0 .. UP_SIZE - 1 /\ Window(q, STEP_i)
    <3>1. PICK i \in 0 .. LAG, j \in 0 .. LAG : seen[i] <= q /\ q <= seen[j]
      BY PassedBounds
    <3>2. q \in 0 .. UP_SIZE - 1
      BY PassedBounds
    <3>3. PICK si \in 0 .. UP_SIZE - 1, sj \in 0 .. UP_SIZE - 1 : si = seen[i] /\ sj = seen[j]
      BY <1>1
    <3>4. STEP_i <= si + 3 * (i + 1) /\ 3 * (i + 1) <= 3 + 3 * LAG
      BY <1>2, <3>3
    <3>5. sj + 3 <= STEP_i \/ sj = 0
      BY <1>2, <3>3
    <3> QED
      BY <1>1, <3>1, <3>2, <3>3, <3>4, <3>5 DEF Window, SCAL
  <2>3. /\ v \in 0 .. UP_SIZE - 1 /\ w \in 0 .. UP_SIZE - 1
        /\ Window(v, STEP_i) /\ Window(w, STEP_i)
    BY <2>2
  <2>4. Window(v, STEP_i)' /\ Window(w, STEP_i)'
    BY <1>0, <2>3 DEF Window
  <2> QED
    BY <1>0, <2>1, <2>3, <2>4 DEF CoarseSum
<1>6. CoarsePeak'
  <2>1. CASE NewPeak
    <3>1. peakSUM' = SUM /\ STEP_UP' = STEP_i
      BY <1>4, <2>1
    <3>2. Window(b, STEP_UP - 3)'
      BY <1>3, <3>1 DEF Window
    <3>3. STEP_UP' <= STEP_LAST + 3
      BY <1>2, <3>1
    <3> QED
      BY <1>3, <3>1, <3>2, <3>3 DEF CoarsePeak, SCAL
  <2>2. CASE ~NewPeak
    BY <1>2, <1>4, <2>2 DEF CoarsePeak, Window
  <2> QED
    BY <2>1, <2>2
<1>7. ASSUME STEP_i >= y + 6 PROVE PeakFound(p)'
  <2>1. peakSUM' \in Nat /\ peakSUM <= peakSUM' /\ SUM <= peakSUM'
    BY <1>1, <1>4
  <2>2. CASE STEP_i > y + 6
    <3>1. PICK q \in 0 .. UP_SIZE - 1 : p - Blur <= q /\ q <= p + Blur /\ scene[q] <= peakSUM
      BY <1>2, <2>2 DEF PeakFound
    <3>2. scene[q] <= peakSUM'
      BY <1>1, <2>1, <3>1
    <3> QED
      BY <3>1, <3>2 DEF PeakFound
  <2>3. CASE STEP_i = y + 6
    <3>1. (a + 3 <= y + 3 \/ a = 0) /\ y + 3 <= a + 3 + 3 * LAG
      BY <1>1, <1>3, <2>3 DEF Window, SCAL
    <3>2. p - Blur <= a /\ a <= p + Blur
      BY <1>1, <3>1
    <3>3. scene[a] <= peakSUM'
      BY <1>1, <1>3, <2>1
    <3> QED
      BY <3>2, <3>3 DEF PeakFound
  <2> QED
    BY <1>1, <1>7, <2>2, <2>3
<1> QED
  BY <1>0, <1>1, <1>2, <1>5, <1>6, <1>7 DEF Coarse, SCAL

\* A frame ends in the fine sweep, which is set up, goes on or is over.
LEMMA FrameFine ==
  ASSUME Types, IInv, driven, NEW p \in Nat, NEW y \in Nat, NEW u \in Nat,
         Target(scene, p, y, u), Fine(p, u), FrameEnds, V_C
  PROVE  AUTO_FOC' /\ V_C' /\ Fine(p, u)'
<1> USE Sizes
<1>0. /\ ~edge /\ edge' /\ LensMoves
      /\ UNCHANGED <<AUTO_FOC, rGO_F, SUM, peakSUM, STEP_UP, scene>>
  BY DEF FrameEnds, measureVars, historyVars
<1>1. /\ \A i \in 0 .. LAG : seen[i] \in 0 .. UP_SIZE - 1
      /\ STEP_f \in Nat /\ STEP_UP \in 0 .. UP_SIZE - 1
      /\ VCM_END \in BOOLEAN /\ GO_F \in BOOLEAN /\ rGO_F \in BOOLEAN
      /\ p >= Blur + 1 /\ p + 1 <= u /\ u <= STEP_LAST + 3
  BY Known
<1>2. AUTO_FOC /\ AUTO_FOC' /\ V_C' /\ GO_F'
  <2>1. AUTO_FOC /\ AUTO_FOC'
    BY <1>0 DEF Fine
  <2>2. V_C'
    BY <2>1 DEF FrameEnds, CoarseSweep
  <2>3. GO_F'
    BY DEF FrameEnds, FineSweep
  <2> QED
    BY <2>1, <2>2, <2>3
<1>3. IF STEP_f > STEP_UP + 1 THEN VCM_END' /\ STEP_f' = STEP_f
      ELSE STEP_f' = (STEP_f + 1) % STEP_SIZE /\ VCM_END' = VCM_END
  BY DEF FrameEnds, FineSweep, FineOver
<1>4. STEP_f + 1 \in 0 .. STEP_SIZE - 1 => (STEP_f + 1) % STEP_SIZE = STEP_f + 1
  BY <1>1, Remainder
<1>5. ~VCM_END /\ STEP_f \in 0 .. UP_SIZE - 1 => seen'[0] = STEP_f
  <2>1. STEP_f \in 0 .. UP_SIZE - 1 => STEP_f % UP_SIZE = STEP_f
    BY Remainder
  <2> QED
    BY <1>0, <2>1, FrameSeen DEF END_STEP, STEP
<1>6. CASE ~GO_F
  <2>1. /\ ~rGO_F /\ ~VCM_END /\ STEP_UP \in {STEP_f, STEP_f + 1}
        /\ STEP_f \in FirstFine(p) .. u - 1
    BY <1>0, <1>6 DEF Fine
  <2>2. FirstFine(p) \in Nat
    BY <1>1 DEF FirstFine
  <2>3. /\ STEP_f' = STEP_f + 1 /\ ~VCM_END' /\ seen'[0] = STEP_f
        /\ STEP_f >= FirstFine(p) /\ STEP_f <= u - 1
    BY <1>1, <1>3, <1>4, <1>5, <2>1, <2>2
  <2>4. PICK f \in Nat : f = STEP_f /\ STEP_f' = f + 1 /\ seen'[0] = f
    BY <1>1, <2>3
  <2>5. FineFades(u)'
    <3>1. \A i \in 0 .. LAG : f + 1 >= u + i => i = 0 /\ seen'[i] = (f + 1) - 1 - i
      BY <1>1, <2>3, <2>4
    <3>2. ~(f >= u + LAG) /\ ~(f >= u + LAG + 1)
      BY <1>1, <2>3, <2>4
    <3>3. f + 1 - SCAL_f = f
      BY <2>4
    <3> QED
      BY <1>0, <2>4, <3>1, <3>2, <3>3 DEF FineFades
  <2>6. /\ STEP_UP' \in FirstFine(p) .. u + 2 * LAG + 1 /\ STEP_f' \in STEP_UP' .. STEP_UP' + 2
        /\ STEP_f' <= u /\ STEP_f' <= STEP_UP' + 1
    BY <1>0, <1>1, <2>1, <2>2, <2>3, <2>4
  <2> QED
    BY <1>0, <1>2, <2>3, <2>5, <2>6 DEF Fine, FirstFine
<1>7. CASE GO_F
  <2>1. /\ rGO_F /\ STEP_UP \in FirstFine(p) .. u + 2 * LAG + 1
        /\ STEP_f \in STEP_UP .. STEP_UP + 2
        /\ ~VCM_END => FineFades(u)
    BY <1>0, <1>7 DEF Fine
  <2>2. CASE STEP_f > STEP_UP + 1
    <3>1. VCM_END' /\ STEP_f' = STEP_f
      BY <1>3, <2>2
    <3> QED
      BY <1>0, <1>2, <2>1, <3>1 DEF Fine, FirstFine
  <2>3. CASE ~(STEP_f > STEP_UP + 1)
    <3>1. PICK f \in Nat : f = STEP_f
      BY <1>1
    <3>2. STEP_f' = f + 1 /\ f \in 0 .. UP_SIZE - 1 /\ VCM_END' = VCM_END
      BY <1>1, <1>3, <1>4, <2>1, <2>3, <3>1
    <3>3. STEP_f' \in STEP_UP' .. STEP_UP' + 2
      BY <1>0, <1>1, <2>1, <2>3, <3>1, <3>2
    <3>4. ASSUME ~VCM_END PROVE FineFades(u)'
      <4>1. seen'[0] = f /\ FineFades(u)
        BY <1>5, <2>1, <3>1, <3>2, <3>4
      <4>2. /\ \A i \in 0 .. LAG : f >= u + i => seen[i] = f - 1 - i
            /\ f >= u + LAG => scene[f - 1] <= SUM /\ SUM <= scene[f - 1 - LAG]
            /\ f >= u + LAG + 1 => scene[u + LAG - 1] <= peakSUM
        BY <1>0, <3>1, <4>1 DEF FineFades
      <4>3. ASSUME NEW i \in 0 .. LAG, f + 1 >= u + i PROVE seen'[i] = f + 1 - 1 - i
        <5>1. CASE i = 0
          BY <4>1, <5>1
        <5>2. CASE i > 0
          <6>1. i - 1 \in 0 .. LAG /\ seen'[i] = seen[i - 1]
            BY <1>0, <5>2, FrameSeen
          <6>2. seen[i - 1] = f - 1 - (i - 1)
            BY <1>1, <4>2, <4>3, <6>1
          <6> QED
            BY <1>1, <6>1, <6>2
        <5> QED
          BY <5>1, <5>2
      <4>4. f + 1 - SCAL_f = f
        BY <3>1
      <4> QED
        BY <1>0, <3>2, <4>2, <4>3, <4>4 DEF FineFades
    <3> QED
      BY <1>0, <1>2, <2>1, <3>2, <3>3, <3>4 DEF Fine, FirstFine
  <2> QED
    BY <2>2, <2>3
<1> QED
  BY <1>1, <1>2, <1>6, <1>7

\* Once the fine sweep is past u, the frame taken shows no more than the one
\* before, however it mixes what the lens passed.
LEMMA FadesOn ==
  ASSUME Types, IInv, NEW p \in Nat, NEW y \in Nat, NEW u \in Nat,
         Target(scene, p, y, u), NEW f \in Nat, NEW n \in Sums,
         f >= u + LAG, \A i \in 0 .. LAG : seen[i] = f - 1 - i
  PROVE  /\ f - 1 \in 0 .. UP_SIZE - 1 /\ f - 1 - LAG \in 0 .. UP_SIZE - 1
         /\ scene[f - 1] <= n /\ n <= scene[f - 1 - LAG]
<1> USE Sizes
<1>1. /\ \A q \in 0 .. UP_SIZE - 1 : scene[q] \in Nat
      /\ p + 1 <= u /\ u <= STEP_LAST + 3
      /\ \A i \in 0 .. LAG : seen[i] \in 0 .. UP_SIZE - 1
  BY Known
<1>2. /\ f - 1 \in 0 .. UP_SIZE - 1 /\ f - 1 - LAG \in 0 .. UP_SIZE - 1
      /\ p <= f - 1 - LAG
  <2>1. seen[0] = f - 1 /\ seen[0] \in 0 .. UP_SIZE - 1
    BY <1>1
  <2> QED
    BY <1>1, <2>1
<1>3. PICK a \in Passed, b \in Passed : scene[a] <= n /\ n <= scene[b]
  BY SumBounds
<1>4. ASSUME NEW q \in Passed PROVE q \in f - 1 - LAG .. f - 1 /\ q \in 0 .. UP_SIZE - 1
  <2>1. PICK i \in 0 .. LAG, j \in 0 .. LAG : seen[i] <= q /\ q <= seen[j]
    BY PassedBounds
  <2>2. q \in 0 .. UP_SIZE - 1
    BY PassedBounds
  <2> QED
    BY <2>1, <2>2
<1>5. \A x, z \in 0 .. UP_SIZE - 1 : p <= x /\ x <= z => scene[z] <= scene[x]
  BY DEF Target
<1>6. scene[f - 1] <= scene[a] /\ scene[b] <= scene[f - 1 - LAG]
  BY <1>2, <1>4, <1>5
<1>7. n \in Nat
  BY SumBounds
<1> QED
  BY <1>1, <1>2, <1>3, <1>4, <1>6, <1>7

\* The fine sweep compares the frame before; past u none is sharper.
LEMMA MeasureFine ==
  ASSUME Types, IInv, NEW p \in Nat, NEW y \in Nat, NEW u \in Nat,
         Target(scene, p, y, u), Fine(p, u), Measure, scene' = scene, V_C
  PROVE  AUTO_FOC' /\ V_C' /\ Fine(p, u)'
<1> USE Sizes
<1>0. /\ edge /\ ~edge' /\ SUM' \in Sums /\ (rGO_F' <=> GO_F)
      /\ UNCHANGED <<AUTO_FOC, V_C, STEP_i, STEP_f, VCM_END, GO_F, seen>>
  BY DEF Measure, sweepVars, lensVars
<1>1. /\ \A i \in 0 .. LAG : seen[i] \in 0 .. UP_SIZE - 1
      /\ SUM \in Nat /\ peakSUM \in Nat
      /\ STEP_f \in Nat /\ STEP_UP \in 0 .. UP_SIZE - 1
      /\ \A q \in 0 .. UP_SIZE - 1 : scene[q] \in Nat
      /\ VCM_END \in BOOLEAN /\ GO_F \in BOOLEAN /\ rGO_F \in BOOLEAN
      /\ p >= Blur + 1 /\ p + 1 <= u /\ u <= STEP_LAST + 3
  BY Known
<1>2. AUTO_FOC /\ AUTO_FOC' /\ V_C'
  BY <1>0 DEF Fine
<1>3. /\ ClearsPeak => peakSUM' = 0 /\ STEP_UP' = STEP_UP
      /\ ~ClearsPeak /\ NewPeak => peakSUM' = SUM /\ STEP_UP' = STEP
      /\ ~ClearsPeak /\ ~NewPeak => peakSUM' = peakSUM /\ STEP_UP' = STEP_UP
  BY Zenon DEF Measure
<1>4. STEP_f \in 0 .. UP_SIZE - 1 => STEP = STEP_f
  <2>1. STEP_f \in 0 .. UP_SIZE - 1 => STEP_f % UP_SIZE = STEP_f
    BY Remainder
  <2> QED
    BY <2>1 DEF STEP
<1>5. FirstFine(p) \in Nat
  BY <1>1 DEF FirstFine
<1>6. CASE ~GO_F
  <2>1. /\ ~rGO_F /\ ~VCM_END /\ STEP_f = STEP_UP - 1 /\ STEP_f \in FirstFine(p) .. u - 1
    BY <1>0, <1>6 DEF Fine
  <2>2. ~ClearsPeak /\ STEP = STEP_f
    BY <1>1, <1>2, <1>4, <1>6, <2>1 DEF ClearsPeak
  <2>3. STEP_UP' \in {STEP_f, STEP_f + 1}
    BY <1>1, <1>3, <2>1, <2>2
  <2> QED
    BY <1>0, <1>2, <1>6, <2>1, <2>3 DEF Fine, FirstFine
<1>7. CASE GO_F
  <2>1. /\ STEP_UP \in FirstFine(p) .. u + 2 * LAG + 1 /\ STEP_f \in STEP_UP .. STEP_UP + 2
        /\ ~rGO_F => ~VCM_END /\ STEP_f <= u /\ STEP_f <= STEP_UP + 1
        /\ ~VCM_END => FineFades(u)
    BY <1>0, <1>7 DEF Fine
  <2>2. PICK f \in Nat : f = STEP_f
    BY <1>1
  <2>3. f \in 0 .. UP_SIZE - 1 /\ STEP = f
    BY <1>1, <1>4, <2>1, <2>2
  <2>4. CASE VCM_END
    <3>1. STEP_UP' = STEP_UP
      BY <1>3, <2>4 DEF NewPeak
    <3> QED
      BY <1>0, <1>2, <1>7, <2>1, <2>4, <3>1 DEF Fine, FirstFine
  <2>5. CASE ~VCM_END
    <3>1. /\ \A i \in 0 .. LAG : f >= u + i => seen[i] = f - 1 - i
          /\ f - 1 >= u + LAG => scene[f - 1 - 1] <= SUM /\ SUM <= scene[f - 1 - 1 - LAG]
          /\ f - 1 >= u + LAG + 1 => scene[u + LAG - 1] <= peakSUM
      BY <1>0, <2>1, <2>2, <2>5 DEF FineFades, SCAL_f
    <3>2. f >= u + LAG =>
            /\ f - 1 \in 0 .. UP_SIZE - 1 /\ f - 1 - LAG \in 0 .. UP_SIZE - 1
            /\ scene[f - 1] <= SUM' /\ SUM' <= scene[f - 1 - LAG]
      <4> SUFFICES ASSUME f >= u + LAG
                   PROVE  /\ f - 1 \in 0 .. UP_SIZE - 1 /\ f - 1 - LAG \in 0 .. UP_SIZE - 1
                          /\ scene[f - 1] <= SUM' /\ SUM' <= scene[f - 1 - LAG]
        OBVIOUS
      <4>1. \A i \in 0 .. LAG : seen[i] = f - 1 - i
        BY <1>1, <3>1
      <4> QED
        BY <1>0, <4>1, FadesOn
    <3>3. \A a, b \in 0 .. UP_SIZE - 1 : p <= a /\ a <= b => scene[b] <= scene[a]
      BY DEF Target
    <3>4. f >= u + LAG + 1 => ~ClearsPeak
      BY <1>1, <1>2, <2>1, <2>2 DEF ClearsPeak
    <3>5. f >= u + LAG + 1 => scene[u + LAG - 1] <= peakSUM'
      <4> SUFFICES ASSUME f >= u + LAG + 1 PROVE scene[u + LAG - 1] <= peakSUM'
        OBVIOUS
      <4>1. u + LAG - 1 \in 0 .. UP_SIZE - 1 /\ scene[u + LAG - 1] \in Nat
        BY <1>1, <2>3
      <4>2. peakSUM' \in Nat /\ SUM <= peakSUM' /\ peakSUM <= peakSUM'
        BY <1>1, <1>3, <2>5, <3>4 DEF NewPeak
      <4>3. CASE f - 1 = u + LAG
        <5>1. scene[f - 1 - 1] <= SUM /\ f - 1 - 1 = u + LAG - 1
          BY <1>1, <3>1, <4>3
        <5> QED
          BY <1>1, <4>1, <4>2, <5>1
      <4>4. CASE f - 1 >= u + LAG + 1
        BY <1>1, <3>1, <4>1, <4>2, <4>4
      <4> QED
        BY <1>1, <4>3, <4>4
    <3>6. f >= u + 2 * LAG + 2 => ~NewPeak
      <4> SUFFICES ASSUME f >= u + 2 * LAG + 2 PROVE ~NewPeak
        OBVIOUS
      <4>1. /\ SUM <= scene[f - 1 - 1 - LAG] /\ scene[u + LAG - 1] <= peakSUM
            /\ u + LAG - 1 \in 0 .. UP_SIZE - 1 /\ f - 1 - 1 - LAG \in 0 .. UP_SIZE - 1
            /\ p <= u + LAG - 1 /\ u + LAG - 1 <= f - 1 - 1 - LAG
        BY <1>1, <2>3, <3>1
      <4>2. scene[f - 1 - 1 - LAG] <= scene[u + LAG - 1]
        BY <3>3, <4>1
      <4>3. scene[f - 1 - 1 - LAG] \in Nat /\ scene[u + LAG - 1] \in Nat
        BY <1>1, <4>1
      <4> QED
        BY <1>1, <4>1, <4>2, <4>3 DEF NewPeak
    <3>7. /\ STEP_UP' \in {STEP_UP, f}
          /\ f >= u + 2 * LAG + 2 => STEP_UP' = STEP_UP
      <4>1. f >= u + 2 * LAG + 2 => f >= u + LAG + 1
        BY <1>1
      <4> QED
        BY <1>3, <2>3, <3>4, <3>6, <4>1
    <3>8. STEP_UP' \in FirstFine(p) .. u + 2 * LAG + 1 /\ STEP_f' \in STEP_UP' .. STEP_UP' + 2
      <4>1. CASE STEP_UP' = STEP_UP
        BY <1>0, <2>1, <4>1
      <4>2. CASE STEP_UP' # STEP_UP
        <5>1. STEP_UP' = f /\ f <= u + 2 * LAG + 1
          BY <1>1, <3>7, <4>2
        <5> QED
          BY <1>0, <1>1, <1>5, <2>1, <2>2, <5>1
      <4> QED
        BY <4>1, <4>2
    <3>9. FineFades(u)'
      BY <1>0, <2>2, <3>1, <3>2, <3>5 DEF FineFades
    <3> QED
      BY <1>0, <1>2, <1>7, <3>8, <3>9 DEF Fine, FirstFine
  <2> QED
    BY <1>1, <2>4, <2>5
<1> QED
  BY <1>1, <1>6, <1>7

\* The key is let go, after all that is left of the old focus has faded.
LEMMA KeyTracks ==
  ASSUME Types, IInv, led, NEW p \in Nat, NEW y \in Nat, NEW u \in Nat,
         Target(scene, p, y, u), Tracks(p, y, u), FocusOn
  PROVE  Tracks(p, y, u)'
<1> USE Sizes
<1>1. /\ ~AUTO_FOC /\ AUTO_FOC' /\ age = LAG + 2
      /\ UNCHANGED <<V_C, STEP_i, STEP_f, VCM_END, GO_F, rGO_F, SUM, peakSUM, STEP_UP,
                     edge, scene, seen, age>>
  BY FocusAssumption DEF FocusOn, IInv, sweepVars, measureVars, lensVars, historyVars
<1>2. /\ ~V_C /\ ~VCM_END /\ ~GO_F /\ STEP_i = 0 /\ ~rGO_F /\ peakSUM = 0
      /\ \A i \in 0 .. LAG : seen[i] = 0
      /\ SUM = scene[0]
  BY <1>1 DEF Tracks, Off
<1>3. 0 \in 0 .. UP_SIZE - 1 /\ 0 % 3 = 0 /\ scene[0] \in Nat /\ edge \in BOOLEAN
  <2>1. 0 % 3 = 0
    BY Z3
  <2> QED
    BY <2>1, Known
<1>4. CoarseSum'
  <2>1. Window(0, STEP_i - 3)' /\ Window(0, STEP_i)'
    BY <1>1, <1>2 DEF Window, SCAL
  <2>2. scene'[0] <= SUM' /\ SUM' <= scene'[0]
    BY <1>1, <1>2, <1>3
  <2> QED
    BY <1>1, <1>3, <2>1, <2>2 DEF CoarseSum, SCAL
<1>5. CoarsePeak'
  BY <1>1, <1>2 DEF CoarsePeak
<1>6. Coarse(p, y)'
  <2>1. ~(0 >= y + 6)
    OBVIOUS
  <2>2. \A i \in 0 .. LAG :
          (seen'[i] + 3 <= STEP_i' \/ seen'[i] = 0) /\ STEP_i' <= seen'[i] + 3 * (i + 1)
    BY <1>1, <1>2
  <2>3. STEP_i' \in 0 .. STEP_LAST + 3 /\ STEP_i' % 3 = 0
    BY <1>1, <1>2, <1>3
  <2> QED
    BY <1>1, <1>2, <1>4, <1>5, <2>1, <2>2, <2>3 DEF Coarse, SCAL
<1> QED
  BY <1>1, <1>2, <1>6 DEF Tracks, Off, Fine

\* Every step keeps NearInv: a still scene stays the same scene, and a sweep
\* that the lens follows begins with the key.
LEMMA NearInvKept ==
  ASSUME NearInv, IInv, [Next]_vars
  PROVE  NearInv'
<1>1. Types /\ Types'
  BY TypesKept DEF NearInv
<1>2. led' => driven'
  <2>1. led => driven
    BY DEF NearInv
  <2>2. led \in BOOLEAN /\ driven \in BOOLEAN /\ led' \in BOOLEAN
    BY <1>1 DEF Types
  <2> QED
    BY <2>1, <2>2
       DEF Next, FrameEnds, Measure, DriverStarts, FocusOff, Released, FocusOn, vars,
           lensVars, historyVars
<1>3. ASSUME led', scene' \notin Moving, NEW p \in Nat, NEW y \in Nat, NEW u \in Nat,
             Target(scene', p, y, u)
      PROVE  Tracks(p, y, u)'
  <2>1. CASE FocusOff
    <3>1. ~AUTO_FOC' /\ ~V_C' /\ ~VCM_END' /\ ~GO_F' /\ STEP_i' = 0 /\ age' = 0
      BY <2>1 DEF FocusOff, SweepReset
    <3>2. age' # AGED /\ \A i \in 0 .. LAG : ~((edge' /\ i < age') \/ i + 1 < age')
      BY <3>1, Sizes
    <3> QED
      BY <3>1, <3>2 DEF Tracks, Off, Coarse, Fine
  <2>2. CASE ~FocusOff
    <3>1. led /\ scene' = scene /\ scene \notin Moving /\ ~Released /\ ~DriverStarts
      <4>1. led' = led \/ Released
        BY <2>2 DEF Next, FrameEnds, Measure, DriverStarts, FocusOn, vars, historyVars
      <4>2. Released => ~led'
        BY DEF Released
      <4>3. scene' = scene /\ scene \notin Moving
        BY <1>3, <2>2 DEF Next, FrameEnds, Measure, DriverStarts, FocusOn, Released, SweepReset,
                          vars, historyVars
      <4>4. led => ~DriverStarts
        BY DEF NearInv, DriverStarts
      <4>5. led \in BOOLEAN /\ led' \in BOOLEAN
        BY <1>1 DEF Types
      <4> QED
        BY <1>3, <4>1, <4>2, <4>3, <4>4, <4>5
    <3>2. Target(scene, p, y, u) /\ driven
      BY <1>3, <3>1 DEF NearInv
    <3>3. Tracks(p, y, u)
      BY <3>1, <3>2 DEF NearInv
    <3>4. AUTO_FOC \in BOOLEAN /\ V_C \in BOOLEAN /\ (V_C => AUTO_FOC)
      BY <1>1, <3>3 DEF Types, Tracks, Fine
    <3>5. CASE UNCHANGED vars
      BY <3>3, <3>5
         DEF vars, sweepVars, measureVars, lensVars, historyVars, Tracks, Off, Coarse, CoarseSum,
             CoarsePeak, PeakFound, Window, Fine, FineFades
    <3>6. CASE FrameEnds
      <4>1. AUTO_FOC' = AUTO_FOC /\ Off /\ Coarse(p, y) /\ Fine(p, u)
        BY <3>3, <3>6 DEF FrameEnds, Tracks
      <4>2. Off'
        BY <1>1, <3>2, <3>6, <4>1, FrameOff
      <4>3. CASE AUTO_FOC /\ ~V_C
        BY <1>1, <3>2, <3>6, <4>1, <4>2, <4>3, FrameCoarse DEF Tracks
      <4>4. CASE V_C
        <5>1. AUTO_FOC' /\ V_C' /\ Fine(p, u)'
          BY <1>1, <3>2, <3>6, <4>1, <4>4, FrameFine
        <5> QED
          BY <4>2, <5>1 DEF Tracks, Coarse
      <4>5. CASE ~AUTO_FOC
        <5>1. ~AUTO_FOC' /\ ~V_C'
          BY <4>1, <4>2, <4>5 DEF Off
        <5> QED
          BY <4>2, <5>1 DEF Tracks, Coarse, Fine
      <4> QED
        BY <3>4, <4>3, <4>4, <4>5
    <3>7. CASE Measure
      <4>1. UNCHANGED <<AUTO_FOC, V_C>> /\ Off /\ Coarse(p, y) /\ Fine(p, u)
        BY <3>3, <3>7 DEF Measure, sweepVars, Tracks
      <4>2. Off'
        BY <1>1, <3>1, <3>7, <4>1, MeasureOff
      <4>3. CASE AUTO_FOC /\ ~V_C
        <5>1. Coarse(p, y)'
          BY <1>1, <3>1, <3>2, <3>7, <4>1, <4>3, MeasureCoarse
        <5> QED
          BY <4>1, <4>2, <4>3, <5>1 DEF Tracks, Fine
      <4>4. CASE V_C
        <5>1. AUTO_FOC' /\ V_C' /\ Fine(p, u)'
          BY <1>1, <3>1, <3>2, <3>7, <4>1, <4>4, MeasureFine
        <5> QED
          BY <4>2, <5>1 DEF Tracks, Coarse
      <4>5. CASE ~AUTO_FOC
        <5>1. ~AUTO_FOC' /\ ~V_C'
          BY <3>4, <4>1, <4>5
        <5> QED
          BY <4>2, <5>1 DEF Tracks, Coarse, Fine
      <4> QED
        BY <3>4, <4>3, <4>4, <4>5
    <3>8. CASE FocusOn
      BY <1>1, <3>1, <3>2, <3>3, <3>8, KeyTracks
    <3> QED
      BY <2>2, <3>1, <3>5, <3>6, <3>7, <3>8 DEF Next
  <2> QED
    BY <2>1, <2>2
<1> QED
  BY <1>1, <1>2, <1>3 DEF NearInv

\* Before the key is pressed for the first time nothing is claimed.
LEMMA NearInvInitially == Init => NearInv
<1> SUFFICES ASSUME Init PROVE NearInv
  OBVIOUS
<1>1. /\ AUTO_FOC = FALSE /\ V_C = FALSE /\ STEP_i = 0 /\ STEP_f = 0 /\ VCM_END = FALSE
      /\ GO_F = FALSE /\ rGO_F = FALSE /\ SUM = 0 /\ peakSUM = 0 /\ STEP_UP = 0
      /\ edge = FALSE /\ scene \in Scenes /\ driven = FALSE /\ led = FALSE
      /\ seen = [i \in 0 .. LAG |-> 0]
  BY DEF Init
<1>2. 0 \in Nat /\ 0 \in 0 .. UP_SIZE - 1 /\ 0 \in 0 .. SUM_MAX
  BY Sizes
<1>3. seen \in [0 .. LAG -> 0 .. UP_SIZE - 1]
  BY <1>1, <1>2
<1> QED
  BY <1>1, <1>2, <1>3, Zenon DEF NearInv, Types

\* Where the fine sweep goes, and how far past the sharpest step it stops.
LEMMA NearThePeak ==
  ASSUME NearInv, IInv
  PROVE  FocusNearPeak
<1> SUFFICES ASSUME V_C \/ VCM_END, led, scene \notin Moving
             PROVE  /\ V_C => END_STEP \in STEP_UP - 2 .. STEP_UP + 2
                    /\ VCM_END =>
                         /\ STEP_UP >= Sharpest + 6 - 1 - Blur
                         /\ STEP_UP <= Sharpest + 6 + 1 + (3 + 2) * LAG + Blur
  BY DEF FocusNearPeak, FineStaysNear, FocusOvershoots, SCAL, SCAL_f
<1> USE Sizes
<1>0. Types
  BY DEF NearInv
<1>1. PICK p \in Nat, y \in Nat, u \in Nat : Target(scene, p, y, u)
  BY <1>0, TargetExists DEF Types
<1>2. Tracks(p, y, u)
  BY <1>1 DEF NearInv
<1>3. /\ \A q \in 0 .. UP_SIZE - 1 : scene[q] \in Nat
      /\ STEP_f \in Nat /\ STEP_UP \in 0 .. UP_SIZE - 1
      /\ AUTO_FOC \in BOOLEAN /\ V_C \in BOOLEAN /\ VCM_END \in BOOLEAN
      /\ edge \in BOOLEAN /\ GO_F \in BOOLEAN
      /\ p >= Blur + 1 /\ p + 3 + Blur <= STEP_LAST
      /\ p + 1 <= u /\ u <= STEP_LAST + 3 /\ u <= p + 6 + 3 * LAG + Blur
  BY <1>0, <1>1, Known
<1>4. Sharpest = p
  <2>1. p \in 0 .. UP_SIZE - 1 /\ DOMAIN scene = 0 .. UP_SIZE - 1
    BY <1>0, <1>3, FocusAssumption DEF Types
  <2>2. \A q \in 0 .. UP_SIZE - 1 : q # p => scene[q] < scene[p]
    BY <1>1 DEF Target
  <2>3. \A q \in DOMAIN scene : scene[q] <= scene[p]
    BY <1>3, <2>1, <2>2
  <2>4. ASSUME NEW r \in DOMAIN scene, \A q \in DOMAIN scene : scene[q] <= scene[r]
        PROVE  r = p
    <3>1. scene[p] <= scene[r] /\ scene[r] \in Nat /\ scene[p] \in Nat
      BY <1>3, <2>1, <2>4
    <3>2. r # p => scene[r] < scene[p]
      BY <2>1, <2>2
    <3> QED
      BY <3>1, <3>2
  <2> QED
    BY <2>1, <2>3, <2>4, Zenon DEF Sharpest
<1>5. V_C
  BY <1>2, <1>3 DEF Tracks, Off, Coarse
<1>6. FirstFine(p) = p + 5 - Blur /\ p + 5 - Blur \in Nat
  BY <1>3 DEF FirstFine
<1>7. \/ /\ ~VCM_END /\ STEP_UP \in {STEP_f, STEP_f + 1} /\ STEP_f \in p + 5 - Blur .. u - 1
      \/ /\ STEP_UP \in p + 5 - Blur .. u + 2 * LAG + 1 /\ STEP_f \in STEP_UP .. STEP_UP + 2
  <2>1. CASE GO_F
    BY <1>2, <1>5, <1>6, <2>1 DEF Tracks, Fine
  <2>2. CASE ~GO_F
    <3>1. /\ ~VCM_END /\ STEP_f \in p + 5 - Blur .. u - 1
          /\ STEP_f = STEP_UP - 1 \/ STEP_UP \in {STEP_f, STEP_f + 1}
      BY <1>2, <1>5, <1>6, <2>2 DEF Tracks, Fine, SCAL_f
    <3> QED
      BY <1>3, <3>1
  <2> QED
    BY <1>3, <2>1, <2>2
<1>8. END_STEP = IF VCM_END THEN STEP_UP ELSE STEP_f
  <2>1. STEP_f \in 0 .. UP_SIZE - 1
    BY <1>3, <1>6, <1>7
  <2>2. STEP_f % UP_SIZE = STEP_f
    BY <2>1, Remainder
  <2> QED
    BY <1>5, <2>2 DEF END_STEP, STEP
<1>9. END_STEP \in STEP_UP - 2 .. STEP_UP + 2
  BY <1>3, <1>7, <1>8
<1>10. VCM_END => STEP_UP >= p + 5 - Blur /\ STEP_UP <= p + 7 + 5 * LAG + Blur
  BY <1>3, <1>6, <1>7
<1> QED
  BY <1>3, <1>4, <1>9, <1>10

\* On a scene that stands still, and from the first press of the key after the
\* lens driver has started, the fine sweep stays around the step remembered and
\* the lens stops two coarse steps past the sharpest one, give or take what the
\* frames shown are behind: for every number of frames that they may be behind,
\* every mixture of what the lens passed in that time, every lens, every
\* sharpness that falls with the distance, and every time of the key
\* (VCM_CTRL_P.v:60-66, F_VCM.v:41-62).
THEOREM LensStopsNearPeak == Spec => []FocusNearPeak
<1>1. NearInv /\ IInv /\ [Next]_vars => NearInv'
  BY NearInvKept
<1>2. NearInv /\ IInv => FocusNearPeak
  BY NearThePeak
<1> QED
  BY <1>1, <1>2, NearInvInitially, Initially, Preserved, PTL DEF Spec

-----------------------------------------------------------------------------
(* The polarity of the sync.                                                *)

\* How late the display may start after the first pulse is counted.
Lag == RST2_AT - READY_AT

\* Until the relay lets the display go, the pulses are counted with it.
StartDelay ==
    /\ Cont \in 0 .. CONT_MAX /\ at \in 0 .. FRAME - 1
    /\ PULSE \in Nat /\ CNT \in Nat /\ NUM_H \in Nat /\ NUM_L \in Nat
    /\ oREADY \in BOOLEAN /\ oRST_2 \in BOOLEAN /\ I2C_RELEASE \in BOOLEAN
    /\ rS \in BOOLEAN /\ MS \in BOOLEAN
    /\ ~oREADY => ~oRST_2 /\ ~I2C_RELEASE /\ PULSE = 0
    /\ ~oRST_2 => /\ at = 0 /\ Cont <= RST2_AT
                  /\ oREADY => READY_AT < Cont /\ PULSE < Cont - READY_AT

InSync == at > FIRST /\ at <= FIRST + LOW

\* How long the sync has had its level.
Since == IF at <= FIRST THEN (at + FRAME) - (FIRST + LOW + 1)
         ELSE IF at <= FIRST + LOW THEN at - (FIRST + 1)
         ELSE at - (FIRST + LOW + 1)

\* PULSE tells in which frame since the restart the display is at least: the
\* first sync of it is counted right, then its end, then the whole frame.
Measured ==
    /\ at \in 1 .. FIRST => rS
    /\ at > FIRST \/ PULSE > Lag + at => (rS <=> ~InSync) /\ CNT = Since % RANGE
    /\ at > FIRST + LOW \/ PULSE > Lag + at => NUM_L = (LOW - 1) % RANGE
    /\ (at > FIRST /\ PULSE > Lag + at) \/ PULSE > Lag + FRAME + at
          => NUM_H = (FRAME - (LOW + 1)) % RANGE
    /\ PULSE > Lag + FRAME + FIRST + 1 => (MS <=> rS)

StartInv == StartDelay /\ Measured

\* The counter's remainder grows with what it counts.
LEMMA RemainderNext ==
    ASSUME NEW x \in Nat, NEW m \in Nat, m > 0
    PROVE  ((x % m) + 1) % m = (x + 1) % m /\ x % m \in Nat /\ 0 % m = 0
<1>1. PICK q \in Int, r \in Int : q = x \div m /\ r = x % m /\ r \in 0 .. m - 1
  <2>1. x % m \in 0 .. m - 1 /\ x \div m \in Int
    BY Z3
  <2> QED
    BY <2>1
<1>2. x = (m * q) + r
  BY <1>1, Z3
<1>3. CASE r + 1 < m
  <2>1. (r + 1) % m = r + 1
    BY <1>1, <1>3, Z3
  <2>2. (x + 1) % m = r + 1
    BY <1>1, <1>2, <1>3, Z3
  <2> QED
    BY <1>1, <2>1, <2>2
<1>4. CASE r + 1 = m
  <2>1. (r + 1) % m = 0
    BY <1>1, <1>4, Z3
  <2>2. x + 1 = m * (q + 1)
    BY <1>1, <1>2, <1>4, Z3
  <2>3. PICK d \in Int, t \in Int : d = (x + 1) \div m /\ t = (x + 1) % m /\ t \in 0 .. m - 1
    <3>1. (x + 1) % m \in 0 .. m - 1 /\ (x + 1) \div m \in Int
      BY Z3
    <3> QED
      BY <3>1
  <2>4. x + 1 = (m * d) + t
    BY <2>3, Z3
  <2>5. m * ((q + 1) - d) = t
    BY <1>1, <2>2, <2>3, <2>4, Z3
  <2>6. PICK e \in Int : e = (q + 1) - d
    BY <1>1, <2>3
  <2>7. ~(e >= 1) /\ ~(e <= -1)
    <3>1. e >= 1 => m * e >= m
      BY <2>6, Z3
    <3>2. e <= -1 => m * e <= -m
      BY <2>6, Z3
    <3> QED
      BY <2>3, <2>5, <2>6, <3>1, <3>2
  <2>8. e = 0
    BY <2>6, <2>7
  <2>9. t = 0
    BY <2>3, <2>5, <2>6, <2>8, Z3
  <2> QED
    BY <1>1, <2>1, <2>3, <2>9
<1>5. 0 % m = 0
  BY Z3
<1> QED
  BY <1>1, <1>3, <1>4, <1>5

\* What the proofs use of the constants.
LEMMA StartSizes ==
    /\ CONT_MAX \in Nat /\ READY_AT \in 0 .. CONT_MAX /\ RST2_AT \in 0 .. CONT_MAX
    /\ FRAME \in Nat /\ FIRST \in Nat /\ LOW \in Nat /\ RANGE \in Nat /\ FOC_AT \in Nat
    /\ PULSE_MAX \in Nat /\ FIRST + LOW < FRAME /\ RANGE > 0 /\ FIRST > 0 /\ LOW > 0
    /\ (FRAME - LOW - 1) % RANGE > (LOW - 1) % RANGE
    /\ READY_AT <= RST2_AT /\ FOC_AT > Lag + FRAME + FIRST + 1
BY StartAndFrameAssumption
   DEF Start!DelayAssumption, Start!StartAssumption, Start!PolarityAssumption, Lag

\* Nothing has been counted, and AUTO_FOC is far away.
LEMMA StartInitially == ASSUME Start!Init PROVE StartInv
<1>1. /\ Cont = 0 /\ ~oREADY /\ ~oRST_2 /\ at = 0 /\ ~I2C_RELEASE /\ PULSE = 0
      /\ CNT = 0 /\ NUM_H = 0 /\ NUM_L = 0
  BY DEF Start!Init, Start!DelayInit
<1>2. /\ oREADY \in BOOLEAN /\ oRST_2 \in BOOLEAN /\ I2C_RELEASE \in BOOLEAN
      /\ rS \in BOOLEAN /\ MS \in BOOLEAN
  BY DEF Start!Init, Start!DelayInit
<1>3. StartDelay
  BY <1>1, <1>2, StartSizes DEF StartDelay
<1>4. Measured
  BY <1>1, StartSizes DEF Measured, Lag
<1> QED
  BY <1>3, <1>4 DEF StartInv

\* One clock of the display's counter, of the level's and of PULSE.
LEMMA ClockDelays ==
    ASSUME StartInv, Start!Clock
    PROVE  StartDelay'
<1>1. /\ Cont' = IF Cont # CONT_MAX THEN Cont + 1 ELSE Cont
      /\ at' = IF oRST_2 THEN (at + 1) % FRAME ELSE 0
      /\ PULSE' = IF I2C_RELEASE /\ PULSE < PULSE_MAX THEN PULSE + 1 ELSE PULSE
      /\ CNT' = IF rS # Start!S THEN 0 ELSE (CNT + 1) % RANGE
      /\ NUM_H' = IF rS /\ ~Start!S THEN CNT ELSE NUM_H
      /\ NUM_L' = IF ~rS /\ Start!S THEN CNT ELSE NUM_L
      /\ I2C_RELEASE' = I2C_RELEASE
  BY Zenon DEF Start!Clock, Start!DelayClock, Start!Display, Start!ModifySync, Start!AutoFocusOn
<1>2. /\ oREADY' <=> (oREADY \/ Cont >= READY_AT)
      /\ oRST_2' <=> (oRST_2 \/ Cont >= RST2_AT)
      /\ oREADY' \in BOOLEAN /\ oRST_2' \in BOOLEAN /\ rS' \in BOOLEAN /\ MS' \in BOOLEAN
  BY DEF Start!Clock, Start!DelayClock, Start!ModifySync, StartInv, StartDelay, Start!S
<1>3. (at + 1) % FRAME \in 0 .. FRAME - 1 /\ (CNT + 1) % RANGE \in Nat
  <2>1. (at + 1) % FRAME \in 0 .. FRAME - 1
    BY StartSizes, Z3 DEF StartInv, StartDelay
  <2>2. CNT + 1 \in Nat /\ RANGE \in Nat /\ RANGE > 0
    BY StartSizes DEF StartInv, StartDelay
  <2> QED
    BY <2>1, <2>2, RemainderNext
<1>4. CNT' \in Nat /\ NUM_H' \in Nat /\ NUM_L' \in Nat /\ PULSE' \in Nat /\ at' \in 0 .. FRAME - 1
  BY <1>1, <1>3, StartSizes DEF StartInv, StartDelay
<1>5. Cont' \in 0 .. CONT_MAX
  BY <1>1, StartSizes DEF StartInv, StartDelay
<1>6. ~oREADY' => ~oRST_2' /\ ~I2C_RELEASE' /\ PULSE' = 0
  BY <1>1, <1>2, StartSizes DEF StartInv, StartDelay
<1>7. ~oRST_2' => /\ at' = 0 /\ Cont' <= RST2_AT
                  /\ oREADY' => READY_AT < Cont' /\ PULSE' < Cont' - READY_AT
  <2> SUFFICES ASSUME ~oRST_2' PROVE
        /\ at' = 0 /\ Cont' <= RST2_AT
        /\ oREADY' => READY_AT < Cont' /\ PULSE' < Cont' - READY_AT
    OBVIOUS
  <2>1. ~oRST_2 /\ Cont < RST2_AT /\ Cont' = Cont + 1 /\ at' = 0
    BY <1>1, <1>2, StartSizes DEF StartInv, StartDelay
  <2>2. CASE oREADY
    BY <1>1, <2>1, <2>2, StartSizes DEF StartInv, StartDelay
  <2>3. CASE ~oREADY
    BY <1>1, <1>2, <2>1, <2>3, StartSizes DEF StartInv, StartDelay
  <2> QED
    BY <2>2, <2>3
<1>8. I2C_RELEASE' \in BOOLEAN
  BY <1>1 DEF StartInv, StartDelay
<1> QED
  BY <1>2, <1>4, <1>5, <1>6, <1>7, <1>8 DEF StartDelay

\* One clock of MODIFY_SYNC, with what it sees of the sync.
LEMMA ClockMeasures ==
    ASSUME StartInv, Start!Clock
    PROVE  Measured'
<1>1. /\ at' = IF oRST_2 THEN (at + 1) % FRAME ELSE 0
      /\ PULSE' = IF I2C_RELEASE /\ PULSE < PULSE_MAX THEN PULSE + 1 ELSE PULSE
      /\ CNT' = IF rS # Start!S THEN 0 ELSE (CNT + 1) % RANGE
      /\ NUM_H' = IF rS /\ ~Start!S THEN CNT ELSE NUM_H
      /\ NUM_L' = IF ~rS /\ Start!S THEN CNT ELSE NUM_L
      /\ rS' = Start!S /\ MS' = (IF NUM_H > NUM_L THEN Start!S ELSE ~Start!S)
  BY Zenon DEF Start!Clock, Start!DelayClock, Start!Display, Start!ModifySync, Start!AutoFocusOn
<1>2. Start!S <=> ~(at >= FIRST /\ at < FIRST + LOW)
  BY DEF Start!S
<1>3. Start!S \in BOOLEAN
  BY DEF Start!S
<1>t. /\ at \in 0 .. FRAME - 1 /\ PULSE \in Nat /\ CNT \in Nat /\ rS \in BOOLEAN
      /\ PULSE' \in Nat /\ Lag \in Nat
  BY ClockDelays, StartSizes DEF StartInv, StartDelay, Lag
<1>p. PULSE' <= PULSE + 1
  BY <1>1, <1>t
<1>4. CASE ~oRST_2
  <2>1. at = 0 /\ at' = 0
    BY <1>1, <1>4 DEF StartInv, StartDelay
  <2>2. PULSE' <= Lag
    <3>1. CASE oREADY
      BY <1>p, <1>t, <1>4, <3>1, StartSizes DEF StartInv, StartDelay, Lag
    <3>2. CASE ~oREADY
      BY <1>1, <1>t, <1>4, <3>2, StartSizes DEF StartInv, StartDelay
    <3> QED
      BY <3>1, <3>2
  <2> QED
    BY <1>t, <2>1, <2>2, StartSizes DEF Measured
<1>5. CASE oRST_2
  <2>1. at' = IF at = FRAME - 1 THEN 0 ELSE at + 1
    <3>1. at \in 0 .. FRAME - 1 /\ FRAME \in Nat
      BY <1>t, StartSizes
    <3>2. (at + 1) % FRAME = IF at = FRAME - 1 THEN 0 ELSE at + 1
      BY <3>1, Z3
    <3> QED
      BY <1>1, <1>5, <3>2
  <2>2. at' \in 1 .. FIRST => rS'
    BY <1>1, <1>2, <1>t, <2>1, StartSizes
  <2>3. at = FIRST => rS
    BY <1>t, StartSizes DEF StartInv, Measured
  <2>4. at' > FIRST \/ PULSE' > Lag + at' => at >= FIRST \/ PULSE > Lag + at
    BY <1>p, <1>t, <2>1, StartSizes
  <2>5. ASSUME at >= FIRST \/ PULSE > Lag + at
        PROVE  (rS' <=> ~InSync') /\ CNT' = Since' % RANGE
    <3>1. rS' <=> ~InSync'
      BY <1>1, <1>2, <1>3, <1>t, <2>1, StartSizes DEF InSync
    <3>2. CASE at = FIRST \/ at = FIRST + LOW
      <4>1. CNT' = 0
        BY <1>1, <1>2, <1>3, <1>t, <2>3, <3>2, StartSizes DEF StartInv, Measured, InSync
      <4>2. Since' = 0
        BY <1>t, <2>1, <3>2, StartSizes DEF Since
      <4> QED
        BY <3>1, <4>1, <4>2, RemainderNext, StartSizes
    <3>3. CASE at # FIRST /\ at # FIRST + LOW
      <4>1. (rS <=> ~InSync) /\ CNT = Since % RANGE
        BY <1>t, <2>5, <3>3, StartSizes DEF StartInv, Measured
      <4>2. CNT' = (CNT + 1) % RANGE
        BY <1>1, <1>2, <1>3, <1>t, <3>3, <4>1, StartSizes DEF InSync
      <4>3. Since \in Nat /\ Since' = Since + 1
        BY <1>t, <2>1, <3>3, StartSizes DEF Since
      <4> QED
        BY <3>1, <4>1, <4>2, <4>3, RemainderNext, StartSizes
    <3> QED
      BY <3>2, <3>3
  <2>6. ASSUME at' > FIRST + LOW \/ PULSE' > Lag + at'
        PROVE  NUM_L' = (LOW - 1) % RANGE
    <3>1. CASE at = FIRST + LOW
      <4>1. ~rS /\ CNT = Since % RANGE /\ Start!S
        BY <1>2, <1>t, <3>1, StartSizes DEF StartInv, Measured, InSync
      <4>2. Since = LOW - 1
        BY <1>t, <3>1, StartSizes DEF Since
      <4> QED
        BY <1>1, <4>1, <4>2
    <3>2. CASE at # FIRST + LOW
      <4>1. at > FIRST + LOW \/ PULSE > Lag + at
        BY <1>p, <1>t, <2>1, <2>6, <3>2, StartSizes
      <4>2. ~(~rS /\ Start!S)
        BY <1>2, <1>t, <3>2, <4>1, StartSizes DEF StartInv, Measured, InSync
      <4> QED
        BY <1>1, <4>1, <4>2 DEF StartInv, Measured
    <3> QED
      BY <3>1, <3>2
  <2>7. ASSUME (at' > FIRST /\ PULSE' > Lag + at') \/ PULSE' > Lag + FRAME + at'
        PROVE  NUM_H' = (FRAME - (LOW + 1)) % RANGE
    <3>1. CASE at = FIRST
      <4>1. PULSE > Lag + at
        BY <1>p, <1>t, <2>1, <2>7, <3>1, StartSizes
      <4>2. rS /\ CNT = Since % RANGE /\ ~Start!S
        BY <1>2, <1>t, <2>3, <3>1, <4>1, StartSizes DEF StartInv, Measured
      <4>3. Since = FRAME - (LOW + 1)
        BY <1>t, <3>1, StartSizes DEF Since
      <4> QED
        BY <1>1, <4>2, <4>3
    <3>2. CASE at # FIRST
      <4>1. (at > FIRST /\ PULSE > Lag + at) \/ PULSE > Lag + FRAME + at
        BY <1>p, <1>t, <2>1, <2>7, <3>2, StartSizes
      <4>2. ~(rS /\ ~Start!S)
        BY <1>2, <1>t, <3>2, <4>1, StartSizes DEF StartInv, Measured, InSync
      <4> QED
        BY <1>1, <4>1, <4>2 DEF StartInv, Measured
    <3> QED
      BY <3>1, <3>2
  <2>8. ASSUME PULSE' > Lag + FRAME + FIRST + 1
        PROVE  MS' <=> rS'
    <3>1. PULSE > Lag + FRAME + FIRST
      BY <1>p, <1>t, <2>8, StartSizes
    <3>2. /\ (at > FIRST /\ PULSE > Lag + at) \/ PULSE > Lag + FRAME + at
          /\ PULSE > Lag + at
      BY <1>t, <3>1, StartSizes
    <3>3. NUM_H = (FRAME - (LOW + 1)) % RANGE /\ NUM_L = (LOW - 1) % RANGE
      BY <3>2 DEF StartInv, Measured
    <3>4. NUM_H > NUM_L
      <4>1. FRAME - (LOW + 1) = FRAME - LOW - 1
        BY StartSizes
      <4> QED
        BY <3>3, <4>1, StartSizes
    <3> QED
      BY <1>1, <1>3, <3>4, Zenon
  <2> QED
    BY <2>2, <2>4, <2>5, <2>6, <2>7, <2>8 DEF Measured
<1> QED
  BY <1>4, <1>5 DEF StartInv, StartDelay

\* Every step keeps StartInv.
LEMMA StartPreserved ==
    ASSUME StartInv, [Start!Next]_(Start!startVars)
    PROVE  StartInv'
<1>1. CASE Start!Clock
  BY <1>1, ClockDelays, ClockMeasures DEF StartInv
<1>2. CASE Start!Unlocked
  <2>1. /\ ~oREADY /\ Cont' = IF Cont # CONT_MAX THEN Cont + 1 ELSE Cont
        /\ UNCHANGED <<at, rS, MS, CNT, NUM_H, NUM_L, I2C_RELEASE, PULSE>>
    BY <1>2 DEF Start!Unlocked, Start!DelayClock, Start!syncVars, Start!focusVars
  <2>2. /\ oREADY' <=> (oREADY \/ Cont >= READY_AT)
        /\ oRST_2' <=> (oRST_2 \/ Cont >= RST2_AT)
        /\ oREADY' \in BOOLEAN /\ oRST_2' \in BOOLEAN
    BY <1>2 DEF Start!Unlocked, Start!DelayClock, StartInv, StartDelay
  <2>3. StartDelay'
    BY <2>1, <2>2, StartSizes DEF StartInv, StartDelay
  <2>4. Measured'
    BY <2>1 DEF StartInv, Measured, InSync, Since
  <2> QED
    BY <2>3, <2>4 DEF StartInv
<1>3. CASE Start!Release
  <2>1. /\ oREADY /\ I2C_RELEASE' = TRUE
        /\ UNCHANGED <<Cont, oREADY, oRST_2, at, rS, MS, CNT, NUM_H, NUM_L, PULSE>>
    BY <1>3 DEF Start!Release, Start!delayVars, Start!syncVars
  <2> QED
    BY <2>1 DEF StartInv, StartDelay, Measured, InSync, Since
<1>4. CASE Start!Press
  <2>1. /\ Cont' = 0 /\ ~oREADY' /\ ~oRST_2' /\ at' = 0 /\ ~I2C_RELEASE' /\ PULSE' = 0
        /\ oREADY' \in BOOLEAN /\ oRST_2' \in BOOLEAN /\ I2C_RELEASE' \in BOOLEAN
        /\ UNCHANGED <<rS, MS, CNT, NUM_H, NUM_L>>
    BY <1>4 DEF Start!Press, Start!DelayReset, Start!syncVars
  <2>2. StartDelay'
    BY <2>1, StartSizes DEF StartInv, StartDelay
  <2>3. Measured'
    BY <2>1, StartSizes DEF Measured, Lag
  <2> QED
    BY <2>2, <2>3 DEF StartInv
<1>5. CASE Start!LetGo \/ UNCHANGED Start!startVars
  <2>1. UNCHANGED <<Cont, oREADY, oRST_2, at, rS, MS, CNT, NUM_H, NUM_L, I2C_RELEASE, PULSE>>
    BY <1>5 DEF Start!LetGo, Start!startVars, Start!delayVars, Start!syncVars, Start!focusVars
  <2> QED
    BY <2>1 DEF StartInv, StartDelay, Measured, InSync, Since
<1> QED
  BY <1>1, <1>2, <1>3, <1>4, <1>5 DEF Start!Next

\* While the lens is swept, the polarity of the sync is known, for frames and
\* counters of every size (MODIFY_SYNC.v:17-21, AUTO_FOCUS_ON.v:20).
THEOREM PolarityStaysKnown == PartSpec => []PolarityKnown
<1>1. PartInit => StartInv
  BY StartInitially, Zenon DEF PartInit
<1>2. [PartNext]_<<part, vars, startVars, sharpVars>> => [Start!Next]_(Start!startVars)
  BY DEF PartNext, startVars, Start!startVars, Start!delayVars, Start!syncVars, Start!focusVars
<1>3. StartInv => PolarityKnown
  BY StartSizes DEF StartInv, StartDelay, Measured, PolarityKnown, Start!PolarityKnown,
                    Start!AUTO_FOC, Lag
<1>4. StartInv /\ [PartNext]_<<part, vars, startVars, sharpVars>> => StartInv'
  BY <1>2, StartPreserved
<1> QED
  BY <1>1, <1>3, <1>4, PTL DEF PartSpec

-----------------------------------------------------------------------------
(* What a frame is measured by.                                             *)

\* A line begins when the row is counted, one clock after the column is 0; a
\* frame, for the sums, two clocks after the vertical sync is over.
LineLen == H_SYNC_TOTAL + 1
Rows == V_SYNC_TOTAL + 1
TopRow == V_SYNC_FRONT + V_SYNC_CYC + 1
SyncStart == H_SYNC_FRONT - H_MARK1
SyncEnd == H_SYNC_CYC + H_SYNC_FRONT - H_MARK1
WinCol == Frame!X_START + H_MARK
WinRow == Frame!Y_START + V_MARK

Col == IF H_Cont = 0 THEN LineLen ELSE H_Cont
Row == IF V_Cont < TopRow \/ (V_Cont = TopRow /\ Col <= 2) THEN V_Cont + Rows ELSE V_Cont

\* What the proofs use of the constants.
LEMMA ScreenSizes ==
    /\ H_SYNC_TOTAL \in Nat /\ V_SYNC_TOTAL \in Nat /\ H_SYNC_ACT \in Nat /\ V_SYNC_ACT \in Nat
    /\ V_SYNC_FRONT \in Nat /\ V_SYNC_CYC \in Nat
    /\ LineLen = H_SYNC_TOTAL + 1 /\ Rows = V_SYNC_TOTAL + 1
    /\ TopRow \in Nat /\ TopRow >= 3 /\ TopRow = V_SYNC_FRONT + V_SYNC_CYC + 1
    /\ V_SYNC_FRONT > 0 /\ V_SYNC_CYC > 0 /\ V_SYNC_ACT > 0 /\ H_SYNC_ACT > 0
    /\ SyncStart \in Nat /\ SyncEnd \in Nat /\ SyncStart < SyncEnd
    /\ WinCol \in Nat /\ SyncEnd + 3 <= WinCol /\ WinCol + H_SYNC_ACT <= LineLen
    /\ WinRow \in Nat /\ TopRow <= WinRow /\ WinRow + V_SYNC_ACT <= Rows
    /\ Frame!H_BLANK \in Nat /\ SyncEnd + 1 < Frame!H_BLANK
    /\ Frame!V_BLANK \in Nat /\ TopRow <= Frame!V_BLANK
BY StartAndFrameAssumption
   DEF Frame!VideoAssumption, Frame!ScreenAssumption, LineLen, Rows, TopRow, SyncStart, SyncEnd,
       WinCol, WinRow, Frame!H_BLANK, Frame!V_BLANK, Frame!X_START, Frame!Y_START

\* Types, and that the counters rest while the relay holds the display.
FrameShapes ==
    /\ H_Cont \in 0 .. H_SYNC_TOTAL /\ V_Cont \in 0 .. V_SYNC_TOTAL /\ iRST_N \in BOOLEAN
    /\ HS \in BOOLEAN /\ VS \in BOOLEAN /\ rHS \in BOOLEAN /\ rVS \in BOOLEAN
    /\ ACTIV_C \in BOOLEAN /\ ACTIV_V \in BOOLEAN
    /\ rSUM \in Nat /\ whole \in 0 .. 3
    /\ ~iRST_N => H_Cont = 0 /\ V_Cont = 0 /\ whole <= 1

\* The clocks that something took place before: the row and column then.
RowOf(w, x) == IF x > 0 THEN w ELSE w - 1
ColOf(x) == IF x > 0 THEN x ELSE x + LineLen

HighH(x) == ~(ColOf(x) > SyncStart /\ ColOf(x) <= SyncEnd)
HighV(w, x) == ~(/\ RowOf(w, x) > Rows + V_SYNC_FRONT
                 /\ RowOf(w, x) <= Rows + V_SYNC_FRONT + V_SYNC_CYC)

\* More than n clocks have passed since the display was restarted.
Run(n) == whole >= 2 \/ V_Cont >= 2 \/ (V_Cont = 1 /\ Col > n)

\* The syncs come through two registers.  From the first sync on that is counted,
\* the vertical one is known even while the relay holds the display.
SyncsFollow ==
    /\ Run(0) => (HS <=> HighH(Col - 1))
    /\ Run(1) => (rHS <=> HighH(Col - 2))
    /\ VS => HighV(Row, Col - 1)
    /\ Run(0) \/ whole >= 1 => (VS <=> HighV(Row, Col - 1))
    /\ Run(1) \/ whole >= 1 => (rVS <=> HighV(Row, Col - 2))
    /\ Run(1) => (ACTIV_V <=> HighH(Col - 2) /\ HighV(Row, Col - 2))

\* Where the position is after a clock.
LEMMA FrameAdvances ==
    ASSUME FrameShapes, Frame!VgaClock
    PROVE  /\ V_Cont = TopRow /\ Col = 2 => Row = TopRow + Rows /\ Row' = TopRow /\ Col' = 3
           /\ ~(V_Cont = TopRow /\ Col = 2) /\ Col < LineLen => Row' = Row /\ Col' = Col + 1
           /\ Col = LineLen => Row' = Row + 1 /\ Col' = 1
           /\ V_Cont' = IF Col < LineLen THEN V_Cont
                        ELSE IF V_Cont < V_SYNC_TOTAL THEN V_Cont + 1 ELSE 0
           /\ H_Cont' \in 0 .. H_SYNC_TOTAL /\ V_Cont' \in 0 .. V_SYNC_TOTAL
           /\ Col' \in Nat /\ Row' \in Nat
<1>1. /\ H_Cont' = IF H_Cont < H_SYNC_TOTAL THEN H_Cont + 1 ELSE 0
      /\ V_Cont' = IF H_Cont = 0 THEN (IF V_Cont < V_SYNC_TOTAL THEN V_Cont + 1 ELSE 0) ELSE V_Cont
  BY Zenon DEF Frame!VgaClock, Frame!CountUpTo
<1>2. H_Cont' \in 0 .. H_SYNC_TOTAL /\ V_Cont' \in 0 .. V_SYNC_TOTAL
  BY <1>1, ScreenSizes DEF FrameShapes
<1>3. Col \in 1 .. LineLen /\ Col' = IF Col = LineLen THEN 1 ELSE Col + 1
  BY <1>1, ScreenSizes DEF FrameShapes, Col
<1>4. V_Cont' = IF Col < LineLen THEN V_Cont ELSE IF V_Cont < V_SYNC_TOTAL THEN V_Cont + 1 ELSE 0
  BY <1>1, ScreenSizes DEF FrameShapes, Col
<1>5. V_Cont = TopRow /\ Col = 2 => Row = TopRow + Rows /\ Row' = TopRow /\ Col' = 3
  BY <1>3, <1>4, ScreenSizes DEF FrameShapes, Row
<1>6. ~(V_Cont = TopRow /\ Col = 2) /\ Col < LineLen => Row' = Row /\ Col' = Col + 1
  BY <1>3, <1>4, ScreenSizes DEF FrameShapes, Row
<1>7. Col = LineLen => Row' = Row + 1 /\ Col' = 1
  BY <1>3, <1>4, ScreenSizes DEF FrameShapes, Row
<1>8. Col' \in Nat /\ Row' \in Nat
  <2>1. Col' \in Nat
    BY <1>3, ScreenSizes
  <2>2. V_Cont' \in Nat /\ V_Cont' + Rows \in Nat
    <3>1. PICK v \in Nat : v = V_Cont'
      BY <1>2, ScreenSizes
    <3>2. Rows \in Nat
      BY ScreenSizes
    <3>3. v + Rows \in Nat
      BY <3>2
    <3> QED
      BY <3>1, <3>3
  <2>3. Row' = IF V_Cont' < TopRow \/ (V_Cont' = TopRow /\ Col' <= 2)
               THEN V_Cont' + Rows ELSE V_Cont'
    BY Zenon DEF Row
  <2> QED
    BY <2>1, <2>2, <2>3
<1> QED
  BY <1>2, <1>4, <1>5, <1>6, <1>7, <1>8

\* The position lies in the frame.
LEMMA Place ==
    ASSUME FrameShapes
    PROVE  /\ Col \in Nat /\ Row \in Nat /\ Col \in 1 .. LineLen /\ Row \in TopRow .. TopRow + Rows
           /\ Row = TopRow + Rows => Col <= 2
           /\ Row = TopRow => Col > 2
           /\ V_Cont = 0 /\ H_Cont = 0 => Col = LineLen /\ Row = Rows
           /\ V_Cont < TopRow => Row = V_Cont + Rows
           /\ V_Cont > TopRow => Row = V_Cont
BY ScreenSizes DEF FrameShapes, Col, Row

\* The syncs as they come out, from the place in the frame.
LEMMA SyncsAtPlace ==
    ASSUME FrameShapes
    PROVE  (Frame!oVGA_H_SYNC <=> HighH(Col)) /\ (Frame!oVGA_V_SYNC <=> HighV(Row, Col))
<1>1. Frame!oVGA_H_SYNC <=> HighH(Col)
  <2>1. Frame!oVGA_H_SYNC <=> ~(H_Cont > SyncStart /\ H_Cont <= SyncEnd)
    BY DEF Frame!oVGA_H_SYNC, SyncStart, SyncEnd
  <2> QED
    BY <2>1, ScreenSizes DEF FrameShapes, Col, HighH, ColOf
<1>2. Frame!oVGA_V_SYNC <=> HighV(Row, Col)
  BY Place, ScreenSizes DEF FrameShapes, Row, HighV, RowOf, Frame!oVGA_V_SYNC
<1> QED
  BY <1>1, <1>2

\* A frame begins at one place, except just after a restart.
LEMMA FrameBeginsAt ==
    ASSUME FrameShapes, SyncsFollow, Run(1) \/ whole >= 1
    PROVE  Frame!FrameBegins <=> V_Cont = TopRow /\ Col = 2
<1>1. Frame!FrameBegins <=> ~HighV(Row, Col - 2) /\ HighV(Row, Col - 1)
  <2>1. (VS <=> HighV(Row, Col - 1)) /\ (rVS <=> HighV(Row, Col - 2))
    <3>1. Run(1) => Run(0)
      BY Place DEF Run
    <3> QED
      BY <3>1 DEF SyncsFollow
  <2> QED
    BY <2>1 DEF Frame!FrameBegins
<1>2. ~HighV(Row, Col - 2) /\ HighV(Row, Col - 1) <=> Row = TopRow + Rows /\ Col = 2
  BY Place, ScreenSizes DEF HighV, RowOf
<1>3. Row = TopRow + Rows /\ Col = 2 <=> V_Cont = TopRow /\ Col = 2
  BY ScreenSizes DEF Row, FrameShapes
<1> QED
  BY <1>1, <1>2, <1>3

\* A clock of the counters and registers, whether the display is held or not.
Ticks == (Frame!Clock \/ Frame!HeldClock)

\* What is known of the frames and of the clocks since a restart, a clock before.
LEMMA RunBack ==
    ASSUME FrameShapes, SyncsFollow, Frame!Clock
    PROVE  /\ whole' \in 0 .. 3 /\ whole' >= whole
           /\ whole' >= 2 => whole >= 2 \/ (whole = 1 /\ V_Cont = TopRow /\ Col = 2)
           /\ whole' = 3 => whole = 3 \/ (whole = 2 /\ V_Cont = TopRow /\ Col = 2)
           /\ \A n \in Nat : n + 1 < LineLen /\ Run(n + 1)' => Run(n)
<1>1. whole' = IF Frame!FrameBegins /\ whole < 3 THEN whole + 1 ELSE whole
  BY DEF Frame!Clock, Frame!History, Frame!historyVars
<1>2. /\ whole' \in 0 .. 3 /\ whole' >= whole
      /\ whole' >= 2 => whole >= 2 \/ (whole = 1 /\ V_Cont = TopRow /\ Col = 2)
      /\ whole' = 3 => whole = 3 \/ (whole = 2 /\ V_Cont = TopRow /\ Col = 2)
  BY <1>1, FrameBeginsAt DEF FrameShapes
<1>3. ASSUME NEW n \in Nat, n + 1 < LineLen, Run(n + 1)'
      PROVE  Run(n)
  <2>1. Frame!VgaClock
    BY DEF Frame!Clock
  <2>2. CASE whole' >= 2
    BY <1>2, <2>2, ScreenSizes DEF Run
  <2>3. CASE V_Cont' >= 2 \/ (V_Cont' = 1 /\ Col' > n + 1)
    BY <1>3, <2>1, <2>3, FrameAdvances, Place, ScreenSizes DEF Run, FrameShapes
  <2> QED
    BY <1>3, <2>2, <2>3 DEF Run
<1> QED
  BY <1>2, <1>3

\* A place that was so many clocks ago is a clock longer ago after a clock.
LEMMA LookBack ==
    ASSUME FrameShapes, Frame!VgaClock, NEW k \in {0, 1}
    PROVE  /\ HighH((Col' - 1) - k) <=> HighH(Col - k)
           /\ HighV(Row', (Col' - 1) - k) <=> HighV(Row, Col - k)
<1>1. CASE V_Cont = TopRow /\ Col = 2
  BY <1>1, FrameAdvances, ScreenSizes DEF HighH, HighV, ColOf, RowOf
<1>2. CASE ~(V_Cont = TopRow /\ Col = 2) /\ Col < LineLen
  <2>1. Row' = Row /\ (Col' - 1) - k = Col - k
    BY <1>2, FrameAdvances, Place
  <2> QED
    BY <2>1
<1>3. CASE Col = LineLen
  <2>1. /\ Row' = Row + 1 /\ Col' = 1 /\ Col = LineLen /\ LineLen > 1
        /\ Row \in Nat /\ LineLen \in Nat
    BY <1>3, FrameAdvances, Place, ScreenSizes
  <2>2. ColOf((Col' - 1) - k) = ColOf(Col - k) /\ RowOf(Row', (Col' - 1) - k) = RowOf(Row, Col - k)
    BY <2>1 DEF ColOf, RowOf
  <2> QED
    BY <2>2 DEF HighH, HighV
<1>4. (V_Cont = TopRow /\ Col = 2) \/ (~(V_Cont = TopRow /\ Col = 2) /\ Col < LineLen)
        \/ Col = LineLen
  BY Place, ScreenSizes
<1> QED
  BY <1>1, <1>2, <1>3, <1>4

\* The registers of the syncs after a clock.
LEMMA SyncsTick ==
    ASSUME FrameShapes, SyncsFollow, Ticks
    PROVE  /\ HS' \in BOOLEAN /\ VS' \in BOOLEAN /\ rHS' \in BOOLEAN /\ rVS' \in BOOLEAN
           /\ ACTIV_V' \in BOOLEAN /\ ACTIV_C' \in BOOLEAN
           /\ (HS' <=> HighH(Col)) /\ (VS' <=> HighV(Row, Col))
           /\ (rHS' <=> HS) /\ (rVS' <=> VS) /\ (ACTIV_V' <=> HS /\ VS)
<1>1. Frame!Syncs /\ Frame!Counters
  BY DEF Ticks, Frame!Clock, Frame!HeldClock
<1>2. /\ HS' \in BOOLEAN /\ VS' \in BOOLEAN /\ rHS' \in BOOLEAN /\ rVS' \in BOOLEAN
      /\ (HS' <=> Frame!oVGA_H_SYNC) /\ (VS' <=> Frame!oVGA_V_SYNC)
      /\ (rHS' <=> HS) /\ (rVS' <=> VS)
  BY <1>1 DEF Frame!Syncs, FrameShapes, Frame!oVGA_H_SYNC, Frame!oVGA_V_SYNC
<1>3. ACTIV_V' \in BOOLEAN /\ ACTIV_C' \in BOOLEAN /\ (ACTIV_V' <=> HS /\ VS)
  <2>1. ACTIV_V' = (HS /\ VS)
    BY <1>1, Zenon DEF Frame!Counters
  <2>2. ACTIV_C' \in BOOLEAN
    BY <1>1, Zenon DEF Frame!Counters
  <2> QED
    BY <2>1, <2>2 DEF FrameShapes
<1> QED
  BY <1>2, <1>3, SyncsAtPlace

\* The syncs follow the counters.
LEMMA SyncsStep ==
    ASSUME FrameShapes, SyncsFollow, Frame!Clock
    PROVE  SyncsFollow'
<1>1. Frame!VgaClock
  BY DEF Frame!Clock
<1>2. /\ (HS' <=> HighH(Col)) /\ (VS' <=> HighV(Row, Col))
      /\ (rHS' <=> HS) /\ (rVS' <=> VS) /\ (ACTIV_V' <=> HS /\ VS)
  BY SyncsTick DEF Ticks
<1>3. /\ HighH(Col' - 1) <=> HighH(Col)
      /\ HighV(Row', Col' - 1) <=> HighV(Row, Col)
  <2>1. (Col' - 1) - 0 = Col' - 1 /\ Col - 0 = Col
    BY <1>1, FrameAdvances, Place
  <2> QED
    BY <1>1, <2>1, LookBack
<1>4. /\ HighH(Col' - 2) <=> HighH(Col - 1)
      /\ HighV(Row', Col' - 2) <=> HighV(Row, Col - 1)
  <2>1. (Col' - 1) - 1 = Col' - 2
    BY <1>1, FrameAdvances, Place
  <2> QED
    BY <1>1, <2>1, LookBack
<1>5. Run(1)' => Run(0)
  <2>1. 0 + 1 < LineLen /\ 0 + 1 = 1 /\ 0 \in Nat
    BY ScreenSizes
  <2> QED
    BY <2>1, RunBack
<1>6. (HS' <=> HighH(Col' - 1)) /\ (VS' <=> HighV(Row', Col' - 1))
  BY <1>2, <1>3
<1>7. Run(1)' => (rHS' <=> HighH(Col' - 2))
  BY <1>2, <1>4, <1>5 DEF SyncsFollow
<1>8. Run(1)' \/ whole' >= 1 => (rVS' <=> HighV(Row', Col' - 2))
  <2>1. CASE Run(0) \/ whole >= 1
    BY <1>2, <1>4, <2>1 DEF SyncsFollow
  <2>2. CASE ~(Run(0) \/ whole >= 1) /\ whole' >= 1
    <3>1. Frame!FrameBegins
      BY <2>2 DEF Frame!Clock, Frame!History, Frame!historyVars
    <3>2. VS
      BY <3>1 DEF Frame!FrameBegins
    <3> QED
      BY <1>2, <1>4, <3>2 DEF SyncsFollow
  <2> QED
    BY <1>5, <2>1, <2>2
<1>9. Run(1)' => (ACTIV_V' <=> HighH(Col' - 2) /\ HighV(Row', Col' - 2))
  BY <1>2, <1>4, <1>5 DEF SyncsFollow
<1> QED
  BY <1>6, <1>7, <1>8, <1>9 DEF SyncsFollow

\* Types after a clock.
LEMMA ShapesTick ==
    ASSUME FrameShapes, SyncsFollow, Ticks
    PROVE  FrameShapes'
<1>1. rSUM' \in Nat
  BY DEF Ticks, Frame!Clock, Frame!HeldClock, Frame!Statistics, FrameShapes
<1>2. whole' = IF Frame!FrameBegins /\ whole < 3 THEN whole + 1 ELSE whole
  BY DEF Ticks, Frame!Clock, Frame!HeldClock, Frame!History, Frame!historyVars
<1>3. whole' \in 0 .. 3
  BY <1>2 DEF FrameShapes
<1>4. /\ HS' \in BOOLEAN /\ VS' \in BOOLEAN /\ rHS' \in BOOLEAN /\ rVS' \in BOOLEAN
      /\ ACTIV_V' \in BOOLEAN /\ ACTIV_C' \in BOOLEAN
  BY SyncsTick
<1>5. CASE Frame!Clock
  <2>1. Frame!VgaClock
    BY <1>5 DEF Frame!Clock
  <2>2. iRST_N /\ iRST_N' = iRST_N
    BY <2>1 DEF Frame!VgaClock
  <2>3. H_Cont' \in 0 .. H_SYNC_TOTAL /\ V_Cont' \in 0 .. V_SYNC_TOTAL
    BY <2>1, FrameAdvances
  <2> QED
    BY <1>1, <1>3, <1>4, <2>2, <2>3 DEF FrameShapes
<1>6. CASE Frame!HeldClock
  <2>1. ~iRST_N /\ UNCHANGED <<iRST_N, H_Cont, V_Cont>>
    BY <1>6 DEF Frame!HeldClock, Frame!vgaVars
  <2>2. whole >= 1 => ~Frame!FrameBegins
    BY <2>1, FrameBeginsAt, ScreenSizes DEF FrameShapes
  <2>3. whole' <= 1
    BY <1>2, <2>1, <2>2 DEF FrameShapes
  <2> QED
    BY <1>1, <1>3, <1>4, <2>1, <2>3 DEF FrameShapes
<1> QED
  BY <1>5, <1>6 DEF Ticks

\* While the display is held the syncs are high, whatever was before.
LEMMA SyncsHeld ==
    ASSUME FrameShapes, SyncsFollow, Frame!HeldClock
    PROVE  SyncsFollow'
<1>1. ~iRST_N /\ H_Cont = 0 /\ V_Cont = 0 /\ H_Cont' = 0 /\ V_Cont' = 0
  BY DEF Frame!HeldClock, Frame!vgaVars, FrameShapes
<1>2. Col = LineLen /\ Row = Rows /\ Col' = LineLen /\ Row' = Rows
  BY <1>1, ScreenSizes DEF Col, Row
<1>3. ~(whole' >= 2)
  BY <1>1, ShapesTick DEF Ticks, FrameShapes, Frame!HeldClock, Frame!vgaVars
<1>4. ~Run(0)' /\ ~Run(1)'
  BY <1>1, <1>3 DEF Run
<1>5. HighV(Row', Col' - 1) /\ HighV(Row', Col' - 2) /\ HighV(Row, Col) /\ HighV(Row, Col - 1)
  BY <1>2, ScreenSizes DEF HighV, RowOf
<1>6. (VS' <=> HighV(Row, Col)) /\ (rVS' <=> VS)
  BY SyncsTick DEF Ticks
<1>7. whole' >= 1 => VS
  <2>1. whole' = IF Frame!FrameBegins /\ whole < 3 THEN whole + 1 ELSE whole
    BY DEF Frame!HeldClock, Frame!History, Frame!historyVars
  <2>2. CASE whole >= 1
    BY <1>5, <2>2 DEF SyncsFollow
  <2>3. CASE ~(whole >= 1) /\ whole' >= 1
    BY <2>1, <2>3 DEF Frame!FrameBegins, FrameShapes
  <2> QED
    BY <2>2, <2>3
<1> QED
  BY <1>4, <1>5, <1>6, <1>7 DEF SyncsFollow

\* KEY[0]: the counters go back to where the syncs are high.
LEMMA SyncsPressed ==
    ASSUME FrameShapes, SyncsFollow, Frame!Press
    PROVE  FrameShapes' /\ SyncsFollow'
<1>1. /\ iRST_N' = FALSE /\ H_Cont' = 0 /\ V_Cont' = 0 /\ whole' = 0
      /\ UNCHANGED <<HS, VS, rHS, rVS, ACTIV_C, ACTIV_V, rSUM>>
  BY DEF Frame!Press, Frame!PressKey, Frame!counterVars, Frame!sumVars
<1>2. FrameShapes'
  <2>1. iRST_N' \in BOOLEAN
    BY <1>1
  <2>2. H_Cont' \in 0 .. H_SYNC_TOTAL /\ V_Cont' \in 0 .. V_SYNC_TOTAL /\ whole' \in 0 .. 3
    BY <1>1, ScreenSizes
  <2> QED
    BY <1>1, <2>1, <2>2 DEF FrameShapes
<1>3. Col' = LineLen /\ Row' = Rows
  BY <1>1, ScreenSizes DEF Col, Row
<1>4. HighV(Row', Col' - 1)
  BY <1>3, ScreenSizes DEF HighV, RowOf
<1>5. ~Run(0)' /\ ~Run(1)' /\ ~(whole' >= 1)
  BY <1>1 DEF Run
<1> QED
  BY <1>2, <1>4, <1>5 DEF SyncsFollow

-----------------------------------------------------------------------------
(* The sum of a frame.                                                      *)

\* The luminance at a place, black outside the picture.
Grey(p, w, c) == IF w \in Frame!Lines THEN Frame!Signal(p, w, c) ELSE 0
Shown(p, w, x) == Grey(p, RowOf(w, x), ColOf(x))

\* Until the picture of a frame begins, the registers are black.
Blanked ==
    LET above == V_Cont \in 2 .. TopRow /\ (V_Cont = TopRow => Col <= 2)
    IN  /\ above \/ (V_Cont = 1 /\ Col > 1) => rY1 = 0
        /\ above \/ (V_Cont = 1 /\ Col > 2) => rY2 = 0

\* The luminance and its difference come through registers.
GreysFollow ==
    whole >= 2 => /\ rY1 = Shown(picture, Row, Col - 1) /\ rY2 = Shown(picture, Row, Col - 2)
                  /\ SS = Frame!Distance(Shown(picture, Row, Col - 1),
                                         Shown(picture, Row, Col - 3))

\* The differences of a picture that are counted when the place w, x is reached.
Edges(p) == {e \in Frame!Lines \X (Frame!H_BLANK .. H_SYNC_TOTAL + 2) :
               Frame!Distance(Frame!Signal(p, e[1], e[2]), Frame!Signal(p, e[1], e[2] - 2))
                 > Frame!TH}
Earlier(e, w, x) == \/ e[1] + 1 < w
                    \/ e[1] + 1 = w /\ e[2] + 1 < x + LineLen
                    \/ e[1] = w /\ e[2] + 1 < x
Counted(p, w, x) == {e \in Edges(p) : Earlier(e, w, x)}

SumsFollow ==
    /\ whole >= 2 => rSUM = Cardinality(Counted(picture, Row, Col))
    /\ whole = 3 => frameSUM = due

\* The lines and the columns as numbers.
LEMMA Picture ==
    /\ \A w \in Frame!Lines : w \in Nat /\ w >= TopRow /\ w < Rows
    /\ \A c \in Frame!Columns : c \in Nat /\ c > SyncEnd + 1 /\ c < LineLen
BY ScreenSizes DEF Frame!Lines, Frame!Columns

\* What the controller shows is the place in the picture.
LEMMA ShownNow ==
    ASSUME FrameShapes
    PROVE  Frame!Y1 = Shown(picture, Row, Col)
<1>1. Col > 0 /\ Shown(picture, Row, Col) = Grey(picture, Row, Col)
  BY Place, ScreenSizes DEF Shown, RowOf, ColOf
<1>2. CASE H_Cont \in Frame!Columns /\ V_Cont \in Frame!Lines
  <2>1. Col = H_Cont /\ Row = V_Cont
    BY <1>2, Picture, ScreenSizes DEF Col, Row, FrameShapes
  <2> QED
    BY <1>1, <1>2, <2>1 DEF Frame!Y1, Grey, Frame!Signal
<1>3. CASE ~(H_Cont \in Frame!Columns /\ V_Cont \in Frame!Lines)
  <2>1. Row \in Frame!Lines => Row = V_Cont
    BY Place, Picture, ScreenSizes DEF Row, FrameShapes
  <2>2. Col \in Frame!Columns => Col = H_Cont
    BY Place, Picture, ScreenSizes DEF Col, FrameShapes
  <2> QED
    BY <1>1, <1>3, <2>1, <2>2 DEF Frame!Y1, Grey, Frame!Signal
<1> QED
  BY <1>2, <1>3

\* Where no picture is, nothing is shown.
LEMMA NothingShown ==
    ASSUME NEW p, NEW w \in Nat, NEW x \in Int, x <= LineLen, x > -3,
           w > Rows \/ (x <= 2 /\ x >= 0) \/ x = LineLen
    PROVE  Shown(p, w, x) = 0
<1>1. CASE RowOf(w, x) \notin Frame!Lines
  BY <1>1 DEF Shown, Grey
<1>2. CASE RowOf(w, x) \in Frame!Lines
  <2>1. RowOf(w, x) < Rows
    BY <1>2, Picture
  <2>2. x \in {0, 1, 2, LineLen}
    BY <2>1, ScreenSizes DEF RowOf
  <2>3. ColOf(x) \in {1, 2, LineLen}
    BY <2>2, ScreenSizes DEF ColOf
  <2>4. ColOf(x) \notin Frame!Columns
    BY <2>3, Picture, ScreenSizes
  <2> QED
    BY <2>4 DEF Shown, Grey, Frame!Signal
<1> QED
  BY <1>1, <1>2

\* A place of the picture that was so many clocks ago is a clock longer ago.
LEMMA PictureLookBack ==
    ASSUME FrameShapes, Frame!VgaClock, NEW p, NEW k \in 0 .. 2
    PROVE  Shown(p, Row', (Col' - 1) - k) = Shown(p, Row, Col - k)
<1>1. CASE V_Cont = TopRow /\ Col = 2
  <2>1. Row = TopRow + Rows /\ Row' = TopRow /\ (Col' - 1) - k = 2 - k /\ Col - k = 2 - k
    BY <1>1, FrameAdvances
  <2>2. Shown(p, Row, 2 - k) = 0 /\ Shown(p, TopRow, 2 - k) = 0
    BY <2>1, NothingShown, ScreenSizes
  <2> QED
    BY <2>1, <2>2
<1>2. CASE ~(V_Cont = TopRow /\ Col = 2) /\ Col < LineLen
  <2>1. Row' = Row /\ (Col' - 1) - k = Col - k
    BY <1>2, FrameAdvances, Place
  <2> QED
    BY <2>1
<1>3. CASE Col = LineLen
  <2>1. /\ Row' = Row + 1 /\ Col' = 1 /\ Col = LineLen /\ LineLen > 2
        /\ Row \in Nat /\ LineLen \in Nat
    BY <1>3, FrameAdvances, Place, ScreenSizes
  <2>2. ColOf((Col' - 1) - k) = ColOf(Col - k) /\ RowOf(Row', (Col' - 1) - k) = RowOf(Row, Col - k)
    BY <2>1 DEF ColOf, RowOf
  <2> QED
    BY <2>2 DEF Shown
<1>4. (V_Cont = TopRow /\ Col = 2) \/ (~(V_Cont = TopRow /\ Col = 2) /\ Col < LineLen)
        \/ Col = LineLen
  BY Place, ScreenSizes
<1> QED
  BY <1>1, <1>2, <1>3, <1>4

\* The registers of the luminance after a clock.
LEMMA GreysTick ==
    ASSUME Ticks
    PROVE  rY1' = Frame!Y1 /\ rY2' = rY1 /\ SS' = Frame!Distance(Frame!Y1, rY2)
BY DEF Ticks, Frame!Clock, Frame!HeldClock, Frame!Statistics

\* The blanking reaches the registers one after the other.
LEMMA BlankedStep ==
    ASSUME FrameShapes, Blanked, Frame!Clock
    PROVE  Blanked'
<1>1. Frame!VgaClock
  BY DEF Frame!Clock
<1>2. V_Cont \in 1 .. TopRow /\ (V_Cont = TopRow => Col <= 2) => Frame!Y1 = 0
  BY Picture, ScreenSizes DEF Frame!Y1, Col, FrameShapes
<1>3. rY1' = Frame!Y1 /\ rY2' = rY1
  BY GreysTick DEF Ticks
<1>4. /\ V_Cont' = IF Col < LineLen THEN V_Cont
                   ELSE IF V_Cont < V_SYNC_TOTAL THEN V_Cont + 1 ELSE 0
      /\ Col \in 1 .. LineLen
      /\ Col < LineLen => Col' = Col + 1
      /\ Col = LineLen => Col' = 1
  BY <1>1, FrameAdvances, Place, ScreenSizes
<1>5. Col \in Nat /\ LineLen \in Nat /\ LineLen > 2 /\ V_Cont \in Nat /\ TopRow >= 3
  BY Place, ScreenSizes DEF FrameShapes
<1>6. ASSUME V_Cont' \in 2 .. TopRow /\ (V_Cont' = TopRow => Col' <= 2)
      PROVE  rY1' = 0 /\ rY2' = 0
  <2>1. /\ V_Cont \in 1 .. TopRow /\ (V_Cont = TopRow => Col <= 2)
        /\ V_Cont = 1 => Col = LineLen
    BY <1>4, <1>5, <1>6, ScreenSizes
  <2>2. rY1 = 0
    BY <1>5, <2>1 DEF Blanked
  <2> QED
    BY <1>2, <1>3, <2>1, <2>2
<1>7. ASSUME V_Cont' = 1 /\ Col' > 1
      PROVE  rY1' = 0 /\ (Col' > 2 => rY2' = 0)
  <2>1. V_Cont = 1 /\ Col' = Col + 1
    BY <1>4, <1>5, <1>7, ScreenSizes
  <2>2. Col' > 2 => rY1 = 0
    BY <1>5, <2>1 DEF Blanked
  <2>3. Frame!Y1 = 0
    BY <1>2, <1>5, <2>1, ScreenSizes
  <2> QED
    BY <1>3, <2>2, <2>3
<1>8. Col' > 2 => Col' > 1
  BY <1>4, <1>5
<1> QED
  BY <1>6, <1>7, <1>8 DEF Blanked

\* The registers follow what is shown.
LEMMA GreysStep ==
    ASSUME FrameShapes, SyncsFollow, Blanked, GreysFollow, Frame!Clock
    PROVE  GreysFollow'
<1>1. Frame!VgaClock
  BY DEF Frame!Clock
<1>2. rY1' = Frame!Y1 /\ rY2' = rY1 /\ SS' = Frame!Distance(Frame!Y1, rY2)
  BY GreysTick DEF Ticks
<1>3. \A p : /\ Shown(p, Row', Col' - 1) = Shown(p, Row, Col)
             /\ Shown(p, Row', Col' - 2) = Shown(p, Row, Col - 1)
             /\ Shown(p, Row', Col' - 3) = Shown(p, Row, Col - 2)
  <2>1. /\ (Col' - 1) - 0 = Col' - 1 /\ Col - 0 = Col /\ (Col' - 1) - 1 = Col' - 2
        /\ (Col' - 1) - 2 = Col' - 3
    BY <1>1, FrameAdvances, Place
  <2> QED
    BY <1>1, <2>1, PictureLookBack
<1>4. SUFFICES ASSUME whole' >= 2
      PROVE  /\ rY1' = Shown(picture', Row', Col' - 1) /\ rY2' = Shown(picture', Row', Col' - 2)
             /\ SS' = Frame!Distance(Shown(picture', Row', Col' - 1),
                                     Shown(picture', Row', Col' - 3))
  BY DEF GreysFollow
<1>5. whole >= 2 \/ (whole = 1 /\ V_Cont = TopRow /\ Col = 2)
  BY <1>4, RunBack
<1>6. CASE V_Cont = TopRow /\ Col = 2
  <2>1. rY1 = 0 /\ rY2 = 0
    BY <1>6, ScreenSizes DEF Blanked
  <2>2. Row = TopRow + Rows /\ Row' = TopRow /\ Col' = 3
    BY <1>1, <1>6, FrameAdvances
  <2>3. Frame!Y1 = 0
    <3>1. Shown(picture, Row, Col) = 0
      BY <1>6, <2>2, NothingShown, ScreenSizes
    <3> QED
      BY <3>1, ShownNow
  <2>4. /\ Shown(picture', Row', Col' - 1) = 0 /\ Shown(picture', Row', Col' - 2) = 0
        /\ Shown(picture', Row', Col' - 3) = 0
    <3>1. Col' - 1 = 2 /\ Col' - 2 = 1 /\ Col' - 3 = 0
      BY <2>2
    <3> QED
      BY <2>2, <3>1, NothingShown, ScreenSizes
  <2> QED
    BY <1>2, <2>1, <2>3, <2>4
<1>7. CASE ~(V_Cont = TopRow /\ Col = 2)
  <2>1. whole >= 2
    BY <1>5, <1>7
  <2>2. ~Frame!FrameBegins
    BY <1>7, <2>1, FrameBeginsAt DEF FrameShapes
  <2>3. picture' = picture
    BY <2>2 DEF Frame!Clock, Frame!History, Frame!historyVars
  <2> QED
    BY <1>2, <1>3, <2>1, <2>3, ShownNow DEF GreysFollow
<1> QED
  BY <1>6, <1>7

\* The edges are finitely many.
LEMMA EdgesFinite ==
    ASSUME NEW p, NEW w, NEW x
    PROVE  IsFiniteSet(Edges(p)) /\ IsFiniteSet(Counted(p, w, x))
<1>1. IsFiniteSet(Frame!Lines) /\ IsFiniteSet(Frame!H_BLANK .. H_SYNC_TOTAL + 2)
  BY ScreenSizes, FS_Interval DEF Frame!Lines
<1>2. IsFiniteSet(Frame!Lines \X (Frame!H_BLANK .. H_SYNC_TOTAL + 2))
  BY <1>1, FS_Product
<1>3. /\ Edges(p) \subseteq Frame!Lines \X (Frame!H_BLANK .. H_SYNC_TOTAL + 2)
      /\ Counted(p, w, x) \subseteq Frame!Lines \X (Frame!H_BLANK .. H_SYNC_TOTAL + 2)
  BY DEF Edges, Counted
<1> QED
  BY <1>2, <1>3, FS_Subset

\* The edge that is looked at in a place.
EdgeAt(w, x) == IF x > 2 THEN <<w, x - 1>> ELSE <<w - 1, (x - 1) + LineLen>>

\* One clock later, that edge has been counted as well, if it is one.
LEMMA OneMore ==
    ASSUME NEW p, NEW w \in Nat, NEW x \in Nat, x > 0, x <= LineLen,
           NEW w2 \in Nat, NEW x2 \in Nat,
           IF x < LineLen THEN w2 = w /\ x2 = x + 1 ELSE w2 = w + 1 /\ x2 = 1
    PROVE  Counted(p, w2, x2) = IF EdgeAt(w, x) \in Edges(p)
                                THEN Counted(p, w, x) \cup {EdgeAt(w, x)}
                                ELSE Counted(p, w, x)
<1>1. ASSUME NEW e \in Edges(p)
      PROVE  Earlier(e, w2, x2) <=> Earlier(e, w, x) \/ e = EdgeAt(w, x)
  <2>1. PICK v \in Nat, h \in Nat : e = <<v, h>> /\ h > SyncEnd + 1 /\ h <= LineLen + 1
    BY Picture, ScreenSizes DEF Edges
  <2>2. e = EdgeAt(w, x) <=> IF x > 2 THEN v = w /\ h = x - 1
                                      ELSE v = w - 1 /\ h = (x - 1) + LineLen
    BY <2>1 DEF EdgeAt
  <2>3. \A a, b \in Nat : Earlier(e, a, b) <=> \/ v + 1 < a
                                               \/ v + 1 = a /\ h + 1 < b + LineLen
                                               \/ v = a /\ h + 1 < b
    BY <2>1 DEF Earlier
  <2> QED
    BY <2>1, <2>2, <2>3, ScreenSizes
<1> QED
  BY <1>1 DEF Counted

\* The edge in a place is seen in the registers of the luminance.
LEMMA EdgeSeen ==
    ASSUME NEW p, NEW w \in Nat, NEW x \in Nat, x > 0, x <= LineLen
    PROVE  EdgeAt(w, x) \in Edges(p)
           <=> Frame!Distance(Shown(p, w, x - 1), Shown(p, w, x - 3)) > Frame!TH
<1>1. Frame!Distance(0, 0) = 0 /\ Frame!TH = 20
  BY DEF Frame!Distance, Frame!TH
<1>2. PICK v \in Int, h \in Nat : /\ EdgeAt(w, x) = <<v, h>>
                                  /\ v = RowOf(w, x - 2) /\ h = ColOf(x - 2) + 1
  BY ScreenSizes DEF EdgeAt, RowOf, ColOf
<1>3. CASE <<v, h>> \in Frame!Lines \X (Frame!H_BLANK .. H_SYNC_TOTAL + 2)
  <2>1. v \in Frame!Lines /\ h > SyncEnd + 1 /\ h <= LineLen + 1
    BY <1>3, ScreenSizes
  <2>2. Shown(p, w, x - 1) = Frame!Signal(p, v, h)
    <3>1. CASE x > 2
      BY <1>2, <2>1, <3>1 DEF Shown, Grey, RowOf, ColOf
    <3>2. CASE x <= 2
      <4>1. Shown(p, w, x - 1) = 0
        BY <3>2, NothingShown, ScreenSizes
      <4>2. h >= LineLen
        BY <1>2, <3>2, ScreenSizes DEF ColOf
      <4>3. h \notin Frame!Columns
        BY <4>2, Picture, ScreenSizes
      <4> QED
        BY <4>1, <4>3 DEF Frame!Signal
    <3> QED
      BY <3>1, <3>2
  <2>3. Shown(p, w, x - 3) = Frame!Signal(p, v, h - 2)
    <3>1. CASE x > 3 \/ x <= 2
      BY <1>2, <2>1, <3>1, ScreenSizes DEF Shown, Grey, RowOf, ColOf
    <3>2. CASE x = 3
      <4>1. Shown(p, w, x - 3) = 0
        BY <3>2, NothingShown, ScreenSizes
      <4>2. h - 2 = 0
        BY <1>2, <3>2 DEF ColOf
      <4>3. h - 2 \notin Frame!Columns
        BY <4>2, Picture, ScreenSizes
      <4> QED
        BY <4>1, <4>3 DEF Frame!Signal
    <3> QED
      BY <3>1, <3>2
  <2> QED
    BY <1>2, <1>3, <2>2, <2>3 DEF Edges
<1>4. CASE <<v, h>> \notin Frame!Lines \X (Frame!H_BLANK .. H_SYNC_TOTAL + 2)
  <2>1. EdgeAt(w, x) \notin Edges(p)
    BY <1>2, <1>4 DEF Edges
  <2>2. Shown(p, w, x - 1) = 0
    <3>1. CASE x <= 2
      BY <3>1, NothingShown, ScreenSizes
    <3>2. CASE x > 2
      <4>1. RowOf(w, x - 1) = v /\ ColOf(x - 1) = h
        BY <1>2, <3>2, ScreenSizes DEF RowOf, ColOf
      <4>2. v \notin Frame!Lines \/ h \notin Frame!Columns
        BY <1>4, ScreenSizes DEF Frame!Columns
      <4> QED
        BY <4>1, <4>2 DEF Shown, Grey, Frame!Signal
    <3> QED
      BY <3>1, <3>2
  <2>3. Shown(p, w, x - 3) = 0
    <3>1. CASE x = 3
      BY <3>1, NothingShown, ScreenSizes
    <3>2. CASE x # 3
      <4>1. RowOf(w, x - 3) = v /\ ColOf(x - 3) = h - 2
        BY <1>2, <3>2, ScreenSizes DEF RowOf, ColOf
      <4>2. h <= H_SYNC_TOTAL + 2
        BY <1>2, ScreenSizes DEF ColOf
      <4>3. v \notin Frame!Lines \/ h - 2 \notin Frame!Columns
        BY <1>4, <4>2, ScreenSizes DEF Frame!Columns
      <4> QED
        BY <4>1, <4>3 DEF Shown, Grey, Frame!Signal
    <3> QED
      BY <3>1, <3>2
  <2> QED
    BY <1>1, <2>1, <2>2, <2>3
<1> QED
  BY <1>3, <1>4

\* Where there is an edge, both syncs are high.
LEMMA EdgeIsActive ==
    ASSUME FrameShapes, SyncsFollow, whole >= 2, EdgeAt(Row, Col) \in Edges(picture)
    PROVE  ACTIV_V
<1>1. Col \in Nat /\ Row \in Nat /\ Col > 0 /\ Col <= LineLen
  BY Place, ScreenSizes
<1>2. EdgeAt(Row, Col) = <<RowOf(Row, Col - 2), ColOf(Col - 2) + 1>>
  BY <1>1, ScreenSizes DEF EdgeAt, RowOf, ColOf
<1>3. /\ RowOf(Row, Col - 2) \in Frame!Lines
      /\ ColOf(Col - 2) + 1 \in Frame!H_BLANK .. H_SYNC_TOTAL + 2
  BY <1>2 DEF Edges
<1>4. HighV(Row, Col - 2)
  BY <1>3, Picture, ScreenSizes DEF HighV
<1>5. HighH(Col - 2)
  <2>1. ColOf(Col - 2) \in Int
    BY <1>1, ScreenSizes DEF ColOf
  <2>2. ColOf(Col - 2) > SyncEnd
    BY <1>3, <2>1, ScreenSizes
  <2> QED
    BY <2>1, <2>2, ScreenSizes DEF HighH
<1>6. Run(1)
  BY DEF Run
<1> QED
  BY <1>4, <1>5, <1>6 DEF SyncsFollow

\* The sum follows the edges, and a frame is handed over with all of its own.
LEMMA SumsStep ==
    ASSUME FrameShapes, SyncsFollow, Blanked, GreysFollow, SumsFollow, Frame!Clock
    PROVE  SumsFollow'
<1>1. Frame!VgaClock
  BY DEF Frame!Clock
<1>2. IF Frame!FrameBegins THEN frameSUM' = rSUM /\ rSUM' = 0
      ELSE /\ rSUM' = (IF SS > Frame!TH /\ ACTIV_V THEN rSUM + 1 ELSE rSUM)
           /\ frameSUM' = frameSUM
  BY Zenon DEF Frame!Clock, Frame!Statistics, Frame!TR, Frame!SW_FUC_ALL_CEN
<1>3. IF Frame!FrameBegins THEN due' = Frame!Sharp(picture)
      ELSE due' = due /\ picture' = picture /\ whole' = whole
  BY DEF Frame!Clock, Frame!History, Frame!historyVars
<1>4. CASE whole <= 1 /\ ~(whole = 1 /\ V_Cont = TopRow /\ Col = 2)
  <2>1. ~(whole' >= 2)
    BY <1>4, RunBack DEF FrameShapes
  <2>2. whole' # 3
    BY <2>1
  <2> QED
    BY <2>1, <2>2 DEF SumsFollow
<1>5. CASE whole >= 1 /\ V_Cont = TopRow /\ Col = 2
  <2>1. Frame!FrameBegins
    BY <1>5, FrameBeginsAt DEF FrameShapes
  <2>2. Row = TopRow + Rows /\ Row' = TopRow /\ Col' = 3
    BY <1>1, <1>5, FrameAdvances
  <2>3. rSUM' = Cardinality(Counted(picture', Row', Col'))
    <3>1. ASSUME NEW e \in Edges(picture')
          PROVE  ~Earlier(e, TopRow, 3)
      <4>1. PICK v \in Nat, h \in Nat : e = <<v, h>> /\ v >= TopRow /\ h >= Frame!H_BLANK
        BY Picture, ScreenSizes DEF Edges
      <4>2. e[1] = v /\ e[2] = h
        BY <4>1
      <4> QED
        BY <4>1, <4>2, ScreenSizes DEF Earlier
    <3>2. Counted(picture', Row', Col') = {}
      BY <2>2, <3>1 DEF Counted
    <3> QED
      BY <1>2, <2>1, <3>2, FS_EmptySet
  <2>4. whole' = 3 => frameSUM' = due'
    <3>1. whole' = 3 => whole >= 2
      BY <1>5, RunBack DEF FrameShapes
    <3>2. ASSUME NEW e \in Edges(picture)
          PROVE  Earlier(e, Row, Col)
      <4>1. PICK v \in Nat, h \in Nat : e = <<v, h>> /\ v < Rows
        BY Picture, ScreenSizes DEF Edges
      <4>2. e[1] = v /\ e[2] = h
        BY <4>1
      <4> QED
        BY <2>2, <4>1, <4>2, ScreenSizes DEF Earlier
    <3>3. Counted(picture, Row, Col) = Edges(picture)
      BY <3>2 DEF Counted
    <3>4. Frame!Sharp(picture) = Cardinality(Edges(picture))
      <4>1. Frame!Sharp(picture) = Frame!Cardinality(Edges(picture))
        BY Zenon DEF Frame!Sharp, Edges
      <4>2. Frame!Cardinality(Edges(picture)) = Cardinality(Edges(picture))
        BY DEF Frame!Cardinality, Cardinality
      <4> QED
        BY <4>1, <4>2
    <3> QED
      BY <1>2, <1>3, <2>1, <3>1, <3>3, <3>4 DEF SumsFollow
  <2> QED
    BY <2>3, <2>4 DEF SumsFollow
<1>6. CASE whole >= 2 /\ ~(V_Cont = TopRow /\ Col = 2)
  <2>1. ~Frame!FrameBegins
    BY <1>6, FrameBeginsAt DEF FrameShapes
  <2>2. /\ Col \in Nat /\ Row \in Nat /\ Col > 0 /\ Col <= LineLen
        /\ Col' \in Nat /\ Row' \in Nat
        /\ IF Col < LineLen THEN Row' = Row /\ Col' = Col + 1 ELSE Row' = Row + 1 /\ Col' = 1
    BY <1>1, <1>6, FrameAdvances, Place, ScreenSizes
  <2>3. SS > Frame!TH <=> EdgeAt(Row, Col) \in Edges(picture)
    BY <1>6, <2>2, EdgeSeen DEF GreysFollow
  <2>4. EdgeAt(Row, Col) \in Edges(picture) => ACTIV_V
    BY <1>6, EdgeIsActive
  <2>5. EdgeAt(Row, Col) \notin Counted(picture, Row, Col)
    <3>1. CASE Col > 2
      <4>1. EdgeAt(Row, Col)[1] = Row /\ EdgeAt(Row, Col)[2] = Col - 1
        BY <3>1 DEF EdgeAt
      <4> QED
        BY <2>2, <4>1 DEF Counted, Earlier
    <3>2. CASE Col <= 2
      <4>1. EdgeAt(Row, Col)[1] = Row - 1 /\ EdgeAt(Row, Col)[2] = (Col - 1) + LineLen
        BY <2>2, <3>2 DEF EdgeAt
      <4> QED
        BY <2>2, <3>2, <4>1, ScreenSizes DEF Counted, Earlier
    <3> QED
      BY <2>2, <3>1, <3>2
  <2>6. Counted(picture, Row', Col') = IF EdgeAt(Row, Col) \in Edges(picture)
                                       THEN Counted(picture, Row, Col) \cup {EdgeAt(Row, Col)}
                                       ELSE Counted(picture, Row, Col)
    BY <2>2, OneMore
  <2>7. rSUM' = Cardinality(Counted(picture, Row', Col'))
    <3>1. rSUM = Cardinality(Counted(picture, Row, Col)) /\ IsFiniteSet(Counted(picture, Row, Col))
      BY <1>6, EdgesFinite DEF SumsFollow
    <3>2. CASE EdgeAt(Row, Col) \in Edges(picture)
      <4>1. Cardinality(Counted(picture, Row', Col')) = Cardinality(Counted(picture, Row, Col)) + 1
        BY <2>5, <2>6, <3>1, <3>2, FS_AddElement
      <4> QED
        BY <1>2, <2>1, <2>3, <2>4, <3>1, <3>2, <4>1
    <3>3. CASE EdgeAt(Row, Col) \notin Edges(picture)
      BY <1>2, <2>1, <2>3, <2>6, <3>1, <3>3
    <3> QED
      BY <3>2, <3>3
  <2> QED
    BY <1>2, <1>3, <1>6, <2>1, <2>7 DEF SumsFollow
<1> QED
  BY <1>4, <1>5, <1>6 DEF FrameShapes
-----------------------------------------------------------------------------
(* The window of a frame.                                                   *)

\* The pixels requested in row w before column x.
InRows(w) == WinRow <= w /\ w < WinRow + V_SYNC_ACT
Requests(w, x) ==
    IF ~InRows(w) \/ x <= WinCol THEN 0
    ELSE IF x < WinCol + H_SYNC_ACT THEN x - WinCol ELSE H_SYNC_ACT

\* The line is counted, and the counter of columns cleared, in column SyncEnd + 2.
Begun(w, x) == IF x > SyncEnd + 2 THEN w ELSE w - 1
RowsCounted(w, x) ==
    LET n == (Begun(w, x) - TopRow) + 1
    IN  IF n < Frame!FULL_COUNT THEN n ELSE Frame!FULL_COUNT

CountersFollow ==
    /\ {H_CNT, H_CEN, V_CNT, V_CEN} \subseteq Nat
    /\ Run(SyncEnd + 2) =>
         H_CNT = Requests(Begun(Row, Col), IF Col > SyncEnd + 2 THEN Col ELSE LineLen)
    /\ whole >= 2 \/ V_Cont >= 3 \/ (V_Cont = 2 /\ Col > SyncEnd + 2) =>
         H_CEN = Requests(Begun(Row, Col) - 1, LineLen)
    /\ whole >= 2 => V_CNT = RowsCounted(Row, Col)
    /\ whole = 3 => V_CEN = Frame!FULL_COUNT

\* The counters' range.
LEMMA WrapSize == Frame!WRAP \in Nat /\ Frame!WRAP > 0
BY DEF Frame!WRAP

\* What the proofs use of the centre.
LEMMA CentreSizes ==
    /\ Frame!FULL_COUNT \in Nat /\ Frame!FULL_COUNT = Rows - V_SYNC_CYC
    /\ Frame!FULL_COUNT < Frame!WRAP /\ H_SYNC_ACT < Frame!WRAP
    /\ H_OFF \in Nat /\ V_OFF \in Nat
    /\ H_OFF \div 2 < H_SYNC_ACT \div 2 /\ V_OFF \div 2 < Frame!FULL_COUNT \div 2
    /\ WinRow < ((TopRow - 1) + Frame!FULL_COUNT \div 2) - V_OFF \div 2
    /\ ((TopRow - 1) + Frame!FULL_COUNT \div 2) + V_OFF \div 2 <= WinRow + V_SYNC_ACT
<1>1. /\ Frame!FULL_COUNT = Rows - V_SYNC_CYC /\ Rows = V_SYNC_TOTAL + 1
      /\ TopRow - 1 = V_SYNC_FRONT + V_SYNC_CYC
  BY ScreenSizes DEF Frame!FULL_COUNT
<1>2. H_OFF \in Nat /\ V_OFF \in Nat
  BY StartAndFrameAssumption DEF Frame!SharpnessAssumption
<1>3. /\ V_SYNC_TOTAL < Frame!WRAP /\ H_SYNC_ACT < Frame!WRAP
      /\ H_OFF \div 2 < H_SYNC_ACT \div 2 /\ V_OFF \div 2 < Frame!FULL_COUNT \div 2
      /\ WinRow < ((V_SYNC_FRONT + V_SYNC_CYC) + Frame!FULL_COUNT \div 2) - V_OFF \div 2
      /\ ((V_SYNC_FRONT + V_SYNC_CYC) + Frame!FULL_COUNT \div 2) + V_OFF \div 2
           <= WinRow + V_SYNC_ACT
  BY StartAndFrameAssumption DEF Frame!ScreenAssumption, WinRow
<1>4. Frame!FULL_COUNT \in Nat /\ Frame!FULL_COUNT < Frame!WRAP
  <2>1. V_SYNC_TOTAL < Frame!WRAP
    BY <1>3, Zenon
  <2> QED
    BY <1>1, <2>1, ScreenSizes, WrapSize
<1>5. /\ WinRow < ((TopRow - 1) + Frame!FULL_COUNT \div 2) - V_OFF \div 2
      /\ ((TopRow - 1) + Frame!FULL_COUNT \div 2) + V_OFF \div 2 <= WinRow + V_SYNC_ACT
  BY <1>1, <1>3, Zenon
<1> QED
  BY <1>1, <1>2, <1>3, <1>4, <1>5

\* What a counter that wraps keeps.
LEMMA Wrapped ==
    ASSUME NEW m \in Nat, m > 0, NEW x \in Int
    PROVE  /\ x % m \in Nat
           /\ x \in 0 .. m - 1 => x % m = x
           /\ x < 0 /\ x + m > 0 => x % m = x + m
<1>1. x % m \in 0 .. m - 1
  BY Z3
<1>2. x \in 0 .. m - 1 => x % m = x
  BY Z3
<1>3. x < 0 /\ x + m > 0 => x % m = x + m
  BY Z3
<1> QED
  BY <1>1, <1>2, <1>3

\* What is compared with the middle.
LEMMA CentreIsMiddle ==
    ASSUME NEW c \in Nat, NEW n \in Nat, NEW off \in Nat, n < Frame!WRAP, off \div 2 < n \div 2
    PROVE  Frame!InCentre(c, n, off) <=> Frame!Middle(c, n, off)
<1>1. n \div 2 \in Nat /\ off \div 2 \in Nat /\ 2 * (n \div 2) <= n
  BY Z3
<1>2. PICK h \in Nat, o \in Nat : h = n \div 2 /\ o = off \div 2 /\ 2 * h <= n
  BY <1>1
<1>3. o < h
  BY <1>2
<1>4. (h - o) % Frame!WRAP = h - o /\ (h + o) % Frame!WRAP = h + o
  <2>1. h - o \in 0 .. Frame!WRAP - 1 /\ h + o \in 0 .. Frame!WRAP - 1
    BY <1>2, <1>3, WrapSize
  <2> QED
    BY <2>1, Wrapped, WrapSize
<1> QED
  BY <1>2, <1>4 DEF Frame!InCentre, Frame!Middle

\* Nothing is in the middle of an empty line.
LEMMA NoCentre ==
    ASSUME NEW c \in Nat, NEW n \in Nat, NEW off \in Nat, n < Frame!WRAP, off \div 2 < n \div 2
    PROVE  ~Frame!InCentre(c, 0, off)
<1>1. n \div 2 \in Nat /\ off \div 2 \in Nat /\ 2 * (n \div 2) <= n /\ 0 \div 2 = 0
  BY Z3
<1>2. PICK h \in Nat, o \in Nat : h = n \div 2 /\ o = off \div 2 /\ 2 * h <= n
  BY <1>1
<1>3. 2 * o < Frame!WRAP
  BY <1>2, WrapSize
<1>4. o # 0 => (0 - o) % Frame!WRAP = Frame!WRAP - o
  <2>1. /\ 0 - o \in Int /\ (0 - o) + Frame!WRAP = Frame!WRAP - o /\ (0 - o) + Frame!WRAP > 0
        /\ o # 0 => 0 - o < 0
    BY <1>2, <1>3, WrapSize
  <2> QED
    BY <2>1, Wrapped, WrapSize
<1>5. (0 + o) % Frame!WRAP = o
  <2>1. 0 + o \in 0 .. Frame!WRAP - 1 /\ 0 + o = o
    BY <1>2, <1>3, WrapSize
  <2> QED
    BY <2>1, Wrapped, WrapSize
<1>6. Frame!InCentre(c, 0, off) <=> c >= (0 - o) % Frame!WRAP /\ c < (0 + o) % Frame!WRAP
  BY <1>1, <1>2 DEF Frame!InCentre
<1> QED
  BY <1>2, <1>3, <1>4, <1>5, <1>6, WrapSize

\* A pixel is requested in the window, wherever it is looked at from.
LEMMA RequestPlace ==
    ASSUME FrameShapes
    PROVE  Frame!oRequest <=> InRows(Row) /\ Col >= WinCol /\ Col < WinCol + H_SYNC_ACT
<1>1. Frame!oRequest <=> /\ H_Cont >= WinCol /\ H_Cont < WinCol + H_SYNC_ACT
                         /\ V_Cont >= WinRow /\ V_Cont < WinRow + V_SYNC_ACT
  BY DEF Frame!oRequest, Frame!InWindow, WinCol, WinRow
<1> QED
  BY <1>1, ScreenSizes DEF FrameShapes, Col, Row, InRows

\* A line begins in one column.
LEMMA LineBeginsAt ==
    ASSUME FrameShapes, SyncsFollow, Run(1)
    PROVE  Frame!LineBegins <=> Col = SyncEnd + 2
<1>1. (HS <=> HighH(Col - 1)) /\ (rHS <=> HighH(Col - 2))
  BY Place DEF SyncsFollow, Run
<1>2. ~HighH(Col - 2) /\ HighH(Col - 1) <=> Col = SyncEnd + 2
  BY Place, ScreenSizes DEF HighH, ColOf
<1> QED
  BY <1>1, <1>2 DEF Frame!LineBegins

\* The counters after a clock.
LEMMA CountersTick ==
    ASSUME CountersFollow, Ticks
    PROVE  /\ IF Frame!LineBegins THEN H_CNT' = 0 /\ H_CEN' = H_CNT
              ELSE /\ H_CNT' = (IF Frame!oRequest THEN (H_CNT + 1) % Frame!WRAP ELSE H_CNT)
                   /\ H_CEN' = H_CEN
           /\ IF Frame!FrameBegins THEN V_CNT' = 0 /\ V_CEN' = V_CNT
              ELSE /\ V_CNT' = (IF Frame!LineBegins /\ VS THEN (V_CNT + 1) % Frame!WRAP ELSE V_CNT)
                   /\ V_CEN' = V_CEN
           /\ ACTIV_C' = (/\ Frame!InCentre(H_CNT, H_CEN, H_OFF)
                          /\ Frame!InCentre(V_CNT, V_CEN, V_OFF))
           /\ {H_CNT', H_CEN', V_CNT', V_CEN'} \subseteq Nat
<1>9. Frame!Counters
  BY DEF Ticks, Frame!Clock, Frame!HeldClock
<1>10. IF Frame!LineBegins THEN H_CNT' = 0 /\ H_CEN' = H_CNT
      ELSE /\ H_CNT' = (IF Frame!oRequest THEN (H_CNT + 1) % Frame!WRAP ELSE H_CNT)
           /\ H_CEN' = H_CEN
  BY <1>9 DEF Frame!Counters
<1>3. IF Frame!FrameBegins THEN V_CNT' = 0 /\ V_CEN' = V_CNT
       ELSE /\ V_CNT' = (IF Frame!LineBegins /\ VS THEN (V_CNT + 1) % Frame!WRAP ELSE V_CNT)
            /\ V_CEN' = V_CEN
  BY <1>9 DEF Frame!Counters
<1>4. ACTIV_C' = (/\ Frame!InCentre(H_CNT, H_CEN, H_OFF)
                   /\ Frame!InCentre(V_CNT, V_CEN, V_OFF))
  BY <1>9, Zenon DEF Frame!Counters
<1>11. \A n \in Nat : (n + 1) % Frame!WRAP \in Nat
  <2>1. \A n \in Nat : n + 1 \in Int
    OBVIOUS
  <2> QED
    BY <2>1, Wrapped, WrapSize
<1>12. H_CNT \in Nat /\ H_CEN \in Nat /\ V_CNT \in Nat /\ V_CEN \in Nat
  BY DEF CountersFollow
<1>13. H_CNT' \in Nat /\ H_CEN' \in Nat
  BY <1>10, <1>11, <1>12
<1>14. V_CNT' \in Nat /\ V_CEN' \in Nat
  BY <1>3, <1>11, <1>12
<1> QED
  BY <1>10, <1>3, <1>4, <1>13, <1>14
\* The counters follow the place.
LEMMA CountersStep ==
    ASSUME FrameShapes, SyncsFollow, CountersFollow, Frame!Clock
    PROVE  CountersFollow'
<1>1. Frame!VgaClock /\ Ticks
  BY DEF Frame!Clock, Ticks
<1>2. /\ Col \in Nat /\ Row \in Nat /\ Col > 0 /\ Col <= LineLen
      /\ Row >= TopRow /\ Row <= TopRow + Rows
      /\ Row = TopRow + Rows => Col <= 2
      /\ Col' \in Nat /\ Row' \in Nat
      /\ Row = TopRow + Rows /\ Col = 2 <=> V_Cont = TopRow /\ Col = 2
      /\ Row = TopRow + Rows /\ Col = 2 => Row' = TopRow /\ Col' = 3
      /\ ~(Row = TopRow + Rows /\ Col = 2) /\ Col < LineLen => Row' = Row /\ Col' = Col + 1
      /\ Col = LineLen => Row' = Row + 1 /\ Col' = 1
  BY <1>1, FrameAdvances, Place, ScreenSizes DEF Row, FrameShapes
<1>3. Run(SyncEnd + 2)' => Run(SyncEnd + 1)
  <2>1. SyncEnd + 1 \in Nat /\ (SyncEnd + 1) + 1 = SyncEnd + 2 /\ SyncEnd + 2 < LineLen
    BY ScreenSizes
  <2> QED
    BY <2>1, RunBack
<1>4. Run(SyncEnd + 1) => Run(1)
  BY <1>2, ScreenSizes DEF Run
<1>5. Run(SyncEnd + 1) /\ Col # SyncEnd + 2 => Run(SyncEnd + 2)
  BY <1>2, ScreenSizes DEF Run
<1>6. Run(1) => (Frame!LineBegins <=> Col = SyncEnd + 2)
  BY LineBeginsAt
<1>7. Run(1) \/ whole >= 1 => (Frame!FrameBegins <=> Row = TopRow + Rows /\ Col = 2)
  BY <1>2, FrameBeginsAt
<1>8. PICK r \in Nat, c \in Nat, r2 \in Nat, c2 \in Nat :
          r = Row /\ c = Col /\ r2 = Row' /\ c2 = Col'
  BY <1>2
<1>9. Col # SyncEnd + 2 /\ ~(Row = TopRow + Rows /\ Col = 2) =>
         Begun(Row', Col') = Begun(Row, Col)
  <2>1. c # SyncEnd + 2 /\ ~(r = TopRow + Rows /\ c = 2) =>
          (IF c2 > SyncEnd + 2 THEN r2 ELSE r2 - 1) = (IF c > SyncEnd + 2 THEN r ELSE r - 1)
    <3>1. c <= LineLen
      BY <1>2, <1>8
    <3>2. ~(r = TopRow + Rows /\ c = 2) /\ c < LineLen => r2 = r /\ c2 = c + 1
      BY <1>2, <1>8
    <3>3. c = LineLen => r2 = r + 1 /\ c2 = 1
      BY <1>2, <1>8
    <3> QED
      BY <3>1, <3>2, <3>3, ScreenSizes
  <2> QED
    BY <1>8, <2>1 DEF Begun
<1>10. Run(SyncEnd + 2)' =>
        H_CNT' = Requests(Begun(Row, Col)', IF Col' > SyncEnd + 2 THEN Col' ELSE LineLen)
  <2>1. SUFFICES ASSUME Run(SyncEnd + 2)'
                 PROVE  H_CNT' = Requests(Begun(Row', Col'),
                                          IF Col' > SyncEnd + 2 THEN Col' ELSE LineLen)
    OBVIOUS
  <2>2. CASE Col = SyncEnd + 2
    <3>1. H_CNT' = 0
      BY <1>1, <1>3, <1>4, <1>6, <2>1, <2>2, CountersTick
    <3>2. Row' = Row /\ Col' = SyncEnd + 3
      BY <1>2, <2>2, ScreenSizes
    <3> QED
      BY <3>1, <3>2, ScreenSizes DEF Requests
  <2>3. CASE Col # SyncEnd + 2
    <3>1. H_CNT = Requests(Begun(Row, Col), IF Col > SyncEnd + 2 THEN Col ELSE LineLen)
      BY <1>3, <1>5, <2>1, <2>3 DEF CountersFollow
    <3>2. H_CNT' = IF Frame!oRequest THEN (H_CNT + 1) % Frame!WRAP ELSE H_CNT
      BY <1>1, <1>3, <1>4, <1>6, <2>1, <2>3, CountersTick
    <3>3. CASE Frame!oRequest
      <4>1. InRows(Row) /\ Col >= WinCol /\ Col < WinCol + H_SYNC_ACT
        BY <3>3, RequestPlace
      <4>2. H_CNT = Col - WinCol /\ H_CNT + 1 \in 0 .. Frame!WRAP - 1
        BY <1>2, <3>1, <4>1, ScreenSizes, CentreSizes, WrapSize DEF Requests, Begun
      <4>3. H_CNT' = (Col - WinCol) + 1
        BY <3>2, <3>3, <4>2, Wrapped, WrapSize
      <4>4. ~(Row = TopRow + Rows)
        BY <4>1, ScreenSizes DEF InRows
      <4>5. Col < LineLen => Row' = Row /\ Col' = Col + 1
        BY <1>2, <4>4
      <4>6. Col = LineLen => Row' = Row + 1 /\ Col' = 1
        BY <1>2
      <4>7. Col > SyncEnd + 2 /\ Col # 2 /\ Col # SyncEnd + 2
        BY <1>2, <4>1, ScreenSizes
      <4>8. Begun(Row', Col') = Begun(Row, Col) /\ Begun(Row, Col) = Row
        BY <1>9, <4>7 DEF Begun
      <4>9. Requests(Row, IF Col' > SyncEnd + 2 THEN Col' ELSE LineLen) = (Col - WinCol) + 1
        <5>1. CASE c < LineLen
          BY <1>2, <1>8, <4>1, <4>5, <5>1, ScreenSizes DEF Requests
        <5>2. CASE c = LineLen
          BY <1>2, <1>8, <4>1, <4>6, <5>2, ScreenSizes DEF Requests
        <5> QED
          BY <1>2, <1>8, <5>1, <5>2, ScreenSizes
      <4> QED
        BY <4>3, <4>8, <4>9
    <3>4. CASE ~Frame!oRequest
      <4>1. ~(InRows(Row) /\ Col >= WinCol /\ Col < WinCol + H_SYNC_ACT)
        BY <3>4, RequestPlace
      <4>2. H_CNT' = H_CNT
        BY <3>2, <3>4
      <4>3. CASE Row = TopRow + Rows /\ Col = 2
        <5>1. Begun(Row, Col) = (TopRow + Rows) - 1 /\ Begun(Row', Col') = TopRow - 1
          BY <1>2, <4>3, ScreenSizes DEF Begun
        <5>2. ~InRows((TopRow + Rows) - 1) /\ ~InRows(TopRow - 1)
          BY ScreenSizes DEF InRows
        <5> QED
          BY <3>1, <4>2, <5>1, <5>2 DEF Requests
      <4>4. CASE ~(Row = TopRow + Rows /\ Col = 2)
        <5>1. Begun(Row', Col') = Begun(Row, Col)
          BY <1>9, <2>3, <4>4
        <5> DEFINE v == Begun(Row, Col)
        <5>2. H_CNT' = Requests(v, IF c > SyncEnd + 2 THEN c ELSE LineLen)
          BY <1>8, <3>1, <4>2
        <5>3. c > SyncEnd + 2 => v = Row
          BY <1>8 DEF Begun
        <5>4. c > SyncEnd + 2 => ~(InRows(v) /\ c >= WinCol /\ c < WinCol + H_SYNC_ACT)
          BY <1>8, <4>1, <5>3
        <5>5. c = LineLen => c2 = 1
          BY <1>2, <1>8
        <5>6. c < LineLen => c2 = c + 1
          BY <1>2, <1>8, <4>4
        <5> HIDE DEF v
        <5>7. Requests(v, IF c2 > SyncEnd + 2 THEN c2 ELSE LineLen)
                = Requests(v, IF c > SyncEnd + 2 THEN c ELSE LineLen)
          <6>1. CASE c > SyncEnd + 2 /\ c < LineLen
            BY <5>4, <5>6, <6>1, ScreenSizes DEF Requests
          <6>2. CASE c = LineLen
            BY <5>4, <5>5, <6>2, ScreenSizes DEF Requests
          <6>3. CASE ~(c > SyncEnd + 2)
            <7>1. c # SyncEnd + 2 /\ c < LineLen
              BY <1>8, <2>3, <6>3, ScreenSizes
            <7>2. ~(c2 > SyncEnd + 2)
              BY <5>6, <6>3, <7>1, ScreenSizes
            <7> QED
              BY <6>3, <7>2
          <6>4. c <= LineLen
            BY <1>2, <1>8
          <6> QED
            BY <6>1, <6>2, <6>3, <6>4, ScreenSizes
        <5> QED
          BY <1>8, <5>1, <5>2, <5>7 DEF v
      <4> QED
        BY <4>3, <4>4
    <3> QED
      BY <3>3, <3>4
  <2> QED
    BY <2>2, <2>3
<1>11. whole' >= 2 \/ V_Cont' >= 3 \/ (V_Cont' = 2 /\ Col' > SyncEnd + 2) =>
        H_CEN' = Requests(Begun(Row', Col') - 1, LineLen)
  <2>1. SUFFICES ASSUME whole' >= 2 \/ V_Cont' >= 3 \/ (V_Cont' = 2 /\ Col' > SyncEnd + 2)
                 PROVE  H_CEN' = Requests(Begun(Row', Col') - 1, LineLen)
    OBVIOUS
  <2>2. /\ whole >= 2 \/ V_Cont >= 3 \/ (V_Cont = 2 /\ Col >= SyncEnd + 2)
        /\ Run(SyncEnd + 2)
    <3>1. whole' >= 2 => whole >= 2 \/ V_Cont >= 3
      BY RunBack, ScreenSizes
    <3>2. V_Cont' = IF Col < LineLen THEN V_Cont
                    ELSE IF V_Cont < V_SYNC_TOTAL THEN V_Cont + 1 ELSE 0
      BY <1>1, FrameAdvances
    <3>3. whole >= 2 \/ V_Cont >= 3 \/ (V_Cont = 2 /\ Col >= SyncEnd + 2)
      BY <1>2, <2>1, <3>1, <3>2, ScreenSizes DEF FrameShapes
    <3> QED
      BY <3>3, ScreenSizes DEF Run, FrameShapes
  <2>3. Run(1)
    BY <2>2, ScreenSizes DEF Run
  <2>4. CASE Col = SyncEnd + 2
    <3>1. H_CEN' = H_CNT
      BY <1>1, <1>6, <2>3, <2>4, CountersTick
    <3>2. H_CNT = Requests(Row - 1, LineLen)
      BY <1>2, <2>2, <2>4, ScreenSizes DEF CountersFollow, Begun
    <3>3. Row' = Row /\ Col' = SyncEnd + 3
      BY <1>2, <2>4, ScreenSizes
    <3> QED
      BY <3>1, <3>2, <3>3, ScreenSizes DEF Begun
  <2>5. CASE Col # SyncEnd + 2
    <3>1. H_CEN' = H_CEN
      BY <1>1, <1>6, <2>3, <2>5, CountersTick
    <3>2. H_CEN = Requests(Begun(Row, Col) - 1, LineLen)
      BY <1>2, <2>2, <2>5, ScreenSizes DEF CountersFollow
    <3>3. CASE Row = TopRow + Rows /\ Col = 2
      <4>1. Begun(Row, Col) - 1 = (TopRow + Rows) - 2 /\ Begun(Row', Col') - 1 = TopRow - 2
        BY <1>2, <3>3, ScreenSizes DEF Begun
      <4>2. ~InRows((TopRow + Rows) - 2) /\ ~InRows(TopRow - 2)
        BY ScreenSizes DEF InRows
      <4> QED
        BY <3>1, <3>2, <4>1, <4>2 DEF Requests
    <3>4. CASE ~(Row = TopRow + Rows /\ Col = 2)
      <4>1. Begun(Row', Col') = Begun(Row, Col)
        BY <1>9, <2>5, <3>4
      <4> QED
        BY <3>1, <3>2, <4>1
    <3> QED
      BY <3>3, <3>4
  <2> QED
    BY <2>4, <2>5
<1>12. whole' >= 2 => V_CNT' = RowsCounted(Row', Col')
  <2>1. SUFFICES ASSUME whole' >= 2
                 PROVE  V_CNT' = RowsCounted(Row', Col')
    OBVIOUS
  <2>2. whole >= 2 \/ (whole = 1 /\ Row = TopRow + Rows /\ Col = 2)
    BY <1>2, <2>1, RunBack
  <2>3. CASE Row = TopRow + Rows /\ Col = 2
    <3>1. V_CNT' = 0
      BY <1>1, <1>7, <2>2, <2>3, CountersTick DEF FrameShapes
    <3>2. (Begun(Row', Col') - TopRow) + 1 = 0
      BY <1>2, <2>3, ScreenSizes DEF Begun
    <3> QED
      BY <3>1, <3>2, CentreSizes, ScreenSizes DEF RowsCounted
  <2>4. CASE whole >= 2 /\ ~(Row = TopRow + Rows /\ Col = 2)
    <3>1. V_CNT' = IF Frame!LineBegins /\ VS THEN (V_CNT + 1) % Frame!WRAP ELSE V_CNT
      BY <1>1, <1>7, <2>4, CountersTick DEF FrameShapes
    <3>2. V_CNT = RowsCounted(Row, Col)
      BY <2>4 DEF CountersFollow
    <3>3. Frame!LineBegins <=> Col = SyncEnd + 2
      BY <1>6, <2>4 DEF Run
    <3>4. CASE Col # SyncEnd + 2
      <4>1. Begun(Row', Col') = Begun(Row, Col)
        BY <1>9, <2>4, <3>4
      <4> QED
        BY <3>1, <3>2, <3>3, <3>4, <4>1 DEF RowsCounted
    <3>5. CASE Col = SyncEnd + 2
      <4>1. Row' = Row /\ Col' = SyncEnd + 3 /\ Row < TopRow + Rows
        BY <1>2, <3>5, ScreenSizes
      <4>2. VS <=> ~(Row > Rows + V_SYNC_FRONT)
        <5>1. VS <=> HighV(Row, Col - 1)
          BY <2>4 DEF SyncsFollow, FrameShapes
        <5> QED
          BY <1>2, <3>5, <4>1, <5>1, ScreenSizes DEF HighV, RowOf
      <4>3. Begun(Row, Col) = Row - 1 /\ Begun(Row', Col') = Row
        BY <3>5, <4>1, ScreenSizes DEF Begun
      <4>4. CASE VS
        <5>1. V_CNT = Row - TopRow /\ (Row - TopRow) + 1 <= Frame!FULL_COUNT
          BY <1>2, <3>2, <4>2, <4>3, <4>4, ScreenSizes, CentreSizes DEF RowsCounted
        <5>2. V_CNT + 1 \in 0 .. Frame!WRAP - 1
          BY <1>2, <5>1, CentreSizes, WrapSize, ScreenSizes
        <5>3. V_CNT' = V_CNT + 1
          BY <3>1, <3>3, <3>5, <4>4, <5>2, Wrapped, WrapSize
        <5> QED
          BY <1>2, <4>3, <5>1, <5>3, CentreSizes, ScreenSizes DEF RowsCounted
      <4>5. CASE ~VS
        <5>1. V_CNT' = V_CNT
          BY <3>1, <4>5
        <5> QED
          BY <1>2, <3>2, <4>2, <4>3, <4>5, <5>1, CentreSizes, ScreenSizes DEF RowsCounted
      <4> QED
        BY <4>4, <4>5
    <3> QED
      BY <3>4, <3>5
  <2> QED
    BY <2>2, <2>3, <2>4
<1>13. whole' = 3 => V_CEN' = Frame!FULL_COUNT
  <2>1. SUFFICES ASSUME whole' = 3 PROVE V_CEN' = Frame!FULL_COUNT
    OBVIOUS
  <2>2. whole = 3 \/ (whole = 2 /\ Row = TopRow + Rows /\ Col = 2)
    BY <1>2, <2>1, RunBack
  <2>3. CASE Row = TopRow + Rows /\ Col = 2
    <3>1. V_CEN' = V_CNT
      BY <1>1, <1>7, <2>2, <2>3, CountersTick DEF FrameShapes
    <3>2. V_CNT = RowsCounted(Row, Col)
      BY <2>2 DEF CountersFollow
    <3>3. (Begun(Row, Col) - TopRow) + 1 = Rows
      BY <2>3, ScreenSizes DEF Begun
    <3> QED
      BY <3>1, <3>2, <3>3, CentreSizes, ScreenSizes DEF RowsCounted
  <2>4. CASE whole = 3 /\ ~(Row = TopRow + Rows /\ Col = 2)
    <3>1. ~Frame!FrameBegins
      BY <1>7, <2>4
    <3> QED
      BY <1>1, <2>4, <3>1, CountersTick DEF CountersFollow
  <2> QED
    BY <2>2, <2>3, <2>4
<1>14. {H_CNT', H_CEN', V_CNT', V_CEN'} \subseteq Nat
  BY <1>1, CountersTick
<1> QED
  BY <1>10, <1>11, <1>12, <1>13, <1>14 DEF CountersFollow
\* The centre window, one clock behind.
CentreFollows ==
    whole = 3 /\ Col > SyncEnd + 2 =>
      (ACTIV_C <=> /\ Frame!Middle((Col - 1) - WinCol, H_SYNC_ACT, H_OFF)
                   /\ Frame!Middle(V_Cont - (TopRow - 1), Frame!FULL_COUNT, V_OFF))

\* What a count and a distance are to the middle.
LEMMA InMiddle ==
    ASSUME NEW n \in Nat, NEW off \in Nat, off \div 2 < n \div 2
    PROVE  /\ \A c \in Int : c <= 0 \/ c >= n => ~Frame!Middle(c, n, off)
           /\ ~Frame!Middle(0, n, off) /\ ~Frame!Middle(n, n, off)
<1>1. n \div 2 \in Nat /\ off \div 2 \in Nat /\ 2 * (n \div 2) <= n
  BY Z3
<1>2. PICK h \in Nat, o \in Nat : h = n \div 2 /\ o = off \div 2 /\ 2 * h <= n /\ o < h
  BY <1>1
<1>3. \A c \in Int : Frame!Middle(c, n, off) <=> c >= h - o /\ c < h + o
  BY <1>2 DEF Frame!Middle
<1> QED
  BY <1>2, <1>3

\* The columns: what is counted of them on this line and on the last one.
LEMMA CentreColumns ==
    ASSUME NEW w \in Nat, NEW x \in Nat
    PROVE  /\ Requests(w, x) \in Nat
           /\ ~Frame!InCentre(Requests(w - 1, LineLen), Requests(w - 2, LineLen), H_OFF)
           /\ ~(InRows(w) /\ InRows(w - 1)) =>
                ~Frame!InCentre(Requests(w, x), Requests(w - 1, LineLen), H_OFF)
           /\ InRows(w) /\ InRows(w - 1) =>
                (Frame!InCentre(Requests(w, x), Requests(w - 1, LineLen), H_OFF)
                   <=> Frame!Middle(x - WinCol, H_SYNC_ACT, H_OFF))
<1>1. /\ H_SYNC_ACT \in Nat /\ H_OFF \in Nat /\ H_SYNC_ACT < Frame!WRAP
      /\ H_OFF \div 2 < H_SYNC_ACT \div 2
  BY CentreSizes, ScreenSizes
<1>2. \A c \in Nat : /\ Frame!InCentre(c, H_SYNC_ACT, H_OFF) <=> Frame!Middle(c, H_SYNC_ACT, H_OFF)
                     /\ ~Frame!InCentre(c, 0, H_OFF)
  BY <1>1, CentreIsMiddle, NoCentre
<1>3. /\ \A c \in Int : c <= 0 \/ c >= H_SYNC_ACT => ~Frame!Middle(c, H_SYNC_ACT, H_OFF)
      /\ ~Frame!Middle(0, H_SYNC_ACT, H_OFF) /\ ~Frame!Middle(H_SYNC_ACT, H_SYNC_ACT, H_OFF)
  BY <1>1, InMiddle
<1>4. \A v \in Int : Requests(v, LineLen) = IF InRows(v) THEN H_SYNC_ACT ELSE 0
  BY ScreenSizes DEF Requests
<1>5. Requests(w, x) \in Nat
  BY ScreenSizes DEF Requests
<1>6. ~Frame!InCentre(Requests(w - 1, LineLen), Requests(w - 2, LineLen), H_OFF)
  <2>1. w - 1 \in Int /\ w - 2 \in Int
    OBVIOUS
  <2>2. /\ Requests(w - 1, LineLen) \in {0, H_SYNC_ACT}
        /\ Requests(w - 2, LineLen) \in {0, H_SYNC_ACT}
    BY <1>4, <2>1
  <2>3. 0 \in Nat
    OBVIOUS
  <2> QED
    BY <1>1, <1>2, <1>3, <2>2, <2>3
<1>7. w - 1 \in Int
  OBVIOUS
<1>8. CASE InRows(w) /\ InRows(w - 1)
  <2>1. Requests(w - 1, LineLen) = H_SYNC_ACT
    BY <1>4, <1>7, <1>8
  <2>2. Requests(w, x) = IF x <= WinCol THEN 0
                         ELSE IF x < WinCol + H_SYNC_ACT THEN x - WinCol ELSE H_SYNC_ACT
    BY <1>8 DEF Requests
  <2>3. Frame!Middle(Requests(w, x), H_SYNC_ACT, H_OFF)
          <=> Frame!Middle(x - WinCol, H_SYNC_ACT, H_OFF)
    <3>1. x - WinCol \in Int
      BY ScreenSizes
    <3>2. CASE x <= WinCol
      <4>1. x - WinCol <= 0
        BY <3>2, ScreenSizes
      <4> QED
        BY <1>3, <2>2, <3>1, <3>2, <4>1
    <3>3. CASE x >= WinCol + H_SYNC_ACT
      <4>1. x - WinCol >= H_SYNC_ACT /\ ~(x <= WinCol) /\ ~(x < WinCol + H_SYNC_ACT)
        BY <3>3, ScreenSizes
      <4> QED
        BY <1>3, <2>2, <3>1, <4>1
    <3>4. CASE ~(x <= WinCol) /\ ~(x >= WinCol + H_SYNC_ACT)
      <4>1. x < WinCol + H_SYNC_ACT
        BY <3>4, ScreenSizes
      <4> QED
        BY <2>2, <3>4, <4>1
    <3> QED
      BY <3>2, <3>3, <3>4
  <2> QED
    BY <1>2, <1>5, <1>6, <1>8, <2>1, <2>3
<1>9. CASE ~(InRows(w) /\ InRows(w - 1))
  <2>1. InRows(w) \/ Requests(w, x) = 0
    BY DEF Requests
  <2>2. InRows(w - 1) \/ Requests(w - 1, LineLen) = 0
    BY <1>4, <1>7
  <2>3. Requests(w - 1, LineLen) \in {0, H_SYNC_ACT}
    BY <1>4, <1>7
  <2>4. ~Frame!InCentre(Requests(w, x), Requests(w - 1, LineLen), H_OFF)
    BY <1>2, <1>3, <1>5, <1>9, <2>1, <2>2, <2>3
  <2> QED
    BY <1>5, <1>6, <1>9, <2>4
<1> QED
  BY <1>8, <1>9

\* The rows: what is counted of them in this frame and in the last one.
LEMMA CentreRows ==
    ASSUME FrameShapes, Col > SyncEnd + 2
    PROVE  LET middle == Frame!Middle(V_Cont - (TopRow - 1), Frame!FULL_COUNT, V_OFF)
           IN  /\ middle => InRows(Row) /\ InRows(Row - 1)
               /\ InRows(Row) =>
                    (middle <=> Frame!InCentre(RowsCounted(Row, Col), Frame!FULL_COUNT, V_OFF))
<1>1. PICK h \in Nat, o \in Nat :
        /\ h = Frame!FULL_COUNT \div 2 /\ o = V_OFF \div 2
        /\ WinRow < ((TopRow - 1) + h) - o
        /\ ((TopRow - 1) + h) + o <= WinRow + V_SYNC_ACT
  <2>1. Frame!FULL_COUNT \div 2 \in Nat /\ V_OFF \div 2 \in Nat
    BY CentreSizes, Z3
  <2> QED
    BY <2>1, CentreSizes
<1>2. Frame!Middle(V_Cont - (TopRow - 1), Frame!FULL_COUNT, V_OFF)
        => V_Cont > WinRow /\ V_Cont < WinRow + V_SYNC_ACT
  <2>1. Frame!Middle(V_Cont - (TopRow - 1), Frame!FULL_COUNT, V_OFF)
          => V_Cont - (TopRow - 1) >= h - o /\ V_Cont - (TopRow - 1) < h + o
    BY <1>1 DEF Frame!Middle
  <2>2. V_Cont \in Nat
    BY ScreenSizes DEF FrameShapes
  <2> QED
    BY <1>1, <2>1, <2>2, ScreenSizes
<1>3. Frame!Middle(V_Cont - (TopRow - 1), Frame!FULL_COUNT, V_OFF)
        => InRows(Row) /\ InRows(Row - 1)
  <2>1. V_Cont > WinRow => Row = V_Cont
    BY Place, ScreenSizes DEF FrameShapes
  <2> QED
    BY <1>2, <2>1, ScreenSizes DEF InRows, FrameShapes
<1>4. ASSUME InRows(Row)
      PROVE  Frame!Middle(V_Cont - (TopRow - 1), Frame!FULL_COUNT, V_OFF)
             <=> Frame!InCentre(RowsCounted(Row, Col), Frame!FULL_COUNT, V_OFF)
  <2>1. /\ Frame!FULL_COUNT \in Nat /\ V_OFF \in Nat /\ Frame!FULL_COUNT < Frame!WRAP
        /\ V_OFF \div 2 < Frame!FULL_COUNT \div 2
    BY CentreSizes
  <2>2. PICK n \in Nat : n = (Row - TopRow) + 1
    BY Place, ScreenSizes
  <2>3. V_Cont - (TopRow - 1) = n
    BY <1>4, <2>2, Place, ScreenSizes DEF InRows, FrameShapes, Row
  <2>4. RowsCounted(Row, Col) = IF n < Frame!FULL_COUNT THEN n ELSE Frame!FULL_COUNT
    BY <2>2 DEF RowsCounted, Begun
  <2>5. RowsCounted(Row, Col) \in Nat
    BY <2>1, <2>4
  <2>6. Frame!InCentre(RowsCounted(Row, Col), Frame!FULL_COUNT, V_OFF)
          <=> Frame!Middle(RowsCounted(Row, Col), Frame!FULL_COUNT, V_OFF)
    BY <2>1, <2>5, CentreIsMiddle
  <2>7. Frame!Middle(RowsCounted(Row, Col), Frame!FULL_COUNT, V_OFF)
          <=> Frame!Middle(n, Frame!FULL_COUNT, V_OFF)
    <3>1. n >= Frame!FULL_COUNT => ~Frame!Middle(n, Frame!FULL_COUNT, V_OFF)
      BY <2>1, InMiddle
    <3>2. ~Frame!Middle(Frame!FULL_COUNT, Frame!FULL_COUNT, V_OFF)
      BY <2>1, InMiddle
    <3>3. n < Frame!FULL_COUNT \/ n >= Frame!FULL_COUNT
      BY <2>1
    <3> QED
      BY <2>4, <3>1, <3>2, <3>3
  <2> QED
    BY <2>3, <2>6, <2>7
<1> QED
  BY <1>3, <1>4

\* The centre is where it is said to be, at every clock of every line.
LEMMA CentreStep ==
    ASSUME FrameShapes, SyncsFollow, CountersFollow, Frame!Clock
    PROVE  CentreFollows'
<1>1. Frame!VgaClock /\ Ticks
  BY DEF Frame!Clock, Ticks
<1>2. SUFFICES ASSUME whole' = 3, Col' > SyncEnd + 2
      PROVE  ACTIV_C' <=> /\ Frame!Middle((Col' - 1) - WinCol, H_SYNC_ACT, H_OFF)
                          /\ Frame!Middle(V_Cont' - (TopRow - 1), Frame!FULL_COUNT, V_OFF)
  BY DEF CentreFollows
<1>3. /\ Col \in Nat /\ Row \in Nat /\ Col < LineLen /\ Col >= SyncEnd + 2
      /\ Col' = Col + 1 /\ Row' = Row /\ V_Cont' = V_Cont
      /\ ~(V_Cont = TopRow /\ Col = 2)
  BY <1>1, <1>2, FrameAdvances, Place, ScreenSizes
<1>4. whole = 3
  BY <1>2, <1>3, RunBack
<1>5. ACTIV_C' <=> Frame!InCentre(H_CNT, H_CEN, H_OFF) /\ Frame!InCentre(V_CNT, V_CEN, V_OFF)
  BY <1>1, CountersTick, SyncsTick
<1>6. Run(SyncEnd + 2) /\ whole >= 2
  BY <1>4 DEF Run
<1>7. V_CNT = RowsCounted(Row, Col) /\ V_CEN = Frame!FULL_COUNT
  BY <1>4, <1>6 DEF CountersFollow
<1>8. (Col' - 1) - WinCol = Col - WinCol
  BY <1>3, ScreenSizes
<1>9. CASE Col = SyncEnd + 2
  <2>1. H_CNT = Requests(Row - 1, LineLen) /\ H_CEN = Requests(Row - 2, LineLen)
    <3>1. Begun(Row, Col) = Row - 1 /\ (Row - 1) - 1 = Row - 2 /\ ~(Col > SyncEnd + 2)
      BY <1>3, <1>9, ScreenSizes DEF Begun
    <3> QED
      BY <1>6, <3>1 DEF CountersFollow
  <2>2. ~Frame!InCentre(H_CNT, H_CEN, H_OFF)
    BY <1>3, <2>1, CentreColumns
  <2>3. ~Frame!Middle(Col - WinCol, H_SYNC_ACT, H_OFF)
    <3>1. Col - WinCol \in Int /\ Col - WinCol <= 0
      BY <1>3, <1>9, ScreenSizes
    <3>2. H_OFF \in Nat /\ H_OFF \div 2 < H_SYNC_ACT \div 2
      BY CentreSizes
    <3> QED
      BY <3>1, <3>2, InMiddle, ScreenSizes
  <2> QED
    BY <1>5, <1>8, <2>2, <2>3
<1>10. CASE Col > SyncEnd + 2
  <2>1. H_CNT = Requests(Row, Col) /\ H_CEN = Requests(Row - 1, LineLen)
    <3>1. Begun(Row, Col) = Row
      BY <1>10 DEF Begun
    <3> QED
      BY <1>6, <1>10, <3>1 DEF CountersFollow
  <2>2. /\ Frame!Middle(V_Cont - (TopRow - 1), Frame!FULL_COUNT, V_OFF)
             => InRows(Row) /\ InRows(Row - 1)
        /\ InRows(Row) => (Frame!Middle(V_Cont - (TopRow - 1), Frame!FULL_COUNT, V_OFF)
                           <=> Frame!InCentre(V_CNT, V_CEN, V_OFF))
    BY <1>7, <1>10, CentreRows
  <2>3. /\ ~(InRows(Row) /\ InRows(Row - 1)) => ~Frame!InCentre(H_CNT, H_CEN, H_OFF)
        /\ InRows(Row) /\ InRows(Row - 1) =>
             (Frame!InCentre(H_CNT, H_CEN, H_OFF)
                <=> Frame!Middle(Col - WinCol, H_SYNC_ACT, H_OFF))
    BY <1>3, <2>1, CentreColumns
  <2> QED
    BY <1>3, <1>5, <1>8, <2>2, <2>3
<1> QED
  BY <1>3, <1>9, <1>10, ScreenSizes
-----------------------------------------------------------------------------
(* What is measured is measured right, whenever the display restarts.       *)

FrameInv == /\ FrameShapes /\ SyncsFollow
            /\ Blanked /\ GreysFollow /\ SumsFollow
            /\ CountersFollow /\ CentreFollows

\* Until a frame begins nothing is claimed but the syncs.
LEMMA NothingYet ==
    ASSUME V_Cont' = 0, Col' = LineLen, whole' \in 0 .. 1,
           {H_CNT', H_CEN', V_CNT', V_CEN'} \subseteq Nat
    PROVE  Blanked' /\ GreysFollow' /\ SumsFollow' /\ CountersFollow' /\ CentreFollows'
<1>1. ~(whole' >= 2) /\ whole' # 3 /\ ~Run(SyncEnd + 2)'
  BY DEF Run
<1>2. ~(V_Cont' = 1) /\ ~(V_Cont' = 2) /\ ~(V_Cont' >= 3) /\ ~(V_Cont' \in 2 .. TopRow)
  BY ScreenSizes
<1> QED
  BY <1>1, <1>2 DEF Blanked, GreysFollow, SumsFollow, CountersFollow, CentreFollows

\* It holds when the display has not been started.
LEMMA FrameInitially == ASSUME Frame!Init PROVE FrameInv
<1>1. /\ H_Cont = 0 /\ V_Cont = 0 /\ iRST_N = FALSE /\ whole = 0 /\ rSUM = 0
      /\ HS = FALSE /\ VS = FALSE /\ rHS = FALSE /\ rVS = FALSE
      /\ ACTIV_C = FALSE /\ ACTIV_V = FALSE
      /\ H_CNT = 0 /\ H_CEN = 0 /\ V_CNT = 0 /\ V_CEN = 0
  BY DEF Frame!Init, Frame!VgaInit
<1>2. FrameShapes
  <2>1. H_Cont \in 0 .. H_SYNC_TOTAL /\ V_Cont \in 0 .. V_SYNC_TOTAL /\ rSUM \in Nat
    BY <1>1, ScreenSizes
  <2>2. /\ iRST_N \in BOOLEAN /\ HS \in BOOLEAN /\ VS \in BOOLEAN /\ rHS \in BOOLEAN
        /\ rVS \in BOOLEAN /\ ACTIV_C \in BOOLEAN /\ ACTIV_V \in BOOLEAN /\ ~iRST_N
    BY <1>1, Zenon
  <2> QED
    BY <1>1, <2>1, <2>2 DEF FrameShapes
<1>3. ~(whole >= 1) /\ ~(whole >= 2) /\ whole # 3 /\ \A n \in Nat : ~Run(n)
  BY <1>1 DEF Run
<1>4. ~(V_Cont = 1) /\ ~(V_Cont = 2) /\ ~(V_Cont >= 3) /\ ~(V_Cont \in 2 .. TopRow)
  BY <1>1, ScreenSizes
<1>5. SyncsFollow
  BY <1>1, <1>3 DEF SyncsFollow
<1>6. CountersFollow
  BY <1>1, <1>3, <1>4, ScreenSizes DEF CountersFollow
<1> QED
  BY <1>2, <1>3, <1>4, <1>5, <1>6
     DEF FrameInv, Blanked, GreysFollow, SumsFollow, CentreFollows

\* Every step keeps it.
LEMMA FramePreserved ==
    ASSUME FrameInv, Frame!Next \/ UNCHANGED sharpVars
    PROVE  FrameInv'
<1>1. FrameShapes /\ SyncsFollow /\ {H_CNT, H_CEN, V_CNT, V_CEN} \subseteq Nat
  BY DEF FrameInv, CountersFollow
<1>2. CASE Frame!Clock
  <2>1. FrameShapes' /\ SyncsFollow' /\ Blanked' /\ CentreFollows'
    BY <1>2, ShapesTick, SyncsStep, BlankedStep, CentreStep DEF FrameInv, Ticks
  <2>2. GreysFollow' /\ SumsFollow' /\ CountersFollow'
    BY <1>2, GreysStep, SumsStep, CountersStep DEF FrameInv
  <2> QED
    BY <2>1, <2>2 DEF FrameInv
<1>3. CASE Frame!HeldClock
  <2>1. FrameShapes' /\ SyncsFollow'
    BY <1>1, <1>3, ShapesTick, SyncsHeld DEF Ticks
  <2>2. H_Cont' = 0 /\ V_Cont' = 0 /\ ~iRST_N'
    BY <1>1, <1>3 DEF Frame!HeldClock, Frame!vgaVars, FrameShapes
  <2>3. Col' = LineLen /\ whole' \in 0 .. 1
    BY <2>1, <2>2 DEF Col, FrameShapes
  <2>4. {H_CNT', H_CEN', V_CNT', V_CEN'} \subseteq Nat
    BY <1>3, CountersTick DEF FrameInv, Ticks
  <2>5. Blanked' /\ GreysFollow' /\ SumsFollow' /\ CountersFollow' /\ CentreFollows'
    BY <2>2, <2>3, <2>4, NothingYet
  <2> QED
    BY <2>1, <2>5 DEF FrameInv
<1>4. CASE Frame!Press
  <2>1. FrameShapes' /\ SyncsFollow'
    BY <1>1, <1>4, SyncsPressed
  <2>2. H_Cont' = 0 /\ V_Cont' = 0 /\ whole' = 0 /\ UNCHANGED <<H_CNT, H_CEN, V_CNT, V_CEN>>
    BY <1>4 DEF Frame!Press, Frame!PressKey, Frame!counterVars
  <2>3. Col' = LineLen /\ whole' \in 0 .. 1 /\ {H_CNT', H_CEN', V_CNT', V_CEN'} \subseteq Nat
    BY <1>1, <2>2 DEF Col
  <2>4. Blanked' /\ GreysFollow' /\ SumsFollow' /\ CountersFollow' /\ CentreFollows'
    BY <2>2, <2>3, NothingYet
  <2> QED
    BY <2>1, <2>4 DEF FrameInv
<1>5. CASE Frame!Start \/ UNCHANGED sharpVars
  <2>1. /\ UNCHANGED <<H_Cont, V_Cont, HS, VS, rHS, rVS, H_CNT, H_CEN, V_CNT, V_CEN,
                       ACTIV_C, ACTIV_V, rY1, rY2, SS, rSUM, frameSUM, picture, due, whole>>
        /\ iRST_N' = TRUE \/ iRST_N' = iRST_N
    BY <1>5 DEF Frame!Start, Frame!RelayRelease, Frame!counterVars, Frame!sumVars,
                Frame!historyVars, sharpVars
  <2>2. Col' = Col /\ Row' = Row
    BY <2>1 DEF Col, Row
  <2>3. FrameShapes'
    BY <1>1, <2>1 DEF FrameShapes
  <2>4. SyncsFollow' /\ CountersFollow'
    BY <2>1, <2>2 DEF FrameInv, SyncsFollow, CountersFollow, Run
  <2>5. Blanked' /\ CentreFollows'
    BY <2>1, <2>2 DEF FrameInv, Blanked, CentreFollows
  <2>6. GreysFollow' /\ SumsFollow'
    BY <2>1, <2>2 DEF FrameInv, GreysFollow, SumsFollow
  <2> QED
    BY <2>3, <2>4, <2>5, <2>6 DEF FrameInv
<1> QED
  BY <1>2, <1>3, <1>4, <1>5 DEF Frame!Next

\* It is more than is asked.
LEMMA FrameInvMeasures == ASSUME FrameInv PROVE FrameMeasured
<1>1. Frame!SumOfFrame
  BY DEF FrameInv, SumsFollow, Frame!SumOfFrame
<1>2. Frame!WindowCentred
  <2>1. SUFFICES ASSUME whole = 3, H_Cont > H_SYNC_CYC + H_SYNC_FRONT - H_MARK1 + 2
        PROVE  ACTIV_C <=>
                 /\ Frame!Middle(H_Cont - 1 - Frame!X_START - H_MARK, H_SYNC_ACT, H_OFF)
                 /\ Frame!Middle(V_Cont - V_SYNC_FRONT - V_SYNC_CYC,
                                 V_SYNC_TOTAL + 1 - V_SYNC_CYC, V_OFF)
    BY DEF Frame!WindowCentred
  <2>2. Col = H_Cont /\ Col > SyncEnd + 2 /\ Col \in Nat /\ V_Cont \in Nat
    BY <2>1, ScreenSizes DEF Col, SyncEnd, FrameInv, FrameShapes
  <2>3. H_Cont - 1 - Frame!X_START - H_MARK = (Col - 1) - WinCol
    BY <2>2, StartAndFrameAssumption DEF WinCol, Frame!X_START, Frame!VideoAssumption
  <2>4. V_Cont - V_SYNC_FRONT - V_SYNC_CYC = V_Cont - (TopRow - 1)
    BY <2>2, ScreenSizes
  <2>5. V_SYNC_TOTAL + 1 - V_SYNC_CYC = Frame!FULL_COUNT
    BY DEF Frame!FULL_COUNT
  <2> QED
    BY <2>1, <2>2, <2>3, <2>4, <2>5 DEF FrameInv, CentreFollows
<1> QED
  BY <1>1, <1>2 DEF FrameMeasured, Frame!FrameMeasured

\* A frame is measured by what is in it and nothing else, at the place where it
\* is shown, for every picture, display and restart.
THEOREM FramesAreMeasured == PartSpec => []FrameMeasured
<1>1. PartInit => FrameInv
  BY FrameInitially DEF PartInit
<1>2. FrameInv /\ [PartNext]_<<part, vars, startVars, sharpVars>> => FrameInv'
  BY FramePreserved DEF PartNext
<1>3. FrameInv => FrameMeasured
  BY FrameInvMeasures
<1> QED
  BY <1>1, <1>2, <1>3, PTL DEF PartSpec
=============================================================================
