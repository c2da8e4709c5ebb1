------------------------ MODULE ConfigurationProofs ------------------------
(***************************************************************************)
(* The lens driver and the bridge's sequencer, and what holds of the three *)
(* masters together.  Both are composed with the handshake of the engines, *)
(* which EnginesImplementHandshake of CameraProofs shows the engines to    *)
(* keep.                                                                   *)
(*                                                                         *)
(* LensInv bounds the place in the frame by the state of the sequencer and *)
(* the clocks its engine has worked, so that a step is sent within its     *)
(* frame.  BridgeInv is the camera's argument at the level of phases, with *)
(* the words that have gone over the wires: the entries that WCNT has      *)
(* passed, and the one being sent as soon as its engine is done.           *)
(***************************************************************************)
EXTENDS MCConfiguration, CameraProofs, SequenceTheorems


-----------------------------------------------------------------------------
(* The lens driver.                                                         *)

LensShapes ==
    /\ lReleased \in BOOLEAN /\ lReady \in BOOLEAN /\ lRisen \in BOOLEAN /\ lTr \in BOOLEAN
    /\ lFrames \in 0 .. LensDelay /\ lVs \in 0 .. LongestFrame /\ lServed \in 0 .. 1
    /\ lStep \in LensSteps /\ lData \in LensSteps /\ lRead \in LensSteps /\ lLens \in LensSteps
    /\ lSt \in {0, 1, 6, 7, 8, 9, 10, 28, 29, 30, 31, 32, 33, 34, 35}
    /\ lCnt \in 0 .. 1 /\ lWcnt \in 0 .. 1 /\ lDely \in 0 .. LensTime + 5
    /\ lGo \in [word : BOOLEAN, read : BOOLEAN]
    /\ lWord \in Lens!Engine!Phases /\ lRd \in Lens!Engine!Phases
    /\ lWorked \in 0 .. LensTransfer

\* The rise that ends a frame is seen in the first clock of the next one only.
RiseSeenOnce ==
    /\ lVs > FrameTicks \div 2 => ~lRisen
    /\ lVs > FrameTicks \div 2 + 1 => ~lTr
    /\ lVs > 0 /\ lRisen => lTr

\* While the lens is held, what a withdrawn release cut short runs out, long
\* before I2C_DELAY has counted its frames.
LensHeld ==
    /\ lSt = 0 /\ lCnt = 0 /\ lWcnt = 0 /\ lServed = 0 /\ lGo.word /\ lGo.read
    /\ lWord = "ready" \/ lRd = "ready" \/ (lWord = "off" /\ lRd = "off" /\ lVs = 0 /\ lFrames = 0)
    /\ (lWord = "off" <=> lRd = "off")
    /\ lFrames > 0 =>
         /\ lWord = "armed" \/ lRd = "armed" => lVs = 0
         /\ lWord = "busy" \/ lRd = "busy" => lVs <= lWorked + 1

\* The last clock of a frame in which the step may be taken to be sent.
LatestTake == IF lServed = 0 THEN 2 ELSE (16 + LensTransfer) + LensTime

\* How far the engine that GO starts is, by the clocks GO has been low.
Started(phase, low) ==
    phase = IF low = 0 THEN "ready" ELSE IF low = 1 THEN "armed" ELSE "busy"

\* While it is let go: where the sequencer is, and how late in the frame at most.
LensSchedule ==
    /\ lSt \notin {7, 8, 9} => lRd = "ready"
    /\ lSt \notin {32, 33, 34} => lWord = "ready"
    /\ lGo.read <=> lSt # 7
    /\ lGo.word <=> lSt # 32
    /\ lSt \in {1, 6, 7, 8, 9, 10, 28, 29} => lServed = 1
    /\ lSt \notin {10, 28, 29} => (lSt < 30 => lCnt = 0)
    /\ lSt \in {10, 28, 29} => lCnt = 1
    /\ lWcnt = IF lSt = 35 THEN 1 ELSE 0
    /\ lSt \in {32, 33, 34} \/ (lSt = 35 /\ lVs > 0) => lData = lStep
    /\ lSt = 0 => lVs = 0 /\ lServed = 0
    /\ lSt = 1 => lVs = 1
    /\ lSt = 6 => lVs = 2
    /\ lSt = 7 => lDely \in 0 .. 2 /\ lVs = 3 + lDely /\ Started(lRd, lDely) /\ lWorked = 0
    /\ lSt = 8 => lVs = 6 /\ lRd = "busy" /\ lWorked = 1
    /\ lSt = 9 => \/ lRd = "busy" /\ lVs = lWorked + 5
                  \/ lRd = "ready" /\ lVs <= 6 + LensTransfer
    /\ lSt = 10 => lVs <= 7 + LensTransfer
    /\ lSt = 28 => lDely \in 0 .. 5 /\ lVs <= (8 + LensTransfer) + lDely
    /\ lSt = 29 => lDely \in 0 .. LensTime /\ lVs <= (14 + LensTransfer) + lDely
    /\ lSt = 30 => lVs < LatestTake
    /\ lSt = 31 => lVs <= LatestTake
    /\ lSt = 32 => /\ lDely \in 0 .. 3 /\ lVs <= (LatestTake + 1) + lDely /\ Started(lWord, lDely)
                   /\ lWorked = IF lDely = 3 THEN 1 ELSE 0
    /\ lSt = 33 => lVs <= LatestTake + 5 /\ lWord = "busy" /\ lWorked = 2
    /\ lSt = 34 => \/ lWord = "busy" /\ lVs <= (LatestTake + 3) + lWorked
                   \/ lWord = "ready" /\ lVs <= (LatestTake + 4) + LensTransfer /\ lLens = lData
    /\ lSt = 35 => IF lVs = 0 THEN lServed = 1 /\ lRisen /\ ~lTr ELSE lLens = lData

LensInv == /\ LensShapes /\ RiseSeenOnce
           /\ IF lReady THEN LensSchedule ELSE LensHeld

\* What the proofs use of the constants.
LEMMA FrameTimes ==
    /\ FrameTicks \in Nat /\ LongestFrame \in Nat /\ LensTime \in Nat /\ LensTransfer \in Nat
    /\ LensDelay \in Nat /\ LensDelay > 0 /\ FrameTicks > (20 + 2 * LensTransfer) + LensTime
BY BusesAssumption DEF Lens!FrameTimeAssumption

\* The engines after a clock.
LEMMA LensEngines ==
    ASSUME LensShapes, Lens!Clock
    PROVE  /\ lWord' \in Lens!Engine!Phases /\ lRd' \in Lens!Engine!Phases
           /\ lWorked' \in 0 .. LensTransfer
           /\ lWord = "off" => lWord' = IF lGo.word THEN "ready" ELSE "off"
           /\ lWord = "ready" => lWord' = IF lGo.word THEN "ready" ELSE "armed"
           /\ lWord = "armed" => lWord' = "busy"
           /\ lWord = "busy" => lWord' = "busy" \/ (lWord' = "ready" /\ lGo.word)
           /\ lRd = "off" => lRd' = IF lGo.read THEN "ready" ELSE "off"
           /\ lRd = "ready" => lRd' = IF lGo.read THEN "ready" ELSE "armed"
           /\ lRd = "armed" => lRd' = "busy"
           /\ lRd = "busy" => lRd' = "busy" \/ (lRd' = "ready" /\ lGo.read)
           /\ lWorked' = IF /\ lWord = "busy" \/ lRd = "busy"
                            /\ lWord' = "busy" \/ lRd' = "busy" THEN lWorked + 1 ELSE 0
           /\ lLens' = IF lWord = "busy" /\ lWord' = "ready" /\ lReady THEN lData ELSE lLens
<1>1. /\ lWord' \in Lens!Engine!After(lWord, lGo.word)
      /\ lRd' \in Lens!Engine!After(lRd, lGo.read)
      /\ lWorked' <= LensTransfer
      /\ lWorked' = IF /\ lWord = "busy" \/ lRd = "busy"
                       /\ lWord' = "busy" \/ lRd' = "busy" THEN lWorked + 1 ELSE 0
      /\ lLens' = IF lWord = "busy" /\ lWord' = "ready" /\ lReady THEN lData ELSE lLens
  BY DEF Lens!Clock, Lens!Engines, Lens!Working
<1>2. ASSUME NEW p \in Lens!Engine!Phases, NEW g \in BOOLEAN, NEW q \in Lens!Engine!After(p, g)
      PROVE  /\ q \in Lens!Engine!Phases
             /\ p = "off" => q = IF g THEN "ready" ELSE "off"
             /\ p = "ready" => q = IF g THEN "ready" ELSE "armed"
             /\ p = "armed" => q = "busy"
             /\ p = "busy" => q = "busy" \/ (q = "ready" /\ g)
  BY <1>2 DEF Lens!Engine!Phases, Lens!Engine!After
<1>3. lGo.word \in BOOLEAN /\ lGo.read \in BOOLEAN
  BY DEF LensShapes
<1>4. lWorked' \in 0 .. LensTransfer
  BY <1>1, FrameTimes DEF LensShapes
<1> QED
  BY <1>1, <1>2, <1>3, <1>4 DEF LensShapes

\* The frame after a clock.
LEMMA LensTicks ==
    ASSUME LensShapes, RiseSeenOnce, Lens!Clock
    PROVE  /\ lVs' = lVs + 1 /\ lVs < LongestFrame /\ (lTr' <=> lRisen) /\ lTr' \in BOOLEAN
           /\ lRisen' \in BOOLEAN
           /\ UNCHANGED <<lReleased, lReady, lFrames, lStep, lServed>>
           /\ RiseSeenOnce'
<1>1. /\ lVs' = lVs + 1 /\ lVs < LongestFrame /\ lTr' = lRisen
      /\ lRisen' = (lRisen /\ lVs < FrameTicks \div 2)
      /\ UNCHANGED <<lReleased, lReady, lFrames, lStep, lServed>>
  BY Zenon DEF Lens!Clock
<1>2. PICK h \in Nat : h = FrameTicks \div 2
  BY FrameTimes, Z3
<1>3. lRisen' \in BOOLEAN /\ (lRisen' <=> lRisen /\ lVs < h)
  BY <1>1, <1>2 DEF LensShapes
<1>4. (lTr' <=> lRisen) /\ lTr' \in BOOLEAN
  BY <1>1 DEF LensShapes
<1>5. RiseSeenOnce'
  BY <1>1, <1>2, <1>3, <1>4 DEF RiseSeenOnce, LensShapes
<1> QED
  BY <1>1, <1>3, <1>4, <1>5

\* What is asked of the sequencer's registers after a clock.
LensMoved ==
    /\ lSt' \in {0, 1, 6, 7, 8, 9, 10, 28, 29, 30, 31, 32, 33, 34, 35}
    /\ lCnt' \in 0 .. 1 /\ lWcnt' \in 0 .. 1 /\ lDely' \in 0 .. LensTime + 5
    /\ lGo' \in [word : BOOLEAN, read : BOOLEAN]
    /\ lData' \in LensSteps /\ lRead' \in LensSteps
    /\ LensSchedule'

\* The bounds a clock leaves alone, as numbers.
LEMMA LensBounds ==
    ASSUME LensShapes, RiseSeenOnce, Lens!Clock
    PROVE  /\ lVs \in Nat /\ lVs' = lVs + 1 /\ LatestTake \in Nat /\ LatestTake >= 2
           /\ LatestTake' = LatestTake /\ lDely \in Nat /\ lWorked \in Nat
           /\ lWorked <= LensTransfer /\ lServed' = lServed /\ lStep' = lStep
           /\ lServed = 1 => LatestTake = (16 + LensTransfer) + LensTime
           /\ lServed \in {0, 1}
BY LensTicks, FrameTimes DEF LensShapes, LatestTake

\* The clocks in which the sequencer only lets time pass.
LEMMA LensPasses ==
    ASSUME LensShapes, RiseSeenOnce, LensSchedule, lReady, Lens!Clock, Lens!Pass
    PROVE  LensMoved
<1>1. /\ lSt \in {1, 8, 33} /\ lSt' = IF lSt = 1 THEN 6 ELSE lSt + 1
      /\ lGo' = lGo /\ lCnt' = lCnt /\ lWcnt' = lWcnt /\ lDely' = lDely
      /\ lData' = lData /\ lRead' = lRead
  BY DEF Lens!Pass
<1>2. CASE lSt = 1
  <2>1. /\ lSt' = 6 /\ lVs = 1 /\ lRd = "ready" /\ lWord = "ready" /\ lGo.word /\ lGo.read
        /\ lServed = 1 /\ lCnt = 0 /\ lWcnt = 0
    BY <1>1, <1>2 DEF LensSchedule
  <2>2. lRd' = "ready" /\ lWord' = "ready"
    BY <2>1, LensEngines
  <2> QED
    BY <1>1, <2>1, <2>2, LensBounds DEF LensMoved, LensSchedule, LensShapes
<1>3. CASE lSt = 8
  <2>1. /\ lSt' = 9 /\ lVs = 6 /\ lRd = "busy" /\ lWord = "ready" /\ lGo.word /\ lGo.read
        /\ lServed = 1 /\ lCnt = 0 /\ lWcnt = 0 /\ lWorked = 1
    BY <1>1, <1>3 DEF LensSchedule
  <2>2. /\ lWord' = "ready"
        /\ (lRd' = "busy" /\ lWorked' = 2) \/ lRd' = "ready"
    BY <2>1, LensEngines
  <2>3. LensTransfer >= 1
    BY <2>1, LensBounds, FrameTimes
  <2> QED
    BY <1>1, <2>1, <2>2, <2>3, LensBounds, FrameTimes DEF LensMoved, LensSchedule, LensShapes
<1>4. CASE lSt = 33
  <2>1. /\ lSt' = 34 /\ lVs <= LatestTake + 5 /\ lRd = "ready" /\ lWord = "busy"
        /\ lGo.word /\ lGo.read /\ lWcnt = 0 /\ lWorked = 2 /\ lData = lStep
    BY <1>1, <1>4 DEF LensSchedule
  <2>2. /\ lRd' = "ready"
        /\ \/ lWord' = "busy" /\ lWorked' = 3
           \/ lWord' = "ready" /\ lLens' = lData
    BY <2>1, LensEngines
  <2>3. LensTransfer >= 2
    BY <2>1, LensBounds, FrameTimes
  <2> QED
    BY <1>1, <2>1, <2>2, <2>3, LensBounds, FrameTimes DEF LensMoved, LensSchedule, LensShapes
<1> QED
  BY <1>1, <1>2, <1>3, <1>4

\* The read of the driver's registers.
LEMMA LensReads ==
    ASSUME LensShapes, RiseSeenOnce, LensSchedule, lReady, Lens!Clock,
           Lens!StartRead \/ Lens!HoldReadGo \/ Lens!ReadDone
    PROVE  LensMoved
<1>1. CASE Lens!StartRead
  <2>1. /\ lSt = 6 /\ lVs = 2 /\ lRd = "ready" /\ lWord = "ready" /\ lGo.word /\ lGo.read
        /\ lServed = 1 /\ lCnt = 0 /\ lWcnt = 0
    BY <1>1 DEF LensSchedule, Lens!StartRead
  <2>2. /\ lSt' = 7 /\ lDely' = 0 /\ lGo' = [lGo EXCEPT !.read = FALSE]
        /\ lCnt' = lCnt /\ lWcnt' = lWcnt /\ lData' = lData /\ lRead' = lRead
    BY <1>1, <2>1 DEF Lens!StartRead, Lens!Engine!EndOk
  <2>3. lGo' \in [word : BOOLEAN, read : BOOLEAN] /\ lGo'.word /\ ~lGo'.read
    BY <2>1, <2>2 DEF LensShapes
  <2>4. lRd' = "ready" /\ lWord' = "ready" /\ lWorked' = 0
    BY <2>1, LensEngines
  <2> QED
    BY <2>1, <2>2, <2>3, <2>4, LensBounds, FrameTimes
       DEF LensMoved, LensSchedule, LensShapes, Started
<1>2. CASE Lens!HoldReadGo
  <2>1. /\ lSt = 7 /\ lDely \in 0 .. 2 /\ lVs = 3 + lDely /\ lWord = "ready" /\ lGo.word
        /\ ~lGo.read /\ lServed = 1 /\ lCnt = 0 /\ lWcnt = 0 /\ Started(lRd, lDely)
        /\ lWorked = 0
    BY <1>2 DEF LensSchedule, Lens!HoldReadGo
  <2>2. /\ lDely' = lDely + 1 /\ lCnt' = lCnt /\ lWcnt' = lWcnt /\ lData' = lData
        /\ lRead' = lRead
        /\ IF lDely = 2 THEN lGo' = [lGo EXCEPT !.read = TRUE] /\ lSt' = 8
                        ELSE lGo' = lGo /\ lSt' = lSt
    BY <1>2 DEF Lens!HoldReadGo
  <2>3. lWord' = "ready"
    BY <2>1, LensEngines
  <2>4. CASE lDely = 2
    <3>1. lGo' \in [word : BOOLEAN, read : BOOLEAN] /\ lGo'.word /\ lGo'.read /\ lSt' = 8
      BY <2>1, <2>2, <2>4 DEF LensShapes
    <3>2. lRd = "busy"
      BY <2>1, <2>4 DEF Started
    <3>3. lRd' = "busy" /\ lWorked' = 1
      BY <2>1, <3>2, LensEngines
    <3> QED
      BY <2>1, <2>2, <2>3, <2>4, <3>1, <3>3, LensBounds, FrameTimes
         DEF LensMoved, LensSchedule, LensShapes
  <2>5. CASE lDely # 2
    <3>1. lGo' = lGo /\ lSt' = 7 /\ lDely \in {0, 1}
      BY <2>1, <2>2, <2>5
    <3>2. lDely = 0 => lRd = "ready"
      BY <2>1 DEF Started
    <3>3. lDely = 1 => lRd = "armed"
      BY <2>1 DEF Started
    <3>4. lDely = 0 => lRd' = "armed" /\ lWorked' = 0
      BY <2>1, <3>2, LensEngines
    <3>5. lDely = 1 => lRd' = "busy" /\ lWorked' = 0
      BY <2>1, <3>3, LensEngines
    <3>6. lWorked' = 0 /\ Started(lRd', lDely')
      BY <2>2, <3>1, <3>4, <3>5 DEF Started
    <3> QED
      BY <2>1, <2>2, <2>3, <3>1, <3>6, LensBounds, FrameTimes
         DEF LensMoved, LensSchedule, LensShapes
  <2> QED
    BY <2>4, <2>5
<1>3. CASE Lens!ReadDone
  <2>1. /\ lSt = 9 /\ lWord = "ready" /\ lGo.word /\ lGo.read
        /\ lServed = 1 /\ lCnt = 0 /\ lWcnt = 0
        /\ \/ lRd = "busy" /\ lVs = lWorked + 5
           \/ lRd = "ready" /\ lVs <= 6 + LensTransfer
    BY <1>3 DEF LensSchedule, Lens!ReadDone
  <2>2. /\ lGo' = lGo /\ lWcnt' = lWcnt /\ lDely' = lDely /\ lData' = lData
    BY <1>3 DEF Lens!ReadDone
  <2>3. lWord' = "ready"
    BY <2>1, LensEngines
  <2>4. CASE lRd = "ready"
    <3>1. lSt' = 10 /\ lCnt' = 1 /\ lRead' \in LensSteps
      BY <1>3, <2>1, <2>4 DEF Lens!ReadDone, Lens!Engine!EndOk, LensShapes
    <3>2. lRd' = "ready"
      BY <2>1, <2>4, LensEngines
    <3> QED
      BY <2>1, <2>2, <2>3, <2>4, <3>1, <3>2, LensBounds, FrameTimes
         DEF LensMoved, LensSchedule, LensShapes
  <2>5. CASE lRd = "busy"
    <3>1. lSt' = 9 /\ lCnt' = lCnt /\ lRead' = lRead
      BY <1>3, <2>1, <2>5 DEF Lens!ReadDone, Lens!Engine!EndOk
    <3>2. (lRd' = "busy" /\ lWorked' = lWorked + 1) \/ lRd' = "ready"
      BY <2>1, <2>5, LensEngines
    <3>3. lVs = lWorked + 5
      BY <2>1, <2>5
    <3> QED
      BY <2>1, <2>2, <2>3, <3>1, <3>2, <3>3, LensBounds, FrameTimes
         DEF LensMoved, LensSchedule, LensShapes
  <2> QED
    BY <2>1, <2>4, <2>5
<1> QED
  BY <1>1, <1>2, <1>3

\* The comparison that never fails, and the pauses.
LEMMA LensPauses ==
    ASSUME LensShapes, RiseSeenOnce, LensSchedule, lReady, Lens!Clock,
           Lens!Begin \/ Lens!Compare \/ Lens!ShortPause \/ Lens!LongPause
    PROVE  LensMoved
<1>1. lRd = "ready" /\ lWord = "ready" /\ lGo.word /\ lGo.read /\ lWcnt = 0
  BY DEF LensSchedule, Lens!Begin, Lens!Compare, Lens!ShortPause, Lens!LongPause
<1>2. lRd' = "ready" /\ lWord' = "ready"
  BY <1>1, LensEngines
<1>3. CASE Lens!Begin
  BY <1>1, <1>2, <1>3, LensBounds, FrameTimes
     DEF Lens!Begin, LensMoved, LensShapes, LensSchedule, Lens!Idle
<1>4. CASE Lens!Compare
  BY <1>1, <1>2, <1>4, LensBounds, FrameTimes
     DEF Lens!Compare, LensMoved, LensShapes, LensSchedule, Lens!Idle
<1>5. CASE Lens!ShortPause
  BY <1>1, <1>2, <1>5, LensBounds, FrameTimes
     DEF Lens!ShortPause, LensMoved, LensShapes, LensSchedule
<1>6. CASE Lens!LongPause
  BY <1>1, <1>2, <1>6, LensBounds, FrameTimes
     DEF Lens!LongPause, LensMoved, LensShapes, LensSchedule
<1> QED
  BY <1>3, <1>4, <1>5, <1>6

\* The step of the frame, latched and sent.
LEMMA LensWrites ==
    ASSUME LensShapes, RiseSeenOnce, LensSchedule, lReady, Lens!Clock,
           Lens!FirstWord \/ Lens!TakeStep \/ Lens!HoldWordGo \/ Lens!StepSent
    PROVE  LensMoved
<1>1. /\ lRd = "ready" /\ lGo.read /\ lWcnt = 0
      /\ lRead' = lRead /\ lCnt' = lCnt
  BY DEF LensSchedule, Lens!FirstWord, Lens!TakeStep, Lens!HoldWordGo, Lens!StepSent
<1>2. lRd' = "ready"
  BY <1>1, LensEngines
<1>3. CASE Lens!FirstWord
  <2>1. /\ lSt = 30 /\ lVs < LatestTake /\ lWord = "ready" /\ lGo.word
        /\ lSt' = 31 /\ lGo' = lGo /\ lWcnt' = 0 /\ lDely' = lDely /\ lData' = lData
    BY <1>3 DEF LensSchedule, Lens!FirstWord
  <2>2. lWord' = "ready"
    BY <2>1, LensEngines
  <2> QED
    BY <1>1, <1>2, <2>1, <2>2, LensBounds, FrameTimes DEF LensMoved, LensSchedule, LensShapes
<1>4. CASE Lens!TakeStep
  <2>1. /\ lSt = 31 /\ lVs <= LatestTake /\ lWord = "ready" /\ lGo.word
        /\ lWcnt' = lWcnt /\ lData' = lStep
    BY <1>1, <1>4 DEF LensSchedule, Lens!TakeStep
  <2>2. lSt' = 32 /\ lDely' = 0 /\ lGo' = [lGo EXCEPT !.word = FALSE]
    BY <1>4, <2>1 DEF Lens!TakeStep, Lens!Engine!EndOk
  <2>3. lGo' \in [word : BOOLEAN, read : BOOLEAN] /\ lGo'.read /\ ~lGo'.word
    BY <1>1, <2>2 DEF LensShapes
  <2>4. lWord' = "ready" /\ lWorked' = 0
    BY <1>1, <2>1, LensEngines
  <2> QED
    BY <1>1, <1>2, <2>1, <2>2, <2>3, <2>4, LensBounds, FrameTimes
       DEF LensMoved, LensSchedule, LensShapes, Started
<1>5. CASE Lens!HoldWordGo
  <2>1. /\ lSt = 32 /\ lDely \in 0 .. 3 /\ lVs <= (LatestTake + 1) + lDely /\ ~lGo.word
        /\ Started(lWord, lDely) /\ lWorked = IF lDely = 3 THEN 1 ELSE 0
        /\ lData = lStep /\ lWcnt' = lWcnt /\ lData' = lData
    BY <1>5 DEF LensSchedule, Lens!HoldWordGo
  <2>2. IF lDely = 3
        THEN lGo' = [lGo EXCEPT !.word = TRUE] /\ lSt' = 33 /\ lDely' = lDely
        ELSE lDely' = lDely + 1 /\ lGo' = lGo /\ lSt' = lSt
    BY <1>5 DEF Lens!HoldWordGo
  <2>3. CASE lDely = 3
    <3>1. lGo' \in [word : BOOLEAN, read : BOOLEAN] /\ lGo'.read /\ lGo'.word /\ lSt' = 33
      BY <1>1, <2>2, <2>3 DEF LensShapes
    <3>2. lWord = "busy" /\ lWorked = 1
      BY <2>1, <2>3 DEF Started
    <3>3. lWord' = "busy" /\ lWorked' = 2
      BY <2>1, <3>2, LensEngines
    <3> QED
      BY <1>1, <1>2, <2>1, <2>2, <2>3, <3>1, <3>3, LensBounds, FrameTimes
         DEF LensMoved, LensSchedule, LensShapes
  <2>4. CASE lDely # 3
    <3>1. lGo' = lGo /\ lSt' = 32 /\ lDely \in {0, 1, 2} /\ lDely' = lDely + 1 /\ lWorked = 0
      BY <2>1, <2>2, <2>4
    <3>2. lDely = 0 => lWord = "ready"
      BY <2>1 DEF Started
    <3>3. lDely = 1 => lWord = "armed"
      BY <2>1 DEF Started
    <3>4. lDely = 2 => lWord = "busy"
      BY <2>1 DEF Started
    <3>5. lDely = 0 => lWord' = "armed" /\ lWorked' = 0
      BY <1>1, <2>1, <3>2, LensEngines
    <3>6. lDely = 1 => lWord' = "busy" /\ lWorked' = 0
      BY <1>1, <2>1, <3>3, LensEngines
    <3>7. lDely = 2 => lWord' = "busy" /\ lWorked' = 1
      BY <2>1, <3>1, <3>4, LensEngines
    <3>8. lWorked' = (IF lDely' = 3 THEN 1 ELSE 0) /\ Started(lWord', lDely')
      BY <3>1, <3>5, <3>6, <3>7 DEF Started
    <3> QED
      BY <1>1, <1>2, <2>1, <3>1, <3>8, LensBounds, FrameTimes
         DEF LensMoved, LensSchedule, LensShapes
  <2> QED
    BY <2>3, <2>4
<1>6. CASE Lens!StepSent
  <2>1. /\ lSt = 34 /\ lGo.word /\ lData = lStep
        /\ \/ lWord = "busy" /\ lVs <= (LatestTake + 3) + lWorked
           \/ lWord = "ready" /\ lVs <= (LatestTake + 4) + LensTransfer /\ lLens = lData
        /\ lGo' = lGo /\ lDely' = lDely /\ lData' = lData
    BY <1>6 DEF LensSchedule, Lens!StepSent
  <2>2. CASE lWord = "ready"
    <3>1. lWcnt' = 1 /\ lSt' = 35
      BY <1>1, <1>6, <2>1, <2>2 DEF Lens!StepSent, Lens!Engine!EndOk
    <3>2. lWord' = "ready" /\ lLens' = lLens
      BY <2>1, <2>2, LensEngines
    <3> QED
      BY <1>1, <1>2, <2>1, <2>2, <3>1, <3>2, LensBounds, FrameTimes
         DEF LensMoved, LensSchedule, LensShapes
  <2>3. CASE lWord = "busy"
    <3>1. lWcnt' = lWcnt /\ lSt' = 34
      BY <1>6, <2>1, <2>3 DEF Lens!StepSent, Lens!Engine!EndOk
    <3>2. (lWord' = "busy" /\ lWorked' = lWorked + 1) \/ (lWord' = "ready" /\ lLens' = lData)
      BY <2>1, <2>3, LensEngines
    <3>3. lVs <= (LatestTake + 3) + lWorked
      BY <2>1, <2>3
    <3> QED
      BY <1>1, <1>2, <2>1, <3>1, <3>2, <3>3, LensBounds, FrameTimes
         DEF LensMoved, LensSchedule, LensShapes
  <2> QED
    BY <2>1, <2>2, <2>3
<1> QED
  BY <1>3, <1>4, <1>5, <1>6

\* The wait for the next frame.
LEMMA LensAwaits ==
    ASSUME LensShapes, RiseSeenOnce, LensSchedule, lReady, Lens!Clock, Lens!AwaitFrame
    PROVE  LensMoved
<1>1. /\ lSt = 35 /\ lRd = "ready" /\ lWord = "ready" /\ lGo.read /\ lGo.word /\ lWcnt = 1
      /\ lVs > 0 => lData = lStep
      /\ IF lVs = 0 THEN lServed = 1 /\ lRisen /\ ~lTr ELSE lLens = lData
      /\ lGo' = lGo /\ lData' = lData /\ lRead' = lRead
  BY DEF LensSchedule, Lens!AwaitFrame
<1>2. lRd' = "ready" /\ lWord' = "ready" /\ lLens' = lLens
  BY <1>1, LensEngines
<1>3. CASE Lens!Edge
  <2>1. lVs = 0
    BY <1>3, LensBounds DEF Lens!Edge, RiseSeenOnce
  <2>2. lSt' = 1 /\ lWcnt' = 0 /\ lCnt' = 0 /\ lDely' = 0
    BY <1>1, <1>3 DEF Lens!AwaitFrame
  <2> QED
    BY <1>1, <1>2, <2>1, <2>2, LensBounds, FrameTimes DEF LensMoved, LensSchedule, LensShapes
<1>4. CASE ~Lens!Edge
  <2>1. lVs > 0 /\ lData = lStep /\ lLens = lData
    BY <1>1, <1>4, LensBounds DEF Lens!Edge
  <2>2. lSt' = 35 /\ lWcnt' = 1 /\ lCnt' = lCnt /\ lDely' = lDely
    BY <1>1, <1>4 DEF Lens!AwaitFrame
  <2> QED
    BY <1>1, <1>2, <2>1, <2>2, LensBounds, FrameTimes DEF LensMoved, LensSchedule, LensShapes
<1> QED
  BY <1>3, <1>4

\* Every clock while the lens is let go.
LEMMA LensClockReady ==
    ASSUME LensInv, lReady, Lens!Clock
    PROVE  LensInv'
<1>1. LensShapes /\ RiseSeenOnce /\ LensSchedule /\ Lens!Sequencer
  BY DEF LensInv, Lens!Clock
<1>2. LensMoved
  BY <1>1, LensPasses, LensReads, LensPauses, LensWrites, LensAwaits DEF Lens!Sequencer
<1>3. lLens' \in LensSteps
  BY <1>1, LensEngines DEF LensShapes
<1>4. lVs' \in 0 .. LongestFrame
  <2>1. lVs \in Nat /\ lVs' = lVs + 1 /\ lVs < LongestFrame
    BY <1>1, LensTicks, LensBounds
  <2> QED
    BY <2>1, FrameTimes
<1>5. LensShapes'
  BY <1>1, <1>2, <1>3, <1>4, LensTicks, LensEngines DEF LensShapes, LensMoved
<1> QED
  BY <1>1, <1>2, <1>5, LensTicks DEF LensInv, LensMoved

\* Every clock while the lens is held.
LEMMA LensClockHeld ==
    ASSUME LensInv, ~lReady, Lens!Clock
    PROVE  LensInv'
<1>1. /\ LensShapes /\ RiseSeenOnce /\ LensHeld
      /\ UNCHANGED <<lSt, lGo, lCnt, lWcnt, lDely, lData, lRead>>
  BY DEF LensInv, Lens!Clock, Lens!seqVars
<1>2. lLens' = lLens
  BY <1>1, LensEngines
<1>3. lVs' \in 0 .. LongestFrame
  BY <1>1, LensTicks, FrameTimes DEF LensShapes
<1>4. LensShapes'
  BY <1>1, <1>2, <1>3, LensTicks, LensEngines DEF LensShapes
<1>5. lGo.word /\ lGo.read /\ lVs \in Nat /\ lVs' = lVs + 1 /\ lWorked \in Nat
  BY <1>1, LensBounds DEF LensHeld
<1>6. LensHeld'
  <2>1. /\ lSt' = 0 /\ lCnt' = 0 /\ lWcnt' = 0 /\ lServed' = 0 /\ lGo'.word /\ lGo'.read
        /\ lFrames' = lFrames
    BY <1>1, LensTicks DEF LensHeld
  <2>2. lWord' # "off" /\ lRd' # "off" /\ (lWord' = "ready" \/ lRd' = "ready")
    BY <1>1, <1>5, LensEngines DEF LensHeld, LensShapes, Lens!Engine!Phases
  <2>3. lWord' # "armed" /\ lRd' # "armed"
    BY <1>1, <1>5, LensEngines DEF LensShapes, Lens!Engine!Phases
  <2>4. ASSUME lFrames > 0, lWord' = "busy" \/ lRd' = "busy"
        PROVE  lVs' <= lWorked' + 1
    <3>1. CASE lWord = "busy" \/ lRd = "busy"
      <4>1. lWorked' = lWorked + 1
        BY <1>1, <2>4, <3>1, LensEngines
      <4> QED
        BY <1>1, <1>5, <2>4, <3>1, <4>1 DEF LensHeld
    <3>2. CASE lWord # "busy" /\ lRd # "busy"
      <4>1. lWord = "armed" \/ lRd = "armed"
        BY <1>1, <1>5, <2>4, <3>2, LensEngines DEF LensShapes, Lens!Engine!Phases
      <4>2. lVs = 0 /\ lWorked' \in Nat
        BY <1>1, <2>4, <4>1, LensEngines, FrameTimes DEF LensHeld
      <4>3. PICK w \in Nat : w = lWorked'
        BY <4>2
      <4>4. lVs' = 1
        BY <1>5, <4>2
      <4>5. 1 <= w + 1
        OBVIOUS
      <4> QED
        BY <4>3, <4>4, <4>5, Zenon
    <3> QED
      BY <3>1, <3>2
  <2> QED
    BY <2>1, <2>2, <2>3, <2>4 DEF LensHeld
<1>7. lReady' = lReady
  BY <1>1, LensTicks
<1> QED
  BY <1>1, <1>4, <1>6, <1>7, LensTicks DEF LensInv

\* The sequencer waits for the next frame when a frame is over.
LEMMA LensWaits ==
    ASSUME LensInv, lReady, lVs >= FrameTicks
    PROVE  /\ lSt = 35 /\ lVs > 0 /\ lData = lStep /\ lLens = lStep /\ lRd = "ready"
           /\ lWord = "ready"
<1>1. LensShapes /\ LensSchedule
  BY DEF LensInv
<1>2. /\ lVs \in Nat /\ lWorked \in Nat /\ lWorked <= LensTransfer
      /\ LatestTake \in Nat /\ LatestTake <= (16 + LensTransfer) + LensTime
  BY <1>1, FrameTimes DEF LensShapes, LatestTake
<1>3. lVs > (20 + 2 * LensTransfer) + LensTime
  BY <1>2, FrameTimes
<1>4. lSt \notin {0, 1, 6, 8, 9, 10}
  BY <1>1, <1>2, <1>3, FrameTimes DEF LensSchedule
<1>5. lSt \notin {7, 28, 29}
  BY <1>1, <1>2, <1>3, FrameTimes DEF LensSchedule
<1>6. lSt \notin {30, 31, 32}
  BY <1>1, <1>2, <1>3, FrameTimes DEF LensSchedule
<1>7. lSt \notin {33, 34}
  BY <1>1, <1>2, <1>3, FrameTimes DEF LensSchedule
<1>8. lSt = 35
  BY <1>1, <1>4, <1>5, <1>6, <1>7 DEF LensShapes
<1> QED
  BY <1>1, <1>2, <1>3, <1>8, FrameTimes DEF LensSchedule

\* The end of a frame.
LEMMA LensFrameEnds ==
    ASSUME LensInv, Lens!FrameEnds
    PROVE  LensInv'
<1>1. /\ lVs >= FrameTicks /\ lVs' = 0 /\ lRisen' = TRUE /\ lStep' \in LensSteps
      /\ lServed' = (IF lReady THEN 1 ELSE 0)
      /\ lFrames' = (IF lReleased /\ lFrames < LensDelay THEN lFrames + 1 ELSE lFrames)
      /\ lReady' = (lReady \/ (lReleased /\ lFrames = LensDelay))
      /\ UNCHANGED <<lReleased, lTr, lSt, lGo, lCnt, lWcnt, lDely, lData, lRead>>
      /\ UNCHANGED <<lWord, lRd, lWorked, lLens>>
  BY DEF Lens!FrameEnds, Lens!seqVars, Lens!engineVars
<1>2. LensShapes
  BY DEF LensInv
<1>3. lReady' \in BOOLEAN /\ (lReady' <=> lReady \/ (lReleased /\ lFrames = LensDelay))
  BY <1>1, Zenon
<1>4. LensShapes'
  BY <1>1, <1>2, <1>3, FrameTimes DEF LensShapes
<1>8. ~lTr
  <2>1. PICK h \in Nat : h = FrameTicks \div 2
    BY FrameTimes, Z3
  <2>2. h + 1 < FrameTicks
    BY <2>1, FrameTimes, Z3
  <2>3. lVs > h + 1 /\ lVs \in Nat
    BY <1>1, <1>2, <2>2, FrameTimes DEF LensShapes
  <2> QED
    BY <2>1, <2>3 DEF LensInv, RiseSeenOnce
<1>5. RiseSeenOnce'
  <2>1. PICK h \in Nat : h = FrameTicks \div 2
    BY FrameTimes, Z3
  <2> QED
    BY <1>1, <1>8, <2>1 DEF RiseSeenOnce
<1>6. CASE lReady
  <2>1. LensSchedule /\ lSt = 35 /\ lRd = "ready" /\ lWord = "ready"
    BY <1>1, <1>6, LensWaits DEF LensInv
  <2>2. LensSchedule'
    BY <1>1, <1>4, <1>6, <1>8, <2>1 DEF LensSchedule
  <2>3. lReady'
    BY <1>1, <1>6
  <2> QED
    BY <1>4, <1>5, <2>2, <2>3 DEF LensInv
<1>7. CASE ~lReady
  <2>1. LensHeld /\ lServed' = 0
    BY <1>1, <1>7 DEF LensInv
  <2>2. CASE lReleased /\ lFrames = LensDelay
    <3>1. lReady'
      BY <1>1, <2>2
    <3>2. lRd = "ready" /\ lWord = "ready"
      <4>1. lFrames > 0 /\ lVs \in Nat /\ lWorked \in Nat /\ lWorked <= LensTransfer
        BY <1>2, <2>2, FrameTimes DEF LensShapes
      <4>2. lVs > lWorked + 1
        BY <1>1, <4>1, FrameTimes
      <4> QED
        BY <1>2, <2>1, <4>1, <4>2 DEF LensHeld, LensShapes, Lens!Engine!Phases
    <3>3. LensSchedule'
      BY <1>1, <1>2, <2>1, <3>2 DEF LensHeld, LensSchedule
    <3> QED
      BY <1>4, <1>5, <3>1, <3>3 DEF LensInv
  <2>3. CASE ~(lReleased /\ lFrames = LensDelay)
    <3>1. ~lReady'
      BY <1>1, <1>7, <2>3
    <3>2. lWord # "off" /\ lRd # "off"
      BY <1>1, <1>2, <2>1, FrameTimes DEF LensHeld, LensShapes
    <3>3. lWorked \in Nat
      BY <1>2, FrameTimes DEF LensShapes
    <3>4. LensHeld'
      BY <1>1, <2>1, <3>2, <3>3 DEF LensHeld
    <3> QED
      BY <1>4, <1>5, <3>1, <3>4 DEF LensInv
  <2> QED
    BY <2>2, <2>3
<1> QED
  BY <1>6, <1>7

\* Release and Withdraw.
LEMMA LensSwitched ==
    ASSUME LensInv, Lens!Release \/ Lens!Withdraw
    PROVE  LensInv'
<1>1. LensShapes /\ RiseSeenOnce
  BY DEF LensInv
<1>2. CASE Lens!Release
  <2>1. /\ lReleased' = TRUE
        /\ UNCHANGED <<lReady, lTr, lSt, lGo, lCnt, lWcnt, lDely, lData, lRead>>
        /\ UNCHANGED <<lWord, lRd, lWorked, lLens, lFrames, lVs, lRisen, lStep, lServed>>
    BY <1>2 DEF Lens!Release, Lens!seqVars, Lens!engineVars, Lens!frameVars
  <2>2. LensShapes'
    BY <1>1, <2>1 DEF LensShapes
  <2>3. RiseSeenOnce'
    BY <1>1, <2>1 DEF RiseSeenOnce
  <2>4. CASE lReady
    <3>1. LensSchedule'
      BY <2>1, <2>4 DEF LensInv, LensSchedule, Started, LatestTake
    <3> QED
      BY <2>1, <2>2, <2>3, <2>4, <3>1 DEF LensInv
  <2>5. CASE ~lReady
    <3>1. LensHeld'
      BY <2>1, <2>5 DEF LensInv, LensHeld
    <3> QED
      BY <2>1, <2>2, <2>3, <2>5, <3>1 DEF LensInv
  <2> QED
    BY <2>4, <2>5
<1>3. CASE Lens!Withdraw
  <2>1. /\ lReleased' = FALSE /\ lFrames' = 0 /\ lReady' = FALSE /\ lSt' = 0
        /\ lGo' = Lens!Idle /\ lWcnt' = 0 /\ lCnt' = 0 /\ lDely' = 0 /\ lTr' = lRisen
        /\ lServed' = 0
        /\ UNCHANGED <<lData, lRead, lWord, lRd, lWorked, lLens, lVs, lRisen, lStep>>
    BY <1>3 DEF Lens!Withdraw, Lens!engineVars
  <2>2. lGo' \in [word : BOOLEAN, read : BOOLEAN] /\ lGo'.word /\ lGo'.read
    BY <2>1 DEF Lens!Idle
  <2>3. LensShapes'
    <3>1. lTr' \in BOOLEAN /\ lReleased' \in BOOLEAN /\ lReady' \in BOOLEAN /\ lRisen' \in BOOLEAN
      BY <1>1, <2>1 DEF LensShapes
    <3>2. lDely' \in 0 .. LensTime + 5 /\ lFrames' \in 0 .. LensDelay
      BY <2>1, FrameTimes
    <3> QED
      BY <1>1, <2>1, <2>2, <3>1, <3>2 DEF LensShapes
  <2>4. RiseSeenOnce'
    <3>1. lRisen => lVs = 0 \/ lTr
      BY <1>1, FrameTimes DEF RiseSeenOnce, LensShapes
    <3>2. PICK h \in Nat : h = FrameTicks \div 2
      BY FrameTimes, Z3
    <3>3. lVs \in Nat /\ lTr' = lRisen /\ lVs' = lVs /\ lRisen' = lRisen
      BY <1>1, <2>1, FrameTimes DEF LensShapes
    <3>4. lVs > h => ~lRisen
      BY <1>1, <3>2 DEF RiseSeenOnce
    <3>5. lVs > h + 1 => ~lRisen
      BY <3>2, <3>3, <3>4
    <3> QED
      BY <3>2, <3>3, <3>4, <3>5 DEF RiseSeenOnce
  <2>5. LensHeld'
    <3>1. \/ lWord # "off" /\ lRd # "off" /\ (lWord = "ready" \/ lRd = "ready")
          \/ lWord = "off" /\ lRd = "off" /\ lVs = 0
      <4>1. CASE ~lReady
        BY <4>1 DEF LensInv, LensHeld
      <4>2. CASE lReady
        <5>1. LensSchedule
          BY <4>2 DEF LensInv
        <5>2. lSt \in {7, 8, 9} => lWord = "ready" /\ lRd # "off"
          BY <5>1 DEF LensSchedule, Started
        <5>3. lSt \in {32, 33, 34} => lRd = "ready" /\ lWord # "off"
          BY <5>1 DEF LensSchedule, Started
        <5>4. lSt \notin {7, 8, 9, 32, 33, 34} => lRd = "ready" /\ lWord = "ready"
          BY <5>1 DEF LensSchedule
        <5> QED
          BY <5>2, <5>3, <5>4
      <4> QED
        BY <4>1, <4>2
    <3> QED
      BY <2>1, <2>2, <3>1 DEF LensHeld
  <2> QED
    BY <2>1, <2>3, <2>4, <2>5 DEF LensInv
<1> QED
  BY <1>2, <1>3

\* The invariant of the lens driver.
THEOREM LensInvariant == PartSpec => []LensInv
<1>1. PartInit => LensInv
  <2> SUFFICES ASSUME PartInit
               PROVE  LensInv
    OBVIOUS
  <2>1. Lens!Init
    BY DEF PartInit
  <2>2. LensShapes
    <3>1. /\ lReleased \in BOOLEAN /\ lReady \in BOOLEAN /\ lRisen \in BOOLEAN /\ lTr \in BOOLEAN
          /\ lGo \in [word : BOOLEAN, read : BOOLEAN]
      BY <2>1 DEF Lens!Init, Lens!Idle
    <3>2. lFrames = 0 /\ lVs = 0 /\ lDely = 0 /\ lWorked = 0 /\ lServed = 0
      BY <2>1 DEF Lens!Init
    <3> QED
      BY <2>1, <3>1, <3>2, FrameTimes DEF Lens!Init, LensShapes, Lens!Engine!Phases
  <2>3. RiseSeenOnce
    BY <2>1 DEF Lens!Init, RiseSeenOnce
  <2>4. LensHeld
    BY <2>1, FrameTimes DEF Lens!Init, LensHeld, Lens!Idle
  <2>5. ~lReady
    BY <2>1 DEF Lens!Init
  <2> QED
    BY <2>2, <2>3, <2>4, <2>5 DEF LensInv
<1>2. LensInv /\ [CameraMoves \/ BridgeMoves \/ LensMoves]_<<part, vars, bridgeVars, lensVars>>
      => LensInv'
  <2> SUFFICES ASSUME LensInv,
                      [CameraMoves \/ BridgeMoves \/ LensMoves]_<<part, vars, bridgeVars, lensVars>>
               PROVE  LensInv'
    OBVIOUS
  <2>1. CASE UNCHANGED lensVars
    BY <2>1 DEF lensVars, LensInv, LensShapes, RiseSeenOnce, LensHeld, LensSchedule, LatestTake,
                Started
  <2>2. CASE LensMoves
    BY <2>2, LensClockReady, LensClockHeld, LensFrameEnds, LensSwitched DEF LensMoves, Lens!Next
  <2> QED
    BY <2>1, <2>2 DEF CameraMoves, BridgeMoves
<1> QED
  BY <1>1, <1>2, PTL DEF PartSpec

\* Each frame's step has reached the lens when the frame is over, and no step
\* that F_VCM has already left ever does (VCM_I2C.v:113-187).
THEOREM LensInTime == PartSpec => LensOnTime
<1>1. LensInv => Lens!LensKeepsUp
  BY LensWaits DEF LensInv, LensHeld, Lens!LensKeepsUp
<1>2. LensInv /\ [CameraMoves \/ BridgeMoves \/ LensMoves]_<<part, vars, bridgeVars, lensVars>>
      => (lLens' # lLens => lLens' = lStep)
  <2> SUFFICES ASSUME LensInv, lLens' # lLens,
                      [CameraMoves \/ BridgeMoves \/ LensMoves]_<<part, vars, bridgeVars, lensVars>>
               PROVE  lLens' = lStep
    OBVIOUS
  <2>1. Lens!Clock
    BY DEF CameraMoves, BridgeMoves, LensMoves, lensVars, Lens!Next, Lens!FrameEnds,
           Lens!Release, Lens!Withdraw, Lens!engineVars
  <2>2. lReady /\ lWord = "busy" /\ lLens' = lData
    BY <2>1, LensEngines DEF LensInv
  <2>3. LensSchedule /\ LensShapes
    BY <2>2 DEF LensInv
  <2>4. lSt \in {32, 33, 34}
    BY <2>2, <2>3 DEF LensSchedule
  <2> QED
    BY <2>2, <2>3, <2>4 DEF LensSchedule
<1>3. LensInv' => Lens!LensKeepsUp'
  BY <1>1, PTL
<1>4. LensInv /\ LensInv'
      /\ [CameraMoves \/ BridgeMoves \/ LensMoves]_<<part, vars, bridgeVars, lensVars>>
      => [Lens!LensKeepsUp' /\ (lLens' # lLens => lLens' = lStep)]_(Lens!vars)
  BY <1>2, <1>3
<1> QED
  BY <1>4, LensInvariant, PTL DEF PartSpec, LensOnTime, Lens!LensOnTime

-----------------------------------------------------------------------------
(* The bridge's configuration.                                              *)

BridgeShapes ==
    /\ bResetN \in BOOLEAN /\ bHold \in 0 .. BridgeHold
    /\ bSt \in (0 .. 10) \cup {28, 30, 31, 32, 33, 34, 35, 36, 40, 41, 42}
    /\ bGo \in [word : BOOLEAN, ptr : BOOLEAN, read : BOOLEAN]
    /\ bDely \in Nat /\ bCnt \in 0 .. 1 /\ bRelease \in BOOLEAN
    /\ bFrame \in ToSet(BridgeTable) \cup {"none", "id"} /\ bTab \in ToSet(BridgeTable)
    /\ bWord \in Bridge!Engine!Phases /\ bPtr \in Bridge!Engine!Phases
    /\ bRd \in Bridge!Engine!Phases /\ bWorked \in 0 .. BridgeTransfer

\* GO is low only while the sequencer holds it, and the engine follows it.
BridgeGoLow ==
    /\ ~bGo.word <=> bSt = 32
    /\ ~bGo.ptr <=> bSt = 3
    /\ ~bGo.read <=> bSt = 7
    /\ bSt = 32 => bDely \in 0 .. 3 /\ Started(bWord, bDely)
    /\ bSt = 3 => bDely \in 0 .. 2 /\ Started(bPtr, bDely)
    /\ bSt = 7 => bDely \in 0 .. 2 /\ Started(bRd, bDely)

\* Once a clock has passed with GO high, every engine waits or works.
BridgeArmed ==
    bResetN \/ bHold > 0 =>
        /\ bWord # "off" /\ (bWord = "armed" => ~bGo.word)
        /\ bPtr # "off" /\ (bPtr = "armed" => ~bGo.ptr)
        /\ bRd # "off" /\ (bRd = "armed" => ~bGo.read)

\* Which engine may be at work, by the state of the sequencer; what a reset
\* has overtaken is over before the reset is.
BridgeAtWork ==
    IF bResetN
    THEN /\ bSt \notin {32, 33, 34} => bWord = "ready"
         /\ bSt \notin {7, 8, 9} => bRd = "ready"
         /\ bSt > 4 => bPtr = "ready"
         /\ bSt = 33 => bWord = "busy"
    ELSE /\ bSt = 0
         /\ bWord = "ready" \/ bRd = "ready" \/ (bWord = "off" /\ bRd = "off" /\ bHold = 0)
         /\ bWord = "armed" \/ bRd = "armed" => bHold = 0
         /\ bWord = "busy" \/ bRd = "busy" => bHold <= bWorked + 1

\* WCNT counts the table's entries, and the output register is a clock behind.
BridgeCounts ==
    /\ bWcnt \in 0 .. Len(BridgeTable)
    /\ bSt <= 9 => bCnt = 0
    /\ bSt = 10 => bCnt = 1
    /\ bSt \in (0 .. 10) \cup {28, 30} => bWcnt = 0
    /\ bSt \in {31, 32, 33, 34, 40, 41, 42} => bWcnt < Len(BridgeTable)
    /\ bSt = 36 => bWcnt = Len(BridgeTable)
    /\ bRelease => bSt = 36
    /\ bSt \in {31, 40, 41} => bTab = BridgeTable[bWcnt + 1]
    /\ bSt \in {40, 41} => bTab \in BridgePauses
    /\ bSt \in {32, 33, 34} => bFrame = BridgeTable[bWcnt + 1] /\ bFrame \notin BridgePauses

\* The entries that have been dealt with, the one being sent included once the
\* engine has ended.
BridgeDone == IF bSt = 34 /\ bWord = "ready" THEN bWcnt + 1 ELSE bWcnt

\* The words among them have gone over the wires.
BridgeSent == bSent = IF bResetN THEN SubSeq(Bridge!Words, 1, Bridge!UpTo(BridgeDone)) ELSE <<>>

BridgeInv ==
    BridgeShapes /\ BridgeGoLow /\ BridgeArmed /\ BridgeAtWork /\ BridgeCounts /\ BridgeSent

\* A clock of the bridge, by what it does to the words that were sent.
BridgeStep ==
    \/ bSent' = bSent /\ BridgeDone' = BridgeDone
    \/ /\ bWcnt < Len(BridgeTable) /\ BridgeDone = bWcnt /\ BridgeDone' = bWcnt + 1
       /\ IF BridgeTable[bWcnt + 1] \in BridgePauses
          THEN bSent' = bSent ELSE bSent' = Append(bSent, BridgeTable[bWcnt + 1])

\* What is asked of the sequencer's registers after a clock.
BridgeMoved ==
    /\ bSt' \in (0 .. 10) \cup {28, 30, 31, 32, 33, 34, 35, 36, 40, 41, 42}
    /\ bGo' \in [word : BOOLEAN, ptr : BOOLEAN, read : BOOLEAN]
    /\ bDely' \in Nat /\ bCnt' \in 0 .. 1 /\ bRelease' \in BOOLEAN
    /\ bFrame' \in ToSet(BridgeTable) \cup {"none", "id"}
    /\ BridgeGoLow' /\ BridgeAtWork' /\ BridgeCounts' /\ BridgeStep

\* The library's operators are the same in every instance.
LEMMA BridgeLibrary ==
    /\ \A S : Bridge!Cardinality(S) = Cardinality(S)
    /\ \A s : Bridge!ToSet(s) = ToSet(s) /\ Bridge!Last(s) = s[Len(s)]
<1>1. ASSUME NEW S
      PROVE  Bridge!Cardinality(S) = Cardinality(S)
  BY DEF Bridge!Cardinality, Cardinality
<1>2. ASSUME NEW s
      PROVE  Bridge!ToSet(s) = ToSet(s) /\ Bridge!Last(s) = s[Len(s)]
  BY DEF Bridge!ToSet, ToSet, Bridge!Last
<1> QED
  BY <1>1, <1>2

\* What the proofs use of the bridge's constants.
LEMMA BridgeConstants ==
    /\ BridgeTable \in Seq(ToSet(BridgeTable)) /\ Len(BridgeTable) \in Nat \ {0}
    /\ BridgePauses \subseteq ToSet(BridgeTable)
    /\ BridgePauseTicks \in Nat /\ BridgeTransfer \in Nat /\ BridgeHold \in Nat
    /\ BridgeHold > BridgeTransfer + 2
    /\ BridgeTable[Len(BridgeTable)] \notin BridgePauses
    /\ \A i \in 1 .. Len(BridgeTable) : BridgeTable[i] \in ToSet(BridgeTable)
<1>1. /\ BridgeTable \in Seq(ToSet(BridgeTable)) /\ BridgeTable # <<>>
      /\ BridgePauses \subseteq ToSet(BridgeTable)
      /\ BridgePauseTicks \in Nat /\ BridgeTransfer \in Nat /\ BridgeHold \in Nat
      /\ BridgeHold > BridgeTransfer + 2
      /\ BridgeTable[Len(BridgeTable)] \notin BridgePauses
  BY BusesAssumption, BridgeLibrary DEF Bridge!BridgeAssumption, Bridge!EndsWithWord
<1>2. /\ Len(BridgeTable) \in Nat \ {0}
      /\ \A i \in 1 .. Len(BridgeTable) : BridgeTable[i] \in ToSet(BridgeTable)
  BY <1>1
<1> QED
  BY <1>1, <1>2

\* The words of the bridge's table: how many there are among its first
\* entries, and where each of them is.
LEMMA BridgeWords ==
    /\ Bridge!Words \in Seq(ToSet(BridgeTable)) /\ Bridge!UpTo(0) = 0
    /\ Len(Bridge!Words) = Bridge!UpTo(Len(BridgeTable))
    /\ \A m \in 0 .. Len(BridgeTable) : Bridge!UpTo(m) \in 0 .. Len(Bridge!Words)
    /\ \A m \in 0 .. Len(BridgeTable) - 1 :
         IF BridgeTable[m + 1] \in BridgePauses
         THEN Bridge!UpTo(m + 1) = Bridge!UpTo(m)
         ELSE /\ Bridge!UpTo(m + 1) = Bridge!UpTo(m) + 1
              /\ Bridge!Words[Bridge!UpTo(m + 1)] = BridgeTable[m + 1]
<1> DEFINE n == Len(BridgeTable)
           P == Bridge!Places
<1>1. n \in Nat /\ P \in SUBSET (1 .. n)
  BY BridgeConstants DEF Bridge!Places
<1>2. /\ IsFiniteSet(P) /\ Below(P, 0) = 0 /\ Below(P, n) = Cardinality(P)
      /\ \A m \in 0 .. n : Below(P, m) \in Nat /\ Below(P, m) <= Below(P, n)
      /\ \A m \in 0 .. n - 1 :
           Below(P, m + 1) = IF m + 1 \in P THEN Below(P, m) + 1 ELSE Below(P, m)
      /\ \A i, j \in P : Below(P, i) = Below(P, j) => i = j
  <2> HIDE DEF n, P
  <2> QED
    BY <1>1, Counted
<1>3. \A m \in 0 .. n : Bridge!UpTo(m) = Below(P, m)
  BY BridgeLibrary DEF Bridge!UpTo, Below
<1>4. \A i \in 1 .. n : i \in P <=> BridgeTable[i] \notin BridgePauses
  BY DEF Bridge!Places
<1> HIDE DEF n, P
<1>5. Cardinality(P) \in Nat /\ \A m \in 0 .. n : Below(P, m) \in 0 .. Cardinality(P)
  BY <1>1, <1>2
<1>6. ASSUME NEW j \in P
      PROVE  /\ Below(P, j) \in 1 .. Cardinality(P)
             /\ (CHOOSE i \in P : Bridge!UpTo(i) = Below(P, j)) = j
  <2>1. j \in 0 .. n /\ j - 1 \in 0 .. n - 1 /\ (j - 1) + 1 = j /\ j - 1 \in 0 .. n
    BY <1>1
  <2>2. Below(P, j) = Below(P, j - 1) + 1
    BY <1>2, <2>1
  <2>3. \A i \in P : Bridge!UpTo(i) = Below(P, j) <=> i = j
    BY <1>1, <1>2, <1>3
  <2> QED
    BY <1>5, <2>1, <2>2, <2>3
<1>7. ASSUME NEW k \in 1 .. Cardinality(P)
      PROVE  \E i \in P : Bridge!UpTo(i) = k
  <2>1. PICK i \in P : Below(P, i) = k
    BY <1>1, Found
  <2> QED
    BY <1>1, <1>3, <2>1
<1>8. Bridge!Words = [k \in 1 .. Cardinality(P) |->
                       BridgeTable[CHOOSE i \in P : Bridge!UpTo(i) = k]]
  BY BridgeLibrary DEF Bridge!Words, P
<1>9. \A k \in 1 .. Cardinality(P) :
        BridgeTable[CHOOSE i \in P : Bridge!UpTo(i) = k] \in ToSet(BridgeTable)
  <2>1. ASSUME NEW k \in 1 .. Cardinality(P)
        PROVE  (CHOOSE i \in P : Bridge!UpTo(i) = k) \in 1 .. n
    BY <1>1, <1>7
  <2>2. \A i \in 1 .. n : BridgeTable[i] \in ToSet(BridgeTable)
    BY BridgeConstants DEF n
  <2> QED
    BY <2>1, <2>2
<1>10. Bridge!Words \in Seq(ToSet(BridgeTable)) /\ Len(Bridge!Words) = Cardinality(P)
  <2>1. Bridge!Words \in [1 .. Cardinality(P) -> ToSet(BridgeTable)]
    BY <1>8, <1>9
  <2> QED
    BY <1>5, <2>1
<1>11. ASSUME NEW m \in 0 .. n - 1
       PROVE  IF BridgeTable[m + 1] \in BridgePauses
              THEN Bridge!UpTo(m + 1) = Bridge!UpTo(m)
              ELSE /\ Bridge!UpTo(m + 1) = Bridge!UpTo(m) + 1
                   /\ Bridge!Words[Bridge!UpTo(m + 1)] = BridgeTable[m + 1]
  <2>1. m \in 0 .. n /\ m + 1 \in 0 .. n /\ m + 1 \in 1 .. n
    BY <1>1
  <2>2. Bridge!UpTo(m) = Below(P, m) /\ Bridge!UpTo(m + 1) = Below(P, m + 1)
    BY <1>3, <2>1
  <2>3. CASE m + 1 \in P
    <3>1. Bridge!Words[Below(P, m + 1)] = BridgeTable[m + 1]
      BY <1>6, <1>8, <2>3
    <3> QED
      BY <1>2, <1>4, <2>1, <2>2, <2>3, <3>1
  <2>4. CASE m + 1 \notin P
    BY <1>2, <1>4, <2>1, <2>2, <2>4
  <2> QED
    BY <2>3, <2>4
<1>12. \A m \in 0 .. n : Bridge!UpTo(m) \in 0 .. Len(Bridge!Words)
  BY <1>3, <1>5, <1>10
<1>13. 0 \in 0 .. n /\ n \in 0 .. n
  BY <1>1
<1>14. Bridge!UpTo(0) = 0 /\ Len(Bridge!Words) = Bridge!UpTo(n)
  BY <1>2, <1>3, <1>10, <1>13
<1> QED
  BY <1>10, <1>11, <1>12, <1>14 DEF n

\* The engines after a clock.
LEMMA BridgeEngines ==
    ASSUME BridgeShapes, Bridge!Clock
    PROVE  /\ bWord' \in Bridge!Engine!Phases /\ bPtr' \in Bridge!Engine!Phases
           /\ bRd' \in Bridge!Engine!Phases /\ bWorked' \in 0 .. BridgeTransfer
           /\ bWord = "off" => bWord' = IF bGo.word THEN "ready" ELSE "off"
           /\ bWord = "ready" => bWord' = IF bGo.word THEN "ready" ELSE "armed"
           /\ bWord = "armed" => bWord' = "busy"
           /\ bWord = "busy" => bWord' = "busy" \/ (bWord' = "ready" /\ bGo.word)
           /\ bPtr = "off" => bPtr' = IF bGo.ptr THEN "ready" ELSE "off"
           /\ bPtr = "ready" => bPtr' = IF bGo.ptr THEN "ready" ELSE "armed"
           /\ bPtr = "armed" => bPtr' = "busy"
           /\ bPtr = "busy" => bPtr' = "busy" \/ (bPtr' = "ready" /\ bGo.ptr)
           /\ bRd = "off" => bRd' = IF bGo.read THEN "ready" ELSE "off"
           /\ bRd = "ready" => bRd' = IF bGo.read THEN "ready" ELSE "armed"
           /\ bRd = "armed" => bRd' = "busy"
           /\ bRd = "busy" => bRd' = "busy" \/ (bRd' = "ready" /\ bGo.read)
           /\ bWorked' = IF /\ bWord = "busy" \/ bRd = "busy"
                            /\ bWord' = "busy" \/ bRd' = "busy" THEN bWorked + 1 ELSE 0
           /\ bSent' = IF bWord = "busy" /\ bWord' = "ready" /\ bResetN
                       THEN Append(bSent, bFrame) ELSE bSent
<1>1. /\ bWord' \in Bridge!Engine!After(bWord, bGo.word)
      /\ bPtr' \in Bridge!Engine!After(bPtr, bGo.ptr)
      /\ bRd' \in Bridge!Engine!After(bRd, bGo.read)
      /\ bWorked' <= BridgeTransfer
      /\ bWorked' = IF /\ bWord = "busy" \/ bRd = "busy"
                       /\ bWord' = "busy" \/ bRd' = "busy" THEN bWorked + 1 ELSE 0
      /\ bSent' = IF bWord = "busy" /\ bWord' = "ready" /\ bResetN
                  THEN Append(bSent, bFrame) ELSE bSent
  BY DEF Bridge!Clock, Bridge!Engines, Bridge!TimedBusy
<1>2. ASSUME NEW p \in Bridge!Engine!Phases, NEW g \in BOOLEAN, NEW q \in Bridge!Engine!After(p, g)
      PROVE  /\ q \in Bridge!Engine!Phases
             /\ p = "off" => q = IF g THEN "ready" ELSE "off"
             /\ p = "ready" => q = IF g THEN "ready" ELSE "armed"
             /\ p = "armed" => q = "busy"
             /\ p = "busy" => q = "busy" \/ (q = "ready" /\ g)
  BY <1>2 DEF Bridge!Engine!Phases, Bridge!Engine!After
<1>3. bGo.word \in BOOLEAN /\ bGo.ptr \in BOOLEAN /\ bGo.read \in BOOLEAN
  BY DEF BridgeShapes
<1>4. bWorked' \in 0 .. BridgeTransfer
  BY <1>1, BridgeConstants DEF BridgeShapes
<1> QED
  BY <1>1, <1>2, <1>3, <1>4 DEF BridgeShapes

\* While the sequencer runs and no GO is low, an engine that waits goes on
\* waiting and one at work works or ends.
LEMMA BridgeGoHigh ==
    ASSUME BridgeInv, bResetN, Bridge!Clock, bSt \notin {3, 7, 32}
    PROVE  /\ bGo.word /\ bGo.ptr /\ bGo.read
           /\ bWord \in {"ready", "busy"} /\ bPtr \in {"ready", "busy"}
           /\ bRd \in {"ready", "busy"}
           /\ bWord' \in {"ready", "busy"} /\ bPtr' \in {"ready", "busy"}
           /\ bRd' \in {"ready", "busy"}
           /\ bWord = "ready" => bWord' = "ready"
           /\ bPtr = "ready" => bPtr' = "ready"
           /\ bRd = "ready" => bRd' = "ready"
           /\ bSent' = IF bWord = "busy" /\ bWord' = "ready"
                       THEN Append(bSent, bFrame) ELSE bSent
<1>1. bGo.word /\ bGo.ptr /\ bGo.read
  BY DEF BridgeInv, BridgeGoLow
<1>2. bWord \in {"ready", "busy"} /\ bPtr \in {"ready", "busy"} /\ bRd \in {"ready", "busy"}
  BY <1>1 DEF BridgeInv, BridgeArmed, BridgeShapes, Bridge!Engine!Phases
<1>3. BridgeShapes
  BY DEF BridgeInv
<1> QED
  BY <1>1, <1>2, <1>3, BridgeEngines

\* Between the transfers: all three engines wait, or the pointer engine ends
\* what a reset has overtaken.
LEMMA BridgeBetween ==
    ASSUME BridgeInv, bResetN, Bridge!Clock,
           Bridge!Begin \/ Bridge!OnToTable \/ Bridge!BeforeTable \/ Bridge!FirstWord
           \/ Bridge!TakePause \/ Bridge!NextWord \/ Bridge!TableEnd \/ Bridge!PauseBegins
           \/ Bridge!Pausing
    PROVE  BridgeMoved
<1>1. /\ bSt \in {0, 10, 28, 30, 31, 35, 36, 40, 41}
      /\ bFrame' = bFrame
  BY DEF Bridge!Begin, Bridge!OnToTable, Bridge!BeforeTable, Bridge!FirstWord, Bridge!TakePause,
         Bridge!NextWord, Bridge!TableEnd, Bridge!PauseBegins, Bridge!Pausing
<1>2. /\ bGo.word /\ bGo.ptr /\ bGo.read
      /\ bWord' = "ready" /\ bRd' = "ready" /\ bPtr' \in {"ready", "busy"}
      /\ bSt > 4 => bPtr' = "ready"
      /\ bSent' = bSent /\ BridgeDone = bWcnt
  BY <1>1, BridgeGoHigh DEF BridgeInv, BridgeAtWork, BridgeDone
<1>3. /\ BridgeShapes /\ BridgeCounts /\ bResetN' = bResetN
      /\ bTab' = IF bWcnt < Len(BridgeTable) THEN BridgeTable[bWcnt + 1] ELSE bTab
  BY DEF BridgeInv, Bridge!Clock, Bridge!TableOutput
<1>4. /\ bGo' \in [word : BOOLEAN, ptr : BOOLEAN, read : BOOLEAN]
      /\ bGo'.word /\ bGo'.ptr /\ bGo'.read
  <2>1. bGo' = bGo \/ bGo' = Bridge!Idle
    BY DEF Bridge!Begin, Bridge!OnToTable, Bridge!BeforeTable, Bridge!FirstWord, Bridge!TakePause,
           Bridge!NextWord, Bridge!TableEnd, Bridge!PauseBegins, Bridge!Pausing
  <2>2. CASE bGo' = bGo
    BY <1>2, <1>3, <2>2 DEF BridgeShapes
  <2>3. CASE bGo' = Bridge!Idle
    BY <2>3 DEF Bridge!Idle
  <2> QED
    BY <2>1, <2>2, <2>3
<1>5. CASE Bridge!Begin
  <2>1. bSt = 0 /\ bSt' = 1 /\ bWcnt' = 0 /\ bCnt' = 0 /\ bDely' = 0 /\ bRelease' = bRelease
    BY <1>5 DEF Bridge!Begin
  <2>2. BridgeDone' = bWcnt' /\ bWcnt = 0
    BY <1>3, <2>1 DEF BridgeDone, BridgeCounts
  <2> QED
    BY <1>1, <1>2, <1>3, <1>4, <2>1, <2>2, BridgeConstants
       DEF BridgeMoved, BridgeShapes, BridgeGoLow, BridgeAtWork, BridgeCounts, BridgeStep
<1>6. CASE Bridge!OnToTable
  <2>1. bSt = 10 /\ bCnt = 1 /\ bSt' = 28 /\ bWcnt' = bWcnt /\ bCnt' = 1 /\ bDely' = 0
        /\ bRelease' = bRelease
    BY <1>3, <1>6 DEF Bridge!OnToTable, BridgeCounts
  <2>2. BridgeDone' = bWcnt'
    BY <2>1 DEF BridgeDone
  <2> QED
    BY <1>1, <1>2, <1>3, <1>4, <2>1, <2>2, BridgeConstants
       DEF BridgeMoved, BridgeShapes, BridgeGoLow, BridgeAtWork, BridgeCounts, BridgeStep
<1>7. CASE Bridge!BeforeTable
  <2>1. bSt = 28 /\ bSt' \in {28, 30} /\ bWcnt' = bWcnt /\ bCnt' = bCnt /\ bDely' \in Nat
        /\ bRelease' = bRelease
    BY <1>3, <1>7 DEF Bridge!BeforeTable, BridgeShapes
  <2>2. BridgeDone' = bWcnt'
    BY <2>1 DEF BridgeDone
  <2> QED
    BY <1>1, <1>2, <1>3, <1>4, <2>1, <2>2, BridgeConstants
       DEF BridgeMoved, BridgeShapes, BridgeGoLow, BridgeAtWork, BridgeCounts, BridgeStep
<1>8. CASE Bridge!FirstWord
  <2>1. bSt = 30 /\ bSt' = 31 /\ bWcnt' = 0 /\ bWcnt = 0 /\ bCnt' = bCnt /\ bDely' = bDely
        /\ bRelease' = bRelease
    BY <1>3, <1>8 DEF Bridge!FirstWord, BridgeCounts
  <2>2. BridgeDone' = bWcnt'
    BY <2>1 DEF BridgeDone
  <2> QED
    BY <1>1, <1>2, <1>3, <1>4, <2>1, <2>2, BridgeConstants
       DEF BridgeMoved, BridgeShapes, BridgeGoLow, BridgeAtWork, BridgeCounts, BridgeStep
<1>9. CASE Bridge!TakePause
  <2>1. bSt = 31 /\ bTab \in BridgePauses /\ bSt' = 40 /\ bWcnt' = bWcnt /\ bCnt' = bCnt
        /\ bDely' = bDely /\ bRelease' = bRelease
    BY <1>9 DEF Bridge!TakePause
  <2>2. BridgeDone' = bWcnt'
    BY <2>1 DEF BridgeDone
  <2> QED
    BY <1>1, <1>2, <1>3, <1>4, <2>1, <2>2, BridgeConstants
       DEF BridgeMoved, BridgeShapes, BridgeGoLow, BridgeAtWork, BridgeCounts, BridgeStep
<1>10. CASE Bridge!NextWord
  <2>1. /\ bSt = 35 /\ bWcnt' = bWcnt /\ bRelease' = bRelease /\ bCnt' \in 0 .. 1 /\ bDely' \in Nat
        /\ IF bWcnt = Len(BridgeTable) THEN bSt' = 36 ELSE bSt' = 31
    BY <1>3, <1>10 DEF Bridge!NextWord, BridgeShapes
  <2>2. BridgeDone' = bWcnt'
    BY <2>1 DEF BridgeDone
  <2>3. /\ bWcnt \in Nat /\ bWcnt <= Len(BridgeTable) /\ bCnt' \in 0 .. 1
        /\ bRelease => bSt = 36
    BY <1>3, <2>1, BridgeConstants DEF BridgeCounts
  <2>4. BridgeCounts'
    <3>1. CASE bWcnt = Len(BridgeTable)
      BY <2>1, <2>3, <3>1 DEF BridgeCounts
    <3>2. CASE bWcnt # Len(BridgeTable)
      <4>1. bWcnt < Len(BridgeTable) /\ bSt' = 31
        BY <2>1, <2>3, <3>2, BridgeConstants
      <4>2. bTab' = BridgeTable[bWcnt' + 1]
        BY <1>3, <2>1, <4>1
      <4> QED
        BY <2>1, <2>3, <4>1, <4>2 DEF BridgeCounts
    <3> QED
      BY <3>1, <3>2
  <2>5. bSt' \in {31, 36}
    BY <2>1
  <2> QED
    BY <1>1, <1>2, <1>3, <1>4, <2>1, <2>2, <2>4, <2>5
       DEF BridgeMoved, BridgeShapes, BridgeGoLow, BridgeAtWork, BridgeStep
<1>11. CASE Bridge!TableEnd
  <2>1. /\ bSt = 36 /\ bWcnt' = bWcnt /\ bRelease' = TRUE /\ bCnt' = bCnt /\ bDely' = bDely
        /\ bSt' = bSt
    BY <1>11 DEF Bridge!TableEnd
  <2>2. BridgeDone' = bWcnt' /\ bRelease' \in BOOLEAN
    BY <2>1 DEF BridgeDone
  <2> QED
    BY <1>1, <1>2, <1>3, <1>4, <2>1, <2>2, BridgeConstants
       DEF BridgeMoved, BridgeShapes, BridgeGoLow, BridgeAtWork, BridgeCounts, BridgeStep
<1>12. CASE Bridge!PauseBegins
  <2>1. bSt = 40 /\ bSt' = 41 /\ bWcnt' = bWcnt /\ bCnt' = bCnt /\ bDely' = 0
        /\ bRelease' = bRelease
    BY <1>12 DEF Bridge!PauseBegins
  <2>2. BridgeDone' = bWcnt'
    BY <2>1 DEF BridgeDone
  <2> QED
    BY <1>1, <1>2, <1>3, <1>4, <2>1, <2>2, BridgeConstants
       DEF BridgeMoved, BridgeShapes, BridgeGoLow, BridgeAtWork, BridgeCounts, BridgeStep
<1>13. CASE Bridge!Pausing
  <2>1. /\ bSt = 41 /\ bCnt' = bCnt /\ bRelease' = bRelease /\ bDely' \in Nat
        /\ bWcnt < Len(BridgeTable) /\ BridgeTable[bWcnt + 1] \in BridgePauses
        /\ \/ bSt' = 42 /\ bWcnt' = bWcnt + 1
           \/ bSt' = 41 /\ bWcnt' = bWcnt
    BY <1>3, <1>13 DEF Bridge!Pausing, BridgeShapes, BridgeCounts
  <2>2. BridgeDone' = bWcnt'
    BY <2>1 DEF BridgeDone
  <2>3. bWcnt + 1 # Len(BridgeTable)
    BY <2>1, BridgeConstants
  <2>4. /\ bWcnt \in Nat /\ bWcnt + 1 < Len(BridgeTable) /\ ~bRelease /\ bCnt \in 0 .. 1
        /\ bTab = BridgeTable[bWcnt + 1] /\ bTab' = BridgeTable[bWcnt + 1] /\ bSt' # 40
    <3>1. /\ bWcnt \in 0 .. Len(BridgeTable) /\ ~bRelease /\ bCnt \in 0 .. 1
          /\ bTab = BridgeTable[bWcnt + 1]
      BY <1>3, <2>1 DEF BridgeCounts, BridgeShapes
    <3>2. bWcnt \in Nat /\ bWcnt + 1 < Len(BridgeTable)
      BY <2>1, <2>3, <3>1, BridgeConstants
    <3> QED
      BY <1>3, <2>1, <3>1, <3>2
  <2>5. BridgeCounts'
    <3>1. CASE bSt' = 42 /\ bWcnt' = bWcnt + 1
      BY <2>1, <2>4, <3>1 DEF BridgeCounts
    <3>2. CASE bSt' = 41 /\ bWcnt' = bWcnt
      BY <2>1, <2>4, <3>2 DEF BridgeCounts
    <3> QED
      BY <2>1, <3>1, <3>2
  <2> QED
    BY <1>1, <1>2, <1>3, <1>4, <2>1, <2>2, <2>5
       DEF BridgeMoved, BridgeShapes, BridgeGoLow, BridgeAtWork, BridgeStep
<1> QED
  BY <1>5, <1>6, <1>7, <1>8, <1>9, <1>10, <1>11, <1>12, <1>13

\* The clocks in which the sequencer only waits for an engine to notice.
LEMMA BridgePasses ==
    ASSUME BridgeInv, bResetN, Bridge!Clock, Bridge!Pass
    PROVE  BridgeMoved
<1>1. /\ bSt \in {1, 5, 8, 33, 42} /\ bSt' = (IF bSt = 42 THEN 31 ELSE bSt + 1)
      /\ bGo' = bGo /\ bWcnt' = bWcnt /\ bCnt' = bCnt /\ bDely' = bDely
      /\ bFrame' = bFrame /\ bRelease' = bRelease
  BY DEF Bridge!Pass
<1>2. /\ BridgeShapes /\ BridgeGoLow /\ BridgeAtWork /\ BridgeCounts /\ bResetN' = bResetN
      /\ bTab' = IF bWcnt < Len(BridgeTable) THEN BridgeTable[bWcnt + 1] ELSE bTab
  BY DEF BridgeInv, Bridge!Clock, Bridge!TableOutput
<1>3. /\ bGo.word /\ bGo.ptr /\ bGo.read
      /\ bWord' \in {"ready", "busy"} /\ bPtr' \in {"ready", "busy"} /\ bRd' \in {"ready", "busy"}
      /\ bWord = "ready" => bWord' = "ready"
      /\ bPtr = "ready" => bPtr' = "ready"
      /\ bRd = "ready" => bRd' = "ready"
      /\ bSent' = IF bWord = "busy" /\ bWord' = "ready" THEN Append(bSent, bFrame) ELSE bSent
  BY <1>1, BridgeGoHigh
<1>4. /\ bGo' \in [word : BOOLEAN, ptr : BOOLEAN, read : BOOLEAN]
      /\ bGo'.word /\ bGo'.ptr /\ bGo'.read
  BY <1>1, <1>2, <1>3 DEF BridgeShapes
<1>5. CASE bSt \in {1, 5, 8}
  <2>1. bWord = "ready" /\ bWord' = "ready" /\ bSt' \in {2, 6, 9} /\ bSent' = bSent
    BY <1>1, <1>2, <1>3, <1>5 DEF BridgeAtWork
  <2>2. BridgeDone' = BridgeDone
    BY <1>1, <1>5, <2>1 DEF BridgeDone
  <2>3. BridgeAtWork'
    BY <1>1, <1>2, <1>3, <1>5, <2>1 DEF BridgeAtWork
  <2> QED
    BY <1>1, <1>2, <1>3, <1>4, <1>5, <2>1, <2>2, <2>3
       DEF BridgeMoved, BridgeShapes, BridgeGoLow, BridgeCounts, BridgeStep
<1>6. CASE bSt = 33
  <2>1. /\ bWord = "busy" /\ bRd' = "ready" /\ bPtr' = "ready" /\ bSt' = 34
        /\ bFrame = BridgeTable[bWcnt + 1] /\ bFrame \notin BridgePauses
        /\ bWcnt < Len(BridgeTable) /\ BridgeDone = bWcnt
    BY <1>1, <1>2, <1>3, <1>6 DEF BridgeAtWork, BridgeCounts, BridgeDone
  <2>2. BridgeStep
    BY <1>1, <1>3, <2>1 DEF BridgeStep, BridgeDone
  <2> QED
    BY <1>1, <1>2, <1>3, <1>4, <1>6, <2>1, <2>2
       DEF BridgeMoved, BridgeShapes, BridgeGoLow, BridgeAtWork, BridgeCounts
<1>7. CASE bSt = 42
  <2>1. /\ bWord = "ready" /\ bWord' = "ready" /\ bRd' = "ready" /\ bPtr' = "ready" /\ bSt' = 31
        /\ bWcnt < Len(BridgeTable) /\ bTab' = BridgeTable[bWcnt + 1] /\ bSent' = bSent
    BY <1>1, <1>2, <1>3, <1>7 DEF BridgeAtWork, BridgeCounts
  <2>2. BridgeDone' = BridgeDone
    BY <1>1, <1>7, <2>1 DEF BridgeDone
  <2> QED
    BY <1>1, <1>2, <1>3, <1>4, <1>7, <2>1, <2>2
       DEF BridgeMoved, BridgeShapes, BridgeGoLow, BridgeAtWork, BridgeCounts, BridgeStep
<1> QED
  BY <1>1, <1>5, <1>6, <1>7

\* The bridge is pointed at its identity.
LEMMA BridgePoints ==
    ASSUME BridgeInv, bResetN, Bridge!Clock,
           Bridge!PointAtId \/ Bridge!HoldPointerGo \/ Bridge!Pointed
    PROVE  BridgeMoved
<1>1. /\ bSt \in {2, 3, 4} /\ bWcnt' = bWcnt /\ bCnt' = bCnt /\ bRelease' = bRelease
      /\ bFrame' \in {"id", bFrame}
  BY DEF Bridge!PointAtId, Bridge!HoldPointerGo, Bridge!Pointed
<1>2. /\ BridgeShapes /\ BridgeGoLow /\ BridgeAtWork /\ BridgeCounts /\ bResetN' = bResetN
  BY DEF BridgeInv, Bridge!Clock
<1>3. /\ bGo.word /\ bGo.read /\ bWord = "ready" /\ bRd = "ready" /\ bWcnt = 0 /\ bCnt = 0
      /\ ~bRelease
      /\ bGo \in [word : BOOLEAN, ptr : BOOLEAN, read : BOOLEAN] /\ bDely \in Nat
  BY <1>1, <1>2 DEF BridgeGoLow, BridgeAtWork, BridgeCounts, BridgeShapes
<1>4. bWord' = "ready" /\ bRd' = "ready" /\ bSent' = bSent
  BY <1>2, <1>3, BridgeEngines
<1>5. BridgeDone = bWcnt
  BY <1>1 DEF BridgeDone
<1>6. CASE Bridge!PointAtId
  <2>1. bSt = 2 /\ bGo.ptr
    BY <1>2, <1>6 DEF Bridge!PointAtId, BridgeGoLow
  <2>2. CASE bPtr # "busy"
    <3>1. bSt' = 3 /\ bDely' = 0 /\ bGo' = [bGo EXCEPT !.ptr = FALSE]
      BY <1>6, <2>2 DEF Bridge!PointAtId, Bridge!Engine!EndOk
    <3>2. /\ bGo' \in [word : BOOLEAN, ptr : BOOLEAN, read : BOOLEAN]
          /\ bGo'.word /\ ~bGo'.ptr /\ bGo'.read
      BY <1>3, <3>1
    <3>3. bPtr' = "ready"
      BY <2>1, <2>2, BridgeGoHigh
    <3> QED
      BY <1>1, <1>2, <1>3, <1>4, <1>5, <3>1, <3>2, <3>3, BridgeConstants
         DEF BridgeMoved, BridgeShapes, BridgeGoLow, BridgeAtWork, BridgeCounts, BridgeStep,
             BridgeDone, Started
  <2>3. CASE bPtr = "busy"
    <3>1. bSt' = 2 /\ bDely' = bDely /\ bGo' = bGo
      BY <1>6, <2>1, <2>3 DEF Bridge!PointAtId, Bridge!Engine!EndOk
    <3> QED
      BY <1>1, <1>2, <1>3, <1>4, <1>5, <2>1, <3>1, BridgeConstants
         DEF BridgeMoved, BridgeShapes, BridgeGoLow, BridgeAtWork, BridgeCounts, BridgeStep,
             BridgeDone
  <2> QED
    BY <2>2, <2>3
<1>7. CASE Bridge!HoldPointerGo
  <2>1. /\ bSt = 3 /\ ~bGo.ptr /\ bDely \in 0 .. 2 /\ Started(bPtr, bDely)
        /\ IF bDely = 2
           THEN bGo' = [bGo EXCEPT !.ptr = TRUE] /\ bSt' = 4 /\ bDely' = 0
           ELSE bDely' = bDely + 1 /\ bGo' = bGo /\ bSt' = bSt
    BY <1>2, <1>7 DEF Bridge!HoldPointerGo, BridgeGoLow
  <2>2. CASE bDely = 2
    <3>1. bSt' = 4 /\ bDely' = 0 /\ bGo' = [bGo EXCEPT !.ptr = TRUE]
      BY <2>1, <2>2
    <3>2. /\ bGo' \in [word : BOOLEAN, ptr : BOOLEAN, read : BOOLEAN]
          /\ bGo'.word /\ bGo'.ptr /\ bGo'.read
      BY <1>3, <3>1
    <3> QED
      BY <1>1, <1>2, <1>3, <1>4, <1>5, <3>1, <3>2, BridgeConstants
         DEF BridgeMoved, BridgeShapes, BridgeGoLow, BridgeAtWork, BridgeCounts, BridgeStep,
             BridgeDone
  <2>3. CASE bDely # 2
    <3>1. bSt' = 3 /\ bDely' = bDely + 1 /\ bGo' = bGo /\ bDely \in {0, 1}
      BY <2>1, <2>3
    <3>2. bDely = 0 => bPtr = "ready"
      BY <2>1 DEF Started
    <3>3. bDely = 1 => bPtr = "armed"
      BY <2>1 DEF Started
    <3>4. bDely = 0 => bPtr' = "armed"
      BY <1>2, <2>1, <3>2, BridgeEngines
    <3>5. bDely = 1 => bPtr' = "busy"
      BY <1>2, <2>1, <3>3, BridgeEngines
    <3>6. Started(bPtr', bDely') /\ bDely' \in 0 .. 2
      BY <3>1, <3>4, <3>5 DEF Started
    <3> QED
      BY <1>1, <1>2, <1>3, <1>4, <1>5, <2>1, <3>1, <3>6, BridgeConstants
         DEF BridgeMoved, BridgeShapes, BridgeGoLow, BridgeAtWork, BridgeCounts, BridgeStep,
             BridgeDone
  <2> QED
    BY <2>2, <2>3
<1>8. CASE Bridge!Pointed
  <2>1. /\ bSt = 4 /\ bGo.ptr /\ bGo' = bGo /\ bFrame' = bFrame /\ bDely' \in Nat
        /\ bSt' = 4 \/ (bSt' = 5 /\ bPtr # "busy")
    BY <1>2, <1>3, <1>8 DEF Bridge!Pointed, BridgeGoLow, Bridge!Engine!EndOk
  <2>2. bSt' = 5 => bPtr' = "ready"
    BY <2>1, BridgeGoHigh
  <2> QED
    BY <1>1, <1>2, <1>3, <1>4, <1>5, <2>1, <2>2, BridgeConstants
       DEF BridgeMoved, BridgeShapes, BridgeGoLow, BridgeAtWork, BridgeCounts, BridgeStep,
           BridgeDone
<1> QED
  BY <1>6, <1>7, <1>8

\* The bridge's identity is read.
LEMMA BridgeReads ==
    ASSUME BridgeInv, bResetN, Bridge!Clock,
           Bridge!ReadId \/ Bridge!HoldReadGo \/ Bridge!IdRead
    PROVE  BridgeMoved
<1>1. /\ bSt \in {6, 7, 9} /\ bWcnt' = bWcnt /\ bFrame' = bFrame /\ bRelease' = bRelease
  BY DEF Bridge!ReadId, Bridge!HoldReadGo, Bridge!IdRead
<1>2. /\ BridgeShapes /\ BridgeGoLow /\ BridgeAtWork /\ BridgeCounts /\ bResetN' = bResetN
  BY DEF BridgeInv, Bridge!Clock
<1>3. /\ bGo.word /\ bGo.ptr /\ bWord = "ready" /\ bPtr = "ready" /\ bWcnt = 0 /\ bCnt = 0
      /\ ~bRelease
      /\ bGo \in [word : BOOLEAN, ptr : BOOLEAN, read : BOOLEAN] /\ bDely \in Nat
  BY <1>1, <1>2 DEF BridgeGoLow, BridgeAtWork, BridgeCounts, BridgeShapes
<1>4. bWord' = "ready" /\ bPtr' = "ready" /\ bSent' = bSent
  BY <1>2, <1>3, BridgeEngines
<1>5. BridgeDone = bWcnt
  BY <1>1 DEF BridgeDone
<1>6. CASE Bridge!ReadId
  <2>1. bSt = 6 /\ bGo.read /\ bRd = "ready" /\ bCnt' = bCnt
    BY <1>2, <1>6 DEF Bridge!ReadId, BridgeGoLow, BridgeAtWork, BridgeInv
  <2>2. bSt' = 7 /\ bDely' = 0 /\ bGo' = [bGo EXCEPT !.read = FALSE]
    BY <1>6, <2>1 DEF Bridge!ReadId, Bridge!Engine!EndOk
  <2>3. /\ bGo' \in [word : BOOLEAN, ptr : BOOLEAN, read : BOOLEAN]
        /\ bGo'.word /\ bGo'.ptr /\ ~bGo'.read
    BY <1>3, <2>2
  <2>4. bRd' = "ready"
    BY <1>2, <2>1, BridgeEngines
  <2> QED
    BY <1>1, <1>2, <1>3, <1>4, <1>5, <2>1, <2>2, <2>3, <2>4, BridgeConstants
       DEF BridgeMoved, BridgeShapes, BridgeGoLow, BridgeAtWork, BridgeCounts, BridgeStep,
           BridgeDone, Started
<1>7. CASE Bridge!HoldReadGo
  <2>1. /\ bSt = 7 /\ ~bGo.read /\ bDely \in 0 .. 2 /\ Started(bRd, bDely) /\ bCnt' = bCnt
        /\ bDely' = bDely + 1
        /\ IF bDely = 2
           THEN bGo' = [bGo EXCEPT !.read = TRUE] /\ bSt' = 8
           ELSE bGo' = bGo /\ bSt' = bSt
    BY <1>2, <1>7 DEF Bridge!HoldReadGo, BridgeGoLow
  <2>2. CASE bDely = 2
    <3>1. bSt' = 8 /\ bDely' \in Nat /\ bGo' = [bGo EXCEPT !.read = TRUE]
      BY <2>1, <2>2
    <3>2. /\ bGo' \in [word : BOOLEAN, ptr : BOOLEAN, read : BOOLEAN]
          /\ bGo'.word /\ bGo'.ptr /\ bGo'.read
      BY <1>3, <3>1
    <3> QED
      BY <1>1, <1>2, <1>3, <1>4, <1>5, <2>1, <3>1, <3>2, BridgeConstants
         DEF BridgeMoved, BridgeShapes, BridgeGoLow, BridgeAtWork, BridgeCounts, BridgeStep,
             BridgeDone
  <2>3. CASE bDely # 2
    <3>1. bSt' = 7 /\ bDely' = bDely + 1 /\ bGo' = bGo /\ bDely \in {0, 1}
      BY <2>1, <2>3
    <3>2. bDely = 0 => bRd = "ready"
      BY <2>1 DEF Started
    <3>3. bDely = 1 => bRd = "armed"
      BY <2>1 DEF Started
    <3>4. bDely = 0 => bRd' = "armed"
      BY <1>2, <2>1, <3>2, BridgeEngines
    <3>5. bDely = 1 => bRd' = "busy"
      BY <1>2, <2>1, <3>3, BridgeEngines
    <3>6. Started(bRd', bDely') /\ bDely' \in 0 .. 2
      BY <3>1, <3>4, <3>5 DEF Started
    <3> QED
      BY <1>1, <1>2, <1>3, <1>4, <1>5, <2>1, <3>1, <3>6, BridgeConstants
         DEF BridgeMoved, BridgeShapes, BridgeGoLow, BridgeAtWork, BridgeCounts, BridgeStep,
             BridgeDone
  <2> QED
    BY <2>2, <2>3
<1>8. CASE Bridge!IdRead
  <2>1. /\ bSt = 9 /\ bGo.read /\ bGo' = bGo /\ bDely' = bDely
        /\ \/ bSt' = 9 /\ bCnt' = 0
           \/ bSt' = 10 /\ bCnt' = 1 /\ bRd # "busy"
    BY <1>2, <1>3, <1>8 DEF Bridge!IdRead, BridgeGoLow, Bridge!Engine!EndOk
  <2>2. bSt' = 10 => bRd' = "ready"
    BY <2>1, BridgeGoHigh
  <2> QED
    BY <1>1, <1>2, <1>3, <1>4, <1>5, <2>1, <2>2, BridgeConstants
       DEF BridgeMoved, BridgeShapes, BridgeGoLow, BridgeAtWork, BridgeCounts, BridgeStep,
           BridgeDone
<1> QED
  BY <1>6, <1>7, <1>8

\* A word of the table is sent.
LEMMA BridgeWrites ==
    ASSUME BridgeInv, bResetN, Bridge!Clock,
           Bridge!TakeWord \/ Bridge!HoldWordGo \/ Bridge!WordSent
    PROVE  BridgeMoved
<1>1. /\ bSt \in {31, 32, 34} /\ bCnt' = bCnt /\ bRelease' = bRelease
  BY DEF Bridge!TakeWord, Bridge!HoldWordGo, Bridge!WordSent
<1>2. /\ BridgeShapes /\ BridgeGoLow /\ BridgeAtWork /\ BridgeCounts /\ bResetN' = bResetN
      /\ bTab' = IF bWcnt < Len(BridgeTable) THEN BridgeTable[bWcnt + 1] ELSE bTab
  BY DEF BridgeInv, Bridge!Clock, Bridge!TableOutput
<1>3. /\ bGo.read /\ bGo.ptr /\ bRd = "ready" /\ bPtr = "ready" /\ ~bRelease
      /\ bRelease \in BOOLEAN
      /\ bWcnt \in Nat /\ bWcnt < Len(BridgeTable) /\ bCnt \in 0 .. 1
      /\ bGo \in [word : BOOLEAN, ptr : BOOLEAN, read : BOOLEAN] /\ bDely \in Nat
  BY <1>1, <1>2 DEF BridgeGoLow, BridgeAtWork, BridgeCounts, BridgeShapes
<1>4. bRd' = "ready" /\ bPtr' = "ready"
  BY <1>2, <1>3, BridgeEngines
<1>5. \A n \in {bWcnt, bWcnt + 1} : n \in 0 .. Len(BridgeTable)
  BY <1>3, BridgeConstants
<1>6. CASE Bridge!TakeWord
  <2>1. /\ bSt = 31 /\ bGo.word /\ bWord = "ready" /\ bWcnt' = bWcnt /\ bFrame' = bTab
        /\ bTab = BridgeTable[bWcnt + 1] /\ bTab \notin BridgePauses /\ bTab \in ToSet(BridgeTable)
    BY <1>2, <1>6 DEF Bridge!TakeWord, BridgeGoLow, BridgeAtWork, BridgeCounts, BridgeInv,
                      BridgeShapes
  <2>2. bSt' = 32 /\ bDely' = 0 /\ bGo' = [bGo EXCEPT !.word = FALSE]
    BY <1>6, <2>1 DEF Bridge!TakeWord, Bridge!Engine!EndOk
  <2>3. /\ bGo' \in [word : BOOLEAN, ptr : BOOLEAN, read : BOOLEAN]
        /\ ~bGo'.word /\ bGo'.ptr /\ bGo'.read
    BY <1>3, <2>2
  <2>4. bWord' = "ready" /\ bSent' = bSent
    BY <1>2, <2>1, BridgeEngines
  <2>5. BridgeDone' = BridgeDone
    BY <2>1, <2>2 DEF BridgeDone
  <2>6. BridgeCounts'
    BY <1>1, <1>3, <1>5, <2>1, <2>2 DEF BridgeCounts
  <2> QED
    BY <1>1, <1>2, <1>3, <1>4, <2>1, <2>2, <2>3, <2>4, <2>5, <2>6
       DEF BridgeMoved, BridgeGoLow, BridgeAtWork, BridgeStep, Started
<1>7. CASE Bridge!HoldWordGo
  <2>1. /\ bSt = 32 /\ ~bGo.word /\ bDely \in 0 .. 3 /\ Started(bWord, bDely)
        /\ bWcnt' = bWcnt /\ bFrame' = bFrame
        /\ bFrame = BridgeTable[bWcnt + 1] /\ bFrame \notin BridgePauses
        /\ bFrame \in ToSet(BridgeTable) \cup {"none", "id"}
        /\ IF bDely = 3
           THEN bGo' = [bGo EXCEPT !.word = TRUE] /\ bSt' = 33 /\ bDely' = bDely
           ELSE bDely' = bDely + 1 /\ bGo' = bGo /\ bSt' = bSt
    BY <1>2, <1>7 DEF Bridge!HoldWordGo, BridgeGoLow, BridgeCounts, BridgeShapes
  <2>2. bDely = 0 => bWord = "ready"
    BY <2>1 DEF Started
  <2>3. bDely = 1 => bWord = "armed"
    BY <2>1 DEF Started
  <2>4. bDely \in {2, 3} => bWord = "busy"
    BY <2>1 DEF Started
  <2>5. bDely = 0 => bWord' = "armed"
    BY <1>2, <2>1, <2>2, BridgeEngines
  <2>6. bDely \in {1, 2, 3} => bWord' = "busy"
    BY <1>2, <2>1, <2>3, <2>4, BridgeEngines
  <2>7. bWord' # "ready" /\ bSent' = bSent
    BY <1>2, <2>1, <2>5, <2>6, BridgeEngines
  <2>8. BridgeDone' = BridgeDone
    BY <2>1, <2>7 DEF BridgeDone
  <2>9. CASE bDely = 3
    <3>1. bSt' = 33 /\ bDely' \in Nat /\ bGo' = [bGo EXCEPT !.word = TRUE]
      BY <2>1, <2>9
    <3>2. /\ bGo' \in [word : BOOLEAN, ptr : BOOLEAN, read : BOOLEAN]
          /\ bGo'.word /\ bGo'.ptr /\ bGo'.read
      BY <1>3, <3>1
    <3>3. bWord' = "busy"
      BY <2>6, <2>9
    <3>4. BridgeCounts'
      BY <1>1, <1>3, <1>5, <2>1, <3>1 DEF BridgeCounts
    <3> QED
      BY <1>1, <1>2, <1>3, <1>4, <2>1, <2>7, <2>8, <3>1, <3>2, <3>3, <3>4
         DEF BridgeMoved, BridgeGoLow, BridgeAtWork, BridgeStep
  <2>10. CASE bDely # 3
    <3>1. bSt' = 32 /\ bDely' = bDely + 1 /\ bGo' = bGo /\ bDely \in {0, 1, 2}
      BY <2>1, <2>10
    <3>2. Started(bWord', bDely') /\ bDely' \in 0 .. 3
      BY <2>5, <2>6, <3>1 DEF Started
    <3>3. BridgeCounts'
      BY <1>1, <1>3, <1>5, <2>1, <3>1 DEF BridgeCounts
    <3> QED
      BY <1>1, <1>2, <1>3, <1>4, <2>1, <2>7, <2>8, <3>1, <3>2, <3>3
         DEF BridgeMoved, BridgeGoLow, BridgeAtWork, BridgeStep
  <2> QED
    BY <2>9, <2>10
<1>8. CASE Bridge!WordSent
  <2>1. /\ bSt = 34 /\ bGo.word /\ bGo' = bGo /\ bDely' = bDely /\ bFrame' = bFrame
        /\ bFrame = BridgeTable[bWcnt + 1] /\ bFrame \notin BridgePauses
        /\ bFrame \in ToSet(BridgeTable) \cup {"none", "id"}
        /\ bWord \in {"ready", "busy"} /\ bWord' \in {"ready", "busy"}
    BY <1>2, <1>8, BridgeGoHigh DEF Bridge!WordSent, BridgeGoLow, BridgeCounts, BridgeShapes
  <2>2. CASE bWord = "ready"
    <3>1. bSt' = 35 /\ bWcnt' = bWcnt + 1
      BY <1>8, <2>2 DEF Bridge!WordSent, Bridge!Engine!EndOk
    <3>2. bWord' = "ready" /\ bSent' = bSent
      BY <1>2, <2>1, <2>2, BridgeEngines
    <3>3. BridgeDone' = BridgeDone
      BY <2>1, <2>2, <3>1 DEF BridgeDone
    <3>4. BridgeCounts'
      BY <1>1, <1>3, <1>5, <2>1, <3>1 DEF BridgeCounts
    <3> QED
      BY <1>1, <1>2, <1>3, <1>4, <2>1, <3>1, <3>2, <3>3, <3>4
         DEF BridgeMoved, BridgeGoLow, BridgeAtWork, BridgeStep
  <2>3. CASE bWord = "busy"
    <3>1. bSt' = 34 /\ bWcnt' = bWcnt
      BY <1>8, <2>1, <2>3 DEF Bridge!WordSent, Bridge!Engine!EndOk
    <3>2. bSent' = IF bWord' = "ready" THEN Append(bSent, bFrame) ELSE bSent
      BY <1>2, <2>3, BridgeEngines
    <3>3. BridgeStep
      <4>1. CASE bWord' = "ready"
        <5>1. BridgeDone = bWcnt /\ BridgeDone' = bWcnt + 1
          BY <2>1, <2>3, <3>1, <4>1 DEF BridgeDone
        <5>2. bSent' = Append(bSent, BridgeTable[bWcnt + 1])
          BY <2>1, <3>2, <4>1
        <5> QED
          BY <1>3, <2>1, <5>1, <5>2 DEF BridgeStep
      <4>2. CASE bWord' = "busy"
        <5>1. BridgeDone' = BridgeDone
          BY <2>1, <2>3, <3>1, <4>2 DEF BridgeDone
        <5> QED
          BY <3>2, <4>2, <5>1 DEF BridgeStep
      <4> QED
        BY <2>1, <4>1, <4>2
    <3>4. BridgeCounts'
      BY <1>1, <1>3, <1>5, <2>1, <3>1 DEF BridgeCounts
    <3> QED
      BY <1>1, <1>2, <1>3, <1>4, <2>1, <3>1, <3>3, <3>4
         DEF BridgeMoved, BridgeGoLow, BridgeAtWork
  <2> QED
    BY <2>1, <2>2, <2>3
<1> QED
  BY <1>6, <1>7, <1>8

\* A beginning that is one longer.
LEMMA OneLonger ==
    ASSUME NEW S, NEW w \in Seq(S), NEW k \in 0 .. Len(w) - 1
    PROVE  SubSeq(w, 1, k + 1) = Append(SubSeq(w, 1, k), w[k + 1])
<1>1. k + 1 \in 1 .. Len(w) /\ 1 \in 1 .. Len(w) /\ (k + 1) - 1 = k /\ w[k + 1] \in S
  OBVIOUS
<1>2. SubSeq(w, 1, k + 1) = SubSeq(w, 1, k) \o <<w[k + 1]>>
  BY <1>1, SubSeqRecursiveSecond
<1>3. SubSeq(w, 1, k) \in Seq(S)
  <2>1. \A i \in 1 .. k : w[i] \in S
    OBVIOUS
  <2> QED
    BY <2>1, SubSeqProperties
<1>4. ASSUME NEW s \in Seq(S), NEW e \in S
      PROVE  s \o <<e>> = Append(s, e)
  OBVIOUS
<1> QED
  BY <1>1, <1>2, <1>3, <1>4

\* One more word of the table.
LEMMA BridgeNextWord ==
    ASSUME NEW m \in 0 .. Len(BridgeTable) - 1
    PROVE  SubSeq(Bridge!Words, 1, Bridge!UpTo(m + 1)) =
             IF BridgeTable[m + 1] \in BridgePauses
             THEN SubSeq(Bridge!Words, 1, Bridge!UpTo(m))
             ELSE Append(SubSeq(Bridge!Words, 1, Bridge!UpTo(m)), BridgeTable[m + 1])
<1>1. /\ Bridge!Words \in Seq(ToSet(BridgeTable)) /\ m \in 0 .. Len(BridgeTable)
      /\ m + 1 \in 0 .. Len(BridgeTable)
  BY BridgeWords, BridgeConstants
<1>2. Bridge!UpTo(m) \in 0 .. Len(Bridge!Words) /\ Bridge!UpTo(m + 1) \in 0 .. Len(Bridge!Words)
  BY <1>1, BridgeWords
<1>3. CASE BridgeTable[m + 1] \in BridgePauses
  <2>1. Bridge!UpTo(m + 1) = Bridge!UpTo(m)
    BY <1>3, BridgeWords
  <2> QED
    BY <1>3, <2>1
<1>4. CASE BridgeTable[m + 1] \notin BridgePauses
  <2>1. /\ Bridge!UpTo(m + 1) = Bridge!UpTo(m) + 1
        /\ Bridge!Words[Bridge!UpTo(m + 1)] = BridgeTable[m + 1]
    BY <1>4, BridgeWords
  <2>2. Len(Bridge!Words) \in Nat
    BY <1>1
  <2>3. Bridge!UpTo(m) \in 0 .. Len(Bridge!Words) - 1
    BY <1>2, <2>1, <2>2
  <2>4. SubSeq(Bridge!Words, 1, Bridge!UpTo(m) + 1)
          = Append(SubSeq(Bridge!Words, 1, Bridge!UpTo(m)), Bridge!Words[Bridge!UpTo(m) + 1])
    BY <1>1, <2>3, OneLonger
  <2> QED
    BY <1>4, <2>1, <2>4
<1> QED
  BY <1>3, <1>4

\* So what a clock sends is the next word of the table.
LEMMA BridgeSends ==
    ASSUME BridgeSent, BridgeCounts, bResetN, bResetN', BridgeStep
    PROVE  BridgeSent'
<1>1. bSent = SubSeq(Bridge!Words, 1, Bridge!UpTo(BridgeDone)) /\ bWcnt \in 0 .. Len(BridgeTable)
  BY DEF BridgeSent, BridgeCounts
<1>2. bSent' = SubSeq(Bridge!Words, 1, Bridge!UpTo(BridgeDone'))
  <2>1. CASE bSent' = bSent /\ BridgeDone' = BridgeDone
    BY <1>1, <2>1
  <2>2. CASE /\ bWcnt < Len(BridgeTable) /\ BridgeDone = bWcnt /\ BridgeDone' = bWcnt + 1
             /\ IF BridgeTable[bWcnt + 1] \in BridgePauses
                THEN bSent' = bSent ELSE bSent' = Append(bSent, BridgeTable[bWcnt + 1])
    <3>1. bWcnt \in 0 .. Len(BridgeTable) - 1
      BY <1>1, <2>2, BridgeConstants
    <3>2. SubSeq(Bridge!Words, 1, Bridge!UpTo(bWcnt + 1)) =
             IF BridgeTable[bWcnt + 1] \in BridgePauses
             THEN SubSeq(Bridge!Words, 1, Bridge!UpTo(bWcnt))
             ELSE Append(SubSeq(Bridge!Words, 1, Bridge!UpTo(bWcnt)), BridgeTable[bWcnt + 1])
      BY <3>1, BridgeNextWord
    <3> QED
      BY <1>1, <2>2, <3>2
  <2> QED
    BY <2>1, <2>2 DEF BridgeStep
<1> QED
  BY <1>2 DEF BridgeSent

\* Every clock while the bridge's sequencer runs.
LEMMA BridgeClockRun ==
    ASSUME BridgeInv, bResetN, Bridge!Clock
    PROVE  BridgeInv'
<1>1. /\ BridgeShapes /\ BridgeArmed /\ BridgeAtWork /\ BridgeGoLow /\ BridgeCounts /\ BridgeSent
      /\ Bridge!Sequencer /\ bResetN' = bResetN /\ bHold' = bHold
      /\ bTab' = IF bWcnt < Len(BridgeTable) THEN BridgeTable[bWcnt + 1] ELSE bTab
  BY DEF BridgeInv, Bridge!Clock, Bridge!TableOutput
<1>2. BridgeMoved
  BY <1>1, BridgePasses, BridgeBetween, BridgePoints, BridgeReads, BridgeWrites
     DEF Bridge!Sequencer
<1>3. BridgeSent'
  BY <1>1, <1>2, BridgeSends DEF BridgeMoved
<1>4. BridgeShapes'
  <2>1. bTab' \in ToSet(BridgeTable)
    BY <1>1, BridgeConstants DEF BridgeShapes, BridgeCounts
  <2> QED
    BY <1>1, <1>2, <2>1, BridgeEngines DEF BridgeShapes, BridgeMoved
<1>5. BridgeArmed'
  <2>1. bSt \in {3, 7, 32} /\ bDely = 0 => bGo' = bGo
    BY <1>1 DEF Bridge!Sequencer, Bridge!Begin, Bridge!Pass, Bridge!PointAtId,
         Bridge!HoldPointerGo, Bridge!Pointed, Bridge!ReadId, Bridge!HoldReadGo, Bridge!IdRead,
         Bridge!OnToTable, Bridge!BeforeTable, Bridge!FirstWord, Bridge!TakeWord,
         Bridge!TakePause, Bridge!HoldWordGo, Bridge!WordSent, Bridge!NextWord,
         Bridge!TableEnd, Bridge!PauseBegins, Bridge!Pausing
  <2>2. bWord # "off" /\ bPtr # "off" /\ bRd # "off"
    BY <1>1 DEF BridgeArmed
  <2>3. bWord' # "off" /\ bPtr' # "off" /\ bRd' # "off"
    BY <1>1, <2>2, BridgeEngines DEF BridgeShapes, Bridge!Engine!Phases
  <2>4. /\ bWord' = "armed" => bWord = "ready" /\ ~bGo.word
        /\ bPtr' = "armed" => bPtr = "ready" /\ ~bGo.ptr
        /\ bRd' = "armed" => bRd = "ready" /\ ~bGo.read
    BY <1>1, <2>2, BridgeEngines DEF BridgeShapes, Bridge!Engine!Phases
  <2>5. /\ bWord' = "armed" => bSt = 32 /\ bDely = 0
        /\ bPtr' = "armed" => bSt = 3 /\ bDely = 0
        /\ bRd' = "armed" => bSt = 7 /\ bDely = 0
    BY <1>1, <2>4 DEF BridgeGoLow, Started
  <2> QED
    BY <2>1, <2>3, <2>4, <2>5 DEF BridgeArmed
<1> QED
  BY <1>2, <1>3, <1>4, <1>5 DEF BridgeInv, BridgeMoved

\* Every clock while it is held in reset: what was at work runs out.
LEMMA BridgeClockHeld ==
    ASSUME BridgeInv, ~bResetN, Bridge!Clock
    PROVE  BridgeInv'
<1>1. /\ BridgeShapes /\ BridgeArmed /\ BridgeAtWork /\ BridgeGoLow /\ BridgeCounts /\ BridgeSent
      /\ bResetN' = bResetN /\ bHold' = (IF bHold < BridgeHold THEN bHold + 1 ELSE bHold)
      /\ bTab' = IF bWcnt < Len(BridgeTable) THEN BridgeTable[bWcnt + 1] ELSE bTab
      /\ bSt' = bSt /\ bGo' = bGo /\ bWcnt' = bWcnt /\ bCnt' = bCnt /\ bDely' = bDely
      /\ bFrame' = bFrame /\ bRelease' = bRelease
  BY DEF BridgeInv, Bridge!Clock, Bridge!TableOutput, Bridge!seqVars
<1>2. /\ bSt = 0 /\ bGo.word /\ bGo.ptr /\ bGo.read
      /\ bWord = "ready" \/ bRd = "ready" \/ (bWord = "off" /\ bRd = "off" /\ bHold = 0)
      /\ bWord = "armed" \/ bRd = "armed" => bHold = 0
      /\ bWord = "busy" \/ bRd = "busy" => bHold <= bWorked + 1
  BY <1>1 DEF BridgeAtWork, BridgeGoLow
<1>3. bSent' = bSent
  BY <1>1, BridgeEngines
<1>4. bHold \in Nat /\ bHold' \in 0 .. BridgeHold /\ bHold' <= bHold + 1 /\ bWorked \in Nat
      /\ bWorked' \in Nat
  BY <1>1, BridgeEngines, BridgeConstants DEF BridgeShapes
<1>5. BridgeShapes'
  <2>1. bTab' \in ToSet(BridgeTable)
    BY <1>1, BridgeConstants DEF BridgeShapes, BridgeCounts
  <2> QED
    BY <1>1, <1>4, <2>1, BridgeEngines DEF BridgeShapes
<1>6. /\ bWord' \in {"ready", "busy"} /\ bPtr' \in {"ready", "busy"} /\ bRd' \in {"ready", "busy"}
      /\ bWord \in {"ready", "off"} => bWord' = "ready"
      /\ bRd \in {"ready", "off"} => bRd' = "ready"
  BY <1>1, <1>2, BridgeEngines DEF BridgeShapes, Bridge!Engine!Phases
<1>7. BridgeArmed'
  BY <1>6 DEF BridgeArmed
<1>8. BridgeAtWork'
  <2>1. ASSUME bWord' = "busy" \/ bRd' = "busy"
        PROVE  bHold' <= bWorked' + 1
    <3>1. CASE bWord = "busy" \/ bRd = "busy"
      <4>1. bWorked' = bWorked + 1
        BY <1>1, <2>1, <3>1, BridgeEngines
      <4>2. bHold <= bWorked + 1
        BY <1>2, <3>1
      <4> QED
        BY <1>4, <4>1, <4>2
    <3>2. CASE bWord # "busy" /\ bRd # "busy"
      <4>1. bWord = "armed" \/ bRd = "armed"
        BY <1>1, <1>6, <2>1, <3>2 DEF BridgeShapes, Bridge!Engine!Phases
      <4>2. bHold = 0
        BY <1>2, <4>1
      <4>3. PICK w \in Nat : w = bWorked'
        BY <1>4
      <4>4. PICK h \in Nat : h = bHold' /\ h <= 1
        BY <1>4, <4>2
      <4>5. h <= w + 1
        BY <4>4
      <4> QED
        BY <4>3, <4>4, <4>5, Zenon
    <3> QED
      BY <3>1, <3>2
  <2> QED
    BY <1>1, <1>2, <1>6, <2>1 DEF BridgeAtWork
<1>9. BridgeGoLow'
  BY <1>1, <1>2 DEF BridgeGoLow
<1>10. BridgeCounts'
  BY <1>1, <1>2 DEF BridgeCounts
<1>11. BridgeSent'
  BY <1>1, <1>3 DEF BridgeSent
<1> QED
  BY <1>5, <1>7, <1>8, <1>9, <1>10, <1>11 DEF BridgeInv

\* The key is pressed.
LEMMA BridgeResets ==
    ASSUME BridgeInv, Bridge!Reset
    PROVE  BridgeInv'
<1>1. /\ BridgeShapes /\ BridgeArmed /\ BridgeAtWork /\ BridgeGoLow /\ BridgeCounts
      /\ bResetN /\ bResetN' = FALSE /\ bHold' = 0 /\ bSt' = 0 /\ bGo' = Bridge!Idle
      /\ bWcnt' = 0 /\ bCnt' = 0 /\ bDely' = 0 /\ bRelease' = FALSE /\ bSent' = <<>>
      /\ bFrame' = bFrame /\ bTab' = bTab /\ bWord' = bWord /\ bPtr' = bPtr /\ bRd' = bRd
      /\ bWorked' = bWorked
  BY DEF BridgeInv, Bridge!Reset
<1>2. /\ bGo' \in [word : BOOLEAN, ptr : BOOLEAN, read : BOOLEAN]
      /\ bGo'.word /\ bGo'.ptr /\ bGo'.read
  BY <1>1 DEF Bridge!Idle
<1>3. bResetN' \in BOOLEAN /\ bRelease' \in BOOLEAN /\ bHold' \in 0 .. BridgeHold
  <2>1. bResetN' \in BOOLEAN /\ bRelease' \in BOOLEAN
    BY <1>1
  <2>2. bHold' \in 0 .. BridgeHold
    BY <1>1, BridgeConstants
  <2> QED
    BY <2>1, <2>2
<1>4. BridgeShapes'
  BY <1>1, <1>2, <1>3 DEF BridgeShapes
<1>5. BridgeGoLow'
  BY <1>1, <1>2 DEF BridgeGoLow
<1>6. BridgeArmed'
  BY <1>1 DEF BridgeArmed
<1>7. BridgeAtWork'
  <2>1. bWord = "ready" \/ bRd = "ready"
    BY <1>1 DEF BridgeAtWork
  <2>2. bWorked \in Nat
    BY <1>1, BridgeConstants DEF BridgeShapes
  <2> QED
    BY <1>1, <2>1, <2>2 DEF BridgeAtWork
<1>8. BridgeCounts'
  BY <1>1, BridgeConstants DEF BridgeCounts
<1>9. BridgeSent'
  BY <1>1 DEF BridgeSent
<1> QED
  BY <1>4, <1>5, <1>6, <1>7, <1>8, <1>9 DEF BridgeInv

\* It is released, when whatever it cut short is over.
LEMMA BridgeRuns ==
    ASSUME BridgeInv, Bridge!Run
    PROVE  BridgeInv'
<1>1. /\ BridgeShapes /\ BridgeArmed /\ BridgeAtWork /\ BridgeGoLow /\ BridgeCounts /\ BridgeSent
      /\ ~bResetN /\ bHold = BridgeHold /\ bResetN' = TRUE /\ bHold' = 0
      /\ bSt' = bSt /\ bGo' = bGo /\ bWcnt' = bWcnt /\ bCnt' = bCnt /\ bDely' = bDely
      /\ bFrame' = bFrame /\ bRelease' = bRelease /\ bSent' = bSent
      /\ bTab' = bTab /\ bWord' = bWord /\ bPtr' = bPtr /\ bRd' = bRd /\ bWorked' = bWorked
  BY DEF BridgeInv, Bridge!Run, Bridge!seqVars
<1>2. bHold > 0 /\ bWorked \in Nat /\ bHold > bWorked + 1 /\ bHold' \in 0 .. BridgeHold
  BY <1>1, BridgeConstants DEF BridgeShapes
<1>3. bSt = 0 /\ bGo.word /\ bGo.ptr /\ bGo.read /\ bWcnt = 0
  BY <1>1 DEF BridgeAtWork, BridgeGoLow, BridgeCounts
<1>4. /\ bWord = "ready" /\ bRd = "ready"
      /\ bWord # "off" /\ bPtr # "off" /\ bRd # "off"
      /\ bWord # "armed" /\ bPtr # "armed" /\ bRd # "armed"
  <2>1. /\ bWord # "off" /\ bPtr # "off" /\ bRd # "off"
        /\ bWord # "armed" /\ bPtr # "armed" /\ bRd # "armed"
    BY <1>1, <1>2, <1>3 DEF BridgeArmed
  <2>2. bWord # "busy" /\ bRd # "busy"
    <3>1. bWord = "busy" \/ bRd = "busy" => bHold <= bWorked + 1
      BY <1>1 DEF BridgeAtWork
    <3> QED
      BY <1>1, <1>2, <3>1, BridgeConstants
  <2> QED
    BY <1>1, <2>1, <2>2 DEF BridgeShapes, Bridge!Engine!Phases
<1>5. BridgeShapes'
  <2>1. bResetN' \in BOOLEAN
    BY <1>1
  <2> QED
    BY <1>1, <1>2, <2>1 DEF BridgeShapes
<1>6. BridgeGoLow' /\ BridgeArmed' /\ BridgeAtWork' /\ BridgeCounts'
  BY <1>1, <1>3, <1>4 DEF BridgeGoLow, BridgeArmed, BridgeAtWork, BridgeCounts
<1>7. BridgeSent'
  <2>1. BridgeDone' = 0 /\ bSent' = <<>> /\ bResetN'
    BY <1>1, <1>3 DEF BridgeDone, BridgeSent
  <2>2. SubSeq(Bridge!Words, 1, Bridge!UpTo(0)) = <<>>
    BY BridgeWords, SubSeqEmpty
  <2> QED
    BY <2>1, <2>2 DEF BridgeSent
<1> QED
  BY <1>5, <1>6, <1>7 DEF BridgeInv

\* A step that leaves the bridge's registers alone.
LEMMA BridgeStands ==
    ASSUME BridgeInv,
           UNCHANGED <<bResetN, bHold, bSt, bGo, bWcnt, bCnt, bDely, bFrame, bRelease, bTab,
                       bWord, bPtr, bRd, bWorked, bSent>>
    PROVE  BridgeInv'
<1>1. BridgeShapes'
  BY DEF BridgeInv, BridgeShapes
<1>2. BridgeGoLow' /\ BridgeArmed' /\ BridgeAtWork'
  BY DEF BridgeInv, BridgeGoLow, BridgeArmed, BridgeAtWork, Started
<1>3. BridgeCounts' /\ BridgeSent'
  BY DEF BridgeInv, BridgeCounts, BridgeSent, BridgeDone
<1> QED
  BY <1>1, <1>2, <1>3 DEF BridgeInv

\* The invariant of the bridge's configuration.
THEOREM BridgeInvariant == PartSpec => []BridgeInv
<1>1. PartInit => BridgeInv
  <2> SUFFICES ASSUME PartInit
               PROVE  BridgeInv
    OBVIOUS
  <2>1. /\ bResetN = FALSE /\ bHold = 0 /\ bSt = 0 /\ bGo = Bridge!Idle /\ bWcnt = 0 /\ bCnt = 0
        /\ bDely = 0 /\ bFrame = "none" /\ bRelease = FALSE /\ bTab = BridgeTable[1]
        /\ bWord = "off" /\ bPtr = "off" /\ bRd = "off" /\ bWorked = 0 /\ bSent = <<>>
    BY DEF PartInit, Bridge!Init
  <2>2. /\ bGo \in [word : BOOLEAN, ptr : BOOLEAN, read : BOOLEAN]
        /\ bGo.word /\ bGo.ptr /\ bGo.read
    BY <2>1 DEF Bridge!Idle
  <2>3. bResetN \in BOOLEAN /\ bRelease \in BOOLEAN
    BY <2>1
  <2>4. bTab \in ToSet(BridgeTable) /\ bHold \in 0 .. BridgeHold /\ bWorked \in 0 .. BridgeTransfer
    BY <2>1, BridgeConstants
  <2>5. BridgeShapes
    BY <2>1, <2>2, <2>3, <2>4 DEF BridgeShapes, Bridge!Engine!Phases
  <2>6. BridgeGoLow /\ BridgeArmed /\ BridgeAtWork /\ BridgeSent
    BY <2>1, <2>2 DEF BridgeGoLow, BridgeArmed, BridgeAtWork, BridgeSent
  <2>7. BridgeCounts
    BY <2>1, BridgeConstants DEF BridgeCounts
  <2> QED
    BY <2>5, <2>6, <2>7 DEF BridgeInv
<1>2. BridgeInv /\ [CameraMoves \/ BridgeMoves \/ LensMoves]_<<part, vars, bridgeVars, lensVars>>
      => BridgeInv'
  <2> SUFFICES ASSUME BridgeInv,
                      [CameraMoves \/ BridgeMoves \/ LensMoves]_<<part, vars, bridgeVars, lensVars>>
               PROVE  BridgeInv'
    OBVIOUS
  <2>1. CASE UNCHANGED bridgeVars
    BY <2>1, BridgeStands DEF bridgeVars
  <2>2. CASE BridgeMoves
    <3>1. CASE Bridge!Wakes
      BY <3>1, BridgeStands DEF Bridge!Wakes, Bridge!seqVars
    <3> QED
      BY <2>2, <3>1, BridgeClockRun, BridgeClockHeld, BridgeResets, BridgeRuns
         DEF BridgeMoves, Bridge!Next
  <2> QED
    BY <2>1, <2>2 DEF CameraMoves, LensMoves
<1> QED
  BY <1>1, <1>2, PTL DEF PartSpec

-----------------------------------------------------------------------------
(* The three together.                                                      *)

\* The camera's master moves as its own specification lets it.
LEMMA CameraAlone == PartSpec => SafeSpec
<1>1. PartInit => Init
  BY DEF PartInit
<1>2. [CameraMoves \/ BridgeMoves \/ LensMoves]_<<part, vars, bridgeVars, lensVars>>
      => [Next]_vars
  BY DEF CameraMoves, BridgeMoves, LensMoves
<1> QED
  BY <1>1, <1>2, PTL DEF PartSpec, SafeSpec

\* The bridge's engines on the wires.
LEMMA BridgeOneEngine ==
    ASSUME BridgeInv
    PROVE  Bridge!OneEngineOnTheWires
<1>1. bResetN => ~(bWord = "busy" /\ bRd = "busy") /\ ~(bWord = "busy" /\ bPtr = "busy")
                 /\ ~(bRd = "busy" /\ bPtr = "busy")
  BY DEF BridgeInv, BridgeAtWork, BridgeShapes
<1>2. ASSUME bResetN
      PROVE  Cardinality(Bridge!Busy) <= 1
  <2>1. ASSUME NEW x \in Bridge!Busy, NEW y \in Bridge!Busy
        PROVE  x = y
    <3>1. \/ x = <<"word", bWord>> /\ bWord = "busy"
          \/ x = <<"ptr", bPtr>> /\ bPtr = "busy"
          \/ x = <<"read", bRd>> /\ bRd = "busy"
      BY DEF Bridge!Busy, Bridge!Engine!EndOk
    <3>2. \/ y = <<"word", bWord>> /\ bWord = "busy"
          \/ y = <<"ptr", bPtr>> /\ bPtr = "busy"
          \/ y = <<"read", bRd>> /\ bRd = "busy"
      BY DEF Bridge!Busy, Bridge!Engine!EndOk
    <3> QED
      BY <1>1, <1>2, <3>1, <3>2
  <2> QED
    BY <2>1, AtMostOne
<1> QED
  BY <1>2, BridgeLibrary DEF Bridge!OneEngineOnTheWires

\* Never two engines of a master on the wires, whatever a reset cut short
\* (MIPI_CAMERA_CONFIG.v:94-107, MIPI_BRIDGE_CONFIG.v:91-109, VCM_I2C.v:46-68).
THEOREM OneEngineOfEach == PartSpec => []OneEngineEach
<1>1. LensInv => Lens!OneEngine
  BY DEF LensInv, LensSchedule, Lens!OneEngine
<1>2. CamInv /\ BridgeInv /\ LensInv => OneEngineEach
  BY <1>1, CamOneEngine, BridgeOneEngine DEF OneEngineEach
<1> QED
  BY <1>2, CameraAlone, CameraInvariant, BridgeInvariant, LensInvariant, PTL

\* The words that have gone over the wires are a beginning of the table's.
LEMMA BridgePrefix ==
    ASSUME BridgeInv
    PROVE  /\ BridgeDone \in 0 .. Len(BridgeTable)
           /\ Len(bSent) <= Len(Bridge!Words) /\ bSent = SubSeq(Bridge!Words, 1, Len(bSent))
           /\ bResetN => Len(bSent) = Bridge!UpTo(BridgeDone)
           /\ ~bResetN => bSent = <<>>
<1>1. Bridge!Words \in Seq(ToSet(BridgeTable)) /\ Len(Bridge!Words) \in Nat
  BY BridgeWords
<1>2. BridgeDone \in 0 .. Len(BridgeTable)
  <2>1. bWcnt \in 0 .. Len(BridgeTable) /\ (bSt = 34 => bWcnt < Len(BridgeTable))
    BY DEF BridgeInv, BridgeCounts
  <2> QED
    BY <2>1, BridgeConstants DEF BridgeDone
<1>3. CASE bResetN
  <2>1. bSent = SubSeq(Bridge!Words, 1, Bridge!UpTo(BridgeDone))
    BY <1>3 DEF BridgeInv, BridgeSent
  <2>2. Bridge!UpTo(BridgeDone) \in 0 .. Len(Bridge!Words)
    BY <1>2, BridgeWords
  <2>3. Len(bSent) = Bridge!UpTo(BridgeDone)
    <3>1. \A i \in 1 .. Bridge!UpTo(BridgeDone) : Bridge!Words[i] \in ToSet(BridgeTable)
      BY <1>1, <2>2
    <3> QED
      BY <2>1, <2>2, <3>1, SubSeqProperties
  <2> QED
    BY <1>1, <1>2, <1>3, <2>1, <2>2, <2>3
<1>4. CASE ~bResetN
  <2>1. bSent = <<>>
    BY <1>4 DEF BridgeInv, BridgeSent
  <2>2. SubSeq(Bridge!Words, 1, 0) = <<>>
    BY SubSeqEmpty
  <2> QED
    BY <1>1, <1>2, <1>4, <2>1, <2>2
<1> QED
  BY <1>3, <1>4

\* The bridge is sent its table in order, and the camera's configuration is
\* let loose only when it was all of it.
LEMMA BridgeInOrder ==
    ASSUME BridgeInv
    PROVE  Bridge!SentInOrder
<1>1. bSent = SubSeq(Bridge!Words, 1, Len(bSent)) /\ Len(bSent) <= Len(Bridge!Words)
  BY BridgePrefix
<1>2. Len(bSent) \in Nat /\ SubSeq(bSent, 1, Len(bSent)) = bSent
  <2>1. \/ bSent = <<>>
        \/ bSent = SubSeq(Bridge!Words, 1, Bridge!UpTo(BridgeDone))
    BY DEF BridgeInv, BridgeSent
  <2>2. BridgeDone \in 0 .. Len(BridgeTable)
    BY BridgePrefix
  <2>3. /\ Bridge!Words \in Seq(ToSet(BridgeTable))
        /\ Bridge!UpTo(BridgeDone) \in 0 .. Len(Bridge!Words)
    BY <2>2, BridgeWords
  <2>4. \A i \in 1 .. Bridge!UpTo(BridgeDone) : Bridge!Words[i] \in ToSet(BridgeTable)
    BY <2>3
  <2>5. SubSeq(Bridge!Words, 1, Bridge!UpTo(BridgeDone)) \in Seq(ToSet(BridgeTable))
    BY <2>3, <2>4, SubSeqProperties
  <2>6. bSent \in Seq(ToSet(BridgeTable))
    <3>1. CASE bSent = <<>>
      BY <3>1
    <3>2. CASE bSent = SubSeq(Bridge!Words, 1, Bridge!UpTo(BridgeDone))
      BY <2>5, <3>2
    <3> QED
      BY <2>1, <3>1, <3>2
  <2> QED
    BY <2>6, SubSeqFull
<1>3. ASSUME bRelease
      PROVE  bSent = Bridge!Words
  <2>1. bSt = 36 /\ bWcnt = Len(BridgeTable) /\ bResetN
    BY <1>3 DEF BridgeInv, BridgeCounts, BridgeAtWork
  <2>2. BridgeDone = Len(BridgeTable)
    BY <2>1 DEF BridgeDone
  <2>3. bSent = SubSeq(Bridge!Words, 1, Len(Bridge!Words))
    BY <2>1, <2>2, BridgeWords DEF BridgeInv, BridgeSent
  <2> QED
    BY <2>3, BridgeWords, SubSeqFull
<1> QED
  BY <1>1, <1>2, <1>3 DEF Bridge!SentInOrder, Bridge!IsPrefix

\* A pause keeps the wires quiet, and the word before it has been sent.
LEMMA BridgeQuiet ==
    ASSUME BridgeInv
    PROVE  Bridge!QuietPauses
<1> SUFFICES ASSUME bSt \in {40, 41}
             PROVE  /\ Bridge!Busy = {} /\ bSent = SubSeq(Bridge!Words, 1, Len(bSent))
                    /\ bWcnt = Len(bSent)
                         + Cardinality({i \in 1 .. bWcnt : BridgeTable[i] \in BridgePauses})
  BY BridgeLibrary DEF Bridge!QuietPauses
<1>1. bResetN /\ bWord = "ready" /\ bRd = "ready" /\ bPtr = "ready"
  BY DEF BridgeInv, BridgeAtWork
<1>2. Bridge!Busy = {}
  BY <1>1 DEF Bridge!Busy, Bridge!Engine!EndOk
<1>3. /\ bSent = SubSeq(Bridge!Words, 1, Len(bSent)) /\ Len(bSent) = Bridge!UpTo(bWcnt)
      /\ bWcnt \in 0 .. Len(BridgeTable)
  BY <1>1, BridgePrefix DEF BridgeDone
<1> DEFINE A == {i \in Bridge!Places : i <= bWcnt}
           B == {i \in 1 .. bWcnt : BridgeTable[i] \in BridgePauses}
<1>4. A \subseteq 1 .. bWcnt /\ B \subseteq 1 .. bWcnt /\ A \cap B = {} /\ A \cup B = 1 .. bWcnt
  <2>1. bWcnt \in Nat /\ Len(BridgeTable) \in Nat /\ bWcnt <= Len(BridgeTable)
    BY <1>3, BridgeConstants
  <2>2. \A i : i \in A <=> i \in 1 .. bWcnt /\ BridgeTable[i] \notin BridgePauses
    BY <2>1 DEF Bridge!Places
  <2>3. \A i : i \in B <=> i \in 1 .. bWcnt /\ BridgeTable[i] \in BridgePauses
    OBVIOUS
  <2> HIDE DEF A, B
  <2> QED
    BY <2>2, <2>3
<1>5. Cardinality(A) = Bridge!UpTo(bWcnt)
  BY BridgeLibrary DEF Bridge!UpTo
<1> HIDE DEF A
<1>6. bWcnt = Cardinality(A) + Cardinality(B)
  <2> HIDE DEF B
  <2>1. IsFiniteSet(1 .. bWcnt) /\ Cardinality(1 .. bWcnt) = bWcnt
    BY <1>3, FS_Interval
  <2>2. IsFiniteSet(A) /\ IsFiniteSet(B)
    BY <1>4, <2>1, FS_Subset
  <2>3. Cardinality(A \cup B) = Cardinality(A) + Cardinality(B) - Cardinality(A \cap B)
    BY <2>2, FS_Union
  <2>4. Cardinality(A \cap B) = 0 /\ Cardinality(A) \in Nat /\ Cardinality(B) \in Nat
    BY <1>4, <2>2, FS_EmptySet, FS_CardinalityType
  <2>5. Cardinality(A \cup B) = bWcnt
    BY <1>4, <2>1
  <2> QED
    BY <2>3, <2>4, <2>5
<1> QED
  BY <1>2, <1>3, <1>5, <1>6

\* What goes over the bridge's wires is its table, and its pauses are quiet
\* (MIPI_BRIDGE_CONFIG.v:158-211).
THEOREM BridgeTableSent == PartSpec => [](Bridge!SentInOrder /\ Bridge!QuietPauses)
<1>1. BridgeInv => Bridge!SentInOrder /\ Bridge!QuietPauses
  BY BridgeInOrder, BridgeQuiet
<1> QED
  BY <1>1, BridgeInvariant, PTL

\* The types of the bridge's.
LEMMA BridgeTypes ==
    ASSUME BridgeInv
    PROVE  Bridge!TypeOK
<1>1. /\ bResetN \in BOOLEAN /\ bHold \in 0 .. BridgeHold
      /\ bGo \in [word : BOOLEAN, ptr : BOOLEAN, read : BOOLEAN]
      /\ bDely \in Nat /\ bCnt \in 0 .. 1
      /\ bFrame \in ToSet(BridgeTable) \cup {"none", "id"} /\ bTab \in ToSet(BridgeTable)
      /\ bWorked \in 0 .. BridgeTransfer /\ bWcnt \in 0 .. Len(BridgeTable)
  BY DEF BridgeInv, BridgeShapes, BridgeCounts
<1>2. {bWord, bPtr, bRd} \subseteq Bridge!Engine!Phases
  BY DEF BridgeInv, BridgeShapes
<1>3. bSt \in 0 .. 42
  BY DEF BridgeInv, BridgeShapes
<1>4. Len(bSent) <= Len(Bridge!Words)
  BY BridgePrefix
<1> QED
  BY <1>1, <1>2, <1>3, <1>4, BridgeLibrary DEF Bridge!TypeOK

\* The types of the lens driver's.
LEMMA LensTypes ==
    ASSUME LensInv
    PROVE  Lens!TypeOK
<1>1. LensShapes
  BY DEF LensInv
<1>2. lSt \in 0 .. 35
  BY <1>1 DEF LensShapes
<1>3. {lStep, lData, lRead, lLens} \subseteq LensSteps /\ {lWord, lRd} \subseteq Lens!Engine!Phases
  BY <1>1 DEF LensShapes
<1> QED
  BY <1>1, <1>2, <1>3 DEF LensShapes, Lens!TypeOK

\* Types of all registers of the three masters.
THEOREM TypesInvariant == PartSpec => []TypesOK
<1>1. CamInv /\ CamSane /\ BridgeInv /\ LensInv => TypesOK
  BY CamTypes, BridgeTypes, LensTypes DEF TypesOK
<1> QED
  BY <1>1, CameraAlone, CameraInvariant, CameraSane, BridgeInvariant, LensInvariant, PTL

\* What goes over the wires is the table: a master lets the next one go only
\* when its slave has taken every word, in order, with the pauses between
\* (MIPI_CAMERA_CONFIG.v:154-187, MIPI_BRIDGE_CONFIG.v:158-211).
THEOREM TablesSentInvariant == PartSpec => []TablesSent
BY CameraAlone, CameraTableSent, BridgeTableSent, PTL DEF TablesSent
=============================================================================
