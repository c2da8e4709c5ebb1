----------------------------- MODULE AutoFocus ------------------------------
(***************************************************************************)
(* The autofocus loop of V_Auto: F_VCM.v steps the lens once per frame,    *)
(* VCM_CTRL_P.v measures how sharp each frame is and remembers at which    *)
(* step the sharpest one was.  A coarse sweep of the whole range is        *)
(* followed by a fine one around the step remembered, after which the lens *)
(* stays there until KEY[3] starts it all again.                           *)
(*                                                                         *)
(* One loop goes through three clocked blocks in two clock domains, so a   *)
(* measurement and the step it is remembered with are frames apart; and    *)
(* the frame measured comes from a frame store that camera and display     *)
(* walk without waiting for one another, so it may mix rows taken at       *)
(* several positions of the lens, up to LAG frames ago.                    *)
(* Sharpness is a number that the scene gives for each lens step.          *)
(***************************************************************************)
EXTENDS Integers

CONSTANTS STEP_LAST,    \* F_VCM: the coarse sweep ends past this step, 11'h3f0
          STEP_SIZE,    \* F_VCM: 2^11, the range of its step registers
          UP_SIZE,      \* VCM_CTRL_P: 2^10, the range of STEP_UP and of the lens
          SUM_MAX,      \* the most that a frame sums up to
          Scenes,       \* the sharpness of a frame, for each step of the lens
          Moving,       \* the scenes that give way to one another between frames
          LAG,          \* by how many frames the picture shown may be behind
          OFF_FRAMES    \* the fewest frames that end while AUTO_FOC is low

SCAL == 3
SCAL_f == 1

\* Frames from the one AUTO_FOC falls in to the first whole one in SUM that
\* shows nothing from before.
AGED == 2 + LAG

\* Half of the way that the lens goes while a frame is shown and LAG more.
Blur == (SCAL * LAG + SCAL) \div 2

ASSUME FocusAssumption ==
  /\ STEP_LAST \in Nat /\ UP_SIZE \in Nat /\ STEP_SIZE \in Nat
  /\ STEP_LAST + SCAL < UP_SIZE /\ UP_SIZE < STEP_SIZE
  /\ SUM_MAX \in Nat
  /\ Scenes \subseteq [0 .. UP_SIZE - 1 -> 0 .. SUM_MAX]
  /\ Moving \subseteq Scenes /\ LAG \in Nat /\ OFF_FRAMES \in Nat /\ OFF_FRAMES >= AGED

\* The coarse sweep meets its last step, and the fine one may go past it,
\* further the later it sees what it is doing.
ASSUME LensAssumption ==
  /\ STEP_LAST % SCAL = 0 /\ STEP_LAST >= 2 * SCAL
  /\ STEP_LAST + 2 * SCAL + 2 * SCAL_f * LAG < UP_SIZE

Distance(a, b) == IF a < b THEN b - a ELSE a - b

\* Sharpness, that of every part of the picture alike, falls with the distance
\* from p until there is nothing to see, and where the lens passes while one
\* frame is shown there still is.
FallsFrom(s, p) ==
  \A a, b \in 0 .. UP_SIZE - 1 :
    /\ Distance(a, p) <= Blur => s[a] > 0
    /\ Distance(a, p) < Distance(b, p) => s[b] < s[a] \/ (s[a] = 0 /\ s[b] = 0)

\* A scene that stands still has one sharpest step, not at either end.
ASSUME SceneAssumption ==
  \A s \in Scenes \ Moving :
    \E p \in Blur + 1 .. STEP_LAST - SCAL - Blur : FallsFrom(s, p)

VARIABLES AUTO_FOC,                               \* KEY[3] & AUTO_FOCUS_ON
          V_C, STEP_i, STEP_f, VCM_END, GO_F,     \* F_VCM
          rGO_F, SUM, peakSUM, STEP_UP,           \* VCM_CTRL_P
          edge,       \* VS has risen and VCM_CTRL_P has not seen it yet
          scene,      \* what the camera looks at
          driven,     \* VCM_I2C is at work: the lens follows within a frame
          seen,       \* where the lens was at the end of the last LAG + 1 frames
          led,        \* whether driven has held since AUTO_FOC fell
          age,        \* frames ended since AUTO_FOC fell, up to AGED
          peakFresh   \* whether peakSUM was measured after that

sweepVars == <<V_C, STEP_i, STEP_f, VCM_END, GO_F>>
measureVars == <<rGO_F, SUM, peakSUM, STEP_UP>>
lensVars == <<driven, seen>>
historyVars == <<scene, led, age, peakFresh>>
vars == <<AUTO_FOC, sweepVars, measureVars, edge, lensVars, historyVars>>

\* What the lens is sent, the low bits of the sweep's step.
STEP == (IF V_C THEN STEP_f ELSE STEP_i) % UP_SIZE
END_STEP == IF VCM_END THEN STEP_UP ELSE STEP

FineStart_Whole == (STEP_UP - SCAL) % STEP_SIZE
FineStart == (STEP_UP - SCAL \div 2) % STEP_SIZE

Init ==
  /\ AUTO_FOC = FALSE
  /\ V_C = FALSE /\ STEP_i = 0 /\ STEP_f = 0 /\ VCM_END = FALSE /\ GO_F = FALSE
  /\ rGO_F = FALSE /\ SUM = 0 /\ peakSUM = 0 /\ STEP_UP = 0
  /\ edge = FALSE /\ scene \in Scenes
  /\ driven = FALSE /\ seen = [i \in 0 .. LAG |-> 0] /\ led = FALSE
  /\ age = 0 /\ peakFresh = TRUE

CoarseOver == STEP_i > STEP_LAST
FineOver == STEP_f > STEP_UP + SCAL \div 2

\* F_VCM, clocked by the vertical sync.
CoarseSweep ==
  IF ~AUTO_FOC THEN V_C' = FALSE /\ STEP_i' = 0
  ELSE IF CoarseOver THEN V_C' = TRUE /\ UNCHANGED STEP_i
  ELSE STEP_i' = (STEP_i + SCAL) % STEP_SIZE /\ UNCHANGED V_C

FineSweep_Waits ==
  IF ~V_C \/ ~GO_F THEN STEP_f' = FineStart /\ VCM_END' = FALSE /\ GO_F' = FALSE
  ELSE /\ GO_F' = TRUE
       /\ IF FineOver THEN VCM_END' = TRUE /\ UNCHANGED STEP_f
          ELSE /\ STEP_f' = (STEP_f + SCAL_f) % STEP_SIZE
               /\ UNCHANGED VCM_END
FineSweep ==
  IF ~V_C THEN STEP_f' = FineStart /\ VCM_END' = FALSE /\ GO_F' = FALSE
  ELSE /\ GO_F' = TRUE
       /\ IF FineOver THEN VCM_END' = TRUE /\ UNCHANGED STEP_f
          ELSE /\ STEP_f' = (STEP_f + SCAL_f) % STEP_SIZE
               /\ UNCHANGED VCM_END

\* VCM_I2C sends the lens the step of this frame some time within it.
LensMoves ==
  seen' = [i \in 0 .. LAG |-> IF i > 0 THEN seen[i - 1]
                             ELSE IF driven THEN END_STEP ELSE seen[0]]

\* The vertical sync rises: a frame is over.
FrameEnds ==
  /\ ~edge /\ edge' = TRUE
  /\ CoarseSweep /\ FineSweep /\ LensMoves
  /\ UNCHANGED <<AUTO_FOC, measureVars, driven, historyVars>>

\* VCM_I2C's delay after I2C_RELEASE is over, in time to move the lens within
\* this frame.  The first sweep begins long before that.
DriverStarts ==
  /\ ~driven /\ driven' = TRUE
  /\ UNCHANGED <<AUTO_FOC, sweepVars, measureVars, edge, seen, historyVars>>

ClearsPeak_FineOnly == ~rGO_F /\ GO_F
ClearsPeak == ~AUTO_FOC \/ (~rGO_F /\ GO_F)
NewPeak_Last == SUM > 0 /\ ~VCM_END
NewPeak_Always == peakSUM < SUM
NewPeak == peakSUM < SUM /\ ~VCM_END

\* Where the lens was in the time that a frame shown may have been taken in.
Way(a, b) == IF a < b THEN a .. b ELSE b .. a
Passed == {seen[0]} \cup UNION {Way(seen[i], seen[i - 1]) : i \in 1 .. LAG}

\* What the rows of a frame taken at any of these positions may sum up to.
Sums ==
  LET sums == {scene[q] : q \in Passed}
  IN  {n \in 0 .. SUM_MAX : \E least, most \in sums : least <= n /\ n <= most}

\* VCM_CTRL_P sees the rising edge one pixel clock later.  It compares the
\* frame before the one that just ended, and remembers the step that the
\* lens has just been sent to.
Measure ==
  /\ edge /\ edge' = FALSE
  /\ rGO_F' = GO_F
  /\ SUM' \in Sums
  /\ scene' \in IF scene \in Moving THEN Moving ELSE {scene}
  /\ IF ClearsPeak THEN peakSUM' = 0 /\ UNCHANGED STEP_UP
     ELSE IF NewPeak THEN peakSUM' = SUM /\ STEP_UP' = STEP
     ELSE UNCHANGED <<peakSUM, STEP_UP>>
  /\ peakFresh' = (ClearsPeak \/ (IF NewPeak THEN age >= AGED ELSE peakFresh))
  /\ age' = IF age < AGED THEN age + 1 ELSE age
  /\ UNCHANGED <<AUTO_FOC, sweepVars, lensVars, led>>

\* AUTO_FOC falls: both blocks of F_VCM are reset.
SweepReset ==
  /\ AUTO_FOC' = FALSE
  /\ V_C' = FALSE /\ STEP_i' = 0
  /\ STEP_f' = (IF V_C THEN FineStart ELSE STEP_f)
  /\ VCM_END' = FALSE /\ GO_F' = FALSE
  /\ age' = 0 /\ peakFresh' = FALSE
  /\ UNCHANGED <<measureVars, edge, seen, scene>>

\* KEY[3] is pressed.
FocusOff ==
  /\ AUTO_FOC /\ SweepReset
  /\ led' = driven /\ UNCHANGED driven

\* I2C_RELEASE falls: the lens driver is reset too, and the lens stays.
Released ==
  /\ driven \/ AUTO_FOC
  /\ IF AUTO_FOC THEN SweepReset
     ELSE UNCHANGED <<AUTO_FOC, sweepVars, measureVars, edge, seen, scene, age, peakFresh>>
  /\ driven' = FALSE /\ led' = FALSE

FocusOn ==
  /\ ~AUTO_FOC /\ age >= OFF_FRAMES /\ AUTO_FOC' = TRUE
  /\ UNCHANGED <<sweepVars, measureVars, edge, lensVars, historyVars>>

Next == FrameEnds \/ Measure \/ DriverStarts \/ FocusOff \/ Released \/ FocusOn
Spec == Init /\ [][Next]_vars

\* The vertical sync keeps coming, and with it the pixel clock; nobody has to
\* press the key.
Fairness == WF_vars(FrameEnds) /\ WF_vars(Measure)

-----------------------------------------------------------------------------
(* Properties *)

TypeOK ==
  /\ {AUTO_FOC, V_C, VCM_END, GO_F, rGO_F, edge, driven, led, peakFresh} \subseteq BOOLEAN
  /\ STEP_i \in 0 .. STEP_SIZE - 1 /\ STEP_f \in 0 .. STEP_SIZE - 1
  /\ STEP_UP \in 0 .. UP_SIZE - 1 /\ seen \in [0 .. LAG -> 0 .. UP_SIZE - 1]
  /\ SUM \in 0 .. SUM_MAX /\ peakSUM \in 0 .. SUM_MAX /\ age \in 0 .. AGED

\* The peak that steers a sweep was measured in that sweep, never left over
\* from the last one, if AUTO_FOC was low while AGED frames ended.
PeakOfThisSweep == AUTO_FOC => peakFresh

\* Once the sweeps are over the lens does not move again.
FocusHolds == [][VCM_END /\ VCM_END' => END_STEP' = END_STEP]_vars

\* Whatever the camera sees, the sweeps end unless the key is pressed.
FocusEnds == AUTO_FOC ~> (VCM_END \/ ~AUTO_FOC)

\* Both: the sweeps come to an end that lasts.
FocusSettles == FocusHolds /\ FocusEnds

\* The step at which the scene is sharpest.
Sharpest == CHOOSE p \in DOMAIN scene : \A q \in DOMAIN scene : scene[q] <= scene[p]

\* On a scene that stands still, and in a sweep all of whose steps reach the
\* lens, the lens stops two coarse steps after the sharpest step, give or take
\* what a frame may mix, and further by the fine sweep's own steps and by what
\* both sweeps have gone on in the LAG frames before the measurement is made.
FocusOvershoots ==
  VCM_END /\ led /\ scene \notin Moving =>
    /\ STEP_UP >= Sharpest + 2 * SCAL - SCAL_f - Blur
    /\ STEP_UP <= Sharpest + 2 * SCAL + SCAL_f + (SCAL + 2 * SCAL_f) * LAG + Blur

\* The fine adjustment is one: it stays around the step remembered.
FineStaysNear ==
  V_C /\ led /\ scene \notin Moving => END_STEP \in STEP_UP - 2 .. STEP_UP + 2

\* Where the lens goes in the fine sweep, and where it stops.
FocusNearPeak == FineStaysNear /\ FocusOvershoots

\* The step remembered is the coarse step nearest the sharpest one, so the
\* fine adjustment, half a coarse step to either side, covers it.
FineCoversSharpest ==
  V_C /\ led /\ scene \notin Moving => Sharpest \in STEP_UP - SCAL \div 2 .. STEP_UP + SCAL \div 2
=============================================================================
