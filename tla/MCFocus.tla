------------------------------- MODULE MCFocus -------------------------------
(* AutoFocus, what comes before a sweep, FocusStart, and what one frame is   *)
(* measured by, Sharpness, side by side: part names which of them moves.     *)
(* FocusStart's AUTO_FOC is the one that AutoFocus takes as an input, at any *)
(* time that it may change; Sharpness's SUM is the number of a frame that it *)
(* takes from scene.                                                         *)
EXTENDS MCAutoFocus

CONSTANTS READY_AT, RST0_AT, RST1_AT, RST2_AT, CONT_MAX,
          FRAME, FIRST, LOW, RANGE, FOC_AT, PULSE_MAX, MaxPresses,
          H_SYNC_CYC, H_SYNC_BACK, H_SYNC_ACT, H_SYNC_FRONT, H_SYNC_TOTAL,
          V_SYNC_CYC, V_SYNC_BACK, V_SYNC_ACT, V_SYNC_FRONT, V_SYNC_TOTAL,
          H_MARK, H_MARK1, V_MARK, H_OFF, V_OFF, Pictures, MaxRestarts

VARIABLES part,
          Cont, oREADY, oRST_0, oRST_1, oRST_2,
          KEY, at, rS, MS, CNT, NUM_H, NUM_L, I2C_RELEASE, PULSE, presses,
          H_Cont, V_Cont, iRST_N, front, HS, VS, rHS, rVS,
          H_CNT, H_CEN, V_CNT, V_CEN, ACTIV_C, ACTIV_V,
          rY1, rY2, SS, rSUM, frameSUM, picture, due, whole, restarts

Start == INSTANCE FocusStart
Frame == INSTANCE Sharpness WITH SUM <- frameSUM

startVars == <<Cont, oREADY, oRST_0, oRST_1, oRST_2,
               KEY, at, rS, MS, CNT, NUM_H, NUM_L, I2C_RELEASE, PULSE, presses>>

sharpVars == <<H_Cont, V_Cont, iRST_N, front, HS, VS, rHS, rVS,
               H_CNT, H_CEN, V_CNT, V_CEN, ACTIV_C, ACTIV_V,
               rY1, rY2, SS, rSUM, frameSUM, picture, due, whole, restarts>>

ASSUME StartAndFrameAssumption ==
    /\ Start!DelayAssumption /\ Start!StartAssumption /\ Start!PolarityAssumption
    /\ Frame!VideoAssumption /\ Frame!SharpnessAssumption /\ Frame!ScreenAssumption

\* Lines on either side of the threshold, steps over one and two columns, at
\* the borders of the picture and inside it, and a last line of its own.
Left == H_SYNC_FRONT + H_SYNC_CYC + H_SYNC_BACK
Top == V_SYNC_FRONT + V_SYNC_CYC + V_SYNC_BACK
LineOf(greys) == [h \in Left .. H_SYNC_TOTAL |-> LET g == greys[h - Left + 1] IN <<g, g, g>>]
Even(greys) == [v \in Top .. V_SYNC_TOTAL |-> LineOf(greys)]
SomePictures ==
  {Even(<<0, 0, 0, 0, 0>>), Even(<<41, 41, 41, 41, 41>>),
   Even(<<0, 0, 20, 41, 41>>), Even(<<0, 41, 0, 41, 0>>),
   [v \in Top .. V_SYNC_TOTAL |-> IF v = V_SYNC_TOTAL THEN LineOf(<<0, 0, 41, 0, 41>>)
                                 ELSE LineOf(<<20, 20, 0, 41, 20>>)]}

PartInit ==
    /\ part \in {"sweep", "start", "sharpness"} /\ Init /\ Start!Init /\ Frame!Init
    /\ part # "sweep" => scene = CHOOSE s \in Noise : TRUE
    /\ part # "sharpness" => picture = CHOOSE p \in Pictures : TRUE

\* In a scene that moves nothing depends on where the lens is: it stays.  In
\* others it may be let go at either of two places.
LensBound ==
    /\ scene \in Moving => ~driven'
    /\ driven => driven' \/ seen[0] \in {0, 9}

PartNext ==
    /\ UNCHANGED part
    /\ \/ part = "sweep" /\ Next /\ LensBound /\ UNCHANGED <<startVars, sharpVars>>
       \/ part = "start" /\ Start!Next /\ UNCHANGED <<vars, sharpVars>>
       \/ part = "sharpness" /\ Frame!Next /\ UNCHANGED <<vars, startVars>>

PartSpec ==
    /\ PartInit /\ [][PartNext]_<<part, vars, startVars, sharpVars>>
    /\ WF_vars(part = "sweep" /\ FrameEnds) /\ WF_vars(part = "sweep" /\ Measure)

\* While the lens is swept, the sync it is moved by has the right polarity,
\* whatever was measured while KEY[0] was pressed and the display restarted,
\* and although a frame's high time does not fit the counter
\* (MODIFY_SYNC.v:17-21, AUTO_FOCUS_ON.v:20).
PolarityKnown == Start!PolarityKnown

\* A frame is measured by what is in it and nothing else, at the place where
\* it is shown (VCM_CTRL_P.v:50-72, LCD_COUNTER.v:22-52).
FrameMeasured == Frame!FrameMeasured
=============================================================================
