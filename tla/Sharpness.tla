------------------------------ MODULE Sharpness ------------------------------
(***************************************************************************)
(* How sharp a frame is: VCM_CTRL_P.v counts the pixels whose luminance    *)
(* differs from that of the pixel two before, and LCD_COUNTER.v finds the  *)
(* part of the frame they are counted in.  A step is an edge of VGA_CLK.   *)
(*                                                                         *)
(* Differences reach over blanking, and syncs, difference and window come  *)
(* through registers of different depth.  AutoFocus takes for granted what *)
(* comes out: a number per frame that depends on nothing but that frame.   *)
(* LCD_COUNTER's marker, LINE, is left out: nothing but the colour of a    *)
(* pixel depends on it, and its switch is off.                             *)
(***************************************************************************)
EXTENDS VgaController, FiniteSets

CONSTANTS H_OFF, V_OFF,   \* LCD_COUNTER: 200, the size of the centre window
          Pictures,       \* what RAW2RGB_J shows in a frame, by line and column
          MaxRestarts     \* bound: how often KEY[0] is pressed

H_BLANK == H_SYNC_FRONT + H_SYNC_CYC + H_SYNC_BACK
V_BLANK == V_SYNC_FRONT + V_SYNC_CYC + V_SYNC_BACK
Columns == H_BLANK .. H_SYNC_TOTAL
Lines == V_BLANK .. V_SYNC_TOTAL

TH == 20
WRAP == 65536

SharpnessAssumption ==
  /\ {H_OFF, V_OFF, MaxRestarts} \subseteq Nat
  /\ \A p \in Pictures : DOMAIN p = Lines /\ \A v \in Lines : DOMAIN p[v] = Columns

\* The syncs end three clocks before the window of requests and two before the
\* picture, in a line and in a frame, and the centre lies in the window.
FULL_COUNT == V_SYNC_TOTAL + 1 - V_SYNC_CYC
ScreenAssumption ==
  /\ H_SYNC_CYC > 0 /\ V_SYNC_CYC > 0 /\ V_SYNC_FRONT > 0 /\ V_SYNC_BACK > 0
  /\ H_MARK1 <= H_SYNC_FRONT /\ H_SYNC_BACK + H_MARK1 > 1
  /\ H_SYNC_FRONT + 3 <= H_SYNC_BACK + H_MARK + H_MARK1
  /\ V_SYNC_FRONT < V_SYNC_BACK + V_MARK
  /\ H_OFF \div 2 < H_SYNC_ACT \div 2 /\ H_SYNC_ACT < WRAP
  /\ V_OFF \div 2 < FULL_COUNT \div 2 /\ V_SYNC_TOTAL < WRAP
  /\ LET middle == V_SYNC_FRONT + V_SYNC_CYC + FULL_COUNT \div 2
     IN  /\ Y_START + V_MARK < middle - V_OFF \div 2
         /\ middle + V_OFF \div 2 <= Y_START + V_MARK + V_SYNC_ACT

VARIABLES HS, VS, rHS, rVS,                   \* the syncs, negative pulses
          H_CNT, H_CEN, V_CNT, V_CEN,         \* LCD_COUNTER
          ACTIV_C, ACTIV_V,
          rY1, rY2, SS, rSUM, SUM,            \* VCM_CTRL_P
          picture,    \* what the camera sees while this frame is shown
          due,        \* how sharp the last frame was
          whole,      \* frames since KEY[0] was pressed, up to 3
          restarts

counterVars == <<H_CNT, H_CEN, V_CNT, V_CEN, ACTIV_C, ACTIV_V>>
sumVars == <<rY1, rY2, SS, rSUM, SUM>>
historyVars == <<picture, due, whole>>
sharpVars == <<vgaVars, HS, VS, rHS, rVS, counterVars, sumVars, historyVars, restarts>>

\* The upper byte of 77 R + 150 G + 29 B, which has 16 bits.
Luminance(rgb) == (77 * rgb[1] + 150 * rgb[2] + 29 * rgb[3]) \div 256
Distance(a, b) == IF a > b THEN a - b ELSE b - a

\* VGA_Controller blanks what is not a pixel of the screen.
Y1 == IF H_Cont \in Columns /\ V_Cont \in Lines
      THEN Luminance(picture[V_Cont][H_Cont]) ELSE 0

Init ==
  /\ VgaInit
  /\ HS = FALSE /\ VS = FALSE /\ rHS = FALSE /\ rVS = FALSE
  /\ H_CNT = 0 /\ H_CEN = 0 /\ V_CNT = 0 /\ V_CEN = 0
  /\ ACTIV_C = FALSE /\ ACTIV_V = FALSE
  /\ rY1 = 0 /\ rY2 = 0 /\ SS = 0 /\ rSUM = 0 /\ SUM = 0
  /\ picture \in Pictures /\ due = 0 /\ whole = 0
  /\ restarts = 0

\* AUTO_SYNC_MODIFY, once it knows the polarity (FocusStart).
Syncs == HS' = oVGA_H_SYNC /\ VS' = oVGA_V_SYNC /\ rHS' = HS /\ rVS' = VS

LineBegins == ~rHS /\ HS
FrameBegins == ~rVS /\ VS

\* The centre is half of what was counted on the last line, or in the last
\* frame; the subtraction has 16 bits.
InCentre(count, last, off) ==
  /\ count >= (last \div 2 - off \div 2) % WRAP
  /\ count < (last \div 2 + off \div 2) % WRAP

Counters_AnyColumn ==
  /\ ACTIV_V' = (HS /\ VS)
  /\ ACTIV_C' = (InCentre(H_CNT, H_CEN, H_OFF) /\ InCentre(V_CNT, V_CEN, V_OFF))
  /\ IF LineBegins THEN H_CNT' = 0 /\ H_CEN' = H_CNT
     ELSE H_CNT' = (IF HS THEN (H_CNT + 1) % WRAP ELSE H_CNT) /\ UNCHANGED H_CEN
  /\ IF FrameBegins THEN V_CNT' = 0 /\ V_CEN' = V_CNT
     ELSE /\ V_CNT' = IF LineBegins /\ VS THEN (V_CNT + 1) % WRAP ELSE V_CNT
          /\ UNCHANGED V_CEN
Counters ==
  /\ ACTIV_V' = (HS /\ VS)
  /\ ACTIV_C' = (InCentre(H_CNT, H_CEN, H_OFF) /\ InCentre(V_CNT, V_CEN, V_OFF))
  /\ IF LineBegins THEN H_CNT' = 0 /\ H_CEN' = H_CNT
     ELSE H_CNT' = (IF oRequest THEN (H_CNT + 1) % WRAP ELSE H_CNT) /\ UNCHANGED H_CEN
  /\ IF FrameBegins THEN V_CNT' = 0 /\ V_CEN' = V_CNT
     ELSE /\ V_CNT' = IF LineBegins /\ VS THEN (V_CNT + 1) % WRAP ELSE V_CNT
          /\ UNCHANGED V_CEN

\* camouse.v ties SW_FUC_ALL_CEN to 0: the frame counts, not its centre.
SW_FUC_ALL_CEN == FALSE
TR == IF SW_FUC_ALL_CEN THEN ACTIV_C ELSE ACTIV_V

\* SS and TR are both of the pixel before this one.
Statistics ==
  /\ rY1' = Y1 /\ rY2' = rY1 /\ SS' = Distance(Y1, rY2)
  /\ IF FrameBegins THEN SUM' = rSUM /\ rSUM' = 0
     ELSE rSUM' = (IF SS > TH /\ TR THEN rSUM + 1 ELSE rSUM) /\ UNCHANGED SUM

\* The definition of sharpness: on each line of the picture, and in the two
\* columns behind it, a difference from the pixel two columns before.
Signal(p, v, h) == IF h \in Columns THEN Luminance(p[v][h]) ELSE 0
Sharp(p) ==
  Cardinality({at \in Lines \X (H_BLANK .. H_SYNC_TOTAL + 2) :
                 Distance(Signal(p, at[1], at[2]), Signal(p, at[1], at[2] - 2)) > TH})

\* The camera may see something else in each frame.
History ==
  IF FrameBegins
  THEN /\ due' = Sharp(picture) /\ picture' \in Pictures
       /\ whole' = IF whole < 3 THEN whole + 1 ELSE whole
  ELSE UNCHANGED historyVars

Clock == /\ VgaClock /\ Syncs /\ Counters /\ Statistics /\ History
         /\ UNCHANGED restarts

\* The pixel clock runs before the relay lets the display go.
HeldClock ==
  /\ ~iRST_N /\ UNCHANGED <<vgaVars, restarts>>
  /\ Syncs /\ Counters /\ Statistics /\ History

\* KEY[0] restarts the display anywhere in a frame and nothing here.
Press == /\ PressKey /\ whole' = 0
         /\ restarts < MaxRestarts /\ restarts' = restarts + 1
         /\ UNCHANGED <<HS, VS, rHS, rVS, counterVars, sumVars, picture, due>>

Start == /\ RelayRelease
         /\ UNCHANGED <<HS, VS, rHS, rVS, counterVars, sumVars, historyVars, restarts>>

Next == Clock \/ HeldClock \/ Press \/ Start

Spec == Init /\ [][Next]_sharpVars

-----------------------------------------------------------------------------
(* Properties *)

TypeOK ==
  /\ VgaTypeOK /\ {HS, VS, rHS, rVS, ACTIV_C, ACTIV_V} \subseteq BOOLEAN
  /\ {H_CNT, H_CEN, V_CNT, V_CEN} \subseteq 0 .. WRAP - 1
  /\ {rY1, rY2, SS} \subseteq 0 .. 255 /\ {rSUM, SUM, due} \subseteq Nat
  /\ picture \in Pictures /\ whole \in 0 .. 3
  /\ restarts \in 0 .. MaxRestarts

\* What a frame is measured by is the number of differences in that frame,
\* each counted once, none in blanking and none of the frame before
\* (VCM_CTRL_P.v:50-72), from the third frame after a restart: the first is
\* not whole, and restarting within the sync makes one that has no picture.
SumOfFrame == whole = 3 => SUM = due

\* The centre window stands still: it is H_OFF columns of V_OFF lines, in the
\* middle of the columns requested and of the lines between two syncs
\* (LCD_COUNTER.v:47-51), one clock late like the pixel it selects.
Middle(c, n, off) == c >= n \div 2 - off \div 2 /\ c < n \div 2 + off \div 2
WindowCentred ==
  whole = 3 /\ H_Cont > H_SYNC_CYC + H_SYNC_FRONT - H_MARK1 + 2 =>
    (ACTIV_C <=>
       /\ Middle(H_Cont - 1 - X_START - H_MARK, H_SYNC_ACT, H_OFF)
       /\ Middle(V_Cont - V_SYNC_FRONT - V_SYNC_CYC, V_SYNC_TOTAL + 1 - V_SYNC_CYC, V_OFF))

\* Both: a frame is measured by what is in it, at the place it is shown.
FrameMeasured == SumOfFrame /\ WindowCentred
=============================================================================
