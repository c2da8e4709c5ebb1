----------------------------- MODULE VideoPath ------------------------------
(***************************************************************************)
(* The display side of camouse.v on VGA_CLK: VGA_Controller (u1) requests  *)
(* pixels from the frame store and RAW2RGB_J (u4) makes colours of them.   *)
(* Each has its own idea of where in the picture it is: u1 counts clocks   *)
(* and lines, u4 counts requests and sync pulses, the line buffers turn    *)
(* with the horizontal sync, and the frame store counts words.             *)
(***************************************************************************)
EXTENDS VgaController, RawToRgb

CONSTANT MAX_PRESSES    \* bound on the presses of KEY[0]

\* The sync pulses end before the request window begins, and the columns that
\* become colours lie inside the line and away from the two, 0 and H_SYNC_ACT,
\* at which the blanking intervals write.  The board: 102 < 161 clocks, 12 < 44
\* lines, columns 4 to 636 of 640.
ASSUME PictureAssumption ==
  /\ H_MARK1 <= H_SYNC_FRONT /\ H_SYNC_CYC > 0 /\ V_SYNC_CYC > 0
  /\ H_SYNC_CYC + H_SYNC_FRONT - H_MARK1 < X_START + H_MARK
  /\ V_SYNC_CYC + V_SYNC_FRONT < Y_START + V_MARK
  /\ {D8M_VAL_LINE_MIN, D8M_VAL_LINE_MAX} \subseteq Nat
  /\ D8M_VAL_LINE_MIN >= 1 /\ D8M_VAL_LINE_MAX < H_SYNC_ACT
  /\ D8M_VAL_LINE_MIN .. D8M_VAL_LINE_MAX \subseteq Columns

VARIABLE presses        \* those so far

vars == <<vgaVars, rawVars, presses>>

Init == VgaInit /\ RawInit /\ presses = 0

\* The word on SDRAM_RD_DATA; while the relay holds the display the FIFO may
\* still be empty.
SDRAM_RD_DATA == IF iRST_N THEN front ELSE None

\* RAW2RGB_J at a clock edge, with the vertical sync before and after it.
Pixels == RawClock(SDRAM_RD_DATA, oRequest, oVGA_H_SYNC,
                   oVGA_V_SYNC, oVGA_V_SYNC')

Clock == VgaClock /\ Pixels /\ UNCHANGED presses

\* The relay holds the counters of VGA_Controller; RAW2RGB_J has no reset.
HeldClock == ~iRST_N /\ UNCHANGED <<vgaVars, presses>> /\ Pixels

\* If a press ends a vertical sync, VGA_VS rises with it.
Press == /\ presses < MAX_PRESSES /\ presses' = presses + 1
         /\ PressKey /\ UNCHANGED rawVars

\* The relay holds the display for a third of a second: by then the pixels of
\* the line that the press cut short have left RAW2RGB_J.
Release == /\ ~rDVAL /\ X_Cont = 0 /\ ~RD_EN
           /\ RelayRelease /\ UNCHANGED <<rawVars, presses>>

Next == Clock \/ HeldClock \/ Press \/ Release

\* The video clock never stops; nobody has to press the key.
Spec == Init /\ [][Next]_vars
FairSpec == Spec /\ WF_vars(Clock)

-----------------------------------------------------------------------------
(* Properties *)

TypeOK ==
  /\ VgaTypeOK
  /\ X_Cont \in Nat /\ Y_Cont \in 0 .. V_SYNC_ACT /\ rDVAL \in BOOLEAN
  /\ WR \in 0 .. 2 /\ pre_CCD_LVAL \in BOOLEAN /\ READ_addr \in Nat
  /\ RD_EN \in BOOLEAN

\* RAW2RGB_J counts the lines and columns that VGA_Controller requests: its
\* row is the row of the pixel the FIFO shows, its column is one behind.
CountersAgree ==
  /\ oRequest => Y_Cont = front[1]
  /\ oRequest /\ RD_EN => X_Cont = front[2] - 1

\* The pixel under the taps is the one above, and two above, the pixel that
\* is about to be written: neither a line of the last frame nor the column
\* the blanking intervals overwrite in every buffer is ever seen.
TapsAbove ==
  iRST_N /\ RD_EN /\ ReadEnabled /\ Y_Cont >= 2 =>
    /\ taps0x(oRequest) = <<Y_Cont - 2, X_Cont>>
    /\ taps1x(oRequest) = <<Y_Cont - 1, X_Cont>>

\* Apart from the first one of a line, whose left neighbour is black, every
\* output pixel is made of one two-by-two block of neighbours.
ColoursOfOneBlock ==
  iRST_N /\ R # None /\ B # None /\ Y_Cont >= 2 =>
    {R, B} \cup G = {Y_Cont - 2, Y_Cont - 1} \X {X_Cont - 2, X_Cont - 1}

\* Red is always taken from the same quarter of the sensor's sites and blue
\* from the diagonally opposite one, in every row and column of every frame.
ColoursFromTheirSites ==
  iRST_N /\ Y_Cont >= 2 =>
    /\ R # None => R[1] % 2 = 1 /\ R[2] % 2 = 0
    /\ B # None => B[1] % 2 = 0 /\ B[2] % 2 = 1

\* The picture is the camera's: every colour from the right sites of the right
\* block of the right two lines, at the place the display is at.
ColoursRight == CountersAgree /\ TapsAbove /\ ColoursOfOneBlock /\ ColoursFromTheirSites
=============================================================================
