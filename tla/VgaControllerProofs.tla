------------------------ MODULE VgaControllerProofs -------------------------
(***************************************************************************)
(* For every screen whose request window fits its frame, the frame store   *)
(* and the display stay aligned.                                           *)
(*                                                                         *)
(* FrameAligned speaks of the clocks of the window only.  Place says where *)
(* the stored frame must be at every other clock: at the row's beginning   *)
(* before the window, at the next row's after it, at the frame's first     *)
(* pixel outside the window's lines.  The line that a count of lines       *)
(* belongs to ends with the clock in which H_Cont is 0.                    *)
(*                                                                         *)
(* The second half is about the colours.  ColoursRight compares registers  *)
(* of the two modules and words of three buffers; PathInv says what each   *)
(* of them holds at every column of every line: which lines of the stored  *)
(* frame the buffers hold before and after they turn (LineInv), where the  *)
(* two counters of RAW2RGB_J are, in the window and outside it (ColumnInv, *)
(* RowInv), and which pair of pixels RAW_RGB_BIN remembers (PairInv).      *)
(***************************************************************************)
EXTENDS VideoPath, TLAPS

XS == X_START + H_MARK
YS == Y_START + V_MARK

\* The pixel at which row r begins, the frame's first one after the last row.
RowStart(r) == IF r < V_SYNC_ACT THEN <<r, 0>> ELSE <<0, 0>>

\* The pixel the FIFO shows when the counters are at h and v.
Place(h, v) ==
  IF v < YS \/ v >= YS + V_SYNC_ACT THEN <<0, 0>>
  ELSE IF h = 0 \/ h >= XS + H_SYNC_ACT THEN RowStart(v - YS + 1)
  ELSE IF h <= XS THEN <<v - YS, 0>>
  ELSE <<v - YS, h - XS>>

CountersInv == /\ H_Cont \in 0 .. H_SYNC_TOTAL /\ V_Cont \in 0 .. V_SYNC_TOTAL
               /\ iRST_N \in BOOLEAN

IInv == CountersInv /\ front = Place(H_Cont, V_Cont)

LEMMA Parameters ==
  /\ H_SYNC_ACT \in Nat /\ H_SYNC_ACT > 0 /\ V_SYNC_ACT \in Nat /\ V_SYNC_ACT > 0
  /\ H_SYNC_TOTAL \in Nat /\ V_SYNC_TOTAL \in Nat
  /\ XS \in Nat /\ XS > 0 /\ XS + H_SYNC_ACT <= H_SYNC_TOTAL + 1
  /\ YS \in Nat /\ YS > 0 /\ YS + V_SYNC_ACT <= V_SYNC_TOTAL + 1
<1>1. /\ X_START \in Nat /\ Y_START \in Nat /\ H_MARK \in Nat /\ V_MARK \in Nat
      /\ H_SYNC_TOTAL \in Nat /\ V_SYNC_TOTAL \in Nat
      /\ H_SYNC_ACT \in Nat /\ V_SYNC_ACT \in Nat
  BY VideoAssumption DEF X_START, Y_START
<1> QED
  BY <1>1, VideoAssumption DEF XS, YS

\* With the counters at zero the frame store is at its first pixel.
LEMMA AtRest ==
  ASSUME H_Cont = 0, V_Cont = 0, iRST_N \in BOOLEAN, front = <<0, 0>>
  PROVE  IInv
<1>1. Place(0, 0) = <<0, 0>>
  BY Parameters DEF Place
<1> QED
  BY <1>1, Parameters DEF IInv, CountersInv

LEMMA Initially == VgaInit => IInv
<1> SUFFICES ASSUME VgaInit PROVE IInv
  OBVIOUS
<1>1. iRST_N \in BOOLEAN
  BY DEF VgaInit
<1> QED
  BY <1>1, AtRest DEF VgaInit

\* A clock moves the counters and the stored frame together.
LEMMA ClockStep ==
  ASSUME IInv, VgaClock
  PROVE  IInv'
<1> USE Parameters
<1> DEFINE h == H_Cont
           v == V_Cont
<1>1. h \in 0 .. H_SYNC_TOTAL /\ v \in 0 .. V_SYNC_TOTAL /\ front = Place(h, v)
  BY DEF IInv, CountersInv
<1>2. CountersInv'
  BY <1>1 DEF VgaClock, CountUpTo, IInv, CountersInv
<1>3. oRequest <=> /\ XS <= h /\ h < XS + H_SYNC_ACT
                   /\ YS <= v /\ v < YS + V_SYNC_ACT
  BY <1>1 DEF oRequest, InWindow, XS, YS
<1>4. front' = Place(H_Cont', V_Cont')
  <2>1. CASE h = 0
    \* The line ends here, where the window does not reach.
    <3>1. H_Cont' = CountUpTo(0, H_SYNC_TOTAL) /\ V_Cont' = CountUpTo(v, V_SYNC_TOTAL)
      BY <2>1 DEF VgaClock
    <3>2. ~oRequest /\ front' = front
      BY <1>3, <2>1 DEF VgaClock
    <3>3. H_Cont' = 1 /\ 1 <= XS
      BY <3>1 DEF CountUpTo
    <3>4. front = IF v < YS \/ v >= YS + V_SYNC_ACT THEN <<0, 0>>
                  ELSE RowStart(v - YS + 1)
      BY <1>1, <2>1 DEF Place
    <3>5. Place(H_Cont', V_Cont') =
            IF V_Cont' < YS \/ V_Cont' >= YS + V_SYNC_ACT THEN <<0, 0>>
            ELSE <<V_Cont' - YS, 0>>
      BY <3>3 DEF Place
    <3>6. CASE v < V_SYNC_TOTAL
      BY <1>1, <3>1, <3>2, <3>4, <3>5, <3>6 DEF CountUpTo, RowStart
    <3>7. CASE v = V_SYNC_TOTAL
      BY <1>1, <3>1, <3>2, <3>4, <3>5, <3>7 DEF CountUpTo, RowStart
    <3> QED
      BY <1>1, <3>6, <3>7
  <2>2. CASE h # 0 /\ oRequest
    <3>1. V_Cont' = v /\ front' = Following(front)
      BY <2>2 DEF VgaClock
    <3>2. front = <<v - YS, h - XS>>
      BY <1>1, <1>3, <2>2 DEF Place
    <3>3. CASE h + 1 < XS + H_SYNC_ACT
      <4>1. H_Cont' = h + 1
        BY <1>1, <3>3 DEF VgaClock, CountUpTo
      <4>2. front' = <<v - YS, h + 1 - XS>>
        BY <1>1, <1>3, <2>2, <3>1, <3>2, <3>3 DEF Following
      <4> QED
        BY <1>1, <1>3, <2>2, <3>1, <3>3, <4>1, <4>2 DEF Place
    <3>4. CASE h + 1 = XS + H_SYNC_ACT
      <4>1. H_Cont' = h + 1 \/ H_Cont' = 0
        BY <1>1 DEF VgaClock, CountUpTo
      <4>2. front' = RowStart(v - YS + 1)
        BY <1>1, <1>3, <2>2, <3>1, <3>2, <3>4 DEF Following, RowStart
      <4> QED
        BY <1>1, <1>3, <2>2, <3>1, <3>4, <4>1, <4>2 DEF Place
    <3> QED
      BY <1>1, <1>3, <2>2, <3>3, <3>4
  <2>3. CASE h # 0 /\ ~oRequest
    <3>1. V_Cont' = v /\ front' = front
      BY <2>3 DEF VgaClock
    <3>2. CASE h < H_SYNC_TOTAL
      <4>1. H_Cont' = h + 1
        BY <3>2 DEF VgaClock, CountUpTo
      <4> QED
        BY <1>1, <1>3, <2>3, <3>1, <4>1 DEF Place
    <3>3. CASE h = H_SYNC_TOTAL
      <4>1. H_Cont' = 0
        BY <3>3 DEF VgaClock, CountUpTo
      <4> QED
        BY <1>1, <1>3, <2>3, <3>1, <3>3, <4>1 DEF Place
    <3> QED
      BY <1>1, <3>2, <3>3
  <2> QED
    BY <2>1, <2>2, <2>3
<1> QED
  BY <1>2, <1>4 DEF IInv

\* The invariant is inductive.
LEMMA Inductive == IInv /\ [VgaNext]_vgaVars => IInv'
<1> SUFFICES ASSUME IInv, [VgaNext]_vgaVars PROVE IInv'
  OBVIOUS
<1>1. CASE VgaClock
  BY <1>1, ClockStep
<1>2. CASE PressKey
  <2>1. H_Cont' = 0 /\ V_Cont' = 0 /\ front' = <<0, 0>>
    BY <1>2 DEF PressKey
  <2>2. iRST_N' \in BOOLEAN
    BY <1>2 DEF PressKey
  <2>3. Place(0, 0) = <<0, 0>>
    BY Parameters DEF Place
  <2> QED
    BY <2>1, <2>2, <2>3, Parameters DEF IInv, CountersInv
<1>3. CASE RelayRelease
  BY <1>3 DEF RelayRelease, IInv, CountersInv, Place
<1>4. CASE UNCHANGED vgaVars
  BY <1>4 DEF vgaVars, IInv, CountersInv, Place
<1> QED
  BY <1>1, <1>2, <1>3, <1>4 DEF VgaNext

\* In the window, Place is what FrameAligned asks for.
LEMMA Aligned == IInv => FrameAligned
<1> SUFFICES ASSUME IInv, oRequest
             PROVE  front = <<V_Cont - Y_START - V_MARK, H_Cont - X_START - H_MARK>>
  BY DEF FrameAligned
<1>1. X_START \in Nat /\ Y_START \in Nat /\ H_MARK \in Nat /\ V_MARK \in Nat
  BY VideoAssumption DEF X_START, Y_START
<1>2. H_Cont \in Nat /\ V_Cont \in Nat /\ front = Place(H_Cont, V_Cont)
  BY Parameters DEF IInv, CountersInv
<1>3. /\ XS <= H_Cont /\ H_Cont < XS + H_SYNC_ACT
      /\ YS <= V_Cont /\ V_Cont < YS + V_SYNC_ACT
  BY DEF oRequest, InWindow, XS, YS
<1>4. front = <<V_Cont - YS, H_Cont - XS>>
  BY <1>2, <1>3, Parameters DEF Place
<1>5. V_Cont - YS = V_Cont - Y_START - V_MARK /\ H_Cont - XS = H_Cont - X_START - H_MARK
  BY <1>1, <1>2 DEF XS, YS
<1> QED
  BY <1>4, <1>5

LEMMA PlaceInFrame == IInv => VgaTypeOK
<1> SUFFICES ASSUME IInv PROVE VgaTypeOK
  OBVIOUS
<1>1. front \in (0 .. V_SYNC_ACT - 1) \X (0 .. H_SYNC_ACT - 1)
  BY Parameters DEF IInv, CountersInv, Place, RowStart
<1> QED
  BY <1>1 DEF IInv, CountersInv, VgaTypeOK

\* The picture never rolls: VGA_Controller's requests and the stored frame
\* stay aligned on every screen, whenever KEY[0] is pressed.
THEOREM PictureStands == VgaSpec => [](VgaTypeOK /\ FrameAligned)
BY Initially, Inductive, Aligned, PlaceInFrame, PTL DEF VgaSpec

-----------------------------------------------------------------------------
(* The pixels that the display side makes colours of.                      *)

\* The first clock of the horizontal sync is the one after this column.
HF == H_SYNC_FRONT - H_MARK1

\* The columns of a line from 1 on: its last clock is the one with H_Cont 0.
Col == IF H_Cont = 0 THEN H_SYNC_TOTAL + 1 ELSE H_Cont

InRows(v) == YS <= v /\ v < YS + V_SYNC_ACT

\* RAW2RGB_J sees the window one clock after VGA_Controller.
Shown(c, v) == InRows(v) /\ XS < c /\ c <= XS + H_SYNC_ACT

\* The columns that the taps read, of the pixels that become colours.
Valid == D8M_VAL_LINE_MIN .. D8M_VAL_LINE_MAX - 2

\* Buffer n holds row r of the stored frame up to column last, or all of it.
\* Column x holds pixel x + 1: the counter of the reads is one behind.
Written(n, r, last) == \A x \in Valid : x <= last => line[n][x] = <<r, x + 1>>
Full(n, r) == \A x \in Valid : line[n][x] = <<r, x + 1>>

Types == /\ WR \in 0 .. 2 /\ X_Cont \in Nat /\ Y_Cont \in Nat
         /\ line \in [0 .. 2 -> [Columns -> Int \X Int]]

\* RAW_RGB_BIN is cleared while RD_EN is low, VGA_Controller while it is held.
Quiet == /\ ~RD_EN => /\ rD0 = None /\ rD1 = None
                      /\ R = None /\ G = {None} /\ B = None
         /\ ~iRST_N => H_Cont = 0 /\ V_Cont = 0

ColumnInv == /\ rDVAL <=> Shown(Col, V_Cont)
             /\ Shown(Col, V_Cont) => X_Cont = Col - XS - 1
             /\ ~Shown(Col, V_Cont) => X_Cont = 0 \/ X_Cont = H_SYNC_ACT

RowInv == /\ V_Cont > V_SYNC_FRONT /\ V_Cont < YS => Y_Cont = 0
          /\ InRows(V_Cont) => Y_Cont = IF Col <= XS + H_SYNC_ACT THEN V_Cont - YS
                                        ELSE V_Cont - YS + 1

ReadInv == /\ Shown(Col, V_Cont) /\ X_Cont >= 1 => READ_addr = X_Cont - 1
           /\ RD_EN => /\ Shown(Col, V_Cont)
                       /\ X_Cont > D8M_VAL_LINE_MIN + 1 /\ X_Cont <= D8M_VAL_LINE_MAX

PulseInv == Col <= H_SYNC_TOTAL =>
              (pre_CCD_LVAL <=> ~(HF + 1 < Col /\ Col <= HF + H_SYNC_CYC + 1))

\* The buffers turn once a line, with the horizontal sync before its window.
LineInv ==
  InRows(V_Cont) =>
    /\ Col <= HF + 1 =>
         /\ V_Cont >= YS + 1 => Full(WR, V_Cont - YS - 1)
         /\ V_Cont >= YS + 2 => Full((WR + 2) % 3, V_Cont - YS - 2)
    /\ Col > HF + 1 =>
         /\ Written(WR, V_Cont - YS, Col - XS - 2)
         /\ V_Cont >= YS + 1 => Full((WR + 2) % 3, V_Cont - YS - 1)
         /\ V_Cont >= YS + 2 => Full((WR + 1) % 3, V_Cont - YS - 2)

\* The registers hold the pair before the one under the taps, or are cleared.
PairInv == Y_Cont >= 2 =>
  \/ rD0 = None /\ rD1 = None
  \/ rD0 = <<Y_Cont - 2, X_Cont - 1>> /\ rD1 = <<Y_Cont - 1, X_Cont - 1>>

RunningInv == /\ ColumnInv /\ RowInv /\ ReadInv /\ PulseInv /\ LineInv
              /\ PairInv /\ ColoursOfOneBlock /\ ColoursFromTheirSites

PathInv == IInv /\ Types /\ Quiet /\ (iRST_N => RunningInv)

LEMMA PathParameters ==
  /\ HF \in Nat /\ H_SYNC_CYC \in Nat /\ H_SYNC_CYC > 0 /\ HF + H_SYNC_CYC < XS
  /\ V_SYNC_FRONT \in Nat /\ V_SYNC_CYC \in Nat /\ V_SYNC_CYC > 0
  /\ V_SYNC_CYC + V_SYNC_FRONT < YS
  /\ D8M_VAL_LINE_MIN \in Nat /\ D8M_VAL_LINE_MAX \in Nat
  /\ D8M_VAL_LINE_MIN >= 1 /\ D8M_VAL_LINE_MAX < H_SYNC_ACT
  /\ Valid \subseteq Columns
<1>1. /\ H_SYNC_FRONT \in Nat /\ H_MARK1 \in Nat /\ H_SYNC_CYC \in Nat
      /\ V_SYNC_FRONT \in Nat /\ V_SYNC_CYC \in Nat
      /\ D8M_VAL_LINE_MIN \in Nat /\ D8M_VAL_LINE_MAX \in Nat
  BY VideoAssumption, PictureAssumption
<1>2. H_SYNC_CYC + H_SYNC_FRONT - H_MARK1 < XS /\ V_SYNC_CYC + V_SYNC_FRONT < YS
  BY PictureAssumption DEF XS, YS
<1>3. HF \in Nat /\ HF + H_SYNC_CYC = H_SYNC_CYC + H_SYNC_FRONT - H_MARK1
  BY <1>1, PictureAssumption DEF HF
<1>4. Valid \subseteq Columns
  BY <1>1, PictureAssumption DEF Valid
<1> QED
  BY <1>1, <1>2, <1>3, <1>4, PictureAssumption

\* The outputs of VGA_Controller in terms of the line's columns.
LEMMA Outputs ==
  ASSUME IInv, NEW c, c = Col
  PROVE  /\ c \in 1 .. H_SYNC_TOTAL + 1 /\ V_Cont \in 0 .. V_SYNC_TOTAL
         /\ oRequest <=> InRows(V_Cont) /\ XS <= c /\ c < XS + H_SYNC_ACT
         /\ oVGA_H_SYNC <=> ~(HF < c /\ c <= HF + H_SYNC_CYC)
         /\ oVGA_V_SYNC <=> ~(V_Cont > V_SYNC_FRONT /\ V_Cont <= V_SYNC_CYC + V_SYNC_FRONT)
         /\ InRows(V_Cont) /\ XS < c /\ c < XS + H_SYNC_ACT => front = <<V_Cont - YS, c - XS>>
         /\ front \in Int \X Int
<1> USE Parameters, PathParameters
<1>1. /\ H_Cont \in 0 .. H_SYNC_TOTAL /\ V_Cont \in 0 .. V_SYNC_TOTAL
      /\ front = Place(H_Cont, V_Cont)
  BY DEF IInv, CountersInv
<1>2. c = (IF H_Cont = 0 THEN H_SYNC_TOTAL + 1 ELSE H_Cont)
  BY DEF Col
<1>3. c \in 1 .. H_SYNC_TOTAL + 1
  BY <1>1, <1>2
<1>4. oRequest <=> InRows(V_Cont) /\ XS <= c /\ c < XS + H_SYNC_ACT
  BY <1>1, <1>2 DEF oRequest, InWindow, XS, YS, InRows
<1>5. oVGA_H_SYNC <=> ~(HF < c /\ c <= HF + H_SYNC_CYC)
  <2>1. /\ H_SYNC_FRONT \in Nat /\ H_MARK1 \in Nat
        /\ HF = H_SYNC_FRONT - H_MARK1
    BY VideoAssumption DEF HF
  <2>2. oVGA_H_SYNC <=> ~(HF < H_Cont /\ H_Cont <= HF + H_SYNC_CYC)
    BY <1>1, <2>1 DEF oVGA_H_SYNC
  <2> QED
    BY <1>1, <1>2, <2>2
<1>6. oVGA_V_SYNC <=> ~(V_Cont > V_SYNC_FRONT /\ V_Cont <= V_SYNC_CYC + V_SYNC_FRONT)
  BY DEF oVGA_V_SYNC
<1>7. InRows(V_Cont) /\ XS < c /\ c < XS + H_SYNC_ACT => front = <<V_Cont - YS, c - XS>>
  BY <1>1, <1>2, <1>3 DEF InRows, Place
<1>8. front \in Int \X Int
  BY PlaceInFrame DEF VgaTypeOK
<1> QED
  BY <1>1, <1>3, <1>4, <1>5, <1>6, <1>7, <1>8

\* A clock moves to the next column, or to the next line.
LEMMA NextColumn ==
  ASSUME IInv, VgaClock, NEW c, c = Col
  PROVE  /\ c <= H_SYNC_TOTAL => Col' = c + 1 /\ V_Cont' = V_Cont
         /\ c = H_SYNC_TOTAL + 1 => /\ Col' = 1
                                    /\ V_Cont' = IF V_Cont < V_SYNC_TOTAL THEN V_Cont + 1 ELSE 0
         /\ iRST_N'
<1> USE Parameters
<1>1. H_Cont \in 0 .. H_SYNC_TOTAL /\ c = (IF H_Cont = 0 THEN H_SYNC_TOTAL + 1 ELSE H_Cont)
  BY DEF IInv, CountersInv, Col
<1>2. /\ H_Cont' = IF H_Cont < H_SYNC_TOTAL THEN H_Cont + 1 ELSE 0
      /\ V_Cont' = IF H_Cont = 0 THEN IF V_Cont < V_SYNC_TOTAL THEN V_Cont + 1 ELSE 0
                   ELSE V_Cont
      /\ iRST_N'
  BY DEF VgaClock, CountUpTo
<1>3. Col' = IF H_Cont' = 0 THEN H_SYNC_TOTAL + 1 ELSE H_Cont'
  BY DEF Col
<1> QED
  BY <1>1, <1>2, <1>3
\* The same as a step from column c of line v to column n of line w.
LEMMA Moves ==
  ASSUME IInv, VgaClock
  PROVE  \E c, n \in 1 .. H_SYNC_TOTAL + 1, v, w \in 0 .. V_SYNC_TOTAL :
           /\ c = Col /\ v = V_Cont /\ n = Col' /\ w = V_Cont'
           /\ c <= H_SYNC_TOTAL => n = c + 1 /\ w = v
           /\ c = H_SYNC_TOTAL + 1 => n = 1 /\ w = IF v < V_SYNC_TOTAL THEN v + 1 ELSE 0
<1> USE Parameters, PathParameters
<1>1. PICK c \in 1 .. H_SYNC_TOTAL + 1 : c = Col
  BY Outputs
<1>2. PICK v \in 0 .. V_SYNC_TOTAL : v = V_Cont
  BY <1>1, Outputs
<1>3. /\ c <= H_SYNC_TOTAL => Col' = c + 1 /\ V_Cont' = v
      /\ c = H_SYNC_TOTAL + 1 => /\ Col' = 1
                                 /\ V_Cont' = IF v < V_SYNC_TOTAL THEN v + 1 ELSE 0
  BY <1>1, <1>2, NextColumn
<1>4. PICK n \in 1 .. H_SYNC_TOTAL + 1, w \in 0 .. V_SYNC_TOTAL :
        /\ n = Col' /\ w = V_Cont'
        /\ c <= H_SYNC_TOTAL => n = c + 1 /\ w = v
        /\ c = H_SYNC_TOTAL + 1 => n = 1 /\ w = IF v < V_SYNC_TOTAL THEN v + 1 ELSE 0
  BY <1>3
<1> QED
  BY <1>1, <1>2, <1>4

\* The counter of the reads keeps up with VGA_Controller: column by column in
\* the window, row by row since the vertical sync cleared it.
LEMMA CountStep ==
  ASSUME PathInv, Clock, iRST_N
  PROVE  ColumnInv' /\ RowInv'
<1> USE Parameters, PathParameters
<1>1. IInv /\ VgaClock /\ ColumnInv /\ RowInv /\ X_Cont \in Nat /\ Y_Cont \in Nat
  BY DEF PathInv, Clock, RunningInv, Types
<1>2. PICK c, n \in 1 .. H_SYNC_TOTAL + 1, v, w \in 0 .. V_SYNC_TOTAL :
        /\ c = Col /\ v = V_Cont /\ n = Col' /\ w = V_Cont'
        /\ c <= H_SYNC_TOTAL => n = c + 1 /\ w = v
        /\ c = H_SYNC_TOTAL + 1 => n = 1 /\ w = IF v < V_SYNC_TOTAL THEN v + 1 ELSE 0
  BY <1>1, Moves
<1>3. /\ oRequest <=> InRows(v) /\ XS <= c /\ c < XS + H_SYNC_ACT
      /\ oVGA_V_SYNC <=> ~(v > V_SYNC_FRONT /\ v <= V_SYNC_CYC + V_SYNC_FRONT)
  BY <1>1, <1>2, Outputs
<1>4. oVGA_V_SYNC' <=> ~(w > V_SYNC_FRONT /\ w <= V_SYNC_CYC + V_SYNC_FRONT)
  BY <1>2 DEF oVGA_V_SYNC
<1>5. /\ rDVAL' <=> IF oVGA_V_SYNC THEN oRequest ELSE rDVAL
      /\ X_Cont' = IF ~oVGA_V_SYNC \/ ~oVGA_V_SYNC' \/ ~rDVAL THEN 0 ELSE X_Cont + 1
      /\ Y_Cont' = IF ~oVGA_V_SYNC \/ ~oVGA_V_SYNC' THEN 0
                   ELSE IF rDVAL /\ ~oRequest THEN Y_Cont + 1 ELSE Y_Cont
  BY DEF Clock, Pixels, RawClock, CountReads, InSync, LineOver
<1>6. /\ rDVAL <=> Shown(c, v)
      /\ Shown(c, v) => X_Cont = c - XS - 1
      /\ v > V_SYNC_FRONT /\ v < YS => Y_Cont = 0
      /\ InRows(v) => Y_Cont = IF c <= XS + H_SYNC_ACT THEN v - YS ELSE v - YS + 1
  BY <1>1, <1>2 DEF ColumnInv, RowInv
<1>7. rDVAL' <=> Shown(n, w)
  BY <1>2, <1>3, <1>5, <1>6 DEF Shown, InRows
<1>8. /\ Shown(n, w) => X_Cont' = n - XS - 1
      /\ ~Shown(n, w) => X_Cont' = 0 \/ X_Cont' = H_SYNC_ACT
  <2>1. CASE ~oVGA_V_SYNC \/ ~oVGA_V_SYNC' \/ ~rDVAL
    <3>1. X_Cont' = 0
      BY <1>5, <2>1
    <3>2. Shown(n, w) => n = XS + 1
      BY <1>2, <1>3, <1>4, <1>6, <2>1 DEF Shown, InRows
    <3> QED
      BY <3>1, <3>2
  <2>2. CASE oVGA_V_SYNC /\ oVGA_V_SYNC' /\ rDVAL
    <3>1. X_Cont' = c - XS /\ InRows(v) /\ XS < c /\ c <= XS + H_SYNC_ACT
      BY <1>1, <1>5, <1>6, <2>2 DEF Shown
    <3>2. c < XS + H_SYNC_ACT => n = c + 1 /\ w = v
      BY <1>2
    <3>3. c = XS + H_SYNC_ACT => ~Shown(n, w)
      BY <1>2 DEF Shown
    <3> QED
      BY <3>1, <3>2, <3>3 DEF Shown
  <2> QED
    BY <2>1, <2>2
<1>9. /\ w > V_SYNC_FRONT /\ w < YS => Y_Cont' = 0
      /\ InRows(w) => Y_Cont' = IF n <= XS + H_SYNC_ACT THEN w - YS ELSE w - YS + 1
  <2>1. CASE ~oVGA_V_SYNC \/ ~oVGA_V_SYNC'
    <3>1. Y_Cont' = 0
      BY <1>5, <2>1
    <3>2. InRows(w) => w = YS /\ n = 1
      BY <1>2, <1>3, <1>4, <2>1 DEF InRows
    <3> QED
      BY <3>1, <3>2
  <2>2. CASE oVGA_V_SYNC /\ oVGA_V_SYNC'
    <3>1. Y_Cont' = IF rDVAL /\ ~oRequest THEN Y_Cont + 1 ELSE Y_Cont
      BY <1>5, <2>2
    <3>2. rDVAL /\ ~oRequest <=> InRows(v) /\ c = XS + H_SYNC_ACT
      BY <1>3, <1>6 DEF Shown
    <3>3. ASSUME w > V_SYNC_FRONT, w < YS
          PROVE  Y_Cont' = 0
      <4>1. v > V_SYNC_FRONT /\ v < YS
        BY <1>2, <1>3, <1>4, <2>2, <3>3
      <4> QED
        BY <1>1, <1>6, <3>1, <3>2, <4>1 DEF InRows
    <3>4. ASSUME InRows(w)
          PROVE  Y_Cont' = IF n <= XS + H_SYNC_ACT THEN w - YS ELSE w - YS + 1
      <4>1. CASE InRows(v)
        <5>1. Y_Cont = IF c <= XS + H_SYNC_ACT THEN v - YS ELSE v - YS + 1
          BY <1>6, <4>1
        <5>2. Y_Cont' = IF c < XS + H_SYNC_ACT THEN v - YS ELSE v - YS + 1
          BY <1>1, <3>1, <3>2, <4>1, <5>1
        <5>3. CASE c <= H_SYNC_TOTAL
          BY <1>2, <5>2, <5>3
        <5>4. CASE c = H_SYNC_TOTAL + 1
          <6>1. n = 1 /\ w = v + 1
            BY <1>2, <3>4, <5>4 DEF InRows
          <6> QED
            BY <5>2, <5>4, <6>1
        <5> QED
          BY <5>3, <5>4
      <4>2. CASE ~InRows(v)
        <5>1. w = YS /\ n = 1 /\ v = YS - 1
          BY <1>2, <3>4, <4>2 DEF InRows
        <5>2. Y_Cont = 0
          BY <1>6, <5>1
        <5> QED
          BY <3>1, <3>2, <4>2, <5>1, <5>2
      <4> QED
        BY <4>1, <4>2
    <3> QED
      BY <3>3, <3>4
  <2> QED
    BY <2>1, <2>2
<1> QED
  BY <1>2, <1>7, <1>8, <1>9 DEF ColumnInv, RowInv

\* The addresses and the pulse are those of the clock before.
LEMMA ReadStep ==
  ASSUME PathInv, Clock, iRST_N
  PROVE  ReadInv' /\ PulseInv'
<1> USE Parameters, PathParameters
<1>1. IInv /\ VgaClock /\ ColumnInv /\ X_Cont \in Nat
  BY DEF PathInv, Clock, RunningInv, Types
<1>2. PICK c, n \in 1 .. H_SYNC_TOTAL + 1, v, w \in 0 .. V_SYNC_TOTAL :
        /\ c = Col /\ v = V_Cont /\ n = Col' /\ w = V_Cont'
        /\ c <= H_SYNC_TOTAL => n = c + 1 /\ w = v
        /\ c = H_SYNC_TOTAL + 1 => n = 1
  BY <1>1, Moves
<1>3. oVGA_H_SYNC <=> ~(HF < c /\ c <= HF + H_SYNC_CYC)
  BY <1>1, <1>2, Outputs
<1>4. /\ READ_addr' = X_Cont /\ (pre_CCD_LVAL' <=> oVGA_H_SYNC)
      /\ RD_EN' <=> X_Cont > D8M_VAL_LINE_MIN /\ X_Cont < D8M_VAL_LINE_MAX
  BY DEF Clock, Pixels, RawClock, BufferLines, MixColours, ReadEnabled
<1>5. /\ Shown(c, v) => X_Cont = c - XS - 1
      /\ ~Shown(c, v) => X_Cont = 0 \/ X_Cont = H_SYNC_ACT
  BY <1>1, <1>2 DEF ColumnInv
<1>6. PICK x \in Nat : x = X_Cont'
  BY <1>1 DEF Clock, Pixels, RawClock, CountReads
<1>7. Shown(n, w) => x = n - XS - 1
  BY <1>2, <1>6, CountStep DEF ColumnInv
<1>8. Shown(n, w) /\ x >= 1 => READ_addr' = x - 1
  <2> SUFFICES ASSUME Shown(n, w), x >= 1 PROVE READ_addr' = x - 1
    OBVIOUS
  <2>1. x = n - XS - 1 /\ n >= XS + 2
    BY <1>7
  <2>2. n = c + 1 /\ w = v
    BY <1>2, <2>1
  <2>3. Shown(c, v)
    BY <2>1, <2>2 DEF Shown
  <2> QED
    BY <1>4, <1>5, <2>1, <2>2, <2>3
<1>9. RD_EN' => /\ Shown(n, w)
                /\ x > D8M_VAL_LINE_MIN + 1 /\ x <= D8M_VAL_LINE_MAX
  <2> SUFFICES ASSUME X_Cont > D8M_VAL_LINE_MIN, X_Cont < D8M_VAL_LINE_MAX
               PROVE  /\ Shown(n, w)
                      /\ x > D8M_VAL_LINE_MIN + 1 /\ x <= D8M_VAL_LINE_MAX
    BY <1>4
  <2>1. Shown(c, v) /\ X_Cont = c - XS - 1
    BY <1>1, <1>5
  <2>2. c < XS + H_SYNC_ACT /\ n = c + 1 /\ w = v
    BY <1>2, <2>1
  <2>3. Shown(n, w)
    BY <2>1, <2>2 DEF Shown
  <2> QED
    BY <1>7, <2>1, <2>2, <2>3
<1>10. n <= H_SYNC_TOTAL => (pre_CCD_LVAL' <=> ~(HF + 1 < n /\ n <= HF + H_SYNC_CYC + 1))
  BY <1>2, <1>3, <1>4
<1> QED
  BY <1>2, <1>6, <1>8, <1>9, <1>10 DEF ReadInv, PulseInv

\* What a clock writes: in the window, the pixel the FIFO shows; at every
\* other clock, no column that becomes a colour.
LEMMA WriteOne ==
  ASSUME PathInv, Clock, iRST_N, NEW c, c = Col,
         NEW b \in 0 .. 2, NEW x \in Valid
  PROVE  /\ line'[b][x] = line[b][x]
            \/ (b = WR /\ InRows(V_Cont) /\ x = c - XS - 1)
         /\ b = WR /\ InRows(V_Cont) /\ x = c - XS - 1 =>
              line'[b][x] = <<V_Cont - YS, x + 1>>
<1> USE Parameters, PathParameters
<1>1. /\ IInv /\ VgaClock /\ ColumnInv /\ X_Cont \in Nat /\ WR \in 0 .. 2
      /\ line \in [0 .. 2 -> [Columns -> Int \X Int]]
  BY DEF PathInv, Clock, RunningInv, Types
<1>2. x \in Columns /\ x \in Nat /\ x >= 1 /\ x + 2 < H_SYNC_ACT
  BY DEF Valid
<1>3. /\ c \in 1 .. H_SYNC_TOTAL + 1 /\ V_Cont \in 0 .. V_SYNC_TOTAL
      /\ oVGA_H_SYNC <=> ~(HF < c /\ c <= HF + H_SYNC_CYC)
      /\ InRows(V_Cont) /\ XS < c /\ c < XS + H_SYNC_ACT => front = <<V_Cont - YS, c - XS>>
  BY <1>1, Outputs
<1>4. line' = IF oVGA_H_SYNC /\ X_Cont \in Columns
              THEN [line EXCEPT ![WR][X_Cont] = front] ELSE line
  BY DEF Clock, Pixels, RawClock, BufferLines, SDRAM_RD_DATA
<1>5. /\ Shown(c, V_Cont) => X_Cont = c - XS - 1
      /\ ~Shown(c, V_Cont) => X_Cont = 0 \/ X_Cont = H_SYNC_ACT
  BY <1>1 DEF ColumnInv
<1>6. line'[b][x] = line[b][x] \/ (b = WR /\ x = X_Cont)
  BY <1>1, <1>2, <1>4
<1>7. x = X_Cont => InRows(V_Cont) /\ x = c - XS - 1
  BY <1>2, <1>3, <1>5 DEF Shown
<1>8. ASSUME b = WR, InRows(V_Cont), x = c - XS - 1
      PROVE  line'[b][x] = <<V_Cont - YS, x + 1>>
  <2>1. XS < c /\ c < XS + H_SYNC_ACT
    BY <1>2, <1>3, <1>8
  <2>2. x = X_Cont /\ oVGA_H_SYNC /\ front = <<V_Cont - YS, c - XS>>
    BY <1>3, <1>5, <1>8, <2>1 DEF Shown
  <2>3. line'[b][x] = front
    BY <1>1, <1>2, <1>4, <1>8, <2>2
  <2> QED
    BY <1>2, <1>3, <1>8, <2>2, <2>3
<1> QED
  BY <1>6, <1>7, <1>8

\* Before its window each line turns the buffers; in its window it fills the
\* one that is written and leaves the two lines before it alone.
LEMMA LineStep ==
  ASSUME PathInv, Clock, iRST_N
  PROVE  LineInv'
<1> USE Parameters, PathParameters
<1>1. /\ IInv /\ VgaClock /\ LineInv /\ PulseInv /\ WR \in 0 .. 2
      /\ line \in [0 .. 2 -> [Columns -> Int \X Int]]
  BY DEF PathInv, Clock, RunningInv, Types
<1>2. PICK c, n \in 1 .. H_SYNC_TOTAL + 1, v, w \in 0 .. V_SYNC_TOTAL :
        /\ c = Col /\ v = V_Cont /\ n = Col' /\ w = V_Cont'
        /\ c <= H_SYNC_TOTAL => n = c + 1 /\ w = v
        /\ c = H_SYNC_TOTAL + 1 => n = 1 /\ w = IF v < V_SYNC_TOTAL THEN v + 1 ELSE 0
  BY <1>1, Moves
<1>3. /\ oVGA_H_SYNC <=> ~(HF < c /\ c <= HF + H_SYNC_CYC)
      /\ oVGA_V_SYNC <=> ~(v > V_SYNC_FRONT /\ v <= V_SYNC_CYC + V_SYNC_FRONT)
      /\ oVGA_V_SYNC' <=> ~(w > V_SYNC_FRONT /\ w <= V_SYNC_CYC + V_SYNC_FRONT)
  <2>1. oVGA_V_SYNC' <=> ~(w > V_SYNC_FRONT /\ w <= V_SYNC_CYC + V_SYNC_FRONT)
    BY <1>2 DEF oVGA_V_SYNC
  <2> QED
    BY <1>1, <1>2, <2>1, Outputs
<1> SUFFICES ASSUME InRows(w), InRows(v) PROVE LineInv'
  <2>1. CASE ~InRows(w)
    BY <1>2, <2>1 DEF LineInv
  <2>2. CASE InRows(w) /\ ~InRows(v)
    <3>1. w = YS /\ n = 1
      BY <1>2, <2>2 DEF InRows
    <3> QED
      BY <1>2, <3>1 DEF LineInv
  <2> QED
    BY <2>1, <2>2
<1>4. PICK a \in 0 .. 2 : a = WR
  BY <1>1
<1>5. WR' = IF c = HF + 1 THEN Turn(a) ELSE a
  <2>1. WR' = IF pre_CCD_LVAL /\ ~oVGA_H_SYNC THEN Turn(WR) ELSE WR
    <3>1. oVGA_V_SYNC /\ oVGA_V_SYNC'
      BY <1>2, <1>3 DEF InRows
    <3> QED
      BY <3>1 DEF Clock, Pixels, RawClock, BufferLines, InSync
  <2>2. c <= H_SYNC_TOTAL =>
          (pre_CCD_LVAL <=> ~(HF + 1 < c /\ c <= HF + H_SYNC_CYC + 1))
    BY <1>1, <1>2 DEF PulseInv
  <2>3. pre_CCD_LVAL /\ ~oVGA_H_SYNC <=> c = HF + 1
    BY <1>2, <1>3, <2>2
  <2> QED
    BY <1>4, <2>1, <2>3
<1>6. PICK d \in 0 .. 2 : d = WR' /\ d = IF c = HF + 1 THEN Turn(a) ELSE a
  BY <1>4, <1>5 DEF Turn
<1>7. \A b \in 0 .. 2 : \A x \in Valid :
        /\ line'[b][x] = line[b][x] \/ (b = a /\ x = c - XS - 1)
        /\ b = a /\ x = c - XS - 1 => line'[b][x] = <<v - YS, x + 1>>
  BY <1>2, <1>4, WriteOne
<1>8. /\ c <= HF + 1 =>
           /\ v >= YS + 1 => Full(a, v - YS - 1)
           /\ v >= YS + 2 => Full((a + 2) % 3, v - YS - 2)
      /\ c > HF + 1 =>
           /\ Written(a, v - YS, c - XS - 2)
           /\ v >= YS + 1 => Full((a + 2) % 3, v - YS - 1)
           /\ v >= YS + 2 => Full((a + 1) % 3, v - YS - 2)
  BY <1>1, <1>2, <1>4 DEF LineInv
<1>9. /\ (a + 1) % 3 \in 0 .. 2 /\ (a + 2) % 3 \in 0 .. 2
      /\ (a + 1) % 3 # a /\ (a + 2) % 3 # a
      /\ (Turn(a) + 2) % 3 = a /\ (Turn(a) + 1) % 3 = (a + 2) % 3
  BY Z3 DEF Turn
<1>10. \A x \in Valid : x \in Nat /\ x >= 1 /\ x + 2 < H_SYNC_ACT
  BY DEF Valid
<1> DEFINE FullNext(b, r) == \A x \in Valid : line'[b][x] = <<r, x + 1>>
\* Only the buffer that is written changes, and that in the window only.
<1>11. ASSUME NEW b \in 0 .. 2, NEW r, Full(b, r), b # a \/ c <= XS
       PROVE  FullNext(b, r)
  <2>1. \A x \in Valid : line'[b][x] = line[b][x]
    BY <1>2, <1>7, <1>10, <1>11
  <2> QED
    BY <1>11, <2>1 DEF Full
<1>12. CASE c <= HF
  <2>1. n = c + 1 /\ w = v /\ d = a
    BY <1>2, <1>6, <1>12
  <2>2. /\ w >= YS + 1 => FullNext(d, w - YS - 1)
        /\ w >= YS + 2 => FullNext((d + 2) % 3, w - YS - 2)
    BY <1>8, <1>9, <1>11, <1>12, <2>1
  <2> QED
    BY <1>2, <1>6, <1>12, <2>1, <2>2 DEF LineInv, Full
<1>13. CASE c = HF + 1
  <2>1. n = HF + 2 /\ w = v /\ d = Turn(a)
    BY <1>2, <1>6, <1>13
  <2>2. /\ w >= YS + 1 => FullNext((d + 2) % 3, w - YS - 1)
        /\ w >= YS + 2 => FullNext((d + 1) % 3, w - YS - 2)
    BY <1>8, <1>9, <1>11, <1>13, <2>1
  <2>3. \A x \in Valid : ~(x <= n - XS - 2)
    BY <1>10, <2>1
  <2> QED
    BY <1>2, <1>6, <1>13, <2>1, <2>2, <2>3 DEF LineInv, Full, Written
<1>14. CASE c > HF + 1 /\ c <= H_SYNC_TOTAL
  <2>1. n = c + 1 /\ w = v /\ d = a
    BY <1>2, <1>6, <1>14
  <2>2. /\ w >= YS + 1 => FullNext((d + 2) % 3, w - YS - 1)
        /\ w >= YS + 2 => FullNext((d + 1) % 3, w - YS - 2)
    BY <1>8, <1>9, <1>11, <1>14, <2>1
  <2>3. \A x \in Valid : x <= n - XS - 2 => line'[d][x] = <<w - YS, x + 1>>
    <3>1. \A x \in Valid : x <= c - XS - 2 => line[a][x] = <<v - YS, x + 1>>
      BY <1>8, <1>14 DEF Written
    <3>2. \A x \in Valid : x <= n - XS - 2 => x <= c - XS - 2 \/ x = c - XS - 1
      BY <1>10, <2>1
    <3> QED
      BY <1>7, <2>1, <3>1, <3>2
  <2> QED
    BY <1>2, <1>6, <1>14, <2>1, <2>2, <2>3 DEF LineInv, Full, Written
<1>15. CASE c = H_SYNC_TOTAL + 1
  <2>1. n = 1 /\ w = v + 1 /\ d = a
    <3>1. w = v + 1
      BY <1>2, <1>15 DEF InRows
    <3> QED
      BY <1>2, <1>6, <1>15, <3>1
  <2>2. FullNext(d, w - YS - 1)
    <3>1. \A x \in Valid : x <= c - XS - 2 /\ x # c - XS - 1
      BY <1>10, <1>15
    <3>2. \A x \in Valid : line[a][x] = <<v - YS, x + 1>>
      BY <1>8, <1>15, <3>1 DEF Written
    <3>3. v - YS = w - YS - 1
      BY <2>1
    <3> QED
      BY <1>7, <2>1, <3>1, <3>2, <3>3
  <2>3. w >= YS + 2 => FullNext((d + 2) % 3, w - YS - 2)
    <3>1. w >= YS + 2 => v >= YS + 1 /\ w - YS - 2 = v - YS - 1
      BY <2>1
    <3> QED
      BY <1>8, <1>9, <1>11, <1>15, <2>1, <3>1
  <2> QED
    BY <1>2, <1>6, <2>1, <2>2, <2>3 DEF LineInv, Full
<1> QED
  BY <1>2, <1>12, <1>13, <1>14, <1>15

\* What the taps show while a pixel becomes a colour.
LEMMA TapsShow == PathInv => TapsAbove
<1> USE Parameters, PathParameters
<1> SUFFICES ASSUME PathInv, iRST_N, RD_EN, ReadEnabled, Y_Cont >= 2
             PROVE  /\ taps0x(oRequest) = <<Y_Cont - 2, X_Cont>>
                    /\ taps1x(oRequest) = <<Y_Cont - 1, X_Cont>>
  BY DEF TapsAbove
<1>1. /\ IInv /\ ColumnInv /\ RowInv /\ ReadInv /\ LineInv
      /\ X_Cont \in Nat /\ Y_Cont \in Nat /\ WR \in 0 .. 2
  BY DEF PathInv, RunningInv, Types
<1>2. PICK c \in 1 .. H_SYNC_TOTAL + 1 : c = Col
  BY <1>1, Outputs
<1>3. /\ V_Cont \in 0 .. V_SYNC_TOTAL
      /\ oRequest <=> InRows(V_Cont) /\ XS <= c /\ c < XS + H_SYNC_ACT
  BY <1>1, <1>2, Outputs
<1>4. /\ Shown(c, V_Cont) /\ X_Cont = c - XS - 1 /\ READ_addr = X_Cont - 1
      /\ X_Cont > D8M_VAL_LINE_MIN + 1 /\ X_Cont < D8M_VAL_LINE_MAX
  BY <1>1, <1>2 DEF ColumnInv, ReadInv, ReadEnabled
<1>5. oRequest /\ InRows(V_Cont) /\ c > HF + 1
  BY <1>3, <1>4 DEF Shown
<1>6. V_Cont - YS = Y_Cont /\ V_Cont >= YS + 2
  BY <1>1, <1>2, <1>3, <1>4, <1>5 DEF RowInv, Shown
<1>7. READ_addr \in Valid /\ READ_addr \in Columns /\ READ_addr + 1 = X_Cont
  BY <1>1, <1>4 DEF Valid
<1>8. Full((WR + 2) % 3, V_Cont - YS - 1) /\ Full((WR + 1) % 3, V_Cont - YS - 2)
  BY <1>1, <1>2, <1>3, <1>5, <1>6 DEF LineInv
<1>9. /\ line[(WR + 1) % 3][READ_addr] = <<Y_Cont - 2, X_Cont>>
      /\ line[(WR + 2) % 3][READ_addr] = <<Y_Cont - 1, X_Cont>>
  BY <1>6, <1>7, <1>8 DEF Full
<1> QED
  BY <1>5, <1>7, <1>9 DEF taps0x, taps1x, Tap

\* A pair of pixels, the pair to its left, and what RAW_RGB_BIN makes of them.
LEMMA BinOfBlock ==
  ASSUME NEW y \in Nat, y >= 2, NEW x \in Nat,
         \/ rD0 = None /\ rD1 = None
         \/ rD0 = <<y - 2, x - 1>> /\ rD1 = <<y - 1, x - 1>>,
         NEW m, m = Bin(<<y - 2, x>>, <<y - 1, x>>, y % 2, x % 2)
  PROVE  /\ m.r # None /\ m.b # None =>
              {m.r, m.b} \cup m.g = {y - 2, y - 1} \X {x - 1, x}
         /\ m.r # None => m.r[1] % 2 = 1 /\ m.r[2] % 2 = 0
         /\ m.b # None => m.b[1] % 2 = 0 /\ m.b[2] % 2 = 1
<1> DEFINE D0 == <<y - 2, x>>
           D1 == <<y - 1, x>>
<1>1. /\ y % 2 \in {0, 1} /\ x % 2 \in {0, 1}
      /\ (y - 2) % 2 = y % 2 /\ (y - 1) % 2 = 1 - (y % 2) /\ (x - 1) % 2 = 1 - (x % 2)
  BY Z3
<1>2. {y - 2, y - 1} \X {x - 1, x} = {<<y - 2, x - 1>>, <<y - 2, x>>, <<y - 1, x - 1>>, D1}
  OBVIOUS
<1>3. CASE y % 2 = 1 /\ x % 2 = 0
  <2>1. m = [r |-> D0, g |-> {rD0, D1}, b |-> rD1]
    BY <1>3 DEF Bin
  <2> QED
    BY <1>1, <1>2, <1>3, <2>1 DEF None
<1>4. CASE y % 2 = 1 /\ x % 2 = 1
  <2>1. m = [r |-> rD0, g |-> {rD1, D0}, b |-> D1]
    BY <1>4 DEF Bin
  <2> QED
    BY <1>1, <1>2, <1>4, <2>1 DEF None
<1>5. CASE y % 2 = 0 /\ x % 2 = 0
  <2>1. m = [r |-> D1, g |-> {rD1, D0}, b |-> rD0]
    BY <1>5 DEF Bin
  <2> QED
    BY <1>1, <1>2, <1>5, <2>1 DEF None
<1>6. CASE y % 2 = 0 /\ x % 2 = 1
  <2>1. m = [r |-> rD1, g |-> {rD0, D1}, b |-> D0]
    BY <1>6 DEF Bin
  <2> QED
    BY <1>1, <1>2, <1>6, <2>1 DEF None
<1> QED
  BY <1>1, <1>3, <1>4, <1>5, <1>6

\* RAW_RGB_BIN is cleared, or mixes the block under the taps with the pair it
\* registered in the clock before.
LEMMA BinStep ==
  ASSUME PathInv, Clock, iRST_N
  PROVE  PairInv' /\ ColoursOfOneBlock' /\ ColoursFromTheirSites'
<1> USE Parameters, PathParameters
<1>1. /\ IInv /\ VgaClock /\ ColumnInv /\ ReadInv /\ PairInv
      /\ X_Cont \in Nat /\ Y_Cont \in Nat
  BY DEF PathInv, Clock, RunningInv, Types
<1> DEFINE D0 == taps0x(oRequest)
           D1 == taps1x(oRequest)
           mix == Bin(D0, D1, Y_Cont % 2, X_Cont % 2)
<1>2. CASE ~(RD_EN /\ ReadEnabled)
  <2>1. rD0' = None /\ rD1' = None /\ R' = None /\ B' = None
    BY <1>2 DEF Clock, Pixels, RawClock, MixColours
  <2> QED
    BY <2>1 DEF PairInv, ColoursOfOneBlock, ColoursFromTheirSites
<1>3. CASE RD_EN /\ ReadEnabled
  <2>1. rD0' = D0 /\ rD1' = D1 /\ R' = mix.r /\ G' = mix.g /\ B' = mix.b
    BY <1>3 DEF Clock, Pixels, RawClock, MixColours
  <2>2. X_Cont' = X_Cont + 1 /\ Y_Cont' = Y_Cont
    <3>1. PICK c, n \in 1 .. H_SYNC_TOTAL + 1, v, w \in 0 .. V_SYNC_TOTAL :
            /\ c = Col /\ v = V_Cont /\ n = Col' /\ w = V_Cont'
            /\ c <= H_SYNC_TOTAL => n = c + 1 /\ w = v
            /\ c = H_SYNC_TOTAL + 1 => n = 1
      BY <1>1, Moves
    <3>2. /\ oRequest <=> InRows(v) /\ XS <= c /\ c < XS + H_SYNC_ACT
          /\ oVGA_V_SYNC <=> ~(v > V_SYNC_FRONT /\ v <= V_SYNC_CYC + V_SYNC_FRONT)
      BY <1>1, <3>1, Outputs
    <3>3. oVGA_V_SYNC' <=> ~(w > V_SYNC_FRONT /\ w <= V_SYNC_CYC + V_SYNC_FRONT)
      BY <3>1 DEF oVGA_V_SYNC
    <3>4. rDVAL /\ Shown(c, v) /\ X_Cont = c - XS - 1 /\ X_Cont < D8M_VAL_LINE_MAX
      BY <1>1, <1>3, <3>1 DEF ColumnInv, ReadInv, ReadEnabled
    <3>5. oRequest /\ oVGA_V_SYNC /\ oVGA_V_SYNC'
      BY <3>1, <3>2, <3>3, <3>4 DEF Shown, InRows
    <3> QED
      BY <3>4, <3>5 DEF Clock, Pixels, RawClock, CountReads, InSync, LineOver
  <2>3. ASSUME Y_Cont >= 2
        PROVE  /\ D0 = <<Y_Cont - 2, X_Cont>> /\ D1 = <<Y_Cont - 1, X_Cont>>
               /\ mix.r # None /\ mix.b # None =>
                    {mix.r, mix.b} \cup mix.g =
                      {Y_Cont - 2, Y_Cont - 1} \X {X_Cont - 1, X_Cont}
               /\ mix.r # None => mix.r[1] % 2 = 1 /\ mix.r[2] % 2 = 0
               /\ mix.b # None => mix.b[1] % 2 = 0 /\ mix.b[2] % 2 = 1
    <3>1. D0 = <<Y_Cont - 2, X_Cont>> /\ D1 = <<Y_Cont - 1, X_Cont>>
      BY <1>3, <2>3, TapsShow DEF TapsAbove
    <3>2. \/ rD0 = None /\ rD1 = None
          \/ rD0 = <<Y_Cont - 2, X_Cont - 1>> /\ rD1 = <<Y_Cont - 1, X_Cont - 1>>
      BY <1>1, <2>3 DEF PairInv
    <3>3. mix = Bin(<<Y_Cont - 2, X_Cont>>, <<Y_Cont - 1, X_Cont>>, Y_Cont % 2, X_Cont % 2)
      BY <3>1
    <3>4. Y_Cont \in Nat /\ X_Cont \in Nat
      BY <1>1
    <3> HIDE DEF D0, D1, mix
    <3> QED
      BY <2>3, <3>1, <3>2, <3>3, <3>4, BinOfBlock
  <2> HIDE DEF D0, D1, mix
  <2>4. PICK x \in Nat, y \in Nat : x = X_Cont /\ y = Y_Cont
    BY <1>1
  <2>5. X_Cont' = x + 1 /\ Y_Cont' = y /\ (x + 1) - 1 = x /\ (x + 1) - 2 = x - 1
    BY <2>2, <2>4
  <2>6. PairInv'
    BY <2>1, <2>3, <2>4, <2>5 DEF PairInv
  <2>7. ColoursOfOneBlock'
    BY <2>1, <2>3, <2>4, <2>5 DEF ColoursOfOneBlock
  <2>8. ColoursFromTheirSites'
    BY <2>1, <2>3, <2>4, <2>5 DEF ColoursFromTheirSites
  <2> QED
    BY <2>6, <2>7, <2>8
<1> QED
  BY <1>2, <1>3

\* What holds at every clock, whether the relay holds the display or not.
LEMMA TypesStep ==
  ASSUME PathInv, Pixels, ~iRST_N' => H_Cont' = 0 /\ V_Cont' = 0
  PROVE  Types' /\ Quiet'
<1>1. /\ IInv /\ WR \in 0 .. 2 /\ X_Cont \in Nat /\ Y_Cont \in Nat
      /\ line \in [0 .. 2 -> [Columns -> Int \X Int]]
  BY DEF PathInv, Types
<1>2. SDRAM_RD_DATA \in Int \X Int
  BY <1>1, Outputs DEF SDRAM_RD_DATA, None
<1>3. WR' \in 0 .. 2
  BY <1>1 DEF Pixels, RawClock, BufferLines, Turn
<1>4. X_Cont' \in Nat /\ Y_Cont' \in Nat
  BY <1>1 DEF Pixels, RawClock, CountReads
<1>5. line' \in [0 .. 2 -> [Columns -> Int \X Int]]
  <2>1. \/ line' = line
        \/ X_Cont \in Columns /\ line' = [line EXCEPT ![WR][X_Cont] = SDRAM_RD_DATA]
    BY DEF Pixels, RawClock, BufferLines
  <2> DEFINE P == Int \X Int
             row == [line[WR] EXCEPT ![X_Cont] = SDRAM_RD_DATA]
  <2>2. SDRAM_RD_DATA \in P /\ line \in [0 .. 2 -> [Columns -> P]]
    BY <1>1, <1>2
  <2>3. line' = line \/ line' = [line EXCEPT ![WR] = row]
    BY <1>1, <2>1
  <2> HIDE DEF P
  <2>4. row \in [Columns -> P]
    BY <1>1, <2>2
  <2> HIDE DEF row
  <2>5. line' \in [0 .. 2 -> [Columns -> P]]
    BY <1>1, <2>2, <2>3, <2>4
  <2> QED
    BY <2>5 DEF P
<1>6. ~RD_EN' => /\ rD0' = None /\ rD1' = None /\ R' = None /\ G' = {None} /\ B' = None
  BY DEF Pixels, RawClock, MixColours
<1> QED
  BY <1>3, <1>4, <1>5, <1>6 DEF Types, Quiet

\* The invariant is inductive.
LEMMA PathInductive == PathInv /\ [Next]_vars => PathInv'
<1> USE Parameters, PathParameters
<1> SUFFICES ASSUME PathInv, [Next]_vars PROVE PathInv'
  OBVIOUS
<1>1. IInv /\ Types /\ Quiet
  BY DEF PathInv
<1>2. CASE Clock
  <2>1. VgaClock /\ Pixels /\ iRST_N
    BY <1>2 DEF Clock, VgaClock
  <2>2. IInv'
    BY <1>1, <2>1, ClockStep
  <2>3. iRST_N'
    BY <2>1 DEF VgaClock
  <2>4. Types' /\ Quiet'
    BY <2>1, <2>2, <2>3, TypesStep DEF IInv, CountersInv
  <2>5. RunningInv'
    BY <1>2, <2>1, CountStep, ReadStep, LineStep, BinStep DEF RunningInv
  <2> QED
    BY <2>2, <2>4, <2>5 DEF PathInv
<1>3. CASE HeldClock
  <2>1. ~iRST_N /\ UNCHANGED vgaVars /\ Pixels
    BY <1>3 DEF HeldClock
  <2>2. ~iRST_N' /\ H_Cont' = 0 /\ V_Cont' = 0
    BY <1>1, <2>1 DEF vgaVars, Quiet
  <2>3. IInv'
    BY <1>1, <2>1, Inductive
  <2>4. Types' /\ Quiet'
    BY <2>1, <2>2, TypesStep
  <2> QED
    BY <2>2, <2>3, <2>4 DEF PathInv
<1>4. CASE Press
  <2>1. PressKey /\ UNCHANGED rawVars
    BY <1>4 DEF Press
  <2>2. ~iRST_N' /\ H_Cont' = 0 /\ V_Cont' = 0
    BY <2>1 DEF PressKey
  <2>3. IInv'
    BY <1>1, <2>1, Inductive DEF VgaNext
  <2>4. Types' /\ Quiet'
    BY <1>1, <2>1, <2>2 DEF rawVars, counterVars, bufferVars, binVars, Types, Quiet
  <2> QED
    BY <2>2, <2>3, <2>4 DEF PathInv
<1>5. CASE Release
  \* The display starts at a column after every window, in a line before it.
  <2>1. /\ RelayRelease /\ UNCHANGED rawVars /\ ~iRST_N
        /\ ~rDVAL /\ X_Cont = 0 /\ ~RD_EN
    BY <1>5 DEF Release, RelayRelease
  <2>2. H_Cont' = 0 /\ V_Cont' = 0 /\ iRST_N'
    BY <1>1, <2>1 DEF RelayRelease, Quiet
  <2>3. IInv'
    BY <1>1, <2>1, Inductive DEF VgaNext
  <2>4. /\ ~rDVAL' /\ X_Cont' = 0 /\ ~RD_EN' /\ rD0' = None /\ rD1' = None
        /\ R' = None /\ G' = {None} /\ B' = None
    BY <1>1, <2>1 DEF rawVars, counterVars, binVars, Quiet
  <2>5. Types' /\ Quiet'
    BY <1>1, <2>1, <2>2, <2>4 DEF rawVars, counterVars, bufferVars, Types, Quiet
  <2>6. Col' = H_SYNC_TOTAL + 1 /\ ~InRows(V_Cont')
    BY <2>2 DEF Col, InRows
  <2>7. ~Shown(Col', V_Cont')
    BY <2>6 DEF Shown
  <2>8. ColumnInv' /\ RowInv' /\ ReadInv' /\ PulseInv' /\ LineInv'
    BY <2>2, <2>4, <2>6, <2>7 DEF ColumnInv, RowInv, ReadInv, PulseInv, LineInv
  <2>9. PairInv' /\ ColoursOfOneBlock' /\ ColoursFromTheirSites'
    BY <2>4 DEF PairInv, ColoursOfOneBlock, ColoursFromTheirSites
  <2> QED
    BY <2>3, <2>5, <2>8, <2>9 DEF PathInv, RunningInv
<1>6. CASE UNCHANGED vars
  <2>1. UNCHANGED vgaVars /\ UNCHANGED rawVars
    BY <1>6 DEF vars
  <2> QED
    BY <2>1 DEF vgaVars, rawVars, counterVars, bufferVars, binVars, PathInv, IInv,
         CountersInv, Place, Types, Quiet, RunningInv, ColumnInv, RowInv, ReadInv,
         PulseInv, LineInv, PairInv, ColoursOfOneBlock, ColoursFromTheirSites, Col,
         Written, Full
<1> QED
  BY <1>2, <1>3, <1>4, <1>5, <1>6 DEF Next

LEMMA PathInitially == Init => PathInv
<1> SUFFICES ASSUME Init PROVE PathInv
  OBVIOUS
<1>1. IInv
  BY Initially DEF Init
<1>2. Types
  BY DEF Init, RawInit, Types, None
<1>3. Quiet /\ ~iRST_N
  BY DEF Init, RawInit, VgaInit, Quiet
<1> QED
  BY <1>1, <1>2, <1>3 DEF PathInv

\* In the window RAW2RGB_J and VGA_Controller are at the same pixel.
LEMMA CountersMeet == PathInv => CountersAgree
<1> USE Parameters, PathParameters
<1> SUFFICES ASSUME PathInv, oRequest
             PROVE  Y_Cont = front[1] /\ (RD_EN => X_Cont = front[2] - 1)
  BY DEF CountersAgree
<1>1. IInv /\ Quiet
  BY DEF PathInv
<1>2. PICK c \in 1 .. H_SYNC_TOTAL + 1 : c = Col
  BY <1>1, Outputs
<1>3. /\ V_Cont \in 0 .. V_SYNC_TOTAL
      /\ InRows(V_Cont) /\ XS <= c /\ c < XS + H_SYNC_ACT
  BY <1>1, <1>2, Outputs
<1>4. iRST_N
  BY <1>1, <1>3 DEF Quiet, InRows
<1>5. ColumnInv /\ RowInv /\ ReadInv
  BY <1>4 DEF PathInv, RunningInv
<1>6. front = <<V_Cont - YS, c - XS>>
  BY <1>1, <1>2, <1>3 DEF IInv, CountersInv, Col, Place, InRows
<1>7. Y_Cont = V_Cont - YS
  BY <1>2, <1>3, <1>5 DEF RowInv
<1>8. RD_EN => X_Cont = c - XS - 1
  BY <1>2, <1>5 DEF ColumnInv, ReadInv
<1> QED
  BY <1>2, <1>3, <1>6, <1>7, <1>8

\* On every screen, every colour is made of the right sites of the right block
\* of the right two lines, at the place the display is at, from the first
\* picture after a press of KEY[0] on.
THEOREM ColoursStayRight == Spec => []ColoursRight
<1>1. PathInv => ColoursRight
  BY TapsShow, CountersMeet
     DEF ColoursRight, PathInv, RunningInv, ColoursOfOneBlock, ColoursFromTheirSites
<1> QED
  BY <1>1, PathInitially, PathInductive, PTL DEF Spec

=============================================================================
