--------------------------- MODULE VgaController ----------------------------
(***************************************************************************)
(* VGA_Controller/VGA_Controller.v with the parameters of VGA_Param.h: the *)
(* two counters that pace the display, the sync pulses, and the request    *)
(* window in which a pixel is taken from the SDRAM controller's read FIFO. *)
(*                                                                         *)
(* Nothing tells the frame store where a frame begins: it delivers the     *)
(* stored pixels one after the other for ever, and the picture stands      *)
(* still only because every frame requests exactly as many as there are.   *)
(***************************************************************************)
EXTENDS Integers

CONSTANTS H_SYNC_CYC, H_SYNC_BACK, H_SYNC_ACT, H_SYNC_FRONT, H_SYNC_TOTAL,
          V_SYNC_CYC, V_SYNC_BACK, V_SYNC_ACT, V_SYNC_FRONT, V_SYNC_TOTAL,
          H_MARK, H_MARK1, V_MARK

X_START == H_SYNC_CYC + H_SYNC_BACK
Y_START == V_SYNC_CYC + V_SYNC_BACK

\* The request window lies inside the frame: its last column is at most the
\* counter's last value, H_SYNC_TOTAL itself, which the board's values reach.
ASSUME VideoAssumption ==
  /\ {H_SYNC_CYC, H_SYNC_BACK, H_SYNC_ACT, H_SYNC_FRONT, H_SYNC_TOTAL,
      V_SYNC_CYC, V_SYNC_BACK, V_SYNC_ACT, V_SYNC_FRONT, V_SYNC_TOTAL,
      H_MARK, H_MARK1, V_MARK} \subseteq Nat
  /\ H_SYNC_ACT > 0 /\ V_SYNC_ACT > 0
  /\ X_START + H_MARK > 0 /\ X_START + H_MARK + H_SYNC_ACT <= H_SYNC_TOTAL + 1
  /\ Y_START + V_MARK > 0 /\ Y_START + V_MARK + V_SYNC_ACT <= V_SYNC_TOTAL + 1

VARIABLES H_Cont, V_Cont,   \* the counters
          iRST_N,           \* DLY_RST_2 of the reset relay
          front             \* row and column of the word the read FIFO shows

vgaVars == <<H_Cont, V_Cont, iRST_N, front>>

oVGA_H_SYNC == ~(/\ H_Cont > H_SYNC_FRONT - H_MARK1
                 /\ H_Cont <= H_SYNC_CYC + H_SYNC_FRONT - H_MARK1)
oVGA_V_SYNC == ~(V_Cont > V_SYNC_FRONT /\ V_Cont <= V_SYNC_CYC + V_SYNC_FRONT)

\* The window in which a pixel is requested at every clock.
InWindow(c, start, active) == c >= start /\ c < start + active
oRequest == /\ InWindow(H_Cont, X_START + H_MARK, H_SYNC_ACT)
            /\ InWindow(V_Cont, Y_START + V_MARK, V_SYNC_ACT)

\* As the counters would run if a line took H_SYNC_TOTAL clocks.
CountUpTo_Exclusive(c, total) == IF c < total - 1 THEN c + 1 ELSE 0
CountUpTo_Forever(c, total) == IF c <= total THEN c + 1 ELSE c
CountUpTo(c, total) == IF c < total THEN c + 1 ELSE 0

\* The next pixel of the stored frame.
Following(p) ==
  IF p[2] + 1 < H_SYNC_ACT THEN <<p[1], p[2] + 1>>
  ELSE IF p[1] + 1 < V_SYNC_ACT THEN <<p[1] + 1, 0>> ELSE <<0, 0>>

VgaInit == H_Cont = 0 /\ V_Cont = 0 /\ iRST_N = FALSE /\ front = <<0, 0>>

\* A rising edge of VGA_CLK.  The FIFO is show-ahead: a request takes the
\* word it shows.
VgaClock ==
  /\ iRST_N
  /\ H_Cont' = CountUpTo(H_Cont, H_SYNC_TOTAL)
  /\ V_Cont' = IF H_Cont = 0 THEN CountUpTo(V_Cont, V_SYNC_TOTAL) ELSE V_Cont
  /\ front' = IF oRequest THEN Following(front) ELSE front
  /\ UNCHANGED iRST_N

\* KEY[0] drops every output of the relay: the counters are cleared and the
\* frame store goes back to its first pixel.
PressKey == /\ iRST_N /\ iRST_N' = FALSE
            /\ H_Cont' = 0 /\ V_Cont' = 0 /\ front' = <<0, 0>>

\* DLY_RST_2 rises, long after DLY_RST_1 has let the read FIFO fill.
RelayRelease == /\ ~iRST_N /\ iRST_N' = TRUE
                /\ UNCHANGED <<H_Cont, V_Cont, front>>

VgaNext == VgaClock \/ PressKey \/ RelayRelease

VgaSpec == VgaInit /\ [][VgaNext]_vgaVars

-----------------------------------------------------------------------------
(* Properties *)

VgaTypeOK == /\ H_Cont \in 0 .. H_SYNC_TOTAL /\ V_Cont \in 0 .. V_SYNC_TOTAL
             /\ iRST_N \in BOOLEAN
             /\ front \in (0 .. V_SYNC_ACT - 1) \X (0 .. H_SYNC_ACT - 1)

\* Every frame takes the whole stored frame from the SDRAM and nothing more:
\* the pixel the FIFO shows is the one the counters are at, at every clock
\* of the window, frame after frame and whenever KEY[0] restarts the display.
FrameAligned ==
  oRequest => front = <<V_Cont - Y_START - V_MARK, H_Cont - X_START - H_MARK>>

\* Frames follow one another: the vertical sync, which clocks the autofocus,
\* keeps pulsing unless the key is pressed.
FramesRepeat == /\ iRST_N ~> (~oVGA_V_SYNC \/ ~iRST_N)
                /\ ~oVGA_V_SYNC ~> oVGA_V_SYNC
=============================================================================
