------------------------------ MODULE RawToRgb ------------------------------
(***************************************************************************)
(* V_D8M/RAW2RGB_J.v with VGA_RD_COUNTER.v, Line_Buffer_J.v and            *)
(* RAW_RGB_BIN.v: the camera's raw pixels, one colour each, become RGB.    *)
(* Three line buffers take turns: one is written while the two lines       *)
(* before it are read, and each output pixel is made of the two-by-two     *)
(* block under the read address.                                           *)
(*                                                                         *)
(* A pixel is not a value here but the place it came from, <<row, column>>,*)
(* so that an output says which pixels of which lines it was made of.      *)
(***************************************************************************)
EXTENDS Integers

CONSTANTS D8M_VAL_LINE_MIN, D8M_VAL_LINE_MAX,
          Columns          \* the line buffers' addresses that are used

None == <<-1, -1>>         \* a word that is no pixel: black, or never written

VARIABLES X_Cont, Y_Cont, rDVAL,        \* VGA_RD_COUNTER
          WR, pre_CCD_LVAL,             \* Line_Buffer_J
          line, READ_addr,              \* the three RAMs, their read address
          RD_EN, rD0, rD1, R, G, B      \* RAW2RGB_J and RAW_RGB_BIN

counterVars == <<X_Cont, Y_Cont, rDVAL>>
bufferVars == <<WR, pre_CCD_LVAL, line, READ_addr>>
binVars == <<RD_EN, rD0, rD1, R, G, B>>
rawVars == <<counterVars, bufferVars, binVars>>

RawInit ==
  /\ X_Cont = 0 /\ Y_Cont = 0 /\ rDVAL = FALSE
  /\ WR = 0 /\ pre_CCD_LVAL = FALSE
  /\ line = [n \in 0 .. 2 |-> [x \in Columns |-> None]] /\ READ_addr = 0
  /\ RD_EN = FALSE /\ rD0 = None /\ rD1 = None
  /\ R = None /\ G = {None} /\ B = None

\* VGA_VS is low before or after the edge: it clears the counters at once and
\* holds them while it lasts.
InSync(VS, VSnext) == ~VS \/ ~VSnext

LineOver(Request) == rDVAL /\ ~Request

\* VGA_RD_COUNTER.
CountReads(Request, VS, VSnext) ==
  /\ rDVAL' = IF VS THEN Request ELSE rDVAL
  /\ X_Cont' = IF InSync(VS, VSnext) \/ ~rDVAL THEN 0 ELSE X_Cont + 1
  /\ Y_Cont' = IF InSync(VS, VSnext) THEN 0
               ELSE IF LineOver(Request) THEN Y_Cont + 1 ELSE Y_Cont

\* The buffer that is written changes when the horizontal sync falls.
Turn_Two(n) == IF n >= 1 THEN 0 ELSE n + 1
Turn(n) == IF n >= 2 THEN 0 ELSE n + 1

\* Line_Buffer_J.  The RAMs register their read address.
BufferLines(data, HS, VS, VSnext) ==
  /\ pre_CCD_LVAL' = HS
  /\ WR' = IF InSync(VS, VSnext) THEN 0
           ELSE IF pre_CCD_LVAL /\ ~HS THEN Turn(WR) ELSE WR
  /\ line' = IF HS /\ X_Cont \in Columns
             THEN [line EXCEPT ![WR][X_Cont] = data] ELSE line
  /\ READ_addr' = X_Cont

Tap(n, Request) == IF Request /\ READ_addr \in Columns
                   THEN line[n][READ_addr] ELSE None

taps0x(Request) == Tap((WR + 1) % 3, Request)
taps1x(Request) == Tap((WR + 2) % 3, Request)

ReadEnabled_Wide == X_Cont >= 0 /\ X_Cont < D8M_VAL_LINE_MAX
ReadEnabled == X_Cont > D8M_VAL_LINE_MIN /\ X_Cont < D8M_VAL_LINE_MAX

\* RAW_RGB_BIN: which of the block's four pixels is red, green or blue.
Bin_OddRow(D0, D1, y, x) ==
  IF y = 1 THEN IF x = 0 THEN [r |-> D0, g |-> {rD0, D1}, b |-> rD1]
                ELSE [r |-> rD0, g |-> {rD1, D0}, b |-> D1]
  ELSE IF x = 0 THEN [r |-> D1, g |-> {rD1, D0}, b |-> rD0]
       ELSE [r |-> D1, g |-> {rD0, D1}, b |-> D0]
Bin(D0, D1, y, x) ==
  IF y = 1 THEN IF x = 0 THEN [r |-> D0, g |-> {rD0, D1}, b |-> rD1]
                ELSE [r |-> rD0, g |-> {rD1, D0}, b |-> D1]
  ELSE IF x = 0 THEN [r |-> D1, g |-> {rD1, D0}, b |-> rD0]
       ELSE [r |-> rD1, g |-> {rD0, D1}, b |-> D0]

\* RD_EN is an asynchronous reset of RAW_RGB_BIN: it acts in the clock it
\* falls in, and the first clock after it has risen is the first one counted.
MixColours(Request) ==
  LET D0 == taps0x(Request)
      D1 == taps1x(Request)
      mix == Bin(D0, D1, Y_Cont % 2, X_Cont % 2)
  IN /\ RD_EN' = ReadEnabled
     /\ IF RD_EN /\ ReadEnabled
        THEN rD0' = D0 /\ rD1' = D1 /\ R' = mix.r /\ G' = mix.g /\ B' = mix.b
        ELSE rD0' = None /\ rD1' = None /\ R' = None /\ G' = {None} /\ B' = None

RawClock(data, Request, HS, VS, VSnext) ==
  /\ CountReads(Request, VS, VSnext)
  /\ BufferLines(data, HS, VS, VSnext)
  /\ MixColours(Request)
=============================================================================
