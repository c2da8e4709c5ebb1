----------------------------- MODULE FocusStart ------------------------------
(***************************************************************************)
(* What comes before a focus sweep: MODIFY_SYNC.v, which finds out the     *)
(* polarity of the vertical sync from how long it is high and low, and     *)
(* AUTO_FOCUS_ON.v, which lets the sweep begin two seconds after the       *)
(* camera is configured.                                                   *)
(*                                                                         *)
(* KEY[0] stops the pixel clock and the display at any place in a frame    *)
(* and for any time, so the next lengths measured mean nothing, and a sync *)
(* taken for its inverse would move the lens in the middle of a frame.     *)
(* A step is an edge of VGA_CLK; times are counted in it.                  *)
(***************************************************************************)
EXTENDS ResetDelay

CONSTANTS FRAME, FIRST, LOW,   \* clocks of a frame, before its sync, of its sync
          RANGE,               \* MODIFY_SYNC: 2^16, the range of CNT
          FOC_AT, PULSE_MAX,   \* AUTO_FOCUS_ON: 2 s, and where PULSE stops
          MaxPresses           \* bound: how often KEY[0] is pressed

StartAssumption ==
  /\ {FRAME, FIRST, LOW, RANGE, FOC_AT, PULSE_MAX, MaxPresses} \subseteq Nat
  /\ FIRST + LOW < FRAME /\ RANGE > 0 /\ FOC_AT <= PULSE_MAX

\* The high time of a frame, or what the counter keeps of it, is longer than the
\* sync, and AUTO_FOC comes after the first whole frame that follows the relay.
PolarityAssumption ==
  /\ FIRST > 0 /\ LOW > 0 /\ (FRAME - LOW - 1) % RANGE > (LOW - 1) % RANGE
  /\ READY_AT <= RST2_AT /\ FOC_AT > (RST2_AT - READY_AT) + FRAME + FIRST + 1

VARIABLES KEY,               \* KEY[0], FALSE while it is pressed
          at,                \* how far VGA_Controller is in the frame
          rS, MS, CNT, NUM_H, NUM_L,   \* MODIFY_SYNC for the vertical sync
          I2C_RELEASE, PULSE,          \* AUTO_FOCUS_ON
          presses

syncVars == <<rS, MS, CNT, NUM_H, NUM_L>>
focusVars == <<I2C_RELEASE, PULSE>>
startVars == <<delayVars, KEY, at, syncVars, focusVars, presses>>

Init ==
  /\ DelayInit /\ KEY = TRUE /\ at = 0
  /\ rS = FALSE /\ MS = FALSE /\ CNT = 0 /\ NUM_H = 0 /\ NUM_L = 0
  /\ I2C_RELEASE = FALSE /\ PULSE = 0 /\ presses = 0

\* oVGA_V_SYNC.
S == ~(at >= FIRST /\ at < FIRST + LOW)

\* Frames follow one another from the moment the relay lets the display go.
Display == at' = IF oRST_2 THEN (at + 1) % FRAME ELSE 0

\* What was counted since the last edge is the length of the level it ends.
ModifySync_NoRestart ==
  /\ rS' = S /\ MS' = (IF NUM_H > NUM_L THEN S ELSE ~S)
  /\ NUM_H' = IF rS /\ ~S THEN CNT ELSE NUM_H
  /\ NUM_L' = IF ~rS /\ S THEN CNT ELSE NUM_L
  /\ CNT' = IF ~rS /\ S THEN 0 ELSE (CNT + 1) % RANGE
ModifySync ==
  /\ rS' = S /\ MS' = (IF NUM_H > NUM_L THEN S ELSE ~S)
  /\ NUM_H' = IF rS /\ ~S THEN CNT ELSE NUM_H
  /\ NUM_L' = IF ~rS /\ S THEN CNT ELSE NUM_L
  /\ CNT' = IF rS # S THEN 0 ELSE (CNT + 1) % RANGE

AutoFocusOn == PULSE' = IF I2C_RELEASE /\ PULSE < PULSE_MAX THEN PULSE + 1 ELSE PULSE
AUTO_FOC == PULSE >= FOC_AT

Clock ==
  /\ KEY /\ DelayClock /\ Display /\ ModifySync /\ AutoFocusOn
  /\ UNCHANGED <<KEY, I2C_RELEASE, presses>>

\* The relay counts already, and VIDEO_PLL has not locked again.
Unlocked ==
  /\ KEY /\ ~oREADY /\ DelayClock
  /\ UNCHANGED <<KEY, at, syncVars, focusVars, presses>>

\* Bridge and camera are configured, which takes as long as it takes.
Release ==
  /\ oREADY /\ ~I2C_RELEASE /\ I2C_RELEASE' = TRUE
  /\ UNCHANGED <<delayVars, KEY, at, syncVars, PULSE, presses>>

\* KEY[0] resets the relay, with it the display and the configuration, and
\* stops the pixel clock; MODIFY_SYNC keeps what it has.
Press ==
  /\ KEY /\ presses < MaxPresses /\ presses' = presses + 1
  /\ KEY' = FALSE /\ DelayReset /\ at' = 0
  /\ I2C_RELEASE' = FALSE /\ PULSE' = 0
  /\ UNCHANGED syncVars

LetGo ==
  /\ ~KEY /\ KEY' = TRUE
  /\ UNCHANGED <<delayVars, at, syncVars, focusVars, presses>>

Next == Clock \/ Unlocked \/ Release \/ Press \/ LetGo

Spec == Init /\ [][Next]_startVars

-----------------------------------------------------------------------------
(* Properties *)

TypeOK ==
  /\ DelayTypeOK /\ {KEY, rS, MS, I2C_RELEASE} \subseteq BOOLEAN
  /\ at \in 0 .. FRAME - 1 /\ {CNT, NUM_H, NUM_L} \subseteq 0 .. RANGE - 1
  /\ PULSE \in 0 .. PULSE_MAX /\ presses \in 0 .. MaxPresses

\* While the lens is swept, the sync it is moved by has the right polarity,
\* whatever was measured while KEY[0] was pressed and the display restarted,
\* and although a frame's high time does not fit the counter
\* (MODIFY_SYNC.v:17-21, AUTO_FOCUS_ON.v:20).
PolarityKnown == AUTO_FOC => MS = rS
=============================================================================
