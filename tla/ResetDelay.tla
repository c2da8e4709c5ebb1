----------------------------- MODULE ResetDelay -----------------------------
(***************************************************************************)
(* V/RESET_DELAY.v: the counter KEY[0] restarts, and the four reset        *)
(* outputs it releases one after the other.                                *)
(***************************************************************************)
EXTENDS Integers

CONSTANTS READY_AT, RST0_AT, RST1_AT, RST2_AT,  \* thresholds of the outputs
          CONT_MAX                              \* where the counter stops

ASSUME DelayAssumption ==
  /\ CONT_MAX \in Nat
  /\ {READY_AT, RST0_AT, RST1_AT, RST2_AT} \subseteq 0 .. CONT_MAX

VARIABLES Cont, oREADY, oRST_0, oRST_1, oRST_2

delayVars == <<Cont, oREADY, oRST_0, oRST_1, oRST_2>>

DelayTypeOK == /\ Cont \in 0 .. CONT_MAX
               /\ {oREADY, oRST_0, oRST_1, oRST_2} \subseteq BOOLEAN

DelayInit == /\ Cont = 0 /\ oREADY = FALSE
             /\ oRST_0 = FALSE /\ oRST_1 = FALSE /\ oRST_2 = FALSE

DelayReset == /\ Cont' = 0 /\ oREADY' = FALSE
              /\ oRST_0' = FALSE /\ oRST_1' = FALSE /\ oRST_2' = FALSE

DelayClock == /\ Cont' = IF Cont # CONT_MAX THEN Cont + 1 ELSE Cont
              /\ oREADY' = (oREADY \/ Cont >= READY_AT)
              /\ oRST_0' = (oRST_0 \/ Cont >= RST0_AT)
              /\ oRST_1' = (oRST_1 \/ Cont >= RST1_AT)
              /\ oRST_2' = (oRST_2 \/ Cont >= RST2_AT)
=============================================================================
