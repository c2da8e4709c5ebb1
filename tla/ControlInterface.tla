-------------------------- MODULE ControlInterface --------------------------
(***************************************************************************)
(* V_Sdram_Control/control_interface.v: the command decoder of the SDRAM   *)
(* controller, its refresh timer and its power-up sequencer.               *)
(*                                                                         *)
(* The registers of the Verilog module are the variables, one operator     *)
(* stands for each clocked block, and the module's input ports are the     *)
(* parameters of those operators.  A one-bit register is a BOOLEAN.        *)
(***************************************************************************)
EXTENDS Integers

CONSTANTS INIT_PER,   \* clocks the power-up NOP phase lasts (Sdram_Params.h)
          REF_PER     \* clocks between two refreshes (Sdram_Params.h)

ASSUME PeriodsAssumption == /\ INIT_PER \in Nat \ {0}
                            /\ REF_PER \in Nat \ {0}
                            /\ INIT_PER + 201 < 2^16
                            /\ REF_PER + 200 < 2^16

VARIABLES READA, WRITEA,       \* decoded host command
          SADDR,               \* registered address
          CMD_ACK,             \* acknowledge to the access sequencer
          timer, REF_REQ,      \* refresh timer and its request
          init_timer,          \* power-up timer
          REFRESH, PRECHARGE, LOAD_MODE, INIT_REQ

ifcVars == <<READA, WRITEA, SADDR, CMD_ACK, timer, REF_REQ,
             init_timer, REFRESH, PRECHARGE, LOAD_MODE, INIT_REQ>>

InitEnd == INIT_PER + 201

IfcTypeOK ==
  /\ READA \in BOOLEAN /\ WRITEA \in BOOLEAN /\ CMD_ACK \in BOOLEAN
  /\ SADDR \in Nat
  /\ timer \in 0 .. (2^16 - 1) /\ REF_REQ \in BOOLEAN
  /\ init_timer \in 0 .. InitEnd
  /\ REFRESH \in BOOLEAN /\ PRECHARGE \in BOOLEAN
  /\ LOAD_MODE \in BOOLEAN /\ INIT_REQ \in BOOLEAN

IfcInit ==
  /\ READA = FALSE /\ WRITEA = FALSE /\ SADDR = 0 /\ CMD_ACK = FALSE
  /\ timer = 0 /\ REF_REQ = FALSE /\ init_timer = 0
  /\ REFRESH = FALSE /\ PRECHARGE = FALSE /\ LOAD_MODE = FALSE
  /\ INIT_REQ = FALSE

\* The asynchronous reset branch of the four blocks.
IfcReset ==
  /\ READA' = FALSE /\ WRITEA' = FALSE /\ SADDR' = 0 /\ CMD_ACK' = FALSE
  /\ timer' = 0 /\ REF_REQ' = FALSE /\ init_timer' = 0
  /\ REFRESH' = FALSE /\ PRECHARGE' = FALSE /\ LOAD_MODE' = FALSE
  /\ INIT_REQ' = FALSE

Decode(cmd, addr) ==
  /\ SADDR' = addr
  /\ READA' = (cmd = "READA")
  /\ WRITEA' = (cmd = "WRITEA")

\* CMD_ACK is a one-clock echo of CM_ACK.
AckHost(cmAck) == CMD_ACK' = (cmAck /\ ~CMD_ACK)

\* The 16-bit down counter wraps; reaching zero wins over a reload's clear.
RefreshTimer(refAck) ==
  /\ timer' = IF refAck THEN REF_PER
              ELSE IF INIT_REQ THEN REF_PER + 200
              ELSE (timer + 2^16 - 1) % 2^16
  /\ REF_REQ' = (timer = 0 \/ (REF_REQ /\ ~refAck /\ ~INIT_REQ))

\* The instants, after the NOP phase, at which an auto refresh is requested.
InitRefreshAt == {INIT_PER + 20 * k : k \in 2 .. 9}

\* Mutant of InitCount: the counter does not stop at its end.
InitCount_NoStop == init_timer + 1

InitCount == IF init_timer < InitEnd THEN init_timer + 1 ELSE init_timer

InitTimer ==
  /\ init_timer' = InitCount
  /\ INIT_REQ' = (init_timer < INIT_PER)
  /\ PRECHARGE' = (init_timer = INIT_PER + 20)
  /\ REFRESH' = (init_timer \in InitRefreshAt)
  /\ LOAD_MODE' = (init_timer = INIT_PER + 200)

IfcClock(cmd, addr, cmAck, refAck) ==
  Decode(cmd, addr) /\ AckHost(cmAck) /\ RefreshTimer(refAck) /\ InitTimer
=============================================================================
