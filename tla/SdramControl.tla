---------------------------- MODULE SdramControl ----------------------------
(***************************************************************************)
(* V_Sdram_Control/Sdram_Control.v: the two-port controller that stores    *)
(* the camera's pixel stream in the SDRAM and reads it back for the VGA    *)
(* side, one burst of LENGTH words at a time.  It is composed here with    *)
(* control_interface.v and command.v, which share its clock and its reset. *)
(*                                                                         *)
(* ControlClock is one rising edge of CLK: every clocked block of the      *)
(* three files at once, each reading the registers as they were before the *)
(* edge.  The levels of the two FIFOs and the data bus are parameters,     *)
(* supplied by the module that composes the controller with them.          *)
(*                                                                         *)
(* Only side 1 of the four ports exists in the code (side 2 is commented   *)
(* out), so bit 0 of WR_MASK and RD_MASK is the whole mask.                *)
(***************************************************************************)
EXTENDS ControlInterface, SdramCommand

CONSTANTS SC_CL,      \* CAS latency (Sdram_Params.h)
          LENGTH,     \* words of a burst: WR1_LENGTH and RD1_LENGTH
          BURSTS      \* bursts of a frame

\* Words of a frame: WR1_MAX_ADDR and RD1_MAX_ADDR, whole bursts as camouse.v
\* sets them (640 * 480 = 1200 * 256).
MAX_ADDR == BURSTS * LENGTH

ASSUME BurstAssumption == /\ SC_CL \in 2 .. 3
                          /\ LENGTH \in Nat \ {0}
                          /\ BURSTS \in Nat \ {0}
                          /\ MAX_ADDR < 2^23                      \* ASIZE
                          /\ SC_CL + SC_RCD + LENGTH + 1 < 2^10   \* ST

VARIABLES ST, CMD, Pre_RD, Pre_WR, Read, Write,   \* access sequencer
          OUT_VALID, IN_REQ, mWR_DONE, mRD_DONE,
          rWR1_ADDR, rRD1_ADDR,                   \* next burst of each side
          mWR, mRD, mADDR, mLENGTH,               \* arbiter
          WR_MASK, RD_MASK,
          pin, PM_STOP, DQM, mDATAOUT             \* output registers

seqVars == <<ST, CMD, Pre_RD, Pre_WR, Read, Write, OUT_VALID, IN_REQ,
             mWR_DONE, mRD_DONE>>
addrVars == <<rWR1_ADDR, rRD1_ADDR>>
arbVars == <<mWR, mRD, mADDR, mLENGTH, WR_MASK, RD_MASK>>
outVars == <<pin, PM_STOP, DQM, mDATAOUT>>
controlVars == <<ifcVars, cmdVars, ipin, seqVars, addrVars, arbVars, outVars>>

\* The clock of an access at which its burst ends, and its last clock.
BurstEnd == SC_CL + mLENGTH
AccessEnd == SC_CL + SC_RCD + mLENGTH + 1

SeqTypeOK ==
  /\ ST \in 0 .. (SC_CL + SC_RCD + LENGTH + 1)
  /\ CMD \in {"NOP", "READA", "WRITEA"}
  /\ \A b \in {Pre_RD, Pre_WR, Read, Write, OUT_VALID, IN_REQ, mWR_DONE,
               mRD_DONE, mWR, mRD, WR_MASK, RD_MASK, PM_STOP, DQM} :
       b \in BOOLEAN
  /\ mLENGTH \in {0, LENGTH} /\ mADDR \in Nat
  /\ rWR1_ADDR \in Nat /\ rRD1_ADDR \in Nat
  /\ pin \in [cmd : Commands, bank : Nat, a : Nat]

SeqInit ==
  /\ ST = 0 /\ CMD = "NOP" /\ Pre_RD = FALSE /\ Pre_WR = FALSE
  /\ Read = FALSE /\ Write = FALSE /\ OUT_VALID = FALSE /\ IN_REQ = FALSE
  /\ mWR_DONE = FALSE /\ mRD_DONE = FALSE
  /\ rWR1_ADDR = 0 /\ rRD1_ADDR = 0
  /\ mWR = FALSE /\ mRD = FALSE /\ mADDR = 0 /\ mLENGTH = 0
  /\ WR_MASK = FALSE /\ RD_MASK = FALSE
  /\ pin = Pin("NOP", 0, 0) /\ PM_STOP = FALSE /\ DQM = TRUE

\* The asynchronous resets; the output registers have none.
SeqReset ==
  /\ ST' = 0 /\ CMD' = "NOP" /\ Pre_RD' = FALSE /\ Pre_WR' = FALSE
  /\ Read' = FALSE /\ Write' = FALSE /\ OUT_VALID' = FALSE /\ IN_REQ' = FALSE
  /\ mWR_DONE' = FALSE /\ mRD_DONE' = FALSE
  /\ rWR1_ADDR' = 0 /\ rRD1_ADDR' = 0
  /\ mWR' = FALSE /\ mRD' = FALSE /\ mADDR' = 0 /\ mLENGTH' = 0
  /\ WR_MASK' = FALSE /\ RD_MASK' = FALSE

\* The output registers: at the burst's end a precharge of the bank on IBA
\* replaces the command, and PM_STOP tells command.v.  dq is the data bus.
OutputRegisters(dq) ==
  LET active == Read \/ Write
      stop   == ST = BurstEnd
  IN  /\ pin' = IF stop THEN Pin("PRE", ipin.bank, 0) ELSE ipin
      /\ PM_STOP' = stop
      /\ DQM' = ~(active /\ ST >= SC_CL /\ ~(stop /\ Write))
      /\ mDATAOUT' = dq

\* A request is taken on its rising edge only, a write before a read.
StartsWrite == ST = 0 /\ mWR /\ ~Pre_WR

StartsRead == ST = 0 /\ mRD /\ ~Pre_RD /\ ~StartsWrite

\* Mutant of ReadEnds: one clock past the clock at which ST returns to 0.
ReadEnds_Late == Read /\ ST = AccessEnd + 1

ReadEnds  == Read /\ ST = AccessEnd
WriteEnds == Write /\ ST = AccessEnd - 1

SequenceAccess ==
  \/ /\ StartsWrite
     /\ ST' = 1 /\ CMD' = "WRITEA" /\ Read' = FALSE /\ Write' = TRUE
  \/ /\ StartsRead
     /\ ST' = 1 /\ CMD' = "READA" /\ Read' = TRUE /\ Write' = FALSE
  \/ /\ ~StartsWrite /\ ~StartsRead
     /\ CMD' = IF ST = 1 /\ CMD_ACK THEN "NOP" ELSE CMD
     /\ ST' = IF ST = 0 \/ (ST = 1 /\ ~CMD_ACK) THEN ST
              ELSE IF ST # AccessEnd THEN ST + 1 ELSE 0
     /\ Write' = (Write /\ ~WriteEnds)
     /\ Read'  = (Read /\ ~ReadEnds)

\* Mutant of RequestsWords: one clock late, as if the word asked for were on
\* the FIFO's output at once.
RequestsWords_Late == \/ Write /\ ST = SC_CL
                      \/ IN_REQ /\ ~(Write /\ ST = BurstEnd)

RequestsWords == \/ Write /\ ST = SC_CL - 1
                 \/ IN_REQ /\ ~(Write /\ ST = BurstEnd - 1)

\* Mutant of CapturesWords: the capture window does not count the RCD delay.
CapturesWords_Early == \/ Read /\ ST = SC_CL + 1
                       \/ OUT_VALID /\ ~(Read /\ ST = AccessEnd - SC_RCD)

CapturesWords == \/ Read /\ ST = SC_CL + SC_RCD + 1
                 \/ OUT_VALID /\ ~(Read /\ ST = AccessEnd)

\* The FIFO strobes and the done pulses, timed from ST.
Strobes ==
  /\ IN_REQ' = RequestsWords
  /\ OUT_VALID' = CapturesWords
  /\ mWR_DONE' = (Write /\ (WriteEnds \/ mWR_DONE))
  /\ mRD_DONE' = (Read /\ (ReadEnds \/ mRD_DONE))

AccessSequencer ==
  Pre_RD' = mRD /\ Pre_WR' = mWR /\ SequenceAccess /\ Strobes

\* The next burst's address; the last burst of a frame wraps to the first.
NextBurst(a) == IF a < MAX_ADDR - LENGTH THEN a + LENGTH ELSE 0

\* Mutant of WriteDone: either side's done pulse moves the write side.
WriteDone_Any == mWR_DONE \/ mRD_DONE

WriteDone == mWR_DONE /\ WR_MASK
ReadDone == mRD_DONE /\ RD_MASK

AdvanceAddresses ==
  /\ rWR1_ADDR' = IF WriteDone THEN NextBurst(rWR1_ADDR) ELSE rWR1_ADDR
  /\ rRD1_ADDR' = IF ReadDone THEN NextBurst(rRD1_ADDR) ELSE rRD1_ADDR

\* Mutant of ArbiterIdle: the load inputs do not hold the arbiter.
ArbiterIdle_NoLoad(load) == ~mWR /\ ~mRD /\ ST = 0 /\ ~WR_MASK /\ ~RD_MASK

\* No access is pending or running, and both sides are loaded.
ArbiterIdle(load) ==
  ~mWR /\ ~mRD /\ ST = 0 /\ ~WR_MASK /\ ~RD_MASK /\ ~load

\* wrFull: the write FIFO holds a burst; rdLow: the read FIFO has room for one.
\* Writes come first.
GrantsWrite(load, wrFull) == ArbiterIdle(load) /\ wrFull
GrantsRead(load, wrFull, rdLow) == ArbiterIdle(load) /\ ~wrFull /\ rdLow

\* Mutant of GrantAddress: a read is sent to the write side's address.
GrantAddress_Same(grantW) == rWR1_ADDR

GrantAddress(grantW) == IF grantW THEN rWR1_ADDR ELSE rRD1_ADDR

\* A done pulse retires its request (if both came, the read's only).
Arbitrate(load, wrFull, rdLow) ==
  LET grantW == GrantsWrite(load, wrFull)
      grantR == GrantsRead(load, wrFull, rdLow)
      retireW == mWR_DONE /\ ~mRD_DONE
  IN  /\ mWR' = ((mWR \/ grantW) /\ ~retireW)
      /\ WR_MASK' = ((WR_MASK \/ grantW) /\ ~retireW)
      /\ mRD' = ((mRD \/ grantR) /\ ~mRD_DONE)
      /\ RD_MASK' = ((RD_MASK \/ grantR) /\ ~mRD_DONE)
      /\ mADDR' = IF grantW \/ grantR THEN GrantAddress(grantW) ELSE mADDR
      /\ mLENGTH' = IF grantW \/ grantR THEN LENGTH ELSE mLENGTH

ControlClock(load, wrFull, rdLow, dq) ==
  /\ IfcClock(CMD, mADDR, CM_ACK, REF_ACK)
  /\ CmdClock(SADDR, READA, WRITEA, REFRESH, PRECHARGE, LOAD_MODE, REF_REQ,
              INIT_REQ, PM_STOP)
  /\ OutputRegisters(dq)
  /\ AccessSequencer
  /\ AdvanceAddresses
  /\ Arbitrate(load, wrFull, rdLow)

ControlReset == IfcReset /\ CmdReset /\ SeqReset

\* A clock edge while reset is held: only the registers without a reset move.
ControlHeld(dq) ==
  /\ CmdHeld /\ OutputRegisters(dq)
  /\ UNCHANGED <<ifcVars, seqVars, addrVars, arbVars>>
=============================================================================
