---------------------------- MODULE SdramProofs -----------------------------
(***************************************************************************)
(* For every burst length, frame size and timer period: each side of the   *)
(* controller walks the frame burst by burst, requests exclude each other, *)
(* the controller implements FrameBuffer, and every register keeps its     *)
(* range.                                                                  *)
(*                                                                         *)
(* The address blocks react to the done pulses, so the argument is about   *)
(* when those pulses come.  AccessInv ties them to the sequencer: a done   *)
(* pulse is the last clock of the access whose request is still up, the    *)
(* sequencer is not running any more, and the arbiter is not idle, so no   *)
(* pulse can move an address twice or be taken for the next access.        *)
(***************************************************************************)
EXTENDS SdramSystem, TLAPS

\* The word addresses at which a burst of the frame begins.
BurstStarts == {i * LENGTH : i \in 0 .. BURSTS - 1}

\* Both sides point at a burst of the frame.
AddressInv == rWR1_ADDR \in BurstStarts /\ rRD1_ADDR \in BurstStarts

\* At most one request is up, and the masks agree with it.
RequestInv == /\ mWR \in BOOLEAN /\ mRD \in BOOLEAN
              /\ WR_MASK = mWR /\ RD_MASK = mRD
              /\ ~(mWR /\ mRD)

\* The sequencer runs for a request that is up; a done pulse comes when it
\* has stopped, while the request is still up and before the next edge of it.
AccessInv == /\ ST \in Nat /\ mLENGTH \in {0, LENGTH}
             /\ Read \in BOOLEAN /\ Write \in BOOLEAN
             /\ mWR_DONE \in BOOLEAN /\ mRD_DONE \in BOOLEAN
             /\ Write => mWR
             /\ Read => mRD
             /\ mWR_DONE => mWR /\ ~Write /\ ST = AccessEnd
             /\ mRD_DONE => mRD /\ ~Read /\ ST = 0 /\ Pre_RD

IInv == AddressInv /\ RequestInv /\ AccessInv

-----------------------------------------------------------------------------
(* The constants, and what NextBurst does to a burst's start. *)

LEMMA Constants ==
  /\ LENGTH \in Nat /\ LENGTH > 0 /\ BURSTS \in Nat /\ BURSTS > 0
  /\ SC_CL \in Nat /\ SC_CL > 0 /\ SC_RCD \in Nat /\ SC_RCD > 0
  /\ MAX_ADDR \in Nat
BY BurstAssumption, GeometryAssumption DEF MAX_ADDR

\* Burst starts are numbers of the frame at least a burst below its end.
LEMMA BurstStartsInFrame ==
  ASSUME NEW a \in BurstStarts
  PROVE  a \in Nat /\ a + LENGTH <= MAX_ADDR
<1>1. PICK i \in 0 .. BURSTS - 1 : a = i * LENGTH
  BY DEF BurstStarts
<1>2. i \in Nat /\ i + 1 <= BURSTS
  BY Constants
<1>3. a \in Nat
  BY <1>1, <1>2, Constants
<1>4. (i + 1) * LENGTH = a + LENGTH
  BY <1>1, <1>2, Constants
<1>5. (i + 1) * LENGTH <= BURSTS * LENGTH
  BY <1>2, Constants
<1> QED
  BY <1>3, <1>4, <1>5 DEF MAX_ADDR

LEMMA ZeroIsBurstStart == 0 \in BurstStarts
<1>1. 0 \in 0 .. BURSTS - 1 /\ 0 = 0 * LENGTH
  BY Constants
<1> QED
  BY <1>1 DEF BurstStarts

\* NextBurst goes from a burst start to the next one around the frame.
LEMMA NextBurstAfter ==
  ASSUME NEW a \in BurstStarts
  PROVE  NextBurst(a) \in BurstStarts /\ NextBurst(a) = Store!After(a)
<1>1. PICK i \in 0 .. BURSTS - 1 : a = i * LENGTH
  BY DEF BurstStarts
<1>2. i \in Nat /\ a \in Nat /\ a + LENGTH <= MAX_ADDR /\ MAX_ADDR \in Nat
  BY BurstStartsInFrame, Constants
<1>3. CASE a < MAX_ADDR - LENGTH
  <2>1. i + 1 \in 0 .. BURSTS - 1
    <3>1. SUFFICES ASSUME i + 1 >= BURSTS PROVE FALSE
      BY <1>2, Constants
    <3>2. i + 1 = BURSTS
      BY <1>2, <3>1, Constants
    <3>3. (i + 1) * LENGTH = a + LENGTH
      BY <1>1, <1>2, Constants
    <3> QED
      BY <1>2, <1>3, <3>2, <3>3, Constants DEF MAX_ADDR
  <2>2. (i + 1) * LENGTH = a + LENGTH
    BY <1>1, <1>2, Constants
  <2>3. a + LENGTH \in BurstStarts
    BY <2>1, <2>2 DEF BurstStarts
  <2>4. a + LENGTH # MAX_ADDR
    BY <1>2, <1>3, Constants
  <2> QED
    BY <1>3, <2>3, <2>4 DEF NextBurst, Store!After
<1>4. CASE ~(a < MAX_ADDR - LENGTH)
  <2>1. a + LENGTH = MAX_ADDR
    BY <1>2, <1>4, Constants
  <2> QED
    BY <1>2, <1>4, <2>1, ZeroIsBurstStart, Constants DEF NextBurst, Store!After
<1> QED
  BY <1>3, <1>4

-----------------------------------------------------------------------------
(* The invariant. *)

LEMMA InitInv == Init => IInv
<1> SUFFICES ASSUME Init PROVE IInv
  OBVIOUS
<1>1. AddressInv
  BY ZeroIsBurstStart DEF Init, SeqInit, AddressInv
<1>2. RequestInv
  BY DEF Init, SeqInit, RequestInv
<1>3. AccessInv
  BY DEF Init, SeqInit, AccessInv
<1> QED
  BY <1>1, <1>2, <1>3 DEF IInv

\* What one clock edge does to the registers the invariant speaks of.
LEMMA ClockMoves ==
  ASSUME Clock
  PROVE  \E wrFull, rdLow \in BOOLEAN :
           /\ Arbitrate(Loading, wrFull, rdLow)
           /\ AccessSequencer /\ AdvanceAddresses
BY DEF Clock, ControlClock

LEMMA ClockRequests ==
  ASSUME IInv, Clock
  PROVE  RequestInv'
BY ClockMoves DEF IInv, RequestInv, Arbitrate, GrantsWrite, GrantsRead,
                  ArbiterIdle

LEMMA ClockAddresses ==
  ASSUME IInv, Clock
  PROVE  AddressInv'
BY ClockMoves, NextBurstAfter DEF IInv, AddressInv, AdvanceAddresses

LEMMA ClockAccess ==
  ASSUME IInv, Clock
  PROVE  AccessInv'
<1>1. PICK wrFull \in BOOLEAN, rdLow \in BOOLEAN :
        /\ Arbitrate(Loading, wrFull, rdLow)
        /\ AccessSequencer /\ AdvanceAddresses
  BY ClockMoves
<1>2. AccessEnd \in Nat /\ AccessEnd > 2
  BY Constants DEF IInv, AccessInv, AccessEnd
<1> USE DEF IInv, AccessInv, RequestInv
<1>3. ST' \in Nat /\ mLENGTH' \in {0, LENGTH}
  BY <1>1, <1>2 DEF AccessSequencer, SequenceAccess, Arbitrate
<1>4. /\ Read' \in BOOLEAN /\ Write' \in BOOLEAN
      /\ mWR_DONE' \in BOOLEAN /\ mRD_DONE' \in BOOLEAN
  <2>1. Read' \in BOOLEAN /\ Write' \in BOOLEAN
    BY <1>1 DEF AccessSequencer, SequenceAccess
  <2>2. mWR_DONE' \in BOOLEAN /\ mRD_DONE' \in BOOLEAN
    BY <1>1 DEF AccessSequencer, Strobes, WriteEnds, ReadEnds
  <2> QED
    BY <2>1, <2>2
<1>5. ASSUME Write'
      PROVE  mWR'
  <2>1. Write \/ StartsWrite
    BY <1>1, <1>5 DEF AccessSequencer, SequenceAccess
  <2>2. mWR /\ ~mWR_DONE
    BY <1>2, <2>1 DEF StartsWrite
  <2> QED
    BY <1>1, <2>2 DEF Arbitrate
<1>6. Read' => mRD'
  BY <1>1, <1>2 DEF AccessSequencer, SequenceAccess, Arbitrate, StartsRead
<1>7. ASSUME mWR_DONE'
      PROVE  mWR' /\ ~Write' /\ (ST = AccessEnd)'
  <2>1. Write /\ ST = AccessEnd - 1
    BY <1>1, <1>7 DEF AccessSequencer, Strobes, WriteEnds, ReadEnds
  <2>2. mWR /\ ~mWR_DONE /\ ST > 1
    BY <1>2, <2>1
  <2>3. mLENGTH' = mLENGTH /\ mWR'
    BY <1>1, <2>2 DEF Arbitrate, GrantsWrite, GrantsRead, ArbiterIdle
  <2>4. ~Write' /\ ST' = AccessEnd
    BY <1>1, <1>2, <2>1, <2>2
    DEF AccessSequencer, SequenceAccess, StartsWrite, StartsRead,
        WriteEnds, ReadEnds
  <2> QED
    BY <2>3, <2>4 DEF AccessEnd
<1>8. ASSUME mRD_DONE'
      PROVE  mRD' /\ ~Read' /\ ST' = 0 /\ Pre_RD'
  <2>1. Read /\ ST = AccessEnd
    BY <1>1, <1>8 DEF AccessSequencer, Strobes, WriteEnds, ReadEnds
  <2>2. mRD /\ ~mRD_DONE /\ ST > 1
    BY <1>2, <2>1
  <2>3. mRD'
    BY <1>1, <2>2 DEF Arbitrate
  <2>4. ~Read' /\ ST' = 0 /\ Pre_RD'
    BY <1>1, <1>2, <2>1, <2>2
    DEF AccessSequencer, SequenceAccess, StartsWrite, StartsRead,
        WriteEnds, ReadEnds
  <2> QED
    BY <2>3, <2>4
<1> QED
  BY <1>3, <1>4, <1>5, <1>6, <1>7, <1>8

\* The steps that are not a running clock reset the controller or leave the
\* registers of the invariant alone.
LEMMA ResetInv ==
  ASSUME PressKey
  PROVE  IInv'
BY ZeroIsBurstStart DEF PressKey, ControlReset, SeqReset, IInv, AddressInv, RequestInv,
              AccessInv

LEMMA Still ==
  ASSUME HeldClock \/ ReleaseKey \/ UNCHANGED vars
  PROVE  UNCHANGED <<seqVars, addrVars, arbVars>>
BY DEF HeldClock, ControlHeld, ReleaseKey, vars, controlVars

LEMMA NextInv == IInv /\ [Next]_vars => IInv'
<1> SUFFICES ASSUME IInv, [Next]_vars PROVE IInv'
  OBVIOUS
<1>1. CASE Clock
  BY <1>1, ClockRequests, ClockAddresses, ClockAccess DEF IInv
<1>2. CASE PressKey
  BY <1>2, ResetInv
<1>3. CASE HeldClock \/ ReleaseKey \/ UNCHANGED vars
  BY <1>3, Still DEF IInv, AddressInv, RequestInv, AccessInv, seqVars,
                     addrVars, arbVars, AccessEnd
<1> QED
  BY <1>1, <1>2, <1>3 DEF Next

THEOREM Inductive == Spec => []IInv
<1> QED
  BY InitInv, NextInv, PTL DEF Spec

-----------------------------------------------------------------------------
(* The controller implements the frame buffer. *)

Access == IF mWR THEN "write" ELSE IF mRD THEN "read" ELSE "none"

LEMMA ClockRefines ==
  ASSUME IInv, Clock
  PROVE  Store!FBNext \/ UNCHANGED <<rWR1_ADDR, rRD1_ADDR, Access>>
<1>1. PICK wrFull \in BOOLEAN, rdLow \in BOOLEAN :
        /\ Arbitrate(Loading, wrFull, rdLow)
        /\ AccessSequencer /\ AdvanceAddresses
  BY ClockMoves
<1> USE DEF IInv, RequestInv, AccessInv, Access
<1>2. CASE mWR_DONE
  <2>1. mWR /\ ~mRD /\ ~mRD_DONE /\ WR_MASK
    BY <1>2
  <2>2. ~mWR' /\ ~mRD'
    BY <1>1, <1>2, <2>1 DEF Arbitrate, GrantsRead, ArbiterIdle
  <2>3. rWR1_ADDR' = Store!After(rWR1_ADDR) /\ rRD1_ADDR' = rRD1_ADDR
    BY <1>1, <1>2, <2>1, NextBurstAfter DEF AdvanceAddresses, WriteDone, ReadDone,
                                             AddressInv
  <2> QED
    BY <2>1, <2>2, <2>3 DEF Store!FBNext, Store!EndWrite
<1>3. CASE mRD_DONE
  <2>1. mRD /\ ~mWR /\ ~mWR_DONE /\ RD_MASK
    BY <1>3
  <2>2. ~mWR' /\ ~mRD'
    BY <1>1, <1>3, <2>1 DEF Arbitrate, GrantsWrite, ArbiterIdle
  <2>3. rRD1_ADDR' = Store!After(rRD1_ADDR) /\ rWR1_ADDR' = rWR1_ADDR
    BY <1>1, <1>3, <2>1, NextBurstAfter DEF AdvanceAddresses, WriteDone, ReadDone,
                                             AddressInv
  <2> QED
    BY <2>1, <2>2, <2>3 DEF Store!FBNext, Store!EndRead
<1>4. CASE ~mWR_DONE /\ ~mRD_DONE
  <2>1. rWR1_ADDR' = rWR1_ADDR /\ rRD1_ADDR' = rRD1_ADDR
    BY <1>1, <1>4 DEF AdvanceAddresses, WriteDone, ReadDone
  <2>2. CASE mWR \/ mRD
    <3>1. mWR' = mWR /\ mRD' = mRD
      BY <1>1, <1>4, <2>2
      DEF Arbitrate, GrantsWrite, GrantsRead, ArbiterIdle
    <3> QED
      BY <2>1, <3>1
  <2>3. CASE ~mWR /\ ~mRD
    <3>1. ~(mWR' /\ mRD') /\ mWR' \in BOOLEAN /\ mRD' \in BOOLEAN
      BY <1>1, ClockRequests
    <3> QED
      BY <2>1, <2>3, <3>1 DEF Store!FBNext, Store!Begin
  <2> QED
    BY <2>2, <2>3
<1> QED
  BY <1>2, <1>3, <1>4

\* Whatever the FIFOs ask for and whenever the key is pressed, each burst
\* that ends moves its own side to the next burst of the frame and nothing
\* else moves either side.
THEOREM Refinement == Spec => ImplementsFrameBuffer
<1>1. Init => Store!FBInit
  BY DEF Init, SeqInit, Store!FBInit
<1>2. ASSUME IInv, [Next]_vars
      PROVE  [Store!FBNext]_(Store!bufVars)
  <2>1. CASE Clock
    BY <1>2, <2>1, ClockRefines DEF Access, Store!bufVars
  <2>2. CASE PressKey
    BY <2>2 DEF PressKey, ControlReset, SeqReset, Store!FBNext, Store!Clear
  <2>3. CASE HeldClock \/ ReleaseKey \/ UNCHANGED vars
    BY <2>3, Still DEF seqVars, addrVars, arbVars, Store!bufVars
  <2> QED
    BY <1>2, <2>1, <2>2, <2>3 DEF Next
<1> QED
  BY <1>1, <1>2, Inductive, PTL
  DEF Spec, ImplementsFrameBuffer, Store!FBSpec

-----------------------------------------------------------------------------
(* The reset relay keeps the arbiter away from the power-up sequence. *)

\* Both counters start with the key; the sequence's is never behind the
\* relay's until it is complete.
RelayInv == /\ init_timer \in Nat /\ init_timer <= InitEnd
            /\ Cont \in Nat
            /\ init_timer = InitEnd \/ Cont <= init_timer
            /\ oRST_1 => Cont >= RST1_AT
            /\ mWR \/ mRD => init_timer = InitEnd

LEMMA RelayConstants ==
  /\ INIT_PER \in Nat /\ InitEnd \in Nat /\ InitEnd = INIT_PER + 201
  /\ RST1_AT \in Nat /\ CONT_MAX \in Nat
  /\ RST1_AT >= InitEnd /\ CONT_MAX >= RST1_AT
BY PeriodsAssumption, DelayAssumption, RelayAssumption DEF InitEnd

LEMMA ClockRelay ==
  ASSUME RelayInv, Clock
  PROVE  RelayInv'
<1>1. InitTimer /\ DelayClock
  BY DEF Clock, ControlClock, IfcClock
<1>2. PICK wrFull \in BOOLEAN, rdLow \in BOOLEAN :
        Arbitrate(Loading, wrFull, rdLow)
  BY ClockMoves
<1>3. /\ init_timer' = IF init_timer < InitEnd THEN init_timer + 1
                       ELSE init_timer
      /\ Cont' = IF Cont # CONT_MAX THEN Cont + 1 ELSE Cont
      /\ oRST_1' => oRST_1 \/ Cont >= RST1_AT
  BY <1>1 DEF InitTimer, InitCount, DelayClock
<1>4. /\ init_timer' \in Nat /\ init_timer' <= InitEnd
      /\ Cont' \in Nat /\ Cont' >= Cont
      /\ init_timer' = InitEnd \/ Cont' <= init_timer'
  BY <1>3, RelayConstants DEF RelayInv
<1>5. oRST_1' => Cont' >= RST1_AT
  BY <1>3, <1>4, RelayConstants DEF RelayInv
<1>6. ASSUME mWR' \/ mRD'
      PROVE  init_timer' = InitEnd
  <2>1. mWR \/ mRD \/ oRST_1
    BY <1>2, <1>6 DEF Arbitrate, GrantsWrite, GrantsRead, ArbiterIdle, Loading
  <2>2. init_timer = InitEnd
    BY <2>1, RelayConstants DEF RelayInv
  <2> QED
    BY <1>3, <2>2, RelayConstants
<1>7. InitEnd' = InitEnd /\ RST1_AT' = RST1_AT
  BY DEF InitEnd
<1> QED
  BY <1>4, <1>5, <1>6, <1>7 DEF RelayInv

\* No access is requested before the power-up sequence, the mode set
\* included, is over, however often the key is pressed.
THEOREM InitUndisturbed == Spec => []NoAccessDuringInit
<1>1. Init => RelayInv
  BY RelayConstants DEF Init, IfcInit, SeqInit, DelayInit, RelayInv
<1>2. ASSUME RelayInv, [Next]_vars
      PROVE  RelayInv'
  <2>1. CASE Clock
    BY <1>2, <2>1, ClockRelay
  <2>2. CASE PressKey
    BY <2>2, RelayConstants
    DEF PressKey, ControlReset, SeqReset, IfcReset, DelayReset, RelayInv,
        InitEnd
  <2>3. CASE HeldClock \/ ReleaseKey \/ UNCHANGED vars
    <3>1. UNCHANGED <<init_timer, Cont, oRST_1, mWR, mRD>>
      BY <2>3 DEF HeldClock, ControlHeld, ReleaseKey, vars, controlVars,
                  ifcVars, arbVars, delayVars
    <3> QED
      BY <1>2, <3>1 DEF RelayInv, InitEnd
  <2> QED
    BY <1>2, <2>1, <2>2, <2>3 DEF Next
<1>3. RelayInv => NoAccessDuringInit
  BY DEF RelayInv, NoAccessDuringInit
<1> QED
  BY <1>1, <1>2, <1>3, PTL DEF Spec

-----------------------------------------------------------------------------
(* The ranges of all registers. *)

\* Types, and what keeps them: the sequencer never runs past the end of the
\* access it counts, and a READ on the pins names a column the chips have.
TInv == /\ TypeOK /\ ST <= AccessEnd
        /\ ipin.cmd = "READ" => ipin.a < DevPage
        /\ pin.cmd = "READ" => pin.a < DevPage

\* An edge keeps control_interface's registers in range: the refresh timer
\* reloads from a period that fits its 16 bits, the power-up timer stops.
LEMMA IfcTypes ==
  ASSUME TInv, Clock
  PROVE  IfcTypeOK'
<1>1. IfcClock(CMD, mADDR, CM_ACK, REF_ACK) /\ InitEnd' = InitEnd
  BY DEF Clock, ControlClock, InitEnd
<1>2. INIT_PER \in Nat /\ REF_PER \in Nat /\ InitEnd \in Nat /\ 2^16 \in Nat /\ REF_PER + 200 < 2^16
  BY PeriodsAssumption DEF InitEnd
<1>3. (READA /\ WRITEA /\ CMD_ACK)' \in BOOLEAN /\ SADDR' \in Nat
  BY <1>1 DEF IfcClock, Decode, AckHost, TInv, TypeOK, SeqTypeOK
<1>4. READA' \in BOOLEAN /\ WRITEA' \in BOOLEAN /\ CMD_ACK' \in BOOLEAN
  BY <1>1 DEF IfcClock, Decode, AckHost, TInv, TypeOK, SeqTypeOK
<1>5. timer' \in 0 .. (2^16 - 1) /\ REF_REQ' \in BOOLEAN
  BY <1>1, <1>2 DEF IfcClock, RefreshTimer, TInv, TypeOK, IfcTypeOK
<1>6. init_timer' \in 0 .. InitEnd
  BY <1>1, <1>2 DEF IfcClock, InitTimer, InitCount, TInv, TypeOK, IfcTypeOK
<1>7. REFRESH' \in BOOLEAN /\ PRECHARGE' \in BOOLEAN /\ LOAD_MODE' \in BOOLEAN /\ INIT_REQ' \in BOOLEAN
  BY <1>1 DEF IfcClock, InitTimer
<1> QED
  BY <1>1, <1>3, <1>4, <1>5, <1>6, <1>7 DEF IfcTypeOK

\* An edge keeps command.v's shift counters in range, and the column it puts
\* on the pins is one of a row's.
LEMMA CmdTypes ==
  ASSUME TInv, Clock
  PROVE  CmdTypeOK' /\ (ipin'.cmd = "READ" => ipin'.a < DevPage)
<1>1. CmdClock(SADDR, READA, WRITEA, REFRESH, PRECHARGE, LOAD_MODE, REF_REQ, INIT_REQ, PM_STOP)
  BY DEF Clock, ControlClock
<1> USE DEF TInv, TypeOK, IfcTypeOK, CmdTypeOK, SeqTypeOK
<1>2. /\ do_reada' \in BOOLEAN /\ do_writea' \in BOOLEAN /\ do_refresh' \in BOOLEAN
      /\ do_precharge' \in BOOLEAN /\ do_load_mode' \in BOOLEAN /\ do_initial' \in BOOLEAN
  BY <1>1 DEF CmdClock, IssueCommand, ClearIssue, Requests
<1>3. command_done' \in BOOLEAN /\ rw_flag' \in BOOLEAN /\ command_delay' \in 0 .. 8
  <2>1. CASE INIT_REQ
    <3>1. ClearIssue(TRUE)
      BY <1>1, <2>1 DEF CmdClock, IssueCommand
    <3>2. command_done' \in BOOLEAN /\ rw_flag' \in BOOLEAN
      BY <3>1 DEF ClearIssue
    <3>3. command_delay' = 0
      BY <3>1 DEF ClearIssue
    <3>4. command_delay' \in 0 .. 8
      BY <3>3
    <3> QED
      BY <3>2, <3>4
  <2>2. CASE ~INIT_REQ
    <3>1. CommandDelay
      BY <1>1, <2>2 DEF CmdClock, IssueCommand
    <3>2. CASE Issuing
      BY <3>1, <3>2 DEF CommandDelay
    <3>3. CASE ~Issuing
      BY <3>1, <3>3 DEF CommandDelay
    <3> QED
      BY <3>2, <3>3
  <2> QED
    BY <2>1, <2>2
<1>4. rp_done' \in BOOLEAN /\ ex_read' \in BOOLEAN /\ ex_write' \in BOOLEAN /\ rp_shift' \in 0 .. 4
  <2>1. CASE INIT_REQ
    <3>1. ClearIssue(TRUE)
      BY <1>1, <2>1 DEF CmdClock, IssueCommand
    <3>2. rp_done' \in BOOLEAN /\ ex_read' \in BOOLEAN /\ ex_write' \in BOOLEAN
      BY <3>1 DEF ClearIssue
    <3>3. rp_shift' = 0
      BY <3>1 DEF ClearIssue
    <3>4. rp_shift' \in 0 .. 4
      BY <3>3
    <3> QED
      BY <3>2, <3>4
  <2>2. CASE ~INIT_REQ
    <3>1. PrechargeTimer(PM_STOP)
      BY <1>1, <2>2 DEF CmdClock, IssueCommand
    <3>2. rp_shift' \in 0 .. 4
      BY <3>1 DEF PrechargeTimer
    <3>3. rp_done' \in BOOLEAN /\ ex_read' \in BOOLEAN /\ ex_write' \in BOOLEAN
      BY <3>1 DEF PrechargeTimer
    <3> QED
      BY <3>2, <3>3
  <2> QED
    BY <2>1, <2>2
<1>5. oe4' \in BOOLEAN /\ OE' \in BOOLEAN
  BY <1>1 DEF CmdClock, OutputEnable
<1>6. rw_shift' \in 0 .. 2 /\ do_rw' \in BOOLEAN
  <2>1. RcdTimer
    BY <1>1 DEF CmdClock
  <2>2. CASE do_reada \/ do_writea
    BY <2>1, <2>2, GeometryAssumption DEF RcdTimer
  <2>3. CASE ~(do_reada \/ do_writea)
    <3>1. rw_shift \div 2 \in 0 .. 2
      <4>1. rw_shift = 0 \/ rw_shift = 1 \/ rw_shift = 2
        OBVIOUS
      <4> QED
        BY <4>1
    <3>2. rw_shift' \in 0 .. 2
      BY <2>1, <2>3, <3>1 DEF RcdTimer
    <3>3. do_rw' \in BOOLEAN
      BY <2>1, <2>3 DEF RcdTimer
    <3> QED
      BY <3>2, <3>3
  <2> QED
    BY <2>2, <2>3
<1>7. CM_ACK' \in BOOLEAN /\ REF_ACK' \in BOOLEAN
  BY <1>1 DEF CmdClock, Acknowledge, Issuing
<1>8. /\ BankOf(SADDR) \in Nat /\ RowOf(SADDR) \in Nat
      /\ ColOf(SADDR) \in Nat /\ ColOf(SADDR) < PAGE
  BY GeometryAssumption DEF BankOf, RowOf, ColOf
<1>9. \E c \in Commands, b \in Nat, a \in Nat :
        ipin' = Pin(c, b, a) /\ (c = "READ" => a < PAGE)
  BY <1>1, <1>8 DEF CmdClock, DrivePins, Commands, Issuing
<1>10. ipin' \in [cmd : Commands, bank : Nat, a : Nat] /\ (ipin'.cmd = "READ" => ipin'.a < PAGE)
  BY <1>9 DEF Pin
<1> QED
  BY <1>2, <1>3, <1>4, <1>5, <1>6, <1>7, <1>10, PageAssumption, GeometryAssumption, DeviceAssumption

\* The end of an access grows with the granted length and is after the start.
LEMMA EndBounds ==
  ASSUME NEW m \in Nat, NEW n \in Nat, m <= n, n <= LENGTH
  PROVE  /\ SC_CL + SC_RCD + m + 1 \in Nat /\ SC_CL + SC_RCD + n + 1 \in Nat
         /\ SC_CL + SC_RCD + m + 1 <= SC_CL + SC_RCD + n + 1
         /\ SC_CL + SC_RCD + m + 1 > 2
         /\ SC_CL + SC_RCD + n + 1 <= SC_CL + SC_RCD + LENGTH + 1
BY Constants

\* An edge keeps Sdram_Control's registers in range.  A grant changes the
\* length while the sequencer counts up to it, so that ST stays below the end
\* needs that lengths only grow from 0.
LEMMA SeqTypes ==
  ASSUME TInv, IInv, Clock
  PROVE  SeqTypeOK' /\ (ST <= AccessEnd)' /\ (pin'.cmd = "READ" => pin'.a < DevPage)
<1>1. PICK wrFull \in BOOLEAN, rdLow \in BOOLEAN :
        /\ Arbitrate(Loading, wrFull, rdLow) /\ OutputRegisters(BusColumn)
        /\ AccessSequencer /\ AdvanceAddresses
  BY DEF Clock, ControlClock
<1>2. AddressInv' /\ RequestInv' /\ AccessInv'
  BY ClockAddresses, ClockRequests, ClockAccess
<1>3. rWR1_ADDR' \in Nat /\ rRD1_ADDR' \in Nat
  BY <1>2, BurstStartsInFrame DEF AddressInv
<1>4. mLENGTH' \in {0, LENGTH} /\ (mLENGTH' = mLENGTH \/ mLENGTH' = LENGTH)
  BY <1>1, <1>2 DEF Arbitrate, AccessInv
<1>5. AccessEnd \in Nat /\ AccessEnd' \in Nat /\ AccessEnd <= AccessEnd' /\ AccessEnd > 2
      /\ AccessEnd' <= SC_CL + SC_RCD + LENGTH + 1
  <2>1. mLENGTH \in {0, LENGTH}
    BY DEF TInv, TypeOK, SeqTypeOK
  <2>2. mLENGTH \in Nat /\ mLENGTH' \in Nat /\ mLENGTH <= mLENGTH' /\ mLENGTH' <= LENGTH
    BY <1>4, <2>1, Constants
  <2> QED
    BY <2>2, EndBounds DEF AccessEnd
<1>6. ST' \in Nat /\ ST' <= AccessEnd'
  BY <1>1, <1>2, <1>5 DEF AccessSequencer, SequenceAccess, TInv, AccessInv, TypeOK, SeqTypeOK
<1>7. CMD' \in {"NOP", "READA", "WRITEA"}
  BY <1>1 DEF AccessSequencer, SequenceAccess, TInv, TypeOK, SeqTypeOK
<1>8. Pre_RD' \in BOOLEAN /\ Pre_WR' \in BOOLEAN
  BY <1>1 DEF AccessSequencer, TInv, TypeOK, SeqTypeOK
<1>9. OUT_VALID' \in BOOLEAN /\ IN_REQ' \in BOOLEAN
  BY <1>1 DEF AccessSequencer, Strobes, RequestsWords, CapturesWords, TInv, TypeOK, SeqTypeOK
<1>10. PM_STOP' \in BOOLEAN /\ DQM' \in BOOLEAN
  BY <1>1 DEF OutputRegisters
<1>11. mADDR' \in Nat
  BY <1>1 DEF Arbitrate, GrantAddress, TInv, TypeOK, SeqTypeOK
<1>12. pin' \in [cmd : Commands, bank : Nat, a : Nat] /\ (pin'.cmd = "READ" => pin'.a < DevPage)
  BY <1>1 DEF OutputRegisters, Pin, TInv, TypeOK, CmdTypeOK, Commands
<1>13. ST' \in 0 .. (SC_CL + SC_RCD + LENGTH + 1)
  BY <1>5, <1>6, Constants
<1>14. /\ Read' \in BOOLEAN /\ Write' \in BOOLEAN /\ mWR_DONE' \in BOOLEAN /\ mRD_DONE' \in BOOLEAN
       /\ mWR' \in BOOLEAN /\ mRD' \in BOOLEAN /\ WR_MASK' \in BOOLEAN /\ RD_MASK' \in BOOLEAN
  BY <1>2 DEF RequestInv, AccessInv
<1> QED
  BY <1>3, <1>4, <1>6, <1>7, <1>8, <1>9, <1>10, <1>11, <1>12, <1>13, <1>14 DEF SeqTypeOK

\* An edge with a well-formed command keeps the chips' state in range: the
\* column of a running burst wraps inside the row.
LEMMA DeviceTypes ==
  ASSUME TInv, DeviceClock(pin, DQM)
  PROVE  DeviceTypeOK'
<1>1. /\ CasLatency \in 2 .. 3 /\ DevPage \in Nat /\ DevPage > 0 /\ Closed = -1 /\ HiZ = -1
  BY DeviceAssumption DEF Closed, HiZ
<1>2. /\ DeviceTypeOK /\ pin \in [cmd : Commands, bank : Nat, a : Nat]
      /\ pin.cmd = "READ" => pin.a < DevPage
  BY DEF TInv, TypeOK, SeqTypeOK
<1>3. openRow' \in [Banks -> Nat \cup {Closed}]
  BY <1>1, <1>2 DEF DeviceClock, DeviceTypeOK
<1>4. age' \in [{"ACT", "PRE", "REF"} -> 0 .. Old]
  <2>1. DOMAIN age = {"ACT", "PRE", "REF"} /\ \A c \in {"ACT", "PRE", "REF"} : age[c] \in 0 .. 20
    BY <1>2 DEF DeviceTypeOK, Old
  <2>2. age' = [c \in {"ACT", "PRE", "REF"} |->
                  IF c = pin.cmd THEN 1 ELSE IF age[c] < 20 THEN age[c] + 1 ELSE 20]
    BY <2>1 DEF DeviceClock, Old
  <2>3. \A c \in {"ACT", "PRE", "REF"} :
          (IF c = pin.cmd THEN 1 ELSE IF age[c] < 20 THEN age[c] + 1 ELSE 20) \in 0 .. 20
    BY <2>1
  <2> QED
    BY <2>2, <2>3 DEF Old
<1> DEFINE now == BurstAt(pin)
<1>5. /\ now \in [kind : {"none", "READ", "WRITE"}, col : Nat]
      /\ now.kind = "READ" => now.col \in 0 .. DevPage - 1
  BY <1>1, <1>2 DEF BurstAt, DeviceTypeOK, NoBurst
<1>6. burst' \in [kind : {"none", "READ", "WRITE"}, col : 0 .. DevPage - 1]
  <2>1. burst' = IF now.kind = "none" THEN NoBurst ELSE [now EXCEPT !.col = (@ + 1) % DevPage]
    BY DEF DeviceClock
  <2>2. (now.col + 1) % DevPage \in 0 .. DevPage - 1
    BY <1>1, <1>5
  <2> QED
    BY <1>1, <1>5, <2>1, <2>2 DEF NoBurst
<1>7. dout' \in [1 .. CasLatency -> -1 .. DevPage - 1]
  <2>1. dout' = [i \in 1 .. CasLatency |->
                    IF i = CasLatency
                    THEN IF now.kind = "READ" THEN now.col ELSE HiZ
                    ELSE IF i = CasLatency - 1 /\ DQM THEN HiZ
                    ELSE dout[i + 1]]
    BY DEF DeviceClock
  <2>2. ASSUME NEW i \in 1 .. CasLatency, i # CasLatency
        PROVE  dout[i + 1] \in -1 .. DevPage - 1
    BY <1>1, <1>2, <2>2 DEF DeviceTypeOK
  <2>3. HiZ \in -1 .. DevPage - 1 /\ (now.kind = "READ" => now.col \in -1 .. DevPage - 1)
    BY <1>1, <1>5
  <2> QED
    BY <2>1, <2>2, <2>3
<1> QED
  BY <1>3, <1>4, <1>6, <1>7 DEF DeviceTypeOK

\* What is on the data bus is a column or nothing.
LEMMA BusTypes ==
  ASSUME DeviceTypeOK
  PROVE  BusColumn \in -1 .. DevPage - 1
BY DeviceAssumption DEF BusColumn, Undriven, DrivesBus, DeviceTypeOK, HiZ

\* The relay's counter stops at its last value.
LEMMA DelayTypes ==
  ASSUME DelayTypeOK, DelayClock
  PROVE  DelayTypeOK'
<1>1. CONT_MAX \in Nat
  BY DelayAssumption
<1>2. Cont' \in 0 .. CONT_MAX
  BY <1>1 DEF DelayTypeOK, DelayClock
<1>3. oREADY' \in BOOLEAN /\ oRST_0' \in BOOLEAN /\ oRST_1' \in BOOLEAN /\ oRST_2' \in BOOLEAN
  BY DEF DelayClock
<1> QED
  BY <1>2, <1>3 DEF DelayTypeOK

\* Where the counters start.
LEMMA ZeroInRanges ==
  /\ 0 \in Nat /\ 0 \in 0 .. (2^16 - 1) /\ 0 \in 0 .. InitEnd /\ 0 \in 0 .. CONT_MAX
  /\ 0 \in 0 .. (SC_CL + SC_RCD + LENGTH + 1) /\ 0 <= SC_CL + SC_RCD + 0 + 1
BY PeriodsAssumption, DelayAssumption, Constants DEF InitEnd

\* Power up is well typed.
LEMMA InitTypes == Init => TInv
<1> SUFFICES ASSUME Init PROVE TInv
  OBVIOUS
<1>1. IfcTypeOK
  <2>1. /\ READA = FALSE /\ WRITEA = FALSE /\ SADDR = 0 /\ CMD_ACK = FALSE
        /\ timer = 0 /\ REF_REQ = FALSE /\ init_timer = 0
        /\ REFRESH = FALSE /\ PRECHARGE = FALSE /\ LOAD_MODE = FALSE /\ INIT_REQ = FALSE
    BY DEF Init, IfcInit
  <2>2. SADDR \in Nat /\ timer \in 0 .. (2^16 - 1) /\ init_timer \in 0 .. InitEnd
    BY <2>1, ZeroInRanges
  <2> QED
    BY <2>1, <2>2 DEF IfcTypeOK
<1>2. CmdTypeOK
  <2>1. /\ do_reada \in BOOLEAN /\ do_writea \in BOOLEAN /\ do_refresh \in BOOLEAN
        /\ do_precharge \in BOOLEAN /\ do_load_mode \in BOOLEAN /\ do_initial \in BOOLEAN
        /\ command_done \in BOOLEAN /\ rw_flag \in BOOLEAN /\ rp_done \in BOOLEAN
        /\ ex_read \in BOOLEAN /\ ex_write \in BOOLEAN /\ oe4 \in BOOLEAN /\ OE \in BOOLEAN
        /\ do_rw \in BOOLEAN /\ CM_ACK \in BOOLEAN /\ REF_ACK \in BOOLEAN
    BY DEF Init, CmdInit
  <2>2. command_delay = 0 /\ rp_shift = 0 /\ rw_shift = 0
    BY DEF Init, CmdInit
  <2>3. command_delay \in 0 .. 8 /\ rp_shift \in 0 .. 4 /\ rw_shift \in 0 .. 2
    BY <2>2
  <2>4. ipin \in [cmd : Commands, bank : Nat, a : Nat]
    BY DEF Init, CmdInit, Pin, Commands
  <2> QED
    BY <2>1, <2>3, <2>4 DEF CmdTypeOK
<1>3. SeqTypeOK
  <2>1. /\ Pre_RD \in BOOLEAN /\ Pre_WR \in BOOLEAN /\ Read \in BOOLEAN /\ Write \in BOOLEAN
        /\ OUT_VALID \in BOOLEAN /\ IN_REQ \in BOOLEAN /\ mWR_DONE \in BOOLEAN
        /\ mRD_DONE \in BOOLEAN /\ mWR \in BOOLEAN /\ mRD \in BOOLEAN
        /\ WR_MASK \in BOOLEAN /\ RD_MASK \in BOOLEAN /\ PM_STOP \in BOOLEAN /\ DQM \in BOOLEAN
    BY DEF Init, SeqInit
  <2>2. ST = 0 /\ mADDR = 0 /\ mLENGTH = 0 /\ rWR1_ADDR = 0 /\ rRD1_ADDR = 0 /\ CMD = "NOP"
    BY DEF Init, SeqInit
  <2>3. ST \in 0 .. (SC_CL + SC_RCD + LENGTH + 1)
    BY <2>2, ZeroInRanges
  <2>4. pin \in [cmd : Commands, bank : Nat, a : Nat]
    BY DEF Init, SeqInit, Pin, Commands
  <2> QED
    BY <2>1, <2>2, <2>3, <2>4 DEF SeqTypeOK
<1>4. DeviceTypeOK
  BY DeviceAssumption DEF Init, DeviceInit, DeviceTypeOK, NoBurst, HiZ, Closed, Old
<1>5. DelayTypeOK
  <2>1. Cont = 0 /\ oREADY \in BOOLEAN /\ oRST_0 \in BOOLEAN /\ oRST_1 \in BOOLEAN /\ oRST_2 \in BOOLEAN
    BY DEF Init, DelayInit
  <2> QED
    BY <2>1, ZeroInRanges DEF DelayTypeOK
<1>6. mDATAOUT \in -1 .. DevPage - 1
  BY DeviceAssumption DEF Init, Undriven
<1>7. ST <= AccessEnd /\ ipin.cmd = "NOP" /\ pin.cmd = "NOP"
  <2>1. ST = 0 /\ mLENGTH = 0 /\ ipin.cmd = "NOP" /\ pin.cmd = "NOP"
    BY DEF Init, SeqInit, CmdInit, Pin
  <2> QED
    BY <2>1, ZeroInRanges DEF AccessEnd
<1> QED
  BY <1>1, <1>2, <1>3, <1>4, <1>5, <1>6, <1>7 DEF Init, TInv, TypeOK

\* A clock edge of everything keeps the types.
LEMMA ClockTypes ==
  ASSUME TInv, IInv, Clock
  PROVE  TInv'
<1>1. IfcTypeOK' /\ CmdTypeOK' /\ (ipin'.cmd = "READ" => ipin'.a < DevPage)
  BY IfcTypes, CmdTypes
<1>2. SeqTypeOK' /\ (ST <= AccessEnd)' /\ (pin'.cmd = "READ" => pin'.a < DevPage)
  BY SeqTypes
<1>3. DeviceTypeOK' /\ DelayTypeOK'
  BY DeviceTypes, DelayTypes DEF Clock, TInv, TypeOK
<1>4. RESET_N' \in BOOLEAN
  BY DEF Clock
<1>5. mDATAOUT' \in -1 .. DevPage - 1
  BY BusTypes DEF Clock, ControlClock, OutputRegisters, TInv, TypeOK
<1>6. popped' \in Nat /\ received' \in Nat
  BY DEF Clock, FifoClock, TInv, TypeOK
<1> QED
  BY <1>1, <1>2, <1>3, <1>4, <1>5, <1>6 DEF TInv, TypeOK

\* A clock edge while the key is held keeps the types.
LEMMA HeldTypes ==
  ASSUME TInv, HeldClock
  PROVE  TInv'
<1>1. CmdHeld /\ OutputRegisters(BusColumn) /\ DeviceClock(pin, DQM)
      /\ UNCHANGED <<ifcVars, seqVars, addrVars, arbVars, delayVars, fifoVars, RESET_N>>
  BY DEF HeldClock, ControlHeld
<1>2. IfcTypeOK'
  BY <1>1 DEF IfcTypeOK, ifcVars, InitEnd, TInv, TypeOK
<1>3. CmdTypeOK' /\ ipin'.cmd = "NOP"
  BY <1>1 DEF CmdHeld, cmdVars, issueVars, CmdTypeOK, Pin, Commands, TInv, TypeOK
<1>4. /\ pin' \in [cmd : Commands, bank : Nat, a : Nat]
      /\ pin'.cmd = "READ" => pin'.a < DevPage
  BY <1>1 DEF OutputRegisters, Pin, TInv, TypeOK, CmdTypeOK, Commands
<1>5. PM_STOP' \in BOOLEAN /\ DQM' \in BOOLEAN
  BY <1>1 DEF OutputRegisters
<1>6. SeqTypeOK' /\ (ST <= AccessEnd)'
  BY <1>1, <1>4, <1>5 DEF seqVars, addrVars, arbVars, SeqTypeOK, AccessEnd, TInv, TypeOK
<1>7. DeviceTypeOK'
  BY <1>1, DeviceTypes
<1>8. DelayTypeOK' /\ RESET_N' \in BOOLEAN /\ popped' \in Nat /\ received' \in Nat
  BY <1>1 DEF delayVars, fifoVars, DelayTypeOK, TInv, TypeOK
<1>9. mDATAOUT' \in -1 .. DevPage - 1
  BY <1>1, BusTypes DEF OutputRegisters, TInv, TypeOK
<1> QED
  BY <1>2, <1>3, <1>4, <1>6, <1>7, <1>8, <1>9 DEF TInv, TypeOK

\* Pressing the key clears every counter and leaves the output registers.
LEMMA PressTypes ==
  ASSUME TInv, PressKey
  PROVE  TInv'
<1>1. /\ IfcReset /\ CmdReset /\ SeqReset /\ DelayReset
      /\ UNCHANGED <<ipin, outVars, deviceVars>>
  BY DEF PressKey, ControlReset
<1>2. IfcTypeOK'
  <2>1. SADDR' = 0 /\ timer' = 0 /\ init_timer' = 0 /\ InitEnd' = InitEnd
    BY <1>1 DEF IfcReset, InitEnd
  <2>2. SADDR' \in Nat /\ timer' \in 0 .. (2^16 - 1) /\ init_timer' \in 0 .. InitEnd
    BY <2>1, ZeroInRanges
  <2>3. /\ READA' \in BOOLEAN /\ WRITEA' \in BOOLEAN /\ CMD_ACK' \in BOOLEAN
        /\ REF_REQ' \in BOOLEAN /\ REFRESH' \in BOOLEAN /\ PRECHARGE' \in BOOLEAN
        /\ LOAD_MODE' \in BOOLEAN /\ INIT_REQ' \in BOOLEAN
    BY <1>1 DEF IfcReset
  <2> QED
    BY <2>1, <2>2, <2>3 DEF IfcTypeOK
<1>3. CmdTypeOK'
  <2>1. /\ do_reada' \in BOOLEAN /\ do_writea' \in BOOLEAN /\ do_refresh' \in BOOLEAN
        /\ do_precharge' \in BOOLEAN /\ do_load_mode' \in BOOLEAN /\ do_initial' \in BOOLEAN
        /\ command_done' \in BOOLEAN /\ rw_flag' \in BOOLEAN /\ rp_done' \in BOOLEAN
        /\ ex_read' \in BOOLEAN /\ ex_write' \in BOOLEAN /\ oe4' \in BOOLEAN /\ OE' \in BOOLEAN
        /\ do_rw' \in BOOLEAN /\ CM_ACK' \in BOOLEAN /\ REF_ACK' \in BOOLEAN
    BY <1>1 DEF CmdReset, ClearIssue, CmdTypeOK, TInv, TypeOK
  <2>2. command_delay' = 0 /\ rp_shift' = 0 /\ rw_shift' = 0 /\ ipin' = ipin
    BY <1>1 DEF CmdReset, ClearIssue
  <2>3. command_delay' \in 0 .. 8 /\ rp_shift' \in 0 .. 4 /\ rw_shift' \in 0 .. 2
    BY <2>2
  <2> QED
    BY <2>1, <2>2, <2>3 DEF CmdTypeOK, TInv, TypeOK
<1>4. SeqTypeOK' /\ (ST <= AccessEnd)'
  <2>1. /\ Pre_RD' \in BOOLEAN /\ Pre_WR' \in BOOLEAN /\ Read' \in BOOLEAN /\ Write' \in BOOLEAN
        /\ OUT_VALID' \in BOOLEAN /\ IN_REQ' \in BOOLEAN /\ mWR_DONE' \in BOOLEAN
        /\ mRD_DONE' \in BOOLEAN /\ mWR' \in BOOLEAN /\ mRD' \in BOOLEAN
        /\ WR_MASK' \in BOOLEAN /\ RD_MASK' \in BOOLEAN
    BY <1>1 DEF SeqReset
  <2>2. /\ ST' = 0 /\ mADDR' = 0 /\ mLENGTH' = 0 /\ rWR1_ADDR' = 0 /\ rRD1_ADDR' = 0
        /\ CMD' = "NOP"
    BY <1>1 DEF SeqReset
  <2>3. ST' \in 0 .. (SC_CL + SC_RCD + LENGTH + 1) /\ (ST <= AccessEnd)'
    BY <2>2, ZeroInRanges DEF AccessEnd
  <2>4. /\ PM_STOP' \in BOOLEAN /\ DQM' \in BOOLEAN
        /\ pin' \in [cmd : Commands, bank : Nat, a : Nat]
    BY <1>1 DEF outVars, SeqTypeOK, TInv, TypeOK
  <2> QED
    BY <2>1, <2>2, <2>3, <2>4 DEF SeqTypeOK
<1>5. DeviceTypeOK'
  BY <1>1 DEF deviceVars, DeviceTypeOK, TInv, TypeOK
<1>6. DelayTypeOK'
  <2>1. /\ Cont' = 0 /\ oREADY' \in BOOLEAN /\ oRST_0' \in BOOLEAN
        /\ oRST_1' \in BOOLEAN /\ oRST_2' \in BOOLEAN
    BY <1>1 DEF DelayReset
  <2> QED
    BY <2>1, ZeroInRanges DEF DelayTypeOK
<1>7. RESET_N' \in BOOLEAN /\ popped' \in Nat /\ received' \in Nat
  BY DEF PressKey
<1>8. mDATAOUT' = mDATAOUT /\ ipin' = ipin /\ pin' = pin
  BY <1>1 DEF outVars
<1> QED
  BY <1>2, <1>3, <1>4, <1>5, <1>6, <1>7, <1>8 DEF TInv, TypeOK

\* Releasing the key changes none of the typed registers.
LEMMA StillTypes ==
  ASSUME TInv, ReleaseKey \/ UNCHANGED vars
  PROVE  TInv'
<1>1. UNCHANGED <<controlVars, deviceVars, delayVars, fifoVars>> /\ RESET_N' \in BOOLEAN
  BY DEF ReleaseKey, vars, TInv, TypeOK
<1>2. IfcTypeOK'
  BY <1>1 DEF controlVars, ifcVars, IfcTypeOK, InitEnd, TInv, TypeOK
<1>3. CmdTypeOK'
  BY <1>1 DEF controlVars, cmdVars, issueVars, CmdTypeOK, TInv, TypeOK
<1>4. SeqTypeOK' /\ (ST <= AccessEnd)'
  BY <1>1 DEF controlVars, seqVars, addrVars, arbVars, outVars, SeqTypeOK, AccessEnd,
              TInv, TypeOK
<1>5. DeviceTypeOK' /\ DelayTypeOK'
  BY <1>1 DEF deviceVars, delayVars, DeviceTypeOK, DelayTypeOK, TInv, TypeOK
<1>6. /\ popped' \in Nat /\ received' \in Nat
      /\ mDATAOUT' = mDATAOUT /\ ipin' = ipin /\ pin' = pin
  BY <1>1 DEF controlVars, outVars, fifoVars, TInv, TypeOK
<1> QED
  BY <1>1, <1>2, <1>3, <1>4, <1>5, <1>6 DEF TInv, TypeOK

\* Every register of the frame store keeps its range, for every period,
\* burst length, frame and threshold: no timer of the controller counts past
\* its end, whenever the key is pressed, and no READ leaves the chips' row.
THEOREM TypesKept == Spec => []TypeOK
<1>1. IInv /\ TInv /\ [Next]_vars => TInv'
  BY ClockTypes, HeldTypes, PressTypes, StillTypes DEF Next
<1>2. TInv => TypeOK
  BY DEF TInv
<1> QED
  BY InitTypes, <1>1, <1>2, Inductive, PTL DEF Spec

-----------------------------------------------------------------------------
(***************************************************************************)
(* The accesses of the frame store, clock by clock: the invariants that    *)
(* tie command.v, control_interface.v, the access sequencer, the FIFOs'    *)
(* word counts and the chips to each other, and what follows from them for *)
(* every period, burst length, frame, threshold and press of the key.      *)
(*                                                                         *)
(* The argument has two layers.  ControlInv relates the registers of the   *)
(* controller: where the power-up sequence stands at each count of the     *)
(* reset relay, and where an access, a refresh and the settling and the    *)
(* precharge times of command.v stand against each other.  It yields the   *)
(* acknowledge's owner and the bound on a refresh's wait.  DataInv adds    *)
(* the words counted, the pins and the chips; it yields the order of the   *)
(* data and the legality of the pins, for SC_CL = 3.                       *)
(***************************************************************************)

-----------------------------------------------------------------------------
(* Where the controller stands. *)

\* The clock at which the power-up sequence is over, its last acknowledge
\* included.
Ready == InitEnd + 4
Booting == Cont < Ready

\* A power-up command is requested every 20 clocks, from the 21st on.
Slot == (Cont - INIT_PER) % 20
FirstRequest == INIT_PER + 21

\* command.v has taken the access the sequencer asks for.
Taken == ex_read \/ ex_write

\* command.v does nothing: no command is settling, no precharge time runs.
Resting == ~command_done /\ ~rp_done

\* The first clocks of a taken access, before its acknowledge moves ST on:
\* the pulse, the settling, the acknowledge.
Pulsed == ST = 1 /\ Taken /\ ~command_done
Settling == ST = 1 /\ Taken /\ command_delay = 8
Acked == ST = 1 /\ Taken /\ command_delay = 7

-----------------------------------------------------------------------------
(* The power-up sequence. *)

\* Each request is answered in its slot: pulse, settling, precharge time.
BootInv ==
  Booting =>
    /\ ~REF_ACK /\ ~rw_flag
    /\ Cont = 0 => timer = 0
    /\ Cont \in 1 .. INIT_PER => timer > 0
    /\ Cont \in INIT_PER + 1 .. InitEnd => timer > InitEnd - Cont
    /\ REF_REQ => Cont = 1 \/ Cont > InitEnd + 1
    /\ (do_precharge <=> Cont = INIT_PER + 22)
    /\ (do_load_mode <=> Cont = INIT_PER + 202)
    /\ (do_refresh <=> Cont - 2 \in InitRefreshAt)
    /\ (command_done <=> Cont > FirstRequest /\ Slot \in 3 .. 11)
    /\ command_delay = IF command_done THEN 11 - Slot ELSE 0
    /\ (rp_done <=> Cont > FirstRequest /\ Slot \in 12 .. 16)
    /\ rp_shift = IF rp_done THEN 16 - Slot ELSE 0
    /\ (CM_ACK <=> Cont > FirstRequest /\ Slot = 3)
    /\ (CMD_ACK <=> Cont > FirstRequest /\ Slot = 4)

\* The requests of the power-up sequencer, which end with it.
SequenceInv ==
  /\ init_timer = IF Cont < InitEnd THEN Cont ELSE InitEnd
  /\ (INIT_REQ <=> Cont \in 1 .. INIT_PER)
  /\ (PRECHARGE <=> Cont = FirstRequest)
  /\ (REFRESH <=> Cont - 1 \in InitRefreshAt)
  /\ (LOAD_MODE <=> Cont = INIT_PER + 201)
  /\ oRST_1 => ~Booting
  /\ ~RESET_N => Cont = 0

-----------------------------------------------------------------------------
(* An access, clock by clock. *)

\* The side whose request is up, and the access that runs for it.
SideInv ==
  /\ mWR \/ mRD => ~Booting /\ mLENGTH = LENGTH
  /\ ST # 0 => (mWR <=> ~mRD) /\ (Read <=> mRD) /\ (Write <=> mWR /\ ST < AccessEnd)
  /\ ST # 0 /\ mWR /\ ST = AccessEnd => mWR_DONE
  /\ RESET_N => (PM_STOP <=> ST = BurstEnd + 1)

\* Between accesses.
IdleInv ==
  ST = 0 =>
    /\ ~Read /\ ~Write /\ CMD = "NOP" /\ ~READA /\ ~WRITEA /\ ~Taken
    /\ mWR => ~Pre_WR
    /\ mRD => ~Pre_RD \/ mRD_DONE

\* An access is asked for at most, and command.v is still busy.
AskedInv ==
  ST <= 1 /\ ~Taken =>
    /\ ~do_reada /\ ~do_writea /\ rw_shift = 0 /\ ~do_rw
    /\ ~Booting => ~CM_ACK /\ ~CMD_ACK
    /\ ST = 1 => CMD = IF mWR THEN "WRITEA" ELSE "READA"
    /\ (READA => mRD) /\ (WRITEA => mWR)

\* command.v has taken it: three clocks until the acknowledge.
TakenInv ==
  ST = 1 /\ Taken =>
    /\ CMD = IF mWR THEN "WRITEA" ELSE "READA"
    /\ (READA <=> mRD) /\ (WRITEA <=> mWR) /\ (ex_read <=> mRD) /\ (ex_write <=> mWR)
    /\ Pulsed \/ Settling \/ Acked
    /\ (do_reada <=> Pulsed /\ mRD) /\ (do_writea <=> Pulsed /\ mWR)
    /\ (CM_ACK <=> Settling) /\ (CMD_ACK <=> Acked)
    /\ ~Pulsed => (rw_flag <=> mRD)
    /\ rw_shift = IF Pulsed THEN 0 ELSE IF Settling THEN SC_RCD - 1 ELSE SC_RCD - 2
    /\ (do_rw <=> Acked /\ SC_RCD = 2)

\* The burst runs.
RunInv ==
  ST >= 2 =>
    /\ CMD = "NOP" /\ (READA <=> mRD /\ ST = 2) /\ (WRITEA <=> mWR /\ ST = 2)
    /\ ~do_reada /\ ~do_writea /\ ~do_refresh /\ ~CM_ACK /\ ~CMD_ACK
    /\ (command_done <=> ST <= 8)
    /\ command_delay = IF ST <= 8 THEN 8 - ST ELSE 0
    /\ (rp_done <=> ST >= 9)
    /\ rp_shift = IF ST <= 8 THEN 0 ELSE IF ST <= BurstEnd + 1 THEN 4 ELSE BurstEnd + 5 - ST
    /\ (ex_write <=> mWR /\ ST <= BurstEnd + 1) /\ (ex_read <=> mRD /\ ST <= BurstEnd + 1)
    /\ (rw_flag <=> mRD) /\ rw_shift = 0 /\ (do_rw <=> ST = 2 /\ SC_RCD = 3)

\* What command.v does one after the other, and the refreshes among it.
ChainInv ==
  /\ command_delay > 0 => command_done
  /\ rp_shift > 0 => rp_done
  /\ command_done => ~rp_done /\ ~Issuing
  /\ rp_done => ~Issuing
  /\ ~Booting => ~do_precharge /\ ~do_load_mode
  /\ ~Booting /\ do_refresh => REF_REQ /\ ~Taken /\ ~do_reada /\ ~do_writea
  /\ REF_ACK => command_done /\ command_delay = 8 /\ ~Taken /\ REF_REQ

-----------------------------------------------------------------------------
(* Refreshes. *)

\* Clocks until the pending refresh request is withdrawn.
Rest == IF REF_ACK THEN 1 ELSE IF do_refresh THEN 2
        ELSE IF ST >= 2 /\ Taken THEN BurstEnd + 9 - ST
        ELSE IF Pulsed THEN BurstEnd + 10
        ELSE IF Settling THEN BurstEnd + 9
        ELSE IF Acked THEN BurstEnd + 8
        ELSE IF command_done THEN command_delay + 9
        ELSE IF rp_done THEN rp_shift + 4
        ELSE 3

\* The timer cannot have run past the wait for one access.
RefreshInv ==
  REF_REQ => IF Cont = 1 THEN timer = 2^16 - 1
             ELSE timer <= 2^16 - 1 /\ (2^16 - timer) + Rest <= RefreshWait + 1


-----------------------------------------------------------------------------
(* The words and the addresses. *)

\* The address of the access is a burst start, the next one of its side.
GrantInv ==
  /\ mADDR \in BurstStarts /\ SADDR \in BurstStarts
  /\ (mWR => mADDR = rWR1_ADDR) /\ (mRD => mADDR = rRD1_ADDR)
  /\ ST # 0 => SADDR = mADDR

\* The strobes of the FIFOs, and how far the words have come.
WordInv ==
  /\ IN_REQ <=> mWR /\ ST >= 3 /\ ST <= BurstEnd - 1
  /\ OUT_VALID <=> mRD /\ ST >= 8
  /\ mWR => popped = IF ST <= 3 THEN 0 ELSE IF ST <= BurstEnd THEN ST - 3 ELSE LENGTH
  /\ mRD => received = IF mRD_DONE THEN LENGTH ELSE IF ST <= 8 THEN 0 ELSE ST - 8

\* The output enable, and the mask.
OutputInv ==
  /\ do_initial <=> Cont \in 2 .. INIT_PER + 1
  /\ RESET_N /\ Booting => DQM /\ (Cont >= 3 => ~oe4) /\ (Cont >= 4 => ~OE)
  /\ Cont = 0 => ~OE
  /\ ~Booting =>
       /\ oe4 <=> mWR /\ ((ST = 1 /\ Taken /\ ~do_writea) \/ (ST >= 2 /\ ST <= BurstEnd + 1))
       /\ OE <=> mWR /\ ((ST = 1 /\ CMD_ACK) \/ (ST >= 2 /\ ST <= BurstEnd + 2))
       /\ ST # 0 => (DQM <=> ~(ST >= 4 /\ ~(mWR /\ ST = BurstEnd + 1)))

-----------------------------------------------------------------------------
(* The command pins. *)

\* The command goes to ipin with its settling time and to pin a clock later.
PinInv ==
  /\ ipin.bank = 0 /\ pin.bank = 0
  /\ RESET_N /\ Booting =>
       /\ IF command_delay = 8
          THEN ipin.cmd \in IF Cont = INIT_PER + 23 THEN {"PRE"} ELSE {"REF", "MRS"}
          ELSE ipin.cmd = "NOP"
       /\ IF command_delay = 7
          THEN pin.cmd \in IF Cont = INIT_PER + 24 THEN {"PRE"} ELSE {"REF", "MRS"}
          ELSE pin.cmd = "NOP"
  /\ ~Booting =>
       /\ ipin.cmd = IF command_delay = 8 THEN IF Taken THEN "ACT" ELSE "REF"
                     ELSE IF ST = 3 THEN IF mRD THEN "READ" ELSE "WRITE"
                     ELSE "NOP"
       /\ pin.cmd = IF command_delay = 7 THEN IF Taken THEN "ACT" ELSE "REF"
                    ELSE IF ST = 4 THEN IF mRD THEN "READ" ELSE "WRITE"
                    ELSE IF ST = BurstEnd + 1 THEN "PRE" ELSE "NOP"
       /\ (ipin.cmd = "ACT" => ipin.a = RowOf(mADDR)) /\ (pin.cmd = "ACT" => pin.a = RowOf(mADDR))
       /\ ipin.cmd \in {"READ", "WRITE"} => ipin.a = ColOf(mADDR)
       /\ pin.cmd \in {"READ", "WRITE"} => pin.a = ColOf(mADDR)

-----------------------------------------------------------------------------
(* The chips. *)

\* Clocks since command.v issued its last command, the open burst left out.
Since == IF Issuing THEN 0 ELSE IF command_done THEN 9 - command_delay
         ELSE IF rp_done THEN 14 - rp_shift ELSE 15

\* The rows, and how old the last commands are.
RowInv ==
  /\ \A b \in Banks \ {0} : openRow[b] = Closed
  /\ RESET_N /\ Booting =>
       /\ Cont >= INIT_PER + 25 => openRow[0] = Closed
       /\ age["PRE"] >= IF Cont <= INIT_PER + 24 THEN 0
                        ELSE IF Cont <= INIT_PER + 32 THEN Cont - (INIT_PER + 24) ELSE 8
       /\ age["REF"] >= IF Cont <= INIT_PER + 44 THEN IF Cont <= 20 THEN Cont ELSE 20
                        ELSE IF Slot >= 5 THEN Slot - 4 ELSE Slot + 16
  /\ ~Booting =>
       /\ openRow[0] = IF ST >= 2 /\ ST <= BurstEnd + 1 THEN RowOf(mADDR) ELSE Closed
       /\ ST \in 2 .. 4 => age["ACT"] >= ST - 1
       /\ age["REF"] >= IF Since <= 2 THEN 14 + Since ELSE Since - 2
       /\ age["PRE"] >= IF Since <= 2 THEN 6 + Since ELSE IF Since <= 10 THEN 8 ELSE Since - 10

\* The column on its way out that was read at clock k of the access.
Flow(k) == IF mRD /\ k >= 4 /\ k <= BurstEnd THEN ColOf(mADDR) + k - 4 ELSE HiZ

\* The burst in the chips, and its columns on their way to the FIFO.
FlowInv ==
  /\ RESET_N /\ Booting =>
       /\ Cont >= INIT_PER + 25 => burst.kind = "none" /\ dout[3] = HiZ
       /\ Cont >= INIT_PER + 26 => dout[2] = HiZ
       /\ Cont >= INIT_PER + 27 => dout[1] = HiZ
  /\ ~Booting =>
       /\ burst.kind = IF ST >= 5 /\ ST <= BurstEnd + 1 THEN IF mRD THEN "READ" ELSE "WRITE"
                       ELSE "none"
       /\ ST >= 5 /\ ST <= BurstEnd => burst.col = ColOf(mADDR) + ST - 4
       /\ dout[3] = Flow(ST - 1) /\ dout[2] = Flow(ST - 2) /\ dout[1] = Flow(ST - 3)
       /\ mRD /\ ST >= 8 => mDATAOUT = ColOf(mADDR) + ST - 8

\* What holds even while the key cuts an access short: a command on its way
\* finds the chips as it needs them, and who may drive the bus is alone.
CommandInv ==
  /\ Legal(pin)
  /\ ipin.cmd \in {"ACT", "REF", "MRS"} =>
       /\ pin.cmd = "NOP" /\ openRow[0] = Closed
       /\ age["PRE"] + 1 >= tRP /\ age["REF"] + 1 >= tRFC
  /\ ipin.cmd \in {"READ", "WRITE"} =>
       pin.cmd = "NOP" /\ openRow[0] # Closed /\ age["ACT"] + 1 >= tRCD

\* No column is under way while the controller may drive the bus.
DriveInv ==
  oe4 \/ OE =>
    /\ burst.kind # "READ" /\ ipin.cmd # "READ" /\ pin.cmd # "READ"
    /\ dout[1] = HiZ /\ dout[2] = HiZ /\ dout[3] = HiZ

\* The words, the pins and the chips.
DataInv == /\ GrantInv /\ WordInv /\ OutputInv /\ PinInv /\ RowInv /\ FlowInv
           /\ CommandInv /\ DriveInv
\* The controller's registers without the pins, the data and the addresses.
ControlInv == /\ SequenceInv /\ BootInv /\ IdleInv /\ SideInv /\ AskedInv
              /\ TakenInv /\ RunInv /\ ChainInv /\ RefreshInv

-----------------------------------------------------------------------------
(* Constants and the power-up clock. *)

\* The constants in numbers.
LEMMA BurstConstants ==
  /\ INIT_PER \in Nat /\ INIT_PER > 0 /\ InitEnd = INIT_PER + 201 /\ Ready = INIT_PER + 205
  /\ CONT_MAX \in Nat /\ RST1_AT \in Nat /\ RST1_AT >= Ready /\ CONT_MAX >= Ready
  /\ LENGTH \in Nat /\ LENGTH > 0 /\ SC_RCD = SC_CL /\ (SC_CL = 2 \/ SC_CL = 3)
  /\ (SC_RCD = 2 \/ SC_RCD = 3)
  /\ SC_CL + LENGTH >= 8 /\ SC_CL + SC_RCD + LENGTH + 1 < 1024
  /\ REF_PER \in Nat /\ REF_PER > 0 /\ REF_PER + 200 < 65536 /\ 2^16 = 65536
<1>1. /\ INIT_PER \in Nat /\ INIT_PER > 0 /\ InitEnd = INIT_PER + 201 /\ Ready = INIT_PER + 205
  BY PeriodsAssumption DEF InitEnd, Ready
<1>2. CONT_MAX \in Nat /\ RST1_AT \in Nat /\ RST1_AT >= Ready /\ CONT_MAX >= Ready
  BY <1>1, DelayAssumption, RelayAssumption DEF Ready
<1>3. 2^16 = 65536 /\ 2^10 = 1024
  OBVIOUS
<1> QED
  BY <1>1, <1>2, <1>3, Constants, BurstAssumption, GeometryAssumption, ChipAssumption,
     LengthAssumption, PeriodsAssumption

\* The clocks at which the sequencer requests an auto refresh.
LEMMA RefreshTimes ==
  ASSUME NEW x \in Int
  PROVE  x \in InitRefreshAt
           <=> x - INIT_PER \in {40, 60, 80, 100, 120, 140, 160, 180}
<1>1. x \in InitRefreshAt <=> \E k \in 2 .. 9 : x = INIT_PER + 20 * k
  BY DEF InitRefreshAt
<1>2. \A k \in 2 .. 9 : k \in {2, 3, 4, 5, 6, 7, 8, 9}
  OBVIOUS
<1> QED
  BY <1>1, <1>2, BurstConstants

\* The slots come round, and a request falls into the second clock of each.
LEMMA Slots ==
  ASSUME NEW c \in Nat, c >= FirstRequest
  PROVE  /\ (c - INIT_PER) % 20 \in 0 .. 19
         /\ (c + 1 - INIT_PER) % 20
              = IF (c - INIT_PER) % 20 = 19 THEN 0 ELSE ((c - INIT_PER) % 20) + 1
<1>1. PICK j \in Nat : j = c - INIT_PER
  BY BurstConstants DEF FirstRequest
<1>2. j % 20 \in 0 .. 19 /\ (j + 1) % 20 = IF j % 20 = 19 THEN 0 ELSE (j % 20) + 1
  BY Z3
<1>3. c + 1 - INIT_PER = j + 1
  BY <1>1, BurstConstants
<1> QED
  BY <1>1, <1>2, <1>3

\* The power-up requests fall into the second clock of their slots.
LEMMA RequestSlots ==
  ASSUME NEW c \in Nat, c >= FirstRequest, c < Ready
  PROVE  (c - INIT_PER) % 20 = 1
           <=> c = FirstRequest \/ c - 1 \in InitRefreshAt \/ c = INIT_PER + 201
<1>1. PICK j \in Nat : j = c - INIT_PER
  BY BurstConstants DEF FirstRequest
<1>2. j \in 21 .. 204
  BY <1>1, BurstConstants DEF FirstRequest
<1>3. j % 20 = 1 <=> j \in {21, 41, 61, 81, 101, 121, 141, 161, 181, 201}
  BY <1>2, Z3
<1>4. c - 1 \in InitRefreshAt <=> j - 1 \in {40, 60, 80, 100, 120, 140, 160, 180}
  <2>1. (c - 1) - INIT_PER = j - 1
    BY <1>1, BurstConstants
  <2> QED
    BY <2>1, RefreshTimes
<1> QED
  BY <1>1, <1>2, <1>3, <1>4, BurstConstants DEF FirstRequest

-----------------------------------------------------------------------------
(* One clock edge. *)

\* The clocked blocks that the control invariant depends on.
LEMMA Edge ==
  ASSUME Clock
  PROVE  \E wrFull, rdLow \in BOOLEAN :
           /\ IfcClock(CMD, mADDR, CM_ACK, REF_ACK)
           /\ CmdClock(SADDR, READA, WRITEA, REFRESH, PRECHARGE, LOAD_MODE, REF_REQ,
                       INIT_REQ, PM_STOP)
           /\ OutputRegisters(BusColumn) /\ AccessSequencer
           /\ AdvanceAddresses /\ Arbitrate(Loading, wrFull, rdLow)
           /\ FifoClock(GrantsWrite(Loading, wrFull), GrantsRead(Loading, wrFull, rdLow))
           /\ DeviceClock(pin, DQM) /\ DelayClock /\ RESET_N /\ RESET_N'
BY DEF Clock, ControlClock

\* The relay's counter counts the clocks since the release.
LEMMA CountStep ==
  ASSUME TInv, Clock
  PROVE  /\ Cont \in Nat /\ Cont' \in Nat
         /\ Cont' = IF Cont = CONT_MAX THEN Cont ELSE Cont + 1
         /\ Cont <= CONT_MAX
BY BurstConstants DEF Clock, DelayClock, TInv, TypeOK, DelayTypeOK

\* An edge keeps the power-up sequencer in step with the relay's counter.
LEMMA SequenceStep ==
  ASSUME TInv, SequenceInv, Clock
  PROVE  SequenceInv'
<1>1. InitTimer /\ DelayClock /\ RESET_N'
  BY DEF Clock, ControlClock, IfcClock
<1>2. /\ Cont \in Nat /\ Cont' \in Nat /\ Cont <= CONT_MAX
      /\ Cont' = IF Cont = CONT_MAX THEN Cont ELSE Cont + 1
  BY CountStep
<1>3. /\ init_timer = IF Cont < InitEnd THEN Cont ELSE InitEnd
      /\ oRST_1 => ~Booting
  BY DEF SequenceInv
<1>4. init_timer' = IF Cont' < InitEnd THEN Cont' ELSE InitEnd
  BY <1>1, <1>2, <1>3, BurstConstants DEF InitTimer, InitCount
<1>5. /\ INIT_REQ' <=> init_timer < INIT_PER
      /\ PRECHARGE' <=> init_timer = INIT_PER + 20
      /\ LOAD_MODE' <=> init_timer = INIT_PER + 200
  BY <1>1 DEF InitTimer
<1>6. INIT_REQ' <=> Cont' \in 1 .. INIT_PER
  BY <1>2, <1>3, <1>5, BurstConstants
<1>7. PRECHARGE' <=> Cont' = FirstRequest
  BY <1>2, <1>3, <1>5, BurstConstants DEF FirstRequest
<1>8. LOAD_MODE' <=> Cont' = INIT_PER + 201
  BY <1>2, <1>3, <1>5, BurstConstants
<1>9. REFRESH' <=> (Cont' - 1 \in InitRefreshAt)
  <2>1. init_timer \in InitRefreshAt
          <=> init_timer - INIT_PER \in {40, 60, 80, 100, 120, 140, 160, 180}
    BY <1>2, <1>3, RefreshTimes, BurstConstants
  <2>2. Cont' - 1 \in InitRefreshAt
          <=> (Cont' - 1) - INIT_PER \in {40, 60, 80, 100, 120, 140, 160, 180}
    BY <1>2, RefreshTimes
  <2>3. REFRESH' <=> init_timer \in InitRefreshAt
    BY <1>1 DEF InitTimer
  <2>4. REFRESH' \in BOOLEAN
    BY <1>1 DEF InitTimer
  <2>5. init_timer = Cont' - 1 \/ (Cont' >= InitEnd /\ init_timer >= InitEnd - 1)
    BY <1>2, <1>3, BurstConstants
  <2>6. init_timer - INIT_PER \in {40, 60, 80, 100, 120, 140, 160, 180}
          <=> (Cont' - 1) - INIT_PER \in {40, 60, 80, 100, 120, 140, 160, 180}
    BY <1>2, <1>3, <2>5, BurstConstants
  <2> QED
    BY <2>1, <2>2, <2>3, <2>4, <2>6
<1>10. oRST_1' => ~Booting'
  <2>1. oRST_1' => oRST_1 \/ Cont >= RST1_AT
    BY <1>1 DEF DelayClock
  <2>2. Cont >= Ready => Cont' >= Ready
    BY <1>2, BurstConstants
  <2>3. Cont >= RST1_AT => Cont >= Ready
    BY <1>2, BurstConstants
  <2>4. Booting' => ~(Cont' >= Ready)
    BY <1>2, BurstConstants DEF Booting
  <2>5. oRST_1 => Cont >= Ready
    BY <1>2, <1>3, BurstConstants DEF Booting
  <2> QED
    BY <2>1, <2>2, <2>3, <2>4, <2>5
<1>11. InitEnd' = InitEnd /\ FirstRequest' = FirstRequest /\ InitRefreshAt' = InitRefreshAt
  BY DEF InitEnd, FirstRequest, InitRefreshAt
<1> QED
  BY <1>1, <1>4, <1>6, <1>7, <1>8, <1>9, <1>10, <1>11 DEF SequenceInv

\* The refresh timer counts down and wraps at 0.
LEMMA TimerWraps ==
  ASSUME NEW t \in Nat, t < 65536
  PROVE  (t + 65536 - 1) % 65536 = IF t = 0 THEN 65535 ELSE t - 1
OBVIOUS

\* The types the steps below need.
LEMMA CountTypes ==
  ASSUME TInv
  PROVE  /\ command_delay \in Nat /\ command_delay <= 8 /\ rp_shift \in Nat /\ rp_shift <= 4
         /\ rw_shift \in Nat /\ ST \in Nat /\ timer \in Nat /\ timer < 65536
BY BurstConstants DEF TInv, TypeOK, IfcTypeOK, CmdTypeOK, SeqTypeOK

\* The power-up sequencer is silent once it has finished.
LEMMA SequencerSilent ==
  ASSUME TInv, SequenceInv, ChainInv, ~Booting, Clock
  PROVE  /\ ~INIT_REQ /\ ~PRECHARGE /\ ~REFRESH /\ ~LOAD_MODE
         /\ ~do_precharge /\ ~do_load_mode /\ ~Booting'
<1>1. /\ Cont \in Nat /\ Cont' \in Nat /\ Cont >= Ready /\ Cont' >= Ready
  BY CountStep, BurstConstants DEF Booting
<1>2. Cont - 1 - INIT_PER \notin {40, 60, 80, 100, 120, 140, 160, 180}
  BY <1>1, BurstConstants
<1>3. Cont - 1 \notin InitRefreshAt
  BY <1>1, <1>2, RefreshTimes
<1>4. Cont \notin 1 .. INIT_PER /\ Cont # FirstRequest /\ Cont # INIT_PER + 201
  BY <1>1, BurstConstants DEF FirstRequest
<1>5. ~Booting'
  BY <1>1, BurstConstants DEF Booting
<1> QED
  BY <1>3, <1>4, <1>5 DEF SequenceInv, ChainInv

\* Once the power-up sequence is over, the requests of a clock edge are those
\* of the accesses and of the refresh timer.
LEMMA RequestStep ==
  ASSUME TInv, SequenceInv, ChainInv, ~Booting, Clock
  PROVE  /\ do_refresh' <=> REF_REQ /\ RefreshFree
         /\ do_reada' <=> READA /\ Resting /\ ~REF_REQ /\ ~do_reada
         /\ do_writea' <=> WRITEA /\ Resting /\ ~REF_REQ /\ ~do_writea
         /\ ~do_precharge' /\ ~do_load_mode'
         /\ Issuing <=> do_refresh \/ do_reada \/ do_writea
         /\ Issuing' <=> do_refresh' \/ do_reada' \/ do_writea'
         /\ CommandDelay /\ PrechargeTimer(PM_STOP) /\ RcdTimer /\ Acknowledge(REF_REQ)
         /\ Decode(CMD, mADDR) /\ AckHost(CM_ACK)
<1>1. /\ IfcClock(CMD, mADDR, CM_ACK, REF_ACK)
      /\ CmdClock(SADDR, READA, WRITEA, REFRESH, PRECHARGE, LOAD_MODE, REF_REQ,
                  INIT_REQ, PM_STOP)
  BY Edge
<1>2. /\ Requests(READA, WRITEA, REFRESH, PRECHARGE, LOAD_MODE, REF_REQ)
      /\ CommandDelay /\ PrechargeTimer(PM_STOP) /\ RcdTimer /\ Acknowledge(REF_REQ)
      /\ Decode(CMD, mADDR) /\ AckHost(CM_ACK)
  BY <1>1, SequencerSilent DEF CmdClock, IssueCommand, IfcClock
<1>3. /\ do_refresh' <=> REF_REQ /\ RefreshFree
      /\ do_reada' <=> READA /\ Resting /\ ~REF_REQ /\ ~do_reada
      /\ do_writea' <=> WRITEA /\ Resting /\ ~REF_REQ /\ ~do_writea
      /\ ~do_precharge' /\ ~do_load_mode'
  BY <1>2, SequencerSilent DEF Requests, HostFree, Resting
<1>4. /\ Issuing <=> do_refresh \/ do_reada \/ do_writea
      /\ Issuing' <=> do_refresh' \/ do_reada' \/ do_writea'
  BY <1>3, SequencerSilent DEF Issuing
<1> QED
  BY <1>2, <1>3, <1>4

\* The settling time of a command.
LEMMA SettleStep ==
  ASSUME CommandDelay
  PROVE  /\ command_done' <=> Issuing \/ command_delay > 0
         /\ command_delay' = IF Issuing THEN 8
                             ELSE IF command_delay > 0 THEN command_delay - 1 ELSE 0
         /\ Issuing => (rw_flag' <=> do_reada)
         /\ ~Issuing => (rw_flag' <=> rw_flag)
BY DEF CommandDelay

\* The precharge time after it, and the page burst that freezes it.
LEMMA PrechargeStep ==
  ASSUME PrechargeTimer(PM_STOP)
  PROVE  /\ Settled => rp_shift' = 4 /\ rp_done'
         /\ ~Settled /\ Taken /\ ~PM_STOP => rp_shift' = rp_shift /\ (rp_done' <=> rp_done)
         /\ ~Settled /\ (~Taken \/ PM_STOP)
              => /\ rp_shift' = IF rp_shift > 0 THEN rp_shift - 1 ELSE rp_shift
                 /\ rp_done' <=> rp_shift > 0
         /\ ex_read' <=> (ex_read \/ do_reada') /\ ~(~Settled /\ Taken /\ PM_STOP)
         /\ ex_write' <=> (ex_write \/ do_writea') /\ ~(~Settled /\ Taken /\ PM_STOP)
BY DEF PrechargeTimer, ClosesBurst, Taken

\* The acknowledges.
LEMMA AckStep ==
  ASSUME Acknowledge(REF_REQ), AckHost(CM_ACK)
  PROVE  /\ REF_ACK' <=> (do_refresh /\ REF_REQ) \/ (Issuing /\ REF_ACK)
         /\ CM_ACK' <=> IF do_refresh /\ REF_REQ THEN CM_ACK ELSE Issuing
         /\ CMD_ACK' <=> CM_ACK /\ ~CMD_ACK
BY DEF Acknowledge, AckHost

\* The clocks from an ACTIVATE to its access.
LEMMA RcdStep ==
  ASSUME RcdTimer, rw_shift \in {0, 1, 2}, SC_RCD \in {2, 3}
  PROVE  /\ do_reada \/ do_writea => rw_shift' = SC_RCD - 1 /\ (do_rw' <=> do_rw)
         /\ ~(do_reada \/ do_writea) => /\ rw_shift' = IF rw_shift = 2 THEN 1 ELSE 0
                                        /\ do_rw' <=> rw_shift = 1
<1>1. rw_shift \div 2 = IF rw_shift = 2 THEN 1 ELSE 0
  OBVIOUS
<1>2. rw_shift % 2 = 1 <=> rw_shift = 1
  OBVIOUS
<1> QED
  BY <1>1, <1>2 DEF RcdTimer

\* The refresh timer and its request.
LEMMA TimerStep ==
  ASSUME TInv, SequenceInv, ChainInv, ~Booting, Clock
  PROVE  /\ REF_REQ' <=> timer = 0 \/ (REF_REQ /\ ~REF_ACK)
         /\ timer' = IF REF_ACK THEN REF_PER ELSE IF timer = 0 THEN 65535 ELSE timer - 1
<1>1. RefreshTimer(REF_ACK) /\ ~INIT_REQ
  BY Edge, SequencerSilent DEF IfcClock
<1>2. 2^16 = 65536
  OBVIOUS
<1>3. (timer + 2^16 - 1) % 2^16 = IF timer = 0 THEN 65535 ELSE timer - 1
  BY <1>2, CountTypes, TimerWraps
<1>4. timer' = IF REF_ACK THEN REF_PER ELSE (timer + 2^16 - 1) % 2^16
  BY <1>1 DEF RefreshTimer
<1>5. REF_REQ' <=> timer = 0 \/ (REF_REQ /\ ~REF_ACK)
  BY <1>1 DEF RefreshTimer
<1> QED
  BY <1>3, <1>4, <1>5

\* The requests and the arbiter's registers at an edge, while no access ends.
LEMMA SideStep ==
  ASSUME IInv, Clock
  PROVE  /\ mWR \/ mRD => mADDR' = mADDR /\ mLENGTH' = mLENGTH
         /\ ST # 0 => mADDR' = mADDR /\ mLENGTH' = mLENGTH /\ (mWR' => mWR) /\ (mRD' => mRD)
         /\ ~mWR_DONE => (mWR => mWR')
         /\ ~mRD_DONE => (mRD => mRD')
         /\ mWR' /\ ~mWR => mLENGTH' = LENGTH /\ oRST_1 /\ ~mRD
         /\ mRD' /\ ~mRD => mLENGTH' = LENGTH /\ oRST_1 /\ ~mWR
         /\ mWR_DONE => ~mWR'
         /\ mRD_DONE => ~mRD'
<1>1. PICK wrFull \in BOOLEAN, rdLow \in BOOLEAN : Arbitrate(Loading, wrFull, rdLow)
  BY ClockMoves
<1> QED
  BY <1>1 DEF Arbitrate, GrantsWrite, GrantsRead, ArbiterIdle, Loading, IInv, RequestInv, AccessInv

-----------------------------------------------------------------------------
(* The chain of commands after power up. *)

\* While a page burst is open command.v is busy with it.
LEMMA TakenBusy ==
  ASSUME TInv, IdleInv, TakenInv, RunInv, ChainInv, Taken
  PROVE  command_done \/ rp_done \/ do_reada \/ do_writea
<1>1. CASE ST = 0
  BY <1>1 DEF IdleInv
<1>2. CASE ST = 1
  <2>1. Pulsed => do_reada \/ do_writea
    BY <1>2 DEF TakenInv, Taken
  <2>2. Settling \/ Acked => command_done
    BY DEF Settling, Acked, ChainInv
  <2> QED
    BY <1>2, <2>1, <2>2 DEF TakenInv
<1>3. CASE ST >= 2
  <2>1. ST <= 8 \/ ST >= 9
    BY CountTypes
  <2> QED
    BY <1>3, <2>1 DEF RunInv
<1> QED
  BY <1>1, <1>2, <1>3, CountTypes

\* command.v takes one kind of access at a time.
LEMMA OneKind ==
  ASSUME IInv, IdleInv, AskedInv, SideInv, TakenInv, RunInv, TInv
  PROVE  /\ ~(READA /\ WRITEA) /\ (do_reada => READA) /\ (do_writea => WRITEA)
         /\ do_reada \/ do_writea => Pulsed
<1>1. CASE ST = 0
  <2>1. ST <= 1
    BY <1>1
  <2> QED
    BY <1>1, <2>1 DEF IdleInv, AskedInv
<1>2. CASE ST = 1
  BY <1>2 DEF AskedInv, TakenInv, SideInv, Pulsed, Taken, IInv, RequestInv
<1>3. CASE ST >= 2
  BY <1>3 DEF RunInv, IInv, RequestInv
<1> QED
  BY <1>1, <1>2, <1>3, CountTypes

\* An edge keeps command.v's commands one after the other.
LEMMA ChainStep ==
  ASSUME TInv, IInv, ControlInv, ~Booting, Clock
  PROVE  ChainInv'
<1> USE DEF ControlInv
<1>1. CommandDelay /\ PrechargeTimer(PM_STOP) /\ Acknowledge(REF_REQ) /\ AckHost(CM_ACK)
  BY RequestStep
<1>2. /\ command_delay \in Nat /\ rp_shift \in Nat
      /\ (command_delay > 0 => command_done) /\ (rp_shift > 0 => rp_done)
      /\ (command_done => ~rp_done /\ ~Issuing) /\ (rp_done => ~Issuing)
  BY CountTypes DEF ChainInv
<1>3. command_delay' > 0 => command_done'
  BY <1>1, <1>2, SettleStep
<1>4. rp_shift' > 0 => rp_done'
  BY <1>1, <1>2, PrechargeStep
<1>5. Issuing => ~Issuing'
  BY RequestStep, OneKind DEF ChainInv, RefreshFree
<1>6. Issuing' => ~command_done /\ ~rp_done
  BY RequestStep DEF RefreshFree, Resting
<1>7. rp_done' => Settled \/ rp_done
  BY <1>1, <1>2, PrechargeStep
<1>8. Settled => command_done /\ ~(command_delay > 0) /\ ~Issuing
  BY <1>2 DEF Settled
<1>9. command_done' => ~rp_done' /\ ~Issuing'
  BY <1>1, <1>2, <1>5, <1>6, <1>7, <1>8, SettleStep
<1>10. rp_done' => ~Issuing'
  BY <1>6, <1>7, <1>8
<1>11. ASSUME do_refresh'
       PROVE  REF_REQ' /\ ~Taken' /\ ~do_reada' /\ ~do_writea'
  <2>1. REF_REQ /\ RefreshFree
    BY <1>11, RequestStep
  <2>2. ~REF_ACK /\ ~Taken
    BY <2>1, TakenBusy DEF ChainInv, RefreshFree
  <2>3. ~do_reada' /\ ~do_writea' /\ REF_REQ'
    BY <2>1, <2>2, RequestStep, TimerStep
  <2>4. ~Taken'
    BY <1>1, <2>2, <2>3, PrechargeStep DEF Taken
  <2> QED
    BY <2>3, <2>4
<1>12. ASSUME REF_ACK'
       PROVE  command_done' /\ command_delay' = 8 /\ ~Taken' /\ REF_REQ'
  <2>1. do_refresh /\ REF_REQ
    BY <1>1, <1>12, AckStep DEF ChainInv
  <2>2. ~Taken /\ ~REF_ACK /\ Issuing
    BY <2>1 DEF ChainInv, Issuing
  <2>3. command_done' /\ command_delay' = 8
    BY <1>1, <2>2, SettleStep
  <2>4. ~Taken' /\ REF_REQ'
    BY <1>1, <2>1, <2>2, PrechargeStep, RequestStep, TimerStep DEF Taken
  <2> QED
    BY <2>3, <2>4
<1>13. ~do_precharge' /\ ~do_load_mode'
  BY RequestStep
<1> QED
  BY <1>3, <1>4, <1>9, <1>10, <1>11, <1>12, <1>13 DEF ChainInv

-----------------------------------------------------------------------------
(* An access after the other. *)

\* What an edge does to the sequencer.
LEMMA SequencerStep ==
  ASSUME Clock
  PROVE  /\ (Pre_WR' <=> mWR) /\ (Pre_RD' <=> mRD)
         /\ StartsWrite => ST' = 1 /\ CMD' = "WRITEA" /\ ~Read' /\ Write'
         /\ StartsRead => ST' = 1 /\ CMD' = "READA" /\ Read' /\ ~Write'
         /\ ~StartsWrite /\ ~StartsRead =>
              /\ CMD' = IF ST = 1 /\ CMD_ACK THEN "NOP" ELSE CMD
              /\ ST' = IF ST = 0 \/ (ST = 1 /\ ~CMD_ACK) THEN ST
                       ELSE IF ST # AccessEnd THEN ST + 1 ELSE 0
              /\ Write' <=> Write /\ ST # AccessEnd - 1
              /\ Read' <=> Read /\ ST # AccessEnd
         /\ (READA' <=> CMD = "READA") /\ (WRITEA' <=> CMD = "WRITEA")
         /\ PM_STOP' <=> ST = BurstEnd
<1>1. AccessSequencer /\ Decode(CMD, mADDR) /\ OutputRegisters(BusColumn)
  BY Edge DEF IfcClock
<1>2. (READA' <=> CMD = "READA") /\ (WRITEA' <=> CMD = "WRITEA") /\ (PM_STOP' <=> ST = BurstEnd)
  BY <1>1 DEF Decode, OutputRegisters
<1>3. (Pre_WR' <=> mWR) /\ (Pre_RD' <=> mRD)
  BY <1>1 DEF AccessSequencer
<1>4. SequenceAccess
  BY <1>1 DEF AccessSequencer
<1>5. StartsWrite => ST' = 1 /\ CMD' = "WRITEA" /\ ~Read' /\ Write'
  BY <1>4 DEF SequenceAccess, StartsRead
<1>6. StartsRead => ST' = 1 /\ CMD' = "READA" /\ Read' /\ ~Write'
  BY <1>4 DEF SequenceAccess, StartsRead
<1>7. ~StartsWrite /\ ~StartsRead =>
        /\ CMD' = IF ST = 1 /\ CMD_ACK THEN "NOP" ELSE CMD
        /\ ST' = IF ST = 0 \/ (ST = 1 /\ ~CMD_ACK) THEN ST
                 ELSE IF ST # AccessEnd THEN ST + 1 ELSE 0
        /\ Write' <=> Write /\ ST # AccessEnd - 1
        /\ Read' <=> Read /\ ST # AccessEnd
  BY <1>4 DEF SequenceAccess, WriteEnds, ReadEnds
<1> QED
  BY <1>2, <1>3, <1>5, <1>6, <1>7

\* The strobes of the FIFOs and the done pulses.
LEMMA StrobeStep ==
  ASSUME Clock
  PROVE  /\ (IN_REQ' <=> (Write /\ ST = SC_CL - 1) \/ (IN_REQ /\ ~(Write /\ ST = BurstEnd - 1)))
         /\ (OUT_VALID' <=> (Read /\ ST = SC_CL + SC_RCD + 1)
                             \/ (OUT_VALID /\ ~(Read /\ ST = AccessEnd)))
         /\ (mWR_DONE' <=> Write /\ (ST = AccessEnd - 1 \/ mWR_DONE))
         /\ (mRD_DONE' <=> Read /\ (ST = AccessEnd \/ mRD_DONE))
<1>1. Strobes
  BY Edge DEF AccessSequencer
<1> QED
  BY <1>1 DEF Strobes, RequestsWords, CapturesWords, WriteEnds, ReadEnds

\* The clocks of an access.
LEMMA Lengths ==
  ASSUME TInv, SideInv
  PROVE  /\ BurstEnd \in Nat /\ BurstEnd >= 2
         /\ AccessEnd = BurstEnd + SC_RCD + 1 /\ ST <= AccessEnd
         /\ mWR \/ mRD => BurstEnd = SC_CL + LENGTH /\ BurstEnd >= 8
<1>1. mLENGTH \in {0, LENGTH}
  BY DEF TInv, TypeOK, SeqTypeOK
<1>2. BurstEnd \in Nat /\ BurstEnd >= 2 /\ AccessEnd = BurstEnd + SC_RCD + 1
  BY <1>1, BurstConstants DEF BurstEnd, AccessEnd
<1>3. ST <= AccessEnd
  BY DEF TInv
<1>4. mWR \/ mRD => BurstEnd = SC_CL + LENGTH /\ BurstEnd >= 8
  BY BurstConstants DEF SideInv, BurstEnd
<1> QED
  BY <1>2, <1>3, <1>4

\* While an access runs nothing but its done pulse moves its request.
LEMMA AccessSide ==
  ASSUME TInv, IInv, SideInv, Clock, ST # 0
  PROVE  /\ mLENGTH' = mLENGTH /\ BurstEnd' = BurstEnd /\ AccessEnd' = AccessEnd /\ mADDR' = mADDR
         /\ mRD' <=> mRD
         /\ mWR' <=> mWR /\ ~mWR_DONE
         /\ ~StartsWrite /\ ~StartsRead
         /\ mWR_DONE => ST = AccessEnd
<1>1. mLENGTH' = mLENGTH /\ mADDR' = mADDR /\ (mWR' => mWR) /\ (mRD' => mRD)
  BY SideStep
<1>2. BurstEnd' = BurstEnd /\ AccessEnd' = AccessEnd
  BY <1>1 DEF BurstEnd, AccessEnd
<1>3. ~mRD_DONE /\ (mWR_DONE => ST = AccessEnd)
  BY DEF IInv, AccessInv
<1> QED
  BY <1>1, <1>2, <1>3, SideStep DEF StartsWrite, StartsRead

\* The request and the sequencer stay in step at every edge.
LEMMA SideInvStep ==
  ASSUME TInv, IInv, SequenceInv, BootInv, IdleInv, SideInv, ChainInv, Clock
  PROVE  SideInv'
<1>1. IInv'
  BY NextInv DEF Next
<1>2. ~Booting => ~Booting'
  BY SequencerSilent
<1>3. mWR' \/ mRD' => ~Booting' /\ mLENGTH' = LENGTH
  BY <1>2, SideStep DEF SideInv, SequenceInv
<1>4. CASE ST = 0
  <2>1. /\ StartsWrite => mWR /\ ~mRD /\ ~mWR_DONE
        /\ StartsRead => mRD /\ ~mWR /\ ~mRD_DONE
    BY <1>4, Lengths, BurstConstants
    DEF IInv, AccessInv, RequestInv, StartsWrite, StartsRead, IdleInv
  <2>2. ST' \in {0, 1} /\ (ST' = 1 => StartsWrite \/ StartsRead)
    BY <1>4, SequencerStep
  <2>3. ST' # 0 => (mWR' <=> ~mRD') /\ (Read' <=> mRD') /\ (Write' <=> mWR')
    BY <1>1, <2>1, <2>2, SequencerStep, SideStep DEF IInv, RequestInv
  <2>4. AccessEnd' > 1 /\ BurstEnd' \in Nat /\ BurstEnd' >= 2
    <3>1. mLENGTH' \in {0, LENGTH}
      BY <1>1 DEF IInv, AccessInv
    <3> QED
      BY <3>1, BurstConstants DEF AccessEnd, BurstEnd
  <2>5. PM_STOP' <=> ST' = BurstEnd' + 1
    <3>1. ST # BurstEnd
      BY <1>4, Lengths
    <3>2. ST' # BurstEnd' + 1
      <4>1. (ST' = 0 \/ ST' = 1) /\ BurstEnd' \in Nat /\ BurstEnd' >= 2
        BY <2>2, <2>4
      <4> QED
        BY <4>1
    <3> QED
      BY <3>1, <3>2, SequencerStep
  <2>6. ST' # 0 => ST' < AccessEnd' /\ ST' # AccessEnd'
    BY <2>2, <2>4
  <2> QED
    BY <1>3, <2>3, <2>5, <2>6 DEF SideInv
<1>5. CASE ST # 0
  <2>1. /\ BurstEnd' = BurstEnd /\ AccessEnd' = AccessEnd /\ (mRD' <=> mRD)
        /\ (mWR' <=> mWR /\ ~mWR_DONE) /\ (mWR_DONE => ST = AccessEnd)
        /\ ~StartsWrite /\ ~StartsRead
    BY <1>5, AccessSide
  <2>2. ST' = IF ST = 1 /\ ~CMD_ACK THEN ST ELSE IF ST # AccessEnd THEN ST + 1 ELSE 0
    BY <1>5, <2>1, SequencerStep
  <2>3. /\ ST \in Nat /\ BurstEnd \in Nat /\ BurstEnd >= 2 /\ AccessEnd = BurstEnd + SC_RCD + 1
        /\ ST <= AccessEnd /\ SC_RCD \in {2, 3}
    BY CountTypes, Lengths, BurstConstants
  <2>4. PM_STOP' <=> ST' = BurstEnd' + 1
    <3>1. ST = BurstEnd <=> ST' = BurstEnd + 1
      BY <1>5, <2>2, <2>3
    <3> QED
      BY <2>1, <3>1, SequencerStep
  <2>5. ASSUME ST' # 0
        PROVE  (mWR' <=> ~mRD') /\ (Read' <=> mRD') /\ (Write' <=> mWR' /\ ST' < AccessEnd')
    <3>1. ST # AccessEnd /\ (Write <=> mWR) /\ (Read <=> mRD) /\ (mWR <=> ~mRD) /\ ~mWR_DONE
      BY <1>5, <2>1, <2>2, <2>3, <2>5 DEF SideInv
    <3>2. ST # AccessEnd - 1 <=> ST' < AccessEnd
      BY <1>5, <2>2, <2>3, <3>1
    <3> QED
      BY <1>5, <2>1, <3>1, <3>2, SequencerStep
  <2>6. ASSUME ST' # 0, mWR', ST' = AccessEnd'
        PROVE  mWR_DONE'
    <3>1. mWR /\ ST = AccessEnd - 1 /\ ST < AccessEnd
      BY <1>5, <2>1, <2>2, <2>3, <2>6
    <3> QED
      BY <1>5, <3>1, StrobeStep DEF SideInv
  <2> QED
    BY <1>3, <2>4, <2>5, <2>6 DEF SideInv
<1> QED
  BY <1>4, <1>5

-----------------------------------------------------------------------------
(* The power-up sequence, slot by slot. *)

\* Nothing of an access is up before the arbiter may grant one.
LEMMA BootQuiet ==
  ASSUME IInv, SideInv, IdleInv, AskedInv, Booting
  PROVE  /\ ST = 0 /\ ~READA /\ ~WRITEA /\ ~do_reada /\ ~do_writea /\ ~Taken
         /\ rw_shift = 0 /\ ~do_rw /\ ~mWR /\ ~mRD
<1>1. ~mWR /\ ~mRD
  BY DEF SideInv
<1>2. ST = 0
  BY <1>1 DEF SideInv
<1>3. ST <= 1
  BY <1>2
<1> QED
  BY <1>1, <1>2, <1>3 DEF IdleInv, AskedInv

\* A command is issued in the third clock of every slot.
LEMMA BootIssues ==
  ASSUME TInv, IInv, SequenceInv, SideInv, IdleInv, AskedInv, BootInv, Booting
  PROVE  /\ Cont \in Nat
         /\ Issuing <=> Cont > FirstRequest /\ Slot = 2
         /\ Issuing => ~REF_REQ
         /\ PRECHARGE \/ REFRESH \/ LOAD_MODE => Cont >= FirstRequest /\ Slot = 1
         /\ Cont > FirstRequest => Slot \in 0 .. 19
<1>1. Cont \in Nat /\ Cont < Ready /\ FirstRequest = INIT_PER + 21
  BY DEF Booting, TInv, TypeOK, DelayTypeOK, FirstRequest
<1>2. Issuing <=> Cont = INIT_PER + 22 \/ Cont = INIT_PER + 202 \/ Cont - 2 \in InitRefreshAt
  BY BootQuiet DEF BootInv, Issuing
<1>3. Cont - 2 \in InitRefreshAt => Cont - 2 >= INIT_PER + 40 /\ Cont - 2 <= INIT_PER + 180
  BY <1>1, RefreshTimes, BurstConstants
<1>4. Cont > FirstRequest => Slot \in 0 .. 19 /\ (Issuing <=> Slot = 2)
  <2>1. SUFFICES ASSUME Cont > FirstRequest
                 PROVE  Slot \in 0 .. 19 /\ (Issuing <=> Slot = 2)
    OBVIOUS
  <2>2. PICK c \in Nat : c = Cont - 1
    BY <1>1, <2>1, BurstConstants
  <2>3. c >= FirstRequest /\ c < Ready /\ c + 1 = Cont /\ c - 1 = Cont - 2
    BY <1>1, <2>1, <2>2, BurstConstants
  <2>4. (c - INIT_PER) % 20 = 1
          <=> c = FirstRequest \/ Cont - 2 \in InitRefreshAt \/ c = INIT_PER + 201
    BY <2>3, RequestSlots
  <2>5. c = FirstRequest <=> Cont = INIT_PER + 22
    BY <1>1, <2>2, BurstConstants
  <2>6. c = INIT_PER + 201 <=> Cont = INIT_PER + 202
    BY <1>1, <2>2, BurstConstants
  <2>7. /\ (c - INIT_PER) % 20 \in 0 .. 19
        /\ Slot = IF (c - INIT_PER) % 20 = 19 THEN 0 ELSE ((c - INIT_PER) % 20) + 1
    <3>1. Slot = (c + 1 - INIT_PER) % 20
      BY <2>3, BurstConstants DEF Slot
    <3> QED
      BY <2>3, <3>1, Slots
  <2>8. Slot \in 0 .. 19 /\ (Slot = 2 <=> (c - INIT_PER) % 20 = 1)
    BY <2>7
  <2> QED
    BY <1>2, <2>4, <2>5, <2>6, <2>8
<1>5. Issuing => Cont > FirstRequest
  BY <1>1, <1>2, <1>3, BurstConstants
<1>6. Issuing => ~REF_REQ
  <2>1. Issuing => Cont # 1 /\ ~(Cont > InitEnd + 1)
    BY <1>1, <1>2, <1>3, BurstConstants
  <2> QED
    BY <2>1 DEF BootInv
<1>7. ASSUME PRECHARGE \/ REFRESH \/ LOAD_MODE
      PROVE  Cont >= FirstRequest /\ Slot = 1
  <2>1. Cont = FirstRequest \/ Cont - 1 \in InitRefreshAt \/ Cont = INIT_PER + 201
    BY <1>7 DEF SequenceInv
  <2>2. Cont - 1 \in InitRefreshAt => Cont - 1 >= INIT_PER + 40
    BY <1>1, RefreshTimes, BurstConstants
  <2>3. Cont >= FirstRequest
    BY <1>1, <2>1, <2>2, BurstConstants
  <2> QED
    BY <1>1, <2>1, <2>3, RequestSlots DEF Slot
<1> QED
  BY <1>1, <1>4, <1>5, <1>6, <1>7

\* The next clock of the slot.
LEMMA SlotStep ==
  ASSUME TInv, Clock, Cont < Ready
  PROVE  /\ Cont \in Nat /\ Cont' = Cont + 1
         /\ Cont >= FirstRequest => Slot \in 0 .. 19 /\ Slot' = IF Slot = 19 THEN 0 ELSE Slot + 1
<1>1. Cont \in Nat /\ Cont' = Cont + 1
  BY CountStep, BurstConstants
<1>2. Slot' = (Cont + 1 - INIT_PER) % 20
  BY <1>1, BurstConstants DEF Slot
<1> QED
  BY <1>1, <1>2, Slots DEF Slot

\* Each block of command.v and the decoder, in the power-up sequence.
LEMMA BootStep ==
  ASSUME TInv, IInv, SequenceInv, SideInv, IdleInv, AskedInv, BootInv, Booting, Clock
  PROVE  /\ do_precharge' <=> Cont' = INIT_PER + 22
         /\ do_load_mode' <=> Cont' = INIT_PER + 202
         /\ do_refresh' <=> Cont' - 2 \in InitRefreshAt
         /\ ~do_reada' /\ ~do_writea' /\ ~Taken' /\ ~rw_flag' /\ ~REF_ACK'
         /\ rw_shift' = 0 /\ ~do_rw'
<1>1. /\ CmdClock(SADDR, READA, WRITEA, REFRESH, PRECHARGE, LOAD_MODE, REF_REQ,
                  INIT_REQ, PM_STOP)
  BY Edge
<1>2. /\ Cont \in Nat /\ Cont' = Cont + 1 /\ Cont < Ready
  BY SlotStep DEF Booting
<1>3. /\ ~READA /\ ~WRITEA /\ ~do_reada /\ ~do_writea /\ ~Taken /\ rw_shift = 0 /\ ~do_rw
  BY BootQuiet
<1>4. rw_shift' = 0 /\ ~do_rw'
  BY <1>1, <1>3, RcdStep, BurstConstants DEF CmdClock
<1>5. ~REF_ACK'
  BY <1>1, BootIssues DEF CmdClock, Acknowledge, BootInv, Issuing
<1>6. CASE INIT_REQ
  <2>1. ClearIssue(TRUE)
    BY <1>1, <1>6 DEF CmdClock, IssueCommand
  <2>2. Cont \in 1 .. INIT_PER
    BY <1>6 DEF SequenceInv
  <2>3. Cont' # INIT_PER + 22 /\ Cont' # INIT_PER + 202
    BY <1>2, <2>2, BurstConstants
  <2>4. Cont' - 2 \notin InitRefreshAt
    BY <1>2, <2>2, RefreshTimes, BurstConstants
  <2> QED
    BY <1>4, <1>5, <2>1, <2>3, <2>4 DEF ClearIssue, Taken
<1>7. CASE ~INIT_REQ
  <2>1. /\ Requests(READA, WRITEA, REFRESH, PRECHARGE, LOAD_MODE, REF_REQ)
        /\ CommandDelay /\ PrechargeTimer(PM_STOP)
    BY <1>1, <1>7 DEF CmdClock, IssueCommand
  <2>2. ~do_reada' /\ ~do_writea'
    BY <1>3, <2>1 DEF Requests
  <2>3. ~Taken' /\ ~rw_flag'
    BY <1>3, <2>1, <2>2, PrechargeStep, SettleStep DEF Taken, BootInv
  <2>4. /\ do_refresh' <=> (REF_REQ \/ REFRESH) /\ RefreshFree
        /\ do_precharge' <=> PRECHARGE /\ ~command_done /\ ~do_precharge
        /\ do_load_mode' <=> LOAD_MODE /\ ~command_done /\ ~do_load_mode
    BY <2>1 DEF Requests
  <2>5. PRECHARGE \/ REFRESH \/ LOAD_MODE => ~command_done /\ ~rp_done /\ ~Issuing
    BY BootIssues DEF BootInv
  <2>6. ~(REF_REQ /\ RefreshFree)
    <3>1. SUFFICES ASSUME REF_REQ PROVE command_done
      BY DEF RefreshFree
    <3>2. Cont > InitEnd + 1
      BY <1>7, <3>1, BurstConstants DEF BootInv, SequenceInv
    <3>3. Cont = INIT_PER + 203 \/ Cont = INIT_PER + 204
      BY <1>2, <3>2, BurstConstants
    <3>4. Slot \in 3 .. 11 /\ Cont > FirstRequest
      BY <1>2, <3>3, BurstConstants DEF Slot, FirstRequest
    <3> QED
      BY <3>4 DEF BootInv
  <2>7. RefreshFree <=> ~command_done /\ ~rp_done /\ ~do_refresh
    BY <1>3 DEF RefreshFree
  <2>8. /\ PRECHARGE <=> Cont' = INIT_PER + 22
        /\ LOAD_MODE <=> Cont' = INIT_PER + 202
        /\ REFRESH <=> Cont' - 2 \in InitRefreshAt
    <3>1. Cont' - 2 = Cont - 1 /\ (Cont = FirstRequest <=> Cont' = INIT_PER + 22)
          /\ (Cont = INIT_PER + 201 <=> Cont' = INIT_PER + 202)
      BY <1>2, BurstConstants DEF FirstRequest
    <3> QED
      BY <3>1 DEF SequenceInv
  <2> QED
    BY <1>4, <1>5, <2>2, <2>3, <2>4, <2>5, <2>6, <2>7, <2>8 DEF Issuing
<1> QED
  BY <1>6, <1>7

\* The chain of a power-up command: settling, precharge time, acknowledges.
LEMMA BootChain ==
  ASSUME TInv, IInv, SequenceInv, SideInv, IdleInv, AskedInv, BootInv, ChainInv, Booting, Clock
  PROVE  /\ command_done' <=> Cont' > FirstRequest /\ Slot' \in 3 .. 11
         /\ command_delay' = IF command_done' THEN 11 - Slot' ELSE 0
         /\ rp_done' <=> Cont' > FirstRequest /\ Slot' \in 12 .. 16
         /\ rp_shift' = IF rp_done' THEN 16 - Slot' ELSE 0
         /\ CM_ACK' <=> Cont' > FirstRequest /\ Slot' = 3
         /\ CMD_ACK' <=> Cont' > FirstRequest /\ Slot' = 4
<1>1. /\ CmdClock(SADDR, READA, WRITEA, REFRESH, PRECHARGE, LOAD_MODE, REF_REQ,
                  INIT_REQ, PM_STOP)
      /\ AckHost(CM_ACK)
  BY Edge DEF IfcClock
<1>2. /\ Cont \in Nat /\ Cont' = Cont + 1 /\ Cont < Ready /\ FirstRequest = INIT_PER + 21
      /\ FirstRequest \in Nat
  BY SlotStep, BurstConstants DEF Booting, FirstRequest
<1>3. ~REF_ACK /\ ~Taken /\ (Issuing => ~REF_REQ) /\ (Issuing <=> Cont > FirstRequest /\ Slot = 2)
  BY BootQuiet, BootIssues DEF BootInv
<1>4. CM_ACK' <=> Issuing
  BY <1>1, <1>3, AckStep DEF CmdClock, Issuing
<1>5. CMD_ACK' <=> CM_ACK /\ ~CMD_ACK
  BY <1>1, AckStep DEF CmdClock
<1>6. CASE Cont <= FirstRequest
  <2>1. ~Issuing /\ ~command_done /\ command_delay = 0 /\ ~rp_done /\ rp_shift = 0 /\ ~CM_ACK
    BY <1>2, <1>3, <1>6 DEF BootInv
  <2>2. ~command_done' /\ command_delay' = 0 /\ ~rp_done' /\ rp_shift' = 0
    <3>1. CASE INIT_REQ
      BY <1>1, <3>1 DEF CmdClock, IssueCommand, ClearIssue
    <3>2. CASE ~INIT_REQ
      <4>1. CommandDelay /\ PrechargeTimer(PM_STOP)
        BY <1>1, <3>2 DEF CmdClock, IssueCommand
      <4> QED
        BY <1>3, <2>1, <4>1, SettleStep, PrechargeStep DEF Settled
    <3> QED
      BY <3>1, <3>2
  <2>3. ~CM_ACK' /\ ~CMD_ACK'
    BY <1>4, <1>5, <2>1
  <2>4. Cont' > FirstRequest => Slot' = 2
    <3>1. Cont' > FirstRequest => Cont = FirstRequest
      BY <1>2, <1>6
    <3>2. Cont = FirstRequest => Slot = 1
      <4>1. (INIT_PER + 21 - INIT_PER) % 20 = 1
        BY BurstConstants
      <4> QED
        BY <1>2, <4>1, BurstConstants DEF Slot
    <3> QED
      BY <1>2, <3>1, <3>2, SlotStep
  <2>5. ~(Cont' > FirstRequest /\ Slot' \in 3 .. 16)
    BY <2>4
  <2> QED
    BY <2>2, <2>3, <2>4
<1>7. CASE Cont > FirstRequest
  <2>1. ~INIT_REQ
    BY <1>2, <1>7, BurstConstants DEF SequenceInv
  <2>2. CommandDelay /\ PrechargeTimer(PM_STOP)
    BY <1>1, <2>1 DEF CmdClock, IssueCommand
  <2>3. /\ Slot \in 0 .. 19 /\ Cont' > FirstRequest
        /\ Slot' = IF Slot = 19 THEN 0 ELSE Slot + 1
    BY <1>2, <1>7, SlotStep
  <2>4. /\ command_done <=> Slot \in 3 .. 11
        /\ command_delay = IF Slot \in 3 .. 11 THEN 11 - Slot ELSE 0
        /\ rp_done <=> Slot \in 12 .. 16
        /\ rp_shift = IF Slot \in 12 .. 16 THEN 16 - Slot ELSE 0
        /\ Issuing <=> Slot = 2
        /\ CM_ACK <=> Slot = 3
        /\ CMD_ACK <=> Slot = 4
    BY <1>2, <1>3, <1>7 DEF BootInv
  <2>5. Settled <=> Slot = 11
    BY <2>3, <2>4 DEF Settled
  <2>6. /\ command_delay > 0 <=> Slot \in 3 .. 10
        /\ rp_shift > 0 <=> Slot \in 12 .. 15
    BY <2>3, <2>4
  <2>7. command_done' <=> Slot' \in 3 .. 11
    BY <2>2, <2>3, <2>4, <2>6, SettleStep
  <2>8. command_delay' = IF Slot' \in 3 .. 11 THEN 11 - Slot' ELSE 0
    BY <2>2, <2>3, <2>4, <2>6, SettleStep
  <2>9. rp_done' <=> Slot' \in 12 .. 16
    BY <1>3, <2>2, <2>3, <2>5, <2>6, PrechargeStep
  <2>10. rp_shift' = IF Slot' \in 12 .. 16 THEN 16 - Slot' ELSE 0
    BY <1>3, <2>2, <2>3, <2>4, <2>5, <2>6, PrechargeStep
  <2>11. /\ CM_ACK' <=> Slot' = 3
         /\ CMD_ACK' <=> Slot' = 4
    BY <1>4, <1>5, <2>3, <2>4
  <2> QED
    BY <2>3, <2>7, <2>8, <2>9, <2>10, <2>11
<1> QED
  BY <1>2, <1>6, <1>7

\* The refresh timer in the power-up sequence: no request before its end.
LEMMA BootTimer ==
  ASSUME TInv, IInv, SequenceInv, SideInv, IdleInv, AskedInv, BootInv, Booting, Clock
  PROVE  /\ Cont' \in 1 .. INIT_PER => timer' > 0
         /\ Cont' \in INIT_PER + 1 .. InitEnd => timer' > InitEnd - Cont'
         /\ REF_REQ' => Cont' = 1 \/ Cont' > InitEnd + 1
         /\ REF_REQ' <=> timer = 0 \/ (REF_REQ /\ ~INIT_REQ)
         /\ timer' = IF INIT_REQ THEN REF_PER + 200 ELSE IF timer = 0 THEN 65535 ELSE timer - 1
<1>1. RefreshTimer(REF_ACK) /\ ~REF_ACK
  BY Edge DEF IfcClock, BootInv
<1>2. Cont \in Nat /\ Cont' = Cont + 1 /\ timer \in Nat /\ timer < 65536
  BY SlotStep, CountTypes DEF Booting
<1>3. (timer + 2^16 - 1) % 2^16 = IF timer = 0 THEN 65535 ELSE timer - 1
  <2>1. 2^16 = 65536
    OBVIOUS
  <2> QED
    BY <1>2, <2>1, TimerWraps
<1>4. timer' = IF INIT_REQ THEN REF_PER + 200 ELSE IF timer = 0 THEN 65535 ELSE timer - 1
  <2>1. timer' = IF INIT_REQ THEN REF_PER + 200 ELSE (timer + 2^16 - 1) % 2^16
    BY <1>1 DEF RefreshTimer
  <2> QED
    BY <1>3, <2>1
<1>5. REF_REQ' <=> timer = 0 \/ (REF_REQ /\ ~INIT_REQ)
  BY <1>1 DEF RefreshTimer
<1>6. /\ INIT_REQ <=> Cont \in 1 .. INIT_PER
      /\ Cont = 0 => timer = 0
      /\ Cont \in 1 .. INIT_PER => timer > 0
      /\ Cont \in INIT_PER + 1 .. InitEnd => timer > InitEnd - Cont
      /\ REF_REQ => Cont = 1 \/ Cont > InitEnd + 1
  BY DEF SequenceInv, BootInv
<1>7. Cont = 0 \/ Cont \in 1 .. INIT_PER \/ Cont \in INIT_PER + 1 .. InitEnd \/ Cont > InitEnd
  BY <1>2, BurstConstants
<1>8. Cont' \in 1 .. INIT_PER => timer' > 0
  BY <1>2, <1>4, <1>6, BurstConstants
<1>9. Cont' \in INIT_PER + 1 .. InitEnd => timer' > InitEnd - Cont'
  BY <1>2, <1>4, <1>6, <1>7, BurstConstants
<1>10. REF_REQ' => Cont' = 1 \/ Cont' > InitEnd + 1
  BY <1>2, <1>5, <1>6, <1>7, BurstConstants
<1> QED
  BY <1>4, <1>5, <1>8, <1>9, <1>10

\* The power-up sequence keeps its shape to the last clock, and leaves the
\* chain idle of acknowledges and accesses.
LEMMA BootInvStep ==
  ASSUME TInv, IInv, SequenceInv, SideInv, IdleInv, AskedInv, BootInv, ChainInv, Clock
  PROVE  BootInv'
<1>1. CASE Booting
  <2>1. /\ Cont' # 0 /\ InitEnd' = InitEnd
        /\ FirstRequest' = FirstRequest /\ InitRefreshAt' = InitRefreshAt
    BY <1>1, SlotStep DEF Booting, InitEnd, FirstRequest, InitRefreshAt
  <2> QED
    BY <1>1, <2>1, BootStep, BootChain, BootTimer DEF BootInv
<1>2. CASE ~Booting
  BY <1>2, SequencerSilent DEF BootInv
<1> QED
  BY <1>1, <1>2

-----------------------------------------------------------------------------
(* One clock of an access. *)

\* Booting, the chain keeps its shape and no access starts.
LEMMA BootKeepsQuiet ==
  ASSUME TInv, IInv, ControlInv, Booting, Clock
  PROVE  IdleInv' /\ AskedInv' /\ TakenInv' /\ RunInv' /\ ChainInv'
<1> USE DEF ControlInv
<1>1. /\ ST = 0 /\ ~READA /\ ~WRITEA /\ ~Taken /\ ~mWR /\ ~mRD
      /\ ~do_reada' /\ ~do_writea' /\ ~Taken' /\ ~REF_ACK' /\ rw_shift' = 0 /\ ~do_rw'
  BY BootQuiet, BootStep
<1>2. ~StartsWrite /\ ~StartsRead
  BY <1>1 DEF StartsWrite, StartsRead
<1>3. ST' = 0 /\ CMD' = "NOP" /\ ~Read' /\ ~Write' /\ ~READA' /\ ~WRITEA'
  BY <1>1, <1>2, SequencerStep DEF IdleInv
<1>4. ~Pre_WR' /\ ~Pre_RD'
  BY <1>1, SequencerStep
<1>5. IdleInv'
  BY <1>1, <1>3, <1>4 DEF IdleInv
<1>6. Cont \in Nat /\ Cont' = Cont + 1 /\ Cont < Ready /\ FirstRequest = INIT_PER + 21
  BY SlotStep DEF Booting, FirstRequest
<1>7. ~Booting' => ~CM_ACK' /\ ~CMD_ACK'
  <2>1. SUFFICES ASSUME ~Booting' PROVE ~CM_ACK' /\ ~CMD_ACK'
    OBVIOUS
  <2>2. Cont' = INIT_PER + 205
    BY <1>6, <2>1, BurstConstants DEF Booting
  <2>3. (INIT_PER + 205 - INIT_PER) % 20 = 5
    BY BurstConstants
  <2>4. Slot' = 5
    BY <2>2, <2>3, BurstConstants DEF Slot
  <2> QED
    BY <2>4, BootChain
<1>8. AskedInv'
  <2>1. ST' # 1
    BY <1>3
  <2> QED
    BY <1>1, <1>3, <1>7, <2>1 DEF AskedInv
<1>9. TakenInv' /\ RunInv'
  <2>1. ST' # 1 /\ ~(ST' >= 2)
    BY <1>3
  <2> QED
    BY <2>1 DEF TakenInv, RunInv
<1>10. /\ do_precharge' <=> PRECHARGE
       /\ do_load_mode' <=> LOAD_MODE
       /\ do_refresh' <=> REFRESH
  <2>1. /\ Cont' = INIT_PER + 22 <=> Cont = FirstRequest
        /\ Cont' = INIT_PER + 202 <=> Cont = INIT_PER + 201
        /\ Cont' - 2 = Cont - 1
    BY <1>6, BurstConstants
  <2> QED
    BY <2>1, BootStep DEF SequenceInv
<1>11. Issuing' => Slot' = 2
  <2>1. Issuing' => Cont >= FirstRequest /\ Slot = 1
    BY <1>1, <1>10, BootIssues DEF Issuing
  <2> QED
    BY <1>6, <2>1, SlotStep
<1>12. /\ Cont' > FirstRequest => Slot' \in 0 .. 19
       /\ command_done' <=> Cont' > FirstRequest /\ Slot' \in 3 .. 11
       /\ command_delay' = IF command_done' THEN 11 - Slot' ELSE 0
       /\ rp_done' <=> Cont' > FirstRequest /\ Slot' \in 12 .. 16
       /\ rp_shift' = IF rp_done' THEN 16 - Slot' ELSE 0
  <2>1. Cont' > FirstRequest => Cont >= FirstRequest
    BY <1>6, BurstConstants
  <2>2. Cont' > FirstRequest => Slot' \in 0 .. 19
    BY <2>1, SlotStep, <1>6
  <2> QED
    BY <2>2, BootChain
<1>13. ~Booting' => ~Issuing'
  <2>1. SUFFICES ASSUME ~Booting', Issuing' PROVE FALSE
    OBVIOUS
  <2>2. Cont' = INIT_PER + 205
    BY <1>6, <2>1, BurstConstants DEF Booting
  <2>3. (INIT_PER + 205 - INIT_PER) % 20 = 5
    BY BurstConstants
  <2>4. Slot' = 5
    BY <2>2, <2>3, BurstConstants DEF Slot
  <2> QED
    BY <1>11, <2>1, <2>4
<1>14. /\ command_delay' > 0 => command_done'
       /\ rp_shift' > 0 => rp_done'
       /\ command_done' => ~rp_done' /\ ~Issuing'
       /\ rp_done' => ~Issuing'
  BY <1>11, <1>12
<1>15. ChainInv'
  BY <1>1, <1>13, <1>14 DEF ChainInv, Issuing
<1> QED
  BY <1>5, <1>8, <1>9, <1>15

\* While command.v has the access and its stop has not come, the page burst
\* stays open, and no other access or refresh is taken.
LEMMA TakenStep ==
  ASSUME TInv, IInv, ControlInv, Clock, ~Booting, Taken, RESET_N,
         ST # BurstEnd + 1, do_reada => mRD, do_writea => mWR, READA => mRD, WRITEA => mWR,
         do_reada \/ do_writea \/ command_done \/ rp_done
  PROVE  /\ ~do_reada' /\ ~do_writea' /\ ~do_refresh' /\ ~do_refresh
         /\ (ex_read' <=> ex_read) /\ (ex_write' <=> ex_write)
         /\ (Issuing <=> do_reada \/ do_writea)
         /\ CM_ACK' <=> do_reada \/ do_writea
         /\ CMD_ACK' <=> CM_ACK /\ ~CMD_ACK
<1> USE DEF ControlInv
<1>1. ~do_refresh
  BY DEF ChainInv
<1>2. ~(mWR /\ mRD)
  BY DEF IInv, RequestInv
<1>3. ~do_reada' /\ ~do_writea' /\ ~do_refresh'
  BY <1>2, RequestStep DEF Resting, RefreshFree
<1>4. ~PM_STOP
  BY DEF SideInv
<1>5. (ex_read' <=> ex_read) /\ (ex_write' <=> ex_write)
  BY <1>3, <1>4, RequestStep, PrechargeStep
<1>6. Issuing <=> do_reada \/ do_writea
  BY <1>1, RequestStep
<1>7. (CM_ACK' <=> do_reada \/ do_writea) /\ (CMD_ACK' <=> CM_ACK /\ ~CMD_ACK)
  BY <1>1, <1>6, RequestStep, AckStep
<1> QED
  BY <1>1, <1>3, <1>5, <1>6, <1>7

\* Between accesses: the arbiter may grant one and the sequencer start it.
LEMMA FromIdle ==
  ASSUME TInv, IInv, ControlInv, Clock, ~Booting, ST = 0
  PROVE  IdleInv' /\ AskedInv' /\ TakenInv' /\ RunInv'
<1> USE DEF ControlInv
<1>1. SideInv' /\ IInv'
  BY SideInvStep, NextInv DEF Next
<1>2. /\ ~READA /\ ~WRITEA /\ ~Taken /\ ~do_reada /\ ~do_writea /\ rw_shift = 0 /\ ~do_rw
      /\ ~CM_ACK /\ ~CMD_ACK /\ CMD = "NOP" /\ ~Read /\ ~Write
  <2>1. ST <= 1
    OBVIOUS
  <2> QED
    BY <2>1 DEF IdleInv, AskedInv
<1>3. ~do_reada' /\ ~do_writea' /\ ~Taken' /\ ~READA' /\ ~WRITEA'
  BY <1>2, RequestStep, PrechargeStep, SequencerStep DEF Taken
<1>4. rw_shift' = 0 /\ ~do_rw'
  BY <1>2, RequestStep, RcdStep, BurstConstants
<1>5. ~CM_ACK' /\ ~CMD_ACK'
  BY <1>2, RequestStep, AckStep DEF ChainInv
<1>6. /\ StartsWrite => mWR' /\ ~mRD'
      /\ StartsRead => mRD' /\ ~mWR'
  <2>1. /\ StartsWrite => mWR /\ ~mRD /\ ~mWR_DONE
        /\ StartsRead => mRD /\ ~mWR /\ ~mRD_DONE
    BY Lengths, BurstConstants DEF IInv, AccessInv, RequestInv, StartsWrite, StartsRead, IdleInv
  <2> QED
    BY <1>1, <2>1, SideStep DEF IInv, RequestInv
<1>7. \/ StartsWrite /\ ST' = 1 /\ CMD' = "WRITEA"
      \/ StartsRead /\ ST' = 1 /\ CMD' = "READA"
      \/ ~StartsWrite /\ ~StartsRead /\ ST' = 0 /\ CMD' = "NOP" /\ ~Read' /\ ~Write'
  BY <1>2, SequencerStep
<1>8. AskedInv'
  <2>1. ST' = 1 => CMD' = IF mWR' THEN "WRITEA" ELSE "READA"
    BY <1>6, <1>7
  <2> QED
    BY <1>3, <1>4, <1>5, <2>1 DEF AskedInv
<1>9. TakenInv' /\ RunInv'
  <2>1. ~(ST' >= 2)
    BY <1>7
  <2> QED
    BY <1>3, <2>1 DEF TakenInv, RunInv
<1>10. ASSUME ST' = 0
       PROVE  IdleInv'
  <2>1. ~StartsWrite /\ ~StartsRead /\ ST' = 0 /\ CMD' = "NOP" /\ ~Read' /\ ~Write'
    BY <1>7, <1>10
  <2>2. ~mWR /\ (mRD => mRD_DONE)
    BY <2>1 DEF IdleInv, StartsWrite, StartsRead
  <2>3. (mWR' => ~Pre_WR') /\ (mRD' => ~Pre_RD')
    BY <2>2, SequencerStep, SideStep
  <2> QED
    BY <1>3, <2>1, <2>3 DEF IdleInv
<1> QED
  BY <1>8, <1>9, <1>10 DEF IdleInv

\* An access is asked for: it stays so, or command.v takes it.
LEMMA FromAsked ==
  ASSUME TInv, IInv, ControlInv, Clock, ~Booting, ST = 1, ~Taken
  PROVE  IdleInv' /\ AskedInv' /\ TakenInv' /\ RunInv'
<1> USE DEF ControlInv
<1>1. /\ ~do_reada /\ ~do_writea /\ rw_shift = 0 /\ ~do_rw /\ ~CM_ACK /\ ~CMD_ACK
      /\ (READA => mRD) /\ (WRITEA => mWR) /\ (mWR <=> ~mRD)
      /\ CMD = IF mWR THEN "WRITEA" ELSE "READA"
  <2>1. ST <= 1
    OBVIOUS
  <2> QED
    BY <2>1 DEF AskedInv, SideInv
<1>2. /\ ~StartsWrite /\ ~StartsRead /\ (mRD' <=> mRD) /\ (mWR' <=> mWR)
  <2>1. ~mWR_DONE
    BY Lengths, BurstConstants DEF IInv, AccessInv
  <2> QED
    BY <2>1, AccessSide
<1>3. /\ ST' = 1 /\ CMD' = CMD /\ (READA' <=> CMD = "READA") /\ (WRITEA' <=> CMD = "WRITEA")
  BY <1>1, <1>2, SequencerStep
<1>4. (READA' <=> mRD) /\ (WRITEA' <=> mWR)
  BY <1>1, <1>3
<1>5. rw_shift' = 0 /\ ~do_rw'
  BY <1>1, RequestStep, RcdStep, BurstConstants
<1>6. ~CM_ACK' /\ ~CMD_ACK'
  BY <1>1, RequestStep, AckStep DEF ChainInv
<1>7. (ex_read' <=> do_reada') /\ (ex_write' <=> do_writea')
  BY RequestStep, PrechargeStep DEF Taken
<1>8. /\ do_reada' => mRD /\ Resting /\ ~REF_REQ
      /\ do_writea' => mWR /\ Resting /\ ~REF_REQ
  BY <1>1, RequestStep
<1>9. AskedInv'
  <2>1. CMD' = IF mWR' THEN "WRITEA" ELSE "READA"
    BY <1>1, <1>2, <1>3
  <2>2. ~Taken' => ~do_reada' /\ ~do_writea'
    BY <1>7 DEF Taken
  <2> QED
    BY <1>2, <1>4, <1>5, <1>6, <2>1, <2>2 DEF AskedInv
<1>10. ASSUME Taken'
       PROVE  TakenInv'
  <2>1. do_reada' \/ do_writea'
    BY <1>7, <1>10 DEF Taken
  <2>2. Resting /\ ~REF_REQ
    BY <1>8, <2>1
  <2>3. ~(command_delay > 0) /\ ~Issuing
    BY <1>1, <2>2, RequestStep DEF Resting, ChainInv
  <2>4. ~command_done' /\ command_delay' = 0
    BY <2>3, RequestStep, SettleStep
  <2>5. Pulsed' /\ ~Settling' /\ ~Acked'
    BY <1>3, <1>10, <2>4 DEF Pulsed, Settling, Acked
  <2>6. (do_reada' <=> mRD') /\ (do_writea' <=> mWR')
    BY <1>1, <1>2, <1>8, <2>1
  <2>7. CMD' = IF mWR' THEN "WRITEA" ELSE "READA"
    BY <1>1, <1>2, <1>3
  <2> QED
    BY <1>2, <1>4, <1>5, <1>6, <1>7, <2>5, <2>6, <2>7 DEF TakenInv
<1>11. IdleInv' /\ RunInv'
  <2>1. ST' # 0 /\ ~(ST' >= 2)
    BY <1>3
  <2> QED
    BY <2>1 DEF IdleInv, RunInv
<1> QED
  BY <1>9, <1>10, <1>11 DEF TakenInv

\* What the three clocks until the acknowledge have in common.
LEMMA TakenSide ==
  ASSUME TInv, IInv, ControlInv, Clock, ~Booting, ST = 1, Taken, RESET_N
  PROVE  /\ ~StartsWrite /\ ~StartsRead /\ (mRD' <=> mRD) /\ (mWR' <=> mWR) /\ (mWR <=> ~mRD)
         /\ BurstEnd' = BurstEnd /\ BurstEnd >= 8 /\ BurstEnd \in Nat
         /\ (ex_read' <=> mRD) /\ (ex_write' <=> mWR)
         /\ ~do_reada' /\ ~do_writea' /\ ~do_refresh' /\ ~do_refresh
         /\ (Issuing <=> do_reada \/ do_writea)
         /\ (CM_ACK' <=> do_reada \/ do_writea)
         /\ (CMD_ACK' <=> CM_ACK /\ ~CMD_ACK)
         /\ CMD = (IF mWR THEN "WRITEA" ELSE "READA")
         /\ (READA' <=> mRD) /\ (WRITEA' <=> mWR)
<1> USE DEF ControlInv
<1>1. /\ (mWR <=> ~mRD) /\ CMD = IF mWR THEN "WRITEA" ELSE "READA"
  BY DEF SideInv, TakenInv
<1>2. /\ ~StartsWrite /\ ~StartsRead /\ (mRD' <=> mRD) /\ (mWR' <=> mWR) /\ BurstEnd' = BurstEnd
  <2>1. ~mWR_DONE
    BY Lengths, BurstConstants DEF IInv, AccessInv
  <2> QED
    BY <2>1, AccessSide
<1>3. BurstEnd >= 8 /\ BurstEnd \in Nat /\ ST # BurstEnd + 1
  BY <1>1, Lengths
<1>4. /\ (READA <=> mRD) /\ (WRITEA <=> mWR) /\ (ex_read <=> mRD) /\ (ex_write <=> mWR)
      /\ (do_reada => mRD) /\ (do_writea => mWR)
  BY DEF TakenInv
<1>5. do_reada \/ do_writea \/ command_done \/ rp_done
  BY TakenBusy
<1>6. /\ ~do_reada' /\ ~do_writea' /\ ~do_refresh' /\ ~do_refresh
      /\ (ex_read' <=> mRD) /\ (ex_write' <=> mWR)
      /\ (Issuing <=> do_reada \/ do_writea)
      /\ (CM_ACK' <=> do_reada \/ do_writea)
      /\ (CMD_ACK' <=> CM_ACK /\ ~CMD_ACK)
  BY <1>3, <1>4, <1>5, TakenStep
<1>7. (READA' <=> mRD) /\ (WRITEA' <=> mWR)
  BY <1>1, SequencerStep
<1> QED
  BY <1>1, <1>2, <1>3, <1>6, <1>7

\* Its pulse is followed by the settling time and the acknowledge of command.v.
LEMMA FromPulsed ==
  ASSUME TInv, IInv, ControlInv, Clock, ~Booting, Pulsed, RESET_N
  PROVE  IdleInv' /\ AskedInv' /\ TakenInv' /\ RunInv'
<1> USE DEF ControlInv
<1>1. ST = 1 /\ Taken /\ ~command_done /\ ~Settling /\ ~Acked
  BY DEF Pulsed, Settling, Acked, ChainInv
<1>2. /\ (do_reada <=> mRD) /\ (do_writea <=> mWR) /\ ~CM_ACK /\ ~CMD_ACK /\ rw_shift = 0 /\ ~do_rw
  BY <1>1 DEF TakenInv
<1>3. /\ (mRD' <=> mRD) /\ (mWR' <=> mWR) /\ (mWR <=> ~mRD) /\ Issuing
      /\ ~StartsWrite /\ ~StartsRead /\ CMD = IF mWR THEN "WRITEA" ELSE "READA"
  BY <1>1, <1>2, TakenSide
<1>4. ST' = 1 /\ CMD' = CMD
  BY <1>1, <1>2, <1>3, SequencerStep
<1>5. /\ command_done' /\ command_delay' = 8 /\ (rw_flag' <=> mRD)
  BY <1>2, <1>3, RequestStep, SettleStep
<1>6. Taken' /\ ~Pulsed' /\ Settling' /\ ~Acked'
  <2>1. Taken'
    BY <1>1, <1>3, TakenSide DEF Taken
  <2> QED
    BY <1>4, <1>5, <2>1 DEF Pulsed, Settling, Acked
<1>7. rw_shift' = SC_RCD - 1 /\ ~do_rw'
  BY <1>2, <1>3, RequestStep, RcdStep, BurstConstants
<1>8. TakenInv'
  <2>1. CMD' = IF mWR' THEN "WRITEA" ELSE "READA"
    BY <1>3, <1>4
  <2> QED
    BY <1>1, <1>2, <1>3, <1>5, <1>6, <1>7, <2>1, TakenSide DEF TakenInv
<1> QED
  BY <1>4, <1>6, <1>8 DEF IdleInv, AskedInv, RunInv

\* The settling clock is followed by the acknowledge.
LEMMA FromSettling ==
  ASSUME TInv, IInv, ControlInv, Clock, ~Booting, Settling, RESET_N
  PROVE  IdleInv' /\ AskedInv' /\ TakenInv' /\ RunInv'
<1> USE DEF ControlInv
<1>1. ST = 1 /\ Taken /\ command_delay = 8 /\ command_done /\ ~Pulsed /\ ~Acked
  BY DEF Pulsed, Settling, Acked, ChainInv
<1>2. /\ ~do_reada /\ ~do_writea /\ CM_ACK /\ ~CMD_ACK /\ rw_shift = SC_RCD - 1 /\ ~do_rw
      /\ (rw_flag <=> mRD)
  BY <1>1 DEF TakenInv
<1>3. /\ (mRD' <=> mRD) /\ (mWR' <=> mWR) /\ (mWR <=> ~mRD) /\ ~Issuing
      /\ ~StartsWrite /\ ~StartsRead /\ CMD = IF mWR THEN "WRITEA" ELSE "READA"
  BY <1>1, <1>2, TakenSide
<1>4. ST' = 1 /\ CMD' = CMD
  BY <1>1, <1>2, <1>3, SequencerStep
<1>5. /\ command_done' /\ command_delay' = 7 /\ (rw_flag' <=> mRD)
  BY <1>1, <1>2, <1>3, RequestStep, SettleStep
<1>6. Taken' /\ ~Pulsed' /\ ~Settling' /\ Acked'
  <2>1. Taken'
    BY <1>1, <1>3, TakenSide DEF Taken
  <2> QED
    BY <1>4, <1>5, <2>1 DEF Pulsed, Settling, Acked
<1>7. rw_shift' = SC_RCD - 2 /\ (do_rw' <=> SC_RCD = 2)
  <2>1. \/ rw_shift = 1 /\ SC_RCD = 2
        \/ rw_shift = 2 /\ SC_RCD = 3
    BY <1>2, BurstConstants
  <2>2. rw_shift' = (IF rw_shift = 2 THEN 1 ELSE 0) /\ (do_rw' <=> rw_shift = 1)
    BY <1>2, <2>1, RequestStep, RcdStep
  <2> QED
    BY <2>1, <2>2
<1>8. TakenInv'
  <2>1. CMD' = IF mWR' THEN "WRITEA" ELSE "READA"
    BY <1>3, <1>4
  <2> QED
    BY <1>1, <1>2, <1>3, <1>5, <1>6, <1>7, <2>1, TakenSide DEF TakenInv
<1> QED
  BY <1>4, <1>6, <1>8 DEF IdleInv, AskedInv, RunInv

\* The acknowledge sends the sequencer on.
LEMMA FromAcked ==
  ASSUME TInv, IInv, ControlInv, Clock, ~Booting, Acked, RESET_N
  PROVE  IdleInv' /\ AskedInv' /\ TakenInv' /\ RunInv'
<1> USE DEF ControlInv
<1>1. ST = 1 /\ Taken /\ command_delay = 7 /\ command_done /\ ~rp_done /\ ~Pulsed /\ ~Settling
  BY DEF Pulsed, Settling, Acked, ChainInv
<1>2. /\ ~do_reada /\ ~do_writea /\ ~CM_ACK /\ CMD_ACK /\ rw_shift = SC_RCD - 2
      /\ (rw_flag <=> mRD)
  BY <1>1 DEF TakenInv
<1>3. /\ (mRD' <=> mRD) /\ (mWR' <=> mWR) /\ (mWR <=> ~mRD) /\ ~Issuing
      /\ ~StartsWrite /\ ~StartsRead
      /\ BurstEnd' = BurstEnd /\ BurstEnd >= 8 /\ BurstEnd \in Nat
  BY <1>1, <1>2, TakenSide
<1>4. ST' = 2 /\ CMD' = "NOP"
  <2>1. AccessEnd # 1
    BY <1>3, Lengths, BurstConstants
  <2> QED
    BY <1>1, <1>2, <1>3, <2>1, SequencerStep
<1>5. /\ command_done' /\ command_delay' = 6 /\ (rw_flag' <=> mRD)
  BY <1>1, <1>2, <1>3, RequestStep, SettleStep
<1>6. ~rp_done' /\ rp_shift' = 0
  <2>1. rp_shift = 0 /\ ~Settled /\ ~PM_STOP
    BY <1>1, <1>3, CountTypes DEF ChainInv, Settled, SideInv
  <2> QED
    BY <1>1, <2>1, RequestStep, PrechargeStep
<1>7. rw_shift' = 0 /\ (do_rw' <=> SC_RCD = 3)
  <2>1. \/ rw_shift = 0 /\ SC_RCD = 2
        \/ rw_shift = 1 /\ SC_RCD = 3
    BY <1>2, BurstConstants
  <2>2. rw_shift' = (IF rw_shift = 2 THEN 1 ELSE 0) /\ (do_rw' <=> rw_shift = 1)
    BY <1>2, <2>1, RequestStep, RcdStep
  <2> QED
    BY <2>1, <2>2
<1>8. RunInv'
  <2>1. ST' <= 8 /\ ~(ST' >= 9) /\ ST' <= BurstEnd' + 1 /\ 8 - ST' = 6
    BY <1>3, <1>4
  <2> QED
    BY <1>1, <1>2, <1>3, <1>4, <1>5, <1>6, <1>7, <2>1, TakenSide DEF RunInv
<1>9. ST' # 0 /\ ~(ST' <= 1) /\ ST' # 1
  BY <1>4
<1> QED
  BY <1>8, <1>9 DEF IdleInv, AskedInv, TakenInv

\* The burst runs to its stop, and the precharge time ends the access.
LEMMA FromRun ==
  ASSUME TInv, IInv, ControlInv, Clock, ~Booting, ST >= 2, RESET_N
  PROVE  IdleInv' /\ AskedInv' /\ TakenInv' /\ RunInv'
<1> USE DEF ControlInv
<1>1. /\ ST \in Nat /\ ST # 0 /\ (mWR <=> ~mRD)
      /\ BurstEnd \in Nat /\ BurstEnd >= 8 /\ ST <= AccessEnd
      /\ AccessEnd = BurstEnd + SC_RCD + 1 /\ AccessEnd <= BurstEnd + 4
  <2>1. ST \in Nat /\ ST # 0
    BY CountTypes
  <2>2. mWR <=> ~mRD
    BY <2>1 DEF SideInv
  <2> QED
    BY <2>1, <2>2, Lengths, BurstConstants
<1>2. /\ ~StartsWrite /\ ~StartsRead /\ (mRD' <=> mRD) /\ (mWR' <=> mWR /\ ~mWR_DONE)
      /\ BurstEnd' = BurstEnd /\ (mWR_DONE => ST = AccessEnd)
  BY <1>1, AccessSide
<1>3. ST' = (IF ST # AccessEnd THEN ST + 1 ELSE 0) /\ CMD' = "NOP" /\ ~READA' /\ ~WRITEA'
  BY <1>1, <1>2, SequencerStep DEF RunInv
<1>4. /\ ~do_reada /\ ~do_writea /\ ~do_refresh /\ ~CM_ACK /\ ~CMD_ACK /\ ~Issuing
      /\ (command_done <=> ST <= 8) /\ (rp_done <=> ST >= 9)
      /\ command_delay = IF ST <= 8 THEN 8 - ST ELSE 0
      /\ rp_shift = IF ST <= 8 THEN 0 ELSE IF ST <= BurstEnd + 1 THEN 4 ELSE BurstEnd + 5 - ST
      /\ (Taken <=> ST <= BurstEnd + 1) /\ (PM_STOP <=> ST = BurstEnd + 1)
      /\ (rw_flag <=> mRD) /\ rw_shift = 0
  BY <1>1, RequestStep DEF RunInv, SideInv, Taken
<1>5. ~do_reada' /\ ~do_writea' /\ ~do_refresh'
  <2>1. ST <= 8 \/ ST >= 9
    BY <1>1
  <2> QED
    BY <1>4, <2>1, RequestStep DEF Resting, RefreshFree
<1>6. ~CM_ACK' /\ ~CMD_ACK' /\ (rw_flag' <=> mRD)
  BY <1>4, RequestStep, AckStep, SettleStep
<1>7. rw_shift' = 0 /\ ~do_rw'
  BY <1>4, RequestStep, RcdStep, BurstConstants
<1>8. Settled <=> ST = 8
  <2>1. ST <= 8 => (command_delay = 0 <=> ST = 8)
    BY <1>1, <1>4
  <2>2. ST = 8 => ST <= 8
    OBVIOUS
  <2> QED
    BY <1>4, <2>1, <2>2 DEF Settled
<1>9. CASE ST = AccessEnd
  <2>1. ST' = 0
    BY <1>3, <1>9
  <2>2. ~Taken
    BY <1>1, <1>4, <1>9, BurstConstants
  <2>3. ~Taken'
    BY <1>5, <2>2, RequestStep, PrechargeStep DEF Taken
  <2>4. ~Read' /\ ~Write'
    <3>1. Write => ST # AccessEnd
      BY <1>1 DEF SideInv
    <3> QED
      BY <1>2, <1>9, <3>1, SequencerStep
  <2>5. mWR => mWR_DONE
    BY <1>1, <1>9 DEF SideInv
  <2>6. mRD => mRD_DONE'
    BY <1>1, <1>9, StrobeStep DEF SideInv
  <2>7. IdleInv'
    BY <1>2, <1>3, <2>3, <2>4, <2>5, <2>6 DEF IdleInv
  <2>8. AskedInv'
    BY <1>3, <1>5, <1>6, <1>7, <2>1 DEF AskedInv
  <2>9. ST' # 1 /\ ~(ST' >= 2)
    BY <2>1
  <2> QED
    BY <2>7, <2>8, <2>9 DEF TakenInv, RunInv
<1>10. CASE ST # AccessEnd
  <2>1. ST' = ST + 1 /\ ST' >= 2 /\ ST' # 0 /\ ST' # 1 /\ ~(ST' <= 1) /\ ST' # 2
    BY <1>1, <1>3, <1>10
  <2>2. (mWR' <=> mWR) /\ (mRD' <=> mRD)
    BY <1>2, <1>10
  <2>3. command_done' <=> ST' <= 8
    <3>1. command_delay > 0 <=> ST' <= 8
      BY <1>1, <1>4, <2>1
    <3> QED
      BY <1>4, <3>1, RequestStep, SettleStep
  <2>4. command_delay' = IF ST' <= 8 THEN 8 - ST' ELSE 0
    <3>1. command_delay' = IF command_delay > 0 THEN command_delay - 1 ELSE 0
      BY <1>4, RequestStep, SettleStep
    <3> QED
      BY <1>1, <1>4, <2>1, <3>1
  <2>5. /\ Settled => rp_shift' = 4 /\ rp_done'
        /\ ~Settled /\ Taken /\ ~PM_STOP => rp_shift' = rp_shift /\ (rp_done' <=> rp_done)
        /\ ~Settled /\ (~Taken \/ PM_STOP)
             => /\ rp_shift' = IF rp_shift > 0 THEN rp_shift - 1 ELSE rp_shift
                /\ rp_done' <=> rp_shift > 0
    BY RequestStep, PrechargeStep
  <2>6. rp_done' <=> ST' >= 9
    <3>1. CASE ST < 8
      <4>1. ~Settled /\ Taken /\ ~PM_STOP /\ ~(ST >= 9) /\ ~(ST' >= 9)
        BY <1>1, <1>4, <1>8, <2>1, <3>1
      <4> QED
        BY <1>4, <2>5, <4>1
    <3>2. CASE ST = 8
      BY <1>8, <2>1, <2>5, <3>2
    <3>3. CASE ST > 8
      <4>1. ~Settled /\ ST >= 9 /\ ST' >= 9 /\ rp_shift > 0
        BY <1>1, <1>4, <1>8, <1>10, <2>1, <3>3
      <4> QED
        BY <1>4, <2>5, <4>1
    <3> QED
      BY <1>1, <3>1, <3>2, <3>3
  <2>7. rp_shift' = IF ST' <= 8 THEN 0 ELSE IF ST' <= BurstEnd + 1 THEN 4 ELSE BurstEnd + 5 - ST'
    <3>1. CASE ST < 8
      <4>1. ~Settled /\ Taken /\ ~PM_STOP /\ rp_shift = 0 /\ ST' <= 8
        BY <1>1, <1>4, <1>8, <2>1, <3>1
      <4> QED
        BY <2>5, <4>1
    <3>2. CASE ST = 8
      <4>1. ~(ST' <= 8) /\ ST' <= BurstEnd + 1
        BY <1>1, <2>1, <3>2
      <4> QED
        BY <1>8, <2>5, <3>2, <4>1
    <3>3. CASE ST > 8 /\ ST <= BurstEnd
      <4>1. ~Settled /\ Taken /\ ~PM_STOP /\ rp_shift = 4 /\ ~(ST' <= 8) /\ ST' <= BurstEnd + 1
        BY <1>1, <1>4, <1>8, <2>1, <3>3
      <4> QED
        BY <2>5, <4>1
    <3>4. CASE ST > BurstEnd
      <4>1. ~Settled /\ (~Taken \/ PM_STOP)
        BY <1>1, <1>4, <1>8, <3>4
      <4>2. ~(ST' <= 8) /\ ~(ST' <= BurstEnd + 1)
        BY <1>1, <2>1, <3>4
      <4>3. rp_shift = BurstEnd + 5 - ST /\ rp_shift > 0
        BY <1>1, <1>4, <1>10, <3>4
      <4>4. rp_shift' = BurstEnd + 5 - ST'
        BY <1>1, <2>1, <2>5, <4>1, <4>3
      <4> QED
        BY <4>2, <4>4
    <3> QED
      BY <1>1, <3>1, <3>2, <3>3, <3>4
  <2>8. (ex_write' <=> mWR /\ ST' <= BurstEnd + 1) /\ (ex_read' <=> mRD /\ ST' <= BurstEnd + 1)
    <3>1. ST' <= BurstEnd + 1 <=> ST <= BurstEnd + 1 /\ ~(ST = BurstEnd + 1)
      BY <1>1, <2>1
    <3>2. ST = BurstEnd + 1 => ~Settled
      BY <1>1, <1>8
    <3> QED
      BY <1>4, <1>5, <3>1, <3>2, RequestStep, PrechargeStep DEF RunInv
  <2>9. RunInv'
    BY <1>2, <1>3, <1>5, <1>6, <1>7, <2>1, <2>2, <2>3, <2>4, <2>6, <2>7, <2>8 DEF RunInv
  <2> QED
    BY <2>1, <2>9 DEF IdleInv, AskedInv, TakenInv
<1> QED
  BY <1>9, <1>10

\* Every clock edge after power up keeps the access's part of the invariant.
LEMMA AccessStep ==
  ASSUME TInv, IInv, ControlInv, Clock, ~Booting
  PROVE  IdleInv' /\ AskedInv' /\ TakenInv' /\ RunInv'
<1>1. RESET_N /\ ST \in Nat
  BY CountTypes DEF Clock
<1>2. CASE ST = 0
  BY <1>2, FromIdle
<1>3. CASE ST = 1 /\ ~Taken
  BY <1>3, FromAsked
<1>4. CASE ST = 1 /\ Taken
  <2>1. Pulsed \/ Settling \/ Acked
    BY <1>4 DEF ControlInv, TakenInv
  <2> QED
    BY <1>1, <2>1, FromPulsed, FromSettling, FromAcked
<1>5. CASE ST >= 2
  BY <1>1, <1>5, FromRun
<1>6. ST = 0 \/ ST = 1 \/ ST >= 2
  BY <1>1
<1> QED
  BY <1>2, <1>3, <1>4, <1>5, <1>6

-----------------------------------------------------------------------------
(* How long a refresh waits. *)

\* Never longer than one access, the commands before and after it included.
LEMMA RestBound ==
  TInv /\ RunInv =>
    Rest \in Nat /\ Rest <= RefreshWait /\ RefreshWait \in Nat /\ RefreshWait < 1034
<1> SUFFICES ASSUME TInv, RunInv
             PROVE  /\ Rest \in Nat /\ Rest <= RefreshWait
                    /\ RefreshWait \in Nat /\ RefreshWait < 1034
  OBVIOUS
<1>1. /\ command_delay \in Nat /\ command_delay <= 8 /\ rp_shift \in Nat /\ rp_shift <= 4
      /\ ST \in Nat /\ mLENGTH \in Nat /\ mLENGTH <= LENGTH
  BY CountTypes, BurstConstants DEF TInv, TypeOK, SeqTypeOK
<1>2. RefreshWait \in Nat /\ RefreshWait >= 18 /\ RefreshWait < 1034
  BY BurstConstants DEF RefreshWait
<1>3. BurstEnd \in Nat /\ BurstEnd + 10 <= RefreshWait
  BY <1>1, BurstConstants DEF BurstEnd, RefreshWait
<1>4. ST >= 2 /\ Taken => ST <= BurstEnd + 1
  BY DEF RunInv, Taken
<1> QED
  BY <1>1, <1>2, <1>3, <1>4 DEF Rest

\* Every clock brings the pending refresh one clock closer to its answer.
LEMMA RestFalls ==
  ASSUME TInv, IInv, ControlInv, Clock, ~Booting, REF_REQ, ~REF_ACK
  PROVE  Rest' <= Rest - 1
<1> USE DEF ControlInv
<1>1. /\ CommandDelay /\ PrechargeTimer(PM_STOP) /\ Acknowledge(REF_REQ) /\ AckHost(CM_ACK)
      /\ RESET_N
  BY RequestStep DEF Clock
<1>2. /\ command_delay \in Nat /\ command_delay <= 8 /\ rp_shift \in Nat /\ rp_shift <= 4
      /\ ST \in Nat
  BY CountTypes
<1>3. /\ (command_delay > 0 => command_done) /\ (rp_shift > 0 => rp_done)
      /\ (command_done => ~rp_done /\ ~Issuing) /\ (rp_done => ~Issuing)
      /\ (do_refresh => ~Taken)
  BY DEF ChainInv
<1>4. REF_ACK' <=> do_refresh
  BY <1>1, AckStep
<1>5. do_refresh' <=> RefreshFree
  BY RequestStep
<1>6. CASE do_refresh
  <2>1. Rest = 2 /\ Rest' = 1
    BY <1>4, <1>6 DEF Rest
  <2> QED
    BY <2>1
<1>7. CASE ~do_refresh /\ Taken /\ ST >= 2
  <2>1. (mWR \/ mRD) /\ (Taken <=> ST <= BurstEnd + 1) /\ (PM_STOP <=> ST = BurstEnd + 1)
        /\ (command_done <=> ST <= 8) /\ (rp_done <=> ST >= 9) /\ ~Issuing
        /\ rp_shift = IF ST <= 8 THEN 0 ELSE IF ST <= BurstEnd + 1 THEN 4 ELSE BurstEnd + 5 - ST
    BY <1>1, <1>2, <1>7, RequestStep DEF RunInv, SideInv, Taken
  <2>2. /\ BurstEnd \in Nat /\ BurstEnd >= 8 /\ AccessEnd > BurstEnd + 2 /\ BurstEnd' = BurstEnd
        /\ ~StartsWrite /\ ~StartsRead
    BY <1>2, <1>7, <2>1, Lengths, BurstConstants, AccessSide
  <2>3. ST' = ST + 1
    BY <1>2, <1>7, <2>1, <2>2, SequencerStep
  <2>4. ~REF_ACK' /\ ~do_refresh'
    BY <1>2, <1>4, <1>5, <1>7, <2>1 DEF RefreshFree
  <2>5. Rest = BurstEnd + 9 - ST
    BY <1>7 DEF Rest
  <2>6. CASE Taken'
    <3>1. Rest' = BurstEnd' + 9 - ST'
      <4>1. ST' >= 2
        BY <1>2, <1>7, <2>3
      <4> QED
        BY <2>4, <2>6, <4>1 DEF Rest
    <3> QED
      BY <1>2, <2>2, <2>3, <2>5, <3>1
  <2>7. CASE ~Taken'
    <3>1. RunInv'
      BY AccessStep
    <3>2. ST = BurstEnd + 1
      <4>1. ~Settled /\ Taken /\ ~PM_STOP => Taken'
        BY <1>1, PrechargeStep DEF Taken
      <4>2. Settled => ~(~Settled /\ Taken /\ PM_STOP)
        OBVIOUS
      <4>3. Taken' \/ (~Settled /\ Taken /\ PM_STOP)
        BY <1>1, <1>7, PrechargeStep DEF Taken
      <4> QED
        BY <2>1, <2>7, <4>3
    <3>3. ~command_done' /\ rp_done' /\ rp_shift' = 3
      <4>1. /\ ST' >= 2 /\ ~(ST' <= 8) /\ ST' >= 9 /\ ~(ST' <= BurstEnd' + 1)
            /\ BurstEnd' + 5 - ST' = 3
        BY <1>2, <2>2, <2>3, <3>2
      <4> QED
        BY <3>1, <4>1 DEF RunInv
    <3>4. Rest' = 7
      BY <2>4, <2>7, <3>3 DEF Rest, Pulsed, Settling, Acked
    <3> QED
      BY <1>2, <2>2, <2>5, <3>2, <3>4
  <2> QED
    BY <2>6, <2>7
<1>8. CASE ~do_refresh /\ Taken /\ ST <= 1
  <2>1. ST = 1 /\ (Pulsed \/ Settling \/ Acked)
    <3>1. ST = 1
      BY <1>2, <1>8 DEF IdleInv
    <3> QED
      BY <1>8, <3>1 DEF TakenInv
  <2>2. /\ ~StartsWrite /\ ~StartsRead /\ BurstEnd' = BurstEnd /\ BurstEnd >= 8 /\ BurstEnd \in Nat
        /\ Taken' /\ ~do_refresh'
    <3>1. ((ex_read' <=> mRD) /\ (ex_write' <=> mWR) /\ (mWR <=> ~mRD))
      BY <1>1, <1>8, <2>1, TakenSide
    <3> QED
      BY <1>1, <1>8, <2>1, <3>1, TakenSide DEF Taken
  <2>3. ~REF_ACK'
    BY <1>4, <1>8
  <2>4. CASE Pulsed
    <3>1. (do_reada \/ do_writea) /\ ~CMD_ACK /\ ~command_done
      <4>1. ~command_done /\ ~Acked /\ ST # 0
        BY <1>2, <1>3, <2>1, <2>4 DEF Pulsed, Acked
      <4> QED
        BY <1>8, <2>1, <2>4, <4>1 DEF TakenInv, SideInv
    <3>2. ST' = 1 /\ command_done' /\ command_delay' = 8
      BY <1>1, <2>1, <2>2, <3>1, SequencerStep, SettleStep DEF Issuing
    <3>3. Rest = BurstEnd + 10
      <4>1. ~(ST >= 2)
        BY <2>1
      <4> QED
        BY <1>8, <2>4, <4>1 DEF Rest
    <3>4. Rest' = BurstEnd' + 9
      <4>1. ~(ST' >= 2) /\ ~Pulsed' /\ Settling'
        BY <2>2, <3>2 DEF Pulsed, Settling
      <4> QED
        BY <2>2, <2>3, <4>1 DEF Rest
    <3> QED
      BY <2>2, <3>3, <3>4
  <2>5. CASE Settling
    <3>1. ~do_reada /\ ~do_writea /\ ~CMD_ACK /\ command_delay = 8 /\ command_done
          /\ ~Issuing /\ ~Pulsed /\ ~Acked
      BY <1>2, <1>3, <1>8, <2>1, <2>5 DEF TakenInv, Settling, Pulsed, Acked
    <3>2. ST' = 1 /\ command_done' /\ command_delay' = 7
      BY <1>1, <2>1, <2>2, <3>1, SequencerStep, SettleStep
    <3>3. Rest = BurstEnd + 9
      <4>1. ~(ST >= 2)
        BY <2>1
      <4> QED
        BY <1>8, <2>5, <3>1, <4>1 DEF Rest
    <3>4. Rest' = BurstEnd' + 8
      <4>1. ~(ST' >= 2) /\ ~Pulsed' /\ ~Settling' /\ Acked'
        BY <2>2, <3>2 DEF Pulsed, Settling, Acked
      <4> QED
        BY <2>2, <2>3, <4>1 DEF Rest
    <3> QED
      BY <2>2, <3>3, <3>4
  <2>6. CASE Acked
    <3>1. CMD_ACK /\ ~Pulsed /\ ~Settling
      BY <1>2, <1>3, <1>8, <2>1, <2>6 DEF TakenInv, Settling, Pulsed, Acked
    <3>2. ST' = 2
      <4>1. AccessEnd # 1
        BY <2>2, Lengths, BurstConstants
      <4> QED
        BY <2>1, <2>2, <3>1, <4>1, SequencerStep
    <3>3. Rest = BurstEnd + 8
      <4>1. ~(ST >= 2)
        BY <2>1
      <4> QED
        BY <1>8, <2>6, <3>1, <4>1 DEF Rest
    <3>4. Rest' = BurstEnd' + 9 - 2
      <4>1. ST' >= 2
        BY <3>2
      <4> QED
        BY <2>2, <2>3, <3>2, <4>1 DEF Rest
    <3> QED
      BY <2>2, <3>3, <3>4
  <2> QED
    BY <2>1, <2>4, <2>5, <2>6
<1>9. CASE ~do_refresh /\ ~Taken
  <2>1. ~do_reada /\ ~do_writea /\ ~Issuing /\ ~Pulsed /\ ~Settling /\ ~Acked
    BY <1>9, OneKind, RequestStep DEF Pulsed, Settling, Acked
  <2>2. Rest = IF command_done THEN command_delay + 9 ELSE IF rp_done THEN rp_shift + 4 ELSE 3
    BY <1>9, <2>1 DEF Rest
  <2>3. ~REF_ACK' /\ ~do_reada' /\ ~do_writea' /\ ~Taken'
    <3>1. ~do_reada' /\ ~do_writea'
      BY RequestStep
    <3> QED
      BY <1>1, <1>4, <1>9, <3>1, PrechargeStep DEF Taken
  <2>4. Rest' = IF do_refresh' THEN 2 ELSE IF command_done' THEN command_delay' + 9
                ELSE IF rp_done' THEN rp_shift' + 4 ELSE 3
    BY <2>3 DEF Rest, Pulsed, Settling, Acked
  <2>5. /\ command_done' <=> command_delay > 0
        /\ command_delay' = IF command_delay > 0 THEN command_delay - 1 ELSE 0
    BY <1>1, <2>1, SettleStep
  <2>6. CASE command_done
    <3>1. Settled <=> ~(command_delay > 0)
      BY <1>2, <2>6 DEF Settled
    <3>2. ~do_refresh'
      BY <1>5, <2>6 DEF RefreshFree
    <3>3. Settled => rp_shift' = 4 /\ rp_done'
      BY <1>1, PrechargeStep
    <3> QED
      BY <1>2, <2>2, <2>4, <2>5, <2>6, <3>1, <3>2, <3>3
  <2>7. CASE ~command_done /\ rp_done
    <3>1. ~do_refresh' /\ ~(command_delay > 0) /\ ~Settled
      BY <1>3, <1>5, <2>7 DEF RefreshFree, Settled
    <3>2. /\ rp_shift' = IF rp_shift > 0 THEN rp_shift - 1 ELSE rp_shift
          /\ rp_done' <=> rp_shift > 0
      BY <1>1, <1>9, <3>1, PrechargeStep
    <3> QED
      BY <1>2, <2>2, <2>4, <2>5, <2>7, <3>1, <3>2
  <2>8. CASE ~command_done /\ ~rp_done
    <3>1. do_refresh'
      BY <1>5, <1>9, <2>1, <2>8 DEF RefreshFree
    <3> QED
      BY <2>2, <2>4, <2>8, <3>1
  <2> QED
    BY <2>6, <2>7, <2>8
<1> QED
  BY <1>2, <1>6, <1>7, <1>8, <1>9

\* While a request is pending its timer cannot reach 0 again.
LEMMA PendingTimer ==
  ASSUME TInv, RunInv, RefreshInv, REF_REQ
  PROVE  /\ timer \in Nat /\ timer > 0
         /\ Cont # 1 => (65536 - timer) + Rest <= RefreshWait + 1
<1>1. timer \in Nat /\ 2^16 = 65536
  BY CountTypes, BurstConstants
<1>2. Rest \in Nat /\ RefreshWait \in Nat /\ RefreshWait < 1034
  BY RestBound
<1>3. IF Cont = 1 THEN timer = 65535 ELSE (65536 - timer) + Rest <= RefreshWait + 1
  BY <1>1 DEF RefreshInv
<1> QED
  BY <1>1, <1>2, <1>3

\* Every clock edge keeps the bound on the waiting request.
LEMMA RefreshInvStep ==
  ASSUME TInv, IInv, ControlInv, Clock
  PROVE  RefreshInv'
<1> USE DEF ControlInv
<1> SUFFICES ASSUME REF_REQ'
             PROVE  IF Cont' = 1 THEN timer' = 65535
                    ELSE timer' <= 65535 /\ (65536 - timer') + Rest' <= RefreshWait + 1
  <2>1. RefreshWait' = RefreshWait /\ 2^16 = 65536
    BY BurstConstants DEF RefreshWait
  <2> QED
    BY <2>1 DEF RefreshInv
<1>1. timer \in Nat /\ timer < 65536 /\ command_delay \in Nat /\ command_delay <= 8
  BY CountTypes
<1>2. TInv' /\ RunInv'
  BY ClockTypes, AccessStep, BootKeepsQuiet
<1>3. (TInv /\ RunInv =>
         Rest \in Nat /\ Rest <= RefreshWait /\ RefreshWait \in Nat /\ RefreshWait < 1034)'
  BY RestBound, PTL
<1>4. Rest' \in Nat /\ RefreshWait \in Nat /\ Rest' <= RefreshWait /\ RefreshWait < 1034
  BY <1>2, <1>3 DEF RefreshWait
<1>5. PICK rest \in Nat : rest = Rest'
  BY <1>4
<1>6. rest <= RefreshWait /\ RefreshWait \in Nat
  BY <1>4, <1>5
<1>7. REF_REQ => /\ timer > 0
                 /\ Cont # 1 => (65536 - timer) + Rest <= RefreshWait + 1
  BY PendingTimer
<1>8. CASE Booting
  <2>1. /\ Cont' = 1 \/ Cont' > InitEnd + 1
        /\ timer = 0 \/ (REF_REQ /\ ~INIT_REQ)
        /\ timer' = IF INIT_REQ THEN REF_PER + 200 ELSE IF timer = 0 THEN 65535 ELSE timer - 1
    BY <1>8, BootTimer
  <2>2. Cont \in Nat /\ Cont' = Cont + 1 /\ Cont < Ready /\ FirstRequest = INIT_PER + 21
    BY <1>8, SlotStep DEF Booting, FirstRequest
  <2>3. ~INIT_REQ
    BY <2>1, <2>2, BurstConstants DEF SequenceInv
  <2>4. CASE timer = 0
    <3>1. timer' = 65535
      BY <2>1, <2>3, <2>4
    <3>2. (65536 - 65535) + rest <= RefreshWait + 1
      BY <1>6
    <3> QED
      BY <1>5, <3>1, <3>2
  <2>5. CASE timer # 0
    <3>1. REF_REQ /\ timer' = timer - 1
      BY <2>1, <2>3, <2>5
    <3>2. Cont > InitEnd + 1
      <4>1. Cont # 1
        BY <2>1, <2>2, BurstConstants DEF SequenceInv
      <4> QED
        BY <1>8, <3>1, <4>1 DEF BootInv
    <3>3. Cont = INIT_PER + 203 \/ Cont = INIT_PER + 204
      BY <2>2, <3>2, BurstConstants
    <3>4. \/ Cont = INIT_PER + 203 /\ Slot = 3 /\ Slot' = 4
          \/ Cont = INIT_PER + 204 /\ Slot = 4 /\ Slot' = 5
      BY <2>2, <3>3, BurstConstants DEF Slot
    <3>5. /\ Cont > FirstRequest /\ Cont' > FirstRequest
          /\ Slot \in 3 .. 11 /\ Slot' \in 3 .. 11 /\ Slot' = Slot + 1
          /\ Cont # 1 /\ Cont' # 1
      BY <2>2, <3>3, <3>4, BurstConstants
    <3>6. /\ command_done /\ command_delay = 11 - Slot /\ ~REF_ACK /\ ~do_refresh
          /\ command_done' /\ command_delay' = 11 - Slot' /\ ~REF_ACK' /\ ~do_refresh'
      <4>1. command_done /\ command_delay = 11 - Slot /\ ~REF_ACK
        BY <1>8, <3>5 DEF BootInv
      <4>2. command_done' /\ command_delay' = 11 - Slot'
        BY <1>8, <3>5, BootChain
      <4>3. ~Issuing /\ ~REF_ACK'
        BY <1>8, <4>1, BootStep DEF ChainInv
      <4>4. BootInv' /\ ChainInv'
        BY <1>8, BootInvStep, BootKeepsQuiet
      <4>5. ~Issuing'
        BY <4>2, <4>4 DEF ChainInv
      <4> QED
        BY <4>1, <4>2, <4>3, <4>5 DEF Issuing
    <3>7. ST = 0 /\ ~Taken /\ ~Taken' /\ ~(ST >= 2)
      <4>1. ST = 0 /\ ~Taken /\ ~Taken'
        BY <1>8, BootQuiet, BootStep
      <4> QED
        BY <4>1
    <3>8. Rest = command_delay + 9
      BY <3>6, <3>7 DEF Rest, Pulsed, Settling, Acked
    <3>9. Rest' = command_delay' + 9
      BY <3>6, <3>7 DEF Rest, Pulsed, Settling, Acked
    <3> QED
      BY <1>1, <1>4, <1>7, <3>1, <3>4, <3>5, <3>6, <3>8, <3>9
  <2> QED
    BY <2>4, <2>5
<1>9. CASE ~Booting
  <2>1. /\ timer = 0 \/ (REF_REQ /\ ~REF_ACK)
        /\ timer' = IF REF_ACK THEN REF_PER ELSE IF timer = 0 THEN 65535 ELSE timer - 1
    BY <1>9, TimerStep
  <2>2. Cont # 1
    BY <1>9, BurstConstants DEF Booting
  <2>3. CASE timer = 0
    <3>1. ~REF_REQ /\ ~REF_ACK
      BY <1>7, <2>3 DEF ChainInv
    <3>2. timer' = 65535
      BY <2>1, <2>3, <3>1
    <3>3. (65536 - 65535) + rest <= RefreshWait + 1
      BY <1>6
    <3> QED
      BY <1>5, <3>2, <3>3
  <2>4. CASE timer # 0
    <3>1. REF_REQ /\ ~REF_ACK /\ timer' = timer - 1
      BY <2>1, <2>4
    <3>2. Rest' <= Rest - 1
      BY <1>9, <3>1, RestFalls
    <3>3. Rest \in Nat
      BY RestBound
    <3>4. (65536 - timer) + Rest <= RefreshWait + 1
      BY <1>7, <2>2, <3>1
    <3>5. timer - 1 <= 65535 /\ (65536 - (timer - 1)) + rest <= RefreshWait + 1
      <4>1. rest <= Rest - 1
        BY <1>5, <3>2
      <4> QED
        BY <1>1, <1>6, <3>3, <3>4, <4>1
    <3>6. Cont' # 1
      BY <1>9, SequencerSilent, CountStep, BurstConstants DEF Booting
    <3> QED
      BY <1>5, <3>1, <3>5, <3>6
  <2> QED
    BY <2>3, <2>4
<1> QED
  BY <1>8, <1>9

-----------------------------------------------------------------------------
(* The control invariant. *)

\* Reset: nothing counts, nothing is asked for.
Cleared == /\ IfcTypeOK /\ mLENGTH \in {0, LENGTH}
           /\ Cont = 0 /\ ~oRST_1 /\ ~RESET_N /\ timer = 0 /\ init_timer = 0
           /\ ~READA /\ ~WRITEA /\ ~CMD_ACK /\ ~REF_REQ
           /\ ~REFRESH /\ ~PRECHARGE /\ ~LOAD_MODE /\ ~INIT_REQ
           /\ ~do_reada /\ ~do_writea /\ ~do_refresh /\ ~do_precharge /\ ~do_load_mode
           /\ ~command_done /\ command_delay = 0 /\ ~rw_flag /\ rp_shift = 0 /\ ~rp_done
           /\ ~Taken /\ rw_shift = 0 /\ ~do_rw /\ ~CM_ACK /\ ~REF_ACK
           /\ ST = 0 /\ CMD = "NOP" /\ ~Read /\ ~Write /\ ~mWR /\ ~mRD

\* A reset establishes the control invariant.
LEMMA ClearedInv == Cleared => ControlInv
<1> SUFFICES ASSUME Cleared PROVE ControlInv
  OBVIOUS
<1> USE DEF Cleared
<1>1. /\ -1 \notin InitRefreshAt /\ -2 \notin InitRefreshAt
  BY RefreshTimes, BurstConstants
<1>2. Booting /\ ~(Cont > FirstRequest) /\ Cont \notin 1 .. INIT_PER
      /\ Cont \notin INIT_PER + 1 .. InitEnd
      /\ Cont # FirstRequest /\ Cont # INIT_PER + 201 /\ Cont # INIT_PER + 22
      /\ Cont # INIT_PER + 202 /\ Cont < InitEnd /\ Cont - 1 = -1 /\ Cont - 2 = -2
  BY BurstConstants DEF Booting, FirstRequest
<1>3. SequenceInv
  BY <1>1, <1>2 DEF SequenceInv
<1>4. BootInv
  BY <1>1, <1>2 DEF BootInv
<1>5. ST # 1 /\ ~(ST >= 2)
  OBVIOUS
<1>6. IdleInv /\ AskedInv /\ TakenInv /\ RunInv
  BY <1>2, <1>5 DEF IdleInv, AskedInv, TakenInv, RunInv
<1>7. SideInv /\ ChainInv /\ RefreshInv
  <2>1. ~Issuing /\ ~(command_delay > 0) /\ ~(rp_shift > 0)
    BY DEF Issuing
  <2> QED
    BY <1>2, <2>1 DEF SideInv, ChainInv, RefreshInv
<1> QED
  BY <1>3, <1>4, <1>6, <1>7 DEF ControlInv

\* A clock edge keeps all of it.
LEMMA ControlClockInv ==
  ASSUME TInv, IInv, ControlInv, Clock
  PROVE  ControlInv'
<1>1. SequenceInv' /\ BootInv' /\ SideInv' /\ RefreshInv'
  BY SequenceStep, BootInvStep, SideInvStep, RefreshInvStep DEF ControlInv
<1>2. IdleInv' /\ AskedInv' /\ TakenInv' /\ RunInv' /\ ChainInv'
  BY BootKeepsQuiet, AccessStep, ChainStep
<1> QED
  BY <1>1, <1>2 DEF ControlInv

\* While the key is held the registers of the invariant keep still, and it is
\* released when the stop of a burst cut short is gone.
LEMMA ControlStill ==
  ASSUME TInv, IInv, ControlInv, HeldClock \/ ReleaseKey \/ UNCHANGED vars
  PROVE  ControlInv'
<1>1. /\ UNCHANGED <<ifcVars, cmdVars, seqVars, arbVars, delayVars>>
      /\ ~RESET_N' => ~RESET_N
      /\ RESET_N' => PM_STOP' = PM_STOP /\ (RESET_N \/ ~PM_STOP)
      /\ RESET_N \/ ~RESET_N' \/ ~RESET_N
  BY DEF HeldClock, ControlHeld, CmdHeld, ReleaseKey, vars, controlVars, outVars
<1> USE <1>1 DEF ifcVars, cmdVars, issueVars, seqVars, arbVars, delayVars
<1>2. /\ InitEnd' = InitEnd /\ FirstRequest' = FirstRequest /\ InitRefreshAt' = InitRefreshAt
      /\ (Booting' <=> Booting) /\ Slot' = Slot /\ BurstEnd' = BurstEnd /\ AccessEnd' = AccessEnd
      /\ (Taken' <=> Taken) /\ (Issuing' <=> Issuing)
      /\ (Pulsed' <=> Pulsed) /\ (Settling' <=> Settling) /\ (Acked' <=> Acked)
  BY DEF InitEnd, FirstRequest, InitRefreshAt, Booting, Ready, Slot, BurstEnd, AccessEnd,
         Taken, Issuing, Pulsed, Settling, Acked
<1>3. Rest' = Rest /\ RefreshWait' = RefreshWait
  BY <1>2 DEF Rest, RefreshWait
<1>4. SequenceInv' /\ BootInv'
  BY <1>2 DEF ControlInv, SequenceInv, BootInv
<1>5. IdleInv' /\ AskedInv' /\ TakenInv' /\ RunInv' /\ ChainInv' /\ RefreshInv'
  BY <1>2, <1>3 DEF ControlInv, IdleInv, AskedInv, TakenInv, RunInv, ChainInv, RefreshInv
<1>6. SideInv'
  <2>1. RESET_N' /\ ~RESET_N => (PM_STOP' <=> ST' = BurstEnd' + 1)
    <3>1. SUFFICES ASSUME RESET_N', ~RESET_N PROVE (PM_STOP' <=> ST' = BurstEnd' + 1)
      OBVIOUS
    <3>2. Cont = 0
      BY <3>1 DEF ControlInv, SequenceInv
    <3>3. Booting
      BY <3>2, BurstConstants DEF Booting
    <3>4. ST = 0 /\ BurstEnd \in Nat
      BY <3>3, BootQuiet, Lengths DEF ControlInv
    <3> QED
      BY <1>2, <3>1, <3>4
  <2> QED
    BY <1>2, <2>1 DEF ControlInv, SideInv
<1> QED
  BY <1>4, <1>5, <1>6 DEF ControlInv

\* Every step keeps the control invariant.
LEMMA ControlNext == TInv /\ IInv /\ ControlInv /\ [Next]_vars => ControlInv'
<1> SUFFICES ASSUME TInv, IInv, ControlInv, [Next]_vars PROVE ControlInv'
  OBVIOUS
<1>1. CASE Clock
  BY <1>1, ControlClockInv
<1>2. CASE PressKey
  <2>1. TInv'
    BY <1>2, PressTypes
  <2>2. Cleared'
    BY <1>2, <2>1 DEF Cleared, PressKey, ControlReset, IfcReset, CmdReset, ClearIssue, SeqReset,
                      DelayReset, Taken, TInv, TypeOK
  <2>3. (Cleared => ControlInv)'
    BY ClearedInv, PTL
  <2> QED
    BY <2>2, <2>3
<1>3. CASE HeldClock \/ ReleaseKey \/ UNCHANGED vars
  BY <1>3, ControlStill
<1> QED
  BY <1>1, <1>2, <1>3 DEF Next

\* Power up is a reset.
LEMMA InitControl == Init => ControlInv
<1>1. Init => Cleared
  BY InitTypes DEF Init, IfcInit, CmdInit, SeqInit, DelayInit, Cleared, Taken, TInv, TypeOK
<1> QED
  BY <1>1, ClearedInv

\* The control invariant of the frame store, and the types it rests on.
THEOREM ControlInvariant == Spec => [](TInv /\ IInv /\ ControlInv)
<1>1. TInv /\ IInv /\ [Next]_vars => TInv'
  BY ClockTypes, HeldTypes, PressTypes, StillTypes DEF Next
<1> QED
  BY <1>1, InitControl, InitTypes, InitInv, NextInv, ControlNext, PTL DEF Spec

\* No refresh or power-up command can acknowledge an access.
THEOREM AckMatches == Spec => []AckIsForThisAccess
<1>1. TInv /\ IInv /\ ControlInv => AckIsForThisAccess
  <2>1. SUFFICES ASSUME TInv, IInv, ControlInv, ST = 1, CMD_ACK
                 PROVE  ex_write = Write /\ ex_read = Read
    BY DEF AckIsForThisAccess
  <2>2. ~Booting /\ Taken
    <3>1. ST <= 1 /\ ST # 0
      BY <2>1
    <3>2. ~Booting
      BY <2>1, <3>1 DEF ControlInv, SideInv
    <3> QED
      BY <2>1, <3>1, <3>2 DEF ControlInv, AskedInv
  <2>3. (ex_read <=> mRD) /\ (ex_write <=> mWR)
    BY <2>1, <2>2 DEF ControlInv, TakenInv
  <2>4. (Read <=> mRD) /\ (Write <=> mWR)
    <3>1. AccessEnd > 1 /\ ST # 0 /\ ST < AccessEnd
      BY <2>1, Lengths, BurstConstants DEF ControlInv
    <3> QED
      BY <2>1, <3>1 DEF ControlInv, SideInv
  <2>5. ex_read \in BOOLEAN /\ ex_write \in BOOLEAN /\ Read \in BOOLEAN /\ Write \in BOOLEAN
    BY <2>1 DEF TInv, TypeOK, CmdTypeOK, SeqTypeOK
  <2> QED
    BY <2>3, <2>4, <2>5
<1> QED
  BY <1>1, ControlInvariant, PTL

\* A refresh waits for one access at most, whatever is asked for.
THEOREM RefreshInTime == Spec => []RefreshServed
<1>1. TInv /\ IInv /\ ControlInv => RefreshServed
  <2>1. SUFFICES ASSUME TInv, IInv, ControlInv, REF_REQ
                 PROVE  2^16 - timer <= RefreshWait
    BY DEF RefreshServed
  <2>2. /\ timer \in Nat /\ Rest \in Nat /\ RefreshWait \in Nat /\ RefreshWait < 1034
        /\ RefreshWait >= 18
    BY <2>1, CountTypes, RestBound, BurstConstants DEF ControlInv, RefreshWait
  <2>3. Rest >= 1
    <3>1. ST >= 2 /\ Taken => BurstEnd + 9 - ST >= 1
      BY <2>1, Lengths, CountTypes DEF ControlInv, RunInv, Taken
    <3>2. BurstEnd \in Nat
      BY <2>1, Lengths DEF ControlInv
    <3> QED
      BY <2>1, <3>1, <3>2, CountTypes DEF Rest
  <2>4. IF Cont = 1 THEN timer = 65535 ELSE (65536 - timer) + Rest <= RefreshWait + 1
    BY <2>1, BurstConstants DEF ControlInv, RefreshInv
  <2>5. 65536 - timer <= RefreshWait
    BY <2>2, <2>3, <2>4
  <2> QED
    BY <2>5, BurstConstants
<1> QED
  BY <1>1, ControlInvariant, PTL

-----------------------------------------------------------------------------
(* What the rest of the argument starts from. *)

\* The control invariant with the types and the requests.
Core == TInv /\ IInv /\ ControlInv

\* Every step keeps it.
LEMMA CoreNext == Core /\ [Next]_vars => Core'
<1>1. TInv /\ IInv /\ [Next]_vars => TInv'
  BY ClockTypes, HeldTypes, PressTypes, StillTypes DEF Next
<1> QED
  BY <1>1, NextInv, ControlNext DEF Core

\* An access in numbers, for the latency the parameter file sets.
LEMMA Shape ==
  ASSUME Core, SC_CL = 3
  PROVE  /\ ST \in Nat /\ SC_RCD = 3 /\ BurstEnd \in Nat /\ AccessEnd = BurstEnd + 4
         /\ LENGTH \in Nat /\ LENGTH >= 5 /\ ST <= AccessEnd
         /\ mWR \/ mRD => BurstEnd = LENGTH + 3 /\ ~Booting
         /\ ~(mWR /\ mRD)
         /\ ST # 0 => (mWR <=> ~mRD) /\ (Read <=> mRD) /\ (Write <=> mWR /\ ST < AccessEnd)
                      /\ BurstEnd = LENGTH + 3 /\ ~Booting
         /\ ST = 0 => ~Read /\ ~Write
<1>1. ST \in Nat /\ SC_RCD = 3
  BY CountTypes, BurstConstants DEF Core
<1>2. /\ BurstEnd \in Nat /\ AccessEnd = BurstEnd + 4 /\ ST <= AccessEnd
      /\ mWR \/ mRD => BurstEnd = LENGTH + 3
  BY <1>1, Lengths, BurstConstants DEF Core, ControlInv
<1>3. LENGTH \in Nat /\ LENGTH >= 5
  BY BurstConstants
<1> QED
  BY <1>1, <1>2, <1>3 DEF Core, ControlInv, SideInv, IdleInv, IInv, RequestInv

\* A clock edge between accesses, and one of an access.
LEMMA Pace ==
  ASSUME Core, Clock, SC_CL = 3
  PROVE  /\ ST = 0 => ST' = 0 \/ (ST' = 1 /\ (StartsWrite \/ StartsRead))
         /\ ST = 0 /\ ST' = 1 =>
              /\ BurstEnd' = BurstEnd /\ mADDR' = mADDR /\ (mRD' <=> mRD) /\ (mWR' <=> mWR)
              /\ mWR \/ mRD
         /\ ST # 0 =>
              /\ ST' = IF ST = 1 /\ ~CMD_ACK THEN ST ELSE IF ST = AccessEnd THEN 0 ELSE ST + 1
              /\ BurstEnd' = BurstEnd /\ mADDR' = mADDR
              /\ (mRD' <=> mRD) /\ (mWR' <=> mWR /\ ~mWR_DONE)
              /\ (mWR_DONE <=> mWR /\ ST = AccessEnd)
<1> USE DEF Core, ControlInv
<1>1. CASE ST = 0
  <2>1. ST' = 0 \/ (ST' = 1 /\ (StartsWrite \/ StartsRead))
    BY <1>1, SequencerStep
  <2>2. StartsWrite \/ StartsRead => /\ mWR \/ mRD
                                     /\ ~mWR_DONE /\ (mRD => ~mRD_DONE)
    BY <1>1, Shape DEF StartsWrite, StartsRead, IInv, AccessInv, IdleInv, RequestInv
  <2>3. StartsWrite \/ StartsRead =>
          /\ mLENGTH' = mLENGTH /\ mADDR' = mADDR /\ (mRD' <=> mRD) /\ (mWR' <=> mWR)
    BY <2>2, SideStep, NextInv DEF Next, IInv, RequestInv
  <2> QED
    BY <1>1, <2>1, <2>2, <2>3 DEF BurstEnd
<1>2. CASE ST # 0
  <2>1. /\ BurstEnd' = BurstEnd /\ mADDR' = mADDR /\ (mRD' <=> mRD) /\ (mWR' <=> mWR /\ ~mWR_DONE)
        /\ (mWR_DONE => ST = AccessEnd) /\ ~StartsWrite /\ ~StartsRead
    BY <1>2, AccessSide
  <2>2. ST' = IF ST = 1 /\ ~CMD_ACK THEN ST ELSE IF ST = AccessEnd THEN 0 ELSE ST + 1
    BY <1>2, <2>1, SequencerStep
  <2>3. mWR_DONE <=> mWR /\ ST = AccessEnd
    BY <1>2, <2>1 DEF SideInv, IInv, AccessInv
  <2> QED
    BY <1>2, <2>1, <2>2, <2>3
<1> QED
  BY <1>1, <1>2

-----------------------------------------------------------------------------
(* The granted address, and the words. *)

\* A grant points the access at its side's next burst until it is over.
LEMMA GrantStep ==
  ASSUME Core, GrantInv, Clock
  PROVE  GrantInv'
<1> USE DEF Core, IInv, RequestInv, AccessInv
<1>1. PICK wrFull \in BOOLEAN, rdLow \in BOOLEAN : Arbitrate(Loading, wrFull, rdLow)
  BY Edge
<1>2. AdvanceAddresses /\ SADDR' = mADDR
  BY Edge DEF IfcClock, Decode
<1>3. mADDR' \in BurstStarts /\ SADDR' \in BurstStarts
  BY <1>1, <1>2 DEF Arbitrate, GrantAddress, GrantInv, AddressInv
<1>4. mWR' => mADDR' = rWR1_ADDR'
  BY <1>1, <1>2 DEF Arbitrate, GrantAddress, GrantsWrite, GrantsRead, ArbiterIdle, GrantInv,
                    AdvanceAddresses, WriteDone
<1>5. mRD' => mADDR' = rRD1_ADDR'
  BY <1>1, <1>2 DEF Arbitrate, GrantAddress, GrantsWrite, GrantsRead, ArbiterIdle, GrantInv,
                    AdvanceAddresses, ReadDone
<1>6. ST' # 0 => SADDR' = mADDR'
  <2>1. ST' # 0 => ST # 0 \/ StartsWrite \/ StartsRead
    BY SequencerStep
  <2>2. StartsWrite \/ StartsRead => mWR \/ mRD
    BY DEF StartsWrite, StartsRead
  <2> QED
    BY <1>2, <2>1, <2>2, SideStep
<1>7. BurstStarts' = BurstStarts
  BY DEF BurstStarts
<1> QED
  BY <1>3, <1>4, <1>5, <1>6, <1>7 DEF GrantInv

\* What an edge does to the words counted.
LEMMA WordStep ==
  ASSUME Core, Clock
  PROVE  /\ mWR => popped' = IF IN_REQ THEN popped + 1 ELSE popped
         /\ mRD => received' = IF OUT_VALID THEN received + 1 ELSE received
         /\ mWR' /\ ~mWR => popped' = 0 /\ ST' = 0
         /\ mRD' /\ ~mRD => received' = 0 /\ ST' = 0
<1> USE DEF Core, IInv, RequestInv
<1>1. PICK wrFull \in BOOLEAN, rdLow \in BOOLEAN :
        /\ Arbitrate(Loading, wrFull, rdLow)
        /\ FifoClock(GrantsWrite(Loading, wrFull), GrantsRead(Loading, wrFull, rdLow))
  BY Edge
<1>2. /\ mWR => popped' = IF IN_REQ THEN popped + 1 ELSE popped
      /\ mRD => received' = IF OUT_VALID THEN received + 1 ELSE received
      /\ mWR' /\ ~mWR => popped' = 0 /\ ST = 0 /\ ~mRD
      /\ mRD' /\ ~mRD => received' = 0 /\ ST = 0 /\ ~mWR
  BY <1>1 DEF FifoClock, Arbitrate, GrantsWrite, GrantsRead, ArbiterIdle
<1>3. ST = 0 /\ ~mWR /\ ~mRD => ST' = 0
  BY SequencerStep DEF StartsWrite, StartsRead
<1> QED
  BY <1>2, <1>3

\* The strobes open for LENGTH clocks each.
LEMMA WordInvStep ==
  ASSUME Core, WordInv, Clock, SC_CL = 3
  PROVE  WordInv'
<1>1. Core'
  BY CoreNext DEF Next
<1>2. /\ ST \in Nat /\ SC_RCD = 3 /\ BurstEnd \in Nat /\ AccessEnd = BurstEnd + 4
      /\ LENGTH \in Nat /\ LENGTH >= 5 /\ ST <= AccessEnd
      /\ mWR \/ mRD => BurstEnd = LENGTH + 3
      /\ ~(mWR /\ mRD)
      /\ ST # 0 => (mWR <=> ~mRD) /\ (Read <=> mRD) /\ (Write <=> mWR /\ ST < AccessEnd)
                   /\ BurstEnd = LENGTH + 3
      /\ ST = 0 => ~Read /\ ~Write
  BY Shape
<1>3. /\ (IN_REQ' <=> (Write /\ ST = 2) \/ (IN_REQ /\ ~(Write /\ ST = BurstEnd - 1)))
      /\ (OUT_VALID' <=> (Read /\ ST = 7) \/ (OUT_VALID /\ ~(Read /\ ST = AccessEnd)))
      /\ (mRD_DONE' <=> Read /\ (ST = AccessEnd \/ mRD_DONE))
  BY <1>2, StrobeStep
<1>4. /\ IN_REQ <=> mWR /\ ST >= 3 /\ ST <= BurstEnd - 1
      /\ OUT_VALID <=> mRD /\ ST >= 8
  BY DEF WordInv
<1>5. CASE ST = 0
  <2>1. ~IN_REQ /\ ~OUT_VALID /\ ~IN_REQ' /\ ~OUT_VALID' /\ ~mRD_DONE'
    BY <1>2, <1>3, <1>4, <1>5
  <2>2. (ST' = 0 \/ ST' = 1) /\ ~(ST' >= 3) /\ ~(ST' >= 8) /\ ST' <= 3 /\ ST' <= 8
    <3>1. ST' = 0 \/ ST' = 1
      BY <1>5, Pace
    <3> QED
      BY <3>1
  <2>3. mWR' => popped' = 0
    BY <1>5, <2>1, WordStep DEF WordInv
  <2>4. mRD' => received' = 0
    <3>1. mRD /\ mRD' => ~mRD_DONE
      BY SideStep DEF Core
    <3>2. 0 <= 8
      OBVIOUS
    <3> QED
      BY <1>5, <2>1, <3>1, <3>2, WordStep DEF WordInv
  <2> QED
    BY <2>1, <2>2, <2>3, <2>4 DEF WordInv
<1>6. CASE ST # 0
  <2>1. /\ ST' = IF ST = 1 /\ ~CMD_ACK THEN ST ELSE IF ST = AccessEnd THEN 0 ELSE ST + 1
        /\ BurstEnd' = BurstEnd /\ (mRD' <=> mRD) /\ (mWR' <=> mWR /\ ST # AccessEnd)
    BY <1>6, Pace
  <2>2. IN_REQ' <=> mWR' /\ ST' >= 3 /\ ST' <= BurstEnd' - 1
    <3>1. CASE ST = AccessEnd
      BY <1>2, <1>3, <1>4, <1>6, <2>1, <3>1
    <3>2. CASE ST # AccessEnd
      BY <1>2, <1>3, <1>4, <1>6, <2>1, <3>2
    <3> QED
      BY <3>1, <3>2
  <2>3. OUT_VALID' <=> mRD' /\ ST' >= 8
    <3>1. CASE ST = AccessEnd
      BY <1>2, <1>3, <1>4, <1>6, <2>1, <3>1
    <3>2. CASE ST # AccessEnd
      BY <1>2, <1>3, <1>4, <1>6, <2>1, <3>2
    <3> QED
      BY <3>1, <3>2
  <2>4. ASSUME mWR'
        PROVE  popped' = IF ST' <= 3 THEN 0 ELSE IF ST' <= BurstEnd' THEN ST' - 3 ELSE LENGTH
    <3>1. mWR /\ ST # AccessEnd /\ BurstEnd = LENGTH + 3
      BY <1>2, <2>1, <2>4
    <3>2. popped = IF ST <= 3 THEN 0 ELSE IF ST <= BurstEnd THEN ST - 3 ELSE LENGTH
      BY <3>1 DEF WordInv
    <3>3. popped' = IF ST >= 3 /\ ST <= BurstEnd - 1 THEN popped + 1 ELSE popped
      BY <1>4, <3>1, WordStep
    <3> QED
      BY <1>2, <1>6, <2>1, <3>1, <3>2, <3>3
  <2>5. ASSUME mRD'
        PROVE  received' = IF mRD_DONE' THEN LENGTH ELSE IF ST' <= 8 THEN 0 ELSE ST' - 8
    <3>1. mRD /\ Read /\ ~mRD_DONE /\ BurstEnd = LENGTH + 3
      BY <1>2, <1>6, <2>1, <2>5 DEF Core, IInv, AccessInv
    <3>2. received = IF ST <= 8 THEN 0 ELSE ST - 8
      BY <3>1 DEF WordInv
    <3>3. received' = IF ST >= 8 THEN received + 1 ELSE received
      BY <1>4, <3>1, WordStep
    <3>4. mRD_DONE' <=> ST = AccessEnd
      BY <1>3, <3>1
    <3> QED
      BY <1>2, <1>6, <2>1, <3>1, <3>2, <3>3, <3>4
  <2> QED
    BY <2>2, <2>3, <2>4, <2>5 DEF WordInv
<1> QED
  BY <1>5, <1>6

-----------------------------------------------------------------------------
(* The output enable and the mask. *)

\* What an edge does to them.
LEMMA OutputStep ==
  ASSUME Core, Clock
  PROVE  /\ (do_initial' <=> INIT_REQ)
         /\ (oe4' <=> do_writea \/ (oe4 /\ ~OutputStops(PM_STOP)))
         /\ (OE' <=> oe4)
         /\ (DQM' <=> ~((Read \/ Write) /\ ST >= SC_CL /\ ~(ST = BurstEnd /\ Write)))
<1>1. /\ IssueCommand(READA, WRITEA, REFRESH, PRECHARGE, LOAD_MODE, REF_REQ, INIT_REQ, PM_STOP)
      /\ OutputEnable(PM_STOP) /\ OutputRegisters(BusColumn)
  BY Edge DEF CmdClock
<1>2. do_initial' <=> INIT_REQ
  BY <1>1 DEF IssueCommand, ClearIssue
<1>3. (oe4' <=> do_writea \/ (oe4 /\ ~OutputStops(PM_STOP))) /\ (OE' <=> oe4)
  BY <1>1 DEF OutputEnable
<1>4. DQM' <=> ~((Read \/ Write) /\ ST >= SC_CL /\ ~(ST = BurstEnd /\ Write))
  BY <1>1 DEF OutputRegisters
<1> QED
  BY <1>2, <1>3, <1>4

\* Where the access stands when command.v is at its pulse, its settling time
\* and its acknowledge, and what happens next.
LEMMA Steps ==
  ASSUME Core, Clock, ~Booting, SC_CL = 3
  PROVE  /\ ST = 0 => ~Taken /\ ~do_writea /\ ~Taken' /\ ~CMD_ACK'
         /\ ST = 1 /\ ~Taken => /\ ~do_writea /\ ST' = 1 /\ ~CMD_ACK'
                                /\ (Taken' => (do_writea' <=> mWR))
         /\ Pulsed => /\ ST = 1 /\ ST' = 1 /\ (do_writea <=> mWR)
                      /\ Taken' /\ ~do_writea' /\ ~CMD_ACK'
         /\ Settling => /\ ST = 1 /\ ST' = 1 /\ ~do_writea /\ ~do_reada /\ ~do_refresh /\ Taken'
                        /\ ~do_writea' /\ CMD_ACK'
         /\ Acked => /\ ST = 1 /\ ST' = 2 /\ ~do_writea /\ ~do_reada /\ ~do_refresh /\ CMD_ACK
                     /\ Taken'
         /\ ST >= 2 => ~do_writea /\ ~do_reada /\ ~do_refresh
         /\ ~do_precharge /\ ~do_load_mode
         /\ Taken => ST # 0
         /\ ST = 1 /\ Taken => Pulsed \/ Settling \/ Acked
<1> USE DEF Core, ControlInv
<1>1. ST = 0 => ~Taken /\ ~do_writea /\ ~Taken' /\ ~CMD_ACK'
  <2>1. SUFFICES ASSUME ST = 0 PROVE ~Taken /\ ~do_writea /\ ~Taken' /\ ~CMD_ACK'
    OBVIOUS
  <2>2. ST <= 1
    BY <2>1
  <2>3. ~Taken /\ ~do_writea /\ ~READA /\ ~WRITEA /\ ~CM_ACK
    BY <2>1, <2>2 DEF IdleInv, AskedInv
  <2>4. ~do_reada' /\ ~do_writea' /\ ~CMD_ACK'
    BY <2>3, RequestStep, AckStep
  <2>5. ~Taken'
    BY <2>3, <2>4, RequestStep, PrechargeStep DEF Taken
  <2> QED
    BY <2>3, <2>4, <2>5
<1>2. ST = 1 /\ ~Taken => /\ ~do_writea /\ ST' = 1 /\ ~CMD_ACK'
                          /\ (Taken' => (do_writea' <=> mWR))
  <2>1. SUFFICES ASSUME ST = 1, ~Taken
                 PROVE  ~do_writea /\ ST' = 1 /\ ~CMD_ACK' /\ (Taken' => (do_writea' <=> mWR))
    OBVIOUS
  <2>2. ST <= 1 /\ ST # 0
    BY <2>1
  <2>3. /\ ~do_writea /\ ~CM_ACK /\ ~CMD_ACK /\ (READA => mRD) /\ (WRITEA => mWR) /\ (mWR <=> ~mRD)
    BY <2>1, <2>2, Shape DEF AskedInv
  <2>4. ST' = 1
    BY <2>1, <2>2, <2>3, Pace
  <2>5. (do_reada' => mRD) /\ (do_writea' => mWR) /\ ~CMD_ACK'
    BY <2>3, RequestStep, AckStep
  <2>6. Taken' => do_reada' \/ do_writea'
    BY <2>1, RequestStep, PrechargeStep DEF Taken
  <2> QED
    BY <2>3, <2>4, <2>5, <2>6
<1>3. ASSUME ST = 1, Taken, RESET_N
      PROVE  /\ Pulsed \/ Settling \/ Acked
             /\ Pulsed => ST' = 1 /\ (do_writea <=> mWR) /\ Taken' /\ ~do_writea' /\ ~CMD_ACK'
             /\ Settling => /\ ST' = 1 /\ ~do_writea /\ ~do_reada /\ ~do_refresh /\ Taken'
                            /\ ~do_writea' /\ CMD_ACK'
             /\ Acked => /\ ST' = 2 /\ ~do_writea /\ ~do_reada /\ ~do_refresh /\ CMD_ACK /\ Taken'
  <2>1. /\ Pulsed \/ Settling \/ Acked
        /\ (do_reada <=> Pulsed /\ mRD) /\ (do_writea <=> Pulsed /\ mWR)
        /\ (CM_ACK <=> Settling) /\ (CMD_ACK <=> Acked)
    BY <1>3 DEF TakenInv
  <2>2. /\ ~do_writea' /\ ~do_refresh /\ (CMD_ACK' <=> CM_ACK /\ ~CMD_ACK)
        /\ (ex_read' <=> mRD) /\ (ex_write' <=> mWR) /\ (mWR <=> ~mRD)
    BY <1>3, TakenSide
  <2>3. Taken'
    BY <2>2 DEF Taken
  <2>4. /\ Pulsed => ~Settling /\ ~Acked
        /\ Settling => ~Pulsed /\ ~Acked
        /\ Acked => ~Pulsed /\ ~Settling
    BY DEF Pulsed, Settling, Acked, ChainInv
  <2>5. ST' = IF CMD_ACK THEN 2 ELSE 1
    <3>1. ST # AccessEnd /\ ST # 0
      BY <1>3, Shape
    <3> QED
      BY <1>3, <3>1, Pace
  <2> QED
    BY <2>1, <2>2, <2>3, <2>4, <2>5
<1>4. ST >= 2 => ~do_writea /\ ~do_reada /\ ~do_refresh
  BY DEF RunInv
<1>5. ~do_precharge /\ ~do_load_mode /\ RESET_N
  BY DEF ChainInv, Clock
<1>6. /\ Pulsed => ST = 1 /\ Taken
      /\ Settling => ST = 1 /\ Taken
      /\ Acked => ST = 1 /\ Taken
  BY DEF Pulsed, Settling, Acked
<1>7. ST >= 2 => ST # 0
  BY Shape
<1> QED
  BY <1>1, <1>2, <1>3, <1>4, <1>5, <1>6, <1>7

\* The controller drives the bus for its write bursts only.
LEMMA OutputInvStep ==
  ASSUME Core, OutputInv, Clock, SC_CL = 3
  PROVE  OutputInv'
<1>1. /\ Cont \in Nat /\ Cont' \in Nat /\ Cont <= CONT_MAX
      /\ Cont' = IF Cont = CONT_MAX THEN Cont ELSE Cont + 1
  BY CountStep DEF Core
<1>2. /\ ST \in Nat /\ SC_RCD = 3 /\ BurstEnd \in Nat /\ AccessEnd = BurstEnd + 4
      /\ ST <= AccessEnd /\ LENGTH >= 5 /\ LENGTH \in Nat
      /\ mWR \/ mRD => BurstEnd = LENGTH + 3 /\ ~Booting
      /\ ST # 0 => (mWR <=> ~mRD) /\ (Read <=> mRD) /\ (Write <=> mWR /\ ST < AccessEnd)
                   /\ BurstEnd = LENGTH + 3 /\ ~Booting
      /\ ST = 0 => ~Read /\ ~Write
  BY Shape
<1>3. /\ (do_initial' <=> INIT_REQ)
      /\ (oe4' <=> do_writea \/ (oe4 /\ ~OutputStops(PM_STOP)))
      /\ (OE' <=> oe4)
      /\ (DQM' <=> ~((Read \/ Write) /\ ST >= 3 /\ ~(ST = BurstEnd /\ Write)))
  BY OutputStep
<1>4. do_initial' <=> Cont' \in 2 .. INIT_PER + 1
  <2>1. INIT_REQ <=> Cont \in 1 .. INIT_PER
    BY DEF Core, ControlInv, SequenceInv
  <2> QED
    BY <1>1, <1>3, <2>1, BurstConstants
<1>5. Cont' # 0
  BY <1>1, BurstConstants
<1>6. CASE Booting
  <2>1. /\ ST = 0 /\ ~do_writea /\ ~mWR /\ ~mRD
    BY <1>6, BootQuiet DEF Core, ControlInv
  <2>2. Cont < Ready /\ Cont' = Cont + 1 /\ RESET_N
    BY <1>1, <1>6, BurstConstants DEF Booting, Clock
  <2>3. DQM'
    BY <1>2, <1>3, <2>1
  <2>4. Cont' >= 3 => ~oe4'
    <3>1. Cont = 2 => do_initial
      BY BurstConstants DEF OutputInv
    <3>2. Cont >= 3 => ~oe4
      BY <1>6, <2>2 DEF OutputInv
    <3>3. Cont' >= 3 => Cont = 2 \/ Cont >= 3
      BY <1>1, <2>2
    <3> QED
      BY <1>3, <2>1, <3>1, <3>2, <3>3 DEF OutputStops
  <2>5. Cont' >= 4 => ~OE'
    <3>1. Cont >= 3 => ~oe4
      BY <1>6, <2>2 DEF OutputInv
    <3>2. Cont' >= 4 => Cont >= 3
      BY <1>1, <2>2
    <3> QED
      BY <1>3, <3>1, <3>2
  <2>6. ASSUME ~Booting'
        PROVE  ~oe4' /\ ~OE' /\ ST' = 0
    <3>1. Cont' >= 4 /\ Cont' >= 3
      BY <1>1, <2>6, BurstConstants DEF Booting
    <3>2. ST' = 0
      BY <2>1, Pace DEF StartsWrite, StartsRead
    <3> QED
      BY <2>4, <2>5, <3>1, <3>2
  <2>7. ST' = 0 => ~(ST' = 1) /\ ~(ST' >= 2)
    OBVIOUS
  <2> QED
    BY <1>4, <1>5, <2>3, <2>4, <2>5, <2>6, <2>7 DEF OutputInv
<1>7. CASE ~Booting
  <2>1. /\ ~Booting' /\ ~do_initial /\ ~do_precharge
    <3>1. ~Booting' /\ ~do_precharge
      BY <1>7, SequencerSilent DEF Core, ControlInv
    <3>2. ~(Cont \in 2 .. INIT_PER + 1)
      BY <1>1, <1>7, BurstConstants DEF Booting
    <3> QED
      BY <3>1, <3>2 DEF OutputInv
  <2>2. /\ oe4 <=> mWR /\ ((ST = 1 /\ Taken /\ ~do_writea) \/ (ST >= 2 /\ ST <= BurstEnd + 1))
        /\ (PM_STOP <=> ST = BurstEnd + 1)
    BY <1>7 DEF OutputInv, Core, ControlInv, SideInv, Clock
  <2>3. OutputStops(PM_STOP) <=> do_reada \/ do_refresh \/ PM_STOP
    BY <2>1 DEF OutputStops
  <2>4. CASE ST = 0
    <3>1. ~oe4' /\ ~OE' /\ DQM' /\ ~Taken' /\ ~CMD_ACK'
      <4>1. ~do_writea /\ ~Taken' /\ ~CMD_ACK'
        BY <1>7, <2>4, Steps
      <4> QED
        BY <1>2, <1>3, <2>2, <2>4, <4>1
    <3>2. (ST' = 0 \/ ST' = 1) /\ ~(ST' >= 2) /\ ~(ST' >= 4)
      <4>1. ST' = 0 \/ ST' = 1
        BY <2>4, Pace
      <4> QED
        BY <4>1
    <3> QED
      BY <1>4, <1>5, <2>1, <3>1, <3>2 DEF OutputInv
  <2>5. CASE ST # 0
    <3>1. /\ ST' = IF ST = 1 /\ ~CMD_ACK THEN ST ELSE IF ST = AccessEnd THEN 0 ELSE ST + 1
          /\ BurstEnd' = BurstEnd /\ (mWR' <=> mWR /\ ST # AccessEnd)
      BY <2>5, Pace
    <3>2. ST' # 0 => (DQM' <=> ~(ST' >= 4 /\ ~(mWR' /\ ST' = BurstEnd' + 1)))
      BY <1>2, <1>3, <2>5, <3>1
    <3>3. /\ oe4' <=> mWR' /\ ((ST' = 1 /\ Taken' /\ ~do_writea')
                                \/ (ST' >= 2 /\ ST' <= BurstEnd' + 1))
          /\ OE' <=> mWR' /\ ((ST' = 1 /\ CMD_ACK') \/ (ST' >= 2 /\ ST' <= BurstEnd' + 2))
      <4>1. CASE ST = 1
        <5>1. ST # AccessEnd /\ ST # BurstEnd + 1 /\ ~(ST >= 2)
          BY <1>2, <4>1
        <5>2. CASE ST' = 1
          <6>1. ~(ST' >= 2)
            BY <5>2
          <6>2. \/ ~Taken /\ ~do_writea /\ ~CMD_ACK' /\ (Taken' => (do_writea' <=> mWR))
                \/ (do_writea <=> mWR) /\ Taken' /\ ~do_writea' /\ ~CMD_ACK'
                \/ /\ ~do_writea /\ ~do_reada /\ ~do_refresh
                   /\ Taken /\ Taken' /\ ~do_writea' /\ CMD_ACK'
            <7>1. CASE ~Taken
              BY <1>7, <4>1, <7>1, Steps
            <7>2. CASE Pulsed
              BY <1>7, <7>2, Steps
            <7>3. CASE Settling
              BY <1>7, <7>3, Steps DEF Settling
            <7>4. ~Acked
              BY <1>7, <5>2, Steps
            <7> QED
              BY <1>7, <4>1, <7>1, <7>2, <7>3, <7>4, Steps
          <6> QED
            BY <1>3, <2>2, <2>3, <3>1, <4>1, <5>1, <5>2, <6>1, <6>2
        <5>3. CASE ST' # 1
          <6>1. Acked
            BY <1>7, <4>1, <5>3, Steps
          <6>2. ST' = 2 /\ ~do_writea /\ ~do_reada /\ ~do_refresh /\ Taken
            BY <1>7, <6>1, Steps DEF Acked
          <6>3. ST' >= 2 /\ ST' <= BurstEnd' + 1 /\ ST' <= BurstEnd' + 2
            BY <1>2, <3>1, <6>2
          <6> QED
            BY <1>3, <2>2, <2>3, <3>1, <4>1, <5>1, <6>2, <6>3
        <5> QED
          BY <5>2, <5>3
      <4>2. CASE ST >= 2
        <5>1. ~do_writea /\ ~do_reada /\ ~do_refresh
          BY <1>7, <4>2, Steps
        <5>2. ST # 1 /\ ST' # 1 /\ ST' = (IF ST = AccessEnd THEN 0 ELSE ST + 1)
          BY <1>2, <3>1, <4>2
        <5>3. oe4 <=> mWR /\ ST <= BurstEnd + 1
          BY <2>2, <4>2, <5>2
        <5>4. ST # AccessEnd => /\ (ST' >= 2 /\ ST' <= BurstEnd + 1 <=> ST <= BurstEnd)
                                /\ (ST' >= 2 /\ ST' <= BurstEnd + 2 <=> ST <= BurstEnd + 1)
          BY <1>2, <4>2, <5>2
        <5>5. (ST <= BurstEnd + 1 /\ ST # BurstEnd + 1 <=> ST <= BurstEnd)
              /\ (ST = AccessEnd => ~(ST <= BurstEnd + 1))
          BY <1>2
        <5> QED
          BY <1>3, <2>2, <2>3, <3>1, <5>1, <5>2, <5>3, <5>4, <5>5
      <4> QED
        BY <1>2, <2>5, <4>1, <4>2
    <3> QED
      BY <1>4, <1>5, <2>1, <3>2, <3>3 DEF OutputInv
  <2> QED
    BY <2>4, <2>5
<1> QED
  BY <1>6, <1>7

-----------------------------------------------------------------------------
(* The command pins. *)

\* The frame lies in bank 0.
LEMMA FrameBank ==
  ASSUME NEW a \in BurstStarts
  PROVE  BankOf(a) = 0
<1>1. a \in Nat /\ BANKWORDS \in Nat /\ a < BANKWORDS
  BY BurstStartsInFrame, Constants, FrameAssumption, GeometryAssumption
<1>2. a \div BANKWORDS = 0
  BY <1>1, Z3
<1> QED
  BY <1>2 DEF BankOf

\* What an edge does to the pins.
LEMMA PinStep ==
  ASSUME Core, GrantInv, Clock
  PROVE  /\ ipin'.bank = 0
         /\ do_refresh => ipin'.cmd = "REF"
         /\ ~do_refresh /\ do_precharge /\ ~oe4 /\ ~rw_flag => ipin'.cmd = "PRE"
         /\ ~do_refresh /\ ~do_precharge /\ do_load_mode => ipin'.cmd = "MRS"
         /\ ~do_refresh /\ ~do_precharge /\ ~do_load_mode /\ (do_reada \/ do_writea)
              => ipin'.cmd = "ACT" /\ ipin'.a = RowOf(SADDR)
         /\ ~Issuing /\ do_rw => /\ ipin'.cmd = IF rw_flag THEN "READ" ELSE "WRITE"
                                 /\ ipin'.a = ColOf(SADDR)
         /\ ~Issuing /\ ~do_rw => ipin'.cmd = "NOP"
         /\ ST = BurstEnd => pin'.cmd = "PRE" /\ pin'.bank = ipin.bank
         /\ ST # BurstEnd => pin' = ipin
<1>1. DrivePins(SADDR) /\ OutputRegisters(BusColumn)
  BY Edge DEF CmdClock
<1>2. BankOf(SADDR) = 0
  BY FrameBank DEF GrantInv
<1>3. /\ do_refresh => ipin' = Pin("REF", 0, 0)
      /\ ~do_refresh /\ do_precharge /\ (oe4 \/ rw_flag) => ipin' = Pin("BST", 0, 0)
      /\ ~do_refresh /\ do_precharge /\ ~(oe4 \/ rw_flag) => ipin' = Pin("PRE", 0, 0)
      /\ ~do_refresh /\ ~do_precharge /\ do_load_mode => ipin' = Pin("MRS", 0, 0)
      /\ ~do_refresh /\ ~do_precharge /\ ~do_load_mode /\ (do_reada \/ do_writea)
           => ipin' = Pin("ACT", 0, RowOf(SADDR))
      /\ ~Issuing /\ do_rw => ipin' = Pin(IF rw_flag THEN "READ" ELSE "WRITE", 0, ColOf(SADDR))
      /\ ~Issuing /\ ~do_rw => ipin' = Pin("NOP", 0, 0)
  BY <1>1, <1>2 DEF DrivePins, Issuing
<1>4. ipin'.bank = 0
  BY <1>3 DEF Pin, Issuing
<1>5. /\ ST = BurstEnd => pin' = Pin("PRE", ipin.bank, 0)
      /\ ST # BurstEnd => pin' = ipin
  BY <1>1 DEF OutputRegisters
<1> QED
  BY <1>3, <1>4, <1>5 DEF Pin

\* A command settles for eight clocks from the one after its pulse.
LEMMA DelayStep ==
  ASSUME Core, Clock
  PROVE  /\ command_delay' = 8 <=> Issuing
         /\ command_delay' = 7 <=> command_delay = 8
<1> USE DEF Core, ControlInv
<1>1. CASE Booting
  <2>1. /\ Cont \in Nat /\ Cont' = Cont + 1
        /\ Cont >= FirstRequest => Slot \in 0 .. 19 /\ Slot' = IF Slot = 19 THEN 0 ELSE Slot + 1
    BY <1>1, SlotStep DEF Booting
  <2>2. /\ Issuing <=> Cont > FirstRequest /\ Slot = 2
        /\ command_done <=> Cont > FirstRequest /\ Slot \in 3 .. 11
        /\ command_delay = IF command_done THEN 11 - Slot ELSE 0
    BY <1>1, BootIssues DEF BootInv
  <2>3. /\ command_done' <=> Cont' > FirstRequest /\ Slot' \in 3 .. 11
        /\ command_delay' = IF command_done' THEN 11 - Slot' ELSE 0
    BY <1>1, BootChain
  <2>4. FirstRequest \in Nat /\ FirstRequest = INIT_PER + 21 /\ INIT_PER \in Nat
    BY BurstConstants DEF FirstRequest
  <2>5. Cont = FirstRequest => Slot = 1
    BY <2>4 DEF Slot
  <2>6. CASE Cont < FirstRequest
    <3>1. ~(Cont > FirstRequest) /\ ~(Cont + 1 > FirstRequest)
      BY <2>1, <2>4, <2>6
    <3>2. ~command_done /\ ~command_done' /\ ~Issuing
      BY <2>1, <2>2, <2>3, <3>1
    <3> QED
      BY <2>2, <2>3, <3>2
  <2>7. CASE Cont >= FirstRequest
    <3>1. PICK s \in 0 .. 19 : s = Slot
      BY <2>1, <2>7
    <3>2. Slot' = IF s = 19 THEN 0 ELSE s + 1
      BY <2>1, <2>7, <3>1
    <3>3. Cont' > FirstRequest /\ (Cont > FirstRequest <=> Cont # FirstRequest)
      BY <2>1, <2>4, <2>7
    <3>4. command_delay' = IF s \in 2 .. 10 THEN 10 - s ELSE 0
      BY <2>3, <3>2, <3>3
    <3>5. command_delay = IF s \in 3 .. 11 THEN 11 - s ELSE 0
      BY <2>2, <2>5, <3>1, <3>3
    <3>6. Issuing <=> s = 2
      BY <2>2, <2>5, <3>1, <3>3
    <3> QED
      BY <3>4, <3>5, <3>6
  <2> QED
    BY <2>1, <2>4, <2>6, <2>7
<1>2. CASE ~Booting
  <2>1. command_delay' = IF Issuing THEN 8 ELSE IF command_delay > 0 THEN command_delay - 1 ELSE 0
    BY <1>2, RequestStep, SettleStep
  <2>2. command_delay = 8 => ~Issuing
    BY DEF ChainInv
  <2> QED
    BY <2>1, <2>2, CountTypes
<1> QED
  BY <1>1, <1>2

\* The pins of the power-up sequence: its precharge, then refreshes and a mode
\* set, each in its slot.
LEMMA BootPins ==
  ASSUME Core, GrantInv, OutputInv, PinInv, Clock, Booting
  PROVE  PinInv'
<1> USE DEF Core, ControlInv
<1>1. /\ Cont \in Nat /\ Cont' = Cont + 1 /\ RESET_N /\ INIT_PER \in Nat /\ Cont < Ready
      /\ Cont >= FirstRequest => Slot \in 0 .. 19 /\ Slot' = IF Slot = 19 THEN 0 ELSE Slot + 1
  BY SlotStep, BurstConstants DEF Booting, Clock
<1>2. /\ ST = 0 /\ ~do_reada /\ ~do_writea /\ ~do_rw /\ ~Taken /\ ~mWR /\ ~mRD
  BY BootQuiet
<1>3. pin' = ipin /\ ipin'.bank = 0 /\ pin'.bank = 0
  <2>1. ST # BurstEnd
    BY <1>2, Lengths
  <2> QED
    BY <2>1, PinStep DEF PinInv
<1>4. (do_precharge <=> Cont = INIT_PER + 22) /\ (do_precharge => ~do_refresh /\ ~oe4 /\ ~rw_flag)
  <2>1. do_precharge <=> Cont = INIT_PER + 22
    BY DEF BootInv
  <2>2. Cont = INIT_PER + 22 => Cont >= 3 /\ Cont - 2 \in Int /\ (Cont - 2) - INIT_PER = 20
    BY <1>1
  <2>3. Cont = INIT_PER + 22 => ~do_refresh
    BY <2>2, RefreshTimes DEF BootInv
  <2> QED
    BY <1>1, <2>1, <2>2, <2>3 DEF BootInv, OutputInv
<1>5. (command_delay' = 8 <=> Issuing) /\ (command_delay' = 7 <=> command_delay = 8)
  BY DelayStep
<1>6. IF command_delay' = 8
      THEN ipin'.cmd \in IF Cont' = INIT_PER + 23 THEN {"PRE"} ELSE {"REF", "MRS"}
      ELSE ipin'.cmd = "NOP"
  <2>1. Cont' = INIT_PER + 23 <=> Cont = INIT_PER + 22
    BY <1>1
  <2> QED
    BY <1>2, <1>4, <1>5, <2>1, PinStep DEF Issuing
<1>7. IF command_delay' = 7
      THEN pin'.cmd \in IF Cont' = INIT_PER + 24 THEN {"PRE"} ELSE {"REF", "MRS"}
      ELSE pin'.cmd = "NOP"
  <2>1. Cont' = INIT_PER + 24 <=> Cont = INIT_PER + 23
    BY <1>1
  <2> QED
    BY <1>1, <1>3, <1>5, <2>1 DEF PinInv
<1>8. ASSUME ~Booting'
      PROVE  command_delay' # 8 /\ command_delay' # 7 /\ ST' = 0 /\ BurstEnd' + 1 # 0
  <2>1. Cont = INIT_PER + 204 /\ Cont >= FirstRequest
    BY <1>1, <1>8, BurstConstants DEF Booting, FirstRequest
  <2>2. Cont - INIT_PER = 204
    BY <1>1, <2>1
  <2>3. Slot = 4
    BY <2>2 DEF Slot
  <2>4. ~Issuing /\ command_delay # 8
    BY <2>3, BootIssues DEF BootInv
  <2>5. ST' = 0
    BY <1>2, SequencerStep DEF StartsWrite, StartsRead
  <2>6. Core'
    BY CoreNext DEF Next
  <2>7. BurstEnd' + 1 # 0
    <3>1. mLENGTH' \in {0, LENGTH}
      BY <2>6 DEF Core, TInv, TypeOK, SeqTypeOK
    <3>2. SC_CL + 0 + 1 # 0 /\ SC_CL + LENGTH + 1 # 0
      BY BurstConstants
    <3> QED
      BY <3>1, <3>2 DEF BurstEnd
  <2> QED
    BY <1>5, <2>4, <2>5, <2>7
<1>9. ASSUME ~Booting'
       PROVE  /\ ipin'.cmd = IF command_delay' = 8 THEN IF Taken' THEN "ACT" ELSE "REF"
                             ELSE IF ST' = 3 THEN IF mRD' THEN "READ" ELSE "WRITE"
                             ELSE "NOP"
              /\ pin'.cmd = IF command_delay' = 7 THEN IF Taken' THEN "ACT" ELSE "REF"
                            ELSE IF ST' = 4 THEN IF mRD' THEN "READ" ELSE "WRITE"
                            ELSE IF ST' = BurstEnd' + 1 THEN "PRE" ELSE "NOP"
              /\ ipin'.cmd = "NOP" /\ pin'.cmd = "NOP"
  <2>1. ipin'.cmd = "NOP" /\ pin'.cmd = "NOP"
    BY <1>6, <1>7, <1>8, <1>9
  <2>2. ST' # 3 /\ ST' # 4 /\ ST' # BurstEnd' + 1
    BY <1>8, <1>9
  <2> QED
    BY <1>8, <1>9, <2>1, <2>2
<1> QED
  BY <1>3, <1>6, <1>7, <1>9 DEF PinInv

\* The pins of accesses and refreshes.
LEMMA RunPins ==
  ASSUME Core, GrantInv, OutputInv, PinInv, Clock, ~Booting, SC_CL = 3
  PROVE  PinInv'
<1> USE DEF Core, ControlInv
<1>1. /\ ST \in Nat /\ BurstEnd \in Nat /\ AccessEnd = BurstEnd + 4 /\ ST <= AccessEnd
      /\ ST # 0 => (mWR <=> ~mRD) /\ BurstEnd = LENGTH + 3
      /\ LENGTH >= 5 /\ LENGTH \in Nat /\ BurstEnd >= 2
  BY Shape, Lengths
<1>2. /\ ST = 0 => ST' = 0 \/ ST' = 1
      /\ ST # 0 =>
           /\ ST' = IF ST = 1 /\ ~CMD_ACK THEN ST ELSE IF ST = AccessEnd THEN 0 ELSE ST + 1
           /\ BurstEnd' = BurstEnd /\ mADDR' = mADDR /\ (mRD' <=> mRD) /\ SADDR = mADDR
  BY Pace DEF GrantInv
<1>3. ~Booting' /\ ~do_precharge /\ ~do_load_mode
  BY SequencerSilent
<1>4. (command_delay' = 8 <=> Issuing) /\ (command_delay' = 7 <=> command_delay = 8)
  BY DelayStep
<1>5. Issuing <=> do_refresh \/ do_reada \/ do_writea
  BY RequestStep
<1>6. do_rw <=> ST = 2
  <2>1. CASE ST <= 1 /\ ~Taken
    <3>1. ST # 2
      BY <1>1, <2>1
    <3> QED
      BY <2>1, <3>1 DEF AskedInv
  <2>2. CASE ST = 1 /\ Taken
    BY <2>2, Shape DEF TakenInv
  <2>3. CASE ST >= 2
    BY <2>3, Shape DEF RunInv
  <2>4. Taken => ST # 0
    BY Steps
  <2>5. ST = 0 \/ ST = 1 \/ ST >= 2
    BY <1>1
  <2>6. ST = 0 => ST <= 1
    OBVIOUS
  <2>7. ST = 1 => ST <= 1
    OBVIOUS
  <2> QED
    BY <2>1, <2>2, <2>3, <2>4, <2>5, <2>6, <2>7
<1>7. ST' = 3 <=> ST = 2
  BY <1>1, <1>2
<1>8. ST' = 4 <=> ST = 3
  BY <1>1, <1>2
<1>9. ST' = BurstEnd' + 1 <=> ST = BurstEnd
  <2>1. CASE ST = 0
    <3>1. Core'
      BY CoreNext DEF Next
    <3>2. mLENGTH' \in {0, LENGTH}
      BY <3>1 DEF TInv, TypeOK, SeqTypeOK
    <3>3. 3 + 0 + 1 # 0 /\ 3 + LENGTH + 1 # 0 /\ 3 + 0 + 1 # 1 /\ 3 + LENGTH + 1 # 1
      BY BurstConstants
    <3>4. ST' # BurstEnd' + 1
      BY <1>2, <2>1, <3>2, <3>3 DEF BurstEnd
    <3>5. ST # BurstEnd
      BY <1>1, <2>1
    <3> QED
      BY <3>4, <3>5
  <2>2. CASE ST # 0
    BY <1>1, <1>2, <2>2
  <2> QED
    BY <2>1, <2>2
<1>10. ST = 2 \/ ST = 3 => ~Issuing /\ command_delay # 8
  <2>1. ST = 2 \/ ST = 3 => ST >= 2 /\ ST <= 8 /\ command_delay = 8 - ST
    BY <1>1 DEF RunInv
  <2>2. ST = 2 \/ ST = 3 => ST >= 2
    OBVIOUS
  <2> QED
    BY <1>1, <1>3, <1>5, <2>1, <2>2, Steps
<1>11. ASSUME ST = 2 PROVE (rw_flag <=> mRD) /\ ST # 0
  <2>1. ST >= 2
    BY <1>11
  <2> QED
    BY <1>11, <2>1 DEF RunInv
<1>12. do_reada \/ do_writea => Taken' /\ ST # 0 /\ ~do_refresh
  <2>1. do_reada \/ do_writea => Pulsed
    BY OneKind
  <2>2. Pulsed => Taken' /\ ST # 0
    BY Steps DEF Pulsed
  <2> QED
    BY <2>1, <2>2 DEF ChainInv
<1>13. do_refresh => ~Taken'
  <2>1. do_refresh => REF_ACK'
    BY RequestStep, AckStep DEF ChainInv
  <2>2. Core'
    BY CoreNext DEF Next
  <2>3. REF_ACK' => ~Taken'
    BY <2>2 DEF ChainInv
  <2> QED
    BY <2>1, <2>3
<1>14. /\ ipin'.cmd = IF Issuing THEN IF Taken' THEN "ACT" ELSE "REF"
                      ELSE IF ST = 2 THEN IF mRD THEN "READ" ELSE "WRITE"
                      ELSE "NOP"
       /\ ipin'.bank = 0
       /\ ipin'.cmd = "ACT" => ipin'.a = RowOf(mADDR')
       /\ ipin'.cmd \in {"READ", "WRITE"} => ipin'.a = ColOf(mADDR')
  <2>1. CASE do_refresh
    BY <1>5, <1>13, <2>1, PinStep
  <2>2. CASE do_reada \/ do_writea
    <3>1. ipin'.cmd = "ACT" /\ ipin'.a = RowOf(SADDR) /\ ipin'.bank = 0
      BY <1>3, <1>12, <2>2, PinStep
    <3> QED
      BY <1>2, <1>5, <1>12, <2>2, <3>1
  <2>3. CASE ~Issuing /\ do_rw
    <3>1. ipin'.cmd = (IF rw_flag THEN "READ" ELSE "WRITE") /\ ipin'.a = ColOf(SADDR)
          /\ ipin'.bank = 0
      BY <2>3, PinStep
    <3> QED
      BY <1>2, <1>6, <1>11, <2>3, <3>1
  <2>4. CASE ~Issuing /\ ~do_rw
    BY <1>6, <2>4, PinStep
  <2> QED
    BY <1>5, <2>1, <2>2, <2>3, <2>4
<1>15. /\ ipin.cmd = IF command_delay = 8 THEN IF Taken THEN "ACT" ELSE "REF"
                     ELSE IF ST = 3 THEN IF mRD THEN "READ" ELSE "WRITE"
                     ELSE "NOP"
       /\ ipin.cmd = "ACT" => ipin.a = RowOf(mADDR)
       /\ ipin.cmd \in {"READ", "WRITE"} => ipin.a = ColOf(mADDR)
       /\ ipin.bank = 0
  BY DEF PinInv
<1>16. command_delay = 8 => (Taken' <=> Taken) /\ (Taken => ST # 0)
  <2>1. ASSUME command_delay = 8, Taken PROVE Taken' /\ ST # 0
    <3>1. ~(ST >= 2)
      BY <1>1, <2>1 DEF RunInv
    <3>2. ST = 1
      BY <1>1, <2>1, <3>1, Steps
    <3>3. Settling
      BY <2>1, <3>2 DEF Settling
    <3> QED
      BY <3>2, <3>3, Steps
  <2>2. ASSUME command_delay = 8, ~Taken PROVE ~Taken'
    <3>1. command_done
      BY <2>2 DEF ChainInv
    <3>2. ~do_reada' /\ ~do_writea'
      BY <3>1, RequestStep DEF Resting
    <3> QED
      BY <2>2, <3>2, RequestStep, PrechargeStep DEF Taken
  <2> QED
    BY <2>1, <2>2
<1>17. /\ pin'.cmd = IF command_delay' = 7 THEN IF Taken' THEN "ACT" ELSE "REF"
                     ELSE IF ST = 3 THEN IF mRD THEN "READ" ELSE "WRITE"
                     ELSE IF ST = BurstEnd THEN "PRE" ELSE "NOP"
       /\ pin'.bank = 0
       /\ pin'.cmd = "ACT" => pin'.a = RowOf(mADDR')
       /\ pin'.cmd \in {"READ", "WRITE"} => pin'.a = ColOf(mADDR')
  <2>1. CASE ST = BurstEnd
    <3>1. ST # 3 /\ ST >= 2 /\ ST >= 8 /\ ST # 0
      BY <1>1, <2>1
    <3>2. command_delay # 8
      BY <1>1, <3>1 DEF RunInv
    <3> QED
      BY <1>4, <1>15, <2>1, <3>1, <3>2, PinStep
  <2>2. CASE ST # BurstEnd
    <3>1. pin' = ipin
      BY <2>2, PinStep
    <3>2. ST = 3 => ST # 0
      OBVIOUS
    <3> QED
      BY <1>2, <1>4, <1>15, <1>16, <2>2, <3>1, <3>2
  <2> QED
    BY <2>1, <2>2
<1>18. ST = 2 => (mRD' <=> mRD)
  BY <1>2
<1>19. ST = 3 => (mRD' <=> mRD)
  BY <1>2
<1>20. /\ ipin'.cmd = IF command_delay' = 8 THEN IF Taken' THEN "ACT" ELSE "REF"
                      ELSE IF ST' = 3 THEN IF mRD' THEN "READ" ELSE "WRITE"
                      ELSE "NOP"
       /\ pin'.cmd = IF command_delay' = 7 THEN IF Taken' THEN "ACT" ELSE "REF"
                     ELSE IF ST' = 4 THEN IF mRD' THEN "READ" ELSE "WRITE"
                     ELSE IF ST' = BurstEnd' + 1 THEN "PRE" ELSE "NOP"
  BY <1>4, <1>7, <1>8, <1>9, <1>14, <1>17, <1>18, <1>19
<1> QED
  BY <1>3, <1>14, <1>17, <1>20 DEF PinInv

-----------------------------------------------------------------------------
(* The rows and the ages of the commands. *)

\* What the chips do with a command to bank 0.
LEMMA RowStep ==
  ASSUME DeviceTypeOK, DeviceClock(pin, DQM), pin.bank = 0
  PROVE  /\ openRow'[0] = IF pin.cmd = "ACT" THEN pin.a
                          ELSE IF pin.cmd = "PRE" THEN Closed ELSE openRow[0]
         /\ \A b \in Banks \ {0} : openRow'[b] = openRow[b]
         /\ \A c \in {"ACT", "PRE", "REF"} :
              /\ age[c] \in Nat /\ age[c] <= 20
              /\ age'[c] = IF c = pin.cmd THEN 1 ELSE IF age[c] < 20 THEN age[c] + 1 ELSE 20
<1>1. /\ openRow \in [Banks -> Nat \cup {Closed}] /\ 0 \in Banks
      /\ age \in [{"ACT", "PRE", "REF"} -> 0 .. 20]
  BY DeviceAssumption DEF DeviceTypeOK, Old
<1>2. openRow' = CASE pin.cmd = "ACT" -> [openRow EXCEPT ![pin.bank] = pin.a]
                   [] pin.cmd = "PRE" -> [openRow EXCEPT ![pin.bank] = Closed]
                   [] OTHER -> openRow
  BY DEF DeviceClock
<1>3. age' = [c \in DOMAIN age |-> IF c = pin.cmd THEN 1
                                   ELSE IF age[c] < 20 THEN age[c] + 1 ELSE 20]
  BY DEF DeviceClock, Old
<1>4. openRow'[0] = (IF pin.cmd = "ACT" THEN pin.a
                     ELSE IF pin.cmd = "PRE" THEN Closed ELSE openRow[0])
      /\ \A b \in Banks \ {0} : openRow'[b] = openRow[b]
  <2>1. CASE pin.cmd = "ACT"
    BY <1>1, <1>2, <2>1
  <2>2. CASE pin.cmd = "PRE"
    BY <1>1, <1>2, <2>2
  <2>3. CASE pin.cmd # "ACT" /\ pin.cmd # "PRE"
    BY <1>1, <1>2, <2>3
  <2> QED
    BY <2>1, <2>2, <2>3
<1>5. \A c \in {"ACT", "PRE", "REF"} :
        /\ age[c] \in Nat /\ age[c] <= 20
        /\ age'[c] = IF c = pin.cmd THEN 1 ELSE IF age[c] < 20 THEN age[c] + 1 ELSE 20
  BY <1>1, <1>3
<1> QED
  BY <1>4, <1>5

\* The clocks since the last command go on, except while an access waits for
\* its burst, and start again with the next command.
LEMMA SinceStep ==
  ASSUME Core, Clock, ~Booting
  PROVE  /\ Since \in 0 .. 15
         /\ Since <= 14 => Since' = Since + 1 \/ (Since >= 10 /\ Since' = Since)
         /\ Since = 15 => Since' = 15 \/ Since' = 0
         /\ command_delay = 7 => Since = 2
         /\ command_delay = 8 => Since = 1
         /\ ST = BurstEnd + 1 => Since = 10 /\ Since' = 11
<1> USE DEF Core, ControlInv
<1>1. /\ command_delay \in Nat /\ command_delay <= 8 /\ rp_shift \in Nat /\ rp_shift <= 4
      /\ ST \in Nat
  BY CountTypes
<1>2. /\ command_delay > 0 => command_done
      /\ rp_shift > 0 => rp_done
      /\ command_done => ~rp_done /\ ~Issuing
      /\ rp_done => ~Issuing
  BY DEF ChainInv
<1>3. Core'
  BY CoreNext DEF Next
<1>4. /\ command_done' => ~rp_done' /\ ~Issuing'
      /\ rp_done' => ~Issuing'
  BY <1>3 DEF ChainInv
<1>5. /\ command_done' <=> Issuing \/ command_delay > 0
      /\ command_delay' = IF Issuing THEN 8
                          ELSE IF command_delay > 0 THEN command_delay - 1 ELSE 0
  BY RequestStep, SettleStep
<1>6. /\ Settled => rp_shift' = 4 /\ rp_done'
      /\ ~Settled /\ Taken /\ ~PM_STOP => rp_shift' = rp_shift /\ (rp_done' <=> rp_done)
      /\ ~Settled /\ (~Taken \/ PM_STOP)
           => /\ rp_shift' = IF rp_shift > 0 THEN rp_shift - 1 ELSE rp_shift
              /\ rp_done' <=> rp_shift > 0
  BY RequestStep, PrechargeStep
<1>7. Settled <=> command_delay = 0 /\ command_done
  BY DEF Settled
<1>8. Issuing' => ~command_done /\ ~rp_done
  BY RequestStep DEF Resting, RefreshFree
<1>9. Since = (IF Issuing THEN 0 ELSE IF command_done THEN 9 - command_delay
               ELSE IF rp_done THEN 14 - rp_shift ELSE 15)
  BY DEF Since
<1>10. Since' = (IF Issuing' THEN 0 ELSE IF command_done' THEN 9 - command_delay'
                 ELSE IF rp_done' THEN 14 - rp_shift' ELSE 15)
  BY DEF Since
<1>11. Since \in 0 .. 15
  BY <1>1, <1>9
<1>12. CASE Issuing
  <2>1. Since = 0 /\ Since' = 1
    BY <1>4, <1>5, <1>9, <1>10, <1>12
  <2>2. command_delay # 7 /\ command_delay # 8 /\ ST # BurstEnd + 1
    <3>1. ST = BurstEnd + 1 => ST >= 2 /\ ST >= 9
      <4>1. BurstEnd \in Nat /\ BurstEnd >= 2 /\ (ST # 0 => BurstEnd >= 8)
        BY Lengths DEF SideInv
      <4> QED
        BY <1>1, <4>1
    <3> QED
      BY <1>2, <1>12, <3>1 DEF RunInv
  <2> QED
    BY <2>1, <2>2
<1>13. CASE command_done
  <2>1. Since = 9 - command_delay /\ Since \in 1 .. 9
    BY <1>1, <1>2, <1>9, <1>13
  <2>2. Since' = Since + 1
    <3>1. CASE command_delay > 0
      <4>1. command_done' /\ command_delay' = command_delay - 1 /\ ~Issuing'
        BY <1>2, <1>4, <1>5, <1>13, <3>1
      <4>2. Since' = 9 - (command_delay - 1)
        BY <1>10, <4>1
      <4> QED
        BY <1>1, <2>1, <4>2
    <3>2. CASE command_delay = 0
      <4>1. ~command_done' /\ rp_done' /\ rp_shift' = 4 /\ ~Issuing'
        BY <1>2, <1>4, <1>5, <1>6, <1>7, <1>13, <3>2
      <4> QED
        BY <1>10, <2>1, <3>2, <4>1
    <3> QED
      BY <1>1, <3>1, <3>2
  <2>3. ST # BurstEnd + 1
    <3>1. BurstEnd \in Nat /\ BurstEnd >= 2 /\ (ST # 0 => BurstEnd >= 8)
      BY Lengths DEF SideInv
    <3>2. ST = BurstEnd + 1 => ST >= 2 /\ ST >= 9
      BY <1>1, <3>1
    <3> QED
      BY <1>2, <1>13, <3>2 DEF RunInv
  <2> QED
    BY <1>1, <2>1, <2>2, <2>3
<1>14. CASE rp_done
  <2>1. Since = 14 - rp_shift /\ Since \in 10 .. 14 /\ command_delay = 0
    BY <1>1, <1>2, <1>9, <1>14
  <2>2. ~Issuing' /\ ~command_done' /\ ~Settled
    BY <1>2, <1>5, <1>7, <1>8, <1>14, <2>1
  <2>3. Taken /\ ~PM_STOP => Since' = Since
    BY <1>6, <1>10, <1>14, <2>1, <2>2
  <2>4. ~Taken \/ PM_STOP => Since' = Since + 1
    <3>1. CASE rp_shift > 0
      <4>1. ~Taken \/ PM_STOP => Since' = 14 - (rp_shift - 1)
        BY <1>6, <1>10, <2>2, <3>1
      <4> QED
        BY <1>1, <2>1, <4>1
    <3>2. CASE rp_shift = 0
      BY <1>6, <1>10, <2>1, <2>2, <3>2
    <3> QED
      BY <1>1, <3>1, <3>2
  <2>5. ASSUME ST = BurstEnd + 1 PROVE Since = 10 /\ PM_STOP
    <3>1. BurstEnd \in Nat /\ BurstEnd >= 2 /\ (ST # 0 => BurstEnd >= 8)
      BY Lengths DEF SideInv
    <3>2. ST >= 2 /\ ~(ST <= 8) /\ ST <= BurstEnd + 1
      BY <1>1, <2>5, <3>1
    <3>3. rp_shift = 4
      BY <3>2 DEF RunInv
    <3> QED
      BY <2>1, <2>5, <3>3 DEF SideInv, Clock
  <2> QED
    BY <2>1, <2>3, <2>4, <2>5
<1>15. CASE ~Issuing /\ ~command_done /\ ~rp_done
  <2>1. Since = 15 /\ command_delay = 0 /\ rp_shift = 0
    BY <1>1, <1>2, <1>9, <1>15
  <2>2. ~command_done' /\ ~rp_done'
    BY <1>5, <1>6, <1>7, <1>15, <2>1
  <2>3. ST # BurstEnd + 1
    <3>1. BurstEnd \in Nat /\ BurstEnd >= 2 /\ (ST # 0 => BurstEnd >= 8)
      BY Lengths DEF SideInv
    <3>2. ST = BurstEnd + 1 => ST >= 2 /\ ST >= 9
      BY <1>1, <3>1
    <3> QED
      BY <1>15, <3>2 DEF RunInv
  <2> QED
    BY <1>10, <2>1, <2>2, <2>3
<1> QED
  BY <1>11, <1>12, <1>13, <1>14, <1>15

\* The power-up sequence closes the row that may have been open, and gives its
\* commands 20 clocks each.
LEMMA BootRows ==
  ASSUME Core, PinInv, RowInv, Clock, Booting
  PROVE  RowInv'
<1> USE DEF Core, ControlInv
<1>1. /\ Cont \in Nat /\ Cont' = Cont + 1 /\ RESET_N /\ INIT_PER \in Nat /\ Cont < Ready
      /\ Ready = INIT_PER + 205 /\ FirstRequest = INIT_PER + 21 /\ INIT_PER > 0
      /\ Cont >= FirstRequest => Slot \in 0 .. 19 /\ Slot' = IF Slot = 19 THEN 0 ELSE Slot + 1
  BY SlotStep, BurstConstants DEF Booting, Clock, FirstRequest
<1>2. /\ openRow'[0] = IF pin.cmd = "ACT" THEN pin.a
                       ELSE IF pin.cmd = "PRE" THEN Closed ELSE openRow[0]
      /\ \A b \in Banks \ {0} : openRow'[b] = openRow[b]
      /\ \A c \in {"ACT", "PRE", "REF"} :
           /\ age[c] \in Nat /\ age[c] <= 20
           /\ age'[c] = IF c = pin.cmd THEN 1 ELSE IF age[c] < 20 THEN age[c] + 1 ELSE 20
  BY RowStep DEF Clock, TInv, TypeOK, PinInv
<1>3. IF command_delay = 7
      THEN pin.cmd \in IF Cont = INIT_PER + 24 THEN {"PRE"} ELSE {"REF", "MRS"}
      ELSE pin.cmd = "NOP"
  BY <1>1 DEF PinInv
<1>4. command_delay = 7 <=> Cont > FirstRequest /\ Slot = 4
  <2>1. /\ command_done <=> Cont > FirstRequest /\ Slot \in 3 .. 11
        /\ command_delay = IF command_done THEN 11 - Slot ELSE 0
    BY DEF BootInv
  <2>2. CASE Cont > FirstRequest
    <3>1. Slot \in 0 .. 19
      BY <1>1, <2>2
    <3> QED
      BY <2>1, <2>2, <3>1
  <2> QED
    BY <2>1, <2>2
<1>5. ASSUME Cont = INIT_PER + 24 PROVE Slot = 4
  <2>1. Cont - INIT_PER = 24
    BY <1>1, <1>5
  <2> QED
    BY <2>1 DEF Slot
<1>6. ASSUME Cont > FirstRequest, Slot = 4
      PROVE  Cont = INIT_PER + 24 \/ Cont >= INIT_PER + 44
  <2>1. PICK j \in 22 .. 204 : j = Cont - INIT_PER
    BY <1>1, <1>6
  <2>2. j % 20 = 4
    BY <1>6, <2>1 DEF Slot
  <2>3. j = 24 \/ j >= 44
    BY <2>2, Z3
  <2> QED
    BY <1>1, <2>1, <2>3
<1>7. pin.cmd # "ACT" /\ (pin.cmd = "PRE" <=> Cont = INIT_PER + 24)
      /\ (pin.cmd = "REF" => Slot = 4 /\ Cont >= INIT_PER + 44)
  BY <1>1, <1>3, <1>4, <1>5, <1>6
<1>8. \A b \in Banks \ {0} : openRow'[b] = Closed
  BY <1>2 DEF RowInv
<1>9. Cont' >= INIT_PER + 25 => openRow'[0] = Closed
  BY <1>1, <1>2, <1>7 DEF RowInv
<1>10. PICK p \in Nat : p = age["PRE"] /\ p <= 20
  BY <1>2
<1>11. age'["PRE"] = IF Cont = INIT_PER + 24 THEN 1 ELSE IF p < 20 THEN p + 1 ELSE 20
  BY <1>2, <1>7, <1>10
<1>12. p >= IF Cont <= INIT_PER + 24 THEN 0
            ELSE IF Cont <= INIT_PER + 32 THEN Cont - (INIT_PER + 24) ELSE 8
  BY <1>1, <1>10 DEF RowInv
<1>13. age'["PRE"] >= IF Cont' <= INIT_PER + 24 THEN 0
                      ELSE IF Cont' <= INIT_PER + 32 THEN Cont' - (INIT_PER + 24) ELSE 8
  BY <1>1, <1>11, <1>12
<1>14. PICK q \in Nat : q = age["REF"] /\ q <= 20
  BY <1>2
<1>15. age'["REF"] = IF pin.cmd = "REF" THEN 1 ELSE IF q < 20 THEN q + 1 ELSE 20
  BY <1>2, <1>14
<1>16. q >= IF Cont <= INIT_PER + 44 THEN IF Cont <= 20 THEN Cont ELSE 20
            ELSE IF Slot >= 5 THEN Slot - 4 ELSE Slot + 16
  BY <1>1, <1>14 DEF RowInv
<1>17. age'["REF"] >= IF Cont' <= INIT_PER + 44 THEN IF Cont' <= 20 THEN Cont' ELSE 20
                      ELSE IF Slot' >= 5 THEN Slot' - 4 ELSE Slot' + 16
  <2>1. CASE Cont < INIT_PER + 44
    <3>1. pin.cmd # "REF"
      BY <1>1, <1>7, <2>1
    <3> QED
      BY <1>1, <1>15, <1>16, <2>1, <3>1
  <2>2. CASE Cont >= INIT_PER + 44
    <3>1. PICK s \in 0 .. 19 : s = Slot
      BY <1>1, <2>2
    <3>2. Slot' = IF s = 19 THEN 0 ELSE s + 1
      BY <1>1, <2>2, <3>1
    <3>3. ~(Cont' <= INIT_PER + 44)
      BY <1>1, <2>2
    <3>4. Cont = INIT_PER + 44 => s = 4
      <4>1. Cont = INIT_PER + 44 => Cont - INIT_PER = 44
        BY <1>1
      <4> QED
        BY <3>1, <4>1 DEF Slot
    <3>5. Cont # INIT_PER + 44 => q >= IF s >= 5 THEN s - 4 ELSE s + 16
      BY <1>1, <1>16, <2>2, <3>1
    <3>6. age'["REF"] >= IF Slot' >= 5 THEN Slot' - 4 ELSE Slot' + 16
      <4>1. CASE s = 4
        BY <1>14, <1>15, <3>2, <4>1
      <4>2. CASE s # 4
        BY <1>7, <1>14, <1>15, <3>1, <3>2, <3>4, <3>5, <4>2
      <4> QED
        BY <4>1, <4>2
    <3> QED
      BY <3>3, <3>6
  <2> QED
    BY <1>1, <2>1, <2>2
<1>18. ASSUME ~Booting'
       PROVE  /\ openRow'[0] = IF ST' >= 2 /\ ST' <= BurstEnd' + 1 THEN RowOf(mADDR') ELSE Closed
              /\ ST' \notin 2 .. 4 /\ Since' = 3
              /\ age'["REF"] >= 1 /\ age'["PRE"] >= 8
  <2>1. Cont = INIT_PER + 204
    BY <1>1, <1>18, BurstConstants DEF Booting
  <2>2. Cont - INIT_PER = 204
    BY <1>1, <2>1
  <2>3. Slot = 4 /\ Slot' = 5 /\ Cont' > FirstRequest
    <3>1. Slot = 4
      BY <2>2 DEF Slot
    <3> QED
      BY <1>1, <2>1, <3>1
  <2>4. command_done' /\ command_delay' = 6
    BY <2>3, BootChain
  <2>5. Core'
    BY CoreNext DEF Next
  <2>6. ~Issuing'
    BY <2>4, <2>5 DEF ChainInv
  <2>7. Since' = 3
    BY <2>4, <2>6 DEF Since
  <2>8. ST' = 0
    BY BootQuiet, SequencerStep DEF StartsWrite, StartsRead
  <2>9. ~(ST' >= 2) /\ ST' \notin 2 .. 4
    BY <2>8
  <2>10. openRow'[0] = Closed
    BY <1>1, <1>9, <2>1
  <2>11. age'["PRE"] >= 8
    BY <1>1, <1>11, <1>12, <2>1
  <2>12. age'["REF"] >= 1
    BY <1>14, <1>15
  <2> QED
    BY <2>7, <2>9, <2>10, <2>11, <2>12
<1>19. ASSUME ~Booting'
       PROVE  /\ age'["REF"] >= IF Since' <= 2 THEN 14 + Since' ELSE Since' - 2
              /\ age'["PRE"] >= IF Since' <= 2 THEN 6 + Since'
                                ELSE IF Since' <= 10 THEN 8 ELSE Since' - 10
  BY <1>18, <1>19
<1> QED
  BY <1>8, <1>9, <1>13, <1>17, <1>18, <1>19 DEF RowInv

\* Row and ages while accesses and refreshes run.
LEMMA RunRows ==
  ASSUME Core, GrantInv, PinInv, RowInv, Clock, ~Booting, SC_CL = 3
  PROVE  RowInv'
<1> USE DEF Core, ControlInv
<1>1. /\ ST \in Nat /\ BurstEnd \in Nat /\ AccessEnd = BurstEnd + 4 /\ ST <= AccessEnd
      /\ ST # 0 => (mWR <=> ~mRD) /\ BurstEnd = LENGTH + 3
      /\ LENGTH >= 5 /\ LENGTH \in Nat /\ BurstEnd >= 2
  BY Shape, Lengths
<1>2. /\ ST = 0 => ST' = 0 \/ ST' = 1
      /\ ST # 0 =>
           /\ ST' = IF ST = 1 /\ ~CMD_ACK THEN ST ELSE IF ST = AccessEnd THEN 0 ELSE ST + 1
           /\ BurstEnd' = BurstEnd /\ mADDR' = mADDR /\ (mRD' <=> mRD)
  BY Pace
<1>3. ~Booting'
  BY SequencerSilent
<1>4. /\ openRow'[0] = IF pin.cmd = "ACT" THEN pin.a
                       ELSE IF pin.cmd = "PRE" THEN Closed ELSE openRow[0]
      /\ \A b \in Banks \ {0} : openRow'[b] = openRow[b]
      /\ \A c \in {"ACT", "PRE", "REF"} :
           /\ age[c] \in Nat /\ age[c] <= 20
           /\ age'[c] = IF c = pin.cmd THEN 1 ELSE IF age[c] < 20 THEN age[c] + 1 ELSE 20
  BY RowStep DEF Clock, TInv, TypeOK, PinInv
<1>5. /\ pin.cmd = IF command_delay = 7 THEN IF Taken THEN "ACT" ELSE "REF"
                   ELSE IF ST = 4 THEN IF mRD THEN "READ" ELSE "WRITE"
                   ELSE IF ST = BurstEnd + 1 THEN "PRE" ELSE "NOP"
      /\ (pin.cmd = "ACT" => pin.a = RowOf(mADDR))
  BY DEF PinInv
<1>6. command_delay = 7 /\ Taken <=> Acked
  <2>1. ASSUME command_delay = 7, Taken PROVE ST = 1
    <3>1. ~(ST >= 2)
      BY <1>1, <2>1 DEF RunInv
    <3> QED
      BY <1>1, <2>1, <3>1, Steps
  <2> QED
    BY <2>1 DEF Acked
<1>7. Acked <=> ST = 1 /\ CMD_ACK
  <2>1. Acked => ST = 1 /\ CMD_ACK
    BY Steps
  <2>2. ASSUME ST = 1, CMD_ACK PROVE Acked
    <3>1. ST <= 1
      BY <2>2
    <3>2. Taken
      BY <2>2, <3>1 DEF AskedInv
    <3> QED
      BY <2>2, <3>2 DEF TakenInv
  <2> QED
    BY <2>1, <2>2
<1>8. pin.cmd = "ACT" <=> Acked
  BY <1>5, <1>6
<1>9. pin.cmd = "PRE" <=> ST = BurstEnd + 1
  <2>1. ST = BurstEnd + 1 => command_delay # 7 /\ ST # 4
    <3>1. ST = BurstEnd + 1 => ~(command_delay = 7)
      BY SinceStep
    <3> QED
      BY <1>1, <3>1
  <2> QED
    BY <1>5, <2>1
<1>10. pin.cmd = "REF" => command_delay = 7
  BY <1>5
<1>11. \A b \in Banks \ {0} : openRow'[b] = Closed
  BY <1>4 DEF RowInv
<1>12. openRow'[0] = IF ST' >= 2 /\ ST' <= BurstEnd' + 1 THEN RowOf(mADDR') ELSE Closed
  <2>1. openRow[0] = IF ST >= 2 /\ ST <= BurstEnd + 1 THEN RowOf(mADDR) ELSE Closed
    BY DEF RowInv
  <2>2. CASE ST = 0
    <3>1. ~(ST' >= 2) /\ ~Acked /\ ST # BurstEnd + 1 /\ ~(ST >= 2)
      BY <1>1, <1>2, <2>2 DEF Acked
    <3> QED
      BY <1>4, <1>8, <1>9, <2>1, <3>1
  <2>3. CASE Acked
    <3>1. ST' = 2 /\ BurstEnd' = BurstEnd /\ mADDR' = mADDR
      BY <1>1, <1>2, <1>7, <2>3
    <3>2. ST' >= 2 /\ ST' <= BurstEnd' + 1
      BY <1>1, <3>1
    <3> QED
      BY <1>4, <1>5, <1>8, <2>3, <3>1, <3>2
  <2>4. CASE ST = 1 /\ ~Acked
    <3>1. ST' = 1 /\ ST # BurstEnd + 1 /\ ~(ST >= 2)
      BY <1>1, <1>2, <1>7, <2>4
    <3>2. ~(ST' >= 2)
      BY <3>1
    <3> QED
      BY <1>4, <1>8, <1>9, <2>1, <2>4, <3>1, <3>2
  <2>5. CASE ST >= 2
    <3>1. /\ ST' = (IF ST = AccessEnd THEN 0 ELSE ST + 1)
          /\ BurstEnd' = BurstEnd /\ mADDR' = mADDR /\ ~Acked
      BY <1>1, <1>2, <2>5 DEF Acked
    <3>2. ST' >= 2 /\ ST' <= BurstEnd' + 1 <=> ST <= BurstEnd
      BY <1>1, <2>5, <3>1
    <3>3. (ST <= BurstEnd <=> ST <= BurstEnd + 1 /\ ST # BurstEnd + 1)
      BY <1>1
    <3> QED
      BY <1>4, <1>8, <1>9, <2>1, <2>5, <3>1, <3>2, <3>3
  <2> QED
    BY <1>1, <2>2, <2>3, <2>4, <2>5
<1>13. ST' \in 2 .. 4 => age'["ACT"] >= ST' - 1
  <2>1. PICK a \in Nat : a = age["ACT"] /\ a <= 20
    BY <1>4
  <2>2. age'["ACT"] = IF Acked THEN 1 ELSE IF a < 20 THEN a + 1 ELSE 20
    BY <1>4, <1>8, <2>1
  <2>3. CASE Acked
    <3>1. ST' = 2
      BY <1>1, <1>2, <1>7, <2>3
    <3> QED
      BY <2>2, <2>3, <3>1
  <2>4. CASE ~Acked /\ ST <= 1
    <3>1. ST' = 0 \/ ST' = 1
      BY <1>1, <1>2, <1>7, <2>4
    <3> QED
      BY <3>1
  <2>5. CASE ST >= 2
    <3>1. ST' = (IF ST = AccessEnd THEN 0 ELSE ST + 1) /\ ~Acked
      BY <1>1, <1>2, <2>5 DEF Acked
    <3>2. ST \in 2 .. 4 => a >= ST - 1
      BY <2>1 DEF RowInv
    <3> QED
      BY <1>1, <2>1, <2>2, <2>5, <3>1, <3>2
  <2> QED
    BY <1>1, <2>3, <2>4, <2>5
<1>14. /\ Since \in 0 .. 15
       /\ Since <= 14 => Since' = Since + 1 \/ (Since >= 10 /\ Since' = Since)
       /\ Since = 15 => Since' = 15 \/ Since' = 0
       /\ pin.cmd = "REF" => Since = 2
       /\ pin.cmd = "PRE" => Since = 10 /\ Since' = 11
  BY <1>9, <1>10, SinceStep
<1>15. PICK s \in 0 .. 15 : s = Since
  BY <1>14
<1>16. age'["REF"] >= IF Since' <= 2 THEN 14 + Since' ELSE Since' - 2
  <2>1. PICK q \in Nat : q = age["REF"] /\ q <= 20
    BY <1>4
  <2>2. age'["REF"] = IF pin.cmd = "REF" THEN 1 ELSE IF q < 20 THEN q + 1 ELSE 20
    BY <1>4, <2>1
  <2>3. q >= IF s <= 2 THEN 14 + s ELSE s - 2
    BY <1>15, <2>1 DEF RowInv
  <2>4. CASE pin.cmd = "REF"
    BY <1>14, <1>15, <2>2, <2>4
  <2>5. CASE pin.cmd # "REF"
    <3>1. CASE s = 15
      BY <1>14, <1>15, <2>1, <2>2, <2>3, <2>5, <3>1
    <3>2. CASE s <= 14
      BY <1>14, <1>15, <2>1, <2>2, <2>3, <2>5, <3>2
    <3> QED
      BY <1>15, <3>1, <3>2
  <2> QED
    BY <2>4, <2>5
<1>17. age'["PRE"] >= IF Since' <= 2 THEN 6 + Since' ELSE IF Since' <= 10 THEN 8 ELSE Since' - 10
  <2>1. PICK q \in Nat : q = age["PRE"] /\ q <= 20
    BY <1>4
  <2>2. age'["PRE"] = IF pin.cmd = "PRE" THEN 1 ELSE IF q < 20 THEN q + 1 ELSE 20
    BY <1>4, <2>1
  <2>3. q >= IF s <= 2 THEN 6 + s ELSE IF s <= 10 THEN 8 ELSE s - 10
    BY <1>15, <2>1 DEF RowInv
  <2>4. CASE pin.cmd = "PRE"
    BY <1>14, <1>15, <2>2, <2>4
  <2>5. CASE pin.cmd # "PRE"
    <3>1. CASE s = 15
      BY <1>14, <1>15, <2>1, <2>2, <2>3, <2>5, <3>1
    <3>2. CASE s <= 14
      BY <1>14, <1>15, <2>1, <2>2, <2>3, <2>5, <3>2
    <3> QED
      BY <1>15, <3>1, <3>2
  <2> QED
    BY <2>4, <2>5
<1> QED
  BY <1>3, <1>11, <1>12, <1>13, <1>16, <1>17 DEF RowInv

-----------------------------------------------------------------------------
(* The bursts in the chips. *)

\* Division by a constant of the chips' geometry.
LEMMA DivMod ==
  ASSUME NEW a \in Nat, NEW p \in Nat, p > 0
  PROVE  a = p * (a \div p) + (a % p) /\ a % p \in Nat /\ a % p < p /\ a \div p \in Nat
BY Z3

\* A positive multiple is at least one whole.
LEMMA WholeMultiples ==
  ASSUME NEW l \in Nat, NEW k \in Int, l > 0, l * k > 0
  PROVE  l * k >= l
<1>1. ASSUME k <= 0 PROVE l * k <= 0
  BY <1>1, Z3
<1>2. k >= 1
  BY <1>1, Z3
<1> QED
  BY <1>2, Z3

\* The rest of a row is a multiple of a burst.
LEMMA Distribute ==
  ASSUME NEW l \in Nat, NEW m \in Nat, NEW q \in Nat, NEW i \in Nat
  PROVE  l * (m - (i - m * q)) = (l * m) - ((i * l) - ((l * m) * q))
BY Z3

\* A row holds whole bursts: none reaches past its row's last column.
LEMMA ColumnsFit ==
  ASSUME NEW a \in BurstStarts
  PROVE  ColOf(a) \in Nat /\ ColOf(a) + LENGTH <= DevPage
<1>1. PICK i \in 0 .. BURSTS - 1 : a = i * LENGTH
  BY DEF BurstStarts
<1>2. i \in Nat /\ a \in Nat /\ PAGE \in Nat /\ PAGE > 0 /\ LENGTH \in Nat /\ LENGTH > 0
  BY <1>1, BurstStartsInFrame, Constants, GeometryAssumption
<1>3. PICK m \in Nat : PAGE = LENGTH * m
  <2>1. PAGE = LENGTH * (PAGE \div LENGTH) + (PAGE % LENGTH) /\ PAGE \div LENGTH \in Nat
    BY <1>2, DivMod
  <2>2. PAGE = LENGTH * (PAGE \div LENGTH)
    BY <1>2, <2>1, FrameAssumption
  <2> QED
    BY <2>1, <2>2
<1>4. PICK q \in Nat, r \in Nat : a = PAGE * q + r /\ r = a % PAGE /\ r < PAGE
  BY <1>2, DivMod
<1>5. PAGE - r = LENGTH * (m - (i - m * q))
  <2>1. LENGTH * (m - (i - m * q)) = (LENGTH * m) - ((i * LENGTH) - ((LENGTH * m) * q))
    BY <1>2, Distribute
  <2>2. LENGTH * (m - (i - m * q)) = PAGE - (a - (PAGE * q))
    BY <1>1, <1>3, <2>1
  <2>3. PAGE * q \in Nat
    BY <1>2
  <2> QED
    BY <1>2, <1>4, <2>2, <2>3
<1>6. m - (i - m * q) \in Int
  BY <1>2
<1>7. PAGE - r >= LENGTH
  <2>1. LENGTH * (m - (i - m * q)) > 0
    BY <1>2, <1>4, <1>5
  <2> QED
    BY <1>2, <1>5, <1>6, <2>1, WholeMultiples
<1> QED
  BY <1>2, <1>4, <1>7, PageAssumption, DeviceAssumption DEF ColOf

\* What the chips do with a burst and its columns on their way.
LEMMA BurstStep ==
  ASSUME DeviceTypeOK, DeviceClock(pin, DQM), CasLatency = 3
  PROVE  /\ burst'.kind = BurstAt(pin).kind
         /\ BurstAt(pin).kind # "none" => burst'.col = (BurstAt(pin).col + 1) % DevPage
         /\ dout'[3] = IF BurstAt(pin).kind = "READ" THEN BurstAt(pin).col ELSE HiZ
         /\ dout'[2] = IF DQM THEN HiZ ELSE dout[3]
         /\ dout'[1] = dout[2]
<1> DEFINE now == BurstAt(pin)
<1>1. now \in [kind : {"none", "READ", "WRITE"}, col : {pin.a, 0, burst.col}]
  BY DEF BurstAt, DeviceTypeOK, NoBurst
<1>2. /\ burst' = IF now.kind = "none" THEN NoBurst ELSE [now EXCEPT !.col = (@ + 1) % DevPage]
      /\ dout' = [i \in 1 .. 3 |->
                    IF i = 3
                    THEN IF now.kind = "READ" THEN now.col ELSE HiZ
                    ELSE IF i = 3 - 1 /\ DQM THEN HiZ
                    ELSE dout[i + 1]]
  BY DEF DeviceClock
<1> HIDE DEF now
<1>3. /\ burst'.kind = now.kind
      /\ now.kind # "none" => burst'.col = (now.col + 1) % DevPage
  BY <1>1, <1>2 DEF NoBurst
<1>4. /\ dout'[3] = IF now.kind = "READ" THEN now.col ELSE HiZ
      /\ dout'[2] = IF DQM THEN HiZ ELSE dout[3]
      /\ dout'[1] = dout[2]
  BY <1>2
<1> QED
  BY <1>3, <1>4 DEF now

\* No burst runs once the power-up precharge has been given.
LEMMA BootFlow ==
  ASSUME Core, PinInv, FlowInv, Clock, Booting, SC_CL = 3
  PROVE  FlowInv'
<1> USE DEF Core, ControlInv
<1>1. /\ Cont \in Nat /\ Cont' = Cont + 1 /\ RESET_N /\ INIT_PER \in Nat /\ Cont < Ready
      /\ Ready = INIT_PER + 205 /\ FirstRequest = INIT_PER + 21
  BY SlotStep, BurstConstants DEF Booting, Clock, FirstRequest
<1>2. /\ burst'.kind = BurstAt(pin).kind
      /\ dout'[3] = IF BurstAt(pin).kind = "READ" THEN BurstAt(pin).col ELSE HiZ
      /\ dout'[2] = IF DQM THEN HiZ ELSE dout[3]
      /\ dout'[1] = dout[2]
  BY BurstStep, ChipAssumption DEF Clock, TInv, TypeOK
<1>3. pin.cmd \in {"PRE", "REF", "MRS", "NOP"}
  BY <1>1 DEF PinInv
<1>4. Cont = INIT_PER + 24 => pin.cmd = "PRE"
  <2>1. SUFFICES ASSUME Cont = INIT_PER + 24 PROVE pin.cmd = "PRE"
    OBVIOUS
  <2>2. Cont - INIT_PER = 24 /\ Cont > FirstRequest
    BY <1>1, <2>1
  <2>3. Slot = 4
    BY <2>2 DEF Slot
  <2>4. command_delay = 7
    BY <2>2, <2>3 DEF BootInv
  <2> QED
    BY <1>1, <2>1, <2>4 DEF PinInv
<1>5. Cont >= INIT_PER + 24 => BurstAt(pin).kind = "none"
  <2>1. CASE Cont = INIT_PER + 24
    BY <1>4, <2>1 DEF BurstAt, NoBurst
  <2>2. CASE Cont >= INIT_PER + 25
    BY <1>1, <1>3, <2>2 DEF BurstAt, NoBurst, FlowInv
  <2> QED
    BY <1>1, <2>1, <2>2
<1>6. Cont' >= INIT_PER + 25 => burst'.kind = "none" /\ dout'[3] = HiZ
  BY <1>1, <1>2, <1>5
<1>7. Cont' >= INIT_PER + 26 => dout'[2] = HiZ
  BY <1>1, <1>2 DEF FlowInv
<1>8. Cont' >= INIT_PER + 27 => dout'[1] = HiZ
  BY <1>1, <1>2 DEF FlowInv
<1>9. ASSUME ~Booting'
      PROVE  /\ ST' = 0 /\ ~mRD' /\ burst'.kind = "none"
             /\ dout'[3] = HiZ /\ dout'[2] = HiZ /\ dout'[1] = HiZ
  <2>1. Cont' >= INIT_PER + 25 /\ Cont' >= INIT_PER + 26 /\ Cont' >= INIT_PER + 27
    BY <1>1, <1>9, BurstConstants DEF Booting
  <2>2. ST' = 0
    BY BootQuiet, SequencerStep DEF StartsWrite, StartsRead
  <2>3. ~mRD'
    BY BootQuiet, SideStep DEF SequenceInv
  <2> QED
    BY <1>6, <1>7, <1>8, <2>1, <2>2, <2>3
<1>10. ASSUME ~Booting'
       PROVE  /\ ~(ST' >= 5) /\ (mRD' => FALSE)
              /\ dout'[3] = Flow(ST - 1)' /\ dout'[2] = Flow(ST - 2)' /\ dout'[1] = Flow(ST - 3)'
  <2>1. ST' = 0 /\ ~mRD' /\ dout'[3] = HiZ /\ dout'[2] = HiZ /\ dout'[1] = HiZ
    BY <1>9, <1>10
  <2>2. ~(ST' >= 5)
    BY <2>1
  <2> QED
    BY <2>1, <2>2 DEF Flow
<1> QED
  BY <1>6, <1>7, <1>8, <1>9, <1>10 DEF FlowInv

\* The burst an edge with the present pins accesses, and its column.
LEMMA BurstNow ==
  ASSUME Core, GrantInv, PinInv, FlowInv, ~Booting, SC_CL = 3
  PROVE  /\ BurstAt(pin).kind = IF ST >= 4 /\ ST <= BurstEnd
                                THEN IF mRD THEN "READ" ELSE "WRITE"
                                ELSE "none"
         /\ ST >= 4 /\ ST <= BurstEnd => BurstAt(pin).col = (ColOf(mADDR) + ST) - 4
<1> USE DEF Core, ControlInv
<1>1. /\ ST \in Nat /\ BurstEnd \in Nat
      /\ ST # 0 => BurstEnd = LENGTH + 3
      /\ LENGTH >= 5 /\ LENGTH \in Nat /\ BurstEnd >= 2
  BY Shape, Lengths
<1>2. PICK c \in Nat : c = ColOf(mADDR) /\ c + LENGTH <= DevPage /\ DevPage \in Nat
  BY ColumnsFit, DeviceAssumption DEF GrantInv
<1>3. /\ pin.cmd = IF command_delay = 7 THEN IF Taken THEN "ACT" ELSE "REF"
                   ELSE IF ST = 4 THEN IF mRD THEN "READ" ELSE "WRITE"
                   ELSE IF ST = BurstEnd + 1 THEN "PRE" ELSE "NOP"
      /\ pin.cmd \in {"READ", "WRITE"} => pin.a = ColOf(mADDR)
  BY DEF PinInv
<1>4. ST = 4 \/ ST = BurstEnd + 1 => command_delay # 7
  <2>1. ST >= 2 => command_delay # 7
    BY <1>1 DEF RunInv
  <2>2. ST = 4 => ST >= 2
    OBVIOUS
  <2>3. ST = BurstEnd + 1 => ST >= 2
    BY <1>1
  <2> QED
    BY <2>1, <2>2, <2>3
<1>5. /\ burst.kind = IF ST >= 5 /\ ST <= BurstEnd + 1 THEN IF mRD THEN "READ" ELSE "WRITE"
                      ELSE "none"
      /\ ST >= 5 /\ ST <= BurstEnd => burst.col = ColOf(mADDR) + ST - 4
  BY DEF FlowInv
<1>6. /\ BurstAt(pin).kind = IF ST >= 4 /\ ST <= BurstEnd THEN IF mRD THEN "READ" ELSE "WRITE"
                             ELSE "none"
      /\ ST >= 4 /\ ST <= BurstEnd => BurstAt(pin).col = (c + ST) - 4
  <2>1. CASE ST = 4
    <3>1. ST <= BurstEnd /\ ST >= 4 /\ (c + 4) - 4 = c
      BY <1>1, <2>1
    <3>2. pin.cmd = (IF mRD THEN "READ" ELSE "WRITE") /\ pin.a = c
      BY <1>2, <1>3, <1>4, <2>1
    <3>3. BurstAt(pin) = [kind |-> pin.cmd, col |-> pin.a]
      BY <3>2 DEF BurstAt
    <3> QED
      BY <2>1, <3>1, <3>2, <3>3
  <2>2. CASE ST = BurstEnd + 1
    <3>1. ~(ST <= BurstEnd) /\ ST # 4
      BY <1>1, <2>2
    <3>2. pin.cmd = "PRE"
      BY <1>3, <1>4, <2>2, <3>1
    <3> QED
      BY <3>1, <3>2 DEF BurstAt, NoBurst
  <2>3. CASE ST # 4 /\ ST # BurstEnd + 1
    <3>1. pin.cmd \in {"ACT", "REF", "NOP"}
      BY <1>3, <2>3
    <3>2. BurstAt(pin) = burst
      BY <3>1 DEF BurstAt
    <3>3. ST >= 4 /\ ST <= BurstEnd <=> ST >= 5 /\ ST <= BurstEnd + 1
      BY <1>1, <2>3
    <3>4. ST >= 4 /\ ST <= BurstEnd => ST >= 5 /\ c + ST - 4 = (c + ST) - 4
      BY <1>1, <2>3
    <3> QED
      BY <1>2, <1>5, <3>2, <3>3, <3>4
  <2> QED
    BY <2>1, <2>2, <2>3
<1> QED
  BY <1>2, <1>6

\* The columns of an access come out of the chips one per clock.
LEMMA RunFlow ==
  ASSUME Core, GrantInv, OutputInv, PinInv, FlowInv, Clock, ~Booting, SC_CL = 3
  PROVE  FlowInv'
<1> USE DEF Core, ControlInv
<1>1. /\ ST \in Nat /\ BurstEnd \in Nat /\ AccessEnd = BurstEnd + 4 /\ ST <= AccessEnd
      /\ ST # 0 => (mWR <=> ~mRD) /\ BurstEnd = LENGTH + 3
      /\ LENGTH >= 5 /\ LENGTH \in Nat /\ BurstEnd >= 2
  BY Shape, Lengths
<1>2. /\ ST = 0 => ST' = 0 \/ ST' = 1
      /\ ST # 0 =>
           /\ ST' = IF ST = 1 /\ ~CMD_ACK THEN ST ELSE IF ST = AccessEnd THEN 0 ELSE ST + 1
           /\ BurstEnd' = BurstEnd /\ mADDR' = mADDR /\ (mRD' <=> mRD)
  BY Pace
<1>3. ~Booting'
  BY SequencerSilent
<1>4. /\ burst'.kind = BurstAt(pin).kind
      /\ BurstAt(pin).kind # "none" => burst'.col = (BurstAt(pin).col + 1) % DevPage
      /\ dout'[3] = IF BurstAt(pin).kind = "READ" THEN BurstAt(pin).col ELSE HiZ
      /\ dout'[2] = IF DQM THEN HiZ ELSE dout[3]
      /\ dout'[1] = dout[2]
  BY BurstStep, ChipAssumption DEF Clock, TInv, TypeOK
<1>5. PICK c \in Nat : c = ColOf(mADDR) /\ c + LENGTH <= DevPage /\ DevPage \in Nat
  BY ColumnsFit, DeviceAssumption DEF GrantInv
<1>6. /\ burst.kind = IF ST >= 5 /\ ST <= BurstEnd + 1 THEN IF mRD THEN "READ" ELSE "WRITE"
                      ELSE "none"
      /\ ST >= 5 /\ ST <= BurstEnd => burst.col = ColOf(mADDR) + ST - 4
      /\ dout[3] = Flow(ST - 1) /\ dout[2] = Flow(ST - 2) /\ dout[1] = Flow(ST - 3)
  BY DEF FlowInv
<1>7. /\ BurstAt(pin).kind = IF ST >= 4 /\ ST <= BurstEnd THEN IF mRD THEN "READ" ELSE "WRITE"
                             ELSE "none"
      /\ ST >= 4 /\ ST <= BurstEnd => BurstAt(pin).col = (c + ST) - 4
  BY <1>5, BurstNow
<1>8. ASSUME ST # 0, ST' = ST + 1
       PROVE  /\ burst'.kind = IF ST' >= 5 /\ ST' <= BurstEnd' + 1
                               THEN IF mRD' THEN "READ" ELSE "WRITE" ELSE "none"
              /\ ST' >= 5 /\ ST' <= BurstEnd' => burst'.col = ColOf(mADDR') + ST' - 4
              /\ dout'[3] = Flow(ST - 1)' /\ dout'[2] = Flow(ST - 2)' /\ dout'[1] = Flow(ST - 3)'
              /\ mRD' /\ ST' >= 8 => mDATAOUT' = ColOf(mADDR') + ST' - 8
  <2>1. BurstEnd' = BurstEnd /\ mADDR' = mADDR /\ (mRD' <=> mRD) /\ ST # AccessEnd
    BY <1>1, <1>2, <1>8
  <2>2. ST + 1 >= 5 /\ ST + 1 <= BurstEnd + 1 <=> ST >= 4 /\ ST <= BurstEnd
    BY <1>1
  <2>3. burst'.kind = IF ST' >= 5 /\ ST' <= BurstEnd' + 1
                      THEN IF mRD' THEN "READ" ELSE "WRITE" ELSE "none"
    BY <1>4, <1>7, <1>8, <2>1, <2>2
  <2>4. ST' >= 5 /\ ST' <= BurstEnd' => burst'.col = ColOf(mADDR') + ST' - 4
    <3>1. SUFFICES ASSUME ST + 1 >= 5, ST + 1 <= BurstEnd
                   PROVE  burst'.col = c + (ST + 1) - 4
      BY <1>5, <1>8, <2>1
    <3>2. ST >= 4 /\ ST <= BurstEnd /\ BurstEnd = LENGTH + 3
      BY <1>1, <3>1
    <3>3. burst'.col = ((c + ST) - 4 + 1) % DevPage
      BY <1>4, <1>7, <3>2
    <3>4. PICK n \in Nat : n = (c + ST) - 4 + 1 /\ n < DevPage /\ n = c + (ST + 1) - 4
      BY <1>1, <1>5, <3>1, <3>2
    <3>5. n % DevPage = n
      BY <1>5, <3>4, Z3
    <3> QED
      BY <3>3, <3>4, <3>5
  <2>5. \A k \in Int : Flow(k)' = Flow(k)
    BY <2>1 DEF Flow
  <2>6. dout'[3] = Flow(ST - 1)'
    <3>1. Flow(ST - 1)' = Flow(ST)
      <4>1. ST' - 1 = ST
        BY <1>1, <1>8
      <4> QED
        BY <2>1, <4>1 DEF Flow
    <3>2. c + ST - 4 = (c + ST) - 4
      BY <1>1
    <3>3. Flow(ST) = IF mRD /\ ST >= 4 /\ ST <= BurstEnd THEN (c + ST) - 4 ELSE HiZ
      BY <1>5, <3>2 DEF Flow
    <3> QED
      BY <1>4, <1>7, <3>1, <3>3
  <2>7. dout'[2] = Flow(ST - 2)'
    <3>1. Flow(ST - 2)' = Flow(ST - 1)
      <4>1. ST' - 2 = ST - 1
        BY <1>1, <1>8
      <4> QED
        BY <2>1, <4>1 DEF Flow
    <3>2. DQM => Flow(ST - 1) = HiZ
      <4>1. DQM <=> ~(ST >= 4 /\ ~(mWR /\ ST = BurstEnd + 1))
        BY <1>8 DEF OutputInv
      <4>2. ~(ST >= 4) => ~(ST - 1 >= 4)
        BY <1>1
      <4> QED
        BY <1>1, <1>8, <4>1, <4>2 DEF Flow
    <3> QED
      BY <1>4, <1>6, <3>1, <3>2
  <2>8. dout'[1] = Flow(ST - 3)'
    <3>1. Flow(ST - 3)' = Flow(ST - 2)
      <4>1. ST' - 3 = ST - 2
        BY <1>1, <1>8
      <4> QED
        BY <2>1, <4>1 DEF Flow
    <3> QED
      BY <1>4, <1>6, <3>1
  <2>9. mRD' /\ ST' >= 8 => mDATAOUT' = ColOf(mADDR') + ST' - 8
    <3>1. SUFFICES ASSUME mRD, ST + 1 >= 8
                   PROVE  mDATAOUT' = c + (ST + 1) - 8
      BY <1>5, <1>8, <2>1
    <3>2. ST - 3 >= 4 /\ ST - 3 <= BurstEnd
      BY <1>1, <2>1, <3>1
    <3>3. dout[1] = c + (ST - 3) - 4
      BY <1>5, <1>6, <3>1, <3>2 DEF Flow
    <3>4. c + (ST - 3) - 4 = c + (ST + 1) - 8 /\ c + (ST - 3) - 4 # HiZ
      BY <1>1, <1>5, <3>2 DEF HiZ
    <3>5. mDATAOUT' = BusColumn
      BY Edge DEF OutputRegisters
    <3> QED
      BY <3>3, <3>4, <3>5 DEF BusColumn, DrivesBus
  <2> QED
    BY <2>3, <2>4, <2>6, <2>7, <2>8, <2>9
<1>9. ASSUME ST = 0 \/ (ST = 1 /\ ~CMD_ACK) \/ ST = AccessEnd
       PROVE  /\ burst'.kind = IF ST' >= 5 /\ ST' <= BurstEnd' + 1
                               THEN IF mRD' THEN "READ" ELSE "WRITE" ELSE "none"
              /\ ST' >= 5 /\ ST' <= BurstEnd' => burst'.col = ColOf(mADDR') + ST' - 4
              /\ dout'[3] = Flow(ST - 1)' /\ dout'[2] = Flow(ST - 2)' /\ dout'[1] = Flow(ST - 3)'
              /\ mRD' /\ ST' >= 8 => mDATAOUT' = ColOf(mADDR') + ST' - 8
  <2>1. /\ ~(ST >= 4 /\ ST <= BurstEnd) /\ ~(ST - 1 >= 4 /\ ST - 1 <= BurstEnd)
        /\ ~(ST - 2 >= 4 /\ ST - 2 <= BurstEnd)
    BY <1>1, <1>9
  <2>2. dout'[3] = HiZ /\ dout'[2] = HiZ /\ dout'[1] = HiZ /\ burst'.kind = "none"
    BY <1>4, <1>6, <1>7, <2>1 DEF Flow
  <2>3. ST' = 0 \/ ST' = 1
    BY <1>1, <1>2, <1>9
  <2>4. /\ ~(ST' >= 5) /\ ~(ST' >= 8)
        /\ ~(ST' - 1 >= 4) /\ ~(ST' - 2 >= 4) /\ ~(ST' - 3 >= 4)
    BY <2>3
  <2> QED
    BY <2>2, <2>4 DEF Flow
<1>10. (ST' = ST + 1 /\ ST # 0) \/ ST = 0 \/ (ST = 1 /\ ~CMD_ACK) \/ ST = AccessEnd
  BY <1>2
<1> QED
  BY <1>3, <1>8, <1>9, <1>10 DEF FlowInv

-----------------------------------------------------------------------------
(* What the chips ask of their pins. *)

\* The chips' times, and what their rows hold.
LEMMA ChipTimes ==
  ASSUME SC_CL = 3, DeviceTypeOK
  PROVE  /\ tRP \in Nat /\ tRP <= 8 /\ tRFC \in Nat /\ tRFC <= 16 /\ tRCD \in Nat /\ tRCD <= 3
         /\ \A c \in {"ACT", "PRE", "REF"} : age[c] \in Nat /\ age[c] <= 20
         /\ \A r \in Nat : r # Closed
         /\ 0 \in Banks
BY ChipAssumption, DeviceAssumption DEF DeviceTypeOK, Closed, Old

\* The power-up commands find their rows closed and their predecessors old
\* enough.
LEMMA BootCommands ==
  SC_CL = 3 /\ RESET_N /\ Booting /\ Core /\ PinInv /\ RowInv => CommandInv
<1> SUFFICES ASSUME SC_CL = 3, RESET_N, Booting, Core, PinInv, RowInv PROVE CommandInv
  OBVIOUS
<1> USE DEF Core, ControlInv
<1>1. /\ tRP \in Nat /\ tRP <= 8 /\ tRFC \in Nat /\ tRFC <= 16
      /\ \A c \in {"ACT", "PRE", "REF"} : age[c] \in Nat /\ age[c] <= 20
  BY ChipTimes DEF TInv, TypeOK
<1>2. Cont \in Nat /\ INIT_PER \in Nat /\ FirstRequest = INIT_PER + 21 /\ INIT_PER > 0
  BY BurstConstants, BootIssues DEF FirstRequest
<1>3. /\ command_delay = 8 => Cont > FirstRequest /\ Slot = 3
      /\ command_delay = 7 => Cont > FirstRequest /\ Slot = 4
  <2>1. /\ command_done <=> Cont > FirstRequest /\ Slot \in 3 .. 11
        /\ command_delay = IF command_done THEN 11 - Slot ELSE 0
    BY DEF BootInv
  <2>2. CASE Cont > FirstRequest
    <3>1. Slot \in 0 .. 19
      BY <2>2, BootIssues
    <3> QED
      BY <2>1, <2>2, <3>1
  <2> QED
    BY <2>1, <2>2
<1>4. ASSUME Cont > FirstRequest, Slot = 3 \/ Slot = 4
      PROVE  IF Slot = 3 THEN Cont = INIT_PER + 23 \/ Cont >= INIT_PER + 43
             ELSE Cont = INIT_PER + 24 \/ Cont >= INIT_PER + 44
  <2>1. PICK j \in Nat : j = Cont - INIT_PER /\ j >= 22
    BY <1>2, <1>4
  <2>2. Slot = j % 20
    BY <2>1 DEF Slot
  <2>3. (j % 20 = 3 => j = 23 \/ j >= 43) /\ (j % 20 = 4 => j = 24 \/ j >= 44)
    BY <2>1, Z3
  <2> QED
    BY <1>2, <1>4, <2>1, <2>2, <2>3
<1>5. /\ ipin.cmd # "NOP" => command_delay = 8
      /\ ipin.cmd \in {"NOP", "PRE", "REF", "MRS"}
      /\ command_delay = 8 => (ipin.cmd = "PRE" <=> Cont = INIT_PER + 23)
      /\ pin.cmd # "NOP" => command_delay = 7
      /\ pin.cmd \in {"NOP", "PRE", "REF", "MRS"}
      /\ command_delay = 7 => (pin.cmd = "PRE" <=> Cont = INIT_PER + 24)
  BY DEF PinInv
<1>6. ASSUME ipin.cmd \in {"REF", "MRS"} PROVE Slot = 3 /\ Cont >= INIT_PER + 43
  BY <1>3, <1>4, <1>5, <1>6
<1>7. ASSUME pin.cmd \in {"REF", "MRS"} PROVE Slot = 4 /\ Cont >= INIT_PER + 44
  BY <1>3, <1>4, <1>5, <1>7
<1>8. ASSUME Cont >= INIT_PER + 43, Slot = 3 \/ Slot = 4
      PROVE  AllClosed /\ openRow[0] = Closed /\ age["PRE"] >= tRP /\ age["REF"] >= tRFC
  <2>1. Cont >= INIT_PER + 25 /\ ~(Cont <= INIT_PER + 24) /\ ~(Cont <= INIT_PER + 32)
        /\ ~(Cont <= 20)
    BY <1>2, <1>8
  <2>2. openRow[0] = Closed /\ age["PRE"] >= 8
    BY <2>1 DEF RowInv
  <2>3. age["REF"] >= 19
    BY <1>1, <1>8, <2>1 DEF RowInv
  <2>4. AllClosed
    BY <2>2 DEF RowInv, AllClosed
  <2> QED
    BY <1>1, <2>2, <2>3, <2>4
<1>9. Legal(pin)
  <2>1. CASE pin.cmd \in {"REF", "MRS"}
    <3>1. Cont >= INIT_PER + 43
      BY <1>2, <1>7, <2>1
    <3> QED
      BY <1>7, <1>8, <2>1, <3>1 DEF Legal
  <2>2. CASE pin.cmd \in {"NOP", "PRE"}
    BY <2>2 DEF Legal
  <2> QED
    BY <1>5, <2>1, <2>2
<1>10. ASSUME ipin.cmd \in {"REF", "MRS"}
       PROVE  /\ pin.cmd = "NOP" /\ openRow[0] = Closed
              /\ age["PRE"] + 1 >= tRP /\ age["REF"] + 1 >= tRFC
  <2>1. pin.cmd = "NOP"
    BY <1>5, <1>10
  <2>2. openRow[0] = Closed /\ age["PRE"] >= tRP /\ age["REF"] >= tRFC
    BY <1>6, <1>8, <1>10
  <2>3. age["PRE"] \in Nat /\ age["REF"] \in Nat
    BY <1>1
  <2> QED
    BY <1>1, <2>1, <2>2, <2>3
<1> QED
  BY <1>5, <1>9, <1>10 DEF CommandInv

\* Those of accesses and refreshes.
LEMMA RunCommands ==
  SC_CL = 3 /\ ~Booting /\ Core /\ GrantInv /\ PinInv /\ RowInv => CommandInv
<1> SUFFICES ASSUME SC_CL = 3, ~Booting, Core, GrantInv, PinInv, RowInv PROVE CommandInv
  OBVIOUS
<1> USE DEF Core, ControlInv
<1>1. /\ tRP \in Nat /\ tRP <= 8 /\ tRFC \in Nat /\ tRFC <= 16 /\ tRCD \in Nat /\ tRCD <= 3
      /\ \A c \in {"ACT", "PRE", "REF"} : age[c] \in Nat /\ age[c] <= 20
      /\ \A r \in Nat : r # Closed
  BY ChipTimes DEF TInv, TypeOK
<1>2. /\ ST \in Nat /\ BurstEnd \in Nat
      /\ ST # 0 => BurstEnd = LENGTH + 3
      /\ LENGTH >= 5 /\ LENGTH \in Nat
  BY Shape
<1>3. /\ command_delay \in Nat /\ command_delay <= 8
  BY CountTypes
<1>4. /\ command_delay > 0 => command_done
      /\ command_done => ~Issuing
  BY DEF ChainInv
<1>5. /\ command_delay = 8 => Since = 1
      /\ command_delay = 7 => Since = 2
  BY <1>3, <1>4 DEF Since
<1>6. command_delay = 8 \/ command_delay = 7 => ~(ST >= 2)
  BY <1>2 DEF RunInv
<1>7. ASSUME command_delay = 8 \/ command_delay = 7
      PROVE  /\ AllClosed /\ openRow[0] = Closed
             /\ age["PRE"] >= IF command_delay = 8 THEN 7 ELSE 8
             /\ age["REF"] >= IF command_delay = 8 THEN 15 ELSE 16
  <2>1. openRow[0] = Closed
    BY <1>6, <1>7 DEF RowInv
  <2>2. AllClosed
    BY <2>1 DEF RowInv, AllClosed
  <2>3. /\ age["REF"] >= IF Since <= 2 THEN 14 + Since ELSE Since - 2
        /\ age["PRE"] >= IF Since <= 2 THEN 6 + Since ELSE IF Since <= 10 THEN 8 ELSE Since - 10
    BY DEF RowInv
  <2>4. CASE command_delay = 8
    BY <1>5, <2>1, <2>2, <2>3, <2>4
  <2>5. CASE command_delay = 7
    BY <1>5, <2>1, <2>2, <2>3, <2>5
  <2> QED
    BY <1>7, <2>4, <2>5
<1>8. RowOf(mADDR) \in Nat
  BY BurstStartsInFrame, GeometryAssumption DEF GrantInv, RowOf
<1>9. ASSUME ST = 3 \/ ST = 4
      PROVE  openRow[0] # Closed /\ age["ACT"] >= ST - 1
  <2>1. ST >= 2 /\ ST <= BurstEnd + 1 /\ ST \in 2 .. 4
    BY <1>2, <1>9
  <2> QED
    BY <1>1, <1>8, <2>1 DEF RowInv
<1>10. Legal(pin)
  <2>1. CASE command_delay = 7
    <3>1. AllClosed /\ openRow[0] = Closed /\ age["PRE"] >= 8 /\ age["REF"] >= 16
      <4>1. command_delay # 8
        BY <2>1
      <4> QED
        BY <1>7, <2>1, <4>1
    <3>2. age["PRE"] >= tRP /\ age["REF"] >= tRFC
      BY <1>1, <3>1
    <3>3. pin.cmd \in {"ACT", "REF"} /\ pin.bank = 0
      BY <2>1 DEF PinInv
    <3> QED
      BY <3>1, <3>2, <3>3 DEF Legal
  <2>2. CASE command_delay # 7 /\ ST = 4
    <3>1. openRow[0] # Closed /\ age["ACT"] >= 3
      BY <1>9, <2>2
    <3>2. age["ACT"] >= tRCD
      BY <1>1, <3>1
    <3>3. pin.cmd \in {"READ", "WRITE"} /\ pin.bank = 0
      BY <2>2 DEF PinInv
    <3> QED
      BY <3>1, <3>2, <3>3 DEF Legal
  <2>3. CASE command_delay # 7 /\ ST # 4
    <3>1. pin.cmd \in {"PRE", "NOP"}
      BY <2>3 DEF PinInv
    <3> QED
      BY <3>1 DEF Legal
  <2> QED
    BY <2>1, <2>2, <2>3
<1>11. ASSUME ipin.cmd \in {"ACT", "REF", "MRS"}
       PROVE  /\ pin.cmd = "NOP" /\ openRow[0] = Closed
              /\ age["PRE"] + 1 >= tRP /\ age["REF"] + 1 >= tRFC
  <2>1. command_delay = 8
    BY <1>11 DEF PinInv
  <2>2. ST # 4 /\ ST # BurstEnd + 1
    <3>1. ~(ST >= 2)
      BY <1>6, <2>1
    <3> QED
      BY <1>2, <3>1
  <2>3. pin.cmd = "NOP"
    BY <2>1, <2>2 DEF PinInv
  <2>4. openRow[0] = Closed /\ age["PRE"] >= 7 /\ age["REF"] >= 15
    BY <1>7, <2>1
  <2>5. PICK p \in Nat, q \in Nat : p = age["PRE"] /\ q = age["REF"]
    BY <1>1
  <2> QED
    BY <1>1, <2>3, <2>4, <2>5
<1>12. ASSUME ipin.cmd \in {"READ", "WRITE"}
       PROVE  pin.cmd = "NOP" /\ openRow[0] # Closed /\ age["ACT"] + 1 >= tRCD
  <2>1. ST = 3
    BY <1>12 DEF PinInv
  <2>2. command_delay = 5
    <3>1. ST >= 2 /\ ST <= 8
      BY <2>1
    <3> QED
      BY <2>1, <3>1 DEF RunInv
  <2>3. ST # 4 /\ ST # BurstEnd + 1
    BY <1>2, <2>1
  <2>4. pin.cmd = "NOP"
    BY <2>2, <2>3 DEF PinInv
  <2>5. openRow[0] # Closed /\ age["ACT"] >= 2
    BY <1>9, <2>1
  <2>6. PICK p \in Nat : p = age["ACT"]
    BY <1>1
  <2> QED
    BY <1>1, <2>4, <2>5, <2>6
<1> QED
  BY <1>10, <1>11, <1>12 DEF CommandInv

\* An access drives the bus only when it writes.
LEMMA RunDrive ==
  SC_CL = 3 /\ ~Booting /\ Core /\ OutputInv /\ PinInv /\ FlowInv => DriveInv
<1> SUFFICES ASSUME SC_CL = 3, ~Booting, Core, OutputInv, PinInv, FlowInv, oe4 \/ OE
             PROVE  /\ burst.kind # "READ" /\ ipin.cmd # "READ" /\ pin.cmd # "READ"
                    /\ dout[1] = HiZ /\ dout[2] = HiZ /\ dout[3] = HiZ
  BY DEF DriveInv
<1>1. mWR /\ ST # 0
  <2>1. mWR /\ (ST = 1 \/ ST >= 2)
    BY DEF OutputInv
  <2> QED
    BY <2>1, Shape
<1>2. ~mRD
  BY <1>1, Shape
<1> QED
  BY <1>2 DEF PinInv, FlowInv, Flow

\* During power up an output enable that was on goes off.
LEMMA BootDrive ==
  ASSUME Core, PinInv, DriveInv, Clock, Booting, SC_CL = 3
  PROVE  /\ oe4' \/ OE' => burst'.kind # "READ"
         /\ oe4' \/ OE' => dout'[1] = HiZ /\ dout'[2] = HiZ /\ dout'[3] = HiZ
<1> USE DEF Core, ControlInv
<1>1. oe4' \/ OE' => oe4
  BY BootQuiet, OutputStep
<1>2. oe4 => burst.kind # "READ" /\ dout[2] = HiZ /\ dout[3] = HiZ
  BY DEF DriveInv
<1>3. /\ burst'.kind = BurstAt(pin).kind
      /\ dout'[3] = IF BurstAt(pin).kind = "READ" THEN BurstAt(pin).col ELSE HiZ
      /\ dout'[2] = IF DQM THEN HiZ ELSE dout[3]
      /\ dout'[1] = dout[2]
  BY BurstStep, ChipAssumption DEF Clock, TInv, TypeOK
<1>4. BurstAt(pin).kind = "none" \/ BurstAt(pin) = burst
  <2>1. pin.cmd \in {"PRE", "REF", "MRS", "NOP"}
    BY DEF PinInv, Clock
  <2> QED
    BY <2>1 DEF BurstAt, NoBurst
<1> QED
  BY <1>1, <1>2, <1>3, <1>4

-----------------------------------------------------------------------------
(* The steps together. *)

\* A clock edge keeps the words, the pins and the chips as they should be.
LEMMA DataClock ==
  ASSUME Core, DataInv, Clock, SC_CL = 3
  PROVE  DataInv'
<1> USE DEF DataInv
<1>1. Core' /\ RESET_N'
  BY CoreNext DEF Next, Clock
<1>2. GrantInv' /\ WordInv' /\ OutputInv'
  BY GrantStep, WordInvStep, OutputInvStep
<1>3. PinInv' /\ RowInv' /\ FlowInv'
  <2>1. CASE Booting
    BY <2>1, BootPins, BootRows, BootFlow
  <2>2. CASE ~Booting
    BY <2>2, RunPins, RunRows, RunFlow
  <2> QED
    BY <2>1, <2>2
<1>4. CommandInv'
  <2>1. (SC_CL = 3 /\ RESET_N /\ Booting /\ Core /\ PinInv /\ RowInv => CommandInv)'
    BY BootCommands, PTL
  <2>2. (SC_CL = 3 /\ ~Booting /\ Core /\ GrantInv /\ PinInv /\ RowInv => CommandInv)'
    BY RunCommands, PTL
  <2> QED
    BY <1>1, <1>2, <1>3, <2>1, <2>2
<1>5. DriveInv'
  <2>1. (SC_CL = 3 /\ ~Booting /\ Core /\ OutputInv /\ PinInv /\ FlowInv => DriveInv)'
    BY RunDrive, PTL
  <2>2. CASE Booting'
    <3>1. Booting
      BY <2>2, SequencerSilent DEF Core, ControlInv
    <3>2. ipin'.cmd # "READ" /\ pin'.cmd # "READ"
      BY <1>1, <1>3, <2>2 DEF PinInv
    <3> QED
      BY <3>1, <3>2, BootDrive DEF DriveInv
  <2> QED
    BY <1>1, <1>2, <1>3, <2>1, <2>2
<1> QED
  BY <1>2, <1>3, <1>4, <1>5

\* What is left of it while the key is held: commands still on their way.
Stopped ==
  /\ ~RESET_N /\ mADDR \in BurstStarts /\ SADDR \in BurstStarts
  /\ ~IN_REQ /\ ~OUT_VALID /\ ~OE /\ ~do_initial
  /\ ipin.bank = 0 /\ pin.bank = 0
  /\ \A b \in Banks \ {0} : openRow[b] = Closed
  /\ CommandInv /\ DriveInv

\* It is all there is to keep while the controller is held cleared.
LEMMA StoppedData == Core /\ Stopped => DataInv
<1> SUFFICES ASSUME Core, Stopped PROVE DataInv
  OBVIOUS
<1> USE DEF Core, ControlInv, Stopped
<1>1. Cont = 0
  BY DEF SequenceInv
<1>2. Booting /\ ~(Cont \in 2 .. INIT_PER + 1)
  BY <1>1, BurstConstants DEF Booting
<1>3. ST = 0 /\ ~mWR /\ ~mRD
  BY <1>2, BootQuiet
<1>4. GrantInv
  BY <1>3 DEF GrantInv
<1>5. WordInv
  BY <1>3 DEF WordInv
<1>6. OutputInv
  BY <1>2 DEF OutputInv
<1>7. PinInv /\ RowInv /\ FlowInv
  BY <1>2 DEF PinInv, RowInv, FlowInv
<1> QED
  BY <1>4, <1>5, <1>6, <1>7 DEF DataInv

\* At power up nothing runs and only bank 0 may have a row open.
LEMMA InitData == Init => Stopped
<1> SUFFICES ASSUME Init PROVE Stopped
  OBVIOUS
<1>1. /\ ~RESET_N /\ mADDR = 0 /\ SADDR = 0
      /\ ~IN_REQ /\ ~OUT_VALID /\ ~OE /\ ~oe4 /\ ~do_initial
      /\ ipin = Pin("NOP", 0, 0) /\ pin = Pin("NOP", 0, 0)
  BY DEF Init, IfcInit, CmdInit, SeqInit
<1>2. ipin.bank = 0 /\ pin.bank = 0 /\ ipin.cmd = "NOP" /\ pin.cmd = "NOP"
  BY <1>1 DEF Pin
<1>3. CommandInv /\ DriveInv
  BY <1>1, <1>2 DEF CommandInv, DriveInv, Legal
<1>4. \A b \in Banks \ {0} : openRow[b] = Closed
  <2>1. PICK O \in PowerUpOpen : openRow = [b \in Banks |-> IF b \in O THEN 0 ELSE Closed]
    BY DEF Init, DeviceInit
  <2>2. O \subseteq {0}
    BY FrameAssumption
  <2> QED
    BY <2>1, <2>2
<1> QED
  BY <1>1, <1>2, <1>3, <1>4, ZeroIsBurstStart DEF Stopped

\* The press leaves the pins to the next edge.
LEMMA PressData ==
  ASSUME DataInv, PressKey
  PROVE  Stopped'
<1>1. /\ ~RESET_N' /\ mADDR' = 0 /\ SADDR' = 0 /\ ~IN_REQ' /\ ~OUT_VALID' /\ ~OE' /\ ~do_initial'
      /\ oe4' = oe4 /\ ipin' = ipin /\ pin' = pin /\ openRow' = openRow /\ age' = age
      /\ burst' = burst /\ dout' = dout
  BY DEF PressKey, ControlReset, IfcReset, CmdReset, ClearIssue, SeqReset, outVars, deviceVars
<1>2. CommandInv'
  BY <1>1 DEF DataInv, CommandInv, Legal, AllClosed
<1>3. DriveInv'
  BY <1>1 DEF DataInv, DriveInv
<1>4. mADDR' \in BurstStarts' /\ SADDR' \in BurstStarts'
  BY <1>1, ZeroIsBurstStart DEF BurstStarts
<1> QED
  BY <1>1, <1>2, <1>3, <1>4 DEF Stopped, DataInv, PinInv, RowInv

\* And it follows from what held before.
LEMMA HoldsStopped ==
  ASSUME Core, DataInv, ~RESET_N
  PROVE  Stopped
<1>1. Cont = 0
  BY DEF Core, ControlInv, SequenceInv
<1>2. Booting /\ ~(Cont \in 2 .. INIT_PER + 1)
  BY <1>1, BurstConstants DEF Booting
<1>3. ~mWR /\ ~mRD
  BY <1>2, BootQuiet DEF Core, ControlInv
<1> QED
  BY <1>1, <1>2, <1>3 DEF Stopped, DataInv, GrantInv, WordInv, OutputInv, PinInv, RowInv

\* An edge while the key is held moves the last command on, to chips that
\* still fit it.
LEMMA HeldData ==
  ASSUME Core, Stopped, HeldClock, SC_CL = 3
  PROVE  Stopped'
<1> USE DEF Core, ControlInv, Stopped
<1>1. ST = 0 /\ ST # BurstEnd
  <2>1. Cont = 0
    BY DEF SequenceInv
  <2>2. Booting
    BY <2>1, BurstConstants DEF Booting
  <2> QED
    BY <2>2, BootQuiet, Lengths
<1>2. /\ ~RESET_N' /\ mADDR' \in BurstStarts' /\ SADDR' \in BurstStarts'
      /\ ~IN_REQ' /\ ~OUT_VALID' /\ ~OE' /\ ~do_initial'
      /\ oe4' = oe4 /\ ipin' = Pin("NOP", 0, 0) /\ pin' = ipin
  BY <1>1 DEF HeldClock, ControlHeld, CmdHeld, OutputRegisters, ifcVars, cmdVars, issueVars,
              seqVars, arbVars, BurstStarts
<1>3. ipin'.bank = 0 /\ pin'.bank = 0 /\ ipin'.cmd = "NOP" /\ pin'.cmd = ipin.cmd
  BY <1>2 DEF Pin
<1>4. DeviceTypeOK /\ DeviceClock(pin, DQM) /\ CasLatency = 3
  BY ChipAssumption DEF HeldClock, TInv, TypeOK
<1>5. /\ openRow'[0] = IF pin.cmd = "ACT" THEN pin.a
                       ELSE IF pin.cmd = "PRE" THEN Closed ELSE openRow[0]
      /\ \A b \in Banks \ {0} : openRow'[b] = openRow[b]
      /\ \A c \in {"ACT", "PRE", "REF"} :
           /\ age[c] \in Nat /\ age[c] <= 20
           /\ age'[c] = IF c = pin.cmd THEN 1 ELSE IF age[c] < 20 THEN age[c] + 1 ELSE 20
  BY <1>4, RowStep
<1>6. /\ tRP \in Nat /\ tRP <= 8 /\ tRFC \in Nat /\ tRFC <= 16 /\ tRCD \in Nat /\ tRCD <= 3
  BY <1>4, ChipTimes
<1>7. ASSUME pin.cmd = "NOP", NEW c \in {"ACT", "PRE", "REF"},
             NEW t \in Nat, t <= 20, age[c] + 1 >= t
      PROVE  age'[c] >= t
  <2>1. PICK q \in Nat : q = age[c] /\ q <= 20
    BY <1>5
  <2>2. age'[c] = IF q < 20 THEN q + 1 ELSE 20
    BY <1>5, <1>7, <2>1
  <2> QED
    BY <1>7, <2>1, <2>2
<1>8. Legal(pin)'
  <2>1. CASE ipin.cmd \in {"ACT", "REF", "MRS"}
    <3>1. pin.cmd = "NOP" /\ openRow'[0] = Closed /\ age'["PRE"] >= tRP /\ age'["REF"] >= tRFC
      BY <1>5, <1>6, <1>7, <2>1 DEF CommandInv
    <3>2. AllClosed'
      BY <1>5, <3>1 DEF AllClosed
    <3> QED
      BY <1>3, <2>1, <3>1, <3>2 DEF Legal
  <2>2. CASE ipin.cmd \in {"READ", "WRITE"}
    <3>1. pin.cmd = "NOP" /\ openRow'[0] # Closed /\ age'["ACT"] >= tRCD
      BY <1>5, <1>6, <1>7, <2>2 DEF CommandInv
    <3> QED
      BY <1>3, <2>2, <3>1 DEF Legal
  <2>3. CASE ipin.cmd \notin {"ACT", "REF", "MRS", "READ", "WRITE"}
    BY <1>3, <2>3 DEF Legal
  <2> QED
    BY <2>1, <2>2, <2>3
<1>9. CommandInv'
  BY <1>3, <1>8 DEF CommandInv
<1>10. DriveInv'
  <2>1. SUFFICES ASSUME oe4
                 PROVE  /\ burst'.kind # "READ" /\ ipin'.cmd # "READ" /\ pin'.cmd # "READ"
                        /\ dout'[1] = HiZ /\ dout'[2] = HiZ /\ dout'[3] = HiZ
    BY <1>2 DEF DriveInv
  <2>2. BurstAt(pin).kind # "READ"
    BY <2>1 DEF DriveInv, BurstAt, NoBurst
  <2> QED
    BY <1>3, <1>4, <2>1, <2>2, BurstStep DEF DriveInv
<1> QED
  BY <1>2, <1>3, <1>5, <1>9, <1>10

\* The release finds the pins flushed and the mask up.
LEMMA ReleaseData ==
  ASSUME Core, DataInv, ReleaseKey
  PROVE  DataInv'
<1> USE DEF DataInv
<1>1. UNCHANGED <<controlVars, deviceVars, delayVars, fifoVars>> /\ ~RESET_N
      /\ pin.cmd = "NOP" /\ ipin.cmd = "NOP" /\ DQM
  BY DEF ReleaseKey
<1> USE <1>1 DEF controlVars, ifcVars, cmdVars, issueVars, seqVars, addrVars, arbVars, outVars,
                 deviceVars, delayVars, fifoVars
<1>2. Cont = 0 /\ INIT_PER \in Nat /\ INIT_PER > 0
  BY BurstConstants DEF Core, ControlInv, SequenceInv
<1>3. Booting /\ Cont' = 0
  BY <1>2, BurstConstants DEF Booting
<1>4. /\ Booting' /\ BurstEnd' = BurstEnd /\ BurstStarts' = BurstStarts
      /\ Slot' = Slot /\ FirstRequest' = FirstRequest
  BY <1>3 DEF Booting, Ready, InitEnd, BurstEnd, BurstStarts, Slot, FirstRequest
<1>5. GrantInv' /\ WordInv' /\ CommandInv' /\ DriveInv'
  BY <1>4 DEF GrantInv, WordInv, CommandInv, DriveInv, Legal, AllClosed
<1>6. OutputInv'
  BY <1>2, <1>3, <1>4 DEF OutputInv
<1>7. PinInv'
  <2>1. command_delay = 0
    <3>1. ~(Cont > FirstRequest)
      BY <1>2 DEF FirstRequest
    <3> QED
      BY <1>3, <3>1 DEF Core, ControlInv, BootInv
  <2> QED
    BY <1>4, <2>1 DEF PinInv
<1>8. RowInv'
  <2>1. /\ age["PRE"] \in Nat /\ age["REF"] \in Nat
    BY RowStep DEF Core, TInv, TypeOK, DeviceTypeOK
  <2>2. Cont <= INIT_PER + 24 /\ Cont <= INIT_PER + 44 /\ Cont <= 20 /\ ~(Cont >= INIT_PER + 25)
    BY <1>2
  <2> QED
    BY <1>2, <1>4, <2>1, <2>2 DEF RowInv
<1>9. FlowInv'
  <2>1. ~(Cont >= INIT_PER + 25) /\ ~(Cont >= INIT_PER + 26) /\ ~(Cont >= INIT_PER + 27)
    BY <1>2
  <2> QED
    BY <1>4, <2>1 DEF FlowInv
<1> QED
  BY <1>5, <1>6, <1>7, <1>8, <1>9

\* A stutter changes nothing.
LEMMA StillData ==
  ASSUME DataInv, UNCHANGED vars
  PROVE  DataInv'
<1> USE DEF vars, controlVars, ifcVars, cmdVars, issueVars, seqVars, addrVars, arbVars, outVars,
            deviceVars, delayVars, fifoVars
<1>1. /\ (Booting' <=> Booting) /\ BurstEnd' = BurstEnd
      /\ Slot' = Slot /\ BurstStarts' = BurstStarts
      /\ (Taken' <=> Taken) /\ Since' = Since
      /\ Flow(ST - 1)' = Flow(ST - 1) /\ Flow(ST - 2)' = Flow(ST - 2)
      /\ Flow(ST - 3)' = Flow(ST - 3)
  BY DEF Booting, Ready, InitEnd, BurstEnd, Slot, BurstStarts, Taken, Since, Issuing, Flow
<1>2. GrantInv' /\ WordInv' /\ OutputInv'
  BY <1>1 DEF DataInv, GrantInv, WordInv, OutputInv
<1>3. PinInv' /\ RowInv' /\ FlowInv'
  BY <1>1 DEF DataInv, PinInv, RowInv, FlowInv
<1>4. CommandInv' /\ DriveInv'
  BY DEF DataInv, CommandInv, DriveInv, Legal, AllClosed
<1> QED
  BY <1>2, <1>3, <1>4 DEF DataInv

\* The words, the pins and the chips stay in step with the sequencer, for the
\* latency the parameter file sets.
THEOREM DataInvariant ==
  ASSUME SC_CL = 3
  PROVE  Spec => [](Core /\ DataInv)
<1>1. Init => Core
  BY InitTypes, InitInv, InitControl DEF Core
<1>2. Init => DataInv
  BY <1>1, InitData, StoppedData
<1>3. Core /\ DataInv /\ [Next]_vars => DataInv'
  <2> SUFFICES ASSUME Core, DataInv, [Next]_vars PROVE DataInv'
    OBVIOUS
  <2>1. Core'
    BY CoreNext
  <2>2. (Core /\ Stopped => DataInv)'
    BY StoppedData, PTL
  <2>3. CASE Clock
    BY <2>3, DataClock
  <2>4. CASE HeldClock
    <3>1. Stopped
      BY <2>4, HoldsStopped DEF HeldClock
    <3> QED
      BY <2>1, <2>2, <2>4, <3>1, HeldData
  <2>5. CASE PressKey
    BY <2>1, <2>2, <2>5, PressData
  <2>6. CASE ReleaseKey
    BY <2>6, ReleaseData
  <2>7. CASE UNCHANGED vars
    BY <2>7, StillData
  <2> QED
    BY <2>3, <2>4, <2>5, <2>6, <2>7 DEF Next
<1> QED
  BY <1>1, <1>2, <1>3, CoreNext, PTL DEF Spec

\* Every command finds the chips ready for it and only one side drives the data
\* bus, whatever the FIFOs ask for and whenever the key cuts an access short.
THEOREM PinsStayLegal ==
  ASSUME SC_CL = 3
  PROVE  Spec => []PinsLegal
<1>1. Core /\ DataInv => PinsLegal
  BY DEF DataInv, CommandInv, DriveInv, PinsLegal, CommandsLegal, NoBusContention, DrivesBus
<1> QED
  BY <1>1, DataInvariant, PTL

\* A write burst stores consecutive words of the stream, a read burst returns
\* consecutive columns, all of them, in the row the arbiter granted.
THEOREM WordsInOrder ==
  ASSUME SC_CL = 3
  PROVE  Spec => []DataInOrder
<1>1. Core /\ DataInv => DataInOrder
  <2> SUFFICES ASSUME Core, DataInv PROVE DataInOrder
    OBVIOUS
  <2> USE DEF DataInv
  <2>1. /\ ST \in Nat /\ BurstEnd \in Nat /\ AccessEnd = BurstEnd + 4
        /\ ST # 0 => (mWR <=> ~mRD) /\ BurstEnd = LENGTH + 3 /\ ~Booting
        /\ LENGTH \in Nat /\ LENGTH >= 5
    BY Shape
  <2>2. PICK c \in Nat : c = ColOf(mADDR)
    BY ColumnsFit DEF GrantInv
  <2>3. /\ (WR_MASK <=> mWR) /\ (RD_MASK <=> mRD)
        /\ mWR_DONE => mWR /\ ST = AccessEnd
        /\ mRD_DONE => mRD /\ ST = 0
    BY DEF Core, IInv, RequestInv, AccessInv
  <2>4. ASSUME RESET_N, WritesColumn(pin, DQM)
        PROVE  OE /\ WR_MASK /\ popped = BurstAt(pin).col - ColOf(mADDR) + 1
    <3>1. ~Booting /\ BurstAt(pin).kind = "WRITE"
      BY <2>4 DEF WritesColumn, OutputInv
    <3>2. /\ ST >= 4 /\ ST <= BurstEnd /\ ~mRD
          /\ BurstAt(pin).col = (ColOf(mADDR) + ST) - 4
      BY <3>1, BurstNow
    <3>3. mWR /\ ~(ST <= 3) /\ ST >= 2 /\ ST <= BurstEnd + 2
      BY <2>1, <3>2
    <3>4. OE /\ popped = ST - 3
      BY <3>1, <3>2, <3>3 DEF OutputInv, WordInv
    <3>5. ((c + ST) - 4) - c + 1 = ST - 3
      BY <2>1
    <3> QED
      BY <2>2, <2>3, <3>2, <3>3, <3>4, <3>5
  <2>5. ASSUME OUT_VALID PROVE RD_MASK /\ mDATAOUT = ColOf(mADDR) + received
    <3>1. mRD /\ ST >= 8
      BY <2>5 DEF WordInv
    <3>2. ~Booting /\ ~mRD_DONE
      BY <2>1, <2>3, <3>1
    <3>3. mDATAOUT = c + ST - 8
      BY <2>2, <3>1, <3>2 DEF FlowInv
    <3>4. received = IF ST <= 8 THEN 0 ELSE ST - 8
      BY <3>1, <3>2 DEF WordInv
    <3>5. c + ST - 8 = c + received
      BY <2>1, <3>1, <3>4
    <3> QED
      BY <2>2, <2>3, <3>1, <3>3, <3>5
  <2>6. (mWR_DONE => popped = LENGTH) /\ (mRD_DONE => received = LENGTH)
    <3>1. mWR_DONE => ~(ST <= 3) /\ ~(ST <= BurstEnd)
      BY <2>1, <2>3
    <3> QED
      BY <2>3, <3>1 DEF WordInv
  <2>7. ASSUME pin.cmd \in {"READ", "WRITE"}, RESET_N
        PROVE  /\ openRow[pin.bank] = RowOf(mADDR) /\ pin.a = ColOf(mADDR)
               /\ mADDR = IF pin.cmd = "WRITE" THEN rWR1_ADDR ELSE rRD1_ADDR
    <3>1. ~Booting
      BY <2>7 DEF PinInv
    <3>2. /\ ST = 4 /\ pin.cmd = (IF mRD THEN "READ" ELSE "WRITE")
          /\ pin.a = ColOf(mADDR) /\ pin.bank = 0
      BY <2>7, <3>1 DEF PinInv
    <3>3. ST >= 2 /\ ST <= BurstEnd + 1 /\ (mWR <=> ~mRD)
      BY <2>1, <3>2
    <3>4. openRow[0] = RowOf(mADDR)
      BY <3>1, <3>3 DEF RowInv
    <3> QED
      BY <3>2, <3>3, <3>4 DEF GrantInv
  <2> QED
    BY <2>4, <2>5, <2>6, <2>7 DEF DataInOrder, WriteInOrder, ReadInOrder, WholeBursts,
                                  AccessesGrantedRow
<1> QED
  BY <1>1, DataInvariant, PTL
=============================================================================
