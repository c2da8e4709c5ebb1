---------------------------- MODULE SdramSystem -----------------------------
(***************************************************************************)
(* The SDRAM frame store of camouse.v, clock by clock: Sdram_Control (u7)  *)
(* with its command and interface blocks, the reset relay RESET_DELAY (u2) *)
(* that holds its FIFOs cleared, the SDRAM chips, and the controller's     *)
(* side of the two FIFOs.                                                  *)
(*                                                                         *)
(* The other ends of the FIFOs run on the camera's and the VGA clock, so   *)
(* whether a burst is available or wanted may change at any clock: it is a *)
(* free choice of every clock edge.  In the instances that set KEY_USED,   *)
(* KEY[0] may be pressed at any time.                                      *)
(* The relay's counter runs on a 50 MHz clock; here it counts the 100 MHz  *)
(* clocks of the controller, with its thresholds doubled accordingly.      *)
(***************************************************************************)
EXTENDS SdramControl, SdramDevice, ResetDelay

CONSTANT KEY_USED    \* whether KEY[0] is pressed after power up

ASSUME KeyAssumption == KEY_USED \in BOOLEAN

\* The relay keeps the FIFOs cleared until the acknowledge of the mode set, the
\* last command of the power-up sequence, is over: 42 ms against the 24205
\* clocks, 0.24 ms, of the board's values.
ASSUME RelayAssumption == RST1_AT >= InitEnd + 4

\* The controller addresses no more columns of a row, 2^COLSIZE = 256 on the
\* board, than the chips have.
ASSUME PageAssumption == PAGE <= DevPage

\* The parameters of Sdram_Params.h fit each other and the chips: the two
\* latencies are equal, and the chips want no more than the settling time of a
\* command gives them.
ASSUME ChipAssumption == /\ CasLatency = SC_CL /\ SC_RCD = SC_CL
                         /\ tRCD <= SC_RCD /\ tRP <= 8 /\ tRFC <= 16

\* The frame lies in bank 0, the only one a precharge closes, and no burst
\* crosses the end of a row: 307200 words of a bank's 2^20, rows of one burst.
ASSUME FrameAssumption == /\ MAX_ADDR <= BANKWORDS
                          /\ PAGE % LENGTH = 0
                          /\ PowerUpOpen \subseteq SUBSET {0}

\* A burst outlasts the settling time of its ACTIVATE, 256 words on the board:
\* the stop that closes a shorter one would be lost.
ASSUME LengthAssumption == SC_CL + LENGTH >= 8

VARIABLES RESET_N,     \* KEY[0]: FALSE while it is pressed
          popped,      \* words the burst has taken from the write FIFO
          received     \* words the burst has put into the read FIFO

fifoVars == <<popped, received>>
vars == <<controlVars, deviceVars, delayVars, fifoVars, RESET_N>>

\* WR1_LOAD or RD1_LOAD holds the arbiter back.
Loading == ~oRST_0 \/ ~oRST_1

Undriven == -1
\* The data bus as the controller sees it: the column the chips drive.
BusColumn == IF DrivesBus THEN dout[1] ELSE Undriven

Init ==
  /\ IfcInit /\ CmdInit /\ SeqInit /\ mDATAOUT = Undriven
  /\ DeviceInit /\ DelayInit
  /\ popped = 0 /\ received = 0
  /\ RESET_N = FALSE

\* The FIFO ports on the controller's clock.  The FIFOs are show-ahead: the
\* word on the write FIFO's output, and through the data path on the bus while
\* OE is on, is the first one not popped yet, word number popped of the burst.
FifoClock(grantW, grantR) ==
  /\ popped' = IF grantW THEN 0
               ELSE IF IN_REQ /\ WR_MASK THEN popped + 1 ELSE popped
  /\ received' = IF grantR THEN 0
                 ELSE IF OUT_VALID /\ RD_MASK THEN received + 1 ELSE received

\* One rising edge of the controller's clock.
Clock ==
  /\ RESET_N
  /\ \E wrFull, rdLow \in BOOLEAN :
       /\ ControlClock(Loading, wrFull, rdLow, BusColumn)
       /\ FifoClock(GrantsWrite(Loading, wrFull),
                    GrantsRead(Loading, wrFull, rdLow))
  /\ DeviceClock(pin, DQM)
  /\ DelayClock
  /\ UNCHANGED RESET_N

\* A clock edge while KEY[0] is held down.
HeldClock ==
  /\ ~RESET_N
  /\ ControlHeld(BusColumn) /\ DeviceClock(pin, DQM)
  /\ UNCHANGED <<delayVars, fifoVars, RESET_N>>

PressKey ==
  /\ KEY_USED /\ RESET_N /\ RESET_N' = FALSE
  /\ ControlReset /\ DelayReset
  /\ popped' = 0 /\ received' = 0
  /\ UNCHANGED <<ipin, outVars, deviceVars>>

\* A press lasts at least the two clocks that flush the output registers.
ReleaseKey ==
  /\ ~RESET_N /\ pin.cmd = "NOP" /\ ipin.cmd = "NOP" /\ DQM /\ ~PM_STOP
  /\ RESET_N' = TRUE
  /\ UNCHANGED <<controlVars, deviceVars, delayVars, fifoVars>>

Next == Clock \/ HeldClock \/ PressKey \/ ReleaseKey

\* The clock never stops; nobody has to press or release a key.
Fairness == WF_vars(Clock)

Spec == Init /\ [][Next]_vars
FairSpec == Spec /\ Fairness

-----------------------------------------------------------------------------
(* Properties *)

\* Every register holds a value of its width.
TypeOK ==
  /\ IfcTypeOK /\ CmdTypeOK /\ SeqTypeOK /\ DeviceTypeOK /\ DelayTypeOK
  /\ RESET_N \in BOOLEAN
  /\ popped \in Nat /\ received \in Nat
  /\ mDATAOUT \in -1 .. DevPage - 1

\* The three files issue commands from timers that know nothing of each
\* other: host bursts, auto refresh, power-up sequence, the precharge that
\* Sdram_Control splices into the pins.  Together they never send the chips
\* a command their state forbids, even when KEY[0] cuts a burst short.
CommandsLegal == Legal(pin)

\* A write burst stores consecutive words of the camera's stream, one per
\* column and none skipped, while the controller drives the bus: the stream
\* reaches the chips one word ahead of the column count and stays there.
WriteInOrder ==
  RESET_N /\ WritesColumn(pin, DQM) =>
    /\ OE /\ WR_MASK
    /\ popped = BurstAt(pin).col - ColOf(mADDR) + 1

\* The data path is aligned with the command pins, as the comment in
\* sdr_data_path.v says: the first column gets the first word of the burst.
WriteAligned ==
  RESET_N /\ pin.cmd = "WRITE" => popped = 0

\* Each word put into the read FIFO is the burst's next column: the capture
\* window opens exactly when the first word of the burst has come through
\* the chips' latency and the output register.
ReadInOrder ==
  OUT_VALID => RD_MASK /\ mDATAOUT = ColOf(mADDR) + received

\* A finished access has moved LENGTH words, no more and no fewer.
WholeBursts == /\ mWR_DONE => popped = LENGTH
               /\ mRD_DONE => received = LENGTH

\* READ and WRITE go to the row and the column the arbiter granted, which is
\* the next burst of the side whose request runs.
AccessesGrantedRow ==
  pin.cmd \in {"READ", "WRITE"} /\ RESET_N =>
    /\ openRow[pin.bank] = RowOf(mADDR)
    /\ pin.a = ColOf(mADDR)
    /\ mADDR = IF pin.cmd = "WRITE" THEN rWR1_ADDR ELSE rRD1_ADDR

\* What the controller promises its two sides: the words of the stream, all of
\* them, in order, where the arbiter granted them.
DataInOrder == WriteInOrder /\ ReadInOrder /\ WholeBursts /\ AccessesGrantedRow

\* The controller and the chips never drive the data bus together.
NoBusContention == ~(OE /\ DrivesBus)

\* What the chips ask of their pins.
PinsLegal == CommandsLegal /\ NoBusContention

\* The acknowledge that moves the sequencer on belongs to the access it
\* waits for, not to a refresh or a power-up command.
AckIsForThisAccess ==
  ST = 1 /\ CMD_ACK => ex_write = Write /\ ex_read = Read

\* No access is requested before the chips' mode has been set.
NoAccessDuringInit == mWR \/ mRD => init_timer = InitEnd

\* A refresh request waits for at most one whole access.
RefreshWait == SC_CL + LENGTH + 10
RefreshServed == REF_REQ /\ timer > REF_PER + 200 => 2^16 - timer <= RefreshWait

\* Every granted burst finishes unless the key is pressed: no acknowledge is
\* lost and command.v never stays blocked by a burst that is over.
AccessesFinish == /\ mWR ~> (mWR_DONE \/ ~RESET_N)
                  /\ mRD ~> (mRD_DONE \/ ~RESET_N)

\* The controller implements the frame buffer: each burst that ends moves its
\* side, and only its side, to the next burst of the frame.
Store == INSTANCE FrameBuffer WITH
  Burst <- LENGTH, Frame <- MAX_ADDR,
  wpos <- rWR1_ADDR, rpos <- rRD1_ADDR,
  access <- IF mWR THEN "write" ELSE IF mRD THEN "read" ELSE "none"

ImplementsFrameBuffer == Store!FBSpec
=============================================================================
