# Camera mouse: a TLA+ model of the FPGA design and its program

The repository is a "camera mouse" for a DE2-115 board with a D8M camera. The
camera's picture goes through a frame store in SDRAM to a VGA monitor; two small
neural networks look at every pixel for green and for red; green is a mouse
click, which a program on a Nios II processor polls and reports. The lens is
focused from the picture. Camera, bridge and lens are configured over I2C. The
program runs on the board support package in `fpga/software/display_bsp`, whose
only device is a JTAG UART.

Two kinds of code, two kinds of step. In the clocked Verilog and VHDL a step is
an edge of the clock and has every register of the clock domain on its left-hand
side. In the C code a step is what no interrupt can divide: a whole function
where nothing else runs, or the stretch between two places where an interrupt
or the hardware can come in between.

Paths are relative to `src/`. `PROJECT.json` names the lines of every definition
("map"), lists what is hard in the code line by line with the properties that
cover it ("hazards"), and the disagreements found ("findings").

## 1. Inventory

    camera -> bridge -> D8M_LUT -> write FIFO -+
                                               v
      KEY[0] -> RESET_DELAY -> loads -> Sdram_Control <-> SDRAM chips
                     |                         |
                     |                      read FIFO (show-ahead)
                     v                         v
               VGA_Controller --requests--> RAW2RGB_J --RGB--> green_nn, red_nn
                     | syncs                   |                     |
                     v                         v                     v
      KEY[3] ->  FOCUS_ADJ  <--- R,G,B_AUTO ---+              nn_processing
                     | lens step                                     v
                     v                                        sram_controller
                VCM_I2C -> lens                                      v
      MIPI_BRIDGE_CAMERA_Config -> bridge, camera          display_sram_0 (Avalon)
                                                                     v
      JTAG host <-> JTAG UART <-> driver <-> file descriptors <-> hello_world.c

| Component | State | What is hard | What makes it correct | Modules |
|---|---|---|---|---|
| SDRAM controller (`fpga/V_Sdram_Control`) | power-up and refresh timers, command pulses, precharge and RCD shift registers, pins, access sequencer, two burst addresses, arbiter | three files with timers of their own share one set of pins; a refresh falls due in a burst; a key press cuts a burst short and the chips are not reset | legal commands only; words in order, whole bursts, to the granted row; refresh is never starved; every burst ends; a two-port frame buffer | `ControlInterface`, `SdramCommand`, `SdramControl`, `SdramSystem`, `FrameBuffer` |
| Reset relay (`fpga/V/RESET_DELAY.v`) | a counter, four outputs | the only thing that keeps the arbiter quiet during power up | no access before the mode is set | `ResetDelay` |
| Video timing (`fpga/VGA_Controller`) | two counters | the frame store has no frame signal: one request too many and the picture rolls for ever | a frame requests exactly the stored frame | `VgaController`, `VideoPath` |
| Raw to RGB (`fpga/V_D8M/RAW2RGB_J.v` and below) | position counters, three line RAMs, colour registers | position inferred from requests seen late; no reset while the display restarts | the right colours of the right block at the right place | `RawToRgb`, `VideoPath` |
| Autofocus (`fpga/V_Auto`) | two sweeps, pixel statistics, last and best sharpness, window counters, polarity detector, start delay | measurement frames behind the lens, and mixed by the frame store; lens driver late; keys at any time; wrap-around | a frame is measured by its own pixels; the peak is of this sweep; the lens stops a bounded way past it and stays; the sync is known before the sweep | `AutoFocus`, `FocusStart`, `Sharpness` |
| Colour detectors (`fpga/green_nn.vhd`, `red_nn.vhd`, `neuron.vhd`) | four pipeline stages each | every stage holds another pixel | a verdict is about one pixel; never both colours | `NeuralNet` |
| Click path (`nn_processing.vhd`, `sram_controller.vhd`, `display_sram_0.v`, `hello_world.c`) | a loop of gates, pin registers, Avalon registers, a polling program | feedback that never rests, a bus never released, read latency | a verdict that stands is what the program reads | `ClickPath` |
| I2C masters (`fpga/V/I2C_*.v`) | state, bit and byte counters per engine | go/end handshake with a clock of delay on both sides; no reset on KEY[0] | the handshake, whatever the slave does | `I2cEngines`, `I2cHandshake`, `I2cSlave` |
| Camera and bridge configuration (`fpga/V_D8M/MIPI_*_CONFIG.v`) | two sequencers over register tables | reset in the middle of a transfer; slaves that wake up late; an identity read too early; undriven delay tag | the whole table, in order, before release; one engine on the wires; it ends | `CameraConfig`, `BridgeConfig` |
| Lens driver (`fpga/V_Auto/VCM_I2C.v`, `I2C_DELAY.v`) | a sequencer | one write and one read per frame, pauses in between | each frame's step reaches the lens within that frame | `LensDriver` |
| JTAG UART (`display_bsp/drivers/*jtag_uart*`, device) | two rings, interrupt enables, device FIFOs | interrupt routine and callers share rings without locks; the device interrupts on edges of fullness | every byte once, in order; nobody sleeps with a byte waiting; calls return | `JtagUart`, `JtagUartDevice`, `BytePipe` |
| Alarms (`alt_alarm_start.c`, `alt_tick.c`, `alt_llist.h`) | a linked list, tick count | callbacks change the list that is walked | the list stays well formed; callbacks on time, of registered alarms only | `Alarms` |
| Time of day, sleep (`alt_settod.c`, `alt_gettod.c`, `alt_busy_sleep.c`) | offset and zone; loop counts | borrowing between fields, register widths | what is set is read; no sleep is short | `SystemTime`, `BusySleep` |
| File descriptors (`alt_open.c` ... `alt_fd_lock.c`) | a table of 32 with flags | partial failure of open, redirection at boot, locks | no descriptor lost or handed on; locks hold | `FileTable` |
| Interrupts and heap (`alt_irq*.c/.h`, `alt_iic*.c`, `alt_sbrk.c`) | enable bits, handler table, heap end | interrupts between any two steps of registration and of sbrk | no dispatch to nobody; nested sections; blocks apart | `Interrupts` |

Not modelled: section 8.

Interactions. The controller and the display share no clock and meet only in
the vendor's FIFOs and in the relay (`fpga/camouse.v:249`, `:260`). The display
calls nobody, but its request, syncs and pixels are the inputs of everything
behind it. The bridge's release starts the camera's configuration, both releases
hand the camera's clock line to the lens driver and start the autofocus after two
seconds. KEY[0] resets the relay, the controller, the configuration and, through
the relay, the display, but neither the chips nor RAW2RGB_J nor the I2C engines
nor MODIFY_SYNC; KEY[3] resets the focus sweep. The network's verdict reaches the
processor over a data bus. On the processor, the driver's interrupt routine and
alarm run between the instructions of the program's calls.

## 2. How it was built, and what a continuation would do

In this order: the SDRAM controller with the chips, the relay and the abstract
frame buffer; video timing and raw-to-RGB in one clock domain; the autofocus; the
detectors; the I2C engines and their abstract handshake, on which bridge and
lens driver are built (camera: on the engines themselves, bit by bit); the
JTAG UART driver against its device; the other services of the support package;
the click path; what comes before a sweep.

A continuation would look at what no theorem states: section 7 names it at its end. Of the
code that runs, nothing is left with state of its own but what section 8 names.

## 3. Modules and the code

**SDRAM.** `ControlInterface`, `SdramCommand` and `SdramControl` are the three
Verilog files, one EXTENDS the other as one file instantiates the other. Each has
one operator per always block; `ControlClock` is all of them at one edge.
Registers keep their names; the one-hot pulses `do_*` and the request masks stay
Booleans, the command pins become one command name, shift registers become
sequences of Booleans or counters. `SdramDevice` is external: banks, open rows,
time since the last command, bursts, latency; its `Legal` is what a data sheet
requires. `SdramSystem` composes them with the relay and the FIFO ports: `Clock`
(the FIFO levels are inputs, any values), `HeldClock` (an edge under reset),
`PressKey`, `ReleaseKey`. `popped` and `received` are history: words taken from the
write FIFO and put into the read FIFO by the burst in progress. `FrameBuffer` is
the abstract specification: two positions; the end of an access moves its side
to the next burst of the frame; `Clear` resets both.

**Video.** `VgaController` is `VGA_Controller.v` with `front`, the pixel of the
stored frame that the read FIFO shows. `RawToRgb` is `RAW2RGB_J.v` and the four
modules below it. A pixel is the place it was stored from, so the model shows
where each colour comes from; green is a set of two places, whose average the
code takes. `VideoPath` composes the two on VGA_CLK.

**Autofocus.** `AutoFocus` has one action for the vertical sync (`FrameEnds`),
one for the pixel clock after it (`Measure`), and between any two of them the key
(`FocusOff`, `FocusOn`), the lens driver's start (`DriverStarts`) and its reset
(`Released`). The sharpness a frame adds up to depends on the scene and on where the
lens was, and that is not where `F_VCM` sends it: the step reaches the lens some time
within a frame (`LensOnTime`), and the picture comes through a frame store that
camera and display walk without waiting for one another (`camouse.v:238-261`). `seen`
keeps where the lens was at the end of the last LAG + 1 frames; a frame shown may mix
rows taken anywhere on that way, and `Sums` are the numbers that it may add up to. The
first sweep begins 2.0 s after the release, the lens driver's work 151 frames, 2.54 s,
after it: until `driven` the lens stays. `led` remembers whether it was at work
already when AUTO_FOC fell. `Sharpness` shows where that number comes
from, pixel by pixel: it extends `VgaController` with the statistics of
`VCM_CTRL_P.v` and the counters of `LCD_COUNTER.v`. `FocusStart` is what comes before:
`MODIFY_SYNC` measuring the sync of a display that KEY[0] stops and restarts, and
`AUTO_FOCUS_ON` counting from the release.

**Detectors and click path.** `NeuralNet` has the four registers of each network;
`past` remembers the last four pixels. `ClickPath` goes on from there: `Verdict`
changes the detector's output, `Loop` is one turn of `nn_processing`'s feedback,
`ClockWith(...)` an edge of sram_controller and the Avalon slave with the branch
of the controller that is taken, `Poll` the program, `Restart` KEY[0].

**Configuration.** `I2cEngines` has one operator per byte engine: the record of
registers after a clock of PT_CK. `I2cSlave` is a slave with registers, driven by
the edges of the wires. `CameraConfig` is the camera's sequencer with the three
engines and the slave, bit by bit, under `Reset` at any clock. `I2cHandshake` is
what an engine promises; each engine refines it (`EnginesKeepHandshake`), and
`BridgeConfig` and `LensDriver` are composed with the handshake in place of the
engines.

**JTAG UART.** `JtagUartDevice` is the device: two FIFOs, enables, the interrupt
conditions, `Send`, `Take` and `Pause` of the host. `JtagUart` is the driver: a
thread in one call of write, read, close or ioctl, step by step between accesses
to what the interrupt routine shares (`pc`), the interrupt routine step by step
between accesses to the device (`isr`), and the once-a-second alarm. Bytes are
numbers in the order they were accepted, so an omission, duplicate or swap is
visible. `BytePipe` is the abstract specification: a bounded pipe.

**Services of the support package.** `Alarms`: list operations link by link in
`Insert`, `Remove`; the tick walks it with a callback between any two visits.
`SystemTime`: the clock and the ticks. `BusySleep`: the loops of
`alt_busy_sleep` with their counts at register width. `FileTable`: one action per
call of the POSIX layer, with each failing branch. `Interrupts`: `alt_ic_isr_register`,
disable and enable, `alt_irq_handler`'s scan and `sbrk`, each in steps that an
interrupt can come between.

**Side by side.** `MCHal`, `MCConfiguration`, `MCFocus` and `MCNeuralNet` hold
components that share no state (or only an input, which each has as any value at
any time) in one run: a variable `part` chosen at the start names the one that
moves. The state space is the sum, not the product, and every property is checked
in the part it speaks of.

## 4. Runs

| Run | Question | Size |
|---|---|---|
| `sdram` | pins, data, refresh, liveness and the refinement of `FrameBuffer`, with every timing of requests, refreshes and key presses | 3 bursts of 8 words |
| `sdram_showahead` (violation) | is the write data aligned with the command pins? | as above |
| `video` | do display, line buffers and frame store agree on every pixel? | 6 x 12 pixels, two key presses |
| `focus` | where does the lens end, do the sweeps end and hold, does a sweep begin only when the sync is known? | 32 steps, 16-step sweep, pictures up to 2 frames behind; frames of 15 clocks, two key presses |
| `focus_lag` (violation) | does the fine adjustment cover the sharpest step? | 32 steps, up to 2 frames behind |
| `nn` | is a verdict about one pixel, never both colours, and what the program reads? | 12 pixels; one restart |
| `uart_write` | bytes written reach a host that takes them when it likes or never; every call returns | ring 3, FIFO 2, 6 bytes, with the timer |
| `uart_read` | bytes sent reach a program that reads, ring and FIFO full included | ring 3, FIFO 2, 6 bytes, no timer |
| `configuration` | tables whole and in order, one engine at a time, lens on time, configured in the end, engines implement the handshake | 4 entries of 2-bit bytes, one reset; 5 bridge entries; 2 lens steps |
| `hal` | alarms, time, sleep, descriptors, interrupts and heap | 2 alarms, 14 ticks, 5 descriptors, 2 interrupts |
| `alarms_stopped` (violation) | does alt_alarm_stop keep a callback from being made? | 2 alarms |
| `lock_last` (violation) | is the lock granted to a device's only user? | 5 descriptors |

What the passing runs show, beyond types:

- `PinsLegal`: the timers of three files never send the chips a command that
  their banks or their timing forbid, key presses in a burst included; and the
  two sides of the data bus never drive it together. `DataInOrder`: a burst moves
  exactly its words, in order and without a gap, between its FIFO and the row
  granted (that written data is one column early is a finding; the constant
  offset is allowed and nothing else). `AckIsForThisAccess`: `CM_ACK` and
  `REF_ACK` do not clear each other, and still the sequencer never moves on
  another command's acknowledge. `NoAccessDuringInit`, `RefreshServed`,
  `AccessesFinish`, `ImplementsFrameBuffer`: as they say.
- `FrameAligned`, `ColoursRight`, `FramesRepeat`: from the first frame after any
  key press, the pixel shown is the one the counters are at; no line of the last
  frame and no word that blanking wrote over is ever used; red and blue never
  change places.
- `PeakOfThisSweep`, `FocusNearPeak`, `FocusSettles`: the peak that steers a sweep
  is of that sweep; in a sweep that the lens follows from its first step, the lens
  stops two coarse steps after the sharpest one, give or take what a frame may mix, and
  further by what both sweeps go on in LAG frames (`FocusOvershoots`); nothing is claimed
  of where a sweep ends whose first steps were lost; the sweeps end and hold whatever the
  frames show and wherever the lens is.
  `PolarityKnown`: the sync a sweep counts frames by is never its inverse, although
  its high time overflows the counter that measures it, and the lengths measured
  around a key press mean nothing. `FrameMeasured`: what AutoFocus takes for granted,
  that a frame's number is the count of luminance differences in that frame alone
  (compared with a definition over the picture), and that the centre window is in the
  centre, in the third frame after any restart and from then on.
- `ResultOfOnePixel`, `NeverBoth`: the pipelines stay in step. `ClickFollowsVerdict`:
  a verdict that stands is what the program polls in the end, through a bus that
  only the controller drives, and no register it has reached goes back to an older one
  (`NeverTurnsBack`).
- `TransmitterAwake`, `ReceiverAwake`: no byte waits with its interrupt off and
  nobody on the way to turn it on, in any interleaving. `TxPipe`, `RxPipe`: each
  direction is a bounded pipe, the words the interrupt routine holds included.
  `UserBytesDue`, `RoomForWhatIsGiven`, `CallsReturn`, `BytesArrive`.
- `OneEngineEach`: a reset leaves a running engine alone, and no second one ever
  meets it on the wires. `TablesSent`: release means that the slave has taken every
  word in order, pauses kept. `LensOnTime`, `BothConfigured`,
  `EnginesKeepHandshake` (no engine starts or ends but as the handshake says, and each
  reacts to GO on every clock).
- `LinksInverse`, `CallbacksRight`: no sequence of starts and stops,
  from threads and from callbacks on their own alarm, breaks the list, leaves an alarm
  overdue or keeps a tick from ending. `TimeKept`: set then get, ticks without loss,
  sleeps as long as asked. `FilesKept`, `LocksHold`: descriptors and their flags
  through every failing call. `InterruptsSafe`: the dispatcher finds a handler,
  sections nest, heap blocks never overlap.

Each property of a passing run has a mutant, an operator `X_...` just before the
operator `X` it changes the way a plausible slip would; the property is
violated when the mutant takes X's place. No mutant is used by a specification.

## 5. Bounds, and why they are enough

- SDRAM: LENGTH = 8 instead of 256. A burst's phases (command, RCD, latency,
  words, precharge) are fixed but for the words, and 8 is longer than every
  latency that could overlap it; 4 is not: a burst that ends in the last clock of
  `command_delay` hangs (see the hazard at `command.v:255`). REF_PER = 45 makes a
  refresh fall due in every phase of an access. INIT_PER = 3 instead of 24000
  shortens only the NOP phase; the 200 clocks after it are the code's own.
  The relay's thresholds keep their order. Three bursts per frame contain the wrap
  and steps without wrap. A key press lasts at least two controller clocks, 20 ns.
- Video: 6 lines of 12 pixels keep every inequality between the board's
  parameters and use all three buffers twice. MAX_PRESSES = 2 allows a press
  while the effects of an earlier one could be left.
- Autofocus: a lens of 32 steps and a sweep of the same shape as the code's
  1008; SCAL = 3, its real value; UP_SIZE, STEP_SIZE are the powers of two at which
  the code's registers wrap. LAG = 2: a row shown was stored at most a frame before, and
  the lens moves within a frame, so one frame may show where the lens was at the end of
  this frame, the last and the one before, and all between; a camera that exposes for a
  whole frame before it reads a row out adds one more. A lens of 1024 steps leaves room
  for LAG up to 4 (`LensAssumption`), and the theorem covers each. A frame then mixes
  places up to nine steps apart, and half of that, Blur = 4, is how far the peak
  remembered may be off. Still scenes have one peak, more than Blur from the beginning and
  a coarse step and Blur from the end of the range (nearer to the ends, or with a covered
  lens, the fine adjustment may wrap below step 0: section 8), and SUM_MAX = 5 is the least
  at which something is to be seen as far as Blur from it. KEY[3] is held for at least LAG
  + 2 frames (OFF_FRAMES), 67 ms; with less, `PeakOfThisSweep` would compare with frames of
  the old focus. `LensBound` of `MCFocus`: where the scene moves, nothing depends on the
  lens, so it is left where it is; where it stands still, I2C_RELEASE may fall only while
  the lens is at step 0 or 9, in focus range or not. FocusStart:
  frames of 15 clocks with a sync of 2, counters of 8: the high time does not fit,
  its remainder exceeds the low time, as on the board (419 723 mod 65 536 = 26 507
  against 1601). FOC_AT = 40 is the relay's delay and two frames; 20 is too few.
  Sharpness: a screen of four requested columns (five shown, as the board shows 641)
  and lines that keep the order of syncs, blanking and window; five pictures with steps
  on either side of the threshold over one column and over two, at both borders; one
  restart anywhere in a frame.
- Networks: the corners of the colour cube and two pixels on each side of each
  threshold. The theorem has no such bound. MaxResets = 1.
- UART: a ring of 3 and FIFOs of 2 are full, empty, wrapped and almost full
  (`Almost` = 1) in every combination; 6 byte numbers return while their
  predecessors could still be in ring, FIFO and routine. Counts 0, 1 and 4, the last
  more than a ring holds; `IntMax` = 5 truncates a timeout. The once-a-second
  timer exists in `uart_write` (the driver's file has it) and not in `uart_read` (this
  build has no system clock).
- Configuration: bytes of 2 bits (the engines' loops over bits and bytes are the
  same); a table of four entries with a pause at an inner place, tagged with
  TIME_DELAY, which nothing drives. CntSize = 3 for the counter of identity
  reads, 256 in the code. MinHold = 60 clocks, longer than the longest transfer:
  the relay holds the reset for 0xfff00 clocks of 50 MHz, 8386 of CLK_400K, against
  about 150. With MinHold = 5 `OneEngineEach` fails, so it is a fact about the
  relay that the design relies on. Bridge: TransferTicks 9, MinHold 12; lens: a frame of
  44 clocks around pauses of 4 and transfers of 4 (6720, 1000 and about 150 in the code).
- Support package: two alarms (one visited, one next), four ticks, callbacks that
  return 0 to 2 and stop only their own alarm (stopping another is a finding). US = 6
  microseconds to a second and rates that divide it; sleeps with a counter
  of 31 and words of 64, requests at each of their edges; 5 descriptors, so that
  three channels leave two; two interrupts; a heap of 10 bytes, filled to the last.

## 6. Fairness

- WF of the clock's action in `SdramSystem`, `VideoPath`, `CameraConfig`,
  `BridgeConfig`; WF of `FrameEnds` and `Measure` in `AutoFocus`: oscillators and
  PLLs do not stop, and the sync follows from the video clock (`FramesRepeat`).
- `CameraConfig`, `BridgeConfig`: WF of `Wakes` (a slave starts up in the end) and
  `Run` (the relay lets go of the reset); SF of the bridge's answer to a pointer
  write, which the engine repeats until it is acknowledged.
- `JtagUart`: WF of the thread's and the routine's next step (the processor runs), SF
  of entering the routine and of the timer, which interrupts masked for a
  moment delay but do not cancel. `uart_write` assumes nothing of the host.
  `uart_read` asks that the host pauses again and again (the device interrupts for a
  byte below its threshold only when the host is idle) and that the program keeps reading.
- `Alarms`: WF of the tick's steps and of a callback's return.
- `ClickPath`: WF of the loop, the program and the end of a write; SF of the
  branches of the controller that read and write. The loop of gates never rests and
  is unrelated to the clock, so the clock finds it both ways again and again.

Nothing is assumed of keys, requests, FIFO levels, scenes or callers. The liveness
properties allow for the key being pressed.

## 7. Proofs

- `SdramProofs`, first part. `Inductive`: `IInv` - both addresses are burst starts of
  the frame; at most one of `mWR` and `mRD` is up; a done pulse comes only
  while its own request and mask are up and the sequencer has stopped - for every
  LENGTH, frame size, latency and timing. `Refinement`: hence
  `Spec => ImplementsFrameBuffer`. The invariant is needed because `WriteDone`
  alone does not tell that the address was still the granted burst's start nor
  that no second access has begun. `InitUndisturbed`: `NoAccessDuringInit` for
  all thresholds with `RelayAssumption`, by relating the two counters, which a key
  press clears together. `TypesKept`: `TypeOK`, for all constants: no timer counts
  past its end and no READ leaves a row of the chips. It needs `IInv`, because a grant
  changes the length while the sequencer may still count up to it, and is
  strengthened by `ST <= AccessEnd` and by the columns of the READs on both sets of pins.
- `SdramProofs`, second part. What the controller does within an access, for all periods,
  lengths, frames and thresholds and any press of the key, in two layers.
  `ControlInvariant`: `ControlInv` relates the registers of the three files to each
  other. `BootInv` says where the power-up sequence is at each count of the relay;
  `IdleInv`, `AskedInv`, `TakenInv` and `RunInv` say, for each stretch of the access
  sequencer's count, which registers of `command.v` are up; `ChainInv` what
  `command.v` does one after the other, and how a refresh slips in; `RefreshInv` bounds the
  refresh timer's wait by what is still to be done. Hence `AckMatches`
  (`AckIsForThisAccess`) and `RefreshInTime` (`RefreshServed`, with
  `RefreshWait` = SC_CL + LENGTH + 10). None of the parts is inductive alone: the
  acknowledge carries no name, and only the position of every other timer tells whose it
  is. `DataInvariant`: `DataInv` adds the words counted and the strobes (`GrantInv`, `WordInv`,
  `OutputInv`), the pins with the timers that filled them (`PinInv`), the chips' rows and
  ages (`RowInv`), the columns under way from the chips to the read FIFO (`FlowInv`), and what holds
  even while the key cuts an access short (`CommandInv`, `DriveInv`). Hence
  `WordsInOrder` (`DataInOrder`) and `PinsStayLegal` (`PinsLegal`). These three ask that
  SC_CL is 3, as all three parameter sets of `Sdram_Params.h` (:23, :34, :45) have it: with 2
  the write strobe would open while the sequencer still waits at 1, and a burst would
  take words that it never writes.
- `VgaControllerProofs`. `PictureStands`: `FrameAligned` for screens of all
  dimensions with `VideoAssumption`. The strengthening `Place` computes `front`
  from the two counters in every clock, in blanking too, where `FrameAligned` says
  nothing and alone would not be inductive. `ColoursStayRight`: `ColoursRight` for every
  screen and every window of columns with `PictureAssumption`. `PathInv` follows
  `RAW2RGB_J` through every column of every line: its counters are one clock behind
  `VGA_Controller` (`ColumnInv`, `RowInv`, `ReadInv`), the buffers turn in the first clock of
  the horizontal sync and hold the two lines before the one being written, whichever
  buffer the vertical sync began with (`PulseInv`, `LineInv`), and the colour mixer
  remembers the pair of pixels to the left (`PairInv`). Nothing of this is known while the
  relay holds the display, but the next vertical sync restores it before the first row.
- `NeuralNetProofs`. `DetectorsExclusive`: `NeverBoth` for every stream of pixels.
  Two layers without an activation between them are one affine function (lemma
  `Affine`), the two functions cannot both reach their thresholds in the colour
  cube (`Scores`), and the registers of both networks hold the same pixel stage by
  stage, including the zeros of power up. `OnePixelPerResult`: `ResultOfOnePixel`, by
  an invariant that gives each register as a function of the pixel that entered as many clocks ago
  (`past[1]` to `past[4]`). `NothingOverflows`: `TypeOK`, that is, every sum of every
  pixel fits its 21 bits; the bounds come from the weights, not from the corners TLC tries.
  `VerdictNeverTurnsBack`: the part of `ClickFollowsVerdict` that is not liveness. Each register of
  `Way` only stays or takes over the one before it (`EachFollows`).
- `JtagUartProofs`. `TransmitterStaysAwake`, `ReceiverStaysAwake` and
  `DeviceNeverOverrun` for every size of ring and FIFO, from one invariant:
  indices in range (`Shape`), what each thread knows of the ring at each of its
  steps (`TxAwake`, `RxAwake`, `ReadKnows`), and that only the owner of an index moves
  it, so that what was seen before an interrupt is still a bound after it. `TransmitIsPipe`
  and `ReceiveIsPipe`: `TxPipe` and `RxPipe`, that is, each direction implements
  `BytePipe`, for the same sizes. A second invariant, `PipeInvariant`, says that the FIFO
  followed by the filled slots of the transmit ring is what the host is due (`TxInOrder`), that the
  filled slots of the receive ring, the byte the routine holds and the FIFO are what
  `read()` is due (`RxInOrder`), that a chunk being written lies behind the filled slots and holds
  what will be published (`ChunkFits`), and that a chunk being read stays in the
  ring until it is released (`ChunkHeld`). Alone the two orders are not inductive: the chunk is copied
  in one step and published in another, with the interrupt routine between them.
  `ReadersGetWhatIsDue`: `UserBytesDue`. The lemmas say how the filled slots of a ring grow and
  shrink (`FilledGrow`, `FilledDrop`) when an index moves, over the end of the ring or not.
- `HalProofs`, about the four parts of the support package that `MCHal` puts side by side, for
  every number of alarms, descriptors, devices and interrupts, every rate and every program.
  - `ListWellFormed`: the links undo each other and an alarm out of the list points to
    itself (`LinksInverse`). The lemmas for `Insert` and `Remove` hold at any element,
    which is why a callback may change the list under the tick's feet. `AlarmsInTime`:
    after a tick no alarm is overdue, and only registered callbacks are called
    (`NothingOverdue`, `CallsOnlyRegistered`), if a callback stops no alarm but its own
    (`OnlyThemselves`; without it `CallsOnlyRegistered` is finding `alt_tick.c:102`).
    Inverse links alone would allow a second circle beside the list, with alarms that no tick
    meets. So the invariant `TickInv` asks for a rank that falls along the list (`Ordered`),
    and says which ranks the walk still has ahead (`Ahead`). `ListIsWhole`: the links lead from
    the head through all registered alarms and through no others (`ListHoldsRegistered`),
    also when a callback stops alarms that are not its own.
  - `DescriptorsKept` and `LocksStand`: `FilesKept` and `LocksHold`. The invariant adds that the
    three channels are open, what is done before `main`, and that a redirected channel has no
    lock of its own. That the descriptor handed out is free is the search for the
    lowest one, whose existence is a minimum of a non-empty set of numbers (`WFMin` of the
    library).
  - `InterruptsStaySafe`: `InterruptsSafe`. `IrqInv` says what each pending call and
    section will restore: the enable bit set for the thread outside its sections, clear for
    the routine (`Nested`), that a line enabled without a handler is about to be taken away by
    the call under way (`Handled`), and that `heap_end` stands while a block is made, with
    all blocks below it (`BelowEnd`).
  - `ClockKeepsTime`: `TimeKept`, if a tick is a whole number of microseconds
    (`WholeMicroseconds`; otherwise `ElapsedTime` loses the rest, see the known limits). `TimeInv` relates the
    stored time, the tick at which it was stored and the ticks since (`Stored`, `Fresh`); `SleepInv`
    adds up the turns counted and those to come (`Counting`).
  - `TypesStay`: `TypesOK` of the four parts. The domains of the clock's values need the
    carry from microseconds to seconds in its cases, those of the heap that `sbrk` rounds the
    break up before it compares it with the limit.
- `AutoFocusProofs`. `PeaksAreFresh`: `PeakOfThisSweep` for every lens and timing; the
  strengthening is that a sweep runs only when the frames since the key are counted
  in full, which needs the key to stay down for as many frames (`OFF_FRAMES >= AGED`).
  `LensRests`: `FocusHolds`, the half of `FocusSettles` that is not liveness.
  `LensStopsNearPeak`: `FocusNearPeak` for every LAG, every lens whose coarse sweep meets
  its last step and every still scene whose sharpness falls with the distance from one step
  (`SceneAssumption`), not only for the triangles that TLC tries. What a register holds is not
  known, as a frame may mix what the lens passed, so the invariant `NearInv` gives bounds. Coarse
  sweep (`Coarse`): SUM is between what two places show that are not too far behind the step of
  now (`Window`), so is the peak with the step remembered (`CoarsePeak`), and once a step y has been
  compared whose frame can show nothing but the surroundings of the sharpest step, the peak is at
  least as sharp as those (`PeakFound`). Both together put STEP_UP within Blur of where it should be.
  Fine sweep (`Fine`): more than LAG steps past the last such place `u`, every frame is less sharp than
  the one before however it is mixed, so none is a new peak (`FineFades`) and the end is
  not dragged along. `Off` says how the old focus fades while the key is pressed: peak,
  frames on their way, SUM.
  - `PolarityStaysKnown`: `PolarityKnown` for every frame, sync width and counter range. Its
    invariant `StartInv` reads off `PULSE`, the syncs since the restart, which of the counter, the
    low and the high time already belong to a whole frame (`Measured`), given that the
    relay lets the display go at most `Lag` pulses after the first.
  - `FramesAreMeasured`: `FrameMeasured` for every picture and display. `FrameInv` gives each register
    as a function of the place in the frame (`Row`, `Col`): the syncs and luminances of one, two and three
    clocks ago (`SyncsFollow`, `GreysFollow`), the sum as the number of edges the place has
    passed (`SumsFollow`), the counters as the lines and requests before it
    (`CountersFollow`), the window one clock late (`CentreFollows`). Each of these is false
    at first, so each says from which clock after a restart it holds (`Run`); the sum needs
    that nothing of the last frame is in the registers when a frame begins (`Blanked`).
- `CameraProofs`, about the camera's sequencer on its three engines, for every table, width of a byte
  and length of a reset. `CameraInvariant`: `CamInv`. The sequencer takes END_OK's word for an engine's
  state, and a reset clears the one without the other; so `OneAtWork` says which engine may be at work in
  each state of the sequencer, `GoLow` how far an engine is while GO is still low, and, during
  a reset, that the clocks it has lasted and those an engine still needs (`WordLeft`, `ReadLeft`, a function of
  bit, byte and state) never exceed `MinHold`. `TableCounts` ties the table's output register, a
  clock late, to WCNT. `EnginesImplementHandshake`: each engine implements
  `I2cHandshake` (`EnginesKeepHandshake`), step by step, the endless retries of the pointer engine
  included, and reacts to GO on every clock (`EachReacts`). `CameraSane`: what holds of the camera's side of the bus for any edges of the wires.
  `CameraTableSent`: `TableSent`, bit by bit. Its invariant `CamBus` has three parts. `CamLines`: which bit an
  engine shows on SDA in each of its states (`Shows`: the shift register is what is left of the byte, `Sent`).
  `CamHears`: what the slave has made of it, for a word (`HeardWord`: it has counted as many bits as the
  engine, shifted in the part of the byte already shown, and keeps the pointer bytes; or it does not listen, because the
  address is not its own), for the pointer and for the read of the identity, and that the slave is idle whenever no
  engine works. `CamTaken`: what it has taken ends with the words of the entries that WCNT has passed, and the one
  being sent from the acknowledge of its last byte on. A reset may leave the cut-short transfer's
  register write in front of them, which is why it is only the end; as no more is
  remembered than the table has words, at the release the two are the same.
- `ConfigurationProofs`, about the bridge's sequencer and the lens driver on the handshake, and the
  three together. `LensInTime`: `LensOnTime`, from `LensInv`, which bounds the place in the
  frame by the state of the sequencer and the clocks its engine has worked, so that all of a step's reads, pauses
  and writes fit between two syncs. `BridgeInvariant`: `BridgeInv`, the camera's argument at the
  level of phases, and the words gone over the wires as a beginning of the table's
  (`BridgeSent`): the entries WCNT has passed, and the one being sent from the clock in which its engine ends.
  Hence `BridgeTableSent`, the bridge's half of `TablesSent`, for every table; that its k-th word exists is a least
  number again. `TablesSentInvariant`: `TablesSent`, from both masters' halves. `OneEngineOfEach`: `OneEngineEach`.
  `TypesInvariant`: `TypesOK`.

Assumptions used: the named ASSUMEs of the modules (`PeriodsAssumption`,
`GeometryAssumption`, `BurstAssumption`, `DelayAssumption`, `RelayAssumption`, `PageAssumption`,
`ChipAssumption`, `FrameAssumption`, `LengthAssumption`,
`KeyAssumption`, `VideoAssumption`, `PixelAssumption`, `DriverAssumption`,
`DeviceAssumption`, `AlarmAssumption`, `FilesAssumption`, `TimeAssumption`,
`SleepAssumption`, `InterruptsAssumption`, `HalAssumption`, `FocusAssumption`,
`LensAssumption`, `SceneAssumption`, `PictureAssumption`, `StartAndFrameAssumption`,
`BitsAssumption`, `CameraAssumption`, `EndsWithWord`, `BusesAssumption`), which TLC evaluates in the
runs. All hold of the board's values. Four are about the SDRAM's environment: the relay's third
threshold comes after the power-up sequence's last acknowledge (42 ms against 0.24 ms);
the chips ask for no more than the settling times of `command.v` give; the frame lies in bank 0, the
one that the power-up sequence and the page's end precharge, and no burst crosses a
row; a burst outlasts the settling time of its ACTIVATE. `SceneAssumption` is about what the
camera looks at: a scene that stands still has one sharpest step, away from both ends of the range, is
not yet all blurred Blur steps from it, and every part of it is sharper the nearer the lens is to that
step (so that a frame mixed of rows taken at several places sums up to no less than it would at the
worst and no more than at the best of them). Nothing is assumed of a scene that moves. `StartAndFrameAssumption` joins those of
`FocusStart` and `Sharpness`: what the counter keeps of a frame's high time is more than of the
sync's (`PolarityAssumption`), and the picture lies behind the syncs with the centre inside it
(`ScreenAssumption`). `CameraAssumption` asks that a reset is longer than a
word on the wires (the relay's is, see section 5) and that no entry of the table is tagged with the
camera's address for reading (its tags are 8'h6c and TIME_DELAY, which nothing drives);
`EndsWithWord` that a table does not end with a pause, after which nobody looks for its end;
`BusesAssumption` the same of the bridge's table, and that a frame has room for the lens's pauses and transfers
(`FrameTimeAssumption`). `BitsAssumption` carries what the proofs use of the powers of two.
`OnlyThemselves` and `WholeMicroseconds` are
hypotheses of one theorem each, about the callbacks and the tick rate a program chooses. The one
callback in the support package (`altera_avalon_jtag_uart_init.c:89`) stops no alarm, and this
build has no tick at all (`system.h:185`).

Only model-checked: liveness, `AccessesFinish`, `BothConfigured`, `TickEnds` and the two
liveness halves of `ClickFollowsVerdict` included. What else a passing run checks is
stated by a theorem.

## 8. Findings, known limits, and what is not modelled

Findings, each shown by a run:

- `Sdram_Control.v:394`: the write FIFO is show-ahead but strobed one clock before
  the first column is written; every stored word is one address early.
- `VCM_CTRL_P.v:66`: the step remembered is two coarse steps past the one
  measured, so the fine adjustment never covers the sharpest one.
- `alt_tick.c:102`: a callback that stops the alarm after its own does not keep its
  callback from being made.
- `alt_fd_lock.c:61`: the search for other users leaves out the highest
  descriptor, so a lock can be granted beside another user.

Known limits that the models show or assume, without a run of their own: the
power-up "Precharge All" precharges bank 0 only in page mode (`command.v:417`); a line
takes 801 clocks, not 800 (`VGA_Controller.v:42`), and the request window depends on
it; a covered lens, or a peak at the first step, sends the fine sweep to the other end
(`F_VCM.v:48`); the first lens steps of the first sweep are lost, because the sweep
starts after 2.0 s and the lens driver after 151 frames, 2.54 s, so `FocusNearPeak` claims nothing of
that sweep and begins with the next press of KEY[3] (`led`); a missing
acknowledge in a write is noted and ignored; `nn_processing`'s sensitivity list
omits `enable`, so a simulation shows something else than the gates; the
SRAM chip is never selected, and what the program reads is what the controller still
drives; a blocking UART write gives up with -EIO after a quiet second, and a byte that
comes late in the interrupt routine can turn receive interrupts off although the ring has
room again, until the next read; `alt_nticks` is read
in two halves; `ElapsedTime` needs a tick rate that divides a million; a sleep of an exact
multiple of 429 496 729 us spins 2^32 turns more, and a sleep is as
long as asked in turns of its loop, which is calibrated for 45 cycles a microsecond where the
processor has 50, so that in time it is 10 % short; the mark of
exclusive use on descriptors 0 to 2 survives their close.

Partly: **top
level** (wires, constants on unused pins); **SDRAM FIFOs** (level and head only; the
clock crossing inside is the vendor's and taken to work).

Of the autofocus, the marker `LINE`, the sharpness picture `S` and the mixer that
could show them are left out: their switches are tied to 0 in `camouse.v:365`.

Not modelled: the gamma table `D8M_LUT.v` (data behind a register); PLLs and
`CLOCK_DELAY`; the generated Nios II system; leftovers that nothing instantiates
(FPS monitor, seven-segment tables, on-chip frame memory, read counter); the training
scripts (offline; their results are in `NeuralNet`); the rest of the support package:
most of its files are headers of constants and prototypes, stubs of one line, or code
that this build does not compile (boot log, profiling, DMA, flash, instruction
exceptions) because its macros are off. This is the larger part of the
repository's C lines, licence texts included, and is why the share of the C code in
the map is small although every part of it that runs and keeps state is modelled. Interrupts
nested inside interrupts (`alt_irq_interruptible`) and negative sizes for `sbrk` occur
nowhere. Metastability and analogue timing have no meaning at the level of clock edges.
