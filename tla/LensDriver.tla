----------------------------- MODULE LensDriver -----------------------------
(***************************************************************************)
(* fpga/V_Auto/VCM_I2C.v, which sends the step of the lens to its driver   *)
(* chip once per frame, with I2C_DELAY (FOCUS_ADJ.v:92) in front of it and *)
(* the switch of the camera's clock line (camouse.v:179-180).              *)
(*                                                                         *)
(* One step of Clock is one rising edge of CLK_400K.  A frame ends with a  *)
(* rise of VS_NS, FrameTicks clocks apart at least; the step F_VCM asks    *)
(* for may change with it and is VCM_DATA from then on.  The engines keep  *)
(* I2cHandshake; a transfer lasts TransferTicks clocks at most.            *)
(***************************************************************************)
EXTENDS Integers

CONSTANTS Steps,          \* the lens positions that are told apart
          FrameTicks,     \* clocks in the shortest frame: 6720
          LongestFrame,   \* bound: clocks in the longest frame
          Time,           \* TIME, the pause after a read: 1000
          TransferTicks,  \* clocks in the longest transfer
          DelayFrames     \* frames I2C_DELAY waits: 151

\* A read, both pauses and a write fit into one frame, and what was under way
\* when the lens was held is over before it is let go again.
FrameTimeAssumption ==
    /\ {FrameTicks, LongestFrame, Time, TransferTicks} \subseteq Nat
    /\ DelayFrames \in Nat \ {0} /\ FrameTicks > (20 + 2 * TransferTicks) + Time

Engine == INSTANCE I2cHandshake WITH phase <- "off", go <- TRUE

VARIABLES released,  \* I2C_RELEASE
          frames,    \* DELAY of I2C_DELAY
          ready,     \* READY, the sequencer's RESET_N
          vs,        \* clocks since the rise of VS_NS
          risen, rTr,  \* VS_NS and what the sequencer saw of it
          step,      \* VCM_DATA
          served,    \* full frames since READY, counted to 1
          st, go, cnt, wcnt, dely, data, read,  \* the sequencer's registers
          word, rd,  \* phases of the engines
          worked,    \* clocks of the transfer under way
          lens       \* the step the lens driver chip was sent last

seqVars == <<st, go, cnt, wcnt, dely, data, read>>
engineVars == <<word, rd, worked, lens>>
frameVars == <<frames, vs, risen, step, served>>
vars == <<released, ready, rTr, seqVars, engineVars, frameVars>>

Idle == [word |-> TRUE, read |-> TRUE]

Init ==
    /\ released = FALSE /\ ready = FALSE /\ frames = 0
    /\ vs = 0 /\ risen = FALSE /\ rTr = FALSE
    /\ step \in Steps /\ served = 0 /\ lens \in Steps
    /\ st = 0 /\ go = Idle /\ cnt = 0 /\ wcnt = 0 /\ dely = 0 /\ data = step /\ read = step
    /\ word = "off" /\ rd = "off" /\ worked = 0

Edge == risen /\ ~rTr

(***************************************************************************)
(* The sequencer.                                                          *)
(***************************************************************************)
Begin ==
    /\ st = 0 /\ st' = 30
    /\ go' = Idle /\ wcnt' = 0 /\ cnt' = 0 /\ dely' = 0
    /\ UNCHANGED <<data, read>>

\* 1, 8, 33: a clock for the engine to notice.
Pass ==
    /\ st \in {1, 8, 33}
    /\ st' = IF st = 1 THEN 6 ELSE st + 1
    /\ UNCHANGED <<go, cnt, wcnt, dely, data, read>>

\* 6 and 7: the driver is asked for its registers, GO low for three clocks.
StartRead ==
    /\ st = 6
    /\ IF Engine!EndOk(rd)
       THEN go' = [go EXCEPT !.read = FALSE] /\ st' = 7 /\ dely' = 0
       ELSE UNCHANGED <<go, st, dely>>
    /\ UNCHANGED <<cnt, wcnt, data, read>>

HoldReadGo ==
    /\ st = 7
    /\ dely' = dely + 1
    /\ IF dely = 2 THEN go' = [go EXCEPT !.read = TRUE] /\ st' = 8 ELSE UNCHANGED <<go, st>>
    /\ UNCHANGED <<cnt, wcnt, data, read>>

\* 9: what was read is kept, and compared with nothing: TEST_MODE is 1.
ReadDone ==
    /\ st = 9
    /\ IF Engine!EndOk(rd)
       THEN read' = (IF cnt = 0 THEN lens ELSE read) /\ cnt' = cnt + 1 /\ st' = 10
       ELSE UNCHANGED <<read, cnt, st>>
    /\ UNCHANGED <<go, wcnt, dely, data>>

\* Mutant: the step read back is compared, TEST_MODE being 0.
Compare_Bug ==
    /\ st = 10
    /\ IF cnt = 1
       THEN IF step = read THEN st' = 28 /\ cnt' = cnt ELSE st' = 1 /\ cnt' = 0
       ELSE st' = 1 /\ cnt' = cnt
    /\ go' = Idle /\ dely' = 0
    /\ UNCHANGED <<wcnt, data, read>>

Compare ==
    /\ st = 10
    /\ st' = IF cnt = 1 THEN 28 ELSE 1
    /\ go' = Idle /\ dely' = 0
    /\ UNCHANGED <<cnt, wcnt, data, read>>

\* 28 and 29: six clocks and then TIME of them.
ShortPause ==
    /\ st = 28
    /\ IF dely < 5 THEN dely' = dely + 1 /\ st' = st ELSE dely' = 0 /\ st' = 29
    /\ UNCHANGED <<go, cnt, wcnt, data, read>>

LongPause ==
    /\ st = 29
    /\ IF dely < Time THEN dely' = dely + 1 /\ st' = st ELSE st' = 30 /\ dely' = dely
    /\ UNCHANGED <<go, cnt, wcnt, data, read>>

FirstWord ==
    /\ st = 30 /\ st' = 31 /\ wcnt' = 0
    /\ UNCHANGED <<go, cnt, dely, data, read>>

\* 31 and 32: the step of now is latched and sent.
TakeStep ==
    /\ st = 31
    /\ data' = IF wcnt = 0 THEN step ELSE data
    /\ IF Engine!EndOk(word)
       THEN go' = [go EXCEPT !.word = FALSE] /\ st' = 32 /\ dely' = 0
       ELSE UNCHANGED <<go, st, dely>>
    /\ UNCHANGED <<cnt, wcnt, read>>

HoldWordGo ==
    /\ st = 32
    /\ IF dely = 3
       THEN go' = [go EXCEPT !.word = TRUE] /\ st' = 33 /\ dely' = dely
       ELSE dely' = dely + 1 /\ UNCHANGED <<go, st>>
    /\ UNCHANGED <<cnt, wcnt, data, read>>

StepSent ==
    /\ st = 34
    /\ IF Engine!EndOk(word) THEN wcnt' = wcnt + 1 /\ st' = 35 ELSE UNCHANGED <<wcnt, st>>
    /\ UNCHANGED <<go, cnt, dely, data, read>>

\* 35: wait for the next frame.
AwaitFrame ==
    /\ st = 35
    /\ IF ~Edge THEN UNCHANGED <<st, cnt, wcnt, dely>>
       ELSE IF wcnt = 1 THEN st' = 1 /\ wcnt' = 0 /\ cnt' = 0 /\ dely' = 0
       ELSE st' = 31 /\ UNCHANGED <<cnt, wcnt, dely>>
    /\ UNCHANGED <<go, data, read>>

Sequencer ==
    \/ Begin \/ Pass \/ StartRead \/ HoldReadGo \/ ReadDone \/ Compare
    \/ ShortPause \/ LongPause \/ FirstWord \/ TakeStep \/ HoldWordGo \/ StepSent \/ AwaitFrame

(***************************************************************************)
(* The engines: a write that was under way when READY fell does not reach  *)
(* the lens, because clock and data line have been taken away.             *)
(***************************************************************************)
Working == word = "busy" \/ rd = "busy"

Engines ==
    /\ word' \in Engine!After(word, go.word)
    /\ rd' \in Engine!After(rd, go.read)
    /\ worked' = IF Working /\ Working' THEN worked + 1 ELSE 0
    /\ worked' <= TransferTicks
    /\ lens' = IF word = "busy" /\ word' = "ready" /\ ready THEN data ELSE lens

Clock ==
    /\ vs < LongestFrame
    /\ vs' = vs + 1
    /\ risen' = (risen /\ vs < FrameTicks \div 2)
    /\ rTr' = risen
    /\ IF ready THEN Sequencer ELSE UNCHANGED seqVars
    /\ Engines
    /\ UNCHANGED <<released, ready, frames, step, served>>

\* VS_NS rises: F_VCM moves on and I2C_DELAY counts.
FrameEnds ==
    /\ vs >= FrameTicks
    /\ vs' = 0 /\ risen' = TRUE
    /\ step' \in Steps /\ served' = IF ready THEN 1 ELSE 0
    /\ frames' = IF released /\ frames < DelayFrames THEN frames + 1 ELSE frames
    /\ ready' = (ready \/ (released /\ frames = DelayFrames))
    /\ UNCHANGED <<released, rTr, seqVars, engineVars>>

\* The configuration releases the lens; KEY[0] takes the release away, which
\* clears I2C_DELAY and with it the sequencer at once.
Release ==
    /\ ~released /\ released' = TRUE
    /\ UNCHANGED <<ready, rTr, seqVars, engineVars, frameVars>>

Withdraw ==
    /\ released /\ released' = FALSE
    /\ frames' = 0 /\ ready' = FALSE
    /\ st' = 0 /\ go' = Idle /\ wcnt' = 0 /\ cnt' = 0 /\ dely' = 0
    /\ rTr' = risen
    /\ served' = 0
    /\ UNCHANGED <<data, read, engineVars, vs, risen, step>>

Next == Clock \/ FrameEnds \/ Release \/ Withdraw

Spec == Init /\ [][Next]_vars
(***************************************************************************)
(* Properties.                                                             *)
(***************************************************************************)
\* Types of all registers.
TypeOK ==
    /\ released \in BOOLEAN /\ ready \in BOOLEAN /\ risen \in BOOLEAN /\ rTr \in BOOLEAN
    /\ frames \in 0 .. DelayFrames /\ vs \in 0 .. LongestFrame /\ served \in 0 .. 1
    /\ {step, data, read, lens} \subseteq Steps
    /\ st \in 0 .. 35 /\ cnt \in 0 .. 1 /\ wcnt \in 0 .. 1 /\ dely \in 0 .. Time + 5
    /\ {word, rd} \subseteq Engine!Phases /\ worked \in 0 .. TransferTicks

\* The sequencer is back in its waiting state before the next frame ends, so
\* no rise of VS_NS is missed and the lens has been sent every frame's step
\* by the end of that frame (lines 113-187): reading the driver back, both
\* pauses and the write fit into one frame.
LensKeepsUp == (vs >= FrameTicks /\ served = 1) => (st = 35 /\ lens = step)

\* One engine at a time, also when READY comes back after a transfer that
\* nobody waited for (I2C_RESET_DELAY resets the engines at power-up only).
OneEngine == ready => ~(word = "busy" /\ rd = "busy")

\* Each frame's step reaches the lens within that frame, and a step that
\* F_VCM has already left never does (lines 113-187).
LensOnTime == [][LensKeepsUp' /\ (lens' # lens => lens' = step)]_vars
=============================================================================
