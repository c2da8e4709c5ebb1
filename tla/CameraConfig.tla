---------------------------- MODULE CameraConfig ----------------------------
(***************************************************************************)
(* fpga/V_D8M/MIPI_CAMERA_CONFIG.v: the sequencer that reads the camera's  *)
(* identity until it is right and then writes the table of registers, with *)
(* its three byte engines, the two wires and the camera.  One step of      *)
(* Clock is one rising edge of CLK_400K.                                   *)
(*                                                                         *)
(* RESET_N clears the sequencer only: the engines run on, because their    *)
(* own reset, I2C_RESET_DELAY, comes with the power (Init is after it).    *)
(* RESET_DELAY keeps RESET_N low for MinHold clocks at least.  The         *)
(* camera has power at all times (CAMERA_PWDN_n is 1) and may be slow: it  *)
(* first does not answer at all, then answers with no identity yet.        *)
(***************************************************************************)
EXTENDS I2cEngines, FiniteSets, SequencesExt

CONSTANTS Camera,       \* MIPI_I2C_ADDR: an even byte
          DelayType,    \* the tag that marks a pause in the table
          IdPointer,    \* P_ID1
          CameraId,     \* 8'h88
          Table,        \* a sequence of <<tag or address, pointer, pointer, data>>
          CntSize,      \* CNT counts modulo this: 256
          MinHold,      \* clocks of CLK_400K in the shortest RESET_N
          MaxResets,    \* bound: how often KEY[0] is pressed
          AwakeAtFirst  \* the camera at power-up: 0 silent, 1 starting, 2 ready

\* A reset outlasts a word on the wires: an address and three bytes.  The
\* table asks for writes only.
ASSUME CameraAssumption ==
    /\ Camera \in Byte /\ Camera + 1 \in Byte /\ Camera % 2 = 0 /\ DelayType # Camera
    /\ CameraId \in Byte \ {0} /\ IdPointer \in Byte \X Byte
    /\ CntSize \in Nat \ {0} /\ AwakeAtFirst \in 0 .. 2
    /\ MinHold \in Nat /\ MinHold >= 16 * (Bits + 1) + 6
    /\ Table \in Seq(Byte \X Byte \X Byte \X Byte) /\ Table # <<>>
    /\ \A w \in ToSet(Table) : w[1] # Camera + 1

\* WORD_NUM_MAX is looked for after a word only (state 35, not 42): a table
\* must not end with a pause.
ASSUME EndsWithWord == Last(Table)[1] # DelayType

Slave == INSTANCE I2cSlave WITH Address <- Camera

VARIABLES resetN,   \* RESET_N, and for how long it has been low
          hold,
          resets,
          st,       \* ST
          go,       \* W_WORD_GO, W_POINTER_GO and R_GO
          wcnt, cnt, dely, id1,
          frame,    \* {SLAVE_ADDR, POINTER, WORD_DATA}
          tab,      \* SLV8_REG16_DATA8, the table's output register
          release,  \* MIPI_CAMERA_RELAESE
          word, ptr, rd,  \* the engines
          awake,    \* how far the camera is
          cam,      \* the camera's side of the bus
          got       \* the last register writes the camera took since the reset

seqVars == <<st, go, wcnt, cnt, dely, id1, frame, release>>
vars == <<resetN, hold, resets, seqVars, tab, word, ptr, rd, awake, cam, got>>

\* The words for the camera in their order: where they are, how many there
\* are among the first n entries, and the k-th of them.
Places == {i \in 1 .. Len(Table) : Table[i][1] = Camera}
UpTo(n) == Cardinality({i \in Places : i <= n})
Words == [k \in 1 .. Cardinality(Places) |-> Table[CHOOSE i \in Places : UpTo(i) = k]]

Idle == [word |-> TRUE, ptr |-> TRUE, read |-> TRUE]

\* The two wires, the slave's pull on SDA left out.
Scl == IF st # 0 /\ word.scl + ptr.scl + rd.scl = 3 THEN 1 ELSE 0
Sda == IF resetN /\ word.sda + ptr.sda + rd.sda < 3 THEN 0 ELSE 1

Sdai == IF cam.out = 0 THEN 0 ELSE Sda

\* What a read of the pointed-at register returns.
Answer == IF awake = 2 /\ cam.ptr = IdPointer THEN CameraId ELSE 0

Init ==
    /\ resetN = FALSE /\ hold = 0 /\ resets = 0
    /\ st = 0 /\ go = Idle /\ wcnt = 0 /\ cnt = 0 /\ dely = 0 /\ id1 = 0
    /\ frame = <<0, 0, 0, 0>> /\ release = FALSE
    /\ tab = Table[1]
    /\ word = Off /\ ptr = Off /\ rd = Off
    /\ awake = AwakeAtFirst /\ cam = Slave!Silent /\ got = <<>>

(***************************************************************************)
(* The sequencer, one action per state or group of states.                 *)
(***************************************************************************)
Begin ==
    /\ st = 0 /\ st' = 1
    /\ go' = Idle /\ wcnt' = 0 /\ cnt' = 0 /\ dely' = 0
    /\ UNCHANGED <<id1, frame, release>>

\* States 1, 5, 8, 33, 42: a clock for the engine to notice.
Pass ==
    /\ st \in {1, 5, 8, 33}
    /\ st' = st + 1
    /\ UNCHANGED <<go, wcnt, cnt, dely, id1, frame, release>>

AfterPause ==
    /\ st = 42 /\ st' = 31
    /\ UNCHANGED <<go, wcnt, cnt, dely, id1, frame, release>>

\* 2: point at the identity.  The pointer is loaded for the first try only.
PointAtId ==
    /\ st = 2
    /\ frame' = IF cnt = 0 THEN <<Camera, IdPointer[1], IdPointer[2], frame[4]>> ELSE frame
    /\ IF ptr.end
       THEN go' = [go EXCEPT !.ptr = FALSE] /\ st' = 3 /\ dely' = 0
       ELSE UNCHANGED <<go, st, dely>>
    /\ UNCHANGED <<wcnt, cnt, id1, release>>

\* 3 and 7: three clocks of GO low.
HoldGo(at, engine) ==
    /\ st = at
    /\ dely' = dely + 1
    /\ IF dely = 2 THEN go' = [go EXCEPT ![engine] = TRUE] /\ st' = at + 1 ELSE UNCHANGED <<go, st>>
    /\ UNCHANGED <<wcnt, cnt, id1, frame, release>>

\* Mutant: 4 does not wait for the pointer engine.
Pointed_Bug ==
    /\ st = 4
    /\ st' = 5
    /\ UNCHANGED <<go, wcnt, cnt, dely, id1, frame, release>>

\* 4: the pointer has been sent.
Pointed ==
    /\ st = 4
    /\ st' = IF ptr.end THEN 5 ELSE 4
    /\ UNCHANGED <<go, wcnt, cnt, dely, id1, frame, release>>

\* 6: start the read.
ReadId ==
    /\ st = 6
    /\ IF rd.end
       THEN go' = [go EXCEPT !.read = FALSE] /\ st' = 7 /\ dely' = 0
       ELSE UNCHANGED <<go, st, dely>>
    /\ UNCHANGED <<wcnt, cnt, id1, frame, release>>

\* Mutant: CNT stops at its largest value.
IdRead_Bug ==
    /\ st = 9
    /\ IF rd.end
       THEN /\ id1' = IF cnt = 0 THEN rd.data ELSE id1
            /\ cnt' = IF cnt + 1 < CntSize THEN cnt + 1 ELSE cnt
            /\ st' = 10
       ELSE UNCHANGED <<id1, cnt, st>>
    /\ UNCHANGED <<go, wcnt, dely, frame, release>>

\* 9: the answer is kept for the first try only, CNT counts them all.
IdRead ==
    /\ st = 9
    /\ IF rd.end
       THEN /\ id1' = IF cnt = 0 THEN rd.data ELSE id1
            /\ cnt' = (cnt + 1) % CntSize
            /\ st' = 10
       ELSE UNCHANGED <<id1, cnt, st>>
    /\ UNCHANGED <<go, wcnt, dely, frame, release>>

\* 10: again, or on to the table.
CompareId ==
    /\ st = 10
    /\ st' = IF id1 = CameraId /\ cnt = 1 THEN 28 ELSE 1
    /\ go' = Idle /\ dely' = 0
    /\ UNCHANGED <<wcnt, cnt, id1, frame, release>>

\* 28 and 30: a pause, then the table from its first word.
BeforeTable ==
    /\ st = 28
    /\ IF dely < 5 THEN dely' = dely + 1 /\ st' = st ELSE st' = 30 /\ dely' = dely
    /\ UNCHANGED <<go, wcnt, cnt, id1, frame, release>>

FirstWord ==
    /\ st = 30 /\ st' = 31 /\ wcnt' = 0
    /\ UNCHANGED <<go, cnt, dely, id1, frame, release>>

\* 31: the word the table shows, or a pause.
TakeWord ==
    /\ st = 31 /\ tab[1] # DelayType
    /\ frame' = tab
    /\ IF word.end
       THEN go' = [go EXCEPT !.word = FALSE] /\ st' = 32 /\ dely' = 0
       ELSE UNCHANGED <<go, st, dely>>
    /\ UNCHANGED <<wcnt, cnt, id1, release>>

TakePause ==
    /\ st = 31 /\ tab[1] = DelayType
    /\ st' = 40
    /\ UNCHANGED <<go, wcnt, cnt, dely, id1, frame, release>>

\* 32: four clocks of GO low.
HoldWordGo ==
    /\ st = 32
    /\ IF dely = 3
       THEN go' = [go EXCEPT !.word = TRUE] /\ st' = 33 /\ dely' = dely
       ELSE dely' = dely + 1 /\ UNCHANGED <<go, st>>
    /\ UNCHANGED <<wcnt, cnt, id1, frame, release>>

\* Mutant: 34 does not wait for the word engine.
WordSent_Bug ==
    /\ st = 34
    /\ wcnt' = wcnt + 1 /\ st' = 35
    /\ UNCHANGED <<go, cnt, dely, id1, frame, release>>

\* 34: the word has been sent.
WordSent ==
    /\ st = 34
    /\ IF word.end THEN wcnt' = wcnt + 1 /\ st' = 35 ELSE UNCHANGED <<wcnt, st>>
    /\ UNCHANGED <<go, cnt, dely, id1, frame, release>>

\* Mutant: the end of the table is one entry late.
NextWord_Bug ==
    /\ st = 35
    /\ IF wcnt = Len(Table) + 1 THEN release' = TRUE /\ st' = st ELSE st' = 31 /\ release' = release
    /\ UNCHANGED <<go, wcnt, cnt, dely, id1, frame>>

\* 35: the next word, or the end of the table, where the sequencer stays.
NextWord ==
    /\ st = 35
    /\ IF wcnt = Len(Table) THEN release' = TRUE /\ st' = st ELSE st' = 31 /\ release' = release
    /\ UNCHANGED <<go, wcnt, cnt, dely, id1, frame>>

\* 40 and 41: the pause of the table.
PauseBegins ==
    /\ st = 40 /\ st' = 41 /\ dely' = 0
    /\ UNCHANGED <<go, wcnt, cnt, id1, frame, release>>

Pausing ==
    /\ st = 41
    /\ IF dely = tab[4]
       THEN st' = 42 /\ wcnt' = wcnt + 1 /\ dely' = dely
       ELSE dely' = dely + 1 /\ UNCHANGED <<st, wcnt>>
    /\ UNCHANGED <<go, cnt, id1, frame, release>>

Sequencer ==
    \/ Begin \/ Pass \/ AfterPause
    \/ PointAtId \/ HoldGo(3, "ptr") \/ Pointed \/ ReadId \/ HoldGo(7, "read") \/ IdRead \/ CompareId
    \/ BeforeTable \/ FirstWord \/ TakeWord \/ TakePause \/ HoldWordGo \/ WordSent \/ NextWord
    \/ PauseBegins \/ Pausing

(***************************************************************************)
(* The engines and the table register on the same clock, the camera on the *)
(* edges of the wires that follow.                                         *)
(***************************************************************************)
Engines ==
    /\ word' = WordClock(word, go.word, frame)
    /\ ptr' = PointerClock(ptr, go.ptr, SubSeq(frame, 1, 3), Sdai)
    /\ rd' = ReadClock(rd, go.read, frame[1], Sdai)

TableOutput == tab' = IF wcnt < Len(Table) THEN Table[wcnt + 1] ELSE tab

Remember(s) == IF Len(s) > Len(Words) THEN Tail(s) ELSE s

CameraSees ==
    /\ cam' \in Slave!Seen(cam, Scl, Sda, Scl', Sda', awake > 0, Answer)
    /\ got' = IF Slave!Wrote(cam, cam')
              THEN Remember(Append(got, <<Camera, cam.ptr[1], cam.ptr[2], cam.sh>>))
              ELSE got

Clock ==
    /\ IF resetN THEN Sequencer ELSE UNCHANGED seqVars
    /\ Engines
    /\ TableOutput
    /\ hold' = IF ~resetN /\ hold < MinHold THEN hold + 1 ELSE hold
    /\ UNCHANGED <<resetN, resets, awake>>
    /\ CameraSees

\* RESET_N falls and rises between two clocks.
Reset ==
    /\ resetN /\ resets < MaxResets
    /\ resetN' = FALSE /\ hold' = 0 /\ resets' = resets + 1
    /\ st' = 0 /\ go' = Idle /\ wcnt' = 0 /\ cnt' = 0 /\ dely' = 0 /\ id1' = 0 /\ release' = FALSE
    /\ UNCHANGED <<frame, tab, word, ptr, rd, awake>>
    /\ cam' \in Slave!Seen(cam, Scl, Sda, Scl', Sda', awake > 0, Answer)
    /\ got' = <<>>

Run ==
    /\ ~resetN /\ hold = MinHold
    /\ resetN' = TRUE /\ hold' = 0
    /\ UNCHANGED <<resets, seqVars, tab, word, ptr, rd, awake>>
    /\ CameraSees

\* The camera starts up by itself.
Wakes ==
    /\ awake < 2 /\ awake' = awake + 1
    /\ UNCHANGED <<resetN, hold, resets, seqVars, tab, word, ptr, rd, cam, got>>

Next == Clock \/ Reset \/ Run \/ Wakes

Fairness == WF_vars(Clock) /\ WF_vars(Wakes) /\ WF_vars(Run)

Spec == Init /\ [][Next]_vars /\ Fairness

(***************************************************************************)
(* Properties.                                                             *)
(***************************************************************************)
EngineOk(e) == /\ e.st \in Nat /\ e.cnt \in 0 .. Bits + 1 /\ e.byte \in 0 .. 3
               /\ e.a \in 0 .. 2 ^ (Bits + 1) - 1 /\ e.data \in Byte /\ e.end \in BOOLEAN
               /\ {e.sda, e.scl} \subseteq {0, 1}

\* Types of all registers.
TypeOK ==
    /\ resetN \in BOOLEAN /\ hold \in 0 .. MinHold
    /\ st \in 0 .. 42 /\ go \in [word : BOOLEAN, ptr : BOOLEAN, read : BOOLEAN]
    /\ wcnt \in 0 .. Len(Table) /\ cnt \in 0 .. CntSize - 1 /\ id1 \in Byte
    /\ frame \in Byte \X Byte \X Byte \X Byte /\ tab \in ToSet(Table)
    /\ EngineOk(word) /\ EngineOk(ptr) /\ EngineOk(rd)
    /\ cam.out \in {0, 1} /\ Len(got) <= Len(Words)

\* Never two engines at work on the wires, although a reset of the sequencer
\* leaves a running engine alone: the reset outlasts every transfer but the
\* pointer engine's endless retries, and that one the sequencer waits for
\* (lines 94-107 and 223-225).
OneEngineOnTheWires ==
    resetN => Cardinality({e \in {<<"word", word>>, <<"ptr", ptr>>, <<"read", rd>>} : Busy(e[2])}) <= 1

\* When the configuration is released, the camera has taken every word of
\* the table, once, in order and unmixed, with nothing after them, whatever
\* was cut short before (lines 154-187).
ReleasedMeansConfigured == release => got = Words

\* The clock line changes hands with the release (camouse.v:180) while the
\* data line is shared: from then on no engine moves, no slave pulls.
ReleasedMeansQuiet ==
    release => /\ ~Busy(word) /\ ~Busy(ptr) /\ ~Busy(rd)
               /\ Scl = 1 /\ Sda = 1 /\ cam.out = 1 /\ cam.mode = "idle"

\* The table's output register is a clock behind WCNT; the word that is sent
\* is still the one WCNT counts (lines 154-160 and 316-318).
WordIsCurrent == st \in {32, 33, 34} => frame = Table[wcnt + 1]

\* The engines keep the handshake that the sequencers rely on: no transfer
\* but after GO low, no END_OK before the transfer is over, also under a
\* sequencer that a reset has sent back to its start; and on every clock they
\* react to GO, they never just wait (I2C_WRITE_WDATA.v:46-53, 107-123, and the
\* same states of the other two).
Phase(e, idle) ==
    CASE e.st = 0 -> "off"
      [] e.st = idle -> "ready"
      [] e.end /\ e.st \notin {0, idle} -> "armed"
      [] ~e.end -> "busy"
WordEngine == INSTANCE I2cHandshake WITH phase <- Phase(word, 30), go <- go.word
PointerEngine == INSTANCE I2cHandshake WITH phase <- Phase(ptr, 10), go <- go.ptr
ReadEngine == INSTANCE I2cHandshake WITH phase <- Phase(rd, 30), go <- go.read
EachReacts ==
    /\ Phase(word, 30)' \in WordEngine!After(Phase(word, 30), go.word)
    /\ Phase(ptr, 10)' \in PointerEngine!After(Phase(ptr, 10), go.ptr)
    /\ Phase(rd, 30)' \in ReadEngine!After(Phase(rd, 30), go.read)
EnginesKeepHandshake ==
    WordEngine!Spec /\ PointerEngine!Spec /\ ReadEngine!Spec /\ [][Clock => EachReacts]_vars

\* What the camera has to be sent, and how.
TableSent == ReleasedMeansConfigured /\ ReleasedMeansQuiet /\ WordIsCurrent

\* If the key is left alone, the camera is configured in the end: an
\* identity read too early is not looked at again until CNT has come round
\* (lines 125-137), but it comes round.
ConfiguredInTheEnd == <>[]resetN => <>[]release
=============================================================================
