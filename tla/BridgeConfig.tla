---------------------------- MODULE BridgeConfig ----------------------------
(***************************************************************************)
(* fpga/V_D8M/MIPI_BRIDGE_CONFIG.v: the sequencer that reads the MIPI      *)
(* bridge's identity once and then writes its table of registers and       *)
(* pauses; its release takes MIPI_CAMERA_CONFIG out of reset.  The engines *)
(* keep I2cHandshake; a read or a word lasts TransferTicks clocks at most, *)
(* the pointer engine tries until the bridge answers.  One step of Clock   *)
(* is one rising edge of CLK_400K.                                         *)
(***************************************************************************)
EXTENDS Integers, Sequences, FiniteSets, SequencesExt

CONSTANTS Table,          \* a sequence of words and pauses
          Pauses,         \* the entries tagged 16'hffff
          PauseTicks,     \* clocks of a pause
          TransferTicks,  \* clocks in the longest transfer
          MinHold         \* clocks in the shortest RESET_N

BridgeAssumption ==
    /\ Table \in Seq(ToSet(Table)) /\ Table # <<>> /\ Pauses \subseteq ToSet(Table)
    /\ {PauseTicks, TransferTicks, MinHold} \subseteq Nat /\ MinHold > TransferTicks + 2

\* The end of the table is looked for after a word only (state 35, not 42).
EndsWithWord == Last(Table) \notin Pauses

Engine == INSTANCE I2cHandshake WITH phase <- "off", go <- TRUE

VARIABLES resetN, hold,
          st, go, wcnt, cnt, dely, frame, release,  \* the sequencer's registers
          tab,              \* REG16_DATA16, the table's output register
          word, ptr, rd,    \* phases of the engines
          worked,           \* clocks of the read or write under way
          answers,          \* the bridge has started up and acknowledges
          sent              \* the words that went over the wires since the reset

seqVars == <<st, go, wcnt, cnt, dely, frame, release>>
vars == <<resetN, hold, seqVars, tab, word, ptr, rd, worked, answers, sent>>

\* The words of the table in their order: where they are, how many there are
\* among the first n entries, and the k-th of them.
Places == {i \in 1 .. Len(Table) : Table[i] \notin Pauses}
UpTo(n) == Cardinality({i \in Places : i <= n})
Words == [k \in 1 .. Cardinality(Places) |-> Table[CHOOSE i \in Places : UpTo(i) = k]]

Idle == [word |-> TRUE, ptr |-> TRUE, read |-> TRUE]

Init ==
    /\ resetN = FALSE /\ hold = 0
    /\ st = 0 /\ go = Idle /\ wcnt = 0 /\ cnt = 0 /\ dely = 0
    /\ frame = "none" /\ release = FALSE /\ tab = Table[1]
    /\ word = "off" /\ ptr = "off" /\ rd = "off" /\ worked = 0
    /\ answers = FALSE /\ sent = <<>>

(***************************************************************************)
(* The sequencer.                                                          *)
(***************************************************************************)
Begin ==
    /\ st = 0 /\ st' = 1
    /\ go' = Idle /\ wcnt' = 0 /\ cnt' = 0 /\ dely' = 0
    /\ UNCHANGED <<frame, release>>

\* 1, 5, 8, 33: a clock for the engine to notice.  42: one for the table.
Pass ==
    /\ st \in {1, 5, 8, 33, 42}
    /\ st' = IF st = 42 THEN 31 ELSE st + 1
    /\ UNCHANGED <<go, wcnt, cnt, dely, frame, release>>

PointAtId ==
    /\ st = 2
    /\ frame' = IF cnt = 0 THEN "id" ELSE frame
    /\ IF Engine!EndOk(ptr)
       THEN go' = [go EXCEPT !.ptr = FALSE] /\ st' = 3 /\ dely' = 0
       ELSE UNCHANGED <<go, st, dely>>
    /\ UNCHANGED <<wcnt, cnt, release>>

HoldPointerGo ==
    /\ st = 3
    /\ IF dely = 2
       THEN go' = [go EXCEPT !.ptr = TRUE] /\ st' = 4 /\ dely' = 0
       ELSE dely' = dely + 1 /\ UNCHANGED <<go, st>>
    /\ UNCHANGED <<wcnt, cnt, frame, release>>

\* Mutant: 4 does not wait for the pointer engine.
Pointed_Bug ==
    /\ st = 4
    /\ IF dely = 3 THEN dely' = dely /\ st' = 5 ELSE dely' = dely + 1 /\ st' = st
    /\ UNCHANGED <<go, wcnt, cnt, frame, release>>

\* 4: three clocks, and then until the pointer has been sent.
Pointed ==
    /\ st = 4
    /\ IF dely = 3
       THEN dely' = dely /\ st' = IF Engine!EndOk(ptr) THEN 5 ELSE st
       ELSE dely' = dely + 1 /\ st' = st
    /\ UNCHANGED <<go, wcnt, cnt, frame, release>>

ReadId ==
    /\ st = 6
    /\ IF Engine!EndOk(rd)
       THEN go' = [go EXCEPT !.read = FALSE] /\ st' = 7 /\ dely' = 0
       ELSE UNCHANGED <<go, st, dely>>
    /\ UNCHANGED <<wcnt, cnt, frame, release>>

HoldReadGo ==
    /\ st = 7
    /\ dely' = dely + 1
    /\ IF dely = 2 THEN go' = [go EXCEPT !.read = TRUE] /\ st' = 8 ELSE UNCHANGED <<go, st>>
    /\ UNCHANGED <<wcnt, cnt, frame, release>>

\* Mutant: CNT is not counted.
IdRead_Bug ==
    /\ st = 9
    /\ st' = IF Engine!EndOk(rd) THEN 10 ELSE st
    /\ UNCHANGED <<go, cnt, wcnt, dely, frame, release>>

\* 9 and 10: the identity is read, and compared with nothing.
IdRead ==
    /\ st = 9
    /\ IF Engine!EndOk(rd) THEN cnt' = cnt + 1 /\ st' = 10 ELSE UNCHANGED <<cnt, st>>
    /\ UNCHANGED <<go, wcnt, dely, frame, release>>

OnToTable ==
    /\ st = 10
    /\ st' = IF cnt = 1 THEN 28 ELSE 1
    /\ go' = Idle /\ dely' = 0
    /\ UNCHANGED <<wcnt, cnt, frame, release>>

BeforeTable ==
    /\ st = 28
    /\ IF dely < 5 THEN dely' = dely + 1 /\ st' = st ELSE st' = 30 /\ dely' = dely
    /\ UNCHANGED <<go, wcnt, cnt, frame, release>>

FirstWord ==
    /\ st = 30 /\ st' = 31 /\ wcnt' = 0
    /\ UNCHANGED <<go, cnt, dely, frame, release>>

TakeWord ==
    /\ st = 31 /\ tab \notin Pauses
    /\ frame' = tab
    /\ IF Engine!EndOk(word)
       THEN go' = [go EXCEPT !.word = FALSE] /\ st' = 32 /\ dely' = 0
       ELSE UNCHANGED <<go, st, dely>>
    /\ UNCHANGED <<wcnt, cnt, release>>

TakePause ==
    /\ st = 31 /\ tab \in Pauses
    /\ st' = 40
    /\ UNCHANGED <<go, wcnt, cnt, dely, frame, release>>

HoldWordGo ==
    /\ st = 32
    /\ IF dely = 3
       THEN go' = [go EXCEPT !.word = TRUE] /\ st' = 33 /\ dely' = dely
       ELSE dely' = dely + 1 /\ UNCHANGED <<go, st>>
    /\ UNCHANGED <<wcnt, cnt, frame, release>>

\* Mutant: 34 does not wait for the word engine.
WordSent_Bug ==
    /\ st = 34
    /\ wcnt' = wcnt + 1 /\ st' = 35
    /\ UNCHANGED <<go, cnt, dely, frame, release>>

WordSent ==
    /\ st = 34
    /\ IF Engine!EndOk(word) THEN wcnt' = wcnt + 1 /\ st' = 35 ELSE UNCHANGED <<wcnt, st>>
    /\ UNCHANGED <<go, cnt, dely, frame, release>>

\* Mutant: the end of the table is one entry late.
NextWord_Bug ==
    /\ st = 35
    /\ IF wcnt = Len(Table) + 1
       THEN st' = 36 /\ cnt' = 0 /\ dely' = 0
       ELSE st' = 31 /\ UNCHANGED <<cnt, dely>>
    /\ UNCHANGED <<go, wcnt, frame, release>>

NextWord ==
    /\ st = 35
    /\ IF wcnt = Len(Table)
       THEN st' = 36 /\ cnt' = 0 /\ dely' = 0
       ELSE st' = 31 /\ UNCHANGED <<cnt, dely>>
    /\ UNCHANGED <<go, wcnt, frame, release>>

TableEnd ==
    /\ st = 36 /\ release' = TRUE
    /\ UNCHANGED <<st, go, wcnt, cnt, dely, frame>>

PauseBegins ==
    /\ st = 40 /\ st' = 41 /\ dely' = 0
    /\ UNCHANGED <<go, wcnt, cnt, frame, release>>

Pausing ==
    /\ st = 41
    /\ IF dely = PauseTicks
       THEN st' = 42 /\ wcnt' = wcnt + 1 /\ dely' = dely
       ELSE dely' = dely + 1 /\ UNCHANGED <<st, wcnt>>
    /\ UNCHANGED <<go, cnt, frame, release>>

Sequencer ==
    \/ Begin \/ Pass \/ PointAtId \/ HoldPointerGo \/ Pointed
    \/ ReadId \/ HoldReadGo \/ IdRead \/ OnToTable
    \/ BeforeTable \/ FirstWord \/ TakeWord \/ TakePause \/ HoldWordGo \/ WordSent \/ NextWord
    \/ TableEnd \/ PauseBegins \/ Pausing

(***************************************************************************)
(* The engines.  During RESET_N the wires are let go (lines 270-273): a    *)
(* word then does not get through, and nobody answers the pointer engine,  *)
(* which may be past its acknowledge by then, and end all the same.        *)
(***************************************************************************)
Busy == {e \in {<<"word", word>>, <<"ptr", ptr>>, <<"read", rd>>} : ~Engine!EndOk(e[2])}

TimedBusy == word = "busy" \/ rd = "busy"

Engines ==
    /\ word' \in Engine!After(word, go.word)
    /\ rd' \in Engine!After(rd, go.read)
    /\ ptr' \in Engine!After(ptr, go.ptr)
    /\ (ptr = "busy" /\ ptr' = "ready") => (answers \/ ~resetN)
    /\ worked' = IF TimedBusy /\ TimedBusy' THEN worked + 1 ELSE 0
    /\ worked' <= TransferTicks
    /\ sent' = IF word = "busy" /\ word' = "ready" /\ resetN THEN Append(sent, frame) ELSE sent

TableOutput == tab' = IF wcnt < Len(Table) THEN Table[wcnt + 1] ELSE tab

Clock ==
    /\ IF resetN THEN Sequencer ELSE UNCHANGED seqVars
    /\ Engines
    /\ TableOutput
    /\ hold' = IF ~resetN /\ hold < MinHold THEN hold + 1 ELSE hold
    /\ UNCHANGED <<resetN, answers>>

\* KEY[0] is pressed: MIPI_RESET_n resets the bridge as well.
Reset ==
    /\ resetN
    /\ resetN' = FALSE /\ hold' = 0
    /\ st' = 0 /\ go' = Idle /\ wcnt' = 0 /\ cnt' = 0 /\ dely' = 0 /\ release' = FALSE
    /\ answers' = FALSE /\ sent' = <<>>
    /\ UNCHANGED <<frame, tab, word, ptr, rd, worked>>

Run ==
    /\ ~resetN /\ hold = MinHold
    /\ resetN' = TRUE /\ hold' = 0
    /\ UNCHANGED <<seqVars, tab, word, ptr, rd, worked, answers, sent>>

Wakes ==
    /\ resetN /\ ~answers /\ answers' = TRUE
    /\ UNCHANGED <<resetN, hold, seqVars, tab, word, ptr, rd, worked, sent>>

Next == Clock \/ Reset \/ Run \/ Wakes

\* A transfer is over in the end, also one that is retried.
Fairness == /\ WF_vars(Clock) /\ WF_vars(Run) /\ WF_vars(Wakes)
            /\ SF_vars(Clock /\ ptr = "busy" /\ ptr' = "ready")

Spec == Init /\ [][Next]_vars /\ Fairness

(***************************************************************************)
(* Properties.                                                             *)
(***************************************************************************)
\* Types of all registers.
TypeOK ==
    /\ resetN \in BOOLEAN /\ hold \in 0 .. MinHold
    /\ st \in 0 .. 42 /\ go \in [word : BOOLEAN, ptr : BOOLEAN, read : BOOLEAN]
    /\ wcnt \in 0 .. Len(Table) /\ cnt \in 0 .. 1 /\ dely \in Nat
    /\ frame \in ToSet(Table) \cup {"none", "id"} /\ tab \in ToSet(Table)
    /\ {word, ptr, rd} \subseteq Engine!Phases /\ worked \in 0 .. TransferTicks
    /\ Len(sent) <= Len(Words)

\* Never two engines on the wires, whatever a reset cut short
\* (lines 91-109).
OneEngineOnTheWires == resetN => Cardinality(Busy) <= 1

\* What has gone over the wires since the reset is a beginning of the table,
\* and the camera's configuration is let loose only when it was all of it
\* (lines 158-192; MIPI_BRIDGE_CAMERA_Config.v:38).
SentInOrder == IsPrefix(sent, Words) /\ (release => sent = Words)

\* A pause keeps the wires quiet for its whole length, and the word before
\* it has been sent (lines 196-211).
QuietPauses == st \in {40, 41} => Busy = {} /\ sent = SubSeq(Words, 1, Len(sent))
               /\ wcnt = Len(sent) + Cardinality({i \in 1 .. wcnt : Table[i] \in Pauses})

\* If the key is left alone and the bridge answers, it is configured.
ConfiguredInTheEnd == <>[]resetN => <>[]release
=============================================================================
