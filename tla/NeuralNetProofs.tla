-------------------------- MODULE NeuralNetProofs ---------------------------
(***************************************************************************)
(* No pixel of the whole colour cube makes both networks fire.             *)
(*                                                                         *)
(* A neuron is affine and there is nothing but neurons, so each network is *)
(* one affine function of the pixel: green needs more green than red, red  *)
(* needs nearly three times as much red as green.  The results exclude     *)
(* each other at every clock because the registers of the two networks     *)
(* hold the same pixel, stage by stage.  The same invariant names that     *)
(* pixel: the one that entered as many clocks ago, for every result.       *)
(* From there on a verdict passes six registers: none gets an older one    *)
(* back.                                                                   *)
(***************************************************************************)
EXTENDS MCNeuralNet, TLAPS

\* The networks as functions of the pixel.
GreenScore(p) == 145 * p[2] - 151 * p[1] - 62 * p[3] - 1636
RedScore(p) == 693 * p[1] - 2004 * p[2] - 891 * p[3] - 3958

LEMMA Components ==
  ASSUME NEW p \in RGB
  PROVE  p[1] \in 0 .. 255 /\ p[2] \in 0 .. 255 /\ p[3] \in 0 .. 255
BY DEF RGB

\* Two layers of neurons collapse into one affine function.
LEMMA Affine ==
  ASSUME NEW p \in RGB
  PROVE  /\ GreenOutput(GreenHidden(p)) = GreenScore(p)
         /\ RedOutput(RedHidden(p)) = RedScore(p)
<1> DEFINE r == p[1]
           g == p[2]
           b == p[3]
<1>1. r \in Int /\ g \in Int /\ b \in Int
  BY Components
<1> HIDE DEF r, g, b
<1>2. GreenHidden(p) = << 10 * r - 7 * g + 8 * b + 3, g - 3 * b + 36,
                          10 * g - 9 * r - 9 * b - 24 >>
  BY <1>1 DEF GreenHidden, Neuron, r, g, b
<1>3. RedHidden(p) = << 9 * r + 4 * g - 8 * b + 10, -2 * r - 24 * g - 19 * b - 21,
                        21 * g - 15 * r + 6 * b + 56 >>
  BY <1>1 DEF RedHidden, Neuron, r, g, b
<1>4. GreenOutput(GreenHidden(p)) = 145 * g - 151 * r - 62 * b - 1636
  BY <1>1, <1>2 DEF GreenOutput, Neuron
<1>5. RedOutput(RedHidden(p)) = 693 * r - 2004 * g - 891 * b - 3958
  BY <1>1, <1>3 DEF RedOutput, Neuron
<1> QED
  BY <1>4, <1>5 DEF GreenScore, RedScore, r, g, b

\* Both scores fit Int21, and at most one of them reaches its threshold.
LEMMA Scores ==
  ASSUME NEW p \in RGB
  PROVE  /\ GreenScore(p) \in Int21 /\ RedScore(p) \in Int21
         /\ ~(GreenScore(p) >= GreenThreshold /\ RedScore(p) >= RedThreshold)
<1> DEFINE r == p[1]
           g == p[2]
           b == p[3]
<1>1. /\ r \in Int /\ g \in Int /\ b \in Int
      /\ 0 <= r /\ r <= 255 /\ 0 <= g /\ g <= 255 /\ 0 <= b /\ b <= 255
  BY Components
<1>2. /\ GreenScore(p) = 145 * g - 151 * r - 62 * b - 1636
      /\ RedScore(p) = 693 * r - 2004 * g - 891 * b - 3958
  BY DEF GreenScore, RedScore
<1> HIDE DEF r, g, b
<1>3. GreenScore(p) \in Int21 /\ RedScore(p) \in Int21
  BY <1>1, <1>2, SMT DEF Int21
<1>4. ~(GreenScore(p) >= GreenThreshold /\ RedScore(p) >= RedThreshold)
  BY <1>1, <1>2, SMT DEF GreenThreshold, RedThreshold
<1> QED
  BY <1>3, <1>4

\* A pair of outputs that does not fire both nets.
Exclusive(x, y) == ~(x >= GreenThreshold /\ y >= RedThreshold)

\* Stage by stage, the two networks work on the same pixel.
IInv ==
  /\ rgb["green"] \in RGB /\ rgb["red"] = rgb["green"]
  /\ \/ hidden["green"] = <<0, 0, 0>> /\ hidden["red"] = <<0, 0, 0>>
     \/ \E p \in RGB : hidden["green"] = GreenHidden(p) /\ hidden["red"] = RedHidden(p)
  /\ output["green"] \in Int21 /\ output["red"] \in Int21
  /\ Exclusive(output["green"], output["red"])
  /\ ~(result["green"] /\ result["red"])

LEMMA Initially == Init => IInv
BY DEF Init, IInv, Nets, Black, RGB, Exclusive, GreenThreshold, RedThreshold, Int21

\* What the output neurons make of the hidden registers.
LEMMA OutputsExclusive ==
  ASSUME IInv
  PROVE  /\ GreenOutput(hidden["green"]) \in Int21
         /\ RedOutput(hidden["red"]) \in Int21
         /\ Exclusive(GreenOutput(hidden["green"]), RedOutput(hidden["red"]))
<1>1. CASE hidden["green"] = <<0, 0, 0>> /\ hidden["red"] = <<0, 0, 0>>
  BY <1>1 DEF GreenOutput, RedOutput, Neuron, Exclusive, Int21,
              GreenThreshold, RedThreshold
<1>2. CASE \E p \in RGB : hidden["green"] = GreenHidden(p) /\ hidden["red"] = RedHidden(p)
  <2>1. PICK p \in RGB : hidden["green"] = GreenHidden(p) /\ hidden["red"] = RedHidden(p)
    BY <1>2
  <2> QED
    BY <2>1, Affine, Scores DEF Exclusive
<1> QED
  BY <1>1, <1>2 DEF IInv

LEMMA ClockStep ==
  ASSUME IInv, NEW p \in Pixels, Clock(p)
  PROVE  IInv'
<1>1. rgb'["green"] = p /\ rgb'["red"] = p /\ p \in RGB
  BY PixelAssumption DEF Clock, Nets
<1>2. hidden'["green"] = GreenHidden(rgb["green"]) /\ hidden'["red"] = RedHidden(rgb["red"])
  BY DEF Clock, Nets, HiddenNeurons, Hidden
<1>3. \E q \in RGB : hidden'["green"] = GreenHidden(q) /\ hidden'["red"] = RedHidden(q)
  BY <1>2 DEF IInv
<1>4. /\ output'["green"] = GreenOutput(hidden["green"])
      /\ output'["red"] = RedOutput(hidden["red"])
  BY DEF Clock, Nets, Output
<1>5. /\ result'["green"] = (output["green"] >= GreenThreshold)
      /\ result'["red"] = (output["red"] >= RedThreshold)
  BY DEF Clock, Nets, Fires
<1>6. ~(result'["green"] /\ result'["red"])
  BY <1>5 DEF IInv, Exclusive
<1> QED
  BY <1>1, <1>3, <1>4, <1>6, OutputsExclusive DEF IInv

LEMMA Inductive == IInv /\ [Next]_vars => IInv'
<1> SUFFICES ASSUME IInv, [Next]_vars PROVE IInv'
  OBVIOUS
<1>1. CASE Next
  BY <1>1, ClockStep DEF Next
<1>2. CASE UNCHANGED vars
  BY <1>2 DEF vars, IInv
<1> QED
  BY <1>1, <1>2

\* For every stream of pixels: GREEN_NN and RED_NN are never both high.
THEOREM DetectorsExclusive == Spec => []NeverBoth
<1>1. IInv => NeverBoth
  BY DEF IInv, NeverBoth
<1> QED
  BY <1>1, Initially, Inductive, PTL DEF Spec
-----------------------------------------------------------------------------
(* The pipeline: which pixel each register is about, and its width. *)

\* Each stage holds what the stages before it made of one pixel.
StagesHold ==
  /\ past \in Seq(RGB) /\ Len(past) <= 4
  /\ \A n \in Nets :
       /\ Len(past) >= 1 => rgb[n] = past[1]
       /\ Len(past) >= 2 => hidden[n] = Hidden(n, past[2])
       /\ Len(past) >= 3 => output[n] = Output(n, Hidden(n, past[3]))
       /\ Len(past) = 4 => result[n] = Fires(n, Output(n, Hidden(n, past[4])))

\* The pixels move up by one place, and the fifth is forgotten.
LEMMA PastShifts ==
  ASSUME past \in Seq(RGB), Len(past) <= 4, NEW p \in Pixels, Clock(p)
  PROVE  /\ past' \in Seq(RGB) /\ Len(past') <= 4 /\ Len(past') >= 1
         /\ Len(past') <= Len(past) + 1
         /\ past'[1] = p
         /\ \A i \in 1 .. 3 : Len(past') > i => past'[i + 1] = past[i]
<1>1. p \in RGB /\ <<p>> \in Seq(RGB) /\ Len(<<p>>) = 1 /\ <<p>>[1] = p
  BY PixelAssumption
<1>2. CASE Len(past) < 4
  <2>1. past' = <<p>> \o past
    BY <1>2 DEF Clock
  <2>2. past' \in Seq(RGB) /\ Len(past') = Len(past) + 1
    BY <1>1, <2>1
  <2>3. \A i \in 1 .. Len(past) + 1 : past'[i] = IF i <= 1 THEN p ELSE past[i - 1]
    BY <1>1, <2>1
  <2>4. past'[1] = p /\ \A i \in 1 .. 3 : Len(past') > i => past'[i + 1] = past[i]
    BY <1>2, <2>2, <2>3
  <2> QED
    BY <1>2, <2>2, <2>4
<1>3. CASE Len(past) = 4
  <2>1. past' = <<p>> \o SubSeq(past, 1, 3)
    BY <1>3 DEF Clock
  <2>2. /\ SubSeq(past, 1, 3) \in Seq(RGB) /\ Len(SubSeq(past, 1, 3)) = 3
        /\ \A i \in 1 .. 3 : SubSeq(past, 1, 3)[i] = past[i]
    BY <1>3, SMTT(30)
  <2> DEFINE kept == SubSeq(past, 1, 3)
  <2> HIDE DEF kept
  <2>3. past' \in Seq(RGB) /\ Len(past') = 4
    BY <1>1, <2>1, <2>2 DEF kept
  <2>4. \A i \in 1 .. 4 : past'[i] = IF i <= 1 THEN p ELSE kept[i - 1]
    BY <1>1, <2>1, <2>2 DEF kept
  <2>5. past'[1] = p /\ \A i \in 1 .. 3 : past'[i + 1] = past[i]
    BY <2>2, <2>4 DEF kept
  <2>6. Len(past') <= Len(past) + 1 /\ Len(past') >= 1 /\ Len(past') <= 4
    BY <1>3, <2>3
  <2> QED
    BY <2>3, <2>5, <2>6
<1>4. Len(past) \in Nat
  OBVIOUS
<1>5. Len(past) < 4 \/ Len(past) = 4
  <2> DEFINE k == Len(past)
  <2>1. k \in Nat /\ k <= 4
    BY <1>4
  <2> HIDE DEF k
  <2>2. k < 4 \/ k = 4
    BY <2>1
  <2> QED
    BY <2>2 DEF k
<1> QED
  BY <1>2, <1>3, <1>5, Zenon

LEMMA StagesStep ==
  ASSUME StagesHold, NEW p \in Pixels, Clock(p)
  PROVE  StagesHold'
<1>1. past \in Seq(RGB) /\ Len(past) <= 4 /\ Len(past) \in Nat
  BY DEF StagesHold
<1>2. /\ past' \in Seq(RGB) /\ Len(past') <= 4 /\ Len(past') >= 1
      /\ Len(past') <= Len(past) + 1 /\ past'[1] = p
      /\ \A i \in 1 .. 3 : Len(past') > i => past'[i + 1] = past[i]
  BY <1>1, PastShifts
<1>3. /\ Len(past') \in Nat
      /\ Len(past') > 1 => past'[2] = past[1]
      /\ Len(past') > 2 => past'[3] = past[2]
      /\ Len(past') > 3 => past'[4] = past[3]
  BY <1>2
<1>4. ASSUME NEW n \in Nets
      PROVE  /\ Len(past') >= 1 => rgb'[n] = past'[1]
             /\ Len(past') >= 2 => hidden'[n] = Hidden(n, past'[2])
             /\ Len(past') >= 3 => output'[n] = Output(n, Hidden(n, past'[3]))
             /\ Len(past') = 4 => result'[n] = Fires(n, Output(n, Hidden(n, past'[4])))
  <2>1. /\ rgb'[n] = p /\ hidden'[n] = Hidden(n, rgb[n])
        /\ output'[n] = Output(n, hidden[n]) /\ result'[n] = Fires(n, output[n])
    BY DEF Clock, HiddenNeurons
  <2>2. /\ Len(past) >= 1 => rgb[n] = past[1]
        /\ Len(past) >= 2 => hidden[n] = Hidden(n, past[2])
        /\ Len(past) >= 3 => output[n] = Output(n, Hidden(n, past[3]))
    BY DEF StagesHold
  <2>3. Len(past') >= 2 => hidden'[n] = Hidden(n, past'[2])
    BY <1>1, <1>2, <1>3, <2>1, <2>2
  <2>4. Len(past') >= 3 => output'[n] = Output(n, Hidden(n, past'[3]))
    BY <1>1, <1>2, <1>3, <2>1, <2>2
  <2>5. Len(past') = 4 => result'[n] = Fires(n, Output(n, Hidden(n, past'[4])))
    BY <1>1, <1>2, <1>3, <2>1, <2>2
  <2> QED
    BY <1>2, <2>1, <2>3, <2>4, <2>5
<1> QED
  BY <1>2, <1>4 DEF StagesHold

\* For every stream of pixels, a result is what both layers make of the pixel
\* of four clocks ago, whatever came before and after it (green_nn.vhd,
\* red_nn.vhd: input, hidden, output and result registers).
THEOREM OnePixelPerResult == Spec => []ResultOfOnePixel
<1>1. Init => StagesHold
  <2>1. Init => past = <<>> /\ <<>> \in Seq(RGB) /\ Len(<<>>) = 0
    BY DEF Init
  <2> QED
    BY <2>1 DEF StagesHold
<1>2. StagesHold /\ [Next]_vars => StagesHold'
  <2> SUFFICES ASSUME StagesHold, [Next]_vars PROVE StagesHold'
    OBVIOUS
  <2>1. CASE Next
    BY <2>1, StagesStep DEF Next
  <2>2. CASE UNCHANGED vars
    BY <2>2 DEF vars, StagesHold
  <2> QED
    BY <2>1, <2>2
<1>3. StagesHold => ResultOfOnePixel
  BY DEF StagesHold, ResultOfOnePixel
<1> QED
  BY <1>1, <1>2, <1>3, PTL DEF Spec

\* A hidden neuron's result fits as well.
LEMMA HiddenFits ==
  ASSUME NEW p \in RGB, NEW i \in 1 .. 3
  PROVE  GreenHidden(p)[i] \in Int21 /\ RedHidden(p)[i] \in Int21
<1> DEFINE r == p[1]
           g == p[2]
           b == p[3]
<1>1. /\ r \in Int /\ g \in Int /\ b \in Int
      /\ 0 <= r /\ r <= 255 /\ 0 <= g /\ g <= 255 /\ 0 <= b /\ b <= 255
  BY Components
<1> HIDE DEF r, g, b
<1>2. GreenHidden(p) = << 10 * r - 7 * g + 8 * b + 3, g - 3 * b + 36,
                          10 * g - 9 * r - 9 * b - 24 >>
  BY <1>1 DEF GreenHidden, Neuron, r, g, b
<1>3. RedHidden(p) = << 9 * r + 4 * g - 8 * b + 10, -2 * r - 24 * g - 19 * b - 21,
                        21 * g - 15 * r + 6 * b + 56 >>
  BY <1>1 DEF RedHidden, Neuron, r, g, b
<1>4. i = 1 \/ i = 2 \/ i = 3
  OBVIOUS
<1> QED
  BY <1>1, <1>2, <1>3, <1>4 DEF Int21

\* No sum of either network leaves 21 bits on any pixel, so nothing overflows
\* VHDL's integer (neuron.vhd: x0 * w0 + x1 * w1 + x2 * w2 + bias).
THEOREM NothingOverflows == Spec => []TypeOK
<1> DEFINE Shape == /\ \A n \in Nets : result[n] \in BOOLEAN
                    /\ past \in Seq(RGB) /\ Len(past) <= 4
<1>1. Init => Shape
  BY DEF Init
<1>2. Shape /\ [Next]_vars => Shape'
  <2> SUFFICES ASSUME Shape, [Next]_vars PROVE Shape'
    OBVIOUS
  <2>1. CASE Next
    <3>1. PICK p \in Pixels : Clock(p)
      BY <2>1 DEF Next
    <3>2. past' \in Seq(RGB) /\ Len(past') <= 4
      BY <3>1, PastShifts
    <3>3. \A n \in Nets : result'[n] \in BOOLEAN
      BY <3>1 DEF Clock, Fires
    <3> QED
      BY <3>2, <3>3
  <2>2. CASE UNCHANGED vars
    BY <2>2 DEF vars
  <2> QED
    BY <2>1, <2>2
<1>3. IInv /\ Shape => TypeOK
  <2> SUFFICES ASSUME IInv, Shape PROVE TypeOK
    OBVIOUS
  <2>1. \A i \in 1 .. 3 : hidden["green"][i] \in Int21 /\ hidden["red"][i] \in Int21
    <3>1. CASE hidden["green"] = <<0, 0, 0>> /\ hidden["red"] = <<0, 0, 0>>
      BY <3>1 DEF Int21
    <3>2. CASE \E p \in RGB : hidden["green"] = GreenHidden(p) /\ hidden["red"] = RedHidden(p)
      BY <3>2, HiddenFits
    <3> QED
      BY <3>1, <3>2 DEF IInv
  <2> QED
    BY <2>1 DEF TypeOK, IInv, Nets
<1> QED
  BY <1>1, <1>2, <1>3, Initially, Inductive, PTL DEF Spec

\* One step of the way from the verdict to the program: the six registers
\* follow each other, each takes what the one before it holds or stays.
LEMMA EachFollows ==
  ASSUME C!Next, green' = green
  PROVE  /\ latch' \in {latch, green} /\ data' \in {data, latch} /\ sgnl' \in {sgnl, data}
         /\ readdata' \in {readdata, sgnl} /\ click' \in {click, readdata}
<1>1. CASE C!Verdict \/ C!Loop \/ C!Poll \/ C!Restart
  BY <1>1 DEF C!Verdict, C!Loop, C!Poll, C!Restart, C!busVars, C!readVars
<1>2. ASSUME C!SlaveClock, latch' = latch, data' \in {data, latch}, sgnl' \in {sgnl, data}
      PROVE  /\ latch' \in {latch, green} /\ data' \in {data, latch} /\ sgnl' \in {sgnl, data}
             /\ readdata' \in {readdata, sgnl} /\ click' \in {click, readdata}
  BY <1>2 DEF C!SlaveClock
<1>3. CASE C!ClockWith(C!EndWrite)
  BY <1>2, <1>3 DEF C!ClockWith, C!EndWrite
<1>4. CASE C!ClockWith(C!NiosRead)
  BY <1>2, <1>4 DEF C!ClockWith, C!NiosRead
<1>5. CASE C!ClockWith(C!SchematicWrite)
  BY <1>2, <1>5 DEF C!ClockWith, C!SchematicWrite
<1> QED
  BY <1>1, <1>3, <1>4, <1>5 DEF C!Next

\* As far as a verdict has come it stays while it stands, whatever is read,
\* written or restarted meanwhile (nn_processing.vhd, sram_controller.vhd).
THEOREM VerdictNeverTurnsBack == PartSpec => C!NeverTurnsBack
<1>1. ASSUME C!Next \/ UNCHANGED C!vars, green' = green, NEW k \in 1 .. 6, C!Reaches(k)
      PROVE  C!Reaches(k)'
  <2>1. /\ latch' \in {latch, green} /\ data' \in {data, latch} /\ sgnl' \in {sgnl, data}
        /\ readdata' \in {readdata, sgnl} /\ click' \in {click, readdata}
    BY <1>1, EachFollows DEF C!vars, C!busVars, C!readVars
  <2>2. \A i \in 1 .. k : C!Way[i] = green
    BY <1>1 DEF C!Reaches
  <2>3. ASSUME NEW i \in 1 .. k
        PROVE  C!Way[i]' = green'
    <3>1. \A j \in 1 .. i : C!Way[j] = green
      BY <2>2, <2>3
    <3>2. CASE i = 1
      BY <1>1, <3>2 DEF C!Way
    <3>3. CASE i = 2
      BY <1>1, <2>1, <3>1, <3>3 DEF C!Way
    <3>4. CASE i = 3
      BY <1>1, <2>1, <3>1, <3>4 DEF C!Way
    <3>5. CASE i = 4
      BY <1>1, <2>1, <3>1, <3>5 DEF C!Way
    <3>6. CASE i = 5
      BY <1>1, <2>1, <3>1, <3>6 DEF C!Way
    <3>7. CASE i = 6
      BY <1>1, <2>1, <3>1, <3>7 DEF C!Way
    <3> QED
      BY <3>2, <3>3, <3>4, <3>5, <3>6, <3>7
  <2> QED
    BY <2>3 DEF C!Reaches
<1>2. [PartNext]_<<part, vars, clickVars>> => C!Next \/ UNCHANGED C!vars
  BY DEF PartNext, clickVars, C!vars, C!busVars, C!readVars
<1>3. [PartNext]_<<part, vars, clickVars>>
      => [green' = green => \A k \in 1 .. 6 : C!Reaches(k) => C!Reaches(k)']_(C!vars)
  BY <1>1, <1>2
<1> QED
  BY <1>3, PTL DEF PartSpec, C!NeverTurnsBack
=============================================================================
