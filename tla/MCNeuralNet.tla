---------------------------- MODULE MCNeuralNet -----------------------------
(* Model-checking instance of NeuralNet: the corners of the colour cube, and *)
(* the pixels on either side of each net's threshold.  ClickPath, which a    *)
(* verdict takes to the program, is checked in the same run, for any         *)
(* sequence of verdicts: part names which of the two moves.                  *)
EXTENDS NeuralNet

Corners == {0, 255} \X {0, 255} \X {0, 255}
NearThreshold == {<<0, 31, 0>>, <<0, 32, 0>>, <<52, 0, 0>>, <<53, 0, 0>>}
TestPixels == Corners \cup NearThreshold

CONSTANT MaxResets

VARIABLES part, green, latch, data, writeEnable, sgnl,
          read, isRead, valid, readdata, polling, click, resets

C == INSTANCE ClickPath

clickVars == <<green, latch, data, writeEnable, sgnl,
               read, isRead, valid, readdata, polling, click, resets>>

PartInit ==
    /\ part \in {"nets", "click"} /\ Init /\ C!Init
    /\ part = "nets" => green /\ latch /\ data /\ readdata

PartNext ==
    /\ UNCHANGED part
    /\ \/ part = "nets" /\ Next /\ UNCHANGED clickVars
       \/ part = "click" /\ C!Next /\ UNCHANGED vars

\* C's actions move nothing of NeuralNet's.
PartSpec == PartInit /\ [][PartNext]_<<part, vars, clickVars>> /\ (part = "click" => C!Fairness)

\* A verdict that stands is what the program sees in the end, and is never
\* overtaken by an older one on its way there.
ClickFollowsVerdict ==
    /\ part = "click" => C!ClickFollowsVerdict
    /\ C!NeverTurnsBack
=============================================================================
