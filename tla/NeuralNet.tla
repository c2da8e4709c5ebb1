----------------------------- MODULE NeuralNet ------------------------------
(***************************************************************************)
(* The colour detectors of camouse.v: green_nn.vhd and red_nn.vhd, two     *)
(* networks of three hidden neurons and one output neuron (neuron.vhd).    *)
(* Nothing is computed between two clocks but one neuron: a pixel takes    *)
(* four clocks of VGA_CLK from the input register to the result, and every *)
(* register belongs to another pixel.                                      *)
(***************************************************************************)
EXTENDS Integers, Sequences

CONSTANT Pixels     \* the pixels that may come, <<red, green, blue>>

RGB == (0 .. 255) \X (0 .. 255) \X (0 .. 255)

ASSUME PixelAssumption == Pixels \subseteq RGB

Nets == {"green", "red"}

\* The generics of a neuron: three weights and the bias.
Neuron(w, a, b, c) == w[1] * a + w[2] * b + w[3] * c + w[4]

GreenHidden(p) == << Neuron(<<10, -7, 8, 3>>, p[1], p[2], p[3]),
                     Neuron(<<0, 1, -3, 36>>, p[1], p[2], p[3]),
                     Neuron(<<-9, 10, -9, -24>>, p[1], p[2], p[3]) >>
GreenOutput(h) == Neuron(<<2, -31, 19, -70>>, h[1], h[2], h[3])
GreenThreshold == 3000

RedHidden(p) == << Neuron(<<9, 4, -8, 10>>, p[1], p[2], p[3]),
                   Neuron(<<-2, -24, -19, -21>>, p[1], p[2], p[3]),
                   Neuron(<<-15, 21, 6, 56>>, p[1], p[2], p[3]) >>
RedOutput_Sign(h) == Neuron(<<-9, 33, 56, -39>>, h[1], h[2], h[3])
RedOutput(h) == Neuron(<<-9, 33, -56, -39>>, h[1], h[2], h[3])
RedThreshold == 32768

Hidden(n, p) == IF n = "green" THEN GreenHidden(p) ELSE RedHidden(p)
Output(n, h) == IF n = "green" THEN GreenOutput(h) ELSE RedOutput(h)
Fires(n, x) == x >= (IF n = "green" THEN GreenThreshold ELSE RedThreshold)

VARIABLES rgb,      \* each net's input registers
          hidden,   \* the results of its hidden neurons
          output,   \* output_neuron_result
          result,   \* GREEN_NN and RED_NN
          past      \* the last four pixels, the latest first

vars == <<rgb, hidden, output, result, past>>

Black == <<0, 0, 0>>

\* The registers power up as zeros.
Init == /\ rgb = [n \in Nets |-> Black]
        /\ hidden = [n \in Nets |-> <<0, 0, 0>>]
        /\ output = [n \in Nets |-> 0]
        /\ result = [n \in Nets |-> FALSE]
        /\ past = <<>>

HiddenNeurons_Late(n, p) ==
  << Hidden(n, rgb[n])[1], Hidden(n, rgb[n])[2], Hidden(n, p)[3] >>
HiddenNeurons(n, p) == Hidden(n, rgb[n])

\* A rising edge of VGA_CLK with pixel p at the inputs.
Clock(p) ==
  /\ rgb' = [n \in Nets |-> p]
  /\ hidden' = [n \in Nets |-> HiddenNeurons(n, p)]
  /\ output' = [n \in Nets |-> Output(n, hidden[n])]
  /\ result' = [n \in Nets |-> Fires(n, output[n])]
  /\ past' = IF Len(past) < 4 THEN <<p>> \o past ELSE <<p>> \o SubSeq(past, 1, 3)

Next == \E p \in Pixels : Clock(p)
Spec == Init /\ [][Next]_vars

-----------------------------------------------------------------------------
(* Properties *)

\* Every value fits the 32 bits of VHDL's integer, in fact 21 of them.
Int21 == {x \in Int : -x <= 1024 * 1024 /\ x < 1024 * 1024}
TypeOK == /\ \A n \in Nets : /\ rgb[n] \in RGB
                             /\ \A i \in 1 .. 3 : hidden[n][i] \in Int21
                             /\ output[n] \in Int21 /\ result[n] \in BOOLEAN
          /\ Len(past) <= 4

\* A result is about one pixel, the one of four clocks ago, whatever pixels
\* the registers before it hold.
ResultOfOnePixel ==
  Len(past) = 4 =>
    \A n \in Nets : result[n] = Fires(n, Output(n, Hidden(n, past[4])))

\* No pixel is both green and red.
NeverBoth == ~(result["green"] /\ result["red"])
=============================================================================
