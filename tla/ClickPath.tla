------------------------------ MODULE ClickPath ------------------------------
(***************************************************************************)
(* The way of a verdict from green_nn to the polling program:              *)
(* nn_processing.vhd, sram_controller.vhd, the Avalon slave display_sram_0 *)
(* and hello_world.c.                                                      *)
(*                                                                         *)
(* The chip in between is never selected (chip_select is 1, and write      *)
(* enable has the wrong sense): what the program reads is what the         *)
(* controller itself still drives on the bus.  The process in              *)
(* nn_processing depends on its own output: enable is set because it is    *)
(* clear and cleared because it is set, a loop of gates that never rests.  *)
(* The controller's clock finds it either way.                             *)
(***************************************************************************)
EXTENDS Naturals

CONSTANT MaxResets   \* bound: how often KEY[0] is pressed

VARIABLES green,    \* GREEN_NN
          latch,    \* SRAM_WRITE_DATA: all ones or all zeros
          data,     \* what sram_controller drives on SRAM_DQ, for ever
          writeEnable, \* write_enable
          sgnl,     \* data_sgnl, the processor's side of the bus
          read, isRead, valid, readdata,  \* the Avalon slave's registers
          polling,  \* the program waits for readdatavalid
          click,    \* the value it has is over 40000
          resets

busVars == <<data, writeEnable, sgnl>>
readVars == <<read, isRead, valid, readdata, polling, click>>
vars == <<green, latch, busVars, readVars, resets>>

\* Nothing on the way has a reset value: the registers power up as they like.
Init ==
    /\ green \in BOOLEAN /\ latch \in BOOLEAN
    /\ data \in BOOLEAN /\ writeEnable = FALSE /\ sgnl = FALSE
    /\ read = FALSE /\ isRead = FALSE /\ valid = FALSE /\ readdata \in BOOLEAN
    /\ polling = FALSE /\ click = FALSE
    /\ resets = 0

\* The net has judged the next pixel.
Verdict ==
    /\ green' \in BOOLEAN
    /\ UNCHANGED <<latch, busVars, readVars, resets>>

\* The loop goes round: the data latches are open while enable is 0.
Loop ==
    /\ latch' = green
    /\ UNCHANGED <<green, busVars, readVars, resets>>

\* The Avalon slave's registers follow at every clock, from the bus as it was.
SlaveClock ==
    /\ readdata' = sgnl
    /\ valid' = isRead
    /\ isRead' = read
    /\ IF valid /\ polling
       THEN click' = readdata /\ polling' = FALSE
       ELSE UNCHANGED <<click, polling>>
    /\ read' = FALSE

\* The branches of sram_controller at a clock: enable is sampled as 0 or as 1.
EndWrite ==
    /\ writeEnable
    /\ writeEnable' = FALSE
    /\ UNCHANGED <<data, sgnl>>

\* Mutant: the bus is released for the chip to answer, and floats.
NiosRead_Bug ==
    /\ ~writeEnable
    /\ sgnl' \in BOOLEAN
    /\ UNCHANGED <<data, writeEnable>>

NiosRead ==
    /\ ~writeEnable
    /\ sgnl' = data
    /\ UNCHANGED <<data, writeEnable>>

SchematicWrite ==
    /\ ~writeEnable
    /\ data' = latch
    /\ writeEnable' = TRUE
    /\ UNCHANGED sgnl

ClockWith(Branch) ==
    /\ Branch /\ SlaveClock
    /\ UNCHANGED <<green, latch, resets>>

\* The program's loop: a load from the SRAM's address, a look, a sleep.
Poll ==
    /\ ~polling
    /\ polling' = TRUE /\ read' = TRUE
    /\ UNCHANGED <<green, latch, busVars, isRead, valid, readdata, click, resets>>

\* KEY[0] restarts the processor, long enough for the slave to settle; the
\* controller of the bus has no reset.
Restart ==
    /\ resets < MaxResets
    /\ resets' = resets + 1
    /\ polling' = FALSE /\ read' = FALSE /\ isRead' = FALSE /\ valid' = FALSE
    /\ UNCHANGED <<green, latch, busVars, readdata, click>>

Next ==
    \/ Verdict \/ Loop \/ Poll \/ Restart
    \/ ClockWith(EndWrite) \/ ClockWith(NiosRead) \/ ClockWith(SchematicWrite)

\* The loop never rests and has nothing to do with the clock: looked at again
\* and again, it is found both ways.
Fairness ==
    /\ WF_vars(Loop) /\ WF_vars(Poll)
    /\ WF_vars(ClockWith(EndWrite))
    /\ SF_vars(ClockWith(NiosRead)) /\ SF_vars(ClockWith(SchematicWrite))

(***************************************************************************)
(* Properties.                                                             *)
(***************************************************************************)
\* A verdict that stands reaches the program, and takes the one before it
\* out of every latch and register on the way: a green picture is a click in
\* the end (hello_world.c:34), any other one is none, and neither flickers.
ClickFollowsVerdict ==
    /\ <>[]green => <>[]click
    /\ <>[]~green => <>[]~click

\* How far a verdict has come it stays while it stands: no open latch, no
\* write that ends, no read begun before it and no press of KEY[0] puts an
\* older verdict back into a register that it has passed
\* (sram_controller.vhd:42-63).
Way == <<green, latch, data, sgnl, readdata, click>>
Reaches(k) == \A i \in 1 .. k : Way[i] = green
NeverTurnsBack == [][green' = green => \A k \in 1 .. 6 : Reaches(k) => Reaches(k)']_vars
=============================================================================
