---------------------------- MODULE FrameBuffer -----------------------------
(***************************************************************************)
(* What the SDRAM frame store promises the two video streams, without its  *)
(* clocks, commands and chips: a circular frame of Frame words that one    *)
(* writer and one reader go through burst after burst, each at its own     *)
(* pace, one access at a time.  An access that ends moves its own side's   *)
(* position by exactly one burst and never the other's; a cleared store    *)
(* starts again at the top of the frame on both sides.                     *)
(***************************************************************************)
EXTENDS Integers

CONSTANTS Burst, Frame

VARIABLES wpos, rpos,   \* where the next burst of each side goes
          access        \* the access in progress

bufVars == <<wpos, rpos, access>>

\* The burst after p, around the frame.
After(p) == IF p + Burst = Frame THEN 0 ELSE p + Burst

FBInit == wpos = 0 /\ rpos = 0 /\ access = "none"

Begin(side) == /\ access = "none" /\ access' = side
               /\ UNCHANGED <<wpos, rpos>>

EndWrite == /\ access = "write" /\ access' = "none"
            /\ wpos' = After(wpos) /\ UNCHANGED rpos

EndRead == /\ access = "read" /\ access' = "none"
           /\ rpos' = After(rpos) /\ UNCHANGED wpos

Clear == wpos' = 0 /\ rpos' = 0 /\ access' = "none"

FBNext == Begin("write") \/ Begin("read") \/ EndWrite \/ EndRead \/ Clear

FBSpec == FBInit /\ [][FBNext]_bufVars
=============================================================================
