---------------------------- MODULE MCAutoFocus -----------------------------
(* Model-checking instance of AutoFocus: a lens of 32 steps. *)
EXTENDS AutoFocus

Steps == 0 .. UP_SIZE - 1

\* Scenes with one sharpest step, and nothing to see far from it: a place where
\* the fine sweep never comes to, and where it would begin below step 0, which
\* sends the lens to the other end, are among those of a covered lens.
Peaks == {[s \in Steps |-> IF Distance(s, p) < SUM_MAX THEN SUM_MAX - Distance(s, p) ELSE 0] :
            p \in Blur + 1 .. STEP_LAST - SCAL - Blur}
\* A frame as sharp as any.
Noise == {[s \in Steps |-> n] : n \in 0 .. 3}
StillOrNoise == Peaks \cup Noise
Nothing == {}
=============================================================================
