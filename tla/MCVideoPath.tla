---------------------------- MODULE MCVideoPath -----------------------------
(* Model-checking instance of VideoPath: a small screen. *)
EXTENDS VideoPath

\* The addresses a line of this screen reaches.
ScreenColumns == 0 .. H_SYNC_ACT
=============================================================================
