---------------------------- MODULE MCSdramSystem ---------------------------
(* Model-checking instance of SdramSystem. *)
EXTENDS SdramSystem

\* All banks are idle at power up.
IdlePowerUp == {{}}
=============================================================================
