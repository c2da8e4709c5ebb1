------------------------------ MODULE MCJtagUart ------------------------------
(* Model-checking instances of JtagUart: the constants are the cfgs'. *)
EXTENDS JtagUart

Six == 0 .. 5
==============================================================================
