------------------------------ MODULE MCAlarms ------------------------------
(* An instance of Alarms whose callbacks stop any alarm. *)
EXTENDS Alarms

AnyAlarm(a) == Alarm
=============================================================================
