---------------------------- MODULE I2cHandshake ----------------------------
(***************************************************************************)
(* What a byte engine promises to its sequencer: it does nothing before it *)
(* has seen GO high once, starts a transfer only after it has seen GO low  *)
(* while ready, and shows END_OK until it is at work.  A transfer takes as *)
(* long as it takes, but outlasts the few clocks for which GO is low.      *)
(* The three engines of I2cEngines implement this (checked with            *)
(* CameraConfig); LensDriver and BridgeConfig are built on it.             *)
(***************************************************************************)
VARIABLES phase, go

Phases == {"off", "ready", "armed", "busy"}

\* The phases an engine may be in one clock later.
After(p, g) ==
    CASE p = "off" -> {IF g THEN "ready" ELSE "off"}
      [] p = "ready" -> {IF g THEN "ready" ELSE "armed"}
      [] p = "armed" -> {"busy"}
      [] p = "busy" -> {"busy"} \cup {q \in {"ready"} : g}

EndOk(p) == p # "busy"

Spec == phase = "off" /\ [][phase' \in After(phase, go)]_phase
=============================================================================
