--------------------------- MODULE JtagUartDevice ---------------------------
(***************************************************************************)
(* The JTAG UART as its driver and its host see it                         *)
(* (fpga/submodules/display_jtag_uart_0.v): two FIFOs, two interrupt       *)
(* enables, the pause flag that stands in for "the host has sent what it   *)
(* had", and the activity flag.                                            *)
(*                                                                         *)
(* The flags fifo_AE and fifo_AF are registers a clock behind the FIFOs;   *)
(* the processor needs several clocks between two accesses, so here they   *)
(* are the FIFOs' levels of the moment.                                    *)
(***************************************************************************)
EXTENDS Integers, Sequences

CONSTANTS
  Fifo,     \* words of each FIFO (64)
  Almost,   \* level at which a FIFO is almost empty or almost full (8)
  Byte      \* what a byte can be

ASSUME DeviceAssumption ==
  /\ Fifo \in Nat /\ Almost \in Nat /\ Almost < Fifo
  /\ Byte # {}

VARIABLES
  rfifo,     \* host to processor
  wfifo,     \* processor to host
  pauseIrq,  \* the host has paused with bytes in rfifo
  ac,        \* the host has been active since the flag was cleared
  ien        \* enabled interrupts, a subset of {"RE", "WE"}

deviceVars == <<rfifo, wfifo, pauseIrq, ac, ien>>

Interrupts == {"RE", "WE"}

DeviceTypeOK ==
  /\ rfifo \in Seq(Byte) /\ Len(rfifo) <= Fifo
  /\ wfifo \in Seq(Byte) /\ Len(wfifo) <= Fifo
  /\ pauseIrq \in BOOLEAN /\ ac \in BOOLEAN
  /\ ien \in SUBSET Interrupts

DeviceInit ==
  /\ rfifo = <<>> /\ wfifo = <<>>
  /\ pauseIrq = FALSE /\ ac = FALSE
  /\ ien = {}

\* The interrupt bits and the free space of the control register.
RI == "RE" \in ien /\ (pauseIrq \/ Fifo - Len(rfifo) <= Almost)
WI == "WE" \in ien /\ Len(wfifo) <= Almost
WSpace == Fifo - Len(wfifo)

------------------------------------------------------------------------------
(* Accesses of the processor. *)

\* A read of the data register takes the byte at the front, if there is one,
\* and ends the pause.  RVALID is latched here, RAVAIL a clock later.
TakeByte ==
  /\ rfifo' = IF rfifo = <<>> THEN rfifo ELSE Tail(rfifo)
  /\ pauseIrq' = FALSE

\* A write of the data register; with the FIFO full the byte is dropped.
GiveByte(b) ==
  wfifo' = IF Len(wfifo) < Fifo THEN Append(wfifo, b) ELSE wfifo

------------------------------------------------------------------------------
(* The host, behind the JTAG interface (alt_jtag_atlantic). *)

HostSend(b) ==
  /\ Len(rfifo) < Fifo
  /\ rfifo' = Append(rfifo, b)
  /\ ac' = TRUE
  /\ UNCHANGED <<wfifo, pauseIrq, ien>>

HostPause ==
  /\ pauseIrq' = (pauseIrq \/ rfifo # <<>>)
  /\ ac' = TRUE
  /\ UNCHANGED <<rfifo, wfifo, ien>>

HostTake ==
  /\ wfifo # <<>>
  /\ wfifo' = Tail(wfifo)
  /\ UNCHANGED <<rfifo, pauseIrq, ac, ien>>
==============================================================================
