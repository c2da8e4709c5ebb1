---------------------------- MODULE SdramCommand ----------------------------
(***************************************************************************)
(* V_Sdram_Control/command.v: arbitration between refresh, host and        *)
(* power-up commands, the delay that keeps them apart, and the generation  *)
(* of the SDRAM command pins.  Parameterised for page mode (SC_PM = 1), as *)
(* Sdram_Params.h sets it.                                                 *)
(*                                                                         *)
(* The two shift registers filled with ones (command_delay, rp_shift) are  *)
(* represented by the number of ones left: their low bit is 1 iff that     *)
(* number is positive.  The three command pins are represented by the      *)
(* command they encode, with the bank and address presented with it.       *)
(***************************************************************************)
EXTENDS Integers

CONSTANTS SC_RCD,     \* clocks from ACTIVATE to READ/WRITE (Sdram_Params.h)
          PAGE,       \* columns of a row, 2^COLSIZE
          BANKWORDS   \* words of a bank, 2^BANKSTART

ASSUME GeometryAssumption == /\ SC_RCD \in 2 .. 3
                             /\ PAGE \in Nat \ {0}
                             /\ BANKWORDS \in Nat \ {0}

VARIABLES do_reada, do_writea, do_refresh, do_precharge, do_load_mode,
          do_initial,
          command_done, command_delay,   \* a command is settling; ones left
          rw_flag,                       \* the last command was a READA
          rp_shift, rp_done,             \* precharge time still running
          ex_read, ex_write,             \* a page burst is open
          oe4, OE,                       \* write data output enable
          rw_shift, do_rw,               \* RCD timer
          CM_ACK, REF_ACK,
          ipin                           \* ISA, IBA, IRAS_N, ICAS_N, IWE_N

issueVars == <<do_reada, do_writea, do_refresh, do_precharge, do_load_mode,
               do_initial, command_done, command_delay, rw_flag, rp_shift,
               rp_done, ex_read, ex_write>>
cmdVars == <<issueVars, oe4, OE, rw_shift, do_rw, CM_ACK, REF_ACK>>

Commands == {"NOP", "ACT", "READ", "WRITE", "PRE", "REF", "MRS", "BST"}
Pin(c, b, a) == [cmd |-> c, bank |-> b, a |-> a]

CmdTypeOK ==
  /\ \A b \in {do_reada, do_writea, do_refresh, do_precharge, do_load_mode,
               do_initial, command_done, rw_flag, rp_done, ex_read, ex_write,
               oe4, OE, do_rw, CM_ACK, REF_ACK} : b \in BOOLEAN
  /\ command_delay \in 0 .. 8 /\ rp_shift \in 0 .. 4 /\ rw_shift \in 0 .. 2
  /\ ipin \in [cmd : Commands, bank : Nat, a : Nat]

CmdInit ==
  /\ do_reada = FALSE /\ do_writea = FALSE /\ do_refresh = FALSE
  /\ do_precharge = FALSE /\ do_load_mode = FALSE /\ do_initial = FALSE
  /\ command_done = FALSE /\ command_delay = 0 /\ rw_flag = FALSE
  /\ rp_shift = 0 /\ rp_done = FALSE /\ ex_read = FALSE /\ ex_write = FALSE
  /\ oe4 = FALSE /\ OE = FALSE /\ rw_shift = 0 /\ do_rw = FALSE
  /\ CM_ACK = FALSE /\ REF_ACK = FALSE
  /\ ipin = Pin("NOP", 0, 0)

\* What reset and the power-up NOP phase both do to the issue registers.
ClearIssue(initial) ==
  /\ do_reada' = FALSE /\ do_writea' = FALSE /\ do_refresh' = FALSE
  /\ do_precharge' = FALSE /\ do_load_mode' = FALSE /\ do_initial' = initial
  /\ command_done' = FALSE /\ command_delay' = 0 /\ rw_flag' = FALSE
  /\ rp_shift' = 0 /\ rp_done' = FALSE /\ ex_read' = FALSE /\ ex_write' = FALSE

\* The asynchronous resets.  oe4 is not reset, and the pins are clocked.
CmdReset ==
  /\ ClearIssue(FALSE)
  /\ OE' = FALSE /\ rw_shift' = 0 /\ do_rw' = FALSE
  /\ CM_ACK' = FALSE /\ REF_ACK' = FALSE
  /\ UNCHANGED oe4

Issuing == do_refresh \/ do_reada \/ do_writea \/ do_precharge \/ do_load_mode

\* Mutant of RefreshFree: a refresh does not wait for an open page burst.
RefreshFree_Anytime ==
  ~command_done /\ ~do_refresh /\ ~do_reada /\ ~do_writea

RefreshFree == /\ ~command_done /\ ~do_refresh /\ ~rp_done
               /\ ~do_reada /\ ~do_writea

\* Mutant of HostFree: host accesses do not give way to a refresh request.
HostFree_First(refReq) == ~command_done /\ ~rp_done

HostFree(refReq) == ~command_done /\ ~rp_done /\ ~refReq

\* One decoded request becomes one do_* pulse, if nothing is settling.
Requests(rd, wr, ref, pre, mode, refReq) ==
  /\ do_refresh' = ((refReq \/ ref) /\ RefreshFree)
  /\ do_reada'  = (rd /\ HostFree(refReq) /\ ~do_reada)
  /\ do_writea' = (wr /\ HostFree(refReq) /\ ~do_writea)
  /\ do_precharge' = (pre /\ ~command_done /\ ~do_precharge)
  /\ do_load_mode' = (mode /\ ~command_done /\ ~do_load_mode)

\* command_delay keeps command_done up for the settling time of a command.
CommandDelay ==
  IF Issuing
  THEN command_delay' = 8 /\ command_done' = TRUE /\ rw_flag' = do_reada
  ELSE /\ command_done' = (command_delay > 0)
       /\ command_delay' = IF command_delay > 0 THEN command_delay - 1 ELSE 0
       /\ UNCHANGED rw_flag

\* The last clock of the settling time.
Settled == command_delay = 0 /\ command_done

\* PM_STOP closes the open page burst, but is lost if it comes at Settled.
ClosesBurst(pmStop) == ~Settled /\ (ex_read \/ ex_write) /\ pmStop

\* The precharge time runs from Settled; an open page burst freezes it until
\* PM_STOP.
PrechargeTimer(pmStop) ==
  LET runs == (~ex_read /\ ~ex_write) \/ pmStop
  IN  /\ rp_shift' = IF Settled THEN 4
                     ELSE IF runs /\ rp_shift > 0 THEN rp_shift - 1
                     ELSE rp_shift
      /\ rp_done' = (Settled \/ IF runs THEN rp_shift > 0 ELSE rp_done)
      /\ ex_read'  = ((ex_read  \/ do_reada')  /\ ~ClosesBurst(pmStop))
      /\ ex_write' = ((ex_write \/ do_writea') /\ ~ClosesBurst(pmStop))

IssueCommand(rd, wr, ref, pre, mode, refReq, initReq, pmStop) ==
  IF initReq THEN ClearIssue(TRUE)
  ELSE /\ do_initial' = FALSE
       /\ Requests(rd, wr, ref, pre, mode, refReq)
       /\ CommandDelay /\ PrechargeTimer(pmStop)

\* Mutant of OutputStops: the end of a page burst does not turn it off.
OutputStops_NotAtEnd(pmStop) == do_precharge \/ do_refresh \/ do_initial

OutputStops(pmStop) ==
  do_precharge \/ do_reada \/ do_refresh \/ do_initial \/ pmStop

OutputEnable(pmStop) ==
  oe4' = (do_writea \/ (oe4 /\ ~OutputStops(pmStop))) /\ OE' = oe4

RcdTimer ==
  IF do_reada \/ do_writea
  THEN rw_shift' = SC_RCD - 1 /\ UNCHANGED do_rw
  ELSE rw_shift' = rw_shift \div 2 /\ do_rw' = (rw_shift % 2 = 1)

\* Mutant of Acknowledge: a timer refresh raises the host acknowledge too.
Acknowledge_Both(refReq) ==
  /\ REF_ACK' = ((do_refresh /\ refReq) \/ (Issuing /\ REF_ACK))
  /\ CM_ACK'  = Issuing

\* A timer refresh raises REF_ACK, anything else CM_ACK; neither clears the
\* other.
Acknowledge(refReq) ==
  LET timed == do_refresh /\ refReq
  IN  /\ REF_ACK' = (timed \/ (Issuing /\ REF_ACK))
      /\ CM_ACK'  = IF timed THEN CM_ACK ELSE Issuing

RowOf(addr)  == (addr % BANKWORDS) \div PAGE
ColOf(addr)  == addr % PAGE
BankOf(addr) == addr \div BANKWORDS

\* In page mode SA[10] is 0 with a precharge: it closes the one bank BA
\* names, and BA is 0 for a precharge and a mode set.
DrivePins(addr) ==
  ipin' = CASE do_refresh -> Pin("REF", BankOf(addr), 0)
            [] ~do_refresh /\ do_precharge /\ (oe4 \/ rw_flag)
                 -> Pin("BST", 0, 0)
            [] ~do_refresh /\ do_precharge /\ ~(oe4 \/ rw_flag)
                 -> Pin("PRE", 0, 0)
            [] ~do_refresh /\ ~do_precharge /\ do_load_mode
                 -> Pin("MRS", 0, 0)
            [] ~do_refresh /\ ~do_precharge /\ ~do_load_mode
               /\ (do_reada \/ do_writea)
                 -> Pin("ACT", BankOf(addr), RowOf(addr))
            [] ~Issuing /\ do_rw
                 -> Pin(IF rw_flag THEN "READ" ELSE "WRITE",
                        BankOf(addr), ColOf(addr))
            [] OTHER -> Pin("NOP", BankOf(addr), 0)

CmdClock(addr, rd, wr, ref, pre, mode, refReq, initReq, pmStop) ==
  /\ IssueCommand(rd, wr, ref, pre, mode, refReq, initReq, pmStop)
  /\ OutputEnable(pmStop) /\ RcdTimer /\ Acknowledge(refReq)
  /\ DrivePins(addr)

\* The pin block while reset is held: deselected.
CmdHeld == ipin' = Pin("NOP", 0, 0) /\ UNCHANGED cmdVars
=============================================================================
