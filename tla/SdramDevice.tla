---------------------------- MODULE SdramDevice -----------------------------
(***************************************************************************)
(* The SDRAM chips on the other side of the pins: external to the source,  *)
(* modelled as far as Sdram_Control.v depends on them.  A bank has at most *)
(* one open row; READ and WRITE start a full-page burst that a precharge   *)
(* ends; read data appear on the bus CAS-latency clocks after their READ.  *)
(*                                                                         *)
(* camouse.v clocks the chips with DRAM_CLK, the controller's clock moved  *)
(* back a quarter period, so at each edge the chips take the pin values    *)
(* the controller's registers hold before its own edge.                    *)
(***************************************************************************)
EXTENDS Integers, Sequences

CONSTANTS CasLatency,
          DevPage,          \* columns of a row
          Banks,            \* a set of bank numbers
          tRCD, tRP, tRFC,  \* clocks ACT to access, PRE to ACT, REF to ACT
          PowerUpOpen       \* the sets of banks that may power up open

ASSUME DeviceAssumption == /\ CasLatency \in 2 .. 3
                           /\ DevPage \in Nat \ {0}
                           /\ Banks \subseteq Nat /\ 0 \in Banks
                           /\ {tRCD, tRP, tRFC} \subseteq 1 .. 20
                           /\ PowerUpOpen \subseteq SUBSET Banks

VARIABLES openRow,   \* the open row of each bank, or Closed
          age,       \* clocks since the last ACT, PRE and REF, saturating
          burst,     \* the burst in progress
          dout       \* column on its way to the bus, for each clock of latency

deviceVars == <<openRow, age, burst, dout>>

Closed == -1
HiZ == -1            \* no column: the chips do not drive the bus
NoBurst == [kind |-> "none", col |-> 0]
Old == 20

DeviceTypeOK ==
  /\ openRow \in [Banks -> Nat \cup {Closed}]
  /\ age \in [{"ACT", "PRE", "REF"} -> 0 .. Old]
  /\ burst \in [kind : {"none", "READ", "WRITE"}, col : 0 .. DevPage - 1]
  /\ dout \in [1 .. CasLatency -> -1 .. DevPage - 1]

DeviceInit ==
  /\ \E O \in PowerUpOpen : openRow = [b \in Banks |-> IF b \in O THEN 0 ELSE Closed]
  /\ age = [c \in {"ACT", "PRE", "REF"} |-> Old]
  /\ burst = NoBurst
  /\ dout = [i \in 1 .. CasLatency |-> HiZ]

AllClosed == \A b \in Banks : openRow[b] = Closed

\* The commands the chips accept in their present state.
Legal(pin) ==
  CASE pin.cmd = "ACT"  -> /\ openRow[pin.bank] = Closed
                           /\ age["PRE"] >= tRP /\ age["REF"] >= tRFC
    [] pin.cmd \in {"READ", "WRITE"}
                        -> openRow[pin.bank] # Closed /\ age["ACT"] >= tRCD
    [] pin.cmd \in {"REF", "MRS"}
                        -> /\ AllClosed
                           /\ age["PRE"] >= tRP /\ age["REF"] >= tRFC
    [] OTHER -> TRUE

\* The column a clock edge with these pins accesses, if it accesses one.
BurstAt(pin) ==
  CASE pin.cmd \in {"READ", "WRITE"} -> [kind |-> pin.cmd, col |-> pin.a]
    [] pin.cmd \in {"PRE", "BST"}    -> NoBurst
    [] OTHER                         -> burst

WritesColumn(pin, mask) == BurstAt(pin).kind = "WRITE" /\ ~mask

\* DQM reaches the outputs two clocks later, one stage before the end.
DeviceClock(pin, mask) ==
  LET now == BurstAt(pin)
  IN  /\ openRow' = CASE pin.cmd = "ACT" -> [openRow EXCEPT ![pin.bank] = pin.a]
                      [] pin.cmd = "PRE" -> [openRow EXCEPT ![pin.bank] = Closed]
                      [] OTHER -> openRow
      /\ age' = [c \in DOMAIN age |-> IF c = pin.cmd THEN 1
                                      ELSE IF age[c] < Old THEN age[c] + 1
                                      ELSE Old]
      /\ burst' = IF now.kind = "none" THEN NoBurst
                  ELSE [now EXCEPT !.col = (@ + 1) % DevPage]
      /\ dout' = [i \in 1 .. CasLatency |->
                    IF i = CasLatency
                    THEN IF now.kind = "READ" THEN now.col ELSE HiZ
                    ELSE IF i = CasLatency - 1 /\ mask THEN HiZ
                    ELSE dout[i + 1]]

DrivesBus == dout[1] # HiZ
=============================================================================
