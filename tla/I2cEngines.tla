----------------------------- MODULE I2cEngines -----------------------------
(***************************************************************************)
(* The three byte engines of fpga/V: I2C_WRITE_WDATA sends an address and  *)
(* ByteNum bytes, I2C_WRITE_PTR an address and a pointer, trying again     *)
(* until the address is acknowledged, I2C_READ_DATA an address and then    *)
(* reads one byte.  An engine is a record of its registers; an operator    *)
(* gives the record after one clock of PT_CK from the lines it sees: go,   *)
(* the frame it is offered (a sequence of bytes, the slave's address       *)
(* first) and SDAI.  A byte has Bits bits, eight in the code.              *)
(*                                                                         *)
(* Left out: ACK_OK, which goes nowhere, and the states 32 to 36 and 40,   *)
(* which no state leads to.                                                *)
(***************************************************************************)
EXTENDS Integers, Sequences

CONSTANT Bits

\* With what the proofs use of the powers of two.
ASSUME BitsAssumption ==
    /\ Bits \in Nat \ {0} /\ 2 ^ 0 = 1
    /\ \A i \in 0 .. Bits : 2 ^ i \in Nat \ {0} /\ 2 ^ (i + 1) = 2 * 2 ^ i

Byte == 0 .. 2 ^ Bits - 1

\* A shift register {byte, 1'b1}: the trailing one leaves SDA to the slave
\* for the acknowledgement.
Shifted(b) == 2 * b + 1

\* The registers after power-up.
Off == [st |-> 0, cnt |-> 0, byte |-> 0, a |-> 0, dely |-> 0, data |-> 0,
        end |-> TRUE, sda |-> 1, scl |-> 1]

Lines(e, sda, scl) == [e EXCEPT !.sda = sda, !.scl = scl]

Goto(e, st) == [e EXCEPT !.st = st]

Busy(e) == ~e.end

\* START of a transfer to the slave's address.
Start(e, st, address) == Goto([Lines(e, 0, 1) EXCEPT !.a = Shifted(address)], st)

\* The three clocks of a bit, from state st on: SDA low, the bit, SCL high.
BitLow(e) == Goto(Lines(e, 0, 0), e.st + 1)
BitOut(e) == Goto([e EXCEPT !.sda = e.a \div 2 ^ Bits, !.a = (2 * e.a) % 2 ^ (Bits + 1)], e.st + 1)
BitHigh(e) == Goto([e EXCEPT !.scl = 1, !.cnt = e.cnt + 1], e.st + 1)

\* STOP, one clock per line, and back to waiting in state idle.
StopLines(e, first) ==
    Goto(CASE e.st = first -> Lines(e, 0, 0)
           [] e.st = first + 1 -> Lines(e, 0, 1)
           [] e.st = first + 2 -> Lines(e, 1, 1), e.st + 1)

\* Mutant: straight on to the next transfer.
Finished_Bug(e, idle) ==
    [Off EXCEPT !.st = IF idle = 0 THEN 0 ELSE idle + 1, !.a = e.a, !.dely = e.dely, !.data = e.data]

Finished(e, idle) == [Off EXCEPT !.st = idle, !.a = e.a, !.dely = e.dely, !.data = e.data]

FrameDone(e) == e.cnt = Bits + 1

\* The acknowledge bit is over: STOP after the last byte, the next byte
\* otherwise.
NextByte(e, frame) ==
    IF e.byte + 1 = Len(frame)
    THEN Goto(e, 6)
    ELSE Goto([e EXCEPT !.cnt = 0, !.byte = @ + 1, !.a = Shifted(frame[e.byte + 2])], 2)

ByteEnd(e, frame) ==
    LET low == [e EXCEPT !.scl = 0]
    IN  IF FrameDone(e) THEN NextByte(low, frame) ELSE Goto(low, 2)

\* What both writing engines do in states 2 to 8.
Writing(e, frame) ==
    CASE e.st = 2 -> BitLow(e)
      [] e.st = 3 -> BitOut(e)
      [] e.st = 4 -> BitHigh(e)
      [] e.st = 5 -> ByteEnd(e, frame)
      [] e.st \in 6 .. 8 -> StopLines(e, 6)

WordClock(e, go, frame) ==
    CASE e.st = 0 -> [Finished(e, 0) EXCEPT !.st = IF go THEN 30 ELSE 0]
      [] e.st = 1 -> Start(e, 2, frame[1])
      [] e.st \in 2 .. 8 -> Writing(e, frame)
      [] e.st = 9 -> Finished(e, 30)
      [] e.st = 30 -> IF go THEN e ELSE Goto(e, 31)
      [] e.st = 31 -> Goto([e EXCEPT !.end = FALSE], 1)

\* The pointer engine sends the address first and waits in state 16 to see
\* whether the slave pulls SDA low; if not, it stops and starts again.
AddressBitEnd(e) ==
    IF FrameDone(e) THEN Goto([e EXCEPT !.dely = 0], 16) ELSE Goto([e EXCEPT !.scl = 0], 12)

AddressAnswer(e, sdai) ==
    LET later == [e EXCEPT !.dely = @ + 1]
    IN  IF e.dely <= 1 THEN later
        ELSE IF sdai = 1 THEN Goto(later, 17) ELSE Goto([later EXCEPT !.scl = 0], 5)

PointerClock(e, go, frame, sdai) ==
    CASE e.st = 0 -> [Finished(e, 0) EXCEPT !.st = IF go THEN 10 ELSE 0]
      [] e.st \in 2 .. 8 -> Writing(e, frame)
      [] e.st = 9 -> Finished(e, 10)
      [] e.st = 10 -> IF go THEN e ELSE Goto(e, 11)
      [] e.st = 11 -> Start([e EXCEPT !.end = FALSE, !.cnt = 0], 12, frame[1])
      [] e.st = 12 -> BitLow(e)
      [] e.st = 13 -> BitOut(e)
      [] e.st = 14 -> BitHigh(e)
      [] e.st = 15 -> AddressBitEnd(e)
      [] e.st = 16 -> AddressAnswer(e, sdai)
      [] e.st \in 17 .. 18 -> StopLines(e, 17)
      [] e.st = 19 -> [StopLines(e, 17) EXCEPT !.dely = 0]
      [] e.st = 20 -> [e EXCEPT !.dely = @ + 1, !.st = IF e.dely > 2 THEN 11 ELSE 20]

\* The reading engine shifts SDAI in, DATA16 holding the last byte here, and
\* leaves the acknowledge bit high: one byte is all it asks for.
ReadBit(e, sdai) ==
    Goto([e EXCEPT !.dely = 0, !.scl = 1, !.cnt = @ + 1,
                   !.data = IF e.cnt # Bits THEN (2 * @ + sdai) % 2 ^ Bits ELSE @], 8)

ReadBitEnd(e) ==
    LET low == [e EXCEPT !.dely = @ + 1, !.scl = 0]
    IN  IF e.dely # 2 THEN low
        ELSE IF e.cnt = Bits THEN Goto([low EXCEPT !.sda = 1], 7)
        ELSE IF FrameDone(e) THEN Goto([low EXCEPT !.byte = @ + 1], 9)
        ELSE Goto(low, 7)

ReadClock(e, go, address, sdai) ==
    CASE e.st = 0 -> [Off EXCEPT !.st = IF go THEN 30 ELSE 0, !.a = e.a, !.dely = e.dely]
      [] e.st = 1 -> Start(e, 2, address + 1)
      [] e.st = 2 -> BitLow(e)
      [] e.st = 3 -> BitOut(e)
      [] e.st = 4 -> BitHigh(e)
      [] e.st = 5 -> Goto([e EXCEPT !.scl = 0], IF FrameDone(e) THEN 6 ELSE 2)
      [] e.st = 6 -> Goto([Lines(e, 1, 0) EXCEPT !.cnt = 0], 7)
      [] e.st = 7 -> ReadBit(e, sdai)
      [] e.st = 8 -> ReadBitEnd(e)
      [] e.st = 9 -> Goto(e, IF e.byte > 0 THEN 10 ELSE 6)
      [] e.st \in 10 .. 12 -> StopLines(e, 10)
      [] e.st = 13 -> Finished(e, 30)
      [] e.st = 30 -> IF go THEN e ELSE Goto(e, 31)
      [] e.st = 31 -> Goto([e EXCEPT !.end = FALSE], 1)
=============================================================================
