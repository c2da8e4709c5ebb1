--------------------------- MODULE CameraProofs ----------------------------
(***************************************************************************)
(* The camera's sequencer with its engines and its side of the bus, for    *)
(* every table, width of a byte and length of a reset.                     *)
(*                                                                         *)
(* Nothing tells the sequencer that an engine is busy but END_OK, and a    *)
(* reset clears the one and not the other.  CamInv therefore says in which *)
(* states of the sequencer each engine may be at work (OneAtWork), how far *)
(* the one is that GO has just started (GoLow), and while RESET_N is low   *)
(* how many clocks an engine that it has overtaken still runs (WordLeft,   *)
(* ReadLeft), which with the clocks of the reset never exceed MinHold.     *)
(* CamSane is about the slave alone and holds for any edges of the wires.  *)
(*                                                                         *)
(* CamBus follows the bits: CamLines says what each engine shows on the    *)
(* wires, CamHears what the camera has made of it, CamTaken how much of    *)
(* the table it has taken.  The lemmas in between are about one clock of   *)
(* one engine and one slave, in the order address, bytes, acknowledges.    *)
(***************************************************************************)
EXTENDS CameraConfig, FiniteSetTheorems, TLAPS


-----------------------------------------------------------------------------
(* The camera's configuration.                                              *)

\* The shift register and the other registers of an engine.
ShiftRange == 0 .. 2 ^ (Bits + 1) - 1

Registers ==
    [st : 0 .. 31, cnt : 0 .. Bits + 1, byte : 0 .. 3, a : ShiftRange, dely : Nat,
     data : Byte, end : BOOLEAN, sda : {0, 1}, scl : {0, 1}]

\* Where the three engines may be, and when END_OK shows.
WordShape(e) ==
    /\ e \in Registers /\ e.st \in (0 .. 9) \cup {30, 31}
    /\ e.end <=> e.st \in {0, 30, 31}
    /\ e.st \in {0, 1, 30, 31} => e.cnt = 0 /\ e.byte = 0
    /\ e.st \in 2 .. 4 => e.cnt <= Bits
    /\ e.st = 5 => e.cnt > 0

PointerShape(e) ==
    /\ e \in Registers /\ e.st \in {0} \cup (2 .. 20)
    /\ e.end => e.st \in {0, 10, 11}
    /\ e.st \in {0, 10} => e.end
    /\ e.st \in {0, 10, 11} \cup (12 .. 20) => e.byte = 0
    /\ e.st \in {2, 3, 4, 12, 13, 14} => e.cnt <= Bits
    /\ e.st \in {2, 3, 4, 5} => e.byte < 3

ReadShape(e) ==
    /\ e \in Registers /\ e.st \in (0 .. 13) \cup {30, 31}
    /\ e.end <=> e.st \in {0, 30, 31}
    /\ e.st \in {0, 1, 30, 31} => e.cnt = 0
    /\ e.byte = IF e.st \in 9 .. 13 THEN 1 ELSE 0
    /\ e.st \in {2, 3, 4, 7} => e.cnt <= Bits
    /\ e.st \in {5, 8} => e.cnt > 0
    /\ e.st = 8 => e.dely \in 0 .. 2

\* The clocks until an engine that is at work waits again: a word takes an
\* address and three bytes, a read an address and a byte.
BytesLeft(byte) ==
    IF byte = 0 THEN 12 * (Bits + 1) ELSE IF byte = 1 THEN 8 * (Bits + 1)
    ELSE IF byte = 2 THEN 4 * (Bits + 1) ELSE 0

WordLeft(e) ==
    CASE e.st = 30 -> 0
      [] e.st = 31 -> 16 * (Bits + 1) + 6
      [] e.st = 0 -> 1
      [] e.st = 1 -> 16 * (Bits + 1) + 5
      [] e.st \in 2 .. 4 -> ((4 * (Bits - e.cnt) + (5 - e.st)) + BytesLeft(e.byte)) + 5
      [] e.st = 5 -> (4 * ((Bits + 1) - e.cnt) + BytesLeft(e.byte)) + 5
      [] e.st \in 6 .. 9 -> 10 - e.st

ReadLeft(e) ==
    CASE e.st = 30 -> 0
      [] e.st = 31 -> 8 * Bits + 16
      [] e.st = 0 -> 1
      [] e.st = 1 -> 8 * Bits + 15
      [] e.st \in 2 .. 4 -> (4 * (Bits - e.cnt) + (5 - e.st)) + (4 * Bits + 11)
      [] e.st = 5 -> 4 * ((Bits + 1) - e.cnt) + (4 * Bits + 11)
      [] e.st = 6 -> 4 * Bits + 10
      [] e.st = 7 -> 4 * (Bits - e.cnt) + 9
      [] e.st = 8 -> (4 * ((Bits + 1) - e.cnt) + (3 - e.dely)) + 5
      [] e.st \in 9 .. 13 -> 14 - e.st

CamShapes ==
    /\ resetN \in BOOLEAN /\ hold \in 0 .. MinHold
    /\ st \in (0 .. 10) \cup {28, 30, 31, 32, 33, 34, 35, 40, 41, 42}
    /\ go \in [word : BOOLEAN, ptr : BOOLEAN, read : BOOLEAN]
    /\ dely \in Nat /\ cnt \in 0 .. CntSize - 1 /\ id1 \in Byte
    /\ frame \in Byte \X Byte \X Byte \X Byte /\ tab \in ToSet(Table)
    /\ WordShape(word) /\ PointerShape(ptr) /\ ReadShape(rd)

\* GO is low only while the sequencer holds it, and the engine follows it.
GoLow ==
    /\ ~go.word <=> st = 32
    /\ ~go.ptr <=> st = 3
    /\ ~go.read <=> st = 7
    /\ st = 32 => /\ dely \in 0 .. 3
                  /\ word.st = IF dely = 0 THEN 30 ELSE IF dely = 1 THEN 31 ELSE dely - 1
    /\ st = 3 => dely \in 0 .. 2 /\ ptr.st = 10 + dely /\ (ptr.end <=> dely < 2)
    /\ st = 7 => /\ dely \in 0 .. 2
                 /\ rd.st = IF dely = 0 THEN 30 ELSE IF dely = 1 THEN 31 ELSE 1

\* Once a clock has passed with GO high, every engine waits or works.
Armed ==
    resetN \/ hold > 0 =>
        /\ word.st # 0 /\ (word.st = 31 => ~go.word)
        /\ ptr.st # 0 /\ (ptr.st = 11 /\ ptr.end => ~go.ptr)
        /\ rd.st # 0 /\ (rd.st = 31 => ~go.read)

\* Which engine may be at work, by the state of the sequencer.
OneAtWork ==
    IF resetN
    THEN /\ st \notin {32, 33, 34} => word.st = 30
         /\ st \notin {7, 8, 9} => rd.st = 30
         /\ st > 4 => ptr.st = 10
    ELSE /\ st = 0
         /\ hold + WordLeft(word) <= MinHold
         /\ hold + ReadLeft(rd) <= MinHold

\* The read engine is offered the camera's address, which has a successor.
AddressIsCameras ==
    /\ st \in 3 .. 10 \/ (st \in {1, 2} /\ cnt # 0) => frame[1] = Camera
    /\ rd.st \in {1, 31} => frame[1] = Camera

\* WCNT counts the table's entries, and the output register is a clock behind.
TableCounts ==
    /\ wcnt \in 0 .. Len(Table)
    /\ st \in (0 .. 10) \cup {28, 30} => wcnt = 0
    /\ st \in {31, 32, 33, 34, 40, 41, 42} => wcnt < Len(Table)
    /\ st \in {31, 40, 41} => tab = Table[wcnt + 1]
    /\ st \in {40, 41} => tab[1] = DelayType
    /\ st \in {32, 33, 34} => frame = Table[wcnt + 1]

CamInv == CamShapes /\ GoLow /\ Armed /\ OneAtWork /\ AddressIsCameras /\ TableCounts

\* The specification without its fairness.
SafeSpec == Init /\ [][Next]_vars

\* The largest register, and a byte.
LEMMA Powers ==
    /\ Bits \in Nat /\ Bits > 0
    /\ \E s \in Nat : /\ s = 2 ^ Bits /\ s > 0 /\ 2 ^ (Bits + 1) = 2 * s
                      /\ Byte = 0 .. s - 1
<1>1. Bits \in Nat /\ Bits > 0 /\ Bits \in 0 .. Bits
  BY BitsAssumption
<1>2. 2 ^ Bits \in Nat \ {0} /\ 2 ^ (Bits + 1) = 2 * 2 ^ Bits
  BY <1>1, BitsAssumption
<1> QED
  BY <1>1, <1>2 DEF Byte

\* A remainder.
LEMMA Remainder == \A m \in Nat \ {0}, x \in Nat : x % m \in 0 .. m - 1
BY Z3

\* The uppermost bit.
LEMMA TopBit ==
    ASSUME NEW s \in Nat, s > 0, NEW a \in Nat, a < 2 * s
    PROVE  a \div s \in {0, 1}
<1>1. CASE a < s
  BY <1>1, Z3
<1>2. CASE a >= s
  <2>1. PICK q \in Int : q = a \div s
    BY Z3
  <2>2. s * q <= a /\ a < s * q + s
    BY <2>1, Z3
  <2>3. q <= 0 => s * q <= 0
    BY Z3
  <2>4. q >= 2 => s * q >= 2 * s
    BY Z3
  <2>5. q = 1
    BY <1>2, <2>2, <2>3, <2>4, Z3
  <2> QED
    BY <2>1, <2>5
<1> QED
  BY <1>1, <1>2

\* A shift register holds a byte and the bit that follows it.
LEMMA Shifts ==
    /\ \A b \in Byte : Shifted(b) \in ShiftRange
    /\ \A a \in ShiftRange : a \div 2 ^ Bits \in {0, 1} /\ (2 * a) % 2 ^ (Bits + 1) \in ShiftRange
    /\ \A b \in Byte, i \in {0, 1} : (2 * b + i) % 2 ^ Bits \in Byte
    /\ 0 \in Byte /\ 0 \in ShiftRange
<1>1. PICK s \in Nat : /\ s = 2 ^ Bits /\ s > 0 /\ 2 ^ (Bits + 1) = 2 * s
                       /\ Byte = 0 .. s - 1
  BY Powers
<1>2. PICK t \in Nat : t = 2 * s
  BY <1>1
<1>3. ShiftRange = 0 .. t - 1 /\ 2 ^ (Bits + 1) = t
  BY <1>1, <1>2 DEF ShiftRange
<1>4. \A b \in Byte : Shifted(b) \in ShiftRange
  BY <1>1, <1>2, <1>3 DEF Shifted
<1>5. ASSUME NEW a \in 0 .. t - 1
      PROVE  a \div s \in {0, 1}
  <2>1. a \in Nat /\ a < 2 * s
    BY <1>2
  <2> QED
    BY <1>1, <2>1, TopBit
<1>6. ASSUME NEW a \in 0 .. t - 1
      PROVE  (2 * a) % t \in 0 .. t - 1
  <2>1. PICK x \in Nat : x = 2 * a
    BY <1>2
  <2>2. t \in Nat \ {0}
    BY <1>1, <1>2
  <2> QED
    BY <2>1, <2>2, Remainder
<1>7. ASSUME NEW b \in Byte, NEW i \in {0, 1}
      PROVE  (2 * b + i) % s \in Byte
  <2>1. PICK x \in Nat : x = 2 * b + i
    BY <1>1
  <2>2. s \in Nat \ {0}
    BY <1>1
  <2>3. x % s \in 0 .. s - 1
    BY <2>2, Remainder
  <2> QED
    BY <1>1, <2>1, <2>3
<1>8. 0 \in Byte /\ 0 \in ShiftRange
  BY <1>1, <1>2, <1>3
<1>9. \A a \in ShiftRange : a \div 2 ^ Bits \in {0, 1} /\ (2 * a) % 2 ^ (Bits + 1) \in ShiftRange
  BY <1>1, <1>3, <1>5, <1>6
<1>10. \A b \in Byte, i \in {0, 1} : (2 * b + i) % 2 ^ Bits \in Byte
  BY <1>1, <1>7
<1> QED
  BY <1>4, <1>8, <1>9, <1>10

\* The types of the single registers.
LEMMA Fields ==
    ASSUME NEW e \in Registers
    PROVE  /\ e.st \in 0 .. 31 /\ e.cnt \in 0 .. Bits + 1 /\ e.byte \in 0 .. 3
           /\ e.a \in ShiftRange /\ e.dely \in Nat /\ e.data \in Byte /\ e.end \in BOOLEAN
           /\ e.sda \in {0, 1} /\ e.scl \in {0, 1}
BY DEF Registers

\* What the single steps leave in the registers.
LEMMA LineSteps ==
    ASSUME NEW e \in Registers, NEW s \in 0 .. 31, NEW x \in {0, 1}, NEW y \in {0, 1}
    PROVE  /\ Goto(Lines(e, x, y), s) \in Registers /\ Goto(Lines(e, x, y), s).st = s
           /\ Goto(Lines(e, x, y), s).cnt = e.cnt /\ Goto(Lines(e, x, y), s).byte = e.byte
           /\ (Goto(Lines(e, x, y), s).end <=> e.end) /\ Goto(Lines(e, x, y), s).dely = e.dely
BY DEF Goto, Lines, Registers

\* The same without the lines.
LEMMA GotoSteps ==
    ASSUME NEW e \in Registers, NEW s \in 0 .. 31
    PROVE  /\ Goto(e, s) \in Registers /\ Goto(e, s).st = s
           /\ Goto(e, s).cnt = e.cnt /\ Goto(e, s).byte = e.byte
           /\ (Goto(e, s).end <=> e.end) /\ Goto(e, s).dely = e.dely
BY DEF Goto, Registers

\* START.
LEMMA StartSteps ==
    ASSUME NEW e \in Registers, NEW s \in 0 .. 31, NEW b, Shifted(b) \in ShiftRange
    PROVE  /\ Start(e, s, b) \in Registers /\ Start(e, s, b).st = s
           /\ Start(e, s, b).cnt = e.cnt /\ Start(e, s, b).byte = e.byte
           /\ (Start(e, s, b).end <=> e.end) /\ Start(e, s, b).dely = e.dely
<1>1. PICK m : m = Lines(e, 0, 1)
  OBVIOUS
<1>2. m \in Registers /\ m.cnt = e.cnt /\ m.byte = e.byte /\ (m.end <=> e.end) /\ m.dely = e.dely
  BY <1>1 DEF Lines, Registers
<1>3. PICK n : n = [m EXCEPT !.a = Shifted(b)]
  OBVIOUS
<1>4. n \in Registers /\ n.cnt = m.cnt /\ n.byte = m.byte /\ (n.end <=> m.end) /\ n.dely = m.dely
  BY <1>2, <1>3 DEF Registers
<1>5. Start(e, s, b) = Goto(n, s)
  BY <1>1, <1>3 DEF Start
<1>6. /\ Goto(n, s) \in Registers /\ Goto(n, s).st = s /\ Goto(n, s).cnt = n.cnt
      /\ Goto(n, s).byte = n.byte /\ (Goto(n, s).end <=> n.end) /\ Goto(n, s).dely = n.dely
  BY <1>4, GotoSteps
<1> QED
  BY <1>2, <1>4, <1>5, <1>6

\* The end of a transfer.
LEMMA FinishedSteps ==
    ASSUME NEW e \in Registers, NEW s \in 0 .. 31
    PROVE  /\ Finished(e, s) \in Registers /\ Finished(e, s).st = s
           /\ Finished(e, s).cnt = 0 /\ Finished(e, s).byte = 0
           /\ Finished(e, s).end /\ Finished(e, s).dely = e.dely
<1>1. PICK m : m = Off
  OBVIOUS
<1>2. m \in Registers /\ m.cnt = 0 /\ m.byte = 0 /\ m.end
  BY <1>1, Shifts, Powers DEF Off, Registers
<1>3. Finished(e, s) = [m EXCEPT !.st = s, !.a = e.a, !.dely = e.dely, !.data = e.data]
  BY <1>1 DEF Finished
<1> QED
  BY <1>2, <1>3, Fields, ZenonT(60) DEF Registers

\* The clocks the rest of the bytes takes.
LEMMA BytesFit ==
    /\ BytesLeft(0) = 12 * (Bits + 1) /\ BytesLeft(1) = 8 * (Bits + 1)
    /\ BytesLeft(2) = 4 * (Bits + 1) /\ BytesLeft(3) = 0
    /\ \A b \in 0 .. 3 : BytesLeft(b) \in Nat
    /\ \A b \in 0 .. 2 : BytesLeft(b + 1) = BytesLeft(b) - 4 * (Bits + 1)
BY Powers DEF BytesLeft

\* One clock of the engine that sends a word.
LEMMA WordMoves ==
    ASSUME NEW e, WordShape(e), NEW g \in BOOLEAN, NEW f \in Byte \X Byte \X Byte \X Byte,
           NEW z, z = WordClock(e, g, f)
    PROVE  /\ WordShape(z)
           /\ e.st = 0 => z.st = IF g THEN 30 ELSE 0
           /\ e.st = 30 => z.st = IF g THEN 30 ELSE 31
           /\ e.st = 31 => z.st = 1
           /\ e.st = 1 => z.st = 2
           /\ e.st = 2 => z.st = 3
           /\ e.st \in 1 .. 9 => z.st \notin {0, 31}
           /\ e.st # 9 => (z.st = 30 => e.st \in {0, 30})
           /\ e.st # 30 /\ (e.st # 0 \/ g) => WordLeft(z) = WordLeft(e) - 1
<1>0. Bits \in Nat /\ Bits > 0 /\ 0 \in 0 .. Bits + 1
  BY Powers
<1>1. e \in Registers /\ e.st \in (0 .. 9) \cup {30, 31} /\ Bits \in Nat /\ Bits > 0
  BY Powers DEF WordShape
<1>2. /\ e.st \in 0 .. 31 /\ e.cnt \in 0 .. Bits + 1 /\ e.byte \in 0 .. 3
      /\ e.a \in ShiftRange /\ e.dely \in Nat /\ e.data \in Byte /\ e.end \in BOOLEAN
  BY <1>1, Fields
<1>3. CASE e.st = 0
  <2>1. z = Goto(Finished(e, 0), IF g THEN 30 ELSE 0)
    BY <1>3 DEF WordClock, Goto
  <2>2. (IF g THEN 30 ELSE 0) \in 0 .. 31
    OBVIOUS
  <2>3. /\ z \in Registers /\ z.st = (IF g THEN 30 ELSE 0) /\ z.cnt = 0 /\ z.byte = 0
        /\ z.end
    BY <1>1, <2>1, <2>2, FinishedSteps, GotoSteps
  <2> QED
    BY <1>1, <1>2, <1>3, <2>3 DEF WordShape, WordLeft
<1>4. CASE e.st = 1
  <2>1. PICK b \in Byte : b = f[1]
    OBVIOUS
  <2>2. Shifted(b) \in ShiftRange
    BY Shifts
  <2>3. z = Start(e, 2, b)
    BY <1>4, <2>1 DEF WordClock
  <2>4. /\ Start(e, 2, b) \in Registers /\ Start(e, 2, b).st = 2
        /\ Start(e, 2, b).cnt = e.cnt /\ Start(e, 2, b).byte = e.byte
        /\ (Start(e, 2, b).end <=> e.end) /\ Start(e, 2, b).dely = e.dely
    BY <1>1, <2>2, StartSteps
  <2>5. /\ z \in Registers /\ z.st = 2 /\ z.cnt = e.cnt /\ z.byte = e.byte
        /\ (z.end <=> e.end) /\ z.dely = e.dely
    BY <2>3, <2>4
  <2>6. WordShape(z)
    BY <1>1, <1>2, <1>4, <2>5 DEF WordShape
  <2>7. PICK c \in Nat : c = e.cnt
    BY <1>1, <1>2
  <2>8. PICK w \in Nat : w = BytesLeft(e.byte)
    BY <1>2, BytesFit
  <2>9. PICK v \in Nat : v = BytesLeft(z.byte) /\ v = 12 * (Bits + 1)
    BY <1>1, <1>2, <1>4, <2>5, <2>8, BytesFit DEF WordShape
  <2>10. WordLeft(e) = 16 * (Bits + 1) + 5
    BY <1>4, <2>7, <2>8, <2>9 DEF WordLeft
  <2>11. WordLeft(z) = ((4 * (Bits - c) + 3) + v) + 5
    BY <1>4, <2>7, <2>8, <2>9, <2>5 DEF WordLeft
  <2>12. c = 0
    BY <1>1, <1>4, <2>7 DEF WordShape
  <2>13. WordLeft(z) = WordLeft(e) - 1
    BY <1>0, <2>7, <2>8, <2>9, <2>10, <2>11, <2>12
  <2> QED
    BY <1>4, <2>5, <2>6, <2>13
<1>5. CASE e.st = 2
  <2>1. z = Goto(Lines(e, 0, 0), 3)
    BY <1>5 DEF WordClock, Writing, BitLow
  <2>2. /\ z \in Registers /\ z.st = 3 /\ z.cnt = e.cnt /\ z.byte = e.byte
        /\ (z.end <=> e.end) /\ z.dely = e.dely
    BY <2>1, <1>1, LineSteps
  <2>3. WordShape(z)
    BY <1>1, <1>2, <1>5, <2>2 DEF WordShape
  <2>4. PICK c \in Nat : c = e.cnt
    BY <1>1, <1>2
  <2>5. PICK w \in Nat : w = BytesLeft(e.byte)
    BY <1>2, BytesFit
  <2>6. PICK v \in Nat : v = BytesLeft(z.byte) /\ v = w
    BY <1>1, <1>2, <1>5, <2>2, <2>5, BytesFit DEF WordShape
  <2>7. WordLeft(e) = ((4 * (Bits - c) + 3) + w) + 5
    BY <1>5, <2>4, <2>5, <2>6 DEF WordLeft
  <2>8. WordLeft(z) = ((4 * (Bits - c) + 2) + v) + 5
    BY <1>5, <2>4, <2>5, <2>6, <2>2 DEF WordLeft
  <2>9. WordLeft(z) = WordLeft(e) - 1
    BY <1>0, <2>4, <2>5, <2>6, <2>7, <2>8
  <2> QED
    BY <1>5, <2>2, <2>3, <2>9
<1>6. CASE e.st = 3
  <2>1. e.a \div 2 ^ Bits \in {0, 1} /\ (2 * e.a) % 2 ^ (Bits + 1) \in ShiftRange
    BY <1>2, Shifts
  <2>2. PICK m : m = [e EXCEPT !.sda = e.a \div 2 ^ Bits, !.a = (2 * e.a) % 2 ^ (Bits + 1)]
    OBVIOUS
  <2>3. /\ m \in Registers /\ m.cnt = e.cnt /\ m.byte = e.byte
        /\ (m.end <=> e.end) /\ m.dely = e.dely
    BY <1>1, <2>2, <2>1 DEF Registers
  <2>4. z = Goto(m, 4)
    BY <1>6, <2>2 DEF WordClock, Writing, BitOut
  <2>5. /\ z \in Registers /\ z.st = 4 /\ z.cnt = e.cnt /\ z.byte = e.byte
        /\ (z.end <=> e.end) /\ z.dely = e.dely
    BY <2>4, <2>3, GotoSteps
  <2>6. WordShape(z)
    BY <1>1, <1>2, <1>6, <2>5 DEF WordShape
  <2>7. PICK c \in Nat : c = e.cnt
    BY <1>1, <1>2
  <2>8. PICK w \in Nat : w = BytesLeft(e.byte)
    BY <1>2, BytesFit
  <2>9. PICK v \in Nat : v = BytesLeft(z.byte) /\ v = w
    BY <1>1, <1>2, <1>6, <2>5, <2>8, BytesFit DEF WordShape
  <2>10. WordLeft(e) = ((4 * (Bits - c) + 2) + w) + 5
    BY <1>6, <2>7, <2>8, <2>9 DEF WordLeft
  <2>11. WordLeft(z) = ((4 * (Bits - c) + 1) + v) + 5
    BY <1>6, <2>7, <2>8, <2>9, <2>5 DEF WordLeft
  <2>12. WordLeft(z) = WordLeft(e) - 1
    BY <1>0, <2>7, <2>8, <2>9, <2>10, <2>11
  <2> QED
    BY <1>6, <2>5, <2>6, <2>12
<1>7. CASE e.st = 4
  <2>1. e.cnt <= Bits /\ e.cnt + 1 \in 0 .. Bits + 1
    BY <1>1, <1>2, <1>7 DEF WordShape
  <2>2. PICK m : m = [e EXCEPT !.scl = 1, !.cnt = e.cnt + 1]
    OBVIOUS
  <2>3. /\ m \in Registers /\ m.cnt = e.cnt + 1 /\ m.byte = e.byte
        /\ (m.end <=> e.end) /\ m.dely = e.dely
    BY <1>1, <2>2, <2>1 DEF Registers
  <2>4. z = Goto(m, 5)
    BY <1>7, <2>2 DEF WordClock, Writing, BitHigh
  <2>5. /\ z \in Registers /\ z.st = 5 /\ z.cnt = e.cnt + 1 /\ z.byte = e.byte
        /\ (z.end <=> e.end) /\ z.dely = e.dely
    BY <2>4, <2>3, GotoSteps
  <2>6. WordShape(z)
    BY <1>1, <1>2, <1>7, <2>1, <2>5 DEF WordShape
  <2>7. PICK c \in Nat : c = e.cnt
    BY <1>1, <1>2
  <2>8. PICK w \in Nat : w = BytesLeft(e.byte)
    BY <1>2, BytesFit
  <2>9. PICK v \in Nat : v = BytesLeft(z.byte) /\ v = w
    BY <1>1, <1>2, <1>7, <2>1, <2>5, <2>8, BytesFit DEF WordShape
  <2>10. WordLeft(e) = ((4 * (Bits - c) + 1) + w) + 5
    BY <1>7, <2>7, <2>8, <2>9 DEF WordLeft
  <2>11. WordLeft(z) = (4 * ((Bits + 1) - (c + 1)) + v) + 5
    BY <1>7, <2>7, <2>8, <2>9, <2>1, <2>5 DEF WordLeft
  <2>12. WordLeft(z) = WordLeft(e) - 1
    BY <1>0, <2>7, <2>8, <2>9, <2>10, <2>11
  <2> QED
    BY <1>7, <2>5, <2>6, <2>12
<1>8. CASE e.st = 5
  <2>1. z = ByteEnd(e, f) /\ Len(f) = 4
    BY <1>8 DEF WordClock, Writing
  <2>2. PICK m : m = [e EXCEPT !.scl = 0]
    OBVIOUS
  <2>3. /\ m \in Registers /\ m.cnt = e.cnt /\ m.byte = e.byte
        /\ (m.end <=> e.end) /\ m.dely = e.dely
    BY <1>1, <2>2 DEF Registers
  <2>4. CASE ~FrameDone(e)
    <3>1. z = Goto(m, 2)
      BY <2>1, <2>2, <2>4 DEF ByteEnd
    <3>2. /\ z \in Registers /\ z.st = 2 /\ z.cnt = e.cnt /\ z.byte = e.byte
          /\ (z.end <=> e.end) /\ z.dely = e.dely
      BY <3>1, <2>3, GotoSteps
    <3>3. WordShape(z)
      BY <1>1, <1>2, <1>8, <2>4, <3>2 DEF WordShape, FrameDone
    <3>4. PICK c \in Nat : c = e.cnt
      BY <1>1, <1>2
    <3>5. PICK w \in Nat : w = BytesLeft(e.byte)
      BY <1>2, BytesFit
    <3>6. PICK v \in Nat : v = BytesLeft(z.byte) /\ v = w
      BY <1>1, <1>2, <1>8, <2>4, <3>2, <3>5, BytesFit DEF WordShape
    <3>7. WordLeft(e) = (4 * ((Bits + 1) - c) + w) + 5
      BY <1>8, <2>4, <3>4, <3>5, <3>6 DEF WordLeft
    <3>8. WordLeft(z) = ((4 * (Bits - c) + 3) + v) + 5
      BY <1>8, <2>4, <3>4, <3>5, <3>6, <3>2 DEF WordLeft, FrameDone
    <3>9. WordLeft(z) = WordLeft(e) - 1
      BY <1>0, <3>4, <3>5, <3>6, <3>7, <3>8
    <3> QED
      BY <1>8, <2>4, <3>2, <3>3, <3>9
  <2>5. CASE FrameDone(e) /\ e.byte = 3
    <3>1. z = Goto(m, 6)
      BY <1>2, <2>1, <2>2, <2>3, <2>5 DEF ByteEnd, NextByte
    <3>2. /\ z \in Registers /\ z.st = 6 /\ z.cnt = e.cnt /\ z.byte = e.byte
          /\ (z.end <=> e.end) /\ z.dely = e.dely
      BY <3>1, <2>3, GotoSteps
    <3>3. WordShape(z)
      BY <1>1, <1>2, <1>8, <2>5, <3>2 DEF WordShape, FrameDone
    <3>4. PICK c \in Nat : c = e.cnt
      BY <1>1, <1>2
    <3>5. PICK w \in Nat : w = BytesLeft(e.byte)
      BY <1>2, BytesFit
    <3>6. PICK v \in Nat : v = BytesLeft(z.byte) /\ v = w
      BY <1>1, <1>2, <1>8, <2>5, <3>2, <3>5, BytesFit DEF WordShape
    <3>7. WordLeft(e) = (4 * ((Bits + 1) - c) + w) + 5
      BY <1>8, <2>5, <3>4, <3>5, <3>6 DEF WordLeft
    <3>8. WordLeft(z) = 4
      BY <1>8, <2>5, <3>4, <3>5, <3>6, <3>2 DEF WordLeft, FrameDone
    <3>9. c = Bits + 1 /\ w = 0
      BY <1>8, <2>5, <3>4, <3>5, <3>6, BytesFit DEF FrameDone
    <3>10. WordLeft(z) = WordLeft(e) - 1
      BY <1>0, <3>4, <3>5, <3>6, <3>7, <3>8, <3>9
    <3> QED
      BY <1>8, <2>5, <3>2, <3>3, <3>10
  <2>6. CASE FrameDone(e) /\ e.byte # 3
    <3>1. e.byte \in 0 .. 2 /\ m.byte = e.byte
      BY <1>2, <2>3, <2>6
    <3>2. f[e.byte + 2] \in Byte
      BY <3>1
    <3>3. Shifted(f[e.byte + 2]) \in ShiftRange
      BY <3>2, Shifts
    <3>4. e.byte + 1 \in 0 .. 3 /\ 0 \in 0 .. Bits + 1
      BY <3>1, Powers
    <3>5. PICK n : n = [m EXCEPT !.cnt = 0, !.byte = e.byte + 1, !.a = Shifted(f[e.byte + 2])]
      OBVIOUS
    <3>6. /\ n \in Registers /\ n.cnt = 0 /\ n.byte = e.byte + 1
          /\ (n.end <=> e.end) /\ n.dely = e.dely
      BY <2>3, <3>5, <3>1, <3>4, <3>3, Powers DEF Registers
    <3>7. z = Goto(n, 2)
      BY <1>2, <2>1, <2>2, <2>3, <3>5, <2>6 DEF ByteEnd, NextByte
    <3>8. /\ z \in Registers /\ z.st = 2 /\ z.cnt = 0 /\ z.byte = e.byte + 1
          /\ (z.end <=> e.end) /\ z.dely = e.dely
      BY <3>7, <3>6, GotoSteps
    <3>9. WordShape(z)
      BY <1>1, <1>2, <1>8, <2>6, <3>1, <3>8 DEF WordShape, FrameDone
    <3>10. PICK c \in Nat : c = e.cnt
      BY <1>1, <1>2
    <3>11. PICK w \in Nat : w = BytesLeft(e.byte)
      BY <1>2, BytesFit
    <3>12. /\ BytesLeft(e.byte + 1) = BytesLeft(e.byte) - 4 * (Bits + 1)
           /\ BytesLeft(e.byte + 1) \in Nat
      BY <3>1, <3>4, BytesFit
    <3>13. PICK v \in Nat : v = BytesLeft(z.byte) /\ v = w - 4 * (Bits + 1)
      BY <3>8, <3>11, <3>12
    <3>14. WordLeft(e) = (4 * ((Bits + 1) - c) + w) + 5
      BY <1>8, <2>6, <3>10, <3>11, <3>13 DEF WordLeft
    <3>15. WordLeft(z) = ((4 * (Bits - 0) + 3) + v) + 5
      BY <1>8, <2>6, <3>10, <3>11, <3>13, <3>1, <3>8 DEF WordLeft, FrameDone
    <3>16. c = Bits + 1
      BY <1>8, <2>6, <3>10 DEF FrameDone
    <3>17. WordLeft(z) = WordLeft(e) - 1
      BY <1>0, <3>10, <3>11, <3>13, <3>14, <3>15, <3>16
    <3> QED
      BY <1>8, <2>6, <3>8, <3>9, <3>17
  <2> QED
    BY <1>2, <2>4, <2>5, <2>6
<1>9. CASE e.st \in 6 .. 8
  <2>1. CASE e.st = 6
    <3>1. z = Goto(Lines(e, 0, 0), 7)
      BY <1>9, <2>1 DEF WordClock, Writing, StopLines
    <3>2. /\ z \in Registers /\ z.st = 7 /\ z.cnt = e.cnt /\ z.byte = e.byte
          /\ (z.end <=> e.end) /\ z.dely = e.dely
      BY <3>1, <1>1, LineSteps
    <3> QED
      BY <1>1, <1>2, <2>1, <3>2 DEF WordShape, WordLeft
  <2>2. CASE e.st = 7
    <3>1. z = Goto(Lines(e, 0, 1), 8)
      BY <1>9, <2>2 DEF WordClock, Writing, StopLines
    <3>2. /\ z \in Registers /\ z.st = 8 /\ z.cnt = e.cnt /\ z.byte = e.byte
          /\ (z.end <=> e.end) /\ z.dely = e.dely
      BY <3>1, <1>1, LineSteps
    <3> QED
      BY <1>1, <1>2, <2>2, <3>2 DEF WordShape, WordLeft
  <2>3. CASE e.st = 8
    <3>1. z = Goto(Lines(e, 1, 1), 9)
      BY <1>9, <2>3 DEF WordClock, Writing, StopLines
    <3>2. /\ z \in Registers /\ z.st = 9 /\ z.cnt = e.cnt /\ z.byte = e.byte
          /\ (z.end <=> e.end) /\ z.dely = e.dely
      BY <3>1, <1>1, LineSteps
    <3> QED
      BY <1>1, <1>2, <2>3, <3>2 DEF WordShape, WordLeft
  <2> QED
    BY <1>9, <2>1, <2>2, <2>3
<1>10. CASE e.st = 9
  <2>1. z = Finished(e, 30)
    BY <1>10 DEF WordClock
  <2>2. z \in Registers /\ z.st = 30 /\ z.cnt = 0 /\ z.byte = 0 /\ z.end /\ z.dely = e.dely
    BY <2>1, <1>1, FinishedSteps
  <2> QED
    BY <1>1, <1>2, <1>10, <2>2 DEF WordShape, WordLeft
<1>11. CASE e.st = 30
  <2>1. z = IF g THEN e ELSE Goto(e, 31)
    BY <1>11 DEF WordClock
  <2> QED
    BY <1>1, <1>2, <1>11, <2>1, GotoSteps DEF WordShape
<1>12. CASE e.st = 31
  <2>1. PICK m : m = [e EXCEPT !.end = FALSE]
    OBVIOUS
  <2>2. /\ m \in Registers /\ m.cnt = e.cnt /\ m.byte = e.byte
        /\ ~m.end /\ m.dely = e.dely
    BY <1>1, <2>1 DEF Registers
  <2>3. z = Goto(m, 1)
    BY <1>12, <2>1 DEF WordClock
  <2>4. /\ z \in Registers /\ z.st = 1 /\ z.cnt = e.cnt /\ z.byte = e.byte
        /\ ~z.end /\ z.dely = e.dely
    BY <2>3, <2>2, GotoSteps
  <2> QED
    BY <1>1, <1>2, <1>12, <2>4 DEF WordShape, WordLeft
<1> QED
  BY <1>1, <1>3, <1>4, <1>5, <1>6, <1>7, <1>8, <1>9, <1>10, <1>11, <1>12

\* One clock of the engine that sends a pointer.
LEMMA PointerMoves ==
    ASSUME NEW e, PointerShape(e), NEW g \in BOOLEAN, NEW f, Len(f) = 3,
           f[1] \in Byte, f[2] \in Byte, f[3] \in Byte, NEW d \in {0, 1},
           NEW z, z = PointerClock(e, g, f, d)
    PROVE  /\ PointerShape(z)
           /\ e.st = 0 => z.st = IF g THEN 10 ELSE 0
           /\ e.st = 10 => z.st = (IF g THEN 10 ELSE 11) /\ z.end
           /\ e.st = 11 => z.st = 12
           /\ e.st = 9 => z.st = 10
           /\ e.st # 9 /\ (e.st = 11 \/ ~e.end) => ~z.end
<1>0. Bits \in Nat /\ Bits > 0 /\ 0 \in 0 .. Bits + 1
  BY Powers
<1>1. e \in Registers /\ e.st \in {0} \cup (2 .. 20)
  BY DEF PointerShape
<1>2. /\ e.st \in 0 .. 31 /\ e.cnt \in 0 .. Bits + 1 /\ e.byte \in 0 .. 3
      /\ e.a \in ShiftRange /\ e.dely \in Nat /\ e.data \in Byte /\ e.end \in BOOLEAN
  BY <1>1, Fields
<1>3. CASE e.st = 0
  <2>1. z = Goto(Finished(e, 0), IF g THEN 10 ELSE 0)
    BY <1>3 DEF PointerClock, Goto
  <2>2. (IF g THEN 10 ELSE 0) \in 0 .. 31
    OBVIOUS
  <2>3. /\ z \in Registers /\ z.st = (IF g THEN 10 ELSE 0) /\ z.cnt = 0 /\ z.byte = 0
        /\ z.end
    BY <1>1, <2>1, <2>2, FinishedSteps, GotoSteps
  <2> QED
    BY <1>0, <1>1, <1>2, <1>3, <2>3 DEF PointerShape, FrameDone
<1>4. CASE e.st = 2
  <2>1. z = Goto(Lines(e, 0, 0), 3)
    BY <1>4 DEF PointerClock, Writing, BitLow
  <2>2. /\ z \in Registers /\ z.st = 3 /\ z.cnt = e.cnt /\ z.byte = e.byte
        /\ (z.end <=> e.end) /\ z.dely = e.dely
    BY <2>1, <1>1, LineSteps
  <2> QED
    BY <1>0, <1>1, <1>2, <1>4, <2>2 DEF PointerShape, FrameDone
<1>5. CASE e.st = 3
  <2>1. e.a \div 2 ^ Bits \in {0, 1} /\ (2 * e.a) % 2 ^ (Bits + 1) \in ShiftRange
    BY <1>2, Shifts
  <2>2. PICK m : m = [e EXCEPT !.sda = e.a \div 2 ^ Bits, !.a = (2 * e.a) % 2 ^ (Bits + 1)]
    OBVIOUS
  <2>3. /\ m \in Registers /\ m.cnt = e.cnt /\ m.byte = e.byte
        /\ (m.end <=> e.end) /\ m.dely = e.dely
    BY <1>1, <2>2, <2>1 DEF Registers
  <2>4. z = Goto(m, 4)
    BY <1>5, <2>2 DEF PointerClock, Writing, BitOut
  <2>5. /\ z \in Registers /\ z.st = 4 /\ z.cnt = e.cnt /\ z.byte = e.byte
        /\ (z.end <=> e.end) /\ z.dely = e.dely
    BY <2>4, <2>3, GotoSteps
  <2> QED
    BY <1>0, <1>1, <1>2, <1>5, <2>5 DEF PointerShape, FrameDone
<1>6. CASE e.st = 4
  <2>1. e.cnt <= Bits /\ e.cnt + 1 \in 0 .. Bits + 1
    BY <1>0, <1>1, <1>2, <1>6 DEF PointerShape
  <2>2. PICK m : m = [e EXCEPT !.scl = 1, !.cnt = e.cnt + 1]
    OBVIOUS
  <2>3. /\ m \in Registers /\ m.cnt = e.cnt + 1 /\ m.byte = e.byte
        /\ (m.end <=> e.end) /\ m.dely = e.dely
    BY <1>1, <2>2, <2>1 DEF Registers
  <2>4. z = Goto(m, 5)
    BY <1>6, <2>2 DEF PointerClock, Writing, BitHigh
  <2>5. /\ z \in Registers /\ z.st = 5 /\ z.cnt = e.cnt + 1 /\ z.byte = e.byte
        /\ (z.end <=> e.end) /\ z.dely = e.dely
    BY <2>4, <2>3, GotoSteps
  <2> QED
    BY <1>0, <1>1, <1>2, <1>6, <2>1, <2>5 DEF PointerShape, FrameDone
<1>7. CASE e.st = 12
  <2>1. z = Goto(Lines(e, 0, 0), 13)
    BY <1>7 DEF PointerClock, BitLow
  <2>2. /\ z \in Registers /\ z.st = 13 /\ z.cnt = e.cnt /\ z.byte = e.byte
        /\ (z.end <=> e.end) /\ z.dely = e.dely
    BY <2>1, <1>1, LineSteps
  <2> QED
    BY <1>0, <1>1, <1>2, <1>7, <2>2 DEF PointerShape, FrameDone
<1>8. CASE e.st = 13
  <2>1. e.a \div 2 ^ Bits \in {0, 1} /\ (2 * e.a) % 2 ^ (Bits + 1) \in ShiftRange
    BY <1>2, Shifts
  <2>2. PICK m : m = [e EXCEPT !.sda = e.a \div 2 ^ Bits, !.a = (2 * e.a) % 2 ^ (Bits + 1)]
    OBVIOUS
  <2>3. /\ m \in Registers /\ m.cnt = e.cnt /\ m.byte = e.byte
        /\ (m.end <=> e.end) /\ m.dely = e.dely
    BY <1>1, <2>2, <2>1 DEF Registers
  <2>4. z = Goto(m, 14)
    BY <1>8, <2>2 DEF PointerClock, BitOut
  <2>5. /\ z \in Registers /\ z.st = 14 /\ z.cnt = e.cnt /\ z.byte = e.byte
        /\ (z.end <=> e.end) /\ z.dely = e.dely
    BY <2>4, <2>3, GotoSteps
  <2> QED
    BY <1>0, <1>1, <1>2, <1>8, <2>5 DEF PointerShape, FrameDone
<1>9. CASE e.st = 14
  <2>1. e.cnt <= Bits /\ e.cnt + 1 \in 0 .. Bits + 1
    BY <1>0, <1>1, <1>2, <1>9 DEF PointerShape
  <2>2. PICK m : m = [e EXCEPT !.scl = 1, !.cnt = e.cnt + 1]
    OBVIOUS
  <2>3. /\ m \in Registers /\ m.cnt = e.cnt + 1 /\ m.byte = e.byte
        /\ (m.end <=> e.end) /\ m.dely = e.dely
    BY <1>1, <2>2, <2>1 DEF Registers
  <2>4. z = Goto(m, 15)
    BY <1>9, <2>2 DEF PointerClock, BitHigh
  <2>5. /\ z \in Registers /\ z.st = 15 /\ z.cnt = e.cnt + 1 /\ z.byte = e.byte
        /\ (z.end <=> e.end) /\ z.dely = e.dely
    BY <2>4, <2>3, GotoSteps
  <2> QED
    BY <1>0, <1>1, <1>2, <1>9, <2>1, <2>5 DEF PointerShape, FrameDone
<1>10. CASE e.st = 5
  <2>1. z = ByteEnd(e, f)
    BY <1>10 DEF PointerClock, Writing
  <2>2. PICK m : m = [e EXCEPT !.scl = 0]
    OBVIOUS
  <2>3. /\ m \in Registers /\ m.cnt = e.cnt /\ m.byte = e.byte
        /\ (m.end <=> e.end) /\ m.dely = e.dely
    BY <1>1, <2>2 DEF Registers
  <2>4. CASE ~FrameDone(e)
    <3>1. z = Goto(m, 2)
      BY <2>1, <2>2, <2>4 DEF ByteEnd
    <3>2. /\ z \in Registers /\ z.st = 2 /\ z.cnt = e.cnt /\ z.byte = e.byte
          /\ (z.end <=> e.end) /\ z.dely = e.dely
      BY <3>1, <2>3, GotoSteps
    <3> QED
      BY <1>0, <1>1, <1>2, <1>10, <2>4, <3>2 DEF PointerShape, FrameDone
  <2>5. CASE FrameDone(e) /\ e.byte = 2
    <3>1. z = Goto(m, 6)
      BY <1>2, <2>1, <2>2, <2>3, <2>5 DEF ByteEnd, NextByte
    <3>2. /\ z \in Registers /\ z.st = 6 /\ z.cnt = e.cnt /\ z.byte = e.byte
          /\ (z.end <=> e.end) /\ z.dely = e.dely
      BY <3>1, <2>3, GotoSteps
    <3> QED
      BY <1>0, <1>1, <1>2, <1>10, <2>5, <3>2 DEF PointerShape, FrameDone
  <2>6. CASE FrameDone(e) /\ e.byte # 2
    <3>1. e.byte \in 0 .. 1 /\ m.byte = e.byte
      BY <1>2, <1>10, <2>3, <2>6 DEF PointerShape
    <3>2. f[e.byte + 2] \in Byte
      BY <3>1
    <3>3. Shifted(f[e.byte + 2]) \in ShiftRange
      BY <3>2, Shifts
    <3>4. e.byte + 1 \in 0 .. 3 /\ 0 \in 0 .. Bits + 1
      BY <3>1, Powers
    <3>5. PICK n : n = [m EXCEPT !.cnt = 0, !.byte = e.byte + 1, !.a = Shifted(f[e.byte + 2])]
      OBVIOUS
    <3>6. /\ n \in Registers /\ n.cnt = 0 /\ n.byte = e.byte + 1
          /\ (n.end <=> e.end) /\ n.dely = e.dely
      BY <2>3, <3>5, <3>1, <3>4, <3>3, Powers DEF Registers
    <3>7. z = Goto(n, 2)
      BY <1>2, <2>1, <2>2, <2>3, <3>5, <2>6 DEF ByteEnd, NextByte
    <3>8. /\ z \in Registers /\ z.st = 2 /\ z.cnt = 0 /\ z.byte = e.byte + 1
          /\ (z.end <=> e.end) /\ z.dely = e.dely
      BY <3>7, <3>6, GotoSteps
    <3> QED
      BY <1>0, <1>1, <1>2, <1>10, <2>6, <3>1, <3>8 DEF PointerShape, FrameDone
  <2> QED
    BY <1>2, <2>4, <2>5, <2>6
<1>11. CASE e.st = 6
  <2>1. z = Goto(Lines(e, 0, 0), 7)
    BY <1>11 DEF PointerClock, Writing, StopLines
  <2>2. /\ z \in Registers /\ z.st = 7 /\ z.cnt = e.cnt /\ z.byte = e.byte
        /\ (z.end <=> e.end) /\ z.dely = e.dely
    BY <2>1, <1>1, LineSteps
  <2> QED
    BY <1>0, <1>1, <1>2, <1>11, <2>2 DEF PointerShape, FrameDone
<1>12. CASE e.st = 7
  <2>1. z = Goto(Lines(e, 0, 1), 8)
    BY <1>12 DEF PointerClock, Writing, StopLines
  <2>2. /\ z \in Registers /\ z.st = 8 /\ z.cnt = e.cnt /\ z.byte = e.byte
        /\ (z.end <=> e.end) /\ z.dely = e.dely
    BY <2>1, <1>1, LineSteps
  <2> QED
    BY <1>0, <1>1, <1>2, <1>12, <2>2 DEF PointerShape, FrameDone
<1>13. CASE e.st = 8
  <2>1. z = Goto(Lines(e, 1, 1), 9)
    BY <1>13 DEF PointerClock, Writing, StopLines
  <2>2. /\ z \in Registers /\ z.st = 9 /\ z.cnt = e.cnt /\ z.byte = e.byte
        /\ (z.end <=> e.end) /\ z.dely = e.dely
    BY <2>1, <1>1, LineSteps
  <2> QED
    BY <1>0, <1>1, <1>2, <1>13, <2>2 DEF PointerShape, FrameDone
<1>14. CASE e.st = 17
  <2>1. z = Goto(Lines(e, 0, 0), 18)
    BY <1>14 DEF PointerClock, StopLines
  <2>2. /\ z \in Registers /\ z.st = 18 /\ z.cnt = e.cnt /\ z.byte = e.byte
        /\ (z.end <=> e.end) /\ z.dely = e.dely
    BY <2>1, <1>1, LineSteps
  <2> QED
    BY <1>0, <1>1, <1>2, <1>14, <2>2 DEF PointerShape, FrameDone
<1>15. CASE e.st = 18
  <2>1. z = Goto(Lines(e, 0, 1), 19)
    BY <1>15 DEF PointerClock, StopLines
  <2>2. /\ z \in Registers /\ z.st = 19 /\ z.cnt = e.cnt /\ z.byte = e.byte
        /\ (z.end <=> e.end) /\ z.dely = e.dely
    BY <2>1, <1>1, LineSteps
  <2> QED
    BY <1>0, <1>1, <1>2, <1>15, <2>2 DEF PointerShape, FrameDone
<1>16. CASE e.st = 9
  <2>1. z = Finished(e, 10)
    BY <1>16 DEF PointerClock
  <2>2. z \in Registers /\ z.st = 10 /\ z.cnt = 0 /\ z.byte = 0 /\ z.end /\ z.dely = e.dely
    BY <2>1, <1>1, FinishedSteps
  <2> QED
    BY <1>0, <1>1, <1>2, <1>16, <2>2 DEF PointerShape, FrameDone
<1>17. CASE e.st = 10
  <2>1. z = IF g THEN e ELSE Goto(e, 11)
    BY <1>17 DEF PointerClock
  <2> QED
    BY <1>0, <1>1, <1>2, <1>17, <2>1, GotoSteps DEF PointerShape
<1>18. CASE e.st = 11
  <2>1. PICK m : m = [e EXCEPT !.end = FALSE, !.cnt = 0]
    OBVIOUS
  <2>2. /\ m \in Registers /\ m.cnt = 0 /\ m.byte = e.byte
        /\ ~m.end /\ m.dely = e.dely
    BY <1>1, <2>1, <1>0 DEF Registers
  <2>3. PICK b \in Byte : b = f[1]
    OBVIOUS
  <2>4. Shifted(b) \in ShiftRange
    BY Shifts
  <2>5. z = Start(m, 12, b)
    BY <1>18, <2>1, <2>3 DEF PointerClock
  <2>6. m \in Registers
    BY <2>2
  <2>7. /\ Start(m, 12, b) \in Registers /\ Start(m, 12, b).st = 12
        /\ Start(m, 12, b).cnt = m.cnt /\ Start(m, 12, b).byte = m.byte
        /\ (Start(m, 12, b).end <=> m.end)
    BY <2>6, <2>4, StartSteps
  <2>8. /\ z \in Registers /\ z.st = 12 /\ z.cnt = m.cnt /\ z.byte = m.byte
        /\ (z.end <=> m.end)
    BY <2>5, <2>7
  <2> QED
    BY <1>0, <1>1, <1>2, <1>18, <2>2, <2>8 DEF PointerShape, FrameDone
<1>19. CASE e.st = 15
  <2>1. CASE FrameDone(e)
    <3>1. PICK m : m = [e EXCEPT !.dely = 0]
      OBVIOUS
    <3>2. /\ m \in Registers /\ m.cnt = e.cnt /\ m.byte = e.byte
          /\ (m.end <=> e.end) /\ m.dely = 0
      BY <1>1, <3>1 DEF Registers
    <3>3. z = Goto(m, 16)
      BY <1>19, <2>1, <3>1 DEF PointerClock, AddressBitEnd
    <3>4. /\ z \in Registers /\ z.st = 16 /\ z.cnt = e.cnt /\ z.byte = e.byte
          /\ (z.end <=> e.end) /\ z.dely = 0
      BY <3>3, <3>2, GotoSteps
    <3> QED
      BY <1>0, <1>1, <1>2, <1>19, <2>1, <3>4 DEF PointerShape, FrameDone
  <2>2. CASE ~FrameDone(e)
    <3>1. PICK m : m = [e EXCEPT !.scl = 0]
      OBVIOUS
    <3>2. /\ m \in Registers /\ m.cnt = e.cnt /\ m.byte = e.byte
          /\ (m.end <=> e.end) /\ m.dely = e.dely
      BY <1>1, <3>1 DEF Registers
    <3>3. z = Goto(m, 12)
      BY <1>19, <2>2, <3>1 DEF PointerClock, AddressBitEnd
    <3>4. /\ z \in Registers /\ z.st = 12 /\ z.cnt = e.cnt /\ z.byte = e.byte
          /\ (z.end <=> e.end) /\ z.dely = e.dely
      BY <3>3, <3>2, GotoSteps
    <3> QED
      BY <1>0, <1>1, <1>2, <1>19, <2>2, <3>4 DEF PointerShape, FrameDone
  <2> QED
    BY <2>1, <2>2
<1>20. CASE e.st = 16
  <2>1. PICK m : m = [e EXCEPT !.dely = e.dely + 1]
    OBVIOUS
  <2>2. /\ m \in Registers /\ m.cnt = e.cnt /\ m.byte = e.byte
        /\ (m.end <=> e.end) /\ m.dely = e.dely + 1
    BY <1>1, <1>2, <2>1 DEF Registers
  <2>3. z = AddressAnswer(e, d)
    BY <1>20 DEF PointerClock
  <2>4. /\ e.dely <= 1 => z = m
        /\ e.dely > 1 /\ d = 1 => z = Goto(m, 17)
        /\ e.dely > 1 /\ d = 0 => z = Goto([m EXCEPT !.scl = 0], 5)
    BY <1>2, <2>1, <2>3 DEF AddressAnswer
  <2>5. m.st = 16 /\ e.byte = 0
    BY <1>1, <1>20, <2>1 DEF PointerShape, Registers
  <2>6. PICK n : n = [m EXCEPT !.scl = 0]
    OBVIOUS
  <2>7. /\ n \in Registers /\ n.cnt = e.cnt /\ n.byte = e.byte
        /\ (n.end <=> e.end) /\ n.dely = e.dely + 1
    BY <2>2, <2>6 DEF Registers
  <2>8. CASE e.dely <= 1
    <3> QED
      BY <1>0, <1>1, <1>2, <1>20, <2>4, <2>5, <2>2, <2>8 DEF PointerShape
  <2>9. CASE e.dely > 1 /\ d = 1
    <3>1. z = Goto(m, 17)
      BY <2>4, <2>9
    <3>2. /\ z \in Registers /\ z.st = 17 /\ z.cnt = e.cnt /\ z.byte = e.byte
          /\ (z.end <=> e.end) /\ z.dely = e.dely + 1
      BY <3>1, <2>2, GotoSteps
    <3> QED
      BY <1>0, <1>1, <1>2, <1>20, <2>9, <2>5, <3>2 DEF PointerShape, FrameDone
  <2>10. CASE e.dely > 1 /\ d = 0
    <3>1. z = Goto(n, 5)
      BY <2>4, <2>6, <2>10
    <3>2. /\ z \in Registers /\ z.st = 5 /\ z.cnt = e.cnt /\ z.byte = e.byte
          /\ (z.end <=> e.end) /\ z.dely = e.dely + 1
      BY <3>1, <2>7, GotoSteps
    <3> QED
      BY <1>0, <1>1, <1>2, <1>20, <2>10, <2>5, <3>2 DEF PointerShape, FrameDone
  <2> QED
    BY <1>2, <2>8, <2>9, <2>10
<1>21. CASE e.st = 19
  <2>1. PICK m : m = Goto(Lines(e, 1, 1), 20)
    OBVIOUS
  <2>2. /\ m \in Registers /\ m.st = 20 /\ m.cnt = e.cnt /\ m.byte = e.byte
        /\ (m.end <=> e.end)
    BY <1>1, <2>1, LineSteps
  <2>3. z = [m EXCEPT !.dely = 0]
    BY <1>21, <2>1 DEF PointerClock, StopLines
  <2>4. /\ z \in Registers /\ z.st = 20 /\ z.cnt = e.cnt /\ z.byte = e.byte
        /\ (z.end <=> e.end)
    BY <2>2, <2>3 DEF Registers
  <2> QED
    BY <1>0, <1>1, <1>2, <1>21, <2>4 DEF PointerShape, FrameDone
<1>22. CASE e.st = 20
  <2>1. PICK s \in {11, 20} : s = IF e.dely > 2 THEN 11 ELSE 20
    OBVIOUS
  <2>2. z = [e EXCEPT !.dely = e.dely + 1, !.st = s]
    BY <1>22, <2>1 DEF PointerClock
  <2>3. e.dely + 1 \in Nat /\ s \in 0 .. 31
    BY <1>2, <2>1
  <2>4. /\ z \in Registers /\ z.st = s /\ z.cnt = e.cnt /\ z.byte = e.byte
        /\ (z.end <=> e.end)
    BY <1>1, <2>2, <2>3, ZenonT(60) DEF Registers
  <2> QED
    BY <1>0, <1>1, <1>2, <1>22, <2>4 DEF PointerShape, FrameDone
<1> QED
  BY <1>1, <1>3, <1>4, <1>5, <1>6, <1>7, <1>8, <1>9, <1>10, <1>11, <1>12, <1>13, <1>14, <1>15,
     <1>16, <1>17, <1>18, <1>19, <1>20, <1>21, <1>22

\* One clock of the engine that reads.
LEMMA ReadMoves ==
    ASSUME NEW e, ReadShape(e), NEW g \in BOOLEAN, NEW f, NEW d \in {0, 1},
           e.st = 1 => f + 1 \in Byte, NEW z, z = ReadClock(e, g, f, d)
    PROVE  /\ ReadShape(z)
           /\ e.st = 0 => z.st = IF g THEN 30 ELSE 0
           /\ e.st = 30 => z.st = IF g THEN 30 ELSE 31
           /\ e.st = 31 => z.st = 1
           /\ e.st = 1 => z.st = 2
           /\ e.st \in 1 .. 13 => z.st \notin {0, 1, 31}
           /\ e.st # 13 => (z.st = 30 => e.st \in {0, 30})
           /\ e.st # 30 /\ (e.st # 0 \/ g) => ReadLeft(z) = ReadLeft(e) - 1
<1>0. Bits \in Nat /\ Bits > 0 /\ 0 \in 0 .. Bits + 1
  BY Powers
<1>1. e \in Registers /\ e.st \in (0 .. 13) \cup {30, 31}
  BY DEF ReadShape
<1>2. /\ e.st \in 0 .. 31 /\ e.cnt \in 0 .. Bits + 1 /\ e.byte \in 0 .. 3
      /\ e.a \in ShiftRange /\ e.dely \in Nat /\ e.data \in Byte /\ e.end \in BOOLEAN
  BY <1>1, Fields
<1>3. CASE e.st = 0
  <2>1. PICK s \in {0, 30} : s = IF g THEN 30 ELSE 0
    OBVIOUS
  <2>2. PICK m : m = Off
    OBVIOUS
  <2>3. m \in Registers /\ m.cnt = 0 /\ m.byte = 0 /\ m.end
    BY <2>2, Shifts, Powers DEF Off, Registers
  <2>4. z = [m EXCEPT !.st = s, !.a = e.a, !.dely = e.dely]
    BY <1>3, <2>1, <2>2 DEF ReadClock
  <2>5. s \in 0 .. 31
    BY <2>1
  <2>6. z \in Registers /\ z.st = s /\ z.cnt = 0 /\ z.byte = 0 /\ z.end
    BY <1>2, <2>3, <2>4, <2>5, ZenonT(60) DEF Registers
  <2> QED
    BY <1>0, <1>1, <1>2, <1>3, <2>1, <2>6 DEF ReadShape, ReadLeft
<1>4. CASE e.st = 1
  <2>1. PICK b \in Byte : b = f + 1
    BY <1>4
  <2>2. Shifted(b) \in ShiftRange
    BY Shifts
  <2>3. z = Start(e, 2, b)
    BY <1>4, <2>1 DEF ReadClock
  <2>4. /\ Start(e, 2, b) \in Registers /\ Start(e, 2, b).st = 2
        /\ Start(e, 2, b).cnt = e.cnt /\ Start(e, 2, b).byte = e.byte
        /\ (Start(e, 2, b).end <=> e.end) /\ Start(e, 2, b).dely = e.dely
    BY <1>1, <2>2, StartSteps
  <2>5. /\ z \in Registers /\ z.st = 2 /\ z.cnt = e.cnt /\ z.byte = e.byte
        /\ (z.end <=> e.end) /\ z.dely = e.dely
    BY <2>3, <2>4
  <2>6. ReadShape(z)
    BY <1>0, <1>1, <1>2, <1>4, <2>5 DEF ReadShape, FrameDone
  <2>7. PICK c \in Nat : c = e.cnt
    BY <1>0, <1>2
  <2>8. c = 0
    BY <1>0, <1>1, <1>2, <1>4, <2>5, <2>7 DEF ReadShape, FrameDone
  <2>9. ReadLeft(e) = 8 * Bits + 15
    BY <1>4, <2>7 DEF ReadLeft
  <2>10. ReadLeft(z) = (4 * (Bits - c) + 3) + (4 * Bits + 11)
    BY <2>8, <2>7, <2>5 DEF ReadLeft
  <2>11. ReadLeft(z) = ReadLeft(e) - 1
    BY <1>0, <1>2, <2>7, <2>9, <2>10, <2>8, <2>5
  <2> QED
    BY <1>4, <2>5, <2>6, <2>11
<1>5. CASE e.st = 2
  <2>1. z = Goto(Lines(e, 0, 0), 3)
    BY <1>5 DEF ReadClock, BitLow
  <2>2. /\ z \in Registers /\ z.st = 3 /\ z.cnt = e.cnt /\ z.byte = e.byte
        /\ (z.end <=> e.end) /\ z.dely = e.dely
    BY <2>1, <1>1, LineSteps
  <2>3. ReadShape(z)
    BY <1>0, <1>1, <1>2, <1>5, <2>2 DEF ReadShape, FrameDone
  <2>4. PICK c \in Nat : c = e.cnt
    BY <1>0, <1>2
  <2>5. ReadLeft(e) = (4 * (Bits - c) + 3) + (4 * Bits + 11)
    BY <1>5, <2>4 DEF ReadLeft
  <2>6. ReadLeft(z) = (4 * (Bits - c) + 2) + (4 * Bits + 11)
    BY <2>4, <2>2 DEF ReadLeft
  <2>7. ReadLeft(z) = ReadLeft(e) - 1
    BY <1>0, <1>2, <2>4, <2>5, <2>6, <2>2
  <2> QED
    BY <1>5, <2>2, <2>3, <2>7
<1>6. CASE e.st = 3
  <2>1. e.a \div 2 ^ Bits \in {0, 1} /\ (2 * e.a) % 2 ^ (Bits + 1) \in ShiftRange
    BY <1>2, Shifts
  <2>2. PICK m : m = [e EXCEPT !.sda = e.a \div 2 ^ Bits, !.a = (2 * e.a) % 2 ^ (Bits + 1)]
    OBVIOUS
  <2>3. /\ m \in Registers /\ m.cnt = e.cnt /\ m.byte = e.byte
        /\ (m.end <=> e.end) /\ m.dely = e.dely
    BY <1>1, <2>2, <2>1 DEF Registers
  <2>4. z = Goto(m, 4)
    BY <1>6, <2>2 DEF ReadClock, BitOut
  <2>5. /\ z \in Registers /\ z.st = 4 /\ z.cnt = e.cnt /\ z.byte = e.byte
        /\ (z.end <=> e.end) /\ z.dely = e.dely
    BY <2>4, <2>3, GotoSteps
  <2>6. ReadShape(z)
    BY <1>0, <1>1, <1>2, <1>6, <2>5 DEF ReadShape, FrameDone
  <2>7. PICK c \in Nat : c = e.cnt
    BY <1>0, <1>2
  <2>8. ReadLeft(e) = (4 * (Bits - c) + 2) + (4 * Bits + 11)
    BY <1>6, <2>7 DEF ReadLeft
  <2>9. ReadLeft(z) = (4 * (Bits - c) + 1) + (4 * Bits + 11)
    BY <2>7, <2>5 DEF ReadLeft
  <2>10. ReadLeft(z) = ReadLeft(e) - 1
    BY <1>0, <1>2, <2>7, <2>8, <2>9, <2>5
  <2> QED
    BY <1>6, <2>5, <2>6, <2>10
<1>7. CASE e.st = 4
  <2>1. e.cnt <= Bits /\ e.cnt + 1 \in 0 .. Bits + 1
    BY <1>0, <1>1, <1>2, <1>7 DEF ReadShape
  <2>2. PICK m : m = [e EXCEPT !.scl = 1, !.cnt = e.cnt + 1]
    OBVIOUS
  <2>3. /\ m \in Registers /\ m.cnt = e.cnt + 1 /\ m.byte = e.byte
        /\ (m.end <=> e.end) /\ m.dely = e.dely
    BY <1>1, <2>2, <2>1 DEF Registers
  <2>4. z = Goto(m, 5)
    BY <1>7, <2>2 DEF ReadClock, BitHigh
  <2>5. /\ z \in Registers /\ z.st = 5 /\ z.cnt = e.cnt + 1 /\ z.byte = e.byte
        /\ (z.end <=> e.end) /\ z.dely = e.dely
    BY <2>4, <2>3, GotoSteps
  <2>6. ReadShape(z)
    BY <1>0, <1>1, <1>2, <1>7, <2>1, <2>5 DEF ReadShape, FrameDone
  <2>7. PICK c \in Nat : c = e.cnt
    BY <1>0, <1>2
  <2>8. ReadLeft(e) = (4 * (Bits - c) + 1) + (4 * Bits + 11)
    BY <1>7, <2>7 DEF ReadLeft
  <2>9. ReadLeft(z) = 4 * ((Bits + 1) - (c + 1)) + (4 * Bits + 11)
    BY <2>7, <2>5 DEF ReadLeft
  <2>10. ReadLeft(z) = ReadLeft(e) - 1
    BY <1>0, <1>2, <2>7, <2>8, <2>9, <2>5
  <2> QED
    BY <1>7, <2>5, <2>6, <2>10
<1>8. CASE e.st = 5
  <2>1. PICK m : m = [e EXCEPT !.scl = 0]
    OBVIOUS
  <2>2. /\ m \in Registers /\ m.cnt = e.cnt /\ m.byte = e.byte
        /\ (m.end <=> e.end) /\ m.dely = e.dely
    BY <1>1, <2>1 DEF Registers
  <2>3. CASE FrameDone(e)
    <3>1. z = Goto(m, 6)
      BY <1>8, <2>1, <2>3 DEF ReadClock
    <3>2. /\ z \in Registers /\ z.st = 6 /\ z.cnt = e.cnt /\ z.byte = e.byte
          /\ (z.end <=> e.end) /\ z.dely = e.dely
      BY <3>1, <2>2, GotoSteps
    <3>3. ReadShape(z)
      BY <1>0, <1>1, <1>2, <1>8, <2>3, <3>2 DEF ReadShape, FrameDone
    <3>4. PICK c \in Nat : c = e.cnt
      BY <1>0, <1>2
    <3>5. c = Bits + 1
      BY <1>0, <1>1, <1>2, <1>8, <2>3, <3>2, <3>4 DEF ReadShape, FrameDone
    <3>6. ReadLeft(e) = 4 * ((Bits + 1) - c) + (4 * Bits + 11)
      BY <1>8, <2>3, <3>4 DEF ReadLeft
    <3>7. ReadLeft(z) = 4 * Bits + 10
      BY <3>5, <3>4, <3>2 DEF ReadLeft
    <3>8. ReadLeft(z) = ReadLeft(e) - 1
      BY <1>0, <1>2, <3>4, <3>6, <3>7, <3>5, <3>2
    <3> QED
      BY <1>8, <2>3, <3>2, <3>3, <3>8
  <2>4. CASE ~FrameDone(e)
    <3>1. z = Goto(m, 2)
      BY <1>8, <2>1, <2>4 DEF ReadClock
    <3>2. /\ z \in Registers /\ z.st = 2 /\ z.cnt = e.cnt /\ z.byte = e.byte
          /\ (z.end <=> e.end) /\ z.dely = e.dely
      BY <3>1, <2>2, GotoSteps
    <3>3. ReadShape(z)
      BY <1>0, <1>1, <1>2, <1>8, <2>4, <3>2 DEF ReadShape, FrameDone
    <3>4. PICK c \in Nat : c = e.cnt
      BY <1>0, <1>2
    <3>5. ReadLeft(e) = 4 * ((Bits + 1) - c) + (4 * Bits + 11)
      BY <1>8, <2>4, <3>4 DEF ReadLeft
    <3>6. ReadLeft(z) = (4 * (Bits - c) + 3) + (4 * Bits + 11)
      BY <3>4, <3>2 DEF ReadLeft
    <3>7. ReadLeft(z) = ReadLeft(e) - 1
      BY <1>0, <1>2, <3>4, <3>5, <3>6, <3>2
    <3> QED
      BY <1>8, <2>4, <3>2, <3>3, <3>7
  <2> QED
    BY <2>3, <2>4
<1>9. CASE e.st = 6
  <2>1. PICK k : k = Lines(e, 1, 0)
    OBVIOUS
  <2>2. k \in Registers /\ k.byte = e.byte /\ (k.end <=> e.end) /\ k.dely = e.dely
    BY <1>1, <2>1 DEF Lines, Registers
  <2>3. PICK m : m = [k EXCEPT !.cnt = 0]
    OBVIOUS
  <2>4. /\ m \in Registers /\ m.cnt = 0 /\ m.byte = e.byte
        /\ (m.end <=> e.end) /\ m.dely = e.dely
    BY <2>2, <2>3, <1>0 DEF Registers
  <2>5. z = Goto(m, 7)
    BY <1>9, <2>1, <2>3 DEF ReadClock
  <2>6. /\ z \in Registers /\ z.st = 7 /\ z.cnt = 0 /\ z.byte = e.byte
        /\ (z.end <=> e.end) /\ z.dely = e.dely
    BY <2>5, <2>4, GotoSteps
  <2>7. ReadShape(z)
    BY <1>0, <1>1, <1>2, <1>9, <2>6 DEF ReadShape, FrameDone
  <2>8. PICK c \in Nat : c = e.cnt
    BY <1>0, <1>2
  <2>9. ReadLeft(e) = 4 * Bits + 10
    BY <1>9, <2>8 DEF ReadLeft
  <2>10. ReadLeft(z) = 4 * (Bits - 0) + 9
    BY <2>8, <2>6 DEF ReadLeft
  <2>11. ReadLeft(z) = ReadLeft(e) - 1
    BY <1>0, <1>2, <2>8, <2>9, <2>10, <2>6
  <2> QED
    BY <1>9, <2>6, <2>7, <2>11
<1>10. CASE e.st = 7
  <2>1. e.cnt <= Bits /\ e.cnt + 1 \in 0 .. Bits + 1
    BY <1>0, <1>1, <1>2, <1>10 DEF ReadShape
  <2>2. PICK x \in Byte : x = IF e.cnt # Bits THEN (2 * e.data + d) % 2 ^ Bits ELSE e.data
    BY <1>2, Shifts
  <2>3. PICK m : m = [e EXCEPT !.dely = 0, !.scl = 1, !.cnt = e.cnt + 1, !.data = x]
    OBVIOUS
  <2>4. /\ m \in Registers /\ m.cnt = e.cnt + 1 /\ m.byte = e.byte
        /\ (m.end <=> e.end) /\ m.dely = 0
    BY <1>1, <2>3, <2>1, <2>2 DEF Registers
  <2>5. z = Goto(m, 8)
    BY <1>10, <2>2, <2>3 DEF ReadClock, ReadBit
  <2>6. /\ z \in Registers /\ z.st = 8 /\ z.cnt = e.cnt + 1 /\ z.byte = e.byte
        /\ (z.end <=> e.end) /\ z.dely = 0
    BY <2>5, <2>4, GotoSteps
  <2>7. ReadShape(z)
    BY <1>0, <1>1, <1>2, <1>10, <2>1, <2>6 DEF ReadShape, FrameDone
  <2>8. PICK c \in Nat : c = e.cnt
    BY <1>0, <1>2
  <2>9. ReadLeft(e) = 4 * (Bits - c) + 9
    BY <1>10, <2>8 DEF ReadLeft
  <2>10. ReadLeft(z) = (4 * ((Bits + 1) - (c + 1)) + (3 - z.dely)) + 5
    BY <2>8, <2>6 DEF ReadLeft
  <2>11. ReadLeft(z) = ReadLeft(e) - 1
    BY <1>0, <1>2, <2>8, <2>9, <2>10, <2>6
  <2> QED
    BY <1>10, <2>6, <2>7, <2>11
<1>11. CASE e.st = 8
  <2>1. e.dely + 1 \in Nat
    BY <1>2
  <2>2. PICK m : m = [e EXCEPT !.dely = e.dely + 1, !.scl = 0]
    OBVIOUS
  <2>3. /\ m \in Registers /\ m.cnt = e.cnt /\ m.byte = e.byte
        /\ (m.end <=> e.end) /\ m.dely = e.dely + 1
    BY <1>1, <2>1, <2>2 DEF Registers
  <2>4. z = ReadBitEnd(e)
    BY <1>11 DEF ReadClock
  <2>5. /\ e.dely # 2 => z = m
        /\ e.dely = 2 /\ e.cnt = Bits => z = Goto([m EXCEPT !.sda = 1], 7)
        /\ e.dely = 2 /\ e.cnt = Bits + 1 => z = Goto([m EXCEPT !.byte = m.byte + 1], 9)
        /\ e.dely = 2 /\ e.cnt # Bits /\ e.cnt # Bits + 1 => z = Goto(m, 7)
    BY <1>0, <1>2, <2>2, <2>4 DEF ReadBitEnd, FrameDone
  <2>6. m.st = 8 /\ e.byte = 0 /\ e.dely \in 0 .. 2
    BY <1>1, <1>11, <2>2 DEF ReadShape, Registers
  <2>7. PICK n : n = [m EXCEPT !.sda = 1]
    OBVIOUS
  <2>8. /\ n \in Registers /\ n.cnt = e.cnt /\ n.byte = e.byte
        /\ (n.end <=> e.end) /\ n.dely = e.dely + 1
    BY <2>3, <2>7 DEF Registers
  <2>9. PICK o : o = [m EXCEPT !.byte = m.byte + 1]
    OBVIOUS
  <2>10. /\ o \in Registers /\ o.cnt = e.cnt /\ o.byte = 1
         /\ (o.end <=> e.end) /\ o.dely = e.dely + 1
    BY <2>3, <2>6, <2>9 DEF Registers
  <2>11. CASE e.dely # 2
    <3>1. /\ z \in Registers /\ z.st = 8 /\ z.cnt = e.cnt /\ z.byte = e.byte
          /\ (z.end <=> e.end) /\ z.dely = e.dely + 1
      BY <2>3, <2>5, <2>6, <2>11
    <3>2. ReadShape(z)
      BY <1>0, <1>1, <1>2, <1>11, <2>11, <2>6, <3>1 DEF ReadShape, FrameDone
    <3>3. PICK c \in Nat : c = e.cnt
      BY <1>0, <1>2
    <3>4. ReadLeft(e) = (4 * ((Bits + 1) - c) + (3 - e.dely)) + 5
      BY <1>11, <2>11, <3>3 DEF ReadLeft
    <3>5. ReadLeft(z) = (4 * ((Bits + 1) - c) + (3 - z.dely)) + 5
      BY <3>3, <3>1 DEF ReadLeft
    <3>6. ReadLeft(z) = ReadLeft(e) - 1
      BY <1>0, <1>2, <3>3, <3>4, <3>5, <1>11, <2>11, <2>6, <3>1
    <3> QED
      BY <1>11, <2>11, <3>1, <3>2, <3>6
  <2>12. CASE e.dely = 2 /\ e.cnt = Bits
    <3>1. z = Goto(n, 7)
      BY <2>5, <2>7, <2>12
    <3>2. /\ z \in Registers /\ z.st = 7 /\ z.cnt = e.cnt /\ z.byte = e.byte
          /\ (z.end <=> e.end) /\ z.dely = e.dely + 1
      BY <3>1, <2>8, GotoSteps
    <3>3. ReadShape(z)
      BY <1>0, <1>1, <1>2, <1>11, <2>12, <2>6, <3>2 DEF ReadShape, FrameDone
    <3>4. PICK c \in Nat : c = e.cnt
      BY <1>0, <1>2
    <3>5. ReadLeft(e) = (4 * ((Bits + 1) - c) + (3 - e.dely)) + 5
      BY <1>11, <2>12, <3>4 DEF ReadLeft
    <3>6. ReadLeft(z) = 4 * (Bits - c) + 9
      BY <3>4, <3>2 DEF ReadLeft
    <3>7. ReadLeft(z) = ReadLeft(e) - 1
      BY <1>0, <1>2, <3>4, <3>5, <3>6, <1>11, <2>12, <2>6, <3>2
    <3> QED
      BY <1>11, <2>12, <3>2, <3>3, <3>7
  <2>13. CASE e.dely = 2 /\ e.cnt = Bits + 1
    <3>1. z = Goto(o, 9)
      BY <2>5, <2>9, <2>13
    <3>2. /\ z \in Registers /\ z.st = 9 /\ z.cnt = e.cnt /\ z.byte = 1
          /\ (z.end <=> e.end) /\ z.dely = e.dely + 1
      BY <3>1, <2>10, GotoSteps
    <3>3. ReadShape(z)
      BY <1>0, <1>1, <1>2, <1>11, <2>13, <2>6, <3>2 DEF ReadShape, FrameDone
    <3>4. PICK c \in Nat : c = e.cnt
      BY <1>0, <1>2
    <3>5. c = Bits + 1
      BY <1>0, <1>1, <1>2, <1>11, <2>13, <2>6, <3>2, <3>4 DEF ReadShape, FrameDone
    <3>6. ReadLeft(e) = (4 * ((Bits + 1) - c) + (3 - e.dely)) + 5
      BY <1>11, <2>13, <3>4 DEF ReadLeft
    <3>7. ReadLeft(z) = 5
      BY <3>5, <3>4, <3>2 DEF ReadLeft
    <3>8. ReadLeft(z) = ReadLeft(e) - 1
      BY <1>0, <1>2, <3>4, <3>6, <3>7, <3>5, <1>11, <2>13, <2>6, <3>2
    <3> QED
      BY <1>11, <2>13, <3>2, <3>3, <3>8
  <2>14. CASE e.dely = 2 /\ e.cnt # Bits /\ e.cnt # Bits + 1
    <3>1. z = Goto(m, 7)
      BY <2>5, <2>14
    <3>2. /\ z \in Registers /\ z.st = 7 /\ z.cnt = e.cnt /\ z.byte = e.byte
          /\ (z.end <=> e.end) /\ z.dely = e.dely + 1
      BY <3>1, <2>3, GotoSteps
    <3>3. ReadShape(z)
      BY <1>0, <1>1, <1>2, <1>11, <2>14, <2>6, <3>2 DEF ReadShape, FrameDone
    <3>4. PICK c \in Nat : c = e.cnt
      BY <1>0, <1>2
    <3>5. ReadLeft(e) = (4 * ((Bits + 1) - c) + (3 - e.dely)) + 5
      BY <1>11, <2>14, <3>4 DEF ReadLeft
    <3>6. ReadLeft(z) = 4 * (Bits - c) + 9
      BY <3>4, <3>2 DEF ReadLeft
    <3>7. ReadLeft(z) = ReadLeft(e) - 1
      BY <1>0, <1>2, <3>4, <3>5, <3>6, <1>11, <2>14, <2>6, <3>2
    <3> QED
      BY <1>11, <2>14, <3>2, <3>3, <3>7
  <2> QED
    BY <2>11, <2>12, <2>13, <2>14
<1>12. CASE e.st = 9
  <2>1. z = Goto(e, 10)
    BY <1>1, <1>12 DEF ReadClock, ReadShape
  <2>2. /\ z \in Registers /\ z.st = 10 /\ z.cnt = e.cnt /\ z.byte = e.byte
        /\ (z.end <=> e.end) /\ z.dely = e.dely
    BY <1>1, <2>1, GotoSteps
  <2>3. ReadShape(z)
    BY <1>0, <1>1, <1>2, <1>12, <2>2 DEF ReadShape, FrameDone
  <2>4. PICK c \in Nat : c = e.cnt
    BY <1>0, <1>2
  <2>5. ReadLeft(e) = 5
    BY <1>12, <2>4 DEF ReadLeft
  <2>6. ReadLeft(z) = 4
    BY <2>4, <2>2 DEF ReadLeft
  <2>7. ReadLeft(z) = ReadLeft(e) - 1
    BY <1>0, <1>2, <2>4, <2>5, <2>6, <2>2
  <2> QED
    BY <1>12, <2>2, <2>3, <2>7
<1>13. CASE e.st = 10
  <2>1. z = Goto(Lines(e, 0, 0), 11)
    BY <1>13 DEF ReadClock, StopLines
  <2>2. /\ z \in Registers /\ z.st = 11 /\ z.cnt = e.cnt /\ z.byte = e.byte
        /\ (z.end <=> e.end) /\ z.dely = e.dely
    BY <2>1, <1>1, LineSteps
  <2>3. ReadShape(z)
    BY <1>0, <1>1, <1>2, <1>13, <2>2 DEF ReadShape, FrameDone
  <2>4. PICK c \in Nat : c = e.cnt
    BY <1>0, <1>2
  <2>5. ReadLeft(e) = 4
    BY <1>13, <2>4 DEF ReadLeft
  <2>6. ReadLeft(z) = 3
    BY <2>4, <2>2 DEF ReadLeft
  <2>7. ReadLeft(z) = ReadLeft(e) - 1
    BY <1>0, <1>2, <2>4, <2>5, <2>6, <2>2
  <2> QED
    BY <1>13, <2>2, <2>3, <2>7
<1>14. CASE e.st = 11
  <2>1. z = Goto(Lines(e, 0, 1), 12)
    BY <1>14 DEF ReadClock, StopLines
  <2>2. /\ z \in Registers /\ z.st = 12 /\ z.cnt = e.cnt /\ z.byte = e.byte
        /\ (z.end <=> e.end) /\ z.dely = e.dely
    BY <2>1, <1>1, LineSteps
  <2>3. ReadShape(z)
    BY <1>0, <1>1, <1>2, <1>14, <2>2 DEF ReadShape, FrameDone
  <2>4. PICK c \in Nat : c = e.cnt
    BY <1>0, <1>2
  <2>5. ReadLeft(e) = 3
    BY <1>14, <2>4 DEF ReadLeft
  <2>6. ReadLeft(z) = 2
    BY <2>4, <2>2 DEF ReadLeft
  <2>7. ReadLeft(z) = ReadLeft(e) - 1
    BY <1>0, <1>2, <2>4, <2>5, <2>6, <2>2
  <2> QED
    BY <1>14, <2>2, <2>3, <2>7
<1>15. CASE e.st = 12
  <2>1. z = Goto(Lines(e, 1, 1), 13)
    BY <1>15 DEF ReadClock, StopLines
  <2>2. /\ z \in Registers /\ z.st = 13 /\ z.cnt = e.cnt /\ z.byte = e.byte
        /\ (z.end <=> e.end) /\ z.dely = e.dely
    BY <2>1, <1>1, LineSteps
  <2>3. ReadShape(z)
    BY <1>0, <1>1, <1>2, <1>15, <2>2 DEF ReadShape, FrameDone
  <2>4. PICK c \in Nat : c = e.cnt
    BY <1>0, <1>2
  <2>5. ReadLeft(e) = 2
    BY <1>15, <2>4 DEF ReadLeft
  <2>6. ReadLeft(z) = 1
    BY <2>4, <2>2 DEF ReadLeft
  <2>7. ReadLeft(z) = ReadLeft(e) - 1
    BY <1>0, <1>2, <2>4, <2>5, <2>6, <2>2
  <2> QED
    BY <1>15, <2>2, <2>3, <2>7
<1>16. CASE e.st = 13
  <2>1. z = Finished(e, 30)
    BY <1>16 DEF ReadClock
  <2>2. z \in Registers /\ z.st = 30 /\ z.cnt = 0 /\ z.byte = 0 /\ z.end /\ z.dely = e.dely
    BY <2>1, <1>1, FinishedSteps
  <2>3. ReadShape(z)
    BY <1>0, <1>1, <1>2, <1>16, <2>2 DEF ReadShape, FrameDone
  <2>4. PICK c \in Nat : c = e.cnt
    BY <1>0, <1>2
  <2>5. ReadLeft(e) = 1
    BY <1>16, <2>4 DEF ReadLeft
  <2>6. ReadLeft(z) = 0
    BY <2>4, <2>2 DEF ReadLeft
  <2>7. ReadLeft(z) = ReadLeft(e) - 1
    BY <1>0, <1>2, <2>4, <2>5, <2>6, <2>2
  <2> QED
    BY <1>16, <2>2, <2>3, <2>7
<1>17. CASE e.st = 30
  <2>1. z = IF g THEN e ELSE Goto(e, 31)
    BY <1>17 DEF ReadClock
  <2> QED
    BY <1>0, <1>1, <1>2, <1>17, <2>1, GotoSteps DEF ReadShape
<1>18. CASE e.st = 31
  <2>1. PICK m : m = [e EXCEPT !.end = FALSE]
    OBVIOUS
  <2>2. /\ m \in Registers /\ m.cnt = e.cnt /\ m.byte = e.byte
        /\ ~m.end /\ m.dely = e.dely
    BY <1>1, <2>1 DEF Registers
  <2>3. z = Goto(m, 1)
    BY <1>18, <2>1 DEF ReadClock
  <2>4. /\ z \in Registers /\ z.st = 1 /\ z.cnt = e.cnt /\ z.byte = e.byte
        /\ ~z.end /\ z.dely = e.dely
    BY <2>3, <2>2, GotoSteps
  <2>5. ReadShape(z)
    BY <1>0, <1>1, <1>2, <1>18, <2>4 DEF ReadShape, FrameDone
  <2>6. PICK c \in Nat : c = e.cnt
    BY <1>0, <1>2
  <2>7. ReadLeft(e) = 8 * Bits + 16
    BY <1>18, <2>6 DEF ReadLeft
  <2>8. ReadLeft(z) = 8 * Bits + 15
    BY <2>6, <2>4 DEF ReadLeft
  <2>9. ReadLeft(z) = ReadLeft(e) - 1
    BY <1>0, <1>2, <2>6, <2>7, <2>8, <2>4
  <2> QED
    BY <1>18, <2>4, <2>5, <2>9
<1> QED
  BY <1>1, <1>3, <1>4, <1>5, <1>6, <1>7, <1>8, <1>9, <1>10, <1>11, <1>12, <1>13, <1>14, <1>15,
     <1>16, <1>17, <1>18

\* The engines on a clock.
LEMMA CamEngines ==
    ASSUME CamInv, Engines
    PROVE  /\ WordShape(word') /\ PointerShape(ptr') /\ ReadShape(rd')
           /\ word.st = 0 => word'.st = IF go.word THEN 30 ELSE 0
           /\ word.st = 30 => word'.st = IF go.word THEN 30 ELSE 31
           /\ word.st = 31 => word'.st = 1
           /\ word.st = 1 => word'.st = 2
           /\ word.st = 2 => word'.st = 3
           /\ word.st \in 1 .. 9 => word'.st \notin {0, 31}
           /\ word.st # 9 => (word'.st = 30 => word.st \in {0, 30})
           /\ word.st # 30 /\ (word.st # 0 \/ go.word) => WordLeft(word') = WordLeft(word) - 1
           /\ ptr.st = 0 => ptr'.st = IF go.ptr THEN 10 ELSE 0
           /\ ptr.st = 10 => ptr'.st = (IF go.ptr THEN 10 ELSE 11) /\ ptr'.end
           /\ ptr.st = 11 => ptr'.st = 12
           /\ ptr.st = 9 => ptr'.st = 10
           /\ ptr.st # 9 /\ (ptr.st = 11 \/ ~ptr.end) => ~ptr'.end
           /\ rd.st = 0 => rd'.st = IF go.read THEN 30 ELSE 0
           /\ rd.st = 30 => rd'.st = IF go.read THEN 30 ELSE 31
           /\ rd.st = 31 => rd'.st = 1
           /\ rd.st = 1 => rd'.st = 2
           /\ rd.st \in 1 .. 13 => rd'.st \notin {0, 1, 31}
           /\ rd.st # 13 => (rd'.st = 30 => rd.st \in {0, 30})
           /\ rd.st # 30 /\ (rd.st # 0 \/ go.read) => ReadLeft(rd') = ReadLeft(rd) - 1
<1>1. /\ WordShape(word) /\ PointerShape(ptr) /\ ReadShape(rd)
      /\ frame \in Byte \X Byte \X Byte \X Byte
      /\ go.word \in BOOLEAN /\ go.ptr \in BOOLEAN /\ go.read \in BOOLEAN
  BY DEF CamInv, CamShapes
<1>2. PICK d \in {0, 1} : d = Sdai
  BY DEF Sdai, Sda
<1>3. rd.st = 1 => frame[1] + 1 \in Byte
  BY CameraAssumption DEF CamInv, AddressIsCameras
<1>4. PICK f : f = SubSeq(frame, 1, 3)
  OBVIOUS
<1>5. Len(f) = 3 /\ f[1] \in Byte /\ f[2] \in Byte /\ f[3] \in Byte
  BY <1>1, <1>4
<1>6. /\ word' = WordClock(word, go.word, frame)
      /\ ptr' = PointerClock(ptr, go.ptr, f, Sdai)
      /\ rd' = ReadClock(rd, go.read, frame[1], Sdai)
  BY <1>4 DEF Engines
<1>7. PICK w : w = word'
  OBVIOUS
<1>8. PICK p : p = ptr'
  OBVIOUS
<1>9. PICK r : r = rd'
  OBVIOUS
<1>10. w = WordClock(word, go.word, frame)
  BY <1>6, <1>7
<1>11. p = PointerClock(ptr, go.ptr, f, d)
  BY <1>2, <1>6, <1>8
<1>12. r = ReadClock(rd, go.read, frame[1], d)
  BY <1>2, <1>6, <1>9
<1>13. /\ WordShape(w)
       /\ word.st = 0 => w.st = IF go.word THEN 30 ELSE 0
       /\ word.st = 30 => w.st = IF go.word THEN 30 ELSE 31
       /\ word.st = 31 => w.st = 1
       /\ word.st = 1 => w.st = 2
       /\ word.st = 2 => w.st = 3
       /\ word.st \in 1 .. 9 => w.st \notin {0, 31}
       /\ word.st # 9 => (w.st = 30 => word.st \in {0, 30})
       /\ word.st # 30 /\ (word.st # 0 \/ go.word) => WordLeft(w) = WordLeft(word) - 1
  BY <1>1, <1>10, WordMoves
<1>14. /\ PointerShape(p)
       /\ ptr.st = 0 => p.st = IF go.ptr THEN 10 ELSE 0
       /\ ptr.st = 10 => p.st = (IF go.ptr THEN 10 ELSE 11) /\ p.end
       /\ ptr.st = 11 => p.st = 12
       /\ ptr.st = 9 => p.st = 10
       /\ ptr.st # 9 /\ (ptr.st = 11 \/ ~ptr.end) => ~p.end
  <2>1. PointerShape(p)
    BY <1>1, <1>5, <1>11, PointerMoves
  <2>2. ptr.st = 0 => p.st = IF go.ptr THEN 10 ELSE 0
    BY <1>1, <1>5, <1>11, PointerMoves, SMTT(30)
  <2>3. ptr.st = 10 => p.st = (IF go.ptr THEN 10 ELSE 11) /\ p.end
    BY <1>1, <1>5, <1>11, PointerMoves, SMTT(30)
  <2>4. ptr.st = 11 => p.st = 12
    BY <1>1, <1>5, <1>11, PointerMoves, SMTT(30)
  <2>6. ptr.st = 9 => p.st = 10
    BY <1>1, <1>5, <1>11, PointerMoves, SMTT(30)
  <2>5. ptr.st # 9 /\ (ptr.st = 11 \/ ~ptr.end) => ~p.end
    BY <1>1, <1>5, <1>11, PointerMoves, SMTT(30)
  <2> QED
    BY <2>1, <2>2, <2>3, <2>4, <2>5, <2>6
<1>15. /\ ReadShape(r)
       /\ rd.st = 0 => r.st = IF go.read THEN 30 ELSE 0
       /\ rd.st = 30 => r.st = IF go.read THEN 30 ELSE 31
       /\ rd.st = 31 => r.st = 1
       /\ rd.st = 1 => r.st = 2
       /\ rd.st \in 1 .. 13 => r.st \notin {0, 1, 31}
       /\ rd.st # 13 => (r.st = 30 => rd.st \in {0, 30})
       /\ rd.st # 30 /\ (rd.st # 0 \/ go.read) => ReadLeft(r) = ReadLeft(rd) - 1
  BY <1>1, <1>3, <1>12, ReadMoves, SMTT(30)
<1> QED
  BY <1>7, <1>8, <1>9, <1>13, <1>14, <1>15

\* What is asked of the sequencer's registers after a clock.
CamMoved ==
    /\ st' \in (0 .. 10) \cup {28, 30, 31, 32, 33, 34, 35, 40, 41, 42}
    /\ go' \in [word : BOOLEAN, ptr : BOOLEAN, read : BOOLEAN]
    /\ dely' \in Nat /\ cnt' \in 0 .. CntSize - 1 /\ id1' \in Byte
    /\ frame' \in Byte \X Byte \X Byte \X Byte
    /\ GoLow' /\ Armed' /\ OneAtWork' /\ AddressIsCameras'

\* The engines after a clock of the running sequencer, by its state before.
LEMMA CamIdle ==
    ASSUME CamInv, resetN, Engines
    PROVE  /\ word'.st # 0 /\ ptr'.st # 0 /\ rd'.st # 0
           /\ word'.st = 31 => st = 32 /\ dely = 0
           /\ rd'.st = 31 => st = 7 /\ dely = 0
           /\ ptr'.st = 11 /\ ptr'.end => st = 3 /\ dely = 0
           /\ st \notin {32, 33, 34} => word'.st = 30
           /\ st \notin {7, 8, 9} => rd'.st = 30
           /\ st > 4 => ptr'.st = 10
           /\ rd'.st \in {1, 31} => st = 7
<1>1. /\ word.st \in (1 .. 9) \cup {30, 31} /\ rd.st \in (1 .. 13) \cup {30, 31}
      /\ ptr.st \in 2 .. 20 /\ (ptr.end => ptr.st \in {10, 11}) /\ (ptr.st = 10 => ptr.end)
  BY DEF CamInv, CamShapes, Armed, WordShape, PointerShape, ReadShape
<1>2. /\ word.st = 31 => ~go.word
      /\ rd.st = 31 => ~go.read
      /\ ptr.st = 11 /\ ptr.end => ~go.ptr
  BY DEF CamInv, Armed
<1>3. /\ ~go.word => st = 32 /\ (word.st = 30 => dely = 0)
      /\ ~go.read => st = 7 /\ (rd.st = 30 => dely = 0)
      /\ ~go.ptr => st = 3 /\ (ptr.st = 10 => dely = 0)
  BY DEF CamInv, GoLow
<1>4. /\ st \notin {32, 33, 34} => word.st = 30
      /\ st \notin {7, 8, 9} => rd.st = 30
      /\ st > 4 => ptr.st = 10
  BY DEF CamInv, OneAtWork
<1>5. word'.st # 0 /\ (word'.st = 31 => word.st = 30 /\ ~go.word)
  BY <1>1, CamEngines
<1>6. /\ rd'.st # 0 /\ (rd'.st = 31 => rd.st = 30 /\ ~go.read)
      /\ rd'.st = 1 => rd.st = 31
  BY <1>1, CamEngines
<1>7. ptr'.st # 0
  <2>1. ptr.st \in 2 .. 8 \cup 12 .. 20 \cup {11} /\ ptr.st # 9 => ~ptr'.end \/ ptr.end
    BY <1>1, CamEngines
  <2>2. PointerShape(ptr')
    BY CamEngines
  <2>3. ptr.st = 9 \/ ptr.st = 10 \/ (ptr.st # 9 /\ (ptr.st = 11 \/ ~ptr.end))
    BY <1>1
  <2> QED
    BY <2>2, <2>3, CamEngines DEF PointerShape
<1>8. ptr'.st = 11 /\ ptr'.end => ptr.st = 10 /\ ~go.ptr
  <2>1. ptr.st = 9 \/ ptr.st = 10 \/ (ptr.st # 9 /\ (ptr.st = 11 \/ ~ptr.end))
    BY <1>1
  <2> QED
    BY <2>1, CamEngines
<1>9. st \notin {32, 33, 34} => word'.st = 30
  BY <1>3, <1>4, CamEngines
<1>10. st \notin {7, 8, 9} => rd'.st = 30
  BY <1>3, <1>4, CamEngines
<1>11. st > 4 => ptr'.st = 10
  BY <1>3, <1>4, CamEngines
<1> QED
  BY <1>2, <1>3, <1>5, <1>6, <1>7, <1>8, <1>9, <1>10, <1>11

\* The actions that touch no engine.
LEMMA CamQuiet ==
    ASSUME CamInv, resetN, Engines, resetN' = resetN,
           \/ Begin \/ Pass \/ AfterPause \/ CompareId \/ BeforeTable \/ FirstWord
           \/ TakePause \/ NextWord \/ PauseBegins \/ Pausing
    PROVE  CamMoved
<1>1. CamShapes /\ GoLow /\ OneAtWork /\ AddressIsCameras
  BY DEF CamInv
<1>2. /\ st \in {0, 1, 5, 8, 33, 42, 10, 28, 30, 31, 35, 40, 41}
      /\ cnt' = IF st = 0 THEN 0 ELSE cnt
      /\ id1' = id1 /\ frame' = frame /\ dely' \in Nat
      /\ st = 0 => st' = 1
      /\ st \in {1, 5, 8, 33} => st' = st + 1
      /\ st \in {10, 28, 30, 31, 35, 40, 41, 42} => st' \in {1, 28, 30, 31, 35, 40, 41, 42}
      /\ st = 10 => st' \in {1, 28}
      /\ st # 10 => (st' = 1 => st = 0)
  BY <1>1 DEF Begin, Pass, AfterPause, CompareId, BeforeTable, FirstWord, TakePause, NextWord,
              PauseBegins, Pausing, CamShapes
<1>3. go.word /\ go.ptr /\ go.read
  BY <1>1, <1>2 DEF GoLow
<1>4. go' \in [word : BOOLEAN, ptr : BOOLEAN, read : BOOLEAN] /\ go'.word /\ go'.ptr /\ go'.read
  BY <1>1, <1>3 DEF Begin, Pass, AfterPause, CompareId, BeforeTable, FirstWord, TakePause,
                    NextWord, PauseBegins, Pausing, Idle, CamShapes
<1>5. st' \in {1, 2, 6, 9, 28, 30, 31, 34, 35, 40, 41, 42}
  BY <1>2
<1>6. cnt' \in 0 .. CntSize - 1
  BY <1>1, <1>2, CameraAssumption DEF CamShapes
<1>7. GoLow'
  BY <1>4, <1>5 DEF GoLow
<1>8. Armed'
  BY <1>2, <1>4, CamIdle DEF Armed
<1>9. OneAtWork'
  BY <1>2, <1>5, CamIdle DEF OneAtWork
<1>10. AddressIsCameras'
  BY <1>1, <1>2, <1>5, CamIdle DEF AddressIsCameras
<1> QED
  BY <1>1, <1>2, <1>4, <1>5, <1>6, <1>7, <1>8, <1>9, <1>10 DEF CamMoved, CamShapes

\* The sequencer points the camera at its identity.
LEMMA CamPoints ==
    ASSUME CamInv, resetN, Engines, resetN' = resetN, PointAtId
    PROVE  CamMoved
<1>1. CamShapes /\ GoLow /\ Armed /\ OneAtWork /\ AddressIsCameras
  BY DEF CamInv
<1>2. st = 2 /\ cnt' = cnt /\ id1' = id1 /\ go.word /\ go.ptr /\ go.read
  BY <1>1 DEF PointAtId, GoLow
<1>3. frame' = IF cnt = 0 THEN <<Camera, IdPointer[1], IdPointer[2], frame[4]>> ELSE frame
  BY DEF PointAtId
<1>4. frame' \in Byte \X Byte \X Byte \X Byte /\ frame'[1] = Camera
  <2>1. CASE cnt = 0
    <3>1. IdPointer[1] \in Byte /\ IdPointer[2] \in Byte /\ Camera \in Byte /\ frame[4] \in Byte
      BY <1>1, CameraAssumption DEF CamShapes
    <3> QED
      BY <1>3, <2>1, <3>1
  <2>2. CASE cnt # 0
    BY <1>1, <1>2, <1>3, <2>2 DEF CamShapes, AddressIsCameras
  <2> QED
    BY <2>1, <2>2
<1>5. \/ /\ ptr.end /\ go' = [go EXCEPT !.ptr = FALSE] /\ st' = 3 /\ dely' = 0
      \/ go' = go /\ st' = 2 /\ dely' = dely
  BY <1>2 DEF PointAtId
<1>6. /\ go' \in [word : BOOLEAN, ptr : BOOLEAN, read : BOOLEAN] /\ go'.word /\ go'.read
      /\ go'.ptr <=> st' = 2
      /\ st' \in {2, 3} /\ dely' \in Nat
  <2>1. go \in [word : BOOLEAN, ptr : BOOLEAN, read : BOOLEAN] /\ dely \in Nat
    BY <1>1 DEF CamShapes
  <2>2. CASE go' = [go EXCEPT !.ptr = FALSE] /\ st' = 3 /\ dely' = 0
    <3>1. /\ go' \in [word : BOOLEAN, ptr : BOOLEAN, read : BOOLEAN]
          /\ ~go'.ptr /\ go'.word /\ go'.read
      BY <1>2, <2>1, <2>2
    <3> QED
      BY <2>2, <3>1
  <2>3. CASE go' = go /\ st' = 2 /\ dely' = dely
    BY <1>2, <2>1, <2>3
  <2> QED
    BY <1>5, <2>2, <2>3
<1>7. st' = 3 => dely' = 0 /\ ptr'.st = 10 /\ ptr'.end
  <2>1. ptr.end => ptr.st = 10
    BY <1>1, <1>2 DEF CamShapes, Armed, PointerShape
  <2> QED
    BY <1>2, <1>5, <2>1, CamEngines
<1>8. GoLow'
  BY <1>6, <1>7 DEF GoLow
<1>9. Armed'
  BY <1>2, <1>6, CamIdle DEF Armed
<1>10. OneAtWork'
  BY <1>2, <1>6, CamIdle DEF OneAtWork
<1>11. AddressIsCameras'
  BY <1>4 DEF AddressIsCameras
<1> QED
  BY <1>1, <1>2, <1>4, <1>6, <1>8, <1>9, <1>10, <1>11 DEF CamMoved, CamShapes

\* The pointer engine's GO stays low.
LEMMA CamHoldsPointer ==
    ASSUME CamInv, resetN, Engines, resetN' = resetN, HoldGo(3, "ptr")
    PROVE  CamMoved
<1>1. CamShapes /\ GoLow /\ Armed /\ OneAtWork /\ AddressIsCameras
  BY DEF CamInv
<1>2. /\ st = 3 /\ cnt' = cnt /\ id1' = id1 /\ frame' = frame /\ dely' = dely + 1
      /\ go.word /\ go.read /\ ~go.ptr /\ dely \in 0 .. 2
      /\ ptr.st = 10 + dely /\ (ptr.end <=> dely < 2)
  BY <1>1 DEF HoldGo, GoLow
<1>3. IF dely = 2 THEN go' = [go EXCEPT !.ptr = TRUE] /\ st' = 4 ELSE go' = go /\ st' = 3
  BY <1>2 DEF HoldGo
<1>4. /\ go' \in [word : BOOLEAN, ptr : BOOLEAN, read : BOOLEAN] /\ go'.word /\ go'.read
      /\ ~go'.ptr <=> st' = 3
      /\ st' \in {3, 4} /\ dely' \in Nat /\ (st' = 3 <=> dely # 2)
  <2>1. go \in [word : BOOLEAN, ptr : BOOLEAN, read : BOOLEAN] /\ dely' \in Nat
    BY <1>1, <1>2 DEF CamShapes
  <2>2. CASE dely = 2
    <3>1. go' = [go EXCEPT !.ptr = TRUE] /\ st' = 4
      BY <1>3, <2>2
    <3>2. /\ go' \in [word : BOOLEAN, ptr : BOOLEAN, read : BOOLEAN]
          /\ go'.ptr /\ go'.word /\ go'.read
      BY <1>2, <2>1, <3>1
    <3> QED
      BY <2>1, <2>2, <3>1, <3>2
  <2>3. CASE dely # 2
    BY <1>2, <1>3, <2>1, <2>3
  <2> QED
    BY <2>2, <2>3
<1>5. dely = 0 => ptr'.st = 11 /\ ptr'.end
  BY <1>2, CamEngines
<1>6. dely = 1 => ptr'.st = 12 /\ ~ptr'.end
  <2>1. dely = 1 => ptr.st = 11
    BY <1>2
  <2> QED
    BY <2>1, CamEngines
<1>7. st' = 3 => dely' \in 0 .. 2 /\ ptr'.st = 10 + dely' /\ (ptr'.end <=> dely' < 2)
  BY <1>2, <1>4, <1>5, <1>6
<1>8. GoLow'
  BY <1>4, <1>7 DEF GoLow
<1>9. Armed'
  BY <1>2, <1>4, CamIdle DEF Armed
<1>10. OneAtWork'
  BY <1>2, <1>4, CamIdle DEF OneAtWork
<1>11. AddressIsCameras'
  BY <1>1, <1>2 DEF AddressIsCameras
<1> QED
  BY <1>1, <1>2, <1>4, <1>8, <1>9, <1>10, <1>11 DEF CamMoved, CamShapes

\* The pointer has been sent.
LEMMA CamPointed ==
    ASSUME CamInv, resetN, Engines, resetN' = resetN, Pointed
    PROVE  CamMoved
<1>1. CamShapes /\ GoLow /\ Armed /\ OneAtWork /\ AddressIsCameras
  BY DEF CamInv
<1>2. /\ st = 4 /\ cnt' = cnt /\ id1' = id1 /\ frame' = frame /\ dely' = dely /\ go' = go
      /\ go.word /\ go.read /\ go.ptr /\ st' \in {4, 5} /\ (st' = 5 => ptr.end)
  BY <1>1 DEF Pointed, GoLow
<1>3. st' = 5 => ptr'.st = 10
  <2>1. ptr.end => ptr.st = 10
    BY <1>1, <1>2 DEF CamShapes, Armed, PointerShape
  <2> QED
    BY <1>2, <2>1, CamEngines
<1>4. GoLow'
  BY <1>2 DEF GoLow
<1>5. Armed'
  BY <1>2, CamIdle DEF Armed
<1>6. OneAtWork'
  BY <1>2, <1>3, CamIdle DEF OneAtWork
<1>7. AddressIsCameras'
  BY <1>1, <1>2, CamIdle DEF AddressIsCameras
<1> QED
  BY <1>1, <1>2, <1>4, <1>5, <1>6, <1>7 DEF CamMoved, CamShapes

\* The sequencer starts the read.
LEMMA CamAsks ==
    ASSUME CamInv, resetN, Engines, resetN' = resetN, ReadId
    PROVE  CamMoved
<1>1. CamShapes /\ GoLow /\ Armed /\ OneAtWork /\ AddressIsCameras
  BY DEF CamInv
<1>2. st = 6 /\ cnt' = cnt /\ id1' = id1 /\ frame' = frame /\ go.word /\ go.ptr /\ go.read
  BY <1>1 DEF ReadId, GoLow
<1>3. \/ go' = [go EXCEPT !.read = FALSE] /\ st' = 7 /\ dely' = 0
      \/ go' = go /\ st' = 6 /\ dely' = dely
  BY <1>2 DEF ReadId
<1>4. /\ go' \in [word : BOOLEAN, ptr : BOOLEAN, read : BOOLEAN] /\ go'.word /\ go'.ptr
      /\ go'.read <=> st' = 6
      /\ st' \in {6, 7} /\ dely' \in Nat /\ (st' = 7 => dely' = 0)
  <2>1. go \in [word : BOOLEAN, ptr : BOOLEAN, read : BOOLEAN] /\ dely \in Nat
    BY <1>1 DEF CamShapes
  <2>2. CASE go' = [go EXCEPT !.read = FALSE] /\ st' = 7 /\ dely' = 0
    <3>1. /\ go' \in [word : BOOLEAN, ptr : BOOLEAN, read : BOOLEAN]
          /\ ~go'.read /\ go'.word /\ go'.ptr
      BY <1>2, <2>1, <2>2
    <3> QED
      BY <2>2, <3>1
  <2>3. CASE go' = go /\ st' = 6 /\ dely' = dely
    BY <1>2, <2>1, <2>3
  <2> QED
    BY <1>3, <2>2, <2>3
<1>5. rd'.st = 30
  BY <1>2, CamIdle
<1>6. GoLow'
  BY <1>4, <1>5 DEF GoLow
<1>7. Armed'
  BY <1>2, <1>4, CamIdle DEF Armed
<1>8. OneAtWork'
  BY <1>2, <1>4, CamIdle DEF OneAtWork
<1>9. AddressIsCameras'
  BY <1>1, <1>2 DEF AddressIsCameras
<1> QED
  BY <1>1, <1>2, <1>4, <1>6, <1>7, <1>8, <1>9 DEF CamMoved, CamShapes

\* The read engine's GO stays low.
LEMMA CamHoldsRead ==
    ASSUME CamInv, resetN, Engines, resetN' = resetN, HoldGo(7, "read")
    PROVE  CamMoved
<1>1. CamShapes /\ GoLow /\ Armed /\ OneAtWork /\ AddressIsCameras
  BY DEF CamInv
<1>2. /\ st = 7 /\ cnt' = cnt /\ id1' = id1 /\ frame' = frame /\ dely' = dely + 1
      /\ go.word /\ go.ptr /\ ~go.read /\ dely \in 0 .. 2
      /\ rd.st = IF dely = 0 THEN 30 ELSE IF dely = 1 THEN 31 ELSE 1
  BY <1>1 DEF HoldGo, GoLow
<1>3. IF dely = 2 THEN go' = [go EXCEPT !.read = TRUE] /\ st' = 8 ELSE go' = go /\ st' = 7
  BY <1>2 DEF HoldGo
<1>4. /\ go' \in [word : BOOLEAN, ptr : BOOLEAN, read : BOOLEAN] /\ go'.word /\ go'.ptr
      /\ ~go'.read <=> st' = 7
      /\ st' \in {7, 8} /\ dely' \in Nat /\ (st' = 7 <=> dely # 2)
  <2>1. go \in [word : BOOLEAN, ptr : BOOLEAN, read : BOOLEAN] /\ dely' \in Nat
    BY <1>1, <1>2 DEF CamShapes
  <2>2. CASE dely = 2
    <3>1. go' = [go EXCEPT !.read = TRUE] /\ st' = 8
      BY <1>3, <2>2
    <3>2. /\ go' \in [word : BOOLEAN, ptr : BOOLEAN, read : BOOLEAN]
          /\ go'.read /\ go'.word /\ go'.ptr
      BY <1>2, <2>1, <3>1
    <3> QED
      BY <2>1, <2>2, <3>1, <3>2
  <2>3. CASE dely # 2
    BY <1>2, <1>3, <2>1, <2>3
  <2> QED
    BY <2>2, <2>3
<1>5. dely = 0 => rd'.st = 31
  BY <1>2, CamEngines
<1>6. dely = 1 => rd'.st = 1
  <2>1. dely = 1 => rd.st = 31
    BY <1>2
  <2> QED
    BY <2>1, CamEngines
<1>7. st' = 7 => /\ dely' \in 0 .. 2
                 /\ rd'.st = IF dely' = 0 THEN 30 ELSE IF dely' = 1 THEN 31 ELSE 1
  BY <1>2, <1>4, <1>5, <1>6
<1>8. GoLow'
  BY <1>4, <1>7 DEF GoLow
<1>9. Armed'
  BY <1>2, <1>4, CamIdle DEF Armed
<1>10. OneAtWork'
  BY <1>2, <1>4, CamIdle DEF OneAtWork
<1>11. AddressIsCameras'
  BY <1>1, <1>2 DEF AddressIsCameras
<1> QED
  BY <1>1, <1>2, <1>4, <1>8, <1>9, <1>10, <1>11 DEF CamMoved, CamShapes

\* The identity has been read.
LEMMA CamHasRead ==
    ASSUME CamInv, resetN, Engines, resetN' = resetN, IdRead
    PROVE  CamMoved
<1>1. CamShapes /\ GoLow /\ Armed /\ OneAtWork /\ AddressIsCameras
  BY DEF CamInv
<1>2. /\ st = 9 /\ frame' = frame /\ dely' = dely /\ go' = go
      /\ go.word /\ go.read /\ go.ptr /\ st' \in {9, 10} /\ (st' = 10 => rd.end)
      /\ id1' \in {id1, rd.data} /\ cnt' \in {cnt, (cnt + 1) % CntSize}
  BY <1>1 DEF IdRead, GoLow
<1>3. id1' \in Byte
  BY <1>1, <1>2, Fields DEF CamShapes, ReadShape
<1>4. cnt' \in 0 .. CntSize - 1
  <2>1. PICK x \in Nat : x = cnt + 1
    BY <1>1, CameraAssumption DEF CamShapes
  <2>2. x % CntSize \in 0 .. CntSize - 1
    BY CameraAssumption, Remainder
  <2> QED
    BY <1>1, <1>2, <2>1, <2>2 DEF CamShapes
<1>5. st' = 10 => rd'.st = 30
  <2>1. rd.end => rd.st = 30
    BY <1>1, <1>2 DEF CamShapes, Armed, ReadShape
  <2> QED
    BY <1>2, <2>1, CamEngines
<1>6. GoLow'
  BY <1>2 DEF GoLow
<1>7. Armed'
  BY <1>2, CamIdle DEF Armed
<1>8. OneAtWork'
  BY <1>2, <1>5, CamIdle DEF OneAtWork
<1>9. AddressIsCameras'
  BY <1>1, <1>2 DEF AddressIsCameras
<1> QED
  BY <1>1, <1>2, <1>3, <1>4, <1>6, <1>7, <1>8, <1>9 DEF CamMoved, CamShapes

\* The sequencer takes a word from the table.
LEMMA CamTakes ==
    ASSUME CamInv, resetN, Engines, resetN' = resetN, TakeWord
    PROVE  CamMoved
<1>1. CamShapes /\ GoLow /\ Armed /\ OneAtWork /\ AddressIsCameras
  BY DEF CamInv
<1>2. st = 31 /\ cnt' = cnt /\ id1' = id1 /\ frame' = tab /\ go.word /\ go.ptr /\ go.read
  BY <1>1 DEF TakeWord, GoLow
<1>3. \/ go' = [go EXCEPT !.word = FALSE] /\ st' = 32 /\ dely' = 0
      \/ go' = go /\ st' = 31 /\ dely' = dely
  BY <1>2 DEF TakeWord
<1>4. /\ go' \in [word : BOOLEAN, ptr : BOOLEAN, read : BOOLEAN] /\ go'.ptr /\ go'.read
      /\ go'.word <=> st' = 31
      /\ st' \in {31, 32} /\ dely' \in Nat /\ (st' = 32 => dely' = 0)
  <2>1. go \in [word : BOOLEAN, ptr : BOOLEAN, read : BOOLEAN] /\ dely \in Nat
    BY <1>1 DEF CamShapes
  <2>2. CASE go' = [go EXCEPT !.word = FALSE] /\ st' = 32 /\ dely' = 0
    <3>1. /\ go' \in [word : BOOLEAN, ptr : BOOLEAN, read : BOOLEAN]
          /\ ~go'.word /\ go'.ptr /\ go'.read
      BY <1>2, <2>1, <2>2
    <3> QED
      BY <2>2, <3>1
  <2>3. CASE go' = go /\ st' = 31 /\ dely' = dely
    BY <1>2, <2>1, <2>3
  <2> QED
    BY <1>3, <2>2, <2>3
<1>5. tab \in Byte \X Byte \X Byte \X Byte
  BY <1>1, CameraAssumption DEF CamShapes, ToSet
<1>6. word'.st = 30
  BY <1>2, CamIdle
<1>7. GoLow'
  BY <1>4, <1>6 DEF GoLow
<1>8. Armed'
  BY <1>2, <1>4, CamIdle DEF Armed
<1>9. OneAtWork'
  BY <1>2, <1>4, CamIdle DEF OneAtWork
<1>10. AddressIsCameras'
  BY <1>2, <1>4, CamIdle DEF AddressIsCameras
<1> QED
  BY <1>1, <1>2, <1>4, <1>5, <1>7, <1>8, <1>9, <1>10 DEF CamMoved, CamShapes

\* The word engine's GO stays low.
LEMMA CamHoldsWord ==
    ASSUME CamInv, resetN, Engines, resetN' = resetN, HoldWordGo
    PROVE  CamMoved
<1>1. CamShapes /\ GoLow /\ Armed /\ OneAtWork /\ AddressIsCameras
  BY DEF CamInv
<1>2. /\ st = 32 /\ cnt' = cnt /\ id1' = id1 /\ frame' = frame
      /\ go.read /\ go.ptr /\ ~go.word /\ dely \in 0 .. 3
      /\ word.st = IF dely = 0 THEN 30 ELSE IF dely = 1 THEN 31 ELSE dely - 1
  BY <1>1 DEF HoldWordGo, GoLow
<1>3. IF dely = 3 THEN go' = [go EXCEPT !.word = TRUE] /\ st' = 33 /\ dely' = dely
      ELSE go' = go /\ st' = 32 /\ dely' = dely + 1
  BY <1>2 DEF HoldWordGo
<1>4. /\ go' \in [word : BOOLEAN, ptr : BOOLEAN, read : BOOLEAN] /\ go'.ptr /\ go'.read
      /\ ~go'.word <=> st' = 32
      /\ st' \in {32, 33} /\ dely' \in Nat /\ (st' = 32 => dely # 3 /\ dely' = dely + 1)
      /\ dely # 3 => st' = 32
  <2>1. go \in [word : BOOLEAN, ptr : BOOLEAN, read : BOOLEAN]
    BY <1>1 DEF CamShapes
  <2>2. CASE dely = 3
    <3>1. go' = [go EXCEPT !.word = TRUE] /\ st' = 33 /\ dely' = dely
      BY <1>3, <2>2
    <3>2. /\ go' \in [word : BOOLEAN, ptr : BOOLEAN, read : BOOLEAN]
          /\ go'.word /\ go'.ptr /\ go'.read
      BY <1>2, <2>1, <3>1
    <3> QED
      BY <2>1, <2>2, <3>1, <3>2
  <2>3. CASE dely # 3
    BY <1>2, <1>3, <2>1, <2>3
  <2> QED
    BY <2>2, <2>3
<1>5. dely = 0 => word'.st = 31
  BY <1>2, CamEngines
<1>6. dely = 1 => word'.st = 1
  <2>1. dely = 1 => word.st = 31
    BY <1>2
  <2> QED
    BY <2>1, CamEngines
<1>7. dely = 2 => word'.st = 2
  <2>1. dely = 2 => word.st = 1
    BY <1>2
  <2> QED
    BY <2>1, CamEngines
<1>8. st' = 32 => /\ dely' \in 0 .. 3
                  /\ word'.st = IF dely' = 0 THEN 30 ELSE IF dely' = 1 THEN 31 ELSE dely' - 1
  BY <1>2, <1>4, <1>5, <1>6, <1>7
<1>9. GoLow'
  BY <1>4, <1>8 DEF GoLow
<1>10. Armed'
  BY <1>2, <1>4, CamIdle DEF Armed
<1>11. OneAtWork'
  BY <1>2, <1>4, CamIdle DEF OneAtWork
<1>12. AddressIsCameras'
  BY <1>2, <1>4, CamIdle DEF AddressIsCameras
<1> QED
  BY <1>1, <1>2, <1>4, <1>9, <1>10, <1>11, <1>12 DEF CamMoved, CamShapes

\* A word has been sent.
LEMMA CamWordSent ==
    ASSUME CamInv, resetN, Engines, resetN' = resetN, WordSent
    PROVE  CamMoved
<1>1. CamShapes /\ GoLow /\ Armed /\ OneAtWork /\ AddressIsCameras
  BY DEF CamInv
<1>2. /\ st = 34 /\ cnt' = cnt /\ id1' = id1 /\ frame' = frame /\ dely' = dely /\ go' = go
      /\ go.word /\ go.read /\ go.ptr /\ st' \in {34, 35} /\ (st' = 35 => word.end)
  BY <1>1 DEF WordSent, GoLow
<1>3. st' = 35 => word'.st = 30
  <2>1. word.end => word.st = 30
    BY <1>1, <1>2 DEF CamShapes, Armed, WordShape
  <2> QED
    BY <1>2, <2>1, CamEngines
<1>4. GoLow'
  BY <1>2 DEF GoLow
<1>5. Armed'
  BY <1>2, CamIdle DEF Armed
<1>6. OneAtWork'
  BY <1>2, <1>3, CamIdle DEF OneAtWork
<1>7. AddressIsCameras'
  BY <1>2, CamIdle DEF AddressIsCameras
<1> QED
  BY <1>1, <1>2, <1>4, <1>5, <1>6, <1>7 DEF CamMoved, CamShapes

\* WCNT and the table's output register on a clock of the running sequencer.
LEMMA CamTable ==
    ASSUME CamInv, Sequencer, TableOutput
    PROVE  TableCounts' /\ tab' \in ToSet(Table)
<1>1. PICK n \in Nat : n = Len(Table)
  BY CameraAssumption
<1>2. n > 0 /\ \A i \in 1 .. n : Table[i] \in ToSet(Table)
  BY <1>1, CameraAssumption DEF ToSet
<1>3. /\ wcnt \in 0 .. n
      /\ st \in (0 .. 10) \cup {28, 30} => wcnt = 0
      /\ st \in {31, 32, 33, 34, 40, 41, 42} => wcnt < n
      /\ st \in {31, 40, 41} => tab = Table[wcnt + 1]
      /\ st \in {40, 41} => tab[1] = DelayType
      /\ st \in {32, 33, 34} => frame = Table[wcnt + 1]
  BY <1>1 DEF CamInv, TableCounts
<1>4. tab' = IF wcnt < n THEN Table[wcnt + 1] ELSE tab
  BY <1>1 DEF TableOutput
<1>5. tab' \in ToSet(Table)
  <2>1. tab \in ToSet(Table)
    BY DEF CamInv, CamShapes
  <2>2. wcnt < n => wcnt + 1 \in 1 .. n
    BY <1>3
  <2> QED
    BY <1>2, <1>4, <2>1, <2>2
<1>6. Table[n][1] # DelayType
  BY <1>1, EndsWithWord DEF Last
<1>7. SUFFICES
        /\ wcnt' \in 0 .. n
        /\ st' \in (0 .. 10) \cup {28, 30} => wcnt' = 0
        /\ st' \in {31, 32, 33, 34, 40, 41, 42} => wcnt' < n
        /\ st' \in {31, 40, 41} => tab' = Table[wcnt' + 1]
        /\ st' \in {40, 41} => tab'[1] = DelayType
        /\ st' \in {32, 33, 34} => frame' = Table[wcnt' + 1]
  BY <1>1, <1>5 DEF TableCounts
<1>8. CASE Begin
  <2>1. st' = 1 /\ wcnt' = 0
    BY <1>8 DEF Begin
  <2> QED
    BY <2>1
<1>9. CASE \/ PointAtId \/ HoldGo(3, "ptr") \/ Pointed \/ ReadId \/ HoldGo(7, "read") \/ IdRead
           \/ CompareId \/ BeforeTable
  <2>1. wcnt' = wcnt /\ st \in (0 .. 10) \cup {28} /\ st' \in (1 .. 10) \cup {28, 30}
    BY <1>9 DEF PointAtId, HoldGo, Pointed, ReadId, IdRead, CompareId, BeforeTable
  <2> QED
    BY <1>2, <1>3, <2>1
<1>10. CASE Pass
  <2>1. wcnt' = wcnt /\ frame' = frame /\ st \in {1, 5, 8, 33} /\ st' = st + 1
    BY <1>10 DEF Pass
  <2> QED
    BY <1>2, <1>3, <2>1
<1>11. CASE AfterPause \/ FirstWord \/ NextWord
  <2>1. /\ wcnt' = IF st = 30 THEN 0 ELSE wcnt
        /\ st \in {30, 42, 35} /\ st' \in {31, 35} /\ (st' = 31 => st # 35 \/ wcnt # n)
    BY <1>1, <1>11 DEF AfterPause, FirstWord, NextWord
  <2>2. wcnt' = wcnt
    BY <1>3, <2>1
  <2>3. st' = 31 => wcnt < n
    BY <1>2, <1>3, <2>1
  <2> QED
    BY <1>3, <1>4, <2>1, <2>2, <2>3
<1>12. CASE TakeWord
  <2>1. st = 31 /\ wcnt' = wcnt /\ frame' = tab /\ st' \in {31, 32}
    BY <1>12 DEF TakeWord
  <2> QED
    BY <1>3, <1>4, <2>1
<1>13. CASE TakePause \/ PauseBegins
  <2>1. /\ st \in {31, 40} /\ wcnt' = wcnt /\ st' \in {40, 41}
        /\ st = 31 => tab[1] = DelayType
    BY <1>13 DEF TakePause, PauseBegins
  <2>2. tab' = tab
    BY <1>3, <1>4, <2>1
  <2>3. tab[1] = DelayType
    BY <1>3, <2>1
  <2> QED
    BY <1>3, <2>1, <2>2, <2>3
<1>14. CASE HoldWordGo
  <2>1. st = 32 /\ wcnt' = wcnt /\ frame' = frame /\ st' \in {32, 33}
    BY <1>14 DEF HoldWordGo
  <2> QED
    BY <1>3, <2>1
<1>15. CASE WordSent
  <2>1. /\ st = 34 /\ frame' = frame
        /\ (wcnt' = wcnt + 1 /\ st' = 35) \/ (wcnt' = wcnt /\ st' = 34)
    BY <1>15 DEF WordSent
  <2> QED
    BY <1>3, <2>1
<1>16. CASE Pausing
  <2>1. /\ st = 41 /\ frame' = frame
        /\ (wcnt' = wcnt + 1 /\ st' = 42) \/ (wcnt' = wcnt /\ st' = 41)
    BY <1>16 DEF Pausing
  <2>2. tab' = tab /\ tab[1] = DelayType /\ wcnt < n /\ tab = Table[wcnt + 1]
    BY <1>3, <1>4, <2>1
  <2>3. wcnt + 1 # n
    BY <1>6, <2>2
  <2>4. CASE wcnt' = wcnt + 1 /\ st' = 42
    BY <1>3, <2>2, <2>3, <2>4
  <2>5. CASE wcnt' = wcnt /\ st' = 41
    BY <1>3, <2>2, <2>5
  <2> QED
    BY <2>1, <2>4, <2>5
<1> QED
  BY <1>8, <1>9, <1>10, <1>11, <1>12, <1>13, <1>14, <1>15, <1>16 DEF Sequencer

\* How long a word and a read can take.
LEMMA CamLeft ==
    /\ \A e : WordShape(e) => /\ WordLeft(e) \in 0 .. 16 * (Bits + 1) + 6
                              /\ WordLeft(e) = 0 => e.st = 30
                              /\ e.st = 30 => WordLeft(e) = 0
    /\ \A e : ReadShape(e) => /\ ReadLeft(e) \in 0 .. 8 * Bits + 16
                              /\ ReadLeft(e) = 0 => e.st = 30
                              /\ e.st = 30 => ReadLeft(e) = 0
<1>1. Bits \in Nat /\ Bits > 0
  BY Powers
<1>2. ASSUME NEW e, WordShape(e)
      PROVE  /\ WordLeft(e) \in 0 .. 16 * (Bits + 1) + 6
             /\ WordLeft(e) = 0 => e.st = 30
             /\ e.st = 30 => WordLeft(e) = 0
  <2>1. /\ e.st \in (0 .. 9) \cup {30, 31} /\ e.cnt \in 0 .. Bits + 1
        /\ e.st \in 2 .. 4 => e.cnt <= Bits
        /\ e.st = 5 => e.cnt > 0
    BY <1>2, Fields DEF WordShape
  <2>2. BytesLeft(e.byte) \in 0 .. 12 * (Bits + 1)
    BY <1>1 DEF BytesLeft
  <2>3. CASE e.st \in 2 .. 4
    <3>1. WordLeft(e) = ((4 * (Bits - e.cnt) + (5 - e.st)) + BytesLeft(e.byte)) + 5
      BY <2>3 DEF WordLeft
    <3> HIDE DEF BytesLeft
    <3> QED
      BY <1>1, <2>1, <2>2, <2>3, <3>1
  <2>4. CASE e.st = 5
    <3>1. WordLeft(e) = (4 * ((Bits + 1) - e.cnt) + BytesLeft(e.byte)) + 5
      BY <2>4 DEF WordLeft
    <3> HIDE DEF BytesLeft
    <3> QED
      BY <1>1, <2>1, <2>2, <2>4, <3>1
  <2>5. CASE e.st \in {0, 1} \cup (6 .. 9) \cup {30, 31}
    BY <1>1, <2>1, <2>5 DEF WordLeft
  <2> QED
    BY <2>1, <2>3, <2>4, <2>5
<1>3. ASSUME NEW e, ReadShape(e)
      PROVE  /\ ReadLeft(e) \in 0 .. 8 * Bits + 16
             /\ ReadLeft(e) = 0 => e.st = 30
             /\ e.st = 30 => ReadLeft(e) = 0
  <2>1. /\ e.st \in (0 .. 13) \cup {30, 31} /\ e.cnt \in 0 .. Bits + 1
        /\ e.st \in {2, 3, 4, 7} => e.cnt <= Bits
        /\ e.st \in {5, 8} => e.cnt > 0
        /\ e.st = 8 => e.dely \in 0 .. 2
    BY <1>3, Fields DEF ReadShape
  <2>2. CASE e.st \in 2 .. 4
    <3>1. ReadLeft(e) = (4 * (Bits - e.cnt) + (5 - e.st)) + (4 * Bits + 11)
      BY <2>2 DEF ReadLeft
    <3> QED
      BY <1>1, <2>1, <2>2, <3>1
  <2>3. CASE e.st = 5
    <3>1. ReadLeft(e) = 4 * ((Bits + 1) - e.cnt) + (4 * Bits + 11)
      BY <2>3 DEF ReadLeft
    <3> QED
      BY <1>1, <2>1, <2>3, <3>1
  <2>4. CASE e.st = 7
    <3>1. ReadLeft(e) = 4 * (Bits - e.cnt) + 9
      BY <2>4 DEF ReadLeft
    <3> QED
      BY <1>1, <2>1, <2>4, <3>1
  <2>5. CASE e.st = 8
    <3>1. ReadLeft(e) = (4 * ((Bits + 1) - e.cnt) + (3 - e.dely)) + 5
      BY <2>5 DEF ReadLeft
    <3>2. e.dely \in 0 .. 2 /\ e.cnt \in 0 .. Bits + 1 /\ e.cnt > 0
      BY <2>1, <2>5
    <3> QED
      BY <1>1, <2>5, <3>1, <3>2
  <2>6. CASE e.st \in {0, 1, 6, 30, 31}
    <3>1. \/ e.st = 0 /\ ReadLeft(e) = 1
          \/ e.st = 1 /\ ReadLeft(e) = 8 * Bits + 15
          \/ e.st = 6 /\ ReadLeft(e) = 4 * Bits + 10
          \/ e.st = 30 /\ ReadLeft(e) = 0
          \/ e.st = 31 /\ ReadLeft(e) = 8 * Bits + 16
      BY <2>6 DEF ReadLeft
    <3> QED
      BY <1>1, <3>1
  <2>7. CASE e.st \in 9 .. 13
    <3>1. ReadLeft(e) = 14 - e.st
      BY <2>7 DEF ReadLeft
    <3> QED
      BY <1>1, <2>7, <3>1
  <2> QED
    BY <2>1, <2>2, <2>3, <2>4, <2>5, <2>6, <2>7
<1> QED
  BY <1>2, <1>3

\* What the assumption on MinHold gives.
LEMMA CamHold ==
    /\ MinHold \in Nat /\ MinHold > 0
    /\ 16 * (Bits + 1) + 6 <= MinHold /\ 8 * Bits + 16 <= MinHold
BY CameraAssumption, Powers

\* A clock of the running sequencer.
LEMMA CamRuns ==
    ASSUME CamInv, Clock, resetN
    PROVE  CamInv'
<1>1. /\ Sequencer /\ Engines /\ TableOutput
      /\ resetN' = resetN /\ hold' = hold
  BY DEF Clock
<1>2. CamMoved
  BY <1>1, CamQuiet, CamPoints, CamHoldsPointer, CamPointed, CamAsks, CamHoldsRead, CamHasRead,
     CamTakes, CamHoldsWord, CamWordSent DEF Sequencer
<1>3. TableCounts' /\ tab' \in ToSet(Table)
  BY <1>1, CamTable
<1>4. WordShape(word') /\ PointerShape(ptr') /\ ReadShape(rd')
  BY <1>1, CamEngines
<1>5. resetN' \in BOOLEAN /\ hold' \in 0 .. MinHold
  BY <1>1 DEF CamInv, CamShapes
<1>6. CamShapes'
  BY <1>2, <1>3, <1>4, <1>5 DEF CamMoved, CamShapes
<1> QED
  BY <1>2, <1>3, <1>6 DEF CamMoved, CamInv

\* A clock during a reset: the engines run down.
LEMMA CamWaits ==
    ASSUME CamInv, Clock, ~resetN
    PROVE  CamInv'
<1>1. /\ Engines /\ TableOutput /\ ~resetN'
      /\ st' = st /\ go' = go /\ wcnt' = wcnt /\ cnt' = cnt /\ dely' = dely /\ id1' = id1
      /\ frame' = frame
      /\ hold' = IF hold < MinHold THEN hold + 1 ELSE hold
  <2>1. resetN' = resetN
    BY DEF Clock
  <2> QED
    BY <2>1 DEF Clock, seqVars
<1>2. CamShapes /\ GoLow /\ Armed /\ OneAtWork /\ AddressIsCameras /\ TableCounts
  BY DEF CamInv
<1>3. /\ st = 0 /\ go.word /\ go.ptr /\ go.read /\ wcnt = 0 /\ hold \in 0 .. MinHold
      /\ hold + WordLeft(word) <= MinHold /\ hold + ReadLeft(rd) <= MinHold
  BY <1>2 DEF OneAtWork, GoLow, TableCounts, CamShapes
<1>4. hold' \in 0 .. MinHold /\ hold' > 0 /\ hold' <= hold + 1 /\ hold' + 0 <= MinHold
  BY <1>1, <1>3, CamHold
<1>5. /\ word.st \in (0 .. 9) \cup {30, 31} /\ rd.st \in (0 .. 13) \cup {30, 31}
      /\ ptr.st \in {0} \cup (2 .. 20)
      /\ ptr.end => ptr.st \in {0, 10, 11}
      /\ ptr.st \in {0, 10} => ptr.end
  BY <1>2 DEF CamShapes, WordShape, PointerShape, ReadShape
<1>6. WordShape(word') /\ PointerShape(ptr') /\ ReadShape(rd')
  BY <1>1, CamEngines
<1>7. word'.st # 0 /\ word'.st # 31
  BY <1>1, <1>3, <1>5, CamEngines
<1>8. rd'.st # 0 /\ rd'.st # 31 /\ (rd'.st = 1 => rd.st = 31)
  BY <1>1, <1>3, <1>5, CamEngines
<1>9. ptr'.st # 0 /\ ~(ptr'.st = 11 /\ ptr'.end)
  <2>1. \/ ptr.st = 0 \/ ptr.st = 9 \/ ptr.st = 10
        \/ (ptr.st # 9 /\ (ptr.st = 11 \/ ~ptr.end))
    BY <1>5
  <2>2. ptr.st \in {0, 9, 10} => ptr'.st = 10
    BY <1>1, <1>3, CamEngines
  <2>3. ptr.st # 9 /\ (ptr.st = 11 \/ ~ptr.end) => ~ptr'.end
    BY <1>1, CamEngines
  <2>4. ptr'.st = 0 => ptr'.end
    BY <1>6 DEF PointerShape
  <2> QED
    BY <2>1, <2>2, <2>3, <2>4
<1>10. tab' \in ToSet(Table)
  <2>1. 1 \in DOMAIN Table
    BY CameraAssumption
  <2>2. Table[1] \in ToSet(Table) /\ tab \in ToSet(Table)
    BY <1>2, <2>1 DEF ToSet, CamShapes
  <2>3. wcnt + 1 = 1
    BY <1>3
  <2>4. tab' = Table[1] \/ tab' = tab
    BY <1>1, <2>3 DEF TableOutput
  <2> QED
    BY <2>2, <2>4
<1>11. CamShapes'
  <2>1. resetN' \in BOOLEAN
    BY <1>2 DEF Clock, CamShapes
  <2> QED
    BY <1>1, <1>2, <1>4, <1>6, <1>10, <2>1 DEF CamShapes
<1>12. GoLow'
  BY <1>1, <1>3 DEF GoLow
<1>13. Armed'
  BY <1>7, <1>8, <1>9 DEF Armed
<1>14. OneAtWork'
  <2>1. hold' + WordLeft(word') <= MinHold
    <3>1. WordLeft(word) \in Nat /\ (word.st = 30 => WordLeft(word) = 0)
      BY <1>2, CamLeft, Powers DEF CamShapes
    <3>2. CASE word.st = 30
      <4>1. word'.st = 30
        BY <1>1, <1>3, <3>2, CamEngines
      <4>2. WordLeft(word') = 0
        BY <1>6, <4>1, CamLeft
      <4> QED
        BY <1>4, <4>2
    <3>3. CASE word.st # 30
      <4>1. WordLeft(word') = WordLeft(word) - 1
        BY <1>1, <1>3, <3>3, CamEngines
      <4> QED
        BY <1>3, <1>4, <3>1, <4>1, CamHold
    <3> QED
      BY <3>2, <3>3
  <2>2. hold' + ReadLeft(rd') <= MinHold
    <3>1. ReadLeft(rd) \in Nat /\ (rd.st = 30 => ReadLeft(rd) = 0)
      BY <1>2, CamLeft, Powers DEF CamShapes
    <3>2. CASE rd.st = 30
      <4>1. rd'.st = 30
        BY <1>1, <1>3, <3>2, CamEngines
      <4>2. ReadLeft(rd') = 0
        BY <1>6, <4>1, CamLeft
      <4> QED
        BY <1>4, <4>2
    <3>3. CASE rd.st # 30
      <4>1. ReadLeft(rd') = ReadLeft(rd) - 1
        BY <1>1, <1>3, <3>3, CamEngines
      <4> QED
        BY <1>3, <1>4, <3>1, <4>1, CamHold
    <3> QED
      BY <3>2, <3>3
  <2> QED
    BY <1>1, <1>3, <2>1, <2>2 DEF OneAtWork
<1>15. AddressIsCameras'
  BY <1>1, <1>2, <1>3, <1>8 DEF AddressIsCameras
<1>16. TableCounts'
  <2>1. Len(Table) \in Nat
    BY CameraAssumption
  <2> QED
    BY <1>1, <1>3, <2>1 DEF TableCounts
<1> QED
  BY <1>11, <1>12, <1>13, <1>14, <1>15, <1>16 DEF CamInv

\* RESET_N falls: whatever runs has the whole of MinHold to end.
LEMMA CamFalls ==
    ASSUME CamInv, Reset
    PROVE  CamInv'
<1>1. CamShapes /\ AddressIsCameras
  BY DEF CamInv
<1>2. /\ ~resetN' /\ hold' = 0 /\ st' = 0 /\ go' = Idle /\ wcnt' = 0 /\ cnt' = 0 /\ dely' = 0
      /\ id1' = 0 /\ frame' = frame /\ tab' = tab /\ word' = word /\ ptr' = ptr /\ rd' = rd
  <2>1. resetN' = FALSE
    BY DEF Reset
  <2> QED
    BY <2>1 DEF Reset
<1>3. go' \in [word : BOOLEAN, ptr : BOOLEAN, read : BOOLEAN] /\ go'.word /\ go'.ptr /\ go'.read
  BY <1>2 DEF Idle
<1>4. 0 \in Byte /\ 0 \in 0 .. CntSize - 1 /\ 0 \in 0 .. MinHold
  BY Shifts, CamHold, CameraAssumption
<1>5. resetN' \in BOOLEAN
  BY DEF Reset
<1>6. CamShapes'
  BY <1>1, <1>2, <1>3, <1>4, <1>5 DEF CamShapes
<1>7. GoLow'
  BY <1>2, <1>3 DEF GoLow
<1>8. Armed'
  BY <1>2 DEF Armed
<1>9. OneAtWork'
  <2>1. WordLeft(word) \in Nat /\ WordLeft(word) <= 16 * (Bits + 1) + 6
    BY <1>1, CamLeft, Powers DEF CamShapes
  <2>2. ReadLeft(rd) \in Nat /\ ReadLeft(rd) <= 8 * Bits + 16
    BY <1>1, CamLeft, Powers DEF CamShapes
  <2>3. 0 + WordLeft(word) <= MinHold /\ 0 + ReadLeft(rd) <= MinHold
    BY <2>1, <2>2, CamHold, Powers
  <2> QED
    BY <1>2, <2>3 DEF OneAtWork
<1>10. AddressIsCameras'
  BY <1>1, <1>2 DEF AddressIsCameras
<1>11. TableCounts'
  <2>1. Len(Table) \in Nat
    BY CameraAssumption
  <2> QED
    BY <1>2, <2>1 DEF TableCounts
<1> QED
  BY <1>6, <1>7, <1>8, <1>9, <1>10, <1>11 DEF CamInv

\* RESET_N rises: nothing but a pointer can be under way.
LEMMA CamRises ==
    ASSUME CamInv, Run
    PROVE  CamInv'
<1>1. CamShapes /\ GoLow /\ Armed /\ OneAtWork /\ AddressIsCameras /\ TableCounts
  BY DEF CamInv
<1>2. /\ ~resetN /\ hold = MinHold /\ resetN' /\ hold' = 0
      /\ st' = st /\ go' = go /\ wcnt' = wcnt /\ cnt' = cnt /\ dely' = dely /\ id1' = id1
      /\ frame' = frame /\ tab' = tab /\ word' = word /\ ptr' = ptr /\ rd' = rd
  <2>1. resetN' = TRUE
    BY DEF Run
  <2> QED
    BY <2>1 DEF Run, seqVars
<1>3. resetN' \in BOOLEAN /\ 0 \in 0 .. MinHold
  BY CamHold DEF Run
<1>4. word.st = 30 /\ rd.st = 30 /\ st = 0
  <2>1. WordLeft(word) \in Nat /\ ReadLeft(rd) \in Nat
    BY <1>1, CamLeft, Powers DEF CamShapes
  <2>2. /\ st = 0 /\ MinHold + WordLeft(word) <= MinHold
        /\ MinHold + ReadLeft(rd) <= MinHold
    BY <1>1, <1>2 DEF OneAtWork
  <2>3. WordLeft(word) = 0 /\ ReadLeft(rd) = 0
    BY <2>1, <2>2, CamHold
  <2> QED
    BY <1>1, <2>2, <2>3, CamLeft DEF CamShapes
<1>5. CamShapes'
  BY <1>1, <1>2, <1>3 DEF CamShapes
<1>6. GoLow'
  BY <1>1, <1>2, <1>4 DEF GoLow
<1>7. Armed'
  BY <1>1, <1>2, CamHold DEF Armed
<1>8. OneAtWork'
  BY <1>2, <1>4 DEF OneAtWork
<1>9. AddressIsCameras'
  BY <1>1, <1>2 DEF AddressIsCameras
<1>10. TableCounts'
  BY <1>1, <1>2, <1>4 DEF TableCounts
<1> QED
  BY <1>5, <1>6, <1>7, <1>8, <1>9, <1>10 DEF CamInv

\* At power-up.
LEMMA CamStarts ==
    ASSUME Init
    PROVE  CamInv
<1>1. /\ ~resetN /\ hold = 0 /\ st = 0 /\ go = Idle /\ wcnt = 0 /\ cnt = 0 /\ dely = 0
      /\ id1 = 0 /\ frame = <<0, 0, 0, 0>> /\ tab = Table[1]
      /\ word = Off /\ ptr = Off /\ rd = Off
  BY DEF Init
<1>2. go \in [word : BOOLEAN, ptr : BOOLEAN, read : BOOLEAN] /\ go.word /\ go.ptr /\ go.read
  BY <1>1 DEF Idle
<1>3. /\ 0 \in Byte /\ 0 \in ShiftRange /\ 0 \in 0 .. CntSize - 1 /\ 0 \in 0 .. MinHold
      /\ 0 \in 0 .. Bits + 1
  BY Shifts, CamHold, CameraAssumption, Powers
<1>4. Off \in Registers /\ Off.st = 0 /\ Off.end /\ Off.cnt = 0 /\ Off.byte = 0
  BY <1>3 DEF Off, Registers
<1>5. WordShape(word) /\ PointerShape(ptr) /\ ReadShape(rd)
  BY <1>1, <1>4, Powers DEF WordShape, PointerShape, ReadShape
<1>6. resetN \in BOOLEAN
  BY DEF Init
<1>7. tab \in ToSet(Table) /\ Len(Table) \in Nat
  BY <1>1, CameraAssumption DEF ToSet
<1>8. CamShapes
  BY <1>1, <1>2, <1>3, <1>5, <1>6, <1>7 DEF CamShapes
<1>9. GoLow
  BY <1>1, <1>2 DEF GoLow
<1>10. Armed
  BY <1>1 DEF Armed
<1>11. OneAtWork
  <2>1. WordLeft(word) = 1 /\ ReadLeft(rd) = 1
    BY <1>1, <1>4 DEF WordLeft, ReadLeft
  <2> QED
    BY <1>1, <2>1, CamHold DEF OneAtWork
<1>12. AddressIsCameras
  BY <1>1, <1>4 DEF AddressIsCameras
<1>13. TableCounts
  BY <1>1, <1>7 DEF TableCounts
<1> QED
  BY <1>8, <1>9, <1>10, <1>11, <1>12, <1>13 DEF CamInv

\* The registers CamInv speaks of.
camRegisters == <<resetN, hold, st, go, wcnt, cnt, dely, id1, frame, tab, word, ptr, rd>>

\* A step that leaves them alone.
LEMMA CamStands ==
    ASSUME CamInv, UNCHANGED camRegisters
    PROVE  CamInv'
BY DEF camRegisters, CamInv, CamShapes, GoLow, Armed, OneAtWork, AddressIsCameras, TableCounts

\* The steps that change them.
LEMMA CamSteps ==
    ASSUME CamInv, [Next]_vars
    PROVE  Clock \/ Reset \/ Run \/ UNCHANGED camRegisters
BY DEF Next, Wakes, vars, seqVars, camRegisters

\* The invariant of the camera's master (MIPI_CAMERA_CONFIG.v:94-187): where
\* its engines are in every state of the sequencer and how long one that a
\* reset has overtaken still runs, what the read engine is offered, and
\* where the table is.
THEOREM CameraInvariant == SafeSpec => []CamInv
<1>1. Init => CamInv
  BY CamStarts
<1>2. CamInv /\ [Next]_vars
      => CamInv'
  BY CamSteps, CamRuns, CamWaits, CamFalls, CamRises, CamStands
<1> QED
  BY <1>1, <1>2, PTL DEF SafeSpec

\* The phases of the handshake.
LEMMA Phases ==
    /\ \A e : WordShape(e) =>
          Phase(e, 30) = IF e.st = 0 THEN "off" ELSE IF e.st = 30 THEN "ready"
                         ELSE IF e.st = 31 THEN "armed" ELSE "busy"
    /\ \A e : ReadShape(e) =>
          Phase(e, 30) = IF e.st = 0 THEN "off" ELSE IF e.st = 30 THEN "ready"
                         ELSE IF e.st = 31 THEN "armed" ELSE "busy"
    /\ \A e : PointerShape(e) =>
          Phase(e, 10) = IF e.st = 0 THEN "off" ELSE IF e.st = 10 THEN "ready"
                         ELSE IF e.end THEN "armed" ELSE "busy"
<1>1. ASSUME NEW e, WordShape(e) \/ ReadShape(e)
      PROVE  Phase(e, 30) = IF e.st = 0 THEN "off" ELSE IF e.st = 30 THEN "ready"
                            ELSE IF e.st = 31 THEN "armed" ELSE "busy"
  <2>1. e.st \in (0 .. 13) \cup {30, 31} /\ (e.end <=> e.st \in {0, 30, 31})
    BY <1>1 DEF WordShape, ReadShape
  <2>2. CASE e.st = 0
    BY <2>1, <2>2 DEF Phase
  <2>3. CASE e.st = 30
    BY <2>1, <2>3 DEF Phase
  <2>4. CASE e.st = 31
    BY <2>1, <2>4 DEF Phase
  <2>5. CASE e.st \in 1 .. 13
    BY <2>1, <2>5 DEF Phase
  <2> QED
    BY <2>1, <2>2, <2>3, <2>4, <2>5
<1>2. ASSUME NEW e, PointerShape(e)
      PROVE  Phase(e, 10) = IF e.st = 0 THEN "off" ELSE IF e.st = 10 THEN "ready"
                            ELSE IF e.end THEN "armed" ELSE "busy"
  <2>1. e.st \in {0} \cup (2 .. 20) /\ (e.st \in {0, 10} => e.end)
    BY <1>2 DEF PointerShape
  <2>2. CASE e.st = 0
    BY <2>1, <2>2 DEF Phase
  <2>3. CASE e.st = 10
    BY <2>1, <2>3 DEF Phase
  <2>4. CASE e.st \notin {0, 10} /\ e.end
    BY <2>1, <2>4 DEF Phase
  <2>5. CASE e.st \notin {0, 10} /\ ~e.end
    BY <2>1, <2>5 DEF Phase
  <2> QED
    BY <2>2, <2>3, <2>4, <2>5
<1> QED
  BY <1>1, <1>2

\* Each engine on a clock, as its handshake sees it.
LEMMA CamHandshakes ==
    ASSUME CamInv, Engines
    PROVE  /\ Phase(word', 30) \in WordEngine!After(Phase(word, 30), go.word)
           /\ Phase(ptr', 10) \in PointerEngine!After(Phase(ptr, 10), go.ptr)
           /\ Phase(rd', 30) \in ReadEngine!After(Phase(rd, 30), go.read)
<1>1. /\ WordShape(word) /\ PointerShape(ptr) /\ ReadShape(rd)
      /\ WordShape(word') /\ PointerShape(ptr') /\ ReadShape(rd')
  BY CamEngines DEF CamInv, CamShapes
<1>2. /\ word.st = 9 => go.word
      /\ ptr.st = 9 => go.ptr
      /\ rd.st = 13 => go.read
  BY DEF CamInv, GoLow
<1>3. Phase(word', 30) \in WordEngine!After(Phase(word, 30), go.word)
  <2>1. word.st \in (0 .. 9) \cup {30, 31}
    BY <1>1 DEF WordShape
  <2>2. /\ word.st = 0 => word'.st = IF go.word THEN 30 ELSE 0
        /\ word.st = 30 => word'.st = IF go.word THEN 30 ELSE 31
        /\ word.st = 31 => word'.st = 1
        /\ word.st \in 1 .. 9 => word'.st \notin {0, 31} /\ (word'.st = 30 => go.word)
    BY <1>2, CamEngines
  <2>3. PICK p : p = Phase(word, 30)
    OBVIOUS
  <2>4. PICK q : q = Phase(word', 30)
    OBVIOUS
  <2>5. p = IF word.st = 0 THEN "off" ELSE IF word.st = 30 THEN "ready"
            ELSE IF word.st = 31 THEN "armed" ELSE "busy"
    BY <1>1, <2>3, Phases
  <2>6. q = IF word'.st = 0 THEN "off" ELSE IF word'.st = 30 THEN "ready"
            ELSE IF word'.st = 31 THEN "armed" ELSE "busy"
    BY <1>1, <2>4, Phases
  <2>7. q \in WordEngine!After(p, go.word)
    BY <2>1, <2>2, <2>5, <2>6 DEF WordEngine!After
  <2> QED
    BY <2>3, <2>4, <2>7
<1>4. Phase(rd', 30) \in ReadEngine!After(Phase(rd, 30), go.read)
  <2>1. rd.st \in (0 .. 13) \cup {30, 31}
    BY <1>1 DEF ReadShape
  <2>2. /\ rd.st = 0 => rd'.st = IF go.read THEN 30 ELSE 0
        /\ rd.st = 30 => rd'.st = IF go.read THEN 30 ELSE 31
        /\ rd.st = 31 => rd'.st = 1
        /\ rd.st \in 1 .. 13 => rd'.st \notin {0, 31} /\ (rd'.st = 30 => go.read)
    BY <1>2, CamEngines
  <2>3. PICK p : p = Phase(rd, 30)
    OBVIOUS
  <2>4. PICK q : q = Phase(rd', 30)
    OBVIOUS
  <2>5. p = IF rd.st = 0 THEN "off" ELSE IF rd.st = 30 THEN "ready"
            ELSE IF rd.st = 31 THEN "armed" ELSE "busy"
    BY <1>1, <2>3, Phases
  <2>6. q = IF rd'.st = 0 THEN "off" ELSE IF rd'.st = 30 THEN "ready"
            ELSE IF rd'.st = 31 THEN "armed" ELSE "busy"
    BY <1>1, <2>4, Phases
  <2>7. q \in ReadEngine!After(p, go.read)
    BY <2>1, <2>2, <2>5, <2>6 DEF ReadEngine!After
  <2> QED
    BY <2>3, <2>4, <2>7
<1>5. Phase(ptr', 10) \in PointerEngine!After(Phase(ptr, 10), go.ptr)
  <2>1. /\ ptr.end => ptr.st \in {0, 10, 11}
        /\ ptr.st \in {0, 10} => ptr.end
        /\ ptr'.end => ptr'.st \in {0, 10, 11}
        /\ ptr'.st \in {0, 10} => ptr'.end
    BY <1>1 DEF PointerShape
  <2>2. /\ ptr.st = 0 => ptr'.st = IF go.ptr THEN 10 ELSE 0
        /\ ptr.st = 10 => ptr'.st = (IF go.ptr THEN 10 ELSE 11) /\ ptr'.end
        /\ ptr.st = 11 => ptr'.st = 12
        /\ ptr.st = 9 => ptr'.st = 10 /\ go.ptr
        /\ ptr.st # 9 /\ (ptr.st = 11 \/ ~ptr.end) => ~ptr'.end
    BY <1>2, CamEngines
  <2>3. PICK p : p = Phase(ptr, 10)
    OBVIOUS
  <2>4. PICK q : q = Phase(ptr', 10)
    OBVIOUS
  <2>5. p = IF ptr.st = 0 THEN "off" ELSE IF ptr.st = 10 THEN "ready"
            ELSE IF ptr.end THEN "armed" ELSE "busy"
    BY <1>1, <2>3, Phases
  <2>6. q = IF ptr'.st = 0 THEN "off" ELSE IF ptr'.st = 10 THEN "ready"
            ELSE IF ptr'.end THEN "armed" ELSE "busy"
    BY <1>1, <2>4, Phases
  <2>7. q \in PointerEngine!After(p, go.ptr)
    BY <2>1, <2>2, <2>5, <2>6 DEF PointerEngine!After
  <2> QED
    BY <2>3, <2>4, <2>7
<1> QED
  BY <1>3, <1>4, <1>5

\* The byte engines of CameraConfig implement I2cHandshake, on which
\* BridgeConfig and LensDriver are built, also while a reset of the
\* sequencer overtakes them (I2C_WRITE_WDATA.v:46-53, 107-123, and the same
\* states of the other two).
THEOREM EnginesImplementHandshake == SafeSpec => EnginesKeepHandshake
<1>1. Init =>
        Phase(word, 30) = "off" /\ Phase(ptr, 10) = "off" /\ Phase(rd, 30) = "off"
  <2>1. Off.st = 0
    BY DEF Off
  <2> QED
    BY <2>1, CamStarts, Phases, ZenonT(60) DEF Init, CamInv, CamShapes
<1>2. CamInv /\ [Next]_vars
      => /\ [Phase(word, 30)' \in WordEngine!After(Phase(word, 30), go.word)]_(Phase(word, 30))
         /\ [Phase(ptr, 10)' \in PointerEngine!After(Phase(ptr, 10), go.ptr)]_(Phase(ptr, 10))
         /\ [Phase(rd, 30)' \in ReadEngine!After(Phase(rd, 30), go.read)]_(Phase(rd, 30))
  <2> SUFFICES ASSUME CamInv,
                      [Next]_vars
               PROVE  /\ \/ Phase(word', 30) \in WordEngine!After(Phase(word, 30), go.word)
                         \/ Phase(word', 30) = Phase(word, 30)
                      /\ \/ Phase(ptr', 10) \in PointerEngine!After(Phase(ptr, 10), go.ptr)
                         \/ Phase(ptr', 10) = Phase(ptr, 10)
                      /\ \/ Phase(rd', 30) \in ReadEngine!After(Phase(rd, 30), go.read)
                         \/ Phase(rd', 30) = Phase(rd, 30)
    OBVIOUS
  <2>1. Engines \/ (word' = word /\ ptr' = ptr /\ rd' = rd)
    BY CamSteps DEF Clock, Reset, Run, camRegisters
  <2> QED
    BY <2>1, CamHandshakes
<1>3. CamInv /\ [Next]_vars => [Clock => EachReacts]_vars
  BY CamHandshakes DEF Clock, EachReacts
<1> QED
  BY <1>1, <1>2, <1>3, CameraInvariant, PTL
     DEF SafeSpec, EnginesKeepHandshake, WordEngine!Spec, PointerEngine!Spec, ReadEngine!Spec

\* A set whose members are all the same.
LEMMA AtMostOne ==
    ASSUME NEW S, \A x, y \in S : x = y
    PROVE  Cardinality(S) <= 1
<1>1. CASE S = {}
  BY <1>1, FS_EmptySet
<1>2. CASE S # {}
  <2>1. PICK x : x \in S
    BY <1>2
  <2>2. S = {x}
    BY <2>1
  <2> QED
    BY <2>2, FS_Singleton
<1> QED
  BY <1>1, <1>2

\* The camera's engines on the wires.
LEMMA CamOneEngine ==
    ASSUME CamInv
    PROVE  OneEngineOnTheWires
<1>1. /\ word.st = 30 => ~Busy(word)
      /\ ptr.st = 10 => ~Busy(ptr)
      /\ rd.st = 30 => ~Busy(rd)
  BY DEF CamInv, CamShapes, WordShape, PointerShape, ReadShape, Busy
<1>2. resetN => /\ ~Busy(word) \/ st \in {32, 33, 34}
                /\ ~Busy(rd) \/ st \in {7, 8, 9}
                /\ ~Busy(ptr) \/ ~(st > 4)
  BY <1>1 DEF CamInv, OneAtWork
<1>3. resetN => ~(Busy(word) /\ Busy(rd)) /\ ~(Busy(word) /\ Busy(ptr)) /\ ~(Busy(rd) /\ Busy(ptr))
  BY <1>2
<1>4. ASSUME resetN
      PROVE  Cardinality({e \in {<<"word", word>>, <<"ptr", ptr>>, <<"read", rd>>} : Busy(e[2])}) <= 1
  <2>1. ASSUME NEW x \in {e \in {<<"word", word>>, <<"ptr", ptr>>, <<"read", rd>>} : Busy(e[2])},
               NEW y \in {e \in {<<"word", word>>, <<"ptr", ptr>>, <<"read", rd>>} : Busy(e[2])}
        PROVE  x = y
    <3>1. \/ x = <<"word", word>> /\ Busy(word)
          \/ x = <<"ptr", ptr>> /\ Busy(ptr)
          \/ x = <<"read", rd>> /\ Busy(rd)
      OBVIOUS
    <3>2. \/ y = <<"word", word>> /\ Busy(word)
          \/ y = <<"ptr", ptr>> /\ Busy(ptr)
          \/ y = <<"read", rd>> /\ Busy(rd)
      OBVIOUS
    <3> QED
      BY <1>3, <1>4, <3>1, <3>2
  <2> QED
    BY <2>1, AtMostOne
<1> QED
  BY <1>4 DEF OneEngineOnTheWires

-----------------------------------------------------------------------------
(* Counting the words of the table.                                         *)

\* A nonempty set of numbers has a least member.
LEMMA FirstOne ==
    ASSUME NEW D \in SUBSET Nat, D # {}
    PROVE  \E m \in D : \A l \in D : m <= l
<1> DEFINE Less == {p \in Nat \X Nat : p[1] < p[2]}
<1>1. IsWellFoundedOn(Less, Nat)
  BY NatLessThanWellFounded DEF OpToRel
<1>2. \E m \in D : \A l \in D : <<l, m>> \notin Less
  BY <1>1, WFMin
<1>3. ASSUME NEW m \in D, NEW l \in D, <<l, m>> \notin Less
      PROVE  m <= l
  <2>1. l \in Nat /\ m \in Nat
    OBVIOUS
  <2> QED
    BY <1>3, <2>1
<1> QED
  BY <1>2, <1>3

\* How many of a set of numbers there are up to m.
Below(S, m) == Cardinality({i \in S : i <= m})

\* The entries of a table that lie in a set of places, counted.
LEMMA Counted ==
    ASSUME NEW n \in Nat, NEW P \in SUBSET (1 .. n)
    PROVE  /\ IsFiniteSet(P) /\ Below(P, 0) = 0 /\ Below(P, n) = Cardinality(P)
           /\ \A m \in 0 .. n : Below(P, m) \in Nat /\ Below(P, m) <= Below(P, n)
           /\ \A m \in 0 .. n - 1 :
                Below(P, m + 1) = IF m + 1 \in P THEN Below(P, m) + 1 ELSE Below(P, m)
           /\ \A i, j \in P : Below(P, i) = Below(P, j) => i = j
<1> DEFINE F(m) == {i \in P : i <= m}
<1>1. IsFiniteSet(P)
  <2>1. IsFiniteSet(1 .. n)
    BY FS_Interval
  <2> QED
    BY <2>1, FS_Subset
<1>2. ASSUME NEW m \in 0 .. n
      PROVE  /\ IsFiniteSet(F(m)) /\ Below(P, m) = Cardinality(F(m)) /\ Below(P, m) \in Nat
             /\ Cardinality(F(m)) <= Cardinality(P)
  <2>1. F(m) \in SUBSET P
    OBVIOUS
  <2>2. Below(P, m) = Cardinality(F(m))
    BY <1>2 DEF Below
  <2> QED
    BY <1>1, <2>1, <2>2, FS_Subset, FS_CardinalityType
<1>3. F(0) = {} /\ F(n) = P
  <2>1. \A i \in P : ~(i <= 0) /\ i <= n
    OBVIOUS
  <2>2. F(0) = {}
    BY <2>1
  <2>3. F(n) = P
    BY <2>1
  <2> QED
    BY <2>2, <2>3
<1>4. Below(P, 0) = 0 /\ Below(P, n) = Cardinality(P)
  BY <1>2, <1>3, FS_EmptySet
<1>5. ASSUME NEW m \in 0 .. n - 1
      PROVE  Below(P, m + 1) = IF m + 1 \in P THEN Below(P, m) + 1 ELSE Below(P, m)
  <2>1. m \in 0 .. n /\ m + 1 \in 0 .. n /\ ~(m + 1 <= m)
    OBVIOUS
  <2>2. F(m + 1) = IF m + 1 \in P THEN F(m) \cup {m + 1} ELSE F(m)
    <3>1. \A i \in P : i <= m + 1 <=> i <= m \/ i = m + 1
      BY <2>1
    <3>2. \A i : i \in F(m + 1) <=> i \in P /\ (i \in F(m) \/ i = m + 1)
      BY <3>1
    <3>3. F(m) \subseteq P
      OBVIOUS
    <3> HIDE DEF F
    <3>4. CASE m + 1 \in P
      <4>1. F(m + 1) = F(m) \cup {m + 1}
        BY <3>2, <3>3, <3>4
      <4> QED
        BY <3>4, <4>1
    <3>5. CASE m + 1 \notin P
      <4>1. F(m + 1) = F(m)
        BY <3>2, <3>3, <3>5
      <4> QED
        BY <3>5, <4>1
    <3> QED
      BY <3>4, <3>5
  <2>3. m + 1 \notin F(m)
    BY <2>1
  <2> HIDE DEF F
  <2> QED
    BY <1>2, <2>1, <2>2, <2>3, FS_AddElement
<1>6. ASSUME NEW i \in P, NEW j \in P, i < j
      PROVE  Below(P, i) # Below(P, j)
  <2>1. i \in 0 .. n /\ j \in 0 .. n
    OBVIOUS
  <2>2. F(i) \in SUBSET F(j) /\ j \in F(j) /\ j \notin F(i)
    <3>1. \A l \in P : l <= i => l <= j
      BY <1>6, <2>1
    <3>2. j <= j /\ ~(j <= i)
      BY <1>6, <2>1
    <3>3. F(i) \subseteq F(j)
      BY <3>1
    <3>4. j \in F(j) /\ j \notin F(i)
      BY <3>2
    <3> QED
      BY <3>3, <3>4
  <2> HIDE DEF F
  <2> QED
    BY <1>2, <2>1, <2>2, FS_Subset
<1>7. \A i, j \in P : Below(P, i) = Below(P, j) => i = j
  <2>1. ASSUME NEW i \in P, NEW j \in P, Below(P, i) = Below(P, j), i # j
        PROVE  FALSE
    <3>1. i \in Nat /\ j \in Nat
      OBVIOUS
    <3>2. i < j \/ j < i
      BY <2>1, <3>1
    <3> QED
      BY <1>6, <2>1, <3>2
  <2> QED
    BY <2>1
<1>8. \A m \in 0 .. n : Below(P, m) \in Nat /\ Below(P, m) <= Below(P, n)
  BY <1>2, <1>4
<1> QED
  BY <1>1, <1>4, <1>5, <1>7, <1>8

\* The k-th of the places.
LEMMA Found ==
    ASSUME NEW n \in Nat, NEW P \in SUBSET (1 .. n), NEW k \in 1 .. Cardinality(P)
    PROVE  \E i \in P : Below(P, i) = k
<1>1. /\ IsFiniteSet(P) /\ Below(P, 0) = 0 /\ Below(P, n) = Cardinality(P)
      /\ \A m \in 0 .. n : Below(P, m) \in Nat
      /\ \A m \in 0 .. n - 1 :
           Below(P, m + 1) = IF m + 1 \in P THEN Below(P, m) + 1 ELSE Below(P, m)
  BY Counted
<1> DEFINE D == {m \in 0 .. n : Below(P, m) >= k}
<1>2. n \in D /\ 0 \notin D /\ D \in SUBSET Nat
  BY <1>1
<1>3. PICK j \in D : \A l \in D : j <= l
  <2> HIDE DEF D
  <2> QED
    BY <1>2, FirstOne
<1>4. /\ j \in 0 .. n /\ j # 0 /\ j - 1 \in 0 .. n - 1 /\ j - 1 \in 0 .. n
      /\ (j - 1) + 1 = j /\ j - 1 \notin D
  BY <1>2, <1>3
<1>5. Below(P, j) >= k /\ ~(Below(P, j - 1) >= k) /\ Below(P, j) \in Nat /\ Below(P, j - 1) \in Nat
  BY <1>1, <1>3, <1>4
<1>6. Below(P, j) = IF j \in P THEN Below(P, j - 1) + 1 ELSE Below(P, j - 1)
  BY <1>1, <1>4
<1>7. j \in P /\ Below(P, j) = k
  BY <1>5, <1>6
<1> QED
  BY <1>7

-----------------------------------------------------------------------------
(* The camera's side of the bus.                                            *)

SlaveStates ==
    [mode : {"idle", "recv", "send"}, n : 0 .. Bits + 1, byte : 0 .. 3, sh : Nat,
     out : {0, 1}, ptr : Nat \X Nat]

\* What holds of a slave whatever the wires have done: it pulls SDA while it
\* acknowledges or sends a zero, and only if it answers at all.
Sane(c, scl, answers) ==
    /\ c \in SlaveStates
    /\ c.mode = "idle" => c.out = 1 /\ c.n = 0
    /\ c.mode = "recv" => /\ c.n <= Bits + scl
                          /\ (c.out = 0 <=> c.n = Bits + scl)
    /\ c.mode = "send" => c.n <= Bits + scl /\ (c.n >= Bits + scl => c.out = 1)
    /\ c.out = 0 \/ c.mode = "send" \/ c.byte > 0 => answers

\* The types of a slave's single registers.
LEMMA SlaveFields ==
    ASSUME NEW c \in SlaveStates
    PROVE  /\ c.mode \in {"idle", "recv", "send"} /\ c.n \in 0 .. Bits + 1 /\ c.byte \in 0 .. 3
           /\ c.sh \in Nat /\ c.out \in {0, 1} /\ c.ptr \in Nat \X Nat
BY DEF SlaveStates

\* A bit of a byte.
LEMMA BitOfByte ==
    ASSUME NEW v \in Nat, NEW i \in 0 .. Bits - 1
    PROVE  Slave!BitOf(v, i) \in {0, 1}
<1>1. (Bits - 1) - i \in 0 .. Bits
  BY Powers
<1>2. PICK p \in Nat \ {0} : p = 2 ^ ((Bits - 1) - i)
  BY <1>1, BitsAssumption
<1>3. PICK q \in Nat : q = v \div p
  BY <1>2, Z3
<1>4. q % 2 \in {0, 1}
  BY <1>3, Z3
<1> QED
  BY <1>2, <1>3, <1>4 DEF Slave!BitOf

\* What START and STOP leave.
LEMMA StartStop ==
    ASSUME NEW c \in SlaveStates
    PROVE  /\ Slave!Started(c) \in SlaveStates /\ Slave!Stopped(c) \in SlaveStates
           /\ Slave!Started(c).mode = "recv" /\ Slave!Stopped(c).mode = "idle"
           /\ Slave!Started(c).n = 0 /\ Slave!Stopped(c).n = 0
           /\ Slave!Started(c).byte = 0 /\ Slave!Stopped(c).byte = 0
           /\ Slave!Started(c).sh = 0 /\ Slave!Started(c).out = 1 /\ Slave!Stopped(c).out = 1
           /\ Slave!Started(c).ptr = c.ptr /\ Slave!Stopped(c).ptr = c.ptr
<1>1. 0 \in 0 .. Bits + 1 /\ 0 \in 0 .. 3 /\ 0 \in Nat /\ 1 \in {0, 1}
  BY Powers
<1>2. PICK d : d = Slave!Started(c)
  OBVIOUS
<1>3. d = [c EXCEPT !.mode = "recv", !.n = 0, !.byte = 0, !.sh = 0, !.out = 1]
  BY <1>2 DEF Slave!Started
<1>4. /\ d \in SlaveStates /\ d.mode = "recv" /\ d.n = 0 /\ d.byte = 0 /\ d.sh = 0 /\ d.out = 1
      /\ d.ptr = c.ptr
  BY <1>1, <1>3 DEF SlaveStates
<1>5. PICK e : e = Slave!Stopped(c)
  OBVIOUS
<1>6. e = [c EXCEPT !.mode = "idle", !.n = 0, !.byte = 0, !.sh = 0, !.out = 1]
  BY <1>5 DEF Slave!Stopped
<1>7. /\ e \in SlaveStates /\ e.mode = "idle" /\ e.n = 0 /\ e.byte = 0 /\ e.out = 1
      /\ e.ptr = c.ptr
  BY <1>1, <1>6 DEF SlaveStates
<1> QED
  BY <1>2, <1>4, <1>5, <1>7

\* A rise of SCL, by mode.
LEMMA Rises ==
    ASSUME NEW c \in SlaveStates, c.n <= Bits, NEW b \in {0, 1}, NEW d, d = Slave!Rise(c, b)
    PROVE  /\ d \in SlaveStates /\ d.ptr = c.ptr
           /\ c.mode = "idle" => d = c
           /\ c.mode = "recv" => /\ d.mode = "recv" /\ d.n = c.n + 1 /\ d.byte = c.byte
                                 /\ d.out = c.out
                                 /\ d.sh = IF c.n < Bits THEN 2 * c.sh + b ELSE c.sh
           /\ c.mode = "send" => \/ c.n = Bits /\ b = 1 /\ d = Slave!Stopped(c)
                                 \/ /\ ~(c.n = Bits /\ b = 1) /\ d.mode = "send"
                                    /\ d.n = c.n + 1 /\ d.byte = c.byte /\ d.out = c.out
<1>1. c.n + 1 \in 0 .. Bits + 1 /\ c.n \in Nat
  BY Powers, SlaveFields
<1>2. CASE c.mode = "idle"
  BY <1>2 DEF Slave!Rise
<1>3. CASE c.mode = "recv"
  <2>1. PICK s \in Nat : s = IF c.n < Bits THEN 2 * c.sh + b ELSE c.sh
    BY SlaveFields
  <2>2. d = [c EXCEPT !.n = c.n + 1, !.sh = s]
    BY <1>3, <2>1 DEF Slave!Rise
  <2>3. /\ d \in SlaveStates /\ d.ptr = c.ptr /\ d.mode = c.mode /\ d.n = c.n + 1
        /\ d.byte = c.byte /\ d.out = c.out /\ d.sh = s
    BY <1>1, <2>1, <2>2 DEF SlaveStates
  <2> QED
    BY <1>3, <2>1, <2>3
<1>4. CASE c.mode = "send"
  <2>1. CASE c.n = Bits /\ b = 1
    BY <1>4, <2>1, StartStop DEF Slave!Rise
  <2>2. CASE ~(c.n = Bits /\ b = 1)
    <3>1. d = [c EXCEPT !.n = c.n + 1]
      BY <1>4, <2>2 DEF Slave!Rise
    <3>2. /\ d \in SlaveStates /\ d.ptr = c.ptr /\ d.mode = c.mode /\ d.n = c.n + 1
          /\ d.byte = c.byte /\ d.out = c.out
      BY <1>1, <3>1 DEF SlaveStates
    <3> QED
      BY <1>4, <2>2, <3>2
  <2> QED
    BY <2>1, <2>2
<1> QED
  BY <1>2, <1>3, <1>4, SlaveFields

\* A fall of SCL, by mode and place.
LEMMA Falls ==
    ASSUME NEW c \in SlaveStates, NEW answers \in BOOLEAN, NEW v \in Nat,
           NEW d, d = Slave!Fall(c, answers, v)
    PROVE  /\ d \in SlaveStates
           /\ c.mode = "idle" => d = c
           /\ c.mode # "idle" /\ c.n = Bits + 1 =>
                /\ d.n = 0 /\ d.ptr = c.ptr
                /\ IF c.mode = "send" \/ (c.byte = 0 /\ c.sh = Camera + 1)
                   THEN d.mode = "send" /\ d.byte = 1
                   ELSE /\ d.mode = "recv" /\ d.sh = 0 /\ d.out = 1
                        /\ d.byte = IF c.byte < 3 THEN c.byte + 1 ELSE 3
           /\ c.mode = "send" /\ c.n <= Bits =>
                /\ d.mode = "send" /\ d.n = c.n /\ d.byte = c.byte /\ d.ptr = c.ptr
                /\ c.n = Bits => d.out = 1
           /\ c.mode = "recv" /\ c.n < Bits => d = c
           /\ c.mode = "recv" /\ c.n = Bits =>
                IF c.byte = 0 /\ ~(answers /\ c.sh \in {Camera, Camera + 1})
                THEN d = Slave!Stopped(c)
                ELSE /\ d.mode = "recv" /\ d.n = c.n /\ d.byte = c.byte /\ d.sh = c.sh
                     /\ d.out = 0
                     /\ c.byte = 0 \/ c.byte = 3 => d.ptr = c.ptr
                     /\ c.byte = 1 => d.ptr[1] = c.sh
                     /\ c.byte = 2 => d.ptr[1] = c.ptr[1] /\ d.ptr[2] = c.sh
<1>1. Bits \in Nat /\ Bits > 0 /\ c.n \in 0 .. Bits + 1 /\ c.byte \in 0 .. 3 /\ 0 \in 0 .. Bits + 1
  BY Powers, SlaveFields
<1>2. CASE c.mode = "idle"
  BY <1>2 DEF Slave!Fall
<1>3. CASE c.mode # "idle" /\ c.n = Bits + 1
  <2>1. d = Slave!NextFrame(c, v)
    BY <1>3 DEF Slave!Fall
  <2>2. CASE c.mode = "send" \/ (c.byte = 0 /\ c.sh = Camera + 1)
    <3>1. 0 \in 0 .. Bits - 1
      BY <1>1
    <3>2. PICK o \in {0, 1} : o = Slave!BitOf(v, 0)
      BY <3>1, BitOfByte
    <3>3. d = [c EXCEPT !.mode = "send", !.n = 0, !.byte = 1, !.out = o]
      BY <2>1, <2>2, <3>2 DEF Slave!NextFrame
    <3>5. PICK e : e = [c EXCEPT !.mode = "send", !.n = 0]
      OBVIOUS
    <3>6. /\ e \in SlaveStates /\ e.n = 0 /\ e.ptr = c.ptr /\ e.mode = "send" /\ e.byte = c.byte
          /\ e.out = c.out
      BY <1>1, <3>5 DEF SlaveStates
    <3>7. d = [e EXCEPT !.byte = 1, !.out = o]
      BY <3>3, <3>5 DEF SlaveStates
    <3>8. 1 \in 0 .. 3
      OBVIOUS
    <3>4. d \in SlaveStates /\ d.n = 0 /\ d.ptr = c.ptr /\ d.mode = "send" /\ d.byte = 1
      BY <3>6, <3>7, <3>8 DEF SlaveStates
    <3> QED
      BY <1>1, <1>3, <2>2, <3>4
  <2>3. CASE ~(c.mode = "send" \/ (c.byte = 0 /\ c.sh = Camera + 1))
    <3>1. PICK y \in 0 .. 3 : y = IF c.byte < 3 THEN c.byte + 1 ELSE 3
      BY <1>1
    <3>2. d = [c EXCEPT !.n = 0, !.sh = 0, !.out = 1, !.byte = y]
      BY <2>1, <2>3, <3>1 DEF Slave!NextFrame
    <3>5. PICK e : e = [c EXCEPT !.n = 0, !.sh = 0]
      OBVIOUS
    <3>6. /\ e \in SlaveStates /\ e.n = 0 /\ e.ptr = c.ptr /\ e.mode = c.mode /\ e.sh = 0
      BY <1>1, <3>5 DEF SlaveStates
    <3>7. d = [e EXCEPT !.out = 1, !.byte = y]
      BY <3>2, <3>5 DEF SlaveStates
    <3>3. /\ d \in SlaveStates /\ d.n = 0 /\ d.ptr = c.ptr /\ d.mode = c.mode /\ d.byte = y
          /\ d.sh = 0 /\ d.out = 1
      BY <3>6, <3>7 DEF SlaveStates
    <3>4. c.mode = "recv"
      BY <1>3, <2>3, SlaveFields
    <3> QED
      BY <1>1, <1>3, <2>3, <3>1, <3>3, <3>4
  <2> QED
    BY <2>2, <2>3
<1>4. CASE c.mode = "send" /\ c.n <= Bits
  <2>1. PICK o \in {0, 1} : o = IF c.n < Bits THEN Slave!BitOf(v, c.n) ELSE 1
    BY <1>1, BitOfByte
  <2>2. d = [c EXCEPT !.out = o]
    BY <1>1, <1>4, <2>1 DEF Slave!Fall
  <2>3. /\ d \in SlaveStates /\ d.n = c.n /\ d.ptr = c.ptr /\ d.mode = c.mode /\ d.byte = c.byte
        /\ d.out = o
    BY <2>1, <2>2 DEF SlaveStates
  <2> QED
    BY <1>1, <1>4, <2>1, <2>3
<1>5. CASE c.mode = "recv" /\ c.n < Bits
  <2>1. d = c
    BY <1>1, <1>5 DEF Slave!Fall
  <2> QED
    BY <1>1, <1>5, <2>1
<1>6. CASE c.mode = "recv" /\ c.n = Bits
  <2>1. d = Slave!Received(c, answers)
    BY <1>1, <1>6 DEF Slave!Fall
  <2>2. CASE c.byte = 0 /\ ~(answers /\ c.sh \in {Camera, Camera + 1})
    <3>1. d = Slave!Stopped(c)
      BY <2>1, <2>2 DEF Slave!Received
    <3> QED
      BY <1>1, <1>6, <2>2, <3>1, StartStop
  <2>3. CASE (c.byte = 0 /\ answers /\ c.sh \in {Camera, Camera + 1}) \/ c.byte = 3
    <3>1. d = [c EXCEPT !.out = 0]
      BY <2>1, <2>3 DEF Slave!Received, Slave!Acknowledge
    <3>2. /\ d \in SlaveStates /\ d.n = c.n /\ d.ptr = c.ptr /\ d.mode = c.mode
          /\ d.byte = c.byte /\ d.out = 0 /\ d.sh = c.sh
      BY <3>1 DEF SlaveStates
    <3> QED
      BY <1>1, <1>6, <2>3, <3>2
  <2>4. CASE c.byte = 1
    <3>1. d = [c EXCEPT !.ptr[1] = c.sh, !.out = 0]
      BY <2>1, <2>4 DEF Slave!Received, Slave!Acknowledge
    <3>2. PICK p : p = [c.ptr EXCEPT ![1] = c.sh]
      OBVIOUS
    <3>3. p \in Nat \X Nat /\ p[1] = c.sh
      BY <3>2, SlaveFields
    <3>4. d = [c EXCEPT !.ptr = p, !.out = 0]
      BY <3>1, <3>2
    <3>5. /\ d \in SlaveStates /\ d.n = c.n /\ d.ptr = p /\ d.mode = c.mode
          /\ d.byte = c.byte /\ d.out = 0 /\ d.sh = c.sh
      BY <3>3, <3>4 DEF SlaveStates
    <3> QED
      BY <1>1, <1>6, <2>4, <3>3, <3>5
  <2>5. CASE c.byte = 2
    <3>1. d = [c EXCEPT !.ptr[2] = c.sh, !.out = 0]
      BY <2>1, <2>5 DEF Slave!Received, Slave!Acknowledge
    <3>2. PICK p : p = [c.ptr EXCEPT ![2] = c.sh]
      OBVIOUS
    <3>3. p \in Nat \X Nat /\ p[1] = c.ptr[1] /\ p[2] = c.sh
      BY <3>2, SlaveFields
    <3>4. d = [c EXCEPT !.ptr = p, !.out = 0]
      BY <3>1, <3>2
    <3>5. /\ d \in SlaveStates /\ d.n = c.n /\ d.ptr = p /\ d.mode = c.mode
          /\ d.byte = c.byte /\ d.out = 0 /\ d.sh = c.sh
      BY <3>3, <3>4 DEF SlaveStates
    <3> QED
      BY <1>1, <1>6, <2>5, <3>3, <3>5
  <2> QED
    BY <1>1, <2>2, <2>3, <2>4, <2>5
<1> QED
  BY <1>1, <1>2, <1>3, <1>4, <1>5, <1>6, SlaveFields

\* With SCL low or high.
LEMMA SaneAt ==
    ASSUME NEW c, NEW answers
    PROVE  /\ Sane(c, 0, answers) <=>
              /\ c \in SlaveStates
              /\ c.mode = "idle" => c.out = 1 /\ c.n = 0
              /\ c.mode = "recv" => c.n <= Bits /\ (c.out = 0 <=> c.n = Bits)
              /\ c.mode = "send" => c.n <= Bits /\ (c.n >= Bits => c.out = 1)
              /\ c.out = 0 \/ c.mode = "send" \/ c.byte > 0 => answers
           /\ Sane(c, 1, answers) <=>
              /\ c \in SlaveStates
              /\ c.mode = "idle" => c.out = 1 /\ c.n = 0
              /\ c.mode = "recv" => c.n <= Bits + 1 /\ (c.out = 0 <=> c.n = Bits + 1)
              /\ c.mode = "send" => c.n <= Bits + 1 /\ (c.n >= Bits + 1 => c.out = 1)
              /\ c.out = 0 \/ c.mode = "send" \/ c.byte > 0 => answers
<1>1. Bits + 0 = Bits
  BY Powers
<1> QED
  BY <1>1 DEF Sane

\* A change of SDA.
LEMMA SaneSda ==
    ASSUME NEW c, NEW scl \in {0, 1}, NEW sda \in {0, 1}, NEW answers \in BOOLEAN,
           Sane(c, scl, answers)
    PROVE  Sane(Slave!SdaEdge(c, scl, sda), scl, answers)
<1>1. c \in SlaveStates /\ Bits \in Nat /\ Bits > 0
  BY Powers DEF Sane
<1>2. Sane(Slave!Started(c), scl, answers) /\ Sane(Slave!Stopped(c), scl, answers)
  BY <1>1, StartStop DEF Sane
<1> QED
  BY <1>2 DEF Slave!SdaEdge

\* A change of SCL.
LEMMA SaneScl ==
    ASSUME NEW c, NEW scl \in {0, 1}, NEW sda \in {0, 1}, NEW answers \in BOOLEAN,
           NEW v \in Nat, Sane(c, 1 - scl, answers)
    PROVE  Sane(Slave!SclEdge(c, scl, sda, answers, v), scl, answers)
<1>1. c \in SlaveStates /\ Bits \in Nat /\ Bits > 0 /\ c.n \in Nat /\ c.byte \in Nat
      /\ c.mode \in {"idle", "recv", "send"} /\ c.out \in {0, 1}
  BY Powers, SlaveFields DEF Sane
<1>2. CASE scl = 1
  <2>1. PICK b \in {0, 1} : b = IF c.out = 0 THEN 0 ELSE sda
    OBVIOUS
  <2>2. PICK d : d = Slave!Rise(c, b)
    OBVIOUS
  <2>3. c.n <= Bits
    BY <1>1, <1>2 DEF Sane
  <2>4. Sane(d, 1, answers)
    <3>1. CASE c.mode = "idle"
      <4>1. d = c
        BY <1>1, <2>2, <2>3, <3>1, Rises
      <4> QED
        BY <1>2, <3>1, <4>1 DEF Sane
    <3>2. CASE c.mode = "recv"
      <4>1. /\ d \in SlaveStates /\ d.mode = "recv" /\ d.n = c.n + 1 /\ d.byte = c.byte
            /\ d.out = c.out
        BY <1>1, <2>2, <2>3, <3>2, Rises
      <4> QED
        BY <1>1, <1>2, <3>2, <4>1 DEF Sane
    <3>3. CASE c.mode = "send"
      <4>1. CASE d = Slave!Stopped(c)
        BY <1>1, <4>1, StartStop DEF Sane
      <4>2. CASE d \in SlaveStates /\ d.mode = "send" /\ d.n = c.n + 1 /\ d.byte = c.byte
                 /\ d.out = c.out
        BY <1>1, <1>2, <3>3, <4>2 DEF Sane
      <4> QED
        BY <1>1, <2>2, <2>3, <3>3, <4>1, <4>2, Rises
    <3> QED
      BY <1>1, <3>1, <3>2, <3>3
  <2>5. Slave!SclEdge(c, scl, sda, answers, v) = d
    BY <1>2, <2>1, <2>2 DEF Slave!SclEdge
  <2> QED
    BY <1>2, <2>4, <2>5
<1>3. CASE scl = 0
  <2>1. PICK d : d = Slave!Fall(c, answers, v)
    OBVIOUS
  <2>2. Slave!SclEdge(c, scl, sda, answers, v) = d
    BY <1>3, <2>1 DEF Slave!SclEdge
  <2>3. d \in SlaveStates
    BY <1>1, <2>1, Falls
  <2>4. CASE c.mode = "idle"
    <3>1. d = c
      BY <1>1, <2>1, <2>4, Falls
    <3> QED
      BY <1>3, <2>2, <2>4, <3>1 DEF Sane
  <2>5. CASE c.mode # "idle" /\ c.n = Bits + 1
    <3>1. /\ d.n = 0
          /\ \/ c.mode = "send" /\ d.mode = "send" /\ d.byte = 1
             \/ c.mode = "recv" /\ d.mode = "send" /\ d.byte = 1
             \/ c.mode = "recv" /\ d.mode = "recv" /\ d.out = 1
      BY <1>1, <2>1, <2>5, Falls
    <3>2. answers
      BY <1>1, <1>3, <2>5 DEF Sane
    <3>3. d.n = 0 /\ d.n <= Bits /\ ~(d.n = Bits) /\ ~(d.n >= Bits)
      BY <1>1, <3>1
    <3>4. d.mode # "idle" /\ (d.mode = "recv" => ~(d.out = 0))
      BY <3>1
    <3>5. Sane(d, 0, answers)
      BY <2>3, <3>2, <3>3, <3>4, SaneAt, Zenon
    <3> QED
      BY <1>3, <2>2, <3>5
  <2>6. CASE c.mode = "send" /\ c.n <= Bits
    <3>1. d.mode = "send" /\ d.n = c.n /\ d.byte = c.byte /\ (c.n = Bits => d.out = 1)
      BY <1>1, <2>1, <2>6, Falls
    <3> QED
      <4>1. Sane(c, 1, answers)
        BY <1>3
      <4>2. d.n \in Nat /\ d.out \in {0, 1}
        BY <1>1, <2>3, SlaveFields
      <4>3. answers
        BY <2>6, <4>1, SaneAt
      <4>4. Sane(d, 0, answers)
        <5>1. d.n <= Bits /\ (d.n >= Bits => d.out = 1)
          BY <1>1, <2>6, <3>1
        <5>2. d.mode # "idle" /\ d.mode # "recv"
          BY <3>1
        <5> QED
          BY <2>3, <4>3, <5>1, <5>2, SaneAt, Zenon
      <4> QED
        BY <1>3, <2>2, <4>4
  <2>7. CASE c.mode = "recv" /\ c.n < Bits
    <3>1. d = c
      BY <1>1, <2>1, <2>7, Falls
    <3> QED
      BY <1>1, <1>3, <2>2, <2>7, <3>1 DEF Sane
  <2>8. CASE c.mode = "recv" /\ c.n = Bits
    <3>1. CASE d = Slave!Stopped(c)
      BY <1>1, <1>3, <2>2, <3>1, StartStop DEF Sane
    <3>2. CASE ~(c.byte = 0 /\ ~(answers /\ c.sh \in {Camera, Camera + 1}))
      <4>1. d.mode = "recv" /\ d.n = c.n /\ d.byte = c.byte /\ d.out = 0
        BY <1>1, <2>1, <2>8, <3>2, Falls
      <4>2. answers
        BY <1>1, <1>3, <2>8, <3>2 DEF Sane
      <4> QED
        <5>1. d.n <= Bits /\ d.n = Bits /\ d.out = 0
          BY <1>1, <2>8, <4>1
        <5>2. d.mode # "idle" /\ d.mode # "send"
          BY <4>1
        <5>3. Sane(d, 0, answers)
          BY <2>3, <4>2, <5>1, <5>2, SaneAt, Zenon
        <5> QED
          BY <1>3, <2>2, <5>3
    <3> QED
      BY <1>1, <2>1, <2>8, <3>1, <3>2, Falls
  <2> QED
    BY <1>1, <1>3, <2>4, <2>5, <2>6, <2>7, <2>8 DEF Sane
<1> QED
  BY <1>2, <1>3

\* A change of both, in either order.
LEMMA SaneSeen ==
    ASSUME NEW c, NEW scl0, NEW sda0, NEW scl1, NEW sda1, NEW answers, NEW v, NEW d,
           scl0 \in {0, 1}, sda0 \in {0, 1}, scl1 \in {0, 1}, sda1 \in {0, 1},
           answers \in BOOLEAN, v \in Nat, Sane(c, scl0, answers),
           d \in Slave!Seen(c, scl0, sda0, scl1, sda1, answers, v)
    PROVE  Sane(d, scl1, answers)
<1>1. CASE scl0 = scl1
  BY <1>1, SaneSda DEF Slave!Seen
<1>2. CASE scl0 # scl1
  <2>1. scl0 = 1 - scl1
    BY <1>2
  <2>2. /\ Sane(Slave!SclEdge(c, scl1, sda1, answers, v), scl1, answers)
        /\ Sane(Slave!SclEdge(c, scl1, sda0, answers, v), scl1, answers)
        /\ Sane(Slave!SclEdge(Slave!SdaEdge(c, scl0, sda1), scl1, sda1, answers, v), scl1, answers)
    BY <2>1, SaneSda, SaneScl, ZenonT(60)
  <2>3. Sane(Slave!SdaEdge(Slave!SclEdge(c, scl1, sda0, answers, v), scl1, sda1), scl1, answers)
    BY <2>2, SaneSda
  <2> QED
    BY <1>2, <2>2, <2>3 DEF Slave!Seen
<1> QED
  BY <1>1, <1>2

\* The words of the camera's table: how many there are among its first
\* entries, and where each of them is.
LEMMA CamWords ==
    /\ Words \in Seq(Byte \X Byte \X Byte \X Byte) /\ UpTo(0) = 0
    /\ Len(Words) = UpTo(Len(Table)) /\ Len(Words) \in Nat
    /\ \A m \in 0 .. Len(Table) : UpTo(m) \in 0 .. Len(Words)
    /\ \A m \in 0 .. Len(Table) - 1 :
         IF Table[m + 1][1] = Camera
         THEN UpTo(m + 1) = UpTo(m) + 1 /\ Words[UpTo(m + 1)] = Table[m + 1]
         ELSE UpTo(m + 1) = UpTo(m)
<1> DEFINE n == Len(Table)
           P == Places
           W == Byte \X Byte \X Byte \X Byte
<1>1. n \in Nat /\ P \in SUBSET (1 .. n) /\ Table \in Seq(W)
  BY CameraAssumption DEF Places
<1>2. /\ IsFiniteSet(P) /\ Below(P, 0) = 0 /\ Below(P, n) = Cardinality(P)
      /\ \A m \in 0 .. n : Below(P, m) \in Nat /\ Below(P, m) <= Below(P, n)
      /\ \A m \in 0 .. n - 1 :
           Below(P, m + 1) = IF m + 1 \in P THEN Below(P, m) + 1 ELSE Below(P, m)
      /\ \A i, j \in P : Below(P, i) = Below(P, j) => i = j
  <2> HIDE DEF n, P
  <2> QED
    BY <1>1, Counted
<1>3. \A m \in 0 .. n : UpTo(m) = Below(P, m)
  BY DEF UpTo, Below
<1>4. \A i \in 1 .. n : i \in P <=> Table[i][1] = Camera
  BY DEF Places
<1> HIDE DEF n, P, W
<1>5. Cardinality(P) \in Nat /\ \A m \in 0 .. n : Below(P, m) \in 0 .. Cardinality(P)
  BY <1>1, <1>2
<1>6. ASSUME NEW j \in P
      PROVE  Below(P, j) \in 1 .. Cardinality(P) /\ (CHOOSE i \in P : UpTo(i) = Below(P, j)) = j
  <2>1. j \in 0 .. n /\ j - 1 \in 0 .. n - 1 /\ (j - 1) + 1 = j /\ j - 1 \in 0 .. n
    BY <1>1
  <2>2. Below(P, j) = Below(P, j - 1) + 1
    BY <1>2, <2>1
  <2>3. \A i \in P : UpTo(i) = Below(P, j) <=> i = j
    BY <1>1, <1>2, <1>3
  <2> QED
    BY <1>5, <2>1, <2>2, <2>3
<1>7. ASSUME NEW k \in 1 .. Cardinality(P)
      PROVE  \E i \in P : UpTo(i) = k
  <2>1. PICK i \in P : Below(P, i) = k
    BY <1>1, Found
  <2> QED
    BY <1>1, <1>3, <2>1
<1>8. Words = [k \in 1 .. Cardinality(P) |-> Table[CHOOSE i \in P : UpTo(i) = k]]
  BY DEF Words, P
<1>9. \A k \in 1 .. Cardinality(P) : Table[CHOOSE i \in P : UpTo(i) = k] \in W
  <2>1. ASSUME NEW k \in 1 .. Cardinality(P)
        PROVE  (CHOOSE i \in P : UpTo(i) = k) \in 1 .. n
    BY <1>1, <1>7
  <2>2. \A i \in 1 .. n : Table[i] \in W
    BY <1>1 DEF n
  <2> QED
    BY <2>1, <2>2
<1>10. Words \in Seq(W) /\ Len(Words) = Cardinality(P)
  <2>1. Words \in [1 .. Cardinality(P) -> W]
    BY <1>8, <1>9
  <2> QED
    BY <1>5, <2>1
<1>11. ASSUME NEW m \in 0 .. n - 1
       PROVE  IF Table[m + 1][1] = Camera
              THEN UpTo(m + 1) = UpTo(m) + 1 /\ Words[UpTo(m + 1)] = Table[m + 1]
              ELSE UpTo(m + 1) = UpTo(m)
  <2>1. m \in 0 .. n /\ m + 1 \in 0 .. n /\ m + 1 \in 1 .. n
    BY <1>1
  <2>2. UpTo(m) = Below(P, m) /\ UpTo(m + 1) = Below(P, m + 1)
    BY <1>3, <2>1
  <2>3. CASE m + 1 \in P
    <3>1. Words[Below(P, m + 1)] = Table[m + 1]
      BY <1>6, <1>8, <2>3
    <3> QED
      BY <1>2, <1>4, <2>1, <2>2, <2>3, <3>1
  <2>4. CASE m + 1 \notin P
    BY <1>2, <1>4, <2>1, <2>2, <2>4
  <2> QED
    BY <2>3, <2>4
<1>12. \A m \in 0 .. n : UpTo(m) \in 0 .. Len(Words)
  BY <1>3, <1>5, <1>10
<1>13. 0 \in 0 .. n /\ n \in 0 .. n
  BY <1>1
<1>14. UpTo(0) = 0 /\ Len(Words) = UpTo(n)
  BY <1>2, <1>3, <1>10, <1>13
<1> QED
  BY <1>5, <1>10, <1>11, <1>12, <1>14 DEF n, W

\* What holds of the camera's side in every state.
CamTakes4 == Nat \X Nat \X Nat \X Nat

CamSane ==
    /\ awake \in Nat /\ Sane(cam, Scl, awake > 0)
    /\ got \in Seq(CamTakes4) /\ Len(got) <= Len(Words)

\* The wires, and what the camera answers.
LEMMA Wires ==
    /\ Scl \in {0, 1} /\ Sda \in {0, 1} /\ Scl' \in {0, 1} /\ Sda' \in {0, 1}
    /\ Answer \in Nat /\ (awake > 0) \in BOOLEAN
<1>1. CameraId \in Nat
  BY Powers, CameraAssumption
<1> QED
  BY <1>1 DEF Scl, Sda, Answer

\* A clock edge that the camera sees.
LEMMA CamSees ==
    ASSUME CamSane, awake' = awake,
           cam' \in Slave!Seen(cam, Scl, Sda, Scl', Sda', awake > 0, Answer)
    PROVE  Sane(cam', Scl', awake' > 0)
<1>1. Sane(cam, Scl, awake > 0)
  BY DEF CamSane
<1>2. PICK s \in BOOLEAN : s = (awake > 0)
  BY Wires
<1>3. Sane(cam, Scl, s) /\ cam' \in Slave!Seen(cam, Scl, Sda, Scl', Sda', s, Answer)
  BY <1>1, <1>2
<1>4. Sane(cam', Scl', s)
  BY <1>3, Wires, SaneSeen
<1> QED
  BY <1>2, <1>4

\* What the camera has taken, after a clock.
LEMMA CamRemembers ==
    ASSUME CamSane,
           got' = IF Slave!Wrote(cam, cam')
                  THEN Remember(Append(got, <<Camera, cam.ptr[1], cam.ptr[2], cam.sh>>))
                  ELSE got
    PROVE  got' \in Seq(CamTakes4) /\ Len(got') <= Len(Words)
<1>1. got \in Seq(CamTakes4) /\ Len(got) <= Len(Words) /\ Len(Words) \in Nat /\ Camera \in Nat
  BY CamWords, CameraAssumption, Powers DEF CamSane
<1>2. <<Camera, cam.ptr[1], cam.ptr[2], cam.sh>> \in CamTakes4
  <2>1. cam.ptr \in Nat \X Nat /\ cam.sh \in Nat
    BY SlaveFields DEF CamSane, Sane
  <2> QED
    BY <1>1, <2>1 DEF CamTakes4
<1>3. PICK w \in CamTakes4 : w = <<Camera, cam.ptr[1], cam.ptr[2], cam.sh>>
  BY <1>2
<1>4. PICK g \in Seq(CamTakes4) : g = got
  BY <1>1
<1>6. PICK s : s = Append(g, w)
  OBVIOUS
<1>7. s \in Seq(CamTakes4) /\ Len(s) = Len(g) + 1 /\ Len(g) \in Nat /\ Len(s) \in Nat
  BY <1>3, <1>6
<1>5. Remember(s) \in Seq(CamTakes4) /\ Len(Remember(s)) <= Len(Words)
  <2>1. CASE Len(s) > Len(Words)
    <3>1. s # <<>> /\ Remember(s) = Tail(s)
      BY <1>1, <1>7, <2>1 DEF Remember
    <3>2. Tail(s) \in Seq(CamTakes4) /\ Len(Tail(s)) = Len(s) - 1
      BY <1>7, <3>1
    <3> QED
      BY <1>1, <1>4, <1>7, <3>1, <3>2
  <2>2. CASE ~(Len(s) > Len(Words))
    BY <1>1, <1>4, <1>7, <2>2 DEF Remember
  <2> QED
    BY <2>1, <2>2
<1> QED
  BY <1>1, <1>3, <1>4, <1>5, <1>6

\* The camera's side, step by step.
LEMMA CamSaneMoves ==
    ASSUME CamSane, [Next]_vars
    PROVE  CamSane'
<1>1. CASE Clock
  BY <1>1, CamSees, CamRemembers DEF Clock, CameraSees, CamSane
<1>2. CASE Run
  BY <1>2, CamSees, CamRemembers DEF Run, CameraSees, CamSane
<1>3. CASE Reset
  <2>1. Sane(cam', Scl', awake' > 0) /\ awake' = awake /\ got' = <<>>
    BY <1>3, CamSees DEF Reset
  <2>2. Len(got') = 0 /\ got' \in Seq(CamTakes4)
    BY <2>1
  <2> QED
    BY <2>1, <2>2, CamWords DEF CamSane
<1>4. CASE Wakes
  <2>1. awake \in Nat /\ awake' = awake + 1 /\ cam' = cam /\ Scl' = Scl /\ got' = got
    BY <1>4 DEF Wakes, seqVars, CamSane, Scl
  <2>2. awake' \in Nat /\ awake' > 0
    BY <2>1
  <2>3. Sane(cam', Scl', awake' > 0)
    BY <2>1, <2>2 DEF CamSane, Sane
  <2> QED
    BY <2>1, <2>2, <2>3 DEF CamSane
<1>5. CASE UNCHANGED vars
  BY <1>5 DEF CamSane, vars, seqVars, Scl
<1> QED
  BY <1>1, <1>2, <1>3, <1>4, <1>5 DEF Next

\* The camera's side at first.
LEMMA CamSaneStarts == ASSUME Init PROVE CamSane
<1>1. st = 0 /\ awake = AwakeAtFirst /\ cam = Slave!Silent /\ got = <<>>
  BY DEF Init
<1>2. /\ cam.mode = "idle" /\ cam.n = 0 /\ cam.byte = 0 /\ cam.sh = 0 /\ cam.out = 1
      /\ cam.ptr = <<0, 0>>
  BY <1>1 DEF Slave!Silent
<1>3. cam \in SlaveStates
  <2>1. 0 \in 0 .. Bits + 1 /\ 0 \in 0 .. 3 /\ <<0, 0>> \in Nat \X Nat
    BY Powers
  <2> QED
    BY <1>1, <2>1 DEF Slave!Silent, SlaveStates
<1>4. Sane(cam, Scl, awake > 0)
  BY <1>2, <1>3 DEF Sane
<1>5. awake \in Nat /\ Len(got) = 0 /\ got \in Seq(CamTakes4)
  BY <1>1, CameraAssumption
<1> QED
  BY <1>4, <1>5, CamWords DEF CamSane

\* The camera pulls the data line only where its protocol allows, whatever a
\* reset of the sequencer has put on the wires.
THEOREM CameraSane == SafeSpec => []CamSane
<1>1. Init => CamSane
  BY CamSaneStarts
<1>2. CamSane /\ [Next]_vars
      => CamSane'
  BY CamSaneMoves
<1> QED
  BY <1>1, <1>2, PTL DEF SafeSpec

\* The types of the camera's registers.
LEMMA CamTypes ==
    ASSUME CamInv, CamSane
    PROVE  TypeOK
<1>1. \A e \in Registers : EngineOk(e)
  <2>1. ASSUME NEW e \in Registers
        PROVE  EngineOk(e)
    <3>1. /\ e.st \in Nat /\ e.cnt \in 0 .. Bits + 1 /\ e.byte \in 0 .. 3
          /\ e.a \in ShiftRange /\ e.data \in Byte /\ e.end \in BOOLEAN
          /\ e.sda \in {0, 1} /\ e.scl \in {0, 1}
      BY Fields
    <3> QED
      BY <3>1 DEF EngineOk, ShiftRange
  <2> QED
    BY <2>1
<1>2. word \in Registers /\ ptr \in Registers /\ rd \in Registers
  BY DEF CamInv, CamShapes, WordShape, PointerShape, ReadShape
<1>3. EngineOk(word) /\ EngineOk(ptr) /\ EngineOk(rd)
  BY <1>1, <1>2
<1>4. cam.out \in {0, 1} /\ Len(got) <= Len(Words)
  BY SlaveFields DEF CamSane, Sane
<1>5. /\ resetN \in BOOLEAN /\ hold \in 0 .. MinHold
      /\ go \in [word : BOOLEAN, ptr : BOOLEAN, read : BOOLEAN]
      /\ cnt \in 0 .. CntSize - 1 /\ id1 \in Byte
      /\ frame \in Byte \X Byte \X Byte \X Byte /\ tab \in ToSet(Table)
      /\ wcnt \in 0 .. Len(Table)
  BY DEF CamInv, CamShapes, TableCounts
<1>6. st \in 0 .. 42
  BY DEF CamInv, CamShapes
<1> QED
  BY <1>3, <1>4, <1>5, <1>6 DEF TypeOK

-----------------------------------------------------------------------------
(* What goes over the wires.                                                *)

\* The first k bits of byte b are in h, the rest and the bit after the byte
\* on top of the shift register a.
Sent(h, a, b, k) == h * 2 ^ (Bits + 1) + a = (2 * b + 1) * 2 ^ k

\* The same for an engine that puts its bits on the line in state out.
Shows(h, e, b, out) ==
    /\ e.st # out /\ e.cnt <= Bits => Sent(h, e.a, b, e.cnt)
    /\ e.st = out /\ e.cnt < Bits => Sent(2 * h + e.sda, e.a, b, e.cnt + 1)
    /\ e.cnt = Bits + 1 \/ (e.st = out /\ e.cnt = Bits) => h = b /\ e.sda = 1

\* The three clocks of a bit and the clock that ends it, from state first on.
BitClock(e, z, first) ==
    /\ e.st \in first .. first + 3 /\ (e.st = first + 3 => e.cnt <= Bits)
    /\ e.st = first => z.st = first + 1 /\ z.sda = 0 /\ z.scl = 0 /\ z.cnt = e.cnt /\ z.a = e.a
    /\ e.st = first + 1 => /\ z.st = first + 2 /\ z.scl = e.scl /\ z.cnt = e.cnt
                           /\ z.sda = e.a \div 2 ^ Bits /\ z.a = (2 * e.a) % 2 ^ (Bits + 1)
    /\ e.st = first + 2 => /\ z.st = first + 3 /\ z.scl = 1 /\ z.cnt = e.cnt + 1
                           /\ z.sda = e.sda /\ z.a = e.a
    /\ e.st = first + 3 => /\ z.st = first /\ z.scl = 0 /\ z.cnt = e.cnt
                           /\ z.sda = e.sda /\ z.a = e.a

\* In those states SCL is high from the START on, and then for the clock in
\* which the bit is read.
BitLines(e, first) ==
    /\ e.st = first => e.scl = 0 \/ (e.sda = 0 /\ e.cnt = 0 /\ e.byte = 0)
    /\ e.st = first + 1 => e.sda = 0 /\ e.scl = 0
    /\ e.st = first + 2 => e.scl = 0
    /\ e.st = first + 3 /\ e.cnt <= Bits => e.scl = 1

High(e) == e.sda = 1 /\ e.scl = 1

\* Nothing of a byte has been sent yet.
LEMMA FirstBit == ASSUME NEW b \in Nat PROVE Sent(0, Shifted(b), b, 0)
<1>1. PICK s \in Nat : s = 2 ^ (Bits + 1)
  BY Powers
<1>2. 2 ^ 0 = 1
  BY BitsAssumption
<1>3. 0 * s + (2 * b + 1) = (2 * b + 1) * 1
  BY Z3
<1> QED
  BY <1>1, <1>2, <1>3 DEF Sent, Shifted

\* The uppermost bit and what is below it.
LEMMA TopBitOf ==
    ASSUME NEW s \in Nat, s > 0, NEW a \in Nat, a < 2 * s
    PROVE  a \div s = IF a < s THEN 0 ELSE 1
<1>1. PICK q \in Int : q = a \div s
  BY Z3
<1>2. s * q <= a /\ a < s * q + s
  BY <1>1, Z3
<1>3. q <= -1 => s * q <= -s
  BY Z3
<1>4. q >= 2 => s * q >= 2 * s
  BY Z3
<1>5. (q = 0 => s * q = 0) /\ (q = 1 => s * q = s)
  BY Z3
<1> QED
  BY <1>1, <1>2, <1>3, <1>4, <1>5

\* A bit more.
LEMMA NextBit ==
    ASSUME NEW h \in Nat, NEW a \in ShiftRange, NEW b \in Nat, NEW k \in 0 .. Bits,
           Sent(h, a, b, k)
    PROVE  Sent(2 * h + (a \div 2 ^ Bits), (2 * a) % 2 ^ (Bits + 1), b, k + 1)
<1>1. PICK s \in Nat : s = 2 ^ Bits /\ s > 0 /\ 2 ^ (Bits + 1) = 2 * s
  BY Powers
<1>2. PICK t \in Nat : t = 2 * s /\ t > 0
  BY <1>1
<1>3. a \in Nat /\ a < t /\ 2 ^ (Bits + 1) = t
  BY <1>1, <1>2 DEF ShiftRange
<1>4. PICK o \in {0, 1} : o = a \div s /\ o = IF a < s THEN 0 ELSE 1
  BY <1>1, <1>2, <1>3, TopBitOf
<1>5. PICK r \in Int : r = IF o = 0 THEN a ELSE a - s
  BY <1>3
<1>6. r >= 0 /\ r < s
  BY <1>1, <1>2, <1>3, <1>4, <1>5
<1>7. (2 * a) % t = 2 * r
  <2>1. CASE o = 0
    <3>1. r = a /\ 2 * a \in 0 .. t - 1
      BY <1>2, <1>3, <1>5, <1>6, <2>1
    <3> QED
      BY <1>2, <3>1, Z3
  <2>2. CASE o = 1
    <3>1. 2 * a = t + 2 * r /\ 2 * r \in 0 .. t - 1
      BY <1>2, <1>3, <1>5, <1>6, <2>2
    <3> QED
      BY <1>2, <3>1, Z3
  <2> QED
    BY <2>1, <2>2
<1>8. PICK p \in Nat : p = 2 ^ k /\ 2 ^ (k + 1) = 2 * p
  BY BitsAssumption
<1>9. h * t + a = (2 * b + 1) * p
  BY <1>3, <1>8 DEF Sent
<1>10. PICK w \in Nat : w = h * t
  BY <1>2
<1>11. PICK v \in Nat : v = (2 * b + 1) * p
  BY <1>8
<1>12. (2 * h + o) * t = 2 * w + o * t
  BY <1>10, Z3
<1>13. (2 * b + 1) * (2 * p) = 2 * v
  BY <1>11, Z3
<1>14. 2 * w + o * t + 2 * r = 2 * v
  <2>1. CASE o = 0
    BY <1>2, <1>3, <1>5, <1>9, <1>10, <1>11, <2>1
  <2>2. CASE o = 1
    BY <1>2, <1>3, <1>5, <1>9, <1>10, <1>11, <2>2
  <2> QED
    BY <2>1, <2>2
<1>15. (2 * h + o) * t + 2 * r = (2 * b + 1) * (2 * p)
  BY <1>12, <1>13, <1>14
<1> QED
  BY <1>1, <1>3, <1>4, <1>7, <1>8, <1>15 DEF Sent

\* All bits have been sent, and the one after the byte is next.
LEMMA LastBit ==
    ASSUME NEW h \in Nat, NEW a \in ShiftRange, NEW b \in Nat, Sent(h, a, b, Bits)
    PROVE  h = b /\ a \div 2 ^ Bits = 1
<1>1. PICK s \in Nat : s = 2 ^ Bits /\ s > 0 /\ 2 ^ (Bits + 1) = 2 * s
  BY Powers
<1>2. a \in Nat /\ a < 2 * s
  BY <1>1 DEF ShiftRange
<1>3. h * (2 * s) + a = (2 * b + 1) * s
  BY <1>1 DEF Sent
<1>4. PICK g \in Int : g = h - b
  OBVIOUS
<1>9. PICK u \in Nat, v \in Nat : u = h * s /\ v = b * s
  OBVIOUS
<1>10. h * (2 * s) = 2 * u
  BY <1>9, Z3
<1>11. (2 * b + 1) * s = 2 * v + s
  BY <1>9, Z3
<1>12. (2 * s) * g = 2 * u - 2 * v
  BY <1>4, <1>9, Z3
<1>5. (2 * s) * g + a = s
  BY <1>2, <1>3, <1>9, <1>10, <1>11, <1>12
<1>6. g = 0
  <2>1. g >= 1 => (2 * s) * g >= 2 * s
    BY <1>1, Z3
  <2>2. g <= -1 => (2 * s) * g <= -(2 * s)
    BY <1>1, Z3
  <2>3. PICK m \in Int : m = (2 * s) * g
    OBVIOUS
  <2> QED
    BY <1>1, <1>2, <1>5, <2>1, <2>2, <2>3
<1>13. (2 * s) * 0 = 0
  BY Z3
<1>7. a = s /\ h = b
  BY <1>2, <1>4, <1>5, <1>6, <1>13
<1>8. s \div s = 1
  BY <1>1, Z3
<1> QED
  BY <1>1, <1>7, <1>8

\* A clock of a bit: what a slave that reads the line at each rise has.
LEMMA ShowsMoves ==
    ASSUME NEW h \in Nat, NEW e \in Registers, NEW b \in Nat, NEW z, NEW first \in {2, 12},
           Shows(h, e, b, first + 2), BitClock(e, z, first),
           e.st \in {first, first + 1, first + 2} => e.cnt <= Bits
    PROVE  Shows(IF e.st = first + 2 /\ e.cnt < Bits THEN 2 * h + e.sda ELSE h,
                 z, b, first + 2)
<1>1. Bits \in Nat /\ Bits > 0 /\ e.cnt \in 0 .. Bits + 1 /\ e.a \in ShiftRange /\ e.st \in 0 .. 31
      /\ e.sda \in {0, 1}
  <2>1. e \in Registers
    OBVIOUS
  <2> QED
    BY <2>1, Powers, Fields
<1>2. PICK n \in 0 .. Bits : n = e.cnt
  BY <1>1 DEF BitClock
<1>3. CASE e.st = first
  <2>1. z.st = first + 1 /\ z.cnt = n /\ z.a = e.a /\ Sent(h, e.a, b, n)
    BY <1>1, <1>2, <1>3 DEF BitClock, Shows
  <2> QED
    BY <1>1, <1>2, <1>3, <2>1 DEF Shows
<1>4. CASE e.st = first + 1
  <2>1. /\ z.st = first + 2 /\ z.cnt = n /\ z.sda = e.a \div 2 ^ Bits
        /\ z.a = (2 * e.a) % 2 ^ (Bits + 1) /\ Sent(h, e.a, b, n)
    BY <1>1, <1>2, <1>4 DEF BitClock, Shows
  <2>2. Sent(2 * h + z.sda, z.a, b, n + 1)
    BY <1>1, <2>1, NextBit
  <2>3. n = Bits => h = b /\ z.sda = 1
    BY <1>1, <2>1, LastBit
  <2> QED
    BY <1>1, <1>2, <1>4, <2>1, <2>2, <2>3 DEF Shows
<1>5. CASE e.st = first + 2
  <2>1. z.st = first + 3 /\ z.cnt = n + 1 /\ z.sda = e.sda /\ z.a = e.a
    BY <1>1, <1>2, <1>5 DEF BitClock
  <2>2. CASE n < Bits
    <3>1. Sent(2 * h + e.sda, e.a, b, n + 1)
      BY <1>2, <1>5, <2>2 DEF Shows
    <3> QED
      BY <1>1, <1>2, <1>5, <2>1, <2>2, <3>1 DEF Shows
  <2>3. CASE n = Bits
    <3>1. h = b /\ e.sda = 1
      BY <1>2, <1>5, <2>3 DEF Shows
    <3> QED
      BY <1>1, <1>2, <1>5, <2>1, <2>3, <3>1 DEF Shows
  <2> QED
    BY <1>1, <2>2, <2>3
<1>6. CASE e.st = first + 3
  <2>1. z.st = first /\ z.cnt = n /\ z.a = e.a /\ Sent(h, e.a, b, n)
    BY <1>1, <1>2, <1>6 DEF BitClock, Shows
  <2> QED
    BY <1>1, <1>2, <1>6, <2>1 DEF Shows
<1> QED
  BY <1>1, <1>3, <1>4, <1>5, <1>6 DEF BitClock

\* What one clock leaves in the registers, by the state it starts in: first
\* the clocks of a bit.
LEMMA BitClocks ==
    ASSUME NEW e \in Registers, NEW first \in {2, 12}, NEW z, z.byte = e.byte,
           \/ e.st = first /\ z = BitLow(e)
           \/ e.st = first + 1 /\ z = BitOut(e)
           \/ e.st = first + 2 /\ z = BitHigh(e)
           \/ e.st = first + 3 /\ e.cnt <= Bits /\ z = Goto([e EXCEPT !.scl = 0], first)
    PROVE  BitClock(e, z, first)
<1>1. CASE e.st = first /\ z = BitLow(e)
  <2>1. z.st = e.st + 1 /\ z.sda = 0 /\ z.scl = 0 /\ z.cnt = e.cnt /\ z.a = e.a
    BY <1>1 DEF BitLow, Goto, Lines, Registers
  <2> QED
    BY <1>1, <2>1 DEF BitClock
<1>2. CASE e.st = first + 1 /\ z = BitOut(e)
  <2>1. /\ z.st = e.st + 1 /\ z.scl = e.scl /\ z.cnt = e.cnt
        /\ z.sda = e.a \div 2 ^ Bits /\ z.a = (2 * e.a) % 2 ^ (Bits + 1)
    BY <1>2 DEF BitOut, Goto, Registers
  <2> QED
    BY <1>2, <2>1 DEF BitClock
<1>3. CASE e.st = first + 2 /\ z = BitHigh(e)
  <2>1. z.st = e.st + 1 /\ z.scl = 1 /\ z.cnt = e.cnt + 1 /\ z.sda = e.sda /\ z.a = e.a
    BY <1>3 DEF BitHigh, Goto, Registers
  <2> QED
    BY <1>3, <2>1 DEF BitClock
<1>4. CASE e.st = first + 3 /\ e.cnt <= Bits /\ z = Goto([e EXCEPT !.scl = 0], first)
  <2>1. z.st = first /\ z.scl = 0 /\ z.cnt = e.cnt /\ z.sda = e.sda /\ z.a = e.a
    BY <1>4 DEF Goto, Registers
  <2> QED
    BY <1>4, <2>1 DEF BitClock
<1> QED
  BY <1>1, <1>2, <1>3, <1>4

\* The lines in the clocks of a bit.
LEMMA BitLinesMove ==
    ASSUME NEW e \in Registers, NEW first \in {2, 12}, NEW z, BitClock(e, z, first),
           BitLines(e, first)
    PROVE  BitLines(z, first)
<1>1. e.st \in Nat /\ e.st \in first .. first + 3
  BY Fields DEF BitClock
<1> QED
  BY <1>1 DEF BitClock, BitLines

\* A clock of what the two writing engines share.
LEMMA WritingIs ==
    ASSUME NEW e \in Registers, e.st \in 2 .. 8, NEW f, NEW z, z = Writing(e, f)
    PROVE  /\ e.st \in 2 .. 4 \/ (e.st = 5 /\ e.cnt <= Bits) =>
                BitClock(e, z, 2) /\ z.byte = e.byte
           /\ e.st = 5 /\ e.cnt = Bits + 1 =>
                /\ z.scl = 0 /\ z.sda = e.sda
                /\ IF e.byte + 1 = Len(f) THEN z.st = 6
                   ELSE z.st = 2 /\ z.cnt = 0 /\ z.byte = e.byte + 1 /\ z.a = Shifted(f[e.byte + 2])
           /\ e.st = 6 => z.st = 7 /\ z.sda = 0 /\ z.scl = 0
           /\ e.st = 7 => z.st = 8 /\ z.sda = 0 /\ z.scl = 1
           /\ e.st = 8 => z.st = 9 /\ z.sda = 1 /\ z.scl = 1
<1>0. Bits \in Nat /\ e.cnt \in 0 .. Bits + 1
  BY Powers, Fields
<1>1. CASE e.st = 2
  <2>1. z = BitLow(e)
    BY <1>1 DEF Writing
  <2>2. z.byte = e.byte
    BY <2>1 DEF BitLow, Goto, Lines, Registers
  <2>3. BitClock(e, z, 2)
    BY <1>1, <2>1, <2>2, BitClocks
  <2> QED
    BY <1>1, <2>2, <2>3
<1>2. CASE e.st = 3
  <2>1. z = BitOut(e)
    BY <1>2 DEF Writing
  <2>2. z.byte = e.byte
    BY <2>1 DEF BitOut, Goto, Registers
  <2>4. e.st = 2 + 1 /\ 2 \in {2, 12}
    BY <1>2
  <2>3. BitClock(e, z, 2)
    BY <2>1, <2>2, <2>4, BitClocks
  <2> QED
    BY <1>2, <2>2, <2>3
<1>3. CASE e.st = 4
  <2>1. z = BitHigh(e)
    BY <1>3 DEF Writing
  <2>2. z.byte = e.byte
    BY <2>1 DEF BitHigh, Goto, Registers
  <2>4. e.st = 2 + 2 /\ 2 \in {2, 12}
    BY <1>3
  <2>3. BitClock(e, z, 2)
    BY <2>1, <2>2, <2>4, BitClocks
  <2> QED
    BY <1>3, <2>2, <2>3
<1>4. CASE e.st = 5 /\ e.cnt <= Bits
  <2>1. z = Goto([e EXCEPT !.scl = 0], 2)
    BY <1>0, <1>4 DEF Writing, ByteEnd, FrameDone
  <2>2. z.byte = e.byte
    BY <2>1 DEF Goto, Registers
  <2>3. BitClock(e, z, 2)
    BY <1>4, <2>1, <2>2, BitClocks
  <2> QED
    BY <1>0, <1>4, <2>2, <2>3
<1>5. CASE e.st = 5 /\ e.cnt = Bits + 1
  <2>1. PICK l : l = [e EXCEPT !.scl = 0]
    OBVIOUS
  <2>2. l \in Registers /\ l.byte = e.byte /\ l.sda = e.sda /\ l.scl = 0
    BY <2>1 DEF Registers
  <2>3. z = NextByte(l, f)
    BY <1>5, <2>1 DEF Writing, ByteEnd, FrameDone
  <2>4. CASE e.byte + 1 = Len(f)
    <3>1. z = Goto(l, 6)
      BY <2>2, <2>3, <2>4 DEF NextByte
    <3>2. z.st = 6 /\ z.scl = 0 /\ z.sda = e.sda
      BY <2>2, <3>1 DEF Goto, Registers
    <3> QED
      BY <1>0, <1>5, <2>4, <3>2
  <2>5. CASE e.byte + 1 # Len(f)
    <3>1. z = Goto([l EXCEPT !.cnt = 0, !.byte = l.byte + 1, !.a = Shifted(f[l.byte + 2])], 2)
      BY <2>2, <2>3, <2>5 DEF NextByte
    <3>2. /\ z.st = 2 /\ z.scl = 0 /\ z.sda = e.sda /\ z.cnt = 0 /\ z.byte = e.byte + 1
          /\ z.a = Shifted(f[e.byte + 2])
      BY <2>2, <3>1 DEF Goto, Registers
    <3> QED
      BY <1>0, <1>5, <2>5, <3>2
  <2> QED
    BY <2>4, <2>5
<1>6. CASE e.st \in 6 .. 8
  <2>1. z = StopLines(e, 6)
    BY <1>6 DEF Writing
  <2>2. e.st = 6 => z = Goto(Lines(e, 0, 0), 7)
    BY <2>1 DEF StopLines
  <2>3. e.st = 7 => z = Goto(Lines(e, 0, 1), 8)
    BY <2>1 DEF StopLines
  <2>4. e.st = 8 => z = Goto(Lines(e, 1, 1), 9)
    BY <2>1 DEF StopLines
  <2>5. /\ e.st = 6 => z.st = 7 /\ z.sda = 0 /\ z.scl = 0
        /\ e.st = 7 => z.st = 8 /\ z.sda = 0 /\ z.scl = 1
        /\ e.st = 8 => z.st = 9 /\ z.sda = 1 /\ z.scl = 1
    BY <2>2, <2>3, <2>4, ZenonT(60) DEF Goto, Lines, Registers
  <2> QED
    BY <1>6, <2>5
<1> QED
  BY <1>0, <1>1, <1>2, <1>3, <1>4, <1>5, <1>6

\* The end of a transfer and START, with the lines.
LEMMA FinishedLines ==
    ASSUME NEW e \in Registers, NEW s \in 0 .. 31
    PROVE  Finished(e, s) \in Registers /\ Finished(e, s).st = s /\ High(Finished(e, s))
<1>1. PICK m : m = Off
  OBVIOUS
<1>2. m \in Registers /\ m.sda = 1 /\ m.scl = 1
  BY <1>1, Shifts, Powers DEF Off, Registers
<1>3. Finished(e, s) = [m EXCEPT !.st = s, !.a = e.a, !.dely = e.dely, !.data = e.data]
  BY <1>1 DEF Finished
<1> QED
  BY <1>2, <1>3, FinishedSteps DEF Registers, High

LEMMA StartLines ==
    ASSUME NEW e \in Registers, NEW s, NEW b
    PROVE  /\ Start(e, s, b).st = s /\ Start(e, s, b).sda = 0 /\ Start(e, s, b).scl = 1
           /\ Start(e, s, b).cnt = e.cnt /\ Start(e, s, b).byte = e.byte
           /\ Start(e, s, b).a = Shifted(b)
BY DEF Start, Goto, Lines, Registers

\* A clock of the engine that sends a word, outside the bytes.
LEMMA WordIs ==
    ASSUME NEW e \in Registers, NEW g \in BOOLEAN, NEW f, NEW z, z = WordClock(e, g, f)
    PROVE  /\ e.st \in 2 .. 8 => z = Writing(e, f)
           /\ e.st = 0 => z.st = (IF g THEN 30 ELSE 0) /\ High(z)
           /\ e.st = 1 => /\ z.st = 2 /\ z.sda = 0 /\ z.scl = 1 /\ z.cnt = e.cnt
                          /\ z.byte = e.byte /\ z.a = Shifted(f[1])
           /\ e.st = 9 => z.st = 30 /\ High(z)
           /\ e.st = 30 => z.st = (IF g THEN 30 ELSE 31) /\ z.sda = e.sda /\ z.scl = e.scl
           /\ e.st = 31 => z.st = 1 /\ z.sda = e.sda /\ z.scl = e.scl
<1>1. ASSUME e.st \in 2 .. 8 PROVE z = Writing(e, f)
  BY <1>1 DEF WordClock
<1>2. ASSUME e.st = 0 PROVE z.st = (IF g THEN 30 ELSE 0) /\ High(z)
  <2>1. PICK d : d = Finished(e, 0)
    OBVIOUS
  <2>2. d \in Registers /\ High(d)
    BY <2>1, FinishedLines
  <2>3. z = Goto(d, IF g THEN 30 ELSE 0)
    BY <1>2, <2>1 DEF WordClock, Goto
  <2> QED
    BY <2>2, <2>3 DEF Goto, High, Registers
<1>3. ASSUME e.st = 1
      PROVE  /\ z.st = 2 /\ z.sda = 0 /\ z.scl = 1 /\ z.cnt = e.cnt
             /\ z.byte = e.byte /\ z.a = Shifted(f[1])
  <2>1. z = Start(e, 2, f[1])
    BY <1>3 DEF WordClock
  <2> QED
    BY <2>1, StartLines
<1>4. ASSUME e.st = 9 PROVE z.st = 30 /\ High(z)
  <2>1. z = Finished(e, 30)
    BY <1>4 DEF WordClock
  <2> QED
    BY <2>1, FinishedLines
<1>5. ASSUME e.st = 30
      PROVE  z.st = (IF g THEN 30 ELSE 31) /\ z.sda = e.sda /\ z.scl = e.scl
  <2>1. z = IF g THEN e ELSE Goto(e, 31)
    BY <1>5 DEF WordClock
  <2> QED
    BY <1>5, <2>1 DEF Goto, Registers
<1>6. ASSUME e.st = 31 PROVE z.st = 1 /\ z.sda = e.sda /\ z.scl = e.scl
  <2>1. z = Goto([e EXCEPT !.end = FALSE], 1)
    BY <1>6 DEF WordClock
  <2> QED
    BY <2>1 DEF Goto, Registers
<1> QED
  BY <1>1, <1>2, <1>3, <1>4, <1>5, <1>6

\* What the lines show in each state of an engine.
WordLines(e) ==
    /\ BitLines(e, 2)
    /\ e.st \in {0, 1, 9, 30, 31} => High(e)
    /\ e.st = 5 => e.scl = 1
    /\ e.st = 6 => e.scl = 0
    /\ e.st = 7 => e.sda = 0 /\ e.scl = 0
    /\ e.st = 8 => e.sda = 0 /\ e.scl = 1

\* The pointer engine leaves SDA to the slave in state 16.
PointerLines(e) ==
    /\ BitLines(e, 2) /\ BitLines(e, 12)
    /\ e.st \in {0, 9, 10, 11, 20} => High(e)
    /\ e.st = 5 => e.scl = 1 \/ e.cnt = Bits + 1
    /\ e.st = 6 => e.scl = 0
    /\ e.st = 7 => e.sda = 0 /\ e.scl = 0
    /\ e.st = 8 => e.sda = 0 /\ e.scl = 1
    /\ e.st \in 12 .. 15 => \E h \in Nat, b \in Byte : Shows(h, e, b, 14)
    /\ e.st = 15 => e.scl = 1
    /\ e.st = 16 => High(e) /\ e.cnt = Bits + 1

ReadLines(e) ==
    /\ BitLines(e, 2)
    /\ e.st \in {0, 1, 13, 30, 31} => High(e)
    /\ e.st = 5 => e.scl = 1
    /\ e.st = 6 => e.scl = 0
    /\ e.st = 7 => e.sda = 1 /\ e.scl = 0
    /\ e.st = 8 => e.sda = 1 /\ (e.scl = 1 <=> e.dely = 0)
    /\ e.st \in {9, 10} => e.scl = 0
    /\ e.st = 11 => e.sda = 0 /\ e.scl = 0
    /\ e.st = 12 => e.sda = 0 /\ e.scl = 1

\* The lines of an engine in states 2 to 8, where it writes a byte or stops.
LEMMA WritingLines ==
    ASSUME NEW e \in Registers, e.st \in 2 .. 8, NEW f, NEW z, z = Writing(e, f),
           BitLines(e, 2), e.st = 5 => e.scl = 1 \/ e.cnt = Bits + 1
    PROVE  /\ BitLines(z, 2)
           /\ z.st \in 2 .. 9
           /\ z.st = 9 => High(z)
           /\ z.st = 5 => z.scl = 1
           /\ z.st = 6 => z.scl = 0
           /\ z.st = 7 => z.sda = 0 /\ z.scl = 0
           /\ z.st = 8 => z.sda = 0 /\ z.scl = 1
<1>1. Bits \in Nat /\ Bits > 0 /\ e.cnt \in 0 .. Bits + 1 /\ e.st \in 0 .. 31
  BY Powers, Fields
<1>2. CASE e.st \in 2 .. 4 \/ (e.st = 5 /\ e.cnt <= Bits)
  <2>1. BitClock(e, z, 2)
    BY <1>2, WritingIs
  <2>2. BitLines(z, 2)
    BY <2>1, BitLinesMove
  <2>3. z.st \in 2 .. 5 /\ (z.st = 5 => z.scl = 1)
    BY <1>2, <2>1 DEF BitClock
  <2> QED
    BY <2>2, <2>3
<1>3. CASE e.st = 5 /\ e.cnt = Bits + 1
  <2>1. z.scl = 0 /\ z.st \in {2, 6}
    BY <1>3, WritingIs
  <2> QED
    BY <2>1 DEF BitLines
<1>4. CASE e.st \in 6 .. 8
  <2>1. /\ e.st = 6 => z.st = 7 /\ z.sda = 0 /\ z.scl = 0
        /\ e.st = 7 => z.st = 8 /\ z.sda = 0 /\ z.scl = 1
        /\ e.st = 8 => z.st = 9 /\ z.sda = 1 /\ z.scl = 1
    BY WritingIs
  <2> QED
    BY <1>4, <2>1 DEF BitLines, High
<1> QED
  BY <1>1, <1>2, <1>3, <1>4

\* The lines of the engine that sends a word.
LEMMA WordLinesMove ==
    ASSUME NEW e, WordShape(e), WordLines(e), NEW g \in BOOLEAN, NEW f,
           NEW z, z = WordClock(e, g, f)
    PROVE  WordLines(z)
<1>1. /\ e \in Registers /\ e.st \in (0 .. 9) \cup {30, 31}
      /\ e.st \in {0, 1, 30, 31} => e.cnt = 0 /\ e.byte = 0
  BY DEF WordShape
<1>2. CASE e.st \in 2 .. 8
  <2>1. z = Writing(e, f) /\ BitLines(e, 2) /\ (e.st = 5 => e.scl = 1)
    BY <1>1, <1>2, WordIs DEF WordLines
  <2>2. /\ BitLines(z, 2) /\ z.st \in 2 .. 9 /\ (z.st = 9 => High(z))
        /\ z.st = 5 => z.scl = 1
        /\ z.st = 6 => z.scl = 0
        /\ z.st = 7 => z.sda = 0 /\ z.scl = 0
        /\ z.st = 8 => z.sda = 0 /\ z.scl = 1
    BY <1>1, <1>2, <2>1, WritingLines
  <2> QED
    BY <2>2 DEF WordLines
<1>3. CASE e.st = 1
  <2>1. z.st = 2 /\ z.sda = 0 /\ z.scl = 1 /\ z.cnt = 0 /\ z.byte = 0
    BY <1>1, <1>3, WordIs
  <2> QED
    BY <2>1 DEF WordLines, BitLines
<1>4. CASE e.st \in {0, 9, 30, 31}
  <2>1. e.st \in {30, 31} => e.sda = 1 /\ e.scl = 1
    BY DEF WordLines, High
  <2>2. z.st \in {0, 1, 30, 31} /\ High(z)
    BY <1>1, <1>4, <2>1, WordIs DEF High
  <2> QED
    BY <2>2 DEF WordLines, BitLines
<1> QED
  BY <1>1, <1>2, <1>3, <1>4

\* A clock of the pointer engine, outside the bytes.
LEMMA PointerIs ==
    ASSUME NEW e \in Registers, NEW g \in BOOLEAN, NEW f, NEW i, i \in {0, 1},
           NEW z, z = PointerClock(e, g, f, i)
    PROVE  /\ e.st \in 2 .. 8 => z = Writing(e, f)
           /\ e.st = 0 => z.st \in {0, 10} /\ High(z)
           /\ e.st = 9 => z.st = 10 /\ High(z)
           /\ e.st = 10 => z.st \in {10, 11} /\ z.sda = e.sda /\ z.scl = e.scl
           /\ e.st = 11 => /\ z.st = 12 /\ z.sda = 0 /\ z.scl = 1 /\ z.cnt = 0
                           /\ z.byte = e.byte /\ z.a = Shifted(f[1])
           /\ e.st \in 12 .. 14 \/ (e.st = 15 /\ e.cnt <= Bits) => BitClock(e, z, 12)
           /\ e.st = 15 /\ e.cnt = Bits + 1 =>
                z.st = 16 /\ z.sda = e.sda /\ z.scl = e.scl /\ z.cnt = e.cnt
           /\ e.st = 16 =>
                \/ z.st = 16 /\ z.sda = e.sda /\ z.scl = e.scl /\ z.cnt = e.cnt
                \/ z.st = 17 /\ i = 1
                \/ z.st = 5 /\ i = 0 /\ z.sda = e.sda /\ z.scl = 0 /\ z.cnt = e.cnt
           /\ e.st \in {17, 18} => z.st = e.st + 1
           /\ e.st = 19 => z.st = 20 /\ High(z)
           /\ e.st = 20 => z.st \in {11, 20} /\ z.sda = e.sda /\ z.scl = e.scl
<1>0. Bits \in Nat /\ e.cnt \in 0 .. Bits + 1 /\ 12 \in {2, 12}
  BY Powers, Fields
<1>1. ASSUME e.st \in 2 .. 8 PROVE z = Writing(e, f)
  BY <1>1 DEF PointerClock
<1>2. ASSUME e.st = 0 PROVE z.st \in {0, 10} /\ High(z)
  <2>1. PICK d : d = Finished(e, 0)
    OBVIOUS
  <2>2. d \in Registers /\ High(d)
    BY <2>1, FinishedLines
  <2>3. z = Goto(d, IF g THEN 10 ELSE 0)
    BY <1>2, <2>1 DEF PointerClock, Goto
  <2> QED
    BY <2>2, <2>3 DEF Goto, High, Registers
<1>3. ASSUME e.st = 9 PROVE z.st = 10 /\ High(z)
  <2>1. z = Finished(e, 10)
    BY <1>3 DEF PointerClock
  <2> QED
    BY <2>1, FinishedLines
<1>4. ASSUME e.st = 10 PROVE z.st \in {10, 11} /\ z.sda = e.sda /\ z.scl = e.scl
  <2>1. z = IF g THEN e ELSE Goto(e, 11)
    BY <1>4 DEF PointerClock
  <2> QED
    BY <1>4, <2>1 DEF Goto, Registers
<1>5. ASSUME e.st = 11
      PROVE  /\ z.st = 12 /\ z.sda = 0 /\ z.scl = 1 /\ z.cnt = 0
             /\ z.byte = e.byte /\ z.a = Shifted(f[1])
  <2>1. PICK d : d = [e EXCEPT !.end = FALSE, !.cnt = 0]
    OBVIOUS
  <2>2. d \in Registers /\ d.cnt = 0 /\ d.byte = e.byte
    <3>1. 0 \in 0 .. Bits + 1
      BY <1>0
    <3> QED
      BY <2>1, <3>1 DEF Registers
  <2>3. z = Start(d, 12, f[1])
    BY <1>5, <2>1 DEF PointerClock
  <2> QED
    BY <2>2, <2>3, StartLines
<1>6. ASSUME e.st \in 12 .. 14 \/ (e.st = 15 /\ e.cnt <= Bits) PROVE BitClock(e, z, 12)
  <2>11. /\ e.st = 12 => z = BitLow(e)
         /\ e.st = 13 => z = BitOut(e)
         /\ e.st = 14 => z = BitHigh(e)
    BY DEF PointerClock
  <2>12. BitLow(e).byte = e.byte /\ BitOut(e).byte = e.byte /\ BitHigh(e).byte = e.byte
    BY DEF BitLow, BitOut, BitHigh, Goto, Lines, Registers
  <2>1. e.st = 12 => z = BitLow(e) /\ z.byte = e.byte
    BY <2>11, <2>12
  <2>2. e.st = 13 => z = BitOut(e) /\ z.byte = e.byte
    BY <2>11, <2>12
  <2>3. e.st = 14 => z = BitHigh(e) /\ z.byte = e.byte
    BY <2>11, <2>12
  <2>4. e.st = 15 /\ e.cnt <= Bits => z = Goto([e EXCEPT !.scl = 0], 12)
    BY <1>0 DEF PointerClock, AddressBitEnd, FrameDone
  <2>5. e.st = 15 /\ e.cnt <= Bits => z.byte = e.byte
    BY <2>4 DEF Goto, Registers
  <2>6. 12 + 1 = 13 /\ 12 + 2 = 14 /\ 12 + 3 = 15
    OBVIOUS
  <2>7. e.st = 12 => BitClock(e, z, 12)
    BY <1>0, <2>1, BitClocks
  <2>8. e.st = 13 => BitClock(e, z, 12)
    BY <1>0, <2>2, <2>6, BitClocks
  <2>9. e.st = 14 => BitClock(e, z, 12)
    BY <1>0, <2>3, <2>6, BitClocks
  <2>10. e.st = 15 /\ e.cnt <= Bits => BitClock(e, z, 12)
    BY <1>0, <2>4, <2>5, <2>6, BitClocks
  <2> QED
    BY <1>6, <2>7, <2>8, <2>9, <2>10
<1>7. ASSUME e.st = 15, e.cnt = Bits + 1
      PROVE  z.st = 16 /\ z.sda = e.sda /\ z.scl = e.scl /\ z.cnt = e.cnt
  <2>1. z = Goto([e EXCEPT !.dely = 0], 16)
    BY <1>7 DEF PointerClock, AddressBitEnd, FrameDone
  <2> QED
    BY <2>1 DEF Goto, Registers
<1>8. ASSUME e.st = 16
      PROVE  \/ z.st = 16 /\ z.sda = e.sda /\ z.scl = e.scl /\ z.cnt = e.cnt
             \/ z.st = 17 /\ i = 1
             \/ z.st = 5 /\ i = 0 /\ z.sda = e.sda /\ z.scl = 0 /\ z.cnt = e.cnt
  <2>1. PICK d : d = [e EXCEPT !.dely = e.dely + 1]
    OBVIOUS
  <2>2. d \in Registers /\ d.st = e.st /\ d.sda = e.sda /\ d.scl = e.scl /\ d.cnt = e.cnt
    BY <2>1, Fields DEF Registers
  <2>3. \/ z = d
        \/ i = 1 /\ z = Goto(d, 17)
        \/ i # 1 /\ z = Goto([d EXCEPT !.scl = 0], 5)
    BY <1>8, <2>1 DEF PointerClock, AddressAnswer
  <2>4. Goto(d, 17).st = 17
    BY <2>2 DEF Goto, Registers
  <2>5. /\ Goto([d EXCEPT !.scl = 0], 5).st = 5 /\ Goto([d EXCEPT !.scl = 0], 5).sda = d.sda
        /\ Goto([d EXCEPT !.scl = 0], 5).scl = 0 /\ Goto([d EXCEPT !.scl = 0], 5).cnt = d.cnt
    BY <2>2 DEF Goto, Registers
  <2> QED
    BY <1>8, <2>2, <2>3, <2>4, <2>5
<1>9. ASSUME e.st \in 17 .. 19
      PROVE  z.st = e.st + 1 /\ (e.st = 19 => High(z))
  <2>1. e.st = 17 => z = Goto(Lines(e, 0, 0), 18)
    BY DEF PointerClock, StopLines
  <2>2. e.st = 18 => z = Goto(Lines(e, 0, 1), 19)
    BY DEF PointerClock, StopLines
  <2>3. e.st = 19 => z = [Goto(Lines(e, 1, 1), 20) EXCEPT !.dely = 0]
    BY DEF PointerClock, StopLines
  <2>4. PICK d : d = Goto(Lines(e, 1, 1), 20)
    OBVIOUS
  <2>8. d \in Registers
    BY <2>4, LineSteps
  <2>9. d.st = 20 /\ d.sda = 1 /\ d.scl = 1
    BY <2>4 DEF Goto, Lines, Registers
  <2>5. d \in Registers /\ d.st = 20 /\ d.sda = 1 /\ d.scl = 1
    BY <2>8, <2>9
  <2>6. e.st = 19 => z.st = 20 /\ High(z)
    BY <2>3, <2>4, <2>5 DEF High, Registers
  <2>7. Goto(Lines(e, 0, 0), 18).st = 18 /\ Goto(Lines(e, 0, 1), 19).st = 19
    BY DEF Goto, Lines, Registers
  <2> QED
    BY <1>9, <2>1, <2>2, <2>6, <2>7
<1>10. ASSUME e.st = 20 PROVE z.st \in {11, 20} /\ z.sda = e.sda /\ z.scl = e.scl
  <2>1. z = [e EXCEPT !.dely = e.dely + 1, !.st = IF e.dely > 2 THEN 11 ELSE 20]
    BY <1>10 DEF PointerClock
  <2> QED
    BY <2>1 DEF Registers
<1> QED
  BY <1>1, <1>2, <1>3, <1>4, <1>5, <1>6, <1>7, <1>8, <1>9, <1>10

\* The lines of the pointer engine.
LEMMA PointerLinesMove ==
    ASSUME NEW e, PointerShape(e), PointerLines(e), NEW g \in BOOLEAN, NEW f, f[1] \in Byte,
           NEW i, i \in {0, 1}, NEW z, z = PointerClock(e, g, f, i)
    PROVE  PointerLines(z)
<1>1. /\ e \in Registers /\ e.st \in {0} \cup (2 .. 20)
      /\ e.st = 11 => e.byte = 0
      /\ e.st \in {2, 3, 4, 12, 13, 14} => e.cnt <= Bits
  BY DEF PointerShape
<1>2. Bits \in Nat /\ e.cnt \in 0 .. Bits + 1 /\ e.st \in 0 .. 31 /\ Byte \subseteq Nat
  BY <1>1, Powers, Fields
<1>3. CASE e.st \in 2 .. 8
  <2>1. z = Writing(e, f) /\ BitLines(e, 2) /\ (e.st = 5 => e.scl = 1 \/ e.cnt = Bits + 1)
    BY <1>1, <1>3, PointerIs DEF PointerLines
  <2>2. /\ BitLines(z, 2) /\ z.st \in 2 .. 9 /\ (z.st = 9 => High(z))
        /\ z.st = 5 => z.scl = 1
        /\ z.st = 6 => z.scl = 0
        /\ z.st = 7 => z.sda = 0 /\ z.scl = 0
        /\ z.st = 8 => z.sda = 0 /\ z.scl = 1
    BY <1>1, <1>3, <2>1, WritingLines
  <2> QED
    BY <2>2 DEF PointerLines, BitLines
<1>4. CASE e.st = 11
  <2>1. z.st = 12 /\ z.sda = 0 /\ z.scl = 1 /\ z.cnt = 0 /\ z.byte = 0 /\ z.a = Shifted(f[1])
    BY <1>1, <1>4, PointerIs
  <2>2. Sent(0, z.a, f[1], 0)
    BY <1>2, <2>1, FirstBit
  <2>3. Shows(0, z, f[1], 14)
    BY <1>2, <2>1, <2>2 DEF Shows
  <2> QED
    BY <2>1, <2>3 DEF PointerLines, BitLines
<1>5. CASE e.st \in 12 .. 14 \/ (e.st = 15 /\ e.cnt <= Bits)
  <2>1. BitClock(e, z, 12) /\ BitLines(e, 12)
    BY <1>1, <1>5, PointerIs DEF PointerLines
  <2>2. BitLines(z, 12)
    BY <1>1, <2>1, BitLinesMove
  <2>3. PICK h \in Nat, b \in Byte : Shows(h, e, b, 14)
    BY <1>5 DEF PointerLines
  <2>4. Shows(h, e, b, 12 + 2) /\ b \in Nat /\ 12 \in {2, 12}
    BY <1>2, <2>3
  <2>5. e.st \in {12, 12 + 1, 12 + 2} => e.cnt <= Bits
    BY <1>1
  <2>6. PICK k : k = IF e.st = 12 + 2 /\ e.cnt < Bits THEN 2 * h + e.sda ELSE h
    OBVIOUS
  <2>7. Shows(k, z, b, 14)
    BY <1>1, <2>1, <2>4, <2>5, <2>6, ShowsMoves
  <2>8. k \in Nat
    BY <1>1, <2>6, Fields
  <2>9. z.st \in 12 .. 15 /\ (z.st = 15 => z.scl = 1)
    BY <1>5, <2>1 DEF BitClock
  <2> QED
    BY <2>2, <2>7, <2>8, <2>9 DEF PointerLines, BitLines
<1>6. CASE e.st = 15 /\ e.cnt = Bits + 1
  <2>1. z.st = 16 /\ z.sda = e.sda /\ z.scl = e.scl /\ z.cnt = Bits + 1
    BY <1>1, <1>6, PointerIs
  <2>2. PICK h \in Nat, b \in Byte : Shows(h, e, b, 14)
    BY <1>6 DEF PointerLines
  <2>3. e.sda = 1 /\ e.scl = 1
    BY <1>6, <2>2 DEF Shows, PointerLines
  <2> QED
    BY <2>1, <2>3 DEF PointerLines, BitLines, High
<1>7. CASE e.st = 16
  <2>1. e.sda = 1 /\ e.scl = 1 /\ e.cnt = Bits + 1
    BY <1>7 DEF PointerLines, High
  <2>2. \/ z.st = 16 /\ z.sda = 1 /\ z.scl = 1 /\ z.cnt = Bits + 1
        \/ z.st = 17
        \/ z.st = 5 /\ z.cnt = Bits + 1
    BY <1>1, <1>7, <2>1, PointerIs
  <2>3. ~(Bits + 1 <= Bits)
    BY <1>2
  <2> QED
    BY <2>2, <2>3 DEF PointerLines, BitLines, High
<1>8. CASE e.st \in {0, 9, 10, 17, 18, 19, 20}
  <2>1. e.st \in {10, 20} => e.sda = 1 /\ e.scl = 1
    BY DEF PointerLines, High
  <2>2. z.st \in {18, 19} \/ (z.st \in {0, 10, 11, 20} /\ High(z))
    BY <1>1, <1>8, <2>1, PointerIs DEF High
  <2> QED
    BY <2>2 DEF PointerLines, BitLines
<1>9. e.st \in 12 .. 15 =>
        \/ e.st \in 12 .. 14
        \/ (e.st = 15 /\ e.cnt <= Bits)
        \/ (e.st = 15 /\ e.cnt = Bits + 1)
  BY <1>2
<1> QED
  BY <1>1, <1>3, <1>4, <1>5, <1>6, <1>7, <1>8, <1>9

\* A clock of the reading engine.
LEMMA ReadIs ==
    ASSUME NEW e \in Registers, NEW g \in BOOLEAN, NEW f, NEW i, i \in {0, 1},
           NEW z, z = ReadClock(e, g, f, i), e.st = 8 => e.dely \in 0 .. 2
    PROVE  /\ e.st \in 2 .. 4 \/ (e.st = 5 /\ e.cnt <= Bits) => BitClock(e, z, 2)
           /\ e.st = 5 /\ e.cnt = Bits + 1 => z.st = 6 /\ z.scl = 0 /\ z.sda = e.sda
           /\ e.st = 0 => z.st \in {0, 30} /\ High(z)
           /\ e.st = 1 => /\ z.st = 2 /\ z.sda = 0 /\ z.scl = 1 /\ z.cnt = e.cnt
                          /\ z.byte = e.byte /\ z.a = Shifted(f + 1)
           /\ e.st = 6 => z.st = 7 /\ z.sda = 1 /\ z.scl = 0 /\ z.cnt = 0
           /\ e.st = 7 => /\ z.st = 8 /\ z.sda = e.sda /\ z.scl = 1 /\ z.cnt = e.cnt + 1
                          /\ z.dely = 0
           /\ e.st = 8 => /\ z.scl = 0 /\ z.dely = e.dely + 1
                          /\ IF e.dely # 2 THEN z.st = 8 /\ z.sda = e.sda /\ z.cnt = e.cnt
                             ELSE IF e.cnt = Bits + 1 THEN z.st = 9 /\ z.sda = e.sda
                             ELSE z.st = 7 /\ z.cnt = e.cnt /\ z.sda \in {1, e.sda}
           /\ e.st = 9 => z.st \in {6, 10} /\ z.sda = e.sda /\ z.scl = e.scl
                          /\ (e.byte > 0 => z.st = 10)
           /\ e.st = 10 => z.st = 11 /\ z.sda = 0 /\ z.scl = 0
           /\ e.st = 11 => z.st = 12 /\ z.sda = 0 /\ z.scl = 1
           /\ e.st = 12 => z.st = 13 /\ High(z)
           /\ e.st = 13 => z.st = 30 /\ High(z)
           /\ e.st = 30 => z.st = (IF g THEN 30 ELSE 31) /\ z.sda = e.sda /\ z.scl = e.scl
           /\ e.st = 31 => z.st = 1 /\ z.sda = e.sda /\ z.scl = e.scl
<1>0. Bits \in Nat /\ e.cnt \in 0 .. Bits + 1 /\ 2 \in {2, 12} /\ e.dely \in Nat /\ e.data \in Byte
  BY Powers, Fields
<1>1. ASSUME e.st \in 2 .. 4 \/ (e.st = 5 /\ e.cnt <= Bits) PROVE BitClock(e, z, 2)
  <2>1. /\ e.st = 2 => z = BitLow(e)
        /\ e.st = 3 => z = BitOut(e)
        /\ e.st = 4 => z = BitHigh(e)
    BY DEF ReadClock
  <2>2. BitLow(e).byte = e.byte /\ BitOut(e).byte = e.byte /\ BitHigh(e).byte = e.byte
    BY DEF BitLow, BitOut, BitHigh, Goto, Lines, Registers
  <2>3. e.st = 5 /\ e.cnt <= Bits => z = Goto([e EXCEPT !.scl = 0], 2)
    BY <1>0 DEF ReadClock, FrameDone
  <2>4. e.st = 5 /\ e.cnt <= Bits => z.byte = e.byte
    BY <2>3 DEF Goto, Registers
  <2>5. 2 + 1 = 3 /\ 2 + 2 = 4 /\ 2 + 3 = 5
    OBVIOUS
  <2>6. e.st = 2 => BitClock(e, z, 2)
    BY <1>0, <2>1, <2>2, BitClocks
  <2>7. e.st = 3 => BitClock(e, z, 2)
    BY <1>0, <2>1, <2>2, <2>5, BitClocks
  <2>8. e.st = 4 => BitClock(e, z, 2)
    BY <1>0, <2>1, <2>2, <2>5, BitClocks
  <2>9. e.st = 5 /\ e.cnt <= Bits => BitClock(e, z, 2)
    BY <1>0, <2>3, <2>4, <2>5, BitClocks
  <2> QED
    BY <1>1, <2>6, <2>7, <2>8, <2>9
<1>2. ASSUME e.st = 5, e.cnt = Bits + 1 PROVE z.st = 6 /\ z.scl = 0 /\ z.sda = e.sda
  <2>1. z = Goto([e EXCEPT !.scl = 0], 6)
    BY <1>2 DEF ReadClock, FrameDone
  <2> QED
    BY <2>1 DEF Goto, Registers
<1>3. ASSUME e.st = 0 PROVE z.st \in {0, 30} /\ High(z)
  <2>1. PICK m : m = Off
    OBVIOUS
  <2>2. m \in Registers /\ m.sda = 1 /\ m.scl = 1
    BY <2>1, Shifts, Powers DEF Off, Registers
  <2>3. z = [m EXCEPT !.st = IF g THEN 30 ELSE 0, !.a = e.a, !.dely = e.dely]
    BY <1>3, <2>1 DEF ReadClock
  <2> QED
    BY <2>2, <2>3 DEF High, Registers
<1>4. ASSUME e.st = 1
      PROVE  /\ z.st = 2 /\ z.sda = 0 /\ z.scl = 1 /\ z.cnt = e.cnt
             /\ z.byte = e.byte /\ z.a = Shifted(f + 1)
  <2>1. z = Start(e, 2, f + 1)
    BY <1>4 DEF ReadClock
  <2> QED
    BY <2>1, StartLines
<1>5. ASSUME e.st = 6 PROVE z.st = 7 /\ z.sda = 1 /\ z.scl = 0 /\ z.cnt = 0
  <2>1. z = Goto([Lines(e, 1, 0) EXCEPT !.cnt = 0], 7)
    BY <1>5 DEF ReadClock
  <2> QED
    BY <2>1 DEF Goto, Lines, Registers
<1>6. ASSUME e.st = 7
      PROVE  z.st = 8 /\ z.sda = e.sda /\ z.scl = 1 /\ z.cnt = e.cnt + 1 /\ z.dely = 0
  <2>1. PICK w : w = IF e.cnt # Bits THEN (2 * e.data + i) % 2 ^ Bits ELSE e.data
    OBVIOUS
  <2>2. PICK d : d = [e EXCEPT !.dely = 0, !.scl = 1]
    OBVIOUS
  <2>3. d.sda = e.sda /\ d.scl = 1 /\ d.dely = 0 /\ d \in Registers /\ d.cnt = e.cnt
    BY <2>2 DEF Registers
  <2>4. z = [d EXCEPT !.cnt = e.cnt + 1, !.data = w, !.st = 8]
    BY <1>6, <2>1, <2>2 DEF ReadClock, ReadBit, Goto
  <2> QED
    BY <2>3, <2>4 DEF Registers
<1>7. ASSUME e.st = 8
      PROVE  /\ z.scl = 0 /\ z.dely = e.dely + 1
             /\ IF e.dely # 2 THEN z.st = 8 /\ z.sda = e.sda /\ z.cnt = e.cnt
                ELSE IF e.cnt = Bits + 1 THEN z.st = 9 /\ z.sda = e.sda
                ELSE z.st = 7 /\ z.cnt = e.cnt /\ z.sda \in {1, e.sda}
  <2>8. PICK n \in Nat : n = e.dely + 1
    BY <1>0
  <2>1. PICK d : d = [e EXCEPT !.dely = n, !.scl = 0]
    OBVIOUS
  <2>9. /\ d \in Registers /\ d.st = 8 /\ d.sda = e.sda /\ d.scl = 0 /\ d.dely = n
        /\ d.cnt = e.cnt
    BY <1>7, <2>1 DEF Registers
  <2>2. /\ d \in Registers /\ d.st = 8 /\ d.sda = e.sda /\ d.scl = 0 /\ d.dely = e.dely + 1
        /\ d.cnt = e.cnt
    BY <2>8, <2>9
  <2>3. z = IF e.dely # 2 THEN d
            ELSE IF e.cnt = Bits THEN Goto([d EXCEPT !.sda = 1], 7)
            ELSE IF e.cnt = Bits + 1 THEN Goto([d EXCEPT !.byte = d.byte + 1], 9)
            ELSE Goto(d, 7)
    BY <1>7, <2>1, <2>8 DEF ReadClock, ReadBitEnd, FrameDone
  <2>4. CASE e.dely # 2
    BY <2>2, <2>3, <2>4
  <2>5. CASE e.dely = 2 /\ e.cnt = Bits
    <3>1. z = Goto([d EXCEPT !.sda = 1], 7)
      BY <2>3, <2>5
    <3>2. z.scl = 0 /\ z.dely = d.dely /\ z.st = 7 /\ z.cnt = d.cnt /\ z.sda = 1
      BY <2>2, <3>1 DEF Goto, Registers
    <3> QED
      BY <1>0, <2>2, <2>5, <3>2
  <2>6. CASE e.dely = 2 /\ e.cnt = Bits + 1
    <3>1. z = Goto([d EXCEPT !.byte = d.byte + 1], 9)
      BY <1>0, <2>3, <2>6
    <3>2. z.scl = 0 /\ z.dely = d.dely /\ z.st = 9 /\ z.sda = d.sda
      BY <2>2, <3>1 DEF Goto, Registers
    <3> QED
      BY <2>2, <2>6, <3>2
  <2>7. CASE e.dely = 2 /\ e.cnt # Bits /\ e.cnt # Bits + 1
    <3>1. z = Goto(d, 7)
      BY <2>3, <2>7
    <3>2. z.scl = 0 /\ z.dely = d.dely /\ z.st = 7 /\ z.cnt = d.cnt /\ z.sda = d.sda
      BY <2>2, <3>1 DEF Goto, Registers
    <3> QED
      BY <2>2, <2>7, <3>2
  <2> QED
    BY <2>4, <2>5, <2>6, <2>7
<1>8. ASSUME e.st = 9
      PROVE  z.st \in {6, 10} /\ z.sda = e.sda /\ z.scl = e.scl /\ (e.byte > 0 => z.st = 10)
  <2>1. z = Goto(e, IF e.byte > 0 THEN 10 ELSE 6)
    BY <1>8 DEF ReadClock
  <2> QED
    BY <2>1 DEF Goto, Registers
<1>9. ASSUME e.st \in 10 .. 12
      PROVE  /\ e.st = 10 => z.st = 11 /\ z.sda = 0 /\ z.scl = 0
             /\ e.st = 11 => z.st = 12 /\ z.sda = 0 /\ z.scl = 1
             /\ e.st = 12 => z.st = 13 /\ High(z)
  <2>1. e.st = 10 => z = Goto(Lines(e, 0, 0), 11)
    BY DEF ReadClock, StopLines
  <2>2. e.st = 11 => z = Goto(Lines(e, 0, 1), 12)
    BY DEF ReadClock, StopLines
  <2>3. e.st = 12 => z = Goto(Lines(e, 1, 1), 13)
    BY DEF ReadClock, StopLines
  <2> QED
    BY <2>1, <2>2, <2>3, ZenonT(60) DEF Goto, Lines, High, Registers
<1>10. ASSUME e.st = 13 PROVE z.st = 30 /\ High(z)
  <2>1. z = Finished(e, 30)
    BY <1>10 DEF ReadClock
  <2> QED
    BY <2>1, FinishedLines
<1>11. ASSUME e.st = 30
       PROVE  z.st = (IF g THEN 30 ELSE 31) /\ z.sda = e.sda /\ z.scl = e.scl
  <2>1. z = IF g THEN e ELSE Goto(e, 31)
    BY <1>11 DEF ReadClock
  <2> QED
    BY <1>11, <2>1 DEF Goto, Registers
<1>12. ASSUME e.st = 31 PROVE z.st = 1 /\ z.sda = e.sda /\ z.scl = e.scl
  <2>1. z = Goto([e EXCEPT !.end = FALSE], 1)
    BY <1>12 DEF ReadClock
  <2> QED
    BY <2>1 DEF Goto, Registers
<1> QED
  BY <1>1, <1>2, <1>3, <1>4, <1>5, <1>6, <1>7, <1>8, <1>9, <1>10, <1>11, <1>12

\* The lines of the reading engine.
LEMMA ReadLinesMove ==
    ASSUME NEW e, ReadShape(e), ReadLines(e), NEW g \in BOOLEAN, NEW f,
           NEW i, i \in {0, 1}, NEW z, z = ReadClock(e, g, f, i)
    PROVE  ReadLines(z)
<1>1. /\ e \in Registers /\ e.st \in (0 .. 13) \cup {30, 31}
      /\ e.st = 1 => e.cnt = 0
      /\ e.byte = IF e.st \in 9 .. 13 THEN 1 ELSE 0
      /\ e.st = 8 => e.dely \in 0 .. 2
  BY DEF ReadShape
<1>2. Bits \in Nat /\ e.cnt \in 0 .. Bits + 1 /\ e.dely \in Nat /\ e.sda \in {0, 1}
  BY <1>1, Powers, Fields
<1>3. CASE e.st \in 2 .. 4 \/ (e.st = 5 /\ e.cnt <= Bits)
  <2>1. BitClock(e, z, 2) /\ BitLines(e, 2)
    BY <1>1, <1>3, ReadIs DEF ReadLines
  <2>2. BitLines(z, 2)
    BY <1>1, <2>1, BitLinesMove
  <2>3. z.st \in 2 .. 5 /\ (z.st = 5 => z.scl = 1)
    BY <1>3, <2>1 DEF BitClock
  <2> QED
    BY <2>2, <2>3 DEF ReadLines
<1>4. CASE e.st = 5 /\ e.cnt = Bits + 1
  <2>1. z.st = 6 /\ z.scl = 0
    BY <1>1, <1>4, ReadIs
  <2> QED
    BY <2>1 DEF ReadLines, BitLines
<1>5. CASE e.st = 1
  <2>1. z.st = 2 /\ z.sda = 0 /\ z.scl = 1 /\ z.cnt = 0 /\ z.byte = 0
    BY <1>1, <1>5, ReadIs
  <2> QED
    BY <2>1 DEF ReadLines, BitLines
<1>6. CASE e.st = 6
  <2>1. z.st = 7 /\ z.sda = 1 /\ z.scl = 0
    BY <1>1, <1>6, ReadIs
  <2> QED
    BY <2>1 DEF ReadLines, BitLines
<1>7. CASE e.st = 7
  <2>1. e.sda = 1
    BY <1>7 DEF ReadLines
  <2>2. z.st = 8 /\ z.sda = 1 /\ z.scl = 1 /\ z.dely = 0
    BY <1>1, <1>7, <2>1, ReadIs
  <2> QED
    BY <2>2 DEF ReadLines, BitLines
<1>8. CASE e.st = 8
  <2>1. e.sda = 1
    BY <1>8 DEF ReadLines
  <2>2. z.scl = 0 /\ z.dely = e.dely + 1 /\ z.st \in {7, 8, 9} /\ (z.st # 9 => z.sda = 1)
    BY <1>1, <1>8, <2>1, ReadIs
  <2>3. ~(z.dely = 0)
    BY <1>2, <2>2
  <2> QED
    BY <2>2, <2>3 DEF ReadLines, BitLines
<1>9. CASE e.st \in {9, 10, 11}
  <2>1. e.st = 9 => e.scl = 0
    BY DEF ReadLines
  <2>2. \/ z.st = 10 /\ z.scl = 0
        \/ z.st = 11 /\ z.sda = 0 /\ z.scl = 0
        \/ z.st = 12 /\ z.sda = 0 /\ z.scl = 1
    BY <1>1, <1>9, <2>1, ReadIs
  <2> QED
    BY <2>2 DEF ReadLines, BitLines
<1>10. CASE e.st \in {0, 12, 13, 30, 31}
  <2>1. e.st \in {30, 31} => e.sda = 1 /\ e.scl = 1
    BY DEF ReadLines, High
  <2>2. z.st \in {0, 1, 13, 30, 31} /\ High(z)
    BY <1>1, <1>10, <2>1, ReadIs DEF High
  <2> QED
    BY <2>2 DEF ReadLines, BitLines
<1> QED
  BY <1>1, <1>2, <1>3, <1>4, <1>5, <1>6, <1>7, <1>8, <1>9, <1>10

\* What a slave makes of the changes that a single engine causes.
LEMMA Edges ==
    ASSUME NEW c, NEW q, NEW p, NEW y, NEW x, NEW answers, NEW v, NEW d,
           q \in {0, 1}, p \in {0, 1}, y \in {0, 1}, x \in {0, 1},
           d \in Slave!Seen(c, q, p, y, x, answers, v)
    PROVE  /\ q = y /\ (p = x \/ y = 0) => d = c
           /\ q = 0 /\ y = 1 /\ p = x => d = Slave!Rise(c, IF c.out = 0 THEN 0 ELSE x)
           /\ q = 1 /\ y = 0 /\ p = x => d = Slave!Fall(c, answers, v)
           /\ q = 1 /\ y = 1 /\ p = 1 /\ x = 0 => d = IF c.out = 0 THEN c ELSE Slave!Started(c)
           /\ q = 1 /\ y = 1 /\ p = 0 /\ x = 1 => d = IF c.out = 0 THEN c ELSE Slave!Stopped(c)
<1>1. CASE q = y /\ p = x
  BY <1>1 DEF Slave!Seen
<1>2. CASE q = y /\ p # x
  <2>1. d = Slave!SdaEdge(c, y, x)
    BY <1>2 DEF Slave!Seen
  <2> QED
    BY <1>2, <2>1 DEF Slave!SdaEdge
<1>3. CASE q # y /\ p = x
  <2>1. d = Slave!SclEdge(c, y, x, answers, v)
    BY <1>3 DEF Slave!Seen
  <2> QED
    BY <1>3, <2>1 DEF Slave!SclEdge
<1>4. CASE q # y /\ p # x
  BY <1>4
<1> QED
  BY <1>1, <1>2, <1>3, <1>4

\* A clock that is neither START nor STOP.
Quiet(q, p, y, x) == IF q = y THEN p = x \/ y = 0 ELSE p = x

\* A slave that is not listening goes on not listening.
LEMMA NotListening ==
    ASSUME NEW c, NEW q, NEW p, NEW y, NEW x, NEW answers, NEW v, NEW d,
           q \in {0, 1}, p \in {0, 1}, y \in {0, 1}, x \in {0, 1},
           answers \in BOOLEAN, v \in Nat, Sane(c, q, answers), Quiet(q, p, y, x),
           d \in Slave!Seen(c, q, p, y, x, answers, v)
    PROVE  /\ c.mode = "idle" => d = c
           /\ c.mode # "recv" => d.mode # "recv"
<1>1. c \in SlaveStates /\ c.n \in Nat /\ (q = 0 /\ c.mode # "idle" => c.n <= Bits)
  <2>1. c \in SlaveStates /\ Bits \in Nat
    BY Powers DEF Sane
  <2>2. c.n \in 0 .. Bits + 1 /\ c.mode \in {"idle", "recv", "send"}
    BY <2>1, SlaveFields
  <2>3. q = 0 /\ c.mode # "idle" => c.n <= Bits
    BY <2>1, <2>2 DEF Sane
  <2> QED
    BY <2>1, <2>2, <2>3
<1>2. CASE q = y
  <2>1. d = c
    BY <1>2, Edges DEF Quiet
  <2> QED
    BY <2>1
<1>3. CASE q = 0 /\ y = 1
  <2>1. PICK b \in {0, 1} : b = IF c.out = 0 THEN 0 ELSE x
    OBVIOUS
  <2>2. d = Slave!Rise(c, b)
    BY <1>3, <2>1, Edges DEF Quiet
  <2>3. CASE c.mode = "idle"
    <3>1. d = c
      BY <2>2, <2>3 DEF Slave!Rise
    <3> QED
      BY <2>3, <3>1
  <2>4. CASE c.mode = "send"
    <3>1. d = Slave!Stopped(c) \/ d.mode = "send"
      BY <1>1, <1>3, <2>2, <2>4, Rises
    <3>2. Slave!Stopped(c).mode = "idle"
      BY <1>1, StartStop
    <3> QED
      BY <2>4, <3>1, <3>2
  <2> QED
    BY <1>1, <2>3, <2>4, SlaveFields
<1>4. CASE q = 1 /\ y = 0
  <2>1. d = Slave!Fall(c, answers, v)
    BY <1>4, Edges DEF Quiet
  <2>2. c.mode = "idle" => d = c
    BY <1>1, <2>1, Falls
  <2>3. c.mode = "send" => d.mode = "send"
    <3>1. c.n \in 0 .. Bits + 1 /\ Bits \in Nat
      BY <1>1, Powers, SlaveFields
    <3>2. CASE c.n = Bits + 1
      BY <1>1, <2>1, <3>2, Falls
    <3>3. CASE c.n <= Bits
      BY <1>1, <2>1, <3>3, Falls
    <3> QED
      BY <3>1, <3>2, <3>3
  <2> QED
    BY <1>1, <2>2, <2>3, SlaveFields
<1> QED
  BY <1>2, <1>3, <1>4

\* A clock of a bit is neither START nor STOP.
LEMMA BitQuiet ==
    ASSUME NEW e \in Registers, NEW z, BitClock(e, z, 2), BitLines(e, 2)
    PROVE  /\ e.scl \in {0, 1} /\ e.sda \in {0, 1} /\ z.scl \in {0, 1} /\ z.sda \in {0, 1}
           /\ Quiet(e.scl, e.sda, z.scl, z.sda)
           /\ e.st \in 2 .. 5
           /\ e.st = 2 => z.scl = 0 /\ (e.scl = 1 => e.cnt = 0)
           /\ e.st = 3 => e.scl = 0 /\ z.scl = 0
           /\ e.st = 4 => e.scl = 0 /\ z.scl = 1 /\ z.sda = e.sda
           /\ e.st = 5 => e.scl = 1 /\ z.scl = 0 /\ e.cnt <= Bits
<1>1. /\ e.scl \in {0, 1} /\ e.sda \in {0, 1} /\ e.a \in ShiftRange
  BY Fields
<1>2. e.a \div 2 ^ Bits \in {0, 1}
  BY <1>1, Shifts
<1>3. e.st \in 2 .. 5
  BY DEF BitClock
<1>4. CASE e.st = 2
  BY <1>1, <1>4 DEF BitClock, BitLines, Quiet
<1>5. CASE e.st = 3
  BY <1>1, <1>2, <1>5 DEF BitClock, BitLines, Quiet
<1>6. CASE e.st = 4
  BY <1>1, <1>6 DEF BitClock, BitLines, Quiet
<1>7. CASE e.st = 5
  BY <1>1, <1>7 DEF BitClock, BitLines, Quiet
<1> QED
  BY <1>3, <1>4, <1>5, <1>6, <1>7

\* A slave that counts an engine's bits goes on counting, and acknowledges a
\* byte unless it is an address that is not its own.
LEMMA BitCounted ==
    ASSUME NEW c, NEW e \in Registers, NEW z, NEW answers, NEW v, NEW d,
           BitClock(e, z, 2), BitLines(e, 2), e.st \in {2, 3, 4} => e.cnt <= Bits,
           answers \in BOOLEAN, v \in Nat, Sane(c, e.scl, answers),
           c.mode = "recv", c.n = e.cnt,
           d \in Slave!Seen(c, e.scl, e.sda, z.scl, z.sda, answers, v)
    PROVE  IF e.st = 5 /\ e.cnt = Bits
           THEN IF c.byte = 0 /\ ~(answers /\ c.sh \in {Camera, Camera + 1})
                THEN d.mode = "idle"
                ELSE /\ d.mode = "recv" /\ d.n = z.cnt /\ d.byte = c.byte /\ d.sh = c.sh
                     /\ c.out = 1 /\ d.out = 0
                     /\ c.byte = 0 \/ c.byte = 3 => d.ptr = c.ptr
                     /\ c.byte = 1 => d.ptr[1] = c.sh
                     /\ c.byte = 2 => d.ptr[1] = c.ptr[1] /\ d.ptr[2] = c.sh
           ELSE /\ d.mode = "recv" /\ d.n = z.cnt /\ d.byte = c.byte /\ d.ptr = c.ptr
                /\ d.out = c.out
                /\ d.sh = IF e.st = 4 /\ e.cnt < Bits THEN 2 * c.sh + e.sda ELSE c.sh
<1>1. /\ Bits \in Nat /\ Bits > 0 /\ c \in SlaveStates /\ e.cnt \in 0 .. Bits + 1
      /\ c.out \in {0, 1}
  BY Powers, Fields, SlaveFields DEF Sane
<1>2. /\ e.scl \in {0, 1} /\ e.sda \in {0, 1} /\ z.scl \in {0, 1} /\ z.sda \in {0, 1}
      /\ Quiet(e.scl, e.sda, z.scl, z.sda) /\ e.st \in 2 .. 5
      /\ e.st = 2 => z.scl = 0 /\ (e.scl = 1 => e.cnt = 0)
      /\ e.st = 3 => e.scl = 0 /\ z.scl = 0
      /\ e.st = 4 => e.scl = 0 /\ z.scl = 1 /\ z.sda = e.sda
      /\ e.st = 5 => e.scl = 1 /\ z.scl = 0 /\ e.cnt <= Bits
  BY BitQuiet
<1>3. /\ e.scl = z.scl => d = c
      /\ e.scl = 0 /\ z.scl = 1 => d = Slave!Rise(c, IF c.out = 0 THEN 0 ELSE z.sda)
      /\ e.scl = 1 /\ z.scl = 0 => d = Slave!Fall(c, answers, v)
  <2>1. /\ e.scl = z.scl => e.sda = z.sda \/ z.scl = 0
        /\ e.scl # z.scl => e.sda = z.sda
    BY <1>2 DEF Quiet
  <2> QED
    BY <1>2, <2>1, Edges
<1>4. /\ e.st # 4 => z.cnt = e.cnt
      /\ e.st = 4 => z.cnt = e.cnt + 1
  BY <1>2 DEF BitClock
<1>5. CASE e.st \in {2, 3} \/ (e.st = 5 /\ e.cnt < Bits)
  <2>1. d = c
    <3>1. CASE e.scl = z.scl
      BY <1>3, <3>1
    <3>2. CASE e.scl # z.scl
      <4>1. e.scl = 1 /\ z.scl = 0 /\ c.n < Bits
        BY <1>1, <1>2, <1>5, <3>2
      <4>2. d = Slave!Fall(c, answers, v)
        BY <1>3, <4>1
      <4> QED
        BY <1>1, <4>1, <4>2, Falls
    <3> QED
      BY <3>1, <3>2
  <2>2. ~(e.st = 5 /\ e.cnt = Bits) /\ e.st # 4
    BY <1>1, <1>5
  <2> QED
    BY <1>4, <2>1, <2>2
<1>6. CASE e.st = 4
  <2>1. e.cnt <= Bits /\ c.n <= Bits
    BY <1>6
  <2>2. PICK b \in {0, 1} : b = IF c.out = 0 THEN 0 ELSE e.sda
    BY <1>2
  <2>3. d = Slave!Rise(c, b)
    BY <1>2, <1>3, <1>6, <2>2
  <2>4. /\ d.mode = "recv" /\ d.n = c.n + 1 /\ d.byte = c.byte /\ d.out = c.out
        /\ d.ptr = c.ptr /\ d.sh = IF c.n < Bits THEN 2 * c.sh + b ELSE c.sh
    BY <1>1, <2>1, <2>3, Rises
  <2>5. e.cnt < Bits => b = e.sda
    <3>1. Sane(c, 0, answers)
      BY <1>2, <1>6
    <3>2. c.out = 0 <=> c.n = Bits
      BY <3>1, SaneAt
    <3> QED
      BY <1>1, <2>2, <3>2
  <2> QED
    BY <1>4, <1>6, <2>4, <2>5
<1>7. CASE e.st = 5 /\ e.cnt = Bits
  <2>1. d = Slave!Fall(c, answers, v)
    BY <1>2, <1>3, <1>7
  <2>2. c.out = 1
    <3>1. Sane(c, 1, answers)
      BY <1>2, <1>7
    <3>2. c.out = 0 <=> c.n = Bits + 1
      BY <3>1, SaneAt
    <3> QED
      BY <1>1, <1>7, <3>2
  <2>3. CASE c.byte = 0 /\ ~(answers /\ c.sh \in {Camera, Camera + 1})
    <3>1. d = Slave!Stopped(c)
      BY <1>1, <1>7, <2>1, <2>3, Falls
    <3> QED
      BY <1>1, <1>7, <2>3, <3>1, StartStop
  <2>4. CASE ~(c.byte = 0 /\ ~(answers /\ c.sh \in {Camera, Camera + 1}))
    <3>1. /\ d.mode = "recv" /\ d.n = c.n /\ d.byte = c.byte /\ d.sh = c.sh
          /\ d.out = 0
          /\ c.byte = 0 \/ c.byte = 3 => d.ptr = c.ptr
          /\ c.byte = 1 => d.ptr[1] = c.sh
          /\ c.byte = 2 => d.ptr[1] = c.ptr[1] /\ d.ptr[2] = c.sh
      BY <1>1, <1>7, <2>1, <2>4, Falls
    <3> QED
      BY <1>4, <1>7, <2>2, <2>4, <3>1
  <2> QED
    BY <2>3, <2>4
<1> QED
  BY <1>1, <1>2, <1>5, <1>6, <1>7

\* The slave has heard what the engine has sent of byte b.
Hears(c, e, b) == c.mode = "recv" /\ c.n = e.cnt /\ Shows(c.sh, e, b, 4)

\* A clock of a bit of b: at its end the byte is acknowledged, unless it is
\* an address that is not the slave's own.
HeardBit(c, e, z, b, answers, d) ==
    IF e.st = 5 /\ e.cnt = Bits
    THEN /\ c.sh = b
         /\ IF c.byte = 0 /\ ~(answers /\ b \in {Camera, Camera + 1})
            THEN d.mode = "idle"
            ELSE /\ Hears(d, z, b) /\ d.byte = c.byte /\ c.out = 1 /\ d.out = 0
                 /\ c.byte = 0 \/ c.byte = 3 => d.ptr = c.ptr
                 /\ c.byte = 1 => d.ptr[1] = b
                 /\ c.byte = 2 => d.ptr[1] = c.ptr[1] /\ d.ptr[2] = b
    ELSE Hears(d, z, b) /\ d.byte = c.byte /\ d.ptr = c.ptr /\ d.out = c.out

\* A clock of a bit, for a slave that listens.
LEMMA BitHeard ==
    ASSUME NEW c, NEW e \in Registers, NEW z, NEW answers, NEW v, NEW d, NEW b \in Nat,
           BitClock(e, z, 2), BitLines(e, 2), e.st \in {2, 3, 4} => e.cnt <= Bits,
           answers \in BOOLEAN, v \in Nat, Sane(c, e.scl, answers), Hears(c, e, b),
           d \in Slave!Seen(c, e.scl, e.sda, z.scl, z.sda, answers, v)
    PROVE  HeardBit(c, e, z, b, answers, d)
<1>1. c.mode = "recv" /\ c.n = e.cnt /\ Shows(c.sh, e, b, 4) /\ c.sh \in Nat /\ e.a \in ShiftRange
  BY Fields, SlaveFields DEF Hears, Sane
<1>2. IF e.st = 5 /\ e.cnt = Bits
      THEN IF c.byte = 0 /\ ~(answers /\ c.sh \in {Camera, Camera + 1})
           THEN d.mode = "idle"
           ELSE /\ d.mode = "recv" /\ d.n = z.cnt /\ d.byte = c.byte /\ d.sh = c.sh
                /\ c.out = 1 /\ d.out = 0
                /\ c.byte = 0 \/ c.byte = 3 => d.ptr = c.ptr
                /\ c.byte = 1 => d.ptr[1] = c.sh
                /\ c.byte = 2 => d.ptr[1] = c.ptr[1] /\ d.ptr[2] = c.sh
      ELSE /\ d.mode = "recv" /\ d.n = z.cnt /\ d.byte = c.byte /\ d.ptr = c.ptr
           /\ d.out = c.out
           /\ d.sh = IF e.st = 4 /\ e.cnt < Bits THEN 2 * c.sh + e.sda ELSE c.sh
  BY <1>1, BitCounted
<1>3. PICK k : k = IF e.st = 4 /\ e.cnt < Bits THEN 2 * c.sh + e.sda ELSE c.sh
  OBVIOUS
<1>4. Shows(k, z, b, 4)
  <2>1. 2 \in {2, 12} /\ 2 + 2 = 4 /\ 2 + 1 = 3
    OBVIOUS
  <2>2. Shows(c.sh, e, b, 2 + 2) /\ (e.st \in {2, 2 + 1, 2 + 2} => e.cnt <= Bits)
    BY <1>1, <2>1
  <2>3. k = IF e.st = 2 + 2 /\ e.cnt < Bits THEN 2 * c.sh + e.sda ELSE c.sh
    BY <1>3, <2>1
  <2>4. Shows(k, z, b, 2 + 2)
    BY <1>1, <2>1, <2>2, <2>3, ShowsMoves
  <2> QED
    BY <2>1, <2>4
<1>5. CASE e.st = 5 /\ e.cnt = Bits
  <2>1. Bits \in Nat /\ Sent(c.sh, e.a, b, Bits)
    BY <1>1, <1>5, Powers DEF Shows
  <2>2. c.sh = b
    BY <1>1, <2>1, LastBit
  <2>3. CASE c.byte = 0 /\ ~(answers /\ b \in {Camera, Camera + 1})
    BY <1>2, <1>5, <2>2, <2>3 DEF HeardBit
  <2>4. CASE ~(c.byte = 0 /\ ~(answers /\ b \in {Camera, Camera + 1}))
    <3>1. /\ d.mode = "recv" /\ d.n = z.cnt /\ d.byte = c.byte /\ d.sh = c.sh
          /\ c.out = 1 /\ d.out = 0
          /\ c.byte = 0 \/ c.byte = 3 => d.ptr = c.ptr
          /\ c.byte = 1 => d.ptr[1] = c.sh
          /\ c.byte = 2 => d.ptr[1] = c.ptr[1] /\ d.ptr[2] = c.sh
      BY <1>2, <1>5, <2>2, <2>4
    <3>2. d.sh = k
      BY <1>3, <1>5, <3>1
    <3>3. Hears(d, z, b)
      BY <1>4, <3>1, <3>2 DEF Hears
    <3> QED
      BY <1>5, <2>2, <2>4, <3>1, <3>3 DEF HeardBit
  <2> QED
    BY <2>3, <2>4
<1>6. CASE ~(e.st = 5 /\ e.cnt = Bits)
  <2>1. /\ d.mode = "recv" /\ d.n = z.cnt /\ d.byte = c.byte /\ d.ptr = c.ptr
        /\ d.out = c.out /\ d.sh = k
    BY <1>2, <1>3, <1>6
  <2>2. Hears(d, z, b)
    BY <1>4, <2>1 DEF Hears
  <2> QED
    BY <1>6, <2>1, <2>2 DEF HeardBit
<1> QED
  BY <1>5, <1>6 DEF HeardBit

\* START, for a slave that does not pull SDA.
LEMMA StartHeard ==
    ASSUME NEW c, NEW e, NEW z, NEW answers, NEW v, NEW d, NEW b \in Nat,
           High(e), z.st = 2, z.sda = 0, z.scl = 1, z.cnt = 0, z.a = Shifted(b),
           c \in SlaveStates, c.out = 1,
           d \in Slave!Seen(c, e.scl, e.sda, z.scl, z.sda, answers, v)
    PROVE  Hears(d, z, b) /\ d.byte = 0 /\ d.out = 1
<1>1. d = Slave!Started(c)
  <2>1. e.sda = 1 /\ e.scl = 1
    BY DEF High
  <2>2. d = IF c.out = 0 THEN c ELSE Slave!Started(c)
    BY <2>1, Edges
  <2> QED
    BY <2>2
<1>2. d.mode = "recv" /\ d.n = 0 /\ d.byte = 0 /\ d.sh = 0 /\ d.out = 1
  BY <1>1, StartStop
<1>3. Sent(0, z.a, b, 0) /\ Bits \in Nat /\ Bits > 0
  BY FirstBit, Powers
<1>4. Shows(0, z, b, 4)
  BY <1>3 DEF Shows
<1> QED
  BY <1>2, <1>4 DEF Hears

\* The end of the acknowledgement, for a slave that stays the listener: it
\* waits for the first bit of the next byte.
LEMMA NextHeard ==
    ASSUME NEW c, NEW q, NEW p, NEW answers, NEW v, NEW d,
           q = 1, p \in {0, 1}, answers \in BOOLEAN, v \in Nat, c \in SlaveStates,
           c.mode = "recv", c.n = Bits + 1, ~(c.byte = 0 /\ c.sh = Camera + 1),
           d \in Slave!Seen(c, q, p, 0, p, answers, v)
    PROVE  /\ d.mode = "recv" /\ d.n = 0 /\ d.sh = 0 /\ d.out = 1 /\ d.ptr = c.ptr
           /\ d.byte = IF c.byte < 3 THEN c.byte + 1 ELSE 3
<1>1. d = Slave!Fall(c, answers, v)
  BY Edges
<1> QED
  BY <1>1, Falls

\* STOP, for a slave that waits for a first bit: idle again.
LEMMA StopHeard ==
    ASSUME NEW c, NEW q, NEW p, NEW y, NEW x, NEW answers, NEW v, NEW d,
           answers \in BOOLEAN, v \in Nat, Sane(c, q, answers), p \in {0, 1},
           d \in Slave!Seen(c, q, p, y, x, answers, v)
    PROVE  /\ q = 0 /\ y = 0 /\ x = 0 => d = c
           /\ q = 0 /\ p = 0 /\ y = 1 /\ x = 0 =>
                /\ c.mode = "idle" => d = c
                /\ c.mode = "send" => d.mode # "recv"
                /\ c.mode = "recv" /\ c.n = 0 =>
                     d.mode = "recv" /\ d.n = 1 /\ d.byte = c.byte /\ d.out = c.out
           /\ q = 1 /\ p = 0 /\ y = 1 /\ x = 1 =>
                /\ c.mode = "idle" \/ (c.mode = "recv" /\ c.n = 1) => d.mode = "idle" /\ d.out = 1
                /\ c.mode = "send" => d.mode # "recv"
<1>1. c \in SlaveStates /\ Bits \in Nat /\ Bits > 0 /\ c.mode \in {"idle", "recv", "send"}
      /\ c.out \in {0, 1} /\ c.n \in 0 .. Bits + 1
  <2>1. c \in SlaveStates
    BY DEF Sane
  <2> QED
    BY <2>1, Powers, SlaveFields
<1>2. ASSUME q = 0, y = 0, x = 0 PROVE d = c
  BY <1>2, Edges
<1>3. ASSUME q = 0, p = 0, y = 1, x = 0
      PROVE  /\ c.mode = "idle" => d = c
             /\ c.mode = "send" => d.mode # "recv"
             /\ c.mode = "recv" /\ c.n = 0 =>
                  d.mode = "recv" /\ d.n = 1 /\ d.byte = c.byte /\ d.out = c.out
  <2>1. Quiet(q, p, y, x)
    BY <1>3 DEF Quiet
  <2>2. (c.mode = "idle" => d = c) /\ (c.mode # "recv" => d.mode # "recv")
    BY <1>3, <2>1, NotListening
  <2>3. d = Slave!Rise(c, 0)
    <3>1. d = Slave!Rise(c, IF c.out = 0 THEN 0 ELSE x)
      BY <1>3, Edges
    <3> QED
      BY <1>3, <3>1
  <2>4. c.mode = "recv" /\ c.n = 0 =>
           d.mode = "recv" /\ d.n = 1 /\ d.byte = c.byte /\ d.out = c.out
    <3>1. SUFFICES ASSUME c.mode = "recv", c.n = 0
                   PROVE  d.mode = "recv" /\ d.n = 1 /\ d.byte = c.byte /\ d.out = c.out
      OBVIOUS
    <3>2. c.n <= Bits /\ c.n + 1 = 1 /\ 0 \in {0, 1}
      BY <1>1, <3>1
    <3> QED
      BY <1>1, <2>3, <3>1, <3>2, Rises
  <2> QED
    BY <2>2, <2>4
<1>4. ASSUME q = 1, p = 0, y = 1, x = 1
      PROVE  /\ c.mode = "idle" \/ (c.mode = "recv" /\ c.n = 1) => d.mode = "idle" /\ d.out = 1
             /\ c.mode = "send" => d.mode # "recv"
  <2>1. d = IF c.out = 0 THEN c ELSE Slave!Stopped(c)
    BY <1>4, Edges
  <2>2. Slave!Stopped(c).mode = "idle" /\ Slave!Stopped(c).out = 1
    BY <1>1, StartStop
  <2>3. Sane(c, 1, answers)
    BY <1>4
  <2>4. c.mode = "idle" \/ (c.mode = "recv" /\ c.n = 1) => c.out # 0
    <3>1. c.mode = "idle" => c.out = 1
      BY <2>3, SaneAt
    <3>2. c.mode = "recv" => (c.out = 0 <=> c.n = Bits + 1)
      BY <2>3, SaneAt
    <3> QED
      BY <1>1, <3>1, <3>2
  <2> QED
    BY <2>1, <2>2, <2>4
<1> QED
  BY <1>2, <1>3, <1>4

\* The slave has acknowledged byte k, or will not.
Passed(e, k) ==
    e.byte > k \/ (e.byte = k /\ (IF e.st = 5 THEN e.cnt = Bits + 1 ELSE e.cnt = Bits))

\* The camera's side while a word is sent: it listens from START on, and
\* after the address only if that was its own.
HeardWord(c, e, f) ==
    /\ e.st \in 2 .. 5 =>
         IF f[1] = Camera \/ ~Passed(e, 0)
         THEN /\ Hears(c, e, f[e.byte + 1]) /\ c.byte = e.byte
              /\ Passed(e, 1) => c.ptr[1] = f[2]
              /\ Passed(e, 2) => c.ptr[2] = f[3]
         ELSE c.mode = "idle"
    /\ e.st \in {6, 7} => c.mode = "idle" \/ (c.mode = "recv" /\ c.n = 0)
    /\ e.st = 8 => c.mode = "idle" \/ (c.mode = "recv" /\ c.n = 1)
    /\ e.st \in {0, 1, 9, 30, 31} => c.mode = "idle"

\* The clock in which the camera acknowledges the last byte of a word.
WordTaken(e, f) == f[1] = Camera /\ e.st = 5 /\ e.byte = 3 /\ e.cnt = Bits

\* The camera's side in the clocks of a bit.
LEMMA WordBit ==
    ASSUME NEW c, NEW e, NEW f \in Byte \X Byte \X Byte \X Byte, NEW z, NEW v \in Nat, NEW d,
           NEW answers, answers \in BOOLEAN, answers # FALSE,
           WordShape(e), WordLines(e), HeardWord(c, e, f), f[1] # Camera + 1,
           e.st \in 2 .. 4 \/ (e.st = 5 /\ e.cnt <= Bits), BitClock(e, z, 2), z.byte = e.byte,
           Sane(c, e.scl, answers), f[1] = Camera \/ ~Passed(e, 0),
           d \in Slave!Seen(c, e.scl, e.sda, z.scl, z.sda, answers, v)
    PROVE  /\ HeardWord(d, z, f)
           /\ Slave!Wrote(c, d) <=> WordTaken(e, f)
           /\ WordTaken(e, f) => c.ptr[1] = f[2] /\ c.ptr[2] = f[3] /\ c.sh = f[4]
<1>1. /\ e \in Registers /\ BitLines(e, 2) /\ (e.st \in {2, 3, 4} => e.cnt <= Bits)
      /\ e.byte \in 0 .. 3 /\ e.cnt \in 0 .. Bits + 1 /\ Bits \in Nat /\ Bits > 0
  BY Powers, Fields DEF WordShape, WordLines
<1>2. PICK b \in Byte : b = f[e.byte + 1]
  <2>1. e.byte + 1 \in 1 .. 4
    BY <1>1
  <2> QED
    BY <2>1
<1>3. /\ Hears(c, e, b) /\ c.byte = e.byte
      /\ Passed(e, 1) => c.ptr[1] = f[2]
      /\ Passed(e, 2) => c.ptr[2] = f[3]
  <2>1. e.st \in 2 .. 5
    OBVIOUS
  <2> QED
    BY <1>2, <2>1 DEF HeardWord
<1>4. b \in Nat /\ (e.byte = 0 => b = f[1]) /\ (e.byte = 1 => b = f[2]) /\ (e.byte = 2 => b = f[3])
      /\ (e.byte = 3 => b = f[4])
  BY <1>1, <1>2, Powers
<1>5. IF e.st = 5 /\ e.cnt = Bits
      THEN /\ c.sh = b
           /\ IF c.byte = 0 /\ ~(answers /\ b \in {Camera, Camera + 1})
              THEN d.mode = "idle"
              ELSE /\ Hears(d, z, b) /\ d.byte = c.byte /\ c.out = 1 /\ d.out = 0
                   /\ c.byte = 0 \/ c.byte = 3 => d.ptr = c.ptr
                   /\ c.byte = 1 => d.ptr[1] = b
                   /\ c.byte = 2 => d.ptr[1] = c.ptr[1] /\ d.ptr[2] = b
      ELSE Hears(d, z, b) /\ d.byte = c.byte /\ d.ptr = c.ptr /\ d.out = c.out
  <2>1. answers \in BOOLEAN
    OBVIOUS
  <2> QED
    BY <1>1, <1>3, <1>4, <2>1, BitHeard DEF HeardBit
<1>6. c.mode = "recv"
  BY <1>3 DEF Hears
<1>7. CASE e.st = 5 /\ e.cnt = Bits
  <2>1. z.st = 2 /\ z.cnt = Bits
    BY <1>7 DEF BitClock
  <2>2. /\ \A k \in 0 .. 3 : Passed(z, k) <=> e.byte >= k
        /\ \A k \in 0 .. 3 : Passed(e, k) <=> e.byte > k
    BY <1>1, <1>7, <2>1 DEF Passed
  <2>3. 0 \in 0 .. 3 /\ 1 \in 0 .. 3 /\ 2 \in 0 .. 3
    OBVIOUS
  <2>4. CASE c.byte = 0 /\ ~(b \in {Camera, Camera + 1})
    <3>1. d.mode = "idle" /\ f[1] # Camera /\ Passed(z, 0)
      BY <1>3, <1>4, <1>5, <1>7, <2>2, <2>3, <2>4
    <3>2. HeardWord(d, z, f)
      BY <2>1, <3>1 DEF HeardWord
    <3>3. ~Slave!Wrote(c, d) /\ ~WordTaken(e, f)
      BY <1>3, <2>4 DEF Slave!Wrote, WordTaken
    <3> QED
      BY <3>2, <3>3
  <2>5. CASE ~(c.byte = 0 /\ ~(b \in {Camera, Camera + 1}))
    <3>1. /\ Hears(d, z, b) /\ d.byte = c.byte /\ c.out = 1 /\ d.out = 0 /\ c.sh = b
          /\ c.byte = 0 \/ c.byte = 3 => d.ptr = c.ptr
          /\ c.byte = 1 => d.ptr[1] = b
          /\ c.byte = 2 => d.ptr[1] = c.ptr[1] /\ d.ptr[2] = b
      BY <1>5, <1>7, <2>5
    <3>2. f[1] = Camera
      <4>1. e.byte > 0 => Passed(e, 0)
        BY <2>2, <2>3
      <4> QED
        BY <1>1, <1>3, <1>4, <2>5, <4>1
    <3>3. e.byte >= 1 => d.ptr[1] = f[2]
      <4>1. e.byte > 1 => c.ptr[1] = f[2]
        BY <1>3, <2>2, <2>3
      <4> QED
        BY <1>1, <1>3, <1>4, <3>1, <4>1
    <3>4. e.byte >= 2 => d.ptr[2] = f[3]
      <4>1. e.byte > 2 => c.ptr[2] = f[3]
        BY <1>3, <2>2, <2>3
      <4> QED
        BY <1>1, <1>3, <1>4, <3>1, <4>1
    <3>5. HeardWord(d, z, f)
      <4>1. (Passed(z, 1) => d.ptr[1] = f[2]) /\ (Passed(z, 2) => d.ptr[2] = f[3])
        BY <2>2, <2>3, <3>3, <3>4
      <4>2. Hears(d, z, f[z.byte + 1]) /\ d.byte = z.byte
        BY <1>2, <1>3, <3>1
      <4> QED
        BY <2>1, <3>2, <4>1, <4>2 DEF HeardWord
    <3>6. Slave!Wrote(c, d) <=> e.byte = 3
      BY <1>3, <1>6, <3>1 DEF Slave!Wrote
    <3>7. e.byte = 3 => c.ptr[1] = f[2] /\ c.ptr[2] = f[3] /\ c.sh = f[4]
      BY <1>3, <1>4, <2>2, <2>3, <3>1
    <3> QED
      BY <1>7, <3>2, <3>5, <3>6, <3>7 DEF WordTaken
  <2> QED
    BY <2>4, <2>5
<1>8. CASE ~(e.st = 5 /\ e.cnt = Bits)
  <2>1. Hears(d, z, b) /\ d.byte = c.byte /\ d.ptr = c.ptr /\ d.out = c.out
    BY <1>5, <1>8
  <2>2. z.st \in 2 .. 5
    BY DEF BitClock
  <2>3. \A k \in 0 .. 3 : Passed(z, k) <=> Passed(e, k)
    BY <1>1, <1>8 DEF Passed, BitClock
  <2>4. 0 \in 0 .. 3 /\ 1 \in 0 .. 3 /\ 2 \in 0 .. 3
    OBVIOUS
  <2>5. (Passed(z, 1) => d.ptr[1] = f[2]) /\ (Passed(z, 2) => d.ptr[2] = f[3])
        /\ (f[1] = Camera \/ ~Passed(z, 0))
    BY <1>3, <2>1, <2>3, <2>4
  <2>6. Hears(d, z, f[z.byte + 1]) /\ d.byte = z.byte
    BY <1>2, <1>3, <2>1
  <2>7. HeardWord(d, z, f)
    BY <2>2, <2>5, <2>6 DEF HeardWord
  <2>8. ~Slave!Wrote(c, d) /\ ~WordTaken(e, f)
    BY <1>8, <2>1 DEF Slave!Wrote, WordTaken
  <2> QED
    BY <2>7, <2>8
<1> QED
  BY <1>7, <1>8

\* The camera's side when the acknowledgement of a byte is over.
LEMMA WordNext ==
    ASSUME NEW c, NEW e, NEW f \in Byte \X Byte \X Byte \X Byte, NEW z, NEW v \in Nat, NEW d,
           NEW answers, answers \in BOOLEAN, answers # FALSE,
           WordShape(e), WordLines(e), HeardWord(c, e, f),
           e.st = 5, e.cnt = Bits + 1, z = Writing(e, f), Sane(c, e.scl, answers),
           d \in Slave!Seen(c, e.scl, e.sda, z.scl, z.sda, answers, v)
    PROVE  HeardWord(d, z, f) /\ ~Slave!Wrote(c, d)
<1>1. /\ e \in Registers /\ e.byte \in 0 .. 3 /\ Bits \in Nat /\ Bits > 0
      /\ e.scl = 1 /\ e.sda \in {0, 1} /\ c \in SlaveStates
  BY Powers, Fields DEF WordShape, WordLines, Sane
<1>2. Len(f) = 4
  OBVIOUS
<1>3. /\ z.scl = 0 /\ z.sda = e.sda
      /\ IF e.byte = 3 THEN z.st = 6
         ELSE z.st = 2 /\ z.cnt = 0 /\ z.byte = e.byte + 1 /\ z.a = Shifted(f[e.byte + 2])
  <2>1. /\ z.scl = 0 /\ z.sda = e.sda
        /\ IF e.byte + 1 = Len(f) THEN z.st = 6
           ELSE z.st = 2 /\ z.cnt = 0 /\ z.byte = e.byte + 1 /\ z.a = Shifted(f[e.byte + 2])
    <3>1. e.st \in 2 .. 8 /\ e.st = 5 /\ e.cnt = Bits + 1
      OBVIOUS
    <3>2. PICK g : g = f
      OBVIOUS
    <3>3. z = Writing(e, g)
      BY <3>2
    <3>4. /\ z.scl = 0 /\ z.sda = e.sda
          /\ IF e.byte + 1 = Len(g) THEN z.st = 6
             ELSE /\ z.st = 2 /\ z.cnt = 0 /\ z.byte = e.byte + 1
                  /\ z.a = Shifted(g[e.byte + 2])
      BY <1>1, <3>1, <3>3, WritingIs
    <3> QED
      BY <3>2, <3>4
  <2> QED
    BY <1>1, <1>2, <2>1
<1>4. Passed(e, 0) /\ (e.byte >= 1 => Passed(e, 1)) /\ (e.byte >= 2 => Passed(e, 2))
  BY <1>1 DEF Passed
<1>5. z.st = 2 => Passed(z, 0) /\ (Passed(z, 1) <=> e.byte >= 1) /\ (Passed(z, 2) <=> e.byte >= 2)
  BY <1>1, <1>3 DEF Passed
<1>6. CASE f[1] = Camera
  <2>1. /\ Hears(c, e, f[e.byte + 1]) /\ c.byte = e.byte
        /\ Passed(e, 1) => c.ptr[1] = f[2]
        /\ Passed(e, 2) => c.ptr[2] = f[3]
    BY <1>6 DEF HeardWord
  <2>2. c.mode = "recv" /\ c.n = Bits + 1 /\ c.sh = f[e.byte + 1]
    BY <2>1 DEF Hears, Shows
  <2>3. ~(c.byte = 0 /\ c.sh = Camera + 1)
    <3>2. Camera \in Nat
      BY CameraAssumption, Powers
    <3>1. Camera # Camera + 1 /\ (e.byte = 0 => e.byte + 1 = 1)
      BY <3>2
    <3> QED
      BY <1>6, <2>1, <2>2, <3>1
  <2>4. /\ d.mode = "recv" /\ d.n = 0 /\ d.sh = 0 /\ d.out = 1 /\ d.ptr = c.ptr
        /\ d.byte = IF c.byte < 3 THEN c.byte + 1 ELSE 3
    <3>1. d \in Slave!Seen(c, e.scl, e.sda, 0, e.sda, answers, v)
      BY <1>3
    <3>2. answers \in BOOLEAN
      OBVIOUS
    <3> QED
      BY <1>1, <2>2, <2>3, <3>1, <3>2, NextHeard
  <2>5. CASE e.byte = 3
    BY <1>3, <2>4, <2>5 DEF HeardWord, Slave!Wrote
  <2>6. CASE e.byte # 3
    <3>1. PICK b \in Byte : b = f[e.byte + 2]
      <4>1. e.byte + 2 \in 1 .. 4
        BY <1>1, <2>6
      <4> QED
        BY <4>1
    <3>2. z.st = 2 /\ z.cnt = 0 /\ z.byte = e.byte + 1 /\ z.a = Shifted(b) /\ b \in Nat
      BY <1>3, <2>6, <3>1, Powers
    <3>3. Sent(0, z.a, b, 0)
      BY <3>2, FirstBit
    <3>4. Hears(d, z, b)
      BY <1>1, <2>4, <3>2, <3>3 DEF Hears, Shows
    <3>5. d.byte = z.byte /\ z.byte + 1 = e.byte + 2
      BY <1>1, <2>1, <2>4, <2>6, <3>2
    <3>6. (Passed(z, 1) => d.ptr[1] = f[2]) /\ (Passed(z, 2) => d.ptr[2] = f[3])
      BY <1>4, <1>5, <2>1, <2>4, <3>2
    <3>7. HeardWord(d, z, f)
      BY <1>6, <3>1, <3>2, <3>4, <3>5, <3>6 DEF HeardWord
    <3> QED
      BY <2>4, <3>7 DEF Slave!Wrote
  <2> QED
    BY <2>5, <2>6
<1>7. CASE f[1] # Camera
  <2>1. c.mode = "idle"
    BY <1>4, <1>7 DEF HeardWord
  <2>2. d = c
    <3>1. /\ Quiet(e.scl, e.sda, z.scl, z.sda) /\ z.scl \in {0, 1} /\ z.sda \in {0, 1}
          /\ e.scl \in {0, 1}
      BY <1>1, <1>3 DEF Quiet
    <3>2. answers \in BOOLEAN
      OBVIOUS
    <3> QED
      BY <1>1, <2>1, <3>1, <3>2, NotListening
  <2>3. HeardWord(d, z, f)
    BY <1>3, <1>5, <1>7, <2>1, <2>2 DEF HeardWord
  <2> QED
    BY <2>1, <2>3 DEF Slave!Wrote
<1> QED
  BY <1>6, <1>7

\* The camera's side before and after a word, and at its start.
LEMMA WordWaits ==
    ASSUME NEW c, NEW e, WordShape(e), WordLines(e), NEW g \in BOOLEAN, NEW f, f[1] \in Byte,
           NEW z, z = WordClock(e, g, f), NEW answers, NEW v, NEW d,
           Sane(c, e.scl, answers), HeardWord(c, e, f), e.st \in {0, 1, 9, 30, 31},
           d \in Slave!Seen(c, e.scl, e.sda, z.scl, z.sda, answers, v)
    PROVE  HeardWord(d, z, f) /\ ~Slave!Wrote(c, d) /\ ~WordTaken(e, f)
<1>1. /\ e \in Registers /\ e.st \in (0 .. 9) \cup {30, 31}
      /\ e.st = 1 => e.cnt = 0 /\ e.byte = 0
  BY DEF WordShape
<1>2. c.mode = "idle" /\ e.sda = 1 /\ e.scl = 1 /\ High(e)
  BY DEF HeardWord, WordLines, High
<1>3. c \in SlaveStates /\ c.out = 1
  BY <1>2 DEF Sane
<1>4. ~Slave!Wrote(c, d) /\ ~WordTaken(e, f)
  BY <1>2 DEF Slave!Wrote, WordTaken
<1>5. CASE e.st = 1
  <2>1. PICK b \in Nat : b = f[1]
    BY Powers
  <2>2. /\ z.st = 2 /\ z.sda = 0 /\ z.scl = 1 /\ z.cnt = 0 /\ z.byte = 0 /\ z.a = Shifted(b)
    BY <1>1, <1>5, <2>1, WordIs
  <2>3. Hears(d, z, b) /\ d.byte = 0
    BY <1>2, <1>3, <2>2, StartHeard
  <2>4. ~Passed(z, 0) /\ ~Passed(z, 1) /\ ~Passed(z, 2)
    BY <2>2, Powers DEF Passed
  <2>5. Hears(d, z, f[z.byte + 1]) /\ d.byte = z.byte
    BY <2>1, <2>2, <2>3
  <2>6. HeardWord(d, z, f)
    BY <2>2, <2>4, <2>5 DEF HeardWord
  <2> QED
    BY <1>4, <2>6
<1>6. CASE e.st \in {0, 9, 30, 31}
  <2>1. z.st \in {0, 1, 30, 31} /\ High(z)
    BY <1>1, <1>2, <1>6, WordIs DEF High
  <2>2. d = c
    BY <1>2, <2>1, Edges DEF High
  <2>3. HeardWord(d, z, f)
    BY <1>2, <2>1, <2>2 DEF HeardWord
  <2> QED
    BY <1>4, <2>3
<1> QED
  BY <1>5, <1>6

\* The camera's side in every clock of a word.
LEMMA WordHeard ==
    ASSUME NEW c, NEW e, NEW f \in Byte \X Byte \X Byte \X Byte, NEW z, NEW v \in Nat, NEW d,
           NEW answers, answers \in BOOLEAN, answers # FALSE, NEW g \in BOOLEAN,
           WordShape(e), WordLines(e), HeardWord(c, e, f), f[1] # Camera + 1,
           z = WordClock(e, g, f), Sane(c, e.scl, answers),
           d \in Slave!Seen(c, e.scl, e.sda, z.scl, z.sda, answers, v)
    PROVE  /\ HeardWord(d, z, f)
           /\ Slave!Wrote(c, d) <=> WordTaken(e, f)
           /\ WordTaken(e, f) => c.ptr[1] = f[2] /\ c.ptr[2] = f[3] /\ c.sh = f[4]
<1>1. /\ e \in Registers /\ e.st \in (0 .. 9) \cup {30, 31}
      /\ e.cnt \in 0 .. Bits + 1 /\ e.byte \in 0 .. 3 /\ e.sda \in {0, 1} /\ e.scl \in {0, 1}
      /\ e.st = 1 => e.cnt = 0 /\ e.byte = 0
  BY Fields DEF WordShape
<1>2. Bits \in Nat /\ Bits > 0 /\ c \in SlaveStates /\ c.out \in {0, 1}
  BY Powers, SlaveFields DEF Sane
<1>3. answers \in BOOLEAN /\ (c.mode = "idle" => c.out = 1)
  BY DEF Sane
<1>4. CASE e.st \in 2 .. 4 \/ (e.st = 5 /\ e.cnt <= Bits)
  <2>1. z = Writing(e, f) /\ e.st \in 2 .. 8
    BY <1>1, <1>4, WordIs
  <2>2. BitClock(e, z, 2) /\ z.byte = e.byte
    BY <1>1, <1>4, <2>1, WritingIs
  <2>3. CASE f[1] = Camera \/ ~Passed(e, 0)
    BY <1>4, <2>2, <2>3, WordBit
  <2>4. CASE f[1] # Camera /\ Passed(e, 0)
    <3>1. c.mode = "idle"
      BY <1>4, <2>4 DEF HeardWord
    <3>2. /\ z.scl \in {0, 1} /\ z.sda \in {0, 1}
          /\ Quiet(e.scl, e.sda, z.scl, z.sda)
      BY <1>1, <2>2, BitQuiet DEF WordLines
    <3>3. d = c
      BY <1>1, <1>3, <3>1, <3>2, NotListening
    <3>4. Passed(z, 0) /\ z.st \in 2 .. 5
      BY <1>1, <1>2, <1>4, <2>2, <2>4 DEF Passed, BitClock
    <3>5. HeardWord(d, z, f)
      BY <2>4, <3>1, <3>3, <3>4 DEF HeardWord
    <3> QED
      BY <2>4, <3>1, <3>5 DEF Slave!Wrote, WordTaken
  <2> QED
    BY <2>3, <2>4
<1>5. CASE e.st = 5 /\ e.cnt = Bits + 1
  <2>1. z = Writing(e, f)
    BY <1>1, <1>5, WordIs
  <2>2. HeardWord(d, z, f) /\ ~Slave!Wrote(c, d)
    BY <1>5, <2>1, WordNext
  <2>3. ~WordTaken(e, f)
    BY <1>2, <1>5 DEF WordTaken
  <2> QED
    BY <2>2, <2>3
<1>6. CASE e.st \in 6 .. 8
  <2>1. z = Writing(e, f)
    BY <1>1, <1>6, WordIs
  <2>2. /\ e.st = 6 => z.st = 7 /\ z.sda = 0 /\ z.scl = 0
        /\ e.st = 7 => z.st = 8 /\ z.sda = 0 /\ z.scl = 1
        /\ e.st = 8 => z.st = 9 /\ z.sda = 1 /\ z.scl = 1
    BY <1>1, <1>6, <2>1, WritingIs
  <2>3. /\ e.st = 6 => e.scl = 0
        /\ e.st = 7 => e.sda = 0 /\ e.scl = 0
        /\ e.st = 8 => e.sda = 0 /\ e.scl = 1
    BY DEF WordLines
  <2>4. /\ e.st \in {6, 7} => c.mode = "idle" \/ (c.mode = "recv" /\ c.n = 0)
        /\ e.st = 8 => c.mode = "idle" \/ (c.mode = "recv" /\ c.n = 1)
    BY DEF HeardWord
  <2>5. /\ e.st = 6 => d = c
        /\ e.st = 7 => \/ d = c /\ c.mode = "idle"
                       \/ d.mode = "recv" /\ d.n = 1 /\ d.out = c.out
        /\ e.st = 8 => d.mode = "idle" /\ d.out = 1
    BY <1>1, <1>3, <2>2, <2>3, <2>4, StopHeard
  <2>6. HeardWord(d, z, f)
    BY <1>6, <2>2, <2>4, <2>5 DEF HeardWord
  <2>7. ~Slave!Wrote(c, d) /\ ~WordTaken(e, f)
    BY <1>6, <2>5 DEF Slave!Wrote, WordTaken
  <2> QED
    BY <2>6, <2>7
<1>7. CASE e.st \in {0, 1, 9, 30, 31}
  <2>1. PICK h : h = f
    OBVIOUS
  <2>2. h[1] \in Byte /\ z = WordClock(e, g, h) /\ HeardWord(c, e, h)
    BY <2>1
  <2>3. HeardWord(d, z, h) /\ ~Slave!Wrote(c, d) /\ ~WordTaken(e, h)
    BY <1>3, <1>7, <2>2, WordWaits, ZenonT(60)
  <2> QED
    BY <2>1, <2>3
<1> QED
  BY <1>1, <1>2, <1>4, <1>5, <1>6, <1>7

\* The camera's side from the acknowledgement of the pointer's address on: it
\* counts with the engine if it listens.
HeardPointer(c, e) ==
    e.st \in 2 .. 10 =>
        \/ c.mode # "recv"
        \/ /\ c.byte > 0 /\ e.st < 9
           /\ e.st \in 2 .. 4 \/ (e.st = 5 /\ e.scl = 1) => c.n = e.cnt
           /\ e.st \in {6, 7} \/ (e.st = 5 /\ e.scl = 0) => c.n = 0
           /\ e.st = 8 => c.n = 1

\* A camera that counts the bits of what is not an address.
LEMMA BitFollowed ==
    ASSUME NEW c, NEW e \in Registers, NEW z, NEW answers, NEW v, NEW d,
           BitClock(e, z, 2), BitLines(e, 2), e.st \in {2, 3, 4} => e.cnt <= Bits,
           answers \in BOOLEAN, v \in Nat, Sane(c, e.scl, answers),
           c.mode = "recv", c.n = e.cnt, c.byte \in Nat, c.byte > 0,
           d \in Slave!Seen(c, e.scl, e.sda, z.scl, z.sda, answers, v)
    PROVE  d.mode = "recv" /\ d.n = z.cnt /\ d.byte = c.byte
<1>1. ~(c.byte = 0)
  OBVIOUS
<1>2. IF e.st = 5 /\ e.cnt = Bits
      THEN IF c.byte = 0 /\ ~(answers /\ c.sh \in {Camera, Camera + 1})
           THEN d.mode = "idle"
           ELSE /\ d.mode = "recv" /\ d.n = z.cnt /\ d.byte = c.byte /\ d.sh = c.sh
                /\ c.out = 1 /\ d.out = 0
                /\ c.byte = 0 \/ c.byte = 3 => d.ptr = c.ptr
                /\ c.byte = 1 => d.ptr[1] = c.sh
                /\ c.byte = 2 => d.ptr[1] = c.ptr[1] /\ d.ptr[2] = c.sh
      ELSE /\ d.mode = "recv" /\ d.n = z.cnt /\ d.byte = c.byte /\ d.ptr = c.ptr
           /\ d.out = c.out
           /\ d.sh = IF e.st = 4 /\ e.cnt < Bits THEN 2 * c.sh + e.sda ELSE c.sh
  BY BitCounted
<1> QED
  BY <1>1, <1>2

\* The same after a clock: only a camera that answers gets that far.
LEMMA PointerHeard ==
    ASSUME NEW c, NEW e, NEW f, NEW z, NEW v \in Nat, NEW d, NEW i, i \in {0, 1},
           NEW answers, answers \in BOOLEAN, NEW g \in BOOLEAN,
           PointerShape(e), PointerLines(e), HeardPointer(c, e), e.st # 0,
           z = PointerClock(e, g, f, i), Sane(c, e.scl, answers),
           (e.st = 16 /\ i = 0) => c.out = 0,
           d \in Slave!Seen(c, e.scl, e.sda, z.scl, z.sda, answers, v)
    PROVE  HeardPointer(d, z) /\ (z.st \in 2 .. 10 => e.st \in 2 .. 10 \/ answers)
<1>1. /\ e \in Registers /\ e.st \in 2 .. 20
      /\ e.cnt \in 0 .. Bits + 1 /\ e.byte \in 0 .. 3 /\ e.sda \in {0, 1} /\ e.scl \in {0, 1}
      /\ e.st \in {2, 3, 4} => e.cnt <= Bits
  BY Fields DEF PointerShape
<1>2. Bits \in Nat /\ Bits > 0 /\ c \in SlaveStates /\ c.byte \in 0 .. 3
  BY Powers, SlaveFields DEF Sane
<1>3. CASE e.st \in 2 .. 4 \/ (e.st = 5 /\ e.cnt <= Bits)
  <2>1. z = Writing(e, f) /\ e.st \in 2 .. 8
    BY <1>1, <1>3, PointerIs
  <2>2. BitClock(e, z, 2) /\ BitLines(e, 2)
    BY <1>1, <1>3, <2>1, WritingIs DEF PointerLines
  <2>3. /\ z.scl \in {0, 1} /\ z.sda \in {0, 1}
        /\ Quiet(e.scl, e.sda, z.scl, z.sda) /\ (e.st = 5 => e.scl = 1) /\ (e.st = 4 => z.scl = 1)
    BY <1>1, <2>2, BitQuiet
  <2>4. CASE c.mode # "recv"
    <3>1. d.mode # "recv"
      BY <1>1, <2>3, <2>4, NotListening
    <3> QED
      BY <1>3, <3>1 DEF HeardPointer
  <2>5. CASE c.mode = "recv"
    <3>1. c.byte > 0 /\ c.n = e.cnt
      BY <1>3, <2>3, <2>5 DEF HeardPointer
    <3>2. d.mode = "recv" /\ d.n = z.cnt /\ d.byte = c.byte
      <4>2. (e.st \in {2, 3, 4} => e.cnt <= Bits) /\ e \in Registers /\ c.byte \in Nat
        BY <1>1, <1>2
      <4> QED
        BY <2>2, <2>5, <3>1, <4>2, BitFollowed
    <3>3. z.st \in 2 .. 5 /\ (z.st = 5 => z.scl = 1)
      BY <1>3, <2>2 DEF BitClock
    <3>4. HeardPointer(d, z)
      BY <3>1, <3>2, <3>3 DEF HeardPointer
    <3> QED
      BY <1>3, <3>4
  <2> QED
    BY <2>4, <2>5
<1>4. CASE e.st = 5 /\ e.cnt = Bits + 1
  <2>1. z = Writing(e, f) /\ e.st \in 2 .. 8
    BY <1>1, <1>4, PointerIs
  <2>2. z.scl = 0 /\ z.sda = e.sda /\ (z.st = 6 \/ (z.st = 2 /\ z.cnt = 0))
    BY <1>1, <1>4, <2>1, WritingIs
  <2>3. CASE c.mode # "recv"
    <3>1. Quiet(e.scl, e.sda, z.scl, z.sda)
      BY <2>2 DEF Quiet
    <3>2. d.mode # "recv"
      BY <1>1, <2>2, <2>3, <3>1, NotListening
    <3> QED
      BY <1>4, <3>2 DEF HeardPointer
  <2>4. CASE c.mode = "recv" /\ e.scl = 1
    <3>1. c.byte > 0 /\ c.n = Bits + 1
      BY <1>4, <2>4 DEF HeardPointer
    <3>2. ~(c.byte = 0 /\ c.sh = Camera + 1)
      BY <1>2, <3>1
    <3>3. /\ d.mode = "recv" /\ d.n = 0
          /\ d.byte = IF c.byte < 3 THEN c.byte + 1 ELSE 3
      BY <1>1, <1>2, <2>2, <2>4, <3>1, <3>2, NextHeard
    <3>4. d.byte > 0
      BY <1>2, <3>3
    <3>5. HeardPointer(d, z)
      BY <2>2, <3>3, <3>4 DEF HeardPointer
    <3> QED
      BY <1>4, <3>5
  <2>5. CASE c.mode = "recv" /\ e.scl = 0
    <3>1. c.byte > 0 /\ c.n = 0
      BY <1>4, <2>5 DEF HeardPointer
    <3>2. d = c
      BY <1>1, <2>2, <2>5, Edges
    <3>3. HeardPointer(d, z)
      BY <2>2, <3>1, <3>2 DEF HeardPointer
    <3> QED
      BY <1>4, <3>3
  <2> QED
    BY <1>1, <2>3, <2>4, <2>5
<1>5. CASE e.st \in 6 .. 8
  <2>1. z = Writing(e, f)
    BY <1>1, <1>5, PointerIs
  <2>2. /\ e.st = 6 => z.st = 7 /\ z.sda = 0 /\ z.scl = 0
        /\ e.st = 7 => z.st = 8 /\ z.sda = 0 /\ z.scl = 1
        /\ e.st = 8 => z.st = 9 /\ z.sda = 1 /\ z.scl = 1
    BY <1>1, <1>5, <2>1, WritingIs
  <2>3. /\ e.st = 6 => e.scl = 0
        /\ e.st = 7 => e.sda = 0 /\ e.scl = 0
        /\ e.st = 8 => e.sda = 0 /\ e.scl = 1
    BY DEF PointerLines
  <2>4. \/ c.mode \in {"idle", "send"}
        \/ /\ c.mode = "recv" /\ c.byte > 0
           /\ e.st \in {6, 7} => c.n = 0
           /\ e.st = 8 => c.n = 1
    BY <1>2, <1>5, SlaveFields DEF HeardPointer
  <2>5. /\ e.st = 6 => d = c
        /\ e.st = 7 => \/ d.mode # "recv"
                       \/ d.mode = "recv" /\ d.n = 1 /\ d.byte = c.byte /\ c.mode = "recv"
        /\ e.st = 8 => d.mode # "recv"
    BY <1>1, <2>2, <2>3, <2>4, StopHeard
  <2>6. HeardPointer(d, z)
    BY <1>5, <2>2, <2>4, <2>5 DEF HeardPointer
  <2> QED
    BY <1>5, <2>6
<1>6. CASE e.st \in {9, 10}
  <2>1. e.sda = 1 /\ e.scl = 1 /\ c.mode # "recv"
    BY <1>6 DEF HeardPointer, PointerLines, High
  <2>2. z.sda = 1 /\ z.scl = 1
    BY <1>1, <1>6, <2>1, PointerIs DEF High
  <2>3. d = c
    BY <2>1, <2>2, Edges
  <2> QED
    BY <1>6, <2>1, <2>3 DEF HeardPointer
<1>7. CASE e.st = 16
  <2>1. e.sda = 1 /\ e.scl = 1
    BY <1>7 DEF PointerLines, High
  <2>2. z.st \in {16, 17} \/ (z.st = 5 /\ i = 0 /\ z.sda = 1 /\ z.scl = 0)
    BY <1>1, <1>7, <2>1, PointerIs
  <2>3. CASE z.st \in {16, 17}
    BY <2>3 DEF HeardPointer
  <2>4. CASE z.st = 5 /\ i = 0 /\ z.sda = 1 /\ z.scl = 0
    <3>1. c.out = 0
      BY <1>7, <2>4
    <3>2. Sane(c, 1, answers)
      BY <2>1
    <3>3. answers /\ (c.mode = "recv" => c.n = Bits + 1)
      BY <3>1, <3>2, SaneAt
    <3>4. d = Slave!Fall(c, answers, v)
      BY <2>1, <2>4, Edges
    <3>5. d.mode # "recv" \/ (d.n = 0 /\ d.byte > 0)
      <4>1. CASE c.mode = "recv"
        <5>1. c.mode # "idle" /\ c.n = Bits + 1
          BY <3>3, <4>1
        <5>2. /\ d.n = 0
              /\ IF c.mode = "send" \/ (c.byte = 0 /\ c.sh = Camera + 1)
                 THEN d.mode = "send"
                 ELSE d.byte = IF c.byte < 3 THEN c.byte + 1 ELSE 3
          BY <1>2, <3>4, <5>1, Falls
        <5> QED
          BY <1>2, <5>2
      <4>2. CASE c.mode # "recv"
        <5>1. Quiet(e.scl, e.sda, z.scl, z.sda)
          BY <2>1, <2>4 DEF Quiet
        <5> QED
          BY <1>1, <2>4, <4>2, <5>1, NotListening
      <4> QED
        BY <4>1, <4>2
    <3>6. HeardPointer(d, z)
      BY <2>4, <3>5 DEF HeardPointer
    <3> QED
      BY <3>3, <3>6
  <2> QED
    BY <2>2, <2>3, <2>4
<1>8. CASE e.st \in 11 .. 15 \/ e.st \in 17 .. 20
  <2>1. z.st \in 11 .. 20
    <3>1. e.st \in 12 .. 14 \/ (e.st = 15 /\ e.cnt <= Bits) => z.st \in 12 .. 15
      <4>1. e.st \in 12 .. 14 \/ (e.st = 15 /\ e.cnt <= Bits) => BitClock(e, z, 12)
        BY <1>1, PointerIs
      <4> QED
        BY <4>1 DEF BitClock
    <3>2. /\ e.st = 11 => z.st = 12
          /\ e.st = 15 /\ e.cnt = Bits + 1 => z.st = 16
          /\ e.st \in {17, 18} => z.st = e.st + 1
          /\ e.st = 19 => z.st = 20
          /\ e.st = 20 => z.st \in {11, 20}
      BY <1>1, PointerIs
    <3> QED
      BY <1>1, <1>2, <1>8, <3>1, <3>2
  <2> QED
    BY <2>1 DEF HeardPointer
<1> QED
  BY <1>1, <1>2, <1>3, <1>4, <1>5, <1>6, <1>7, <1>8

\* The camera's side while the identity is read: it listens to the address,
\* if to anything, then sends, at least as far into its byte as the engine
\* is, and is left by the NACK.
HeardRead(c, e) ==
    /\ e.st \in 2 .. 5 => c.mode # "recv" \/ (Hears(c, e, Camera + 1) /\ c.byte = 0)
    /\ e.st \in {1, 6, 31} => c.mode # "recv"
    /\ e.st \in {7, 8} => c.mode = "idle" \/ (c.mode = "send" /\ e.cnt <= c.n /\ c.n <= Bits)
    /\ e.st \in 9 .. 13 => c.mode = "idle"

\* A clock of the address.
LEMMA FirstHeard ==
    ASSUME NEW c, NEW e \in Registers, NEW z, NEW answers, NEW v, NEW d, NEW b \in Nat,
           BitClock(e, z, 2), BitLines(e, 2), e.st \in {2, 3, 4} => e.cnt <= Bits,
           answers \in BOOLEAN, v \in Nat, Sane(c, e.scl, answers), Hears(c, e, b), c.byte = 0,
           d \in Slave!Seen(c, e.scl, e.sda, z.scl, z.sda, answers, v)
    PROVE  d.mode = "idle" \/ (Hears(d, z, b) /\ d.byte = 0)
<1>1. HeardBit(c, e, z, b, answers, d)
  BY BitHeard
<1> QED
  BY <1>1 DEF HeardBit

\* The same after the START and after a clock of the address.
LEMMA ReadAddressed ==
    ASSUME NEW c, NEW e, NEW i, i \in {0, 1}, NEW z, NEW v, v \in Nat, NEW d,
           NEW answers, answers \in BOOLEAN, NEW g \in BOOLEAN,
           ReadShape(e), ReadLines(e), HeardRead(c, e), e.st \in 1 .. 5,
           z = ReadClock(e, g, Camera, i), Sane(c, e.scl, answers),
           d \in Slave!Seen(c, e.scl, e.sda, z.scl, z.sda, answers, v)
    PROVE  HeardRead(d, z)
<1>1. /\ e \in Registers /\ e.cnt \in 0 .. Bits + 1 /\ e.sda \in {0, 1} /\ e.scl \in {0, 1}
      /\ e.st = 1 => e.cnt = 0
      /\ e.st \in {2, 3, 4} => e.cnt <= Bits
      /\ BitLines(e, 2) /\ (e.st = 5 => e.scl = 1)
  BY Fields DEF ReadShape, ReadLines
<1>2. Bits \in Nat /\ Bits > 0 /\ c \in SlaveStates
  BY Powers DEF Sane
<1>3. PICK b \in Nat : b = Camera + 1
  <2>1. Camera + 1 \in Nat
    BY CameraAssumption, Powers
  <2> QED
    BY <2>1
<1>4. CASE e.st = 1
  <2>1. /\ z.st = 2 /\ z.sda = 0 /\ z.scl = 1 /\ z.cnt = 0 /\ z.a = Shifted(b)
    BY <1>1, <1>3, <1>4, ReadIs
  <2>2. High(e) /\ c.mode # "recv"
    BY <1>4 DEF ReadLines, HeardRead
  <2>3. CASE c.out = 1
    <3>1. Hears(d, z, b) /\ d.byte = 0
      <4>1. answers \in BOOLEAN /\ b \in Nat
        OBVIOUS
      <4>2. /\ High(e) /\ c \in SlaveStates /\ c.out = 1 /\ z.a = Shifted(b)
            /\ z.st = 2 /\ z.sda = 0 /\ z.scl = 1 /\ z.cnt = 0
        BY <1>2, <2>1, <2>2, <2>3
      <4> QED
        BY <4>1, <4>2, StartHeard
    <3> QED
      BY <1>3, <2>1, <3>1 DEF HeardRead
  <2>4. CASE c.out = 0
    <3>1. e.sda = 1 /\ e.scl = 1
      BY <2>2 DEF High
    <3>2. d = c
      BY <2>1, <2>4, <3>1, Edges
    <3> QED
      BY <2>1, <2>2, <3>2 DEF HeardRead
  <2> QED
    BY <1>2, <2>3, <2>4, SlaveFields
<1>5. CASE e.st \in 2 .. 4 \/ (e.st = 5 /\ e.cnt <= Bits)
  <2>1. BitClock(e, z, 2)
    BY <1>1, <1>5, ReadIs
  <2>2. z.st \in 2 .. 5
    BY <1>5, <2>1 DEF BitClock
  <2>3. CASE c.mode # "recv"
    <3>1. /\ z.scl \in {0, 1} /\ z.sda \in {0, 1} /\ Quiet(e.scl, e.sda, z.scl, z.sda)
      BY <1>1, <2>1, BitQuiet
    <3>2. d.mode # "recv"
      BY <1>1, <2>3, <3>1, NotListening
    <3> QED
      BY <2>2, <3>2 DEF HeardRead
  <2>4. CASE c.mode = "recv"
    <3>1. Hears(c, e, b) /\ c.byte = 0
      BY <1>3, <1>5, <2>4 DEF HeardRead
    <3>3. d.mode = "idle" \/ (Hears(d, z, b) /\ d.byte = 0)
      <4>1. answers \in BOOLEAN /\ v \in Nat /\ b \in Nat
        OBVIOUS
      <4>2. /\ e \in Registers /\ BitLines(e, 2) /\ (e.st \in {2, 3, 4} => e.cnt <= Bits)
            /\ Sane(c, e.scl, answers)
        BY <1>1
      <4> QED
        BY <2>1, <3>1, <4>1, <4>2, FirstHeard
    <3> QED
      BY <1>3, <2>2, <3>3 DEF HeardRead
  <2> QED
    BY <2>3, <2>4
<1>6. CASE e.st = 5 /\ e.cnt = Bits + 1
  <2>1. z.st = 6 /\ z.scl = 0 /\ z.sda = e.sda
    BY <1>1, <1>6, ReadIs
  <2>2. CASE c.mode # "recv"
    <3>1. Quiet(e.scl, e.sda, z.scl, z.sda)
      BY <2>1 DEF Quiet
    <3>2. d.mode # "recv"
      BY <1>1, <2>1, <2>2, <3>1, NotListening
    <3> QED
      BY <2>1, <3>2 DEF HeardRead
  <2>3. CASE c.mode = "recv"
    <3>1. Hears(c, e, Camera + 1) /\ c.byte = 0
      BY <1>6, <2>3 DEF HeardRead
    <3>2. c.n = Bits + 1 /\ c.sh = Camera + 1
      BY <1>6, <3>1 DEF Hears, Shows
    <3>3. d = Slave!Fall(c, answers, v)
      BY <1>1, <1>6, <2>1, Edges
    <3>4. d.mode = "send"
      BY <1>2, <2>3, <3>1, <3>2, <3>3, Falls
    <3> QED
      BY <2>1, <3>4 DEF HeardRead
  <2> QED
    BY <2>2, <2>3
<1> QED
  BY <1>1, <1>2, <1>4, <1>5, <1>6

\* The same after a clock of the byte that is read, up to the STOP.
LEMMA ReadAnswered ==
    ASSUME NEW c, NEW e, NEW i, i \in {0, 1}, NEW z, NEW v, v \in Nat, NEW d,
           NEW answers, answers \in BOOLEAN, NEW g \in BOOLEAN, NEW f,
           ReadShape(e), ReadLines(e), HeardRead(c, e), e.st \in 6 .. 13,
           z = ReadClock(e, g, f, i), Sane(c, e.scl, answers),
           d \in Slave!Seen(c, e.scl, e.sda, z.scl, z.sda, answers, v)
    PROVE  HeardRead(d, z) /\ (e.st = 13 => d.mode = "idle")
<1>1. /\ e \in Registers /\ e.cnt \in 0 .. Bits + 1 /\ e.sda \in {0, 1} /\ e.scl \in {0, 1}
      /\ e.st \in 9 .. 13 => e.byte = 1
      /\ e.st = 7 => e.cnt <= Bits
      /\ e.st = 8 => e.dely \in 0 .. 2
  BY Fields DEF ReadShape
<1>2. Bits \in Nat /\ Bits > 0 /\ c \in SlaveStates /\ c.n \in 0 .. Bits + 1 /\ c.out \in {0, 1}
      /\ c.mode \in {"idle", "recv", "send"}
  BY Powers, SlaveFields DEF Sane
<1>3. CASE e.st = 6
  <2>1. z.st = 7 /\ z.sda = 1 /\ z.scl = 0 /\ z.cnt = 0
    BY <1>1, <1>3, ReadIs
  <2>2. e.scl = 0 /\ c.mode # "recv"
    BY <1>3 DEF ReadLines, HeardRead
  <2>3. d = c
    BY <1>1, <2>1, <2>2, Edges
  <2>4. Sane(c, 0, answers)
    BY <2>2
  <2>5. c.mode = "send" => c.n <= Bits /\ 0 <= c.n
    BY <1>2, <2>4, SaneAt
  <2> QED
    BY <1>2, <1>3, <2>1, <2>2, <2>3, <2>5 DEF HeardRead
<1>4. CASE e.st = 7
  <2>1. z.st = 8 /\ z.sda = 1 /\ z.scl = 1 /\ z.cnt = e.cnt + 1 /\ e.scl = 0 /\ e.sda = 1
    <3>1. e.scl = 0 /\ e.sda = 1
      BY <1>4 DEF ReadLines
    <3> QED
      BY <1>1, <1>4, <3>1, ReadIs
  <2>2. c.mode = "idle" \/ (c.mode = "send" /\ e.cnt <= c.n /\ c.n <= Bits)
    BY <1>4 DEF HeardRead
  <2>3. PICK b \in {0, 1} : b = IF c.out = 0 THEN 0 ELSE 1
    OBVIOUS
  <2>4. d = Slave!Rise(c, b)
    BY <2>1, <2>3, Edges
  <2>5. Sane(c, 0, answers)
    BY <2>1
  <2>6. c.mode = "send" => (c.n >= Bits => c.out = 1)
    BY <2>5, SaneAt
  <2>7. CASE c.mode = "idle"
    <3>1. d = c
      BY <2>4, <2>7 DEF Slave!Rise
    <3> QED
      BY <1>4, <2>1, <2>7, <3>1 DEF HeardRead
  <2>8. CASE c.mode = "send"
    <3>1. \/ c.n = Bits /\ b = 1 /\ d = Slave!Stopped(c)
          \/ ~(c.n = Bits /\ b = 1) /\ d.mode = "send" /\ d.n = c.n + 1
      BY <1>2, <2>2, <2>4, <2>8, Rises
    <3>2. d.mode = "idle" \/ (d.mode = "send" /\ e.cnt + 1 <= d.n /\ d.n <= Bits)
      BY <1>1, <1>2, <2>2, <2>3, <2>6, <2>8, <3>1, StartStop
    <3> QED
      BY <1>4, <2>1, <3>2 DEF HeardRead
  <2> QED
    BY <2>2, <2>7, <2>8
<1>5. CASE e.st = 8
  <2>1. /\ z.scl = 0
        /\ IF e.dely # 2 THEN z.st = 8 /\ z.sda = e.sda /\ z.cnt = e.cnt
           ELSE IF e.cnt = Bits + 1 THEN z.st = 9 /\ z.sda = e.sda
           ELSE z.st = 7 /\ z.cnt = e.cnt /\ z.sda \in {1, e.sda}
    BY <1>1, <1>5, ReadIs
  <2>2. e.sda = 1
    BY <1>5 DEF ReadLines
  <2>3. c.mode = "idle" \/ (c.mode = "send" /\ e.cnt <= c.n /\ c.n <= Bits)
    BY <1>5 DEF HeardRead
  <2>4. z.sda = 1
    BY <2>1, <2>2
  <2>5. d = c \/ d = Slave!Fall(c, answers, v)
    BY <1>1, <2>1, <2>2, <2>4, Edges
  <2>6. d.mode = "idle" \/ (d.mode = "send" /\ e.cnt <= d.n /\ d.n <= Bits)
    <3>1. CASE d = c
      BY <2>3, <3>1
    <3>2. CASE d = Slave!Fall(c, answers, v)
      BY <1>2, <2>3, <3>2, Falls, SMTT(30)
    <3> QED
      BY <2>5, <3>1, <3>2
  <2>7. /\ z.st \in {7, 8, 9}
        /\ z.st \in {7, 8} => z.cnt = e.cnt
        /\ z.st = 9 => e.cnt = Bits + 1
    BY <2>1
  <2>8. z.st = 9 => d.mode = "idle"
    <3>1. ASSUME z.st = 9, d.mode # "idle" PROVE FALSE
      <4>1. Bits + 1 <= d.n /\ d.n <= Bits
        BY <2>6, <2>7, <3>1
      <4>2. d \in SlaveStates
        BY <1>2, <2>5, Falls
      <4>3. d.n \in Nat
        BY <1>2, <4>2, SlaveFields
      <4> QED
        BY <1>2, <4>1, <4>3
    <3> QED
      BY <3>1
  <2> QED
    BY <1>5, <2>6, <2>7, <2>8 DEF HeardRead
<1>6. CASE e.st \in 9 .. 13
  <2>1. c.mode = "idle"
    BY <1>6 DEF HeardRead
  <2>2. /\ e.st \in {9, 10} => e.scl = 0
        /\ e.st = 11 => e.sda = 0 /\ e.scl = 0
        /\ e.st = 12 => e.sda = 0 /\ e.scl = 1
        /\ e.st = 13 => e.sda = 1 /\ e.scl = 1
    BY DEF ReadLines, High
  <2>3. /\ e.st = 9 => z.st = 10 /\ z.sda = e.sda /\ z.scl = e.scl
        /\ e.st = 10 => z.st = 11 /\ z.sda = 0 /\ z.scl = 0
        /\ e.st = 11 => z.st = 12 /\ z.sda = 0 /\ z.scl = 1
        /\ e.st = 12 => z.st = 13 /\ z.sda = 1 /\ z.scl = 1
        /\ e.st = 13 => z.st = 30 /\ z.sda = 1 /\ z.scl = 1
    BY <1>1, ReadIs DEF High
  <2>4. d.mode = "idle"
    <3>1. e.st \in {9, 10, 13} => d = c
      BY <1>1, <2>2, <2>3, Edges
    <3>2. e.st = 11 => d = c
      BY <1>1, <2>1, <2>2, <2>3, StopHeard
    <3>3. e.st = 12 => d.mode = "idle"
      BY <1>1, <2>1, <2>2, <2>3, StopHeard
    <3> QED
      BY <1>6, <2>1, <3>1, <3>2, <3>3
  <2>5. z.st \in (10 .. 13) \cup {30}
    BY <1>6, <2>3
  <2> QED
    BY <2>4, <2>5 DEF HeardRead
<1> QED
  BY <1>3, <1>4, <1>5, <1>6

\* The lines of the three engines.
CamLines == WordLines(word) /\ PointerLines(ptr) /\ ReadLines(rd)

\* They keep to it, whatever is asked of them.
LEMMA CamLinesMove ==
    ASSUME CamInv, CamLines, Engines
    PROVE  CamLines'
<1>1. /\ WordShape(word) /\ PointerShape(ptr) /\ ReadShape(rd)
      /\ frame \in Byte \X Byte \X Byte \X Byte
      /\ go.word \in BOOLEAN /\ go.ptr \in BOOLEAN /\ go.read \in BOOLEAN
  BY DEF CamInv, CamShapes
<1>2. PICK d \in {0, 1} : d = Sdai
  BY DEF Sdai, Sda
<1>3. PICK f : f = SubSeq(frame, 1, 3)
  OBVIOUS
<1>4. f[1] \in Byte
  BY <1>1, <1>3
<1>5. WordLines(word) /\ PointerLines(ptr) /\ ReadLines(rd)
  BY DEF CamLines
<1>6. WordLines(word')
  <2>1. word' = WordClock(word, go.word, frame)
    BY DEF Engines
  <2> QED
    BY <1>1, <1>5, <2>1, WordLinesMove
<1>7. PointerLines(ptr')
  <2>1. ptr' = PointerClock(ptr, go.ptr, f, d)
    BY <1>2, <1>3 DEF Engines
  <2> QED
    BY <1>1, <1>4, <1>5, <2>1, PointerLinesMove
<1>8. ReadLines(rd')
  <2>1. rd' = ReadClock(rd, go.read, frame[1], d)
    BY <1>2 DEF Engines
  <2> QED
    BY <1>1, <1>5, <2>1, ReadLinesMove
<1> QED
  BY <1>6, <1>7, <1>8 DEF CamLines

\* An engine that waits leaves the wires to the one at work.
LEMMA CamWires ==
    ASSUME CamInv, CamLines, CamInv', CamLines', resetN, resetN', st # 0, st' # 0
    PROVE  /\ word.st = 30 /\ rd.st = 30 => Scl = ptr.scl /\ Sda = ptr.sda
           /\ word.st = 30 /\ ptr.st = 10 => Scl = rd.scl /\ Sda = rd.sda
           /\ ptr.st = 10 /\ rd.st = 30 => Scl = word.scl /\ Sda = word.sda
           /\ word'.st = 30 /\ rd'.st = 30 => Scl' = ptr'.scl /\ Sda' = ptr'.sda
           /\ word'.st = 30 /\ ptr'.st = 10 => Scl' = rd'.scl /\ Sda' = rd'.sda
           /\ ptr'.st = 10 /\ rd'.st = 30 => Scl' = word'.scl /\ Sda' = word'.sda
<1>1. /\ word \in Registers /\ ptr \in Registers /\ rd \in Registers
      /\ word.st = 30 => High(word)
      /\ ptr.st = 10 => High(ptr)
      /\ rd.st = 30 => High(rd)
  BY DEF CamInv, CamShapes, WordShape, PointerShape, ReadShape, CamLines, WordLines,
         PointerLines, ReadLines
<1>2. /\ word' \in Registers /\ ptr' \in Registers /\ rd' \in Registers
      /\ word'.st = 30 => High(word')
      /\ ptr'.st = 10 => High(ptr')
      /\ rd'.st = 30 => High(rd')
  BY DEF CamInv, CamShapes, WordShape, PointerShape, ReadShape, CamLines, WordLines,
         PointerLines, ReadLines
<1>3. /\ {word.scl, word.sda, ptr.scl, ptr.sda, rd.scl, rd.sda} \subseteq {0, 1}
      /\ {word'.scl, word'.sda, ptr'.scl, ptr'.sda, rd'.scl, rd'.sda} \subseteq {0, 1}
  BY <1>1, <1>2, Fields
<1>4. /\ Scl = IF word.scl + ptr.scl + rd.scl = 3 THEN 1 ELSE 0
      /\ Sda = IF word.sda + ptr.sda + rd.sda < 3 THEN 0 ELSE 1
      /\ Scl' = IF word'.scl + ptr'.scl + rd'.scl = 3 THEN 1 ELSE 0
      /\ Sda' = IF word'.sda + ptr'.sda + rd'.sda < 3 THEN 0 ELSE 1
  BY DEF Scl, Sda
<1> QED
  BY <1>1, <1>2, <1>3, <1>4 DEF High

\* The order of the sequencer's states, and what ends its waiting.
LEMMA CamOrder ==
    ASSUME CamInv, Clock, resetN
    PROVE  /\ resetN' /\ awake' = awake
           /\ st \in {0, 1, 2} => st' \in {1, 2, 3}
           /\ st = 3 => st' = 3 \/ (st' = 4 /\ ptr.st = 12)
           /\ st = 4 => st' = 4 \/ (st' = 5 /\ ptr.st = 10)
           /\ st = 5 => st' = 6
           /\ st = 6 => st' \in {6, 7}
           /\ st = 7 => st' = 7 \/ (st' = 8 /\ rd.st = 1)
           /\ st = 8 => st' = 9
           /\ st = 9 => st' = 9 \/ (st' = 10 /\ rd.st = 30)
           /\ st = 10 => st' \in {1, 28}
           /\ st = 28 => st' \in {28, 30}
           /\ st = 30 => st' = 31
           /\ st = 31 => st' \in {31, 32, 40}
           /\ st = 32 => st' = 32 \/ (st' = 33 /\ word.st = 2)
           /\ st = 33 => st' = 34
           /\ st = 34 => st' = 34 \/ (st' = 35 /\ word.st = 30)
           /\ st = 35 => st' \in {31, 35}
           /\ st = 40 => st' = 41
           /\ st = 41 => st' \in {41, 42}
           /\ st = 42 => st' = 31
<1>1. Sequencer /\ resetN' = resetN /\ awake' = awake
  BY DEF Clock
<1>2. /\ st = 3 /\ dely = 2 => ptr.st = 12
      /\ st = 7 /\ dely = 2 => rd.st = 1
      /\ st = 32 /\ dely = 3 => word.st = 2
  BY DEF CamInv, GoLow
<1>3. /\ st = 4 /\ ptr.end => ptr.st = 10
      /\ rd.end => rd.st \in {30, 31}
      /\ word.end => word.st \in {30, 31}
  BY DEF CamInv, CamShapes, GoLow, Armed, PointerShape, ReadShape, WordShape
<1>4. /\ st = 9 => rd.st # 31
      /\ st = 34 => word.st # 31
  BY DEF CamInv, GoLow, Armed
<1>5. CASE Begin \/ Pass \/ AfterPause
  BY <1>1, <1>5 DEF Begin, Pass, AfterPause
<1>6. CASE PointAtId \/ HoldGo(3, "ptr") \/ Pointed
  BY <1>1, <1>2, <1>3, <1>6 DEF PointAtId, HoldGo, Pointed
<1>7. CASE ReadId \/ HoldGo(7, "read") \/ IdRead
  BY <1>1, <1>2, <1>3, <1>4, <1>7 DEF ReadId, HoldGo, IdRead
<1>8. CASE CompareId \/ BeforeTable \/ FirstWord
  BY <1>1, <1>8 DEF CompareId, BeforeTable, FirstWord
<1>9. CASE TakeWord \/ TakePause
  BY <1>1, <1>9 DEF TakeWord, TakePause
<1>10. CASE HoldWordGo \/ WordSent
  <2>1. HoldWordGo => st = 32 /\ (st' = 32 \/ (st' = 33 /\ word.st = 2))
    BY <1>2 DEF HoldWordGo
  <2>2. WordSent => st = 34 /\ (st' = 34 \/ (st' = 35 /\ word.st = 30))
    BY <1>3, <1>4 DEF WordSent
  <2> QED
    BY <1>1, <1>10, <2>1, <2>2
<1>11. CASE NextWord \/ PauseBegins \/ Pausing
  BY <1>1, <1>11, SMTT(30) DEF NextWord, PauseBegins, Pausing
<1> QED
  BY <1>1, <1>5, <1>6, <1>7, <1>8, <1>9, <1>10, <1>11 DEF Sequencer

\* What the sequencer counts and offers on the way.
LEMMA CamCounts ==
    ASSUME CamInv, Clock, resetN
    PROVE  /\ st \notin {2, 31} => frame' = frame
           /\ st \in {0, 30} => wcnt' = 0
           /\ st \notin {0, 30, 34, 41} => wcnt' = wcnt
           /\ st = 34 => wcnt' = IF st' = 35 THEN wcnt + 1 ELSE wcnt
           /\ st = 41 => wcnt' = IF st' = 42 THEN wcnt + 1 ELSE wcnt
           /\ release' = release \/ (st = 35 /\ wcnt = Len(Table) /\ st' = 35)
           /\ st = 35 /\ st' # 35 => wcnt # Len(Table)
<1>1. Sequencer
  BY DEF Clock
<1>2. wcnt \in Nat
  BY CameraAssumption DEF CamInv, TableCounts
<1>5. CASE Begin \/ Pass \/ AfterPause
  BY <1>1, <1>5 DEF Begin, Pass, AfterPause
<1>6. CASE PointAtId \/ HoldGo(3, "ptr") \/ Pointed
  BY <1>1, <1>6 DEF PointAtId, HoldGo, Pointed
<1>7. CASE ReadId \/ HoldGo(7, "read") \/ IdRead
  BY <1>1, <1>7 DEF ReadId, HoldGo, IdRead
<1>8. CASE CompareId \/ BeforeTable \/ FirstWord
  BY <1>1, <1>8 DEF CompareId, BeforeTable, FirstWord
<1>9. CASE TakeWord \/ TakePause
  BY <1>1, <1>9 DEF TakeWord, TakePause
<1>10. CASE HoldWordGo \/ WordSent
  BY <1>1, <1>2, <1>10 DEF HoldWordGo, WordSent
<1>11. CASE NextWord \/ PauseBegins \/ Pausing
  BY <1>1, <1>2, <1>11 DEF NextWord, PauseBegins, Pausing
<1> QED
  BY <1>1, <1>5, <1>6, <1>7, <1>8, <1>9, <1>10, <1>11 DEF Sequencer

\* What the camera makes of the wires, by the state of the sequencer.
CamHears ==
    resetN =>
        /\ st = 4 => HeardPointer(cam, ptr)
        /\ st \in {5, 6, 7} => cam.mode # "recv"
        /\ st \in {8, 9} => HeardRead(cam, rd) /\ (rd.st = 30 => cam.mode = "idle")
        /\ st \in {32, 33, 34} => HeardWord(cam, word, frame)
        /\ st \in {32, 33} => word.byte = 0
        /\ st = 33 => word.st = 3
        /\ st \in {10, 28, 30, 31, 35, 40, 41, 42} => cam.mode = "idle"
        /\ st > 4 \/ (st = 4 /\ ptr.st \in 2 .. 10) => awake > 0

\* The pointer engine finds nobody but an awake camera.
LEMMA CamHearsPointer ==
    ASSUME CamInv, CamInv', CamLines, CamLines', CamSane, CamHears, Clock, resetN, st = 4
    PROVE  /\ HeardPointer(cam', ptr') /\ (ptr'.st \in 2 .. 10 => awake > 0)
           /\ st' = 5 => cam'.mode # "recv" /\ awake > 0
<1>1. /\ PointerShape(ptr) /\ ptr.st # 0 /\ word.st = 30 /\ rd.st = 30 /\ go.ptr
      /\ go.ptr \in BOOLEAN
  BY DEF CamInv, CamShapes, Armed, OneAtWork, GoLow
<1>2. resetN' /\ (st' = 4 \/ (st' = 5 /\ ptr.st = 10))
  BY CamOrder
<1>3. word'.st = 30 /\ rd'.st = 30
  BY <1>2 DEF CamInv, OneAtWork
<1>4. Scl = ptr.scl /\ Sda = ptr.sda /\ Scl' = ptr'.scl /\ Sda' = ptr'.sda
  BY <1>1, <1>2, <1>3, CamWires
<1>5. PICK a \in BOOLEAN : a = (awake > 0)
  BY Wires
<1>6. PICK v \in Nat : v = Answer
  BY Wires
<1>7. PICK i \in {0, 1} : i = Sdai
  BY DEF Sdai, Sda
<1>8. PICK e : e = ptr
  OBVIOUS
<1>9. PICK z : z = ptr'
  OBVIOUS
<1>10. PICK c : c = cam
  OBVIOUS
<1>11. PICK d : d = cam'
  OBVIOUS
<1>12. PICK f : f = SubSeq(frame, 1, 3)
  OBVIOUS
<1>13. PICK g \in BOOLEAN : g = go.ptr
  BY <1>1
<1>14. d \in Slave!Seen(c, e.scl, e.sda, z.scl, z.sda, a, v)
  BY <1>4, <1>5, <1>6, <1>8, <1>9, <1>10, <1>11 DEF Clock, CameraSees
<1>15. Sane(c, e.scl, a)
  BY <1>4, <1>5, <1>8, <1>10 DEF CamSane
<1>16. PointerShape(e) /\ PointerLines(e) /\ HeardPointer(c, e) /\ e.st # 0
  BY <1>1, <1>8, <1>10 DEF CamLines, CamHears
<1>17. z = PointerClock(e, g, f, i)
  BY <1>7, <1>8, <1>9, <1>12, <1>13 DEF Clock, Engines
<1>18. (e.st = 16 /\ i = 0) => c.out = 0
  <2>1. e.st = 16 => e.sda = 1
    BY <1>16 DEF PointerLines, High
  <2>2. i = IF c.out = 0 THEN 0 ELSE e.sda
    BY <1>4, <1>7, <1>8, <1>10 DEF Sdai
  <2> QED
    BY <2>1, <2>2
<1>19. HeardPointer(d, z) /\ (z.st \in 2 .. 10 => e.st \in 2 .. 10 \/ a)
  BY <1>14, <1>15, <1>16, <1>17, <1>18, PointerHeard
<1>20. e.st \in 2 .. 10 => awake > 0
  BY <1>8 DEF CamHears
<1>21. HeardPointer(cam', ptr')
  BY <1>9, <1>11, <1>19
<1>22. ptr'.st \in 2 .. 10 => awake > 0
  <2>1. a => awake > 0
    BY <1>5
  <2> QED
    BY <1>9, <1>19, <1>20, <2>1
<1>23. CASE st' = 4
  BY <1>23, <1>21, <1>22
<1>24. CASE st' = 5 /\ ptr.st = 10
  <2>1. z.st = 10
    BY <1>1, <1>9, <1>24, CamEngines DEF Clock
  <2>2. d.mode # "recv"
    BY <1>19, <2>1 DEF HeardPointer
  <2> QED
    BY <1>8, <1>11, <1>20, <1>24, <1>21, <1>22, <2>2
<1> QED
  BY <1>2, <1>23, <1>24

\* While no engine is at work, the camera sees nothing.
LEMMA CamHearsNothing ==
    ASSUME CamInv, CamInv', CamLines, CamLines', Clock, resetN,
           st \in {5, 6, 10, 28, 30, 31, 35, 40, 41, 42}
    PROVE  cam' = cam /\ word'.st = 30
<1>1. word.st = 30 /\ rd.st = 30 /\ ptr.st = 10
  BY DEF CamInv, OneAtWork
<1>2. resetN' /\ awake' = awake /\ st' # 0
  BY CamOrder
<1>3. word'.st = 30 /\ rd'.st = 30 /\ ptr'.st = 10
  BY CamIdle DEF Clock
<1>4. Scl = ptr.scl /\ Sda = ptr.sda /\ Scl' = ptr'.scl /\ Sda' = ptr'.sda
  BY <1>1, <1>2, <1>3, CamWires
<1>5. ptr.scl = 1 /\ ptr.sda = 1 /\ ptr'.scl = 1 /\ ptr'.sda = 1
  BY <1>1, <1>3 DEF CamLines, PointerLines, High
<1>6. cam' \in Slave!Seen(cam, Scl, Sda, Scl', Sda', awake > 0, Answer)
  BY DEF Clock, CameraSees
<1>7. Slave!Seen(cam, Scl, Sda, Scl', Sda', awake > 0, Answer) = {cam}
  BY <1>4, <1>5 DEF Slave!Seen
<1> QED
  BY <1>3, <1>6, <1>7

\* The read engine, from GO low on.
LEMMA CamHearsRead ==
    ASSUME CamInv, CamInv', CamLines, CamLines', CamSane, CamHears, Clock, resetN, st \in {7, 8, 9}
    PROVE  /\ st = 7 /\ rd.st \in {30, 31} => cam' = cam
           /\ (st = 7 /\ rd.st = 1) \/ st \in {8, 9} =>
                HeardRead(cam', rd') /\ (rd'.st = 30 => cam'.mode = "idle")
<1>1. /\ ReadShape(rd) /\ rd.st # 0 /\ word.st = 30 /\ ptr.st = 10
      /\ go.read \in BOOLEAN /\ frame[1] = Camera /\ (rd.st = 31 => st = 7)
  BY DEF CamInv, CamShapes, Armed, OneAtWork, AddressIsCameras, GoLow
<1>2. resetN' /\ st' # 0
  BY CamOrder
<1>3. word'.st = 30 /\ ptr'.st = 10
  BY CamIdle DEF Clock
<1>4. Scl = rd.scl /\ Sda = rd.sda /\ Scl' = rd'.scl /\ Sda' = rd'.sda
  BY <1>1, <1>2, <1>3, CamWires
<1>5. PICK a \in BOOLEAN : a = (awake > 0)
  BY Wires
<1>6. PICK v \in Nat : v = Answer
  BY Wires
<1>7. PICK i \in {0, 1} : i = Sdai
  BY DEF Sdai, Sda
<1>8. PICK e : e = rd
  OBVIOUS
<1>9. PICK z : z = rd'
  OBVIOUS
<1>10. PICK c : c = cam
  OBVIOUS
<1>11. PICK d : d = cam'
  OBVIOUS
<1>12. PICK g \in BOOLEAN : g = go.read
  BY <1>1
<1>13. d \in Slave!Seen(c, e.scl, e.sda, z.scl, z.sda, a, v)
  BY <1>4, <1>5, <1>6, <1>8, <1>9, <1>10, <1>11 DEF Clock, CameraSees
<1>14. Sane(c, e.scl, a)
  BY <1>4, <1>5, <1>8, <1>10 DEF CamSane
<1>15. ReadShape(e) /\ ReadLines(e) /\ e.st # 0
  BY <1>1, <1>8 DEF CamLines
<1>16. z = ReadClock(e, g, Camera, i)
  BY <1>1, <1>7, <1>8, <1>9, <1>12 DEF Clock, Engines
<1>17. CASE e.st \in {30, 31}
  <2>1. e.scl = 1 /\ e.sda = 1
    BY <1>15, <1>17 DEF ReadLines, High
  <2>2. z.scl = 1 /\ z.sda = 1 /\ (z.st = 30 => e.st = 30)
    <3>1. e \in Registers /\ (e.st = 8 => e.dely \in 0 .. 2)
      BY <1>15 DEF ReadShape
    <3>2. /\ e.st = 30 => z.st = (IF g THEN 30 ELSE 31) /\ z.sda = e.sda /\ z.scl = e.scl
          /\ e.st = 31 => z.st = 1 /\ z.sda = e.sda /\ z.scl = e.scl
      BY <1>16, <3>1, ReadIs
    <3> QED
      BY <1>17, <2>1, <3>2
  <2>3. d = c
    BY <1>13, <2>1, <2>2 DEF Slave!Seen
  <2>4. st \in {8, 9} => e.st = 30 /\ c.mode = "idle"
    BY <1>1, <1>8, <1>10, <1>17 DEF CamHears
  <2>5. st \in {8, 9} => HeardRead(d, z) /\ d.mode = "idle"
    <3>1. st \in {8, 9} => z.st = 30 \/ z.st = 31
      <4>1. e \in Registers /\ (e.st = 8 => e.dely \in 0 .. 2)
        BY <1>15 DEF ReadShape
      <4>2. e.st = 30 => z.st = (IF g THEN 30 ELSE 31)
        BY <1>16, <4>1, ReadIs
      <4> QED
        BY <2>4, <4>2
    <3> QED
      BY <2>3, <2>4, <3>1 DEF HeardRead
  <2> QED
    BY <1>8, <1>9, <1>10, <1>11, <1>17, <2>3, <2>5
<1>18. CASE e.st \notin {30, 31}
  <2>1. HeardRead(c, e)
    <3>1. st \in {8, 9} => HeardRead(c, e)
      BY <1>8, <1>10 DEF CamHears
    <3>2. st = 7 => e.st = 1 /\ c.mode # "recv"
      BY <1>8, <1>10, <1>18 DEF CamHears, CamInv, GoLow
    <3>3. st = 7 => HeardRead(c, e)
      BY <3>2 DEF HeardRead
    <3> QED
      BY <3>1, <3>3
  <2>2. e.st \in 1 .. 5 \/ e.st \in 6 .. 13
    BY <1>15, <1>18 DEF ReadShape
  <2>3. HeardRead(d, z)
    <3>1. /\ a \in BOOLEAN /\ g \in BOOLEAN /\ v \in Nat /\ i \in {0, 1}
          /\ ReadShape(e) /\ ReadLines(e)
      BY <1>15
    <3>2. CASE e.st \in 1 .. 5
      BY <1>13, <1>14, <1>16, <2>1, <3>1, <3>2, ReadAddressed
    <3>3. CASE e.st \in 6 .. 13
      BY <1>13, <1>14, <1>16, <2>1, <3>1, <3>3, ReadAnswered
    <3> QED
      BY <2>2, <3>2, <3>3
  <2>4. z.st = 30 => d.mode = "idle"
    <3>1. z.st = 30 => e.st = 13
      BY <1>8, <1>9, <1>18, <1>15, CamEngines DEF Clock
    <3>2. e.st = 13 => d.mode = "idle"
      BY <1>13, <1>14, <1>15, <1>16, <2>1, ReadAnswered
    <3> QED
      BY <3>1, <3>2
  <2> QED
    BY <1>8, <1>9, <1>11, <1>18, <2>3, <2>4
<1> QED
  BY <1>17, <1>18

\* A word has been acknowledged to its end, or will not be.
WordGone(e) == e.st \in (6 .. 9) \cup {30} \/ (e.st \in 2 .. 5 /\ Passed(e, 3))

\* That is settled in the clock that ends the last bit of its last byte.
LEMMA WordGoes ==
    ASSUME NEW e, WordShape(e), e.st \notin {0, 31}, NEW g \in BOOLEAN, NEW f, Len(f) = 4,
           NEW z, z = WordClock(e, g, f), e.st = 30 => g # FALSE
    PROVE  WordGone(z) <=> WordGone(e) \/ (e.st = 5 /\ e.byte = 3 /\ e.cnt = Bits)
<1>1. /\ e \in Registers /\ e.st \in (1 .. 9) \cup {30}
      /\ e.cnt \in 0 .. Bits + 1 /\ e.byte \in 0 .. 3
      /\ e.st = 1 => e.cnt = 0 /\ e.byte = 0
      /\ e.st \in 2 .. 4 => e.cnt <= Bits
  BY Fields DEF WordShape
<1>2. Bits \in Nat /\ Bits > 0
  BY Powers
<1>3. CASE e.st \in 2 .. 4 \/ (e.st = 5 /\ e.cnt <= Bits)
  <2>1. z = Writing(e, f) /\ e.st \in 2 .. 8
    BY <1>1, <1>3, WordIs
  <2>2. BitClock(e, z, 2) /\ z.byte = e.byte
    BY <1>1, <1>3, <2>1, WritingIs
  <2>3. /\ e.st = 2 => z.st = 3 /\ z.cnt = e.cnt
        /\ e.st = 3 => z.st = 4 /\ z.cnt = e.cnt
        /\ e.st = 4 => z.st = 5 /\ z.cnt = e.cnt + 1
        /\ e.st = 5 => z.st = 2 /\ z.cnt = e.cnt
    BY <2>2 DEF BitClock
  <2>4. WordGone(e) <=> e.byte = 3 /\ e.st # 5 /\ e.cnt = Bits
    BY <1>1, <1>2, <1>3 DEF WordGone, Passed
  <2>5. WordGone(z) <=> e.byte = 3 /\ e.cnt = Bits
    BY <1>1, <1>2, <1>3, <2>2, <2>3 DEF WordGone, Passed
  <2> QED
    BY <1>1, <1>2, <1>3, <2>4, <2>5
<1>4. CASE e.st = 5 /\ e.cnt = Bits + 1
  <2>1. z = Writing(e, f) /\ e.st \in 2 .. 8
    BY <1>1, <1>4, WordIs
  <2>2. IF e.byte + 1 = Len(f) THEN z.st = 6
        ELSE z.st = 2 /\ z.cnt = 0 /\ z.byte = e.byte + 1
    <3>1. PICK h : h = f
      OBVIOUS
    <3>2. z = Writing(e, h)
      BY <2>1, <3>1
    <3>3. IF e.byte + 1 = Len(h) THEN z.st = 6
          ELSE /\ z.st = 2 /\ z.cnt = 0 /\ z.byte = e.byte + 1
               /\ z.a = Shifted(h[e.byte + 2])
      BY <1>1, <1>4, <2>1, <3>2, WritingIs
    <3> QED
      BY <3>1, <3>3
  <2>3. WordGone(e) <=> e.byte = 3
    BY <1>1, <1>2, <1>4 DEF WordGone, Passed
  <2>4. WordGone(z) <=> e.byte = 3
    <3>1. CASE e.byte = 3
      BY <2>2, <3>1 DEF WordGone
    <3>2. CASE e.byte # 3
      <4>1. z.st = 2 /\ z.cnt = 0 /\ z.byte = e.byte + 1 /\ z.byte \in 1 .. 3
        BY <1>1, <2>2, <3>2
      <4> QED
        BY <1>2, <3>2, <4>1 DEF WordGone, Passed
    <3> QED
      BY <3>1, <3>2
  <2> QED
    BY <1>2, <1>4, <2>3, <2>4
<1>5. CASE e.st \in 6 .. 8
  <2>1. z = Writing(e, f)
    BY <1>1, <1>5, WordIs
  <2>2. z.st = e.st + 1
    BY <1>1, <1>5, <2>1, WritingIs
  <2> QED
    BY <1>5, <2>2 DEF WordGone
<1>6. CASE e.st \in {9, 30}
  <2>1. z.st = 30
    <3>1. e.st = 9 => z.st = 30
      BY <1>1, WordIs
    <3>2. e.st = 30 => z.st = IF g THEN 30 ELSE 31
      BY <1>1, WordIs
    <3> QED
      BY <1>6, <3>1, <3>2
  <2> QED
    BY <1>6, <2>1 DEF WordGone
<1>7. CASE e.st = 1
  <2>1. z.st = 2 /\ z.cnt = 0 /\ z.byte = 0
    BY <1>1, <1>7, WordIs
  <2> QED
    BY <1>2, <1>7, <2>1 DEF WordGone, Passed
<1> QED
  BY <1>1, <1>2, <1>3, <1>4, <1>5, <1>6, <1>7

\* The camera and a word.
LEMMA CamHearsWord ==
    ASSUME CamInv, CamInv', CamLines, CamLines', CamSane, CamHears, Clock, resetN,
           st \in {32, 33, 34}
    PROVE  /\ HeardWord(cam', word', frame)
           /\ Slave!Wrote(cam, cam') <=> WordTaken(word, frame)
           /\ WordTaken(word, frame) =>
                cam.ptr[1] = frame[2] /\ cam.ptr[2] = frame[3] /\ cam.sh = frame[4]
           /\ st = 34 => (WordGone(word') <=>
                            WordGone(word) \/ (word.st = 5 /\ word.byte = 3 /\ word.cnt = Bits))
<1>1. /\ WordShape(word) /\ word.st # 0 /\ ptr.st = 10 /\ rd.st = 30
      /\ go.word \in BOOLEAN /\ frame \in Byte \X Byte \X Byte \X Byte
      /\ st = 34 => word.st # 31 /\ go.word
      /\ wcnt \in 0 .. Len(Table) - 1 /\ frame = Table[wcnt + 1]
  <2>1. wcnt < Len(Table) /\ wcnt \in 0 .. Len(Table) /\ frame = Table[wcnt + 1]
    BY DEF CamInv, TableCounts
  <2>2. Len(Table) \in Nat
    BY CameraAssumption
  <2>3. wcnt \in 0 .. Len(Table) - 1
    BY <2>1, <2>2
  <2> QED
    BY <2>1, <2>3, SMTT(30) DEF CamInv, CamShapes, Armed, OneAtWork, GoLow
<1>2. frame[1] # Camera + 1
  <2>1. wcnt + 1 \in 1 .. Len(Table) /\ Len(Table) \in Nat
    BY <1>1, CameraAssumption
  <2>2. Table[wcnt + 1] \in ToSet(Table)
    BY <2>1 DEF ToSet
  <2> QED
    BY <1>1, <2>2, CameraAssumption
<1>3. resetN' /\ st' # 0
  BY CamOrder
<1>4. ptr'.st = 10 /\ rd'.st = 30
  BY CamIdle DEF Clock
<1>5. Scl = word.scl /\ Sda = word.sda /\ Scl' = word'.scl /\ Sda' = word'.sda
  BY <1>1, <1>3, <1>4, CamWires
<1>6. PICK a \in BOOLEAN : a = (awake > 0)
  BY Wires
<1>7. PICK v \in Nat : v = Answer
  BY Wires
<1>8. PICK e : e = word
  OBVIOUS
<1>9. PICK z : z = word'
  OBVIOUS
<1>10. PICK c : c = cam
  OBVIOUS
<1>11. PICK d : d = cam'
  OBVIOUS
<1>12. PICK g \in BOOLEAN : g = go.word
  BY <1>1
<1>13. PICK f : f = frame
  OBVIOUS
<1>14. f \in Byte \X Byte \X Byte \X Byte /\ f[1] # Camera + 1
  BY <1>1, <1>2, <1>13
<1>15. d \in Slave!Seen(c, e.scl, e.sda, z.scl, z.sda, a, v)
  BY <1>5, <1>6, <1>7, <1>8, <1>9, <1>10, <1>11 DEF Clock, CameraSees
<1>16. Sane(c, e.scl, a)
  BY <1>5, <1>6, <1>8, <1>10 DEF CamSane
<1>17. WordShape(e) /\ WordLines(e) /\ HeardWord(c, e, f)
  BY <1>1, <1>8, <1>10, <1>13 DEF CamLines, CamHears
<1>18. a \in BOOLEAN /\ a # FALSE
  <2>1. awake > 0
    BY DEF CamHears
  <2> QED
    BY <1>6, <2>1
<1>19. z = WordClock(e, g, f)
  BY <1>8, <1>9, <1>12, <1>13 DEF Clock, Engines
<1>20. /\ HeardWord(d, z, f)
       /\ Slave!Wrote(c, d) <=> WordTaken(e, f)
       /\ WordTaken(e, f) => c.ptr[1] = f[2] /\ c.ptr[2] = f[3] /\ c.sh = f[4]
  <2>1. a \in BOOLEAN /\ g \in BOOLEAN /\ v \in Nat /\ f \in Byte \X Byte \X Byte \X Byte
    BY <1>14
  <2> QED
    BY <1>14, <1>15, <1>16, <1>17, <1>18, <1>19, <2>1, WordHeard, ZenonT(60)
<1>21. st = 34 => (WordGone(z) <=> WordGone(e) \/ (e.st = 5 /\ e.byte = 3 /\ e.cnt = Bits))
  <2>1. ASSUME st = 34
        PROVE  WordGone(z) <=> WordGone(e) \/ (e.st = 5 /\ e.byte = 3 /\ e.cnt = Bits)
    <3>1. e.st \notin {0, 31} /\ g # FALSE
      BY <1>1, <1>8, <1>12, <2>1
    <3>2. Len(f) = 4
      BY <1>14
    <3> QED
      BY <1>17, <1>19, <3>1, <3>2, WordGoes
  <2> QED
    BY <2>1
<1> QED
  BY <1>8, <1>9, <1>10, <1>11, <1>13, <1>20, <1>21

\* A clock of the running sequencer, for the camera.
LEMMA CamHearsMoves ==
    ASSUME CamInv, CamInv', CamLines, CamLines', CamSane, CamHears, Clock, resetN
    PROVE  CamHears'
<1>1. resetN' /\ awake' = awake
  BY CamOrder
<1>2. CASE st \in 0 .. 3
  <2>1. st' \in 1 .. 3 \/ (st' = 4 /\ ptr.st = 12)
    BY <1>2, CamOrder
  <2>2. ptr.st = 12 => ptr'.st = 13
    <3>1. PICK i \in {0, 1} : i = Sdai
      BY DEF Sdai, Sda
    <3>2. PICK z : z = ptr'
      OBVIOUS
    <3>3. PICK f : f = SubSeq(frame, 1, 3)
      OBVIOUS
    <3>4. ptr \in Registers /\ go.ptr \in BOOLEAN
      BY DEF CamInv, CamShapes, PointerShape
    <3>5. z = PointerClock(ptr, go.ptr, f, i)
      BY <3>1, <3>2, <3>3 DEF Clock, Engines
    <3>6. ptr.st = 12 => BitClock(ptr, z, 12)
      BY <3>4, <3>5, PointerIs
    <3> QED
      BY <3>2, <3>6 DEF BitClock
  <2> QED
    BY <2>1, <2>2 DEF CamHears, HeardPointer
<1>3. CASE st = 4
  <2>1. st' = 4 \/ (st' = 5 /\ ptr.st = 10)
    BY <1>3, CamOrder
  <2>2. /\ HeardPointer(cam', ptr') /\ (ptr'.st \in 2 .. 10 => awake > 0)
        /\ st' = 5 => cam'.mode # "recv" /\ awake > 0
    BY <1>3, CamHearsPointer
  <2> QED
    BY <1>1, <2>1, <2>2 DEF CamHears
<1>4. CASE st \in {5, 6}
  <2>1. st' \in {6, 7} /\ cam' = cam
    BY <1>4, CamOrder, CamHearsNothing
  <2> QED
    BY <1>1, <1>4, <2>1 DEF CamHears
<1>5. CASE st \in {7, 8, 9}
  <2>1. /\ st = 7 => st' = 7 \/ (st' = 8 /\ rd.st = 1)
        /\ st = 8 => st' = 9
        /\ st = 9 => st' = 9 \/ (st' = 10 /\ rd.st = 30)
    BY CamOrder
  <2>2. /\ st = 7 /\ rd.st \in {30, 31} => cam' = cam
        /\ (st = 7 /\ rd.st = 1) \/ st \in {8, 9} =>
             HeardRead(cam', rd') /\ (rd'.st = 30 => cam'.mode = "idle")
    BY <1>5, CamHearsRead
  <2>3. st = 7 => rd.st \in {30, 31, 1}
    BY DEF CamInv, GoLow
  <2>4. st' = 10 => rd'.st = 30
    BY <1>1 DEF CamInv, OneAtWork
  <2>5. cam.mode # "recv" \/ st \in {8, 9}
    BY <1>5 DEF CamHears
  <2>6. awake > 0
    BY <1>5 DEF CamHears
  <2>7. CASE st = 7
    <3>1. st' = 7 => rd'.st \in {30, 31, 1}
      BY <1>1 DEF CamInv, GoLow
    <3>2. rd.st = 1 => rd'.st = 2
      BY CamEngines DEF Clock
    <3>3. st' = 7 => cam' = cam
      BY <2>2, <2>3, <2>7, <3>1, <3>2
    <3> QED
      BY <1>1, <2>1, <2>2, <2>5, <2>6, <2>7, <3>3 DEF CamHears
  <2>8. CASE st \in {8, 9}
    BY <1>1, <2>1, <2>2, <2>4, <2>6, <2>8 DEF CamHears
  <2> QED
    BY <1>5, <2>7, <2>8
<1>6. CASE st \in {10, 28, 30, 31, 35, 40, 41, 42}
  <2>1. cam' = cam /\ word'.st = 30 /\ cam.mode = "idle" /\ awake > 0
    BY <1>6, CamHearsNothing DEF CamHears
  <2>2. st' \in {1, 28, 30, 31, 32, 35, 40, 41, 42}
    BY <1>6, CamOrder
  <2>3. word'.byte = 0
    BY <2>1 DEF CamInv, CamShapes, WordShape
  <2>4. HeardWord(cam', word', frame')
    BY <2>1 DEF HeardWord
  <2> QED
    BY <1>1, <2>1, <2>2, <2>3, <2>4 DEF CamHears
<1>7. CASE st \in {32, 33, 34}
  <2>1. /\ st = 32 => st' = 32 \/ (st' = 33 /\ word.st = 2)
        /\ st = 33 => st' = 34
        /\ st = 34 => st' = 34 \/ (st' = 35 /\ word.st = 30)
    BY CamOrder
  <2>2. HeardWord(cam', word', frame) /\ frame' = frame
    BY <1>7, CamHearsWord, CamCounts
  <2>3. st' = 35 => cam'.mode = "idle"
    <3>1. st' = 35 => word'.st = 30
      BY <1>1 DEF CamInv, OneAtWork
    <3> QED
      BY <2>2, <3>1 DEF HeardWord
  <2>4. awake > 0
    BY <1>7 DEF CamHears
  <2>5. st = 32 => word'.byte = 0 /\ (word.st = 2 => word'.st = 3)
    <3>1. ASSUME st = 32
          PROVE  word'.byte = 0 /\ (word.st = 2 => word'.st = 3)
      <4>1. word.st \in {30, 31, 1, 2} /\ word.byte = 0
        BY <3>1 DEF CamInv, GoLow, CamHears
      <4>2. word \in Registers /\ go.word \in BOOLEAN
        BY DEF CamInv, CamShapes, WordShape
      <4>3. PICK z : z = word'
        OBVIOUS
      <4>4. z = WordClock(word, go.word, frame)
        BY <4>3 DEF Clock, Engines
      <4>5. /\ word.st = 30 => z.st \in {30, 31}
            /\ word.st = 31 => z.st = 1
            /\ word.st = 1 => z.byte = word.byte
        BY <4>2, <4>4, WordIs
      <4>6. word.st = 2 => BitClock(word, z, 2) /\ z.byte = word.byte
        <5>1. word.st = 2 => z = Writing(word, frame)
          BY <4>2, <4>4, WordIs
        <5> QED
          BY <4>2, <5>1, WritingIs
      <4>7. word.st = 2 => z.st = 3
        BY <4>6 DEF BitClock
      <4>8. z.st \in {30, 31, 1} => z.byte = 0
        BY <4>3 DEF CamInv, CamShapes, WordShape
      <4> QED
        BY <4>1, <4>3, <4>5, <4>6, <4>7, <4>8
    <3> QED
      BY <3>1
  <2> QED
    BY <1>1, <1>7, <2>1, <2>2, <2>3, <2>4, <2>5 DEF CamHears
<1>8. st \in (0 .. 10) \cup {28, 30, 31, 32, 33, 34, 35, 40, 41, 42}
  BY DEF CamInv, CamShapes
<1> QED
  BY <1>2, <1>3, <1>4, <1>5, <1>6, <1>7, <1>8

\* How many words the camera has taken since the table was begun.
Taken == IF st = 34 /\ WordGone(word) THEN UpTo(wcnt + 1) ELSE UpTo(wcnt)

\* The last n of g are the first n words of the table.
EndsWith(g, n) == Len(g) >= n /\ \A k \in 1 .. n : g[(Len(g) - n) + k] = Words[k]

\* What the camera has taken ends with the words sent since the table was
\* begun, and the release waits for the end of the table.
CamTaken ==
    /\ EndsWith(got, Taken)
    /\ release => resetN /\ st = 35 /\ wcnt = Len(Table)

\* Nothing is sent yet.
LEMMA EndsWithNone == ASSUME NEW g \in Seq(CamTakes4) PROVE EndsWith(g, 0)
BY DEF EndsWith

\* The next word is taken.
LEMMA EndsWithMore ==
    ASSUME NEW g \in Seq(CamTakes4), Len(g) <= Len(Words), NEW n \in Nat, n < Len(Words),
           EndsWith(g, n), NEW w \in CamTakes4, w = Words[n + 1]
    PROVE  EndsWith(Remember(Append(g, w)), n + 1)
<1>1. PICK L \in Nat : L = Len(Words)
  BY CamWords
<1>2. PICK l \in Nat : l = Len(g)
  OBVIOUS
<1>3. PICK s : s = Append(g, w)
  OBVIOUS
<1>4. /\ s \in Seq(CamTakes4) /\ Len(s) = l + 1 /\ s[l + 1] = w
      /\ \A i \in 1 .. l : s[i] = g[i]
  BY <1>2, <1>3
<1>5. l <= L /\ n < L /\ l >= n /\ \A k \in 1 .. n : g[(l - n) + k] = Words[k]
  BY <1>1, <1>2 DEF EndsWith
<1>6. \A k \in 1 .. n + 1 : s[((l + 1) - (n + 1)) + k] = Words[k]
  <2>1. ASSUME NEW k \in 1 .. n + 1
        PROVE  s[((l + 1) - (n + 1)) + k] = Words[k]
    <3>1. CASE k = n + 1
      <4>1. ((l + 1) - (n + 1)) + k = l + 1
        BY <1>5, <3>1
      <4> QED
        BY <1>4, <3>1, <4>1
    <3>2. CASE k \in 1 .. n
      <4>1. ((l + 1) - (n + 1)) + k = (l - n) + k /\ (l - n) + k \in 1 .. l
        BY <1>5, <3>2
      <4> QED
        BY <1>4, <1>5, <3>2, <4>1
    <3> QED
      BY <2>1, <3>1, <3>2
  <2> QED
    BY <2>1
<1>7. CASE l + 1 <= L
  <2>1. Remember(s) = s
    BY <1>1, <1>4, <1>7 DEF Remember
  <2>2. PICK m \in Nat : m = l + 1
    OBVIOUS
  <2>3. Len(s) = m /\ m >= n + 1 /\ \A k \in 1 .. n + 1 : s[(m - (n + 1)) + k] = Words[k]
    BY <1>4, <1>5, <1>6, <2>2
  <2>4. EndsWith(s, n + 1)
    BY <2>3 DEF EndsWith
  <2> QED
    BY <1>3, <2>1, <2>4
<1>8. CASE l = L
  <2>1. Remember(s) = Tail(s)
    BY <1>1, <1>4, <1>8 DEF Remember
  <2>2. PICK t : t = Tail(s)
    OBVIOUS
  <2>3. Len(t) = l /\ \A i \in 1 .. l : t[i] = s[i + 1]
    BY <1>4, <2>2
  <2>4. ASSUME NEW k \in 1 .. n + 1
        PROVE  t[(l - (n + 1)) + k] = Words[k]
    <3>1. (l - (n + 1)) + k \in 1 .. l /\ ((l - (n + 1)) + k) + 1 = ((l + 1) - (n + 1)) + k
      BY <1>5, <1>8
    <3>2. t[(l - (n + 1)) + k] = s[((l - (n + 1)) + k) + 1]
      BY <2>3, <3>1
    <3>3. s[((l + 1) - (n + 1)) + k] = Words[k]
      BY <1>6
    <3> QED
      BY <3>1, <3>2, <3>3
  <2>5. l >= n + 1
    BY <1>5, <1>8
  <2>6. EndsWith(t, n + 1)
    BY <2>3, <2>4, <2>5 DEF EndsWith
  <2> QED
    BY <1>3, <2>1, <2>2, <2>6
<1> QED
  BY <1>5, <1>7, <1>8

\* A clock in which the camera takes nothing.
LEMMA NothingTaken ==
    ASSUME Clock, ~Slave!Wrote(cam, cam')
    PROVE  got' = got
BY DEF Clock, CameraSees

\* A clock in which it takes a word of the table.
LEMMA WordIsTaken ==
    ASSUME CamInv, CamSane, Clock, Slave!Wrote(cam, cam'), wcnt \in 0 .. Len(Table) - 1,
           frame = Table[wcnt + 1], frame[1] = Camera, cam.ptr[1] = frame[2],
           cam.ptr[2] = frame[3], cam.sh = frame[4], EndsWith(got, UpTo(wcnt))
    PROVE  EndsWith(got', UpTo(wcnt + 1))
<1>1. got' = Remember(Append(got, <<Camera, cam.ptr[1], cam.ptr[2], cam.sh>>))
  BY DEF Clock, CameraSees
<1>2. frame \in Byte \X Byte \X Byte \X Byte
  BY DEF CamInv, CamShapes
<1>3. PICK w : w = frame
  OBVIOUS
<1>4. w \in Byte \X Byte \X Byte \X Byte
  BY <1>2, <1>3
<1>5. w = <<w[1], w[2], w[3], w[4]>>
  BY <1>4
<1>6. w = <<Camera, cam.ptr[1], cam.ptr[2], cam.sh>>
  BY <1>3, <1>5
<1>7. w \in CamTakes4
  BY <1>4, Powers DEF CamTakes4
<1>8. UpTo(wcnt + 1) = UpTo(wcnt) + 1 /\ Words[UpTo(wcnt + 1)] = w
  BY <1>3, CamWords
<1>9. wcnt + 1 \in 0 .. Len(Table) /\ wcnt \in 0 .. Len(Table)
  BY CameraAssumption
<1>10. UpTo(wcnt) \in Nat /\ UpTo(wcnt + 1) \in 0 .. Len(Words) /\ Len(Words) \in Nat
  BY <1>9, CamWords
<1>11. PICK n \in Nat : n = UpTo(wcnt)
  BY <1>10
<1>12. n < Len(Words) /\ w = Words[n + 1] /\ EndsWith(got, n)
  BY <1>8, <1>10, <1>11
<1>13. got \in Seq(CamTakes4) /\ Len(got) <= Len(Words)
  BY DEF CamSane
<1>14. EndsWith(Remember(Append(got, w)), n + 1)
  BY <1>7, <1>12, <1>13, EndsWithMore
<1> QED
  BY <1>1, <1>6, <1>8, <1>11, <1>14

\* A clock of the running sequencer, for what the camera has taken.
LEMMA CamTakenMoves ==
    ASSUME CamInv, CamInv', CamLines, CamLines', CamSane, CamSane', CamHears, CamTaken,
           Clock, resetN
    PROVE  CamTaken'
<1>1. /\ resetN' /\ st \in (0 .. 10) \cup {28, 30, 31, 32, 33, 34, 35, 40, 41, 42}
      /\ st' \in (0 .. 10) \cup {28, 30, 31, 32, 33, 34, 35, 40, 41, 42}
  BY CamOrder DEF CamInv, CamShapes
<1>2. release' => resetN' /\ st' = 35 /\ wcnt' = Len(Table)
  <2>1. /\ release' = release \/ (st = 35 /\ wcnt = Len(Table) /\ st' = 35)
        /\ st = 35 /\ st' # 35 => wcnt # Len(Table)
        /\ st = 35 => wcnt' = wcnt /\ st' \in {31, 35}
    BY CamCounts, CamOrder
  <2> QED
    BY <1>1, <2>1 DEF CamTaken
<1>3. EndsWith(got, Taken)
  BY DEF CamTaken
<1>4. CASE st' \in (0 .. 10) \cup {28, 30} \/ st = 30
  <2>1. wcnt' = 0 /\ st' # 34
    <3>1. CASE st' \in (0 .. 10) \cup {28, 30}
      BY <3>1 DEF CamInv, TableCounts
    <3>2. CASE st = 30
      BY <3>2, CamOrder, CamCounts
    <3> QED
      BY <1>4, <3>1, <3>2
  <2>2. Taken' = 0
    BY <2>1, CamWords DEF Taken
  <2>3. PICK g : g = got'
    OBVIOUS
  <2>4. EndsWith(g, 0)
    BY <2>3, EndsWithNone DEF CamSane
  <2>5. EndsWith(got', Taken')
    BY <2>2, <2>3, <2>4
  <2>6. EndsWith(got, Taken)'
    BY <2>5 DEF EndsWith
  <2> QED
    BY <1>2, <2>6 DEF CamTaken
<1>6. CASE st \in {31, 35, 40, 41, 42}
  <2>1. cam.mode = "idle" /\ cam' = cam
    BY <1>6, CamHearsNothing DEF CamHears
  <2>2. got' = got
    <3>1. ~Slave!Wrote(cam, cam')
      BY <2>1 DEF Slave!Wrote
    <3> QED
      BY <3>1, NothingTaken
  <2>3. st' # 34
    BY <1>6, CamOrder
  <2>4. UpTo(wcnt') = UpTo(wcnt)
    <3>1. CASE st = 41 /\ st' = 42
      <4>1. /\ wcnt \in 0 .. Len(Table) - 1 /\ Table[wcnt + 1][1] # Camera
        <5>1. wcnt \in 0 .. Len(Table) /\ wcnt < Len(Table) /\ Table[wcnt + 1][1] = DelayType
          BY <3>1 DEF CamInv, TableCounts
        <5> QED
          BY <5>1, CameraAssumption
      <4>2. wcnt' = wcnt + 1
        BY <3>1, CamCounts
      <4> QED
        BY <4>1, <4>2, CamWords
    <3>2. CASE ~(st = 41 /\ st' = 42)
      BY <1>6, <3>2, CamCounts
    <3> QED
      BY <3>1, <3>2
  <2>5. Taken' = Taken
    BY <1>6, <2>3, <2>4 DEF Taken
  <2> QED
    BY <1>2, <1>3, <2>2, <2>5 DEF CamTaken, EndsWith
<1>7. CASE st \in {32, 33, 34}
  <2>1. /\ wcnt \in 0 .. Len(Table) - 1 /\ frame = Table[wcnt + 1]
        /\ WordShape(word) /\ WordShape(word')
    <3>1. wcnt \in 0 .. Len(Table) /\ wcnt < Len(Table) /\ frame = Table[wcnt + 1]
      BY <1>7 DEF CamInv, TableCounts
    <3> QED
      BY <3>1, CameraAssumption DEF CamInv, CamShapes
  <2>2. /\ Slave!Wrote(cam, cam') <=> WordTaken(word, frame)
        /\ WordTaken(word, frame) =>
             cam.ptr[1] = frame[2] /\ cam.ptr[2] = frame[3] /\ cam.sh = frame[4]
        /\ st = 34 => (WordGone(word') <=>
                         WordGone(word) \/ (word.st = 5 /\ word.byte = 3 /\ word.cnt = Bits))
    BY <1>7, CamHearsWord
  <2>3. CASE st \in {32, 33}
    <3>1. ~WordTaken(word, frame)
      BY <2>3 DEF CamHears, WordTaken
    <3>2. got' = got
      BY <2>2, <3>1, NothingTaken
    <3>3. wcnt' = wcnt /\ st' \in {32, 33, 34}
      BY <2>3, CamCounts, CamOrder
    <3>4. st' = 34 => ~WordGone(word')
      <4>1. SUFFICES ASSUME st' = 34
                     PROVE  ~WordGone(word')
        OBVIOUS
      <4>2. st = 33 /\ word.st = 3 /\ word.byte = 0
        BY <2>3, <4>1, CamOrder DEF CamHears
      <4>3. PICK z : z = word'
        OBVIOUS
      <4>4. z = WordClock(word, go.word, frame) /\ go.word \in BOOLEAN
        BY <4>3 DEF Clock, Engines, CamInv, CamShapes
      <4>5. PICK g \in BOOLEAN : g = go.word
        BY <4>4
      <4>6. z = WordClock(word, g, frame)
        BY <4>4, <4>5
      <4>7. PICK h : h = frame
        OBVIOUS
      <4>8. word \in Registers
        BY <2>1 DEF WordShape
      <4>9. z = Writing(word, h)
        BY <4>2, <4>6, <4>7, <4>8, WordIs
      <4>10. BitClock(word, z, 2) /\ z.byte = word.byte
        BY <4>2, <4>8, <4>9, WritingIs
      <4>11. z.st = 4 /\ z.byte = 0
        BY <4>2, <4>10 DEF BitClock
      <4> QED
        BY <4>2, <4>3, <4>11 DEF WordGone, Passed
    <3>5. Taken' = Taken
      BY <2>3, <3>3, <3>4 DEF Taken
    <3> QED
      BY <1>2, <1>3, <3>2, <3>5 DEF CamTaken, EndsWith
  <2>4. CASE st = 34 /\ st' = 34
    <3>1. wcnt' = wcnt
      BY <2>4, CamCounts
    <3>2. CASE WordGone(word)
      <4>1. WordGone(word') /\ ~WordTaken(word, frame)
        <5>1. word.st = 5 => ~(word.byte = 3 /\ word.cnt = Bits)
          BY <3>2, Powers DEF WordGone, Passed
        <5> QED
          BY <2>2, <2>4, <3>2, <5>1 DEF WordTaken
      <4>2. got' = got
        BY <2>2, <4>1, NothingTaken
      <4>3. Taken' = Taken
        BY <2>4, <3>1, <3>2, <4>1 DEF Taken
      <4> QED
        BY <1>2, <1>3, <4>2, <4>3 DEF CamTaken, EndsWith
    <3>3. CASE ~WordGone(word) /\ word.st = 5 /\ word.byte = 3 /\ word.cnt = Bits
      <4>1. WordGone(word') /\ (WordTaken(word, frame) <=> frame[1] = Camera)
        BY <2>2, <2>4, <3>3 DEF WordTaken
      <4>2. Taken = UpTo(wcnt) /\ Taken' = UpTo(wcnt + 1)
        BY <2>4, <3>1, <3>3, <4>1 DEF Taken
      <4>3. CASE frame[1] = Camera
        <5>1. EndsWith(got, UpTo(wcnt))
          BY <1>3, <4>2
        <5>2. EndsWith(got', UpTo(wcnt + 1))
          BY <2>1, <2>2, <4>1, <4>3, <5>1, WordIsTaken
        <5> QED
          BY <1>2, <4>2, <5>2 DEF CamTaken, EndsWith
      <4>4. CASE frame[1] # Camera
        <5>1. got' = got
          BY <2>2, <4>1, <4>4, NothingTaken
        <5>2. UpTo(wcnt + 1) = UpTo(wcnt)
          BY <2>1, <4>4, CamWords
        <5> QED
          BY <1>2, <1>3, <4>2, <5>1, <5>2 DEF CamTaken, EndsWith
      <4> QED
        BY <4>3, <4>4
    <3>4. CASE ~WordGone(word) /\ ~(word.st = 5 /\ word.byte = 3 /\ word.cnt = Bits)
      <4>1. ~WordGone(word') /\ ~WordTaken(word, frame)
        BY <2>2, <2>4, <3>4 DEF WordTaken
      <4>2. got' = got
        BY <2>2, <4>1, NothingTaken
      <4>3. Taken' = Taken
        BY <2>4, <3>1, <3>4, <4>1 DEF Taken
      <4> QED
        BY <1>2, <1>3, <4>2, <4>3 DEF CamTaken, EndsWith
    <3> QED
      BY <3>2, <3>3, <3>4
  <2>5. CASE st = 34 /\ st' = 35
    <3>1. word.st = 30 /\ wcnt' = wcnt + 1
      BY <2>5, CamCounts, CamOrder
    <3>2. WordGone(word) /\ ~WordTaken(word, frame)
      BY <3>1 DEF WordGone, WordTaken
    <3>3. got' = got
      BY <2>2, <3>2, NothingTaken
    <3>4. Taken' = Taken
      BY <2>5, <3>1, <3>2 DEF Taken
    <3> QED
      BY <1>2, <1>3, <3>3, <3>4 DEF CamTaken, EndsWith
  <2> QED
    BY <1>7, <2>3, <2>4, <2>5, CamOrder
<1> QED
  <2>1. st \in (0 .. 10) \cup {28} => st' \in (0 .. 10) \cup {28, 30}
    BY CamOrder
  <2> QED
    BY <1>1, <1>4, <1>6, <1>7, <2>1

-----------------------------------------------------------------------------
(* The table at the camera, in every step.                                  *)

CamBus == CamLines /\ CamHears /\ CamTaken

\* At first nothing has been sent and no line is pulled.
LEMMA CamBusStarts == ASSUME Init PROVE CamBus
<1>1. /\ ~resetN /\ st = 0 /\ wcnt = 0 /\ ~release /\ got = <<>>
      /\ word = Off /\ ptr = Off /\ rd = Off
  BY DEF Init
<1>2. Off.st = 0 /\ High(Off)
  BY DEF Off, High
<1>3. CamLines
  <2>1. ASSUME NEW e, e.st = 0, High(e)
        PROVE  WordLines(e) /\ PointerLines(e) /\ ReadLines(e)
    BY <2>1 DEF WordLines, PointerLines, ReadLines, BitLines
  <2> QED
    BY <1>1, <1>2, <2>1 DEF CamLines
<1>4. CamHears
  BY <1>1 DEF CamHears
<1>5. Taken = 0
  BY <1>1, CamWords DEF Taken
<1>6. EndsWith(got, 0)
  BY <1>1 DEF EndsWith
<1>7. CamTaken
  BY <1>1, <1>5, <1>6 DEF CamTaken
<1> QED
  BY <1>3, <1>4, <1>7 DEF CamBus

\* While RESET_N is low the sequencer stands at its start.
LEMMA NothingDue ==
    ASSUME CamInv, ~resetN
    PROVE  st = 0 /\ Taken = 0
<1>1. st = 0 /\ wcnt = 0
  BY DEF CamInv, OneAtWork, TableCounts
<1> QED
  BY <1>1, CamWords DEF Taken

\* A clock while RESET_N is low.
LEMMA CamBusWaits ==
    ASSUME CamInv, CamInv', CamSane', CamBus, Clock, ~resetN
    PROVE  CamBus'
<1>1. ~resetN' /\ release' = release /\ ~release
  BY DEF Clock, seqVars, CamBus, CamTaken
<1>2. CamLines'
  BY CamLinesMove DEF CamBus, Clock
<1>3. CamHears'
  BY <1>1 DEF CamHears
<1>4. Taken' = 0
  <2>1. st' = 0 /\ wcnt' = 0
    BY <1>1 DEF CamInv, OneAtWork, TableCounts
  <2> QED
    BY <2>1, CamWords DEF Taken
<1>5. PICK g : g = got'
  OBVIOUS
<1>6. EndsWith(g, 0)
  BY <1>5, EndsWithNone DEF CamSane
<1>7. EndsWith(got, Taken)'
  BY <1>4, <1>5, <1>6 DEF EndsWith
<1> QED
  BY <1>1, <1>2, <1>3, <1>7 DEF CamBus, CamTaken

\* RESET_N falls, and rises.
LEMMA CamBusResets ==
    ASSUME CamInv, CamInv', CamSane', CamBus, Reset \/ Run
    PROVE  CamBus'
<1>1. /\ word' = word /\ ptr' = ptr /\ rd' = rd /\ ~release'
      /\ st' = 0 /\ wcnt' = 0
  <2>1. CASE Reset
    BY <2>1 DEF Reset
  <2>2. CASE Run
    <3>1. st = 0 /\ wcnt = 0 /\ ~release
      BY <2>2 DEF Run, CamBus, CamTaken, CamInv, OneAtWork, TableCounts
    <3> QED
      BY <2>2, <3>1 DEF Run, seqVars
  <2> QED
    BY <2>1, <2>2
<1>2. CamLines'
  BY <1>1 DEF CamBus, CamLines, WordLines, PointerLines, ReadLines
<1>3. CamHears'
  BY <1>1 DEF CamHears
<1>4. Taken' = 0
  BY <1>1, CamWords DEF Taken
<1>5. PICK g : g = got'
  OBVIOUS
<1>6. EndsWith(g, 0)
  BY <1>5, EndsWithNone DEF CamSane
<1>7. EndsWith(got, Taken)'
  BY <1>4, <1>5, <1>6 DEF EndsWith
<1> QED
  BY <1>1, <1>2, <1>3, <1>7 DEF CamBus, CamTaken

\* The wires and the camera, step by step.
LEMMA CamBusMoves ==
    ASSUME CamInv, CamInv', CamSane, CamSane', CamBus, [Next]_vars
    PROVE  CamBus'
<1>1. CamLines /\ CamHears /\ CamTaken
  BY DEF CamBus
<1>2. CASE Clock /\ resetN
  <2>1. CamLines'
    BY <1>1, <1>2, CamLinesMove DEF Clock
  <2> QED
    BY <1>1, <1>2, <2>1, CamHearsMoves, CamTakenMoves DEF CamBus
<1>3. CASE Clock /\ ~resetN
  BY <1>3, CamBusWaits
<1>4. CASE Reset \/ Run
  BY <1>4, CamBusResets
<1>5. CASE Wakes \/ UNCHANGED vars
  <2>1. /\ resetN' = resetN /\ st' = st /\ wcnt' = wcnt /\ release' = release /\ frame' = frame
        /\ word' = word /\ ptr' = ptr /\ rd' = rd /\ cam' = cam /\ got' = got
        /\ awake > 0 => awake' > 0
    BY <1>5 DEF Wakes, vars, seqVars, CamSane
  <2>2. CamLines'
    BY <1>1, <2>1 DEF CamLines, WordLines, PointerLines, ReadLines
  <2>3. CamHears'
    BY <1>1, <2>1 DEF CamHears
  <2>4. CamTaken'
    <3>1. Taken' = Taken
      BY <2>1 DEF Taken
    <3> QED
      BY <1>1, <2>1, <3>1 DEF CamTaken, EndsWith
  <2> QED
    BY <2>2, <2>3, <2>4 DEF CamBus
<1> QED
  BY <1>2, <1>3, <1>4, <1>5 DEF Next

\* A sequence that ends with as many words as it is long is the words.
LEMMA EndsWithAll ==
    ASSUME NEW g \in Seq(CamTakes4), Len(g) <= Len(Words), EndsWith(g, Len(Words))
    PROVE  g = Words
<1>1. PICK L \in Nat : L = Len(Words)
  BY CamWords
<1>2. Len(g) = L /\ L - L = 0
  BY <1>1 DEF EndsWith
<1>3. \A k \in 1 .. L : g[k] = Words[k]
  <2>1. ASSUME NEW k \in 1 .. L PROVE g[k] = Words[k]
    <3>1. (Len(g) - L) + k = k
      BY <1>2
    <3>2. g[(Len(g) - L) + k] = Words[k]
      BY <1>1 DEF EndsWith
    <3> QED
      BY <3>1, <3>2
  <2> QED
    BY <2>1
<1>4. Words \in Seq(Byte \X Byte \X Byte \X Byte)
  BY CamWords
<1> QED
  BY <1>1, <1>2, <1>3, <1>4

\* What TableSent says, of the states the invariants allow.
LEMMA CamSent ==
    ASSUME CamInv, CamSane, CamBus
    PROVE  TableSent
<1>1. WordIsCurrent
  BY DEF CamInv, TableCounts, WordIsCurrent
<1>2. ASSUME release PROVE got = Words
  <2>1. st = 35 /\ wcnt = Len(Table) /\ EndsWith(got, Taken)
    BY <1>2 DEF CamBus, CamTaken
  <2>2. Taken = Len(Words)
    BY <2>1, CamWords DEF Taken
  <2> QED
    BY <2>1, <2>2, EndsWithAll DEF CamSane
<1>3. ASSUME release
      PROVE  /\ ~Busy(word) /\ ~Busy(ptr) /\ ~Busy(rd)
             /\ Scl = 1 /\ Sda = 1 /\ cam.out = 1 /\ cam.mode = "idle"
  <2>1. resetN /\ st = 35
    BY <1>3 DEF CamBus, CamTaken
  <2>2. word.st = 30 /\ ptr.st = 10 /\ rd.st = 30
    BY <2>1 DEF CamInv, OneAtWork
  <2>3. ~Busy(word) /\ ~Busy(ptr) /\ ~Busy(rd)
    BY <2>2 DEF CamInv, CamShapes, WordShape, PointerShape, ReadShape, Busy
  <2>4. High(word) /\ High(ptr) /\ High(rd)
    BY <2>2 DEF CamBus, CamLines, WordLines, PointerLines, ReadLines
  <2>5. Scl = 1 /\ Sda = 1
    BY <2>1, <2>4 DEF High, Scl, Sda
  <2>6. cam.mode = "idle"
    BY <2>1 DEF CamBus, CamHears
  <2>7. cam.out = 1
    BY <2>6 DEF CamSane, Sane
  <2> QED
    BY <2>3, <2>5, <2>6, <2>7
<1> QED
  BY <1>1, <1>2, <1>3 DEF TableSent, ReleasedMeansConfigured, ReleasedMeansQuiet

\* When the camera's configuration is released, the camera has taken every
\* word of the table, in order and with nothing after them, whatever a reset
\* has cut short before, and both wires are let go (MIPI_CAMERA_CONFIG.v:154-187).
THEOREM CameraTableSent == SafeSpec => []TableSent
<1>1. Init => CamBus
  BY CamBusStarts
<1>2. /\ CamInv /\ CamInv' /\ CamSane /\ CamSane' /\ CamBus /\ [Next]_vars
      => CamBus'
  BY CamBusMoves
<1>3. CamInv /\ CamSane /\ CamBus => TableSent
  BY CamSent
<1> QED
  BY <1>1, <1>2, <1>3, CameraInvariant, CameraSane, PTL DEF SafeSpec
=============================================================================
