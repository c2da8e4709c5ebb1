------------------------------ MODULE I2cSlave ------------------------------
(***************************************************************************)
(* An I2C slave with pointed-at registers, as the configuration sequencers *)
(* take the camera to be: a record that changes with every edge of the two *)
(* lines.  n counts the rises of SCL within a frame of Bits data bits and  *)
(* one acknowledge bit, byte the frames since the START condition.         *)
(***************************************************************************)
EXTENDS Integers, Sequences

CONSTANTS Bits, Address

Silent == [mode |-> "idle", n |-> 0, byte |-> 0, sh |-> 0, out |-> 1, ptr |-> <<0, 0>>]

\* START resets whatever the slave was doing, STOP ends it.
Started(c) == [c EXCEPT !.mode = "recv", !.n = 0, !.byte = 0, !.sh = 0, !.out = 1]
Stopped(c) == [c EXCEPT !.mode = "idle", !.n = 0, !.byte = 0, !.sh = 0, !.out = 1]

\* SCL rises: a data bit is sampled, or the master's acknowledgement.
Rise(c, sda) ==
    CASE c.mode = "idle" -> c
      [] c.mode = "recv" -> [c EXCEPT !.n = @ + 1, !.sh = IF c.n < Bits THEN 2 * @ + sda ELSE @]
      [] c.mode = "send" -> IF c.n = Bits /\ sda = 1 THEN Stopped(c) ELSE [c EXCEPT !.n = @ + 1]

\* A byte has been received: what it means depends on its place.
Acknowledge(c) == [c EXCEPT !.out = 0]

Received(c, answers) ==
    CASE c.byte = 0 -> IF answers /\ c.sh \in {Address, Address + 1} THEN Acknowledge(c) ELSE Stopped(c)
      [] c.byte = 1 -> Acknowledge([c EXCEPT !.ptr[1] = c.sh])
      [] c.byte = 2 -> Acknowledge([c EXCEPT !.ptr[2] = c.sh])
      [] c.byte > 2 -> Acknowledge(c)

BitOf(value, i) == (value \div 2 ^ (Bits - 1 - i)) % 2

\* The next frame: the slave sends if it was addressed for reading.
NextFrame(c, value) ==
    IF c.mode = "send" \/ (c.byte = 0 /\ c.sh = Address + 1)
    THEN [c EXCEPT !.mode = "send", !.n = 0, !.byte = 1, !.out = BitOf(value, 0)]
    ELSE [c EXCEPT !.n = 0, !.sh = 0, !.out = 1, !.byte = IF @ < 3 THEN @ + 1 ELSE 3]

\* SCL falls: the slave changes what it drives.
Fall(c, answers, value) ==
    IF c.mode = "idle" THEN c
    ELSE IF c.n = Bits + 1 THEN NextFrame(c, value)
    ELSE IF c.mode = "send" THEN [c EXCEPT !.out = IF c.n < Bits THEN BitOf(value, c.n) ELSE 1]
    ELSE IF c.n = Bits THEN Received(c, answers)
    ELSE c

\* One line changes while the other is steady: SDA while SCL is high is a
\* START or a STOP unless the slave itself holds SDA low.
SclEdge(c, scl, sda, answers, value) ==
    IF scl = 1 THEN Rise(c, IF c.out = 0 THEN 0 ELSE sda) ELSE Fall(c, answers, value)

SdaEdge(c, scl, sda) ==
    IF scl = 0 \/ c.out = 0 THEN c ELSE IF sda = 0 THEN Started(c) ELSE Stopped(c)

\* The lines go from <<scl0, sda0>> to <<scl1, sda1>>; when both change the
\* slave may see either first.
Seen(c, scl0, sda0, scl1, sda1, answers, value) ==
    IF scl0 = scl1 /\ sda0 = sda1 THEN {c}
    ELSE IF scl0 = scl1 THEN {SdaEdge(c, scl1, sda1)}
    ELSE IF sda0 = sda1 THEN {SclEdge(c, scl1, sda1, answers, value)}
    ELSE {SdaEdge(SclEdge(c, scl1, sda0, answers, value), scl1, sda1),
          SclEdge(SdaEdge(c, scl0, sda1), scl1, sda1, answers, value)}

\* A register is written when the byte after the pointer is complete.
Wrote(c, d) == c.mode = "recv" /\ c.byte = 3 /\ c.out = 1 /\ d.out = 0
=============================================================================
