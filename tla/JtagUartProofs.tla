---------------------------- MODULE JtagUartProofs ----------------------------
(***************************************************************************)
(* For rings, FIFOs and thresholds of every size: neither side of the JTAG *)
(* UART driver falls asleep with work to do, the interrupt routine never   *)
(* overruns the device, and each direction is a bounded pipe: every byte   *)
(* comes out once and in order.                                            *)
(*                                                                         *)
(* The driver turns an interrupt off when a look at the device and a look  *)
(* at its ring, taken at different times, suggest that there is nothing to *)
(* do.  The first inductive invariant, IInv, says what each look is still  *)
(* worth when the decision falls.  The second, PipeInv, joins the ring,    *)
(* the byte the routine holds and the FIFO of a direction into one         *)
(* sequence, and says that this sequence is what the far end is due.       *)
(***************************************************************************)
EXTENDS JtagUart, TLAPS, SequenceTheorems

\* It does not matter which of three sequences are joined first.
LEMMA Reassociate ==
  ASSUME NEW s \in Seq(Byte), NEW t \in Seq(Byte), NEW r \in Seq(Byte)
  PROVE  (s \o t) \o r = s \o (t \o r)
BY SMT

\* What is dropped in front does not depend on what follows.
LEMMA DropConcat ==
  ASSUME NEW S, NEW s \in Seq(S), NEW t \in Seq(S), NEW k \in 0 .. Len(s)
  PROVE  SubSeq(s \o t, k + 1, Len(s \o t)) = SubSeq(s, k + 1, Len(s)) \o t
<1> DEFINE f == SubSeq(s \o t, k + 1, Len(s \o t))
           d == SubSeq(s, k + 1, Len(s))
           g == d \o t
<1>1. /\ s \o t \in Seq(S) /\ Len(s \o t) = Len(s) + Len(t) /\ Len(s) \in Nat /\ Len(t) \in Nat
      /\ \A i \in 1 .. Len(s) + Len(t) :
           (s \o t)[i] = IF i <= Len(s) THEN s[i] ELSE t[i - Len(s)]
  BY ConcatProperties, LenProperties
<1>2. /\ \A i \in k + 1 .. Len(s) : s[i] \in S
      /\ \A i \in k + 1 .. Len(s \o t) : (s \o t)[i] \in S
      /\ k \in Nat /\ k + 1 \in Int /\ Len(s) \in Int /\ Len(s \o t) \in Int
  <2>1. \A i \in 1 .. Len(s) : s[i] \in S
    BY ElementOfSeq
  <2>2. \A i \in 1 .. Len(s \o t) : (s \o t)[i] \in S
    BY <1>1, ElementOfSeq
  <2> QED
    BY <1>1, <2>1, <2>2
<1>3. /\ d \in Seq(S) /\ Len(d) = Len(s) - k
      /\ \A i \in 1 .. Len(s) - k : d[i] = s[k + i]
  <2>1. /\ SubSeq(s, k + 1, Len(s)) \in Seq(S)
        /\ Len(SubSeq(s, k + 1, Len(s)))
              = (IF k + 1 <= Len(s) THEN Len(s) - (k + 1) + 1 ELSE 0)
        /\ \A i \in 1 .. Len(s) - (k + 1) + 1 : SubSeq(s, k + 1, Len(s))[i] = s[(k + 1) + i - 1]
    BY <1>2, SubSeqProperties
  <2> QED
    BY <1>1, <2>1
<1>4. /\ f \in Seq(S) /\ Len(f) = (Len(s) + Len(t)) - k
      /\ \A i \in 1 .. (Len(s) + Len(t)) - k : f[i] = (s \o t)[k + i]
  <2> DEFINE r == s \o t
  <2>0. /\ \A i \in k + 1 .. Len(r) : r[i] \in S
        /\ Len(r) = Len(s) + Len(t) /\ Len(r) \in Int
    BY <1>1, <1>2
  <2>f. f = SubSeq(r, k + 1, Len(r))
    OBVIOUS
  <2> HIDE DEF r, f
  <2>1. /\ SubSeq(r, k + 1, Len(r)) \in Seq(S)
        /\ Len(SubSeq(r, k + 1, Len(r))) = (IF k + 1 <= Len(r) THEN Len(r) - (k + 1) + 1 ELSE 0)
        /\ \A i \in 1 .. Len(r) - (k + 1) + 1 : SubSeq(r, k + 1, Len(r))[i] = r[(k + 1) + i - 1]
    BY <1>2, <2>0, SubSeqProperties
  <2>2. /\ f \in Seq(S) /\ Len(f) = (Len(s) + Len(t)) - k
        /\ \A i \in 1 .. (Len(s) + Len(t)) - k : f[i] = r[k + i]
    BY <1>1, <2>0, <2>1, <2>f
  <2> QED
    BY <2>2 DEF r
<1> HIDE DEF f, d
<1>5. /\ g \in Seq(S) /\ Len(g) = (Len(s) - k) + Len(t)
      /\ \A i \in 1 .. (Len(s) - k) + Len(t) :
           g[i] = IF i <= Len(s) - k THEN d[i] ELSE t[i - (Len(s) - k)]
  <2>1. /\ d \o t \in Seq(S) /\ Len(d \o t) = Len(d) + Len(t)
        /\ \A i \in 1 .. Len(d) + Len(t) :
             (d \o t)[i] = IF i <= Len(d) THEN d[i] ELSE t[i - Len(d)]
    BY <1>3, ConcatProperties
  <2>2. Len(d) = Len(s) - k
    BY <1>3
  <2> QED
    BY <2>1, <2>2, Zenon
<1> HIDE DEF g
<1>6. ASSUME NEW i \in 1 .. (Len(s) + Len(t)) - k PROVE f[i] = g[i]
  <2>0. /\ i \in Int /\ k + i \in 1 .. Len(s) + Len(t) /\ i \in 1 .. (Len(s) - k) + Len(t)
        /\ i <= Len(s) - k \/ i > Len(s) - k
    BY <1>1
  <2>1. CASE i <= Len(s) - k
    <3>1. i \in 1 .. Len(s) - k /\ k + i <= Len(s)
      BY <1>1, <2>1
    <3>2. f[i] = s[k + i]
      BY <1>1, <1>4, <2>0, <3>1, Zenon
    <3>3. g[i] = s[k + i]
      BY <1>3, <1>5, <2>0, <3>1, <2>1, Zenon
    <3> QED
      BY <3>2, <3>3
  <2>2. CASE i > Len(s) - k
    <3>1. ~(k + i <= Len(s)) /\ ~(i <= Len(s) - k) /\ (k + i) - Len(s) = i - (Len(s) - k)
      BY <1>1, <2>2
    <3>2. f[i] = t[(k + i) - Len(s)]
      BY <1>1, <1>4, <2>0, <3>1, Zenon
    <3>3. g[i] = t[i - (Len(s) - k)]
      BY <1>5, <2>0, <3>1, Zenon
    <3> QED
      BY <3>1, <3>2, <3>3, Zenon
  <2> QED
    BY <2>0, <2>1, <2>2, Zenon
<1>7. Len(f) = Len(g) /\ \A i \in 1 .. Len(f) : f[i] = g[i]
  BY <1>1, <1>4, <1>5, <1>6
<1>8. f = g
  BY <1>4, <1>5, <1>7, SeqEqual
<1> QED
  BY <1>8 DEF f, g, d

USE DriverAssumption, DeviceAssumption

\* Indices stay inside the rings, and the device keeps the room that was seen.
Shape ==
  /\ rxIn \in Index /\ rxOut \in Index /\ txIn \in Index /\ txOut \in Index
  /\ out \in Index /\ in \in Index /\ n \in Int /\ left \in Int
  /\ Len(wfifo) <= Fifo /\ isrSpace \in Nat /\ isrSpace <= Fifo - Len(wfifo)

\* What moves is bytes.
Bytes ==
  /\ rfifo \in Seq(Byte) /\ wfifo \in Seq(Byte)
  /\ sent \in Byte /\ written \in Byte /\ txBuf \in [Index -> Byte]

\* The driver's idea of the enables is right, also while it is changing them.
Enables ==
  /\ irqEnable = ien
  /\ pc \in {"writeEnable", "readEnable"} => masked /\ irqCopy = irqEnable /\ isr = "out"

\* A pause is only remembered with something to read.
PauseHasData == pauseIrq => rfifo # <<>>

\* What the interrupt routine knows at each of its steps about the bytes it
\* was called for.
IsrKnows ==
  /\ isr = "receive" => rxIn # rxOut \/ rfifo # <<>>
  /\ isr = "take" => ~RxFull /\ (rvalid \/ rxIn # rxOut)
  /\ isr = "received" => rxIn # rxOut

\* What read() knows: it is going to look again or to kick.
ReadKnows ==
  /\ pc \in {"readLook", "readCopy", "readPublish", "readKick", "readEnable", "readWait"} => op = "read"
  /\ pc \in {"writeLook", "writeCopy", "writePublish", "writeKick", "writeEnable", "writeWait", "writeQuiet"} => op = "write"
  /\ pc \in {"readPublish", "readKick", "readEnable"} => some
  /\ pc \in {"readCopy", "readPublish"} => rxIn # rxOut

Sending == pc \in {"writeLook", "writeCopy", "writePublish", "writeKick", "writeEnable"}
Reading == some /\ pc \in {"readLook", "readKick", "readEnable"}

TxAwake == txIn # txOut => "WE" \in ien \/ Sending
RxAwake == "RE" \notin ien => rxIn # rxOut \/ Reading

IInv == Shape /\ Bytes /\ Enables /\ PauseHasData /\ IsrKnows /\ ReadKnows /\ TxAwake /\ RxAwake

------------------------------------------------------------------------------
\* Round the ring: what % does to an index and a chunk.
LEMMA ModSmall ==
  ASSUME NEW x \in Nat, NEW m \in Nat, x < m
  PROVE  x % m = x
BY SMT

\* ... and to its length.
LEMMA ModSelf ==
  ASSUME NEW m \in Nat, m > 0
  PROVE  m % m = 0
BY SMT

\* An index moved on is an index.
LEMMA AdvanceType ==
  ASSUME NEW i \in Int, NEW k \in Int
  PROVE  Advance(i, k) \in Index
BY SMT DEF Advance, Index

\* A byte counted on is a byte.
LEMMA NumberType ==
  ASSUME NEW b \in Byte, NEW k \in Int
  PROVE  Number(b, k) \in Byte
BY SMT DEF Number

\* The next slot is another one.
LEMMA AdvanceOne ==
  ASSUME NEW i \in Index
  PROVE  Advance(i, 1) # i
<1>1. CASE i + 1 < BufLen
  BY <1>1, ModSmall DEF Advance, Index
<1>2. CASE i + 1 = BufLen
  BY <1>2, ModSelf DEF Advance, Index
<1> QED
  BY <1>1, <1>2 DEF Index

\* A ring is empty exactly when its indices meet.
LEMMA UsedNone ==
  ASSUME NEW a \in Index, NEW b \in Index
  PROVE  Used(a, b) > 0 <=> a # b
BY DEF Used, Index

------------------------------------------------------------------------------
\* The rings start empty, with the receive interrupt alone enabled.
LEMMA Initially == Init => IInv
BY SMT DEF Init, IInv, Shape, Bytes, Enables, PauseHasData, IsrKnows, ReadKnows, TxAwake, RxAwake,
       Sending, Reading, Index, WSpace

\* The variables of each group stay what they are.
LEMMA Untouched ==
  ASSUME IInv, UNCHANGED vars
  PROVE  IInv'
BY DEF IInv, Shape, Bytes, Enables, PauseHasData, IsrKnows, ReadKnows, TxAwake, RxAwake,
       Sending, Reading, Index, WSpace, RxFull, Advance, vars, deviceVars, ringVars, hostVars,
       callVars, isrVars, endVars

\* write() at each of its steps.
LEMMA WriteSteps ==
  ASSUME IInv, WriteLook \/ WriteCopy \/ WritePublish \/ WriteEnable \/ WriteWait \/ WriteQuiet
  PROVE  IInv'
<1> USE DEF IInv, deviceVars, ringVars, hostVars, callVars, isrVars, endVars, driverVars, At, Return
<1>1. CASE WriteLook
  <2>1. Shape'
    <3>1. in' \in Index /\ out' \in Index /\ n' \in Int /\ left' \in Int
      BY <1>1, SMT DEF Shape, Index, WriteLook, TxSpace, SmallerOf
    <3> QED
      BY <1>1, <3>1, SMT DEF Shape, WriteLook, TxSpace, SmallerOf
  <2>2. Bytes'
    BY <1>1, NumberType, SMT DEF Bytes, Shape, WriteLook, TxSpace, SmallerOf
  <2>3. Enables'
    BY <1>1, SMT DEF Enables, WriteLook, TxSpace, SmallerOf
  <2>4. PauseHasData'
    BY <1>1, SMT DEF PauseHasData, WriteLook, TxSpace, SmallerOf
  <2>5. IsrKnows'
    BY <1>1, AdvanceOne, SMT DEF IsrKnows, PauseHasData, Shape, RxFull, WriteLook, TxSpace, SmallerOf
  <2>6. ReadKnows'
    BY <1>1, SMT DEF ReadKnows, IsrKnows, RxFull, WriteLook, TxSpace, SmallerOf
  <2>7. TxAwake'
    BY <1>1, SMT DEF TxAwake, Sending, Enables, WriteLook, TxSpace, SmallerOf
  <2>8. RxAwake'
    BY <1>1, SMT DEF RxAwake, Reading, IsrKnows, ReadKnows, Enables, RxFull, WriteLook, TxSpace, SmallerOf
  <2> QED
    BY <2>1, <2>2, <2>3, <2>4, <2>5, <2>6, <2>7, <2>8
<1>2. CASE WriteCopy
  <2>1. Shape'
    BY <1>2, AdvanceType, SMT DEF Shape, Index, WriteCopy
  <2>2. Bytes'
    <3>1. \A i \in Index : Number(written, i - in) \in Byte
      <4> TAKE i \in Index
      <4>1. i - in \in Int /\ written \in Byte
        BY SMT DEF Bytes, Shape, Index
      <4> QED
        BY <4>1, NumberType
    <3>2. txBuf' \in [Index -> Byte]
      BY <1>2, <3>1, SMT DEF Bytes, WriteCopy
    <3> QED
      BY <1>2, <3>2, SMT DEF Bytes, WriteCopy
  <2>3. Enables'
    BY <1>2, SMT DEF Enables, WriteCopy
  <2>4. PauseHasData'
    BY <1>2, SMT DEF PauseHasData, WriteCopy
  <2>5. IsrKnows'
    BY <1>2, AdvanceOne, SMT DEF IsrKnows, PauseHasData, Shape, RxFull, WriteCopy
  <2>6. ReadKnows'
    BY <1>2, SMT DEF ReadKnows, IsrKnows, RxFull, WriteCopy
  <2>7. TxAwake'
    BY <1>2, SMT DEF TxAwake, Sending, Enables, WriteCopy
  <2>8. RxAwake'
    BY <1>2, SMT DEF RxAwake, Reading, IsrKnows, ReadKnows, Enables, RxFull, WriteCopy
  <2> QED
    BY <2>1, <2>2, <2>3, <2>4, <2>5, <2>6, <2>7, <2>8
<1>3. CASE WritePublish
  <2>1. Shape'
    BY <1>3, AdvanceType, SMT DEF Shape, Index, WritePublish
  <2>2. Bytes'
    BY <1>3, NumberType, SMT DEF Bytes, Shape, WritePublish
  <2>3. Enables'
    BY <1>3, SMT DEF Enables, WritePublish
  <2>4. PauseHasData'
    BY <1>3, SMT DEF PauseHasData, WritePublish
  <2>5. IsrKnows'
    BY <1>3, AdvanceOne, SMT DEF IsrKnows, PauseHasData, Shape, RxFull, WritePublish
  <2>6. ReadKnows'
    BY <1>3, SMT DEF ReadKnows, IsrKnows, RxFull, WritePublish
  <2>7. TxAwake'
    BY <1>3, SMT DEF TxAwake, Sending, Enables, WritePublish
  <2>8. RxAwake'
    BY <1>3, SMT DEF RxAwake, Reading, IsrKnows, ReadKnows, Enables, RxFull, WritePublish
  <2> QED
    BY <2>1, <2>2, <2>3, <2>4, <2>5, <2>6, <2>7, <2>8
<1>4. CASE WriteEnable
  <2>1. Shape'
    <3>1. in' \in Index /\ out' \in Index /\ n' \in Int /\ left' \in Int
      BY <1>4, SMT DEF Shape, Index, WriteEnable
    <3> QED
      BY <1>4, <3>1, SMT DEF Shape, WriteEnable
  <2>2. Bytes'
    BY <1>4, NumberType, SMT DEF Bytes, Shape, WriteEnable
  <2>3. Enables'
    BY <1>4, SMT DEF Enables, WriteEnable
  <2>4. PauseHasData'
    BY <1>4, SMT DEF PauseHasData, WriteEnable
  <2>5. IsrKnows'
    BY <1>4, AdvanceOne, SMT DEF IsrKnows, PauseHasData, Shape, RxFull, WriteEnable
  <2>6. ReadKnows'
    BY <1>4, SMT DEF ReadKnows, IsrKnows, RxFull, WriteEnable
  <2>7. TxAwake'
    BY <1>4, SMT DEF TxAwake, Sending, Enables, WriteEnable
  <2>8. RxAwake'
    BY <1>4, SMT DEF RxAwake, Reading, IsrKnows, ReadKnows, Enables, RxFull, WriteEnable
  <2> QED
    BY <2>1, <2>2, <2>3, <2>4, <2>5, <2>6, <2>7, <2>8
<1>5. CASE WriteWait
  <2>1. Shape'
    BY <1>5, AdvanceType, SMT DEF Shape, Index, WriteWait
  <2>2. Bytes'
    BY <1>5, NumberType, SMT DEF Bytes, Shape, WriteWait
  <2>3. Enables'
    BY <1>5, SMT DEF Enables, WriteWait
  <2>4. PauseHasData'
    BY <1>5, SMT DEF PauseHasData, WriteWait
  <2>5. IsrKnows'
    BY <1>5, AdvanceOne, SMT DEF IsrKnows, PauseHasData, Shape, RxFull, WriteWait
  <2>6. ReadKnows'
    BY <1>5, SMT DEF ReadKnows, IsrKnows, RxFull, WriteWait
  <2>7. TxAwake'
    BY <1>5, SMT DEF TxAwake, Sending, Enables, WriteWait
  <2>8. RxAwake'
    BY <1>5, SMT DEF RxAwake, Reading, IsrKnows, ReadKnows, Enables, RxFull, WriteWait
  <2> QED
    BY <2>1, <2>2, <2>3, <2>4, <2>5, <2>6, <2>7, <2>8
<1>6. CASE WriteQuiet
  <2>1. Shape'
    <3>1. in' \in Index /\ out' \in Index /\ n' \in Int /\ left' \in Int
      BY <1>6, SMT DEF Shape, Index, WriteQuiet
    <3> QED
      BY <1>6, <3>1, SMT DEF Shape, WriteQuiet
  <2>2. Bytes'
    BY <1>6, NumberType, SMT DEF Bytes, Shape, WriteQuiet
  <2>3. Enables'
    BY <1>6, SMT DEF Enables, WriteQuiet
  <2>4. PauseHasData'
    BY <1>6, SMT DEF PauseHasData, WriteQuiet
  <2>5. IsrKnows'
    BY <1>6, AdvanceOne, SMT DEF IsrKnows, PauseHasData, Shape, RxFull, WriteQuiet
  <2>6. ReadKnows'
    BY <1>6, SMT DEF ReadKnows, IsrKnows, RxFull, WriteQuiet
  <2>7. TxAwake'
    BY <1>6, SMT DEF TxAwake, Sending, Enables, WriteQuiet
  <2>8. RxAwake'
    BY <1>6, SMT DEF RxAwake, Reading, IsrKnows, ReadKnows, Enables, RxFull, WriteQuiet
  <2> QED
    BY <2>1, <2>2, <2>3, <2>4, <2>5, <2>6, <2>7, <2>8
<1> QED
  BY <1>1, <1>2, <1>3, <1>4, <1>5, <1>6

\* read() at each of its steps.
LEMMA ReadSteps ==
  ASSUME IInv, ReadLook \/ ReadCopy \/ ReadPublish \/ ReadWait \/ ReadEnable
  PROVE  IInv'
<1> USE DEF IInv, deviceVars, ringVars, hostVars, callVars, isrVars, endVars, driverVars, At, Return
<1>1. CASE ReadLook
  <2>1. Shape'
    <3>1. in' \in Index /\ out' \in Index /\ n' \in Int /\ left' \in Int
      BY <1>1, SMT DEF Shape, Index, ReadLook, RxBytes, SmallerOf
    <3> QED
      BY <1>1, <3>1, SMT DEF Shape, ReadLook, RxBytes, SmallerOf
  <2>2. Bytes'
    BY <1>1, NumberType, SMT DEF Bytes, Shape, ReadLook, RxBytes, SmallerOf
  <2>3. Enables'
    BY <1>1, SMT DEF Enables, ReadLook, RxBytes, SmallerOf
  <2>4. PauseHasData'
    BY <1>1, SMT DEF PauseHasData, ReadLook, RxBytes, SmallerOf
  <2>5. IsrKnows'
    BY <1>1, AdvanceOne, SMT DEF IsrKnows, PauseHasData, Shape, RxFull, ReadLook, RxBytes, SmallerOf
  <2>6. ReadKnows'
    <3>1. pc' = "readCopy" => rxIn # rxOut
      BY <1>1, SMT DEF Shape, Index, ReadLook, RxBytes, SmallerOf
    <3> QED
      BY <1>1, <3>1, SMT DEF ReadKnows, ReadLook
  <2>7. TxAwake'
    BY <1>1, SMT DEF TxAwake, Sending, Enables, ReadLook, RxBytes, SmallerOf
  <2>8. RxAwake'
    <3>1. pc' = "readCopy" => rxIn # rxOut
      BY <1>1, SMT DEF Shape, Index, ReadLook, RxBytes, SmallerOf
    <3> QED
      BY <1>1, <3>1, SMT DEF RxAwake, Reading, ReadLook
  <2> QED
    BY <2>1, <2>2, <2>3, <2>4, <2>5, <2>6, <2>7, <2>8
<1>2. CASE ReadCopy
  <2>1. Shape'
    BY <1>2, AdvanceType, SMT DEF Shape, Index, ReadCopy
  <2>2. Bytes'
    BY <1>2, NumberType, SMT DEF Bytes, Shape, ReadCopy
  <2>3. Enables'
    BY <1>2, SMT DEF Enables, ReadCopy
  <2>4. PauseHasData'
    BY <1>2, SMT DEF PauseHasData, ReadCopy
  <2>5. IsrKnows'
    BY <1>2, AdvanceOne, SMT DEF IsrKnows, PauseHasData, Shape, RxFull, ReadCopy
  <2>6. ReadKnows'
    BY <1>2, SMT DEF ReadKnows, IsrKnows, RxFull, ReadCopy
  <2>7. TxAwake'
    BY <1>2, SMT DEF TxAwake, Sending, Enables, ReadCopy
  <2>8. RxAwake'
    BY <1>2, SMT DEF RxAwake, Reading, IsrKnows, ReadKnows, Enables, RxFull, ReadCopy
  <2> QED
    BY <2>1, <2>2, <2>3, <2>4, <2>5, <2>6, <2>7, <2>8
<1>3. CASE ReadPublish
  <2>1. Shape'
    BY <1>3, AdvanceType, SMT DEF Shape, Index, ReadPublish
  <2>2. Bytes'
    BY <1>3, NumberType, SMT DEF Bytes, Shape, ReadPublish
  <2>3. Enables'
    BY <1>3, SMT DEF Enables, ReadPublish
  <2>4. PauseHasData'
    BY <1>3, SMT DEF PauseHasData, ReadPublish
  <2>5. IsrKnows'
    BY <1>3, AdvanceOne, SMT DEF IsrKnows, PauseHasData, Shape, RxFull, ReadPublish
  <2>6. ReadKnows'
    BY <1>3, SMT DEF ReadKnows, IsrKnows, RxFull, ReadPublish
  <2>7. TxAwake'
    BY <1>3, SMT DEF TxAwake, Sending, Enables, ReadPublish
  <2>8. RxAwake'
    BY <1>3, SMT DEF RxAwake, Reading, IsrKnows, ReadKnows, Enables, RxFull, ReadPublish
  <2> QED
    BY <2>1, <2>2, <2>3, <2>4, <2>5, <2>6, <2>7, <2>8
<1>4. CASE ReadWait
  <2>1. Shape'
    <3>1. in' \in Index /\ out' \in Index /\ n' \in Int /\ left' \in Int
      BY <1>4, SMT DEF Shape, Index, ReadWait
    <3> QED
      BY <1>4, <3>1, SMT DEF Shape, ReadWait
  <2>2. Bytes'
    BY <1>4, NumberType, SMT DEF Bytes, Shape, ReadWait
  <2>3. Enables'
    BY <1>4, SMT DEF Enables, ReadWait
  <2>4. PauseHasData'
    BY <1>4, SMT DEF PauseHasData, ReadWait
  <2>5. IsrKnows'
    BY <1>4, AdvanceOne, SMT DEF IsrKnows, PauseHasData, Shape, RxFull, ReadWait
  <2>6. ReadKnows'
    BY <1>4, SMT DEF ReadKnows, IsrKnows, RxFull, ReadWait
  <2>7. TxAwake'
    BY <1>4, SMT DEF TxAwake, Sending, Enables, ReadWait
  <2>8. RxAwake'
    BY <1>4, SMT DEF RxAwake, Reading, IsrKnows, ReadKnows, Enables, RxFull, ReadWait
  <2> QED
    BY <2>1, <2>2, <2>3, <2>4, <2>5, <2>6, <2>7, <2>8
<1>5. CASE ReadEnable
  <2>1. Shape'
    BY <1>5, AdvanceType, SMT DEF Shape, Index, ReadEnable
  <2>2. Bytes'
    BY <1>5, NumberType, SMT DEF Bytes, Shape, ReadEnable
  <2>3. Enables'
    BY <1>5, SMT DEF Enables, ReadEnable
  <2>4. PauseHasData'
    BY <1>5, SMT DEF PauseHasData, ReadEnable
  <2>5. IsrKnows'
    BY <1>5, AdvanceOne, SMT DEF IsrKnows, PauseHasData, Shape, RxFull, ReadEnable
  <2>6. ReadKnows'
    BY <1>5, SMT DEF ReadKnows, IsrKnows, RxFull, ReadEnable
  <2>7. TxAwake'
    BY <1>5, SMT DEF TxAwake, Sending, Enables, ReadEnable
  <2>8. RxAwake'
    BY <1>5, SMT DEF RxAwake, Reading, IsrKnows, ReadKnows, Enables, RxFull, ReadEnable
  <2> QED
    BY <2>1, <2>2, <2>3, <2>4, <2>5, <2>6, <2>7, <2>8
<1> QED
  BY <1>1, <1>2, <1>3, <1>4, <1>5

\* Calls, the end of close(), and the masking that write() and read() share.
LEMMA CallSteps ==
  ASSUME IInv, (\E o \in Calls, k \in Counts, nb \in BOOLEAN : Call(o, k, nb)) \/ (\E t \in TimeoutArgs : SetTimeout(t)) \/ Drain \/ Mask
  PROVE  IInv'
<1> USE DEF IInv, deviceVars, ringVars, hostVars, callVars, isrVars, endVars, driverVars, At, Return
<1>1. ASSUME NEW o \in Calls, NEW k \in Counts, NEW nb \in BOOLEAN, Call(o, k, nb) PROVE IInv'
  <2>1. Shape'
    BY <1>1, AdvanceType, SMT DEF Shape, Index, Call
  <2>2. Bytes'
    BY <1>1, NumberType, SMT DEF Bytes, Shape, Call
  <2>3. Enables'
    BY <1>1, SMT DEF Enables, Call
  <2>4. PauseHasData'
    BY <1>1, SMT DEF PauseHasData, Call
  <2>5. IsrKnows'
    BY <1>1, AdvanceOne, SMT DEF IsrKnows, PauseHasData, Shape, RxFull, Call
  <2>6. ReadKnows'
    BY <1>1, SMT DEF ReadKnows, IsrKnows, RxFull, Call
  <2>7. TxAwake'
    BY <1>1, SMT DEF TxAwake, Sending, Enables, Call
  <2>8. RxAwake'
    BY <1>1, SMT DEF RxAwake, Reading, IsrKnows, ReadKnows, Enables, RxFull, Call
  <2> QED
    BY <2>1, <2>2, <2>3, <2>4, <2>5, <2>6, <2>7, <2>8
<1>2. ASSUME NEW t \in TimeoutArgs, SetTimeout(t) PROVE IInv'
  <2>1. Shape'
    BY <1>2, AdvanceType, SMT DEF Shape, Index, SetTimeout
  <2>2. Bytes'
    BY <1>2, NumberType, SMT DEF Bytes, Shape, SetTimeout
  <2>3. Enables'
    BY <1>2, SMT DEF Enables, SetTimeout
  <2>4. PauseHasData'
    BY <1>2, SMT DEF PauseHasData, SetTimeout
  <2>5. IsrKnows'
    BY <1>2, AdvanceOne, SMT DEF IsrKnows, PauseHasData, Shape, RxFull, SetTimeout
  <2>6. ReadKnows'
    BY <1>2, SMT DEF ReadKnows, IsrKnows, RxFull, SetTimeout
  <2>7. TxAwake'
    BY <1>2, SMT DEF TxAwake, Sending, Enables, SetTimeout
  <2>8. RxAwake'
    BY <1>2, SMT DEF RxAwake, Reading, IsrKnows, ReadKnows, Enables, RxFull, SetTimeout
  <2> QED
    BY <2>1, <2>2, <2>3, <2>4, <2>5, <2>6, <2>7, <2>8
<1>3. CASE Drain
  <2>1. Shape'
    BY <1>3, AdvanceType, SMT DEF Shape, Index, Drain
  <2>2. Bytes'
    BY <1>3, NumberType, SMT DEF Bytes, Shape, Drain
  <2>3. Enables'
    BY <1>3, SMT DEF Enables, Drain
  <2>4. PauseHasData'
    BY <1>3, SMT DEF PauseHasData, Drain
  <2>5. IsrKnows'
    BY <1>3, AdvanceOne, SMT DEF IsrKnows, PauseHasData, Shape, RxFull, Drain
  <2>6. ReadKnows'
    BY <1>3, SMT DEF ReadKnows, IsrKnows, RxFull, Drain
  <2>7. TxAwake'
    BY <1>3, SMT DEF TxAwake, Sending, Enables, Drain
  <2>8. RxAwake'
    BY <1>3, SMT DEF RxAwake, Reading, IsrKnows, ReadKnows, Enables, RxFull, Drain
  <2> QED
    BY <2>1, <2>2, <2>3, <2>4, <2>5, <2>6, <2>7, <2>8
<1>4. CASE Mask
  <2>1. Shape'
    BY <1>4, AdvanceType, SMT DEF Shape, Index, Mask
  <2>2. Bytes'
    BY <1>4, NumberType, SMT DEF Bytes, Shape, Mask
  <2>3. Enables'
    BY <1>4, SMT DEF Enables, Mask
  <2>4. PauseHasData'
    BY <1>4, SMT DEF PauseHasData, Mask
  <2>5. IsrKnows'
    BY <1>4, AdvanceOne, SMT DEF IsrKnows, PauseHasData, Shape, RxFull, Mask
  <2>6. ReadKnows'
    BY <1>4, SMT DEF ReadKnows, IsrKnows, RxFull, Mask
  <2>7. TxAwake'
    BY <1>4, SMT DEF TxAwake, Sending, Enables, ReadKnows, Mask
  <2>8. RxAwake'
    BY <1>4, SMT DEF RxAwake, Reading, IsrKnows, ReadKnows, Enables, RxFull, Mask
  <2> QED
    BY <2>1, <2>2, <2>3, <2>4, <2>5, <2>6, <2>7, <2>8
<1> QED
  BY <1>1, <1>2, <1>3, <1>4

\* The interrupt routine and the alarm.
LEMMA IsrSteps ==
  ASSUME IInv, IsrEnter \/ IsrControl \/ IsrTake \/ IsrStore \/ IsrReceived \/ IsrGive \/ IsrGiven \/ Tick
  PROVE  IInv'
<1> USE DEF IInv, deviceVars, ringVars, hostVars, callVars, isrVars, endVars, driverVars, At, Return
<1>1. CASE IsrEnter
  <2>1. Shape'
    BY <1>1, AdvanceType, SMT DEF Shape, Index, IsrEnter
  <2>2. Bytes'
    BY <1>1, NumberType, SMT DEF Bytes, Shape, IsrEnter
  <2>3. Enables'
    BY <1>1, SMT DEF Enables, IsrEnter
  <2>4. PauseHasData'
    BY <1>1, SMT DEF PauseHasData, IsrEnter
  <2>5. IsrKnows'
    BY <1>1, AdvanceOne, SMT DEF IsrKnows, PauseHasData, Shape, RxFull, IsrEnter
  <2>6. ReadKnows'
    BY <1>1, SMT DEF ReadKnows, IsrKnows, RxFull, IsrEnter
  <2>7. TxAwake'
    BY <1>1, SMT DEF TxAwake, Sending, Enables, IsrEnter
  <2>8. RxAwake'
    BY <1>1, SMT DEF RxAwake, Reading, IsrKnows, ReadKnows, Enables, RxFull, IsrEnter
  <2> QED
    BY <2>1, <2>2, <2>3, <2>4, <2>5, <2>6, <2>7, <2>8
<1>2. CASE IsrControl
  <2>1. Shape'
    BY <1>2, SMT DEF Shape, IsrControl, RI, WI, WSpace
  <2>2. Bytes'
    BY <1>2, NumberType, SMT DEF Bytes, Shape, IsrControl, RI, WI
  <2>3. Enables'
    BY <1>2, SMT DEF Enables, IsrControl, RI, WI
  <2>4. PauseHasData'
    BY <1>2, SMT DEF PauseHasData, IsrControl, RI, WI
  <2>5. IsrKnows'
    BY <1>2, AdvanceOne, SMT DEF IsrKnows, PauseHasData, Shape, RxFull, IsrControl, RI, WI
  <2>6. ReadKnows'
    BY <1>2, SMT DEF ReadKnows, IsrKnows, RxFull, IsrControl, RI, WI
  <2>7. TxAwake'
    BY <1>2, SMT DEF TxAwake, Sending, Enables, IsrControl, RI, WI
  <2>8. RxAwake'
    BY <1>2, SMT DEF RxAwake, Reading, IsrKnows, ReadKnows, Enables, RxFull, IsrControl, RI, WI
  <2> QED
    BY <2>1, <2>2, <2>3, <2>4, <2>5, <2>6, <2>7, <2>8
<1>3. CASE IsrTake
  <2>1. Shape'
    <3>1. CASE RxFull
      BY <1>3, <3>1, AdvanceType, SMT DEF Shape, Index, IsrTake
    <3>2. CASE ~RxFull
      BY <1>3, <3>2, AdvanceType, SMT DEF Shape, Index, IsrTake, TakeByte
    <3> QED
      BY <3>1, <3>2
  <2>2. Bytes'
    <3>1. rfifo' = rfifo \/ (rfifo # <<>> /\ rfifo' = Tail(rfifo))
      BY <1>3, Zenon DEF IsrTake, TakeByte
    <3>2. rfifo' \in Seq(Byte)
      <4>1. rfifo # <<>> => Tail(rfifo) \in Seq(Byte)
        BY SMT DEF Bytes
      <4> QED
        BY <3>1, <4>1, Zenon DEF Bytes
    <3> QED
      BY <1>3, <3>2, SMT DEF Bytes, IsrTake
  <2>3. Enables'
    BY <1>3, SMT DEF Enables, IsrTake, TakeByte
  <2>4. PauseHasData'
    <3>1. pauseIrq' = FALSE \/ (pauseIrq' = pauseIrq /\ rfifo' = rfifo)
      BY <1>3, Zenon DEF IsrTake, TakeByte
    <3> QED
      BY <3>1, Zenon DEF PauseHasData
  <2>5. IsrKnows'
    <3>1. CASE RxFull
      BY <1>3, <3>1, AdvanceOne, SMT DEF IsrKnows, Shape, RxFull, IsrTake
    <3>2. CASE ~RxFull
      <4>1. isr' = "take" /\ (rvalid' = (rfifo # <<>>)) /\ rxIn' = rxIn /\ rxOut' = rxOut
        BY <1>3, <3>2, Zenon DEF IsrTake
      <4>2. rfifo # <<>> \/ rxIn # rxOut
        BY <1>3, SMT DEF IsrKnows, IsrTake
      <4>3. rvalid' \/ rxIn' # rxOut'
        BY <4>1, <4>2, Zenon
      <4>4. ~RxFull'
        BY <3>2, <4>1, Zenon DEF RxFull
      <4> QED
        BY <4>1, <4>3, <4>4, Zenon DEF IsrKnows
    <3> QED
      BY <3>1, <3>2
  <2>6. ReadKnows'
    BY <1>3, SMT DEF ReadKnows, IsrKnows, RxFull, IsrTake, TakeByte
  <2>7. TxAwake'
    BY <1>3, SMT DEF TxAwake, Sending, Enables, IsrTake, TakeByte
  <2>8. RxAwake'
    BY <1>3, SMT DEF RxAwake, Reading, IsrKnows, ReadKnows, Enables, RxFull, IsrTake, TakeByte
  <2> QED
    BY <2>1, <2>2, <2>3, <2>4, <2>5, <2>6, <2>7, <2>8
<1>4. CASE IsrStore
  <2>1. Shape'
    <3>1. rxIn' \in Index
      <4>1. rxIn' = rxIn \/ rxIn' = Advance(rxIn, 1)
        BY <1>4, Zenon DEF IsrStore
      <4>2. rxIn \in Index /\ rxIn \in Int /\ 1 \in Int
        BY SMT DEF Shape, Index
      <4>3. Advance(rxIn, 1) \in Index
        BY <4>2, AdvanceType
      <4> QED
        BY <4>1, <4>2, <4>3, Zenon
    <3> QED
      BY <1>4, <3>1, SMT DEF Shape, IsrStore
  <2>2. Bytes'
    BY <1>4, NumberType, SMT DEF Bytes, Shape, IsrStore
  <2>3. Enables'
    BY <1>4, SMT DEF Enables, IsrStore
  <2>4. PauseHasData'
    BY <1>4, SMT DEF PauseHasData, IsrStore
  <2>5. IsrKnows'
    BY <1>4, AdvanceOne, SMT DEF IsrKnows, PauseHasData, Shape, RxFull, IsrStore
  <2>6. ReadKnows'
    BY <1>4, SMT DEF ReadKnows, IsrKnows, RxFull, IsrStore
  <2>7. TxAwake'
    BY <1>4, SMT DEF TxAwake, Sending, Enables, IsrStore
  <2>8. RxAwake'
    BY <1>4, SMT DEF RxAwake, Reading, IsrKnows, ReadKnows, Enables, RxFull, IsrStore
  <2> QED
    BY <2>1, <2>2, <2>3, <2>4, <2>5, <2>6, <2>7, <2>8
<1>5. CASE IsrReceived
  <2>1. Shape'
    BY <1>5, AdvanceType, SMT DEF Shape, Index, IsrReceived
  <2>2. Bytes'
    BY <1>5, NumberType, SMT DEF Bytes, Shape, IsrReceived
  <2>3. Enables'
    BY <1>5, SMT DEF Enables, IsrReceived
  <2>4. PauseHasData'
    BY <1>5, SMT DEF PauseHasData, IsrReceived
  <2>5. IsrKnows'
    BY <1>5, AdvanceOne, SMT DEF IsrKnows, PauseHasData, Shape, RxFull, IsrReceived
  <2>6. ReadKnows'
    BY <1>5, SMT DEF ReadKnows, IsrKnows, RxFull, IsrReceived
  <2>7. TxAwake'
    BY <1>5, SMT DEF TxAwake, Sending, Enables, IsrReceived
  <2>8. RxAwake'
    BY <1>5, SMT DEF RxAwake, Reading, IsrKnows, ReadKnows, Enables, RxFull, IsrReceived
  <2> QED
    BY <2>1, <2>2, <2>3, <2>4, <2>5, <2>6, <2>7, <2>8
<1>6. CASE IsrGive
  <2>1. Shape'
    <3>1. Len(wfifo) < Fifo
      BY <1>6, SMT DEF Shape, Bytes, Index, IsrGive
    <3>2. Len(wfifo') = Len(wfifo) + 1
      BY <1>6, <3>1, SMT DEF Bytes, IsrGive, GiveByte
    <3> QED
      BY <1>6, <3>1, <3>2, AdvanceType, SMT DEF Shape, Bytes, Index, IsrGive
  <2>2. Bytes'
    <3>1. txBuf[txOut] \in Byte
      BY SMT DEF Bytes, Shape
    <3>2. wfifo' = wfifo \/ wfifo' = Append(wfifo, txBuf[txOut])
      BY <1>6, Zenon DEF IsrGive, GiveByte
    <3>3. wfifo' \in Seq(Byte)
      <4>1. Append(wfifo, txBuf[txOut]) \in Seq(Byte)
        BY <3>1, SMT DEF Bytes
      <4> QED
        BY <3>2, <4>1, Zenon DEF Bytes
    <3> QED
      BY <1>6, <3>3, SMT DEF Bytes, IsrGive
  <2>3. Enables'
    BY <1>6, SMT DEF Enables, IsrGive, GiveByte
  <2>4. PauseHasData'
    BY <1>6, SMT DEF PauseHasData, IsrGive, GiveByte
  <2>5. IsrKnows'
    BY <1>6, AdvanceOne, SMT DEF IsrKnows, PauseHasData, Shape, RxFull, IsrGive, GiveByte
  <2>6. ReadKnows'
    BY <1>6, SMT DEF ReadKnows, IsrKnows, RxFull, IsrGive, GiveByte
  <2>7. TxAwake'
    BY <1>6, SMT DEF TxAwake, Sending, Enables, IsrGive, GiveByte
  <2>8. RxAwake'
    BY <1>6, SMT DEF RxAwake, Reading, IsrKnows, ReadKnows, Enables, RxFull, IsrGive, GiveByte
  <2> QED
    BY <2>1, <2>2, <2>3, <2>4, <2>5, <2>6, <2>7, <2>8
<1>7. CASE IsrGiven
  <2>1. Shape'
    BY <1>7, AdvanceType, SMT DEF Shape, Index, IsrGiven
  <2>2. Bytes'
    BY <1>7, NumberType, SMT DEF Bytes, Shape, IsrGiven
  <2>3. Enables'
    BY <1>7, SMT DEF Enables, IsrGiven
  <2>4. PauseHasData'
    BY <1>7, SMT DEF PauseHasData, IsrGiven
  <2>5. IsrKnows'
    BY <1>7, AdvanceOne, SMT DEF IsrKnows, PauseHasData, Shape, RxFull, IsrGiven
  <2>6. ReadKnows'
    BY <1>7, SMT DEF ReadKnows, IsrKnows, RxFull, IsrGiven
  <2>7. TxAwake'
    BY <1>7, SMT DEF TxAwake, Sending, Enables, IsrGiven
  <2>8. RxAwake'
    BY <1>7, SMT DEF RxAwake, Reading, IsrKnows, ReadKnows, Enables, RxFull, IsrGiven
  <2> QED
    BY <2>1, <2>2, <2>3, <2>4, <2>5, <2>6, <2>7, <2>8
<1>8. CASE Tick
  <2>1. Shape'
    BY <1>8, AdvanceType, SMT DEF Shape, Index, Tick
  <2>2. Bytes'
    BY <1>8, NumberType, SMT DEF Bytes, Shape, Tick
  <2>3. Enables'
    BY <1>8, SMT DEF Enables, Tick
  <2>4. PauseHasData'
    BY <1>8, SMT DEF PauseHasData, Tick
  <2>5. IsrKnows'
    BY <1>8, AdvanceOne, SMT DEF IsrKnows, PauseHasData, Shape, RxFull, Tick
  <2>6. ReadKnows'
    BY <1>8, SMT DEF ReadKnows, IsrKnows, RxFull, Tick
  <2>7. TxAwake'
    BY <1>8, SMT DEF TxAwake, Sending, Enables, Tick
  <2>8. RxAwake'
    BY <1>8, SMT DEF RxAwake, Reading, IsrKnows, ReadKnows, Enables, RxFull, Tick
  <2> QED
    BY <2>1, <2>2, <2>3, <2>4, <2>5, <2>6, <2>7, <2>8
<1> QED
  BY <1>1, <1>2, <1>3, <1>4, <1>5, <1>6, <1>7, <1>8

\* The host.
LEMMA HostSteps ==
  ASSUME IInv, Send \/ Pause \/ Take
  PROVE  IInv'
<1> USE DEF IInv, deviceVars, ringVars, hostVars, callVars, isrVars, endVars, driverVars, At, Return
<1>1. CASE Send
  <2>1. Shape'
    BY <1>1, AdvanceType, SMT DEF Shape, Index, Send, HostSend
  <2>2. Bytes'
    BY <1>1, NumberType, SMT DEF Bytes, Shape, Send, HostSend
  <2>3. Enables'
    BY <1>1, SMT DEF Enables, Send, HostSend
  <2>4. PauseHasData'
    BY <1>1, SMT DEF PauseHasData, Send, HostSend
  <2>5. IsrKnows'
    BY <1>1, AdvanceOne, SMT DEF IsrKnows, PauseHasData, Shape, RxFull, Send, HostSend
  <2>6. ReadKnows'
    BY <1>1, SMT DEF ReadKnows, IsrKnows, RxFull, Send, HostSend
  <2>7. TxAwake'
    BY <1>1, SMT DEF TxAwake, Sending, Enables, Send, HostSend
  <2>8. RxAwake'
    BY <1>1, SMT DEF RxAwake, Reading, IsrKnows, ReadKnows, Enables, RxFull, Send, HostSend
  <2> QED
    BY <2>1, <2>2, <2>3, <2>4, <2>5, <2>6, <2>7, <2>8
<1>2. CASE Pause
  <2>1. Shape'
    BY <1>2, AdvanceType, SMT DEF Shape, Index, Pause, HostPause
  <2>2. Bytes'
    BY <1>2, NumberType, SMT DEF Bytes, Shape, Pause, HostPause
  <2>3. Enables'
    BY <1>2, SMT DEF Enables, Pause, HostPause
  <2>4. PauseHasData'
    BY <1>2, Zenon DEF PauseHasData, Pause, HostPause
  <2>5. IsrKnows'
    BY <1>2, AdvanceOne, SMT DEF IsrKnows, PauseHasData, Shape, RxFull, Pause, HostPause
  <2>6. ReadKnows'
    BY <1>2, SMT DEF ReadKnows, IsrKnows, RxFull, Pause, HostPause
  <2>7. TxAwake'
    BY <1>2, SMT DEF TxAwake, Sending, Enables, Pause, HostPause
  <2>8. RxAwake'
    BY <1>2, SMT DEF RxAwake, Reading, IsrKnows, ReadKnows, Enables, RxFull, Pause, HostPause
  <2> QED
    BY <2>1, <2>2, <2>3, <2>4, <2>5, <2>6, <2>7, <2>8
<1>3. CASE Take
  <2>1. Shape'
    <3>1. Len(wfifo') = Len(wfifo) - 1
      BY <1>3, SMT DEF Bytes, Take, HostTake
    <3> QED
      BY <1>3, <3>1, SMT DEF Bytes, Shape, Take, HostTake
  <2>2. Bytes'
    BY <1>3, NumberType, SMT DEF Bytes, Shape, Take, HostTake
  <2>3. Enables'
    BY <1>3, SMT DEF Enables, Take, HostTake
  <2>4. PauseHasData'
    BY <1>3, SMT DEF PauseHasData, Take, HostTake
  <2>5. IsrKnows'
    BY <1>3, AdvanceOne, SMT DEF IsrKnows, PauseHasData, Shape, RxFull, Take, HostTake
  <2>6. ReadKnows'
    BY <1>3, SMT DEF ReadKnows, IsrKnows, RxFull, Take, HostTake
  <2>7. TxAwake'
    BY <1>3, SMT DEF TxAwake, Sending, Enables, Take, HostTake
  <2>8. RxAwake'
    BY <1>3, SMT DEF RxAwake, Reading, IsrKnows, ReadKnows, Enables, RxFull, Take, HostTake
  <2> QED
    BY <2>1, <2>2, <2>3, <2>4, <2>5, <2>6, <2>7, <2>8
<1> QED
  BY <1>1, <1>2, <1>3

------------------------------------------------------------------------------
\* Every step of thread, interrupt routine, clock and host keeps IInv.
THEOREM Inductive == Spec => []IInv
<1>1. ASSUME IInv, [Next]_vars PROVE IInv'
  <2>1. CASE Next
    BY <1>1, <2>1, WriteSteps, ReadSteps, CallSteps, IsrSteps, HostSteps, Zenon
       DEF Next, Program, Thread, Isr, Host
  <2>2. CASE UNCHANGED vars
    BY <1>1, <2>2, Untouched
  <2> QED
    BY <1>1, <2>1, <2>2
<1> QED
  BY Initially, <1>1, PTL DEF Spec

\* No byte waits for the host with write interrupts off and nobody about to
\* turn them on, for every ring and FIFO (altera_avalon_jtag_uart_write.c:136).
THEOREM TransmitterStaysAwake == Spec => []TransmitterAwake
<1>1. IInv => TransmitterAwake
  BY UsedNone DEF IInv, Shape, TxAwake, Sending, TransmitterAwake, TxUsed
<1> QED
  BY Inductive, <1>1, PTL

\* Receive interrupts are off only with something for read() to take or with
\* read() about to turn them on (altera_avalon_jtag_uart_init.c:158).
THEOREM ReceiverStaysAwake == Spec => []ReceiverAwake
<1>1. IInv => ReceiverAwake
  BY UsedNone DEF IInv, Shape, RxAwake, Reading, ReadKnows, ReceiverAwake, RxUsed
<1> QED
  BY Inductive, <1>1, PTL

\* The interrupt routine never gives the device more than it has room for,
\* though the host alone decides when there is more (altera_avalon_jtag_uart_init.c:172).
THEOREM DeviceNeverOverrun == Spec => []RoomForWhatIsGiven
<1>1. IInv => RoomForWhatIsGiven
  BY DEF IInv, Shape, RoomForWhatIsGiven, WSpace
<1> QED
  BY Inductive, <1>1, PTL

-------------------------------------------------------------------------------
\* Both directions as pipes: arithmetic of indices, numbers and rings first.

\* What % leaves lies below the modulus and a multiple of it away.
LEMMA DivMod ==
  ASSUME NEW x \in Int, NEW m \in Nat, m > 0
  PROVE  /\ x % m \in 0 .. m - 1
         /\ \E q \in Int : x = m * q + (x % m)
<1>1. x % m \in 0 .. m - 1
  BY Z3
<1>2. x = m * (x \div m) + (x % m)
  BY Z3
<1>3. x \div m \in Int
  BY Z3
<1> QED
  BY <1>1, <1>2, <1>3, Zenon

\* A number has one remainder only.
LEMMA ModUnique ==
  ASSUME NEW m \in Nat, m > 0, NEW q \in Int, NEW p \in Int,
         NEW r \in 0 .. m - 1, NEW s \in 0 .. m - 1, m * q + r = m * p + s
  PROVE  r = s
<1>1. CASE q > p
  <2>1. q >= p + 1
    BY <1>1
  <2>2. m * q >= m * (p + 1)
    BY <2>1, Z3
  <2>3. m * (p + 1) = m * p + m
    BY Z3
  <2> QED
    BY <2>2, <2>3, Z3
<1>2. CASE q < p
  <2>1. p >= q + 1
    BY <1>2
  <2>2. m * p >= m * (q + 1)
    BY <2>1, Z3
  <2>3. m * (q + 1) = m * q + m
    BY Z3
  <2> QED
    BY <2>2, <2>3, Z3
<1>3. CASE q = p
  BY <1>3, Z3
<1> QED
  BY <1>1, <1>2, <1>3

\* A remainder may be taken before an addition as well.
LEMMA ModPlus ==
  ASSUME NEW x \in Int, NEW y \in Int, NEW m \in Nat, m > 0
  PROVE  ((x % m) + y) % m = (x + y) % m
<1>0. x % m \in Int /\ (x % m) + y \in Int /\ x + y \in Int
  BY DivMod
<1>1. PICK q \in Int : x = m * q + (x % m)
  BY DivMod
<1>2. PICK r \in Int : (x % m) + y = m * r + (((x % m) + y) % m)
  BY <1>0, DivMod
<1>3. PICK s \in Int : x + y = m * s + ((x + y) % m)
  BY <1>0, DivMod
<1>4. x + y = m * (q + r) + (((x % m) + y) % m)
  <2>1. m * (q + r) = m * q + m * r
    BY Z3
  <2>2. x % m \in Int /\ ((x % m) + y) % m \in Int
    BY <1>0, DivMod
  <2> QED
    BY <1>1, <1>2, <2>1, <2>2, Z3
<1>5. ((x % m) + y) % m \in 0 .. m - 1 /\ (x + y) % m \in 0 .. m - 1
  BY <1>0, DivMod
<1>6. q + r \in Int
  OBVIOUS
<1> QED
  BY <1>3, <1>4, <1>5, <1>6, ModUnique

\* A number counted on twice.
LEMMA NumberPlus ==
  ASSUME NEW b \in Int, NEW j \in Int, NEW k \in Int
  PROVE  Number(Number(b, j), k) = Number(b, j + k)
<1>0. b + j \in Int /\ ByteCount \in Nat /\ ByteCount > 0
  OBVIOUS
<1>1. (((b + j) % ByteCount) + k) % ByteCount = ((b + j) + k) % ByteCount
  BY <1>0, ModPlus
<1>2. (b + j) + k = b + (j + k)
  OBVIOUS
<1> QED
  BY <1>1, <1>2 DEF Number

\* A byte is its own number 0.
LEMMA NumberZero ==
  ASSUME NEW b \in Byte
  PROVE  Number(b, 0) = b
<1>1. b \in Nat /\ b < ByteCount
  OBVIOUS
<1> QED
  BY <1>1, Z3 DEF Number

\* An index moved on, without the remainder.
LEMMA AdvanceIs ==
  ASSUME NEW i \in Index, NEW k \in Nat, k <= BufLen
  PROVE  /\ Advance(i, k) = IF i + k < BufLen THEN i + k ELSE (i + k) - BufLen
         /\ Advance(i, k) \in Index
<1>0. i \in Nat /\ i < BufLen
  BY DEF Index
<1>1. CASE i + k < BufLen
  <2>1. (i + k) % BufLen = i + k
    BY <1>0, <1>1, Z3
  <2> QED
    BY <1>0, <1>1, <2>1 DEF Advance, Index
<1>2. CASE i + k >= BufLen
  <2> DEFINE r == (i + k) - BufLen
  <2>1. r \in 0 .. BufLen - 1 /\ BufLen * 1 + r = i + k
    BY <1>0, <1>2, Z3
  <2>2. i + k \in Int /\ BufLen \in Nat /\ BufLen > 0 /\ 1 \in Int
    BY <1>0
  <2>3. PICK q \in Int : i + k = BufLen * q + ((i + k) % BufLen)
    BY <2>2, DivMod
  <2>4. (i + k) % BufLen \in 0 .. BufLen - 1
    BY <2>2, DivMod
  <2>5. r = (i + k) % BufLen
    BY <2>1, <2>2, <2>3, <2>4, ModUnique, Zenon
  <2> QED
    BY <1>0, <1>2, <2>1, <2>5 DEF Advance, Index
<1> QED
  BY <1>0, <1>1, <1>2

\* A ring is never filled to its last slot.
LEMMA UsedType ==
  ASSUME NEW a \in Index, NEW b \in Index
  PROVE  Used(a, b) \in Nat /\ Used(a, b) <= BufLen - 1
BY DEF Used, Index

\* Moving the index behind the filled slots adds to them ...
LEMMA UsedGrow ==
  ASSUME NEW a \in Index, NEW b \in Index, NEW k \in Nat, Used(a, b) + k <= BufLen - 1
  PROVE  Used(a, Advance(b, k)) = Used(a, b) + k
<1>1. k <= BufLen
  BY UsedType
<1>2. Advance(b, k) = IF b + k < BufLen THEN b + k ELSE (b + k) - BufLen
  BY <1>1, AdvanceIs
<1> QED
  BY <1>2 DEF Used, Index

\* ... and moving the index in front of them takes from them.
LEMMA UsedDrop ==
  ASSUME NEW a \in Index, NEW b \in Index, NEW k \in Nat, k <= Used(a, b)
  PROVE  Used(Advance(a, k), b) = Used(a, b) - k
<1>1. k <= BufLen
  BY UsedType
<1>2. Advance(a, k) = IF a + k < BufLen THEN a + k ELSE (a + k) - BufLen
  BY <1>1, AdvanceIs
<1> QED
  BY <1>2 DEF Used, Index

\* The slot j behind the last filled one.
LEMMA AdvanceUsed ==
  ASSUME NEW a \in Index, NEW b \in Index, NEW j \in Nat, Used(a, b) + j <= BufLen - 1
  PROVE  Advance(a, Used(a, b) + j) = Advance(b, j)
<1>1. j <= BufLen /\ Used(a, b) + j <= BufLen /\ Used(a, b) + j \in Nat
  BY UsedType
<1>2. Advance(b, j) = IF b + j < BufLen THEN b + j ELSE (b + j) - BufLen
  BY <1>1, AdvanceIs
<1>3. Advance(a, Used(a, b) + j) =
        IF a + (Used(a, b) + j) < BufLen THEN a + (Used(a, b) + j) ELSE (a + (Used(a, b) + j)) - BufLen
  BY <1>1, AdvanceIs
<1> QED
  BY <1>2, <1>3 DEF Used, Index

\* An index moved on twice.
LEMMA AdvanceTwice ==
  ASSUME NEW a \in Index, NEW j \in Nat, NEW k \in Nat, j + k <= BufLen
  PROVE  Advance(Advance(a, j), k) = Advance(a, j + k)
<1>0. a + j \in Int /\ BufLen \in Nat /\ BufLen > 0 /\ k \in Int
  BY DEF Index
<1>1. (((a + j) % BufLen) + k) % BufLen = ((a + j) + k) % BufLen
  BY <1>0, ModPlus
<1>2. (a + j) + k = a + (j + k)
  BY DEF Index
<1> QED
  BY <1>1, <1>2 DEF Advance

\* A function on 1 .. k is a sequence.
LEMMA SeqOf ==
  ASSUME NEW S, NEW k \in Nat, NEW f \in [1 .. k -> S]
  PROVE  f \in Seq(S) /\ Len(f) = k
<1>1. f \in Seq(S)
  BY SeqDef
<1>2. DOMAIN f = 1 .. k /\ DOMAIN f = 1 .. Len(f) /\ Len(f) \in Nat
  BY <1>1, LenProperties
<1>3. 1 .. k = 1 .. Len(f)
  BY <1>2
<1> QED
  BY <1>1, <1>2, <1>3

\* What the filled slots of a ring hold, in order.
LEMMA FilledIs ==
  ASSUME NEW buf \in [Index -> Byte], NEW a \in Index, NEW b \in Index
  PROVE  /\ Filled(buf, a, b) \in Seq(Byte)
         /\ Len(Filled(buf, a, b)) = Used(a, b)
         /\ \A i \in 1 .. Used(a, b) : Filled(buf, a, b)[i] = buf[Advance(a, i - 1)]
<1>1. Used(a, b) \in Nat /\ Used(a, b) <= BufLen - 1
  BY UsedType
<1>2. \A i \in 1 .. Used(a, b) : Advance(a, i - 1) \in Index
  BY <1>1, AdvanceIs
<1>3. Filled(buf, a, b) \in [1 .. Used(a, b) -> Byte]
  BY <1>2 DEF Filled
<1>4. \A i \in 1 .. Used(a, b) : Filled(buf, a, b)[i] = buf[Advance(a, i - 1)]
  BY DEF Filled
<1> QED
  BY <1>1, <1>3, <1>4, SeqOf

\* The bytes of s are the ones numbered from b on.
Due(b, s) == \A i \in 1 .. Len(s) : s[i] = Number(b, i - 1)

\* One byte that is due.
LEMMA DueIsOne ==
  ASSUME NEW b \in Byte
  PROVE  <<b>> \in Seq(Byte) /\ Len(<<b>>) = 1 /\ Due(b, <<b>>)
BY NumberZero DEF Due

\* What is due, and then what is due after it, is due.
LEMMA DueConcat ==
  ASSUME NEW b \in Byte, NEW s \in Seq(Byte), NEW t \in Seq(Byte),
         Due(b, s), Due(Number(b, Len(s)), t)
  PROVE  Due(b, s \o t)
<1>1. /\ Len(s \o t) = Len(s) + Len(t) /\ Len(s) \in Nat /\ Len(t) \in Nat
      /\ \A i \in 1 .. Len(s) + Len(t) :
           (s \o t)[i] = IF i <= Len(s) THEN s[i] ELSE t[i - Len(s)]
  BY ConcatProperties, LenProperties
<1>2. ASSUME NEW i \in 1 .. Len(s) + Len(t) PROVE (s \o t)[i] = Number(b, i - 1)
  <2>1. CASE i <= Len(s)
    <3>1. i \in 1 .. Len(s)
      BY <1>1, <2>1
    <3> QED
      BY <1>1, <2>1, <3>1 DEF Due
  <2>2. CASE i > Len(s)
    <3>1. i - Len(s) \in 1 .. Len(t)
      BY <1>1, <2>2
    <3>2. t[i - Len(s)] = Number(Number(b, Len(s)), (i - Len(s)) - 1)
      BY <3>1 DEF Due
    <3>3. b \in Int /\ (i - Len(s)) - 1 \in Int /\ Len(s) \in Int
          /\ Len(s) + ((i - Len(s)) - 1) = i - 1 /\ ~(i <= Len(s))
      BY <1>1, <2>2
    <3>4. Number(Number(b, Len(s)), (i - Len(s)) - 1) = Number(b, i - 1)
      BY <3>3, NumberPlus
    <3> QED
      BY <1>1, <3>2, <3>3, <3>4
  <2> QED
    BY <1>1, <2>1, <2>2
<1> QED
  BY <1>1, <1>2 DEF Due

\* What is due can be cut in two anywhere.
LEMMA DueSplit ==
  ASSUME NEW b \in Byte, NEW s \in Seq(Byte), NEW k \in 0 .. Len(s), Due(b, s)
  PROVE  /\ SubSeq(s, 1, k) \in Seq(Byte) /\ Len(SubSeq(s, 1, k)) = k
         /\ Due(b, SubSeq(s, 1, k))
         /\ SubSeq(s, k + 1, Len(s)) \in Seq(Byte) /\ Len(SubSeq(s, k + 1, Len(s))) = Len(s) - k
         /\ Due(Number(b, k), SubSeq(s, k + 1, Len(s)))
<1> DEFINE f == SubSeq(s, 1, k)
           g == SubSeq(s, k + 1, Len(s))
<1>1. Len(s) \in Nat /\ \A i \in 1 .. Len(s) : s[i] \in Byte
  BY LenProperties, ElementOfSeq
<1>2. f \in Seq(Byte) /\ Len(f) = k /\ \A i \in 1 .. k : f[i] = s[i]
  <2>1. \A i \in 1 .. k : s[i] \in Byte
    BY <1>1
  <2>2. /\ SubSeq(s, 1, k) \in Seq(Byte) /\ Len(SubSeq(s, 1, k)) = (IF 1 <= k THEN k - 1 + 1 ELSE 0)
        /\ \A i \in 1 .. k - 1 + 1 : SubSeq(s, 1, k)[i] = s[1 + i - 1]
    BY <2>1, SubSeqProperties
  <2> QED
    BY <2>2, <1>1
<1>3. /\ g \in Seq(Byte) /\ Len(g) = Len(s) - k
      /\ \A i \in 1 .. Len(s) - k : g[i] = s[k + i]
  <2>1. /\ \A i \in k + 1 .. Len(s) : s[i] \in Byte
        /\ k + 1 \in Int /\ Len(s) \in Int
    BY <1>1
  <2>2. /\ SubSeq(s, k + 1, Len(s)) \in Seq(Byte)
        /\ Len(SubSeq(s, k + 1, Len(s)))
              = (IF k + 1 <= Len(s) THEN Len(s) - (k + 1) + 1 ELSE 0)
        /\ \A i \in 1 .. Len(s) - (k + 1) + 1 : SubSeq(s, k + 1, Len(s))[i] = s[(k + 1) + i - 1]
    BY <2>1, SubSeqProperties
  <2> QED
    BY <2>2, <1>1
<1>4. Due(b, f)
  BY <1>2, <1>1 DEF Due
<1>5. Due(Number(b, k), g)
  <2> SUFFICES ASSUME NEW i \in 1 .. Len(s) - k
               PROVE  g[i] = Number(Number(b, k), i - 1)
    BY <1>3 DEF Due
  <2>1. k + i \in 1 .. Len(s) /\ b \in Int /\ k \in Int /\ i - 1 \in Int /\ (k + i) - 1 = k + (i - 1)
    BY <1>1
  <2>2. g[i] = Number(b, k + (i - 1))
    BY <1>3, <2>1 DEF Due
  <2> QED
    BY <2>1, <2>2, NumberPlus
<1> QED
  BY <1>2, <1>3, <1>4, <1>5

\* Numbers counted upwards are due from the first.
LEMMA NumbersAre ==
  ASSUME NEW b \in Byte, NEW k \in Nat
  PROVE  /\ [i \in 1 .. k |-> Number(b, i - 1)] \in Seq(Byte)
         /\ Len([i \in 1 .. k |-> Number(b, i - 1)]) = k
         /\ Due(b, [i \in 1 .. k |-> Number(b, i - 1)])
<1> DEFINE f == [i \in 1 .. k |-> Number(b, i - 1)]
<1>1. \A i \in 1 .. k : Number(b, i - 1) \in Byte
  <2> TAKE i \in 1 .. k
  <2>1. b + (i - 1) \in Int /\ ByteCount \in Nat /\ ByteCount > 0
    OBVIOUS
  <2>2. (b + (i - 1)) % ByteCount \in 0 .. ByteCount - 1
    BY <2>1, DivMod
  <2> QED
    BY <2>2 DEF Number
<1>2. f \in [1 .. k -> Byte]
  BY <1>1
<1>3. f \in Seq(Byte) /\ Len(f) = k
  BY <1>2, SeqOf
<1> HIDE DEF f
<1>4. \A i \in 1 .. k : f[i] = Number(b, i - 1)
  BY DEF f
<1>5. Due(b, f)
  BY <1>3, <1>4 DEF Due
<1> QED
  BY <1>3, <1>5 DEF f

\* What is due from a number is determined by that number.
LEMMA DueIs ==
  ASSUME NEW b \in Byte, NEW s \in Seq(Byte), Due(b, s)
  PROVE  s = [i \in 1 .. Len(s) |-> Number(b, i - 1)]
<1>1. Len(s) \in Nat /\ s \in [1 .. Len(s) -> Byte]
  BY LenProperties
<1>2. \A i \in 1 .. Len(s) : s[i] = Number(b, i - 1)
  BY DEF Due
<1> QED
  BY <1>1, <1>2

\* Filled slots of a ring to which k more are added behind.
LEMMA FilledGrow ==
  ASSUME NEW buf \in [Index -> Byte], NEW a \in Index, NEW b \in Index,
         NEW k \in Nat, Used(a, b) + k <= BufLen - 1
  PROVE  Filled(buf, a, Advance(b, k)) =
           Filled(buf, a, b) \o [i \in 1 .. k |-> buf[Advance(b, i - 1)]]
<1> DEFINE t == [i \in 1 .. k |-> buf[Advance(b, i - 1)]]
           c == Advance(b, k)
           u == Used(a, b)
           f == Filled(buf, a, b)
           g == Filled(buf, a, c)
<1>1. u \in Nat /\ u <= BufLen - 1 /\ k <= BufLen /\ u + k <= BufLen - 1
  BY UsedType
<1>2. c \in Index /\ Used(a, c) = u + k
  BY <1>1, AdvanceIs, UsedGrow
<1>3. /\ f \in Seq(Byte) /\ Len(f) = u /\ \A i \in 1 .. u : f[i] = buf[Advance(a, i - 1)]
      /\ g \in Seq(Byte) /\ Len(g) = u + k
      /\ \A i \in 1 .. u + k : g[i] = buf[Advance(a, i - 1)]
  <2>1. /\ Filled(buf, a, c) \in Seq(Byte) /\ Len(Filled(buf, a, c)) = Used(a, c)
        /\ \A i \in 1 .. Used(a, c) : Filled(buf, a, c)[i] = buf[Advance(a, i - 1)]
    BY <1>2, FilledIs
  <2>2. /\ Filled(buf, a, b) \in Seq(Byte) /\ Len(Filled(buf, a, b)) = Used(a, b)
        /\ \A i \in 1 .. Used(a, b) : Filled(buf, a, b)[i] = buf[Advance(a, i - 1)]
    BY FilledIs
  <2> QED
    BY <1>2, <2>1, <2>2
<1>b. /\ t \in Seq(Byte) /\ Len(t) = k
      /\ \A i \in 1 .. k : buf[Advance(b, i - 1)] = t[i]
  <2>1. \A i \in 1 .. k : i - 1 \in Nat /\ i - 1 <= BufLen
    BY <1>1
  <2>2. \A i \in 1 .. k : Advance(b, i - 1) \in Index
    BY <2>1, AdvanceIs
  <2>3. t \in [1 .. k -> Byte]
    BY <2>2
  <2> QED
    BY <2>3, SeqOf
<1>a. \A j \in Nat : u + j <= BufLen - 1 => Advance(a, u + j) = Advance(b, j)
  BY AdvanceUsed
<1> HIDE DEF f, g, c, u, t
<1>4. /\ f \o t \in Seq(Byte) /\ Len(f \o t) = u + k
      /\ \A i \in 1 .. u + k : (f \o t)[i] = IF i <= u THEN f[i] ELSE t[i - u]
  <2>1. /\ f \o t \in Seq(Byte) /\ Len(f \o t) = Len(f) + Len(t)
        /\ \A i \in 1 .. Len(f) + Len(t) :
             (f \o t)[i] = IF i <= Len(f) THEN f[i] ELSE t[i - Len(f)]
    BY <1>3, <1>b, ConcatProperties
  <2> QED
    BY <1>3, <1>b, <2>1
<1>5. ASSUME NEW i \in 1 .. u + k PROVE g[i] = (f \o t)[i]
  <2>0. i \in Int /\ (i <= u \/ i > u) /\ (i <= u => i \in 1 .. u)
    BY <1>1
  <2>1. CASE i <= u
    <3>1. g[i] = buf[Advance(a, i - 1)] /\ f[i] = buf[Advance(a, i - 1)]
      BY <1>3, <2>0, <2>1, Zenon
    <3>2. (f \o t)[i] = f[i]
      BY <1>4, <2>1, Zenon
    <3> QED
      BY <3>1, <3>2, Zenon
  <2>2. CASE i > u
    <3>1. i - u \in 1 .. k /\ (i - u) - 1 \in Nat /\ u + ((i - u) - 1) <= BufLen - 1
          /\ u + ((i - u) - 1) = i - 1 /\ ~(i <= u)
      BY <1>1, <2>2
    <3>2. Advance(a, i - 1) = Advance(b, (i - u) - 1)
      <4>1. Advance(a, u + ((i - u) - 1)) = Advance(b, (i - u) - 1)
        BY <3>1, <1>a
      <4> QED
        BY <3>1, <4>1
    <3>3. buf[Advance(b, (i - u) - 1)] = t[i - u]
      BY <1>b, <3>1
    <3> QED
      <4>1. (f \o t)[i] = t[i - u]
        BY <1>4, <3>1, Zenon
      <4>2. g[i] = buf[Advance(a, i - 1)]
        BY <1>3, Zenon
      <4> QED
        BY <4>1, <4>2, <3>2, <3>3, Zenon
  <2> QED
    BY <2>0, <2>1, <2>2, Zenon
<1> QED
  <2>1. Len(g) = Len(f \o t) /\ \A i \in 1 .. Len(g) : g[i] = (f \o t)[i]
    BY <1>3, <1>4, <1>5
  <2>2. g = f \o t
    BY <2>1, <1>3, <1>4, SeqEqual
  <2> QED
    BY <2>2 DEF f, g, c, t

\* ... and from which the first k are taken.
LEMMA FilledDrop ==
  ASSUME NEW buf \in [Index -> Byte], NEW a \in Index, NEW b \in Index,
         NEW k \in 0 .. Used(a, b)
  PROVE  Filled(buf, Advance(a, k), b) = SubSeq(Filled(buf, a, b), k + 1, Used(a, b))
<1> DEFINE c == Advance(a, k)
           u == Used(a, b)
           f == Filled(buf, a, b)
           g == Filled(buf, c, b)
           h == SubSeq(f, k + 1, u)
<1>1. u \in Nat /\ u <= BufLen - 1 /\ k \in Nat /\ k <= u /\ k <= BufLen
  BY UsedType
<1>2. c \in Index /\ Used(c, b) = u - k
  BY <1>1, AdvanceIs, UsedDrop
<1>3. /\ f \in Seq(Byte) /\ Len(f) = u /\ \A i \in 1 .. u : f[i] = buf[Advance(a, i - 1)]
      /\ g \in Seq(Byte) /\ Len(g) = u - k
      /\ \A i \in 1 .. u - k : g[i] = buf[Advance(c, i - 1)]
  <2>1. /\ Filled(buf, c, b) \in Seq(Byte) /\ Len(Filled(buf, c, b)) = Used(c, b)
        /\ \A i \in 1 .. Used(c, b) : Filled(buf, c, b)[i] = buf[Advance(c, i - 1)]
    BY <1>2, FilledIs
  <2>2. /\ Filled(buf, a, b) \in Seq(Byte) /\ Len(Filled(buf, a, b)) = Used(a, b)
        /\ \A i \in 1 .. Used(a, b) : Filled(buf, a, b)[i] = buf[Advance(a, i - 1)]
    BY FilledIs
  <2> QED
    BY <1>2, <2>1, <2>2
<1>a. \A j \in Nat : k + j <= BufLen => Advance(c, j) = Advance(a, k + j)
  BY <1>1, AdvanceTwice
<1> HIDE DEF f, g, c, u
<1>4. /\ h \in Seq(Byte) /\ Len(h) = u - k
      /\ \A i \in 1 .. u - k : h[i] = f[k + i]
  <2>1. /\ \A i \in k + 1 .. u : f[i] \in Byte
        /\ k + 1 \in Int /\ u \in Int
    <3>1. \A i \in k + 1 .. u : i \in 1 .. Len(f)
      BY <1>1, <1>3
    <3>2. \A i \in k + 1 .. u : f[i] \in Byte
      BY <1>3, <3>1, ElementOfSeq, Zenon
    <3> QED
      BY <1>1, <3>2
  <2>2. /\ SubSeq(f, k + 1, u) \in Seq(Byte)
        /\ Len(SubSeq(f, k + 1, u)) = (IF k + 1 <= u THEN u - (k + 1) + 1 ELSE 0)
        /\ \A i \in 1 .. u - (k + 1) + 1 : SubSeq(f, k + 1, u)[i] = f[(k + 1) + i - 1]
    BY <2>1, SubSeqProperties
  <2>3. /\ (IF k + 1 <= u THEN u - (k + 1) + 1 ELSE 0) = u - k
        /\ u - (k + 1) + 1 = u - k
        /\ \A i \in 1 .. u - k : (k + 1) + i - 1 = k + i
    BY <1>1
  <2> QED
    BY <2>2, <2>3, Zenon DEF h
<1>5. ASSUME NEW i \in 1 .. u - k PROVE g[i] = h[i]
  <2>1. i - 1 \in Nat /\ k + (i - 1) <= BufLen /\ k + i \in 1 .. u /\ k + (i - 1) = (k + i) - 1
    BY <1>1
  <2>2. Advance(c, i - 1) = Advance(a, (k + i) - 1)
    BY <1>a, <2>1
  <2> QED
    BY <1>3, <1>4, <2>1, <2>2
<1> HIDE DEF h
<1> QED
  <2>1. Len(g) = Len(h) /\ \A i \in 1 .. Len(g) : g[i] = h[i]
    BY <1>3, <1>4, <1>5
  <2>2. g = h
    BY <2>1, <1>3, <1>4, SeqEqual
  <2> QED
    BY <2>2 DEF f, g, c, h, u

\* A write into free slots leaves the filled ones alone.
LEMMA FilledSame ==
  ASSUME NEW buf \in [Index -> Byte], NEW new \in [Index -> Byte], NEW a \in Index, NEW b \in Index,
         \A i \in 1 .. Used(a, b) : new[Advance(a, i - 1)] = buf[Advance(a, i - 1)]
  PROVE  Filled(new, a, b) = Filled(buf, a, b)
BY DEF Filled

\* What a direction holds, oldest byte first.
TxSeq == wfifo \o Filled(txBuf, txOut, txIn)
Held == IF rvalid THEN <<rdata>> ELSE <<>>
RxSeq == Filled(rxBuf, rxOut, rxIn) \o Held \o rfifo

\* The chunk that write() copies fits behind what the ring holds, and what is
\* there is what will be published.
ChunkFits ==
  pc \in {"writeCopy", "writePublish"} =>
    /\ in = txIn /\ n \in Nat /\ n > 0 /\ in + n <= BufLen /\ TxUsed + n <= BufLen - 1
    /\ pc = "writePublish" => \A k \in 0 .. n - 1 : txBuf[in + k] = Number(written, k)

\* The transmit side holds what the host is due, up to what was written.
TxInOrder == Due(received, TxSeq) /\ written = Number(received, Len(TxSeq))

\* The chunk that read() copies out stays in the ring until it is released.
ChunkHeld ==
  /\ pc \in {"readCopy", "readPublish"} =>
       out = rxOut /\ n \in Nat /\ n > 0 /\ n <= RxUsed /\ out + n <= BufLen
  /\ user = IF pc = "readPublish" THEN [i \in 1 .. n |-> rxBuf[out + i - 1]] ELSE <<>>

\* The receive side holds what read() is due, up to what the host sent.
RxInOrder == Due(read, RxSeq) /\ sent = Number(read, Len(RxSeq))

\* The types, and where the byte that the routine took may be on its way.
PipeShape ==
  /\ rvalid \in BOOLEAN /\ rdata \in Byte /\ (rvalid => isr = "take")
  /\ Len(rfifo) <= Fifo /\ rxBuf \in [Index -> Byte]
  /\ received \in Byte /\ read \in Byte
  /\ left \in Nat /\ (pc \in {"writeCopy", "readCopy"} => n <= left)

PipeInv == PipeShape /\ ChunkFits /\ TxInOrder /\ ChunkHeld /\ RxInOrder

\* Filled slots are not the ones behind them.
LEMMA SlotsApart ==
  ASSUME NEW a \in Index, NEW b \in Index, NEW i \in 1 .. Used(a, b),
         NEW j \in Nat, Used(a, b) + j <= BufLen - 1
  PROVE  Advance(a, i - 1) # Advance(b, j)
<1>1. i - 1 \in Nat /\ i - 1 <= BufLen /\ j <= BufLen
  BY UsedType
<1>2. Advance(a, i - 1) = IF a + (i - 1) < BufLen THEN a + (i - 1) ELSE (a + (i - 1)) - BufLen
  BY <1>1, AdvanceIs
<1>3. Advance(b, j) = IF b + j < BufLen THEN b + j ELSE (b + j) - BufLen
  BY <1>1, AdvanceIs
<1> QED
  BY <1>2, <1>3 DEF Used, Index

\* A ring that is not full has room for one more.
LEMMA RoomForOne ==
  ASSUME NEW a \in Index, NEW b \in Index, Advance(b, 1) # a
  PROVE  Used(a, b) + 1 <= BufLen - 1
<1>1. Advance(b, 1) = IF b + 1 < BufLen THEN b + 1 ELSE (b + 1) - BufLen
  BY AdvanceIs
<1> QED
  BY <1>1 DEF Used, Index

\* What a step of anyone else leaves to the transmit side.
LEMMA TxFrame ==
  ASSUME [Next]_vars, ~WriteCopy, ~WritePublish, ~IsrGive, ~Take
  PROVE  UNCHANGED <<wfifo, txBuf, txIn, txOut, received, written>>
<1> USE DEF deviceVars, ringVars, hostVars, callVars, isrVars, endVars, driverVars, Return
<1>1. CASE Program
  BY <1>1, Zenon DEF Program, Call, SetTimeout
<1>2. CASE Thread
  <2>1. CASE WriteLook \/ Mask \/ WriteEnable \/ WriteWait \/ WriteQuiet
    BY <2>1, Zenon DEF WriteLook, Mask, WriteEnable, WriteWait, WriteQuiet
  <2>2. CASE ReadLook \/ ReadCopy \/ ReadPublish \/ ReadWait \/ ReadEnable \/ Drain
    BY <2>2, Zenon DEF ReadLook, ReadCopy, ReadPublish, ReadWait, ReadEnable, Drain
  <2> QED
    BY <1>2, <2>1, <2>2, Zenon DEF Thread
<1>3. CASE IsrEnter \/ Isr \/ Tick
  <2>1. CASE IsrEnter \/ IsrControl \/ IsrTake \/ Tick
    BY <2>1, Zenon DEF IsrEnter, IsrControl, IsrTake, Tick
  <2>2. CASE IsrStore \/ IsrReceived \/ IsrGiven
    BY <2>2, Zenon DEF IsrStore, IsrReceived, IsrGiven
  <2> QED
    BY <1>3, <2>1, <2>2, Zenon DEF Isr
<1>4. CASE Host
  BY <1>4, Zenon DEF Host, Send, Pause, HostSend, HostPause
<1>5. CASE UNCHANGED vars
  BY <1>5, Zenon DEF vars
<1> QED
  BY <1>1, <1>2, <1>3, <1>4, <1>5, Zenon DEF Next

\* ... and to a chunk of write().
LEMMA WriteFrame ==
  ASSUME [Next]_vars, ~WriteLook, ~WriteCopy, ~WritePublish
  PROVE  pc' \notin {"writeCopy", "writePublish"} \/ UNCHANGED <<pc, in, n, left>>
<1> USE DEF deviceVars, ringVars, hostVars, callVars, isrVars, endVars, driverVars, Return
<1>1. CASE Program
  BY <1>1, SMT DEF Program, Call, SetTimeout
<1>2. CASE Thread
  <2>1. CASE Mask \/ WriteEnable \/ WriteWait \/ WriteQuiet
    BY <2>1, SMT DEF Mask, WriteEnable, WriteWait, WriteQuiet
  <2>2. CASE ReadLook
    BY <2>2, SMT DEF ReadLook, SmallerOf, RxBytes
  <2>3. CASE ReadCopy \/ ReadPublish \/ ReadWait \/ ReadEnable \/ Drain
    BY <2>3, SMT DEF ReadCopy, ReadPublish, ReadWait, ReadEnable, Drain
  <2> QED
    BY <1>2, <2>1, <2>2, <2>3, Zenon DEF Thread
<1>3. CASE IsrEnter \/ Isr \/ Tick
  <2>1. CASE IsrEnter \/ IsrControl \/ IsrTake \/ Tick
    BY <2>1, Zenon DEF IsrEnter, IsrControl, IsrTake, Tick
  <2>2. CASE IsrStore \/ IsrReceived \/ IsrGive \/ IsrGiven
    BY <2>2, Zenon DEF IsrStore, IsrReceived, IsrGive, IsrGiven
  <2> QED
    BY <1>3, <2>1, <2>2, Zenon DEF Isr
<1>4. CASE Host
  BY <1>4, Zenon DEF Host, Send, Pause, Take
<1>5. CASE UNCHANGED vars
  BY <1>5, Zenon DEF vars
<1> QED
  BY <1>1, <1>2, <1>3, <1>4, <1>5, Zenon DEF Next

\* What a step of anyone else leaves to the receive side.
LEMMA RxFrame ==
  ASSUME [Next]_vars, ~Send, ~IsrControl, ~IsrTake, ~IsrStore, ~ReadPublish
  PROVE  UNCHANGED <<rfifo, rvalid, rdata, rxBuf, rxIn, rxOut, read, sent>>
<1> USE DEF deviceVars, ringVars, hostVars, callVars, isrVars, endVars, driverVars, Return
<1>1. CASE Program
  BY <1>1, Zenon DEF Program, Call, SetTimeout
<1>2. CASE Thread
  <2>1. CASE WriteLook \/ WriteCopy \/ WritePublish \/ Mask \/ WriteEnable \/ WriteWait \/ WriteQuiet
    BY <2>1, Zenon DEF WriteLook, WriteCopy, WritePublish, Mask, WriteEnable, WriteWait, WriteQuiet
  <2>2. CASE ReadLook \/ ReadCopy \/ ReadWait \/ ReadEnable \/ Drain
    BY <2>2, Zenon DEF ReadLook, ReadCopy, ReadWait, ReadEnable, Drain
  <2> QED
    BY <1>2, <2>1, <2>2, Zenon DEF Thread
<1>3. CASE IsrEnter \/ Isr \/ Tick
  BY <1>3, Zenon DEF Isr, IsrEnter, Tick, IsrReceived, IsrGive, IsrGiven, GiveByte
<1>4. CASE Host
  BY <1>4, Zenon DEF Host, Pause, HostPause, Take, HostTake
<1>5. CASE UNCHANGED vars
  BY <1>5, Zenon DEF vars
<1> QED
  BY <1>1, <1>2, <1>3, <1>4, <1>5, Zenon DEF Next

\* ... and to a chunk of read().
LEMMA ReadFrame ==
  ASSUME [Next]_vars, ~ReadLook, ~ReadCopy, ~ReadPublish
  PROVE  /\ pc' \notin {"readCopy", "readPublish"} \/ UNCHANGED <<pc, out, n, left>>
         /\ user' = user
         /\ pc = "readPublish" => pc' = "readPublish"
<1> USE DEF deviceVars, ringVars, hostVars, callVars, isrVars, endVars, driverVars, Return, At
<1>1. CASE Program
  BY <1>1, SMT DEF Program, Call, SetTimeout
<1>2. CASE Thread
  <2>1. CASE WriteLook
    BY <2>1, SMT DEF WriteLook, SmallerOf, TxSpace
  <2>2. CASE WriteCopy \/ WritePublish \/ Mask \/ WriteEnable \/ WriteWait \/ WriteQuiet
    BY <2>2, SMT DEF WriteCopy, WritePublish, Mask, WriteEnable, WriteWait, WriteQuiet
  <2>3. CASE ReadWait \/ ReadEnable \/ Drain
    BY <2>3, SMT DEF ReadWait, ReadEnable, Drain
  <2> QED
    BY <1>2, <2>1, <2>2, <2>3, Zenon DEF Thread
<1>3. CASE IsrEnter \/ Isr \/ Tick
  <2>1. CASE IsrEnter \/ IsrControl \/ IsrTake \/ Tick
    BY <2>1, Zenon DEF IsrEnter, IsrControl, IsrTake, Tick
  <2>2. CASE IsrStore \/ IsrReceived \/ IsrGive \/ IsrGiven
    BY <2>2, Zenon DEF IsrStore, IsrReceived, IsrGive, IsrGiven
  <2> QED
    BY <1>3, <2>1, <2>2, Zenon DEF Isr
<1>4. CASE Host
  BY <1>4, Zenon DEF Host, Send, Pause, Take
<1>5. CASE UNCHANGED vars
  BY <1>5, Zenon DEF vars
<1> QED
  BY <1>1, <1>2, <1>3, <1>4, <1>5, Zenon DEF Next

\* write() never has a negative number of bytes left.
LEMMA LeftKept ==
  ASSUME IInv, PipeShape, [Next]_vars
  PROVE  left' \in Nat /\ (pc' \in {"writeCopy", "readCopy"} => n' <= left')
<1> USE DEF deviceVars, ringVars, hostVars, callVars, isrVars, endVars, driverVars, Return, At
<1>0. left \in Nat /\ n \in Int /\ (pc \in {"writeCopy", "readCopy"} => n <= left)
  BY DEF IInv, Shape, PipeShape
<1>1. CASE Program
  <2>1. CASE \E o \in Calls, k \in Counts, nb \in BOOLEAN : Call(o, k, nb)
    <3>1. PICK o \in Calls, k \in Counts, nb \in BOOLEAN : Call(o, k, nb)
      BY <2>1
    <3>2. left' = (IF o = "close" THEN 0 ELSE k) /\ pc' \in {"writeLook", "readLook", "drain"}
      BY <3>1, Zenon DEF Call
    <3>3. k \in Nat
      OBVIOUS
    <3>4. left' \in Nat
      BY <3>2, <3>3
    <3> QED
      BY <3>2, <3>4
  <2>2. CASE \E t \in TimeoutArgs : SetTimeout(t)
    <3>1. left' = left /\ pc' = pc /\ n' = n
      BY <2>2, Zenon DEF SetTimeout
    <3> QED
      BY <1>0, <3>1
  <2> QED
    BY <1>1, <2>1, <2>2, Zenon DEF Program
<1>2. CASE Thread
  <2>1. CASE WriteLook
    <3>1. CASE left = 0
      BY <1>0, <2>1, <3>1, SMT DEF WriteLook
    <3>2. CASE left # 0
      <4>1. left' = left /\ n' = SmallerOf(TxSpace(txIn, txOut), left)
        BY <2>1, <3>2, Zenon DEF WriteLook
      <4>2. TxSpace(txIn, txOut) \in Int
        BY SMT DEF TxSpace, IInv, Shape, Index
      <4>3. PICK s \in Int : s = TxSpace(txIn, txOut)
        BY <4>2
      <4>4. SmallerOf(s, left) <= left
        BY <1>0 DEF SmallerOf
      <4> QED
        BY <1>0, <4>1, <4>3, <4>4
    <3> QED
      BY <3>1, <3>2
  <2>2. CASE WriteCopy \/ ReadCopy
    <3>1. left' = left - n /\ n <= left /\ pc' \in {"writePublish", "readPublish"}
      BY <1>0, <2>2, SMT DEF WriteCopy, ReadCopy
    <3>2. left' \in Nat
      BY <1>0, <3>1
    <3> QED
      BY <3>1, <3>2
  <2>3. CASE WritePublish \/ Mask \/ WriteEnable \/ WriteWait \/ WriteQuiet
    BY <1>0, <2>3, SMT DEF WritePublish, Mask, WriteEnable, WriteWait, WriteQuiet
  <2>4. CASE ReadLook
    <3>1. CASE pc' # "readCopy"
      <4>1. left' \in {left, 0} /\ pc' # "writeCopy"
        BY <2>4, SMT DEF ReadLook
      <4> QED
        BY <1>0, <3>1, <4>1
    <3>2. CASE pc' = "readCopy"
      <4>1. left' = left /\ n' = SmallerOf(RxBytes(rxIn, rxOut), left)
        BY <2>4, <3>2, SMT DEF ReadLook
      <4>2. RxBytes(rxIn, rxOut) \in Int
        BY SMT DEF RxBytes, IInv, Shape, Index
      <4>3. PICK s \in Int : s = RxBytes(rxIn, rxOut)
        BY <4>2
      <4>4. SmallerOf(s, left) <= left
        BY <1>0 DEF SmallerOf
      <4> QED
        BY <1>0, <4>1, <4>3, <4>4
    <3> QED
      BY <3>1, <3>2
  <2>5. CASE ReadPublish \/ ReadWait \/ ReadEnable \/ Drain
    BY <1>0, <2>5, SMT DEF ReadPublish, ReadWait, ReadEnable, Drain
  <2> QED
    BY <1>2, <2>1, <2>2, <2>3, <2>4, <2>5, Zenon DEF Thread
<1>3. CASE IsrEnter \/ Isr \/ Tick \/ Host \/ UNCHANGED vars
  <2>1. left' = left /\ n' = n /\ pc' = pc
    <3>1. CASE IsrEnter \/ IsrControl \/ IsrTake \/ Tick
      BY <3>1, Zenon DEF IsrEnter, IsrControl, IsrTake, Tick
    <3>2. CASE IsrStore \/ IsrReceived \/ IsrGive \/ IsrGiven
      BY <3>2, Zenon DEF IsrStore, IsrReceived, IsrGive, IsrGiven
    <3>3. CASE Host
      BY <3>3, Zenon DEF Host, Send, Pause, Take
    <3>4. CASE UNCHANGED vars
      BY <3>4, Zenon DEF vars
    <3> QED
      BY <1>3, <3>1, <3>2, <3>3, <3>4, Zenon DEF Isr
  <2> QED
    BY <1>0, <2>1
<1> QED
  BY <1>1, <1>2, <1>3, Zenon DEF Next

\* write() looks, copies, publishes; the routine meanwhile makes room only.
LEMMA ChunkFitsKept ==
  ASSUME IInv, PipeInv, [Next]_vars
  PROVE  ChunkFits'
<1> USE DEF deviceVars, ringVars, hostVars, callVars, isrVars, endVars, driverVars, Return, At
<1>0. /\ txIn \in Index /\ txOut \in Index /\ in \in Index /\ left \in Nat
      /\ txBuf \in [Index -> Byte] /\ written \in Byte
  BY DEF IInv, Shape, Bytes, PipeInv, PipeShape
<1>1. CASE WriteLook
  <2>1. SUFFICES ASSUME pc' = "writeCopy"
                 PROVE  /\ in' = txIn' /\ n' \in Nat /\ n' > 0 /\ in' + n' <= BufLen
                        /\ TxUsed' + n' <= BufLen - 1
    BY <1>1, SMT DEF WriteLook, ChunkFits
  <2>2. /\ left # 0 /\ in' = txIn /\ n' # 0 /\ n' = SmallerOf(TxSpace(txIn, txOut), left)
        /\ txIn' = txIn /\ txOut' = txOut
    BY <1>1, <2>1, SMT DEF WriteLook
  <2>3. PICK k \in Int : k = SmallerOf(TxSpace(txIn, txOut), left)
    <3>0. TxSpace(txIn, txOut) \in Int
      BY <1>0, SMT DEF TxSpace, Index
    <3>1. PICK m \in Int : m = TxSpace(txIn, txOut)
      BY <3>0
    <3>2. SmallerOf(m, left) \in Int
      BY <1>0 DEF SmallerOf
    <3> QED
      BY <3>1, <3>2
  <2>4. k # 0 => k \in Nat /\ k > 0 /\ txIn + k <= BufLen /\ Used(txOut, txIn) + k <= BufLen - 1
    BY <1>0, <2>2, <2>3, SMT DEF SmallerOf, TxSpace, Used, Index
  <2> QED
    BY <2>2, <2>3, <2>4, Zenon DEF TxUsed
<1>2. CASE WriteCopy
  <2>1. /\ in = txIn /\ n \in Nat /\ n > 0 /\ in + n <= BufLen /\ TxUsed + n <= BufLen - 1
        /\ pc' = "writePublish" /\ in' = in /\ n' = n /\ txIn' = txIn /\ txOut' = txOut
        /\ written' = written
        /\ txBuf' = [i \in Index |-> IF i \in in .. in + n - 1 THEN Number(written, i - in)
                                  ELSE txBuf[i]]
    BY <1>2, Zenon DEF WriteCopy, PipeInv, ChunkFits
  <2>2. ASSUME NEW k \in 0 .. n - 1 PROVE txBuf'[in + k] = Number(written, k)
    <3>1. in + k \in Index /\ in + k \in in .. in + n - 1 /\ (in + k) - in = k
      BY <1>0, <2>1 DEF Index
    <3> QED
      BY <2>1, <3>1
  <2> QED
    BY <2>1, <2>2 DEF ChunkFits, TxUsed
<1>3. CASE WritePublish
  BY <1>3, SMT DEF WritePublish, ChunkFits
<1>4. CASE IsrGive
  <2>1. CASE pc \notin {"writeCopy", "writePublish"}
    BY <1>4, <2>1, Zenon DEF IsrGive, ChunkFits
  <2>2. CASE pc \in {"writeCopy", "writePublish"}
    <3>1. /\ in = txIn /\ n \in Nat /\ n > 0 /\ in + n <= BufLen /\ TxUsed + n <= BufLen - 1
          /\ pc = "writePublish" => \A k \in 0 .. n - 1 : txBuf[in + k] = Number(written, k)
      BY <2>2, Zenon DEF PipeInv, ChunkFits
    <3>2. /\ in' = in /\ n' = n /\ pc' = pc /\ txIn' = txIn /\ txBuf' = txBuf /\ written' = written
          /\ txOut' = Advance(txOut, 1) /\ txOut # txIn
      BY <1>4, Zenon DEF IsrGive
    <3>3. Used(txOut, txIn) >= 1
      BY <1>0, <3>2 DEF Used, Index
    <3>4. Used(Advance(txOut, 1), txIn) = Used(txOut, txIn) - 1
      BY <1>0, <3>3, UsedDrop
    <3>5. TxUsed' + n <= BufLen - 1
      <4>1. TxUsed' = TxUsed - 1
        BY <3>2, <3>4, Zenon DEF TxUsed
      <4>2. PICK u \in Nat : u = TxUsed
        BY <1>0, UsedType DEF TxUsed
      <4> QED
        BY <3>1, <4>1, <4>2
    <3> QED
      BY <3>1, <3>2, <3>5, Zenon DEF ChunkFits
  <2> QED
    BY <2>1, <2>2
<1>5. CASE Take
  BY <1>5, Zenon DEF Take, HostTake, PipeInv, ChunkFits, TxUsed
<1>6. CASE ~WriteLook /\ ~WriteCopy /\ ~WritePublish /\ ~IsrGive /\ ~Take
  <2>1. UNCHANGED <<txBuf, txIn, txOut, written>>
    BY <1>6, TxFrame, Zenon
  <2>2. pc' \notin {"writeCopy", "writePublish"} \/ UNCHANGED <<pc, in, n>>
    BY <1>6, WriteFrame, Zenon
  <2> QED
    BY <2>1, <2>2, Zenon DEF PipeInv, ChunkFits, TxUsed
<1> QED
  BY <1>1, <1>2, <1>3, <1>4, <1>5, <1>6, Zenon

\* The transmit side as a pipe: what each step does to it.
TxStep ==
  \/ TxSeq' = TxSeq /\ written' = written /\ received' = received
  \/ /\ n \in Nat /\ n > 0 /\ Len(TxSeq) + n <= Fifo + BufLen - 1
     /\ TxSeq' = TxSeq \o [i \in 1 .. n |-> Number(written, i - 1)]
     /\ written' = Number(written, n) /\ received' = received
  \/ /\ Len(TxSeq) > 0 /\ TxSeq' = SubSeq(TxSeq, 2, Len(TxSeq))
     /\ received' = Number(received, 1) /\ written' = written

\* The transmit side holds bytes, no more than ring and FIFO have room for.
LEMMA TxSeqType ==
  ASSUME IInv
  PROVE  /\ TxSeq \in Seq(Byte) /\ Filled(txBuf, txOut, txIn) \in Seq(Byte)
         /\ Len(TxSeq) = Len(wfifo) + TxUsed /\ TxUsed \in Nat /\ TxUsed <= BufLen - 1
         /\ wfifo \in Seq(Byte) /\ Len(wfifo) \in Nat /\ Len(wfifo) <= Fifo
<1>1. /\ txIn \in Index /\ txOut \in Index /\ txBuf \in [Index -> Byte] /\ wfifo \in Seq(Byte)
      /\ Len(wfifo) <= Fifo
  BY DEF IInv, Shape, Bytes
<1>2. Filled(txBuf, txOut, txIn) \in Seq(Byte) /\ Len(Filled(txBuf, txOut, txIn)) = TxUsed
  BY <1>1, FilledIs DEF TxUsed
<1>3. TxSeq \in Seq(Byte) /\ Len(TxSeq) = Len(wfifo) + Len(Filled(txBuf, txOut, txIn))
  BY <1>1, <1>2, ConcatProperties DEF TxSeq
<1>4. TxUsed \in Nat /\ TxUsed <= BufLen - 1
  BY <1>1, UsedType DEF TxUsed
<1> QED
  BY <1>1, <1>2, <1>3, <1>4, LenProperties

\* Each step of the system puts a piece into the transmit side, takes a byte or
\* does nothing to it.
LEMMA TxSteps ==
  ASSUME IInv, PipeInv, [Next]_vars
  PROVE  TxStep
<1> USE DEF deviceVars, ringVars, hostVars, callVars, isrVars, endVars, driverVars, Return, At
<1>0. /\ txIn \in Index /\ txOut \in Index /\ in \in Index
      /\ txBuf \in [Index -> Byte] /\ written \in Byte /\ received \in Byte
      /\ wfifo \in Seq(Byte)
  BY DEF IInv, Shape, Bytes, PipeInv, PipeShape
<1>1. CASE WriteCopy
  <2>1. /\ in = txIn /\ n \in Nat /\ n > 0 /\ in + n <= BufLen /\ TxUsed + n <= BufLen - 1
        /\ txIn' = txIn /\ txOut' = txOut /\ wfifo' = wfifo
        /\ written' = written /\ received' = received
        /\ txBuf' = [i \in Index |-> IF i \in in .. in + n - 1 THEN Number(written, i - in)
                                  ELSE txBuf[i]]
    BY <1>1, Zenon DEF WriteCopy, PipeInv, ChunkFits
  <2>2. ASSUME NEW i \in 1 .. Used(txOut, txIn)
        PROVE  txBuf'[Advance(txOut, i - 1)] = txBuf[Advance(txOut, i - 1)]
    <3> DEFINE s == Advance(txOut, i - 1)
    <3>1. s \in Index
      <4>1. i - 1 \in Nat /\ i - 1 <= BufLen
        BY <1>0, UsedType, SMTT(30)
      <4> QED
        BY <1>0, <4>1, AdvanceIs
    <3> HIDE DEF s
    <3>2. ASSUME s \in in .. in + n - 1 PROVE FALSE
      <4>1. PICK j \in Nat : s = in + j /\ j < n
        <5>1. s - in \in Nat /\ s = in + (s - in) /\ s - in < n
          BY <1>0, <2>1, <3>1, <3>2 DEF Index
        <5> QED
          BY <5>1
      <4>2. Advance(in, j) = in + j
        <5>1. j <= BufLen /\ in + j < BufLen
          BY <1>0, <2>1, <4>1 DEF Index
        <5> QED
          BY <1>0, <5>1, AdvanceIs
      <4>3. Used(txOut, txIn) + j <= BufLen - 1
        <5>1. PICK u \in Nat : u = Used(txOut, txIn)
          BY <1>0, UsedType
        <5> QED
          BY <5>1, <2>1, <4>1 DEF TxUsed
      <4> QED
        <5>1. Advance(txOut, i - 1) # Advance(txIn, j)
          BY <1>0, <4>3, SlotsApart
        <5> QED
          BY <2>1, <4>1, <4>2, <5>1 DEF s
    <3> QED
      BY <2>1, <3>1, <3>2 DEF s
  <2>3. txBuf' \in [Index -> Byte]
    <3>1. \A i \in Index : Number(written, i - in) \in Byte
      <4> TAKE i \in Index
      <4>1. i - in \in Int
        BY <1>0 DEF Index
      <4> QED
        BY <1>0, <4>1, NumberType
    <3> QED
      BY <1>0, <2>1, <3>1
  <2>4. PICK new \in [Index -> Byte] : new = txBuf'
    BY <2>3
  <2>5. Filled(new, txOut, txIn) = Filled(txBuf, txOut, txIn)
    <3>1. \A i \in 1 .. Used(txOut, txIn) : new[Advance(txOut, i - 1)] = txBuf[Advance(txOut, i - 1)]
      BY <2>2, <2>4, Zenon
    <3>2. new \in [Index -> Byte] /\ txBuf \in [Index -> Byte] /\ txOut \in Index /\ txIn \in Index
      BY <1>0, Zenon
    <3> QED
      BY <3>1, <3>2, FilledSame, Zenon
  <2> QED
    BY <2>1, <2>4, <2>5, Zenon DEF TxStep, TxSeq
<1>2. CASE WritePublish
  <2>1. /\ in = txIn /\ n \in Nat /\ n > 0 /\ in + n <= BufLen /\ TxUsed + n <= BufLen - 1
        /\ \A k \in 0 .. n - 1 : txBuf[in + k] = Number(written, k)
        /\ txIn' = Advance(txIn, n) /\ txOut' = txOut /\ wfifo' = wfifo /\ txBuf' = txBuf
        /\ written' = Number(written, n) /\ received' = received
    BY <1>2, Zenon DEF WritePublish, PipeInv, ChunkFits
  <2> DEFINE t == [i \in 1 .. n |-> Number(written, i - 1)]
  <2>2. t \in Seq(Byte) /\ Len(t) = n
    BY <1>0, <2>1, NumbersAre
  <2>3. ASSUME NEW i \in 1 .. n PROVE txBuf[Advance(txIn, i - 1)] = t[i]
    <3>1. i - 1 \in Nat /\ i - 1 <= BufLen /\ txIn + (i - 1) < BufLen /\ i - 1 \in 0 .. n - 1
      BY <1>0, <2>1 DEF Index
    <3>2. Advance(txIn, i - 1) = txIn + (i - 1)
      BY <1>0, <3>1, AdvanceIs
    <3>3. t[i] = Number(written, i - 1)
      OBVIOUS
    <3> QED
      BY <2>1, <3>1, <3>2, <3>3
  <2> HIDE DEF t
  <2>4. Filled(txBuf, txOut, Advance(txIn, n)) = Filled(txBuf, txOut, txIn) \o t
    <3>1. Used(txOut, txIn) + n <= BufLen - 1
      BY <2>1, Zenon DEF TxUsed
    <3>2. [i \in 1 .. n |-> txBuf[Advance(txIn, i - 1)]] = t
      BY <2>3 DEF t
    <3>3. Filled(txBuf, txOut, Advance(txIn, n)) =
            Filled(txBuf, txOut, txIn) \o [i \in 1 .. n |-> txBuf[Advance(txIn, i - 1)]]
      <4>1. /\ txBuf \in [Index -> Byte] /\ txOut \in Index /\ txIn \in Index
            /\ n \in Nat /\ Used(txOut, txIn) + n <= BufLen - 1
        BY <1>0, <2>1, <3>1, Zenon
      <4>a. QED
        BY <4>1, FilledGrow, ZenonT(60)
    <3> QED
      BY <3>2, <3>3, Zenon
  <2>5. wfifo \o (Filled(txBuf, txOut, txIn) \o t) = TxSeq \o t
    <3>1. Filled(txBuf, txOut, txIn) \in Seq(Byte)
      BY TxSeqType
    <3> QED
      BY <1>0, <2>2, <3>1, Reassociate, ZenonT(60) DEF TxSeq
  <2>6. TxSeq' = TxSeq \o t
    BY <2>1, <2>4, <2>5, Zenon DEF TxSeq
  <2>7. Len(TxSeq) + n <= Fifo + BufLen - 1
    BY TxSeqType, <2>1
  <2> QED
    BY <2>1, <2>6, <2>7, Zenon DEF TxStep, t
<1>3. CASE IsrGive
  <2>1. /\ txOut # txIn /\ Len(wfifo) < Fifo /\ txOut' = Advance(txOut, 1) /\ txIn' = txIn
        /\ txBuf' = txBuf /\ written' = written /\ received' = received
        /\ wfifo' = Append(wfifo, txBuf[txOut])
    <3>1. isr = "transmit" /\ isrSpace > 0
      BY <1>3, Zenon DEF IsrGive
    <3>2. Len(wfifo) < Fifo
      <4>1. PICK w \in Nat : w = Len(wfifo)
        BY <1>0, LenProperties
      <4> QED
        BY <3>1, <4>1, SMT DEF IInv, Shape
    <3> QED
      BY <1>3, <3>2, Zenon DEF IsrGive, GiveByte
  <2> DEFINE f == Filled(txBuf, txOut, txIn)
             g == Filled(txBuf, Advance(txOut, 1), txIn)
             x == txBuf[txOut]
  <2>2. x \in Byte /\ <<x>> \in Seq(Byte)
    BY <1>0
  <2>3. Used(txOut, txIn) \in Nat /\ 1 \in 0 .. Used(txOut, txIn)
    BY <1>0, <2>1 DEF Used, Index
  <2>4. g = SubSeq(f, 2, Used(txOut, txIn))
    <3>1. g = SubSeq(f, 1 + 1, Used(txOut, txIn))
      BY <1>0, <2>3, FilledDrop
    <3> QED
      BY <3>1
  <2>5. f \in Seq(Byte) /\ Len(f) = Used(txOut, txIn) /\ f[1] = x
    <3>1. /\ f \in Seq(Byte) /\ Len(f) = Used(txOut, txIn)
          /\ \A i \in 1 .. Used(txOut, txIn) : f[i] = txBuf[Advance(txOut, i - 1)]
      BY <1>0, FilledIs
    <3>2. Advance(txOut, 0) = txOut
      BY <1>0, AdvanceIs DEF Index
    <3>3. f[1] = txBuf[Advance(txOut, 1 - 1)] /\ 1 - 1 = 0
      BY <2>3, <3>1
    <3> QED
      BY <3>1, <3>2, <3>3
  <2>6. f = <<x>> \o g
    <3> HIDE DEF f, g, x
    <3>1. 1 \in 1 .. Len(f) /\ Len(f) \in 1 .. Len(f)
      BY <2>3, <2>5
    <3>2. SubSeq(f, 1, Len(f)) = <<f[1]>> \o SubSeq(f, 1 + 1, Len(f))
      BY <2>5, <3>1, SubSeqRecursiveFirst
    <3>3. SubSeq(f, 1, Len(f)) = f
      BY <2>5, SubSeqFull
    <3> QED
      BY <2>4, <2>5, <3>2, <3>3
  <2>7. g \in Seq(Byte)
    <3>1. Advance(txOut, 1) \in Index
      BY <1>0, AdvanceIs
    <3> QED
      BY <1>0, <3>1, FilledIs
  <2> HIDE DEF f, g, x
  <2>8. Append(wfifo, x) \o g = wfifo \o f
    <3>1. Append(wfifo, x) = wfifo \o <<x>>
      BY <1>0, <2>2, AppendIsConcat
    <3>2. (wfifo \o <<x>>) \o g = wfifo \o (<<x>> \o g)
      BY <1>0, <2>2, <2>7, Reassociate
    <3> QED
      BY <2>6, <3>1, <3>2
  <2>9. TxSeq' = TxSeq
    BY <2>1, <2>8, Zenon DEF TxSeq, f, g, x
  <2> QED
    BY <2>1, <2>9, Zenon DEF TxStep
<1>4. CASE Take
  <2>1. /\ wfifo # <<>> /\ wfifo' = Tail(wfifo) /\ received' = Number(Head(wfifo), 1)
        /\ txOut' = txOut /\ txIn' = txIn /\ txBuf' = txBuf /\ written' = written
    BY <1>4, Zenon DEF Take, HostTake
  <2> DEFINE f == Filled(txBuf, txOut, txIn)
  <2>2. f \in Seq(Byte) /\ TxSeq = wfifo \o f /\ TxSeq' = Tail(wfifo) \o f
    BY <2>1, TxSeqType, Zenon DEF TxSeq
  <2> HIDE DEF f
  <2>3. /\ Len(wfifo) \in Nat /\ Len(wfifo) > 0 /\ Len(f) \in Nat
        /\ Tail(wfifo) \in Seq(Byte) /\ Head(wfifo) = wfifo[1]
        /\ Tail(wfifo) = SubSeq(wfifo, 2, Len(wfifo))
    BY <1>0, <2>1, <2>2, LenProperties, EmptySeq, HeadTailProperties, TailIsSubSeq
  <2>4. /\ TxSeq \in Seq(Byte) /\ Len(TxSeq) = Len(wfifo) + Len(f)
        /\ \A i \in 1 .. Len(wfifo) + Len(f) :
             TxSeq[i] = IF i <= Len(wfifo) THEN wfifo[i] ELSE f[i - Len(wfifo)]
    BY <1>0, <2>2, ConcatProperties
  <2>5. wfifo[1] = received
    <3>1. 1 \in 1 .. Len(TxSeq) /\ 1 <= Len(wfifo) /\ 1 \in 1 .. Len(wfifo) + Len(f)
      BY <2>3, <2>4
    <3>2. TxSeq[1] = Number(received, 1 - 1)
      BY <3>1, Zenon DEF PipeInv, TxInOrder, Due
    <3>3. TxSeq[1] = wfifo[1]
      BY <2>4, <3>1
    <3>4. Number(received, 1 - 1) = received
      BY <1>0, NumberZero
    <3> QED
      BY <3>2, <3>3, <3>4
  <2>6. Tail(wfifo) \o f = SubSeq(TxSeq, 2, Len(TxSeq))
    <3>1. PICK k \in 0 .. Len(wfifo) : k = 1 /\ k + 1 = 2
      BY <2>3
    <3>2. SubSeq(wfifo \o f, k + 1, Len(wfifo \o f)) = SubSeq(wfifo, k + 1, Len(wfifo)) \o f
      BY <1>0, <2>2, DropConcat
    <3> QED
      BY <2>2, <2>3, <3>1, <3>2, Zenon
  <2>7. Len(TxSeq) > 0
    BY <2>3, <2>4
  <2> QED
    BY <2>1, <2>2, <2>3, <2>5, <2>6, <2>7, Zenon DEF TxStep
<1>5. CASE ~WriteCopy /\ ~WritePublish /\ ~IsrGive /\ ~Take
  <2>1. UNCHANGED <<wfifo, txBuf, txIn, txOut, received, written>>
    BY <1>5, TxFrame, Zenon
  <2> QED
    BY <2>1, Zenon DEF TxStep, TxSeq
<1> QED
  BY <1>1, <1>2, <1>3, <1>4, <1>5, Zenon

\* The receive side as a pipe: what each step does to it.
RxStep ==
  \/ RxSeq' = RxSeq /\ read' = read /\ sent' = sent
  \/ /\ Len(RxSeq) + 1 <= Fifo + BufLen
     /\ RxSeq' = RxSeq \o <<sent>> /\ sent' = Number(sent, 1) /\ read' = read
  \/ /\ n \in Nat /\ n > 0 /\ n <= Len(RxSeq)
     /\ RxSeq' = SubSeq(RxSeq, n + 1, Len(RxSeq)) /\ read' = Number(read, n) /\ sent' = sent

\* Filled slots of a ring to which one is added behind.
LEMMA FilledGrowOne ==
  ASSUME NEW buf \in [Index -> Byte], NEW a \in Index, NEW b \in Index,
         Used(a, b) + 1 <= BufLen - 1
  PROVE  Filled(buf, a, Advance(b, 1)) = Filled(buf, a, b) \o <<buf[b]>>
<1>1. \A k \in Nat : Used(a, b) + k <= BufLen - 1 =>
        Filled(buf, a, Advance(b, k)) =
          Filled(buf, a, b) \o [i \in 1 .. k |-> buf[Advance(b, i - 1)]]
  BY FilledGrow, Zenon
<1>2. 1 \in Nat
  OBVIOUS
<1>3. Filled(buf, a, Advance(b, 1)) =
        Filled(buf, a, b) \o [i \in 1 .. 1 |-> buf[Advance(b, i - 1)]]
  BY <1>1, <1>2, Zenon
<1>4. Advance(b, 0) = b /\ 1 - 1 = 0
  BY AdvanceIs DEF Index
<1>5. \A i \in 1 .. 1 : buf[Advance(b, i - 1)] = buf[b]
  BY <1>4
<1>6. [i \in 1 .. 1 |-> buf[Advance(b, i - 1)]] = <<buf[b]>>
  BY <1>5
<1> QED
  BY <1>3, <1>6, Zenon

\* The receive side holds bytes: ring, then the one the routine holds, then
\* FIFO.
LEMMA RxSeqType ==
  ASSUME IInv, PipeShape
  PROVE  /\ RxSeq \in Seq(Byte) /\ Filled(rxBuf, rxOut, rxIn) \in Seq(Byte) /\ Held \in Seq(Byte)
         /\ Filled(rxBuf, rxOut, rxIn) \o Held \in Seq(Byte) /\ Held \o rfifo \in Seq(Byte)
         /\ Len(Filled(rxBuf, rxOut, rxIn)) = RxUsed
         /\ Len(RxSeq) = (RxUsed + Len(Held)) + Len(rfifo) /\ RxUsed \in Nat /\ RxUsed <= BufLen - 1
         /\ rfifo \in Seq(Byte) /\ Len(rfifo) \in Nat /\ Len(rfifo) <= Fifo
         /\ Len(Held) \in {0, 1}
<1>1. /\ rxIn \in Index /\ rxOut \in Index /\ rxBuf \in [Index -> Byte] /\ rfifo \in Seq(Byte)
      /\ Len(rfifo) <= Fifo /\ rdata \in Byte
  BY DEF IInv, Shape, Bytes, PipeShape
<1>2. Filled(rxBuf, rxOut, rxIn) \in Seq(Byte) /\ Len(Filled(rxBuf, rxOut, rxIn)) = RxUsed
  BY <1>1, FilledIs DEF RxUsed
<1>3. Held \in Seq(Byte) /\ Len(Held) \in {0, 1}
  <2>1. CASE rvalid
    BY <1>1, <2>1 DEF Held
  <2>2. CASE ~rvalid
    BY <2>2 DEF Held
  <2> QED
    BY <2>1, <2>2
<1> DEFINE f == Filled(rxBuf, rxOut, rxIn)
           g == f \o Held
<1> HIDE DEF f
<1>4. g \in Seq(Byte) /\ Len(g) = Len(f) + Len(Held)
  BY <1>2, <1>3, ConcatProperties DEF f
<1> HIDE DEF g
<1>5. g \o rfifo \in Seq(Byte) /\ Len(g \o rfifo) = Len(g) + Len(rfifo)
  BY <1>1, <1>4, ConcatProperties
<1>6. Held \o rfifo \in Seq(Byte)
  BY <1>1, <1>3, ConcatProperties
<1>7. RxUsed \in Nat /\ RxUsed <= BufLen - 1
  BY <1>1, UsedType DEF RxUsed
<1>8. RxSeq = g \o rfifo /\ Len(rfifo) \in Nat
  BY <1>1, LenProperties DEF RxSeq, g, f
<1>9. Len(RxSeq) = (RxUsed + Len(Held)) + Len(rfifo)
  BY <1>2, <1>4, <1>5, <1>8, Zenon DEF f
<1> QED
  BY <1>1, <1>2, <1>3, <1>4, <1>5, <1>6, <1>7, <1>8, <1>9, Zenon DEF f, g

\* Each step of the system puts a byte into the receive side, takes a piece or
\* does nothing to it.
LEMMA RxSteps ==
  ASSUME IInv, PipeInv, [Next]_vars
  PROVE  RxStep
<1> USE DEF deviceVars, ringVars, hostVars, callVars, isrVars, endVars, driverVars, Return, At
<1> DEFINE f == Filled(rxBuf, rxOut, rxIn)
<1>0. /\ rxIn \in Index /\ rxOut \in Index /\ out \in Index
      /\ rxBuf \in [Index -> Byte] /\ sent \in Byte /\ read \in Byte
      /\ rfifo \in Seq(Byte) /\ rdata \in Byte /\ rvalid \in BOOLEAN /\ (rvalid => isr = "take")
  BY DEF IInv, Shape, Bytes, PipeInv, PipeShape
<1>f. /\ f \in Seq(Byte) /\ Len(f) = RxUsed /\ RxUsed \in Nat /\ RxUsed <= BufLen - 1
      /\ RxSeq \in Seq(Byte) /\ RxSeq = (f \o Held) \o rfifo
      /\ f \o Held \in Seq(Byte) /\ Held \in Seq(Byte) /\ Held \o rfifo \in Seq(Byte)
  BY RxSeqType, Zenon DEF PipeInv, RxSeq
<1>1. CASE Send
  <2>1. /\ rfifo' = Append(rfifo, sent) /\ Len(rfifo) < Fifo /\ sent' = Number(sent, 1)
        /\ rxBuf' = rxBuf /\ rxIn' = rxIn /\ rxOut' = rxOut /\ rvalid' = rvalid /\ rdata' = rdata
        /\ read' = read
    BY <1>1, Zenon DEF Send, HostSend
  <2>2. Append(rfifo, sent) = rfifo \o <<sent>> /\ <<sent>> \in Seq(Byte)
    BY <1>0, AppendIsConcat
  <2>3. (f \o Held) \o (rfifo \o <<sent>>) = ((f \o Held) \o rfifo) \o <<sent>>
    <3> DEFINE g == f \o Held
               x == <<sent>>
    <3>1. g \in Seq(Byte) /\ x \in Seq(Byte) /\ rfifo \in Seq(Byte)
      BY <1>0, <1>f, <2>2
    <3> HIDE DEF g, x
    <3>2. (g \o rfifo) \o x = g \o (rfifo \o x)
      BY <3>1, Reassociate, ZenonT(60)
    <3> QED
      BY <3>2, Zenon DEF g, x
  <2>4. RxSeq' = (f \o Held) \o (rfifo \o <<sent>>)
    BY <2>1, <2>2, Zenon DEF RxSeq, Held
  <2>5. Len(RxSeq) + 1 <= Fifo + BufLen
    <3>1. /\ Len(RxSeq) = (RxUsed + Len(Held)) + Len(rfifo) /\ RxUsed \in Nat /\ RxUsed <= BufLen - 1
          /\ Len(Held) \in {0, 1} /\ Len(rfifo) \in Nat
      BY RxSeqType, Zenon DEF PipeInv
    <3>2. PICK a \in Nat, b \in {0, 1}, c \in Nat : a = RxUsed /\ b = Len(Held) /\ c = Len(rfifo)
      BY <3>1
    <3>3. a <= BufLen - 1 /\ c < Fifo
      BY <2>1, <3>1, <3>2, Zenon
    <3>5. b <= 1
      OBVIOUS
    <3>4. ((a + b) + c) + 1 <= Fifo + BufLen
      BY <3>3, <3>5
    <3> QED
      BY <3>1, <3>2, <3>4, Zenon
  <2> QED
    BY <1>f, <2>1, <2>3, <2>4, <2>5, Zenon DEF RxStep
<1>2. CASE IsrControl
  <2>1. /\ isr = "control" /\ rvalid' = FALSE /\ rdata' = rdata
        /\ UNCHANGED <<rxBuf, rxIn, rxOut, rfifo, read, sent>>
    BY <1>2, Zenon DEF IsrControl
  <2>2. Held' = Held
    BY <1>0, <2>1, Zenon DEF Held
  <2> QED
    BY <2>1, <2>2, Zenon DEF RxStep, RxSeq
<1>3. CASE IsrTake
  <2>0. isr = "receive" /\ UNCHANGED <<rxBuf, rxIn, rxOut, read, sent>>
    BY <1>3, Zenon DEF IsrTake
  <2>1. rvalid = FALSE /\ Held = <<>>
    BY <1>0, <2>0, Zenon DEF Held
  <2>2. CASE RxFull \/ rfifo = <<>>
    <3>1. rfifo' = rfifo /\ ~rvalid'
      BY <1>3, <2>1, <2>2, Zenon DEF IsrTake, TakeByte
    <3>2. Held' = Held
      BY <2>1, <3>1, Zenon DEF Held
    <3> QED
      BY <2>0, <3>1, <3>2, Zenon DEF RxStep, RxSeq
  <2>3. CASE ~RxFull /\ rfifo # <<>>
    <3> DEFINE h == <<Head(rfifo)>>
               g == Tail(rfifo)
    <3>1. rfifo' = g /\ Held' = h
      <4>1. rfifo' = Tail(rfifo) /\ rvalid' /\ rdata' = Head(rfifo)
        BY <1>3, <2>3, Zenon DEF IsrTake, TakeByte
      <4> QED
        BY <4>1, Zenon DEF Held
    <3>2. /\ Head(rfifo) \in Byte /\ g \in Seq(Byte) /\ Head(rfifo) = rfifo[1]
          /\ Len(rfifo) \in Nat /\ Len(rfifo) > 0 /\ g = SubSeq(rfifo, 2, Len(rfifo))
      BY <1>0, <2>3, LenProperties, EmptySeq, HeadTailProperties, TailIsSubSeq
    <3>3. h \in Seq(Byte)
      BY <3>2
    <3>4. rfifo = h \o g
      <4>1. 1 \in 1 .. Len(rfifo) /\ Len(rfifo) \in 1 .. Len(rfifo)
        BY <3>2
      <4>2. SubSeq(rfifo, 1, Len(rfifo)) = <<rfifo[1]>> \o SubSeq(rfifo, 1 + 1, Len(rfifo))
        BY <1>0, <4>1, SubSeqRecursiveFirst
      <4>3. SubSeq(rfifo, 1, Len(rfifo)) = rfifo
        BY <1>0, SubSeqFull
      <4>4. 1 + 1 = 2
        OBVIOUS
      <4> QED
        BY <3>2, <4>2, <4>3, <4>4, Zenon
    <3> HIDE DEF f, h, g
    <3>5. (f \o h) \o g = f \o (h \o g)
      <4>1. f \in Seq(Byte) /\ h \in Seq(Byte) /\ g \in Seq(Byte)
        BY <1>f, <3>2, <3>3
      <4> QED
        BY <4>1, Reassociate, ZenonT(60)
    <3>6. f \o Held = f
      BY <1>f, <2>1, ConcatEmptySeq
    <3> QED
      BY <1>f, <2>0, <3>1, <3>4, <3>5, <3>6, Zenon DEF RxStep, RxSeq, f
  <2> QED
    BY <2>2, <2>3
<1>4. CASE IsrStore
  <2>0. /\ isr = "take" /\ ~rvalid' /\ UNCHANGED <<rxOut, rfifo, read, sent>>
    BY <1>4, Zenon DEF IsrStore
  <2>1. CASE ~rvalid
    <3>1. UNCHANGED <<rxBuf, rxIn>> /\ Held' = Held
      BY <1>4, <2>0, <2>1, Zenon DEF IsrStore, Held
    <3> QED
      BY <2>0, <3>1, Zenon DEF RxStep, RxSeq
  <2>2. CASE rvalid
    <3>1. /\ rxBuf' = [rxBuf EXCEPT ![rxIn] = rdata] /\ rxIn' = Advance(rxIn, 1)
          /\ Held = <<rdata>> /\ Held' = <<>>
      BY <1>4, <2>0, <2>2, Zenon DEF IsrStore, Held
    <3>2. PICK new \in [Index -> Byte] : new = [rxBuf EXCEPT ![rxIn] = rdata]
      BY <1>0
    <3>3. Used(rxOut, rxIn) + 1 <= BufLen - 1
      <4>1. Advance(rxIn, 1) # rxOut
        BY <2>0, Zenon DEF IInv, IsrKnows, RxFull
      <4> QED
        BY <1>0, <4>1, RoomForOne
    <3>4. Filled(new, rxOut, rxIn) = f
      <4>1. ASSUME NEW i \in 1 .. Used(rxOut, rxIn)
            PROVE  new[Advance(rxOut, i - 1)] = rxBuf[Advance(rxOut, i - 1)]
        <5>0. PICK u \in Nat : u = Used(rxOut, rxIn) /\ u <= BufLen - 1
          BY <1>0, UsedType
        <5>1. i - 1 \in Nat /\ i - 1 <= BufLen /\ 0 \in Nat /\ Used(rxOut, rxIn) + 0 <= BufLen - 1
          BY <5>0
        <5>2. Advance(rxOut, i - 1) \in Index
          BY <1>0, <5>1, AdvanceIs
        <5>3. Advance(rxOut, i - 1) # Advance(rxIn, 0)
          BY <1>0, <5>1, SlotsApart
        <5>4. Advance(rxIn, 0) = rxIn
          BY <1>0, AdvanceIs DEF Index
        <5> QED
          BY <3>2, <5>2, <5>3, <5>4
      <4> QED
        BY <1>0, <4>1, FilledSame, ZenonT(60)
    <3> DEFINE x == <<rdata>>
    <3>5. Filled(new, rxOut, Advance(rxIn, 1)) = f \o x
      <4>1. Filled(new, rxOut, Advance(rxIn, 1)) = Filled(new, rxOut, rxIn) \o <<new[rxIn]>>
        BY <1>0, <3>3, FilledGrowOne
      <4>2. new[rxIn] = rdata
        BY <1>0, <3>2
      <4> QED
        BY <3>4, <4>1, <4>2, Zenon
    <3>6. f \o x \in Seq(Byte) /\ (f \o x) \o <<>> = f \o x
      <4>1. x \in Seq(Byte)
        BY <1>0
      <4> HIDE DEF f, x
      <4>2. f \o x \in Seq(Byte)
        BY <1>f, <4>1, ConcatProperties
      <4> QED
        BY <4>2, ConcatEmptySeq
    <3>7. RxSeq' = RxSeq
      <4>1. Filled(rxBuf, rxOut, rxIn)' = f \o x
        BY <2>0, <3>1, <3>2, <3>5, Zenon
      <4>2. RxSeq' = ((f \o x) \o <<>>) \o rfifo
        BY <2>0, <3>1, <4>1, Zenon DEF RxSeq
      <4> QED
        BY <1>f, <3>1, <3>6, <4>2, Zenon
    <3> QED
      BY <2>0, <3>7, Zenon DEF RxStep
  <2> QED
    BY <2>1, <2>2
<1>5. CASE ReadPublish
  <2>1. /\ out = rxOut /\ n \in Nat /\ n > 0 /\ n <= RxUsed /\ out + n <= BufLen
        /\ user = [i \in 1 .. n |-> rxBuf[out + i - 1]]
        /\ rxOut' = Advance(out, n) /\ read' = Number(user[n], 1)
        /\ UNCHANGED <<rxBuf, rxIn, rfifo, rvalid, rdata, sent>>
    BY <1>5, Zenon DEF ReadPublish, PipeInv, ChunkHeld
  <2>2. n \in 0 .. Len(f) /\ n \in 0 .. Used(rxOut, rxIn) /\ n \in 1 .. Used(rxOut, rxIn)
    BY <1>f, <2>1 DEF RxUsed
  <2>3. Filled(rxBuf, Advance(rxOut, n), rxIn) = SubSeq(f, n + 1, Len(f))
    <3>1. Filled(rxBuf, Advance(rxOut, n), rxIn) = SubSeq(f, n + 1, Used(rxOut, rxIn))
      BY <1>0, <2>2, FilledDrop
    <3> QED
      BY <1>f, <3>1, Zenon DEF RxUsed
  <2>4. Held' = Held
    BY <2>1, Zenon DEF Held
  <2>5. Len(RxSeq) >= RxUsed /\ Len(RxSeq) \in Nat
    <3>1. /\ Len(RxSeq) = (RxUsed + Len(Held)) + Len(rfifo) /\ RxUsed \in Nat
          /\ Len(Held) \in {0, 1} /\ Len(rfifo) \in Nat
      BY RxSeqType, Zenon DEF PipeInv
    <3> QED
      BY <3>1
  <2>6. f[n] = user[n]
    <3>1. f[n] = rxBuf[Advance(rxOut, n - 1)]
      BY <1>0, <2>2, FilledIs
    <3>2. n - 1 \in Nat /\ n - 1 <= BufLen /\ rxOut + (n - 1) < BufLen /\ rxOut + n - 1 = rxOut + (n - 1)
      BY <1>0, <2>1 DEF Index
    <3>3. Advance(rxOut, n - 1) = rxOut + n - 1
      BY <1>0, <3>2, AdvanceIs
    <3>4. user[n] = rxBuf[out + n - 1]
      BY <2>1
    <3> QED
      BY <2>1, <3>1, <3>3, <3>4
  <2> DEFINE t == Held \o rfifo
  <2> HIDE DEF f, t
  <2>7. RxSeq = f \o t /\ t \in Seq(Byte)
    <3>1. (f \o Held) \o rfifo = f \o (Held \o rfifo)
      <4>1. f \in Seq(Byte) /\ Held \in Seq(Byte) /\ rfifo \in Seq(Byte)
        BY <1>0, <1>f
      <4> QED
        BY <4>1, Reassociate, ZenonT(60)
    <3> QED
      BY <1>f, <3>1, Zenon DEF t
  <2>8. RxSeq' = SubSeq(f, n + 1, Len(f)) \o t
    <3> DEFINE g == SubSeq(f, n + 1, Len(f))
    <3>1. g \in Seq(Byte)
      <4>1. Advance(rxOut, n) \in Index
        <5>1. n <= BufLen
          BY <1>f, <2>1
        <5> QED
          BY <1>0, <2>1, <5>1, AdvanceIs
      <4>2. Filled(rxBuf, Advance(rxOut, n), rxIn) \in Seq(Byte)
        BY <1>0, <4>1, FilledIs
      <4> QED
        BY <2>3, <4>2, Zenon
    <3>2. RxSeq' = (g \o Held) \o rfifo
      BY <2>1, <2>3, <2>4, Zenon DEF RxSeq
    <3> HIDE DEF g
    <3>3. (g \o Held) \o rfifo = g \o (Held \o rfifo)
      <4>1. g \in Seq(Byte) /\ Held \in Seq(Byte) /\ rfifo \in Seq(Byte)
        BY <1>0, <1>f, <3>1
      <4> QED
        BY <4>1, Reassociate, ZenonT(60)
    <3> QED
      BY <3>2, <3>3, Zenon DEF g, t
  <2>9. RxSeq' = SubSeq(RxSeq, n + 1, Len(RxSeq))
    <3>1. SubSeq(f \o t, n + 1, Len(f \o t)) = SubSeq(f, n + 1, Len(f)) \o t
      BY <1>f, <2>2, <2>7, DropConcat
    <3> QED
      BY <2>7, <2>8, <3>1, Zenon
  <2>10. user[n] = Number(read, n - 1)
    <3>1. n \in 1 .. Len(RxSeq) /\ n <= Len(f) /\ n \in 1 .. Len(f) + Len(t) /\ n \in Int
      <4>1. Len(t) \in Nat
        BY <2>7, LenProperties
      <4> QED
        BY <1>f, <2>1, <2>5, <4>1
    <3>2. RxSeq[n] = Number(read, n - 1)
      BY <3>1, Zenon DEF PipeInv, RxInOrder, Due
    <3>3. (f \o t)[n] = f[n]
      <4>1. \A i \in 1 .. Len(f) + Len(t) : (f \o t)[i] = IF i <= Len(f) THEN f[i] ELSE t[i - Len(f)]
        BY <1>f, <2>7, ConcatProperties
      <4> QED
        BY <3>1, <4>1, Zenon
    <3> QED
      BY <2>6, <2>7, <3>2, <3>3, Zenon
  <2>11. read' = Number(read, n)
    <3>1. read \in Int /\ n - 1 \in Int /\ 1 \in Int /\ (n - 1) + 1 = n
      BY <1>0, <2>1
    <3>2. Number(Number(read, n - 1), 1) = Number(read, (n - 1) + 1)
      BY <3>1, NumberPlus
    <3> QED
      BY <2>1, <2>10, <3>1, <3>2, Zenon
  <2>12. n <= Len(RxSeq)
    BY <1>f, <2>1, <2>5
  <2> QED
    BY <2>1, <2>9, <2>11, <2>12, Zenon DEF RxStep
<1>6. CASE ~Send /\ ~IsrControl /\ ~IsrTake /\ ~IsrStore /\ ~ReadPublish
  <2>1. UNCHANGED <<rfifo, rvalid, rdata, rxBuf, rxIn, rxOut, read, sent>>
    BY <1>6, RxFrame, Zenon
  <2> QED
    BY <2>1, Zenon DEF RxStep, RxSeq, Held
<1> QED
  BY <1>1, <1>2, <1>3, <1>4, <1>5, <1>6, Zenon

\* What is due stays due.
LEMMA TxInOrderKept ==
  ASSUME IInv, PipeInv, [Next]_vars
  PROVE  TxInOrder'
<1>0. /\ received \in Byte /\ written \in Byte /\ TxSeq \in Seq(Byte) /\ Len(TxSeq) \in Nat
      /\ Due(received, TxSeq) /\ written = Number(received, Len(TxSeq))
  BY TxSeqType, LenProperties DEF IInv, Bytes, PipeInv, PipeShape, TxInOrder
<1>1. CASE TxSeq' = TxSeq /\ written' = written /\ received' = received
  BY <1>0, <1>1, Zenon DEF TxInOrder
<1>2. CASE /\ n \in Nat /\ n > 0 /\ Len(TxSeq) + n <= Fifo + BufLen - 1
           /\ TxSeq' = TxSeq \o [i \in 1 .. n |-> Number(written, i - 1)]
           /\ written' = Number(written, n) /\ received' = received
  <2> DEFINE t == [i \in 1 .. n |-> Number(written, i - 1)]
  <2>1. t \in Seq(Byte) /\ Len(t) = n /\ Due(written, t)
    BY <1>0, <1>2, NumbersAre
  <2>2. TxSeq' = TxSeq \o t
    BY <1>2
  <2> HIDE DEF t
  <2>3. Due(received, TxSeq \o t)
    <3>1. Due(Number(received, Len(TxSeq)), t)
      BY <1>0, <2>1, Zenon
    <3> QED
      BY <1>0, <2>1, <3>1, DueConcat
  <2>4. Len(TxSeq \o t) = Len(TxSeq) + n
    <3>1. Len(TxSeq \o t) = Len(TxSeq) + Len(t)
      BY <1>0, <2>1, ConcatProperties
    <3> QED
      BY <2>1, <3>1, Zenon
  <2>5. Number(written, n) = Number(received, Len(TxSeq) + n)
    <3>1. received \in Int /\ Len(TxSeq) \in Int /\ n \in Int
      BY <1>0, <1>2
    <3>2. Number(Number(received, Len(TxSeq)), n) = Number(received, Len(TxSeq) + n)
      BY <3>1, NumberPlus
    <3> QED
      BY <1>0, <3>2, Zenon
  <2> QED
    BY <1>2, <2>2, <2>3, <2>4, <2>5, Zenon DEF TxInOrder
<1>3. CASE /\ Len(TxSeq) > 0 /\ TxSeq' = SubSeq(TxSeq, 2, Len(TxSeq))
           /\ received' = Number(received, 1) /\ written' = written
  <2>1. PICK k \in 0 .. Len(TxSeq) : k = 1 /\ k + 1 = 2
    BY <1>0, <1>3
  <2>a. /\ Len(SubSeq(TxSeq, k + 1, Len(TxSeq))) = Len(TxSeq) - k
        /\ Due(Number(received, k), SubSeq(TxSeq, k + 1, Len(TxSeq)))
    BY <1>0, DueSplit
  <2>2. /\ Len(SubSeq(TxSeq, 2, Len(TxSeq))) = Len(TxSeq) - 1
        /\ Due(Number(received, 1), SubSeq(TxSeq, 2, Len(TxSeq)))
    BY <2>1, <2>a, Zenon
  <2>3. Number(Number(received, 1), Len(TxSeq) - 1) = Number(received, Len(TxSeq))
    <3>1. received \in Int /\ Len(TxSeq) - 1 \in Int /\ 1 \in Int /\ 1 + (Len(TxSeq) - 1) = Len(TxSeq)
      BY <1>0
    <3>2. Number(Number(received, 1), Len(TxSeq) - 1) = Number(received, 1 + (Len(TxSeq) - 1))
      BY <3>1, NumberPlus
    <3> QED
      BY <3>1, <3>2, Zenon
  <2> QED
    BY <1>0, <1>3, <2>2, <2>3, Zenon DEF TxInOrder
<1> QED
  BY <1>1, <1>2, <1>3, TxSteps, Zenon DEF TxStep

\* Every step keeps what the receive side holds due.
LEMMA RxInOrderKept ==
  ASSUME IInv, PipeInv, [Next]_vars
  PROVE  RxInOrder'
<1>0. /\ read \in Byte /\ sent \in Byte /\ RxSeq \in Seq(Byte) /\ Len(RxSeq) \in Nat
      /\ Due(read, RxSeq) /\ sent = Number(read, Len(RxSeq))
  BY RxSeqType, LenProperties DEF IInv, Bytes, PipeInv, PipeShape, RxInOrder
<1>1. CASE RxSeq' = RxSeq /\ read' = read /\ sent' = sent
  BY <1>0, <1>1, Zenon DEF RxInOrder
<1>2. CASE /\ Len(RxSeq) + 1 <= Fifo + BufLen
           /\ RxSeq' = RxSeq \o <<sent>> /\ sent' = Number(sent, 1) /\ read' = read
  <2> DEFINE t == <<sent>>
  <2>1. t \in Seq(Byte) /\ Len(t) = 1 /\ Due(sent, t)
    BY <1>0, DueIsOne
  <2>2. RxSeq' = RxSeq \o t
    BY <1>2
  <2> HIDE DEF t
  <2>3. Due(read, RxSeq \o t)
    <3>1. Due(Number(read, Len(RxSeq)), t)
      BY <1>0, <2>1, Zenon
    <3> QED
      BY <1>0, <2>1, <3>1, DueConcat
  <2>4. Len(RxSeq \o t) = Len(RxSeq) + 1
    <3>1. Len(RxSeq \o t) = Len(RxSeq) + Len(t)
      BY <1>0, <2>1, ConcatProperties
    <3> QED
      BY <2>1, <3>1, Zenon
  <2>5. Number(sent, 1) = Number(read, Len(RxSeq) + 1)
    <3>1. read \in Int /\ Len(RxSeq) \in Int /\ 1 \in Int
      BY <1>0
    <3>2. Number(Number(read, Len(RxSeq)), 1) = Number(read, Len(RxSeq) + 1)
      BY <3>1, NumberPlus
    <3> QED
      BY <1>0, <3>2, Zenon
  <2> QED
    BY <1>2, <2>2, <2>3, <2>4, <2>5, Zenon DEF RxInOrder
<1>3. CASE /\ n \in Nat /\ n > 0 /\ n <= Len(RxSeq)
           /\ RxSeq' = SubSeq(RxSeq, n + 1, Len(RxSeq)) /\ read' = Number(read, n) /\ sent' = sent
  <2>1. n \in 0 .. Len(RxSeq)
    BY <1>0, <1>3
  <2>2. /\ Len(SubSeq(RxSeq, n + 1, Len(RxSeq))) = Len(RxSeq) - n
        /\ Due(Number(read, n), SubSeq(RxSeq, n + 1, Len(RxSeq)))
    BY <1>0, <2>1, DueSplit
  <2>3. Number(Number(read, n), Len(RxSeq) - n) = Number(read, Len(RxSeq))
    <3>1. read \in Int /\ Len(RxSeq) - n \in Int /\ n \in Int /\ n + (Len(RxSeq) - n) = Len(RxSeq)
      BY <1>0, <1>3
    <3>2. Number(Number(read, n), Len(RxSeq) - n) = Number(read, n + (Len(RxSeq) - n))
      BY <3>1, NumberPlus
    <3> QED
      BY <3>1, <3>2, Zenon
  <2> QED
    BY <1>0, <1>3, <2>2, <2>3, Zenon DEF RxInOrder
<1> QED
  BY <1>1, <1>2, <1>3, RxSteps, Zenon DEF RxStep

\* read() looks, copies, releases; the routine meanwhile only adds.
LEMMA ChunkHeldKept ==
  ASSUME IInv, PipeInv, [Next]_vars
  PROVE  ChunkHeld'
<1> USE DEF deviceVars, ringVars, hostVars, callVars, isrVars, endVars, driverVars, Return, At
<1>0. /\ rxIn \in Index /\ rxOut \in Index /\ out \in Index /\ left \in Nat
      /\ rxBuf \in [Index -> Byte] /\ rdata \in Byte
  BY DEF IInv, Shape, Bytes, PipeInv, PipeShape
<1>1. CASE ReadLook
  <2>1. user' = user /\ user = <<>> /\ pc' # "readPublish" /\ rxIn' = rxIn /\ rxOut' = rxOut
    BY <1>1, SMT DEF ReadLook, PipeInv, ChunkHeld
  <2>2. ASSUME pc' = "readCopy"
        PROVE  out' = rxOut' /\ n' \in Nat /\ n' > 0 /\ n' <= RxUsed' /\ out' + n' <= BufLen
    <3>1. /\ left # 0 /\ out' = rxOut /\ n' = SmallerOf(RxBytes(rxIn, rxOut), left)
          /\ SmallerOf(RxBytes(rxIn, rxOut), left) > 0
      BY <1>1, <2>2, SMT DEF ReadLook
    <3>2. RxBytes(rxIn, rxOut) \in Int
      BY <1>0, SMT DEF RxBytes, Index
    <3>3. PICK m \in Int : m = RxBytes(rxIn, rxOut)
      BY <3>2
    <3>4. SmallerOf(m, left) \in Int
      BY <1>0 DEF SmallerOf
    <3>5. PICK k \in Int : k = SmallerOf(RxBytes(rxIn, rxOut), left)
      BY <3>3, <3>4
    <3>6. k > 0 => k \in Nat /\ rxOut + k <= BufLen /\ k <= Used(rxOut, rxIn)
      BY <1>0, <3>5, SMT DEF SmallerOf, RxBytes, Used, Index
    <3> QED
      BY <2>1, <3>1, <3>5, <3>6, Zenon DEF RxUsed
  <2> QED
    BY <2>1, <2>2, Zenon DEF ChunkHeld
<1>2. CASE ReadCopy
  <2>1. /\ out = rxOut /\ n \in Nat /\ n > 0 /\ n <= RxUsed /\ out + n <= BufLen
        /\ user' = [i \in 1 .. n |-> rxBuf[out + i - 1]] /\ pc' = "readPublish"
        /\ UNCHANGED <<rxIn, rxOut, rxBuf, out, n>>
    BY <1>2, Zenon DEF ReadCopy, PipeInv, ChunkHeld
  <2> QED
    BY <2>1 DEF ChunkHeld, RxUsed
<1>3. CASE ReadPublish
  <2>1. user' = <<>> /\ pc' = "readLook"
    BY <1>3, Zenon DEF ReadPublish
  <2> QED
    BY <2>1 DEF ChunkHeld
<1>4. CASE IsrStore
  <2>0. UNCHANGED <<pc, out, n, user, rxOut>> /\ isr = "take"
    BY <1>4, Zenon DEF IsrStore
  <2>1. CASE ~rvalid
    <3>1. UNCHANGED <<rxBuf, rxIn>>
      BY <1>4, <2>1, Zenon DEF IsrStore
    <3> QED
      BY <2>0, <3>1, Zenon DEF PipeInv, ChunkHeld, RxUsed
  <2>2. CASE rvalid
    <3>1. rxBuf' = [rxBuf EXCEPT ![rxIn] = rdata] /\ rxIn' = Advance(rxIn, 1)
      BY <1>4, <2>2, Zenon DEF IsrStore
    <3>2. RxUsed' = RxUsed + 1 /\ RxUsed \in Nat
      <4>1. Advance(rxIn, 1) # rxOut
        BY <2>0, Zenon DEF IInv, IsrKnows, RxFull
      <4>2. Used(rxOut, rxIn) + 1 <= BufLen - 1
        BY <1>0, <4>1, RoomForOne
      <4>3. Used(rxOut, Advance(rxIn, 1)) = Used(rxOut, rxIn) + 1
        BY <1>0, <4>2, UsedGrow
      <4>4. Used(rxOut, rxIn) \in Nat
        BY <1>0, UsedType
      <4> QED
        BY <2>0, <3>1, <4>3, <4>4, Zenon DEF RxUsed
    <3>3. CASE pc \notin {"readCopy", "readPublish"}
      <4>1. user = <<>> /\ pc # "readPublish"
        BY <3>3 DEF PipeInv, ChunkHeld
      <4> QED
        BY <2>0, <3>3, <4>1, Zenon DEF ChunkHeld
    <3>4. CASE pc \in {"readCopy", "readPublish"}
      <4>1. out = rxOut /\ n \in Nat /\ n > 0 /\ n <= RxUsed /\ out + n <= BufLen
        BY <3>4, Zenon DEF PipeInv, ChunkHeld
      <4>2. n <= RxUsed'
        BY <3>2, <4>1
      <4>3. ASSUME NEW i \in 1 .. n PROVE rxBuf'[out + i - 1] = rxBuf[out + i - 1]
        <5>1. /\ i - 1 \in Nat /\ i - 1 <= BufLen /\ rxOut + (i - 1) < BufLen
              /\ out + i - 1 = rxOut + (i - 1)
          BY <1>0, <4>1 DEF Index
        <5>2. Advance(rxOut, i - 1) = rxOut + (i - 1) /\ Advance(rxOut, i - 1) \in Index
          BY <1>0, <5>1, AdvanceIs
        <5>3. i \in 1 .. Used(rxOut, rxIn)
          BY <3>2, <4>1 DEF RxUsed
        <5>4. PICK u \in Nat : u = Used(rxOut, rxIn) /\ u <= BufLen - 1
          BY <1>0, UsedType
        <5>5. 0 \in Nat /\ Used(rxOut, rxIn) + 0 <= BufLen - 1
          BY <5>4
        <5>6. Advance(rxOut, i - 1) # Advance(rxIn, 0)
          BY <1>0, <5>3, <5>5, SlotsApart
        <5>7. Advance(rxIn, 0) = rxIn
          BY <1>0, AdvanceIs DEF Index
        <5> QED
          BY <1>0, <3>1, <5>1, <5>2, <5>6, <5>7
      <4>4. [i \in 1 .. n |-> rxBuf'[out + i - 1]] = [i \in 1 .. n |-> rxBuf[out + i - 1]]
        BY <4>3
      <4>5. user' = IF pc' = "readPublish" THEN [i \in 1 .. n |-> rxBuf'[out + i - 1]] ELSE <<>>
        BY <2>0, <4>4, Zenon DEF PipeInv, ChunkHeld
      <4> QED
        BY <2>0, <4>1, <4>2, <4>5, Zenon DEF ChunkHeld
    <3> QED
      BY <3>3, <3>4
  <2> QED
    BY <2>1, <2>2
<1>5. CASE ~ReadLook /\ ~ReadCopy /\ ~ReadPublish /\ ~IsrStore
  <2>1. /\ pc' \notin {"readCopy", "readPublish"} \/ UNCHANGED <<pc, out, n>>
        /\ user' = user /\ (pc = "readPublish" => pc' = "readPublish")
    BY <1>5, ReadFrame, Zenon
  <2>2. UNCHANGED <<rxBuf, rxIn, rxOut>>
    <3>1. CASE Send
      BY <3>1, Zenon DEF Send
    <3>2. CASE IsrControl \/ IsrTake
      BY <3>2, Zenon DEF IsrControl, IsrTake
    <3>3. CASE ~Send /\ ~IsrControl /\ ~IsrTake
      BY <1>5, <3>3, RxFrame, Zenon
    <3> QED
      BY <3>1, <3>2, <3>3
  <2>3. CASE UNCHANGED <<pc, out, n>>
    BY <2>1, <2>2, <2>3, Zenon DEF PipeInv, ChunkHeld, RxUsed
  <2>4. CASE pc' \notin {"readCopy", "readPublish"}
    <3>1. pc # "readPublish" /\ pc' # "readPublish"
      BY <2>1, <2>4
    <3>2. user = <<>>
      BY <3>1, Zenon DEF PipeInv, ChunkHeld
    <3> QED
      BY <2>1, <2>4, <3>1, <3>2, Zenon DEF ChunkHeld
  <2> QED
    BY <2>1, <2>3, <2>4, Zenon
<1> QED
  BY <1>1, <1>2, <1>3, <1>4, <1>5, Zenon

\* Every step keeps the types, and the byte the routine holds where it is used.
LEMMA PipeShapeKept ==
  ASSUME IInv, PipeInv, [Next]_vars
  PROVE  PipeShape'
<1> USE DEF deviceVars, ringVars, hostVars, callVars, isrVars, endVars, driverVars, Return, At
<1>0. /\ rxIn \in Index /\ rxBuf \in [Index -> Byte] /\ rdata \in Byte /\ rvalid \in BOOLEAN
      /\ (rvalid => isr = "take") /\ received \in Byte /\ read \in Byte
      /\ rfifo \in Seq(Byte) /\ Len(rfifo) <= Fifo /\ wfifo \in Seq(Byte) /\ Len(rfifo) \in Nat
  BY LenProperties DEF IInv, Shape, Bytes, PipeInv, PipeShape
<1>1. left' \in Nat /\ (pc' \in {"writeCopy", "readCopy"} => n' <= left')
  BY LeftKept, Zenon DEF PipeInv
<1>2. rvalid' \in BOOLEAN /\ (rvalid' => isr' = "take")
  <2>1. CASE IsrControl \/ IsrStore
    <3>1. ~rvalid' /\ rvalid' \in BOOLEAN
      BY <2>1, Zenon DEF IsrControl, IsrStore
    <3> QED
      BY <3>1
  <2>2. CASE IsrTake
    <3>1. isr = "receive"
      BY <2>2, Zenon DEF IsrTake
    <3>2. ~rvalid
      BY <1>0, <3>1
    <3>3. CASE RxFull
      BY <2>2, <3>2, <3>3, <1>0, Zenon DEF IsrTake
    <3>4. CASE ~RxFull
      BY <2>2, <3>4, Zenon DEF IsrTake
    <3> QED
      BY <3>3, <3>4
  <2>3. CASE ~IsrControl /\ ~IsrStore /\ ~IsrTake
    <3>1. rvalid' = rvalid
      <4>1. CASE Send
        BY <4>1, Zenon DEF Send
      <4>2. CASE ReadPublish
        BY <4>2, Zenon DEF ReadPublish
      <4>3. CASE ~Send /\ ~ReadPublish
        BY <2>3, <4>3, RxFrame, Zenon
      <4> QED
        BY <4>1, <4>2, <4>3
    <3>2. isr = "take" => isr' = "take"
      <4>1. CASE Program \/ Thread
        BY <4>1, Zenon DEF Program, Thread, Call, SetTimeout, WriteLook, WriteCopy, WritePublish,
           Mask, WriteEnable, WriteWait, WriteQuiet, ReadLook, ReadCopy, ReadPublish, ReadWait,
           ReadEnable, Drain
      <4>2. CASE IsrEnter \/ IsrReceived \/ IsrGive \/ IsrGiven \/ Tick
        BY <4>2, Zenon DEF IsrEnter, IsrReceived, IsrGive, IsrGiven, Tick
      <4>3. CASE Host
        BY <4>3, Zenon DEF Host, Send, Pause, Take
      <4>4. CASE UNCHANGED vars
        BY <4>4, Zenon DEF vars
      <4> QED
        BY <2>3, <4>1, <4>2, <4>3, <4>4, Zenon DEF Next, Isr
    <3> QED
      BY <1>0, <3>1, <3>2, Zenon
  <2> QED
    BY <2>1, <2>2, <2>3, Zenon
<1>3. rdata' \in Byte /\ Len(rfifo') <= Fifo /\ rxBuf' \in [Index -> Byte]
  <2>1. CASE Send
    <3>1. /\ rdata' = rdata /\ rxBuf' = rxBuf /\ rfifo' = Append(rfifo, sent) /\ Len(rfifo) < Fifo
      BY <2>1, Zenon DEF Send, HostSend
    <3>2. Len(rfifo') = Len(rfifo) + 1
      BY <1>0, <3>1
    <3> QED
      BY <1>0, <3>1, <3>2
  <2>2. CASE IsrControl
    <3>1. rdata' = rdata /\ rxBuf' = rxBuf /\ rfifo' = rfifo
      BY <2>2, Zenon DEF IsrControl
    <3> QED
      BY <1>0, <3>1, Zenon
  <2>3. CASE IsrTake
    <3>1. rxBuf' = rxBuf
      BY <2>3, Zenon DEF IsrTake
    <3>2. CASE RxFull
      <4>1. rdata' = rdata /\ rfifo' = rfifo
        BY <2>3, <3>2, Zenon DEF IsrTake
      <4> QED
        BY <1>0, <3>1, <4>1, Zenon
    <3>3. CASE ~RxFull /\ rfifo = <<>>
      <4>1. rdata' = 0 /\ rfifo' = rfifo /\ 0 \in Byte
        BY <2>3, <3>3 DEF IsrTake, TakeByte
      <4> QED
        BY <1>0, <3>1, <4>1, Zenon
    <3>4. CASE ~RxFull /\ rfifo # <<>>
      <4>1. rdata' = Head(rfifo) /\ rfifo' = Tail(rfifo)
        BY <2>3, <3>4, Zenon DEF IsrTake, TakeByte
      <4>2. Head(rfifo) \in Byte /\ Len(Tail(rfifo)) = Len(rfifo) - 1
        BY <1>0, <3>4, HeadTailProperties
      <4>3. Len(rfifo) - 1 <= Fifo
        BY <1>0
      <4> QED
        BY <1>0, <3>1, <4>1, <4>2, <4>3, Zenon
    <3> QED
      BY <3>2, <3>3, <3>4
  <2>4. CASE IsrStore
    <3>1. rdata' = 0 /\ rfifo' = rfifo /\ 0 \in Byte
      BY <2>4 DEF IsrStore
    <3>2. rxBuf' = rxBuf \/ rxBuf' = [rxBuf EXCEPT ![rxIn] = rdata]
      BY <2>4, Zenon DEF IsrStore
    <3>3. rxBuf' \in [Index -> Byte]
      BY <1>0, <3>2
    <3> QED
      BY <1>0, <3>1, <3>3, Zenon
  <2>5. CASE ReadPublish
    <3>1. rdata' = rdata /\ rxBuf' = rxBuf /\ rfifo' = rfifo
      BY <2>5, Zenon DEF ReadPublish
    <3> QED
      BY <1>0, <3>1, Zenon
  <2>6. CASE ~Send /\ ~IsrControl /\ ~IsrTake /\ ~IsrStore /\ ~ReadPublish
    <3>1. rdata' = rdata /\ rxBuf' = rxBuf /\ rfifo' = rfifo
      BY <2>6, RxFrame, Zenon
    <3> QED
      BY <1>0, <3>1, Zenon
  <2> QED
    BY <2>1, <2>2, <2>3, <2>4, <2>5, <2>6, Zenon
<1>4. received' \in Byte
  <2>1. received' = received \/ received' = Number(received, 1)
    BY TxSteps, Zenon DEF TxStep
  <2>2. Number(received, 1) \in Byte
    <3>1. 1 \in Int
      OBVIOUS
    <3> QED
      BY <1>0, <3>1, NumberType, Zenon
  <2> QED
    BY <1>0, <2>1, <2>2, Zenon
<1>5. read' \in Byte
  <2>1. read' = read \/ (n \in Nat /\ read' = Number(read, n))
    BY RxSteps, Zenon DEF RxStep
  <2>2. n \in Nat => Number(read, n) \in Byte
    <3>1. n \in Nat => n \in Int
      OBVIOUS
    <3> QED
      BY <1>0, <3>1, NumberType, Zenon
  <2> QED
    BY <1>0, <2>1, <2>2, Zenon
<1> QED
  BY <1>1, <1>2, <1>3, <1>4, <1>5, Zenon DEF PipeShape

\* Both sides start empty.
LEMMA PipeInitially == Init => PipeInv
<1> SUFFICES ASSUME Init PROVE PipeInv
  OBVIOUS
<1>1. /\ rfifo = <<>> /\ wfifo = <<>> /\ rxIn = 0 /\ rxOut = 0 /\ txIn = 0 /\ txOut = 0
      /\ pc = "idle" /\ rvalid = FALSE /\ rdata = 0 /\ left = 0 /\ user = <<>>
      /\ written = 0 /\ read = 0 /\ sent = 0 /\ received = 0
      /\ rxBuf = [i \in Index |-> 0]
  BY DEF Init
<1>2. 0 \in Byte /\ 0 \in Index /\ Number(0, 0) = 0
  <2>1. 0 \in Byte /\ 0 \in Index
    BY DEF Index
  <2> QED
    BY <2>1, NumberZero
<1>3. \A buf : Filled(buf, 0, 0) = <<>>
  BY DEF Filled, Used
<1>4. TxSeq = <<>> /\ RxSeq = <<>>
  BY <1>1, <1>3 DEF TxSeq, RxSeq, Held
<1>5. Due(0, <<>>) /\ Len(<<>>) = 0
  BY DEF Due
<1>6. TxInOrder /\ RxInOrder
  BY <1>1, <1>2, <1>4, <1>5, Zenon DEF TxInOrder, RxInOrder
<1>7. ChunkFits /\ ChunkHeld
  BY <1>1 DEF ChunkFits, ChunkHeld
<1>8. PipeShape
  <2>1. rxBuf \in [Index -> Byte]
    BY <1>1, <1>2
  <2>2. Len(rfifo) <= Fifo
    BY <1>1, EmptySeq
  <2>3. received \in Byte /\ read \in Byte /\ rdata \in Byte /\ left \in Nat
    BY <1>1, <1>2
  <2> QED
    BY <1>1, <2>1, <2>2, <2>3, Zenon DEF PipeShape
<1> QED
  BY <1>6, <1>7, <1>8 DEF PipeInv

\* The contents of both rings, for every size of ring and FIFO.
THEOREM PipeInvariant == Spec => [](IInv /\ PipeInv)
<1>1. ASSUME IInv, PipeInv, [Next]_vars PROVE PipeInv'
  BY <1>1, PipeShapeKept, ChunkFitsKept, TxInOrderKept, ChunkHeldKept, RxInOrderKept, Zenon
     DEF PipeInv
<1>2. IInv /\ PipeInv /\ [Next]_vars => PipeInv'
  BY <1>1
<1> QED
  BY Inductive, PipeInitially, <1>2, PTL DEF Spec

\* A step of the transmit side is a step of the pipe or none.
LEMMA TxImplements ==
  ASSUME IInv, PipeInv, [Next]_vars
  PROVE  [Tx!Put \/ Tx!Get]_(Tx!vars)
<1>0. /\ received \in Byte /\ written \in Byte /\ TxSeq \in Seq(Byte) /\ Len(TxSeq) \in Nat
      /\ Due(received, TxSeq)
  BY TxSeqType, LenProperties DEF IInv, Bytes, PipeInv, PipeShape, TxInOrder
<1>1. CASE TxSeq' = TxSeq /\ written' = written /\ received' = received
  BY <1>1, Zenon DEF Tx!vars, TxSeq
<1>2. CASE /\ n \in Nat /\ n > 0 /\ Len(TxSeq) + n <= Fifo + BufLen - 1
           /\ TxSeq' = TxSeq \o [i \in 1 .. n |-> Number(written, i - 1)]
           /\ written' = Number(written, n) /\ received' = received
  <2>1. n \in 1 .. (Fifo + BufLen - 1) - Len(TxSeq)
    BY <1>0, <1>2
  <2>2. Tx!Numbers(written, n) = [i \in 1 .. n |-> Number(written, i - 1)]
    BY <1>0, <1>2 DEF Tx!Numbers, Number
  <2>3. Tx!Put
    <3>1. n \in 1 .. (Fifo + BufLen - 1) - Len(wfifo \o Filled(txBuf, txOut, txIn))
      BY <2>1, Zenon DEF TxSeq
    <3>2. /\ (wfifo \o Filled(txBuf, txOut, txIn))'
               = (wfifo \o Filled(txBuf, txOut, txIn)) \o Tx!Numbers(written, n)
          /\ written' = (written + n) % ByteCount /\ received' = received
      BY <1>2, <2>2, Zenon DEF TxSeq, Number
    <3> QED
      BY <3>1, <3>2, Zenon DEF Tx!Put
  <2> QED
    BY <2>3
<1>3. CASE /\ Len(TxSeq) > 0 /\ TxSeq' = SubSeq(TxSeq, 2, Len(TxSeq))
           /\ received' = Number(received, 1) /\ written' = written
  <2>1. PICK k \in 1 .. Len(TxSeq) : k = 1 /\ k + 1 = 2
    BY <1>0, <1>3
  <2>2. SubSeq(TxSeq, 1, k) = Tx!Numbers(received, k)
    <3>1. k \in 0 .. Len(TxSeq) /\ k \in Nat
      BY <1>0
    <3>2. /\ SubSeq(TxSeq, 1, k) \in Seq(Byte) /\ Len(SubSeq(TxSeq, 1, k)) = k
          /\ Due(received, SubSeq(TxSeq, 1, k))
      BY <1>0, <3>1, DueSplit
    <3>3. SubSeq(TxSeq, 1, k) = [i \in 1 .. Len(SubSeq(TxSeq, 1, k)) |-> Number(received, i - 1)]
      BY <1>0, <3>2, DueIs
    <3>4. [i \in 1 .. k |-> Number(received, i - 1)] = Tx!Numbers(received, k)
      BY <1>0, <3>1 DEF Tx!Numbers, Number
    <3> QED
      BY <3>2, <3>3, <3>4, Zenon
  <2>3. /\ TxSeq' = SubSeq(TxSeq, k + 1, Len(TxSeq)) /\ received' = (received + k) % ByteCount
    BY <1>3, <2>1, Zenon DEF Number
  <2>4. Tx!Get
    BY <1>3, <2>2, <2>3, Zenon DEF Tx!Get, TxSeq
  <2> QED
    BY <2>4
<1> QED
  BY <1>1, <1>2, <1>3, TxSteps, Zenon DEF TxStep

\* What write() accepts reaches the host once and in order, whatever the size
\* of ring and FIFO: the transmit side is the bounded pipe BytePipe
\* (altera_avalon_jtag_uart_write.c:106, _init.c:172).
THEOREM TransmitIsPipe == Spec => TxPipe
<1>1. Init => Tx!Init
  <2> SUFFICES ASSUME Init PROVE Tx!Init
    OBVIOUS
  <2>1. written = 0 /\ received = 0 /\ wfifo = <<>> /\ txIn = 0 /\ txOut = 0
    BY DEF Init
  <2>2. wfifo \o Filled(txBuf, txOut, txIn) = <<>>
    BY <2>1 DEF Filled, Used
  <2> QED
    BY <2>1, <2>2 DEF Tx!Init
<1>2. IInv /\ PipeInv /\ [Next]_vars => [Tx!Put \/ Tx!Get]_(Tx!vars)
  BY TxImplements
<1> QED
  BY PipeInvariant, <1>1, <1>2, PTL DEF Spec, TxPipe, Tx!Spec

\* A step of the receive side is a step of the pipe or none.
LEMMA RxImplements ==
  ASSUME IInv, PipeInv, [Next]_vars
  PROVE  [Rx!Put \/ Rx!Get]_(Rx!vars)
<1>0. /\ read \in Byte /\ sent \in Byte /\ RxSeq \in Seq(Byte) /\ Len(RxSeq) \in Nat
      /\ Due(read, RxSeq)
  BY RxSeqType, LenProperties DEF IInv, Bytes, PipeInv, PipeShape, RxInOrder
<1>1. CASE RxSeq' = RxSeq /\ read' = read /\ sent' = sent
  BY <1>1, Zenon DEF Rx!vars, RxSeq, Held
<1>2. CASE /\ Len(RxSeq) + 1 <= Fifo + BufLen
           /\ RxSeq' = RxSeq \o <<sent>> /\ sent' = Number(sent, 1) /\ read' = read
  <2>1. PICK k \in 1 .. (Fifo + BufLen) - Len(RxSeq) : k = 1
    BY <1>0, <1>2
  <2>2. Rx!Numbers(sent, k) = <<sent>>
    <3>1. (sent + 1 - 1) % ByteCount = sent
      <4>1. Number(sent, 0) = sent /\ sent + 1 - 1 = sent + 0
        BY <1>0, NumberZero
      <4> QED
        BY <4>1, Zenon DEF Number
    <3>2. Rx!Numbers(sent, 1) = [i \in 1 .. 1 |-> (sent + i - 1) % ByteCount]
      BY DEF Rx!Numbers
    <3>3. \A i \in 1 .. 1 : (sent + i - 1) % ByteCount = sent
      BY <3>1
    <3>4. [i \in 1 .. 1 |-> (sent + i - 1) % ByteCount] = [i \in 1 .. 1 |-> sent]
      BY <3>3, Zenon
    <3>5. [i \in 1 .. 1 |-> sent] = <<sent>>
      OBVIOUS
    <3> QED
      BY <2>1, <3>2, <3>4, <3>5, Zenon
  <2>3. RxSeq' = RxSeq \o Rx!Numbers(sent, k) /\ sent' = (sent + k) % ByteCount /\ read' = read
    BY <1>2, <2>1, <2>2, Zenon DEF Number
  <2>4. Rx!Put
    BY <2>3, Zenon DEF Rx!Put, RxSeq, Held
  <2> QED
    BY <2>4
<1>3. CASE /\ n \in Nat /\ n > 0 /\ n <= Len(RxSeq)
           /\ RxSeq' = SubSeq(RxSeq, n + 1, Len(RxSeq)) /\ read' = Number(read, n) /\ sent' = sent
  <2>1. n \in 0 .. Len(RxSeq) /\ n \in 1 .. Len(RxSeq)
    BY <1>0, <1>3
  <2>2. SubSeq(RxSeq, 1, n) = Rx!Numbers(read, n)
    <3>2. /\ SubSeq(RxSeq, 1, n) \in Seq(Byte) /\ Len(SubSeq(RxSeq, 1, n)) = n
          /\ Due(read, SubSeq(RxSeq, 1, n))
      BY <1>0, <2>1, DueSplit
    <3>3. SubSeq(RxSeq, 1, n) = [i \in 1 .. Len(SubSeq(RxSeq, 1, n)) |-> Number(read, i - 1)]
      BY <1>0, <3>2, DueIs
    <3>4. [i \in 1 .. n |-> Number(read, i - 1)] = Rx!Numbers(read, n)
      BY <1>0, <1>3 DEF Rx!Numbers, Number
    <3> QED
      BY <3>2, <3>3, <3>4, Zenon
  <2>3. Rx!Get
    BY <1>3, <2>1, <2>2, Zenon DEF Rx!Get, RxSeq, Held, Number
  <2> QED
    BY <2>3
<1> QED
  BY <1>1, <1>2, <1>3, RxSteps, Zenon DEF RxStep

\* What the host sends reaches the callers of read() once and in order, whatever
\* the size of ring and FIFO and whatever the interrupt routine is holding: the
\* receive side is the bounded pipe BytePipe (altera_avalon_jtag_uart_init.c:125).
THEOREM ReceiveIsPipe == Spec => RxPipe
<1>1. Init => Rx!Init
  <2> SUFFICES ASSUME Init PROVE Rx!Init
    OBVIOUS
  <2>1. sent = 0 /\ read = 0 /\ rfifo = <<>> /\ rxIn = 0 /\ rxOut = 0 /\ ~rvalid
    BY DEF Init
  <2>2. Filled(rxBuf, rxOut, rxIn) \o (IF rvalid THEN <<rdata>> ELSE <<>>) \o rfifo = <<>>
    BY <2>1 DEF Filled, Used
  <2> QED
    BY <2>1, <2>2 DEF Rx!Init
<1>2. IInv /\ PipeInv /\ [Next]_vars => [Rx!Put \/ Rx!Get]_(Rx!vars)
  BY RxImplements
<1> QED
  BY PipeInvariant, <1>1, <1>2, PTL DEF Spec, RxPipe, Rx!Spec

\* What read() hands its caller are the bytes that are due, although it copies
\* them out of the ring before it releases them, and the interrupt routine goes
\* on filling the ring meanwhile (altera_avalon_jtag_uart_read.c:137).
THEOREM ReadersGetWhatIsDue == Spec => []UserBytesDue
<1>1. IInv /\ PipeInv => UserBytesDue
  <2> SUFFICES ASSUME IInv, PipeInv PROVE UserBytesDue
    OBVIOUS
  <2> DEFINE f == Filled(rxBuf, rxOut, rxIn)
             t == Held \o rfifo
  <2>0. /\ rxIn \in Index /\ rxOut \in Index /\ rxBuf \in [Index -> Byte] /\ read \in Byte
        /\ rfifo \in Seq(Byte)
    BY DEF IInv, Shape, Bytes, PipeInv, PipeShape
  <2>1. CASE pc # "readPublish"
    <3>1. user = <<>>
      BY <2>1, Zenon DEF PipeInv, ChunkHeld
    <3>2. Rx!Numbers(read, 0) = <<>>
      BY DEF Rx!Numbers
    <3> QED
      BY <3>1, <3>2 DEF UserBytesDue
  <2>2. CASE pc = "readPublish"
    <3>1. /\ n \in Nat /\ n > 0 /\ n <= RxUsed /\ rxOut + n <= BufLen
          /\ user = [i \in 1 .. n |-> rxBuf[rxOut + i - 1]]
      BY <2>2 DEF PipeInv, ChunkHeld
    <3>2. /\ f \in Seq(Byte) /\ Len(f) = RxUsed /\ RxUsed \in Nat
          /\ Held \in Seq(Byte) /\ t \in Seq(Byte) /\ RxSeq = (f \o Held) \o rfifo
          /\ RxSeq \in Seq(Byte) /\ Len(RxSeq) \in Nat
      BY RxSeqType, LenProperties, Zenon DEF PipeInv, RxSeq
    <3>3. RxSeq = f \o t
      <4> HIDE DEF f
      <4>1. f \in Seq(Byte) /\ Held \in Seq(Byte) /\ rfifo \in Seq(Byte)
        BY <2>0, <3>2
      <4>2. (f \o Held) \o rfifo = f \o (Held \o rfifo)
        BY <4>1, Reassociate, ZenonT(60)
      <4> QED
        BY <3>2, <4>2, Zenon
    <3>4. ASSUME NEW i \in 1 .. n PROVE user[i] = (read + i - 1) % ByteCount
      <4>1. /\ i - 1 \in Nat /\ i - 1 <= BufLen /\ rxOut + (i - 1) < BufLen
            /\ rxOut + i - 1 = rxOut + (i - 1) /\ read + i - 1 = read + (i - 1)
        BY <2>0, <3>1 DEF Index
      <4>2. user[i] = rxBuf[rxOut + (i - 1)]
        BY <3>1, <4>1
      <4>3. Advance(rxOut, i - 1) = rxOut + (i - 1)
        BY <2>0, <4>1, AdvanceIs
      <4>4. i \in 1 .. Used(rxOut, rxIn)
        BY <3>1, <3>2 DEF RxUsed
      <4>5. f[i] = rxBuf[Advance(rxOut, i - 1)]
        BY <2>0, <4>4, FilledIs
      <4> HIDE DEF f, t
      <4>6. /\ Len(f \o t) = Len(f) + Len(t) /\ Len(t) \in Nat
            /\ \A j \in 1 .. Len(f) + Len(t) : (f \o t)[j] = IF j <= Len(f) THEN f[j] ELSE t[j - Len(f)]
        BY <3>2, ConcatProperties, LenProperties
      <4>7. i \in 1 .. Len(f) + Len(t) /\ i <= Len(f)
        BY <3>1, <3>2, <4>6
      <4>8. (f \o t)[i] = f[i] /\ i \in 1 .. Len(RxSeq)
        BY <3>3, <4>6, <4>7, Zenon
      <4>9. RxSeq[i] = Number(read, i - 1)
        BY <4>8, Zenon DEF PipeInv, RxInOrder, Due
      <4> QED
        BY <3>3, <4>1, <4>2, <4>3, <4>5, <4>8, <4>9, Zenon DEF Number
    <3>5. Len(user) = n
      <4>1. user \in [1 .. n -> Byte]
        <5>1. \A i \in 1 .. n : rxOut + i - 1 \in Index
          BY <2>0, <3>1 DEF Index
        <5> QED
          BY <2>0, <3>1, <5>1
      <4> QED
        BY <3>1, <4>1, SeqOf
    <3>6. user = [i \in 1 .. n |-> (read + i - 1) % ByteCount]
      BY <3>1, <3>4
    <3> QED
      BY <3>5, <3>6, Zenon DEF UserBytesDue, Rx!Numbers
  <2> QED
    BY <2>1, <2>2
<1> QED
  BY PipeInvariant, <1>1, PTL
===============================================================================
