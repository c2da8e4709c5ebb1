------------------------------ MODULE JtagUart ------------------------------
(***************************************************************************)
(* The interrupt-driven JTAG UART driver of the Nios II software           *)
(* (fpga/software/display_bsp/drivers/src/altera_avalon_jtag_uart_*.c)     *)
(* over its device and a host.                                             *)
(*                                                                         *)
(* One thread runs write(), read(), close() and ioctl(); the interrupt     *)
(* routine and the once-a-second alarm come between any two of its steps   *)
(* unless it has masked interrupts, and run to their end before it goes    *)
(* on.  The host may act between any two steps of anyone.  A step is what  *)
(* no other party can see half of: one look at the other side's index, one *)
(* memcpy, one store of an own index, one access to the device.            *)
(***************************************************************************)
EXTENDS JtagUartDevice

CONSTANTS
  BufLen,       \* ALTERA_AVALON_JTAG_UART_BUF_LEN (2048)
  IntMax,       \* INT_MAX
  Timeout,      \* ALTERA_AVALON_JTAG_UART_DEFAULT_TIMEOUT (10)
  HasTimer,     \* whether alt_alarm_start succeeds
  ByteCount,    \* bytes are numbered round a circle of this size
  Counts,       \* the counts write() and read() are called with
  TimeoutArgs,  \* the values TIOCSTIMEOUT is called with
  Calls,        \* the calls the program makes: {"write", "read", "close"}
  HostTalks     \* whether the host sends anything

ASSUME DriverAssumption ==
  /\ BufLen \in Nat /\ BufLen > 1
  /\ IntMax \in Nat /\ Timeout \in Nat /\ 2 <= Timeout /\ Timeout < IntMax - 2
  /\ HasTimer \in BOOLEAN /\ HostTalks \in BOOLEAN
  /\ ByteCount \in Nat /\ ByteCount > 0 /\ Byte = 0 .. ByteCount - 1
  /\ Counts \subseteq Nat /\ TimeoutArgs \subseteq Nat
  /\ Calls \subseteq {"write", "read", "close"}

VARIABLES
  rxBuf, rxIn, rxOut,   \* receive ring; rxIn belongs to the interrupt routine
  txBuf, txIn, txOut,   \* transmit ring; txOut belongs to the interrupt routine
  irqEnable,            \* sp->irq_enable, what the driver thinks ien is
  hostInactive,         \* sp->host_inactive, seconds without activity
  timeout,              \* sp->timeout
  masked,               \* alt_irq_disable_all() is in force
  op, nonblock,         \* the call in progress and its O_NONBLOCK flag
  pc,                   \* where it is
  in, out, n,           \* its local variables
  left,                 \* count of write(), space of read(): bytes still to move
  some,                 \* ptr # start: some bytes have been moved
  irqCopy,              \* sp->irq_enable, read for a read-modify-write
  isr,                  \* where the interrupt routine is, "out" if not running
  isrWI, isrSpace,      \* the control register it looked at
  rvalid, rdata, avail, \* the data register it looked at
  written, read, sent, received, \* numbers of the next byte at the four ends
  user                  \* bytes read() has copied out and not yet released

ringVars == <<rxBuf, rxIn, rxOut, txBuf, txIn, txOut>>
callVars == <<op, nonblock, pc, in, out, n, left, some, irqCopy>>
isrVars == <<isr, isrWI, isrSpace, rvalid, rdata, avail>>
endVars == <<written, read, sent, received, user>>
hostVars == <<hostInactive, timeout>>
vars == <<deviceVars, ringVars, irqEnable, hostVars, masked, callVars, isrVars, endVars>>

Index == 0 .. BufLen - 1

Advance(i, k) == (i + k) % BufLen
Number(b, k) == (b + k) % ByteCount

\* Filled slots of a ring with the given indices.
Used(first, last) == IF first <= last THEN last - first ELSE BufLen - first + last
RxUsed == Used(rxOut, rxIn)
TxUsed == Used(txOut, txIn)
Filled(buf, first, last) == [i \in 1 .. Used(first, last) |-> buf[Advance(first, i - 1)]]

\* timeout callback in force: the host has been away for too long.
HostGone == hostInactive >= timeout

\* altera_avalon_jtag_uart_init: receive interrupts on; without a timer the
\* host counts as present for ever.
Init ==
  /\ rfifo = <<>> /\ wfifo = <<>> /\ pauseIrq = FALSE /\ ac = FALSE
  /\ irqEnable = {"RE"} /\ ien = irqEnable
  /\ hostInactive = 0
  /\ timeout = IF HasTimer THEN Timeout ELSE IntMax
  /\ rxBuf = [i \in Index |-> 0] /\ rxIn = 0 /\ rxOut = 0
  /\ txBuf = [i \in Index |-> 0] /\ txIn = 0 /\ txOut = 0
  /\ masked = FALSE
  /\ op = "none" /\ nonblock = FALSE /\ pc = "idle"
  /\ in = 0 /\ out = 0 /\ n = 0 /\ left = 0 /\ some = FALSE /\ irqCopy = {}
  /\ isr = "out" /\ isrWI = FALSE /\ isrSpace = 0
  /\ rvalid = FALSE /\ rdata = 0 /\ avail = FALSE
  /\ written = 0 /\ read = 0 /\ sent = 0 /\ received = 0 /\ user = <<>>

------------------------------------------------------------------------------
(* The thread: write(), read(), close(), ioctl(). *)

\* The thread runs only while the interrupt routine does not.
At(label) == isr = "out" /\ pc = label

Call(o, k, nb) ==
  /\ At("idle") /\ o \in Calls
  /\ op' = o /\ nonblock' = nb
  /\ left' = IF o = "close" THEN 0 ELSE k
  /\ pc' = IF o = "write" THEN "writeLook" ELSE IF o = "read" THEN "readLook" ELSE "drain"
  /\ UNCHANGED <<in, out, n, some, irqCopy>>
  /\ UNCHANGED <<deviceVars, ringVars, irqEnable, hostVars, masked, isrVars, endVars>>

\* Back to the program with the locals gone.
Return ==
  /\ op' = "none" /\ nonblock' = FALSE /\ pc' = "idle"
  /\ in' = 0 /\ out' = 0 /\ n' = 0 /\ left' = 0 /\ some' = FALSE /\ irqCopy' = {}

\* Mutant: no slot kept empty.
TxSpace_Bug(i, o) == IF i < o THEN o - i ELSE BufLen - i

\* Contiguous free slots behind tx_in, one slot of the ring kept empty.
TxSpace(i, o) ==
  IF i < o THEN o - 1 - i
  ELSE IF o > 0 THEN BufLen - i
  ELSE BufLen - 1 - i

SmallerOf(a, b) == IF a < b THEN a ELSE b

\* One turn of the copying loop: look at the ring and size the next chunk.
WriteLook ==
  /\ At("writeLook")
  /\ IF left = 0
     THEN pc' = "writeKick" /\ UNCHANGED <<in, out, n>>
     ELSE /\ in' = txIn /\ out' = txOut
          /\ n' = SmallerOf(TxSpace(txIn, txOut), left)
          /\ pc' = IF n' = 0 THEN "writeKick" ELSE "writeCopy"
  /\ UNCHANGED <<op, nonblock, left, some, irqCopy>>
  /\ UNCHANGED <<deviceVars, ringVars, irqEnable, hostVars, masked, isrVars, endVars>>

\* memcpy of the chunk into the ring.
WriteCopy ==
  /\ At("writeCopy")
  /\ txBuf' = [i \in Index |-> IF i \in in .. in + n - 1 THEN Number(written, i - in) ELSE txBuf[i]]
  /\ left' = left - n /\ some' = TRUE /\ pc' = "writePublish"
  /\ UNCHANGED <<rxBuf, rxIn, rxOut, txIn, txOut, op, nonblock, in, out, n, irqCopy>>
  /\ UNCHANGED <<deviceVars, irqEnable, hostVars, masked, isrVars, endVars>>

WritePublish ==
  /\ At("writePublish")
  /\ txIn' = Advance(in, n) /\ written' = Number(written, n)
  /\ pc' = "writeLook"
  /\ UNCHANGED <<rxBuf, rxIn, rxOut, txBuf, txOut, op, nonblock, in, out, n, left, some, irqCopy>>
  /\ UNCHANGED <<deviceVars, irqEnable, hostVars, masked, isrVars, read, sent, received, user>>

\* irq_enable is read, changed and written back with interrupts masked.
Mask ==
  /\ At("writeKick") \/ At("readKick")
  /\ masked' = TRUE /\ irqCopy' = irqEnable
  /\ pc' = IF op = "write" THEN "writeEnable" ELSE "readEnable"
  /\ UNCHANGED <<op, nonblock, in, out, n, left, some>>
  /\ UNCHANGED <<deviceVars, ringVars, irqEnable, hostVars, isrVars, endVars>>

WriteEnable ==
  /\ At("writeEnable")
  /\ irqEnable' = irqCopy \cup {"WE"} /\ ien' = irqEnable' /\ masked' = FALSE
  /\ IF left > 0 /\ ~nonblock
     THEN /\ pc' = "writeWait" /\ irqCopy' = {}
          /\ UNCHANGED <<op, nonblock, in, out, n, left, some>>
     ELSE Return
  /\ UNCHANGED <<rfifo, wfifo, pauseIrq, ac, ringVars, hostVars, isrVars, endVars>>

\* Mutant: the wait does not look at the timeout.
WriteWait_Bug ==
  /\ At("writeWait")
  /\ out # txOut
  /\ pc' = "writeQuiet"
  /\ UNCHANGED <<op, nonblock, in, out, n, left, some, irqCopy>>
  /\ UNCHANGED <<deviceVars, ringVars, irqEnable, hostVars, masked, isrVars, endVars>>

\* Wait until the interrupt routine has taken something out, or for the
\* timeout, and give up if the host has been quiet for even one second.
WriteWait ==
  /\ At("writeWait")
  /\ out # txOut \/ HostGone
  /\ pc' = "writeQuiet"
  /\ UNCHANGED <<op, nonblock, in, out, n, left, some, irqCopy>>
  /\ UNCHANGED <<deviceVars, ringVars, irqEnable, hostVars, masked, isrVars, endVars>>

WriteQuiet ==
  /\ At("writeQuiet")
  /\ IF hostInactive # 0
     THEN Return
     ELSE pc' = "writeLook" /\ UNCHANGED <<op, nonblock, in, out, n, left, some, irqCopy>>
  /\ UNCHANGED <<deviceVars, ringVars, irqEnable, hostVars, masked, isrVars, endVars>>

\* Contiguous bytes in front of rx_out.
RxBytes(i, o) == IF i >= o THEN i - o ELSE BufLen - o

\* One turn of read()'s copying loop, or what follows it: stop with what has
\* been read, or with nothing, or wait.
ReadLook ==
  /\ At("readLook")
  /\ IF left = 0
     THEN IF some THEN pc' = "readKick" /\ UNCHANGED <<op, nonblock, in, out, n, left, some, irqCopy>>
          ELSE Return
     ELSE LET bytes == SmallerOf(RxBytes(rxIn, rxOut), left) IN
          IF bytes > 0
          THEN /\ in' = rxIn /\ out' = rxOut /\ n' = bytes /\ pc' = "readCopy"
               /\ UNCHANGED <<op, nonblock, left, some, irqCopy>>
          ELSE IF some
          THEN pc' = "readKick" /\ UNCHANGED <<op, nonblock, in, out, n, left, some, irqCopy>>
          ELSE IF nonblock
          THEN Return
          ELSE /\ in' = rxIn /\ out' = rxOut /\ n' = 0 /\ pc' = "readWait"
               /\ UNCHANGED <<op, nonblock, left, some, irqCopy>>
  /\ UNCHANGED <<deviceVars, ringVars, irqEnable, hostVars, masked, isrVars, endVars>>

ReadCopy ==
  /\ At("readCopy")
  /\ user' = [i \in 1 .. n |-> rxBuf[out + i - 1]]
  /\ left' = left - n /\ some' = TRUE /\ pc' = "readPublish"
  /\ UNCHANGED <<op, nonblock, in, out, n, irqCopy, written, read, sent, received>>
  /\ UNCHANGED <<deviceVars, ringVars, irqEnable, hostVars, masked, isrVars>>

\* Mutant: read() returns at once and leaves receive interrupts off.
ReadPublish_Bug ==
  /\ At("readPublish")
  /\ rxOut' = Advance(out, n)
  /\ read' = Number(user[n], 1) /\ user' = <<>>
  /\ Return
  /\ UNCHANGED <<rxBuf, rxIn, txBuf, txIn, txOut>>
  /\ UNCHANGED <<deviceVars, irqEnable, hostVars, masked, isrVars, written, sent, received>>

ReadPublish ==
  /\ At("readPublish")
  /\ rxOut' = Advance(out, n)
  /\ read' = Number(user[n], 1) /\ user' = <<>>
  /\ pc' = "readLook"
  /\ UNCHANGED <<rxBuf, rxIn, txBuf, txIn, txOut, op, nonblock, in, out, n, left, some, irqCopy>>
  /\ UNCHANGED <<deviceVars, irqEnable, hostVars, masked, isrVars, written, sent, received>>

\* Spin until a byte arrives or the host is given up.
ReadWait ==
  /\ At("readWait")
  /\ in # rxIn \/ HostGone
  /\ IF in = rxIn THEN Return
     ELSE pc' = "readLook" /\ UNCHANGED <<op, nonblock, in, out, n, left, some, irqCopy>>
  /\ UNCHANGED <<deviceVars, ringVars, irqEnable, hostVars, masked, isrVars, endVars>>

\* Mutant: the enable is noted but not written to the device.
ReadEnable_Bug ==
  /\ At("readEnable")
  /\ irqEnable' = irqCopy \cup {"RE"} /\ ien' = ien /\ masked' = FALSE
  /\ Return
  /\ UNCHANGED <<rfifo, wfifo, pauseIrq, ac, ringVars, hostVars, isrVars, endVars>>

\* There is room in the ring: let receive interrupts in again.
ReadEnable ==
  /\ At("readEnable")
  /\ irqEnable' = irqCopy \cup {"RE"} /\ ien' = irqEnable' /\ masked' = FALSE
  /\ Return
  /\ UNCHANGED <<rfifo, wfifo, pauseIrq, ac, ringVars, hostVars, isrVars, endVars>>

\* close() spins until the interrupt routine has emptied the ring.
Drain ==
  /\ At("drain")
  /\ txOut = txIn \/ HostGone \/ nonblock
  /\ Return
  /\ UNCHANGED <<deviceVars, ringVars, irqEnable, hostVars, masked, isrVars, endVars>>

\* ioctl(TIOCSTIMEOUT), refused when there is no timer.
SetTimeout(t) ==
  /\ At("idle") /\ timeout # IntMax
  /\ timeout' = IF t >= 2 /\ t < IntMax THEN t ELSE IntMax - 1
  /\ UNCHANGED <<deviceVars, ringVars, irqEnable, hostInactive, masked, callVars, isrVars, endVars>>

------------------------------------------------------------------------------
(* The interrupt routine and the alarm. *)

IsrEnter ==
  /\ isr = "out" /\ ~masked /\ (RI \/ WI)
  /\ isr' = "control"
  /\ UNCHANGED <<isrWI, isrSpace, rvalid, rdata, avail>>
  /\ UNCHANGED <<deviceVars, ringVars, irqEnable, hostVars, masked, callVars, endVars>>

\* Look at the control register; data is assumed to be there on a read interrupt.
IsrControl ==
  /\ isr = "control"
  /\ isr' = IF RI THEN "receive" ELSE IF WI THEN "transmit" ELSE "out"
  /\ isrWI' = WI /\ isrSpace' = (IF WI THEN WSpace ELSE 0)
  /\ avail' = RI /\ rvalid' = FALSE
  /\ UNCHANGED rdata
  /\ UNCHANGED <<deviceVars, ringVars, irqEnable, hostVars, masked, callVars, endVars>>

\* Mutant: the interrupt routine does not look for room in the ring.
RxFull_Bug == FALSE

RxFull == Advance(rxIn, 1) = rxOut

\* Mutant: with the ring full the byte is read all the same, and lost.
IsrTake_Bug ==
  /\ isr = "receive"
  /\ TakeByte
  /\ rvalid' = (rfifo # <<>> /\ ~RxFull)
  /\ rdata' = IF rfifo = <<>> THEN 0 ELSE Head(rfifo)
  /\ isr' = "take"
  /\ UNCHANGED <<isrWI, isrSpace, avail, wfifo, ac, ien>>
  /\ UNCHANGED <<ringVars, irqEnable, hostVars, masked, callVars, endVars>>

\* Read the data register while the ring has room: first half of the access.
IsrTake ==
  /\ isr = "receive"
  /\ IF RxFull
     THEN isr' = "received" /\ UNCHANGED <<rfifo, pauseIrq, rvalid, rdata>>
     ELSE /\ TakeByte
          /\ rvalid' = (rfifo # <<>>)
          /\ rdata' = IF rfifo = <<>> THEN 0 ELSE Head(rfifo)
          /\ isr' = "take"
  /\ UNCHANGED <<isrWI, isrSpace, avail, wfifo, ac, ien>>
  /\ UNCHANGED <<ringVars, irqEnable, hostVars, masked, callVars, endVars>>

\* Second half, a clock later: what RAVAIL says now, and the byte goes into the ring.
IsrStore ==
  /\ isr = "take"
  /\ avail' = (rfifo # <<>>)
  /\ IF rvalid
     THEN /\ rxBuf' = [rxBuf EXCEPT ![rxIn] = rdata] /\ rxIn' = Advance(rxIn, 1)
          /\ isr' = "receive"
     ELSE isr' = "received" /\ UNCHANGED <<rxBuf, rxIn>>
  /\ rvalid' = FALSE /\ rdata' = 0
  /\ UNCHANGED <<rxOut, txBuf, txIn, txOut, isrWI, isrSpace>>
  /\ UNCHANGED <<deviceVars, irqEnable, hostVars, masked, callVars, endVars>>

\* Bytes were left: "the buffer is full so turn off receive interrupts".
IsrReceived ==
  /\ isr = "received"
  /\ irqEnable' = IF avail THEN irqEnable \ {"RE"} ELSE irqEnable
  /\ ien' = IF avail THEN irqEnable' ELSE ien
  /\ isr' = IF isrWI THEN "transmit" ELSE "control"
  /\ avail' = FALSE
  /\ UNCHANGED <<isrWI, isrSpace, rvalid, rdata, rfifo, wfifo, pauseIrq, ac>>
  /\ UNCHANGED <<ringVars, hostVars, masked, callVars, endVars>>

\* Mutant: the space is not counted down.
IsrGive_Bug ==
  /\ isr = "transmit" /\ isrSpace > 0 /\ txOut # txIn
  /\ GiveByte(txBuf[txOut])
  /\ txOut' = Advance(txOut, 1) /\ isrSpace' = isrSpace
  /\ UNCHANGED <<rxBuf, rxIn, rxOut, txBuf, txIn, isr, isrWI, rvalid, rdata, avail>>
  /\ UNCHANGED <<rfifo, pauseIrq, ac, ien, irqEnable, hostVars, masked, callVars, endVars>>

\* Move a byte from the ring to the device.
IsrGive ==
  /\ isr = "transmit" /\ isrSpace > 0 /\ txOut # txIn
  /\ GiveByte(txBuf[txOut])
  /\ txOut' = Advance(txOut, 1) /\ isrSpace' = isrSpace - 1
  /\ UNCHANGED <<rxBuf, rxIn, rxOut, txBuf, txIn, isr, isrWI, rvalid, rdata, avail>>
  /\ UNCHANGED <<rfifo, pauseIrq, ac, ien, irqEnable, hostVars, masked, callVars, endVars>>

\* Mutant: write interrupts go off with the ring still filled.
IsrGiven_Bug ==
  /\ isr = "transmit" /\ (isrSpace = 0 \/ txOut = txIn)
  /\ irqEnable' = irqEnable \ {"WE"}
  /\ ien' = irqEnable'
  /\ isr' = "control" /\ isrWI' = FALSE /\ isrSpace' = 0
  /\ UNCHANGED <<rvalid, rdata, avail, rfifo, wfifo, pauseIrq, ac>>
  /\ UNCHANGED <<ringVars, hostVars, masked, callVars, endVars>>

\* With space left over there is nothing more to send: no more write interrupts.
IsrGiven ==
  /\ isr = "transmit" /\ (isrSpace = 0 \/ txOut = txIn)
  /\ irqEnable' = IF isrSpace > 0 THEN irqEnable \ {"WE"} ELSE irqEnable
  /\ ien' = IF isrSpace > 0 THEN irqEnable' ELSE ien
  /\ isr' = "control" /\ isrWI' = FALSE /\ isrSpace' = 0
  /\ UNCHANGED <<rvalid, rdata, avail, rfifo, wfifo, pauseIrq, ac>>
  /\ UNCHANGED <<ringVars, hostVars, masked, callVars, endVars>>

\* altera_avalon_jtag_uart_timeout, called by the system tick once a second.
Tick ==
  /\ HasTimer /\ isr = "out" /\ ~masked
  /\ IF ac
     THEN ac' = FALSE /\ ien' = irqEnable /\ hostInactive' = 0
     ELSE /\ hostInactive' = IF hostInactive < IntMax - 2 THEN hostInactive + 1 ELSE hostInactive
          /\ UNCHANGED <<ac, ien>>
  /\ UNCHANGED <<rfifo, wfifo, pauseIrq, timeout, irqEnable, ringVars, masked, callVars, isrVars, endVars>>

------------------------------------------------------------------------------
(* The host. *)

driverVars == <<ringVars, irqEnable, hostVars, masked, callVars, isrVars>>

Send ==
  /\ HostTalks /\ HostSend(sent) /\ sent' = Number(sent, 1)
  /\ UNCHANGED <<driverVars, written, read, received, user>>

Pause == HostTalks /\ HostPause /\ UNCHANGED <<driverVars, endVars>>

Take ==
  /\ HostTake /\ received' = Number(Head(wfifo), 1)
  /\ UNCHANGED <<driverVars, written, read, sent, user>>

------------------------------------------------------------------------------
Thread ==
  \/ WriteLook \/ WriteCopy \/ WritePublish \/ Mask \/ WriteEnable \/ WriteWait \/ WriteQuiet
  \/ ReadLook \/ ReadCopy \/ ReadPublish \/ ReadWait \/ ReadEnable
  \/ Drain

Isr == IsrControl \/ IsrTake \/ IsrStore \/ IsrReceived \/ IsrGive \/ IsrGiven

Program ==
  \/ \E o \in Calls, k \in Counts, nb \in BOOLEAN : Call(o, k, nb)
  \/ \E t \in TimeoutArgs : SetTimeout(t)

Host == Send \/ Pause \/ Take

Next == Program \/ Thread \/ IsrEnter \/ Isr \/ Tick \/ Host

Spec == Init /\ [][Next]_vars

------------------------------------------------------------------------------
(* Fairness: the processor runs on, a pending interrupt is taken while      *)
(* interrupts are open again and again, and a timer that exists ticks.      *)

Running ==
  /\ WF_vars(Thread) /\ WF_vars(Isr)
  /\ SF_vars(IsrEnter) /\ SF_vars(Tick)

\* With nobody to rely on at the other end.
AloneSpec == Spec /\ Running

\* With a host that pauses now and then, and a program that always reads.
ReadingSpec ==
  /\ Spec /\ Running /\ WF_vars(Pause)
  /\ SF_vars(\E k \in Counts \ {0} : Call("read", k, FALSE))

------------------------------------------------------------------------------
(* Properties. *)

TypeOK ==
  /\ DeviceTypeOK
  /\ rxBuf \in [Index -> Byte] /\ txBuf \in [Index -> Byte]
  /\ {rxIn, rxOut, txIn, txOut, in, out} \subseteq Index
  /\ irqEnable \in SUBSET Interrupts /\ irqCopy \in SUBSET Interrupts
  /\ hostInactive \in 0 .. IntMax - 2 /\ timeout \in 2 .. IntMax
  /\ {masked, nonblock, some, isrWI, rvalid, avail} \subseteq BOOLEAN
  /\ op \in {"none", "write", "read", "close"}
  /\ pc \in {"idle", "writeLook", "writeCopy", "writePublish", "writeKick", "writeEnable",
             "writeWait", "writeQuiet", "readLook", "readCopy", "readPublish", "readKick",
             "readEnable", "readWait", "drain"}
  /\ n \in Index /\ left \in Nat
  /\ isr \in {"out", "control", "receive", "take", "received", "transmit"}
  /\ isrSpace \in 0 .. Fifo /\ rdata \in Byte
  /\ {written, read, sent, received} \subseteq Byte
  /\ user \in Seq(Byte)

\* What write() has accepted reaches the host once, in order: the transmit
\* ring behind the device's FIFO is a pipe (altera_avalon_jtag_uart_write.c:106).
Tx == INSTANCE BytePipe WITH
        Count <- ByteCount, Capacity <- Fifo + BufLen - 1,
        put <- written, got <- received,
        pipe <- wfifo \o Filled(txBuf, txOut, txIn)
TxPipe == Tx!Spec

\* What the host has sent reaches the callers of read() once, in order: the
\* device's FIFO behind the receive ring is a pipe, whatever the interrupt
\* routine is holding (altera_avalon_jtag_uart_init.c:125).
Rx == INSTANCE BytePipe WITH
        Count <- ByteCount, Capacity <- Fifo + BufLen,
        put <- sent, got <- read,
        pipe <- Filled(rxBuf, rxOut, rxIn) \o (IF rvalid THEN <<rdata>> ELSE <<>>) \o rfifo
RxPipe == Rx!Spec

\* The bytes a caller of read() is given are the ones that are due, also while
\* the ring still holds them (altera_avalon_jtag_uart_read.c:137).
UserBytesDue == user = Rx!Numbers(read, Len(user))

\* No byte waits in the transmit ring with write interrupts off, unless
\* write() is on its way to turning them on (altera_avalon_jtag_uart_write.c:136).
TransmitterAwake ==
  TxUsed > 0 => \/ "WE" \in ien
                \/ pc \in {"writeLook", "writeCopy", "writePublish", "writeKick", "writeEnable"}

\* Receive interrupts are off only while the ring has something for read() to
\* take, or read() has taken it and is on its way to turning them on: nobody
\* waits for a byte with the receiver off (altera_avalon_jtag_uart_init.c:158).
ReceiverAwake ==
  "RE" \notin ien =>
    \/ RxUsed > 0
    \/ op = "read" /\ some /\ pc \in {"readLook", "readKick", "readEnable"}

\* The interrupt routine never gives the device more bytes than it has room
\* for, though it looked at the room only once (altera_avalon_jtag_uart_init.c:172).
RoomForWhatIsGiven == isr = "transmit" => isrSpace <= WSpace

\* Every call comes back (altera_avalon_jtag_uart_write.c:183, _init.c:246).
CallsReturn == op # "none" ~> op = "none"

\* A byte the host has sent is read by a program that keeps reading
\* (altera_avalon_jtag_uart_read.c:189).
BytesArrive ==
  \A b \in Byte : (read = b /\ read # sent) ~> read # b
==============================================================================
