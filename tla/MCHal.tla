-------------------------------- MODULE MCHal --------------------------------
(***************************************************************************)
(* The services of the hardware abstraction layer, side by side.  They     *)
(* share no state but the clock's ticks, which Alarms and SystemTime each  *)
(* keep for themselves: part names the service that is used, and the       *)
(* others stand still, so that one run checks each of them on its own.     *)
(***************************************************************************)
EXTENDS Alarms

CONSTANTS US, Rates, Seconds, Zones, LastTick,
          IntMax, Word, PerMicro, Requests,
          MaxFds, Null, Uart, OpenFlags,
          NIrq, Sizes, HeapStart, HeapLimit

VARIABLES part,
          tRate, tTicks, resettime, timezone, got, set,
          us, loops, spun, asked, sleepPc,
          device, flags, maxFd, given, boot, result,
          pie, active, ienable, handler, line, routine, estatus, call, held, heapEnd, blocks

T == INSTANCE SystemTime WITH rate <- tRate, nticks <- tTicks, MaxTicks <- LastTick
S == INSTANCE BusySleep WITH pc <- sleepPc
F == INSTANCE FileTable
I == INSTANCE Interrupts

timeVars == <<tRate, tTicks, resettime, timezone, got, set>>
sleepVars == <<us, loops, spun, asked, sleepPc>>
fileVars == <<device, flags, maxFd, given, boot, result>>
interruptVars ==
    <<pie, active, ienable, handler, line, routine, estatus, call, held, heapEnd, blocks>>
allVars == <<vars, part, timeVars, sleepVars, fileVars, interruptVars>>

ASSUME HalAssumption ==
    T!TimeAssumption /\ S!SleepAssumption /\ F!FilesAssumption /\ I!InterruptsAssumption

PartInit ==
    /\ part \in {"alarms", "time", "sleep", "files", "interrupts"}
    /\ Init /\ T!Init /\ S!Init /\ F!Init /\ I!Init

PartNext ==
    /\ UNCHANGED part
    /\ \/ /\ part = "alarms" /\ Next
          /\ UNCHANGED <<timeVars, sleepVars, fileVars, interruptVars>>
       \/ /\ part = "time" /\ T!Next
          /\ UNCHANGED <<vars, sleepVars, fileVars, interruptVars>>
       \/ /\ part = "sleep" /\ S!Next
          /\ UNCHANGED <<vars, timeVars, fileVars, interruptVars>>
       \/ /\ part = "files" /\ F!Next
          /\ UNCHANGED <<vars, timeVars, sleepVars, interruptVars>>
       \/ /\ part = "interrupts" /\ I!Next
          /\ UNCHANGED <<vars, timeVars, sleepVars, fileVars>>

PartSpec == PartInit /\ [][PartNext]_allVars /\ Fairness

OnlyItself(a) == {a}

\* Every service keeps to its types.
TypesOK == TypeOK /\ T!TypeOK /\ S!TypeOK /\ F!TypeOK /\ I!TypeOK

\* The clock that is set is the clock that is read, ticks become microseconds
\* without loss, and a sleep is as long as it was asked to be.
TimeKept == T!SetThenGet /\ T!ElapsedTime /\ S!SleepsAsAsked

\* No descriptor is lost or handed on with another's flags.
FilesKept == F!FilesKept

\* A lock keeps others out, and access is what open granted.
LocksHold == F!LocksHold

\* A table that is changed and a heap that is extended while interrupts may
\* come are never seen half done, and nested sections restore what they found.
InterruptsSafe == I!HandlersThere /\ I!NestingKept /\ I!BlocksApart

\* The lock is granted to a device's only user.
LockedAlone == F!LockedAlone
=============================================================================
