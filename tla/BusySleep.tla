------------------------------ MODULE BusySleep ------------------------------
(***************************************************************************)
(* usleep: the hardware abstraction layer sleeps by counting.  A request   *)
(* too long for one counter is served by a number of full counts and one   *)
(* for the rest.                                                           *)
(***************************************************************************)
EXTENDS Integers

CONSTANTS IntMax,    \* INT_MAX: 2^31 - 1
          Word,      \* values of a register: 2^32
          PerMicro,  \* turns counted for a microsecond: ALT_CPU_FREQ / (9 * 1000000)
          Requests   \* the values of us

SleepAssumption ==
    /\ IntMax \in Nat /\ PerMicro \in 1 .. IntMax /\ Word = 2 * (IntMax + 1)
    /\ Requests \subseteq 0 .. Word - 1

VARIABLES us,     \* what is left of the argument
          loops,  \* full counts still to make
          spun,   \* turns made so far
          asked,  \* the argument
          pc      \* "awake", "full", "rest", "short"

vars == <<us, loops, spun, asked, pc>>

\* The microseconds one full count stands for.
Chunk == IntMax \div PerMicro

Init == us = 0 /\ loops = 0 /\ spun = 0 /\ asked = 0 /\ pc = "awake"

\* Turns of a loop that decrements and goes on while the result is not zero:
\* from zero it goes round all values of the register.
UntilZero(n) == IF n = 0 THEN Word ELSE n
\* The same while the result is positive, as a signed number.
WhilePositive(n) == IF n \in 1 .. IntMax THEN n ELSE 1

Sleep(n) ==
    /\ pc = "awake"
    /\ us' = n /\ asked' = n /\ spun' = 0
    /\ loops' = n \div Chunk
    /\ pc' = IF n \div Chunk > 0 THEN "full" ELSE "short"

\* Mutant: the full counts are not taken off the request.
FullCount_Bug ==
    /\ pc = "full"
    /\ spun' = spun + UntilZero(IntMax)
    /\ loops' = loops - 1
    /\ pc' = IF loops > 1 THEN "full" ELSE "rest"
    /\ UNCHANGED <<us, asked>>

FullCount ==
    /\ pc = "full"
    /\ spun' = spun + UntilZero(IntMax)
    /\ us' = us - Chunk
    /\ loops' = loops - 1
    /\ pc' = IF loops > 1 THEN "full" ELSE "rest"
    /\ UNCHANGED asked

LastCount ==
    /\ pc \in {"rest", "short"}
    /\ spun' = spun + IF pc = "rest" THEN UntilZero((us * PerMicro) % Word)
                      ELSE WhilePositive((us * PerMicro) % Word)
    /\ pc' = "awake"
    /\ UNCHANGED <<us, loops, asked>>

Next == (\E n \in Requests : Sleep(n)) \/ FullCount \/ LastCount

(***************************************************************************)
(* Properties.                                                             *)
(***************************************************************************)
\* Types of all variables.
TypeOK ==
    /\ us \in 0 .. Word - 1 /\ asked \in Requests \cup {0}
    /\ loops \in 0 .. Word - 1 /\ spun \in Nat
    /\ pc \in {"awake", "full", "rest", "short"}

\* A sleep is never shorter than what was asked for, however the request is
\* split, and longer by no more than a turn for what the division of a full
\* count loses (alt_busy_sleep.c:74-129).  Only a request that is a whole
\* number of full counts (7 minutes and 9 seconds each) sleeps for one round
\* of the register on top.
SleepsAsAsked ==
    pc = "awake" =>
        /\ spun >= asked * PerMicro
        /\ asked < Chunk \/ asked % Chunk # 0 =>
              spun <= asked * PerMicro + PerMicro * (asked \div Chunk) + 1
=============================================================================
