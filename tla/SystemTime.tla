----------------------------- MODULE SystemTime -----------------------------
(***************************************************************************)
(* The time of day the hardware abstraction layer keeps: gettimeofday,     *)
(* settimeofday and times, over the counter of ticks that the system       *)
(* clock's interrupt advances (Alarms has the interrupt itself).           *)
(***************************************************************************)
EXTENDS Integers

CONSTANTS US,        \* microseconds in a second: 1 000 000 in the code
          Rates,     \* ticks per second a clock may announce
          Seconds,   \* tv_sec of the times that are set
          Zones,     \* time zones, in minutes from Greenwich
          MaxTicks   \* bound: the last tick

TimeAssumption ==
    /\ US \in Nat \ {0} /\ Rates \subseteq Nat \ {0}
    /\ Seconds \subseteq Nat /\ MaxTicks \in Nat /\ 0 \in Zones

VARIABLES rate,       \* _alt_tick_rate, 0 without a system clock
          nticks,     \* _alt_nticks
          resettime,  \* alt_resettime
          timezone,   \* alt_timezone
          got,        \* what the last gettimeofday or times returned
          set         \* the last settimeofday: what it was given and when

vars == <<rate, nticks, resettime, timezone, got, set>>

Timeval == [sec : Int, usec : Int]
Errors == {"ENOTSUP", "ENOSYS"}
Nothing == [result |-> "none"]
\* A timeval as one number.
Micros(t) == t.sec * US + t.usec

Init ==
    /\ rate = 0 /\ nticks = 0
    /\ resettime = [sec |-> 0, usec |-> 0]
    /\ timezone = 0
    /\ got = Nothing
    /\ set = [time |-> resettime, zone |-> timezone, at |-> 0]

SysclkInit(r) ==
    /\ rate = 0
    /\ rate' = r
    /\ UNCHANGED <<nticks, resettime, timezone, got, set>>

Tick ==
    /\ rate # 0 /\ nticks < MaxTicks
    /\ nticks' = nticks + 1
    /\ got' = Nothing
    /\ UNCHANGED <<rate, resettime, timezone, set>>

\* The seconds and the microseconds that went by, as both functions have them.
WholeSeconds == nticks \div rate

Fraction == (nticks * (US \div rate)) % US

\* Mutant: only a surplus is brought into range.
Borrow_Bug(t) == t

\* The two loops that bring tv_usec into range.  Each goes round as often as
\* there are seconds in tv_usec.
Borrow(t) ==
    LET n == (US - 1 - t.usec) \div US IN
    IF t.usec >= 0 THEN t
    ELSE IF t.sec < n THEN [sec |-> 0, usec |-> 0]
    ELSE [sec |-> t.sec - n, usec |-> t.usec + n * US]

Carry(t) ==
    IF t.usec < US THEN t
    ELSE [sec |-> t.sec + t.usec \div US, usec |-> t.usec % US]

\* gettimeofday: without a clock nothing is written.
GetTimeOfDay ==
    /\ got' = IF rate = 0 THEN [result |-> "ENOTSUP"]
              ELSE [result |-> "time", zone |-> timezone,
                    time |-> Carry(Borrow([sec |-> resettime.sec + WholeSeconds,
                                           usec |-> resettime.usec + Fraction]))]
    /\ UNCHANGED <<rate, nticks, resettime, timezone, set>>

\* Mutant: the microseconds since reset are not taken off.
SetTimeOfDay_Bug(t, zone) ==
    IF rate = 0
    THEN got' = [result |-> "ENOSYS"] /\ UNCHANGED <<rate, nticks, resettime, timezone, set>>
    ELSE /\ resettime' = [sec |-> t.sec - WholeSeconds, usec |-> t.usec]
         /\ timezone' = zone
         /\ set' = [time |-> t, zone |-> zone, at |-> nticks]
         /\ got' = Nothing
         /\ UNCHANGED <<rate, nticks>>

\* settimeofday: the difference may be negative, in either part.
SetTimeOfDay(t, zone) ==
    IF rate = 0
    THEN got' = [result |-> "ENOSYS"] /\ UNCHANGED <<rate, nticks, resettime, timezone, set>>
    ELSE /\ resettime' = [sec |-> t.sec - WholeSeconds, usec |-> t.usec - Fraction]
         /\ timezone' = zone
         /\ set' = [time |-> t, zone |-> zone, at |-> nticks]
         /\ got' = Nothing
         /\ UNCHANGED <<rate, nticks>>

\* times: all of the elapsed ticks are the system's.
Times ==
    /\ got' = IF rate = 0 THEN [result |-> "ENOSYS"] ELSE [result |-> "ticks", ticks |-> nticks]
    /\ UNCHANGED <<rate, nticks, resettime, timezone, set>>

Next ==
    \/ \E r \in Rates : SysclkInit(r)
    \/ Tick
    \/ GetTimeOfDay
    \/ \E s \in Seconds, u \in 0 .. US - 1, z \in Zones :
            SetTimeOfDay([sec |-> s, usec |-> u], z)
    \/ Times

Spec == Init /\ [][Next]_vars /\ WF_vars(Tick)

(***************************************************************************)
(* Properties.                                                             *)
(***************************************************************************)
\* Types of all variables; a time that is given back has its microseconds in
\* range and is not before the beginning of time.
TypeOK ==
    /\ rate \in Rates \cup {0} /\ nticks \in 0 .. MaxTicks
    /\ resettime \in Timeval /\ timezone \in Zones
    /\ got.result \in Errors \cup {"none", "time", "ticks"}
    /\ got.result = "time" => got.time.sec \in Nat /\ got.time.usec \in 0 .. US - 1
    /\ set.time \in Timeval /\ set.at \in 0 .. nticks

\* settimeofday leaves what "an immediate call to gettimeofday() would return"
\* as "the value specified by t and tz" (alt_settod.c:62-63), whatever part of
\* a second has gone by: the negative microseconds are borrowed back.
SetThenGet ==
    got.result = "time" /\ set.at = nticks => got.time = set.time /\ got.zone = set.zone

\* "subsequent calls to gettimeofday() will return the elapsed wall clock
\* time" (alt_settod.c:57-59): the time that was set and the ticks since.
\* A tick is 1/rate of a second.
ElapsedTime ==
    got.result = "time" =>
        (Micros(got.time) - Micros(set.time)) * rate = (nticks - set.at) * US
=============================================================================
