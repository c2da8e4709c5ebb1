------------------------------- MODULE Alarms -------------------------------
(***************************************************************************)
(* The alarms of the hardware abstraction layer: the list of registered    *)
(* alarms (sys/alt_llist.h), alt_alarm_start, alt_alarm_stop and alt_tick, *)
(* which the system clock's interrupt calls once per tick.                 *)
(*                                                                         *)
(* alt_tick runs at interrupt level: no thread code runs between its steps *)
(* but the alarms' callbacks do, and they may call alt_alarm_start and     *)
(* alt_alarm_stop themselves.  From a thread both run with interrupts      *)
(* disabled, in one step.  An alarm is not started while it is registered. *)
(***************************************************************************)
EXTENDS Integers, FiniteSets

CONSTANTS Alarm,      \* the alt_alarm structures
          Head,       \* alt_alarm_list
          Delays,     \* values of alt_alarm_start's nticks
          Returns,    \* values a callback returns; 0 unregisters
          MayStop(_), \* which alarms a callback may stop
          MaxTicks    \* bound: the last tick

ASSUME AlarmAssumption ==
    /\ Head \notin Alarm
    /\ Delays \subseteq Nat /\ Returns \subseteq Nat /\ MaxTicks \in Nat
    /\ \A a \in Alarm : MayStop(a) \subseteq Alarm

VARIABLES next, previous,  \* the links of the list's elements
          time,            \* alarm->time
          rate,            \* _alt_tick_rate, zero or not
          nticks,          \* _alt_nticks
          pc,              \* where alt_tick is: "idle", "loop" or "call"
          alarm, following,\* its local variables alarm and next
          registered       \* the alarms that were started and not stopped since

listVars == <<next, previous, time, registered>>
tickVars == <<nticks, pc, alarm, following>>
vars == <<listVars, rate, tickVars>>

Node == Alarm \cup {Head}

\* An alarm that was never started is taken to be linked to itself, like one
\* that was stopped.
Init ==
    /\ next = [n \in Node |-> n] /\ previous = [n \in Node |-> n]
    /\ time = [a \in Alarm |-> 0]
    /\ rate = 0
    /\ nticks = 0 /\ pc = "idle" /\ alarm = Head /\ following = Head
    /\ registered = {}

\* alt_sysclk_init: the system clock's driver announces itself once.
SysclkInit ==
    /\ rate = 0 /\ pc = "idle"
    /\ rate' = 1
    /\ UNCHANGED <<listVars, tickVars>>

(***************************************************************************)
(* The list.                                                               *)
(***************************************************************************)
\* Mutant: the old first element keeps its link back.
Insert_Bug(a) ==
    /\ previous' = [previous EXCEPT ![a] = Head]
    /\ next' = [next EXCEPT ![a] = next[Head], ![Head] = a]

Insert(a) ==
    /\ previous' = [previous EXCEPT ![a] = Head, ![next[Head]] = a]
    /\ next' = [next EXCEPT ![a] = next[Head], ![Head] = a]

\* The entry is left pointing to itself, so that removing it once more is
\* harmless.
Remove(a) ==
    /\ previous' = [previous EXCEPT ![next[a]] = previous[a], ![a] = a]
    /\ next' = [next EXCEPT ![previous[a]] = next[a], ![a] = a]

\* Mutant: the tick under way counts as one.
AlarmStart_Bug(a, n) ==
    /\ rate # 0 /\ a \notin registered
    /\ time' = [time EXCEPT ![a] = n + nticks]
    /\ Insert(a)
    /\ registered' = registered \cup {a}

AlarmStart(a, n) ==
    /\ rate # 0 /\ a \notin registered
    /\ time' = [time EXCEPT ![a] = n + nticks + 1]
    /\ Insert(a)
    /\ registered' = registered \cup {a}

AlarmStop(a) ==
    /\ Remove(a)
    /\ registered' = registered \ {a}
    /\ UNCHANGED time

ThreadStarts(a, n) ==
    /\ pc = "idle"
    /\ AlarmStart(a, n)
    /\ UNCHANGED <<rate, tickVars>>

ThreadStops(a) ==
    /\ pc = "idle"
    /\ AlarmStop(a)
    /\ UNCHANGED <<rate, tickVars>>

(***************************************************************************)
(* alt_tick.                                                               *)
(***************************************************************************)
TickBegins ==
    /\ pc = "idle" /\ rate # 0 /\ nticks < MaxTicks
    /\ nticks' = nticks + 1
    /\ alarm' = next[Head]
    /\ pc' = "loop"
    /\ UNCHANGED <<listVars, rate, following>>

\* The successor is remembered before the callback.
Visit ==
    /\ pc = "loop" /\ alarm # Head
    /\ following' = next[alarm]
    /\ IF time[alarm] <= nticks
       THEN pc' = "call" /\ alarm' = alarm
       ELSE pc' = "loop" /\ alarm' = next[alarm]
    /\ UNCHANGED <<listVars, rate, nticks>>

\* Mutant: the successor is looked up after the callback.
Answer_Bug(r) ==
    /\ pc = "call"
    /\ IF r = 0
       THEN AlarmStop(alarm)
       ELSE time' = [time EXCEPT ![alarm] = @ + r] /\ UNCHANGED <<next, previous, registered>>
    /\ alarm' = next'[alarm]
    /\ pc' = "loop"
    /\ UNCHANGED <<rate, nticks, following>>

\* The callback returns how long it wants to wait; zero unregisters it.
Answer(r) ==
    /\ pc = "call"
    /\ IF r = 0
       THEN AlarmStop(alarm)
       ELSE time' = [time EXCEPT ![alarm] = @ + r] /\ UNCHANGED <<next, previous, registered>>
    /\ alarm' = following
    /\ pc' = "loop"
    /\ UNCHANGED <<rate, nticks, following>>

\* Before it returns, it may call the two functions itself.
CallbackStarts(a, n) ==
    /\ pc = "call"
    /\ AlarmStart(a, n)
    /\ UNCHANGED <<rate, tickVars>>

CallbackStops(a) ==
    /\ pc = "call"
    /\ AlarmStop(a)
    /\ UNCHANGED <<rate, tickVars>>

TickReturns ==
    /\ pc = "loop" /\ alarm = Head
    /\ pc' = "idle"
    /\ UNCHANGED <<listVars, rate, nticks, alarm, following>>

Thread ==
    \/ \E a \in Alarm, n \in Delays : ThreadStarts(a, n)
    \/ \E a \in Alarm : ThreadStops(a)

Callback ==
    \/ \E r \in Returns : Answer(r)
    \/ \E a \in Alarm, n \in Delays : CallbackStarts(a, n)
    \/ \E a \in MayStop(alarm) : CallbackStops(a)

Tick == TickBegins \/ Visit \/ TickReturns

Next == SysclkInit \/ Thread \/ Callback \/ Tick

\* The interrupt routine runs on, and a callback returns.
Fairness ==
    /\ WF_vars(Visit) /\ WF_vars(TickReturns)
    /\ WF_vars(\E r \in Returns : Answer(r))

Spec == Init /\ [][Next]_vars /\ Fairness

(***************************************************************************)
(* Properties.                                                             *)
(***************************************************************************)
\* Types of all variables.
TypeOK ==
    /\ next \in [Node -> Node] /\ previous \in [Node -> Node]
    /\ time \in [Alarm -> Nat]
    /\ rate \in {0, 1} /\ nticks \in 0 .. MaxTicks
    /\ pc \in {"idle", "loop", "call"}
    /\ alarm \in Node /\ following \in Node /\ (pc = "call" => alarm # Head)
    /\ registered \subseteq Alarm

\* The two links undo each other at every element, in the list or out of it,
\* and what is not registered is linked to itself: no sequence of starts and
\* stops, from threads and callbacks, breaks the list (alt_llist.h:85-118).
LinksInverse ==
    /\ \A n \in Node : previous[next[n]] = n /\ next[previous[n]] = n
    /\ \A a \in Alarm \ registered : next[a] = a

\* From the head one comes by exactly the registered alarms: they are the least
\* set that the links from the head and from its members do not leave.
Closed(S) == next[Head] \in S /\ \A m \in S \ {Head} : next[m] \in S
ListHoldsRegistered ==
    /\ Closed(registered \cup {Head})
    /\ \A S \in SUBSET Node : Closed(S) => registered \subseteq S

\* Between ticks no registered alarm is overdue, so that every callback is
\* made in the very tick it asked for (alt_tick.c:96-122).
NothingOverdue == pc = "idle" => \A a \in registered : time[a] > nticks

\* Both hold of the list the ticks walk.
AlarmsKept == ListHoldsRegistered /\ NothingOverdue

\* A callback is made only for an alarm that was not stopped before:
\* alt_alarm_stop "is used to unregister a callback" (alt_alarm.h:73).
CallsOnlyRegistered == [][pc = "loop" /\ pc' = "call" => alarm' \in registered]_vars

\* alt_tick returns: the list it walks has an end however the callbacks
\* change it (alt_tick.c:100-123).
TickEnds == pc # "idle" ~> pc = "idle"

\* The callbacks made are those that are due: none that a registered alarm is
\* owed is left out or late, none is made for another, and a tick gets to the
\* end of them.
CallbacksRight == []AlarmsKept /\ CallsOnlyRegistered /\ TickEnds
=============================================================================
