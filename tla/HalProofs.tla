----------------------------- MODULE HalProofs ------------------------------
(***************************************************************************)
(* Proofs about the services of the hardware abstraction layer, for lists  *)
(* and tables of every size, any heap and any interrupts.  MCHal puts the  *)
(* services side by side, so a step of PartNext is a step of one of them.  *)
(***************************************************************************)
EXTENDS MCHal, TLAPS, WellFoundedInduction

-----------------------------------------------------------------------------
(* Alarms.                                                                  *)

Inv == TypeOK /\ LinksInverse

\* An insertion keeps the two links inverse, if the element was by itself.
LEMMA InsertKeepsLinks ==
    ASSUME TypeOK, LinksInverse, NEW a \in Alarm, a \notin registered, Insert(a),
           registered' = registered \cup {a}
    PROVE  /\ next' \in [Node -> Node] /\ previous' \in [Node -> Node]
           /\ LinksInverse'
<1> DEFINE f == next[Head]
<1>1. /\ next \in [Node -> Node] /\ previous \in [Node -> Node]
      /\ a \in Node /\ Head \in Node /\ f \in Node /\ a # Head
  BY AlarmAssumption DEF TypeOK, Node
<1>2. next[a] = a /\ previous[a] = a /\ f # a
  BY <1>1 DEF LinksInverse, Node
<1>3. next' \in [Node -> Node] /\ previous' \in [Node -> Node]
  BY <1>1 DEF Insert
<1>4. ASSUME NEW n \in Node PROVE previous'[next'[n]] = n
  <2>1. CASE n = Head
    BY <2>1, <1>1, <1>2 DEF Insert
  <2>2. CASE n = a
    BY <2>2, <1>1, <1>2 DEF Insert
  <2>3. CASE n # Head /\ n # a
    <3>1. next'[n] = next[n]
      BY <2>3, <1>1 DEF Insert
    <3>2. next[n] # f /\ next[n] # a /\ next[n] \in Node
      BY <2>3, <1>1, <1>2 DEF LinksInverse
    <3>3. previous'[next[n]] = previous[next[n]]
      BY <3>2, <1>1 DEF Insert
    <3> QED BY <3>1, <3>3 DEF LinksInverse
  <2> QED BY <2>1, <2>2, <2>3
<1>5. ASSUME NEW n \in Node PROVE next'[previous'[n]] = n
  <2>1. CASE n = a
    BY <2>1, <1>1, <1>2 DEF Insert
  <2>2. CASE n = f
    BY <2>2, <1>1, <1>2 DEF Insert
  <2>3. CASE n # f /\ n # a
    <3>1. previous'[n] = previous[n]
      BY <2>3, <1>1 DEF Insert
    <3>2. previous[n] # Head /\ previous[n] # a /\ previous[n] \in Node
      BY <2>3, <1>1, <1>2 DEF LinksInverse
    <3>3. next'[previous[n]] = next[previous[n]]
      BY <3>2, <1>1 DEF Insert
    <3> QED BY <3>1, <3>3 DEF LinksInverse
  <2> QED BY <2>1, <2>2, <2>3
<1>6. ASSUME NEW b \in Alarm, b \notin registered' PROVE next'[b] = b
  BY <1>6, <1>1, AlarmAssumption DEF Insert, LinksInverse, Node
<1> QED BY <1>3, <1>4, <1>5, <1>6 DEF LinksInverse

\* A removal keeps them inverse as well, also a second one.
LEMMA RemoveKeepsLinks ==
    ASSUME TypeOK, LinksInverse, NEW a \in Alarm, Remove(a), registered' = registered \ {a}
    PROVE  /\ next' \in [Node -> Node] /\ previous' \in [Node -> Node]
           /\ LinksInverse'
<1> DEFINE s == next[a]
           p == previous[a]
<1>1. /\ next \in [Node -> Node] /\ previous \in [Node -> Node]
      /\ a \in Node /\ s \in Node /\ p \in Node
  BY DEF TypeOK, Node
<1>2. next[p] = a /\ previous[s] = a /\ (s = a <=> p = a)
  BY <1>1 DEF LinksInverse
<1>3. /\ next' \in [Node -> Node] /\ previous' \in [Node -> Node]
      /\ next'[a] = a /\ previous'[a] = a
      /\ (p # a => next'[p] = s /\ previous'[s] = p)
      /\ \A n \in Node \ {a, p} : next'[n] = next[n]
      /\ \A n \in Node \ {a, s} : previous'[n] = previous[n]
  BY <1>1, <1>2 DEF Remove
<1>4. ASSUME NEW n \in Node PROVE previous'[next'[n]] = n
  <2>1. CASE n = a
    BY <2>1, <1>3
  <2>2. CASE n # a /\ n = p
    BY <2>2, <1>3
  <2>3. CASE n # a /\ n # p
    <3>1. next'[n] = next[n] /\ next[n] \in Node
      BY <2>3, <1>3, <1>1
    <3>2. next[n] # a /\ next[n] # s
      BY <2>3, <1>1, <1>2 DEF LinksInverse
    <3> QED BY <3>1, <3>2, <1>3 DEF LinksInverse
  <2> QED BY <2>1, <2>2, <2>3
<1>5. ASSUME NEW n \in Node PROVE next'[previous'[n]] = n
  <2>1. CASE n = a
    BY <2>1, <1>3
  <2>2. CASE n # a /\ n = s
    BY <2>2, <1>3, <1>2
  <2>3. CASE n # a /\ n # s
    <3>1. previous'[n] = previous[n] /\ previous[n] \in Node
      BY <2>3, <1>3, <1>1
    <3>2. previous[n] # a /\ previous[n] # p
      BY <2>3, <1>1, <1>2 DEF LinksInverse
    <3> QED BY <3>1, <3>2, <1>3 DEF LinksInverse
  <2> QED BY <2>1, <2>2, <2>3
<1>6. ASSUME NEW b \in Alarm, b \notin registered' PROVE next'[b] = b
  <2>1. CASE b = a
    BY <2>1, <1>3
  <2>2. CASE b # a
    <3>1. next[b] = b /\ b \in Node
      BY <1>6, <2>2 DEF LinksInverse, Node
    <3>2. b # p
      BY <3>1, <2>2, <1>2
    <3> QED BY <3>1, <3>2, <2>2, <1>3
  <2> QED BY <2>1, <2>2
<1> QED BY <1>3, <1>4, <1>5, <1>6 DEF LinksInverse

\* alt_alarm_start and alt_alarm_stop, called from anywhere.
LEMMA StartKeeps ==
    ASSUME Inv, NEW a \in Alarm, NEW n \in Delays, AlarmStart(a, n)
    PROVE  /\ next' \in [Node -> Node] /\ previous' \in [Node -> Node] /\ time' \in [Alarm -> Nat]
           /\ registered' \subseteq Alarm /\ LinksInverse'
<1>1. next' \in [Node -> Node] /\ previous' \in [Node -> Node] /\ LinksInverse'
  BY InsertKeepsLinks DEF Inv, AlarmStart
<1>2. time' \in [Alarm -> Nat] /\ registered' \subseteq Alarm
  BY AlarmAssumption DEF Inv, TypeOK, AlarmStart
<1> QED BY <1>1, <1>2

\* alt_alarm_stop keeps the list well formed, registered or not.
LEMMA StopKeeps ==
    ASSUME Inv, NEW a \in Alarm, AlarmStop(a)
    PROVE  /\ next' \in [Node -> Node] /\ previous' \in [Node -> Node] /\ time' \in [Alarm -> Nat]
           /\ registered' \subseteq Alarm /\ LinksInverse'
<1>1. next' \in [Node -> Node] /\ previous' \in [Node -> Node] /\ LinksInverse'
  BY RemoveKeepsLinks DEF Inv, AlarmStop
<1>2. time' \in [Alarm -> Nat] /\ registered' \subseteq Alarm
  BY DEF Inv, TypeOK, AlarmStop
<1> QED BY <1>1, <1>2

\* The empty list is well formed.
LEMMA InvInit == Init => Inv
  BY AlarmAssumption DEF Init, Inv, TypeOK, LinksInverse, Node

\* No step breaks the list: starts, stops, answers or the tick's own.
LEMMA InvNext == Inv /\ [Next]_vars => Inv'
<1> SUFFICES ASSUME Inv, [Next]_vars PROVE Inv'
  OBVIOUS
<1> USE DEF Inv
<1>1. CASE SysclkInit
  BY <1>1 DEF SysclkInit, TypeOK, LinksInverse, listVars, tickVars
<1>2. ASSUME NEW a \in Alarm, NEW n \in Delays, ThreadStarts(a, n) \/ CallbackStarts(a, n)
      PROVE  Inv'
  BY <1>2, StartKeeps DEF ThreadStarts, CallbackStarts, TypeOK, tickVars
<1>3. ASSUME NEW a \in Alarm, ThreadStops(a) \/ CallbackStops(a) PROVE Inv'
  BY <1>3, StopKeeps DEF ThreadStops, CallbackStops, TypeOK, tickVars
<1>4. CASE TickBegins
  BY <1>4, AlarmAssumption DEF TickBegins, TypeOK, LinksInverse, listVars, Node
<1>5. CASE Visit
  BY <1>5 DEF Visit, TypeOK, LinksInverse, listVars
<1>6. CASE TickReturns
  BY <1>6 DEF TickReturns, TypeOK, LinksInverse, listVars
<1>7. ASSUME NEW r \in Returns, Answer(r) PROVE Inv'
  <2>1. alarm \in Alarm
    BY <1>7 DEF Answer, TypeOK, Node
  <2>2. /\ next' \in [Node -> Node] /\ previous' \in [Node -> Node] /\ time' \in [Alarm -> Nat]
        /\ registered' \subseteq Alarm /\ LinksInverse'
    <3>1. CASE r = 0
      BY <3>1, <1>7, <2>1, StopKeeps DEF Answer
    <3>2. CASE r # 0
      BY <3>2, <1>7, <2>1, AlarmAssumption DEF Answer, TypeOK, LinksInverse
    <3> QED BY <3>1, <3>2
  <2> QED BY <1>7, <2>2 DEF Answer, TypeOK
<1>8. CASE UNCHANGED vars
  BY <1>8 DEF vars, listVars, tickVars, TypeOK, LinksInverse
<1>9. ASSUME NEW a \in MayStop(alarm), CallbackStops(a) PROVE a \in Alarm
  BY <1>9, AlarmAssumption DEF CallbackStops, TypeOK, Node
<1> QED
  BY <1>1, <1>2, <1>3, <1>4, <1>5, <1>6, <1>7, <1>8, <1>9 DEF Next, Thread, Callback, Tick

\* The list of alarms is well formed at every step of every program: links
\* that undo each other, and stopped alarms linked to themselves, so that
\* stopping twice is harmless (alt_llist.h:85-118).
THEOREM ListWellFormed == PartSpec => [](TypeOK /\ LinksInverse)
<1>1. PartInit => Inv
  BY InvInit DEF PartInit
<1>2. [PartNext]_allVars => [Next]_vars
  BY DEF PartNext, allVars
<1>3. Inv /\ [PartNext]_allVars => Inv'
  BY <1>2, InvNext
<1> QED
  BY <1>1, <1>3, PTL DEF PartSpec, Inv

\* A callback stops no alarm but its own.
OnlyThemselves == \A a \in Alarm : MayStop(a) \subseteq {a}

\* The links lead from the head through the registered alarms by falling rank,
\* leaving none out.
Ordered(rank) ==
    /\ \A a, b \in registered : a # b => rank[a] # rank[b]
    /\ \A b \in registered : next[Head] # Head /\ rank[b] <= rank[next[Head]]
    /\ \A a \in registered : next[a] # Head => rank[next[a]] < rank[a]
    /\ \A a, b \in registered : rank[b] < rank[a] => next[a] # Head /\ rank[b] <= rank[next[a]]

\* What a tick has still to visit: every alarm that is due now comes after the
\* place where it is, and that place is an alarm that is registered.
Ahead(rank) ==
    /\ \A b \in registered : time[b] >= nticks /\ (pc = "idle" => time[b] > nticks)
    /\ pc = "loop" =>
          /\ alarm # Head => alarm \in registered
          /\ \A b \in registered : time[b] = nticks => alarm # Head /\ rank[b] <= rank[alarm]
    /\ pc = "call" =>
          /\ following # alarm /\ (following # Head => following \in registered)
          /\ \A b \in registered : time[b] = nticks =>
                b = alarm \/ (following # Head /\ rank[b] <= rank[following])

TickInv == Inv /\ \E rank \in [Alarm -> Nat] : Ordered(rank) /\ Ahead(rank)

\* From the head and from a registered alarm the links lead to such again.
LEMMA Inside ==
    ASSUME Inv, NEW x \in registered \cup {Head}
    PROVE  next[x] \in registered \cup {Head} /\ previous[x] \in registered \cup {Head}
<1>1. x \in Node /\ next[x] \in Node /\ previous[x] \in Node
  BY DEF Inv, TypeOK, Node
<1>2. ASSUME next[x] \in Alarm \ registered PROVE FALSE
  <2>1. next[next[x]] = next[x]
    BY <1>2 DEF Inv, LinksInverse
  <2>2. previous[next[next[x]]] = next[x] /\ previous[next[x]] = x
    BY <1>1 DEF Inv, LinksInverse
  <2> QED
    BY <1>2, <2>1, <2>2, AlarmAssumption
<1>3. ASSUME previous[x] \in Alarm \ registered PROVE FALSE
  <2>1. next[previous[x]] = previous[x] /\ next[previous[x]] = x
    BY <1>1, <1>3 DEF Inv, LinksInverse
  <2> QED
    BY <1>3, <2>1, AlarmAssumption
<1> QED
  BY <1>1, <1>2, <1>3 DEF Node

\* The new first alarm gets the highest rank.
LEMMA InsertOrders ==
    ASSUME Inv, NEW a \in Alarm, a \notin registered, Insert(a),
           registered' = registered \cup {a},
           NEW rank \in [Alarm -> Nat], Ordered(rank)
    PROVE  \E r \in [Alarm -> Nat] : Ordered(r)' /\ \A b \in registered : r[b] = rank[b]
<1> DEFINE top == IF next[Head] = Head THEN 0 ELSE rank[next[Head]] + 1
<1>1. next[Head] \in registered \cup {Head} /\ Head \notin Alarm /\ registered \subseteq Alarm
  BY Inside, AlarmAssumption DEF Inv, TypeOK
<1>2. top \in Nat
  BY <1>1
<1>3. \A b \in registered : rank[b] < top /\ rank[b] \in Nat
  BY <1>1 DEF Ordered
<1>4. next[Head] # Head => rank[next[Head]] < top
  BY <1>1
<1> HIDE DEF top
<1>5. PICK r \in [Alarm -> Nat] : r[a] = top /\ \A b \in registered : r[b] = rank[b]
  <2>1. /\ [rank EXCEPT ![a] = top] \in [Alarm -> Nat] /\ [rank EXCEPT ![a] = top][a] = top
        /\ \A b \in registered : [rank EXCEPT ![a] = top][b] = rank[b]
    BY <1>1, <1>2
  <2> QED
    BY <2>1
<1>6. /\ next'[Head] = a /\ next'[a] = next[Head]
      /\ \A b \in registered : next'[b] = next[b]
  BY <1>1 DEF Insert, Inv, TypeOK, Node
<1>7. \A b \in registered : next[b] \in registered \cup {Head}
  BY Inside
<1>8. \A b \in registered : a # b /\ r[b] < r[a]
  BY <1>3, <1>5
<1>9. \A b, c \in registered' : b # c => r[b] # r[c]
  BY <1>3, <1>5, <1>8 DEF Ordered
<1>10. \A b \in registered' : next'[Head] # Head /\ r[b] <= r[next'[Head]]
  BY <1>1, <1>2, <1>3, <1>5, <1>6
<1>11. \A b \in registered' : next'[b] # Head => r[next'[b]] < r[b]
  BY <1>1, <1>3, <1>4, <1>5, <1>6, <1>7 DEF Ordered
<1>12. \A b, c \in registered' : r[c] < r[b] => next'[b] # Head /\ r[c] <= r[next'[b]]
  <2> SUFFICES ASSUME NEW b \in registered', NEW c \in registered', r[c] < r[b]
               PROVE  next'[b] # Head /\ r[c] <= r[next'[b]]
    OBVIOUS
  <2>1. c # a
    BY <1>2, <1>3, <1>5
  <2>2. CASE b = a
    BY <1>1, <1>5, <1>6, <2>1, <2>2 DEF Ordered
  <2>3. CASE b # a
    BY <1>1, <1>5, <1>6, <1>7, <2>1, <2>3 DEF Ordered
  <2> QED
    BY <2>2, <2>3
<1>13. Ordered(r)'
  BY <1>9, <1>10, <1>11, <1>12 DEF Ordered
<1> QED
  BY <1>5, <1>13

\* Taking an alarm out, registered or not, leaves the others in order.
LEMMA RemoveOrders ==
    ASSUME Inv, NEW a \in Alarm, AlarmStop(a),
           NEW rank \in [Alarm -> Nat], Ordered(rank)
    PROVE  Ordered(rank)'
<1>1. Head \notin Alarm /\ registered \subseteq Alarm /\ registered' = registered \ {a}
  BY AlarmAssumption DEF Inv, TypeOK, AlarmStop
<1>2. CASE a \notin registered
  <2>1. next[a] = a /\ previous[a] = a
    BY <1>2 DEF Inv, LinksInverse, Node
  <2>2. next' = next
    BY <2>1 DEF AlarmStop, Remove, Inv, TypeOK, Node
  <2> QED
    BY <1>1, <1>2, <2>2 DEF Ordered
<1>3. CASE a \in registered
  <2>1. PICK p \in registered \cup {Head}, s \in registered \cup {Head} :
           p = previous[a] /\ s = next[a] /\ next[p] = a
    BY <1>3, <1>1, Inside DEF Inv, LinksInverse, Node
  <2>2. s # a /\ p # a
    BY <1>1, <1>3, <2>1 DEF Ordered
  <2>3. /\ next'[p] = s
        /\ \A b \in registered \cup {Head} : b # a /\ b # p => next'[b] = next[b]
    BY <1>1, <1>3, <2>1, <2>2 DEF AlarmStop, Remove, Inv, TypeOK, Node
  <2>4. \A b \in registered \cup {Head} : b # p => next[b] # a
    BY <1>1, <2>1 DEF Inv, LinksInverse, Node
  <2>5. \A b \in registered \cup {Head} : next[b] \in registered \cup {Head}
    BY Inside
  <2>6. \A b \in registered : rank[b] \in Nat
    BY <1>1
  <2>7. \A b \in registered : b # a => rank[b] # rank[a]
    BY <1>3 DEF Ordered
  <2>8. \A b \in registered' : next'[Head] # Head /\ rank[b] <= rank[next'[Head]]
    <3> SUFFICES ASSUME NEW b \in registered'
                 PROVE  next'[Head] # Head /\ rank[b] <= rank[next'[Head]]
      OBVIOUS
    <3>1. next[Head] # Head /\ rank[b] <= rank[next[Head]]
      BY <1>1 DEF Ordered
    <3>2. CASE p = Head
      <4>1. rank[b] < rank[a]
        BY <1>1, <1>3, <2>1, <2>6, <2>7, <3>1, <3>2
      <4> QED
        BY <1>1, <1>3, <2>1, <2>3, <3>2, <4>1 DEF Ordered
    <3>3. CASE p # Head
      BY <1>1, <2>3, <3>1, <3>3
    <3> QED
      BY <3>2, <3>3
  <2>9. \A b \in registered' : next'[b] # Head => rank[next'[b]] < rank[b]
    <3> SUFFICES ASSUME NEW b \in registered', next'[b] # Head PROVE rank[next'[b]] < rank[b]
      OBVIOUS
    <3>1. CASE b = p
      <4>1. rank[a] < rank[p] /\ rank[s] < rank[a]
        BY <1>1, <1>3, <2>1, <2>3, <3>1 DEF Ordered
      <4> QED
        BY <1>1, <1>3, <2>1, <2>3, <2>6, <3>1, <4>1
    <3>2. CASE b # p
      BY <1>1, <2>3, <3>2 DEF Ordered
    <3> QED
      BY <3>1, <3>2
  <2>10. \A b, c \in registered' :
            rank[c] < rank[b] => next'[b] # Head /\ rank[c] <= rank[next'[b]]
    <3> SUFFICES ASSUME NEW b \in registered', NEW c \in registered', rank[c] < rank[b]
                 PROVE  next'[b] # Head /\ rank[c] <= rank[next'[b]]
      OBVIOUS
    <3>1. next[b] # Head /\ rank[c] <= rank[next[b]]
      BY <1>1 DEF Ordered
    <3>2. CASE b = p
      <4>1. rank[c] < rank[a]
        BY <1>1, <1>3, <2>1, <2>6, <2>7, <3>1, <3>2
      <4> QED
        BY <1>1, <1>3, <2>1, <2>3, <3>2, <4>1 DEF Ordered
    <3>3. CASE b # p
      BY <1>1, <2>3, <3>1, <3>3
    <3> QED
      BY <3>2, <3>3
  <2> QED
    BY <1>1, <2>8, <2>9, <2>10 DEF Ordered
<1> QED
  BY <1>2, <1>3

\* A new alarm is due after this tick, and goes before the place it is at.
LEMMA StartAhead ==
    ASSUME TickInv, NEW a \in Alarm, NEW n \in Delays, AlarmStart(a, n), UNCHANGED tickVars, Inv'
    PROVE  TickInv'
<1>1. PICK rank \in [Alarm -> Nat] : Ordered(rank) /\ Ahead(rank)
  BY DEF TickInv
<1>2. a \notin registered /\ registered' = registered \cup {a} /\ Insert(a)
      /\ time' = [time EXCEPT ![a] = n + nticks + 1]
  BY DEF AlarmStart
<1>3. PICK r \in [Alarm -> Nat] : Ordered(r)' /\ \A b \in registered : r[b] = rank[b]
  BY <1>1, <1>2, InsertOrders DEF TickInv
<1>4. /\ registered \subseteq Alarm /\ time'[a] > nticks /\ nticks \in Nat
      /\ \A b \in registered : time'[b] = time[b]
  BY <1>2, AlarmAssumption DEF TickInv, Inv, TypeOK
<1>5. nticks' = nticks /\ pc' = pc /\ alarm' = alarm /\ following' = following
  BY DEF tickVars
<1>6. \A b \in registered' :
         /\ time'[b] >= nticks /\ (pc = "idle" => time'[b] > nticks)
         /\ time'[b] = nticks => b \in registered /\ time[b] = nticks
  <2>1. time'[a] >= nticks /\ time'[a] # nticks
    BY <1>2, <1>4, AlarmAssumption DEF TickInv, Inv, TypeOK
  <2> QED
    BY <1>1, <1>2, <1>4, <2>1 DEF Ahead
<1>7. Ahead(r)'
  <2>1. pc = "loop" => /\ alarm # Head => alarm \in registered'
                       /\ \A b \in registered' : time'[b] = nticks =>
                             alarm # Head /\ r[b] <= r[alarm]
    <3> SUFFICES ASSUME pc = "loop"
                 PROVE  /\ alarm # Head => alarm \in registered'
                        /\ \A b \in registered' : time'[b] = nticks =>
                              alarm # Head /\ r[b] <= r[alarm]
      OBVIOUS
    <3>1. /\ alarm # Head => alarm \in registered
          /\ \A b \in registered : time[b] = nticks => alarm # Head /\ rank[b] <= rank[alarm]
      BY <1>1 DEF Ahead
    <3> QED
      BY <1>2, <1>3, <1>4, <1>6, <3>1
  <2>2. pc = "call" => /\ following # alarm /\ (following # Head => following \in registered')
                       /\ \A b \in registered' : time'[b] = nticks =>
                             b = alarm \/ (following # Head /\ r[b] <= r[following])
    <3> SUFFICES ASSUME pc = "call"
                 PROVE  /\ following # alarm /\ (following # Head => following \in registered')
                        /\ \A b \in registered' : time'[b] = nticks =>
                              b = alarm \/ (following # Head /\ r[b] <= r[following])
      OBVIOUS
    <3>1. /\ following # alarm /\ (following # Head => following \in registered)
          /\ \A b \in registered : time[b] = nticks =>
                b = alarm \/ (following # Head /\ rank[b] <= rank[following])
      BY <1>1 DEF Ahead
    <3> QED
      BY <1>2, <1>3, <1>4, <1>6, <3>1
  <2>3. \A b \in registered' : time'[b] >= nticks' /\ (pc' = "idle" => time'[b] > nticks')
    BY <1>5, <1>6
  <2> QED
    BY <1>5, <2>1, <2>2, <2>3 DEF Ahead
<1> QED
  BY <1>3, <1>7 DEF TickInv

\* Nothing that is still to visit is lost with an alarm that is stopped.
LEMMA StopAhead ==
    ASSUME TickInv, NEW a \in Alarm, AlarmStop(a), UNCHANGED tickVars, Inv',
           pc = "idle" \/ (pc = "call" /\ a = alarm)
    PROVE  TickInv'
<1>1. PICK rank \in [Alarm -> Nat] : Ordered(rank) /\ Ahead(rank)
  BY DEF TickInv
<1>2. Ordered(rank)'
  BY <1>1, RemoveOrders DEF TickInv
<1>3. registered' = registered \ {a} /\ time' = time /\ UNCHANGED <<nticks, pc, alarm, following>>
  BY DEF AlarmStop, tickVars
<1>4. Ahead(rank)'
  BY <1>1, <1>3 DEF Ahead
<1> QED
  BY <1>1, <1>2, <1>4 DEF TickInv

\* A callback's answer: the alarm is due later, or gone.
LEMMA AnswerAhead ==
    ASSUME TickInv, NEW r \in Returns, Answer(r), Inv'
    PROVE  TickInv'
<1>1. PICK rank \in [Alarm -> Nat] : Ordered(rank) /\ Ahead(rank)
  BY DEF TickInv
<1>2. /\ pc = "call" /\ pc' = "loop" /\ alarm' = following /\ nticks' = nticks /\ nticks \in Nat
      /\ alarm \in Alarm /\ r \in Nat /\ registered \subseteq Alarm /\ time \in [Alarm -> Nat]
  BY AlarmAssumption DEF Answer, TickInv, Inv, TypeOK, Node
<1>3. CASE r = 0
  <2>1. AlarmStop(alarm)
    BY <1>3 DEF Answer
  <2>2. Ordered(rank)'
    BY <1>1, <1>2, <2>1, RemoveOrders DEF TickInv
  <2>3. registered' = registered \ {alarm} /\ time' = time
    BY <2>1 DEF AlarmStop
  <2>4. Ahead(rank)'
    BY <1>1, <1>2, <2>3 DEF Ahead
  <2> QED
    BY <1>1, <2>2, <2>4 DEF TickInv
<1>4. CASE r # 0
  <2>1. /\ time' = [time EXCEPT ![alarm] = time[alarm] + r]
        /\ UNCHANGED <<next, previous, registered>>
    BY <1>4 DEF Answer
  <2>2. /\ time'[alarm] = time[alarm] + r
        /\ \A b \in registered : b # alarm => time'[b] = time[b]
    BY <1>2, <2>1
  <2>3. alarm \in registered => time'[alarm] > nticks
    BY <1>1, <1>2, <1>4, <2>2 DEF Ahead
  <2>4. Ordered(rank)'
    BY <1>1, <2>1 DEF Ordered
  <2>5. Ahead(rank)'
    <3>1. \A b \in registered :
             time'[b] >= nticks /\ (time'[b] = nticks => b # alarm /\ time[b] = nticks)
      BY <1>1, <1>2, <2>2, <2>3 DEF Ahead
    <3> QED
      BY <1>1, <1>2, <2>1, <3>1 DEF Ahead
  <2> QED
    BY <1>1, <2>4, <2>5 DEF TickInv
<1> QED
  BY <1>3, <1>4

\* The tick's own steps: it begins before all alarms, and passes none that is due.
LEMMA TickAhead ==
    ASSUME TickInv, Tick, Inv'
    PROVE  TickInv'
<1>1. PICK rank \in [Alarm -> Nat] : Ordered(rank) /\ Ahead(rank)
  BY DEF TickInv
<1>2. UNCHANGED <<next, previous, time, registered>>
  BY DEF Tick, TickBegins, Visit, TickReturns, listVars
<1>3. Ordered(rank)'
  BY <1>1, <1>2 DEF Ordered
<1>4. /\ registered \subseteq Alarm /\ Head \notin Alarm /\ nticks \in Nat
      /\ \A b \in registered : time[b] \in Nat /\ rank[b] \in Nat
      /\ \A b \in registered \cup {Head} : next[b] \in registered \cup {Head}
  BY Inside, AlarmAssumption DEF TickInv, Inv, TypeOK
<1>5. CASE TickBegins
  <2>1. pc = "idle" /\ pc' = "loop" /\ nticks' = nticks + 1 /\ alarm' = next[Head]
    BY <1>5 DEF TickBegins
  <2>2. \A b \in registered : time[b] >= nticks + 1
    BY <1>1, <1>4, <2>1 DEF Ahead
  <2>3. Ahead(rank)'
    BY <1>1, <1>2, <1>4, <2>1, <2>2 DEF Ahead, Ordered
  <2> QED
    BY <1>1, <1>3, <2>3 DEF TickInv
<1>6. CASE Visit
  <2>1. /\ pc = "loop" /\ alarm \in registered /\ nticks' = nticks /\ following' = next[alarm]
        /\ IF time[alarm] <= nticks THEN pc' = "call" /\ alarm' = alarm
                                    ELSE pc' = "loop" /\ alarm' = next[alarm]
    BY <1>1, <1>6 DEF Visit, Ahead
  <2>2. \A b \in registered : time[b] = nticks =>
           b = alarm \/ (next[alarm] # Head /\ rank[b] <= rank[next[alarm]])
    BY <1>1, <1>4, <2>1 DEF Ahead, Ordered
  <2>3. next[alarm] # alarm
    BY <1>1, <1>4, <2>1 DEF Ordered
  <2>4. CASE time[alarm] <= nticks
    BY <1>1, <1>2, <1>3, <1>4, <2>1, <2>2, <2>3, <2>4 DEF Ahead, TickInv
  <2>5. CASE ~(time[alarm] <= nticks)
    <3>1. time[alarm] # nticks
      BY <1>4, <2>1, <2>5
    <3> QED
      BY <1>1, <1>2, <1>3, <1>4, <2>1, <2>2, <2>5, <3>1 DEF Ahead, TickInv
  <2> QED
    BY <2>4, <2>5
<1>7. CASE TickReturns
  <2>1. pc = "loop" /\ alarm = Head /\ pc' = "idle" /\ UNCHANGED <<nticks, alarm, following>>
    BY <1>7 DEF TickReturns
  <2>2. \A b \in registered : time[b] > nticks
    BY <1>1, <1>4, <2>1 DEF Ahead
  <2>3. Ahead(rank)'
    BY <1>1, <1>2, <2>1, <2>2 DEF Ahead
  <2> QED
    BY <1>1, <1>3, <2>3 DEF TickInv
<1> QED
  BY <1>5, <1>6, <1>7 DEF Tick

\* No step of a thread, a callback or the tick loses a due alarm.
LEMMA TickInductive ==
    ASSUME OnlyThemselves
    PROVE  TickInv /\ [Next]_vars => TickInv'
<1> SUFFICES ASSUME TickInv, [Next]_vars, Inv' PROVE TickInv'
  BY InvNext DEF TickInv
<1>1. ASSUME NEW a \in Alarm, NEW n \in Delays, ThreadStarts(a, n) \/ CallbackStarts(a, n)
      PROVE  TickInv'
  BY <1>1, StartAhead DEF ThreadStarts, CallbackStarts
<1>2. ASSUME NEW a \in Alarm, ThreadStops(a) PROVE TickInv'
  BY <1>2, StopAhead DEF ThreadStops
<1>3. ASSUME NEW a \in MayStop(alarm), CallbackStops(a) PROVE TickInv'
  <2>1. pc = "call" /\ alarm \in Alarm
    BY <1>3 DEF CallbackStops, TickInv, Inv, TypeOK, Node
  <2>2. a = alarm
    BY <1>3, <2>1 DEF OnlyThemselves
  <2> QED
    BY <1>3, <2>1, <2>2, StopAhead DEF CallbackStops
<1>4. ASSUME NEW r \in Returns, Answer(r) PROVE TickInv'
  BY <1>4, AnswerAhead
<1>5. CASE Tick
  BY <1>5, TickAhead
<1>6. CASE SysclkInit \/ UNCHANGED vars
  <2>1. UNCHANGED <<next, previous, time, registered, nticks, pc, alarm, following>>
    BY <1>6 DEF SysclkInit, vars, listVars, tickVars
  <2> QED
    BY <2>1 DEF TickInv, Ordered, Ahead
<1> QED
  BY <1>1, <1>2, <1>3, <1>4, <1>5, <1>6 DEF Next, Thread, Callback

\* Of any number of alarms, started and stopped by threads and callbacks, no
\* registered one is overdue between ticks, and no stopped one is called
\* (alt_tick.c:96-122), as long as a callback stops only its own alarm.
THEOREM AlarmsInTime ==
    ASSUME OnlyThemselves
    PROVE  PartSpec => []NothingOverdue /\ CallsOnlyRegistered
<1>1. PartInit => TickInv
  <2> SUFFICES ASSUME PartInit PROVE TickInv
    OBVIOUS
  <2>1. registered = {} /\ pc = "idle" /\ Inv
    BY InvInit DEF PartInit, Init
  <2>2. [a \in Alarm |-> 0] \in [Alarm -> Nat]
    OBVIOUS
  <2>3. Ordered([a \in Alarm |-> 0]) /\ Ahead([a \in Alarm |-> 0])
    BY <2>1 DEF Ordered, Ahead
  <2> QED
    BY <2>1, <2>2, <2>3 DEF TickInv
<1>2. [PartNext]_allVars => [Next]_vars
  BY DEF PartNext, allVars
<1>3. TickInv /\ [PartNext]_allVars => TickInv'
  BY <1>2, TickInductive
<1>4. TickInv => NothingOverdue
  BY DEF TickInv, Ahead, NothingOverdue
<1>5. TickInv /\ [PartNext]_allVars => [pc = "loop" /\ pc' = "call" => alarm' \in registered]_vars
  <2> SUFFICES ASSUME TickInv, [Next]_vars, pc = "loop", pc' = "call" PROVE alarm' \in registered
    BY <1>2
  <2>1. Visit /\ alarm' = alarm /\ alarm # Head
    BY DEF Next, Thread, Callback, Tick, SysclkInit, ThreadStarts, ThreadStops, Answer,
           CallbackStarts, CallbackStops, TickBegins, Visit, TickReturns, vars, tickVars
  <2> QED
    BY <2>1 DEF TickInv, Ahead
<1> QED
  BY <1>1, <1>3, <1>4, <1>5, PTL DEF PartSpec, CallsOnlyRegistered

-----------------------------------------------------------------------------
(* The whole list is reached from its head.                                 *)

WholeInv == Inv /\ ListHoldsRegistered

\* The links that lead from the head to the registered alarms lead to no others.
LEMMA Encloses == Inv => Closed(registered \cup {Head})
<1> SUFFICES ASSUME Inv PROVE \A x \in registered \cup {Head} : next[x] \in registered \cup {Head}
  BY DEF Closed
<1> QED
  BY Inside

\* The alarm that is put in comes first, and leads to the others as the head did.
LEMMA InsertWhole ==
    ASSUME WholeInv, NEW a \in Alarm, a \notin registered, Insert(a),
           registered' = registered \cup {a},
           NEW W \in SUBSET Node, Closed(W)'
    PROVE  registered' \subseteq W
<1>1. /\ next \in [Node -> Node] /\ a \in Node /\ Head \in Node /\ a # Head /\ next[a] = a
      /\ W' = W
  BY AlarmAssumption DEF WholeInv, Inv, TypeOK, LinksInverse, Node
<1>2. /\ next'[Head] = a /\ next'[a] = next[Head]
      /\ \A m \in Node \ {Head, a} : next'[m] = next[m]
  BY <1>1 DEF Insert
<1>3. a \in W /\ next[Head] \in W /\ \A m \in W \ {Head, a} : next[m] \in W
  BY <1>1, <1>2 DEF Closed
<1>4. Closed(W)
  BY <1>1, <1>3 DEF Closed
<1> QED
  BY <1>3, <1>4 DEF WholeInv, ListHoldsRegistered

\* The alarm that is taken out leaves none of the others behind it.
LEMMA RemoveWhole ==
    ASSUME WholeInv, NEW a \in Alarm, Remove(a), registered' = registered \ {a},
           NEW W \in SUBSET Node, Closed(W)'
    PROVE  registered' \subseteq W
<1>1. /\ next \in [Node -> Node] /\ previous \in [Node -> Node]
      /\ a \in Node /\ Head \in Node /\ a # Head
  BY AlarmAssumption DEF WholeInv, Inv, TypeOK, Node
<1>2. PICK p \in Node, s \in Node : p = previous[a] /\ s = next[a]
  BY <1>1
<1>3. next[p] = a /\ \A m \in Node : next[m] = a => m = p
  BY <1>1, <1>2 DEF WholeInv, Inv, LinksInverse
<1>4. next'[Head] \in W /\ \A m \in W \ {Head} : next'[m] \in W
  BY DEF Closed
<1>5. CASE s = a
  <2>1. p = a
    BY <1>1, <1>3, <1>5, <1>2
  <2>2. next' = next
    BY <1>1, <1>2, <1>5, <2>1 DEF Remove
  <2>3. Closed(W)
    BY <1>4, <2>2 DEF Closed
  <2> QED
    BY <2>3 DEF WholeInv, ListHoldsRegistered
<1>6. CASE s # a /\ (p = Head \/ p \in W)
  <2>1. p # a
    BY <1>2, <1>3, <1>6
  <2>2. next'[p] = s /\ \A m \in Node \ {a, p} : next'[m] = next[m]
    BY <1>1, <1>2, <2>1 DEF Remove
  <2>3. s \in W
    BY <1>4, <1>6, <2>2
  <2>4. next[Head] \in W \cup {a}
    BY <1>1, <1>3, <1>4, <2>2
  <2>5. ASSUME NEW m \in (W \cup {a}) \ {Head} PROVE next[m] \in W \cup {a}
    BY <1>2, <1>3, <1>4, <2>2, <2>3
  <2>6. Closed(W \cup {a}) /\ W \cup {a} \in SUBSET Node
    BY <1>1, <2>4, <2>5 DEF Closed
  <2> QED
    BY <2>6 DEF WholeInv, ListHoldsRegistered
<1>7. CASE s # a /\ p # Head /\ p \notin W
  <2>1. \A m \in Node \ {a, p} : next'[m] = next[m] /\ next[m] # a
    BY <1>1, <1>2, <1>3 DEF Remove
  <2>2. Closed(W \ {a}) /\ W \ {a} \in SUBSET Node
    BY <1>1, <1>4, <1>7, <2>1 DEF Closed
  <2> QED
    BY <2>2 DEF WholeInv, ListHoldsRegistered
<1> QED
  BY <1>5, <1>6, <1>7

\* The list of the next state is whole when every set its links do not leave
\* has all that is registered in it.
LEMMA WholeAgain ==
    ASSUME Inv', \A W \in SUBSET Node : Closed(W)' => registered' \subseteq W
    PROVE  WholeInv'
<1>1. Closed(registered \cup {Head})'
  BY Encloses, PTL
<1> QED
  BY <1>1 DEF WholeInv, ListHoldsRegistered, Closed

\* No step of a thread, a callback or the tick leaves an alarm out of the list.
LEMMA WholeNext == WholeInv /\ [Next]_vars => WholeInv'
<1> SUFFICES ASSUME WholeInv, [Next]_vars,
                    NEW W \in SUBSET Node, Closed(W)'
             PROVE  registered' \subseteq W
  BY InvNext, WholeAgain DEF WholeInv
<1>1. ASSUME NEW a \in Alarm, NEW n \in Delays, AlarmStart(a, n) PROVE registered' \subseteq W
  BY <1>1, InsertWhole DEF AlarmStart
<1>2. ASSUME NEW a \in Alarm, AlarmStop(a) PROVE registered' \subseteq W
  BY <1>2, RemoveWhole DEF AlarmStop
<1>3. CASE UNCHANGED <<next, registered>>
  BY <1>3 DEF WholeInv, ListHoldsRegistered, Closed
<1>4. ASSUME NEW r \in Returns, Answer(r) PROVE registered' \subseteq W
  <2>1. alarm \in Alarm
    BY <1>4 DEF Answer, WholeInv, Inv, TypeOK, Node
  <2> QED
    BY <1>2, <1>3, <1>4, <2>1 DEF Answer
<1>5. ASSUME NEW a \in MayStop(alarm), CallbackStops(a) PROVE registered' \subseteq W
  <2>1. a \in Alarm
    BY <1>5, AlarmAssumption DEF CallbackStops, WholeInv, Inv, TypeOK, Node
  <2> QED
    BY <1>2, <1>5, <2>1 DEF CallbackStops
<1>6. CASE SysclkInit \/ Tick \/ UNCHANGED vars
  BY <1>3, <1>6 DEF SysclkInit, Tick, TickBegins, Visit, TickReturns, vars, listVars
<1> QED
  BY <1>1, <1>2, <1>4, <1>5, <1>6 DEF Next, Thread, Callback, ThreadStarts, ThreadStops,
     CallbackStarts

\* However threads and callbacks start and stop alarms, any that a callback
\* likes included, the links lead from the head through all that are
\* registered and through no others, so that a tick loses none
\* (alt_llist.h:85-118).
THEOREM ListIsWhole == PartSpec => []ListHoldsRegistered
<1>1. PartInit => WholeInv
  <2> SUFFICES ASSUME PartInit PROVE WholeInv
    OBVIOUS
  <2>1. Inv /\ registered = {}
    BY InvInit DEF PartInit, Init
  <2> QED
    BY <2>1, Encloses DEF WholeInv, ListHoldsRegistered
<1>2. [PartNext]_allVars => [Next]_vars
  BY DEF PartNext, allVars
<1>3. WholeInv /\ [PartNext]_allVars => WholeInv'
  BY <1>2, WholeNext
<1> QED
  BY <1>1, <1>3, PTL DEF PartSpec, WholeInv

-----------------------------------------------------------------------------
(* The table of file descriptors.                                           *)

\* The three channels are never free.
ChannelsOpen == \A fd \in 0 .. 2 : device[fd] # F!Free

\* Until main begins nobody has opened or locked anything.
Booting == boot > 0 => given = {} /\ \A fd \in F!Fd : "EXCL" \notin flags[fd]

\* The channels that are redirected are marked as devices.
Redirected == \A i \in 1 .. 3 : i > boot => "DEV" \in flags[F!Channel(i)]

FilesInv == F!TypeOK /\ F!FilesKept /\ ChannelsOpen /\ Booting /\ Redirected

-----------------------------------------------------------------------------
(* alt_get_fd's search: a table that is not full has a lowest free entry.  *)

Less == {ss \in Nat \X Nat : ss[1] < ss[2]}

\* The search yields an element of the set.
LEMMA LowestOf ==
    ASSUME NEW nums, nums \subseteq Nat, nums # {}
    PROVE  F!Lowest(nums) \in nums
<1>1. IsWellFoundedOn(Less, Nat)
  BY NatLessThanWellFounded DEF OpToRel, Less
<1>2. PICK x \in nums : \A y \in nums : ~(<<y, x>> \in Less)
  BY <1>1, WFMin
<1>3. ASSUME NEW m \in nums PROVE x <= m
  <2>1. m \in Nat /\ x \in Nat
    OBVIOUS
  <2>2. <<m, x>> \in Less <=> m < x
    BY <2>1 DEF Less
  <2> QED
    BY <1>2, <2>1, <2>2
<1> QED
  BY <1>3 DEF F!Lowest

\* A table with a free entry has a lowest one.
LEMMA LowestFree ==
    ASSUME F!FilesAssumption, F!FreeFds # {}
    PROVE  F!Lowest(F!FreeFds) \in F!Fd /\ device[F!Lowest(F!FreeFds)] = F!Free
<1>1. F!FreeFds \subseteq Nat
  BY DEF F!FreeFds, F!Fd, F!FilesAssumption
<1> QED
  BY <1>1, LowestOf DEF F!FreeFds

-----------------------------------------------------------------------------
(* The steps.                                                               *)

\* The table as the boot code finds it.
LEMMA FilesInitially == ASSUME F!FilesAssumption, F!Init PROVE FilesInv
<1>1. F!TypeOK
  BY DEF F!FilesAssumption, F!Init, F!TypeOK, F!Fd, F!Devices, F!Results
<1>2. F!FilesKept
  BY DEF F!FilesAssumption, F!Init, F!FilesKept, F!Fd, F!Devices, F!Free
<1>3. ChannelsOpen /\ Booting /\ Redirected
  BY DEF F!FilesAssumption, F!Init, ChannelsOpen, Booting, Redirected, F!Fd, F!Free
<1> QED
  BY <1>1, <1>2, <1>3 DEF FilesInv

\* A call that yields a result and changes nothing else.
LEMMA Standing ==
    ASSUME FilesInv, UNCHANGED <<device, flags, maxFd, given, boot>>, result' \in F!Results
    PROVE  FilesInv'
BY DEF FilesInv, F!TypeOK, F!FilesKept, ChannelsOpen, Booting, Redirected, F!Channel

\* open, with its error paths.
LEMMA OpenKeeps ==
    ASSUME F!FilesAssumption, FilesInv, NEW d \in F!Devices, NEW f \in OpenFlags, F!Open(d, f)
    PROVE  FilesInv'
<1> DEFINE fd == F!Lowest(F!FreeFds)
<1>1. CASE F!FreeFds = {}
  BY <1>1, Standing DEF F!Open, F!Results
<1>2. CASE F!FreeFds # {} /\ F!Locked(d, fd)
  <2>1. fd \in F!Fd /\ device[fd] = F!Free
    BY <1>2, LowestFree
  <2>2. /\ maxFd' = F!Higher(maxFd, fd) /\ result' = "EACCES"
        /\ UNCHANGED <<device, flags, given, boot>>
    BY <1>2 DEF F!Open, F!Opened
  <2>3. maxFd' \in -1 .. MaxFds - 1 /\ maxFd' >= maxFd
    BY <2>1, <2>2 DEF FilesInv, F!TypeOK, F!Fd, F!FilesAssumption, F!Higher
  <2>4. F!TypeOK'
    BY <2>2, <2>3 DEF FilesInv, F!TypeOK, F!Results
  <2>5. F!FilesKept'
    <3>1. \A x \in given : x <= maxFd'
      BY <2>3 DEF FilesInv, F!FilesKept, F!TypeOK, F!Fd, F!FilesAssumption
    <3> QED
      BY <2>2, <3>1 DEF FilesInv, F!FilesKept
  <2> QED
    BY <2>2, <2>4, <2>5 DEF FilesInv, ChannelsOpen, Booting, Redirected, F!Channel
<1>3. CASE F!FreeFds # {} /\ ~F!Locked(d, fd)
  <2>1. fd \in F!Fd /\ device[fd] = F!Free /\ fd > 2
    BY <1>3, LowestFree DEF FilesInv, ChannelsOpen, F!Fd, F!FilesAssumption
  <2>2. /\ maxFd' = F!Higher(maxFd, fd) /\ boot = 0 /\ boot' = 0 /\ result' = "ok"
        /\ device' = [device EXCEPT ![fd] = d]
        /\ flags' = [flags EXCEPT ![fd] = (f \ F!Private) \cup {"DEV"}]
        /\ given' = given \cup {fd}
    BY <1>3 DEF F!Open, F!Opened
  <2>3. maxFd' \in -1 .. MaxFds - 1 /\ maxFd' >= maxFd /\ maxFd' >= fd
    BY <2>1, <2>2 DEF FilesInv, F!TypeOK, F!Fd, F!FilesAssumption, F!Higher
  <2>4. F!TypeOK'
    BY <2>1, <2>2, <2>3 DEF FilesInv, F!TypeOK, F!Results, F!FilesAssumption, F!Private
  <2>5. F!FilesKept'
    <3>1. \A x \in F!Fd : /\ device'[x] = IF x = fd THEN d ELSE device[x]
                        /\ flags'[x] = IF x = fd THEN (f \ F!Private) \cup {"DEV"} ELSE flags[x]
      BY <2>1, <2>2 DEF FilesInv, F!TypeOK
    <3>2. d # F!Free
      BY DEF F!Devices, F!Free, F!FilesAssumption
    <3>3. {x \in F!Fd : x > 2 /\ device'[x] # F!Free} = given'
      BY <2>1, <2>2, <3>1, <3>2 DEF FilesInv, F!FilesKept
    <3>4. \A x \in F!Fd : device'[x] = F!Free => flags'[x] = {}
      BY <3>1, <3>2 DEF FilesInv, F!FilesKept
    <3>5. \A x \in given' : x <= maxFd'
      BY <2>1, <2>2, <2>3 DEF FilesInv, F!FilesKept, F!TypeOK, F!Fd, F!FilesAssumption
    <3>6. \A x \in F!Fd : device'[x] # F!Free => "DEV" \in flags'[x]
      BY <2>2, <3>1 DEF FilesInv, F!FilesKept
    <3> QED
      BY <3>3, <3>4, <3>5, <3>6 DEF F!FilesKept
  <2>6. ChannelsOpen' /\ Booting' /\ Redirected'
    BY <2>1, <2>2 DEF FilesInv, ChannelsOpen, Booting, Redirected, F!Channel, F!TypeOK, F!Fd,
                      F!FilesAssumption
  <2> QED
    BY <2>4, <2>5, <2>6 DEF FilesInv
<1> QED
  BY <1>1, <1>2, <1>3

\* A step of the boot's redirection.
LEMMA RedirectKeeps ==
    ASSUME F!FilesAssumption, FilesInv, F!Redirect
    PROVE  FilesInv'
<1> DEFINE fd == F!Channel(boot)
<1>1. boot \in 1 .. 3 /\ boot' = boot - 1 /\ boot' \in 0 .. 2 /\ given = {} /\ given' = {}
  BY DEF F!Redirect, FilesInv, F!TypeOK, Booting
<1>2. fd \in 0 .. 2 /\ fd \in F!Fd
  BY <1>1 DEF F!Channel, F!Fd, F!FilesAssumption
<1>3. /\ device' = [device EXCEPT ![fd] = Uart]
      /\ flags' = [flags EXCEPT ![fd] = (IF fd = 0 THEN {} ELSE {"WRONLY"}) \cup {"DEV"}]
      /\ maxFd' = F!Higher(maxFd, F!Lowest(F!FreeFds)) /\ result' = "ok"
  BY DEF F!Redirect
<1>4. \A x \in F!Fd : /\ device'[x] = IF x = fd THEN Uart ELSE device[x]
                    /\ flags'[x] = IF x = fd THEN (IF fd = 0 THEN {} ELSE {"WRONLY"}) \cup {"DEV"}
                                              ELSE flags[x]
  BY <1>2, <1>3 DEF FilesInv, F!TypeOK
<1>5. Uart # F!Free
  BY DEF F!Free, F!FilesAssumption
<1>6. F!FreeFds # {}
  <2>1. 3 \in F!Fd
    BY DEF F!Fd, F!FilesAssumption
  <2>2. device[3] = F!Free
    BY <1>1, <2>1 DEF FilesInv, F!FilesKept
  <2> QED
    BY <2>1, <2>2 DEF F!FreeFds
<1>7. maxFd' \in -1 .. MaxFds - 1
  BY <1>3, <1>6, LowestFree DEF FilesInv, F!TypeOK, F!Fd, F!FilesAssumption, F!Higher
<1>8. F!TypeOK'
  BY <1>1, <1>2, <1>3, <1>7 DEF FilesInv, F!TypeOK, F!Results, F!Devices
<1>9. F!FilesKept'
  <2>1. {x \in F!Fd : x > 2 /\ device'[x] # F!Free} = given'
    BY <1>1, <1>2, <1>4 DEF FilesInv, F!FilesKept, F!Fd, F!FilesAssumption
  <2>2. \A x \in F!Fd : device'[x] = F!Free => flags'[x] = {}
    BY <1>4, <1>5 DEF FilesInv, F!FilesKept
  <2>3. ASSUME boot' = 0, NEW x \in F!Fd, device'[x] # F!Free PROVE "DEV" \in flags'[x]
    <3>1. CASE x = fd
      BY <1>4, <3>1
    <3>2. CASE x # fd
      <4>1. boot = 1 /\ x \in 0 .. 2
        BY <1>1, <1>4, <2>1, <2>3 DEF F!Fd, F!FilesAssumption
      <4>2. x = F!Channel(2) \/ x = F!Channel(3)
        BY <3>2, <4>1 DEF F!Channel
      <4> QED
        BY <1>4, <3>2, <4>1, <4>2 DEF FilesInv, Redirected
    <3> QED
      BY <3>1, <3>2
  <2> QED
    BY <1>1, <2>1, <2>2, <2>3 DEF F!FilesKept
<1>10. ChannelsOpen'
  BY <1>2, <1>4, <1>5 DEF FilesInv, ChannelsOpen, F!Fd, F!FilesAssumption
<1>11. Booting'
  BY <1>1, <1>4 DEF FilesInv, Booting
<1>12. Redirected'
  <2>1. \A i \in 1 .. 3 : F!Channel(i) \in F!Fd
    BY DEF F!Channel, F!Fd, F!FilesAssumption
  <2>2. \A i \in 1 .. 3 : i > boot' => "DEV" \in flags'[F!Channel(i)]
    BY <1>1, <1>4, <2>1 DEF FilesInv, Redirected
  <2> QED
    BY <2>2 DEF Redirected, F!Channel
<1> QED
  BY <1>8, <1>9, <1>10, <1>11, <1>12 DEF FilesInv

\* close, which never frees a channel.
LEMMA CloseKeeps ==
    ASSUME F!FilesAssumption, FilesInv, NEW fd \in F!Fd, F!Close(fd)
    PROVE  FilesInv'
<1>1. result' \in F!Results /\ UNCHANGED <<maxFd, boot>> /\ boot = 0
  BY DEF F!Close, F!Results
<1>2. CASE fd <= 2
  BY <1>1, <1>2, Standing DEF F!Close, F!Release, F!Fd, F!FilesAssumption
<1>3. CASE fd > 2
  <2>1. /\ device' = [device EXCEPT ![fd] = F!Free]
        /\ flags' = [flags EXCEPT ![fd] = {}]
        /\ given' = given \ {fd}
    BY <1>3 DEF F!Close, F!Release
  <2>2. F!TypeOK'
    BY <1>1, <2>1 DEF FilesInv, F!TypeOK
  <2>3. F!FilesKept'
    BY <1>1, <2>1 DEF FilesInv, F!TypeOK, F!FilesKept
  <2>4. ChannelsOpen' /\ Booting' /\ Redirected'
    BY <1>1, <1>3, <2>1 DEF FilesInv, F!TypeOK, ChannelsOpen, Booting, Redirected, F!Channel,
                            F!Fd, F!FilesAssumption
  <2> QED
    BY <2>2, <2>3, <2>4 DEF FilesInv
<1> QED
  BY <1>2, <1>3 DEF F!Fd, F!FilesAssumption

\* What lock, unlock and fcntl do to a descriptor in use: "DEV" stays.
LEMMA FlagsKeep ==
    ASSUME F!FilesAssumption, FilesInv, NEW fd \in F!Fd, device[fd] # F!Free, boot = 0,
           NEW f \in SUBSET {"WRONLY", "RDWR", "NONBLOCK", "APPEND", "EXCL", "DEV"},
           "DEV" \in f, flags' = [flags EXCEPT ![fd] = f],
           UNCHANGED <<device, maxFd, given, boot>>, result' \in F!Results
    PROVE  FilesInv'
<1>1. F!TypeOK'
  BY DEF FilesInv, F!TypeOK
<1>2. F!FilesKept'
  BY DEF FilesInv, F!TypeOK, F!FilesKept
<1>3. ChannelsOpen' /\ Booting' /\ Redirected'
  BY DEF FilesInv, F!TypeOK, ChannelsOpen, Booting, Redirected, F!Channel, F!Fd, F!FilesAssumption
<1> QED
  BY <1>1, <1>2, <1>3 DEF FilesInv

\* The calls that change flags.
LEMMA FlagCalls ==
    ASSUME F!FilesAssumption, FilesInv, NEW fd \in F!Fd,
           F!Lock(fd) \/ F!Unlock(fd) \/ \E f \in OpenFlags : F!SetFlags(fd, f)
    PROVE  FilesInv'
<1>1. "ok" \in F!Results /\ "EACCES" \in F!Results
  BY DEF F!Results
<1>2. flags[fd] \in SUBSET {"WRONLY", "RDWR", "NONBLOCK", "APPEND", "EXCL", "DEV"}
  BY DEF FilesInv, F!TypeOK
<1>3. CASE F!Lock(fd) /\ UNCHANGED flags
  BY <1>1, <1>3, Standing DEF F!Lock
<1>4. CASE F!Lock(fd) /\ flags' = [flags EXCEPT ![fd] = @ \cup {"EXCL"}]
  <2> DEFINE f == flags[fd] \cup {"EXCL"}
  <2>1. flags' = [flags EXCEPT ![fd] = f] /\ "DEV" \in f
    BY <1>4 DEF F!Lock
  <2>2. /\ device[fd] # F!Free /\ boot = 0 /\ UNCHANGED <<device, maxFd, given, boot>>
        /\ result' \in F!Results
    BY <1>1, <1>4 DEF F!Lock
  <2>3. f \in SUBSET {"WRONLY", "RDWR", "NONBLOCK", "APPEND", "EXCL", "DEV"}
    BY <1>2
  <2> HIDE DEF f
  <2> QED
    BY <2>1, <2>2, <2>3, FlagsKeep
<1>5. CASE F!Unlock(fd)
  <2> DEFINE f == flags[fd] \ {"EXCL"}
  <2>1. flags' = [flags EXCEPT ![fd] = f] /\ "DEV" \in f
    BY <1>5 DEF F!Unlock
  <2>2. /\ device[fd] # F!Free /\ boot = 0 /\ UNCHANGED <<device, maxFd, given, boot>>
        /\ result' \in F!Results
    BY <1>1, <1>5 DEF F!Unlock
  <2>3. f \in SUBSET {"WRONLY", "RDWR", "NONBLOCK", "APPEND", "EXCL", "DEV"}
    BY <1>2
  <2> HIDE DEF f
  <2> QED
    BY <2>1, <2>2, <2>3, FlagsKeep
<1>6. ASSUME NEW g \in OpenFlags, F!SetFlags(fd, g) PROVE FilesInv'
  <2> DEFINE f == (flags[fd] \ F!Changeable) \cup (g \cap F!Changeable)
  <2>1. flags' = [flags EXCEPT ![fd] = f]
    BY <1>6 DEF F!SetFlags
  <2>2. /\ device[fd] # F!Free /\ boot = 0 /\ UNCHANGED <<device, maxFd, given, boot>>
        /\ result' \in F!Results
    BY <1>1, <1>6 DEF F!SetFlags
  <2>3. "DEV" \in f
    BY <2>2 DEF FilesInv, F!FilesKept, F!Changeable
  <2>4. f \in SUBSET {"WRONLY", "RDWR", "NONBLOCK", "APPEND", "EXCL", "DEV"}
    BY <1>2 DEF F!Changeable
  <2> HIDE DEF f
  <2> QED
    BY <2>1, <2>2, <2>3, <2>4, FlagsKeep
<1> QED
  BY <1>3, <1>4, <1>5, <1>6 DEF F!Lock

\* The calls that change nothing.
LEMMA OtherCalls ==
    ASSUME FilesInv, NEW fd \in F!Fd,
           \/ F!Read(fd) \/ F!Write(fd) \/ F!Ioctl(fd)
           \/ F!Lseek(fd) \/ F!Fstat(fd) \/ F!Isatty(fd)
           \/ F!GetFlags(fd) \/ F!OtherFcntl(fd)
    PROVE  FilesInv' /\ UNCHANGED <<device, flags>>
<1>1. \A r : F!Yields(fd, r) /\ r \in F!Results => FilesInv' /\ UNCHANGED <<device, flags>>
  BY Standing DEF F!Yields
<1> QED
  BY <1>1 DEF F!Read, F!Write, F!Ioctl, F!Lseek, F!Fstat, F!Isatty, F!GetFlags, F!OtherFcntl,
              F!Results

\* Every call keeps the table's invariant.
LEMMA FilesPreserved == ASSUME F!FilesAssumption, FilesInv, [F!Next]_(F!vars) PROVE FilesInv'
<1>1. CASE F!Redirect
  BY <1>1, RedirectKeeps
<1>2. ASSUME NEW d \in F!Devices, NEW f \in OpenFlags, F!Open(d, f) PROVE FilesInv'
  BY <1>2, OpenKeeps
<1>3. CASE F!OpenUnknown \/ F!BadDescriptor
  BY <1>3, Standing DEF F!OpenUnknown, F!BadDescriptor, F!Results
<1>4. ASSUME NEW fd \in F!Fd, F!Close(fd) PROVE FilesInv'
  BY <1>4, CloseKeeps
<1>5. ASSUME NEW fd \in F!Fd, F!Lock(fd) \/ F!Unlock(fd) \/ \E f \in OpenFlags : F!SetFlags(fd, f)
      PROVE FilesInv'
  BY <1>5, FlagCalls
<1>6. ASSUME NEW fd \in F!Fd,
             \/ F!Read(fd) \/ F!Write(fd) \/ F!Ioctl(fd)
             \/ F!Lseek(fd) \/ F!Fstat(fd) \/ F!Isatty(fd)
             \/ F!GetFlags(fd) \/ F!OtherFcntl(fd)
      PROVE FilesInv'
  BY <1>6, OtherCalls
<1>7. CASE UNCHANGED F!vars
  BY <1>7, Standing DEF F!vars, FilesInv, F!TypeOK
<1> QED
  BY <1>1, <1>2, <1>3, <1>4, <1>5, <1>6, <1>7 DEF F!Next

\* For a table of any size and any sequence of calls, failing ones included:
\* a descriptor is in use exactly while the program holds it or it is a
\* channel, and a free one has no flags (alt_open.c:161, alt_release_fd.c:44).
THEOREM DescriptorsKept == PartSpec => [](F!TypeOK /\ FilesKept)
<1>1. PartInit => FilesInv
  BY HalAssumption, FilesInitially DEF PartInit
<1>2. [PartNext]_allVars => [F!Next]_(F!vars)
  BY DEF PartNext, allVars, fileVars, F!vars
<1>3. FilesInv /\ [PartNext]_allVars => FilesInv'
  BY <1>2, HalAssumption, FilesPreserved
<1>4. FilesInv => F!TypeOK /\ FilesKept
  BY DEF FilesInv, FilesKept
<1> QED
  BY <1>1, <1>3, <1>4, PTL DEF PartSpec

-----------------------------------------------------------------------------
(* Locks.                                                                   *)

\* What a step may not do, for each descriptor.
NoNewUser ==
    \A fd \in F!Fd : "EXCL" \in flags[fd] /\ "EXCL" \in flags'[fd]
        => \A x \in F!Fd : device'[x] = device'[fd] => device[x] = device[fd]
AccessStays ==
    boot = 0 => \A fd \in F!Fd : device[fd] # F!Free /\ device'[fd] # F!Free
        => F!Access(flags'[fd]) = F!Access(flags[fd]) /\ "DEV" \in flags'[fd]

\* open gives no new user to a device that is locked.
LEMMA OpenLocks ==
    ASSUME F!FilesAssumption, FilesInv, NEW d \in F!Devices, NEW f \in OpenFlags, F!Open(d, f)
    PROVE  NoNewUser /\ AccessStays
<1> DEFINE fd == F!Lowest(F!FreeFds)
<1>1. CASE UNCHANGED <<device, flags>>
  BY <1>1 DEF NoNewUser, AccessStays, FilesInv, F!FilesKept
<1>2. CASE F!FreeFds # {} /\ ~F!Locked(d, fd)
  <2>1. fd \in F!Fd /\ device[fd] = F!Free /\ fd > 2
    BY <1>2, LowestFree DEF FilesInv, ChannelsOpen, F!Fd, F!FilesAssumption
  <2>2. /\ boot = 0 /\ device' = [device EXCEPT ![fd] = d]
        /\ flags' = [flags EXCEPT ![fd] = (f \ F!Private) \cup {"DEV"}]
    BY <1>2 DEF F!Open, F!Opened
  <2>3. \A x \in F!Fd : /\ device'[x] = IF x = fd THEN d ELSE device[x]
                      /\ flags'[x] = IF x = fd THEN (f \ F!Private) \cup {"DEV"} ELSE flags[x]
    BY <2>1, <2>2 DEF FilesInv, F!TypeOK
  <2>4. ASSUME NEW x \in F!Fd, "EXCL" \in flags[x], x # fd PROVE device[x] # d
    <3>1. x <= F!Higher(maxFd, fd)
      <4>1. CASE x <= 2
        BY <2>1, <4>1 DEF F!Higher, FilesInv, F!TypeOK, F!Fd, F!FilesAssumption
      <4>2. CASE x > 2
        <5>1. device[x] # F!Free
          BY <2>4 DEF FilesInv, F!FilesKept
        <5>2. x <= maxFd
          BY <4>2, <5>1 DEF FilesInv, F!FilesKept
        <5> QED
          BY <5>2, <2>1 DEF F!Higher, FilesInv, F!TypeOK, F!Fd, F!FilesAssumption
      <4> QED
        BY <4>1, <4>2 DEF F!Fd, F!FilesAssumption
    <3> QED
      BY <1>2, <2>4, <3>1 DEF F!Locked
  <2>5. "EXCL" \notin (f \ F!Private) \cup {"DEV"}
    BY DEF F!Private
  <2>6. NoNewUser
    BY <2>1, <2>3, <2>4, <2>5 DEF NoNewUser
  <2>7. AccessStays
    BY <2>1, <2>2, <2>3 DEF AccessStays, FilesInv, F!FilesKept
  <2> QED
    BY <2>6, <2>7
<1> QED
  BY <1>1, <1>2 DEF F!Open, F!Opened

\* Nor does a call on a descriptor, nor does it change access.
LEMMA OtherLocks ==
    ASSUME F!FilesAssumption, FilesInv, NEW fd \in F!Fd,
           \/ F!Close(fd) \/ F!Lock(fd) \/ F!Unlock(fd)
           \/ \E f \in OpenFlags : F!SetFlags(fd, f)
    PROVE  NoNewUser /\ AccessStays
<1>1. boot = 0 /\ \A x \in F!Fd : device[x] # F!Free => "DEV" \in flags[x]
  BY DEF F!Close, F!Lock, F!Unlock, F!SetFlags, FilesInv, F!FilesKept
<1>2. CASE UNCHANGED <<device, flags>>
  BY <1>1, <1>2 DEF NoNewUser, AccessStays
<1>3. CASE /\ device' = [device EXCEPT ![fd] = F!Free]
           /\ flags' = [flags EXCEPT ![fd] = {}]
  BY <1>1, <1>3 DEF NoNewUser, AccessStays, FilesInv, F!TypeOK, F!FilesKept
<1>4. ASSUME device' = device, device[fd] # F!Free,
             NEW g, flags' = [flags EXCEPT ![fd] = g],
             g \cap {"WRONLY", "RDWR", "DEV"} = flags[fd] \cap {"WRONLY", "RDWR", "DEV"}
      PROVE  NoNewUser /\ AccessStays
  <2>1. NoNewUser
    BY <1>4 DEF NoNewUser
  <2>2. \A x \in F!Fd : flags'[x] = IF x = fd THEN g ELSE flags[x]
    BY <1>4 DEF FilesInv, F!TypeOK
  <2>3. F!Access(g) = F!Access(flags[fd]) /\ "DEV" \in g
    BY <1>1, <1>4 DEF F!Access
  <2> QED
    BY <1>1, <2>1, <2>2, <2>3 DEF AccessStays
<1>5. CASE F!Close(fd)
  BY <1>2, <1>3, <1>5 DEF F!Close, F!Release
<1>6. CASE F!Lock(fd)
  BY <1>2, <1>4, <1>6 DEF F!Lock
<1>7. CASE F!Unlock(fd)
  BY <1>4, <1>7 DEF F!Unlock
<1>8. ASSUME NEW f \in OpenFlags, F!SetFlags(fd, f) PROVE NoNewUser /\ AccessStays
  BY <1>4, <1>8 DEF F!SetFlags, F!Changeable
<1> QED
  BY <1>5, <1>6, <1>7, <1>8

\* The redirection precedes all locks.
LEMMA RedirectLocks ==
    ASSUME FilesInv, F!Redirect
    PROVE  NoNewUser /\ AccessStays
BY DEF F!Redirect, NoNewUser, AccessStays, FilesInv, Booting, F!TypeOK

\* What every step respects of the locks.
LEMMA StepLocks ==
    ASSUME F!FilesAssumption, FilesInv, [F!Next]_(F!vars)
    PROVE  UNCHANGED F!vars \/ (NoNewUser /\ AccessStays)
<1>1. CASE F!Redirect
  BY <1>1, RedirectLocks
<1>2. ASSUME NEW d \in F!Devices, NEW f \in OpenFlags, F!Open(d, f) PROVE NoNewUser /\ AccessStays
  BY <1>2, OpenLocks
<1>3. CASE F!OpenUnknown \/ F!BadDescriptor
  BY <1>3 DEF F!OpenUnknown, F!BadDescriptor, NoNewUser, AccessStays, FilesInv, F!FilesKept
<1>4. ASSUME NEW fd \in F!Fd,
             F!Close(fd) \/ F!Lock(fd) \/ F!Unlock(fd) \/ \E f \in OpenFlags : F!SetFlags(fd, f)
      PROVE NoNewUser /\ AccessStays
  BY <1>4, OtherLocks
<1>5. ASSUME NEW fd \in F!Fd,
             \/ F!Read(fd) \/ F!Write(fd) \/ F!Ioctl(fd)
             \/ F!Lseek(fd) \/ F!Fstat(fd) \/ F!Isatty(fd)
             \/ F!GetFlags(fd) \/ F!OtherFcntl(fd)
      PROVE NoNewUser /\ AccessStays
  <2>1. UNCHANGED <<device, flags>>
    BY <1>5, OtherCalls
  <2> QED
    BY <2>1 DEF NoNewUser, AccessStays, FilesInv, F!FilesKept
<1> QED
  BY <1>1, <1>2, <1>3, <1>4, <1>5 DEF F!Next

\* For a table of any size: no open gives a locked device another user, and
\* no call changes the access a descriptor was opened with (alt_fd_lock.c:44,
\* alt_fcntl.c:59).
THEOREM LocksStand == PartSpec => LocksHold
<1>1. FilesInv /\ [F!Next]_(F!vars) =>
        [/\ \A fd \in F!Fd : "EXCL" \in flags[fd] /\ "EXCL" \in flags'[fd]
              => F!Users(device[fd])' \subseteq F!Users(device[fd])
         /\ boot = 0 => \A fd \in F!Fd : device[fd] # F!Free /\ device'[fd] # F!Free
              => /\ F!Access(flags'[fd]) = F!Access(flags[fd])
                 /\ "DEV" \in flags'[fd]]_(F!vars)
  BY StepLocks, HalAssumption DEF NoNewUser, AccessStays, F!Users
<1>2. PartInit => FilesInv
  BY HalAssumption, FilesInitially DEF PartInit
<1>3. [PartNext]_allVars => [F!Next]_(F!vars)
  BY DEF PartNext, allVars, fileVars, F!vars
<1>4. FilesInv /\ [PartNext]_allVars => FilesInv'
  BY <1>3, HalAssumption, FilesPreserved
<1> QED
  BY <1>1, <1>2, <1>3, <1>4, PTL DEF PartSpec, LocksHold, F!LocksHold

-----------------------------------------------------------------------------
(* Interrupts.                                                              *)

\* The calls as they go on: alt_ic_isr_register, sbrk until it has the block's
\* beginning, and after.
RegisterCall == [at : {"table", "disable", "active", "ienable", "inner", "enable"},
                 irq : I!Irq, isr : BOOLEAN, context : BOOLEAN, inner : BOOLEAN]
AskCall == [at : {"align", "extend", "enable"}, incr : Sizes, context : BOOLEAN]
GrowCall == [at : {"grow", "enable"}, incr : Sizes, context : BOOLEAN, prev : Nat]
Calls == {I!NoCall} \cup RegisterCall \cup AskCall \cup GrowCall

Shapes ==
    /\ call \in [I!Level -> Calls]
    /\ pie \in BOOLEAN /\ estatus \in BOOLEAN
    /\ held \in [inside : BOOLEAN, context : BOOLEAN]
    /\ routine \in {"out", "in", "scan", "handler"}
    /\ heapEnd \in Nat /\ blocks \subseteq [from : Nat, size : Nat]

\* What a call or a section restores is what it found: the bit is set for the
\* thread outside its sections, and clear for the routine.
Nested ==
    /\ routine # "out" => ~pie /\ estatus /\ call["thread"].at = "none" /\ ~held.inside
    /\ routine = "out" => (pie <=> call["thread"].at = "none" /\ ~held.inside)
    /\ call["isr"].at # "none" => routine = "handler"
    /\ held.inside => held.context
    /\ \A l \in I!Level :
          /\ call[l].at # "none" => (call[l].context <=> l = "thread" /\ ~held.inside)
          /\ call[l].at \in {"active", "ienable", "inner"} => ~call[l].inner

\* A line may be enabled without a handler only in a call that takes it away.
Handled ==
    /\ \A l \in I!Level :
          /\ call[l].at \in {"disable", "active"} =>
                /\ active \subseteq handler \cup {call[l].irq}
                /\ call[l].isr => call[l].irq \in handler
          /\ call[l].at = "ienable" => active \subseteq handler
    /\ (\A l \in I!Level : call[l].at \notin {"disable", "active", "ienable"}) =>
          active \subseteq handler /\ ienable \subseteq handler
    /\ routine = "in" => I!Pending # {}

\* All blocks lie below heap_end, which stands while a block is made.
BelowEnd ==
    /\ HeapStart <= heapEnd
    /\ \A b \in blocks : /\ b.from % 4 = 0 /\ HeapStart <= b.from
                         /\ b.from + b.size <= HeapLimit /\ b.from + b.size <= heapEnd
    /\ \A b, c \in blocks : b # c => b.from + b.size <= c.from \/ c.from + c.size <= b.from
    /\ \A l \in I!Level :
          /\ call[l].at \in {"extend", "grow"} =>
                heapEnd % 4 = 0 /\ heapEnd + call[l].incr <= HeapLimit
          /\ call[l].at = "grow" => call[l].prev = heapEnd

IrqInv == Shapes /\ Nested /\ Handled /\ BelowEnd

\* Interrupts enabled, no line, no block.
LEMMA IrqInitially == ASSUME I!InterruptsAssumption, I!Init PROVE IrqInv
<1>1. call = [l \in I!Level |-> I!NoCall] /\ \A l \in I!Level : call[l].at = "none"
  BY DEF I!Init, I!NoCall
<1>2. Shapes
  BY <1>1 DEF I!Init, Shapes, Calls, I!InterruptsAssumption
<1>3. Nested
  BY <1>1 DEF I!Init, Nested, I!Level
<1>4. Handled
  BY <1>1 DEF I!Init, Handled
<1>5. BelowEnd
  BY <1>1 DEF I!Init, BelowEnd, I!InterruptsAssumption
<1> QED
  BY <1>2, <1>3, <1>4, <1>5 DEF IrqInv

\* Only one level is in a call: the routine is not entered while the thread is.
LEMMA OneRuns ==
    ASSUME IrqInv, NEW l \in I!Level, I!Running(l), NEW m \in I!Level, m # l
    PROVE  call[m].at = "none"
BY DEF IrqInv, Nested, I!Running, I!Level

\* The fields that a call has.
LEMMA Fields ==
    ASSUME IrqInv, NEW l \in I!Level
    PROVE  /\ call[l].at \in {"table", "disable", "active", "ienable", "inner"} =>
                call[l] \in RegisterCall
           /\ call[l].at \in {"align", "extend"} => call[l] \in AskCall
           /\ call[l].at = "grow" => call[l] \in GrowCall
           /\ call[l].at = "none" => call[l] = I!NoCall
           /\ call[l].at # "none" => call[l].context \in BOOLEAN
BY DEF IrqInv, Shapes, Calls, I!NoCall, RegisterCall, AskCall, GrowCall

\* A level's call replaced by another.
LEMMA CallBecomes ==
    ASSUME IrqInv, NEW l \in I!Level, NEW r \in Calls, call' = [call EXCEPT ![l] = r]
    PROVE  /\ call' \in [I!Level -> Calls] /\ call'[l] = r
           /\ \A m \in I!Level : m # l => call'[m] = call[m]
BY DEF IrqInv, Shapes

\* A registering call that goes on to its next step.
LEMMA RegisterGoes ==
    ASSUME IrqInv, NEW l \in I!Level, call[l] \in RegisterCall,
           NEW w \in {"table", "disable", "active", "ienable", "inner", "enable"},
           I!Goto(l, w)
    PROVE  /\ call' \in [I!Level -> Calls] /\ call'[l].at = w
           /\ call'[l].irq = call[l].irq /\ call'[l].isr = call[l].isr
           /\ call'[l].context = call[l].context /\ call'[l].inner = call[l].inner
           /\ \A m \in I!Level : m # l => call'[m] = call[m]
<1> DEFINE r == [call[l] EXCEPT !.at = w]
<1>1. r \in RegisterCall /\ r.at = w /\ r.irq = call[l].irq /\ r.isr = call[l].isr
      /\ r.context = call[l].context /\ r.inner = call[l].inner
  BY DEF RegisterCall
<1>2. call' = [call EXCEPT ![l] = r]
  BY DEF I!Goto
<1> HIDE DEF r
<1>3. r \in Calls
  BY <1>1 DEF Calls
<1> QED
  BY <1>1, <1>2, <1>3, CallBecomes

\* What a step of a call leaves of the other level.
LEMMA OtherLevel ==
    ASSUME IrqInv, NEW l \in I!Level, I!Running(l),
           \A m \in I!Level : m # l => call'[m] = call[m]
    PROVE  \A m \in I!Level : m # l => call[m].at = "none" /\ call'[m].at = "none"
BY OneRuns

\* alt_ic_isr_register begins: interrupts go off.
LEMMA RegisterStep ==
    ASSUME IrqInv, NEW l \in I!Level, NEW irq \in I!Irq, NEW isr \in BOOLEAN,
           I!Register(l, irq, isr)
    PROVE  IrqInv'
<1> DEFINE r == [at |-> "table", irq |-> irq, isr |-> isr, context |-> pie, inner |-> FALSE]
<1>1. I!Running(l) /\ call[l].at = "none" /\ call' = [call EXCEPT ![l] = r]
  BY DEF I!Register, I!At
<1>2. r \in Calls /\ r.at = "table" /\ (r.context <=> pie)
  BY DEF Calls, RegisterCall, IrqInv, Shapes
<1>3. /\ pie' = FALSE
      /\ UNCHANGED <<active, ienable, handler, line, routine, estatus, held, heapEnd, blocks>>
  BY DEF I!Register, I!irqVars, I!heapVars
<1> HIDE DEF r
<1>4. /\ call' \in [I!Level -> Calls] /\ call'[l] = r
      /\ \A m \in I!Level : m # l => call'[m] = call[m]
  BY <1>1, <1>2, CallBecomes
<1>5. \A m \in I!Level : m # l => call[m].at = "none" /\ call'[m].at = "none"
  BY <1>1, <1>4, OtherLevel
<1>6. Shapes'
  BY <1>3, <1>4 DEF IrqInv, Shapes
<1>7. Nested'
  BY <1>1, <1>2, <1>3, <1>4, <1>5 DEF IrqInv, Nested, I!Level, I!Running
<1>8. Handled'
  BY <1>1, <1>2, <1>3, <1>4, <1>5 DEF IrqInv, Handled, I!Pending
<1>9. BelowEnd'
  BY <1>1, <1>2, <1>3, <1>4, <1>5 DEF IrqInv, BelowEnd
<1> QED
  BY <1>6, <1>7, <1>8, <1>9 DEF IrqInv

\* The table is changed: an entry taken away is the call's own line.
LEMMA TableStep ==
    ASSUME IrqInv, NEW l \in I!Level, I!Table(l)
    PROVE  IrqInv'
<1>1. I!Running(l) /\ call[l].at = "table" /\ I!Goto(l, "disable")
  BY DEF I!Table, I!At
<1>2. call[l] \in RegisterCall
  BY <1>1, Fields
<1>3. /\ handler' = IF call[l].isr THEN handler \cup {call[l].irq} ELSE handler \ {call[l].irq}
      /\ UNCHANGED <<pie, active, ienable, line, routine, estatus, held, heapEnd, blocks>>
  BY DEF I!Table, I!heapVars
<1>4. /\ call' \in [I!Level -> Calls] /\ call'[l].at = "disable"
      /\ call'[l].irq = call[l].irq /\ call'[l].isr = call[l].isr
      /\ call'[l].context = call[l].context
      /\ \A m \in I!Level : m # l => call'[m] = call[m]
  BY <1>1, <1>2, RegisterGoes
<1>5. \A m \in I!Level : m # l => call[m].at = "none" /\ call'[m].at = "none"
  BY <1>1, <1>4, OtherLevel
<1>6. Shapes'
  BY <1>3, <1>4 DEF IrqInv, Shapes
<1>7. Nested'
  BY <1>1, <1>3, <1>4, <1>5 DEF IrqInv, Nested, I!Level, I!Running
<1>8. Handled'
  <2>1. active \subseteq handler
    BY <1>1, <1>5 DEF IrqInv, Handled
  <2>2. routine # "in"
    BY <1>1 DEF I!Running
  <2> QED
    BY <1>1, <1>3, <1>4, <1>5, <2>1, <2>2 DEF Handled
<1>9. BelowEnd'
  BY <1>1, <1>3, <1>4, <1>5 DEF IrqInv, BelowEnd
<1> QED
  BY <1>6, <1>7, <1>8, <1>9 DEF IrqInv

\* The inner call finds interrupts off already.
LEMMA DisableStep ==
    ASSUME IrqInv, NEW l \in I!Level, I!Disable(l)
    PROVE  IrqInv'
<1>1. /\ I!Running(l) /\ call[l].at = "disable"
      /\ call' = [call EXCEPT ![l].inner = pie, ![l].at = "active"]
  BY DEF I!Disable, I!At
<1>2. call[l] \in RegisterCall
  BY <1>1, Fields
<1>3. /\ pie' = FALSE
      /\ UNCHANGED <<active, ienable, handler, line, routine, estatus, held, heapEnd, blocks>>
  BY DEF I!Disable, I!irqVars, I!heapVars
<1> DEFINE r == [[call[l] EXCEPT !.inner = pie] EXCEPT !.at = "active"]
<1>4. /\ r \in RegisterCall /\ r.at = "active" /\ r.irq = call[l].irq /\ r.isr = call[l].isr
      /\ r.context = call[l].context /\ r.inner = pie
  BY <1>2 DEF RegisterCall, IrqInv, Shapes
<1>5. call' = [call EXCEPT ![l] = r]
  BY <1>1 DEF IrqInv, Shapes
<1> HIDE DEF r
<1>6. /\ call' \in [I!Level -> Calls] /\ call'[l] = r
      /\ \A m \in I!Level : m # l => call'[m] = call[m]
  BY <1>4, <1>5, CallBecomes DEF Calls
<1>7. \A m \in I!Level : m # l => call[m].at = "none" /\ call'[m].at = "none"
  BY <1>1, <1>6, OtherLevel
<1>8. ~pie
  BY <1>1 DEF IrqInv, Nested, I!Running, I!Level
<1>9. Shapes'
  BY <1>3, <1>6 DEF IrqInv, Shapes
<1>10. Nested'
  BY <1>1, <1>3, <1>4, <1>6, <1>7, <1>8 DEF IrqInv, Nested, I!Level, I!Running
<1>11. Handled'
  BY <1>1, <1>3, <1>4, <1>6, <1>7 DEF IrqInv, Handled, I!Pending
<1>12. BelowEnd'
  BY <1>1, <1>3, <1>4, <1>6, <1>7 DEF IrqInv, BelowEnd
<1> QED
  BY <1>9, <1>10, <1>11, <1>12 DEF IrqInv

\* alt_irq_active follows the table.
LEMMA ActiveStep ==
    ASSUME IrqInv, NEW l \in I!Level, I!Active(l)
    PROVE  IrqInv'
<1>1. I!Running(l) /\ call[l].at = "active" /\ I!Goto(l, "ienable")
  BY DEF I!Active, I!At
<1>2. call[l] \in RegisterCall
  BY <1>1, Fields
<1>3. /\ active' = IF call[l].isr THEN active \cup {call[l].irq} ELSE active \ {call[l].irq}
      /\ UNCHANGED <<pie, ienable, handler, line, routine, estatus, held, heapEnd, blocks>>
  BY DEF I!Active, I!heapVars
<1>4. /\ call' \in [I!Level -> Calls] /\ call'[l].at = "ienable"
      /\ call'[l].context = call[l].context /\ call'[l].inner = call[l].inner
      /\ \A m \in I!Level : m # l => call'[m] = call[m]
  BY <1>1, <1>2, RegisterGoes
<1>5. \A m \in I!Level : m # l => call[m].at = "none" /\ call'[m].at = "none"
  BY <1>1, <1>4, OtherLevel
<1>6. Shapes'
  BY <1>3, <1>4 DEF IrqInv, Shapes
<1>7. Nested'
  BY <1>1, <1>3, <1>4, <1>5 DEF IrqInv, Nested, I!Level, I!Running
<1>8. Handled'
  <2>1. active' \subseteq handler'
    BY <1>1, <1>3 DEF IrqInv, Handled
  <2>2. routine # "in"
    BY <1>1 DEF I!Running
  <2> QED
    BY <1>1, <1>3, <1>4, <1>5, <2>1, <2>2 DEF Handled
<1>9. BelowEnd'
  BY <1>1, <1>3, <1>4, <1>5 DEF IrqInv, BelowEnd
<1> QED
  BY <1>6, <1>7, <1>8, <1>9 DEF IrqInv

\* And the register follows alt_irq_active.
LEMMA IenableStep ==
    ASSUME IrqInv, NEW l \in I!Level, I!Ienable(l)
    PROVE  IrqInv'
<1>1. I!Running(l) /\ call[l].at = "ienable" /\ I!Goto(l, "inner")
  BY DEF I!Ienable, I!At
<1>2. call[l] \in RegisterCall
  BY <1>1, Fields
<1>3. /\ ienable' = active
      /\ UNCHANGED <<pie, active, handler, line, routine, estatus, held, heapEnd, blocks>>
  BY DEF I!Ienable, I!heapVars
<1>4. /\ call' \in [I!Level -> Calls] /\ call'[l].at = "inner"
      /\ call'[l].context = call[l].context /\ call'[l].inner = call[l].inner
      /\ \A m \in I!Level : m # l => call'[m] = call[m]
  BY <1>1, <1>2, RegisterGoes
<1>5. \A m \in I!Level : m # l => call[m].at = "none" /\ call'[m].at = "none"
  BY <1>1, <1>4, OtherLevel
<1>6. Shapes'
  BY <1>3, <1>4 DEF IrqInv, Shapes
<1>7. Nested'
  BY <1>1, <1>3, <1>4, <1>5 DEF IrqInv, Nested, I!Level, I!Running
<1>8. Handled'
  <2>1. active' \subseteq handler' /\ ienable' \subseteq handler'
    BY <1>1, <1>3 DEF IrqInv, Handled
  <2>2. routine # "in"
    BY <1>1 DEF I!Running
  <2> QED
    BY <1>1, <1>3, <1>4, <1>5, <2>1, <2>2 DEF Handled
<1>9. BelowEnd'
  BY <1>1, <1>3, <1>4, <1>5 DEF IrqInv, BelowEnd
<1> QED
  BY <1>6, <1>7, <1>8, <1>9 DEF IrqInv

\* The inner call restores what it found: still off.
LEMMA InnerStep ==
    ASSUME IrqInv, NEW l \in I!Level, I!Inner(l)
    PROVE  IrqInv'
<1>1. I!Running(l) /\ call[l].at = "inner" /\ I!Goto(l, "enable") /\ pie' = call[l].inner
  BY DEF I!Inner, I!At
<1>2. call[l] \in RegisterCall
  BY <1>1, Fields
<1>3. /\ pie' = FALSE
      /\ UNCHANGED <<active, ienable, handler, line, routine, estatus, held, heapEnd, blocks>>
  <2>1. ~call[l].inner /\ call[l].inner \in BOOLEAN
    BY <1>1, <1>2 DEF IrqInv, Nested, RegisterCall
  <2> QED
    BY <1>1, <2>1 DEF I!Inner, I!irqVars, I!heapVars
<1>4. /\ call' \in [I!Level -> Calls] /\ call'[l].at = "enable"
      /\ call'[l].context = call[l].context
      /\ \A m \in I!Level : m # l => call'[m] = call[m]
  BY <1>1, <1>2, RegisterGoes
<1>5. \A m \in I!Level : m # l => call[m].at = "none" /\ call'[m].at = "none"
  BY <1>1, <1>4, OtherLevel
<1>6. Shapes'
  BY <1>3, <1>4 DEF IrqInv, Shapes
<1>7. Nested'
  BY <1>1, <1>3, <1>4, <1>5 DEF IrqInv, Nested, I!Level, I!Running
<1>8. Handled'
  BY <1>1, <1>3, <1>4, <1>5 DEF IrqInv, Handled, I!Pending
<1>9. BelowEnd'
  BY <1>1, <1>3, <1>4, <1>5 DEF IrqInv, BelowEnd
<1> QED
  BY <1>6, <1>7, <1>8, <1>9 DEF IrqInv

\* The outer call restores what the level had.
LEMMA EnableStep ==
    ASSUME IrqInv, NEW l \in I!Level, I!Enable(l)
    PROVE  IrqInv'
<1>1. /\ I!Running(l) /\ call[l].at = "enable" /\ pie' = call[l].context
      /\ call' = [call EXCEPT ![l] = I!NoCall]
      /\ UNCHANGED <<active, ienable, handler, line, routine, estatus, held, heapEnd, blocks>>
  BY DEF I!Enable, I!At, I!irqVars, I!heapVars
<1>2. pie' \in BOOLEAN /\ (pie' <=> l = "thread" /\ ~held.inside)
  BY <1>1, Fields DEF IrqInv, Nested
<1>3. I!NoCall \in Calls /\ I!NoCall.at = "none"
  BY DEF Calls, I!NoCall
<1>4. /\ call' \in [I!Level -> Calls] /\ call'[l] = I!NoCall
      /\ \A m \in I!Level : m # l => call'[m] = call[m]
  BY <1>1, <1>3, CallBecomes
<1>5. \A m \in I!Level : m # l => call[m].at = "none" /\ call'[m].at = "none"
  BY <1>1, <1>4, OtherLevel
<1>6. \A m \in I!Level : call'[m].at = "none"
  BY <1>3, <1>4, <1>5
<1>7. Shapes'
  BY <1>1, <1>2, <1>4 DEF IrqInv, Shapes
<1>8. Nested'
  BY <1>1, <1>2, <1>6 DEF IrqInv, Nested, I!Level, I!Running
<1>9. Handled'
  BY <1>1, <1>5, <1>6 DEF IrqInv, Handled, I!Pending
<1>10. BelowEnd'
  BY <1>1, <1>6 DEF IrqInv, BelowEnd
<1> QED
  BY <1>7, <1>8, <1>9, <1>10 DEF IrqInv

\* sbrk begins: interrupts go off.
LEMMA SbrkStep ==
    ASSUME IrqInv, NEW l \in I!Level, NEW incr \in Sizes, I!Sbrk(l, incr)
    PROVE  IrqInv'
<1> DEFINE r == [at |-> "align", incr |-> incr, context |-> pie]
<1>1. I!Running(l) /\ call[l].at = "none" /\ call' = [call EXCEPT ![l] = r]
  BY DEF I!Sbrk, I!At
<1>2. r \in Calls /\ r.at = "align" /\ (r.context <=> pie)
  BY DEF Calls, AskCall, IrqInv, Shapes
<1>3. /\ pie' = FALSE
      /\ UNCHANGED <<active, ienable, handler, line, routine, estatus, held, heapEnd, blocks>>
  BY DEF I!Sbrk, I!irqVars, I!heapVars
<1> HIDE DEF r
<1>4. /\ call' \in [I!Level -> Calls] /\ call'[l] = r
      /\ \A m \in I!Level : m # l => call'[m] = call[m]
  BY <1>1, <1>2, CallBecomes
<1>5. \A m \in I!Level : m # l => call[m].at = "none" /\ call'[m].at = "none"
  BY <1>1, <1>4, OtherLevel
<1>6. Shapes'
  BY <1>3, <1>4 DEF IrqInv, Shapes
<1>7. Nested'
  BY <1>1, <1>2, <1>3, <1>4, <1>5 DEF IrqInv, Nested, I!Level, I!Running
<1>8. Handled'
  BY <1>1, <1>2, <1>3, <1>4, <1>5 DEF IrqInv, Handled, I!Pending
<1>9. BelowEnd'
  BY <1>1, <1>2, <1>3, <1>4, <1>5 DEF IrqInv, BelowEnd
<1> QED
  BY <1>6, <1>7, <1>8, <1>9 DEF IrqInv

\* What sbrk's steps keep, apart from the heap.
LEMMA HeapCall ==
    ASSUME IrqInv, NEW l \in I!Level, I!Running(l), call[l].at \in {"align", "extend", "grow"},
           call' \in [I!Level -> Calls], call'[l].at \in {"extend", "grow", "enable"},
           call'[l].context = call[l].context,
           \A m \in I!Level : m # l => call'[m] = call[m],
           UNCHANGED <<pie, active, ienable, handler, line, routine, estatus, held>>
    PROVE  Nested' /\ Handled' /\ \A m \in I!Level : m # l => call'[m].at = "none"
<1>1. \A m \in I!Level : m # l => call[m].at = "none" /\ call'[m].at = "none"
  BY OtherLevel
<1>2. Nested'
  BY <1>1 DEF IrqInv, Nested, I!Level, I!Running
<1>3. Handled'
  BY <1>1 DEF IrqInv, Handled, I!Pending
<1> QED
  BY <1>1, <1>2, <1>3

\* Rounding up to a word.
LEMMA AlignedNext ==
    ASSUME NEW n \in Nat
    PROVE  I!Aligned(n) \in Nat /\ I!Aligned(n) >= n /\ I!Aligned(n) % 4 = 0
<1>1. /\ ((n + 3) \div 4) * 4 \in Nat /\ ((n + 3) \div 4) * 4 >= n
      /\ (((n + 3) \div 4) * 4) % 4 = 0
  BY Z3
<1> QED
  BY <1>1 DEF I!Aligned

\* The end is rounded up, and there is room or not.
LEMMA AlignStep ==
    ASSUME I!InterruptsAssumption, IrqInv, NEW l \in I!Level, I!Align(l)
    PROVE  IrqInv'
<1> DEFINE w == IF I!Aligned(heapEnd) + call[l].incr > HeapLimit THEN "enable" ELSE "extend"
           r == [call[l] EXCEPT !.at = w]
<1>1. /\ I!Running(l) /\ call[l].at = "align" /\ call' = [call EXCEPT ![l] = r]
      /\ heapEnd' = I!Aligned(heapEnd)
      /\ UNCHANGED <<pie, active, ienable, handler, line, routine, estatus, held, blocks>>
  BY DEF I!Align, I!At, I!Goto, I!irqVars
<1>2. call[l] \in AskCall
  BY <1>1, Fields
<1>3. w \in {"enable", "extend"}
  OBVIOUS
<1>4. w = "extend" => I!Aligned(heapEnd) + call[l].incr <= HeapLimit
  <2>1. I!Aligned(heapEnd) \in Nat /\ call[l].incr \in Nat /\ HeapLimit \in Nat
    BY <1>2, AlignedNext DEF IrqInv, Shapes, AskCall, I!InterruptsAssumption
  <2> QED
    BY <2>1
<1> HIDE DEF w
<1>5. r \in AskCall /\ r.at = w /\ r.incr = call[l].incr /\ r.context = call[l].context
  BY <1>2, <1>3 DEF AskCall
<1> HIDE DEF r
<1>6. /\ call' \in [I!Level -> Calls] /\ call'[l] = r
      /\ \A m \in I!Level : m # l => call'[m] = call[m]
  BY <1>1, <1>5, CallBecomes DEF Calls
<1>7. Nested' /\ Handled' /\ \A m \in I!Level : m # l => call'[m].at = "none"
  BY <1>1, <1>3, <1>5, <1>6, HeapCall
<1>8. PICK e \in Nat : e = heapEnd' /\ e >= heapEnd /\ e % 4 = 0 /\ heapEnd \in Nat
  BY <1>1, AlignedNext DEF IrqInv, Shapes
<1>9. Shapes'
  BY <1>1, <1>6, <1>8 DEF IrqInv, Shapes
<1>10. BelowEnd'
  <2>1. /\ HeapStart \in Nat /\ HeapLimit \in Nat
        /\ \A b \in blocks : b.from \in Nat /\ b.size \in Nat
    BY DEF IrqInv, Shapes, I!InterruptsAssumption
  <2>2. HeapStart <= e /\ \A b \in blocks : b.from + b.size <= e
    BY <1>8, <2>1 DEF IrqInv, BelowEnd
  <2>3. call'[l].at = "extend" => e % 4 = 0 /\ e + call'[l].incr <= HeapLimit
    BY <1>1, <1>4, <1>5, <1>6, <1>8
  <2> QED
    BY <1>1, <1>3, <1>5, <1>6, <1>7, <1>8, <2>2, <2>3 DEF IrqInv, BelowEnd
<1> QED
  BY <1>7, <1>9, <1>10 DEF IrqInv

\* The block's beginning is the end as it stands.
LEMMA ExtendStep ==
    ASSUME IrqInv, NEW l \in I!Level, I!Extend(l)
    PROVE  IrqInv'
<1> DEFINE r == [at |-> "grow", incr |-> call[l].incr, context |-> call[l].context,
                 prev |-> heapEnd]
<1>1. /\ I!Running(l) /\ call[l].at = "extend"
      /\ UNCHANGED <<pie, active, ienable, handler, line, routine, estatus, held, heapEnd, blocks>>
  BY DEF I!Extend, I!At, I!irqVars, I!heapVars
<1>2. call[l] \in AskCall
  BY <1>1, Fields
<1>3. call' = [call EXCEPT ![l] = r]
  BY DEF I!Extend, IrqInv, Shapes
<1>4. r \in GrowCall /\ r.at = "grow" /\ r.incr = call[l].incr /\ r.context = call[l].context
      /\ r.prev = heapEnd
  BY <1>2 DEF AskCall, GrowCall, IrqInv, Shapes
<1> HIDE DEF r
<1>5. /\ call' \in [I!Level -> Calls] /\ call'[l] = r
      /\ \A m \in I!Level : m # l => call'[m] = call[m]
  BY <1>3, <1>4, CallBecomes DEF Calls
<1>6. Nested' /\ Handled' /\ \A m \in I!Level : m # l => call'[m].at = "none"
  BY <1>1, <1>4, <1>5, HeapCall
<1>7. Shapes'
  BY <1>1, <1>5 DEF IrqInv, Shapes
<1>8. BelowEnd'
  BY <1>1, <1>4, <1>5, <1>6 DEF IrqInv, BelowEnd
<1> QED
  BY <1>6, <1>7, <1>8 DEF IrqInv

\* The new block begins where all others have ended.
LEMMA GrowStep ==
    ASSUME I!InterruptsAssumption, IrqInv, NEW l \in I!Level, I!Grow(l)
    PROVE  IrqInv'
<1> DEFINE r == [call[l] EXCEPT !.at = "enable"]
           new == [from |-> call[l].prev, size |-> call[l].incr]
<1>1. /\ I!Running(l) /\ call[l].at = "grow" /\ call' = [call EXCEPT ![l] = r]
      /\ heapEnd' = heapEnd + call[l].incr /\ blocks' = blocks \cup {new}
      /\ UNCHANGED <<pie, active, ienable, handler, line, routine, estatus, held>>
  BY DEF I!Grow, I!At, I!Goto, I!irqVars
<1>2. call[l] \in GrowCall /\ call[l].incr \in Nat
  BY <1>1, Fields DEF GrowCall, I!InterruptsAssumption
<1>3. r \in GrowCall /\ r.at = "enable" /\ r.context = call[l].context
  BY <1>2 DEF GrowCall
<1> HIDE DEF r
<1>4. /\ call' \in [I!Level -> Calls] /\ call'[l] = r
      /\ \A m \in I!Level : m # l => call'[m] = call[m]
  BY <1>1, <1>3, CallBecomes DEF Calls
<1>5. Nested' /\ Handled' /\ \A m \in I!Level : m # l => call'[m].at = "none"
  BY <1>1, <1>3, <1>4, HeapCall
<1>6. PICK n \in Nat : n = call[l].incr
  BY <1>2
<1>7. /\ new = [from |-> heapEnd, size |-> n] /\ heapEnd \in Nat /\ heapEnd' = heapEnd + n
      /\ heapEnd % 4 = 0 /\ heapEnd + n <= HeapLimit
  BY <1>1, <1>6 DEF IrqInv, BelowEnd, Shapes
<1>8. blocks' = blocks \cup {[from |-> heapEnd, size |-> n]}
  BY <1>1, <1>7
<1> HIDE DEF new
<1>9. Shapes'
  BY <1>1, <1>4, <1>7, <1>8 DEF IrqInv, Shapes
<1>10. BelowEnd'
  <2>1. /\ HeapStart \in Nat /\ HeapLimit \in Nat
        /\ \A b \in blocks : b.from \in Nat /\ b.size \in Nat
    BY DEF IrqInv, Shapes, I!InterruptsAssumption
  <2>2. /\ HeapStart <= heapEnd
        /\ \A b \in blocks : /\ b.from % 4 = 0 /\ HeapStart <= b.from
                             /\ b.from + b.size <= HeapLimit /\ b.from + b.size <= heapEnd
        /\ \A b, c \in blocks : b # c =>
              b.from + b.size <= c.from \/ c.from + c.size <= b.from
    BY DEF IrqInv, BelowEnd
  <2>3. HeapStart <= heapEnd + n
    BY <1>7, <2>1, <2>2
  <2>4. \A b \in blocks' : /\ b.from % 4 = 0 /\ HeapStart <= b.from
                           /\ b.from + b.size <= HeapLimit /\ b.from + b.size <= heapEnd + n
    BY <1>7, <1>8, <2>1, <2>2
  <2>5. \A b, c \in blocks' : b # c =>
           b.from + b.size <= c.from \/ c.from + c.size <= b.from
    BY <1>7, <1>8, <2>1, <2>2
  <2> QED
    BY <1>3, <1>4, <1>5, <1>7, <2>3, <2>4, <2>5 DEF BelowEnd
<1> QED
  BY <1>5, <1>9, <1>10 DEF IrqInv

\* The thread's own sections, and requests of the devices.
LEMMA SectionStep ==
    ASSUME IrqInv, I!ThreadDisables \/ I!ThreadEnables
    PROVE  IrqInv'
<1>1. /\ routine = "out" /\ call["thread"].at = "none"
      /\ pie' \in BOOLEAN /\ held' \in [inside : BOOLEAN, context : BOOLEAN]
      /\ UNCHANGED <<active, ienable, handler, line, routine, estatus, call, heapEnd, blocks>>
  <2>1. pie \in BOOLEAN /\ held \in [inside : BOOLEAN, context : BOOLEAN]
    BY DEF IrqInv, Shapes
  <2>2. pie' \in BOOLEAN /\ held' \in [inside : BOOLEAN, context : BOOLEAN]
    <3>1. CASE I!ThreadDisables
      <4>1. pie' = FALSE /\ held' = [inside |-> TRUE, context |-> pie]
        BY <3>1 DEF I!ThreadDisables
      <4> QED
        BY <2>1, <4>1
    <3>2. CASE I!ThreadEnables
      <4>1. pie' = held.context /\ held' = [inside |-> FALSE, context |-> FALSE]
        BY <3>2 DEF I!ThreadEnables
      <4>2. held.context \in BOOLEAN
        BY <2>1
      <4> QED
        BY <4>1, <4>2
    <3> QED
      BY <3>1, <3>2
  <2> QED
    BY <2>2 DEF I!ThreadDisables, I!ThreadEnables, I!At, I!Running, I!irqVars, I!heapVars
<1>2. /\ held'.inside => held'.context
      /\ pie' <=> ~held'.inside
  BY <1>1 DEF I!ThreadDisables, I!ThreadEnables, IrqInv, Shapes, Nested
<1>3. \A l \in I!Level : call[l].at = "none"
  BY <1>1 DEF IrqInv, Nested, I!Level
<1>4. Shapes'
  BY <1>1 DEF IrqInv, Shapes
<1>5. Nested'
  BY <1>1, <1>2, <1>3 DEF Nested, I!Level
<1>6. Handled'
  BY <1>1 DEF IrqInv, Handled, I!Pending
<1>7. BelowEnd'
  BY <1>1 DEF IrqInv, BelowEnd
<1> QED
  BY <1>4, <1>5, <1>6, <1>7 DEF IrqInv

\* A request adds to what is pending.
LEMMA RequestStep ==
    ASSUME IrqInv, NEW irq \in I!Irq, I!Request(irq)
    PROVE  IrqInv'
BY DEF I!Request, I!irqVars, I!heapVars, IrqInv, Shapes, Nested, Handled, BelowEnd, I!Pending

\* The routine is entered only with a line pending and nobody in a call.
LEMMA RoutineStep ==
    ASSUME IrqInv, I!Exception \/ I!Dispatch \/ I!HandlerReturns \/ I!Return
    PROVE  IrqInv'
<1>1. UNCHANGED <<active, ienable, handler, call, held, heapEnd, blocks>>
  BY DEF I!Exception, I!Dispatch, I!HandlerReturns, I!Return, I!irqVars, I!heapVars
<1>2. BelowEnd'
  BY <1>1 DEF IrqInv, BelowEnd
<1>3. Shapes'
  BY <1>1 DEF I!Exception, I!Dispatch, I!HandlerReturns, I!Return, IrqInv, Shapes
<1>4. Nested'
  BY <1>1 DEF I!Exception, I!Dispatch, I!HandlerReturns, I!Return, IrqInv, Shapes, Nested,
              I!At, I!Running, I!Level
<1>5. Handled'
  BY <1>1 DEF I!Exception, I!Dispatch, I!HandlerReturns, I!Return, IrqInv, Handled,
              I!Pending
<1> QED
  BY <1>2, <1>3, <1>4, <1>5 DEF IrqInv

\* No step of either level breaks the invariant.
LEMMA IrqInductive ==
    ASSUME I!InterruptsAssumption
    PROVE  IrqInv /\ [I!Next]_(I!vars) => IrqInv'
<1> SUFFICES ASSUME IrqInv, [I!Next]_(I!vars) PROVE IrqInv'
  OBVIOUS
<1>1. CASE UNCHANGED I!vars
  BY <1>1 DEF I!vars, I!irqVars, I!heapVars, IrqInv, Shapes, Nested, Handled, BelowEnd, I!Pending
<1>2. ASSUME NEW l \in I!Level,
             \/ \E irq \in I!Irq, isr \in BOOLEAN : I!Register(l, irq, isr)
             \/ I!Table(l) \/ I!Disable(l) \/ I!Active(l) \/ I!Ienable(l) \/ I!Inner(l)
             \/ I!Enable(l)
      PROVE  IrqInv'
  BY <1>2, RegisterStep, TableStep, DisableStep, ActiveStep, IenableStep, InnerStep, EnableStep
<1>3. ASSUME NEW l \in I!Level,
             \/ \E incr \in Sizes : I!Sbrk(l, incr)
             \/ I!Align(l) \/ I!Extend(l) \/ I!Grow(l)
      PROVE  IrqInv'
  BY <1>3, SbrkStep, AlignStep, ExtendStep, GrowStep
<1>4. CASE I!ThreadDisables \/ I!ThreadEnables
  BY <1>4, SectionStep
<1>5. CASE \E irq \in I!Irq : I!Request(irq)
  BY <1>5, RequestStep
<1>6. CASE I!Exception \/ I!Dispatch \/ I!HandlerReturns \/ I!Return
  BY <1>6, RoutineStep
<1> QED
  BY <1>1, <1>2, <1>3, <1>4, <1>5, <1>6 DEF I!Next

\* For any number of lines, any sizes and any heap: handlers are there for the
\* lines dispatched, nested sections restore what they found, and no two blocks
\* overlap, wherever an interrupt comes (alt_irq_handler.c:128-159,
\* alt_irq.h:133-135, alt_sbrk.c:75-95).
THEOREM InterruptsStaySafe == PartSpec => []InterruptsSafe
<1>1. IrqInv => InterruptsSafe
  <2> SUFFICES ASSUME IrqInv PROVE InterruptsSafe
    OBVIOUS
  <2>1. I!HandlersThere
    <3>1. routine \in {"in", "scan"} => \A l \in I!Level : call[l].at = "none"
      BY DEF IrqInv, Nested, I!Level
    <3> QED
      BY <3>1 DEF IrqInv, Handled, I!HandlersThere, I!Pending
  <2>2. I!NestingKept
    BY DEF IrqInv, Nested, I!NestingKept
  <2>3. I!BlocksApart
    BY DEF IrqInv, BelowEnd, I!BlocksApart
  <2> QED
    BY <2>1, <2>2, <2>3 DEF InterruptsSafe
<1>2. PartInit => IrqInv
  BY HalAssumption, IrqInitially DEF PartInit
<1>3. [PartNext]_allVars => [I!Next]_(I!vars)
  BY DEF PartNext, allVars, interruptVars, I!vars, I!irqVars, I!heapVars
<1>4. IrqInv /\ [PartNext]_allVars => IrqInv'
  BY <1>3, HalAssumption, IrqInductive
<1> QED
  BY <1>1, <1>2, <1>4, PTL DEF PartSpec

-----------------------------------------------------------------------------
(* The time of day.                                                         *)

\* A remainder below the divisor is the remainder.
LEMMA Remainder ==
    ASSUME NEW k \in Nat, NEW u \in Nat \ {0}, NEW x \in Nat, x < u
    PROVE  ((k * u) + x) % u = x
  BY Z3

\* A number of n ticks, of q microseconds each, r of them in a second: whole
\* seconds and the rest make up all of them.
LEMMA SecondsAndRest ==
    ASSUME NEW n \in Nat, NEW q \in Nat \ {0}, NEW r \in Nat \ {0},
           NEW u \in Nat \ {0}, u = q * r
    PROVE  \E k \in Nat, f \in 0 .. u - 1 :
               k = n \div r /\ f = (n * q) % u /\ (k * u) + f = n * q
<1>1. n \div r \in Nat /\ n % r \in 0 .. r - 1 /\ n = ((n \div r) * r) + (n % r)
  OBVIOUS
<1>2. PICK k \in Nat, m \in 0 .. r - 1 : k = n \div r /\ n = (k * r) + m
  BY <1>1
<1>3. PICK x \in Nat : x = m * q
  OBVIOUS
<1>4. u = q * r
  OBVIOUS
<1>5. PICK y \in Nat : y = r - m /\ y >= 1
  OBVIOUS
<1>6. y * q >= 1 /\ u = (m * q) + (y * q)
  BY <1>4, <1>5
<1>7. x < u
  BY <1>3, <1>4, <1>6
<1>8. n * q = (k * u) + x
  <2>1. m \in Int /\ ((k * r) + m) * q = (k * (q * r)) + (m * q)
    OBVIOUS
  <2> QED
    BY <1>2, <1>3, <1>4, <2>1
<1>9. ((k * u) + x) % u = x
  BY <1>2, <1>3, <1>7, Remainder, Zenon
<1>10. k = n \div r /\ x = (n * q) % u /\ (k * u) + x = n * q
  BY <1>2, <1>8, <1>9
<1>11. k \in Nat /\ x \in 0 .. u - 1
  BY <1>2, <1>3, <1>7
<1> QED
  BY <1>10, <1>11, Zenon

\* A difference of d seconds and f microseconds that is not negative.
LEMMA NotBefore ==
    ASSUME NEW d \in Int, NEW f \in Int, NEW U \in Nat \ {0}, -U < f, f < U, (d * U) + f >= 0
    PROVE  d >= 0 /\ (f < 0 => d >= 1)
<1>1. ASSUME d <= -1 PROVE d * U <= -U
  <2>1. PICK e \in Nat : d = -1 - e
    <3>1. -1 - d \in Nat /\ d = -1 - (-1 - d)
      BY <1>1
    <3> QED
      BY <3>1
  <2>2. d * U = -U - (e * U) /\ e * U \in Nat
    BY <2>1
  <2> QED
    BY <2>2
<1>2. d = 0 => d * U = 0
  OBVIOUS
<1> QED
  BY <1>1, <1>2

\* The two loops bring a number of microseconds into range that is at most one
\* second away from it, and do not change the time.
LEMMA IntoRange ==
    ASSUME US \in Nat \ {0}, NEW w \in Nat, NEW x \in Int, -US < x, x <= (US + US) - 2,
           x < 0 => w >= 1
    PROVE  \E now \in [sec : Nat, usec : 0 .. US - 1] :
               /\ now = T!Carry(T!Borrow([sec |-> w, usec |-> x]))
               /\ (now.sec * US) + now.usec = (w * US) + x
               /\ x \in 0 .. US - 1 => now = [sec |-> w, usec |-> x]
<1> DEFINE t == [sec |-> w, usec |-> x]
<1>1. t.sec = w /\ t.usec = x
  OBVIOUS
<1>2. CASE x < 0
  <2>1. (US - 1 - x) \div US = 1
    BY <1>2, Z3
  <2>2. T!Borrow(t) = [sec |-> w - 1, usec |-> x + US]
    BY <1>1, <1>2, <2>1 DEF T!Borrow
  <2>3. T!Carry(T!Borrow(t)) = [sec |-> w - 1, usec |-> x + US]
    BY <1>2, <2>2 DEF T!Carry
  <2>4. [sec |-> w - 1, usec |-> x + US] \in [sec : Nat, usec : 0 .. US - 1]
    BY <1>2
  <2>5. ((w - 1) * US) + (x + US) = (w * US) + x
    OBVIOUS
  <2> QED
    BY <1>2, <2>3, <2>4, <2>5
<1>3. CASE x \in 0 .. US - 1
  <2>1. T!Carry(T!Borrow(t)) = t
    BY <1>1, <1>3 DEF T!Borrow, T!Carry
  <2> QED
    BY <1>1, <1>3, <2>1
<1>4. CASE x >= US
  <2>1. x \div US = 1 /\ x % US = x - US
    BY <1>4, Z3
  <2>2. T!Borrow(t) = t
    BY <1>1, <1>4 DEF T!Borrow
  <2>3. T!Carry(T!Borrow(t)) = [sec |-> w + 1, usec |-> x - US]
    BY <1>1, <1>4, <2>1, <2>2 DEF T!Carry
  <2>4. [sec |-> w + 1, usec |-> x - US] \in [sec : Nat, usec : 0 .. US - 1]
    BY <1>4
  <2>5. ((w + 1) * US) + (x - US) = (w * US) + x
    OBVIOUS
  <2> QED
    BY <1>4, <2>3, <2>4, <2>5
<1> QED
  BY <1>2, <1>3, <1>4

\* now is the time s, u and n - a ticks of q microseconds.
Advanced(now, s, u, n, a, q) ==
    /\ now \in [sec : Nat, usec : 0 .. US - 1]
    /\ (now.sec * US) + now.usec = (((s * US) + u) + (n * q)) - (a * q)
    /\ n = a => now.sec = s /\ now.usec = u

\* What gettimeofday computes from the two parts that settimeofday left, s and
\* u being the time that was set after a ticks, and n the ticks now: the loop
\* that borrows never runs out of seconds.
LEMMA TimeAdvances ==
    ASSUME US \in Nat \ {0}, NEW r \in Nat \ {0}, NEW q \in Nat \ {0}, US = q * r,
           NEW a \in Nat, NEW n \in Nat, a <= n, NEW s \in Nat, NEW u \in 0 .. US - 1
    PROVE  Advanced(T!Carry(T!Borrow([sec |-> (s - (a \div r)) + (n \div r),
                                      usec |-> (u - ((a * q) % US)) + ((n * q) % US)])),
                    s, u, n, a, q)
<1>1. PICK da \in Nat, fa \in 0 .. US - 1 :
         da = a \div r /\ fa = (a * q) % US /\ (da * US) + fa = a * q
  BY SecondsAndRest
<1>2. PICK dn \in Nat, fn \in 0 .. US - 1 :
         dn = n \div r /\ fn = (n * q) % US /\ (dn * US) + fn = n * q
  BY SecondsAndRest
<1>3. a * q <= n * q
  <2>1. PICK d \in Nat : n = a + d
    <3>1. n - a \in Nat /\ n = a + (n - a)
      OBVIOUS
    <3> QED
      BY <3>1
  <2>2. n * q = (a * q) + (d * q) /\ d * q \in Nat /\ a * q \in Nat
    BY <2>1
  <2> QED
    BY <2>2
<1>4. PICK d \in Int, f \in Int : d = dn - da /\ f = fn - fa
  <2>1. dn - da \in Int /\ fn - fa \in Int
    BY <1>1, <1>2
  <2> QED
    BY <2>1
<1>5. d * US = (dn * US) - (da * US)
  <2>1. dn \in Int /\ da \in Int /\ US \in Int
    BY <1>1, <1>2
  <2>2. (dn - da) * US = (dn * US) - (da * US)
    BY <2>1
  <2>3. d = dn - da
    BY <1>4, Zenon
  <2> QED
    BY <2>2, <2>3, Zenon
<1>6. -US < f /\ f < US /\ (d * US) + f >= 0
  <2>1. dn * US \in Int /\ da * US \in Int /\ US \in Int /\ a * q \in Int /\ n * q \in Int
    BY <1>1, <1>2
  <2> QED
    BY <1>1, <1>2, <1>3, <1>4, <1>5, <2>1
<1>7. d >= 0 /\ (f < 0 => d >= 1)
  BY <1>4, <1>6, NotBefore
<1>8. PICK w \in Nat, x \in Int : w = s + d /\ x = u + f
  BY <1>4, <1>7
<1>9. /\ w = (s - (a \div r)) + (n \div r)
      /\ x = (u - ((a * q) % US)) + ((n * q) % US)
  BY <1>1, <1>2, <1>4, <1>8
<1>10. -US < x /\ x <= (US + US) - 2 /\ (x < 0 => w >= 1)
  BY <1>4, <1>6, <1>7, <1>8
<1>11. PICK now \in [sec : Nat, usec : 0 .. US - 1] :
          /\ now = T!Carry(T!Borrow([sec |-> w, usec |-> x]))
          /\ (now.sec * US) + now.usec = (w * US) + x
          /\ x \in 0 .. US - 1 => now = [sec |-> w, usec |-> x]
  BY <1>8, <1>10, IntoRange
<1>12. (w * US) + x = (((s * US) + u) + (n * q)) - (a * q)
  <2>1. w * US = (s * US) + (d * US)
    BY <1>4, <1>8
  <2>2. dn * US \in Int /\ da * US \in Int /\ s * US \in Int /\ a * q \in Int /\ n * q \in Int
    BY <1>1, <1>2
  <2> QED
    BY <1>1, <1>2, <1>4, <1>5, <1>8, <2>1, <2>2
<1>13. n = a => w = s /\ x = u
  BY <1>1, <1>2, <1>4, <1>8
<1> QED
  <2>1. now = T!Carry(T!Borrow([sec |-> (s - (a \div r)) + (n \div r),
                                usec |-> (u - ((a * q) % US)) + ((n * q) % US)]))
    BY <1>9, <1>11, Zenon
  <2>2. (now.sec * US) + now.usec = (((s * US) + u) + (n * q)) - (a * q)
    BY <1>11, <1>12, Zenon
  <2>3. n = a => now.sec = s /\ now.usec = u
    BY <1>11, <1>13
  <2> QED
    BY <1>11, <2>1, <2>2, <2>3, Zenon DEF Advanced

\* A tick is a whole number of microseconds.
WholeMicroseconds == \A r \in Rates : US % r = 0

\* What settimeofday stored is what it was given, less the ticks until then; a
\* time that was read is the time of this very tick.
TimeOfDay == T!Carry(T!Borrow([sec |-> resettime.sec + (tTicks \div tRate),
                               usec |-> resettime.usec + ((tTicks * (US \div tRate)) % US)]))

TimeShapes ==
    /\ tRate \in Rates \cup {0} /\ tTicks \in Nat
    /\ resettime \in [sec : Int, usec : Int]
    /\ set.at \in 0 .. tTicks
    /\ set.time \in [sec : Nat, usec : 0 .. US - 1] /\ set.zone = timezone

Stored ==
    IF tRate = 0
    THEN tTicks = 0 /\ set.time = [sec |-> 0, usec |-> 0] /\ resettime = set.time
    ELSE resettime = [sec |-> set.time.sec - (set.at \div tRate),
                      usec |-> set.time.usec - ((set.at * (US \div tRate)) % US)]

Fresh ==
    got.result = "time" => tRate # 0 /\ got.zone = timezone /\ got.time = TimeOfDay

TimeInv == TimeShapes /\ Stored /\ Fresh

\* Without a clock no time has passed.
LEMMA TimeInitially == ASSUME T!TimeAssumption, T!Init PROVE TimeInv
<1>1. tRate = 0 /\ tTicks = 0 /\ got = [result |-> "none"] /\ timezone = 0
  BY DEF T!Init, T!Nothing
<1>2. /\ resettime = [sec |-> 0, usec |-> 0]
      /\ set = [time |-> resettime, zone |-> timezone, at |-> 0]
  BY DEF T!Init
<1>3. US \in Nat \ {0}
  BY DEF T!TimeAssumption
<1> QED
  BY <1>1, <1>2, <1>3 DEF TimeInv, TimeShapes, Stored, Fresh

\* The clock starts at its first tick.
LEMMA TimeClock ==
    ASSUME T!TimeAssumption, TimeInv, NEW r \in Rates, T!SysclkInit(r)
    PROVE  TimeInv'
<1>1. /\ tRate = 0 /\ tRate' = r /\ r \in Nat \ {0}
      /\ UNCHANGED <<tTicks, resettime, timezone, got, set>>
  BY DEF T!SysclkInit, T!TimeAssumption
<1>2. tTicks = 0 /\ set.time = [sec |-> 0, usec |-> 0] /\ resettime = set.time /\ set.at = 0
  BY <1>1 DEF TimeInv, Stored, TimeShapes
<1>3. TimeShapes'
  BY <1>1 DEF TimeInv, TimeShapes
<1>4. US \in Nat \ {0} /\ US \div r \in Int
  BY <1>1 DEF T!TimeAssumption
<1>5. 0 \div r = 0 /\ (0 * (US \div r)) % US = 0
  <2>1. 0 * (US \div r) = 0 /\ 0 \div r = 0 /\ 0 % US = 0
    BY <1>1, <1>4, Z3
  <2> QED
    BY <2>1, Zenon
<1>6. Stored'
  BY <1>1, <1>2, <1>5 DEF Stored
<1>7. Fresh'
  BY <1>1 DEF TimeInv, Fresh
<1> QED
  BY <1>3, <1>6, <1>7 DEF TimeInv

\* A tick makes what was read old.
LEMMA TimeTicks ==
    ASSUME TimeInv, T!Tick
    PROVE  TimeInv'
<1>1. /\ tRate # 0 /\ tTicks' = tTicks + 1 /\ got' = [result |-> "none"]
      /\ UNCHANGED <<tRate, resettime, timezone, set>>
  BY DEF T!Tick, T!Nothing
<1>2. TimeShapes'
  BY <1>1 DEF TimeInv, TimeShapes
<1>3. Stored' /\ Fresh'
  BY <1>1 DEF TimeInv, Stored, Fresh
<1> QED
  BY <1>2, <1>3 DEF TimeInv

\* gettimeofday returns the time of this tick.
LEMMA TimeRead ==
    ASSUME TimeInv, T!GetTimeOfDay \/ T!Times
    PROVE  TimeInv'
<1>1. UNCHANGED <<tRate, tTicks, resettime, timezone, set>>
  BY DEF T!GetTimeOfDay, T!Times
<1>2. got'.result = "time" => tRate # 0 /\ got'.zone = timezone /\ got'.time = TimeOfDay
  BY DEF T!GetTimeOfDay, T!Times, TimeOfDay, T!WholeSeconds, T!Fraction
<1>3. TimeOfDay' = TimeOfDay
  BY <1>1 DEF TimeOfDay, T!Carry, T!Borrow
<1>4. Fresh'
  BY <1>1, <1>2, <1>3 DEF Fresh
<1> QED
  BY <1>1, <1>4 DEF TimeInv, TimeShapes, Stored

\* settimeofday takes off the ticks so far.
LEMMA TimeSet ==
    ASSUME T!TimeAssumption, TimeInv, NEW s \in Seconds, NEW u \in 0 .. US - 1, NEW z \in Zones,
           T!SetTimeOfDay([sec |-> s, usec |-> u], z)
    PROVE  TimeInv'
<1>1. s \in Nat /\ US \in Nat \ {0} /\ Rates \subseteq Nat \ {0}
  BY DEF T!TimeAssumption
<1>2. CASE tRate = 0
  <2>1. got' = [result |-> "ENOSYS"] /\ UNCHANGED <<tRate, tTicks, resettime, timezone, set>>
    BY <1>2 DEF T!SetTimeOfDay
  <2> QED
    BY <2>1 DEF TimeInv, TimeShapes, Stored, Fresh
<1>3. CASE tRate # 0
  <2>1. /\ resettime' = [sec |-> s - (tTicks \div tRate),
                         usec |-> u - ((tTicks * (US \div tRate)) % US)]
        /\ timezone' = z /\ set' = [time |-> [sec |-> s, usec |-> u], zone |-> z, at |-> tTicks]
        /\ got' = [result |-> "none"] /\ UNCHANGED <<tRate, tTicks>>
    BY <1>3 DEF T!SetTimeOfDay, T!WholeSeconds, T!Fraction, T!Nothing
  <2>2. tRate \in Nat \ {0} /\ tTicks \in Nat
    BY <1>1, <1>3 DEF TimeInv, TimeShapes
  <2>3. tTicks \div tRate \in Int /\ (tTicks * (US \div tRate)) % US \in Int
    <3>1. tTicks \div tRate \in Int /\ US \div tRate \in Int
      BY <1>1, <2>2
    <3>2. tTicks * (US \div tRate) \in Int
      BY <2>2, <3>1
    <3> QED
      BY <1>1, <3>1, <3>2
  <2>4. resettime' \in [sec : Int, usec : Int]
    BY <1>1, <2>1, <2>3
  <2>5. TimeShapes'
    BY <1>1, <1>3, <2>1, <2>2, <2>4 DEF TimeInv, TimeShapes
  <2>6. Stored'
    BY <1>3, <2>1 DEF Stored
  <2>7. Fresh'
    BY <2>1 DEF Fresh
  <2> QED
    BY <2>5, <2>6, <2>7 DEF TimeInv
<1> QED
  BY <1>2, <1>3

\* Every call keeps the invariant of the time.
LEMMA TimePreserved == ASSUME T!TimeAssumption, TimeInv, [T!Next]_(T!vars) PROVE TimeInv'
<1>1. CASE UNCHANGED <<tRate, tTicks, resettime, timezone, got, set>>
  BY <1>1 DEF TimeInv, TimeShapes, Stored, Fresh, TimeOfDay, T!Carry, T!Borrow
<1> QED
  BY <1>1, TimeClock, TimeTicks, TimeRead, TimeSet DEF T!Next, T!vars

\* From the invariant follows what callers are promised.
LEMMA TimeHolds ==
    ASSUME T!TimeAssumption, WholeMicroseconds, TimeInv
    PROVE  T!SetThenGet /\ T!ElapsedTime
<1> SUFFICES ASSUME got.result = "time"
             PROVE  /\ set.at = tTicks => got.time = set.time /\ got.zone = set.zone
                    /\ (((got.time.sec * US) + got.time.usec)
                           - ((set.time.sec * US) + set.time.usec)) * tRate
                        = (tTicks - set.at) * US
  BY DEF T!SetThenGet, T!ElapsedTime, T!Micros
<1>1. /\ tRate \in Nat \ {0} /\ US \in Nat \ {0} /\ US % tRate = 0
      /\ got.zone = set.zone /\ got.time = TimeOfDay
  BY DEF TimeInv, Fresh, TimeShapes, T!TimeAssumption, WholeMicroseconds
<1>2. PICK r \in Nat \ {0} : r = tRate
  BY <1>1
<1>3. PICK q \in Nat \ {0} : US \div r = q /\ US = q * r
  <2>1. US % r = 0
    BY <1>1, <1>2
  <2>2. US \div r \in Nat /\ US = ((US \div r) * r) + (US % r)
    BY <1>1, <1>2, Z3
  <2>3. US \div r # 0
    BY <1>1, <1>2, <2>1, <2>2
  <2> QED
    BY <1>1, <1>2, <2>1, <2>2, <2>3
<1>4. PICK a \in Nat, n \in Nat : a = set.at /\ n = tTicks /\ a <= n
  BY DEF TimeInv, TimeShapes
<1>5. PICK s \in Nat, u \in 0 .. US - 1 : set.time = [sec |-> s, usec |-> u]
  BY DEF TimeInv, TimeShapes
<1>6. resettime = [sec |-> s - (a \div r), usec |-> u - ((a * q) % US)]
  BY <1>1, <1>2, <1>3, <1>4, <1>5 DEF TimeInv, Stored
<1>7. got.time = T!Carry(T!Borrow([sec |-> (s - (a \div r)) + (n \div r),
                                   usec |-> (u - ((a * q) % US)) + ((n * q) % US)]))
  BY <1>1, <1>2, <1>3, <1>4, <1>6 DEF TimeOfDay
<1>8. Advanced(got.time, s, u, n, a, q)
  <2>1. r \in Nat \ {0} /\ q \in Nat \ {0} /\ US = q * r /\ US \in Nat \ {0}
    BY <1>1, <1>2, <1>3
  <2>2. a \in Nat /\ n \in Nat /\ a <= n /\ s \in Nat /\ u \in 0 .. US - 1
    BY <1>4, <1>5
  <2>3. Advanced(T!Carry(T!Borrow([sec |-> (s - (a \div r)) + (n \div r),
                                   usec |-> (u - ((a * q) % US)) + ((n * q) % US)])),
                 s, u, n, a, q)
    BY <2>1, <2>2, TimeAdvances
  <2> QED
    BY <1>7, <2>3, Zenon
<1>9. a = n => got.time = set.time
  BY <1>5, <1>8 DEF Advanced
<1>10. ((((s * US) + u) + (n * q)) - (a * q)) - ((s * US) + u) = (n - a) * q
  <2>1. s * US \in Int /\ u \in Int /\ (n - a) * q = (n * q) - (a * q)
    BY <1>1, <1>3, <1>4, <1>5
  <2>2. n * q \in Int /\ a * q \in Int
    BY <1>3, <1>4
  <2> QED
    BY <2>1, <2>2
<1>11. ((n - a) * q) * r = (n - a) * US
  BY <1>2, <1>3, <1>4
<1>12. (((got.time.sec * US) + got.time.usec) - ((set.time.sec * US) + set.time.usec)) * tRate
          = (tTicks - set.at) * US
  <2>1. (got.time.sec * US) + got.time.usec = (((s * US) + u) + (n * q)) - (a * q)
    BY <1>8, Zenon DEF Advanced
  <2>2. (set.time.sec * US) + set.time.usec = (s * US) + u
    BY <1>5
  <2> QED
    BY <1>2, <1>4, <1>10, <1>11, <2>1, <2>2
<1> QED
  BY <1>1, <1>4, <1>9, <1>12

-----------------------------------------------------------------------------
(* usleep.                                                                  *)
\* While it counts: what is left of the request is what the full counts to
\* come and the rest stand for, and what has been counted is what was taken
\* off, a full count being at most one microsecond's turns longer than that.
Counting ==
    /\ us = (loops * S!Chunk) + (asked % S!Chunk)
    /\ spun >= (asked - us) * PerMicro
    /\ spun <= ((asked - us) * PerMicro) + (PerMicro * ((asked \div S!Chunk) - loops))
    /\ sleepPc = "full" => loops >= 1
    /\ sleepPc \in {"full", "rest"} => asked >= S!Chunk
    /\ sleepPc \in {"rest", "short"} => loops = 0
    /\ sleepPc = "short" => asked < S!Chunk /\ spun = 0

SleepInv ==
    /\ us \in Nat /\ loops \in Nat /\ spun \in Nat /\ asked \in Nat
    /\ sleepPc \in {"awake", "full", "rest", "short"}
    /\ sleepPc # "awake" => Counting
    /\ S!SleepsAsAsked

\* A full count is as long as its microseconds, and less than one longer.
LEMMA ChunkFits ==
    ASSUME S!SleepAssumption
    PROVE  /\ S!Chunk \in Nat \ {0} /\ PerMicro \in Nat \ {0} /\ IntMax \in Nat \ {0}
           /\ S!Chunk * PerMicro <= IntMax /\ IntMax <= (S!Chunk * PerMicro) + PerMicro
           /\ Word \in Nat /\ Word > IntMax
<1>1. PerMicro \in Nat \ {0} /\ IntMax \in Nat \ {0} /\ PerMicro <= IntMax
      /\ Word \in Nat /\ Word > IntMax
  BY DEF S!SleepAssumption
<1>2. PICK c \in Nat, m \in 0 .. PerMicro - 1 :
         c = IntMax \div PerMicro /\ IntMax = (c * PerMicro) + m
  <2>1. IntMax \div PerMicro \in Nat /\ IntMax % PerMicro \in 0 .. PerMicro - 1
        /\ IntMax = ((IntMax \div PerMicro) * PerMicro) + (IntMax % PerMicro)
    BY <1>1, Z3
  <2> QED
    BY <2>1
<1>3. c # 0
  BY <1>1, <1>2
<1> QED
  BY <1>1, <1>2, <1>3 DEF S!Chunk

\* Nothing asked for, nothing counted.
LEMMA SleepInitially == ASSUME S!SleepAssumption, S!Init PROVE SleepInv
<1>1. us = 0 /\ loops = 0 /\ spun = 0 /\ asked = 0 /\ sleepPc = "awake"
  BY DEF S!Init
<1>2. S!Chunk \in Nat \ {0} /\ PerMicro \in Nat
  BY ChunkFits
<1>3. 0 * PerMicro = 0 /\ 0 \div S!Chunk = 0 /\ PerMicro * 0 = 0
  BY <1>2, Z3
<1>4. S!SleepsAsAsked
  BY <1>1, <1>2, <1>3 DEF S!SleepsAsAsked
<1> QED
  BY <1>1, <1>4 DEF SleepInv

\* A request is split into full counts and a rest.
LEMMA SleepBegins ==
    ASSUME S!SleepAssumption, SleepInv, NEW n \in Requests, S!Sleep(n)
    PROVE  SleepInv'
<1>1. PICK c \in Nat \ {0} : c = S!Chunk
  BY ChunkFits
<1>2. n \in Nat /\ PerMicro \in Nat
  BY ChunkFits DEF S!SleepAssumption
<1>3. PICK k \in Nat, m \in 0 .. c - 1 : k = n \div c /\ m = n % c /\ n = (k * c) + m
  <2>1. n \div c \in Nat /\ n % c \in 0 .. c - 1 /\ n = ((n \div c) * c) + (n % c)
    BY <1>1, <1>2, Z3
  <2> QED
    BY <2>1
<1>4. /\ us' = n /\ asked' = n /\ spun' = 0 /\ loops' = k
      /\ sleepPc' = IF k > 0 THEN "full" ELSE "short"
  BY <1>1, <1>3 DEF S!Sleep
<1>5. (k = 0 => n < c) /\ (k > 0 => n >= c)
  <2>1. k > 0 => k * c >= c
    <3>1. k > 0 => k * c = ((k - 1) * c) + c /\ (k - 1) * c \in Nat
      BY <1>1, <1>3
    <3> QED
      BY <1>1, <3>1
  <2> QED
    BY <1>1, <1>2, <1>3, <2>1
<1>6. (n - n) * PerMicro = 0 /\ PerMicro * (k - k) = 0
  BY <1>2, <1>3
<1>7. S!Chunk' = c
  BY <1>1 DEF S!Chunk
<1>8. Counting'
  <2>1. asked' % S!Chunk' = m /\ asked' \div S!Chunk' = k
    BY <1>3, <1>4, <1>7
  <2>2. us' = (loops' * S!Chunk') + (asked' % S!Chunk')
    BY <1>3, <1>4, <1>7, <2>1
  <2>3. /\ spun' >= (asked' - us') * PerMicro
        /\ spun' <= ((asked' - us') * PerMicro) + (PerMicro * ((asked' \div S!Chunk') - loops'))
    BY <1>4, <1>6, <2>1
  <2>4. /\ sleepPc' = "full" => loops' >= 1
        /\ sleepPc' \in {"full", "rest"} => asked' >= S!Chunk'
        /\ sleepPc' \in {"rest", "short"} => loops' = 0
        /\ sleepPc' = "short" => asked' < S!Chunk' /\ spun' = 0
    BY <1>3, <1>4, <1>5, <1>7
  <2> QED
    BY <2>2, <2>3, <2>4 DEF Counting
<1>9. S!SleepsAsAsked'
  BY <1>4 DEF S!SleepsAsAsked
<1> QED
  BY <1>2, <1>3, <1>4, <1>8, <1>9 DEF SleepInv

\* A full count takes its microseconds off the request.
LEMMA SleepCounts ==
    ASSUME S!SleepAssumption, SleepInv, S!FullCount
    PROVE  SleepInv'
<1>1. PICK c \in Nat \ {0}, p \in Nat \ {0} :
         c = S!Chunk /\ p = PerMicro /\ c * p <= IntMax /\ IntMax <= (c * p) + p
  BY ChunkFits
<1>2. IntMax \in Nat \ {0}
  BY ChunkFits
<1>3. /\ sleepPc = "full" /\ spun' = spun + IntMax /\ us' = us - c /\ loops' = loops - 1
      /\ sleepPc' = (IF loops > 1 THEN "full" ELSE "rest") /\ asked' = asked
  BY <1>1, <1>2 DEF S!FullCount, S!UntilZero
<1>4. PICK u \in Nat, k \in Nat, x \in Nat, a \in Nat :
         u = us /\ k = loops /\ x = spun /\ a = asked
  BY DEF SleepInv
<1>5. PICK d \in Nat, m \in Nat : d = a \div c /\ m = a % c
  BY <1>1, <1>4
<1>6. /\ u = (k * c) + m /\ k >= 1
      /\ x >= (a - u) * p /\ x <= ((a - u) * p) + (p * (d - k)) /\ a >= c
  BY <1>1, <1>3, <1>4, <1>5 DEF SleepInv, Counting
<1>7. u - c = ((k - 1) * c) + m /\ u - c \in Nat
  <2>1. k * c = ((k - 1) * c) + c /\ (k - 1) * c \in Nat
    BY <1>1, <1>4, <1>6
  <2> QED
    BY <1>1, <1>4, <1>5, <1>6, <2>1
<1>8. /\ x + IntMax >= (a - (u - c)) * p
      /\ x + IntMax <= ((a - (u - c)) * p) + (p * (d - (k - 1)))
  <2>1. (a - (u - c)) * p = ((a - u) * p) + (c * p) /\ p * (d - (k - 1)) = (p * (d - k)) + p
    BY <1>1, <1>4, <1>5
  <2>2. (a - u) * p \in Int /\ c * p \in Int /\ p * (d - k) \in Int
    BY <1>1, <1>4, <1>5
  <2> QED
    BY <1>1, <1>2, <1>4, <1>6, <2>1, <2>2
<1>9. /\ us' = u - c /\ loops' = k - 1 /\ spun' = x + IntMax /\ asked' = a
      /\ sleepPc' = IF k > 1 THEN "full" ELSE "rest"
  BY <1>3, <1>4
<1>10. S!Chunk' = c
  BY <1>1 DEF S!Chunk
<1>11. Counting'
  <2>1. sleepPc' = "full" => k - 1 >= 1
    BY <1>4, <1>9
  <2>2. sleepPc' = "rest" => k - 1 = 0
    BY <1>4, <1>6, <1>9
  <2>3. sleepPc' # "short"
    BY <1>9
  <2> QED
    BY <1>1, <1>5, <1>6, <1>7, <1>8, <1>9, <1>10, <2>1, <2>2, <2>3 DEF Counting
<1>12. sleepPc' \in {"full", "rest"}
  BY <1>9
<1>13. S!SleepsAsAsked'
  BY <1>12 DEF S!SleepsAsAsked
<1>14. us' \in Nat /\ loops' \in Nat /\ spun' \in Nat /\ asked' \in Nat
  BY <1>2, <1>4, <1>6, <1>7, <1>9
<1> QED
  BY <1>11, <1>12, <1>13, <1>14 DEF SleepInv

\* The last count fits into the register and makes up for the rest.
LEMMA SleepEnds ==
    ASSUME S!SleepAssumption, SleepInv, S!LastCount
    PROVE  SleepInv'
<1>1. PICK c \in Nat \ {0}, p \in Nat \ {0} :
         c = S!Chunk /\ p = PerMicro /\ c * p <= IntMax
  BY ChunkFits
<1>2. IntMax \in Nat \ {0} /\ Word \in Nat /\ Word > IntMax
  BY ChunkFits
<1>3. PICK u \in Nat, x \in Nat, a \in Nat : u = us /\ x = spun /\ a = asked
  BY DEF SleepInv
<1>4. PICK d \in Nat, m \in 0 .. c - 1 : d = a \div c /\ m = a % c /\ (a < c => d = 0 /\ m = a)
  <2>1. a \div c \in Nat /\ a % c \in 0 .. c - 1 /\ (a < c => a \div c = 0 /\ a % c = a)
    BY <1>1, <1>3, Z3
  <2> QED
    BY <2>1
<1>5. /\ sleepPc \in {"rest", "short"} /\ loops = 0
      /\ u = m /\ x >= (a - u) * p /\ x <= ((a - u) * p) + (p * d)
      /\ sleepPc = "short" => a < c /\ x = 0
      /\ sleepPc = "rest" => a >= c
  <2>1. sleepPc \in {"rest", "short"}
    BY DEF S!LastCount
  <2>2. Counting /\ loops = 0
    BY <2>1 DEF SleepInv, Counting
  <2>3. loops * c = 0 /\ d - loops = d
    BY <1>1, <1>4, <2>2
  <2> QED
    BY <1>1, <1>3, <1>4, <2>1, <2>2, <2>3 DEF Counting
<1>6. PICK y \in Nat : y = u * p
  BY <1>1, <1>3
<1>7. y <= IntMax /\ (u # 0 => y # 0) /\ (u = 0 => y = 0)
  <2>1. PICK e \in Nat : c = u + e
    <3>1. c - u \in Nat /\ c = u + (c - u)
      BY <1>1, <1>3, <1>4, <1>5
    <3> QED
      BY <3>1
  <2>2. c * p = (u * p) + (e * p) /\ e * p \in Nat
    BY <1>1, <1>3, <2>1
  <2>3. u # 0 => u * p # 0
    BY <1>1, <1>3
  <2> QED
    BY <1>1, <1>2, <1>6, <2>2, <2>3
<1>8. (us * PerMicro) % Word = y
  <2>1. y % Word = y
    BY <1>2, <1>6, <1>7, Z3
  <2> QED
    BY <1>1, <1>3, <1>6, <2>1
<1>9. PICK z \in Nat :
         /\ z = (IF sleepPc = "rest" THEN S!UntilZero(y) ELSE S!WhilePositive(y))
         /\ z >= y /\ (sleepPc = "rest" /\ u # 0 => z = y)
         /\ (sleepPc = "short" => z <= y + 1)
  <2>1. S!UntilZero(y) \in Nat /\ S!UntilZero(y) >= y /\ (u # 0 => S!UntilZero(y) = y)
    BY <1>2, <1>6, <1>7 DEF S!UntilZero
  <2>2. S!WhilePositive(y) \in Nat /\ S!WhilePositive(y) >= y /\ S!WhilePositive(y) <= y + 1
    BY <1>2, <1>6, <1>7 DEF S!WhilePositive
  <2> QED
    BY <1>5, <2>1, <2>2
<1>10. /\ spun' = x + z /\ sleepPc' = "awake" /\ us' = u /\ loops' = loops /\ asked' = a
  BY <1>3, <1>8, <1>9 DEF S!LastCount
<1>11. a * p = ((a - u) * p) + y
  BY <1>1, <1>3, <1>6
<1>12. x + z >= a * p
  BY <1>1, <1>3, <1>5, <1>6, <1>9, <1>11
<1>13. a < c \/ m # 0 => x + z <= ((a * p) + (p * d)) + 1
  <2>1. p * d \in Nat /\ a * p \in Nat /\ (a - u) * p \in Int
    BY <1>1, <1>3, <1>4
  <2>2. CASE sleepPc = "rest" /\ m # 0
    BY <1>3, <1>5, <1>6, <1>9, <1>11, <2>1, <2>2
  <2>3. CASE sleepPc = "short"
    <3>1. u = a /\ x = 0 /\ y = a * p
      BY <1>4, <1>5, <1>6, <2>3
    <3> QED
      BY <1>6, <1>9, <2>1, <2>3, <3>1
  <2>4. sleepPc = "rest" => ~(a < c)
    BY <1>1, <1>3, <1>5
  <2> QED
    BY <1>5, <2>2, <2>3, <2>4
<1>14. S!Chunk' = c
  BY <1>1 DEF S!Chunk
<1>15. S!SleepsAsAsked'
  BY <1>1, <1>4, <1>10, <1>12, <1>13, <1>14 DEF S!SleepsAsAsked
<1> QED
  BY <1>3, <1>5, <1>9, <1>10, <1>15 DEF SleepInv

\* Every step keeps the invariant of the sleep.
LEMMA SleepPreserved == ASSUME S!SleepAssumption, SleepInv, [S!Next]_(S!vars) PROVE SleepInv'
<1>1. CASE UNCHANGED <<us, loops, spun, asked, sleepPc>>
  BY <1>1 DEF SleepInv, Counting, S!SleepsAsAsked, S!Chunk
<1> QED
  BY <1>1, SleepBegins, SleepCounts, SleepEnds DEF S!Next, S!vars

\* The clock keeps the time it was set to, through every number of ticks, and
\* a sleep is as long as it was asked to be, for every frequency and every
\* request (alt_gettod.c:60-113, alt_settod.c:66-94, alt_busy_sleep.c:66-132).
\* A tick is taken to be a whole number of microseconds.
THEOREM ClockKeepsTime ==
    ASSUME WholeMicroseconds
    PROVE  PartSpec => []TimeKept
<1>1. PartInit => TimeInv /\ SleepInv
  BY HalAssumption, TimeInitially, SleepInitially DEF PartInit
<1>2. [PartNext]_allVars => [T!Next]_(T!vars) /\ [S!Next]_(S!vars)
  BY DEF PartNext, allVars, timeVars, sleepVars, T!vars, S!vars
<1>3. TimeInv /\ SleepInv /\ [PartNext]_allVars => TimeInv' /\ SleepInv'
  BY <1>2, HalAssumption, TimePreserved, SleepPreserved
<1>4. TimeInv /\ SleepInv => TimeKept
  BY HalAssumption, TimeHolds DEF TimeKept, SleepInv
<1> QED
  BY <1>1, <1>3, <1>4, PTL DEF PartSpec

-----------------------------------------------------------------------------
(* Types.                                                                   *)

\* What the types say beyond the invariants above.
TimeTypes ==
    /\ tTicks <= LastTick /\ timezone \in Zones
    /\ got.result \in T!Errors \cup {"none", "time", "ticks"}
    /\ got.result = "time" => got.time \in [sec : Nat, usec : 0 .. US - 1]

SleepTypes == us <= Word - 1 /\ loops <= Word - 1 /\ asked \in Requests \cup {0}

IrqTypes ==
    /\ active \subseteq I!Irq /\ ienable \subseteq I!Irq
    /\ handler \subseteq I!Irq /\ line \subseteq I!Irq
    /\ heapEnd \in HeapStart .. I!Aligned(HeapLimit)

\* The loops bring every difference into range, also one that would be before
\* the beginning of time.
LEMMA InRange ==
    ASSUME US \in Nat \ {0}, NEW w \in Nat, NEW x \in Int, -US < x, x <= (US + US) - 2
    PROVE  T!Carry(T!Borrow([sec |-> w, usec |-> x])) \in [sec : Nat, usec : 0 .. US - 1]
<1>1. CASE x < 0 /\ w = 0
  <2>1. (US - 1 - x) \div US = 1
    BY <1>1, Z3
  <2>2. T!Borrow([sec |-> w, usec |-> x]) = [sec |-> 0, usec |-> 0]
    BY <1>1, <2>1 DEF T!Borrow
  <2>3. T!Carry([sec |-> 0, usec |-> 0]) = [sec |-> 0, usec |-> 0]
    BY DEF T!Carry
  <2> QED
    BY <2>2, <2>3
<1>2. CASE x < 0 => w >= 1
  BY <1>2, IntoRange
<1> QED
  BY <1>1, <1>2

\* Division keeps the order.
LEMMA Monotone ==
    ASSUME NEW a \in Nat, NEW n \in Nat, a <= n, NEW r \in Nat \ {0}
    PROVE  a \div r \in Nat /\ n \div r \in Nat /\ a \div r <= n \div r
<1>1. PICK da \in Nat, ma \in 0 .. r - 1 : da = a \div r /\ a = (da * r) + ma
  <2>1. a \div r \in Nat /\ a % r \in 0 .. r - 1 /\ a = ((a \div r) * r) + (a % r)
    BY Z3
  <2> QED
    BY <2>1
<1>2. PICK dn \in Nat, mn \in 0 .. r - 1 : dn = n \div r /\ n = (dn * r) + mn
  <2>1. n \div r \in Nat /\ n % r \in 0 .. r - 1 /\ n = ((n \div r) * r) + (n % r)
    BY Z3
  <2> QED
    BY <2>1
<1>3. PICK d \in Int, m \in Int : d = dn - da /\ m = mn - ma
  <2>1. dn - da \in Int /\ mn - ma \in Int
    BY <1>1, <1>2
  <2> QED
    BY <2>1
<1>4. -r < m /\ m < r /\ (d * r) + m >= 0
  <2>1. d * r = (dn * r) - (da * r)
    BY <1>1, <1>2, <1>3
  <2>2. dn * r \in Int /\ da * r \in Int
    BY <1>1, <1>2
  <2> QED
    BY <1>1, <1>2, <1>3, <2>1, <2>2
<1>5. d >= 0
  BY <1>3, <1>4, NotBefore
<1> QED
  BY <1>1, <1>2, <1>3, <1>5

\* What gettimeofday computes is in range.
LEMMA TimeIsTime ==
    ASSUME T!TimeAssumption, TimeShapes, Stored, tRate # 0
    PROVE  TimeOfDay \in [sec : Nat, usec : 0 .. US - 1]
<1>1. /\ tRate \in Nat \ {0} /\ US \in Nat \ {0}
      /\ tTicks \in Nat /\ set.at \in Nat /\ set.at <= tTicks
  BY DEF TimeShapes, T!TimeAssumption
<1>2. PICK da \in Nat, dn \in Nat : da = set.at \div tRate /\ dn = tTicks \div tRate /\ da <= dn
  BY <1>1, Monotone
<1>3. PICK fa \in 0 .. US - 1, fn \in 0 .. US - 1 :
         fa = (set.at * (US \div tRate)) % US /\ fn = (tTicks * (US \div tRate)) % US
  <2>1. US \div tRate \in Int
    BY <1>1
  <2>2. set.at * (US \div tRate) \in Int /\ tTicks * (US \div tRate) \in Int
    BY <1>1, <2>1
  <2>3. \A i \in Int : i % US \in 0 .. US - 1
    BY <1>1
  <2> QED
    BY <2>2, <2>3, Zenon
<1>4. PICK s \in Nat, u \in 0 .. US - 1 : set.time = [sec |-> s, usec |-> u]
  BY DEF TimeShapes
<1>5. resettime = [sec |-> s - da, usec |-> u - fa]
  BY <1>2, <1>3, <1>4 DEF Stored
<1>6. TimeOfDay = T!Carry(T!Borrow([sec |-> (s - da) + dn, usec |-> (u - fa) + fn]))
  BY <1>2, <1>3, <1>5 DEF TimeOfDay
<1>7. /\ (s - da) + dn \in Nat /\ (u - fa) + fn \in Int
      /\ -US < (u - fa) + fn /\ (u - fa) + fn <= (US + US) - 2
  BY <1>1, <1>2, <1>3, <1>4
<1> QED
  BY <1>1, <1>6, <1>7, InRange

\* The types of the time are kept.
LEMMA TimeTypesKept ==
    ASSUME T!TimeAssumption, TimeInv, TimeTypes, [T!Next]_(T!vars)
    PROVE  TimeTypes'
<1>1. CASE UNCHANGED <<tRate, tTicks, resettime, timezone, got, set>>
  BY <1>1 DEF TimeTypes
<1>2. ASSUME NEW r \in Rates, T!SysclkInit(r) PROVE TimeTypes'
  BY <1>2 DEF TimeTypes, T!SysclkInit
<1>3. CASE T!Tick
  <2>1. /\ tTicks' = tTicks + 1 /\ tTicks < LastTick
        /\ got' = [result |-> "none"] /\ timezone' = timezone
    BY <1>3 DEF T!Tick, T!Nothing
  <2>2. tTicks' <= LastTick
    BY <2>1 DEF TimeInv, TimeShapes, T!TimeAssumption
  <2> QED
    BY <2>1, <2>2 DEF TimeTypes
<1>4. CASE T!GetTimeOfDay \/ T!Times
  <2>1. UNCHANGED <<tRate, tTicks, timezone>>
    BY <1>4 DEF T!GetTimeOfDay, T!Times
  <2>2. /\ got'.result \in T!Errors \cup {"none", "time", "ticks"}
        /\ got'.result = "time" => tRate # 0 /\ got'.time = TimeOfDay
    BY <1>4 DEF T!GetTimeOfDay, T!Times, TimeOfDay, T!WholeSeconds, T!Fraction, T!Errors
  <2> QED
    BY <2>1, <2>2, TimeIsTime DEF TimeTypes, TimeInv
<1>5. ASSUME NEW s \in Seconds, NEW u \in 0 .. US - 1, NEW z \in Zones,
             T!SetTimeOfDay([sec |-> s, usec |-> u], z)
      PROVE  TimeTypes'
  BY <1>5 DEF T!SetTimeOfDay, T!Nothing, T!Errors, TimeTypes
<1> QED
  BY <1>1, <1>2, <1>3, <1>4, <1>5 DEF T!Next, T!vars

\* The types of the sleep are kept.
LEMMA SleepTypesKept ==
    ASSUME S!SleepAssumption, SleepInv, SleepTypes, [S!Next]_(S!vars)
    PROVE  SleepTypes'
<1>1. CASE UNCHANGED <<us, loops, spun, asked, sleepPc>>
  BY <1>1 DEF SleepTypes
<1>2. ASSUME NEW n \in Requests, S!Sleep(n) PROVE SleepTypes'
  <2>1. n \in 0 .. Word - 1 /\ n \in Nat /\ Word \in Nat /\ S!Chunk \in Nat \ {0}
    BY ChunkFits DEF S!SleepAssumption
  <2>2. n \div S!Chunk \in Nat /\ n \div S!Chunk <= n
    BY <2>1, Z3
  <2> QED
    BY <1>2, <2>1, <2>2 DEF S!Sleep, SleepTypes
<1>3. CASE S!FullCount
  <2>1. us' = us - S!Chunk /\ loops' = loops - 1 /\ asked' = asked
    BY <1>3 DEF S!FullCount
  <2> QED
    BY <2>1, ChunkFits DEF SleepInv, SleepTypes
<1>4. CASE S!LastCount
  BY <1>4 DEF S!LastCount, SleepTypes
<1> QED
  BY <1>1, <1>2, <1>3, <1>4 DEF S!Next, S!vars

\* heap_end is rounded up even when there is no room, by less than a word.
LEMMA AlignedBelow ==
    ASSUME NEW n \in Nat, NEW e \in Nat, e <= I!Aligned(n)
    PROVE  I!Aligned(e) <= I!Aligned(n)
<1>1. e <= ((n + 3) \div 4) * 4 => ((e + 3) \div 4) * 4 <= ((n + 3) \div 4) * 4
  BY Z3
<1> QED
  BY <1>1 DEF I!Aligned

\* The lines, and the end of the heap, stay in range.
LEMMA IrqTypesKept ==
    ASSUME I!InterruptsAssumption, IrqInv, IrqTypes, [I!Next]_(I!vars)
    PROVE  IrqTypes'
<1>1. CASE UNCHANGED <<active, ienable, handler, line, heapEnd>>
  BY <1>1 DEF IrqTypes
<1>2. ASSUME NEW l \in I!Level, I!Table(l) \/ I!Active(l) \/ I!Ienable(l) PROVE IrqTypes'
  <2>1. call[l].irq \in I!Irq
    BY <1>2, Fields DEF I!Table, I!Active, I!Ienable, I!At, RegisterCall
  <2>2. UNCHANGED <<line, heapEnd>>
    BY <1>2 DEF I!Table, I!Active, I!Ienable, I!heapVars
  <2> QED
    BY <1>2, <2>1, <2>2 DEF I!Table, I!Active, I!Ienable, IrqTypes
<1>3. ASSUME NEW l \in I!Level, I!Align(l) PROVE IrqTypes'
  <2>1. heapEnd' = I!Aligned(heapEnd) /\ UNCHANGED <<active, ienable, handler, line>>
    BY <1>3 DEF I!Align, I!irqVars
  <2>2. heapEnd \in Nat /\ HeapLimit \in Nat /\ HeapStart \in Nat /\ HeapStart <= heapEnd
        /\ heapEnd <= I!Aligned(HeapLimit)
    BY DEF IrqTypes, IrqInv, Shapes, BelowEnd, I!InterruptsAssumption
  <2>3. I!Aligned(heapEnd) \in HeapStart .. I!Aligned(HeapLimit)
    BY <2>2, AlignedNext, AlignedBelow
  <2> QED
    BY <2>1, <2>3 DEF IrqTypes
<1>4. ASSUME NEW l \in I!Level, I!Grow(l) PROVE IrqTypes'
  <2>1. heapEnd' = heapEnd + call[l].incr /\ UNCHANGED <<active, ienable, handler, line>>
    BY <1>4 DEF I!Grow, I!irqVars
  <2>2. PICK n \in Nat : n = call[l].incr /\ heapEnd + n <= HeapLimit
    BY <1>4, Fields DEF I!Grow, I!At, IrqInv, BelowEnd, GrowCall, I!InterruptsAssumption
  <2>3. /\ heapEnd \in Nat /\ HeapLimit \in Nat /\ HeapStart \in Nat /\ HeapStart <= heapEnd
        /\ I!Aligned(HeapLimit) \in Nat /\ HeapLimit <= I!Aligned(HeapLimit)
    BY AlignedNext DEF IrqInv, Shapes, BelowEnd, I!InterruptsAssumption
  <2>4. heapEnd + n \in HeapStart .. I!Aligned(HeapLimit)
    BY <2>2, <2>3
  <2> QED
    BY <2>1, <2>2, <2>4 DEF IrqTypes
<1>5. ASSUME NEW l \in I!Level,
             \/ \E irq \in I!Irq, isr \in BOOLEAN : I!Register(l, irq, isr)
             \/ I!Disable(l) \/ I!Inner(l) \/ I!Enable(l) \/ I!Extend(l)
             \/ \E incr \in Sizes : I!Sbrk(l, incr)
      PROVE  IrqTypes'
  BY <1>1, <1>5 DEF I!Register, I!Disable, I!Inner, I!Enable, I!Extend, I!Sbrk, I!irqVars,
                    I!heapVars
<1>6. ASSUME NEW irq \in I!Irq, I!Request(irq) PROVE IrqTypes'
  BY <1>6 DEF I!Request, I!irqVars, I!heapVars, IrqTypes
<1>7. CASE I!Dispatch
  BY <1>7 DEF I!Dispatch, I!irqVars, I!heapVars, IrqTypes
<1>8. CASE \/ I!ThreadDisables \/ I!ThreadEnables
           \/ I!Exception \/ I!HandlerReturns \/ I!Return
  BY <1>1, <1>8 DEF I!ThreadDisables, I!ThreadEnables, I!Exception, I!HandlerReturns, I!Return,
                    I!irqVars, I!heapVars
<1>9. CASE UNCHANGED I!vars
  BY <1>1, <1>9 DEF I!vars, I!irqVars, I!heapVars
<1> QED
  BY <1>2, <1>3, <1>4, <1>5, <1>6, <1>7, <1>8, <1>9 DEF I!Next

\* Every service keeps to its types, whatever the sizes; what gettimeofday
\* returns is a time of day even if a tick is no whole number of microseconds
\* (alt_gettod.c:60-113), and heap_end goes past the limit by less than a word
\* (alt_sbrk.c:75-95).
THEOREM TypesStay == PartSpec => []TypesOK
<1> DEFINE J == /\ Inv /\ TimeInv /\ TimeTypes /\ SleepInv /\ SleepTypes /\ FilesInv
                /\ IrqInv /\ IrqTypes
<1>1. PartInit => J
  <2> SUFFICES ASSUME PartInit PROVE TimeTypes /\ SleepTypes /\ IrqTypes
    BY HalAssumption, InvInit, TimeInitially, SleepInitially, FilesInitially, IrqInitially
       DEF PartInit
  <2>1. TimeTypes
    BY HalAssumption DEF PartInit, T!Init, T!Nothing, T!TimeAssumption, TimeTypes
  <2>2. SleepTypes
    BY HalAssumption, ChunkFits DEF PartInit, S!Init, SleepTypes
  <2>3. IrqTypes
    <3>1. heapEnd = HeapStart /\ active = {} /\ ienable = {} /\ handler = {} /\ line = {}
      BY DEF PartInit, I!Init
    <3>2. HeapStart \in Nat /\ HeapLimit \in Nat /\ HeapStart <= HeapLimit
      BY HalAssumption DEF I!InterruptsAssumption
    <3> QED
      BY <3>1, <3>2, AlignedNext DEF IrqTypes
  <2> QED
    BY <2>1, <2>2, <2>3
<1>2. [PartNext]_allVars =>
         /\ [Next]_vars /\ [T!Next]_(T!vars) /\ [S!Next]_(S!vars)
         /\ [F!Next]_(F!vars) /\ [I!Next]_(I!vars)
  BY DEF PartNext, allVars, timeVars, sleepVars, fileVars, interruptVars, T!vars, S!vars, F!vars,
         I!vars, I!irqVars, I!heapVars
<1>3. J /\ [PartNext]_allVars => J'
  BY <1>2, HalAssumption, InvNext, TimePreserved, TimeTypesKept, SleepPreserved, SleepTypesKept,
     FilesPreserved, IrqInductive, IrqTypesKept
<1>4. J => TypesOK
  <2> SUFFICES ASSUME J PROVE T!TypeOK /\ S!TypeOK /\ I!TypeOK
    BY DEF Inv, FilesInv, TypesOK
  <2>1. T!TypeOK
    BY HalAssumption DEF T!TypeOK, TimeInv, TimeShapes, TimeTypes, T!Timeval, T!TimeAssumption
  <2>2. S!TypeOK
    BY ChunkFits, HalAssumption DEF S!TypeOK, SleepInv, SleepTypes
  <2>3. I!TypeOK
    <3>1. \A l \in I!Level : call[l].at \in I!Steps
      BY DEF IrqInv, Shapes, Calls, RegisterCall, AskCall, GrowCall, I!NoCall, I!Steps
    <3> QED
      BY <3>1 DEF I!TypeOK, IrqInv, Shapes, IrqTypes
  <2> QED
    BY <2>1, <2>2, <2>3
<1> QED
  BY <1>1, <1>3, <1>4, PTL DEF PartSpec
=============================================================================
