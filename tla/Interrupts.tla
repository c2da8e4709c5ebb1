------------------------------ MODULE Interrupts ------------------------------
(***************************************************************************)
(* Interrupts and what runs with them disabled: the processor's global     *)
(* enable bit, the table of handlers, alt_ic_isr_register, alt_irq_handler *)
(* and sbrk, which threads and interrupt routines both call.               *)
(*                                                                         *)
(* There are two levels, the thread and the interrupt routine.  At each at *)
(* most one call is under way, and the routine's runs to its end before    *)
(* the thread's goes on.  Every step of a call may be interrupted while    *)
(* the processor's bit is set.                                             *)
(***************************************************************************)
EXTENDS Integers, FiniteSets

CONSTANTS NIrq,       \* ALT_NIRQ: 32
          Sizes,      \* what sbrk is asked for
          HeapStart, HeapLimit

InterruptsAssumption ==
    /\ NIrq \in Nat \ {0} /\ Sizes \subseteq Nat
    /\ HeapStart \in Nat /\ HeapLimit \in Nat /\ HeapStart <= HeapLimit

VARIABLES pie,      \* status.PIE: interrupts are enabled
          active,   \* alt_irq_active: the lines that are enabled
          ienable,  \* the register IENABLE
          handler,  \* the lines with an entry in the table alt_irq
          line,     \* the lines that request an interrupt
          routine,  \* where alt_irq_handler is: "out", "in", "scan" or "handler"
          estatus,  \* the bit that was set when the exception came
          call,     \* at each level: the call under way
          held,     \* the thread is inside alt_irq_disable_all
          heapEnd,  \* heap_end
          blocks    \* what sbrk has given

irqVars == <<active, ienable, handler>>
heapVars == <<heapEnd, blocks>>
vars == <<pie, irqVars, line, routine, estatus, call, held, heapVars>>

Irq == 0 .. NIrq - 1
Level == {"thread", "isr"}
NoCall == [at |-> "none"]

Init ==
    /\ pie = TRUE /\ active = {} /\ ienable = {} /\ handler = {} /\ line = {}
    /\ routine = "out" /\ estatus = FALSE
    /\ call = [l \in Level |-> NoCall]
    /\ held = [inside |-> FALSE, context |-> FALSE]
    /\ heapEnd = HeapStart /\ blocks = {}

\* The level that runs: the routine's own code, in a handler, or the thread.
Running(l) == IF l = "isr" THEN routine = "handler" ELSE routine = "out"
At(l, where) == Running(l) /\ call[l].at = where
Goto(l, where) == call' = [call EXCEPT ![l].at = where]

(***************************************************************************)
(* alt_ic_isr_register, with alt_irq_enable or alt_irq_disable inside.     *)
(***************************************************************************)
\* Mutant: the table is changed with interrupts enabled.
Register_Bug(l, irq, isr) ==
    /\ At(l, "none")
    /\ call' = [call EXCEPT ![l] =
          [at |-> "table", irq |-> irq, isr |-> isr, context |-> pie, inner |-> FALSE]]
    /\ UNCHANGED <<pie, irqVars, line, routine, estatus, held, heapVars>>

Register(l, irq, isr) ==
    /\ At(l, "none")
    /\ call' = [call EXCEPT ![l] =
          [at |-> "table", irq |-> irq, isr |-> isr, context |-> pie, inner |-> FALSE]]
    /\ pie' = FALSE
    /\ UNCHANGED <<irqVars, line, routine, estatus, held, heapVars>>

Table(l) ==
    /\ At(l, "table")
    /\ handler' = IF call[l].isr THEN handler \cup {call[l].irq} ELSE handler \ {call[l].irq}
    /\ Goto(l, "disable")
    /\ UNCHANGED <<pie, active, ienable, line, routine, estatus, held, heapVars>>

Disable(l) ==
    /\ At(l, "disable")
    /\ call' = [call EXCEPT ![l].inner = pie, ![l].at = "active"]
    /\ pie' = FALSE
    /\ UNCHANGED <<irqVars, line, routine, estatus, held, heapVars>>

Active(l) ==
    /\ At(l, "active")
    /\ active' = IF call[l].isr THEN active \cup {call[l].irq} ELSE active \ {call[l].irq}
    /\ Goto(l, "ienable")
    /\ UNCHANGED <<pie, ienable, handler, line, routine, estatus, held, heapVars>>

Ienable(l) ==
    /\ At(l, "ienable")
    /\ ienable' = active
    /\ Goto(l, "inner")
    /\ UNCHANGED <<pie, active, handler, line, routine, estatus, held, heapVars>>

Inner(l) ==
    /\ At(l, "inner")
    /\ pie' = call[l].inner
    /\ Goto(l, "enable")
    /\ UNCHANGED <<irqVars, line, routine, estatus, held, heapVars>>

Enable(l) ==
    /\ At(l, "enable")
    /\ pie' = call[l].context
    /\ call' = [call EXCEPT ![l] = NoCall]
    /\ UNCHANGED <<irqVars, line, routine, estatus, held, heapVars>>

(***************************************************************************)
(* sbrk.                                                                   *)
(***************************************************************************)
Sbrk(l, incr) ==
    /\ At(l, "none")
    /\ call' = [call EXCEPT ![l] = [at |-> "align", incr |-> incr, context |-> pie]]
    /\ pie' = FALSE
    /\ UNCHANGED <<irqVars, line, routine, estatus, held, heapVars>>

Aligned(n) == ((n + 3) \div 4) * 4

Align(l) ==
    /\ At(l, "align")
    /\ heapEnd' = Aligned(heapEnd)
    /\ Goto(l, IF Aligned(heapEnd) + call[l].incr > HeapLimit THEN "enable" ELSE "extend")
    /\ UNCHANGED <<pie, irqVars, line, routine, estatus, held, blocks>>

\* Where the block starts is read before the end is moved.
Extend(l) ==
    /\ At(l, "extend")
    /\ call' = [call EXCEPT ![l] =
          [at |-> "grow", incr |-> @.incr, context |-> @.context, prev |-> heapEnd]]
    /\ UNCHANGED <<pie, irqVars, line, routine, estatus, held, heapVars>>

Grow(l) ==
    /\ At(l, "grow")
    /\ heapEnd' = heapEnd + call[l].incr
    /\ blocks' = blocks \cup {[from |-> call[l].prev, size |-> call[l].incr]}
    /\ Goto(l, "enable")
    /\ UNCHANGED <<pie, irqVars, line, routine, estatus, held>>

(***************************************************************************)
(* The thread's own critical sections, and the devices.                    *)
(***************************************************************************)
ThreadDisables ==
    /\ At("thread", "none") /\ ~held.inside
    /\ held' = [inside |-> TRUE, context |-> pie]
    /\ pie' = FALSE
    /\ UNCHANGED <<irqVars, line, routine, estatus, call, heapVars>>

ThreadEnables ==
    /\ At("thread", "none") /\ held.inside
    /\ pie' = held.context
    /\ held' = [inside |-> FALSE, context |-> FALSE]
    /\ UNCHANGED <<irqVars, line, routine, estatus, call, heapVars>>

\* A request stands until its handler clears it.
Request(irq) ==
    /\ irq \notin line
    /\ line' = line \cup {irq}
    /\ UNCHANGED <<pie, irqVars, routine, estatus, call, held, heapVars>>

(***************************************************************************)
(* alt_irq_handler.                                                        *)
(***************************************************************************)
Pending == line \cap ienable

Exception ==
    /\ routine = "out" /\ pie /\ Pending # {}
    /\ estatus' = pie /\ pie' = FALSE
    /\ routine' = "in"
    /\ UNCHANGED <<irqVars, line, call, held, heapVars>>

\* The first of the pending lines; its handler clears the request.
First == CHOOSE irq \in Pending : \A other \in Pending : irq <= other
Dispatch ==
    /\ routine \in {"in", "scan"} /\ Pending # {}
    /\ routine' = "handler"
    /\ line' = line \ {First}
    /\ UNCHANGED <<pie, irqVars, estatus, call, held, heapVars>>

HandlerReturns ==
    /\ At("isr", "none")
    /\ routine' = "scan"
    /\ UNCHANGED <<pie, irqVars, line, estatus, call, held, heapVars>>

Return ==
    /\ routine = "scan" /\ Pending = {}
    /\ routine' = "out" /\ pie' = estatus /\ estatus' = FALSE
    /\ UNCHANGED <<irqVars, line, call, held, heapVars>>

Next ==
    \/ \E l \in Level :
          \/ \E irq \in Irq, isr \in BOOLEAN : Register(l, irq, isr)
          \/ Table(l) \/ Disable(l) \/ Active(l) \/ Ienable(l) \/ Inner(l) \/ Enable(l)
          \/ \E incr \in Sizes : Sbrk(l, incr)
          \/ Align(l) \/ Extend(l) \/ Grow(l)
    \/ ThreadDisables \/ ThreadEnables
    \/ \E irq \in Irq : Request(irq)
    \/ Exception \/ Dispatch \/ HandlerReturns \/ Return

(***************************************************************************)
(* Properties.                                                             *)
(***************************************************************************)
Steps == {"none", "table", "disable", "active", "ienable", "inner", "enable", "align",
          "extend", "grow"}

\* Types of all variables.
TypeOK ==
    /\ pie \in BOOLEAN /\ estatus \in BOOLEAN
    /\ active \subseteq Irq /\ ienable \subseteq Irq /\ handler \subseteq Irq /\ line \subseteq Irq
    /\ routine \in {"out", "in", "scan", "handler"}
    /\ \A l \in Level : call[l].at \in Steps
    /\ held \in [inside : BOOLEAN, context : BOOLEAN]
    /\ heapEnd \in HeapStart .. Aligned(HeapLimit)

\* alt_irq_handler finds an entry for every line it dispatches, however a
\* handler is taken away meanwhile, and its first scan, which has no end of
\* its own, finds a line (alt_irq_handler.c:128-159).
HandlersThere ==
    /\ routine \in {"in", "scan"} => Pending \subseteq handler
    /\ routine = "in" => Pending # {}

\* Nested calls restore what they found: interrupts are enabled for a thread
\* that is in no call and no section of its own, and disabled everywhere else
\* ("alt_irq_enable_all() does not necessarily re-enable interrupts",
\* alt_irq.h:133-135).
NestingKept ==
    /\ routine # "out" => ~pie
    /\ routine = "out" => (pie <=> call["thread"].at = "none" /\ ~held.inside)

\* No two blocks that sbrk gave, to the thread or to a routine that came in
\* between, overlap; all are aligned and within the heap
\* (alt_sbrk.c:75-95).
BlocksApart ==
    /\ \A b \in blocks : b.from % 4 = 0 /\ HeapStart <= b.from /\ b.from + b.size <= HeapLimit
    /\ \A b, c \in blocks : b # c => b.from + b.size <= c.from \/ c.from + c.size <= b.from
=============================================================================
