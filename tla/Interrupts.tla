----------------------------- MODULE Interrupts ------------------------------
(***************************************************************************)
(* Interrupts on one processor: the code that runs with them enabled, the  *)
(* local APIC and its timer (kernel/src/hal/arch/apic), the dispatch of a  *)
(* vector (amd64_handler2), and the handlers kept in IRQ_HANDLES.          *)
(*                                                                         *)
(* kmain starts the timer, in the order of its source, and then calls the  *)
(* timer in any order.  An interrupt is taken between any two of its steps *)
(* at which the interrupt flag is set.  The handler uses two of the locks  *)
(* kmain uses: the Mutex around IRQ_HANDLES and the IrqCell around the     *)
(* APIC's registers, both of which save the flag and clear it.             *)
(***************************************************************************)
EXTENDS Integers, Sequences

CONSTANTS
  Vector,       \* 48, the timer's
  MaxCount,     \* bound: the largest count; above it try_into fails
  Sample        \* the count with which the timer is measured, 1_000_000

ASSUME CountAssumption == MaxCount \in Nat \ {0} /\ Sample \in 1 .. MaxCount

VARIABLES
  flag,         \* the interrupt flag
  stack,        \* interrupts being handled, the innermost first
  irr, isr,     \* vectors requested from, and in service by, the processor
  lvt,          \* timer_lvt
  count,        \* timer_initial_count and timer_current_count
  divide,       \* timer_divide_config
  hpet,         \* whether the HPET counts
  handlers,     \* the keys of IRQ_HANDLES
  table,        \* the lock of IRQ_HANDLES: [held, saved flag]
  cell,         \* the IrqCell of the APIC: the same
  kmain, then,     \* where kmain is, and where its call returns to
  kept          \* what get_time_period_picos has saved

apic == <<lvt, count, divide, hpet>>
pending == <<irr, isr>>
locks == <<table, cell>>
interruptsVars == <<flag, stack, pending, apic, handlers, locks, kmain, then, kept>>

Free == [held |-> FALSE, saved |-> FALSE]
Taken == [held |-> TRUE, saved |-> flag]

(* The registers after a reset.  The PIC is masked and interrupts are on. *)
InterruptsInit ==
  /\ flag = TRUE
  /\ stack = <<>>
  /\ irr = {} /\ isr = {}
  /\ lvt = [vector |-> 0, mode |-> "OneShot", masked |-> TRUE]
  /\ count = [initial |-> 0, current |-> 0]
  /\ divide = 0
  /\ hpet = FALSE
  /\ handlers = {}
  /\ table = Free /\ cell = Free
  /\ kmain = "init" /\ then = "init"
  /\ kept = [lvt |-> lvt, divide |-> 0, hpet |-> FALSE]
-----------------------------------------------------------------------------
(* The timer counts down; at zero it requests its vector unless masked,    *)
(* and starts again if periodic.                                           *)
Count ==
  /\ count.current > 0
  /\ LET done == count.current = 1 IN
       /\ count' = [count EXCEPT !.current =
                      IF done /\ lvt.mode = "Periodic" THEN count.initial ELSE @ - 1]
       /\ irr' = IF done /\ ~ lvt.masked THEN irr \union {lvt.vector} ELSE irr
  /\ UNCHANGED <<flag, stack, isr, lvt, divide, hpet, handlers, locks, kmain, then, kept>>

(* An interrupt gate: the flag is saved and cleared.  A vector of the same *)
(* or a lower class than one in service waits for its EOI.                 *)
Enter(v, at) ==
  /\ flag
  /\ stack' = <<[vector |-> v, at |-> at, saved |-> flag]>> \o stack
  /\ flag' = FALSE

Deliver ==
  /\ \E v \in irr :
       /\ \A w \in isr : v \div 16 > w \div 16
       /\ Enter(v, "lock")                       \* MIN_IRQ .. MAX_IRQ: irq_handler
       /\ irr' = irr \ {v} /\ isr' = isr \union {v}
  /\ UNCHANGED <<apic, handlers, locks, kmain, then, kept>>

(* A spurious vector, of the PIC (32 .. 47) or of the APIC (255), is not   *)
(* in service, and is only logged.                                         *)
Spurious ==
  /\ \E v \in {39, 255} : Enter(v, "iret")
  /\ UNCHANGED <<pending, apic, handlers, locks, kmain, then, kept>>

Handler(at) == stack # <<>> /\ Head(stack).at = at
HandlerAt(at) == stack' = [stack EXCEPT ![1].at = at]

(* irq_handler: IRQ_HANDLES.lock() spins while it is held ... *)
HandlerLock ==
  /\ Handler("lock")
  /\ ~ table.held
  /\ table' = Taken /\ flag' = FALSE
  /\ HandlerAt(IF Head(stack).vector \in handlers THEN "run" ELSE "unlock")
  /\ UNCHANGED <<pending, apic, handlers, cell, kmain, then, kept>>

(* ... the timer's handler draws, and sends the EOI under the IrqCell,     *)
(* which panics if it is borrowed; the APIC ends the highest in service ... *)
Highest == CHOOSE v \in isr : \A w \in isr : v >= w

(* Mutant: the handler that was registered does not send the EOI. *)
HandlerRunNoEoi ==
  /\ Handler("run")
  /\ HandlerAt("unlock")
  /\ UNCHANGED <<flag, pending, apic, handlers, locks, kmain, then, kept>>

HandlerRun ==
  /\ Handler("run")
  /\ ~ cell.held
  /\ isr' = isr \ {Highest}
  /\ HandlerAt("unlock")
  /\ UNCHANGED <<flag, irr, apic, handlers, locks, kmain, then, kept>>

(* ... and the guard is dropped, and iretq restores the flag. *)
HandlerUnlock ==
  /\ Handler("unlock")
  /\ table' = Free /\ flag' = (flag \/ table.saved)
  /\ HandlerAt("iret")
  /\ UNCHANGED <<pending, apic, handlers, cell, kmain, then, kept>>

HandlerReturn ==
  /\ Handler("iret")
  /\ flag' = Head(stack).saved
  /\ stack' = Tail(stack)
  /\ UNCHANGED <<pending, apic, handlers, locks, kmain, then, kept>>

HandlerStep == HandlerLock \/ HandlerRun \/ HandlerUnlock \/ HandlerReturn
-----------------------------------------------------------------------------
(* kmain's steps, when no interrupt is being handled.  A call on the timer *)
(* borrows the IrqCell, which panics if it is borrowed, and returns to     *)
(* `then'.                                                                 *)
Main(from) == stack = <<>> /\ kmain = from
Proceed(to) == kmain' = to /\ UNCHANGED then

(* Mutant: the cell is borrowed with interrupts enabled. *)
CallOpen(from, call, to) ==
  /\ Main(from) /\ ~ cell.held
  /\ cell' = Taken /\ UNCHANGED flag
  /\ kmain' = call /\ then' = to
  /\ UNCHANGED <<stack, pending, apic, handlers, table, kept>>

Call(from, call, to) ==
  /\ Main(from) /\ ~ cell.held
  /\ cell' = Taken /\ flag' = FALSE
  /\ kmain' = call /\ then' = to
  /\ UNCHANGED <<stack, pending, apic, handlers, table, kept>>

Return ==
  /\ Main("return")
  /\ cell' = Free /\ flag' = (flag \/ cell.saved)
  /\ Proceed(then)
  /\ UNCHANGED <<stack, pending, apic, handlers, table, kept>>

(* What a call does under the cell; the locks and the handlers are others'. *)
Body(from, to) ==
  /\ Main(from) /\ kmain' = to
  /\ UNCHANGED <<flag, stack, pending, handlers, locks>>

SetCount(n) == count' = [initial |-> n, current |-> n]

(* apic::init, before anyone else knows of the APIC. *)
ApicInit ==
  /\ Body("init", "register")
  /\ lvt' = [lvt EXCEPT !.masked = FALSE]
  /\ UNCHANGED <<count, divide, hpet, kept, then>>

(* IRQ_HANDLES.lock().insert(48, ...). *)
RegisterLock(from, to) ==
  /\ Main(from) /\ ~ table.held
  /\ table' = Taken /\ flag' = FALSE
  /\ kmain' = "insert" /\ then' = to
  /\ UNCHANGED <<stack, pending, apic, handlers, cell, kept>>

RegisterInsert ==
  /\ Main("insert")
  /\ handlers' = handlers \union {Vector}
  /\ table' = Free /\ flag' = (flag \/ table.saved)
  /\ Proceed(then)
  /\ UNCHANGED <<stack, pending, apic, cell, kept>>

(* Mutant: the timer is measured in the mode it is in. *)
MeasureInMode ==
  /\ Body("measure", "sample")
  /\ kept' = [kept EXCEPT !.lvt = lvt]
  /\ lvt' = [lvt EXCEPT !.masked = TRUE]
  /\ UNCHANGED <<count, divide, hpet, then>>

(* get_time_period_picos: the timer is masked, counts a sample once, and   *)
(* all but the initial count is put back.                                  *)
Measure ==
  /\ Body("measure", "sample")
  /\ kept' = [kept EXCEPT !.lvt = lvt]
  /\ lvt' = [lvt EXCEPT !.mode = "OneShot", !.masked = TRUE]
  /\ UNCHANGED <<count, divide, hpet, then>>

MeasureStart ==
  /\ Body("sample", "wait")
  /\ kept' = [kept EXCEPT !.divide = divide, !.hpet = hpet]
  /\ divide' = 2 /\ hpet' = TRUE
  /\ SetCount(Sample)
  /\ UNCHANGED <<lvt, then>>

MeasureEnd ==
  /\ Body("wait", "return")
  /\ count.current = 0
  /\ lvt' = kept.lvt /\ divide' = kept.divide /\ hpet' = kept.hpet
  /\ UNCHANGED <<count, kept, then>>

(* set_irq_number: a number that does not fit the register panics under    *)
(* the cell.  Nobody catches that, so no guard is dropped.  kmain's fits,  *)
(* and a number that fits is the one with a handler.                       *)
set_irq_number ==
  /\ \/ /\ Body("number", "return")
        /\ lvt' = [lvt EXCEPT !.vector = Vector]
     \/ /\ then = "calls"
        /\ Body("number", "aborted")
        /\ UNCHANGED lvt
  /\ UNCHANGED <<count, divide, hpet, kept, then>>

(* do_panic_with ends in a loop, with the flag and the locks as they are. *)
PanicLoop ==
  /\ \E at \in {"panicked", "aborted"} : Main(at)
  /\ UNCHANGED interruptsVars

(* set_divisor: of other values it returns an error at once. *)
get_divisors == {1, 2, 4, 8, 16, 32, 64, 128}

set_divisor ==
  /\ Body("divisor", "return")
  /\ divide' \in IF then = "start" THEN {4} ELSE get_divisors
  /\ UNCHANGED <<lvt, count, hpet, kept, then>>

(* start_periodic and set_oneshot_time: the mode is set first ... *)
StartMode ==
  /\ \E mode \in {"Periodic", "OneShot"} :
       /\ Body(mode, "ticks")
       /\ lvt' = [lvt EXCEPT !.mode = mode, !.masked = FALSE]
  /\ UNCHANGED <<count, divide, hpet, kept, then>>

(* ... and then the count, which may be too large for the register: kmain  *)
(* unwraps that error.                                                     *)
StartCount ==
  /\ Body("ticks", "return")
  /\ \E ticks \in 0 .. MaxCount + 1 :
       IF ticks > MaxCount
       THEN /\ then' = IF then = "booted" THEN "panicked" ELSE then
            /\ UNCHANGED count
       ELSE SetCount(ticks) /\ UNCHANGED then
  /\ UNCHANGED <<lvt, divide, hpet, kept>>

stop_periodic ==
  /\ Body("stop", "return")
  /\ SetCount(0)
  /\ UNCHANGED <<lvt, divide, hpet, kept, then>>

(* kmain unwraps what get_time_period_picos returns, an error before it    *)
(* takes the cell if there is no HPET, and divides by it.                  *)
BootPanics ==
  /\ \E at \in {"calibrate", "start"} : Main(at)
  /\ Proceed("panicked")
  /\ UNCHANGED <<flag, stack, pending, apic, handlers, locks, kept>>

(* Mutant: the handler is registered after the timer has been started. *)
BootStartsFirst ==
  \/ Call("register", "measure", "vector")
  \/ Call("vector", "number", "divide")
  \/ Call("divide", "divisor", "start")
  \/ Call("start", "Periodic", "late")
  \/ RegisterLock("late", "booted")

(* kmain, in its order: the handler is there before the timer starts. *)
Boot ==
  \/ RegisterLock("register", "calibrate")
  \/ Call("calibrate", "measure", "vector")
  \/ Call("vector", "number", "divide")
  \/ Call("divide", "divisor", "start")
  \/ Call("start", "Periodic", "booted")
  \/ BootPanics

(* Afterwards, the calls of Timer and new handlers, in any order. *)
Calls ==
  \/ RegisterLock("booted", "calls") \/ RegisterLock("calls", "calls")
  \/ \E from \in {"booted", "calls"} :
       \E call \in {"measure", "number", "divisor", "Periodic", "OneShot", "stop"} :
         Call(from, call, "calls")

Work ==
  \/ ApicInit \/ RegisterInsert \/ Return
  \/ Measure \/ MeasureStart \/ MeasureEnd
  \/ set_irq_number \/ set_divisor
  \/ StartMode \/ StartCount \/ stop_periodic

InterruptsNext == Count \/ Deliver \/ Spurious \/ HandlerStep \/ Boot \/ Calls \/ Work \/ PanicLoop

(* The timer counts, the processor executes the code it is in, and takes   *)
(* what is pending before the next instruction with the flag set: there    *)
(* are some between any two calls.                                         *)
Fairness ==
  /\ WF_interruptsVars(Count)
  /\ SF_interruptsVars(Deliver)
  /\ WF_interruptsVars(HandlerStep)
  /\ WF_interruptsVars(Work)

InterruptsSpec == InterruptsInit /\ [][InterruptsNext]_interruptsVars /\ Fairness
-----------------------------------------------------------------------------
InCell == {"measure", "sample", "wait", "number", "divisor", "Periodic", "OneShot",
           "ticks", "stop", "return", "aborted"}
Outside == {"init", "register", "calibrate", "vector", "divide", "start", "booted",
            "calls", "panicked"}
Lvt == [vector : {0, Vector}, mode : {"OneShot", "Periodic"}, masked : BOOLEAN]
LockState == [held : BOOLEAN, saved : BOOLEAN]
Frame == [vector : {0, Vector, 39, 255}, at : {"lock", "run", "unlock", "iret"},
          saved : BOOLEAN]

(* Every variable has its type. *)
InterruptsTypeOK ==
  /\ flag \in BOOLEAN
  /\ stack \in Seq(Frame)
  /\ irr \subseteq {0, Vector} /\ isr \subseteq {0, Vector}
  /\ lvt \in Lvt
  /\ count \in [initial : 0 .. MaxCount, current : 0 .. MaxCount]
  /\ divide \in get_divisors \union {0}
  /\ hpet \in BOOLEAN
  /\ handlers \subseteq {Vector}
  /\ table \in LockState /\ cell \in LockState
  /\ kmain \in InCell \union Outside \union {"insert"}
  /\ then \in Outside
  /\ kept \in [lvt : Lvt, divide : get_divisors \union {0}, hpet : BOOLEAN]

(* An interrupt finds both locks its handler needs free: kmain was not     *)
(* interrupted while it held one, and no handler interrupts another.  So   *)
(* irq_handler does not spin for a lock of the code below it, and the      *)
(* IrqCell does not panic.                                                 *)
IrqSafe ==
  /\ Handler("lock") => ~ table.held
  /\ Handler("run") => ~ cell.held
  /\ Len(stack) <= 1
  /\ ~ cell.held /\ ~ table.held /\ stack = <<>> => flag

(* What the timer requests has a handler: one without would be left in     *)
(* service for ever, as nobody sends the EOI for it.                       *)
TickHasHandler == irr \union isr \subseteq handlers

(* A tick is taken, in whatever mode the timer is, however often it is     *)
(* measured, restarted or stopped meanwhile, and while other interrupts    *)
(* come: its vector does not stay requested, unless kmain has panicked     *)
(* inside a call, with interrupts disabled.  It assumes what the code does *)
(* not enforce: that set_irq_number is given the vector with the handler.  *)
(* Another one would be left in service, and block this one for ever.      *)
TicksServed == Vector \in irr ~> Vector \notin irr \/ kmain = "aborted"

(* The measurement's loop ends, also on a timer that runs periodically, so *)
(* that interrupts are enabled again.                                      *)
MeasurementEnds == kmain = "measure" ~> kmain = "return"
=============================================================================
