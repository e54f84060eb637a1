---------------------------- MODULE EventProofs ----------------------------
(***************************************************************************)
(* The code that events run.  Part 1: no interrupt finds a lock of its     *)
(* handler taken, and what the timer requests has a handler, for every     *)
(* vector, count and sample.  Part 2: the executor loses no wake, and does *)
(* not panic when tasks are woken only while they are asleep, for any      *)
(* number of tasks and any capacity.  Part 3: the cells that either may    *)
(* find uninitialised are read only once they are, for any set of threads. *)
(***************************************************************************)
EXTENDS Interrupts, Executor, OnceCells, FiniteSetTheorems, SequenceTheorems, TLAPS

(* A leaf that names no prover is tried with Zenon, then with the SMT solver. *)
USE ZenonT(30), SMTT(30)

-----------------------------------------------------------------------------
(* Part 1: Interrupts. *)

(* Who holds which lock, and what the flag is: kmain outside of handlers ... *)
MainLocks ==
  stack = <<>> =>
    /\ cell.held <=> kmain \in InCell
    /\ table.held <=> kmain = "insert"
    /\ flag <=> kmain \in Outside
    /\ cell.held => cell.saved
    /\ table.held => table.saved

(* ... and the only handler, on top of kmain between its calls. *)
HandlerLocks ==
  stack # <<>> =>
    /\ Len(stack) = 1
    /\ ~ flag
    /\ kmain \in Outside
    /\ ~ cell.held
    /\ stack[1].saved
    /\ table.held <=> stack[1].at \in {"run", "unlock"}
    /\ table.held => ~ table.saved

(* kmain has not yet entered the handler, or not yet set the vector, or    *)
(* may have panicked before it did.                                        *)
Unregistered ==
  \/ kmain \in {"init", "register"}
  \/ kmain = "insert" /\ then = "calibrate"

NoVector ==
  \/ Unregistered
  \/ kmain \in {"calibrate", "vector", "panicked"}
  \/ kmain \in {"measure", "sample", "wait", "return"} /\ then = "vector"
  \/ kmain = "number" /\ then = "divide"

(* Until then the timer stands still, or is masked for the measurement. *)
TimerOff ==
  /\ Vector \in handlers \/ (Unregistered /\ count.current = 0)
  /\ lvt.vector = Vector \/ (NoVector /\ (count.current > 0 => kmain = "wait"))
  /\ kmain \in {"sample", "wait"} => lvt.masked /\ kept.lvt.vector = lvt.vector

IInv == InterruptsTypeOK /\ MainLocks /\ HandlerLocks /\ TimerOff /\ TickHasHandler
-----------------------------------------------------------------------------
(* The stack holds at most one frame: what pushing, changing and popping it do. *)
LEMMA PushFrame ==
  ASSUME NEW f \in Frame
  PROVE  /\ <<f>> \o <<>> \in Seq(Frame)
         /\ Len(<<f>> \o <<>>) = 1
         /\ (<<f>> \o <<>>)[1] = f
         /\ <<f>> \o <<>> # <<>>
OBVIOUS

LEMMA OneFrame ==
  ASSUME NEW s \in Seq(Frame), Len(s) = 1
  PROVE  s # <<>> /\ s[1] \in Frame /\ Head(s) = s[1] /\ Tail(s) = <<>>
<1>1. s # <<>> /\ s[1] \in Frame /\ Head(s) = s[1]
  BY SMTT(30), ElementOfSeq, EmptySeq
<1>2. Tail(s) \in Seq(Frame) /\ Len(Tail(s)) = 0
  BY SMTT(30), <1>1, HeadTailProperties
<1> QED
  BY <1>1, <1>2, EmptySeq

LEMMA ChangeFrame ==
  ASSUME NEW s \in Seq(Frame), Len(s) = 1,
         NEW a \in {"lock", "run", "unlock", "iret"}
  PROVE  LET t == [s EXCEPT ![1].at = a] IN
           /\ t \in Seq(Frame)
           /\ Len(t) = 1
           /\ t # <<>>
           /\ t[1].at = a
           /\ t[1].saved = s[1].saved
<1> DEFINE f == [s[1] EXCEPT !.at = a]
           t == [s EXCEPT ![1] = f]
<1>1. s[1] \in Frame
  BY OneFrame
<1>2. f \in Frame /\ f.at = a /\ f.saved = s[1].saved
  BY <1>1 DEF Frame
<1>3. [s EXCEPT ![1].at = a] = t
  OBVIOUS
<1> HIDE DEF f
<1>4. t \in Seq(Frame) /\ Len(t) = 1 /\ t[1] = f
  <2>1. 1 \in 1 .. Len(s)
    OBVIOUS
  <2>2. t \in Seq(Frame)
    BY <2>1, <1>2, ExceptSeq
  <2>3. Len(t) = Len(s)
    BY SMTT(30), <2>1, <1>2, ExceptSeq
  <2>4. t[1] = f
    BY <2>1, LenProperties
  <2> QED
    BY <2>2, <2>3, <2>4
<1>5. t # <<>>
  BY SMTT(30), <1>4, EmptySeq
<1> QED
  BY <1>2, <1>3, <1>4, <1>5
-----------------------------------------------------------------------------
(* Every step of kmain, of a handler and of the timer keeps IInv.  What is *)
(* not cited as changed is unchanged by the definition of the step.        *)
LEMMA BodyKeepsLocks ==
  ASSUME NEW from, NEW to, IInv, Body(from, to),
         (from \in InCell /\ to \in InCell) \/ (from \in Outside /\ to \in Outside)
  PROVE  MainLocks' /\ HandlerLocks' /\ TickHasHandler'
<1>1. MainLocks' /\ HandlerLocks'
  BY DEF IInv, MainLocks, HandlerLocks, Body, Main, locks, InCell, Outside
<1>2. TickHasHandler'
  BY DEF IInv, TickHasHandler, Body, pending
<1> QED
  BY <1>1, <1>2

LEMMA Keeps_ApicInit ==
  ASSUME IInv, ApicInit
  PROVE  IInv'
<1> USE DEF ApicInit, Body, Main, pending, locks
<1>1. InterruptsTypeOK'
  <2>1. lvt' \in Lvt
    BY DEF IInv, InterruptsTypeOK, Lvt
  <2> QED
    BY <2>1 DEF IInv, InterruptsTypeOK, InCell, Outside
<1>2. MainLocks' /\ HandlerLocks' /\ TickHasHandler'
  BY BodyKeepsLocks DEF ApicInit, Outside
<1>3. TimerOff'
  BY DEF IInv, InterruptsTypeOK, Lvt, TimerOff, NoVector, Unregistered
<1> QED
  BY <1>1, <1>2, <1>3 DEF IInv

LEMMA Keeps_RegisterInsert ==
  ASSUME IInv, RegisterInsert
  PROVE  IInv'
<1> USE DEF RegisterInsert, Main, Proceed, Free, apic, pending
<1>1. InterruptsTypeOK'
  BY DEF IInv, InterruptsTypeOK, LockState, InCell, Outside
<1>2. MainLocks' /\ HandlerLocks' /\ TickHasHandler'
  <2>1. MainLocks' /\ HandlerLocks'
    BY DEF IInv, InterruptsTypeOK, LockState, InCell, Outside, MainLocks, HandlerLocks
  <2>2. TickHasHandler'
    BY DEF IInv, TickHasHandler
  <2> QED
    BY <2>1, <2>2
<1>3. TimerOff'
  BY DEF IInv, InterruptsTypeOK, Outside, TimerOff, NoVector, Unregistered
<1> QED
  BY <1>1, <1>2, <1>3 DEF IInv

LEMMA Keeps_Return ==
  ASSUME IInv, Return
  PROVE  IInv'
<1> USE DEF Return, Main, Proceed, Free, apic, pending
<1>1. InterruptsTypeOK'
  BY DEF IInv, InterruptsTypeOK, LockState, InCell, Outside
<1>2. MainLocks' /\ HandlerLocks' /\ TickHasHandler'
  <2>1. MainLocks' /\ HandlerLocks'
    BY DEF IInv, InterruptsTypeOK, LockState, InCell, Outside, MainLocks, HandlerLocks
  <2>2. TickHasHandler'
    BY DEF IInv, TickHasHandler
  <2> QED
    BY <2>1, <2>2
<1>3. TimerOff'
  BY DEF IInv, InterruptsTypeOK, Outside, TimerOff, NoVector, Unregistered
<1> QED
  BY <1>1, <1>2, <1>3 DEF IInv

LEMMA Keeps_Measure ==
  ASSUME IInv, Measure
  PROVE  IInv'
<1> USE DEF Measure, Body, Main, pending, locks
<1>1. InterruptsTypeOK'
  <2>1. lvt' \in Lvt /\ kept' \in [lvt : Lvt, divide : get_divisors \union {0}, hpet : BOOLEAN]
    BY DEF IInv, InterruptsTypeOK, Lvt
  <2> QED
    BY <2>1 DEF IInv, InterruptsTypeOK, InCell
<1>2. MainLocks' /\ HandlerLocks' /\ TickHasHandler'
  BY BodyKeepsLocks DEF Measure, InCell
<1>3. TimerOff'
  BY DEF IInv, InterruptsTypeOK, Lvt, TimerOff, NoVector, Unregistered
<1> QED
  BY <1>1, <1>2, <1>3 DEF IInv

LEMMA Keeps_MeasureStart ==
  ASSUME IInv, MeasureStart
  PROVE  IInv'
<1> USE DEF MeasureStart, SetCount, Body, Main, pending, locks
<1>1. InterruptsTypeOK'
  <2>1. kept' \in [lvt : Lvt, divide : get_divisors \union {0}, hpet : BOOLEAN]
    BY DEF IInv, InterruptsTypeOK
  <2> QED
    BY SMTT(30), <2>1, CountAssumption DEF IInv, InterruptsTypeOK, InCell, get_divisors
<1>2. MainLocks' /\ HandlerLocks' /\ TickHasHandler'
  BY BodyKeepsLocks DEF MeasureStart, InCell
<1>3. TimerOff'
  BY DEF IInv, InterruptsTypeOK, TimerOff, NoVector, Unregistered
<1> QED
  BY <1>1, <1>2, <1>3 DEF IInv

LEMMA Keeps_MeasureEnd ==
  ASSUME IInv, MeasureEnd
  PROVE  IInv'
<1> USE DEF MeasureEnd, Body, Main, pending, locks
<1>1. InterruptsTypeOK'
  BY DEF IInv, InterruptsTypeOK, Lvt, InCell
<1>2. MainLocks' /\ HandlerLocks' /\ TickHasHandler'
  BY BodyKeepsLocks DEF MeasureEnd, InCell
<1>3. TimerOff'
  BY SMTT(30) DEF IInv, InterruptsTypeOK, Lvt, TimerOff, NoVector, Unregistered
<1> QED
  BY <1>1, <1>2, <1>3 DEF IInv

LEMMA Keeps_set_irq_number ==
  ASSUME IInv, set_irq_number
  PROVE  IInv'
<1> USE DEF set_irq_number, Body, Main, pending, locks
<1>1. InterruptsTypeOK'
  BY DEF IInv, InterruptsTypeOK, Lvt, InCell
<1>2. MainLocks' /\ HandlerLocks' /\ TickHasHandler'
  <2>1. PICK to \in {"return", "aborted"} : Body("number", to)
    BY DEF set_irq_number
  <2> QED
    BY <2>1, BodyKeepsLocks DEF InCell
<1>3. TimerOff'
  BY DEF IInv, InterruptsTypeOK, Lvt, TimerOff, NoVector, Unregistered
<1> QED
  BY <1>1, <1>2, <1>3 DEF IInv

LEMMA Keeps_set_divisor ==
  ASSUME IInv, set_divisor
  PROVE  IInv'
<1> USE DEF set_divisor, Body, Main, pending, locks
<1>1. InterruptsTypeOK'
  BY SMTT(30) DEF IInv, InterruptsTypeOK, InCell, get_divisors
<1>2. MainLocks' /\ HandlerLocks' /\ TickHasHandler'
  BY BodyKeepsLocks DEF set_divisor, InCell
<1>3. TimerOff'
  BY DEF IInv, InterruptsTypeOK, TimerOff, NoVector, Unregistered
<1> QED
  BY <1>1, <1>2, <1>3 DEF IInv

LEMMA Keeps_StartMode ==
  ASSUME IInv, StartMode
  PROVE  IInv'
<1> USE DEF StartMode, Body, Main, pending, locks
<1>1. InterruptsTypeOK'
  <2>1. lvt' \in Lvt
    BY DEF IInv, InterruptsTypeOK, Lvt
  <2> QED
    BY <2>1 DEF IInv, InterruptsTypeOK, InCell
<1>2. MainLocks' /\ HandlerLocks' /\ TickHasHandler'
  <2>1. PICK mode \in {"Periodic", "OneShot"} : Body(mode, "ticks")
    BY DEF StartMode
  <2> QED
    BY <2>1, BodyKeepsLocks DEF InCell
<1>3. TimerOff'
  BY DEF IInv, InterruptsTypeOK, Lvt, TimerOff, NoVector, Unregistered
<1> QED
  BY <1>1, <1>2, <1>3 DEF IInv

LEMMA Keeps_StartCount ==
  ASSUME IInv, StartCount
  PROVE  IInv'
<1> USE DEF StartCount, SetCount, Body, Main, pending, locks
<1>1. InterruptsTypeOK'
  BY SMTT(30), CountAssumption DEF IInv, InterruptsTypeOK, InCell, Outside
<1>2. MainLocks' /\ HandlerLocks' /\ TickHasHandler'
  BY BodyKeepsLocks DEF StartCount, InCell
<1>3. TimerOff'
  BY DEF IInv, InterruptsTypeOK, TimerOff, NoVector, Unregistered
<1> QED
  BY <1>1, <1>2, <1>3 DEF IInv

LEMMA Keeps_stop_periodic ==
  ASSUME IInv, stop_periodic
  PROVE  IInv'
<1> USE DEF stop_periodic, SetCount, Body, Main, pending, locks
<1>1. InterruptsTypeOK'
  BY SMTT(30), CountAssumption DEF IInv, InterruptsTypeOK, InCell
<1>2. MainLocks' /\ HandlerLocks' /\ TickHasHandler'
  BY BodyKeepsLocks DEF stop_periodic, InCell
<1>3. TimerOff'
  BY DEF IInv, InterruptsTypeOK, TimerOff, NoVector, Unregistered
<1> QED
  BY <1>1, <1>2, <1>3 DEF IInv

LEMMA Keeps_BootPanics ==
  ASSUME IInv, BootPanics
  PROVE  IInv'
<1> USE DEF BootPanics, Main, Proceed, apic, pending, locks
<1>1. InterruptsTypeOK'
  BY DEF IInv, InterruptsTypeOK, Outside
<1>2. MainLocks' /\ HandlerLocks' /\ TickHasHandler'
  BY DEF IInv, MainLocks, HandlerLocks, TickHasHandler, InCell, Outside
<1>3. TimerOff'
  BY DEF IInv, InterruptsTypeOK, TimerOff, NoVector, Unregistered
<1> QED
  BY <1>1, <1>2, <1>3 DEF IInv

(* kmain's own order, as the pairs of places its calls lead between. *)
LEMMA Keeps_Call ==
  ASSUME NEW from, NEW call, NEW to, IInv, Call(from, call, to),
         from \in Outside, to \in Outside,
         call \in {"measure", "number", "divisor", "Periodic", "OneShot", "stop"},
         \/ from = "calibrate" /\ call = "measure" /\ to = "vector"
         \/ from = "vector" /\ call = "number" /\ to = "divide"
         \/ from \in {"divide", "start", "booted", "calls"} /\ to \in {"start", "booted", "calls"}
  PROVE  IInv'
<1> USE DEF Call, Main, Taken, apic, pending, locks
<1>1. InterruptsTypeOK'
  <2>1. cell' \in LockState /\ flag' \in BOOLEAN
    BY DEF IInv, InterruptsTypeOK, LockState
  <2>2. kmain' \in InCell /\ then' \in Outside
    BY DEF InCell
  <2> QED
    BY <2>1, <2>2 DEF IInv, InterruptsTypeOK
<1>2. MainLocks' /\ HandlerLocks'
  BY DEF IInv, InterruptsTypeOK, LockState, InCell, Outside, MainLocks, HandlerLocks
<1>3. TimerOff'
  BY DEF IInv, InterruptsTypeOK, TimerOff, NoVector, Unregistered, Outside, InCell
<1>4. TickHasHandler'
  BY DEF IInv, TickHasHandler
<1> QED
  BY <1>1, <1>2, <1>3, <1>4 DEF IInv

LEMMA Keeps_RegisterLock ==
  ASSUME NEW from, NEW to, IInv, RegisterLock(from, to),
         \/ from = "register" /\ to = "calibrate"
         \/ from \in {"booted", "calls"} /\ to = "calls"
  PROVE  IInv'
<1> USE DEF RegisterLock, Main, Taken, apic, pending, locks
<1>1. InterruptsTypeOK'
  <2>1. table' \in LockState /\ flag' \in BOOLEAN
    BY DEF IInv, InterruptsTypeOK, LockState
  <2>2. kmain' = "insert" /\ then' \in Outside
    BY DEF Outside
  <2> QED
    BY <2>1, <2>2 DEF IInv, InterruptsTypeOK
<1>2. MainLocks' /\ HandlerLocks'
  BY DEF IInv, InterruptsTypeOK, LockState, InCell, Outside, MainLocks, HandlerLocks
<1>3. TimerOff'
  BY DEF IInv, InterruptsTypeOK, TimerOff, NoVector, Unregistered, Outside, InCell
<1>4. TickHasHandler'
  BY DEF IInv, TickHasHandler
<1> QED
  BY <1>1, <1>2, <1>3, <1>4 DEF IInv

(* The timer requests its vector only when it has been set, and has a handler. *)
LEMMA Keeps_Count ==
  ASSUME IInv, Count
  PROVE  IInv'
<1> USE DEF Count, locks
<1>1. count' \in [initial : 0 .. MaxCount, current : 0 .. MaxCount]
  BY SMTT(30), CountAssumption DEF IInv, InterruptsTypeOK
<1>2. ~ lvt.masked => lvt.vector = Vector /\ Vector \in handlers
  BY SMTT(30) DEF IInv, InterruptsTypeOK, TimerOff
<1>3. irr' \subseteq irr \union {Vector} /\ irr' \subseteq handlers
  BY <1>2 DEF IInv, TickHasHandler
<1>4. InterruptsTypeOK'
  BY <1>1, <1>3 DEF IInv, InterruptsTypeOK
<1>5. MainLocks' /\ HandlerLocks'
  BY DEF IInv, MainLocks, HandlerLocks
<1>6. TimerOff'
  BY SMTT(30) DEF IInv, InterruptsTypeOK, TimerOff, NoVector, Unregistered
<1>7. TickHasHandler'
  BY <1>3 DEF IInv, TickHasHandler
<1> QED
  BY <1>4, <1>5, <1>6, <1>7 DEF IInv

(* An interrupt is taken only with the flag set: then nothing is on the    *)
(* stack and kmain is between its calls.                                   *)
LEMMA Keeps_Enter ==
  ASSUME NEW v \in {0, Vector, 39, 255}, NEW at \in {"lock", "iret"},
         IInv, Enter(v, at), TickHasHandler', irr' \subseteq {0, Vector}, isr' \subseteq {0, Vector},
         UNCHANGED <<apic, handlers, locks, kmain, then, kept>>
  PROVE  IInv'
<1> DEFINE f == [vector |-> v, at |-> at, saved |-> flag]
<1>1. stack = <<>> /\ flag /\ kmain \in Outside /\ ~ cell.held /\ ~ table.held
  BY DEF Enter, IInv, MainLocks, HandlerLocks, InCell, Outside
<1>2. f \in Frame /\ f.at = at /\ (f.saved <=> flag)
  BY DEF IInv, InterruptsTypeOK, Frame
<1>3. stack' = <<f>> \o <<>> /\ flag' = FALSE
  BY <1>1 DEF Enter
<1> HIDE DEF f
<1>4. stack' \in Seq(Frame) /\ Len(stack') = 1 /\ stack'[1] = f /\ stack' # <<>>
  BY <1>2, <1>3, PushFrame
<1>5. InterruptsTypeOK'
  <2>1. flag' \in BOOLEAN
    BY <1>3
  <2> QED
    BY SMTT(30), <2>1, <1>4 DEF IInv, InterruptsTypeOK, apic, locks
<1>6. MainLocks' /\ HandlerLocks'
  BY <1>1, <1>2, <1>3, <1>4 DEF MainLocks, HandlerLocks, locks
<1>7. TimerOff'
  BY SMTT(30) DEF IInv, TimerOff, NoVector, Unregistered, apic
<1> QED
  BY <1>5, <1>6, <1>7 DEF IInv

LEMMA Keeps_Deliver ==
  ASSUME IInv, Deliver
  PROVE  IInv'
<1>1. PICK v \in irr : Enter(v, "lock") /\ irr' = irr \ {v} /\ isr' = isr \union {v}
  BY DEF Deliver
<1>2. v \in {0, Vector} /\ irr' \subseteq {0, Vector} /\ isr' \subseteq {0, Vector}
  BY <1>1 DEF IInv, InterruptsTypeOK
<1>3. UNCHANGED <<apic, handlers, locks, kmain, then, kept>>
  BY DEF Deliver
<1>4. TickHasHandler'
  BY <1>1, <1>3 DEF IInv, TickHasHandler
<1> QED
  BY <1>1, <1>2, <1>3, <1>4, Keeps_Enter

LEMMA Keeps_Spurious ==
  ASSUME IInv, Spurious
  PROVE  IInv'
<1>1. PICK v \in {39, 255} : Enter(v, "iret")
  BY DEF Spurious
<1>2. UNCHANGED <<pending, apic, handlers, locks, kmain, then, kept>>
  BY DEF Spurious
<1>3. TickHasHandler' /\ irr' \subseteq {0, Vector} /\ isr' \subseteq {0, Vector}
  BY <1>2 DEF IInv, InterruptsTypeOK, TickHasHandler, pending
<1> QED
  BY SMTT(30), <1>1, <1>2, <1>3, Keeps_Enter

(* A handler is alone on the stack, with the flag clear. *)
LEMMA InHandler ==
  ASSUME IInv, NEW at, Handler(at)
  PROVE  /\ stack \in Seq(Frame) /\ Len(stack) = 1
         /\ stack[1].at = at /\ Head(stack) = stack[1] /\ Tail(stack) = <<>>
         /\ stack[1].saved /\ ~ flag /\ kmain \in Outside /\ ~ cell.held
         /\ table.held <=> at \in {"run", "unlock"}
         /\ table.held => ~ table.saved
<1>1. stack \in Seq(Frame) /\ Len(stack) = 1 /\ Head(stack).at = at
  BY DEF Handler, IInv, InterruptsTypeOK, HandlerLocks
<1>2. Head(stack) = stack[1] /\ Tail(stack) = <<>>
  BY <1>1, OneFrame
<1> QED
  BY <1>1, <1>2 DEF Handler, IInv, HandlerLocks

(* What a step within a handler leaves to be shown. *)
LEMMA Keeps_HandlerAt ==
  ASSUME IInv, NEW at, Handler(at), NEW to \in {"run", "unlock", "iret"}, HandlerAt(to),
         table' \in LockState, table.held' <=> to \in {"run", "unlock"},
         table.held' => ~ table.saved', flag' = FALSE,
         isr' \subseteq isr, UNCHANGED <<irr, apic, handlers, cell, kmain, then, kept>>
  PROVE  IInv'
<1>1. /\ stack' \in Seq(Frame) /\ Len(stack') = 1 /\ stack' # <<>>
      /\ stack'[1].at = to /\ stack'[1].saved
  <2>1. stack \in Seq(Frame) /\ Len(stack) = 1 /\ stack[1].saved
    BY InHandler
  <2>2. stack' = [stack EXCEPT ![1].at = to]
    BY DEF HandlerAt
  <2>3. to \in {"lock", "run", "unlock", "iret"}
    OBVIOUS
  <2>4. /\ stack' \in Seq(Frame) /\ Len(stack') = 1 /\ stack' # <<>>
        /\ stack'[1].at = to /\ stack'[1].saved = stack[1].saved
    BY ONLY <2>1, <2>2, <2>3, ChangeFrame, Zenon
  <2> QED
    BY <2>1, <2>4
<1>2. kmain \in Outside /\ ~ cell.held
  BY InHandler
<1>3. InterruptsTypeOK'
  BY <1>1 DEF IInv, InterruptsTypeOK, apic
<1>4. MainLocks' /\ HandlerLocks'
  BY <1>1, <1>2 DEF MainLocks, HandlerLocks
<1>5. TimerOff'
  BY DEF IInv, TimerOff, NoVector, Unregistered, apic
<1>6. TickHasHandler'
  BY DEF IInv, TickHasHandler
<1> QED
  BY <1>3, <1>4, <1>5, <1>6 DEF IInv

LEMMA Keeps_HandlerStep ==
  ASSUME IInv, HandlerStep
  PROVE  IInv'
<1>1. CASE HandlerLock
  <2> DEFINE to == IF Head(stack).vector \in handlers THEN "run" ELSE "unlock"
  <2>1. Handler("lock") /\ HandlerAt(to) /\ to \in {"run", "unlock"}
    BY <1>1 DEF HandlerLock
  <2> HIDE DEF to
  <2>2. ~ flag /\ flag \in BOOLEAN
    BY <2>1, InHandler DEF IInv, InterruptsTypeOK
  <2>3. table' \in LockState /\ table.held' /\ ~ table.saved' /\ flag' = FALSE
    BY <1>1, <2>2 DEF HandlerLock, Taken, LockState
  <2>4. isr' = isr /\ UNCHANGED <<irr, apic, handlers, cell, kmain, then, kept>>
    BY <1>1 DEF HandlerLock, pending
  <2> QED
    BY <2>1, <2>3, <2>4, Keeps_HandlerAt
<1>2. CASE HandlerRun
  <2>1. Handler("run") /\ HandlerAt("unlock")
    BY <1>2 DEF HandlerRun
  <2>2. table.held /\ ~ table.saved /\ table \in LockState /\ ~ flag /\ flag \in BOOLEAN
    BY <2>1, InHandler DEF IInv, InterruptsTypeOK
  <2>3. isr' \subseteq isr /\ table' = table /\ flag' = flag
    BY <1>2 DEF HandlerRun, locks
  <2>4. UNCHANGED <<irr, apic, handlers, cell, kmain, then, kept>>
    BY <1>2 DEF HandlerRun, locks
  <2> QED
    BY <2>1, <2>2, <2>3, <2>4, Keeps_HandlerAt
<1>3. CASE HandlerUnlock
  <2>1. Handler("unlock") /\ HandlerAt("iret")
    BY <1>3 DEF HandlerUnlock
  <2>2. ~ table.saved /\ table \in LockState /\ ~ flag /\ flag \in BOOLEAN
    BY <2>1, InHandler DEF IInv, InterruptsTypeOK
  <2>3. flag' = FALSE
    BY <1>3, <2>2 DEF HandlerUnlock, LockState
  <2>4. table' \in LockState /\ ~ table.held' /\ isr' = isr
    BY <1>3 DEF HandlerUnlock, Free, LockState, pending
  <2>5. UNCHANGED <<irr, apic, handlers, cell, kmain, then, kept>>
    BY <1>3 DEF HandlerUnlock, pending
  <2> QED
    BY <2>1, <2>3, <2>4, <2>5, Keeps_HandlerAt
<1>4. CASE HandlerReturn
  <2>1. /\ stack[1].saved /\ Head(stack) = stack[1] /\ Tail(stack) = <<>>
        /\ kmain \in Outside /\ ~ cell.held /\ ~ table.held /\ stack[1] \in Frame
    BY <1>4, InHandler, OneFrame DEF HandlerReturn
  <2>2. stack' = <<>> /\ flag' /\ flag' \in BOOLEAN
    BY <1>4, <2>1 DEF HandlerReturn, Frame
  <2>3. UNCHANGED <<pending, apic, handlers, locks, kmain, then, kept>>
    BY <1>4 DEF HandlerReturn
  <2>4. InterruptsTypeOK'
    BY <2>2, <2>3, EmptySeq DEF IInv, InterruptsTypeOK, pending, apic, locks
  <2>5. MainLocks' /\ HandlerLocks'
    BY <2>1, <2>2, <2>3 DEF MainLocks, HandlerLocks, locks, InCell, Outside
  <2>6. TimerOff' /\ TickHasHandler'
    BY <2>3 DEF IInv, TimerOff, NoVector, Unregistered, TickHasHandler, apic, pending
  <2> QED
    BY <2>4, <2>5, <2>6 DEF IInv
<1> QED
  BY <1>1, <1>2, <1>3, <1>4 DEF HandlerStep
-----------------------------------------------------------------------------
LEMMA InitIInv == InterruptsInit => IInv
<1> SUFFICES ASSUME InterruptsInit PROVE IInv
  OBVIOUS
<1> USE DEF InterruptsInit
<1>1. InterruptsTypeOK
  <2>1. table \in LockState /\ cell \in LockState
    BY DEF Free, LockState
  <2>2. lvt \in Lvt
    BY DEF Lvt
  <2>3. kept \in [lvt : Lvt, divide : get_divisors \union {0}, hpet : BOOLEAN]
    BY <2>2
  <2>4. count \in [initial : 0 .. MaxCount, current : 0 .. MaxCount]
    BY CountAssumption
  <2>5. stack \in Seq(Frame) /\ kmain \in Outside /\ then \in Outside
    BY EmptySeq DEF Outside
  <2>6. flag \in BOOLEAN /\ hpet \in BOOLEAN
    OBVIOUS
  <2> QED
    BY <2>1, <2>2, <2>3, <2>4, <2>5, <2>6 DEF InterruptsTypeOK
<1>2. MainLocks /\ HandlerLocks
  BY DEF MainLocks, HandlerLocks, Free, InCell, Outside
<1>3. TimerOff /\ TickHasHandler
  BY DEF TimerOff, NoVector, Unregistered, TickHasHandler
<1> QED
  BY <1>1, <1>2, <1>3 DEF IInv

LEMMA NextIInv == IInv /\ [InterruptsNext]_interruptsVars => IInv'
<1> SUFFICES ASSUME IInv, [InterruptsNext]_interruptsVars PROVE IInv'
  OBVIOUS
<1>1. CASE Count
  BY <1>1, Keeps_Count
<1>2. CASE Deliver
  BY <1>2, Keeps_Deliver
<1>3. CASE Spurious
  BY <1>3, Keeps_Spurious
<1>4. CASE HandlerStep
  BY <1>4, Keeps_HandlerStep
<1>5. CASE Boot
  <2>1. CASE RegisterLock("register", "calibrate")
    BY <2>1, Keeps_RegisterLock
  <2>2. CASE Call("calibrate", "measure", "vector")
    BY <2>2, Keeps_Call DEF Outside
  <2>3. CASE Call("vector", "number", "divide")
    BY <2>3, Keeps_Call DEF Outside
  <2>4. CASE Call("divide", "divisor", "start")
    BY <2>4, Keeps_Call DEF Outside
  <2>5. CASE Call("start", "Periodic", "booted")
    BY <2>5, Keeps_Call DEF Outside
  <2>6. CASE BootPanics
    BY <2>6, Keeps_BootPanics
  <2> QED
    BY <1>5, <2>1, <2>2, <2>3, <2>4, <2>5, <2>6 DEF Boot
<1>6. CASE Calls
  <2>1. CASE RegisterLock("booted", "calls") \/ RegisterLock("calls", "calls")
    BY <2>1, Keeps_RegisterLock
  <2>2. ASSUME NEW from \in {"booted", "calls"},
               NEW call \in {"measure", "number", "divisor", "Periodic", "OneShot", "stop"},
               Call(from, call, "calls")
        PROVE  IInv'
    BY <2>2, Keeps_Call DEF Outside
  <2> QED
    BY <1>6, <2>1, <2>2 DEF Calls
<1>7. CASE Work
  BY <1>7, Keeps_ApicInit, Keeps_RegisterInsert, Keeps_Return, Keeps_Measure,
     Keeps_MeasureStart, Keeps_MeasureEnd, Keeps_set_irq_number, Keeps_set_divisor,
     Keeps_StartMode, Keeps_StartCount, Keeps_stop_periodic DEF Work
<1>8. CASE UNCHANGED interruptsVars
  BY SMTT(30), <1>8 DEF interruptsVars, pending, apic, locks, IInv, InterruptsTypeOK, MainLocks, HandlerLocks,
     TimerOff, NoVector, Unregistered, TickHasHandler
<1>9. CASE PanicLoop
  BY <1>8, <1>9 DEF PanicLoop
<1> QED
  BY <1>1, <1>2, <1>3, <1>4, <1>5, <1>6, <1>7, <1>8, <1>9 DEF InterruptsNext

LEMMA IInvImpliesIrqSafe == IInv => IrqSafe
<1> SUFFICES ASSUME IInv PROVE IrqSafe
  OBVIOUS
<1>1. (Handler("lock") => ~ table.held) /\ (Handler("run") => ~ cell.held)
  BY InHandler
<1>2. Len(stack) <= 1
  <2>1. CASE stack = <<>>
    BY <2>1
  <2>2. CASE stack # <<>>
    <3>1. Len(stack) = 1
      BY <2>2, Zenon DEF IInv, HandlerLocks
    <3> QED
      BY <3>1
  <2> QED
    BY <2>1, <2>2
<1>3. ~ cell.held /\ ~ table.held /\ stack = <<>> => flag
  BY DEF IInv, InterruptsTypeOK, MainLocks
<1> QED
  BY <1>1, <1>2, <1>3 DEF IrqSafe

(* The invariant of the interrupted code, the handlers and the timer. *)
THEOREM InterruptsInvariance == InterruptsSpec => []IInv
  BY InitIInv, NextIInv, PTL DEF InterruptsSpec

(* No handler finds IRQ_HANDLES locked or the IrqCell of the APIC borrowed *)
(* by the code it interrupted, and no handler interrupts another.          *)
THEOREM InterruptsAreSafe == InterruptsSpec => []IrqSafe
  BY InterruptsInvariance, IInvImpliesIrqSafe, PTL

(* Every vector that is requested or in service has a handler that will    *)
(* send its EOI.                                                           *)
THEOREM TicksHaveHandlers == InterruptsSpec => []TickHasHandler
<1>1. IInv => TickHasHandler
  BY DEF IInv
<1> QED
  BY <1>1, InterruptsInvariance, PTL

-----------------------------------------------------------------------------
(* Part 2: Executor. *)

(* ExecutorTypeOK in two parts. *)
IdsOK ==
  /\ nextId \in 0 .. MaxTasks
  /\ queue \in Seq(Ids) /\ Len(queue) <= Capacity
  /\ tasks \subseteq Ids /\ wakers \subseteq Ids
  /\ cloned \subseteq Ids /\ due \subseteq Ids
  /\ polling \in Ids \union {Nobody}

FlagsOK ==
  /\ running \in BOOLEAN /\ surplus \in BOOLEAN
  /\ panic \in {"no", "Unable to spawn task", "Unable to wake task",
                "Task does not exist"}

(* What the executor keeps whatever its callers do: a task and its waker   *)
(* come and go together, ids that have not been given out are nowhere, and *)
(* a task that is due is alive and queued.                                 *)
TasksInv ==
  /\ IdsOK
  /\ tasks = wakers
  /\ due \subseteq Queued /\ due \subseteq tasks
  /\ polling # Nobody => polling \in tasks
  /\ tasks \subseteq 0 .. nextId - 1
  /\ cloned \subseteq 0 .. nextId - 1
  /\ Queued \subseteq 0 .. nextId - 1

NoRepeats(q) == \A i, j \in 1 .. Len(q) : q[i] = q[j] => i = j

(* What it keeps as long as only tasks that are asleep are woken. *)
QueueInv ==
  /\ NoRepeats(queue)
  /\ Queued \subseteq tasks \ {polling}
  /\ Capacity >= MaxTasks => panic = "no"

ExecutorInv == FlagsOK /\ TasksInv /\ (~ surplus => QueueInv)

-----------------------------------------------------------------------------
Elements(q) == {q[i] : i \in 1 .. Len(q)}

(* try_push of pending_run. *)
LEMMA TryPush ==
  ASSUME NEW T, NEW q \in Seq(T), NEW x \in T
  PROVE  LET r == Append(q, x)
         IN  /\ r \in Seq(T) /\ Len(r) = Len(q) + 1
             /\ Elements(r) = Elements(q) \union {x}
             /\ NoRepeats(q) /\ x \notin Elements(q) => NoRepeats(r)
<1> DEFINE r == Append(q, x)
<1>1. /\ r \in Seq(T) /\ Len(r) = Len(q) + 1 /\ Len(q) \in Nat
      /\ \A i \in 1 .. Len(q) : r[i] = q[i]
      /\ r[Len(q) + 1] = x
  OBVIOUS
<1> HIDE DEF r
<1>2. Elements(r) \subseteq Elements(q) \union {x}
  BY SMTT(30), <1>1 DEF Elements
<1>3. Elements(q) \union {x} \subseteq Elements(r)
  <2>1. \A i \in 1 .. Len(q) : i \in 1 .. Len(r) /\ r[i] = q[i]
    BY <1>1
  <2>2. Len(q) + 1 \in 1 .. Len(r)
    BY <1>1
  <2> QED BY <1>1, <2>1, <2>2 DEF Elements
<1>4. ASSUME NoRepeats(q), x \notin Elements(q) PROVE NoRepeats(r)
  <2> SUFFICES ASSUME NEW i \in 1 .. Len(r), NEW j \in 1 .. Len(r), r[i] = r[j]
               PROVE  i = j
    BY DEF NoRepeats
  <2>1. \A k \in 1 .. Len(q) : r[k] # x
    BY <1>1, <1>4 DEF Elements
  <2> QED BY SMTT(30), <1>1, <1>4, <2>1 DEF NoRepeats
<1> QED BY <1>1, <1>2, <1>3, <1>4 DEF r

(* pop of pending_run. *)
LEMMA PopQueue ==
  ASSUME NEW T, NEW q \in Seq(T), q # <<>>
  PROVE  LET r == Tail(q)
         IN  /\ Head(q) \in T
             /\ r \in Seq(T) /\ Len(r) <= Len(q)
             /\ Elements(q) = Elements(r) \union {Head(q)}
             /\ NoRepeats(q) => NoRepeats(r) /\ Head(q) \notin Elements(r)
<1> DEFINE r == Tail(q)
<1>1. /\ Head(q) = q[1] /\ Head(q) \in T /\ r \in Seq(T)
      /\ Len(q) \in Nat /\ Len(q) >= 1 /\ Len(r) = Len(q) - 1
      /\ \A i \in 1 .. Len(r) : r[i] = q[i + 1]
  BY SMTT(30), HeadTailProperties, EmptySeq
<1> HIDE DEF r
<1>2. Elements(r) \union {Head(q)} \subseteq Elements(q)
  <2>1. \A i \in 1 .. Len(r) : i + 1 \in 1 .. Len(q) /\ r[i] = q[i + 1]
    BY <1>1
  <2>2. 1 \in 1 .. Len(q)
    BY <1>1
  <2> QED BY SMTT(30), <1>1, <2>1, <2>2 DEF Elements
<1>3. Elements(q) \subseteq Elements(r) \union {Head(q)}
  <2>1. \A i \in 1 .. Len(q) : i = 1 \/ (i - 1 \in 1 .. Len(r) /\ r[i - 1] = q[i])
    BY SMTT(30), <1>1
  <2> QED BY SMTT(30), <1>1, <2>1 DEF Elements
<1>4. ASSUME NoRepeats(q) PROVE NoRepeats(r) /\ Head(q) \notin Elements(r)
  BY SMTT(30), <1>1, <1>4 DEF NoRepeats, Elements
<1> QED BY <1>1, <1>2, <1>3, <1>4 DEF r

(* A queue without repetitions that misses a task has room for it. *)
LEMMA Room ==
  ASSUME NEW q \in Seq(Ids), NoRepeats(q), NEW x \in Ids, x \notin Elements(q)
  PROVE  Len(q) < MaxTasks
<1> DEFINE S == 1 .. Len(q)
           T == Ids \ {x}
<1>1. Len(q) \in Nat /\ q \in [S -> Ids] /\ MaxTasks \in Nat \ {0}
  BY BoundsAssumption
<1>2. IsFiniteSet(S) /\ Cardinality(S) = Len(q)
  BY <1>1, FS_Interval
<1>3. IsFiniteSet(Ids) /\ Cardinality(Ids) = MaxTasks
  <2>1. 0 \in Int /\ MaxTasks - 1 \in Int
    BY <1>1
  <2>2. IsFiniteSet(Ids) /\ Cardinality(Ids) = IF 0 > MaxTasks - 1 THEN 0 ELSE MaxTasks - 1 - 0 + 1
    BY <2>1, FS_Interval DEF Ids
  <2> QED BY <1>1, <2>2
<1>4. IsFiniteSet(T) /\ Cardinality(T) = MaxTasks - 1
  <2>1. IsFiniteSet(T) /\ Cardinality(T) = IF x \in Ids THEN Cardinality(Ids) - 1 ELSE Cardinality(Ids)
    BY ONLY <1>3, FS_RemoveElement, Zenon
  <2> QED BY <1>3, <2>1
<1>5. q \in [S -> T]
  BY <1>1 DEF Elements
<1>6. ASSUME ~ (Len(q) < MaxTasks) PROVE FALSE
  <2>1. Cardinality(T) < Cardinality(S)
    BY <1>1, <1>2, <1>4, <1>6
  <2>2. \E i, j \in S : i # j /\ q[i] = q[j]
    BY <1>2, <1>4, <1>5, <2>1, FS_PigeonHole
  <2> QED BY <2>2 DEF NoRepeats
<1> QED BY <1>6
-----------------------------------------------------------------------------
LEMMA ExecutorStart == ExecutorInit => ExecutorInv
<1> SUFFICES ASSUME ExecutorInit PROVE ExecutorInv
  OBVIOUS
<1>1. queue = <<>> /\ Len(queue) = 0 /\ Queued = {}
  BY DEF ExecutorInit, Queued
<1>2. IdsOK
  BY <1>1, BoundsAssumption DEF ExecutorInit, IdsOK, Ids, Nobody
<1>3. FlagsOK
  BY DEF ExecutorInit, FlagsOK
<1> QED
  BY SMTT(30), <1>1, <1>2, <1>3 DEF ExecutorInit, ExecutorInv, TasksInv, QueueInv, NoRepeats

LEMMA SpawnStep == ExecutorInv /\ Spawn => ExecutorInv'
<1> SUFFICES ASSUME ExecutorInv, Spawn PROVE ExecutorInv'
  OBVIOUS
<1> USE BoundsAssumption
<1>1. TasksInv /\ IdsOK /\ Queued = Elements(queue) /\ Queued' = Elements(queue')
  BY DEF ExecutorInv, TasksInv, Queued, Elements
<1>2. nextId \in Ids /\ nextId' = nextId + 1
  BY DEF Spawn
<1>3. /\ nextId \in Ids /\ nextId \in Nat
      /\ nextId' = nextId + 1 /\ nextId' \in 0 .. MaxTasks
      /\ 0 .. nextId - 1 \subseteq 0 .. nextId' - 1
  BY <1>2 DEF Ids
<1>4. nextId \notin Elements(queue) /\ nextId \notin tasks
  BY <1>1, <1>3 DEF TasksInv
<1>5. CASE Len(queue) = Capacity
  <2>1. /\ UNCHANGED <<queue, tasks, wakers, due, cloned, polling, running, surplus>>
        /\ panic' = "Unable to spawn task"
    BY <1>5 DEF Spawn
  <2>2. TasksInv'
    <3>1. IdsOK'
      BY <1>1, <1>3, <2>1 DEF IdsOK
    <3>2. Queued' = Queued
      BY <1>1, <2>1
    <3> QED BY <1>1, <1>3, <2>1, <3>1, <3>2 DEF TasksInv
  <2>3. ASSUME ~ surplus', Capacity >= MaxTasks PROVE FALSE
    <3>1. NoRepeats(queue)
      BY <2>1, <2>3 DEF ExecutorInv, QueueInv
    <3>2. Len(queue) < MaxTasks
      BY <1>1, <1>3, <1>4, <3>1, Room DEF IdsOK
    <3> QED BY <1>5, <2>3, <3>2
  <2>4. ~ surplus' => QueueInv'
    BY <2>1, <2>3 DEF ExecutorInv, QueueInv, Queued
  <2>5. FlagsOK'
    BY <2>1 DEF ExecutorInv, FlagsOK
  <2> QED BY <2>2, <2>4, <2>5 DEF ExecutorInv
<1>6. CASE Len(queue) # Capacity
  <2>1. /\ UNCHANGED <<cloned, polling, running, surplus, panic>>
        /\ queue' = Append(queue, nextId)
        /\ tasks' = tasks \union {nextId} /\ wakers' = wakers \union {nextId}
        /\ due' = due \union {nextId}
    BY <1>6 DEF Spawn
  <2>2. /\ queue' \in Seq(Ids) /\ Len(queue') = Len(queue) + 1
        /\ Queued' = Queued \union {nextId}
        /\ NoRepeats(queue) => NoRepeats(queue')
    BY SMTT(30), <1>1, <1>3, <1>4, <2>1, TryPush DEF IdsOK
  <2>3. TasksInv'
    <3>1. Len(queue) \in Nat /\ Len(queue') <= Capacity
      BY SMTT(30), <1>1, <1>6, <2>2 DEF IdsOK
    <3>2. IdsOK'
      BY <1>1, <1>3, <2>1, <2>2, <3>1 DEF IdsOK, Ids
    <3> QED BY SMTT(30), <1>1, <1>3, <2>1, <2>2, <3>2 DEF TasksInv
  <2>4. polling # nextId
    BY <1>1, <1>3, <1>4 DEF TasksInv, Ids, Nobody
  <2>5. ~ surplus' => QueueInv'
    BY <2>1, <2>2, <2>4 DEF ExecutorInv, QueueInv
  <2>6. FlagsOK'
    BY <2>1 DEF ExecutorInv, FlagsOK
  <2> QED BY <2>3, <2>5, <2>6 DEF ExecutorInv
<1> QED BY <1>5, <1>6

LEMMA PopStep == ExecutorInv /\ Pop => ExecutorInv'
<1> SUFFICES ASSUME ExecutorInv, Pop PROVE ExecutorInv'
  OBVIOUS
<1> USE BoundsAssumption
<1>1. TasksInv /\ IdsOK /\ Queued = Elements(queue) /\ Queued' = Elements(queue')
  BY DEF ExecutorInv, TasksInv, Queued, Elements
<1> DEFINE id == Head(queue)
<1>2. /\ queue # <<>> /\ queue' = Tail(queue) /\ polling = Nobody
      /\ UNCHANGED <<nextId, tasks, wakers, cloned, running, surplus>>
  BY DEF Pop
<1>3. /\ id \in Ids
      /\ queue' \in Seq(Ids) /\ Len(queue') <= Len(queue)
      /\ Queued = Queued' \union {id}
      /\ NoRepeats(queue) => NoRepeats(queue') /\ id \notin Queued'
  BY <1>1, <1>2, PopQueue DEF IdsOK
<1>4. Len(queue') <= Capacity
  BY SMTT(30), <1>1, <1>3 DEF IdsOK
<1> HIDE DEF id
<1>5. CASE id \in tasks
  <2>1. polling' = id /\ due' = due \ {id} /\ UNCHANGED panic
    BY <1>1, <1>5 DEF Pop, TasksInv, id
  <2>2. IdsOK'
    BY <1>1, <1>2, <1>3, <1>4, <2>1 DEF IdsOK
  <2>3. TasksInv'
    BY <1>1, <1>2, <1>3, <1>5, <2>1, <2>2 DEF TasksInv
  <2>4. ~ surplus' => QueueInv'
    BY <1>2, <1>3, <2>1 DEF ExecutorInv, QueueInv
  <2>5. FlagsOK'
    BY <1>2, <2>1 DEF ExecutorInv, FlagsOK
  <2> QED BY <2>3, <2>4, <2>5 DEF ExecutorInv
<1>6. CASE id \notin tasks
  <2>1. panic' = "Task does not exist" /\ UNCHANGED <<polling, due>>
    BY <1>6 DEF Pop, id
  <2>2. IdsOK'
    BY <1>1, <1>2, <1>3, <1>4, <2>1 DEF IdsOK
  <2>3. TasksInv'
    BY <1>1, <1>2, <1>3, <1>6, <2>1, <2>2 DEF TasksInv
  <2>4. surplus
    BY <1>3, <1>6 DEF ExecutorInv, QueueInv
  <2>5. FlagsOK'
    BY <1>2, <2>1 DEF ExecutorInv, FlagsOK
  <2> QED BY <1>2, <2>3, <2>4, <2>5 DEF ExecutorInv
<1> QED BY <1>5, <1>6

LEMMA PollStep ==
  ExecutorInv /\ (CloneWaker \/ PollReady \/ PollPending) => ExecutorInv'
<1> SUFFICES ASSUME ExecutorInv, CloneWaker \/ PollReady \/ PollPending
             PROVE  ExecutorInv'
  OBVIOUS
<1>1. TasksInv /\ IdsOK
  BY DEF ExecutorInv, TasksInv
<1>2. polling # Nobody /\ polling \in tasks /\ polling \in Ids
  BY <1>1 DEF CloneWaker, PollReady, PollPending, TasksInv, IdsOK
<1>3. UNCHANGED <<nextId, queue, running, surplus, panic>> /\ Queued' = Queued
  BY DEF CloneWaker, PollReady, PollPending, Queued
<1>4. FlagsOK'
  BY <1>3 DEF ExecutorInv, FlagsOK
<1>5. Nobody \notin Queued
  BY <1>1, BoundsAssumption DEF TasksInv, Nobody, IdsOK, Ids
<1>6. CASE CloneWaker
  <2>1. /\ UNCHANGED <<tasks, wakers, polling, due>>
        /\ cloned' = cloned \union {polling}
    BY <1>6 DEF CloneWaker
  <2>2. IdsOK'
    BY <1>1, <1>2, <1>3, <2>1 DEF IdsOK
  <2> QED BY <1>1, <1>2, <1>3, <2>1, <1>4, <2>2 DEF ExecutorInv, TasksInv, QueueInv
<1>7. CASE PollReady
  <2>1. /\ tasks' = tasks \ {polling} /\ wakers' = wakers \ {polling}
        /\ due' = due \ {polling} /\ polling' = Nobody /\ UNCHANGED cloned
    BY <1>7 DEF PollReady
  <2>2. IdsOK'
    BY <1>1, <1>2, <1>3, <2>1 DEF IdsOK
  <2> QED BY <1>1, <1>2, <1>3, <1>5, <2>1, <1>4, <2>2 DEF ExecutorInv, TasksInv, QueueInv
<1>8. CASE PollPending
  <2>1. polling' = Nobody /\ UNCHANGED <<tasks, wakers, due, cloned>>
    BY <1>8 DEF PollPending
  <2>2. IdsOK'
    BY <1>1, <1>2, <1>3, <2>1 DEF IdsOK
  <2> QED BY <1>1, <1>2, <1>3, <1>5, <2>1, <1>4, <2>2 DEF ExecutorInv, TasksInv, QueueInv
<1> QED BY <1>6, <1>7, <1>8

LEMMA WakeStep ==
  ASSUME ExecutorInv, NEW id \in Ids, Wake(id)
  PROVE  ExecutorInv'
<1> USE BoundsAssumption
<1>1. TasksInv /\ IdsOK /\ Queued = Elements(queue) /\ Queued' = Elements(queue')
  BY DEF ExecutorInv, TasksInv, Queued, Elements
<1>2. /\ id \in cloned
      /\ surplus' = (surplus \/ ~ Asleep(id))
      /\ UNCHANGED <<nextId, tasks, wakers, cloned, polling, running>>
  BY DEF Wake
<1>3. ~ surplus' => /\ ~ surplus /\ QueueInv
                    /\ id \in tasks /\ id \notin Queued /\ id # polling
  BY <1>2 DEF ExecutorInv, Asleep
<1>4. CASE Len(queue) = Capacity
  <2>1. panic' = "Unable to wake task" /\ UNCHANGED <<queue, due>>
    BY <1>4 DEF Wake
  <2>2. TasksInv'
    <3>1. IdsOK'
      BY <1>1, <1>2, <2>1 DEF IdsOK
    <3>2. Queued' = Queued
      BY <1>1, <2>1
    <3> QED BY <1>1, <1>2, <2>1, <3>1, <3>2 DEF TasksInv
  <2>3. ASSUME ~ surplus', Capacity >= MaxTasks PROVE FALSE
    <3>1. NoRepeats(queue) /\ id \notin Elements(queue)
      BY <1>1, <1>3, <2>3 DEF QueueInv
    <3>2. Len(queue) < MaxTasks
      BY <1>1, <3>1, Room DEF IdsOK
    <3> QED BY <1>4, <2>3, <3>2
  <2>4. ~ surplus' => QueueInv'
    BY <1>1, <1>2, <1>3, <2>1, <2>3 DEF QueueInv
  <2>5. FlagsOK'
    BY <1>2, <2>1 DEF ExecutorInv, FlagsOK
  <2> QED BY <2>2, <2>4, <2>5 DEF ExecutorInv
<1>5. CASE Len(queue) # Capacity
  <2>1. /\ queue' = Append(queue, id)
        /\ due' = due \union ({id} \intersect tasks)
        /\ UNCHANGED panic
    BY <1>5 DEF Wake
  <2>2. /\ queue' \in Seq(Ids) /\ Len(queue') = Len(queue) + 1
        /\ Queued' = Queued \union {id}
        /\ NoRepeats(queue) /\ id \notin Queued => NoRepeats(queue')
    BY <1>1, <2>1, TryPush DEF IdsOK
  <2>3. TasksInv'
    <3>1. Len(queue) \in Nat /\ Len(queue') <= Capacity
      BY SMTT(30), <1>1, <1>5, <2>2 DEF IdsOK
    <3>2. IdsOK'
      BY <1>1, <1>2, <2>1, <2>2, <3>1 DEF IdsOK
    <3> QED BY <1>1, <1>2, <2>1, <2>2, <3>2 DEF TasksInv
  <2>4. ~ surplus' => QueueInv'
    BY <1>2, <1>3, <2>1, <2>2 DEF QueueInv
  <2>5. FlagsOK'
    BY <1>2, <2>1 DEF ExecutorInv, FlagsOK
  <2> QED BY <2>3, <2>4, <2>5 DEF ExecutorInv
<1> QED BY <1>4, <1>5

LEMMA ExecutorStep == ExecutorInv /\ [ExecutorNext]_executorVars => ExecutorInv'
<1> SUFFICES ASSUME ExecutorInv, [ExecutorNext]_executorVars PROVE ExecutorInv'
  OBVIOUS
<1>1. CASE Run \/ UNCHANGED executorVars
  <2>1. /\ UNCHANGED <<nextId, queue, tasks, wakers, cloned, polling, due, surplus, panic>>
        /\ running' \in BOOLEAN /\ Queued' = Queued
    BY <1>1 DEF Run, executorVars, Queued, ExecutorInv, FlagsOK
  <2> QED BY <2>1 DEF ExecutorInv, TasksInv, QueueInv, IdsOK, FlagsOK
<1>2. CASE Spawn
  BY <1>2, SpawnStep
<1>3. CASE Pop
  BY <1>3, PopStep
<1>4. CASE CloneWaker \/ PollReady \/ PollPending
  BY <1>4, PollStep
<1>5. CASE \E id \in Ids : Wake(id)
  BY <1>5, WakeStep
<1> QED BY <1>1, <1>2, <1>3, <1>4, <1>5 DEF ExecutorNext

(* The invariant of the executor. *)
THEOREM ExecutorInvariance == ExecutorSpec => []ExecutorInv
  BY ExecutorStart, ExecutorStep, PTL DEF ExecutorSpec

(* No wake is lost: whenever and however often wakers are called, a live   *)
(* task that was woken and not polled since is in pending_run.             *)
THEOREM WakesAreQueued == ExecutorSpec => []DueIsQueued
<1>1. ExecutorInv => DueIsQueued
  <2>1. FlagsOK /\ IdsOK => ExecutorTypeOK
    BY Zenon DEF FlagsOK, IdsOK, ExecutorTypeOK
  <2> QED BY <2>1 DEF ExecutorInv, TasksInv, DueIsQueued
<1> QED BY <1>1, ExecutorInvariance, PTL

(* With room for every task, and tasks woken only while they are asleep,   *)
(* none of the executor's expects fails.                                   *)
THEOREM ExecutorNeverPanics == ExecutorSpec => []NoPanic
<1>1. ExecutorInv => NoPanic
  BY DEF ExecutorInv, QueueInv, NoPanic
<1> QED BY <1>1, ExecutorInvariance, PTL
-----------------------------------------------------------------------------
(* Part 3: OnceCells. *)

(* A OnceLock: whoever got past the exchange is alone until it publishes,  *)
(* and whoever has a value has the one that was published.                 *)
OnceInv ==
  /\ TypeOK
  /\ \A t \in Threads : pc[t] \in {"init", "complete"} => state = "Running"
  /\ \A s, t \in Threads :
       pc[s] \in {"init", "complete"} /\ pc[t] \in {"init", "complete"} => s = t
  /\ \A t \in Threads : pc[t] = "complete" => data = t
  /\ \A t \in Threads : pc[t] = "deref" => state = "Called"
  /\ state = "Called" => data \in Threads
  /\ \A t \in Threads : got[t] = None \/ (got[t] = data /\ state = "Called")

(* A BootstrapOnceLock: there is one writer, none before the first and     *)
(* after the last state; and whoever may look comes after the first write. *)
Writing == Bootstrap!Writing

BootInv ==
  /\ Bootstrap!TypeOK
  /\ \A s, t \in Threads : pc[s] \in Writing /\ pc[t] \in Writing => s = t
  /\ \A t \in Threads : pc[t] \in Writing => state \in {"Saving", "Running"}
  /\ \A t \in Threads : pc[t] = "saved2" => data = "true"
  /\ \A t \in Threads : pc[t] \in {"saved", "f", "save2", "saved2", "deref"} => data # "uninit"
  /\ state \in {"Running", "Init"} => data # "uninit"
  /\ state = "Init" => data = "true"
  /\ \A t \in Threads : got[t] # "uninit"

CellInv ==
  \/ kind = "OnceLock" /\ OnceInv
  \/ kind = "BootstrapOnceLock" /\ BootInv
-----------------------------------------------------------------------------
LEMMA OnceInitInv == Init => OnceInv
  BY UninitAssumption DEF Init, OnceInv, TypeOK, States, None

(* Every step of a caller of a OnceLock. *)
LEMMA OnceNextInv ==
  ASSUME OnceInv, Next
  PROVE  OnceInv'
<1>1. PICK t \in Threads : GetOrInit(t) \/ Get(t) \/ Step(t)
  BY DEF Next
<1> USE UninitAssumption DEF OnceInv, TypeOK, States, None, Goto
<1>2. CASE GetOrInit(t)
  BY <1>2 DEF GetOrInit
<1>3. CASE Get(t)
  BY <1>3 DEF Get
<1>4. CASE CallOnce(t)
  BY SMTT(30), <1>4 DEF CallOnce
<1>5. CASE RunInit(t)
  BY <1>5 DEF RunInit
<1>6. CASE InitPanics(t)
  BY <1>6 DEF InitPanics
<1>7. CASE Complete(t)
  BY <1>7 DEF Complete
<1>8. CASE DerefData(t)
  BY <1>8 DEF DerefData
<1>9. CASE CatchUnwind(t)
  BY <1>9 DEF CatchUnwind
<1> QED
  BY <1>1, <1>2, <1>3, <1>4, <1>5, <1>6, <1>7, <1>8, <1>9 DEF Step

LEMMA BootInitInv == Bootstrap!Init => BootInv
  BY DEF Bootstrap!Init, BootInv, Bootstrap!TypeOK, Bootstrap!States,
         Bootstrap!Contents, Writing, Bootstrap!Writing

(* Every step of a caller of a BootstrapOnceLock. *)
LEMMA BootNextInv ==
  ASSUME BootInv, Bootstrap!Next
  PROVE  BootInv'
<1>1. PICK t \in Threads : Bootstrap!Get(t) \/ Bootstrap!Bootstrap(t) \/ Bootstrap!Step(t)
  BY DEF Bootstrap!Next
<1> USE DEF BootInv, Bootstrap!TypeOK, Bootstrap!States, Bootstrap!Contents,
            Writing, Bootstrap!Writing, Bootstrap!Goto
<1>2. CASE Bootstrap!Get(t)
  BY SMTT(30), <1>2 DEF Bootstrap!Get
<1>3. CASE Bootstrap!Bootstrap(t)
  BY <1>3 DEF Bootstrap!Bootstrap
<1>4. CASE Bootstrap!Begin(t)
  BY SMTT(30), <1>4 DEF Bootstrap!Begin
<1>5. CASE Bootstrap!SaveBootstrap(t) \/ Bootstrap!SaveTrue(t)
  BY <1>5 DEF Bootstrap!SaveBootstrap, Bootstrap!SaveTrue, Bootstrap!StartWrite
<1>6. CASE Bootstrap!BootstrapSaved(t) \/ Bootstrap!TrueSaved(t)
  BY <1>6 DEF Bootstrap!BootstrapSaved, Bootstrap!TrueSaved, Bootstrap!EndWrite
<1>7. CASE Bootstrap!ToRunning(t) \/ Bootstrap!ToSaving(t) \/ Bootstrap!ToInit(t)
  BY SMTT(30), <1>7 DEF Bootstrap!ToRunning, Bootstrap!ToSaving, Bootstrap!ToInit, Bootstrap!Store
<1>8. CASE Bootstrap!FPanics(t) \/ Bootstrap!CatchUnwind(t)
  BY SMTT(30), <1>8 DEF Bootstrap!FPanics, Bootstrap!CatchUnwind
<1>9. CASE Bootstrap!Deref(t)
  BY <1>9 DEF Bootstrap!Deref
<1> QED
  BY <1>1, <1>2, <1>3, <1>4, <1>5, <1>6, <1>7, <1>8, <1>9 DEF Bootstrap!Step
-----------------------------------------------------------------------------
(* The invariant of a cell of either kind. *)
THEOREM CellInvariance == CellSpec => []CellInv
<1>1. CellInit => CellInv
  BY OnceInitInv, BootInitInv DEF CellInit, CellInv
<1>2. CellInv /\ [CellNext]_<<vars, kind>> => CellInv'
  <2> SUFFICES ASSUME CellInv, [CellNext]_<<vars, kind>> PROVE CellInv'
    OBVIOUS
  <2>1. CASE kind = "OnceLock" /\ Next /\ UNCHANGED kind
    BY <2>1, OnceNextInv DEF CellInv
  <2>2. CASE kind = "BootstrapOnceLock" /\ Bootstrap!Next /\ UNCHANGED kind
    BY <2>2, BootNextInv DEF CellInv
  <2>3. CASE UNCHANGED <<vars, kind>>
    BY <2>3 DEF CellInv, vars, OnceInv, TypeOK, BootInv, Bootstrap!TypeOK
  <2> QED
    BY <2>1, <2>2, <2>3 DEF CellNext
<1> QED
  BY <1>1, <1>2, PTL DEF CellSpec

(* No caller of get, get_or_init or bootstrap reads a cell that no         *)
(* initialiser has written, whatever panics.                               *)
THEOREM CellsNeverUninit == CellSpec => []CellNeverUninit
<1>1. CellInv => CellNeverUninit
  <2>1. ASSUME OnceInv PROVE NeverUninit
    BY <2>1, UninitAssumption DEF OnceInv, NeverUninit, None
  <2>2. ASSUME BootInv PROVE Bootstrap!NeverUninit
    BY <2>2 DEF BootInv, Bootstrap!NeverUninit
  <2> QED
    BY <2>1, <2>2 DEF CellInv, CellNeverUninit
<1> QED
  BY <1>1, CellInvariance, PTL

(* All callers of get_or_init and get of a OnceLock see one value. *)
THEOREM CellsHaveOneValue == CellSpec => []CellOneValue
<1>1. CellInv => CellOneValue
  BY UninitAssumption DEF CellInv, CellOneValue, OnceInv, OneValue, None
<1> QED
  BY <1>1, CellInvariance, PTL

(* After bootstrap has published the real value, the provisional one is    *)
(* not seen again.                                                         *)
THEOREM CellsTrueIsFinal == CellSpec => TrueIsFinal
<1>1. CellInv /\ [CellNext]_<<vars, kind>> =>
        [\A t \in Threads : state = "Init" /\ got'[t] # got[t] => got'[t] = "true"]_vars
  <2> SUFFICES ASSUME CellInv, CellNext, NEW t \in Threads,
                      state = "Init", got'[t] # got[t]
               PROVE  got'[t] = "true"
    BY DEF vars
  <2>1. kind = "BootstrapOnceLock" /\ BootInv /\ Bootstrap!Next
    BY DEF CellInv, CellNext, OnceInv, TypeOK, States
  <2>2. PICK u \in Threads : Bootstrap!Get(u) \/ Bootstrap!Bootstrap(u) \/ Bootstrap!Step(u)
    BY <2>1 DEF Bootstrap!Next
  <2>3. got' # got
    OBVIOUS
  <2>4. Bootstrap!Get(u) \/ Bootstrap!Deref(u)
    BY <2>2, <2>3 DEF Bootstrap!Step, Bootstrap!Bootstrap, Bootstrap!Begin,
       Bootstrap!SaveBootstrap, Bootstrap!SaveTrue, Bootstrap!StartWrite,
       Bootstrap!BootstrapSaved, Bootstrap!TrueSaved, Bootstrap!EndWrite,
       Bootstrap!ToRunning, Bootstrap!ToSaving, Bootstrap!ToInit, Bootstrap!Store,
       Bootstrap!FPanics, Bootstrap!CatchUnwind
  <2>5. Bootstrap!Deref(u)
    BY <2>3, <2>4 DEF Bootstrap!Get
  <2> QED
    BY <2>1, <2>5 DEF Bootstrap!Deref, BootInv, Bootstrap!TypeOK
<1> QED
  BY <1>1, CellInvariance, PTL DEF CellSpec, TrueIsFinal, Bootstrap!TrueIsFinal, Bootstrap!vars, vars
=============================================================================
