------------------------------ MODULE Scheduler ------------------------------
(***************************************************************************)
(* The cooperative scheduler of a core (kernel/src/threading): SCHEDULER,  *)
(* an IrqCell around the task table and the run queue, the threads that    *)
(* yield through it, and the switch between them.                          *)
(*                                                                         *)
(* thread_yield takes the cell's guard, switches, and drops the guard when *)
(* it is switched back to: the guard one thread takes is dropped by the    *)
(* next one, and a new thread drops it in its startup function.            *)
(***************************************************************************)
EXTENDS Integers, Sequences, FiniteSets

CONSTANT MaxTasks     \* bound: threads that are ever created

ASSUME MaxTasksAssumption == MaxTasks \in Nat \ {0}

Tids == 0 .. MaxTasks - 1

VARIABLES
  tasks,      \* Scheduler.tasks: the state of every thread in the table
  queue,      \* Scheduler.queue
  current,    \* Scheduler.current_tid
  nextTid,    \* TIDS
  cell,       \* IrqCell.state: "free", or the flag it saved
  irq,        \* the interrupt flag of the core
  pc,         \* pc[t]: where thread t is, or will go on when switched to
  (* History, for FlagPassedOn only: no guard reads it. *)
  came,       \* came[t]: the flag t had when it last took the guard
  taker       \* the thread that took the guard last

history == <<came, taker>>
schedulerVars == <<tasks, queue, current, nextTid, cell, irq, pc, came, taker>>

PCs == {"none", "boot", "run", "add_task", "schedule", "unlock", "startup",
        "panic"}

(* Scheduler::new, on the thread that boots the kernel, with interrupts on *)
(* or off.                                                                 *)
SchedulerInit ==
  /\ tasks = [t \in {} |-> "Ready"]
  /\ queue = <<>>
  /\ current = 0
  /\ nextTid = 1
  /\ cell = "free"
  /\ irq \in {"on", "off"}
  /\ came = [t \in Tids |-> "off"] /\ taker = 0
  /\ pc = [t \in Tids |-> IF t = 0 THEN "boot" ELSE "none"]

Goto(t, where) == pc' = [pc EXCEPT ![t] = where]

(* f with t mapped to v, whether or not t was in its domain. *)
Insert(f, t, v) ==
  [u \in DOMAIN f \union {t} |-> IF u = t THEN v ELSE f[u]]

-----------------------------------------------------------------------------
(* threading::init enters the boot thread as Tid(0), under the guard. *)
ThreadingInit ==
  /\ pc[0] = "boot"
  /\ tasks' = Insert(tasks, 0, "Running")
  /\ Goto(0, "run")
  /\ UNCHANGED <<queue, current, nextTid, cell, irq, history>>

(* Between its calls of the scheduler a thread turns interrupts on or off: *)
(* it enables them, or takes or drops the guard of a Mutex.                *)
SetFlag(t) ==
  /\ current = t /\ pc[t] \in {"boot", "run"}
  /\ irq' \in {"on", "off"}
  /\ UNCHANGED <<tasks, queue, current, nextTid, cell, pc, history>>

(* The guard is taken by t. *)
Came(t) == came' = [came EXCEPT ![t] = irq] /\ taker' = t

(* Mutant: the flag is saved after interrupts are turned off. *)
LockSavesLate(t, then) ==
  /\ current = t /\ pc[t] = "run" /\ cell = "free"
  /\ cell' = "off"
  /\ irq' = "off"
  /\ Goto(t, then) /\ Came(t)
  /\ UNCHANGED <<tasks, queue, current, nextTid>>

(* IrqCell::lock, on the way to add_task or to schedule. *)
Lock(t, then) ==
  /\ current = t /\ pc[t] = "run"
  /\ IF cell # "free"
       THEN Goto(t, "panic") /\ UNCHANGED <<cell, irq, history>>
       ELSE /\ cell' = irq
            /\ irq' = "off"
            /\ Goto(t, then) /\ Came(t)
  /\ UNCHANGED <<tasks, queue, current, nextTid>>

Spawn(t) == nextTid \in Tids /\ Lock(t, "add_task")
Yield(t) == Lock(t, "schedule")

(* Mutant: the new thread starts in its main function. *)
AddTaskNoStartup(t) ==
  /\ current = t /\ pc[t] = "add_task"
  /\ nextTid' = nextTid + 1
  /\ tasks' = Insert(tasks, nextTid, "Ready")
  /\ queue' = Append(queue, nextTid)
  /\ pc' = [pc EXCEPT ![t] = "unlock", ![nextTid] = "run"]
  /\ UNCHANGED <<current, cell, irq, history>>

(* add_task; the new thread will start in its startup function. *)
AddTask(t) ==
  /\ current = t /\ pc[t] = "add_task"
  /\ nextTid' = nextTid + 1
  /\ tasks' = Insert(tasks, nextTid, "Ready")
  /\ queue' = Append(queue, nextTid)
  /\ pc' = [pc EXCEPT ![t] = "unlock", ![nextTid] = "startup"]
  /\ UNCHANGED <<current, cell, irq, history>>

(* Mutant: the thread that yields is not put back. *)
ScheduleDropsOld(t) ==
  /\ current = t /\ pc[t] = "schedule"
  /\ \/ /\ queue # <<>>
        /\ queue' = Tail(queue)
        /\ current' = Head(queue)
        /\ tasks' = [tasks EXCEPT ![t] = "Ready", ![Head(queue)] = "Running"]
     \/ queue = <<>> /\ UNCHANGED <<tasks, queue, current>>
  /\ Goto(t, "unlock")
  /\ UNCHANGED <<nextTid, cell, irq, history>>

(* Mutant: the thread that yields is put back before the next is taken. *)
SchedulePushesFirst(t) ==
  LET q == Append(queue, t) IN
  /\ current = t /\ pc[t] = "schedule"
  /\ queue' = Tail(q)
  /\ current' = Head(q)
  /\ IF Head(q) # t
       THEN /\ tasks' = [tasks EXCEPT ![t] = "Ready", ![Head(q)] = "Running"]
            /\ Goto(t, "unlock")
       ELSE Goto(t, "panic") /\ UNCHANGED tasks
  /\ UNCHANGED <<nextTid, cell, irq, history>>

(* Mutant: the thread that yields goes to the front. *)
SchedulePushesFront(t) ==
  /\ current = t /\ pc[t] = "schedule"
  /\ \/ /\ queue # <<>>
        /\ queue' = <<t>> \o Tail(queue)
        /\ current' = Head(queue)
        /\ tasks' = [tasks EXCEPT ![t] = "Ready", ![Head(queue)] = "Running"]
     \/ queue = <<>> /\ UNCHANGED <<tasks, queue, current>>
  /\ Goto(t, "unlock")
  /\ UNCHANGED <<nextTid, cell, irq, history>>

(* schedule and switch_thread: t stays where it will drop the guard. *)
Schedule(t) ==
  /\ current = t /\ pc[t] = "schedule"
  /\ \/ /\ queue # <<>>
        /\ queue' = Append(Tail(queue), t)
        /\ current' = Head(queue)
        /\ IF Head(queue) # t /\ {t, Head(queue)} \subseteq DOMAIN tasks
             THEN /\ tasks' = [tasks EXCEPT ![t] = "Ready",
                                            ![Head(queue)] = "Running"]
                  /\ Goto(t, "unlock")
             ELSE Goto(t, "panic") /\ UNCHANGED tasks
     \/ /\ queue = <<>>
        /\ IF t \in DOMAIN tasks /\ tasks[t] = "Running"
             THEN Goto(t, "unlock")
             ELSE Goto(t, "panic")
        /\ UNCHANGED <<tasks, queue, current>>
  /\ UNCHANGED <<nextTid, cell, irq, history>>

(* IrqCell::unlock: IrqGuard::drop, or the startup function of a thread. *)
Unlock(t) ==
  /\ current = t /\ pc[t] \in {"unlock", "startup"}
  /\ IF cell = "free"
       THEN Goto(t, "panic") /\ UNCHANGED <<cell, irq>>
       ELSE /\ cell' = "free"
            /\ irq' = IF cell = "on" THEN "on" ELSE irq
            /\ Goto(t, "run")
  /\ UNCHANGED <<tasks, queue, current, nextTid, history>>

Continue == \E t \in Tids : AddTask(t) \/ Schedule(t) \/ Unlock(t)

SchedulerNext ==
  \/ ThreadingInit
  \/ \E t \in Tids : SetFlag(t) \/ Spawn(t) \/ Yield(t)
  \/ Continue

SchedulerSpec == SchedulerInit /\ [][SchedulerNext]_schedulerVars

(* A thread inside the scheduler goes on; nothing makes a thread yield. *)
SchedulerFairness == WF_schedulerVars(Continue)

-----------------------------------------------------------------------------
Known == DOMAIN tasks

SchedulerTyped ==
  /\ Known \subseteq Tids
  /\ tasks \in [Known -> {"Ready", "Running"}]
  /\ queue \in Seq(Tids)
  /\ current \in Tids
  /\ nextTid \in 1 .. MaxTasks
  /\ cell \in {"free", "on", "off"}
  /\ irq \in {"on", "off"}
  /\ pc \in [Tids -> PCs]
  /\ came \in [Tids -> {"on", "off"}] /\ taker \in Tids

Queued == {queue[i] : i \in 1 .. Len(queue)}

(* Every thread but the current one waits in the queue, exactly once: no   *)
(* thread is lost and none is run twice.                                   *)
RunQueueExact ==
  /\ SchedulerTyped
  /\ pc[0] # "boot" =>
    /\ \A i, j \in 1 .. Len(queue) : queue[i] = queue[j] => i = j
    /\ Queued = Known \ {current}
    /\ \A t \in Known : tasks[t] = "Running" <=> t = current

(* None of the expects, unwraps and panics of scheduler.rs is reached. *)
NoPanic == \A t \in Tids : pc[t] # "panic"

(* The guard changes hands with the core: it is held exactly while the     *)
(* current thread is inside the scheduler, with interrupts off, and every  *)
(* thread that is switched out will first of all drop it.                  *)
GuardHandedOver ==
  pc[0] # "boot" =>
    /\ cell = "free" <=> pc[current] = "run"
    /\ cell # "free" => irq = "off"
    /\ \A t \in Known \ {current} : pc[t] \in {"unlock", "startup"}

(* What a thread gets back from thread_yield is not its own interrupt flag *)
(* but that of whoever ran before it: threads that yield with different    *)
(* flags exchange them, a new thread inherits one, and only a call that    *)
(* switches to nobody gives back the flag it was made with.                *)
FlagPassedOn ==
  [][ \A t \in Tids :
        pc[t] \in {"unlock", "startup"} /\ pc'[t] = "run" => irq' = came[taker]
    ]_schedulerVars

(* If threads never stop yielding, every thread gets to run. *)
EveryoneRuns ==
  []<>(pc[current] = "schedule") =>
    \A t \in Tids : t \in Known ~> (current = t /\ pc[t] = "run")
=============================================================================
