------------------------------ MODULE Executor ------------------------------
(***************************************************************************)
(* The async executor (kernel/src/task): spawn, run, and the wakers that   *)
(* tasks, or interrupt handlers they gave them to, may call at any time.   *)
(***************************************************************************)
EXTENDS Integers, Sequences

CONSTANTS MaxTasks,    \* bound: tasks spawned
          Capacity     \* capacity of pending_run (128 in the code)

ASSUME BoundsAssumption == MaxTasks \in Nat \ {0} /\ Capacity \in Nat \ {0}

Ids == 0 .. MaxTasks - 1
Nobody == MaxTasks

VARIABLES
  nextId,     \* next_task_id
  queue,      \* pending_run
  tasks,      \* the keys of tasks
  wakers,     \* the keys of wakers
  cloned,     \* tasks whose waker somebody outside the executor has cloned
  polling,    \* the task whose future is being polled, or Nobody
  due,        \* live tasks that were woken and have not been polled since
  running,    \* run has been called
  surplus,    \* a task was woken that was not asleep
  panic       \* "no", or the expect that failed

executorVars == <<nextId, queue, tasks, wakers, cloned, polling, due, running, surplus, panic>>

ExecutorInit ==
  /\ nextId = 0
  /\ queue = <<>>
  /\ tasks = {} /\ wakers = {} /\ cloned = {} /\ due = {}
  /\ polling = Nobody
  /\ running = FALSE /\ surplus = FALSE
  /\ panic = "no"

Queued == {queue[i] : i \in 1 .. Len(queue)}

-----------------------------------------------------------------------------
(* spawn needs &mut self, which run never gives back. *)
Spawn ==
  /\ panic = "no" /\ ~running /\ nextId \in Ids
  /\ nextId' = nextId + 1
  /\ IF Len(queue) = Capacity
       THEN /\ panic' = "Unable to spawn task"
            /\ UNCHANGED <<queue, tasks, wakers, due>>
       ELSE /\ queue' = Append(queue, nextId)
            /\ tasks' = tasks \union {nextId}
            /\ wakers' = wakers \union {nextId}
            /\ due' = due \union {nextId}
            /\ UNCHANGED panic
  /\ UNCHANGED <<cloned, polling, running, surplus>>

Run ==
  /\ ~running
  /\ running' = TRUE
  /\ UNCHANGED <<nextId, queue, tasks, wakers, cloned, polling, due, surplus, panic>>

(* Mutant: the newest id is taken first. *)
PopNewest ==
  /\ panic = "no" /\ running /\ polling = Nobody /\ queue # <<>>
  /\ queue' = SubSeq(queue, 1, Len(queue) - 1)
  /\ LET id == queue[Len(queue)] IN
       IF id \in tasks /\ id \in wakers
         THEN polling' = id /\ due' = due \ {id} /\ UNCHANGED panic
         ELSE panic' = "Task does not exist" /\ UNCHANGED <<polling, due>>
  /\ UNCHANGED <<nextId, tasks, wakers, cloned, running, surplus>>

(* run: pop an id and start to poll its task. *)
Pop ==
  /\ panic = "no" /\ running /\ polling = Nobody /\ queue # <<>>
  /\ queue' = Tail(queue)
  /\ IF Head(queue) \in tasks /\ Head(queue) \in wakers
       THEN /\ polling' = Head(queue)
            /\ due' = due \ {Head(queue)}
            /\ UNCHANGED panic
       ELSE panic' = "Task does not exist" /\ UNCHANGED <<polling, due>>
  /\ UNCHANGED <<nextId, tasks, wakers, cloned, running, surplus>>

(* The future being polled clones its waker and stores it somewhere. *)
CloneWaker ==
  /\ panic = "no" /\ polling # Nobody
  /\ cloned' = cloned \union {polling}
  /\ UNCHANGED <<nextId, queue, tasks, wakers, polling, due, running, surplus, panic>>

(* Mutant: the id of a finished task is queued again. *)
PollReadyRequeues ==
  /\ panic = "no" /\ polling # Nobody
  /\ tasks' = tasks \ {polling}
  /\ wakers' = wakers \ {polling}
  /\ due' = due \ {polling}
  /\ queue' = Append(queue, polling)
  /\ polling' = Nobody
  /\ UNCHANGED <<nextId, cloned, running, surplus, panic>>

(* run: the future returned. *)
PollReady ==
  /\ panic = "no" /\ polling # Nobody
  /\ tasks' = tasks \ {polling}
  /\ wakers' = wakers \ {polling}
  /\ due' = due \ {polling}
  /\ polling' = Nobody
  /\ UNCHANGED <<nextId, queue, cloned, running, surplus, panic>>

PollPending ==
  /\ panic = "no" /\ polling # Nobody
  /\ polling' = Nobody
  /\ UNCHANGED <<nextId, queue, tasks, wakers, cloned, due, running, surplus, panic>>

(* Mutant: waking the task that is being polled is taken for superfluous. *)
WakeNotSelf(id) ==
  /\ panic = "no" /\ id \in cloned /\ Len(queue) < Capacity
  /\ queue' = IF id = polling THEN queue ELSE Append(queue, id)
  /\ due' = due \union ({id} \intersect tasks)
  /\ UNCHANGED <<nextId, tasks, wakers, cloned, polling, running, surplus, panic>>

Asleep(id) == id \in tasks \ Queued /\ id # polling

(* wake, wake_by_ref: from the future being polled or from an interrupt. *)
Wake(id) ==
  /\ panic = "no" /\ id \in cloned
  /\ surplus' = (surplus \/ ~ Asleep(id))
  /\ IF Len(queue) = Capacity
       THEN panic' = "Unable to wake task" /\ UNCHANGED <<queue, due>>
       ELSE /\ queue' = Append(queue, id)
            /\ due' = due \union ({id} \intersect tasks)
            /\ UNCHANGED panic
  /\ UNCHANGED <<nextId, tasks, wakers, cloned, polling, running>>

ExecutorNext ==
  \/ Spawn \/ Run \/ Pop \/ CloneWaker \/ PollReady \/ PollPending
  \/ \E id \in Ids : Wake(id)

ExecutorSpec == ExecutorInit /\ [][ExecutorNext]_executorVars

(* run loops, and no future blocks while it is polled. *)
ExecutorFairSpec ==
  ExecutorSpec /\ WF_executorVars(Run) /\ WF_executorVars(Pop) /\ WF_executorVars(PollReady \/ PollPending)

-----------------------------------------------------------------------------
ExecutorTypeOK ==
  /\ nextId \in 0 .. MaxTasks
  /\ queue \in Seq(Ids) /\ Len(queue) <= Capacity
  /\ tasks \subseteq Ids /\ wakers \subseteq Ids
  /\ cloned \subseteq Ids /\ due \subseteq Ids
  /\ polling \in Ids \union {Nobody}
  /\ running \in BOOLEAN /\ surplus \in BOOLEAN
  /\ panic \in {"no", "Unable to spawn task", "Unable to wake task",
                "Task does not exist"}

(* Well typed, and a wake is never lost, not even one that arrives while the task is being *)
(* polled or between its poll and the next pop.                            *)
DueIsQueued == ExecutorTypeOK /\ due \subseteq Queued /\ due \subseteq tasks

(* As long as tasks are woken only while they are asleep, the queue holds  *)
(* a task at most once and only live tasks: with room for every task no    *)
(* push or lookup of the executor fails.                                   *)
NoPanic == ~ surplus /\ Capacity >= MaxTasks => panic = "no"

(* Every wake is followed by a poll. *)
WokenIsPolled ==
  \A id \in Ids : id \in due ~> id \notin due \/ panic # "no"

(* run says of every id it pops (executor.rs 47-48) that its task exists:  *)
(* expect("Task does not exist").                                          *)
PoppedTaskExists == panic # "Task does not exist"
=============================================================================
