------------------------------ MODULE IrqLocks ------------------------------
(***************************************************************************)
(* The two locks of the kernel that turn interrupts off and give the flag  *)
(* back: a RawSpinlock, as in Spinlock, or an IrqCell with the scheduler   *)
(* inside it, as in Scheduler.  The kind that is not used stays as it was  *)
(* initialised.                                                            *)
(***************************************************************************)
EXTENDS Spinlock, Scheduler

VARIABLE kind    \* which of the two is used

irqLocksVars == <<kind, spinlockVars, schedulerVars>>

IrqLocksInit ==
  /\ SpinlockInit /\ SchedulerInit
  /\ \/ kind = "RawSpinlock" /\ irq = "on"
     \/ /\ kind = "IrqCell"
        /\ irqBase = [c \in Cores |-> TRUE]
        /\ \A x \in Ctx, l \in Locks : target[x] <= l

IrqLocksNext ==
  /\ \/ kind = "RawSpinlock" /\ SpinlockNext /\ UNCHANGED schedulerVars
     \/ kind = "IrqCell" /\ SchedulerNext /\ UNCHANGED spinlockVars
  /\ UNCHANGED kind

IrqLocksSpec ==
  /\ IrqLocksInit /\ [][IrqLocksNext]_irqLocksVars
  /\ Fairness /\ SchedulerFairness
=============================================================================
