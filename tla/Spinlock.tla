------------------------------ MODULE Spinlock ------------------------------
(***************************************************************************)
(* RawSpinlock (kernel_api/src/sync/mutex.rs): the lock behind every       *)
(* Mutex and Spinlock of the kernel, together with the interrupt flag of   *)
(* the core it runs on.                                                    *)
(*                                                                         *)
(* A context is one flow of control of a core: the thread it runs, or the  *)
(* interrupt handler that runs on top of that thread.  Interrupt gates     *)
(* clear the interrupt flag, so a core has at most one handler active.     *)
(* Locks are numbers; contexts take them in increasing order and drop      *)
(* their guards innermost first, which is the discipline callers follow.   *)
(***************************************************************************)
EXTENDS Integers

CONSTANTS Cores,    \* the cores of the machine
          Locks     \* the locks, ordered as callers must nest them

ASSUME LocksAssumption == Locks \subseteq Nat

Levels == {"thread", "irq"}
Ctx == Cores \X Levels

VARIABLES
  state,        \* state[l]: RawSpinlock.state of lock l
  irqState,     \* irqState[l]: RawSpinlock.irq_state, TRUE for 0x200
  irqEnabled,   \* irqEnabled[c]: the interrupt flag of core c
  inIrq,        \* inIrq[c]: core c runs its interrupt handler
  irqBase,      \* irqBase[c]: the flag with which the thread of c started
  op,           \* op[x]: where context x is in lock, try_lock or unlock
  target,       \* target[x]: the lock that operation works on
  saved,        \* saved[x]: its local irq_state / old_irq_state
  held          \* held[x]: the locks whose guards x owns

spinlockVars == <<state, irqState, irqEnabled, inIrq, irqBase, op, target, saved, held>>

Ops == {"run", "cas", "trycas", "store", "swap", "restore", "panic"}

(* Spinlock state INIT (mutex.rs 63-66).  Threads may start with interrupts *)
(* on or off: early boot runs with them off.                               *)
SpinlockInit ==
  /\ state = [l \in Locks |-> "Unlocked"]
  /\ irqState = [l \in Locks |-> FALSE]
  /\ irqBase \in [Cores -> BOOLEAN]
  /\ irqEnabled = irqBase
  /\ inIrq = [c \in Cores |-> FALSE]
  /\ op = [x \in Ctx |-> "run"]
  /\ target \in [Ctx -> Locks]
  /\ saved = [x \in Ctx |-> FALSE]
  /\ held = [x \in Ctx |-> {}]

(* The context a core executes: its handler, if one is active. *)
Running(x) == (x[2] = "irq") <=> inIrq[x[1]]

(* Callers nest locks in increasing order. *)
MayAcquire(x, l) == \A m \in held[x] : m < l

(* The guard that goes out of scope next. *)
Innermost(x, l) == l \in held[x] /\ \A m \in held[x] : m <= l

-----------------------------------------------------------------------------
(* Mutant: the flag is read but cli is forgotten. *)
DisableIrqNoCli(x) ==
  /\ saved' = [saved EXCEPT ![x] = irqEnabled[x[1]]]
  /\ UNCHANGED irqEnabled

(* __popcorn_disable_irq returns the old flag and clears it;               *)
(* __popcorn_set_irq only ever turns interrupts on.                        *)
DisableIrq(x) ==
  /\ saved' = [saved EXCEPT ![x] = irqEnabled[x[1]]]
  /\ irqEnabled' = [irqEnabled EXCEPT ![x[1]] = FALSE]

SetIrq(x) ==
  irqEnabled' = [irqEnabled EXCEPT ![x[1]] = @ \/ saved[x]]

(* lock: turn interrupts off before the first attempt. *)
LockBegin(x, l) ==
  /\ Running(x) /\ op[x] = "run" /\ MayAcquire(x, l)
  /\ DisableIrq(x)
  /\ target' = [target EXCEPT ![x] = l]
  /\ op' = [op EXCEPT ![x] = "cas"]
  /\ UNCHANGED <<state, irqState, inIrq, irqBase, held>>

(* Mutant: a plain store instead of the exchange. *)
LockCasBlind(x) ==
  /\ Running(x) /\ op[x] = "cas"
  /\ state' = [state EXCEPT ![target[x]] = "Locked"]
  /\ op' = [op EXCEPT ![x] = "store"]
  /\ UNCHANGED <<irqState, irqEnabled, inIrq, irqBase, target, saved, held>>

(* Mutant: of two contexts that contend each gives way to the other. *)
LockCasYields(x) ==
  /\ Running(x) /\ op[x] = "cas"
  /\ IF /\ state[target[x]] = "Unlocked"
        /\ \A y \in Ctx : y # x /\ op[y] = "cas" => target[y] # target[x]
     THEN /\ state' = [state EXCEPT ![target[x]] = "Locked"]
          /\ op' = [op EXCEPT ![x] = "store"]
     ELSE UNCHANGED <<state, op>>
  /\ UNCHANGED <<irqState, irqEnabled, inIrq, irqBase, target, saved, held>>

(* lock: a successful exchange; a failed one changes nothing and spins. *)
LockCas(x) ==
  /\ Running(x) /\ op[x] = "cas" /\ state[target[x]] = "Unlocked"
  /\ state' = [state EXCEPT ![target[x]] = "Locked"]
  /\ op' = [op EXCEPT ![x] = "store"]
  /\ UNCHANGED <<irqState, irqEnabled, inIrq, irqBase, target, saved, held>>

(* try_lock: one attempt, the flag is put back when it fails. *)
TryLockBegin(x, l) ==
  /\ Running(x) /\ op[x] = "run" /\ MayAcquire(x, l)
  /\ DisableIrq(x)
  /\ target' = [target EXCEPT ![x] = l]
  /\ op' = [op EXCEPT ![x] = "trycas"]
  /\ UNCHANGED <<state, irqState, inIrq, irqBase, held>>

TryLockCas(x) ==
  /\ Running(x) /\ op[x] = "trycas"
  /\ \/ /\ state[target[x]] = "Unlocked"
        /\ state' = [state EXCEPT ![target[x]] = "Locked"]
        /\ op' = [op EXCEPT ![x] = "store"]
     \/ /\ state[target[x]] = "Locked"
        /\ op' = [op EXCEPT ![x] = "restore"]
        /\ UNCHANGED state
  /\ UNCHANGED <<irqState, irqEnabled, inIrq, irqBase, target, saved, held>>

(* lock and try_lock: the old flag is stored once the lock is owned. *)
StoreIrqState(x) ==
  /\ Running(x) /\ op[x] = "store"
  /\ irqState' = [irqState EXCEPT ![target[x]] = saved[x]]
  /\ held' = [held EXCEPT ![x] = @ \union {target[x]}]
  /\ op' = [op EXCEPT ![x] = "run"]
  /\ UNCHANGED <<state, irqEnabled, inIrq, irqBase, target, saved>>

(* unlock: the saved flag is read while the lock is still owned. *)
UnlockLoad(x, l) ==
  /\ Running(x) /\ op[x] = "run" /\ Innermost(x, l)
  /\ saved' = [saved EXCEPT ![x] = irqState[l]]
  /\ target' = [target EXCEPT ![x] = l]
  /\ op' = [op EXCEPT ![x] = "swap"]
  /\ UNCHANGED <<state, irqState, irqEnabled, inIrq, irqBase, held>>

(* unlock: the swap, and the unreachable! on a lock that was not locked. *)
UnlockSwap(x) ==
  /\ Running(x) /\ op[x] = "swap"
  /\ state' = [state EXCEPT ![target[x]] = "Unlocked"]
  /\ held' = [held EXCEPT ![x] = @ \ {target[x]}]
  /\ op' = [op EXCEPT ![x] =
              IF state[target[x]] = "Unlocked" THEN "panic" ELSE "restore"]
  /\ UNCHANGED <<irqState, irqEnabled, inIrq, irqBase, target, saved>>

(* Mutant: irq_state is loaded after the swap has given the lock away. *)
RestoreIrqLateLoad(x) ==
  /\ Running(x) /\ op[x] = "restore"
  /\ irqEnabled' = [irqEnabled EXCEPT ![x[1]] = @ \/ irqState[target[x]]]
  /\ op' = [op EXCEPT ![x] = "run"]
  /\ UNCHANGED <<state, irqState, inIrq, irqBase, target, saved, held>>

(* unlock, and try_lock after a failed exchange: restore the flag. *)
RestoreIrq(x) ==
  /\ Running(x) /\ op[x] = "restore"
  /\ SetIrq(x)
  /\ op' = [op EXCEPT ![x] = "run"]
  /\ UNCHANGED <<state, irqState, inIrq, irqBase, target, saved, held>>

(* An interrupt is delivered between any two instructions of a thread that *)
(* has the flag set; the interrupt gate clears it, iretq restores it.      *)
IrqEnter(c) ==
  /\ irqEnabled[c] /\ ~inIrq[c]
  /\ inIrq' = [inIrq EXCEPT ![c] = TRUE]
  /\ irqEnabled' = [irqEnabled EXCEPT ![c] = FALSE]
  /\ UNCHANGED <<state, irqState, irqBase, op, target, saved, held>>

IrqReturn(c) ==
  /\ inIrq[c] /\ op[<<c, "irq">>] = "run" /\ held[<<c, "irq">>] = {}
  /\ inIrq' = [inIrq EXCEPT ![c] = FALSE]
  /\ irqEnabled' = [irqEnabled EXCEPT ![c] = TRUE]
  /\ UNCHANGED <<state, irqState, irqBase, op, target, saved, held>>

(* Steps a context takes on its own once it has begun an operation. *)
ContinueOp(x) ==
  \/ LockCas(x)
  \/ TryLockCas(x)
  \/ StoreIrqState(x)
  \/ UnlockSwap(x)
  \/ RestoreIrq(x)

Release(x) == \E l \in Locks : UnlockLoad(x, l)

SpinlockNext ==
  \/ \E x \in Ctx :
       \/ \E l \in Locks : LockBegin(x, l) \/ TryLockBegin(x, l)
       \/ Release(x)
       \/ ContinueOp(x)
  \/ \E c \in Cores : IrqEnter(c) \/ IrqReturn(c)

SpinlockSpec == SpinlockInit /\ [][SpinlockNext]_spinlockVars

(* Cores execute: a begun operation goes on, every critical section ends,  *)
(* a handler returns.  Nothing obliges a caller to take a lock, and nothing *)
(* obliges the hardware to pick a particular winner of an exchange.        *)
Fairness ==
  /\ \A x \in Ctx : WF_spinlockVars(ContinueOp(x))
  /\ \A x \in Ctx, l \in Locks : SF_spinlockVars(UnlockLoad(x, l))
  /\ \A c \in Cores : WF_spinlockVars(IrqReturn(c))

-----------------------------------------------------------------------------
SpinlockTyped ==
  /\ state \in [Locks -> {"Unlocked", "Locked"}]
  /\ irqState \in [Locks -> BOOLEAN]
  /\ irqEnabled \in [Cores -> BOOLEAN]
  /\ inIrq \in [Cores -> BOOLEAN]
  /\ irqBase \in [Cores -> BOOLEAN]
  /\ op \in [Ctx -> Ops]
  /\ target \in [Ctx -> Locks]
  /\ saved \in [Ctx -> BOOLEAN]
  /\ held \in [Ctx -> SUBSET Locks]

(* The locks x owns: its guards, and the lock whose exchange has succeeded *)
(* while lock or try_lock has not returned yet.                            *)
Owned(x) == held[x] \union (IF op[x] = "store" THEN {target[x]} ELSE {})

(* The flag with which the code of x runs while it owns no lock. *)
CtxBase(x) == x[2] = "thread" /\ irqBase[x[1]]

(* No two contexts own the same lock: the exchange of lock and try_lock    *)
(* lets one in, and only the owner's swap lets the next one in.            *)
MutualExclusion ==
  \A x, y \in Ctx : x # y => Owned(x) \intersect Owned(y) = {}

(* A core on which a lock is owned takes no interrupt, so no handler ever  *)
(* runs on top of an owner and spins for what that owner holds.            *)
OwnerNotInterrupted ==
  \A x \in Ctx : Owned(x) # {} => ~irqEnabled[x[1]] /\ Running(x)

(* Once all guards are dropped the interrupt flag is what it was before    *)
(* the first lock was taken, although every lock keeps only one saved flag *)
(* that the next owner overwrites.                                         *)
FlagRestored ==
  \A x \in Ctx :
    Running(x) /\ op[x] = "run" /\ held[x] = {} =>
      (irqEnabled[x[1]] <=> CtxBase(x))

(* Only the outermost guard of a context remembers that interrupts were    *)
(* on; while an operation is under way its local copy does so in its turn. *)
SavedFlagChain ==
  \A x \in Ctx :
    /\ \A l \in held[x] :
         irqState[l] <=> CtxBase(x) /\ \A m \in held[x] : l <= m
    /\ op[x] \in {"cas", "trycas", "store", "restore"} =>
         (saved[x] <=> CtxBase(x) /\ held[x] = {})
    /\ op[x] = "swap" => (saved[x] <=> irqState[target[x]])

(* unreachable!("Mutex was unlocked while unlocked") is unreachable. *)
NeverUnlockedTwice == \A x \in Ctx : op[x] # "panic"

(* lock and try_lock acquire, and unlock releases, in one indivisible step. *)
ALock == INSTANCE AbstractLock
              WITH Owners <- Ctx, owned <- [x \in Ctx |-> Owned(x)]
ImplementsLock == ALock!Spec

(* While somebody spins in lock, somebody acquires that lock: neither the  *)
(* handlers of the cores nor nested locks can stop everyone.  (An          *)
(* individual spinner may lose every exchange; the lock is not fair.)      *)
SpinnersProgress ==
  \A l \in Locks :
    (\E x \in Ctx : op[x] = "cas" /\ target[x] = l)
      ~> (\E x \in Ctx : op[x] = "store" /\ target[x] = l)
=============================================================================
