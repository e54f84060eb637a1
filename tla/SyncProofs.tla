----------------------------- MODULE SyncProofs -----------------------------
(***************************************************************************)
(* What threads and interrupt handlers synchronise with: the spinlock, the *)
(* readers-writer lock and the scheduler, one after the other.  None of    *)
(* the proofs uses anything of another.                                    *)
(***************************************************************************)
EXTENDS Spinlock, RwLock, Scheduler, FiniteSetTheorems, SequenceTheorems, TLAPS

(* A leaf that names no prover is tried with Zenon, then with the SMT solver. *)
USE ZenonT(30), SMTT(30)

-----------------------------------------------------------------------------
(* Spinlock, for any number of cores and locks. *)

(* A lock is marked Locked exactly while somebody owns it. *)
StateMatchesOwner ==
  \A l \in Locks : state[l] = "Locked" <=> \E x \in Ctx : l \in Owned(x)

(* Inside an operation or a critical section, the context is the one the   *)
(* core runs, and interrupts are off.                                      *)
BusyMasked ==
  \A x \in Ctx : op[x] # "run" \/ held[x] # {} =>
                   ~irqEnabled[x[1]] /\ Running(x)

(* The locking order, carried through the operations. *)
Discipline ==
  \A x \in Ctx :
    /\ op[x] \in {"cas", "trycas", "store"} => MayAcquire(x, target[x])
    /\ op[x] = "swap" => Innermost(x, target[x])

(* A handler runs only on a core whose thread runs with interrupts on. *)
IrqOnlyIfOn == \A c \in Cores : inIrq[c] => irqBase[c]

SpinlockInv ==
  /\ SpinlockTyped
  /\ MutualExclusion
  /\ NeverUnlockedTwice
  /\ StateMatchesOwner
  /\ BusyMasked
  /\ Discipline
  /\ FlagRestored
  /\ SavedFlagChain
  /\ IrqOnlyIfOn

-----------------------------------------------------------------------------
(* A context is a pair of a core and a level. *)
LEMMA CtxShape ==
  \A x \in Ctx : /\ x[1] \in Cores /\ x[2] \in {"thread", "irq"}
                 /\ x = <<x[1], x[2]>>
  BY DEF Ctx, Levels

(* The two contexts of a core, and when they run. *)
LEMMA CtxPair ==
  \A c \in Cores :
    /\ <<c, "thread">> \in Ctx /\ <<c, "irq">> \in Ctx
    /\ \A x \in Ctx : x[1] = c => x = <<c, "thread">> \/ x = <<c, "irq">>
  BY DEF Ctx, Levels

(* The greatest member of a set is the least one only in a singleton. *)
LEMMA GreatestIsLeast ==
  ASSUME NEW S \in SUBSET Nat, NEW t \in S, \A m \in S : m <= t
  PROVE  (\A m \in S : t <= m) <=> S \ {t} = {}
  <1>1. ASSUME \A m \in S : t <= m PROVE S \ {t} = {}
    <2>1. \A m \in S : m <= t /\ t <= m /\ m \in Nat /\ t \in Nat
      BY <1>1
    <2>2. \A m \in S : m = t
      BY <2>1
    <2> QED
      BY <2>2
  <1>2. ASSUME S \ {t} = {} PROVE \A m \in S : t <= m
    BY <1>2
  <1> QED
    BY <1>1, <1>2

(* RawSpinlock::INIT on every lock establishes the inductive invariant. *)
LEMMA SpinlockInitInv == SpinlockInit => SpinlockInv
  <1> SUFFICES ASSUME SpinlockInit PROVE SpinlockInv
    OBVIOUS
  <1> USE CtxShape, LocksAssumption
  <1>1. SpinlockTyped
    BY DEF SpinlockInit, SpinlockTyped, Ops
  <1>2. \A x \in Ctx : op[x] = "run" /\ held[x] = {} /\ Owned(x) = {}
    BY DEF SpinlockInit, Owned
  <1>3. \A c \in Cores : ~inIrq[c] /\ (irqEnabled[c] <=> irqBase[c])
    BY DEF SpinlockInit
  <1>4. \A l \in Locks : state[l] = "Unlocked"
    BY DEF SpinlockInit
  <1>5. MutualExclusion /\ NeverUnlockedTwice /\ BusyMasked /\ Discipline
    BY <1>2 DEF MutualExclusion, NeverUnlockedTwice, BusyMasked, Discipline
  <1>6. StateMatchesOwner
    BY <1>2, <1>4 DEF StateMatchesOwner
  <1>7. FlagRestored
    BY <1>2, <1>3 DEF FlagRestored, CtxBase, Running
  <1>8. SavedFlagChain
    BY <1>2 DEF SavedFlagChain
  <1>9. IrqOnlyIfOn
    BY <1>3 DEF IrqOnlyIfOn
  <1> QED
    BY <1>1, <1>5, <1>6, <1>7, <1>8, <1>9 DEF SpinlockInv

(* How each step changes who owns what: a successful exchange adds the     *)
(* free target, the swap of unlock removes it, the rest changes nothing.   *)
OwnedSame == \A y \in Ctx : Owned(y)' = Owned(y)

OwnedGains(x) ==
  /\ \A y \in Ctx : target[x] \notin Owned(y)
  /\ Owned(x)' = Owned(x) \union {target[x]}
  /\ \A y \in Ctx \ {x} : Owned(y)' = Owned(y)

OwnedLoses(x) ==
  /\ target[x] \in Owned(x)
  /\ Owned(x)' = Owned(x) \ {target[x]}
  /\ \A y \in Ctx \ {x} : Owned(y)' = Owned(y)

(* Only a free lock is gained by the exchange of lock. *)
LEMMA LockCasOwned ==
  ASSUME SpinlockInv, NEW x \in Ctx, LockCas(x)
  PROVE  OwnedGains(x)
  <1>1. \A y \in Ctx : target[x] \notin Owned(y)
    BY DEF SpinlockInv, SpinlockTyped, StateMatchesOwner, LockCas
  <1> QED
    BY <1>1 DEF SpinlockInv, SpinlockTyped, LockCas, OwnedGains, Owned

(* Only a free lock is gained by the exchange of try_lock. *)
LEMMA TryLockCasOwned ==
  ASSUME SpinlockInv, NEW x \in Ctx, TryLockCas(x)
  PROVE  OwnedGains(x) \/ OwnedSame
  <1>1. CASE state[target[x]] = "Unlocked"
    <2>1. \A y \in Ctx : target[x] \notin Owned(y)
      BY <1>1 DEF SpinlockInv, SpinlockTyped, StateMatchesOwner
    <2> QED
      BY <1>1, <2>1 DEF SpinlockInv, SpinlockTyped, TryLockCas, OwnedGains, Owned
  <1>2. CASE state[target[x]] # "Unlocked"
    BY <1>2 DEF SpinlockInv, SpinlockTyped, TryLockCas, OwnedSame, Owned
  <1> QED
    BY <1>1, <1>2

(* The store of irq_state turns the exchange into a guard. *)
LEMMA StoreOwned ==
  ASSUME SpinlockInv, NEW x \in Ctx, StoreIrqState(x)
  PROVE  OwnedSame
  BY DEF SpinlockInv, SpinlockTyped, StateMatchesOwner, StoreIrqState, OwnedSame, Owned

(* The swap of unlock removes a lock that was owned, and marked Locked. *)
LEMMA SwapOwned ==
  ASSUME SpinlockInv, NEW x \in Ctx, UnlockSwap(x)
  PROVE  OwnedLoses(x) /\ state[target[x]] = "Locked"
  <1>1. target[x] \in held[x]
    BY DEF SpinlockInv, Discipline, Innermost, UnlockSwap
  <1>2. target[x] \in Owned(x) /\ state[target[x]] = "Locked"
    BY <1>1 DEF SpinlockInv, SpinlockTyped, StateMatchesOwner, Owned
  <1> QED
    BY <1>2 DEF SpinlockInv, SpinlockTyped, UnlockSwap, OwnedLoses, Owned

(* lock turns interrupts off before it spins. *)
LEMMA LockBeginIInv ==
  ASSUME SpinlockInv, NEW x \in Ctx, NEW l \in Locks, LockBegin(x, l)
  PROVE  SpinlockInv'
  <1> USE CtxShape, LocksAssumption DEF SpinlockInv, SpinlockTyped
  <1>1. SpinlockTyped'
    BY DEF LockBegin, DisableIrq, MayAcquire, Ops
  <1>2. MutualExclusion'
    BY SMTT(30), <1>1 DEF LockBegin, DisableIrq, MayAcquire, MutualExclusion, Owned
  <1>3. NeverUnlockedTwice'
    BY <1>1 DEF LockBegin, DisableIrq, MayAcquire, NeverUnlockedTwice
  <1>4. StateMatchesOwner'
    BY SMTT(30), <1>1 DEF LockBegin, DisableIrq, MayAcquire, StateMatchesOwner, MutualExclusion, Discipline, Innermost, Owned
  <1>5. BusyMasked'
    BY SMTT(30), <1>1 DEF LockBegin, DisableIrq, MayAcquire, BusyMasked, Running, FlagRestored, SavedFlagChain, CtxBase
  <1>6. Discipline'
    BY <1>1 DEF LockBegin, DisableIrq, MayAcquire, Discipline, MayAcquire, Innermost
  <1>7. FlagRestored'
    BY SMTT(30), <1>1 DEF LockBegin, DisableIrq, MayAcquire, FlagRestored, BusyMasked, SavedFlagChain, IrqOnlyIfOn, Running, CtxBase
  <1>8. SavedFlagChain'
    BY SMTT(30), <1>1 DEF LockBegin, DisableIrq, MayAcquire, SavedFlagChain, BusyMasked, FlagRestored, Discipline, MutualExclusion, Owned, MayAcquire, Innermost, Running, CtxBase
  <1>9. IrqOnlyIfOn'
    BY <1>1 DEF LockBegin, DisableIrq, MayAcquire, IrqOnlyIfOn, FlagRestored, BusyMasked, CtxBase, Running
  <1> QED
    BY <1>1, <1>2, <1>3, <1>4, <1>5, <1>6, <1>7, <1>8, <1>9 DEF SpinlockInv

(* try_lock turns interrupts off before its attempt. *)
LEMMA TryLockBeginIInv ==
  ASSUME SpinlockInv, NEW x \in Ctx, NEW l \in Locks, TryLockBegin(x, l)
  PROVE  SpinlockInv'
  <1> USE CtxShape, LocksAssumption DEF SpinlockInv, SpinlockTyped
  <1>1. SpinlockTyped'
    BY DEF TryLockBegin, DisableIrq, MayAcquire, Ops
  <1>2. MutualExclusion'
    BY SMTT(30), <1>1 DEF TryLockBegin, DisableIrq, MayAcquire, MutualExclusion, Owned
  <1>3. NeverUnlockedTwice'
    BY <1>1 DEF TryLockBegin, DisableIrq, MayAcquire, NeverUnlockedTwice
  <1>4. StateMatchesOwner'
    BY SMTT(30), <1>1 DEF TryLockBegin, DisableIrq, MayAcquire, StateMatchesOwner, MutualExclusion, Discipline, Innermost, Owned
  <1>5. BusyMasked'
    BY SMTT(30), <1>1 DEF TryLockBegin, DisableIrq, MayAcquire, BusyMasked, Running, FlagRestored, SavedFlagChain, CtxBase
  <1>6. Discipline'
    BY <1>1 DEF TryLockBegin, DisableIrq, MayAcquire, Discipline, MayAcquire, Innermost
  <1>7. FlagRestored'
    BY SMTT(30), <1>1 DEF TryLockBegin, DisableIrq, MayAcquire, FlagRestored, BusyMasked, SavedFlagChain, IrqOnlyIfOn, Running, CtxBase
  <1>8. SavedFlagChain'
    BY SMTT(30), <1>1 DEF TryLockBegin, DisableIrq, MayAcquire, SavedFlagChain, BusyMasked, FlagRestored, Discipline, MutualExclusion, Owned, MayAcquire, Innermost, Running, CtxBase
  <1>9. IrqOnlyIfOn'
    BY <1>1 DEF TryLockBegin, DisableIrq, MayAcquire, IrqOnlyIfOn, FlagRestored, BusyMasked, CtxBase, Running
  <1> QED
    BY <1>1, <1>2, <1>3, <1>4, <1>5, <1>6, <1>7, <1>8, <1>9 DEF SpinlockInv

(* The exchange of lock. *)
LEMMA LockCasIInv ==
  ASSUME SpinlockInv, NEW x \in Ctx, LockCas(x)
  PROVE  SpinlockInv'
  <1> USE CtxShape, LocksAssumption DEF SpinlockInv, SpinlockTyped
  <1>1. SpinlockTyped'
    BY DEF LockCas, Ops
  <1>2. MutualExclusion'
    BY SMTT(30), LockCasOwned DEF OwnedGains, MutualExclusion
  <1>3. NeverUnlockedTwice'
    BY <1>1 DEF LockCas, NeverUnlockedTwice
  <1>4. StateMatchesOwner'
    BY SMTT(30), <1>1 DEF LockCas, StateMatchesOwner, MutualExclusion, Discipline, Innermost, Owned
  <1>5. BusyMasked'
    BY SMTT(30), <1>1 DEF LockCas, BusyMasked, Running, FlagRestored, SavedFlagChain, CtxBase
  <1>6. Discipline'
    BY <1>1 DEF LockCas, Discipline, MayAcquire, Innermost
  <1>7. FlagRestored'
    BY SMTT(30), <1>1 DEF LockCas, FlagRestored, BusyMasked, SavedFlagChain, IrqOnlyIfOn, Running, CtxBase
  <1>8. SavedFlagChain'
    BY SMTT(30), <1>1 DEF LockCas, SavedFlagChain, BusyMasked, FlagRestored, Discipline, MutualExclusion, Owned, MayAcquire, Innermost, Running, CtxBase
  <1>9. IrqOnlyIfOn'
    BY <1>1 DEF LockCas, IrqOnlyIfOn, FlagRestored, BusyMasked, CtxBase, Running
  <1> QED
    BY <1>1, <1>2, <1>3, <1>4, <1>5, <1>6, <1>7, <1>8, <1>9 DEF SpinlockInv

(* The exchange of try_lock. *)
LEMMA TryLockCasIInv ==
  ASSUME SpinlockInv, NEW x \in Ctx, TryLockCas(x)
  PROVE  SpinlockInv'
  <1> USE CtxShape, LocksAssumption DEF SpinlockInv, SpinlockTyped
  <1>1. SpinlockTyped'
    BY DEF TryLockCas, Ops
  <1>2. MutualExclusion'
    BY SMTT(30), TryLockCasOwned DEF OwnedGains, OwnedSame, MutualExclusion
  <1>3. NeverUnlockedTwice'
    BY SMTT(30), <1>1 DEF TryLockCas, NeverUnlockedTwice
  <1>4. StateMatchesOwner'
    BY SMTT(30), <1>1 DEF TryLockCas, StateMatchesOwner, MutualExclusion, Discipline, Innermost, Owned
  <1>5. BusyMasked'
    BY SMTT(30), <1>1 DEF TryLockCas, BusyMasked, Running, FlagRestored, SavedFlagChain, CtxBase
  <1>6. Discipline'
    BY SMTT(30), <1>1 DEF TryLockCas, Discipline, MayAcquire, Innermost
  <1>7. FlagRestored'
    BY SMTT(30), <1>1 DEF TryLockCas, FlagRestored, BusyMasked, SavedFlagChain, IrqOnlyIfOn, Running, CtxBase
  <1>8. SavedFlagChain'
    BY SMTT(30), <1>1 DEF TryLockCas, SavedFlagChain, BusyMasked, FlagRestored, Discipline, MutualExclusion, Owned, MayAcquire, Innermost, Running, CtxBase
  <1>9. IrqOnlyIfOn'
    BY <1>1 DEF TryLockCas, IrqOnlyIfOn, FlagRestored, BusyMasked, CtxBase, Running
  <1> QED
    BY <1>1, <1>2, <1>3, <1>4, <1>5, <1>6, <1>7, <1>8, <1>9 DEF SpinlockInv

(* The store of irq_state by the new owner. *)
LEMMA StoreIrqStateIInv ==
  ASSUME SpinlockInv, NEW x \in Ctx, StoreIrqState(x)
  PROVE  SpinlockInv'
  <1> USE CtxShape, LocksAssumption DEF SpinlockInv, SpinlockTyped
  <1>1. SpinlockTyped'
    BY SMTT(30) DEF StoreIrqState, Ops
  <1>2. MutualExclusion'
    BY StoreOwned DEF OwnedSame, MutualExclusion
  <1>3. NeverUnlockedTwice'
    BY <1>1 DEF StoreIrqState, NeverUnlockedTwice
  <1>4. StateMatchesOwner'
    BY SMTT(30), <1>1 DEF StoreIrqState, StateMatchesOwner, MutualExclusion, Discipline, Innermost, Owned
  <1>5. BusyMasked'
    BY SMTT(30), <1>1 DEF StoreIrqState, BusyMasked, Running, FlagRestored, SavedFlagChain, CtxBase
  <1>6. Discipline'
    BY <1>1 DEF StoreIrqState, Discipline, MayAcquire, Innermost
  <1>7. FlagRestored'
    BY SMTT(30), <1>1 DEF StoreIrqState, FlagRestored, BusyMasked, SavedFlagChain, IrqOnlyIfOn, Running, CtxBase
  <1>8. SavedFlagChain'
    BY SMTT(30), <1>1 DEF StoreIrqState, SavedFlagChain, BusyMasked, FlagRestored, Discipline, MutualExclusion, Owned, MayAcquire, Innermost, Running, CtxBase
  <1>9. IrqOnlyIfOn'
    BY <1>1 DEF StoreIrqState, IrqOnlyIfOn, FlagRestored, BusyMasked, CtxBase, Running
  <1> QED
    BY <1>1, <1>2, <1>3, <1>4, <1>5, <1>6, <1>7, <1>8, <1>9 DEF SpinlockInv

(* unlock reads irq_state. *)
LEMMA UnlockLoadIInv ==
  ASSUME SpinlockInv, NEW x \in Ctx, NEW l \in Locks, UnlockLoad(x, l)
  PROVE  SpinlockInv'
  <1> USE CtxShape, LocksAssumption DEF SpinlockInv, SpinlockTyped
  <1>1. SpinlockTyped'
    BY DEF UnlockLoad, Innermost, Ops
  <1>2. MutualExclusion'
    BY SMTT(30), <1>1 DEF UnlockLoad, Innermost, MutualExclusion, Owned
  <1>3. NeverUnlockedTwice'
    BY <1>1 DEF UnlockLoad, Innermost, NeverUnlockedTwice
  <1>4. StateMatchesOwner'
    BY SMTT(30), <1>1 DEF UnlockLoad, Innermost, StateMatchesOwner, MutualExclusion, Discipline, Innermost, Owned
  <1>5. BusyMasked'
    BY SMTT(30), <1>1 DEF UnlockLoad, Innermost, BusyMasked, Running, FlagRestored, SavedFlagChain, CtxBase
  <1>6. Discipline'
    BY <1>1 DEF UnlockLoad, Innermost, Discipline, MayAcquire, Innermost
  <1>7. FlagRestored'
    BY SMTT(30), <1>1 DEF UnlockLoad, Innermost, FlagRestored, BusyMasked, SavedFlagChain, IrqOnlyIfOn, Running, CtxBase
  <1>8. SavedFlagChain'
    BY SMTT(30), <1>1 DEF UnlockLoad, Innermost, SavedFlagChain, BusyMasked, FlagRestored, Discipline, MutualExclusion, Owned, MayAcquire, Innermost, Running, CtxBase
  <1>9. IrqOnlyIfOn'
    BY <1>1 DEF UnlockLoad, Innermost, IrqOnlyIfOn, FlagRestored, BusyMasked, CtxBase, Running
  <1> QED
    BY <1>1, <1>2, <1>3, <1>4, <1>5, <1>6, <1>7, <1>8, <1>9 DEF SpinlockInv

(* unlock gives the lock away. *)
LEMMA UnlockSwapIInv ==
  ASSUME SpinlockInv, NEW x \in Ctx, UnlockSwap(x)
  PROVE  SpinlockInv'
  <1> USE CtxShape, LocksAssumption DEF SpinlockInv, SpinlockTyped
  <1>1. SpinlockTyped'
    BY DEF UnlockSwap, Ops
  <1>2. MutualExclusion'
    BY SMTT(30), SwapOwned DEF OwnedLoses, MutualExclusion
  <1>3. NeverUnlockedTwice'
    BY SwapOwned DEF UnlockSwap, NeverUnlockedTwice
  <1>4. StateMatchesOwner'
    BY SMTT(30), <1>1 DEF UnlockSwap, StateMatchesOwner, MutualExclusion, Discipline, Innermost, Owned
  <1>5. BusyMasked'
    BY SMTT(30), <1>1 DEF UnlockSwap, BusyMasked, Running, FlagRestored, SavedFlagChain, CtxBase
  <1>6. Discipline'
    BY <1>1 DEF UnlockSwap, Discipline, MayAcquire, Innermost
  <1>7. FlagRestored'
    BY SMTT(30), <1>1 DEF UnlockSwap, FlagRestored, BusyMasked, SavedFlagChain, IrqOnlyIfOn, Running, CtxBase
  <1>8. SavedFlagChain'
    <2>1. /\ target[x] \in held[x] /\ \A m \in held[x] : m <= target[x]
          /\ saved[x] <=> CtxBase(x) /\ \A m \in held[x] : target[x] <= m
          /\ held' = [held EXCEPT ![x] = @ \ {target[x]}]
          /\ CtxBase(x)' <=> CtxBase(x)
          /\ irqState' = irqState /\ saved' = saved /\ target' = target
          /\ op'[x] = "restore" /\ \A y \in Ctx \ {x} : op'[y] = op[y]
      BY ZenonT(60), SwapOwned
      DEF UnlockSwap, SavedFlagChain, Discipline, Innermost, CtxBase
    <2>2. ASSUME NEW y \in Ctx, NEW l \in held'[y]
          PROVE  irqState'[l] <=> CtxBase(y)' /\ \A m \in held'[y] : l <= m
      <3>1. CASE y # x
        BY SMTT(30), <2>1, <3>1 DEF UnlockSwap, SavedFlagChain, CtxBase
      <3>2. CASE y = x
        <4>1. l \in held[x] /\ l # target[x] /\ l \in Nat /\ target[x] \in Nat
          BY <2>1, <3>2
        <4>2. irqState[l] <=> CtxBase(x) /\ \A m \in held[x] : l <= m
          BY <4>1 DEF SavedFlagChain
        <4>3. (\A m \in held[x] : l <= m) <=> (\A m \in held'[x] : l <= m)
          BY SMTT(30), <2>1, <4>1
        <4> QED
          BY <2>1, <3>2, <4>2, <4>3
      <3> QED
        BY <3>1, <3>2
    <2>3. saved'[x] <=> CtxBase(x)' /\ held'[x] = {}
      <3>1. (\A m \in held[x] : target[x] <= m) <=> held'[x] = {}
        <4>1. held[x] \in SUBSET Nat /\ held'[x] = held[x] \ {target[x]}
          BY <2>1
        <4>2. target[x] \in held[x] /\ \A m \in held[x] : m <= target[x]
          BY <2>1
        <4>3. (\A m \in held[x] : target[x] <= m) <=> held[x] \ {target[x]} = {}
          BY ONLY SMTT(30), <4>1, <4>2, GreatestIsLeast
        <4> QED
          BY <4>1, <4>3
      <3> QED
        BY <2>1, <3>1
    <2>4. \A y \in Ctx \ {x} :
            /\ op'[y] \in {"cas", "trycas", "store", "restore"} =>
                 (saved'[y] <=> CtxBase(y)' /\ held'[y] = {})
            /\ op'[y] = "swap" => (saved'[y] <=> irqState'[target'[y]])
      BY SMTT(30), <2>1 DEF UnlockSwap, SavedFlagChain, CtxBase
    <2> QED
      BY SMTT(30), <2>1, <2>2, <2>3, <2>4 DEF SavedFlagChain
  <1>9. IrqOnlyIfOn'
    BY <1>1 DEF UnlockSwap, IrqOnlyIfOn, FlagRestored, BusyMasked, CtxBase, Running
  <1> QED
    BY <1>1, <1>2, <1>3, <1>4, <1>5, <1>6, <1>7, <1>8, <1>9 DEF SpinlockInv

(* unlock or a failed try_lock restores the flag. *)
LEMMA RestoreIrqIInv ==
  ASSUME SpinlockInv, NEW x \in Ctx, RestoreIrq(x)
  PROVE  SpinlockInv'
  <1> USE CtxShape, LocksAssumption DEF SpinlockInv, SpinlockTyped
  <1>1. SpinlockTyped'
    BY DEF RestoreIrq, SetIrq, Ops
  <1>2. MutualExclusion'
    BY SMTT(30), <1>1 DEF RestoreIrq, SetIrq, MutualExclusion, Owned
  <1>3. NeverUnlockedTwice'
    BY <1>1 DEF RestoreIrq, SetIrq, NeverUnlockedTwice
  <1>4. StateMatchesOwner'
    BY SMTT(30), <1>1 DEF RestoreIrq, SetIrq, StateMatchesOwner, MutualExclusion, Discipline, Innermost, Owned
  <1>5. BusyMasked'
    BY SMTT(30), <1>1 DEF RestoreIrq, SetIrq, BusyMasked, Running, FlagRestored, SavedFlagChain, CtxBase
  <1>6. Discipline'
    BY <1>1 DEF RestoreIrq, SetIrq, Discipline, MayAcquire, Innermost
  <1>7. FlagRestored'
    BY SMTT(30), <1>1 DEF RestoreIrq, SetIrq, FlagRestored, BusyMasked, SavedFlagChain, IrqOnlyIfOn, Running, CtxBase
  <1>8. SavedFlagChain'
    BY SMTT(30), <1>1 DEF RestoreIrq, SetIrq, SavedFlagChain, BusyMasked, FlagRestored, Discipline, MutualExclusion, Owned, MayAcquire, Innermost, Running, CtxBase
  <1>9. IrqOnlyIfOn'
    BY <1>1 DEF RestoreIrq, SetIrq, IrqOnlyIfOn, FlagRestored, BusyMasked, CtxBase, Running
  <1> QED
    BY <1>1, <1>2, <1>3, <1>4, <1>5, <1>6, <1>7, <1>8, <1>9 DEF SpinlockInv

(* An interrupt is delivered. *)
LEMMA IrqEnterIInv ==
  ASSUME SpinlockInv, NEW c \in Cores, IrqEnter(c)
  PROVE  SpinlockInv'
  <1> USE CtxShape, LocksAssumption DEF SpinlockInv, SpinlockTyped
  <1>1. SpinlockTyped'
    BY DEF IrqEnter, Ops
  <1>2. MutualExclusion'
    BY <1>1 DEF IrqEnter, MutualExclusion, Owned
  <1>3. NeverUnlockedTwice'
    BY <1>1 DEF IrqEnter, NeverUnlockedTwice
  <1>4. StateMatchesOwner'
    BY SMTT(30), <1>1 DEF IrqEnter, StateMatchesOwner, MutualExclusion, Discipline, Innermost, Owned
  <1>5. BusyMasked'
    BY SMTT(30), <1>1 DEF IrqEnter, BusyMasked, Running, FlagRestored, SavedFlagChain, CtxBase
  <1>6. Discipline'
    BY <1>1 DEF IrqEnter, Discipline, MayAcquire, Innermost
  <1>7. FlagRestored'
    BY <1>1 DEF IrqEnter, FlagRestored, BusyMasked, SavedFlagChain, IrqOnlyIfOn, Running, CtxBase
  <1>8. SavedFlagChain'
    BY <1>1 DEF IrqEnter, SavedFlagChain, BusyMasked, FlagRestored, Discipline, MutualExclusion, Owned, MayAcquire, Innermost, Running, CtxBase
  <1>9. IrqOnlyIfOn'
    <2>1. op[<<c, "thread">>] = "run" /\ held[<<c, "thread">>] = {}
      BY CtxPair DEF IrqEnter, BusyMasked
    <2>2. irqBase[c]
      BY <2>1, CtxPair DEF IrqEnter, FlagRestored, Running, CtxBase
    <2> QED
      BY <2>2 DEF IrqEnter, IrqOnlyIfOn
  <1> QED
    BY <1>1, <1>2, <1>3, <1>4, <1>5, <1>6, <1>7, <1>8, <1>9 DEF SpinlockInv

(* A handler returns. *)
LEMMA IrqReturnIInv ==
  ASSUME SpinlockInv, NEW c \in Cores, IrqReturn(c)
  PROVE  SpinlockInv'
  <1> USE CtxShape, LocksAssumption DEF SpinlockInv, SpinlockTyped
  <1>1. SpinlockTyped'
    BY DEF IrqReturn, Ops
  <1>2. MutualExclusion'
    BY SMTT(30), <1>1 DEF IrqReturn, MutualExclusion, Owned
  <1>3. NeverUnlockedTwice'
    BY <1>1 DEF IrqReturn, NeverUnlockedTwice
  <1>4. StateMatchesOwner'
    BY SMTT(30), <1>1 DEF IrqReturn, StateMatchesOwner, MutualExclusion, Discipline, Innermost, Owned
  <1>5. BusyMasked'
    BY CtxPair DEF IrqReturn, BusyMasked, Running
  <1>6. Discipline'
    BY <1>1 DEF IrqReturn, Discipline, MayAcquire, Innermost
  <1>7. FlagRestored'
    BY SMTT(30), <1>1 DEF IrqReturn, FlagRestored, BusyMasked, SavedFlagChain, IrqOnlyIfOn, Running, CtxBase
  <1>8. SavedFlagChain'
    BY <1>1 DEF IrqReturn, SavedFlagChain, BusyMasked, FlagRestored, Discipline, MutualExclusion, Owned, MayAcquire, Innermost, Running, CtxBase
  <1>9. IrqOnlyIfOn'
    BY <1>1 DEF IrqReturn, IrqOnlyIfOn, FlagRestored, BusyMasked, CtxBase, Running
  <1> QED
    BY <1>1, <1>2, <1>3, <1>4, <1>5, <1>6, <1>7, <1>8, <1>9 DEF SpinlockInv

-----------------------------------------------------------------------------
(* Every step of every context, and every interrupt, keeps the invariant. *)
LEMMA SpinlockNextInv == SpinlockInv /\ [SpinlockNext]_spinlockVars => SpinlockInv'
  <1> SUFFICES ASSUME SpinlockInv, [SpinlockNext]_spinlockVars PROVE SpinlockInv'
    OBVIOUS
  <1>1. CASE UNCHANGED spinlockVars
    BY SMTT(30), <1>1
    DEF spinlockVars, SpinlockInv, SpinlockTyped, MutualExclusion, NeverUnlockedTwice, Owned,
        StateMatchesOwner, BusyMasked, Discipline, FlagRestored, CtxBase,
        SavedFlagChain, IrqOnlyIfOn, Running, MayAcquire, Innermost
  <1>2. ASSUME NEW x \in Ctx, NEW l \in Locks,
               LockBegin(x, l) \/ TryLockBegin(x, l) \/ UnlockLoad(x, l)
        PROVE  SpinlockInv'
    BY <1>2, LockBeginIInv, TryLockBeginIInv, UnlockLoadIInv
  <1>3. ASSUME NEW x \in Ctx, ContinueOp(x)
        PROVE  SpinlockInv'
    BY <1>3, LockCasIInv, TryLockCasIInv, StoreIrqStateIInv, UnlockSwapIInv,
       RestoreIrqIInv
    DEF ContinueOp
  <1>4. ASSUME NEW c \in Cores, IrqEnter(c) \/ IrqReturn(c)
        PROVE  SpinlockInv'
    BY <1>4, IrqEnterIInv, IrqReturnIInv
  <1> QED
    BY <1>1, <1>2, <1>3, <1>4 DEF SpinlockNext, Release

(* The inductive invariant holds throughout. *)
THEOREM SpinlockInvariance == SpinlockSpec => []SpinlockInv
  BY SpinlockInitInv, SpinlockNextInv, PTL DEF SpinlockSpec

(* The lock words, saved flags and guards of RawSpinlock keep their types. *)
THEOREM SpinlockTypeOK == SpinlockSpec => []SpinlockTyped
  <1>1. SpinlockInv => SpinlockTyped
    BY DEF SpinlockInv
  <1> QED
    BY <1>1, SpinlockInvariance, PTL

(* RawSpinlock gives exclusive ownership, with any number of cores, locks  *)
(* and interrupts.                                                         *)
THEOREM SpinlockMutualExclusion == SpinlockSpec => []MutualExclusion
  <1>1. SpinlockInv => MutualExclusion
    BY DEF SpinlockInv
  <1> QED
    BY <1>1, SpinlockInvariance, PTL

(* A handler never runs on top of the owner of a lock. *)
THEOREM SpinlockOwnerNotInterrupted == SpinlockSpec => []OwnerNotInterrupted
  <1>1. SpinlockInv => OwnerNotInterrupted
    BY DEF SpinlockInv, BusyMasked, OwnerNotInterrupted, Owned
  <1> QED
    BY <1>1, SpinlockInvariance, PTL

(* Dropping the last guard gives the core its interrupt flag back. *)
THEOREM SpinlockFlagRestored == SpinlockSpec => []FlagRestored
  <1>1. SpinlockInv => FlagRestored
    BY DEF SpinlockInv
  <1> QED
    BY <1>1, SpinlockInvariance, PTL

(* The unreachable! of unlock is never reached. *)
THEOREM SpinlockNeverUnlockedTwice == SpinlockSpec => []NeverUnlockedTwice
  <1>1. SpinlockInv => NeverUnlockedTwice
    BY DEF SpinlockInv
  <1> QED
    BY <1>1, SpinlockInvariance, PTL

(* RawSpinlock implements the abstract lock: its exchange is the acquiring *)
(* step, its swap the releasing one, and every other step is invisible.    *)
THEOREM SpinlockImplementsLock == SpinlockSpec => ImplementsLock
  <1> DEFINE owns == [x \in Ctx |-> Owned(x)]
  <1>1. SpinlockInit => ALock!Init
    BY DEF SpinlockInit, ALock!Init, Owned
  <1>2. SpinlockInv /\ [SpinlockNext]_spinlockVars => [ALock!Next]_owns
    <2> SUFFICES ASSUME SpinlockInv, [SpinlockNext]_spinlockVars PROVE [ALock!Next]_owns
      OBVIOUS
    <2>1. ASSUME OwnedSame PROVE UNCHANGED owns
      BY <2>1 DEF OwnedSame
    <2>2. ASSUME NEW x \in Ctx, OwnedGains(x) PROVE ALock!Next
      <3>1. target[x] \in Locks
        BY DEF SpinlockInv, SpinlockTyped
      <3>2. ALock!Acquire(x, target[x])
        BY <2>2 DEF OwnedGains, ALock!Acquire, ALock!Free
      <3> QED
        BY <3>1, <3>2 DEF ALock!Next
    <2>3. ASSUME NEW x \in Ctx, OwnedLoses(x) PROVE ALock!Next
      <3>1. target[x] \in Locks
        BY DEF SpinlockInv, SpinlockTyped
      <3>2. ALock!Release(x, target[x])
        BY <2>3 DEF OwnedLoses, ALock!Release
      <3> QED
        BY <3>1, <3>2 DEF ALock!Next
    <2>4. CASE UNCHANGED spinlockVars
      BY <2>4, <2>1 DEF spinlockVars, OwnedSame, Owned
    <2>5. ASSUME NEW x \in Ctx, NEW l \in Locks,
                 LockBegin(x, l) \/ TryLockBegin(x, l) \/ UnlockLoad(x, l)
          PROVE  OwnedSame
      BY <2>5 DEF SpinlockInv, SpinlockTyped, LockBegin, TryLockBegin, UnlockLoad,
                  OwnedSame, Owned
    <2>6. ASSUME NEW x \in Ctx, ContinueOp(x)
          PROVE  OwnedSame \/ OwnedGains(x) \/ OwnedLoses(x)
      <3>1. RestoreIrq(x) => OwnedSame
        BY DEF SpinlockInv, SpinlockTyped, RestoreIrq, OwnedSame, Owned
      <3> QED
        BY <2>6, <3>1, LockCasOwned, TryLockCasOwned, StoreOwned, SwapOwned
        DEF ContinueOp
    <2>7. ASSUME NEW c \in Cores, IrqEnter(c) \/ IrqReturn(c)
          PROVE  OwnedSame
      BY <2>7 DEF IrqEnter, IrqReturn, OwnedSame, Owned
    <2> QED
      BY <2>1, <2>2, <2>3, <2>4, <2>5, <2>6, <2>7 DEF SpinlockNext, Release
  <1> QED
    BY <1>1, <1>2, SpinlockInvariance, PTL
    DEF SpinlockSpec, ImplementsLock, ALock!Spec
-----------------------------------------------------------------------------
(* RwCount, for any number of threads, any handlers on top of them and any  *)
(* width of the reader count.                                              *)

(* The word is the sum of the guards, and they are compatible. *)
Guards ==
  /\ word.n = Cardinality(Holders("shared"))
  /\ word.u <=> \E t \in Threads : mode[t] = "upgradable"
  /\ word.w <=> \E t \in Threads : mode[t] = "exclusive"
  /\ \A s, t \in Threads : mode[s] = "upgradable" /\ mode[t] = "upgradable" => s = t
  /\ \A s, t \in Threads : mode[s] = "exclusive" /\ mode[t] = "exclusive" => s = t
  /\ word.w => word.n = 0 /\ ~ word.u

(* A method is called with the guard it is a method of, and what it loaded *)
(* while it had that guard shows no writer.                                *)
Locals ==
  \A t \in Threads :
    /\ call[t] # "bug"
    /\ call[t] \in Acquiring => mode[t] = "none"
    /\ call[t] = "unlock_shared" => mode[t] = "shared" /\ ~ old[t].w
    /\ call[t] \in {"unlock_exclusive", "downgrade", "downgrade_to_upgradable"} =>
         mode[t] = "exclusive"
    /\ call[t] \in {"unlock_upgradable", "upgrade", "try_upgrade", "downgrade_upgradable"} =>
         mode[t] = "upgradable"
    /\ call[t] \in {"unlock_upgradable", "downgrade_upgradable"} => ~ old[t].w

RwLockInv == RwLockTyped /\ Guards /\ Locals

(* What a method does to the word when t's guard becomes m: the share of   *)
(* its old guard is taken out and that of the new one put in, which must   *)
(* be compatible with the rest.                                            *)
Share(m) == IF m = "shared" THEN 1 ELSE 0

Moves(t, m) ==
  /\ mode' = [mode EXCEPT ![t] = m]
  /\ m # mode[t]
  /\ mode[t] = "shared" => m = "none"
  /\ word' \in Words
  /\ word'.n = word.n + Share(m) - Share(mode[t])
  /\ word'.u <=> m = "upgradable" \/ (word.u /\ mode[t] # "upgradable")
  /\ word'.w <=> m = "exclusive"
  /\ word.w => mode[t] = "exclusive"
  /\ m = "upgradable" => ~ word.u
  /\ m = "exclusive" => word.n = 0 /\ (word.u => mode[t] = "upgradable")
-----------------------------------------------------------------------------
(* The word as seen by the owner of a guard. *)
LEMMA OwnerSees ==
  ASSUME RwLockTyped, Guards, NEW t \in Threads
  PROVE  /\ mode[t] = "shared" => word.n > 0 /\ ~ word.w
         /\ mode[t] = "upgradable" => word.u /\ ~ word.w
         /\ mode[t] = "exclusive" => word = WriteBit
<1>1. word.n \in Nat /\ IsFiniteSet(Holders("shared"))
  BY SMTT(30), MaxAssumption, ThreadsAssumption, FS_Subset DEF RwLockTyped, Words, Holders
<1>2. ASSUME mode[t] = "shared" PROVE word.n > 0
  <2>1. Holders("shared") # {}
    BY <1>2 DEF Holders
  <2>2. Cardinality(Holders("shared")) # 0
    BY <1>1, <2>1, FS_EmptySet
  <2> QED
    BY <1>1, <2>2 DEF Guards
<1>3. ASSUME mode[t] = "exclusive" PROVE word = WriteBit
  BY <1>3 DEF Guards, RwLockTyped, Words, WriteBit, Word
<1> QED
  BY <1>1, <1>2, <1>3 DEF Guards

LEMMA MoveCounts ==
  ASSUME RwLockTyped, Guards, NEW t \in Threads, NEW m \in Modes, Moves(t, m)
  PROVE  word'.n = Cardinality(Holders("shared")')
<1>1. /\ IsFiniteSet(Holders("shared"))
      /\ word.n = Cardinality(Holders("shared")) /\ word.n \in Nat
  BY SMTT(30), MaxAssumption, ThreadsAssumption, FS_Subset DEF RwLockTyped, Words, Holders, Guards
<1>2. CASE m = "shared"
  <2>1. Holders("shared")' = Holders("shared") \union {t} /\ t \notin Holders("shared")
    BY <1>2 DEF Moves, Holders, RwLockTyped
  <2>2. Cardinality(Holders("shared")') = Cardinality(Holders("shared")) + 1
    BY <1>1, <2>1, FS_AddElement
  <2> QED
    BY <1>1, <1>2, <2>2 DEF Moves, Share
<1>3. CASE mode[t] = "shared"
  <2>1. Holders("shared")' = Holders("shared") \ {t} /\ t \in Holders("shared")
    BY <1>3 DEF Moves, Holders, RwLockTyped
  <2>2. Cardinality(Holders("shared")') = Cardinality(Holders("shared")) - 1
    BY <1>1, <2>1, FS_RemoveElement
  <2> QED
    BY <1>1, <1>3, <2>2 DEF Moves, Share
<1>4. CASE m # "shared" /\ mode[t] # "shared"
  <2>1. Holders("shared")' = Holders("shared")
    BY <1>4 DEF Moves, Holders, RwLockTyped
  <2> QED
    BY <1>1, <1>4, <2>1 DEF Moves, Share
<1> QED
  BY <1>2, <1>3, <1>4

LEMMA MoveGuards ==
  ASSUME RwLockTyped, Guards, NEW t \in Threads, NEW m \in Modes, Moves(t, m)
  PROVE  Guards'
<1>1. word'.n = Cardinality(Holders("shared")')
  BY MoveCounts
<1>2. /\ \A s \in Threads : mode'[s] = IF s = t THEN m ELSE mode[s]
      /\ \A s \in Threads : mode[s] \in Modes
  BY DEF Moves, RwLockTyped
<1>3. /\ word'.u <=> \E s \in Threads : mode'[s] = "upgradable"
      /\ \A r, s \in Threads : mode'[r] = "upgradable" /\ mode'[s] = "upgradable" => r = s
  BY SMTT(30), <1>2 DEF Moves, Guards
<1>4. /\ word'.w <=> \E s \in Threads : mode'[s] = "exclusive"
      /\ \A r, s \in Threads : mode'[r] = "exclusive" /\ mode'[s] = "exclusive" => r = s
  BY SMTT(30), <1>2 DEF Moves, Guards
<1>5. word'.w => word'.n = 0 /\ ~ word'.u
  <2> SUFFICES ASSUME m = "exclusive" PROVE word'.n = 0 /\ ~ word'.u
    BY DEF Moves
  <2>1. word.n = 0 /\ (word.u => mode[t] = "upgradable")
    BY DEF Moves
  <2>2. mode[t] # "shared"
    BY <2>1, OwnerSees
  <2>3. Share(m) = 0 /\ Share(mode[t]) = 0
    BY <2>2 DEF Share
  <2>4. word'.n = 0
    BY <2>1, <2>3 DEF Moves
  <2>5. ~ word'.u
    BY <2>1 DEF Moves
  <2> QED
    BY <2>4, <2>5
<1> QED
  BY <1>1, <1>3, <1>4, <1>5 DEF Guards
-----------------------------------------------------------------------------
(* How a step of t ends, besides in a panic: with guard m, or in another   *)
(* round of the loop with the value just loaded.                           *)
Finishes(t, m) == Moves(t, m) /\ Return(t, m)

GoesRound(t) ==
  /\ old' = [old EXCEPT ![t] = word]
  /\ UNCHANGED <<word, mode, call, calls, under>>

Overflows(t) == call[t] \in Methods /\ Panic(t, "overflow")

LEMMA FinishKeeps ==
  ASSUME RwLockInv, NEW t \in Threads, NEW m \in Modes, Finishes(t, m)
  PROVE  RwLockInv'
<1>1. Guards'
  BY MoveGuards DEF RwLockInv, Finishes
<1>2. Zero \in Words
  BY MaxAssumption DEF Zero, Word, Words
<1>3. RwLockTyped'
  BY <1>2 DEF RwLockInv, RwLockTyped, Finishes, Moves, Return
<1>4. Locals'
  BY DEF RwLockInv, RwLockTyped, Locals, Finishes, Return, Acquiring
<1> QED
  BY <1>1, <1>3, <1>4 DEF RwLockInv

LEMMA ReturnFalseKeeps ==
  ASSUME RwLockInv, NEW t \in Threads, ReturnFalse(t)
  PROVE  RwLockInv' /\ UNCHANGED <<word, mode>>
<1>1. UNCHANGED <<word, mode>>
  BY DEF ReturnFalse, Return, RwLockInv, RwLockTyped
<1>2. Zero \in Words
  BY MaxAssumption DEF Zero, Word, Words
<1>3. RwLockTyped'
  BY <1>1, <1>2 DEF RwLockInv, RwLockTyped, ReturnFalse, Return
<1>4. Guards'
  BY <1>1 DEF RwLockInv, Guards, Holders
<1>5. Locals'
  BY <1>1 DEF RwLockInv, RwLockTyped, Locals, ReturnFalse, Return, Acquiring
<1> QED
  BY <1>1, <1>3, <1>4, <1>5 DEF RwLockInv

LEMMA GoRoundKeeps ==
  ASSUME RwLockInv, NEW t \in Threads, GoesRound(t)
  PROVE  RwLockInv'
<1>1. RwLockTyped'
  BY DEF RwLockInv, RwLockTyped, GoesRound
<1>2. Guards'
  BY DEF RwLockInv, Guards, Holders, GoesRound
<1>3. Locals'
  BY OwnerSees DEF RwLockInv, RwLockTyped, Locals, GoesRound
<1> QED
  BY <1>1, <1>2, <1>3 DEF RwLockInv

LEMMA OverflowKeeps ==
  ASSUME RwLockInv, NEW t \in Threads, Overflows(t)
  PROVE  RwLockInv'
<1>1. RwLockTyped'
  BY DEF RwLockInv, RwLockTyped, Overflows, Panic
<1>2. Guards'
  BY DEF RwLockInv, Guards, Holders, Overflows, Panic
<1>3. Locals'
  BY DEF RwLockInv, RwLockTyped, Locals, Overflows, Panic, Acquiring
<1> QED
  BY <1>1, <1>2, <1>3 DEF RwLockInv

(* The exchange of a value that was loaded for what makes the move. *)
LEMMA ExchangeMoves ==
  ASSUME RwLockInv, NEW t \in Threads, NEW m \in Modes \ {mode[t]},
         ~ old[t].w, NEW u \in BOOLEAN, NEW n \in 0 .. MaxReaders,
         Exchange(t, Word(FALSE, u, n), m),
         n = old[t].n + Share(m) - Share(mode[t]),
         u <=> m = "upgradable" \/ (old[t].u /\ mode[t] # "upgradable"),
         m # "exclusive", m = "upgradable" => ~ old[t].u,
         mode[t] = "shared" => m = "none"
  PROVE  Finishes(t, m) \/ GoesRound(t)
<1>1. CASE word = old[t] /\ word' = Word(FALSE, u, n) /\ Return(t, m)
  <2>1. word' \in Words /\ word'.n = n /\ ~ word'.w /\ word'.u = u
    BY <1>1 DEF Words, Word
  <2>2. mode' = [mode EXCEPT ![t] = m]
    BY <1>1 DEF Return
  <2>3. word'.u <=> m = "upgradable" \/ (word.u /\ mode[t] # "upgradable")
    BY <1>1, <2>1
  <2>4. Moves(t, m)
    BY <1>1, <2>1, <2>2, <2>3 DEF Moves
  <2> QED
    BY <1>1, <2>4 DEF Finishes
<1>2. CASE word # old[t] /\ GoesRound(t)
  BY <1>2
<1> QED
  BY <1>1, <1>2 DEF Exchange, GoesRound

(* The exchange of one constant for another. *)
LEMMA FromWriteBitMoves ==
  ASSUME RwLockInv, NEW t \in Threads, NEW method, NEW new \in Words, NEW m \in Modes \ {"exclusive"},
         mode[t] = "exclusive", FromWriteBit(t, method, new, m),
         new.n = Share(m), new.u <=> m = "upgradable", ~ new.w
  PROVE  Finishes(t, m)
<1>1. word = WriteBit
  BY OwnerSees DEF RwLockInv
<1>2. word.n = 0 /\ word.w /\ ~ word.u
  BY <1>1 DEF WriteBit, Word
<1>3. word' = new /\ Return(t, m) /\ mode' = [mode EXCEPT ![t] = m]
  BY <1>1 DEF FromWriteBit, Return
<1>4. Share(mode[t]) = 0 /\ Share(m) \in Nat
  BY DEF Share
<1>5. word'.n = word.n + Share(m) - Share(mode[t])
  BY <1>2, <1>3, <1>4
<1>6. Moves(t, m)
  BY <1>2, <1>3, <1>5 DEF Moves
<1> QED
  BY <1>3, <1>6 DEF Finishes

LEMMA ToWriteBitMoves ==
  ASSUME RwLockInv, NEW t \in Threads,
         word' = WriteBit, Return(t, "exclusive"),
         \/ word = Zero /\ mode[t] = "none"
         \/ word = UpgradeableBit /\ mode[t] = "upgradable"
  PROVE  Finishes(t, "exclusive")
<1>1. word' \in Words /\ word'.n = 0 /\ word'.w /\ ~ word'.u
  BY MaxAssumption DEF WriteBit, Word, Words
<1>2. word.n = 0 /\ ~ word.w /\ (word.u <=> mode[t] = "upgradable")
  BY DEF Zero, UpgradeableBit, Word
<1>3. word'.n = word.n + Share("exclusive") - Share(mode[t])
  <2>1. Share("exclusive") = 0 /\ Share(mode[t]) = 0
    BY DEF Share
  <2> QED
    BY <1>1, <1>2, <2>1
<1>4. mode' = [mode EXCEPT ![t] = "exclusive"]
  BY DEF Return
<1>5. Moves(t, "exclusive")
  BY <1>1, <1>2, <1>3, <1>4 DEF Moves
<1> QED
  BY <1>5 DEF Finishes

Effect(t) ==
  \/ \E m \in Modes : Finishes(t, m)
  \/ ReturnFalse(t) \/ GoesRound(t) \/ Overflows(t)

LEMMA RefusedEffect ==
  ASSUME NEW t \in Threads, NEW try, Refused(t, try)
  PROVE  Effect(t)
  BY DEF Refused, Effect, GoesRound

(* Every step inside a method has one of the effects: none of the panics   *)
(* that announce a BUG is among them.                                      *)
LEMMA StepEffect ==
  ASSUME RwLockInv, NEW t \in Threads, Step(t)
  PROVE  Effect(t)
<1>0. old[t] \in Words /\ old[t].n \in 0 .. MaxReaders /\ old[t].u \in BOOLEAN /\ word \in Words
  BY DEF RwLockInv, RwLockTyped, Words
<1> USE MaxAssumption
<1>1. CASE LockShared(t)
  <2>0. mode[t] = "none" /\ call[t] \in Methods
    BY <1>1 DEF LockShared, RwLockInv, Locals, Acquiring, Methods
  <2>1. CASE Panic(t, "overflow")
    BY <2>0, <2>1 DEF Effect, Overflows
  <2>2. CASE Refused(t, "try_lock_shared")
    BY <2>2, RefusedEffect
  <2>3. CASE /\ old[t].n # MaxReaders /\ ~ old[t].w
             /\ Exchange(t, Word(FALSE, old[t].u, old[t].n + 1), "shared")
    <3>1. old[t].n + 1 \in 0 .. MaxReaders
      BY SMTT(30), <1>0, <2>3
    <3>2. old[t].n + 1 = old[t].n + Share("shared") - Share(mode[t])
      BY <1>0, <2>0 DEF Share
    <3>3. Finishes(t, "shared") \/ GoesRound(t)
      BY <1>0, <2>0, <2>3, <3>1, <3>2, ExchangeMoves DEF Modes
    <3> QED
      BY <3>3 DEF Effect, Modes
  <2> QED
    BY <1>1, <2>1, <2>2, <2>3 DEF LockShared
<1>2. CASE UnlockShared(t)
  <2>1. mode[t] = "shared" /\ ~ old[t].w
    BY <1>2 DEF UnlockShared, RwLockInv, Locals
  <2>2. Exchange(t, Word(FALSE, old[t].u, old[t].n - 1), "none")
    BY <1>2, <2>1 DEF UnlockShared
  <2>3. CASE old[t].n > 0
    <3>1. old[t].n - 1 \in 0 .. MaxReaders
      BY SMTT(30), <1>0, <2>3
    <3>2. old[t].n - 1 = old[t].n + Share("none") - Share(mode[t])
      BY <1>0, <2>1 DEF Share
    <3>3. Finishes(t, "none") \/ GoesRound(t)
      BY <1>0, <2>1, <2>2, <3>1, <3>2, ExchangeMoves DEF Modes
    <3> QED
      BY <3>3 DEF Effect, Modes
  <2>4. CASE ~ (old[t].n > 0)
    <3>1. word # old[t]
      BY <2>1, <2>4, OwnerSees DEF RwLockInv
    <3> QED
      BY <2>2, <3>1 DEF Exchange, Effect, GoesRound
  <2> QED
    BY <2>3, <2>4
<1>3. CASE LockExclusive(t)
  <2>1. mode[t] = "none"
    BY <1>3 DEF LockExclusive, RwLockInv, Locals, Acquiring
  <2> QED
    BY <1>3, <2>1, ToWriteBitMoves DEF LockExclusive, Effect, Modes
<1>4. CASE UnlockExclusive(t)
  <2>1. mode[t] = "exclusive"
    BY <1>4 DEF UnlockExclusive, FromWriteBit, RwLockInv, Locals
  <2>2. Zero \in Words /\ Zero.n = Share("none") /\ ~ Zero.u /\ ~ Zero.w
    BY DEF Zero, Word, Words, Share
  <2>3. Finishes(t, "none")
    BY <1>4, <2>1, <2>2, FromWriteBitMoves DEF UnlockExclusive, Modes
  <2> QED
    BY <2>3 DEF Effect, Modes
<1>5. CASE Downgrade(t)
  <2>1. mode[t] = "exclusive"
    BY <1>5 DEF Downgrade, FromWriteBit, RwLockInv, Locals
  <2>2. OneReader \in Words /\ OneReader.n = Share("shared") /\ ~ OneReader.u /\ ~ OneReader.w
    BY DEF OneReader, Word, Words, Share
  <2>3. Finishes(t, "shared")
    BY <1>5, <2>1, <2>2, FromWriteBitMoves DEF Downgrade, Modes
  <2> QED
    BY <2>3 DEF Effect, Modes
<1>6. CASE DowngradeToUpgradable(t)
  <2>1. mode[t] = "exclusive"
    BY <1>6 DEF DowngradeToUpgradable, FromWriteBit, RwLockInv, Locals
  <2>2. /\ UpgradeableBit \in Words /\ UpgradeableBit.n = Share("upgradable")
        /\ UpgradeableBit.u /\ ~ UpgradeableBit.w
    BY DEF UpgradeableBit, Word, Words, Share
  <2>3. Finishes(t, "upgradable")
    BY <1>6, <2>1, <2>2, FromWriteBitMoves DEF DowngradeToUpgradable, Modes
  <2> QED
    BY <2>3 DEF Effect, Modes
<1>7. CASE LockUpgradable(t)
  <2>0. mode[t] = "none"
    BY <1>7 DEF LockUpgradable, RwLockInv, Locals, Acquiring
  <2>1. CASE Refused(t, "try_lock_upgradable")
    BY <2>1, RefusedEffect
  <2>2. CASE ~ old[t].w /\ ~ old[t].u /\ Exchange(t, Word(FALSE, TRUE, old[t].n), "upgradable")
    <3>1. old[t].n = old[t].n + Share("upgradable") - Share(mode[t])
      BY <1>0, <2>0 DEF Share
    <3>2. Finishes(t, "upgradable") \/ GoesRound(t)
      BY <1>0, <2>0, <2>2, <3>1, ExchangeMoves DEF Modes
    <3> QED
      BY <3>2 DEF Effect, Modes
  <2> QED
    BY <1>7, <2>1, <2>2 DEF LockUpgradable
<1>8. CASE UnlockUpgradable(t)
  <2>1. mode[t] = "upgradable" /\ ~ old[t].w
    BY <1>8 DEF UnlockUpgradable, RwLockInv, Locals
  <2>2. Exchange(t, Word(FALSE, FALSE, old[t].n), "none")
    BY <1>8, <2>1 DEF UnlockUpgradable
  <2>3. old[t].n = old[t].n + Share("none") - Share(mode[t])
    BY <1>0, <2>1 DEF Share
  <2>4. Finishes(t, "none") \/ GoesRound(t)
    BY <1>0, <2>1, <2>2, <2>3, ExchangeMoves DEF Modes
  <2> QED
    BY <2>4 DEF Effect, Modes
<1>9. CASE Upgrade(t)
  <2>1. mode[t] = "upgradable"
    BY <1>9 DEF Upgrade, RwLockInv, Locals
  <2> QED
    BY <1>9, <2>1, ToWriteBitMoves DEF Upgrade, Effect, Modes
<1>10. CASE DowngradeUpgradable(t)
  <2>0. mode[t] = "upgradable" /\ ~ old[t].w /\ call[t] \in Methods
    BY <1>10 DEF DowngradeUpgradable, RwLockInv, Locals, Methods, Releasing
  <2>1. CASE Panic(t, "overflow")
    BY <2>0, <2>1 DEF Effect, Overflows
  <2>2. CASE old[t].n # MaxReaders /\ Exchange(t, Word(FALSE, FALSE, old[t].n + 1), "shared")
    <3>1. old[t].n + 1 \in 0 .. MaxReaders
      BY SMTT(30), <1>0, <2>2
    <3>2. old[t].n + 1 = old[t].n + Share("shared") - Share(mode[t])
      BY <1>0, <2>0 DEF Share
    <3>3. Finishes(t, "shared") \/ GoesRound(t)
      BY <1>0, <2>0, <2>2, <3>1, <3>2, ExchangeMoves DEF Modes
    <3> QED
      BY <3>3 DEF Effect, Modes
  <2> QED
    BY <1>10, <2>0, <2>1, <2>2 DEF DowngradeUpgradable
<1> QED
  BY <1>1, <1>2, <1>3, <1>4, <1>5, <1>6, <1>7, <1>8, <1>9, <1>10 DEF Step
-----------------------------------------------------------------------------
(* A call: its guard fits, and what it loads is the word of now. *)
LEMMA CallKeeps ==
  ASSUME RwLockInv, NEW t \in Threads, NEW m \in Methods,
         (Acquire(t, m) /\ m \in Acquiring) \/ ReleaseCall(t, m)
  PROVE  RwLockInv' /\ UNCHANGED <<word, mode>>
<1>1. UNCHANGED <<word, mode, under>> /\ Call(t, m)
  BY DEF Acquire, ReleaseCall
<1>2. RwLockTyped'
  <2>1. calls' \in [Threads -> 0 .. MaxCalls]
    BY SMTT(30), MaxAssumption DEF Acquire, ReleaseCall, RwLockInv, RwLockTyped
  <2> QED
    BY <1>1, <2>1 DEF Call, RwLockInv, RwLockTyped
<1>3. Guards'
  BY <1>1 DEF RwLockInv, Guards, Holders
<1>4. \/ m \in Acquiring /\ mode[t] = "none"
      \/ m = "unlock_shared" /\ mode[t] = "shared"
      \/ m \in {"unlock_exclusive", "downgrade", "downgrade_to_upgradable"} /\ mode[t] = "exclusive"
      \/ m \in {"unlock_upgradable", "upgrade", "try_upgrade", "downgrade_upgradable"}
           /\ mode[t] = "upgradable"
  BY SMTT(30) DEF Acquire, ReleaseCall, Releasing, RwLockInv, RwLockTyped, Modes
<1>5. m \in {"unlock_shared", "unlock_upgradable", "downgrade_upgradable"} => ~ old'[t].w
  <2>1. m \in {"unlock_shared", "unlock_upgradable", "downgrade_upgradable"} => ~ word.w
    BY <1>4, OwnerSees DEF RwLockInv, Acquiring
  <2> QED
    BY <1>1, <2>1 DEF Call, RwLockInv, RwLockTyped, Snapshot
<1>6. Locals'
  BY <1>1, <1>4, <1>5 DEF Call, RwLockInv, RwLockTyped, Locals, Acquiring
<1> QED
  BY <1>1, <1>2, <1>3, <1>6 DEF RwLockInv

LEMMA RwLockInitInv == RwLockInit => RwLockInv
<1> SUFFICES ASSUME RwLockInit PROVE RwLockInv
  OBVIOUS
<1>1. RwLockTyped
  BY MaxAssumption DEF RwLockInit, RwLockTyped, Zero, Word, Words, Modes
<1>2. Guards
  <2>1. Holders("shared") = {}
    BY DEF RwLockInit, Holders
  <2> QED
    BY <2>1, FS_EmptySet DEF RwLockInit, Guards, Zero, Word
<1>3. Locals
  BY DEF RwLockInit, Locals, Acquiring
<1> QED
  BY <1>1, <1>2, <1>3 DEF RwLockInv

LEMMA EffectKeeps ==
  ASSUME RwLockInv, NEW t \in Threads, Effect(t)
  PROVE  RwLockInv'
  BY FinishKeeps, ReturnFalseKeeps, GoRoundKeeps, OverflowKeeps DEF Effect

LEMMA RwLockNextInv == RwLockInv /\ [RwLockNext]_rwLockVars => RwLockInv'
<1> SUFFICES ASSUME RwLockInv, [RwLockNext]_rwLockVars PROVE RwLockInv'
  OBVIOUS
<1>1. CASE UNCHANGED rwLockVars
  BY <1>1 DEF rwLockVars, RwLockInv, RwLockTyped, Guards, Holders, Locals
<1>2. ASSUME NEW t \in Threads, NEW m \in Acquiring, Acquire(t, m) PROVE RwLockInv'
  BY <1>2, CallKeeps DEF Methods
<1>3. ASSUME NEW t \in Threads, NEW m \in Methods, ReleaseCall(t, m) PROVE RwLockInv'
  BY <1>3, CallKeeps
<1>4. ASSUME NEW t \in Threads, Step(t) PROVE RwLockInv'
  BY <1>4, StepEffect, EffectKeeps
<1> QED
  BY <1>1, <1>2, <1>3, <1>4 DEF RwLockNext

(* The word and the guards agree, and every method has the guard it needs. *)
THEOREM RwLockInvariance == RwLockSpec => []RwLockInv
  BY RwLockInitInv, RwLockNextInv, PTL DEF RwLockSpec

(* The word counts the guards exactly, however loads and exchanges of the  *)
(* methods interleave.                                                     *)
THEOREM RwLockWordCountsGuards == RwLockSpec => []WordCountsGuards
<1>1. RwLockInv => WordCountsGuards
  BY DEF RwLockInv, Guards, WordCountsGuards, Holders
<1> QED
  BY <1>1, RwLockInvariance, PTL

(* None of the assertions of RwCount that announce a BUG fails. *)
THEOREM RwLockNoBugPanic == RwLockSpec => []NoBugPanic
<1>1. RwLockInv => NoBugPanic
  BY DEF RwLockInv, Locals, NoBugPanic
<1> QED
  BY <1>1, RwLockInvariance, PTL
-----------------------------------------------------------------------------
(* A move of the word is a step of the abstract lock. *)
LEMMA MoveIsAbstract ==
  ASSUME RwLockInv, NEW t \in Threads, NEW m \in Modes, Moves(t, m)
  PROVE  ARwLock!Next
<1>0. mode[t] \in Modes /\ mode' = [mode EXCEPT ![t] = m] /\ m # mode[t]
  BY DEF RwLockInv, RwLockTyped, Moves
<1>1. ASSUME NEW s \in Threads \ {t}, mode[s] # "none"
      PROVE  /\ mode[s] \in {"shared", "upgradable", "exclusive"}
             /\ mode[s] = "shared" => word.n > 0
             /\ mode[s] = "upgradable" => word.u /\ mode[t] # "upgradable"
             /\ mode[s] # "exclusive"
  BY <1>1, OwnerSees DEF RwLockInv, RwLockTyped, Modes, Guards, Moves
<1>2. CASE m = "none"
  BY <1>0, <1>2 DEF ARwLock!Next, ARwLock!Drop
<1>3. CASE mode[t] = "none"
  <2>1. m \in {"shared", "upgradable", "exclusive"}
    BY <1>0, <1>3 DEF Modes
  <2>2. ARwLock!Others(t) \subseteq ARwLock!Compatible(m)
    <3>1. ASSUME NEW s \in Threads \ {t}, mode[s] # "none"
          PROVE  mode[s] \in ARwLock!Compatible(m)
      <4>1. CASE m = "shared"
        BY <1>1, <3>1, <4>1 DEF ARwLock!Compatible
      <4>2. CASE m = "upgradable"
        BY <1>1, <3>1, <4>2 DEF ARwLock!Compatible, Moves
      <4>3. CASE m = "exclusive"
        BY <1>1, <1>3, <3>1, <4>3 DEF Moves
      <4> QED
        BY <2>1, <4>1, <4>2, <4>3
    <3> QED
      BY <3>1 DEF ARwLock!Others
  <2>3. ARwLock!Take(t, m)
    BY <1>0, <1>3, <2>2 DEF ARwLock!Take
  <2> QED
    BY <2>1, <2>3 DEF ARwLock!Next
<1>4. CASE mode[t] = "upgradable" /\ m = "exclusive"
  <2>1. ARwLock!Others(t) = {}
    <3>1. \A s \in Threads \ {t} : mode[s] = "none"
      BY <1>1, <1>4 DEF Moves
    <3> QED
      BY <3>1 DEF ARwLock!Others
  <2> QED
    BY <1>0, <1>4, <2>1 DEF ARwLock!Next, ARwLock!Upgrade
<1>5. CASE \/ mode[t] = "exclusive" /\ m \in {"shared", "upgradable"}
           \/ mode[t] = "upgradable" /\ m = "shared"
  BY <1>0, <1>5 DEF ARwLock!Next, ARwLock!Downgrade
<1> QED
  BY SMTT(30), <1>0, <1>2, <1>3, <1>4, <1>5 DEF Modes, Moves

LEMMA EffectIsAbstract ==
  ASSUME RwLockInv, NEW t \in Threads, Effect(t)
  PROVE  ARwLock!Next \/ UNCHANGED mode
  BY MoveIsAbstract, ReturnFalseKeeps DEF Effect, Finishes, GoesRound, Overflows, Panic

(* RwCount implements the abstract lock: every guard is taken, upgraded,   *)
(* downgraded and dropped in one step, compatibly with the others'.        *)
THEOREM RwLockImplements == RwLockSpec => ImplementsRwLock
<1>1. RwLockInit => ARwLock!Init
  BY DEF RwLockInit, ARwLock!Init
<1>2. RwLockInv /\ [RwLockNext]_rwLockVars => [ARwLock!Next]_mode
  <2> SUFFICES ASSUME RwLockInv, [RwLockNext]_rwLockVars PROVE ARwLock!Next \/ UNCHANGED mode
    OBVIOUS
  <2>1. CASE UNCHANGED rwLockVars
    BY <2>1 DEF rwLockVars
  <2>2. ASSUME NEW t \in Threads, NEW m, Acquire(t, m) \/ ReleaseCall(t, m) PROVE UNCHANGED mode
    BY <2>2 DEF Acquire, ReleaseCall
  <2>3. ASSUME NEW t \in Threads, Step(t) PROVE ARwLock!Next \/ UNCHANGED mode
    BY <2>3, StepEffect, EffectIsAbstract
  <2> QED
    BY <2>1, <2>2, <2>3 DEF RwLockNext
<1> QED
  BY <1>1, <1>2, RwLockInvariance, PTL DEF RwLockSpec, ImplementsRwLock, ARwLock!Spec
-----------------------------------------------------------------------------
(* The run queue, the guard and the interrupt flag of the scheduler, for any number of threads. *)

(* The sequence q lists the set S without repetition. *)
Lists(q, S) ==
  /\ \A i, j \in 1 .. Len(q) : q[i] = q[j] => i = j
  /\ \A i \in 1 .. Len(q) : q[i] \in S
  /\ \A x \in S : \E i \in 1 .. Len(q) : q[i] = x

(* push_back of something new. *)
LEMMA PushBack ==
  ASSUME NEW T, NEW q \in Seq(T), NEW S, NEW x \in T, x \notin S, Lists(q, S)
  PROVE  Append(q, x) \in Seq(T) /\ Lists(Append(q, x), S \union {x})
<1> DEFINE r == Append(q, x)
<1>1. /\ r \in Seq(T) /\ Len(r) = Len(q) + 1 /\ Len(q) \in Nat
      /\ \A i \in 1 .. Len(q) : r[i] = q[i]
      /\ r[Len(q) + 1] = x
  OBVIOUS
<1> HIDE DEF r
<1>2. \A i, j \in 1 .. Len(r) : r[i] = r[j] => i = j
  BY SMTT(30), <1>1 DEF Lists
<1>3. \A i \in 1 .. Len(r) : r[i] \in S \union {x}
  BY SMTT(30), <1>1 DEF Lists
<1>4. \A y \in S \union {x} : \E i \in 1 .. Len(r) : r[i] = y
  BY SMTT(30), <1>1 DEF Lists
<1> QED BY <1>1, <1>2, <1>3, <1>4 DEF r, Lists

(* pop_front. *)
LEMMA PopFront ==
  ASSUME NEW T, NEW q \in Seq(T), NEW S, q # <<>>, Lists(q, S)
  PROVE  /\ Head(q) \in T /\ Head(q) \in S
         /\ Tail(q) \in Seq(T) /\ Lists(Tail(q), S \ {Head(q)})
<1> DEFINE r == Tail(q)
<1>1. /\ Head(q) = q[1] /\ Head(q) \in T /\ r \in Seq(T)
      /\ Len(q) \in Nat /\ Len(q) >= 1 /\ Len(r) = Len(q) - 1
      /\ \A i \in 1 .. Len(r) : r[i] = q[i + 1]
  BY SMTT(30), HeadTailProperties, EmptySeq
<1> HIDE DEF r
<1>2. \A i, j \in 1 .. Len(r) : r[i] = r[j] => i = j
  BY SMTT(30), <1>1 DEF Lists
<1>3. \A i \in 1 .. Len(r) : r[i] \in S \ {Head(q)}
  BY SMTT(30), <1>1 DEF Lists
<1>4. \A y \in S \ {Head(q)} : \E i \in 1 .. Len(r) : r[i] = y
  <2> TAKE y \in S \ {Head(q)}
  <2>1. PICK i \in 1 .. Len(q) : q[i] = y
    BY DEF Lists
  <2>2. i # 1 /\ i - 1 \in 1 .. Len(r) /\ r[i - 1] = y
    BY SMTT(30), <1>1, <2>1
  <2> QED BY <2>2
<1>5. Head(q) \in S
  BY SMTT(30), <1>1 DEF Lists
<1> QED BY <1>1, <1>2, <1>3, <1>4, <1>5 DEF r, Lists
-----------------------------------------------------------------------------
(* Before threading::init there is the boot thread and nothing else. *)
Booting ==
  /\ pc = [t \in Tids |-> IF t = 0 THEN "boot" ELSE "none"]
  /\ Known = {} /\ queue = <<>> /\ current = 0 /\ nextTid = 1
  /\ cell = "free"

(* Afterwards the table has the threads spawned so far.  All but the       *)
(* current one are in the queue and will drop the guard when they go on;   *)
(* the current one has the guard unless it runs, and then the cell has the *)
(* flag of the thread that took the guard.                                 *)
ThreadsOK ==
  /\ Known = 0 .. nextTid - 1 /\ current \in Known
  /\ Lists(queue, Known \ {current})
  /\ \A t \in Known : tasks[t] = "Running" <=> t = current

Places ==
  /\ \A t \in Tids : t # current =>
       pc[t] \in (IF t \in Known THEN {"unlock", "startup"} ELSE {"none"})
  /\ pc[current] \in {"run", "add_task", "schedule", "unlock", "startup"}
  /\ pc[current] = "add_task" => nextTid \in Tids

Guard ==
  IF pc[current] = "run" THEN cell = "free"
                         ELSE cell = came[taker] /\ irq = "off"

SchedulerInv == SchedulerTyped /\ (Booting \/ (ThreadsOK /\ Places /\ Guard))

-----------------------------------------------------------------------------
LEMMA Start == SchedulerInit => SchedulerInv
<1> SUFFICES ASSUME SchedulerInit PROVE SchedulerInv
  OBVIOUS
<1>1. Known = {} /\ tasks \in [Known -> {"Ready", "Running"}]
  BY DEF SchedulerInit, Known
<1>2. SchedulerTyped
  BY SMTT(30), <1>1, MaxTasksAssumption DEF SchedulerInit, SchedulerTyped, Tids, PCs
<1> QED BY <1>1, <1>2 DEF SchedulerInit, SchedulerInv, Booting

(* threading::init. *)
LEMMA InitStep == SchedulerInv /\ ThreadingInit => SchedulerInv'
<1> SUFFICES ASSUME SchedulerInv, ThreadingInit PROVE SchedulerInv'
  OBVIOUS
<1> USE MaxTasksAssumption
<1>1. SchedulerTyped /\ 0 \in Tids
  BY DEF SchedulerInv, Tids
<1>2. Booting
  BY <1>1 DEF SchedulerInv, ThreadingInit, Places, SchedulerTyped, ThreadsOK
<1>3. tasks' = [u \in {0} |-> "Running"]
  BY <1>2 DEF ThreadingInit, Insert, Booting, Known
<1>4. Known' = {0}
  BY <1>3 DEF Known
<1>5. pc' = [pc EXCEPT ![0] = "run"] /\ UNCHANGED <<queue, current, nextTid, cell, irq, came, taker>>
  BY DEF ThreadingInit, Goto, history
<1>6. SchedulerTyped'
  BY <1>1, <1>3, <1>4, <1>5 DEF SchedulerTyped, PCs
<1>7. ThreadsOK'
  <2>1. Known' = 0 .. nextTid' - 1 /\ current' = 0
    BY <1>2, <1>4, <1>5 DEF Booting
  <2>2. Lists(queue', Known' \ {current'})
    BY SMTT(30), <1>2, <1>4, <1>5, <2>1 DEF Lists, Booting
  <2> QED BY <1>3, <1>4, <2>1, <2>2 DEF ThreadsOK
<1>8. Places'
  BY <1>1, <1>2, <1>4, <1>5 DEF Places, Booting, SchedulerTyped
<1>9. Guard'
  BY <1>1, <1>2, <1>5 DEF Guard, Booting, SchedulerTyped
<1> QED BY <1>6, <1>7, <1>8, <1>9 DEF SchedulerInv

(* A step of a thread finds the kernel booted and the thread current. *)
LEMMA Booted ==
  ASSUME SchedulerInv, NEW t \in Tids, current = t, pc[t] # "boot"
  PROVE  /\ SchedulerTyped /\ ThreadsOK /\ Places /\ Guard
         /\ t \in Known /\ pc[t] \in PCs
BY MaxTasksAssumption DEF SchedulerInv, Booting, ThreadsOK, SchedulerTyped

(* IrqCell::lock finds the cell free. *)
LEMMA LockStep ==
  ASSUME SchedulerInv, NEW t \in Tids, NEW then \in {"add_task", "schedule"},
         then = "add_task" => nextTid \in Tids, Lock(t, then)
  PROVE  SchedulerInv'
<1>1. current = t /\ pc[t] = "run"
  BY DEF Lock
<1>2. SchedulerTyped /\ ThreadsOK /\ Places /\ Guard
  BY <1>1, Booted
<1>3. /\ cell = "free"
      /\ cell' = irq /\ irq' = "off" /\ pc' = [pc EXCEPT ![t] = then]
      /\ came' = [came EXCEPT ![t] = irq] /\ taker' = t
      /\ UNCHANGED <<tasks, queue, current, nextTid>>
  BY <1>1, <1>2 DEF Guard, Lock, Goto, Came
<1>4. SchedulerTyped'
  BY <1>2, <1>3 DEF SchedulerTyped, PCs, Known
<1>5. ThreadsOK'
  BY <1>2, <1>3 DEF ThreadsOK, Known
<1>6. Places'
  BY <1>1, <1>2, <1>3 DEF Places, SchedulerTyped, Known
<1>7. Guard'
  BY <1>1, <1>2, <1>3 DEF Guard, SchedulerTyped
<1> QED BY <1>4, <1>5, <1>6, <1>7 DEF SchedulerInv

(* add_task: the new thread is in the table and at the end of the queue. *)
LEMMA AddTaskStep ==
  ASSUME SchedulerInv, NEW t \in Tids, AddTask(t)
  PROVE  SchedulerInv'
<1> USE MaxTasksAssumption
<1>1. current = t /\ pc[t] = "add_task"
  BY DEF AddTask
<1>2. SchedulerTyped /\ ThreadsOK /\ Places /\ Guard /\ t \in Known
  BY <1>1, Booted
<1>3. nextTid \in Tids /\ nextTid \notin Known /\ nextTid # t
  BY SMTT(30), <1>1, <1>2 DEF Places, ThreadsOK, SchedulerTyped
<1>4. /\ nextTid' = nextTid + 1 /\ queue' = Append(queue, nextTid)
      /\ tasks' = Insert(tasks, nextTid, "Ready")
      /\ pc' = [pc EXCEPT ![t] = "unlock", ![nextTid] = "startup"]
      /\ UNCHANGED <<current, cell, irq, came, taker>>
  BY DEF AddTask, history
<1>5. /\ Known' = Known \union {nextTid}
      /\ tasks'[nextTid] = "Ready"
      /\ \A u \in Known : tasks'[u] = tasks[u]
      /\ tasks' \in [Known' -> {"Ready", "Running"}]
  BY <1>2, <1>3, <1>4 DEF Insert, Known, SchedulerTyped
<1>6. queue' \in Seq(Tids) /\ Lists(queue', (Known \ {t}) \union {nextTid})
  BY <1>1, <1>2, <1>3, <1>4, PushBack DEF SchedulerTyped, ThreadsOK
<1>7. SchedulerTyped'
  <2>1. nextTid' \in 1 .. MaxTasks
    BY SMTT(30), <1>2, <1>3, <1>4 DEF SchedulerTyped, Tids
  <2>2. pc' \in [Tids -> PCs]
    BY <1>2, <1>4 DEF SchedulerTyped, PCs
  <2> QED BY <1>2, <1>3, <1>4, <1>5, <1>6, <2>1, <2>2 DEF SchedulerTyped
<1>8. ThreadsOK'
  <2>1. Known' = 0 .. nextTid' - 1 /\ current' \in Known'
    BY SMTT(30), <1>2, <1>4, <1>5 DEF ThreadsOK, SchedulerTyped
  <2>2. Lists(queue', Known' \ {current'})
    <3>1. Known' \ {current'} = (Known \ {t}) \union {nextTid}
      BY <1>1, <1>3, <1>4, <1>5
    <3> QED BY <1>6, <3>1
  <2>3. \A u \in Known' : tasks'[u] = "Running" <=> u = current'
    BY <1>1, <1>2, <1>3, <1>4, <1>5 DEF ThreadsOK
  <2> QED BY <2>1, <2>2, <2>3 DEF ThreadsOK
<1>9. Places'
  BY <1>1, <1>2, <1>3, <1>4, <1>5 DEF Places, SchedulerTyped
<1>10. Guard'
  BY <1>1, <1>2, <1>3, <1>4 DEF Guard, SchedulerTyped
<1> QED BY <1>7, <1>8, <1>9, <1>10 DEF SchedulerInv

(* schedule: alone, a thread goes on; otherwise it changes places with the *)
(* first of the queue, which has a place where it drops the guard.         *)
LEMMA ScheduleStep ==
  ASSUME SchedulerInv, NEW t \in Tids, Schedule(t)
  PROVE  SchedulerInv'
<1>1. current = t /\ pc[t] = "schedule"
  BY DEF Schedule
<1>2. SchedulerTyped /\ ThreadsOK /\ Places /\ Guard /\ t \in Known
  BY <1>1, Booted
<1>3. UNCHANGED <<nextTid, cell, irq, came, taker>>
  BY DEF Schedule, history
<1>4. CASE queue = <<>>
  <2>1. tasks[t] = "Running"
    BY <1>1, <1>2 DEF ThreadsOK
  <2>2. pc' = [pc EXCEPT ![t] = "unlock"] /\ UNCHANGED <<tasks, queue, current>>
    BY <1>2, <1>4, <2>1 DEF Schedule, Goto, Known
  <2>3. SchedulerTyped'
    BY <1>2, <1>3, <2>2 DEF SchedulerTyped, PCs, Known
  <2>4. ThreadsOK'
    BY <1>2, <1>3, <2>2 DEF ThreadsOK, Known
  <2>5. Places'
    BY <1>1, <1>2, <1>3, <2>2 DEF Places, SchedulerTyped, Known
  <2>6. Guard'
    BY <1>1, <1>2, <1>3, <2>2 DEF Guard, SchedulerTyped
  <2> QED BY <2>3, <2>4, <2>5, <2>6 DEF SchedulerInv
<1>5. CASE queue # <<>>
  <2> DEFINE h == Head(queue)
  <2>1. /\ h \in Tids /\ h \in Known \ {t}
        /\ Tail(queue) \in Seq(Tids) /\ Lists(Tail(queue), (Known \ {t}) \ {h})
    BY <1>1, <1>2, <1>5, PopFront DEF SchedulerTyped, ThreadsOK
  <2> HIDE DEF h
  <2>2. /\ queue' = Append(Tail(queue), t) /\ current' = h
        /\ tasks' = [tasks EXCEPT ![t] = "Ready", ![h] = "Running"]
        /\ pc' = [pc EXCEPT ![t] = "unlock"]
    BY <1>2, <1>5, <2>1 DEF Schedule, Goto, Known, h
  <2>3. queue' \in Seq(Tids) /\ Lists(queue', ((Known \ {t}) \ {h}) \union {t})
    BY <2>1, <2>2, PushBack
  <2>4. /\ Known' = Known /\ tasks' \in [Known -> {"Ready", "Running"}]
        /\ tasks'[h] = "Running" /\ tasks'[t] = "Ready"
        /\ \A u \in Known : u # t /\ u # h => tasks'[u] = tasks[u]
    BY <1>2, <2>1, <2>2 DEF SchedulerTyped, Known
  <2>5. SchedulerTyped'
    BY <1>2, <1>3, <2>1, <2>2, <2>3, <2>4 DEF SchedulerTyped, PCs
  <2>6. ThreadsOK'
    <3>1. Known' \ {current'} = ((Known \ {t}) \ {h}) \union {t}
      BY <1>2, <2>1, <2>2, <2>4
    <3>2. Lists(queue', Known' \ {current'})
      BY <2>3, <3>1
    <3>3. \A u \in Known' : tasks'[u] = "Running" <=> u = current'
      BY <1>1, <1>2, <2>1, <2>2, <2>4 DEF ThreadsOK
    <3>4. Known' = 0 .. nextTid' - 1 /\ current' \in Known'
      BY <1>2, <1>3, <2>1, <2>2, <2>4 DEF ThreadsOK
    <3> QED BY <3>2, <3>3, <3>4 DEF ThreadsOK
  <2>7. pc[h] \in {"unlock", "startup"} /\ pc'[h] = pc[h]
    BY <1>1, <1>2, <2>1, <2>2 DEF Places, SchedulerTyped
  <2>8. Places'
    BY <1>1, <1>2, <1>3, <2>1, <2>2, <2>4, <2>7 DEF Places, SchedulerTyped
  <2>9. Guard'
    BY <1>1, <1>2, <1>3, <2>2, <2>7 DEF Guard
  <2> QED BY <2>5, <2>6, <2>8, <2>9 DEF SchedulerInv
<1> QED BY <1>4, <1>5

(* IrqCell::unlock: whoever runs drops the guard another thread took, and  *)
(* restores the flag that thread came with.                                *)
LEMMA UnlockRestores ==
  ASSUME SchedulerInv, NEW t \in Tids, Unlock(t)
  PROVE  /\ current = t /\ pc[t] \in {"unlock", "startup"}
         /\ cell' = "free" /\ irq' = came[taker] /\ pc' = [pc EXCEPT ![t] = "run"]
         /\ UNCHANGED <<tasks, queue, current, nextTid, came, taker>>
<1>1. current = t /\ pc[t] \in {"unlock", "startup"}
  BY DEF Unlock
<1>2. SchedulerTyped /\ Guard
  BY <1>1, Booted
<1>3. cell = came[taker] /\ irq = "off" /\ came[taker] \in {"on", "off"}
  BY <1>1, <1>2 DEF Guard, SchedulerTyped
<1> QED BY <1>1, <1>3 DEF Unlock, Goto, history

LEMMA UnlockStep ==
  ASSUME SchedulerInv, NEW t \in Tids, Unlock(t)
  PROVE  SchedulerInv'
<1>1. /\ current = t /\ pc[t] \in {"unlock", "startup"}
      /\ cell' = "free" /\ irq' = came[taker] /\ pc' = [pc EXCEPT ![t] = "run"]
      /\ UNCHANGED <<tasks, queue, current, nextTid, came, taker>>
  BY UnlockRestores
<1>2. SchedulerTyped /\ ThreadsOK /\ Places /\ Guard
  BY <1>1, Booted
<1>5. SchedulerTyped'
  BY <1>1, <1>2 DEF SchedulerTyped, PCs, Known
<1>6. ThreadsOK'
  BY <1>1, <1>2 DEF ThreadsOK, Known
<1>7. Places'
  BY <1>1, <1>2 DEF Places, SchedulerTyped, Known
<1>8. Guard'
  BY <1>1, <1>2 DEF Guard, SchedulerTyped
<1> QED BY <1>5, <1>6, <1>7, <1>8 DEF SchedulerInv

(* A thread that runs, or boots the kernel, changes its interrupt flag. *)
LEMMA SetFlagStep ==
  ASSUME SchedulerInv, NEW t \in Tids, SetFlag(t)
  PROVE  SchedulerInv'
<1>1. /\ current = t /\ pc[t] \in {"boot", "run"} /\ irq' \in {"on", "off"}
      /\ UNCHANGED <<tasks, queue, current, nextTid, cell, pc, came, taker>>
  BY DEF SetFlag, history
<1>2. SchedulerTyped'
  BY <1>1 DEF SchedulerInv, SchedulerTyped, Known
<1>3. CASE Booting
  BY <1>1, <1>2, <1>3 DEF Booting, SchedulerInv, Known
<1>4. CASE ThreadsOK /\ Places /\ Guard
  <2>1. pc[current] = "run"
    BY <1>1, <1>4 DEF Places
  <2>2. ThreadsOK' /\ Places' /\ Guard'
    BY <1>1, <1>4, <2>1 DEF ThreadsOK, Places, Guard, Known
  <2> QED BY <1>2, <2>2 DEF SchedulerInv
<1> QED BY <1>3, <1>4 DEF SchedulerInv

LEMMA Stutter == SchedulerInv /\ UNCHANGED schedulerVars => SchedulerInv'
BY DEF SchedulerInv, schedulerVars, SchedulerTyped, Booting, ThreadsOK, Places, Guard, Known

-----------------------------------------------------------------------------
(* The invariant: before threading::init there is the boot thread alone;   *)
(* after it, the table, the queue, the guard and the flag fit together.    *)
THEOREM SchedulerInvariance == SchedulerSpec => []SchedulerInv
<1>1. SchedulerInv /\ [SchedulerNext]_schedulerVars => SchedulerInv'
  <2> SUFFICES ASSUME SchedulerInv, [SchedulerNext]_schedulerVars PROVE SchedulerInv'
    OBVIOUS
  <2>1. CASE ThreadingInit
    BY <2>1, InitStep
  <2>2. ASSUME NEW t \in Tids, Spawn(t) PROVE SchedulerInv'
    BY <2>2, LockStep DEF Spawn
  <2>3. ASSUME NEW t \in Tids, Yield(t) PROVE SchedulerInv'
    BY <2>3, LockStep DEF Yield
  <2>4. ASSUME NEW t \in Tids, AddTask(t) PROVE SchedulerInv'
    BY <2>4, AddTaskStep
  <2>5. ASSUME NEW t \in Tids, Schedule(t) PROVE SchedulerInv'
    BY <2>5, ScheduleStep
  <2>6. ASSUME NEW t \in Tids, Unlock(t) PROVE SchedulerInv'
    BY <2>6, UnlockStep
  <2>7. ASSUME NEW t \in Tids, SetFlag(t) PROVE SchedulerInv'
    BY <2>7, SetFlagStep
  <2>8. CASE UNCHANGED schedulerVars
    BY <2>8, Stutter
  <2> QED BY <2>1, <2>2, <2>3, <2>4, <2>5, <2>6, <2>7, <2>8 DEF SchedulerNext, Continue
<1> QED BY <1>1, Start, PTL DEF SchedulerSpec

(* Every thread but the current one waits in the queue of                  *)
(* threading/scheduler.rs, exactly once, however many are spawned.         *)
THEOREM SchedulerRunQueueExact == SchedulerSpec => []RunQueueExact
<1>1. SchedulerInv => RunQueueExact
  <2> SUFFICES ASSUME SchedulerInv, pc[0] # "boot" PROVE RunQueueExact
    BY DEF SchedulerInv, RunQueueExact
  <2>1. SchedulerTyped /\ ThreadsOK
    BY SMTT(30), MaxTasksAssumption DEF SchedulerInv, Booting, Tids
  <2>2. Queued = Known \ {current}
    BY SMTT(30), <2>1 DEF Queued, ThreadsOK, Lists
  <2> QED BY <2>1, <2>2 DEF RunQueueExact, ThreadsOK, Lists
<1> QED BY <1>1, SchedulerInvariance, PTL

(* No expect, unwrap or panic of threading/scheduler.rs is reached: the    *)
(* IrqCell is never locked twice or unlocked while it is free, and the     *)
(* queue names only threads of the table.                                  *)
THEOREM SchedulerNoPanic == SchedulerSpec => []NoPanic
<1>1. SchedulerInv => NoPanic
  <2> SUFFICES ASSUME SchedulerInv, NEW t \in Tids PROVE pc[t] # "panic"
    BY DEF NoPanic
  <2>1. CASE Booting
    BY <2>1 DEF Booting
  <2>2. CASE Places
    BY <2>2 DEF Places
  <2> QED BY <2>1, <2>2 DEF SchedulerInv
<1> QED BY <1>1, SchedulerInvariance, PTL

(* The guard taken in thread_yield is dropped by the thread switched to:   *)
(* it is held while the current thread is inside the scheduler, with       *)
(* interrupts off, and every other thread will drop it first.              *)
THEOREM SchedulerGuardHandedOver == SchedulerSpec => []GuardHandedOver
<1>1. SchedulerInv => GuardHandedOver
  <2> SUFFICES ASSUME SchedulerInv, pc[0] # "boot" PROVE GuardHandedOver
    BY DEF GuardHandedOver
  <2>1. SchedulerTyped /\ Places /\ Guard
    BY SMTT(30), MaxTasksAssumption DEF SchedulerInv, Booting, Tids
  <2>2. (cell = "free" <=> pc[current] = "run") /\ (cell # "free" => irq = "off")
    BY <2>1 DEF SchedulerTyped, Guard
  <2>3. \A t \in Known \ {current} : pc[t] \in {"unlock", "startup"}
    BY <2>1 DEF SchedulerTyped, Places
  <2> QED BY <2>2, <2>3 DEF GuardHandedOver
<1> QED BY <1>1, SchedulerInvariance, PTL

(* IrqCell::unlock gives the thread that goes on the interrupt flag of the *)
(* thread that called IrqCell::lock last, whichever threads yielded with   *)
(* whichever flags before.                                                 *)
THEOREM SchedulerFlagPassedOn == SchedulerSpec => FlagPassedOn
<1> DEFINE Passed == \A t \in Tids :
      pc[t] \in {"unlock", "startup"} /\ pc'[t] = "run" => irq' = came[taker]
<1>1. SchedulerInv /\ [SchedulerNext]_schedulerVars => [Passed]_schedulerVars
  <2> SUFFICES ASSUME SchedulerInv, SchedulerNext, NEW t \in Tids,
                      pc[t] \in {"unlock", "startup"}, pc'[t] = "run"
               PROVE  irq' = came[taker]
    BY DEF schedulerVars
  <2>1. SchedulerTyped
    BY DEF SchedulerInv
  <2>2. PICK u \in Tids : Unlock(u)
    BY <2>1, MaxTasksAssumption
    DEF SchedulerNext, Continue, ThreadingInit, SetFlag, Spawn, Yield, Lock, AddTask,
        Schedule, Goto, SchedulerTyped
  <2> QED BY <2>2, UnlockRestores
<1>2. SchedulerSpec => [][Passed]_schedulerVars
  BY <1>1, SchedulerInvariance, PTL DEF SchedulerSpec
<1> QED BY <1>2 DEF FlagPassedOn
=============================================================================
