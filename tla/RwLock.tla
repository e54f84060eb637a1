------------------------------- MODULE RwLock -------------------------------
(***************************************************************************)
(* RwCount (kernel_api/src/sync/rwlock.rs): the word behind every RwLock.  *)
(*                                                                         *)
(* Each step makes at most one access to the shared word: a load, or one   *)
(* compare-exchange against the value loaded before.  What the code does   *)
(* with its local copy in between is part of the step that follows.  The   *)
(* build is the one with debug assertions; cmpxchg on amd64 does not fail  *)
(* spuriously.                                                             *)
(*                                                                         *)
(* RwCount leaves the interrupt flag alone, so that a handler may run on   *)
(* top of a caller between any two of its steps, and call the lock too.    *)
(* The caller goes on when the handler has returned, without a guard.      *)
(***************************************************************************)
EXTENDS Integers, FiniteSets

CONSTANTS Threads,      \* the callers: threads and interrupt handlers
          Handlers,     \* the handlers among them
          NoThread,     \* what a handler is on top of on a core without a caller
          MaxReaders,   \* READ_COUNT_MASK
          MaxCalls      \* bound: acquiring calls one thread makes

ASSUME ThreadsAssumption == IsFiniteSet(Threads)
ASSUME HandlersAssumption == Handlers \subseteq Threads /\ NoThread \notin Threads
ASSUME MaxAssumption == MaxReaders \in Nat \ {0} /\ MaxCalls \in Nat

VARIABLES
  word,     \* RwCount: the write bit, the upgradable bit and the count
  mode,     \* mode[t]: the guard that t owns
  call,     \* call[t]: the method that t is in, "idle" between calls
  old,      \* old[t]: old_value of that method
  calls,    \* calls[t]: acquiring calls made so far
  under     \* under[h]: the thread that handler h interrupts

rwLockVars == <<word, mode, call, old, calls, under>>

Word(w, u, n) == [w |-> w, u |-> u, n |-> n]
Zero == Word(FALSE, FALSE, 0)
WriteBit == Word(TRUE, FALSE, 0)
UpgradeableBit == Word(FALSE, TRUE, 0)
OneReader == Word(FALSE, FALSE, 1)

Modes == {"none", "shared", "upgradable", "exclusive"}
Acquiring == {"lock_shared", "try_lock_shared", "lock_exclusive",
              "try_lock_exclusive", "lock_upgradable", "try_lock_upgradable"}
Releasing == [shared |-> {"unlock_shared"},
              exclusive |-> {"unlock_exclusive", "downgrade",
                             "downgrade_to_upgradable"},
              upgradable |-> {"unlock_upgradable", "upgrade", "try_upgrade",
                              "downgrade_upgradable"}]
Methods == Acquiring \union
           UNION {Releasing[m] : m \in {"shared", "exclusive", "upgradable"}}

(* The methods whose loop starts with a load. *)
Snapshot == {"lock_shared", "try_lock_shared", "unlock_shared",
             "lock_upgradable", "try_lock_upgradable", "unlock_upgradable",
             "downgrade_upgradable"}

RwLockInit ==
  /\ word = Zero
  /\ mode = [t \in Threads |-> "none"]
  /\ call = [t \in Threads |-> "idle"]
  /\ old = [t \in Threads |-> Zero]
  /\ calls = [t \in Threads |-> 0]
  /\ under \in [Handlers -> (Threads \ Handlers) \union {NoThread}]

(* A thread runs unless a handler is on top of it: one that is inside a    *)
(* call or owns a guard, and has not returned.                             *)
Runs(t) ==
  \A h \in Handlers : under[h] = t => call[h] = "idle" /\ mode[h] = "none"

-----------------------------------------------------------------------------
(* A call: the methods that loop on a snapshot load the word first. *)
Call(t, m) ==
  /\ Runs(t) /\ call[t] = "idle"
  /\ call' = [call EXCEPT ![t] = m]
  /\ old' = [old EXCEPT ![t] = IF m \in Snapshot THEN word ELSE @]

Acquire(t, m) ==
  /\ mode[t] = "none" /\ calls[t] < MaxCalls
  /\ Call(t, m)
  /\ calls' = [calls EXCEPT ![t] = @ + 1]
  /\ UNCHANGED <<word, mode, under>>

(* A call on a guard.  A lock that is held is given up in the end, so only *)
(* the calls that keep it count against the bound.                         *)
ReleaseCall(t, m) ==
  /\ mode[t] # "none" /\ m \in Releasing[mode[t]]
  /\ Call(t, m)
  /\ LET keeps == m \notin {"unlock_shared", "unlock_exclusive",
                            "unlock_upgradable"}
     IN /\ keeps => calls[t] < MaxCalls
        /\ calls' = [calls EXCEPT ![t] = IF keeps THEN @ + 1 ELSE @]
  /\ UNCHANGED <<word, mode, under>>

Return(t, m) ==
  /\ call' = [call EXCEPT ![t] = "idle"]
  /\ mode' = [mode EXCEPT ![t] = m]
  /\ old' = [old EXCEPT ![t] = Zero]
  /\ UNCHANGED <<calls, under>>

(* A try_ method that gives up. *)
ReturnFalse(t) == Return(t, mode[t]) /\ UNCHANGED word

(* panic!("Reader count overflowed") and the panics that say BUG. *)
Panic(t, what) ==
  /\ call' = [call EXCEPT ![t] = what]
  /\ UNCHANGED <<word, mode, old, calls, under>>

(* The exchange of old_value for new: on success the method returns with   *)
(* guard m, on failure it goes round with the value it found.              *)
Exchange(t, new, m) ==
  \/ /\ word = old[t]
     /\ word' = new
     /\ Return(t, m)
  \/ /\ word # old[t]
     /\ old' = [old EXCEPT ![t] = word]
     /\ UNCHANGED <<word, mode, call, calls, under>>

(* A try_ method returns false; a lock_ method spins and loads again. *)
Refused(t, try) ==
  \/ call[t] = try /\ ReturnFalse(t)
  \/ /\ call[t] # try
     /\ old' = [old EXCEPT ![t] = word]
     /\ UNCHANGED <<word, mode, call, calls, under>>

-----------------------------------------------------------------------------
(* Mutant: no check for a writer. *)
LockSharedOverWriter(t) ==
  /\ call[t] \in {"lock_shared", "try_lock_shared"}
  /\ old[t].n # MaxReaders
  /\ Exchange(t, Word(FALSE, old[t].u, old[t].n + 1), "shared")

(* Mutant: the loop of lock_shared looks at its first snapshot for ever. *)
LockSharedStale(t) ==
  /\ call[t] \in {"lock_shared", "try_lock_shared"}
  /\ old[t].n # MaxReaders /\ ~old[t].w
  /\ Exchange(t, Word(FALSE, old[t].u, old[t].n + 1), "shared")

(* lock_shared, try_lock_shared *)
LockShared(t) ==
  /\ call[t] \in {"lock_shared", "try_lock_shared"}
  /\ \/ old[t].n = MaxReaders /\ Panic(t, "overflow")
     \/ old[t].n # MaxReaders /\ old[t].w /\ Refused(t, "try_lock_shared")
     \/ /\ old[t].n # MaxReaders /\ ~old[t].w
        /\ Exchange(t, Word(FALSE, old[t].u, old[t].n + 1), "shared")

UnlockShared(t) ==
  /\ call[t] = "unlock_shared"
  /\ \/ old[t].w /\ Panic(t, "bug")
     \/ ~old[t].w /\ Exchange(t, Word(FALSE, old[t].u, old[t].n - 1), "none")

(* Mutant: only the write bit is tested. *)
LockExclusiveOverReaders(t) ==
  /\ call[t] \in {"lock_exclusive", "try_lock_exclusive"}
  /\ ~word.w /\ word' = WriteBit /\ Return(t, "exclusive")

(* lock_exclusive, try_lock_exclusive; a failed lock_exclusive just spins. *)
LockExclusive(t) ==
  /\ call[t] \in {"lock_exclusive", "try_lock_exclusive"}
  /\ \/ word = Zero /\ word' = WriteBit /\ Return(t, "exclusive")
     \/ word # Zero /\ call[t] = "try_lock_exclusive" /\ ReturnFalse(t)

(* unlock_exclusive, downgrade and downgrade_to_upgradable expect the word *)
(* to be the write bit alone.                                              *)
FromWriteBit(t, m, new, after) ==
  /\ call[t] = m
  /\ \/ word = WriteBit /\ word' = new /\ Return(t, after)
     \/ word # WriteBit /\ Panic(t, "bug")

UnlockExclusive(t) == FromWriteBit(t, "unlock_exclusive", Zero, "none")

Downgrade(t) == FromWriteBit(t, "downgrade", OneReader, "shared")

DowngradeToUpgradable(t) ==
  FromWriteBit(t, "downgrade_to_upgradable", UpgradeableBit, "upgradable")

(* lock_upgradable, try_lock_upgradable *)
LockUpgradable(t) ==
  /\ call[t] \in {"lock_upgradable", "try_lock_upgradable"}
  /\ \/ (old[t].w \/ old[t].u) /\ Refused(t, "try_lock_upgradable")
     \/ ~old[t].w /\ ~old[t].u
        /\ Exchange(t, Word(FALSE, TRUE, old[t].n), "upgradable")

UnlockUpgradable(t) ==
  /\ call[t] = "unlock_upgradable"
  /\ \/ old[t].w /\ Panic(t, "bug")
     \/ ~old[t].w /\ Exchange(t, Word(FALSE, FALSE, old[t].n), "none")

(* upgrade, try_upgrade; a failed upgrade just spins. *)
Upgrade(t) ==
  /\ call[t] \in {"upgrade", "try_upgrade"}
  /\ \/ word = UpgradeableBit /\ word' = WriteBit /\ Return(t, "exclusive")
     \/ word # UpgradeableBit /\ call[t] = "try_upgrade" /\ ReturnFalse(t)

(* Mutant: the upgradable bit is cleared but no reader is counted. *)
DowngradeUpgradableUncounted(t) ==
  /\ call[t] = "downgrade_upgradable"
  /\ Exchange(t, Word(FALSE, FALSE, old[t].n), "shared")

DowngradeUpgradable(t) ==
  /\ call[t] = "downgrade_upgradable"
  /\ \/ old[t].w /\ Panic(t, "bug")
     \/ ~old[t].w /\ old[t].n = MaxReaders /\ Panic(t, "overflow")
     \/ /\ ~old[t].w /\ old[t].n # MaxReaders
        /\ Exchange(t, Word(FALSE, FALSE, old[t].n + 1), "shared")

Step(t) ==
  /\ Runs(t)
  /\ \/ LockShared(t) \/ UnlockShared(t)
     \/ LockExclusive(t) \/ UnlockExclusive(t)
     \/ LockUpgradable(t) \/ UnlockUpgradable(t)
     \/ Upgrade(t) \/ Downgrade(t)
     \/ DowngradeUpgradable(t) \/ DowngradeToUpgradable(t)

GiveUp(t) ==
  \E m \in {"unlock_shared", "unlock_exclusive", "unlock_upgradable"} :
    ReleaseCall(t, m)

RwLockNext ==
  \E t \in Threads :
    \/ \E m \in Acquiring : Acquire(t, m)
    \/ \E m \in Methods : ReleaseCall(t, m)
    \/ Step(t)

RwLockSpec == RwLockInit /\ [][RwLockNext]_rwLockVars

(* Callers that are not interrupted go on, and drop every guard in the end. *)
RwLockFairness ==
  \A t \in Threads : WF_rwLockVars(Step(t)) /\ WF_rwLockVars(GiveUp(t))
RwLockFairSpec == RwLockSpec /\ RwLockFairness

-----------------------------------------------------------------------------
Words == [w : BOOLEAN, u : BOOLEAN, n : 0 .. MaxReaders]

(* The count stays within READ_COUNT_MASK: it neither carries into the     *)
(* upgradable bit nor borrows from it.                                     *)
RwLockTyped ==
  /\ word \in Words
  /\ mode \in [Threads -> Modes]
  /\ call \in [Threads -> Methods \union {"idle", "overflow", "bug"}]
  /\ old \in [Threads -> Words]
  /\ calls \in [Threads -> 0 .. MaxCalls]
  /\ under \in [Handlers -> Threads \union {NoThread}]

Holders(m) == {t \in Threads : mode[t] = m}

(* The word counts the guards exactly, whatever the methods interleaved    *)
(* their loads and exchanges with.                                         *)
WordCountsGuards ==
  /\ RwLockTyped
  /\ word.n = Cardinality(Holders("shared"))
  /\ word.u <=> Holders("upgradable") # {}
  /\ word.w <=> Holders("exclusive") # {}

(* None of the assertions that announce a BUG can fail, so that a build    *)
(* without debug assertions, which stores unconditionally there, behaves   *)
(* the same.                                                               *)
NoBugPanic == \A t \in Threads : call[t] # "bug"

(* Guards are taken, upgraded, downgraded and dropped in single steps that *)
(* respect the guards of the others; upgrade passes from reading to        *)
(* writing without a moment in which somebody else could write.            *)
ARwLock == INSTANCE AbstractRwLock WITH guard <- mode
ImplementsRwLock == ARwLock!Spec

(* A handler is inside a call on top of a thread that owns a guard. *)
InterruptedOwner ==
  \E h \in Handlers :
    under[h] # NoThread /\ mode[under[h]] # "none" /\ call[h] # "idle"

(* Every call returns, once the others run out of calls: waiting is        *)
(* starvation by new arrivals and never threads waiting for each other.    *)
(* Two things break this and nothing else does.  RwCount does not turn     *)
(* interrupts off (the FIXME at rwlock.rs 25), and a handler that waits on *)
(* top of the owner of a guard waits for ever.  And at the limit of the    *)
(* reader count downgrade_upgradable panics and leaves its guard behind.   *)
CallsReturn ==
  \/ <>[]InterruptedOwner
  \/ <>(\E s \in Threads : call[s] = "overflow")
  \/ \A t \in Threads : []<>(call[t] = "idle")
=============================================================================
