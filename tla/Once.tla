-------------------------------- MODULE Once --------------------------------
(***************************************************************************)
(* Once and the cells built on it (kernel_api/src/sync/once.rs): OnceLock, *)
(* LazyLock, and LateInit (kernel/src/sync/late_init.rs).                  *)
(*                                                                         *)
(* The initialiser of a thread writes that thread's own value, so that two *)
(* runs of an initialiser would be told apart.  A kernel panic unwinds,    *)
(* and the drop guard of call_once then poisons the cell.                  *)
(***************************************************************************)
CONSTANTS Threads,     \* the callers; also the values their initialisers make
          Uninit,      \* contents of MaybeUninit::uninit()
          MayPanic     \* whether an initialiser may panic

ASSUME UninitAssumption == Uninit \notin Threads \union {"None"} /\ "None" \notin Threads
ASSUME MayPanicAssumption == MayPanic \in BOOLEAN

VARIABLES
  state,    \* Once.0
  data,     \* OnceLock.data
  pc,       \* pc[t]: where t is in get_or_init or get
  got       \* got[t]: what the last call of t returned

vars == <<state, data, pc, got>>

States == {"Uncalled", "Running", "Called", "Poison"}
None == "None"

Init ==
  /\ state = "Uncalled"
  /\ data = Uninit
  /\ pc = [t \in Threads |-> "idle"]
  /\ got = [t \in Threads |-> None]

Goto(t, where) == pc' = [pc EXCEPT ![t] = where]

(* get_or_init, LazyLock::force and LateInit::init_ref enter call_once. *)
GetOrInit(t) ==
  /\ pc[t] = "idle"
  /\ Goto(t, "call_once")
  /\ UNCHANGED <<state, data, got>>

(* Mutant: a load and a store instead of the exchange. *)
CallOnceTwice(t) ==
  /\ pc[t] = "call_once"
  /\ \/ state \in {"Uncalled", "Running"} /\ state' = "Running" /\ Goto(t, "init")
     \/ state = "Called" /\ Goto(t, "deref") /\ UNCHANGED state
     \/ state = "Poison" /\ Goto(t, "panicked") /\ UNCHANGED state
  /\ UNCHANGED <<data, got>>

(* call_once: one compare_exchange of the loop; Running means go round. *)
CallOnce(t) ==
  /\ pc[t] = "call_once"
  /\ \/ /\ state = "Uncalled"
        /\ state' = "Running"
        /\ Goto(t, "init")
     \/ /\ state = "Called"
        /\ Goto(t, "deref")
        /\ UNCHANGED state
     \/ /\ state = "Poison"
        /\ Goto(t, "panicked")
        /\ UNCHANGED state
     \/ state = "Running" /\ UNCHANGED <<state, pc>>
  /\ UNCHANGED <<data, got>>

(* The closure: data.write(f()). *)
RunInit(t) ==
  /\ pc[t] = "init"
  /\ data' = t
  /\ Goto(t, "complete")
  /\ UNCHANGED <<state, got>>

(* Mutant: no drop guard. *)
InitPanicsUnguarded(t) ==
  /\ pc[t] = "init" /\ MayPanic
  /\ Goto(t, "panicked")
  /\ UNCHANGED <<state, data, got>>

(* f panics before it returns a value; DropGuard::drop poisons. *)
InitPanics(t) ==
  /\ pc[t] = "init" /\ MayPanic
  /\ state' = "Poison"
  /\ Goto(t, "panicked")
  /\ UNCHANGED <<data, got>>

(* The guard is forgotten, the state published. *)
Complete(t) ==
  /\ pc[t] = "complete"
  /\ state' = "Called"
  /\ Goto(t, "deref")
  /\ UNCHANGED <<data, got>>

(* get, get_mut and the Derefs of LateInit: is_complete comes first. *)
Get(t) ==
  /\ pc[t] = "idle"
  /\ \/ /\ state = "Called"
        /\ Goto(t, "deref")
        /\ UNCHANGED got
     \/ /\ state # "Called"
        /\ got' = [got EXCEPT ![t] = None]
        /\ UNCHANGED pc
  /\ UNCHANGED <<state, data>>

(* assume_init_ref *)
DerefData(t) ==
  /\ pc[t] = "deref"
  /\ got' = [got EXCEPT ![t] = data]
  /\ Goto(t, "idle")
  /\ UNCHANGED <<state, data>>

(* A thread that panicked is caught by catch_unwind and may call again. *)
CatchUnwind(t) ==
  /\ pc[t] = "panicked"
  /\ Goto(t, "idle")
  /\ UNCHANGED <<state, data, got>>

Step(t) ==
  \/ CallOnce(t) \/ RunInit(t) \/ InitPanics(t) \/ Complete(t)
  \/ DerefData(t) \/ CatchUnwind(t)

Next == \E t \in Threads : GetOrInit(t) \/ Get(t) \/ Step(t)

Spec == Init /\ [][Next]_vars

FairSpec == Spec /\ \A t \in Threads : WF_vars(Step(t))

-----------------------------------------------------------------------------
TypeOK ==
  /\ state \in States
  /\ data \in Threads \union {Uninit}
  /\ pc \in [Threads -> {"idle", "call_once", "init", "complete", "deref",
                         "panicked"}]
  /\ got \in [Threads -> Threads \union {Uninit, None}]

(* Nobody ever reads the cell before its initialiser has written it, not   *)
(* even a get that races get_or_init or an initialiser that panicked.      *)
NeverUninit == TypeOK /\ \A t \in Threads : got[t] # Uninit

(* All callers get references to one value. *)
OneValue == \A s, t \in Threads :
  got[s] \in Threads /\ got[t] \in Threads => got[s] = got[t]

(* A caller that spins on a running initialiser gets a value or a panic:   *)
(* even an initialiser that panics releases the ones that wait for it.     *)
CallsEnd ==
  \A t \in Threads : pc[t] = "call_once" ~> pc[t] \in {"deref", "panicked"}
=============================================================================
