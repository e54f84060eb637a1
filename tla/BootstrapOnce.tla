---------------------------- MODULE BootstrapOnce ----------------------------
(***************************************************************************)
(* BootstrapOnceLock (kernel_api/src/sync/once.rs, module bootstrap): a    *)
(* cell that holds a provisional value while the real one is computed.     *)
(*                                                                         *)
(* A write of T takes more than one instruction, so the cell is "torn"     *)
(* while one is under way.  A reader is between its check of the state and *)
(* its access of the data when its pc is "deref".                          *)
(***************************************************************************)
CONSTANT Threads

VARIABLES
  state,    \* BootstrapOnceLock.state
  data,     \* BootstrapOnceLock.data
  pc,       \* pc[t]: where t is in bootstrap or get
  got       \* got[t]: what t saw last

vars == <<state, data, pc, got>>

States == {"Uncalled", "Saving", "Running", "Init", "Poison"}
Contents == {"uninit", "torn", "bootstrap", "true"}

Init ==
  /\ state = "Uncalled"
  /\ data = "uninit"
  /\ pc = [t \in Threads |-> "idle"]
  /\ got = [t \in Threads |-> "None"]

Goto(t, where) == pc' = [pc EXCEPT ![t] = where]

(* get: load the state; Poison panics, Uncalled and Saving give None. *)
Get(t) ==
  /\ pc[t] = "idle"
  /\ \/ state \in {"Running", "Init"} /\ Goto(t, "deref") /\ UNCHANGED got
     \/ /\ state \in {"Uncalled", "Saving"}
        /\ got' = [got EXCEPT ![t] = "None"]
        /\ UNCHANGED pc
  /\ UNCHANGED <<state, data>>

(* get: assume_init_ref, and the access through the reference. *)
Deref(t) ==
  /\ pc[t] = "deref"
  /\ got' = [got EXCEPT ![t] = data]
  /\ Goto(t, "idle")
  /\ UNCHANGED <<state, data>>

Bootstrap(t) ==
  /\ pc[t] = "idle"
  /\ Goto(t, "bootstrap")
  /\ UNCHANGED <<state, data, got>>

(* Mutant: straight to Running, before the provisional value is there. *)
BeginRunning(t) ==
  /\ pc[t] = "bootstrap"
  /\ \/ state = "Uncalled" /\ state' = "Running" /\ Goto(t, "save")
     \/ state = "Init" /\ Goto(t, "deref") /\ UNCHANGED state
  /\ UNCHANGED <<data, got>>

(* bootstrap: one compare_exchange; Running and Saving go round. *)
Begin(t) ==
  /\ pc[t] = "bootstrap"
  /\ \/ state = "Uncalled" /\ state' = "Saving" /\ Goto(t, "save")
     \/ state = "Init" /\ Goto(t, "deref") /\ UNCHANGED state
  /\ UNCHANGED <<data, got>>

StartWrite(t, from, to) ==
  /\ pc[t] = from
  /\ data' = "torn"
  /\ Goto(t, to)
  /\ UNCHANGED <<state, got>>

EndWrite(t, from, value, to) ==
  /\ pc[t] = from
  /\ data' = value
  /\ Goto(t, to)
  /\ UNCHANGED <<state, got>>

Store(t, from, s, to) ==
  /\ pc[t] = from
  /\ state' = s
  /\ Goto(t, to)
  /\ UNCHANGED <<data, got>>

SaveBootstrap(t) == StartWrite(t, "save", "saving")
BootstrapSaved(t) == EndWrite(t, "saving", "bootstrap", "saved")
ToRunning(t) == Store(t, "saved", "Running", "f")

(* Mutant: Init is published before the real value is written. *)
ToSavingTooEarly(t) == Store(t, "f", "Init", "save2")

(* f has returned its value. *)
ToSaving(t) == Store(t, "f", "Saving", "save2")

(* f panics: no guard, the state stays Running. *)
FPanics(t) ==
  /\ pc[t] = "f"
  /\ Goto(t, "panicked")
  /\ UNCHANGED <<state, data, got>>

(* A panic is caught by catch_unwind and the thread goes on. *)
CatchUnwind(t) ==
  /\ pc[t] = "panicked"
  /\ Goto(t, "idle")
  /\ UNCHANGED <<state, data, got>>

SaveTrue(t) == StartWrite(t, "save2", "saving2")
TrueSaved(t) == EndWrite(t, "saving2", "true", "saved2")
(* Mutant: the final store is forgotten. *)
ToInitForgotten(t) == Store(t, "saved2", "Saving", "deref")
ToInit(t) == Store(t, "saved2", "Init", "deref")

Step(t) ==
  \/ Begin(t) \/ SaveBootstrap(t) \/ BootstrapSaved(t) \/ ToRunning(t)
  \/ ToSaving(t) \/ FPanics(t) \/ SaveTrue(t) \/ TrueSaved(t) \/ ToInit(t)
  \/ Deref(t) \/ CatchUnwind(t)

Next == \E t \in Threads : Get(t) \/ Bootstrap(t) \/ Step(t)

Spec == Init /\ [][Next]_vars

FairSpec == Spec /\ \A t \in Threads : WF_vars(Step(t))

-----------------------------------------------------------------------------
Writing == {"save", "saving", "saved", "f", "save2", "saving2", "saved2"}

TypeOK ==
  /\ state \in States
  /\ data \in Contents
  /\ pc \in [Threads -> Writing \union {"idle", "bootstrap", "deref",
                                        "panicked"}]
  /\ got \in [Threads -> Contents \union {"None"}]

(* Whoever looks at the cell has been preceded by a complete first write:  *)
(* uninitialised memory is never read.                                     *)
NeverUninit == TypeOK /\ \A t \in Threads : got[t] # "uninit"

(* Once the real value is published nobody sees the provisional one again. *)
TrueIsFinal ==
  [][\A t \in Threads : state = "Init" /\ got'[t] # got[t] =>
                          got'[t] = "true"]_vars

(* The function has panicked: the state is Running and nobody is left to   *)
(* change it.                                                              *)
Abandoned == state = "Running" /\ \A t \in Threads : pc[t] # "f"

(* A caller of bootstrap that finds another one at work spins until the    *)
(* state changes, and unless the function panics it does.                  *)
WaitersReleased ==
  \A t \in Threads : pc[t] = "bootstrap" ~> pc[t] # "bootstrap" \/ Abandoned
=============================================================================
