--------------------------- MODULE AbstractRwLock ---------------------------
(***************************************************************************)
(* What an RwLock promises: guards are taken, exchanged and dropped in     *)
(* single steps, each only while it is compatible with everyone else's.    *)
(***************************************************************************)
CONSTANT Threads

VARIABLE guard      \* guard[t]: the guard that t owns

Init == guard = [t \in Threads |-> "none"]

Others(t) == {guard[s] : s \in Threads \ {t}} \ {"none"}

Compatible(m) ==
  CASE m = "shared" -> {"shared", "upgradable"}
    [] m = "upgradable" -> {"shared"}
    [] m = "exclusive" -> {}

Take(t, m) ==
  /\ guard[t] = "none"
  /\ Others(t) \subseteq Compatible(m)
  /\ guard' = [guard EXCEPT ![t] = m]

Upgrade(t) ==
  /\ guard[t] = "upgradable"
  /\ Others(t) = {}
  /\ guard' = [guard EXCEPT ![t] = "exclusive"]

Downgrade(t, m) ==
  /\ \/ guard[t] = "exclusive" /\ m \in {"shared", "upgradable"}
     \/ guard[t] = "upgradable" /\ m = "shared"
  /\ guard' = [guard EXCEPT ![t] = m]

Drop(t) ==
  /\ guard[t] # "none"
  /\ guard' = [guard EXCEPT ![t] = "none"]

Next ==
  \E t \in Threads :
    \/ \E m \in {"shared", "upgradable", "exclusive"} :
         Take(t, m) \/ Downgrade(t, m)
    \/ Upgrade(t)
    \/ Drop(t)

Spec == Init /\ [][Next]_guard
=============================================================================
