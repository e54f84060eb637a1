---------------------------- MODULE AbstractLock ----------------------------
(***************************************************************************)
(* What a Mutex promises its callers: acquiring and releasing are single   *)
(* indivisible steps, and a lock that somebody owns is never acquired.     *)
(***************************************************************************)
CONSTANTS Owners, Locks

VARIABLE owned      \* owned[x]: the locks that x owns

Init == owned = [x \in Owners |-> {}]

Free(l) == \A x \in Owners : l \notin owned[x]

Acquire(x, l) ==
  /\ Free(l)
  /\ owned' = [owned EXCEPT ![x] = @ \union {l}]

Release(x, l) ==
  /\ l \in owned[x]
  /\ owned' = [owned EXCEPT ![x] = @ \ {l}]

Next == \E x \in Owners, l \in Locks : Acquire(x, l) \/ Release(x, l)

Spec == Init /\ [][Next]_owned
=============================================================================
