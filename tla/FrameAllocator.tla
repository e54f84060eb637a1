---------------------------- MODULE FrameAllocator ----------------------------
(***************************************************************************)
(* What a BackingAllocator promises (kernel_api/src/memory/allocator.rs):  *)
(* a set of free frames from which contiguous runs are handed out, each to *)
(* one handle at a time, and to which they return.  A request that may be  *)
(* served from anywhere is refused only when no free run is long enough.   *)
(***************************************************************************)
EXTENDS Integers

CONSTANTS
  Frames,     \* the frames of the machine
  Handles,    \* the OwnedFrames objects that may exist
  MaxFrames   \* bound: frames in one request

VARIABLES
  free,       \* the frames that may be handed out
  live,       \* live[h]: the frames handle h owns; len = 0 when it owns none
  reply       \* the last request that was answered, and its answer

AllocError == -1
Nothing == [base |-> 0, len |-> 0]

(* The n frames from base on. *)
Run(base, n) == base .. base + n - 1
Held(h) == Run(live[h].base, live[h].len)

Answer(op, n, base) == reply' = [op |-> op, frames |-> n, base |-> base]

Init ==
  /\ free \in SUBSET Frames
  /\ live = [h \in Handles |-> Nothing]
  /\ reply = [op |-> "any", frames |-> 0, base |-> 0]

(* Frames leave the pool before the allocator is shared, those that handle *)
(* h turns out to own among them.                                          *)
Reserve(h, base, n) ==
  /\ live[h].len = 0
  /\ live' = [live EXCEPT ![h] = [base |-> base, len |-> n]]
  /\ free' \subseteq free
  /\ Run(base, n) \intersect free' = {}
  /\ UNCHANGED reply

Grant(h, op, base, n) ==
  /\ live[h].len = 0
  /\ Answer(op, n, base)
  /\ live' = [live EXCEPT ![h] = [base |-> base, len |-> n]]
  /\ Run(base, n) \subseteq free
  /\ free' = free \ Run(base, n)

Refuse(n) ==
  /\ Answer("any", n, AllocError)
  /\ \A base \in free : ~ Run(base, n) \subseteq free
  /\ UNCHANGED <<free, live>>

(* An allocation at a given place, some frame of which is not free. *)
RefuseAt(base, n) ==
  /\ Answer("at", n, AllocError)
  /\ ~ Run(base, n) \subseteq free
  /\ UNCHANGED <<free, live>>

(* A request for no frames is answered with frame zero. *)
Empty(op) ==
  /\ Answer(op, 0, 0)
  /\ UNCHANGED <<free, live>>

Release(h) ==
  /\ live[h].len > 0
  /\ live' = [live EXCEPT ![h] = Nothing]
  /\ free' = free \union Held(h)
  /\ UNCHANGED reply

Next ==
  \/ \E h \in Handles, base \in Frames \union {0}, n \in 0 .. MaxFrames :
       Reserve(h, base, n)
  \/ \E h \in Handles, op \in {"any", "at"}, base \in Frames,
        n \in 1 .. MaxFrames : Grant(h, op, base, n)
  \/ \E n \in 1 .. MaxFrames : Refuse(n)
  \/ \E base \in Frames, n \in 1 .. MaxFrames : RefuseAt(base, n)
  \/ \E op \in {"any", "at"} : Empty(op)
  \/ \E h \in Handles : Release(h)

Spec == Init /\ [][Next]_<<free, live, reply>>
=============================================================================
