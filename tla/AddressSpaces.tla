---------------------------- MODULE AddressSpaces ----------------------------
(***************************************************************************)
(* What the page tables promise: each address space is a partial function  *)
(* from pages to frames.  The kernel's half is the same in all of them,    *)
(* and a change of it is seen by all at once.  A page is mapped where it   *)
(* was not, or unmapped where it was, one page at a time.  A call that     *)
(* fails, whatever it did to the tables before it failed, changes no       *)
(* address space.                                                          *)
(***************************************************************************)
CONSTANTS
  KPages,       \* pages of the upper half
  UPages,       \* pages of the lower half
  Spaces,       \* the TTables that may exist
  NoFrame,      \* the page is not mapped
  NoSpace       \* the space does not exist

VARIABLE view   \* view[s]: what the processor sees of s once it is loaded

Nowhere == [p \in KPages \union UPages |-> NoFrame]

(* The processor starts in one space, in which nothing of interest is mapped. *)
Init == \E s0 \in Spaces :
          view = [s \in Spaces |-> IF s = s0 THEN Nowhere ELSE NoSpace]

(* v is the view before the step and w the one after it. *)
Toggles(v, w, s, p) ==
  /\ v[s] # NoSpace /\ w[s] # NoSpace
  /\ (v[s][p] = NoFrame) # (w[s][p] = NoFrame)

KernelChange(v, w) ==
  \E s \in Spaces, p \in KPages :
    /\ Toggles(v, w, s, p)
    /\ w = [r \in Spaces |->
              IF v[r] = NoSpace THEN NoSpace ELSE [v[r] EXCEPT ![p] = w[s][p]]]

UserChange(v, w) ==
  \E s \in Spaces, p \in UPages :
    Toggles(v, w, s, p) /\ w = [v EXCEPT ![s][p] = w[s][p]]

New(v, w) ==
  \E s, r \in Spaces :
    /\ v[s] = NoSpace /\ v[r] # NoSpace
    /\ w = [v EXCEPT ![s] =
              [p \in KPages \union UPages |-> IF p \in KPages THEN v[r][p] ELSE NoFrame]]

Next ==
  \E v \in {view}, w \in {view'} :
    v # w /\ (KernelChange(v, w) \/ UserChange(v, w) \/ New(v, w))

Spec == Init /\ [][Next]_view
=============================================================================
