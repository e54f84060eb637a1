------------------------------ MODULE OnceCells ------------------------------
(***************************************************************************)
(* A cell of kernel_api/src/sync/once.rs, of either kind: a OnceLock, as   *)
(* in Once, or a BootstrapOnceLock, as in BootstrapOnce.                   *)
(***************************************************************************)
EXTENDS Once

VARIABLE kind    \* which of the two the cell is

Bootstrap == INSTANCE BootstrapOnce

CellInit ==
  \/ kind = "OnceLock" /\ Init
  \/ kind = "BootstrapOnceLock" /\ Bootstrap!Init

CellNext ==
  /\ \/ kind = "OnceLock" /\ Next
     \/ kind = "BootstrapOnceLock" /\ Bootstrap!Next
  /\ UNCHANGED kind

(* A step inside a call; nobody has to make one. *)
CellStep(t) ==
  /\ \/ kind = "OnceLock" /\ Step(t)
     \/ kind = "BootstrapOnceLock" /\ Bootstrap!Step(t)
  /\ UNCHANGED kind

CellSpec ==
  /\ CellInit /\ [][CellNext]_<<vars, kind>>
  /\ \A t \in Threads : WF_<<vars, kind>>(CellStep(t))
-----------------------------------------------------------------------------
(* Nobody reads a cell of either kind before its first write is complete.  *)
CellNeverUninit ==
  IF kind = "OnceLock" THEN NeverUninit ELSE Bootstrap!NeverUninit

(* All callers of a OnceLock get references to one value. *)
CellOneValue == kind = "OnceLock" => OneValue

(* Once the real value is published nobody sees the provisional one again. *)
TrueIsFinal == Bootstrap!TrueIsFinal

(* A caller of bootstrap that finds another one at work spins until the    *)
(* state changes, and unless the function panics it does.                  *)
WaitersReleased == Bootstrap!WaitersReleased
=============================================================================
