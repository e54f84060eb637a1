----------------------------- MODULE MCIrqLocks -----------------------------
(* IrqLocks for TLC. *)
EXTENDS IrqLocks

CONSTANTS c1, c2

TwoCores == {c1, c2}
TwoLocks == {1, 2}
=============================================================================
