------------------------------- MODULE MCOnce -------------------------------
(* Instance of OnceCells for TLC. *)
EXTENDS OnceCells

CONSTANTS t1, t2, t3

ThreeThreads == {t1, t2, t3}
=============================================================================
