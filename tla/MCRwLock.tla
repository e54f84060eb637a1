------------------------------ MODULE MCRwLock ------------------------------
(* Instances of RwLock for TLC. *)
EXTENDS RwLock

CONSTANTS t1, t2, h

ThreeCallers == {t1, t2, h}
OneHandler == {h}
=============================================================================
