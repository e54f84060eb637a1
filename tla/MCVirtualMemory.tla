--------------------------- MODULE MCVirtualMemory ---------------------------
(***************************************************************************)
(* Two threads, two OwnedPages, eight pages of address space: used at      *)
(* 2..3, the bootstrap region at 4..5, two cells to a page.                *)
(***************************************************************************)
EXTENDS VirtualMemory, TLC

MCLayouts == {[size |-> 1, align |-> 1], [size |-> 2, align |-> 2]}
MCNode == [size |-> 1, align |-> 1]
Symmetric == Permutations(Threads) \union Permutations(Handles)
=============================================================================
