--------------------------- MODULE MCPhysicalMemory ---------------------------
(* PhysicalMemory for TLC: every memory map of up to three regions among   *)
(* six frames.                                                             *)
EXTENDS PhysicalMemory, FiniteSetsExt

CONSTANTS h1, h2, h3, h4
MCHandles == {h1, h2}
MCFourHandles == {h1, h2, h3, h4}
HandleSymmetry == Permutations(MCHandles)
FourSymmetry == Permutations(MCFourHandles)

(* The first six frames cut into up to four descriptors of every kind, or  *)
(* into any number of usable ones, in descending order; a hole is a frame  *)
(* of no descriptor.  Frame 5 is usable, and at most three regions are.    *)
Types == {"CONVENTIONAL", "BOOT_SERVICES", "LOADER_CODE", "LOADER_DATA", "hole"}
Typings ==
  UNION {LET cuts == {0} \union c IN
           [cuts -> IF Cardinality(c) <= 3 THEN Types ELSE {"CONVENTIONAL", "hole"}] :
         c \in SUBSET (1 .. 5)}
Cut(ty) ==
  LET starts == SelectSeq(<<5, 4, 3, 2, 1, 0>>, LAMBDA a : a \in DOMAIN ty /\ ty[a] # "hole")
      end(a) == Min({c \in DOMAIN ty \union {6} : c > a})
  IN  [i \in DOMAIN starts |->
         [start |-> starts[i], end |-> end(starts[i]), ty |-> ty[starts[i]]]]
MCFirmwareMaps ==
  {m \in {Cut(ty) : ty \in Typings} :
     LET u == usable_memory(m)
     IN  Len(u) \in 1 .. 3 /\ u[Len(u)].end = 6}

(* A third region: after the last one come the first and the second. *)
C(a) == [start |-> a, end |-> a + 1, ty |-> "CONVENTIONAL"]
MCThreeRegions == {<<C(1), C(3), C(5)>>}
=============================================================================
