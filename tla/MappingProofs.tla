---------------------------- MODULE MappingProofs ----------------------------
(***************************************************************************)
(* RawMapping, the kernel's page table and the address spaces, for any     *)
(* number of mappings, frames, pages and address spaces: the page table    *)
(* maps what the mappings own, the expects hold, and the tables implement  *)
(* address spaces.                                                         *)
(***************************************************************************)
EXTENDS MappingStepsProofs

(* A leaf that names no prover is tried with Zenon, then with the SMT solver. *)
USE ZenonT(30), SMTT(30)

(* The page that the loops are at: one of the mapping's own. *)
LEMMA LoopPage ==
  ASSUME MapInv, NEW m \in Mappings, pc[m] \in {"map", "unmap"}
  PROVE  /\ i[m] \in 0 .. raw[m].len - 1 /\ raw[m].len \in Nat
         /\ raw[m].valid + i[m] \in KPages /\ raw[m].base + i[m] \in Frames
         /\ pc[m] \in WithPages
         /\ pc[m] = "map" => KE(mem, raw[m].valid + i[m]) = NoFrame
         /\ pc[m] = "unmap" => KE(mem, raw[m].valid + i[m]) = raw[m].base + i[m]
<1> DEFINE r == raw[m]
           p == r.valid + i[m]
<1>1. r \in Raws /\ i[m] \in Nat /\ r.len \in Nat /\ i[m] < r.len
  BY DEF MapInv, ControlOK, Raws
<1>2. i[m] \in 0 .. r.len - 1
  BY <1>1
<1>3. p \in PagesIn(r) /\ r.base + i[m] \in Own(r) /\ r.valid \in Int
  BY <1>1, <1>2, PageRange
<1>4. pc[m] \in WithPages
  BY DEF WithPages
<1>5. p \in KPages
  BY <1>3, <1>4, KernelPages DEF MapInv
<1>6. r.base + i[m] \in Frames
  BY <1>3 DEF MapInv, FramesOK
<1>7. ASSUME pc[m] = "map" PROVE KE(mem, p) = NoFrame
  <2>1. p - r.valid = i[m]
    BY <1>1, <1>3
  <2>2. i[m] \notin Done(pc[m], i[m], r.len)
    <3>1. Done(pc[m], i[m], r.len) = 0 .. i[m] - 1
      BY <1>7 DEF Done
    <3> QED
      BY <1>1, <3>1
  <2> QED
    BY <1>3, <1>4, <2>1, <2>2 DEF MapInv, EntriesOK
<1>8. ASSUME pc[m] = "unmap" PROVE KE(mem, p) = r.base + i[m]
  <2>1. i[m] \in Done(pc[m], i[m], r.len)
    <3>1. Done(pc[m], i[m], r.len) = i[m] .. r.len - 1
      BY <1>8 DEF Done
    <3> QED
      BY <1>1, <3>1
  <2> QED
    BY <2>1 DEF MapInv, EntriesOK
<1> QED
  BY <1>1, <1>2, <1>4, <1>5, <1>6, <1>7, <1>8

(* One page of m is mapped or unmapped: what both loops have in common. *)
Turned(m, l, k, L, K, v) ==
  /\ Moved(m, l, raw[m], k) /\ l \in WithPages
  /\ pc[m] \in {"map", "unmap"}
  /\ l \in {"map", "unmap"} => k < raw[m].len
  /\ lock' = IF l \in Locking THEN m ELSE Nobody
  /\ FramesOK(L) /\ Tree(mem', free', pml4, K) /\ Kept(free, L, free', K)
  /\ KernelSet(mem, mem', L, raw[m].valid + i[m], v)
  /\ LET D == Done(pc[m], i[m], raw[m].len) IN
       \/ v = raw[m].base + i[m] /\ Done(l, k, raw[m].len) = D \union {i[m]}
       \/ v = NoFrame /\ Done(l, k, raw[m].len) = D \ {i[m]}
  /\ UNCHANGED <<pml4, avail, panic>>

LEMMA LoopStep ==
  ASSUME MapInv, NEW m \in Mappings, NEW l, NEW k, NEW L, NEW K, NEW v,
         Turned(m, l, k, L, K, v)
  PROVE  /\ ControlOK' /\ panic' = {} /\ FramesOK(K)' /\ PagesOK' /\ EntriesOK'
         /\ \A q \in KPages : q # raw[m].valid + i[m] => KE(mem', q) = KE(mem, q)
<1> USE DEF Turned
<1>1. pc[m] \in Locking /\ pc[m] \in WithPages /\ l # "none"
  BY DEF Locking, WithPages
<1>2. ControlOK'
  <2>1. raw[m].len >= 1
    BY <1>1 DEF MapInv, ControlOK, WithPages
  <2> QED
    BY <1>1, <2>1, MoveControl DEF MapInv
<1>3. FramesOK(K)'
  <2>1. \A o \in Mappings : Own(raw'[o]) = Own(raw[o])
    BY DEF Moved
  <2>2. Tree(mem', free', pml4', K) /\ pml4'[Boot] # NoFrame
    BY DEF FramesOK
  <2> QED
    BY <2>1, <2>2, FramesKept
<1>4. PagesOK'
  BY <1>1, PagesKept DEF MapInv
<1>5. EntriesOK'
  <2>1. i[m] \in 0 .. raw[m].len - 1
    BY LoopPage
  <2>2. \A q \in KPages : KE(mem', q) = IF q = raw[m].valid + i[m] THEN v ELSE KE(mem, q)
    BY DEF KernelSet
  <2> QED
    BY <1>1, <2>1, <2>2, EntriesSet DEF MapInv
<1> QED
  BY <1>2, <1>3, <1>4, <1>5 DEF MapInv, KernelSet

(* One turn of the loop of new. *)
LEMMA MapOneStep ==
  ASSUME MapInv, NEW m \in Mappings, MapOne(m)
  PROVE  MapInv'
<1> DEFINE p == raw[m].valid + i[m]
           v == raw[m].base + i[m]
           last == i[m] + 1 = raw[m].len
           l == IF last THEN "live" ELSE "map"
           k == IF last THEN 0 ELSE i[m] + 1
<1>1. /\ pc[m] = "map" /\ ktable_map(p, v) /\ MapOutcome(KTableFor(p), p) = "Ok"
      /\ i' = [i EXCEPT ![m] = k]
      /\ IF last THEN lock' = Nobody /\ pc' = [pc EXCEPT ![m] = "live"]
                 ELSE UNCHANGED <<lock, pc>>
      /\ UNCHANGED <<avail, raw, tlb, panic>>
  BY Typed DEF MapOne, Goto
<1>2. /\ i[m] \in 0 .. raw[m].len - 1 /\ raw[m].len \in Nat /\ i[m] \in Nat
      /\ p \in KPages /\ v \in Frames /\ KE(mem, p) = NoFrame
  BY <1>1, LoopPage, Typed
<1>3. l \in Labels /\ l \in WithPages /\ k \in Nat /\ (l = "map" => k < raw[m].len)
      /\ l \notin {"unmap"}
  BY <1>2 DEF Labels, WithPages
<1>4. Moved(m, l, raw[m], k)
  <2>1. i' = [i EXCEPT ![m] = k] /\ pc' = [pc EXCEPT ![m] = l] /\ raw' = raw
    BY <1>1, Typed
  <2> HIDE DEF l, k
  <2> QED
    BY <1>3, <2>1, Typed DEF Moved
<1>5. lock' = IF l \in Locking THEN m ELSE Nobody
  <2>1. lock = m
    BY <1>1 DEF MapInv, ControlOK, Locking
  <2> QED
    BY <1>1, <2>1 DEF Locking
<1>6. Done(l, k, raw[m].len) = Done(pc[m], i[m], raw[m].len) \union {i[m]}
  <2>1. Done(pc[m], i[m], raw[m].len) = 0 .. i[m] - 1
    BY <1>1 DEF Done
  <2>2. CASE last
    <3>1. Done(l, k, raw[m].len) = 0 .. raw[m].len - 1
      BY <2>2 DEF Done
    <3> QED
      BY SMTT(30), <1>2, <2>1, <2>2, <3>1
  <2>3. CASE ~ last
    <3>1. Done("map", i[m] + 1, raw[m].len) = 0 .. (i[m] + 1) - 1
      BY DEF Done
    <3>2. l = "map" /\ k = i[m] + 1
      BY <2>3
    <3> QED
      BY SMTT(30), <1>2, <2>1, <3>1, <3>2
  <2> QED
    BY <2>2, <2>3
<1>7. PICK L : FramesOK(L)
  BY DEF MapInv
<1>8. PICK K : /\ Tree(mem', free', pml4, K)
               /\ Kept(free, L, free', K)
               /\ KernelSet(mem, mem', L, p, v)
  <2>1. Tree(mem, free, pml4, L) /\ v \in Vals
    BY <1>2, <1>7 DEF FramesOK, Vals
  <2> QED
    BY <1>1, <1>2, <2>1, KernelMap
<1>9. UNCHANGED <<pml4, avail, panic>>
  BY <1>1 DEF ktable_map
<1> HIDE DEF l, k
<1>10. /\ ControlOK' /\ panic' = {} /\ FramesOK(K)' /\ PagesOK' /\ EntriesOK'
       /\ \A q \in KPages : q # p => KE(mem', q) = KE(mem, q)
  <2>1. Turned(m, l, k, L, K, v)
    BY <1>1, <1>3, <1>4, <1>5, <1>6, <1>7, <1>8, <1>9 DEF Turned
  <2> QED
    BY <2>1, LoopStep
<1>11. TlbOK'
  <2>1. tlb # None => tlb.page # p /\ tlb.page \in KPages
    BY <1>2, MappingAssumption DEF MapInv, TlbOK
  <2> QED
    BY <1>1, <1>10, <2>1, TlbKept DEF MapInv
<1> QED
  BY <1>10, <1>11 DEF MapInv

(* The expect of new fails: for want of a frame, as its pages are not      *)
(* mapped.                                                                 *)
LEMMA MapPanicsStep ==
  ASSUME MapInv, NEW m \in Mappings, MapPanics(m)
  PROVE  MapInv'
<1> DEFINE p == raw[m].valid + i[m]
           st == KTableFor(p)
<1>1. /\ pc[m] = "map" /\ MapOutcome(st, p) # "Ok"
      /\ mem' = st.mem /\ free' = st.free \union Own(raw[m])
      /\ panic' = panic \union ({MapOutcome(st, p)} \ {"AllocError"})
      /\ lock' = Nobody /\ pc' = [pc EXCEPT ![m] = "none"]
      /\ raw' = [raw EXCEPT ![m] = Unset] /\ i' = [i EXCEPT ![m] = 0]
      /\ UNCHANGED <<pml4, avail, tlb>>
  BY DEF MapPanics, Goto, FramesOf, Own
<1>2. p \in KPages /\ KE(mem, p) = NoFrame
  BY <1>1, LoopPage
<1>3. PICK L : FramesOK(L)
  BY DEF MapInv
<1>4. PICK K : /\ Tree(st.mem, st.free, pml4, K)
               /\ Kept(free, L, st.free, K)
               /\ SameViews(mem, st.mem, L)
               /\ Arrives(st, p, KLeafIn(st.mem, p), KE(mem, p))
  <2>1. Tree(mem, free, pml4, L)
    BY <1>3 DEF FramesOK
  <2> QED
    BY <1>2, <2>1, KWalk
<1>5. MapOutcome(st, p) = "AllocError"
  BY <1>1, <1>2, <1>4 DEF Arrives
<1> HIDE DEF st, p
<1>6. Moved(m, "none", Unset, 0)
  BY <1>1, Typed, UnsetEmpty DEF Moved, Labels
<1>7. ControlOK'
  BY <1>1, <1>6, MoveControl DEF MapInv, Locking
<1>8. FramesOK(K)'
  <2>1. Tree(mem', st.free, pml4, K)
    BY <1>1, <1>4
  <2> QED
    BY <1>1, <1>3, <1>4, <1>6, <2>1, FramesReturned
<1>9. "none" \notin WithPages
  BY DEF WithPages
<1>10. PagesOK'
  BY <1>1, <1>6, <1>9, PagesKept DEF MapInv
<1>11. \A q \in KPages : KE(mem', q) = KE(mem, q)
  BY <1>1, <1>4 DEF SameViews
<1>12. EntriesOK'
  BY <1>1, <1>6, <1>9, <1>11, Typed, EntriesKept DEF MapInv
<1>13. TlbOK'
  BY <1>1, <1>11, TlbQuiet DEF MapInv
<1>14. panic' = {}
  BY <1>1, <1>5 DEF MapInv
<1> QED
  BY <1>1, <1>3, <1>4, <1>7, <1>8, <1>10, <1>12, <1>13, <1>14 DEF MapInv

(* One turn of the loop of drop. *)
LEMMA UnmapOneStep ==
  ASSUME MapInv, NEW m \in Mappings, UnmapOne(m)
  PROVE  MapInv'
<1> DEFINE p == raw[m].valid + i[m]
           last == i[m] + 1 = raw[m].len
           l == IF last THEN "return_pages" ELSE "unmap"
           k == IF last THEN 0 ELSE i[m] + 1
<1>1. /\ pc[m] = "unmap" /\ ktable_unmap(p) /\ tlb' = Flushed(p)
      /\ i' = [i EXCEPT ![m] = (i[m] + 1) % raw[m].len]
      /\ IF last THEN pc' = [pc EXCEPT ![m] = "return_pages"] ELSE UNCHANGED pc
      /\ UNCHANGED <<avail, lock, raw, panic>>
  BY Typed DEF UnmapOne, Goto
<1>2. /\ i[m] \in 0 .. raw[m].len - 1 /\ raw[m].len \in Nat /\ i[m] \in Nat
      /\ p \in KPages
  BY <1>1, LoopPage, Typed
<1>3. k = (i[m] + 1) % raw[m].len /\ k \in Nat /\ (l = "unmap" => k < raw[m].len)
  <2>1. CASE last
    BY <1>2, <2>1
  <2>2. CASE ~ last
    BY <1>2, <2>2
  <2> QED
    BY <2>1, <2>2
<1>4. l \in Labels /\ l \in WithPages /\ l \in Locking
      /\ (l \in {"map", "unmap"} => l = "unmap")
  BY DEF Labels, WithPages, Locking
<1>5. Moved(m, l, raw[m], k)
  <2>1. i' = [i EXCEPT ![m] = k]
    BY <1>1, <1>3
  <2>2. pc' = [pc EXCEPT ![m] = l] /\ raw' = raw
    BY <1>1, Typed
  <2> HIDE DEF l, k
  <2> QED
    BY <1>3, <1>4, <2>1, <2>2, Typed DEF Moved
<1>6. lock' = m
  BY <1>1 DEF MapInv, ControlOK, Locking
<1>7. Done(l, k, raw[m].len) = Done(pc[m], i[m], raw[m].len) \ {i[m]}
  <2>1. Done(pc[m], i[m], raw[m].len) = i[m] .. raw[m].len - 1
    BY <1>1 DEF Done
  <2>2. CASE last
    <3>1. l = "return_pages"
      BY <2>2
    <3> HIDE DEF l, k
    <3>2. Done(l, k, raw[m].len) = {}
      BY <3>1 DEF Done
    <3> QED
      BY <1>2, <2>1, <2>2, <3>2
  <2>3. CASE ~ last
    <3>1. Done("unmap", i[m] + 1, raw[m].len) = i[m] + 1 .. raw[m].len - 1
      BY DEF Done
    <3>2. l = "unmap" /\ k = i[m] + 1
      BY <2>3
    <3> QED
      BY <1>2, <2>1, <3>1, <3>2
  <2> QED
    BY <2>2, <2>3
<1>8. PICK L : FramesOK(L)
  BY DEF MapInv
<1>9. /\ Tree(mem', free', pml4, L) /\ KernelSet(mem, mem', L, p, NoFrame)
      /\ Kept(free, L, free', L)
  <2>1. Tree(mem, free, pml4, L)
    BY <1>8 DEF FramesOK
  <2>2. free' = free
    BY <1>1 DEF ktable_unmap
  <2> QED
    BY <1>1, <1>2, <2>1, <2>2, KernelUnmap DEF Kept
<1>10. UNCHANGED <<pml4, avail, panic>>
  BY <1>1 DEF ktable_unmap
<1> HIDE DEF l, k
<1>11. /\ ControlOK' /\ panic' = {} /\ FramesOK(L)' /\ PagesOK' /\ EntriesOK'
       /\ \A q \in KPages : q # p => KE(mem', q) = KE(mem, q)
  <2>1. Turned(m, l, k, L, L, NoFrame)
    BY <1>1, <1>3, <1>4, <1>5, <1>6, <1>7, <1>8, <1>9, <1>10 DEF Turned
  <2> QED
    BY <2>1, LoopStep
<1>12. TlbOK'
  <2>1. CASE tlb = None \/ tlb.page = p
    BY <1>1, <2>1 DEF Flushed, TlbOK
  <2>2. CASE tlb # None /\ tlb.page # p
    <3>1. tlb.page \in KPages /\ tlb' = tlb
      BY <1>1, <2>2, MappingAssumption DEF MapInv, TlbOK, Flushed
    <3> QED
      BY <1>11, <2>2, <3>1, TlbKept DEF MapInv
  <2> QED
    BY <2>1, <2>2
<1> QED
  BY <1>11, <1>12 DEF MapInv
-----------------------------------------------------------------------------
(* What the owner of a TTable does to the tables: nothing that is seen, or *)
(* one page of its lower half, or a new space with nothing in it.          *)
SpaceEffect(s, L) ==
  \/ pml4' = pml4 /\ SameViews(mem, mem', L)
  \/ /\ pml4' = pml4 /\ pml4[s] # NoFrame
     /\ \E p \in UPages, v \in Vals :
          /\ (UE(mem, pml4[s], p) = NoFrame) # (v = NoFrame)
          /\ UserSet(mem, mem', L, pml4[s], p, v)
  \/ \E n \in free :
       /\ pml4[s] = NoFrame /\ pml4' = [pml4 EXCEPT ![s] = n]
       /\ SameViews(mem, mem', L)
       /\ \A q \in UPages : UE(mem', n, q) = NoFrame

LEMMA SpaceTables ==
  ASSUME NEW L, Tree(mem, free, pml4, L), NEW s \in Spaces,
         \/ ttable_new(s)
         \/ \E p \in UserPages : ttable_map(s, p, Device) \/ ttable_unmap(s, p)
  PROVE  \E K : /\ Tree(mem', free', pml4', K) /\ Kept(free, L, free', K)
                /\ SpaceEffect(s, L)
<1>1. CASE ttable_new(s)
  BY <1>1, NewSpace DEF SpaceEffect
<1>2. ASSUME NEW p \in UserPages, ttable_map(s, p, Device)
      PROVE  \E K : /\ Tree(mem', free', pml4', K) /\ Kept(free, L, free', K)
                    /\ SpaceEffect(s, L)
  <2> DEFINE st == TTableFor(s, p)
  <2>1. /\ p \in UPages /\ Device \in Vals /\ Device # NoFrame
        /\ pml4[s] # NoFrame /\ pml4' = pml4
    BY <1>2, MappingAssumption DEF Vals, ttable_map
  <2>2. CASE MapOutcome(st, p) = "Ok"
    <3>1. /\ UE(mem, pml4[s], p) = NoFrame
          /\ \E K : /\ Tree(mem', free', pml4, K)
                    /\ Kept(free, L, free', K)
                    /\ UserSet(mem, mem', L, pml4[s], p, Device)
      BY <1>2, <2>1, <2>2, UserMap
    <3>2. (UE(mem, pml4[s], p) = NoFrame) # (Device = NoFrame)
      BY <2>1, <3>1
    <3> QED
      BY <2>1, <3>1, <3>2 DEF SpaceEffect
  <2>3. CASE MapOutcome(st, p) # "Ok"
    <3>1. mem' = st.mem /\ free' = st.free
      BY <1>2, <2>3 DEF ttable_map, Mapped
    <3>2. \E K : /\ Tree(st.mem, st.free, pml4, K)
                 /\ Kept(free, L, st.free, K)
                 /\ SameViews(mem, st.mem, L)
      BY <2>1, TWalk
    <3> HIDE DEF st
    <3> QED
      BY <2>1, <3>1, <3>2 DEF SpaceEffect
  <2> QED
    BY <2>2, <2>3
<1>3. ASSUME NEW p \in UserPages, ttable_unmap(s, p)
      PROVE  \E K : /\ Tree(mem', free', pml4', K) /\ Kept(free, L, free', K)
                    /\ SpaceEffect(s, L)
  <2>1. p \in UPages /\ NoFrame \in Vals /\ pml4' = pml4 /\ free' = free
    BY <1>3, MappingAssumption DEF Vals, ttable_unmap
  <2>2. /\ pml4[s] # NoFrame
        /\ UE(mem, pml4[s], p) # NoFrame
        /\ Tree(mem', free, pml4, L)
        /\ UserSet(mem, mem', L, pml4[s], p, NoFrame)
    BY <1>3, <2>1, UserUnmap
  <2>3. (UE(mem, pml4[s], p) = NoFrame) # (NoFrame = NoFrame)
    BY <2>2
  <2>4. SpaceEffect(s, L)
    BY <2>1, <2>2, <2>3 DEF SpaceEffect
  <2> QED
    BY <2>1, <2>2, <2>4 DEF Kept
<1> QED
  BY <1>1, <1>2, <1>3

(* The kernel's half and the mappings are not disturbed by it. *)
LEMMA SpaceStepInv ==
  ASSUME MapInv, SpaceStep
  PROVE  MapInv'
<1>1. PICK s \in Spaces \ {Boot} :
        \/ ttable_new(s)
        \/ \E p \in UserPages : ttable_map(s, p, Device) \/ ttable_unmap(s, p)
  BY DEF SpaceStep
<1>2. UNCHANGED <<avail, lock, pc, raw, i, tlb, panic>>
  BY DEF SpaceStep
<1>3. PICK L : FramesOK(L)
  BY DEF MapInv
<1>4. PICK K : Tree(mem', free', pml4', K) /\ Kept(free, L, free', K) /\ SpaceEffect(s, L)
  BY <1>1, <1>3, SpaceTables DEF FramesOK
<1>5. \A q \in KPages : KE(mem', q) = KE(mem, q)
  BY <1>4 DEF SpaceEffect, SameViews, UserSet
<1>6. pml4'[Boot] = pml4[Boot]
  <2>1. pml4 \in [Spaces -> Frames \union {NoFrame}] /\ Boot \in Spaces
    BY <1>3, TableAssumption DEF FramesOK, Tree
  <2> QED
    BY <1>1, <1>4, <2>1 DEF SpaceEffect
<1>7. FramesOK(K)'
  <2>1. pml4'[Boot] # NoFrame /\ \A m \in Mappings : Own(raw'[m]) = Own(raw[m])
    BY <1>2, <1>3, <1>6 DEF FramesOK
  <2> QED
    BY <1>3, <1>4, <2>1, FramesKept
<1>8. ControlOK' /\ PagesOK' /\ panic' = {}
  BY <1>2 DEF MapInv, ControlOK, PagesOK
<1>9. EntriesOK'
  <2>1. /\ \A p \in avail : p \in KPages
        /\ \A m \in Mappings : pc[m] \in WithPages => \A p \in PagesIn(raw[m]) : p \in KPages
        /\ \A m \in Mappings : \A j \in Done(pc[m], i[m], raw[m].len) :
             pc[m] \in WithPages /\ raw[m].valid + j \in PagesIn(raw[m])
    BY KernelPages DEF MapInv
  <2> QED
    BY <1>2, <1>5, <2>1 DEF MapInv, EntriesOK
<1>10. TlbOK'
  BY <1>2, <1>5, TlbQuiet DEF MapInv
<1> QED
  BY <1>7, <1>8, <1>9, <1>10 DEF MapInv

LEMMA KEntryIs ==
  ASSUME NEW p
  PROVE  KEntry(p) = KE(mem, p)
BY DEF KEntry, KLeaf, KE, child_table, Child, Leaf3, Entry3, KRoot

(* The processor caches an entry that is there. *)
LEMMA CacheStep ==
  ASSUME MapInv, Cache
  PROVE  MapInv'
<1>1. UNCHANGED <<mem, free, pml4, avail, lock, pc, raw, i, panic>>
  BY DEF Cache, tableVars
<1>2. TlbOK'
  <2>1. PICK p \in VRange : KEntry(p) # NoFrame /\ tlb' = [page |-> p, frame |-> KEntry(p)]
    BY DEF Cache
  <2>2. tlb'.page = p /\ tlb'.frame = KE(mem, p) /\ KE(mem, p) # NoFrame
    BY <2>1, KEntryIs
  <2> QED
    BY <1>1, <2>2 DEF TlbOK
<1>3. ControlOK' /\ panic' = {} /\ PagesOK' /\ EntriesOK'
  BY <1>1 DEF MapInv, ControlOK, PagesOK, EntriesOK
<1>4. \E L : FramesOK(L)'
  BY <1>1 DEF MapInv, FramesOK
<1> QED
  BY <1>2, <1>3, <1>4 DEF MapInv
-----------------------------------------------------------------------------
(* The tables construct_tables finds are a tree in which nothing is mapped. *)
LEMMA InitTree ==
  ASSUME TablesInit
  PROVE  \E L : /\ Tree(mem, free, pml4, L)
                /\ \A p \in KPages : KE(mem, p) = NoFrame
                /\ \A p \in UPages : UE(mem, BootPml4, p) = NoFrame
<1> DEFINE L == [f \in Frames |-> IF f = BootPml4 THEN 4 ELSE IF f \in KTableFrames THEN 3 ELSE 0]
<1>1. /\ BootPml4 \in Frames /\ BootPml4 \notin KTableFrames /\ NoFrame \notin Frames
      /\ KTableFrames \subseteq Frames /\ Boot \in Spaces
      /\ \A j \in Idx : j >= Half => KBase + (j - Half) \in KTableFrames
  BY TableAssumption, KFrames
<1>2. /\ \A f \in Frames, j \in Idx : f \in KTableFrames => mem[f][j] = NoFrame
      /\ \A j \in Idx : mem[BootPml4][j] = IF j < Half THEN NoFrame ELSE KBase + (j - Half)
  BY <1>1 DEF TablesInit, Empty, Idx
<1>3. mem \in [Frames -> [Idx -> Vals]]
  <2> DEFINE Top == [x \in 0 .. Entries - 1 |-> IF x < Half THEN NoFrame ELSE KBase + (x - Half)]
  <2>1. Top \in [Idx -> Vals]
    <3> SUFFICES ASSUME NEW x \in Idx PROVE (IF x < Half THEN NoFrame ELSE KBase + (x - Half)) \in Vals
      BY DEF Idx
    <3>1. x \in Int /\ Half \in Int
      BY KFrames, TableAssumption DEF Idx
    <3> QED
      BY <1>1, <3>1 DEF Vals
  <2>2. Empty \in [Idx -> Vals] /\ Written \in [Idx -> Vals]
    BY <1>1 DEF Empty, Written, Idx, Vals
  <2>3. mem = [f \in Frames |->
                 IF f = BootPml4 THEN Top ELSE IF f \in KTableFrames THEN Empty ELSE Written]
    BY DEF TablesInit
  <2> HIDE DEF Top
  <2> QED
    BY <2>1, <2>2, <2>3
<1>4. L \in [Frames -> 0 .. 4]
  OBVIOUS
<1>5. /\ L[BootPml4] = 4
      /\ \A f \in Frames : L[f] >= 2 => f = BootPml4 \/ f \in KTableFrames
      /\ \A f \in Frames : L[f] = 4 => f = BootPml4
      /\ \A f \in KTableFrames : L[f] = 3
      /\ \A f \in free : f \in Frames /\ L[f] = 0
  BY <1>1 DEF TablesInit
<1> HIDE DEF L
<1>6. \A j \in Idx : j \in Int /\ Half \in Int
  BY KFrames, TableAssumption DEF Idx
<1>7. Levels(mem, L)
  <2> SUFFICES ASSUME NEW f \in Frames, NEW j \in Idx, L[f] >= 2, mem[f][j] # NoFrame
               PROVE  mem[f][j] \in Frames /\ L[mem[f][j]] = L[f] - 1
    BY DEF Levels
  <2>1. f = BootPml4 /\ mem[f][j] \in KTableFrames
    BY SMTT(30), <1>1, <1>2, <1>5, <1>6
  <2> QED
    BY SMTT(30), <1>1, <1>5, <2>1
<1>8. Halves(mem, L)
  <2> SUFFICES ASSUME NEW j \in Idx
               PROVE  IF j >= Half THEN mem[BootPml4][j] = KBase + (j - Half)
                                   ELSE mem[BootPml4][j] \notin KTableFrames
    BY <1>5 DEF Halves
  <2> QED
    BY SMTT(30), <1>1, <1>2, <1>6
<1>9. OnePlace(mem, L)
  <2> SUFFICES ASSUME NEW f \in Frames, NEW j \in Idx, Slot(L, f, j)
               PROVE  mem[f][j] = NoFrame
    BY DEF OnePlace
  <2> QED
    BY <1>2, <1>5, <1>6 DEF Slot
<1>10. Tree(mem, free, pml4, L)
  <2>1. /\ pml4 \in [Spaces -> Frames \union {NoFrame}]
        /\ \A s \in Spaces : pml4[s] # NoFrame => s = Boot /\ pml4[s] = BootPml4
    BY <1>1 DEF TablesInit
  <2> QED
    BY <1>3, <1>4, <1>5, <1>7, <1>8, <1>9, <2>1 DEF Tree
<1>11. ASSUME NEW p \in KPages PROVE KE(mem, p) = NoFrame
  <2>1. KRoot(p) \in KTableFrames /\ KRoot(p) \in Frames /\ pdpt_index(p) \in Idx
    BY Roots, Indices DEF Pages
  <2>2. Child(mem, KRoot(p), pdpt_index(p)) = NoFrame
    BY <1>2, <2>1 DEF Child
  <2> QED
    BY <2>2 DEF KE, Entry3, Leaf3, Child
<1>12. ASSUME NEW p \in UPages PROVE UE(mem, BootPml4, p) = NoFrame
  <2>1. pml4_index(p) \in Idx /\ pml4_index(p) < Half
    BY <1>1, <1>5, <1>10, LowerHalf
  <2>2. Child(mem, BootPml4, pml4_index(p)) = NoFrame
    BY <1>2, <2>1 DEF Child
  <2> QED
    BY <2>2 DEF UE, Entry4, Entry3, Leaf3, Child
<1> QED
  BY <1>10, <1>11, <1>12

LEMMA InitInv == Init => MapInv
<1> SUFFICES ASSUME Init PROVE MapInv
  OBVIOUS
<1>1. PICK L : /\ Tree(mem, free, pml4, L)
               /\ \A p \in KPages : KE(mem, p) = NoFrame
  BY InitTree DEF Init
<1>2. \A m \in Mappings : pc[m] = "none" /\ raw[m] = Unset /\ i[m] = 0
  BY DEF Init
<1>3. ControlOK
  <2>1. pc \in [Mappings -> Labels] /\ raw \in [Mappings -> Raws] /\ i \in [Mappings -> Nat]
    BY UnsetEmpty DEF Init, Labels
  <2> QED
    BY <1>2, <2>1, MappingAssumption DEF Init, ControlOK, Locking
<1>4. FramesOK(L)
  <2>1. pml4[Boot] # NoFrame
    BY TableAssumption DEF Init, TablesInit
  <2> QED
    BY <1>1, <1>2, <2>1, UnsetEmpty DEF FramesOK
<1>5. PagesOK
  BY <1>2 DEF Init, PagesOK, WithPages
<1>6. EntriesOK
  <2>1. \A m \in Mappings : Done(pc[m], i[m], raw[m].len) = {}
    BY <1>2 DEF Done
  <2>2. \A p \in avail : p \in KPages
    BY MappingAssumption DEF Init
  <2> QED
    BY <1>1, <1>2, <2>1, <2>2 DEF EntriesOK, WithPages
<1> QED
  BY <1>3, <1>4, <1>5, <1>6 DEF MapInv, TlbOK, Init

LEMMA NextInv == MapInv /\ [Next]_vars => MapInv'
<1> SUFFICES ASSUME MapInv, [Next]_vars PROVE MapInv'
  OBVIOUS
<1>1. CASE SpaceStep
  BY <1>1, SpaceStepInv
<1>2. CASE Cache
  BY <1>2, CacheStep
<1>3. ASSUME NEW m \in Mappings, MappingStep(m)
      PROVE  MapInv'
  BY <1>3, NewFramesStep, NewPagesStep, FramesDroppedStep, LockStep, MapOneStep, MapPanicsStep,
     RoundTripStep, UnmapOneStep, ReturnPagesStep, UnlockStep DEF MappingStep
<1>4. CASE UNCHANGED vars
  <2>1. UNCHANGED <<mem, free, pml4, avail, lock, pc, raw, i, tlb, panic>>
    BY <1>4 DEF vars, tableVars
  <2>2. ControlOK' /\ panic' = {} /\ PagesOK' /\ EntriesOK' /\ TlbOK'
    BY <2>1 DEF MapInv, ControlOK, PagesOK, EntriesOK, TlbOK
  <2>3. \E L : FramesOK(L)'
    BY <2>1 DEF MapInv, FramesOK
  <2> QED
    BY <2>2, <2>3 DEF MapInv
<1> QED
  BY <1>1, <1>2, <1>3, <1>4 DEF Next

(* The inductive invariant: the tables are trees, each mapping's frames    *)
(* and pages are its own, and the entries are what the mappings have done. *)
THEOREM MappingInvariance == Spec => []MapInv
BY InitInv, NextInv, PTL DEF Spec

(* RawMapping::new and drop, at every point of every interleaving: the     *)
(* kernel's page table maps the pages of the mappings, to frames they own, *)
(* and, but for pages lost to a failed new, nothing else.                  *)
THEOREM PageTableMapsWhatIsOwned == Spec => []MappedIsOwned
<1>1. MapInv => MappedIsOwned
  <2> SUFFICES ASSUME MapInv PROVE MappedIsOwned
    OBVIOUS
  <2>1. \A p : KEntry(p) = KE(mem, p)
    BY KEntryIs
  <2>2. \A m \in Mappings : Progress(m) = Done(pc[m], i[m], raw[m].len)
    BY DEF Progress, Done
  <2>3. ASSUME NEW m \in Mappings, NEW j \in Progress(m)
        PROVE  KEntry(raw[m].valid + j) = raw[m].base + j /\ raw[m].base + j \notin free
    <3>1. j \in 0 .. raw[m].len - 1
      BY <2>2, <2>3, DoneRange DEF MapInv
    <3>2. raw[m].base + j \in Own(raw[m])
      BY <3>1, Typed, PageRange
    <3> QED
      BY <2>1, <2>2, <2>3, <3>2 DEF MapInv, EntriesOK, FramesOK
  <2>4. ASSUME NEW m \in HasPages, raw[m].kind = "stack"
        PROVE  KEntry(virtual_start(m)) = NoFrame
    <3>1. m \in Mappings /\ pc[m] \in WithPages /\ raw[m] \in Raws
      BY Typed DEF HasPages, WithPages
    <3>2. virtual_start(m) = raw[m].valid - 1 /\ raw[m].valid \in Int
          /\ VStart(raw[m]) = raw[m].valid - 1
      BY <2>4, <3>1, PageRange DEF virtual_start, VStart
    <3>3. PagesIn(raw[m]) = raw[m].valid - 1 .. raw[m].valid + raw[m].len - 1
          /\ raw[m].len \in Nat
      BY <3>1, <3>2, PageRange
    <3>4. virtual_start(m) \in PagesIn(raw[m])
      BY <3>2, <3>3
    <3>5. virtual_start(m) - raw[m].valid \notin Done(pc[m], i[m], raw[m].len)
      <4>1. Done(pc[m], i[m], raw[m].len) \subseteq 0 .. raw[m].len - 1
        BY <3>1, DoneRange DEF MapInv
      <4>2. virtual_start(m) - raw[m].valid = -1
        BY <3>2
      <4> QED
        BY <4>1, <4>2
    <3> QED
      BY <2>1, <3>1, <3>4, <3>5 DEF MapInv, EntriesOK
  <2>5. ASSUME NEW p \in VRange, KEntry(p) # NoFrame, p \notin Lost
        PROVE  \E m \in Mappings : p - raw[m].valid \in Progress(m)
    <3>1. p \notin avail
      BY <2>1, <2>5 DEF MapInv, EntriesOK
    <3>2. PICK m \in HasPages : p \in PagesOf(m)
      BY <2>5, <3>1 DEF Lost
    <3>3. m \in Mappings /\ pc[m] \in WithPages /\ p \in PagesIn(raw[m])
      BY <3>2 DEF HasPages, WithPages, PagesOf, PagesIn, virtual_start, VStart
    <3> QED
      BY <2>1, <2>2, <2>5, <3>3 DEF MapInv, EntriesOK
  <2>6. tlb # None => tlb.frame = KEntry(tlb.page)
    BY <2>1 DEF MapInv, TlbOK
  <2> QED
    BY <2>3, <2>4, <2>5, <2>6 DEF MappedIsOwned
<1> QED
  BY <1>1, MappingInvariance, PTL

(* The expects of new and drop never fail but for want of a frame. *)
THEOREM ExpectsHold == Spec => []UniquelyOwned
<1>1. MapInv => UniquelyOwned
  <2> SUFFICES ASSUME MapInv PROVE UniquelyOwned
    OBVIOUS
  <2>1. ASSUME NEW m \in Mappings, pc[m] = "unmap"
        PROVE  KEntry(raw[m].valid + i[m]) # NoFrame
    <3>1. KE(mem, raw[m].valid + i[m]) \in Frames
      BY <2>1, LoopPage
    <3> QED
      BY <3>1, KEntryIs, TableAssumption
  <2> QED
    BY <2>1 DEF UniquelyOwned, UnmapPanics, MapInv
<1> QED
  BY <1>1, MappingInvariance, PTL
-----------------------------------------------------------------------------
(* What the processor sees of the spaces whose PML4s are P, in memory M. *)
Seen(M, r) == [p \in KPages \union UPages |-> UE(M, r, p)]
Look(M, P) == [s \in Spaces |-> IF P[s] = NoFrame THEN NoFrame ELSE Seen(M, P[s])]

LEMMA KUDisjoint == KPages \intersect UPages = {}
<1>1. \A h, e \in Int : (h .. e - 1) \intersect (0 .. h - 1) = {}
  OBVIOUS
<1>2. Half * Entries * Entries * Entries \in Int /\ Entries * Entries * Entries * Entries \in Int
  BY KFrames, TableAssumption
<1> QED
  BY <1>1, <1>2 DEF KPages, UPages

LEMMA EntryVals ==
  ASSUME NEW M, NEW F, NEW P, NEW L, Tree(M, F, P, L),
         NEW d \in Frames \union {NoFrame}, d # NoFrame => L[d] = 3,
         NEW a \in Idx, NEW b \in Idx, NEW c \in Idx
  PROVE  Entry3(M, d, a, b, c) \in Vals
<1>1. Leaf3(M, d, a, b) \in Frames \union {NoFrame}
  BY SMTT(30), LeafLevel
<1> HIDE DEF Leaf3
<1> QED
  BY SMTT(30), <1>1 DEF Entry3, Child, Tree, Vals

(* A PML4 is seen as a function to frames, the kernel's half as the KTable *)
(* has it.                                                                 *)
LEMMA SeenIs ==
  ASSUME NEW M, NEW F, NEW P, NEW L, Tree(M, F, P, L), NEW r \in Frames, L[r] = 4
  PROVE  /\ \A p \in KPages : Seen(M, r)[p] = KE(M, p)
         /\ \A p \in UPages : Seen(M, r)[p] = UE(M, r, p)
         /\ Seen(M, r) \in [KPages \union UPages -> Vals]
         /\ Seen(M, r) # NoFrame
<1>1. ASSUME NEW p \in KPages PROVE UE(M, r, p) = KE(M, p) /\ KE(M, p) \in Vals
  <2>1. UE(M, r, p) = KE(M, p)
    BY UpperHalf
  <2>2. KRoot(p) \in Frames /\ L[KRoot(p)] = 3
    BY Roots DEF Tree
  <2>3. pdpt_index(p) \in Idx /\ pd_index(p) \in Idx /\ pt_index(p) \in Idx
    BY Indices DEF Pages
  <2> QED
    BY <2>1, <2>2, <2>3, EntryVals DEF KE
<1>2. ASSUME NEW p \in UPages PROVE UE(M, r, p) \in Vals
  <2> DEFINE d == Child(M, r, pml4_index(p))
  <2>1. d \in Frames \union {NoFrame} /\ (d # NoFrame => L[d] = 3)
    BY SMTT(30), LowerHalf
  <2>2. pdpt_index(p) \in Idx /\ pd_index(p) \in Idx /\ pt_index(p) \in Idx
    BY Indices DEF Pages
  <2>3. UE(M, r, p) = Entry3(M, d, pdpt_index(p), pd_index(p), pt_index(p))
    BY DEF UE, Entry4
  <2> HIDE DEF d
  <2> QED
    BY <2>1, <2>2, <2>3, EntryVals
<1>3. Seen(M, r) \in [KPages \union UPages -> Vals]
  BY <1>1, <1>2 DEF Seen
<1>4. Seen(M, r) # NoFrame
  BY <1>3, MappingAssumption DEF Vals
<1> QED
  BY <1>1, <1>3, <1>4 DEF Seen

LEMMA LookIs ==
  ASSUME NEW M, NEW F, NEW P, NEW L, Tree(M, F, P, L), NEW s \in Spaces
  PROVE  /\ P[s] = NoFrame => Look(M, P)[s] = NoFrame
         /\ P[s] # NoFrame =>
              /\ P[s] \in Frames /\ L[P[s]] = 4
              /\ Look(M, P)[s] = Seen(M, P[s])
              /\ Look(M, P)[s] # NoFrame
<1>1. P[s] # NoFrame => P[s] \in Frames /\ L[P[s]] = 4
  BY DEF Tree
<1>2. Look(M, P)[s] = IF P[s] = NoFrame THEN NoFrame ELSE Seen(M, P[s])
  BY DEF Look
<1> QED
  BY SMTT(30), <1>1, <1>2, SeenIs

(* What cannot be seen. *)
LEMMA SameSeen ==
  ASSUME NEW M, NEW F, NEW P, NEW L, Tree(M, F, P, L),
         NEW N, NEW G, NEW Q, NEW K, Tree(N, G, Q, K), SameViews(M, N, L),
         NEW r \in Frames, L[r] = 4, K[r] = 4
  PROVE  Seen(N, r) = Seen(M, r)
<1>1. ASSUME NEW p \in KPages PROVE UE(N, r, p) = UE(M, r, p)
  <2>1. UE(N, r, p) = KE(N, p)
    BY UpperHalf
  <2>2. UE(M, r, p) = KE(M, p)
    BY UpperHalf
  <2> QED
    BY <2>1, <2>2 DEF SameViews
<1>2. \A p \in UPages : UE(N, r, p) = UE(M, r, p)
  BY DEF SameViews
<1> QED
  BY <1>1, <1>2 DEF Seen

LEMMA SameLook ==
  ASSUME NEW M, NEW F, NEW P, NEW L, Tree(M, F, P, L),
         NEW N, NEW G, NEW K, Tree(N, G, P, K), SameViews(M, N, L)
  PROVE  Look(N, P) = Look(M, P)
<1>1. \A s \in Spaces : P[s] # NoFrame => P[s] \in Frames /\ L[P[s]] = 4 /\ K[P[s]] = 4
  BY DEF Tree
<1> QED
  BY SMTT(30), <1>1, SameSeen DEF Look

(* A page of the kernel's half is mapped or unmapped: every space sees it. *)
LEMMA KernelSeen ==
  ASSUME NEW M, NEW F, NEW P, NEW L, Tree(M, F, P, L), P[Boot] # NoFrame,
         NEW N, NEW G, NEW K, Tree(N, G, P, K),
         NEW p \in KPages, NEW v, KernelSet(M, N, L, p, v), (KE(M, p) = NoFrame) # (v = NoFrame)
  PROVE  AS!KernelChange(Look(M, P), Look(N, P))
<1> DEFINE V == Look(M, P)
           W == Look(N, P)
<1>0. Boot \in Spaces
  BY TableAssumption
<1>1. \A s \in Spaces : P[s] # NoFrame =>
        /\ V[s] # NoFrame /\ W[s] # NoFrame
        /\ V[s][p] = KE(M, p) /\ W[s][p] = v
        /\ W[s] = [V[s] EXCEPT ![p] = v]
  <2> SUFFICES ASSUME NEW s \in Spaces, P[s] # NoFrame
               PROVE  /\ V[s] # NoFrame /\ W[s] # NoFrame
                      /\ V[s][p] = KE(M, p) /\ W[s][p] = v
                      /\ W[s] = [V[s] EXCEPT ![p] = v]
    OBVIOUS
  <2> DEFINE r == P[s]
  <2>1. r \in Frames /\ L[r] = 4 /\ V[s] = Seen(M, r) /\ V[s] # NoFrame
    BY SMTT(30), LookIs
  <2>2. K[r] = 4 /\ W[s] = Seen(N, r) /\ W[s] # NoFrame
    BY SMTT(30), LookIs
  <2> HIDE DEF V, W, r
  <2>3. /\ \A q \in KPages : Seen(M, r)[q] = KE(M, q)
        /\ \A q \in UPages : Seen(M, r)[q] = UE(M, r, q)
    BY SMTT(30), <2>1, SeenIs
  <2>4. /\ \A q \in KPages : Seen(N, r)[q] = KE(N, q)
        /\ \A q \in UPages : Seen(N, r)[q] = UE(N, r, q)
    BY SMTT(30), <2>1, <2>2, SeenIs
  <2>5. \A q \in KPages \union UPages : Seen(N, r)[q] = IF q = p THEN v ELSE Seen(M, r)[q]
    <3>1. p \notin UPages
      BY KUDisjoint
    <3> QED
      BY SMTT(30), <2>1, <2>3, <2>4, <3>1 DEF KernelSet
  <2>6. Seen(N, r) = [Seen(M, r) EXCEPT ![p] = v]
    BY <2>5 DEF Seen
  <2> QED
    BY <2>1, <2>2, <2>3, <2>5, <2>6
<1>2. \A s \in Spaces : P[s] = NoFrame => V[s] = NoFrame /\ W[s] = NoFrame
  BY SMTT(30), LookIs
<1>3. W = [s \in Spaces |-> W[s]]
  BY DEF Look
<1> HIDE DEF V, W
<1>4. AS!Toggles(V, W, Boot, p) /\ W[Boot][p] = v
  BY <1>0, <1>1 DEF AS!Toggles
<1>5. W = [s \in Spaces |-> IF V[s] = NoFrame THEN NoFrame ELSE [V[s] EXCEPT ![p] = v]]
  BY <1>1, <1>2, <1>3
<1>6. W = [s \in Spaces |-> IF V[s] = NoFrame THEN NoFrame ELSE [V[s] EXCEPT ![p] = W[Boot][p]]]
  BY <1>4, <1>5
<1>7. AS!KernelChange(V, W)
  BY <1>0, <1>4, <1>6 DEF AS!KernelChange
<1> QED
  BY <1>7 DEF V, W

(* A page of the lower half of one space is: that space alone sees it. *)
LEMMA UserSeen ==
  ASSUME NEW M, NEW F, NEW P, NEW L, Tree(M, F, P, L),
         NEW N, NEW G, NEW K, Tree(N, G, P, K), NEW s \in Spaces, P[s] # NoFrame,
         NEW p \in UPages, NEW v, UserSet(M, N, L, P[s], p, v),
         (UE(M, P[s], p) = NoFrame) # (v = NoFrame)
  PROVE  AS!UserChange(Look(M, P), Look(N, P))
<1> DEFINE V == Look(M, P)
           W == Look(N, P)
<1>1. ASSUME NEW o \in Spaces, P[o] # NoFrame
      PROVE  /\ V[o] # NoFrame /\ W[o] # NoFrame
             /\ V[o] = [q \in KPages \union UPages |-> V[o][q]]
             /\ W[o] = [q \in KPages \union UPages |-> W[o][q]]
             /\ V[o][p] = UE(M, P[o], p)
             /\ \A q \in KPages \union UPages :
                  W[o][q] = IF o = s /\ q = p THEN v ELSE V[o][q]
  <2> DEFINE r == P[o]
  <2>1. r \in Frames /\ L[r] = 4 /\ V[o] = Seen(M, r) /\ V[o] # NoFrame
    BY SMTT(30), <1>1, LookIs
  <2>2. K[r] = 4 /\ W[o] = Seen(N, r) /\ W[o] # NoFrame
    BY SMTT(30), <1>1, LookIs
  <2>3. o = s <=> r = P[s]
    BY <1>1 DEF Tree
  <2> HIDE DEF V, W, r
  <2>4. /\ \A q \in KPages : Seen(M, r)[q] = KE(M, q)
        /\ \A q \in UPages : Seen(M, r)[q] = UE(M, r, q)
    <3>1. r \in Frames /\ L[r] = 4
      BY <2>1
    <3> QED
      BY SMTT(30), <3>1, SeenIs
  <2>5. /\ \A q \in KPages : Seen(N, r)[q] = KE(N, q)
        /\ \A q \in UPages : Seen(N, r)[q] = UE(N, r, q)
    <3>1. r \in Frames /\ K[r] = 4
      BY <2>1, <2>2
    <3> QED
      BY SMTT(30), <3>1, SeenIs
  <2>6. \A q \in KPages \union UPages :
          Seen(N, r)[q] = IF o = s /\ q = p THEN v ELSE Seen(M, r)[q]
    <3>1. p \notin KPages
      BY KUDisjoint
    <3> QED
      BY SMTT(30), <2>1, <2>3, <2>4, <2>5, <3>1 DEF UserSet
  <2>7. /\ Seen(M, r) = [q \in KPages \union UPages |-> Seen(M, r)[q]]
        /\ Seen(N, r) = [q \in KPages \union UPages |-> Seen(N, r)[q]]
    BY DEF Seen
  <2> QED
    BY <2>1, <2>2, <2>4, <2>6, <2>7 DEF r
<1>2. \A o \in Spaces : P[o] = NoFrame => V[o] = NoFrame /\ W[o] = NoFrame
  BY SMTT(30), LookIs
<1>3. \A o \in Spaces : o # s => W[o] = V[o]
  <2> SUFFICES ASSUME NEW o \in Spaces, o # s, P[o] # NoFrame PROVE W[o] = V[o]
    BY <1>2
  <2> HIDE DEF V, W
  <2>1. \A q \in KPages \union UPages : W[o][q] = V[o][q]
    BY <1>1
  <2> QED
    BY ZenonT(60), <1>1, <2>1
<1>4. V[s][p] = UE(M, P[s], p)
  BY <1>1
<1>5. W = [o \in Spaces |-> W[o]] /\ V = [o \in Spaces |-> V[o]]
  BY DEF Look
<1> HIDE DEF V, W
<1>6. V[s] # NoFrame /\ W[s] # NoFrame /\ W[s][p] = v
  BY <1>1
<1>7. W[s] = [V[s] EXCEPT ![p] = W[s][p]]
  BY <1>1, <1>6
<1>8. W = [V EXCEPT ![s] = [V[s] EXCEPT ![p] = W[s][p]]]
  BY <1>3, <1>5, <1>7
<1>9. AS!Toggles(V, W, s, p)
  BY <1>4, <1>6 DEF AS!Toggles
<1>10. AS!UserChange(V, W)
  BY <1>8, <1>9 DEF AS!UserChange
<1> QED
  BY <1>10 DEF V, W

(* A new space has the kernel's half, and nothing below. *)
LEMMA NewSeen ==
  ASSUME NEW M, NEW F, NEW P, NEW L, Tree(M, F, P, L), P[Boot] # NoFrame,
         NEW s \in Spaces, P[s] = NoFrame, NEW n \in F, NEW Q, Q = WithSpace(P, s, n),
         NEW N, NEW G, NEW K, Tree(N, G, Q, K), SameViews(M, N, L),
         \A q \in UPages : UE(N, n, q) = NoFrame
  PROVE  AS!New(Look(M, P), Look(N, Q))
<1> DEFINE V == Look(M, P)
           W == Look(N, Q)
           E == [p \in KPages \union UPages |-> IF p \in KPages THEN V[Boot][p] ELSE NoFrame]
<1>1. /\ Boot \in Spaces /\ n \in Frames /\ n # NoFrame /\ Q[s] = n
      /\ \A o \in Spaces : o # s => Q[o] = P[o]
  BY TableAssumption DEF Tree, WithSpace
<1>2. \A o \in Spaces : o # s => W[o] = V[o]
  <2> SUFFICES ASSUME NEW o \in Spaces, o # s PROVE W[o] = V[o]
    OBVIOUS
  <2>1. CASE P[o] = NoFrame
    BY SMTT(30), <1>1, <2>1, LookIs
  <2>2. CASE P[o] # NoFrame
    <3>1. P[o] \in Frames /\ L[P[o]] = 4 /\ V[o] = Seen(M, P[o])
      BY SMTT(30), <2>2, LookIs
    <3>2. Q[o] = P[o] /\ K[Q[o]] = 4 /\ W[o] = Seen(N, Q[o])
      BY SMTT(30), <1>1, <2>2, LookIs
    <3> QED
      BY SMTT(30), <3>1, <3>2, SameSeen
  <2> QED
    BY <2>1, <2>2
<1>3. V[s] = NoFrame /\ V[Boot] # NoFrame
  BY SMTT(30), <1>1, LookIs
<1>4. W[s] = E
  <2>1. K[n] = 4 /\ W[s] = Seen(N, n)
    BY SMTT(30), <1>1, LookIs
  <2>2. \A p \in KPages : Seen(N, n)[p] = KE(N, p)
    BY SMTT(30), <1>1, <2>1, SeenIs
  <2>3. \A p \in KPages : V[Boot][p] = KE(M, p)
    <3>1. P[Boot] \in Frames /\ L[P[Boot]] = 4 /\ V[Boot] = Seen(M, P[Boot])
      BY SMTT(30), <1>1, LookIs
    <3> QED
      BY SMTT(30), <3>1, SeenIs
  <2>4. \A p \in KPages : KE(N, p) = KE(M, p)
    BY DEF SameViews
  <2> HIDE DEF V, W
  <2>5. \A p \in KPages \union UPages :
          UE(N, n, p) = IF p \in KPages THEN V[Boot][p] ELSE NoFrame
    BY <2>2, <2>3, <2>4 DEF Seen
  <2> QED
    BY <2>1, <2>5 DEF Seen
<1>5. W = [o \in Spaces |-> W[o]] /\ V = [o \in Spaces |-> V[o]]
  BY DEF Look
<1> HIDE DEF V, W
<1>6. W = [V EXCEPT ![s] = E]
  BY <1>2, <1>4, <1>5
<1>7. AS!New(V, W)
  BY <1>1, <1>3, <1>6 DEF AS!New
<1> QED
  BY <1>7 DEF V, W

(* What a step does to what is seen: nothing, or a step of AddressSpaces. *)
Changes(V, W) == AS!KernelChange(V, W) \/ AS!UserChange(V, W) \/ AS!New(V, W)

LEMMA LoopSeen ==
  ASSUME MapInv, NEW m \in Mappings, MapOne(m) \/ MapPanics(m) \/ UnmapOne(m)
  PROVE  \/ Look(mem', pml4') = Look(mem, pml4)
         \/ Changes(Look(mem, pml4), Look(mem', pml4'))
<1> DEFINE p == raw[m].valid + i[m]
<1>1. PICK L : FramesOK(L)
  BY DEF MapInv
<1>2. Tree(mem, free, pml4, L) /\ pml4[Boot] # NoFrame
  BY <1>1 DEF FramesOK
<1>3. CASE MapOne(m)
  <2> DEFINE v == raw[m].base + i[m]
  <2>1. pc[m] = "map" /\ ktable_map(p, v) /\ MapOutcome(KTableFor(p), p) = "Ok" /\ pml4' = pml4
    BY <1>3 DEF MapOne, ktable_map
  <2>2. p \in KPages /\ v \in Frames /\ v \in Vals /\ v # NoFrame
    BY <2>1, LoopPage, TableAssumption DEF Vals
  <2> HIDE DEF p, v
  <2>3. /\ KE(mem, p) = NoFrame
        /\ \E K : Tree(mem', free', pml4, K) /\ KernelSet(mem, mem', L, p, v)
    BY <1>2, <2>1, <2>2, KernelMap
  <2>4. (KE(mem, p) = NoFrame) # (v = NoFrame)
    BY <2>2, <2>3
  <2> QED
    BY <1>2, <2>1, <2>2, <2>3, <2>4, KernelSeen DEF Changes
<1>4. CASE MapPanics(m)
  <2> DEFINE st == KTableFor(p)
  <2>1. pc[m] = "map" /\ mem' = st.mem /\ pml4' = pml4
    BY <1>4 DEF MapPanics
  <2>2. p \in KPages
    BY <2>1, LoopPage
  <2>3. \E K : Tree(st.mem, st.free, pml4, K) /\ SameViews(mem, st.mem, L)
    BY <1>2, <2>2, KWalk
  <2> HIDE DEF st
  <2> QED
    BY SMTT(30), <1>2, <2>1, <2>3, SameLook
<1>5. CASE UnmapOne(m)
  <2>1. pc[m] = "unmap" /\ ktable_unmap(p) /\ pml4' = pml4
    BY <1>5 DEF UnmapOne, ktable_unmap
  <2>2. p \in KPages
    BY <2>1, LoopPage
  <2> HIDE DEF p
  <2>3. KE(mem, p) # NoFrame /\ Tree(mem', free, pml4, L) /\ KernelSet(mem, mem', L, p, NoFrame)
    BY <1>2, <2>1, <2>2, KernelUnmap
  <2>4. (KE(mem, p) = NoFrame) # (NoFrame = NoFrame)
    BY <2>3
  <2> QED
    BY <1>2, <2>1, <2>2, <2>3, <2>4, KernelSeen DEF Changes
<1> QED
  BY <1>3, <1>4, <1>5

LEMMA SpaceSeen ==
  ASSUME MapInv, SpaceStep
  PROVE  \/ Look(mem', pml4') = Look(mem, pml4)
         \/ Changes(Look(mem, pml4), Look(mem', pml4'))
<1>1. PICK L : FramesOK(L)
  BY DEF MapInv
<1>2. Tree(mem, free, pml4, L) /\ pml4[Boot] # NoFrame
  BY <1>1 DEF FramesOK
<1>3. PICK s \in Spaces \ {Boot} :
        \/ ttable_new(s)
        \/ \E p \in UserPages : ttable_map(s, p, Device) \/ ttable_unmap(s, p)
  BY DEF SpaceStep
<1>4. PICK K : Tree(mem', free', pml4', K) /\ SpaceEffect(s, L)
  BY <1>2, <1>3, SpaceTables
<1>5. CASE pml4' = pml4 /\ SameViews(mem, mem', L)
  BY <1>2, <1>4, <1>5, SameLook
<1>6. ASSUME pml4' = pml4, pml4[s] # NoFrame, NEW p \in UPages, NEW v \in Vals,
             (UE(mem, pml4[s], p) = NoFrame) # (v = NoFrame),
             UserSet(mem, mem', L, pml4[s], p, v)
      PROVE  AS!UserChange(Look(mem, pml4), Look(mem', pml4'))
  BY <1>2, <1>4, <1>6, UserSeen
<1>7. ASSUME NEW n \in free, pml4[s] = NoFrame, pml4' = [pml4 EXCEPT ![s] = n],
             SameViews(mem, mem', L), \A q \in UPages : UE(mem', n, q) = NoFrame
      PROVE  AS!New(Look(mem, pml4), Look(mem', pml4'))
  <2>1. pml4' = WithSpace(pml4, s, n)
    BY <1>7 DEF WithSpace
  <2>2. \A Q : Q = WithSpace(pml4, s, n) /\ Tree(mem', free', Q, K) =>
          AS!New(Look(mem, pml4), Look(mem', Q))
    BY <1>2, <1>7, NewSeen
  <2> QED
    BY <1>4, <2>1, <2>2
<1> QED
  BY <1>4, <1>5, <1>6, <1>7 DEF SpaceEffect, Changes

(* The view of AddressSpaces is what is seen. *)
LEMMA ViewIs ==
  /\ [s \in Spaces |-> Space(s)] = Look(mem, pml4)
  /\ [s \in Spaces |-> Space(s)]' = Look(mem', pml4')
<1>1. \A s \in Spaces : Space(s) = IF pml4[s] = NoFrame THEN NoFrame ELSE Seen(mem, pml4[s])
  BY DEF Space, Seen, Translate, TLeaf, UE, Entry4, Entry3, Leaf3, Child, child_table
<1>2. \A s \in Spaces :
        Space(s)' = IF pml4'[s] = NoFrame THEN NoFrame ELSE Seen(mem', pml4'[s])
  BY DEF Space, Seen, Translate, TLeaf, UE, Entry4, Entry3, Leaf3, Child, child_table
<1> QED
  BY <1>1, <1>2 DEF Look

(* The page tables of all spaces, with the walks that make tables and fail *)
(* half-way, implement address spaces that share the kernel's half.        *)
THEOREM TablesImplementAddressSpaces == Spec => ImplementsAddressSpaces
<1>1. Init => AS!Init
  <2> SUFFICES ASSUME Init PROVE AS!Init
    OBVIOUS
  <2>1. PICK L : /\ Tree(mem, free, pml4, L)
                 /\ \A p \in KPages : KE(mem, p) = NoFrame
                 /\ \A p \in UPages : UE(mem, BootPml4, p) = NoFrame
    BY InitTree DEF Init
  <2>2. Boot \in Spaces /\ BootPml4 # NoFrame
        /\ \A s \in Spaces : pml4[s] = IF s = Boot THEN BootPml4 ELSE NoFrame
    BY TableAssumption DEF Init, TablesInit
  <2>3. Seen(mem, BootPml4) = AS!Nowhere
    <3>1. BootPml4 \in Frames /\ L[BootPml4] = 4
      BY SMTT(30), <2>1, <2>2, TableAssumption DEF Tree
    <3>2. \A p \in KPages \union UPages : UE(mem, BootPml4, p) = NoFrame
      BY SMTT(30), <2>1, <3>1, UpperHalf
    <3> QED
      BY <3>2 DEF Seen, AS!Nowhere
  <2>4. Look(mem, pml4) = [s \in Spaces |-> IF s = Boot THEN AS!Nowhere ELSE NoFrame]
    BY <2>2, <2>3 DEF Look
  <2> QED
    BY <2>2, <2>4, ViewIs DEF AS!Init
<1>2. MapInv /\ [Next]_vars => [AS!Next]_([s \in Spaces |-> Space(s)])
  <2> SUFFICES ASSUME MapInv, [Next]_vars
               PROVE  \/ Look(mem', pml4') = Look(mem, pml4)
                      \/ Changes(Look(mem, pml4), Look(mem', pml4'))
    <3>1. CASE Look(mem', pml4') = Look(mem, pml4)
      BY <3>1, ViewIs
    <3>2. CASE /\ Look(mem', pml4') # Look(mem, pml4)
               /\ Changes(Look(mem, pml4), Look(mem', pml4'))
      <4> DEFINE V == Look(mem, pml4)
                 W == Look(mem', pml4')
      <4>1. V = [s \in Spaces |-> Space(s)] /\ W = [s \in Spaces |-> Space(s)]'
        BY ViewIs
      <4>2. V # W /\ (AS!KernelChange(V, W) \/ AS!UserChange(V, W) \/ AS!New(V, W))
        BY <3>2 DEF Changes
      <4> HIDE DEF V, W
      <4> QED
        BY <4>1, <4>2 DEF AS!Next
    <3> QED
      BY <3>1, <3>2
  <2>1. CASE SpaceStep
    BY <2>1, SpaceSeen
  <2>2. ASSUME NEW m \in Mappings, MapOne(m) \/ MapPanics(m) \/ UnmapOne(m)
        PROVE  \/ Look(mem', pml4') = Look(mem, pml4)
               \/ Changes(Look(mem, pml4), Look(mem', pml4'))
    BY <2>2, LoopSeen
  <2>3. CASE UNCHANGED <<mem, pml4>>
    BY <2>3
  <2> QED
    BY <2>1, <2>2, <2>3
       DEF Next, vars, tableVars, Cache, MappingStep, NewFrames, NewPages, NoPages, Lock,
           LockForDrop, LockTable, RoundTrip, ReturnPages, UnlockTable, ReturnFrames
<1> QED
  BY <1>1, <1>2, MappingInvariance, PTL DEF Spec, ImplementsAddressSpaces, AS!Spec
=============================================================================
