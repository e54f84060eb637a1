-------------------------- MODULE MappingStepsProofs --------------------------
(***************************************************************************)
(* The inductive invariant of Mapping, what the calls of the page table do *)
(* to it, and the steps of a RawMapping outside of its loops.              *)
(* MappingProofs goes on with the loops and the theorems.                  *)
(***************************************************************************)
EXTENDS PageTableProofs

(* A leaf that names no prover is tried with Zenon, then with the SMT solver. *)
USE ZenonT(30), SMTT(30)

Labels == {"none", "frames", "pages", "map", "live", "unmap", "return_pages", "unlock",
           "return_frames"}
WithPages == {"pages", "map", "live", "unmap", "return_pages"}
Locking == {"map", "unmap", "return_pages", "unlock"}
Raws == [base : Nat, len : Nat, valid : Int, kind : {"mmap", "stack"}]

(* FramesOf, virtual_start, PagesOf and Progress of a RawMappingInner. *)
Own(r) == r.base .. r.base + r.len - 1
VStart(r) == r.valid - offset(r.kind)
PagesIn(r) == VStart(r) .. VStart(r) + virtual_len(r.len, r.kind) - 1
Done(label, k, n) ==
  CASE label = "map" -> 0 .. k - 1
    [] label = "live" -> 0 .. n - 1
    [] label = "unmap" -> k .. n - 1
    [] OTHER -> {}

(* Where the mappings are, and who holds the lock of the table. *)
ControlOK ==
  /\ pc \in [Mappings -> Labels]
  /\ raw \in [Mappings -> Raws]
  /\ i \in [Mappings -> Nat]
  /\ lock \in Mappings \union {Nobody}
  /\ \A m \in Mappings :
       /\ lock = m <=> pc[m] \in Locking
       /\ IF pc[m] = "none" THEN raw[m] = Unset ELSE raw[m].len >= 1
       /\ pc[m] \in {"map", "unmap"} => i[m] < raw[m].len

(* The tables are trees, and frames that mappings own are no tables. *)
FramesOK(L) ==
  /\ Tree(mem, free, pml4, L)
  /\ pml4[Boot] # NoFrame
  /\ \A m \in Mappings : \A f \in Own(raw[m]) : f \in Frames \ free /\ L[f] = 0
  /\ \A m, n \in Mappings : m # n => Own(raw[m]) \intersect Own(raw[n]) = {}

(* A page has one owner. *)
PagesOK ==
  /\ avail \subseteq VRange
  /\ \A m \in Mappings : pc[m] \in WithPages => PagesIn(raw[m]) \subseteq VRange \ avail
  /\ \A m, n \in Mappings : m # n /\ pc[m] \in WithPages /\ pc[n] \in WithPages =>
       PagesIn(raw[m]) \intersect PagesIn(raw[n]) = {}

(* The entries are what the mappings have done so far. *)
EntriesOK ==
  /\ \A m \in Mappings : \A j \in Done(pc[m], i[m], raw[m].len) :
       KE(mem, raw[m].valid + j) = raw[m].base + j
  /\ \A p \in avail : KE(mem, p) = NoFrame
  /\ \A m \in Mappings : pc[m] \in WithPages =>
       \A p \in PagesIn(raw[m]) : KE(mem, p) # NoFrame =>
         p - raw[m].valid \in Done(pc[m], i[m], raw[m].len)

TlbOK ==
  \/ tlb = None
  \/ /\ tlb.page \in VRange /\ tlb.frame = KE(mem, tlb.page) /\ tlb.frame # NoFrame

(* The inductive invariant. *)
MapInv ==
  /\ ControlOK /\ panic = {}
  /\ \E L : FramesOK(L)
  /\ PagesOK /\ EntriesOK /\ TlbOK

-----------------------------------------------------------------------------
(* What a call does to the translations: nothing, or one page of the       *)
(* kernel's half, or one of the lower half below the PML4 r; and to the    *)
(* frames: it may take free ones.                                          *)
SameViews(M, N, L) ==
  /\ \A q \in KPages : KE(N, q) = KE(M, q)
  /\ \A r \in Frames, q \in UPages : L[r] = 4 => UE(N, r, q) = UE(M, r, q)

KernelSet(M, N, L, p, v) ==
  /\ \A q \in KPages : KE(N, q) = IF q = p THEN v ELSE KE(M, q)
  /\ \A r \in Frames, q \in UPages : L[r] = 4 => UE(N, r, q) = UE(M, r, q)

UserSet(M, N, L, r, p, v) ==
  /\ \A q \in KPages : KE(N, q) = KE(M, q)
  /\ \A s \in Frames, q \in UPages :
       L[s] = 4 => UE(N, s, q) = IF s = r /\ q = p THEN v ELSE UE(M, s, q)

Kept(F, L, G, K) == G \subseteq F /\ \A f \in Frames \ F : K[f] = L[f]

(* A walk that makes tables, as map_page goes on from it at page p, whose  *)
(* leaf is t and entry e.                                                  *)
Arrives(st, p, t, e) ==
  /\ MapOutcome(st, p) \in {"Ok", "AlreadyMapped", "AllocError"}
  /\ MapOutcome(st, p) # "AllocError" => st.table = t /\ t # NoFrame
  /\ MapOutcome(st, p) = "Ok" => e = NoFrame
  /\ MapOutcome(st, p) = "AlreadyMapped" => e # NoFrame

LEMMA Outcomes ==
  ASSUME NEW M, NEW G, NEW p, NEW t, NEW u, u # NoFrame => u = t,
         NEW st, st = St(u, G, M)
  PROVE  Arrives(st, p, t, Child(M, t, pt_index(p))) /\ st.mem = M /\ st.free = G
<1>1. st.table = u /\ st.mem = M /\ st.free = G
  BY DEF St
<1>2. CASE u = NoFrame
  BY <1>1, <1>2 DEF Arrives, MapOutcome
<1>3. CASE u # NoFrame
  BY <1>1, <1>3 DEF Arrives, MapOutcome, Child
<1> QED
  BY <1>1, <1>2, <1>3

(* The walk of KTable::map_page. *)
LEMMA KWalk ==
  ASSUME NEW L, Tree(mem, free, pml4, L), NEW p \in KPages, NEW st, st = KTableFor(p)
  PROVE  \E K : /\ Tree(st.mem, st.free, pml4, K)
                /\ Kept(free, L, st.free, K)
                /\ SameViews(mem, st.mem, L)
                /\ Arrives(st, p, KLeafIn(st.mem, p), KE(mem, p))
<1> DEFINE d == KRoot(p)
           a == pdpt_index(p)
           b == pd_index(p)
<1>1. a \in Idx /\ b \in Idx
  BY Indices DEF Pages
<1>2. d \in Frames /\ L[d] = 3
  BY Roots DEF Tree
<1>3. st = child_table_or_new(child_table_or_new(St(d, free, mem), a), b)
  BY DEF KTableFor, At, St, KRoot
<1> HIDE DEF d, a, b
<1>4. PICK u, G, N, K :
        /\ u \in Frames \union {NoFrame}
        /\ child_table_or_new(child_table_or_new(St(d, free, mem), a), b) = St(u, G, N)
        /\ Grown(mem, free, L, N, G, K, pml4)
        /\ u # NoFrame => d # NoFrame /\ K[u] = 1 /\ u = Leaf3(N, d, a, b)
  BY SMTT(30), <1>1, <1>2, Walk3
<1>5. /\ \A q \in KPages : KE(N, q) = KE(mem, q)
      /\ \A r \in Frames, q \in Pages : L[r] = 4 => UE(N, r, q) = UE(mem, r, q)
  BY SMTT(30), <1>4, GrownPages
<1>6. SameViews(mem, N, L)
  BY <1>5 DEF SameViews, Pages
<1>7. KLeafIn(N, p) = Leaf3(N, d, a, b) /\ KE(mem, p) = Child(N, KLeafIn(N, p), pt_index(p))
  BY <1>5 DEF KLeafIn, KE, Entry3, d, a, b
<1>8. Arrives(st, p, KLeafIn(N, p), Child(N, KLeafIn(N, p), pt_index(p)))
      /\ st.mem = N /\ st.free = G
  <2>1. st = St(u, G, N) /\ (u # NoFrame => u = KLeafIn(N, p))
    BY <1>3, <1>4, <1>7
  <2> QED
    BY SMTT(30), <2>1, Outcomes
<1>9. Tree(N, G, pml4, K) /\ Kept(free, L, G, K)
  BY <1>4 DEF Grown, Kept
<1> QED
  BY <1>6, <1>7, <1>8, <1>9

(* The walk of TTable::map_page. *)
LEMMA TWalk ==
  ASSUME NEW L, Tree(mem, free, pml4, L), NEW p \in UPages, NEW s \in Spaces,
         pml4[s] # NoFrame, NEW st, st = TTableFor(s, p)
  PROVE  \E K : /\ Tree(st.mem, st.free, pml4, K)
                /\ Kept(free, L, st.free, K)
                /\ SameViews(mem, st.mem, L)
                /\ Arrives(st, p, ULeafIn(st.mem, pml4[s], p), UE(mem, pml4[s], p))
<1> DEFINE d == pml4[s]
           z == pml4_index(p)
           a == pdpt_index(p)
           b == pd_index(p)
<1>1. a \in Idx /\ b \in Idx
  BY Indices DEF Pages
<1>2. d \in Frames /\ L[d] = 4
  BY DEF Tree
<1>3. z \in Idx /\ z < Half
  BY <1>2, LowerHalf
<1>4. st = child_table_or_new(child_table_or_new(child_table_or_new(St(d, free, mem), z), a), b)
  BY DEF TTableFor, At, St
<1> HIDE DEF d, z, a, b
<1>5. PICK u, G, N, K :
        /\ u \in Frames \union {NoFrame}
        /\ child_table_or_new(child_table_or_new(
             child_table_or_new(St(d, free, mem), z), a), b) = St(u, G, N)
        /\ Grown(mem, free, L, N, G, K, pml4)
        /\ u # NoFrame => K[u] = 1 /\ u = Leaf3(N, Child(N, d, z), a, b)
  BY SMTT(30), <1>1, <1>2, <1>3, Walk4
<1>6. /\ \A q \in KPages : KE(N, q) = KE(mem, q)
      /\ \A r \in Frames, q \in Pages : L[r] = 4 => UE(N, r, q) = UE(mem, r, q)
  BY SMTT(30), <1>5, GrownPages
<1>7. SameViews(mem, N, L)
  BY <1>6 DEF SameViews, Pages
<1>8. /\ ULeafIn(N, d, p) = Leaf3(N, Child(N, d, z), a, b)
      /\ UE(mem, d, p) = Child(N, ULeafIn(N, d, p), pt_index(p))
  <2>1. UE(mem, d, p) = UE(N, d, p)
    BY <1>2, <1>6 DEF Pages
  <2> QED
    BY <2>1 DEF ULeafIn, UE, Entry4, Entry3, z, a, b
<1>9. Arrives(st, p, ULeafIn(N, d, p), Child(N, ULeafIn(N, d, p), pt_index(p)))
      /\ st.mem = N /\ st.free = G
  <2>1. st = St(u, G, N) /\ (u # NoFrame => u = ULeafIn(N, d, p))
    BY <1>4, <1>5, <1>8
  <2> QED
    BY SMTT(30), <2>1, Outcomes
<1>10. Tree(N, G, pml4, K) /\ Kept(free, L, G, K)
  BY <1>5 DEF Grown, Kept
<1> QED
  BY <1>7, <1>8, <1>9, <1>10 DEF d

(* A change after a walk is a change of what was there before the walk. *)
LEMMA AfterWalk ==
  ASSUME NEW M, NEW F, NEW P, NEW L, Tree(M, F, P, L),
         NEW N, NEW G, NEW K, Tree(N, G, P, K), Kept(F, L, G, K), SameViews(M, N, L), NEW O
  PROVE  /\ \A p, v : KernelSet(N, O, K, p, v) => KernelSet(M, O, L, p, v)
         /\ \A r, p, v : UserSet(N, O, K, r, p, v) => UserSet(M, O, L, r, p, v)
<1>1. \A r \in Frames : L[r] = 4 => K[r] = 4
  <2>1. \A r \in Frames : L[r] = 4 => r \in Frames \ F
    BY SMTT(30) DEF Tree
  <2> QED
    BY <2>1 DEF Kept
<1>2. ASSUME NEW p, NEW v, KernelSet(N, O, K, p, v)
      PROVE  KernelSet(M, O, L, p, v)
  BY <1>1, <1>2 DEF KernelSet, SameViews
<1>3. ASSUME NEW r, NEW p, NEW v, UserSet(N, O, K, r, p, v)
      PROVE  UserSet(M, O, L, r, p, v)
  BY <1>1, <1>3 DEF UserSet, SameViews
<1> QED
  BY <1>2, <1>3

(* KTable::map_page that succeeds. *)
LEMMA KernelMap ==
  ASSUME NEW L, Tree(mem, free, pml4, L), NEW p \in KPages, NEW v \in Vals,
         ktable_map(p, v), MapOutcome(KTableFor(p), p) = "Ok"
  PROVE  /\ KE(mem, p) = NoFrame
         /\ \E K : /\ Tree(mem', free', pml4, K)
                   /\ Kept(free, L, free', K)
                   /\ KernelSet(mem, mem', L, p, v)
<1> DEFINE st == KTableFor(p)
           t == KLeafIn(st.mem, p)
<1>1. PICK K : /\ Tree(st.mem, st.free, pml4, K)
               /\ Kept(free, L, st.free, K)
               /\ SameViews(mem, st.mem, L)
               /\ Arrives(st, p, t, KE(mem, p))
  BY KWalk
<1>2. st.table = t /\ t # NoFrame /\ KE(mem, p) = NoFrame
  BY <1>1 DEF Arrives
<1>3. mem' = WrittenLeaf(st.mem, t, pt_index(p), v) /\ free' = st.free
  BY <1>2 DEF ktable_map, Mapped, WrittenLeaf
<1> HIDE DEF st
<1>4. /\ Tree(mem', st.free, pml4, K)
      /\ \A q \in KPages : KE(mem', q) = IF q = p THEN v ELSE KE(st.mem, q)
      /\ \A r \in Frames, q \in UPages : K[r] = 4 => UE(mem', r, q) = UE(st.mem, r, q)
  BY SMTT(30), <1>1, <1>2, <1>3, WriteKernel
<1>5. KernelSet(st.mem, mem', K, p, v)
  BY <1>4 DEF KernelSet
<1>6. KernelSet(mem, mem', L, p, v)
  BY <1>1, <1>5, AfterWalk
<1> QED
  BY <1>1, <1>2, <1>3, <1>4, <1>6

(* KTable::unmap_page. *)
LEMMA KernelUnmap ==
  ASSUME NEW L, Tree(mem, free, pml4, L), NEW p \in KPages, ktable_unmap(p)
  PROVE  /\ KE(mem, p) # NoFrame
         /\ Tree(mem', free, pml4, L)
         /\ KernelSet(mem, mem', L, p, NoFrame)
<1>1. KLeaf(p) = KLeafIn(mem, p) /\ KEntry(p) = KE(mem, p)
  BY DEF KLeaf, KLeafIn, KEntry, KE, child_table, Child, Leaf3, Entry3, KRoot
<1>2. KE(mem, p) # NoFrame
  BY <1>1 DEF ktable_unmap
<1>3. KLeafIn(mem, p) # NoFrame
  BY <1>2 DEF KE, KLeafIn, Entry3, Child
<1>4. mem' = WrittenLeaf(mem, KLeafIn(mem, p), pt_index(p), NoFrame) /\ NoFrame \in Vals
  BY <1>1 DEF ktable_unmap, WrittenLeaf, Vals
<1>5. /\ Tree(mem', free, pml4, L)
      /\ \A q \in KPages : KE(mem', q) = IF q = p THEN NoFrame ELSE KE(mem, q)
      /\ \A r \in Frames, q \in UPages : L[r] = 4 => UE(mem', r, q) = UE(mem, r, q)
  BY SMTT(30), <1>3, <1>4, WriteKernel
<1> QED
  BY <1>2, <1>5 DEF KernelSet

(* TTable::map_page that succeeds. *)
LEMMA UserMap ==
  ASSUME NEW L, Tree(mem, free, pml4, L), NEW s \in Spaces, NEW p \in UPages, NEW v \in Vals,
         ttable_map(s, p, v), MapOutcome(TTableFor(s, p), p) = "Ok"
  PROVE  /\ UE(mem, pml4[s], p) = NoFrame
         /\ \E K : /\ Tree(mem', free', pml4, K)
                   /\ Kept(free, L, free', K)
                   /\ UserSet(mem, mem', L, pml4[s], p, v)
<1> DEFINE st == TTableFor(s, p)
           r == pml4[s]
           t == ULeafIn(st.mem, r, p)
<1>1. r # NoFrame /\ r \in Frames
  BY DEF ttable_map, Tree
<1>2. PICK K : /\ Tree(st.mem, st.free, pml4, K)
               /\ Kept(free, L, st.free, K)
               /\ SameViews(mem, st.mem, L)
               /\ Arrives(st, p, t, UE(mem, r, p))
  BY <1>1, TWalk
<1>3. st.table = t /\ t # NoFrame /\ UE(mem, r, p) = NoFrame
  BY <1>2 DEF Arrives
<1>4. mem' = WrittenLeaf(st.mem, t, pt_index(p), v) /\ free' = st.free
  BY <1>3 DEF ttable_map, Mapped, WrittenLeaf
<1>5. K[r] = 4
  BY <1>1, <1>2 DEF Tree
<1> HIDE DEF st, r
<1>6. /\ Tree(mem', st.free, pml4, K)
      /\ \A q \in KPages : KE(mem', q) = KE(st.mem, q)
      /\ \A x \in Frames, q \in UPages : K[x] = 4 =>
           UE(mem', x, q) = IF x = r /\ q = p THEN v ELSE UE(st.mem, x, q)
  BY SMTT(30), <1>1, <1>2, <1>3, <1>4, <1>5, WriteUser
<1>7. UserSet(st.mem, mem', K, r, p, v)
  BY <1>6 DEF UserSet
<1>8. UserSet(mem, mem', L, r, p, v)
  BY <1>2, <1>7, AfterWalk
<1> QED
  BY <1>2, <1>3, <1>4, <1>6, <1>8 DEF r

(* TTable::unmap_page. *)
LEMMA UserUnmap ==
  ASSUME NEW L, Tree(mem, free, pml4, L), NEW s \in Spaces, NEW p \in UPages,
         ttable_unmap(s, p)
  PROVE  /\ pml4[s] # NoFrame
         /\ UE(mem, pml4[s], p) # NoFrame
         /\ Tree(mem', free, pml4, L)
         /\ UserSet(mem, mem', L, pml4[s], p, NoFrame)
<1> DEFINE r == pml4[s]
<1>1. TLeaf(s, p) = ULeafIn(mem, r, p) /\ child_table(TLeaf(s, p), pt_index(p)) = UE(mem, r, p)
  BY DEF TLeaf, ULeafIn, UE, child_table, Child, Leaf3, Entry3, Entry4
<1>2. UE(mem, r, p) # NoFrame
  BY <1>1 DEF ttable_unmap
<1>3. ULeafIn(mem, r, p) # NoFrame /\ r # NoFrame
  BY <1>2 DEF UE, ULeafIn, Leaf3, Entry3, Entry4, Child
<1>4. r \in Frames /\ L[r] = 4
  BY <1>3 DEF Tree
<1>5. mem' = WrittenLeaf(mem, ULeafIn(mem, r, p), pt_index(p), NoFrame) /\ NoFrame \in Vals
  BY <1>1 DEF ttable_unmap, WrittenLeaf, Vals
<1> HIDE DEF r
<1>6. /\ Tree(mem', free, pml4, L)
      /\ \A q \in KPages : KE(mem', q) = KE(mem, q)
      /\ \A x \in Frames, q \in UPages : L[x] = 4 =>
           UE(mem', x, q) = IF x = r /\ q = p THEN NoFrame ELSE UE(mem, x, q)
  BY SMTT(30), <1>3, <1>4, <1>5, WriteUser
<1> QED
  BY <1>2, <1>3, <1>6 DEF UserSet, r

(* TTable::new. *)
LEMMA NewSpace ==
  ASSUME NEW L, Tree(mem, free, pml4, L), NEW s \in Spaces, ttable_new(s)
  PROVE  \E n \in free : \E K :
           /\ pml4[s] = NoFrame /\ pml4' = [pml4 EXCEPT ![s] = n]
           /\ Tree(mem', free', pml4', K)
           /\ Kept(free, L, free', K)
           /\ SameViews(mem, mem', L)
           /\ \A q \in UPages : UE(mem', n, q) = NoFrame
<1> DEFINE n == Min(free)
           K == WithLevel(L, n)
<1>1. n \in free
  BY Least, TableAssumption DEF ttable_new, Tree
<1>2. /\ pml4[s] = NoFrame /\ pml4' = [pml4 EXCEPT ![s] = n]
      /\ mem' = WithRoot(mem, n) /\ pml4' = WithSpace(pml4, s, n) /\ free' = free \ {n}
  BY DEF ttable_new, Root, WithRoot, WithSpace
<1> HIDE DEF n
<1>3. /\ Tree(mem', free \ {n}, pml4', K)
      /\ \A q \in KPages : KE(mem', q) = KE(mem, q)
      /\ \A r \in Frames, q \in UPages : L[r] = 4 => UE(mem', r, q) = UE(mem, r, q)
      /\ \A q \in UPages : UE(mem', n, q) = NoFrame
  <2>1. pml4[s] = NoFrame
    BY <1>2
  <2>2. mem' = WithRoot(mem, n)
    BY <1>2
  <2>3. pml4' = WithSpace(pml4, s, n)
    BY <1>2
  <2>4. \A N, Q : N = WithRoot(mem, n) /\ Q = WithSpace(pml4, s, n) =>
          /\ Tree(N, free \ {n}, Q, WithLevel(L, n))
          /\ \A q \in KPages : KE(N, q) = KE(mem, q)
          /\ \A r \in Frames, q \in UPages : L[r] = 4 => UE(N, r, q) = UE(mem, r, q)
          /\ \A q \in UPages : UE(N, n, q) = NoFrame
    BY SMTT(30), <1>1, <2>1, NewRoot
  <2> QED
    BY <2>2, <2>3, <2>4
<1>4. Kept(free, L, free', K)
  BY <1>1, <1>2 DEF Kept, Tree, WithLevel
<1>5. SameViews(mem, mem', L)
  BY <1>3 DEF SameViews
<1> HIDE DEF K
<1> QED
  BY <1>1, <1>2, <1>3, <1>4, <1>5
-----------------------------------------------------------------------------
(* The pages of a mapping are its valid ones and a stack's guard page. *)
LEMMA PageRange ==
  ASSUME NEW r \in Raws
  PROVE  /\ PagesIn(r) = VStart(r) .. r.valid + r.len - 1
         /\ r.valid \in Int /\ r.len \in Nat /\ r.base \in Nat
         /\ VStart(r) \in Int
         /\ r.kind = "mmap" => VStart(r) = r.valid
         /\ r.kind = "stack" => VStart(r) = r.valid - 1
         /\ \A j \in 0 .. r.len - 1 : r.valid + j \in PagesIn(r) /\ r.base + j \in Own(r)
<1>1. r.valid \in Int /\ r.len \in Nat /\ r.base \in Nat /\ r.kind \in {"mmap", "stack"}
  BY DEF Raws
<1>2. CASE r.kind = "mmap"
  <2>1. VStart(r) = r.valid /\ PagesIn(r) = r.valid .. r.valid + r.len - 1
    BY <1>1, <1>2 DEF PagesIn, VStart, offset, virtual_len
  <2> QED
    BY <1>1, <1>2, <2>1 DEF Own
<1>3. CASE r.kind = "stack"
  <2>1. VStart(r) = r.valid - 1 /\ PagesIn(r) = r.valid - 1 .. r.valid + r.len - 1
    BY <1>1, <1>3 DEF PagesIn, VStart, offset, virtual_len
  <2> QED
    BY <1>1, <1>3, <2>1 DEF Own
<1> QED
  BY <1>1, <1>2, <1>3

LEMMA UnsetEmpty == Own(Unset) = {} /\ Unset \in Raws
  BY DEF Own, Unset, Raws

(* What a mapping has done are pages of its own. *)
LEMMA DoneRange ==
  ASSUME ControlOK, NEW m \in Mappings
  PROVE  /\ Done(pc[m], i[m], raw[m].len) \subseteq 0 .. raw[m].len - 1
         /\ Done(pc[m], i[m], raw[m].len) # {} => pc[m] \in WithPages
<1>1. i[m] \in Nat /\ raw[m].len \in Nat /\ pc[m] \in Labels
  BY DEF ControlOK, Raws
<1>2. CASE pc[m] = "map"
  <2>1. Done(pc[m], i[m], raw[m].len) = 0 .. i[m] - 1 /\ i[m] < raw[m].len
    BY <1>2 DEF Done, ControlOK
  <2> QED
    BY <1>1, <1>2, <2>1 DEF WithPages
<1>3. CASE pc[m] = "live"
  <2>1. Done(pc[m], i[m], raw[m].len) = 0 .. raw[m].len - 1
    BY <1>3 DEF Done
  <2> QED
    BY <1>1, <1>3, <2>1 DEF WithPages
<1>4. CASE pc[m] = "unmap"
  <2>1. Done(pc[m], i[m], raw[m].len) = i[m] .. raw[m].len - 1
    BY <1>4 DEF Done
  <2> QED
    BY <1>1, <1>4, <2>1 DEF WithPages
<1>5. CASE pc[m] \notin {"map", "live", "unmap"}
  BY <1>5 DEF Done
<1> QED
  BY <1>2, <1>3, <1>4, <1>5

(* m goes on to label l, with r and k; the others stay where they are. *)
Moved(m, l, r, k) ==
  /\ l \in Labels /\ r \in Raws /\ k \in Nat
  /\ pc' \in [Mappings -> Labels] /\ raw' \in [Mappings -> Raws] /\ i' \in [Mappings -> Nat]
  /\ pc'[m] = l /\ raw'[m] = r /\ i'[m] = k
  /\ \A n \in Mappings \ {m} : pc'[n] = pc[n] /\ raw'[n] = raw[n] /\ i'[n] = i[n]

LEMMA MoveControl ==
  ASSUME ControlOK, NEW m \in Mappings, NEW l, NEW r, NEW k, Moved(m, l, r, k),
         IF l = "none" THEN r = Unset ELSE r.len >= 1,
         l \in {"map", "unmap"} => k < r.len,
         lock' = IF l \in Locking THEN m ELSE IF pc[m] \in Locking THEN Nobody ELSE lock,
         l \in Locking => pc[m] \in Locking \/ lock = Nobody
  PROVE  ControlOK'
<1>1. Nobody \notin Mappings
  BY MappingAssumption
<1>2. lock' \in Mappings \union {Nobody}
  BY DEF ControlOK
<1>3. ASSUME NEW n \in Mappings PROVE lock' = n <=> pc'[n] \in Locking
  <2>1. CASE n = m
    BY <1>1, <2>1 DEF ControlOK, Moved
  <2>2. CASE n # m
    <3>1. pc'[n] = pc[n] /\ (lock = n <=> pc[n] \in Locking) /\ (lock = m <=> pc[m] \in Locking)
      BY <2>2 DEF ControlOK, Moved
    <3>2. CASE l \in Locking
      BY <1>1, <2>2, <3>1, <3>2
    <3>3. CASE l \notin Locking /\ pc[m] \in Locking
      BY <1>1, <2>2, <3>1, <3>3
    <3>4. CASE l \notin Locking /\ pc[m] \notin Locking
      BY <3>1, <3>4
    <3> QED
      BY <3>2, <3>3, <3>4
  <2> QED
    BY <2>1, <2>2
<1>4. ASSUME NEW n \in Mappings
      PROVE  /\ IF pc'[n] = "none" THEN raw'[n] = Unset ELSE raw'[n].len >= 1
             /\ pc'[n] \in {"map", "unmap"} => i'[n] < raw'[n].len
  <2>1. CASE n = m
    BY <2>1 DEF Moved
  <2>2. CASE n # m
    BY <2>2 DEF Moved, ControlOK
  <2> QED
    BY <2>1, <2>2
<1> QED
  BY <1>2, <1>3, <1>4 DEF ControlOK, Moved

(* Frames of m go back to the free ones that are left. *)
LEMMA FramesReturned ==
  ASSUME NEW L, FramesOK(L), NEW m \in Mappings, NEW l, NEW k, Moved(m, l, Unset, k),
         NEW G, NEW K, Tree(mem', G, pml4, K), Kept(free, L, G, K),
         free' = G \union Own(raw[m]), UNCHANGED pml4
  PROVE  FramesOK(K)'
<1>1. \A f \in Own(raw[m]) : f \in Frames /\ K[f] = 0
  BY DEF FramesOK, Kept
<1>2. G \subseteq Frames /\ \A f \in G : K[f] = 0
  BY DEF Tree
<1>3. Tree(mem', free', pml4, K)
  BY <1>1, <1>2, OtherFree
<1>4. ASSUME NEW n \in Mappings, NEW f \in Own(raw'[n])
      PROVE  f \in Frames \ free' /\ K[f] = 0
  <2>1. n # m /\ raw'[n] = raw[n]
    BY UnsetEmpty DEF Moved
  <2>2. f \in Frames \ free /\ L[f] = 0 /\ f \notin Own(raw[m])
    BY <2>1 DEF FramesOK
  <2> QED
    BY <2>2 DEF Kept
<1>5. ASSUME NEW n \in Mappings, NEW o \in Mappings, n # o
      PROVE  Own(raw'[n]) \intersect Own(raw'[o]) = {}
  <2>1. CASE n = m \/ o = m
    BY <2>1, UnsetEmpty DEF Moved
  <2>2. CASE n # m /\ o # m
    BY <1>5, <2>2 DEF Moved, FramesOK
  <2> QED
    BY <2>1, <2>2
<1> QED
  BY <1>3, <1>4, <1>5 DEF FramesOK

(* Tables are made, and nobody's frames change. *)
LEMMA FramesKept ==
  ASSUME NEW L, FramesOK(L), NEW K, Tree(mem', free', pml4', K), Kept(free, L, free', K),
         pml4'[Boot] # NoFrame, \A m \in Mappings : Own(raw'[m]) = Own(raw[m])
  PROVE  FramesOK(K)'
<1>1. ASSUME NEW m \in Mappings, NEW f \in Own(raw'[m])
      PROVE  f \in Frames \ free' /\ K[f] = 0
  BY DEF FramesOK, Kept
<1>2. \A m, n \in Mappings : m # n => Own(raw'[m]) \intersect Own(raw'[n]) = {}
  BY DEF FramesOK
<1> QED
  BY <1>1, <1>2 DEF FramesOK

(* m gets frames that are free. *)
LEMMA FramesTaken ==
  ASSUME NEW L, FramesOK(L), NEW m \in Mappings, NEW l, NEW r, NEW k, Moved(m, l, r, k),
         Own(raw[m]) = {}, Own(r) \subseteq free, free' = free \ Own(r), UNCHANGED <<mem, pml4>>
  PROVE  FramesOK(L)'
<1>1. free \subseteq Frames /\ \A f \in free : L[f] = 0
  BY DEF FramesOK, Tree
<1>2. Tree(mem, free', pml4, L)
  BY <1>1, OtherFree DEF FramesOK
<1>3. ASSUME NEW n \in Mappings, NEW f \in Own(raw'[n])
      PROVE  f \in Frames \ free' /\ L[f] = 0
  <2>1. CASE n = m
    BY <1>1, <2>1 DEF Moved
  <2>2. CASE n # m
    BY <2>2 DEF Moved, FramesOK
  <2> QED
    BY <2>1, <2>2
<1>4. ASSUME NEW n \in Mappings, NEW o \in Mappings, n # o
      PROVE  Own(raw'[n]) \intersect Own(raw'[o]) = {}
  <2>1. \A x \in Mappings \ {m} : raw'[x] = raw[x] /\ Own(r) \intersect Own(raw[x]) = {}
    BY DEF Moved, FramesOK
  <2>2. raw'[m] = r
    BY DEF Moved
  <2> QED
    BY <1>4, <2>1, <2>2 DEF FramesOK
<1> QED
  BY <1>2, <1>3, <1>4 DEF FramesOK
-----------------------------------------------------------------------------
(* m keeps its pages or loses them. *)
LEMMA PagesKept ==
  ASSUME PagesOK, NEW m \in Mappings, NEW l, NEW r, NEW k, Moved(m, l, r, k), avail' = avail,
         l \in WithPages => pc[m] \in WithPages /\ PagesIn(r) = PagesIn(raw[m])
  PROVE  PagesOK'
<1>1. \A n \in Mappings : pc'[n] \in WithPages =>
        pc[n] \in WithPages /\ PagesIn(raw'[n]) = PagesIn(raw[n])
  BY DEF Moved
<1> QED
  BY <1>1 DEF PagesOK

(* m returns its pages. *)
LEMMA PagesReturned ==
  ASSUME PagesOK, NEW m \in Mappings, NEW l, NEW r, NEW k, Moved(m, l, r, k),
         pc[m] \in WithPages, l \notin WithPages, avail' = avail \union PagesIn(raw[m])
  PROVE  PagesOK'
<1>1. \A n \in Mappings : pc'[n] \in WithPages =>
        n # m /\ pc[n] \in WithPages /\ raw'[n] = raw[n]
  BY DEF Moved
<1>2. avail' \subseteq VRange
  BY DEF PagesOK
<1>3. ASSUME NEW n \in Mappings, pc'[n] \in WithPages
      PROVE  PagesIn(raw'[n]) \subseteq VRange \ avail'
  BY <1>1, <1>3 DEF PagesOK
<1>4. ASSUME NEW n \in Mappings, NEW o \in Mappings,
             n # o, pc'[n] \in WithPages, pc'[o] \in WithPages
      PROVE  PagesIn(raw'[n]) \intersect PagesIn(raw'[o]) = {}
  BY <1>1, <1>4 DEF PagesOK
<1> QED
  BY <1>2, <1>3, <1>4 DEF PagesOK

(* m gets pages that Global has. *)
LEMMA PagesTaken ==
  ASSUME PagesOK, NEW m \in Mappings, NEW l, NEW r, NEW k, Moved(m, l, r, k),
         PagesIn(r) \subseteq avail, avail' = avail \ PagesIn(r)
  PROVE  PagesOK'
<1>1. raw'[m] = r /\ \A n \in Mappings \ {m} : pc'[n] = pc[n] /\ raw'[n] = raw[n]
  BY DEF Moved
<1>2. avail' \subseteq VRange
  BY DEF PagesOK
<1>3. ASSUME NEW n \in Mappings, pc'[n] \in WithPages
      PROVE  PagesIn(raw'[n]) \subseteq VRange \ avail'
  <2>1. CASE n = m
    BY <1>1, <2>1 DEF PagesOK
  <2>2. CASE n # m
    BY <1>1, <1>3, <2>2 DEF PagesOK
  <2> QED
    BY <2>1, <2>2
<1>4. ASSUME NEW n \in Mappings, NEW o \in Mappings,
             n # o, pc'[n] \in WithPages, pc'[o] \in WithPages
      PROVE  PagesIn(raw'[n]) \intersect PagesIn(raw'[o]) = {}
  <2>1. \A x \in Mappings \ {m} : pc[x] \in WithPages => PagesIn(r) \intersect PagesIn(raw[x]) = {}
    BY DEF PagesOK
  <2>2. CASE n = m
    BY <1>1, <1>4, <2>1, <2>2
  <2>3. CASE o = m
    BY <1>1, <1>4, <2>1, <2>3
  <2>4. CASE n # m /\ o # m
    BY <1>1, <1>4, <2>4 DEF PagesOK
  <2> QED
    BY <2>2, <2>3, <2>4
<1> QED
  BY <1>2, <1>3, <1>4 DEF PagesOK

(* The pages of the invariant are pages of the kernel's half. *)
LEMMA KernelPages ==
  ASSUME ControlOK, PagesOK
  PROVE  /\ \A p \in VRange : p \in KPages
         /\ \A p \in avail : p \in KPages
         /\ \A n \in Mappings : pc[n] \in WithPages => \A p \in PagesIn(raw[n]) : p \in KPages
         /\ \A n \in Mappings : \A j \in Done(pc[n], i[n], raw[n].len) :
              pc[n] \in WithPages /\ raw[n].valid + j \in PagesIn(raw[n])
<1>1. VRange \subseteq KPages
  BY MappingAssumption
<1>2. ASSUME NEW n \in Mappings, NEW j \in Done(pc[n], i[n], raw[n].len)
      PROVE  pc[n] \in WithPages /\ raw[n].valid + j \in PagesIn(raw[n])
  <2>1. raw[n] \in Raws
    BY DEF ControlOK
  <2>2. j \in 0 .. raw[n].len - 1 /\ pc[n] \in WithPages
    BY DoneRange
  <2> QED
    BY <2>1, <2>2, PageRange
<1> QED
  BY <1>1, <1>2 DEF PagesOK

(* The table stays as it is, and m has done what it had, or starts with    *)
(* pages of Global, or has no pages any more.                              *)
LEMMA EntriesKept ==
  ASSUME ControlOK, PagesOK, EntriesOK,
         NEW m \in Mappings, NEW l, NEW r, NEW k, Moved(m, l, r, k),
         \A q \in KPages : KE(mem', q) = KE(mem, q),
         \A q \in avail' : q \in KPages /\ KE(mem, q) = NoFrame,
         \/ l \notin WithPages
         \/ /\ pc[m] \in WithPages /\ r = raw[m]
            /\ Done(l, k, r.len) = Done(pc[m], i[m], raw[m].len)
         \/ PagesIn(r) \subseteq avail /\ Done(l, k, r.len) = {}
  PROVE  EntriesOK'
<1>1. pc'[m] = l /\ raw'[m] = r /\ i'[m] = k
  BY DEF Moved
<1>2. \A n \in Mappings \ {m} : pc'[n] = pc[n] /\ raw'[n] = raw[n] /\ i'[n] = i[n]
  BY DEF Moved
<1>3. \A p \in avail' : KE(mem', p) = NoFrame
  OBVIOUS
<1>4. l \notin WithPages => Done(l, k, r.len) = {}
  BY DEF Done, WithPages
<1>5. ASSUME NEW n \in Mappings, NEW j \in Done(pc'[n], i'[n], raw'[n].len)
      PROVE  KE(mem', raw'[n].valid + j) = raw'[n].base + j
  <2>1. j \in Done(pc[n], i[n], raw[n].len) /\ raw'[n] = raw[n]
    <3>1. CASE n = m
      BY <1>1, <1>4, <1>5, <3>1
    <3>2. CASE n # m
      BY <1>2, <1>5, <3>2
    <3> QED
      BY <3>1, <3>2
  <2>2. KE(mem, raw[n].valid + j) = raw[n].base + j
    BY <2>1 DEF EntriesOK
  <2>3. raw[n].valid + j \in KPages
    BY <2>1, KernelPages
  <2> QED
    BY <2>1, <2>2, <2>3
<1>6. ASSUME NEW n \in Mappings, pc'[n] \in WithPages, NEW p \in PagesIn(raw'[n]),
             KE(mem', p) # NoFrame
      PROVE  p - raw'[n].valid \in Done(pc'[n], i'[n], raw'[n].len)
  <2>1. CASE n # m \/ (pc[m] \in WithPages /\ r = raw[m]
                       /\ Done(l, k, r.len) = Done(pc[m], i[m], raw[m].len))
    <3>1. /\ pc[n] \in WithPages /\ raw'[n] = raw[n]
          /\ Done(pc'[n], i'[n], raw'[n].len) = Done(pc[n], i[n], raw[n].len)
      BY <1>1, <1>2, <1>6, <2>1
    <3>2. p \in KPages
      BY <1>6, <3>1, KernelPages
    <3>3. KE(mem, p) # NoFrame
      BY <1>6, <3>2
    <3> QED
      BY <1>6, <3>1, <3>3 DEF EntriesOK
  <2>2. CASE n = m /\ PagesIn(r) \subseteq avail
    <3>1. p \in avail /\ p \in KPages
      BY <1>1, <1>6, <2>2, KernelPages
    <3> QED
      BY <1>6, <3>1 DEF EntriesOK
  <2> QED
    BY <1>1, <1>6, <2>1, <2>2
<1> QED
  BY <1>3, <1>5, <1>6 DEF EntriesOK

(* The entry of m's page number c is written, and m has done it, or undone *)
(* it.                                                                     *)
LEMMA EntriesSet ==
  ASSUME ControlOK, PagesOK, EntriesOK,
         NEW m \in Mappings, NEW l, NEW k, Moved(m, l, raw[m], k), avail' = avail,
         pc[m] \in WithPages, NEW c \in 0 .. raw[m].len - 1, NEW v,
         \A q \in KPages : KE(mem', q) = IF q = raw[m].valid + c THEN v ELSE KE(mem, q),
         NEW D, D = Done(pc[m], i[m], raw[m].len),
         \/ v = raw[m].base + c /\ Done(l, k, raw[m].len) = D \union {c}
         \/ v = NoFrame /\ Done(l, k, raw[m].len) = D \ {c}
  PROVE  EntriesOK'
<1> DEFINE p == raw[m].valid + c
           E == Done(l, k, raw[m].len)
<1>1. pc'[m] = l /\ raw'[m] = raw[m] /\ i'[m] = k
  BY DEF Moved
<1>2. \A n \in Mappings \ {m} : pc'[n] = pc[n] /\ raw'[n] = raw[n] /\ i'[n] = i[n]
  BY DEF Moved
<1>3. p \in PagesIn(raw[m]) /\ raw[m].valid \in Int /\ raw[m].len \in Nat
  BY PageRange DEF ControlOK
<1>4. D \subseteq 0 .. raw[m].len - 1
  BY DoneRange
<1>5. \A q \in avail' : KE(mem', q) = NoFrame
  <2>1. p \notin avail
    BY <1>3 DEF PagesOK
  <2> QED
    BY <2>1, KernelPages DEF EntriesOK
<1>6. ASSUME NEW n \in Mappings, NEW j \in Done(pc'[n], i'[n], raw'[n].len)
      PROVE  KE(mem', raw'[n].valid + j) = raw'[n].base + j
  <2>1. CASE n = m /\ j = c
    <3>1. v = raw[m].base + c
      BY <1>1, <1>6, <2>1
    <3>2. p \in KPages
      BY <1>3, KernelPages
    <3> QED
      BY <1>1, <2>1, <3>1, <3>2
  <2>2. CASE n = m /\ j # c
    <3>1. j \in D /\ j \in Int
      BY SMTT(30), <1>1, <1>4, <1>6, <2>2
    <3>2. raw[m].valid + j \in KPages /\ raw[m].valid + j # p
      BY SMTT(30), <1>3, <2>2, <3>1, KernelPages
    <3>3. KE(mem, raw[m].valid + j) = raw[m].base + j
      BY <3>1 DEF EntriesOK
    <3> QED
      BY <1>1, <2>2, <3>2, <3>3
  <2>3. CASE n # m
    <3>1. raw'[n] = raw[n] /\ j \in Done(pc[n], i[n], raw[n].len)
      BY <1>2, <1>6, <2>3
    <3>2. pc[n] \in WithPages /\ raw[n].valid + j \in PagesIn(raw[n])
      BY <3>1, KernelPages
    <3>3. raw[n].valid + j \in KPages /\ raw[n].valid + j # p
      <4>1. raw[n].valid + j \in KPages
        BY <3>2, KernelPages
      <4>2. PagesIn(raw[n]) \intersect PagesIn(raw[m]) = {}
        BY <2>3, <3>2 DEF PagesOK
      <4> QED
        BY <1>3, <3>2, <4>1, <4>2
    <3>4. KE(mem, raw[n].valid + j) = raw[n].base + j
      BY <3>1 DEF EntriesOK
    <3> QED
      BY <3>1, <3>3, <3>4
  <2> QED
    BY <2>1, <2>2, <2>3
<1>7. ASSUME NEW n \in Mappings, pc'[n] \in WithPages, NEW q \in PagesIn(raw'[n]),
             KE(mem', q) # NoFrame
      PROVE  q - raw'[n].valid \in Done(pc'[n], i'[n], raw'[n].len)
  <2>1. raw'[n] = raw[n] /\ pc[n] \in WithPages /\ q \in KPages
    <3>1. raw'[n] = raw[n] /\ pc[n] \in WithPages
      BY <1>1, <1>2, <1>7
    <3> QED
      BY <1>7, <3>1, KernelPages
  <2>2. CASE n = m /\ q = p
    <3>1. v # NoFrame
      BY <1>7, <2>1, <2>2
    <3>2. q - raw[m].valid = c
      BY <1>3, <2>2
    <3> QED
      BY <1>1, <2>2, <3>1, <3>2
  <2>3. CASE n = m /\ q # p
    <3>1. KE(mem, q) # NoFrame
      BY <1>7, <2>1, <2>3
    <3>2. q - raw[m].valid \in D
      BY <1>7, <2>1, <2>3, <3>1 DEF EntriesOK
    <3>3. q \in Int
      BY SMTT(30), <1>3, <1>7, <2>1, <2>3, PageRange DEF ControlOK
    <3>4. q - raw[m].valid # c
      BY SMTT(30), <1>3, <2>3, <3>3
    <3> QED
      BY <1>1, <2>3, <3>2, <3>4
  <2>4. CASE n # m
    <3>1. q # p
      BY <1>3, <1>7, <2>1, <2>4 DEF PagesOK
    <3>2. KE(mem, q) # NoFrame
      BY <1>7, <2>1, <3>1
    <3> QED
      BY <1>2, <1>7, <2>1, <2>4, <3>2 DEF EntriesOK
  <2> QED
    BY <2>2, <2>3, <2>4
<1> QED
  BY <1>5, <1>6, <1>7 DEF EntriesOK

(* The processor's cache when the table does not change for it. *)
LEMMA TlbKept ==
  ASSUME TlbOK, tlb' = tlb, tlb # None => KE(mem', tlb.page) = KE(mem, tlb.page)
  PROVE  TlbOK'
BY DEF TlbOK

(* The same after a step that leaves the translations of the kernel as     *)
(* they are.                                                               *)
LEMMA TlbQuiet ==
  ASSUME TlbOK, tlb' = tlb, \A q \in KPages : KE(mem', q) = KE(mem, q)
  PROVE  TlbOK'
BY TlbKept, MappingAssumption DEF TlbOK
-----------------------------------------------------------------------------
(* What the invariant says of a mapping, and of what Global has. *)
LEMMA Typed ==
  ASSUME MapInv, NEW m \in Mappings
  PROVE  /\ pc \in [Mappings -> Labels] /\ raw \in [Mappings -> Raws] /\ i \in [Mappings -> Nat]
         /\ pc[m] \in Labels /\ raw[m] \in Raws /\ i[m] \in Nat
         /\ \A q \in avail : q \in KPages /\ KE(mem, q) = NoFrame
<1>1. \A q \in avail : q \in KPages
  BY KernelPages DEF MapInv
<1> QED
  BY <1>1 DEF MapInv, ControlOK, EntriesOK

(* OwnedFrames::xnew. *)
LEMMA NewFramesStep ==
  ASSUME MapInv, NEW m \in Mappings, NewFrames(m)
  PROVE  MapInv'
<1>0. PICK n \in 1 .. MaxLen, kind \in {"mmap", "stack"} :
        \E b \in Runs(free, n) :
          /\ raw' = [raw EXCEPT ![m] = [base |-> b, len |-> n, valid |-> 0, kind |-> kind]]
          /\ free' = free \ (b .. b + n - 1)
  BY DEF NewFrames
<1>1. PICK b \in Runs(free, n) :
        /\ raw' = [raw EXCEPT ![m] = [base |-> b, len |-> n, valid |-> 0, kind |-> kind]]
        /\ free' = free \ (b .. b + n - 1)
  BY <1>0
<1>2. PICK L : FramesOK(L)
  BY DEF MapInv
<1> DEFINE r == [base |-> b, len |-> n, valid |-> 0, kind |-> kind]
<1>3. b \in Nat /\ b .. b + n - 1 \subseteq free
  BY <1>2, TableAssumption DEF Runs, FramesOK, Tree
<1>4. raw' = [raw EXCEPT ![m] = r] /\ free' = free \ (b .. b + n - 1)
  BY <1>1
<1>5. r \in Raws /\ r.len >= 1 /\ Own(r) = b .. b + n - 1
  BY <1>3, MappingAssumption DEF Raws, Own
<1> HIDE DEF r
<1>6. /\ pc[m] = "none" /\ pc' = [pc EXCEPT ![m] = "frames"]
      /\ UNCHANGED <<mem, pml4, avail, lock, i, tlb, panic>>
  BY DEF NewFrames, Goto
<1>7. Moved(m, "frames", r, i[m])
  BY <1>4, <1>5, <1>6, Typed DEF Moved, Labels
<1>8. ControlOK'
  <2>1. lock' = IF "frames" \in Locking THEN m ELSE IF pc[m] \in Locking THEN Nobody ELSE lock
    BY <1>6 DEF Locking
  <2> QED
    BY <1>5, <1>7, <2>1, MoveControl DEF MapInv, Locking
<1>9. FramesOK(L)'
  <2>1. Own(raw[m]) = {}
    BY <1>6, UnsetEmpty DEF MapInv, ControlOK
  <2> QED
    BY <1>2, <1>3, <1>4, <1>5, <1>6, <1>7, <2>1, FramesTaken
<1>10. PagesOK'
  BY <1>6, <1>7, PagesKept DEF MapInv, WithPages
<1>11. EntriesOK'
  <2>1. "frames" \notin WithPages
    BY DEF WithPages
  <2> QED
    BY <1>6, <1>7, <2>1, Typed, EntriesKept DEF MapInv
<1>12. TlbOK' /\ panic' = {}
  BY <1>6, TlbQuiet DEF MapInv
<1> QED
  BY <1>8, <1>9, <1>10, <1>11, <1>12 DEF MapInv

(* OwnedPages::new_with. *)
LEMMA NewPagesStep ==
  ASSUME MapInv, NEW m \in Mappings, NewPages(m)
  PROVE  MapInv'
<1> DEFINE n == virtual_len(raw[m].len, raw[m].kind)
<1>1. PICK v \in Runs(avail, n) :
        /\ avail' = avail \ (v .. v + n - 1)
        /\ raw' = [raw EXCEPT ![m].valid = v + offset(raw[m].kind)]
  BY DEF NewPages
<1>2. /\ pc[m] = "frames" /\ pc' = [pc EXCEPT ![m] = "pages"]
      /\ UNCHANGED <<mem, free, pml4, lock, i, tlb, panic>>
  BY DEF NewPages, Goto, tableVars
<1> DEFINE r == [raw[m] EXCEPT !.valid = v + offset(raw[m].kind)]
<1>3. v .. v + n - 1 \subseteq avail /\ v \in Int
  <2>1. v \in avail /\ v .. v + n - 1 \subseteq avail
    BY DEF Runs
  <2>2. v \in KPages
    BY <2>1, Typed
  <2> QED
    BY <2>1, <2>2, Indices DEF Pages
<1>4. raw[m] \in Raws /\ raw[m].kind \in {"mmap", "stack"} /\ raw[m].len \in Nat
  BY Typed DEF Raws
<1>5. /\ r \in Raws /\ r.len = raw[m].len /\ r.base = raw[m].base /\ r.kind = raw[m].kind
      /\ r.valid = v + offset(raw[m].kind)
  BY SMTT(30), <1>3, <1>4 DEF Raws, offset
<1>6. raw' = [raw EXCEPT ![m] = r]
  BY <1>1, Typed
<1> HIDE DEF r
<1>7. PagesIn(r) = v .. v + n - 1
  <2>1. VStart(r) = v
    BY <1>3, <1>4, <1>5 DEF VStart, offset
  <2> QED
    BY <1>5, <2>1 DEF PagesIn
<1> HIDE DEF n
<1>8. Moved(m, "pages", r, i[m])
  BY <1>2, <1>5, <1>6, Typed DEF Moved, Labels
<1>9. ControlOK'
  <2>1. lock' = IF "pages" \in Locking THEN m ELSE IF pc[m] \in Locking THEN Nobody ELSE lock
    BY <1>2 DEF Locking
  <2>2. r.len >= 1
    BY <1>2, <1>5 DEF MapInv, ControlOK
  <2> QED
    BY <1>8, <2>1, <2>2, MoveControl DEF MapInv, Locking
<1>10. PICK L : FramesOK(L)
  BY DEF MapInv
<1>11. FramesOK(L)'
  <2>1. \A o \in Mappings : Own(raw'[o]) = Own(raw[o])
    BY <1>5, <1>8 DEF Moved, Own
  <2>2. Tree(mem', free', pml4', L) /\ Kept(free, L, free', L) /\ pml4'[Boot] # NoFrame
    BY <1>2, <1>10 DEF FramesOK, Kept
  <2> QED
    BY <1>10, <2>1, <2>2, FramesKept
<1>12. PagesOK'
  BY <1>1, <1>3, <1>7, <1>8, PagesTaken DEF MapInv
<1>13. EntriesOK'
  <2>1. Done("pages", i[m], r.len) = {}
    BY DEF Done
  <2>2. \A q \in avail' : q \in KPages /\ KE(mem, q) = NoFrame
    BY <1>1, Typed
  <2> QED
    BY <1>2, <1>3, <1>7, <1>8, <2>1, <2>2, EntriesKept DEF MapInv
<1>14. TlbOK' /\ panic' = {}
  BY <1>2, TlbQuiet DEF MapInv
<1> QED
  BY <1>9, <1>11, <1>12, <1>13, <1>14 DEF MapInv

(* A mapping that returns its frames: new without pages, and the end of    *)
(* drop.                                                                   *)
LEMMA FramesDroppedStep ==
  ASSUME MapInv, NEW m \in Mappings, NoPages(m) \/ ReturnFrames(m)
  PROVE  MapInv'
<1>1. /\ pc[m] \in {"frames", "return_frames"} /\ pc' = [pc EXCEPT ![m] = "none"]
      /\ raw' = [raw EXCEPT ![m] = Unset] /\ free' = free \union Own(raw[m])
      /\ UNCHANGED <<mem, pml4, avail, lock, i, tlb, panic>>
  BY DEF NoPages, ReturnFrames, FramesDropped, FramesOf, Own, Goto
<1>2. Moved(m, "none", Unset, i[m])
  BY <1>1, Typed, UnsetEmpty DEF Moved, Labels
<1>3. ControlOK'
  <2>1. lock' = IF "none" \in Locking THEN m ELSE IF pc[m] \in Locking THEN Nobody ELSE lock
    BY <1>1 DEF Locking
  <2> QED
    BY <1>2, <2>1, MoveControl DEF MapInv, Locking
<1>4. PICK L : FramesOK(L)
  BY DEF MapInv
<1>5. FramesOK(L)'
  <2>1. Tree(mem', free, pml4, L) /\ Kept(free, L, free, L)
    BY <1>1, <1>4 DEF FramesOK, Kept
  <2> QED
    BY <1>1, <1>2, <1>4, <2>1, FramesReturned
<1>6. "none" \notin WithPages
  BY DEF WithPages
<1>7. PagesOK'
  BY <1>1, <1>2, <1>6, PagesKept DEF MapInv
<1>8. EntriesOK'
  BY <1>1, <1>2, <1>6, Typed, EntriesKept DEF MapInv
<1>9. TlbOK' /\ panic' = {}
  BY <1>1, TlbQuiet DEF MapInv
<1> QED
  BY <1>3, <1>5, <1>7, <1>8, <1>9 DEF MapInv

(* A step that moves one mapping and nothing else but the lock. *)
LEMMA QuietMove ==
  ASSUME MapInv, NEW m \in Mappings, NEW l, NEW k, Moved(m, l, raw[m], k),
         pc[m] # "none", l # "none",
         l \in {"map", "unmap"} => k < raw[m].len,
         lock' = IF l \in Locking THEN m ELSE IF pc[m] \in Locking THEN Nobody ELSE lock,
         l \in Locking => pc[m] \in Locking \/ lock = Nobody,
         \/ l \notin WithPages
         \/ /\ pc[m] \in WithPages
            /\ Done(l, k, raw[m].len) = Done(pc[m], i[m], raw[m].len),
         UNCHANGED <<mem, free, pml4, avail, tlb, panic>>
  PROVE  MapInv'
<1>1. ControlOK'
  <2>1. raw[m].len >= 1
    BY DEF MapInv, ControlOK
  <2> QED
    BY <2>1, MoveControl DEF MapInv
<1>2. PICK L : FramesOK(L)
  BY DEF MapInv
<1>3. FramesOK(L)'
  <2>1. \A o \in Mappings : Own(raw'[o]) = Own(raw[o])
    BY DEF Moved
  <2>2. Tree(mem', free', pml4', L) /\ Kept(free, L, free', L) /\ pml4'[Boot] # NoFrame
    BY <1>2 DEF FramesOK, Kept
  <2> QED
    BY <1>2, <2>1, <2>2, FramesKept
<1>4. PagesOK'
  BY PagesKept DEF MapInv
<1>5. EntriesOK'
  BY Typed, EntriesKept DEF MapInv
<1>6. TlbOK' /\ panic' = {}
  BY TlbQuiet DEF MapInv
<1> QED
  BY <1>1, <1>3, <1>4, <1>5, <1>6 DEF MapInv

(* __popcorn_paging_get_ktable, in new and in drop. *)
LEMMA LockStep ==
  ASSUME MapInv, NEW m \in Mappings, Lock(m) \/ LockForDrop(m)
  PROVE  MapInv'
<1>1. PICK l : /\ (l = "map" /\ pc[m] = "pages") \/ (l = "unmap" /\ pc[m] = "live")
               /\ lock = Nobody /\ lock' = m
               /\ pc' = [pc EXCEPT ![m] = l] /\ i' = [i EXCEPT ![m] = 0]
               /\ UNCHANGED <<mem, free, pml4, avail, raw, tlb, panic>>
  BY DEF Lock, LockForDrop, LockTable, Goto, tableVars
<1>2. l \in Labels /\ l \in Locking /\ l # "none" /\ pc[m] \in WithPages /\ pc[m] # "none"
  BY <1>1 DEF Labels, Locking, WithPages
<1>3. Moved(m, l, raw[m], 0)
  BY <1>1, <1>2, Typed DEF Moved
<1>4. 0 < raw[m].len /\ raw[m].len \in Nat
  BY SMTT(30), <1>2, Typed DEF MapInv, ControlOK, Raws
<1>5. Done(l, 0, raw[m].len) = Done(pc[m], i[m], raw[m].len)
  <2>1. CASE l = "map" /\ pc[m] = "pages"
    <3>1. Done(l, 0, raw[m].len) = 0 .. 0 - 1 /\ Done(pc[m], i[m], raw[m].len) = {}
      BY <2>1 DEF Done
    <3> QED
      BY <3>1
  <2>2. CASE l = "unmap" /\ pc[m] = "live"
    BY <2>2 DEF Done
  <2> QED
    BY <1>1, <2>1, <2>2
<1> QED
  BY <1>1, <1>2, <1>3, <1>4, <1>5, QuietMove

(* into_raw_parts and from_raw_parts, and the release of the lock. *)
LEMMA RoundTripStep ==
  ASSUME MapInv, NEW m \in Mappings, RoundTrip(m)
  PROVE  MapInv'
<1>1. /\ raw' = [raw EXCEPT ![m].valid = virtual_start(m) + offset(raw[m].kind)]
      /\ pc[m] = "live"
      /\ UNCHANGED <<mem, free, pml4, avail, lock, pc, i, tlb, panic>>
  BY DEF RoundTrip, tableVars
<1>2. raw[m] \in Raws /\ raw[m].valid \in Int /\ offset(raw[m].kind) \in Int
  BY SMTT(30), Typed DEF Raws, offset
<1>3. virtual_start(m) + offset(raw[m].kind) = raw[m].valid
  BY <1>2 DEF virtual_start
<1>4. raw' = raw
  BY <1>1, <1>2, <1>3, Typed DEF Raws
<1>5. Moved(m, pc[m], raw[m], i[m])
  BY <1>1, <1>4, Typed DEF Moved
<1> QED
  BY <1>1, <1>5, QuietMove DEF Locking, WithPages

LEMMA UnlockStep ==
  ASSUME MapInv, NEW m \in Mappings, UnlockTable(m)
  PROVE  MapInv'
<1>1. /\ pc[m] = "unlock" /\ lock' = Nobody /\ pc' = [pc EXCEPT ![m] = "return_frames"]
      /\ UNCHANGED <<mem, free, pml4, avail, raw, i, tlb, panic>>
  BY DEF UnlockTable, Goto, tableVars
<1>2. Moved(m, "return_frames", raw[m], i[m])
  BY <1>1, Typed DEF Moved, Labels
<1> QED
  BY <1>1, <1>2, QuietMove DEF Locking, WithPages

(* The drop of _pages. *)
LEMMA ReturnPagesStep ==
  ASSUME MapInv, NEW m \in Mappings, ReturnPages(m)
  PROVE  MapInv'
<1>1. /\ pc[m] = "return_pages" /\ pc' = [pc EXCEPT ![m] = "unlock"]
      /\ avail' = avail \union PagesIn(raw[m])
      /\ UNCHANGED <<mem, free, pml4, lock, raw, i, tlb, panic>>
  BY DEF ReturnPages, Goto, tableVars, PagesOf, PagesIn, virtual_start, VStart
<1>2. Moved(m, "unlock", raw[m], i[m])
  BY <1>1, Typed DEF Moved, Labels
<1>3. pc[m] \in WithPages /\ "unlock" \notin WithPages
  BY <1>1 DEF WithPages
<1>4. ControlOK'
  <2>1. lock' = IF "unlock" \in Locking THEN m ELSE IF pc[m] \in Locking THEN Nobody ELSE lock
    BY <1>1 DEF Locking, MapInv, ControlOK
  <2>2. raw[m].len >= 1
    BY <1>1 DEF MapInv, ControlOK
  <2> QED
    BY <1>1, <1>2, <2>1, <2>2, MoveControl DEF MapInv, Locking
<1>5. PICK L : FramesOK(L)
  BY DEF MapInv
<1>6. FramesOK(L)'
  BY <1>1, <1>5 DEF FramesOK
<1>7. PagesOK'
  BY <1>1, <1>2, <1>3, PagesReturned DEF MapInv
<1>8. EntriesOK'
  <2>1. \A q \in PagesIn(raw[m]) : q \in KPages
    BY <1>3, KernelPages DEF MapInv
  <2>2. Done(pc[m], i[m], raw[m].len) = {}
    BY <1>1 DEF Done
  <2>3. \A q \in PagesIn(raw[m]) : KE(mem, q) = NoFrame
    BY <1>3, <2>2 DEF MapInv, EntriesOK
  <2>4. \A q \in avail' : q \in KPages /\ KE(mem, q) = NoFrame
    BY <1>1, <2>1, <2>3, Typed
  <2> QED
    BY <1>1, <1>2, <1>3, <2>4, EntriesKept DEF MapInv
<1>9. TlbOK' /\ panic' = {}
  BY <1>1, TlbQuiet DEF MapInv
<1> QED
  BY <1>4, <1>6, <1>7, <1>8, <1>9 DEF MapInv
=============================================================================
