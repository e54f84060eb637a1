------------------------- MODULE PhysicalMemoryProofs -------------------------
(***************************************************************************)
(* The regions the kernel allocates from have exactly the frames that the  *)
(* firmware's memory map says may be used.                                 *)
(* The watermark allocator hands out usable frames, none of them twice,    *)
(* until a request fails, for any number of regions of any size.  With at  *)
(* most two regions frames keep one owner when the bitmap allocator takes  *)
(* over from it.                                                           *)
(***************************************************************************)
EXTENDS FrameProofs, PhysicalMemory

(* A leaf that names no prover is tried with Zenon, then with the SMT solver. *)
USE ZenonT(30), SMTT(30)

-----------------------------------------------------------------------------
(* What SubSeq returns. *)
LEMMA SubSeqIs ==
  ASSUME NEW S, NEW s \in Seq(S), NEW m \in 1 .. Len(s) + 1,
         NEW n \in 0 .. Len(s), m =< n + 1
  PROVE  /\ SubSeq(s, m, n) \in Seq(S)
         /\ Len(SubSeq(s, m, n)) = n - m + 1
         /\ \A i \in 1 .. n - m + 1 : SubSeq(s, m, n)[i] = s[m + i - 1]
OBVIOUS

-----------------------------------------------------------------------------
(* Descriptors that do not overlap, sorted by their start, are in order. *)
LEMMA SortedInOrder ==
  ASSUME NEW m \in FirmwareMaps
  PROVE  /\ m \in Seq(Descriptor) /\ Sorted(m) \in Seq(Descriptor)
         /\ Len(Sorted(m)) = Len(m) /\ Len(m) \in Nat
         /\ InOrder(Sorted(m))
         /\ \A x \in Nat : FreeIn(Sorted(m), Len(m), x) <=> FreeIn(m, Len(m), x)
  <1> DEFINE s == Sorted(m)
             E == {m[i] : i \in 1 .. Len(m)}
  <1>1. m \in Seq(Descriptor)
    BY FirmwareAssumption DEF Descriptor
  <1>2. Len(m) \in Nat /\ \A i \in 1 .. Len(m) : m[i] \in Descriptor
    BY <1>1, SeqIs
  <1>3. /\ s \in Seq(E) /\ Len(s) = Len(m)
        /\ \A i, j \in 1 .. Len(s) : i < j => s[i].start < s[j].start
        /\ \A j \in 1 .. Len(m) : \E i \in 1 .. Len(s) : s[i] = m[j]
    BY SortAssumption DEF IsSortOf
  <1> HIDE DEF s
  <1>4. \A i \in 1 .. Len(s) : s[i] \in E
    <2> HIDE DEF E
    <2> QED
      BY <1>3, SeqIs
  <1>5. \A i \in 1 .. Len(s) : \E j \in 1 .. Len(m) : s[i] = m[j]
    BY <1>4
  <1>6. s \in Seq(Descriptor)
    <2>1. E \subseteq Descriptor
      BY <1>2
    <2> HIDE DEF E
    <2> QED
      BY SMTT(30), <1>3, <2>1
  <1>7. \A j \in 1 .. Len(m) : /\ m[j].start \in Nat /\ m[j].end \in Nat
                               /\ m[j].start < m[j].end
    <2>1. \A j \in 1 .. Len(m) : m[j].start \in Nat /\ m[j].end \in Nat
      BY SMTT(30), <1>2 DEF Descriptor
    <2> QED
      BY <2>1, FirmwareAssumption
  <1>8. \A i \in 1 .. Len(s) : s[i].start < s[i].end
    BY <1>5, <1>7
  <1>9. ASSUME NEW i \in 1 .. Len(s), NEW j \in 1 .. Len(s), i < j
        PROVE  s[i].end =< s[j].start
    <2>1. PICK a \in 1 .. Len(m) : s[i] = m[a]
      BY <1>5
    <2>2. PICK b \in 1 .. Len(m) : s[j] = m[b]
      BY <1>5
    <2>3. m[a].start < m[b].start
      BY <1>3, <1>9, <2>1, <2>2
    <2>4. a # b
      BY SMTT(30), <1>7, <2>3
    <2>5. m[a].end =< m[b].start \/ m[b].end =< m[a].start
      BY <2>4, FirmwareAssumption
    <2>6. m[a].end =< m[b].start
      BY SMTT(30), <1>7, <2>3, <2>5
    <2> QED
      BY <2>1, <2>2, <2>6
  <1>10. InOrder(s)
    BY <1>8, <1>9 DEF InOrder
  <1>11. \A x \in Nat : FreeIn(s, Len(m), x) <=> FreeIn(m, Len(m), x)
    BY <1>3, <1>5 DEF FreeIn
  <1> QED
    BY <1>1, <1>2, <1>3, <1>6, <1>10, <1>11 DEF s

(* Whatever the firmware's map, what kmain keeps of the list the           *)
(* bootloader sorted and merged is in order, does not overlap and has      *)
(* exactly the frames that the firmware's map says may be used.            *)
THEOREM UsableMemory ==
  ASSUME NEW m \in FirmwareMaps
  PROVE  /\ Watermark!IsLayout(usable_memory(m))
         /\ Usable(usable_memory(m)) = UsableFrames(m)
  <1> DEFINE s == Sorted(m)
             l == kernel_mem_map(m)
             u == usable_memory(m)
  <1>1. Merged(s, Len(m), l)
    BY SortedInOrder, MergedAll DEF kernel_mem_map
  <1>2. Kept(l, Len(l), u)
    BY <1>1, KeptAll DEF Merged, usable_memory
  <1>3. u \in Seq(Area) /\ InOrder(u) /\ \A x \in Nat : Covered(u, x) <=> FreeIn(m, Len(m), x)
    BY <1>1, <1>2, SortedInOrder DEF Kept, Merged
  <1> HIDE DEF s, l, u
  <1>4. m \in Seq(Descriptor) /\ \A i \in 1 .. Len(m) : m[i].start \in Nat /\ m[i].end \in Nat
    <2>1. m \in Seq(Descriptor) /\ \A i \in 1 .. Len(m) : m[i] \in Descriptor
      BY SortedInOrder, SeqIs
    <2> QED
      BY SMTT(30), <2>1 DEF Descriptor
  <1>5. /\ Len(u) \in Nat
        /\ \A i \in 1 .. Len(u) : u[i].start \in Nat /\ u[i].end \in Nat
    <2>1. Len(u) \in Nat /\ \A i \in 1 .. Len(u) : u[i] \in Area
      BY <1>3, SeqIs
    <2> QED
      BY SMTT(30), <2>1 DEF Area
  <1>6. PICK i \in 1 .. Len(m) : entry_type(m[i].ty) # "Reserved" /\ m[i].start < m[i].end
    BY FirmwareAssumption
  <1>7. Has(m[i], m[i].start)
    BY SMTT(30), <1>4, <1>6 DEF Has
  <1>8. Covered(u, m[i].start)
    BY <1>3, <1>4, <1>6, <1>7 DEF FreeIn
  <1>9. Len(u) > 0
    BY SMTT(30), <1>5, <1>8 DEF Covered
  <1>10. Watermark!IsLayout(u)
    BY <1>3, <1>9 DEF Watermark!IsLayout, InOrder, Area
  <1>11. \A x : x \in Usable(u) <=> x \in Nat /\ Covered(u, x)
    <2>1. \A x : \A j \in 1 .. Len(u) :
            x \in u[j].start .. u[j].end - 1 <=> x \in Nat /\ Has(u[j], x)
      BY SMTT(30), <1>5 DEF Has
    <2> QED
      BY <2>1 DEF Usable, Covered
  <1>12. \A x : x \in UsableFrames(m) <=> x \in Nat /\ FreeIn(m, Len(m), x)
    <2>1. \A x : \A j \in 1 .. Len(m) :
            x \in m[j].start .. m[j].end - 1 <=> x \in Nat /\ Has(m[j], x)
      BY SMTT(30), <1>4 DEF Has
    <2>2. DOMAIN m = 1 .. Len(m)
      BY SMTT(30), <1>4
    <2> QED
      BY <2>1, <2>2 DEF UsableFrames, FreeIn
  <1>13. Usable(u) = UsableFrames(m)
    BY <1>3, <1>11, <1>12
  <1> QED
    BY <1>10, <1>13 DEF u

-----------------------------------------------------------------------------
(* The invariant of the watermark allocator.  It has taken c regions from  *)
(* its iterator, besides the last one, which it began with.  The frames it *)
(* handed out lie in the regions it has left behind, or above the          *)
(* watermark in the one it is in.                                          *)
FramesOf(i) == regions[i].start .. regions[i].end - 1
Current(c) == IF c = 0 THEN Len(regions) ELSE c
Behind(c) == IF c = 0 THEN {} ELSE {Len(regions)} \union 1 .. c - 1

Iterated(c) ==
  /\ Len(free_regions) = Len(regions) - 1 - c
  /\ \A i \in 1 .. Len(free_regions) : free_regions[i] = regions[c + i]
  /\ last_in_current_region = regions[Current(c)].start

HandedOut(c, mark) ==
  \A k \in 1 .. Len(granted) :
    \/ \E i \in Behind(c) : Watermark!Covers(granted[k]) \subseteq FramesOf(i)
    \/ Watermark!Covers(granted[k]) \subseteq mark .. regions[Current(c)].end - 1

Position(c) ==
  /\ Iterated(c)
  /\ prev_frame \in regions[Current(c)].start .. regions[Current(c)].end
  /\ HandedOut(c, prev_frame)

WatermarkInv ==
  /\ Watermark!TypeOK
  /\ top = regions[Len(regions)].end
  /\ ~ failed => \E c \in 0 .. Len(regions) - 1 : Position(c)
  /\ Watermark!DisjointUntilFailure

(* The regions of a memory map, and what the allocator has left. *)
LEMMA Regions ==
  ASSUME Watermark!IsLayout(regions)
  PROVE  /\ Len(regions) \in Nat \ {0}
         /\ \A i \in 1 .. Len(regions) :
              /\ regions[i] \in [start : Nat, end : Nat]
              /\ regions[i].start \in Nat /\ regions[i].end \in Nat
              /\ regions[i].start < regions[i].end
         /\ \A i, j \in 1 .. Len(regions) : i < j => regions[i].end =< regions[j].start
  <1>1. regions \in Seq([start : Nat, end : Nat]) /\ Len(regions) > 0
    BY DEF Watermark!IsLayout
  <1>2. /\ Len(regions) \in Nat
        /\ \A i \in 1 .. Len(regions) : regions[i] \in [start : Nat, end : Nat]
    BY <1>1, SeqIs
  <1>3. /\ \A i \in 1 .. Len(regions) : regions[i].start < regions[i].end
        /\ \A i, j \in 1 .. Len(regions) : i < j => regions[i].end =< regions[j].start
    BY DEF Watermark!IsLayout
  <1> QED
    BY SMTT(30), <1>1, <1>2, <1>3

LEMMA RegionsDisjoint ==
  ASSUME Watermark!IsLayout(regions), NEW i \in 1 .. Len(regions),
         NEW j \in 1 .. Len(regions), i # j
  PROVE  FramesOf(i) \intersect FramesOf(j) = {}
  <1>1. i < j \/ j < i
    BY Regions
  <1>2. /\ regions[i].start \in Nat /\ regions[i].end \in Nat
        /\ regions[j].start \in Nat /\ regions[j].end \in Nat
        /\ regions[i].end =< regions[j].start \/ regions[j].end =< regions[i].start
    BY <1>1, Regions
  <1> QED
    BY <1>2 DEF FramesOf

LEMMA Places ==
  ASSUME Watermark!IsLayout(regions), NEW c \in 0 .. Len(regions) - 1
  PROVE  /\ Current(c) \in 1 .. Len(regions)
         /\ Behind(c) \subseteq 1 .. Len(regions)
         /\ Current(c) \notin Behind(c)
         /\ \A d \in c + 1 .. Len(regions) - 1 :
              Behind(c) \union {Current(c)} \subseteq Behind(d)
  BY SMTT(30), Regions DEF Current, Behind

(* new: the watermark is at the end of the last region. *)
LEMMA WatermarkInit ==
  ASSUME Watermark!Init
  PROVE  WatermarkInv
  <1>1. Watermark!IsLayout(regions)
    BY UsableMemory DEF Watermark!Init, Layouts
  <1>2. regions \in Seq([start : Nat, end : Nat]) /\ Len(regions) \in Nat \ {0}
    BY <1>1, Regions DEF Watermark!IsLayout
  <1>3. /\ free_regions \in Seq([start : Nat, end : Nat])
        /\ Len(free_regions) = Len(regions) - 1
        /\ \A i \in 1 .. Len(free_regions) : free_regions[i] = regions[i]
    <2> DEFINE R == [start : Nat, end : Nat]
               n == Len(regions) - 1
    <2>1. free_regions = SubSeq(regions, 1, n)
      BY DEF Watermark!Init
    <2>2. /\ regions \in Seq(R) /\ 1 \in 1 .. Len(regions) + 1
          /\ n \in 0 .. Len(regions) /\ 1 =< n + 1 /\ n \in Nat
      BY <1>2
    <2> HIDE DEF R, n
    <2>3. /\ free_regions \in Seq(R)
          /\ Len(free_regions) = n
          /\ \A i \in 1 .. n : free_regions[i] = regions[i]
      BY SMTT(30), <2>1, <2>2, SubSeqIs
    <2> QED
      BY <2>3 DEF R, n
  <1>4. /\ regions[Len(regions)].start \in Nat /\ regions[Len(regions)].end \in Nat
        /\ regions[Len(regions)].start < regions[Len(regions)].end
    BY <1>1, <1>2, Regions
  <1>5. granted = <<>> /\ Len(granted) = 0 /\ failed = FALSE
    BY DEF Watermark!Init
  <1>6. Watermark!TypeOK
    <2>1. granted \in Seq([base : Nat, len : Nat])
      BY <1>5, SeqIs
    <2>2. failed \in BOOLEAN
      BY <1>5
    <2> QED
      BY <1>1, <1>3, <1>4, <2>1, <2>2 DEF Watermark!Init, Watermark!TypeOK
  <1>7. Position(0)
    BY SMTT(30), <1>2, <1>3, <1>4, <1>5 DEF Position, Iterated, HandedOut, Current, Watermark!Init
  <1>8. 0 \in 0 .. Len(regions) - 1
    BY <1>2
  <1>9. Watermark!DisjointUntilFailure
    BY SMTT(30), <1>5 DEF Watermark!DisjointUntilFailure
  <1>10. top = regions[Len(regions)].end
    BY DEF Watermark!Init
  <1> QED
    BY <1>6, <1>7, <1>8, <1>9, <1>10 DEF WatermarkInv

(* The iterator moves on to its region j, which is region c + j. *)
LEMMA MovesOn ==
  ASSUME Watermark!TypeOK, NEW c \in 0 .. Len(regions) - 1, Iterated(c),
         NEW j \in 1 .. Len(free_regions), Watermark!NextRegion(j),
         regions' = regions
  PROVE  /\ c + j \in c + 1 .. Len(regions) - 1
         /\ free_regions[j] = regions[c + j]
         /\ Iterated(c + j)'
  <1> DEFINE R == [start : Nat, end : Nat]
             n == Len(free_regions)
  <1>1. Len(regions) \in Nat \ {0} /\ n = Len(regions) - 1 - c
    BY Regions DEF Watermark!TypeOK, Iterated
  <1>2. free_regions \in Seq(R) /\ n \in Nat
    BY SeqIs DEF Watermark!TypeOK
  <1>3. free_regions' = SubSeq(free_regions, j + 1, n)
    BY DEF Watermark!NextRegion
  <1>4. \A i \in 1 .. n : free_regions[i] = regions[c + i]
    BY DEF Iterated
  <1> HIDE DEF R
  <1>5. /\ Len(free_regions') = n - j
        /\ \A i \in 1 .. n - j : free_regions'[i] = free_regions[j + i]
    <2> HIDE DEF n
    <2>1. /\ j + 1 \in 1 .. n + 1 /\ n \in 0 .. n /\ j + 1 =< n + 1
          /\ n - (j + 1) + 1 = n - j
      BY <1>2 DEF n
    <2>2. \A i \in 1 .. n - j : (j + 1) + i - 1 = j + i
      BY <1>2 DEF n
    <2>3. /\ Len(free_regions') = n - (j + 1) + 1
          /\ \A i \in 1 .. n - (j + 1) + 1 : free_regions'[i] = free_regions[(j + 1) + i - 1]
      BY <1>2, <1>3, <2>1, SubSeqIs DEF n
    <2> QED
      BY <2>1, <2>2, <2>3
  <1>6. \A i \in 1 .. n - j : free_regions'[i] = regions[(c + j) + i]
    BY SMTT(30), <1>1, <1>2, <1>4, <1>5
  <1>7. last_in_current_region' = regions[c + j].start
    BY <1>4 DEF Watermark!NextRegion
  <1>8. c + j \in c + 1 .. Len(regions) - 1 /\ c + j # 0
    BY <1>1, <1>2
  <1> QED
    BY <1>1, <1>2, <1>4, <1>5, <1>6, <1>7, <1>8 DEF Iterated, Current

LEMMA MoveTyped ==
  ASSUME Watermark!TypeOK, NEW j \in 1 .. Len(free_regions), Watermark!NextRegion(j)
  PROVE  /\ free_regions' \in Seq([start : Nat, end : Nat])
         /\ last_in_current_region' \in Nat
  <1> DEFINE R == [start : Nat, end : Nat]
             n == Len(free_regions)
  <1>1. free_regions \in Seq(R) /\ n \in Nat /\ free_regions[j] \in R
    BY SeqIs DEF Watermark!TypeOK
  <1>2. free_regions' = SubSeq(free_regions, j + 1, n)
    BY DEF Watermark!NextRegion
  <1>3. last_in_current_region' \in Nat
    BY <1>1 DEF Watermark!NextRegion
  <1>4. j + 1 \in 1 .. n + 1 /\ n \in 0 .. n /\ j + 1 =< n + 1
    BY <1>1
  <1> HIDE DEF R
  <1>5. free_regions' \in Seq(R)
    BY <1>1, <1>2, <1>4, SubSeqIs
  <1> QED
    BY <1>3, <1>5 DEF R

(* The n frames from base on are handed out, in the region the allocator   *)
(* is in when it has taken d regions, below what it handed out of it.      *)
LEMMA TakeKeeps ==
  ASSUME Watermark!TypeOK, Watermark!DisjointUntilFailure, ~ failed,
         top = regions[Len(regions)].end,
         NEW d \in 0 .. Len(regions) - 1, NEW base \in Nat, NEW n \in 1 .. MaxFrames,
         Watermark!Take(base, n), Iterated(d)',
         free_regions' \in Seq([start : Nat, end : Nat]),
         last_in_current_region' \in Nat,
         regions[Current(d)].start =< base,
         base + n =< regions[Current(d)].end,
         HandedOut(d, base + n)
  PROVE  /\ WatermarkInv' /\ ~ failed' /\ regions' = regions
         /\ granted' = Append(granted, [base |-> base, len |-> n])
         /\ Run(base, n) \subseteq FramesOf(Current(d))
         /\ \A k \in 1 .. Len(granted) :
              Watermark!Covers(granted[k]) \intersect Run(base, n) = {}
  <1> DEFINE e == [base |-> base, len |-> n]
             G == [base : Nat, len : Nat]
             last == Len(granted) + 1
             lo == regions[Current(d)].start
             hi == regions[Current(d)].end
  <1>1. /\ regions' = regions /\ top' = top /\ failed' = failed
        /\ prev_frame' = base /\ granted' = Append(granted, e)
    BY DEF Watermark!Take
  <1>2. n \in Nat \ {0}
    BY BitmapAssumption
  <1>3. /\ Current(d) \in 1 .. Len(regions)
        /\ Behind(d) \subseteq 1 .. Len(regions)
        /\ Current(d) \notin Behind(d)
    BY Places DEF Watermark!TypeOK
  <1>4. lo \in Nat /\ hi \in Nat /\ lo =< base /\ base + n =< hi
    BY <1>3, Regions DEF Watermark!TypeOK
  <1>5. granted \in Seq(G) /\ e \in G
    BY <1>2 DEF Watermark!TypeOK
  <1> HIDE DEF G
  <1>6. /\ granted' \in Seq(G)
        /\ Len(granted') = last
        /\ \A k \in 1 .. Len(granted) : granted'[k] = granted[k]
        /\ granted'[last] = e
    BY SMTT(30), <1>1, <1>5, AppendIs
  <1>len. Len(granted) \in Nat
    BY <1>5, SeqIs
  <1>last. ASSUME NEW k \in 1 .. last, k # last PROVE k \in 1 .. Len(granted)
    BY <1>last, <1>len
  <1>7. Watermark!Covers(e) = Run(base, n)
    BY DEF Watermark!Covers, Watermark!Run, Run
  <1>8. Run(base, n) \subseteq FramesOf(Current(d))
    <2>1. FramesOf(Current(d)) = lo .. hi - 1
      BY DEF FramesOf
    <2> HIDE DEF lo, hi
    <2> QED
      BY <1>2, <1>4, <2>1 DEF Run
  <1>9. ASSUME NEW k \in 1 .. Len(granted)
        PROVE  Watermark!Covers(granted[k]) \intersect Run(base, n) = {}
    <2>1. CASE \E i \in Behind(d) : Watermark!Covers(granted[k]) \subseteq FramesOf(i)
      <3>1. PICK i \in Behind(d) : Watermark!Covers(granted[k]) \subseteq FramesOf(i)
        BY <2>1
      <3>2. FramesOf(i) \intersect FramesOf(Current(d)) = {}
        BY <1>3, RegionsDisjoint DEF Watermark!TypeOK
      <3> QED
        BY <3>1, <3>2, <1>8
    <2>2. CASE Watermark!Covers(granted[k]) \subseteq base + n .. hi - 1
      <3>1. (base + n .. hi - 1) \intersect Run(base, n) = {}
        BY <1>2, <1>4 DEF Run
      <3> QED
        BY <2>2, <3>1
    <2> QED
      BY <2>1, <2>2 DEF HandedOut
  <1> HIDE DEF e, last
  <1>10. Watermark!DisjointUntilFailure'
    <2>1. ASSUME NEW i \in 1 .. last, NEW j \in 1 .. last, i # j
          PROVE  Watermark!Covers(granted'[i]) \intersect Watermark!Covers(granted'[j]) = {}
      <3>1. CASE i # last /\ j # last
        <4>1. i \in 1 .. Len(granted) /\ j \in 1 .. Len(granted)
          BY <3>1, <1>last
        <4> QED
          BY <2>1, <4>1, <1>6 DEF Watermark!DisjointUntilFailure
      <3>2. CASE i = last
        <4>1. j \in 1 .. Len(granted)
          BY <2>1, <3>2, <1>last
        <4> QED
          BY <3>2, <4>1, <1>6, <1>7, <1>9
      <3>3. CASE j = last
        <4>1. i \in 1 .. Len(granted)
          BY <2>1, <3>3, <1>last
        <4> QED
          BY <3>3, <4>1, <1>6, <1>7, <1>9
      <3> QED
        BY <3>1, <3>2, <3>3
    <2> QED
      BY <2>1, <1>6 DEF Watermark!DisjointUntilFailure, Watermark!Covers, Watermark!Run
  <1>11. HandedOut(d, prev_frame)'
    <2>1. ASSUME NEW k \in 1 .. last
          PROVE  \/ \E i \in Behind(d) : Watermark!Covers(granted'[k]) \subseteq FramesOf(i)
                 \/ Watermark!Covers(granted'[k]) \subseteq base .. hi - 1
      <3>1. CASE k = last
        <4>1. Run(base, n) \subseteq base .. hi - 1
          <5> HIDE DEF lo, hi
          <5> QED
            BY <1>2, <1>4 DEF Run
        <4> QED
          BY <3>1, <4>1, <1>6, <1>7
      <3>2. CASE k # last
        <4>1. k \in 1 .. Len(granted)
          BY <3>2, <1>last
        <4>2. base + n .. hi - 1 \subseteq base .. hi - 1
          BY <1>2, <1>4
        <4> QED
          BY <4>1, <4>2, <1>6 DEF HandedOut, hi
      <3> QED
        BY <3>1, <3>2
    <2> QED
      BY SMTT(30), <2>1, <1>1, <1>6
      DEF HandedOut, Behind, Current, FramesOf, hi, Watermark!Covers, Watermark!Run
  <1>12. prev_frame' \in regions'[Current(d)'].start .. regions'[Current(d)'].end
    <2>1. Current(d)' = Current(d)
      BY <1>1 DEF Current
    <2> QED
      BY <2>1, <1>1, <1>2, <1>4 DEF lo, hi
  <1>13. Watermark!TypeOK'
    BY <1>1, <1>6 DEF Watermark!TypeOK, G, Watermark!IsLayout
  <1>14. Position(d)'
    BY <1>11, <1>12 DEF Position
  <1>15. d \in 0 .. Len(regions') - 1
    BY <1>1
  <1>16. top' = regions'[Len(regions')].end
    BY <1>1
  <1> QED
    BY <1>1, <1>8, <1>9, <1>10, <1>13, <1>14, <1>15, <1>16 DEF WatermarkInv, e

(* A successful request keeps the invariant, and is answered with frames   *)
(* of the memory map that have not been handed out before.                 *)
Fresh(n) ==
  /\ ~ failed' /\ regions' = regions
  /\ \E base \in Nat, i \in 1 .. Len(regions) :
       /\ granted' = Append(granted, [base |-> base, len |-> n])
       /\ Run(base, n) \subseteq FramesOf(i)
       /\ \A k \in 1 .. Len(granted) :
            Watermark!Covers(granted[k]) \intersect Run(base, n) = {}

LEMMA WatermarkAllocates ==
  ASSUME WatermarkInv, ~ failed, NEW n \in 1 .. MaxFrames,
         Watermark!allocate_contiguous(n)
  PROVE  WatermarkInv' /\ Fresh(n)
  <1>1. PICK c \in 0 .. Len(regions) - 1 : Position(c)
    BY DEF WatermarkInv
  <1>2. /\ Watermark!TypeOK /\ Watermark!IsLayout(regions)
        /\ Watermark!DisjointUntilFailure
        /\ top = regions[Len(regions)].end
    BY DEF WatermarkInv, Watermark!TypeOK
  <1>3. n \in Nat \ {0}
    BY BitmapAssumption
  <1>4. Len(regions) \in Nat \ {0}
    BY <1>2, Regions
  <1>5. CASE Watermark!FromCurrent(n)
    <2> DEFINE base == prev_frame - n
    <2>1. /\ Watermark!Take(base, n)
          /\ free_regions' = free_regions
          /\ last_in_current_region' = last_in_current_region
          /\ regions' = regions
      BY <1>5 DEF Watermark!FromCurrent, Watermark!Take
    <2>2. prev_frame \in Nat /\ last_in_current_region \in Nat
      BY <1>2 DEF Watermark!TypeOK
    <2>3. base \in Nat /\ base + n = prev_frame /\ last_in_current_region =< base
      BY <1>3, <1>5, <2>2 DEF Watermark!FromCurrent, Watermark!Fits
    <2>4. Current(c) \in 1 .. Len(regions)
      BY <1>2, Places
    <2>5. /\ regions[Current(c)].start =< base
          /\ prev_frame =< regions[Current(c)].end
          /\ HandedOut(c, prev_frame)
      BY <1>1, <2>3 DEF Position, Iterated
    <2>6. Iterated(c)'
      BY <1>1, <2>1 DEF Position, Iterated, Current
    <2>7. /\ free_regions' \in Seq([start : Nat, end : Nat])
          /\ last_in_current_region' \in Nat
      BY <1>2, <2>1 DEF Watermark!TypeOK
    <2> HIDE DEF base
    <2> QED
      BY <1>2, <2>1, <2>3, <2>4, <2>5, <2>6, <2>7, TakeKeeps DEF Fresh
  <1>6. CASE Watermark!FromRegion(n)
    <2>1. PICK j \in 1 .. Len(free_regions) :
            /\ ~ Watermark!TooSmall(j, n) /\ ~ Watermark!Underflows(j, n)
            /\ Watermark!NextRegion(j)
            /\ Watermark!Take(free_regions[j].end - n, n)
      BY <1>6 DEF Watermark!FromRegion
    <2> DEFINE d == c + j
               base == regions[d].end - n
    <2>2. regions' = regions
      BY <2>1 DEF Watermark!Take
    <2>3. d \in c + 1 .. Len(regions) - 1 /\ free_regions[j] = regions[d] /\ Iterated(d)'
      BY <1>1, <1>2, <2>1, <2>2, MovesOn DEF Position
    <2>4. d \in 0 .. Len(regions) - 1 /\ d # 0 /\ d \in 1 .. Len(regions)
      BY <1>4, <2>3
    <2>5. Current(d) = d
      BY <2>4 DEF Current
    <2>6. regions[d].start \in Nat /\ regions[d].end \in Nat
      BY <1>2, <2>4, Regions
    <2>7. ~ regions[d].end < n /\ ~ regions[d].end - n < regions[d].start
      BY <2>1, <2>3 DEF Watermark!TooSmall, Watermark!Underflows
    <2>8. base \in Nat /\ base + n = regions[d].end /\ regions[d].start =< base
      BY <1>3, <2>6, <2>7
    <2>9. /\ free_regions' \in Seq([start : Nat, end : Nat])
          /\ last_in_current_region' \in Nat
      BY <1>2, <2>1, MoveTyped
    <2>10. HandedOut(d, base + n)
      <3>1. Behind(c) \union {Current(c)} \subseteq Behind(d)
        BY <1>2, <2>3, Places
      <3>2. prev_frame .. regions[Current(c)].end - 1 \subseteq FramesOf(Current(c))
        <4>1. Current(c) \in 1 .. Len(regions)
          BY <1>2, Places
        <4>2. regions[Current(c)].start \in Nat /\ regions[Current(c)].end \in Nat
          BY <1>2, <4>1, Regions
        <4>3. prev_frame \in regions[Current(c)].start .. regions[Current(c)].end
          BY <1>1 DEF Position
        <4> QED
          BY <4>2, <4>3 DEF FramesOf
      <3>3. HandedOut(c, prev_frame)
        BY <1>1 DEF Position
      <3> QED
        BY <3>1, <3>2, <3>3 DEF HandedOut
    <2>11. Watermark!Take(base, n)
      BY <2>1, <2>3
    <2> HIDE DEF base, d
    <2>12. regions[Current(d)].start =< base /\ base + n =< regions[Current(d)].end
      BY <2>5, <2>6, <2>8
    <2>13. /\ WatermarkInv' /\ ~ failed' /\ regions' = regions
           /\ granted' = Append(granted, [base |-> base, len |-> n])
           /\ Run(base, n) \subseteq FramesOf(Current(d))
           /\ \A k \in 1 .. Len(granted) :
                Watermark!Covers(granted[k]) \intersect Run(base, n) = {}
      BY <1>2, <2>3, <2>4, <2>8, <2>9, <2>10, <2>11, <2>12, TakeKeeps
    <2> QED
      BY <2>4, <2>5, <2>8, <2>13 DEF Fresh
  <1> QED
    BY <1>5, <1>6 DEF Watermark!allocate_contiguous

(* A request that fails hands out nothing. *)
LEMMA WatermarkFails ==
  ASSUME WatermarkInv, NEW n \in 1 .. MaxFrames, Watermark!allocation_fails(n)
  PROVE  WatermarkInv' /\ failed' /\ regions' = regions /\ granted' = granted
  <1>1. /\ Watermark!TypeOK /\ top = regions[Len(regions)].end
    BY DEF WatermarkInv
  <1>2. /\ failed' = TRUE
        /\ UNCHANGED <<regions, prev_frame, top, granted>>
    BY DEF Watermark!allocation_fails, Watermark!FailsAtOnce, Watermark!FailsInRegion,
           Watermark!FailsAtEnd, Watermark!Fail
  <1>3. \/ UNCHANGED <<free_regions, last_in_current_region>>
        \/ \E j \in 1 .. Len(free_regions) : Watermark!NextRegion(j)
    <2>1. free_regions # <<>> => Len(free_regions) \in 1 .. Len(free_regions)
      BY <1>1 DEF Watermark!TypeOK
    <2> QED
      BY <2>1 DEF Watermark!allocation_fails, Watermark!FailsAtOnce,
                  Watermark!FailsInRegion, Watermark!FailsAtEnd
  <1>4. /\ free_regions' \in Seq([start : Nat, end : Nat])
        /\ last_in_current_region' \in Nat
    BY <1>1, <1>3, MoveTyped DEF Watermark!TypeOK
  <1>5. failed' \in BOOLEAN
    BY <1>2
  <1>6. Watermark!TypeOK'
    BY <1>1, <1>2, <1>4, <1>5 DEF Watermark!TypeOK, Watermark!IsLayout
  <1> QED
    BY <1>1, <1>2, <1>6 DEF WatermarkInv, Watermark!DisjointUntilFailure

LEMMA SameWatermark ==
  ASSUME WatermarkInv, UNCHANGED watermark
  PROVE  WatermarkInv'
  <1> USE DEF watermark
  <1>1. Watermark!TypeOK'
    BY DEF WatermarkInv, Watermark!TypeOK, Watermark!IsLayout
  <1>2. top' = regions'[Len(regions')].end
    BY DEF WatermarkInv
  <1>3. ASSUME ~ failed'
        PROVE  \E c \in 0 .. Len(regions') - 1 : Position(c)'
    <2>1. PICK c \in 0 .. Len(regions) - 1 : Position(c)
      BY <1>3 DEF WatermarkInv
    <2>2. Iterated(c)'
      BY <2>1 DEF Position, Iterated, Current
    <2>3. HandedOut(c, prev_frame)'
      BY <2>1 DEF Position, HandedOut, Behind, Current, FramesOf, Watermark!Covers, Watermark!Run
    <2>4. (prev_frame \in regions[Current(c)].start .. regions[Current(c)].end)'
      BY <2>1 DEF Position, Current
    <2>5. Position(c)' /\ c \in 0 .. Len(regions') - 1
      BY <2>2, <2>3, <2>4 DEF Position
    <2> QED
      BY <2>5
  <1>4. Watermark!DisjointUntilFailure'
    BY DEF WatermarkInv, Watermark!DisjointUntilFailure, Watermark!Covers, Watermark!Run
  <1> QED
    BY <1>1, <1>2, <1>3, <1>4 DEF WatermarkInv

(* What was handed out lies in regions of the memory map. *)
LEMMA GrantedInRegion ==
  ASSUME WatermarkInv, ~ failed, NEW k \in 1 .. Len(granted)
  PROVE  \E i \in 1 .. Len(regions) : Watermark!Covers(granted[k]) \subseteq FramesOf(i)
  <1>1. PICK c \in 0 .. Len(regions) - 1 : Position(c)
    BY DEF WatermarkInv
  <1>2. Watermark!IsLayout(regions)
    BY DEF WatermarkInv, Watermark!TypeOK
  <1>3. Current(c) \in 1 .. Len(regions) /\ Behind(c) \subseteq 1 .. Len(regions)
    BY <1>2, Places
  <1>4. regions[Current(c)].start \in Nat /\ regions[Current(c)].end \in Nat
    BY <1>2, <1>3, Regions
  <1>5. prev_frame \in regions[Current(c)].start .. regions[Current(c)].end
    BY <1>1 DEF Position
  <1>6. prev_frame .. regions[Current(c)].end - 1 \subseteq FramesOf(Current(c))
    BY <1>4, <1>5 DEF FramesOf
  <1> QED
    BY <1>1, <1>3, <1>6 DEF Position, HandedOut

LEMMA WatermarkUsable ==
  ASSUME WatermarkInv
  PROVE  Watermark!OnlyAreasUntilFailure
  <1>1. ASSUME ~ failed, NEW k \in 1 .. Len(granted), NEW f \in Watermark!Covers(granted[k])
        PROVE  Watermark!Usable(f)
    <2>1. PICK i \in 1 .. Len(regions) : Watermark!Covers(granted[k]) \subseteq FramesOf(i)
      BY <1>1, GrantedInRegion
    <2>2. regions[i].start \in Nat /\ regions[i].end \in Nat
      BY Regions DEF WatermarkInv, Watermark!TypeOK
    <2>3. f \in regions[i].start .. regions[i].end - 1
      BY <2>1 DEF FramesOf
    <2>4. regions[i].start =< f /\ f < regions[i].end
      BY <2>2, <2>3
    <2> QED
      BY <2>4 DEF Watermark!Usable
  <1> QED
    BY <1>1 DEF Watermark!OnlyAreasUntilFailure, Watermark!OnlyAreas, WatermarkInv

(* With two regions the second, where it began, is above the first. *)
LEMMA WatermarkDrains ==
  ASSUME WatermarkInv
  PROVE  Watermark!DrainCovers
  <1> SUFFICES ASSUME ~ failed, Len(regions) =< 2, NEW k \in 1 .. Len(granted)
               PROVE  Watermark!Covers(granted[k]) \subseteq prev_frame .. top - 1
    BY DEF Watermark!DrainCovers
  <1>1. PICK c \in 0 .. Len(regions) - 1 : Position(c)
    BY DEF WatermarkInv
  <1>2. Watermark!IsLayout(regions) /\ top = regions[Len(regions)].end
    BY DEF WatermarkInv, Watermark!TypeOK
  <1>3. Len(regions) \in Nat \ {0}
    BY <1>2, Regions
  <1>4. CASE c = 0
    <2>1. Behind(c) = {} /\ Current(c) = Len(regions)
      BY <1>4 DEF Behind, Current
    <2> QED
      BY <1>1, <1>2, <2>1 DEF Position, HandedOut
  <1>5. CASE c # 0
    <2>1. c = 1 /\ Len(regions) = 2
      <3>1. \A m \in Nat : \A x \in 0 .. m - 1 : m =< 2 /\ x # 0 => x = 1 /\ m = 2
        OBVIOUS
      <3> QED
        BY <1>3, <1>5, <3>1
    <2>2. Behind(c) = {2} /\ Current(c) = 1
      BY <2>1 DEF Behind, Current
    <2>3. /\ regions[1].start \in Nat /\ regions[1].end \in Nat
          /\ regions[2].start \in Nat /\ regions[2].end \in Nat
          /\ regions[1].end =< regions[2].start
          /\ regions[2].start < regions[2].end
      BY <1>2, <2>1, Regions
    <2>4. prev_frame \in regions[1].start .. regions[1].end
      BY <1>1, <2>2 DEF Position
    <2>5. /\ FramesOf(2) \subseteq prev_frame .. regions[2].end - 1
          /\ prev_frame .. regions[1].end - 1 \subseteq prev_frame .. regions[2].end - 1
      <3>1. \A lo, end, next, last \in Nat : \A x \in lo .. end :
              end =< next /\ next < last
                => /\ next .. last - 1 \subseteq x .. last - 1
                   /\ x .. end - 1 \subseteq x .. last - 1
        BY SMTT(30)
      <3> QED
        BY SMTT(30), <2>3, <2>4, <3>1 DEF FramesOf
    <2> QED
      BY <1>1, <1>2, <2>1, <2>2, <2>5 DEF Position, HandedOut
  <1> QED
    BY <1>4, <1>5

-----------------------------------------------------------------------------
(* The invariant of the change from one allocator to the other.  Until     *)
(* the bitmap allocator serves, every OwnedFrames has a run of the         *)
(* watermark allocator's.  That the ranges it drained are not free in the  *)
(* bitmap, with at most two regions, is what makes Contained into IInv.    *)
BootOwned ==
  \A h \in Handles : live[h].len > 0 => \E k \in 1 .. Len(granted) : live[h] = granted[k]

Drained == highmem \in {"drained", "bitmap"}

MemoryInv ==
  /\ WatermarkInv
  /\ Contained
  /\ highmem \in {"handoff", "watermark", "none", "drained", "bitmap"}
  /\ pool = Usable(regions)
  /\ Drained \/ highmem = "none" => ~ failed /\ ~ panicked
  /\ highmem # "bitmap" => BootOwned
  /\ Drained => Len(regions) > 2 \/ OwnedNotFree
  /\ NoOverlap \/ (Drained /\ Len(regions) > 2)

(* Before a request has failed, what OwnedFrames hold is usable. *)
LEMMA FramesUsable ==
  ASSUME NEW i \in 1 .. Len(regions)
  PROVE  FramesOf(i) \subseteq Usable(regions)
  BY DEF FramesOf, Usable

LEMMA OwnedGranted ==
  ASSUME BootOwned, TypeOK, NEW h \in Handles
  PROVE  Held(h) = {} \/ \E k \in 1 .. Len(granted) : Held(h) = Watermark!Covers(granted[k])
  <1>1. live[h].base \in Nat /\ live[h].len \in Nat
    BY SMTT(30), BitmapAssumption DEF TypeOK
  <1>2. CASE live[h].len = 0
    BY <1>1, <1>2 DEF Held, Run
  <1>3. CASE live[h].len > 0
    <2>1. PICK k \in 1 .. Len(granted) : live[h] = granted[k]
      BY <1>3 DEF BootOwned
    <2> QED
      BY <2>1 DEF Held, Run, Watermark!Covers, Watermark!Run
  <1> QED
    BY <1>1, <1>2, <1>3

LEMMA MemoryInitInv == MemoryInit => MemoryInv
  <1> SUFFICES ASSUME MemoryInit PROVE MemoryInv
    OBVIOUS
  <1>1. WatermarkInv
    BY WatermarkInit DEF MemoryInit
  <1>2. pool \in SUBSET Nat
    <2>1. Watermark!IsLayout(regions)
      BY <1>1 DEF WatermarkInv, Watermark!TypeOK
    <2>2. ASSUME NEW i \in 1 .. Len(regions)
          PROVE  regions[i].start .. regions[i].end - 1 \subseteq Nat
      BY SMTT(30), <2>1, Regions
    <2> QED
      BY <2>2 DEF MemoryInit, Usable
  <1>3. IInv /\ \A h \in Handles : live[h] = Nothing
    BY <1>2, NewIInv DEF MemoryInit
  <1>4. BootOwned
    BY <1>3 DEF BootOwned, Nothing
  <1> QED
    BY <1>1, <1>3, <1>4 DEF MemoryInit, MemoryInv, IInv, Drained

(* An allocation of the boot: its frames are usable, and nobody's. *)
LEMMA BootAllocateKeeps ==
  ASSUME MemoryInv, NEW h \in Handles, NEW n \in 1 .. MaxFrames, BootAllocate(h, n)
  PROVE  MemoryInv'
  <1>1. /\ highmem = "watermark" /\ ~ failed /\ live[h].len = 0
        /\ UNCHANGED <<bitmap, pool, shared, reply, panicked, highmem, firmware>>
    BY DEF BootAllocate
  <1>2. /\ WatermarkInv /\ Contained /\ TypeOK /\ BootOwned /\ NoOverlap
        /\ pool = Usable(regions)
    BY <1>1 DEF MemoryInv, Drained, Contained
  <1>3. CASE Watermark!allocate_contiguous(n) /\ Own(h, granted'[Len(granted')].base, n)
    <2>1. WatermarkInv' /\ Fresh(n)
      BY <1>1, <1>2, <1>3, WatermarkAllocates
    <2>2. PICK base \in Nat, i \in 1 .. Len(regions) :
            /\ granted' = Append(granted, [base |-> base, len |-> n])
            /\ Run(base, n) \subseteq FramesOf(i)
            /\ \A k \in 1 .. Len(granted) :
                 Watermark!Covers(granted[k]) \intersect Run(base, n) = {}
      BY <2>1 DEF Fresh
    <2> DEFINE G == [base : Nat, len : Nat]
               e == [base |-> base, len |-> n]
    <2>3. granted \in Seq(G) /\ e \in G /\ n \in Nat /\ n > 0
      BY <1>2, BitmapAssumption DEF WatermarkInv, Watermark!TypeOK
    <2> HIDE DEF G
    <2>4. /\ Len(granted) \in Nat
          /\ Len(granted') = Len(granted) + 1
          /\ \A k \in 1 .. Len(granted) : granted'[k] = granted[k]
          /\ granted'[Len(granted) + 1] = e
      BY SMTT(30), <2>2, <2>3, AppendIs, SeqIs
    <2>5. live' = [live EXCEPT ![h] = e]
      BY <1>3, <2>4 DEF Own
    <2>6. /\ Held(h)' = Run(base, n)
          /\ \A g \in Handles \ {h} : Held(g)' = Held(g)
      BY <1>2, <2>5 DEF TypeOK, Held
    <2>7. live' \in [Handles -> [base : Nat, len : 0 .. MaxFrames]]
      <3>1. e \in [base : Nat, len : 0 .. MaxFrames]
        BY BitmapAssumption
      <3> QED
        BY <1>2, <2>5, <3>1 DEF TypeOK
    <2>8. TypeOK'
      BY <1>1, <1>2, <2>7 DEF TypeOK
    <2>9. \A g \in Handles : Held(g) \intersect Run(base, n) = {}
      BY <1>2, <2>2, OwnedGranted
    <2>10. NoOverlap'
      BY SMTT(30), <1>2, <2>6, <2>9 DEF NoOverlap
    <2>11. OnlyUsable'
      <3>1. Run(base, n) \subseteq pool
        BY <1>2, <2>2, FramesUsable
      <3> QED
        BY <1>1, <1>2, <2>6, <3>1 DEF Contained, OnlyUsable, IsFree
    <2>12. Contained'
      BY <1>1, <1>2, <2>8, <2>11 DEF Contained, PoolInRange
    <2>13. BootOwned'
      <3>1. ASSUME NEW g \in Handles, live'[g].len > 0
            PROVE  \E k \in 1 .. Len(granted') : live'[g] = granted'[k]
        <4>1. CASE g = h
          <5>1. live'[g] = granted'[Len(granted) + 1] /\ Len(granted) + 1 \in 1 .. Len(granted')
            BY SMTT(30), <1>2, <2>4, <2>5, <4>1 DEF TypeOK
          <5> QED
            BY <5>1
        <4>2. CASE g # h
          <5>1. live'[g] = live[g]
            BY <1>2, <2>5, <4>2 DEF TypeOK
          <5>2. PICK k \in 1 .. Len(granted) : live[g] = granted[k]
            BY <1>2, <3>1, <5>1 DEF BootOwned
          <5>3. k \in 1 .. Len(granted') /\ granted'[k] = granted[k]
            BY <2>4
          <5> QED
            BY <5>1, <5>2, <5>3
        <4> QED
          BY <4>1, <4>2
      <3> QED
        BY <3>1 DEF BootOwned
    <2>14. pool' = Usable(regions)'
      BY SMTT(30), <1>1, <1>2, <2>1 DEF Fresh, Usable
    <2> QED
      BY <1>1, <2>1, <2>10, <2>12, <2>13, <2>14 DEF MemoryInv, Drained
  <1>4. CASE Watermark!allocation_fails(n) /\ UNCHANGED live
    <2>1. WatermarkInv' /\ regions' = regions /\ granted' = granted
      BY <1>2, <1>4, WatermarkFails
    <2>2. Contained'
      BY <1>1, <1>2, <1>4, QuietContained DEF TypeOK
    <2>3. NoOverlap'
      BY <1>2, <1>4 DEF NoOverlap, Held
    <2>4. BootOwned'
      BY <1>2, <1>4, <2>1 DEF BootOwned
    <2>5. pool' = Usable(regions)'
      BY SMTT(30), <1>1, <1>2, <2>1 DEF Usable
    <2> QED
      BY <1>1, <2>1, <2>2, <2>3, <2>4, <2>5 DEF MemoryInv, Drained
  <1> QED
    BY <1>3, <1>4 DEF BootAllocate

(* A drop of the boot. *)
LEMMA BootDropKeeps ==
  ASSUME MemoryInv, NEW h \in Handles, BootDrop(h)
  PROVE  MemoryInv'
  <1>1. /\ highmem = "watermark" /\ ~ failed
        /\ live' = [live EXCEPT ![h] = Nothing]
        /\ UNCHANGED <<watermark, bitmap, pool, shared, reply, panicked, highmem, firmware>>
    BY DEF BootDrop
  <1>2. /\ WatermarkInv /\ Contained /\ TypeOK /\ BootOwned /\ NoOverlap
        /\ pool = Usable(regions)
    BY <1>1 DEF MemoryInv, Drained, Contained
  <1>3. Held(h)' = {} /\ \A g \in Handles \ {h} : Held(g)' = Held(g)
    BY <1>1, <1>2, DropHolds
  <1>4. TypeOK'
    <2>1. Nothing \in [base : Nat, len : 0 .. MaxFrames]
      BY BitmapAssumption DEF Nothing
    <2>2. live' \in [Handles -> [base : Nat, len : 0 .. MaxFrames]]
      BY <1>1, <1>2, <2>1 DEF TypeOK
    <2> QED
      BY <1>1, <1>2, <2>2 DEF TypeOK
  <1>5. OnlyUsable'
    BY <1>1, <1>2, <1>3 DEF Contained, OnlyUsable, IsFree
  <1>6. Contained'
    BY <1>1, <1>2, <1>4, <1>5 DEF Contained, PoolInRange
  <1>7. NoOverlap'
    BY <1>2, <1>3 DEF NoOverlap
  <1>8. BootOwned'
    <2>1. ASSUME NEW g \in Handles, live'[g].len > 0 PROVE live'[g] = live[g]
      BY SMTT(30), <1>1, <1>2, <2>1 DEF TypeOK, Nothing
    <2> QED
      BY SMTT(30), <1>1, <1>2, <2>1 DEF BootOwned, watermark
  <1>9. WatermarkInv' /\ pool' = Usable(regions)'
    BY <1>1, <1>2, SameWatermark DEF watermark, Usable
  <1> QED
    BY <1>1, <1>6, <1>7, <1>8, <1>9 DEF MemoryInv, Drained

(* The steps that change which allocator is installed, and nothing else    *)
(* that the invariant is about.                                            *)
LEMMA SwitchKeeps ==
  ASSUME MemoryInv, UNCHANGED <<watermark, bitmap, pool, live, reply, panicked>>,
         shared' \in BOOLEAN,
         highmem' \in {"handoff", "watermark", "none", "drained", "bitmap"},
         Drained' <=> Drained,
         highmem = "bitmap" => highmem' = "bitmap",
         highmem' = "none" => ~ failed /\ ~ panicked
  PROVE  MemoryInv'
  <1>1. WatermarkInv'
    BY SameWatermark DEF MemoryInv
  <1>2. Contained'
    BY QuietContained DEF MemoryInv, Contained, TypeOK
  <1>3. pool' = Usable(regions)'
    BY DEF MemoryInv, Usable, watermark
  <1>4. BootOwned' <=> BootOwned
    BY DEF BootOwned, watermark
  <1>5. (NoOverlap' <=> NoOverlap) /\ (OwnedNotFree' <=> OwnedNotFree)
    BY DEF NoOverlap, OwnedNotFree, Held, IsFree
  <1>6. regions' = regions /\ failed' = failed /\ panicked' = panicked
    BY DEF watermark
  <1> HIDE DEF Drained
  <1> QED
    BY <1>1, <1>2, <1>3, <1>4, <1>5, <1>6 DEF MemoryInv

(* drain_into: with at most two regions every frame that is owned is in    *)
(* the range pushed.                                                       *)
LEMMA DrainKeeps ==
  ASSUME MemoryInv, drain_into
  PROVE  MemoryInv'
  <1>1. /\ highmem = "none" /\ highmem' = "drained" /\ push(prev_frame, top)
        /\ UNCHANGED <<watermark, pool, shared, live, reply, panicked, firmware>>
    BY DEF drain_into
  <1>2. /\ WatermarkInv /\ Contained /\ TypeOK /\ BootOwned /\ NoOverlap
        /\ ~ failed /\ ~ panicked /\ pool = Usable(regions)
    BY <1>1 DEF MemoryInv, Drained, Contained
  <1>3. /\ bitmap' \in [Words -> SUBSET Bits]
        /\ \A f \in InRange : IsFree(f)' <=> IsFree(f) /\ f \notin prev_frame .. top - 1
    <2>1. (prev_frame .. top - 1) \intersect InRange \in SUBSET InRange
      OBVIOUS
    <2>2. bitmap \in [Words -> SUBSET Bits]
      BY <1>2 DEF TypeOK
    <2> QED
      BY SMTT(30), <1>1, <2>1, <2>2, SetAllocated DEF IsFree, push
  <1>4. \A h \in Handles : Held(h)' = Held(h)
    BY <1>1 DEF Held
  <1>5. TypeOK'
    BY <1>1, <1>2, <1>3 DEF TypeOK
  <1>6. OnlyUsable'
    BY <1>1, <1>2, <1>3, <1>4 DEF Contained, OnlyUsable
  <1>7. Contained'
    BY <1>1, <1>2, <1>5, <1>6 DEF Contained, PoolInRange
  <1>8. ASSUME Len(regions) =< 2 PROVE OwnedNotFree'
    <2>1. \A h \in Handles : Held(h) \subseteq prev_frame .. top - 1
      BY <1>2, <1>8, OwnedGranted, WatermarkDrains DEF Watermark!DrainCovers
    <2>2. ASSUME NEW h \in Handles, NEW f \in Held(h)', IsFree(f)' PROVE FALSE
      <3>1. f \in InRange
        BY <2>2 DEF IsFree
      <3> QED
        BY <1>3, <1>4, <2>1, <2>2, <3>1
    <2> QED
      BY <2>2 DEF OwnedNotFree
  <1>9. NoOverlap'
    BY <1>2, <1>4 DEF NoOverlap
  <1>10. WatermarkInv' /\ pool' = Usable(regions)' /\ BootOwned'
    <2>1. WatermarkInv'
      BY <1>1, <1>2, SameWatermark
    <2>2. pool' = Usable(regions)'
      BY <1>1, <1>2 DEF watermark, Usable
    <2>3. BootOwned'
      BY <1>1, <1>2 DEF BootOwned, watermark
    <2> QED
      BY <2>1, <2>2, <2>3
  <1>11. Len(regions)' > 2 \/ OwnedNotFree'
    <2>1. Len(regions) \in Nat
      BY <1>2, Regions DEF WatermarkInv, Watermark!TypeOK
    <2>2. Len(regions) =< 2 \/ Len(regions) > 2
      BY <2>1
    <2> QED
      BY <1>1, <1>8, <2>2 DEF watermark
  <1>12. ~ failed' /\ ~ panicked'
    BY <1>1, <1>2 DEF watermark
  <1> QED
    BY <1>1, <1>7, <1>9, <1>10, <1>11, <1>12 DEF MemoryInv, Drained

(* The calls to the bitmap allocator. *)
LEMMA RunningKeeps ==
  ASSUME MemoryInv, Running
  PROVE  MemoryInv' /\ panicked' = panicked
  <1>1. /\ highmem = "bitmap" /\ highmem' = highmem /\ Drained /\ Drained'
        /\ Call \/ Deallocate
        /\ UNCHANGED <<watermark, firmware>>
    BY DEF Running, Drained
  <1>2. Contained' /\ panicked' = panicked
    BY <1>1, RunningContained DEF MemoryInv
  <1>3. Len(regions) > 2 \/ (NoOverlap' /\ OwnedNotFree')
    <2>1. CASE Len(regions) > 2
      BY <2>1
    <2>2. CASE ~ Len(regions) > 2
      <3>1. IInv
        BY <1>1, <2>2 DEF MemoryInv, IInv
      <3>2. IInv'
        BY <1>1, <3>1, NextIInv DEF Next
      <3> QED
        BY <3>2 DEF IInv
    <2> QED
      BY <2>1, <2>2
  <1>4. WatermarkInv' /\ regions' = regions /\ failed' = failed
    BY <1>1, SameWatermark DEF MemoryInv, watermark
  <1>5. pool' = pool
    BY <1>1 DEF Call, Deallocate, deallocate_contiguous
  <1>6. pool' = Usable(regions)'
    BY <1>4, <1>5 DEF MemoryInv, Usable
  <1> HIDE DEF Drained
  <1> QED
    BY <1>1, <1>2, <1>3, <1>4, <1>6 DEF MemoryInv

LEMMA MemoryNextInv == MemoryInv /\ [MemoryNext]_memoryVars => MemoryInv' /\ panicked' = panicked
  <1> SUFFICES ASSUME MemoryInv, [MemoryNext]_memoryVars
               PROVE  MemoryInv' /\ panicked' = panicked
    OBVIOUS
  <1>0. shared \in BOOLEAN
    BY DEF MemoryInv, Contained, TypeOK
  <1>1. CASE Enter
    BY <1>0, <1>1, SwitchKeeps DEF Enter, vars, Drained
  <1>2. ASSUME NEW h \in Handles, NEW n \in 1 .. MaxFrames, BootAllocate(h, n)
        PROVE  MemoryInv' /\ panicked' = panicked
    BY <1>2, BootAllocateKeeps DEF BootAllocate
  <1>3. ASSUME NEW h \in Handles, BootDrop(h)
        PROVE  MemoryInv' /\ panicked' = panicked
    BY <1>3, BootDropKeeps DEF BootDrop
  <1>4. CASE EndBoot
    BY <1>0, <1>4, SwitchKeeps DEF EndBoot, vars, Drained
  <1>5. CASE drain_into
    BY <1>5, DrainKeeps DEF drain_into
  <1>6. CASE init_highmem
    BY <1>0, <1>6, SwitchKeeps DEF init_highmem, Publish, Drained
  <1>7. CASE Running
    BY <1>7, RunningKeeps
  <1>8. CASE UNCHANGED memoryVars
    <2>1. Drained' <=> Drained
      BY <1>8 DEF memoryVars, Drained
    <2>2. highmem' = "none" => ~ failed /\ ~ panicked
      BY <1>8 DEF memoryVars, MemoryInv
    <2> QED
      BY <1>0, <1>8, <2>1, <2>2, SwitchKeeps DEF memoryVars, vars, MemoryInv
  <1> QED
    BY <1>1, <1>2, <1>3, <1>4, <1>5, <1>6, <1>7, <1>8 DEF MemoryNext

(* The inductive invariant of the change of allocators holds throughout. *)
THEOREM MemoryInvariance == MemorySpec => []MemoryInv
  BY MemoryInitInv, MemoryNextInv, PTL DEF MemorySpec

(* With a memory map of at most two regions no two OwnedFrames overlap,    *)
(* those of the boot and those allocated after it included.                *)
THEOREM MemoryNoOverlapTwoRegions == MemorySpec => []NoOverlapTwoRegions
  <1>1. MemoryInv => NoOverlapTwoRegions
    BY DEF MemoryInv, NoOverlapTwoRegions, MemoryTypeOK, WatermarkInv, Contained
  <1> QED
    BY <1>1, MemoryInvariance, PTL

(* With at most two regions the one range that drain_into pushes covers    *)
(* every frame handed out during the boot.                                 *)
THEOREM MemoryDrainCovers == MemorySpec => []DrainCovers
  <1>1. MemoryInv => DrainCovers
    BY WatermarkDrains DEF MemoryInv, DrainCovers
  <1> QED
    BY <1>1, MemoryInvariance, PTL

(* Until the kernel starts its regions have the frames of the map that the *)
(* firmware gave.                                                          *)
Handoff == highmem = "handoff" => Usable(regions) = UsableFrames(firmware)

LEMMA HandoffHolds == MemorySpec => []Handoff
  <1>1. MemoryInit => Handoff
    BY UsableMemory DEF MemoryInit, Handoff
  <1>2. Handoff /\ [MemoryNext]_memoryVars => Handoff'
    <2> SUFFICES ASSUME Handoff, [MemoryNext]_memoryVars PROVE Handoff'
      OBVIOUS
    <2>1. CASE MemoryNext
      <3>1. highmem' # "handoff"
        BY <2>1 DEF MemoryNext, Enter, BootAllocate, BootDrop, EndBoot, drain_into,
                    init_highmem, Running
      <3> QED
        BY <3>1 DEF Handoff
    <2>2. CASE UNCHANGED memoryVars
      BY <2>2 DEF memoryVars, watermark, Handoff, Usable, UsableFrames
    <2> QED
      BY <2>1, <2>2
  <1> QED
    BY <1>1, <1>2, PTL DEF MemorySpec

(* Whatever the memory map, the regions have the frames that the           *)
(* firmware's map says may be used, and until a request fails the boot is  *)
(* given only those, none of them twice.                                   *)
THEOREM MemoryBootFrames == MemorySpec => []BootFramesUsable
  <1>1. MemoryInv /\ Handoff => BootFramesUsable
    BY WatermarkUsable DEF MemoryInv, WatermarkInv, Handoff, BootFramesUsable
  <1> QED
    BY <1>1, MemoryInvariance, HandoffHolds, PTL

(* Whatever the memory map, no drop of frames that the other allocator     *)
(* allocated makes the bitmap allocator panic.                             *)
THEOREM MemoryNoPanic == MemorySpec => NoPanic
  <1>1. MemoryInv /\ [MemoryNext]_memoryVars => [panicked' = panicked]_vars
    BY MemoryNextInv
  <1> QED
    BY <1>1, MemoryInvariance, PTL DEF MemorySpec, NoPanic
=============================================================================
