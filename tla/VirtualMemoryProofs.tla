------------------------- MODULE VirtualMemoryProofs -------------------------
(***************************************************************************)
(* Kernel address space.  Part 1: the ranged B-tree allocator by itself,   *)
(* for every range, number of handles and size of request.  Part 2: the    *)
(* bootstrap allocator, the heap, the B-tree and the hand-over, for every  *)
(* number of threads and every layout of the space.  No page has two       *)
(* owners and the assertions hold, with the exceptions that the properties *)
(* name.                                                                   *)
(***************************************************************************)
EXTENDS VirtualMemory, TLAPS

(* A leaf that names no prover is tried with Zenon, then with the SMT solver. *)
USE ZenonT(30), SMTT(30)

-----------------------------------------------------------------------------
(* Part 1: RangedBtree. *)

(* The keys are ranges that are not empty, that do not meet, and that      *)
(* begin inside the allocator's range.                                     *)
KeysOK == map \subseteq [start : Nat, end : Nat, len : Nat]
KeysApart ==
  /\ \A k \in map : RangeStart <= k.start /\ k.start < k.end
  /\ \A j, k \in map : j # k => ~ Equal(j, k)

(* What a handle owns is a key of its own. *)
KeyOf(h) == Key(live[h].base, live[h].len)
OwnersHaveKeys ==
  /\ \A h \in Handles : live[h].len > 0 => KeyOf(h) \in map
  /\ \A g, h \in Handles :
       g # h /\ live[g].len > 0 /\ live[h].len > 0 => live[g].base # live[h].base

Inv ==
  /\ TypeOK
  /\ KeysApart
  /\ OwnersHaveKeys
  /\ DropsFindTheirKey
  /\ InsertNeverFails

(* Of disjoint keys, only one contains a point. *)
LEMMA OneKeyAtPoint ==
  ASSUME KeysOK, KeysApart, NEW j \in map, NEW k \in map, NEW p \in Nat,
         PointEqual(p, j), PointEqual(p, k)
  PROVE  j = k
<1>1. j.start \in Nat /\ j.end \in Nat /\ k.start \in Nat /\ k.end \in Nat
  BY DEF KeysOK
<1>2. Equal(j, k)
  BY <1>1 DEF PointEqual, Equal
<1> QED BY <1>2 DEF KeysApart

(* A vacant key can be entered. *)
LEMMA InsertKey ==
  ASSUME KeysOK, KeysApart, NEW at \in Nat, RangeStart <= at, NEW n \in Nat \ {0},
         Insert(Key(at, n))
  PROVE  /\ KeysOK' /\ KeysApart'
         /\ map' = map \union {Key(at, n)}
         /\ Key(at, n).start = at /\ Key(at, n).end = at + n
<1> DEFINE key == Key(at, n)
<1>1. /\ key \in [start : Nat, end : Nat, len : Nat]
      /\ key.start = at /\ key.end = at + n
      /\ map' = map \union {key} /\ Vacant(map, key)
  BY DEF Key, Insert
<1> HIDE DEF key
<1>2. \A k \in map : /\ k.start \in Nat /\ k.end \in Nat
                     /\ ~ Equal(k, key) /\ ~ Equal(key, k)
  BY <1>1 DEF KeysOK, Vacant, Equal
<1>3. KeysOK'
  BY <1>1 DEF KeysOK
<1>4. KeysApart'
  <2>1. \A k \in map' : RangeStart <= k.start /\ k.start < k.end
    BY SMTT(30), <1>1, RangeAssumption DEF KeysApart
  <2>2. \A j, k \in map' : j # k => ~ Equal(j, k)
    BY <1>1, <1>2 DEF KeysApart
  <2> QED BY <2>1, <2>2 DEF KeysApart, Equal
<1> QED BY <1>1, <1>3, <1>4 DEF key

(* A place that allocate_contiguous settles on is free, and within the     *)
(* range unless a key already ends behind it.                              *)
LEMMA PlaceIsFree ==
  ASSUME KeysOK, KeysApart, map # {}, NEW n \in 1 .. MaxPages,
         NEW at \in {RangeStart} \union {k.end : k \in map}, Place(at, n)
  PROVE  /\ at \in Nat /\ RangeStart <= at
         /\ Vacant(map, Key(at, n))
         /\ at + n > RangeEnd => \E k \in map : k.end > RangeEnd
<1> USE RangeAssumption
<1>1. \A k \in map : k.start \in Nat /\ k.end \in Nat /\ RangeStart <= k.start /\ k.start < k.end
  BY DEF KeysOK, KeysApart
<1>2. at \in Nat /\ RangeStart <= at /\ n \in Nat \ {0}
  BY <1>1
<1>3. CASE InFront(n) /\ at = RangeStart
  <2>1. PICK f \in map : First(f) /\ AtLeast(f.start, RangeStart, n)
    BY <1>3 DEF InFront
  <2>2. RangeStart + n <= f.start
    BY <1>1, <2>1 DEF AtLeast
  <2>3. ASSUME NEW k \in map PROVE ~ Equal(k, Key(at, n))
    <3>1. f.start <= k.start
      BY <1>1, <2>1 DEF First, Less
    <3>2. Key(at, n).end = RangeStart + n
      BY <1>3 DEF Key
    <3>3. k.start >= Key(at, n).end
      BY <1>1, <2>2, <3>1, <3>2
    <3> QED BY <3>3 DEF Equal
  <2>4. at + n > RangeEnd => f.end > RangeEnd
    <3>1. at = RangeStart /\ f.start \in Nat /\ f.end \in Nat /\ f.start < f.end
      BY <1>1, <1>3
    <3>2. RangeStart \in Nat /\ RangeEnd \in Nat /\ n \in Nat
      BY <1>2
    <3>3. \A a, b, c, e, x \in Nat : a + b <= c /\ c < e /\ a + b > x => e > x
      BY SMTT(30)
    <3> QED BY <2>2, <3>1, <3>2, <3>3
  <2> QED BY <1>2, <2>3, <2>4 DEF Vacant
<1>4. CASE \E k \in map : Last(k) /\ AtLeast(RangeEnd, k.end, n) /\ at = k.end
  <2>1. PICK l \in map : Last(l) /\ AtLeast(RangeEnd, l.end, n) /\ at = l.end
    BY <1>4
  <2>2. ASSUME NEW k \in map PROVE ~ Equal(k, Key(at, n))
    <3>1. k.end <= l.end
      BY <1>1, <2>1 DEF Last, Less
    <3> QED BY <1>1, <2>1, <3>1 DEF Equal, Key
  <2>3. at + n > RangeEnd => l.end > RangeEnd
    BY SMTT(30), <1>1, <1>2, <2>1 DEF AtLeast
  <2> QED BY <1>2, <2>2, <2>3 DEF Vacant
<1> QED BY <1>3, <1>4 DEF Place

(* So it is when there is no key yet. *)
LEMMA PlaceIsVacant ==
  ASSUME KeysOK, KeysApart, NEW n \in 1 .. MaxPages,
         NEW at \in {RangeStart} \union {k.end : k \in map}, Place(at, n)
  PROVE  at \in Nat /\ RangeStart <= at /\ Vacant(map, Key(at, n))
<1>1. CASE map = {}
  BY <1>1, RangeAssumption DEF Vacant
<1> QED BY <1>1, PlaceIsFree

(* A free key can be added, and owned by a handle that owns nothing. *)
LEMMA InsertKeepsInv ==
  ASSUME Inv, NEW h \in Handles, live[h].len = 0,
         NEW at \in Nat, RangeStart <= at, NEW n \in 1 .. MaxPages,
         Insert(Key(at, n)), Own(h, at, n), UNCHANGED panic
  PROVE  Inv'
  <1> USE RangeAssumption
  <1> DEFINE key == Key(at, n)
  <1>0. /\ \A k \in map : k.start \in Nat /\ k.end \in Nat
        /\ key.start = at /\ key.end = at + n
        /\ key \in [start : Nat, end : Nat, len : Nat]
        /\ map' = map \union {key}
    BY SMTT(30) DEF Inv, TypeOK, Key, Insert
  <1>1. TypeOK'
    BY SMTT(30), <1>0 DEF Inv, TypeOK, Own
  <1>2. \A k \in map : ~ Equal(k, key)
    BY DEF Insert, Vacant
  <1>3. KeysApart'
    BY SMTT(30), InsertKey DEF Inv, TypeOK, KeysOK
  <1>4. live'[h] = [base |-> at, len |-> n] /\ \A g \in Handles \ {h} : live'[g] = live[g]
    BY DEF Own, Inv, TypeOK
  <1>5. OwnersHaveKeys'
    <2>1. \A g \in Handles : live'[g].len > 0 => Key(live'[g].base, live'[g].len) \in map'
      BY SMTT(30), <1>0, <1>4 DEF Inv, OwnersHaveKeys, KeyOf
    <2>2. \A g \in Handles : g # h /\ live[g].len > 0 => live[g].base # at
      <3> SUFFICES ASSUME NEW g \in Handles, live[g].len > 0, live[g].base = at
                   PROVE  FALSE
        OBVIOUS
      <3>1. KeyOf(g) \in map /\ live[g].len \in Nat
        BY SMTT(30) DEF Inv, OwnersHaveKeys, TypeOK
      <3>2. Equal(KeyOf(g), key)
        BY <3>1 DEF KeyOf, Key, Equal
      <3> QED
        BY <3>1, <3>2, <1>2
    <2>3. \A f, g \in Handles :
            f # g /\ live'[f].len > 0 /\ live'[g].len > 0 => live'[f].base # live'[g].base
      BY SMTT(30), <2>2, <1>4 DEF Inv, OwnersHaveKeys
    <2> QED
      BY <2>1, <2>3 DEF OwnersHaveKeys, KeyOf
  <1> QED
    BY <1>1, <1>3, <1>5 DEF Inv, DropsFindTheirKey, InsertNeverFails

(* The drop of a handle's pages takes out that handle's key. *)
LEMMA DropKeepsInv ==
  ASSUME Inv, NEW h \in Handles, deallocate_contiguous(h)
  PROVE  Inv'
  <1>0. /\ live[h].base \in Nat /\ live[h].len \in Nat /\ live[h].len > 0
        /\ KeyOf(h) \in map
    BY SMTT(30) DEF deallocate_contiguous, Inv, TypeOK, OwnersHaveKeys
  <1>1. PointEqual(live[h].base, KeyOf(h))
    BY <1>0 DEF PointEqual, KeyOf, Key
  <1>2. \A k \in map : PointEqual(live[h].base, k) => k = KeyOf(h)
    BY <1>0, <1>1, OneKeyAtPoint DEF Inv, TypeOK, KeysOK
  <1>3. map' = map \ {KeyOf(h)}
    BY <1>0, <1>1, <1>2 DEF deallocate_contiguous
  <1>4. UNCHANGED panic
    BY <1>0, <1>1, <1>2 DEF deallocate_contiguous, KeyOf, Key
  <1>5. live' = [live EXCEPT ![h] = Nothing]
    BY DEF deallocate_contiguous
  <1>6. live'[h] = Nothing /\ \A g \in Handles \ {h} : live'[g] = live[g]
    BY <1>5 DEF Inv, TypeOK
  <1>7. TypeOK'
    BY SMTT(30), <1>3, <1>4, <1>5, RangeAssumption DEF Inv, TypeOK, Nothing
  <1>8. KeysApart'
    BY <1>3 DEF Inv, KeysApart, Equal
  <1>9. OwnersHaveKeys'
    <2>1. \A g \in Handles : live'[g].len > 0 => Key(live'[g].base, live'[g].len) \in map'
      <3> SUFFICES ASSUME NEW g \in Handles, live'[g].len > 0
                   PROVE  Key(live'[g].base, live'[g].len) \in map'
        OBVIOUS
      <3>1. g # h
        BY <1>6 DEF Nothing
      <3>2. KeyOf(g) \in map /\ live[g].base # live[h].base
        BY <3>1, <1>0, <1>6 DEF Inv, OwnersHaveKeys
      <3>3. KeyOf(g) # KeyOf(h)
        BY <3>2 DEF KeyOf, Key
      <3> QED
        BY <3>1, <3>2, <3>3, <1>3, <1>6 DEF KeyOf
    <2>2. \A f, g \in Handles :
            f # g /\ live'[f].len > 0 /\ live'[g].len > 0 => live'[f].base # live'[g].base
      BY SMTT(30), <1>6 DEF Inv, OwnersHaveKeys, Nothing
    <2> QED
      BY <2>1, <2>2 DEF OwnersHaveKeys, KeyOf
  <1> QED
    BY <1>4, <1>7, <1>8, <1>9 DEF Inv, DropsFindTheirKey, InsertNeverFails

(* A reservation is added only where it meets no key. *)
LEMMA ReserveKeepsInv ==
  ASSUME Inv, Reserve
  PROVE  Inv'
  <1> USE RangeAssumption
  <1>1. PICK s \in RangeStart .. RangeEnd, e \in RangeStart .. RangeEnd :
          map' = add_allocation(map, s, e)
    BY DEF Reserve
  <1> DEFINE lo == IF s > RangeStart THEN s ELSE RangeStart
             hi == IF e < RangeEnd THEN e ELSE RangeEnd
             key == [start |-> s, end |-> e, len |-> hi - lo]
  <1>2. lo = s /\ hi = e
    OBVIOUS
  <1>3. CASE lo < hi /\ Vacant(map, key)
    <2>1. map' = map \union {key} /\ key \in [start : Nat, end : Nat, len : Nat] /\ s < e
      BY <1>1, <1>2, <1>3 DEF add_allocation
    <2>2. \A k \in map : ~ Equal(k, key) /\ ~ Equal(key, k)
      BY <1>3 DEF Vacant, Equal, Inv, TypeOK
    <2>3. TypeOK'
      BY <2>1 DEF Inv, TypeOK, Reserve
    <2>4. KeysApart'
      BY SMTT(30), <2>1, <2>2 DEF Inv, KeysApart, Equal
    <2> QED
      BY <2>1, <2>3, <2>4
      DEF Inv, Reserve, OwnersHaveKeys, KeyOf, DropsFindTheirKey, InsertNeverFails
  <1>4. CASE ~ (lo < hi /\ Vacant(map, key))
    <2>1. map' = map
      BY <1>1, <1>4 DEF add_allocation
    <2> QED
      BY <2>1 DEF Inv, Reserve, TypeOK, KeysApart, OwnersHaveKeys, KeyOf, Equal,
                  DropsFindTheirKey, InsertNeverFails
  <1> QED
    BY <1>3, <1>4

(* allocate_contiguous panics only for want of space, or on a subtraction. *)
LEMMA PanicsKeepInv ==
  ASSUME Inv, NEW n \in 1 .. MaxPages, allocate_panics(n)
  PROVE  Inv'
  <1>1. ~ PlaceTaken(n)
    BY PlaceIsVacant DEF Inv, TypeOK, KeysOK, PlaceTaken
  <1>2. panic' \in {"todo", "overflow"}
    BY <1>1 DEF allocate_panics, Fails, Panic
  <1> QED
    BY <1>2 DEF Inv, allocate_panics, TypeOK, KeysApart, OwnersHaveKeys, KeyOf, Equal,
                DropsFindTheirKey, InsertNeverFails

(* Inv is inductive. *)
THEOREM Invariance == Spec => []Inv
  <1>1. Init => Inv
    BY RangeAssumption DEF Init, Inv, TypeOK, KeysApart, OwnersHaveKeys, Nothing,
                           DropsFindTheirKey, InsertNeverFails
  <1>2. Inv /\ [Next]_vars => Inv'
    <2> SUFFICES ASSUME Inv, [Next]_vars
                 PROVE  Inv'
      OBVIOUS
    <2>1. CASE Reserve
      BY <2>1, ReserveKeepsInv
    <2>2. ASSUME NEW h \in Handles, NEW n \in 1 .. MaxPages, allocate_contiguous(h, n)
          PROVE  Inv'
      <3>1. PICK at \in {RangeStart} \union {k.end : k \in map} :
              Place(at, n) /\ Insert(Key(at, n)) /\ Own(h, at, n)
        BY <2>2 DEF allocate_contiguous
      <3>2. at \in Nat /\ RangeStart <= at
        BY <3>1, PlaceIsVacant DEF Inv, TypeOK, KeysOK
      <3>3. live[h].len = 0 /\ UNCHANGED panic
        BY <2>2 DEF allocate_contiguous
      <3> QED
        BY <3>1, <3>2, <3>3, InsertKeepsInv
    <2>3. ASSUME NEW h \in Handles, NEW n \in 1 .. MaxPages,
                 NEW at \in RangeStart .. RangeEnd, allocate_contiguous_at(h, at, n)
          PROVE  Inv'
      <3>1. at \in Nat /\ RangeStart <= at
        BY RangeAssumption
      <3> QED
        BY <3>1, <2>3, InsertKeepsInv DEF allocate_contiguous_at
    <2>4. ASSUME NEW h \in Handles, deallocate_contiguous(h)
          PROVE  Inv'
      BY <2>4, DropKeepsInv
    <2>5. ASSUME NEW n \in 1 .. MaxPages, allocate_panics(n)
          PROVE  Inv'
      BY <2>5, PanicsKeepInv
    <2>6. CASE UNCHANGED vars
      BY <2>6 DEF Inv, vars, TypeOK, KeysApart, OwnersHaveKeys, KeyOf, Equal,
                  DropsFindTheirKey, InsertNeverFails
    <2> QED
      BY <2>1, <2>2, <2>3, <2>4, <2>5, <2>6 DEF Next
  <1> QED
    BY <1>1, <1>2, PTL DEF Spec

(* No two OwnedPages own the same page. *)
THEOREM PagesHaveOneOwner == Spec => []NoOverlap
  <1>1. Inv => NoOverlap
    <2> SUFFICES ASSUME Inv, NEW g \in Handles, NEW h \in Handles, g # h,
                        NEW p \in Held(g) \intersect Held(h)
                 PROVE  FALSE
      BY DEF NoOverlap
    <2>1. /\ live[g].base \in Nat /\ live[g].len \in Nat
          /\ live[h].base \in Nat /\ live[h].len \in Nat
      BY SMTT(30) DEF Inv, TypeOK
    <2>2. live[g].len > 0 /\ live[h].len > 0
      BY <2>1 DEF Held, Pages
    <2>3. KeyOf(g) \in map /\ KeyOf(h) \in map /\ KeyOf(g) # KeyOf(h)
      BY <2>2 DEF Inv, OwnersHaveKeys, KeyOf, Key
    <2>4. Equal(KeyOf(g), KeyOf(h))
      BY <2>1 DEF Held, Pages, Equal, KeyOf, Key
    <2> QED
      BY <2>3, <2>4 DEF Inv, KeysApart
  <1> QED
    BY <1>1, Invariance, PTL

(* The assertions in allocate_contiguous and deallocate_contiguous hold,   *)
(* but for todo!().                                                        *)
THEOREM MapAssertionsHold == Spec => [](DropsFindTheirKey /\ InsertNeverFails)
  <1>1. Inv => DropsFindTheirKey /\ InsertNeverFails
    BY DEF Inv
  <1> QED
    BY <1>1, Invariance, PTL
-----------------------------------------------------------------------------
(* Part 2: VirtualMemory. *)

(* Where threads are, and the mutexes they hold there. *)
PCs == {"idle", "heap_lock", "heap", "grow", "cas", "grow_insert", "choose",
        "insert", "install", "map_page"}
WithHeap == {"heap", "grow", "cas", "grow_insert", "map_page"}
WithMap == {"grow_insert", "choose", "insert"}
InRequest == {"heap_lock", "heap", "grow", "cas"}

(* t is in a heap request for a node; for the Box of the hand-over, or     *)
(* about to install it; or stuck in a request for a node that the heap's   *)
(* own growth needs.                                                       *)
ForNode(t) == pc[t] \in InRequest /\ job[t] = "node"
ForBox(t) == pc[t] = "install" \/ (pc[t] \in InRequest /\ job[t] = "box")
Stuck(t) == pc[t] = "heap_lock" /\ job[t] = "node" /\ heapLock = t

ControlOK ==
  /\ pc \in [Threads -> PCs]
  /\ job \in [Threads -> {"call", "node", "box"}]
  /\ layout \in [Threads -> Layouts \union {NodeLayout}]
  /\ pages \in [Threads -> [h : Handles \union {Nobody}, n : 0 .. MaxPages]]
  /\ installed \in {"bootstrap", "btree"}

HeapLockOK ==
  /\ heapLock \in Threads \union {Nobody}
  /\ \A t \in Threads :
       /\ pc[t] \in WithHeap => heapLock = t
       /\ heapLock = t => pc[t] \in WithHeap \/ Stuck(t)

MapLockOK ==
  /\ mapLock \in Threads \union {Nobody}
  /\ \A t \in Threads :
       /\ pc[t] \in WithMap \/ ForNode(t) <=> mapLock = t
       /\ pc[t] = "grow_insert" => job[t] = "call"
       /\ pc[t] \in {"choose", "insert"} \/ (ForNode(t) /\ ~ Stuck(t)) =>
            pages[t].h \in Handles /\ pages[t].n \in 1 .. MaxPages
  /\ mapLock # Nobody => installed = "btree"

HandOverOK ==
  /\ \A t \in Threads : pc[t] = "cas" => installed = "bootstrap"
  /\ \A t \in Threads : ForBox(t) => installed = "bootstrap" /\ map # {}
  /\ \A t, u \in Threads : ForBox(t) /\ ForBox(u) => t = u
  /\ installed = "bootstrap" => map = {} \/ map = Reserved

Control == ControlOK /\ HeapLockOK /\ MapLockOK /\ HandOverOK

(* The heap: made before it is used, mapped up to its watermark, and about *)
(* to grow only when it has to.                                            *)
HeapOK ==
  /\ start \in Nat /\ RegionStart <= start
  /\ watermark \in Nat
  /\ \/ /\ heap = [base |-> -1, len |-> 0]
        /\ installed = "bootstrap"
        /\ \A t \in Threads : pc[t] \in {"idle", "heap_lock"}
     \/ /\ heap \in [base : Nat, len : Nat]
        /\ RegionStart <= heap.base
        /\ watermark <= HeapEnd * PageCells
        /\ installed = "bootstrap" => HeapEnd <= start
  /\ \A t \in Threads :
       pc[t] \in {"grow", "cas", "grow_insert"} => BlockEnd(t) > HeapEnd * PageCells

-----------------------------------------------------------------------------
(* Who owns what.  Two ranges do not meet. *)
Apart(a, b, c, d) == b <= c \/ d <= a

Owns(h) == live[h].len > 0
OwnEnd(h) == live[h].base + live[h].len

OwnersApart ==
  /\ \A g, h \in Handles : g # h /\ Owns(g) /\ Owns(h) =>
       Apart(live[g].base, OwnEnd(g), live[h].base, OwnEnd(h))
  /\ \A h \in Handles : Owns(h) /\ heap.len > 0 =>
       Apart(live[h].base, OwnEnd(h), heap.base, HeapEnd)
  /\ \A h \in Handles : Owns(h) => Apart(live[h].base, OwnEnd(h), UsedStart, UsedEnd)

(* Before the hand-over, everything comes from below start ... *)
FromRegion ==
  \A h \in Handles : Owns(h) => RegionStart <= live[h].base /\ OwnEnd(h) <= start

(* ... and after it every page in use is under a key: the owner's own, or  *)
(* one of the two reservations.                                            *)
RegionKey == Key(RegionStart, RegionEnd - RegionStart)
UsedKey == Key(UsedStart, UsedEnd - UsedStart)

UnderKeys ==
  /\ KeysOK /\ KeysApart
  /\ UsedKey \in map
  /\ \A h \in Handles : Owns(h) =>
       \/ KeyOf(h) \in map
       \/ /\ RegionKey \in map
          /\ RegionStart <= live[h].base /\ OwnEnd(h) <= RegionEnd
  /\ \A p \in heap.base .. HeapEnd - 1 : \E k \in map : k.start <= p /\ p < k.end
  /\ \A k \in map : k.end > RangeEnd => HeapEnd > RangeEnd

LiveOK == live \in [Handles -> [base : Nat, len : 0 .. MaxPages]]

Owners ==
  /\ LiveOK /\ KeysOK /\ regionFreed \in BOOLEAN
  /\ ~ Overrun /\ ~ regionFreed =>
       /\ OwnersApart
       /\ panic = "no" => IF installed = "bootstrap" THEN FromRegion ELSE UnderKeys

VMInv == Control /\ HeapOK /\ Owners
-----------------------------------------------------------------------------
(* What a step of t does to where the threads are. *)
Moves(t) ==
  /\ ControlOK'
  /\ \A u \in Threads \ {t} :
       pc'[u] = pc[u] /\ job'[u] = job[u] /\ layout'[u] = layout[u] /\ pages'[u] = pages[u]

LEMMA GotoMoves ==
  ASSUME ControlOK, NEW t \in Threads, NEW l \in PCs, Goto(t, l),
         installed' \in {"bootstrap", "btree"}
  PROVE  /\ pc'[t] = l
         /\ UNCHANGED <<job, layout, pages>> => Moves(t)
BY DEF Goto, Moves, ControlOK

LEMMA RequestMoves ==
  ASSUME ControlOK, NEW t \in Threads, NEW what \in {"call", "node", "box"},
         NEW l \in Layouts \union {NodeLayout}, Request(t, what, l),
         UNCHANGED <<installed, pages>>
  PROVE  Moves(t) /\ pc'[t] = "heap_lock" /\ job'[t] = what /\ layout'[t] = l
BY DEF Goto, Request, Moves, ControlOK, PCs

LEMMA ReturnMoves ==
  ASSUME ControlOK, NEW t \in Threads, NEW ok \in BOOLEAN, HeapReturns(t, ok),
         UNCHANGED <<installed, job, layout, pages>>
  PROVE  /\ Moves(t) /\ heapLock' = Nobody
         /\ job[t] = "call" => pc'[t] = "idle"
         /\ job[t] = "node" => pc'[t] = "insert"
         /\ job[t] = "box" => pc'[t] = "install"
<1>1. PICK l \in {"idle", "insert", "install"} :
        /\ Goto(t, l)
        /\ job[t] = "call" => l = "idle"
        /\ job[t] = "node" => l = "insert"
        /\ job[t] = "box" => l = "install"
  BY DEF HeapReturns, ControlOK
<1>2. l \in PCs /\ installed' \in {"bootstrap", "btree"}
  BY DEF PCs, ControlOK
<1>3. pc'[t] = l /\ Moves(t)
  BY <1>1, <1>2, GotoMoves
<1> QED BY <1>1, <1>3 DEF HeapReturns

(* The two reservations of kmain are entered as they are. *)
LEMMA ReservedKeys == Reserved = {RegionKey, UsedKey}
<1> USE RangeAssumption, PlacesAssumption
<1>1. RegionKey = [start |-> RegionStart, end |-> RegionEnd, len |-> RegionEnd - RegionStart]
  BY DEF RegionKey, Key
<1>2. UsedKey = [start |-> UsedStart, end |-> UsedEnd, len |-> UsedEnd - UsedStart]
  BY DEF UsedKey, Key
<1>3. add_allocation({}, RegionStart, RegionEnd) = {RegionKey}
  BY <1>1 DEF add_allocation, Vacant
<1>4. Vacant({RegionKey}, UsedKey)
  BY <1>1, <1>2 DEF Vacant, Equal
<1>5. add_allocation({RegionKey}, UsedStart, UsedEnd) = {RegionKey} \union {UsedKey}
  BY <1>2, <1>4 DEF add_allocation
<1> QED BY <1>3, <1>5 DEF Reserved

LEMMA ReservedTyped == Reserved \subseteq [start : Nat, end : Nat, len : Nat]
<1> USE RangeAssumption, PlacesAssumption
<1>1. RegionKey \in [start : Nat, end : Nat, len : Nat]
  BY DEF RegionKey, Key
<1>2. UsedKey \in [start : Nat, end : Nat, len : Nat]
  BY DEF UsedKey, Key
<1> QED BY <1>1, <1>2, ReservedKeys

(* A request from outside of the heap. *)
LEMMA HeapCallControl ==
  ASSUME Control, NEW t \in Threads, HeapCall(t)
  PROVE  Control'
<1>1. PICK l \in Layouts : Request(t, "call", l)
  BY DEF HeapCall
<1>2. pc[t] = "idle" /\ UNCHANGED <<map, installed, heapLock, mapLock, pages>>
  BY DEF HeapCall, vars
<1>3. Moves(t) /\ pc'[t] = "heap_lock" /\ job'[t] = "call"
  BY <1>1, <1>2, RequestMoves DEF Control
<1>4. ControlOK /\ HeapLockOK /\ MapLockOK /\ HandOverOK /\ ControlOK'
  BY <1>3 DEF Control, Moves
<1>5. HeapLockOK'
  BY <1>2, <1>3, <1>4, NobodyAssumption DEF HeapLockOK, Moves, WithHeap, Stuck
<1>6. MapLockOK'
  BY SMTT(30), <1>2, <1>3, <1>4, NobodyAssumption DEF MapLockOK, Moves, WithMap, ForNode, InRequest, Stuck
<1>7. HandOverOK'
  BY SMTT(30), <1>2, <1>3, <1>4, NobodyAssumption DEF HandOverOK, Moves, ForBox, InRequest, Reserved
<1> QED BY <1>4, <1>5, <1>6, <1>7 DEF Control

(* Steps that leave the threads where they are. *)
LEMMA QuietControl ==
  ASSUME Control, UNCHANGED <<installed, heapLock, mapLock, threadVars>>,
         map' = map \/ installed = "btree"
  PROVE  Control'
<1>1. ControlOK /\ HeapLockOK /\ MapLockOK /\ HandOverOK
  BY DEF Control
<1>2. UNCHANGED <<pc, job, layout, pages>>
  BY DEF threadVars
<1>3. ControlOK'
  BY <1>1, <1>2 DEF ControlOK
<1>4. HeapLockOK'
  BY <1>1, <1>2 DEF HeapLockOK, Stuck
<1>5. MapLockOK'
  BY <1>1, <1>2 DEF MapLockOK, ForNode, Stuck
<1>6. HandOverOK'
  BY <1>1, <1>2 DEF HandOverOK, ForBox, Reserved
<1> QED BY <1>3, <1>4, <1>5, <1>6 DEF Control

(* The heap is locked. *)
LEMMA LockHeapControl ==
  ASSUME Control, NEW t \in Threads, LockHeap(t)
  PROVE  Control'
<1>1. /\ pc[t] = "heap_lock" /\ Goto(t, "heap")
      /\ heapLock = Nobody /\ heapLock' = t
      /\ UNCHANGED <<map, installed, mapLock, job, layout, pages>>
  BY DEF LockHeap, vars
<1>2. installed' \in {"bootstrap", "btree"} /\ "heap" \in PCs
  BY <1>1 DEF Control, ControlOK, PCs
<1>3. Moves(t) /\ pc'[t] = "heap" /\ job'[t] = job[t]
  BY <1>1, <1>2, GotoMoves DEF Control
<1>4. ControlOK /\ HeapLockOK /\ MapLockOK /\ HandOverOK /\ ControlOK'
  BY <1>3 DEF Control, Moves
<1>5. HeapLockOK'
  BY <1>1, <1>3, <1>4, NobodyAssumption DEF HeapLockOK, Moves, WithHeap, Stuck
<1>6. MapLockOK'
  BY <1>1, <1>3, <1>4, NobodyAssumption DEF MapLockOK, Moves, WithMap, ForNode, InRequest, Stuck
<1>7. HandOverOK'
  BY SMTT(30), <1>1, <1>3, <1>4, NobodyAssumption DEF HandOverOK, Moves, ForBox, InRequest, Reserved
<1> QED BY <1>4, <1>5, <1>6, <1>7 DEF Control

(* A request returns, and unlocks the heap. *)
LEMMA ReturnControl ==
  ASSUME Control, NEW t \in Threads, NEW ok \in BOOLEAN, HeapReturns(t, ok),
         pc[t] \in {"heap", "grow", "cas"},
         UNCHANGED <<map, installed, mapLock, job, layout, pages>>
  PROVE  Control'
<1>1. /\ Moves(t) /\ heapLock' = Nobody
      /\ job[t] = "call" => pc'[t] = "idle"
      /\ job[t] = "node" => pc'[t] = "insert"
      /\ job[t] = "box" => pc'[t] = "install"
  BY ReturnMoves DEF Control
<1>2. ControlOK /\ HeapLockOK /\ MapLockOK /\ HandOverOK /\ ControlOK'
  BY <1>1 DEF Control, Moves
<1>3. job[t] \in {"call", "node", "box"} /\ heapLock = t
  BY <1>2 DEF ControlOK, HeapLockOK, WithHeap
<1>4. HeapLockOK'
  BY <1>1, <1>2, <1>3, NobodyAssumption DEF HeapLockOK, Moves, WithHeap, Stuck
<1>5. MapLockOK'
  BY <1>1, <1>2, <1>3, NobodyAssumption
  DEF MapLockOK, Moves, WithMap, ForNode, InRequest, Stuck
<1>6. HandOverOK'
  BY SMTT(30), <1>1, <1>2, <1>3 DEF HandOverOK, Moves, ForBox, InRequest, Reserved
<1> QED BY <1>2, <1>4, <1>5, <1>6 DEF Control

(* A request goes on to the next label. *)
LEMMA GrowControl ==
  ASSUME Control, NEW t \in Threads,
         \/ pc[t] = "heap" /\ Goto(t, "grow")
         \/ pc[t] = "grow" /\ installed = "bootstrap" /\ Goto(t, "cas"),
         UNCHANGED <<map, installed, heapLock, mapLock, job, layout, pages>>
  PROVE  Control'
<1>1. installed' \in {"bootstrap", "btree"} /\ {"grow", "cas"} \subseteq PCs
  BY DEF Control, ControlOK, PCs
<1>2. Moves(t) /\ job'[t] = job[t]
      /\ (pc'[t] = "grow" \/ (pc'[t] = "cas" /\ installed = "bootstrap"))
  BY <1>1, GotoMoves DEF Control
<1>3. ControlOK /\ HeapLockOK /\ MapLockOK /\ HandOverOK /\ ControlOK'
  BY <1>2 DEF Control, Moves
<1>4. HeapLockOK'
  BY <1>2, <1>3 DEF HeapLockOK, Moves, WithHeap, Stuck
<1>5. MapLockOK'
  BY <1>2, <1>3 DEF MapLockOK, Moves, WithMap, ForNode, InRequest, Stuck
<1>6. HandOverOK'
  BY SMTT(30), <1>2, <1>3 DEF HandOverOK, Moves, ForBox, InRequest, Reserved
<1> QED BY <1>3, <1>4, <1>5, <1>6 DEF Control

(* The map is locked to grow the heap, which neither a node nor the Box asked for. *)
LEMMA GrowLockMapControl ==
  ASSUME Control, NEW t \in Threads, GrowLockMap(t)
  PROVE  Control'
<1>1. /\ pc[t] = "grow" /\ Goto(t, "grow_insert") /\ installed = "btree"
      /\ mapLock = Nobody /\ mapLock' = t
      /\ UNCHANGED <<map, installed, heapLock, job, layout, pages>>
  BY DEF GrowLockMap, vars
<1>2. installed' \in {"bootstrap", "btree"} /\ "grow_insert" \in PCs
  BY <1>1 DEF Control, ControlOK, PCs
<1>3. job[t] = "call"
  BY <1>1, NobodyAssumption DEF Control, ControlOK, MapLockOK, HandOverOK, ForNode, ForBox, InRequest
<1>4. Moves(t) /\ pc'[t] = "grow_insert" /\ job'[t] = job[t]
  BY <1>1, <1>2, GotoMoves DEF Control
<1>5. ControlOK /\ HeapLockOK /\ MapLockOK /\ HandOverOK /\ ControlOK'
  BY <1>4 DEF Control, Moves
<1>6. HeapLockOK'
  BY <1>1, <1>3, <1>4, <1>5, NobodyAssumption DEF HeapLockOK, Moves, WithHeap, Stuck
<1>7. MapLockOK'
  BY <1>1, <1>3, <1>4, <1>5, NobodyAssumption DEF MapLockOK, Moves, WithMap, ForNode, InRequest, Stuck
<1>8. HandOverOK'
  BY <1>1, <1>3, <1>4, <1>5, NobodyAssumption DEF HandOverOK, Moves, ForBox, InRequest, Reserved
<1> QED BY <1>5, <1>6, <1>7, <1>8 DEF Control

(* map_page fails: the map's mutex is free again, the heap's is not. *)
LEMMA MapPageControl ==
  ASSUME Control, NEW t \in Threads, Goto(t, "map_page"),
         \/ pc[t] = "cas" /\ UNCHANGED <<map, mapLock>>
         \/ pc[t] = "grow_insert" /\ mapLock' = Nobody,
         UNCHANGED <<installed, heapLock, job, layout, pages>>
  PROVE  Control'
<1>1. ControlOK /\ HeapLockOK /\ MapLockOK /\ HandOverOK
  BY DEF Control
<1>2. installed' \in {"bootstrap", "btree"} /\ "map_page" \in PCs
  BY <1>1 DEF ControlOK, PCs
<1>3. Moves(t) /\ pc'[t] = "map_page" /\ job'[t] = job[t]
  BY <1>1, <1>2, GotoMoves
<1>4. ControlOK'
  BY <1>3 DEF Moves
<1>5. heapLock = t
  BY <1>1 DEF HeapLockOK, WithHeap
<1>6. \/ pc[t] = "cas" /\ mapLock # t /\ UNCHANGED <<map, mapLock>>
      \/ pc[t] = "grow_insert" /\ mapLock = t /\ mapLock' = Nobody /\ installed = "btree"
  BY <1>1, NobodyAssumption DEF MapLockOK, HandOverOK, WithMap
<1>7. HeapLockOK'
  BY <1>1, <1>3, <1>5 DEF HeapLockOK, Moves, WithHeap, Stuck
<1>8. MapLockOK'
  BY SMTT(30), <1>1, <1>3, <1>6, NobodyAssumption
  DEF MapLockOK, Moves, WithMap, ForNode, InRequest, Stuck
<1>9. HandOverOK'
  BY SMTT(30), <1>1, <1>3, <1>6 DEF HandOverOK, Moves, ForBox, InRequest, Reserved
<1> QED BY <1>4, <1>7, <1>8, <1>9 DEF Control

(* The heap's growth is entered, refused, or needs a node. *)
LEMMA GrowInsertControl ==
  ASSUME Control, NEW t \in Threads, GrowInsert(t)
  PROVE  Control'
<1>1. ControlOK /\ HeapLockOK /\ MapLockOK /\ HandOverOK
  BY DEF Control
<1>2. /\ pc[t] = "grow_insert" /\ job[t] = "call" /\ UNCHANGED <<installed, pages>>
      /\ heapLock = t /\ mapLock = t /\ installed = "btree"
  BY <1>1, NobodyAssumption DEF GrowInsert, HeapLockOK, MapLockOK, WithHeap, WithMap
<1>3. ASSUME NEW ok \in BOOLEAN, HeapReturns(t, ok), mapLock' = Nobody, UNCHANGED <<job, layout>>
      PROVE  Control'
  <2>1. Moves(t) /\ heapLock' = Nobody /\ pc'[t] = "idle"
    BY <1>1, <1>2, <1>3, ReturnMoves
  <2>2. ControlOK'
    BY <2>1 DEF Moves
  <2>3. HeapLockOK'
    BY <1>1, <1>2, <2>1, NobodyAssumption DEF HeapLockOK, Moves, WithHeap, Stuck
  <2>4. MapLockOK'
    BY <1>1, <1>2, <1>3, <2>1, NobodyAssumption
    DEF MapLockOK, Moves, WithMap, ForNode, InRequest, Stuck
  <2>5. HandOverOK'
    BY <1>1, <1>2, <2>1 DEF HandOverOK, Moves, ForBox, InRequest
  <2> QED BY <2>2, <2>3, <2>4, <2>5 DEF Control
<1>4. ASSUME Request(t, "node", NodeLayout), UNCHANGED <<heapLock, mapLock>>
      PROVE  Control'
  <2>1. Moves(t) /\ pc'[t] = "heap_lock" /\ job'[t] = "node"
    BY <1>1, <1>2, <1>4, RequestMoves
  <2>2. ControlOK'
    BY <2>1 DEF Moves
  <2>3. HeapLockOK'
    BY <1>1, <1>2, <1>4, <2>1 DEF HeapLockOK, Moves, WithHeap, Stuck
  <2>4. MapLockOK'
    BY <1>1, <1>2, <1>4, <2>1 DEF MapLockOK, Moves, WithMap, ForNode, InRequest, Stuck
  <2>5. HandOverOK'
    BY <1>1, <1>2, <2>1 DEF HandOverOK, Moves, ForBox, InRequest
  <2> QED BY <2>2, <2>3, <2>4, <2>5 DEF Control
<1>5. ASSUME Goto(t, "map_page"), mapLock' = Nobody, UNCHANGED <<heapLock, job, layout>>
      PROVE  Control'
  BY <1>2, <1>5, MapPageControl
<1> QED BY <1>3, <1>4, <1>5 DEF GrowInsert, HeapGrown, HeapNotGrown

(* The map is locked for an OwnedPages. *)
LEMMA PagesLockMapControl ==
  ASSUME Control, NEW t \in Threads, PagesLockMap(t)
  PROVE  Control'
<1>1. PICK h \in Handles, n \in 1 .. MaxPages : pages' = [pages EXCEPT ![t] = [h |-> h, n |-> n]]
  BY DEF PagesLockMap
<1>2. /\ pc[t] = "idle" /\ Goto(t, "choose") /\ installed = "btree"
      /\ mapLock = Nobody /\ mapLock' = t
      /\ UNCHANGED <<map, installed, heapLock, job, layout>>
  BY DEF PagesLockMap, vars
<1>3. /\ Moves(t) /\ pc'[t] = "choose" /\ job'[t] = job[t]
      /\ pages'[t].h \in Handles /\ pages'[t].n \in 1 .. MaxPages
  BY SMTT(30), <1>1, <1>2, RangeAssumption DEF Control, ControlOK, Moves, Goto, PCs
<1>4. ControlOK /\ HeapLockOK /\ MapLockOK /\ HandOverOK /\ ControlOK'
  BY <1>3 DEF Control, Moves
<1>5. HeapLockOK'
  BY <1>2, <1>3, <1>4, NobodyAssumption DEF HeapLockOK, Moves, WithHeap, Stuck
<1>6. MapLockOK'
  BY <1>2, <1>3, <1>4, NobodyAssumption DEF MapLockOK, Moves, WithMap, ForNode, InRequest, Stuck
<1>7. HandOverOK'
  BY SMTT(30), <1>2, <1>3, <1>4, NobodyAssumption DEF HandOverOK, Moves, ForBox, InRequest, Reserved
<1> QED BY <1>4, <1>5, <1>6, <1>7 DEF Control

(* A place is chosen, and perhaps a node is needed. *)
LEMMA PagesChooseControl ==
  ASSUME Control, NEW t \in Threads, PagesChoose(t)
  PROVE  Control'
<1>1. /\ pc[t] = "choose"
      /\ UNCHANGED <<map, installed, heapLock, mapLock, pages>>
  BY DEF PagesChoose, allocate_panics, vars
<1>2. ControlOK /\ HeapLockOK /\ MapLockOK /\ HandOverOK
  BY DEF Control
<1>3. CASE UNCHANGED <<pc, job, layout>>
  BY <1>1, <1>3, QuietControl DEF threadVars
<1>4. ASSUME Moves(t), pc'[t] = "insert" \/ (pc'[t] = "heap_lock" /\ job'[t] = "node")
      PROVE  Control'
  <2>1. ControlOK'
    BY <1>4 DEF Moves
  <2>2. HeapLockOK'
    BY <1>1, <1>2, <1>4 DEF HeapLockOK, Moves, WithHeap, Stuck
  <2>3. MapLockOK'
    BY <1>1, <1>2, <1>4 DEF MapLockOK, Moves, WithMap, ForNode, InRequest, Stuck
  <2>4. HandOverOK'
    BY SMTT(30), <1>1, <1>2, <1>4 DEF HandOverOK, Moves, ForBox, InRequest, Reserved
  <2> QED BY <2>1, <2>2, <2>3, <2>4 DEF Control
<1>5. CASE Goto(t, "insert") /\ UNCHANGED <<job, layout>>
  <2>1. installed' \in {"bootstrap", "btree"} /\ "insert" \in PCs
    BY <1>1, <1>2 DEF ControlOK, PCs
  <2> QED BY <1>1, <1>2, <1>4, <1>5, <2>1, GotoMoves
<1>6. CASE Request(t, "node", NodeLayout)
  BY <1>1, <1>2, <1>4, <1>6, RequestMoves
<1> QED BY <1>3, <1>5, <1>6 DEF PagesChoose

(* The pages are entered. *)
LEMMA PagesInsertControl ==
  ASSUME Control, NEW t \in Threads, PagesInsert(t)
  PROVE  Control'
<1>1. /\ pc[t] = "insert" /\ Goto(t, "idle") /\ mapLock' = Nobody
      /\ pages' = [pages EXCEPT ![t] = NoPages]
      /\ UNCHANGED <<installed, heapLock, job, layout>>
  BY DEF PagesInsert
<1>2. Moves(t) /\ pc'[t] = "idle" /\ job'[t] = job[t]
  BY SMTT(30), <1>1, RangeAssumption DEF Control, ControlOK, Moves, Goto, PCs, NoPages
<1>3. mapLock = t /\ installed = "btree"
  BY <1>1, NobodyAssumption DEF Control, MapLockOK, WithMap
<1>4. ControlOK /\ HeapLockOK /\ MapLockOK /\ HandOverOK /\ ControlOK'
  BY <1>2 DEF Control, Moves
<1>5. HeapLockOK'
  BY <1>1, <1>3, <1>2, <1>4, NobodyAssumption DEF HeapLockOK, Moves, WithHeap, Stuck
<1>6. MapLockOK'
  BY <1>1, <1>3, <1>2, <1>4, NobodyAssumption DEF MapLockOK, Moves, WithMap, ForNode, InRequest, Stuck
<1>7. HandOverOK'
  BY <1>1, <1>3, <1>2, <1>4, NobodyAssumption DEF HandOverOK, Moves, ForBox, InRequest, Reserved
<1> QED BY <1>4, <1>5, <1>6, <1>7 DEF Control

(* kmain builds the B-tree. *)
LEMMA BuildBtreeControl ==
  ASSUME Control, NEW t \in Threads, BuildBtree(t)
  PROVE  Control'
<1>1. /\ pc[t] = "idle" /\ installed = "bootstrap" /\ map = {}
      /\ map' = Reserved /\ Request(t, "box", NodeLayout)
      /\ UNCHANGED <<installed, start, heapLock, mapLock, pages>>
  BY DEF BuildBtree
<1>2. map' # {} /\ Reserved' = Reserved
  BY <1>1, ReservedKeys DEF Reserved
<1>3. Moves(t) /\ pc'[t] = "heap_lock" /\ job'[t] = "box"
  BY <1>1, RequestMoves DEF Control
<1>4. ControlOK /\ HeapLockOK /\ MapLockOK /\ HandOverOK /\ ControlOK'
  BY <1>3 DEF Control, Moves
<1>5. HeapLockOK'
  BY <1>1, <1>2, <1>3, <1>4, NobodyAssumption DEF HeapLockOK, Moves, WithHeap, Stuck
<1>6. MapLockOK'
  BY SMTT(30), <1>1, <1>2, <1>3, <1>4, NobodyAssumption DEF MapLockOK, Moves, WithMap, ForNode, InRequest, Stuck
<1>7. HandOverOK'
  BY SMTT(30), <1>1, <1>2, <1>3, <1>4, NobodyAssumption DEF HandOverOK, Moves, ForBox, InRequest, Reserved
<1> QED BY <1>4, <1>5, <1>6, <1>7 DEF Control

(* kmain installs it. *)
LEMMA InstallControl ==
  ASSUME Control, NEW t \in Threads, Install(t)
  PROVE  Control'
<1>1. /\ pc[t] = "install" /\ Goto(t, "idle") /\ installed' = "btree"
      /\ \A u \in Threads : pc[u] # "cas"
      /\ job' = [job EXCEPT ![t] = "call"]
      /\ UNCHANGED <<map, heapLock, mapLock, layout, pages>>
  BY DEF Install, vars
<1>2. Moves(t) /\ pc'[t] = "idle" /\ job'[t] = "call"
  BY <1>1 DEF Control, ControlOK, Moves, Goto, PCs
<1>3. ControlOK /\ HeapLockOK /\ MapLockOK /\ HandOverOK /\ ControlOK'
  BY <1>2 DEF Control, Moves
<1>4. HeapLockOK'
  BY <1>1, <1>2, <1>3, NobodyAssumption DEF HeapLockOK, Moves, WithHeap, Stuck
<1>5. MapLockOK'
  BY SMTT(30), <1>1, <1>2, <1>3, NobodyAssumption DEF MapLockOK, Moves, WithMap, ForNode, InRequest, Stuck
<1>6. HandOverOK'
  BY SMTT(30), <1>1, <1>2, <1>3, NobodyAssumption DEF HandOverOK, Moves, ForBox, InRequest, Reserved
<1> QED BY <1>3, <1>4, <1>5, <1>6 DEF Control

LEMMA ControlStep ==
  ASSUME Control, NEW t \in Threads, Step(t)
  PROVE  Control'
<1>1. CASE HeapNew(t)
  BY <1>1, QuietControl DEF HeapNew, threadVars
<1>2. CASE HeapFits(t)
  BY <1>2, ReturnControl DEF HeapFits
<1>3. CASE HeapGrows(t)
  BY <1>3, ReturnControl, GrowControl DEF HeapGrows
<1>4. CASE GrowLoad(t)
  BY <1>4, ReturnControl, GrowControl DEF GrowLoad, HeapNotGrown
<1>5. CASE GrowExchange(t)
  BY <1>5, ReturnControl, MapPageControl DEF GrowExchange, HeapGrown, HeapNotGrown
<1>6. CASE PagesBootstrap(t)
  BY <1>6, QuietControl DEF PagesBootstrap
<1>7. CASE DropPages(t)
  BY <1>7, QuietControl DEF DropPages
<1> QED
  BY <1>1, <1>2, <1>3, <1>4, <1>5, <1>6, <1>7, HeapCallControl, LockHeapControl,
     GrowLockMapControl, GrowInsertControl, PagesLockMapControl, PagesChooseControl,
     PagesInsertControl, BuildBtreeControl, InstallControl
  DEF Step, Call

LEMMA ControlInit == VMInit => Control
<1> SUFFICES ASSUME VMInit PROVE Control
  OBVIOUS
<1>1. /\ pc = [t \in Threads |-> "idle"] /\ job = [t \in Threads |-> "call"]
      /\ layout = [t \in Threads |-> NodeLayout]
      /\ pages = [t \in Threads |-> [h |-> Nobody, n |-> 0]]
      /\ map = {} /\ installed = "bootstrap" /\ heapLock = Nobody /\ mapLock = Nobody
  BY DEF VMInit, Init, NoPages
<1>2. ControlOK
  BY <1>1, RangeAssumption DEF ControlOK, PCs
<1>3. HeapLockOK
  BY <1>1, NobodyAssumption DEF HeapLockOK, WithHeap
<1>4. MapLockOK
  BY <1>1, NobodyAssumption DEF MapLockOK, WithMap, ForNode, InRequest
<1>5. HandOverOK
  BY <1>1 DEF HandOverOK, ForBox, InRequest
<1> QED BY <1>2, <1>3, <1>4, <1>5 DEF Control

-----------------------------------------------------------------------------
(* Rounding up. *)
LEMMA RoundUp ==
  ASSUME NEW a \in Nat, NEW n \in Nat \ {0}
  PROVE  /\ CeilDiv(a, n) \in Nat
         /\ CeilDiv(a, n) * n \in Nat
         /\ CeilDiv(a, n) * n >= a
         /\ a > 0 => CeilDiv(a, n) > 0
<1> DEFINE x == a + n - 1
           q == x \div n
<1>1. x \in Nat
  OBVIOUS
<1> HIDE DEF x
<1>2. q \in Nat /\ x % n \in 0 .. n - 1 /\ x = q * n + (x % n)
  BY <1>1
<1> HIDE DEF q
<1>3. q * n \in Nat
  BY <1>2
<1>4. q * n >= a
  BY <1>2, <1>3 DEF x
<1>5. a > 0 => q > 0
  <2>1. q = 0 => q * n = 0
    BY <1>2
  <2> QED BY <1>2, <1>4, <2>1
<1> QED BY <1>2, <1>3, <1>4, <1>5 DEF x, q, CeilDiv

(* A block ends behind the watermark. *)
LEMMA BlockEndNat ==
  ASSUME ControlOK, watermark \in Nat, NEW t \in Threads
  PROVE  BlockEnd(t) \in Nat
<1>1. layout[t].align \in Nat \ {0} /\ layout[t].size \in Nat
  BY CellsAssumption DEF ControlOK
<1>2. AlignUp(watermark, layout[t].align) \in Nat
  BY <1>1, RoundUp DEF AlignUp, CeilDiv
<1> QED BY <1>1, <1>2 DEF BlockEnd

(* A heap that has to grow grows by at least a page, and enough. *)
LEMMA GrowthFits ==
  ASSUME ControlOK, HeapOK, NEW t \in Threads, heap \in [base : Nat, len : Nat],
         BlockEnd(t) > HeapEnd * PageCells
  PROVE  /\ Increment(t) \in Nat /\ Increment(t) > 0
         /\ BlockEnd(t) <= (HeapEnd + Increment(t)) * PageCells
<1> DEFINE e == HeapEnd
           a == BlockEnd(t) - e * PageCells
           i == CeilDiv(a, PageCells)
<1>1. PageCells \in Nat \ {0} /\ BlockEnd(t) \in Nat /\ e \in Nat
  BY SMTT(30), CellsAssumption, BlockEndNat DEF HeapOK, HeapEnd
<1> HIDE DEF e
<1>2. e * PageCells \in Nat
  BY SMTT(30), <1>1
<1>3. a \in Nat /\ a > 0
  BY <1>1, <1>2 DEF e
<1> HIDE DEF a
<1>4. i \in Nat /\ i * PageCells \in Nat /\ i * PageCells >= a /\ i > 0
  BY <1>1, <1>3, RoundUp
<1>5. Increment(t) = i
  BY DEF Increment, a, e
<1> HIDE DEF i
<1>6. (e + i) * PageCells = e * PageCells + i * PageCells
  BY <1>1, <1>4
<1>7. BlockEnd(t) = a + e * PageCells
  BY <1>1, <1>2 DEF a
<1> QED BY <1>1, <1>2, <1>3, <1>4, <1>5, <1>6, <1>7 DEF e

Growing == {"grow", "cas", "grow_insert"}

(* A step that leaves the heap as it is. *)
LEMMA SameHeap ==
  ASSUME HeapOK, NEW t \in Threads, UNCHANGED heapVars,
         start' \in Nat, start <= start',
         \A u \in Threads \ {t} : pc'[u] = pc[u] /\ layout'[u] = layout[u],
         pc'[t] \in Growing => layout'[t] = layout[t] /\ BlockEnd(t) > HeapEnd * PageCells,
         heap.base = -1 => pc'[t] \in {"idle", "heap_lock"} /\ installed' = installed,
         installed' = "bootstrap" => installed = "bootstrap"
  PROVE  HeapOK'
<1>1. UNCHANGED <<heap, watermark, HeapEnd>> /\ RegionStart <= start'
  <2>1. UNCHANGED <<heap, watermark, HeapEnd>>
    BY DEF heapVars, HeapEnd
  <2>2. RegionStart \in Nat
    BY PlacesAssumption, RangeAssumption
  <2> QED BY SMTT(30), <2>1, <2>2 DEF HeapOK
<1>2. \A u \in Threads : pc'[u] \in Growing => BlockEnd(u)' > HeapEnd' * PageCells
  BY <1>1 DEF HeapOK, BlockEnd, Growing
<1>3. CASE heap = [base |-> -1, len |-> 0]
  BY SMTT(30), <1>1, <1>2, <1>3 DEF HeapOK, Growing
<1>4. CASE heap \in [base : Nat, len : Nat]
  <2>1. heap # [base |-> -1, len |-> 0]
    BY SMTT(30), <1>4
  <2>2. HeapEnd \in Nat
    BY SMTT(30), <1>4 DEF HeapEnd
  <2> QED BY SMTT(30), <1>1, <1>2, <1>4, <2>1, <2>2 DEF HeapOK, Growing
<1> QED BY <1>3, <1>4 DEF HeapOK

(* The holder of the heap's mutex takes a block. *)
LEMMA TakeBlock ==
  ASSUME Control, HeapOK, NEW t \in Threads, pc[t] \in WithHeap,
         NEW n \in Nat, heap' = [heap EXCEPT !.len = @ + n],
         watermark' = BlockEnd(t), BlockEnd(t) <= (HeapEnd + n) * PageCells,
         start' \in Nat, start <= start',
         installed = "bootstrap" => HeapEnd + n <= start',
         \A u \in Threads \ {t} : pc'[u] = pc[u] /\ layout'[u] = layout[u],
         pc'[t] \notin Growing, UNCHANGED installed
  PROVE  HeapOK'
<1>1. heap \in [base : Nat, len : Nat] /\ RegionStart <= heap.base
  BY DEF HeapOK, WithHeap
<1>2. /\ heap' \in [base : Nat, len : Nat] /\ heap'.base = heap.base
      /\ HeapEnd' = HeapEnd + n
  BY SMTT(30), <1>1 DEF HeapEnd
<1>3. watermark' \in Nat
  BY BlockEndNat DEF Control, HeapOK
<1>4. \A u \in Threads : pc'[u] \notin Growing
  BY DEF Control, HeapLockOK, WithHeap, Growing
<1>5. RegionStart <= start'
  BY PlacesAssumption, RangeAssumption DEF HeapOK
<1> QED BY <1>1, <1>2, <1>3, <1>4, <1>5 DEF HeapOK, Growing

(* A heap that does not exist yet has no users. *)
LEMMA HeapInUse ==
  ASSUME HeapOK, NEW t \in Threads, pc[t] \notin {"idle", "heap_lock"}
  PROVE  heap.base # -1 /\ heap \in [base : Nat, len : Nat]
<1>1. heap \in [base : Nat, len : Nat]
  BY DEF HeapOK
<1> QED BY SMTT(30), <1>1

(* A request that returns leaves the other threads where they are. *)
LEMMA ReturnLeaves ==
  ASSUME ControlOK, NEW t \in Threads, NEW ok \in BOOLEAN, HeapReturns(t, ok),
         UNCHANGED <<installed, job, layout, pages>>
  PROVE  /\ \A u \in Threads \ {t} : pc'[u] = pc[u] /\ layout'[u] = layout[u]
         /\ pc'[t] \notin Growing
<1>1. job[t] \in {"call", "node", "box"}
  BY DEF ControlOK
<1> QED BY <1>1, ReturnMoves DEF Moves, Growing

LEMMA HeapStep ==
  ASSUME Control, HeapOK, NEW t \in Threads, Step(t)
  PROVE  HeapOK'
<1>1. ControlOK /\ start \in Nat
  BY DEF Control, HeapOK
<1>2. ASSUME Goto(t, pc'[t])
      PROVE  \A u \in Threads \ {t} : pc'[u] = pc[u]
  BY <1>1, <1>2 DEF Goto, ControlOK
<1>3. ASSUME NEW what, NEW l, Request(t, what, l)
      PROVE  /\ \A u \in Threads \ {t} : pc'[u] = pc[u] /\ layout'[u] = layout[u]
             /\ pc'[t] = "heap_lock" /\ pc'[t] \notin Growing
  BY <1>1, <1>3 DEF Request, Goto, ControlOK, Growing
<1>4. ASSUME NEW l, Goto(t, l), UNCHANGED layout
      PROVE  /\ \A u \in Threads \ {t} : pc'[u] = pc[u] /\ layout'[u] = layout[u]
             /\ pc'[t] = l
  BY <1>1, <1>4 DEF Goto, ControlOK
<1>a. ASSUME NEW ok \in BOOLEAN, HeapReturns(t, ok), UNCHANGED <<installed, job, layout, pages>>
      PROVE  /\ \A u \in Threads \ {t} : pc'[u] = pc[u] /\ layout'[u] = layout[u]
             /\ pc'[t] \notin Growing
  BY <1>1, <1>a, ReturnLeaves
<1>b. ASSUME Goto(t, "map_page"), UNCHANGED layout
      PROVE  /\ \A u \in Threads \ {t} : pc'[u] = pc[u] /\ layout'[u] = layout[u]
             /\ pc'[t] = "map_page" /\ pc'[t] \notin Growing
  BY <1>4, <1>b DEF Growing
<1>5. CASE HeapCall(t)
  <2>1. UNCHANGED <<installed, start, heapVars>>
    BY <1>5 DEF HeapCall
  <2>2. PICK l \in Layouts : Request(t, "call", l)
    BY <1>5 DEF HeapCall
  <2>3. /\ \A u \in Threads \ {t} : pc'[u] = pc[u] /\ layout'[u] = layout[u]
        /\ pc'[t] = "heap_lock" /\ pc'[t] \notin Growing
    BY <1>3, <2>2
  <2>4. start' \in Nat /\ start <= start'
    BY <1>1, <2>1
  <2> QED BY <2>1, <2>3, <2>4, SameHeap
<1>6. CASE HeapNew(t)
  <2>1. UNCHANGED <<installed, start, pc, layout>> /\ heap.base = -1
    BY <1>6 DEF HeapNew, threadVars
  <2>2. CASE UNCHANGED heapVars
    BY SMTT(30), <1>1, <2>1, <2>2, SameHeap DEF HeapOK, Growing
  <2>3. CASE heap' = [base |-> start, len |-> 0] /\ watermark' = start * PageCells
    <3>1. /\ heap' \in [base : Nat, len : Nat] /\ heap'.base = start
          /\ HeapEnd' = start /\ watermark' \in Nat
      BY SMTT(30), <1>1, <2>3, CellsAssumption DEF HeapEnd
    <3>2. \A u \in Threads : pc'[u] \notin Growing
      BY SMTT(30), <2>1 DEF HeapOK, Growing
    <3> QED BY SMTT(30), <1>1, <2>1, <2>3, <3>1, <3>2 DEF HeapOK, Growing
  <2> QED BY <1>6, <2>2, <2>3 DEF HeapNew
<1>7. CASE LockHeap(t)
  <2>1. UNCHANGED <<installed, start, heapVars, layout>> /\ heap.base # -1 /\ Goto(t, "heap")
    BY <1>7 DEF LockHeap
  <2>2. "heap" \notin Growing
    BY DEF Growing
  <2> QED BY <1>1, <1>4, <2>1, <2>2, SameHeap
<1>8. CASE HeapFits(t)
  <2>1. /\ pc[t] \in WithHeap /\ BlockEnd(t) <= HeapEnd * PageCells
        /\ watermark' = BlockEnd(t) /\ HeapReturns(t, TRUE)
        /\ UNCHANGED <<installed, start, heap, job, layout, pages>>
    BY <1>8 DEF HeapFits, WithHeap
  <2>2. heap \in [base : Nat, len : Nat]
    BY <2>1, HeapInUse DEF WithHeap
  <2>3. heap' = [heap EXCEPT !.len = @ + 0] /\ HeapEnd + 0 = HeapEnd
    BY <2>1, <2>2 DEF HeapEnd
  <2>4. installed = "bootstrap" => HeapEnd + 0 <= start'
    BY SMTT(30), <2>1, <2>2, <2>3 DEF HeapOK
  <2>5. /\ \A u \in Threads \ {t} : pc'[u] = pc[u] /\ layout'[u] = layout[u]
        /\ pc'[t] \notin Growing
    BY <1>a, <2>1
  <2>6. start' \in Nat /\ start <= start' /\ BlockEnd(t) <= (HeapEnd + 0) * PageCells
    BY <1>1, <2>1, <2>3
  <2> QED BY <2>1, <2>3, <2>4, <2>5, <2>6, TakeBlock
<1>9. CASE HeapGrows(t)
  <2>1. /\ pc[t] = "heap" /\ BlockEnd(t) > HeapEnd * PageCells
        /\ UNCHANGED <<installed, start, heapVars, job, layout, pages>>
        /\ Goto(t, "grow") \/ HeapReturns(t, FALSE)
    BY <1>9 DEF HeapGrows
  <2>2. heap.base # -1
    BY <2>1, HeapInUse
  <2>3. /\ \A u \in Threads \ {t} : pc'[u] = pc[u] /\ layout'[u] = layout[u]
        /\ pc'[t] \in Growing => layout'[t] = layout[t]
    BY <1>4, <1>a, <2>1
  <2>4. start' \in Nat /\ start <= start'
    BY <1>1, <2>1
  <2> QED BY <2>1, <2>2, <2>3, <2>4, SameHeap
<1>10. CASE GrowLoad(t)
  <2>1. /\ pc[t] = "grow"
        /\ UNCHANGED <<installed, start, heapVars, job, layout, pages>>
        /\ Goto(t, "cas") \/ HeapReturns(t, FALSE)
    BY <1>10 DEF GrowLoad, HeapNotGrown
  <2>2. heap.base # -1 /\ BlockEnd(t) > HeapEnd * PageCells
    BY <2>1, HeapInUse DEF HeapOK
  <2>3. /\ \A u \in Threads \ {t} : pc'[u] = pc[u] /\ layout'[u] = layout[u]
        /\ pc'[t] \in Growing => layout'[t] = layout[t]
    BY <1>4, <1>a, <2>1
  <2>4. start' \in Nat /\ start <= start'
    BY <1>1, <2>1
  <2> QED BY <2>1, <2>2, <2>3, <2>4, SameHeap
<1>11. CASE GrowExchange(t)
  <2>1. pc[t] = "cas" /\ UNCHANGED <<installed, job, layout, pages>>
    BY <1>11 DEF GrowExchange
  <2>2. /\ heap.base # -1 /\ heap \in [base : Nat, len : Nat]
        /\ BlockEnd(t) > HeapEnd * PageCells /\ pc[t] \in WithHeap
    BY <2>1, HeapInUse DEF HeapOK, WithHeap
  <2>3. CASE UNCHANGED start /\ HeapNotGrown(t)
    <3>1. UNCHANGED heapVars /\ HeapReturns(t, FALSE)
      BY <2>3 DEF HeapNotGrown
    <3>2. /\ \A u \in Threads \ {t} : pc'[u] = pc[u] /\ layout'[u] = layout[u]
          /\ pc'[t] \notin Growing
      BY <1>a, <2>1, <2>3, <3>1
    <3>3. start' \in Nat /\ start <= start'
      BY <1>1, <2>1, <2>3
    <3> QED BY <2>1, <2>2, <3>1, <3>2, <3>3, SameHeap
  <2>4. CASE start = HeapEnd /\ start' = start + Increment(t) /\ HeapGrown(t)
    <3>1. /\ Increment(t) \in Nat
          /\ BlockEnd(t) <= (HeapEnd + Increment(t)) * PageCells
      BY <1>1, <2>2, GrowthFits
    <3>2. start' \in Nat /\ start <= start' /\ HeapEnd + Increment(t) <= start'
      BY <1>1, <2>4, <3>1
    <3>3. CASE /\ heap' = [heap EXCEPT !.len = @ + Increment(t)]
               /\ watermark' = BlockEnd(t) /\ HeapReturns(t, TRUE)
      <4>1. /\ \A u \in Threads \ {t} : pc'[u] = pc[u] /\ layout'[u] = layout[u]
            /\ pc'[t] \notin Growing
        BY <1>a, <2>1, <3>3
      <4> QED BY <2>1, <2>2, <3>1, <3>2, <3>3, <4>1, TakeBlock
    <3>4. CASE Goto(t, "map_page") /\ UNCHANGED heapVars
      BY <1>b, <2>1, <2>2, <3>2, <3>4, SameHeap
    <3> QED BY <2>4, <3>3, <3>4 DEF HeapGrown
  <2> QED BY <1>11, <2>3, <2>4 DEF GrowExchange
<1>12. CASE GrowLockMap(t)
  <2>1. /\ pc[t] = "grow" /\ Goto(t, "grow_insert")
        /\ UNCHANGED <<installed, start, heapVars, layout>>
    BY <1>12 DEF GrowLockMap
  <2>2. heap.base # -1 /\ BlockEnd(t) > HeapEnd * PageCells
    BY <2>1, HeapInUse DEF HeapOK
  <2> QED BY <1>1, <1>4, <2>1, <2>2, SameHeap
<1>13. CASE GrowInsert(t)
  <2>1. pc[t] = "grow_insert" /\ UNCHANGED <<installed, start, pages>>
    BY <1>13 DEF GrowInsert
  <2>2. /\ heap.base # -1 /\ heap \in [base : Nat, len : Nat]
        /\ BlockEnd(t) > HeapEnd * PageCells /\ pc[t] \in WithHeap
    BY <2>1, HeapInUse DEF HeapOK, WithHeap
  <2>3. CASE HeapNotGrown(t) /\ UNCHANGED <<job, layout>>
    <3>1. UNCHANGED heapVars /\ HeapReturns(t, FALSE)
      BY <2>3 DEF HeapNotGrown
    <3>2. /\ \A u \in Threads \ {t} : pc'[u] = pc[u] /\ layout'[u] = layout[u]
          /\ pc'[t] \notin Growing
      BY <1>a, <2>1, <2>3, <3>1
    <3>3. start' \in Nat /\ start <= start'
      BY <1>1, <2>1, <2>3
    <3> QED BY <2>1, <2>2, <3>1, <3>2, <3>3, SameHeap
  <2>4. CASE HeapGrown(t) /\ UNCHANGED <<job, layout>>
    <3>1. start' \in Nat /\ start <= start'
      BY <1>1, <2>1
    <3>2. CASE /\ heap' = [heap EXCEPT !.len = @ + Increment(t)]
               /\ watermark' = BlockEnd(t) /\ HeapReturns(t, TRUE)
      <4>1. /\ Increment(t) \in Nat
            /\ BlockEnd(t) <= (HeapEnd + Increment(t)) * PageCells
        BY <1>1, <2>2, GrowthFits
      <4>2. installed = "btree"
        BY <2>1, NobodyAssumption DEF Control, MapLockOK, WithMap
      <4>3. /\ \A u \in Threads \ {t} : pc'[u] = pc[u] /\ layout'[u] = layout[u]
            /\ pc'[t] \notin Growing
        BY <1>a, <2>1, <2>4, <3>2
      <4> QED BY <2>1, <2>2, <3>1, <3>2, <4>1, <4>2, <4>3, TakeBlock
    <3>3. CASE Goto(t, "map_page") /\ UNCHANGED heapVars
      BY <1>b, <2>1, <2>2, <2>4, <3>1, <3>3, SameHeap
    <3> QED BY <2>4, <3>2, <3>3 DEF HeapGrown
  <2>5. CASE Request(t, "node", NodeLayout) /\ UNCHANGED heapVars
    BY SMTT(30), <1>1, <1>3, <2>1, <2>2, <2>5, SameHeap
  <2> QED BY <1>13, <2>3, <2>4, <2>5 DEF GrowInsert
<1>14. CASE PagesBootstrap(t)
  <2>1. /\ pc[t] = "idle" /\ UNCHANGED <<installed, heapVars, pc, layout>>
        /\ start' \in Nat /\ start <= start'
    BY <1>1, <1>14 DEF PagesBootstrap, threadVars
  <2> QED BY <2>1, SameHeap DEF Growing
<1>15. CASE PagesLockMap(t)
  <2>1. /\ pc[t] = "idle" /\ installed = "btree" /\ Goto(t, "choose")
        /\ UNCHANGED <<installed, start, heapVars, layout>>
    BY <1>15 DEF PagesLockMap
  <2>2. heap.base # -1 /\ "choose" \notin Growing
    BY SMTT(30), <2>1 DEF HeapOK, Growing
  <2>3. /\ \A u \in Threads \ {t} : pc'[u] = pc[u] /\ layout'[u] = layout[u]
        /\ pc'[t] = "choose"
    BY <1>4, <2>1
  <2>4. start' \in Nat /\ start <= start'
    BY <1>1, <2>1
  <2> QED BY <2>1, <2>2, <2>3, <2>4, SameHeap
<1>16. CASE PagesChoose(t)
  <2>1. /\ pc[t] = "choose" /\ UNCHANGED <<installed, start, heapVars>>
        /\ \/ UNCHANGED <<pc, layout>>
           \/ Goto(t, "insert") /\ UNCHANGED layout
           \/ Request(t, "node", NodeLayout)
    BY <1>16 DEF PagesChoose
  <2>2. heap.base # -1 /\ "insert" \notin Growing /\ "choose" \notin Growing
    BY <2>1, HeapInUse DEF Growing
  <2> QED BY <1>1, <1>3, <1>4, <2>1, <2>2, SameHeap
<1>17. CASE PagesInsert(t)
  <2>1. /\ pc[t] = "insert" /\ Goto(t, "idle")
        /\ UNCHANGED <<installed, start, heapVars, layout>>
    BY <1>17 DEF PagesInsert
  <2>2. heap.base # -1 /\ "idle" \notin Growing
    BY <2>1, HeapInUse DEF Growing
  <2> QED BY <1>1, <1>4, <2>1, <2>2, SameHeap
<1>18. CASE DropPages(t)
  <2>1. pc[t] = "idle" /\ UNCHANGED <<installed, start, heapVars, pc, layout>>
    BY <1>18 DEF DropPages, threadVars
  <2> QED BY <1>1, <2>1, SameHeap DEF Growing
<1>19. CASE BuildBtree(t)
  <2>1. Request(t, "box", NodeLayout) /\ UNCHANGED <<installed, start, heapVars>>
    BY <1>19 DEF BuildBtree
  <2> QED BY <1>1, <1>3, <2>1, SameHeap
<1>20. CASE Install(t)
  <2>1. /\ pc[t] = "install" /\ Goto(t, "idle") /\ installed' = "btree"
        /\ UNCHANGED <<start, heapVars, layout>>
    BY <1>20 DEF Install
  <2>2. heap.base # -1 /\ "idle" \notin Growing
    BY <2>1, HeapInUse DEF Growing
  <2> QED BY <1>1, <1>4, <2>1, <2>2, SameHeap
<1> QED
  BY <1>5, <1>6, <1>7, <1>8, <1>9, <1>10, <1>11, <1>12, <1>13, <1>14, <1>15, <1>16,
     <1>17, <1>18, <1>19, <1>20
  DEF Step, Call
-----------------------------------------------------------------------------
(* A vacant key meets none of the pages under the keys. *)
LEMMA VacantIsApart ==
  ASSUME KeysOK, KeysApart, NEW at \in Nat, NEW n \in Nat \ {0}, Vacant(map, Key(at, n)),
         NEW k \in map
  PROVE  k.start \in Nat /\ k.end \in Nat /\ Apart(k.start, k.end, at, at + n)
<1>1. k.start \in Nat /\ k.end \in Nat
  BY DEF KeysOK
<1>2. ~ Equal(k, Key(at, n))
  BY DEF Vacant
<1> QED BY <1>1, <1>2 DEF Equal, Key, Apart


-----------------------------------------------------------------------------
(* Steps that give nobody a page. *)
LEMMA QuietOwners ==
  ASSUME Owners, panic = "no", UNCHANGED <<live, heap, start, installed, regionFreed>>,
         map' = map \/ (installed = "bootstrap" /\ map' = Reserved)
  PROVE  Owners'
<1>1. UNCHANGED HeapEnd /\ \A h \in Handles : UNCHANGED <<Owns(h), OwnEnd(h), KeyOf(h)>>
  BY DEF HeapEnd, Owns, OwnEnd, KeyOf
<1>2. LiveOK' /\ Overrun' = Overrun
  BY DEF Owners, LiveOK, Overrun
<1>3. OwnersApart => OwnersApart'
  BY <1>1 DEF OwnersApart
<1>4. FromRegion => FromRegion'
  BY <1>1 DEF FromRegion
<1>5. UnderKeys /\ map' = map => UnderKeys'
  BY <1>1 DEF UnderKeys, KeysOK, KeysApart
<1>6. KeysOK'
  BY ReservedTyped DEF Owners, KeysOK
<1> QED BY <1>2, <1>3, <1>4, <1>5, <1>6 DEF Owners

(* Steps after which nothing more happens. *)
LEMMA StoppedOwners ==
  ASSUME HeapOK, Owners, KeysOK', panic' # "no", start' \in Nat, start <= start',
         UNCHANGED <<live, heap, regionFreed>>
  PROVE  Owners'
<1>1. UNCHANGED HeapEnd /\ \A h \in Handles : UNCHANGED <<Owns(h), OwnEnd(h)>>
  BY DEF HeapEnd, Owns, OwnEnd
<1>2. LiveOK' /\ (~ Overrun' => ~ Overrun)
  BY SMTT(30), PlacesAssumption, RangeAssumption DEF Owners, LiveOK, Overrun, HeapOK
<1>3. OwnersApart => OwnersApart'
  BY <1>1 DEF OwnersApart
<1> QED BY <1>2, <1>3 DEF Owners

(* h, which owns nothing, gets pages that nobody has. *)
LEMMA GrantApart ==
  ASSUME LiveOK, OwnersApart, UNCHANGED heap,
         NEW h \in Handles, NEW at \in Nat, NEW n \in 1 .. MaxPages, Own(h, at, n),
         \A g \in Handles : g # h /\ Owns(g) => Apart(live[g].base, OwnEnd(g), at, at + n),
         heap \in [base : Int, len : Nat],
         heap.len > 0 => Apart(at, at + n, heap.base, HeapEnd),
         Apart(at, at + n, UsedStart, UsedEnd)
  PROVE  /\ LiveOK' /\ OwnersApart'
         /\ Owns(h)' /\ live'[h].base = at /\ OwnEnd(h)' = at + n /\ KeyOf(h)' = Key(at, n)
         /\ \A g \in Handles \ {h} :
              UNCHANGED <<Owns(g), OwnEnd(g), KeyOf(g)>> /\ live'[g] = live[g]
<1>1. /\ live'[h] = [base |-> at, len |-> n]
      /\ \A g \in Handles \ {h} : live'[g] = live[g]
  BY DEF Own, LiveOK
<1>2. LiveOK'
  BY SMTT(30), RangeAssumption DEF LiveOK, Own
<1>3. /\ Owns(h)' /\ live'[h].base = at /\ OwnEnd(h)' = at + n /\ KeyOf(h)' = Key(at, n)
      /\ \A g \in Handles \ {h} :
           UNCHANGED <<Owns(g), OwnEnd(g), KeyOf(g)>> /\ live'[g] = live[g]
  BY SMTT(30), <1>1 DEF Owns, OwnEnd, KeyOf
<1>4. UNCHANGED HeapEnd
  BY DEF HeapEnd
<1>5. OwnersApart'
  <2>1. \A f, g \in Handles : f # g /\ Owns(f)' /\ Owns(g)' =>
          Apart(live'[f].base, OwnEnd(f)', live'[g].base, OwnEnd(g)')
    BY <1>3 DEF OwnersApart, Apart
  <2>2. \A g \in Handles : Owns(g)' /\ heap'.len > 0 =>
          Apart(live'[g].base, OwnEnd(g)', heap'.base, HeapEnd')
    BY <1>3, <1>4 DEF OwnersApart
  <2>3. \A g \in Handles : Owns(g)' => Apart(live'[g].base, OwnEnd(g)', UsedStart, UsedEnd)
    BY <1>3 DEF OwnersApart
  <2> QED BY <2>1, <2>2, <2>3 DEF OwnersApart, Apart
<1> QED BY <1>2, <1>3, <1>5

(* The heap gets pages that nobody has. *)
LEMMA HeapApart ==
  ASSUME LiveOK, OwnersApart, UNCHANGED live, heap \in [base : Nat, len : Nat],
         NEW n \in Nat \ {0}, heap' = [heap EXCEPT !.len = @ + n],
         \A h \in Handles : Owns(h) => Apart(live[h].base, OwnEnd(h), HeapEnd, HeapEnd + n)
  PROVE  /\ LiveOK' /\ OwnersApart' /\ HeapEnd' = HeapEnd + n /\ heap'.base = heap.base
         /\ \A h \in Handles : UNCHANGED <<Owns(h), OwnEnd(h), KeyOf(h)>>
<1>1. /\ heap'.base = heap.base /\ heap'.len = heap.len + n /\ HeapEnd' = HeapEnd + n
      /\ heap.base \in Nat /\ heap.len \in Nat /\ HeapEnd = heap.base + heap.len
  BY DEF HeapEnd
<1>2. \A h \in Handles : UNCHANGED <<Owns(h), OwnEnd(h), KeyOf(h)>>
  BY DEF Owns, OwnEnd, KeyOf
<1>3. ASSUME NEW h \in Handles, Owns(h)
      PROVE  Apart(live[h].base, OwnEnd(h), heap.base, HeapEnd + n)
  <2>1. /\ live[h].base \in Nat /\ live[h].len \in Nat /\ live[h].len > 0
        /\ OwnEnd(h) = live[h].base + live[h].len
    BY SMTT(30), <1>3 DEF LiveOK, Owns, OwnEnd
  <2>2. Apart(live[h].base, OwnEnd(h), HeapEnd, HeapEnd + n)
    BY <1>3
  <2>3. heap.len > 0 => Apart(live[h].base, OwnEnd(h), heap.base, HeapEnd)
    BY <1>3 DEF OwnersApart
  <2> QED BY SMTT(30), <1>1, <2>1, <2>2, <2>3 DEF Apart
<1> QED BY <1>1, <1>2, <1>3 DEF LiveOK, OwnersApart

(* SyncHeap::new. *)
LEMMA HeapNewOwners ==
  ASSUME Owners, panic = "no", installed = "bootstrap", start \in Nat,
         UNCHANGED <<live, map, start, installed, panic, regionFreed>>,
         heap' = [base |-> start, len |-> 0]
  PROVE  Owners'
<1>1. \A h \in Handles : UNCHANGED <<Owns(h), OwnEnd(h)>>
  BY DEF Owns, OwnEnd
<1>2. LiveOK' /\ KeysOK' /\ Overrun' = Overrun /\ ~ heap'.len > 0
  BY SMTT(30) DEF Owners, LiveOK, KeysOK, Overrun
<1>3. OwnersApart => OwnersApart'
  BY <1>1, <1>2 DEF OwnersApart
<1>4. FromRegion => FromRegion'
  BY <1>1 DEF FromRegion
<1> QED BY <1>2, <1>3, <1>4 DEF Owners

(* The heap grows out of the bootstrap region. *)
LEMMA ExchangeOwners ==
  ASSUME HeapOK, Owners, panic = "no", installed = "bootstrap",
         heap \in [base : Nat, len : Nat], NEW n \in Nat \ {0}, start = HeapEnd,
         start' = start + n, heap' = [heap EXCEPT !.len = @ + n],
         UNCHANGED <<live, map, installed, regionFreed>>
  PROVE  Owners'
<1>1. LiveOK /\ start \in Nat /\ start' > start
  BY SMTT(30) DEF Owners, HeapOK
<1>2. LiveOK' /\ KeysOK'
  BY <1>1 DEF LiveOK, Owners, KeysOK
<1>3. ASSUME ~ Overrun', ~ regionFreed PROVE OwnersApart' /\ FromRegion'
  <2>1. ~ Overrun
    BY <1>1, <1>3, PlacesAssumption, RangeAssumption DEF Overrun
  <2>2. OwnersApart /\ FromRegion
    BY <1>3, <2>1 DEF Owners
  <2>3. \A h \in Handles : Owns(h) => Apart(live[h].base, OwnEnd(h), HeapEnd, HeapEnd + n)
    BY <2>2 DEF FromRegion, Apart
  <2>4. OwnersApart' /\ \A h \in Handles : UNCHANGED <<Owns(h), OwnEnd(h)>>
    BY <1>1, <2>2, <2>3, HeapApart
  <2>5. \A h \in Handles : OwnEnd(h) \in Nat
    BY SMTT(30), <1>1 DEF LiveOK, OwnEnd
  <2> QED BY <1>1, <2>2, <2>4, <2>5 DEF FromRegion
<1> QED BY <1>2, <1>3 DEF Owners

(* The bootstrap allocator hands out pages. *)
LEMMA BootstrapOwners ==
  ASSUME HeapOK, Owners, panic = "no", NEW t \in Threads, PagesBootstrap(t),
         UNCHANGED regionFreed
  PROVE  Owners'
<1> USE PlacesAssumption, RangeAssumption
<1>1. PICK h \in Handles, n \in 1 .. MaxPages :
        /\ start' = start + n
        /\ IF start > RegionEnd THEN UNCHANGED live ELSE Own(h, start, n)
        /\ live[h].len = 0
  BY DEF PagesBootstrap, Unmade
<1>2. UNCHANGED <<heap, installed, panic>> /\ installed = "bootstrap"
  BY DEF PagesBootstrap, heapVars
<1>3. LiveOK /\ start \in Nat /\ start' > start /\ n \in Nat /\ RegionStart <= start
  BY SMTT(30), <1>1 DEF Owners, HeapOK
<1>4. LiveOK' /\ KeysOK'
  <2>1. LiveOK'
    BY SMTT(30), <1>1, <1>3 DEF LiveOK, Own
  <2>2. KeysOK /\ map' = map
    BY DEF Owners, PagesBootstrap
  <2> QED BY <2>1, <2>2 DEF KeysOK
<1>5. ASSUME ~ Overrun', ~ regionFreed PROVE OwnersApart' /\ FromRegion'
  <2>1. ~ Overrun /\ start + n <= RegionEnd
    BY <1>1, <1>3, <1>5 DEF Overrun
  <2>2. OwnersApart /\ FromRegion /\ Own(h, start, n)
    BY <1>1, <1>2, <1>5, <2>1 DEF Owners, Overrun
  <2>3. \A g \in Handles : g # h /\ Owns(g) => Apart(live[g].base, OwnEnd(g), start, start + n)
    BY <2>2 DEF FromRegion, Apart
  <2>4. heap \in [base : Int, len : Nat] /\ (heap.len > 0 => HeapEnd <= start)
    <3>1. CASE heap = [base |-> -1, len |-> 0]
      BY <3>1
    <3>2. CASE heap \in [base : Nat, len : Nat]
      <4>1. heap # [base |-> -1, len |-> 0]
        BY <3>2
      <4> QED BY SMTT(30), <1>2, <3>2, <4>1 DEF HeapOK
    <3> QED BY <3>1, <3>2 DEF HeapOK
  <2>5. heap.len > 0 => Apart(start, start + n, heap.base, HeapEnd)
    BY <2>4 DEF Apart
  <2>6. Apart(start, start + n, UsedStart, UsedEnd)
    BY <1>3, <2>1 DEF Apart
  <2>7. /\ OwnersApart'
        /\ Owns(h)' /\ live'[h].base = start /\ OwnEnd(h)' = start + n
        /\ \A g \in Handles \ {h} : UNCHANGED <<Owns(g), OwnEnd(g)>> /\ live'[g] = live[g]
    BY <1>2, <1>3, <2>2, <2>3, <2>4, <2>5, <2>6, GrantApart
  <2>8. \A g \in Handles : OwnEnd(g) \in Nat
    BY <1>3 DEF LiveOK, OwnEnd
  <2>9. ASSUME NEW g \in Handles, Owns(g)'
        PROVE  RegionStart <= live'[g].base /\ OwnEnd(g)' <= start'
    <3>1. CASE g = h
      <4>1. live'[g].base = start /\ OwnEnd(g)' = start'
        BY <1>1, <2>7, <3>1
      <4>2. start' \in Nat
        BY <1>1, <1>3
      <4> QED BY <1>3, <4>1, <4>2
    <3>2. CASE g # h
      <4>1. Owns(g) /\ OwnEnd(g)' = OwnEnd(g) /\ live'[g] = live[g]
        BY <2>7, <2>9, <3>2
      <4>2. RegionStart <= live[g].base /\ OwnEnd(g) <= start
        BY <2>2, <4>1 DEF FromRegion
      <4>3. OwnEnd(g) \in Nat /\ start <= start' /\ start \in Nat /\ start' \in Nat
        BY <1>1, <1>3, <2>8
      <4> QED BY <4>1, <4>2, <4>3
    <3> QED BY <3>1, <3>2
  <2> QED BY <2>7, <2>9 DEF FromRegion
<1> QED BY <1>2, <1>4, <1>5 DEF Owners

(* What the B-tree finds vacant is nobody's. *)
LEMMA VacantIsNobodys ==
  ASSUME LiveOK, UnderKeys, heap \in [base : Nat, len : Nat],
         NEW at \in Nat, NEW n \in Nat \ {0}, Vacant(map, Key(at, n))
  PROVE  /\ \A h \in Handles : Owns(h) => Apart(live[h].base, OwnEnd(h), at, at + n)
         /\ heap.len > 0 => Apart(at, at + n, heap.base, HeapEnd)
         /\ Apart(at, at + n, UsedStart, UsedEnd)
<1> USE PlacesAssumption, RangeAssumption
<1>1. KeysOK /\ KeysApart
  BY DEF UnderKeys
<1>2. ASSUME NEW k \in map
      PROVE  k.start \in Nat /\ k.end \in Nat /\ Apart(k.start, k.end, at, at + n)
  BY <1>1, VacantIsApart
<1>3. ASSUME NEW h \in Handles, Owns(h) PROVE Apart(live[h].base, OwnEnd(h), at, at + n)
  <2>1. live[h].base \in Nat /\ live[h].len \in Nat /\ OwnEnd(h) = live[h].base + live[h].len
    BY SMTT(30) DEF LiveOK, OwnEnd
  <2>2. CASE KeyOf(h) \in map
    <3>1. KeyOf(h).start = live[h].base /\ KeyOf(h).end = OwnEnd(h)
      BY DEF KeyOf, Key, OwnEnd
    <3> QED BY <1>2, <2>2, <3>1
  <2>3. CASE RegionKey \in map /\ RegionStart <= live[h].base /\ OwnEnd(h) <= RegionEnd
    <3>1. RegionKey.start = RegionStart /\ RegionKey.end = RegionEnd
      BY DEF RegionKey, Key
    <3>2. Apart(RegionStart, RegionEnd, at, at + n)
      BY <1>2, <2>3, <3>1
    <3>3. RegionStart <= live[h].base /\ OwnEnd(h) <= RegionEnd
      BY <2>3
    <3> QED BY <2>1, <3>2, <3>3 DEF Apart
  <2> QED BY <1>3, <2>2, <2>3 DEF UnderKeys
<1>4. ASSUME heap.len > 0, ~ Apart(at, at + n, heap.base, HeapEnd) PROVE FALSE
  <2>1. heap.base \in Nat /\ heap.len \in Nat /\ HeapEnd = heap.base + heap.len
    BY DEF HeapEnd
  <2> DEFINE p == IF heap.base >= at THEN heap.base ELSE at
  <2>2. p \in heap.base .. HeapEnd - 1 /\ at <= p /\ p < at + n
    BY <1>4, <2>1 DEF Apart
  <2>3. PICK k \in map : k.start <= p /\ p < k.end
    BY <2>2 DEF UnderKeys
  <2> HIDE DEF p
  <2>4. k.start \in Nat /\ k.end \in Nat /\ Apart(k.start, k.end, at, at + n) /\ p \in Int
    BY <1>2, <2>1, <2>2
  <2> QED BY <2>2, <2>3, <2>4 DEF Apart
<1>5. Apart(at, at + n, UsedStart, UsedEnd)
  <2>1. UsedKey \in map /\ UsedKey.start = UsedStart /\ UsedKey.end = UsedEnd
    BY DEF UnderKeys, UsedKey, Key
  <2> QED BY <1>2, <2>1 DEF Apart
<1> QED BY <1>3, <1>4, <1>5

(* The B-tree grants the heap the pages behind it. *)
LEMMA GrowInsertOwners ==
  ASSUME HeapOK, Owners, panic = "no", installed = "btree",
         heap \in [base : Nat, len : Nat], NEW n \in Nat \ {0}, Insert(Key(HeapEnd, n)),
         heap' = [heap EXCEPT !.len = @ + n], UNCHANGED <<live, installed, start, regionFreed>>
  PROVE  Owners'
<1>1. LiveOK /\ Overrun' = Overrun
  BY DEF Owners, Overrun
<1>2. HeapEnd \in Nat /\ heap.base \in Nat /\ RangeStart <= HeapEnd /\ HeapEnd = heap.base + heap.len
  <2>1. RegionStart <= heap.base
    BY DEF HeapOK
  <2> QED BY <2>1, PlacesAssumption, RangeAssumption DEF HeapEnd
<1>3. LiveOK' /\ KeysOK'
  <2>1. Key(HeapEnd, n) \in [start : Nat, end : Nat, len : Nat]
    BY SMTT(30), <1>2 DEF Key
  <2> QED BY <1>1, <2>1 DEF LiveOK, Owners, KeysOK, Insert
<1>4. ASSUME ~ Overrun, ~ regionFreed PROVE OwnersApart' /\ UnderKeys'
  <2>1. OwnersApart /\ UnderKeys /\ Vacant(map, Key(HeapEnd, n))
    BY <1>4 DEF Owners, Insert
  <2>2. /\ OwnersApart' /\ HeapEnd' = HeapEnd + n /\ heap'.base = heap.base
        /\ \A h \in Handles : UNCHANGED <<Owns(h), OwnEnd(h), KeyOf(h)>>
    <3>1. \A h \in Handles : Owns(h) => Apart(live[h].base, OwnEnd(h), HeapEnd, HeapEnd + n)
      BY <1>1, <1>2, <2>1, VacantIsNobodys
    <3> QED BY <1>1, <2>1, <3>1, HeapApart
  <2> DEFINE key == Key(HeapEnd, n)
  <2>3. /\ KeysOK' /\ KeysApart' /\ map' = map \union {key}
        /\ key.start = HeapEnd /\ key.end = HeapEnd + n
    BY <1>2, <2>1, InsertKey DEF UnderKeys
  <2> HIDE DEF key
  <2>4. ASSUME NEW p \in heap'.base .. HeapEnd' - 1
        PROVE  \E k \in map' : k.start <= p /\ p < k.end
    <3>1. CASE p \in heap.base .. HeapEnd - 1
      <4>1. PICK k \in map : k.start <= p /\ p < k.end
        BY <2>1, <3>1 DEF UnderKeys
      <4> QED BY <2>3, <4>1
    <3>2. CASE key.start <= p /\ p < key.end
      BY <2>3, <3>2
    <3> QED BY SMTT(30), <1>2, <2>2, <2>3, <3>1, <3>2
  <2>5. ASSUME NEW k \in map', k.end > RangeEnd PROVE HeapEnd' > RangeEnd
    <3>1. k \in map => HeapEnd > RangeEnd
      BY <2>1, <2>5 DEF UnderKeys
    <3>2. k = key => HeapEnd' > RangeEnd
      BY <2>2, <2>3, <2>5
    <3> QED BY SMTT(30), <1>2, <2>2, <2>3, <3>1, <3>2, RangeAssumption
  <2>6. /\ UsedKey \in map'
        /\ \A h \in Handles : Owns(h)' =>
             \/ KeyOf(h)' \in map'
             \/ /\ RegionKey \in map'
                /\ RegionStart <= live'[h].base /\ OwnEnd(h)' <= RegionEnd
    BY <2>1, <2>2, <2>3 DEF UnderKeys
  <2> QED BY <2>2, <2>3, <2>4, <2>5, <2>6 DEF UnderKeys
<1> QED BY <1>1, <1>3, <1>4 DEF Owners

(* The B-tree grants an OwnedPages its pages. *)
LEMMA PagesInsertOwners ==
  ASSUME HeapOK, Owners, panic = "no", installed = "btree",
         heap \in [base : Nat, len : Nat], NEW h \in Handles, NEW n \in 1 .. MaxPages,
         allocate_contiguous(h, n), UNCHANGED <<heap, installed, start, regionFreed>>
  PROVE  Owners'
<1>1. PICK at \in {RangeStart} \union {k.end : k \in map} :
        Place(at, n) /\ Insert(Key(at, n)) /\ Own(h, at, n)
  BY DEF allocate_contiguous
<1>2. LiveOK /\ Overrun' = Overrun /\ n \in Nat \ {0}
  BY SMTT(30), RangeAssumption DEF Owners, Overrun
<1>3. Own(h, at, n) /\ ~ Owns(h)
  BY <1>1 DEF allocate_contiguous, Owns
<1>4. ASSUME ~ Overrun, ~ regionFreed PROVE LiveOK' /\ OwnersApart' /\ UnderKeys'
  <2>1. OwnersApart /\ UnderKeys /\ KeysOK /\ KeysApart /\ UsedKey \in map
    BY <1>4 DEF Owners, UnderKeys
  <2>2. /\ at \in Nat /\ RangeStart <= at /\ Vacant(map, Key(at, n))
        /\ at + n > RangeEnd => \E k \in map : k.end > RangeEnd
    BY <1>1, <2>1, PlaceIsFree
  <2>3. /\ \A g \in Handles : Owns(g) => Apart(live[g].base, OwnEnd(g), at, at + n)
        /\ heap.len > 0 => Apart(at, at + n, heap.base, HeapEnd)
        /\ Apart(at, at + n, UsedStart, UsedEnd)
    BY <1>2, <2>1, <2>2, VacantIsNobodys
  <2>4. /\ LiveOK' /\ OwnersApart'
        /\ Owns(h)' /\ KeyOf(h)' = Key(at, n)
        /\ \A g \in Handles \ {h} :
             UNCHANGED <<Owns(g), OwnEnd(g), KeyOf(g)>> /\ live'[g] = live[g]
    <3>1. heap \in [base : Int, len : Nat]
      BY SMTT(30)
    <3> QED BY <1>2, <1>3, <2>1, <2>2, <2>3, <3>1, GrantApart
  <2> DEFINE key == Key(at, n)
  <2>5. /\ KeysOK' /\ KeysApart' /\ map' = map \union {key} /\ key.end = at + n
    BY <1>1, <1>2, <2>1, <2>2, InsertKey
  <2> HIDE DEF key
  <2>6. UNCHANGED HeapEnd
    BY DEF HeapEnd
  <2>7. ASSUME NEW p \in heap'.base .. HeapEnd' - 1
        PROVE  \E k \in map' : k.start <= p /\ p < k.end
    <3>1. PICK k \in map : k.start <= p /\ p < k.end
      BY <2>1, <2>6 DEF UnderKeys
    <3> QED BY <2>5, <3>1
  <2>8. ASSUME NEW k \in map', k.end > RangeEnd PROVE HeapEnd' > RangeEnd
    <3>1. \E j \in map : j.end > RangeEnd
      BY <2>2, <2>5, <2>8
    <3> QED BY <2>1, <2>6, <3>1 DEF UnderKeys
  <2>9. \A g \in Handles : Owns(g)' =>
             \/ KeyOf(g)' \in map'
             \/ /\ RegionKey \in map'
                /\ RegionStart <= live'[g].base /\ OwnEnd(g)' <= RegionEnd
    BY <2>1, <2>4, <2>5 DEF UnderKeys, key
  <2> QED BY <2>1, <2>4, <2>5, <2>7, <2>8, <2>9 DEF UnderKeys
<1>5. LiveOK' /\ KeysOK'
  <2>1. at \in Nat
    BY RangeAssumption DEF Owners, KeysOK
  <2>2. Key(at, n) \in [start : Nat, end : Nat, len : Nat]
    BY SMTT(30), <1>2, <2>1 DEF Key
  <2> QED BY SMTT(30), <1>1, <1>2, <2>1, <2>2 DEF LiveOK, Own, Owners, KeysOK, Insert
<1> QED BY <1>2, <1>4, <1>5 DEF Owners

(* A drop takes out the owner's key, unless what is dropped are pages of   *)
(* the bootstrap region.                                                   *)
LEMMA DropKey ==
  ASSUME LiveOK, UnderKeys, NEW h \in Handles, Owns(h), NEW k \in map,
         PointEqual(live[h].base, k)
  PROVE  k = KeyOf(h) \/ live[h].base \in Pages(RegionStart, RegionEnd)
<1> USE PlacesAssumption, RangeAssumption
<1>1. /\ live[h].base \in Nat /\ live[h].len \in Nat /\ live[h].len > 0
      /\ OwnEnd(h) = live[h].base + live[h].len
  BY DEF LiveOK, Owns, OwnEnd
<1>2. CASE KeyOf(h) \in map
  <2>1. PointEqual(live[h].base, KeyOf(h))
    BY <1>1 DEF PointEqual, KeyOf, Key
  <2> QED BY <1>1, <1>2, <2>1, OneKeyAtPoint DEF UnderKeys
<1>3. CASE RegionKey \in map /\ RegionStart <= live[h].base /\ OwnEnd(h) <= RegionEnd
  <2>1. RegionStart <= live[h].base /\ OwnEnd(h) <= RegionEnd
    BY <1>3
  <2> QED BY <1>1, <2>1 DEF Pages
<1> QED BY <1>2, <1>3 DEF UnderKeys

LEMMA FindsKey ==
  ASSUME LiveOK, UnderKeys, NEW h \in Handles, Owns(h)
  PROVE  \E k \in map : PointEqual(live[h].base, k)
<1> USE PlacesAssumption, RangeAssumption
<1>1. /\ live[h].base \in Nat /\ live[h].len \in Nat /\ live[h].len > 0
      /\ OwnEnd(h) = live[h].base + live[h].len
  BY DEF LiveOK, Owns, OwnEnd
<1>2. CASE KeyOf(h) \in map
  <2>1. PointEqual(live[h].base, KeyOf(h))
    BY <1>1 DEF PointEqual, KeyOf, Key
  <2> QED BY <1>2, <2>1
<1>3. CASE RegionKey \in map /\ RegionStart <= live[h].base /\ OwnEnd(h) <= RegionEnd
  <2>1. RegionStart <= live[h].base /\ OwnEnd(h) <= RegionEnd
    BY <1>3
  <2>2. PointEqual(live[h].base, RegionKey)
    BY <1>1, <2>1 DEF PointEqual, RegionKey, Key
  <2> QED BY <1>3, <2>2
<1> QED BY <1>2, <1>3 DEF UnderKeys

(* A drop takes pages from one owner. *)
LEMMA DropApart ==
  ASSUME LiveOK, UNCHANGED heap, NEW h \in Handles, live' = [live EXCEPT ![h] = Nothing]
  PROVE  /\ LiveOK' /\ (OwnersApart => OwnersApart') /\ ~ Owns(h)'
         /\ \A g \in Handles \ {h} :
              UNCHANGED <<Owns(g), OwnEnd(g), KeyOf(g)>> /\ live'[g] = live[g]
<1>1. live'[h] = Nothing /\ \A g \in Handles \ {h} : live'[g] = live[g]
  BY DEF LiveOK
<1>2. LiveOK'
  BY SMTT(30), RangeAssumption DEF LiveOK, Nothing
<1>3. /\ ~ Owns(h)'
      /\ \A g \in Handles \ {h} :
           UNCHANGED <<Owns(g), OwnEnd(g), KeyOf(g)>> /\ live'[g] = live[g]
  BY <1>1 DEF Owns, OwnEnd, KeyOf, Nothing
<1>4. UNCHANGED HeapEnd
  BY DEF HeapEnd
<1>5. OwnersApart => OwnersApart'
  BY <1>3, <1>4 DEF OwnersApart
<1> QED BY <1>2, <1>3, <1>5

LEMMA DropOwners ==
  ASSUME HeapOK, Owners, panic = "no", installed \in {"bootstrap", "btree"},
         NEW t \in Threads, DropPages(t)
  PROVE  Owners'
<1>1. UNCHANGED <<heap, start, installed>> /\ UNCHANGED HeapEnd
  BY DEF DropPages, heapVars, HeapEnd
<1>2. LiveOK /\ KeysOK /\ Overrun' = Overrun
  BY <1>1 DEF Owners, Overrun
<1>3. ASSUME NEW h \in Handles, installed = "bootstrap",
             live' = [live EXCEPT ![h] = Nothing], UNCHANGED <<map, panic, regionFreed>>
      PROVE  Owners'
  <2>1. /\ LiveOK' /\ (OwnersApart => OwnersApart') /\ ~ Owns(h)'
        /\ \A g \in Handles \ {h} :
             UNCHANGED <<Owns(g), OwnEnd(g), KeyOf(g)>> /\ live'[g] = live[g]
    BY <1>1, <1>2, <1>3, DropApart
  <2>2. FromRegion => FromRegion'
    BY <1>1, <2>1 DEF FromRegion
  <2>3. KeysOK'
    BY <1>2, <1>3 DEF KeysOK
  <2> QED BY <1>1, <1>2, <1>3, <2>1, <2>2, <2>3 DEF Owners
<1>4. ASSUME NEW h \in Handles, installed = "btree", deallocate_contiguous(h),
             regionFreed' = (regionFreed \/ live[h].base \in Pages(RegionStart, RegionEnd))
      PROVE  Owners'
  <2>1. live' = [live EXCEPT ![h] = Nothing] /\ Owns(h) /\ map' \subseteq map
    BY <1>4 DEF deallocate_contiguous, Owns
  <2>2. /\ LiveOK' /\ (OwnersApart => OwnersApart') /\ ~ Owns(h)'
        /\ \A g \in Handles \ {h} :
             UNCHANGED <<Owns(g), OwnEnd(g), KeyOf(g)>> /\ live'[g] = live[g]
    BY <1>1, <1>2, <2>1, DropApart
  <2>3. KeysOK'
    BY <1>2, <2>1 DEF KeysOK
  <2>4. ASSUME ~ Overrun, ~ regionFreed', panic' = "no" PROVE UnderKeys'
    <3>1. UnderKeys /\ OwnersApart /\ live[h].base \notin Pages(RegionStart, RegionEnd)
      BY <1>4, <2>4 DEF Owners
    <3>2. PICK k \in map : PointEqual(live[h].base, k) /\ map' = map \ {k}
      BY <1>4, <2>4 DEF deallocate_contiguous, Panic
    <3>3. map' = map \ {KeyOf(h)}
      BY <1>2, <2>1, <3>1, <3>2, DropKey
    <3>4. \A f \in Handles : /\ live[f].base \in Nat /\ live[f].len \in Nat
                            /\ OwnEnd(f) = live[f].base + live[f].len
                            /\ KeyOf(f).start = live[f].base /\ KeyOf(f).end = OwnEnd(f)
      BY SMTT(30), <1>2 DEF LiveOK, OwnEnd, KeyOf, Key
    <3>5. KeysApart'
      BY <3>1, <3>3 DEF UnderKeys, KeysApart, Equal
    <3>6. UsedKey \in map'
      <4>1. UsedKey.start = UsedStart /\ UsedKey.end = UsedEnd
        BY PlacesAssumption, RangeAssumption DEF UsedKey, Key
      <4>2. Apart(live[h].base, OwnEnd(h), UsedStart, UsedEnd)
        BY <2>1, <3>1 DEF OwnersApart
      <4>3. UsedKey # KeyOf(h)
        BY <2>1, <3>4, <4>1, <4>2, PlacesAssumption, RangeAssumption DEF Apart, Owns
      <4> QED BY <3>1, <3>3, <4>3 DEF UnderKeys
    <3>7. ASSUME NEW p \in heap'.base .. HeapEnd' - 1
          PROVE  \E j \in map' : j.start <= p /\ p < j.end
      <4>1. PICK j \in map : j.start <= p /\ p < j.end
        BY <1>1, <3>1, <3>7 DEF UnderKeys
      <4>2. j # KeyOf(h)
        <5> SUFFICES ASSUME j = KeyOf(h) PROVE FALSE
          OBVIOUS
        <5>1. live[h].base <= p /\ p < OwnEnd(h)
          BY <3>4, <4>1
        <5>2. heap \in [base : Int, len : Nat] /\ HeapEnd = heap.base + heap.len
          BY SMTT(30) DEF HeapOK, HeapEnd
        <5>3. heap.len > 0
          BY SMTT(30), <1>1, <3>7, <5>2
        <5>4. Apart(live[h].base, OwnEnd(h), heap.base, HeapEnd)
          BY <2>1, <3>1, <5>3 DEF OwnersApart
        <5> QED BY SMTT(30), <1>1, <3>4, <3>7, <5>1, <5>2, <5>4 DEF Apart
      <4> QED BY <3>3, <4>1, <4>2
    <3>8. ASSUME NEW g \in Handles, Owns(g)'
          PROVE  \/ KeyOf(g)' \in map'
                 \/ /\ RegionKey \in map'
                    /\ RegionStart <= live'[g].base /\ OwnEnd(g)' <= RegionEnd
      <4>1. g # h /\ Owns(g) /\ live'[g] = live[g] /\ UNCHANGED <<OwnEnd(g), KeyOf(g)>>
        BY <2>2, <3>8
      <4>2. Apart(live[g].base, OwnEnd(g), live[h].base, OwnEnd(h))
        BY <2>1, <3>1, <4>1 DEF OwnersApart
      <4>3. CASE KeyOf(g) \in map
        <5>1. KeyOf(g) # KeyOf(h)
          BY <2>1, <3>4, <4>1, <4>2 DEF Apart, Owns
        <5> QED BY <3>3, <4>1, <4>3, <5>1
      <4>4. CASE RegionKey \in map /\ RegionStart <= live[g].base /\ OwnEnd(g) <= RegionEnd
        <5>1. RegionKey.start = RegionStart /\ RegionKey.end = RegionEnd
          BY PlacesAssumption, RangeAssumption DEF RegionKey, Key
        <5>2. RegionStart <= live[g].base /\ OwnEnd(g) <= RegionEnd
          BY <4>4
        <5>3. RegionKey # KeyOf(h)
          BY <2>1, <3>4, <4>1, <4>2, <5>1, <5>2, PlacesAssumption, RangeAssumption DEF Apart, Owns
        <5> QED BY <3>3, <4>1, <4>4, <5>3
      <4> QED BY <3>1, <4>1, <4>3, <4>4 DEF UnderKeys
    <3>9. \A j \in map' : j.end > RangeEnd => HeapEnd' > RangeEnd
      BY <1>1, <3>1, <3>3 DEF UnderKeys
    <3> QED BY <2>3, <3>5, <3>6, <3>7, <3>8, <3>9 DEF UnderKeys
  <2> QED BY <1>1, <1>2, <1>4, <2>2, <2>3, <2>4 DEF Owners
<1> QED BY <1>3, <1>4 DEF DropPages

(* The hand-over: what came from the bootstrap region is under its key. *)
LEMMA InstallOwners ==
  ASSUME Control, HeapOK, Owners, panic = "no", NEW t \in Threads, Install(t),
         UNCHANGED regionFreed
  PROVE  Owners'
<1> USE PlacesAssumption, RangeAssumption
<1>1. /\ pc[t] = "install" /\ installed' = "btree" /\ UNCHANGED <<map, live, heap, start, panic>>
      /\ installed = "bootstrap" /\ map # {}
  BY DEF Install, vars, heapVars, Control, HandOverOK, ForBox
<1>2. map = {RegionKey, UsedKey}
  BY <1>1, ReservedKeys DEF Control, HandOverOK
<1>3. UNCHANGED HeapEnd /\ \A h \in Handles : UNCHANGED <<Owns(h), OwnEnd(h), KeyOf(h)>>
  BY <1>1 DEF HeapEnd, Owns, OwnEnd, KeyOf
<1>4. LiveOK /\ LiveOK' /\ KeysOK /\ KeysOK' /\ Overrun' = Overrun
  BY <1>1 DEF Owners, LiveOK, KeysOK, Overrun
<1>5. ASSUME ~ Overrun, ~ regionFreed PROVE OwnersApart' /\ UnderKeys'
  <2>1. OwnersApart /\ FromRegion /\ start \in Nat /\ start <= RegionEnd
    BY SMTT(30), <1>1, <1>5 DEF Owners, HeapOK, Overrun
  <2>2. OwnersApart'
    BY <1>1, <1>3, <2>1 DEF OwnersApart
  <2>3. /\ RegionKey.start = RegionStart /\ RegionKey.end = RegionEnd
        /\ UsedKey.start = UsedStart /\ UsedKey.end = UsedEnd
    BY DEF RegionKey, UsedKey, Key
  <2>4. KeysApart
    BY <1>2, <2>3 DEF KeysApart, Equal
  <2>5. \A h \in Handles : OwnEnd(h) \in Nat
    BY <1>4 DEF LiveOK, OwnEnd
  <2>6. \A h \in Handles : Owns(h) =>
          RegionKey \in map /\ RegionStart <= live[h].base /\ OwnEnd(h) <= RegionEnd
    BY <1>2, <2>1, <2>5 DEF FromRegion
  <2>7. ASSUME NEW p \in heap.base .. HeapEnd - 1 PROVE RegionStart <= p /\ p < RegionEnd
    <3>1. heap \in [base : Nat, len : Nat] /\ RegionStart <= heap.base /\ HeapEnd <= start
      BY <1>1 DEF HeapOK
    <3>2. HeapEnd \in Nat
      BY <3>1 DEF HeapEnd
    <3> QED BY <2>1, <2>7, <3>1, <3>2
  <2>8. \A p \in heap.base .. HeapEnd - 1 : \E k \in map : k.start <= p /\ p < k.end
    BY <1>2, <2>3, <2>7
  <2>9. \A k \in map : ~ k.end > RangeEnd
    BY <1>2, <2>3
  <2>10. UsedKey \in map
    BY <1>2
  <2>11. UnderKeys
    BY <1>4, <2>4, <2>6, <2>8, <2>9, <2>10 DEF UnderKeys
  <2>12. UnderKeys'
    BY <1>1, <1>3, <2>11 DEF UnderKeys, KeysOK, KeysApart
  <2> QED BY <2>2, <2>12
<1> QED BY <1>1, <1>4, <1>5 DEF Owners

LEMMA CallOwners ==
  ASSUME Control, HeapOK, Owners, panic = "no", NEW t \in Threads, Call(t),
         UNCHANGED regionFreed
  PROVE  Owners'
<1>1. ControlOK /\ installed \in {"bootstrap", "btree"}
  BY DEF Control, ControlOK
<1>2. CASE HeapNew(t)
  <2>1. UNCHANGED <<live, map, start, installed>> /\ heap.base = -1
    BY <1>2 DEF HeapNew
  <2>2. CASE UNCHANGED heapVars
    BY <2>1, <2>2, QuietOwners DEF heapVars
  <2>3. CASE heap' = [base |-> start, len |-> 0] /\ UNCHANGED panic
    <3>1. installed = "bootstrap" /\ start \in Nat
      BY SMTT(30), <2>1 DEF HeapOK
    <3> QED BY <2>1, <2>3, <3>1, HeapNewOwners
  <2> QED BY <1>2, <2>2, <2>3 DEF HeapNew
<1>3. CASE HeapCall(t) \/ LockHeap(t) \/ HeapFits(t) \/ HeapGrows(t) \/ GrowLockMap(t)
           \/ PagesLockMap(t)
  BY <1>3, QuietOwners
  DEF HeapCall, LockHeap, HeapFits, HeapGrows, GrowLockMap, PagesLockMap, vars, heapVars
<1>4. CASE GrowLoad(t)
  <2>1. UNCHANGED <<live, map, heap, start, installed>>
    BY <1>4 DEF GrowLoad, HeapNotGrown, heapVars
  <2> QED BY <2>1, QuietOwners
<1>5. CASE PagesChoose(t)
  <2>1. UNCHANGED <<live, map, heap, start, installed>>
    BY <1>5 DEF PagesChoose, allocate_panics, vars, heapVars
  <2> QED BY <2>1, QuietOwners
<1>6. CASE BuildBtree(t)
  BY <1>6, QuietOwners DEF BuildBtree, heapVars
<1>7. CASE GrowExchange(t)
  <2>1. pc[t] = "cas" /\ UNCHANGED <<map, live, installed>> /\ installed = "bootstrap"
    BY <1>7 DEF GrowExchange, Control, HandOverOK
  <2>2. CASE UNCHANGED start /\ HeapNotGrown(t)
    BY <2>1, <2>2, QuietOwners DEF HeapNotGrown, heapVars
  <2>3. CASE start = HeapEnd /\ start' = start + Increment(t) /\ HeapGrown(t)
    <3>1. heap \in [base : Nat, len : Nat] /\ BlockEnd(t) > HeapEnd * PageCells
      BY <2>1, HeapInUse DEF HeapOK
    <3>2. Increment(t) \in Nat \ {0}
      BY SMTT(30), <1>1, <3>1, GrowthFits
    <3>3. CASE heap' = [heap EXCEPT !.len = @ + Increment(t)]
      BY <2>1, <2>3, <3>1, <3>2, <3>3, ExchangeOwners
    <3>4. CASE Panic("map_page") /\ UNCHANGED heapVars
      <4>1. KeysOK' /\ start' \in Nat /\ start <= start'
        BY SMTT(30), <2>1, <2>3, <3>2 DEF Owners, KeysOK, HeapOK
      <4> QED BY <2>1, <3>4, <4>1, StoppedOwners DEF Panic, heapVars
    <3> QED BY <2>3, <3>3, <3>4 DEF HeapGrown
  <2> QED BY <1>7, <2>2, <2>3 DEF GrowExchange
<1>8. CASE GrowInsert(t)
  <2>1. pc[t] = "grow_insert" /\ UNCHANGED <<live, installed, start>> /\ installed = "btree"
    BY <1>8, NobodyAssumption DEF GrowInsert, Control, MapLockOK, WithMap
  <2>2. CASE UNCHANGED <<map, heap>>
    BY <2>1, <2>2, QuietOwners
  <2>3. CASE Insert(Key(HeapEnd, Increment(t))) /\ HeapGrown(t)
    <3>1. heap \in [base : Nat, len : Nat] /\ BlockEnd(t) > HeapEnd * PageCells
      BY <2>1, HeapInUse DEF HeapOK
    <3>2. Increment(t) \in Nat \ {0}
      BY SMTT(30), <1>1, <3>1, GrowthFits
    <3>3. CASE heap' = [heap EXCEPT !.len = @ + Increment(t)]
      BY <2>1, <2>3, <3>1, <3>2, <3>3, GrowInsertOwners
    <3>4. CASE Panic("map_page") /\ UNCHANGED heapVars
      <4>1. Key(HeapEnd, Increment(t)) \in [start : Nat, end : Nat, len : Nat]
        BY SMTT(30), <3>1, <3>2 DEF Key, HeapEnd
      <4>2. KeysOK' /\ start' \in Nat /\ start <= start'
        BY SMTT(30), <2>1, <2>3, <4>1 DEF Owners, KeysOK, HeapOK, Insert
      <4> QED BY <2>1, <3>4, <4>2, StoppedOwners DEF Panic, heapVars
    <3> QED BY <2>3, <3>3, <3>4 DEF HeapGrown
  <2> QED BY <1>8, <2>2, <2>3 DEF GrowInsert, HeapNotGrown, heapVars
<1>9. CASE PagesInsert(t)
  <2>1. /\ pc[t] = "insert" /\ allocate_contiguous(pages[t].h, pages[t].n)
        /\ UNCHANGED <<installed, start, heap>>
    BY <1>9 DEF PagesInsert, heapVars
  <2>2. pages[t].h \in Handles /\ pages[t].n \in 1 .. MaxPages /\ installed = "btree"
    BY <2>1, NobodyAssumption DEF Control, MapLockOK, WithMap
  <2>3. heap \in [base : Nat, len : Nat]
    BY <2>1, HeapInUse
  <2> QED BY <2>1, <2>2, <2>3, PagesInsertOwners
<1> QED
  BY <1>1, <1>2, <1>3, <1>4, <1>5, <1>6, <1>7, <1>8, <1>9, BootstrapOwners, InstallOwners
  DEF Call

LEMMA OwnersStep ==
  ASSUME Control, HeapOK, Owners, panic = "no", NEW t \in Threads, Step(t)
  PROVE  Owners'
BY CallOwners, DropOwners DEF Step, Control, ControlOK
-----------------------------------------------------------------------------
LEMMA VMStart == VMInit => VMInv
<1> SUFFICES ASSUME VMInit PROVE VMInv
  OBVIOUS
<1> USE PlacesAssumption, RangeAssumption
<1>1. /\ live = [h \in Handles |-> Nothing] /\ map = {} /\ installed = "bootstrap"
      /\ start = RegionStart /\ heap = [base |-> -1, len |-> 0] /\ watermark = 0
      /\ pc = [t \in Threads |-> "idle"] /\ regionFreed = FALSE
  BY DEF VMInit, Init
<1>2. HeapOK
  BY <1>1 DEF HeapOK
<1>3. LiveOK /\ KeysOK /\ \A h \in Handles : ~ Owns(h)
  BY <1>1 DEF LiveOK, KeysOK, Owns, Nothing
<1>4. Owners
  BY <1>1, <1>3 DEF Owners, OwnersApart, FromRegion
<1> QED BY <1>2, <1>4, ControlInit DEF VMInv

LEMMA VMStep == VMInv /\ [VMNext]_vmVars => VMInv'
<1> SUFFICES ASSUME VMInv, [VMNext]_vmVars PROVE VMInv'
  OBVIOUS
<1>1. CASE VMNext
  BY <1>1, ControlStep, HeapStep, OwnersStep DEF VMNext, VMInv
<1>2. CASE UNCHANGED vmVars
  <2>1. /\ UNCHANGED <<map, live, panic, installed, start, heap, watermark>>
        /\ UNCHANGED <<heapLock, mapLock, pc, job, layout, pages, regionFreed>>
    BY <1>2 DEF vmVars, vars
  <2>2. Control'
    BY <2>1, QuietControl DEF VMInv, threadVars
  <2>3. HeapOK'
    BY <2>1 DEF VMInv, HeapOK, HeapEnd, BlockEnd
  <2>4. Owners'
    BY <2>1 DEF VMInv, Owners, LiveOK, KeysOK, Overrun, OwnersApart, FromRegion, UnderKeys,
                KeysApart, Owns, OwnEnd, KeyOf, HeapEnd
  <2> QED BY <2>2, <2>3, <2>4 DEF VMInv
<1> QED BY <1>1, <1>2

LEMMA NoCommonPage ==
  ASSUME NEW a \in Int, NEW b \in Int, NEW c \in Int, NEW d \in Int, Apart(a, b, c, d),
         NEW p \in a .. b - 1, p \in c .. d - 1
  PROVE  FALSE
BY DEF Apart

(* The invariant of the address space, the heap and their locks. *)
THEOREM VMInvariance == VMSpec => []VMInv
  BY VMStart, VMStep, PTL DEF VMSpec

(* No page of kernel address space has two owners while the bootstrap      *)
(* region is neither overrun nor given back to the B-tree, and the heap    *)
(* hands out only what is mapped.                                          *)
THEOREM KernelPagesDisjoint == VMSpec => []PagesDisjoint
<1>1. VMInv => PagesDisjoint
  <2> SUFFICES ASSUME VMInv PROVE PagesDisjoint
    OBVIOUS
  <2> USE PlacesAssumption, RangeAssumption
  <2>1. LiveOK /\ HeapOK /\ (~ Overrun /\ ~ regionFreed => OwnersApart)
    BY DEF VMInv, Owners
  <2>2. \A h \in Handles : /\ live[h].base \in Nat /\ live[h].len \in Nat
                          /\ OwnEnd(h) = live[h].base + live[h].len
                          /\ Held(h) = live[h].base .. OwnEnd(h) - 1
    BY <2>1 DEF LiveOK, OwnEnd, Held, Pages
  <2>3. heap.base # -1 => watermark <= HeapEnd * PageCells
    BY <2>1 DEF HeapOK
  <2>4. heap.base \in Int /\ heap.len \in Nat /\ HeapEnd = heap.base + heap.len
    BY <2>1 DEF HeapOK, HeapEnd
  <2>5. ASSUME OwnersApart PROVE NoOverlap
    <3> SUFFICES ASSUME NEW g \in Handles, NEW h \in Handles, g # h,
                        NEW p \in Held(g), p \in Held(h)
                 PROVE  FALSE
      BY DEF NoOverlap
    <3>1. Owns(g) /\ Owns(h)
      BY <2>2 DEF Owns
    <3>2. Apart(live[g].base, OwnEnd(g), live[h].base, OwnEnd(h))
      BY <2>5, <3>1 DEF OwnersApart
    <3>3. p \in live[g].base .. OwnEnd(g) - 1 /\ p \in live[h].base .. OwnEnd(h) - 1
      BY <2>2
    <3>4. \A i \in Handles : OwnEnd(i) \in Int /\ live[i].base \in Int
      BY <2>2
    <3> QED BY <3>2, <3>3, <3>4, NoCommonPage
  <2>6. ASSUME OwnersApart, NEW h \in Handles
        PROVE  Held(h) \intersect (HeapPages \union Pages(UsedStart, UsedEnd)) = {}
    <3> SUFFICES ASSUME NEW p \in Held(h), p \in HeapPages \/ p \in Pages(UsedStart, UsedEnd)
                 PROVE  FALSE
      OBVIOUS
    <3>1. Owns(h)
      BY <2>2 DEF Owns
    <3>2. CASE p \in HeapPages
      <4>1. heap.len > 0
        BY <2>4, <3>2 DEF HeapPages, Pages
      <4>2. Apart(live[h].base, OwnEnd(h), heap.base, HeapEnd)
        BY <2>6, <3>1, <4>1 DEF OwnersApart
      <4>3. p \in live[h].base .. OwnEnd(h) - 1 /\ p \in heap.base .. HeapEnd - 1
        BY <2>2, <3>2 DEF HeapPages, Pages
      <4>4. OwnEnd(h) \in Int /\ live[h].base \in Int /\ HeapEnd \in Int
        <5>1. live[h].base \in Nat /\ live[h].len \in Nat
              /\ OwnEnd(h) = live[h].base + live[h].len
          BY <2>2
        <5>2. live[h].base \in Int /\ OwnEnd(h) \in Int
          BY <5>1
        <5>3. HeapEnd \in Int
          BY <2>4
        <5> QED BY <5>2, <5>3
      <4> QED BY <2>4, <4>2, <4>3, <4>4, NoCommonPage
    <3>3. CASE p \in Pages(UsedStart, UsedEnd)
      <4>1. Apart(live[h].base, OwnEnd(h), UsedStart, UsedEnd)
        BY <2>6, <3>1 DEF OwnersApart
      <4>2. p \in live[h].base .. OwnEnd(h) - 1
        BY <2>2
      <4>3. p \in UsedStart .. UsedEnd - 1
        BY <3>3 DEF Pages
      <4>4. live[h].base \in Nat /\ live[h].len \in Nat
            /\ OwnEnd(h) = live[h].base + live[h].len
        BY <2>2
      <4>5. live[h].base \in Int /\ OwnEnd(h) \in Int
        BY <4>4
      <4>6. UsedStart \in Int /\ UsedEnd \in Int
        BY PlacesAssumption, RangeAssumption
      <4> QED BY <4>1, <4>2, <4>3, <4>5, <4>6, NoCommonPage
    <3> QED BY <3>2, <3>3
  <2> QED BY <2>1, <2>3, <2>5, <2>6 DEF PagesDisjoint
<1> QED BY <1>1, VMInvariance, PTL

(* A panic of allocate_contiguous is for want of space, or because the     *)
(* heap has pages behind the end of the range.                             *)
LEMMA ChoosePanics ==
  ASSUME UnderKeys, NEW n \in 1 .. MaxPages, allocate_panics(n)
  PROVE  panic' = "todo" \/ (panic' = "overflow" /\ HeapEnd > RangeEnd)
<1>1. KeysOK /\ KeysApart /\ map # {}
  BY DEF UnderKeys
<1>2. ~ PlaceTaken(n)
  BY <1>1, PlaceIsFree DEF PlaceTaken
<1>3. Overflows(n) => HeapEnd > RangeEnd
  <2>1. \A k \in map : k.start \in Nat /\ k.end \in Nat /\ RangeStart <= k.start
    BY <1>1 DEF KeysOK, KeysApart
  <2>2. \A k \in map : ~ k.start < RangeStart
    BY <2>1, RangeAssumption
  <2>3. \A k \in map : RangeEnd < k.end => HeapEnd > RangeEnd
    <3> SUFFICES ASSUME NEW k \in map, RangeEnd < k.end PROVE HeapEnd > RangeEnd
      OBVIOUS
    <3>1. k.end > RangeEnd
      BY <2>1, RangeAssumption
    <3> QED BY <3>1 DEF UnderKeys
  <2> QED BY <2>2, <2>3 DEF Overflows
<1> QED BY <1>2, <1>3 DEF allocate_panics, Fails, Panic

(* No expect, debug_assert or unreachable of the allocators fails, with    *)
(* the exceptions that the property names.                                 *)
THEOREM AllocatorAssertionsHold == VMSpec => AssertionsHold
<1> DEFINE A == \/ panic' \in {"no", "todo", "alloc_error", "heap", "map_page"}
                \/ Overrun \/ regionFreed'
                \/ panic' = "overflow" /\ HeapEnd > RangeEnd
<1>1. VMInv /\ [VMNext]_vmVars => [A]_vmVars
  <2> SUFFICES ASSUME VMInv, panic = "no", ~ Overrun, ~ regionFreed',
                      NEW t \in Threads, Step(t)
               PROVE  A
    BY DEF VMNext
  <2>0. ~ regionFreed
    BY DEF Step, DropPages, VMInv, Owners
  <2>1. Control /\ HeapOK /\ LiveOK /\ (installed = "btree" => UnderKeys)
    BY <2>0 DEF VMInv, Owners
  <2>2. CASE PagesChoose(t)
    <3>1. pc[t] = "choose" /\ (allocate_panics(pages[t].n) \/ UNCHANGED panic)
      BY <2>2 DEF PagesChoose, vars
    <3>2. pages[t].n \in 1 .. MaxPages /\ installed = "btree"
      BY <2>1, <3>1, NobodyAssumption DEF Control, MapLockOK, WithMap
    <3> QED BY <2>1, <3>1, <3>2, ChoosePanics
  <2>3. CASE DropPages(t)
    <3>1. ASSUME NEW h \in Handles, installed = "btree", deallocate_contiguous(h),
                 live[h].base \notin Pages(RegionStart, RegionEnd)
          PROVE  A
      <4>1. Owns(h)
        BY <3>1 DEF deallocate_contiguous, Owns
      <4>2. PICK k \in map :
              PointEqual(live[h].base, k) /\ (UNCHANGED panic \/ k.len # live[h].len)
        BY <2>1, <3>1, <4>1, FindsKey DEF deallocate_contiguous
      <4>3. LiveOK /\ UnderKeys /\ PointEqual(live[h].base, k)
        BY <2>1, <3>1, <4>2
      <4>4. k = KeyOf(h)
        BY <3>1, <4>1, <4>3, DropKey
      <4> QED BY <4>2, <4>4 DEF KeyOf, Key
    <3> QED BY <2>3, <3>1 DEF DropPages
  <2>4. CASE HeapNew(t)
    BY <2>4 DEF HeapNew, Panic
  <2>5. ASSUME NEW ok, HeapReturns(t, ok) PROVE A
    BY <2>5 DEF HeapReturns, Panic
  <2>6. CASE HeapFits(t) \/ HeapGrows(t) \/ GrowLoad(t) \/ GrowExchange(t) \/ GrowInsert(t)
    BY <2>5, <2>6
    DEF HeapFits, HeapGrows, GrowLoad, GrowExchange, GrowInsert, HeapGrown, HeapNotGrown, Panic
  <2>7. CASE HeapCall(t) \/ LockHeap(t) \/ GrowLockMap(t) \/ PagesBootstrap(t)
             \/ PagesLockMap(t) \/ PagesInsert(t) \/ BuildBtree(t) \/ Install(t)
    BY <2>7
    DEF HeapCall, LockHeap, GrowLockMap, PagesBootstrap, PagesLockMap, PagesInsert,
        allocate_contiguous, BuildBtree, Install, vars
  <2> QED BY <2>2, <2>3, <2>4, <2>6, <2>7 DEF Step, Call
<1> QED BY <1>1, VMInvariance, PTL DEF VMSpec, AssertionsHold
=============================================================================
