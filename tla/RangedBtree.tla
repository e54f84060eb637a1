----------------------------- MODULE RangedBtree -----------------------------
(***************************************************************************)
(* The allocator of kernel address space (ranged_btree_allocator), over a  *)
(* map keyed by ranges of pages (ranged_btree), and the OwnedPages objects *)
(* that own what it hands out (kernel_api/src/memory/virtual.rs).          *)
(*                                                                         *)
(* Pages are numbers.  Every call holds the mutex of the map, so that a    *)
(* call is one step.  The BTreeMap itself is the standard library's: a set *)
(* of keys in which a lookup finds a key that compares equal.              *)
(***************************************************************************)
EXTENDS Integers

CONSTANTS
  RangeStart,   \* RangedBtreeAllocator.range
  RangeEnd,
  Handles,      \* the OwnedPages objects that may exist
  MaxPages      \* bound: pages in one request

ASSUME RangeAssumption ==
  /\ RangeStart \in Nat /\ RangeEnd \in Nat
  /\ MaxPages \in Nat

VARIABLES
  map,          \* RangedBTreeMap: its keys, each with its Meta.len
  live,         \* live[h]: the pages handle h owns; len = 0 when it owns none
  panic         \* "no", or what failed

vars == <<map, live, panic>>

Nothing == [base |-> 0, len |-> 0]

(* The pages of a range, and those of a handle. *)
Pages(start, end) == start .. end - 1
Held(h) == Pages(live[h].base, live[h].base + live[h].len)

(* The key type's Ord: two ranges, and a point with a range. *)
Equal(a, b) == ~ a.start >= b.end /\ ~ a.end <= b.start
Less(a, b) == ~ a.start >= b.end /\ a.end <= b.start
PointEqual(p, r) == ~ r.start > p /\ ~ r.end <= p

(* first_key_value and last_key_value. *)
First(k) == k \in map /\ \A j \in map : j = k \/ Less(k, j)
Last(k) == k \in map /\ \A j \in map : j = k \/ Less(j, k)

Key(start, n) == [start |-> start, end |-> start + n, len |-> n]

(* try_insert succeeds unless a key compares equal. *)
Vacant(m, key) == \A k \in m : ~ Equal(k, key)
Insert(key) == Vacant(map, key) /\ map' = map \union {key}

(* add_allocations: a range that meets the allocator's is entered as it    *)
(* is, with the length of the part inside; a failure to insert is ignored. *)
add_allocation(m, start, end) ==
  LET lo == IF start > RangeStart THEN start ELSE RangeStart
      hi == IF end < RangeEnd THEN end ELSE RangeEnd
      key == [start |-> start, end |-> end, len |-> hi - lo]
  IN  IF lo < hi /\ Vacant(m, key) THEN m \union {key} ELSE m

Own(h, base, n) == live' = [live EXCEPT ![h] = [base |-> base, len |-> n]]

(* A failed assertion ends the call.  The kernel stops unless it is caught. *)
Panic(what) == panic' = what

Init ==
  /\ map = {}
  /\ live = [h \in Handles |-> Nothing]
  /\ panic = "no"
-----------------------------------------------------------------------------
(* hi - lo >= n in usize: a release build wraps a negative difference, a   *)
(* debug build panics on it (Overflows).                                   *)
AtLeast(hi, lo, n) == hi - lo >= n \/ hi < lo

InFront(n) == map = {} \/ \E k \in map : First(k) /\ AtLeast(k.start, RangeStart, n)

(* Mutant: the last key's start is taken for its end. *)
PlaceAtStart(at, n) ==
  \/ InFront(n) /\ at = RangeStart
  \/ ~ InFront(n) /\ \E k \in map : Last(k) /\ at = k.start

(* The place at which n pages go, if there is one: the front, or behind    *)
(* the last key.  Gaps between keys are not looked at.                     *)
Place(at, n) ==
  \/ InFront(n) /\ at = RangeStart
  \/ /\ ~ InFront(n)
     /\ \E k \in map : Last(k) /\ AtLeast(RangeEnd, k.end, n) /\ at = k.end

Overflows(n) ==
  \/ \E k \in map : First(k) /\ k.start < RangeStart
  \/ ~ InFront(n) /\ \E k \in map : Last(k) /\ RangeEnd < k.end

HasPlace(n) ==
  InFront(n) \/ \E k \in map : Last(k) /\ AtLeast(RangeEnd, k.end, n)

(* The three ways out of allocate_contiguous that do not return Ok: the    *)
(* expect on the insertion, todo!(), the subtraction of a debug build.     *)
PlaceTaken(n) ==
  \E at \in {RangeStart} \union {k.end : k \in map} :
    Place(at, n) /\ ~ Vacant(map, Key(at, n))

Fails(what, n) ==
  \/ what = "expect" /\ PlaceTaken(n)
  \/ what = "todo" /\ ~ HasPlace(n)
  \/ what = "overflow" /\ Overflows(n)

allocate_panics(n) ==
  /\ \E what \in {"expect", "todo", "overflow"} : Fails(what, n) /\ Panic(what)
  /\ UNCHANGED <<map, live>>

allocate_contiguous(h, n) ==
  /\ live[h].len = 0
  /\ \E at \in {RangeStart} \union {k.end : k \in map} :
       Place(at, n) /\ Insert(Key(at, n)) /\ Own(h, at, n)
  /\ UNCHANGED panic

(* Success; a failure changes nothing. *)
allocate_contiguous_at(h, at, n) ==
  /\ live[h].len = 0
  /\ Insert(Key(at, n))
  /\ Own(h, at, n)
  /\ UNCHANGED panic

(* The drop of an OwnedPages: the key at its first page is removed, and    *)
(* its length compared.  The comparison is a debug_assert: a release build *)
(* goes on without the key, whatever its length.                           *)
deallocate_contiguous(h) ==
  /\ live[h].len > 0
  /\ \/ \E k \in map :
          /\ PointEqual(live[h].base, k)
          /\ map' = map \ {k}
          /\ \/ UNCHANGED panic
             \/ k.len # live[h].len /\ Panic("length")
     \/ /\ \A k \in map : ~ PointEqual(live[h].base, k)
        /\ Panic("unreachable")
        /\ UNCHANGED map
  /\ live' = [live EXCEPT ![h] = Nothing]

(* Reservations are made before the allocator is shared; that they could   *)
(* come at any time does not matter to what follows.                       *)
Reserve ==
  /\ \E s, e \in RangeStart .. RangeEnd : map' = add_allocation(map, s, e)
  /\ UNCHANGED <<live, panic>>

Next ==
  /\ panic = "no"
  /\ \/ Reserve
     \/ \E h \in Handles :
          \/ \E n \in 1 .. MaxPages :
               \/ allocate_contiguous(h, n)
               \/ \E at \in RangeStart .. RangeEnd : allocate_contiguous_at(h, at, n)
          \/ deallocate_contiguous(h)
     \/ \E n \in 1 .. MaxPages : allocate_panics(n)

Spec == Init /\ [][Next]_vars
-----------------------------------------------------------------------------
(* Every variable has its type. *)
TypeOK ==
  /\ map \subseteq [start : Nat, end : Nat, len : Nat]
  /\ live \in [Handles -> [base : Nat, len : 0 .. MaxPages]]
  /\ panic \in {"no", "expect", "todo", "overflow", "length", "unreachable"}

(* No two OwnedPages own the same page, whether their pages were taken     *)
(* from the front, from behind the last key, or at a given place.          *)
NoOverlap == \A g, h \in Handles : g # h => Held(g) \intersect Held(h) = {}

(* The drop of what the allocator handed out finds its key, the whole of   *)
(* it and no other's: neither unreachable!() nor the debug_assert of       *)
(* deallocate_contiguous is reached.                                       *)
DropsFindTheirKey == panic \notin {"length", "unreachable"}

(* An insertion where allocate_contiguous just checked the region is free  *)
(* does not fail, even where a subtraction of the check wrapped around.    *)
InsertNeverFails == panic # "expect"
=============================================================================
