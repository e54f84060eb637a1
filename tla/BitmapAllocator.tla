--------------------------- MODULE BitmapAllocator ---------------------------
(***************************************************************************)
(* The bitmap allocator of physical frames (bitmap_allocator/src/lib.rs)   *)
(* and the OwnedFrames objects that own what it hands out                  *)
(* (kernel_api/src/memory/physical.rs).                                    *)
(*                                                                         *)
(* An entry of the bitmap is the set of its bits that are 1, the free      *)
(* ones.  The code packs size_of::<usize>() frames into a word, WordSize   *)
(* here; the higher bits of the word stay 0.  Every method runs under the  *)
(* allocator's mutex, so that a call is one step; BitmapCalls takes the    *)
(* searches apart.                                                         *)
(***************************************************************************)
EXTENDS BitmapConstants

VARIABLES
  bitmap,      \* BitmapAllocator.bitmap
  pool,        \* the frames of Config.regions
  shared,      \* whether the allocator has been published
  live,        \* live[h]: the frames handle h owns; len = 0 when it owns none
  reply,       \* the last request that was answered, and its answer
  panicked     \* an unwrap or expect has failed

vars == <<bitmap, pool, shared, live, reply, panicked>>

AllocError == -1
Nothing == [base |-> 0, len |-> 0]

Length == FrameCount \div WordSize    \* bitmap.len()
Words == 0 .. Length - 1
Bits == 0 .. WordSize - 1
last_frame == FirstFrame + Length * WordSize
InRange == FirstFrame .. last_frame - 1

(* Mutant: a word holds as many frames as it has bits. *)
FrameAtWide(w, b) == FirstFrame + w * (8 * WordSize) + b

(* frame_to_indices, and the way back. *)
WordOf(f) == (f - FirstFrame) \div WordSize
BitOf(f) == (f - FirstFrame) % WordSize
FrameAt(w, b) == FirstFrame + w * WordSize + b

(* get_frame; a frame out of range is not free. *)
IsFree(f) == f \in InRange /\ BitOf(f) \in bitmap[WordOf(f)]

(* Mutant: a frame's bit is set in the neighbouring word as well. *)
set_free_spills(map, S) ==
  [w \in Words |->
     map[w] \union {BitOf(f) : f \in {g \in S : WordOf(g) \in {w, w - 1}}}]

(* set_frame, for each of the frames S, all in range. *)
set_free(map, S) ==
  [w \in Words |-> map[w] \union {BitOf(f) : f \in {g \in S : WordOf(g) = w}}]
set_allocated(map, S) ==
  [w \in Words |-> map[w] \ {BitOf(f) : f \in {g \in S : WordOf(g) = w}}]

(* The n frames from base on. *)
Run(base, n) == base .. base + n - 1
Held(h) == Run(live[h].base, live[h].len)

Answer(op, n, base) == reply' = [op |-> op, frames |-> n, base |-> base]
Own(h, base, n) == live' = [live EXCEPT ![h] = [base |-> base, len |-> n]]

-----------------------------------------------------------------------------
(* SizedBackingAllocator::new: the unwrap fails on a frame out of range. *)
new ==
  /\ panicked = ~ (pool \subseteq InRange)
  /\ bitmap = set_free([w \in Words |-> {}], pool \intersect InRange)
  /\ shared = FALSE
  /\ live = [h \in Handles |-> Nothing]
  /\ reply = [op |-> "any", frames |-> 0, base |-> 0]

Init == pool \in Pools /\ new

(* push: the frames of the region are marked, those out of range skipped. *)
push(lo, hi) == bitmap' = set_allocated(bitmap, (lo .. hi - 1) \intersect InRange)

(* An allocator used before this one pushes what it handed out: n frames   *)
(* of the region may already be owned, by the handle h.                    *)
handover(lo, hi, h, base, n) ==
  /\ ~ shared /\ ~ panicked
  /\ live[h].len = 0
  /\ Run(base, n) \subseteq (lo .. hi - 1) \intersect pool
  /\ \A g \in Handles : Held(g) \intersect Run(base, n) = {}
  /\ push(lo, hi)
  /\ Own(h, base, n)
  /\ UNCHANGED <<pool, shared, reply, panicked>>

(* The allocator becomes the global one (init_highmem), and only allocation *)
(* and deallocation are left.                                               *)
Publish ==
  /\ ~ shared /\ ~ panicked
  /\ shared' = TRUE
  /\ UNCHANGED <<bitmap, pool, live, reply, panicked>>

-----------------------------------------------------------------------------
(* The lowest bit of the first word that has one. *)
allocate_one(h) ==
  \E w \in Words : \E b \in bitmap[w] :
    /\ \A c \in bitmap[w] : b <= c
    /\ \A v \in Words : v < w => bitmap[v] = {}
    /\ bitmap' = [bitmap EXCEPT ![w] = @ \ {b}]
    /\ Own(h, FrameAt(w, b), 1)
    /\ Answer("any", 1, FrameAt(w, b))

(* The slides of word w at which the mask of n bits matches.  The loop runs *)
(* from the lowest set bit, below which no slide matches.                   *)
Slides(w, n) ==
  {s \in 0 .. WordSize - n - 1 : n <= WordSize /\ Run(s, n) \subseteq bitmap[w]}

allocate_multiple_fast(h, n) ==
  \E w \in Words : \E s \in Slides(w, n) :
    /\ \A t \in Slides(w, n) : s <= t
    /\ \A v \in Words : v < w => Slides(v, n) = {}
    /\ bitmap' = [bitmap EXCEPT ![w] = @ \ Run(s, n)]
    /\ Own(h, FrameAt(w, s), n)
    /\ Answer("any", n, FrameAt(w, s))

(* The frames at which a run of n free frames starts. *)
Runs(n) == {f \in InRange : \A g \in Run(f, n) : IsFree(g)}

allocate_multiple_slow(h, n) ==
  \E f \in Runs(n) :
    /\ \A w \in Words : Slides(w, n) = {}
    /\ \A g \in Runs(n) : f <= g
    /\ bitmap' = set_allocated(bitmap, Run(f, n))
    /\ Own(h, f, n)
    /\ Answer("any", n, f)

allocate_contiguous(h, n) ==
  /\ live[h].len = 0
  /\ \/ n = 1 /\ allocate_one(h)
     \/ n > 1 /\ allocate_multiple_fast(h, n)
     \/ n > 1 /\ allocate_multiple_slow(h, n)

(* Neither path finds the frames. *)
allocation_fails(n) ==
  /\ \/ n = 1 /\ \A w \in Words : bitmap[w] = {}
     \/ n > 1 /\ (\A w \in Words : Slides(w, n) = {}) /\ Runs(n) = {}
  /\ Answer("any", n, AllocError)
  /\ UNCHANGED <<bitmap, live>>

(* allocate_at for SpecificLocation::At; the other two are todo!(). *)
allocate_at(h, addr, n) ==
  IF \A f \in Run(addr, n) : IsFree(f)
    THEN /\ bitmap' = set_allocated(bitmap, Run(addr, n))
         /\ Own(h, addr, n)
         /\ Answer("at", n, addr)
    ELSE Answer("at", n, AllocError) /\ UNCHANGED <<bitmap, live>>

(* Both allocation methods, asked for no frames. *)
allocate_none(op) == Answer(op, 0, 0) /\ UNCHANGED <<bitmap, live>>

(* The drop of an OwnedFrames: deallocate_contiguous frees frame after     *)
(* frame, and its expect fails at the first that is out of range.          *)
deallocate_contiguous(h) ==
  /\ live[h].len > 0
  /\ panicked' = ~ (Held(h) \subseteq InRange)
  /\ bitmap' = set_free(bitmap,
                        {f \in Held(h) : live[h].base .. f \subseteq InRange})
  /\ live' = [live EXCEPT ![h] = Nothing]
  /\ UNCHANGED <<pool, shared, reply>>

Call ==
  /\ shared /\ ~ panicked
  /\ \/ \E h \in Handles :
          \/ \E n \in 1 .. MaxFrames : allocate_contiguous(h, n)
          \/ /\ live[h].len = 0
             /\ \E f \in InRange, n \in 1 .. MaxFrames : allocate_at(h, f, n)
     \/ \E n \in 1 .. MaxFrames : allocation_fails(n)
     \/ \E op \in {"any", "at"} : allocate_none(op)
  /\ UNCHANGED <<pool, shared, panicked>>

Deallocate ==
  /\ shared /\ ~ panicked
  /\ \E h \in Handles : deallocate_contiguous(h)

Handover ==
  \E lo, hi \in FirstFrame .. FirstFrame + FrameCount, h \in Handles,
     n \in 0 .. MaxFrames :
    handover(lo, hi, h, IF n = 0 THEN 0 ELSE lo, n)

Next == Handover \/ Publish \/ Call \/ Deallocate

Spec == Init /\ [][Next]_vars
-----------------------------------------------------------------------------
(* Every variable has its type; the bits above the WordSize lowest ones of *)
(* a word, for which no frame exists, stay 0.                              *)
TypeOK ==
  /\ bitmap \in [Words -> SUBSET Bits]
  /\ pool \in SUBSET Nat
  /\ shared \in BOOLEAN
  /\ live \in [Handles -> [base : Nat, len : 0 .. MaxFrames]]
  /\ reply \in [op : {"any", "at"}, frames : 0 .. MaxFrames,
                base : Nat \union {AllocError}]
  /\ panicked \in BOOLEAN

(* No two OwnedFrames own the same frame (the invariant the type is        *)
(* documented with), whichever of the allocation paths they came from.     *)
NoOverlap ==
  \A g, h \in Handles : g # h => Held(g) \intersect Held(h) = {}

(* A frame that is owned is not marked free, so that no path of the        *)
(* allocator can hand it out again.                                        *)
OwnedNotFree == \A h \in Handles : \A f \in Held(h) : ~ IsFree(f)

(* Only frames of Config.regions are handed out or marked free. *)
OnlyUsable ==
  ~ panicked => /\ \A h \in Handles : Held(h) \subseteq pool
                /\ \A f \in InRange : IsFree(f) => f \in pool

(* An allocation fails only when there is no free run of that length: what  *)
(* the fast path misses, a run that ends with its word or crosses words,    *)
(* the slow path finds.                                                     *)
FailsOnlyWhenFull ==
  [][reply'.op = "any" /\ reply'.base = AllocError /\ reply' # reply
       => \A f \in InRange :
            ~ Run(f, reply'.frames) \subseteq {g \in InRange : IsFree(g)}]_vars

(* Once constructed the allocator never panics: what is freed is in range.  *)
NoPanic == [][panicked' = panicked]_vars

(* The allocator implements the contract of BackingAllocator. *)
Contract == INSTANCE FrameAllocator
  WITH free <- {f \in InRange : IsFree(f)}, Frames <- InRange
ImplementsContract == Contract!Spec
=============================================================================
