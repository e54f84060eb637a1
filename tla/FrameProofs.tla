----------------------------- MODULE FrameProofs -----------------------------
(***************************************************************************)
(* Part 1: the bitmap allocator keeps owned frames disjoint and            *)
(* unavailable, for every range, word size, pool and number of handles,    *)
(* and implements the contract of BackingAllocator.                        *)
(* Part 2: its search loops return a free run, the slow one the first, and *)
(* fail only when there is none, for every bitmap, word size and request.  *)
(* Part 3: the allocator with these loops implements the one whose calls   *)
(* are one step, and so has its properties.                                *)
(* Part 4: merging the sorted memory map and filtering it keeps its order  *)
(* and its usable frames, for a map of any length.                         *)
(***************************************************************************)
EXTENDS BitmapCalls, BootMemoryMap, WellFoundedInduction, TLAPS

(* A leaf that names no prover is tried with Zenon, then with the SMT solver. *)
USE ZenonT(30), SMTT(30)

-----------------------------------------------------------------------------
(* Part 1: BitmapAllocator. *)

(* Quotient and remainder make up the number. *)
LEMMA DivMod ==
  ASSUME NEW x \in Nat, NEW k \in Nat \ {0}
  PROVE  /\ x \div k \in Nat
         /\ x % k \in 0 .. k - 1
         /\ x = ((x \div k) * k) + (x % k)
OBVIOUS

(* No other quotient and remainder do. *)
LEMMA DivUnique ==
  ASSUME NEW k \in Nat \ {0}, NEW q \in Nat, NEW r \in 0 .. k - 1
  PROVE  /\ (q * k + r) \div k = q
         /\ (q * k + r) % k = r
OBVIOUS

(* A frame below the end of the bitmap is in one of its words. *)
LEMMA DivBelow ==
  ASSUME NEW x \in Nat, NEW k \in Nat \ {0}, NEW m \in Nat, x < m * k
  PROVE  x \div k < m
OBVIOUS

(* A bit of one of the words is a frame below the end. *)
LEMMA MulBelow ==
  ASSUME NEW k \in Nat \ {0}, NEW m \in Nat, NEW q \in 0 .. m - 1,
         NEW r \in 0 .. k - 1
  PROVE  /\ q * k + r \in Nat
         /\ q * k + r < m * k
OBVIOUS

-----------------------------------------------------------------------------
(* frame_to_indices and its way back are inverse to each other. *)
LEMMA FrameIndices ==
  ASSUME NEW f \in InRange
  PROVE  /\ WordOf(f) \in Words
         /\ BitOf(f) \in Bits
         /\ f = FrameAt(WordOf(f), BitOf(f))
         /\ f \in Nat
  <1> DEFINE m == Length
             x == f - FirstFrame
  <1>1. m \in Nat
    BY BitmapAssumption, DivMod DEF Length
  <1>2. x \in Nat /\ x < m * WordSize /\ f = FirstFrame + x
    <2>1. m * WordSize \in Nat
      BY SMTT(30), <1>1, BitmapAssumption
    <2> HIDE DEF m
    <2> QED
      BY <2>1, BitmapAssumption DEF InRange, last_frame, m
  <1> HIDE DEF m, x
  <1>3. x \div WordSize < m
    BY <1>1, <1>2, DivBelow, BitmapAssumption
  <1>4. /\ x \div WordSize \in Nat
        /\ x % WordSize \in 0 .. WordSize - 1
        /\ x = ((x \div WordSize) * WordSize) + (x % WordSize)
    BY <1>2, DivMod, BitmapAssumption
  <1>5. WordOf(f) = x \div WordSize /\ BitOf(f) = x % WordSize
    BY DEF WordOf, BitOf, x
  <1>6. (x \div WordSize) * WordSize \in Nat
    BY SMTT(30), <1>4, BitmapAssumption
  <1> QED
    BY SMTT(30), <1>1, <1>2, <1>3, <1>4, <1>5, <1>6, BitmapAssumption
    DEF Words, Bits, FrameAt, m

LEMMA IndicesFrame ==
  ASSUME NEW w \in Words, NEW b \in Bits
  PROVE  /\ FrameAt(w, b) \in InRange
         /\ WordOf(FrameAt(w, b)) = w
         /\ BitOf(FrameAt(w, b)) = b
  <1> DEFINE m == Length
  <1>1. m \in Nat
    BY BitmapAssumption, DivMod DEF Length
  <1> HIDE DEF m
  <1>2. w \in 0 .. m - 1 /\ b \in 0 .. WordSize - 1
    BY DEF Words, Bits, m
  <1>3. /\ w * WordSize + b \in Nat
        /\ w * WordSize + b < m * WordSize
    BY <1>1, <1>2, MulBelow, BitmapAssumption
  <1>4. /\ (w * WordSize + b) \div WordSize = w
        /\ (w * WordSize + b) % WordSize = b
    BY SMTT(30), <1>1, <1>2, DivUnique, BitmapAssumption
  <1>5. m * WordSize \in Nat /\ w * WordSize \in Nat
    BY SMTT(30), <1>1, <1>2, BitmapAssumption
  <1>6. FrameAt(w, b) - FirstFrame = w * WordSize + b
    BY <1>2, <1>5, BitmapAssumption DEF FrameAt
  <1>7. FrameAt(w, b) \in InRange
    BY <1>2, <1>3, <1>5, BitmapAssumption DEF InRange, last_frame, FrameAt, m
  <1> QED
    BY <1>4, <1>6, <1>7 DEF WordOf, BitOf

(* Two frames with the same indices are the same frame. *)
LEMMA IndicesInjective ==
  ASSUME NEW f \in InRange, NEW g \in InRange,
         WordOf(f) = WordOf(g), BitOf(f) = BitOf(g)
  PROVE  f = g
  BY FrameIndices

-----------------------------------------------------------------------------
(* set_frame changes the frames it is given, and no other. *)
LEMMA SetFree ==
  ASSUME NEW map \in [Words -> SUBSET Bits], NEW S \in SUBSET InRange
  PROVE  /\ set_free(map, S) \in [Words -> SUBSET Bits]
         /\ \A f \in InRange :
              BitOf(f) \in set_free(map, S)[WordOf(f)]
                <=> BitOf(f) \in map[WordOf(f)] \/ f \in S
  <1>1. set_free(map, S) \in [Words -> SUBSET Bits]
    BY SMTT(30), FrameIndices DEF set_free
  <1>2. ASSUME NEW f \in InRange
        PROVE  BitOf(f) \in set_free(map, S)[WordOf(f)]
                 <=> BitOf(f) \in map[WordOf(f)] \/ f \in S
    <2>1. WordOf(f) \in Words
      BY FrameIndices
    <2>2. ASSUME NEW g \in S, WordOf(g) = WordOf(f), BitOf(g) = BitOf(f)
          PROVE  f \in S
      BY <2>2, IndicesInjective
    <2> QED
      BY <2>1, <2>2 DEF set_free
  <1> QED
    BY <1>1, <1>2

LEMMA SetAllocated ==
  ASSUME NEW map \in [Words -> SUBSET Bits], NEW S \in SUBSET InRange
  PROVE  /\ set_allocated(map, S) \in [Words -> SUBSET Bits]
         /\ \A f \in InRange :
              BitOf(f) \in set_allocated(map, S)[WordOf(f)]
                <=> BitOf(f) \in map[WordOf(f)] /\ f \notin S
  <1>1. set_allocated(map, S) \in [Words -> SUBSET Bits]
    BY DEF set_allocated
  <1>2. ASSUME NEW f \in InRange
        PROVE  BitOf(f) \in set_allocated(map, S)[WordOf(f)]
                 <=> BitOf(f) \in map[WordOf(f)] /\ f \notin S
    <2>1. WordOf(f) \in Words
      BY FrameIndices
    <2>2. ASSUME NEW g \in S, WordOf(g) = WordOf(f), BitOf(g) = BitOf(f)
          PROVE  f \in S
      BY <2>2, IndicesInjective
    <2> QED
      BY <2>1, <2>2 DEF set_allocated
  <1> QED
    BY <1>1, <1>2

(* A run of bits of one word is a run of frames. *)
LEMMA WordRun ==
  ASSUME NEW w \in Words, NEW s \in Bits, NEW n \in Nat, Run(s, n) \subseteq Bits
  PROVE  \A f \in Int : f \in Run(FrameAt(w, s), n)
           <=> f \in InRange /\ WordOf(f) = w /\ BitOf(f) \in Run(s, n)
  <1> DEFINE base == FirstFrame + w * WordSize
  <1>1. base \in Nat
    BY SMTT(30), BitmapAssumption, DivMod DEF Words, Length
  <1>2. \A b \in Bits : FrameAt(w, b) = base + b
    BY DEF FrameAt
  <1>3. ASSUME NEW f \in Run(FrameAt(w, s), n)
        PROVE  f \in InRange /\ WordOf(f) = w /\ BitOf(f) \in Run(s, n)
    <2>1. f - base \in Run(s, n) /\ f = base + (f - base)
      BY <1>1, <1>2, BitmapAssumption DEF Run, Bits
    <2>2. f = FrameAt(w, f - base)
      BY <2>1, <1>2
    <2> HIDE DEF base
    <2> QED
      BY <2>1, <2>2, IndicesFrame
  <1>4. ASSUME NEW f \in InRange, WordOf(f) = w, BitOf(f) \in Run(s, n)
        PROVE  f \in Run(FrameAt(w, s), n)
    <2>1. f = base + BitOf(f)
      BY <1>4, <1>2, FrameIndices
    <2> HIDE DEF base
    <2> QED
      BY SMTT(30), <2>1, <1>1, <1>2, <1>4, BitmapAssumption DEF Run, Bits
  <1> QED
    BY <1>3, <1>4

(* To mark them is to clear these bits of the word. *)
LEMMA MarkWordRun ==
  ASSUME NEW map \in [Words -> SUBSET Bits], NEW w \in Words, NEW s \in Bits,
         NEW n \in Nat, Run(s, n) \subseteq Bits
  PROVE  set_allocated(map, Run(FrameAt(w, s), n)) = [map EXCEPT ![w] = @ \ Run(s, n)]
  <1> DEFINE S == Run(FrameAt(w, s), n)
             bits(v) == {BitOf(f) : f \in {g \in S : WordOf(g) = v}}
  <1>1. \A f \in S : f \in Int
    BY DEF Run
  <1>2. \A f \in Int : f \in S
          <=> f \in InRange /\ WordOf(f) = w /\ BitOf(f) \in Run(s, n)
    BY WordRun
  <1>3. ASSUME NEW b \in Run(s, n) PROVE b \in bits(w)
    <2>1. /\ FrameAt(w, b) \in InRange /\ WordOf(FrameAt(w, b)) = w
          /\ BitOf(FrameAt(w, b)) = b
      BY IndicesFrame
    <2>2. FrameAt(w, b) \in Int
      BY <2>1, FrameIndices
    <2>3. FrameAt(w, b) \in S
      BY <1>2, <2>1, <2>2
    <2> HIDE DEF S
    <2> QED
      BY <2>1, <2>3
  <1>4. bits(w) = Run(s, n)
    <2> HIDE DEF S
    <2> QED
      BY <1>1, <1>2, <1>3
  <1>5. \A v \in Words \ {w} : bits(v) = {}
    <2> HIDE DEF S
    <2> QED
      BY <1>1, <1>2
  <1>6. set_allocated(map, S) = [v \in Words |-> map[v] \ bits(v)]
    BY DEF set_allocated
  <1> HIDE DEF S, bits
  <1>7. set_allocated(map, S) = [map EXCEPT ![w] = @ \ Run(s, n)]
    BY <1>4, <1>5, <1>6
  <1> QED
    BY <1>7 DEF S

-----------------------------------------------------------------------------
(* The inductive invariant.  What is free or owned lies in the pool, and    *)
(* the pool of an allocator that was constructed lies in the range: without *)
(* it the drop of an OwnedFrames might fail its expect.  This much,         *)
(* Contained, is inductive by itself, whether or not what was allocated     *)
(* before this allocator took over is marked in its bitmap.                 *)
PoolInRange == ~ panicked => pool \subseteq InRange

Contained == TypeOK /\ OnlyUsable /\ PoolInRange

IInv == Contained /\ NoOverlap /\ OwnedNotFree

(* The effect of every successful allocation, whichever path it takes. *)
Granted(h, op, base, n) ==
  /\ base \in InRange
  /\ live[h].len = 0
  /\ \A f \in Run(base, n) : IsFree(f)
  /\ bitmap' \in [Words -> SUBSET Bits]
  /\ \A f \in InRange : IsFree(f)' <=> IsFree(f) /\ f \notin Run(base, n)
  /\ Own(h, base, n)
  /\ Answer(op, n, base)

(* A run of one frame. *)
LEMMA RunOfOne ==
  ASSUME NEW f \in Nat
  PROVE  Run(f, 1) = {f}
  BY DEF Run

(* allocate_one hands out a free frame. *)
LEMMA OneGrants ==
  ASSUME TypeOK, NEW h \in Handles, live[h].len = 0, allocate_one(h)
  PROVE  \E base \in InRange : Granted(h, "any", base, 1)
  <1> DEFINE Takes(w, b) == /\ bitmap' = [bitmap EXCEPT ![w] = @ \ {b}]
                            /\ Own(h, FrameAt(w, b), 1)
                            /\ Answer("any", 1, FrameAt(w, b))
  <1>0. PICK w \in Words : \E b \in bitmap[w] : Takes(w, b)
    BY DEF allocate_one
  <1>1. PICK b \in bitmap[w] : Takes(w, b)
    BY <1>0
  <1>2. b \in Bits /\ b \in Nat
    BY SMTT(30), <1>1 DEF TypeOK, Bits
  <1>3. Run(FrameAt(w, b), 1) = {FrameAt(w, b)}
    BY <1>2, IndicesFrame, FrameIndices, RunOfOne
  <1>4. \A f \in InRange : f = FrameAt(w, b) <=> WordOf(f) = w /\ BitOf(f) = b
    BY <1>2, IndicesFrame, FrameIndices
  <1>5. FrameAt(w, b) \in InRange /\ IsFree(FrameAt(w, b))
    BY <1>1, <1>2, IndicesFrame DEF IsFree
  <1>6. bitmap' \in [Words -> SUBSET Bits]
    BY <1>1 DEF TypeOK
  <1>7. \A f \in InRange : IsFree(f)' <=> IsFree(f) /\ f # FrameAt(w, b)
    BY <1>1, <1>4, FrameIndices DEF TypeOK, IsFree
  <1> QED
    BY <1>1, <1>3, <1>5, <1>6, <1>7 DEF Granted

(* A slide at which the mask matches is a run of free frames. *)
LEMMA FastGrants ==
  ASSUME TypeOK, NEW h \in Handles, live[h].len = 0,
         NEW n \in 2 .. MaxFrames, allocate_multiple_fast(h, n)
  PROVE  \E base \in InRange : Granted(h, "any", base, n)
  <1> DEFINE Takes(w, s) == /\ bitmap' = [bitmap EXCEPT ![w] = @ \ Run(s, n)]
                            /\ Own(h, FrameAt(w, s), n)
                            /\ Answer("any", n, FrameAt(w, s))
  <1>0. PICK w \in Words : \E s \in Slides(w, n) : Takes(w, s)
    BY DEF allocate_multiple_fast
  <1>1. PICK s \in Slides(w, n) : Takes(w, s)
    BY <1>0
  <1>2. n \in Nat /\ n > 1
    BY BitmapAssumption
  <1>3. s \in Bits /\ Run(s, n) \subseteq bitmap[w] /\ Run(s, n) \subseteq Bits
    BY SMTT(30), <1>1, <1>2, BitmapAssumption DEF Slides, Bits, TypeOK
  <1>4. \A f \in Int : f \in Run(FrameAt(w, s), n)
          <=> f \in InRange /\ WordOf(f) = w /\ BitOf(f) \in Run(s, n)
    BY <1>2, <1>3, WordRun
  <1>5. FrameAt(w, s) \in InRange
    BY <1>3, IndicesFrame
  <1>6. \A f \in Run(FrameAt(w, s), n) : IsFree(f)
    BY <1>3, <1>4 DEF IsFree, Run
  <1>7. bitmap' \in [Words -> SUBSET Bits]
    BY <1>1 DEF TypeOK
  <1>8. \A f \in InRange :
          IsFree(f)' <=> IsFree(f) /\ f \notin Run(FrameAt(w, s), n)
    BY SMTT(30), <1>1, <1>4, FrameIndices DEF TypeOK, IsFree
  <1> QED
    BY <1>1, <1>5, <1>6, <1>7, <1>8 DEF Granted

(* Frames that are all free are in range, and can be marked. *)
LEMMA MarkGrants ==
  ASSUME TypeOK, NEW h \in Handles, live[h].len = 0,
         NEW n \in 1 .. MaxFrames, NEW base \in InRange, NEW op,
         \A f \in Run(base, n) : IsFree(f),
         bitmap' = set_allocated(bitmap, Run(base, n)),
         Own(h, base, n), Answer(op, n, base)
  PROVE  Granted(h, op, base, n)
  <1>1. Run(base, n) \in SUBSET InRange
    BY DEF IsFree
  <1>2. bitmap \in [Words -> SUBSET Bits]
    BY DEF TypeOK
  <1>3. /\ bitmap' \in [Words -> SUBSET Bits]
        /\ \A f \in InRange : IsFree(f)' <=> IsFree(f) /\ f \notin Run(base, n)
    BY SMTT(30), <1>1, <1>2, SetAllocated DEF IsFree
  <1> QED
    BY <1>3 DEF Granted

LEMMA SlowGrants ==
  ASSUME TypeOK, NEW h \in Handles, live[h].len = 0,
         NEW n \in 2 .. MaxFrames, allocate_multiple_slow(h, n)
  PROVE  \E base \in InRange : Granted(h, "any", base, n)
  <1>1. PICK f \in Runs(n) :
          /\ bitmap' = set_allocated(bitmap, Run(f, n))
          /\ Own(h, f, n)
          /\ Answer("any", n, f)
    BY DEF allocate_multiple_slow
  <1>2. f \in InRange /\ \A g \in Run(f, n) : IsFree(g)
    BY DEF Runs
  <1>3. n \in 1 .. MaxFrames
    BY BitmapAssumption
  <1> QED
    BY <1>1, <1>2, <1>3, MarkGrants

(* Every path of allocate_contiguous hands out free frames. *)
LEMMA ContiguousGrants ==
  ASSUME TypeOK, NEW h \in Handles, NEW n \in 1 .. MaxFrames,
         allocate_contiguous(h, n)
  PROVE  \E base \in InRange : Granted(h, "any", base, n)
  <1>1. CASE n = 1 /\ allocate_one(h)
    BY <1>1, OneGrants DEF allocate_contiguous
  <1>2. CASE n > 1 /\ (allocate_multiple_fast(h, n) \/ allocate_multiple_slow(h, n))
    <2>1. n \in 2 .. MaxFrames
      BY <1>2, BitmapAssumption
    <2> QED
      BY <2>1, <1>2, FastGrants, SlowGrants DEF allocate_contiguous
  <1> QED
    BY <1>1, <1>2 DEF allocate_contiguous

-----------------------------------------------------------------------------
(* A successful allocation keeps the invariant. *)
LEMMA GrantHolds ==
  ASSUME TypeOK, NEW h \in Handles, NEW op, NEW n, NEW base, Granted(h, op, base, n)
  PROVE  /\ Held(h)' = Run(base, n)
         /\ \A g \in Handles \ {h} : Held(g)' = Held(g)
  BY DEF TypeOK, Granted, Own, Held

LEMMA GrantContained ==
  ASSUME Contained, NEW h \in Handles, NEW op \in {"any", "at"},
         NEW n \in 1 .. MaxFrames, NEW base \in InRange,
         Granted(h, op, base, n), UNCHANGED <<pool, shared, panicked>>,
         ~ panicked
  PROVE  Contained'
  <1> USE DEF Contained
  <1>1. base \in Nat /\ n \in 0 .. MaxFrames
    BY FrameIndices, BitmapAssumption
  <1>2. TypeOK'
    BY <1>1 DEF TypeOK, Granted, Own, Answer
  <1>3. OnlyUsable'
    <2>1. Run(base, n) \subseteq pool
      BY DEF Granted, OnlyUsable, IsFree
    <2> QED
      BY SMTT(30), <2>1, GrantHolds DEF OnlyUsable, Granted
  <1>4. PoolInRange'
    BY DEF PoolInRange
  <1> QED
    BY <1>2, <1>3, <1>4

LEMMA GrantKeeps ==
  ASSUME IInv, NEW h \in Handles, NEW op \in {"any", "at"},
         NEW n \in 1 .. MaxFrames, NEW base \in InRange,
         Granted(h, op, base, n), UNCHANGED <<pool, shared, panicked>>,
         ~ panicked
  PROVE  IInv'
  <1>1. Contained'
    BY GrantContained DEF IInv
  <1>2. /\ Held(h)' = Run(base, n)
        /\ \A g \in Handles \ {h} : Held(g)' = Held(g)
    BY GrantHolds DEF IInv, Contained
  <1>3. \A g \in Handles \ {h} : Held(g) \intersect Run(base, n) = {}
    BY DEF Granted, IInv, OwnedNotFree
  <1>4. NoOverlap'
    BY SMTT(30), <1>2, <1>3 DEF IInv, NoOverlap
  <1>5. OwnedNotFree'
    <2>1. ASSUME NEW g \in Handles, NEW f \in Held(g)', IsFree(f)'
          PROVE  FALSE
      <3>1. f \in InRange
        BY <2>1 DEF IsFree
      <3>2. IsFree(f) /\ f \notin Run(base, n)
        BY <2>1, <3>1 DEF Granted
      <3> QED
        BY <3>2, <1>2, <2>1 DEF IInv, OwnedNotFree
    <2> QED
      BY <2>1 DEF OwnedNotFree
  <1> QED
    BY <1>1, <1>4, <1>5 DEF IInv

(* The effect of a drop: its frames, all of them, become free. *)
LEMMA DropFrees ==
  ASSUME Contained, NEW h \in Handles, ~ panicked, deallocate_contiguous(h)
  PROVE  /\ panicked' = FALSE
         /\ Held(h) \subseteq InRange
         /\ bitmap' \in [Words -> SUBSET Bits]
         /\ \A f \in InRange : IsFree(f)' <=> IsFree(f) \/ f \in Held(h)
         /\ live' = [live EXCEPT ![h] = Nothing]
  <1> USE DEF Contained
  <1>1. Held(h) \subseteq InRange
    BY DEF OnlyUsable, PoolInRange
  <1>2. ASSUME NEW f \in Held(h)
        PROVE  live[h].base .. f \subseteq InRange
    <2>1. live[h].base \in Nat /\ live[h].len \in Nat /\ f \in Int
      BY SMTT(30), BitmapAssumption DEF TypeOK, Held, Run
    <2>2. live[h].base .. f \subseteq Held(h)
      BY <2>1 DEF Held, Run
    <2> QED
      BY <2>2, <1>1
  <1>3. {f \in Held(h) : live[h].base .. f \subseteq InRange} = Held(h)
    BY <1>2
  <1>4. Held(h) \in SUBSET InRange /\ bitmap \in [Words -> SUBSET Bits]
    BY <1>1 DEF TypeOK
  <1>5. bitmap' = set_free(bitmap, Held(h))
    BY <1>3 DEF deallocate_contiguous
  <1>6. /\ bitmap' \in [Words -> SUBSET Bits]
        /\ \A f \in InRange : IsFree(f)' <=> IsFree(f) \/ f \in Held(h)
    BY <1>4, <1>5, SetFree DEF IsFree
  <1> QED
    BY <1>1, <1>6 DEF deallocate_contiguous

(* A drop keeps the invariant. *)
LEMMA DropHolds ==
  ASSUME TypeOK, NEW h \in Handles, live' = [live EXCEPT ![h] = Nothing]
  PROVE  /\ Held(h)' = {}
         /\ \A g \in Handles \ {h} : Held(g)' = Held(g)
  <1>1. live'[h] = Nothing /\ \A g \in Handles \ {h} : live'[g] = live[g]
    BY DEF TypeOK
  <1> QED
    BY <1>1 DEF Held, Run, Nothing

LEMMA DropContained ==
  ASSUME Contained, NEW h \in Handles, ~ panicked, deallocate_contiguous(h)
  PROVE  Contained'
  <1> USE DEF Contained
  <1>1. /\ panicked' = FALSE
        /\ bitmap' \in [Words -> SUBSET Bits]
        /\ \A f \in InRange : IsFree(f)' <=> IsFree(f) \/ f \in Held(h)
        /\ live' = [live EXCEPT ![h] = Nothing]
    BY DropFrees
  <1>2. UNCHANGED <<pool, shared, reply>>
    BY DEF deallocate_contiguous
  <1>3. TypeOK'
    <2>1. Nothing \in [base : Nat, len : 0 .. MaxFrames]
      BY BitmapAssumption DEF Nothing
    <2>2. live' \in [Handles -> [base : Nat, len : 0 .. MaxFrames]]
      BY <1>1, <2>1 DEF TypeOK
    <2>3. panicked' \in BOOLEAN
      BY <1>1
    <2> QED
      BY <1>1, <1>2, <2>2, <2>3 DEF TypeOK
  <1>4. OnlyUsable'
    BY <1>1, <1>2, DropHolds DEF OnlyUsable
  <1>5. PoolInRange'
    BY <1>2 DEF PoolInRange
  <1> QED
    BY <1>3, <1>4, <1>5

LEMMA DropKeeps ==
  ASSUME IInv, NEW h \in Handles, ~ panicked, deallocate_contiguous(h)
  PROVE  IInv'
  <1>1. Contained'
    BY DropContained DEF IInv
  <1>2. /\ \A f \in InRange : IsFree(f)' <=> IsFree(f) \/ f \in Held(h)
        /\ live' = [live EXCEPT ![h] = Nothing]
    BY DropFrees DEF IInv
  <1>3. /\ Held(h)' = {}
        /\ \A g \in Handles \ {h} : Held(g)' = Held(g)
    BY <1>2, DropHolds DEF IInv, Contained
  <1>4. NoOverlap'
    BY <1>3 DEF IInv, NoOverlap
  <1>5. OwnedNotFree'
    <2>1. ASSUME NEW g \in Handles, NEW f \in Held(g)', IsFree(f)'
          PROVE  FALSE
      <3>1. f \in InRange /\ g # h /\ f \in Held(g)
        BY <2>1, <1>3 DEF IsFree
      <3>2. f \notin Held(h)
        BY <3>1 DEF IInv, Contained, NoOverlap
      <3> QED
        BY <1>2, <2>1, <3>1, <3>2 DEF IInv, Contained, OwnedNotFree
    <2> QED
      BY <2>1 DEF OwnedNotFree
  <1> QED
    BY <1>1, <1>4, <1>5 DEF IInv, Contained

(* The region that is pushed leaves the pool of free frames. *)
LEMMA HandoverMarks ==
  ASSUME TypeOK, NEW lo \in Nat, NEW hi \in Nat, NEW h \in Handles,
         NEW base, NEW n, handover(lo, hi, h, base, n)
  PROVE  /\ bitmap' \in [Words -> SUBSET Bits]
         /\ \A f \in InRange : IsFree(f)' <=> IsFree(f) /\ f \notin lo .. hi - 1
  <1>1. (lo .. hi - 1) \intersect InRange \in SUBSET InRange
    OBVIOUS
  <1>2. bitmap \in [Words -> SUBSET Bits]
    BY DEF TypeOK
  <1> QED
    BY SMTT(30), <1>1, <1>2, SetAllocated DEF IsFree, handover, push

LEMMA HandoverKeeps ==
  ASSUME IInv, NEW lo \in Nat, NEW hi \in Nat, NEW h \in Handles,
         NEW base \in Nat, NEW n \in 0 .. MaxFrames, handover(lo, hi, h, base, n)
  PROVE  IInv'
  <1> USE DEF IInv, Contained
  <1>1. /\ bitmap' \in [Words -> SUBSET Bits]
        /\ \A f \in InRange : IsFree(f)' <=> IsFree(f) /\ f \notin lo .. hi - 1
    BY HandoverMarks
  <1>2. TypeOK'
    BY <1>1 DEF TypeOK, handover, Own
  <1>3. /\ Held(h)' = Run(base, n)
        /\ \A g \in Handles \ {h} : Held(g)' = Held(g)
    BY DEF TypeOK, handover, Own, Held
  <1>4. NoOverlap'
    BY SMTT(30), <1>3 DEF NoOverlap, handover
  <1>5. OwnedNotFree'
    <2>1. ASSUME NEW g \in Handles, NEW f \in Held(g)', IsFree(f)'
          PROVE  FALSE
      <3>1. f \in InRange /\ IsFree(f) /\ f \notin lo .. hi - 1
        BY <2>1, <1>1 DEF IsFree
      <3>2. CASE g = h
        BY <2>1, <3>1, <3>2, <1>3 DEF handover
      <3>3. CASE g # h
        BY <2>1, <3>1, <3>3, <1>3 DEF OwnedNotFree
      <3> QED
        BY <3>2, <3>3
    <2> QED
      BY <2>1 DEF OwnedNotFree
  <1>6. OnlyUsable'
    BY <1>1, <1>3 DEF OnlyUsable, handover
  <1>7. PoolInRange'
    BY DEF PoolInRange, handover
  <1> QED
    BY <1>2, <1>4, <1>5, <1>6, <1>7

(* What is handed over starts in the pool, hence in range. *)
LEMMA HandoverBase ==
  ASSUME IInv, Handover
  PROVE  \E lo, hi \in Nat, h \in Handles, base \in InRange \union {0},
            n \in 0 .. MaxFrames :
           base \in Nat /\ handover(lo, hi, h, base, n)
  <1>1. PICK lo, hi \in FirstFrame .. FirstFrame + FrameCount, h \in Handles,
             n \in 0 .. MaxFrames : handover(lo, hi, h, IF n = 0 THEN 0 ELSE lo, n)
    BY DEF Handover
  <1>2. lo \in Nat /\ hi \in Nat
    BY SMTT(30), BitmapAssumption
  <1>3. CASE n = 0
    BY <1>1, <1>2, <1>3
  <1>4. CASE n # 0
    <2>1. handover(lo, hi, h, lo, n)
      BY <1>1, <1>4
    <2>2. lo \in Run(lo, n)
      BY <1>2, <1>4, BitmapAssumption DEF Run
    <2>3. lo \in InRange
      BY <2>1, <2>2 DEF handover, IInv, Contained, PoolInRange
    <2> QED
      BY <1>2, <2>1, <2>3
  <1> QED
    BY <1>3, <1>4

-----------------------------------------------------------------------------
(* new, with the regions of any pool, establishes the invariant. *)
LEMMA NewIInv ==
  ASSUME pool \in SUBSET Nat, new
  PROVE  IInv /\ \A h \in Handles : live[h] = Nothing
  <1> DEFINE zero == [w \in Words |-> {}]
  <1>1. zero \in [Words -> SUBSET Bits] /\ pool \intersect InRange \in SUBSET InRange
    OBVIOUS
  <1>2. /\ bitmap \in [Words -> SUBSET Bits]
        /\ \A f \in InRange : IsFree(f) <=> f \in pool
    <2>1. \A f \in InRange : BitOf(f) \notin zero[WordOf(f)]
      BY FrameIndices
    <2> HIDE DEF zero
    <2>2. /\ set_free(zero, pool \intersect InRange) \in [Words -> SUBSET Bits]
          /\ \A f \in InRange :
               BitOf(f) \in set_free(zero, pool \intersect InRange)[WordOf(f)]
                 <=> BitOf(f) \in zero[WordOf(f)] \/ f \in pool \intersect InRange
      BY <1>1, SetFree
    <2>3. bitmap = set_free(zero, pool \intersect InRange)
      BY DEF new, zero
    <2> QED
      BY <2>1, <2>2, <2>3 DEF IsFree
  <1>3. TypeOK
    <2>1. Nothing \in [base : Nat, len : 0 .. MaxFrames]
      BY BitmapAssumption DEF Nothing
    <2>2. panicked \in BOOLEAN
      BY DEF new
    <2>3. reply \in [op : {"any", "at"}, frames : 0 .. MaxFrames,
                     base : Nat \union {AllocError}]
      BY SMTT(30), BitmapAssumption DEF new
    <2> QED
      BY <1>2, <2>1, <2>2, <2>3 DEF new, TypeOK
  <1>4. \A h \in Handles : Held(h) = {}
    BY DEF new, Held, Run, Nothing
  <1>5. NoOverlap /\ OwnedNotFree /\ OnlyUsable
    BY <1>2, <1>4 DEF NoOverlap, OwnedNotFree, OnlyUsable
  <1>6. PoolInRange
    BY DEF new, PoolInRange
  <1> QED
    BY <1>3, <1>5, <1>6 DEF IInv, Contained, new

LEMMA InitIInv == Init => IInv
  BY NewIInv, BitmapAssumption DEF Init

(* Steps that only answer, or publish, change no frame. *)
LEMMA QuietContained ==
  ASSUME Contained, bitmap' = bitmap, live' = live, pool' = pool,
         panicked' = panicked, shared' \in BOOLEAN,
         reply' \in [op : {"any", "at"}, frames : 0 .. MaxFrames,
                     base : Nat \union {AllocError}]
  PROVE  Contained'
  <1>1. TypeOK'
    BY DEF Contained, TypeOK
  <1>2. OnlyUsable' /\ PoolInRange'
    BY DEF Contained, OnlyUsable, PoolInRange, Held, IsFree
  <1> QED
    BY <1>1, <1>2 DEF Contained

LEMMA QuietKeeps ==
  ASSUME IInv, bitmap' = bitmap, live' = live, pool' = pool,
         panicked' = panicked, shared' \in BOOLEAN,
         reply' \in [op : {"any", "at"}, frames : 0 .. MaxFrames,
                     base : Nat \union {AllocError}]
  PROVE  IInv'
  <1>1. Contained'
    BY QuietContained DEF IInv
  <1>2. NoOverlap' /\ OwnedNotFree'
    BY DEF IInv, NoOverlap, OwnedNotFree, Held, IsFree
  <1> QED
    BY <1>1, <1>2 DEF IInv

(* What a call does: it grants frames, or refuses them. *)
Refused ==
  /\ UNCHANGED <<bitmap, live>>
  /\ \/ \E n \in 1 .. MaxFrames :
          /\ Runs(n) = {}
          /\ Answer("any", n, AllocError)
     \/ \E f \in InRange, n \in 1 .. MaxFrames :
          /\ ~ \A g \in Run(f, n) : IsFree(g)
          /\ Answer("at", n, AllocError)
     \/ \E op \in {"any", "at"} : Answer(op, 0, 0)

LEMMA CallOutcome ==
  ASSUME TypeOK, Call
  PROVE  \/ \E h \in Handles, op \in {"any", "at"}, n \in 1 .. MaxFrames,
               base \in InRange : Granted(h, op, base, n)
         \/ Refused
  <1>1. ASSUME NEW h \in Handles, NEW n \in 1 .. MaxFrames,
               allocate_contiguous(h, n)
        PROVE  \E base \in InRange : Granted(h, "any", base, n)
    BY <1>1, ContiguousGrants
  <1>2. ASSUME NEW h \in Handles, live[h].len = 0, NEW f \in InRange,
               NEW n \in 1 .. MaxFrames, allocate_at(h, f, n)
        PROVE  Granted(h, "at", f, n) \/ Refused
    <2>1. CASE \A g \in Run(f, n) : IsFree(g)
      BY <1>2, <2>1, MarkGrants DEF allocate_at
    <2>2. CASE ~ \A g \in Run(f, n) : IsFree(g)
      BY <1>2, <2>2 DEF allocate_at, Refused
    <2> QED
      BY <2>1, <2>2
  <1>3. ASSUME NEW n \in 1 .. MaxFrames, allocation_fails(n)
        PROVE  Refused
    <2>1. Runs(n) = {}
      <3>1. CASE n = 1 /\ \A w \in Words : bitmap[w] = {}
        <4>1. \A f \in InRange : f \in Run(f, n) /\ ~ IsFree(f)
          BY <3>1, FrameIndices DEF IsFree, Run
        <4> QED
          BY <4>1 DEF Runs
      <3>2. CASE n > 1
        BY <1>3, <3>2 DEF allocation_fails
      <3> QED
        BY <1>3, <3>1, <3>2 DEF allocation_fails
    <2> QED
      BY <1>3, <2>1 DEF allocation_fails, Refused
  <1>4. ASSUME NEW op \in {"any", "at"}, allocate_none(op)
        PROVE  Refused
    BY <1>4 DEF allocate_none, Refused
  <1> QED
    BY <1>1, <1>2, <1>3, <1>4 DEF Call

(* Refused calls keep the invariant. *)
LEMMA RefusedAnswer ==
  ASSUME Refused
  PROVE  reply' \in [op : {"any", "at"}, frames : 0 .. MaxFrames,
                     base : Nat \union {AllocError}]
  BY SMTT(30), BitmapAssumption DEF Refused, Answer

LEMMA RefusedKeeps ==
  ASSUME IInv, Refused, UNCHANGED <<pool, shared, panicked>>
  PROVE  IInv'
  <1>1. shared' \in BOOLEAN
    BY DEF IInv, Contained, TypeOK
  <1> QED
    BY <1>1, RefusedAnswer, QuietKeeps DEF Refused

(* The calls of a running allocator keep Contained. *)
LEMMA RunningContained ==
  ASSUME Contained, Call \/ Deallocate
  PROVE  Contained' /\ panicked' = panicked
  <1>1. CASE Deallocate
    <2>1. PICK h \in Handles : deallocate_contiguous(h)
      BY <1>1 DEF Deallocate
    <2>2. ~ panicked
      BY <1>1 DEF Deallocate
    <2>3. panicked' = FALSE
      BY <2>1, <2>2, DropFrees
    <2>4. panicked = FALSE
      BY <2>2 DEF Contained, TypeOK
    <2> QED
      BY <2>1, <2>2, <2>3, <2>4, DropContained
  <1>2. CASE Call
    <2>1. ~ panicked /\ UNCHANGED <<pool, shared, panicked>>
      BY <1>2 DEF Call
    <2>2. CASE Refused
      <3>1. shared' \in BOOLEAN
        BY <2>1 DEF Contained, TypeOK
      <3> QED
        BY <2>1, <2>2, <3>1, RefusedAnswer, QuietContained DEF Refused
    <2> QED
      BY <1>2, <2>1, <2>2, CallOutcome, GrantContained DEF Contained
  <1> QED
    BY <1>1, <1>2

LEMMA NextIInv == IInv /\ [Next]_vars => IInv'
  <1> SUFFICES ASSUME IInv, [Next]_vars PROVE IInv'
    OBVIOUS
  <1>1. CASE Handover
    BY <1>1, HandoverBase, HandoverKeeps
  <1>2. CASE Publish
    BY <1>2, QuietKeeps DEF Publish, IInv, Contained, TypeOK
  <1>3. CASE Call
    BY <1>3, CallOutcome, GrantKeeps, RefusedKeeps DEF Call, IInv, Contained
  <1>4. CASE Deallocate
    BY <1>4, DropKeeps DEF Deallocate
  <1>5. CASE UNCHANGED vars
    BY <1>5, QuietKeeps DEF vars, IInv, Contained, TypeOK
  <1> QED
    BY <1>1, <1>2, <1>3, <1>4, <1>5 DEF Next

(* The inductive invariant holds throughout. *)
THEOREM BitmapInvariance == Spec => []IInv
  BY InitIInv, NextIInv, PTL DEF Spec

(* Every variable of the bitmap allocator keeps its type, and the bits of a *)
(* word for which there is no frame stay 0.                                 *)
THEOREM BitmapTypeOK == Spec => []TypeOK
  BY BitmapInvariance, PTL DEF IInv, Contained

(* No two OwnedFrames overlap, as their documentation demands. *)
THEOREM BitmapNoOverlap == Spec => []NoOverlap
  BY BitmapInvariance, PTL DEF IInv, Contained

(* A frame that is owned is never marked free in the bitmap. *)
THEOREM BitmapOwnedNotFree == Spec => []OwnedNotFree
  BY BitmapInvariance, PTL DEF IInv, Contained

(* Only frames of the regions the allocator was built from are handed out. *)
THEOREM BitmapOnlyUsable == Spec => []OnlyUsable
  BY BitmapInvariance, PTL DEF IInv, Contained

(* No call and no drop makes the allocator panic. *)
THEOREM BitmapNoPanic == Spec => NoPanic
  <1>1. IInv /\ [Next]_vars => [panicked' = panicked]_vars
    <2> SUFFICES ASSUME IInv, Next PROVE panicked' = panicked
      BY DEF vars
    <2>1. CASE Handover
      BY <2>1, HandoverBase DEF handover
    <2>2. CASE Publish
      BY <2>2 DEF Publish
    <2>3. CASE Call \/ Deallocate
      BY <2>3, RunningContained DEF IInv
    <2> QED
      BY <2>1, <2>2, <2>3 DEF Next
  <1> QED
    BY <1>1, BitmapInvariance, PTL DEF Spec, NoPanic

(* allocate_contiguous fails only when no free run is long enough. *)
THEOREM BitmapFailsOnlyWhenFull == Spec => FailsOnlyWhenFull
  <1> DEFINE P == reply'.op = "any" /\ reply'.base = AllocError /\ reply' # reply
                    => \A f \in InRange :
                         ~ Run(f, reply'.frames) \subseteq {g \in InRange : IsFree(g)}
  <1>1. IInv /\ [Next]_vars => [P]_vars
    <2> SUFFICES ASSUME IInv, Next, reply'.op = "any", reply'.base = AllocError,
                        reply' # reply, NEW f \in InRange
                 PROVE  ~ Run(f, reply'.frames) \subseteq {g \in InRange : IsFree(g)}
      BY DEF vars
    <2>1. Call
      BY HandoverBase DEF Next, handover, Publish, Deallocate, deallocate_contiguous
    <2>2. CASE \E h \in Handles, op \in {"any", "at"}, n \in 1 .. MaxFrames,
                  base \in InRange : Granted(h, op, base, n)
      <3>1. PICK base \in InRange : reply'.base = base
        BY SMTT(30), <2>2 DEF Granted, Answer
      <3> QED
        BY <3>1, FrameIndices DEF AllocError
    <2>3. CASE Refused
      <3>1. PICK n \in 1 .. MaxFrames : Runs(n) = {} /\ Answer("any", n, AllocError)
        BY <2>3 DEF Refused, Answer, AllocError
      <3>2. reply'.frames = n
        BY <3>1 DEF Answer
      <3> QED
        BY <3>1, <3>2 DEF Runs
    <2> QED
      BY <2>1, <2>2, <2>3, CallOutcome DEF IInv, Contained
  <1> QED
    BY <1>1, BitmapInvariance, PTL DEF Spec, FailsOnlyWhenFull

-----------------------------------------------------------------------------
(* The refinement.  The abstract set of free frames is the bitmap's. *)
FreeFrames == {f \in InRange : IsFree(f)}

LEMMA InitContract == Init => Contract!Init
  <1> SUFFICES ASSUME Init PROVE Contract!Init
    OBVIOUS
  <1> QED
    BY DEF Init, new, Contract!Init, Contract!Nothing, Nothing

(* An allocation is a Grant of the contract. *)
LEMMA GrantContract ==
  ASSUME IInv, NEW h \in Handles, NEW op \in {"any", "at"},
         NEW n \in 1 .. MaxFrames, NEW base \in InRange, Granted(h, op, base, n)
  PROVE  Contract!Next
  <1>1. FreeFrames' = FreeFrames \ Run(base, n)
    BY DEF Granted, FreeFrames
  <1>2. Run(base, n) \subseteq FreeFrames
    BY DEF Granted, FreeFrames, IsFree
  <1>3. Contract!Grant(h, op, base, n)
    BY <1>1, <1>2
    DEF Granted, Own, Answer, FreeFrames, Run,
        Contract!Grant, Contract!Answer, Contract!Run
  <1> QED
    BY <1>3 DEF Contract!Next

(* A refusal is a refusal of the contract. *)
LEMMA RefusedContract ==
  ASSUME IInv, Refused
  PROVE  Contract!Next
  <1>1. FreeFrames' = FreeFrames
    BY DEF Refused, FreeFrames, IsFree
  <1>2. ASSUME NEW n \in 1 .. MaxFrames, Runs(n) = {}, Answer("any", n, AllocError)
        PROVE  Contract!Refuse(n)
    BY <1>1, <1>2
    DEF Refused, Runs, Answer, AllocError, FreeFrames, Run,
        Contract!Refuse, Contract!Answer, Contract!AllocError, Contract!Run
  <1>3. ASSUME NEW f \in InRange, NEW n \in 1 .. MaxFrames,
               ~ \A g \in Run(f, n) : IsFree(g), Answer("at", n, AllocError)
        PROVE  Contract!RefuseAt(f, n)
    BY <1>1, <1>3
    DEF Refused, Answer, AllocError, FreeFrames, Run,
        Contract!RefuseAt, Contract!Answer, Contract!AllocError, Contract!Run
  <1>4. ASSUME NEW op \in {"any", "at"}, Answer(op, 0, 0)
        PROVE  Contract!Empty(op)
    BY <1>1, <1>4 DEF Refused, Answer, FreeFrames, Contract!Empty, Contract!Answer
  <1> QED
    BY <1>2, <1>3, <1>4 DEF Refused, Contract!Next

(* The drop of an OwnedFrames is a Release. *)
LEMMA DropContract ==
  ASSUME IInv, NEW h \in Handles, ~ panicked, deallocate_contiguous(h)
  PROVE  Contract!Next
  <1>1. FreeFrames' = FreeFrames \union Held(h)
    BY DropFrees DEF FreeFrames, IInv
  <1>2. Contract!Release(h)
    BY <1>1
    DEF deallocate_contiguous, FreeFrames, Nothing, Held, Run,
        Contract!Release, Contract!Nothing, Contract!Held, Contract!Run
  <1> QED
    BY <1>2 DEF Contract!Next

(* A handover is a Reserve. *)
LEMMA HandoverContract ==
  ASSUME IInv, Handover
  PROVE  Contract!Next
  <1>1. PICK lo, hi \in Nat, h \in Handles, base \in InRange \union {0},
             n \in 0 .. MaxFrames : base \in Nat /\ handover(lo, hi, h, base, n)
    BY HandoverBase
  <1>2. \A f \in InRange : IsFree(f)' <=> IsFree(f) /\ f \notin lo .. hi - 1
    BY <1>1, HandoverMarks DEF IInv, Contained
  <1>3. FreeFrames' \subseteq FreeFrames
    BY <1>2 DEF FreeFrames
  <1>4. Run(base, n) \intersect FreeFrames' = {}
    BY <1>1, <1>2 DEF FreeFrames, handover
  <1>5. Contract!Reserve(h, base, n)
    BY <1>1, <1>3, <1>4
    DEF handover, Own, FreeFrames, Run, Contract!Reserve, Contract!Run
  <1> QED
    BY <1>1, <1>5 DEF Contract!Next

LEMMA NextContract ==
  IInv /\ [Next]_vars => [Contract!Next]_<<FreeFrames, live, reply>>
  <1> SUFFICES ASSUME IInv, [Next]_vars
               PROVE  Contract!Next \/ UNCHANGED <<FreeFrames, live, reply>>
    OBVIOUS
  <1>1. CASE Handover
    BY <1>1, HandoverContract
  <1>2. CASE Publish
    BY <1>2 DEF Publish, FreeFrames, IsFree
  <1>3. CASE Call
    BY <1>3, CallOutcome, GrantContract, RefusedContract DEF IInv, Contained
  <1>4. CASE Deallocate
    BY <1>4, DropContract DEF Deallocate
  <1>5. CASE UNCHANGED vars
    BY <1>5 DEF vars, FreeFrames, IsFree
  <1> QED
    BY <1>1, <1>2, <1>3, <1>4, <1>5 DEF Next

(* The bitmap allocator implements the contract of BackingAllocator. *)
THEOREM BitmapImplementsContract == Spec => ImplementsContract
  BY InitContract, NextContract, BitmapInvariance, PTL
  DEF Spec, ImplementsContract, Contract!Spec, FreeFrames

-----------------------------------------------------------------------------
(* Part 2: the loops of BitmapScan. *)

(* The first bit of a word follows the last one of the word before it. *)
LEMMA MulNext ==
  ASSUME NEW k \in Nat, NEW q \in Nat
  PROVE  /\ q * k \in Nat
         /\ (q + 1) * k = q * k + k
OBVIOUS

(* The frame the slow loop is about to look at. *)
Pos == word * WordSize + bit

(* The invariant of the slow loop: the frames counted are the free ones     *)
(* just before Pos, and no run starts before them.                          *)
SlowLoop ==
  pc = "slow" =>
    /\ found < frame_count
    /\ word \in Words => bit \in Bits
    /\ word \notin Words => bit = 0
    /\ found <= Pos
    /\ found > 0 => start = Pos - found
    /\ \A g \in Pos - found .. Pos - 1 : FreeAt(g)
    /\ \A f \in Frames : f < Pos - found => ~ IsRun(f)

(* The fast loop has counted nothing. *)
FastLoop ==
  /\ pc \in {"fast_entry", "fast_slide"} => found = 0
  /\ pc = "fast_slide" => word \in Words
  /\ pc = "ok" => found \in {0, frame_count}

ScanInv ==
  ScanTyped /\ SlowLoop /\ FastLoop /\ FoundIsRun /\ SlowFindsFirst /\ FailsOnlyWhenNone

-----------------------------------------------------------------------------
(* What the loops need to know of the parameters. *)
LEMMA ScanAssumption ==
  WordSize \in Nat \ {0} /\ Length \in Nat /\ MaxFrames \in Nat
  BY BitmapAssumption, DivMod DEF Length

(* The bit under the loop is the frame at Pos. *)
LEMMA PosIsFrame ==
  ASSUME NEW w \in Words, NEW b \in Bits
  PROVE  /\ OffsetAt(w, b) \in Frames
         /\ WordIn(OffsetAt(w, b)) = w
         /\ BitIn(OffsetAt(w, b)) = b
  <1>1. w * WordSize + b \in Nat /\ w * WordSize + b < Length * WordSize
    BY MulBelow, ScanAssumption DEF Words, Bits
  <1>2. Length * WordSize \in Nat
    BY MulNext, ScanAssumption
  <1>3. OffsetAt(w, b) \in Frames
    BY <1>1, <1>2 DEF OffsetAt, Frames
  <1> QED
    BY SMTT(30), <1>3, DivUnique, ScanAssumption DEF OffsetAt, WordIn, BitIn, Words, Bits

(* After an iteration of the slow loop, Pos is the next frame. *)
LEMMA AdvancePos ==
  ASSUME ScanTyped, word \in Words, bit \in Bits, Advance
  PROVE  /\ Pos \in Nat
         /\ Pos' = Pos + 1
         /\ word' \in 0 .. Length /\ bit' \in Nat
         /\ word' \in Words => bit' \in Bits
         /\ word' \notin Words => bit' = 0
  <1>1. /\ word \in Nat /\ word * WordSize \in Nat
        /\ (word + 1) * WordSize = word * WordSize + WordSize
    BY SMTT(30), MulNext, ScanAssumption DEF Words
  <1>2. CASE bit + 1 < WordSize
    BY <1>1, <1>2, ScanAssumption DEF Advance, Pos, Words, Bits
  <1>3. CASE ~ (bit + 1 < WordSize)
    <2>1. bit + 1 = WordSize
      BY <1>3, ScanAssumption DEF Bits
    <2>2. bit' = 0 /\ word' = word + 1
      BY <1>3 DEF Advance
    <2>3. Pos' = Pos + 1
      BY <1>1, <2>1, <2>2, ScanAssumption DEF Pos, Bits
    <2> QED
      BY <1>1, <2>1, <2>2, <2>3, ScanAssumption DEF Pos, Words, Bits
  <1> QED
    BY <1>2, <1>3

(* The position of the loop is the frame whose bit it tests. *)
LEMMA PosFree ==
  ASSUME ScanTyped, word \in Words, bit \in Bits
  PROVE  /\ Pos \in Frames
         /\ FreeAt(Pos) <=> bit \in bitmap[word]
  BY PosIsFrame DEF Pos, OffsetAt, FreeAt

(* The bitmap and the request do not change during a scan. *)
LEMMA SameFrames ==
  ASSUME UNCHANGED <<bitmap, frame_count>>
  PROVE  /\ \A f : FreeAt(f)' <=> FreeAt(f)
         /\ \A f : IsRun(f)' <=> IsRun(f)
  BY DEF FreeAt, IsRun

-----------------------------------------------------------------------------
LEMMA InitScanInv == ScanInit => ScanInv
  BY SMTT(30), ScanAssumption
  DEF ScanInit, ScanInv, ScanTyped, SlowLoop, FastLoop, FoundIsRun, SlowFindsFirst,
      FailsOnlyWhenNone

(* The start of the slow loop: nothing is counted, nothing is skipped. *)
LEMMA FastEntryKeeps ==
  ASSUME ScanInv, FastEntry
  PROVE  ScanInv'
  <1> USE DEF ScanInv
  <1>1. CASE frame_count <= WordSize /\ word \in Words
    <2>1. /\ TrailingZeros(bitmap[word], bit') /\ pc' = "fast_slide"
          /\ UNCHANGED <<bitmap, frame_count, word, found, start>>
      BY <1>1 DEF FastEntry
    <2>2. bit' \in Nat
      BY SMTT(30), <1>1, <2>1, ScanAssumption DEF TrailingZeros, ScanTyped, Bits
    <2>3. ScanTyped'
      BY <2>1, <2>2 DEF ScanTyped
    <2> QED
      BY <1>1, <2>1, <2>3
      DEF FastEntry, FastLoop, SlowLoop, FoundIsRun, SlowFindsFirst, FailsOnlyWhenNone
  <1>2. CASE ~ (frame_count <= WordSize /\ word \in Words)
    <2>1. /\ pc' = "slow" /\ word' = 0 /\ bit' = 0
          /\ UNCHANGED <<bitmap, frame_count, found, start>> /\ found = 0
      BY <1>2 DEF FastEntry, StartSlow, FastLoop
    <2>2. Pos' = 0
      BY <2>1, ScanAssumption DEF Pos
    <2>3. ScanTyped'
      BY SMTT(30), <2>1, ScanAssumption DEF ScanTyped
    <2>4. SlowLoop'
      BY SMTT(30), <2>1, <2>2, ScanAssumption DEF SlowLoop, Words, Bits, Frames, ScanTyped
    <2> QED
      BY <2>1, <2>3, <2>4 DEF FastLoop, FoundIsRun, SlowFindsFirst, FailsOnlyWhenNone
  <1> QED
    BY <1>1, <1>2

(* A mask that matches is a run of free frames. *)
LEMMA MaskIsRun ==
  ASSUME ScanTyped, word \in Words, bit + frame_count - 1 \in Bits, Mask(bit) \subseteq bitmap[word]
  PROVE  OffsetAt(word, bit) \in Frames /\ IsRun(OffsetAt(word, bit))
  <1>1. /\ frame_count \in Nat /\ frame_count > 1
        /\ bit \in Nat /\ bit \in Bits /\ word * WordSize \in Nat
    BY SMTT(30), ScanAssumption, MulNext DEF ScanTyped, Bits, Words
  <1>2. ASSUME NEW g \in OffsetAt(word, bit) .. OffsetAt(word, bit) + frame_count - 1
        PROVE  FreeAt(g)
    <2> DEFINE b == g - word * WordSize
    <2>1. b \in Mask(bit) /\ g = OffsetAt(word, b)
      BY <1>1 DEF Mask, OffsetAt
    <2>2. b \in Bits /\ b \in bitmap[word]
      BY <2>1 DEF ScanTyped
    <2> HIDE DEF b
    <2> QED
      BY <2>1, <2>2, PosIsFrame DEF FreeAt
  <1> QED
    BY <1>1, <1>2, PosIsFrame DEF IsRun

LEMMA FastSlideKeeps ==
  ASSUME ScanInv, FastSlide
  PROVE  ScanInv'
  <1> USE DEF ScanInv
  <1>1. UNCHANGED <<bitmap, frame_count, found>> /\ word \in Words /\ found = 0 /\ bit \in Nat
    BY DEF FastSlide, FastLoop, ScanTyped
  <1>2. frame_count \in Nat /\ frame_count > 1
    BY ScanAssumption DEF ScanTyped
  <1>3. CASE bit < WordSize - frame_count /\ Mask(bit) \subseteq bitmap[word]
    <2>1. pc' = "ok" /\ start' = OffsetAt(word, bit) /\ UNCHANGED <<word, bit>>
      BY <1>3, <1>1, <1>2, ScanAssumption DEF FastSlide
    <2>2. bit + frame_count - 1 \in Bits
      BY <1>1, <1>2, <1>3, ScanAssumption DEF Bits
    <2>3. start' \in Frames /\ IsRun(start')
      BY <1>1, <1>3, <2>1, <2>2, MaskIsRun
    <2>4. ScanTyped'
      BY SMTT(30), <1>1, <2>1, <2>3 DEF ScanTyped, Frames
    <2>5. FoundIsRun'
      BY <1>1, <2>3, SameFrames DEF FoundIsRun
    <2> QED
      BY <1>1, <1>2, <2>1, <2>4, <2>5
      DEF SlowLoop, FastLoop, SlowFindsFirst, FailsOnlyWhenNone
  <1>4. CASE bit < WordSize - frame_count /\ ~ (Mask(bit) \subseteq bitmap[word])
    <2>1. pc' = "fast_slide" /\ bit' = bit + 1 /\ UNCHANGED <<word, start>>
      BY <1>4, <1>1, <1>2, ScanAssumption DEF FastSlide
    <2>2. ScanTyped'
      BY <1>1, <2>1 DEF ScanTyped
    <2> QED
      BY <1>1, <2>1, <2>2
      DEF SlowLoop, FastLoop, FoundIsRun, SlowFindsFirst, FailsOnlyWhenNone
  <1>5. CASE ~ (bit < WordSize - frame_count)
    <2>1. pc' = "fast_entry" /\ word' = word + 1 /\ UNCHANGED <<bit, start>>
      BY <1>5, <1>1, <1>2, ScanAssumption DEF FastSlide
    <2>2. ScanTyped'
      BY SMTT(30), <1>1, <2>1, ScanAssumption DEF ScanTyped, Words
    <2> QED
      BY <1>1, <2>1, <2>2
      DEF SlowLoop, FastLoop, FoundIsRun, SlowFindsFirst, FailsOnlyWhenNone
  <1> QED
    BY <1>3, <1>4, <1>5

(* A free frame extends the run, which starts here if there was none. *)
LEMMA SlowFreeKeeps ==
  ASSUME ScanInv, pc = "slow", word \in Words, SlowFree, UNCHANGED <<bitmap, frame_count>>
  PROVE  ScanInv'
  <1> USE DEF ScanInv
  <1>1. /\ bit \in Bits /\ found \in Nat
        /\ frame_count \in Nat /\ found < frame_count /\ frame_count > 1
        /\ found <= Pos
        /\ found > 0 => start = Pos - found
        /\ \A g \in Pos - found .. Pos - 1 : FreeAt(g)
        /\ \A f \in Frames : f < Pos - found => ~ IsRun(f)
    BY SMTT(30), ScanAssumption DEF SlowLoop, ScanTyped
  <1>2. Pos \in Frames /\ Pos \in Nat /\ FreeAt(Pos)
    BY <1>1, PosFree DEF SlowFree, Frames
  <1>3. found' = found + 1 /\ start' = Pos - found
    <2>1. CASE found = 0
      BY <1>2, <2>1 DEF SlowFree, OffsetAt, Pos
    <2>2. CASE found # 0
      BY <1>1, <2>2 DEF SlowFree
    <2> QED
      BY <2>1, <2>2
  <1>4. start' \in Nat
    BY <1>1, <1>2, <1>3
  <1>5. \A g \in Pos - found .. Pos : FreeAt(g)
    BY <1>1, <1>2
  <1>6. CASE found + 1 = frame_count
    <2>1. pc' = "ok" /\ UNCHANGED <<word, bit>> /\ found' = frame_count
      BY <1>3, <1>6 DEF SlowFree
    <2>2. start' \in Frames /\ IsRun(start')
      <3>1. start' + frame_count - 1 = Pos
        BY <1>1, <1>2, <1>3, <1>6
      <3>2. IsRun(start')
        BY <1>3, <1>5, <3>1 DEF IsRun
      <3>3. found \in Nat /\ Pos \in Nat /\ found <= Pos
        BY <1>1, <1>2
      <3>4. Pos - found \in Pos - found .. Pos
        BY ONLY <3>3
      <3>5. FreeAt(start')
        BY <1>3, <1>5, <3>4
      <3> QED
        BY <3>2, <3>5 DEF FreeAt
    <2>3. ScanTyped'
      BY <1>1, <1>4, <2>1 DEF ScanTyped
    <2>4. FoundIsRun'
      BY <2>2, SameFrames DEF FoundIsRun
    <2>5. SlowFindsFirst'
      BY <1>1, <1>3, SameFrames DEF SlowFindsFirst
    <2> QED
      BY <2>1, <2>3, <2>4, <2>5 DEF SlowLoop, FastLoop, FailsOnlyWhenNone
  <1>7. CASE found + 1 # frame_count
    <2>1. pc' = "slow" /\ Advance
      BY <1>7 DEF SlowFree
    <2>2. /\ Pos' = Pos + 1
          /\ word' \in 0 .. Length /\ bit' \in Nat
          /\ word' \in Words => bit' \in Bits
          /\ word' \notin Words => bit' = 0
      BY <1>1, <2>1, AdvancePos
    <2>3. ScanTyped'
      BY <1>1, <1>3, <1>4, <1>7, <2>1, <2>2 DEF ScanTyped
    <2>4. Pos' - found' = Pos - found /\ Pos' - 1 = Pos
      BY <1>1, <1>2, <1>3, <2>2
    <2>5. /\ \A g \in Pos' - found' .. Pos' - 1 : FreeAt(g)'
          /\ \A f \in Frames : f < Pos' - found' => ~ IsRun(f)'
      BY <1>1, <1>5, <2>4, SameFrames
    <2>6. SlowLoop'
      BY <1>1, <1>2, <1>3, <1>7, <2>2, <2>4, <2>5 DEF SlowLoop
    <2> QED
      BY <2>1, <2>3, <2>6 DEF FastLoop, FoundIsRun, SlowFindsFirst, FailsOnlyWhenNone
  <1> QED
    BY <1>6, <1>7

(* A frame that is taken rules out every run through it. *)
LEMMA SlowTakenKeeps ==
  ASSUME ScanInv, pc = "slow", word \in Words, SlowTaken, UNCHANGED <<bitmap, frame_count>>
  PROVE  ScanInv'
  <1> USE DEF ScanInv
  <1>1. /\ bit \in Bits /\ found \in Nat
        /\ frame_count \in Nat /\ found < frame_count /\ frame_count > 1
        /\ \A f \in Frames : f < Pos - found => ~ IsRun(f)
    BY SMTT(30), ScanAssumption DEF SlowLoop, ScanTyped
  <1>2. Pos \in Nat /\ ~ FreeAt(Pos)
    BY <1>1, PosFree DEF SlowTaken, Frames
  <1>3. pc' = "slow" /\ found' = 0 /\ start' = NoStart /\ Advance
    BY DEF SlowTaken
  <1>4. /\ Pos' = Pos + 1
        /\ word' \in 0 .. Length /\ bit' \in Nat
        /\ word' \in Words => bit' \in Bits
        /\ word' \notin Words => bit' = 0
    BY <1>1, <1>3, AdvancePos
  <1>5. ScanTyped'
    BY <1>1, <1>3, <1>4 DEF ScanTyped
  <1>6. ASSUME NEW f \in Frames, f < Pos + 1 PROVE ~ IsRun(f)
    <2>1. CASE f < Pos - found
      BY <1>1, <2>1
    <2>2. CASE ~ (f < Pos - found)
      <3>1. Pos \in f .. f + frame_count - 1
        BY <1>1, <1>2, <1>6, <2>2 DEF Frames
      <3> QED
        BY <1>2, <3>1 DEF IsRun
    <2> QED
      BY <2>1, <2>2
  <1>7. SlowLoop'
    BY <1>1, <1>2, <1>3, <1>4, <1>6, SameFrames DEF SlowLoop
  <1> QED
    BY <1>3, <1>5, <1>7 DEF FastLoop, FoundIsRun, SlowFindsFirst, FailsOnlyWhenNone

(* At the end of the bitmap the frames still counted are too few. *)
LEMMA SlowFailsKeeps ==
  ASSUME ScanInv, SlowFails
  PROVE  ScanInv'
  <1> USE DEF ScanInv
  <1>1. /\ found \in Nat /\ frame_count \in Nat /\ found < frame_count /\ bit = 0 /\ word = Length
        /\ \A f \in Frames : f < Pos - found => ~ IsRun(f)
    BY SMTT(30), ScanAssumption DEF SlowFails, SlowLoop, ScanTyped, Words
  <1>2. Pos = Length * WordSize /\ Pos \in Nat
    BY SMTT(30), <1>1, MulNext, ScanAssumption DEF Pos
  <1>3. pc' = "err" /\ UNCHANGED <<bitmap, frame_count, word, bit, found, start>>
    BY DEF SlowFails
  <1>4. ScanTyped'
    BY <1>3 DEF ScanTyped
  <1>5. ASSUME NEW f \in Frames PROVE ~ IsRun(f)
    <2>1. CASE f < Pos - found
      BY <1>1, <2>1
    <2>2. CASE ~ (f < Pos - found)
      <3>1. f + frame_count - 1 \in f .. f + frame_count - 1 /\ f + frame_count - 1 \notin Frames
        BY <1>1, <1>2, <2>2 DEF Frames
      <3> QED
        BY <3>1 DEF IsRun, FreeAt
    <2> QED
      BY <2>1, <2>2
  <1>6. FailsOnlyWhenNone'
    BY <1>3, <1>5, SameFrames DEF FailsOnlyWhenNone
  <1> QED
    BY <1>3, <1>4, <1>6 DEF SlowLoop, FastLoop, FoundIsRun, SlowFindsFirst

LEMMA NextScanInv == ScanInv /\ [ScanNext]_scanVars => ScanInv'
  <1> SUFFICES ASSUME ScanInv, [ScanNext]_scanVars PROVE ScanInv'
    OBVIOUS
  <1>1. CASE FastEntry
    BY <1>1, FastEntryKeeps
  <1>2. CASE FastSlide
    BY <1>2, FastSlideKeeps
  <1>3. CASE SlowBit
    BY <1>3, SlowFreeKeeps, SlowTakenKeeps DEF SlowBit
  <1>4. CASE SlowFails
    BY <1>4, SlowFailsKeeps
  <1>5. CASE UNCHANGED scanVars
    BY SMTT(30), <1>5
    DEF scanVars, ScanInv, ScanTyped, SlowLoop, FastLoop, FoundIsRun, SlowFindsFirst,
        FailsOnlyWhenNone, Pos, FreeAt, IsRun
  <1> QED
    BY <1>1, <1>2, <1>3, <1>4, <1>5 DEF ScanNext

(* The loop invariants hold throughout every scan. *)
THEOREM ScanInvariance == ScanSpec => []ScanInv
  BY InitScanInv, NextScanInv, PTL DEF ScanSpec

(* Whatever a scan returns is the start of n free frames. *)
THEOREM ScanFoundIsRun == ScanSpec => []FoundIsRun
  BY ScanInvariance, PTL DEF ScanInv

(* What the slow loop returns is the first run of the bitmap. *)
THEOREM ScanSlowFindsFirst == ScanSpec => []SlowFindsFirst
  BY ScanInvariance, PTL DEF ScanInv

(* A scan fails only on a bitmap without a run of that length. *)
THEOREM ScanFailsOnlyWhenNone == ScanSpec => []FailsOnlyWhenNone
  BY ScanInvariance, PTL DEF ScanInv
-----------------------------------------------------------------------------
(* Part 3: BitmapCalls. *)

(* The fast loop has passed no slide at which the mask matches: what it    *)
(* returns is the first, and the slow loop runs only when there is none.   *)
FastFirst ==
  /\ pc \in {"fast_entry", "fast_slide"} \/ (pc = "ok" /\ found = 0) =>
       \A v \in Words : v < word => Slides(v, frame_count) = {}
  /\ pc = "fast_slide" => \A s \in Slides(word, frame_count) : bit <= s
  /\ pc = "ok" /\ found = 0 =>
       /\ word \in Words /\ start = OffsetAt(word, bit)
       /\ bit \in Slides(word, frame_count)
       /\ \A s \in Slides(word, frame_count) : bit <= s
  /\ pc \in {"slow", "err"} \/ (pc = "ok" /\ found = frame_count) =>
       \A w \in Words : Slides(w, frame_count) = {}

(* Between calls the loops are at rest; during one the mutex is held, so   *)
(* that the caller still owns nothing.                                     *)
Searching ==
  /\ ScanInv /\ FastFirst
  /\ caller \in Handles /\ live[caller].len = 0
  /\ shared /\ ~ panicked

CallsInv == IInv /\ (Idle \/ Searching)

-----------------------------------------------------------------------------
(* The slides depend on the bitmap and the request, which a scan leaves. *)
LEMMA SameSlides ==
  ASSUME UNCHANGED <<bitmap, frame_count>>
  PROVE  \A v \in Words : Slides(v, frame_count)' = Slides(v, frame_count)
  BY DEF Slides

(* A slide matches only at bits that are set. *)
LEMMA SlideIsSet ==
  ASSUME ScanTyped, NEW v \in Words, NEW s \in Slides(v, frame_count)
  PROVE  /\ s \in Nat /\ s < WordSize - frame_count /\ frame_count <= WordSize
         /\ s \in bitmap[v] /\ Mask(s) \subseteq bitmap[v]
  <1>1. frame_count \in Nat /\ frame_count > 1
    BY ScanAssumption DEF ScanTyped
  <1>2. /\ s \in Nat /\ s < WordSize - frame_count
        /\ frame_count <= WordSize /\ Run(s, frame_count) \subseteq bitmap[v]
    BY SMTT(30), <1>1, ScanAssumption DEF Slides
  <1>3. s \in Run(s, frame_count) /\ Mask(s) = Run(s, frame_count)
    BY <1>1, <1>2 DEF Run, Mask
  <1> QED
    BY <1>2, <1>3

LEMMA FastEntryFirst ==
  ASSUME ScanInv, FastFirst, FastEntry
  PROVE  FastFirst'
  <1> USE DEF ScanInv
  <1>1. UNCHANGED <<bitmap, frame_count, found>> /\ pc = "fast_entry" /\ found = 0
    BY DEF FastEntry, FastLoop
  <1>2. \A v \in Words : v < word => Slides(v, frame_count) = {}
    BY <1>1 DEF FastFirst
  <1>3. CASE frame_count <= WordSize /\ word \in Words
    <2>1. TrailingZeros(bitmap[word], bit') /\ pc' = "fast_slide" /\ word' = word
      BY <1>3 DEF FastEntry
    <2>2. \A s \in Slides(word, frame_count) : bit' <= s
      BY <1>3, <2>1, SlideIsSet DEF TrailingZeros
    <2> QED
      BY <1>1, <1>2, <1>3, <2>1, <2>2, SameSlides DEF FastFirst
  <1>4. CASE ~ (frame_count <= WordSize /\ word \in Words)
    <2>1. pc' = "slow"
      BY <1>4 DEF FastEntry, StartSlow
    <2>2. ASSUME NEW v \in Words PROVE Slides(v, frame_count) = {}
      <3>1. CASE word \in Words
        BY <1>4, <3>1, SlideIsSet
      <3>2. CASE word \notin Words
        <4>1. v < word
          BY SMTT(30), <3>2, ScanAssumption DEF ScanTyped, Words
        <4> QED
          BY <1>2, <4>1
      <3> QED
        BY <3>1, <3>2
    <2> QED
      BY <1>1, <2>1, <2>2, SameSlides DEF FastFirst
  <1> QED
    BY <1>3, <1>4

LEMMA FastSlideFirst ==
  ASSUME ScanInv, FastFirst, FastSlide
  PROVE  FastFirst'
  <1> USE DEF ScanInv
  <1>1. /\ UNCHANGED <<bitmap, frame_count, found>> /\ pc = "fast_slide" /\ found = 0
        /\ word \in Words /\ bit \in Nat
    BY DEF FastSlide, FastLoop, ScanTyped
  <1>2. frame_count \in Nat /\ frame_count > 1 /\ WordSize \in Nat
    BY SMTT(30), ScanAssumption DEF ScanTyped
  <1>3. /\ \A v \in Words : v < word => Slides(v, frame_count) = {}
        /\ \A s \in Slides(word, frame_count) : bit <= s
    BY <1>1 DEF FastFirst
  <1>4. CASE bit < WordSize - frame_count /\ Mask(bit) \subseteq bitmap[word]
    <2>1. pc' = "ok" /\ start' = OffsetAt(word, bit) /\ UNCHANGED <<word, bit>>
      BY <1>1, <1>2, <1>4 DEF FastSlide
    <2>2. bit \in Slides(word, frame_count)
      BY <1>1, <1>2, <1>4 DEF Slides, Run, Mask
    <2>3. start' = OffsetAt(word, bit)'
      BY <2>1 DEF OffsetAt
    <2>4. \A v \in Words : Slides(v, frame_count)' = Slides(v, frame_count)
      BY <1>1, SameSlides
    <2>5. /\ bit' \in Slides(word, frame_count)'
          /\ \A s \in Slides(word, frame_count)' : bit' <= s
      BY <1>1, <1>3, <2>1, <2>2, <2>4
    <2>6. \A v \in Words : v < word' => Slides(v, frame_count)' = {}
      BY <1>1, <1>3, <2>1, <2>4
    <2>7. found' = 0 /\ frame_count' # 0 /\ word' \in Words
      BY <1>1, <1>2, <2>1
    <2> QED
      BY <2>1, <2>3, <2>5, <2>6, <2>7 DEF FastFirst
  <1>5. CASE bit < WordSize - frame_count /\ ~ (Mask(bit) \subseteq bitmap[word])
    <2>1. pc' = "fast_slide" /\ bit' = bit + 1 /\ UNCHANGED word
      BY <1>1, <1>2, <1>5 DEF FastSlide
    <2>2. ASSUME NEW s \in Slides(word, frame_count) PROVE bit' <= s
      <3>1. s \in Nat /\ s # bit /\ bit <= s
        BY <1>1, <1>3, <1>5, SlideIsSet
      <3> QED
        BY <1>1, <2>1, <3>1
    <2> QED
      BY <1>1, <1>3, <2>1, <2>2, SameSlides DEF FastFirst
  <1>6. CASE ~ (bit < WordSize - frame_count)
    <2>1. pc' = "fast_entry" /\ word' = word + 1
      BY <1>1, <1>2, <1>6 DEF FastSlide
    <2>2. Slides(word, frame_count) = {}
      <3> SUFFICES ASSUME NEW s \in Slides(word, frame_count) PROVE FALSE
        OBVIOUS
      <3>1. s \in Nat /\ s < WordSize - frame_count /\ bit <= s
        BY <1>1, <1>3, SlideIsSet
      <3> QED
        BY <1>1, <1>2, <1>6, <3>1
    <2>3. \A v \in Words : v < word' => v < word \/ v = word
      BY <1>1, <2>1, ScanAssumption DEF Words
    <2> QED
      BY <1>1, <1>3, <2>1, <2>2, <2>3, SameSlides DEF FastFirst
  <1> QED
    BY <1>4, <1>5, <1>6

LEMMA SlowFirst ==
  ASSUME ScanInv, FastFirst, SlowBit \/ SlowFails
  PROVE  FastFirst'
  <1>1. pc = "slow" /\ UNCHANGED <<bitmap, frame_count>>
    BY DEF SlowBit, SlowFails
  <1>2. frame_count \in Nat /\ frame_count > 1 /\ found \in Nat
    BY SMTT(30), ScanAssumption DEF ScanInv, ScanTyped
  <1>3. pc' \in {"slow", "err"} \/ (pc' = "ok" /\ found' = frame_count /\ found' # 0)
    <2>1. CASE SlowBit
      BY <1>1, <1>2, <2>1 DEF SlowBit, SlowFree, SlowTaken
    <2>2. CASE SlowFails
      BY <2>2 DEF SlowFails
    <2> QED
      BY <2>1, <2>2
  <1>4. \A w \in Words : Slides(w, frame_count) = {}
    BY <1>1 DEF FastFirst
  <1> QED
    BY <1>1, <1>3, <1>4, SameSlides DEF FastFirst

(* An iteration of a search keeps it on its way. *)
LEMMA SearchGoesOn ==
  ASSUME Searching, Iterate
  PROVE  Searching' /\ UNCHANGED vars
  <1>1. ScanNext /\ UNCHANGED <<caller, pool, shared, live, reply, panicked>>
    BY DEF Iterate, owners
  <1>2. bitmap' = bitmap
    BY <1>1 DEF ScanNext, FastEntry, FastSlide, SlowBit, SlowFails
  <1>3. ScanInv'
    BY <1>1, NextScanInv DEF Searching
  <1>4. FastFirst'
    BY <1>1, FastEntryFirst, FastSlideFirst, SlowFirst DEF ScanNext, Searching
  <1> QED
    BY <1>1, <1>2, <1>3, <1>4 DEF Searching, vars

(* A call begins a search on the bitmap as it is. *)
LEMMA SearchBegins ==
  ASSUME IInv, Begin
  PROVE  Searching' /\ UNCHANGED vars
  <1>1. /\ frame_count' \in 2 .. MaxFrames /\ pc' = "fast_entry" /\ shared /\ ~ panicked
        /\ word = 0 /\ bit = 0 /\ found = 0 /\ start = NoStart
        /\ UNCHANGED <<bitmap, word, bit, found, start, pool, shared, live, reply, panicked>>
    BY DEF Begin, Idle, owners
  <1>2. caller' \in Handles /\ live[caller'].len = 0
    BY DEF Begin
  <1>3. bitmap \in [Words -> SUBSET Bits]
    BY DEF IInv, Contained, TypeOK
  <1>4. ScanInv'
    <2>1. ScanTyped'
      BY <1>1, <1>3, ScanAssumption DEF ScanTyped
    <2> QED
      BY <1>1, <2>1
      DEF ScanInv, SlowLoop, FastLoop, FoundIsRun, SlowFindsFirst, FailsOnlyWhenNone
  <1>5. \A v \in Words : ~ (v < word')
    BY <1>1, ScanAssumption DEF Words
  <1>6. FastFirst'
    BY <1>1, <1>5 DEF FastFirst
  <1> QED
    BY <1>1, <1>2, <1>4, <1>6 DEF Searching, vars

-----------------------------------------------------------------------------
(* BitmapScan counts frames from first_frame, BitmapAllocator from 0. *)
LEMMA Shift ==
  ASSUME NEW f \in Int
  PROVE  /\ FirstFrame + f \in InRange <=> f \in Frames
         /\ IsFree(FirstFrame + f) <=> FreeAt(f)
  <1>1. FirstFrame \in Nat /\ Length * WordSize \in Nat
    BY BitmapAssumption, ScanAssumption, MulNext
  <1>2. InRange = FirstFrame .. (FirstFrame + Length * WordSize) - 1
    <2>1. last_frame = FirstFrame + Length * WordSize
      BY DEF last_frame
    <2> QED
      BY <2>1 DEF InRange
  <1>3. FirstFrame + f \in InRange <=> f \in Frames
    BY <1>1, <1>2 DEF Frames
  <1>4. (FirstFrame + f) - FirstFrame = f
    BY <1>1
  <1>5. /\ WordOf(FirstFrame + f) = WordIn(f)
        /\ BitOf(FirstFrame + f) = BitIn(f)
    BY <1>4 DEF WordOf, BitOf, WordIn, BitIn
  <1> QED
    BY <1>3, <1>5 DEF IsFree, FreeAt

LEMMA ShiftRun ==
  ASSUME NEW f \in Int, frame_count \in Nat \ {0}
  PROVE  FirstFrame + f \in Runs(frame_count) <=> f \in Frames /\ IsRun(f)
  <1>1. FirstFrame \in Nat
    BY BitmapAssumption
  <1>2. (\A g \in Run(FirstFrame + f, frame_count) : IsFree(g)) <=> IsRun(f)
    <2>1. ASSUME IsRun(f), NEW g \in Run(FirstFrame + f, frame_count)
          PROVE  IsFree(g)
      <3>1. g - FirstFrame \in f .. f + frame_count - 1 /\ g = FirstFrame + (g - FirstFrame)
        BY <1>1 DEF Run
      <3>2. FreeAt(g - FirstFrame) /\ g - FirstFrame \in Int
        BY <2>1, <3>1 DEF IsRun
      <3> QED
        BY <3>1, <3>2, Shift
    <2>2. ASSUME \A g \in Run(FirstFrame + f, frame_count) : IsFree(g),
                 NEW g \in f .. f + frame_count - 1
          PROVE  FreeAt(g)
      <3>1. g \in Int /\ FirstFrame + g \in Run(FirstFrame + f, frame_count)
        BY <1>1 DEF Run
      <3> QED
        BY <2>2, <3>1, Shift
    <2> QED
      BY <2>1, <2>2 DEF IsRun
  <1> QED
    BY <1>2, Shift DEF Runs

(* What the fast loop found is the first slide, and is taken. *)
LEMMA CommitFast ==
  ASSUME Searching, Commit, found = 0
  PROVE  allocate_multiple_fast(caller, frame_count)
  <1>1. /\ word \in Words /\ start = OffsetAt(word, bit)
        /\ bit \in Slides(word, frame_count)
        /\ \A s \in Slides(word, frame_count) : bit <= s
        /\ \A v \in Words : v < word => Slides(v, frame_count) = {}
    BY DEF Searching, FastFirst, Commit
  <1>2. frame_count \in Nat /\ frame_count > 1 /\ WordSize \in Nat /\ ScanTyped
    BY SMTT(30), ScanAssumption DEF Searching, ScanInv, ScanTyped
  <1>3. bit \in Nat /\ bit < WordSize - frame_count /\ Mask(bit) \subseteq bitmap[word]
    BY <1>1, <1>2, SlideIsSet
  <1>4. bit \in Bits /\ Run(bit, frame_count) \subseteq Bits
    BY <1>2, <1>3 DEF Bits, Run
  <1>5. FirstFrame + start = FrameAt(word, bit)
    <2>1. word * WordSize \in Nat
      BY SMTT(30), <1>1, MulNext, ScanAssumption DEF Words
    <2> QED
      BY <1>1, <1>3, <2>1, BitmapAssumption DEF OffsetAt, FrameAt
  <1>6. bitmap' = [bitmap EXCEPT ![word] = @ \ Run(bit, frame_count)]
    <2>1. bitmap' = set_allocated(bitmap,
                        Run(FrameAt(word, bit), frame_count))
      BY <1>5 DEF Commit
    <2>2. bitmap \in [Words -> SUBSET Bits]
      BY <1>2 DEF ScanTyped
    <2> QED
      BY SMTT(30), <1>1, <1>2, <1>4, <2>1, <2>2, MarkWordRun
  <1>7. /\ Own(caller, FrameAt(word, bit), frame_count)
        /\ Answer("any", frame_count, FrameAt(word, bit))
    BY <1>5 DEF Commit
  <1> QED
    BY <1>1, <1>6, <1>7 DEF allocate_multiple_fast

(* What the slow loop found is the first run, and is taken. *)
LEMMA CommitSlow ==
  ASSUME Searching, Commit, found = frame_count
  PROVE  allocate_multiple_slow(caller, frame_count)
  <1>1. pc = "ok" /\ frame_count \in Nat \ {0}
    BY SMTT(30), ScanAssumption DEF Searching, ScanInv, ScanTyped, Commit
  <1>2. start \in Frames /\ IsRun(start) /\ \A f \in Frames : f < start => ~ IsRun(f)
    BY <1>1 DEF Searching, ScanInv, FoundIsRun, SlowFindsFirst
  <1>3. start \in Int /\ FirstFrame + start \in Runs(frame_count)
    BY <1>1, <1>2, ShiftRun DEF Frames
  <1>4. ASSUME NEW g \in Runs(frame_count) PROVE FirstFrame + start <= g
    <2>1. g \in Int /\ FirstFrame \in Int
      BY BitmapAssumption DEF Runs, InRange
    <2>2. g - FirstFrame \in Int /\ g = FirstFrame + (g - FirstFrame)
      BY <2>1
    <2>3. g - FirstFrame \in Frames /\ IsRun(g - FirstFrame)
      BY <1>1, <2>2, ShiftRun
    <2>4. ~ (g - FirstFrame < start)
      BY <1>2, <2>3
    <2> QED
      BY <1>3, <2>1, <2>4
  <1>5. \A w \in Words : Slides(w, frame_count) = {}
    BY <1>1 DEF Searching, FastFirst
  <1> QED
    BY <1>3, <1>4, <1>5 DEF allocate_multiple_slow, Commit

(* A search that ends is one call of the allocator. *)
LEMMA CommitIsCall ==
  ASSUME Searching, Commit
  PROVE  Call
  <1>1. /\ shared /\ ~ panicked /\ UNCHANGED <<pool, shared, panicked>>
        /\ caller \in Handles /\ live[caller].len = 0
    BY DEF Searching, Commit, End
  <1>2. frame_count \in 1 .. MaxFrames /\ frame_count > 1
    BY ScanAssumption DEF Searching, ScanInv, ScanTyped
  <1>3. found = 0 \/ found = frame_count
    BY DEF Searching, ScanInv, FastLoop, Commit
  <1>4. allocate_contiguous(caller, frame_count)
    BY <1>1, <1>2, <1>3, CommitFast, CommitSlow DEF allocate_contiguous
  <1> QED
    BY <1>1, <1>2, <1>4 DEF Call

LEMMA RefuseIsCall ==
  ASSUME Searching, Refuse
  PROVE  Call
  <1>1. /\ shared /\ ~ panicked /\ UNCHANGED <<pool, shared, panicked>> /\ pc = "err"
    BY DEF Searching, Refuse, End
  <1>2. frame_count \in 1 .. MaxFrames /\ frame_count > 1 /\ frame_count \in Nat \ {0}
    BY SMTT(30), ScanAssumption DEF Searching, ScanInv, ScanTyped
  <1>3. Runs(frame_count) = {}
    <2> SUFFICES ASSUME NEW g \in Runs(frame_count) PROVE FALSE
      OBVIOUS
    <2>1. g \in Int /\ FirstFrame \in Int
      BY BitmapAssumption DEF Runs, InRange
    <2>2. g - FirstFrame \in Int /\ g = FirstFrame + (g - FirstFrame)
      BY <2>1
    <2>3. g - FirstFrame \in Frames /\ IsRun(g - FirstFrame)
      BY <1>2, <2>2, ShiftRun
    <2> QED
      BY <1>1, <2>3 DEF Searching, ScanInv, FailsOnlyWhenNone
  <1>4. \A w \in Words : Slides(w, frame_count) = {}
    BY <1>1 DEF Searching, FastFirst
  <1>5. allocation_fails(frame_count)
    BY <1>2, <1>3, <1>4 DEF allocation_fails, Refuse
  <1> QED
    BY <1>1, <1>2, <1>5 DEF Call

LEMMA OtherIsStep ==
  ASSUME Other
  PROVE  Next
  <1>1. ASSUME OtherCall, shared, ~ panicked, UNCHANGED <<pool, shared, panicked>>
        PROVE  Call
    <2>1. 1 \in 1 .. MaxFrames
      BY BitmapAssumption
    <2>2. CASE \E h \in Handles : live[h].len = 0 /\ allocate_contiguous(h, 1)
      BY <1>1, <2>1, <2>2 DEF Call
    <2>3. CASE allocation_fails(1)
      BY <1>1, <2>1, <2>3 DEF Call
    <2>4. CASE \E h \in Handles, f \in InRange, k \in 1 .. MaxFrames :
                 live[h].len = 0 /\ allocate_at(h, f, k)
      BY <1>1, <2>4 DEF Call
    <2>5. CASE \E op \in {"any", "at"} : allocate_none(op)
      BY <1>1, <2>5 DEF Call
    <2> QED
      BY <1>1, <2>2, <2>3, <2>4, <2>5 DEF OtherCall
  <1> QED
    BY <1>1 DEF Other, Next

(* Every step is a step of the allocator, or changes nothing it has, and   *)
(* leaves the loops at rest or on their way.                               *)
LEMMA StepIsCall ==
  ASSUME CallsInv, [CallsNext]_callVars
  PROVE  [Next]_vars /\ (Idle' \/ Searching')
  <1>1. Idle => pc = "idle"
    BY DEF Idle
  <1>2. Searching => pc \in {"fast_entry", "fast_slide", "slow", "ok", "err"}
    BY DEF Searching, ScanInv, ScanTyped
  <1>3. CASE Other
    <2>1. Idle'
      BY <1>3 DEF Other, Idle, scan
    <2> QED
      BY <1>3, <2>1, OtherIsStep
  <1>4. CASE Begin
    BY <1>4, SearchBegins DEF CallsInv
  <1>5. CASE Iterate
    <2>1. pc # "idle"
      BY <1>5 DEF Iterate, ScanNext, FastEntry, FastSlide, SlowBit, SlowFails
    <2> QED
      BY <1>1, <1>5, <2>1, SearchGoesOn DEF CallsInv
  <1>6. CASE Commit \/ Refuse
    <2>1. Idle' /\ pc # "idle"
      BY <1>6 DEF Commit, Refuse, End, Idle
    <2> QED
      BY <1>1, <1>6, <2>1, CommitIsCall, RefuseIsCall DEF CallsInv, Next
  <1>7. CASE UNCHANGED callVars
    <2>1. UNCHANGED <<bitmap, frame_count, pc, word, bit, found, start, caller, pool, shared, live,
                      reply, panicked>>
      BY <1>7 DEF callVars, scan, owners
    <2>2. UNCHANGED scanVars
      BY <2>1 DEF scanVars
    <2>3. Idle => Idle'
      BY <2>1 DEF Idle
    <2>4. Searching => Searching'
      <3>1. ScanInv => ScanInv'
        BY <2>2, NextScanInv
      <3>2. FastFirst => FastFirst'
        BY <2>1 DEF FastFirst, OffsetAt, Slides
      <3> QED
        BY <2>1, <3>1, <3>2 DEF Searching
    <2> QED
      BY <2>1, <2>3, <2>4 DEF CallsInv, vars
  <1> QED
    BY <1>3, <1>4, <1>5, <1>6, <1>7 DEF CallsNext

(* The loops keep their invariants while calls change the bitmap. *)
THEOREM CallsInvariance == CallsSpec => []CallsInv
  <1>1. CallsInit => CallsInv
    BY InitIInv DEF CallsInit, CallsInv
  <1>2. CallsInv /\ [CallsNext]_callVars => CallsInv'
    BY NextIInv, StepIsCall DEF CallsInv
  <1> QED
    BY <1>1, <1>2, PTL DEF CallsSpec

(* With its loops, the allocator implements the one of BitmapAllocator:    *)
(* the searches find what it says they find.                               *)
THEOREM LoopsImplementAllocator == CallsSpec => ImplementsAllocator
  <1>1. CallsInv /\ [CallsNext]_callVars => [Next]_vars
    BY StepIsCall
  <1>2. CallsInit => Init
    BY DEF CallsInit
  <1> QED
    BY <1>1, <1>2, CallsInvariance, PTL DEF CallsSpec, ImplementsAllocator, Spec

(* Through the loops, too, a request fails only when no run is free. *)
THEOREM LoopsFailOnlyWhenFull == CallsSpec => FailsOnlyWhenFull
  BY LoopsImplementAllocator, BitmapFailsOnlyWhenFull DEF ImplementsAllocator

(* No drop finds its frames out of range. *)
THEOREM LoopsNeverPanic == CallsSpec => NoPanic
  BY LoopsImplementAllocator, BitmapNoPanic DEF ImplementsAllocator

(* The allocator with its loops implements the contract of                 *)
(* BackingAllocator.                                                       *)
THEOREM LoopsImplementContract == CallsSpec => ImplementsContract
  BY LoopsImplementAllocator, BitmapImplementsContract DEF ImplementsAllocator

-----------------------------------------------------------------------------
(* Part 4: BootMemoryMap. *)

(* The elements of a sequence, and what Append returns. *)
LEMMA SeqIs ==
  ASSUME NEW S
  PROVE  /\ <<>> \in Seq(S)
         /\ \A s \in Seq(S) : Len(s) \in Nat /\ \A i \in 1 .. Len(s) : s[i] \in S
OBVIOUS

LEMMA AppendIs ==
  ASSUME NEW S, NEW s \in Seq(S), NEW e \in S
  PROVE  /\ Append(s, e) \in Seq(S)
         /\ Len(Append(s, e)) = Len(s) + 1
         /\ \A i \in 1 .. Len(s) : Append(s, e)[i] = s[i]
         /\ Append(s, e)[Len(s) + 1] = e
OBVIOUS

-----------------------------------------------------------------------------
(* Induction up to a bound, for a set instead of a predicate, and a        *)
(* function defined by recursion: one function per step, all on one set.   *)
LEMMA LeastOf ==
  ASSUME NEW S, S \subseteq Nat, S # {}
  PROVE  \E x \in S : \A y \in S : x =< y
  <1> DEFINE R == {ss \in Nat \X Nat : ss[1] < ss[2]}
  <1>1. IsWellFoundedOn(R, Nat)
    BY NatLessThanWellFounded DEF OpToRel
  <1> HIDE DEF R
  <1>2. PICK x \in S : \A y \in S : ~ (<<y, x>> \in R)
    BY <1>1, WFMin
  <1>3. \A y \in S : ~ (y < x)
    BY <1>2 DEF R
  <1> QED
    BY SMTT(30), <1>3

LEMMA Induction ==
  ASSUME NEW N \in Nat, NEW S, 0 \in S, \A n \in 0 .. N - 1 : n \in S => n + 1 \in S
  PROVE  \A n \in 0 .. N : n \in S
  <1> DEFINE T == {n \in 0 .. N : n \notin S}
  <1> SUFFICES ASSUME T # {} PROVE FALSE
    OBVIOUS
  <1>1. T \subseteq Nat /\ \A x \in T : x \in 0 .. N /\ x \notin S
    BY SMTT(30)
  <1>2. PICK x \in T : \A y \in T : x =< y
    <2> HIDE DEF T
    <2> QED
      BY <1>1, LeastOf
  <1>3. x \in 0 .. N /\ x # 0
    BY <1>1
  <1>4. x - 1 \in 0 .. N - 1 /\ x - 1 \in 0 .. N /\ (x - 1) + 1 = x /\ ~ (x =< x - 1)
    BY SMTT(30), <1>3
  <1>5. x - 1 \in S
    BY <1>2, <1>4
  <1> QED
    BY <1>1, <1>4, <1>5

(* f begins with a, and G[n] takes it from n - 1 to n. *)
Iterates(f, N, A, a, G) ==
  /\ f \in [0 .. N -> A]
  /\ f[0] = a
  /\ \A n \in 1 .. N : f[n] = G[n][f[n - 1]]

LEMMA Recursion ==
  ASSUME NEW N \in Nat, NEW A, NEW a \in A, NEW G \in [1 .. N -> [A -> A]]
  PROVE  \E f : Iterates(f, N, A, a, G)
  <1> DEFINE Upto(f, k) == f[0] = a /\ \A n \in 1 .. k : f[n] = G[n][f[n - 1]]
             S == {k \in 0 .. N : \E f \in [0 .. k -> A] : Upto(f, k)}
  <1>1. 0 \in S
    <2> DEFINE f == [n \in 0 .. 0 |-> a]
    <2>1. f \in [0 .. 0 -> A] /\ Upto(f, 0)
      BY SMTT(30)
    <2>2. 0 \in 0 .. N
      BY SMTT(30)
    <2> HIDE DEF f
    <2> QED
      BY <2>1, <2>2
  <1>2. ASSUME NEW k \in 0 .. N - 1, k \in S
        PROVE  k + 1 \in S
    <2>1. PICK f \in [0 .. k -> A] : Upto(f, k)
      BY <1>2
    <2> DEFINE g == [n \in 0 .. k + 1 |-> IF n = k + 1 THEN G[k + 1][f[k]] ELSE f[n]]
    <2>2. k + 1 \in 1 .. N /\ k \in 0 .. k /\ k + 1 \in 0 .. N
      BY SMTT(30)
    <2>3. G[k + 1] \in [A -> A] /\ f[k] \in A
      BY <2>2
    <2>4. G[k + 1][f[k]] \in A
      BY <2>3
    <2>5. g \in [0 .. k + 1 -> A]
      BY SMTT(30), <2>4
    <2>6. /\ g[0] = f[0] /\ g[k + 1] = G[k + 1][f[k]]
          /\ \A n \in 0 .. k : g[n] = f[n]
      BY SMTT(30)
    <2> HIDE DEF g
    <2>7. Upto(g, k + 1)
      BY SMTT(30), <2>1, <2>6
    <2> QED
      BY <2>2, <2>5, <2>7
  <1>3. N \in S
    <2> HIDE DEF S
    <2>1. \A n \in 0 .. N : n \in S
      BY <1>1, <1>2, Induction
    <2>2. N \in 0 .. N
      BY SMTT(30)
    <2> QED
      BY <2>1, <2>2
  <1> QED
    BY <1>3 DEF Iterates

-----------------------------------------------------------------------------
(* The memory map: sorting, merging and filtering it, entry by entry. *)
Descriptor == [start : Nat, end : Nat, ty : STRING]
Entry == [start : Nat, end : Nat, ty : {"Free", "BootloaderCode", "Reserved"}]
Area == [start : Nat, end : Nat]

LEMMA EntryTyped ==
  ASSUME NEW d \in Descriptor
  PROVE  /\ descriptor_to_entry(d) \in Entry
         /\ descriptor_to_entry(d).start = d.start
         /\ descriptor_to_entry(d).end = d.end
         /\ IsUsable(descriptor_to_entry(d)) <=> entry_type(d.ty) # "Reserved"
  <1>1. entry_type(d.ty) \in {"Free", "BootloaderCode", "Reserved"}
    BY SMTT(30) DEF entry_type
  <1> DEFINE e == descriptor_to_entry(d)
  <1>3. e.start = d.start /\ e.end = d.end /\ e.ty = entry_type(d.ty)
    BY SMTT(30) DEF descriptor_to_entry
  <1>4. e \in Entry
    BY SMTT(30), <1>1 DEF Descriptor, Entry, descriptor_to_entry
  <1>5. IsUsable(e) <=> entry_type(d.ty) # "Reserved"
    <2> HIDE DEF e
    <2> QED
      BY SMTT(30), <1>1, <1>3 DEF IsUsable
  <1> QED
    BY <1>3, <1>4, <1>5

(* The last entry grows. *)
LEMMA MergeIs ==
  ASSUME NEW l \in Seq(Entry), Len(l) > 0, NEW e \in Nat
  PROVE  LET m == [l EXCEPT ![Len(l)].end = e]
         IN  /\ m \in Seq(Entry) /\ Len(m) = Len(l)
             /\ \A i \in 1 .. Len(l) : m[i].start = l[i].start /\ m[i].ty = l[i].ty
             /\ \A i \in 1 .. Len(l) - 1 : m[i] = l[i]
             /\ m[Len(l)].end = e
  <1>1. Len(l) \in 1 .. Len(l) /\ \A i \in 1 .. Len(l) : l[i] \in Entry
    BY SMTT(30), SeqIs
  <1> DEFINE last == [l[Len(l)] EXCEPT !.end = e]
  <1>2. /\ last \in Entry /\ last.start = l[Len(l)].start
        /\ last.ty = l[Len(l)].ty /\ last.end = e
    BY SMTT(30), <1>1 DEF Entry
  <1> DEFINE m == [l EXCEPT ![Len(l)] = last]
  <1>3. m = [l EXCEPT ![Len(l)].end = e]
    OBVIOUS
  <1> HIDE DEF last
  <1>4. m \in Seq(Entry) /\ Len(m) = Len(l)
    BY SMTT(30), <1>1, <1>2
  <1>5. m[Len(l)] = last /\ \A i \in 1 .. Len(l) : i # Len(l) => m[i] = l[i]
    BY SMTT(30), <1>1
  <1> HIDE DEF m
  <1>6. /\ \A i \in 1 .. Len(l) : m[i].start = l[i].start /\ m[i].ty = l[i].ty
        /\ \A i \in 1 .. Len(l) - 1 : m[i] = l[i]
        /\ m[Len(l)].end = e
    BY SMTT(30), <1>1, <1>2, <1>5
  <1> QED
    BY <1>3, <1>4, <1>6

LEMMA ReduceTyped ==
  ASSUME NEW l \in Seq(Entry), NEW e \in Entry
  PROVE  Reduce(l, e) \in Seq(Entry)
  <1>1. e.end \in Nat
    BY DEF Entry
  <1>2. Len(l) > 0 => [l EXCEPT ![Len(l)].end = e.end] \in Seq(Entry)
    BY <1>1, MergeIs
  <1>3. Append(l, e) \in Seq(Entry)
    BY AppendIs
  <1> QED
    BY <1>2, <1>3 DEF Reduce

(* The functions that Reduced and Filtered define by recursion exist. *)
LEMMA ReducedIs ==
  ASSUME NEW s \in Seq(Descriptor)
  PROVE  /\ Reduced(s) \in [0 .. Len(s) -> Seq(Entry)]
         /\ Reduced(s)[0] = <<>>
         /\ \A n \in 1 .. Len(s) :
              Reduced(s)[n] = Reduce(Reduced(s)[n - 1], descriptor_to_entry(s[n]))
  <1> DEFINE A == Seq(Entry)
             N == Len(s)
             Body(f) == [n \in 0 .. N |-> IF n = 0 THEN <<>>
                           ELSE Reduce(f[n - 1], descriptor_to_entry(s[n]))]
             G == [n \in 1 .. N |-> [l \in A |-> Reduce(l, descriptor_to_entry(s[n]))]]
  <1>1. N \in Nat /\ <<>> \in A /\ \A n \in 1 .. N : s[n] \in Descriptor
    BY SeqIs
  <1>2. \A n \in 1 .. N : descriptor_to_entry(s[n]) \in Entry
    BY <1>1, EntryTyped
  <1>3. \A n \in 1 .. N : \A l \in A : Reduce(l, descriptor_to_entry(s[n])) \in A
    BY <1>2, ReduceTyped
  <1>4. G \in [1 .. N -> [A -> A]]
    BY <1>3
  <1>5. PICK f \in [0 .. N -> A] : f[0] = <<>> /\ \A n \in 1 .. N : f[n] = G[n][f[n - 1]]
    <2> DEFINE a == <<>>
    <2>1. N \in Nat /\ a \in A
      BY <1>1
    <2> HIDE DEF A, N, G, a
    <2>2. \E f : Iterates(f, N, A, a, G)
      BY <1>4, <2>1, Recursion
    <2> QED
      BY <2>2 DEF a, Iterates
  <1>6. \A n \in 1 .. N : n - 1 \in 0 .. N
    BY SMTT(30), <1>1
  <1>7. \A n \in 1 .. N : f[n] = Reduce(f[n - 1], descriptor_to_entry(s[n]))
    BY <1>5, <1>6
  <1>8. \A n \in 0 .. N : n # 0 => n \in 1 .. N
    BY SMTT(30), <1>1
  <1>9. f = Body(f)
    <2> HIDE DEF A, N
    <2> QED
      BY <1>5, <1>7, <1>8
  <1>10. Reduced(s) = CHOOSE g : g = Body(g)
    BY DEF Reduced
  <1>11. Reduced(s) = Body(Reduced(s))
    BY <1>9, <1>10
  <1>12. Len(s) = N /\ 0 \in 0 .. N /\ \A n \in 1 .. N : n \in 0 .. N /\ n # 0
    BY SMTT(30), <1>1
  <1> DEFINE r == Reduced(s)
  <1>13. r[0] = <<>>
    BY <1>11, <1>12
  <1>14. \A n \in 1 .. N : r[n] = Reduce(r[n - 1], descriptor_to_entry(s[n]))
    BY <1>11, <1>12
  <1>15. \A n \in 0 .. N : r[n] \in A
    <2> DEFINE S == {n \in 0 .. N : r[n] \in A}
    <2>1. 0 \in S
      BY <1>1, <1>12, <1>13
    <2>2. ASSUME NEW n \in 0 .. N - 1, n \in S
          PROVE  n + 1 \in S
      <3>1. n + 1 \in 1 .. N /\ n + 1 \in 0 .. N /\ (n + 1) - 1 = n
        BY SMTT(30), <1>1
      <3> QED
        BY <1>3, <1>14, <2>2, <3>1
    <2>3. \A n \in 0 .. N : n \in S
      <3> HIDE DEF S
      <3> QED
        BY <1>1, <2>1, <2>2, Induction
    <2> QED
      BY <2>3
  <1>16. r \in [0 .. N -> A]
    BY <1>11, <1>15
  <1> QED
    BY <1>13, <1>14, <1>16

LEMMA FilteredIs ==
  ASSUME NEW s \in Seq(Entry)
  PROVE  /\ Filtered(s) \in [0 .. Len(s) -> Seq(Area)]
         /\ Filtered(s)[0] = <<>>
         /\ \A n \in 1 .. Len(s) : Filtered(s)[n] = Keep(Filtered(s)[n - 1], s[n])
  <1> DEFINE A == Seq(Area)
             N == Len(s)
             Body(f) == [n \in 0 .. N |-> IF n = 0 THEN <<>> ELSE Keep(f[n - 1], s[n])]
             G == [n \in 1 .. N |-> [l \in A |-> Keep(l, s[n])]]
  <1>1. N \in Nat /\ <<>> \in A /\ \A n \in 1 .. N : s[n] \in Entry
    BY SeqIs
  <1>2. \A n \in 1 .. N : [start |-> s[n].start, end |-> s[n].end] \in Area
    BY SMTT(30), <1>1 DEF Entry, Area
  <1>3. \A n \in 1 .. N : \A l \in A : Keep(l, s[n]) \in A
    BY <1>2, AppendIs DEF Keep
  <1>4. G \in [1 .. N -> [A -> A]]
    BY <1>3
  <1>5. PICK f \in [0 .. N -> A] : f[0] = <<>> /\ \A n \in 1 .. N : f[n] = G[n][f[n - 1]]
    <2> DEFINE a == <<>>
    <2>1. N \in Nat /\ a \in A
      BY <1>1
    <2> HIDE DEF A, N, G, a
    <2>2. \E f : Iterates(f, N, A, a, G)
      BY <1>4, <2>1, Recursion
    <2> QED
      BY <2>2 DEF a, Iterates
  <1>6. /\ 0 \in 0 .. N /\ \A n \in 1 .. N : n \in 0 .. N /\ n # 0 /\ n - 1 \in 0 .. N
        /\ \A n \in 0 .. N : n # 0 => n \in 1 .. N
    BY SMTT(30), <1>1
  <1>7. \A n \in 1 .. N : f[n] = Keep(f[n - 1], s[n])
    BY <1>5, <1>6
  <1>8. f = Body(f)
    <2> HIDE DEF A, N
    <2> QED
      BY <1>5, <1>6, <1>7
  <1>9. Filtered(s) = CHOOSE g : g = Body(g)
    BY DEF Filtered
  <1>10. Filtered(s) = Body(Filtered(s))
    BY <1>8, <1>9
  <1> DEFINE r == Filtered(s)
  <1>11. r[0] = <<>> /\ \A n \in 1 .. N : r[n] = Keep(r[n - 1], s[n])
    BY <1>6, <1>10
  <1>12. \A n \in 0 .. N : r[n] \in A
    <2> DEFINE S == {n \in 0 .. N : r[n] \in A}
    <2>1. 0 \in S
      BY <1>1, <1>6, <1>11
    <2>2. ASSUME NEW n \in 0 .. N - 1, n \in S
          PROVE  n + 1 \in S
      <3>1. n + 1 \in 1 .. N /\ n + 1 \in 0 .. N /\ (n + 1) - 1 = n
        BY SMTT(30), <1>1
      <3> QED
        BY <1>3, <1>11, <2>2, <3>1
    <2>3. \A n \in 0 .. N : n \in S
      <3> HIDE DEF S
      <3> QED
        BY <1>1, <2>1, <2>2, Induction
    <2> QED
      BY <2>3
  <1>13. r \in [0 .. N -> A]
    BY <1>10, <1>12
  <1> QED
    BY <1>11, <1>13

-----------------------------------------------------------------------------
(* The invariants of the two loops.  After n descriptors the list is in    *)
(* order, it ends where the n-th descriptor does, and what is usable in it *)
(* is what is in those descriptors; after n entries, the regions kept have *)
(* the frames of the usable ones.                                          *)
InOrder(l) ==
  /\ \A i \in 1 .. Len(l) : l[i].start < l[i].end
  /\ \A i, j \in 1 .. Len(l) : i < j => l[i].end =< l[j].start

Has(e, x) == e.start =< x /\ x < e.end
UsableIn(l, n, x) == \E i \in 1 .. n : IsUsable(l[i]) /\ Has(l[i], x)
FreeIn(s, n, x) == \E i \in 1 .. n : entry_type(s[i].ty) # "Reserved" /\ Has(s[i], x)

Merged(s, n, l) ==
  /\ l \in Seq(Entry) /\ InOrder(l)
  /\ n = 0 => l = <<>>
  /\ n > 0 => Len(l) > 0 /\ l[Len(l)].end = s[n].end
  /\ \A x \in Nat : UsableIn(l, Len(l), x) <=> FreeIn(s, n, x)

(* A descriptor begins where the list ends, or later. *)
LEMMA ReduceKeeps ==
  ASSUME NEW s \in Seq(Descriptor), InOrder(s), NEW n \in 0 .. Len(s) - 1, NEW l,
         Merged(s, n, l)
  PROVE  Merged(s, n + 1, Reduce(l, descriptor_to_entry(s[n + 1])))
  <1> DEFINE d == s[n + 1]
             e == descriptor_to_entry(d)
             m == Reduce(l, e)
             last == Len(l)
  <1>1. /\ n + 1 \in 1 .. Len(s) /\ n + 1 > 0 /\ n + 1 # 0 /\ n \in Nat /\ last \in Nat
        /\ d \in Descriptor
        /\ n > 0 => n \in 1 .. Len(s)
        /\ l \in Seq(Entry) /\ \A i \in 1 .. last : l[i] \in Entry
    <2>1. /\ Len(s) \in Nat /\ \A i \in 1 .. Len(s) : s[i] \in Descriptor
          /\ l \in Seq(Entry) /\ last \in Nat /\ \A i \in 1 .. last : l[i] \in Entry
      BY SeqIs DEF Merged
    <2>2. n + 1 \in 1 .. Len(s) /\ n + 1 > 0 /\ n + 1 # 0 /\ n \in Nat
          /\ (n > 0 => n \in 1 .. Len(s))
      BY SMTT(30), <2>1
    <2> QED
      BY <2>1, <2>2
  <1>2. /\ e \in Entry /\ e.start = d.start /\ e.end = d.end
        /\ IsUsable(e) <=> entry_type(d.ty) # "Reserved"
    BY <1>1, EntryTyped
  <1>3. /\ e.start \in Nat /\ e.end \in Nat /\ e.start < e.end
        /\ n > 0 => last > 0 /\ l[last].end =< e.start
        /\ n = 0 => last = 0
    <2>1. e.start \in Nat /\ e.end \in Nat
      BY <1>2 DEF Entry
    <2>2. e.start < e.end
      BY <1>1, <1>2 DEF InOrder
    <2>3. ASSUME n > 0 PROVE last > 0 /\ l[last].end =< e.start
      <3>1. n \in 1 .. Len(s) /\ n < n + 1
        BY <1>1, <2>3
      <3>2. s[n].end =< d.start
        BY <1>1, <3>1 DEF InOrder
      <3> QED
        BY <1>2, <2>3, <3>2 DEF Merged
    <2>4. n = 0 => last = 0
      BY SMTT(30) DEF Merged
    <2> QED
      BY <2>1, <2>2, <2>3, <2>4
  <1>4. \A x \in Nat : FreeIn(s, n + 1, x) <=> FreeIn(s, n, x) \/ (IsUsable(e) /\ Has(e, x))
    <2>1. \A i : i \in 1 .. n + 1 <=> i \in 1 .. n \/ i = n + 1
      BY SMTT(30), <1>1
    <2> HIDE DEF e
    <2> QED
      BY <1>2, <2>1 DEF FreeIn, Has
  <1>5. \A i \in 1 .. last : /\ l[i].start \in Nat /\ l[i].end \in Nat
                             /\ l[i].start < l[i].end /\ l[i].end =< e.start
    <2>1. \A i \in 1 .. last : l[i].start \in Nat /\ l[i].end \in Nat /\ l[i].start < l[i].end
      BY <1>1 DEF Entry, Merged, InOrder
    <2>2. ASSUME NEW i \in 1 .. last PROVE l[i].end =< e.start
      <3>1. last > 0 /\ last \in 1 .. last /\ l[last].end =< e.start
        BY SMTT(30), <1>1, <1>3
      <3>2. i < last => l[i].end =< l[last].start
        BY <3>1 DEF Merged, InOrder
      <3>3. i < last \/ i = last
        BY SMTT(30), <1>1
      <3> HIDE DEF e, last
      <3> QED
        BY SMTT(30), <1>3, <2>1, <3>1, <3>2, <3>3
    <2> QED
      BY <2>1, <2>2
  <1>6. CASE last > 0 /\ Merges(l[last], e)
    <2>1. m = [l EXCEPT ![last].end = e.end]
      BY <1>6 DEF Reduce
    <2>2. /\ m \in Seq(Entry) /\ Len(m) = last
          /\ \A i \in 1 .. last : m[i].start = l[i].start /\ m[i].ty = l[i].ty
          /\ \A i \in 1 .. last - 1 : m[i] = l[i]
          /\ m[last].end = e.end
      BY SMTT(30), <1>1, <1>3, <1>6, <2>1, MergeIs
    <2>3. l[last].ty = e.ty /\ l[last].end = e.start
      BY <1>6 DEF Merges
    <2>4. \A i \in 1 .. last : i \in 1 .. last - 1 \/ i = last
      BY SMTT(30), <1>1
    <2>5. last \in 1 .. last /\ \A i \in 1 .. last - 1 : i \in 1 .. last
      BY SMTT(30), <1>1, <1>6
    <2> HIDE DEF m, e, d, last
    <2>6. InOrder(m)
      <3>1. \A i \in 1 .. last : m[i].start < m[i].end
        <4>1. \A i \in 1 .. last - 1 : m[i].start < m[i].end
          BY <1>5, <2>2, <2>5
        <4>2. m[last].start < m[last].end
          BY SMTT(30), <1>3, <1>5, <2>2, <2>5
        <4> QED
          BY <2>4, <4>1, <4>2
      <3>2. ASSUME NEW i \in 1 .. last, NEW j \in 1 .. last, i < j
            PROVE  m[i].end =< m[j].start
        <4>1. i \in 1 .. last - 1
          BY SMTT(30), <1>1, <3>2
        <4>2. l[i].end =< l[j].start
          BY <3>2 DEF Merged, InOrder, last
        <4> QED
          BY <2>2, <4>1, <4>2
      <3> QED
        BY <2>2, <3>1, <3>2 DEF InOrder
    <2>7. \A x \in Nat : Has(m[last], x) <=> Has(l[last], x) \/ Has(e, x)
      BY SMTT(30), <1>3, <1>5, <2>2, <2>3, <2>5 DEF Has
    <2>8. \A i \in 1 .. last : IsUsable(m[i]) <=> IsUsable(l[i])
      BY <2>2 DEF IsUsable
    <2>9. IsUsable(e) <=> IsUsable(l[last])
      BY <2>3 DEF IsUsable
    <2>10. \A x \in Nat : UsableIn(m, last, x) <=> UsableIn(l, last, x) \/ (IsUsable(e) /\ Has(e, x))
      BY <2>2, <2>4, <2>5, <2>7, <2>8, <2>9 DEF UsableIn
    <2>11. \A x \in Nat : UsableIn(m, Len(m), x) <=> FreeIn(s, n + 1, x)
      BY <1>4, <2>2, <2>10 DEF Merged, last
    <2> QED
      BY <1>1, <1>2, <1>6, <2>2, <2>6, <2>11 DEF Merged, m, e, d
  <1>7. CASE ~ (last > 0 /\ Merges(l[last], e))
    <2>1. m = Append(l, e)
      BY <1>7 DEF Reduce
    <2>2. /\ m \in Seq(Entry) /\ Len(m) = last + 1
          /\ \A i \in 1 .. last : m[i] = l[i]
          /\ m[last + 1] = e
      BY SMTT(30), <1>1, <1>2, <2>1, AppendIs
    <2>3. \A i : i \in 1 .. last + 1 <=> i \in 1 .. last \/ i = last + 1
      BY SMTT(30), <1>1
    <2>4. last + 1 > 0
      BY SMTT(30), <1>1
    <2> HIDE DEF m, e, d, last
    <2>5. InOrder(m)
      <3>1. \A i \in 1 .. last + 1 : m[i].start < m[i].end
        BY <1>3, <1>5, <2>2, <2>3
      <3>2. ASSUME NEW i \in 1 .. last + 1, NEW j \in 1 .. last + 1, i < j
            PROVE  m[i].end =< m[j].start
        <4>1. i \in 1 .. last
          BY SMTT(30), <1>1, <3>2
        <4>2. CASE j \in 1 .. last
          <5>1. l[i].end =< l[j].start
            BY <3>2, <4>1, <4>2 DEF Merged, InOrder, last
          <5> QED
            BY <2>2, <4>1, <4>2, <5>1
        <4>3. CASE j = last + 1
          BY <1>5, <2>2, <4>1, <4>3
        <4> QED
          BY <2>3, <4>2, <4>3
      <3> QED
        BY <2>2, <3>1, <3>2 DEF InOrder
    <2>6. \A x \in Nat : UsableIn(m, last + 1, x) <=> UsableIn(l, last, x) \/ (IsUsable(e) /\ Has(e, x))
      BY <2>2, <2>3 DEF UsableIn
    <2>7. \A x \in Nat : UsableIn(m, Len(m), x) <=> FreeIn(s, n + 1, x)
      BY <1>4, <2>2, <2>6 DEF Merged, last
    <2> QED
      BY <1>1, <1>2, <2>2, <2>4, <2>5, <2>7 DEF Merged, m, e, d
  <1> QED
    BY <1>6, <1>7

Covered(k, x) == \E i \in 1 .. Len(k) : Has(k[i], x)

Kept(l, n, k) ==
  /\ k \in Seq(Area) /\ InOrder(k)
  /\ n = 0 => k = <<>>
  /\ n > 0 => \A i \in 1 .. Len(k) : k[i].end =< l[n].end
  /\ \A x \in Nat : Covered(k, x) <=> UsableIn(l, n, x)

LEMMA FilterKeeps ==
  ASSUME NEW l \in Seq(Entry), InOrder(l), NEW n \in 0 .. Len(l) - 1, NEW k,
         Kept(l, n, k)
  PROVE  Kept(l, n + 1, Keep(k, l[n + 1]))
  <1> DEFINE e == l[n + 1]
             a == [start |-> e.start, end |-> e.end]
             m == Keep(k, e)
  <1>1. /\ n + 1 \in 1 .. Len(l) /\ n + 1 > 0 /\ n + 1 # 0 /\ n \in Nat /\ Len(k) \in Nat
        /\ e \in Entry
        /\ n > 0 => n \in 1 .. Len(l)
        /\ k \in Seq(Area) /\ \A i \in 1 .. Len(k) : k[i] \in Area
    <2>1. /\ Len(l) \in Nat /\ \A i \in 1 .. Len(l) : l[i] \in Entry
          /\ k \in Seq(Area) /\ Len(k) \in Nat /\ \A i \in 1 .. Len(k) : k[i] \in Area
      BY SeqIs DEF Kept
    <2>2. n + 1 \in 1 .. Len(l) /\ n + 1 > 0 /\ n + 1 # 0 /\ n \in Nat
          /\ (n > 0 => n \in 1 .. Len(l))
      BY SMTT(30), <2>1
    <2> QED
      BY <2>1, <2>2
  <1>2. /\ e.start \in Nat /\ e.end \in Nat /\ e.start < e.end
        /\ a \in Area /\ a.start = e.start /\ a.end = e.end
    <2>1. e.start \in Nat /\ e.end \in Nat
      BY <1>1 DEF Entry
    <2>2. e.start < e.end
      BY <1>1 DEF InOrder
    <2> HIDE DEF e
    <2> QED
      BY SMTT(30), <2>1, <2>2 DEF Area
  <1>3. ASSUME NEW i \in 1 .. Len(k)
        PROVE  /\ k[i].start \in Nat /\ k[i].end \in Nat
               /\ k[i].end =< e.start /\ k[i].end =< e.end
    <2>1. k[i].start \in Nat /\ k[i].end \in Nat
      BY <1>1 DEF Area
    <2>2. n > 0
      BY SMTT(30), <1>1 DEF Kept
    <2>3. k[i].end =< l[n].end
      BY <2>2 DEF Kept
    <2>4. l[n] \in Entry /\ n < n + 1
      BY <1>1, <2>2, SeqIs
    <2>5. l[n].end \in Nat
      BY <2>4 DEF Entry
    <2>6. l[n].end =< e.start
      BY <1>1, <2>2, <2>4 DEF InOrder
    <2> HIDE DEF e
    <2> QED
      BY SMTT(30), <1>2, <2>1, <2>3, <2>5, <2>6
  <1>4. \A x \in Nat : UsableIn(l, n + 1, x) <=> UsableIn(l, n, x) \/ (IsUsable(e) /\ Has(e, x))
    <2>1. \A i : i \in 1 .. n + 1 <=> i \in 1 .. n \/ i = n + 1
      BY SMTT(30), <1>1
    <2> QED
      BY <2>1 DEF UsableIn
  <1>5. CASE ~ IsUsable(e)
    <2>1. m = k
      BY <1>5 DEF Keep
    <2>2. \A x \in Nat : Covered(m, x) <=> UsableIn(l, n + 1, x)
      BY <1>4, <1>5, <2>1 DEF Kept
    <2> HIDE DEF m
    <2> QED
      BY <1>1, <1>3, <2>1, <2>2 DEF Kept, m
  <1>6. CASE IsUsable(e)
    <2>1. m = Append(k, a)
      BY <1>6 DEF Keep
    <2> HIDE DEF a
    <2>2. /\ m \in Seq(Area) /\ Len(m) = Len(k) + 1
          /\ \A i \in 1 .. Len(k) : m[i] = k[i]
          /\ m[Len(k) + 1] = a
      BY SMTT(30), <1>1, <1>2, <2>1, AppendIs
    <2>3. \A i : i \in 1 .. Len(k) + 1 <=> i \in 1 .. Len(k) \/ i = Len(k) + 1
      BY SMTT(30), <1>1
    <2> HIDE DEF m, e
    <2>4. InOrder(m)
      <3>1. \A i \in 1 .. Len(k) + 1 : m[i].start < m[i].end
        BY <1>2, <2>2, <2>3 DEF Kept, InOrder
      <3>2. ASSUME NEW i \in 1 .. Len(k) + 1, NEW j \in 1 .. Len(k) + 1, i < j
            PROVE  m[i].end =< m[j].start
        <4>1. i \in 1 .. Len(k)
          BY SMTT(30), <1>1, <3>2
        <4>2. CASE j \in 1 .. Len(k)
          <5>1. k[i].end =< k[j].start
            BY <3>2, <4>1, <4>2 DEF Kept, InOrder
          <5> QED
            BY <2>2, <4>1, <4>2, <5>1
        <4>3. CASE j = Len(k) + 1
          BY <1>2, <1>3, <2>2, <4>1, <4>3
        <4> QED
          BY <2>3, <4>2, <4>3
      <3> QED
        BY <2>2, <3>1, <3>2 DEF InOrder
    <2>5. \A i \in 1 .. Len(m) : m[i].end =< e.end
      <3>1. e.end =< e.end
        BY SMTT(30), <1>2
      <3> QED
        BY <1>2, <1>3, <2>2, <2>3, <3>1
    <2>6. \A x \in Nat : Has(a, x) <=> Has(e, x)
      BY <1>2 DEF Has
    <2>7. \A x \in Nat : Covered(m, x) <=> Covered(k, x) \/ Has(e, x)
      BY <2>2, <2>3, <2>6 DEF Covered
    <2>8. \A x \in Nat : Covered(m, x) <=> UsableIn(l, n + 1, x)
      BY <1>4, <1>6, <2>7 DEF Kept
    <2> QED
      BY <1>1, <2>2, <2>4, <2>5, <2>8 DEF Kept, m, e
  <1> QED
    BY <1>5, <1>6

(* The whole of the map, by induction on its length. *)
LEMMA MergedAll ==
  ASSUME NEW s \in Seq(Descriptor), InOrder(s)
  PROVE  Merged(s, Len(s), Reduced(s)[Len(s)])
  <1> DEFINE N == Len(s)
             S == {n \in 0 .. N : Merged(s, n, Reduced(s)[n])}
  <1>1. N \in Nat /\ 0 \in 0 .. N /\ N \in 0 .. N
    BY SeqIs
  <1>2. 0 \in S
    <2> DEFINE e == <<>>
    <2>1. e \in Seq(Entry) /\ Len(e) = 0 /\ 1 .. 0 = {} /\ ~ (0 > 0)
      BY SMTT(30)
    <2> HIDE DEF e
    <2>2. InOrder(e) /\ \A x \in Nat : ~ UsableIn(e, Len(e), x) /\ ~ FreeIn(s, 0, x)
      BY <2>1 DEF InOrder, UsableIn, FreeIn
    <2>3. Reduced(s)[0] = e
      BY ReducedIs DEF e
    <2> QED
      BY <1>1, <2>1, <2>2, <2>3 DEF Merged, e
  <1>3. ASSUME NEW n \in 0 .. N - 1, n \in S
        PROVE  n + 1 \in S
    <2>1. n + 1 \in 1 .. N /\ n + 1 \in 0 .. N /\ (n + 1) - 1 = n
      BY SMTT(30), <1>1
    <2>2. Reduced(s)[n + 1] = Reduce(Reduced(s)[n], descriptor_to_entry(s[n + 1]))
      BY <2>1, ReducedIs
    <2> QED
      BY <1>3, <2>1, <2>2, ReduceKeeps
  <1>4. \A n \in 0 .. N : n \in S
    <2> HIDE DEF N, S
    <2> QED
      BY <1>1, <1>2, <1>3, Induction
  <1> QED
    BY <1>1, <1>4

LEMMA KeptAll ==
  ASSUME NEW l \in Seq(Entry), InOrder(l)
  PROVE  Kept(l, Len(l), Filtered(l)[Len(l)])
  <1> DEFINE N == Len(l)
             S == {n \in 0 .. N : Kept(l, n, Filtered(l)[n])}
  <1>1. N \in Nat /\ 0 \in 0 .. N /\ N \in 0 .. N
    BY SeqIs
  <1>2. 0 \in S
    <2> DEFINE e == <<>>
    <2>1. e \in Seq(Area) /\ Len(e) = 0 /\ 1 .. 0 = {} /\ ~ (0 > 0)
      BY SMTT(30)
    <2> HIDE DEF e
    <2>2. InOrder(e) /\ \A x \in Nat : ~ Covered(e, x) /\ ~ UsableIn(l, 0, x)
      BY <2>1 DEF InOrder, UsableIn, Covered
    <2>3. Filtered(l)[0] = e
      BY FilteredIs DEF e
    <2> QED
      BY <1>1, <2>1, <2>2, <2>3 DEF Kept, e
  <1>3. ASSUME NEW n \in 0 .. N - 1, n \in S
        PROVE  n + 1 \in S
    <2>1. n + 1 \in 1 .. N /\ n + 1 \in 0 .. N /\ (n + 1) - 1 = n
      BY SMTT(30), <1>1
    <2>2. Filtered(l)[n + 1] = Keep(Filtered(l)[n], l[n + 1])
      BY <2>1, FilteredIs
    <2> QED
      BY <1>3, <2>1, <2>2, FilterKeeps
  <1>4. \A n \in 0 .. N : n \in S
    <2> HIDE DEF N, S
    <2> QED
      BY <1>1, <1>2, <1>3, Induction
  <1> QED
    BY <1>1, <1>4
=============================================================================
