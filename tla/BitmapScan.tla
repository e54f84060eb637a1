------------------------------ MODULE BitmapScan ------------------------------
(***************************************************************************)
(* The two loops with which the bitmap allocator looks for n > 1 frames    *)
(* (bitmap_allocator/src/lib.rs), iteration by iteration.  BitmapAllocator *)
(* takes what they return as given; here it is what the loops compute.     *)
(*                                                                         *)
(* An entry is the set of its 1 bits, as in BitmapAllocator; frames are    *)
(* counted from first_frame.  The bitmap does not change during a scan,    *)
(* which runs under the mutex.                                             *)
(***************************************************************************)
EXTENDS BitmapAllocator

NoStart == -1

VARIABLES
  frame_count, \* the argument of the call
  pc,          \* the loop that runs, or how the call ended
  word,        \* the index of the current entry
  bit,         \* slide in the fast loop, bit_idx in the slow one
  found,       \* found_contiguous_frames
  start        \* contiguous_frames_start, or the frame that was found

scanVars == <<bitmap, frame_count, pc, word, bit, found, start>>

OffsetAt(w, b) == w * WordSize + b
WordIn(f) == f \div WordSize
BitIn(f) == f % WordSize

(* The n bits from s on: the mask, shifted. *)
Mask(s) == s .. s + frame_count - 1

(* z is trailing_zeros of an entry: the width of the word if it is zero. *)
TrailingZeros(entry, z) ==
  \/ entry = {} /\ z = 8 * WordSize
  \/ z \in entry /\ \A b \in entry : z <= b

ScanInit ==
  /\ bitmap \in [Words -> SUBSET Bits]
  /\ frame_count \in 2 .. MaxFrames
  /\ pc = "fast_entry"
  /\ word = 0
  /\ bit = 0
  /\ found = 0
  /\ start = NoStart

StartSlow ==
  /\ pc' = "slow"
  /\ word' = 0 /\ bit' = 0

-----------------------------------------------------------------------------
(* The head of the outer loop of allocate_multiple_fast; a request longer  *)
(* than a word, or the end of the bitmap, goes on with the slow loop.      *)
FastEntry ==
  /\ pc = "fast_entry"
  /\ IF frame_count <= WordSize /\ word \in Words
       THEN /\ TrailingZeros(bitmap[word], bit')
            /\ pc' = "fast_slide"
            /\ UNCHANGED word
       ELSE StartSlow
  /\ UNCHANGED <<bitmap, frame_count, found, start>>

(* An iteration of the inner loop of allocate_multiple_fast. *)
FastSlide ==
  /\ pc = "fast_slide"
  /\ \/ /\ bit < WordSize - frame_count
        /\ Mask(bit) \subseteq bitmap[word]
        /\ start' = OffsetAt(word, bit)
        /\ pc' = "ok"
        /\ UNCHANGED <<word, bit>>
     \/ /\ bit < WordSize - frame_count
        /\ ~ (Mask(bit) \subseteq bitmap[word])
        /\ bit' = bit + 1
        /\ UNCHANGED <<pc, word, start>>
     \/ /\ bit >= WordSize - frame_count
        /\ pc' = "fast_entry"
        /\ word' = word + 1
        /\ UNCHANGED <<bit, start>>
  /\ UNCHANGED <<bitmap, frame_count, found>>

(* Mutant: the first bit of an entry is skipped. *)
AdvanceSkips ==
  IF bit + 1 < WordSize THEN bit' = bit + 1 /\ UNCHANGED word
                        ELSE bit' = 1 /\ word' = word + 1

(* The next bit, or the first one of the next entry. *)
Advance ==
  IF bit + 1 < WordSize THEN bit' = bit + 1 /\ UNCHANGED word
                        ELSE bit' = 0 /\ word' = word + 1

(* Mutant: the count is compared before it is incremented. *)
SlowFreeLate ==
  /\ bit \in bitmap[word]
  /\ start' = IF found = 0 THEN OffsetAt(word, bit) ELSE start
  /\ found' = found + 1
  /\ IF found = frame_count THEN pc' = "ok" /\ UNCHANGED <<word, bit>>
                            ELSE Advance /\ UNCHANGED pc

(* The body of the loops of allocate_multiple_slow. *)
SlowFree ==
  /\ bit \in bitmap[word]
  /\ start' = IF found = 0 THEN OffsetAt(word, bit) ELSE start
  /\ found' = found + 1
  /\ IF found + 1 = frame_count THEN pc' = "ok" /\ UNCHANGED <<word, bit>>
                                ELSE Advance /\ UNCHANGED pc

SlowTaken ==
  /\ bit \notin bitmap[word]
  /\ found' = 0
  /\ start' = NoStart
  /\ Advance
  /\ UNCHANGED pc

SlowBit ==
  /\ pc = "slow" /\ word \in Words
  /\ SlowFree \/ SlowTaken
  /\ UNCHANGED <<bitmap, frame_count>>

SlowFails ==
  /\ pc = "slow" /\ word \notin Words
  /\ pc' = "err"
  /\ UNCHANGED <<bitmap, frame_count, word, bit, found, start>>

ScanNext == FastEntry \/ FastSlide \/ SlowBit \/ SlowFails

ScanSpec == ScanInit /\ [][ScanNext]_scanVars
-----------------------------------------------------------------------------
(* Every variable has its type. *)
ScanTyped ==
  /\ bitmap \in [Words -> SUBSET Bits]
  /\ frame_count \in 2 .. MaxFrames
  /\ pc \in {"fast_entry", "fast_slide", "slow", "ok", "err"}
  /\ word \in 0 .. Length
  /\ bit \in Nat
  /\ found \in 0 .. frame_count
  /\ start \in Nat \union {NoStart}

Frames == 0 .. Length * WordSize - 1
FreeAt(f) == f \in Frames /\ BitIn(f) \in bitmap[WordIn(f)]
IsRun(f) == \A g \in f .. f + frame_count - 1 : FreeAt(g)

(* A scan that succeeds returns the start of n frames that are all free and *)
(* in range, whichever loop found it.                                       *)
FoundIsRun == pc = "ok" => start \in Frames /\ IsRun(start)

(* The slow loop returns the first run of the bitmap, and none of the fast  *)
(* loop's misses is lost: what precedes the result is no run.               *)
SlowFindsFirst ==
  pc = "ok" /\ found = frame_count => \A f \in Frames : f < start => ~ IsRun(f)

(* A scan fails only when the bitmap contains no run at all. *)
FailsOnlyWhenNone == pc = "err" => \A f \in Frames : ~ IsRun(f)
=============================================================================
