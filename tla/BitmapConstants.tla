--------------------------- MODULE BitmapConstants ---------------------------
(* The parameters of the bitmap allocator and of its search loops. *)
EXTENDS Integers

CONSTANTS
  FirstFrame,  \* Config.allocation_range.start
  FrameCount,  \* Config.allocation_range: end - start
  WordSize,    \* size_of::<usize>(): 8 in the kernel
  Pools,       \* the sets of frames that Config.regions may contain
  Handles,     \* the OwnedFrames objects that may exist
  MaxFrames    \* bound: frames in one request

ASSUME BitmapAssumption ==
  /\ FirstFrame \in Nat
  /\ FrameCount \in Nat
  /\ WordSize \in Nat \ {0}
  /\ Pools \subseteq SUBSET Nat
  /\ MaxFrames \in Nat \ {0}
=============================================================================
