----------------------------- MODULE BitmapCalls -----------------------------
(***************************************************************************)
(* The bitmap allocator with its searches taken apart: a request for more  *)
(* than one frame runs the loops of BitmapScan, iteration by iteration, on *)
(* the bitmap the calls before it have left, and marks what they found.    *)
(* The mutex is held meanwhile, so that the other calls wait.  This is     *)
(* shown to implement BitmapAllocator, whose calls are one step.           *)
(***************************************************************************)
EXTENDS BitmapScan

VARIABLE caller      \* the handle a search is for

scan == <<frame_count, pc, word, bit, found, start, caller>>
owners == <<pool, shared, live, reply, panicked>>
callVars == <<bitmap, scan, owners>>

NoCaller == "none"

(* No search is under way. *)
Idle ==
  /\ frame_count = 0 /\ pc = "idle" /\ word = 0 /\ bit = 0 /\ found = 0
  /\ start = NoStart /\ caller = NoCaller

CallsInit == Init /\ Idle

(* What takes no search. *)
OtherCall ==
  \/ \E h \in Handles : live[h].len = 0 /\ allocate_contiguous(h, 1)
  \/ \E h \in Handles, f \in InRange, k \in 1 .. MaxFrames :
       live[h].len = 0 /\ allocate_at(h, f, k)
  \/ allocation_fails(1)
  \/ \E op \in {"any", "at"} : allocate_none(op)

Other ==
  /\ Idle
  /\ \/ Handover \/ Publish \/ Deallocate
     \/ shared /\ ~ panicked /\ OtherCall /\ UNCHANGED <<pool, shared, panicked>>
  /\ UNCHANGED scan

(* allocate_contiguous, for more than one frame: allocate_multiple_fast,   *)
(* or else allocate_multiple_slow.                                         *)
Begin ==
  /\ Idle /\ shared /\ ~ panicked
  /\ \E h \in Handles : live[h].len = 0 /\ caller' = h
  /\ frame_count' \in 2 .. MaxFrames
  /\ pc' = "fast_entry"
  /\ UNCHANGED <<bitmap, word, bit, found, start, owners>>

Iterate == ScanNext /\ UNCHANGED <<caller, owners>>

End ==
  /\ frame_count' = 0 /\ pc' = "idle" /\ word' = 0 /\ bit' = 0 /\ found' = 0
  /\ start' = NoStart /\ caller' = NoCaller
  /\ UNCHANGED <<pool, shared, panicked>>

(* The frames that were found are marked, and owned. *)
Commit ==
  /\ pc = "ok"
  /\ bitmap' = set_allocated(bitmap, Run(FirstFrame + start, frame_count))
  /\ Own(caller, FirstFrame + start, frame_count)
  /\ Answer("any", frame_count, FirstFrame + start)
  /\ End

Refuse ==
  /\ pc = "err"
  /\ Answer("any", frame_count, AllocError)
  /\ UNCHANGED <<bitmap, live>>
  /\ End

CallsNext == Other \/ Begin \/ Iterate \/ Commit \/ Refuse

CallsSpec == CallsInit /\ [][CallsNext]_callVars
-----------------------------------------------------------------------------
(* The loops compute what BitmapAllocator says of a call: which frames are *)
(* found, that they are the first ones, and that it fails otherwise.       *)
ImplementsAllocator == Spec
=============================================================================
