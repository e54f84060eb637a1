-------------------------- MODULE WatermarkAllocator --------------------------
(***************************************************************************)
(* The allocator the kernel boots with                                     *)
(* (kernel/src/memory/watermark_allocator.rs): it counts down through the  *)
(* last region of the memory map, then takes the regions from the first    *)
(* one on, and never takes a frame back.  Calls run under its mutex.       *)
(***************************************************************************)
EXTENDS Integers, Sequences

CONSTANTS
  Layouts,     \* the memory maps: sequences of regions [start, end)
  MaxFrames    \* bound: frames in one request

(* The bootloader sorts the memory map, and its entries do not overlap. *)
IsLayout(l) ==
  /\ l \in Seq([start : Nat, end : Nat]) /\ Len(l) > 0
  /\ \A i \in 1 .. Len(l) : l[i].start < l[i].end
  /\ \A i, j \in 1 .. Len(l) : i < j => l[i].end <= l[j].start

VARIABLES
  regions,                  \* the memory map the allocator was built from
  free_regions,             \* the iterator: the regions it has left
  last_in_current_region,
  prev_frame,
  top,
  granted,                  \* the runs handed out, in order
  failed                    \* an allocation has returned Err

vars == <<regions, free_regions, last_in_current_region, prev_frame, top,
          granted, failed>>

Run(base, n) == base .. base + n - 1
Covers(g) == Run(g.base, g.len)

(* Mutant: the top is the start of the region. *)
InitLowTop ==
  /\ regions \in Layouts
  /\ free_regions = SubSeq(regions, 1, Len(regions) - 1)
  /\ last_in_current_region = regions[Len(regions)].start
  /\ prev_frame = regions[Len(regions)].end
  /\ top = regions[Len(regions)].start
  /\ granted = <<>>
  /\ failed = FALSE

(* Inner::new takes the last region. *)
Init ==
  /\ regions \in Layouts
  /\ free_regions = SubSeq(regions, 1, Len(regions) - 1)
  /\ last_in_current_region = regions[Len(regions)].start
  /\ prev_frame = regions[Len(regions)].end
  /\ top = regions[Len(regions)].end
  /\ granted = <<>>
  /\ failed = FALSE

-----------------------------------------------------------------------------
(* The call ends with the frame base; the iterator moved on to region j; it  *)
(* ends with an error.                                                      *)
Take(base, n) ==
  /\ prev_frame' = base
  /\ granted' = Append(granted, [base |-> base, len |-> n])
  /\ UNCHANGED <<regions, top, failed>>

NextRegion(j) ==
  /\ last_in_current_region' = free_regions[j].start
  /\ free_regions' = SubSeq(free_regions, j + 1, Len(free_regions))

Fail ==
  /\ failed' = TRUE
  /\ UNCHANGED <<regions, prev_frame, top, granted>>

(* The request fits below the last allocation. *)
Fits(n) == n <= prev_frame /\ prev_frame - n >= last_in_current_region

FromCurrent(n) ==
  /\ Fits(n)
  /\ Take(prev_frame - n, n)
  /\ UNCHANGED <<free_regions, last_in_current_region>>

(* The loop leaves the iterator's region j behind when it is too small.    *)
(* checked_sub ends the call with an error if frame 0 is nearer to the     *)
(* region's end than the request is long.                                  *)
Underflows(j, n) == free_regions[j].end < n
TooSmall(j, n) ==
  /\ ~ Underflows(j, n)
  /\ free_regions[j].end - n < free_regions[j].start
Reached(j, n) ==
  /\ n <= prev_frame /\ ~ Fits(n)
  /\ \A i \in 1 .. j - 1 : TooSmall(i, n)

FromRegion(n) ==
  \E j \in 1 .. Len(free_regions) :
    /\ Reached(j, n) /\ ~ TooSmall(j, n) /\ ~ Underflows(j, n)
    /\ NextRegion(j)
    /\ Take(free_regions[j].end - n, n)

FailsAtOnce(n) ==
  /\ prev_frame < n
  /\ Fail
  /\ UNCHANGED <<free_regions, last_in_current_region>>

FailsInRegion(n) ==
  \E j \in 1 .. Len(free_regions) :
    Reached(j, n) /\ Underflows(j, n) /\ NextRegion(j) /\ Fail

FailsAtEnd(n) ==
  /\ Reached(Len(free_regions) + 1, n)
  /\ IF free_regions = <<>>
       THEN UNCHANGED <<free_regions, last_in_current_region>>
       ELSE NextRegion(Len(free_regions))
  /\ Fail

allocation_fails(n) == FailsAtOnce(n) \/ FailsInRegion(n) \/ FailsAtEnd(n)

allocate_contiguous(n) == FromCurrent(n) \/ FromRegion(n)

(* The other methods change nothing: deallocate_contiguous is ignored,     *)
(* allocate_at is unimplemented.                                           *)
Next == \E n \in 1 .. MaxFrames : allocate_contiguous(n) \/ allocation_fails(n)

Spec == Init /\ [][Next]_vars
-----------------------------------------------------------------------------
(* Every variable has its type. *)
TypeOK ==
  /\ IsLayout(regions)
  /\ free_regions \in Seq([start : Nat, end : Nat])
  /\ last_in_current_region \in Nat
  /\ prev_frame \in Nat
  /\ top \in Nat
  /\ granted \in Seq([base : Nat, len : Nat])
  /\ failed \in BOOLEAN

Usable(f) == \E i \in 1 .. Len(regions) : regions[i].start <= f /\ f < regions[i].end

(* Only frames of the memory map are handed out, "out of areas to allocate  *)
(* from" being an error (allocate_contiguous), also after such an error.    *)
OnlyAreas == \A i \in 1 .. Len(granted) : \A f \in Covers(granted[i]) : Usable(f)

(* As long as no request has failed, only frames of the memory map are     *)
(* handed out, whichever regions the allocator has come through.           *)
OnlyAreasUntilFailure == TypeOK /\ (failed \/ OnlyAreas)

(* As long as no request has failed, no frame is handed out twice. *)
DisjointUntilFailure ==
  ~ failed =>
    \A i, j \in 1 .. Len(granted) :
      i # j => Covers(granted[i]) \intersect Covers(granted[j]) = {}

(* drain_into reports prev_frame..top.  With at most two regions, and no   *)
(* failure, that covers everything handed out.                             *)
DrainCovers ==
  ~ failed /\ Len(regions) <= 2 =>
    \A i \in 1 .. Len(granted) : Covers(granted[i]) \subseteq prev_frame .. top - 1
=============================================================================
