---------------------------- MODULE PhysicalMemory ----------------------------
(***************************************************************************)
(* How the kernel takes over physical memory (kmain in kernel/src/main.rs, *)
(* kernel/src/memory/physical.rs): the watermark allocator serves highmem  *)
(* while the bitmap allocator is built, what it handed out is drained into *)
(* the bitmap, and the bitmap serves from then on.  OwnedFrames live       *)
(* across the change: they hold the global allocator, which deallocates    *)
(* through whichever allocator is installed when they are dropped.         *)
(***************************************************************************)
EXTENDS BitmapAllocator, BootMemoryMap

CONSTANT FirmwareMaps  \* the memory maps, as the firmware gives them

VARIABLES
  regions, free_regions, last_in_current_region, prev_frame, top, granted,
  failed,                                       \* the watermark allocator
  highmem,                                      \* GLOBAL_HIGHMEM
  firmware                                      \* the firmware's map

watermark == <<regions, free_regions, last_in_current_region, prev_frame, top,
               granted, failed>>
memoryVars == <<watermark, vars, highmem, firmware>>

Layouts == {usable_memory(m) : m \in FirmwareMaps}

Watermark == INSTANCE WatermarkAllocator

(* UEFI: the descriptors are not empty and do not overlap.  kmain panics if *)
(* none of them is usable.                                                 *)
ASSUME FirmwareAssumption ==
  \A m \in FirmwareMaps :
    /\ m \in Seq([start : Nat, end : Nat, ty : STRING])
    /\ \A i \in 1 .. Len(m) : m[i].start < m[i].end
    /\ \A i, j \in 1 .. Len(m) :
         i # j => m[i].end =< m[j].start \/ m[j].end =< m[i].start
    /\ \E i \in 1 .. Len(m) : entry_type(m[i].ty) # "Reserved"

(* The uefi crate sorts. *)
ASSUME SortAssumption == \A m \in FirmwareMaps : IsSortOf(Sorted(m), m)

Usable(l) == UNION {l[i].start .. l[i].end - 1 : i \in 1 .. Len(l)}

(* WatermarkAllocator::new and with_highmem_as.  The bitmap, whose content *)
(* depends on the memory map alone, is the one new builds in the closure.  *)
MemoryInit ==
  /\ firmware \in FirmwareMaps
  /\ regions = usable_memory(firmware)
  /\ Watermark!Init
  /\ pool = Usable(regions)
  /\ new
  /\ highmem = "handoff"

(* The kernel starts; nobody looks at the firmware's map any more. *)
Enter ==
  /\ highmem = "handoff"
  /\ highmem' = "watermark"
  /\ firmware' = <<>>
  /\ UNCHANGED <<watermark, vars>>

-----------------------------------------------------------------------------
(* Mutant: the frame is the end of the run. *)
BootAllocateEnd(h, n) ==
  /\ highmem = "watermark" /\ ~ failed /\ live[h].len = 0
  /\ Watermark!allocate_contiguous(n) /\ Own(h, prev_frame, n)
  /\ UNCHANGED <<bitmap, pool, shared, reply, panicked, highmem, firmware>>
(* An allocation of the closure.  The boot ends in a panic if it fails. *)
BootAllocate(h, n) ==
  /\ highmem = "watermark" /\ ~ failed
  /\ live[h].len = 0
  /\ \/ /\ Watermark!allocate_contiguous(n)
        /\ Own(h, granted'[Len(granted')].base, n)
     \/ /\ Watermark!allocation_fails(n)
        /\ UNCHANGED live
  /\ UNCHANGED <<bitmap, pool, shared, reply, panicked, highmem, firmware>>

(* A drop in the closure, which the watermark allocator ignores. *)
BootDrop(h) ==
  /\ highmem = "watermark" /\ ~ failed
  /\ live[h].len > 0
  /\ live' = [live EXCEPT ![h] = Nothing]
  /\ UNCHANGED <<watermark, bitmap, pool, shared, reply, panicked, highmem, firmware>>

(* The closure returns: the guard of with_highmem_as puts back the old     *)
(* allocator, which is none.                                               *)
EndBoot ==
  /\ highmem = "watermark" /\ ~ failed /\ ~ panicked
  /\ highmem' = "none"
  /\ UNCHANGED <<watermark, vars, firmware>>

(* Mutant: the region from the watermark to the end of its own region. *)
drain_into_region ==
  /\ highmem = "none"
  /\ \E i \in 1 .. Len(regions) :
       /\ regions[i].start = last_in_current_region
       /\ push(prev_frame, regions[i].end)
  /\ highmem' = "drained"
  /\ UNCHANGED <<watermark, pool, shared, live, reply, panicked, firmware>>

(* drain_into pushes one range, from the last frame handed out to the top. *)
drain_into ==
  /\ highmem = "none"
  /\ push(prev_frame, top)
  /\ highmem' = "drained"
  /\ UNCHANGED <<watermark, pool, shared, live, reply, panicked, firmware>>

(* init_highmem and init_dmamem. *)
init_highmem ==
  /\ highmem = "drained"
  /\ Publish
  /\ highmem' = "bitmap"
  /\ UNCHANGED <<watermark, firmware>>

(* GlobalAllocator's methods, from now on. *)
Running ==
  /\ highmem = "bitmap"
  /\ Call \/ Deallocate
  /\ UNCHANGED <<watermark, highmem, firmware>>

MemoryNext ==
  \/ Enter
  \/ \E h \in Handles :
       \/ \E n \in 1 .. MaxFrames : BootAllocate(h, n)
       \/ BootDrop(h)
  \/ EndBoot
  \/ drain_into
  \/ init_highmem
  \/ Running

MemorySpec == MemoryInit /\ [][MemoryNext]_memoryVars
-----------------------------------------------------------------------------
(* Every variable has its type; a global allocator, once set, is the bitmap. *)
MemoryTypeOK ==
  /\ Watermark!TypeOK
  /\ TypeOK
  /\ highmem \in {"handoff", "watermark", "none", "drained", "bitmap"}

(* No two OwnedFrames own the same frame, those of the boot and those      *)
(* allocated after it included: NoOverlap, the invariant OwnedFrames is    *)
(* documented with, holds with a memory map of at most two regions.        *)
NoOverlapTwoRegions == MemoryTypeOK /\ (Len(regions) > 2 \/ NoOverlap)

(* Whatever the memory map, the sorted, merged and filtered list has the   *)
(* frames that the firmware's map says may be used, and until a request    *)
(* fails the boot gets only those, none of them twice.                     *)
BootFramesUsable ==
  /\ highmem = "handoff" => Usable(regions) = UsableFrames(firmware)
  /\ Watermark!OnlyAreasUntilFailure
  /\ Watermark!DisjointUntilFailure

(* With at most two regions the one range that drain_into reports covers   *)
(* all that was handed out during the boot.                                *)
DrainCovers == Watermark!DrainCovers

(* NoPanic, of BitmapAllocator, says of this module that frames allocated  *)
(* by one allocator and deallocated through the other are in the range of  *)
(* the latter: its expect does not fail.                                   *)
=============================================================================
