---------------------------- MODULE BootMemoryMap ----------------------------
(***************************************************************************)
(* From the firmware's memory map to the regions the kernel allocates from *)
(* (bootloader/src/main.rs, and the filter in kmain).  A descriptor is     *)
(* [start, end, ty], in frames; firmware gives them in any order.          *)
(***************************************************************************)
EXTENDS Integers, Sequences, TLC

(* descriptor_to_entry; the types that no memory is allocated from are one. *)
entry_type(ty) ==
  CASE ty \in {"CONVENTIONAL", "BOOT_SERVICES", "PERSISTENT_MEMORY"} -> "Free"
    [] ty = "LOADER_CODE" -> "BootloaderCode"
    [] OTHER -> "Reserved"

descriptor_to_entry(d) == [start |-> d.start, end |-> d.end, ty |-> entry_type(d.ty)]

(* memory_map.sort(): by physical start. *)
Sorted(map) == SortSeq(map, LAMBDA d, e : d.start < e.start)

(* What that sort, of the uefi crate, promises of its result s. *)
IsSortOf(s, map) ==
  /\ s \in Seq({map[i] : i \in 1 .. Len(map)}) /\ Len(s) = Len(map)
  /\ \A i, j \in 1 .. Len(s) : i < j => s[i].start < s[j].start
  /\ \A j \in 1 .. Len(map) : \E i \in 1 .. Len(s) : s[i] = map[j]

(* Mutant: entries of one type are merged across a hole. *)
MergesHoles(old, new) == old.ty = new.ty

(* The entries that the reduce merges, its step, and the lists it builds. *)
Merges(old, new) == old.ty = new.ty /\ old.end = new.start

Reduce(list, new) ==
  LET last == Len(list)
  IN  IF last > 0 /\ Merges(list[last], new)
        THEN [list EXCEPT ![last].end = new.end]
        ELSE Append(list, new)

Reduced(sorted) ==
  LET merged[n \in 0 .. Len(sorted)] ==
        IF n = 0 THEN <<>> ELSE Reduce(merged[n - 1], descriptor_to_entry(sorted[n]))
  IN  merged

kernel_mem_map(map) == Reduced(Sorted(map))[Len(map)]

(* kmain: what it takes its frames from. *)
IsUsable(entry) == entry.ty \in {"Free", "BootloaderCode"}

(* Its filter and map, of the first n entries. *)
Keep(kept, entry) ==
  IF IsUsable(entry) THEN Append(kept, [start |-> entry.start, end |-> entry.end])
  ELSE kept

Filtered(list) ==
  LET kept[n \in 0 .. Len(list)] ==
        IF n = 0 THEN <<>> ELSE Keep(kept[n - 1], list[n])
  IN  kept

usable_memory(map) ==
  LET list == kernel_mem_map(map) IN Filtered(list)[Len(list)]

(* The frames the firmware's own map says may be used, entry by entry. *)
UsableFrames(map) ==
  UNION {map[i].start .. map[i].end - 1 :
           i \in {j \in DOMAIN map : entry_type(map[j].ty) # "Reserved"}}
=============================================================================
