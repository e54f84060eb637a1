------------------------------- MODULE Mapping -------------------------------
(***************************************************************************)
(* The life of memory mappings (RawMapping in                              *)
(* kernel_api/src/memory/mapping.rs): each takes frames, then pages, then  *)
(* the lock of the kernel's page table, and maps its pages one by one; its *)
(* drop unmaps them, returns the pages, releases the lock, and returns the *)
(* frames.  Mappings are made and dropped concurrently, while TTables come *)
(* and change (PageTable), and the processor caches translations.          *)
(*                                                                         *)
(* Frames come from highmem, which finds the first free frame, or one of   *)
(* the free runs if several are asked for, whenever there is one; pages    *)
(* from Global, which finds a free run or fails.  Both are modelled by     *)
(* that contract.                                                          *)
(***************************************************************************)
EXTENDS PageTable

CONSTANTS
  Mappings,     \* the RawMappings that may exist
  VRange,       \* the pages Global has
  MaxLen,       \* bound: pages of one mapping
  UserPages,    \* the pages of the lower half that are mapped and unmapped
  Device        \* a frame mapped there, not of highmem

VARIABLES
  avail,        \* pages of VRange that Global has not handed out
  lock,         \* holder of KERNEL_PAGE_TABLE's write lock
  pc,           \* where each mapping is in new or drop
  raw,          \* its RawMappingInner, and R
  i,            \* the page its loop is at
  tlb,          \* one translation the processor has cached, or none
  panic         \* the expects that failed, but for want of a frame

vars == <<tableVars, avail, lock, pc, raw, i, tlb, panic>>

Nobody == "nobody"
None == [page |-> -1, frame |-> NoFrame]
Unset == [base |-> 0, len |-> 0, valid |-> 0, kind |-> "mmap"]

(* Global has pages of the upper half; a mark is no frame, no mapping and  *)
(* no address space.                                                       *)
ASSUME MappingAssumption ==
  /\ VRange \subseteq KPages /\ UserPages \subseteq UPages
  /\ MaxLen \in Nat
  /\ Device # NoFrame
  /\ Nobody \notin Mappings
  /\ NoFrame \notin [KPages \union UPages -> Frames \union {NoFrame, Device}]

(* Mappable: a stack has a page below it that is never mapped. *)
offset(kind) == IF kind = "stack" THEN 1 ELSE 0
virtual_len(len, kind) == IF kind = "stack" THEN len + 1 ELSE len

virtual_start(m) == raw[m].valid - offset(raw[m].kind)
FramesOf(m) == raw[m].base .. raw[m].base + raw[m].len - 1
PagesOf(m) == virtual_start(m) .. virtual_start(m) + virtual_len(raw[m].len, raw[m].kind) - 1

Runs(set, n) == {b \in set : b .. b + n - 1 \subseteq set}

Init ==
  /\ TablesInit
  /\ avail = VRange
  /\ lock = Nobody
  /\ pc = [m \in Mappings |-> "none"]
  /\ raw = [m \in Mappings |-> Unset]
  /\ i = [m \in Mappings |-> 0]
  /\ tlb = None
  /\ panic = {}

Goto(m, label) == pc' = [pc EXCEPT ![m] = label]
-----------------------------------------------------------------------------
(* OwnedFrames::xnew; on failure new returns with nothing done. *)
NewFrames(m) ==
  /\ pc[m] = "none"
  /\ \E n \in 1 .. MaxLen, kind \in {"mmap", "stack"} :
       \E b \in Runs(free, n) :
         /\ n = 1 => b = Min(free)
         /\ raw' = [raw EXCEPT ![m] = [base |-> b, len |-> n, valid |-> 0, kind |-> kind]]
         /\ free' = free \ (b .. b + n - 1)
  /\ Goto(m, "frames")
  /\ UNCHANGED <<mem, pml4, avail, lock, i, tlb, panic>>

(* The drop of OwnedFrames. *)
FramesDropped(m) == free' = free \union FramesOf(m)

(* OwnedPages::new_with; on failure the frames are dropped. *)
NewPages(m) ==
  /\ pc[m] = "frames"
  /\ LET n == virtual_len(raw[m].len, raw[m].kind) IN
       \E v \in Runs(avail, n) :
         /\ avail' = avail \ (v .. v + n - 1)
         /\ raw' = [raw EXCEPT ![m].valid = v + offset(raw[m].kind)]
  /\ Goto(m, "pages")
  /\ UNCHANGED <<tableVars, lock, i, tlb, panic>>

NoPages(m) ==
  /\ pc[m] = "frames"
  /\ FramesDropped(m)
  /\ Goto(m, "none")
  /\ raw' = [raw EXCEPT ![m] = Unset]
  /\ UNCHANGED <<mem, pml4, avail, lock, i, tlb, panic>>

(* __popcorn_paging_get_ktable, in new and in drop. *)
LockTable(m, from, to) ==
  /\ pc[m] = from
  /\ lock = Nobody /\ lock' = m
  /\ i' = [i EXCEPT ![m] = 0]
  /\ Goto(m, to)
  /\ UNCHANGED <<tableVars, avail, raw, tlb, panic>>

(* One turn of the loop of new; after the last the lock is released.  The  *)
(* expect fails when the page is mapped already, but also when a table     *)
(* cannot be made.  The unwinding releases the lock and drops the frames;  *)
(* the pages, taken apart by then, are lost, and those mapped stay so.     *)
MapOne(m) ==
  /\ pc[m] = "map"
  /\ LET p == raw[m].valid + i[m]
         st == KTableFor(p)
         outcome == MapOutcome(st, p)
         last == i[m] + 1 = raw[m].len
     IN  /\ ktable_map(p, raw[m].base + i[m])
         /\ i' = [i EXCEPT ![m] = IF last THEN 0 ELSE @ + 1]
         /\ outcome = "Ok"
         /\ IF last THEN lock' = Nobody /\ Goto(m, "live") ELSE UNCHANGED <<lock, pc>>
  /\ UNCHANGED <<avail, raw, tlb, panic>>

(* Mutant: the unwinding returns the pages as well. *)
MapPanicsReturnsPages(m) ==
  /\ pc[m] = "map"
  /\ LET p == raw[m].valid + i[m]
         st == KTableFor(p)
     IN  /\ MapOutcome(st, p) # "Ok"
         /\ mem' = st.mem
         /\ free' = st.free \union FramesOf(m)
         /\ panic' = panic \union ({MapOutcome(st, p)} \ {"AllocError"})
  /\ avail' = avail \union PagesOf(m)
  /\ lock' = Nobody
  /\ Goto(m, "none")
  /\ raw' = [raw EXCEPT ![m] = Unset]
  /\ i' = [i EXCEPT ![m] = 0]
  /\ UNCHANGED <<pml4, tlb>>

MapPanics(m) ==
  /\ pc[m] = "map"
  /\ LET p == raw[m].valid + i[m]
         st == KTableFor(p)
     IN  /\ MapOutcome(st, p) # "Ok"
         /\ mem' = st.mem
         /\ free' = st.free \union FramesOf(m)
         /\ panic' = panic \union ({MapOutcome(st, p)} \ {"AllocError"})
  /\ lock' = Nobody
  /\ Goto(m, "none")
  /\ raw' = [raw EXCEPT ![m] = Unset]
  /\ i' = [i EXCEPT ![m] = 0]
  /\ UNCHANGED <<pml4, avail, tlb>>

(* into_raw_parts and, in the same mapping's type, from_raw_parts: the     *)
(* first page is computed from the first valid one, and back.              *)
RoundTrip(m) ==
  /\ pc[m] = "live"
  /\ raw' = [raw EXCEPT ![m].valid = virtual_start(m) + offset(raw[m].kind)]
  /\ UNCHANGED <<tableVars, avail, lock, pc, i, tlb, panic>>
-----------------------------------------------------------------------------
(* One turn of the loop of drop: the entry is cleared, and invlpg forgets  *)
(* what the processor has cached of it.                                    *)
Flushed(p) == IF tlb.page = p THEN None ELSE tlb

(* Mutant: no invlpg. *)
UnmapOneNoFlush(m) ==
  /\ pc[m] = "unmap"
  /\ LET p == raw[m].valid + i[m] IN ktable_unmap(p)
  /\ i' = [i EXCEPT ![m] = (@ + 1) % raw[m].len]
  /\ IF i[m] + 1 = raw[m].len THEN Goto(m, "return_pages") ELSE UNCHANGED pc
  /\ UNCHANGED <<avail, lock, raw, tlb, panic>>

UnmapOne(m) ==
  /\ pc[m] = "unmap"
  /\ LET p == raw[m].valid + i[m] IN ktable_unmap(p) /\ tlb' = Flushed(p)
  /\ i' = [i EXCEPT ![m] = (@ + 1) % raw[m].len]
  /\ IF i[m] + 1 = raw[m].len THEN Goto(m, "return_pages") ELSE UNCHANGED pc
  /\ UNCHANGED <<avail, lock, raw, panic>>

(* Its expect. *)
UnmapPanics(m) == pc[m] = "unmap" /\ KEntry(raw[m].valid + i[m]) = NoFrame

(* The end of drop, in the order in which Rust drops: _pages, the guard of *)
(* the table, the field with the frames.                                   *)
ReturnPages(m) ==
  /\ pc[m] = "return_pages"
  /\ avail' = avail \union PagesOf(m)
  /\ Goto(m, "unlock")
  /\ UNCHANGED <<tableVars, lock, raw, i, tlb, panic>>

UnlockTable(m) ==
  /\ pc[m] = "unlock"
  /\ lock' = Nobody
  /\ Goto(m, "return_frames")
  /\ UNCHANGED <<tableVars, avail, raw, i, tlb, panic>>

ReturnFrames(m) ==
  /\ pc[m] = "return_frames"
  /\ FramesDropped(m)
  /\ raw' = [raw EXCEPT ![m] = Unset]
  /\ Goto(m, "none")
  /\ UNCHANGED <<mem, pml4, avail, lock, i, tlb, panic>>

Lock(m) == LockTable(m, "pages", "map")
LockForDrop(m) == LockTable(m, "live", "unmap")
-----------------------------------------------------------------------------
(* TTables are changed by their owners; a new one reads the KTable's       *)
(* place, which does not change.  The kernel maps nothing in the lower     *)
(* half of the one it was started with.                                    *)
SpaceStep ==
  /\ \E s \in Spaces \ {Boot} :
       \/ ttable_new(s)
       \/ \E p \in UserPages : ttable_map(s, p, Device) \/ ttable_unmap(s, p)
  /\ UNCHANGED <<avail, lock, pc, raw, i, tlb, panic>>

(* The processor caches the translation of any page it may touch. *)
Cache ==
  /\ \E p \in VRange : KEntry(p) # NoFrame /\ tlb' = [page |-> p, frame |-> KEntry(p)]
  /\ UNCHANGED <<tableVars, avail, lock, pc, raw, i, panic>>

MappingStep(m) ==
  \/ NewFrames(m) \/ NewPages(m) \/ NoPages(m) \/ Lock(m) \/ MapOne(m) \/ MapPanics(m)
  \/ RoundTrip(m) \/ LockForDrop(m) \/ UnmapOne(m)
  \/ ReturnPages(m) \/ UnlockTable(m) \/ ReturnFrames(m)

Next == SpaceStep \/ Cache \/ \E m \in Mappings : MappingStep(m)

Spec == Init /\ [][Next]_vars
-----------------------------------------------------------------------------
(* The pages a mapping has mapped, at each point of its life. *)
Progress(m) ==
  CASE pc[m] = "map" -> 0 .. i[m] - 1
    [] pc[m] = "live" -> 0 .. raw[m].len - 1
    [] pc[m] = "unmap" -> i[m] .. raw[m].len - 1
    [] OTHER -> {}

HasPages == {m \in Mappings : pc[m] \in {"pages", "map", "live", "unmap", "return_pages"}}

(* Pages that a failed new lost: nobody owns them, Global does not have them. *)
Lost == VRange \ (avail \union UNION {PagesOf(m) : m \in HasPages})

(* The kernel's page table maps exactly what the mappings say: each page   *)
(* of a mapping to its frame, which it still owns, and nothing else, not   *)
(* a stack's guard page and no page that Global may hand out; nor does the *)
(* processor remember more.  Pages lost to a failed new are the exception. *)
MappedIsOwned ==
  /\ \A m \in Mappings : \A j \in Progress(m) :
       KEntry(raw[m].valid + j) = raw[m].base + j /\ raw[m].base + j \notin free
  /\ \A m \in HasPages : raw[m].kind = "stack" => KEntry(virtual_start(m)) = NoFrame
  /\ \A p \in VRange : KEntry(p) # NoFrame =>
       \/ p \in Lost
       \/ \E m \in Mappings : p - raw[m].valid \in Progress(m)
  /\ tlb # None => tlb.frame = KEntry(tlb.page)

(* The expects of new and drop, that memory owned by the mapping alone is  *)
(* not mapped before and is mapped after, fail only for want of a frame    *)
(* for a table, also after such a failure was caught.                      *)
UniquelyOwned == panic = {} /\ \A m \in Mappings : ~ UnmapPanics(m)

Space(s) ==
  IF pml4[s] = NoFrame THEN NoFrame ELSE [p \in KPages \union UPages |-> Translate(s, p)]

AS == INSTANCE AddressSpaces
        WITH view <- [s \in Spaces |-> Space(s)],
             NoSpace <- NoFrame

(* The tables implement address spaces: a kernel mapping appears in every  *)
(* TTable at once, a mapping in one TTable in that one alone, and tables   *)
(* made on the way to a failure are not seen.                              *)
ImplementsAddressSpaces == AS!Spec
=============================================================================
