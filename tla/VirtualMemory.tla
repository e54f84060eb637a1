---------------------------- MODULE VirtualMemory ----------------------------
(***************************************************************************)
(* Kernel address space from boot on: the bump allocator of the bootstrap  *)
(* region (kernel/src/memory/virtual.rs), the kernel heap that grows out   *)
(* of it page by page (kernel_default_heap and OldMapping), the ranged     *)
(* B-tree that takes its place, and the hand-over in kmain.                *)
(*                                                                         *)
(* The three use one another: the heap asks Global for pages while it      *)
(* holds its mutex, and the B-tree asks the heap for nodes while it holds  *)
(* the mutex of its map.  A thread is in one call of the heap, or in one   *)
(* of Global, with what that call needs below it.                          *)
(*                                                                         *)
(* Addresses count cells, PageCells to a page.  Frames for the heap may    *)
(* run out at any time.                                                    *)
(***************************************************************************)
EXTENDS RangedBtree

CONSTANTS
  Threads,
  RegionStart, RegionEnd,   \* VMEM_BOOTSTRAP_START, VMEM_BOOTSTRAP_END
  UsedStart, UsedEnd,       \* handoff_data.memory.used
  PageCells,                \* 4096
  Layouts,                  \* [size, align] of heap requests
  NodeLayout,               \* of a node of the BTreeMap, of the Box at the hand-over
  MaxWatermark,             \* bound: no heap request above this cell
  Nobody

(* What the bootloader maps and the bootstrap region, which the linker     *)
(* script puts behind the kernel, are separate parts of the B-tree's range. *)
ASSUME PlacesAssumption ==
  /\ {RegionStart, RegionEnd, UsedStart, UsedEnd} \subseteq RangeStart .. RangeEnd
  /\ RegionStart < RegionEnd /\ UsedStart < UsedEnd
  /\ UsedEnd <= RegionStart \/ RegionEnd <= UsedStart

ASSUME CellsAssumption ==
  /\ PageCells \in Nat \ {0}
  /\ Layouts \union {NodeLayout} \subseteq [size : Nat, align : Nat \ {0}]
  /\ MaxWatermark \in Nat

ASSUME NobodyAssumption == Nobody \notin Threads \union Handles

VARIABLES
  installed,    \* what GLOBAL_VIRTUAL_ALLOCATOR points to
  start,        \* Bootstrap.start, as a page
  heap,         \* BadHeap.mapping: base and len, in pages; base = -1 before SyncHeap::new
  watermark,    \* BadHeap.watermark, in cells
  heapLock,     \* holder of the heap's mutex
  mapLock,      \* holder of the map's mutex
  pc,           \* where a thread is
  job,          \* what a thread's heap request is for
  layout,       \* that request
  pages,        \* a thread's request for pages: [h, n]
  (* History, for the properties only: no guard reads it. *)
  regionFreed   \* the B-tree was given back pages of the bootstrap region

vmVars == <<vars, installed, start, heap, watermark, heapLock, mapLock, pc, job,
            layout, pages, regionFreed>>
threadVars == <<pc, job, layout, pages>>
heapVars == <<heap, watermark>>

NoPages == [h |-> Nobody, n |-> 0]

VMInit ==
  /\ Init
  /\ installed = "bootstrap"
  /\ start = RegionStart
  /\ heap = [base |-> -1, len |-> 0]
  /\ watermark = 0
  /\ heapLock = Nobody /\ mapLock = Nobody
  /\ pc = [t \in Threads |-> "idle"]
  /\ job = [t \in Threads |-> "call"]
  /\ layout = [t \in Threads |-> NodeLayout]
  /\ pages = [t \in Threads |-> NoPages]
  /\ regionFreed = FALSE

Goto(t, label) == pc' = [pc EXCEPT ![t] = label]
-----------------------------------------------------------------------------
(* The heap.  A request of t, on behalf of a call of its own ("call"), of  *)
(* a node for the map ("node") or of the hand-over ("box").                *)
Request(t, what, l) ==
  /\ watermark <= MaxWatermark
  /\ Goto(t, "heap_lock")
  /\ job' = [job EXCEPT ![t] = what]
  /\ layout' = [layout EXCEPT ![t] = l]

HeapCall(t) ==
  /\ pc[t] = "idle"
  /\ \E l \in Layouts : Request(t, "call", l)
  /\ UNCHANGED <<vars, installed, start, heapVars, heapLock, mapLock, pages>>

(* SyncHeap::new under KERNEL_HEAP's LazyLock: OldMapping::new(0), which   *)
(* asks Global for no pages and gets the place of the next one.  The heap  *)
(* is first used before the hand-over, which needs it.                     *)
HeapNew(t) ==
  /\ pc[t] = "heap_lock" /\ heap.base = -1
  /\ IF start > RegionEnd
       THEN Panic("heap") /\ UNCHANGED heapVars
       ELSE /\ heap' = [base |-> start, len |-> 0]
            /\ watermark' = start * PageCells
            /\ UNCHANGED panic
  /\ UNCHANGED <<map, live, installed, start, heapLock, mapLock, threadVars>>

LockHeap(t) ==
  /\ pc[t] = "heap_lock" /\ heap.base # -1
  /\ heapLock = Nobody /\ heapLock' = t
  /\ Goto(t, "heap")
  /\ UNCHANGED <<vars, installed, start, heapVars, mapLock, job, layout, pages>>

AlignUp(a, n) == ((a + n - 1) \div n) * n
CeilDiv(a, n) == (a + n - 1) \div n

HeapEnd == heap.base + heap.len
BlockEnd(t) == AlignUp(watermark, layout[t].align) + layout[t].size
Increment(t) == CeilDiv(BlockEnd(t) - HeapEnd * PageCells, PageCells)

(* The heap call returns: to its caller, to the insertion that needed a    *)
(* node, or to the hand-over.  alloc::alloc's callers in the library turn  *)
(* an error into a panic.                                                  *)
HeapReturns(t, ok) ==
  /\ heapLock' = Nobody
  /\ Goto(t, CASE job[t] = "call" -> "idle"
               [] job[t] = "node" -> "insert"
               [] job[t] = "box" -> "install")
  /\ IF ok \/ job[t] = "call" THEN UNCHANGED panic ELSE Panic("alloc_error")

HeapFits(t) ==
  /\ pc[t] = "heap"
  /\ BlockEnd(t) <= HeapEnd * PageCells
  /\ watermark' = BlockEnd(t)
  /\ HeapReturns(t, TRUE)
  /\ UNCHANGED <<map, live, installed, start, heap, mapLock, job, layout, pages>>

(* resize_in_place: frames first, then the pages behind the heap. *)
HeapGrows(t) ==
  /\ pc[t] = "heap"
  /\ BlockEnd(t) > HeapEnd * PageCells
  /\ \/ Goto(t, "grow") /\ UNCHANGED <<heapLock, panic>>
     \/ HeapReturns(t, FALSE)                          \* no frames
  /\ UNCHANGED <<map, live, installed, start, heapVars, mapLock, job, layout, pages>>

(* The pages were granted: they are mapped, and the call returns.  An      *)
(* error of map_page, which needs frames of its own, meets expect("todo"). *)
HeapGrown(t) ==
  \/ /\ heap' = [heap EXCEPT !.len = @ + Increment(t)]
     /\ watermark' = BlockEnd(t)
     /\ HeapReturns(t, TRUE)
  \/ Panic("map_page") /\ Goto(t, "map_page") /\ UNCHANGED <<heapVars, heapLock>>

HeapNotGrown(t) == UNCHANGED heapVars /\ HeapReturns(t, FALSE)
-----------------------------------------------------------------------------
(* Global.allocate_contiguous_at behind the heap, by the bootstrap         *)
(* allocator: load and tests, then compare_exchange.                       *)
GrowLoad(t) ==
  /\ pc[t] = "grow" /\ installed = "bootstrap"
  /\ IF start # HeapEnd \/ start > RegionEnd
       THEN HeapNotGrown(t)
       ELSE Goto(t, "cas") /\ UNCHANGED <<heapVars, heapLock, panic>>
  /\ UNCHANGED <<map, live, installed, start, mapLock, job, layout, pages>>

GrowExchange(t) ==
  /\ pc[t] = "cas"
  /\ IF start = HeapEnd
       THEN start' = start + Increment(t) /\ HeapGrown(t)
       ELSE UNCHANGED start /\ HeapNotGrown(t)
  /\ UNCHANGED <<map, live, installed, mapLock, job, layout, pages>>

(* The same by the B-tree: the map's mutex is waited for ... *)
GrowLockMap(t) ==
  /\ pc[t] = "grow" /\ installed = "btree"
  /\ mapLock = Nobody /\ mapLock' = t
  /\ Goto(t, "grow_insert")
  /\ UNCHANGED <<vars, installed, start, heapVars, heapLock, job, layout, pages>>

(* ... and the range inserted, unless a key is in the way.  If the tree    *)
(* needs a node for it, the thread asks the heap, which it has locked.     *)
GrowInsert(t) ==
  /\ pc[t] = "grow_insert"
  /\ LET key == Key(HeapEnd, Increment(t)) IN
       \/ /\ ~ Vacant(map, key)
          /\ HeapNotGrown(t) /\ mapLock' = Nobody
          /\ UNCHANGED <<map, job, layout>>
       \/ /\ Insert(key)
          /\ HeapGrown(t) /\ mapLock' = Nobody
          /\ UNCHANGED <<job, layout>>
       \/ /\ Vacant(map, key)
          /\ Request(t, "node", NodeLayout)
          /\ UNCHANGED <<map, heapVars, heapLock, mapLock, panic>>
  /\ UNCHANGED <<live, installed, start, pages>>
-----------------------------------------------------------------------------
(* OwnedPages::new.  No two calls make the same object. *)
Unmade(h) == live[h].len = 0 /\ \A u \in Threads : pages[u].h # h

(* By the bootstrap allocator: one fetch_add, and only then the test, of   *)
(* the first page alone.                                                   *)
PagesBootstrap(t) ==
  /\ pc[t] = "idle" /\ installed = "bootstrap"
  /\ \E h \in Handles, n \in 1 .. MaxPages :
       /\ Unmade(h)
       /\ start' = start + n
       /\ IF start > RegionEnd THEN UNCHANGED live ELSE Own(h, start, n)
  /\ start <= RegionEnd + MaxPages               \* bound on refused calls
  /\ UNCHANGED <<map, panic, installed, heapVars, heapLock, mapLock, threadVars>>

(* By the B-tree: the mutex, the insertion, and perhaps a node for it. *)
PagesLockMap(t) ==
  /\ pc[t] = "idle" /\ installed = "btree"
  /\ mapLock = Nobody /\ mapLock' = t
  /\ \E h \in Handles, n \in 1 .. MaxPages :
       Unmade(h) /\ pages' = [pages EXCEPT ![t] = [h |-> h, n |-> n]]
  /\ Goto(t, "choose")
  /\ UNCHANGED <<vars, installed, start, heapVars, heapLock, job, layout>>

PagesChoose(t) ==
  /\ pc[t] = "choose"
  /\ \/ allocate_panics(pages[t].n) /\ UNCHANGED <<pc, job, layout>>
     \/ /\ HasPlace(pages[t].n)
        /\ \/ Goto(t, "insert") /\ UNCHANGED <<job, layout>>
           \/ Request(t, "node", NodeLayout)
        /\ UNCHANGED vars
  /\ UNCHANGED <<installed, start, heapVars, heapLock, mapLock, pages>>

PagesInsert(t) ==
  /\ pc[t] = "insert"
  /\ allocate_contiguous(pages[t].h, pages[t].n)
  /\ mapLock' = Nobody
  /\ Goto(t, "idle")
  /\ pages' = [pages EXCEPT ![t] = NoPages]
  /\ UNCHANGED <<installed, start, heapVars, heapLock, job, layout>>

(* The drop of an OwnedPages.  The nodes it frees are only try_lock'ed for. *)
DropPages(t) ==
  /\ pc[t] = "idle"
  /\ \E h \in Handles :
       \/ /\ installed = "btree" /\ mapLock = Nobody
          /\ deallocate_contiguous(h)
          /\ regionFreed' = (regionFreed \/ live[h].base \in Pages(RegionStart, RegionEnd))
       \/ /\ installed = "bootstrap" /\ live[h].len > 0
          /\ live' = [live EXCEPT ![h] = Nothing]
          /\ UNCHANGED <<map, panic, regionFreed>>
  /\ UNCHANGED <<installed, start, heapVars, heapLock, mapLock, threadVars>>
-----------------------------------------------------------------------------
(* Mutant: only what the bootstrap allocator has handed out is reserved. *)
ReservedSoFar == add_allocation(add_allocation({}, RegionStart, start), UsedStart, UsedEnd)

(* kmain: the B-tree with its two reservations, which live in the heap, as *)
(* does the Box they go into; then GLOBAL_VIRTUAL_ALLOCATOR's write lock,  *)
(* which waits for the calls of Global that are under way.                 *)
Reserved == add_allocation(add_allocation({}, RegionStart, RegionEnd), UsedStart, UsedEnd)

BuildBtree(t) ==
  /\ pc[t] = "idle" /\ installed = "bootstrap" /\ map = {}
  /\ map' = Reserved
  /\ Request(t, "box", NodeLayout)
  /\ UNCHANGED <<live, panic, installed, start, heapVars, heapLock, mapLock, pages>>

Install(t) ==
  /\ pc[t] = "install"
  /\ \A u \in Threads : pc[u] # "cas"
  /\ installed' = "btree"
  /\ Goto(t, "idle")
  /\ job' = [job EXCEPT ![t] = "call"]
  /\ UNCHANGED <<vars, start, heapVars, heapLock, mapLock, layout, pages>>

Call(t) ==
  \/ HeapCall(t) \/ HeapNew(t) \/ LockHeap(t) \/ HeapFits(t) \/ HeapGrows(t)
  \/ GrowLoad(t) \/ GrowExchange(t) \/ GrowLockMap(t) \/ GrowInsert(t)
  \/ PagesBootstrap(t) \/ PagesLockMap(t) \/ PagesChoose(t) \/ PagesInsert(t)
  \/ BuildBtree(t) \/ Install(t)

Step(t) == DropPages(t) \/ (Call(t) /\ UNCHANGED regionFreed)

VMNext == panic = "no" /\ \E t \in Threads : Step(t)

VMSpec == VMInit /\ [][VMNext]_vmVars

(* A thread inside a call goes on with it when it can. *)
VMFairSpec ==
  VMSpec /\ \A t \in Threads : WF_vmVars(panic = "no" /\ pc[t] # "idle" /\ Step(t))
-----------------------------------------------------------------------------
(* The bootstrap allocator tests the first page of a grant only: once it   *)
(* has granted a page behind its region, the B-tree may grant it again.    *)
Overrun == start > RegionEnd

HeapPages == Pages(heap.base, HeapEnd)

(* No page of kernel address space has two owners: neither two OwnedPages, *)
(* nor one and the heap, nor one and what the bootloader mapped, across    *)
(* the hand-over and while the heap grows; and the heap hands out nothing  *)
(* that is not mapped.  There are two exceptions: the bootstrap region was *)
(* overrun; or pages of it were dropped after the hand-over, which takes   *)
(* the reservation of the whole region out of the B-tree, so that a        *)
(* release build grants again what others still own there.                 *)
PagesDisjoint ==
  /\ ~ Overrun /\ ~ regionFreed =>
       /\ NoOverlap
       /\ \A h \in Handles :
            Held(h) \intersect (HeapPages \union Pages(UsedStart, UsedEnd)) = {}
  /\ heap.base # -1 => watermark <= HeapEnd * PageCells

(* No expect, debug_assert or unreachable of the allocators fails, but for *)
(* those that stand for a want of frames, of heap, or of space behind the  *)
(* last key; with the exceptions of PagesDisjoint, and except that the     *)
(* heap may have been given pages behind the end of the B-tree's range.    *)
AssertionsHold ==
  [][ \/ panic' \in {"no", "todo", "alloc_error", "heap", "map_page"}
      \/ Overrun \/ regionFreed'
      \/ panic' = "overflow" /\ HeapEnd > RangeEnd ]_vmVars

(* kmain (main.rs 331-332) reserves the whole bootstrap region, and says   *)
(* that a heap that has to grow later then runs out of memory: its request *)
(* ends, with an error.                                                    *)
LateGrowthEnds ==
  \A t \in Threads :
    installed = "btree" /\ HeapEnd < RegionEnd /\ pc[t] = "grow"
      ~> pc[t] = "idle" \/ panic # "no"
=============================================================================
