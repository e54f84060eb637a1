------------------------------ MODULE PageTable ------------------------------
(***************************************************************************)
(* The four-level page tables of amd64 (kernel/src/hal/arch/amd64/paging2  *)
(* and the entries of paging.rs).                                          *)
(*                                                                         *)
(* mem[f] is frame f read as a table.  A TTable is the frame of its PML4.  *)
(* The KTable is a run of frames, from KBase on, that hold the tables the  *)
(* upper half of every PML4 points to.  An entry is a frame, or NoFrame    *)
(* when it is not present (is_used and is_present are the same test).      *)
(***************************************************************************)
EXTENDS Integers, FiniteSetsExt

CONSTANTS
  Entries,      \* entries of a table, 512
  Frames,       \* frame numbers
  KBase,        \* Amd64KTable.tables
  BootPml4,     \* the PML4 in cr3 when construct_tables runs
  Spaces, Boot, \* the TTables that may exist; the one the loader left
  NoFrame

VARIABLES
  mem,
  free,         \* frames highmem has
  pml4          \* pml4[s]: TTablePtr, NoFrame while s does not exist

tableVars == <<mem, free, pml4>>

Half == Entries \div 2
KTableFrames == KBase .. KBase + (Entries - Half) - 1
UPages == 0 .. Half * Entries * Entries * Entries - 1
KPages == Half * Entries * Entries * Entries .. Entries * Entries * Entries * Entries - 1

(* Memory is described by the loader: the frames of the KTable, and the    *)
(* PML4 above them, are frames of memory.                                  *)
ASSUME TableAssumption ==
  /\ Entries \in Nat \ {0}
  /\ Frames \subseteq Nat /\ NoFrame \notin Frames
  /\ KBase \in Nat /\ KTableFrames \subseteq Frames
  /\ BootPml4 \in Frames \ KTableFrames
  /\ Boot \in Spaces

(* PageIndices: a page's entry in the tables of each level. *)
pt_index(p) == p % Entries
pd_index(p) == (p \div Entries) % Entries
pdpt_index(p) == (p \div (Entries * Entries)) % Entries
pml4_index(p) == (p \div (Entries * Entries * Entries)) % Entries

Empty == [i \in 0 .. Entries - 1 |-> NoFrame]

(* child_table_or_new on a state of the walk: the table it is at, the free *)
(* frames and the memory.  If there is no child, the first free frame is   *)
(* cleared (Table::empty_with) and becomes it; without one the walk ends.  *)
child_table_or_new(st, i) ==
  IF st.table = NoFrame \/ st.mem[st.table][i] # NoFrame
    THEN [st EXCEPT !.table = IF @ = NoFrame THEN @ ELSE st.mem[@][i]]
  ELSE IF st.free = {}
    THEN [st EXCEPT !.table = NoFrame]
  ELSE LET n == Min(st.free)
       IN  [table |-> n, free |-> st.free \ {n},
            mem |-> [st.mem EXCEPT ![n] = Empty, ![st.table][i] = n]]

(* child_table and child_table_mut. *)
child_table(f, i) == IF f = NoFrame THEN NoFrame ELSE mem[f][i]

At(f) == [table |-> f, free |-> free, mem |-> mem]

(* The page table that has p's entry, made if need be. *)
KTableFor(p) ==
  child_table_or_new(
    child_table_or_new(At(KBase + pml4_index(p) - Half), pdpt_index(p)), pd_index(p))
TTableFor(s, p) ==
  child_table_or_new(child_table_or_new(child_table_or_new(
    At(pml4[s]), pml4_index(p)), pdpt_index(p)), pd_index(p))

(* The last part of map_page: what was made on the way stays, even when no *)
(* frame was left for the next table or the page turns out to be mapped.   *)
MapOutcome(st, p) ==
  IF st.table = NoFrame THEN "AllocError"
  ELSE IF st.mem[st.table][pt_index(p)] # NoFrame THEN "AlreadyMapped"
  ELSE "Ok"

Mapped(st, p, f) ==
  /\ mem' = IF MapOutcome(st, p) = "Ok"
              THEN [st.mem EXCEPT ![st.table][pt_index(p)] = f]
              ELSE st.mem
  /\ free' = st.free

(* KTable::map_page and unmap_page. *)
ktable_map(p, f) == Mapped(KTableFor(p), p, f) /\ UNCHANGED pml4

KLeaf(p) ==
  child_table(child_table(KBase + pml4_index(p) - Half, pdpt_index(p)), pd_index(p))
KEntry(p) == child_table(KLeaf(p), pt_index(p))

ktable_unmap(p) ==
  /\ KEntry(p) # NoFrame
  /\ mem' = [mem EXCEPT ![KLeaf(p)][pt_index(p)] = NoFrame]
  /\ UNCHANGED <<free, pml4>>

(* Mutant: the tables of the kernel's half are copied, not shared. *)
ttable_new_copy(s) ==
  /\ pml4[s] = NoFrame /\ Cardinality(free) >= 2 /\ Half = 1
  /\ LET n == Min(free)
         k == Min(free \ {n}) IN
       /\ pml4' = [pml4 EXCEPT ![s] = n]
       /\ mem' = [mem EXCEPT ![n] = [Empty EXCEPT ![Half] = k], ![k] = mem[KBase]]
       /\ free' = free \ {n, k}

(* TTable::new: the upper half points to the KTable's frames. *)
ttable_new(s) ==
  /\ pml4[s] = NoFrame /\ free # {}
  /\ LET n == Min(free) IN
       /\ pml4' = [pml4 EXCEPT ![s] = n]
       /\ mem' = [mem EXCEPT ![n] =
                    [i \in 0 .. Entries - 1 |->
                       IF i < Half THEN NoFrame ELSE KBase + (i - Half)]]
       /\ free' = free \ {n}

(* TTable::map_page and unmap_page. *)
ttable_map(s, p, f) == pml4[s] # NoFrame /\ Mapped(TTableFor(s, p), p, f) /\ UNCHANGED pml4

TLeaf(s, p) ==
  child_table(child_table(child_table(pml4[s], pml4_index(p)), pdpt_index(p)), pd_index(p))

ttable_unmap(s, p) ==
  /\ child_table(TLeaf(s, p), pt_index(p)) # NoFrame
  /\ mem' = [mem EXCEPT ![TLeaf(s, p)][pt_index(p)] = NoFrame]
  /\ UNCHANGED <<free, pml4>>

(* The tables construct_tables finds: one PML4, the KTable below it.  The  *)
(* other frames hold what their owners wrote, here words that look like    *)
(* entries, and not only before they are first used: they are read as      *)
(* tables only after they became tables.                                   *)
Written == [i \in 0 .. Entries - 1 |-> BootPml4]

TablesInit ==
  /\ mem = [f \in Frames |->
              IF f = BootPml4
              THEN [i \in 0 .. Entries - 1 |-> IF i < Half THEN NoFrame ELSE KBase + (i - Half)]
              ELSE IF f \in KTableFrames THEN Empty ELSE Written]
  /\ free = Frames \ ({BootPml4} \union KTableFrames)
  /\ pml4 = [s \in Spaces |-> IF s = Boot THEN BootPml4 ELSE NoFrame]

(* The processor's own walk from a PML4, in either half. *)
Translate(s, p) == child_table(TLeaf(s, p), pt_index(p))
=============================================================================
