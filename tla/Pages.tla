-------------------------------- MODULE Pages --------------------------------
(***************************************************************************)
(* The memory pages of the process (ikarus-runtime.c, and                  *)
(* ik_munmap_from_segment of ikarus-collect.c): the segment vector and the *)
(* dirty vector, with a slot for every page between memory_base and        *)
(* memory_end, and the cache of pages that were released.                  *)
(*                                                                         *)
(* Addresses are counted in pages.  The vectors grow at either end when    *)
(* the system maps a page outside; they are sequences, and a page is found *)
(* by its distance from memory_base.  Which of the free pages the system   *)
(* returns is not determined.                                              *)
(*                                                                         *)
(* OldSlotsFirst, DirtyKept, UnmapAll and TakeUncounted, which no action   *)
(* uses, are what a plausible bug would make of the definition that        *)
(* follows each.                                                           *)
(***************************************************************************)
EXTENDS Integers, Sequences, FiniteSets, SequencesExt

CONSTANTS
  LastPage,     \* the system maps pages 1 to LastPage
  SegmentPages, \* IK_NUMBER_OF_PAGES_PER_SEGMENT
  CacheSlots,   \* IK_PAGE_CACHE_NUM_OF_SLOTS
  BlockSizes    \* of the nursery, the stack and code objects

\* What the constants must satisfy.
PageAssumptions ==
  /\ LastPage \in Nat /\ CacheSlots \in Nat
  /\ SegmentPages \in Nat \ {0} /\ BlockSizes \subseteq Nat \ {0}

VARIABLES
  mapped,         \* the pages that the system gave to the process
  memory_base,
  memory_end,
  segment_vector,
  dirty_vector,
  cached_pages,   \* a list of pages
  uncached_pages, \* number of free nodes
  running         \* FALSE after ik_delete_pcb

vectors == <<memory_base, memory_end, segment_vector, dirty_vector>>
pageVars    == <<mapped, vectors, cached_pages, uncached_pages, running>>

Page  == 1 .. LastPage
Types == {"HOLE", "MAINHEAP", "MAINSTACK", "POINTERS", "CODE", "DATA"}

Block(base, size) == base .. base + size - 1

PageTypes ==
  /\ mapped \subseteq Page
  /\ memory_base \in Nat /\ memory_end \in Nat
  /\ segment_vector \in Seq(Types) /\ Len(segment_vector) = memory_end - memory_base
  /\ dirty_vector \in Seq({"pure", "dirty"}) /\ Len(dirty_vector) = Len(segment_vector)
  /\ cached_pages \in Seq(Page)
  /\ uncached_pages \in Nat /\ uncached_pages + Len(cached_pages) = CacheSlots
  /\ running \in BOOLEAN

\* IK_SEGMENT_INDEX and IK_SEGMENT_SIZE: the first page of a segment.
SegmentStart(p) == (p \div SegmentPages) * SegmentPages
SegmentEnd(p)   == SegmentStart(p + SegmentPages - 1)

\* Slot of a page in the vectors.
Slot(p) == p - memory_base + 1

Filled(x, n) == [i \in 1 .. n |-> x]

\* set_page_range_type
Typed(vec, base, size, type, lo) ==
  [i \in DOMAIN vec |-> IF i + lo - 1 \in Block(base, size) THEN type ELSE vec[i]]

\* ik_make_pcb: the first hot block and the first stack.
PagesInit ==
  \E h, s \in Page, hs, ss \in BlockSizes :
    LET heap == Block(h, hs)
        stack == Block(s, ss)
        lo == SegmentStart((IF h < s THEN h ELSE s) - 1)
        hi == SegmentEnd((IF h < s THEN s + ss ELSE h + hs) + 1)
    IN /\ heap \cup stack \subseteq Page /\ heap \cap stack = {}
       /\ mapped = heap \cup stack
       /\ memory_base = lo /\ memory_end = hi
       /\ segment_vector = Typed(Typed(Filled("HOLE", hi - lo), h, hs, "MAINHEAP", lo),
                                 s, ss, "MAINSTACK", lo)
       /\ dirty_vector = Filled("pure", hi - lo)
       /\ cached_pages = <<>> /\ uncached_pages = CacheSlots
       /\ running = TRUE

-----------------------------------------------------------------------------

OldSlotsFirst(vec, low, high, x) == vec \o Filled(x, low + high)

\* New slots before or after those that a vector has.
Extended(vec, low, high, x) == Filled(x, low) \o vec \o Filled(x, high)

\* The segment vector when the pages of the stack have become data.
StackRetired == [i \in DOMAIN segment_vector |->
                   IF segment_vector[i] = "MAINSTACK" THEN "DATA" ELSE segment_vector[i]]

\* extend_page_vectors_maybe and set_page_range_type; vec is the segment vector
\* before, type is a function of the pages of the block.
Track(vec, base, size, type) ==
  LET end  == base + size
      lo   == IF base < memory_base THEN SegmentStart(base) ELSE memory_base
      hi   == IF base >= memory_base /\ end >= memory_end THEN SegmentEnd(end)
                                                          ELSE memory_end
      svec == Extended(vec, memory_base - lo, hi - memory_end, "HOLE")
  IN /\ memory_base' = lo
     /\ memory_end' = hi
     /\ segment_vector' = [i \in DOMAIN svec |-> IF i + lo - 1 \in Block(base, size)
                                                THEN type[i + lo - 1] ELSE svec[i]]
     /\ dirty_vector' = Extended(dirty_vector, memory_base - lo, hi - memory_end, "pure")

\* The system maps fresh pages.
ik_mmap(base, size) ==
  /\ Block(base, size) \subseteq Page \ mapped
  /\ mapped' = mapped \cup Block(base, size)

TakeUncounted ==
  /\ cached_pages' = Tail(cached_pages)
  /\ UNCHANGED uncached_pages

\* The first page of the cache is recycled; its node becomes free.
TakeCached ==
  /\ cached_pages' = Tail(cached_pages)
  /\ uncached_pages' = uncached_pages + 1

\* ik_mmap_typed: a single page comes from the cache if there is one.
ik_mmap_typed(vec, base, size, type) ==
  /\ running
  /\ IF size = 1 /\ cached_pages # <<>>
     THEN base = Head(cached_pages) /\ TakeCached /\ UNCHANGED mapped
     ELSE ik_mmap(base, size) /\ UNCHANGED <<cached_pages, uncached_pages>>
  /\ Track(vec, base, size, type)
  /\ UNCHANGED running

\* ik_mmap_ptr, ik_mmap_data and the pages of moved objects.
MapPage(base, type) ==
  /\ type \in {"POINTERS", "DATA"}
  /\ ik_mmap_typed(segment_vector, base, 1, [p \in {base} |-> type])

ik_mmap_mainheap(base, size) ==
  /\ size \in BlockSizes
  /\ ik_mmap_typed(segment_vector, base, size, [p \in Block(base, size) |-> "MAINHEAP"])

\* The stack, of which there is one at a time, is frozen into a continuation and
\* becomes data; then another one is mapped.
ik_stack_overflow(base, size) ==
  /\ size \in BlockSizes
  /\ ik_mmap_typed(StackRetired, base, size, [p \in Block(base, size) |-> "MAINSTACK"])

\* ik_mmap_code: all pages but the first are for data.
ik_mmap_code(base, size) ==
  /\ size \in BlockSizes
  /\ ik_mmap_typed(segment_vector, base, size,
                   [p \in Block(base, size) |-> IF p = base THEN "CODE" ELSE "DATA"])

\* IK_SIGNAL_DIRT_IN_PAGE_OF_POINTER, for a page of objects.
SignalDirt(p) ==
  /\ running /\ p \in mapped
  /\ Slot(p) \in DOMAIN segment_vector
  /\ segment_vector[Slot(p)] \in {"POINTERS", "CODE"}
  /\ dirty_vector' = [dirty_vector EXCEPT ![Slot(p)] = "dirty"]
  /\ UNCHANGED <<mapped, memory_base, memory_end, segment_vector,
                 cached_pages, uncached_pages, running>>

DirtyKept(base, size) == dirty_vector

\* The pages of a block that is released are pure.
Cleaned(base, size) == Typed(dirty_vector, base, size, "pure", memory_base)

UnmapAll(base, size, kept) == mapped \ Block(base, size)

\* Only the pages that do not fit in the cache go back to the system.
Unmapped(base, size, kept) == mapped \ Block(base + kept, size - kept)

\* ik_munmap_from_segment
ik_munmap_from_segment(base, size) ==
  LET kept == IF size < uncached_pages THEN size ELSE uncached_pages
  IN /\ segment_vector' = Typed(segment_vector, base, size, "HOLE", memory_base)
     /\ dirty_vector' = Cleaned(base, size)
     /\ cached_pages' = [i \in 1 .. kept |-> base + kept - i] \o cached_pages
     /\ uncached_pages' = uncached_pages - kept
     /\ mapped' = Unmapped(base, size, kept)
     /\ UNCHANGED <<memory_base, memory_end, running>>

TypeOf(p) ==
  IF Slot(p) \in DOMAIN segment_vector THEN segment_vector[Slot(p)] ELSE "HOLE"

\* A collection releases hot blocks of the nursery and single pages.
Release(base, size) ==
  /\ running
  /\ \/ size = 1 /\ TypeOf(base) \in {"POINTERS", "DATA", "CODE"}
     \/ size \in BlockSizes /\ \A p \in Block(base, size) : TypeOf(p) = "MAINHEAP"
  /\ ik_munmap_from_segment(base, size)

\* ik_delete_pcb
ik_delete_pcb ==
  /\ running /\ running' = FALSE
  /\ mapped' = mapped \ (ToSet(cached_pages) \cup
                         {p \in memory_base .. memory_end - 1 : TypeOf(p) # "HOLE"})
  /\ cached_pages' = <<>> /\ uncached_pages' = CacheSlots
  /\ UNCHANGED vectors

PagesNext ==
  \/ \E p \in Page, t \in {"POINTERS", "DATA"} : MapPage(p, t)
  \/ \E p \in Page, n \in BlockSizes :
       ik_mmap_mainheap(p, n) \/ ik_stack_overflow(p, n) \/ ik_mmap_code(p, n)
  \/ \E p \in Page : SignalDirt(p)
  \/ \E p \in Page, n \in BlockSizes \cup {1} : Release(p, n)
  \/ ik_delete_pcb

PagesSpec == PagesInit /\ [][PagesNext]_pageVars

-----------------------------------------------------------------------------
(* Properties.                                                             *)

\* Every page of the process is either in use or in the cache, once, however
\* the vectors have grown: a page is never given to two owners nor lost.
EveryPageHasOneOwner ==
  LET used == {p \in memory_base .. memory_end - 1 : TypeOf(p) # "HOLE"}
  IN running => /\ mapped = used \cup ToSet(cached_pages)
                /\ used \cap ToSet(cached_pages) = {}
                /\ IsInjective(cached_pages)

\* A page that is mapped for a new use starts without the dirt of its last
\* one, or the collector would scan words that were never written.
HolesArePure ==
  \A i \in DOMAIN segment_vector : segment_vector[i] = "HOLE" => dirty_vector[i] = "pure"

\* Deleting the process control block returns every page to the system.
NothingLeaks == ~running => mapped = {}

\* The process keeps a stack; so what the system maps is never around all of
\* the vectors, which are extended at one end at a time.
StackIsKept ==
  running => \E p \in memory_base .. memory_end - 1 : TypeOf(p) = "MAINSTACK"

\* Every page is in use or cached, once; it starts clean; and all are given
\* back in the end.
PageInvariant ==
  PageTypes /\ EveryPageHasOneOwner /\ HolesArePure /\ NothingLeaks /\ StackIsKept

=============================================================================
