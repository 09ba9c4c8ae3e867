------------------------------ MODULE Collector ------------------------------
(***************************************************************************)
(* The generational copying garbage collector of Vicare (the function      *)
(* perform_garbage_collection of ikarus-collect.c and its subroutines),    *)
(* with the operations of the running program that interact with it:       *)
(* allocation, mutation with its write barrier, and loads.                 *)
(*                                                                         *)
(* One page holds one object, and a page is one card: the segments vector  *)
(* and the dirty vector are indexed by page, and the collector treats all  *)
(* the objects of a page alike.  The set of dirty bits of a card is a set  *)
(* of generation numbers: nibble bit 8 is generation 0, 4 is 1, 2 is 2 and *)
(* 1 is 3.  The program is stopped while the collector runs: the actions   *)
(* of the program have phase = "mutator" as a guard.                       *)
(*                                                                         *)
(* MaskOfYounger, MaskBelowPrevious, UncappedGen, UnmarkedStore,           *)
(* UntaggedGen, EverySlot, QueueAlways and UnforwardedCar, which no action *)
(* uses, are what a plausible bug would make of the definition that        *)
(* follows each.                                                           *)
(***************************************************************************)
EXTENDS Naturals

CONSTANTS
  Page,         \* memory pages
  Root,         \* words scanned as roots: stack, PCB fields, avoidance slots
  Slot,         \* the words of a data area
  Kind,         \* the kinds of objects the program allocates
  LastGen,      \* IK_GC_GENERATION_OLDEST
  Immediate, BWP, Null,
  Placement(_, _) \* the free pages in which ik_mmap_typed may put an object

ASSUME LastGenAssumption == LastGen \in Nat \ {0}
ASSUME KindAssumption == Kind \subseteq {"pair", "weak", "big"}
ASSUME SlotAssumption == "car" \in Slot
ASSUME WordAssumption ==
  /\ Immediate \notin Page
  /\ BWP \notin Page
  /\ Null \notin Page
  /\ Immediate # BWP
ASSUME PlacementAssumption ==
  \A X \in Page \cup {Null}, S \in SUBSET Page : Placement(X, S) \subseteq S

VARIABLES
  segment_vector, \* kind of the object in the page, generation, NEW_GEN_TAG
  dirty_vector,   \* the dirty bits of the page
  mem,            \* the words of the object in the page
  forward,        \* IK_FORWARD_PTR in the first word: the new address
  roots,
  phase,          \* where perform_garbage_collection stands
  collect_gen,
  dirty_words,    \* words of dirty cards still to be gathered
  root_words,     \* roots still to be gathered
  new_words       \* words of new pages still to be gathered (queues and meta)

pageVars == <<segment_vector, forward>>
gcVars   == <<phase, collect_gen, dirty_words, root_words, new_words>>
vars     == <<pageVars, dirty_vector, mem, roots, gcVars>>

Gen  == 0 .. LastGen
Bits == 0 .. LastGen - 1
Word == Page \cup {Immediate, BWP}

Hole     == [kind |-> "hole", gen |-> 0, new |-> FALSE]
NoWords  == [s \in Slot |-> Immediate]
Holes    == {p \in Page : segment_vector[p].kind = "hole"}
Occupied == Page \ Holes

TypeOK ==
  /\ segment_vector \in
       [Page -> [kind : Kind \cup {"hole"}, gen : Gen, new : BOOLEAN]]
  /\ dirty_vector \in [Page -> SUBSET Bits]
  /\ mem \in [Page -> [Slot -> Word]]
  /\ forward \in [Page -> Page \cup {Null}]
  /\ roots \in [Root -> Word]
  /\ phase \in {"mutator", "trace", "unmap", "untag"}
  /\ collect_gen \in Gen
  /\ dirty_words \subseteq Page \X Slot
  /\ root_words \subseteq Root
  /\ new_words \subseteq Page \X Slot

-----------------------------------------------------------------------------
(* The tables of the collector.                                            *)

IK_DIRTY_WORD == Bits

MaskOfYounger(g) == IF g = LastGen THEN {} ELSE {k \in Bits : k < g}

DIRTY_MASK(g) == IF g = LastGen THEN {} ELSE 0 .. g

MaskBelowPrevious(g) == {k \in Bits : k + 1 < g}

CLEANUP_MASK(g) == {k \in Bits : k < g}

\* The META_DIRTY bits of a page: NEXT_GEN_TAG gives a page its own bit, a
\* nursery page and a page of the oldest generation have none.
META_DIRTY(g) == IF g = 0 THEN {} ELSE {k \in Bits : k = g}

UncappedGen(g) == g + 1

next_gen(g) == IF g = LastGen THEN g ELSE g + 1

-----------------------------------------------------------------------------
(* The running program.                                                    *)

Held == {roots[r] : r \in Root} \cup {Immediate}

Allocate(r, k, words) ==
  /\ phase = "mutator"
  /\ \E q \in Placement(Null, Holes) :
       /\ segment_vector' =
            [segment_vector EXCEPT ![q] = [kind |-> k, gen |-> 0, new |-> FALSE]]
       /\ mem' = [mem EXCEPT ![q] = words]
       /\ roots' = [roots EXCEPT ![r] = q]
  /\ UNCHANGED <<dirty_vector, forward, gcVars>>

UnmarkedStore(p, v) == dirty_vector

\* Storing a word known to be immediate signals no dirt.
BarrierAfter(p, v) ==
  IF v = Immediate THEN dirty_vector
                   ELSE [dirty_vector EXCEPT ![p] = IK_DIRTY_WORD]

SetSlot(r, s, v) ==
  /\ phase = "mutator"
  /\ roots[r] \in Page
  /\ mem' = [mem EXCEPT ![roots[r]][s] = v]
  /\ dirty_vector' = BarrierAfter(roots[r], v)
  /\ UNCHANGED <<pageVars, roots, gcVars>>

GetSlot(r, s, x) ==
  /\ phase = "mutator"
  /\ roots[r] \in Page
  /\ roots' = [roots EXCEPT ![x] = mem[roots[r]][s]]
  /\ UNCHANGED <<pageVars, dirty_vector, mem, gcVars>>

Drop(r) ==
  /\ phase = "mutator"
  /\ roots' = [roots EXCEPT ![r] = Immediate]
  /\ UNCHANGED <<pageVars, dirty_vector, mem, gcVars>>

-----------------------------------------------------------------------------
(* gather_live_object.                                                     *)

UntaggedGen(p) == segment_vector[p].gen > collect_gen

\* The generation number read with GEN_MASK includes NEW_GEN_TAG: a page
\* filled or kept by this collection is above every collected generation.
Uncollected(p) == segment_vector[p].new \/ segment_vector[p].gen > collect_gen

MustMove(X) == X \in Page /\ forward[X] = Null /\ ~ Uncollected(X)

\* A big vector is moved out of the nursery once, to pages of its own with
\* LARGE_OBJECT_TAG; after that its pages are retagged in place.
IsLarge(X) == segment_vector[X].kind = "big" /\ segment_vector[X].gen > 0

Retagged(X) == MustMove(X) /\ IsLarge(X)
Copied(X)   == MustMove(X) /\ ~ IsLarge(X)

\* The words that may replace X.
Gatherings(X) ==
  IF Copied(X) THEN Placement(X, Holes)
  ELSE IF X \in Page /\ forward[X] # Null THEN {forward[X]} ELSE {X}

NewPage(X) == [kind |-> segment_vector[X].kind,
               gen |-> next_gen(collect_gen), new |-> TRUE]

EverySlot(kind) == Slot

\* The car of a weak pair is not scanned in a new page.
ScannedSlots(kind) == IF kind = "weak" THEN Slot \ {"car"} ELSE Slot

SegmentsAfter(X, Y) ==
  IF MustMove(X) THEN [segment_vector EXCEPT ![Y] = NewPage(X)]
                 ELSE segment_vector

MemAfter(X, Y) ==
  IF Copied(X) THEN [mem EXCEPT ![Y] = mem[X], ![X] = NoWords] ELSE mem

QueueAlways(X, Y) ==
  IF X \in Page THEN new_words \cup ({Y} \X Slot) ELSE new_words

QueueAfter(X, Y) ==
  IF MustMove(X)
  THEN new_words \cup
       {<<Y, s>> : s \in {t \in ScannedSlots(segment_vector[X].kind) : mem[X][t] \in Page}}
  ELSE new_words

ForwardAfter(X, Y) ==
  IF Copied(X) THEN [forward EXCEPT ![X] = Y] ELSE forward

\* The effect on the pages of replacing X with Y.
Gather(X, Y) ==
  /\ segment_vector' = SegmentsAfter(X, Y)
  /\ forward' = ForwardAfter(X, Y)

-----------------------------------------------------------------------------
(* perform_garbage_collection.                                             *)

DirtyPages(g) ==
  {p \in Occupied : /\ segment_vector[p].gen > g
                    /\ dirty_vector[p] \cap DIRTY_MASK(g) # {}}

\* A big vector may be retagged before scan_dirty_pages comes to its pages.
\* Their generation number then includes NEW_GEN_TAG: CLEANUP_MASK is read
\* past its end, and any of the dirty bits may be left.
LateCards(g) ==
  {p \in Occupied : /\ DirtyPages(g) # {}
                    /\ segment_vector[p].kind = "big"
                    /\ segment_vector[p].gen \in 1 .. g
                    /\ dirty_vector[p] \cap DIRTY_MASK(g) # {}}

StartCollection(g) ==
  /\ phase = "mutator"
  /\ phase' = "trace"
  /\ collect_gen' = g
  /\ dirty_words' = {w \in DirtyPages(g) \X Slot : mem[w[1]][w[2]] \in Page}
  /\ \E left \in [LateCards(g) -> SUBSET Bits] :
       dirty_vector' = [p \in Page |-> IF p \in DirtyPages(g) THEN {}
                                      ELSE IF p \in LateCards(g) THEN left[p]
                                      ELSE dirty_vector[p]]
  /\ root_words' = {r \in Root : roots[r] \in Page}
  /\ new_words' = {}
  /\ UNCHANGED <<pageVars, mem, roots>>

\* The dirty bits that the word Y contributes to the card of page p, once
\* the pages are as in segs.
CardBits(p, Y, segs) ==
  IF Y \in Page THEN META_DIRTY(segs[Y].gen) \cap CLEANUP_MASK(segs[p].gen) ELSE {}

\* scan_dirty_pages: the cars of weak pairs are gathered like any word, and
\* the dirty bits of a scanned card are computed again from its words.
ScanDirtyWord(p, s) ==
  /\ phase = "trace"
  /\ <<p, s>> \in dirty_words
  /\ \E Y \in Gatherings(mem[p][s]) :
       /\ Gather(mem[p][s], Y)
       /\ mem' = [MemAfter(mem[p][s], Y) EXCEPT ![p][s] = Y]
       /\ new_words' = QueueAfter(mem[p][s], Y)
       /\ dirty_vector' = [dirty_vector EXCEPT
             ![p] = @ \cup CardBits(p, Y, SegmentsAfter(mem[p][s], Y))]
  /\ dirty_words' = dirty_words \ {<<p, s>>}
  /\ UNCHANGED <<roots, phase, collect_gen, root_words>>

\* The stack, the locatives, the avoidance slots and the PCB fields.
GatherRoot(r) ==
  /\ phase = "trace"
  /\ dirty_words = {}
  /\ r \in root_words
  /\ \E Y \in Gatherings(roots[r]) :
       /\ Gather(roots[r], Y)
       /\ mem' = MemAfter(roots[r], Y)
       /\ new_words' = QueueAfter(roots[r], Y)
       /\ roots' = [roots EXCEPT ![r] = Y]
  /\ root_words' = root_words \ {r}
  /\ UNCHANGED <<dirty_vector, phase, collect_gen, dirty_words>>

\* collect_loop.
ScanNewWord(p, s) ==
  /\ phase = "trace"
  /\ dirty_words = {} /\ root_words = {}
  /\ <<p, s>> \in new_words
  /\ \E Y \in Gatherings(mem[p][s]) :
       /\ Gather(mem[p][s], Y)
       /\ mem' = [MemAfter(mem[p][s], Y) EXCEPT ![p][s] = Y]
       /\ new_words' = QueueAfter(mem[p][s], Y) \ {<<p, s>>}
  /\ UNCHANGED <<dirty_vector, roots, phase, collect_gen, dirty_words, root_words>>

UnforwardedCar(X) == IF X \in Page /\ ~ Uncollected(X) THEN BWP ELSE X

\* The car that fix_weak_pointers leaves in a weak pair that holds X.
FixedCar(X) ==
  IF X \notin Page THEN X
  ELSE IF forward[X] # Null THEN forward[X]
  ELSE IF Uncollected(X) THEN X ELSE BWP

fix_weak_pointers ==
  /\ phase = "trace"
  /\ dirty_words = {} /\ root_words = {} /\ new_words = {}
  /\ mem' = [p \in Page |->
               IF segment_vector[p].kind = "weak" /\ segment_vector[p].new
               THEN [mem[p] EXCEPT !["car"] = FixedCar(@)]
               ELSE mem[p]]
  /\ phase' = "unmap"
  /\ UNCHANGED <<pageVars, dirty_vector, roots,
                 collect_gen, dirty_words, root_words, new_words>>

\* The pages that hold what was not kept: those of the collected generations
\* are unmapped, those of the nursery are used again.
Unused == {p \in Occupied : ~ Uncollected(p)}

deallocate_unused_pages ==
  /\ phase = "unmap"
  /\ segment_vector' = [p \in Page |-> IF p \in Unused THEN Hole ELSE segment_vector[p]]
  /\ dirty_vector' = [p \in Page |-> IF p \in Unused THEN {} ELSE dirty_vector[p]]
  /\ mem' = [p \in Page |-> IF p \in Unused THEN NoWords ELSE mem[p]]
  /\ forward' = [p \in Page |-> IF p \in Unused THEN Null ELSE forward[p]]
  /\ phase' = "untag"
  /\ UNCHANGED <<roots, collect_gen, dirty_words, root_words, new_words>>

fix_new_pages ==
  /\ phase = "untag"
  /\ segment_vector' = [p \in Page |-> [segment_vector[p] EXCEPT !.new = FALSE]]
  /\ phase' = "mutator"
  /\ collect_gen' = 0
  /\ UNCHANGED <<dirty_vector, mem, forward, roots,
                 dirty_words, root_words, new_words>>

-----------------------------------------------------------------------------

Init ==
  /\ segment_vector = [p \in Page |-> Hole]
  /\ dirty_vector = [p \in Page |-> {}]
  /\ mem = [p \in Page |-> NoWords]
  /\ forward = [p \in Page |-> Null]
  /\ roots = [r \in Root |-> Immediate]
  /\ phase = "mutator"
  /\ collect_gen = 0
  /\ dirty_words = {}
  /\ root_words = {}
  /\ new_words = {}

MutatorStep ==
  \/ \E r \in Root, k \in Kind, words \in [Slot -> Held] : Allocate(r, k, words)
  \/ \E r \in Root, s \in Slot, v \in Held : SetSlot(r, s, v)
  \/ \E r, x \in Root, s \in Slot : GetSlot(r, s, x)
  \/ \E r \in Root : Drop(r)

CollectorStep ==
  \/ \E p \in Page, s \in Slot : ScanDirtyWord(p, s)
  \/ \E r \in Root : GatherRoot(r)
  \/ \E p \in Page, s \in Slot : ScanNewWord(p, s)
  \/ fix_weak_pointers
  \/ deallocate_unused_pages
  \/ fix_new_pages

Next == MutatorStep \/ (\E g \in Gen : StartCollection(g)) \/ CollectorStep

Spec == Init /\ [][Next]_vars

\* A collection, once entered, runs to its end before the program goes on.
FairSpec == Spec /\ WF_vars(CollectorStep)

-----------------------------------------------------------------------------
(* Properties.                                                             *)

\* No word of an occupied page and no root ever holds the address of a free
\* page, at any point of a collection: what is unmapped is referenced by
\* nothing, dead objects of older generations included.
NoDangling ==
  /\ \A p \in Occupied, s \in Slot : mem[p][s] \in Page => mem[p][s] \in Occupied
  /\ \A r \in Root : roots[r] \in Page => roots[r] \in Occupied

\* "If a nibble in the dirty vector is set to zero the corresponding card is
\* clean, it has no pointers to Scheme objects in younger generations": when
\* the program runs, a word that refers to a younger page has the bit of the
\* generation of that page in its card.
RememberedSet ==
  phase = "mutator" =>
    \A p \in Occupied, s \in Slot :
      mem[p][s] \in Page =>
        \/ segment_vector[mem[p][s]].gen >= segment_vector[p].gen
        \/ segment_vector[mem[p][s]].gen \in dirty_vector[p]

\* The pages that strong words lead to from the roots.
Closed(S) ==
  /\ \A r \in Root : roots[r] \in Page => roots[r] \in S
  /\ \A p \in S, s \in Slot :
        /\ mem[p][s] \in Page
        /\ ~ (segment_vector[p].kind = "weak" /\ s = "car")
        => mem[p][s] \in S

\* A collection of the oldest generation leaves no garbage: every object left
\* is reachable through strong words, so a weak pair kept nothing alive.
FullCollectionPrecise ==
  phase = "untag" /\ collect_gen = LastGen =>
    \A S \in SUBSET Occupied : Closed(S) => S = Occupied

\* Every collection that is entered ends: collect_loop has finished its work.
CollectionEnds == (phase = "trace") ~> (phase = "mutator")

=============================================================================
