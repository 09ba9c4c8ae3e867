--------------------------- MODULE Collector_proofs ---------------------------
(***************************************************************************)
(* Proofs about Collector, for every set of pages, every number of         *)
(* generations and every placement of objects.                             *)
(***************************************************************************)
EXTENDS CollectorInvariant, TLAPS

USE DEF Gen, Bits, Word

(* The words that may replace a gathered word are words, and a page that   *)
(* receives a copy was free.                                               *)
LEMMA GatheringsLemma ==
  ASSUME TypeOK, NEW X \in Word, NEW Y \in Gatherings(X)
  PROVE  /\ Y \in Word
         /\ Copied(X) => Y \in Holes /\ X \in Page
         /\ ~ Copied(X) => Y = X \/ (X \in Page /\ forward[X] # Null /\ Y = forward[X])
         /\ MustMove(X) => X \in Page /\ Y \in Page
<1>1. Holes \in SUBSET Page
  BY DEF Holes
<1>2. CASE Copied(X)
  <2>1. X \in Page
    BY <1>2 DEF Copied, MustMove
  <2>2. Y \in Placement(X, Holes)
    BY <1>2 DEF Gatherings
  <2>3. Y \in Holes
    BY <1>1, <2>1, <2>2, PlacementAssumption
  <2> QED
    BY <1>1, <1>2, <2>1, <2>3
<1>3. CASE ~ Copied(X)
  <2>1. Y = X \/ (X \in Page /\ forward[X] # Null /\ Y = forward[X])
    BY <1>3 DEF Gatherings
  <2>2. Y \in Word
    BY <2>1 DEF TypeOK
  <2>3. MustMove(X) => X \in Page /\ Y \in Page
    BY <1>3, <2>1 DEF MustMove
  <2> QED
    BY <1>3, <2>1, <2>2, <2>3
<1> QED
  BY <1>2, <1>3

(* What gathering does to the pages has the right types.                   *)
LEMMA GatherTypes ==
  ASSUME TypeOK, NEW X \in Word, NEW Y \in Gatherings(X)
  PROVE  /\ SegmentsAfter(X, Y) \in
              [Page -> [kind : Kind \cup {"hole"}, gen : Gen, new : BOOLEAN]]
         /\ ForwardAfter(X, Y) \in [Page -> Page \cup {Null}]
         /\ MemAfter(X, Y) \in [Page -> [Slot -> Word]]
         /\ QueueAfter(X, Y) \subseteq Page \X Slot
<1>1. /\ Y \in Word
      /\ Copied(X) => Y \in Holes /\ X \in Page
      /\ MustMove(X) => X \in Page /\ Y \in Page
  BY GatheringsLemma
<1>2. Holes \subseteq Page
  BY DEF Holes
<1>3. next_gen(collect_gen) \in Gen
  BY LastGenAssumption DEF TypeOK, next_gen
<1>4. X \in Page => NewPage(X) \in [kind : Kind \cup {"hole"}, gen : Gen, new : BOOLEAN]
  BY <1>3 DEF TypeOK, NewPage
<1>5. SegmentsAfter(X, Y) \in
        [Page -> [kind : Kind \cup {"hole"}, gen : Gen, new : BOOLEAN]]
  BY <1>1, <1>4 DEF TypeOK, SegmentsAfter
<1>6. ForwardAfter(X, Y) \in [Page -> Page \cup {Null}]
  BY <1>1, <1>2 DEF TypeOK, ForwardAfter
<1>7. NoWords \in [Slot -> Word]
  BY DEF NoWords
<1>8. MemAfter(X, Y) \in [Page -> [Slot -> Word]]
  BY <1>1, <1>2, <1>7 DEF TypeOK, MemAfter
<1>9. QueueAfter(X, Y) \subseteq Page \X Slot
  BY <1>1 DEF TypeOK, QueueAfter, ScannedSlots
<1> QED
  BY <1>5, <1>6, <1>8, <1>9

LEMMA InitTypeOK == Init => TypeOK
<1> SUFFICES ASSUME Init PROVE TypeOK
  OBVIOUS
<1>1. Hole \in [kind : Kind \cup {"hole"}, gen : Gen, new : BOOLEAN]
  BY LastGenAssumption DEF Hole
<1>2. NoWords \in [Slot -> Word]
  BY DEF NoWords
<1> QED
  BY <1>1, <1>2, LastGenAssumption DEF Init, TypeOK

LEMMA NextTypeOK == TypeOK /\ [Next]_vars => TypeOK'
<1> SUFFICES ASSUME TypeOK, [Next]_vars PROVE TypeOK'
  OBVIOUS
<1> USE DEF pageVars, gcVars
<1>h. Held \subseteq Word
  BY DEF Held, TypeOK
<1>p. Holes \subseteq Page
  BY DEF Holes
<1>1. ASSUME NEW r \in Root, NEW k \in Kind, NEW words \in [Slot -> Held],
             Allocate(r, k, words)
      PROVE  TypeOK'
  <2>1. PICK q \in Placement(Null, Holes) :
          /\ segment_vector' =
               [segment_vector EXCEPT ![q] = [kind |-> k, gen |-> 0, new |-> FALSE]]
          /\ mem' = [mem EXCEPT ![q] = words]
          /\ roots' = [roots EXCEPT ![r] = q]
    BY <1>1 DEF Allocate
  <2>2. q \in Page
    BY <1>p, <2>1, PlacementAssumption
  <2>3. words \in [Slot -> Word]
    BY <1>h
  <2> QED
    BY <1>1, <2>1, <2>2, <2>3, LastGenAssumption DEF Allocate, TypeOK
<1>2. ASSUME NEW r \in Root, NEW s \in Slot, NEW v \in Held, SetSlot(r, s, v)
      PROVE  TypeOK'
  BY <1>2, <1>h DEF SetSlot, BarrierAfter, IK_DIRTY_WORD, TypeOK
<1>3. ASSUME NEW r \in Root, NEW x \in Root, NEW s \in Slot, GetSlot(r, s, x)
      PROVE  TypeOK'
  BY <1>3 DEF GetSlot, TypeOK
<1>4. ASSUME NEW r \in Root, Drop(r) PROVE TypeOK'
  BY <1>4 DEF Drop, TypeOK
<1>5. ASSUME NEW g \in Gen, StartCollection(g) PROVE TypeOK'
  <2>1. dirty_words' \subseteq Page \X Slot
    BY <1>5 DEF StartCollection, DirtyPages, Occupied
  <2>2. dirty_vector' \in [Page -> SUBSET Bits]
    <3>1. PICK left \in [LateCards(g) -> SUBSET Bits] :
            dirty_vector' = [p \in Page |-> IF p \in DirtyPages(g) THEN {}
                                           ELSE IF p \in LateCards(g) THEN left[p]
                                           ELSE dirty_vector[p]]
      BY <1>5 DEF StartCollection
    <3> QED
      BY <3>1 DEF TypeOK
  <2> QED
    BY <1>5, <2>1, <2>2 DEF StartCollection, TypeOK
<1>6. ASSUME NEW p \in Page, NEW s \in Slot, ScanDirtyWord(p, s) PROVE TypeOK'
  <2>1. PICK Y \in Gatherings(mem[p][s]) :
          /\ Gather(mem[p][s], Y)
          /\ mem' = [MemAfter(mem[p][s], Y) EXCEPT ![p][s] = Y]
          /\ new_words' = QueueAfter(mem[p][s], Y)
          /\ dirty_vector' = [dirty_vector EXCEPT
                ![p] = @ \cup CardBits(p, Y, SegmentsAfter(mem[p][s], Y))]
    BY <1>6 DEF ScanDirtyWord
  <2>2. mem[p][s] \in Word
    BY DEF TypeOK
  <2>3. Y \in Word
    BY <2>2, GatheringsLemma
  <2>4. CardBits(p, Y, SegmentsAfter(mem[p][s], Y)) \subseteq Bits
    BY DEF CardBits, CLEANUP_MASK
  <2>5. dirty_vector' \in [Page -> SUBSET Bits]
    BY <2>1, <2>4 DEF TypeOK
  <2>6. mem' \in [Page -> [Slot -> Word]]
    BY <2>1, <2>2, <2>3, GatherTypes
  <2> QED
    BY <1>6, <2>1, <2>2, <2>5, <2>6, GatherTypes DEF ScanDirtyWord, Gather, TypeOK
<1>7. ASSUME NEW r \in Root, GatherRoot(r) PROVE TypeOK'
  <2>1. PICK Y \in Gatherings(roots[r]) :
          /\ Gather(roots[r], Y)
          /\ mem' = MemAfter(roots[r], Y)
          /\ new_words' = QueueAfter(roots[r], Y)
          /\ roots' = [roots EXCEPT ![r] = Y]
    BY <1>7 DEF GatherRoot
  <2>2. roots[r] \in Word
    BY DEF TypeOK
  <2>3. Y \in Word
    BY <2>2, GatheringsLemma
  <2> QED
    BY <1>7, <2>1, <2>2, <2>3, GatherTypes DEF GatherRoot, Gather, TypeOK
<1>8. ASSUME NEW p \in Page, NEW s \in Slot, ScanNewWord(p, s) PROVE TypeOK'
  <2>1. PICK Y \in Gatherings(mem[p][s]) :
          /\ Gather(mem[p][s], Y)
          /\ mem' = [MemAfter(mem[p][s], Y) EXCEPT ![p][s] = Y]
          /\ new_words' = QueueAfter(mem[p][s], Y) \ {<<p, s>>}
    BY <1>8 DEF ScanNewWord
  <2>2. mem[p][s] \in Word
    BY DEF TypeOK
  <2>3. Y \in Word
    BY <2>2, GatheringsLemma
  <2>4. mem' \in [Page -> [Slot -> Word]]
    BY <2>1, <2>2, <2>3, GatherTypes
  <2>5. new_words' \subseteq Page \X Slot
    BY <2>1, <2>2, GatherTypes
  <2> QED
    BY <1>8, <2>1, <2>2, <2>4, <2>5, GatherTypes DEF ScanNewWord, Gather, TypeOK
<1>9. CASE fix_weak_pointers
  <2>1. \A p \in Page : FixedCar(mem[p]["car"]) \in Word
    BY SlotAssumption DEF FixedCar, TypeOK
  <2>2. mem' \in [Page -> [Slot -> Word]]
    BY <1>9, <2>1 DEF fix_weak_pointers, TypeOK
  <2> QED
    BY <1>9, <2>2 DEF fix_weak_pointers, TypeOK
<1>10. CASE deallocate_unused_pages
  <2>1. Hole \in [kind : Kind \cup {"hole"}, gen : Gen, new : BOOLEAN]
    BY LastGenAssumption DEF Hole
  <2>2. NoWords \in [Slot -> Word]
    BY DEF NoWords
  <2> QED
    BY <1>10, <2>1, <2>2 DEF deallocate_unused_pages, TypeOK
<1>11. CASE fix_new_pages
  <2>1. \A p \in Page : [segment_vector[p] EXCEPT !.new = FALSE]
                           \in [kind : Kind \cup {"hole"}, gen : Gen, new : BOOLEAN]
    BY DEF TypeOK
  <2>2. segment_vector' \in
          [Page -> [kind : Kind \cup {"hole"}, gen : Gen, new : BOOLEAN]]
    BY <1>11, <2>1 DEF fix_new_pages
  <2>3. 0 \in Gen
    BY LastGenAssumption
  <2> QED
    BY <1>11, <2>2, <2>3 DEF fix_new_pages, TypeOK
<1>12. CASE UNCHANGED vars
  BY <1>12 DEF vars, TypeOK
<1> QED
  BY <1>1, <1>2, <1>3, <1>4, <1>5, <1>6, <1>7, <1>8, <1>9, <1>10, <1>11, <1>12
     DEF Next, MutatorStep, CollectorStep

(* The state of the collector always has the shape TypeOK describes.       *)
THEOREM TypeCorrect == Spec => []TypeOK
<1>1. Init => TypeOK
  BY InitTypeOK
<1>2. TypeOK /\ [Next]_vars => TypeOK'
  BY NextTypeOK
<1> QED
  BY <1>1, <1>2, PTL DEF Spec

-----------------------------------------------------------------------------
(* Gathering, seen from the segments vector.                               *)

(* A kept page is at least as old as the pages that the collection makes.  *)
LEMMA KeptIsOlder ==
  ASSUME TypeOK, NewInv, NEW p \in Page, Uncollected(p)
  PROVE  segment_vector[p].gen >= next_gen(collect_gen)
BY LastGenAssumption DEF TypeOK, NewInv, Uncollected, next_gen

(* Gathering X changes at most the page of Y, which becomes a new page; a  *)
(* kept page is left as it is, and the word that replaces an address is    *)
(* the address of a kept page.                                             *)
LEMMA GatherSegments ==
  ASSUME TypeOK, HoleInv, ForwardInv,
         NEW X \in Word, X \in Page => X \in Occupied,
         NEW Y \in Gatherings(X), Gather(X, Y), collect_gen' = collect_gen
  PROVE  /\ \A p \in Page : \/ segment_vector'[p] = segment_vector[p]
                            \/ /\ p = Y
                               /\ MustMove(X)
                               /\ segment_vector'[p] = NewPage(X)
         /\ \A p \in Page : Uncollected(p) =>
               Uncollected(p)' /\ segment_vector'[p] = segment_vector[p]
         /\ \A p \in Occupied : /\ p \in Occupied'
                                /\ segment_vector'[p].kind = segment_vector[p].kind
         /\ \A p \in Page : p \in Occupied' => p \in Occupied \/ (Copied(X) /\ p = Y)
         /\ X \in Page => Y \in Page /\ Y \in Occupied' /\ Uncollected(Y)'
         /\ X \notin Page => Y = X
         /\ Copied(X) => /\ X \in Page /\ X \in Occupied /\ ~ Uncollected(X)
                         /\ ~ Uncollected(X)'
                         /\ Y \in Holes /\ Y # X
         /\ Retagged(X) => Y = X
         /\ MustMove(X) => segment_vector'[Y] = NewPage(X)
<1>1. /\ Y \in Word
      /\ Copied(X) => Y \in Holes /\ X \in Page
      /\ ~ Copied(X) => Y = X \/ (X \in Page /\ forward[X] # Null /\ Y = forward[X])
      /\ MustMove(X) => X \in Page /\ Y \in Page
  BY GatheringsLemma
<1>2. Copied(X) \/ Retagged(X) <=> MustMove(X)
  BY DEF Copied, Retagged
<1>3. Retagged(X) => Y = X
  BY <1>1 DEF Retagged, Copied, MustMove
<1>4. segment_vector' = IF MustMove(X) THEN [segment_vector EXCEPT ![Y] = NewPage(X)]
                                       ELSE segment_vector
  BY DEF Gather, SegmentsAfter
<1>5. \A p \in Page : \/ segment_vector'[p] = segment_vector[p]
                      \/ p = Y /\ MustMove(X) /\ segment_vector'[p] = NewPage(X)
  BY <1>4 DEF TypeOK
<1>6. MustMove(X) => segment_vector'[Y] = NewPage(X)
  BY <1>1, <1>4 DEF TypeOK
<1>7. MustMove(X) => X \in Occupied /\ ~ Uncollected(X)
  BY DEF MustMove
<1>8. Copied(X) => Y # X /\ Y \in Holes /\ X \in Page
  BY <1>1, <1>2, <1>7 DEF Occupied
<1>9. \A p \in Holes : ~ Uncollected(p)
  BY DEF HoleInv, Uncollected, TypeOK, Holes
<1>10. MustMove(X) => ~ Uncollected(Y)
  BY <1>2, <1>3, <1>7, <1>8, <1>9
<1>11. \A p \in Page : Uncollected(p) => segment_vector'[p] = segment_vector[p]
  BY <1>5, <1>10
<1>12. \A p \in Page : segment_vector'[p] = segment_vector[p] =>
         (Uncollected(p)' <=> Uncollected(p))
  BY DEF Uncollected
<1>13. MustMove(X) => NewPage(X).kind = segment_vector[X].kind /\ NewPage(X).new
  BY DEF NewPage
<1>14. \A p \in Page : p \in Occupied <=> segment_vector[p].kind # "hole"
  BY DEF Occupied, Holes
<1>15. \A p \in Page : p \in Occupied' <=> segment_vector'[p].kind # "hole"
  BY DEF Occupied, Holes
<1>16. \A p \in Occupied : p \in Page /\ segment_vector'[p].kind = segment_vector[p].kind
  <2> SUFFICES ASSUME NEW p \in Occupied
               PROVE  p \in Page /\ segment_vector'[p].kind = segment_vector[p].kind
    OBVIOUS
  <2>1. p \in Page /\ p \notin Holes
    BY DEF Occupied
  <2>2. CASE segment_vector'[p] = segment_vector[p]
    BY <2>1, <2>2
  <2>3. CASE p = Y /\ MustMove(X) /\ segment_vector'[p] = NewPage(X)
    <3>1. p = X
      BY <1>2, <1>3, <1>8, <2>1, <2>3
    <3> QED
      BY <1>13, <2>1, <2>3, <3>1
  <2> QED
    BY <1>5, <2>1, <2>2, <2>3
<1>17. \A p \in Occupied : p \in Occupied'
  BY <1>14, <1>15, <1>16
<1>18. \A p \in Page : p \in Occupied' => p \in Occupied \/ (Copied(X) /\ p = Y)
  BY <1>2, <1>3, <1>5, <1>7, <1>14, <1>15
<1>19. X \in Page => Y \in Page /\ Y \in Occupied' /\ Uncollected(Y)'
  <2> SUFFICES ASSUME X \in Page PROVE Y \in Page /\ Y \in Occupied' /\ Uncollected(Y)'
    OBVIOUS
  <2>1. CASE MustMove(X)
    <3>1. Y \in Page /\ segment_vector'[Y] = NewPage(X)
      BY <1>1, <1>6, <2>1
    <3>2. segment_vector'[Y].new /\ segment_vector'[Y].kind # "hole"
      BY <1>7, <1>13, <1>14, <2>1, <3>1
    <3> QED
      BY <1>15, <3>1, <3>2 DEF Uncollected
  <2>2. CASE forward[X] # Null
    <3>1. Y = forward[X]
      BY <2>2, <1>1 DEF Copied, MustMove, Gatherings
    <3>2. Y \in Page /\ Uncollected(Y)
      BY <2>2, <3>1 DEF ForwardInv, TypeOK
    <3>3. Y \in Occupied
      BY <1>9, <3>2 DEF Occupied
    <3> QED
      BY <1>11, <1>12, <1>17, <3>2, <3>3
  <2>3. CASE forward[X] = Null /\ ~ MustMove(X)
    <3>1. Y = X /\ Uncollected(X)
      BY <2>3, <1>1 DEF Copied, MustMove
    <3> QED
      BY <1>11, <1>12, <1>17, <3>1
  <2> QED
    BY <2>1, <2>2, <2>3
<1>20. X \notin Page => Y = X
  BY <1>1, <1>2
<1>21. Copied(X) => ~ Uncollected(X)'
  BY <1>2, <1>5, <1>7, <1>8, <1>12
<1> QED
  BY <1>2, <1>3, <1>5, <1>6, <1>7, <1>8, <1>11, <1>12, <1>16, <1>17, <1>18, <1>19,
     <1>20, <1>21

(* What gathering leaves of the invariants that speak of pages only.       *)
LEMMA GatherPages ==
  ASSUME TypeOK, HoleInv, NewInv, ForwardInv,
         NEW X \in Word, X \in Page => X \in Occupied,
         NEW Y \in Gatherings(X), Gather(X, Y), collect_gen' = collect_gen
  PROVE  HoleInv' /\ NewInv' /\ ForwardInv'
<1>1. /\ \A p \in Page : \/ segment_vector'[p] = segment_vector[p]
                         \/ /\ p = Y
                            /\ MustMove(X)
                            /\ segment_vector'[p] = NewPage(X)
      /\ \A p \in Page : Uncollected(p) => Uncollected(p)'
      /\ \A p \in Occupied : p \in Occupied'
      /\ X \in Page => Y \in Page /\ Y \in Occupied' /\ Uncollected(Y)'
      /\ Copied(X) => /\ X \in Page /\ X \in Occupied /\ ~ Uncollected(X)
                      /\ ~ Uncollected(X)'
                      /\ Y \in Holes /\ Y # X
      /\ Retagged(X) => Y = X
  BY GatherSegments
<1>2. MustMove(X) => X \in Page /\ forward[X] = Null /\ (Copied(X) \/ Retagged(X))
  BY DEF MustMove, Copied, Retagged
<1>3. forward' = IF Copied(X) THEN [forward EXCEPT ![X] = Y] ELSE forward
  BY DEF Gather, ForwardAfter
<1>4. Occupied \subseteq Page /\ Occupied' \subseteq Page
  BY DEF Occupied
<1>5. HoleInv'
  <2> SUFFICES ASSUME NEW p \in Page, p \in Holes'
               PROVE  /\ segment_vector'[p].gen = 0
                      /\ ~ segment_vector'[p].new
                      /\ forward'[p] = Null
    BY DEF HoleInv, Holes
  <2>1. p \notin Occupied'
    BY DEF Occupied
  <2>2. p \in Holes
    BY <1>1, <2>1 DEF Occupied
  <2>3. segment_vector'[p] = segment_vector[p]
    BY <1>1, <1>2, <2>1
  <2>4. Copied(X) => p # X
    BY <1>1, <2>2 DEF Occupied
  <2>5. forward'[p] = forward[p]
    BY <1>3, <2>4 DEF TypeOK
  <2> QED
    BY <2>2, <2>3, <2>5 DEF HoleInv
<1>6. NewInv'
  <2>1. NewPage(X).gen = next_gen(collect_gen)
    BY DEF NewPage
  <2>2. next_gen(collect_gen)' = next_gen(collect_gen)
    BY DEF next_gen
  <2>3. \A p \in Page : segment_vector'[p].new =>
                         segment_vector'[p].gen = next_gen(collect_gen)
    BY <1>1, <2>1 DEF NewInv
  <2> QED
    BY <2>2, <2>3 DEF NewInv
<1>7. ForwardInv'
  <2> SUFFICES ASSUME NEW p \in Page, forward'[p] # Null
               PROVE  p \in Occupied' /\ ~ Uncollected(p)' /\ Uncollected(forward[p])'
    BY DEF ForwardInv
  <2>1. CASE Copied(X) /\ p = X
    <3>1. forward'[p] = Y
      BY <1>3, <2>1 DEF TypeOK
    <3> QED
      BY <1>1, <2>1, <3>1 DEF Uncollected
  <2>2. CASE ~ (Copied(X) /\ p = X)
    <3>1. forward'[p] = forward[p]
      BY <1>3, <2>2 DEF TypeOK
    <3>2. p \in Occupied /\ ~ Uncollected(p) /\ Uncollected(forward[p])
      BY <3>1 DEF ForwardInv
    <3>3. ~ (p = Y /\ MustMove(X))
      BY <1>1, <1>2, <3>1, <3>2 DEF Occupied
    <3>4. ~ Uncollected(p)'
      BY <1>1, <3>2, <3>3 DEF Uncollected
    <3>5. forward[p] \in Page
      BY <3>1 DEF TypeOK
    <3> QED
      BY <1>1, <3>1, <3>2, <3>4, <3>5 DEF Uncollected
  <2> QED
    BY <2>1, <2>2
<1> QED
  BY <1>5, <1>6, <1>7

(* The addresses in memory after X has been gathered, as the word Y:       *)
(* nothing refers to a free page, what a kept page holds is kept or is     *)
(* still to be scanned, and the cards of the kept pages remember their     *)
(* references to younger kept pages.                                       *)
LEMMA GatherMemory ==
  ASSUME TypeOK, TypeOK', NoDangling, HoleInv, NewInv, ForwardInv,
         WorkInv, TraceInv, CardInv, phase = "trace", NewInv',
         NEW X \in Word, X \in Page => X \in Occupied,
         NEW Y \in Gatherings(X), Gather(X, Y), collect_gen' = collect_gen,
         NEW m, m = MemAfter(X, Y)
  PROVE  \A p \in Page, s \in Slot : m[p][s] \in Page =>
         /\ p \in Occupied' => m[p][s] \in Occupied'
         /\ Uncollected(p)' => \/ Uncollected(m[p][s])'
                               \/ <<p, s>> \in dirty_words \cup QueueAfter(X, Y)
                               \/ /\ segment_vector'[p].new
                                  /\ segment_vector'[p].kind = "weak"
                                  /\ s = "car"
         /\ /\ Uncollected(p)' /\ Uncollected(m[p][s])'
            /\ <<p, s>> \notin dirty_words
            => \/ segment_vector'[m[p][s]].gen >= segment_vector'[p].gen
               \/ segment_vector'[m[p][s]].gen \in dirty_vector[p]
<1> TAKE p \in Page, s \in Slot
<1> HAVE m[p][s] \in Page
<1> DEFINE z == m[p][s]
<1>1. /\ \A q \in Page : \/ segment_vector'[q] = segment_vector[q]
                         \/ /\ q = Y
                            /\ MustMove(X)
                            /\ segment_vector'[q] = NewPage(X)
      /\ \A q \in Page : Uncollected(q) =>
               Uncollected(q)' /\ segment_vector'[q] = segment_vector[q]
      /\ \A q \in Occupied : /\ q \in Occupied'
                             /\ segment_vector'[q].kind = segment_vector[q].kind
      /\ \A q \in Page : q \in Occupied' => q \in Occupied \/ (Copied(X) /\ q = Y)
      /\ X \in Page => Y \in Page /\ Y \in Occupied' /\ Uncollected(Y)'
      /\ Copied(X) => /\ X \in Page /\ X \in Occupied /\ ~ Uncollected(X)
                      /\ ~ Uncollected(X)'
                      /\ Y \in Holes /\ Y # X
      /\ Retagged(X) => Y = X
      /\ MustMove(X) => segment_vector'[Y] = NewPage(X)
  BY GatherSegments
<1>2. /\ MustMove(X) => /\ X \in Page /\ X \in Occupied /\ ~ Uncollected(X)
                        /\ Copied(X) \/ Retagged(X)
      /\ Copied(X) => MustMove(X)
  BY DEF MustMove, Copied, Retagged
<1>3. Occupied \subseteq Page /\ Occupied' \subseteq Page
  BY DEF Occupied
<1>4. /\ Copied(X) /\ p = Y => m[p][s] = mem[X][s]
      /\ ~ (Copied(X) /\ p = Y) => m[p][s] = mem[p][s]
      /\ ~ (Copied(X) /\ p = X)
  <2>1. CASE Copied(X)
    <3>1. m = [mem EXCEPT ![Y] = mem[X], ![X] = NoWords]
      BY <2>1 DEF MemAfter
    <3>2. X \in Page /\ Y \in Page /\ X # Y
      BY <1>1, <2>1
    <3>3. m[X] = NoWords /\ m[Y] = mem[X] /\ \A q \in Page \ {X, Y} : m[q] = mem[q]
      BY <3>1, <3>2 DEF TypeOK
    <3>4. NoWords[s] \notin Page
      BY WordAssumption DEF NoWords
    <3> QED
      BY <2>1, <3>2, <3>3, <3>4
  <2>2. CASE ~ Copied(X)
    BY <2>2 DEF MemAfter
  <2> QED
    BY <2>1, <2>2
<1>5. \A q \in Holes : ~ Uncollected(q)
  BY DEF HoleInv, Uncollected, TypeOK, Holes
<1>6. /\ NewPage(X).kind = segment_vector[X].kind
      /\ NewPage(X).new
      /\ NewPage(X).gen = next_gen(collect_gen)
  BY DEF NewPage
<1>7. \A q \in Page : Uncollected(q)' =>
                        segment_vector'[q].gen >= next_gen(collect_gen)
  BY LastGenAssumption DEF TypeOK, NewInv, Uncollected, next_gen
<1>8. p \in Occupied' => z \in Occupied'
  <2>1. CASE Copied(X) /\ p = Y
    BY <1>1, <1>4, <2>1 DEF NoDangling
  <2>2. CASE ~ (Copied(X) /\ p = Y)
    BY <1>1, <1>4, <2>2 DEF NoDangling
  <2> QED
    BY <2>1, <2>2
<1>9. CASE p = Y /\ MustMove(X)
  <2>1. m[p][s] = mem[X][s]
    BY <1>1, <1>2, <1>4, <1>9
  <2>2. \/ s \in ScannedSlots(segment_vector[X].kind)
        \/ segment_vector[X].kind = "weak" /\ s = "car"
    BY DEF ScannedSlots
  <2>3. s \in ScannedSlots(segment_vector[X].kind) => <<p, s>> \in QueueAfter(X, Y)
    BY <1>9, <2>1 DEF QueueAfter
  <2>4. segment_vector'[p].new /\ segment_vector'[p].kind = segment_vector[X].kind
    BY <1>1, <1>6, <1>9
  <2>5. segment_vector'[p].gen = next_gen(collect_gen)
    BY <1>1, <1>6, <1>9
  <2>6. Uncollected(z)' => segment_vector'[z].gen >= segment_vector'[p].gen
    BY <1>7, <2>5
  <2> QED
    BY <1>8, <2>2, <2>3, <2>4, <2>6
<1>10. CASE ~ (p = Y /\ MustMove(X))
  <2>1. m[p][s] = mem[p][s] /\ segment_vector'[p] = segment_vector[p]
    BY <1>1, <1>2, <1>4, <1>10
  <2>2. Uncollected(p)' => Uncollected(p) /\ p \in Occupied
    BY <1>5, <2>1 DEF Uncollected, Occupied
  <2>3. new_words \subseteq QueueAfter(X, Y)
    BY DEF QueueAfter
  <2>4. Uncollected(p) => \/ Uncollected(z)
                          \/ <<p, s>> \in dirty_words
                          \/ <<p, s>> \in new_words
                          \/ /\ segment_vector[p].new
                             /\ segment_vector[p].kind = "weak"
                             /\ s = "car"
    BY <2>1 DEF TraceInv, Unscanned
  <2>5. ASSUME Uncollected(p), Uncollected(z)', <<p, s>> \notin dirty_words
        PROVE  \/ segment_vector'[z].gen >= segment_vector'[p].gen
               \/ segment_vector'[z].gen \in dirty_vector[p]
    <3>1. CASE Uncollected(z)
      <4>1. \/ segment_vector[z].gen >= segment_vector[p].gen
            \/ segment_vector[z].gen \in dirty_vector[p]
        BY <2>1, <2>2, <2>5, <3>1, <1>1 DEF CardInv, Settled
      <4> QED
        BY <1>1, <2>1, <3>1, <4>1
    <3>2. CASE ~ Uncollected(z)
      <4>1. segment_vector[p].new
        BY <2>4, <2>5, <3>2 DEF WorkInv
      <4>2. segment_vector'[p].gen = next_gen(collect_gen)
        BY <2>1, <4>1 DEF NewInv
      <4> QED
        BY <1>7, <2>5, <4>2
    <3> QED
      BY <3>1, <3>2
  <2> QED
    BY <1>1, <1>8, <2>1, <2>2, <2>3, <2>4, <2>5
<1> QED
  BY <1>9, <1>10

(* What is to be scanned once X has been gathered.                         *)
LEMMA GatherWork ==
  ASSUME TypeOK, HoleInv, ForwardInv, WorkInv,
         NEW X \in Word, X \in Page => X \in Occupied,
         NEW Y \in Gatherings(X), Gather(X, Y), collect_gen' = collect_gen
  PROVE  /\ \A w \in dirty_words : /\ segment_vector'[w[1]].gen > collect_gen
                                   /\ ~ segment_vector'[w[1]].new
         /\ \A w \in QueueAfter(X, Y) : segment_vector'[w[1]].new
<1>1. /\ \A p \in Page : Uncollected(p) => segment_vector'[p] = segment_vector[p]
      /\ MustMove(X) => segment_vector'[Y] = NewPage(X)
  BY GatherSegments
<1>2. NewPage(X).new
  BY DEF NewPage
<1>3. \A w \in dirty_words : w[1] \in Page /\ Uncollected(w[1])
  BY DEF TypeOK, WorkInv, Uncollected
<1>4. \A w \in new_words : w[1] \in Page /\ Uncollected(w[1])
  BY DEF TypeOK, WorkInv, Uncollected
<1>5. \A w \in dirty_words : /\ segment_vector'[w[1]].gen > collect_gen
                            /\ ~ segment_vector'[w[1]].new
  BY <1>1, <1>3 DEF WorkInv
<1>6. \A w \in new_words : segment_vector'[w[1]].new
  BY <1>1, <1>4 DEF WorkInv
<1>7. \A w \in QueueAfter(X, Y) : w \in new_words \/ (MustMove(X) /\ w[1] = Y)
  BY DEF QueueAfter
<1> QED
  BY <1>1, <1>2, <1>5, <1>6, <1>7

-----------------------------------------------------------------------------
(* The inductive invariant.                                                *)

LEMMA InitIInv == Init => IInv
<1> SUFFICES ASSUME Init PROVE IInv
  OBVIOUS
<1>1. TypeOK
  BY InitTypeOK
<1>2. \A p \in Page : segment_vector[p] = Hole /\ forward[p] = Null
  BY DEF Init
<1>3. Hole.kind = "hole" /\ Hole.gen = 0 /\ ~ Hole.new
  BY DEF Hole
<1>4. Occupied = {}
  BY <1>2, <1>3 DEF Occupied, Holes
<1>5. NoDangling /\ CardInv
  BY <1>4, WordAssumption DEF NoDangling, CardInv, Init
<1>6. HoleInv /\ NewInv /\ ForwardInv
  BY <1>2, <1>3 DEF HoleInv, Holes, NewInv, ForwardInv
<1>7. /\ phase = "mutator"
      /\ dirty_words = {} /\ root_words = {} /\ new_words = {}
  BY DEF Init
<1>8. WorkInv
  BY <1>7 DEF WorkInv
<1>10. TraceInv /\ RootInv
  BY <1>7 DEF TraceInv, RootInv
<1>9. PhaseInv
  BY <1>2, <1>3, <1>7 DEF PhaseInv
<1> QED
  BY <1>1, <1>5, <1>6, <1>8, <1>9, <1>10 DEF IInv

(* While the program runs nothing is forwarded, new or to be scanned, so   *)
(* the references and the remembered set are all there is to preserve.     *)
LEMMA MutatorIInv ==
  ASSUME IInv, TypeOK', MutatorStep
  PROVE  IInv'
<1> USE DEF pageVars, gcVars
<1>1. /\ phase = "mutator" /\ phase' = "mutator"
      /\ dirty_words' = {} /\ root_words' = {} /\ new_words' = {}
      /\ forward' = forward
  <2>1. phase = "mutator" /\ forward' = forward /\ UNCHANGED gcVars
    BY DEF MutatorStep, Allocate, SetSlot, GetSlot, Drop
  <2>2. dirty_words = {} /\ root_words = {} /\ new_words = {}
    BY <2>1 DEF IInv, PhaseInv
  <2> QED
    BY <2>1, <2>2
<1>2. \A p \in Page : ~ segment_vector[p].new /\ forward[p] = Null
  BY <1>1 DEF IInv, PhaseInv
<1>3. Occupied \subseteq Page
  BY DEF Occupied
<1>4. ASSUME NEW r \in Root, NEW k \in Kind, NEW words \in [Slot -> Held],
             Allocate(r, k, words)
      PROVE  /\ NoDangling' /\ CardInv' /\ HoleInv'
             /\ \A p \in Page : ~ segment_vector'[p].new
  <2>1. PICK q \in Placement(Null, Holes) :
          /\ segment_vector' =
               [segment_vector EXCEPT ![q] = [kind |-> k, gen |-> 0, new |-> FALSE]]
          /\ mem' = [mem EXCEPT ![q] = words]
          /\ roots' = [roots EXCEPT ![r] = q]
    BY <1>4 DEF Allocate
  <2>2. q \in Page /\ q \in Holes
    BY <2>1, PlacementAssumption DEF Holes
  <2> DEFINE new == [kind |-> k, gen |-> 0, new |-> FALSE]
  <2>3. new.kind # "hole" /\ new.gen = 0 /\ ~ new.new
    BY KindAssumption
  <2>4. /\ segment_vector'[q] = new
        /\ \A p \in Page \ {q} : /\ segment_vector'[p] = segment_vector[p]
                                 /\ mem'[p] = mem[p]
        /\ mem'[q] = words
    BY <2>1, <2>2 DEF IInv, TypeOK
  <2>5. /\ q \in Occupied'
        /\ \A p \in Page \ {q} : p \in Occupied' <=> p \in Occupied
    BY <2>2, <2>3, <2>4 DEF Occupied, Holes
  <2>6. \A x \in Root : roots[x] \in Page => roots[x] \in Occupied
    BY DEF IInv, NoDangling
  <2>7. \A s \in Slot : words[s] \in Page => words[s] \in Occupied
    BY <2>6, WordAssumption DEF Held
  <2>8. \A p \in Page : p \in Occupied => p \in Occupied' /\ p # q
    BY <2>2, <2>5 DEF Occupied
  <2>9. Occupied' \subseteq Page
    BY DEF Occupied
  <2>10. NoDangling'
    <3>1. ASSUME NEW p \in Occupied', NEW s \in Slot, mem'[p][s] \in Page
          PROVE  mem'[p][s] \in Occupied'
      BY <2>4, <2>5, <2>7, <2>8, <2>9, <3>1 DEF IInv, NoDangling
    <3>2. ASSUME NEW x \in Root, roots'[x] \in Page PROVE roots'[x] \in Occupied'
      BY <2>1, <2>5, <2>6, <2>8, <3>2 DEF IInv, TypeOK
    <3> QED
      BY <3>1, <3>2 DEF NoDangling
  <2>11. CardInv'
    <3> SUFFICES ASSUME NEW p \in Occupied', NEW s \in Slot, mem'[p][s] \in Page
                 PROVE  \/ segment_vector'[mem'[p][s]].gen >= segment_vector'[p].gen
                        \/ segment_vector'[mem'[p][s]].gen \in dirty_vector'[p]
      BY DEF CardInv
    <3>1. CASE p = q
      <4>1. segment_vector'[p].gen = 0
        BY <2>3, <2>4, <3>1
      <4>2. segment_vector'[mem'[p][s]].gen \in Gen
        BY DEF TypeOK
      <4> QED
        BY <4>1, <4>2
    <3>2. CASE p # q
      <4>1. p \in Occupied /\ mem'[p][s] = mem[p][s] /\ mem[p][s] \in Occupied
        BY <2>4, <2>5, <2>9, <3>2 DEF IInv, NoDangling
      <4>2. mem[p][s] # q /\ <<p, s>> \notin dirty_words
        BY <1>1, <2>8, <4>1 DEF IInv, PhaseInv
      <4>3. dirty_vector' = dirty_vector
        BY <1>4 DEF Allocate
      <4>4. \/ segment_vector[mem[p][s]].gen >= segment_vector[p].gen
            \/ segment_vector[mem[p][s]].gen \in dirty_vector[p]
        BY <1>1, <4>1, <4>2 DEF IInv, CardInv, Settled
      <4> QED
        BY <1>3, <2>4, <2>9, <3>2, <4>1, <4>2, <4>3, <4>4
    <3> QED
      BY <3>1, <3>2
  <2>12. HoleInv'
    <3> SUFFICES ASSUME NEW p \in Page, p \in Holes'
                 PROVE  /\ segment_vector'[p].gen = 0
                        /\ ~ segment_vector'[p].new
                        /\ forward'[p] = Null
      BY DEF HoleInv, Holes
    <3>1. p # q /\ p \in Holes
      BY <2>5 DEF Occupied
    <3> QED
      BY <1>1, <2>4, <3>1 DEF IInv, HoleInv
  <2>13. \A p \in Page : ~ segment_vector'[p].new
    BY <1>2, <2>3, <2>4
  <2> QED
    BY <2>10, <2>11, <2>12, <2>13
<1>5. ASSUME NEW r \in Root, NEW s \in Slot, NEW v \in Held, SetSlot(r, s, v)
      PROVE  NoDangling' /\ CardInv' /\ segment_vector' = segment_vector
  <2> DEFINE q == roots[r]
  <2>1. /\ q \in Page /\ q \in Occupied
        /\ mem' = [mem EXCEPT ![q][s] = v]
        /\ dirty_vector' = BarrierAfter(q, v)
        /\ segment_vector' = segment_vector /\ roots' = roots
    BY <1>5 DEF SetSlot, IInv, NoDangling
  <2>2. v \in Page => v \in Occupied
    BY WordAssumption DEF Held, IInv, NoDangling
  <2>3. Occupied' = Occupied
    BY <2>1 DEF Occupied, Holes
  <2>4. \A p \in Page, t \in Slot :
          mem'[p][t] = IF p = q /\ t = s THEN v ELSE mem[p][t]
    BY <2>1 DEF IInv, TypeOK
  <2>5. NoDangling'
    BY <1>3, <2>1, <2>2, <2>3, <2>4 DEF IInv, NoDangling
  <2>6. CardInv'
    <3> SUFFICES ASSUME NEW p \in Occupied, NEW t \in Slot, mem'[p][t] \in Page
                 PROVE  \/ segment_vector[mem'[p][t]].gen >= segment_vector[p].gen
                        \/ segment_vector[mem'[p][t]].gen \in dirty_vector'[p]
      BY <2>1, <2>3 DEF CardInv
    <3>1. \A x \in Page : segment_vector[x].gen \in Gen
      BY DEF IInv, TypeOK
    <3>2. dirty_vector[p] \subseteq dirty_vector'[p]
      BY <1>3, <2>1 DEF BarrierAfter, IK_DIRTY_WORD, IInv, TypeOK
    <3>3. CASE p = q /\ t = s
      <4>1. mem'[p][t] = v /\ v # Immediate
        BY <1>3, <2>4, <3>3, WordAssumption
      <4>2. dirty_vector'[p] = Bits
        BY <2>1, <3>3, <4>1 DEF BarrierAfter, IK_DIRTY_WORD, IInv, TypeOK
      <4> QED
        BY <1>3, <3>1, <4>1, <4>2, LastGenAssumption
    <3>4. CASE ~ (p = q /\ t = s)
      <4>1. mem'[p][t] = mem[p][t] /\ <<p, t>> \notin dirty_words
        BY <1>1, <1>3, <2>4, <3>4 DEF IInv, PhaseInv
      <4>2. \/ segment_vector[mem[p][t]].gen >= segment_vector[p].gen
            \/ segment_vector[mem[p][t]].gen \in dirty_vector[p]
        BY <1>1, <4>1 DEF IInv, CardInv, Settled
      <4> QED
        BY <3>2, <4>1, <4>2
    <3> QED
      BY <3>3, <3>4
  <2> QED
    BY <2>1, <2>5, <2>6
<1>6. ASSUME \/ \E r, x \in Root, s \in Slot : GetSlot(r, s, x)
             \/ \E r \in Root : Drop(r)
      PROVE  NoDangling' /\ CardInv' /\ segment_vector' = segment_vector
  <2>1. /\ segment_vector' = segment_vector /\ mem' = mem
        /\ dirty_vector' = dirty_vector /\ dirty_words' = dirty_words
        /\ Occupied' = Occupied
    BY <1>6 DEF GetSlot, Drop, Occupied, Holes
  <2>2. \A x \in Root : roots'[x] \in Page => roots'[x] \in Occupied
    <3>1. ASSUME NEW r \in Root, NEW x \in Root, NEW s \in Slot, GetSlot(r, s, x)
          PROVE  \A y \in Root : roots'[y] \in Page => roots'[y] \in Occupied
      BY <3>1 DEF GetSlot, IInv, NoDangling, TypeOK
    <3>2. ASSUME NEW r \in Root, Drop(r)
          PROVE  \A y \in Root : roots'[y] \in Page => roots'[y] \in Occupied
      BY <3>2, WordAssumption DEF Drop, IInv, NoDangling, TypeOK
    <3> QED
      BY <1>6, <3>1, <3>2
  <2>3. NoDangling'
    BY <2>1, <2>2 DEF IInv, NoDangling
  <2>4. CardInv'
    BY <1>1, <2>1 DEF IInv, CardInv, Settled
  <2> QED
    BY <2>1, <2>3, <2>4
<1>7. NoDangling' /\ CardInv'
  BY <1>4, <1>5, <1>6 DEF MutatorStep
<1>8. segment_vector' = segment_vector =>
        HoleInv' /\ \A p \in Page : ~ segment_vector'[p].new
  BY <1>1, <1>2 DEF IInv, HoleInv, Holes
<1>9. HoleInv' /\ \A p \in Page : ~ segment_vector'[p].new
  BY <1>4, <1>5, <1>6, <1>8 DEF MutatorStep
<1>10. NewInv' /\ ForwardInv' /\ WorkInv' /\ TraceInv' /\ RootInv' /\ PhaseInv'
  BY <1>1, <1>2, <1>9 DEF NewInv, ForwardInv, WorkInv, TraceInv, RootInv, PhaseInv
<1> QED
  BY <1>7, <1>9, <1>10 DEF IInv

(* The cards outside DirtyPages have no reference to a collected page:     *)
(* DIRTY_MASK covers every generation that is collected.                   *)
LEMMA StartIInv ==
  ASSUME IInv, TypeOK', NEW g \in Gen, StartCollection(g)
  PROVE  IInv'
<1>1. /\ phase = "mutator" /\ phase' = "trace" /\ collect_gen' = g
      /\ segment_vector' = segment_vector /\ forward' = forward
      /\ mem' = mem /\ roots' = roots
      /\ Occupied' = Occupied
  BY DEF StartCollection, pageVars, Occupied, Holes
<1>2. \A p \in Page : ~ segment_vector[p].new /\ forward[p] = Null
  BY <1>1 DEF IInv, PhaseInv
<1>3. Occupied \subseteq Page
  BY DEF Occupied
<1>4. \A p \in Page : segment_vector[p].gen \in Gen
  BY DEF IInv, TypeOK
<1>5. \A p \in Page : Uncollected(p)' <=> segment_vector[p].gen > g
  BY <1>1, <1>2 DEF Uncollected
<1>6. \A p \in Page : segment_vector[p].gen > g => p \in Occupied
  BY DEF IInv, HoleInv, Occupied
<1>7. NoDangling' /\ HoleInv' /\ NewInv' /\ ForwardInv'
  BY <1>1, <1>2 DEF IInv, NoDangling, HoleInv, Holes, NewInv, ForwardInv
<1>8. WorkInv'
  <2>1. \A w \in dirty_words' : w[1] \in DirtyPages(g)
    BY DEF StartCollection
  <2>2. \A p \in DirtyPages(g) : segment_vector[p].gen > g /\ ~ segment_vector[p].new
    BY <1>2, <1>3 DEF DirtyPages
  <2>3. new_words' = {}
    BY DEF StartCollection
  <2> QED
    BY <1>1, <2>1, <2>2, <2>3 DEF WorkInv
<1>9. ASSUME NEW p \in Occupied, NEW s \in Slot, mem[p][s] \in Page,
             <<p, s>> \notin dirty_words', segment_vector[p].gen > g
      PROVE  /\ p \notin DirtyPages(g)
             /\ \/ segment_vector[mem[p][s]].gen >= segment_vector[p].gen
                \/ segment_vector[mem[p][s]].gen \in dirty_vector[p]
             /\ segment_vector[mem[p][s]].gen > g
  <2>1. p \notin DirtyPages(g)
    BY <1>9 DEF StartCollection
  <2>2. dirty_vector[p] \cap DIRTY_MASK(g) = {}
    BY <1>9, <2>1 DEF DirtyPages
  <2>3. \/ segment_vector[mem[p][s]].gen >= segment_vector[p].gen
        \/ segment_vector[mem[p][s]].gen \in dirty_vector[p]
    BY <1>1, <1>9 DEF IInv, CardInv, Settled, PhaseInv
  <2>4. g # LastGen
    BY <1>3, <1>4, <1>9, LastGenAssumption
  <2>5. \A k \in dirty_vector[p] : k \in Nat /\ k > g
    BY <1>3, <2>2, <2>4, LastGenAssumption DEF DIRTY_MASK, IInv, TypeOK
  <2>6. segment_vector[mem[p][s]].gen > g
    BY <1>3, <1>4, <1>9, <2>3, <2>5, LastGenAssumption
  <2> QED
    BY <2>1, <2>3, <2>6
<1>10. TraceInv'
  BY <1>1, <1>5, <1>6, <1>9 DEF TraceInv
<1>11. RootInv'
  BY <1>1 DEF StartCollection, RootInv
<1>12. CardInv'
  <2> SUFFICES ASSUME NEW p \in Occupied, NEW s \in Slot, mem[p][s] \in Page,
                      Uncollected(p)', <<p, s>> \notin dirty_words'
               PROVE  \/ segment_vector[mem[p][s]].gen >= segment_vector[p].gen
                      \/ segment_vector[mem[p][s]].gen \in dirty_vector'[p]
    BY <1>1 DEF CardInv, Settled
  <2>1. segment_vector[p].gen > g
    BY <1>3, <1>5
  <2>2. p \notin LateCards(g)
    BY <1>3, <1>4, <2>1 DEF LateCards
  <2>3. dirty_vector'[p] = dirty_vector[p]
    BY <1>3, <1>9, <2>1, <2>2 DEF StartCollection
  <2> QED
    BY <1>9, <2>1, <2>3
<1>13. PhaseInv'
  BY <1>1 DEF PhaseInv
<1> QED
  BY <1>7, <1>8, <1>10, <1>11, <1>12, <1>13 DEF IInv

(* The three steps that gather a word.                                     *)

(* A scanned card gets back the bit of each younger generation to which    *)
(* its words refer: CLEANUP_MASK keeps the bit that META_DIRTY gives.      *)
LEMMA CardBitsLemma ==
  ASSUME NEW segs \in [Page -> [kind : Kind \cup {"hole"}, gen : Gen, new : BOOLEAN]],
         NEW p \in Page, NEW Y \in Page,
         segs[Y].gen > 0, segs[Y].gen < segs[p].gen
  PROVE  segs[Y].gen \in CardBits(p, Y, segs)
<1>1. segs[Y].gen \in Gen /\ segs[p].gen \in Gen
  OBVIOUS
<1>2. segs[Y].gen \in Bits
  BY <1>1, LastGenAssumption
<1> QED
  BY <1>1, <1>2 DEF CardBits, META_DIRTY, CLEANUP_MASK

LEMMA ScanDirtyIInv ==
  ASSUME IInv, TypeOK', NEW p \in Page, NEW s \in Slot, ScanDirtyWord(p, s)
  PROVE  IInv'
<1>x. PICK X : X = mem[p][s]
  OBVIOUS
<1>1. PICK Y \in Gatherings(X) :
        /\ Gather(X, Y)
        /\ mem' = [MemAfter(X, Y) EXCEPT ![p][s] = Y]
        /\ new_words' = QueueAfter(X, Y)
        /\ dirty_vector' = [dirty_vector EXCEPT
              ![p] = @ \cup CardBits(p, Y, SegmentsAfter(X, Y))]
  BY <1>x DEF ScanDirtyWord
<1>m. PICK m : m = MemAfter(X, Y)
  OBVIOUS
<1>2. /\ phase = "trace" /\ phase' = "trace" /\ <<p, s>> \in dirty_words
      /\ dirty_words' = dirty_words \ {<<p, s>>}
      /\ roots' = roots /\ collect_gen' = collect_gen /\ root_words' = root_words
  BY DEF ScanDirtyWord
<1>3. segment_vector[p].gen > collect_gen /\ Uncollected(p)
  BY <1>2 DEF IInv, WorkInv, Uncollected
<1>4. p \in Occupied
  BY <1>3 DEF IInv, HoleInv, TypeOK, Occupied, Uncollected
<1>5. X \in Word /\ (X \in Page => X \in Occupied)
  BY <1>x, <1>4 DEF IInv, TypeOK, NoDangling
<1>6. HoleInv' /\ NewInv' /\ ForwardInv'
  BY <1>1, <1>2, <1>5, GatherPages DEF IInv
<1>7. /\ \A q \in Page : Uncollected(q) =>
               Uncollected(q)' /\ segment_vector'[q] = segment_vector[q]
      /\ \A q \in Occupied : q \in Occupied'
      /\ X \in Page => Y \in Page /\ Y \in Occupied' /\ Uncollected(Y)'
      /\ X \notin Page => Y = X
  BY <1>1, <1>2, <1>5, GatherSegments DEF IInv
<1>8. m \in [Page -> [Slot -> Word]]
  BY <1>1, <1>m, <1>5, GatherTypes DEF IInv
<1>9. /\ mem'[p][s] = Y
      /\ \A q \in Page, t \in Slot : <<q, t>> # <<p, s>> => mem'[q][t] = m[q][t]
  BY <1>1, <1>m, <1>8
<1>10. \A q \in Page, t \in Slot : m[q][t] \in Page =>
         /\ q \in Occupied' => m[q][t] \in Occupied'
         /\ Uncollected(q)' => \/ Uncollected(m[q][t])'
                               \/ <<q, t>> \in dirty_words \cup QueueAfter(X, Y)
                               \/ /\ segment_vector'[q].new
                                  /\ segment_vector'[q].kind = "weak"
                                  /\ t = "car"
         /\ /\ Uncollected(q)' /\ Uncollected(m[q][t])'
            /\ <<q, t>> \notin dirty_words
            => \/ segment_vector'[m[q][t]].gen >= segment_vector'[q].gen
               \/ segment_vector'[m[q][t]].gen \in dirty_vector[q]
  BY <1>1, <1>m, <1>2, <1>5, <1>6, GatherMemory DEF IInv
<1>11. Occupied' \subseteq Page
  BY DEF Occupied
<1>12. NoDangling'
  <2>1. ASSUME NEW q \in Occupied', NEW t \in Slot, mem'[q][t] \in Page
        PROVE  mem'[q][t] \in Occupied'
    <3>1. CASE <<q, t>> = <<p, s>>
      BY <1>7, <1>9, <2>1, <3>1
    <3>2. CASE <<q, t>> # <<p, s>>
      BY <1>9, <1>10, <1>11, <2>1, <3>2
    <3> QED
      BY <3>1, <3>2
  <2>2. \A r \in Root : roots'[r] \in Page => roots'[r] \in Occupied'
    BY <1>2, <1>7 DEF IInv, NoDangling
  <2> QED
    BY <2>1, <2>2 DEF NoDangling
<1>13. WorkInv'
  BY <1>1, <1>2, <1>5, GatherWork DEF IInv, WorkInv
<1>14. TraceInv'
  <2> SUFFICES ASSUME NEW q \in Page, NEW t \in Slot, Uncollected(q)',
                      mem'[q][t] \in Page
               PROVE  \/ Uncollected(mem[q][t])'
                      \/ <<q, t>> \in dirty_words' \cup new_words'
                      \/ Unscanned(q, t)'
    BY DEF TraceInv
  <2>1. CASE <<q, t>> = <<p, s>>
    BY <1>7, <1>9, <2>1 DEF Uncollected
  <2>2. CASE <<q, t>> # <<p, s>>
    <3>1. mem'[q][t] = m[q][t]
      BY <1>9, <2>2
    <3>2. \/ Uncollected(mem[q][t])'
          \/ <<q, t>> \in dirty_words \cup QueueAfter(X, Y)
          \/ /\ segment_vector'[q].new
             /\ segment_vector'[q].kind = "weak"
             /\ t = "car"
      BY <1>10, <3>1 DEF Uncollected
    <3> QED
      BY <1>1, <1>2, <2>2, <3>2 DEF Unscanned
  <2> QED
    BY <2>1, <2>2
<1>15. RootInv'
  BY <1>2, <1>7 DEF IInv, RootInv, TypeOK
<1>16. CardInv'
  <2> SUFFICES ASSUME NEW q \in Occupied', NEW t \in Slot,
                      mem'[q][t] \in Page,
                      Uncollected(q)', Uncollected(mem[q][t])',
                      <<q, t>> \notin dirty_words'
               PROVE  \/ segment_vector'[mem'[q][t]].gen >= segment_vector'[q].gen
                      \/ segment_vector'[mem'[q][t]].gen \in dirty_vector'[q]
    BY <1>2 DEF CardInv, Settled
  <2>1. dirty_vector[q] \subseteq dirty_vector'[q]
    BY <1>1, <1>11 DEF IInv, TypeOK
  <2>2. CASE <<q, t>> = <<p, s>>
    <3>1. /\ Y \in Page /\ Uncollected(Y)'
          /\ segment_vector'[p] = segment_vector[p]
          /\ mem'[q][t] = Y /\ q = p
      BY <1>3, <1>7, <1>9, <2>2
    <3>2. /\ segment_vector'[Y].gen \in Gen /\ segment_vector'[Y].gen > 0
          /\ segment_vector'[p].gen \in Gen
      <4>1. segment_vector'[Y].gen \in Gen /\ segment_vector'[p].gen \in Gen
        BY <3>1 DEF TypeOK
      <4>2. collect_gen' \in Gen
        BY DEF TypeOK
      <4>3. \/ segment_vector'[Y].gen > collect_gen'
            \/ segment_vector'[Y].gen = next_gen(collect_gen)'
        BY <1>6, <3>1 DEF Uncollected, NewInv
      <4> QED
        BY <4>1, <4>2, <4>3, LastGenAssumption DEF next_gen
    <3>3. segment_vector' = SegmentsAfter(X, Y)
      BY <1>1 DEF Gather
    <3>4. segment_vector'[Y].gen < segment_vector'[p].gen =>
            segment_vector'[Y].gen \in CardBits(p, Y, SegmentsAfter(X, Y))
      <4>1. segment_vector' \in [Page -> [kind : Kind \cup {"hole"}, gen : Gen, new : BOOLEAN]]
        BY DEF TypeOK
      <4> QED
        BY <3>1, <3>2, <3>3, <4>1, CardBitsLemma
    <3>5. CardBits(p, Y, SegmentsAfter(X, Y)) \subseteq dirty_vector'[p]
      BY <1>1 DEF IInv, TypeOK
    <3> QED
      BY <3>1, <3>2, <3>4, <3>5
  <2>3. CASE <<q, t>> # <<p, s>>
    <3>1. mem'[q][t] = m[q][t] /\ <<q, t>> \notin dirty_words
      BY <1>2, <1>9, <1>11, <2>3
    <3>2. \/ segment_vector'[m[q][t]].gen >= segment_vector'[q].gen
          \/ segment_vector'[m[q][t]].gen \in dirty_vector[q]
      BY <1>10, <1>11, <3>1 DEF Uncollected
    <3> QED
      BY <2>1, <3>1, <3>2
  <2> QED
    BY <2>2, <2>3
<1>17. PhaseInv'
  BY <1>2 DEF PhaseInv
<1> QED
  BY <1>6, <1>12, <1>13, <1>14, <1>15, <1>16, <1>17 DEF IInv

LEMMA GatherRootIInv ==
  ASSUME IInv, TypeOK', NEW r \in Root, GatherRoot(r)
  PROVE  IInv'
<1>x. PICK X : X = roots[r]
  OBVIOUS
<1>1. PICK Y \in Gatherings(X) :
        /\ Gather(X, Y)
        /\ mem' = MemAfter(X, Y)
        /\ new_words' = QueueAfter(X, Y)
        /\ roots' = [roots EXCEPT ![r] = Y]
  BY <1>x DEF GatherRoot
<1>m. PICK m : m = mem'
  OBVIOUS
<1>2. /\ phase = "trace" /\ phase' = "trace"
      /\ dirty_words' = dirty_words /\ dirty_vector' = dirty_vector
      /\ collect_gen' = collect_gen /\ root_words' = root_words \ {r}
  BY DEF GatherRoot
<1>5. X \in Word /\ (X \in Page => X \in Occupied)
  BY <1>x DEF IInv, TypeOK, NoDangling
<1>6. HoleInv' /\ NewInv' /\ ForwardInv'
  BY <1>1, <1>2, <1>5, GatherPages DEF IInv
<1>7. /\ \A q \in Page : Uncollected(q) =>
               Uncollected(q)' /\ segment_vector'[q] = segment_vector[q]
      /\ \A q \in Occupied : q \in Occupied'
      /\ X \in Page => Y \in Page /\ Y \in Occupied' /\ Uncollected(Y)'
      /\ X \notin Page => Y = X
  BY <1>1, <1>2, <1>5, GatherSegments DEF IInv
<1>10. \A q \in Page, t \in Slot : m[q][t] \in Page =>
         /\ q \in Occupied' => m[q][t] \in Occupied'
         /\ Uncollected(q)' => \/ Uncollected(m[q][t])'
                               \/ <<q, t>> \in dirty_words \cup QueueAfter(X, Y)
                               \/ /\ segment_vector'[q].new
                                  /\ segment_vector'[q].kind = "weak"
                                  /\ t = "car"
         /\ /\ Uncollected(q)' /\ Uncollected(m[q][t])'
            /\ <<q, t>> \notin dirty_words
            => \/ segment_vector'[m[q][t]].gen >= segment_vector'[q].gen
               \/ segment_vector'[m[q][t]].gen \in dirty_vector[q]
  BY <1>1, <1>m, <1>2, <1>5, <1>6, GatherMemory DEF IInv
<1>11. Occupied' \subseteq Page
  BY DEF Occupied
<1>12. NoDangling'
  <2>1. \A q \in Occupied', t \in Slot : mem'[q][t] \in Page => mem'[q][t] \in Occupied'
    BY <1>m, <1>10, <1>11
  <2>2. \A x \in Root : roots'[x] \in Page => roots'[x] \in Occupied'
    BY <1>1, <1>7 DEF IInv, NoDangling, TypeOK
  <2> QED
    BY <2>1, <2>2 DEF NoDangling
<1>13. WorkInv'
  BY <1>1, <1>2, <1>5, GatherWork DEF IInv, WorkInv
<1>14. TraceInv'
  BY <1>1, <1>m, <1>2, <1>10 DEF TraceInv, Unscanned, Uncollected
<1>15. RootInv'
  <2> SUFFICES ASSUME NEW x \in Root, roots'[x] \in Page
               PROVE  Uncollected(roots[x])' \/ x \in root_words'
    BY DEF RootInv
  <2>1. CASE x = r
    BY <1>1, <1>7, <2>1 DEF Uncollected, IInv, TypeOK
  <2>2. CASE x # r
    <3>1. roots'[x] = roots[x]
      BY <1>1, <2>2 DEF IInv, TypeOK
    <3>2. Uncollected(roots[x]) \/ x \in root_words
      BY <1>2, <3>1 DEF IInv, RootInv
    <3> QED
      BY <1>2, <1>7, <2>2, <3>1, <3>2 DEF Uncollected
  <2> QED
    BY <2>1, <2>2
<1>16. CardInv'
  BY <1>m, <1>2, <1>10, <1>11 DEF CardInv, Settled, Uncollected
<1>17. PhaseInv'
  BY <1>2 DEF PhaseInv
<1> QED
  BY <1>6, <1>12, <1>13, <1>14, <1>15, <1>16, <1>17 DEF IInv

LEMMA ScanNewIInv ==
  ASSUME IInv, TypeOK', NEW p \in Page, NEW s \in Slot, ScanNewWord(p, s)
  PROVE  IInv'
<1>x. PICK X : X = mem[p][s]
  OBVIOUS
<1>1. PICK Y \in Gatherings(X) :
        /\ Gather(X, Y)
        /\ mem' = [MemAfter(X, Y) EXCEPT ![p][s] = Y]
        /\ new_words' = QueueAfter(X, Y) \ {<<p, s>>}
  BY <1>x DEF ScanNewWord
<1>m. PICK m : m = MemAfter(X, Y)
  OBVIOUS
<1>2. /\ phase = "trace" /\ phase' = "trace" /\ <<p, s>> \in new_words
      /\ dirty_words' = dirty_words /\ dirty_vector' = dirty_vector
      /\ roots' = roots /\ collect_gen' = collect_gen /\ root_words' = root_words
  BY DEF ScanNewWord
<1>3. /\ segment_vector[p].new /\ Uncollected(p)
      /\ segment_vector[p].gen = next_gen(collect_gen)
  BY <1>2 DEF IInv, WorkInv, NewInv, Uncollected
<1>4. p \in Occupied
  BY <1>3 DEF IInv, HoleInv, Occupied
<1>5. X \in Word /\ (X \in Page => X \in Occupied)
  BY <1>x, <1>4 DEF IInv, TypeOK, NoDangling
<1>6. HoleInv' /\ NewInv' /\ ForwardInv'
  BY <1>1, <1>2, <1>5, GatherPages DEF IInv
<1>7. /\ \A q \in Page : Uncollected(q) =>
               Uncollected(q)' /\ segment_vector'[q] = segment_vector[q]
      /\ \A q \in Occupied : q \in Occupied'
      /\ X \in Page => Y \in Page /\ Y \in Occupied' /\ Uncollected(Y)'
      /\ X \notin Page => Y = X
  BY <1>1, <1>2, <1>5, GatherSegments DEF IInv
<1>8. m \in [Page -> [Slot -> Word]]
  BY <1>1, <1>m, <1>5, GatherTypes DEF IInv
<1>9. /\ mem'[p][s] = Y
      /\ \A q \in Page, t \in Slot : <<q, t>> # <<p, s>> => mem'[q][t] = m[q][t]
  BY <1>1, <1>m, <1>8
<1>10. \A q \in Page, t \in Slot : m[q][t] \in Page =>
         /\ q \in Occupied' => m[q][t] \in Occupied'
         /\ Uncollected(q)' => \/ Uncollected(m[q][t])'
                               \/ <<q, t>> \in dirty_words \cup QueueAfter(X, Y)
                               \/ /\ segment_vector'[q].new
                                  /\ segment_vector'[q].kind = "weak"
                                  /\ t = "car"
         /\ /\ Uncollected(q)' /\ Uncollected(m[q][t])'
            /\ <<q, t>> \notin dirty_words
            => \/ segment_vector'[m[q][t]].gen >= segment_vector'[q].gen
               \/ segment_vector'[m[q][t]].gen \in dirty_vector[q]
  BY <1>1, <1>m, <1>2, <1>5, <1>6, GatherMemory DEF IInv
<1>11. Occupied' \subseteq Page
  BY DEF Occupied
<1>12. NoDangling'
  <2>1. ASSUME NEW q \in Occupied', NEW t \in Slot, mem'[q][t] \in Page
        PROVE  mem'[q][t] \in Occupied'
    <3>1. CASE <<q, t>> = <<p, s>>
      BY <1>7, <1>9, <2>1, <3>1
    <3>2. CASE <<q, t>> # <<p, s>>
      BY <1>9, <1>10, <1>11, <2>1, <3>2
    <3> QED
      BY <3>1, <3>2
  <2>2. \A r \in Root : roots'[r] \in Page => roots'[r] \in Occupied'
    BY <1>2, <1>7 DEF IInv, NoDangling
  <2> QED
    BY <2>1, <2>2 DEF NoDangling
<1>13. WorkInv'
  BY <1>1, <1>2, <1>5, GatherWork DEF IInv, WorkInv
<1>14. TraceInv'
  <2> SUFFICES ASSUME NEW q \in Page, NEW t \in Slot, Uncollected(q)',
                      mem'[q][t] \in Page
               PROVE  \/ Uncollected(mem[q][t])'
                      \/ <<q, t>> \in dirty_words' \cup new_words'
                      \/ Unscanned(q, t)'
    BY DEF TraceInv
  <2>1. CASE <<q, t>> = <<p, s>>
    BY <1>7, <1>9, <2>1 DEF Uncollected
  <2>2. CASE <<q, t>> # <<p, s>>
    <3>1. mem'[q][t] = m[q][t]
      BY <1>9, <2>2
    <3>2. \/ Uncollected(mem[q][t])'
          \/ <<q, t>> \in dirty_words \cup QueueAfter(X, Y)
          \/ /\ segment_vector'[q].new
             /\ segment_vector'[q].kind = "weak"
             /\ t = "car"
      BY <1>10, <3>1 DEF Uncollected
    <3> QED
      BY <1>1, <1>2, <2>2, <3>2 DEF Unscanned
  <2> QED
    BY <2>1, <2>2
<1>15. RootInv'
  BY <1>2, <1>7 DEF IInv, RootInv, TypeOK
<1>16. CardInv'
  <2> SUFFICES ASSUME NEW q \in Occupied', NEW t \in Slot,
                      mem'[q][t] \in Page,
                      Uncollected(q)', Uncollected(mem[q][t])',
                      <<q, t>> \notin dirty_words
               PROVE  \/ segment_vector'[mem'[q][t]].gen >= segment_vector'[q].gen
                      \/ segment_vector'[mem'[q][t]].gen \in dirty_vector[q]
    BY <1>2 DEF CardInv, Settled
  <2>1. CASE <<q, t>> = <<p, s>>
    <3>1. /\ Y \in Page /\ Uncollected(Y)'
          /\ segment_vector'[p] = segment_vector[p]
          /\ mem'[q][t] = Y /\ q = p
      BY <1>3, <1>7, <1>9, <2>1
    <3>2. segment_vector'[Y].gen >= next_gen(collect_gen)
      BY <1>2, <1>6, <3>1, LastGenAssumption
         DEF TypeOK, NewInv, Uncollected, next_gen
    <3> QED
      BY <1>3, <3>1, <3>2
  <2>2. CASE <<q, t>> # <<p, s>>
    BY <1>9, <1>10, <1>11, <2>2 DEF Uncollected
  <2> QED
    BY <2>1, <2>2
<1>17. PhaseInv'
  BY <1>2 DEF PhaseInv
<1> QED
  BY <1>6, <1>12, <1>13, <1>14, <1>15, <1>16, <1>17 DEF IInv

-----------------------------------------------------------------------------
(* The steps after the trace: what a kept page still holds of the          *)
(* collected generations is the cars of weak pairs, and they are fixed     *)
(* before the collected pages are unmapped.                                *)

LEMMA FixWeakIInv ==
  ASSUME IInv, TypeOK', fix_weak_pointers
  PROVE  IInv'
<1>1. /\ phase = "trace" /\ phase' = "unmap"
      /\ dirty_words = {} /\ root_words = {} /\ new_words = {}
      /\ dirty_words' = {} /\ root_words' = {} /\ new_words' = {}
      /\ segment_vector' = segment_vector /\ forward' = forward
      /\ dirty_vector' = dirty_vector /\ roots' = roots /\ collect_gen' = collect_gen
      /\ Occupied' = Occupied
  BY DEF fix_weak_pointers, pageVars, Occupied, Holes
<1>2. \A p \in Page : Uncollected(p)' <=> Uncollected(p)
  BY <1>1 DEF Uncollected
<1>3. \A p \in Page : Uncollected(p) => p \in Occupied
  BY DEF IInv, HoleInv, TypeOK, Occupied, Uncollected
<1>4. Occupied \subseteq Page
  BY DEF Occupied
<1> DEFINE Fixed(p, s) == /\ segment_vector[p].kind = "weak"
                          /\ segment_vector[p].new
                          /\ s = "car"
<1>5. \A p \in Page, s \in Slot :
        mem'[p][s] = IF Fixed(p, s) THEN FixedCar(mem[p][s]) ELSE mem[p][s]
  BY DEF fix_weak_pointers, IInv, TypeOK
<1>6. \A X \in Word : FixedCar(X) \in Page =>
                         FixedCar(X) \in Occupied /\ Uncollected(FixedCar(X))
  BY <1>3, WordAssumption DEF FixedCar, IInv, ForwardInv, TypeOK
<1>7. \A p \in Page, s \in Slot : mem[p][s] \in Word
  BY DEF IInv, TypeOK
<1>8. ASSUME NEW p \in Page, NEW s \in Slot, mem'[p][s] \in Page
      PROVE  \/ /\ Fixed(p, s)
                /\ mem'[p][s] \in Occupied
                /\ \A z \in Page : z = mem'[p][s] => Uncollected(z)
             \/ ~ Fixed(p, s) /\ mem'[p][s] = mem[p][s]
  BY <1>5, <1>6, <1>7, <1>8
<1>9. NoDangling'
  BY <1>1, <1>4, <1>8 DEF IInv, NoDangling
<1>10. HoleInv' /\ NewInv' /\ ForwardInv' /\ WorkInv' /\ PhaseInv'
  <2>1. HoleInv'
    BY <1>1 DEF IInv, HoleInv, Holes
  <2>2. NewInv'
    BY <1>1 DEF IInv, NewInv, next_gen
  <2>3. ForwardInv'
    BY <1>1 DEF IInv, ForwardInv, Uncollected
  <2>4. WorkInv'
    BY <1>1 DEF WorkInv
  <2>5. PhaseInv'
    BY <1>1 DEF PhaseInv
  <2> QED
    BY <2>1, <2>2, <2>3, <2>4, <2>5
<1>11. RootInv'
  BY <1>1, <1>2 DEF IInv, RootInv
<1>12. TraceInv'
  <2> SUFFICES ASSUME NEW p \in Page, NEW s \in Slot, Uncollected(p),
                      mem'[p][s] \in Page
               PROVE  \A z \in Page : z = mem'[p][s] => Uncollected(z)
    BY <1>2 DEF TraceInv, Uncollected
  <2>1. CASE Fixed(p, s)
    BY <1>8, <2>1
  <2>2. CASE ~ Fixed(p, s)
    BY <1>1, <1>8, <2>2 DEF IInv, TraceInv, Unscanned
  <2> QED
    BY <2>1, <2>2
<1>13. CardInv'
  <2> SUFFICES ASSUME NEW p \in Occupied, NEW s \in Slot, mem'[p][s] \in Page,
                      Uncollected(p), Uncollected(mem'[p][s])
               PROVE  \/ segment_vector[mem'[p][s]].gen >= segment_vector[p].gen
                      \/ segment_vector[mem'[p][s]].gen \in dirty_vector[p]
    BY <1>1 DEF CardInv, Settled, Uncollected
  <2>1. CASE Fixed(p, s)
    <3>1. segment_vector[p].gen = next_gen(collect_gen)
      BY <1>4, <2>1 DEF IInv, NewInv
    <3>2. segment_vector[mem'[p][s]].gen >= next_gen(collect_gen)
      BY KeptIsOlder DEF IInv
    <3> QED
      BY <3>1, <3>2
  <2>2. CASE ~ Fixed(p, s)
    BY <1>1, <1>4, <1>8, <2>2 DEF IInv, CardInv, Settled
  <2> QED
    BY <2>1, <2>2
<1> QED
  BY <1>9, <1>10, <1>11, <1>12, <1>13 DEF IInv

LEMMA DeallocateIInv ==
  ASSUME IInv, TypeOK', deallocate_unused_pages
  PROVE  IInv'
<1>1. /\ phase = "unmap" /\ phase' = "untag"
      /\ dirty_words = {} /\ root_words = {} /\ new_words = {}
      /\ dirty_words' = {} /\ root_words' = {} /\ new_words' = {}
      /\ roots' = roots /\ collect_gen' = collect_gen
  BY DEF deallocate_unused_pages, IInv, PhaseInv
<1>2. \A p \in Page : p \in Unused =>
        segment_vector'[p] = Hole /\ mem'[p] = NoWords /\ forward'[p] = Null
  BY DEF deallocate_unused_pages
<1>3. \A p \in Page : p \notin Unused =>
        /\ segment_vector'[p] = segment_vector[p] /\ mem'[p] = mem[p]
        /\ forward'[p] = forward[p] /\ dirty_vector'[p] = dirty_vector[p]
  BY DEF deallocate_unused_pages
<1>4. Hole.kind = "hole" /\ Hole.gen = 0 /\ ~ Hole.new
  BY DEF Hole
<1>5. \A p \in Page : p \in Occupied' <=> p \in Occupied /\ p \notin Unused
  BY <1>2, <1>3, <1>4 DEF Occupied, Holes
<1>6. \A p \in Page : Uncollected(p) => p \in Occupied /\ p \notin Unused
  BY DEF IInv, HoleInv, TypeOK, Occupied, Uncollected, Unused
<1>7. \A p \in Page : p \in Occupied' => Uncollected(p)
  BY <1>5 DEF Unused
<1>8. \A p \in Page : Uncollected(p)' <=> Uncollected(p)
  BY <1>1, <1>2, <1>3, <1>4, <1>6 DEF Uncollected, IInv, TypeOK
<1>9. Occupied' \subseteq Page /\ Occupied \subseteq Page
  BY DEF Occupied
<1>10. \A p \in Page, s \in Slot : p \in Occupied' /\ mem'[p][s] \in Page =>
         /\ mem'[p][s] = mem[p][s]
         /\ Uncollected(mem[p][s])
  BY <1>1, <1>3, <1>5, <1>7 DEF IInv, TraceInv, Unscanned
<1>11. NoDangling'
  <2>1. ASSUME NEW p \in Occupied', NEW s \in Slot, mem'[p][s] \in Page
        PROVE  mem'[p][s] \in Occupied'
    BY <1>5, <1>6, <1>9, <1>10, <2>1
  <2>2. ASSUME NEW r \in Root, roots'[r] \in Page PROVE roots'[r] \in Occupied'
    BY <1>1, <1>5, <1>6, <2>2 DEF IInv, RootInv
  <2> QED
    BY <2>1, <2>2 DEF NoDangling
<1>12. HoleInv'
  <2> SUFFICES ASSUME NEW p \in Page, p \in Holes'
               PROVE  /\ segment_vector'[p].gen = 0
                      /\ ~ segment_vector'[p].new
                      /\ forward'[p] = Null
    BY DEF HoleInv, Holes
  <2>1. p \notin Occupied'
    BY DEF Occupied
  <2>2. CASE p \in Unused
    BY <1>2, <1>4, <2>2
  <2>3. CASE p \notin Unused
    <3>1. p \in Holes
      BY <1>5, <2>1, <2>3 DEF Occupied
    <3> QED
      BY <1>3, <2>3, <3>1 DEF IInv, HoleInv
  <2> QED
    BY <2>2, <2>3
<1>13. NewInv'
  <2>1. \A p \in Page : segment_vector'[p].new =>
                           segment_vector'[p].gen = next_gen(collect_gen)
    BY <1>2, <1>3, <1>4 DEF IInv, NewInv
  <2> QED
    BY <1>1, <2>1 DEF NewInv, next_gen
<1>14. \A p \in Page : forward'[p] = Null
  BY <1>2, <1>3 DEF IInv, ForwardInv, Unused
<1>15. ForwardInv' /\ WorkInv'
  BY <1>1, <1>14 DEF ForwardInv, WorkInv
<1>16. TraceInv'
  <2> SUFFICES ASSUME NEW p \in Page, NEW s \in Slot, Uncollected(p)',
                      mem'[p][s] \in Page
               PROVE  Uncollected(mem[p][s])'
    BY DEF TraceInv
  <2>1. mem'[p][s] = mem[p][s] /\ Uncollected(mem[p][s])
    BY <1>5, <1>6, <1>8, <1>10
  <2>2. \A z \in Page : z = mem'[p][s] => Uncollected(z)'
    BY <1>8, <2>1
  <2> QED
    BY <2>2 DEF Uncollected
<1>17. RootInv'
  BY <1>1, <1>8 DEF IInv, RootInv
<1>18. CardInv'
  <2> SUFFICES ASSUME NEW p \in Occupied', NEW s \in Slot, mem'[p][s] \in Page
               PROVE  \/ segment_vector'[mem'[p][s]].gen >= segment_vector'[p].gen
                      \/ segment_vector'[mem'[p][s]].gen \in dirty_vector'[p]
    BY DEF CardInv
  <2>1. mem'[p][s] = mem[p][s] /\ Uncollected(p) /\ Uncollected(mem[p][s])
    BY <1>7, <1>9, <1>10
  <2>2. /\ segment_vector'[p] = segment_vector[p]
        /\ dirty_vector'[p] = dirty_vector[p]
        /\ segment_vector'[mem[p][s]] = segment_vector[mem[p][s]]
    BY <1>3, <1>6, <1>9, <2>1
  <2>3. \/ segment_vector[mem[p][s]].gen >= segment_vector[p].gen
        \/ segment_vector[mem[p][s]].gen \in dirty_vector[p]
    BY <1>1, <1>6, <1>9, <2>1 DEF IInv, CardInv, Settled
  <2> QED
    BY <2>1, <2>2, <2>3
<1>19. PhaseInv'
  BY <1>1, <1>7, <1>8, <1>9, <1>14 DEF PhaseInv
<1> QED
  BY <1>11, <1>12, <1>13, <1>15, <1>16, <1>17, <1>18, <1>19 DEF IInv

LEMMA FixNewIInv ==
  ASSUME IInv, TypeOK', fix_new_pages
  PROVE  IInv'
<1>1. /\ phase = "untag" /\ phase' = "mutator"
      /\ dirty_words' = {} /\ root_words' = {} /\ new_words' = {}
      /\ mem' = mem /\ forward' = forward /\ roots' = roots
      /\ dirty_vector' = dirty_vector
      /\ \A p \in Page : forward[p] = Null
      /\ \A p \in Occupied : Uncollected(p)
  BY DEF fix_new_pages, IInv, PhaseInv
<1>2. \A p \in Page : /\ segment_vector'[p].kind = segment_vector[p].kind
                      /\ segment_vector'[p].gen = segment_vector[p].gen
                      /\ ~ segment_vector'[p].new
  BY DEF fix_new_pages, IInv, TypeOK
<1>3. Holes' = Holes /\ Occupied' = Occupied
  BY <1>2 DEF Holes, Occupied
<1>4. Occupied \subseteq Page
  BY DEF Occupied
<1>5. NoDangling'
  BY <1>1, <1>3 DEF IInv, NoDangling
<1>6. HoleInv'
  BY <1>1, <1>2, <1>3 DEF IInv, HoleInv, Holes
<1>7. NewInv' /\ ForwardInv' /\ WorkInv' /\ TraceInv' /\ RootInv' /\ PhaseInv'
  BY <1>1, <1>2 DEF NewInv, ForwardInv, WorkInv, TraceInv, RootInv, PhaseInv
<1>8. CardInv'
  <2> SUFFICES ASSUME NEW p \in Occupied, NEW s \in Slot, mem[p][s] \in Page
               PROVE  \/ segment_vector'[mem[p][s]].gen >= segment_vector'[p].gen
                      \/ segment_vector'[mem[p][s]].gen \in dirty_vector[p]
    BY <1>1, <1>3 DEF CardInv
  <2>1. mem[p][s] \in Occupied /\ <<p, s>> \notin dirty_words
    BY <1>1 DEF IInv, NoDangling, PhaseInv
  <2>2. Uncollected(p) /\ Uncollected(mem[p][s])
    BY <1>1, <2>1
  <2> QED
    BY <1>2, <1>4, <2>1, <2>2 DEF IInv, CardInv, Settled
<1> QED
  BY <1>5, <1>6, <1>7, <1>8 DEF IInv

-----------------------------------------------------------------------------

LEMMA NextIInv == IInv /\ [Next]_vars => IInv'
<1> SUFFICES ASSUME IInv, [Next]_vars PROVE IInv'
  OBVIOUS
<1>1. TypeOK'
  BY NextTypeOK DEF IInv
<1>2. CASE MutatorStep
  BY <1>1, <1>2, MutatorIInv
<1>3. ASSUME NEW g \in Gen, StartCollection(g) PROVE IInv'
  BY <1>1, <1>3, StartIInv
<1>4. CASE CollectorStep
  BY <1>1, <1>4, ScanDirtyIInv, GatherRootIInv, ScanNewIInv, FixWeakIInv,
     DeallocateIInv, FixNewIInv DEF CollectorStep
<1>5. CASE UNCHANGED vars
  BY <1>5 DEF vars, pageVars, gcVars, IInv, TypeOK, NoDangling, Occupied, Holes,
     HoleInv, NewInv, ForwardInv, WorkInv, TraceInv, Unscanned, RootInv, CardInv,
     Settled, PhaseInv, Uncollected, next_gen
<1> QED
  BY <1>2, <1>3, <1>4, <1>5 DEF Next

(* The inductive invariant holds at every step of every collection.        *)
THEOREM Invariance == Spec => []IInv
<1>1. Init => IInv
  BY InitIInv
<1>2. IInv /\ [Next]_vars => IInv'
  BY NextIInv
<1> QED
  BY <1>1, <1>2, PTL DEF Spec

(* The collector unmaps no page that anything still refers to, whatever    *)
(* the number of generations and wherever it moves the objects.            *)
THEOREM NothingDangles == Spec => []NoDangling
<1>1. IInv => NoDangling
  BY DEF IInv
<1> QED
  BY <1>1, Invariance, PTL

(* The write barrier and the collector keep the remembered set: while the  *)
(* program runs, a clean card has no reference to a younger generation.    *)
THEOREM CleanCardsAreClean == Spec => []RememberedSet
<1>1. IInv => RememberedSet
  <2> SUFFICES ASSUME IInv, phase = "mutator" PROVE RememberedSet
    BY DEF RememberedSet
  <2>1. dirty_words = {}
    BY DEF IInv, PhaseInv
  <2> QED
    BY <2>1 DEF IInv, CardInv, Settled, RememberedSet
<1> QED
  BY <1>1, Invariance, PTL

-----------------------------------------------------------------------------
(* What a collection of the oldest generation keeps.                       *)

\* Its kept pages are those that it filled or retagged, and there are no
\* dirty words of older pages.
LEMMA KeptAreNew ==
  ASSUME IInv, collect_gen = LastGen
  PROVE  /\ \A p \in Page : Uncollected(p) <=> p \in NewPages
         /\ dirty_words = {}
         /\ NewPages \subseteq Page
<1>1. \A p \in Page : segment_vector[p].gen \in 0 .. LastGen
  BY DEF IInv, TypeOK, Gen
<1>a. \A n \in 0 .. LastGen : ~ (n > LastGen)
  BY LastGenAssumption
<1>2. \A p \in Page : ~ (segment_vector[p].gen > LastGen)
  BY <1>1, <1>a
<1>3. \A w \in dirty_words : w[1] \in Page /\ segment_vector[w[1]].gen > LastGen
  BY DEF IInv, TypeOK, WorkInv
<1>4. dirty_words = {}
  BY <1>2, <1>3
<1> QED
  BY <1>2, <1>4 DEF Uncollected, NewPages

\* A set that has what is gathered from the roots, and is closed in the pages
\* that are kept so far, has them all.
LEMMA LeadsToAll ==
  ASSUME IInv, PreciseInv, phase # "mutator", collect_gen = LastGen, NEW S,
         \A r \in Root \ root_words : roots[r] \in Page => roots[r] \in S,
         \A p \in S \cap NewPages : \A s \in ScannedSlots(segment_vector[p].kind) :
           mem[p][s] \in Page /\ <<p, s>> \notin new_words => mem[p][s] \in S
  PROVE  NewPages \subseteq S
<1>1. /\ \A p \in Page : Uncollected(p) <=> p \in NewPages
      /\ dirty_words = {} /\ NewPages \subseteq Page
  BY KeptAreNew
<1>2. \A r \in Root \ root_words : roots[r] \in Page => roots[r] \in S \cap NewPages
  BY <1>1 DEF IInv, RootInv
<1>3. ASSUME NEW p \in S \cap NewPages, NEW s \in ScannedSlots(segment_vector[p].kind),
             mem[p][s] \in Page, <<p, s>> \notin new_words
      PROVE  mem[p][s] \in S \cap NewPages
  <2>1. p \in Page /\ Uncollected(p) /\ s \in Slot
    BY <1>1 DEF ScannedSlots
  <2>2. ~ Unscanned(p, s)
    BY DEF Unscanned, ScannedSlots
  <2>3. Uncollected(mem[p][s])
    BY <1>1, <1>3, <2>1, <2>2 DEF IInv, TraceInv
  <2> QED BY <1>1, <1>3, <2>3
<1>4. LeadsOn(S \cap NewPages)
  BY <1>2, <1>3 DEF LeadsOn
<1>5. S \cap NewPages \in SUBSET NewPages
  OBVIOUS
<1> QED BY <1>4, <1>5 DEF PreciseInv

\* Gathering X adds at most the page of Y to those that are kept, and leaves
\* the words of the others.
LEMMA GatherKept ==
  ASSUME IInv, phase = "trace", collect_gen = LastGen,
         NEW X \in Word, X \in Page => X \in Occupied,
         NEW Y \in Gatherings(X), Gather(X, Y), collect_gen' = collect_gen
  PROVE  /\ \A p \in NewPages : /\ segment_vector'[p] = segment_vector[p]
                                /\ MemAfter(X, Y)[p] = mem[p]
                                /\ \A s : <<p, s>> \in QueueAfter(X, Y) =>
                                            <<p, s>> \in new_words
         /\ NewPages' \subseteq NewPages \cup {Y}
         /\ Y \in NewPages' \ NewPages => Y \in Page
         /\ (\A w \in new_words : w[2] \in ScannedSlots(segment_vector[w[1]].kind))
            => \A w \in QueueAfter(X, Y) : w[2] \in ScannedSlots(segment_vector'[w[1]].kind)
<1>1. /\ \A p \in Page : Uncollected(p) <=> p \in NewPages
      /\ NewPages \subseteq Page
  BY KeptAreNew
<1>2. /\ \A p \in Page : \/ segment_vector'[p] = segment_vector[p]
                         \/ /\ p = Y /\ MustMove(X)
                            /\ segment_vector'[p] = NewPage(X)
      /\ \A p \in Page : Uncollected(p) => segment_vector'[p] = segment_vector[p]
      /\ X \in Page => Y \in Page
      /\ X \notin Page => Y = X
      /\ Copied(X) => X \in Page /\ ~ Uncollected(X) /\ Y \in Holes
      /\ Retagged(X) => Y = X
      /\ MustMove(X) => segment_vector'[Y] = NewPage(X)
  BY GatherSegments DEF IInv
<1>3. MustMove(X) => X \in Page /\ Y \in Page /\ ~ Uncollected(Y)
  <2>1. CASE Copied(X)
    <3>1. Y \in Holes /\ Y \in Page
      BY <1>2, <2>1 DEF Holes
    <3>2. ~ segment_vector[Y].new
      BY <3>1 DEF IInv, HoleInv
    <3>3. Y \notin NewPages
      BY <3>2 DEF NewPages
    <3> QED BY <1>1, <1>2, <2>1, <3>1, <3>3
  <2>2. CASE Retagged(X)
    BY <1>2, <2>2 DEF Retagged, MustMove
  <2>3. CASE ~ MustMove(X)
    BY <2>3
  <2> QED BY <2>1, <2>2, <2>3 DEF Copied, Retagged
<1>4. ASSUME NEW p \in NewPages
      PROVE  /\ segment_vector'[p] = segment_vector[p]
             /\ MemAfter(X, Y)[p] = mem[p]
             /\ \A s : <<p, s>> \in QueueAfter(X, Y) => <<p, s>> \in new_words
  <2>1. p \in Page /\ Uncollected(p) /\ segment_vector'[p] = segment_vector[p]
    BY <1>1, <1>2
  <2>2. MemAfter(X, Y)[p] = mem[p]
    <3>1. CASE ~ Copied(X)
      BY <3>1 DEF MemAfter
    <3>2. CASE Copied(X)
      <4>1. p # X /\ p # Y
        BY <1>2, <1>3, <2>1, <3>2 DEF Copied
      <4>2. MemAfter(X, Y) = [mem EXCEPT ![Y] = mem[X], ![X] = NoWords]
        BY <3>2 DEF MemAfter
      <4>3. mem \in [Page -> [Slot -> Word]]
        BY DEF IInv, TypeOK
      <4> QED BY <2>1, <4>1, <4>2, <4>3
    <3> QED BY <3>1, <3>2
  <2>3. ASSUME NEW s, <<p, s>> \in QueueAfter(X, Y) PROVE <<p, s>> \in new_words
    <3>1. CASE ~ MustMove(X)
      BY <2>3, <3>1 DEF QueueAfter
    <3>2. CASE MustMove(X)
      <4>1. p # Y
        BY <1>3, <2>1, <3>2
      <4> QED BY <2>3, <3>2, <4>1 DEF QueueAfter
    <3> QED BY <3>1, <3>2
  <2> QED BY <2>1, <2>2, <2>3
<1>5. NewPages' \subseteq NewPages \cup {Y}
  BY <1>2 DEF NewPages
<1>6. Y \in NewPages' \ NewPages => Y \in Page
  BY DEF NewPages
<1>7. ASSUME \A w \in new_words : w[2] \in ScannedSlots(segment_vector[w[1]].kind),
             NEW w \in QueueAfter(X, Y)
      PROVE  w[2] \in ScannedSlots(segment_vector'[w[1]].kind)
  <2>1. CASE w \in new_words
    <3>1. w[1] \in NewPages
      BY <2>1 DEF IInv, TypeOK, WorkInv, NewPages
    <3> QED BY <1>4, <1>7, <2>1, <3>1
  <2>2. CASE w \notin new_words
    <3>1. MustMove(X) /\ \E s \in ScannedSlots(segment_vector[X].kind) : w = <<Y, s>>
      BY <2>2 DEF QueueAfter
    <3>2. w[1] = Y /\ w[2] \in ScannedSlots(segment_vector[X].kind)
      BY <3>1
    <3>3. segment_vector'[Y].kind = segment_vector[X].kind
      BY <1>2, <3>1 DEF NewPage
    <3> QED BY <3>2, <3>3
  <2> QED BY <2>1, <2>2
<1> QED BY <1>4, <1>5, <1>6, <1>7

LEMMA GatherRootPrecise ==
  ASSUME IInv, PreciseInv, IInv', NEW r \in Root, GatherRoot(r)
  PROVE  PreciseInv'
<1> SUFFICES ASSUME collect_gen = LastGen
             PROVE  /\ \A w \in new_words' : w[2] \in ScannedSlots(segment_vector'[w[1]].kind)
                    /\ \A S \in SUBSET NewPages' : LeadsOn(S)' => NewPages' \subseteq S
  BY DEF PreciseInv, GatherRoot
<1>x. PICK X : X = roots[r]
  OBVIOUS
<1>1. PICK Y \in Gatherings(X) :
        /\ Gather(X, Y)
        /\ mem' = MemAfter(X, Y)
        /\ new_words' = QueueAfter(X, Y)
        /\ roots' = [roots EXCEPT ![r] = Y]
  BY <1>x DEF GatherRoot
<1>2. /\ phase = "trace" /\ r \in root_words /\ root_words' = root_words \ {r}
      /\ collect_gen' = collect_gen
  BY DEF GatherRoot
<1>3. X \in Word /\ (X \in Page => X \in Occupied) /\ roots' \in [Root -> Word]
  BY <1>x DEF IInv, TypeOK, NoDangling
<1>4. /\ \A p \in NewPages : /\ segment_vector'[p] = segment_vector[p]
                             /\ mem'[p] = mem[p]
                             /\ \A s : <<p, s>> \in new_words' => <<p, s>> \in new_words
      /\ NewPages' \subseteq NewPages \cup {Y}
      /\ Y \in NewPages' \ NewPages => Y \in Page
      /\ (\A w \in new_words : w[2] \in ScannedSlots(segment_vector[w[1]].kind))
         => \A w \in new_words' : w[2] \in ScannedSlots(segment_vector'[w[1]].kind)
  BY <1>1, <1>2, <1>3, GatherKept
<1>5. ASSUME NEW S \in SUBSET NewPages', LeadsOn(S)' PROVE NewPages' \subseteq S
  <2>1. \A x \in Root \ root_words : roots'[x] = roots[x] /\ x \in Root \ root_words'
    BY <1>1, <1>2 DEF IInv, TypeOK
  <2>2. \A x \in Root \ root_words : roots[x] \in Page => roots[x] \in S
    BY <1>5, <2>1 DEF LeadsOn
  <2>3. \A p \in S \cap NewPages : \A s \in ScannedSlots(segment_vector[p].kind) :
          mem[p][s] \in Page /\ <<p, s>> \notin new_words => mem[p][s] \in S
    BY <1>4, <1>5 DEF LeadsOn
  <2>4. NewPages \subseteq S
    BY <1>2, <2>2, <2>3, LeadsToAll
  <2>5. roots'[r] = Y /\ r \in Root \ root_words'
    BY <1>1, <1>2 DEF IInv, TypeOK
  <2>6. Y \in Page => Y \in S
    BY <1>5, <2>5 DEF LeadsOn
  <2> QED BY <1>4, <2>4, <2>6
<1> QED BY <1>2, <1>4, <1>5 DEF PreciseInv

LEMMA ScanNewPrecise ==
  ASSUME IInv, PreciseInv, IInv', NEW p \in Page, NEW s \in Slot, ScanNewWord(p, s)
  PROVE  PreciseInv'
<1> SUFFICES ASSUME collect_gen = LastGen
             PROVE  /\ \A w \in new_words' : w[2] \in ScannedSlots(segment_vector'[w[1]].kind)
                    /\ \A S \in SUBSET NewPages' : LeadsOn(S)' => NewPages' \subseteq S
  BY DEF PreciseInv, ScanNewWord
<1>x. PICK X : X = mem[p][s]
  OBVIOUS
<1>1. PICK Y \in Gatherings(X) :
        /\ Gather(X, Y)
        /\ mem' = [MemAfter(X, Y) EXCEPT ![p][s] = Y]
        /\ new_words' = QueueAfter(X, Y) \ {<<p, s>>}
  BY <1>x DEF ScanNewWord
<1>m. PICK m : m = MemAfter(X, Y)
  OBVIOUS
<1>2. /\ phase = "trace" /\ <<p, s>> \in new_words /\ collect_gen' = collect_gen
      /\ roots' = roots /\ root_words' = root_words
  BY DEF ScanNewWord
<1>3. p \in NewPages /\ p \in Occupied
  BY <1>2 DEF IInv, WorkInv, HoleInv, NewPages, Occupied
<1>4. X \in Word /\ (X \in Page => X \in Occupied)
  BY <1>x, <1>3 DEF IInv, TypeOK, NoDangling
<1>5. /\ \A q \in NewPages : /\ segment_vector'[q] = segment_vector[q]
                             /\ m[q] = mem[q]
                             /\ \A t : <<q, t>> \in QueueAfter(X, Y) => <<q, t>> \in new_words
      /\ NewPages' \subseteq NewPages \cup {Y}
      /\ Y \in NewPages' \ NewPages => Y \in Page
      /\ (\A w \in new_words : w[2] \in ScannedSlots(segment_vector[w[1]].kind))
         => \A w \in QueueAfter(X, Y) : w[2] \in ScannedSlots(segment_vector'[w[1]].kind)
  BY <1>1, <1>m, <1>2, <1>4, GatherKept
<1>6. \A w \in new_words : w[2] \in ScannedSlots(segment_vector[w[1]].kind)
  BY <1>2 DEF PreciseInv
<1>7. m \in [Page -> [Slot -> Word]]
  BY <1>1, <1>m, <1>4, GatherTypes DEF IInv
<1>8. /\ mem'[p][s] = Y
      /\ \A q \in Page, t \in Slot : <<q, t>> # <<p, s>> => mem'[q][t] = m[q][t]
  BY <1>1, <1>m, <1>7
<1>9. ASSUME NEW S \in SUBSET NewPages', LeadsOn(S)' PROVE NewPages' \subseteq S
  <2>1. \A x \in Root \ root_words : roots[x] \in Page => roots[x] \in S
    BY <1>2, <1>9 DEF LeadsOn
  <2>2. ASSUME NEW q \in S \cap NewPages, NEW t \in ScannedSlots(segment_vector[q].kind),
               mem[q][t] \in Page, <<q, t>> \notin new_words
        PROVE  mem[q][t] \in S
    <3>1. t \in Slot /\ q \in Page /\ <<q, t>> # <<p, s>>
      BY <1>2, <2>2 DEF ScannedSlots, NewPages
    <3>2. mem'[q][t] = mem[q][t] /\ segment_vector'[q] = segment_vector[q]
      BY <1>5, <1>8, <3>1
    <3>3. <<q, t>> \notin new_words'
      BY <1>1, <1>5, <2>2
    <3> QED BY <1>9, <2>2, <3>2, <3>3 DEF LeadsOn
  <2>3. NewPages \subseteq S
    BY <1>2, <2>1, <2>2, LeadsToAll
  <2>4. p \in S /\ segment_vector'[p] = segment_vector[p]
    BY <1>3, <1>5, <2>3
  <2>5. s \in ScannedSlots(segment_vector'[p].kind) /\ <<p, s>> \notin new_words'
    <3>1. <<p, s>>[2] \in ScannedSlots(segment_vector[<<p, s>>[1]].kind)
      BY <1>2, <1>6
    <3> QED BY <1>1, <2>4, <3>1
  <2>6. Y \in Page => Y \in S
    BY <1>8, <1>9, <2>4, <2>5 DEF LeadsOn
  <2> QED BY <1>5, <2>3, <2>6
<1> QED BY <1>1, <1>5, <1>6, <1>9

LEMMA NextPrecise ==
  ASSUME IInv, PreciseInv, IInv', [Next]_vars
  PROVE  PreciseInv'
<1>1. ASSUME MutatorStep PROVE PreciseInv'
  BY <1>1 DEF MutatorStep, Allocate, SetSlot, GetSlot, Drop, gcVars, PreciseInv
<1>2. ASSUME NEW g \in Gen, StartCollection(g) PROVE PreciseInv'
  <2>1. \A q \in Page : ~ segment_vector'[q].new
    BY <1>2 DEF StartCollection, pageVars, IInv, PhaseInv
  <2>2. NewPages' = {} /\ new_words' = {}
    BY <1>2, <2>1 DEF NewPages, StartCollection
  <2> QED BY <2>2 DEF PreciseInv
<1>3. ASSUME NEW p \in Page, NEW s \in Slot, ScanDirtyWord(p, s) PROVE PreciseInv'
  <2> SUFFICES ASSUME collect_gen = LastGen PROVE FALSE
    BY <1>3 DEF PreciseInv, ScanDirtyWord
  <2> QED BY <1>3, KeptAreNew DEF ScanDirtyWord
<1>4. ASSUME NEW r \in Root, GatherRoot(r) PROVE PreciseInv'
  BY <1>4, GatherRootPrecise
<1>5. ASSUME NEW p \in Page, NEW s \in Slot, ScanNewWord(p, s) PROVE PreciseInv'
  BY <1>5, ScanNewPrecise
<1>6. ASSUME fix_weak_pointers PROVE PreciseInv'
  <2> SUFFICES ASSUME collect_gen = LastGen
               PROVE  /\ \A w \in new_words' : w[2] \in ScannedSlots(segment_vector'[w[1]].kind)
                      /\ \A S \in SUBSET NewPages' : LeadsOn(S)' => S = NewPages'
    BY <1>6 DEF PreciseInv, fix_weak_pointers
  <2>1. /\ phase = "trace" /\ new_words = {} /\ new_words' = {} /\ root_words' = root_words
        /\ segment_vector' = segment_vector /\ roots' = roots
        /\ NewPages' = NewPages
    BY <1>6 DEF fix_weak_pointers, pageVars, NewPages
  <2>2. \A p \in Page : \A s \in ScannedSlots(segment_vector[p].kind) : mem'[p][s] = mem[p][s]
    BY <1>6 DEF fix_weak_pointers, ScannedSlots, IInv, TypeOK
  <2>3. \A S \in SUBSET NewPages : LeadsOn(S)' => LeadsOn(S)
    BY <2>1, <2>2 DEF LeadsOn, NewPages
  <2> QED BY <2>1, <2>3 DEF PreciseInv
<1>7. ASSUME deallocate_unused_pages PROVE PreciseInv'
  <2> SUFFICES ASSUME collect_gen = LastGen
               PROVE  /\ \A w \in new_words' : w[2] \in ScannedSlots(segment_vector'[w[1]].kind)
                      /\ \A S \in SUBSET NewPages' : LeadsOn(S)' => S = NewPages'
    BY <1>7 DEF PreciseInv, deallocate_unused_pages
  <2>1. /\ phase = "unmap" /\ new_words = {} /\ new_words' = {} /\ root_words' = root_words
        /\ roots' = roots
    BY <1>7 DEF deallocate_unused_pages, IInv, PhaseInv
  <2>2. \A p \in NewPages : segment_vector'[p] = segment_vector[p] /\ mem'[p] = mem[p]
    BY <1>7 DEF deallocate_unused_pages, Unused, Uncollected, NewPages
  <2>3. \A p \in Page : segment_vector'[p] = segment_vector[p] \/ segment_vector'[p] = Hole
    BY <1>7 DEF deallocate_unused_pages
  <2>4. NewPages' = NewPages
    BY <2>2, <2>3 DEF NewPages, Hole
  <2>5. \A S \in SUBSET NewPages : LeadsOn(S)' => LeadsOn(S)
    BY <2>1, <2>2 DEF LeadsOn
  <2> QED BY <2>1, <2>4, <2>5 DEF PreciseInv
<1>8. ASSUME fix_new_pages PROVE PreciseInv'
  BY <1>8 DEF fix_new_pages, PreciseInv
<1>9. ASSUME UNCHANGED vars PROVE PreciseInv'
  BY <1>9 DEF vars, pageVars, gcVars, PreciseInv, NewPages, LeadsOn
<1> QED
  BY <1>1, <1>2, <1>3, <1>4, <1>5, <1>6, <1>7, <1>8, <1>9 DEF Next, CollectorStep

(* The whole invariant, with what a collection of the oldest generation    *)
(* has kept so far.                                                        *)
THEOREM WholeInvariance == Spec => []WholeInv
<1>1. Init => WholeInv
  BY InitIInv DEF WholeInv, PreciseInv, Init
<1>2. WholeInv /\ [Next]_vars => WholeInv'
  BY NextIInv, NextPrecise DEF WholeInv
<1> QED
  BY <1>1, <1>2, PTL DEF Spec

(* A collection of the oldest generation leaves nothing that the roots do  *)
(* not lead to through strong words: a weak pair keeps nothing alive, and  *)
(* neither does an old page.                                               *)
THEOREM NoGarbageIsLeft == Spec => []FullCollectionPrecise
<1>1. WholeInv => FullCollectionPrecise
  <2> SUFFICES ASSUME WholeInv, phase = "untag", collect_gen = LastGen,
                      NEW S \in SUBSET Occupied, Closed(S)
               PROVE  S = Occupied
    BY DEF FullCollectionPrecise
  <2>1. IInv /\ PreciseInv
    BY DEF WholeInv
  <2>2. \A p \in Page : p \in Occupied => p \in NewPages
    BY <2>1, KeptAreNew DEF IInv, PhaseInv
  <2>3. Occupied \subseteq NewPages
    BY <2>2 DEF Occupied
  <2>4. \A p \in S : \A s \in ScannedSlots(segment_vector[p].kind) :
          mem[p][s] \in Page => mem[p][s] \in S
    BY DEF Closed, ScannedSlots
  <2>5. \A r \in Root : roots[r] \in Page => roots[r] \in S
    BY DEF Closed
  <2>6. NewPages \subseteq S
    BY <2>1, <2>4, <2>5, LeadsToAll
  <2> QED BY <2>3, <2>6
<1> QED
  BY <1>1, WholeInvariance, PTL

=============================================================================
