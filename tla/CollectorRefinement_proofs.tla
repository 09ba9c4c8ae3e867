---------------------- MODULE CollectorRefinement_proofs ----------------------
(***************************************************************************)
(* The collector implements the heap of objects, for every set of pages,   *)
(* every number of generations and every placement of objects: what it     *)
(* does to pages is invisible to the program, but for the objects that are *)
(* out of its reach.                                                       *)
(***************************************************************************)
EXTENDS CollectorRefinement, Collector_proofs

\* What the program sees of the object in a page.
ObjectIn(p) == [kind  |-> segment_vector[p].kind,
                slots |-> [s \in Slot |-> NameOf(mem[p][s])]]

\* An occupied page has a name; no two objects have the same, but for the copy
\* of an object, which has the name of the original.
NamesInv ==
  /\ object \in [Page -> Obj \cup {Null}]
  /\ \A p \in Page : object[p] \in Obj <=> p \in Occupied
  /\ \A p, q \in Current : object[p] = object[q] => p = q
  /\ \A p \in Page : forward[p] # Null => object[forward[p]] = object[p]

Names == object' = [p \in Page |-> NameAfter(p)]

-----------------------------------------------------------------------------
(* The abstract heap, read from the pages.                                 *)

\* The words that the collector meets are words, and lead to occupied pages.
LEMMA WordsLemma ==
  ASSUME IInv
  PROVE  /\ Occupied \subseteq Page /\ Current \subseteq Occupied
         /\ \A p \in Page, s \in Slot : mem[p][s] \in Word
         /\ \A p \in Occupied, s \in Slot : mem[p][s] \in Page => mem[p][s] \in Occupied
         /\ \A r \in Root : roots[r] \in Word /\ (roots[r] \in Page => roots[r] \in Occupied)
<1>1. Occupied \subseteq Page /\ Current \subseteq Occupied
  BY DEF Occupied, Current
<1>2. \A p \in Page, s \in Slot : mem[p][s] \in Word
  BY DEF IInv, TypeOK
<1>3. \A r \in Root : roots[r] \in Word
  BY DEF IInv, TypeOK
<1> QED BY <1>1, <1>2, <1>3 DEF IInv, NoDangling

\* A free page is none that a collection keeps.
LEMMA HolesLemma ==
  ASSUME IInv
  PROVE  \A p \in Page : Uncollected(p) => p \in Occupied
<1>1. \A p \in Holes : segment_vector[p].gen = 0 /\ ~ segment_vector[p].new
  BY DEF IInv, HoleInv
<1>2. collect_gen \in Nat
  BY LastGenAssumption DEF IInv, TypeOK, Gen
<1> QED BY <1>1, <1>2 DEF Uncollected, Occupied

\* The name of a word is a name or the word.
LEMMA NameLemma ==
  ASSUME NamesInv, NEW w \in Word, w \in Page => w \in Occupied
  PROVE  /\ NameOf(w) \in Obj \cup {Immediate, BWP}
         /\ NameOf(w) \in Obj <=> w \in Page
<1>1. CASE w \in Page
  BY <1>1 DEF NameOf, NamesInv
<1>2. CASE w \notin Page
  BY <1>2, NameAssumption DEF NameOf, Word
<1> QED BY <1>1, <1>2

\* An object is in one page.
LEMMA GraphValue ==
  ASSUME NamesInv, NEW o \in Obj, NEW p \in Holders(o)
  PROVE  graph[o] = ObjectIn(p)
<1>1. \A q \in Holders(o) : q = p
  BY DEF Holders, NamesInv
<1>2. (CHOOSE q \in Holders(o) : TRUE) = p
  BY <1>1
<1>3. Holders(o) # {}
  OBVIOUS
<1> QED BY <1>2, <1>3 DEF graph, ObjectIn

\* So it is after a step.
LEMMA GraphValueNext ==
  ASSUME NamesInv', NEW o \in Obj, NEW p \in Holders(o)'
  PROVE  graph'[o] = ObjectIn(p)'
<1>1. \A q \in Holders(o)' : q = p
  BY DEF Holders, NamesInv
<1>2. (CHOOSE q \in Holders(o)' : TRUE) = p
  BY <1>1
<1>3. Holders(o)' # {}
  OBVIOUS
<1> QED BY <1>2, <1>3 DEF graph, ObjectIn

\* A name that no page has is not in use.
LEMMA GraphAbsent ==
  ASSUME NEW o \in Obj
  PROVE  /\ Holders(o) = {} => graph[o] = Null
         /\ Holders(o)' = {} => graph'[o] = Null
  BY DEF graph

\* An object is present when a page holds it.
LEMMA PresentLemma ==
  ASSUME IInv, NamesInv, NEW p \in Current
  PROVE  /\ object[p] \in Obj /\ p \in Holders(object[p])
         /\ graph[object[p]] = ObjectIn(p)
         /\ object[p] \in Heap!Present
<1>1. p \in Occupied /\ p \in Page
  BY WordsLemma
<1>2. object[p] \in Obj /\ p \in Holders(object[p])
  BY <1>1 DEF NamesInv, Holders
<1>3. graph[object[p]] = ObjectIn(p)
  BY <1>2, GraphValue
<1>4. ObjectIn(p) # Null
  <2>1. segment_vector[p].kind \in Kind
    BY <1>1 DEF IInv, TypeOK, Occupied, Holes
  <2>2. \A s \in Slot : NameOf(mem[p][s]) \in Obj \cup {Immediate, BWP}
    BY <1>1, WordsLemma, NameLemma
  <2>3. ObjectIn(p) \in [kind : Kind, slots : [Slot -> Obj \cup {Immediate, BWP}]]
    BY <2>1, <2>2 DEF ObjectIn
  <2> QED BY <2>3, NameAssumption
<1> QED BY <1>2, <1>3, <1>4 DEF Heap!Present

\* And a present object has its page.
LEMMA PresentPage ==
  ASSUME NEW o \in Heap!Present
  PROVE  o \in Obj /\ \E p \in Current : object[p] = o
<1>1. o \in Obj /\ Holders(o) # {}
  BY GraphAbsent DEF Heap!Present
<1> QED BY <1>1 DEF Holders

\* An object that has the same kind and words after a step is the same.
LEMMA GraphKept ==
  ASSUME NamesInv, NamesInv', NEW o \in Obj,
         Holders(o) = {} => Holders(o)' = {},
         \A p \in Holders(o) : \E q \in Holders(o)' : ObjectIn(q)' = ObjectIn(p)
  PROVE  graph'[o] = graph[o]
<1>1. CASE Holders(o) = {}
  BY <1>1, GraphAbsent
<1>2. ASSUME NEW p \in Holders(o) PROVE graph'[o] = graph[o]
  <2>1. PICK q \in Holders(o)' : ObjectIn(q)' = ObjectIn(p)
    BY <1>2
  <2>2. graph'[o] = ObjectIn(q)'
    BY GraphValueNext
  <2>3. graph[o] = ObjectIn(p)
    BY <1>2, GraphValue
  <2> QED BY <2>1, <2>2, <2>3
<1> QED BY <1>1, <1>2

\* Two heaps with the same objects are equal.
LEMMA GraphEqual ==
  ASSUME \A o \in Obj : graph'[o] = graph[o] PROVE graph' = graph
  BY DEF graph

LEMMA NamesEqual ==
  ASSUME \A r \in Root : NameOf(roots[r])' = NameOf(roots[r]) PROVE names' = names
  BY DEF names

-----------------------------------------------------------------------------
(* Steps that move no object.                                              *)

\* The names of pages that were occupied and still are.
LEMMA NamesNext ==
  ASSUME NamesInv, Names, NEW p \in Page
  PROVE  /\ p \in Occupied /\ p \in Occupied' => object'[p] = object[p]
         /\ p \notin Occupied' => object'[p] = Null
<1>1. object'[p] = NameAfter(p)
  BY DEF Names
<1>2. p \in Occupied' <=> segment_vector'[p].kind # "hole"
  BY DEF Occupied, Holes
<1> QED BY <1>1, <1>2 DEF NameAfter

\* No page is filled or emptied, and no object forwarded: names stay.
LEMMA NamesKept ==
  ASSUME IInv, NamesInv, Names, UNCHANGED forward,
         \A p \in Page : segment_vector'[p].kind = segment_vector[p].kind
  PROVE  /\ object' = object /\ NamesInv' /\ Current' = Current
         /\ \A o \in Obj : Holders(o)' = Holders(o)
<1>1. Occupied' = Occupied
  BY DEF Occupied, Holes
<1>2. \A p \in Page : object'[p] = object[p]
  <2> SUFFICES ASSUME NEW p \in Page PROVE object'[p] = object[p]
    OBVIOUS
  <2>1. CASE p \in Occupied
    BY <1>1, <2>1, NamesNext
  <2>2. CASE p \notin Occupied
    <3>1. object[p] = Null
      BY <2>2 DEF NamesInv
    <3> QED BY <1>1, <2>2, <3>1, NamesNext
  <2> QED BY <2>1, <2>2
<1>3. object' = object
  <2>1. object \in [Page -> Obj \cup {Null}]
    BY DEF NamesInv
  <2>2. object' = [p \in Page |-> object'[p]]
    BY DEF Names
  <2> QED BY <1>2, <2>1, <2>2
<1>4. Current' = Current
  BY <1>1 DEF Current
<1>5. NamesInv'
  BY <1>1, <1>3, <1>4 DEF NamesInv
<1>6. \A o \in Obj : Holders(o)' = Holders(o)
  BY <1>3, <1>4 DEF Holders
<1> QED BY <1>3, <1>4, <1>5, <1>6

\* If the words stay too, so does the heap.
LEMMA Unmoved ==
  ASSUME IInv, NamesInv, Names, UNCHANGED <<forward, mem, roots>>,
         \A p \in Page : segment_vector'[p].kind = segment_vector[p].kind
  PROVE  NamesInv' /\ UNCHANGED <<graph, names>>
<1>1. /\ object' = object /\ NamesInv'
      /\ \A o \in Obj : Holders(o)' = Holders(o)
  BY NamesKept
<1>2. ASSUME NEW p \in Page PROVE ObjectIn(p)' = ObjectIn(p)
  BY <1>1 DEF ObjectIn, NameOf
<1>3. ASSUME NEW o \in Obj PROVE graph'[o] = graph[o]
  <2>1. \A p \in Holders(o) : p \in Page
    BY WordsLemma DEF Holders
  <2> QED BY <1>1, <1>2, <2>1, GraphKept
<1>4. \A r \in Root : NameOf(roots[r])' = NameOf(roots[r])
  BY <1>1 DEF NameOf
<1> QED BY <1>1, <1>3, <1>4, GraphEqual, NamesEqual

\* The start of a collection changes no object.
LEMMA StartStep ==
  ASSUME IInv, NamesInv, Names, NEW g \in Gen, StartCollection(g)
  PROVE  NamesInv' /\ UNCHANGED <<graph, names>>
  BY Unmoved DEF StartCollection, pageVars

\* Nor does its end.
LEMMA FixNewStep ==
  ASSUME IInv, NamesInv, Names, fix_new_pages
  PROVE  NamesInv' /\ UNCHANGED <<graph, names>>
<1>1. \A p \in Page : segment_vector'[p].kind = segment_vector[p].kind
  BY DEF fix_new_pages, IInv, TypeOK
<1> QED BY <1>1, Unmoved DEF fix_new_pages

-----------------------------------------------------------------------------
(* The program.                                                            *)

\* While the program runs every occupied page holds an object.
LEMMA MutatorLemma ==
  ASSUME IInv, phase = "mutator" PROVE Current = Occupied
  BY DEF Current, IInv, PhaseInv, Occupied

\* A word at hand is the name of a root or immediate.
LEMMA HeldLemma ==
  ASSUME IInv, NamesInv, NEW w \in Held
  PROVE  /\ w \in Word /\ (w \in Page => w \in Occupied)
         /\ NameOf(w) \in Heap!Held
<1>1. CASE w = Immediate
  BY <1>1, WordAssumption DEF Word, NameOf, Heap!Held
<1>2. ASSUME NEW r \in Root, w = roots[r]
      PROVE  /\ w \in Word /\ (w \in Page => w \in Occupied)
             /\ NameOf(w) \in Heap!Held
  <2>1. names[r] = NameOf(w)
    BY <1>2 DEF names
  <2> QED BY <1>2, <2>1, WordsLemma DEF Heap!Held
<1> QED BY <1>1, <1>2 DEF Held

\* One slot of an object is changed.
LEMMA SlotStored ==
  ASSUME NEW k, NEW f, NEW s \in Slot, NEW w, NEW r,
         f = [t \in Slot |-> f[t]], r = [kind |-> k, slots |-> f]
  PROVE  [r EXCEPT !.slots[s] = w]
           = [kind |-> k, slots |-> [t \in Slot |-> IF t = s THEN w ELSE f[t]]]
<1>1. [r EXCEPT !.slots[s] = w] = [r EXCEPT !.slots = [r.slots EXCEPT ![s] = w]]
  BY Zenon
<1>2. r.slots = f
  OBVIOUS
<1>3. [f EXCEPT ![s] = w] = [t \in Slot |-> IF t = s THEN w ELSE f[t]]
  OBVIOUS
<1> QED BY <1>1, <1>2, <1>3

\* The write of a slot
LEMMA SetSlotStep ==
  ASSUME IInv, NamesInv, Names, NEW r \in Root, NEW s \in Slot, NEW v \in Held, SetSlot(r, s, v)
  PROVE  NamesInv' /\ \E h \in Heap!Held : Heap!SetSlot(r, s, h)
<1>1. /\ phase = "mutator" /\ roots[r] \in Page
      /\ UNCHANGED <<segment_vector, forward, roots>>
      /\ mem' = [mem EXCEPT ![roots[r]][s] = v]
  BY DEF SetSlot, pageVars
<1>2. /\ object' = object /\ NamesInv' /\ Current' = Current
      /\ \A o \in Obj : Holders(o)' = Holders(o)
  BY <1>1, NamesKept
<1>3. PICK p \in Current : p = roots[r]
  BY <1>1, WordsLemma, MutatorLemma
<1>4. PICK o \in Obj : o = object[p]
  BY PresentLemma
<1>5. names[r] = o /\ names' = names
  <2>1. \A x \in Root : NameOf(roots[x])' = NameOf(roots[x])
    BY <1>1, <1>2 DEF NameOf
  <2>2. names[r] = NameOf(p)
    BY <1>3 DEF names
  <2> QED BY <1>1, <1>3, <1>4, <2>1, <2>2, NamesEqual DEF NameOf
<1>6. /\ o \in Heap!Present /\ p \in Holders(o) /\ graph[o] = ObjectIn(p)
  BY <1>4, PresentLemma
<1>7. p \in Page /\ mem \in [Page -> [Slot -> Word]]
  BY <1>1, <1>3 DEF IInv, TypeOK
<1>8. ObjectIn(p)' = [kind |-> segment_vector[p].kind,
                      slots |-> [t \in Slot |-> IF t = s THEN NameOf(v) ELSE NameOf(mem[p][t])]]
  <2>1. \A t \in Slot : mem'[p][t] = IF t = s THEN v ELSE mem[p][t]
    BY <1>1, <1>3, <1>7
  <2>2. \A t \in Slot : NameOf(mem[p][t])' = IF t = s THEN NameOf(v) ELSE NameOf(mem[p][t])
    BY <1>2, <2>1 DEF NameOf
  <2> QED BY <1>1, <2>2 DEF ObjectIn
<1>9. graph'[o] = [graph[o] EXCEPT !.slots[s] = NameOf(v)]
  <2>1. graph'[o] = ObjectIn(p)'
    BY <1>2, <1>6, GraphValueNext
  <2>2. [ObjectIn(p) EXCEPT !.slots[s] = NameOf(v)]
          = [kind |-> segment_vector[p].kind,
             slots |-> [t \in Slot |-> IF t = s THEN NameOf(v) ELSE NameOf(mem[p][t])]]
    <3>1. PICK f : f = [t \in Slot |-> NameOf(mem[p][t])]
      OBVIOUS
    <3>2. ObjectIn(p) = [kind |-> segment_vector[p].kind, slots |-> f]
      BY <3>1 DEF ObjectIn
    <3>3. f = [t \in Slot |-> f[t]] /\ \A t \in Slot : f[t] = NameOf(mem[p][t])
      BY <3>1
    <3>4. [ObjectIn(p) EXCEPT !.slots[s] = NameOf(v)]
            = [kind |-> segment_vector[p].kind,
               slots |-> [t \in Slot |-> IF t = s THEN NameOf(v) ELSE f[t]]]
      BY <3>2, <3>3, SlotStored
    <3> QED BY <3>3, <3>4
  <2> QED BY <1>6, <1>8, <2>1, <2>2
<1>10. ASSUME NEW q \in Obj \ {o} PROVE graph'[q] = graph[q]
  <2>1. ASSUME NEW z \in Holders(q) PROVE ObjectIn(z)' = ObjectIn(z)
    <3>1. z # p /\ z \in Page
      BY <1>4, <2>1, WordsLemma DEF Holders
    <3>2. \A t \in Slot : mem'[z][t] = mem[z][t]
      BY <1>1, <1>3, <1>7, <3>1
    <3>3. \A t \in Slot : NameOf(mem[z][t])' = NameOf(mem[z][t])
      BY <1>2, <3>2 DEF NameOf
    <3> QED BY <1>1, <3>3 DEF ObjectIn
  <2> QED BY <1>2, <2>1, GraphKept
<1>11. graph' = [graph EXCEPT ![o].slots[s] = NameOf(v)]
  <2>1. \A q \in Obj : graph'[q] = IF q = o THEN [graph[o] EXCEPT !.slots[s] = NameOf(v)]
                                            ELSE graph[q]
    BY <1>9, <1>10
  <2> QED BY <2>1 DEF graph
<1> QED BY <1>2, <1>5, <1>6, <1>11, HeldLemma DEF Heap!SetSlot

\* The read of a slot
LEMMA GetSlotStep ==
  ASSUME IInv, NamesInv, Names, NEW r \in Root, NEW x \in Root, NEW s \in Slot, GetSlot(r, s, x)
  PROVE  NamesInv' /\ Heap!GetSlot(r, s, x)
<1>1. /\ phase = "mutator" /\ roots[r] \in Page
      /\ UNCHANGED <<segment_vector, forward, mem>>
      /\ roots' = [roots EXCEPT ![x] = mem[roots[r]][s]]
  BY DEF GetSlot, pageVars
<1>2. /\ object' = object /\ NamesInv'
      /\ \A o \in Obj : Holders(o)' = Holders(o)
  BY <1>1, NamesKept
<1>3. PICK p \in Current : p = roots[r]
  BY <1>1, WordsLemma, MutatorLemma
<1>4. names[r] = object[p]
  BY <1>1, <1>3 DEF names, NameOf
<1>5. object[p] \in Heap!Present /\ graph[object[p]] = ObjectIn(p)
  BY PresentLemma
<1>6. graph[names[r]].slots[s] = NameOf(mem[p][s])
  BY <1>4, <1>5 DEF ObjectIn
<1>7. graph' = graph
  <2>1. \A z \in Page : ObjectIn(z)' = ObjectIn(z)
    BY <1>1, <1>2 DEF ObjectIn, NameOf
  <2>2. \A o \in Obj : \A z \in Holders(o) : z \in Page
    BY WordsLemma DEF Holders
  <2>3. \A o \in Obj : graph'[o] = graph[o]
    BY <1>2, <2>1, <2>2, GraphKept
  <2> QED BY <2>3, GraphEqual
<1>8. names' = [names EXCEPT ![x] = NameOf(mem[p][s])]
  <2>1. roots \in [Root -> Word]
    BY DEF IInv, TypeOK
  <2>2. \A y \in Root : roots'[y] = IF y = x THEN mem[p][s] ELSE roots[y]
    BY <1>1, <1>3, <2>1
  <2>3. \A y \in Root : NameOf(roots[y])' = IF y = x THEN NameOf(mem[p][s]) ELSE NameOf(roots[y])
    BY <1>2, <2>2 DEF NameOf
  <2> QED BY <2>3 DEF names
<1> QED BY <1>2, <1>4, <1>5, <1>6, <1>7, <1>8 DEF Heap!GetSlot

\* A root that is dropped
LEMMA DropStep ==
  ASSUME IInv, NamesInv, Names, NEW r \in Root, Drop(r)
  PROVE  NamesInv' /\ Heap!Drop(r)
<1>1. /\ UNCHANGED <<segment_vector, forward, mem>>
      /\ roots' = [roots EXCEPT ![r] = Immediate]
  BY DEF Drop, pageVars
<1>2. /\ object' = object /\ NamesInv'
      /\ \A o \in Obj : Holders(o)' = Holders(o)
  BY <1>1, NamesKept
<1>3. graph' = graph
  <2>1. \A z \in Page : ObjectIn(z)' = ObjectIn(z)
    BY <1>1, <1>2 DEF ObjectIn, NameOf
  <2>2. \A o \in Obj : \A z \in Holders(o) : z \in Page
    BY WordsLemma DEF Holders
  <2>3. \A o \in Obj : graph'[o] = graph[o]
    BY <1>2, <2>1, <2>2, GraphKept
  <2> QED BY <2>3, GraphEqual
<1>4. names' = [names EXCEPT ![r] = Immediate]
  <2>1. roots \in [Root -> Word]
    BY DEF IInv, TypeOK
  <2>2. \A y \in Root : NameOf(roots[y])' = IF y = r THEN Immediate ELSE NameOf(roots[y])
    BY <1>1, <1>2, <2>1, WordAssumption DEF NameOf
  <2> QED BY <2>2 DEF names
<1> QED BY <1>2, <1>3, <1>4 DEF Heap!Drop

\* An allocation: the new object has a name not in use, and the program refers
\* to it by the root that holds it.
LEMMA AllocateStep ==
  ASSUME IInv, NamesInv, Names, NEW r \in Root, NEW k \in Kind, NEW words \in [Slot -> Held],
         Allocate(r, k, words)
  PROVE  /\ NamesInv'
         /\ \E o \in Obj, held \in [Slot -> Heap!Held] : Heap!Allocate(r, k, o, held)
<1>1. PICK q \in Placement(Null, Holes) :
        /\ segment_vector' =
             [segment_vector EXCEPT ![q] = [kind |-> k, gen |-> 0, new |-> FALSE]]
        /\ mem' = [mem EXCEPT ![q] = words]
        /\ roots' = [roots EXCEPT ![r] = q]
  BY DEF Allocate
<1>2. phase = "mutator" /\ forward' = forward
  BY DEF Allocate
<1>3. q \in Holes /\ q \in Page /\ q \notin Occupied
  BY PlacementAssumption DEF Holes, Occupied
<1>4. /\ segment_vector \in [Page -> [kind : Kind \cup {"hole"}, gen : Gen, new : BOOLEAN]]
      /\ mem \in [Page -> [Slot -> Word]] /\ roots \in [Root -> Word]
      /\ \A p \in Page : forward[p] = Null
  BY <1>2 DEF IInv, TypeOK, PhaseInv
<1>5. Occupied' = Occupied \cup {q}
  <2>1. k # "hole"
    BY KindAssumption
  <2>2. \A p \in Page : segment_vector'[p].kind # "hole" <=>
          (p = q \/ segment_vector[p].kind # "hole")
    BY <1>1, <1>3, <1>4, <2>1
  <2> QED BY <1>3, <2>2 DEF Occupied, Holes
<1>6. Current = Occupied /\ Current' = Current \cup {q}
  <2>1. Current = Occupied
    BY <1>4 DEF Current, Occupied
  <2>2. \A p \in Occupied' : p \in Page
    BY DEF Occupied
  <2> QED BY <1>2, <1>4, <1>5, <2>1, <2>2 DEF Current
<1>7. PICK o \in Obj : o = NewName /\ \A p \in Page : object[p] # o
  <2>1. PICK f : f = [p \in Page \ Holes |-> object[p]]
    OBVIOUS
  <2>2. f \in [Page \ Holes -> Obj]
    BY <2>1 DEF NamesInv, Occupied
  <2>3. Holes \in SUBSET Page /\ Placement(Null, Holes) # {}
    BY DEF Holes
  <2>4. PICK n \in Obj : \A p \in Page \ Holes : f[p] # n
    BY <2>2, <2>3, FreshAssumption
  <2>5. \A p \in Holes : object[p] = Null
    BY <2>3 DEF NamesInv, Occupied
  <2>6. \A p \in Page : object[p] # n
    BY <2>1, <2>4, <2>5, NameAssumption
  <2> QED BY <2>6 DEF NewName
<1>8. object'[q] = o
  <2>1. segment_vector'[q].kind # "hole"
    BY <1>3, <1>5 DEF Occupied, Holes
  <2>2. ~ \E X \in Page : forward'[X] = q
    BY <1>2, <1>3, <1>4, WordAssumption
  <2>3. object'[q] = NameAfter(q)
    BY <1>3 DEF Names
  <2> QED BY <1>3, <1>7, <2>1, <2>2, <2>3 DEF NameAfter
<1>9. \A p \in Page \ {q} : object'[p] = object[p]
  <2> SUFFICES ASSUME NEW p \in Page \ {q} PROVE object'[p] = object[p]
    OBVIOUS
  <2>1. CASE p \in Occupied
    BY <1>5, <2>1, NamesNext
  <2>2. CASE p \notin Occupied
    <3>1. object[p] = Null
      BY <2>2 DEF NamesInv
    <3> QED BY <1>5, <2>2, <3>1, NamesNext
  <2> QED BY <2>1, <2>2
<1>10. NamesInv'
  <2>1. object' \in [Page -> Obj \cup {Null}]
    <3>1. \A p \in Page : object'[p] \in Obj \cup {Null}
      BY <1>8, <1>9 DEF NamesInv
    <3>2. object' = [p \in Page |-> object'[p]]
      BY DEF Names
    <3> QED BY <3>1, <3>2
  <2>2. \A p \in Page : object'[p] \in Obj <=> p \in Occupied'
    BY <1>5, <1>8, <1>9 DEF NamesInv
  <2>3. ASSUME NEW p \in Current', NEW z \in Current', object'[p] = object'[z] PROVE p = z
    <3>1. p \in Page /\ z \in Page
      BY <1>3, <1>6, WordsLemma
    <3>2. CASE p # q /\ z # q
      BY <1>6, <1>9, <2>3, <3>1, <3>2 DEF NamesInv
    <3>3. CASE p = q \/ z = q
      BY <1>7, <1>8, <1>9, <2>3, <3>1, <3>3
    <3> QED BY <3>2, <3>3
  <2>4. \A p \in Page : forward'[p] = Null
    BY <1>2, <1>4
  <2> QED BY <2>1, <2>2, <2>3, <2>4 DEF NamesInv
<1>11. ASSUME NEW w \in Word, w \in Page => w \in Occupied
       PROVE  (IF w \in Page THEN object'[w] ELSE w) = NameOf(w)
  BY <1>3, <1>9, <1>11 DEF NameOf
<1> DEFINE held == [s \in Slot |-> NameOf(words[s])]
<1>12. held \in [Slot -> Heap!Held]
  BY HeldLemma
<1>13. ASSUME NEW n \in Obj \ {o} PROVE graph'[n] = graph[n]
  <2>1. Holders(n)' = Holders(n)
    <3>1. \A p \in Current : p \in Page \ {q}
      BY <1>3, <1>6, WordsLemma
    <3> QED BY <1>6, <1>8, <1>9, <3>1 DEF Holders
  <2>2. ASSUME NEW p \in Holders(n) PROVE ObjectIn(p)' = ObjectIn(p)
    <3>1. p \in Page \ {q} /\ p \in Occupied
      BY <1>3, <1>6, WordsLemma DEF Holders
    <3>2. segment_vector'[p] = segment_vector[p] /\ mem'[p] = mem[p]
      BY <1>1, <1>4, <3>1
    <3>3. \A s \in Slot : NameOf(mem[p][s])' = NameOf(mem[p][s])
      <4> SUFFICES ASSUME NEW s \in Slot PROVE NameOf(mem[p][s])' = NameOf(mem[p][s])
        OBVIOUS
      <4>1. mem[p][s] \in Word /\ (mem[p][s] \in Page => mem[p][s] \in Occupied)
        BY <3>1, WordsLemma
      <4> QED BY <1>11, <3>2, <4>1 DEF NameOf
    <3> QED BY <3>2, <3>3 DEF ObjectIn
  <2> QED BY <1>10, <2>1, <2>2, GraphKept
<1>14. graph[o] = Null
  BY <1>7, WordsLemma, GraphAbsent DEF Holders
<1>15. graph'[o] = [kind |-> k, slots |-> held]
  <2>1. q \in Holders(o)'
    BY <1>6, <1>8 DEF Holders
  <2>2. graph'[o] = ObjectIn(q)'
    BY <1>10, <2>1, GraphValueNext
  <2>3. segment_vector'[q].kind = k /\ mem'[q] = words
    BY <1>1, <1>3, <1>4
  <2>4. \A s \in Slot : NameOf(mem[q][s])' = NameOf(words[s])
    <3> SUFFICES ASSUME NEW s \in Slot PROVE NameOf(mem[q][s])' = NameOf(words[s])
      OBVIOUS
    <3>1. words[s] \in Word /\ (words[s] \in Page => words[s] \in Occupied)
      BY HeldLemma
    <3> QED BY <1>11, <2>3, <3>1 DEF NameOf
  <2> QED BY <2>2, <2>3, <2>4 DEF ObjectIn
<1>16. graph' = [graph EXCEPT ![o] = [kind |-> k, slots |-> held]]
  <2> HIDE DEF held
  <2>1. \A n \in Obj : graph'[n] = IF n = o THEN [kind |-> k, slots |-> held] ELSE graph[n]
    BY <1>13, <1>15
  <2> QED BY <2>1 DEF graph
<1>17. names' = [names EXCEPT ![r] = o]
  <2>1. \A y \in Root : roots'[y] = IF y = r THEN q ELSE roots[y]
    BY <1>1, <1>4
  <2>2. ASSUME NEW y \in Root
        PROVE  NameOf(roots[y])' = IF y = r THEN o ELSE NameOf(roots[y])
    <3>1. CASE y = r
      BY <1>3, <1>8, <2>1, <3>1 DEF NameOf
    <3>2. CASE y # r
      <4>1. roots[y] \in Word /\ (roots[y] \in Page => roots[y] \in Occupied)
        BY WordsLemma
      <4> QED BY <1>11, <2>1, <3>2, <4>1 DEF NameOf
    <3> QED BY <3>1, <3>2
  <2> QED BY <2>2 DEF names
<1> QED BY <1>10, <1>12, <1>14, <1>16, <1>17 DEF Heap!Allocate

-----------------------------------------------------------------------------
(* The moving of objects.                                                  *)

\* gather_live_object keeps the names: the copy takes that of the original.
LEMMA GatherNames ==
  ASSUME IInv, NamesInv, Names, NEW X \in Word, X \in Page => X \in Occupied,
         NEW Y \in Gatherings(X), Gather(X, Y), collect_gen' = collect_gen
  PROVE  /\ NamesInv'
         /\ \A p \in Occupied : p \in Occupied' /\ object'[p] = object[p]
         /\ (IF Y \in Page THEN object'[Y] ELSE Y) = NameOf(X)
         /\ \A o \in Obj : \A p \in Holders(o) :
              IF Copied(X) /\ p = X THEN Y \in Holders(o)' ELSE p \in Holders(o)'
         /\ \A o \in Obj : Holders(o) = {} => Holders(o)' = {}
<1>1. /\ \A p \in Occupied : p \in Occupied'
      /\ \A p \in Page : p \in Occupied' => p \in Occupied \/ (Copied(X) /\ p = Y)
      /\ X \in Page => Y \in Page /\ Y \in Occupied'
      /\ X \notin Page => Y = X
      /\ Copied(X) => X \in Page /\ X \in Occupied /\ Y \in Holes /\ Y # X
  BY GatherSegments DEF IInv
<1>2. \A p \in Occupied : p \in Page /\ object'[p] = object[p]
  BY <1>1, WordsLemma, NamesNext
<1>3. forward' = IF Copied(X) THEN [forward EXCEPT ![X] = Y] ELSE forward
  BY DEF Gather, ForwardAfter
<1>4. /\ forward \in [Page -> Page \cup {Null}]
      /\ \A p \in Page : forward[p] # Null =>
            p \in Occupied /\ forward[p] \in Page /\ forward[p] \in Occupied
  <2>1. forward \in [Page -> Page \cup {Null}]
    BY DEF IInv, TypeOK
  <2>2. \A p \in Page : forward[p] # Null => p \in Occupied /\ Uncollected(forward[p])
    BY DEF IInv, ForwardInv
  <2> QED BY <2>1, <2>2, HolesLemma
<1>5. Copied(X) => forward[X] = Null /\ Y \in Page /\ Y \notin Occupied /\ Y # Null
  BY <1>1, WordAssumption DEF Copied, MustMove, Occupied, Holes
<1>6. Copied(X) => object'[Y] = object[X]
  <2> SUFFICES ASSUME Copied(X) PROVE object'[Y] = object[X]
    OBVIOUS
  <2>1. \A Z \in Page : forward'[Z] = Y <=> Z = X
    BY <1>1, <1>3, <1>4, <1>5
  <2>2. (CHOOSE Z \in Page : forward'[Z] = Y) = X
    BY <1>1, <2>1
  <2>3. segment_vector'[Y].kind # "hole"
    BY <1>1, <1>5 DEF Occupied, Holes
  <2>4. object'[Y] = NameAfter(Y)
    BY <1>5 DEF Names
  <2>5. \E Z \in Page : forward'[Z] = Y
    BY <1>1, <2>1
  <2> QED BY <1>5, <2>2, <2>3, <2>4, <2>5 DEF NameAfter
<1>7. ASSUME NEW p \in Page
      PROVE  p \in Current' <=> \/ p \in Current /\ ~ (Copied(X) /\ p = X)
                                \/ Copied(X) /\ p = Y
  <2>1. CASE ~ Copied(X)
    BY <1>1, <1>3, <2>1 DEF Current
  <2>2. CASE Copied(X)
    <3>1. forward'[p] = IF p = X THEN Y ELSE forward[p]
      BY <1>3, <1>4, <2>2
    <3>2. forward[Y] = Null
      BY <1>4, <1>5, <2>2
    <3> QED BY <1>1, <1>5, <2>2, <3>1, <3>2 DEF Current
  <2> QED BY <2>1, <2>2
<1>8. NamesInv'
  <2>1. \A p \in Page : object'[p] \in Obj <=> p \in Occupied'
    <3> SUFFICES ASSUME NEW p \in Page PROVE object'[p] \in Obj <=> p \in Occupied'
      OBVIOUS
    <3>1. CASE p \in Occupied
      BY <1>1, <1>2, <3>1 DEF NamesInv
    <3>2. CASE p \notin Occupied /\ p \in Occupied'
      BY <1>1, <1>6, <3>2 DEF NamesInv
    <3>3. CASE p \notin Occupied'
      BY <3>3, NamesNext, NameAssumption
    <3> QED BY <1>1, <3>1, <3>2, <3>3
  <2>2. object' \in [Page -> Obj \cup {Null}]
    <3>1. \A p \in Page : object'[p] \in Obj \cup {Null}
      BY <2>1, NamesNext
    <3>2. object' = [p \in Page |-> object'[p]]
      BY DEF Names
    <3> QED BY <3>1, <3>2
  <2>3. ASSUME NEW p \in Current', NEW z \in Current', object'[p] = object'[z] PROVE p = z
    <3>1. p \in Page /\ z \in Page
      BY DEF Current, Occupied
    <3>2. CASE p \in Current /\ z \in Current
      BY <1>2, <2>3, <3>2, WordsLemma DEF NamesInv
    <3>3. ASSUME NEW a \in Page, NEW b \in Page, a \in Current', b \in Current', a \notin Current,
                 object'[a] = object'[b]
          PROVE  a = b
      <4>1. Copied(X) /\ a = Y /\ object'[a] = object[X]
        BY <1>6, <1>7, <3>3
      <4>2. CASE b \in Current
        <5>1. b # X /\ object[b] = object[X] /\ X \in Current
          BY <1>1, <1>2, <1>5, <1>7, <3>3, <4>1, <4>2, WordsLemma DEF Current
        <5> QED BY <4>2, <5>1 DEF NamesInv
      <4>3. CASE b \notin Current
        BY <1>7, <3>3, <4>1, <4>3
      <4> QED BY <4>2, <4>3
    <3> QED BY <2>3, <3>1, <3>2, <3>3
  <2>4. ASSUME NEW p \in Page, forward'[p] # Null PROVE object'[forward'[p]] = object'[p]
    <3>1. CASE Copied(X) /\ p = X
      BY <1>1, <1>2, <1>3, <1>4, <1>6, <3>1
    <3>2. CASE ~ (Copied(X) /\ p = X)
      <4>1. forward'[p] = forward[p]
        BY <1>3, <1>4, <3>2
      <4> QED BY <1>2, <1>4, <2>4, <4>1 DEF NamesInv
    <3> QED BY <3>1, <3>2
  <2> QED BY <2>1, <2>2, <2>3, <2>4 DEF NamesInv
<1>9. (IF Y \in Page THEN object'[Y] ELSE Y) = NameOf(X)
  <2>1. CASE X \notin Page
    BY <1>1, <2>1 DEF NameOf
  <2>2. CASE X \in Page /\ Copied(X)
    BY <1>1, <1>6, <2>2 DEF NameOf
  <2>3. CASE X \in Page /\ ~ Copied(X)
    <3>1. Y \in Page /\ (Y = X \/ (forward[X] # Null /\ Y = forward[X]))
      BY <1>1, <2>3, GatheringsLemma DEF IInv
    <3>2. CASE Y = X
      BY <1>2, <2>3, <3>2 DEF NameOf
    <3>3. CASE forward[X] # Null /\ Y = forward[X]
      BY <1>2, <1>4, <2>3, <3>1, <3>3 DEF NameOf, NamesInv
    <3> QED BY <3>1, <3>2, <3>3
  <2> QED BY <2>1, <2>2, <2>3
<1>10. ASSUME NEW o \in Obj, NEW p \in Holders(o)
       PROVE  IF Copied(X) /\ p = X THEN Y \in Holders(o)' ELSE p \in Holders(o)'
  <2>1. p \in Current /\ p \in Page /\ object[p] = o /\ object'[p] = o
    BY <1>2, WordsLemma DEF Holders
  <2>2. CASE Copied(X) /\ p = X
    BY <1>5, <1>6, <1>7, <2>1, <2>2 DEF Holders
  <2>3. CASE ~ (Copied(X) /\ p = X)
    <3>1. p \in Current'
      BY <1>7, <2>1, <2>3
    <3>2. p \in Holders(o)'
      BY <2>1, <3>1 DEF Holders
    <3> QED BY <2>3, <3>2
  <2> QED BY <2>2, <2>3
<1>11. ASSUME NEW o \in Obj, NEW p \in Holders(o)' PROVE Holders(o) # {}
  <2>1. p \in Current' /\ p \in Page /\ object'[p] = o
    BY DEF Holders, Current, Occupied
  <2>2. CASE p \in Current
    BY <1>2, <2>1, <2>2, WordsLemma DEF Holders
  <2>3. CASE p \notin Current
    <3>1. Copied(X) /\ p = Y /\ X \in Current /\ object[X] = o
      BY <1>1, <1>5, <1>6, <1>7, <2>1, <2>3 DEF Current
    <3> QED BY <3>1 DEF Holders
  <2> QED BY <2>2, <2>3
<1> QED BY <1>1, <1>2, <1>8, <1>9, <1>10, <1>11

\* A word that is replaced with what gather_live_object returns for it has the
\* same name, and a copy has the words of the original: the heap stays.
LEMMA GatherGraph ==
  ASSUME IInv, NamesInv, Names, NEW X \in Word, X \in Page => X \in Occupied,
         NEW Y \in Gatherings(X), Gather(X, Y), collect_gen' = collect_gen,
         \A q \in Page, t \in Slot :
           \/ mem'[q][t] = MemAfter(X, Y)[q][t]
           \/ MemAfter(X, Y)[q][t] = X /\ mem'[q][t] = Y,
         \A r \in Root : roots'[r] = roots[r] \/ (roots[r] = X /\ roots'[r] = Y)
  PROVE  NamesInv' /\ UNCHANGED <<graph, names>>
<1>1. /\ NamesInv'
      /\ \A p \in Occupied : p \in Occupied' /\ object'[p] = object[p]
      /\ (IF Y \in Page THEN object'[Y] ELSE Y) = NameOf(X)
      /\ \A o \in Obj : \A p \in Holders(o) :
           IF Copied(X) /\ p = X THEN Y \in Holders(o)' ELSE p \in Holders(o)'
      /\ \A o \in Obj : Holders(o) = {} => Holders(o)' = {}
  BY GatherNames
<1>2. /\ \A p \in Occupied : segment_vector'[p].kind = segment_vector[p].kind
      /\ Copied(X) => /\ X \in Page /\ X \in Occupied /\ Y \in Holes /\ Y # X
                      /\ Y \in Page /\ segment_vector'[Y] = NewPage(X)
  BY GatherSegments DEF IInv, Copied
<1>3. ASSUME NEW w \in Word, w \in Page => w \in Occupied, NEW v, v = w \/ (w = X /\ v = Y)
      PROVE  (IF v \in Page THEN object'[v] ELSE v) = NameOf(w)
  <2>1. CASE v = w
    BY <1>1, <1>3, <2>1 DEF NameOf
  <2>2. CASE w = X /\ v = Y
    BY <1>1, <2>2
  <2> QED BY <1>3, <2>1, <2>2
<1>4. \A r \in Root : NameOf(roots[r])' = NameOf(roots[r])
  <2> SUFFICES ASSUME NEW r \in Root PROVE NameOf(roots[r])' = NameOf(roots[r])
    OBVIOUS
  <2>1. roots[r] \in Word /\ (roots[r] \in Page => roots[r] \in Occupied)
    BY WordsLemma
  <2>2. (IF roots'[r] \in Page THEN object'[roots'[r]] ELSE roots'[r]) = NameOf(roots[r])
    BY <1>3, <2>1
  <2> QED BY <2>2 DEF NameOf
<1>5. PICK m : m = MemAfter(X, Y)
  OBVIOUS
<1>6. ASSUME NEW p \in Current, NEW q \in Page,
             m[q] = mem[p], segment_vector'[q].kind = segment_vector[p].kind
      PROVE  ObjectIn(q)' = ObjectIn(p)
  <2>1. ASSUME NEW t \in Slot PROVE NameOf(mem[q][t])' = NameOf(mem[p][t])
    <3>1. mem[p][t] \in Word /\ (mem[p][t] \in Page => mem[p][t] \in Occupied)
      BY WordsLemma
    <3>2. mem'[q][t] = mem[p][t] \/ (mem[p][t] = X /\ mem'[q][t] = Y)
      BY <1>5, <1>6
    <3>3. (IF mem'[q][t] \in Page THEN object'[mem'[q][t]] ELSE mem'[q][t]) = NameOf(mem[p][t])
      BY <1>3, <3>1, <3>2
    <3> QED BY <3>3 DEF NameOf
  <2> QED BY <1>6, <2>1 DEF ObjectIn
<1>7. ASSUME NEW o \in Obj PROVE graph'[o] = graph[o]
  <2>1. ASSUME NEW p \in Holders(o) PROVE \E q \in Holders(o)' : ObjectIn(q)' = ObjectIn(p)
    <3>1. p \in Current /\ p \in Page /\ p \in Occupied
      BY WordsLemma DEF Holders
    <3>2. mem \in [Page -> [Slot -> Word]]
      BY DEF IInv, TypeOK
    <3>3. CASE Copied(X) /\ p = X
      <4>1. Y \in Holders(o)'
        BY <1>1, <2>1, <3>3
      <4>2. m[Y] = mem[X]
        BY <1>2, <1>5, <3>2, <3>3 DEF MemAfter
      <4>3. segment_vector'[Y].kind = segment_vector[X].kind
        BY <1>2, <3>3 DEF NewPage
      <4> QED BY <1>2, <1>6, <3>1, <3>3, <4>1, <4>2, <4>3
    <3>4. CASE ~ (Copied(X) /\ p = X)
      <4>1. p \in Holders(o)'
        BY <1>1, <2>1, <3>4
      <4>2. m[p] = mem[p]
        <5>1. CASE ~ Copied(X)
          BY <1>5, <5>1 DEF MemAfter
        <5>2. CASE Copied(X)
          <6>1. p # X /\ p # Y
            BY <1>2, <3>1, <3>4, <5>2 DEF Occupied
          <6>2. m = [mem EXCEPT ![Y] = mem[X], ![X] = NoWords]
            BY <1>5, <5>2 DEF MemAfter
          <6> QED BY <3>1, <3>2, <6>1, <6>2
        <5> QED BY <5>1, <5>2
      <4>3. segment_vector'[p].kind = segment_vector[p].kind
        BY <1>2, <3>1
      <4> QED BY <1>6, <3>1, <4>1, <4>2, <4>3
    <3> QED BY <3>3, <3>4
  <2> QED BY <1>1, <2>1, GraphKept
<1> QED BY <1>1, <1>4, <1>7, GraphEqual, NamesEqual

\* scan_dirty_pages
LEMMA ScanDirtyStep ==
  ASSUME IInv, NamesInv, Names, NEW p \in Page, NEW s \in Slot, ScanDirtyWord(p, s)
  PROVE  NamesInv' /\ UNCHANGED <<graph, names>>
<1>1. PICK Y \in Gatherings(mem[p][s]) :
        /\ Gather(mem[p][s], Y)
        /\ mem' = [MemAfter(mem[p][s], Y) EXCEPT ![p][s] = Y]
  BY DEF ScanDirtyWord
<1>2. <<p, s>> \in dirty_words /\ UNCHANGED <<roots, collect_gen>>
  BY DEF ScanDirtyWord
<1>3. Uncollected(p) /\ p \in Occupied
  <2>1. segment_vector[p].gen > collect_gen
    BY <1>2 DEF IInv, WorkInv
  <2> QED BY <2>1, HolesLemma DEF Uncollected
<1>4. PICK X \in Word : X = mem[p][s] /\ (X \in Page => X \in Occupied)
  BY <1>3, WordsLemma
<1>5. PICK m : m = MemAfter(X, Y)
  OBVIOUS
<1>6. m \in [Page -> [Slot -> Word]]
  BY <1>1, <1>4, <1>5, GatherTypes DEF IInv
<1>7. m[p][s] = X
  <2>1. CASE ~ Copied(X)
    BY <1>4, <1>5, <2>1 DEF MemAfter
  <2>2. CASE Copied(X)
    <3>1. ~ Uncollected(X) /\ X \in Page /\ Y \in Holes /\ Y \in Page
      BY <1>1, <1>2, <1>4, <2>2, GatherSegments DEF IInv, Copied, MustMove, Holes
    <3>2. p # X /\ p # Y
      BY <1>3, <3>1 DEF Occupied
    <3>3. m = [mem EXCEPT ![Y] = mem[X], ![X] = NoWords]
      BY <1>5, <2>2 DEF MemAfter
    <3>4. mem \in [Page -> [Slot -> Word]]
      BY DEF IInv, TypeOK
    <3> QED BY <1>4, <3>1, <3>2, <3>3, <3>4
  <2> QED BY <2>1, <2>2
<1>8. \A q \in Page, t \in Slot : mem'[q][t] = m[q][t] \/ (m[q][t] = X /\ mem'[q][t] = Y)
  BY <1>1, <1>4, <1>5, <1>6, <1>7
<1>9. \A q \in Page, t \in Slot :
       \/ mem'[q][t] = MemAfter(X, Y)[q][t]
       \/ MemAfter(X, Y)[q][t] = X /\ mem'[q][t] = Y
  BY <1>5, <1>8
<1>10. Y \in Gatherings(X) /\ Gather(X, Y)
  BY <1>1, <1>4
<1>11. \A r \in Root : roots'[r] = roots[r]
  BY <1>2
<1> QED BY <1>2, <1>4, <1>9, <1>10, <1>11, GatherGraph

\* The roots
LEMMA GatherRootStep ==
  ASSUME IInv, NamesInv, Names, NEW r \in Root, GatherRoot(r)
  PROVE  NamesInv' /\ UNCHANGED <<graph, names>>
<1>1. PICK Y \in Gatherings(roots[r]) :
        /\ Gather(roots[r], Y)
        /\ mem' = MemAfter(roots[r], Y)
        /\ roots' = [roots EXCEPT ![r] = Y]
  BY DEF GatherRoot
<1>2. collect_gen' = collect_gen
  BY DEF GatherRoot
<1>3. PICK X \in Word : X = roots[r] /\ (X \in Page => X \in Occupied)
  BY WordsLemma
<1>4. roots \in [Root -> Word]
  BY DEF IInv, TypeOK
<1>5. \A x \in Root : roots'[x] = roots[x] \/ (roots[x] = X /\ roots'[x] = Y)
  BY <1>1, <1>3, <1>4
<1>6. \A q \in Page, t \in Slot :
       \/ mem'[q][t] = MemAfter(X, Y)[q][t]
       \/ MemAfter(X, Y)[q][t] = X /\ mem'[q][t] = Y
  BY <1>1, <1>3
<1>7. Y \in Gatherings(X) /\ Gather(X, Y)
  BY <1>1, <1>3
<1> QED BY <1>2, <1>3, <1>5, <1>6, <1>7, GatherGraph

\* collect_loop
LEMMA ScanNewStep ==
  ASSUME IInv, NamesInv, Names, NEW p \in Page, NEW s \in Slot, ScanNewWord(p, s)
  PROVE  NamesInv' /\ UNCHANGED <<graph, names>>
<1>1. PICK Y \in Gatherings(mem[p][s]) :
        /\ Gather(mem[p][s], Y)
        /\ mem' = [MemAfter(mem[p][s], Y) EXCEPT ![p][s] = Y]
  BY DEF ScanNewWord
<1>2. <<p, s>> \in new_words /\ UNCHANGED <<roots, collect_gen>>
  BY DEF ScanNewWord
<1>3. Uncollected(p) /\ p \in Occupied
  <2>1. segment_vector[p].new
    BY <1>2 DEF IInv, WorkInv
  <2> QED BY <2>1, HolesLemma DEF Uncollected
<1>4. PICK X \in Word : X = mem[p][s] /\ (X \in Page => X \in Occupied)
  BY <1>3, WordsLemma
<1>5. PICK m : m = MemAfter(X, Y)
  OBVIOUS
<1>6. m \in [Page -> [Slot -> Word]]
  BY <1>1, <1>4, <1>5, GatherTypes DEF IInv
<1>7. m[p][s] = X
  <2>1. CASE ~ Copied(X)
    BY <1>4, <1>5, <2>1 DEF MemAfter
  <2>2. CASE Copied(X)
    <3>1. ~ Uncollected(X) /\ X \in Page /\ Y \in Holes /\ Y \in Page
      BY <1>1, <1>2, <1>4, <2>2, GatherSegments DEF IInv, Copied, MustMove, Holes
    <3>2. p # X /\ p # Y
      BY <1>3, <3>1 DEF Occupied
    <3>3. m = [mem EXCEPT ![Y] = mem[X], ![X] = NoWords]
      BY <1>5, <2>2 DEF MemAfter
    <3>4. mem \in [Page -> [Slot -> Word]]
      BY DEF IInv, TypeOK
    <3> QED BY <1>4, <3>1, <3>2, <3>3, <3>4
  <2> QED BY <2>1, <2>2
<1>8. \A q \in Page, t \in Slot : mem'[q][t] = m[q][t] \/ (m[q][t] = X /\ mem'[q][t] = Y)
  BY <1>1, <1>4, <1>5, <1>6, <1>7
<1>9. \A q \in Page, t \in Slot :
       \/ mem'[q][t] = MemAfter(X, Y)[q][t]
       \/ MemAfter(X, Y)[q][t] = X /\ mem'[q][t] = Y
  BY <1>5, <1>8
<1>10. Y \in Gatherings(X) /\ Gather(X, Y)
  BY <1>1, <1>4
<1>11. \A r \in Root : roots'[r] = roots[r]
  BY <1>2
<1> QED BY <1>2, <1>4, <1>9, <1>10, <1>11, GatherGraph

-----------------------------------------------------------------------------
(* What is out of the program's reach.                                     *)

\* After the trace no chain of strong words leads from a root to a collected
\* page that was not moved: the kept pages are closed.
LEMMA UnreachableLemma ==
  ASSUME IInv, NamesInv, phase # "mutator",
         dirty_words = {}, root_words = {}, new_words = {},
         NEW c \in Current, ~ Uncollected(c)
  PROVE  ~ Heap!Reachable(object[c])
<1> DEFINE kept == {q \in Current : Uncollected(q)}
           S == {object[q] : q \in kept}
<1>1. \A q \in Current : q \in Page /\ q \in Occupied /\ object[q] \in Obj
  BY WordsLemma, PresentLemma
<1>2. object[c] \notin S
  BY <1>1 DEF NamesInv
<1>3. ASSUME NEW w \in Page, w \in Occupied, Uncollected(w) PROVE NameOf(w) \in S
  <2>1. w \in Current
    BY <1>3 DEF Current, IInv, ForwardInv
  <2> QED BY <1>3, <2>1 DEF NameOf
<1>4. \A r \in Root : names[r] \in Obj => names[r] \in S
  <2> SUFFICES ASSUME NEW r \in Root, names[r] \in Obj PROVE names[r] \in S
    OBVIOUS
  <2>1. names[r] = NameOf(roots[r])
    BY DEF names
  <2>2. roots[r] \in Page /\ roots[r] \in Occupied
    BY <2>1, WordsLemma, NameLemma
  <2>3. Uncollected(roots[r])
    BY <2>2 DEF IInv, RootInv
  <2> QED BY <1>3, <2>1, <2>2, <2>3
<1>5. ASSUME NEW q \in kept, NEW s \in Heap!StrongSlots(object[q]),
             graph[object[q]].slots[s] \in Obj
      PROVE  graph[object[q]].slots[s] \in S
  <2>1. q \in Page /\ q \in Occupied /\ q \in Current /\ Uncollected(q)
    BY <1>1
  <2>2. graph[object[q]] = ObjectIn(q)
    BY <2>1, PresentLemma
  <2>3. s \in Slot /\ ~ (segment_vector[q].kind = "weak" /\ s = "car")
    BY <2>2 DEF Heap!StrongSlots, Heap!IsWeak, ObjectIn
  <2>4. graph[object[q]].slots[s] = NameOf(mem[q][s])
    BY <2>2, <2>3 DEF ObjectIn
  <2>5. mem[q][s] \in Page /\ mem[q][s] \in Occupied
    BY <1>5, <2>1, <2>3, <2>4, WordsLemma, NameLemma
  <2>6. Uncollected(mem[q][s])
    BY <2>1, <2>3, <2>5 DEF IInv, TraceInv, Unscanned
  <2> QED BY <1>3, <2>4, <2>5, <2>6
<1>6. Heap!Closed(S)
  <2> SUFFICES ASSUME NEW o \in S \cap Heap!Present, NEW s \in Heap!StrongSlots(o),
                      graph[o].slots[s] \in Obj
               PROVE  graph[o].slots[s] \in S
    BY <1>4 DEF Heap!Closed
  <2>1. PICK q \in kept : o = object[q]
    OBVIOUS
  <2> QED BY <1>5, <2>1
<1>7. S \in SUBSET Obj
  BY <1>1
<1> HIDE DEF S
<1> QED BY <1>2, <1>6, <1>7 DEF Heap!Reachable

\* fix_weak_pointers: the weak pairs that lose their car lose an object that is
\* out of reach; in the others a car that was moved is the same object.
LEMMA FixWeakStep ==
  ASSUME IInv, NamesInv, Names, fix_weak_pointers
  PROVE  NamesInv' /\ \E W \in SUBSET Heap!Present : Heap!BreakWeak(W)
<1>1. /\ phase = "trace" /\ dirty_words = {} /\ root_words = {} /\ new_words = {}
      /\ UNCHANGED <<segment_vector, forward, roots>>
      /\ mem' = [p \in Page |-> IF segment_vector[p].kind = "weak" /\ segment_vector[p].new
                               THEN [mem[p] EXCEPT !["car"] = FixedCar(@)] ELSE mem[p]]
  BY DEF fix_weak_pointers, pageVars
<1>2. /\ object' = object /\ NamesInv'
      /\ \A o \in Obj : Holders(o)' = Holders(o)
  BY <1>1, NamesKept
<1>3. names' = names
  <2>1. \A r \in Root : NameOf(roots[r])' = NameOf(roots[r])
    BY <1>1, <1>2 DEF NameOf
  <2> QED BY <2>1, NamesEqual
<1> DEFINE Car(p) == mem[p]["car"]
           Fixed(p) == segment_vector[p].kind = "weak" /\ segment_vector[p].new
           B == {p \in Current : /\ Fixed(p) /\ Car(p) \in Page
                                 /\ forward[Car(p)] = Null /\ ~ Uncollected(Car(p))}
           W == {object[p] : p \in B}
<1>4. /\ mem \in [Page -> [Slot -> Word]] /\ "car" \in Slot
      /\ forward \in [Page -> Page \cup {Null}]
      /\ Current \subseteq Page /\ Current \subseteq Occupied
  BY WordsLemma, SlotAssumption DEF IInv, TypeOK
<1>5. ASSUME NEW p \in Current, NEW s \in Slot
      PROVE  /\ p \in B /\ s = "car" => NameOf(mem[p][s])' = BWP
             /\ ~ (p \in B /\ s = "car") => NameOf(mem[p][s])' = NameOf(mem[p][s])
  <2>1. mem'[p][s] = IF Fixed(p) /\ s = "car" THEN FixedCar(mem[p]["car"]) ELSE mem[p][s]
    BY <1>1, <1>4
  <2>2. NameOf(mem[p][s])' = IF mem'[p][s] \in Page THEN object[mem'[p][s]] ELSE mem'[p][s]
    BY <1>2 DEF NameOf
  <2>3. CASE ~ (Fixed(p) /\ s = "car")
    BY <2>1, <2>2, <2>3 DEF NameOf
  <2>4. CASE Fixed(p) /\ s = "car"
    <3>1. PICK X : X = mem[p]["car"]
      OBVIOUS
    <3>2. mem'[p][s] = FixedCar(X)
      BY <2>1, <2>4, <3>1
    <3>3. CASE X \notin Page
      BY <2>2, <2>4, <3>1, <3>2, <3>3 DEF FixedCar, NameOf
    <3>4. CASE X \in Page /\ forward[X] # Null
      <4>1. FixedCar(X) = forward[X] /\ forward[X] \in Page /\ object[forward[X]] = object[X]
        BY <1>4, <3>4 DEF FixedCar, NamesInv
      <4>2. p \notin B
        BY <3>1, <3>4
      <4> QED BY <2>2, <2>4, <3>1, <3>2, <3>4, <4>1, <4>2 DEF NameOf
    <3>5. CASE X \in Page /\ forward[X] = Null /\ Uncollected(X)
      <4>1. FixedCar(X) = X
        BY <3>5 DEF FixedCar
      <4>2. p \notin B
        BY <3>1, <3>5
      <4> QED BY <2>2, <2>4, <3>1, <3>2, <3>5, <4>1, <4>2 DEF NameOf
    <3>6. CASE X \in Page /\ forward[X] = Null /\ ~ Uncollected(X)
      <4>1. FixedCar(X) = BWP
        BY <3>6 DEF FixedCar
      <4>2. p \in B
        BY <2>4, <3>1, <3>6
      <4> QED BY <2>2, <2>4, <3>2, <4>1, <4>2, WordAssumption
    <3> QED BY <3>3, <3>4, <3>5, <3>6
  <2> QED BY <2>3, <2>4
<1>6. ASSUME NEW p \in B
      PROVE  /\ object[p] \in Heap!Present
             /\ graph[object[p]].kind = "weak"
             /\ graph[object[p]].slots["car"] \in Obj
             /\ ~ Heap!Reachable(graph[object[p]].slots["car"])
             /\ graph'[object[p]] = [graph[object[p]] EXCEPT !.slots["car"] = BWP]
  <2>1. /\ p \in Current /\ p \in Occupied /\ p \in Page /\ Fixed(p) /\ Car(p) \in Page
        /\ forward[Car(p)] = Null /\ ~ Uncollected(Car(p))
    BY <1>4
  <2>2. PICK c \in Current : c = Car(p) /\ ~ Uncollected(c)
    BY <1>4, <2>1, WordsLemma DEF Current
  <2>3. /\ object[p] \in Obj /\ p \in Holders(object[p]) /\ graph[object[p]] = ObjectIn(p)
        /\ object[p] \in Heap!Present
    BY <2>1, PresentLemma
  <2>4. graph[object[p]].kind = "weak" /\ graph[object[p]].slots["car"] = object[c]
    BY <1>4, <2>1, <2>2, <2>3 DEF ObjectIn, NameOf
  <2>5. object[c] \in Obj /\ ~ Heap!Reachable(object[c])
    BY <1>1, <2>2, PresentLemma, UnreachableLemma
  <2>6. graph'[object[p]] = ObjectIn(p)'
    BY <1>2, <2>3, GraphValueNext
  <2>7. PICK f : f = [s \in Slot |-> NameOf(mem[p][s])]
    OBVIOUS
  <2>8. /\ ObjectIn(p) = [kind |-> segment_vector[p].kind, slots |-> f]
        /\ f = [s \in Slot |-> f[s]] /\ \A s \in Slot : f[s] = NameOf(mem[p][s])
    BY <2>7 DEF ObjectIn
  <2>9. ObjectIn(p)' = [kind |-> segment_vector[p].kind,
                        slots |-> [s \in Slot |-> IF s = "car" THEN BWP ELSE f[s]]]
    <3>1. \A s \in Slot : NameOf(mem[p][s])' = IF s = "car" THEN BWP ELSE f[s]
      BY <1>5, <2>1, <2>8
    <3> QED BY <1>1, <3>1 DEF ObjectIn
  <2>10. [ObjectIn(p) EXCEPT !.slots["car"] = BWP]
           = [kind |-> segment_vector[p].kind,
              slots |-> [s \in Slot |-> IF s = "car" THEN BWP ELSE f[s]]]
    BY <1>4, <2>8, SlotStored
  <2> HIDE DEF B
  <2> QED BY <2>3, <2>4, <2>5, <2>6, <2>9, <2>10
<1>7. ASSUME NEW o \in Obj \ W PROVE graph'[o] = graph[o]
  <2>1. ASSUME NEW p \in Holders(o) PROVE ObjectIn(p)' = ObjectIn(p)
    <3>1. p \in Current /\ object[p] = o /\ p \notin B
      BY <2>1 DEF Holders
    <3>2. \A s \in Slot : NameOf(mem[p][s])' = NameOf(mem[p][s])
      BY <1>5, <3>1
    <3> QED BY <1>1, <3>2 DEF ObjectIn
  <2> QED BY <1>2, <2>1, GraphKept
<1> HIDE DEF B
<1>8. /\ \A o \in W : /\ o \in Heap!Present
                      /\ graph[o].kind = "weak" /\ graph[o].slots["car"] \in Obj
                      /\ ~ Heap!Reachable(graph[o].slots["car"])
                      /\ graph'[o] = [graph[o] EXCEPT !.slots["car"] = BWP]
  BY <1>6
<1> HIDE DEF W
<1>9. graph' = [o \in Obj |-> IF o \in W THEN [graph[o] EXCEPT !.slots["car"] = BWP]
                                         ELSE graph[o]]
  <2>1. \A o \in Obj : graph'[o] = IF o \in W THEN [graph[o] EXCEPT !.slots["car"] = BWP]
                                              ELSE graph[o]
    BY <1>7, <1>8
  <2> QED BY <2>1 DEF graph
<1>10. W \in SUBSET Heap!Present
  BY <1>8
<1>11. Heap!BreakWeak(W)
  BY <1>3, <1>8, <1>9 DEF Heap!BreakWeak
<1> QED BY <1>2, <1>10, <1>11

\* deallocate_unused_pages: what it unmaps is out of reach, and no object left
\* refers to it.
LEMMA DeallocateStep ==
  ASSUME IInv, NamesInv, Names, deallocate_unused_pages
  PROVE  NamesInv' /\ \E D \in SUBSET Heap!Present : Heap!Reclaim(D)
<1>1. /\ phase = "unmap" /\ dirty_words = {} /\ root_words = {} /\ new_words = {}
      /\ roots' = roots
  BY DEF deallocate_unused_pages, IInv, PhaseInv
<1>2. \A p \in Page : IF p \in Unused
        THEN segment_vector'[p] = Hole /\ forward'[p] = Null
        ELSE segment_vector'[p] = segment_vector[p] /\ mem'[p] = mem[p] /\ forward'[p] = forward[p]
  BY DEF deallocate_unused_pages
<1>3. \A p \in Page : Uncollected(p) => p \in Occupied /\ p \in Current /\ p \notin Unused
  BY HolesLemma DEF IInv, ForwardInv, Current, Unused
<1>4. \A p \in Page : p \in Occupied' <=> p \in Occupied /\ Uncollected(p)
  <2>1. Hole.kind = "hole"
    BY DEF Hole
  <2> QED BY <1>2, <1>3, <2>1 DEF Occupied, Holes, Unused
<1>5. \A p \in Page : forward'[p] = Null
  BY <1>2 DEF IInv, ForwardInv, Unused
<1>6. \A p \in Page : p \in Current' <=> p \in Current /\ Uncollected(p)
  BY <1>3, <1>4, <1>5 DEF Current
<1>7. \A p \in Page : Uncollected(p) => object'[p] = object[p]
  BY <1>3, <1>4, NamesNext
<1>8. NamesInv'
  <2>1. \A p \in Page : object'[p] \in Obj <=> p \in Occupied'
    BY <1>4, <1>7, NamesNext, NameAssumption DEF NamesInv
  <2>2. object' \in [Page -> Obj \cup {Null}]
    <3>1. \A p \in Page : object'[p] \in Obj \cup {Null}
      BY <2>1, NamesNext
    <3>2. object' = [p \in Page |-> object'[p]]
      BY DEF Names
    <3> QED BY <3>1, <3>2
  <2>3. ASSUME NEW p \in Current', NEW z \in Current', object'[p] = object'[z] PROVE p = z
    <3>1. p \in Page /\ z \in Page
      BY DEF Current, Occupied
    <3>2. p \in Current /\ z \in Current /\ object[p] = object[z]
      BY <1>6, <1>7, <2>3, <3>1
    <3> QED BY <3>2 DEF NamesInv
  <2> QED BY <1>5, <2>1, <2>2, <2>3 DEF NamesInv
<1>9. ASSUME NEW w \in Word, w \in Page => Uncollected(w)
      PROVE  (IF w \in Page THEN object'[w] ELSE w) = NameOf(w)
  BY <1>7, <1>9 DEF NameOf
<1>10. names' = names
  <2>1. ASSUME NEW r \in Root PROVE NameOf(roots[r])' = NameOf(roots[r])
    <3>1. roots[r] \in Word /\ (roots[r] \in Page => Uncollected(roots[r]))
      BY <1>1, WordsLemma DEF IInv, RootInv
    <3> QED BY <1>1, <1>9, <3>1 DEF NameOf
  <2> QED BY <2>1, NamesEqual
<1>11. ASSUME NEW p \in Current, Uncollected(p), NEW s \in Slot
       PROVE  /\ mem[p][s] \in Word
              /\ mem[p][s] \in Page => Uncollected(mem[p][s]) /\ mem[p][s] \in Current
  <2>1. p \in Page /\ mem[p][s] \in Word
    BY WordsLemma
  <2>2. mem[p][s] \in Page => Uncollected(mem[p][s])
    BY <1>1, <1>11, <2>1 DEF IInv, TraceInv, Unscanned
  <2> QED BY <1>3, <2>1, <2>2
<1> DEFINE D == {object[p] : p \in {q \in Current : ~ Uncollected(q)}}
<1>12. ASSUME NEW o \in D PROVE o \in Heap!Present /\ ~ Heap!Reachable(o)
  BY <1>1, <1>12, PresentLemma, UnreachableLemma
<1>13. ASSUME NEW o \in Heap!Present \ D, NEW s \in Slot PROVE graph[o].slots[s] \notin D
  <2>1. PICK p \in Current : object[p] = o
    BY PresentPage
  <2>2. Uncollected(p) /\ graph[o] = ObjectIn(p)
    BY <1>13, <2>1, PresentLemma
  <2>3. graph[o].slots[s] = NameOf(mem[p][s])
    BY <2>2 DEF ObjectIn
  <2>4. CASE mem[p][s] \in Page
    <3>1. PICK c \in Current : c = mem[p][s] /\ Uncollected(c)
      BY <1>11, <2>2, <2>4
    <3>2. graph[o].slots[s] = object[c]
      BY <2>3, <2>4, <3>1 DEF NameOf
    <3>3. object[c] \notin D
      BY <3>1 DEF NamesInv
    <3> QED BY <3>2, <3>3
  <2>5. CASE mem[p][s] \notin Page
    <3>1. NameOf(mem[p][s]) \notin Obj
      BY <1>11, <2>2, <2>5, NameLemma
    <3>2. D \subseteq Obj
      BY PresentLemma
    <3> HIDE DEF D
    <3> QED BY <2>3, <3>1, <3>2
  <2> QED BY <2>4, <2>5
<1>14. ASSUME NEW o \in D PROVE graph'[o] = Null
  <2>1. PICK p \in Current : object[p] = o /\ ~ Uncollected(p)
    OBVIOUS
  <2>2. o \in Obj
    BY <2>1, PresentLemma
  <2>3. ASSUME NEW q \in Holders(o)' PROVE FALSE
    <3>1. q \in Current' /\ q \in Page /\ object'[q] = o
      BY DEF Holders, Current, Occupied
    <3>2. q \in Current /\ Uncollected(q) /\ object[q] = o
      BY <1>6, <1>7, <3>1
    <3> QED BY <2>1, <3>2 DEF NamesInv
  <2> QED BY <2>2, <2>3, GraphAbsent
<1>15. ASSUME NEW o \in Obj \ D PROVE graph'[o] = graph[o]
  <2>1. ASSUME NEW q \in Holders(o)' PROVE Holders(o) # {}
    <3>1. q \in Current' /\ q \in Page /\ object'[q] = o
      BY <2>1 DEF Holders, Current, Occupied
    <3>2. q \in Current /\ object[q] = o
      BY <1>6, <1>7, <3>1
    <3> QED BY <3>2 DEF Holders
  <2>2. ASSUME NEW p \in Holders(o) PROVE p \in Holders(o)' /\ ObjectIn(p)' = ObjectIn(p)
    <3>1. p \in Current /\ p \in Page /\ object[p] = o /\ Uncollected(p)
      BY <1>15, <2>2, WordsLemma DEF Holders
    <3>2. p \in Holders(o)'
      BY <1>6, <1>7, <3>1 DEF Holders
    <3>3. segment_vector'[p] = segment_vector[p] /\ mem'[p] = mem[p]
      BY <1>2, <1>3, <3>1
    <3>4. \A s \in Slot : NameOf(mem[p][s])' = NameOf(mem[p][s])
      BY <1>9, <1>11, <3>1, <3>3 DEF NameOf
    <3> QED BY <3>2, <3>3, <3>4 DEF ObjectIn
  <2> QED BY <1>8, <2>1, <2>2, GraphKept
<1>16. D \in SUBSET Heap!Present
  BY <1>12
<1> HIDE DEF D
<1>17. graph' = [o \in Obj |-> IF o \in D THEN Null ELSE graph[o]]
  <2>1. \A o \in Obj : graph'[o] = IF o \in D THEN Null ELSE graph[o]
    BY <1>14, <1>15
  <2> QED BY <2>1 DEF graph
<1>18. Heap!Reclaim(D)
  BY <1>10, <1>12, <1>13, <1>17 DEF Heap!Reclaim
<1> QED BY <1>8, <1>16, <1>18

-----------------------------------------------------------------------------
(* The theorem.                                                            *)

LEMMA InitNames ==
  ASSUME NamedInit
  PROVE  NamesInv /\ Heap!Init
<1>1. /\ \A p \in Page : p \notin Occupied
      /\ object = [p \in Page |-> Null] /\ roots = [r \in Root |-> Immediate]
      /\ \A p \in Page : forward[p] = Null
  BY DEF NamedInit, Init, Occupied, Holes, Hole
<1>2. \A p : p \notin Current
  BY <1>1 DEF Current, Occupied
<1>3. NamesInv
  BY <1>1, <1>2, NameAssumption DEF NamesInv
<1>4. graph = [o \in Obj |-> Null]
  <2>1. \A o \in Obj : Holders(o) = {}
    BY <1>2 DEF Holders
  <2> QED BY <2>1 DEF graph
<1>5. names = [r \in Root |-> Immediate]
  BY <1>1, WordAssumption DEF names, NameOf
<1> QED BY <1>3, <1>4, <1>5 DEF Heap!Init

\* A step of the program is that step of the heap; a step of the collector is
\* one that reclaims or breaks what is out of reach, or none.
LEMMA NamedStep ==
  ASSUME IInv, NamesInv, [NamedNext]_<<vars, object>>
  PROVE  NamesInv' /\ [Heap!Next]_<<graph, names>>
<1>1. CASE UNCHANGED <<vars, object>>
  BY <1>1 DEF vars, pageVars, gcVars, NamesInv, Current, Occupied, Holes, graph, names, NameOf,
     Holders
<1>2. CASE NamedNext
  <2>1. Names /\ Next
    BY <1>2 DEF NamedNext, Names
  <2>2. ASSUME NEW r \in Root, NEW k \in Kind, NEW words \in [Slot -> Held], Allocate(r, k, words)
        PROVE  NamesInv' /\ Heap!Next
    BY <2>1, <2>2, AllocateStep DEF Heap!Next
  <2>3. ASSUME NEW r \in Root, NEW s \in Slot, NEW v \in Held, SetSlot(r, s, v)
        PROVE  NamesInv' /\ Heap!Next
    BY <2>1, <2>3, SetSlotStep DEF Heap!Next
  <2>4. ASSUME NEW r \in Root, NEW x \in Root, NEW s \in Slot, GetSlot(r, s, x)
        PROVE  NamesInv' /\ Heap!Next
    BY <2>1, <2>4, GetSlotStep DEF Heap!Next
  <2>5. ASSUME NEW r \in Root, Drop(r) PROVE NamesInv' /\ Heap!Next
    BY <2>1, <2>5, DropStep DEF Heap!Next
  <2>6. ASSUME NEW g \in Gen, StartCollection(g) PROVE NamesInv' /\ UNCHANGED <<graph, names>>
    BY <2>1, <2>6, StartStep
  <2>7. ASSUME NEW p \in Page, NEW s \in Slot, ScanDirtyWord(p, s)
        PROVE  NamesInv' /\ UNCHANGED <<graph, names>>
    BY <2>1, <2>7, ScanDirtyStep
  <2>8. ASSUME NEW r \in Root, GatherRoot(r) PROVE NamesInv' /\ UNCHANGED <<graph, names>>
    BY <2>1, <2>8, GatherRootStep
  <2>9. ASSUME NEW p \in Page, NEW s \in Slot, ScanNewWord(p, s)
        PROVE  NamesInv' /\ UNCHANGED <<graph, names>>
    BY <2>1, <2>9, ScanNewStep
  <2>10. CASE fix_weak_pointers
    BY <2>1, <2>10, FixWeakStep DEF Heap!Next
  <2>11. CASE deallocate_unused_pages
    BY <2>1, <2>11, DeallocateStep DEF Heap!Next
  <2>12. CASE fix_new_pages
    BY <2>1, <2>12, FixNewStep
  <2> QED BY <2>1, <2>2, <2>3, <2>4, <2>5, <2>6, <2>7, <2>8, <2>9, <2>10, <2>11, <2>12
          DEF Next, MutatorStep, CollectorStep
<1> QED BY <1>1, <1>2

\* The collector implements the heap of objects: whatever it moves, retags and
\* unmaps, the program sees its objects as they were, a weak pair loses its car
\* and an object is reclaimed only when no strong words lead to it.
THEOREM CollectorIsInvisible == NamedSpec => ImplementsHeap
<1>1. NamedInit => IInv /\ NamesInv /\ Heap!Init
  BY InitIInv, InitNames DEF NamedInit
<1>2. IInv /\ [NamedNext]_<<vars, object>> => IInv'
  BY NextIInv DEF NamedNext
<1>3. IInv /\ NamesInv /\ [NamedNext]_<<vars, object>> => NamesInv' /\ [Heap!Next]_<<graph, names>>
  BY NamedStep
<1>4. [Heap!Next]_<<graph, names>> => [Heap!Next]_(Heap!heapVars)
  BY DEF Heap!heapVars
<1> QED BY <1>1, <1>2, <1>3, <1>4, PTL DEF NamedSpec, ImplementsHeap, Heap!Spec

=============================================================================
