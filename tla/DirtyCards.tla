------------------------------ MODULE DirtyCards ------------------------------
(***************************************************************************)
(* The cards of the dirty vector: scan_dirty_pages and its subroutines for *)
(* pages of pointers and for pages of code objects (ikarus-collect.c).     *)
(* Collector has a card for each page; here a slot of the dirty vector is  *)
(* what it is in the code, a word with a nibble for each card, and so is a *)
(* slot of the segments vector.  Machine words are sets of bit positions.  *)
(*                                                                         *)
(* What lies in old pages are words; what they refer to are objects, each  *)
(* in a page of pointers of its own, that something else keeps alive.  A   *)
(* word has the number of moves its object had made when it was stored or  *)
(* gathered: when the object has made more, the word is a dangling pointer.*)
(* A collection is one step: the bits left in a page depend on where its   *)
(* words lead after the gathering and not on the order of the pages.       *)
(*                                                                         *)
(* ForgetPure, ShiftByCard, CleanPrevious and UncappedGen, which no action *)
(* uses, are what a plausible bug would make of the definition that        *)
(* follows each.                                                           *)
(***************************************************************************)
EXTENDS Naturals

CONSTANTS
  OldPage,   \* old pages
  CodePage,  \* those that hold code objects
  Referent,  \* objects that the words refer to
  Field,     \* fields of a code object: "reloc", "annotation"
  Cards,     \* CARDS_PER_PAGE
  LastCard,  \* the last card in which a code object starts
  Immediate

\* What the constants must satisfy.
CardAssumptions ==
  /\ Cards \in Nat \ {0} /\ LastCard \in 0 .. Cards - 1
  /\ CodePage \subseteq OldPage
  /\ Field \subseteq {"reloc", "annotation"}
  /\ Immediate \notin Referent

\* Code objects whose references the dirty vector has: the bits of one that
\* starts in the last card are shifted out of the slot, and those of an
\* annotation are not considered.
BitsKept == LastCard < Cards - 1 /\ "annotation" \notin Field

VARIABLES
  page_gen,   \* generation number of an old page
  word,       \* the words in the cards of an old page
  dirty_slot, \* bits of the slot of an old page in the dirty vector
  object      \* generation and number of moves of an object

cardVars == <<page_gen, word, dirty_slot, object>>

Card == 0 .. Cards - 1
Generation  == 0 .. 4
Bit  == 0 .. 4 * Cards - 1

\* The words in a page: in a page of pointers one for each card; in a code
\* page the fields of a code object for each card in which one starts.
Place(p) == IF p \in CodePage THEN (0 .. LastCard) \X Field ELSE Card \X {"word"}
Places   == Card \X {"word", "reloc", "annotation"}

Nothing == [object |-> Immediate, moves |-> 0]

CardTypes ==
  /\ page_gen \in [OldPage -> 1 .. 4]
  /\ DOMAIN word = OldPage
  /\ \A p \in OldPage :
       word[p] \in [Place(p) -> [object : Referent \cup {Immediate}, moves : Generation]]
  /\ dirty_slot \in [OldPage -> SUBSET Bit]
  /\ object \in [Referent -> [gen : Generation, moves : Generation]]

-----------------------------------------------------------------------------
(* Machine words and tables.                                               *)

Shift(S, n) == {b + n : b \in S} \cap Bit
ShiftRight(S, n) == {b - n : b \in {c \in S : c >= n}}
InEachNibble(S) == UNION {Shift(S, 4 * c) : c \in Card}
Nibble(S, c) == S \cap Shift(0 .. 3, 4 * c)

\* The bit of generation g in a nibble: #b1000 is generation 0.
GenBit(g) == 3 - g

DIRTY_MASK(g) == IF g = 4 THEN {} ELSE InEachNibble({GenBit(k) : k \in 0 .. g})

CleanPrevious(g) ==
  IF g = 0 THEN {} ELSE InEachNibble({GenBit(k) : k \in {j \in 0 .. g - 1 : j + 1 < g}})

CLEANUP_MASK(g) ==
  IF g = 0 THEN {} ELSE InEachNibble({GenBit(k) : k \in 0 .. g - 1})

ShiftByCard(S, card) == Shift(S, card)

SHIFT_NIBBLE_AT_CARD_SLOT(S, card) == Shift(S, 4 * card)

META_DIRTY_MASK == 4 .. 7

\* A generation number in the bits that GEN_MASK extracts.
GenBits == <<{0}, {1}, {0, 1}, {2}>>

NEW_GEN_TAG == {3}
POINTERS_MT == {8, 9, 12, 16}

\* Bits of the page of an object; NEXT_GEN_TAG gives it its own dirty bit.
SegmentBits(g, new) ==
  POINTERS_MT \cup
  (IF g = 0 THEN {} ELSE GenBits[g]) \cup
  (IF g \in 1 .. 3 THEN {4 + GenBit(g)} ELSE {}) \cup
  (IF new THEN NEW_GEN_TAG ELSE {})

UncappedGen(g) == g + 1

NextGeneration(g) == IF g = 4 THEN 4 ELSE g + 1

-----------------------------------------------------------------------------
(* The running program.                                                    *)

\* A store in an object, a relocation vector or an annotation: the whole
\* slot of the page is marked.
Store(p, w, o) ==
  /\ word' = [word EXCEPT ![p][w] = [object |-> o, moves |-> object[o].moves]]
  /\ dirty_slot' = [dirty_slot EXCEPT ![p] = Bit]
  /\ UNCHANGED <<page_gen, object>>

\* An object that no word refers to is dead, another is allocated.
Renew(o) ==
  /\ \A p \in OldPage : \A w \in Place(p) : word[p][w].object # o
  /\ object' = [object EXCEPT ![o] = [gen |-> 0, moves |-> 0]]
  /\ UNCHANGED <<page_gen, word, dirty_slot>>

-----------------------------------------------------------------------------
(* A collection of generation g.                                           *)

\* A move within the oldest generation is not counted: every word is
\* gathered then, there being no older page.
Moved(g) ==
  [o \in Referent |->
     IF object[o].gen <= g /\ object[o].gen < 4
     THEN [gen |-> NextGeneration(g), moves |-> object[o].moves + 1]
     ELSE object[o]]

\* The bits of the page of the object in a word after gather_live_object.
GatheredBits(g, o) ==
  IF o = Immediate THEN {}
  ELSE SegmentBits(Moved(g)[o].gen, object[o].gen <= g)

GatheredWord(g, X) ==
  IF X.object = Immediate THEN X ELSE [X EXCEPT !.moves = Moved(g)[X.object].moves]

Scanned(g, p) == page_gen[p] > g /\ dirty_slot[p] \cap DIRTY_MASK(g) # {}

DirtyCard(g, p, c) == Nibble(dirty_slot[p] \cap DIRTY_MASK(g), c) # {}

ForgetPure(p, c) == {}

PureCardBits(p, c) == Nibble(dirty_slot[p], c)

\* The new bits of a card that is scanned: those of its words.
ScannedCardBits(g, p, c) ==
  LET card_sbits == GatheredBits(g, word[p][<<c, "word">>].object)
  IN  SHIFT_NIBBLE_AT_CARD_SLOT(
        ShiftRight(card_sbits \cap META_DIRTY_MASK, 4), c)

scan_dirty_pointers_page(g, p) ==
  UNION {IF DirtyCard(g, p, c) THEN ScannedCardBits(g, p, c)
                               ELSE PureCardBits(p, c) : c \in Card}

\* All the bits of the pages of the objects in a relocation vector are
\* shifted, and the bits of the page of the annotation are not considered.
CodeCardBits(g, p, c) ==
  UNION {GatheredBits(g, word[p][<<c, f>>].object) : f \in Field \cap {"reloc"}}

scan_dirty_code_page(g, p) ==
  UNION {SHIFT_NIBBLE_AT_CARD_SLOT(CodeCardBits(g, p, c), c) : c \in 0 .. LastCard}

\* Which words of a page are gathered.  In a page of pointers those of the
\* dirty cards, in a code page those of all code objects, in a page that is
\* collected itself all.
IsGathered(g, p, w) ==
  \/ page_gen[p] <= g
  \/ Scanned(g, p) /\ (p \in CodePage \/ DirtyCard(g, p, w[1]))

CollectGeneration(g) ==
  /\ object' = Moved(g)
  /\ word' = [p \in OldPage |->
                [w \in Place(p) |->
                   IF IsGathered(g, p, w) THEN GatheredWord(g, word[p][w])
                                          ELSE word[p][w]]]
  /\ dirty_slot' =
       [p \in OldPage |->
          IF page_gen[p] <= g THEN {}
          ELSE IF Scanned(g, p)
          THEN (IF p \in CodePage THEN scan_dirty_code_page(g, p)
                                  ELSE scan_dirty_pointers_page(g, p))
               \cap CLEANUP_MASK(page_gen[p])
          ELSE dirty_slot[p]]
  /\ page_gen' = [p \in OldPage |-> IF page_gen[p] <= g THEN NextGeneration(g) ELSE page_gen[p]]

-----------------------------------------------------------------------------

CardInit ==
  /\ page_gen \in [OldPage -> 1 .. 4]
  /\ word = [p \in OldPage |-> [w \in Place(p) |-> Nothing]]
  /\ dirty_slot = [p \in OldPage |-> {}]
  /\ object = [o \in Referent |-> [gen |-> 0, moves |-> 0]]

CardNext ==
  \/ \E p \in OldPage, w \in Places, o \in Referent : w \in Place(p) /\ Store(p, w, o)
  \/ \E o \in Referent : Renew(o)
  \/ \E g \in Generation : CollectGeneration(g)

CardSpec == CardInit /\ [][CardNext]_cardVars

-----------------------------------------------------------------------------
(* Properties.                                                             *)

IsYounger(p, w) ==
  /\ word[p][w].object # Immediate
  /\ object[word[p][w].object].gen < page_gen[p]

\* No word of an old page is left with the old address of an object that a
\* collection has moved, whatever sequence of stores and of collections of
\* different generations came before.
NeverDangles ==
  \A p \in OldPage : \A w \in Place(p) :
    word[p][w].object # Immediate =>
      word[p][w].moves = object[word[p][w].object].moves

\* "If a nibble in the dirty vector is set to zero: the corresponding card
\* is clean, it has no pointers to Scheme objects in younger generations":
\* a card with a pointer to a younger object will be scanned when the
\* generation of that object is collected.
CleanCardsHaveNoYounger ==
  \A p \in OldPage \ CodePage : \A w \in Place(p) :
    IsYounger(p, w) =>
      GenBit(object[word[p][w].object].gen) + 4 * w[1] \in dirty_slot[p]

\* The same of whole pages: code pages are scanned whole, and are found by
\* the bits of any of their nibbles.
CleanPagesHaveNoYounger ==
  \A p \in OldPage : \A w \in Place(p) :
    IsYounger(p, w) =>
      dirty_slot[p] \cap DIRTY_MASK(object[word[p][w].object].gen) # {}

\* An object is in an older generation after each move.
OlderByMoves == \A o \in Referent : object[o].moves <= object[o].gen

\* A clean card, and a clean page of code objects, has no reference to a
\* younger generation, and no word is left with an old address.
CardInvariant ==
  /\ CardTypes /\ OlderByMoves
  /\ NeverDangles /\ CleanCardsHaveNoYounger /\ CleanPagesHaveNoYounger

=============================================================================
