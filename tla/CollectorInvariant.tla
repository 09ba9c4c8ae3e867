-------------------------- MODULE CollectorInvariant --------------------------
(***************************************************************************)
(* The inductive invariant of Collector.  NoDangling and RememberedSet     *)
(* are not inductive by themselves: between the start and the end of a     *)
(* collection they rest on where the addresses of collected pages may      *)
(* still be found, which is what TraceInv and RootInv say.                 *)
(***************************************************************************)
EXTENDS Collector

\* A free page is of generation 0 and is not forwarded.
HoleInv ==
  \A p \in Holes : /\ segment_vector[p].gen = 0
                   /\ ~ segment_vector[p].new
                   /\ forward[p] = Null

\* A page kept by the collection under way is one generation older.
NewInv ==
  \A p \in Page : segment_vector[p].new =>
                    segment_vector[p].gen = next_gen(collect_gen)

\* Only collected pages are forwarded, and to pages that are kept.
ForwardInv ==
  \A p \in Page : forward[p] # Null =>
                    /\ p \in Occupied
                    /\ ~ Uncollected(p)
                    /\ Uncollected(forward[p])

\* What is still to be scanned.
WorkInv ==
  /\ \A w \in dirty_words : /\ segment_vector[w[1]].gen > collect_gen
                            /\ ~ segment_vector[w[1]].new
  /\ \A w \in new_words : segment_vector[w[1]].new

\* Words that collect_loop leaves alone, until fix_weak_pointers.
Unscanned(p, s) ==
  /\ phase = "trace"
  /\ segment_vector[p].new
  /\ segment_vector[p].kind = "weak"
  /\ s = "car"

\* A page that is kept refers to a collected page only through a word that
\* is still to be scanned, or through the car of a weak pair.
TraceInv ==
  phase # "mutator" =>
    \A p \in Page, s \in Slot :
      Uncollected(p) /\ mem[p][s] \in Page =>
        \/ Uncollected(mem[p][s])
        \/ <<p, s>> \in dirty_words \cup new_words
        \/ Unscanned(p, s)

RootInv ==
  phase # "mutator" =>
    \A r \in Root : roots[r] \in Page => Uncollected(roots[r]) \/ r \in root_words

\* Pages whose generation is not about to change.
Settled(p) == phase = "mutator" \/ Uncollected(p)

\* The remembered set, between the settled pages and outside the cards that
\* are being scanned.
CardInv ==
  \A p \in Occupied, s \in Slot :
    /\ mem[p][s] \in Page
    /\ Settled(p) /\ Settled(mem[p][s])
    /\ <<p, s>> \notin dirty_words
    => \/ segment_vector[mem[p][s]].gen >= segment_vector[p].gen
       \/ segment_vector[mem[p][s]].gen \in dirty_vector[p]

PhaseInv ==
  /\ phase # "trace" => dirty_words = {} /\ root_words = {} /\ new_words = {}
  /\ phase \in {"mutator", "untag"} => \A p \in Page : forward[p] = Null
  /\ phase = "mutator" => \A p \in Page : ~ segment_vector[p].new
  /\ phase = "untag" => \A p \in Occupied : Uncollected(p)

\* The pages filled or kept by the collection under way.
NewPages == {p \in Page : segment_vector[p].new}

\* S has all that is reachable from the roots through words that have been
\* gathered, cars of weak pairs excepted.
LeadsOn(S) ==
  /\ \A r \in Root \ root_words : roots[r] \in Page => roots[r] \in S
  /\ \A p \in S : \A s \in ScannedSlots(segment_vector[p].kind) :
       mem[p][s] \in Page /\ <<p, s>> \notin new_words => mem[p][s] \in S

\* A collection of the oldest generation keeps no page but those, and scans
\* no car of a weak pair.
PreciseInv ==
  phase # "mutator" /\ collect_gen = LastGen =>
    /\ \A w \in new_words : w[2] \in ScannedSlots(segment_vector[w[1]].kind)
    /\ \A S \in SUBSET NewPages : LeadsOn(S) => S = NewPages

IInv ==
  /\ TypeOK
  /\ NoDangling
  /\ HoleInv
  /\ NewInv
  /\ ForwardInv
  /\ WorkInv
  /\ TraceInv
  /\ RootInv
  /\ CardInv
  /\ PhaseInv

\* With it, the inductive invariant behind FullCollectionPrecise.
WholeInv == IInv /\ PreciseInv

=============================================================================
