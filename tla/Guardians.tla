------------------------------ MODULE Guardians ------------------------------
(***************************************************************************)
(* Guardians: handle_guardians and gc_finalize_guardians of                *)
(* ikarus-collect.c, ikrt_register_guardian_pair of ikarus-runtime.c and   *)
(* make-guardian of ikarus.guardians.sls.                                  *)
(*                                                                         *)
(* A registration is the pair (tc . obj) that the program conses and the   *)
(* run-time system stores in a protected list; the protected lists are not *)
(* roots.  The tconc of a guardian is a queue of such pairs: the pair of   *)
(* an object that is returned becomes the new last pair of the queue.  The *)
(* trace of a collection is one step, all that is live before the          *)
(* guardians are handled: what roots and older objects lead to (older      *)
(* objects that refer to younger ones are dirty, see Collector).           *)
(*                                                                         *)
(* LiveIfOld, SkipCollected, HoldFirst, InOldestList and BreakIfUntraced,  *)
(* which no action uses, are what a plausible bug would make of the        *)
(* definition that follows each.                                           *)
(***************************************************************************)
EXTENDS Naturals, FiniteSets, Sequences, SequencesExt

CONSTANTS
  Object, Guardian,
  Reg,     \* registrations: a bound on the pairs (tc . obj) at any time
  Weakable, \* the objects of which the program makes weak pairs
  LastGen, \* IK_GC_GENERATION_OLDEST
  Nobody

\* What the constants must satisfy.
GuardianAssumptions ==
  /\ LastGen \in Nat \ {0}
  /\ Nobody \notin Object \cup Guardian
  /\ Object \cap Guardian = {} /\ Weakable \subseteq Object
  /\ IsFiniteSet(Reg)

VARIABLES
  exists,    \* objects and guardians that are allocated
  gen,       \* their generation numbers
  ref,       \* the object or guardian that an object refers to
  queue,     \* the tconcs of the guardians
  reg,       \* the tc and the obj of registrations
  protected, \* pcb->protected_list
  roots,
  weak,      \* the car of a weak pair that the program holds
  phase, collect_gen,
  kept,      \* what the collection has gathered, or need not
  traced,    \* what was kept before the guardians were handled
  pend_hold, pend_final, forward_list

guardedVars == <<exists, gen, ref, queue, reg, protected, roots, weak>>
gcVars == <<phase, collect_gen, kept, traced, pend_hold, pend_final, forward_list>>
guardianVars == <<guardedVars, gcVars>>

Node  == Object \cup Guardian
Gen   == 0 .. LastGen
NoReg == [tc |-> Nobody, obj |-> Nobody]

GuardianTypes ==
  /\ exists \subseteq Node /\ roots \subseteq exists
  /\ gen \in [Node -> Gen]
  /\ ref \in [Object -> Node \cup {Nobody}]
  /\ queue \in [Guardian -> Seq(Reg)] /\ \A g \in Guardian : IsInjective(queue[g])
  /\ reg \in [Reg -> [tc : Guardian \cup {Nobody}, obj : Node \cup {Nobody}]]
  /\ protected \in [Gen -> SUBSET Reg]
  /\ weak \in Node \cup {Nobody}
  /\ phase \in {"mutator", "sort", "final", "hold", "reclaim"} /\ collect_gen \in Gen
  /\ kept \subseteq exists /\ traced \subseteq kept
  /\ pend_hold \cup pend_final \cup forward_list \subseteq Reg

GuardianInit ==
  /\ exists = {} /\ roots = {}
  /\ gen = [n \in Node |-> 0]
  /\ ref = [o \in Object |-> Nobody]
  /\ queue = [g \in Guardian |-> <<>>]
  /\ reg = [r \in Reg |-> NoReg]
  /\ protected = [g \in Gen |-> {}]
  /\ weak = Nobody
  /\ phase = "mutator" /\ collect_gen = 0
  /\ kept = {} /\ traced = {}
  /\ pend_hold = {} /\ pend_final = {} /\ forward_list = {}

\* What n refers to: the pairs in a tconc keep the objects in it alive.
Refs(n) ==
  (IF n \in Guardian THEN {reg[r].obj : r \in ToSet(queue[n])} ELSE {ref[n]}) \ {Nobody}

IsClosed(S) == \A n \in S : Refs(n) \subseteq S

\* All that S leads to.
Closure(S) == {n \in Node : \A T \in SUBSET Node : S \subseteq T /\ IsClosed(T) => n \in T}

-----------------------------------------------------------------------------
(* The running program.                                                    *)

Allocate(n, v) ==
  /\ phase = "mutator"
  /\ n \notin exists
  /\ exists' = exists \cup {n}
  /\ roots' = roots \cup {n}
  /\ gen' = [gen EXCEPT ![n] = 0]
  /\ IF n \in Object THEN ref' = [ref EXCEPT ![n] = v] /\ UNCHANGED queue
                     ELSE queue' = [queue EXCEPT ![n] = <<>>] /\ UNCHANGED ref
  /\ UNCHANGED <<reg, protected, weak, gcVars>>

Mutate(o, v) ==
  /\ phase = "mutator"
  /\ o \in roots
  /\ ref' = [ref EXCEPT ![o] = v]
  /\ UNCHANGED <<exists, gen, queue, reg, protected, roots, weak, gcVars>>

Drop(n) ==
  /\ phase = "mutator"
  /\ n \in roots
  /\ roots' = roots \ {n}
  /\ UNCHANGED <<exists, gen, ref, queue, reg, protected, weak, gcVars>>

weak_cons(n) ==
  /\ phase = "mutator"
  /\ weak = Nobody
  /\ n \in roots
  /\ weak' = n
  /\ UNCHANGED <<exists, gen, ref, queue, reg, protected, roots, gcVars>>

\* (guardian obj): the pair is new, and is stored in the list of generation 0.
ikrt_register_guardian_pair(r, g, n) ==
  /\ phase = "mutator"
  /\ reg[r] = NoReg
  /\ g \in roots /\ n \in roots
  /\ reg' = [reg EXCEPT ![r] = [tc |-> g, obj |-> n]]
  /\ protected' = [protected EXCEPT ![0] = @ \cup {r}]
  /\ UNCHANGED <<exists, gen, ref, queue, roots, weak, gcVars>>

\* (guardian): the first object of the tconc is taken out and returned.
Retrieve(g) ==
  /\ phase = "mutator"
  /\ g \in roots
  /\ queue[g] # <<>>
  /\ queue' = [queue EXCEPT ![g] = Tail(@)]
  /\ roots' = roots \cup {reg[Head(queue[g])].obj}
  /\ reg' = [reg EXCEPT ![Head(queue[g])] = NoReg]
  /\ UNCHANGED <<exists, gen, ref, protected, weak, gcVars>>

-----------------------------------------------------------------------------
(* A collection.                                                           *)

next_gen(i) == IF i = LastGen THEN i ELSE i + 1

LiveIfOld(n) == gen[n] > collect_gen

is_live(n) == gen[n] > collect_gen \/ n \in kept

StartCollection(g) ==
  /\ phase = "mutator"
  /\ phase' = "sort"
  /\ collect_gen' = g
  /\ kept' = Closure(roots \cup {n \in exists : gen[n] > g})
  /\ traced' = kept'
  /\ UNCHANGED <<guardedVars, pend_hold, pend_final, forward_list>>

SkipCollected(g) == {k \in Gen : k < g}

\* The protected lists that a collection looks at.
CollectedLists(g) == 0 .. g

\* Sort the protected pairs into PEND_HOLD and PEND_FINAL.
SortProtected ==
  /\ phase = "sort"
  /\ LET pairs == UNION {protected[g] : g \in CollectedLists(collect_gen)}
     IN  /\ pend_hold' = {r \in pairs : is_live(reg[r].obj)}
         /\ pend_final' = {r \in pairs : ~ is_live(reg[r].obj)}
  /\ protected' = [g \in Gen |-> IF g \in CollectedLists(collect_gen) THEN {}
                                 ELSE protected[g]]
  /\ phase' = "final"
  /\ UNCHANGED <<exists, gen, ref, queue, reg, roots, weak,
                 collect_gen, kept, traced, forward_list>>

\* Gathering the pairs: their objects live again, with all they refer to.
Gathered(pairs) ==
  Closure(kept \cup {reg[r].tc : r \in pairs} \cup {reg[r].obj : r \in pairs})

\* A round of the loop on PEND_FINAL: an object that lives again may bring
\* back the tconc of another guardian, for the next round.
FinalRound ==
  /\ phase = "final"
  /\ LET final == {r \in pend_final : is_live(reg[r].tc)}
     IN  /\ pend_final' = pend_final \ final
         /\ forward_list' = forward_list \cup final
         /\ kept' = Gathered(final)
         /\ phase' = IF final = {} THEN "hold" ELSE "final"
  /\ UNCHANGED <<guardedVars, collect_gen, traced, pend_hold>>

HoldFirst == {r \in pend_hold : reg[r].tc \in traced \/ gen[reg[r].tc] > collect_gen}

\* The pairs of PEND_HOLD that go on being protected.
Protected == {r \in pend_hold : is_live(reg[r].tc)}

InOldestList(g) == LastGen

\* The list in which they are put.
TargetList(g) == next_gen(g)

HoldRound ==
  /\ phase = "hold"
  /\ protected' = [protected EXCEPT ![TargetList(collect_gen)] = @ \cup Protected]
  /\ kept' = Gathered(Protected)
  /\ pend_hold' = {} /\ pend_final' = {}
  /\ phase' = "reclaim"
  /\ UNCHANGED <<exists, gen, ref, queue, reg, roots, weak,
                 collect_gen, traced, forward_list>>

BreakIfUntraced(n) == IF n \in traced THEN n ELSE Nobody

\* fix_weak_pointers: a broken car is Nobody.
FixedCar(n) == IF n \in kept THEN n ELSE Nobody

\* The generation number of what is kept.
Aged(n) == IF gen[n] <= collect_gen THEN next_gen(collect_gen) ELSE gen[n]

\* The pairs for the tconc of g, in some order.
Returned(g) == {r \in forward_list : reg[r].tc = g}

\* fix_weak_pointers, deallocate_unused_pages, fix_new_pages, and then
\* gc_finalize_guardians appends the pairs of FORWARD_LIST to their tconcs.
Reclaim ==
  /\ phase = "reclaim"
  /\ weak' = FixedCar(weak)
  /\ exists' = kept
  /\ gen' = [n \in Node |-> IF n \in kept THEN Aged(n) ELSE 0]
  /\ \E order \in [Guardian -> UNION {SetToSeqs(Returned(g)) : g \in Guardian}] :
       /\ \A g \in Guardian : order[g] \in SetToSeqs(Returned(g))
       /\ queue' = [g \in Guardian |-> IF g \in kept THEN queue[g] \o order[g] ELSE <<>>]
  /\ reg' = [r \in Reg |->
               IF \/ \E g \in Gen : r \in protected[g]
                  \/ \E g \in kept \cap Guardian : r \in ToSet(queue'[g])
               THEN reg[r] ELSE NoReg]
  /\ ref' = [o \in Object |-> IF o \in kept THEN ref[o] ELSE Nobody]
  /\ phase' = "mutator"
  /\ collect_gen' = 0 /\ kept' = {} /\ traced' = {} /\ forward_list' = {}
  /\ UNCHANGED <<protected, roots, pend_hold, pend_final>>

-----------------------------------------------------------------------------

GuardianNext ==
  \/ \E n \in Node, v \in roots \cup {Nobody} : Allocate(n, v)
  \/ \E o \in Object, v \in roots \cup {Nobody} : Mutate(o, v)
  \/ \E n \in Node : Drop(n)
  \/ \E n \in Weakable : weak_cons(n)
  \/ \E r \in Reg, g \in Guardian, n \in Node : ikrt_register_guardian_pair(r, g, n)
  \/ \E g \in Guardian : Retrieve(g)
  \/ \E g \in Gen : StartCollection(g)
  \/ SortProtected
  \/ FinalRound
  \/ HoldRound
  \/ Reclaim

GuardianSpec == GuardianInit /\ [][GuardianNext]_guardianVars

-----------------------------------------------------------------------------
(* Properties.                                                             *)

\* Whatever is reachable exists, and so do the objects and the guardians of
\* all pairs that are registered or wait to be retrieved: a guarded object
\* is never freed before the program has got it back.
GuardedNotFreed ==
  phase = "mutator" =>
    /\ Closure(roots) \subseteq exists
    /\ \A r \in Reg : reg[r] # NoReg => {reg[r].tc, reg[r].obj} \subseteq exists

\* Protected lists are not roots and old pairs are not dirty: a pair in the
\* list of a generation must not refer to younger objects, or a collection
\* that does not look at the list would leave it with old addresses.
ProtectedAreOld ==
  phase = "mutator" =>
    \A g \in Gen : \A r \in protected[g] :
      gen[reg[r].tc] >= g /\ gen[reg[r].obj] >= g

\* The rest are about the steps of a behaviour.

\* A registration is forgotten by a collection only if its guardian is gone.
RegistrationsKept ==
  phase = "reclaim" =>
    \A r \in Reg : reg[r] # NoReg /\ reg'[r] = NoReg => reg[r].tc \notin exists'

\* A guardian returns only objects that were not reachable when the
\* collection began, and each registration once.
OnlyDeadReturned ==
  \A g \in Guardian : \A r \in ToSet(queue'[g]) \ ToSet(queue[g]) :
    /\ reg[r].obj \notin Closure(roots)
    /\ \A h \in Gen : r \notin protected'[h]

\* A collection of the oldest generation returns all the guarded objects
\* that the program cannot reach.
FullCollectionReturnsAll ==
  phase = "reclaim" /\ collect_gen = LastGen =>
    \A h \in Gen : \A r \in protected'[h] : reg[r].obj \in Closure(roots)

\* The car of a weak pair is broken when its object is freed, and only then:
\* an object that a guardian returns is still in its weak pairs.
WeakCarsFollow ==
  phase = "reclaim" => weak' = IF weak \in exists' THEN weak ELSE Nobody

\* A guardian returns what is dead, nothing else, each registration once, and
\* all of it after a full collection; weak pairs follow what it returns.
GuardiansReturnTheDead ==
  [][RegistrationsKept /\ OnlyDeadReturned /\ FullCollectionReturnsAll
       /\ WeakCarsFollow]_guardianVars

-----------------------------------------------------------------------------
(* The inductive invariant behind them.                                    *)

Listed == UNION {protected[g] : g \in Gen}
Queued == UNION {ToSet(queue[g]) : g \in Guardian}

\* What exists refers to what exists, registrations too.
HeapInv ==
  /\ IsClosed(exists)
  /\ \A r \in Reg : reg[r] # NoReg => {reg[r].tc, reg[r].obj} \subseteq exists

\* A registration is in one place: a protected list, the queue of its
\* guardian, or a list of the collection.
PlacesInv ==
  /\ \A g \in Guardian : \A r \in ToSet(queue[g]) : reg[r].tc = g
  /\ \A g, h \in Gen : g # h => protected[g] \cap protected[h] = {}
  /\ Listed \cap Queued = {} /\ pend_hold \cap pend_final = {}
  /\ (Listed \cup Queued) \cap (pend_hold \cup pend_final \cup forward_list) = {}
  /\ forward_list \cap (pend_hold \cup pend_final) = {}
  /\ \A r \in Listed \cup Queued \cup pend_hold \cup pend_final \cup forward_list :
        reg[r] # NoReg

\* None is lost, but those of guardians that are dead.
NoneLost ==
  /\ phase \in {"mutator", "sort"} => pend_hold = {} /\ pend_final = {} /\ forward_list = {}
  /\ phase = "reclaim" => pend_hold = {} /\ pend_final = {}
  /\ \A r \in Reg : reg[r] # NoReg =>
        \/ r \in Listed \cup Queued \cup pend_hold \cup pend_final \cup forward_list
        \/ phase = "reclaim" /\ reg[r].tc \notin kept

\* What a collection has kept so far.
KeptInv ==
  phase # "mutator" =>
    /\ roots \cup {n \in exists : gen[n] > collect_gen} \subseteq traced
    /\ IsClosed(traced) /\ IsClosed(kept)
    /\ phase = "sort" => kept = traced
    /\ collect_gen = LastGen => traced \subseteq Closure(roots)

\* Only what was dead before is on the way back to its guardian.
PendingInv ==
  /\ \A r \in pend_hold : reg[r].obj \in traced
  /\ \A r \in pend_final \cup forward_list : reg[r].obj \notin traced
  /\ \A r \in forward_list : {reg[r].tc, reg[r].obj} \subseteq kept
  /\ phase = "hold" => \A r \in pend_final : reg[r].tc \notin kept

\* The protected lists that the collection has not looked at, and the one that
\* it fills.
ListsInv ==
  /\ phase \in {"final", "hold"} => \A g \in 0 .. collect_gen : protected[g] = {}
  /\ phase # "reclaim" =>
       \A g \in Gen : \A r \in protected[g] :
         gen[reg[r].tc] >= g /\ gen[reg[r].obj] >= g
  /\ phase = "reclaim" =>
       \A g \in Gen : \A r \in protected[g] :
         /\ {reg[r].tc, reg[r].obj} \subseteq kept
         /\ Aged(reg[r].tc) >= g /\ Aged(reg[r].obj) >= g
         /\ collect_gen = LastGen => reg[r].obj \in Closure(roots)

\* What is guarded is never freed before its guardian has returned it,
\* whatever generations are collected, and the pairs of a protected list are
\* no younger than the list says.
GuardianInvariant ==
  /\ GuardedNotFreed /\ ProtectedAreOld
  /\ GuardianTypes /\ HeapInv /\ PlacesInv /\ NoneLost /\ KeptInv /\ PendingInv /\ ListsInv

=============================================================================
