----------------------------- MODULE MCCollector -----------------------------
(***************************************************************************)
(* Small instances of Collector for TLC: with two objects in memory at the *)
(* same time, behaviours of any length; and with three, but no big vector, *)
(* those of a bounded number of steps of the program and of collections.   *)
(***************************************************************************)
EXTENDS CollectorInvariant, TLC

CONSTANTS
  N,                           \* pages are 1 to 2N
  MaxMutations, MaxCollections, MaxTogether

VARIABLES
  bounded, mutations, collections

\* Each object has two pages, p and p + N: it is moved from the one to the
\* other, and a new object goes to the first two pages that are both free.
\* The addresses that ik_mmap_typed returns do not matter to the collector.
TwinPages(X, S) ==
  IF X = Null
  THEN LET free == {p \in S : p <= N /\ p + N \in S}
       IN  {p \in free : \A q \in free : p <= q}
  ELSE S \cap {X - N, X + N}

MCInit == Init /\ bounded \in BOOLEAN /\ mutations = 0 /\ collections = 0

Unbounded ==
  /\ ~ bounded
  /\ Next
  /\ segment_vector'[N].kind = "hole"
  /\ UNCHANGED <<bounded, mutations, collections>>

Bounded ==
  /\ bounded
  /\ \/ /\ mutations < MaxMutations
        /\ MutatorStep
        /\ \A p \in Page : segment_vector'[p].kind # "big"
        /\ mutations' = mutations + 1
        /\ UNCHANGED collections
     \/ /\ collections < MaxCollections
        /\ \E g \in Gen : StartCollection(g)
        /\ collections' = collections + 1
        /\ UNCHANGED mutations
     \/ CollectorStep /\ UNCHANGED <<mutations, collections>>
  /\ mutations' + collections' <= MaxTogether
  /\ UNCHANGED bounded

MCSpec == MCInit /\ [][Unbounded \/ Bounded]_<<vars, bounded, mutations, collections>>

\* Roots are interchangeable.
Symmetry == Permutations(Root)

=============================================================================
