------------------------ MODULE MCCollectorRefinement ------------------------
(***************************************************************************)
(* A small instance of CollectorRefinement for TLC; see MCCollector for    *)
(* the placement of objects.                                               *)
(***************************************************************************)
EXTENDS CollectorRefinement, TLC

CONSTANT N

TwinPages(X, S) ==
  IF X = Null
  THEN LET free == {p \in S : p <= N /\ p + N \in S}
       IN  {p \in free : \A q \in free : p <= q}
  ELSE S \cap {X - N, X + N}

Symmetry == Permutations(Root)

=============================================================================
