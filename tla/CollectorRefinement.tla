-------------------------- MODULE CollectorRefinement --------------------------
(***************************************************************************)
(* The collector implements ObjectHeap.  An auxiliary variable names the   *)
(* object that each page holds: a copy has the name of the original, and a *)
(* new object takes a name that no page has.  The abstract heap is read    *)
(* from the pages whose object has not been moved away.                    *)
(***************************************************************************)
EXTENDS Collector

CONSTANT Obj \* the names of objects

\* No word, and no mark of a name not in use, is a name or an object.
ASSUME NameAssumption ==
  /\ {Immediate, BWP, Null} \cap Obj = {}
  /\ Null \notin [kind : Kind, slots : [Slot -> Obj \cup {Immediate, BWP}]]

\* Where there is room for one more object there is a name for it.
ASSUME FreshAssumption ==
  \A H \in SUBSET Page :
    Placement(Null, H) # {} =>
      \A f \in [Page \ H -> Obj] : \E o \in Obj : \A p \in Page \ H : f[p] # o

VARIABLE object \* [Page -> the name of the object in the page, or Null]

NewName == CHOOSE o \in Obj : \A p \in Page : object[p] # o

\* The name of the object that page p holds after a step.
NameAfter(p) ==
  IF segment_vector'[p].kind = "hole" THEN Null
  ELSE IF p \in Occupied THEN object[p]
  ELSE IF \E X \in Page : forward'[X] = p
       THEN object[CHOOSE X \in Page : forward'[X] = p]
       ELSE NewName

NamedInit == Init /\ object = [p \in Page |-> Null]

NamedNext == Next /\ object' = [p \in Page |-> NameAfter(p)]

NamedSpec == NamedInit /\ [][NamedNext]_<<vars, object>>

-----------------------------------------------------------------------------

Current == {p \in Occupied : forward[p] = Null}

NameOf(w) == IF w \in Page THEN object[w] ELSE w

Holders(o) == {p \in Current : object[p] = o}

graph ==
  [o \in Obj |->
     IF Holders(o) = {} THEN Null
     ELSE LET p == CHOOSE p \in Holders(o) : TRUE
          IN  [kind  |-> segment_vector[p].kind,
               slots |-> [s \in Slot |-> NameOf(mem[p][s])]]]

names == [r \in Root |-> NameOf(roots[r])]

Heap == INSTANCE ObjectHeap WITH graph <- graph, names <- names, Absent <- Null

\* Every step of the program and of the collector is a step of the abstract
\* heap or changes nothing in it: moving objects, forwarding words, retagging
\* pages is invisible to the program, only unreachable objects are reclaimed
\* and only weak pairs whose car is unreachable are broken.
ImplementsHeap == Heap!Spec

=============================================================================
