----------------------------- MODULE ObjectHeap -----------------------------
(***************************************************************************)
(* What the Scheme program is promised by the memory system of Vicare: a   *)
(* graph of objects with identity (eq?), in which memory addresses,        *)
(* generations, dirty bits and the moving of objects do not appear.  An    *)
(* object may vanish only when no chain of strong references leads to it   *)
(* from the program's roots, and a weak pair loses its car, which becomes  *)
(* the BWP object, only when the car is such an object.                    *)
(*                                                                         *)
(* Module Collector is shown to implement this specification.              *)
(***************************************************************************)
EXTENDS Naturals

CONSTANTS
  Obj,        \* object identities
  Root,       \* words the collector treats as roots: stack words, PCB fields
  Slot,       \* the words of the data area of an object
  Kind,       \* kinds of objects the program allocates
  Immediate,  \* any self-contained word: a fixnum, a boolean, null
  BWP,        \* the broken weak pointer object
  Absent      \* marks an identity not in use

VARIABLES
  graph,      \* [Obj -> the object, or Absent]
  names       \* [Root -> the identity or immediate held by the root]

heapVars == <<graph, names>>

Word == Obj \cup {Immediate, BWP}

Object == [kind : Kind, slots : [Slot -> Word]]

Present == {o \in Obj : graph[o] # Absent}

\* The car of a weak pair is the only word that keeps nothing alive.
IsWeak(kind, s) == kind = "weak" /\ s = "car"

StrongSlots(o) == {s \in Slot : ~ IsWeak(graph[o].kind, s)}

\* A set of objects that the roots cannot lead out of.
Closed(S) ==
  /\ \A r \in Root : names[r] \in Obj => names[r] \in S
  /\ \A o \in S \cap Present : \A s \in StrongSlots(o) :
        graph[o].slots[s] \in Obj => graph[o].slots[s] \in S

\* An object is reachable when no closed set leaves it out.
Reachable(o) == \A S \in SUBSET Obj : Closed(S) => o \in S

Held == {names[r] : r \in Root} \cup {Immediate}

Init ==
  /\ graph = [o \in Obj |-> Absent]
  /\ names = [r \in Root |-> Immediate]

Allocate(r, k, o, words) ==
  /\ graph[o] = Absent
  /\ graph' = [graph EXCEPT ![o] = [kind |-> k, slots |-> words]]
  /\ names' = [names EXCEPT ![r] = o]

SetSlot(r, s, v) ==
  /\ names[r] \in Present
  /\ graph' = [graph EXCEPT ![names[r]].slots[s] = v]
  /\ UNCHANGED names

GetSlot(r, s, x) ==
  /\ names[r] \in Present
  /\ names' = [names EXCEPT ![x] = graph[names[r]].slots[s]]
  /\ UNCHANGED graph

Drop(r) ==
  /\ names' = [names EXCEPT ![r] = Immediate]
  /\ UNCHANGED graph

\* Some weak pairs lose an unreachable car.
BreakWeak(W) ==
  /\ \A o \in W :
       /\ graph[o].kind = "weak"
       /\ graph[o].slots["car"] \in Obj
       /\ ~ Reachable(graph[o].slots["car"])
  /\ graph' = [o \in Obj |->
                 IF o \in W
                 THEN [graph[o] EXCEPT !.slots["car"] = BWP]
                 ELSE graph[o]]
  /\ UNCHANGED names

\* Some unreachable objects, to which no object left refers, vanish.
Reclaim(D) ==
  /\ \A o \in D : ~ Reachable(o)
  /\ \A o \in Present \ D : \A s \in Slot : graph[o].slots[s] \notin D
  /\ graph' = [o \in Obj |-> IF o \in D THEN Absent ELSE graph[o]]
  /\ UNCHANGED names

Next ==
  \/ \E r \in Root, k \in Kind, o \in Obj, words \in [Slot -> Held] :
        Allocate(r, k, o, words)
  \/ \E r \in Root, s \in Slot, v \in Held : SetSlot(r, s, v)
  \/ \E r, x \in Root, s \in Slot : GetSlot(r, s, x)
  \/ \E r \in Root : Drop(r)
  \/ \E W \in SUBSET Present : BreakWeak(W)
  \/ \E D \in SUBSET Present : Reclaim(D)

Spec == Init /\ [][Next]_heapVars

=============================================================================
