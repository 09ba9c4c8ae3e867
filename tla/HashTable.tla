------------------------------ MODULE HashTable ------------------------------
(***************************************************************************)
(* What a mutable hash table promises to the program: hashtable-ref,       *)
(* hashtable-set!, hashtable-update!, hashtable-delete! and                *)
(* hashtable-clear! on a partial map.                                      *)
(***************************************************************************)
CONSTANTS Key, Value, None

VARIABLES
  map,   \* the value associated to each key, or None
  result \* what the last operation to complete returned

vars == <<map, result>>

Init ==
  /\ map = [k \in Key |-> None]
  /\ result = None

Ref(k) == result' = map[k] /\ UNCHANGED map

Set(k, v) == map' = [map EXCEPT ![k] = v] /\ result' = v

\* A key without an association is left alone.
Delete(k) == result' = map[k] /\ map' = [map EXCEPT ![k] = None]

Clear == map' = [k \in Key |-> None] /\ result' = None

Next ==
  \/ \E k \in Key : Ref(k) \/ Delete(k)
  \/ \E k \in Key, v \in Value : Set(k, v)
  \/ Clear

Spec == Init /\ [][Next]_vars

=============================================================================
