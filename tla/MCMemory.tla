------------------------------- MODULE MCMemory -------------------------------
(***************************************************************************)
(* Instances for TLC of the modules on memory: Guardians, DirtyCards,      *)
(* Pages and Nursery.  A behaviour is one of one of them: PART says which; *)
(* the variables of the others keep initial values.  The properties are    *)
(* those of the modules.  Two modules have two parts:                      *)
(*   guardians, weak: two guardians, one object and three generations; one *)
(*     guardian, two objects and weak pairs, generations 0 and 2 collected;*)
(*   cards, code: a page of pointers; a page of code objects, of which     *)
(*     none starts in the last card and none has an annotation.            *)
(***************************************************************************)
EXTENDS Nursery, Guardians, DirtyCards, Pages, TLC

CONSTANTS o1, o2, g1, g2, r1, r2, p1, p2

VARIABLE part

memoryVars == <<part, guardianVars, cardVars, pageVars, vars>>

ASSUME MemoryAssumption ==
  /\ GuardianAssumptions /\ CardAssumptions /\ BitsKept /\ PageAssumptions /\ Assumptions

\* The page of pointers, or of code objects, whose words are stored into; the
\* other one has no words and is as old as can be.
Used(p) == p = IF part = "code" THEN p2 ELSE p1

MemoryInit ==
  /\ Init /\ GuardianInit /\ CardInit /\ PagesInit
  /\ part \in {"guardians", "weak", "nursery", "cards", "code", "pages"}
  /\ part # "nursery" => \A s \in NurserySizes : nursery <= s
  /\ \A p \in OldPage : part \notin {"cards", "code"} \/ ~ Used(p) => page_gen[p] = 4
  /\ part # "pages" => mapped = 1 .. 4 /\ TypeOf(1) = "MAINHEAP"

Registered == {r \in Reg : reg[r] # NoReg}

\* The two instances of Guardians: what exists at a time; in the second, only
\* objects are guarded, once, and none beside that of a weak pair.
GuardianPart ==
  \/ part = "guardians" /\ Cardinality(exists' \cap Object) <= 1 /\ weak' = Nobody
  \/ /\ part = "weak" /\ Cardinality(exists' \cap Guardian) <= 1 /\ collect_gen' # 1
     /\ weak' = Nobody \/ Cardinality(Registered') <= 1
     /\ \A r, s \in Registered' :
          reg'[r].obj \in Object /\ (reg'[r].obj = reg'[s].obj => r = s)

GuardianStep == /\ GuardianNext /\ GuardianPart
                /\ UNCHANGED <<part, cardVars, pageVars, vars>>

CardStep == /\ part \in {"cards", "code"} /\ CardNext
            /\ \A p \in OldPage : ~ Used(p) => word'[p] = word[p]
            /\ UNCHANGED <<part, guardianVars, pageVars, vars>>

PageStep == /\ part = "pages" /\ PagesNext
            /\ UNCHANGED <<part, guardianVars, cardVars, vars>>

NurseryStep == /\ part = "nursery" /\ Next
               /\ UNCHANGED <<part, guardianVars, cardVars, pageVars>>

MemoryNext == GuardianStep \/ CardStep \/ PageStep \/ NurseryStep

MemorySpec == MemoryInit /\ [][MemoryNext]_memoryVars

\* Objects, guardians and registrations are interchangeable.
Symmetry == Permutations(Object) \cup Permutations(Guardian) \cup Permutations(Reg)

=============================================================================
