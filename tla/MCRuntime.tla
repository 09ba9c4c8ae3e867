------------------------------ MODULE MCRuntime ------------------------------
(***************************************************************************)
(* Instances for TLC of EqHashTables and of Continuations, each with the   *)
(* abstract module that it implements, of SymbolTable and of Gensyms.  A   *)
(* behaviour is one of one of them: PART says which, the variables of the  *)
(* others keep an initial value.  The properties are those of the modules. *)
(* Continuations has two parts: functions with frames of one and two words *)
(* and three continuation objects; and C functions that call back.         *)
(* SymbolTable has two: three symbols; and two, with hooks of the program  *)
(* that intern strings.                                                    *)
(***************************************************************************)
EXTENDS EqHashTables, SymbolTable, Gensyms, Continuations, TLC

CONSTANTS k1, k2, k3, v1, b1, b2, b3, n1, n2

VARIABLE part

runtimeVars == <<part, vars, contVars, symbolVars, gensymVars>>

\* Two names with one chain in a vector of two and with two in one of four.
TwoNames == [n \in Name |-> IF n = n1 THEN 0 ELSE 2]

OneAndTwo == [f |-> 1, g |-> 2]

ASSUME RuntimeAssumption ==
  /\ Assumptions /\ SymbolAssumptions /\ GensymAssumptions /\ StackAssumptions

RuntimeInit ==
  /\ part \in {"tables", "frames", "callouts", "symbols", "hooked symbols", "gensyms"}
  /\ Init
  /\ part # "tables" => address = [k \in Key |-> 0]
  /\ SymbolInit /\ GensymInit /\ ContInit

TableStep == /\ part = "tables" /\ Next
             /\ UNCHANGED <<part, contVars, symbolVars, gensymVars>>

StackStep == /\ part \in {"frames", "callouts"} /\ ContNext
             /\ part = "frames" => callouts' = 0 /\ kont'[4] = Unused
             /\ part = "callouts" /\ mode' = "entry" =>
                  fp' = fp \/ (mem'[fp'] = "f" /\ Len(ControlList) < 2)
             /\ UNCHANGED <<part, vars, symbolVars, gensymVars>>

SymbolStep == /\ part \in {"symbols", "hooked symbols"} /\ SymbolNext
              /\ part = "symbols" => hooks' # "inside"
              /\ part = "hooked symbols" => name'[3] = Nil
              /\ UNCHANGED <<part, vars, contVars, gensymVars>>

GensymStep == /\ part = "gensyms" /\ GensymNext
              /\ UNCHANGED <<part, vars, contVars, symbolVars>>

RuntimeNext == TableStep \/ StackStep \/ SymbolStep \/ GensymStep

RuntimeSpec == RuntimeInit /\ [][RuntimeNext]_runtimeVars

\* Buckets of a table are interchangeable.
Symmetry == Permutations({b1, b2, b3})

-----------------------------------------------------------------------------
\* Whatever was captured, split, moved or copied, execution returns to the
\* frames that were left, and an escape procedure puts back the frames that
\* there were when it was made (Continuations).
Control ==
  INSTANCE ControlStack WITH stack <- ControlList, conts <- Captured, mode <- AbstractMode

ImplementsControl == Control!ControlSpec

=============================================================================
