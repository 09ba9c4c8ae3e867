------------------------------- MODULE Gensyms -------------------------------
(***************************************************************************)
(* Generated symbols: ikarus.symbols.sls and the gensym table of           *)
(* ikarus-symbol-table.c.  A gensym gets a unique string when it is asked  *)
(* for; from then on it is in the table, which keeps it alive and gives it *)
(* to who reads #{pretty unique}.  Unique strings come from a generator of *)
(* identifiers, which may repeat one.  Pretty strings, which many gensyms  *)
(* may share, are left out.                                                *)
(*                                                                         *)
(* AlwaysInterns, which no action uses, is what a plausible bug would make *)
(* of the definition that follows it.                                      *)
(***************************************************************************)

CONSTANTS
  Gensym, \* a bound on the gensyms that are alive
  Unique

\* What the constants must satisfy.
GensymAssumptions == Unique \cap {"free", "unset", "uninterned"} = {}

VARIABLES
  unique,       \* field unique_string; "free" is a gensym that does not exist
  gensym_table,
  kept,         \* gensyms the program refers to
  written       \* gensyms, with what #{pretty unique} was written for them

gensymVars == <<unique, gensym_table, kept, written>>

GensymTypes ==
  /\ unique \in [Gensym -> Unique \cup {"free", "unset", "uninterned"}]
  /\ gensym_table \cup kept \subseteq {g \in Gensym : unique[g] # "free"}
  /\ written \subseteq Gensym \X Unique

GensymInit ==
  /\ unique = [g \in Gensym |-> "free"]
  /\ gensym_table = {} /\ kept = {} /\ written = {}

-----------------------------------------------------------------------------

\* gensym, by $make-symbol.
gensym(g) ==
  /\ unique[g] = "free"
  /\ unique' = [unique EXCEPT ![g] = "unset"]
  /\ kept' = kept \cup {g}
  /\ UNCHANGED <<gensym_table, written>>

\* The gensym that the table has for a unique string.
GensymsOf(u) == {g \in gensym_table : unique[g] = u}

AlwaysInterns(u) == TRUE

\* ikrt_intern_gensym answers whether the string was not in the table.
Interns(u) == GensymsOf(u) = {}

\* gensym->unique-string, for the writer: identifiers are generated until
\* one can be interned.
gensym_to_unique_string(g, u) ==
  /\ g \in kept
  /\ IF unique[g] \in Unique
     THEN u = unique[g] /\ UNCHANGED <<unique, gensym_table>>
     ELSE /\ Interns(u)
          /\ unique' = [unique EXCEPT ![g] = u]
          /\ gensym_table' = gensym_table \cup {g}
  /\ written' = written \cup {<<g, u>>}
  /\ UNCHANGED kept

\* ikrt_strings_to_gensym, for the readers of data and of FASL files.
strings_to_gensym(u) ==
  /\ IF GensymsOf(u) # {}
     THEN /\ \E g \in GensymsOf(u) : kept' = kept \cup {g}
          /\ UNCHANGED <<unique, gensym_table>>
     ELSE \E g \in Gensym :
            /\ unique[g] = "free"
            /\ unique' = [unique EXCEPT ![g] = u]
            /\ gensym_table' = gensym_table \cup {g}
            /\ kept' = kept \cup {g}
  /\ UNCHANGED written

\* ikrt_unintern_gensym: the gensym loses its unique string.
unintern_gensym(g) ==
  /\ g \in kept \cap gensym_table
  /\ gensym_table' = gensym_table \ {g}
  /\ unique' = [unique EXCEPT ![g] = "uninterned"]
  /\ UNCHANGED <<kept, written>>

\* The program drops a gensym.  The table still refers to those it has.
DropGensym(g) ==
  /\ g \in kept
  /\ kept' = kept \ {g}
  /\ IF g \in gensym_table THEN UNCHANGED <<unique, written>>
     ELSE /\ unique' = [unique EXCEPT ![g] = "free"]
          /\ written' = {w \in written : w[1] # g}
  /\ UNCHANGED gensym_table

GensymNext ==
  \/ \E g \in Gensym : gensym(g) \/ unintern_gensym(g) \/ DropGensym(g)
  \/ \E g \in Gensym, u \in Unique : gensym_to_unique_string(g, u)
  \/ \E u \in Unique : strings_to_gensym(u)

GensymSpec == GensymInit /\ [][GensymNext]_gensymVars

-----------------------------------------------------------------------------
(* Properties.                                                             *)

\* What was written for a gensym is read as that gensym and as no other,
\* until it is uninterned: it is then in the table, alone, under the string.
WrittenIsRead == \A w \in written : unique[w[1]] = w[2] => GensymsOf(w[2]) = {w[1]}

\* The table has exactly the gensyms with a unique string, and one for each.
TableInv ==
  /\ \A g \in Gensym : unique[g] \in Unique <=> g \in gensym_table
  /\ \A g, h \in gensym_table : unique[g] = unique[h] => g = h

\* A gensym that was written is the one that is read, and what makes it so.
GensymInvariant == GensymTypes /\ TableInv /\ WrittenIsRead

=============================================================================
