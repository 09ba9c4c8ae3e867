----------------------------- MODULE SymbolTable -----------------------------
(***************************************************************************)
(* The table of the interned symbols: ikarus.symbol-table.sls, and the     *)
(* table of ikarus-symbol-table.c that it takes over when the boot image   *)
(* is loaded.  The table refers to its symbols by weak pairs and registers *)
(* them in a guardian: a symbol that dies is handed over by the guardian,  *)
(* alive again, to be removed, unless it has been asked for meanwhile.     *)
(*                                                                         *)
(* An operation is cut where it allocates: there a collection may happen,  *)
(* and after it the hooks.  Collections from C functions run no hooks.     *)
(* Which of the unreachable symbols a collection finds depends on their    *)
(* generations: it may be any (see Guardians).  Chains are sets.           *)
(*                                                                         *)
(* A symbol is put in EXCUSED when the code goes wrong about it: it was    *)
(* taken out of a weak pair after it died (Revive), it was removed while   *)
(* string->symbol was about to return it (CleanupPop), or a hook of the    *)
(* program interned a string while string->symbol was allocating           *)
(* (MakeSymbol).  The properties are about all the other symbols.          *)
(*                                                                         *)
(* OldLength, DeadIfUnheld and NeverEq, which no action uses, are what a   *)
(* plausible bug would make of the definition that follows each.           *)
(***************************************************************************)
EXTENDS Integers, FiniteSets

CONSTANTS
  Name,
  Symbol,      \* numbers: a bound on the symbols that are alive
  Hash,        \* string-hash of a name
  Lengths,     \* of the buckets vector: powers of 2
  FirstLength, \* the least of them
  MaxSize,     \* bound on the size with which string->symbol begins
  Nil

\* What the constants must satisfy.
SymbolAssumptions ==
  /\ Hash \in [Name -> Nat]
  /\ Lengths \subseteq Nat \ {0} /\ FirstLength \in Lengths
  /\ \A len \in Lengths \ {FirstLength} : \E half \in Lengths : len = 2 * half
  /\ Symbol \subseteq Nat /\ IsFiniteSet(Symbol)
  /\ Nil \notin Name \cup Nat /\ MaxSize \in Nat

VARIABLES
  name,       \* of the symbols that are allocated
  chain,      \* where in the buckets vector a symbol is
  buckets,    \* length of the buckets vector
  table_size,
  registered, \* symbols the guardian watches
  queued,     \* dead symbols it has to hand over
  bound,      \* symbols that have a value or properties
  held,       \* symbols the program holds
  interning,  \* what string->symbol is about to do
  hooks,      \* how far the hooks are, after a collection
  outer,      \* what it was about to do when a hook called it again
  excused,
  midway      \* a hook has counted a symbol in the middle of an operation

chainVars == <<name, chain, buckets, table_size>>
symbolVars == <<chainVars, registered, queued, bound, held, interning, hooks,
                outer, excused, midway>>

AtRest == [op |-> "idle"]
Boot   == [op |-> "boot"]

Allocated == {s \in Symbol : name[s] # Nil}
Fresh     == {s \in Symbol \ Allocated : \A t \in Symbol \ Allocated : s <= t}
Interned  == {s \in Symbol : chain[s] # Nil}
HashIndex(n, len) == Hash[n] % len
TableIndex(n)     == HashIndex(n, buckets)

SymbolInit ==
  /\ name = [s \in Symbol |-> Nil] /\ chain = [s \in Symbol |-> Nil]
  /\ buckets = FirstLength /\ table_size = 0
  /\ registered = {} /\ queued = {} /\ bound = {} /\ held = {}
  /\ interning = Boot /\ hooks = "none" /\ outer = AtRest
  /\ excused = {} /\ midway = FALSE

-----------------------------------------------------------------------------
(* While the boot image is loaded.                                         *)

\* iku_string_to_symbol.  The table of C functions is the symbols allocated:
\* it keeps them alive.
ikrt_string_to_symbol(n) ==
  /\ interning = Boot
  /\ \A s \in Symbol : name[s] # n
  /\ \E s \in Fresh : name' = [name EXCEPT ![s] = n]
  /\ UNCHANGED <<chain, buckets, table_size, registered, queued, bound, held, interning,
                 hooks, outer, excused, midway>>

\* extend-table doubles the vector, up to MAX-NUMBER-OF-BUCKETS.
MayDouble(len) == 2 * len \in Lengths

\* It is called when there is one symbol less than buckets: so after N
\* symbols the vector has the least length with room.
HasRoom(n, len) == n < len - 1 \/ ~ MayDouble(len)
LengthWith(n, len) == HasRoom(n, len) /\ \A l \in Lengths : HasRoom(n, l) => len <= l

\* $initialize-symbol-table! interns the symbols that it finds there.
initialize_symbol_table ==
  /\ interning = Boot
  /\ table_size' = Cardinality(Allocated)
  /\ \E len \in Lengths :
       /\ LengthWith(Cardinality(Allocated), len)
       /\ buckets' = len
       /\ chain' = [s \in Symbol |-> IF s \in Allocated THEN HashIndex(name[s], len)
                                                        ELSE Nil]
  /\ registered' = Allocated
  /\ interning' = AtRest
  /\ UNCHANGED <<name, queued, bound, held, hooks, outer, excused, midway>>

-----------------------------------------------------------------------------
(* Removing symbols, and collections.                                      *)

DeadIfUnheld(s) == TRUE

\* dead?, of a symbol that the guardian hands over: it has no value and no
\* properties.
dead(s) == s \notin bound

Found(s) == chain[s] = TableIndex(name[s])

\* unintern, which runs past the end of the chain if the symbol is not there:
\* the process is lost.
Unintern(s) ==
  IF Found(s)
  THEN /\ table_size' = table_size - 1
       /\ chain' = [chain EXCEPT ![s] = Nil]
       /\ UNCHANGED interning
  ELSE /\ interning' = [op |-> "lost", sym |-> s]
       /\ UNCHANGED <<table_size, chain>>

\* What an operation under way holds.
InHand(p) == CASE p.op \in {"register", "extend", "bleed", "lost"} -> {p.sym}
               [] p.op = "again" -> {p.sym, p.a}
               [] OTHER -> {}
InUse == held \cup InHand(interning) \cup InHand(outer)

\* A collection: the guardian gets D, and what it does not watch is freed.
\* AGAIN is registered before it.
Collection(again, D) ==
  LET watched == registered \cup again
      dying   == Allocated \ (InUse \cup queued \cup again)
      freed   == dying \ watched
  IN  /\ D \subseteq dying \cap watched
      /\ registered' = watched \ D
      /\ queued' = (queued \ again) \cup D
      /\ name' = [s \in Symbol |-> IF s \in freed THEN Nil ELSE name[s]]
      /\ bound' = bound \ freed
      /\ excused' = excused \ freed

Allocates == interning.op \in {"idle", "make", "register", "again"}

\* do-overflow: the hooks are called next.
CollectThenHooks(D) ==
  /\ hooks = "none" /\ Allocates
  /\ Collection({}, D)
  /\ hooks' = "program"
  /\ UNCHANGED <<chain, buckets, table_size, held, interning, outer, midway>>

\* A collection for a C function, as make-vector is, or in a hook: no hooks.
CollectWithoutHooks(D) ==
  /\ \/ hooks = "none" /\ interning.op \in {"idle", "extend"}
     \/ hooks = "inside" /\ (Allocates \/ interning.op = "extend")
  /\ Collection({}, D)
  /\ UNCHANGED <<chain, buckets, table_size, held, interning, hooks, outer, midway>>

\* A hook of the program interns a string, which is noted for $make-symbol.
HookBegins ==
  /\ hooks = "program"
  /\ hooks' = "inside" /\ interning' = AtRest
  /\ outer' = IF interning.op = "make" THEN [interning EXCEPT !.hooked = TRUE]
                                       ELSE interning
  /\ UNCHANGED <<chainVars, registered, queued, bound, held, excused, midway>>

HookEnds ==
  /\ hooks = "inside" /\ interning = AtRest
  /\ hooks' = "cleanup" /\ interning' = outer /\ outer' = AtRest
  /\ UNCHANGED <<chainVars, registered, queued, bound, held, excused, midway>>

\* The hook of the table, cleanup.  The symbol may be one that bleed-guardian
\* is about to return.  Registering allocates, and may collect.
CleanupPop(s, D) ==
  /\ hooks \in {"program", "cleanup"} /\ hooks' = "cleanup" /\ interning.op # "lost"
  /\ s \in queued
  /\ IF dead(s)
     THEN /\ D = {}
          /\ queued' = queued \ {s}
          /\ Unintern(s)
          /\ excused' = excused \cup ({s} \cap InUse)
          /\ UNCHANGED <<name, registered, bound>>
     ELSE Collection({s}, D) /\ UNCHANGED <<chain, table_size, interning>>
  /\ UNCHANGED <<buckets, held, outer, midway>>

HooksEnd ==
  /\ hooks \in {"program", "cleanup"} /\ queued = {} /\ interning.op # "lost"
  /\ hooks' = IF interning = AtRest THEN "none" ELSE "done"
  /\ UNCHANGED <<chainVars, registered, queued, bound, held, interning, outer,
                 excused, midway>>

-----------------------------------------------------------------------------
(* string->symbol.                                                         *)

Runs == hooks \in {"none", "inside"}

\* Allocation went on: there was room, or the hooks are done.
GoesOn == hooks # "program" /\ hooks # "cleanup" /\
          hooks' = IF hooks = "done" THEN "none" ELSE hooks

\* lookup.  If nothing is found, $make-symbol allocates next.
string_to_symbol(n) ==
  /\ interning = AtRest /\ Runs /\ table_size \in 0 .. MaxSize - 1
  /\ LET hits == {s \in Interned : name[s] = n /\ chain[s] = TableIndex(n)}
     IN  IF hits = {}
         THEN interning' = [op |-> "make", name |-> n, idx |-> TableIndex(n),
                            hooked |-> FALSE]
         ELSE \E s \in hits : interning' = [op |-> "bleed", sym |-> s]
  /\ UNCHANGED <<chainVars, registered, queued, bound, held, hooks, outer,
                 excused, midway>>

\* What lookup found: no symbol of that name in the chain at that index.
LookupStands(p) ==
  /\ p.idx = TableIndex(p.name)
  /\ \A t \in Interned : name[t] = p.name => ~ Found(t)

\* intern, and intern-symbol! up to the registration.  IDX was computed
\* before the symbol was allocated, and the chain was searched before.  A
\* hook may have interned the same name, or have had the vector extended.
MakeSymbol ==
  /\ interning.op = "make" /\ GoesOn
  /\ \E s \in Fresh :
       /\ name' = [name EXCEPT ![s] = interning.name]
       /\ chain' = [chain EXCEPT ![s] = interning.idx]
       /\ interning' = [op |-> "register", sym |-> s, n |-> table_size]
       /\ excused' = IF interning.hooked /\ ~ LookupStands(interning)
                     THEN excused \cup {s} ELSE excused
  /\ UNCHANGED <<buckets, table_size, registered, queued, bound, held, outer, midway>>

\* intern-symbol!, the rest.  The size was read before.
Register ==
  /\ interning.op = "register" /\ GoesOn
  /\ registered' = registered \cup {interning.sym}
  /\ table_size' = interning.n + 1
  /\ interning' = [op |-> IF table_size' = buckets - 1 /\ MayDouble(buckets)
                          THEN "extend" ELSE "bleed",
                   sym |-> interning.sym]
  /\ midway' = (midway \/ outer # AtRest)
  /\ UNCHANGED <<name, chain, buckets, queued, bound, held, outer, excused>>

OldLength(len) == buckets

\* extend-table hashes the symbols again, with the new mask.
HashedLength(len) == len

ExtendTable ==
  /\ interning.op = "extend" /\ GoesOn
  /\ buckets' = 2 * buckets
  /\ chain' = [s \in Symbol |->
                 IF s \in Interned THEN HashIndex(name[s], HashedLength(2 * buckets))
                                   ELSE Nil]
  /\ interning' = [op |-> "bleed", sym |-> interning.sym]
  /\ UNCHANGED <<name, table_size, registered, queued, bound, held, outer, excused,
                 midway>>

NeverEq(a, sym) == FALSE

\* The symbol that bleed-guardian got is the one to return.
IsReturned(a, sym) == a = sym

\* bleed-guardian: a symbol is removed, or registered again, which allocates.
BleedPop(a) ==
  /\ interning.op = "bleed" /\ Runs
  /\ a \in queued
  /\ queued' = queued \ {a}
  /\ IF IsReturned(a, interning.sym) \/ ~ dead(a)
     THEN /\ interning' = [op |-> "again", sym |-> interning.sym, a |-> a]
          /\ UNCHANGED <<chain, table_size, excused>>
     ELSE Unintern(a) /\ excused' = excused \cup ({a} \cap (held \cup InHand(outer)))
  /\ UNCHANGED <<name, buckets, registered, bound, held, hooks, outer, midway>>

Return(s) == held' = held \cup {s} /\ interning' = AtRest

BleedAgain ==
  /\ interning.op = "again" /\ GoesOn
  /\ registered' = registered \cup {interning.a}
  /\ IF IsReturned(interning.a, interning.sym)
     THEN Return(interning.sym)
     ELSE interning' = [op |-> "bleed", sym |-> interning.sym] /\ UNCHANGED held
  /\ UNCHANGED <<chainVars, queued, bound, outer, excused, midway>>

BleedEnds ==
  /\ interning.op = "bleed" /\ Runs /\ queued = {}
  /\ Return(interning.sym)
  /\ UNCHANGED <<chainVars, registered, queued, bound, hooks, outer, excused, midway>>

-----------------------------------------------------------------------------
(* The rest of the program.                                                *)

Resumed == interning = AtRest /\ Runs

DropSymbol(s) ==
  /\ Resumed /\ s \in held
  /\ held' = held \ {s}
  /\ UNCHANGED <<chainVars, registered, queued, bound, interning, hooks, outer,
                 excused, midway>>

\* set-symbol-value! or putprop, and remprop of the last property.
Bind(s) ==
  /\ Resumed /\ s \in held
  /\ bound' \in {bound \cup {s}, bound \ {s}}
  /\ UNCHANGED <<chainVars, registered, queued, held, interning, hooks, outer,
                 excused, midway>>

\* The car of a weak pair of the program.  The guardian has kept the symbol.
Revive(s) ==
  /\ Resumed /\ s \in Allocated \ held
  /\ held' = held \cup {s}
  /\ excused' = IF s \in Interned THEN excused ELSE excused \cup {s}
  /\ UNCHANGED <<chainVars, registered, queued, bound, interning, hooks, outer, midway>>

-----------------------------------------------------------------------------

SymbolNext ==
  \/ \E n \in Name : ikrt_string_to_symbol(n) \/ string_to_symbol(n)
  \/ initialize_symbol_table
  \/ MakeSymbol \/ Register \/ ExtendTable \/ BleedAgain \/ BleedEnds
  \/ \E s \in Symbol : BleedPop(s) \/ DropSymbol(s) \/ Bind(s) \/ Revive(s)
  \/ \E D \in SUBSET Symbol : CollectThenHooks(D) \/ CollectWithoutHooks(D)
  \/ \E s \in Symbol, D \in SUBSET Symbol : CleanupPop(s, D)
  \/ HookBegins \/ HookEnds \/ HooksEnd

SymbolSpec == SymbolInit /\ [][SymbolNext]_symbolVars

-----------------------------------------------------------------------------
(* Properties.                                                             *)

\* What string->symbol is about to do.
CallTypes(p) ==
  \/ p \in {AtRest, Boot}
  \/ p \in [op : {"make"}, name : Name, idx : 0 .. buckets - 1, hooked : BOOLEAN]
  \/ p \in [op : {"register"}, sym : Allocated, n : Int]
  \/ p \in [op : {"extend", "bleed", "lost"}, sym : Allocated]
  \/ p \in [op : {"again"}, sym : Allocated, a : Allocated]

SymbolTypes ==
  /\ name \in [Symbol -> Name \cup {Nil}]
  /\ buckets \in Lengths /\ table_size \in Int
  /\ chain \in [Symbol -> (0 .. buckets - 1) \cup {Nil}]
  /\ Interned \cup registered \cup queued \subseteq Allocated
  /\ bound \cup held \cup excused \subseteq Allocated
  /\ CallTypes(interning) /\ CallTypes(outer)
  /\ hooks \in {"none", "program", "inside", "cleanup", "done"}
  /\ midway \in BOOLEAN

\* string->symbol returns every symbol that the program holds for its name:
\* it is in the chain where it is looked for, and is the only one there,
\* although any number of symbols died, were handed over and removed since.
OneSymbol ==
  \A s \in held \ excused :
    /\ Found(s)
    /\ \A t \in Interned \ excused : name[t] = name[s] => t = s

\* A symbol with a value or with properties stays in the table even while
\* nothing refers to it: the program may ask for it by its name.
BoundStay == \A s \in bound \ excused : Found(s)

\* The symbol that string->symbol is about to register.
Unwatched(p) == CASE p.op = "register" -> {p.sym}
                  [] p.op = "again" -> {p.a}
                  [] OTHER -> {}

\* The guardian gets every symbol of the table when it dies, so that no chain
\* is left with a broken weak pair, and none stays for ever.
AllWatched ==
  interning.op # "lost" =>
    Interned \subseteq registered \cup queued \cup Unwatched(interning)
                                           \cup Unwatched(outer)

\* unintern finds what it removes: it does not run past the end of a chain.
NeverLost == interning.op = "lost" => interning.sym \in excused

\* The table is extended in time: its size is never below the number of its
\* symbols.  It may be above, for ever: the cleanup may count down while
\* intern-symbol! has the old size in hand.
SizeCovers ==
  ~ midway /\ interning.op # "lost" =>
    Cardinality(Interned \ (InHand(interning) \cup InHand(outer))) <= table_size

-----------------------------------------------------------------------------
(* The inductive invariant.                                                *)

\* What may be under way at each stage.
StagesInv ==
  /\ outer.op \in {"idle", "make", "register", "again"}
  /\ outer.op = "make" => outer.hooked
  /\ hooks # "inside" => outer = AtRest
  /\ hooks \notin {"none", "inside"} =>
       interning.op \in {"idle", "make", "register", "again", "lost"}
  /\ hooks = "program" => interning.op # "lost"
  /\ interning.op = "extend" => MayDouble(buckets)
  /\ interning.op = "make" /\ ~ interning.hooked => LookupStands(interning)

\* The symbols of the C functions have different names; nothing is interned yet.
BootInv ==
  interning = Boot =>
    /\ hooks = "none" /\ outer = AtRest
    /\ Interned \cup registered \cup queued \cup bound \cup held \cup excused = {}
    /\ \A s, t \in Allocated : name[s] = name[t] => s = t

\* A symbol of the table is where it is looked for, and is the only one.
ChainsInv ==
  \A s \in Interned \ excused :
    /\ Found(s)
    /\ \A t \in Interned \ excused : name[t] = name[s] => t = s

\* A symbol leaves the table when it is dead and no one has it.
StaysInTable ==
  (registered \cup queued \cup bound \cup InUse) \ excused \subseteq Interned

\* A symbol is registered once at a time.
WatchedOnce ==
  /\ registered \cap queued = {}
  /\ (Unwatched(interning) \cup Unwatched(outer)) \cap (registered \cup queued) = {}
  /\ Unwatched(interning) \cap Unwatched(outer) = {}

\* The symbol that intern-symbol! has put in the table and not counted.
Uncounted(p) == IF p.op = "register" THEN {p.sym} ELSE {}
Counted == Interned \ (Uncounted(interning) \cup Uncounted(outer))

\* The others are counted; the size in hand is not below the size.
CountInv ==
  ~ midway /\ interning.op # "lost" =>
    /\ Cardinality(Counted) <= table_size
    /\ interning.op = "register" => table_size <= interning.n
    /\ outer.op = "register" => table_size <= outer.n

\* A name has one symbol, which is found while anyone has it and is removed
\* in the end; and what makes it so.
SymbolInvariant ==
  /\ SymbolTypes
  /\ OneSymbol /\ BoundStay /\ AllWatched /\ NeverLost /\ SizeCovers
  /\ StagesInv /\ BootInv /\ ChainsInv /\ StaysInTable /\ WatchedOnce /\ CountInv

=============================================================================
