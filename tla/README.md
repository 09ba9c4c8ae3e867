# A verification project for Vicare Scheme

Vicare is a native compiler and run-time system for R6RS Scheme.  This directory holds TLA+
modules that model parts of it, configurations that check them with TLC on small instances,
and proofs about them that TLAPS checks.  `PROJECT.json` lists the runs, the lines of code
that each definition translates, the hazards the properties are about, and the theorems.

Run a configuration with `tlc -config X.cfg M`, check the
proofs of a module with `tlapm M_proofs.tla`.

Contents: [the system](#inventory-of-the-system), [the modules](#the-modules) by subsystem,
[the runs](#the-runs) with bounds, fairness and deadlock,
[disagreements](#where-code-and-documentation-disagree) between code and documentation,
[the proofs](#what-is-proved), [what is not modelled](#not-modelled) and
[the plan](#plan).

## Inventory of the system

The program's own logic is in `src/src` (the run-time system, in C and assembly) and in
`src/scheme` (expander, compiler and the boot libraries, in Scheme).  `src/lib` bundles
libraries, many of them ports of others' code; `src/attic`, `src/tests`, `src/doc` and
`src/demos` are what their names say.

| Component | State | Operations | Works with |
|---|---|---|---|
| Garbage collector (`ikarus-collect.c`) | segments vector, dirty vector, queues and meta pages of a collection | collect a generation: scan dirty cards and roots, move live objects, fix weak pairs, unmap and untag pages | page allocator, write barrier, guardians, hash tables |
| Write barrier (`ikarus.compiler.core-primitive-operations.sls`) | dirty vector | a store in an object marks its page | collector |
| Page allocator and nursery (`ikarus-runtime.c`) | page cache, page vectors, hot block, red line | map, unmap, allocate, make room | collector, `do-overflow` |
| Weak pairs (`ikarus-weak-pairs.c`) | a page of weak pairs being filled | `ikrt_weak_cons` | collector |
| Guardians (`ikarus.guardians.sls`, `handle_guardians`) | protected lists, queues of saved objects | register, collect, retrieve | collector, symbol table |
| Hash tables (`ikarus.hash-tables.sls`) | vector of buckets; buckets that a collection moved | get, put, update, delete, clear | collector |
| Post-collection hooks (`ikarus.collect.sls`) | list of hooks, key of the last collection | collect, run the hooks, check for room | collector, nursery, symbol table |
| Symbol table and gensyms (`ikarus.symbol-table.sls`, `ikarus.symbols.sls`, `ikarus-symbol-table.c`) | vector of chains of weak pairs, guardian, table of gensyms | intern, unintern dead symbols, extend, give a unique string | collector, guardians, hooks |
| Frames of the stack (`ikarus-enter.S`, `ikarus-exec.c`, `ikarus-ffi.c`, assembly subroutines) | stack segment, list of frozen frames | freeze, overflow, underflow, reinstate, call out, call back | call/cc, collector |
| call/cc and dynamic-wind (`ikarus.control.sls`) | list of winders | capture, escape, wind | everything that escapes |
| Unwind protection (`ikarus.unwind-protection.sls`), compensations | flags, a parameter, stacks of cleanups | protect, escape, guard, compensate | dynamic-wind, exceptions |
| Coroutines (`ikarus.coroutines.sls`) | queue of escape functions, state of each coroutine, monitors | create, yield, suspend, resume, finish, concurrently, monitor | call/cc |
| Ports (`ikarus.io.*`) | buffer, index, position of the device, mode of the last operation | get, put, flush, position, switch, reset, close | operating system |
| Event loop (`lib/vicare/posix/simple-event-loop`) | queues of entries and tasks, handlers of signals | register, forget, serve, leave | signals, descriptors |
| Channels (`lib/vicare/net/channels`) | message being received or sent | begin, portion, end, abort | ports |
| Exact integers (`ikarus-numerics.c`, `ikarus.numerics.generic-arithmetic.sls`) | none | arithmetic on fixnums and bignums | allocator |
| Promises, parameters, records, structs, conditions | one object each | pure or single assignments | |
| Library manager and loader | installed libraries | visit, invoke, load | expander |
| FASL, reader, writer, POSIX bindings | buffers | conversions and system calls | |
| Expander, compiler | none between programs | transformation of programs | |

What is hard here, and what makes each part correct:

* *The collector.*  Vicare has no native threads: the program is stopped while the collector
  runs.  But the correctness of a collection depends on everything the program and all the
  earlier collections did: on each store having left its mark, and on each collection having
  left in the dirty vector the bits that a later collection of another generation will need.
  A bug corrupts memory many collections later.  The properties: nothing refers to what is
  unmapped; the remembered set covers every pointer from old to young, card by card; only
  unreachable objects vanish; weak pairs are broken when their car is dead and only then;
  guarded objects are handed over once, when they are dead; a collection ends.
* *What a collection changes behind the program.*  A collection can happen in any allocation,
  in the middle of an operation on a table, and moves the keys whose addresses were hashed;
  after it run hooks which allocate, collect, and remove symbols that died.  The properties:
  a key that was put is found; a name has one symbol; there is room when the hooks are done.
* *Continuations.*  Escape functions may be called in any state, many times, also from the
  guards of a `dynamic-wind` that another escape is running; frames are frozen in place,
  split as execution returns to them, and moved when the stack overflows.  The properties:
  execution returns to the frames that were left; guards alternate; a body runs in the
  dynamic environment of its call; unwind handlers run once.
* *Coroutines.*  They are cooperative, but the order in which they hand over control is the
  program's.  The properties: no continuation is lost or runs twice; a monitor loses no
  permit; `concurrently` waits; the queue is fair.
* *Buffers between a program and a device* that takes and gives parts, or nothing for now.
  The properties: a port is the file it is opened on; a text is read whole wherever refills
  cut its characters and its line endings; what is written is read back.
* *Events.*  Descriptors become ready, time out and signals arrive between any two steps, and
  handlers register, forget and raise.  The properties: each handler is called once; nothing
  starves; messages are received whole in portions of any size.
* *Limits.*  Generation numbers at the oldest generation, the nursery at its red line, the
  cache of pages, limbs and fixnums at their boundaries.

## The modules

| Module | What it is | Checked in |
|---|---|---|
| `ObjectHeap` | abstract: the graph of objects that a program sees | |
| `Collector` | the generational collector, the write barrier, the program | `MCCollector`, `MCLiveness` |
| `CollectorInvariant` | the inductive invariant of `Collector` | `MCCollector` |
| `Collector_proofs` | theorems about `Collector` | |
| `CollectorRefinement` | `Collector` with names for its objects, mapped to `ObjectHeap` | `MCCollectorRefinement` |
| `CollectorRefinement_proofs` | the theorem that it implements `ObjectHeap` | |
| `DirtyCards` | the bits of single cards; pages of code objects | `MCMemory` |
| `Guardians` | protected lists, tconcs, their handling in a collection; weak pairs beside them | `MCMemory` |
| `Pages` | page vectors and page cache | `MCMemory` |
| `Nursery` | hot blocks, requests, collections and hooks | `MCMemory`, `MCLiveness` |
| `Memory_proofs` | theorems about `DirtyCards`, `Guardians`, `Pages` and `Nursery` | |
| `HashTable` | abstract: a partial map | |
| `EqHashTables` | `eq?` hash tables under collections, mapped to `HashTable` | `MCRuntime` |
| `SymbolTable` | interned symbols, their guardian and hook | `MCRuntime` |
| `Gensyms` | generated symbols and their table | `MCRuntime` |
| `Tables_proofs` | theorems about `EqHashTables`, `SymbolTable` and `Gensyms` | |
| `ControlStack` | abstract: a stack of frames with escape procedures | |
| `Continuations` | stack segment, continuation objects, callouts, mapped to `ControlStack` | `MCRuntime` |
| `Continuations_proofs` | theorems about `Continuations` | |
| `Coroutines` | coroutines, `concurrently`, `monitor` | `MCControl`, `MCLiveness`, by itself |
| `Coroutines_proofs` | theorems about `Coroutines` | |
| `Winders` | call/cc and dynamic-wind | `MCControl` |
| `UnwindProtection` | unwind protection, unwinding call/cc, guard | `MCControl` |
| `Control_proofs` | theorems about `Winders` and `UnwindProtection` | |
| `Octets`, `FilePort` | abstract: a file with a position | |
| `BinaryPorts` | a buffered binary port, mapped to `FilePort` | `MCInputOutput`, `MCLiveness` |
| `BinaryPorts_proofs` | theorems about `BinaryPorts` | |
| `Encodings` | decoders, encoders, line endings (definitions only) | `MCInputOutput` |
| `TextPorts` | textual input | `MCInputOutput`, `MCLiveness` |
| `TextOutput` | textual output | `MCInputOutput`, `MCLiveness` |
| `EventLoop` | the simple event loop | `MCControl`, `MCLiveness` |
| `Channels` | message channels | `MCInputOutput`, `MCLiveness` |
| `Bignums`, `Arithmetic` | the C functions on exact integers; the procedures that call them | `MCControl`, by itself |

An MC module of more than one component holds a variable `part` that says which module's
instance a behaviour is of; the variables of the others keep one value.  It extends the
modules with theorems, whose constants the configuration gives and whose properties are
checked under their own names, and instantiates the rest.  Such a module has
one invariant or property for each component, whose named conjuncts are what is listed below.

Each module has, before a few of its definitions, a wrong variant of the definition that no
action uses.  It is what a plausible bug would make of the code, and each property of the
runs is known to fail when one of the variants takes the place of its definition.

### Collector

State and code:

| Variable | Code |
|---|---|
| `segment_vector` | `pcb->segment_vector`: kind of the page, generation, `NEW_GEN_TAG` |
| `dirty_vector` | `pcb->dirty_vector`: per card the set of generations whose bit is set |
| `mem` | the words of the object in the page |
| `forward` | `IK_FORWARD_PTR` in the first word of a moved object, its new address in the second |
| `roots` | live words of the stack, locatives, avoidance slots, fields of the PCB |
| `phase`, `collect_gen` | where `perform_garbage_collection` stands, `gc.collect_gen` |
| `dirty_words`, `root_words`, `new_words` | words that `scan_dirty_pages`, the roots and `collect_loop` have still to gather |

Actions: `Allocate`, `SetSlot`, `GetSlot`, `Drop` are the running program;
`StartCollection`, `ScanDirtyWord`, `GatherRoot`, `ScanNewWord`, `fix_weak_pointers`,
`deallocate_unused_pages`, `fix_new_pages` are the steps of a collection in the order of the
code.  Which word of a stage is gathered next is left open, and so are the addresses of new
pages (`Placement`), so that nothing rests on the order in which pages lie in memory.

Abstractions, and why they are sound:

* One page holds one object and is one card.  The collector treats the objects of a page
  alike; objects that share a page can only share its fate.  What this hides (nibbles of
  different cards in one word of the dirty vector) is left to a module of its own.
* Objects have the kinds `pair` (all objects that are copied and scanned in full), `weak`
  (weak pairs) and `big` (vectors of a page or more, moved once and then retagged in place).
  Pages of data have no words to scan; symbols are scanned like pairs.
* `gather_live_list` follows the cdrs of a list at once; here they are queued like all other
  words.  Both end with the same words gathered.
* The dirty bits of a page of the nursery are forgotten when the nursery is used again; in
  the code they stay until the block is released.  They are never read: only pages older than
  the collected generation are scanned.
* `scan_dirty_pages` may visit the pages of a big vector after they were retagged.  Their
  generation number then includes `NEW_GEN_TAG`, and `CLEANUP_MASK` (five entries) is read
  past its end.  `LateCards` are the pages this can happen to; the bits left in their cards
  are chosen freely.  The properties hold nevertheless: the words of such a page were all
  gathered to generations that are not younger than the page.
* Guardians, the cards inside a page, the pages of code objects, the hot blocks and the
  buckets of `eq?` hash tables are in modules of their own (below).  The relocation of code
  objects word by word and the meta pages are not modelled.

Properties:

* `NoDangling`: no word of an occupied page and no root ever refers to a free page, dead
  objects of old generations included (their cards are scanned like those of live ones).
* `RememberedSet`: when the program runs, a word that refers to a younger page has the bit
  of that page's generation in its card (the comment above `DIRTY_MASK`).
* `FullCollectionPrecise`: a collection of the oldest generation leaves only what strong
  words lead to.  (A collection of a younger one may keep garbage: dead cards are scanned.)
* `CollectionEnds`: a collection that was entered ends.
* `ImplementsHeap` (in `CollectorRefinement`): every step is a step of `ObjectHeap` or
  changes nothing in it.

### DirtyCards, Guardians, Pages, Nursery

`DirtyCards` has what `Collector` leaves out: a slot of the dirty vector is a machine word, a
set of bit positions, with a nibble for each card, and so is a slot of the segments vector.
`scan_dirty_pointers_page` and `scan_dirty_code_page` are two definitions, because the code
has two: the second shifts by the card in which a code object starts and scans its
relocation vector.  A collection is one step (`CollectGeneration`).  A word carries the number
of moves its object had made when it was stored.  `CardInvariant`: `NeverDangles` (no word is
behind its object), `CleanCardsHaveNoYounger` and `CleanPagesHaveNoYounger` (what a later
collection skips has nothing for it), and `OlderByMoves`, which says that an object gets older
with each move.  `BitsKept` leaves out the code objects for which this is wrong
([below](#where-code-and-documentation-disagree)).

In `Guardians`, `protected` are the lists by generation and `queue` the tconcs.  A collection
is the phases of `handle_guardians`: `StartCollection` (with the trace, one step),
`SortProtected`, `FinalRound` as often as it finds something, `HoldRound`, `Reclaim`.  Lists
are sets: their nodes and `move_tconc` are left out.  `Closure` is what a trace keeps, the
least set that has its start and is closed under references.  `GuardianInvariant` is
`GuardedNotFreed` (no guarded object is freed before its guardian returned it),
`ProtectedAreOld` (a list has no pair younger than the list) and what makes them inductive
(below, "What is proved"); `GuardiansReturnTheDead` is
`RegistrationsKept`, `OnlyDeadReturned`, `FullCollectionReturnsAll` and, for the weak pairs
that are fixed after guardians were handled, `WeakCarsFollow`.

`Pages` has the segment and dirty vectors as sequences that grow at either end when the
system maps a page outside of them, and the cache of pages.  `MapPage`, `ik_mmap_mainheap`,
`ik_mmap_code`, `ik_stack_overflow`, `SignalDirt`, `Release`, `ik_delete_pcb` are the
operations.  There is one stack: `ik_stack_overflow` makes data of the old one before it
maps another.  `PageInvariant`:
`EveryPageHasOneOwner` (in use or cached, once), `HolesArePure` (a released page leaves no
dirt for its next use), `NothingLeaks` (at the end everything went back to the system), and
`StackIsKept`: the Scheme stack is never released, so the vectors are never extended at both
ends at once.

`Nursery` counts in half pages.  Only the hot block is there, with its pointer and its red
line; full blocks keep their objects until the next collection.  `SchemeAlloc`,
`do_overflow`, `collect`, `automatic_collect`, `ik_unsafe_alloc`, `ik_safe_alloc` are the
requests; `RunStarts`, `HookAlloc`, `RunEnds` and `Return` the loop over the hooks, which
runs again if its own allocations caused a collection (`collect_key` is no longer what it
was).  `NurseryInvariant`: `NothingPastTheEnd`, `RoomAfterHooks` (the room for the request
is there when the loop ends), `EnoughRoomLeft` (`ik_safe_alloc` aborts only
for an object exactly as large as a nursery),
`HooksSeeLastCollection`.  Liveness: `OverflowReturns`.

### EqHashTables

An operation is cut where it allocates or calls a procedure of the program, because only
there the collector can run, move keys (`address`) and push their buckets in the `tconc` of
the table.  `get_hash`, `put_hash`, `InsertBucket`, `enlarge_table`, `UpdateBegins`,
`UpdateEnds`, `del_hash`, `clear_hash` and `Collect` are the actions.  Chains and the tconc
are sets.  `TableInvariant`: `LookupFinds` (every bucket of the table is in the chain of its
key's address or in the tconc), `OneBucket`, `SizeCounts`; `ImplementsTable`: the table is a
map (`HashTable`) for its users.  `TableInvariant` has what makes these inductive as well:
the forms of buckets, that none is in an older generation than its key, that a length does
not change under an operation, and that what an operation has looked up is still so.

### SymbolTable, Gensyms

`SymbolTable` cuts `string->symbol` where it allocates: `MakeSymbol`, `Register` (with the
guardian), `ExtendTable`, `BleedPop`, `BleedAgain`, `BleedEnds`; `interning` is what it is
about to do.  A collection finds any subset of the unreachable symbols dead, because that
depends on generations; dead symbols are `queued` and are taken by the hook (`CleanupPop`) or
by `bleed-guardian`.  `bound` symbols have a value or properties: they are kept, and the
guardian watches them again.  Symbols that are revived through weak pairs (`Revive`), that
hooks remove while they are about to be returned, and a symbol that is made after a hook has
changed what `lookup` found (`LookupStands`) are where the code goes wrong (see
[below](#where-code-and-documentation-disagree)): the variable `excused` names them, and the
properties are about all the others.
`SymbolInvariant`: `OneSymbol` (a name has one symbol in the table and all holders have that
one), `BoundStay`, `AllWatched` (a symbol in the table is watched, in the queue, or in hand),
`NeverLost`, `SizeCovers`; the other conjuncts make these inductive: what may be under way at
each stage (`StagesInv`), the symbols of the boot image (`BootInv`), a symbol of the table is
in the chain of its index and alone with its name (`ChainsInv`), one that anyone has is in
the table (`StaysInTable`) and is registered once at a time (`WatchedOnce`), and the size
covers what is counted (`CountInv`).  Abstractions: chains are sets; a hook of the program interns
one string at a time and before the cleanup; a new symbol takes the lowest number; after
hooks ran in one allocation no second collection is made in it; `make-vector`
collects without hooks; the boot initialisation is one step.

`Gensyms`: `gensym`, `gensym_to_unique_string`, `strings_to_gensym`, `unintern_gensym`.  The
generator of unique strings may repeat one, and then the string is asked for again.
`GensymInvariant`: reading the unique string of a gensym that was written and is still
interned gives that gensym (`WrittenIsRead`), because the table has exactly the gensyms with
a unique string and one for each (`TableInv`).

### Continuations

`mem` is the segment from the base down, `base` and `fp` the frame base and the frame
pointer, `kont` the continuation objects and `nextK` is `pcb->next_k`.  Continuation objects
refer to frames in place until the segment is replaced or they are reinstated.
`Call`, `TailCall`, `EnterFunction`, `StackOverflow`, `ReturnToFrame`, `Underflow`,
`ExecReturns`, `Seal` (which freezes the frames below `call/cc`), `CallCC`, `Escape`,
`Callout`, `Callback`, `LeaveCFunction` and `CollectKonts`.  Words below the frame pointer are
`free`; segments that were left and continuations copied to the heap are the field `moved`;
the frame of `ik_stack_overflow` itself and locals are left out; a collection happens only
when there is no free object.  That a frame fits below the red line, which lies two pages above
the end of the segment, is an assumption on the constants: the code takes it for granted and
does not check it.  `Chain` and `Systems`, what a continuation leads to and the callouts among
that, are stated as least closed sets and not as recursions, for the proofs.

`StackInvariant`: `SoundKonts` (a continuation object holds whole frames and no underflow
handler at its top), `StaysInSegment`, `LeavesItsOwn` (a C function that returns takes its
own system continuation from the list).  `ImplementsControl`: together they are a stack of
frames, `ControlStack`.

### Coroutines

The variables are the queue, the states that hold a `reinstate-procedure` (`suspended`), the
counter and the pending continuations of one monitor, and for each coroutine where it stands:
in its body, in the loop of `finish-coroutines`, or in `concurrently` with the thunks it has
still to start (`todo`) and the counter of those that have not returned (`unfinished`).
An escape function is named by the coroutine that it reinstates.  An action is all that the
current coroutine does up to the point where it gives up control, because nothing else can
run before.  What a coroutine does next is free: the actions stand for every program.  An
error raised by the library (`no more coroutines`, a wrong suspend or resume) ends the
behaviour.  `reset-coroutines!`, which the documentation says should not be used, and
`dump-coroutines` are left out, as is a thunk that enters the monitor it is in.

Properties: `OneContinuation` (each started coroutine runs or waits once, in one place),
`WaitsOnlyWhenFull` (a coroutine waits at the monitor only while the maximum are inside),
`LeavesOnlyBlocked` (`concurrently` returns before its thunks have only if these are blocked),
`QueueIsServed` (a coroutine in the queue gets control, if the program goes on giving it up).
The first three are proved, by the inductive invariant `IInv`; the run checks the properties
themselves and not `IInv`.

### Winders

The variables are `the_winders`, a stack of the calls under way (in-guards, bodies,
out-guards, and the guards that an escape is calling), the escape functions with the winders
and the stack they reinstate, and for each winder how many times its in-guard has returned
less how many times its out-guard was called (`entered`).  Bodies and guards may call
`dynamic-wind`, capture continuations and escape; in-guards may return more than once.  A
frame has in `in` the winders at its call, a history that no action reads but to hand it on.
`WindersInvariant` is `GuardsAlternate`, `DynamicEnvironment` (a body or a guard runs with the
winders of the point where it was called) and what makes them inductive; `LeavesOnlyUncommon`:
an escape calls no out-guard of a body that is also around its target.

### UnwindProtection

On top of dynamic-wind: `with-unwind-protection`, `unwinding-call/cc` and `guard` are macros
around it, and a parameter (`why`) tells the out-guards on the way of an escape why they are
called.  The winders are protected thunks, receivers of an unwinding call/cc, bodies of
`guard`, and unwind handlers, whose exceptions are discarded.  In-guards, and the jump of a
guard to its test and back, have no code of the program in them and are one step.
`UnwindInvariant`: `HandlerCalledOnce`, `TerminatedIsLeft` (the extent of a thunk whose
handler was called is not entered again), `InsideIsTrue` (the flag of an escape procedure
tells whether its receiver is running).  `AllHandlersCalled`: an unwinding escape, or a guard
that takes an exception, calls the handlers of all the thunks that it leaves.
`PlainEscapeCallsNone`: a standard escape calls none.  `HandlerOps` is what unwind handlers
do.  `UnwindInvariant` holds whatever they do; the other two are for handlers that protect and
raise (`PlainHandlers`), as in the run, and with more they fail (see
[below](#where-code-and-documentation-disagree)).

### BinaryPorts

`buf` and `index` are the port's buffer, `pos` the device position in its cookie, `fpos` the
offset the kernel has, `dir` whether it was last used for input or output.  A call is cut at every call of
`write!`, `read!` and `set-position!` and every turn of its loops (`PutAll`, `PutSome`,
`FlushWrite`, `FlushRaises`, `Consume`, `Peek`, `Refill`, `RefillEof`, `RefillWouldBlock`,
`ToInput`, `SetDevicePosition`, ...), because the device may take or give a part, or raise
EAGAIN, at each of them.  An exception ends the call and leaves the buffer as it is.
`BufferInvariant`: `CookieTracksDevice`, `BufferIsFile` (the buffer of a port used for input
is the part of the file before the device position), `FlushIsOutput` and `OutputAtEnd` (what
is put goes to the end of the buffer, and a call that flushed finds it empty); `FlushKeepsPort`:
`FlushKeepsPosition`, `FlushKeepsContent`, `SwitchKeepsPosition`; `ImplementsFile`: the port
is the file (`FilePort`), whatever is buffered; `CallReturns`, for devices that take all or
nothing: with a partial write it fails, as `FlushReturns` shows ([below](#where-code-and-documentation-disagree)).  `PlainUse` names what
programs and devices must not do for that: each condition is one of the disagreements below.  Counts that a
custom `write!` invents, and failures of `set-position!` and `close`, are not modelled.

### Encodings, TextPorts, TextOutput

`Encodings` is the algebra: what stands at the beginning of octets (`Scan`), the octets of a
character, the character after conversion.  A character is its code point and an octet its
number.  The part `codes` of `MCInputOutput` grows all short sequences over the octets where
something changes.  `EncodingInvariant`: `NoSecondForm` (the encoder gives back the octets that
were decoded, whatever they were, but for the two leading bits of those after the first in
UTF-8), `DecodesEncoded`, `Synchronizes`.  That these two bits are those of continuation
octets is `ContinuationsAreValid`, which does not hold
([below](#where-code-and-documentation-disagree)).

`TextPorts` is a reading port.  `buf` are the octets read and not consumed, `rest` what the
device still has.  A call looks at characters (phases `peek` and `peek2`, the character after
a carriage return), refills if they are cut, and then consumes them.
`get-char`, `lookahead-char`, `get-string-n`, `get-string-all` (in portions of `Count`) and
`get-line`.  EOF of the device is permanent; the retries of `strict-r6rs`, the byte order
mark and ports over strings are not modelled.  `TextInvariant`: `ReadsTheText` (what has
been read and what the rest decodes to is the text, at every point between calls),
`PeekIsNext`, `EofIsTheEnd`, `NoReturnGiven`, `AllReadsToEof`.  Because the code has several
flaws around characters that refills cut, each property is checked in the parts of the run
whose texts do not meet them, and the flaws are listed
[below](#where-code-and-documentation-disagree).

`TextOutput` is a writing port: `TakeChar`, `PutUnit`, `MustFlush`, `Flush`, `FlushRaises`,
`End`.  A flush that raises keeps the whole buffer; short writes are those of `BinaryPorts`.
`OutputInvariant`: `NothingLost` (device and buffer hold the encoding of what was put),
`ReadsBack`, `FlushedByMode`, `LatinReadsBack`.

### EventLoop, Channels

`EventLoop` has `revHead` and `tail`, the two halves of the circular queue of entries, the
same for tasks, the handlers of signals and the steps of `enter`: `AcquireSignals`,
`ServeSignal`, `CallSignalHandler`, `DoOneFdEvent`, `DoOneTaskEvent`, `Leave`.  A handler
runs for any number of steps, registers, forgets, asks to leave, returns or raises.
Readiness, expiry and signals are the environment (`WorldStep`).  Queries that raise count as
"not ready"; loops that a handler enters are left out.  `HandlersCalledOnce`: `CalledOnce`,
`NoneDropped`, `SignalHandlersKept`.  Liveness, `NoSourceStarves`: `TasksAreRun`,
`EventsAreServed`, `SignalsAreServed`, `Leaves`.

`Channels`: `RecvBegin`, `RecvPortion`, `RecvFull`, `RecvEnd`, `RecvAbort`, `SendBegin`,
`SendPortion`, `Flush`, `SendEnd`, `SendAbort`, the expiration time and the peer.  Units are
numbers; terminators are recognised across portions (`TerminatedStream`).  A portion that is
sent may be flushed on the way, and `SendPortion`, `Flush` and `SendEnd` may end with
EAGAIN; a flush writes all of the port's buffer or nothing (parts are in `BinaryPorts`).  A patient peer
sends a message when the last one was received.  `ChannelInvariant`: `Recognises`,
`SizeOfPortions`, `StartsAfresh`, `MessageWhole`, `WholeSent`; liveness:
`FullMessageReturns`.

### Bignums, Arithmetic

`Bignums` has an operator for each function of `ikarus-numerics.c` on exact integers, with
the name of the function; limbs are sequences of numbers below `2^mp_bits_per_limb`, the
functions of GMP are external.  `Arithmetic` selects among them like the Scheme procedures
do.  A behaviour is one call.  `Exact` states the result in terms of TLC's integers.
Limbs that are allocated and not written have any value (`junk`); the last allocation of
a square root may collect (`collects`).  Offsets of shifts are small numbers of every kind
and not fixnums of the few bits of the model.
`ResultsAreExact` and `ResultsAreCanonical` hold but for four named sets of inputs
(`CarryMisplaced`, `ComplementOverflows`, `OperandMoved`, `GreatestInCommon`), which are
precise: they say what the operands must be for the code to go wrong.

## The runs

There is one run for each subsystem (two for the collector, and one for liveness; exact
integers are a part of `control`), with its instances as parts; see the heads of the MC modules.  All runs of parts have behaviours of any length but for the bounds named here.

| Run | Parts and bounds | Shows |
|---|---|---|
| `collector` | two objects at a time (each has two pages to move between), all kinds, any length; three objects, no big ones, at most 5 steps of the program (`MaxMutations`) and 3 collections (`MaxCollections`), 7 together (`MaxTogether`); two roots, one slot, generations 0 to 2 | `NoDangling`, `RememberedSet`, `FullCollectionPrecise` and the inductive invariant `WholeInv`, which has the types in it |
| `collector_refinement` | two objects, pairs and weak pairs, three names; `NameAssumption` and `FreshAssumption` hold of it | `ImplementsHeap` |
| `memory` | `guardians`: two guardians and registrations, at most one object, three generations; `weak`: at most one guardian and two objects with weak pairs, each registered once, one while a weak pair is held, generations 0 and 2 collected; `cards`: a page of pointers of three cards; `code`: a page of code objects, none in the last card, none annotated; `pages`: seven pages, segments of two, a cache of two, blocks of two; `nursery`: blocks of 4 and 6 pages, hooks that are set and removed | `GuardianInvariant`, `GuardiansReturnTheDead`, `CardInvariant`, `PageInvariant`, `NurseryInvariant` |
| `runtime` | `tables`: three keys and buckets, vectors of 1 and 2, two generations; `frames`: frames of one and two words, a segment of 6 with the red line at 3, 3 frames, 3 continuation objects, no callout; `callouts`: 2 callouts, frames of one word, 2 of them, the same segment, 4 continuation objects; `symbols`: two names that share a chain in the vector of 2 and not in that of 4, 3 symbols; `hooked symbols`: 2 symbols and hooks that intern; `gensyms`: 3 with 2 strings | `TableInvariant`, `ImplementsTable`, `StackInvariant`, `ImplementsControl`, `SymbolInvariant`, `GensymInvariant` |
| `control` | `coroutines`: main and three others, a monitor with maximum 1; `winders`: three winders, four frames with one escape function, three with two; `unwind`: two protected thunks, two unwinding call/cc, a guard, a standard escape, depth 6; `descriptors`: an event loop with two descriptors, no signal; `signals`: one descriptor, two signals; both with watermark 2; `numbers`: words of 5 bits, fixnums of 3, limbs where a carry, a borrow, a complement or the range of fixnums changes what is done, one to three limbs; a collection happens where the junk is not 0 | `OneContinuation`, `WaitsOnlyWhenFull`, `LeavesOnlyBlocked`, `WindersInvariant`, `LeavesOnlyUncommon`, `UnwindInvariant`, `AllHandlersCalled`, `PlainEscapeCallsNone`, `HandlersCalledOnce`, `ResultsAreExact`, `ResultsAreCanonical` |
| `input_output` | `file`: a buffer of three, a file of up to four octets, writes of all or nothing, short reads; `partial`: writes of a part too; `codes`: sequences of up to four of 17 octets; five parts of texts of up to nine octets over a buffer of eight; `written`, `latin`: up to six and four characters; `channel`: two messages both ways together, of up to three units, terminators of one and of two units, portions of two | `BufferInvariant`, `FlushKeepsPort`, `ImplementsFile`, `EncodingInvariant`, `TextInvariant`, `OutputInvariant`, `ChannelInvariant` |
| `liveness` | small instances of the modules that state fairness | `CollectionEnds`, `QueueIsServed`, `OverflowReturns`, `CallReturns`, `NoSourceStarves`, `FullMessageReturns` |
| `monitor_maximum`, `concurrently_finishes`, `misplaced_carry`, `partial_writes`, `continuation_octets` | as the parts `coroutines`, `numbers`, `file` (with writes of a part) and `codes` | counterexamples (see below) |

### Why the bounds are enough

* *Generations.*  Three give one that is collected, one that is not, and a third that is
  younger or older than both; the oldest, where numbers stop growing, is among them.
  `DirtyCards` has all five, because its masks do.  Where a module needs only "moved" and
  "not moved" there are two.
* *Objects.*  One slot per object is enough for cycles, chains and weak cars; the words of an
  object do not interact.  With three objects a chain crosses three generations.
* *Pages.*  Seven pages in segments of two make the vectors grow at both ends, partial
  segments included, and the cache overflow.
* *Tables.*  With three keys and lengths 1 and 2 a chain of two is split by the enlargement
  while the third key moves.  With two keys two of the bugs in the variants are not found.
* *Stack.*  A segment of 6 with its red line at 3 has room for a frame of two words that
  starts on the red line; three continuation objects are a chain and a captured one that
  shares its tail.
* *Coroutines.*  The counter of the monitor goes down without end (see below): behaviours
  are cut below -1.
* *Ports.*  A buffer of three is overrun, filled exactly and left with room.  Textual ports
  have a buffer of eight because the code demands `BUFFER-SIZE-LOWER-LIMIT`; the texts are
  chosen so that every character is cut at every place.
* *Numerics.*  Two bits less in a fixnum than in a word is what machines with 32 bits have;
  with limbs of 0, 1, 3, 16 and 31 every carry and borrow happens.

Symmetry is used for roots, objects, guardians, registrations, buckets, coroutines other than main,
winders, escape functions and protected thunks, in runs without liveness only.

### Deadlock

It is checked in `collector_refinement`, where a program can always go on.  Elsewhere a
behaviour may end for a reason that is not an error: the bounds stop it (`collector`,
`memory`, `runtime`, `input_output`), the program ended itself with an error that the
library raises (`control`), the process aborted or the process control block was
deleted (`memory`), or a behaviour is one call (exact integers in `control`).  That what is begun goes on is
the subject of `liveness`, not of deadlock.

### Fairness

In `MCLiveness` three conditions of weak fairness are each, in each part, one of the
module's own:

* A collection that has begun goes on (`WF(CollectorStep)`): the collector is one thread that waits for
  nothing, and the program is stopped until it returns.
* `do-overflow` goes on (`WF(Overflowing)`): the hooks are ordinary code that returns; how
  much they allocate is bounded by `HookAllocations`.
* A call of a port goes on (`WF(Works)`, `WF(Step)`): the same thread.  A device that refuses
  for ever answers EAGAIN and the call ends with it.  A device that takes parts is left out
  of the passing run, and `partial_writes` has it under the same fairness.  Where bad octets are ignored, a getter
  that gets EAGAIN looks at the same octets again, and a device that refuses for ever keeps
  `get-string-all` busy: no liveness is claimed for EAGAIN in mode `ignore`.
* The event loop goes on (`WF(LoopStep)`) and handlers return or raise (`WF(HandlerEnds)`).
  Nothing is assumed of descriptors and signals.
* A full message is waited for, what was sent arrives, and a peer that has sent a part of a
  message goes on or closes.  A wait for a peer that stays silent for ever with an
  expiration time that is never reached has no end in the code either.

Nothing is assumed of programs.  `QueueIsServed` assumes no fairness: that the current
coroutine changes infinitely often is a hypothesis of the property itself, because Vicare
does not preempt coroutines.

## Where code and documentation disagree

Five runs exhibit a statement about the program that does not hold:

* `MonitorMaximum`: "Allow only a maximum number of coroutines to concurrently enter the
  evaluation of thunk".  `sem-release` decrements the counter and resumes a waiting
  coroutine, which goes on in the critical section without being counted; the next coroutine
  that comes is let in besides it.
* `ConcurrentlyFinishes`: "Return unspecified values when all the coroutines are finished".
  `concurrently` loops with `finish-coroutines`, which returns when the queue is empty, also
  when a thunk is suspended or waits at a monitor.
* `SumsAreExact`: the carry of a sum of magnitudes is written at the number of limbs of the
  first operand, also when the second one is longer (`ikarus-numerics.c:276`).
* `FlushReturns`: "this function loops retrying until PORT.WRITE! accepts the data".  The loop
  ends when one write took as many octets as the whole buffer has (`io.writing.scm:138`).
  After a partial write no write can: when the device has taken the rest, `write!` is called
  with zero octets for ever.
* `ContinuationsAreValid`: "Evaluate to true if OCTET1 and OCTET2 are valid as second and third
  of 3-octets UTF-8 encoding".  The two are or-ed before the test (`unicode.vicare.sls:327`,
  and the three of four octets in line 359), so that 224, 160, 0 is decoded as a character.

The others were met in the same way, as violations of a property of the passing runs, and
are kept out of these by a constant or by the choice of an instance.  To see one, change what
the table names.

| Where | What the code does | Seen with |
|---|---|---|
| `ikarus-collect.c:3140` | the annotation of a code object is forgotten by the first scan of its dirty page | `DirtyCards` without `BitsKept`: `Field` with `"annotation"` |
| `ikarus-collect.c:2963` ff. | the bits of a code object that starts in the last card are shifted out of the slot | the same: `LastCard` = `Cards - 1` |
| `ikarus-collect.c:676` | a request as large as the nursery gets a block without margin, and `ik_safe_alloc` aborts | `Nursery`, a request of the size of the nursery: a property that `ik_safe_alloc` never aborts |
| same | for a request between the nursery less two pages and the nursery, `do-overflow` collects and runs the hooks for ever | `Nursery`, the same with hooks: `OverflowReturns` |
| `symbol-table.sls:248` ff. | `bleed-guardian` allocates, and the hook may remove the very symbol that is about to be returned | `SymbolTable` without `excused` in `CleanupPop` |
| `symbol-table.sls` | a symbol revived from a weak pair after it died is removed while held: the name gets a second symbol | same, in `Revive` |
| `symbol-table.sls` | a hook of the program that interns while `$make-symbol` allocates leaves a duplicate or a stale index | same, in `MakeSymbol` |
| `symbol-table.sls` | `intern-symbol!` reads the size before allocations in which the hook counts down: the size drifts | `SymbolTable`, `SizeCovers` without `midway` |
| `unwind-protection.sls:91` | an unwinding escape or a guard in an unwind handler stops the handlers of the escape outside | `HandlerOps` with `"unwinding"`, `"guard"` |
| `unwind-protection.sls:86` | a handler left by a standard escape leaves the parameter set: later standard escapes call handlers | `HandlerOps` with `"plain"` |
| `ikarus-ffi.c:648` | an escape to frames before a callout, called in a callback, loses the system continuation | `Continuations`, `AcrossC` |
| `io.writing.scm:140` | a flush of an output port that was set back in its buffer moves the position | `BinaryPorts`, `Rewinds` |
| `io.writing.scm:22` | `flush-output-port` on a port used for input writes what was read | `FlushesInput` |
| `io.writing.scm:145` | a partial write followed by EAGAIN is written again by the next flush | `Outcomes` with `"some"` and `"again"` |
| `io.port-procedures.scm:413` | output to a socket is lost when it is read from | `Seekable` FALSE |
| `io.port-procedures.scm:615` | `reset-output-port!` leaves the used size | `Resets` |
| `io.reading.scm:2063` | a NEL cut by a refill after a carriage return is a line of its own | `TextPorts`: characters of several octets in `Lines` |
| `io.reading.scm:2034` | the lookahead skips the character after a bad first octet, `get-char` does not | the octets of `Lines` or `BadTails` in mode `ignore` |
| `io.reading.scm:1207` | `lookahead-char` returns a carriage return | `PeekIsNext` in part `lines` |
| `io.reading.scm:1576` | `get-string-n` returns the carriage return as its count | `NoReturnGiven` in part `lines again` |
| `io.reading.scm:1726` | `get-line` ends a line where it would block after a carriage return | `ReadsTheText` in part `lines again` with `get-line` |
| `io.reading.scm:1359` | `get-string-all` ends at a would-block | `AllReadsToEof` in a part with `Again` |
| `io.reading.scm:2197` | `get-char` raises without consuming the bad octets | `Modes` with `"raise"` |
| `io.reading.scm:1045` | the character after a carriage return is looked for at a fixed offset, wrong after ignored octets | `Lines` in mode `ignore` |
| `io.reading.scm:198` | ignored octets that fill the buffer are taken for the end of file | a run of bad octets of the length of the buffer |
| `io.writing.scm:704` | `put-string` writes NEL to a Latin-1 port, `put-char` raises | octet 133 in the device of `latin` with style `nel` |
| `io.sls:1510`, `1518` | `set-port-buffer-mode!` clears the style of line endings, and does not clear the old mode | `SwitchTo` |
| `simple-event-loop:522`, `395` | exceptions of tasks and of expiry handlers leave the loop | `Raises` with `"task"`, `"expiry"` |
| `channels:431` | in blocking mode a portion is waited for whole, although the terminator arrived | `Blocking` TRUE: `FullMessageReturns` |
| `channels:680` | a refused portion is counted | a property that the size returned is that of what was accepted |
| `channels:451` | a portion with the terminator that arrives when time is over is kept, the terminator forgotten | a property that the terminator is remembered when time is over |
| `ikarus-numerics.c:1258` | the greatest fixnum as the common bits of two bignums is returned as a bignum | `GreatestInCommon` |
| `ikarus-numerics.c:1463`-`1480` | a negative bignum shifted by whole limbs whose rest is all ones becomes 0 | `ComplementOverflows` |
| `ikarus-numerics.c:2071` | the operand of a square root may be moved by the last allocation and is read at its old place | `OperandMoved` |


## What is proved

TLAPS checks the theorems of eight modules, each for all values of the constants of the
modules it extends.  What a theorem needs of the constants is its first line; the runs check
that their constants satisfy it.

| Theorem | States | Needs |
|---|---|---|
| `Collector_proofs`: `TypeCorrect`, `Invariance`, `NothingDangles`, `CleanCardsAreClean`, `WholeInvariance`, `NoGarbageIsLeft` | `Spec => []` of `TypeOK`, `IInv`, `NoDangling`, `RememberedSet`, `WholeInv`, `FullCollectionPrecise` | the assumptions in `Collector`: an oldest generation above 0, those three kinds, objects with a slot `car`, immediate words are not pages |
| `CollectorRefinement_proofs`: `CollectorIsInvisible` | `NamedSpec => ImplementsHeap` | the same, and the names of objects: `NameAssumption`, and `FreshAssumption` that one is left for a new object |
| `Memory_proofs`: `NothingGuardedIsFreed`, `TheDeadAreReturned` | `GuardianSpec =>` `[]GuardianInvariant`, `GuardiansReturnTheDead` | finitely many registrations, an oldest generation above 0, objects and guardians are distinct |
| `Memory_proofs`: `RoomForAll` | `Spec => []NurseryInvariant` | the sizes of a nursery are those that `ikarus-runtime.c` accepts |
| `Memory_proofs`: `NoneYoungerInCleanCards` | `CardSpec => []CardInvariant` | `CardAssumptions`, and `BitsKept`: no code object in the last card and no annotations |
| `Memory_proofs`: `PagesHaveOneOwner` | `PagesSpec => []PageInvariant` | `PageAssumptions`: sizes above 0 |
| `Control_proofs`: `WindersHold`, `OnlyUncommonLeft` | `WindersSpec =>` `[]WindersInvariant`, `LeavesOnlyUncommon` | nothing |
| `Control_proofs`: `UnwindHolds` | `UnwindSpec => []UnwindInvariant` | `UnwindAssumptions`: a use of one syntax is not a use of another |
| `Control_proofs`: `AllAreCalled`, `PlainCallsNone` | `UnwindSpec =>` `[]AllHandlersCalled`, `PlainEscapeCallsNone` | the same, and `PlainHandlers` |
| `Tables_proofs`: `TableHolds`, `TableIsMap` | `Spec => []TableInvariant`, `Spec => ImplementsTable` | finitely many buckets, lengths above 0 |
| `Tables_proofs`: `NamesHaveOneSymbol` | `SymbolSpec => []SymbolInvariant` | `SymbolAssumptions`: finitely many symbols, each length but the first is twice another |
| `Tables_proofs`: `WrittenAreRead` | `GensymSpec => []GensymInvariant` | unique strings are not marks |
| `Continuations_proofs`: `ContinuationsHold` | `ContSpec => []StackInvariant` | `StackAssumptions`: a frame of each function, and the handler, fit below the red line; not `AcrossC`: escapes stay in their callback |
| `Coroutines_proofs`: `Invariance`, `NoneLostNoneTwice`, `NoPermitLost`, `OnlyBlockedLeft` | `Spec => []` of `IInv`, `OneContinuation`, `WaitsOnlyWhenFull`; `Spec => LeavesOnlyBlocked` | a main coroutine, no coroutine called `None`, a maximum above 0 |
| `BinaryPorts_proofs`: `BufferHolds`, `PortIsFile`, `FlushesKeepPort` | `PortSpec =>` `[]BufferInvariant`, `ImplementsFile`, `FlushKeepsPort` | a buffer of two octets or more; for the first, that output ports only are flushed, for the others `PlainUse` |

The arguments:

* *Collector.*  `NoDangling` alone is not inductive: it says nothing about where the addresses
  of pages that are about to be freed may be found.  `IInv` adds that: during a collection, a
  page that is kept refers to a collected page only through a word still to be scanned or
  through the car of a weak pair (`TraceInv`), and roots only while still to be gathered
  (`RootInv`); forwarding leads from collected pages to kept ones (`ForwardInv`).  That
  `TraceInv` holds at the start of a collection is the heart of the matter: cards that are
  skipped have no bit of `DIRTY_MASK`, so by the remembered set they have no reference to a
  collected page.  The remembered set in turn (`CardInv`) is kept for pages whose generation
  is settled, because `CLEANUP_MASK` keeps exactly the bits of younger generations that
  `META_DIRTY` gives (`CardBitsLemma`).
* *Precision of the collector.*  That nothing but what is reachable is kept is stated without paths:
  `FullCollectionPrecise` says that every set of pages which has the targets of the roots
  and is closed under strong words is the set of all occupied pages.  `WholeInv` adds
  `PreciseInv` to `IInv`, the same of a collection that is not finished: every set of new
  pages that has what the roots gathered so far gave, and is closed under the words already
  scanned, has all new pages (`LeadsOn`).  A step that gathers a word makes at most one new
  page, which is the target of that word, and that no word comes from a card is because no
  page is older than the oldest generation.
* *Guardians.*  `PlacesInv` and `NoneLost` say that each registration is in one place, a
  protected list, the tconc of its own guardian or a list of the collection, and that one
  that is in none has a guardian that is not kept.  `KeptInv` and `PendingInv` say what
  `is_live` means at each stage: what was traced has all that roots and older objects lead
  to, the pairs to hold have traced objects, those to return have not, and after the last
  round none of those left has a guardian that is kept.  `ListsInv` carries the generations
  of a protected list over a collection: what is kept gets at least the number of the list
  that `HoldRound` fills.  With a lemma about the order in which pairs are appended (an
  enumeration of a finite set has all its members, each once) the action properties follow.
* *Refinement of the collector.*  An object has a name, its page and the copy it was moved to have the
  same one, and no other two pages do (`NamesInv`).  A step of the collector replaces the
  address of an object by that of its copy, and so changes no name; a page that is freed is
  one that no root leads to, by the invariant of the collector, and its objects vanish
  from the abstract heap together.
* *Nursery.*  Added to `NurseryInvariant`: what `do-overflow` returned for fits, and hooks
  whose run caused no collection have seen the last one (`RequestInv`).
* *Dirty cards.*  An object that a collection does not move was older than the collected
  generation (`OlderByMoves`), so a word that the collection skips, which has no bit of
  `DIRTY_MASK` in its card, has nothing that moves.  A word that is gathered brings its bits;
  that `SHIFT_NIBBLE_AT_CARD_SLOT`, `META_DIRTY_MASK` and `CLEANUP_MASK` leave the bit of each
  younger generation at its place in the nibble of its card is a lemma on bit positions, for
  any number of cards.
* *Pages.*  A page is looked up in the vectors at its distance from `memory_base`; the pages
  of a type are a set (`PagesOf`) of which each operation is shown to add or remove an
  interval.  An extension at the low end shifts every page by as much as `memory_base` goes down
  (`Track`), and happens at one end because the stack keeps a page in between.  The cache list
  has no page twice, because what a release adds to it was in use until then; a released block
  is divided into the part that finds room in the cache and the part that is unmapped.
* *Winders.*  Equal lists of winders are the same list because each winder is pushed once:
  `SharedTails` says that two lists which have a winder have it at one depth and agree from
  there outwards.  Hence what is above the longest common tail in the one list is nowhere in
  the other, and an escape calls the guards of no winder twice.  `FramesInv` says of each escape under
  way that it is between its two lists, `SavedInv` that each captured stack fits its winders;
  both are also needed of stacks that escapes have yet to reinstate.
* *Unwind protection.*  A place is a stack with the winders in force on it.  There is a set of
  places (`Places`) that has the current one, what each winder, captured continuation and
  escape under way goes back to, and all that pops of these lead to; on each place a use of a
  syntax has one winder at most, unless it is a handler, and the call on top of the stack is
  that of the innermost winder.  A step adds a place at most (`UnwindInv`), and so what is
  reinstated, at whatever time, fits.  That is enough for `UnwindInvariant`.  For the other
  two the parameter must be right at each out-guard, although handlers raise exceptions and
  leave thunks of their own on the way.  `Shape` divides the stack: outside of the unwind
  handlers (`R`, `O`) the program is where it would be without them, or one escape is on top;
  in them there are only protected thunks, handlers and exceptions that do not get out of the
  outermost handler.  `Reason` says that the parameter is set exactly while the escape of `R`
  is one that asks for cleanups, and that what it has left behind is terminated; a handler
  that runs does not change it because no guard is in force in it.  With a guard in a handler
  that fails, as the code does.
* *Tables.*  A bucket is in the chain of its key's address until a collection moves the key,
  and then in the tconc, because a bucket is never older than its key
  (`NotOlderThanKey`): without that clause a collection could move the key alone.
* *Symbols.*  `OneSymbol` alone is not inductive: a symbol that nobody holds may be asked for
  again.  `ChainsInv` says the same of all symbols of the table, and `StaysInTable` that each
  one held, registered, handed over or in hand is in it.  `unintern` finds what it removes
  because a symbol that the guardian hands over is registered once (`WatchedOnce`): no second
  hand-over finds it gone.  What `lookup` found still stands when the symbol is made unless a
  hook ran in between, because collections add no name to a chain.  The size covers the table
  because `intern-symbol!` writes a size that it read before, which the cleanup can only have
  made too large; a hook of the program that counts a symbol in between (`midway`) makes it
  too small.
* *Continuations.*  That an object holds whole frames is the existence of the positions where
  they end (`Whole`): each but the lowest has the next one its frame's size below it.
  This is kept by pushing a frame, by what is left when the topmost one is taken off, by a
  copy, and by any write elsewhere; so `KontInv` needs of an object only that it is
  either in the heap or above the base, where nothing writes.  `SegmentInv` bounds the frame
  pointer by the mode: a function that was entered is above the red line, one that goes on
  after a return is at most one word below it, and only a call goes further.  `CalloutInv`
  orders the callouts: what a system continuation leads to has smaller numbers than its own,
  and the callouts that `nextK` leads to are those that have not returned.  So the system
  continuation that a C function finds has the greatest number among these, which is the last.
  Splitting an object in place changes what others lead to by an object without a callout.
* *Coroutines.*  `PlacedInv` says where each coroutine is according to its state, `GroupInv`
  what the callers of `concurrently` count, `MonitorInv` that those inside are finitely many, no
  fewer than the counter, and never among the pending; the queues are sequences without repetition.
* *Ports.*  Five lemmas say what `Overwritten` does when octets are appended, cut or written
  twice (`OverwrittenTwice`: a part that a flush wrote before the exception is written over).
  `BufferInvariant` needs `FlushIsOutput` and `OutputAtEnd`, because a flush that is under way
  has moved the device position and not yet the index.  For the refinement, `Outside` gives
  the file and the position that a caller sees, and each action is shown to stutter or to be
  one step of `FilePort`; `Exact` adds that a flush that wrote a part is not ended by an
  exception, which is what `PlainUse` excludes and the code does not.

Only model-checked:

* Liveness (`CollectionEnds`, `QueueIsServed`, `OverflowReturns`, `CallReturns`,
  `NoSourceStarves`, `FullMessageReturns`): temporal reasoning with fairness is out of the
  prover's reach.
* Modules whose definitions are recursive or work on bits: `Bignums`, `Arithmetic`,
  `Encodings`, and so `TextPorts` and `TextOutput`.  What a recursive definition computes for
  every input needs induction over data.
* `Channels` and `EventLoop`: their buffers are portions that are joined or filtered
  (`FlattenSeq`, `SelectSeq`), which again are recursions over data.
* `ImplementsControl`: the frames that an object denotes are a recursion over its words and over
  the list of objects (`FramesOf`, `Denoted`), that is, induction over data again.


## Not modelled

* Components: the integrity checks of the heap (debugging code that changes nothing);
  promises (one object each); compensations (lists in a parameter, run by one handler);
  library loading (a search of files and a graph that is checked before anything runs); FASL,
  reader and writer (sequential conversions with little control); the expander and the
  compiler (pure transformations of programs); rational, floating-point and complex numbers;
  the POSIX, glibc and Linux bindings (one foreign call each); the bundled libraries other
  than event loop and channels.
* Operations of modelled components: relocation of code objects word by word, meta pages,
  page statistics; hash tables with hash functions of the program, their copies and vectors
  of keys; `reset-coroutines!` (documented as not to be used) and `dump-coroutines`; the exit
  procedure and its hooks; `ik_stack_overflow`'s own frame and the arm64 assembly; ports on
  strings, custom ports with invalid answers, the byte order mark, constructors of ports;
  loops entered by handlers; `send-full-message` (three calls that are modelled, in order)
  and `recv-end!/rbl`; property lists and pretty strings of symbols.
* What several modules would share is modelled once: the trace of a collection is
  `Collector`'s, and one step in `Guardians`, `DirtyCards`, `EqHashTables` and
  `SymbolTable`, each of which lets it keep any set that `Collector` could.

Hazards that no property covers are listed with the reason in `PROJECT.json`.

## Plan

Done: the collector with its proofs and refinement; the modules on what surrounds it; the
runtime structures that collections disturb; control; ports; event loop and channels; exact
integers; the proofs above.

Left, in this order:

1. Compositions: `Guardians` with `SymbolTable` in place of its abstract collection;
   `Winders` over `Continuations`.
2. Compensations and promises on top of `UnwindProtection`.
