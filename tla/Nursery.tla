------------------------------- MODULE Nursery -------------------------------
(***************************************************************************)
(* Room in the nursery: how compiled code and C code allocate, what a      *)
(* collection or an enlargement leaves for the request that caused it, and *)
(* the hooks that run after a collection and allocate themselves           *)
(* (ikarus-runtime.c, ikarus-collect.c, ikarus.collect.sls).               *)
(*                                                                         *)
(* The unit of memory is half a page, so that a request may or may not     *)
(* fill its last page.  Only the hot block is represented: full blocks     *)
(* keep their objects until the next collection.  An allocation of a hook  *)
(* takes one unit; the hooks of one run make HookAllocations of them, the  *)
(* key of the collection and the closures of the loop included.            *)
(*                                                                         *)
(* NoMargin, NurserySize, RequestOnly, AnyKey and RoomToTheEnd, which no   *)
(* action uses, are what a plausible bug would make of the definition that *)
(* follows each.                                                           *)
(***************************************************************************)
EXTENDS Integers

CONSTANTS
  NurserySizes,    \* values of ik_customisable_heap_nursery_size
  Requests,        \* sizes of objects
  CollectRequest,  \* the 4096 words of collect
  HookAllocations

PAGESIZE == 2
DOUBLE_PAGESIZE == 2 * PAGESIZE

\* What the constants must satisfy: num-of-bytes? of
\* ikarus.run-time-configuration.sls.
Assumptions ==
  /\ \A s \in NurserySizes : s \in Nat /\ s > 3 * PAGESIZE /\ s % PAGESIZE = 0
  /\ Requests \subseteq Nat \ {0} /\ CollectRequest \in Nat /\ HookAllocations \in Nat

VARIABLES
  nursery,            \* ik_customisable_heap_nursery_size
  size,               \* heap_nursery_hot_block_size
  allocation_pointer, \* offset in the hot block
  allocation_redline,
  forbidden,          \* ik_garbage_collection_is_forbidden
  hooks,              \* post-gc-hooks is not empty
  collect_key,
  unseen,             \* a collection happened since the hooks last started
  mode,
  pending             \* the request in hand

block == <<size, allocation_pointer, allocation_redline>>
vars  == <<nursery, block, forbidden, hooks, collect_key, unseen, mode, pending>>

None == [n |-> 0, automatic |-> FALSE, object |-> FALSE, left |-> 0]

TypeOK ==
  /\ nursery \in NurserySizes
  /\ size \in Nat /\ size % PAGESIZE = 0 /\ size > DOUBLE_PAGESIZE
  /\ allocation_redline = size - DOUBLE_PAGESIZE
  /\ allocation_pointer \in Nat
  /\ forbidden \in BOOLEAN /\ hooks \in BOOLEAN /\ unseen \in BOOLEAN
  /\ collect_key \in {"none", "k0"}
  /\ mode \in {"program", "start", "hooks", "ready", "aborted"}
  /\ pending \in [n : Nat, automatic : BOOLEAN, object : BOOLEAN,
                  left : 0 .. HookAllocations]

AlignToNextPage(n) == ((n + PAGESIZE - 1) \div PAGESIZE) * PAGESIZE

NoMargin(s) == s

Redline(s) == s - DOUBLE_PAGESIZE

\* ik_make_pcb
Init ==
  /\ nursery \in NurserySizes
  /\ size = nursery
  /\ allocation_pointer = 0 /\ allocation_redline = Redline(nursery)
  /\ forbidden = FALSE /\ hooks = FALSE /\ collect_key = "none" /\ unseen = FALSE
  /\ mode = "program" /\ pending = None

-----------------------------------------------------------------------------
(* New hot blocks.                                                         *)

NurserySize(n) == nursery

\* Size of the block of ik_make_room_in_heap_nursery.
RoomSize(n) ==
  IF n > nursery - DOUBLE_PAGESIZE THEN AlignToNextPage(n + DOUBLE_PAGESIZE) ELSE nursery

RequestOnly(n) == IF n > nursery THEN AlignToNextPage(n) ELSE nursery

\* Size of the block of perform_garbage_collection.
CollectedSize(n) ==
  IF n > nursery THEN AlignToNextPage(n + DOUBLE_PAGESIZE) ELSE nursery

NewBlock(s, used) ==
  /\ size' = s
  /\ allocation_redline' = Redline(s)
  /\ allocation_pointer' = used

\* ik_make_room_in_heap_nursery, then USED units are taken.
MakeRoom(n, used) ==
  /\ NewBlock(RoomSize(n), used)
  /\ UNCHANGED <<collect_key, unseen>>

\* perform_garbage_collection, then USED units are taken: the hot block is
\* recycled if it is big enough.
Collect(n, used) ==
  /\ collect_key' = "none"
  /\ unseen' = TRUE
  /\ IF allocation_redline <= n \/ size < nursery
     THEN NewBlock(CollectedSize(n), used)
     ELSE allocation_pointer' = used /\ UNCHANGED <<size, allocation_redline>>

Take(n) ==
  /\ allocation_pointer' = allocation_pointer + n
  /\ UNCHANGED <<size, allocation_redline, collect_key, unseen>>

\* ik_automatic_collect_from_scheme_no_hooks, and what the others do in
\* common: collections may be forbidden.
CollectOrMakeRoom(n, used) == IF forbidden THEN MakeRoom(n, used) ELSE Collect(n, used)

-----------------------------------------------------------------------------
(* Allocation.                                                             *)

\* The test of compiled code (alloc-check): for a constant of a page at most
\* the end of the object is not compared.
Fits(n, constant) ==
  IF constant /\ n <= PAGESIZE THEN allocation_pointer <= allocation_redline
                               ELSE allocation_redline - allocation_pointer >= n

Past(n) ==
  \/ allocation_pointer + n >= size
  \/ allocation_pointer + n >= allocation_redline

\* Where the program goes on after do-overflow or collect: in the hooks, if
\* there are any.
AfterCollection(n, automatic, object) ==
  /\ pending' = [n |-> n, automatic |-> automatic, object |-> object,
                 left |-> HookAllocations]
  /\ mode' = IF hooks THEN "start" ELSE "ready"

\* An object allocated by compiled code; the code tests before it calls
\* do-overflow, and not again after it.
SchemeAlloc(n, constant) ==
  /\ mode = "program"
  /\ Fits(n, constant)
  /\ Take(n)
  /\ UNCHANGED <<nursery, forbidden, hooks, mode, pending>>

\* do-overflow, up to the hooks
do_overflow(n, constant) ==
  /\ mode = "program" /\ ~Fits(n, constant)
  /\ IF forbidden /\ ~Past(n) THEN Take(0) ELSE CollectOrMakeRoom(n, 0)
  /\ AfterCollection(n, TRUE, TRUE)
  /\ UNCHANGED <<nursery, forbidden, hooks>>

\* The primitive operation $seal-frame-and-call does not run the hooks.
AllocNoHooks ==
  /\ mode = "program" /\ ~Fits(1, TRUE)
  /\ CollectOrMakeRoom(1, 1)
  /\ UNCHANGED <<nursery, forbidden, hooks, mode, pending>>

\* collect and automatic-collect
collect ==
  /\ mode = "program"
  /\ Collect(CollectRequest, 0)
  /\ AfterCollection(CollectRequest, FALSE, FALSE)
  /\ UNCHANGED <<nursery, forbidden, hooks>>

automatic_collect ==
  /\ mode = "program"
  /\ IF forbidden /\ ~Past(CollectRequest) THEN Take(0)
                                           ELSE CollectOrMakeRoom(CollectRequest, 0)
  /\ AfterCollection(CollectRequest, TRUE, FALSE)
  /\ UNCHANGED <<nursery, forbidden, hooks>>

\* ik_unsafe_alloc
ik_unsafe_alloc(n) ==
  /\ mode = "program"
  /\ IF allocation_pointer + n < size THEN Take(n) ELSE MakeRoom(n, n)
  /\ UNCHANGED <<nursery, forbidden, hooks, mode, pending>>

\* ik_safe_alloc aborts the process if there is no room after a collection.
ik_safe_alloc(n) ==
  /\ mode = "program"
  /\ IF allocation_pointer + n < size
     THEN Take(n) /\ UNCHANGED mode
     ELSE /\ CollectOrMakeRoom(n, n)
          /\ mode' = IF n < size' THEN mode ELSE "aborted"
  /\ UNCHANGED <<nursery, forbidden, hooks, pending>>

-----------------------------------------------------------------------------
(* The hooks after a collection.                                           *)

\* %do-post-gc takes the key of the collection before it calls the hooks.
RunStarts ==
  /\ mode = "start" /\ mode' = "hooks"
  /\ collect_key' = "k0" /\ unseen' = FALSE
  /\ pending' = [pending EXCEPT !.left = HookAllocations]
  /\ UNCHANGED <<nursery, block, forbidden, hooks>>

\* A hook allocates; post-gc-hooks is bound to the empty list meanwhile.
HookAlloc ==
  /\ mode = "hooks" /\ pending.left > 0
  /\ IF Fits(1, TRUE) THEN Take(1) ELSE CollectOrMakeRoom(1, 1)
  /\ pending' = [pending EXCEPT !.left = @ - 1]
  /\ UNCHANGED <<nursery, forbidden, hooks, mode>>

AnyKey == TRUE

\* No collection since the run of the hooks began.
SameKey == collect_key = "k0"

RoomToTheEnd == pending.n <= size - allocation_pointer

HasRoom == pending.n <= allocation_redline - allocation_pointer

\* The hooks returned: they run again if they caused a collection, and if
\* the check causes one because they left too little room.
RunEnds ==
  /\ mode = "hooks"
  /\ \/ /\ ~SameKey
        /\ Take(0) /\ mode' = "start"
     \/ /\ SameKey /\ HasRoom
        /\ Take(0) /\ mode' = "ready"
     \/ /\ SameKey /\ ~HasRoom /\ forbidden /\ pending.automatic
        /\ MakeRoom(pending.n, 0) /\ mode' = "ready"
     \/ /\ SameKey /\ ~HasRoom /\ ~(forbidden /\ pending.automatic)
        /\ Collect(pending.n, 0) /\ mode' = "start"
  /\ UNCHANGED <<nursery, forbidden, hooks, pending>>

\* do-overflow returns to code that allocates, collect to its caller.
Return ==
  /\ mode = "ready" /\ mode' = "program"
  /\ IF pending.object THEN Take(pending.n) ELSE Take(0)
  /\ pending' = None
  /\ UNCHANGED <<nursery, forbidden, hooks>>

-----------------------------------------------------------------------------

\* scheme-heap-nursery-size
SetNurserySize(s) ==
  /\ mode = "program" /\ nursery' = s
  /\ UNCHANGED <<block, forbidden, hooks, collect_key, unseen, mode, pending>>

\* automatic-garbage-collection
SetForbidden(f) ==
  /\ mode = "program" /\ forbidden' = f
  /\ UNCHANGED <<nursery, block, hooks, collect_key, unseen, mode, pending>>

\* post-gc-hooks, given the empty list or hooks
SetHooks(h) ==
  /\ mode = "program" /\ hooks' = h
  /\ UNCHANGED <<nursery, block, forbidden, collect_key, unseen, mode, pending>>

Overflowing == RunStarts \/ HookAlloc \/ RunEnds \/ Return

Next ==
  \/ \E n \in Requests, c \in BOOLEAN : SchemeAlloc(n, c) \/ do_overflow(n, c)
  \/ AllocNoHooks
  \/ collect
  \/ automatic_collect
  \/ \E n \in Requests : ik_unsafe_alloc(n) \/ ik_safe_alloc(n)
  \/ RunStarts
  \/ HookAlloc
  \/ RunEnds
  \/ Return
  \/ \E s \in NurserySizes : SetNurserySize(s)
  \/ \E f \in BOOLEAN : SetForbidden(f)
  \/ \E h \in BOOLEAN : SetHooks(h)

Spec == Init /\ [][Next]_vars

\* The program is one thread: what it has begun it goes on with.
FairSpec == Spec /\ WF_vars(Overflowing)

-----------------------------------------------------------------------------
(* Properties.                                                             *)

\* No object is allocated past the end of the hot block, although compiled
\* code compares only the red line and does not look again after do-overflow.
NothingPastTheEnd == allocation_pointer <= size

\* The hooks that do-overflow and collect run have started after the last
\* collection, also after those that the hooks and the check cause.
HooksSeeLastCollection == mode = "ready" /\ hooks => ~unseen

\* When do-overflow returns and the hooks have run there is room for the
\* request before the red line.
RoomAfterHooks ==
  mode = "ready" /\ hooks => allocation_pointer + pending.n <= allocation_redline

\* ik_safe_alloc aborts the process only for an object that is exactly as
\* large as the nursery, and so would fill the block: for every other size the
\* collector leaves enough room.
EnoughRoomLeft == mode = "aborted" => allocation_pointer = size /\ size = nursery

\* There is room for every request, from Scheme and from C, also after hooks
\* that allocate; and the hooks have seen the last collection.
NurseryInvariant ==
  /\ TypeOK
  /\ NothingPastTheEnd /\ RoomAfterHooks /\ EnoughRoomLeft
  /\ HooksSeeLastCollection

\* do-overflow returns, with room for the request.
OverflowReturns == mode \in {"start", "hooks"} ~> mode = "ready"

=============================================================================
