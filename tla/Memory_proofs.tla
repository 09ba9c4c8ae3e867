---------------------------- MODULE Memory_proofs ----------------------------
(***************************************************************************)
(* Theorems on memory.                                                     *)
(*   Nursery: RoomForAll, for all sizes of the nursery and of objects and  *)
(*     any number of allocations of the hooks.                             *)
(*   Guardians: NothingGuardedIsFreed and TheDeadAreReturned, for any sets *)
(*     of objects and guardians, any finite set of registrations and any   *)
(*     number of generations.                                              *)
(*   DirtyCards: NoneYoungerInCleanCards, for any pages, objects and words *)
(*     and any number of cards whose dirty bits are kept.                  *)
(*   Pages: PagesHaveOneOwner, for any memory, segments, blocks and cache. *)
(***************************************************************************)
EXTENDS Nursery, Guardians, DirtyCards, Pages, FiniteSetTheorems, SequenceTheorems, TLAPS

-----------------------------------------------------------------------------
(* Nursery.                                                                *)

\* The object that do-overflow returned for fits, and hooks that ran without
\* causing a collection have seen the last one.
RequestInv ==
  /\ mode = "ready" /\ pending.object => allocation_pointer + pending.n <= size
  /\ mode = "hooks" /\ collect_key = "k0" => ~unseen

NurseryIInv == NurseryInvariant /\ RequestInv

\* What TypeOK says of a hot block.
BlockOK ==
  /\ size \in Nat /\ size % PAGESIZE = 0 /\ size > DOUBLE_PAGESIZE
  /\ allocation_redline = size - DOUBLE_PAGESIZE
  /\ allocation_pointer \in Nat /\ allocation_pointer <= size

\* IK_ALIGN_TO_NEXT_PAGE gives whole pages, with room for the request.
LEMMA AlignLemma ==
  ASSUME NEW n \in Nat
  PROVE  /\ AlignToNextPage(n) \in Nat /\ AlignToNextPage(n) >= n
         /\ AlignToNextPage(n) % PAGESIZE = 0
  BY DEF AlignToNextPage, PAGESIZE

\* The sizes of the nursery are large enough for the red line.
LEMMA NurseryLemma ==
  ASSUME Assumptions, TypeOK
  PROVE  nursery \in Nat /\ nursery > 6 /\ nursery % PAGESIZE = 0
  BY DEF Assumptions, TypeOK, PAGESIZE

\* ik_make_room_in_heap_nursery leaves the request before the red line.
LEMMA MakeRoomLemma ==
  ASSUME Assumptions, TypeOK, NEW n \in Nat, NEW used \in 0 .. n, MakeRoom(n, used)
  PROVE  /\ BlockOK' /\ allocation_pointer' = used
         /\ n + DOUBLE_PAGESIZE <= size'
         /\ UNCHANGED <<collect_key, unseen>>
<1>1. n + DOUBLE_PAGESIZE \in Nat
  BY DEF DOUBLE_PAGESIZE, PAGESIZE
<1>2. /\ RoomSize(n) \in Nat /\ RoomSize(n) % PAGESIZE = 0
      /\ RoomSize(n) > DOUBLE_PAGESIZE /\ n + DOUBLE_PAGESIZE <= RoomSize(n)
  <2>1. CASE n > nursery - DOUBLE_PAGESIZE
    BY <1>1, <2>1, NurseryLemma, AlignLemma DEF RoomSize, DOUBLE_PAGESIZE, PAGESIZE
  <2>2. CASE ~ n > nursery - DOUBLE_PAGESIZE
    BY <2>2, NurseryLemma DEF RoomSize, DOUBLE_PAGESIZE, PAGESIZE
  <2> QED BY <2>1, <2>2
<1> QED
  BY <1>2 DEF MakeRoom, NewBlock, Redline, BlockOK, DOUBLE_PAGESIZE, PAGESIZE

\* perform_garbage_collection leaves a block for the request; only a request of
\* the size of the nursery fills it to the end.
LEMMA CollectLemma ==
  ASSUME Assumptions, TypeOK, NEW n \in Nat, NEW used \in 0 .. n, Collect(n, used)
  PROVE  /\ BlockOK' /\ allocation_pointer' = used
         /\ n < size' \/ (n = size' /\ n = nursery)
         /\ collect_key' = "none" /\ unseen' = TRUE
<1>1. n + DOUBLE_PAGESIZE \in Nat
  BY DEF DOUBLE_PAGESIZE, PAGESIZE
<1>2. /\ CollectedSize(n) \in Nat /\ CollectedSize(n) % PAGESIZE = 0
      /\ CollectedSize(n) > DOUBLE_PAGESIZE
      /\ n < CollectedSize(n) \/ (n = CollectedSize(n) /\ n = nursery)
  <2>1. CASE n > nursery
    BY <1>1, <2>1, NurseryLemma, AlignLemma DEF CollectedSize, DOUBLE_PAGESIZE, PAGESIZE
  <2>2. CASE ~ n > nursery
    BY <2>2, NurseryLemma DEF CollectedSize, DOUBLE_PAGESIZE, PAGESIZE
  <2> QED BY <2>1, <2>2
<1>3. CASE allocation_redline <= n \/ size < nursery
  BY <1>2, <1>3 DEF Collect, NewBlock, Redline, BlockOK, DOUBLE_PAGESIZE, PAGESIZE
<1>4. CASE ~(allocation_redline <= n \/ size < nursery)
  BY <1>4 DEF Collect, TypeOK, BlockOK, DOUBLE_PAGESIZE, PAGESIZE
<1> QED BY <1>3, <1>4

\* What CollectOrMakeRoom leaves, whichever of the two it is; the hooks have
\* then not seen the last collection only if the key is lost.
LEMMA NewRoom ==
  ASSUME Assumptions, TypeOK, NEW n \in Nat, NEW used \in 0 .. n,
         CollectOrMakeRoom(n, used)
  PROVE  /\ BlockOK' /\ allocation_pointer' = used
         /\ n < size' \/ (n = size' /\ n = nursery)
         /\ \/ collect_key' = "none" /\ unseen' = TRUE
            \/ UNCHANGED <<collect_key, unseen>>
<1>1. CASE forbidden
  BY <1>1, MakeRoomLemma DEF CollectOrMakeRoom, BlockOK, DOUBLE_PAGESIZE, PAGESIZE
<1>2. CASE ~forbidden
  BY <1>2, CollectLemma DEF CollectOrMakeRoom
<1> QED BY <1>1, <1>2

\* Take stays in the block if the request fits.
LEMMA TakeLemma ==
  ASSUME TypeOK, NEW n \in Nat, Take(n), allocation_pointer + n <= size
  PROVE  /\ BlockOK' /\ allocation_pointer' = allocation_pointer + n
         /\ UNCHANGED <<size, allocation_redline, collect_key, unseen>>
  BY DEF TypeOK, Take, BlockOK, DOUBLE_PAGESIZE, PAGESIZE

\* The test of compiled code looks at the red line only: the two pages behind
\* it hold every constant that is not compared.
LEMMA FitsLemma ==
  ASSUME TypeOK, NEW n \in Nat, NEW c \in BOOLEAN, Fits(n, c)
  PROVE  allocation_pointer + n <= size
  BY DEF TypeOK, Fits, DOUBLE_PAGESIZE, PAGESIZE

\* Where the program goes on after do-overflow or collect.
LEMMA AfterLemma ==
  ASSUME Assumptions, NEW n \in Nat, NEW a \in BOOLEAN, NEW o \in BOOLEAN,
         AfterCollection(n, a, o)
  PROVE  /\ pending' \in [n : Nat, automatic : BOOLEAN, object : BOOLEAN,
                          left : 0 .. HookAllocations]
         /\ pending'.n = n /\ pending'.object = o
         /\ mode' \in {"start", "ready"} /\ (mode' = "ready" => ~hooks)
  BY DEF AfterCollection, Assumptions

\* The room for a request that do-overflow, collect or automatic-collect made
\* keeps the invariant, whether there are hooks or not.
LEMMA OverflowLemma ==
  ASSUME Assumptions, NurseryIInv, NEW n \in Nat, NEW a \in BOOLEAN, NEW o \in BOOLEAN,
         BlockOK', o => allocation_pointer' + n <= size',
         collect_key' \in {"none", "k0"}, unseen' \in BOOLEAN,
         AfterCollection(n, a, o), UNCHANGED <<nursery, forbidden, hooks>>
  PROVE  NurseryIInv'
  BY AfterLemma DEF NurseryIInv, NurseryInvariant, RequestInv, TypeOK, BlockOK, NothingPastTheEnd,
     RoomAfterHooks, EnoughRoomLeft, HooksSeeLastCollection

\* A step of the program or of a hook that allocates in the block it finds or
\* in a new one, and does not call do-overflow.
LEMMA AllocLemma ==
  ASSUME Assumptions, NurseryIInv, BlockOK', mode \in {"program", "hooks"},
         UNCHANGED <<nursery, forbidden, hooks, mode>>,
         \/ collect_key' = "none" /\ unseen' = TRUE
         \/ UNCHANGED <<collect_key, unseen>>,
         pending' \in [n : Nat, automatic : BOOLEAN, object : BOOLEAN,
                      left : 0 .. HookAllocations]
  PROVE  NurseryIInv'
<1>1. collect_key' \in {"none", "k0"} /\ unseen' \in BOOLEAN
  BY DEF NurseryIInv, NurseryInvariant, TypeOK
<1>2. TypeOK'
  BY <1>1 DEF NurseryIInv, NurseryInvariant, TypeOK, BlockOK
<1>3. NothingPastTheEnd' /\ EnoughRoomLeft'
  BY DEF NurseryIInv, NurseryInvariant, BlockOK, NothingPastTheEnd, EnoughRoomLeft
<1>4. RoomAfterHooks' /\ HooksSeeLastCollection'
  BY DEF RoomAfterHooks, HooksSeeLastCollection
<1>5. RequestInv'
  <2>1. CASE collect_key' = "none"
    BY <2>1 DEF RequestInv
  <2>2. CASE UNCHANGED <<collect_key, unseen>>
    BY <2>2 DEF NurseryIInv, RequestInv
  <2> QED BY <2>1, <2>2
<1> QED BY <1>2, <1>3, <1>4, <1>5 DEF NurseryIInv, NurseryInvariant

\* Nothing is allocated past the end of the hot block; when the hooks have run
\* there is room for the request before the red line, and they have seen the
\* last collection; ik_safe_alloc does not abort unless an object has the size
\* of the nursery.
THEOREM RoomForAll == ASSUME Assumptions PROVE Spec => []NurseryInvariant
<1>1. Init => NurseryIInv
  <2> SUFFICES ASSUME Init PROVE NurseryIInv
    OBVIOUS
  <2>1. nursery \in Nat /\ nursery > 6 /\ nursery % 2 = 0
    BY DEF Init, Assumptions, PAGESIZE
  <2>2. TypeOK
    <3>1. size \in Nat /\ size % PAGESIZE = 0 /\ size > DOUBLE_PAGESIZE
      BY <2>1 DEF Init, DOUBLE_PAGESIZE, PAGESIZE
    <3>2. HookAllocations \in Nat /\ 0 \in 0 .. HookAllocations
      BY DEF Assumptions
    <3>3. pending \in [n : Nat, automatic : BOOLEAN, object : BOOLEAN,
                      left : 0 .. HookAllocations]
      BY <3>2 DEF Init, None
    <3>4. allocation_redline = size - DOUBLE_PAGESIZE
      BY DEF Init, Redline
    <3> QED BY <3>1, <3>3, <3>4 DEF Init, TypeOK
  <2>3. NothingPastTheEnd
    BY <2>1 DEF Init, NothingPastTheEnd
  <2> QED
    BY <2>2, <2>3 DEF Init, NurseryIInv, NurseryInvariant, RequestInv, RoomAfterHooks, EnoughRoomLeft,
       HooksSeeLastCollection
<1>2. ASSUME NurseryIInv, [Next]_vars PROVE NurseryIInv'
  <2> TypeOK /\ NothingPastTheEnd /\ Requests \subseteq Nat \ {0} /\ CollectRequest \in Nat
    BY <1>2 DEF NurseryIInv, NurseryInvariant, Assumptions
  <2> \A n \in Nat : 0 \in 0 .. n
    OBVIOUS
  <2> 1 \in Nat /\ 1 \in 0 .. 1
    OBVIOUS
  <2>1. ASSUME NEW n \in Requests, NEW c \in BOOLEAN, SchemeAlloc(n, c) PROVE NurseryIInv'
    <3>1. BlockOK' /\ UNCHANGED <<collect_key, unseen>>
      BY <2>1, FitsLemma, TakeLemma DEF SchemeAlloc
    <3> QED BY <1>2, <2>1, <3>1, AllocLemma DEF SchemeAlloc, TypeOK
  <2>2. ASSUME NEW n \in Requests, NEW c \in BOOLEAN, do_overflow(n, c) PROVE NurseryIInv'
    <3>1. CASE forbidden /\ ~Past(n)
      <4>1. Take(0) /\ allocation_pointer + n < size
        BY <2>2, <3>1 DEF do_overflow, Past, TypeOK, DOUBLE_PAGESIZE, PAGESIZE
      <4>2. BlockOK' /\ allocation_pointer' + n <= size' /\ UNCHANGED <<collect_key, unseen>>
        BY <4>1, TakeLemma DEF TypeOK, NothingPastTheEnd
      <4> QED BY <1>2, <2>2, <4>2, OverflowLemma DEF do_overflow, TypeOK
    <3>2. CASE ~(forbidden /\ ~Past(n))
      <4>1. CollectOrMakeRoom(n, 0)
        BY <2>2, <3>2 DEF do_overflow
      <4>2. BlockOK' /\ allocation_pointer' = 0 /\ n <= size'
        <5>1. n \in Nat /\ 0 \in 0 .. n
          OBVIOUS
        <5>2. BlockOK' /\ allocation_pointer' = 0 /\ (n < size' \/ n = size')
          BY <4>1, <5>1, NewRoom
        <5> QED BY <5>1, <5>2 DEF BlockOK
      <4>3. collect_key' \in {"none", "k0"} /\ unseen' \in BOOLEAN
        <5>1. n \in Nat /\ 0 \in 0 .. n
          OBVIOUS
        <5> QED BY <4>1, <5>1, NewRoom DEF TypeOK
      <4>4. allocation_pointer' + n <= size'
        BY <4>2 DEF BlockOK
      <4>5. AfterCollection(n, TRUE, TRUE) /\ UNCHANGED <<nursery, forbidden, hooks>>
        BY <2>2 DEF do_overflow
      <4> QED BY <1>2, <4>2, <4>3, <4>4, <4>5, OverflowLemma
    <3> QED BY <3>1, <3>2
  <2>3. CASE AllocNoHooks
    <3>1. /\ BlockOK'
          /\ \/ collect_key' = "none" /\ unseen' = TRUE
             \/ UNCHANGED <<collect_key, unseen>>
      BY <2>3, NewRoom DEF AllocNoHooks
    <3> QED BY <1>2, <2>3, <3>1, AllocLemma DEF AllocNoHooks, TypeOK
  <2>4. CASE collect
    <3>1. BlockOK' /\ collect_key' = "none" /\ unseen' = TRUE
      BY <2>4, CollectLemma DEF collect
    <3> QED BY <1>2, <2>4, <3>1, OverflowLemma DEF collect
  <2>5. CASE automatic_collect
    <3>1. /\ BlockOK'
          /\ \/ collect_key' = "none" /\ unseen' = TRUE
             \/ UNCHANGED <<collect_key, unseen>>
      <4>1. CASE forbidden /\ ~Past(CollectRequest)
        BY <2>5, <4>1, TakeLemma DEF automatic_collect, TypeOK, NothingPastTheEnd
      <4>2. CASE ~(forbidden /\ ~Past(CollectRequest))
        BY <2>5, <4>2, NewRoom DEF automatic_collect
      <4> QED BY <4>1, <4>2
    <3> QED BY <1>2, <2>5, <3>1, OverflowLemma DEF automatic_collect, TypeOK
  <2>6. ASSUME NEW n \in Requests, ik_unsafe_alloc(n) PROVE NurseryIInv'
    <3>1. BlockOK' /\ UNCHANGED <<collect_key, unseen>>
      <4>1. CASE allocation_pointer + n < size
        BY <2>6, <4>1, TakeLemma DEF ik_unsafe_alloc, TypeOK
      <4>2. CASE ~(allocation_pointer + n < size)
        BY <2>6, <4>2, MakeRoomLemma DEF ik_unsafe_alloc
      <4> QED BY <4>1, <4>2
    <3> QED BY <1>2, <2>6, <3>1, AllocLemma DEF ik_unsafe_alloc, TypeOK
  <2>7. ASSUME NEW n \in Requests, ik_safe_alloc(n) PROVE NurseryIInv'
    <3>1. CASE allocation_pointer + n < size
      <4>1. BlockOK' /\ UNCHANGED <<collect_key, unseen>>
        BY <2>7, <3>1, TakeLemma DEF ik_safe_alloc, TypeOK
      <4> QED BY <1>2, <2>7, <3>1, <4>1, AllocLemma DEF ik_safe_alloc, TypeOK
    <3>2. CASE ~(allocation_pointer + n < size)
      <4>1. CollectOrMakeRoom(n, n)
        BY <2>7, <3>2 DEF ik_safe_alloc
      <4>2. /\ BlockOK' /\ allocation_pointer' = n
            /\ n < size' \/ (n = size' /\ n = nursery)
            /\ \/ collect_key' = "none" /\ unseen' = TRUE
               \/ UNCHANGED <<collect_key, unseen>>
        <5>1. n \in Nat /\ n \in 0 .. n
          OBVIOUS
        <5> QED BY <4>1, <5>1, NewRoom
      <4>3. CASE n < size'
        BY <1>2, <2>7, <3>2, <4>2, <4>3, AllocLemma DEF ik_safe_alloc, TypeOK
      <4>4. CASE n = size' /\ n = nursery
        <5>1. mode' = "aborted" /\ UNCHANGED <<nursery, forbidden, hooks, pending>>
          BY <2>7, <3>2, <4>4 DEF ik_safe_alloc, BlockOK
        <5>2. allocation_pointer' = size' /\ size' = nursery'
          BY <4>2, <4>4, <5>1
        <5>3. collect_key' \in {"none", "k0"} /\ unseen' \in BOOLEAN
          BY <4>2 DEF TypeOK
        <5>4. TypeOK'
          BY <4>2, <5>1, <5>3 DEF TypeOK, BlockOK
        <5>5. NothingPastTheEnd' /\ EnoughRoomLeft'
          BY <4>2, <5>2 DEF NothingPastTheEnd, EnoughRoomLeft, BlockOK
        <5>6. RoomAfterHooks' /\ HooksSeeLastCollection' /\ RequestInv'
          BY <5>1 DEF RoomAfterHooks, HooksSeeLastCollection, RequestInv
        <5> QED BY <5>4, <5>5, <5>6 DEF NurseryIInv, NurseryInvariant
      <4> QED BY <4>2, <4>3, <4>4
    <3> QED BY <3>1, <3>2
  <2>8. CASE RunStarts
    <3>1. pending' \in [n : Nat, automatic : BOOLEAN, object : BOOLEAN,
                       left : 0 .. HookAllocations]
      <4>1. HookAllocations \in 0 .. HookAllocations
        BY DEF Assumptions
      <4> QED BY <2>8, <4>1 DEF RunStarts, TypeOK
    <3>2. TypeOK'
      BY <2>8, <3>1 DEF RunStarts, block, TypeOK
    <3>3. NothingPastTheEnd' /\ EnoughRoomLeft'
      BY <1>2, <2>8 DEF RunStarts, block, NurseryIInv, NurseryInvariant, NothingPastTheEnd,
         EnoughRoomLeft
    <3>4. RoomAfterHooks' /\ HooksSeeLastCollection' /\ RequestInv'
      BY <2>8 DEF RunStarts, RoomAfterHooks, HooksSeeLastCollection, RequestInv
    <3> QED BY <3>2, <3>3, <3>4 DEF NurseryIInv, NurseryInvariant
  <2>9. CASE HookAlloc
    <3>1. /\ BlockOK'
          /\ \/ collect_key' = "none" /\ unseen' = TRUE
             \/ UNCHANGED <<collect_key, unseen>>
      <4>1. CASE Fits(1, TRUE)
        BY <2>9, <4>1, FitsLemma, TakeLemma DEF HookAlloc
      <4>2. CASE ~Fits(1, TRUE)
        BY <2>9, <4>2, NewRoom DEF HookAlloc
      <4> QED BY <4>1, <4>2
    <3>2. pending' \in [n : Nat, automatic : BOOLEAN, object : BOOLEAN,
                       left : 0 .. HookAllocations]
      BY <2>9 DEF HookAlloc, TypeOK, Assumptions
    <3> QED BY <1>2, <2>9, <3>1, <3>2, AllocLemma DEF HookAlloc
  <2>10. CASE RunEnds
    <3> USE DEF NurseryIInv, NurseryInvariant, RequestInv, BlockOK, NothingPastTheEnd, RoomAfterHooks,
                EnoughRoomLeft, HooksSeeLastCollection
    <3>1. CASE ~SameKey /\ Take(0) /\ mode' = "start"
      <4>1. BlockOK' /\ UNCHANGED <<size, allocation_redline, collect_key, unseen>>
        BY <3>1, TakeLemma DEF TypeOK
      <4> QED BY <1>2, <2>10, <3>1, <4>1 DEF RunEnds, TypeOK
    <3>2. CASE SameKey /\ HasRoom /\ Take(0) /\ mode' = "ready"
      <4>1. /\ BlockOK' /\ allocation_pointer' = allocation_pointer
            /\ UNCHANGED <<size, allocation_redline, collect_key, unseen>>
        BY <3>2, TakeLemma DEF TypeOK
      <4>2. allocation_pointer + pending.n <= allocation_redline
        BY <3>2 DEF HasRoom, TypeOK, DOUBLE_PAGESIZE, PAGESIZE
      <4> QED
        BY <1>2, <2>10, <3>2, <4>1, <4>2 DEF RunEnds, SameKey, TypeOK, DOUBLE_PAGESIZE, PAGESIZE
    <3>3. CASE SameKey /\ MakeRoom(pending.n, 0) /\ mode' = "ready"
      <4>1. /\ BlockOK' /\ allocation_pointer' = 0
            /\ pending.n + DOUBLE_PAGESIZE <= size' /\ UNCHANGED <<collect_key, unseen>>
        <5>1. pending.n \in Nat /\ 0 \in 0 .. pending.n
          BY DEF TypeOK
        <5> QED BY <3>3, <5>1, MakeRoomLemma
      <4>2. 0 + pending.n <= size' - DOUBLE_PAGESIZE /\ 0 + pending.n <= size'
        BY <4>1 DEF TypeOK, BlockOK, DOUBLE_PAGESIZE, PAGESIZE
      <4> QED
        BY <1>2, <2>10, <3>3, <4>1, <4>2 DEF RunEnds, SameKey, TypeOK
    <3>4. CASE Collect(pending.n, 0) /\ mode' = "start"
      <4>1. BlockOK' /\ collect_key' = "none" /\ unseen' = TRUE
        <5>1. pending.n \in Nat /\ 0 \in 0 .. pending.n
          BY DEF TypeOK
        <5> QED BY <3>4, <5>1, CollectLemma
      <4> QED BY <1>2, <2>10, <3>4, <4>1 DEF RunEnds, TypeOK
    <3> QED BY <2>10, <3>1, <3>2, <3>3, <3>4 DEF RunEnds
  <2>11. CASE Return
    <3> USE DEF NurseryIInv, NurseryInvariant, RequestInv, BlockOK, NothingPastTheEnd, RoomAfterHooks,
                EnoughRoomLeft, HooksSeeLastCollection
    <3>1. BlockOK' /\ UNCHANGED <<collect_key, unseen>>
      <4>1. CASE pending.object
        BY <1>2, <2>11, <4>1, TakeLemma DEF Return, TypeOK
      <4>2. CASE ~pending.object
        BY <1>2, <2>11, <4>2, TakeLemma DEF Return, TypeOK
      <4> QED BY <4>1, <4>2
    <3> QED BY <1>2, <2>11, <3>1 DEF Return, TypeOK, None, Assumptions
  <2>12. ASSUME NEW s \in NurserySizes, SetNurserySize(s) PROVE NurseryIInv'
    BY <1>2, <2>12 DEF SetNurserySize, block, NurseryIInv, NurseryInvariant, RequestInv, TypeOK,
       NothingPastTheEnd, RoomAfterHooks, EnoughRoomLeft, HooksSeeLastCollection
  <2>13. ASSUME NEW f \in BOOLEAN, SetForbidden(f) PROVE NurseryIInv'
    BY <1>2, <2>13 DEF SetForbidden, block, NurseryIInv, NurseryInvariant, RequestInv, TypeOK,
       NothingPastTheEnd, RoomAfterHooks, EnoughRoomLeft, HooksSeeLastCollection
  <2>14. ASSUME NEW h \in BOOLEAN, SetHooks(h) PROVE NurseryIInv'
    BY <1>2, <2>14 DEF SetHooks, block, NurseryIInv, NurseryInvariant, RequestInv, TypeOK,
       NothingPastTheEnd, RoomAfterHooks, EnoughRoomLeft, HooksSeeLastCollection
  <2>15. CASE UNCHANGED vars
    BY <1>2, <2>15 DEF vars, block, NurseryIInv, NurseryInvariant, RequestInv, TypeOK,
       NothingPastTheEnd, RoomAfterHooks, EnoughRoomLeft, HooksSeeLastCollection
  <2> QED
    BY <1>2, <2>1, <2>2, <2>3, <2>4, <2>5, <2>6, <2>7, <2>8, <2>9, <2>10, <2>11, <2>12,
       <2>13, <2>14, <2>15 DEF Next
<1>3. NurseryIInv => NurseryInvariant
  BY DEF NurseryIInv
<1> QED BY <1>1, <1>2, <1>3, PTL DEF Spec

-----------------------------------------------------------------------------
(* The queues.                                                             *)

LEMMA EmptyQueue == ToSet(<<>>) = {} /\ IsInjective(<<>>)
  BY DEF ToSet, IsInjective

LEMMA QueueTail ==
  ASSUME NEW R, NEW q \in Seq(R), IsInjective(q), q # <<>>
  PROVE  /\ Tail(q) \in Seq(R) /\ IsInjective(Tail(q))
         /\ Head(q) \in ToSet(q)
         /\ ToSet(Tail(q)) = ToSet(q) \ {Head(q)}
<1>1. /\ Len(q) \in Nat /\ Len(q) >= 1 /\ DOMAIN q = 1 .. Len(q)
      /\ Head(q) = q[1] /\ Tail(q) \in Seq(R) /\ Len(Tail(q)) = Len(q) - 1
      /\ DOMAIN Tail(q) = 1 .. Len(q) - 1
      /\ \A i \in 1 .. Len(q) - 1 : Tail(q)[i] = q[i + 1]
  BY HeadTailProperties, EmptySeq
<1> DEFINE t == Tail(q)
<1> HIDE DEF t
<1>2. IsInjective(t)
  <2> SUFFICES ASSUME NEW i \in 1 .. Len(q) - 1, NEW j \in 1 .. Len(q) - 1, t[i] = t[j]
               PROVE  i = j
    BY <1>1 DEF t, IsInjective
  <2>1. i + 1 \in 1 .. Len(q) /\ j + 1 \in 1 .. Len(q)
    BY <1>1
  <2>2. q[i + 1] = q[j + 1]
    BY <1>1 DEF t
  <2>3. i + 1 = j + 1
    BY <1>1, <2>1, <2>2 DEF IsInjective
  <2> QED BY <2>3
<1>3. Head(q) \in ToSet(q)
  BY <1>1 DEF ToSet
<1>4. ASSUME NEW x \in ToSet(t) PROVE x \in ToSet(q) \ {Head(q)}
  <2>1. PICK i \in 1 .. Len(q) - 1 : x = q[i + 1]
    BY <1>1, <1>4 DEF t, ToSet
  <2>2. i + 1 \in 1 .. Len(q) /\ 1 \in 1 .. Len(q) /\ i + 1 # 1
    BY <1>1
  <2> QED BY <1>1, <2>1, <2>2 DEF ToSet, IsInjective
<1>5. ASSUME NEW x \in ToSet(q), x # Head(q) PROVE x \in ToSet(t)
  <2>1. PICK i \in 1 .. Len(q) : x = q[i]
    BY <1>1 DEF ToSet
  <2>2. i # 1
    BY <1>1, <1>5, <2>1
  <2>3. i - 1 \in 1 .. Len(q) - 1 /\ (i - 1) + 1 = i
    BY <1>1, <2>2
  <2>4. t[i - 1] = x
    BY <1>1, <2>1, <2>3 DEF t
  <2> QED BY <1>1, <2>3, <2>4 DEF t, ToSet
<1>6. ToSet(t) = ToSet(q) \ {Head(q)}
  BY <1>4, <1>5
<1> QED BY <1>1, <1>2, <1>3, <1>6 DEF t

\* An enumeration of a finite set has all its members.
LEMMA Enumerated ==
  ASSUME NEW S, IsFiniteSet(S), NEW f \in SetToSeqs(S)
  PROVE  f \in Seq(S) /\ IsInjective(f) /\ ToSet(f) = S
<1> DEFINE n == Cardinality(S)
<1>1. n \in Nat
  BY FS_CardinalityType
<1>2. f \in [1 .. n -> S] /\ \A i, j \in 1 .. n : i # j => f[i] # f[j]
  BY DEF SetToSeqs
<1>3. IsInjective(f)
  BY <1>2 DEF IsInjective
<1>4. f \in Injection(1 .. n, S)
  BY <1>2, <1>3 DEF Injection
<1>5. Cardinality(1 .. n) = n
  BY <1>1, FS_Interval
<1>6. f \in Surjection(1 .. n, S)
  BY <1>4, <1>5, FS_Injection
<1>7. ToSet(f) = S
  BY <1>2, <1>6 DEF Surjection, ToSet
<1>8. f \in Seq(S)
  BY <1>1, <1>2, SeqDef
<1> QED BY <1>3, <1>7, <1>8

LEMMA QueueAppend ==
  ASSUME NEW R, NEW q \in Seq(R), NEW f \in Seq(R),
         IsInjective(q), IsInjective(f), ToSet(q) \cap ToSet(f) = {}
  PROVE  /\ q \o f \in Seq(R) /\ IsInjective(q \o f)
         /\ ToSet(q \o f) = ToSet(q) \cup ToSet(f)
<1> DEFINE m == Len(q)
           n == Len(f)
           c == q \o f
<1>1. /\ m \in Nat /\ n \in Nat /\ DOMAIN q = 1 .. m /\ DOMAIN f = 1 .. n
      /\ c \in Seq(R) /\ DOMAIN c = 1 .. m + n
      /\ \A i \in 1 .. m + n : c[i] = IF i <= m THEN q[i] ELSE f[i - m]
  BY ConcatProperties, LenProperties
<1> HIDE DEF m, n, c
<1>2. \A i \in 1 .. m + n : \/ i \in 1 .. m /\ c[i] = q[i]
                            \/ i - m \in 1 .. n /\ ~ (i <= m) /\ c[i] = f[i - m]
  BY <1>1
<1>3. /\ \A i \in 1 .. m : i \in 1 .. m + n /\ c[i] = q[i]
      /\ \A i \in 1 .. n : i + m \in 1 .. m + n /\ c[i + m] = f[i]
  <2>1. ASSUME NEW i \in 1 .. m PROVE i \in 1 .. m + n /\ i <= m
    BY <1>1
  <2>2. ASSUME NEW i \in 1 .. n
        PROVE  i + m \in 1 .. m + n /\ ~ (i + m <= m) /\ (i + m) - m = i
    BY <1>1
  <2> QED BY <1>1, <2>1, <2>2
<1>4. IsInjective(c)
  <2> SUFFICES ASSUME NEW i \in 1 .. m + n, NEW j \in 1 .. m + n, c[i] = c[j]
               PROVE  i = j
    BY <1>1 DEF IsInjective
  <2>1. CASE i \in 1 .. m /\ j \in 1 .. m
    BY <1>1, <1>3, <2>1 DEF IsInjective
  <2>2. CASE i - m \in 1 .. n /\ ~ (i <= m) /\ j - m \in 1 .. n /\ ~ (j <= m)
    <3>1. i - m = j - m
      BY <1>1, <2>2 DEF IsInjective
    <3> QED BY <1>1, <3>1
  <2>3. \A k \in 1 .. m, l \in 1 .. n : q[k] # f[l]
    BY <1>1 DEF ToSet
  <2>4. \/ i \in 1 .. m /\ c[i] = q[i]
        \/ i - m \in 1 .. n /\ ~ (i <= m) /\ c[i] = f[i - m]
    BY <1>2
  <2>5. \/ j \in 1 .. m /\ c[j] = q[j]
        \/ j - m \in 1 .. n /\ ~ (j <= m) /\ c[j] = f[j - m]
    BY <1>2
  <2> QED BY <2>1, <2>2, <2>3, <2>4, <2>5
<1>5. ToSet(c) = ToSet(q) \cup ToSet(f)
  <2>1. ASSUME NEW x \in ToSet(c) PROVE x \in ToSet(q) \cup ToSet(f)
    BY <1>1, <1>2, <2>1 DEF ToSet
  <2>2. ASSUME NEW x \in ToSet(q) PROVE x \in ToSet(c)
    <3>1. PICK i \in 1 .. m : x = q[i]
      BY <1>1 DEF ToSet
    <3> QED BY <1>1, <1>3, <3>1 DEF ToSet
  <2>3. ASSUME NEW x \in ToSet(f) PROVE x \in ToSet(c)
    <3>1. PICK i \in 1 .. n : x = f[i]
      BY <1>1 DEF ToSet
    <3> QED BY <1>1, <1>3, <3>1 DEF ToSet
  <2> QED BY <2>1, <2>2, <2>3
<1> QED BY <1>1, <1>4, <1>5 DEF c

-----------------------------------------------------------------------------
(* What leads to what.                                                     *)

LEMMA RefsAreNodes == GuardianTypes => \A n \in Node : Refs(n) \subseteq Node
<1> SUFFICES ASSUME GuardianTypes, NEW n \in Node PROVE Refs(n) \subseteq Node
  OBVIOUS
<1>1. CASE n \in Guardian
  <2>1. \A r \in ToSet(queue[n]) : r \in Reg
    BY <1>1, LenProperties DEF GuardianTypes, ToSet
  <2> QED BY <1>1, <2>1 DEF GuardianTypes, Refs
<1>2. CASE n \notin Guardian
  BY <1>2 DEF GuardianTypes, Refs, Node
<1> QED BY <1>1, <1>2

LEMMA ClosureHas == \A S \in SUBSET Node : S \subseteq Closure(S)
  BY DEF Closure

LEMMA ClosureIsLeast ==
  \A S, T \in SUBSET Node : S \subseteq T /\ IsClosed(T) => Closure(S) \subseteq T
  BY DEF Closure

LEMMA ClosureIsClosed ==
  GuardianTypes =>
    \A S \in SUBSET Node : Closure(S) \subseteq Node /\ IsClosed(Closure(S))
<1> SUFFICES ASSUME GuardianTypes, NEW S \in SUBSET Node
             PROVE  Closure(S) \subseteq Node /\ IsClosed(Closure(S))
  OBVIOUS
<1>1. Closure(S) \subseteq Node
  BY DEF Closure
<1>2. ASSUME NEW n \in Closure(S), NEW x \in Refs(n) PROVE x \in Closure(S)
  <2>1. x \in Node
    BY <1>1, RefsAreNodes
  <2>2. ASSUME NEW T \in SUBSET Node, S \subseteq T, IsClosed(T) PROVE x \in T
    <3>1. n \in T
      BY <2>2 DEF Closure
    <3> QED BY <2>2, <3>1 DEF IsClosed
  <2> QED BY <2>1, <2>2 DEF Closure
<1> QED BY <1>1, <1>2 DEF IsClosed

\* What is closed already is its closure.
LEMMA ClosureOfClosed ==
  ASSUME GuardianTypes, NEW S \in SUBSET Node, IsClosed(S)
  PROVE  Closure(S) = S
  BY ClosureHas, ClosureIsLeast

\* The inductive part of the invariant: the rest follows from it.
Core == /\ GuardianTypes /\ HeapInv /\ PlacesInv /\ NoneLost
        /\ KeptInv /\ PendingInv /\ ListsInv

LEMMA CoreSuffices == GuardianAssumptions /\ Core => GuardianInvariant
<1> SUFFICES ASSUME GuardianAssumptions, Core PROVE GuardianInvariant
  OBVIOUS
<1>1. exists \in SUBSET Node /\ roots \in SUBSET Node /\ roots \subseteq exists
  BY DEF Core, GuardianTypes
<1>2. GuardedNotFreed
  <2>1. Closure(roots) \subseteq exists
    BY <1>1, ClosureIsLeast DEF Core, HeapInv
  <2> QED BY <2>1 DEF Core, HeapInv, GuardedNotFreed
<1>3. ProtectedAreOld
  BY DEF Core, ListsInv, ProtectedAreOld
<1> QED BY <1>2, <1>3 DEF Core, GuardianInvariant

\* The objects and guardians of registrations in any list, and the lists.
LEMMA RegistrationsAre ==
  ASSUME GuardianAssumptions, Core
  PROVE  /\ \A g \in Guardian : ToSet(queue[g]) \subseteq Reg
         /\ \A g \in Gen : protected[g] \subseteq Reg
         /\ Listed \subseteq Reg /\ Queued \subseteq Reg
         /\ \A r \in Reg : reg[r] # NoReg =>
              reg[r].tc \in Guardian /\ reg[r].tc \in exists /\ reg[r].obj \in exists
<1>1. \A g \in Guardian : ToSet(queue[g]) \subseteq Reg
  BY LenProperties DEF Core, GuardianTypes, ToSet
<1>2. \A g \in Gen : protected[g] \subseteq Reg
  BY DEF Core, GuardianTypes
<1>3. ASSUME NEW r \in Reg, reg[r] # NoReg
      PROVE  reg[r].tc \in Guardian /\ reg[r].tc \in exists /\ reg[r].obj \in exists
  <2>1. reg[r].tc \in exists /\ reg[r].obj \in exists
    BY <1>3 DEF Core, HeapInv
  <2> QED BY <2>1 DEF Core, GuardianTypes, GuardianAssumptions, Node
<1> QED BY <1>1, <1>2, <1>3 DEF Listed, Queued

LEMMA CoreInit == GuardianAssumptions /\ GuardianInit => Core
<1> SUFFICES ASSUME GuardianAssumptions, GuardianInit PROVE Core
  OBVIOUS
<1> USE DEF GuardianInit
<1>1. GuardianTypes
  <2>1. \A g \in Guardian : queue[g] = <<>> /\ queue[g] \in Seq(Reg) /\ IsInjective(queue[g])
    BY EmptyQueue
  <2>2. 0 \in Gen
    BY DEF Gen, GuardianAssumptions
  <2> QED BY <2>1, <2>2 DEF GuardianTypes, Node, NoReg
<1>2. \A g \in Guardian : ToSet(queue[g]) = {}
  BY EmptyQueue
<1>3. HeapInv
  BY DEF HeapInv, IsClosed
<1>4. Listed = {} /\ Queued = {}
  BY <1>2 DEF Listed, Queued
<1>5. PlacesInv
  BY <1>2, <1>4 DEF PlacesInv
<1>6. NoneLost
  BY DEF NoneLost
<1>7. KeptInv /\ PendingInv /\ ListsInv
  BY DEF KeptInv, PendingInv, ListsInv
<1> QED BY <1>1, <1>3, <1>5, <1>6, <1>7 DEF Core

-----------------------------------------------------------------------------
(* The running program.                                                    *)

\* What is left of Core for a step of the program.
LEMMA ProgramStep ==
  ASSUME Core, phase = "mutator", phase' = "mutator",
         UNCHANGED <<pend_hold, pend_final, forward_list>>,
         GuardianTypes', HeapInv', PlacesInv',
         \A r \in Reg : reg'[r] # NoReg => r \in Listed' \cup Queued',
         \A g \in Gen : \A r \in protected'[g] :
           gen'[reg'[r].tc] >= g /\ gen'[reg'[r].obj] >= g
  PROVE  Core'
<1>1. NoneLost'
  BY DEF Core, NoneLost
<1>2. KeptInv' /\ ListsInv'
  BY DEF KeptInv, ListsInv
<1>3. PendingInv'
  BY DEF Core, NoneLost, PendingInv
<1> QED BY <1>1, <1>2, <1>3 DEF Core

LEMMA AllocateCore ==
  ASSUME GuardianAssumptions, Core, NEW n \in Node, NEW v \in roots \cup {Nobody},
         Allocate(n, v)
  PROVE  Core'
<1> USE DEF Allocate, guardedVars, gcVars
<1>1. /\ n \notin exists /\ exists' = exists \cup {n} /\ roots' = roots \cup {n}
      /\ gen' = [gen EXCEPT ![n] = 0] /\ phase = "mutator" /\ phase' = "mutator"
      /\ UNCHANGED <<reg, protected, weak, gcVars>>
  OBVIOUS
<1>2. exists \subseteq Node /\ roots \subseteq exists /\ 0 \in Gen
  BY DEF Core, GuardianTypes, Gen, GuardianAssumptions
<1>3. ASSUME NEW r \in Reg, reg[r] # NoReg
      PROVE  reg[r].tc # n /\ reg[r].obj # n /\ reg[r].tc \in exists /\ reg[r].obj \in exists
  BY <1>1, <1>3, RegistrationsAre
\* The tconc of a guardian that does not exist is empty.
<1>4. n \in Guardian => ToSet(queue[n]) = {}
  <2> SUFFICES ASSUME n \in Guardian, NEW r \in ToSet(queue[n]) PROVE FALSE
    OBVIOUS
  <2>1. r \in Reg /\ reg[r].tc = n /\ reg[r] # NoReg
    BY RegistrationsAre DEF Core, PlacesInv, Queued
  <2> QED BY <1>3, <2>1
<1>5. \A g \in Guardian : ToSet(queue'[g]) = ToSet(queue[g])
  <2>1. CASE n \in Object
    BY <2>1
  <2>2. CASE n \notin Object
    BY <1>4, <2>2, EmptyQueue DEF Core, GuardianTypes, Node
  <2> QED BY <2>1, <2>2
<1>6. Listed' = Listed /\ Queued' = Queued
  BY <1>1, <1>5 DEF Listed, Queued
<1>7. GuardianTypes'
  <2>1. gen' \in [Node -> Gen]
    BY <1>1, <1>2 DEF Core, GuardianTypes
  <2>2. /\ ref' \in [Object -> Node \cup {Nobody}]
        /\ queue' \in [Guardian -> Seq(Reg)]
        /\ \A g \in Guardian : IsInjective(queue'[g])
    <3>1. CASE n \in Object
      BY <1>2, <3>1 DEF Core, GuardianTypes
    <3>2. CASE n \notin Object
      <4>1. queue' = [queue EXCEPT ![n] = <<>>] /\ ref' = ref
        BY <3>2
      <4>2. <<>> \in Seq(Reg)
        OBVIOUS
      <4> QED BY <4>1, <4>2, EmptyQueue DEF Core, GuardianTypes
    <3> QED BY <3>1, <3>2
  <2>3. exists' \subseteq Node /\ roots' \subseteq exists'
    BY <1>1, <1>2
  <2>4. kept' \subseteq exists' /\ traced' \subseteq kept'
    BY <1>1 DEF Core, GuardianTypes
  <2> QED BY <1>1, <2>1, <2>2, <2>3, <2>4 DEF Core, GuardianTypes
<1>8. HeapInv'
  <2>1. ASSUME NEW m \in exists PROVE Refs(m)' \subseteq exists'
    <3>1. Refs(m) \subseteq exists
      BY DEF Core, HeapInv, IsClosed
    <3>2. Refs(m)' = Refs(m)
      <4>1. m # n /\ m \in Node
        BY <1>1, <1>2
      <4>2. CASE m \in Guardian
        BY <1>1, <1>5, <4>2 DEF Refs
      <4>3. CASE m \in Object /\ m \notin Guardian
        <5>1. ref'[m] = ref[m]
          BY <4>1, <4>3 DEF Core, GuardianTypes
        <5> QED BY <4>3, <5>1 DEF Refs
      <4> QED BY <4>1, <4>2, <4>3 DEF Node
    <3> QED BY <1>1, <3>1, <3>2
  <2>2. Refs(n)' \subseteq exists'
    <3>1. CASE n \in Guardian
      BY <1>4, <1>5, <3>1 DEF Refs
    <3>2. CASE n \notin Guardian
      <4>1. ref'[n] = v
        BY <3>2 DEF Core, GuardianTypes, Node
      <4> QED BY <1>1, <1>2, <3>2, <4>1 DEF Refs
    <3> QED BY <3>1, <3>2
  <2>3. IsClosed(exists)'
    BY <1>1, <2>1, <2>2 DEF IsClosed
  <2> QED BY <1>1, <1>3, <2>3 DEF HeapInv
<1>9. PlacesInv'
  BY <1>1, <1>5, <1>6 DEF Core, PlacesInv
<1>10. \A r \in Reg : reg'[r] # NoReg => r \in Listed' \cup Queued'
  BY <1>1, <1>6 DEF Core, NoneLost
<1>11. \A g \in Gen : \A r \in protected'[g] :
         gen'[reg'[r].tc] >= g /\ gen'[reg'[r].obj] >= g
  <2> SUFFICES ASSUME NEW g \in Gen, NEW r \in protected[g]
               PROVE  gen'[reg[r].tc] >= g /\ gen'[reg[r].obj] >= g
    BY <1>1
  <2>1. r \in Reg /\ reg[r] # NoReg
    BY RegistrationsAre DEF Core, PlacesInv, Listed
  <2>2. gen[reg[r].tc] >= g /\ gen[reg[r].obj] >= g
    BY <1>1 DEF Core, ListsInv
  <2>3. gen'[reg[r].tc] = gen[reg[r].tc] /\ gen'[reg[r].obj] = gen[reg[r].obj]
    BY <1>1, <1>2, <1>3, <2>1 DEF Core, GuardianTypes
  <2> QED BY <2>2, <2>3
<1> QED BY <1>1, <1>7, <1>8, <1>9, <1>10, <1>11, ProgramStep

LEMMA MutateCore ==
  ASSUME GuardianAssumptions, Core, NEW o \in Object, NEW v \in roots \cup {Nobody},
         Mutate(o, v)
  PROVE  Core'
<1>1. /\ o \in roots /\ ref' = [ref EXCEPT ![o] = v]
      /\ phase = "mutator" /\ phase' = "mutator"
      /\ UNCHANGED <<exists, gen, queue, reg, protected, roots, weak, gcVars>>
  BY DEF Mutate, gcVars
<1>2. exists \subseteq Node /\ roots \subseteq exists
  BY DEF Core, GuardianTypes
<1>3. Listed' = Listed /\ Queued' = Queued
  BY <1>1 DEF Listed, Queued
<1>4. GuardianTypes'
  <2>1. ref' \in [Object -> Node \cup {Nobody}]
    BY <1>1, <1>2 DEF Core, GuardianTypes
  <2> QED BY <1>1, <2>1 DEF Core, GuardianTypes, gcVars
<1>5. HeapInv'
  <2>1. ASSUME NEW m \in exists PROVE Refs(m)' \subseteq exists
    <3>1. Refs(m) \subseteq exists
      BY DEF Core, HeapInv, IsClosed
    <3>2. CASE m \in Guardian \/ m # o
      <4>1. Refs(m)' = Refs(m)
        BY <1>1, <1>2, <3>2 DEF Refs, Core, GuardianTypes, Node
      <4> QED BY <3>1, <4>1
    <3>3. CASE m \notin Guardian /\ m = o
      BY <1>1, <1>2, <3>3 DEF Refs, Core, GuardianTypes
    <3> QED BY <3>2, <3>3
  <2> QED BY <1>1, <2>1 DEF Core, HeapInv, IsClosed
<1>6. PlacesInv'
  BY <1>1, <1>3 DEF Core, PlacesInv, gcVars
<1>7. \A r \in Reg : reg'[r] # NoReg => r \in Listed' \cup Queued'
  BY <1>1, <1>3 DEF Core, NoneLost
<1>8. \A g \in Gen : \A r \in protected'[g] :
         gen'[reg'[r].tc] >= g /\ gen'[reg'[r].obj] >= g
  BY <1>1 DEF Core, ListsInv
<1> QED BY <1>1, <1>4, <1>5, <1>6, <1>7, <1>8, ProgramStep DEF gcVars

\* Dropping a root and making a weak pair.
LEMMA RootsCore ==
  ASSUME GuardianAssumptions, Core, phase = "mutator",
         roots' \subseteq roots, weak' \in Node \cup {Nobody},
         UNCHANGED <<exists, gen, ref, queue, reg, protected, gcVars>>
  PROVE  Core'
<1>1. Listed' = Listed /\ Queued' = Queued
  BY DEF Listed, Queued
<1>2. GuardianTypes'
  BY DEF Core, GuardianTypes, gcVars
<1>3. HeapInv'
  <2>1. \A m \in exists : Refs(m)' = Refs(m)
    BY DEF Refs
  <2> QED BY <2>1 DEF Core, HeapInv, IsClosed
<1>4. PlacesInv'
  BY <1>1 DEF Core, PlacesInv, gcVars
<1>5. \A r \in Reg : reg'[r] # NoReg => r \in Listed' \cup Queued'
  BY <1>1 DEF Core, NoneLost
<1>6. \A g \in Gen : \A r \in protected'[g] :
         gen'[reg'[r].tc] >= g /\ gen'[reg'[r].obj] >= g
  BY DEF Core, ListsInv
<1> QED BY <1>2, <1>3, <1>4, <1>5, <1>6, ProgramStep DEF gcVars

LEMMA RegisterCore ==
  ASSUME GuardianAssumptions, Core, NEW r \in Reg, NEW g \in Guardian, NEW n \in Node,
         ikrt_register_guardian_pair(r, g, n)
  PROVE  Core'
<1>1. /\ reg[r] = NoReg /\ g \in roots /\ n \in roots
      /\ reg' = [reg EXCEPT ![r] = [tc |-> g, obj |-> n]]
      /\ protected' = [protected EXCEPT ![0] = @ \cup {r}]
      /\ phase = "mutator" /\ phase' = "mutator"
      /\ UNCHANGED <<exists, gen, ref, queue, roots, weak, gcVars>>
  BY DEF ikrt_register_guardian_pair, gcVars
<1>2. exists \subseteq Node /\ roots \subseteq exists /\ 0 \in Gen
  BY DEF Core, GuardianTypes, Gen, GuardianAssumptions
<1>3. r \notin Listed /\ r \notin Queued
  BY <1>1 DEF Core, PlacesInv
<1>4. /\ \A s \in Reg : s # r => reg'[s] = reg[s]
      /\ reg'[r] = [tc |-> g, obj |-> n] /\ reg'[r] # NoReg
  <2>1. reg'[r] = [tc |-> g, obj |-> n] /\ \A s \in Reg : s # r => reg'[s] = reg[s]
    BY <1>1 DEF Core, GuardianTypes
  <2>2. g # Nobody
    BY DEF GuardianAssumptions
  <2> QED BY <2>1, <2>2 DEF NoReg
<1>5. /\ \A h \in Gen : h # 0 => protected'[h] = protected[h]
      /\ protected'[0] = protected[0] \cup {r}
  BY <1>1, <1>2 DEF Core, GuardianTypes
<1>6. Listed' = Listed \cup {r} /\ Queued' = Queued
  <2>1. Listed' = Listed \cup {r}
    BY <1>2, <1>5 DEF Listed
  <2> QED BY <1>1, <2>1 DEF Queued
<1>7. \A h \in Guardian : \A s \in ToSet(queue[h]) : reg'[s] = reg[s]
  BY <1>3, <1>4, RegistrationsAre DEF Queued
<1>8. GuardianTypes'
  <2>1. reg' \in [Reg -> [tc : Guardian \cup {Nobody}, obj : Node \cup {Nobody}]]
    BY <1>1, <1>2 DEF Core, GuardianTypes
  <2>2. protected' \in [Gen -> SUBSET Reg]
    BY <1>1, <1>2 DEF Core, GuardianTypes
  <2> QED BY <1>1, <2>1, <2>2 DEF Core, GuardianTypes, gcVars
<1>9. HeapInv'
  <2>1. \A m \in exists : Refs(m)' = Refs(m)
    BY <1>1, <1>7 DEF Refs
  <2>2. \A s \in Reg : reg'[s] # NoReg => {reg'[s].tc, reg'[s].obj} \subseteq exists
    BY <1>1, <1>2, <1>4 DEF Core, HeapInv
  <2> QED BY <1>1, <2>1, <2>2 DEF Core, HeapInv, IsClosed
<1>10. PlacesInv'
  <2>1. \A h \in Guardian : \A s \in ToSet(queue'[h]) : reg'[s].tc = h
    BY <1>1, <1>7 DEF Core, PlacesInv
  <2>2. \A h, k \in Gen : h # k => protected'[h] \cap protected'[k] = {}
    <3>1. \A h \in Gen : r \notin protected[h]
      BY <1>3 DEF Listed
    <3> QED BY <1>2, <1>5, <3>1 DEF Core, PlacesInv
  <2>3. pend_hold = {} /\ pend_final = {} /\ forward_list = {}
    BY <1>1 DEF Core, NoneLost
  <2>4. \A s \in Listed' \cup Queued' : reg'[s] # NoReg
    BY <1>3, <1>4, <1>6, RegistrationsAre DEF Core, PlacesInv
  <2>5. Listed' \cap Queued' = {}
    BY <1>3, <1>6 DEF Core, PlacesInv
  <2> QED BY <1>1, <2>1, <2>2, <2>3, <2>4, <2>5 DEF PlacesInv, gcVars
<1>11. \A s \in Reg : reg'[s] # NoReg => s \in Listed' \cup Queued'
  BY <1>1, <1>4, <1>6 DEF Core, NoneLost
<1>12. \A h \in Gen : \A s \in protected'[h] :
         gen'[reg'[s].tc] >= h /\ gen'[reg'[s].obj] >= h
  <2>1. ASSUME NEW h \in Gen, NEW s \in protected[h]
        PROVE  gen'[reg'[s].tc] >= h /\ gen'[reg'[s].obj] >= h
    <3>1. s \in Reg /\ s # r
      BY <1>3, RegistrationsAre DEF Listed
    <3> QED BY <1>1, <1>4, <3>1 DEF Core, ListsInv
  <2>2. gen'[reg'[r].tc] >= 0 /\ gen'[reg'[r].obj] >= 0
    <3>1. gen[g] \in Nat /\ gen[n] \in Nat
      BY DEF Core, GuardianTypes, Gen, Node, GuardianAssumptions
    <3>2. gen[g] >= 0 /\ gen[n] >= 0
      BY <3>1
    <3> QED BY <1>1, <1>4, <3>2
  <2> QED BY <1>2, <1>5, <2>1, <2>2
<1> QED BY <1>1, <1>8, <1>9, <1>10, <1>11, <1>12, ProgramStep DEF gcVars

LEMMA RetrieveCore ==
  ASSUME GuardianAssumptions, Core, NEW g \in Guardian, Retrieve(g)
  PROVE  Core'
<1> DEFINE r == Head(queue[g])
<1>1. /\ queue[g] # <<>>
      /\ queue' = [queue EXCEPT ![g] = Tail(queue[g])]
      /\ roots' = roots \cup {reg[r].obj}
      /\ reg' = [reg EXCEPT ![r] = NoReg]
      /\ phase = "mutator" /\ phase' = "mutator"
      /\ UNCHANGED <<exists, gen, ref, protected, weak, gcVars>>
  BY DEF Retrieve, gcVars
<1>2. /\ Tail(queue[g]) \in Seq(Reg) /\ IsInjective(Tail(queue[g]))
      /\ r \in ToSet(queue[g]) /\ ToSet(Tail(queue[g])) = ToSet(queue[g]) \ {r}
  BY <1>1, QueueTail DEF Core, GuardianTypes
<1> HIDE DEF r
<1>3. /\ r \in Reg /\ r \in Queued /\ reg[r] # NoReg /\ reg[r].tc = g
      /\ reg[r].obj \in exists
  <2>1. r \in Reg /\ r \in Queued
    BY <1>2, RegistrationsAre DEF Queued
  <2>2. reg[r] # NoReg /\ reg[r].tc = g
    BY <1>2, <2>1 DEF Core, PlacesInv
  <2> QED BY <2>1, <2>2, RegistrationsAre
<1>4. \A h \in Guardian : ToSet(queue'[h]) = ToSet(queue[h]) \ {r}
  <2>1. ASSUME NEW h \in Guardian, h # g PROVE ToSet(queue'[h]) = ToSet(queue[h]) \ {r}
    <3>1. queue'[h] = queue[h]
      BY <1>1, <2>1 DEF Core, GuardianTypes
    <3>2. r \notin ToSet(queue[h])
      BY <1>3, <2>1 DEF Core, PlacesInv
    <3> QED BY <3>1, <3>2
  <2>2. queue'[g] = Tail(queue[g])
    BY <1>1 DEF Core, GuardianTypes
  <2> QED BY <1>2, <2>1, <2>2
<1>5. Listed' = Listed /\ Queued' = Queued \ {r} /\ r \notin Listed
  <2>1. Listed' = Listed
    BY <1>1 DEF Listed
  <2>2. Queued' = Queued \ {r}
    BY <1>4 DEF Queued
  <2> QED BY <1>3, <2>1, <2>2 DEF Core, PlacesInv
<1>6. /\ reg'[r] = NoReg
      /\ \A s \in Reg : s # r => reg'[s] = reg[s]
  BY <1>1, <1>3 DEF Core, GuardianTypes
<1>7. GuardianTypes'
  <2>1. queue' \in [Guardian -> Seq(Reg)] /\ \A h \in Guardian : IsInjective(queue'[h])
    BY <1>1, <1>2 DEF Core, GuardianTypes
  <2>2. reg' \in [Reg -> [tc : Guardian \cup {Nobody}, obj : Node \cup {Nobody}]]
    BY <1>1 DEF Core, GuardianTypes, NoReg
  <2>3. roots' \subseteq exists'
    BY <1>1, <1>3 DEF Core, GuardianTypes
  <2> QED BY <1>1, <2>1, <2>2, <2>3 DEF Core, GuardianTypes, gcVars
<1>8. HeapInv'
  <2>1. ASSUME NEW m \in exists PROVE Refs(m)' \subseteq Refs(m)
    <3>1. CASE m \in Guardian
      <4>1. \A s \in ToSet(queue'[m]) : s \in ToSet(queue[m]) /\ reg'[s] = reg[s]
        BY <1>4, <1>6, <3>1, RegistrationsAre
      <4> QED BY <3>1, <4>1 DEF Refs
    <3>2. CASE m \notin Guardian
      BY <1>1, <3>2 DEF Refs
    <3> QED BY <3>1, <3>2
  <2>2. IsClosed(exists)'
    BY <1>1, <2>1 DEF Core, HeapInv, IsClosed
  <2>3. \A s \in Reg : reg'[s] # NoReg => {reg'[s].tc, reg'[s].obj} \subseteq exists
    BY <1>6 DEF Core, HeapInv
  <2> QED BY <1>1, <2>2, <2>3 DEF HeapInv
<1>9. PlacesInv'
  <2>1. \A h \in Guardian : \A s \in ToSet(queue'[h]) : reg'[s].tc = h
    BY <1>4, <1>6, RegistrationsAre DEF Core, PlacesInv
  <2>2. \A s \in Listed' \cup Queued' : reg'[s] # NoReg
    BY <1>5, <1>6, RegistrationsAre DEF Core, PlacesInv
  <2>3. pend_hold = {} /\ pend_final = {} /\ forward_list = {}
    BY <1>1 DEF Core, NoneLost
  <2> QED BY <1>1, <1>5, <2>1, <2>2, <2>3 DEF Core, PlacesInv, gcVars
<1>10. \A s \in Reg : reg'[s] # NoReg => s \in Listed' \cup Queued'
  BY <1>1, <1>5, <1>6 DEF Core, NoneLost
<1>11. \A h \in Gen : \A s \in protected'[h] :
         gen'[reg'[s].tc] >= h /\ gen'[reg'[s].obj] >= h
  <2> SUFFICES ASSUME NEW h \in Gen, NEW s \in protected[h]
               PROVE  gen'[reg'[s].tc] >= h /\ gen'[reg'[s].obj] >= h
    BY <1>1
  <2>1. s \in Reg /\ s # r
    BY <1>5, RegistrationsAre DEF Listed
  <2> QED BY <1>1, <1>6, <2>1 DEF Core, ListsInv
<1> QED BY <1>1, <1>7, <1>8, <1>9, <1>10, <1>11, ProgramStep DEF gcVars

-----------------------------------------------------------------------------
(* A collection.                                                           *)

\* While a collection runs, what leads to what does not change.
LEMMA SameHeap ==
  ASSUME Core, UNCHANGED <<exists, ref, queue, reg, roots>>
  PROVE  /\ \A n \in Node : Refs(n)' = Refs(n)
         /\ Closure(roots)' = Closure(roots)
         /\ HeapInv' /\ Queued' = Queued
<1>1. \A n \in Node : Refs(n)' = Refs(n)
  BY DEF Refs
<1>2. \A T \in SUBSET Node : IsClosed(T)' <=> IsClosed(T)
  <2> SUFFICES ASSUME NEW T \in SUBSET Node
               PROVE  (\A n \in T : Refs(n)' \subseteq T) <=> (\A n \in T : Refs(n) \subseteq T)
    BY DEF IsClosed
  <2> QED BY <1>1
<1>3. Closure(roots)' = Closure(roots)
  <2>1. Closure(roots)' =
          {n \in Node : \A T \in SUBSET Node : roots' \subseteq T /\ IsClosed(T)' => n \in T}
    BY DEF Closure
  <2> QED BY <1>2, <2>1 DEF Closure
<1>4. HeapInv'
  <2>1. IsClosed(exists)'
    BY <1>1 DEF Core, GuardianTypes, HeapInv, IsClosed
  <2> QED BY <2>1 DEF Core, HeapInv
<1>5. Queued' = Queued
  BY DEF Queued
<1> QED BY <1>1, <1>3, <1>4, <1>5

\* What is not collected is kept, so that "live" and "kept" are the same.
LEMMA LiveIsKept ==
  ASSUME Core, phase # "mutator"
  PROVE  \A n \in exists : (is_live(n) <=> n \in kept) /\ (gen[n] > collect_gen => n \in traced)
  BY DEF Core, KeptInv, GuardianTypes, is_live

\* What a list of pairs keeps.
LEMMA GatheredIs ==
  ASSUME GuardianAssumptions, Core, phase # "mutator", NEW P \in SUBSET Reg,
         \A r \in P : reg[r] # NoReg
  PROVE  /\ kept \subseteq Gathered(P) /\ Gathered(P) \subseteq exists
         /\ IsClosed(Gathered(P))
         /\ \A r \in P : {reg[r].tc, reg[r].obj} \subseteq Gathered(P)
         /\ (\A r \in P : {reg[r].tc, reg[r].obj} \subseteq kept) => Gathered(P) = kept
<1> DEFINE S == kept \cup {reg[r].tc : r \in P} \cup {reg[r].obj : r \in P}
<1>1. S \subseteq exists /\ exists \subseteq Node /\ IsClosed(exists) /\ IsClosed(kept)
  <2>1. \A r \in P : reg[r].tc \in exists /\ reg[r].obj \in exists
    BY RegistrationsAre
  <2>2. kept \subseteq exists /\ exists \subseteq Node
    BY DEF Core, GuardianTypes
  <2>3. IsClosed(exists) /\ IsClosed(kept)
    BY DEF Core, HeapInv, KeptInv
  <2> QED BY <2>1, <2>2, <2>3
<1>2. Gathered(P) = Closure(S)
  BY DEF Gathered
<1> HIDE DEF S
<1>3. S \in SUBSET Node /\ exists \in SUBSET Node
  BY <1>1
<1>4. GuardianTypes
  BY DEF Core
<1>5. S \subseteq Closure(S) /\ Closure(S) \subseteq exists /\ IsClosed(Closure(S))
  BY <1>1, <1>3, <1>4, ClosureHas, ClosureIsLeast, ClosureIsClosed
<1>6. kept \subseteq S /\ \A r \in P : {reg[r].tc, reg[r].obj} \subseteq S
  BY DEF S
<1>7. ASSUME \A r \in P : {reg[r].tc, reg[r].obj} \subseteq kept PROVE Closure(S) = kept
  <2>1. S = kept
    BY <1>7 DEF S
  <2> QED BY <1>1, <1>3, <1>4, <2>1, ClosureOfClosed
<1> QED BY <1>2, <1>5, <1>6, <1>7

LEMMA StartCore ==
  ASSUME GuardianAssumptions, Core, NEW g \in Gen, StartCollection(g)
  PROVE  Core'
<1> DEFINE old == {n \in exists : gen[n] > g}
<1>1. /\ phase = "mutator" /\ phase' = "sort" /\ collect_gen' = g
      /\ kept' = Closure(roots \cup old) /\ traced' = kept'
      /\ UNCHANGED <<exists, gen, ref, queue, reg, protected, roots, weak>>
      /\ UNCHANGED <<pend_hold, pend_final, forward_list>>
  BY DEF StartCollection, guardedVars
<1>2. GuardianTypes /\ exists \in SUBSET Node /\ roots \cup old \subseteq exists
      /\ roots \cup old \in SUBSET Node /\ IsClosed(exists)
  BY DEF Core, GuardianTypes, HeapInv
<1>3. /\ roots \cup old \subseteq kept' /\ kept' \subseteq exists
      /\ \A n \in kept' : Refs(n) \subseteq kept'
  <2>1. /\ roots \cup old \subseteq Closure(roots \cup old)
        /\ Closure(roots \cup old) \subseteq exists /\ IsClosed(Closure(roots \cup old))
    BY <1>2, ClosureHas, ClosureIsLeast, ClosureIsClosed
  <2> QED BY <1>1, <2>1 DEF IsClosed
<1>4. /\ \A n \in Node : Refs(n)' = Refs(n)
      /\ Closure(roots)' = Closure(roots)
      /\ HeapInv' /\ Queued' = Queued
  BY <1>1, SameHeap
<1>5. Listed' = Listed
  BY <1>1 DEF Listed
<1>6. pend_hold = {} /\ pend_final = {} /\ forward_list = {}
  BY <1>1 DEF Core, NoneLost
<1>7. GuardianTypes'
  BY <1>1, <1>3 DEF Core, GuardianTypes
<1>8. PlacesInv'
  BY <1>1, <1>4, <1>5 DEF Core, PlacesInv
<1>9. NoneLost'
  BY <1>1, <1>4, <1>5, <1>6 DEF Core, NoneLost
<1>10. KeptInv'
  <2>1. IsClosed(kept)'
    BY <1>2, <1>3, <1>4 DEF IsClosed
  <2>2. IsClosed(traced)'
    BY <1>1, <1>2, <1>3, <1>4 DEF IsClosed
  <2>3. g = LastGen => old = {}
    <3>1. \A n \in Node : gen[n] \in Gen
      BY DEF Core, GuardianTypes
    <3>2. \A k \in Gen : ~ (k > LastGen)
      BY DEF Gen, GuardianAssumptions
    <3> QED BY <1>2, <3>1, <3>2
  <2>4. collect_gen' = LastGen => traced' \subseteq Closure(roots)'
    <3> SUFFICES ASSUME g = LastGen PROVE traced' \subseteq Closure(roots)
      BY <1>1, <1>4
    <3>1. roots \cup old = roots
      BY <2>3
    <3>2. traced' = Closure(roots)
      BY <1>1, <3>1
    <3> QED BY <3>2
  <2>5. roots' \cup {n \in exists' : gen'[n] > collect_gen'} \subseteq traced'
    BY <1>1, <1>3
  <2> QED BY <1>1, <2>1, <2>2, <2>4, <2>5 DEF KeptInv
<1>11. PendingInv'
  BY <1>1, <1>6 DEF PendingInv
<1>12. ListsInv'
  BY <1>1 DEF Core, ListsInv
<1> QED BY <1>4, <1>7, <1>8, <1>9, <1>10, <1>11, <1>12 DEF Core

LEMMA SortCore ==
  ASSUME GuardianAssumptions, Core, SortProtected
  PROVE  Core'
<1> DEFINE pairs == UNION {protected[g] : g \in 0 .. collect_gen}
<1>1. /\ phase = "sort" /\ phase' = "final"
      /\ pend_hold' = {r \in pairs : is_live(reg[r].obj)}
      /\ pend_final' = {r \in pairs : ~ is_live(reg[r].obj)}
      /\ protected' = [g \in Gen |-> IF g \in 0 .. collect_gen THEN {} ELSE protected[g]]
      /\ UNCHANGED <<exists, gen, ref, queue, reg, roots, weak,
                     collect_gen, kept, traced, forward_list>>
  BY DEF SortProtected, CollectedLists
<1>2. /\ pend_hold = {} /\ pend_final = {} /\ forward_list = {}
      /\ \A r \in Reg : reg[r] # NoReg => r \in Listed \cup Queued
  <2>1. pend_hold = {} /\ pend_final = {} /\ forward_list = {}
    BY <1>1 DEF Core, NoneLost
  <2> QED BY <1>1, <2>1 DEF Core, NoneLost
<1>3. 0 .. collect_gen \subseteq Gen
  BY DEF Core, GuardianTypes, Gen, GuardianAssumptions
<1>4. pairs \subseteq Listed /\ pairs \subseteq Reg /\ pend_hold' \cup pend_final' = pairs
  <2>1. pairs \subseteq Listed
    BY <1>3 DEF Listed
  <2> QED BY <1>1, <2>1, RegistrationsAre
<1>5. Listed' \subseteq Listed /\ Listed' \cap pairs = {} /\ Listed \subseteq Listed' \cup pairs
  <2>1. \A g \in Gen : protected'[g] = IF g \in 0 .. collect_gen THEN {} ELSE protected[g]
    BY <1>1
  <2>2. Listed' \subseteq Listed
    BY <2>1 DEF Listed
  <2>3. ASSUME NEW r \in Listed', r \in pairs PROVE FALSE
    <3>1. PICK g \in Gen : r \in protected'[g]
      BY DEF Listed
    <3>2. r \in protected[g] /\ g \notin 0 .. collect_gen
      BY <2>1, <3>1
    <3>3. PICK h \in 0 .. collect_gen : r \in protected[h]
      BY <2>3
    <3> QED BY <1>3, <3>2, <3>3 DEF Core, PlacesInv
  <2>4. ASSUME NEW r \in Listed PROVE r \in Listed' \cup pairs
    <3>1. PICK g \in Gen : r \in protected[g]
      BY DEF Listed
    <3>2. CASE g \in 0 .. collect_gen
      BY <3>1, <3>2
    <3>3. CASE g \notin 0 .. collect_gen
      BY <2>1, <3>1, <3>3 DEF Listed
    <3> QED BY <3>2, <3>3
  <2> QED BY <2>2, <2>3, <2>4
<1>6. \A r \in pairs : reg[r] # NoReg /\ reg[r].obj \in exists
  BY <1>4, RegistrationsAre DEF Core, PlacesInv
<1>7. /\ \A r \in pend_hold' : reg[r].obj \in traced
      /\ \A r \in pend_final' : reg[r].obj \notin traced
  <2>1. kept = traced
    BY <1>1 DEF Core, KeptInv
  <2>2. \A r \in pairs : is_live(reg[r].obj) <=> reg[r].obj \in traced
    BY <1>1, <1>6, <2>1, LiveIsKept
  <2> QED BY <1>1, <2>2
<1> HIDE DEF pairs
<1>8. /\ \A n \in Node : Refs(n)' = Refs(n)
      /\ Closure(roots)' = Closure(roots)
      /\ HeapInv' /\ Queued' = Queued
  BY <1>1, SameHeap
<1>9. GuardianTypes'
  <2>1. protected' \in [Gen -> SUBSET Reg]
    BY <1>1, RegistrationsAre
  <2>2. (pend_hold \cup pend_final \cup forward_list)' \subseteq Reg
    BY <1>1, <1>2, <1>4
  <2> QED BY <1>1, <2>1, <2>2 DEF Core, GuardianTypes
<1>10. PlacesInv'
  <2>1. \A g, h \in Gen : g # h => protected'[g] \cap protected'[h] = {}
    BY <1>1 DEF Core, PlacesInv
  <2>2. Listed' \cap Queued' = {} /\ pend_hold' \cap pend_final' = {}
    BY <1>1, <1>5, <1>8 DEF Core, PlacesInv
  <2>3. (Listed' \cup Queued') \cap (pend_hold' \cup pend_final' \cup forward_list') = {}
    BY <1>1, <1>2, <1>4, <1>5, <1>8 DEF Core, PlacesInv
  <2>4. \A r \in Listed' \cup Queued' \cup pend_hold' \cup pend_final' \cup forward_list' :
          reg'[r] # NoReg
    BY <1>1, <1>2, <1>4, <1>5, <1>6, <1>8 DEF Core, PlacesInv
  <2>5. \A g \in Guardian : \A r \in ToSet(queue'[g]) : reg'[r].tc = g
    BY <1>1 DEF Core, PlacesInv
  <2> QED BY <1>1, <1>2, <2>1, <2>2, <2>3, <2>4, <2>5 DEF PlacesInv
<1>11. NoneLost'
  BY <1>1, <1>2, <1>4, <1>5, <1>8 DEF NoneLost
<1>12. KeptInv'
  <2>1. IsClosed(traced)' /\ IsClosed(kept)'
    BY <1>1, <1>8 DEF Core, KeptInv, IsClosed, GuardianTypes
  <2> QED BY <1>1, <1>8, <2>1 DEF Core, KeptInv
<1>13. PendingInv'
  BY <1>1, <1>2, <1>7 DEF PendingInv
<1>14. ListsInv'
  <2>1. \A g \in 0 .. collect_gen : protected'[g] = {}
    BY <1>1, <1>3
  <2>2. \A g \in Gen : \A r \in protected'[g] : r \in protected[g]
    BY <1>1
  <2> QED BY <1>1, <2>1, <2>2 DEF Core, ListsInv
<1> QED BY <1>8, <1>9, <1>10, <1>11, <1>12, <1>13, <1>14 DEF Core

LEMMA FinalCore ==
  ASSUME GuardianAssumptions, Core, FinalRound
  PROVE  Core'
<1> DEFINE final == {r \in pend_final : is_live(reg[r].tc)}
<1>1. /\ phase = "final" /\ phase' \in {"hold", "final"}
      /\ phase' = "hold" => final = {}
      /\ pend_final' = pend_final \ final
      /\ forward_list' = forward_list \cup final
      /\ kept' = Gathered(final)
      /\ UNCHANGED <<exists, gen, ref, queue, reg, protected, roots, weak>>
      /\ UNCHANGED <<collect_gen, traced, pend_hold>>
  BY DEF FinalRound, guardedVars
<1>2. final \subseteq pend_final /\ pend_final \subseteq Reg
      /\ \A r \in pend_final : reg[r] # NoReg
  BY DEF Core, GuardianTypes, PlacesInv
<1>3. \A r \in pend_final : r \in final <=> reg[r].tc \in kept
  <2>1. \A r \in pend_final : reg[r].tc \in exists
    BY <1>2, RegistrationsAre
  <2> QED BY <1>1, <2>1, LiveIsKept
<1> HIDE DEF final
<1>4. /\ kept \subseteq kept' /\ kept' \subseteq exists /\ IsClosed(kept')
      /\ \A r \in final : {reg[r].tc, reg[r].obj} \subseteq kept'
      /\ final = {} => kept' = kept
  <2>1. final \in SUBSET Reg /\ \A r \in final : reg[r] # NoReg
    BY <1>2
  <2>2. /\ kept \subseteq Gathered(final) /\ Gathered(final) \subseteq exists
        /\ IsClosed(Gathered(final))
        /\ \A r \in final : {reg[r].tc, reg[r].obj} \subseteq Gathered(final)
        /\ (\A r \in final : {reg[r].tc, reg[r].obj} \subseteq kept) => Gathered(final) = kept
    BY <1>1, <2>1, GatheredIs
  <2> QED BY <1>1, <2>2
<1>5. /\ \A n \in Node : Refs(n)' = Refs(n)
      /\ Closure(roots)' = Closure(roots)
      /\ HeapInv' /\ Queued' = Queued
  BY <1>1, SameHeap
<1>6. Listed' = Listed
  BY <1>1 DEF Listed
<1>7. GuardianTypes'
  <2>1. kept' \subseteq exists' /\ traced' \subseteq kept'
    BY <1>1, <1>4 DEF Core, GuardianTypes
  <2>2. (pend_hold \cup pend_final \cup forward_list)' \subseteq Reg
    BY <1>1, <1>2 DEF Core, GuardianTypes
  <2>3. phase' \in {"mutator", "sort", "final", "hold", "reclaim"}
    BY <1>1
  <2> QED BY <1>1, <2>1, <2>2, <2>3 DEF Core, GuardianTypes
<1>8. PlacesInv'
  <2>1. pend_hold' \cap pend_final' = {} /\ forward_list' \cap (pend_hold' \cup pend_final') = {}
    BY <1>1, <1>2 DEF Core, PlacesInv
  <2>2. pend_hold' \cup pend_final' \cup forward_list' =
          pend_hold \cup pend_final \cup forward_list
    BY <1>1, <1>2
  <2> QED BY <1>1, <1>5, <1>6, <2>1, <2>2 DEF Core, PlacesInv
<1>9. NoneLost'
  <2>1. ASSUME NEW r \in Reg, reg[r] # NoReg
        PROVE  r \in Listed \cup Queued \cup pend_hold \cup pend_final' \cup forward_list'
    <3>1. r \in Listed \cup Queued \cup pend_hold \cup pend_final \cup forward_list
      BY <1>1, <2>1 DEF Core, NoneLost
    <3> QED BY <1>1, <3>1
  <2> QED BY <1>1, <1>5, <1>6, <2>1 DEF NoneLost
<1>10. KeptInv'
  <2>1. exists \subseteq Node /\ kept' \subseteq Node /\ traced \subseteq Node
    BY <1>4 DEF Core, GuardianTypes
  <2>2. IsClosed(traced)' /\ IsClosed(kept)'
    BY <1>1, <1>4, <1>5, <2>1 DEF Core, KeptInv, IsClosed
  <2> QED BY <1>1, <1>5, <2>2 DEF Core, KeptInv
<1>11. PendingInv'
  <2>1. \A r \in pend_final' \cup forward_list' : reg'[r].obj \notin traced'
    BY <1>1, <1>2 DEF Core, PendingInv
  <2>2. \A r \in forward_list' : {reg'[r].tc, reg'[r].obj} \subseteq kept'
    BY <1>1, <1>4 DEF Core, PendingInv
  <2>3. phase' = "hold" => \A r \in pend_final' : reg'[r].tc \notin kept'
    BY <1>1, <1>3, <1>4
  <2> QED BY <1>1, <2>1, <2>2, <2>3 DEF Core, PendingInv
<1>12. ListsInv'
  BY <1>1 DEF Core, ListsInv
<1> QED BY <1>5, <1>7, <1>8, <1>9, <1>10, <1>11, <1>12 DEF Core

\* What is kept is no younger, afterwards, than the list of pairs to hold.
LEMMA AgedIs ==
  ASSUME GuardianAssumptions, Core, NEW n \in Node
  PROVE  /\ next_gen(collect_gen) \in Gen /\ Aged(n) \in Gen
         /\ Aged(n) >= next_gen(collect_gen)
         /\ gen[n] > collect_gen => Aged(n) = gen[n]
<1>1. gen[n] \in 0 .. LastGen /\ collect_gen \in 0 .. LastGen /\ LastGen \in Nat
  BY DEF Core, GuardianTypes, Gen, GuardianAssumptions
<1> QED BY <1>1 DEF Aged, next_gen, Gen

LEMMA HoldCore ==
  ASSUME GuardianAssumptions, Core, HoldRound
  PROVE  Core'
<1> DEFINE t == next_gen(collect_gen)
<1>1. /\ phase = "hold" /\ phase' = "reclaim"
      /\ protected' = [protected EXCEPT ![t] = @ \cup Protected]
      /\ kept' = Gathered(Protected)
      /\ pend_hold' = {} /\ pend_final' = {}
      /\ UNCHANGED <<exists, gen, ref, queue, reg, roots, weak,
                     collect_gen, traced, forward_list>>
  BY DEF HoldRound, TargetList
<1>2. /\ Protected \subseteq pend_hold /\ pend_hold \subseteq Reg
      /\ \A r \in pend_hold : reg[r] # NoReg /\ reg[r].obj \in traced
  BY DEF Core, GuardianTypes, PlacesInv, PendingInv, Protected
<1>3. \A r \in pend_hold : r \in Protected <=> reg[r].tc \in kept
  <2>1. \A r \in pend_hold : reg[r].tc \in exists
    BY <1>2, RegistrationsAre
  <2> QED BY <1>1, <2>1, LiveIsKept DEF Protected
<1>4. traced \subseteq kept /\ kept \subseteq exists /\ exists \subseteq Node
  BY DEF Core, GuardianTypes
\* Nothing more comes to life.
<1>5. kept' = kept
  <2>1. Protected \in SUBSET Reg /\ \A r \in Protected : reg[r] # NoReg
    BY <1>2
  <2>2. \A r \in Protected : {reg[r].tc, reg[r].obj} \subseteq kept
    BY <1>2, <1>3, <1>4
  <2> QED BY <1>1, <2>1, <2>2, GatheredIs
<1>6. /\ t \in Gen
      /\ \A g \in Gen : g # t => protected'[g] = protected[g]
      /\ protected'[t] = protected[t] \cup Protected
  <2>1. t \in Gen
    <3>1. collect_gen \in 0 .. LastGen /\ LastGen \in Nat
      BY DEF Core, GuardianTypes, Gen, GuardianAssumptions
    <3> QED BY <3>1 DEF next_gen, Gen
  <2> QED BY <1>1, <2>1 DEF Core, GuardianTypes
<1> HIDE DEF t
<1>7. Listed' = Listed \cup Protected
  BY <1>6 DEF Listed
<1>8. /\ \A n \in Node : Refs(n)' = Refs(n)
      /\ Closure(roots)' = Closure(roots)
      /\ HeapInv' /\ Queued' = Queued
  BY <1>1, SameHeap
<1>9. GuardianTypes'
  <2>1. protected' \in [Gen -> SUBSET Reg]
    BY <1>1, <1>2 DEF Core, GuardianTypes
  <2> QED BY <1>1, <1>5, <2>1 DEF Core, GuardianTypes
<1>10. PlacesInv'
  <2>1. \A g, h \in Gen : g # h => protected'[g] \cap protected'[h] = {}
    <3>1. \A g \in Gen : protected[g] \cap Protected = {}
      BY <1>2 DEF Core, PlacesInv, Listed
    <3> QED BY <1>6, <3>1 DEF Core, PlacesInv
  <2>2. /\ Listed' \cap Queued' = {}
        /\ (Listed' \cup Queued') \cap (pend_hold' \cup pend_final' \cup forward_list') = {}
    BY <1>1, <1>2, <1>7, <1>8 DEF Core, PlacesInv
  <2>3. \A r \in Listed' \cup Queued' \cup pend_hold' \cup pend_final' \cup forward_list' :
          reg'[r] # NoReg
    BY <1>1, <1>2, <1>7, <1>8 DEF Core, PlacesInv
  <2>4. \A g \in Guardian : \A r \in ToSet(queue'[g]) : reg'[r].tc = g
    BY <1>1 DEF Core, PlacesInv
  <2> QED BY <1>1, <2>1, <2>2, <2>3, <2>4 DEF PlacesInv
<1>11. NoneLost'
  <2>1. ASSUME NEW r \in Reg, reg[r] # NoReg
        PROVE  r \in Listed' \cup Queued \cup forward_list \/ reg[r].tc \notin kept
    <3>1. r \in Listed \cup Queued \cup pend_hold \cup pend_final \cup forward_list
      BY <1>1, <2>1 DEF Core, NoneLost
    <3>2. r \in pend_final => reg[r].tc \notin kept
      BY <1>1 DEF Core, PendingInv
    <3> QED BY <1>3, <1>7, <3>1, <3>2
  <2> QED BY <1>1, <1>5, <1>8, <2>1 DEF NoneLost
<1>12. KeptInv'
  <2>1. IsClosed(traced)' /\ IsClosed(kept)'
    BY <1>1, <1>4, <1>5, <1>8 DEF Core, KeptInv, IsClosed
  <2> QED BY <1>1, <1>8, <2>1 DEF Core, KeptInv
<1>13. PendingInv'
  BY <1>1, <1>5 DEF Core, PendingInv
<1>14. ListsInv'
  <2>1. ASSUME NEW g \in Gen, NEW r \in protected'[g]
        PROVE  /\ {reg[r].tc, reg[r].obj} \subseteq kept
               /\ Aged(reg[r].tc) >= g /\ Aged(reg[r].obj) >= g
               /\ collect_gen = LastGen => reg[r].obj \in Closure(roots)
    <3>1. CASE r \in Protected /\ g = t
      <4>1. reg[r].tc \in kept /\ reg[r].obj \in traced /\ reg[r].obj \in kept
        BY <1>2, <1>3, <1>4, <3>1
      <4>2. Aged(reg[r].tc) >= t /\ Aged(reg[r].obj) >= t
        BY <1>4, <4>1, AgedIs DEF t
      <4>3. collect_gen = LastGen => reg[r].obj \in Closure(roots)
        BY <1>1, <4>1 DEF Core, KeptInv
      <4> QED BY <3>1, <4>1, <4>2, <4>3
    <3>2. CASE r \in protected[g]
      <4>1. r \in Reg /\ reg[r] # NoReg
        BY <3>2, RegistrationsAre DEF Core, PlacesInv, Listed
      <4>2. reg[r].tc \in exists /\ reg[r].obj \in exists
        BY <4>1, RegistrationsAre
      <4>3. g \notin 0 .. collect_gen
        BY <1>1, <3>2 DEF Core, ListsInv
      <4>4. g > collect_gen /\ collect_gen # LastGen
        BY <4>3 DEF Core, GuardianTypes, Gen, GuardianAssumptions
      <4>5. gen[reg[r].tc] >= g /\ gen[reg[r].obj] >= g
        BY <1>1, <3>2 DEF Core, ListsInv
      <4>6. gen[reg[r].tc] > collect_gen /\ gen[reg[r].obj] > collect_gen
        <5>1. gen[reg[r].tc] \in Gen /\ gen[reg[r].obj] \in Gen /\ collect_gen \in Gen
          BY <1>4, <4>2 DEF Core, GuardianTypes
        <5> QED BY <4>4, <4>5, <5>1 DEF Gen, GuardianAssumptions
      <4>7. reg[r].tc \in kept /\ reg[r].obj \in kept
        BY <1>1, <1>4, <4>2, <4>6, LiveIsKept
      <4>8. Aged(reg[r].tc) = gen[reg[r].tc] /\ Aged(reg[r].obj) = gen[reg[r].obj]
        BY <1>4, <4>2, <4>6, AgedIs
      <4> QED BY <4>4, <4>5, <4>7, <4>8
    <3> QED BY <1>6, <3>1, <3>2
  <2>2. \A n : Aged(n)' = Aged(n)
    BY <1>1 DEF Aged
  <2> QED BY <1>1, <1>5, <1>8, <2>1, <2>2 DEF ListsInv
<1> QED BY <1>8, <1>9, <1>10, <1>11, <1>12, <1>13, <1>14 DEF Core

\* The queues after a collection: those of guardians that are kept get the
\* pairs of FORWARD_LIST that are theirs, in some order.
LEMMA ReclaimIs ==
  ASSUME GuardianAssumptions, Core, Reclaim
  PROVE  /\ queue' \in [Guardian -> Seq(Reg)]
         /\ \A g \in Guardian : IsInjective(queue'[g])
         /\ \A g \in Guardian :
              ToSet(queue'[g]) = IF g \in kept THEN ToSet(queue[g]) \cup Returned(g) ELSE {}
<1>1. PICK order \in [Guardian -> UNION {SetToSeqs(Returned(g)) : g \in Guardian}] :
        /\ \A g \in Guardian : order[g] \in SetToSeqs(Returned(g))
        /\ queue' = [g \in Guardian |-> IF g \in kept THEN queue[g] \o order[g] ELSE <<>>]
  BY Zenon DEF Reclaim
<1>2. ASSUME NEW g \in Guardian
      PROVE  /\ order[g] \in Seq(Reg) /\ IsInjective(order[g]) /\ ToSet(order[g]) = Returned(g)
  <2>1. Returned(g) \subseteq Reg /\ IsFiniteSet(Returned(g))
    <3>1. Returned(g) \in SUBSET Reg
      BY DEF Returned, Core, GuardianTypes
    <3> QED BY <3>1, FS_Subset DEF GuardianAssumptions
  <2>2. order[g] \in SetToSeqs(Returned(g))
    BY <1>1
  <2>3. order[g] \in Seq(Returned(g)) /\ IsInjective(order[g]) /\ ToSet(order[g]) = Returned(g)
    BY <2>1, <2>2, Enumerated
  <2> QED BY <2>1, <2>3, SeqMonotonic
<1>3. ASSUME NEW g \in Guardian
      PROVE  /\ queue[g] \in Seq(Reg) /\ IsInjective(queue[g])
             /\ ToSet(queue[g]) \cap ToSet(order[g]) = {}
  <2>1. queue[g] \in Seq(Reg) /\ IsInjective(queue[g])
    BY DEF Core, GuardianTypes
  <2>2. ToSet(queue[g]) \subseteq Queued /\ Returned(g) \subseteq forward_list
    BY DEF Queued, Returned
  <2> QED BY <1>2, <2>1, <2>2 DEF Core, PlacesInv
<1>4. ASSUME NEW g \in Guardian
      PROVE  /\ queue'[g] \in Seq(Reg) /\ IsInjective(queue'[g])
             /\ ToSet(queue'[g]) = IF g \in kept THEN ToSet(queue[g]) \cup Returned(g) ELSE {}
  <2>1. CASE g \in kept
    <3>1. queue'[g] = queue[g] \o order[g]
      BY <1>1, <2>1
    <3>2. /\ queue[g] \o order[g] \in Seq(Reg) /\ IsInjective(queue[g] \o order[g])
          /\ ToSet(queue[g] \o order[g]) = ToSet(queue[g]) \cup ToSet(order[g])
      BY <1>2, <1>3, QueueAppend
    <3> QED BY <1>2, <2>1, <3>1, <3>2
  <2>2. CASE g \notin kept
    <3>1. queue'[g] = <<>>
      BY <1>1, <2>2
    <3> QED BY <2>2, <3>1, EmptyQueue
  <2> QED BY <2>1, <2>2
<1>5. queue' = [g \in Guardian |-> queue'[g]]
  BY <1>1
<1>6. queue' \in [Guardian -> Seq(Reg)]
  BY <1>4, <1>5
<1> QED BY <1>4, <1>6

\* What is left of the registrations.
LEMMA ReclaimReg ==
  ASSUME GuardianAssumptions, Core, Reclaim
  PROVE  /\ Queued' \subseteq Queued \cup forward_list
         /\ \A g \in Guardian : \A r \in ToSet(queue'[g]) :
              /\ g \in kept /\ r \in Reg /\ reg'[r] = reg[r] /\ reg[r] # NoReg
              /\ reg[r].tc = g /\ reg[r].obj \in kept
         /\ \A g \in Gen : \A r \in protected[g] :
              /\ r \in Reg /\ reg'[r] = reg[r] /\ reg[r] # NoReg
              /\ {reg[r].tc, reg[r].obj} \subseteq kept
         /\ \A r \in Reg : reg'[r] # NoReg => r \in Listed \cup Queued' /\ reg'[r] = reg[r]
<1>1. /\ phase = "reclaim"
      /\ reg' = [r \in Reg |->
               IF \/ \E g \in Gen : r \in protected[g]
                  \/ \E g \in kept \cap Guardian : r \in ToSet(queue'[g])
               THEN reg[r] ELSE NoReg]
  BY DEF Reclaim
<1>2. ASSUME NEW g \in Guardian, NEW r \in ToSet(queue'[g])
      PROVE  /\ g \in kept /\ r \in Reg /\ reg'[r] = reg[r] /\ reg[r] # NoReg
             /\ reg[r].tc = g /\ reg[r].obj \in kept /\ r \in Queued \cup forward_list
  <2>1. g \in kept /\ r \in ToSet(queue[g]) \cup Returned(g)
    BY <1>2, ReclaimIs
  <2>2. r \in Reg /\ reg'[r] = reg[r]
    <3>1. r \in Reg
      BY <2>1, RegistrationsAre DEF Returned, Core, GuardianTypes
    <3> QED BY <1>1, <1>2, <2>1, <3>1
  <2>3. CASE r \in ToSet(queue[g])
    <3>1. r \in Queued /\ reg[r].tc = g
      BY <2>3 DEF Queued, Core, PlacesInv
    <3>2. reg[r] # NoReg
      BY <3>1 DEF Core, PlacesInv
    <3>3. reg[r].obj # Nobody
      <4>1. reg[r].obj \in exists /\ exists \subseteq Node
        BY <2>2, <3>2, RegistrationsAre DEF Core, GuardianTypes
      <4> QED BY <4>1 DEF Node, GuardianAssumptions
    <3>4. reg[r].obj \in Refs(g)
      BY <2>3, <3>3 DEF Refs
    <3>5. Refs(g) \subseteq kept
      BY <1>1, <2>1 DEF Core, KeptInv, IsClosed
    <3> QED BY <2>1, <2>2, <3>1, <3>2, <3>4, <3>5
  <2>4. CASE r \in Returned(g)
    <3>1. r \in forward_list /\ reg[r].tc = g
      BY <2>4 DEF Returned
    <3>2. reg[r] # NoReg
      BY <3>1 DEF Core, PlacesInv
    <3>3. reg[r].obj \in kept
      BY <3>1 DEF Core, PendingInv
    <3> QED BY <2>1, <2>2, <3>1, <3>2, <3>3
  <2> QED BY <2>1, <2>3, <2>4
<1>3. Queued' \subseteq Queued \cup forward_list
  BY <1>2 DEF Queued
<1>4. ASSUME NEW g \in Gen, NEW r \in protected[g]
      PROVE  /\ r \in Reg /\ reg'[r] = reg[r] /\ reg[r] # NoReg
             /\ {reg[r].tc, reg[r].obj} \subseteq kept
  <2>1. r \in Reg /\ reg[r] # NoReg
    BY RegistrationsAre DEF Core, PlacesInv, Listed
  <2>2. {reg[r].tc, reg[r].obj} \subseteq kept
    BY <1>1 DEF Core, ListsInv
  <2> QED BY <1>1, <2>1, <2>2
<1>5. ASSUME NEW r \in Reg, reg'[r] # NoReg
      PROVE  r \in Listed \cup Queued' /\ reg'[r] = reg[r]
  BY <1>1, <1>5 DEF Listed, Queued
<1> QED BY <1>2, <1>3, <1>4, <1>5

LEMMA ReclaimCore ==
  ASSUME GuardianAssumptions, Core, Reclaim
  PROVE  Core'
<1>1. /\ phase = "reclaim" /\ phase' = "mutator"
      /\ weak' = FixedCar(weak) /\ exists' = kept
      /\ gen' = [n \in Node |-> IF n \in kept THEN Aged(n) ELSE 0]
      /\ ref' = [o \in Object |-> IF o \in kept THEN ref[o] ELSE Nobody]
      /\ collect_gen' = 0 /\ kept' = {} /\ traced' = {} /\ forward_list' = {}
      /\ UNCHANGED <<protected, roots, pend_hold, pend_final>>
  BY DEF Reclaim
<1>2. /\ pend_hold = {} /\ pend_final = {} /\ roots \subseteq kept
      /\ kept \subseteq exists /\ exists \subseteq Node /\ 0 \in Gen
  BY <1>1 DEF Core, NoneLost, KeptInv, GuardianTypes, Gen, GuardianAssumptions
<1>3. Listed' = Listed
  BY <1>1 DEF Listed
<1>4. GuardianTypes'
  <2>1. gen' \in [Node -> Gen]
    BY <1>1, <1>2, AgedIs
  <2>2. ref' \in [Object -> Node \cup {Nobody}]
    BY <1>1 DEF Core, GuardianTypes
  <2>3. reg' \in [Reg -> [tc : Guardian \cup {Nobody}, obj : Node \cup {Nobody}]]
    BY DEF Reclaim, Core, GuardianTypes, NoReg
  <2>4. queue' \in [Guardian -> Seq(Reg)] /\ \A g \in Guardian : IsInjective(queue'[g])
    BY ReclaimIs
  <2>5. weak' \in Node \cup {Nobody}
    BY <1>1, <1>2 DEF FixedCar
  <2>6. protected' \in [Gen -> SUBSET Reg]
    BY <1>1 DEF Core, GuardianTypes
  <2>7. exists' \subseteq Node /\ roots' \subseteq exists' /\ kept' \subseteq exists'
        /\ traced' \subseteq kept' /\ pend_hold' \cup pend_final' \cup forward_list' \subseteq Reg
    BY <1>1, <1>2
  <2> QED BY <1>1, <1>2, <2>1, <2>2, <2>3, <2>4, <2>5, <2>6, <2>7 DEF GuardianTypes
<1>5. HeapInv'
  <2>1. ASSUME NEW n \in kept PROVE Refs(n)' \subseteq kept
    <3>1. Refs(n) \subseteq kept
      BY <1>1 DEF Core, KeptInv, IsClosed
    <3>2. CASE n \in Guardian
      <4>1. \A r \in ToSet(queue'[n]) : reg'[r].obj \in kept
        BY <3>2, ReclaimReg
      <4> QED BY <3>2, <4>1 DEF Refs
    <3>3. CASE n \notin Guardian
      <4>1. n \in Object
        BY <1>2, <3>3 DEF Node
      <4>2. ref'[n] = ref[n]
        BY <1>1, <4>1
      <4> QED BY <3>1, <3>3, <4>2 DEF Refs
    <3> QED BY <3>2, <3>3
  <2>2. IsClosed(exists)'
    BY <1>1, <2>1 DEF IsClosed
  <2>3. ASSUME NEW r \in Reg, reg'[r] # NoReg PROVE {reg'[r].tc, reg'[r].obj} \subseteq kept
    <3>1. r \in Listed \cup Queued' /\ reg'[r] = reg[r]
      BY <2>3, ReclaimReg
    <3>2. CASE r \in Listed
      <4>1. PICK g \in Gen : r \in protected[g]
        BY <3>2 DEF Listed
      <4> QED BY <3>1, <4>1, ReclaimReg
    <3>3. CASE r \in Queued'
      <4>1. PICK g \in Guardian : r \in ToSet(queue'[g])
        BY <3>3 DEF Queued
      <4>2. g \in kept /\ reg[r].tc = g /\ reg[r].obj \in kept
        BY <4>1, ReclaimReg
      <4> QED BY <3>1, <4>2
    <3> QED BY <3>1, <3>2, <3>3
  <2> QED BY <1>1, <2>2, <2>3 DEF HeapInv
<1>6. PlacesInv'
  <2>1. \A g \in Guardian : \A r \in ToSet(queue'[g]) : reg'[r].tc = g
    BY ReclaimReg
  <2>2. Listed' \cap Queued' = {}
    BY <1>3, ReclaimReg DEF Core, PlacesInv
  <2>3. ASSUME NEW r \in Listed' \cup Queued' PROVE reg'[r] # NoReg
    <3>1. CASE r \in Listed
      <4>1. PICK g \in Gen : r \in protected[g]
        BY <3>1 DEF Listed
      <4> QED BY <4>1, ReclaimReg
    <3>2. CASE r \in Queued'
      <4>1. PICK g \in Guardian : r \in ToSet(queue'[g])
        BY <3>2 DEF Queued
      <4> QED BY <4>1, ReclaimReg
    <3> QED BY <1>3, <3>1, <3>2
  <2>4. \A g, h \in Gen : g # h => protected'[g] \cap protected'[h] = {}
    BY <1>1 DEF Core, PlacesInv
  <2> QED BY <1>1, <1>2, <2>1, <2>2, <2>3, <2>4 DEF PlacesInv
<1>7. NoneLost'
  BY <1>1, <1>2, <1>3, ReclaimReg DEF NoneLost
<1>8. KeptInv' /\ PendingInv'
  BY <1>1, <1>2 DEF KeptInv, PendingInv
<1>9. ListsInv'
  <2>1. ASSUME NEW g \in Gen, NEW r \in protected[g]
        PROVE  gen'[reg'[r].tc] >= g /\ gen'[reg'[r].obj] >= g
    <3>1. reg'[r] = reg[r] /\ reg[r].tc \in kept /\ reg[r].obj \in kept
      BY ReclaimReg
    <3>2. Aged(reg[r].tc) >= g /\ Aged(reg[r].obj) >= g
      BY <1>1 DEF Core, ListsInv
    <3>3. gen'[reg[r].tc] = Aged(reg[r].tc) /\ gen'[reg[r].obj] = Aged(reg[r].obj)
      BY <1>1, <1>2, <3>1
    <3> QED BY <3>1, <3>2, <3>3
  <2> QED BY <1>1, <2>1 DEF ListsInv
<1> QED BY <1>4, <1>5, <1>6, <1>7, <1>8, <1>9 DEF Core

LEMMA NextCore == GuardianAssumptions /\ Core /\ [GuardianNext]_guardianVars => Core'
<1> SUFFICES ASSUME GuardianAssumptions, Core, [GuardianNext]_guardianVars PROVE Core'
  OBVIOUS
<1>1. CASE UNCHANGED guardianVars
  <2>1. UNCHANGED guardedVars /\ UNCHANGED gcVars
    BY <1>1 DEF guardianVars
  <2>2. HeapInv' /\ Closure(roots)' = Closure(roots) /\ Queued' = Queued
        /\ \A n \in Node : Refs(n)' = Refs(n)
    BY <2>1, SameHeap DEF guardedVars
  <2>3. Listed' = Listed
    BY <2>1 DEF Listed, guardedVars
  <2>4. GuardianTypes'
    BY <2>1 DEF Core, GuardianTypes, guardedVars, gcVars
  <2>5. PlacesInv' /\ NoneLost'
    BY <2>1, <2>2, <2>3 DEF Core, PlacesInv, NoneLost, guardedVars, gcVars
  <2>6. PendingInv'
    BY <2>1 DEF Core, PendingInv, guardedVars, gcVars
  <2>7. KeptInv'
    <3>1. kept \subseteq Node /\ traced \subseteq Node
      BY DEF Core, GuardianTypes
    <3>2. IsClosed(traced) <=> IsClosed(traced)'
      BY <2>1, <2>2, <3>1 DEF IsClosed, gcVars
    <3>3. IsClosed(kept) <=> IsClosed(kept)'
      BY <2>1, <2>2, <3>1 DEF IsClosed, gcVars
    <3> QED BY <2>1, <2>2, <3>2, <3>3 DEF Core, KeptInv, guardedVars, gcVars
  <2>8. ListsInv'
    <3>1. \A n : Aged(n)' = Aged(n)
      BY <2>1 DEF Aged, guardedVars, gcVars
    <3> QED BY <2>1, <2>2, <3>1 DEF Core, ListsInv, guardedVars, gcVars
  <2> QED BY <2>2, <2>4, <2>5, <2>6, <2>7, <2>8 DEF Core
<1>2. ASSUME NEW n \in Node, Drop(n) PROVE Core'
  BY <1>2, RootsCore DEF Drop, Core, GuardianTypes
<1>3. ASSUME NEW n \in Weakable, weak_cons(n) PROVE Core'
  <2>1. n \in Node
    BY <1>3 DEF GuardianAssumptions, Node
  <2> QED BY <1>3, <2>1, RootsCore DEF weak_cons
<1> QED BY <1>1, <1>2, <1>3, AllocateCore, MutateCore, RegisterCore, RetrieveCore, StartCore,
           SortCore, FinalCore, HoldCore, ReclaimCore DEF GuardianNext

-----------------------------------------------------------------------------
(* Theorems.                                                               *)

LEMMA CoreInvariance == ASSUME GuardianAssumptions PROVE GuardianSpec => []Core
<1>1. GuardianInit => Core
  BY CoreInit
<1>2. Core /\ [GuardianNext]_guardianVars => Core'
  BY NextCore
<1> QED BY <1>1, <1>2, PTL DEF GuardianSpec

\* Whatever is reachable, registered or waiting in the tconc of a guardian
\* exists, and no protected pair is older than what it refers to, whatever
\* generations are collected (handle_guardians, gc_finalize_guardians).
THEOREM NothingGuardedIsFreed ==
  ASSUME GuardianAssumptions PROVE GuardianSpec => []GuardianInvariant
<1>1. Core => GuardianInvariant
  BY CoreSuffices
<1> QED BY <1>1, CoreInvariance, PTL

\* All pairs whose guardian is kept go on in a list or in its tconc.
LEMMA NoneForgotten ==
  ASSUME GuardianAssumptions, Core, Reclaim PROVE RegistrationsKept
<1> SUFFICES ASSUME NEW r \in Reg, reg[r] # NoReg, reg'[r] = NoReg, reg[r].tc \in kept
             PROVE  FALSE
  BY DEF RegistrationsKept, Reclaim
<1>1. phase = "reclaim"
      /\ reg' = [s \in Reg |->
               IF \/ \E g \in Gen : s \in protected[g]
                  \/ \E g \in kept \cap Guardian : s \in ToSet(queue'[g])
               THEN reg[s] ELSE NoReg]
  BY DEF Reclaim
<1>2. /\ ~ \E g \in Gen : r \in protected[g]
      /\ ~ \E g \in kept \cap Guardian : r \in ToSet(queue'[g])
  BY <1>1
<1>3. r \in Queued \cup forward_list
  BY <1>1, <1>2 DEF Core, NoneLost, Listed
<1>4. reg[r].tc \in Guardian
  BY RegistrationsAre
<1>5. r \in ToSet(queue[reg[r].tc]) \cup Returned(reg[r].tc)
  <2>1. ASSUME NEW g \in Guardian, r \in ToSet(queue[g]) PROVE r \in ToSet(queue[reg[r].tc])
    BY <2>1 DEF Core, PlacesInv
  <2> QED BY <1>3, <2>1 DEF Queued, Returned
<1> QED BY <1>2, <1>4, <1>5, ReclaimIs

\* What joins a queue was dead, and is protected no longer.
LEMMA OnlyDead ==
  ASSUME GuardianAssumptions, Core, Reclaim PROVE OnlyDeadReturned
<1> SUFFICES ASSUME NEW g \in Guardian, NEW r \in ToSet(queue'[g]) \ ToSet(queue[g])
             PROVE  /\ reg[r].obj \notin Closure(roots)
                    /\ \A h \in Gen : r \notin protected'[h]
  BY DEF OnlyDeadReturned
<1>1. phase = "reclaim" /\ protected' = protected
  BY DEF Reclaim
<1>2. r \in forward_list
  BY ReclaimIs DEF Returned
<1>3. reg[r].obj \notin traced
  BY <1>2 DEF Core, PendingInv
<1>4. Closure(roots) \subseteq traced
  <2>1. roots \subseteq traced /\ IsClosed(traced) /\ traced \in SUBSET Node
        /\ roots \in SUBSET Node
    BY <1>1 DEF Core, KeptInv, GuardianTypes
  <2> QED BY <2>1, ClosureIsLeast
<1>5. \A h \in Gen : r \notin protected[h]
  BY <1>2 DEF Core, PlacesInv, Listed
<1> QED BY <1>1, <1>3, <1>4, <1>5

\* A guardian returns only what the program could not reach, each pair once,
\* all of it after a collection of the oldest generation, and forgets a pair
\* only when it is itself gone; the car of a weak pair is broken with its
\* object and not before (make-guardian, handle_guardians, fix_weak_pointers).
THEOREM TheDeadAreReturned ==
  ASSUME GuardianAssumptions PROVE GuardianSpec => GuardiansReturnTheDead
<1>1. Core /\ [GuardianNext]_guardianVars =>
        [RegistrationsKept /\ OnlyDeadReturned /\ FullCollectionReturnsAll
           /\ WeakCarsFollow]_guardianVars
  <2> SUFFICES ASSUME Core, GuardianNext
               PROVE  RegistrationsKept /\ OnlyDeadReturned /\ FullCollectionReturnsAll
                        /\ WeakCarsFollow
    OBVIOUS
  <2>1. CASE Reclaim
    <3>1. phase = "reclaim" /\ protected' = protected
          /\ weak' = FixedCar(weak) /\ exists' = kept
      BY <2>1 DEF Reclaim
    <3>2. FullCollectionReturnsAll
      BY <3>1 DEF Core, ListsInv, FullCollectionReturnsAll
    <3>3. WeakCarsFollow
      BY <3>1 DEF WeakCarsFollow, FixedCar
    <3> QED BY <2>1, <3>2, <3>3, NoneForgotten, OnlyDead
  <2>2. CASE ~ Reclaim
    <3>1. phase # "reclaim"
      BY <2>2 DEF GuardianNext, Allocate, Mutate, Drop, weak_cons, Retrieve,
                  ikrt_register_guardian_pair, StartCollection, SortProtected,
                  FinalRound, HoldRound
    <3>2. \A g \in Guardian : ToSet(queue'[g]) \subseteq ToSet(queue[g])
      <4>1. CASE queue' = queue
        BY <4>1
      <4>2. ASSUME NEW n \in Node, NEW v \in roots \cup {Nobody}, Allocate(n, v)
            PROVE  \A g \in Guardian : ToSet(queue'[g]) \subseteq ToSet(queue[g])
        BY <4>2, EmptyQueue DEF Allocate, Core, GuardianTypes
      <4>3. ASSUME NEW g \in Guardian, Retrieve(g)
            PROVE  \A h \in Guardian : ToSet(queue'[h]) \subseteq ToSet(queue[h])
        <5>1. ToSet(Tail(queue[g])) \subseteq ToSet(queue[g])
          BY <4>3, QueueTail DEF Retrieve, Core, GuardianTypes
        <5> QED BY <4>3, <5>1 DEF Retrieve, Core, GuardianTypes
      <4>4. \/ queue' = queue
            \/ \E n \in Node, v \in roots \cup {Nobody} : Allocate(n, v)
            \/ \E g \in Guardian : Retrieve(g)
        BY <2>2 DEF GuardianNext, Mutate, Drop, weak_cons, ikrt_register_guardian_pair,
                    StartCollection, SortProtected, FinalRound, HoldRound, guardedVars
      <4> QED BY <4>1, <4>2, <4>3, <4>4
    <3> QED BY <3>1, <3>2 DEF RegistrationsKept, OnlyDeadReturned, FullCollectionReturnsAll,
                              WeakCarsFollow
  <2> QED BY <2>1, <2>2
<1> QED BY <1>1, CoreInvariance, PTL DEF GuardianSpec, GuardiansReturnTheDead

-----------------------------------------------------------------------------
(* Dirty cards: bits of a slot.                                            *)

\* The bit of generation K in the nibble of card C.
LEMMA BitOfCard ==
  ASSUME CardAssumptions, NEW c \in Card, NEW k \in 0 .. 3
  PROVE  /\ GenBit(k) \in 0 .. 3 /\ GenBit(k) + 4 * c \in Bit
         /\ \A S : GenBit(k) \in S => GenBit(k) + 4 * c \in Shift(S, 4 * c)
         /\ \A S : GenBit(k) + 4 * c \in S => GenBit(k) + 4 * c \in Nibble(S, c)
<1>1. GenBit(k) \in 0 .. 3
  BY DEF GenBit
<1>2. GenBit(k) + 4 * c \in Bit
  BY <1>1 DEF CardAssumptions, Card, Bit
<1>3. \A S : GenBit(k) \in S => GenBit(k) + 4 * c \in Shift(S, 4 * c)
  BY <1>2 DEF Shift
<1>4. GenBit(k) + 4 * c \in Shift(0 .. 3, 4 * c)
  BY <1>1, <1>3
<1> QED BY <1>1, <1>2, <1>3, <1>4 DEF Nibble

\* The masks have the bit of every generation that they are for, in the
\* nibble of every card.
LEMMA MasksHave ==
  ASSUME CardAssumptions, NEW c \in Card, NEW k \in 0 .. 3
  PROVE  /\ \A g \in 0 .. 3 : k <= g => GenBit(k) + 4 * c \in DIRTY_MASK(g)
         /\ \A g \in 1 .. 4 : k < g => GenBit(k) + 4 * c \in CLEANUP_MASK(g)
<1>1. ASSUME NEW S, GenBit(k) \in S PROVE GenBit(k) + 4 * c \in InEachNibble(S)
  BY <1>1, BitOfCard DEF InEachNibble
<1>2. ASSUME NEW g \in 0 .. 3, k <= g PROVE GenBit(k) + 4 * c \in DIRTY_MASK(g)
  <2>1. k \in 0 .. g /\ g # 4
    BY <1>2
  <2> QED BY <1>1, <2>1 DEF DIRTY_MASK
<1>3. ASSUME NEW g \in 1 .. 4, k < g PROVE GenBit(k) + 4 * c \in CLEANUP_MASK(g)
  <2>1. k \in 0 .. g - 1 /\ g # 0
    BY <1>3
  <2> QED BY <1>1, <2>1 DEF CLEANUP_MASK
<1> QED BY <1>2, <1>3

\* A scan for a generation looks for the bits of all younger ones.
LEMMA MaskGrows ==
  ASSUME NEW g \in 0 .. 3, NEW h \in 0 .. g
  PROVE  DIRTY_MASK(h) \subseteq DIRTY_MASK(g)
<1>1. g # 4 /\ h # 4 /\ 0 .. h \subseteq 0 .. g
  OBVIOUS
<1>2. {GenBit(k) : k \in 0 .. h} \subseteq {GenBit(k) : k \in 0 .. g}
  BY <1>1
<1>3. ASSUME NEW S, NEW T, S \subseteq T PROVE InEachNibble(S) \subseteq InEachNibble(T)
  BY <1>3 DEF InEachNibble, Shift
<1> QED BY <1>1, <1>2, <1>3 DEF DIRTY_MASK

-----------------------------------------------------------------------------
(* Dirty cards: what a collection moves and what bits it computes.         *)

\* What is not moved was older than what is collected, or in the oldest
\* generation.
LEMMA MovedIs ==
  ASSUME CardTypes, OlderByMoves, NEW g \in Generation, NEW o \in Referent
  PROVE  /\ Moved(g)[o] \in [gen : Generation, moves : Generation]
         /\ Moved(g)[o].moves <= Moved(g)[o].gen
         /\ Moved(g)[o].gen \in 1 .. 4
         /\ Moved(g)[o].gen >= NextGeneration(g)
         /\ Moved(g)[o] # object[o] => object[o].gen <= g /\ object[o].gen < 4
<1>1. /\ object[o] \in [gen : Generation, moves : Generation]
      /\ object[o].moves <= object[o].gen
  BY DEF CardTypes, OlderByMoves
<1>2. object[o].gen \in 0 .. 4 /\ object[o].moves \in 0 .. 4 /\ g \in 0 .. 4
  BY <1>1 DEF Generation
<1>3. CASE object[o].gen <= g /\ object[o].gen < 4
  <2>1. Moved(g)[o] = [gen |-> NextGeneration(g), moves |-> object[o].moves + 1]
    BY <1>3 DEF Moved
  <2>2. NextGeneration(g) \in 1 .. 4 /\ object[o].moves + 1 <= NextGeneration(g)
    BY <1>1, <1>2, <1>3 DEF NextGeneration
  <2>3. object[o].moves + 1 \in 0 .. 4
    BY <1>2, <2>2
  <2> QED BY <1>3, <2>1, <2>2, <2>3 DEF Generation
<1>4. CASE ~ (object[o].gen <= g /\ object[o].gen < 4)
  <2>1. Moved(g)[o] = object[o]
    BY <1>4 DEF Moved
  <2>2. object[o].gen \in 1 .. 4 /\ object[o].gen >= NextGeneration(g)
    BY <1>2, <1>4 DEF NextGeneration
  <2> QED BY <1>1, <2>1, <2>2
<1> QED BY <1>3, <1>4

\* The bits of the page of an object have the dirty bit of its generation.
LEMMA BitOfObject ==
  ASSUME CardAssumptions, NEW g, NEW o \in Referent, NEW h \in 1 .. 3, Moved(g)[o].gen = h
  PROVE  4 + GenBit(h) \in GatheredBits(g, o) /\ 4 + GenBit(h) \in META_DIRTY_MASK
<1>1. o # Immediate
  BY DEF CardAssumptions
<1>2. \A new : 4 + GenBit(h) \in SegmentBits(h, new)
  BY DEF SegmentBits
<1> QED BY <1>1, <1>2 DEF GatheredBits, META_DIRTY_MASK, GenBit

\* A card that is scanned gets the bit of what its word refers to.
LEMMA ScanKeepsCard ==
  ASSUME CardAssumptions, NEW g, NEW p, NEW c \in Card, NEW o \in Referent, NEW h \in 1 .. 3,
         word[p][<<c, "word">>].object = o, Moved(g)[o].gen = h
  PROVE  GenBit(h) + 4 * c \in ScannedCardBits(g, p, c)
<1>1. 4 + GenBit(h) \in GatheredBits(g, o) \cap META_DIRTY_MASK
  BY BitOfObject
<1>2. GenBit(h) \in 0 .. 3
  BY DEF GenBit
<1>3. GenBit(h) \in ShiftRight(GatheredBits(g, o) \cap META_DIRTY_MASK, 4)
  BY <1>1, <1>2 DEF ShiftRight
<1>4. h \in 0 .. 3
  OBVIOUS
<1> QED BY <1>3, <1>4, BitOfCard DEF ScannedCardBits, SHIFT_NIBBLE_AT_CARD_SLOT

\* All the bits of the page of an object, and not only its dirty bits, are
\* put in a code page: the dirty bits are those of the next card.
LEMMA ScanKeepsCode ==
  ASSUME CardAssumptions, BitsKept, NEW g, NEW p, NEW c \in 0 .. LastCard, NEW f \in Field,
         NEW o \in Referent, NEW h \in 1 .. 3,
         word[p][<<c, f>>].object = o, Moved(g)[o].gen = h
  PROVE  /\ c + 1 \in Card
         /\ GenBit(h) + 4 * (c + 1) \in scan_dirty_code_page(g, p)
<1>1. c + 1 \in Card
  BY DEF CardAssumptions, BitsKept, Card
<1>2. f \in Field \cap {"reloc"}
  BY DEF CardAssumptions, BitsKept
<1>3. 4 + GenBit(h) \in CodeCardBits(g, p, c)
  BY <1>2, BitOfObject DEF CodeCardBits
<1>4. h \in 0 .. 3
  OBVIOUS
<1>5. GenBit(h) + 4 * (c + 1) \in Bit /\ GenBit(h) \in 0 .. 3
  BY <1>1, <1>4, BitOfCard
<1>6. (4 + GenBit(h)) + 4 * c = GenBit(h) + 4 * (c + 1)
  BY <1>5
<1>7. GenBit(h) + 4 * (c + 1) \in Shift(CodeCardBits(g, p, c), 4 * c)
  BY <1>3, <1>5, <1>6 DEF Shift
<1> QED BY <1>1, <1>7 DEF scan_dirty_code_page, SHIFT_NIBBLE_AT_CARD_SLOT

-----------------------------------------------------------------------------
(* Dirty cards: the invariant.                                             *)

LEMMA PlaceIs ==
  ASSUME CardAssumptions, NEW p \in OldPage, NEW w \in Place(p)
  PROVE  /\ p \notin CodePage => w[1] \in Card /\ w = <<w[1], "word">>
         /\ p \in CodePage => w[1] \in 0 .. LastCard /\ w[2] \in Field /\ w = <<w[1], w[2]>>
         /\ w[1] \in Card
<1>1. CASE p \in CodePage
  BY <1>1 DEF Place, CardAssumptions, Card
<1>2. CASE p \notin CodePage
  BY <1>2 DEF Place
<1> QED BY <1>1, <1>2

\* Words with the types that they have.
LEMMA WordIs ==
  ASSUME CardTypes, NEW p \in OldPage, NEW w \in Place(p)
  PROVE  /\ word[p][w] \in [object : Referent \cup {Immediate}, moves : Generation]
         /\ word[p][w].object # Immediate =>
              /\ word[p][w].object \in Referent
              /\ object[word[p][w].object] \in [gen : Generation, moves : Generation]
         /\ page_gen[p] \in 1 .. 4 /\ dirty_slot[p] \in SUBSET Bit
  BY DEF CardTypes

\* A page whose cards are right is right.
LEMMA CardsAreEnough ==
  ASSUME CardAssumptions, CardTypes, CleanCardsHaveNoYounger,
         NEW p \in OldPage \ CodePage, NEW w \in Place(p), IsYounger(p, w)
  PROVE  dirty_slot[p] \cap DIRTY_MASK(object[word[p][w].object].gen) # {}
<1> DEFINE k == object[word[p][w].object].gen
<1>1. k \in 0 .. 3
  <2>1. k \in 0 .. 4 /\ page_gen[p] \in 1 .. 4 /\ k < page_gen[p]
    BY WordIs DEF IsYounger, Generation
  <2> QED BY <2>1
<1>2. GenBit(k) + 4 * w[1] \in dirty_slot[p]
  BY DEF CleanCardsHaveNoYounger
<1>3. w[1] \in Card
  BY PlaceIs
<1> HIDE DEF k
<1>4. GenBit(k) + 4 * w[1] \in DIRTY_MASK(k)
  BY <1>1, <1>3, MasksHave
<1> QED BY <1>2, <1>4 DEF k

LEMMA CardInitHolds ==
  ASSUME CardAssumptions, CardInit
  PROVE  CardInvariant
<1>1. \A p \in OldPage : \A w \in Place(p) : word[p][w] = Nothing /\ word[p][w].object = Immediate
  BY DEF CardInit, Nothing
<1>2. CardTypes
  <2>1. Nothing \in [object : Referent \cup {Immediate}, moves : Generation]
    BY DEF Nothing, Generation
  <2>2. \A p \in OldPage :
          word[p] \in [Place(p) -> [object : Referent \cup {Immediate}, moves : Generation]]
    BY <2>1 DEF CardInit
  <2>3. object \in [Referent -> [gen : Generation, moves : Generation]]
    BY DEF CardInit, Generation
  <2>4. dirty_slot \in [OldPage -> SUBSET Bit] /\ DOMAIN word = OldPage
    BY DEF CardInit
  <2> QED BY <2>2, <2>3, <2>4 DEF CardInit, CardTypes
<1>3. OlderByMoves
  BY DEF CardInit, OlderByMoves
<1> QED BY <1>1, <1>2, <1>3
    DEF CardInvariant, NeverDangles, CleanCardsHaveNoYounger, CleanPagesHaveNoYounger, IsYounger

\* A store marks the whole slot.
LEMMA StoreKeeps ==
  ASSUME CardAssumptions, CardInvariant,
         NEW p \in OldPage, NEW w \in Place(p), NEW o \in Referent, Store(p, w, o)
  PROVE  CardInvariant'
<1>1. PICK X : X = [object |-> o, moves |-> object[o].moves]
  OBVIOUS
<1>2. /\ word' = [word EXCEPT ![p][w] = X] /\ X.object = o /\ X.moves = object[o].moves
      /\ dirty_slot' = [dirty_slot EXCEPT ![p] = Bit]
      /\ page_gen' = page_gen /\ object' = object
  BY <1>1 DEF Store
<1>3. CardTypes /\ OlderByMoves
  BY DEF CardInvariant
<1>4. \A q \in OldPage : \A v \in Place(q) :
        word'[q][v] = IF q = p /\ v = w THEN X ELSE word[q][v]
  BY <1>2, <1>3 DEF CardTypes
<1>5. \A q \in OldPage : dirty_slot'[q] = IF q = p THEN Bit ELSE dirty_slot[q]
  BY <1>2, <1>3 DEF CardTypes
<1>6. CardTypes'
  <2>1. X \in [object : Referent \cup {Immediate}, moves : Generation]
    BY <1>1, <1>3 DEF CardTypes
  <2>2. \A q \in OldPage :
          word'[q] \in [Place(q) -> [object : Referent \cup {Immediate}, moves : Generation]]
    BY <1>2, <1>3, <2>1 DEF CardTypes
  <2>3. dirty_slot' \in [OldPage -> SUBSET Bit] /\ DOMAIN word' = OldPage
    BY <1>2, <1>3 DEF CardTypes
  <2> QED BY <1>2, <1>3, <2>2, <2>3 DEF CardTypes
<1>7. OlderByMoves'
  BY <1>2, <1>3 DEF OlderByMoves
<1>8. NeverDangles'
  BY <1>2, <1>4 DEF CardInvariant, NeverDangles
<1>9. CleanCardsHaveNoYounger'
  <2> SUFFICES ASSUME NEW q \in OldPage \ CodePage, NEW v \in Place(q), IsYounger(q, v)'
               PROVE  GenBit(object'[word'[q][v].object].gen) + 4 * v[1] \in dirty_slot'[q]
    BY DEF CleanCardsHaveNoYounger
  <2>1. CASE q = p
    <3>1. PICK k : k = object'[word'[q][v].object].gen
      OBVIOUS
    <3>2. k \in 0 .. 4 /\ page_gen'[q] \in 1 .. 4 /\ k < page_gen'[q]
      BY <1>6, <3>1 DEF CardTypes, IsYounger, Generation
    <3>3. k \in 0 .. 3 /\ v[1] \in Card
      BY <3>2, PlaceIs
    <3> QED BY <1>5, <2>1, <3>1, <3>3, BitOfCard
  <2>2. CASE q # p
    <3>1. word'[q][v] = word[q][v] /\ dirty_slot'[q] = dirty_slot[q] /\ IsYounger(q, v)
      BY <1>2, <1>4, <1>5, <2>2 DEF IsYounger
    <3> QED BY <1>2, <3>1 DEF CardInvariant, CleanCardsHaveNoYounger
  <2> QED BY <2>1, <2>2
<1>10. CleanPagesHaveNoYounger'
  <2> SUFFICES ASSUME NEW q \in OldPage, NEW v \in Place(q), IsYounger(q, v)'
               PROVE  dirty_slot'[q] \cap DIRTY_MASK(object'[word'[q][v].object].gen) # {}
    BY DEF CleanPagesHaveNoYounger
  <2>1. CASE q = p
    <3>1. PICK k : k = object'[word'[q][v].object].gen
      OBVIOUS
    <3>2. k \in 0 .. 4 /\ page_gen'[q] \in 1 .. 4 /\ k < page_gen'[q]
      BY <1>6, <3>1 DEF CardTypes, IsYounger, Generation
    <3>3. k \in 0 .. 3 /\ v[1] \in Card
      BY <3>2, PlaceIs
    <3>4. GenBit(k) + 4 * v[1] \in Bit \cap DIRTY_MASK(k)
      BY <3>3, BitOfCard, MasksHave
    <3> QED BY <1>5, <2>1, <3>1, <3>4
  <2>2. CASE q # p
    <3>1. word'[q][v] = word[q][v] /\ dirty_slot'[q] = dirty_slot[q] /\ IsYounger(q, v)
      BY <1>2, <1>4, <1>5, <2>2 DEF IsYounger
    <3> QED BY <1>2, <3>1 DEF CardInvariant, CleanPagesHaveNoYounger
  <2> QED BY <2>1, <2>2
<1> QED BY <1>6, <1>7, <1>8, <1>9, <1>10 DEF CardInvariant

\* Nothing refers to what is allocated.
LEMMA RenewKeeps ==
  ASSUME CardAssumptions, CardInvariant, NEW o \in Referent, Renew(o)
  PROVE  CardInvariant'
<1>1. PICK X : X = [gen |-> 0, moves |-> 0]
  OBVIOUS
<1>2. /\ object' = [object EXCEPT ![o] = X] /\ X.gen = 0 /\ X.moves = 0
      /\ page_gen' = page_gen /\ word' = word /\ dirty_slot' = dirty_slot
      /\ \A p \in OldPage : \A w \in Place(p) : word[p][w].object # o
  BY <1>1 DEF Renew
<1>3. CardTypes /\ OlderByMoves
  BY DEF CardInvariant
<1>4. CardTypes'
  <2>1. X \in [gen : Generation, moves : Generation]
    BY <1>1 DEF Generation
  <2> QED BY <1>2, <1>3, <2>1 DEF CardTypes
<1>5. OlderByMoves'
  BY <1>2, <1>3 DEF CardTypes, OlderByMoves
<1>6. ASSUME NEW p \in OldPage, NEW w \in Place(p), word[p][w].object # Immediate
      PROVE  object'[word[p][w].object] = object[word[p][w].object]
  BY <1>2, <1>3, <1>6 DEF CardTypes
<1>7. ASSUME NEW p \in OldPage, NEW w \in Place(p), IsYounger(p, w)'
      PROVE  IsYounger(p, w) /\ object'[word[p][w].object] = object[word[p][w].object]
  BY <1>2, <1>6, <1>7 DEF IsYounger
<1>8. NeverDangles'
  BY <1>2, <1>6 DEF CardInvariant, NeverDangles
<1>9. CleanCardsHaveNoYounger'
  BY <1>2, <1>7 DEF CardInvariant, CleanCardsHaveNoYounger
<1>10. CleanPagesHaveNoYounger'
  BY <1>2, <1>7 DEF CardInvariant, CleanPagesHaveNoYounger
<1> QED BY <1>4, <1>5, <1>8, <1>9, <1>10 DEF CardInvariant

\* A word that is not gathered refers to nothing that moves: what is skipped
\* has no bit of a generation that is collected.
LEMMA SkippedIsNotMoved ==
  ASSUME CardAssumptions, CardInvariant, NEW g \in Generation,
         NEW p \in OldPage, NEW w \in Place(p), ~ IsGathered(g, p, w),
         word[p][w].object # Immediate
  PROVE  Moved(g)[word[p][w].object] = object[word[p][w].object]
<1> DEFINE o == word[p][w].object
           k == object[o].gen
<1>1. CardTypes /\ OlderByMoves
  BY DEF CardInvariant
<1>2. o \in Referent /\ k \in 0 .. 4 /\ page_gen[p] \in 1 .. 4 /\ g \in 0 .. 4
  BY <1>1, WordIs DEF Generation
<1>3. page_gen[p] > g
  BY <1>2 DEF IsGathered
<1> SUFFICES ASSUME Moved(g)[o] # object[o] PROVE FALSE
  OBVIOUS
<1>4. k <= g
  BY <1>1, <1>2, MovedIs
<1>5. IsYounger(p, w) /\ g \in 0 .. 3 /\ k \in 0 .. g /\ k \in 0 .. 3
  BY <1>2, <1>3, <1>4 DEF IsYounger
<1>6. DIRTY_MASK(k) \subseteq DIRTY_MASK(g)
  BY <1>5, MaskGrows
<1>7. Scanned(g, p)
  <2>1. dirty_slot[p] \cap DIRTY_MASK(k) # {}
    BY <1>5 DEF CardInvariant, CleanPagesHaveNoYounger
  <2> QED BY <1>3, <1>6, <2>1 DEF Scanned
<1>8. CASE p \in CodePage
  BY <1>7, <1>8 DEF IsGathered
<1>9. CASE p \notin CodePage
  <2>1. w[1] \in Card
    BY PlaceIs
  <2>2. GenBit(k) + 4 * w[1] \in dirty_slot[p]
    BY <1>5, <1>9 DEF CardInvariant, CleanCardsHaveNoYounger
  <2>3. GenBit(k) + 4 * w[1] \in DIRTY_MASK(g)
    BY <1>5, <2>1, MasksHave
  <2> HIDE DEF k
  <2>4. GenBit(k) + 4 * w[1] \in Nibble(dirty_slot[p] \cap DIRTY_MASK(g), w[1])
    BY <1>5, <2>1, <2>2, <2>3, BitOfCard
  <2> QED BY <1>7, <2>4 DEF DirtyCard, IsGathered
<1> QED BY <1>8, <1>9

LEMMA CollectKeeps ==
  ASSUME CardAssumptions, BitsKept, CardInvariant, NEW g \in Generation, CollectGeneration(g)
  PROVE  CardInvariant'
<1>1. CardTypes /\ OlderByMoves
  BY DEF CardInvariant
<1>2. object' = Moved(g) /\ g \in 0 .. 4 /\ NextGeneration(g) \in 1 .. 4
  BY DEF CollectGeneration, Generation, NextGeneration
<1>3. \A p \in OldPage : \A w \in Place(p) :
        word'[p][w] = IF IsGathered(g, p, w) THEN GatheredWord(g, word[p][w]) ELSE word[p][w]
  BY DEF CollectGeneration
<1>4. \A p \in OldPage :
        page_gen'[p] = IF page_gen[p] <= g THEN NextGeneration(g) ELSE page_gen[p]
  BY DEF CollectGeneration
<1>5. \A p \in OldPage :
        dirty_slot'[p] =
          IF page_gen[p] <= g THEN {}
          ELSE IF Scanned(g, p)
          THEN (IF p \in CodePage THEN scan_dirty_code_page(g, p)
                                  ELSE scan_dirty_pointers_page(g, p))
               \cap CLEANUP_MASK(page_gen[p])
          ELSE dirty_slot[p]
  BY DEF CollectGeneration
<1>6. ASSUME NEW p \in OldPage, NEW w \in Place(p)
      PROVE  /\ word'[p][w] \in [object : Referent \cup {Immediate}, moves : Generation]
             /\ word'[p][w].object = word[p][w].object
             /\ word[p][w].object # Immediate =>
                  word'[p][w].moves = object'[word[p][w].object].moves
  <2>1. word[p][w] \in [object : Referent \cup {Immediate}, moves : Generation]
    BY <1>1, WordIs
  <2>2. CASE word[p][w].object = Immediate
    <3>1. word'[p][w] = word[p][w]
      BY <1>3, <2>2 DEF GatheredWord
    <3> QED BY <2>1, <2>2, <3>1
  <2>3. CASE word[p][w].object # Immediate /\ IsGathered(g, p, w)
    <3>1. word'[p][w] = [word[p][w] EXCEPT !.moves = Moved(g)[word[p][w].object].moves]
      BY <1>3, <2>3 DEF GatheredWord
    <3>2. word[p][w].object \in Referent
      BY <1>1, <2>3, WordIs
    <3>3. Moved(g)[word[p][w].object].moves \in Generation
      BY <1>1, <3>2, MovedIs
    <3> QED BY <1>2, <2>1, <3>1, <3>3
  <2>4. CASE word[p][w].object # Immediate /\ ~ IsGathered(g, p, w)
    <3>1. word'[p][w] = word[p][w]
      BY <1>3, <2>4
    <3>2. object'[word[p][w].object] = object[word[p][w].object]
      BY <1>2, <2>4, SkippedIsNotMoved
    <3>3. word[p][w].moves = object[word[p][w].object].moves
      BY <2>4 DEF CardInvariant, NeverDangles
    <3> QED BY <2>1, <3>1, <3>2, <3>3
  <2> QED BY <2>2, <2>3, <2>4
<1>7. CardTypes'
  <2>1. page_gen' \in [OldPage -> 1 .. 4]
    BY <1>1, <1>2 DEF CollectGeneration, CardTypes
  <2>2. DOMAIN word' = OldPage
    BY DEF CollectGeneration
  <2>3. ASSUME NEW p \in OldPage
        PROVE  word'[p] \in [Place(p) -> [object : Referent \cup {Immediate}, moves : Generation]]
    <3>1. word'[p] = [w \in Place(p) |-> word'[p][w]]
      BY DEF CollectGeneration
    <3> QED BY <1>6, <3>1
  <2>4. dirty_slot' \in [OldPage -> SUBSET Bit]
    <3>1. ASSUME NEW p \in OldPage PROVE dirty_slot'[p] \in SUBSET Bit
      <4>1. dirty_slot[p] \in SUBSET Bit
        BY <1>1 DEF CardTypes
      <4>2. scan_dirty_code_page(g, p) \subseteq Bit
        BY DEF scan_dirty_code_page, SHIFT_NIBBLE_AT_CARD_SLOT, Shift
      <4>3. scan_dirty_pointers_page(g, p) \subseteq Bit
        BY <4>1 DEF scan_dirty_pointers_page, ScannedCardBits, PureCardBits, Nibble,
                    SHIFT_NIBBLE_AT_CARD_SLOT, Shift
      <4> QED BY <1>5, <4>1, <4>2, <4>3
    <3>2. dirty_slot' = [p \in OldPage |-> dirty_slot'[p]]
      BY DEF CollectGeneration
    <3> QED BY <3>1, <3>2
  <2>5. object' \in [Referent -> [gen : Generation, moves : Generation]]
    <3>1. object' = [o \in Referent |-> Moved(g)[o]]
      BY <1>2 DEF Moved
    <3> QED BY <1>1, <3>1, MovedIs
  <2> QED BY <2>1, <2>2, <2>3, <2>4, <2>5 DEF CardTypes
<1>8. OlderByMoves'
  BY <1>1, <1>2, MovedIs DEF OlderByMoves
<1>9. NeverDangles'
  BY <1>6 DEF NeverDangles
\* A word of an older page whose object is younger after the collection: the
\* page was not collected and the object is in a generation from 1 to 3.
<1>10. ASSUME NEW p \in OldPage, NEW w \in Place(p), IsYounger(p, w)'
       PROVE  /\ page_gen[p] > g /\ page_gen'[p] = page_gen[p]
              /\ word[p][w].object \in Referent /\ word[p][w].object # Immediate
              /\ word'[p][w].object = word[p][w].object
              /\ object'[word[p][w].object].gen \in 1 .. 3
              /\ object'[word[p][w].object].gen < page_gen[p]
              /\ page_gen[p] \in 1 .. 4
  <2>1. word'[p][w].object = word[p][w].object /\ word[p][w].object # Immediate
    BY <1>6, <1>10 DEF IsYounger
  <2>2. word[p][w].object \in Referent /\ page_gen[p] \in 1 .. 4
    BY <1>1, <2>1, WordIs
  <2>3. /\ object'[word[p][w].object].gen \in 1 .. 4
        /\ object'[word[p][w].object].gen >= NextGeneration(g)
    BY <1>1, <1>2, <2>2, MovedIs
  <2>4. object'[word[p][w].object].gen < page_gen'[p]
    BY <1>10, <2>1 DEF IsYounger
  <2>5. page_gen[p] > g /\ page_gen'[p] = page_gen[p]
    BY <1>2, <1>4, <2>2, <2>3, <2>4
  <2> QED BY <2>1, <2>2, <2>3, <2>4, <2>5
\* If the word was not gathered the object was younger before.
<1>11. ASSUME NEW p \in OldPage, NEW w \in Place(p), IsYounger(p, w)', ~ IsGathered(g, p, w)
       PROVE  IsYounger(p, w) /\ object'[word[p][w].object] = object[word[p][w].object]
  BY <1>2, <1>10, <1>11, SkippedIsNotMoved DEF IsYounger
<1>12. ASSUME NEW p \in OldPage, NEW w \in Place(p), IsYounger(p, w)', p \notin CodePage
       PROVE  GenBit(object'[word[p][w].object].gen) + 4 * w[1] \in dirty_slot'[p]
  <2>1. PICK h : h = object'[word[p][w].object].gen
    OBVIOUS
  <2>2. PICK c : c = w[1]
    OBVIOUS
  <2>3. PICK o : o = word[p][w].object
    OBVIOUS
  <2>4. h \in 1 .. 3 /\ h \in 0 .. 3 /\ h < page_gen[p] /\ page_gen[p] \in 1 .. 4 /\ ~ page_gen[p] <= g
    BY <1>2, <1>10, <1>12, <2>1
  <2>5. c \in Card /\ w = <<c, "word">>
    BY <1>12, <2>2, PlaceIs
  <2>6. GenBit(h) + 4 * c \in CLEANUP_MASK(page_gen[p])
    BY <2>4, <2>5, MasksHave
  <2>7. CASE IsGathered(g, p, w)
    <3>1. Scanned(g, p) /\ DirtyCard(g, p, c)
      BY <1>12, <2>2, <2>4, <2>7 DEF IsGathered
    <3>2. o \in Referent /\ Moved(g)[o].gen = h
      BY <1>2, <1>10, <1>12, <2>1, <2>3
    <3>3. GenBit(h) + 4 * c \in ScannedCardBits(g, p, c)
      BY <2>3, <2>4, <2>5, <3>2, ScanKeepsCard
    <3>4. GenBit(h) + 4 * c \in scan_dirty_pointers_page(g, p)
      BY <2>5, <3>1, <3>3 DEF scan_dirty_pointers_page
    <3>5. dirty_slot'[p] = scan_dirty_pointers_page(g, p) \cap CLEANUP_MASK(page_gen[p])
      BY <1>2, <1>5, <1>12, <2>4, <3>1
    <3> QED BY <2>1, <2>2, <2>6, <3>4, <3>5
  <2>8. CASE ~ IsGathered(g, p, w)
    <3>1. GenBit(h) + 4 * c \in dirty_slot[p]
      BY <1>11, <1>12, <2>1, <2>2, <2>8 DEF CardInvariant, CleanCardsHaveNoYounger
    <3>2. CASE Scanned(g, p)
      <4>1. ~ DirtyCard(g, p, c)
        BY <2>2, <2>8, <3>2 DEF IsGathered
      <4>2. GenBit(h) + 4 * c \in PureCardBits(p, c)
        BY <2>4, <2>5, <3>1, BitOfCard DEF PureCardBits
      <4>3. GenBit(h) + 4 * c \in scan_dirty_pointers_page(g, p)
        BY <2>5, <4>1, <4>2 DEF scan_dirty_pointers_page
      <4>4. dirty_slot'[p] = scan_dirty_pointers_page(g, p) \cap CLEANUP_MASK(page_gen[p])
        BY <1>2, <1>5, <1>12, <2>4, <3>2
      <4> QED BY <2>1, <2>2, <2>6, <4>3, <4>4
    <3>3. CASE ~ Scanned(g, p)
      <4>1. dirty_slot'[p] = dirty_slot[p]
        BY <1>2, <1>5, <2>4, <3>3
      <4> QED BY <2>1, <2>2, <3>1, <4>1
    <3> QED BY <3>2, <3>3
  <2> QED BY <2>7, <2>8
<1>13. CleanCardsHaveNoYounger'
  BY <1>10, <1>12 DEF CleanCardsHaveNoYounger
<1>14. ASSUME NEW p \in CodePage, NEW w \in Place(p), IsYounger(p, w)'
       PROVE  dirty_slot'[p] \cap DIRTY_MASK(object'[word[p][w].object].gen) # {}
  <2>0. p \in OldPage
    BY DEF CardAssumptions
  <2>1. PICK h : h = object'[word[p][w].object].gen
    OBVIOUS
  <2>2. PICK c : c = w[1]
    OBVIOUS
  <2>3. PICK f : f = w[2]
    OBVIOUS
  <2>4. PICK o : o = word[p][w].object
    OBVIOUS
  <2>5. h \in 1 .. 3 /\ h \in 0 .. 3 /\ h < page_gen[p] /\ page_gen[p] \in 1 .. 4 /\ ~ page_gen[p] <= g
    BY <1>2, <1>10, <1>14, <2>0, <2>1
  <2>6. c \in 0 .. LastCard /\ f \in Field /\ w = <<c, f>>
    BY <2>0, <2>2, <2>3, PlaceIs
  <2>7. CASE Scanned(g, p)
    <3>1. o \in Referent /\ Moved(g)[o].gen = h
      BY <1>2, <1>10, <1>14, <2>0, <2>1, <2>4
    <3>2. c + 1 \in Card /\ GenBit(h) + 4 * (c + 1) \in scan_dirty_code_page(g, p)
      BY <2>4, <2>5, <2>6, <3>1, ScanKeepsCode
    <3>3. /\ GenBit(h) + 4 * (c + 1) \in CLEANUP_MASK(page_gen[p])
          /\ GenBit(h) + 4 * (c + 1) \in DIRTY_MASK(h)
      BY <2>5, <3>2, MasksHave
    <3>4. dirty_slot'[p] = scan_dirty_code_page(g, p) \cap CLEANUP_MASK(page_gen[p])
      BY <1>2, <1>5, <2>0, <2>5, <2>7
    <3> QED BY <2>1, <3>2, <3>3, <3>4
  <2>8. CASE ~ Scanned(g, p)
    <3>1. dirty_slot'[p] = dirty_slot[p]
      BY <1>2, <1>5, <2>0, <2>5, <2>8
    <3>2. ~ IsGathered(g, p, w)
      BY <1>2, <2>5, <2>8 DEF IsGathered
    <3>3. IsYounger(p, w) /\ object'[word[p][w].object] = object[word[p][w].object]
      BY <1>11, <1>14, <2>0, <3>2
    <3> QED BY <2>0, <3>1, <3>3 DEF CardInvariant, CleanPagesHaveNoYounger
  <2> QED BY <2>7, <2>8
<1>15. CleanPagesHaveNoYounger'
  <2> SUFFICES ASSUME NEW p \in OldPage, NEW w \in Place(p), IsYounger(p, w)'
               PROVE  dirty_slot'[p] \cap DIRTY_MASK(object'[word'[p][w].object].gen) # {}
    BY DEF CleanPagesHaveNoYounger
  <2>1. word'[p][w].object = word[p][w].object
    BY <1>6
  <2>2. CASE p \in CodePage
    BY <1>14, <2>1, <2>2
  <2>3. CASE p \notin CodePage
    <3>1. PICK h : h = object'[word[p][w].object].gen
      OBVIOUS
    <3>2. h \in 0 .. 3 /\ w[1] \in Card
      BY <1>10, <3>1, PlaceIs
    <3>3. GenBit(h) + 4 * w[1] \in DIRTY_MASK(h)
      BY <3>2, MasksHave
    <3> QED BY <1>12, <2>1, <2>3, <3>1, <3>3
  <2> QED BY <2>2, <2>3
<1> QED BY <1>7, <1>8, <1>9, <1>13, <1>15 DEF CardInvariant

\* Whatever is stored and in whatever order the generations are collected, a
\* clean card, and a clean page of code objects, has no reference to a younger
\* generation and no word is left with an old address: the bits that a scan
\* computes are never too few, for any number of pages, cards and objects.
THEOREM NoneYoungerInCleanCards ==
  ASSUME CardAssumptions, BitsKept PROVE CardSpec => []CardInvariant
<1>1. CardInit => CardInvariant
  BY CardInitHolds
<1>2. CardInvariant /\ [CardNext]_cardVars => CardInvariant'
  <2> SUFFICES ASSUME CardInvariant, [CardNext]_cardVars PROVE CardInvariant'
    OBVIOUS
  <2>1. CASE \E p \in OldPage, w \in Places, o \in Referent : w \in Place(p) /\ Store(p, w, o)
    BY <2>1, StoreKeeps
  <2>2. CASE \E o \in Referent : Renew(o)
    BY <2>2, RenewKeeps
  <2>3. CASE \E g \in Generation : CollectGeneration(g)
    BY <2>3, CollectKeeps
  <2>4. CASE UNCHANGED cardVars
    BY <2>4 DEF cardVars, CardInvariant, CardTypes, OlderByMoves, NeverDangles,
                CleanCardsHaveNoYounger, CleanPagesHaveNoYounger, IsYounger
  <2> QED BY <2>1, <2>2, <2>3, <2>4 DEF CardNext
<1> QED BY <1>1, <1>2, PTL DEF CardSpec

-----------------------------------------------------------------------------
(* Pages: segments and vectors.                                            *)

\* A page is not before the first page of its segment, nor after the end.
LEMMA SegmentIs ==
  ASSUME PageAssumptions, NEW p \in Nat
  PROVE  /\ SegmentStart(p) \in Nat /\ SegmentStart(p) <= p
         /\ SegmentEnd(p) \in Nat /\ SegmentEnd(p) >= p
<1> DEFINE n == SegmentPages
<1>1. n \in Nat \ {0}
  BY DEF PageAssumptions
<1>2. ASSUME NEW m \in Nat
      PROVE  /\ m \div n \in Nat /\ (m \div n) * n \in Nat
             /\ (m \div n) * n <= m /\ m < (m \div n) * n + n
  <2>1. PICK q : q = m \div n
    OBVIOUS
  <2>2. q \in Nat /\ q * n <= m /\ m < q * n + n
    BY <1>1, <2>1
  <2>3. q * n \in Nat
    BY <1>1, <2>2
  <2> QED BY <2>1, <2>2, <2>3
<1> HIDE DEF n
<1>3. SegmentStart(p) \in Nat /\ SegmentStart(p) <= p
  BY <1>2 DEF SegmentStart, n
<1>4. p + n - 1 \in Nat
  BY <1>1
<1>5. PICK e : e = ((p + n - 1) \div n) * n
  OBVIOUS
<1>6. e \in Nat /\ p + n - 1 < e + n
  BY <1>2, <1>4, <1>5
<1>7. SegmentEnd(p) = e
  BY <1>5 DEF SegmentEnd, SegmentStart, n
<1> QED BY <1>1, <1>3, <1>6, <1>7

LEMMA FilledIs ==
  ASSUME NEW S, NEW x \in S, NEW n \in Nat
  PROVE  /\ Filled(x, n) \in Seq(S) /\ Len(Filled(x, n)) = n
         /\ \A i \in 1 .. n : Filled(x, n)[i] = x
<1>1. Filled(x, n) \in [1 .. n -> S]
  BY DEF Filled
<1>2. Filled(x, n) \in Seq(S)
  BY <1>1, SeqDef
<1>3. DOMAIN Filled(x, n) = 1 .. Len(Filled(x, n)) /\ Len(Filled(x, n)) \in Nat
  BY <1>2, LenProperties
<1>4. DOMAIN Filled(x, n) = 1 .. n
  BY DEF Filled
<1>5. PICK m : m = Len(Filled(x, n))
  OBVIOUS
<1>6. m \in Nat /\ 1 .. m = 1 .. n
  BY <1>3, <1>4, <1>5
<1>7. m = n
  <2>1. m < n => n \in 1 .. n /\ n \notin 1 .. m
    BY <1>6
  <2>2. n < m => m \in 1 .. m /\ m \notin 1 .. n
    BY <1>6
  <2> QED BY <1>6, <2>1, <2>2
<1> QED BY <1>2, <1>5, <1>7 DEF Filled

\* The slots of a vector that is extended.
LEMMA ExtendedIs ==
  ASSUME NEW S, NEW vec \in Seq(S), NEW x \in S, NEW low \in Nat, NEW high \in Nat,
         NEW v, v = Extended(vec, low, high, x)
  PROVE  /\ v \in Seq(S) /\ Len(v) = low + Len(vec) + high
         /\ \A i \in 1 .. Len(v) : v[i] = IF i - low \in 1 .. Len(vec) THEN vec[i - low] ELSE x
<1> DEFINE a == Filled(x, low)
           b == a \o vec
           c == Filled(x, high)
           e == b \o c
<1>1. /\ a \in Seq(S) /\ Len(a) = low /\ \A i \in 1 .. low : a[i] = x
      /\ c \in Seq(S) /\ Len(c) = high /\ \A i \in 1 .. high : c[i] = x
  BY FilledIs
<1>2. Len(vec) \in Nat
  BY LenProperties
<1> HIDE DEF a, c
<1>3. /\ b \in Seq(S) /\ Len(b) = low + Len(vec)
      /\ \A i \in 1 .. low + Len(vec) : b[i] = IF i <= low THEN a[i] ELSE vec[i - low]
  BY <1>1, ConcatProperties
<1> HIDE DEF b
<1>4. /\ e \in Seq(S) /\ Len(e) = low + Len(vec) + high
      /\ \A i \in 1 .. low + Len(vec) + high :
           e[i] = IF i <= low + Len(vec) THEN b[i] ELSE c[i - (low + Len(vec))]
  <2>1. low + Len(vec) + high = Len(b) + Len(c)
    BY <1>1, <1>2, <1>3
  <2>2. /\ e \in Seq(S) /\ Len(e) = Len(b) + Len(c)
        /\ \A i \in 1 .. Len(b) + Len(c) : e[i] = IF i <= Len(b) THEN b[i] ELSE c[i - Len(b)]
    BY <1>1, <1>3, ConcatProperties, ZenonT(60)
  <2> QED BY <1>3, <2>1, <2>2
<1> HIDE DEF e
<1>5. ASSUME NEW i \in 1 .. low + Len(vec) + high
      PROVE  e[i] = IF i - low \in 1 .. Len(vec) THEN vec[i - low] ELSE x
  <2>1. CASE i <= low
    <3>1. i \in 1 .. low /\ i \in 1 .. low + Len(vec) /\ i <= low + Len(vec)
          /\ i - low \notin 1 .. Len(vec)
      BY <1>2, <2>1
    <3> QED BY <1>1, <1>3, <1>4, <2>1, <3>1
  <2>2. CASE i > low /\ i <= low + Len(vec)
    <3>1. i \in 1 .. low + Len(vec) /\ ~ i <= low /\ i - low \in 1 .. Len(vec)
      BY <1>2, <2>2
    <3> QED BY <1>3, <1>4, <2>2, <3>1
  <2>3. CASE i > low + Len(vec)
    <3>1. /\ ~ i <= low + Len(vec) /\ i - low \notin 1 .. Len(vec)
          /\ i - (low + Len(vec)) \in 1 .. high
      BY <1>2, <2>3
    <3> QED BY <1>1, <1>4, <3>1
  <2> QED BY <1>2, <2>1, <2>2, <2>3
<1>6. v = e
  BY DEF Extended, e, b, a, c
<1> QED BY <1>4, <1>5, <1>6

\* A vector with the slots of a block set.
LEMMA TypedIs ==
  ASSUME NEW S, NEW vec \in Seq(S), NEW t \in S, NEW base, NEW len, NEW lo
  PROVE  LET v == Typed(vec, base, len, t, lo)
         IN  /\ v \in Seq(S) /\ Len(v) = Len(vec)
             /\ \A i \in 1 .. Len(vec) :
                  v[i] = IF i + lo - 1 \in Block(base, len) THEN t ELSE vec[i]
<1>1. Len(vec) \in Nat /\ DOMAIN vec = 1 .. Len(vec) /\ vec \in [1 .. Len(vec) -> S]
  BY LenProperties
<1>2. Typed(vec, base, len, t, lo) \in [1 .. Len(vec) -> S]
  BY <1>1 DEF Typed
<1>3. Typed(vec, base, len, t, lo) \in Seq(S)
  BY <1>1, <1>2, SeqDef
<1>4. Len(Typed(vec, base, len, t, lo)) = Len(vec)
  BY <1>1, <1>2, <1>3, LenProperties
<1> QED BY <1>1, <1>3, <1>4 DEF Typed

-----------------------------------------------------------------------------
(* Pages: the pages of some types.                                         *)

\* The pages whose slot, in a vector of the pages from lo, has a type of T.
PagesOf(vec, lo, T) == {p \in lo .. lo + Len(vec) - 1 : vec[p - lo + 1] \in T}

\* The vectors grow at both ends without changing what is in use.
LEMMA ExtendedPages ==
  ASSUME NEW vec \in Seq(Types), NEW T, "HOLE" \notin T, NEW lo \in Nat, NEW low \in Nat,
         NEW high \in Nat, NEW v, v = Extended(vec, low, high, "HOLE")
  PROVE  PagesOf(v, lo, T) = PagesOf(vec, lo + low, T)
<1>1. "HOLE" \in Types
  BY DEF Types
<1>2. /\ Len(v) = low + Len(vec) + high
      /\ \A i \in 1 .. Len(v) :
           v[i] = IF i - low \in 1 .. Len(vec) THEN vec[i - low] ELSE "HOLE"
  BY <1>1, ExtendedIs
<1>3. Len(vec) \in Nat
  BY LenProperties
<1>4. ASSUME NEW p \in Int
      PROVE  p \in PagesOf(v, lo, T) <=> p \in PagesOf(vec, lo + low, T)
  <2>1. p \in lo .. lo + Len(v) - 1 <=> p - lo + 1 \in 1 .. Len(v)
    BY <1>2, <1>3
  <2>2. /\ p - (lo + low) + 1 = p - lo + 1 - low
        /\ p \in lo + low .. lo + low + Len(vec) - 1 <=> p - (lo + low) + 1 \in 1 .. Len(vec)
        /\ p - (lo + low) + 1 \in 1 .. Len(vec) => p - lo + 1 \in 1 .. Len(v)
    BY <1>2, <1>3
  <2> QED BY <1>2, <2>1, <2>2 DEF PagesOf
<1>5. PagesOf(v, lo, T) \subseteq Int /\ PagesOf(vec, lo + low, T) \subseteq Int
  BY DEF PagesOf
<1> QED BY <1>4, <1>5

Within(B, vec, lo) == B \subseteq lo .. lo + Len(vec) - 1

Those(B, type, T) == {p \in B : type[p] \in T}

\* v is vec with the slots of the pages of B set to their type.
Retyped(v, vec, lo, B, type) ==
  \A i \in 1 .. Len(vec) : v[i] = IF i + lo - 1 \in B THEN type[i + lo - 1] ELSE vec[i]

\* What a block that is within the vector is made of changes with its slots.
LEMMA TypedPages ==
  ASSUME NEW vec \in Seq(Types), NEW v \in Seq(Types), Len(v) = Len(vec),
         NEW lo \in Nat, NEW B, Within(B, vec, lo), NEW type,
         Retyped(v, vec, lo, B, type)
  PROVE  \A T : PagesOf(v, lo, T) = (PagesOf(vec, lo, T) \ B) \cup Those(B, type, T)
<1> TAKE T
<1>4. Len(vec) \in Nat
  BY LenProperties
<1>5. ASSUME NEW p \in Int
      PROVE  p \in PagesOf(v, lo, T)
               <=> p \in (PagesOf(vec, lo, T) \ B) \cup Those(B, type, T)
  <2>1. /\ p \in lo .. lo + Len(vec) - 1 <=> p - lo + 1 \in 1 .. Len(vec)
        /\ p - lo + 1 + lo - 1 = p
    BY <1>4
  <2> QED BY <2>1 DEF PagesOf, Retyped, Those, Within
<1>6. PagesOf(v, lo, T) \subseteq Int /\ PagesOf(vec, lo, T) \subseteq Int /\ B \subseteq Int
  BY DEF PagesOf, Within
<1> QED BY <1>5, <1>6 DEF Those, Within

Dirt == {"pure", "dirty"}

\* No slot of a page that is not in use is dirty.
Pure(vec, dirt) == \A i \in 1 .. Len(vec) : vec[i] = "HOLE" => dirt[i] = "pure"

\* New slots are pure.
LEMMA ExtendedPure ==
  ASSUME NEW vec \in Seq(Types), NEW dirt \in Seq(Dirt), Len(dirt) = Len(vec),
         NEW low \in Nat, NEW high \in Nat, Pure(vec, dirt),
         NEW v, v = Extended(vec, low, high, "HOLE"),
         NEW d, d = Extended(dirt, low, high, "pure")
  PROVE  Pure(v, d) /\ Len(v) = low + Len(vec) + high /\ Len(v) = Len(d) /\ d \in Seq(Dirt) /\ v \in Seq(Types)
<1>1. "HOLE" \in Types
  BY DEF Types
<1>2. /\ v \in Seq(Types) /\ Len(v) = low + Len(vec) + high
      /\ \A i \in 1 .. Len(v) :
           v[i] = IF i - low \in 1 .. Len(vec) THEN vec[i - low] ELSE "HOLE"
  BY <1>1, ExtendedIs
<1>4. "pure" \in Dirt
  BY DEF Dirt
<1>5. /\ d \in Seq(Dirt) /\ Len(d) = low + Len(dirt) + high
      /\ \A i \in 1 .. Len(d) :
           d[i] = IF i - low \in 1 .. Len(dirt) THEN dirt[i - low] ELSE "pure"
  BY <1>4, ExtendedIs
<1>6. ASSUME NEW i \in 1 .. Len(v), v[i] = "HOLE"
      PROVE  d[i] = "pure"
  BY <1>2, <1>5, <1>6 DEF Pure
<1> QED BY <1>2, <1>5, <1>6 DEF Pure

-----------------------------------------------------------------------------
(* Pages: the invariant by vectors.                                        *)

InUse == Types \ {"HOLE"}

\* The type of a page that a vector of the pages from lo shows.
TypeIn(vec, lo, p) == IF p - lo + 1 \in DOMAIN vec THEN vec[p - lo + 1] ELSE "HOLE"

LEMMA TypesInVectors ==
  ASSUME NEW lo \in Nat, NEW hi \in Nat, NEW vec \in Seq(Types), Len(vec) = hi - lo,
         NEW dirt
  PROVE  /\ {p \in lo .. hi - 1 : TypeIn(vec, lo, p) # "HOLE"} = PagesOf(vec, lo, InUse)
         /\ \A T : "HOLE" \notin T =>
              \A p \in Int : TypeIn(vec, lo, p) \in T <=> p \in PagesOf(vec, lo, T)
         /\ (\A i \in DOMAIN vec : vec[i] = "HOLE" => dirt[i] = "pure") <=> Pure(vec, dirt)
<1>2. DOMAIN vec = 1 .. Len(vec)
  BY LenProperties
<1>3. ASSUME NEW p \in Int
      PROVE  /\ p \in lo .. hi - 1 <=> p \in lo .. lo + Len(vec) - 1
             /\ p \in lo .. hi - 1 <=> p - lo + 1 \in 1 .. Len(vec)
  OBVIOUS
<1>4. ASSUME NEW p \in Int, p \in lo .. hi - 1
      PROVE  TypeIn(vec, lo, p) = vec[p - lo + 1] /\ TypeIn(vec, lo, p) \in Types
  <2>1. p - lo + 1 \in 1 .. Len(vec)
    BY <1>3, <1>4
  <2>2. vec[p - lo + 1] \in Types
    BY <2>1, ElementOfSeq
  <2> QED BY <1>2, <2>1, <2>2 DEF TypeIn
<1>5. ASSUME NEW p \in Int, p \notin lo .. hi - 1
      PROVE  TypeIn(vec, lo, p) = "HOLE"
  BY <1>2, <1>3, <1>5 DEF TypeIn
<1>6. lo .. hi - 1 = lo .. lo + Len(vec) - 1 /\ lo .. hi - 1 \subseteq Int
  OBVIOUS
<1>7. {p \in lo .. hi - 1 : TypeIn(vec, lo, p) # "HOLE"} = PagesOf(vec, lo, InUse)
  <2>2. ASSUME NEW p \in lo .. hi - 1
        PROVE  TypeIn(vec, lo, p) # "HOLE" <=> vec[p - lo + 1] \in InUse
    BY <1>4, <1>6 DEF InUse
  <2> QED BY <1>6, <2>2 DEF PagesOf
<1>8. ASSUME NEW T, "HOLE" \notin T, NEW p \in Int
      PROVE  TypeIn(vec, lo, p) \in T <=> p \in PagesOf(vec, lo, T)
  BY <1>4, <1>5, <1>6, <1>8 DEF PagesOf
<1>9. (\A i \in DOMAIN vec : vec[i] = "HOLE" => dirt[i] = "pure") <=> Pure(vec, dirt)
  BY <1>2 DEF Pure
<1> QED BY <1>7, <1>8, <1>9

\* Every page of m is in use or in the cache, once.
Owned(m, used, cache) ==
  m = used \cup ToSet(cache) /\ used \cap ToSet(cache) = {} /\ IsInjective(cache)

\* The invariant, of the values of the variables.
Held(m, lo, vec, dirt, cache, run) ==
  /\ Pure(vec, dirt)
  /\ run => /\ Owned(m, PagesOf(vec, lo, InUse), cache)
            /\ PagesOf(vec, lo, {"MAINSTACK"}) # {}
  /\ ~run => m = {}

LEMMA HeldIs ==
  PageTypes => (PageInvariant
    <=> Held(mapped, memory_base, segment_vector, dirty_vector, cached_pages, running))
<1> SUFFICES ASSUME PageTypes
             PROVE  PageInvariant <=> Held(mapped, memory_base, segment_vector, dirty_vector,
                                           cached_pages, running)
  OBVIOUS
<1>1. /\ memory_base \in Nat /\ memory_end \in Nat
      /\ segment_vector \in Seq(Types) /\ Len(segment_vector) = memory_end - memory_base
  BY DEF PageTypes
<1>2. \A p \in Int : TypeOf(p) = TypeIn(segment_vector, memory_base, p)
  BY DEF TypeOf, Slot, TypeIn
<1>3. memory_base .. memory_end - 1 \subseteq Int
  BY <1>1
<1>4. {p \in memory_base .. memory_end - 1 : TypeOf(p) # "HOLE"}
        = PagesOf(segment_vector, memory_base, InUse)
  BY <1>1, <1>2, <1>3, TypesInVectors
<1>5. HolesArePure <=> Pure(segment_vector, dirty_vector)
  BY <1>1, TypesInVectors DEF HolesArePure
<1>6. (\E p \in memory_base .. memory_end - 1 : TypeOf(p) = "MAINSTACK")
        <=> PagesOf(segment_vector, memory_base, {"MAINSTACK"}) # {}
  <2>1. \A p \in Int : TypeOf(p) \in {"MAINSTACK"}
                         <=> p \in PagesOf(segment_vector, memory_base, {"MAINSTACK"})
    BY <1>1, <1>2, TypesInVectors
  <2>2. PagesOf(segment_vector, memory_base, {"MAINSTACK"}) \subseteq memory_base .. memory_end - 1
    BY <1>1 DEF PagesOf
  <2> QED BY <1>3, <2>1, <2>2
<1>7. EveryPageHasOneOwner
        <=> (running => Owned(mapped, PagesOf(segment_vector, memory_base, InUse), cached_pages))
  BY <1>4 DEF EveryPageHasOneOwner, Owned
<1> QED BY <1>5, <1>6, <1>7 DEF PageInvariant, NothingLeaks, StackIsKept, Held

LEMMA HeldNext ==
  PageTypes' => (PageInvariant'
    <=> Held(mapped', memory_base', segment_vector', dirty_vector', cached_pages', running'))
<1> SUFFICES ASSUME PageTypes'
             PROVE  PageInvariant' <=> Held(mapped', memory_base', segment_vector', dirty_vector',
                                            cached_pages', running')
  OBVIOUS
<1>1. /\ memory_base' \in Nat /\ memory_end' \in Nat
      /\ segment_vector' \in Seq(Types) /\ Len(segment_vector') = memory_end' - memory_base'
  BY DEF PageTypes
<1>2. \A p \in Int : TypeOf(p)' = TypeIn(segment_vector', memory_base', p)
  BY DEF TypeOf, Slot, TypeIn
<1>3. memory_base' .. memory_end' - 1 \subseteq Int
  BY <1>1
<1>4. {p \in memory_base' .. memory_end' - 1 : TypeOf(p)' # "HOLE"}
        = PagesOf(segment_vector', memory_base', InUse)
  BY <1>1, <1>2, <1>3, TypesInVectors
<1>5. HolesArePure' <=> Pure(segment_vector', dirty_vector')
  BY <1>1, TypesInVectors DEF HolesArePure
<1>6. (\E p \in memory_base' .. memory_end' - 1 : TypeOf(p)' = "MAINSTACK")
        <=> PagesOf(segment_vector', memory_base', {"MAINSTACK"}) # {}
  <2>1. \A p \in Int : TypeOf(p)' \in {"MAINSTACK"}
                         <=> p \in PagesOf(segment_vector', memory_base', {"MAINSTACK"})
    BY <1>1, <1>2, TypesInVectors
  <2>2. PagesOf(segment_vector', memory_base', {"MAINSTACK"})
          \subseteq memory_base' .. memory_end' - 1
    BY <1>1 DEF PagesOf
  <2> QED BY <1>3, <2>1, <2>2
<1>7. EveryPageHasOneOwner'
        <=> (running' => Owned(mapped', PagesOf(segment_vector', memory_base', InUse), cached_pages'))
  BY <1>4 DEF EveryPageHasOneOwner, Owned
<1> QED BY <1>5, <1>6, <1>7 DEF PageInvariant, NothingLeaks, StackIsKept, Held

\* A block that the system maps is added to the vectors, which grow to hold
\* it; every other page keeps its type.
LEMMA TrackIs ==
  ASSUME PageAssumptions, PageTypes, NEW svec \in Seq(Types),
         Len(svec) = memory_end - memory_base, Pure(svec, dirty_vector),
         NEW base \in Nat, NEW len \in Nat \ {0}, NEW type,
         \A p \in Block(base, len) : type[p] \in InUse, Track(svec, base, len, type),
         base < memory_base => base + len <= memory_end
  PROVE  /\ memory_base' \in Nat /\ memory_end' \in Nat
         /\ segment_vector' \in Seq(Types) /\ Len(segment_vector') = memory_end' - memory_base'
         /\ dirty_vector' \in Seq(Dirt) /\ Len(dirty_vector') = Len(segment_vector')
         /\ \A T : "HOLE" \notin T =>
              PagesOf(segment_vector', memory_base', T)
                = (PagesOf(svec, memory_base, T) \ Block(base, len))
                    \cup Those(Block(base, len), type, T)
         /\ Pure(segment_vector', dirty_vector')
<1> DEFINE B == Block(base, len)
<1>1. /\ memory_base \in Nat /\ memory_end \in Nat
      /\ svec \in Seq(Types) /\ Len(svec) = memory_end - memory_base
      /\ dirty_vector \in Seq(Dirt) /\ Len(dirty_vector) = Len(svec)
      /\ Len(svec) \in Nat
  BY LenProperties DEF PageTypes, Dirt
<1>2. PICK lo : lo = IF base < memory_base THEN SegmentStart(base) ELSE memory_base
  OBVIOUS
<1>3. PICK hi : hi = IF base >= memory_base /\ base + len >= memory_end
                     THEN SegmentEnd(base + len) ELSE memory_end
  OBVIOUS
<1>4. /\ lo \in Nat /\ lo <= memory_base /\ lo <= base
      /\ hi \in Nat /\ hi >= memory_end /\ hi >= base + len
  <2>1. base + len \in Nat
    OBVIOUS
  <2>2. /\ SegmentStart(base) \in Nat /\ SegmentStart(base) <= base
        /\ SegmentEnd(base + len) \in Nat /\ SegmentEnd(base + len) >= base + len
    BY <2>1, SegmentIs
  <2> QED BY <1>1, <1>2, <1>3, <2>1, <2>2
<1>5. PICK low \in Nat : low = memory_base - lo /\ memory_base = lo + low
  BY <1>1, <1>4
<1>6. PICK high \in Nat : high = hi - memory_end /\ hi = memory_end + high
  BY <1>1, <1>4
<1>7. PICK vec : vec = Extended(svec, low, high, "HOLE")
  OBVIOUS
<1>8. PICK dirt : dirt = Extended(dirty_vector, low, high, "pure")
  OBVIOUS
<1>9. /\ memory_base' = lo /\ memory_end' = hi /\ dirty_vector' = dirt
      /\ segment_vector' = [i \in DOMAIN vec |-> IF i + lo - 1 \in B THEN type[i + lo - 1]
                                                                    ELSE vec[i]]
  BY <1>2, <1>3, <1>5, <1>6, <1>7, <1>8, Zenon DEF Track
<1>10. Pure(svec, dirty_vector)
  OBVIOUS
<1>11. /\ Pure(vec, dirt) /\ Len(dirt) = Len(vec)
       /\ Len(vec) = low + Len(svec) + high
       /\ dirt \in Seq(Dirt) /\ vec \in Seq(Types)
  <2>1. /\ svec \in Seq(Types) /\ dirty_vector \in Seq(Dirt)
        /\ Len(dirty_vector) = Len(svec)
    BY <1>1
  <2> QED BY <2>1, <1>7, <1>8, <1>10, ExtendedPure
<1>12. Len(vec) = hi - lo /\ Len(vec) \in Nat /\ DOMAIN vec = 1 .. Len(vec)
  <2>3. Len(vec) = hi - lo
    BY <1>1, <1>4, <1>5, <1>6, <1>11
  <2> QED BY <1>11, <2>3, LenProperties
<1>13. \A T : "HOLE" \notin T =>
         PagesOf(vec, lo, T) = PagesOf(svec, memory_base, T)
  BY <1>1, <1>4, <1>5, <1>7, ExtendedPages
<1>14. PICK v : v = segment_vector'
  OBVIOUS
<1>15. v \in Seq(Types) /\ Len(v) = Len(vec)
  <2>1. \A i \in 1 .. Len(vec) : vec[i] \in Types
    BY <1>11, ElementOfSeq
  <2>2. v = [i \in 1 .. Len(vec) |-> IF i + lo - 1 \in B THEN type[i + lo - 1] ELSE vec[i]]
    BY <1>9, <1>12, <1>14
  <2>3. v \in [1 .. Len(vec) -> Types]
    BY <2>1, <2>2 DEF InUse
  <2>4. v \in Seq(Types) /\ DOMAIN v = 1 .. Len(vec)
    BY <1>12, <2>3, SeqDef
  <2> QED BY <1>12, <2>4, LenProperties
<1>16. Retyped(v, vec, lo, B, type)
  BY <1>9, <1>12, <1>14 DEF Retyped
<1>17. Within(B, vec, lo)
  BY <1>4, <1>12 DEF Block, Within
<1>20. \A T : PagesOf(v, lo, T) = (PagesOf(vec, lo, T) \ B) \cup Those(B, type, T)
  <2>1. vec \in Seq(Types) /\ v \in Seq(Types) /\ Len(v) = Len(vec) /\ lo \in Nat
    BY <1>4, <1>11, <1>15
  <2> HIDE DEF B
  <2> QED BY <2>1, <1>16, <1>17, TypedPages
<1>18. ASSUME NEW T, "HOLE" \notin T
       PROVE  PagesOf(v, lo, T) = (PagesOf(svec, memory_base, T) \ B)
                                     \cup Those(B, type, T)
  BY <1>13, <1>18, <1>20
<1>19. Pure(v, dirt)
  BY <1>11, <1>15, <1>16 DEF Pure, InUse, Retyped
<1> QED BY <1>4, <1>9, <1>11, <1>12, <1>14, <1>15, <1>18, <1>19

\* Slots of a block that are set to one type.
LEMMA BlockTyped ==
  ASSUME NEW vec \in Seq(Types), NEW t \in Types, NEW lo \in Nat, NEW base \in Nat,
         NEW len \in Nat, NEW v, v = Typed(vec, base, len, t, lo)
  PROVE  /\ v \in Seq(Types) /\ Len(v) = Len(vec)
         /\ \A T : t \notin T => PagesOf(v, lo, T) = PagesOf(vec, lo, T) \ Block(base, len)
         /\ Within(Block(base, len), vec, lo) =>
              \A T : t \in T => PagesOf(v, lo, T) = PagesOf(vec, lo, T) \cup Block(base, len)
<1>1. /\ v \in Seq(Types) /\ Len(v) = Len(vec)
      /\ \A i \in 1 .. Len(vec) :
           v[i] = IF i + lo - 1 \in Block(base, len) THEN t ELSE vec[i]
  BY TypedIs
<1>2. Len(vec) \in Nat
  BY LenProperties
<1>3. ASSUME NEW p \in Int
      PROVE  /\ p \in lo .. lo + Len(vec) - 1 <=> p - lo + 1 \in 1 .. Len(vec)
             /\ p - lo + 1 + lo - 1 = p
  BY <1>2
<1>4. ASSUME NEW T, t \notin T
      PROVE  PagesOf(v, lo, T) = PagesOf(vec, lo, T) \ Block(base, len)
  <2>1. ASSUME NEW p \in Int
        PROVE  p \in PagesOf(v, lo, T) <=> p \in PagesOf(vec, lo, T) \ Block(base, len)
    BY <1>1, <1>3, <1>4 DEF PagesOf
  <2>2. PagesOf(v, lo, T) \subseteq Int /\ PagesOf(vec, lo, T) \subseteq Int
    BY DEF PagesOf
  <2> QED BY <2>1, <2>2
<1>5. ASSUME Within(Block(base, len), vec, lo), NEW T, t \in T
      PROVE  PagesOf(v, lo, T) = PagesOf(vec, lo, T) \cup Block(base, len)
  <2>1. ASSUME NEW p \in Int
        PROVE  p \in PagesOf(v, lo, T) <=> p \in PagesOf(vec, lo, T) \cup Block(base, len)
    BY <1>1, <1>3, <1>5 DEF PagesOf, Within
  <2>2. PagesOf(v, lo, T) \subseteq Int /\ PagesOf(vec, lo, T) \subseteq Int
        /\ Block(base, len) \subseteq Int
    BY DEF PagesOf, Block
  <2> QED BY <2>1, <2>2
<1> QED BY <1>1, <1>4, <1>5

\* The slots of a block that is released.
LEMMA BlockReleased ==
  ASSUME NEW vec \in Seq(Types), NEW dirt \in Seq(Dirt), Len(dirt) = Len(vec), Pure(vec, dirt),
         NEW lo \in Nat, NEW base \in Nat, NEW len \in Nat,
         NEW v, v = Typed(vec, base, len, "HOLE", lo),
         NEW d, d = Typed(dirt, base, len, "pure", lo)
  PROVE  /\ v \in Seq(Types) /\ Len(v) = Len(vec)
         /\ d \in Seq(Dirt) /\ Len(d) = Len(vec) /\ Pure(v, d)
         /\ \A T : "HOLE" \notin T => PagesOf(v, lo, T) = PagesOf(vec, lo, T) \ Block(base, len)
<1>1. "HOLE" \in Types /\ "pure" \in Dirt
  BY DEF Types, Dirt
<1>2. /\ v \in Seq(Types) /\ Len(v) = Len(vec)
      /\ \A i \in 1 .. Len(vec) :
           v[i] = IF i + lo - 1 \in Block(base, len) THEN "HOLE" ELSE vec[i]
  BY <1>1, TypedIs
<1>3. /\ d \in Seq(Dirt) /\ Len(d) = Len(dirt)
      /\ \A i \in 1 .. Len(dirt) :
           d[i] = IF i + lo - 1 \in Block(base, len) THEN "pure" ELSE dirt[i]
  BY <1>1, TypedIs
<1>4. Pure(v, d)
  BY <1>2, <1>3 DEF Pure
<1>5. \A T : "HOLE" \notin T => PagesOf(v, lo, T) = PagesOf(vec, lo, T) \ Block(base, len)
  BY <1>1, BlockTyped
<1> QED BY <1>2, <1>3, <1>4, <1>5

-----------------------------------------------------------------------------
(* Pages: the cache.                                                       *)

\* The pages of a block as they are put in the cache, the last one first.
LEMMA ListedIs ==
  ASSUME NEW base \in Nat, NEW n \in Nat, NEW r, r = [i \in 1 .. n |-> base + n - i]
  PROVE  /\ r \in Seq(Nat) /\ Len(r) = n /\ DOMAIN r = 1 .. n
         /\ ToSet(r) = Block(base, n) /\ IsInjective(r)
<1>1. r \in Seq(Nat) /\ DOMAIN r = 1 .. n
  <2>1. r \in [1 .. n -> Nat]
    OBVIOUS
  <2> QED BY <2>1, SeqDef
<1>2. Len(r) = n
  <2>1. PICK m : m = Len(r)
    OBVIOUS
  <2>2. m \in Nat /\ 1 .. m = 1 .. n
    BY <1>1, <2>1, LenProperties
  <2>3. m = n
    <3>1. m < n => n \in 1 .. n /\ n \notin 1 .. m
      BY <2>2
    <3>2. n < m => m \in 1 .. m /\ m \notin 1 .. n
      BY <2>2
    <3> QED BY <2>2, <3>1, <3>2
  <2> QED BY <2>1, <2>3
<1>3. ASSUME NEW p \in Block(base, n)
      PROVE  \E i \in 1 .. n : r[i] = p
  <2>1. base + n - p \in 1 .. n /\ base + n - (base + n - p) = p
    BY DEF Block
  <2> QED BY <2>1
<1>4. \A i \in 1 .. n : r[i] \in Block(base, n)
  BY DEF Block
<1>5. IsInjective(r)
  BY <1>1 DEF IsInjective
<1> QED BY <1>1, <1>2, <1>3, <1>4, <1>5 DEF ToSet

\* Putting one list before another that has nothing in common.
LEMMA JoinedIs ==
  ASSUME NEW S, NEW r \in Seq(S), NEW c \in Seq(S), IsInjective(r), IsInjective(c),
         ToSet(r) \cap ToSet(c) = {}
  PROVE  /\ r \o c \in Seq(S) /\ Len(r \o c) = Len(r) + Len(c)
         /\ ToSet(r \o c) = ToSet(r) \cup ToSet(c) /\ IsInjective(r \o c)
<1>1. /\ Len(r) \in Nat /\ DOMAIN r = 1 .. Len(r)
      /\ Len(c) \in Nat /\ DOMAIN c = 1 .. Len(c)
  BY LenProperties
<1> PICK j : j = r \o c
  OBVIOUS
<1>2. /\ j \in Seq(S) /\ Len(j) = Len(r) + Len(c)
      /\ \A i \in 1 .. Len(r) + Len(c) : j[i] = IF i <= Len(r) THEN r[i] ELSE c[i - Len(r)]
  BY ConcatProperties
<1>3. DOMAIN j = 1 .. Len(r) + Len(c)
  BY <1>2, LenProperties
<1>4. ASSUME NEW i \in 1 .. Len(r)
      PROVE  i \in DOMAIN j /\ j[i] = r[i]
  BY <1>1, <1>2, <1>3
<1>5. ASSUME NEW i \in 1 .. Len(c)
      PROVE  i + Len(r) \in DOMAIN j /\ j[i + Len(r)] = c[i]
  BY <1>1, <1>2, <1>3
<1>6. ASSUME NEW i \in DOMAIN j
      PROVE  \/ i \in 1 .. Len(r) /\ j[i] = r[i]
             \/ i - Len(r) \in 1 .. Len(c) /\ j[i] = c[i - Len(r)]
  BY <1>1, <1>2, <1>3
<1>7. ToSet(j) = ToSet(r) \cup ToSet(c)
  <2>1. \A x : /\ x \in ToSet(j) <=> \E i \in DOMAIN j : j[i] = x
               /\ x \in ToSet(r) <=> \E i \in DOMAIN r : r[i] = x
               /\ x \in ToSet(c) <=> \E i \in DOMAIN c : c[i] = x
    BY DEF ToSet
  <2>2. \A x : x \in ToSet(j) => x \in ToSet(r) \/ x \in ToSet(c)
    BY <1>1, <1>6, <2>1
  <2>3. \A x : x \in ToSet(r) => x \in ToSet(j)
    BY <1>1, <1>4, <2>1
  <2>4. ASSUME NEW x \in ToSet(c)
        PROVE  x \in ToSet(j)
    <3>1. PICK i \in 1 .. Len(c) : c[i] = x
      BY <1>1, <2>1
    <3>2. PICK k : k = i + Len(r)
      OBVIOUS
    <3>3. k \in DOMAIN j /\ j[k] = x
      BY <1>5, <3>1, <3>2
    <3> QED BY <2>1, <3>3
  <2> QED BY <2>2, <2>3, <2>4
<1>8. ASSUME NEW a \in DOMAIN j, NEW b \in DOMAIN j, j[a] = j[b]
      PROVE  a = b
  <2>1. CASE a \in 1 .. Len(r) /\ b \in 1 .. Len(r) /\ j[a] = r[a] /\ j[b] = r[b]
    BY <1>1, <1>8, <2>1 DEF IsInjective
  <2>2. CASE /\ a - Len(r) \in 1 .. Len(c) /\ j[a] = c[a - Len(r)]
             /\ b - Len(r) \in 1 .. Len(c) /\ j[b] = c[b - Len(r)]
    <3>1. a - Len(r) = b - Len(r)
      BY <1>1, <1>8, <2>2 DEF IsInjective
    <3>2. a \in Int /\ b \in Int
      BY <1>3
    <3> QED BY <1>1, <3>1, <3>2
  <2>3. ASSUME NEW u \in 1 .. Len(r), NEW w \in 1 .. Len(c), r[u] = c[w]
        PROVE  FALSE
    BY <1>1, <2>3 DEF ToSet
  <2> QED BY <1>6, <1>8, <2>1, <2>2, <2>3
<1>9. IsInjective(j)
  BY <1>8 DEF IsInjective
<1> QED BY <1>2, <1>7, <1>9

\* What is left of a list without its first element.
LEMMA TailIs ==
  ASSUME NEW S, NEW c \in Seq(S), c # <<>>, IsInjective(c)
  PROVE  /\ Tail(c) \in Seq(S) /\ Len(Tail(c)) = Len(c) - 1 /\ Head(c) \in ToSet(c)
         /\ ToSet(Tail(c)) = ToSet(c) \ {Head(c)} /\ IsInjective(Tail(c))
<1>1. Len(c) \in Nat \ {0} /\ DOMAIN c = 1 .. Len(c) /\ Head(c) = c[1]
  BY LenProperties, EmptySeq, HeadTailProperties
<1> PICK t : t = Tail(c)
  OBVIOUS
<1>2. /\ t \in Seq(S) /\ Len(t) = Len(c) - 1
      /\ \A i \in 1 .. Len(t) : t[i] = c[i + 1]
  BY HeadTailProperties
<1>3. DOMAIN t = 1 .. Len(c) - 1
  BY <1>2, LenProperties
<1>4. IsInjective(t)
  BY <1>1, <1>2, <1>3 DEF IsInjective
<1>5. ASSUME NEW i \in DOMAIN c
      PROVE  i = 1 \/ (i - 1 \in DOMAIN t /\ t[i - 1] = c[i])
  BY <1>1, <1>2, <1>3
<1>6. ASSUME NEW i \in DOMAIN t
      PROVE  i + 1 \in DOMAIN c /\ i + 1 # 1 /\ t[i] = c[i + 1]
  BY <1>1, <1>2, <1>3
<1>7. 1 \in DOMAIN c
  BY <1>1
<1>8. ASSUME NEW x
      PROVE  x \in ToSet(t) <=> x \in ToSet(c) \ {Head(c)}
  <2>1. x \in ToSet(t) <=> \E i \in DOMAIN t : t[i] = x
    BY DEF ToSet
  <2>2. x \in ToSet(c) <=> \E i \in DOMAIN c : c[i] = x
    BY DEF ToSet
  <2>3. \A i \in DOMAIN c : c[i] = c[1] => i = 1
    BY <1>7 DEF IsInjective
  <2> QED BY <1>1, <1>5, <1>6, <2>1, <2>2, <2>3, ZenonT(60)
<1>9. Head(c) \in ToSet(c)
  BY <1>1, <1>7 DEF ToSet
<1> QED BY <1>2, <1>4, <1>8, <1>9

-----------------------------------------------------------------------------
(* Pages: the invariant is inductive.                                      *)

PageValues == Held(mapped, memory_base, segment_vector, dirty_vector, cached_pages, running)

\* The first hot block and stack.
LEMMA PagesStart == ASSUME PageAssumptions, PagesInit PROVE PageInvariant
<1> DEFINE start(h, s, hs, ss, lo, hi) ==
        /\ lo = SegmentStart((IF h < s THEN h ELSE s) - 1)
        /\ hi = SegmentEnd((IF h < s THEN s + ss ELSE h + hs) + 1)
        /\ Block(h, hs) \cup Block(s, ss) \subseteq Page
        /\ Block(h, hs) \cap Block(s, ss) = {}
        /\ mapped = Block(h, hs) \cup Block(s, ss)
        /\ memory_base = lo /\ memory_end = hi
        /\ segment_vector = Typed(Typed(Filled("HOLE", hi - lo), h, hs, "MAINHEAP", lo),
                                  s, ss, "MAINSTACK", lo)
        /\ dirty_vector = Filled("pure", hi - lo)
        /\ cached_pages = <<>> /\ uncached_pages = CacheSlots
        /\ running = TRUE
<1>0. PICK h \in Page, s \in Page, hs \in BlockSizes, ss \in BlockSizes :
        \E lo, hi : start(h, s, hs, ss, lo, hi)
  BY DEF PagesInit
<1>1. PICK lo, hi : start(h, s, hs, ss, lo, hi)
  BY <1>0
<1>2. /\ h \in Nat \ {0} /\ s \in Nat \ {0} /\ hs \in Nat \ {0} /\ ss \in Nat \ {0}
      /\ CacheSlots \in Nat
  BY DEF PageAssumptions, Page
<1>3. (h < s => h + hs <= s) /\ (~ h < s => s + ss <= h)
  <2>1. h \in Block(h, hs) /\ s \in Block(s, ss)
    BY <1>2 DEF Block
  <2>2. s \notin Block(h, hs) /\ h \notin Block(s, ss)
    BY <1>1, <2>1
  <2> QED BY <1>2, <2>2 DEF Block
<1>4. /\ lo \in Nat /\ lo <= h /\ lo <= s
      /\ hi \in Nat /\ hi >= h + hs /\ hi >= s + ss
  <2>1. PICK low \in Nat, high \in Nat :
          /\ low = (IF h < s THEN h ELSE s) - 1
          /\ high = (IF h < s THEN s + ss ELSE h + hs) + 1
    BY <1>2
  <2>2. lo \in Nat /\ lo <= low /\ hi \in Nat /\ hi >= high
    BY <1>1, <2>1, SegmentIs
  <2> QED BY <1>2, <1>3, <2>1, <2>2
<1>5. PICK n \in Nat : n = hi - lo
  BY <1>2, <1>4
<1>6. "HOLE" \in Types /\ "MAINHEAP" \in Types /\ "MAINSTACK" \in Types /\ "pure" \in Dirt
  BY DEF Types, Dirt
<1>7. PICK e : e = Filled("HOLE", n)
  OBVIOUS
<1>8. PICK u : u = Typed(e, h, hs, "MAINHEAP", lo)
  OBVIOUS
<1>9. PICK v : v = Typed(u, s, ss, "MAINSTACK", lo)
  OBVIOUS
<1>10. PICK d : d = Filled("pure", n)
  OBVIOUS
<1>11. segment_vector = v /\ dirty_vector = d
  BY <1>1, <1>5, <1>7, <1>8, <1>9, <1>10
<1>12. e \in Seq(Types) /\ Len(e) = n /\ \A i \in 1 .. n : e[i] = "HOLE"
  BY <1>6, <1>7, FilledIs
<1>13. d \in Seq(Dirt) /\ Len(d) = n /\ \A i \in 1 .. n : d[i] = "pure"
  BY <1>6, <1>10, FilledIs
<1>14. /\ u \in Seq(Types) /\ Len(u) = Len(e)
       /\ \A T : "MAINHEAP" \notin T => PagesOf(u, lo, T) = PagesOf(e, lo, T) \ Block(h, hs)
       /\ Within(Block(h, hs), e, lo) =>
            \A T : "MAINHEAP" \in T => PagesOf(u, lo, T) = PagesOf(e, lo, T) \cup Block(h, hs)
  BY <1>2, <1>4, <1>6, <1>8, <1>12, BlockTyped
<1>15. /\ v \in Seq(Types) /\ Len(v) = Len(u)
       /\ \A T : "MAINSTACK" \notin T => PagesOf(v, lo, T) = PagesOf(u, lo, T) \ Block(s, ss)
       /\ Within(Block(s, ss), u, lo) =>
            \A T : "MAINSTACK" \in T => PagesOf(v, lo, T) = PagesOf(u, lo, T) \cup Block(s, ss)
  BY <1>2, <1>4, <1>6, <1>9, <1>14, BlockTyped
<1>16. Within(Block(h, hs), e, lo) /\ Within(Block(s, ss), u, lo)
  BY <1>2, <1>4, <1>5, <1>12, <1>14 DEF Within, Block
<1>17. \A T : "HOLE" \notin T => PagesOf(e, lo, T) = {}
  <2>1. ASSUME NEW T, "HOLE" \notin T, NEW p \in PagesOf(e, lo, T)
        PROVE  FALSE
    <3>1. p \in lo .. lo + n - 1 /\ e[p - lo + 1] \in T
      BY <1>12, <2>1 DEF PagesOf
    <3>2. p - lo + 1 \in 1 .. n
      BY <1>4, <3>1
    <3> QED BY <1>12, <2>1, <3>1, <3>2
  <2> QED BY <2>1
<1>18. PagesOf(v, lo, InUse) = Block(h, hs) \cup Block(s, ss)
  BY <1>14, <1>15, <1>16, <1>17 DEF InUse, Types
<1>19. PagesOf(v, lo, {"MAINSTACK"}) # {}
  <2>1. s \in Block(s, ss)
    BY <1>2 DEF Block
  <2> QED BY <1>15, <1>16, <2>1
<1>20. Pure(v, d)
  BY <1>12, <1>13, <1>14, <1>15 DEF Pure
<1>21. ToSet(cached_pages) = {} /\ IsInjective(cached_pages)
       /\ cached_pages \in Seq(Page) /\ Len(cached_pages) = 0
  <2>1. cached_pages = <<>> /\ DOMAIN cached_pages = {}
    BY <1>1
  <2>2. cached_pages \in Seq(Page) /\ Len(cached_pages) = 0
    BY <2>1
  <2> QED BY <2>1, <2>2 DEF ToSet, IsInjective
<1>22. PageTypes
  <2>1. mapped \subseteq Page /\ running \in BOOLEAN
    BY <1>1
  <2>2. /\ segment_vector \in Seq(Types) /\ Len(segment_vector) = n
        /\ dirty_vector \in Seq({"pure", "dirty"}) /\ Len(dirty_vector) = n
    BY <1>11, <1>12, <1>13, <1>14, <1>15 DEF Dirt
  <2>3. memory_base \in Nat /\ memory_end \in Nat /\ n = memory_end - memory_base
    BY <1>1, <1>4, <1>5
  <2>4. uncached_pages \in Nat /\ uncached_pages + Len(cached_pages) = CacheSlots
    BY <1>1, <1>2, <1>21
  <2> QED BY <1>21, <2>1, <2>2, <2>3, <2>4 DEF PageTypes
<1>23. Owned(mapped, PagesOf(v, lo, InUse), cached_pages)
  BY <1>1, <1>18, <1>21 DEF Owned
<1>24. PageValues
  BY <1>1, <1>11, <1>19, <1>20, <1>23 DEF PageValues, Held
<1> QED BY <1>22, <1>24, HeldIs DEF PageValues

\* A block that is mapped, fresh or from the cache, gets its one owner.
LEMMA MapKeeps ==
  ASSUME PageAssumptions, PageInvariant, NEW base \in Page, NEW len \in Nat \ {0}, NEW type,
         NEW svec \in Seq(Types), Len(svec) = Len(segment_vector), Pure(svec, dirty_vector),
         PagesOf(svec, memory_base, InUse) = PagesOf(segment_vector, memory_base, InUse),
         \/ svec = segment_vector
         \/ \A p \in Block(base, len) : type[p] = "MAINSTACK",
         \A p \in Block(base, len) : type[p] \in InUse, ik_mmap_typed(svec, base, len, type)
  PROVE  PageInvariant'
<1> DEFINE B == Block(base, len)
           used == PagesOf(segment_vector, memory_base, InUse)
           stack == PagesOf(segment_vector, memory_base, {"MAINSTACK"})
<1>1. PageTypes /\ running /\ running' = running /\ Track(svec, base, len, type)
  BY DEF ik_mmap_typed, PageInvariant
<1>2. base \in Nat /\ base \in B
  BY DEF Page, Block
<1>3. /\ mapped \subseteq Page /\ memory_base \in Nat /\ memory_end \in Nat
      /\ Len(segment_vector) = memory_end - memory_base
      /\ cached_pages \in Seq(Page) /\ uncached_pages \in Nat
      /\ uncached_pages + Len(cached_pages) = CacheSlots /\ Len(cached_pages) \in Nat
  BY <1>1, LenProperties DEF PageTypes
<1>4. /\ Pure(segment_vector, dirty_vector)
      /\ mapped = used \cup ToSet(cached_pages) /\ used \cap ToSet(cached_pages) = {}
      /\ IsInjective(cached_pages) /\ stack # {}
  BY <1>1, HeldIs DEF Held, Owned
<1>5. stack \subseteq used /\ stack \subseteq memory_base .. memory_end - 1
  BY <1>3 DEF PagesOf, InUse, Types
<1> HIDE DEF used, stack
<1>6. /\ cached_pages' \in Seq(Page) /\ uncached_pages' \in Nat
      /\ uncached_pages' + Len(cached_pages') = CacheSlots
      /\ B \cap used = {} /\ B \subseteq Page
      /\ mapped' = used \cup B \cup ToSet(cached_pages')
      /\ (used \cup B) \cap ToSet(cached_pages') = {} /\ IsInjective(cached_pages')
      /\ base < memory_base => base + len <= memory_end
  <2>1. CASE /\ len = 1 /\ cached_pages # <<>>
             /\ base = Head(cached_pages) /\ TakeCached /\ UNCHANGED mapped
    <3>1. B = {base}
      BY <1>2, <2>1 DEF Block
    <3>2. /\ cached_pages' = Tail(cached_pages) /\ uncached_pages' = uncached_pages + 1
          /\ mapped' = mapped
      BY <2>1 DEF TakeCached
    <3>3. /\ cached_pages' \in Seq(Page) /\ Len(cached_pages') = Len(cached_pages) - 1
          /\ base \in ToSet(cached_pages)
          /\ ToSet(cached_pages') = ToSet(cached_pages) \ {base} /\ IsInjective(cached_pages')
      BY <1>3, <1>4, <2>1, <3>2, TailIs
    <3>4. base < memory_base => base + len <= memory_end
      <4>1. PICK q \in stack : TRUE
        BY <1>4
      <4>2. q \in memory_base .. memory_end - 1
        BY <1>5
      <4> QED BY <1>2, <1>3, <2>1, <4>2
    <3>5. uncached_pages' \in Nat /\ uncached_pages' + Len(cached_pages') = CacheSlots
      BY <1>3, <3>2, <3>3
    <3> HIDE DEF B
    <3>6. B \cap used = {} /\ B \subseteq Page
      BY <1>4, <3>1, <3>3
    <3> QED BY <1>4, <3>1, <3>2, <3>3, <3>4, <3>5, <3>6
  <2>2. CASE ik_mmap(base, len) /\ UNCHANGED <<cached_pages, uncached_pages>>
    <3>1. B \subseteq Page /\ B \cap mapped = {} /\ mapped' = mapped \cup B
      BY <2>2 DEF ik_mmap
    <3>2. cached_pages' = cached_pages /\ uncached_pages' = uncached_pages
      BY <2>2
    <3>3. base < memory_base => base + len <= memory_end
      <4>1. PICK q \in stack : TRUE
        BY <1>4
      <4>2. q \in memory_base .. memory_end - 1 /\ q \notin B
        BY <1>4, <1>5, <3>1, <4>1
      <4> QED BY <1>2, <1>3, <4>2 DEF Block
    <3> HIDE DEF B
    <3> QED BY <1>3, <1>4, <3>1, <3>2, <3>3
  <2> QED BY <2>1, <2>2 DEF ik_mmap_typed
<1>7. /\ memory_base' \in Nat /\ memory_end' \in Nat
      /\ segment_vector' \in Seq(Types) /\ Len(segment_vector') = memory_end' - memory_base'
      /\ dirty_vector' \in Seq(Dirt) /\ Len(dirty_vector') = Len(segment_vector')
      /\ \A T : "HOLE" \notin T =>
           PagesOf(segment_vector', memory_base', T)
             = (PagesOf(svec, memory_base, T) \ Block(base, len))
                 \cup Those(Block(base, len), type, T)
      /\ Pure(segment_vector', dirty_vector')
  <2>1. Len(svec) = memory_end - memory_base
    BY <1>3
  <2>2. PageTypes /\ Track(svec, base, len, type) /\ (base < memory_base => base + len <= memory_end)
    BY <1>1, <1>6
  <2> HIDE DEF B
  <2> QED BY <1>2, <2>1, <2>2, TrackIs
<1>8. PagesOf(segment_vector', memory_base', InUse) = used \cup B
  <2>3. PagesOf(svec, memory_base, InUse) = used
    BY DEF used
  <2>1. "HOLE" \notin InUse /\ Those(B, type, InUse) = B
    BY DEF InUse, Those
  <2> HIDE DEF B
  <2>2. PagesOf(segment_vector', memory_base', InUse) = (used \ B) \cup Those(B, type, InUse)
    BY <1>7, <2>1, <2>3 DEF B
  <2> QED BY <1>6, <2>1, <2>2
<1>9. PagesOf(segment_vector', memory_base', {"MAINSTACK"}) # {}
  <2> HIDE DEF B
  <2>1. PagesOf(segment_vector', memory_base', {"MAINSTACK"})
          = (PagesOf(svec, memory_base, {"MAINSTACK"}) \ B) \cup Those(B, type, {"MAINSTACK"})
    BY <1>7 DEF B
  <2>2. CASE svec = segment_vector
    BY <1>4, <1>5, <1>6, <2>1, <2>2 DEF stack
  <2>3. CASE \A p \in B : type[p] = "MAINSTACK"
    BY <1>2, <2>1, <2>3 DEF Those
  <2>4. svec = segment_vector \/ \A p \in B : type[p] = "MAINSTACK"
    BY DEF B
  <2> QED BY <2>2, <2>3, <2>4
<1>10. PageTypes'
  <2>1. mapped' \subseteq Page
    <3> HIDE DEF B
    <3>1. ToSet(cached_pages') \subseteq Page
      BY <1>6, LenProperties, ElementOfSeq DEF ToSet
    <3> QED BY <1>3, <1>4, <1>6, <3>1
  <2> QED BY <1>1, <1>6, <1>7, <2>1 DEF PageTypes, Dirt
<1>11. Owned(mapped', PagesOf(segment_vector', memory_base', InUse), cached_pages')
  BY <1>6, <1>8 DEF Owned
<1>12. Held(mapped', memory_base', segment_vector', dirty_vector', cached_pages', running')
  BY <1>1, <1>4, <1>7, <1>9, <1>11 DEF Held
<1> QED BY <1>10, <1>12, HeldNext

\* A released block leaves the vectors, and what the cache can hold of it is
\* put there.
LEMMA ReleaseKeeps ==
  ASSUME PageAssumptions, PageInvariant, NEW base \in Page, NEW len \in BlockSizes \cup {1},
         Release(base, len)
  PROVE  PageInvariant'
<1> DEFINE B == Block(base, len)
           used == PagesOf(segment_vector, memory_base, InUse)
           stack == PagesOf(segment_vector, memory_base, {"MAINSTACK"})
<1>1. PageTypes /\ running
  BY DEF Release, PageInvariant
<1>2. base \in Nat /\ len \in Nat \ {0}
  BY DEF Page, PageAssumptions
<1>3. /\ mapped \subseteq Page /\ memory_base \in Nat /\ memory_end \in Nat
      /\ segment_vector \in Seq(Types) /\ Len(segment_vector) = memory_end - memory_base
      /\ dirty_vector \in Seq(Dirt) /\ Len(dirty_vector) = Len(segment_vector)
      /\ cached_pages \in Seq(Page) /\ uncached_pages \in Nat
      /\ uncached_pages + Len(cached_pages) = CacheSlots /\ Len(cached_pages) \in Nat
  BY <1>1, LenProperties DEF PageTypes, Dirt
<1>4. /\ Pure(segment_vector, dirty_vector)
      /\ mapped = used \cup ToSet(cached_pages) /\ used \cap ToSet(cached_pages) = {}
      /\ IsInjective(cached_pages) /\ stack # {}
  BY <1>1, HeldIs DEF Held, Owned
<1>5. \A T : "HOLE" \notin T => \A p \in Int :
        TypeOf(p) \in T <=> p \in PagesOf(segment_vector, memory_base, T)
  <2>1. \A p \in Int : TypeOf(p) = TypeIn(segment_vector, memory_base, p)
    BY DEF TypeOf, Slot, TypeIn
  <2> QED BY <1>3, <2>1, TypesInVectors
<1>6. B \subseteq used /\ B \cap stack = {}
  <2>1. ASSUME NEW p \in B
        PROVE  p \in Int /\ TypeOf(p) \in InUse /\ TypeOf(p) \notin {"MAINSTACK"}
    <3>1. p \in Int /\ (len = 1 => p = base)
      BY <1>2 DEF Block
    <3>2. TypeOf(p) \in {"POINTERS", "DATA", "CODE", "MAINHEAP"}
      BY <2>1, <3>1 DEF Release
    <3> QED BY <3>1, <3>2 DEF InUse, Types
  <2>2. "HOLE" \notin InUse /\ "HOLE" \notin {"MAINSTACK"}
    BY DEF InUse
  <2> HIDE DEF B
  <2> QED BY <1>5, <2>1, <2>2 DEF used, stack
<1>7. PICK fit \in Nat : /\ fit = IF len < uncached_pages THEN len ELSE uncached_pages
                         /\ fit <= len /\ fit <= uncached_pages
  BY <1>2, <1>3
<1>8. /\ segment_vector' = Typed(segment_vector, base, len, "HOLE", memory_base)
      /\ dirty_vector' = Typed(dirty_vector, base, len, "pure", memory_base)
      /\ cached_pages' = [i \in 1 .. fit |-> base + fit - i] \o cached_pages
      /\ uncached_pages' = uncached_pages - fit
      /\ mapped' = mapped \ Block(base + fit, len - fit)
      /\ memory_base' = memory_base /\ memory_end' = memory_end /\ running' = running
  BY <1>7 DEF Release, ik_munmap_from_segment, Cleaned, Unmapped
<1>9. PICK r : r = [i \in 1 .. fit |-> base + fit - i]
  OBVIOUS
<1>10. Len(r) = fit /\ DOMAIN r = 1 .. fit /\ ToSet(r) = Block(base, fit) /\ IsInjective(r)
  BY <1>2, <1>9, ListedIs
<1>11. /\ Block(base, fit) \subseteq B
       /\ Block(base + fit, len - fit) = B \ Block(base, fit)
  BY <1>2, <1>7 DEF Block
<1> HIDE DEF B, used, stack
<1>12. used \subseteq Page /\ B \subseteq Page
  BY <1>3, <1>4, <1>6
<1>13. r \in Seq(Page)
  <2>1. \A i \in 1 .. fit : r[i] \in Page
    BY <1>10, <1>11, <1>12 DEF ToSet
  <2>2. r = [i \in 1 .. fit |-> r[i]]
    BY <1>9
  <2>3. r \in [1 .. fit -> Page]
    BY <2>1, <2>2
  <2> QED BY <2>3, SeqDef
<1>14. /\ cached_pages' \in Seq(Page) /\ Len(cached_pages') = fit + Len(cached_pages)
       /\ ToSet(cached_pages') = Block(base, fit) \cup ToSet(cached_pages)
       /\ IsInjective(cached_pages')
  <2>1. ToSet(r) \cap ToSet(cached_pages) = {}
    BY <1>4, <1>6, <1>10, <1>11
  <2>2. cached_pages' = r \o cached_pages
    BY <1>8, <1>9
  <2>3. /\ cached_pages' \in Seq(Page) /\ Len(cached_pages') = Len(r) + Len(cached_pages)
        /\ ToSet(cached_pages') = ToSet(r) \cup ToSet(cached_pages)
        /\ IsInjective(cached_pages')
    BY <1>3, <1>4, <1>10, <1>13, <2>1, <2>2, JoinedIs
  <2> QED BY <1>10, <2>3
<1>15. uncached_pages' \in Nat /\ uncached_pages' + Len(cached_pages') = CacheSlots
  <2>1. Len(cached_pages') = fit + Len(cached_pages)
    BY <1>14
  <2> QED BY <1>3, <1>7, <1>8, <2>1
<1>16. /\ segment_vector' \in Seq(Types) /\ Len(segment_vector') = Len(segment_vector)
       /\ dirty_vector' \in Seq(Dirt) /\ Len(dirty_vector') = Len(segment_vector)
       /\ Pure(segment_vector', dirty_vector')
       /\ \A T : "HOLE" \notin T =>
            PagesOf(segment_vector', memory_base, T)
              = PagesOf(segment_vector, memory_base, T) \ Block(base, len)
  <2>1. /\ segment_vector \in Seq(Types) /\ dirty_vector \in Seq(Dirt)
        /\ Len(dirty_vector) = Len(segment_vector) /\ memory_base \in Nat /\ len \in Nat
    BY <1>2, <1>3
  <2>2. PICK v : v = segment_vector'
    OBVIOUS
  <2>3. PICK d : d = dirty_vector'
    OBVIOUS
  <2>4. /\ v = Typed(segment_vector, base, len, "HOLE", memory_base)
        /\ d = Typed(dirty_vector, base, len, "pure", memory_base)
    BY <1>8, <2>2, <2>3
  <2>5. /\ v \in Seq(Types) /\ Len(v) = Len(segment_vector)
        /\ d \in Seq(Dirt) /\ Len(d) = Len(segment_vector) /\ Pure(v, d)
        /\ \A T : "HOLE" \notin T =>
             PagesOf(v, memory_base, T)
               = PagesOf(segment_vector, memory_base, T) \ Block(base, len)
    BY <1>2, <1>4, <2>1, <2>4, BlockReleased
  <2> QED BY <2>2, <2>3, <2>5
<1>18. /\ PagesOf(segment_vector', memory_base', InUse) = used \ B
       /\ PagesOf(segment_vector', memory_base', {"MAINSTACK"}) = stack \ B
  <2>1. "HOLE" \notin InUse /\ "HOLE" \notin {"MAINSTACK"}
    BY DEF InUse
  <2> QED BY <1>8, <1>16, <2>1 DEF used, stack, B
<1>19. mapped' = mapped \ (B \ Block(base, fit))
  BY <1>8, <1>11
<1>20. Owned(mapped', used \ B, cached_pages')
  BY <1>4, <1>6, <1>11, <1>14, <1>19 DEF Owned
<1>21. PageTypes'
  BY <1>1, <1>3, <1>8, <1>14, <1>15, <1>16, <1>19 DEF PageTypes, Dirt
<1>22. stack \ B # {}
  BY <1>4, <1>6
<1>23. Held(mapped', memory_base', segment_vector', dirty_vector', cached_pages', running')
  BY <1>1, <1>8, <1>16, <1>18, <1>20, <1>22 DEF Held
<1> QED BY <1>21, <1>23, HeldNext

LEMMA SignalKeeps ==
  ASSUME PageInvariant, NEW p \in Page, SignalDirt(p)
  PROVE  PageInvariant'
<1>1. /\ segment_vector[Slot(p)] # "HOLE" /\ running
      /\ dirty_vector' = [dirty_vector EXCEPT ![Slot(p)] = "dirty"]
      /\ UNCHANGED <<mapped, memory_base, memory_end, segment_vector,
                     cached_pages, uncached_pages, running>>
  BY DEF SignalDirt
<1>2. dirty_vector' \in Seq({"pure", "dirty"}) /\ Len(dirty_vector') = Len(dirty_vector)
  <2>1. dirty_vector \in Seq({"pure", "dirty"})
    BY DEF PageInvariant, PageTypes
  <2>2. /\ Len(dirty_vector) \in Nat /\ DOMAIN dirty_vector = 1 .. Len(dirty_vector)
        /\ dirty_vector \in [1 .. Len(dirty_vector) -> {"pure", "dirty"}]
    BY <2>1, LenProperties
  <2>3. dirty_vector' \in [1 .. Len(dirty_vector) -> {"pure", "dirty"}]
    BY <1>1, <2>2
  <2>4. dirty_vector' \in Seq({"pure", "dirty"}) /\ DOMAIN dirty_vector' = 1 .. Len(dirty_vector)
    BY <2>2, <2>3, SeqDef
  <2> QED BY <2>2, <2>4, LenProperties
<1>3. HolesArePure'
  <2>1. /\ DOMAIN segment_vector = 1 .. Len(segment_vector)
        /\ DOMAIN dirty_vector = 1 .. Len(segment_vector)
    BY LenProperties DEF PageInvariant, PageTypes
  <2>2. HolesArePure
    BY DEF PageInvariant
  <2> QED BY <1>1, <2>1, <2>2 DEF HolesArePure
<1>4. PageTypes'
  BY <1>1, <1>2 DEF PageInvariant, PageTypes
<1>5. PageTypes /\ Held(mapped, memory_base, segment_vector, dirty_vector, cached_pages, running)
  BY HeldIs DEF PageInvariant
<1>6. Pure(segment_vector', dirty_vector')
  BY <1>3, <1>4, LenProperties DEF HolesArePure, Pure, PageTypes
<1>7. Held(mapped', memory_base', segment_vector', dirty_vector', cached_pages', running')
  BY <1>1, <1>5, <1>6 DEF Held
<1> QED BY <1>4, <1>7, HeldNext

LEMMA DeleteKeeps ==
  ASSUME PageAssumptions, PageInvariant, ik_delete_pcb
  PROVE  PageInvariant'
<1>1. PageTypes /\ running
  BY DEF PageInvariant, ik_delete_pcb
<1>2. mapped' = {} /\ running' = FALSE /\ cached_pages' = <<>> /\ uncached_pages' = CacheSlots
      /\ UNCHANGED <<memory_base, memory_end, segment_vector, dirty_vector>>
  BY <1>1 DEF PageInvariant, EveryPageHasOneOwner, ik_delete_pcb, vectors
<1>3. cached_pages' \in Seq(Page) /\ Len(cached_pages') = 0
  BY <1>2
<1>4. PageTypes'
  <2>1. uncached_pages' \in Nat /\ uncached_pages' + Len(cached_pages') = CacheSlots
    BY <1>2, <1>3 DEF PageAssumptions
  <2>2. mapped' \subseteq Page /\ running' \in BOOLEAN
    BY <1>2
  <2>3. /\ memory_base' \in Nat /\ memory_end' \in Nat
        /\ segment_vector' \in Seq(Types)
        /\ Len(segment_vector') = memory_end' - memory_base'
        /\ dirty_vector' \in Seq({"pure", "dirty"})
        /\ Len(dirty_vector') = Len(segment_vector')
    BY <1>1, <1>2 DEF PageTypes
  <2> QED BY <1>3, <2>1, <2>2, <2>3 DEF PageTypes
<1>5. HolesArePure' /\ NothingLeaks' /\ EveryPageHasOneOwner' /\ StackIsKept'
  BY <1>2 DEF PageInvariant, HolesArePure, NothingLeaks, EveryPageHasOneOwner, StackIsKept
<1> QED BY <1>4, <1>5 DEF PageInvariant

\* A stack that becomes data is in use as before.
LEMMA RetiredIs ==
  ASSUME PageInvariant
  PROVE  /\ StackRetired \in Seq(Types) /\ Len(StackRetired) = Len(segment_vector)
         /\ Pure(StackRetired, dirty_vector)
         /\ PagesOf(StackRetired, memory_base, InUse) = PagesOf(segment_vector, memory_base, InUse)
<1>1. segment_vector \in Seq(Types) /\ Pure(segment_vector, dirty_vector)
  BY HeldIs DEF PageInvariant, PageTypes, Held
<1>2. PICK vec \in Seq(Types) : vec = segment_vector
  BY <1>1
<1>3. PICK v : v = StackRetired
  OBVIOUS
<1>4. v = [i \in DOMAIN vec |-> IF vec[i] = "MAINSTACK" THEN "DATA" ELSE vec[i]]
  BY <1>2, <1>3 DEF StackRetired
<1>5. Len(vec) \in Nat /\ DOMAIN vec = 1 .. Len(vec) /\ \A i \in 1 .. Len(vec) : vec[i] \in Types
  BY LenProperties, ElementOfSeq
<1>6. v \in Seq(Types) /\ Len(v) = Len(vec)
  <2>1. v \in [1 .. Len(vec) -> Types]
    BY <1>4, <1>5 DEF Types
  <2>2. v \in Seq(Types) /\ DOMAIN v = 1 .. Len(vec)
    BY <1>5, <2>1, SeqDef
  <2> QED BY <1>5, <2>2, LenProperties
<1>7. \A i \in 1 .. Len(vec) : /\ v[i] \in InUse <=> vec[i] \in InUse
                               /\ v[i] = "HOLE" <=> vec[i] = "HOLE"
  BY <1>4, <1>5 DEF InUse, Types
<1>8. Pure(v, dirty_vector)
  BY <1>1, <1>2, <1>6, <1>7 DEF Pure
<1>9. PagesOf(v, memory_base, InUse) = PagesOf(vec, memory_base, InUse)
  <2>1. memory_base \in Nat
    BY DEF PageInvariant, PageTypes
  <2>2. \A p \in memory_base .. memory_base + Len(vec) - 1 : p - memory_base + 1 \in 1 .. Len(vec)
    BY <1>5, <2>1
  <2> QED BY <1>6, <1>7, <2>2 DEF PagesOf
<1> QED BY <1>2, <1>3, <1>6, <1>8, <1>9

LEMMA PagesStep ==
  ASSUME PageAssumptions, PageInvariant, [PagesNext]_pageVars
  PROVE  PageInvariant'
<1>0. segment_vector \in Seq(Types) /\ Pure(segment_vector, dirty_vector)
  BY HeldIs DEF PageInvariant, PageTypes, Held
<1>1. ASSUME NEW p \in Page, NEW t \in {"POINTERS", "DATA"}, MapPage(p, t)
      PROVE  PageInvariant'
  <2>1. /\ \A q \in Block(p, 1) : [r \in {p} |-> t][q] \in InUse
        /\ ik_mmap_typed(segment_vector, p, 1, [r \in {p} |-> t])
    BY <1>1 DEF MapPage, Block, InUse, Types, Page
  <2> QED BY <1>0, <2>1, MapKeeps
<1>2. ASSUME NEW p \in Page, NEW n \in BlockSizes, ik_mmap_mainheap(p, n)
      PROVE  PageInvariant'
  <2> DEFINE type == [r \in Block(p, n) |-> "MAINHEAP"]
  <2>1. /\ \A q \in Block(p, n) : type[q] \in InUse
        /\ ik_mmap_typed(segment_vector, p, n, type) /\ n \in Nat \ {0}
    BY <1>2 DEF ik_mmap_mainheap, InUse, Types, PageAssumptions
  <2> HIDE DEF type
  <2> QED BY <1>0, <2>1, MapKeeps
<1>8. ASSUME NEW p \in Page, NEW n \in BlockSizes, ik_stack_overflow(p, n)
      PROVE  PageInvariant'
  <2> DEFINE type == [r \in Block(p, n) |-> "MAINSTACK"]
  <2>1. /\ \A q \in Block(p, n) : type[q] = "MAINSTACK" /\ type[q] \in InUse
        /\ ik_mmap_typed(StackRetired, p, n, type) /\ n \in Nat \ {0}
    BY <1>8 DEF ik_stack_overflow, InUse, Types, PageAssumptions
  <2>2. /\ StackRetired \in Seq(Types) /\ Len(StackRetired) = Len(segment_vector)
        /\ Pure(StackRetired, dirty_vector)
        /\ PagesOf(StackRetired, memory_base, InUse) = PagesOf(segment_vector, memory_base, InUse)
    BY RetiredIs
  <2> HIDE DEF type
  <2> QED BY <2>1, <2>2, MapKeeps
<1>3. ASSUME NEW p \in Page, NEW n \in BlockSizes, ik_mmap_code(p, n)
      PROVE  PageInvariant'
  <2> DEFINE type == [q \in Block(p, n) |-> IF q = p THEN "CODE" ELSE "DATA"]
  <2>1. \A q \in Block(p, n) : type[q] \in InUse
    BY DEF InUse, Types
  <2>2. ik_mmap_typed(segment_vector, p, n, type) /\ n \in Nat \ {0}
    BY <1>3 DEF ik_mmap_code, PageAssumptions
  <2> HIDE DEF type
  <2> QED BY <1>0, <2>1, <2>2, MapKeeps
<1>4. ASSUME NEW p \in Page, SignalDirt(p)
      PROVE  PageInvariant'
  BY <1>4, SignalKeeps
<1>5. ASSUME NEW p \in Page, NEW n \in BlockSizes \cup {1}, Release(p, n)
      PROVE  PageInvariant'
  BY <1>5, ReleaseKeeps
<1>6. CASE ik_delete_pcb
  BY <1>6, DeleteKeeps
<1>7. CASE UNCHANGED pageVars
  BY <1>7 DEF pageVars, vectors, PageInvariant, PageTypes, EveryPageHasOneOwner,
       HolesArePure, NothingLeaks, StackIsKept, TypeOf, Slot
<1> QED BY <1>1, <1>2, <1>3, <1>4, <1>5, <1>6, <1>7, <1>8 DEF PagesNext

\* Every page that the system gave to the process is in use or in the cache,
\* once, whatever the vectors grew to and however blocks were released; it has
\* no dirt of an earlier use; and all go back when the process control block
\* is deleted: for every len of segments, blocks and cache.
THEOREM PagesHaveOneOwner == ASSUME PageAssumptions PROVE PagesSpec => []PageInvariant
<1>1. PagesInit => PageInvariant
  BY PagesStart
<1>2. PageInvariant /\ [PagesNext]_pageVars => PageInvariant'
  BY PagesStep
<1> QED BY <1>1, <1>2, PTL DEF PagesSpec

=============================================================================
