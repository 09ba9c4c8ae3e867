--------------------------- MODULE Coroutines_proofs ---------------------------
(***************************************************************************)
(* No continuation is lost or reinstated twice, the monitor loses no       *)
(* permit, and concurrently leaves no thunk that can run, for any number   *)
(* of coroutines and any maximum of the monitor.                           *)
(***************************************************************************)
EXTENDS Coroutines, FiniteSetTheorems, SequenceTheorems, TLAPS

-----------------------------------------------------------------------------
(* Queues as sets.                                                         *)

\* The elements of a queue are coroutines.
LEMMA ToSetType ==
  ASSUME NEW q \in Seq(Coroutine)
  PROVE  ToSet(q) \subseteq Coroutine
  BY DEF ToSet

\* What is added at the end of a queue that does not have it yet.
LEMMA AppendLemma ==
  ASSUME NEW q \in Seq(Coroutine), NEW c \in Coroutine
  PROVE  /\ Append(q, c) \in Seq(Coroutine) /\ Append(q, c) # <<>>
         /\ ToSet(Append(q, c)) = ToSet(q) \cup {c}
         /\ Distinct(q) /\ c \notin ToSet(q) => Distinct(Append(q, c))
<1>1. /\ Append(q, c) \in Seq(Coroutine) /\ Len(Append(q, c)) = Len(q) + 1
      /\ DOMAIN Append(q, c) = 1 .. Len(q) + 1 /\ DOMAIN q = 1 .. Len(q)
      /\ \A i \in 1 .. Len(q) : Append(q, c)[i] = q[i]
      /\ Append(q, c)[Len(q) + 1] = c /\ Len(q) \in Nat
  OBVIOUS
<1>2. ToSet(Append(q, c)) = ToSet(q) \cup {c}
  BY <1>1 DEF ToSet
<1>3. ASSUME Distinct(q), c \notin ToSet(q) PROVE Distinct(Append(q, c))
  BY <1>1, <1>3 DEF Distinct, ToSet
<1> QED BY <1>1, <1>2, <1>3

\* What is left when the first of a queue is taken.
LEMMA TailLemma ==
  ASSUME NEW q \in Seq(Coroutine), q # <<>>
  PROVE  /\ Head(q) \in Coroutine /\ Head(q) \in ToSet(q) /\ Tail(q) \in Seq(Coroutine)
         /\ ToSet(q) = ToSet(Tail(q)) \cup {Head(q)}
         /\ Distinct(q) => Distinct(Tail(q)) /\ Head(q) \notin ToSet(Tail(q))
<1>1. /\ Head(q) \in Coroutine /\ Tail(q) \in Seq(Coroutine) /\ Len(q) \in Nat /\ Len(q) >= 1
      /\ DOMAIN q = 1 .. Len(q) /\ DOMAIN Tail(q) = 1 .. Len(q) - 1
      /\ \A i \in 1 .. Len(q) - 1 : Tail(q)[i] = q[i + 1]
      /\ Head(q) = q[1]
  OBVIOUS
<1>2. ToSet(Tail(q)) \cup {Head(q)} \subseteq ToSet(q)
  BY <1>1 DEF ToSet
<1>3. ASSUME NEW i \in 1 .. Len(q) PROVE q[i] \in ToSet(Tail(q)) \cup {Head(q)}
  <2>1. CASE i = 1
    BY <1>1, <2>1
  <2>2. CASE i # 1
    <3>1. i - 1 \in 1 .. Len(q) - 1 /\ q[i] = Tail(q)[i - 1]
      BY <1>1, <2>2
    <3> QED BY <1>1, <3>1 DEF ToSet
  <2> QED BY <2>1, <2>2
<1>4. ToSet(q) \subseteq ToSet(Tail(q)) \cup {Head(q)}
  BY <1>1, <1>3 DEF ToSet
<1>5. ASSUME Distinct(q) PROVE Distinct(Tail(q)) /\ Head(q) \notin ToSet(Tail(q))
  BY <1>1, <1>5 DEF Distinct, ToSet
<1> QED BY <1>1, <1>2, <1>4, <1>5 DEF ToSet

\* dequeue! gives control to one of the queue, which is then no longer in it.
LEMMA JumpLemma ==
  ASSUME TypeOK, NEW q \in Seq(Coroutine), JumpToNext(q)
  PROVE  /\ current' \in Coroutine /\ queue' \in Seq(Coroutine) /\ raised' \in BOOLEAN
         /\ ~ raised' => /\ q # <<>>
                         /\ current' \in ToSet(q)
                         /\ ToSet(q) = ToSet(queue') \cup {current'}
                         /\ Distinct(q) => Distinct(queue') /\ current' \notin ToSet(queue')
<1>1. CASE q = <<>>
  BY <1>1 DEF JumpToNext, TypeOK
<1>2. CASE q # <<>>
  <2>1. current' = Head(q) /\ queue' = Tail(q) /\ raised' = raised
    BY <1>2 DEF JumpToNext
  <2> QED BY <1>2, <2>1, TailLemma DEF TypeOK
<1> QED BY <1>1, <1>2

\* A coroutine that is entered leaves the current one in the queue.
LEMMA EnterLemma ==
  ASSUME TypeOK, NEW c \in Coroutine, NEW d \in Coroutine, EnterFrom(c, d)
  PROVE  /\ current' = d /\ queue' \in Seq(Coroutine) /\ raised' = raised
         /\ ToSet(queue') = ToSet(queue) \cup {c}
         /\ Distinct(queue) /\ c \notin ToSet(queue) => Distinct(queue')
  BY AppendLemma DEF EnterFrom, Enqueued, TypeOK

\* When nobody waits twice, the number of places is 0 or 1.
LEMMA CountLemma ==
  ASSUME NEW q \in Seq(Coroutine), Distinct(q), NEW x
  PROVE  Count(q, x) = IF x \in ToSet(q) THEN 1 ELSE 0
<1>1. CASE x \in ToSet(q)
  <2>1. PICK i \in DOMAIN q : q[i] = x
    BY <1>1 DEF ToSet
  <2>2. {j \in DOMAIN q : q[j] = x} = {i}
    BY <2>1 DEF Distinct
  <2> QED BY <1>1, <2>2, FS_Singleton DEF Count
<1>2. CASE x \notin ToSet(q)
  <2>1. {j \in DOMAIN q : q[j] = x} = {}
    BY <1>2 DEF ToSet
  <2> QED BY <1>2, <2>1, FS_EmptySet DEF Count
<1> QED BY <1>1, <1>2

\* The invariant gives the property that the runs check.
LEMMA PlacedOnce == ASSUME TypeOK, PlacedInv PROVE OneContinuation
<1> SUFFICES ASSUME ~ raised, NEW c \in Coroutine
             PROVE  Waits(c) = IF status[c] = "started" /\ c # current THEN 1 ELSE 0
  BY DEF OneContinuation
<1>1. Placed /\ queue \in Seq(Coroutine) /\ pending \in Seq(Coroutine)
  BY DEF PlacedInv, TypeOK
<1>2. /\ Count(queue, c) = IF InQueue(c) THEN 1 ELSE 0
      /\ Count(pending, c) = IF InPending(c) THEN 1 ELSE 0
  BY <1>1, CountLemma DEF Placed, InQueue, InPending
<1> QED BY <1>1, <1>2 DEF Placed, Waits

-----------------------------------------------------------------------------
(* The steps.                                                              *)

\* Init gives the invariant.
LEMMA InitLemma == ASSUME Assumptions, Init PROVE IInv
<1>1. ToSet(<<>>) = {} /\ Distinct(<<>>)
  BY DEF ToSet, Distinct
<1>2. TypeOK
  <2>1. /\ status \in [Coroutine -> {"unborn", "reserved", "started", "finished"}]
        /\ mode \in [Coroutine -> {"body", "finish", "concurrently"}]
        /\ todo \in [Coroutine -> SUBSET Coroutine]
        /\ unfinished \in [Coroutine -> Nat]
        /\ owner \in [Coroutine -> Coroutine \cup {None}]
    BY DEF Init
  <2>2. queue \in Seq(Coroutine) /\ pending \in Seq(Coroutine)
    BY DEF Init
  <2>3. /\ current \in Coroutine /\ suspended \subseteq Coroutine /\ inside \subseteq Coroutine
        /\ counter \in Int
    BY DEF Init, Assumptions
  <2>4. raised \in BOOLEAN
    BY DEF Init
  <2> QED BY <2>1, <2>2, <2>3, <2>4 DEF TypeOK
<1>3. PlacedInv
  BY <1>1 DEF Init, PlacedInv, Placed, InQueue, InPending, Assumptions
<1>4. GroupInv
  <2> SUFFICES ASSUME NEW c \in Coroutine
               PROVE  Children(c) = {} /\ unfinished[c] = 0 /\ todo[c] = {}
                      /\ \A d \in Coroutine : owner[d] # c
    BY FS_EmptySet DEF GroupInv
  <2> QED BY DEF Init, Children, Assumptions
<1>5. MonitorInv
  BY FS_EmptySet DEF Init, MonitorInv, WaitsOnlyWhenFull
<1> QED BY <1>2, <1>3, <1>4, <1>5 DEF IInv

\* A step that keeps status, owner, todo and the counters of concurrently keeps
\* GroupInv, if it keeps the mode concurrently of those that have thunks.
LEMMA GroupKept ==
  ASSUME GroupInv, UNCHANGED <<status, owner, todo, unfinished>>,
         \A c \in Coroutine : mode[c] = "concurrently" => mode'[c] = "concurrently"
  PROVE  GroupInv'
<1>1. \A c \in Coroutine : Children(c)' = Children(c)
  BY DEF Children
<1> QED BY <1>1 DEF GroupInv

\* A step that does not touch the monitor, by a coroutine that does not wait
\* there, keeps MonitorInv.
LEMMA MonitorKept ==
  ASSUME MonitorInv, UNCHANGED semVars
  PROVE  MonitorInv'
  BY DEF MonitorInv, semVars, WaitsOnlyWhenFull, InPending

\* What all actions of a running coroutine know.
LEMMA RunningLemma ==
  ASSUME IInv, NEW c \in Coroutine, NEW m, Running(c, m)
  PROVE  /\ TypeOK /\ Placed /\ ~ raised /\ current = c /\ mode[c] = m
         /\ status[c] = "started"
         /\ ~ InQueue(c) /\ ~ InPending(c) /\ c \notin suspended
  BY DEF IInv, PlacedInv, Placed, Running

\* dequeue!, when all the started coroutines wait in one place.
LEMMA JumpPlaced ==
  ASSUME TypeOK, NEW q \in Seq(Coroutine), JumpToNext(q),
         Distinct(q), Distinct(pending'),
         \A x \in Coroutine :
           /\ x \in ToSet(q) \/ InPending(x)' \/ x \in suspended' <=> status'[x] = "started"
           /\ ~(x \in ToSet(q) /\ InPending(x)')
           /\ ~(x \in ToSet(q) /\ x \in suspended')
           /\ ~(InPending(x)' /\ x \in suspended')
  PROVE  PlacedInv'
<1> SUFFICES ASSUME ~ raised' PROVE Placed'
  BY DEF PlacedInv
<1>1. /\ current' \in Coroutine /\ current' \in ToSet(q)
      /\ ToSet(q) = ToSet(queue') \cup {current'}
      /\ Distinct(queue') /\ current' \notin ToSet(queue')
  BY JumpLemma
<1> QED BY <1>1 DEF Placed, InQueue

\* A coroutine that was in no place is entered, and the current one waits.
LEMMA EnterPlaced ==
  ASSUME TypeOK, Placed, NEW c \in Coroutine, NEW d \in Coroutine, EnterFrom(c, d),
         c # d, Distinct(pending'), c = current, ~ InQueue(d),
         status'[d] = "started", ~ InPending(d)', d \notin suspended',
         ~ InPending(c)', c \notin suspended', status'[c] = "started",
         \A x \in Coroutine \ {c, d} :
           /\ InPending(x)' <=> InPending(x)
           /\ x \in suspended' <=> x \in suspended
           /\ status'[x] = "started" <=> status[x] = "started"
  PROVE  PlacedInv'
<1>1. /\ current' = d /\ ToSet(queue') = ToSet(queue) \cup {c}
  BY EnterLemma
<1>2. Distinct(queue')
  BY EnterLemma DEF Placed, InQueue
<1>3. status'[current'] = "started"
  BY <1>1
<1>4. ASSUME NEW x \in Coroutine
      PROVE  /\ (InQueue(x) \/ InPending(x) \/ x \in suspended
                  <=> status[x] = "started" /\ x # current)'
             /\ ~(InQueue(x) /\ InPending(x))'
             /\ ~(InQueue(x) /\ x \in suspended)'
             /\ ~(InPending(x) /\ x \in suspended)'
  BY <1>1, <1>4 DEF Placed, InQueue
<1> QED BY <1>2, <1>3, <1>4 DEF PlacedInv, Placed

\* The waiting coroutines of a queue, with one more at its end.
LEMMA AllWait ==
  ASSUME TypeOK, Placed, NEW c \in Coroutine, c = current
  PROVE  /\ Append(queue, c) \in Seq(Coroutine) /\ Append(queue, c) # <<>>
         /\ Distinct(Append(queue, c))
         /\ \A x \in Coroutine : x \in ToSet(Append(queue, c)) <=> InQueue(x) \/ x = c
<1>1. queue \in Seq(Coroutine) /\ Distinct(queue) /\ c \notin ToSet(queue)
  BY DEF TypeOK, Placed, InQueue
<1> QED BY <1>1, AppendLemma DEF InQueue

\* The current coroutine goes to the end of the queue, nothing else changes.
LEMMA YieldPlaced ==
  ASSUME TypeOK, Placed, NEW c \in Coroutine, c = current, JumpToNext(Append(queue, c)),
         UNCHANGED <<status, suspended, pending>>
  PROVE  /\ PlacedInv'
         /\ current' \in Coroutine /\ queue' \in Seq(Coroutine) /\ raised' \in BOOLEAN
<1>1. \A x \in Coroutine : InPending(x)' <=> InPending(x)
  BY DEF InPending
<1>2. PlacedInv'
  BY <1>1, AllWait, JumpPlaced DEF Placed
<1> QED BY <1>2, AllWait, JumpLemma

\* Each started coroutine is in one place, the counters of concurrently and of
\* the monitor agree with the coroutines they count.
THEOREM Invariance == ASSUME Assumptions PROVE Spec => []IInv
<1>1. Init => IInv
  BY InitLemma
<1>2. ASSUME IInv, [Next]_vars PROVE IInv'
  <2>1. ASSUME NEW c \in Coroutine, NEW d \in Coroutine, coroutine(c, d) PROVE IInv'
    <3>1. Running(c, "body") /\ status[d] = "unborn" /\ EnterFrom(c, d)
      BY <2>1 DEF coroutine
    <3>2. /\ TypeOK /\ Placed /\ current = c /\ status[c] = "started" /\ c # d
          /\ ~ InPending(c) /\ c \notin suspended
          /\ ~ InQueue(d) /\ ~ InPending(d) /\ d \notin suspended
      <4>1. /\ TypeOK /\ Placed /\ current = c /\ status[c] = "started"
            /\ ~ InPending(c) /\ c \notin suspended
        BY <1>2, <3>1, RunningLemma
      <4> QED BY <3>1, <4>1 DEF Placed
    <3>3. TypeOK'
      <4>1. current' \in Coroutine /\ queue' \in Seq(Coroutine) /\ raised' = raised
        BY <3>1, <3>2, EnterLemma
      <4> QED BY <2>1, <3>2, <4>1 DEF coroutine, TypeOK, groupVars, semVars
    <3>4. PlacedInv'
      <4>1. status' = [status EXCEPT ![d] = "started"] /\ UNCHANGED <<suspended, pending>>
        BY <2>1 DEF coroutine, semVars
      <4>2. \A x \in Coroutine : InPending(x)' <=> InPending(x)
        BY <4>1 DEF InPending
      <4> QED BY <3>1, <3>2, <4>1, <4>2, EnterPlaced DEF Placed, TypeOK
    <3>5. GroupInv'
      <4>1. \A b \in Coroutine : d \notin todo[b] /\ owner[d] # b
        BY <1>2, <3>1 DEF IInv, GroupInv
      <4>2. \A b \in Coroutine : Children(b)' = Children(b)
        BY <2>1, <3>2, <4>1 DEF coroutine, Children, TypeOK, groupVars
      <4> QED BY <1>2, <2>1, <3>2, <4>1, <4>2 DEF coroutine, IInv, GroupInv, TypeOK, groupVars
    <3>6. MonitorInv'
      BY <1>2, <2>1, MonitorKept DEF IInv, coroutine
    <3> QED BY <3>3, <3>4, <3>5, <3>6 DEF IInv
  <2>2. ASSUME NEW c \in Coroutine, Return(c) PROVE IInv'
    <3>1. /\ TypeOK /\ Placed /\ current = c /\ status[c] = "started"
          /\ mode[c] = "body" /\ ~ InQueue(c) /\ ~ InPending(c) /\ c \notin suspended
      BY <1>2, <2>2, RunningLemma DEF Return
    <3>2. /\ JumpToNext(queue) /\ status' = [status EXCEPT ![c] = "finished"]
          /\ UNCHANGED <<mode, suspended, todo, owner, semVars>>
      BY <2>2 DEF Return
    <3>3. GroupInv /\ MonitorInv
      BY <1>2 DEF IInv
    <3>4. \A b \in Coroutine : /\ b = owner[c] => c \in Children(b)
                               /\ Children(b)' = IF b = owner[c] THEN Children(b) \ {c}
                                                                ELSE Children(b)
      BY <3>1, <3>2 DEF Children, TypeOK
    <3>5. /\ unfinished' \in [Coroutine -> Nat]
          /\ \A b \in Coroutine : /\ IsFiniteSet(Children(b)')
                                  /\ unfinished'[b] = Cardinality(Children(b)')
      <4>1. \A b \in Coroutine :
              /\ IsFiniteSet(Children(b)) /\ unfinished[b] = Cardinality(Children(b))
              /\ unfinished[b] \in Nat
        BY <3>1, <3>3 DEF GroupInv, TypeOK
      <4>2. CASE owner[c] = None
        <5>1. unfinished' = unfinished /\ unfinished \in [Coroutine -> Nat]
          BY <2>2, <3>1, <4>2 DEF Return, TypeOK
        <5>2. \A b \in Coroutine : Children(b)' = Children(b)
          BY <3>4, <4>2 DEF Assumptions
        <5> QED BY <4>1, <5>1, <5>2
      <4>3. CASE owner[c] # None
        <5>1. owner[c] \in Coroutine /\ unfinished' = [unfinished EXCEPT ![owner[c]] = @ - 1]
          BY <2>2, <3>1, <4>3 DEF Return, TypeOK
        <5>2. /\ IsFiniteSet(Children(owner[c]) \ {c})
              /\ Cardinality(Children(owner[c]) \ {c}) = unfinished[owner[c]] - 1
              /\ Cardinality(Children(owner[c]) \ {c}) \in Nat
          BY <3>4, <4>1, <5>1, FS_RemoveElement, FS_CardinalityType
        <5>3. unfinished \in [Coroutine -> Nat]
          BY <3>1 DEF TypeOK
        <5> QED BY <3>4, <4>1, <5>1, <5>2, <5>3
      <4> QED BY <4>2, <4>3
    <3>6. TypeOK'
      <4>1. current' \in Coroutine /\ queue' \in Seq(Coroutine) /\ raised' \in BOOLEAN
        BY <3>1, <3>2, JumpLemma DEF TypeOK
      <4> QED BY <3>1, <3>2, <3>5, <4>1 DEF TypeOK, semVars
    <3>7. PlacedInv'
      <4>1. \A x \in Coroutine : InPending(x)' <=> InPending(x)
        BY <3>2 DEF semVars, InPending
      <4>2. UNCHANGED <<suspended, pending>> /\ queue \in Seq(Coroutine)
        BY <3>1, <3>2 DEF semVars, TypeOK
      <4>3. \A x \in Coroutine : status'[x] = "started" <=> status[x] = "started" /\ x # c
        BY <3>1, <3>2 DEF TypeOK
      <4> QED BY <3>1, <3>2, <4>1, <4>2, <4>3, JumpPlaced DEF Placed, InQueue
    <3>8. GroupInv'
      BY <3>1, <3>2, <3>3, <3>5 DEF GroupInv, TypeOK
    <3>9. MonitorInv'
      BY <3>2, <3>3, MonitorKept
    <3> QED BY <3>6, <3>7, <3>8, <3>9 DEF IInv
  <2>3. ASSUME NEW c \in Coroutine, yield(c) PROVE IInv'
    <3>1. TypeOK /\ Placed /\ current = c
      BY <1>2, <2>3, RunningLemma DEF yield
    <3>2. /\ PlacedInv'
          /\ current' \in Coroutine /\ queue' \in Seq(Coroutine) /\ raised' \in BOOLEAN
      BY <2>3, <3>1, YieldPlaced DEF yield, Enqueued, semVars
    <3>3. TypeOK'
      BY <2>3, <3>1, <3>2 DEF yield, TypeOK, groupVars, semVars
    <3>4. GroupInv' /\ MonitorInv'
      BY <1>2, <2>3, GroupKept, MonitorKept DEF yield, IInv, groupVars
    <3> QED BY <3>2, <3>3, <3>4 DEF IInv
  <2>4. ASSUME NEW c \in Coroutine, NEW e \in BOOLEAN, finish_coroutines(c, e) PROVE IInv'
    <3>1. TypeOK /\ Placed /\ current = c /\ mode[c] # "concurrently"
      BY <1>2, <2>4, RunningLemma DEF finish_coroutines
    <3>2. /\ PlacedInv'
          /\ current' \in Coroutine /\ queue' \in Seq(Coroutine) /\ raised' \in BOOLEAN
      <4>1. CASE queue = <<>> \/ e
        BY <1>2, <2>4, <3>1, <4>1
        DEF finish_coroutines, IInv, TypeOK, PlacedInv, Placed, InQueue, InPending, semVars
      <4>2. CASE ~(queue = <<>> \/ e)
        BY <2>4, <3>1, <4>2, YieldPlaced DEF finish_coroutines, Enqueued, semVars
      <4> QED BY <4>1, <4>2
    <3>3. mode' \in [Coroutine -> {"body", "finish", "concurrently"}]
          /\ \A b \in Coroutine : mode[b] = "concurrently" => mode'[b] = "concurrently"
      BY <2>4, <3>1 DEF finish_coroutines, TypeOK
    <3>4. TypeOK'
      BY <2>4, <3>1, <3>2, <3>3 DEF finish_coroutines, TypeOK, groupVars, semVars
    <3>5. GroupInv' /\ MonitorInv'
      BY <1>2, <2>4, <3>3, GroupKept, MonitorKept DEF finish_coroutines, IInv, groupVars
    <3> QED BY <3>2, <3>4, <3>5 DEF IInv
  <2>5. ASSUME NEW c \in Coroutine, suspend_coroutine(c) PROVE IInv'
    <3>1. /\ TypeOK /\ Placed /\ current = c /\ status[c] = "started"
          /\ ~ InQueue(c) /\ ~ InPending(c) /\ c \notin suspended
      BY <1>2, <2>5, RunningLemma DEF suspend_coroutine
    <3>2. /\ PlacedInv' /\ suspended' \subseteq Coroutine
          /\ current' \in Coroutine /\ queue' \in Seq(Coroutine) /\ raised' \in BOOLEAN
      <4>1. CASE c = Main
        BY <2>5, <3>1, <4>1 DEF suspend_coroutine, PlacedInv, TypeOK
      <4>2. CASE c # Main
        <5>1. /\ suspended' = suspended \cup {c} /\ JumpToNext(queue)
              /\ UNCHANGED <<status, pending>> /\ queue \in Seq(Coroutine)
          BY <2>5, <3>1, <4>2 DEF suspend_coroutine, semVars, TypeOK
        <5>2. \A x \in Coroutine : InPending(x)' <=> InPending(x)
          BY <5>1 DEF InPending
        <5>3. PlacedInv'
          BY <3>1, <5>1, <5>2, JumpPlaced DEF Placed, InQueue
        <5> QED BY <3>1, <5>1, <5>3, JumpLemma DEF TypeOK
      <4> QED BY <4>1, <4>2
    <3>3. TypeOK'
      BY <2>5, <3>1, <3>2 DEF suspend_coroutine, TypeOK, groupVars, semVars
    <3>4. GroupInv' /\ MonitorInv'
      BY <1>2, <2>5, GroupKept, MonitorKept DEF suspend_coroutine, IInv, groupVars
    <3> QED BY <3>2, <3>3, <3>4 DEF IInv
  <2>6. ASSUME NEW c \in Coroutine, NEW d \in Coroutine, resume_coroutine(c, d) PROVE IInv'
    <3>1. /\ TypeOK /\ Placed /\ current = c /\ status[c] = "started"
          /\ ~ InQueue(c) /\ ~ InPending(c) /\ c \notin suspended
      BY <1>2, <2>6, RunningLemma DEF resume_coroutine
    <3>2. /\ PlacedInv' /\ suspended' \subseteq Coroutine
          /\ current' \in Coroutine /\ queue' \in Seq(Coroutine) /\ raised' \in BOOLEAN
      <4>1. CASE d \in suspended
        <5>1. /\ suspended' = suspended \ {d} /\ EnterFrom(c, d) /\ c # d
              /\ UNCHANGED <<status, pending>>
          BY <2>6, <3>1, <4>1 DEF resume_coroutine, semVars
        <5>2. \A x \in Coroutine : InPending(x)' <=> InPending(x)
          BY <5>1 DEF InPending
        <5>3. status[d] = "started" /\ ~ InQueue(d) /\ ~ InPending(d) /\ Distinct(pending)
          BY <3>1, <4>1 DEF Placed
        <5>4. PlacedInv'
          BY <3>1, <5>1, <5>2, <5>3, EnterPlaced
        <5> QED BY <3>1, <5>1, <5>4, EnterLemma DEF TypeOK
      <4>2. CASE d \notin suspended
        BY <2>6, <3>1, <4>2 DEF resume_coroutine, PlacedInv, TypeOK
      <4> QED BY <4>1, <4>2
    <3>3. TypeOK'
      BY <2>6, <3>1, <3>2 DEF resume_coroutine, TypeOK, groupVars, semVars
    <3>4. GroupInv' /\ MonitorInv'
      BY <1>2, <2>6, GroupKept, MonitorKept DEF resume_coroutine, IInv, groupVars
    <3> QED BY <3>2, <3>3, <3>4 DEF IInv
  <2>7. ASSUME NEW c \in Coroutine, NEW thunks \in SUBSET Coroutine, concurrently(c, thunks)
        PROVE  IInv'
    <3>1. /\ TypeOK /\ Placed /\ current = c /\ status[c] = "started" /\ mode[c] = "body"
          /\ c \notin thunks /\ \A d \in thunks : status[d] = "unborn"
      BY <1>2, <2>7, RunningLemma DEF concurrently
    <3>2. /\ status' = [d \in Coroutine |-> IF d \in thunks THEN "reserved" ELSE status[d]]
          /\ mode' = [mode EXCEPT ![c] = "concurrently"]
          /\ todo' = [todo EXCEPT ![c] = thunks]
          /\ owner' = [d \in Coroutine |-> IF d \in thunks THEN c ELSE owner[d]]
          /\ unfinished' = [unfinished EXCEPT ![c] = 0]
          /\ UNCHANGED <<current, queue, suspended, semVars, raised>>
      BY <2>7 DEF concurrently
    <3>3. TypeOK'
      <4>1. /\ mode' \in [Coroutine -> {"body", "finish", "concurrently"}]
            /\ todo' \in [Coroutine -> SUBSET Coroutine]
            /\ unfinished' \in [Coroutine -> Nat]
        BY <3>1, <3>2 DEF TypeOK
      <4>2. /\ status' \in [Coroutine -> {"unborn", "reserved", "started", "finished"}]
            /\ owner' \in [Coroutine -> Coroutine \cup {None}]
        BY <3>1, <3>2 DEF TypeOK
      <4> QED BY <3>1, <3>2, <4>1, <4>2 DEF TypeOK, semVars
    <3>4. \A d \in Coroutine : status'[d] = "started" <=> status[d] = "started"
      BY <3>1, <3>2 DEF TypeOK
    <3>5. PlacedInv'
      BY <1>2, <3>1, <3>2, <3>4 DEF IInv, PlacedInv, Placed, InQueue, InPending, semVars
    <3>6. GroupInv /\ \A d \in Coroutine : owner[d] # c
      BY <1>2, <3>1 DEF IInv, GroupInv
    <3>7. \A d \in thunks : \A b \in Coroutine : owner[d] # b /\ d \notin todo[b]
      BY <3>1, <3>6 DEF GroupInv
    <3>8. \A b \in Coroutine : Children(b)' = IF b = c THEN {} ELSE Children(b)
      <4>1. ASSUME NEW b \in Coroutine, NEW d \in Coroutine
            PROVE  d \in Children(b)' <=> b # c /\ d \in Children(b)
        BY <3>1, <3>2, <3>4, <3>6, <3>7 DEF Children
      <4> QED BY <4>1 DEF Children
    <3>9. GroupInv'
      <4> SUFFICES ASSUME NEW b \in Coroutine
          PROVE  /\ IsFiniteSet(Children(b)') /\ unfinished'[b] = Cardinality(Children(b)')
                 /\ \A d \in todo'[b] : status'[d] = "reserved" /\ owner'[d] = b
                 /\ \A d \in Coroutine : owner'[d] = b =>
                      /\ d # b /\ mode'[b] = "concurrently" /\ status'[d] # "unborn"
                      /\ status'[d] = "reserved" => d \in todo'[b]
        BY DEF GroupInv
      <4>1. CASE b = c
        BY <3>1, <3>2, <3>6, <3>8, <4>1, FS_EmptySet DEF TypeOK
      <4>2. CASE b # c
        BY <3>1, <3>2, <3>6, <3>7, <3>8, <4>2 DEF TypeOK, GroupInv
      <4> QED BY <4>1, <4>2
    <3>10. MonitorInv'
      BY <1>2, <3>2, MonitorKept DEF IInv
    <3> QED BY <3>3, <3>5, <3>9, <3>10 DEF IInv
  <2>8. ASSUME NEW c \in Coroutine, NEW d \in Coroutine, StartThunk(c, d) PROVE IInv'
    <3>1. /\ TypeOK /\ Placed /\ GroupInv /\ current = c /\ status[c] = "started"
          /\ ~ InQueue(c) /\ ~ InPending(c) /\ c \notin suspended /\ d \in todo[c]
      BY <1>2, <2>8, RunningLemma DEF StartThunk, IInv
    <3>2. /\ status[d] = "reserved" /\ owner[d] = c /\ c # d
          /\ ~ InQueue(d) /\ ~ InPending(d) /\ d \notin suspended
          /\ \A b \in Coroutine \ {c} : d \notin todo[b] /\ owner[d] # b
      BY <3>1 DEF GroupInv, Placed
    <3>3. /\ todo' = [todo EXCEPT ![c] = @ \ {d}]
          /\ unfinished' = [unfinished EXCEPT ![c] = @ + 1]
          /\ status' = [status EXCEPT ![d] = "started"]
          /\ EnterFrom(c, d)
          /\ UNCHANGED <<mode, suspended, owner, semVars>>
      BY <2>8 DEF StartThunk
    <3>4. TypeOK'
      <4>1. current' \in Coroutine /\ queue' \in Seq(Coroutine) /\ raised' = raised
        BY <3>1, <3>3, EnterLemma
      <4>2. /\ todo' \in [Coroutine -> SUBSET Coroutine]
            /\ unfinished' \in [Coroutine -> Nat]
            /\ status' \in [Coroutine -> {"unborn", "reserved", "started", "finished"}]
        BY <3>1, <3>3 DEF TypeOK
      <4> QED BY <3>1, <3>3, <4>1, <4>2 DEF TypeOK, semVars
    <3>5. PlacedInv'
      <4>1. UNCHANGED <<suspended, pending>> /\ Distinct(pending)
        BY <3>1, <3>3 DEF semVars, Placed
      <4>2. \A x \in Coroutine : InPending(x)' <=> InPending(x)
        BY <4>1 DEF InPending
      <4>3. /\ status'[d] = "started" /\ status'[c] = "started"
            /\ \A x \in Coroutine \ {c, d} : status'[x] = status[x]
        BY <3>1, <3>2, <3>3 DEF TypeOK
      <4> QED BY <3>1, <3>2, <3>3, <4>1, <4>2, <4>3, EnterPlaced
    <3>6. \A b \in Coroutine : Children(b)' = IF b = c THEN Children(c) \cup {d} ELSE Children(b)
      BY <3>1, <3>2, <3>3 DEF Children, TypeOK
    <3>7. /\ IsFiniteSet(Children(c) \cup {d})
          /\ Cardinality(Children(c) \cup {d}) = unfinished[c] + 1
      <4>1. d \notin Children(c) /\ IsFiniteSet(Children(c))
            /\ unfinished[c] = Cardinality(Children(c))
        BY <3>1, <3>2 DEF Children, GroupInv
      <4> QED BY <4>1, FS_AddElement
    <3>8. GroupInv'
      <4> SUFFICES ASSUME NEW b \in Coroutine
          PROVE  /\ IsFiniteSet(Children(b)') /\ unfinished'[b] = Cardinality(Children(b)')
                 /\ \A e \in todo'[b] : status'[e] = "reserved" /\ owner'[e] = b
                 /\ \A e \in Coroutine : owner'[e] = b =>
                      /\ e # b /\ mode'[b] = "concurrently" /\ status'[e] # "unborn"
                      /\ status'[e] = "reserved" => e \in todo'[b]
        BY DEF GroupInv
      <4>1. CASE b = c
        <5>1. todo'[c] = todo[c] \ {d} /\ unfinished'[c] = unfinished[c] + 1
          BY <3>1, <3>3 DEF TypeOK
        <5>2. \A e \in Coroutine : status'[e] = IF e = d THEN "started" ELSE status[e]
          BY <3>1, <3>3 DEF TypeOK
        <5>3. \A e \in todo'[c] : e \in Coroutine /\ status'[e] = "reserved" /\ owner'[e] = c
          BY <3>1, <3>3, <5>1, <5>2 DEF TypeOK, GroupInv
        <5>4. \A e \in Coroutine : owner'[e] = c =>
                /\ e # c /\ mode'[c] = "concurrently" /\ status'[e] # "unborn"
                /\ status'[e] = "reserved" => e \in todo'[c]
          BY <3>1, <3>3, <5>1, <5>2 DEF GroupInv
        <5> QED BY <3>6, <3>7, <4>1, <5>1, <5>3, <5>4
      <4>2. CASE b # c
        BY <3>1, <3>2, <3>3, <3>6, <4>2 DEF TypeOK, GroupInv
      <4> QED BY <4>1, <4>2
    <3>9. MonitorInv'
      BY <1>2, <3>3, MonitorKept DEF IInv
    <3> QED BY <3>4, <3>5, <3>8, <3>9 DEF IInv
  <2>9. ASSUME NEW c \in Coroutine, AwaitThunks(c) PROVE IInv'
    <3>1. TypeOK /\ Placed /\ GroupInv /\ MonitorInv /\ ~ raised /\ current = c /\ todo[c] = {}
      BY <1>2, <2>9, RunningLemma DEF AwaitThunks, IInv
    <3>2. UNCHANGED <<status, suspended, todo, semVars>>
      BY <2>9 DEF AwaitThunks
    <3>3. CASE queue = <<>> \/ unfinished[c] = 0
      <4>1. /\ mode' = [mode EXCEPT ![c] = "body"]
            /\ owner' = [d \in Coroutine |-> IF owner[d] = c THEN None ELSE owner[d]]
            /\ unfinished' = [unfinished EXCEPT ![c] = 0]
            /\ UNCHANGED <<current, queue, raised>>
        BY <2>9, <3>3 DEF AwaitThunks
      <4>2. TypeOK'
        <5>1. /\ mode' \in [Coroutine -> {"body", "finish", "concurrently"}]
              /\ unfinished' \in [Coroutine -> Nat]
              /\ owner' \in [Coroutine -> Coroutine \cup {None}]
          BY <3>1, <4>1 DEF TypeOK
        <5> QED BY <3>1, <3>2, <4>1, <5>1 DEF TypeOK, semVars
      <4>3. PlacedInv' /\ MonitorInv'
        BY <3>1, <3>2, <4>1, MonitorKept DEF PlacedInv, Placed, InQueue, InPending, semVars
      <4>4. \A b \in Coroutine : Children(b)' = IF b = c THEN {} ELSE Children(b)
        BY <3>2, <4>1 DEF Children, Assumptions
      <4>5. GroupInv'
        <5> SUFFICES ASSUME NEW b \in Coroutine
            PROVE  /\ IsFiniteSet(Children(b)') /\ unfinished'[b] = Cardinality(Children(b)')
                   /\ \A e \in todo'[b] : status'[e] = "reserved" /\ owner'[e] = b
                   /\ \A e \in Coroutine : owner'[e] = b =>
                        /\ e # b /\ mode'[b] = "concurrently" /\ status'[e] # "unborn"
                        /\ status'[e] = "reserved" => e \in todo'[b]
          BY DEF GroupInv
        <5>1. CASE b = c
          BY <3>1, <3>2, <4>1, <4>4, <5>1, FS_EmptySet DEF TypeOK, Assumptions
        <5>2. CASE b # c
          BY <3>1, <3>2, <4>1, <4>4, <5>2 DEF TypeOK, GroupInv, Assumptions
        <5> QED BY <5>1, <5>2
      <4> QED BY <4>2, <4>3, <4>5 DEF IInv
    <3>4. CASE ~(queue = <<>> \/ unfinished[c] = 0)
      <4>1. JumpToNext(Append(queue, c)) /\ UNCHANGED <<mode, owner, unfinished>>
        BY <2>9, <3>4 DEF AwaitThunks, Enqueued
      <4>2. /\ PlacedInv'
            /\ current' \in Coroutine /\ queue' \in Seq(Coroutine) /\ raised' \in BOOLEAN
        BY <3>1, <3>2, <4>1, YieldPlaced DEF semVars
      <4>3. TypeOK'
        BY <3>1, <3>2, <4>1, <4>2 DEF TypeOK, semVars
      <4>4. GroupInv' /\ MonitorInv'
        BY <3>1, <3>2, <4>1, GroupKept, MonitorKept
      <4> QED BY <4>2, <4>3, <4>4 DEF IInv
    <3> QED BY <3>3, <3>4
  <2>10. ASSUME NEW c \in Coroutine, sem_acquire(c) PROVE IInv'
    <3>1. /\ TypeOK /\ Placed /\ GroupInv /\ MonitorInv /\ ~ raised /\ current = c
          /\ status[c] = "started" /\ ~ InQueue(c) /\ ~ InPending(c) /\ c \notin suspended
          /\ c \notin inside
      BY <1>2, <2>10, RunningLemma DEF sem_acquire, IInv
    <3>2. UNCHANGED <<status, mode, suspended, groupVars>>
      BY <2>10 DEF sem_acquire
    <3>3. GroupInv'
      BY <3>1, <3>2, GroupKept DEF groupVars
    <3>4. CASE counter < Maximum
      <4>1. /\ counter' = counter + 1 /\ inside' = inside \cup {c}
            /\ UNCHANGED <<current, queue, pending, raised>>
        BY <2>10, <3>4 DEF sem_acquire
      <4>2. TypeOK' /\ PlacedInv'
        BY <3>1, <3>2, <4>1 DEF TypeOK, PlacedInv, Placed, InQueue, InPending, groupVars
      <4>3. /\ IsFiniteSet(inside \cup {c})
            /\ Cardinality(inside \cup {c}) = Cardinality(inside) + 1
            /\ Cardinality(inside) \in Nat
        BY <3>1, FS_AddElement, FS_CardinalityType DEF MonitorInv
      <4>4. MonitorInv'
        <5>1. \A x \in Coroutine : InPending(x)' <=> InPending(x)
          BY <4>1 DEF InPending
        <5> QED BY <3>1, <4>1, <4>3, <5>1
                DEF MonitorInv, WaitsOnlyWhenFull, TypeOK, Assumptions
      <4> QED BY <3>3, <4>2, <4>4 DEF IInv
    <3>5. CASE ~(counter < Maximum)
      <4>1. /\ pending' = Append(pending, c) /\ JumpToNext(queue)
            /\ UNCHANGED <<counter, inside>>
        BY <2>10, <3>5 DEF sem_acquire, Enqueued
      <4>2. /\ pending' \in Seq(Coroutine) /\ Distinct(pending')
            /\ \A x \in Coroutine : InPending(x)' <=> InPending(x) \/ x = c
        BY <3>1, <4>1, AppendLemma DEF TypeOK, Placed, InPending
      <4>3. PlacedInv'
        <5>1. queue \in Seq(Coroutine) /\ UNCHANGED <<status, suspended>>
          BY <3>1, <3>2 DEF TypeOK
        <5> QED BY <3>1, <4>1, <4>2, <5>1, JumpPlaced DEF Placed, InQueue
      <4>4. TypeOK'
        <5>1. current' \in Coroutine /\ queue' \in Seq(Coroutine) /\ raised' \in BOOLEAN
          BY <3>1, <4>1, JumpLemma DEF TypeOK
        <5> QED BY <3>1, <3>2, <4>1, <4>2, <5>1 DEF TypeOK, groupVars
      <4>5. MonitorInv'
        <5>1. Cardinality(inside) >= Maximum
          BY <3>1, <3>5, FS_CardinalityType DEF MonitorInv, TypeOK, Assumptions
        <5> QED BY <3>1, <4>1, <4>2, <5>1 DEF MonitorInv, WaitsOnlyWhenFull, TypeOK
      <4> QED BY <3>3, <4>3, <4>4, <4>5 DEF IInv
    <3> QED BY <3>4, <3>5
  <2>11. ASSUME NEW c \in Coroutine, sem_release(c) PROVE IInv'
    <3>1. /\ TypeOK /\ Placed /\ GroupInv /\ MonitorInv /\ ~ raised /\ current = c
          /\ status[c] = "started" /\ ~ InQueue(c) /\ ~ InPending(c) /\ c \notin suspended
          /\ c \in inside
      BY <1>2, <2>11, RunningLemma DEF sem_release, IInv
    <3>2. UNCHANGED <<status, mode, suspended, groupVars>> /\ counter' = counter - 1
      BY <2>11 DEF sem_release
    <3>3. GroupInv'
      BY <3>1, <3>2, GroupKept DEF groupVars
    <3>4. /\ IsFiniteSet(inside \ {c})
          /\ Cardinality(inside \ {c}) = Cardinality(inside) - 1
          /\ Cardinality(inside) \in Nat /\ counter \in Int
      BY <3>1, FS_RemoveElement, FS_CardinalityType DEF MonitorInv, TypeOK
    <3>5. CASE pending = <<>>
      <4>1. inside' = inside \ {c} /\ UNCHANGED <<current, queue, pending, raised>>
        BY <2>11, <3>5 DEF sem_release
      <4>2. TypeOK' /\ PlacedInv'
        BY <3>1, <3>2, <4>1 DEF TypeOK, PlacedInv, Placed, InQueue, InPending, groupVars
      <4>3. MonitorInv'
        BY <3>1, <3>2, <3>4, <3>5, <4>1 DEF MonitorInv, WaitsOnlyWhenFull, InPending
      <4> QED BY <3>3, <4>2, <4>3 DEF IInv
    <3>6. CASE pending # <<>>
      <4>0. PICK d \in Coroutine : d = Head(pending)
        BY <3>1, <3>6, TailLemma DEF TypeOK
      <4>1. /\ pending' = Tail(pending) /\ inside' = (inside \ {c}) \cup {d} /\ EnterFrom(c, d)
        BY <2>11, <3>6, <4>0 DEF sem_release
      <4>2. /\ d \in Coroutine /\ InPending(d) /\ pending' \in Seq(Coroutine) /\ Distinct(pending')
            /\ ~ InPending(d)'
            /\ \A x \in Coroutine : InPending(x)' <=> InPending(x) /\ x # d
        <5>1. pending \in Seq(Coroutine) /\ Distinct(pending)
          BY <3>1 DEF TypeOK, Placed
        <5>2. /\ d \in Coroutine /\ d \in ToSet(pending) /\ Tail(pending) \in Seq(Coroutine)
              /\ ToSet(pending) = ToSet(Tail(pending)) \cup {d}
              /\ Distinct(Tail(pending)) /\ d \notin ToSet(Tail(pending))
          BY <3>6, <4>0, <5>1, TailLemma
        <5>3. /\ pending' \in Seq(Coroutine) /\ Distinct(pending')
              /\ ToSet(pending) = ToSet(pending') \cup {d} /\ d \notin ToSet(pending')
          BY <4>1, <5>2
        <5> QED BY <4>0, <5>2, <5>3 DEF InPending
      <4>3. c # d /\ ~ InQueue(d) /\ status[d] = "started" /\ d \notin suspended /\ d \notin inside
        BY <3>1, <4>2 DEF Placed, MonitorInv
      <4>4. PlacedInv'
        <5>1. UNCHANGED <<status, suspended>>
          BY <3>2
        <5> QED BY <3>1, <4>1, <4>2, <4>3, <5>1, EnterPlaced
      <4>5. TypeOK'
        <5>1. current' \in Coroutine /\ queue' \in Seq(Coroutine) /\ raised' = raised
          BY <3>1, <4>1, <4>2, EnterLemma
        <5> QED BY <3>1, <3>2, <4>1, <4>2, <5>1 DEF TypeOK, groupVars
      <4>6. /\ IsFiniteSet(inside') /\ Cardinality(inside') = Cardinality(inside)
        <5>1. d \notin inside \ {c}
          BY <4>3
        <5>2. /\ IsFiniteSet((inside \ {c}) \cup {d})
              /\ Cardinality((inside \ {c}) \cup {d}) = Cardinality(inside \ {c}) + 1
          BY <3>4, <5>1, FS_AddElement
        <5> QED BY <3>4, <4>1, <5>2
      <4>7. MonitorInv'
        <5>1. \A x \in inside' : ~ InPending(x)'
          BY <3>1, <4>1, <4>2 DEF MonitorInv, TypeOK
        <5> QED BY <3>1, <3>2, <3>4, <3>6, <4>6, <5>1 DEF MonitorInv, WaitsOnlyWhenFull
      <4> QED BY <3>3, <4>4, <4>5, <4>7 DEF IInv
    <3> QED BY <3>5, <3>6
  <2>12. CASE UNCHANGED vars
    <3>1. TypeOK' /\ PlacedInv'
      BY <1>2, <2>12 DEF vars, groupVars, semVars, IInv, TypeOK, PlacedInv, Placed, InQueue,
         InPending
    <3>2. GroupInv' /\ MonitorInv'
      BY <1>2, <2>12, GroupKept, MonitorKept DEF vars, groupVars, IInv
    <3> QED BY <3>1, <3>2 DEF IInv
  <2> QED
    BY <1>2, <2>1, <2>2, <2>3, <2>4, <2>5, <2>6, <2>7, <2>8, <2>9, <2>10, <2>11, <2>12
    DEF Next, Step
<1> QED BY <1>1, <1>2, PTL DEF Spec

\* The continuation of every started coroutine is in one place and one only:
\* the queue, the monitor, the states and the current coroutine of
\* ikarus.coroutines.sls lose none and name none twice.
THEOREM NoneLostNoneTwice == ASSUME Assumptions PROVE Spec => []OneContinuation
<1>1. IInv => OneContinuation
  BY PlacedOnce DEF IInv
<1>2. Spec => []IInv
  BY Invariance
<1> QED BY <1>1, <1>2, PTL

\* A coroutine waits at the monitor only while as many coroutines as its
\* maximum are inside: sem-release loses no permit.
THEOREM NoPermitLost == ASSUME Assumptions PROVE Spec => []WaitsOnlyWhenFull
<1>1. IInv => WaitsOnlyWhenFull
  BY DEF IInv, MonitorInv
<1>2. Spec => []IInv
  BY Invariance
<1> QED BY <1>1, <1>2, PTL

\* When concurrently returns, a thunk that has not finished is suspended or
\* waits at the monitor: none that could run is left behind.
THEOREM OnlyBlockedLeft == ASSUME Assumptions PROVE Spec => LeavesOnlyBlocked
<1>1. ASSUME IInv, Next, NEW c \in Coroutine, mode[c] = "concurrently", mode'[c] = "body",
             NEW d \in Coroutine, owner[d] = c, status[d] # "finished"
      PROVE  d \in suspended \/ d \in ToSet(pending)
  <2>1. PICK b \in Coroutine : Step(b)
    BY <1>1 DEF Next
  <2>2. TypeOK
    BY <1>1 DEF IInv
  <2>3. mode' # mode
    BY <1>1
  <2>4. AwaitThunks(c)
    <3>1. CASE \E e \in BOOLEAN : finish_coroutines(b, e)
      BY <1>1, <2>2, <3>1 DEF finish_coroutines, Running, TypeOK
    <3>2. CASE \E thunks \in SUBSET Coroutine : concurrently(b, thunks)
      BY <1>1, <2>2, <3>2 DEF concurrently, TypeOK
    <3>3. CASE AwaitThunks(b)
      BY <1>1, <2>2, <3>3 DEF AwaitThunks, TypeOK
    <3> QED
      BY <2>1, <2>3, <3>1, <3>2, <3>3 DEF Step, coroutine, Return, yield, suspend_coroutine,
         resume_coroutine, StartThunk, sem_acquire, sem_release
  <2>5. Placed /\ current = c /\ todo[c] = {} /\ GroupInv
    BY <1>1, <2>4, RunningLemma DEF AwaitThunks, IInv
  <2>6. queue = <<>> \/ unfinished[c] = 0
    BY <1>1, <2>2, <2>4 DEF AwaitThunks
  <2>7. status[d] = "started" /\ d # c
    BY <1>1, <2>2, <2>5 DEF GroupInv, TypeOK
  <2>8. CASE queue = <<>>
    BY <2>5, <2>7, <2>8 DEF Placed, InQueue, InPending, ToSet
  <2>9. CASE unfinished[c] = 0
    <3>1. Children(c) = {}
      BY <2>5, <2>9, FS_EmptySet DEF GroupInv
    <3> QED BY <1>1, <2>7, <3>1 DEF Children
  <2> QED BY <2>6, <2>8, <2>9
<1>2. ASSUME IInv, [Next]_vars
      PROVE  [\A c \in Coroutine :
                mode[c] = "concurrently" /\ mode'[c] = "body" =>
                  \A d \in Coroutine : owner[d] = c /\ status[d] # "finished" =>
                    d \in suspended \/ d \in ToSet(pending)]_vars
  BY <1>1, <1>2
<1>3. Spec => []IInv
  BY Invariance
<1> QED BY <1>2, <1>3, PTL DEF Spec, LeavesOnlyBlocked

================================================================================
