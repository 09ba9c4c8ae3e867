----------------------------- MODULE EqHashTables -----------------------------
(***************************************************************************)
(* Hash tables whose keys are compared with eq? (ikarus.hash-tables.sls).  *)
(* They hash the address of a key, which changes when a collection moves   *)
(* the key: the collector puts the buckets of the keys it moves in the     *)
(* tconc of their table (gc_tconc_push and gc_add_tconcs of                *)
(* ikarus-collect.c), and a lookup that finds nothing in the chain of the  *)
(* new address rehashes the buckets of the tconc until it meets its key.   *)
(*                                                                         *)
(* The program is interrupted by a collection only where it allocates: an  *)
(* operation is one step, cut where it allocates or calls a procedure of   *)
(* the program.  Chains are sets, and so is the tconc, because the order   *)
(* in which buckets are moved is not determined.                           *)
(*                                                                         *)
(* PushUnlessOldest, StaleIndex, ReAddAsVector, DeleteUncounted and        *)
(* Uncapped, which no action uses, are what a plausible bug would make of  *)
(* the definition that follows each.                                       *)
(***************************************************************************)
EXTENDS Naturals, FiniteSets

CONSTANTS
  Key, Value, Bucket,
  MinLen, MaxLen, \* lengths of the buckets vector: powers of 2
  LastGen,        \* IK_GC_GENERATION_OLDEST
  None

\* What the constants must satisfy.
Assumptions ==
  /\ MinLen \in Nat \ {0} /\ MaxLen \in Nat /\ MaxLen >= MinLen
  /\ LastGen \in Nat \ {0}
  /\ IsFiniteSet(Bucket) /\ None \notin Key \cup Value \cup Nat

VARIABLES
  address, \* pointer-value of a key, modulo MaxLen
  gen,     \* its generation
  bucket,  \* tcbuckets
  tconc,   \* buckets in the tc field of the table
  length,  \* of the buckets vector
  size,    \* field size of the table
  pending, \* the operation that a collection may interrupt
  result

tableVars == <<bucket, tconc, length, size>>
vars      == <<address, gen, tableVars, pending, result>>

Gen     == 0 .. LastGen
Address == 0 .. MaxLen - 1
Free    == [key |-> None, value |-> None, chain |-> None,
            form |-> "vector", gen |-> 0]
Idle    == [op |-> "idle"]

PendingOK ==
  \/ pending = Idle
  \/ pending = [op |-> "enlarge"] /\ 2 * length <= MaxLen
  \/ pending \in [op : {"insert"}, key : Key, value : Value, ih : Address]
  \/ pending \in [op : {"update"}, key : Key, found : SUBSET Bucket]

TypeOK ==
  /\ address \in [Key -> Address]
  /\ gen \in [Key -> Gen]
  /\ bucket \in [Bucket -> [key : Key \cup {None}, value : Value \cup {None},
                            chain : (0 .. length - 1) \cup {None},
                            form : {"tcbucket", "vector"}, gen : Gen]]
  /\ tconc \subseteq Bucket
  /\ length \in MinLen .. MaxLen
  /\ size \in 0 .. Cardinality(Bucket)
  /\ PendingOK
  /\ result \in Value \cup {None}

Init ==
  /\ address \in [Key -> Address]
  /\ gen = [k \in Key |-> 0]
  /\ bucket = [b \in Bucket |-> Free]
  /\ tconc = {}
  /\ length = MinLen
  /\ size = 0
  /\ pending = Idle
  /\ result = None

-----------------------------------------------------------------------------
(* Lookup.                                                                 *)

\* hash-value->buckets-vector-index
IndexFor(k, len) == address[k] % len
Index(k) == IndexFor(k, length)

\* direct-lookup: the bucket of the key in the chain of its address.
DirectLookup(k) ==
  {b \in Bucket : bucket[b].key = k /\ bucket[b].chain = Index(k)}

\* Popped buckets that are in no table any more are dropped.
InTable(b) == bucket[b].chain # None

ReAddAsVector(b) == [bucket[b] EXCEPT !.chain = Index(bucket[b].key)]

\* re-add!: a bucket is moved to the chain of the new address of its key,
\* and gets back the tconc in its first word.
ReAdd(b) == [bucket[b] EXCEPT !.chain = Index(bucket[b].key), !.form = "tcbucket"]

Popped(P) ==
  [b \in Bucket |-> IF b \notin P THEN bucket[b]
                    ELSE IF InTable(b) THEN ReAdd(b) ELSE Free]

\* get-bucket: FOUND is a set with the bucket or empty, and POPPED are the
\* buckets that rehash-lookup takes from the tconc before it stops.
get_bucket(k, found, popped) ==
  IF DirectLookup(k) # {} THEN found = DirectLookup(k) /\ popped = {}
  ELSE LET hit == {b \in tconc : InTable(b) /\ bucket[b].key = k}
       IN  /\ popped \subseteq tconc
           /\ found \subseteq hit
           /\ IF hit = {} THEN popped = tconc
              ELSE Cardinality(found) = 1 /\ popped \cap hit = found

Rehash(popped) ==
  /\ bucket' = Popped(popped)
  /\ tconc' = tconc \ popped

ValueIn(found) == IF found = {} THEN None ELSE bucket[CHOOSE b \in found : TRUE].value

-----------------------------------------------------------------------------
(* The operations.                                                         *)

\* hashtable-ref, also from the procedure of an update.
get_hash(k) ==
  /\ pending.op \in {"idle", "update"}
  /\ \E found, popped \in SUBSET Bucket :
       /\ get_bucket(k, found, popped)
       /\ Rehash(popped)
       /\ result' = ValueIn(found)
  /\ UNCHANGED <<address, gen, length, size, pending>>

\* put-hash! up to the allocation of a bucket; IH is the address hashed.
Put(k, v) ==
  \E found, popped \in SUBSET Bucket :
    /\ get_bucket(k, found, popped)
    /\ tconc' = tconc \ popped
    /\ IF found = {}
       THEN /\ bucket' = Popped(popped)
            /\ pending' = [op |-> "insert", key |-> k, value |-> v, ih |-> address[k]]
            /\ UNCHANGED result
       ELSE /\ bucket' = [b \in Bucket |->
                            IF b \in found THEN [Popped(popped)[b] EXCEPT !.value = v]
                                           ELSE Popped(popped)[b]]
            /\ pending' = Idle
            /\ result' = v
    /\ UNCHANGED <<address, gen, length, size>>

put_hash(k, v) == pending = Idle /\ Put(k, v)

StaleIndex(k, ih) == ih % length

\* The chain of a new bucket: the address may have changed while it was
\* allocated.
InsertIndex(k, ih) == IF address[k] = ih THEN ih % length ELSE Index(k)

\* A new bucket is linked; the table is enlarged if the size it had exceeds
\* the length of the vector.
InsertBucket(b) ==
  /\ pending.op = "insert"
  /\ bucket[b] = Free /\ b \notin tconc
  /\ bucket' = [bucket EXCEPT
       ![b] = [key |-> pending.key, value |-> pending.value,
               chain |-> InsertIndex(pending.key, pending.ih),
               form |-> "tcbucket", gen |-> 0]]
  /\ size' = size + 1
  /\ result' = pending.value
  /\ pending' = IF size > length /\ 2 * length <= MaxLen THEN [op |-> "enlarge"] ELSE Idle
  /\ UNCHANGED <<address, gen, tconc, length>>

\* enlarge-table, once the new vector is allocated: all chains are rehashed.
enlarge_table ==
  /\ pending.op = "enlarge"
  /\ length' = 2 * length
  /\ bucket' = [b \in Bucket |->
                  IF InTable(b) THEN [bucket[b] EXCEPT
                                        !.chain = IndexFor(bucket[b].key, 2 * length)]
                                ELSE bucket[b]]
  /\ pending' = Idle
  /\ UNCHANGED <<address, gen, tconc, size, result>>

\* update-hash!: the procedure of the program is called with the bucket in
\* hand.  It should not mutate the table.
UpdateBegins(k) ==
  /\ pending = Idle
  /\ \E found, popped \in SUBSET Bucket :
       /\ get_bucket(k, found, popped)
       /\ Rehash(popped)
       /\ pending' = [op |-> "update", key |-> k, found |-> found]
  /\ UNCHANGED <<address, gen, length, size, result>>

UpdateEnds(v) ==
  /\ pending.op = "update"
  /\ IF pending.found = {}
     THEN Put(pending.key, v)
     ELSE /\ bucket' = [b \in Bucket |->
                          IF b \in pending.found THEN [bucket[b] EXCEPT !.value = v]
                                                 ELSE bucket[b]]
          /\ pending' = Idle
          /\ result' = v
          /\ UNCHANGED <<address, gen, tconc, length, size>>

DeleteUncounted(found) == size

SizeAfterDelete(found) == IF found = {} THEN size ELSE size - 1

\* del-hash: a bucket that is still in the tconc is dropped when it is popped.
del_hash(k) ==
  /\ pending = Idle
  /\ \E found, popped \in SUBSET Bucket :
       /\ get_bucket(k, found, popped)
       /\ tconc' = tconc \ popped
       /\ bucket' = [b \in Bucket |->
                       IF b \notin found THEN Popped(popped)[b]
                       ELSE IF b \in tconc \ popped THEN [bucket[b] EXCEPT !.chain = None]
                       ELSE Free]
       /\ size' = SizeAfterDelete(found)
       /\ result' = ValueIn(found)
  /\ UNCHANGED <<address, gen, length, pending>>

\* clear-hash!: the table gets a new tconc.
clear_hash ==
  /\ pending = Idle
  /\ bucket' = [b \in Bucket |-> Free]
  /\ tconc' = {}
  /\ size' = 0
  /\ result' = None
  /\ UNCHANGED <<address, gen, length, pending>>

-----------------------------------------------------------------------------
(* A collection of generation g, where the program allocates.              *)

Uncapped(g) == g + 1

next_gen(g) == IF g = LastGen THEN g ELSE g + 1

PushUnlessOldest(b, g) ==
  bucket[b].form = "tcbucket" /\ bucket[b].gen <= g /\ gen[bucket[b].key] < g

\* A tcbucket that is moved is pushed if its key will be moved.  A bucket in
\* a tconc has the form of a vector and is not pushed again.
Pushed(b, g) ==
  /\ bucket[b].form = "tcbucket" /\ bucket[b].gen <= g
  /\ gen[bucket[b].key] <= g

Collect(g) ==
  /\ \E moved \in [{k \in Key : gen[k] <= g} -> Address] :
       address' = [k \in Key |-> IF gen[k] <= g THEN moved[k] ELSE address[k]]
  /\ gen' = [k \in Key |-> IF gen[k] <= g THEN next_gen(g) ELSE gen[k]]
  /\ bucket' = [b \in Bucket |->
       IF bucket[b] = Free \/ bucket[b].gen > g THEN bucket[b]
       ELSE [bucket[b] EXCEPT !.gen = next_gen(g),
                              !.form = IF Pushed(b, g) THEN "vector" ELSE @]]
  /\ tconc' = tconc \cup {b \in Bucket : Pushed(b, g)}
  /\ UNCHANGED <<length, size, pending, result>>

-----------------------------------------------------------------------------

Next ==
  \/ \E k \in Key : get_hash(k)
  \/ \E k \in Key, v \in Value : put_hash(k, v)
  \/ \E b \in Bucket : InsertBucket(b)
  \/ enlarge_table
  \/ \E k \in Key : UpdateBegins(k)
  \/ \E v \in Value : UpdateEnds(v)
  \/ \E k \in Key : del_hash(k)
  \/ clear_hash
  \/ \E g \in Gen : Collect(g)

Spec == Init /\ [][Next]_vars

-----------------------------------------------------------------------------
(* Properties.                                                             *)

\* A lookup finds every bucket of the table, although its key has moved any
\* number of times since it was hashed: the bucket is in the chain of the
\* address of its key or it waits in the tconc.
LookupFinds ==
  \A b \in Bucket : InTable(b) => bucket[b].chain = Index(bucket[b].key) \/ b \in tconc

\* A key has one bucket: no insertion overlooks a bucket that was hashed
\* with an older address.
OneBucket ==
  \A a, b \in Bucket :
    InTable(a) /\ InTable(b) /\ bucket[a].key = bucket[b].key => a = b

\* hashtable-keys and hashtable-entries walk the chains until they have met
\* as many buckets as the size says.
SizeCounts == size = Cardinality({b \in Bucket : InTable(b)})

\* The buckets of a key: one, or none.
Holders(k) == {b \in Bucket : InTable(b) /\ bucket[b].key = k}

\* A bucket of the table holds a key and a value, and has the form of a vector
\* while it is in the tconc; a bucket that is in neither is free.
BucketForms ==
  \A b \in Bucket :
    IF InTable(b)
    THEN /\ bucket[b].key \in Key /\ bucket[b].value \in Value
         /\ bucket[b].form = IF b \in tconc THEN "vector" ELSE "tcbucket"
    ELSE IF b \in tconc THEN bucket[b].form = "vector" ELSE bucket[b] = Free

\* A bucket is made after its key, and is never moved without it to an older
\* generation: a collection that moves the key moves the bucket too.
NotOlderThanKey == \A b \in Bucket : InTable(b) => bucket[b].gen <= gen[bucket[b].key]

\* What an operation has looked up is still so when it goes on.
LookedUp ==
  /\ pending.op = "insert" => Holders(pending.key) = {}
  /\ pending.op = "update" => pending.found = Holders(pending.key)

\* Whatever collections move between any two allocations of an operation,
\* each key has one bucket, where it is looked for, and all are counted.
TableInvariant ==
  /\ TypeOK
  /\ LookupFinds /\ OneBucket /\ SizeCounts
  /\ BucketForms /\ NotOlderThanKey /\ LookedUp

\* The table implements a map, collections are invisible.
Map == [k \in Key |-> ValueIn(Holders(k))]

Table == INSTANCE HashTable WITH map <- Map

ImplementsTable == Table!Spec

=============================================================================
