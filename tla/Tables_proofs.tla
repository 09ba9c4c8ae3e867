---------------------------- MODULE Tables_proofs ----------------------------
(***************************************************************************)
(* What holds of the tables that collections disturb.                      *)
(*                                                                         *)
(* The hash table finds every bucket although collections move the keys,   *)
(* has one bucket for a key, and implements a map, for any number of keys, *)
(* values, buckets and generations and all lengths of its vector.          *)
(*                                                                         *)
(* A name has one symbol, for any number of names and symbols, any hash    *)
(* function and whatever the collections find dead; and what is written    *)
(* for a generated symbol is read as that one.                             *)
(***************************************************************************)
EXTENDS EqHashTables, SymbolTable, Gensyms, FiniteSetTheorems, TLAPS

-----------------------------------------------------------------------------
(* EqHashTables.                                                           *)

\* The buckets that are in the table.
Members == {b \in Bucket : InTable(b)}

\* A bucket of a table whose vector has the length LEN.
BucketRecord(len) ==
  [key : Key \cup {None}, value : Value \cup {None}, chain : (0 .. len - 1) \cup {None},
   form : {"tcbucket", "vector"}, gen : Gen]

-----------------------------------------------------------------------------
(* What a lookup finds and leaves.                                         *)

\* An index is one of the vector's.
LEMMA IndexType ==
  ASSUME Assumptions, address \in [Key -> Address], NEW len \in Nat \ {0}, NEW k \in Key
  PROVE  IndexFor(k, len) \in 0 .. len - 1 /\ IndexFor(k, len) # None
<1>1. address[k] \in Nat
  BY DEF Address, Assumptions
<1>2. address[k] % len \in 0 .. len - 1
  BY <1>1
<1> QED BY <1>2 DEF IndexFor, Assumptions

\* A part of a set of one, and not less.
LEMMA Singleton ==
  ASSUME NEW S, NEW T \in SUBSET S, \A a, b \in S : a = b, S # {} => T # {}
  PROVE  T = S
  OBVIOUS

\* get-bucket finds the buckets of its key, in whatever order the tconc is
\* popped.
LEMMA LookupLemma ==
  ASSUME Assumptions, TableInvariant, NEW k \in Key,
         NEW found \in SUBSET Bucket, NEW popped \in SUBSET Bucket,
         get_bucket(k, found, popped)
  PROVE  found = Holders(k) /\ popped \subseteq tconc
<1>1. \A a, b \in Holders(k) : a = b
  BY DEF Holders, TableInvariant, OneBucket
<1>2. CASE DirectLookup(k) # {}
  <2>1. Index(k) # None
    BY IndexType DEF Index, TableInvariant, TypeOK, Assumptions
  <2>2. DirectLookup(k) \subseteq Holders(k)
    BY <2>1 DEF DirectLookup, Holders, InTable
  <2> QED BY <1>1, <1>2, <2>2 DEF get_bucket
<1>3. CASE DirectLookup(k) = {}
  <2>1. {b \in tconc : InTable(b) /\ bucket[b].key = k} = Holders(k)
    BY <1>3 DEF Holders, DirectLookup, TableInvariant, LookupFinds, TypeOK
  <2>2. /\ popped \subseteq tconc /\ found \subseteq Holders(k)
        /\ Holders(k) # {} => Cardinality(found) = 1
    BY <1>3, <2>1 DEF get_bucket
  <2>3. Holders(k) # {} => found # {}
    BY <2>2, FS_EmptySet
  <2> QED BY <1>1, <2>2, <2>3, Singleton
<1> QED BY <1>2, <1>3

\* Rehashing leaves each bucket in the table with its key and its value.
LEMMA PoppedLemma ==
  ASSUME Assumptions, TableInvariant, NEW P \in SUBSET tconc, NEW b \in Bucket
  PROVE  /\ Popped(P)[b].chain # None <=> InTable(b)
         /\ InTable(b) => /\ Popped(P)[b].key = bucket[b].key
                          /\ Popped(P)[b].value = bucket[b].value
                          /\ Popped(P)[b].gen = bucket[b].gen
                          /\ b \in P => /\ Popped(P)[b].chain = Index(bucket[b].key)
                                        /\ Popped(P)[b].form = "tcbucket"
         /\ b \in P /\ ~InTable(b) => Popped(P)[b] = Free
         /\ b \notin P => Popped(P)[b] = bucket[b]
         /\ Popped(P)[b] \in BucketRecord(length)
<1> USE DEF BucketRecord
<1>1. bucket[b] \in BucketRecord(length)
  BY DEF TableInvariant, TypeOK
<1>2. CASE b \notin P
  BY <1>1, <1>2 DEF Popped, InTable
<1>3. CASE b \in P /\ InTable(b)
  <2>1. bucket[b].key \in Key
    BY <1>3 DEF TableInvariant, BucketForms
  <2>2. length \in Nat \ {0}
    BY DEF TableInvariant, TypeOK, Assumptions
  <2>3. Index(bucket[b].key) \in 0 .. length - 1 /\ Index(bucket[b].key) # None
    BY <2>1, <2>2, IndexType DEF Index, TableInvariant, TypeOK
  <2>4. Popped(P)[b] = ReAdd(b)
    BY <1>3 DEF Popped
  <2>5. ReAdd(b) = [key |-> bucket[b].key, value |-> bucket[b].value,
                    chain |-> Index(bucket[b].key), form |-> "tcbucket",
                    gen |-> bucket[b].gen]
    <3>1. PICK r : r = [bucket[b] EXCEPT !.chain = Index(bucket[b].key)]
      OBVIOUS
    <3>2. r = [key |-> bucket[b].key, value |-> bucket[b].value,
               chain |-> Index(bucket[b].key), form |-> bucket[b].form, gen |-> bucket[b].gen]
      BY <1>1, <3>1
    <3>3. ReAdd(b) = [r EXCEPT !.form = "tcbucket"]
      BY <3>1, Zenon DEF ReAdd
    <3> QED BY <3>2, <3>3
  <2>6. Popped(P)[b] \in BucketRecord(length)
    BY <1>1, <2>3, <2>4, <2>5
  <2> QED BY <1>3, <2>3, <2>4, <2>5, <2>6
<1>4. CASE b \in P /\ ~InTable(b)
  <2>1. Popped(P)[b] = Free
    BY <1>4 DEF Popped
  <2>2. 0 \in Gen
    BY DEF Gen, Assumptions
  <2>3. Free \in BucketRecord(length)
    BY <2>2 DEF Free
  <2>4. Free.chain = None
    BY DEF Free
  <2> QED BY <1>4, <2>1, <2>3, <2>4
<1> QED BY <1>2, <1>3, <1>4

\* The table in short: what is in it, what waits to be rehashed, what is free.
LEMMA MembersLemma ==
  ASSUME Assumptions, TableInvariant
  PROVE  /\ IsFiniteSet(Members) /\ Members \subseteq Bucket
         /\ size = Cardinality(Members) /\ Cardinality(Members) \in 0 .. Cardinality(Bucket)
<1>1. IsFiniteSet(Bucket) /\ Members \subseteq Bucket
  BY DEF Assumptions, Members
<1>2. IsFiniteSet(Members) /\ Cardinality(Members) <= Cardinality(Bucket)
  BY <1>1, FS_Subset
<1>3. Cardinality(Members) \in Nat /\ Cardinality(Bucket) \in Nat
  BY <1>1, <1>2, FS_CardinalityType
<1> QED BY <1>1, <1>2, <1>3 DEF TableInvariant, SizeCounts, Members

\* A step that rehashes buckets of the tconc, takes those of GONE out of the
\* table and may change the values of others.
Rehashed(popped, gone) ==
  /\ popped \subseteq tconc /\ gone \subseteq Members
  /\ UNCHANGED <<address, gen, length>>
  /\ tconc' = tconc \ popped
  /\ bucket' \in [Bucket -> BucketRecord(length)]
  /\ \A b \in Bucket \ gone :
       IF InTable(b)
       THEN /\ bucket'[b].key = Popped(popped)[b].key
            /\ bucket'[b].chain = Popped(popped)[b].chain
            /\ bucket'[b].form = Popped(popped)[b].form
            /\ bucket'[b].gen = Popped(popped)[b].gen
            /\ bucket'[b].value \in Value
       ELSE bucket'[b] = Popped(popped)[b]
  /\ \A b \in gone :
       IF b \in tconc \ popped
       THEN bucket'[b].chain = None /\ bucket'[b].form = "vector"
       ELSE bucket'[b] = Free

\* The other buckets are still found.
LEMMA RehashLemma ==
  ASSUME Assumptions, TableInvariant, NEW popped, NEW gone, Rehashed(popped, gone)
  PROVE  /\ LookupFinds' /\ OneBucket' /\ BucketForms' /\ NotOlderThanKey'
         /\ Members' = Members \ gone
         /\ \A k \in Key : Holders(k)' = Holders(k) \ gone
<1> USE DEF Rehashed
<1>0. popped \in SUBSET tconc /\ gone \in SUBSET Members
  OBVIOUS
<1>1. ASSUME NEW b \in Bucket, InTable(b), b \notin gone
      PROVE  /\ InTable(b)' /\ bucket'[b].key = bucket[b].key
             /\ bucket'[b].gen = bucket[b].gen /\ bucket'[b].value \in Value
             /\ b \in popped => /\ bucket'[b].chain = Index(bucket[b].key)
                                /\ bucket'[b].form = "tcbucket"
             /\ b \notin popped => /\ bucket'[b].chain = bucket[b].chain
                                   /\ bucket'[b].form = bucket[b].form
  BY <1>0, <1>1, PoppedLemma DEF InTable
<1>2. ASSUME NEW b \in Bucket, ~InTable(b)
      PROVE  /\ ~InTable(b)'
             /\ b \in popped => bucket'[b] = Free
             /\ b \notin popped => bucket'[b] = bucket[b]
  <2>1. b \notin gone
    BY <1>2 DEF Members
  <2> QED BY <1>0, <1>2, <2>1, PoppedLemma DEF InTable
<1>3. Free.chain = None
  BY DEF Free
<1>4. ASSUME NEW b \in gone PROVE b \in Bucket /\ ~InTable(b)'
  BY <1>3 DEF InTable, Members
<1>5. ASSUME NEW b \in Bucket PROVE InTable(b)' <=> (InTable(b) /\ b \notin gone)
  <2>1. CASE InTable(b) /\ b \notin gone
    BY <1>1, <2>1
  <2>2. CASE ~InTable(b)
    BY <1>2, <2>2
  <2>3. CASE b \in gone
    BY <1>4, <2>3
  <2> QED BY <2>1, <2>2, <2>3
<1>6. \A k \in Key : Index(k)' = Index(k)
  BY DEF Index, IndexFor
<1>7. LookupFinds'
  <2> SUFFICES ASSUME NEW b \in Bucket, InTable(b)'
               PROVE  bucket'[b].chain = Index(bucket[b].key) \/ b \in tconc'
    <3>1. \A b \in Bucket : InTable(b)' => bucket'[b].key = bucket[b].key /\ bucket[b].key \in Key
      BY <1>1, <1>5 DEF TableInvariant, BucketForms
    <3> QED BY <1>6, <3>1 DEF LookupFinds
  <2> QED BY <1>1, <1>5 DEF TableInvariant, LookupFinds
<1>8. OneBucket'
  BY <1>1, <1>5 DEF TableInvariant, OneBucket
<1>9. BucketForms'
  <2> SUFFICES ASSUME NEW b \in Bucket
               PROVE  IF InTable(b)'
                      THEN /\ bucket'[b].key \in Key /\ bucket'[b].value \in Value
                           /\ bucket'[b].form = IF b \in tconc' THEN "vector" ELSE "tcbucket"
                      ELSE IF b \in tconc' THEN bucket'[b].form = "vector"
                           ELSE bucket'[b] = Free
    BY DEF BucketForms
  <2>1. CASE InTable(b)'
    BY <1>1, <1>5, <2>1 DEF TableInvariant, BucketForms
  <2>2. CASE b \in gone
    BY <1>4, <2>2
  <2>3. CASE ~InTable(b)
    <3>1. ~InTable(b)'
      BY <1>2, <2>3
    <3>2. IF b \in tconc THEN bucket[b].form = "vector" ELSE bucket[b] = Free
      BY <2>3 DEF TableInvariant, BucketForms
    <3>3. CASE b \in popped
      BY <1>2, <2>3, <3>1, <3>3
    <3>4. CASE b \notin popped
      BY <1>2, <2>3, <3>1, <3>2, <3>4
    <3> QED BY <3>3, <3>4
  <2> QED BY <1>5, <2>1, <2>2, <2>3
<1>10. NotOlderThanKey'
  BY <1>1, <1>5 DEF TableInvariant, NotOlderThanKey
<1>11. Members' = Members \ gone
  BY <1>5 DEF Members
<1>12. \A k \in Key : Holders(k)' = Holders(k) \ gone
  BY <1>1, <1>5 DEF Holders
<1> QED BY <1>7, <1>8, <1>9, <1>10, <1>11, <1>12

\* The same, with what is left of the invariant.
LEMMA RehashInvariant ==
  ASSUME Assumptions, TableInvariant, NEW popped, NEW gone, Rehashed(popped, gone),
         size' = Cardinality(Members \ gone),
         result' \in Value \cup {None}, PendingOK', LookedUp'
  PROVE  TableInvariant'
<1>1. /\ LookupFinds' /\ OneBucket' /\ BucketForms' /\ NotOlderThanKey'
      /\ Members' = Members \ gone
  BY RehashLemma
<1>2. SizeCounts'
  BY <1>1 DEF SizeCounts, Members
<1>3. size' \in 0 .. Cardinality(Bucket)
  <2>1. IsFiniteSet(Bucket) /\ Members \ gone \subseteq Bucket
    BY DEF Assumptions, Members
  <2>2. IsFiniteSet(Members \ gone) /\ Cardinality(Members \ gone) <= Cardinality(Bucket)
    BY <2>1, FS_Subset
  <2> QED BY <2>1, <2>2, FS_CardinalityType
<1>4. TypeOK'
  <2>1. /\ address' \in [Key -> Address] /\ gen' \in [Key -> Gen]
        /\ tconc' \subseteq Bucket /\ length' \in MinLen .. MaxLen
    BY DEF TableInvariant, TypeOK, Rehashed
  <2> QED BY <1>3, <2>1 DEF TypeOK, PendingOK, BucketRecord, Rehashed
<1> QED BY <1>1, <1>2, <1>4 DEF TableInvariant

-----------------------------------------------------------------------------
(* The map that the table implements.                                      *)

\* The choice in a set of one.
LEMMA OneChoice ==
  ASSUME NEW S, NEW b \in S, \A a \in S : a = b
  PROVE  (CHOOSE a \in S : TRUE) = b
  OBVIOUS

\* A key is mapped to the value in its bucket.
LEMMA MapValue ==
  ASSUME OneBucket, NEW k \in Key
  PROVE  /\ Map[k] = ValueIn(Holders(k))
         /\ Holders(k) = {} => Map[k] = None
         /\ \A b \in Holders(k) : Map[k] = bucket[b].value
<1>1. Map[k] = ValueIn(Holders(k))
  BY DEF Map
<1>2. Holders(k) = {} => Map[k] = None
  BY <1>1 DEF ValueIn
<1>3. ASSUME NEW b \in Holders(k) PROVE Map[k] = bucket[b].value
  <2>1. \A a \in Holders(k) : a = b
    BY <1>3 DEF OneBucket, Holders
  <2>2. (CHOOSE a \in Holders(k) : TRUE) = b
    BY <1>3, <2>1, OneChoice
  <2> QED BY <1>1, <1>3, <2>2 DEF ValueIn
<1> QED BY <1>1, <1>2, <1>3

\* So it is after a step.
LEMMA MapValueNext ==
  ASSUME OneBucket', NEW k \in Key
  PROVE  /\ Holders(k)' = {} => Map'[k] = None
         /\ \A b \in Holders(k)' : Map'[k] = bucket'[b].value
<1>1. Map'[k] = ValueIn(Holders(k))'
  BY DEF Map
<1>2. Holders(k)' = {} => Map'[k] = None
  BY <1>1 DEF ValueIn
<1>3. ASSUME NEW b \in Holders(k)' PROVE Map'[k] = bucket'[b].value
  <2>1. \A a \in Holders(k)' : a = b
    BY <1>3 DEF OneBucket, Holders
  <2>2. (CHOOSE a \in Holders(k)' : TRUE) = b
    BY <1>3, <2>1, OneChoice
  <2> QED BY <1>1, <1>3, <2>2 DEF ValueIn
<1> QED BY <1>2, <1>3

\* A key whose bucket is left alone keeps its value.
LEMMA KeptValue ==
  ASSUME OneBucket, OneBucket', NEW k \in Key, Holders(k)' = Holders(k),
         \A b \in Holders(k) : bucket'[b].value = bucket[b].value
  PROVE  Map'[k] = Map[k]
<1>1. CASE Holders(k) = {}
  BY <1>1, MapValue, MapValueNext
<1>2. ASSUME NEW b \in Holders(k) PROVE Map'[k] = Map[k]
  <2>1. Map[k] = bucket[b].value
    BY <1>2, MapValue
  <2>2. Map'[k] = bucket'[b].value
    BY <1>2, MapValueNext
  <2> QED BY <1>2, <2>1, <2>2
<1> QED BY <1>1, <1>2

\* The map changes for one key at most.
LEMMA MapChanges ==
  ASSUME NEW k \in Key, NEW w, \A j \in Key \ {k} : Map'[j] = Map[j], Map'[k] = w
  PROVE  Map' = [Map EXCEPT ![k] = w]
  BY DEF Map

\* Or for none.
LEMMA MapKept ==
  ASSUME \A k \in Key : Map'[k] = Map[k]
  PROVE  Map' = Map
  BY DEF Map

-----------------------------------------------------------------------------
(* The steps.                                                              *)

\* A lookup that changes nothing in the table but where buckets wait.
LEMMA LookupStep ==
  ASSUME Assumptions, TableInvariant, NEW k \in Key,
         NEW found \in SUBSET Bucket, NEW popped \in SUBSET Bucket,
         get_bucket(k, found, popped), Rehash(popped), UNCHANGED <<address, gen, length, size>>,
         result' \in Value \cup {None}, PendingOK',
         \/ pending' = pending
         \/ pending' = [op |-> "update", key |-> k, found |-> found]
         \/ pending'.op = "insert" /\ pending'.key = k /\ found = {}
  PROVE  TableInvariant' /\ Map' = Map /\ ValueIn(found) = Map[k]
<1>1. found = Holders(k) /\ popped \subseteq tconc
  BY LookupLemma
<1>2. /\ bucket' \in [Bucket -> BucketRecord(length)] /\ tconc' = tconc \ popped
      /\ \A b \in Bucket : bucket'[b] = Popped(popped)[b]
  <2>1. bucket' = Popped(popped) /\ tconc' = tconc \ popped
    BY DEF Rehash
  <2>2. \A b \in Bucket : Popped(popped)[b] \in BucketRecord(length)
    BY <1>1, PoppedLemma
  <2> QED BY <2>1, <2>2 DEF Popped
<1>3. \A b \in Bucket : InTable(b) => bucket'[b].value = bucket[b].value /\ bucket'[b].value \in Value
  BY <1>1, <1>2, PoppedLemma DEF TableInvariant, BucketForms
<1>4. Rehashed(popped, {})
  BY <1>1, <1>2, <1>3 DEF Rehashed
<1>5. \A j \in Key : Holders(j)' = Holders(j)
  <2>1. \A j \in Key : Holders(j)' = Holders(j) \ {}
    BY <1>4, RehashLemma
  <2>2. \A j \in Key : Holders(j) \ {} = Holders(j)
    OBVIOUS
  <2> QED BY <2>1, <2>2
<1>6. LookedUp'
  <2>1. CASE pending' = pending
    BY <1>5, <2>1 DEF LookedUp, TableInvariant, TypeOK, PendingOK, Idle
  <2>2. CASE pending' = [op |-> "update", key |-> k, found |-> found]
    BY <1>1, <1>5, <2>2 DEF LookedUp
  <2>3. CASE pending'.op = "insert" /\ pending'.key = k /\ found = {}
    BY <1>1, <1>5, <2>3 DEF LookedUp
  <2> QED BY <2>1, <2>2, <2>3
<1>7. TableInvariant'
  <2>1. Members \ {} = Members
    OBVIOUS
  <2>2. size' = Cardinality(Members \ {})
    BY <2>1, MembersLemma
  <2> QED BY <1>4, <1>6, <2>2, RehashInvariant
<1>8. Map' = Map
  <2>1. ASSUME NEW j \in Key PROVE Map'[j] = Map[j]
    BY <1>3, <1>5, <1>7, KeptValue DEF TableInvariant, Holders
  <2> QED BY <2>1, MapKept
<1>9. ValueIn(found) = Map[k]
  BY <1>1, MapValue DEF TableInvariant
<1> QED BY <1>7, <1>8, <1>9

\* hashtable-ref
LEMMA GetStep ==
  ASSUME Assumptions, TableInvariant, NEW k \in Key, get_hash(k)
  PROVE  TableInvariant' /\ Table!Ref(k)
<1>1. PICK found, popped \in SUBSET Bucket :
        get_bucket(k, found, popped) /\ Rehash(popped) /\ result' = ValueIn(found)
  BY DEF get_hash
<1>2. ValueIn(found) \in Value \cup {None}
  <2>1. found = Holders(k)
    BY <1>1, LookupLemma
  <2>2. \A b \in Holders(k) : ValueIn(found) = bucket[b].value /\ bucket[b].value \in Value
    BY <2>1, MapValue DEF TableInvariant, BucketForms, Holders
  <2>3. Holders(k) = {} => ValueIn(found) = None
    BY <2>1 DEF ValueIn
  <2> QED BY <2>2, <2>3
<1>3. UNCHANGED <<address, gen, length, size>> /\ pending' = pending /\ PendingOK'
  <2>1. UNCHANGED <<address, gen, length, size>> /\ pending' = pending
    BY DEF get_hash
  <2>2. PendingOK
    BY DEF TableInvariant, TypeOK
  <2> QED BY <2>1, <2>2 DEF PendingOK
<1>4. TableInvariant' /\ Map' = Map /\ ValueIn(found) = Map[k]
  BY <1>1, <1>2, <1>3, LookupStep
<1> QED BY <1>1, <1>4 DEF Table!Ref

\* update-hash!, up to the call of the procedure of the program
LEMMA UpdateBeginsStep ==
  ASSUME Assumptions, TableInvariant, NEW k \in Key, UpdateBegins(k)
  PROVE  TableInvariant' /\ UNCHANGED <<Map, result>>
<1>1. PICK found, popped \in SUBSET Bucket :
        /\ get_bucket(k, found, popped) /\ Rehash(popped)
        /\ pending' = [op |-> "update", key |-> k, found |-> found]
  BY DEF UpdateBegins
<1>2. PendingOK' /\ result' \in Value \cup {None}
  BY <1>1 DEF PendingOK, UpdateBegins, TableInvariant, TypeOK
<1> QED BY <1>1, <1>2, LookupStep DEF UpdateBegins

\* A value is stored in the bucket of a key.
LEMMA StoreStep ==
  ASSUME Assumptions, TableInvariant, NEW k \in Key, NEW v \in Value, NEW popped,
         Holders(k) # {}, Rehashed(popped, {}),
         \A b \in Members : bucket'[b].value = IF b \in Holders(k) THEN v ELSE bucket[b].value,
         size' = size, pending' = Idle, result' = v
  PROVE  TableInvariant' /\ Table!Set(k, v)
<1>1. PendingOK' /\ LookedUp' /\ result' \in Value \cup {None}
  BY DEF PendingOK, LookedUp, Idle
<1>2. TableInvariant'
  <2>1. size' = Cardinality(Members \ {})
    <3>1. Members \ {} = Members
      OBVIOUS
    <3> QED BY <3>1, MembersLemma
  <2> QED BY <1>1, <2>1, RehashInvariant
<1>3. \A j \in Key : Holders(j)' = Holders(j)
  <2>1. \A j \in Key : Holders(j)' = Holders(j) \ {}
    BY RehashLemma
  <2> QED BY <2>1
<1>4. \A j \in Key : Holders(j) \subseteq Members
  BY DEF Holders, Members
<1>5. Map'[k] = v
  <2>1. PICK b : b \in Holders(k)
    OBVIOUS
  <2>2. bucket'[b].value = v
    BY <1>4, <2>1
  <2>3. Map'[k] = bucket'[b].value
    BY <1>2, <1>3, <2>1, MapValueNext DEF TableInvariant
  <2> QED BY <2>2, <2>3
<1>6. ASSUME NEW j \in Key \ {k} PROVE Map'[j] = Map[j]
  <2>1. \A b \in Holders(j) : bucket'[b].value = bucket[b].value
    BY <1>4 DEF Holders
  <2> QED BY <1>2, <1>3, <2>1, KeptValue DEF TableInvariant
<1>7. Map' = [Map EXCEPT ![k] = v]
  BY <1>5, <1>6, MapChanges
<1> QED BY <1>2, <1>7 DEF Table!Set

\* put-hash!, up to the allocation of a bucket
LEMMA PutStep ==
  ASSUME Assumptions, TableInvariant, NEW k \in Key, NEW v \in Value, Put(k, v)
  PROVE  TableInvariant' /\ (UNCHANGED <<Map, result>> \/ Table!Set(k, v))
<1>1. PICK found, popped \in SUBSET Bucket :
        /\ get_bucket(k, found, popped) /\ tconc' = tconc \ popped
        /\ IF found = {}
           THEN /\ bucket' = Popped(popped)
                /\ pending' = [op |-> "insert", key |-> k, value |-> v, ih |-> address[k]]
                /\ UNCHANGED result
           ELSE /\ bucket' = [b \in Bucket |->
                                IF b \in found THEN [Popped(popped)[b] EXCEPT !.value = v]
                                               ELSE Popped(popped)[b]]
                /\ pending' = Idle /\ result' = v
  BY DEF Put
<1>2. UNCHANGED <<address, gen, length, size>>
  BY DEF Put
<1>3. found = Holders(k) /\ popped \subseteq tconc
  BY <1>1, LookupLemma
<1>4. CASE found = {}
  <2>1. Rehash(popped) /\ UNCHANGED result
    BY <1>1, <1>4 DEF Rehash
  <2>2. pending' = [op |-> "insert", key |-> k, value |-> v, ih |-> address[k]]
    BY <1>1, <1>4
  <2>3. result' \in Value \cup {None} /\ address[k] \in Address
    BY <2>1 DEF TableInvariant, TypeOK
  <2>4. PendingOK' /\ pending'.op = "insert" /\ pending'.key = k
    BY <2>2, <2>3 DEF PendingOK, Address
  <2> QED BY <1>1, <1>2, <1>4, <2>1, <2>3, <2>4, LookupStep
<1>5. CASE found # {}
  <2>1. /\ pending' = Idle /\ result' = v
        /\ bucket' = [b \in Bucket |->
                        IF b \in found THEN [Popped(popped)[b] EXCEPT !.value = v]
                                       ELSE Popped(popped)[b]]
    BY <1>1, <1>5
  <2>2. \A b \in Bucket : Popped(popped)[b] \in BucketRecord(length)
    BY <1>3, PoppedLemma
  <2>3. ASSUME NEW b \in Bucket
        PROVE  /\ bucket'[b] \in BucketRecord(length)
               /\ bucket'[b].key = Popped(popped)[b].key
               /\ bucket'[b].chain = Popped(popped)[b].chain
               /\ bucket'[b].form = Popped(popped)[b].form
               /\ bucket'[b].gen = Popped(popped)[b].gen
               /\ bucket'[b].value = IF b \in found THEN v ELSE Popped(popped)[b].value
               /\ b \notin found => bucket'[b] = Popped(popped)[b]
    BY <2>1, <2>2 DEF BucketRecord
  <2>4. \A b \in Members : bucket'[b].value = IF b \in Holders(k) THEN v ELSE bucket[b].value
    BY <1>3, <2>3, PoppedLemma DEF Members
  <2>5. \A b \in Bucket : InTable(b) => bucket'[b].value \in Value
    BY <2>4 DEF Members, TableInvariant, BucketForms
  <2>6. \A b \in Bucket : ~InTable(b) => bucket'[b] = Popped(popped)[b]
    BY <1>3, <2>3 DEF Holders
  <2>7. bucket' \in [Bucket -> BucketRecord(length)]
    BY <2>1, <2>3
  <2>8. Rehashed(popped, {})
    BY <1>1, <1>2, <1>3, <2>3, <2>5, <2>6, <2>7 DEF Rehashed
  <2> QED BY <1>2, <1>3, <1>5, <2>1, <2>4, <2>8, StoreStep
<1> QED BY <1>4, <1>5

\* The operation at work.
LEMMA PendingForms ==
  ASSUME Assumptions, TableInvariant
  PROVE  /\ pending.op = "insert" =>
              /\ pending.key \in Key /\ pending.value \in Value
              /\ pending.ih \in Address /\ Holders(pending.key) = {}
         /\ pending.op = "update" =>
              /\ pending.key \in Key /\ pending.found \subseteq Bucket
              /\ pending.found = Holders(pending.key)
         /\ pending.op = "enlarge" => 2 * length <= MaxLen
<1>1. PendingOK /\ LookedUp
  BY DEF TableInvariant, TypeOK
<1> QED BY <1>1 DEF PendingOK, LookedUp, Idle

\* update-hash!, after the procedure of the program
LEMMA UpdateEndsStep ==
  ASSUME Assumptions, TableInvariant, NEW v \in Value, UpdateEnds(v)
  PROVE  TableInvariant' /\ (UNCHANGED <<Map, result>> \/ \E k \in Key : Table!Set(k, v))
<1>1. pending.key \in Key /\ pending.found = Holders(pending.key) /\ pending.found \subseteq Bucket
  BY PendingForms DEF UpdateEnds
<1>2. CASE pending.found = {}
  <2>1. Put(pending.key, v)
    BY <1>2 DEF UpdateEnds
  <2> QED BY <1>1, <2>1, PutStep
<1>3. CASE pending.found # {}
  <2>1. /\ bucket' = [b \in Bucket |-> IF b \in pending.found
                                       THEN [bucket[b] EXCEPT !.value = v] ELSE bucket[b]]
        /\ pending' = Idle /\ result' = v
        /\ UNCHANGED <<address, gen, length, size>> /\ tconc' = tconc
    BY <1>3 DEF UpdateEnds
  <2>2. bucket \in [Bucket -> BucketRecord(length)]
    BY DEF TableInvariant, TypeOK, BucketRecord
  <2>3. \A b \in Bucket : Popped({})[b] = bucket[b]
    BY DEF Popped
  <2>4. ASSUME NEW b \in Bucket
        PROVE  /\ bucket'[b] \in BucketRecord(length)
               /\ bucket'[b].key = Popped({})[b].key
               /\ bucket'[b].chain = Popped({})[b].chain
               /\ bucket'[b].form = Popped({})[b].form
               /\ bucket'[b].gen = Popped({})[b].gen
               /\ bucket'[b].value = IF b \in pending.found THEN v ELSE bucket[b].value
               /\ b \notin pending.found => bucket'[b] = Popped({})[b]
    <3>1. bucket[b] \in BucketRecord(length) /\ Popped({})[b] = bucket[b]
      BY <2>2, <2>3
    <3>2. bucket'[b] = IF b \in pending.found
                       THEN [bucket[b] EXCEPT !.value = v] ELSE bucket[b]
      BY <2>1
    <3> QED BY <3>1, <3>2 DEF BucketRecord
  <2>5. \A b \in Members :
          bucket'[b].value = IF b \in Holders(pending.key) THEN v ELSE bucket[b].value
    BY <1>1, <2>4 DEF Members
  <2>6. \A b \in Bucket : InTable(b) => bucket'[b].value \in Value
    BY <2>5 DEF Members, TableInvariant, BucketForms
  <2>7. \A b \in Bucket : ~InTable(b) => bucket'[b] = Popped({})[b]
    BY <1>1, <2>4 DEF Holders
  <2>8. bucket' \in [Bucket -> BucketRecord(length)]
    BY <2>1, <2>4
  <2>9. Rehashed({}, {})
    BY <2>1, <2>4, <2>6, <2>7, <2>8 DEF Rehashed
  <2> QED BY <1>1, <1>3, <2>1, <2>5, <2>9, StoreStep
<1> QED BY <1>2, <1>3

\* del-hash
LEMMA DeleteStep ==
  ASSUME Assumptions, TableInvariant, NEW k \in Key, del_hash(k)
  PROVE  TableInvariant' /\ Table!Delete(k)
<1>1. PICK found, popped \in SUBSET Bucket :
        /\ get_bucket(k, found, popped) /\ tconc' = tconc \ popped
        /\ bucket' = [b \in Bucket |->
                        IF b \notin found THEN Popped(popped)[b]
                        ELSE IF b \in tconc \ popped THEN [bucket[b] EXCEPT !.chain = None]
                        ELSE Free]
        /\ size' = SizeAfterDelete(found) /\ result' = ValueIn(found)
  BY DEF del_hash
<1>2. UNCHANGED <<address, gen, length, pending>> /\ pending = Idle
  BY DEF del_hash
<1>3. found = Holders(k) /\ popped \subseteq tconc
  BY <1>1, LookupLemma
<1>4. found \subseteq Members /\ \A a, b \in found : a = b
  BY <1>3 DEF Holders, Members, TableInvariant, OneBucket
<1>5. ASSUME NEW b \in Bucket, b \notin found
      PROVE  bucket'[b] = Popped(popped)[b] /\ bucket'[b] \in BucketRecord(length)
  BY <1>1, <1>3, <1>5, PoppedLemma
<1>6. ASSUME NEW b \in found
      PROVE  /\ bucket'[b] \in BucketRecord(length)
             /\ IF b \in tconc \ popped
                THEN bucket'[b].chain = None /\ bucket'[b].form = "vector"
                ELSE bucket'[b] = Free
  <2>1. CASE b \in tconc \ popped
    <3>1. bucket[b] \in BucketRecord(length) /\ bucket[b].form = "vector"
      BY <1>4, <2>1 DEF Members, TableInvariant, BucketForms, TypeOK, BucketRecord
    <3>2. bucket'[b] = [bucket[b] EXCEPT !.chain = None]
      BY <1>1, <1>4, <2>1
    <3> QED BY <2>1, <3>1, <3>2 DEF BucketRecord
  <2>2. CASE b \notin tconc \ popped
    <3>1. bucket'[b] = Free
      BY <1>1, <1>4, <2>2
    <3>2. 0 \in Gen
      BY DEF Gen, Assumptions
    <3>3. Free \in BucketRecord(length)
      BY <3>2 DEF Free, BucketRecord
    <3> QED BY <2>2, <3>1, <3>3
  <2> QED BY <2>1, <2>2
<1>7. \A b \in Bucket \ found : InTable(b) => bucket'[b].value \in Value
  BY <1>3, <1>5, PoppedLemma DEF TableInvariant, BucketForms
<1>8. bucket' \in [Bucket -> BucketRecord(length)]
  <2>1. \A b \in Bucket : bucket'[b] \in BucketRecord(length)
    BY <1>5, <1>6
  <2>2. DOMAIN bucket' = Bucket /\ bucket' = [b \in Bucket |-> bucket'[b]]
    BY <1>1
  <2> QED BY <2>1, <2>2
<1>9. Rehashed(popped, found)
  BY <1>1, <1>2, <1>3, <1>4, <1>5, <1>6, <1>7, <1>8 DEF Rehashed
<1>10. size' = Cardinality(Members \ found)
  <2>1. CASE found = {}
    <3>1. Members \ found = Members
      BY <2>1
    <3> QED BY <1>1, <2>1, <3>1, MembersLemma DEF SizeAfterDelete
  <2>2. ASSUME NEW b \in found PROVE size' = Cardinality(Members \ found)
    <3>1. found = {b} /\ b \in Members
      BY <1>4, <2>2
    <3>2. Cardinality(Members \ {b}) = Cardinality(Members) - 1
      BY <3>1, MembersLemma, FS_RemoveElement
    <3> QED BY <1>1, <3>1, <3>2, MembersLemma DEF SizeAfterDelete
  <2> QED BY <2>1, <2>2
<1>11. ValueIn(found) = Map[k]
  BY <1>3, MapValue DEF TableInvariant
<1>12. result' \in Value \cup {None}
  <2>1. \A b \in Holders(k) : Map[k] = bucket[b].value /\ bucket[b].value \in Value
    BY MapValue DEF TableInvariant, BucketForms, Holders
  <2>2. Holders(k) = {} => Map[k] = None
    BY MapValue DEF TableInvariant
  <2> QED BY <1>1, <1>11, <2>1, <2>2
<1>13. PendingOK' /\ LookedUp'
  BY <1>2 DEF PendingOK, LookedUp, Idle
<1>14. TableInvariant'
  BY <1>9, <1>10, <1>12, <1>13, RehashInvariant
<1>15. \A j \in Key : Holders(j)' = Holders(j) \ found
  BY <1>9, RehashLemma
<1>16. Map'[k] = None
  BY <1>3, <1>14, <1>15, MapValueNext DEF TableInvariant
<1>17. ASSUME NEW j \in Key \ {k} PROVE Map'[j] = Map[j]
  <2>1. Holders(j) \cap found = {} /\ Holders(j)' = Holders(j)
    BY <1>3, <1>15 DEF Holders
  <2>2. ASSUME NEW b \in Holders(j) PROVE bucket'[b].value = bucket[b].value
    <3>1. b \in Bucket /\ InTable(b) /\ b \notin found
      BY <2>1, <2>2 DEF Holders
    <3> QED BY <1>3, <1>5, <3>1, PoppedLemma
  <2> QED BY <1>14, <2>1, <2>2, KeptValue DEF TableInvariant
<1>18. Map' = [Map EXCEPT ![k] = None]
  BY <1>16, <1>17, MapChanges
<1> QED BY <1>1, <1>11, <1>14, <1>18 DEF Table!Delete

\* clear-hash!
LEMMA ClearStep ==
  ASSUME Assumptions, TableInvariant, clear_hash
  PROVE  TableInvariant' /\ Table!Clear
<1>1. \A b \in Bucket : bucket'[b] = Free /\ ~InTable(b)'
  BY DEF clear_hash, InTable, Free
<1>2. Members' = {} /\ {b \in Bucket : InTable(b)'} = {}
  BY <1>1 DEF Members
<1>3. LookupFinds' /\ OneBucket' /\ BucketForms' /\ NotOlderThanKey'
  BY <1>1 DEF LookupFinds, OneBucket, BucketForms, NotOlderThanKey, clear_hash
<1>4. SizeCounts' /\ size' \in 0 .. Cardinality(Bucket)
  <2>1. Cardinality({}) = 0 /\ size' = 0
    BY FS_EmptySet DEF clear_hash
  <2>2. Cardinality(Bucket) \in Nat
    BY FS_CardinalityType DEF Assumptions
  <2>3. SizeCounts'
    BY <1>2, <2>1 DEF SizeCounts
  <2> QED BY <2>1, <2>2, <2>3
<1>5. PendingOK' /\ LookedUp'
  BY DEF clear_hash, PendingOK, LookedUp, Idle
<1>6. bucket' \in [Bucket -> BucketRecord(length)]
  <2>1. 0 \in Gen
    BY DEF Gen, Assumptions
  <2>2. Free \in BucketRecord(length)
    BY <2>1 DEF Free, BucketRecord
  <2> QED BY <2>2 DEF clear_hash
<1>7. TypeOK'
  <2>1. /\ address' \in [Key -> Address] /\ gen' \in [Key -> Gen] /\ length' \in MinLen .. MaxLen
        /\ tconc' \subseteq Bucket /\ result' \in Value \cup {None} /\ length' = length
    BY DEF clear_hash, TableInvariant, TypeOK
  <2> QED BY <1>4, <1>5, <1>6, <2>1 DEF TypeOK, BucketRecord
<1>8. Map' = [k \in Key |-> None]
  <2>1. \A k \in Key : Holders(k)' = {}
    BY <1>1 DEF Holders
  <2>2. \A k \in Key : Map'[k] = None
    BY <1>3, <2>1, MapValueNext
  <2> QED BY <2>2 DEF Map
<1> QED BY <1>3, <1>4, <1>5, <1>7, <1>8 DEF TableInvariant, Table!Clear, clear_hash

\* put-hash!, once a bucket is allocated: whether or not a collection has moved
\* the key meanwhile, the bucket is in the chain of its address.
LEMMA InsertStep ==
  ASSUME Assumptions, TableInvariant, NEW b \in Bucket, InsertBucket(b)
  PROVE  TableInvariant' /\ \E k \in Key, v \in Value : Table!Set(k, v)
<1>1. PICK k \in Key, v \in Value, ih \in Address :
        pending.key = k /\ pending.value = v /\ pending.ih = ih /\ Holders(k) = {}
  BY PendingForms DEF InsertBucket
<1>2. /\ bucket[b] = Free /\ b \notin tconc /\ ~InTable(b)
      /\ UNCHANGED <<address, gen, tconc, length>> /\ size' = size + 1 /\ result' = v
  BY <1>1 DEF InsertBucket, InTable, Free
<1>3. InsertIndex(k, ih) = Index(k)
  BY DEF InsertIndex, Index, IndexFor
<1>4. length \in Nat \ {0} /\ address \in [Key -> Address] /\ bucket \in [Bucket -> BucketRecord(length)]
  BY DEF TableInvariant, TypeOK, Assumptions, BucketRecord
<1>5. Index(k) \in 0 .. length - 1 /\ Index(k) # None
  BY <1>4, IndexType DEF Index
<1>6. bucket' = [bucket EXCEPT ![b] = [key |-> k, value |-> v, chain |-> Index(k),
                                       form |-> "tcbucket", gen |-> 0]]
  BY <1>1, <1>3 DEF InsertBucket
<1>7. /\ bucket'[b] = [key |-> k, value |-> v, chain |-> Index(k), form |-> "tcbucket", gen |-> 0]
      /\ \A a \in Bucket \ {b} : bucket'[a] = bucket[a]
  BY <1>4, <1>6
<1>8. bucket' \in [Bucket -> BucketRecord(length)]
  <2>1. 0 \in Gen
    BY DEF Gen, Assumptions
  <2>2. bucket'[b] \in BucketRecord(length)
    BY <1>5, <1>7, <2>1 DEF BucketRecord
  <2> QED BY <1>4, <1>6, <1>7, <2>2
<1>9. \A a \in Bucket : InTable(a)' <=> (InTable(a) \/ a = b)
  BY <1>5, <1>7 DEF InTable
<1>10. \A j \in Key : Index(j)' = Index(j)
  BY <1>2 DEF Index, IndexFor
<1>11. LookupFinds'
  <2> SUFFICES ASSUME NEW a \in Bucket, InTable(a)'
               PROVE  bucket'[a].chain = Index(bucket[a].key)' \/ a \in tconc'
    BY DEF LookupFinds
  <2> QED BY <1>2, <1>7, <1>9, <1>10 DEF TableInvariant, LookupFinds, BucketForms

<1>12. OneBucket'
  <2> SUFFICES ASSUME NEW a \in Bucket, NEW c \in Bucket, InTable(a)', InTable(c)',
                      bucket'[a].key = bucket'[c].key
               PROVE  a = c
    BY DEF OneBucket
  <2>1. ASSUME NEW d \in Bucket, InTable(d), d # b PROVE bucket'[d].key # k
    <3>1. bucket'[d] = bucket[d]
      BY <1>7, <2>1
    <3>2. d \notin Holders(k)
      BY <1>1
    <3> QED BY <2>1, <3>1, <3>2 DEF Holders
  <2>2. bucket'[b].key = k
    BY <1>7
  <2>3. CASE a # b /\ c # b
    <3>1. bucket'[a] = bucket[a] /\ bucket'[c] = bucket[c] /\ InTable(a) /\ InTable(c)
      BY <1>7, <1>9, <2>3
    <3> QED BY <3>1 DEF TableInvariant, OneBucket
  <2>4. CASE a = b \/ c = b
    BY <1>9, <2>1, <2>2, <2>4
  <2> QED BY <2>3, <2>4
<1>13. Members' = Members \cup {b} /\ b \notin Members
  BY <1>2, <1>9 DEF Members
<1>14. SizeCounts' /\ size' \in 0 .. Cardinality(Bucket)
  <2>1. IsFiniteSet(Members) /\ size = Cardinality(Members) /\ size \in Nat
    BY MembersLemma
  <2>2. Cardinality(Members \cup {b}) = size + 1
    BY <1>13, <2>1, FS_AddElement
  <2>3. SizeCounts'
    BY <1>2, <1>13, <2>2 DEF SizeCounts, Members
  <2>4. IsFiniteSet(Bucket) /\ Members \cup {b} \subseteq Bucket
    BY DEF Assumptions, Members
  <2>5. Cardinality(Members \cup {b}) <= Cardinality(Bucket)
    BY <2>4, FS_Subset
  <2>6. Cardinality(Bucket) \in Nat
    BY <2>4, FS_CardinalityType
  <2> QED BY <1>2, <2>1, <2>2, <2>3, <2>5, <2>6
<1>15. BucketForms'
  <2> SUFFICES ASSUME NEW a \in Bucket
               PROVE  IF InTable(a)'
                      THEN /\ bucket'[a].key \in Key /\ bucket'[a].value \in Value
                           /\ bucket'[a].form = IF a \in tconc' THEN "vector" ELSE "tcbucket"
                      ELSE IF a \in tconc' THEN bucket'[a].form = "vector"
                           ELSE bucket'[a] = Free
    BY DEF BucketForms
  <2>1. CASE a = b
    BY <1>2, <1>7, <1>9, <2>1
  <2>2. CASE a # b
    <3>1. bucket'[a] = bucket[a] /\ (InTable(a)' <=> InTable(a)) /\ tconc' = tconc
      BY <1>2, <1>7, <1>9, <2>2
    <3> QED BY <3>1 DEF TableInvariant, BucketForms
  <2> QED BY <2>1, <2>2
<1>16. NotOlderThanKey'
  <2>1. gen' = gen /\ gen[k] \in Nat
    BY <1>2 DEF TableInvariant, TypeOK, Gen
  <2>2. bucket'[b].gen <= gen'[bucket'[b].key]
    BY <1>7, <2>1
  <2>3. \A a \in Bucket \ {b} : InTable(a)' => bucket'[a].gen <= gen'[bucket'[a].key]
    BY <1>7, <1>9, <2>1 DEF TableInvariant, NotOlderThanKey
  <2> QED BY <2>2, <2>3 DEF NotOlderThanKey
<1>17. PendingOK' /\ LookedUp'
  <2>1. pending' = IF size > length /\ 2 * length <= MaxLen THEN [op |-> "enlarge"] ELSE Idle
    BY DEF InsertBucket
  <2> QED BY <1>2, <2>1 DEF PendingOK, LookedUp, Idle
<1>18. TypeOK'
  <2>1. /\ address' \in [Key -> Address] /\ gen' \in [Key -> Gen] /\ length' \in MinLen .. MaxLen
        /\ tconc' \subseteq Bucket /\ result' \in Value \cup {None} /\ length' = length
    BY <1>2 DEF TableInvariant, TypeOK
  <2> QED BY <1>8, <1>14, <1>17, <2>1 DEF TypeOK, BucketRecord
<1>19. TableInvariant'
  BY <1>11, <1>12, <1>14, <1>15, <1>16, <1>17, <1>18 DEF TableInvariant
<1>20. Map'[k] = v
  <2>1. b \in Holders(k)'
    BY <1>7, <1>9 DEF Holders
  <2> QED BY <1>7, <1>19, <2>1, MapValueNext DEF TableInvariant
<1>21. ASSUME NEW j \in Key \ {k} PROVE Map'[j] = Map[j]
  <2>1. Holders(j)' = Holders(j)
    BY <1>2, <1>7, <1>9 DEF Holders
  <2>2. \A a \in Holders(j) : bucket'[a].value = bucket[a].value
    BY <1>2, <1>7 DEF Holders
  <2> QED BY <1>19, <2>1, <2>2, KeptValue DEF TableInvariant
<1>22. Map' = [Map EXCEPT ![k] = v]
  BY <1>20, <1>21, MapChanges
<1> QED BY <1>2, <1>19, <1>22 DEF Table!Set

\* enlarge-table
LEMMA EnlargeStep ==
  ASSUME Assumptions, TableInvariant, enlarge_table
  PROVE  TableInvariant' /\ UNCHANGED <<Map, result>>
<1>1. /\ length' = 2 * length /\ pending' = Idle
      /\ UNCHANGED <<address, gen, tconc, size, result>>
      /\ 2 * length <= MaxLen
  BY PendingForms DEF enlarge_table
<1>2. /\ bucket \in [Bucket -> BucketRecord(length)] /\ length \in MinLen .. MaxLen
      /\ 2 * length \in Nat \ {0} /\ address \in [Key -> Address] /\ length \in Nat
  BY DEF TableInvariant, TypeOK, Assumptions, BucketRecord
<1>3. ASSUME NEW b \in Bucket
      PROVE  bucket'[b] = IF InTable(b) THEN [bucket[b] EXCEPT
                                                !.chain = IndexFor(bucket[b].key, 2 * length)]
                                        ELSE bucket[b]
  BY DEF enlarge_table
<1>4. ASSUME NEW b \in Bucket, InTable(b)
      PROVE  /\ InTable(b)' /\ bucket'[b].key = bucket[b].key /\ bucket[b].key \in Key
             /\ bucket'[b].chain = IndexFor(bucket[b].key, 2 * length)
             /\ bucket'[b].value = bucket[b].value /\ bucket'[b].form = bucket[b].form
             /\ bucket'[b].gen = bucket[b].gen
             /\ bucket'[b] \in BucketRecord(2 * length)
  <2>1. bucket[b] \in BucketRecord(length) /\ bucket[b].key \in Key
    BY <1>2, <1>4 DEF TableInvariant, BucketForms
  <2>2. IndexFor(bucket[b].key, 2 * length) \in 0 .. 2 * length - 1
        /\ IndexFor(bucket[b].key, 2 * length) # None
    BY <1>2, <2>1, IndexType
  <2> QED BY <1>3, <1>4, <2>1, <2>2 DEF InTable, BucketRecord
<1>5. ASSUME NEW b \in Bucket, ~InTable(b)
      PROVE  ~InTable(b)' /\ bucket'[b] = bucket[b] /\ bucket'[b] \in BucketRecord(2 * length)
  <2>1. bucket[b] \in BucketRecord(length)
    BY <1>2
  <2> QED BY <1>2, <1>3, <1>5, <2>1 DEF InTable, BucketRecord
<1>6. \A b \in Bucket : InTable(b)' <=> InTable(b)
  BY <1>4, <1>5
<1>7. LookupFinds'
  BY <1>1, <1>4, <1>6 DEF LookupFinds, Index, IndexFor
<1>8. OneBucket'
  BY <1>4, <1>6 DEF OneBucket, TableInvariant
<1>9. SizeCounts' /\ size' \in 0 .. Cardinality(Bucket)
  <2>1. {b \in Bucket : InTable(b)}' = {b \in Bucket : InTable(b)}
    BY <1>6
  <2> QED BY <1>1, <2>1 DEF SizeCounts, TableInvariant, TypeOK
<1>10. BucketForms'
  <2> SUFFICES ASSUME NEW a \in Bucket
               PROVE  IF InTable(a)'
                      THEN /\ bucket'[a].key \in Key /\ bucket'[a].value \in Value
                           /\ bucket'[a].form = IF a \in tconc' THEN "vector" ELSE "tcbucket"
                      ELSE IF a \in tconc' THEN bucket'[a].form = "vector"
                           ELSE bucket'[a] = Free
    BY DEF BucketForms
  <2>1. CASE InTable(a)
    BY <1>1, <1>4, <2>1 DEF TableInvariant, BucketForms
  <2>2. CASE ~InTable(a)
    BY <1>1, <1>5, <2>2 DEF TableInvariant, BucketForms
  <2> QED BY <2>1, <2>2
<1>11. NotOlderThanKey'
  BY <1>1, <1>4, <1>6 DEF NotOlderThanKey, TableInvariant
<1>12. PendingOK' /\ LookedUp'
  BY <1>1 DEF PendingOK, LookedUp, Idle
<1>13. TypeOK'
  <2>1. bucket' \in [Bucket -> BucketRecord(2 * length)]
    BY <1>4, <1>5 DEF enlarge_table
  <2>2. /\ address' \in [Key -> Address] /\ gen' \in [Key -> Gen] /\ length' \in MinLen .. MaxLen
        /\ tconc' \subseteq Bucket /\ result' \in Value \cup {None}
    BY <1>1, <1>2 DEF TableInvariant, TypeOK, Assumptions
  <2> QED BY <1>1, <1>9, <1>12, <2>1, <2>2 DEF TypeOK, BucketRecord
<1>14. TableInvariant'
  BY <1>7, <1>8, <1>9, <1>10, <1>11, <1>12, <1>13 DEF TableInvariant
<1>15. ASSUME NEW k \in Key PROVE Map'[k] = Map[k]
  <2>1. Holders(k)' = Holders(k)
    BY <1>4, <1>6 DEF Holders
  <2>2. \A b \in Holders(k) : bucket'[b].value = bucket[b].value
    BY <1>4 DEF Holders
  <2> QED BY <1>14, <2>1, <2>2, KeptValue DEF TableInvariant
<1> QED BY <1>1, <1>14, <1>15, MapKept

\* A collection: a bucket whose key is moved is put in the tconc, and a bucket
\* is older than its key at no time.
LEMMA CollectStep ==
  ASSUME Assumptions, TableInvariant, NEW g \in Gen, Collect(g)
  PROVE  TableInvariant' /\ UNCHANGED <<Map, result>>
<1> DEFINE next == next_gen(g)
<1>1. PICK moved \in [{k \in Key : gen[k] <= g} -> Address] :
        address' = [k \in Key |-> IF gen[k] <= g THEN moved[k] ELSE address[k]]
  BY DEF Collect
<1>2. /\ gen' = [k \in Key |-> IF gen[k] <= g THEN next ELSE gen[k]]
      /\ tconc' = tconc \cup {b \in Bucket : Pushed(b, g)}
      /\ UNCHANGED <<length, size, pending, result>>
  BY DEF Collect
<1>3. /\ bucket \in [Bucket -> BucketRecord(length)] /\ gen \in [Key -> Gen]
      /\ address \in [Key -> Address] /\ LastGen \in Nat
  BY DEF TableInvariant, TypeOK, Assumptions, BucketRecord
<1>4. next \in Gen /\ \A n \in Gen : ~(n <= g) => next <= n
  BY <1>3 DEF next_gen, Gen
<1>5. ASSUME NEW b \in Bucket, ~(bucket[b] = Free \/ bucket[b].gen > g)
      PROVE  /\ bucket'[b].key = bucket[b].key /\ bucket'[b].value = bucket[b].value
             /\ bucket'[b].chain = bucket[b].chain /\ bucket'[b].gen = next
             /\ bucket'[b].form = IF Pushed(b, g) THEN "vector" ELSE bucket[b].form
             /\ bucket'[b] \in BucketRecord(length)
  <2>1. /\ bucket[b] \in BucketRecord(length)
        /\ bucket[b].form \in {"tcbucket", "vector"}
    BY <1>3 DEF BucketRecord
  <2>2. PICK r : r = [bucket[b] EXCEPT !.gen = next]
    OBVIOUS
  <2>3. r = [key |-> bucket[b].key, value |-> bucket[b].value, chain |-> bucket[b].chain,
             form |-> bucket[b].form, gen |-> next]
    BY <2>1, <2>2 DEF BucketRecord
  <2>4. PICK f \in {"tcbucket", "vector"} : f = IF Pushed(b, g) THEN "vector" ELSE bucket[b].form
    BY <2>1
  <2>5. bucket'[b] = [bucket[b] EXCEPT !.gen = next,
                                       !.form = IF Pushed(b, g) THEN "vector" ELSE @]
    BY <1>5 DEF Collect
  <2>6. bucket'[b] = [r EXCEPT !.form = IF Pushed(b, g) THEN "vector" ELSE @]
    BY <2>2, <2>5, Zenon
  <2>7. r.form = bucket[b].form
    BY <2>3
  <2>8. bucket'[b] = [r EXCEPT !.form = f]
    <3>1. CASE Pushed(b, g)
      BY <2>4, <2>6, <3>1
    <3>2. CASE ~Pushed(b, g)
      BY <2>4, <2>6, <2>7, <3>2
    <3> QED BY <3>1, <3>2
  <2>9. bucket'[b] = [key |-> bucket[b].key, value |-> bucket[b].value,
                      chain |-> bucket[b].chain, form |-> f, gen |-> next]
    BY <2>3, <2>8
  <2>10. bucket'[b] \in BucketRecord(length)
    BY <1>4, <2>1, <2>4, <2>9 DEF BucketRecord
  <2> HIDE DEF next
  <2> QED BY <2>4, <2>9, <2>10
<1>6. ASSUME NEW b \in Bucket, bucket[b] = Free \/ bucket[b].gen > g
      PROVE  bucket'[b] = bucket[b] /\ ~Pushed(b, g)
  <2>1. bucket'[b] = bucket[b]
    BY <1>6 DEF Collect
  <2>2. bucket[b].gen \in Int /\ g \in Int
    BY <1>3 DEF BucketRecord, Gen
  <2>3. ~Pushed(b, g)
    BY <1>6, <2>2 DEF Pushed, Free
  <2> QED BY <2>1, <2>3
<1>7. ASSUME NEW b \in Bucket
      PROVE  /\ InTable(b)' <=> InTable(b)
             /\ bucket'[b].key = bucket[b].key /\ bucket'[b].value = bucket[b].value
             /\ bucket'[b].chain = bucket[b].chain
             /\ bucket'[b].form = IF Pushed(b, g) THEN "vector" ELSE bucket[b].form
             /\ bucket'[b] \in BucketRecord(length)
             /\ b \in tconc' <=> b \in tconc \/ Pushed(b, g)
  <2>1. bucket[b] \in BucketRecord(length)
    BY <1>3
  <2>2. b \in tconc' <=> b \in tconc \/ Pushed(b, g)
    BY <1>2
  <2>3. CASE bucket[b] = Free \/ bucket[b].gen > g
    BY <1>6, <2>1, <2>2, <2>3 DEF InTable
  <2>4. CASE ~(bucket[b] = Free \/ bucket[b].gen > g)
    BY <1>5, <2>2, <2>4 DEF InTable
  <2> QED BY <2>3, <2>4
<1>8. ASSUME NEW b \in Bucket, InTable(b)
      PROVE  /\ bucket[b].key \in Key /\ bucket[b].value \in Value
             /\ bucket[b].form = IF b \in tconc THEN "vector" ELSE "tcbucket"
             /\ bucket[b].gen <= gen[bucket[b].key]
             /\ bucket[b].gen \in Gen /\ gen[bucket[b].key] \in Gen
             /\ bucket[b] # Free
  <2>1. /\ bucket[b].key \in Key /\ bucket[b].value \in Value
        /\ bucket[b].form = IF b \in tconc THEN "vector" ELSE "tcbucket"
    BY <1>8 DEF TableInvariant, BucketForms
  <2>2. bucket[b].gen <= gen[bucket[b].key]
    BY <1>8 DEF TableInvariant, NotOlderThanKey
  <2>3. bucket[b].gen \in Gen /\ gen[bucket[b].key] \in Gen
    BY <1>3, <2>1 DEF BucketRecord
  <2> QED BY <1>8, <2>1, <2>2, <2>3 DEF InTable, Free
<1>9. ASSUME NEW b \in Bucket, InTable(b), b \notin tconc, ~Pushed(b, g)
      PROVE  address'[bucket[b].key] = address[bucket[b].key]
  <2>1. bucket[b].form = "tcbucket" /\ bucket[b].key \in Key
    BY <1>8, <1>9
  <2>2. ~(gen[bucket[b].key] <= g)
    <3>1. ~(bucket[b].gen <= g /\ gen[bucket[b].key] <= g)
      BY <1>9, <2>1 DEF Pushed
    <3> QED BY <1>8, <1>9, <3>1 DEF Gen
  <2> QED BY <1>1, <2>1, <2>2
<1>10. LookupFinds'
  <2> SUFFICES ASSUME NEW b \in Bucket, InTable(b)', b \notin tconc'
               PROVE  bucket'[b].chain = Index(bucket[b].key)'
    <3>1. \A b \in Bucket : InTable(b)' => Index(bucket[b].key)' = address'[bucket'[b].key] % length'
      BY <1>7 DEF Index, IndexFor
    <3> QED BY <3>1 DEF LookupFinds, Index, IndexFor
  <2>1. InTable(b) /\ b \notin tconc /\ ~Pushed(b, g)
    BY <1>7
  <2>2. bucket[b].chain = Index(bucket[b].key)
    BY <2>1 DEF TableInvariant, LookupFinds
  <2>3. bucket'[b].chain = bucket[b].chain /\ bucket'[b].key = bucket[b].key /\ length' = length
    BY <1>2, <1>7
  <2> QED BY <1>9, <2>1, <2>2, <2>3 DEF Index, IndexFor
<1>11. OneBucket'
  BY <1>7 DEF OneBucket, TableInvariant
<1>12. SizeCounts' /\ size' \in 0 .. Cardinality(Bucket)
  <2>1. {b \in Bucket : InTable(b)}' = {b \in Bucket : InTable(b)}
    BY <1>7
  <2> QED BY <1>2, <2>1 DEF SizeCounts, TableInvariant, TypeOK
<1>13. BucketForms'
  <2> SUFFICES ASSUME NEW a \in Bucket
               PROVE  IF InTable(a)'
                      THEN /\ bucket'[a].key \in Key /\ bucket'[a].value \in Value
                           /\ bucket'[a].form = IF a \in tconc' THEN "vector" ELSE "tcbucket"
                      ELSE IF a \in tconc' THEN bucket'[a].form = "vector"
                           ELSE bucket'[a] = Free
    BY DEF BucketForms
  <2>1. CASE InTable(a)
    <3>1. /\ InTable(a)' /\ bucket'[a].key \in Key /\ bucket'[a].value \in Value
          /\ bucket'[a].form = IF Pushed(a, g) THEN "vector" ELSE bucket[a].form
      BY <1>7, <1>8, <2>1
    <3>2. bucket'[a].form = IF a \in tconc' THEN "vector" ELSE "tcbucket"
      BY <1>7, <1>8, <2>1
    <3> QED BY <3>1, <3>2
  <2>2. CASE ~InTable(a)
    <3>1. ~InTable(a)' /\ IF a \in tconc THEN bucket[a].form = "vector" ELSE bucket[a] = Free
      BY <1>7, <2>2 DEF TableInvariant, BucketForms
    <3>2. ~Pushed(a, g)
      BY <3>1 DEF Pushed, Free
    <3>3. CASE a \in tconc
      BY <1>7, <3>1, <3>2, <3>3
    <3>4. CASE a \notin tconc
      BY <1>6, <1>7, <3>1, <3>2, <3>4
    <3> QED BY <3>3, <3>4
  <2> QED BY <2>1, <2>2
<1>14. NotOlderThanKey'
  <2> SUFFICES ASSUME NEW b \in Bucket, InTable(b)
               PROVE  bucket'[b].gen <= gen'[bucket[b].key]
    BY <1>7 DEF NotOlderThanKey
  <2>1. gen'[bucket[b].key] = IF gen[bucket[b].key] <= g THEN next ELSE gen[bucket[b].key]
    BY <1>2, <1>8
  <2>2. CASE bucket[b].gen > g
    <3>1. bucket'[b].gen = bucket[b].gen
      BY <1>6, <2>2
    <3>2. ~(gen[bucket[b].key] <= g)
      BY <1>8, <2>2 DEF Gen
    <3> QED BY <1>8, <2>1, <3>1, <3>2
  <2>3. CASE ~(bucket[b].gen > g)
    <3>1. bucket'[b].gen = next
      BY <1>5, <1>8, <2>3
    <3>2. CASE gen[bucket[b].key] <= g
      BY <1>4, <2>1, <3>1, <3>2 DEF Gen
    <3>3. CASE ~(gen[bucket[b].key] <= g)
      <4>1. gen'[bucket[b].key] = gen[bucket[b].key] /\ gen[bucket[b].key] \in Gen
        BY <1>8, <2>1, <3>3
      <4> QED BY <1>4, <3>1, <3>3, <4>1
    <3> QED BY <3>2, <3>3
  <2> QED BY <2>2, <2>3
<1>15. \A k \in Key : Holders(k)' = Holders(k)
  BY <1>7 DEF Holders
<1>16. PendingOK' /\ LookedUp'
  <2>1. PendingOK'
    BY <1>2 DEF TableInvariant, TypeOK, PendingOK
  <2>2. LookedUp'
    BY <1>2, <1>15, PendingForms DEF LookedUp
  <2> QED BY <2>1, <2>2
<1>17. TypeOK'
  <2>1. address' \in [Key -> Address]
    BY <1>1, <1>3
  <2>2. gen' \in [Key -> Gen]
    BY <1>2, <1>3, <1>4
  <2>3. bucket' \in [Bucket -> BucketRecord(length)]
    BY <1>7 DEF Collect
  <2>4. tconc' \subseteq Bucket /\ length' \in MinLen .. MaxLen /\ result' \in Value \cup {None}
    BY <1>2 DEF TableInvariant, TypeOK
  <2> QED BY <1>2, <1>12, <1>16, <2>1, <2>2, <2>3, <2>4 DEF TypeOK, BucketRecord
<1>18. TableInvariant'
  BY <1>10, <1>11, <1>12, <1>13, <1>14, <1>16, <1>17 DEF TableInvariant
<1>19. ASSUME NEW k \in Key PROVE Map'[k] = Map[k]
  <2>1. \A b \in Holders(k) : bucket'[b].value = bucket[b].value
    BY <1>7 DEF Holders
  <2> QED BY <1>15, <1>18, <2>1, KeptValue DEF TableInvariant
<1> QED BY <1>2, <1>18, <1>19, MapKept

-----------------------------------------------------------------------------
(* The theorems.                                                           *)

\* The table is empty at first.
LEMMA InitInvariant ==
  ASSUME Assumptions, Init
  PROVE  TableInvariant /\ Table!Init
<1>1. \A b \in Bucket : bucket[b] = Free /\ ~InTable(b)
  BY DEF Init, InTable, Free
<1>2. {b \in Bucket : InTable(b)} = {} /\ Cardinality({}) = 0
  BY <1>1, FS_EmptySet
<1>3. Cardinality(Bucket) \in Nat /\ 0 \in Gen
  BY FS_CardinalityType DEF Assumptions, Gen
<1>4. SizeCounts
  BY <1>2 DEF SizeCounts, Init
<1>5. LookupFinds /\ OneBucket /\ BucketForms /\ NotOlderThanKey /\ LookedUp
  BY <1>1 DEF LookupFinds, OneBucket, BucketForms, NotOlderThanKey, LookedUp, Init, Idle
<1>6. PendingOK
  BY DEF Init, PendingOK
<1>7. Free \in BucketRecord(length)
  BY <1>3 DEF Free, BucketRecord
<1>8. TypeOK
  <2>1. bucket \in [Bucket -> BucketRecord(length)]
    BY <1>7 DEF Init
  <2>2. length \in MinLen .. MaxLen /\ size \in 0 .. Cardinality(Bucket)
    BY <1>3 DEF Init, Assumptions
  <2> QED BY <1>3, <1>6, <2>1, <2>2 DEF Init, TypeOK, BucketRecord
<1>9. TableInvariant
  BY <1>4, <1>5, <1>8 DEF TableInvariant
<1>10. Map = [k \in Key |-> None]
  <2>1. \A k \in Key : Holders(k) = {}
    BY <1>1 DEF Holders
  <2> QED BY <2>1 DEF Map, ValueIn
<1> QED BY <1>9, <1>10 DEF Table!Init, Init

\* Every step keeps the invariant, and is an operation on the map or none.
LEMMA NextStep ==
  ASSUME Assumptions, TableInvariant, [Next]_vars
  PROVE  TableInvariant' /\ [Table!Next]_<<Map, result>>
<1>1. ASSUME NEW k \in Key, get_hash(k)
      PROVE  TableInvariant' /\ [Table!Next]_<<Map, result>>
  BY <1>1, GetStep DEF Table!Next
<1>2. ASSUME NEW k \in Key, NEW v \in Value, put_hash(k, v)
      PROVE  TableInvariant' /\ [Table!Next]_<<Map, result>>
  BY <1>2, PutStep DEF Table!Next, put_hash
<1>3. ASSUME NEW b \in Bucket, InsertBucket(b)
      PROVE  TableInvariant' /\ [Table!Next]_<<Map, result>>
  BY <1>3, InsertStep DEF Table!Next
<1>4. CASE enlarge_table
  BY <1>4, EnlargeStep
<1>5. ASSUME NEW k \in Key, UpdateBegins(k)
      PROVE  TableInvariant' /\ [Table!Next]_<<Map, result>>
  BY <1>5, UpdateBeginsStep
<1>6. ASSUME NEW v \in Value, UpdateEnds(v)
      PROVE  TableInvariant' /\ [Table!Next]_<<Map, result>>
  BY <1>6, UpdateEndsStep DEF Table!Next
<1>7. ASSUME NEW k \in Key, del_hash(k)
      PROVE  TableInvariant' /\ [Table!Next]_<<Map, result>>
  BY <1>7, DeleteStep DEF Table!Next
<1>8. CASE clear_hash
  BY <1>8, ClearStep DEF Table!Next
<1>9. ASSUME NEW g \in Gen, Collect(g)
      PROVE  TableInvariant' /\ [Table!Next]_<<Map, result>>
  BY <1>9, CollectStep
<1>10. CASE UNCHANGED vars
  BY <1>10 DEF vars, tableVars, TableInvariant, TypeOK, PendingOK, LookupFinds, OneBucket,
       SizeCounts, BucketForms, NotOlderThanKey, LookedUp, Holders, InTable, Index, IndexFor,
       Map, ValueIn
<1> QED BY <1>1, <1>2, <1>3, <1>4, <1>5, <1>6, <1>7, <1>8, <1>9, <1>10 DEF Next

\* Whatever collections move while the program works on a table, a lookup finds
\* the bucket of its key, no key has two, and the size counts them.
THEOREM TableHolds == ASSUME Assumptions PROVE Spec => []TableInvariant
<1>1. Init => TableInvariant
  BY InitInvariant
<1>2. TableInvariant /\ [Next]_vars => TableInvariant'
  BY NextStep
<1> QED BY <1>1, <1>2, PTL DEF Spec

\* The program sees a map: hashtable-ref, hashtable-set!, hashtable-update!,
\* hashtable-delete! and hashtable-clear! on it, and no collection.
THEOREM TableIsMap == ASSUME Assumptions PROVE Spec => ImplementsTable
<1>1. Init => TableInvariant /\ Table!Init
  BY InitInvariant
<1>2. TableInvariant /\ [Next]_vars => TableInvariant' /\ [Table!Next]_<<Map, result>>
  BY NextStep
<1>3. [Table!Next]_<<Map, result>> => [Table!Next]_(Table!vars)
  BY DEF Table!vars
<1> QED BY <1>1, <1>2, <1>3, PTL DEF Spec, ImplementsTable, Table!Spec

-----------------------------------------------------------------------------
(* SymbolTable and Gensyms.                                                *)

\* The conjuncts of SymbolInvariant which together are inductive.
Core ==
  /\ SymbolTypes /\ AllWatched /\ NeverLost /\ StagesInv /\ BootInv /\ ChainsInv
  /\ StaysInTable /\ WatchedOnce /\ CountInv

-----------------------------------------------------------------------------
(* Helpers.                                                                *)

LEMMA IndexIs ==
  ASSUME SymbolAssumptions, NEW len \in Lengths, NEW n \in Name
  PROVE  /\ HashIndex(n, len) \in 0 .. len - 1
         /\ HashIndex(n, len) # Nil
<1>1. Hash[n] \in Nat /\ len \in Nat \ {0}
  BY DEF SymbolAssumptions
<1>2. Hash[n] % len \in 0 .. len - 1
  BY <1>1
<1>3. 0 .. len - 1 \subseteq Nat
  OBVIOUS
<1> QED BY <1>2, <1>3 DEF HashIndex, SymbolAssumptions

LEMMA CallIs ==
  ASSUME NEW p
  PROVE  /\ p.op = "register" =>
              InHand(p) = {p.sym} /\ Unwatched(p) = {p.sym} /\ Uncounted(p) = {p.sym}
         /\ p.op \in {"extend", "bleed", "lost"} =>
              InHand(p) = {p.sym} /\ Unwatched(p) = {} /\ Uncounted(p) = {}
         /\ p.op = "again" =>
              InHand(p) = {p.sym, p.a} /\ Unwatched(p) = {p.a} /\ Uncounted(p) = {}
         /\ p.op \notin {"register", "extend", "bleed", "lost", "again"} =>
              InHand(p) = {} /\ Unwatched(p) = {} /\ Uncounted(p) = {}
  BY DEF InHand, Unwatched, Uncounted

LEMMA CountIsFinite ==
  ASSUME SymbolAssumptions
  PROVE  IsFiniteSet(Counted) /\ Cardinality(Counted) \in Nat
<1>1. Counted \subseteq Symbol /\ IsFiniteSet(Symbol)
  BY DEF Counted, Interned, SymbolAssumptions
<1> QED BY <1>1, FS_Subset, FS_CardinalityType

LEMMA UninternCounts ==
  ASSUME SymbolAssumptions, Core, NEW s \in queued, Found(s), midway' = midway,
         chain' = [chain EXCEPT ![s] = Nil], table_size' = table_size - 1,
         interning' = interning, outer' = outer
  PROVE  CountInv'
<1>1. /\ SymbolTypes /\ WatchedOnce /\ CountInv /\ s \in Symbol
  BY DEF Core, SymbolTypes, Allocated
<1>2. chain[s] # Nil
  <2>1. name[s] \in Name /\ buckets \in Lengths
    BY <1>1 DEF SymbolTypes, Allocated
  <2> QED BY <2>1, IndexIs DEF Found, TableIndex
<1>3. s \notin Uncounted(interning) \cup Uncounted(outer)
  BY <1>1 DEF WatchedOnce, Unwatched, Uncounted
<1>4. s \in Counted
  BY <1>1, <1>2, <1>3 DEF Counted, Interned
<1>5. Counted' = Counted \ {s}
  <2>1. Interned' = Interned \ {s}
    BY <1>1 DEF Interned, SymbolTypes
  <2> QED BY <2>1 DEF Counted
<1>6. Cardinality(Counted \ {s}) = Cardinality(Counted) - 1
  BY <1>4, CountIsFinite, FS_RemoveElement
<1> HIDE DEF Core
<1> QED BY <1>1, <1>5, <1>6, CountIsFinite DEF CountInv, SymbolTypes, CallTypes, AtRest, Boot

LEMMA RegisterCounts ==
  ASSUME SymbolAssumptions, Core, Register
  PROVE  CountInv'
<1>1. /\ SymbolTypes /\ StagesInv /\ CountInv
  BY DEF Core
<1>2. CASE outer # AtRest
  BY <1>1, <1>2 DEF CountInv, Register
<1>3. CASE outer = AtRest
  <2>1. interning \in [op : {"register"}, sym : Allocated, n : Int]
    BY <1>1 DEF Register, SymbolTypes, CallTypes, AtRest, Boot
  <2>2. /\ Uncounted(interning) = {interning.sym} /\ Uncounted(outer) = {}
        /\ interning'.op # "register" /\ Uncounted(interning') = {}
    BY <1>3, <2>1 DEF Register, Uncounted, AtRest
  <2>3. Counted = Interned \ {interning.sym} /\ Counted' = Interned
    BY <2>2 DEF Register, Counted, Interned
  <2>4. Cardinality(Counted') <= Cardinality(Counted) + 1
    <3>1. CASE interning.sym \in Interned
      <4>1. PICK C, s : C = Counted /\ s = interning.sym
        OBVIOUS
      <4>2. Counted' = C \cup {s} /\ s \notin C
        BY <2>3, <3>1, <4>1
      <4>3. IsFiniteSet(C)
        BY <4>1, CountIsFinite
      <4>4. Cardinality(C \cup {s}) = Cardinality(C) + 1
        BY <4>2, <4>3, FS_AddElement
      <4>5. Cardinality(Counted') = Cardinality(C \cup {s})
        BY <4>2
      <4> QED BY <4>1, <4>4, <4>5, CountIsFinite
    <3>2. CASE interning.sym \notin Interned
      <4>1. Counted' = Counted
        BY <2>3, <3>2
      <4>2. Cardinality(Counted') = Cardinality(Counted)
        BY <4>1
      <4> QED BY <4>2, CountIsFinite
    <3> QED BY <3>1, <3>2
  <2>5. outer' = AtRest /\ table_size' = interning.n + 1 /\ interning.op # "lost"
        /\ (midway' = (midway \/ outer # AtRest))
    BY <1>3, <2>1 DEF Register
  <2>6. ~ midway' => /\ Cardinality(Counted) <= table_size
                     /\ table_size <= interning.n
    BY <1>1, <2>1, <2>5 DEF CountInv
  <2>7. Cardinality(Counted') \in Int
    <3>1. Counted' \subseteq Symbol /\ IsFiniteSet(Symbol)
      BY <2>3 DEF Interned, SymbolAssumptions
    <3> QED BY <3>1, FS_Subset, FS_CardinalityType
  <2>8. ~ midway' => Cardinality(Counted') <= table_size'
    BY <1>1, <2>1, <2>4, <2>5, <2>6, <2>7, CountIsFinite DEF SymbolTypes
  <2> QED BY <2>2, <2>5, <2>8 DEF CountInv, AtRest
<1> QED BY <1>2, <1>3

LEMMA InitializeTypes ==
  ASSUME SymbolAssumptions, Core, initialize_symbol_table
  PROVE  SymbolTypes' /\ CountInv' /\ ChainsInv'
<1>1. SymbolTypes /\ BootInv
  BY DEF Core
<1>2. PICK len \in Lengths :
        /\ buckets' = len
        /\ chain' = [s \in Symbol |-> IF s \in Allocated THEN HashIndex(name[s], len)
                                                         ELSE Nil]
  BY DEF initialize_symbol_table
<1>3. \A s \in Allocated : name[s] \in Name /\ s \in Symbol
  BY <1>1 DEF SymbolTypes, Allocated
<1>4. \A s \in Allocated : HashIndex(name[s], len) \in 0 .. len - 1 /\ HashIndex(name[s], len) # Nil
  BY <1>3, IndexIs
<1>5. chain' \in [Symbol -> (0 .. len - 1) \cup {Nil}] /\ Interned' = Allocated
  BY <1>2, <1>3, <1>4 DEF Interned
<1>6. IsFiniteSet(Allocated) /\ Cardinality(Allocated) \in Nat
  <2>1. Allocated \subseteq Symbol /\ IsFiniteSet(Symbol)
    BY DEF Allocated, SymbolAssumptions
  <2> QED BY <2>1, FS_Subset, FS_CardinalityType
<1>7. Allocated' = Allocated
  BY DEF initialize_symbol_table, Allocated
<1>8. SymbolTypes'
  BY <1>1, <1>2, <1>5, <1>6, <1>7
     DEF SymbolTypes, CallTypes, initialize_symbol_table, BootInv, AtRest, Boot
<1>9. Counted' = Allocated
  BY <1>1, <1>5 DEF Counted, Uncounted, initialize_symbol_table, BootInv, AtRest
<1>10. CountInv'
  BY <1>1, <1>6, <1>9 DEF CountInv, initialize_symbol_table, BootInv, AtRest
<1>11. ChainsInv'
  BY <1>1, <1>2, <1>3, <1>5 DEF ChainsInv, initialize_symbol_table, BootInv, Found, TableIndex
<1> QED BY <1>8, <1>10, <1>11

LEMMA ExtendTableCounts ==
  ASSUME SymbolAssumptions, Core, ExtendTable
  PROVE  Interned' = Interned /\ CountInv'
<1>1. SymbolTypes /\ StagesInv /\ CountInv
  BY DEF Core
<1>2. 2 * buckets \in Lengths
  BY <1>1 DEF ExtendTable, StagesInv, MayDouble
<1>3. \A s \in Interned : s \in Symbol /\ name[s] \in Name
  BY <1>1 DEF SymbolTypes, Allocated, Interned
<1>4. Interned' = Interned
  <2>1. \A s \in Interned : HashIndex(name[s], 2 * buckets) # Nil
    BY <1>2, <1>3, IndexIs
  <2> QED BY <1>3, <2>1 DEF ExtendTable, HashedLength, Interned
<1>5. Counted' = Counted
  BY <1>4 DEF Counted, Uncounted, ExtendTable
<1>6. CountInv'
  BY <1>1, <1>5 DEF CountInv, ExtendTable
<1> QED BY <1>4, <1>6

LEMMA LookupTypes ==
  ASSUME SymbolAssumptions, Core, NEW n \in Name, string_to_symbol(n)
  PROVE  SymbolTypes' /\ interning' # Boot
<1>1. SymbolTypes /\ interning = AtRest
  BY DEF Core, string_to_symbol
<1>2. buckets' = buckets /\ Allocated' = Allocated
  BY DEF string_to_symbol, chainVars, Allocated
<1>3. CallTypes(interning)' /\ interning' # Boot
  <2>1. CASE interning' = [op |-> "make", name |-> n, idx |-> TableIndex(n),
                           hooked |-> FALSE]
    <3>1. TableIndex(n) \in 0 .. buckets - 1
      BY <1>1, IndexIs DEF TableIndex, SymbolTypes
    <3> QED BY <1>2, <2>1, <3>1 DEF CallTypes, Boot
  <2>2. CASE \E s \in Interned : interning' = [op |-> "bleed", sym |-> s]
    BY <1>1, <1>2, <2>2 DEF CallTypes, SymbolTypes, Boot
  <2> QED BY <2>1, <2>2 DEF string_to_symbol
<1>4. CallTypes(outer)'
  BY <1>1, <1>2 DEF string_to_symbol, SymbolTypes, CallTypes
<1> QED
  BY <1>1, <1>2, <1>3, <1>4 DEF SymbolTypes, string_to_symbol, chainVars, Interned

-----------------------------------------------------------------------------
(* One lemma for each action.                                              *)

\* iku_string_to_symbol makes a symbol of the boot image.
LEMMA BootStringKeeps ==
  ASSUME SymbolAssumptions, Core, NEW n \in Name, ikrt_string_to_symbol(n)
  PROVE  Core'
<1>1. SymbolTypes'
  BY DEF Core, ikrt_string_to_symbol, Fresh, SymbolTypes, CallTypes, AtRest, Boot,
     Allocated, Interned, chainVars, InHand, InUse, StagesInv, AllWatched
<1>2. AllWatched'
  BY DEF Core, ikrt_string_to_symbol, AllWatched, Interned
<1>3. NeverLost'
  BY DEF Core, ikrt_string_to_symbol, NeverLost
<1>4. StagesInv'
  BY DEF Core, ikrt_string_to_symbol, Fresh, SymbolTypes, CallTypes, StagesInv, AtRest,
     Boot, chainVars, LookupStands, Found, TableIndex
<1>5. BootInv'
  BY DEF Core, ikrt_string_to_symbol, Fresh, BootInv, Interned, Allocated
<1>6. ChainsInv'
  BY DEF Core, ikrt_string_to_symbol, Fresh, SymbolTypes, CallTypes, ChainsInv, AtRest,
     Boot, chainVars, Found, TableIndex, HashIndex, Interned
<1>7. StaysInTable'
  BY DEF Core, ikrt_string_to_symbol, Fresh, SymbolTypes, CallTypes, StaysInTable,
     AtRest, Boot, chainVars, InUse, InHand, Interned, BootInv
<1>8. WatchedOnce'
  BY DEF Core, ikrt_string_to_symbol, WatchedOnce
<1>9. CountInv'
  <2>1. Counted' = Counted
    BY DEF Core, ikrt_string_to_symbol, Fresh, Counted, Uncounted, Interned, AtRest,
       Boot, chainVars, SymbolTypes, CallTypes, StagesInv
  <2> QED BY <2>1 DEF Core, ikrt_string_to_symbol, CountInv
<1> QED BY <1>1, <1>2, <1>3, <1>4, <1>5, <1>6, <1>7, <1>8, <1>9 DEF Core

\* $initialize-symbol-table! interns the symbols of the boot image.
LEMMA InitializeKeeps ==
  ASSUME SymbolAssumptions, Core, initialize_symbol_table
  PROVE  Core'
<1>1. SymbolTypes'
  BY InitializeTypes
<1>2. AllWatched'
  BY DEF Core, initialize_symbol_table, AllWatched, Interned
<1>3. NeverLost'
  BY DEF Core, initialize_symbol_table, NeverLost, AtRest
<1>4. StagesInv'
  BY DEF Core, initialize_symbol_table, SymbolTypes, CallTypes, StagesInv, AtRest, Boot,
     chainVars, LookupStands, Found, TableIndex
<1>5. BootInv'
  BY DEF Core, initialize_symbol_table, SymbolTypes, CallTypes, BootInv, AtRest, Boot,
     chainVars
<1>6. ChainsInv'
  BY InitializeTypes
<1>7. StaysInTable'
  BY DEF Core, initialize_symbol_table, SymbolTypes, CallTypes, StaysInTable, AtRest,
     Boot, chainVars, InUse, InHand, Interned, BootInv, Allocated, HashIndex,
     SymbolAssumptions
<1>8. WatchedOnce'
  BY DEF Core, initialize_symbol_table, WatchedOnce, AtRest, Unwatched, BootInv
<1>9. CountInv'
  BY InitializeTypes
<1> QED BY <1>1, <1>2, <1>3, <1>4, <1>5, <1>6, <1>7, <1>8, <1>9 DEF Core

\* A collection, after which the hooks are called.
LEMMA CollectThenHooksKeeps ==
  ASSUME SymbolAssumptions, Core, NEW D \in SUBSET Symbol, CollectThenHooks(D)
  PROVE  Core'
<1>1. SymbolTypes'
  BY DEF Core, CollectThenHooks, Collection, Allocates, SymbolTypes, CallTypes,
     Allocated, Interned, InHand, InUse, AllWatched, Unwatched
<1>2. AllWatched'
  BY DEF Core, CollectThenHooks, Collection, AllWatched, Interned
<1>3. NeverLost'
  BY DEF Core, CollectThenHooks, Allocates, NeverLost
<1>4. StagesInv'
  BY DEF Core, CollectThenHooks, Collection, Allocates, SymbolTypes, CallTypes,
     StagesInv, AtRest, Boot, chainVars, LookupStands, Found, TableIndex, Interned,
     MayDouble, BootInv, Allocated, AllWatched, InUse, Unwatched
<1>5. BootInv'
  BY DEF Core, CollectThenHooks, Allocates, BootInv, Boot
<1>6. ChainsInv'
  BY DEF Core, CollectThenHooks, Collection, Allocates, ChainsInv, Found, TableIndex,
     Interned, AllWatched, InUse, InHand, Unwatched
<1>7. StaysInTable'
  BY DEF Core, CollectThenHooks, Collection, StaysInTable, InUse, Interned
<1>8. WatchedOnce'
  BY DEF Core, CollectThenHooks, Collection, WatchedOnce, AtRest, StagesInv
<1>9. CountInv'
  <2>1. Counted' = Counted
    BY DEF Core, CollectThenHooks, Collection, Allocates, Counted, Uncounted, Interned,
       AtRest, Boot, chainVars, SymbolTypes, CallTypes, StagesInv
  <2> QED BY <2>1 DEF Core, CollectThenHooks, CountInv
<1> QED BY <1>1, <1>2, <1>3, <1>4, <1>5, <1>6, <1>7, <1>8, <1>9 DEF Core

\* A collection after which no hooks are called.
LEMMA CollectWithoutHooksKeeps ==
  ASSUME SymbolAssumptions, Core, NEW D \in SUBSET Symbol, CollectWithoutHooks(D)
  PROVE  Core'
<1>1. SymbolTypes'
  BY DEF Core, CollectWithoutHooks, Collection, Allocates, SymbolTypes, CallTypes,
     Allocated, Interned, InHand, InUse, AllWatched, Unwatched
<1>2. AllWatched'
  BY DEF Core, CollectWithoutHooks, Collection, AllWatched, Interned
<1>3. NeverLost'
  BY DEF Core, CollectWithoutHooks, Allocates, NeverLost
<1>4. StagesInv'
  BY DEF Core, CollectWithoutHooks, Collection, Allocates, SymbolTypes, CallTypes,
     StagesInv, AtRest, Boot, chainVars, LookupStands, Found, TableIndex, Interned,
     MayDouble, BootInv, SymbolAssumptions
<1>5. BootInv'
  BY DEF Core, CollectWithoutHooks, BootInv, Boot
<1>6. ChainsInv'
  BY DEF Core, CollectWithoutHooks, Collection, Allocates, ChainsInv, Found, TableIndex,
     Interned, AllWatched, InUse, InHand, Unwatched
<1>7. StaysInTable'
  BY DEF Core, CollectWithoutHooks, Collection, StaysInTable, InUse, Interned
<1>8. WatchedOnce'
  BY DEF Core, CollectWithoutHooks, Collection, Allocates, SymbolTypes, CallTypes,
     WatchedOnce, AtRest, Boot, chainVars, Unwatched, BootInv, Allocated, InUse, InHand,
     StagesInv, SymbolAssumptions
<1>9. CountInv'
  <2>1. Counted' = Counted
    BY DEF Core, CollectWithoutHooks, Collection, Allocates, Counted, Uncounted,
       Interned, AtRest, Boot, chainVars, SymbolTypes, CallTypes, StagesInv
  <2> QED BY <2>1 DEF Core, CollectWithoutHooks, CountInv
<1> QED BY <1>1, <1>2, <1>3, <1>4, <1>5, <1>6, <1>7, <1>8, <1>9 DEF Core

\* A hook of the program ends.
LEMMA HookEndsKeeps ==
  ASSUME SymbolAssumptions, Core, HookEnds
  PROVE  Core'
<1>1. SymbolTypes'
  BY DEF Core, HookEnds, SymbolTypes, CallTypes, Allocated, Interned, chainVars
<1>2. AllWatched'
  BY DEF Core, HookEnds, AllWatched, AtRest, Interned, chainVars
<1>3. NeverLost'
  BY DEF Core, HookEnds, NeverLost, StagesInv
<1>4. StagesInv'
  BY DEF Core, HookEnds, StagesInv, AtRest
<1>5. BootInv'
  BY DEF Core, HookEnds, BootInv, Boot, StagesInv
<1>6. ChainsInv'
  BY DEF Core, HookEnds, ChainsInv, chainVars, Found, TableIndex, Interned
<1>7. StaysInTable'
  BY DEF Core, HookEnds, StaysInTable, chainVars, InUse, Interned
<1>8. WatchedOnce'
  BY DEF Core, HookEnds, WatchedOnce, AtRest
<1>9. CountInv'
  <2>1. Counted' = Counted
    BY DEF Core, HookEnds, Counted, Uncounted, Interned, AtRest, Boot, chainVars,
       SymbolTypes, CallTypes, StagesInv
  <2> QED BY <2>1 DEF Core, HookEnds, CountInv, AtRest, chainVars
<1> QED BY <1>1, <1>2, <1>3, <1>4, <1>5, <1>6, <1>7, <1>8, <1>9 DEF Core

\* The cleanup takes a dead symbol from the guardian.
LEMMA CleanupPopKeeps ==
  ASSUME SymbolAssumptions, Core, NEW s \in Symbol, NEW D \in SUBSET Symbol, CleanupPop(s, D)
  PROVE  Core'
<1>1. SymbolTypes'
  BY DEF Core, CleanupPop, Collection, Unintern, SymbolTypes, CallTypes, Allocated,
     Interned, InHand, InUse, AllWatched, Unwatched
<1>2. AllWatched'
  BY DEF Core, CleanupPop, Collection, Unintern, Unwatched, SymbolTypes, AllWatched,
     Interned
<1>3. NeverLost'
  BY DEF Core, CleanupPop, Unintern, NeverLost, StaysInTable, ChainsInv
<1>4. StagesInv'
  BY DEF Core, CleanupPop, Collection, Unintern, dead, SymbolTypes, CallTypes,
     StagesInv, AtRest, Boot, chainVars, LookupStands, Found, TableIndex, Interned,
     MayDouble, BootInv, Allocated, AllWatched, InUse, Unwatched
<1>5. BootInv'
  BY DEF Core, CleanupPop, Unintern, BootInv, Boot
<1>6. ChainsInv'
  BY DEF Core, CleanupPop, Collection, Unintern, SymbolTypes, ChainsInv, Found,
     TableIndex, Interned, AllWatched, InUse, InHand, Unwatched
<1>7. StaysInTable'
  BY DEF Core, CleanupPop, Collection, Unintern, dead, SymbolTypes, StaysInTable, InUse,
     InHand, Interned, WatchedOnce
<1>8. WatchedOnce'
  BY DEF Core, CleanupPop, Collection, Unintern, WatchedOnce, AtRest, Unwatched
<1>9. CountInv'
  <2>1. CASE dead(s) /\ Found(s)
    BY <2>1, UninternCounts DEF CleanupPop, Unintern
  <2>2. CASE dead(s) /\ ~ Found(s)
    BY <2>2 DEF CleanupPop, Unintern, CountInv
  <2>3. CASE ~ dead(s)
    <3>1. Counted' = Counted
      BY <2>3 DEF CleanupPop, Counted, Interned
    <3> QED BY <2>3, <3>1 DEF Core, CountInv, CleanupPop
  <2> QED BY <2>1, <2>2, <2>3
<1> QED BY <1>1, <1>2, <1>3, <1>4, <1>5, <1>6, <1>7, <1>8, <1>9 DEF Core

\* The cleanup finds no more dead symbols.
LEMMA HooksEndKeeps ==
  ASSUME SymbolAssumptions, Core, HooksEnd
  PROVE  Core'
<1>1. SymbolTypes'
  BY DEF Core, HooksEnd, SymbolTypes, CallTypes, Allocated, Interned, chainVars
<1>2. AllWatched'
  BY DEF Core, HooksEnd, AllWatched, Interned, chainVars
<1>3. NeverLost'
  BY DEF Core, HooksEnd, NeverLost
<1>4. StagesInv'
  BY DEF Core, HooksEnd, StagesInv, chainVars, LookupStands, Found, TableIndex, Interned
<1>5. BootInv'
  BY DEF Core, HooksEnd, BootInv
<1>6. ChainsInv'
  BY DEF Core, HooksEnd, ChainsInv, chainVars, Found, TableIndex, Interned
<1>7. StaysInTable'
  BY DEF Core, HooksEnd, StaysInTable, chainVars, InUse, Interned
<1>8. WatchedOnce'
  BY DEF Core, HooksEnd, WatchedOnce, AtRest
<1>9. CountInv'
  <2>1. Counted' = Counted
    BY DEF Core, HooksEnd, Counted, Uncounted, Interned, AtRest, Boot, chainVars,
       SymbolTypes, CallTypes, StagesInv
  <2> QED BY <2>1 DEF Core, HooksEnd, CountInv, chainVars
<1> QED BY <1>1, <1>2, <1>3, <1>4, <1>5, <1>6, <1>7, <1>8, <1>9 DEF Core

\* string->symbol looks the string up.
LEMMA LookupKeeps ==
  ASSUME SymbolAssumptions, Core, NEW n \in Name, string_to_symbol(n)
  PROVE  Core'
<1>1. SymbolTypes'
  BY LookupTypes
<1>2. AllWatched'
  BY DEF Core, string_to_symbol, Unwatched, AllWatched, AtRest, Interned, chainVars
<1>3. NeverLost'
  BY DEF Core, string_to_symbol, NeverLost
<1>4. StagesInv'
  BY DEF Core, string_to_symbol, Runs, StagesInv, chainVars, LookupStands, Found,
     TableIndex, Interned
<1>5. BootInv'
  BY LookupTypes DEF BootInv
<1>6. ChainsInv'
  BY DEF Core, string_to_symbol, ChainsInv, chainVars, Found, TableIndex, Interned
<1>7. StaysInTable'
  BY DEF Core, string_to_symbol, StaysInTable, chainVars, InUse, InHand, Interned
<1>8. WatchedOnce'
  BY DEF Core, string_to_symbol, WatchedOnce, Unwatched
<1>9. CountInv'
  <2>1. Counted' = Counted
    BY DEF Core, string_to_symbol, Runs, Counted, Uncounted, Interned, AtRest, Boot,
       chainVars, SymbolTypes, CallTypes, StagesInv
  <2> QED BY <2>1 DEF Core, string_to_symbol, CountInv, AtRest, chainVars
<1> QED BY <1>1, <1>2, <1>3, <1>4, <1>5, <1>6, <1>7, <1>8, <1>9 DEF Core

\* A new symbol is put in the chain that was searched.
LEMMA MakeSymbolKeeps ==
  ASSUME SymbolAssumptions, Core, MakeSymbol
  PROVE  Core'
<1>1. SymbolTypes'
  BY DEF Core, MakeSymbol, GoesOn, Fresh, SymbolTypes, CallTypes, AtRest, Boot,
     Allocated, Interned, SymbolAssumptions
<1>2. AllWatched'
  BY DEF Core, MakeSymbol, Unwatched, AllWatched, Interned
<1>3. NeverLost'
  BY DEF Core, MakeSymbol, NeverLost
<1>4. StagesInv'
  BY DEF Core, MakeSymbol, GoesOn, StagesInv
<1>5. BootInv'
  BY DEF Core, MakeSymbol, BootInv, Boot
<1>6. ChainsInv'
  BY DEF Core, MakeSymbol, SymbolTypes, ChainsInv, Found, TableIndex, Interned,
     LookupStands, StagesInv, AllWatched, Unwatched
<1>7. StaysInTable'
  BY DEF Core, MakeSymbol, Fresh, SymbolTypes, CallTypes, StaysInTable, AtRest, Boot,
     InUse, InHand, Interned, SymbolAssumptions
<1>8. WatchedOnce'
  BY DEF Core, MakeSymbol, Fresh, SymbolTypes, CallTypes, WatchedOnce, AtRest, Boot,
     Unwatched
<1>9. CountInv'
  <2>1. Counted' = Counted
    BY DEF Core, MakeSymbol, GoesOn, Fresh, Counted, Uncounted, Interned, AtRest, Boot,
       chainVars, SymbolTypes, CallTypes, StagesInv
  <2> QED BY <2>1 DEF Core, MakeSymbol, SymbolTypes, CountInv
<1> QED BY <1>1, <1>2, <1>3, <1>4, <1>5, <1>6, <1>7, <1>8, <1>9 DEF Core

\* intern-symbol! registers and counts the symbol.
LEMMA RegisterKeeps ==
  ASSUME SymbolAssumptions, Core, Register
  PROVE  Core'
<1>1. SymbolTypes'
  BY DEF Core, Register, GoesOn, SymbolTypes, CallTypes, AtRest, Boot, Allocated,
     Interned
<1>2. AllWatched'
  BY DEF Core, Register, Unwatched, AllWatched, Interned
<1>3. NeverLost'
  BY DEF Core, Register, NeverLost
<1>4. StagesInv'
  BY DEF Core, Register, GoesOn, SymbolTypes, StagesInv
<1>5. BootInv'
  BY DEF Core, Register, BootInv, Boot
<1>6. ChainsInv'
  BY DEF Core, Register, ChainsInv, Found, TableIndex, Interned
<1>7. StaysInTable'
  BY DEF Core, Register, StaysInTable, InUse, InHand, Interned
<1>8. WatchedOnce'
  BY DEF Core, Register, WatchedOnce, Unwatched
<1>9. CountInv'
  BY RegisterCounts
<1> QED BY <1>1, <1>2, <1>3, <1>4, <1>5, <1>6, <1>7, <1>8, <1>9 DEF Core

\* extend-table hashes the symbols again.
LEMMA ExtendTableKeeps ==
  ASSUME SymbolAssumptions, Core, ExtendTable
  PROVE  Core'
<1>1. SymbolTypes'
  BY DEF Core, ExtendTable, GoesOn, HashedLength, SymbolTypes, CallTypes, AtRest, Boot,
     Allocated, Interned, StagesInv, HashIndex, MayDouble, SymbolAssumptions
<1>2. AllWatched'
  BY DEF Core, ExtendTable, Unwatched, AllWatched, Interned
<1>3. NeverLost'
  BY DEF Core, ExtendTable, NeverLost
<1>4. StagesInv'
  BY DEF Core, ExtendTable, GoesOn, StagesInv
<1>5. BootInv'
  BY DEF Core, ExtendTable, BootInv, Boot
<1>6. ChainsInv'
  BY DEF Core, ExtendTable, HashedLength, ChainsInv, Found, TableIndex, Interned
<1>7. StaysInTable'
  BY DEF Core, ExtendTable, HashedLength, SymbolTypes, StaysInTable, InUse, InHand,
     Interned, Allocated, HashIndex, SymbolAssumptions
<1>8. WatchedOnce'
  BY DEF Core, ExtendTable, WatchedOnce, Unwatched
<1>9. CountInv'
  BY ExtendTableCounts
<1> QED BY <1>1, <1>2, <1>3, <1>4, <1>5, <1>6, <1>7, <1>8, <1>9 DEF Core

\* bleed-guardian takes a dead symbol from the guardian.
LEMMA BleedPopKeeps ==
  ASSUME SymbolAssumptions, Core, NEW s \in Symbol, BleedPop(s)
  PROVE  Core'
<1>1. SymbolTypes'
  BY DEF Core, BleedPop, Unintern, dead, Runs, IsReturned, SymbolTypes, CallTypes,
     AtRest, Boot, Allocated, Interned, chainVars, InHand, InUse, StagesInv
<1>2. AllWatched'
  BY DEF Core, BleedPop, Unintern, Unwatched, SymbolTypes, AllWatched, Interned
<1>3. NeverLost'
  BY DEF Core, BleedPop, Unintern, NeverLost, StaysInTable, ChainsInv
<1>4. StagesInv'
  BY DEF Core, BleedPop, Unintern, StagesInv
<1>5. BootInv'
  BY DEF Core, BleedPop, Unintern, BootInv, Boot
<1>6. ChainsInv'
  BY DEF Core, BleedPop, Unintern, SymbolTypes, ChainsInv, Found, TableIndex, Interned
<1>7. StaysInTable'
  BY DEF Core, BleedPop, Unintern, dead, IsReturned, SymbolTypes, StaysInTable, InUse,
     InHand, Interned, WatchedOnce
<1>8. WatchedOnce'
  BY DEF Core, BleedPop, Unintern, WatchedOnce, Unwatched
<1>9. CountInv'
  <2>1. CASE IsReturned(s, interning.sym) \/ ~ dead(s)
    <3>1. Uncounted(interning) = {} /\ Uncounted(interning)' = {}
      BY <2>1 DEF BleedPop, Uncounted
    <3>2. Counted' = Counted
      BY <2>1, <3>1 DEF BleedPop, Counted, Interned
    <3> QED BY <2>1, <3>2 DEF Core, CountInv, BleedPop
  <2>2. CASE ~ (IsReturned(s, interning.sym) \/ ~ dead(s)) /\ Found(s)
    BY <2>2, UninternCounts DEF BleedPop, Unintern
  <2>3. CASE ~ (IsReturned(s, interning.sym) \/ ~ dead(s)) /\ ~ Found(s)
    BY <2>3 DEF BleedPop, Unintern, CountInv
  <2> QED BY <2>1, <2>2, <2>3
<1> QED BY <1>1, <1>2, <1>3, <1>4, <1>5, <1>6, <1>7, <1>8, <1>9 DEF Core

\* bleed-guardian registers a symbol again.
LEMMA BleedAgainKeeps ==
  ASSUME SymbolAssumptions, Core, BleedAgain
  PROVE  Core'
<1>1. SymbolTypes'
  BY DEF Core, BleedAgain, GoesOn, Return, SymbolTypes, CallTypes, AtRest, Boot,
     Allocated, Interned, chainVars
<1>2. AllWatched'
  BY DEF Core, BleedAgain, Unwatched, AllWatched, Interned, chainVars
<1>3. NeverLost'
  BY DEF Core, BleedAgain, Return, NeverLost, AtRest
<1>4. StagesInv'
  BY DEF Core, BleedAgain, GoesOn, Return, SymbolTypes, StagesInv, AtRest
<1>5. BootInv'
  BY DEF Core, BleedAgain, Return, BootInv, AtRest, Boot
<1>6. ChainsInv'
  BY DEF Core, BleedAgain, ChainsInv, chainVars, Found, TableIndex, Interned
<1>7. StaysInTable'
  BY DEF Core, BleedAgain, Return, StaysInTable, AtRest, chainVars, InUse, InHand,
     Interned
<1>8. WatchedOnce'
  BY DEF Core, BleedAgain, Return, WatchedOnce, AtRest, Unwatched
<1>9. CountInv'
  <2>1. Counted' = Counted
    BY DEF Core, BleedAgain, GoesOn, Return, IsReturned, Counted, Uncounted, Interned,
       AtRest, Boot, chainVars, SymbolTypes, CallTypes, StagesInv
  <2> QED BY <2>1 DEF Core, BleedAgain, Return, CountInv, AtRest, chainVars
<1> QED BY <1>1, <1>2, <1>3, <1>4, <1>5, <1>6, <1>7, <1>8, <1>9 DEF Core

\* bleed-guardian returns the symbol when the guardian has no more.
LEMMA BleedEndsKeeps ==
  ASSUME SymbolAssumptions, Core, BleedEnds
  PROVE  Core'
<1>1. SymbolTypes'
  BY DEF Core, BleedEnds, Return, SymbolTypes, CallTypes, AtRest, Boot, Allocated,
     Interned, chainVars
<1>2. AllWatched'
  <2>1. Unwatched(interning) = {} /\ Unwatched(interning)' = {}
    BY DEF BleedEnds, Return, AtRest, Unwatched
  <2> QED BY <2>1 DEF Core, AllWatched, BleedEnds, chainVars, Interned
<1>3. NeverLost'
  BY DEF Core, BleedEnds, Return, NeverLost, AtRest
<1>4. StagesInv'
  BY DEF Core, BleedEnds, Return, StagesInv, AtRest
<1>5. BootInv'
  BY DEF Core, BleedEnds, Return, BootInv, AtRest, Boot
<1>6. ChainsInv'
  BY DEF Core, BleedEnds, ChainsInv, chainVars, Found, TableIndex, Interned
<1>7. StaysInTable'
  BY DEF Core, BleedEnds, Return, StaysInTable, AtRest, chainVars, InUse, InHand,
     Interned
<1>8. WatchedOnce'
  BY DEF Core, BleedEnds, Return, WatchedOnce, AtRest, Unwatched
<1>9. CountInv'
  <2>1. Counted' = Counted
    BY DEF Core, BleedEnds, Return, Runs, Counted, Uncounted, Interned, AtRest, Boot,
       chainVars, SymbolTypes, CallTypes, StagesInv
  <2> QED BY <2>1 DEF Core, BleedEnds, Return, CountInv, AtRest, chainVars
<1> QED BY <1>1, <1>2, <1>3, <1>4, <1>5, <1>6, <1>7, <1>8, <1>9 DEF Core

\* The program drops a symbol.
LEMMA DropSymbolKeeps ==
  ASSUME SymbolAssumptions, Core, NEW s \in Symbol, DropSymbol(s)
  PROVE  Core'
<1>1. SymbolTypes'
  BY DEF Core, DropSymbol, SymbolTypes, CallTypes, Allocated, Interned, chainVars
<1>2. AllWatched'
  BY DEF Core, DropSymbol, AllWatched, Interned, chainVars
<1>3. NeverLost'
  BY DEF Core, DropSymbol, NeverLost
<1>4. StagesInv'
  BY DEF Core, DropSymbol, Resumed, Runs, SymbolTypes, CallTypes, StagesInv, AtRest,
     Boot, chainVars, LookupStands, Found
<1>5. BootInv'
  BY DEF Core, DropSymbol, BootInv
<1>6. ChainsInv'
  BY DEF Core, DropSymbol, ChainsInv, chainVars, Found, TableIndex, Interned
<1>7. StaysInTable'
  BY DEF Core, DropSymbol, StaysInTable, chainVars, InUse, Interned
<1>8. WatchedOnce'
  BY DEF Core, DropSymbol, WatchedOnce, AtRest
<1>9. CountInv'
  <2>1. Counted' = Counted
    BY DEF Core, DropSymbol, Resumed, Runs, Counted, Uncounted, Interned, AtRest, Boot,
       chainVars, SymbolTypes, CallTypes, StagesInv
  <2> QED BY <2>1 DEF Core, DropSymbol, CountInv, chainVars
<1> QED BY <1>1, <1>2, <1>3, <1>4, <1>5, <1>6, <1>7, <1>8, <1>9 DEF Core

\* A symbol gets or loses its value or its properties.
LEMMA BindKeeps ==
  ASSUME SymbolAssumptions, Core, NEW s \in Symbol, Bind(s)
  PROVE  Core'
<1>1. SymbolTypes'
  BY DEF Core, Bind, SymbolTypes, CallTypes, Allocated, Interned, chainVars
<1>2. AllWatched'
  BY DEF Core, Bind, AllWatched, Interned, chainVars
<1>3. NeverLost'
  BY DEF Core, Bind, NeverLost
<1>4. StagesInv'
  BY DEF Core, Bind, Resumed, Runs, SymbolTypes, CallTypes, StagesInv, AtRest, Boot,
     chainVars, LookupStands, Found
<1>5. BootInv'
  BY DEF Core, Bind, BootInv
<1>6. ChainsInv'
  BY DEF Core, Bind, ChainsInv, chainVars, Found, TableIndex, Interned
<1>7. StaysInTable'
  BY DEF Core, Bind, StaysInTable, chainVars, InUse, Interned
<1>8. WatchedOnce'
  BY DEF Core, Bind, Resumed, WatchedOnce, AtRest
<1>9. CountInv'
  <2>1. Counted' = Counted
    BY DEF Core, Bind, Resumed, Runs, Counted, Uncounted, Interned, AtRest, Boot,
       chainVars, SymbolTypes, CallTypes, StagesInv
  <2> QED BY <2>1 DEF Core, Bind, CountInv, chainVars
<1> QED BY <1>1, <1>2, <1>3, <1>4, <1>5, <1>6, <1>7, <1>8, <1>9 DEF Core

\* The program takes a symbol out of a weak pair.
LEMMA ReviveKeeps ==
  ASSUME SymbolAssumptions, Core, NEW s \in Symbol, Revive(s)
  PROVE  Core'
<1>1. SymbolTypes'
  BY DEF Core, Revive, SymbolTypes, CallTypes, Allocated, Interned, chainVars
<1>2. AllWatched'
  BY DEF Core, Revive, AllWatched, Interned, chainVars
<1>3. NeverLost'
  BY DEF Core, Revive, NeverLost
<1>4. StagesInv'
  BY DEF Core, Revive, Resumed, Runs, SymbolTypes, CallTypes, StagesInv, AtRest, Boot,
     chainVars, LookupStands, Found
<1>5. BootInv'
  BY DEF Core, Revive, Resumed, Runs, SymbolTypes, CallTypes, BootInv, AtRest, Boot,
     chainVars
<1>6. ChainsInv'
  BY DEF Core, Revive, ChainsInv, chainVars, Found, TableIndex, Interned
<1>7. StaysInTable'
  BY DEF Core, Revive, StaysInTable, chainVars, InUse, Interned
<1>8. WatchedOnce'
  BY DEF Core, Revive, WatchedOnce
<1>9. CountInv'
  <2>1. Counted' = Counted
    BY DEF Core, Revive, Resumed, Runs, Counted, Uncounted, Interned, AtRest, Boot,
       chainVars, SymbolTypes, CallTypes, StagesInv
  <2> QED BY <2>1 DEF Core, Revive, CountInv, chainVars
<1> QED BY <1>1, <1>2, <1>3, <1>4, <1>5, <1>6, <1>7, <1>8, <1>9 DEF Core

LEMMA HookBeginsIs ==
  ASSUME SymbolTypes, StagesInv, HookBegins
  PROVE  /\ CallTypes(outer)' /\ outer'.op = interning.op
         /\ outer'.op = "make" => outer'.hooked
         /\ outer'.op # "make" => outer' = interning
<1>1. CASE interning.op = "make"
  <2>1. interning \in [op : {"make"}, name : Name, idx : 0 .. buckets - 1, hooked : BOOLEAN]
    BY <1>1 DEF SymbolTypes, CallTypes, AtRest, Boot
  <2>2. outer' = [interning EXCEPT !.hooked = TRUE]
    BY <1>1 DEF HookBegins
  <2>3. outer' \in [op : {"make"}, name : Name, idx : 0 .. buckets - 1, hooked : {TRUE}]
    BY <2>1, <2>2
  <2>4. buckets' = buckets
    BY DEF HookBegins, chainVars
  <2> QED BY <1>1, <2>3, <2>4 DEF CallTypes
<1>2. CASE interning.op # "make"
  BY <1>2 DEF HookBegins, StagesInv, AtRest, chainVars, CallTypes, SymbolTypes, Allocated
<1> QED BY <1>1, <1>2

LEMMA HookBeginsKeeps == ASSUME SymbolAssumptions, Core, HookBegins PROVE Core'
<1>0. /\ SymbolTypes /\ AllWatched /\ NeverLost /\ StagesInv /\ BootInv
      /\ ChainsInv /\ StaysInTable /\ WatchedOnce /\ CountInv
  BY DEF Core
<1>1. /\ CallTypes(outer)' /\ outer'.op = interning.op
      /\ outer'.op = "make" => outer'.hooked
      /\ outer'.op # "make" => outer' = interning
  BY <1>0, HookBeginsIs
<1>2. interning' = AtRest /\ outer = AtRest
  BY <1>0 DEF HookBegins, StagesInv
<1>3. InHand(outer') = InHand(interning) /\ Unwatched(outer') = Unwatched(interning)
      /\ Uncounted(outer') = Uncounted(interning)
  <2>1. PICK p : p = interning
    OBVIOUS
  <2>2. PICK q : q = outer'
    OBVIOUS
  <2>3. q.op = p.op /\ (p.op # "make" => q = p)
    BY <1>1, <2>1, <2>2
  <2>4. InHand(q) = InHand(p) /\ Unwatched(q) = Unwatched(p) /\ Uncounted(q) = Uncounted(p)
    <3>1. CASE p.op = "make"
      BY <2>3, <3>1, CallIs
    <3> QED BY <2>3, <3>1
  <2> QED BY <2>1, <2>2, <2>4
<1>a. InHand(AtRest) = {} /\ Unwatched(AtRest) = {} /\ Uncounted(AtRest) = {}
  BY DEF InHand, Unwatched, Uncounted, AtRest
<1>b. /\ InHand(interning') = {} /\ Unwatched(interning') = {} /\ Uncounted(interning') = {}
      /\ InHand(outer) = {} /\ Unwatched(outer) = {} /\ Uncounted(outer) = {}
  BY <1>2, <1>a
<1>4. SymbolTypes'
  <2>1. CallTypes(interning)'
    BY <1>2 DEF CallTypes
  <2> QED BY <1>0, <1>1, <2>1 DEF SymbolTypes, HookBegins, chainVars, Allocated, Interned
<1>5. AllWatched'
  BY <1>0, <1>2, <1>3, <1>b DEF AllWatched, HookBegins, chainVars, Interned, StagesInv
<1>6. NeverLost'
  BY <1>2 DEF NeverLost, AtRest
<1>7. StagesInv'
  BY <1>0, <1>1, <1>2 DEF HookBegins, StagesInv, AtRest, SymbolTypes
<1>8. BootInv'
  BY <1>2 DEF BootInv, AtRest, Boot
<1>9. ChainsInv'
  BY <1>0 DEF HookBegins, ChainsInv, chainVars, Interned, Found, TableIndex
<1>10. StaysInTable'
  BY <1>0, <1>1, <1>2, <1>3, <1>b DEF StaysInTable, InUse, HookBegins, chainVars, Interned
<1>11. WatchedOnce'
  BY <1>0, <1>1, <1>2, <1>3, <1>b DEF WatchedOnce, HookBegins
<1>12. Counted' = Counted
  BY <1>2, <1>3, <1>b DEF Counted, HookBegins, chainVars, Interned
<1>13. CountInv'
  BY <1>0, <1>1, <1>2, <1>12 DEF CountInv, HookBegins, chainVars, AtRest, StagesInv
<1> QED BY <1>4, <1>5, <1>6, <1>7, <1>8, <1>9, <1>10, <1>11, <1>13 DEF Core

\* Nothing happens.
LEMMA StutterKeeps == ASSUME Core, UNCHANGED symbolVars PROVE Core'
<1> USE DEF Core, symbolVars, chainVars
<1>1. SymbolTypes' /\ BootInv'
  BY DEF SymbolTypes, BootInv, CallTypes, Interned, Allocated
<1>2. AllWatched' /\ NeverLost'
  BY DEF AllWatched, NeverLost, Interned
<1>3. StagesInv' /\ ChainsInv'
  BY DEF StagesInv, MayDouble, LookupStands, ChainsInv, Interned, Found, TableIndex
<1>4. StaysInTable' /\ WatchedOnce' /\ CountInv'
  BY DEF StaysInTable, InUse, WatchedOnce, CountInv, Counted, Interned
<1> QED BY <1>1, <1>2, <1>3, <1>4

\* The table is empty.
LEMMA InitHolds == ASSUME SymbolAssumptions, SymbolInit PROVE Core
<1>1. Interned = {} /\ Allocated = {}
  BY DEF SymbolInit, Interned, Allocated
<1>2. Cardinality(Counted) = 0
  <2>1. Counted = {}
    BY <1>1 DEF Counted
  <2> QED BY <2>1, FS_EmptySet
<1>3. SymbolTypes
  <2>1. CallTypes(interning) /\ CallTypes(outer)
    BY DEF SymbolInit, CallTypes
  <2>2. /\ name \in [Symbol -> Name \cup {Nil}] /\ table_size \in Int
        /\ chain \in [Symbol -> (0 .. buckets - 1) \cup {Nil}]
    BY DEF SymbolInit
  <2>3. /\ buckets \in Lengths /\ midway \in BOOLEAN
        /\ hooks \in {"none", "program", "inside", "cleanup", "done"}
    BY DEF SymbolInit, SymbolAssumptions
  <2>4. Interned \cup registered \cup queued \cup bound \cup held \cup excused = {}
    BY <1>1 DEF SymbolInit
  <2> QED BY <2>1, <2>2, <2>3, <2>4 DEF SymbolTypes
<1>4. AllWatched /\ NeverLost /\ StagesInv /\ BootInv /\ ChainsInv
  BY <1>1 DEF SymbolInit, AllWatched, NeverLost, StagesInv, BootInv, ChainsInv, AtRest, Boot
<1>5. StaysInTable /\ WatchedOnce
  BY DEF SymbolInit, StaysInTable, WatchedOnce, InUse, InHand, Unwatched, AtRest, Boot
<1>6. CountInv
  BY <1>2 DEF SymbolInit, CountInv, AtRest, Boot
<1> QED BY <1>3, <1>4, <1>5, <1>6 DEF Core

\* What is inductive implies the rest: whoever has a symbol has one of the
\* table, and the symbols that nothing has in hand are counted.
LEMMA CoreGivesInvariant == ASSUME SymbolAssumptions, Core PROVE SymbolInvariant
<1>1. OneSymbol /\ BoundStay
  BY DEF Core, OneSymbol, BoundStay, StaysInTable, ChainsInv, InUse
<1>2. SizeCovers
  <2>1. PICK S : S = Interned \ (InHand(interning) \cup InHand(outer))
    OBVIOUS
  <2>2. \A p : Uncounted(p) \subseteq InHand(p)
    BY DEF Uncounted, InHand
  <2>3. S \subseteq Counted
    BY <2>1, <2>2 DEF Counted
  <2>4. Cardinality(S) <= Cardinality(Counted) /\ Cardinality(S) \in Nat
    BY <2>3, CountIsFinite, FS_Subset, FS_CardinalityType
  <2>5. ~ midway /\ interning.op # "lost" => Cardinality(S) <= table_size
    BY <2>4, CountIsFinite DEF Core, CountInv, SymbolTypes
  <2> QED BY <2>1, <2>5 DEF SizeCovers
<1> QED BY <1>1, <1>2 DEF Core, SymbolInvariant

-----------------------------------------------------------------------------
(* The theorem.                                                            *)

\* string->symbol returns the one symbol of a name that anyone holds, or that
\* has a value or properties, whatever was dead, handed over and removed
\* before; unintern finds what it removes, and the size covers the symbols
\* (string->symbol, bleed-guardian, unintern, extend-table, the cleanup hook).
THEOREM NamesHaveOneSymbol ==
  ASSUME SymbolAssumptions PROVE SymbolSpec => []SymbolInvariant
<1>1. SymbolInit => Core
  BY InitHolds
<1>2. ASSUME Core, [SymbolNext]_symbolVars PROVE Core'
  <2>1. ASSUME NEW n \in Name, ikrt_string_to_symbol(n) \/ string_to_symbol(n)
        PROVE  Core'
    BY <1>2, <2>1, BootStringKeeps, LookupKeeps
  <2>2. CASE initialize_symbol_table
    BY <1>2, <2>2, InitializeKeeps
  <2>3. CASE MakeSymbol \/ Register \/ ExtendTable
    BY <1>2, <2>3, MakeSymbolKeeps, RegisterKeeps, ExtendTableKeeps
  <2>4. CASE BleedAgain \/ BleedEnds
    BY <1>2, <2>4, BleedAgainKeeps, BleedEndsKeeps
  <2>5. ASSUME NEW s \in Symbol, BleedPop(s) \/ DropSymbol(s) \/ Bind(s) \/ Revive(s)
        PROVE  Core'
    BY <1>2, <2>5, BleedPopKeeps, DropSymbolKeeps, BindKeeps, ReviveKeeps
  <2>6. ASSUME NEW D \in SUBSET Symbol, CollectThenHooks(D) \/ CollectWithoutHooks(D)
        PROVE  Core'
    BY <1>2, <2>6, CollectThenHooksKeeps, CollectWithoutHooksKeeps
  <2>7. ASSUME NEW s \in Symbol, NEW D \in SUBSET Symbol, CleanupPop(s, D) PROVE Core'
    BY <1>2, <2>7, CleanupPopKeeps
  <2>8. CASE HookBegins \/ HookEnds \/ HooksEnd
    BY <1>2, <2>8, HookBeginsKeeps, HookEndsKeeps, HooksEndKeeps
  <2>9. CASE UNCHANGED symbolVars
    BY <1>2, <2>9, StutterKeeps
  <2> QED BY <1>2, <2>1, <2>2, <2>3, <2>4, <2>5, <2>6, <2>7, <2>8, <2>9 DEF SymbolNext
<1>3. Core => SymbolInvariant
  BY CoreGivesInvariant
<1> QED BY <1>1, <1>2, <1>3, PTL DEF SymbolSpec

-----------------------------------------------------------------------------
(* Generated symbols.                                                      *)

\* The conjuncts of GensymInvariant which together are inductive.
GensymCore == GensymTypes /\ TableInv

\* The table has at most one gensym for a string, and none for a string that
\* may be interned.
LEMMA InternsIsNew ==
  ASSUME GensymCore, NEW u, Interns(u)
  PROVE  \A g \in gensym_table : unique[g] # u
  BY DEF GensymCore, Interns, GensymsOf

\* What was written for a gensym is read as that gensym and as no other, until
\* it is uninterned: the table has exactly the gensyms with a unique string and
\* one for each (gensym->unique-string, ikrt_intern_gensym,
\* ikrt_strings_to_gensym, ikrt_unintern_gensym).
THEOREM WrittenAreRead ==
  ASSUME GensymAssumptions PROVE GensymSpec => []GensymInvariant
<1>1. GensymInit => GensymCore
  BY DEF GensymInit, GensymCore, GensymTypes, TableInv, GensymAssumptions
<1>2. ASSUME GensymCore, [GensymNext]_gensymVars PROVE GensymCore'
  <2> USE DEF GensymCore, GensymTypes, TableInv
  <2>1. ASSUME NEW g \in Gensym, gensym(g) PROVE GensymCore'
    BY <1>2, <2>1 DEF gensym, GensymAssumptions
  <2>2. ASSUME NEW g \in Gensym, unintern_gensym(g) PROVE GensymCore'
    BY <1>2, <2>2 DEF unintern_gensym, GensymAssumptions
  <2>3. ASSUME NEW g \in Gensym, DropGensym(g) PROVE GensymCore'
    <3>1. CASE g \in gensym_table
      BY <1>2, <2>3, <3>1 DEF DropGensym
    <3>2. CASE g \notin gensym_table
      BY <1>2, <2>3, <3>2 DEF DropGensym, GensymAssumptions
    <3> QED BY <3>1, <3>2
  <2>4. ASSUME NEW g \in Gensym, NEW u \in Unique, gensym_to_unique_string(g, u)
        PROVE  GensymCore'
    <3>1. CASE unique[g] \in Unique
      BY <1>2, <2>4, <3>1 DEF gensym_to_unique_string
    <3>2. CASE unique[g] \notin Unique
      <4>1. \A h \in gensym_table : unique[h] # u
        BY <1>2, <2>4, <3>2, InternsIsNew DEF gensym_to_unique_string
      <4> QED BY <1>2, <2>4, <3>2, <4>1 DEF gensym_to_unique_string, GensymAssumptions
    <3> QED BY <3>1, <3>2
  <2>5. ASSUME NEW u \in Unique, strings_to_gensym(u) PROVE GensymCore'
    <3>1. CASE GensymsOf(u) # {}
      BY <1>2, <2>5, <3>1 DEF strings_to_gensym, GensymsOf
    <3>2. CASE GensymsOf(u) = {}
      <4>1. PICK g \in Gensym : /\ unique[g] = "free"
                                /\ unique' = [unique EXCEPT ![g] = u]
                                /\ gensym_table' = gensym_table \cup {g}
                                /\ kept' = kept \cup {g}
        BY <2>5, <3>2 DEF strings_to_gensym
      <4>2. \A h \in gensym_table : unique[h] # u
        BY <3>2 DEF GensymsOf
      <4>3. written' = written
        BY <2>5 DEF strings_to_gensym
      <4> QED BY <1>2, <4>1, <4>2, <4>3 DEF GensymAssumptions
    <3> QED BY <3>1, <3>2
  <2>6. CASE UNCHANGED gensymVars
    BY <1>2, <2>6 DEF gensymVars
  <2> QED BY <1>2, <2>1, <2>2, <2>3, <2>4, <2>5, <2>6 DEF GensymNext
<1>3. GensymCore => GensymInvariant
  BY DEF GensymCore, GensymInvariant, GensymTypes, TableInv, WrittenIsRead, GensymsOf
<1> QED BY <1>1, <1>2, <1>3, PTL DEF GensymSpec

=============================================================================
