------------------------------ MODULE EcsProofs -----------------------------
(***************************************************************************)
(* The entity store implements World, for every number of entities, any    *)
(* component types, cards and slots.  The argument has three layers: what   *)
(* an operation on one component array does to the map it stands for, what  *)
(* an operation of the coordinator keeps true of the whole store, and what  *)
(* the slots keep, for which the chain of names is the strengthening.       *)
(***************************************************************************)
EXTENDS Ecs, TLAPS, FiniteSetTheorems, FunctionTheorems, SequenceTheorems

(* An array is sound: its two index maps are inverse to each other on the live elements. *)
Arrays == [index : [Ids -> 0..NO_INDEX], entity : [Index -> 0..LastId],
           data : [Index -> Data \cup {NoData}], size : 0..LastId]
IndexFindsEntity(a) ==
    \A e \in Ids : Has(a, e) => a.index[e] < a.size /\ a.entity[a.index[e]] = e
EntityFindsIndex(a) ==
    \A i \in Index : i < a.size => a.entity[i] \in Ids /\ a.index[a.entity[i]] = i
Written(a) == \A i \in Index : i < a.size => a.data[i] \in Data
Sound(a) == a \in Arrays /\ IndexFindsEntity(a) /\ EntityFindsIndex(a) /\ Written(a)

USE LastIdAssumption

LEMMA BlankSound == Sound(BlankArray) /\ Held(BlankArray) = << >>
<1>1. Sound(BlankArray)
  BY DEF Sound, Arrays, IndexFindsEntity, EntityFindsIndex, Written, BlankArray, Has, Ids, Index,
         NO_INDEX
<1>2. Holders(BlankArray) = {}
  BY DEF Holders, Has, BlankArray, NO_INDEX
<1> QED
  BY <1>1, <1>2 DEF Held

(* The elements never run out: the live ones belong to as many entities. *)
LEMMA RoomLeft ==
  ASSUME NEW a, Sound(a), NEW e \in Ids, ~Has(a, e)
  PROVE  a.size < LastId
<1> DEFINE live == 0..(a.size - 1)
           f == [i \in live |-> a.entity[i]]
           others == Ids \ {e}
<1>1. a.size \in 0..LastId
  BY DEF Sound, Arrays
<1>2. \A i \in live : i \in Index /\ i < a.size
  BY <1>1 DEF Index
<1>3. \A i \in live : f[i] \in others /\ a.index[f[i]] = i
  BY <1>2 DEF Sound, EntityFindsIndex, Has, NO_INDEX, Index
<1>4. f \in Injection(live, others)
  <2>1. f \in [live -> others]
    BY <1>3
  <2>2. \A i, j \in live : f[i] = f[j] => i = j
    BY <1>3
  <2> HIDE DEF f, live, others
  <2> QED
    BY <2>1, <2>2 DEF Injection, IsInjective
<1>5. /\ IsFiniteSet(others) /\ Cardinality(others) = LastId - 1
  <2>1. IsFiniteSet(Ids) /\ Cardinality(Ids) = LastId
    BY FS_Interval DEF Ids
  <2> QED
    BY <2>1, FS_RemoveElement
<1>6. Cardinality(live) = a.size
  <2>1. 0 \in Int /\ a.size - 1 \in Int /\ a.size \in Nat
    BY <1>1
  <2>2. Cardinality(live) = IF 0 > a.size - 1 THEN 0 ELSE (a.size - 1) - 0 + 1
    BY ONLY <2>1, FS_Interval
  <2> QED
    BY <2>1, <2>2
<1> HIDE DEF f, live, others
<1>7. Cardinality(live) <= Cardinality(others)
  BY <1>4, <1>5, FS_Injection
<1> QED
  BY <1>1, <1>5, <1>6, <1>7

LEMMA InsertSound ==
  ASSUME NEW a, Sound(a), NEW e \in Ids, ~Has(a, e), NEW d \in Data
  PROVE  /\ Sound(InsertData(a, e, d))
         /\ Holders(InsertData(a, e, d)) = Holders(a) \cup {e}
         /\ Held(InsertData(a, e, d)) = W!Put(Held(a), e, d)
<1> DEFINE b == InsertData(a, e, d)
<1>r. a.size < LastId
  BY RoomLeft
<1>0. a.size \in Index /\ a.size + 1 \in 0..LastId /\ a.size \in Nat
  <2>1. a.size \in 0..LastId
    BY DEF Sound, Arrays
  <2> QED
    BY <1>r, <2>1 DEF Index
<1>t. /\ a.index \in [Ids -> 0..NO_INDEX] /\ a.entity \in [Index -> 0..LastId]
      /\ a.data \in [Index -> Data \cup {NoData}]
  BY DEF Sound, Arrays
<1>b. /\ b.index = [a.index EXCEPT ![e] = a.size]
      /\ b.entity = [a.entity EXCEPT ![a.size] = e]
      /\ b.data = [a.data EXCEPT ![a.size] = d]
      /\ b.size = a.size + 1
  BY DEF InsertData
<1>1. b \in Arrays
  <2>1. b = [index |-> b.index, entity |-> b.entity, data |-> b.data, size |-> b.size]
    BY DEF InsertData
  <2>2. /\ b.index \in [Ids -> 0..NO_INDEX] /\ b.entity \in [Index -> 0..LastId]
        /\ b.data \in [Index -> Data \cup {NoData}] /\ b.size \in 0..LastId
    <3>1. Index \subseteq 0..NO_INDEX /\ e \in 0..LastId
      BY DEF Index, NO_INDEX, Ids
    <3>2. b.index \in [Ids -> 0..NO_INDEX]
      BY <1>0, <1>t, <1>b, <3>1
    <3>3. b.entity \in [Index -> 0..LastId]
      BY <1>0, <1>t, <1>b, <3>1
    <3>4. b.data \in [Index -> Data \cup {NoData}]
      BY <1>0, <1>t, <1>b
    <3> QED
      BY <1>0, <1>b, <3>2, <3>3, <3>4
  <2> HIDE DEF b
  <2> QED
    BY <2>1, <2>2 DEF Arrays
<1> HIDE DEF b
<1>2. \A x \in Ids : b.index[x] = IF x = e THEN a.size ELSE a.index[x]
  BY <1>b, <1>t
<1>3. \A i \in Index : /\ b.entity[i] = (IF i = a.size THEN e ELSE a.entity[i])
                       /\ b.data[i] = (IF i = a.size THEN d ELSE a.data[i])
  BY <1>b, <1>t
<1>s. /\ \A x \in Ids : a.index[x] # NO_INDEX => a.index[x] < a.size /\ a.entity[a.index[x]] = x
      /\ \A i \in Index : i < a.size => a.entity[i] \in Ids /\ a.index[a.entity[i]] = i
  BY DEF Sound, IndexFindsEntity, EntityFindsIndex, Has
<1>i. \A x \in Ids : a.index[x] # NO_INDEX => a.index[x] \in Index
  BY <1>t, <1>s, <1>0 DEF Index, NO_INDEX
<1>4. IndexFindsEntity(b)
  <2> SUFFICES ASSUME NEW x \in Ids, b.index[x] # NO_INDEX
               PROVE  b.index[x] < b.size /\ b.entity[b.index[x]] = x
    BY DEF IndexFindsEntity, Has
  <2>1. CASE x = e
    BY <1>0, <1>b, <1>2, <1>3, <2>1
  <2>2. CASE x # e
    <3>1. b.index[x] = a.index[x] /\ a.index[x] \in Index /\ a.index[x] < a.size
      BY <1>2, <1>s, <1>i, <2>2
    <3>2. a.index[x] < a.size + 1 /\ a.index[x] # a.size
      BY <1>0, <3>1 DEF Index
    <3> QED
      BY <1>b, <1>3, <1>s, <2>2, <3>1, <3>2
  <2> QED
    BY <2>1, <2>2
<1>5. EntityFindsIndex(b)
  <2> SUFFICES ASSUME NEW i \in Index, i < b.size
               PROVE  b.entity[i] \in Ids /\ b.index[b.entity[i]] = i
    BY DEF EntityFindsIndex
  <2>1. CASE i = a.size
    BY <1>2, <1>3, <2>1
  <2>2. CASE i # a.size
    <3>1. i < a.size
      BY <1>0, <1>b, <2>2 DEF Index
    <3>2. a.entity[i] \in Ids /\ a.index[a.entity[i]] = i /\ b.entity[i] = a.entity[i]
      BY <1>s, <1>3, <2>2, <3>1
    <3>3. a.entity[i] # e
      BY <3>1, <3>2 DEF Has, NO_INDEX, Index
    <3> QED
      BY <1>2, <3>2, <3>3
  <2> QED
    BY <2>1, <2>2
<1>6. Written(b)
  <2> SUFFICES ASSUME NEW i \in Index, i < b.size
               PROVE  b.data[i] \in Data
    BY DEF Written
  <2>1. i = a.size \/ i < a.size
    BY <1>0, <1>b DEF Index
  <2> QED
    BY <1>3, <2>1 DEF Sound, Written
<1>7. Holders(b) = Holders(a) \cup {e}
  BY <1>0, <1>2 DEF Holders, Has, NO_INDEX, Index
<1>8. Held(b) = W!Put(Held(a), e, d)
  <2>1. \A x \in Holders(b) : DataOf(b, x) = IF x = e THEN d ELSE DataOf(a, x)
    BY <1>0, <1>2, <1>3, <1>7, <1>s, <1>i DEF Holders, Has, DataOf
  <2>2. Held(b) = [x \in Holders(a) \cup {e} |-> IF x = e THEN d ELSE DataOf(a, x)]
    BY <1>7, <2>1 DEF Held
  <2>3. DOMAIN Held(a) = Holders(a) /\ \A x \in Holders(a) : Held(a)[x] = DataOf(a, x)
    BY DEF Held
  <2>4. W!Put(Held(a), e, d) = [x \in Holders(a) \cup {e} |-> IF x = e THEN d ELSE Held(a)[x]]
    BY <2>3 DEF W!Put
  <2> QED
    BY <2>2, <2>3, <2>4
<1> QED
  BY <1>1, <1>4, <1>5, <1>6, <1>7, <1>8 DEF b, Sound

LEMMA RemoveSound ==
  ASSUME NEW a, Sound(a), NEW e \in Ids, Has(a, e)
  PROVE  /\ Sound(RemoveData(a, e))
         /\ Holders(RemoveData(a, e)) = Holders(a) \ {e}
         /\ Held(RemoveData(a, e)) = W!Drop(Held(a), e)
<1> DEFINE b == RemoveData(a, e)
           at == a.index[e]
           last == a.size - 1
           moved == a.entity[last]
<1>t. /\ a.index \in [Ids -> 0..NO_INDEX] /\ a.entity \in [Index -> 0..LastId]
      /\ a.data \in [Index -> Data \cup {NoData}] /\ a.size \in 0..LastId
  BY DEF Sound, Arrays
<1>s. /\ \A x \in Ids : a.index[x] # NO_INDEX => a.index[x] < a.size /\ a.entity[a.index[x]] = x
      /\ \A i \in Index : i < a.size => a.entity[i] \in Ids /\ a.index[a.entity[i]] = i
  BY DEF Sound, IndexFindsEntity, EntityFindsIndex, Has
<1>i. \A x \in Ids : a.index[x] # NO_INDEX => a.index[x] \in Index
  BY <1>t, <1>s DEF Index, NO_INDEX
<1>e. at \in Index /\ at < a.size /\ a.entity[at] = e
  BY <1>s, <1>i DEF Has
<1>l. last \in Index /\ last < a.size /\ last \in 0..LastId /\ at <= last
  <2>1. at \in 0..LastId /\ a.size \in 0..LastId /\ at < a.size
    BY <1>t, <1>e DEF Index
  <2> HIDE DEF at
  <2> QED
    BY <2>1 DEF Index
<1>n. at \in Nat /\ last \in Nat /\ a.size = last + 1 /\ Index \subseteq Nat /\ NO_INDEX \notin Index
  <2>1. a.size \in Nat /\ Index = 0..LastId /\ NO_INDEX = LastId + 1
    BY <1>t DEF Index, NO_INDEX
  <2>2. at \in Nat
    BY <1>e, <2>1
  <2>3. last \in Nat
    BY <1>l
  <2> QED
    BY <2>1, <2>2, <2>3
<1>m. moved \in Ids /\ a.index[moved] = last /\ (moved = e <=> at = last)
  BY <1>s, <1>l, <1>e
<1>b. /\ b.index = [[a.index EXCEPT ![moved] = at] EXCEPT ![e] = NO_INDEX]
      /\ b.entity = [a.entity EXCEPT ![at] = moved]
      /\ b.data = [a.data EXCEPT ![at] = a.data[last]]
      /\ b.size = last
  BY DEF RemoveData, LastMoves
<1>1. b \in Arrays
  <2>1. b = [index |-> b.index, entity |-> b.entity, data |-> b.data, size |-> b.size]
    BY DEF RemoveData
  <2>2. Index \subseteq 0..NO_INDEX /\ NO_INDEX \in 0..NO_INDEX /\ moved \in 0..LastId
    BY <1>m DEF Index, NO_INDEX, Ids
  <2>3. b.index \in [Ids -> 0..NO_INDEX]
    BY <1>t, <1>b, <1>e, <2>2
  <2>4. b.entity \in [Index -> 0..LastId] /\ b.data \in [Index -> Data \cup {NoData}]
    BY <1>t, <1>b, <1>e, <1>l, <2>2
  <2> HIDE DEF b
  <2> QED
    BY <1>b, <1>l, <2>1, <2>3, <2>4 DEF Arrays
<1> HIDE DEF b
<1>2. \A x \in Ids : b.index[x] = IF x = e THEN NO_INDEX ELSE IF x = moved THEN at ELSE a.index[x]
  BY <1>b, <1>t
<1>3. \A i \in Index : /\ b.entity[i] = (IF i = at THEN moved ELSE a.entity[i])
                       /\ b.data[i] = (IF i = at THEN a.data[last] ELSE a.data[i])
  BY <1>b, <1>t
<1> HIDE DEF at, last, moved
<1>4. \A x \in Ids : b.index[x] # NO_INDEX => x # e
  BY <1>2
<1>o. moved # e => at < last
  BY <1>l, <1>m, <1>n
<1>a. ASSUME NEW x \in Ids, x # moved, b.index[x] # NO_INDEX
      PROVE  /\ b.index[x] = a.index[x] /\ a.index[x] \in Index
             /\ a.index[x] < last /\ a.index[x] # at /\ a.entity[a.index[x]] = x
  <2>1. x # e /\ b.index[x] = a.index[x] /\ a.index[x] # NO_INDEX
    BY <1>2, <1>a
  <2>2. a.index[x] < a.size /\ a.entity[a.index[x]] = x /\ a.index[x] \in Index
    BY <1>s, <1>i, <2>1
  <2>3. a.index[x] # last /\ a.index[x] # at
    BY <2>1, <2>2, <1>a, <1>e DEF moved
  <2>4. a.index[x] \in Nat
    BY <2>2, <1>n
  <2> QED
    BY <2>1, <2>2, <2>3, <2>4, <1>n
<1>5. IndexFindsEntity(b)
  <2> SUFFICES ASSUME NEW x \in Ids, b.index[x] # NO_INDEX
               PROVE  b.index[x] < b.size /\ b.entity[b.index[x]] = x
    BY DEF IndexFindsEntity, Has
  <2>1. CASE x = moved
    <3>1. x # e /\ at < last
      BY <1>4, <1>o, <2>1
    <3>2. b.index[x] = at /\ b.entity[at] = moved
      BY <1>2, <1>3, <1>e, <2>1, <3>1
    <3> QED
      BY <1>b, <2>1, <3>1, <3>2 DEF last
  <2>2. CASE x # moved
    BY <1>a, <1>b, <1>3, <2>2 DEF last
  <2> QED
    BY <2>1, <2>2
<1>6. EntityFindsIndex(b)
  <2> SUFFICES ASSUME NEW i \in Index, i < last
               PROVE  b.entity[i] \in Ids /\ b.index[b.entity[i]] = i
    BY <1>b DEF EntityFindsIndex
  <2>1. CASE i = at
    <3>1. at # last
      BY <1>l, <2>1 DEF Index
    <3> QED
      BY <1>2, <1>3, <1>m, <2>1, <3>1
  <2>2. CASE i # at
    <3>1. i < a.size /\ i # last
      BY <1>n
    <3>2. b.entity[i] = a.entity[i] /\ a.entity[i] \in Ids /\ a.index[a.entity[i]] = i
      BY <1>s, <1>3, <2>2, <3>1
    <3>3. a.entity[i] # e /\ a.entity[i] # moved
      BY <1>m, <2>2, <3>1, <3>2 DEF at
    <3> QED
      BY <1>2, <3>2, <3>3
  <2> QED
    BY <2>1, <2>2
<1>7. Written(b)
  <2> SUFFICES ASSUME NEW i \in Index, i < last
               PROVE  b.data[i] \in Data
    BY <1>b DEF Written
  <2>1. i < a.size
    BY <1>n
  <2> QED
    BY <1>3, <1>l, <2>1 DEF Sound, Written
<1>8. Holders(b) = Holders(a) \ {e}
  <2>1. \A x \in Ids : b.index[x] # NO_INDEX <=> x # e /\ a.index[x] # NO_INDEX
    <3>1. at # NO_INDEX /\ a.index[moved] # NO_INDEX
      BY <1>e, <1>m, <1>l DEF Index, NO_INDEX
    <3> QED
      BY <1>2, <3>1
  <2> QED
    BY <2>1 DEF Holders, Has
<1>9. Held(b) = W!Drop(Held(a), e)
  <2>1. \A x \in Holders(b) : DataOf(b, x) = DataOf(a, x)
    <3> SUFFICES ASSUME NEW x \in Holders(b)
                 PROVE  b.data[b.index[x]] = a.data[a.index[x]]
      BY DEF DataOf
    <3>0. x \in Ids /\ b.index[x] # NO_INDEX
      BY DEF Holders, Has
    <3>1. CASE x = moved
      <4>1. b.index[x] = at /\ a.index[x] = last
        BY <1>2, <1>4, <1>m, <3>0, <3>1
      <4> QED
        BY <1>3, <1>e, <4>1
    <3>2. CASE x # moved
      BY <1>a, <1>3, <3>0, <3>2
    <3> QED
      BY <3>1, <3>2
  <2>2. DOMAIN Held(a) = Holders(a) /\ \A x \in Holders(a) : Held(a)[x] = DataOf(a, x)
    BY DEF Held
  <2>3. W!Drop(Held(a), e) = [x \in Holders(a) \ {e} |-> Held(a)[x]]
    BY <2>2 DEF W!Drop
  <2>4. Held(b) = [x \in Holders(a) \ {e} |-> DataOf(a, x)]
    BY <1>8, <2>1 DEF Held
  <2> QED
    BY <2>2, <2>3, <2>4
<1> QED
  BY <1>1, <1>5, <1>6, <1>7, <1>8, <1>9 DEF b, Sound

LEMMA HeldType ==
  ASSUME NEW a, Sound(a)
  PROVE  Held(a) \in [Holders(a) -> Data]
<1> SUFFICES ASSUME NEW e \in Holders(a)
             PROVE  a.data[a.index[e]] \in Data
  BY DEF Held, DataOf
<1>1. a.index[e] < a.size /\ e \in Ids /\ a.index[e] # NO_INDEX
  BY DEF Sound, IndexFindsEntity, Holders, Has
<1>2. a.index[e] \in Index
  BY <1>1 DEF Sound, Arrays, Index, NO_INDEX
<1> QED
  BY <1>1, <1>2 DEF Sound, Written

LEMMA WriteSound ==
  ASSUME NEW a, Sound(a), NEW e \in Ids, Has(a, e), NEW d \in Data
  PROVE  /\ Sound(Write(a, e, d))
         /\ Holders(Write(a, e, d)) = Holders(a)
         /\ \A x \in Holders(a) \ {e} : Held(Write(a, e, d))[x] = Held(a)[x]
<1> DEFINE b == Write(a, e, d)
<1>1. a.index[e] \in Index /\ a.index \in [Ids -> 0..NO_INDEX]
  <2>1. a.index[e] < a.size /\ a.index[e] \in 0..NO_INDEX /\ a.size \in 0..LastId
    BY DEF Sound, Arrays, IndexFindsEntity
  <2> QED
    BY <2>1 DEF Index, NO_INDEX, Sound, Arrays
<1>2. /\ b.index = a.index /\ b.entity = a.entity /\ b.size = a.size
      /\ b.data = [a.data EXCEPT ![a.index[e]] = d] /\ b \in Arrays
  BY <1>1 DEF Sound, Arrays, Write
<1> HIDE DEF b
<1>3. IndexFindsEntity(b) /\ EntityFindsIndex(b) /\ Holders(b) = Holders(a)
  BY <1>2 DEF Sound, IndexFindsEntity, EntityFindsIndex, Holders, Has
<1>4. Written(b)
  <2> SUFFICES ASSUME NEW i \in Index, i < a.size
               PROVE  b.data[i] \in Data
    BY <1>2 DEF Written
  <2>1. a.data[i] \in Data /\ a.data \in [Index -> Data \cup {NoData}]
    BY DEF Sound, Written, Arrays
  <2> QED
    BY <1>1, <1>2, <2>1
<1>5. \A x \in Holders(a) \ {e} : Held(b)[x] = Held(a)[x]
  <2> SUFFICES ASSUME NEW x \in Holders(a), x # e
               PROVE  b.data[b.index[x]] = a.data[a.index[x]]
    BY <1>3 DEF Held, DataOf
  <2>1. a.index[x] # a.index[e]
    BY DEF Sound, IndexFindsEntity, Holders
  <2> QED
    <3>1. a.data \in [Index -> Data \cup {NoData}]
      BY DEF Sound, Arrays
    <3>2. a.index[x] \in Index
      <4>1. a.index[x] < a.size /\ a.index[x] \in 0..NO_INDEX /\ a.size \in 0..LastId
        BY DEF Sound, Arrays, IndexFindsEntity, Holders
      <4> QED
        BY <4>1 DEF Index, NO_INDEX
    <3> QED
      BY <1>2, <2>1, <3>1, <3>2
<1> QED
  BY <1>2, <1>3, <1>4, <1>5 DEF b, Sound

LEMMA PermuteSound ==
  ASSUME NEW a, Sound(a), NEW es, es \subseteq Holders(a), NEW from \in Bijection(es, es)
  PROVE  /\ Sound(PermuteData(a, es, from))
         /\ Holders(PermuteData(a, es, from)) = Holders(a)
         /\ \A x \in Holders(a) \ es : Held(PermuteData(a, es, from))[x] = Held(a)[x]
<1> DEFINE b == PermuteData(a, es, from)
<1>f. /\ from \in [es -> es]
      /\ \A x, y \in es : from[x] = from[y] => x = y
      /\ \A y \in es : \E x \in es : from[x] = y
  BY DEF Bijection, Injection, Surjection, IsInjective
<1>h. \A x \in es : x \in Ids /\ a.index[x] # NO_INDEX
  BY DEF Holders, Has
<1>t. /\ a.index \in [Ids -> 0..NO_INDEX] /\ a.entity \in [Index -> 0..LastId]
      /\ a.data \in [Index -> Data \cup {NoData}] /\ a.size \in 0..LastId
  BY DEF Sound, Arrays
<1>s. /\ \A x \in Ids : a.index[x] # NO_INDEX => a.index[x] < a.size /\ a.entity[a.index[x]] = x
      /\ \A i \in Index : i < a.size => a.entity[i] \in Ids /\ a.index[a.entity[i]] = i
  BY DEF Sound, IndexFindsEntity, EntityFindsIndex, Has
<1>i. \A x \in Ids : a.index[x] # NO_INDEX => a.index[x] \in Index
  BY <1>t, <1>s DEF Index, NO_INDEX
<1>b. /\ b.index = [e \in Ids |-> IF e \in es THEN a.index[from[e]] ELSE a.index[e]]
      /\ b.entity = [i \in Index |-> IF \E e \in es : a.index[from[e]] = i
                                     THEN CHOOSE e \in es : a.index[from[e]] = i
                                     ELSE a.entity[i]]
      /\ b.data = a.data /\ b.size = a.size
      /\ b = [index |-> b.index, entity |-> b.entity, data |-> b.data, size |-> b.size]
  <2> DEFINE indexes == [e \in Ids |-> IF e \in es THEN a.index[from[e]] ELSE a.index[e]]
             entities == [i \in Index |-> IF \E e \in es : a.index[from[e]] = i
                                         THEN CHOOSE e \in es : a.index[from[e]] = i
                                         ELSE a.entity[i]]
  <2>1. b = [a EXCEPT !.index = indexes, !.entity = entities]
    BY DEF PermuteData
  <2>2. a = [index |-> a.index, entity |-> a.entity, data |-> a.data, size |-> a.size]
    BY DEF Sound, Arrays
  <2> HIDE DEF b, indexes, entities
  <2>3. b = [index |-> indexes, entity |-> entities, data |-> a.data, size |-> a.size]
    BY <2>1, <2>2
  <2> QED
    BY <2>3 DEF indexes, entities
<1> HIDE DEF b
<1>1. \A x \in Ids : b.index[x] = IF x \in es THEN a.index[from[x]] ELSE a.index[x]
  BY <1>b
<1>2. \A i \in Index : b.entity[i] = IF \E e \in es : a.index[from[e]] = i
                                     THEN CHOOSE e \in es : a.index[from[e]] = i
                                     ELSE a.entity[i]
  BY <1>b
<1>3. \A x, y \in Ids : a.index[x] # NO_INDEX /\ a.index[x] = a.index[y] => x = y
  BY <1>s
<1>4. \A x \in es : b.entity[a.index[from[x]]] = x
  <2> SUFFICES ASSUME NEW x \in es
               PROVE  b.entity[a.index[from[x]]] = x
    OBVIOUS
  <2>1. a.index[from[x]] \in Index
    BY <1>f, <1>h, <1>i
  <2>2. \A e \in es : a.index[from[e]] = a.index[from[x]] => e = x
    BY <1>f, <1>h, <1>3
  <2> QED
    BY <1>2, <2>1, <2>2
<1>5. \A i \in Index : (\A e \in es : a.index[e] # i) => b.entity[i] = a.entity[i]
  BY <1>2, <1>f
<1>6. b \in Arrays
  <2>1. b.index \in [Ids -> 0..NO_INDEX]
    <3>1. \A x \in Ids : (IF x \in es THEN a.index[from[x]] ELSE a.index[x]) \in 0..NO_INDEX
      BY <1>f, <1>h, <1>t
    <3> QED
      BY <1>b, <3>1
  <2>2. b.entity \in [Index -> 0..LastId]
    <3>1. \A i \in Index : b.entity[i] \in 0..LastId
      <4> SUFFICES ASSUME NEW i \in Index PROVE b.entity[i] \in 0..LastId
        OBVIOUS
      <4>1. CASE \E e \in es : a.index[from[e]] = i
        <5>1. b.entity[i] \in Ids
          BY <1>4, <1>h, <4>1
        <5> QED
          BY <5>1 DEF Ids
      <4>2. CASE ~ \E e \in es : a.index[from[e]] = i
        BY <1>2, <1>t, <4>2
      <4> QED
        BY <4>1, <4>2
    <3> QED
      BY <1>b, <3>1
  <2> QED
    BY <1>b, <1>t, <2>1, <2>2 DEF Arrays
<1>7. IndexFindsEntity(b)
  <2> SUFFICES ASSUME NEW x \in Ids, b.index[x] # NO_INDEX
               PROVE  b.index[x] < a.size /\ b.entity[b.index[x]] = x
    BY <1>b DEF IndexFindsEntity, Has
  <2>1. CASE x \in es
    BY <1>1, <1>4, <1>f, <1>h, <1>s, <2>1
  <2>2. CASE x \notin es
    <3>1. b.index[x] = a.index[x] /\ a.index[x] \in Index
      BY <1>1, <1>i, <2>2
    <3>2. \A e \in es : a.index[e] # a.index[x]
      BY <1>1, <1>3, <1>h, <2>2
    <3>3. b.entity[a.index[x]] = a.entity[a.index[x]]
      BY <1>5, <3>1, <3>2
    <3> QED
      BY <1>s, <3>1, <3>3
  <2> QED
    BY <2>1, <2>2
<1>8. EntityFindsIndex(b)
  <2> SUFFICES ASSUME NEW i \in Index, i < a.size
               PROVE  b.entity[i] \in Ids /\ b.index[b.entity[i]] = i
    BY <1>b DEF EntityFindsIndex
  <2>1. CASE \E e \in es : a.index[from[e]] = i
    BY <1>1, <1>4, <1>h, <2>1
  <2>2. CASE ~ \E e \in es : a.index[from[e]] = i
    <3>1. \A e \in es : a.index[e] # i
      BY <1>f, <2>2
    <3>2. b.entity[i] = a.entity[i] /\ a.entity[i] \in Ids /\ a.index[a.entity[i]] = i
      BY <1>5, <1>s, <3>1
    <3> QED
      BY <1>1, <3>1, <3>2
  <2> QED
    BY <2>1, <2>2
<1>9. Written(b)
  BY <1>b DEF Sound, Written
<1>10. Holders(b) = Holders(a)
  BY <1>1, <1>f, <1>h DEF Holders, Has
<1>11. \A x \in Holders(a) \ es : Held(b)[x] = Held(a)[x]
  <2> SUFFICES ASSUME NEW x \in Holders(a), x \notin es
               PROVE  b.data[b.index[x]] = a.data[a.index[x]]
    BY <1>10 DEF Held, DataOf
  <2> QED
    BY <1>1, <1>b DEF Holders
<1> QED
  BY <1>6, <1>7, <1>8, <1>9, <1>10, <1>11 DEF b, Sound

(* Which elements are left over in the array copied into does not show. *)
LEMMA RestoreFromSound ==
  ASSUME NEW a, Sound(a), NEW into, into.data \in [Index -> Data \cup {NoData}]
  PROVE  /\ Sound(RestoreFrom(into, a))
         /\ Holders(RestoreFrom(into, a)) = Holders(a)
         /\ Held(RestoreFrom(into, a)) = Held(a)
<1> DEFINE b == RestoreFrom(into, a)
<1>t. /\ a.index \in [Ids -> 0..NO_INDEX] /\ a.entity \in [Index -> 0..LastId]
      /\ a.data \in [Index -> Data \cup {NoData}] /\ a.size \in 0..LastId
  BY DEF Sound, Arrays
<1>b. /\ b.index = a.index /\ b.entity = a.entity /\ b.size = a.size
      /\ b.data = [i \in Index |-> IF i < a.size THEN a.data[i] ELSE into.data[i]]
      /\ b \in Arrays
  BY DEF RestoreFrom, Sound, Arrays
<1> HIDE DEF b
<1>1. IndexFindsEntity(b) /\ EntityFindsIndex(b) /\ Holders(b) = Holders(a)
  BY <1>b DEF Sound, IndexFindsEntity, EntityFindsIndex, Holders, Has
<1>2. Written(b)
  BY <1>b DEF Sound, Written
<1>3. \A e \in Holders(a) : DataOf(b, e) = DataOf(a, e)
  <2> SUFFICES ASSUME NEW e \in Holders(a) PROVE b.data[b.index[e]] = a.data[a.index[e]]
    BY DEF DataOf
  <2>1. a.index[e] < a.size /\ a.index[e] \in 0..NO_INDEX
    BY <1>t DEF Holders, Sound, IndexFindsEntity
  <2>2. a.index[e] \in Index
    BY <1>t, <2>1 DEF Index, NO_INDEX
  <2> QED
    BY <1>b, <2>1, <2>2
<1> QED
  BY <1>b, <1>1, <1>2, <1>3 DEF b, Sound, Held

-----------------------------------------------------------------------------
(***************************************************************************)
(* The whole store: an id is alive or in the queue once, the signatures     *)
(* say which components there are, the systems see the ids whose signature *)
(* asks for it, and only the living have components.                       *)
(***************************************************************************)
Stores == [avail : Seq(Ids), alive : SUBSET Ids, issue : [Ids -> Nat],
           signature : [Ids -> SUBSET Types], arrays : [Types -> Arrays], zoned : SUBSET Ids]
QueueOnce(s) ==
    /\ \A i \in 1..Len(s.avail) : s.avail[i] \notin s.alive
    /\ \A i, j \in 1..Len(s.avail) : s.avail[i] = s.avail[j] => i = j
Signed(s) == \A e \in Ids, t \in Types : t \in s.signature[e] <=> Has(s.arrays[t], e)
SystemsSee(s) == s.zoned = {e \in Ids : Zone \in s.signature[e]}
LivingOnly(s) == \A e \in Ids : s.signature[e] # {} => e \in s.alive
StoreSound(s) ==
    /\ s \in Stores /\ \A t \in Types : Sound(s.arrays[t])
    /\ QueueOnce(s) /\ Signed(s) /\ SystemsSee(s) /\ LivingOnly(s)
Comps(s) == [t \in Types |-> Held(s.arrays[t])]

LEMMA BlankStore == StoreSound(BlankEcs) /\ Comps(BlankEcs) = [t \in Types |-> << >>]
<1> DEFINE s == BlankEcs
<1>1. /\ s.avail = [i \in 1..LastId |-> i] /\ s.alive = {} /\ s.zoned = {}
      /\ s.issue = [e \in Ids |-> 0] /\ s.signature = [e \in Ids |-> {}]
      /\ s.arrays = [t \in Types |-> BlankArray]
  BY DEF BlankEcs
<1>2. s.avail \in Seq(Ids) /\ Len(s.avail) = LastId
  BY <1>1 DEF Ids
<1>3. BlankArray \in Arrays /\ Sound(BlankArray) /\ Held(BlankArray) = << >>
  BY BlankSound DEF Sound
<1>4. s \in Stores
  BY <1>2, <1>3 DEF BlankEcs, Stores
<1>5. \A e \in Ids : ~Has(BlankArray, e)
  BY DEF BlankArray, Has, NO_INDEX
<1>6. QueueOnce(s) /\ Signed(s) /\ SystemsSee(s) /\ LivingOnly(s)
  BY <1>1, <1>2, <1>5 DEF QueueOnce, Signed, SystemsSee, LivingOnly
<1> HIDE DEF s
<1>7. \A t \in Types : s.arrays[t] = BlankArray
  BY <1>1
<1> QED
  BY <1>3, <1>4, <1>6, <1>7 DEF s, StoreSound, Comps

LEMMA CreateStore ==
  ASSUME NEW s, StoreSound(s), s.avail # << >>
  PROVE  /\ NextId(s) \in Ids \ s.alive
         /\ StoreSound(CreateEntity(s))
         /\ CreateEntity(s).alive = s.alive \cup {NextId(s)}
         /\ CreateEntity(s).arrays = s.arrays /\ CreateEntity(s).zoned = s.zoned
         /\ CreateEntity(s).signature = s.signature
         /\ CreateEntity(s).issue = [s.issue EXCEPT ![NextId(s)] = @ + 1]
         /\ \A t \in Types : ~Has(s.arrays[t], NextId(s))
<1> DEFINE id == NextId(s)
           r == CreateEntity(s)
<1>1. /\ s.avail \in Seq(Ids) /\ s.alive \subseteq Ids /\ s.issue \in [Ids -> Nat]
      /\ s \in Stores /\ QueueOnce(s)
  BY DEF StoreSound, Stores
<1>2. /\ id = s.avail[1] /\ id \in Ids /\ Len(s.avail) \in Nat /\ Len(s.avail) > 0
      /\ Tail(s.avail) \in Seq(Ids) /\ Len(Tail(s.avail)) = Len(s.avail) - 1
      /\ \A i \in 1..(Len(s.avail) - 1) : Tail(s.avail)[i] = s.avail[i + 1]
  BY <1>1 DEF NextId
<1>3. id \notin s.alive
  BY <1>1, <1>2 DEF QueueOnce
<1>4. /\ r.avail = Tail(s.avail) /\ r.alive = s.alive \cup {id} /\ r.arrays = s.arrays
      /\ r.issue = [s.issue EXCEPT ![id] = @ + 1] /\ r.signature = s.signature
      /\ r.zoned = s.zoned
  BY <1>1 DEF CreateEntity, Counted, Stores
<1>5. r \in Stores
  <2>1. r = [s EXCEPT !.avail = Tail(@), !.alive = @ \cup {id},
                      !.issue = [s.issue EXCEPT ![id] = @ + 1]]
    BY DEF CreateEntity, Counted
  <2>2. [s.issue EXCEPT ![id] = @ + 1] \in [Ids -> Nat] /\ s.alive \cup {id} \in SUBSET Ids
    BY <1>1, <1>2
  <2> HIDE DEF r, id
  <2> QED
    BY <1>1, <1>2, <2>1, <2>2 DEF Stores
<1> HIDE DEF r, id
<1>6. QueueOnce(r)
  <2>1. \A i \in 1..Len(r.avail) : i + 1 \in 1..Len(s.avail) /\ r.avail[i] = s.avail[i + 1]
    BY <1>2, <1>4
  <2>2. \A i \in 1..Len(r.avail) : r.avail[i] \notin s.alive /\ r.avail[i] # id
    <3> SUFFICES ASSUME NEW i \in 1..Len(r.avail)
                 PROVE  r.avail[i] \notin s.alive /\ r.avail[i] # id
      OBVIOUS
    <3>1. i + 1 \in 1..Len(s.avail) /\ r.avail[i] = s.avail[i + 1] /\ 1 \in 1..Len(s.avail)
          /\ i + 1 # 1
      BY <2>1, <1>2
    <3> QED
      BY <3>1, <1>1, <1>2 DEF QueueOnce
  <2>3. ASSUME NEW i \in 1..Len(r.avail), NEW j \in 1..Len(r.avail), r.avail[i] = r.avail[j]
        PROVE  i = j
    <3>1. i + 1 = j + 1
      BY <2>1, <2>3, <1>1 DEF QueueOnce
    <3> QED
      BY <3>1
  <2> QED
    BY <2>2, <2>3, <1>4 DEF QueueOnce
<1>7. Signed(r) /\ SystemsSee(r) /\ LivingOnly(r) /\ \A t \in Types : Sound(r.arrays[t])
  BY <1>4 DEF StoreSound, Signed, SystemsSee, LivingOnly
<1>8. \A t \in Types : ~Has(s.arrays[t], id)
  BY <1>2, <1>3 DEF StoreSound, LivingOnly, Signed
<1> QED
  BY <1>2, <1>3, <1>4, <1>5, <1>6, <1>7, <1>8 DEF r, id, StoreSound

(* The component of type t of a store changes hands or content, whoever has one has one still. *)
WithArray(s, t, b) == [s EXCEPT !.arrays[t] = b]
ChangedComps(r, s, t, b) ==
    /\ r.arrays = [s.arrays EXCEPT ![t] = b]
    /\ Comps(r) = [Comps(s) EXCEPT ![t] = Held(b)]
    /\ Held(b) \in [Holders(s.arrays[t]) -> Data]

LEMMA ChangeStore ==
  ASSUME NEW s, StoreSound(s), NEW t \in Types, NEW b, Sound(b),
         Holders(b) = Holders(s.arrays[t])
  PROVE  /\ StoreSound(WithArray(s, t, b))
         /\ WithArray(s, t, b).alive = s.alive
         /\ WithArray(s, t, b).issue = s.issue
         /\ ChangedComps(WithArray(s, t, b), s, t, b)
<1> DEFINE r == WithArray(s, t, b)
<1>1. s \in Stores /\ s.arrays \in [Types -> Arrays] /\ b \in Arrays
  BY DEF StoreSound, Stores, Sound
<1>2. /\ r.avail = s.avail /\ r.alive = s.alive /\ r.zoned = s.zoned
      /\ r.issue = s.issue /\ r.signature = s.signature
      /\ r.arrays = [s.arrays EXCEPT ![t] = b] /\ r \in Stores
  BY <1>1 DEF Stores, WithArray
<1> HIDE DEF r
<1>3. \A u \in Types : r.arrays[u] = IF u = t THEN b ELSE s.arrays[u]
  BY <1>1, <1>2
<1>4. \A u \in Types, e \in Ids : Has(r.arrays[u], e) <=> Has(s.arrays[u], e)
  BY <1>3 DEF Holders
<1>5. Signed(r)
  BY <1>2, <1>4 DEF StoreSound, Signed
<1>6. QueueOnce(r) /\ SystemsSee(r) /\ LivingOnly(r) /\ \A u \in Types : Sound(r.arrays[u])
  BY <1>2, <1>3 DEF StoreSound, QueueOnce, SystemsSee, LivingOnly
<1>7. Comps(r) = [Comps(s) EXCEPT ![t] = Held(b)]
  BY <1>3 DEF Comps
<1>8. Held(b) \in [Holders(s.arrays[t]) -> Data]
  BY HeldType
<1> QED
  BY <1>2, <1>5, <1>6, <1>7, <1>8 DEF r, StoreSound, ChangedComps

(* A store whose array of type t is b and where e has that signature. *)
Changed(s, t, b, e, signature) == SetSignature([s EXCEPT !.arrays[t] = b], e, signature)
ChangedFields(r, s, t, b, e, signature) ==
    /\ r.avail = s.avail /\ r.alive = s.alive /\ r.issue = s.issue
    /\ r.signature = [s.signature EXCEPT ![e] = signature]
    /\ r.arrays = [s.arrays EXCEPT ![t] = b]
    /\ r.zoned = (IF Zone \in signature THEN s.zoned \cup {e} ELSE s.zoned \ {e})
    /\ r = [avail |-> r.avail, alive |-> r.alive, issue |-> r.issue,
            signature |-> r.signature, arrays |-> r.arrays, zoned |-> r.zoned]

LEMMA SetStore ==
  ASSUME NEW s \in Stores, NEW t \in Types, NEW b, NEW e \in Ids, NEW signature
  PROVE  ChangedFields(Changed(s, t, b, e, signature), s, t, b, e, signature)
<1> DEFINE zoned == IF Zone \in signature THEN s.zoned \cup {e} ELSE s.zoned \ {e}
           q == [s EXCEPT !.arrays[t] = b]
           r == Changed(s, t, b, e, signature)
<1>1. s = [avail |-> s.avail, alive |-> s.alive, issue |-> s.issue, signature |-> s.signature,
           arrays |-> s.arrays, zoned |-> s.zoned]
  BY DEF Stores
<1>2. q = [avail |-> s.avail, alive |-> s.alive, issue |-> s.issue, signature |-> s.signature,
           arrays |-> [s.arrays EXCEPT ![t] = b], zoned |-> s.zoned]
  BY <1>1
<1>3. r = [q EXCEPT !.signature[e] = signature,
                    !.zoned = IF Zone \in signature THEN q.zoned \cup {e} ELSE q.zoned \ {e}]
  BY DEF SetSignature, Changed
<1> HIDE DEF q, r
<1>4. q.zoned = s.zoned /\ q.signature = s.signature
  BY <1>2
<1>5. r = [avail |-> s.avail, alive |-> s.alive, issue |-> s.issue,
           signature |-> [s.signature EXCEPT ![e] = signature],
           arrays |-> [s.arrays EXCEPT ![t] = b], zoned |-> zoned]
  BY <1>2, <1>3, <1>4
<1> HIDE DEF zoned
<1>6. /\ r.avail = s.avail /\ r.alive = s.alive /\ r.issue = s.issue
      /\ r.signature = [s.signature EXCEPT ![e] = signature]
      /\ r.arrays = [s.arrays EXCEPT ![t] = b] /\ r.zoned = zoned
  BY ONLY <1>5
<1>7. r = [avail |-> r.avail, alive |-> r.alive, issue |-> r.issue,
           signature |-> r.signature, arrays |-> r.arrays, zoned |-> r.zoned]
  BY ONLY <1>5, <1>6
<1> QED
  BY <1>6, <1>7 DEF zoned, r, ChangedFields

(* Whether e gains or loses its component of type t, its signature says so. *)
LEMMA ChangedStore ==
  ASSUME NEW s, StoreSound(s), NEW e \in s.alive, NEW t \in Types, NEW b, Sound(b),
         NEW signature \in SUBSET Types,
         \A u \in Types \ {t} : u \in signature <=> u \in s.signature[e],
         \A x \in Ids : Has(b, x) <=> IF x = e THEN t \in signature ELSE Has(s.arrays[t], x)
  PROVE  /\ StoreSound(Changed(s, t, b, e, signature))
         /\ Changed(s, t, b, e, signature).alive = s.alive
         /\ Changed(s, t, b, e, signature).issue = s.issue
         /\ Changed(s, t, b, e, signature).arrays = [s.arrays EXCEPT ![t] = b]
<1> DEFINE r == Changed(s, t, b, e, signature)
<1>1. /\ s \in Stores /\ s.arrays \in [Types -> Arrays] /\ e \in Ids /\ b \in Arrays
      /\ s.signature \in [Ids -> SUBSET Types] /\ s.zoned \subseteq Ids
  BY DEF StoreSound, Stores, Sound
<1>3. ChangedFields(r, s, t, b, e, signature)
  BY <1>1, SetStore
<1> HIDE DEF r
<1>4. r \in Stores
  <2>1. /\ r.signature \in [Ids -> SUBSET Types] /\ r.arrays \in [Types -> Arrays]
        /\ r.zoned \subseteq Ids
    BY <1>1, <1>3 DEF ChangedFields
  <2>2. s.avail \in Seq(Ids) /\ s.alive \subseteq Ids /\ s.issue \in [Ids -> Nat]
    BY <1>1 DEF Stores
  <2>3. r.avail \in Seq(Ids) /\ r.alive \subseteq Ids /\ r.issue \in [Ids -> Nat]
    BY <2>2, <1>3 DEF ChangedFields
  <2> QED
    BY <2>1, <2>3, <1>3 DEF Stores, ChangedFields
<1>5. \A u \in Types : r.arrays[u] = IF u = t THEN b ELSE s.arrays[u]
  BY <1>1, <1>3 DEF ChangedFields
<1>6. \A x \in Ids : r.signature[x] = IF x = e THEN signature ELSE s.signature[x]
  BY <1>1, <1>3 DEF ChangedFields
<1>8. Signed(r)
  BY <1>1, <1>5, <1>6 DEF StoreSound, Signed
<1>9. SystemsSee(r)
  <2>1. s.zoned = {x \in Ids : Zone \in s.signature[x]}
    BY DEF StoreSound, SystemsSee
  <2> QED
    BY <1>1, <1>3, <1>6, <2>1 DEF SystemsSee, ChangedFields
<1>10. QueueOnce(r) /\ LivingOnly(r) /\ \A u \in Types : Sound(r.arrays[u])
  BY <1>3, <1>5, <1>6 DEF StoreSound, QueueOnce, LivingOnly, ChangedFields
<1> QED
  BY <1>3, <1>4, <1>8, <1>9, <1>10 DEF r, StoreSound, ChangedFields

LEMMA AddStore ==
  ASSUME NEW s, StoreSound(s), NEW e \in s.alive, NEW t \in Types, ~Has(s.arrays[t], e),
         NEW d \in Data
  PROVE  /\ StoreSound(AddComponent(s, e, t, d))
         /\ AddComponent(s, e, t, d).alive = s.alive
         /\ AddComponent(s, e, t, d).issue = s.issue
         /\ Comps(AddComponent(s, e, t, d)) = [Comps(s) EXCEPT ![t] = W!Put(@, e, d)]
<1> DEFINE b == InsertData(s.arrays[t], e, d)
           signature == s.signature[e] \cup {t}
           r == AddComponent(s, e, t, d)
           put == W!Put(Held(s.arrays[t]), e, d)
<1>1. /\ s \in Stores /\ s.arrays \in [Types -> Arrays] /\ e \in Ids
      /\ s.signature \in [Ids -> SUBSET Types] /\ Sound(s.arrays[t])
  BY DEF StoreSound, Stores
<1>2. Sound(b) /\ Holders(b) = Holders(s.arrays[t]) \cup {e} /\ Held(b) = put
  BY <1>1, InsertSound
<1>3. r = Changed(s, t, b, e, signature)
  BY DEF AddComponent, Changed
<1>4. \A x \in Ids : Has(b, x) <=> IF x = e THEN t \in signature ELSE Has(s.arrays[t], x)
  <2> HIDE DEF b
  <2> QED
    BY <1>2 DEF Holders
<1>5. signature \in SUBSET Types
  BY <1>1
<1>6. \A u \in Types \ {t} : u \in signature <=> u \in s.signature[e]
  OBVIOUS
<1> HIDE DEF b, r, signature
<1>7. /\ StoreSound(r) /\ r.alive = s.alive /\ r.issue = s.issue
      /\ r.arrays = [s.arrays EXCEPT ![t] = b]
  BY <1>2, <1>3, <1>4, <1>5, <1>6, ChangedStore
<1>8. Comps(r) = [Comps(s) EXCEPT ![t] = W!Put(@, e, d)]
  <2>1. Comps(s)[t] = Held(s.arrays[t])
    BY DEF Comps
  <2>2. [Comps(s) EXCEPT ![t] = W!Put(@, e, d)] = [Comps(s) EXCEPT ![t] = put]
    BY <2>1
  <2> HIDE DEF put
  <2>3. Comps(r) = [Comps(s) EXCEPT ![t] = put]
    BY <1>1, <1>2, <1>7 DEF Comps
  <2> QED
    BY <2>2, <2>3
<1> QED
  BY <1>7, <1>8 DEF r

LEMMA RemoveStore ==
  ASSUME NEW s, StoreSound(s), NEW e \in s.alive, NEW t \in Types, Has(s.arrays[t], e)
  PROVE  /\ StoreSound(RemoveComponent(s, e, t))
         /\ RemoveComponent(s, e, t).alive = s.alive
         /\ RemoveComponent(s, e, t).issue = s.issue
         /\ Comps(RemoveComponent(s, e, t)) = [Comps(s) EXCEPT ![t] = W!Drop(@, e)]
<1> DEFINE b == RemoveData(s.arrays[t], e)
           signature == s.signature[e] \ {t}
           r == RemoveComponent(s, e, t)
           rest == W!Drop(Held(s.arrays[t]), e)
<1>1. /\ s \in Stores /\ s.arrays \in [Types -> Arrays] /\ e \in Ids
      /\ s.signature \in [Ids -> SUBSET Types] /\ Sound(s.arrays[t])
  BY DEF StoreSound, Stores
<1>2. Sound(b) /\ Holders(b) = Holders(s.arrays[t]) \ {e} /\ Held(b) = rest
  BY <1>1, RemoveSound
<1>3. r = Changed(s, t, b, e, signature)
  BY DEF RemoveComponent, Changed
<1>4. \A x \in Ids : Has(b, x) <=> IF x = e THEN t \in signature ELSE Has(s.arrays[t], x)
  <2> HIDE DEF b
  <2> QED
    BY <1>2 DEF Holders
<1>5. signature \in SUBSET Types
  BY <1>1
<1>6. \A u \in Types \ {t} : u \in signature <=> u \in s.signature[e]
  OBVIOUS
<1> HIDE DEF b, r, signature
<1>7. /\ StoreSound(r) /\ r.alive = s.alive /\ r.issue = s.issue
      /\ r.arrays = [s.arrays EXCEPT ![t] = b]
  BY <1>2, <1>3, <1>4, <1>5, <1>6, ChangedStore
<1>8. Comps(r) = [Comps(s) EXCEPT ![t] = W!Drop(@, e)]
  <2>1. Comps(s)[t] = Held(s.arrays[t])
    BY DEF Comps
  <2>2. [Comps(s) EXCEPT ![t] = W!Drop(@, e)] = [Comps(s) EXCEPT ![t] = rest]
    BY <2>1
  <2> HIDE DEF rest
  <2>3. Comps(r) = [Comps(s) EXCEPT ![t] = rest]
    BY <1>1, <1>2, <1>7 DEF Comps
  <2> QED
    BY <2>2, <2>3
<1> QED
  BY <1>7, <1>8 DEF r

LEMMA DestroyStore ==
  ASSUME NEW s, StoreSound(s), NEW e \in s.alive
  PROVE  /\ StoreSound(DestroyEntity(s, e))
         /\ DestroyEntity(s, e).alive = s.alive \ {e}
         /\ DestroyEntity(s, e).issue = s.issue
         /\ Comps(DestroyEntity(s, e)) = [t \in Types |-> W!Drop(Comps(s)[t], e)]
<1> DEFINE r == DestroyEntity(s, e)
           left(a) == IF Has(a, e) THEN RemoveData(a, e) ELSE a
           arrays == [t \in Types |-> left(s.arrays[t])]
<1>1. /\ s \in Stores /\ s.arrays \in [Types -> Arrays] /\ e \in Ids
      /\ s.signature \in [Ids -> SUBSET Types] /\ s.zoned \subseteq Ids
      /\ s.avail \in Seq(Ids) /\ s.alive \subseteq Ids /\ s.issue \in [Ids -> Nat]
      /\ \A t \in Types : Sound(s.arrays[t])
  BY DEF StoreSound, Stores
<1>2. ASSUME NEW t \in Types
      PROVE  /\ Sound(left(s.arrays[t])) /\ Holders(left(s.arrays[t])) = Holders(s.arrays[t]) \ {e}
             /\ Held(left(s.arrays[t])) = W!Drop(Held(s.arrays[t]), e)
  <2> DEFINE a == s.arrays[t]
  <2>0. Sound(a)
    BY <1>1
  <2> HIDE DEF a
  <2>1. CASE Has(a, e)
    BY <1>1, <2>0, <2>1, RemoveSound DEF a
  <2>2. CASE ~Has(a, e)
    <3>1. Holders(a) \ {e} = Holders(a)
      BY <2>2 DEF Holders
    <3>2. DOMAIN Held(a) = Holders(a) /\ Held(a) = [x \in Holders(a) |-> Held(a)[x]]
      BY DEF Held
    <3> QED
      BY <2>0, <2>2, <3>1, <3>2 DEF W!Drop, a
  <2> QED
    BY <2>1, <2>2
<1>3. r = [avail |-> Append(s.avail, e), alive |-> s.alive \ {e}, issue |-> s.issue,
           signature |-> [s.signature EXCEPT ![e] = {}], arrays |-> arrays,
           zoned |-> s.zoned \ {e}]
  <2>1. s = [avail |-> s.avail, alive |-> s.alive, issue |-> s.issue,
             signature |-> s.signature, arrays |-> s.arrays, zoned |-> s.zoned]
    BY <1>1 DEF Stores
  <2>2. r = [s EXCEPT !.alive = s.alive \ {e}, !.signature = [s.signature EXCEPT ![e] = {}],
                      !.avail = Append(s.avail, e), !.arrays = arrays, !.zoned = s.zoned \ {e}]
    BY DEF DestroyEntity
  <2> HIDE DEF r, arrays
  <2> QED
    BY <2>1, <2>2
<1>4. /\ Append(s.avail, e) \in Seq(Ids) /\ Len(Append(s.avail, e)) = Len(s.avail) + 1
      /\ Append(s.avail, e)[Len(s.avail) + 1] = e /\ Len(s.avail) \in Nat
      /\ \A i \in 1..Len(s.avail) : Append(s.avail, e)[i] = s.avail[i]
  BY <1>1
<1>5. arrays \in [Types -> Arrays]
  BY <1>2 DEF Sound
<1>6. [s.signature EXCEPT ![e] = {}] \in [Ids -> SUBSET Types]
  BY <1>1
<1>7. /\ \A t \in Types : r.arrays[t] = left(s.arrays[t])
      /\ \A x \in Ids : r.signature[x] = IF x = e THEN {} ELSE s.signature[x]
  BY <1>1, <1>3
<1> HIDE DEF arrays, r, left
<1>8. r \in Stores
  BY <1>1, <1>3, <1>4, <1>5, <1>6 DEF Stores
<1>9. QueueOnce(r)
  <2>1. QueueOnce(s)
    BY DEF StoreSound
  <2>2. r.avail = Append(s.avail, e) /\ r.alive = s.alive \ {e}
    BY <1>3
  <2>3. \A i \in 1..Len(s.avail) : s.avail[i] # e
    BY <2>1 DEF QueueOnce
  <2>4. \A i \in 1..Len(r.avail) : i \in 1..Len(s.avail) \/ i = Len(s.avail) + 1
    BY <1>4, <2>2
  <2>5. \A i \in 1..Len(r.avail) : r.avail[i] \notin r.alive
    BY <1>4, <2>1, <2>2, <2>4 DEF QueueOnce
  <2>6. \A i, j \in 1..Len(r.avail) : r.avail[i] = r.avail[j] => i = j
    BY <1>4, <2>1, <2>2, <2>3, <2>4 DEF QueueOnce
  <2> QED
    BY <2>5, <2>6 DEF QueueOnce
<1>10. Signed(r)
  <2> SUFFICES ASSUME NEW x \in Ids, NEW t \in Types
               PROVE  t \in r.signature[x] <=> Has(r.arrays[t], x)
    BY DEF Signed
  <2>1. Has(r.arrays[t], x) <=> Has(s.arrays[t], x) /\ x # e
    BY <1>2, <1>7 DEF Holders
  <2> QED
    BY <2>1, <1>7 DEF StoreSound, Signed
<1>11. SystemsSee(r) /\ LivingOnly(r)
  <2>1. r.zoned = s.zoned \ {e} /\ r.alive = s.alive \ {e}
    BY <1>3
  <2>2. s.zoned = {x \in Ids : Zone \in s.signature[x]}
    BY DEF StoreSound, SystemsSee
  <2>3. r.zoned = {x \in Ids : Zone \in r.signature[x]}
    BY <1>7, <2>1, <2>2
  <2>4. LivingOnly(r)
    BY <1>7, <2>1 DEF StoreSound, LivingOnly
  <2> QED
    BY <2>3, <2>4 DEF SystemsSee
<1>12. Comps(r) = [t \in Types |-> W!Drop(Comps(s)[t], e)]
  <2>1. \A t \in Types : Held(r.arrays[t]) = W!Drop(Held(s.arrays[t]), e)
    BY <1>2, <1>7
  <2>2. \A t \in Types : Comps(s)[t] = Held(s.arrays[t])
    BY DEF Comps
  <2> QED
    BY <2>1, <2>2 DEF Comps
<1>13. r.alive = s.alive \ {e} /\ r.issue = s.issue /\ \A t \in Types : Sound(r.arrays[t])
  BY <1>2, <1>3, <1>7
<1> QED
  BY <1>8, <1>9, <1>10, <1>11, <1>12, <1>13 DEF r, StoreSound

LEMMA RestoredStore ==
  ASSUME NEW s, StoreSound(s), NEW into \in Stores
  PROVE  /\ StoreSound(Restored(into, s))
         /\ Restored(into, s).alive = s.alive /\ Restored(into, s).issue = s.issue
         /\ Restored(into, s).zoned = s.zoned
         /\ Comps(Restored(into, s)) = Comps(s)
         /\ \A t \in Types : /\ Holders(Restored(into, s).arrays[t]) = Holders(s.arrays[t])
                              /\ Held(Restored(into, s).arrays[t]) = Held(s.arrays[t])
<1> DEFINE r == Restored(into, s)
           arrays == [t \in Types |-> RestoreFrom(into.arrays[t], s.arrays[t])]
<1>1. s \in Stores /\ \A t \in Types : Sound(s.arrays[t])
  BY DEF StoreSound
<1>2. \A t \in Types : into.arrays[t].data \in [Index -> Data \cup {NoData}]
  BY DEF Stores, Arrays
<1>3. ASSUME NEW t \in Types
      PROVE  /\ Sound(arrays[t]) /\ Holders(arrays[t]) = Holders(s.arrays[t])
             /\ Held(arrays[t]) = Held(s.arrays[t])
  BY <1>1, <1>2, RestoreFromSound
<1>4. r = [avail |-> s.avail, alive |-> s.alive, issue |-> s.issue,
           signature |-> s.signature, arrays |-> arrays, zoned |-> s.zoned]
  <2>1. s = [avail |-> s.avail, alive |-> s.alive, issue |-> s.issue,
             signature |-> s.signature, arrays |-> s.arrays, zoned |-> s.zoned]
    BY <1>1 DEF Stores
  <2>2. r = [s EXCEPT !.arrays = arrays]
    BY DEF Restored
  <2> HIDE DEF r, arrays
  <2> QED
    BY <2>1, <2>2
<1>5. arrays \in [Types -> Arrays]
  <2>1. DOMAIN arrays = Types /\ arrays = [t \in Types |-> arrays[t]]
    OBVIOUS
  <2> HIDE DEF arrays
  <2> QED
    BY <1>3, <2>1 DEF Sound
<1> HIDE DEF r, arrays
<1>6. r \in Stores
  BY <1>1, <1>4, <1>5 DEF Stores
<1>7. \A t \in Types, e \in Ids : Has(r.arrays[t], e) <=> Has(s.arrays[t], e)
  BY <1>3, <1>4 DEF Holders
<1>8. Signed(r)
  BY <1>4, <1>7 DEF StoreSound, Signed
<1>9. QueueOnce(r) /\ SystemsSee(r) /\ LivingOnly(r)
  BY <1>4 DEF StoreSound, QueueOnce, SystemsSee, LivingOnly
<1>10. Comps(r) = Comps(s)
  BY <1>3, <1>4 DEF Comps
<1> QED
  BY <1>3, <1>4, <1>6, <1>8, <1>9, <1>10 DEF r, StoreSound

-----------------------------------------------------------------------------
(***************************************************************************)
(* The inductive invariant.  Stores, here and in the slots, are sound;      *)
(* a reference's id was issued to another object exactly when its count has *)
(* moved on, in the store the reference was kept with.                      *)
(***************************************************************************)
NamesType(f) == DOMAIN f \subseteq Cards /\ f \in [DOMAIN f -> Ids]
RefSound(r, s) ==
    r # NoRef => /\ r \in [e : Ids, issue : Nat, reissued : BOOLEAN]
                 /\ r.issue <= s.issue[r.e]
                 /\ r.reissued <=> r.issue < s.issue[r.e]
SlotSound(k) ==
    /\ slots[k].live \in BOOLEAN /\ slots[k].generation \in Nat
    /\ StoreSound(slots[k].ecs) /\ NamesType(slots[k].meant) /\ NamesType(slots[k].names)
    /\ RefSound(slots[k].kept, slots[k].ecs)
    /\ ~slots[k].live => slots[k].generation = 0
    /\ slots[k].live => slots[k].generation > 0
StoresInv ==
    /\ caller \in Caller /\ generation \in Nat
    /\ StoreSound(ecs) /\ NamesType(card_db) /\ RefSound(kept, ecs)
    /\ DOMAIN slots = Slots /\ slots = [k \in Slots |-> slots[k]]
    /\ \A k \in Slots : SlotSound(k)

LEMMA StoresInit == Init => StoresInv
<1> SUFFICES ASSUME Init PROVE StoresInv
  OBVIOUS
<1>1. StoreSound(BlankEcs) /\ RefSound(NoRef, BlankEcs) /\ NamesType(<< >>)
  BY BlankStore DEF RefSound, NamesType
<1>2. \A k \in Slots : slots[k] = FreeSlot
  BY DEF Init
<1>3. FreeSlot.ecs = BlankEcs /\ FreeSlot.kept = NoRef /\ FreeSlot.meant = << >> /\ FreeSlot.names = << >>
      /\ FreeSlot.live \in BOOLEAN /\ ~FreeSlot.live /\ FreeSlot.generation = 0
  BY DEF FreeSlot
<1>4. ASSUME NEW k \in Slots PROVE SlotSound(k)
  <2>1. slots[k] = FreeSlot
    BY <1>2
  <2>2. /\ slots[k].live \in BOOLEAN /\ ~slots[k].live /\ slots[k].generation = 0 /\ StoreSound(slots[k].ecs)
        /\ NamesType(slots[k].meant) /\ NamesType(slots[k].names) /\ RefSound(slots[k].kept, slots[k].ecs)
    BY <1>1, <1>3, <2>1
  <2> QED
    BY <2>2 DEF SlotSound
<1>5. DOMAIN slots = Slots /\ slots = [k \in Slots |-> slots[k]]
  BY DEF Init
<1> QED
  BY <1>1, <1>4, <1>5, CallersAssumption DEF Init, StoresInv

(* What an operation that leaves the slots alone has to show. *)
LEMMA SlotsAlone ==
  ASSUME StoresInv, UNCHANGED <<slots, caller>>, generation' = generation, StoreSound(ecs'),
         NamesType(card_db'), RefSound(kept', ecs')
  PROVE  StoresInv'
BY DEF StoresInv, SlotSound

LEMMA IssuedRef ==
  ASSUME NEW s, StoreSound(s), s.avail # << >>, RefSound(kept, s), Issuing(NextId(s)),
         NEW r, r.issue = CreateEntity(s).issue
  PROVE  RefSound(kept', r)
<1> DEFINE id == NextId(s)
<1>1. id \in Ids /\ r.issue = [s.issue EXCEPT ![id] = @ + 1] /\ s.issue \in [Ids -> Nat]
  BY CreateStore DEF StoreSound, Stores
<1>2. kept' = IF kept.e = id THEN [kept EXCEPT !.reissued = TRUE] ELSE kept
  BY DEF Issuing
<1> HIDE DEF id
<1>3. CASE kept = NoRef
  <2>1. kept.e = 0 /\ id # 0
    BY <1>1, <1>3 DEF NoRef, Ids
  <2> QED
    BY <1>2, <1>3, <2>1 DEF RefSound
<1>4. CASE kept # NoRef
  <2>1. /\ kept \in [e : Ids, issue : Nat, reissued : BOOLEAN]
        /\ kept.issue <= s.issue[kept.e] /\ (kept.reissued <=> kept.issue < s.issue[kept.e])
    BY <1>4 DEF RefSound
  <2>2. CASE kept.e = id
    <3>1. kept' = [e |-> id, issue |-> kept.issue, reissued |-> TRUE]
      BY <1>2, <2>1, <2>2
    <3>2. r.issue[id] = s.issue[id] + 1 /\ s.issue[id] \in Nat
      BY <1>1
    <3> QED
      BY <2>1, <2>2, <3>1, <3>2 DEF RefSound
  <2>3. CASE kept.e # id
    BY <1>1, <1>2, <2>1, <2>3 DEF RefSound
  <2> QED
    BY <2>2, <2>3
<1> QED
  BY <1>3, <1>4

(* What a caller does keeps to the types, data, names and slots there are. *)
LEMMA CallerUses ==
  ASSUME StoresInv
  PROVE  /\ caller.types \subseteq Types /\ caller.data \subseteq Data
         /\ caller.cards \subseteq Cards /\ caller.slots \subseteq Slots
         /\ ecs.alive \subseteq Ids /\ Objects \subseteq ecs.alive
BY DEF StoresInv, Caller, Objects, StoreSound, Stores

(* A new prototype: the names, one more, and the store it is in. *)
LEMMA LoadStore ==
  ASSUME NEW s, StoreSound(s), s.avail # << >>, NEW c \in Cards,
         NEW r, r = AddComponent(CreateEntity(s), NextId(s), CardData, c)
  PROVE  /\ StoreSound(r) /\ r.alive = s.alive \cup {NextId(s)} /\ NextId(s) \in Ids \ s.alive
         /\ r.issue = CreateEntity(s).issue
         /\ Comps(r) = [Comps(s) EXCEPT ![CardData] = W!Put(@, NextId(s), c)]
<1> DEFINE q == CreateEntity(s)
           id == NextId(s)
<1>1. /\ StoreSound(q) /\ q.alive = s.alive \cup {id} /\ q.arrays = s.arrays
      /\ id \in Ids \ s.alive /\ \A t \in Types : ~Has(s.arrays[t], id)
  BY CreateStore
<1>2. c \in Data /\ CardData \in Types
  BY CardsAssumption, TypesAssumption
<1>3. Comps(q) = Comps(s)
  BY <1>1 DEF Comps
<1> HIDE DEF q, id
<1>4. /\ StoreSound(AddComponent(q, id, CardData, c))
      /\ AddComponent(q, id, CardData, c).alive = q.alive
      /\ AddComponent(q, id, CardData, c).issue = q.issue
      /\ Comps(AddComponent(q, id, CardData, c)) = [Comps(q) EXCEPT ![CardData] = W!Put(@, id, c)]
  BY <1>1, <1>2, AddStore
<1> QED
  BY <1>1, <1>3, <1>4 DEF q, id

LEMMA StoresStep ==
  ASSUME StoresInv, Next
  PROVE  StoresInv'
<1> USE CallerUses
<1>s. /\ StoreSound(ecs) /\ NamesType(card_db) /\ RefSound(kept, ecs) /\ generation \in Nat
      /\ \A k \in Slots : SlotSound(k)
      /\ DOMAIN slots = Slots /\ slots = [k \in Slots |-> slots[k]] /\ caller \in Caller
  BY DEF StoresInv
<1>c. UNCHANGED caller
  BY DEF Next
<1>r. \A s : s.issue = ecs.issue => RefSound(kept, s)
  BY <1>s DEF RefSound
<1>1. CASE Create
  <2>1. /\ ecs.avail # << >> /\ ecs' = CreateEntity(ecs) /\ Issuing(NextId(ecs))
        /\ UNCHANGED <<card_db, generation, slots>>
    BY <1>1 DEF Create, CanIssue
  <2>2. StoreSound(ecs')
    BY <1>s, <2>1, CreateStore
  <2>3. RefSound(kept', ecs')
    BY <1>s, <2>1, IssuedRef
  <2> QED
    BY <1>s, <1>c, <2>1, <2>2, <2>3, SlotsAlone
<1>2. CASE Destroy
  <2>1. PICK e \in Objects : ecs' = DestroyEntity(ecs, e)
    BY <1>2 DEF Destroy
  <2>2. StoreSound(ecs') /\ ecs'.issue = ecs.issue
    BY <1>s, <2>1, DestroyStore
  <2> QED
    BY <1>s, <1>c, <1>r, <1>2, <2>2, SlotsAlone DEF Destroy
<1>3. CASE Add
  <2>1. PICK e \in Objects, t \in caller.types, d \in caller.data :
            ~Has(ecs.arrays[t], e) /\ ecs' = AddComponent(ecs, e, t, d)
    BY <1>3 DEF Add
  <2>2. StoreSound(ecs') /\ ecs'.issue = ecs.issue
    BY <1>s, <2>1, AddStore
  <2> QED
    BY <1>s, <1>c, <1>r, <1>3, <2>2, SlotsAlone DEF Add
<1>4. CASE Remove
  <2>1. PICK e \in Objects, t \in caller.types :
            Has(ecs.arrays[t], e) /\ ecs' = RemoveComponent(ecs, e, t)
    BY <1>4 DEF Remove
  <2>2. StoreSound(ecs') /\ ecs'.issue = ecs.issue
    BY <1>s, <2>1, RemoveStore
  <2> QED
    BY <1>s, <1>c, <1>r, <1>4, <2>2, SlotsAlone DEF Remove
<1>5. CASE Change
  <2>1. PICK e \in Objects, t \in caller.types, d \in caller.data :
            Has(ecs.arrays[t], e) /\ ecs' = [ecs EXCEPT !.arrays[t] = Write(@, e, d)]
    BY <1>5 DEF Change
  <2> DEFINE b == Write(ecs.arrays[t], e, d)
  <2>2. Sound(b) /\ Holders(b) = Holders(ecs.arrays[t])
    BY <1>s, <2>1, WriteSound DEF StoreSound
  <2>3. ecs' = WithArray(ecs, t, b)
    BY <2>1 DEF WithArray
  <2> HIDE DEF b
  <2>4. StoreSound(ecs') /\ ecs'.issue = ecs.issue
    BY <1>s, <2>1, <2>2, <2>3, ChangeStore
  <2> QED
    BY <1>s, <1>c, <1>r, <1>5, <2>4, SlotsAlone DEF Change
<1>6. CASE Permute
  <2>1. PICK t \in caller.types : \E es \in SUBSET (Holders(ecs.arrays[t]) \cap Objects) :
            \E from \in Bijection(es, es) :
                ecs' = [ecs EXCEPT !.arrays[t] = PermuteData(@, es, from)]
    BY <1>6 DEF Permute
  <2>2. PICK es \in SUBSET (Holders(ecs.arrays[t]) \cap Objects) :
            \E from \in Bijection(es, es) :
                ecs' = [ecs EXCEPT !.arrays[t] = PermuteData(@, es, from)]
    BY <2>1
  <2>3. PICK from \in Bijection(es, es) :
            ecs' = [ecs EXCEPT !.arrays[t] = PermuteData(@, es, from)]
    BY <2>2
  <2> DEFINE b == PermuteData(ecs.arrays[t], es, from)
  <2>4. Sound(b) /\ Holders(b) = Holders(ecs.arrays[t])
    BY <1>s, PermuteSound DEF StoreSound
  <2>5. ecs' = WithArray(ecs, t, b)
    BY <2>3 DEF WithArray
  <2> HIDE DEF b
  <2>6. StoreSound(ecs') /\ ecs'.issue = ecs.issue
    BY <1>s, <2>4, <2>5, ChangeStore
  <2> QED
    BY <1>s, <1>c, <1>r, <1>6, <2>6, SlotsAlone DEF Permute
<1>7. CASE LoadCard
  <2>1. PICK c \in caller.cards \ DOMAIN card_db :
            /\ ecs' = AddComponent(CreateEntity(ecs), NextId(ecs), CardData, c)
            /\ card_db' = [x \in DOMAIN card_db \cup {c} |->
                              IF x = c THEN NextId(ecs) ELSE card_db[x]]
    BY <1>7 DEF LoadCard
  <2>2. ecs.avail # << >> /\ Issuing(NextId(ecs)) /\ UNCHANGED <<generation, slots>> /\ c \in Cards
    BY <1>7 DEF LoadCard, CanIssue
  <2>3. StoreSound(ecs') /\ NextId(ecs) \in Ids /\ ecs'.issue = CreateEntity(ecs).issue
    BY <1>s, <2>1, <2>2, LoadStore
  <2>4. RefSound(kept', ecs')
    BY <1>s, <2>2, <2>3, IssuedRef
  <2>5. NamesType(card_db')
    BY <1>s, <2>1, <2>2, <2>3 DEF NamesType
  <2> QED
    BY <1>s, <1>c, <2>2, <2>3, <2>4, <2>5, SlotsAlone
<1>8. CASE KeepRef
  <2>1. PICK e \in ecs.alive : kept' = RefOf(e)
    BY <1>8 DEF KeepRef
  <2>2. kept' = [e |-> e, issue |-> ecs.issue[e], reissued |-> FALSE]
    BY <2>1 DEF RefOf
  <2>3. RefSound(kept', ecs)
    <3>1. ecs.issue[e] \in Nat /\ e \in Ids
      BY <1>s DEF StoreSound, Stores
    <3> QED
      BY <2>2, <3>1 DEF RefSound
  <2> QED
    BY <1>s, <1>c, <1>8, <2>3, SlotsAlone DEF KeepRef
<1>9. CASE Save
  <2>1. PICK k \in caller.slots, match \in {FALSE, caller.games > 1} :
            slots' = [slots EXCEPT ![k] =
                [live |-> TRUE, match |-> match, ecs |-> Restored(@.ecs, ecs), kept |-> kept,
                 names |-> IF SameNames(@) THEN @.names ELSE card_db,
                 generation |-> generation, meant |-> card_db]]
    BY <1>9 DEF Save
  <2>2. generation > 0 /\ UNCHANGED <<ecs, card_db, generation, kept>> /\ k \in Slots
    BY <1>9 DEF Save
  <2>3. slots[k].ecs \in Stores
    BY <1>s, <2>2 DEF SlotSound, StoreSound
  <2>4. /\ StoreSound(Restored(slots[k].ecs, ecs))
        /\ Restored(slots[k].ecs, ecs).issue = ecs.issue
    BY <1>s, <2>3, RestoredStore
  <2>5. /\ slots'[k].live = TRUE /\ slots'[k].ecs = Restored(slots[k].ecs, ecs)
        /\ slots'[k].kept = kept /\ slots'[k].generation = generation
        /\ slots'[k].meant = card_db
        /\ slots'[k].names = IF SameNames(slots[k]) THEN slots[k].names ELSE card_db
    BY <1>s, <2>1, <2>2
  <2>n. NamesType(slots'[k].names)
    BY <1>s, <2>2, <2>5 DEF SlotSound
  <2>6. SlotSound(k)'
    <3>1. slots'[k].live
      BY <2>5
    <3>2. slots'[k].live \in BOOLEAN
      BY <2>5
    <3> QED
      BY <1>r, <1>s, <2>2, <2>4, <2>5, <2>n, <3>1, <3>2 DEF SlotSound
  <2>7. \A j \in Slots : j # k => slots'[j] = slots[j]
    BY <1>s, <2>1, <2>2
  <2>8. \A j \in Slots : SlotSound(j)'
    BY <1>s, <2>6, <2>7 DEF SlotSound
  <2>9. DOMAIN slots' = Slots /\ slots' = [j \in Slots |-> slots'[j]]
    BY <1>s, <2>1
  <2> QED
    BY <1>s, <1>c, <2>2, <2>8, <2>9 DEF StoresInv
<1>10. CASE Restore
  <2>1. PICK k \in caller.slots :
            /\ slots[k].live
            /\ ecs' = Restored(ecs, slots[k].ecs)
            /\ card_db' = IF SameNames(slots[k]) THEN card_db ELSE slots[k].names
            /\ generation' = slots[k].generation /\ kept' = slots[k].kept
    BY <1>10 DEF Restore
  <2>2. UNCHANGED slots /\ SlotSound(k)
    BY <1>s, <1>10 DEF Restore
  <2>3. StoreSound(ecs') /\ ecs'.issue = slots[k].ecs.issue
    BY <1>s, <2>1, <2>2, RestoredStore DEF SlotSound, StoreSound
  <2>4. RefSound(kept', ecs')
    BY <2>1, <2>2, <2>3 DEF SlotSound, RefSound
  <2>5. NamesType(card_db') /\ generation' \in Nat
    BY <1>s, <2>1, <2>2 DEF SlotSound
  <2> QED
    BY <1>s, <1>c, <2>2, <2>3, <2>4, <2>5 DEF StoresInv, SlotSound
<1>11. CASE NextGame
  <2>1. /\ ecs' = BlankEcs /\ card_db' = << >> /\ generation' \in Nat /\ kept' = NoRef
        /\ slots' = slots \/ slots' = [k \in Slots |-> FreeSlot]
    BY <1>s, <1>11 DEF NextGame
  <2>2. StoreSound(ecs') /\ RefSound(kept', ecs') /\ NamesType(card_db')
    BY <2>1, BlankStore DEF RefSound, NamesType
  <2>3. CASE slots' = slots
    BY <1>s, <1>c, <2>1, <2>2, <2>3 DEF StoresInv, SlotSound
  <2>4. CASE slots' = [k \in Slots |-> FreeSlot]
    <3>1. /\ FreeSlot.ecs = BlankEcs /\ FreeSlot.kept = NoRef /\ FreeSlot.meant = << >>
          /\ FreeSlot.names = << >> /\ FreeSlot.generation = 0
          /\ FreeSlot.live \in BOOLEAN /\ ~FreeSlot.live
      BY DEF FreeSlot
    <3>2. ASSUME NEW k \in Slots PROVE SlotSound(k)'
      <4>1. slots'[k] = FreeSlot
        BY <2>4
      <4>2. /\ slots'[k].live \in BOOLEAN /\ ~slots'[k].live /\ slots'[k].generation = 0
            /\ StoreSound(slots'[k].ecs) /\ NamesType(slots'[k].meant)
            /\ NamesType(slots'[k].names) /\ RefSound(slots'[k].kept, slots'[k].ecs)
        BY <2>1, <2>2, <3>1, <4>1
      <4> QED
        BY <4>2 DEF SlotSound
    <3>3. DOMAIN slots' = Slots /\ slots' = [k \in Slots |-> slots'[k]]
      BY <2>4
    <3> QED
      BY <1>s, <1>c, <2>1, <2>2, <3>2, <3>3 DEF StoresInv
  <2> QED
    BY <2>1, <2>3, <2>4
<1> QED
  BY <1>1, <1>2, <1>3, <1>4, <1>5, <1>6, <1>7, <1>8, <1>9, <1>10, <1>11 DEF Next

-----------------------------------------------------------------------------
(***************************************************************************)
(* Names.  A slot's own are what was meant, and of two sets of names of one *)
(* game one extends the other, so equal numbers mean equal names.           *)
(***************************************************************************)
Resolve(f, s) ==
    \A c \in DOMAIN f : /\ f[c] \in s.alive /\ f[c] \in DOMAIN Comps(s)[CardData]
                       /\ Comps(s)[CardData][f[c]] = c
Chain(f, g) == Extends(f, g) \/ Extends(g, f)
SlotNames(k) ==
    slots[k].live => /\ Resolve(slots[k].meant, slots[k].ecs)
                     /\ slots[k].names = slots[k].meant
                     /\ slots[k].generation = generation => Chain(card_db, slots[k].meant)
NamesInv ==
    /\ Resolve(card_db, ecs)
    /\ \A k \in Slots : SlotNames(k)
    /\ \A j, k \in Slots :
          /\ slots[j].live /\ slots[k].live /\ slots[j].generation = slots[k].generation
          => Chain(slots[j].meant, slots[k].meant)

LEMMA EqualNames ==
  ASSUME NEW f, NEW g, NamesType(f), NamesType(g), Chain(f, g),
         Cardinality(DOMAIN f) = Cardinality(DOMAIN g)
  PROVE  f = g
<1>1. IsFiniteSet(DOMAIN f) /\ IsFiniteSet(DOMAIN g)
  BY CardsAssumption, FS_Subset DEF NamesType
<1>2. DOMAIN f = DOMAIN g
  BY <1>1, FS_Subset DEF Chain, Extends
<1>3. \A c \in DOMAIN f : f[c] = g[c]
  BY <1>2 DEF Chain, Extends
<1> QED
  BY <1>2, <1>3 DEF NamesType

(* No step of the store disturbs the prototypes of the names there are. *)
LEMMA NamesAlone ==
  ASSUME NamesInv, UNCHANGED <<card_db, generation, slots>>,
         ecs.alive \cap Prototypes \subseteq ecs'.alive,
         \A e \in Prototypes : e \in DOMAIN Comps(ecs)[CardData] =>
             /\ e \in DOMAIN Comps(ecs')[CardData]
             /\ Comps(ecs')[CardData][e] = Comps(ecs)[CardData][e]
  PROVE  NamesInv'
<1>1. \A c \in DOMAIN card_db : card_db[c] \in Prototypes
  BY DEF Prototypes
<1>2. Resolve(card_db, ecs')
  BY <1>1 DEF NamesInv, Resolve
<1>3. \A k \in Slots : SlotNames(k)'
  BY DEF NamesInv, SlotNames
<1> QED
  BY <1>2, <1>3 DEF NamesInv

(* What each step does to the components, for the names and for the refinement. *)
LEMMA CompsDomain ==
  ASSUME NEW s, NEW t \in Types
  PROVE  Comps(s)[t] = Held(s.arrays[t]) /\ DOMAIN Comps(s)[t] = Holders(s.arrays[t])
BY DEF Comps, Held

LEMMA NamesStep ==
  ASSUME StoresInv, NamesInv, Next, ~diverged'
  PROVE  NamesInv'
<1> USE CallerUses, TypesAssumption
<1>s. /\ StoreSound(ecs) /\ NamesType(card_db) /\ \A k \in Slots : SlotSound(k)
      /\ DOMAIN slots = Slots
  BY DEF StoresInv
<1>p. \A e \in Objects : e \notin Prototypes
  BY DEF Objects
<1>1. CASE Create
  <2>1. Comps(ecs') = Comps(ecs) /\ ecs.alive \subseteq ecs'.alive
    BY <1>s, <1>1, CreateStore DEF Create, CanIssue, Comps
  <2> QED
    BY <1>1, <2>1, NamesAlone DEF Create
<1>2. CASE Destroy
  <2>1. PICK e \in Objects : ecs' = DestroyEntity(ecs, e)
    BY <1>2 DEF Destroy
  <2>2. /\ ecs'.alive = ecs.alive \ {e}
        /\ Comps(ecs') = [t \in Types |-> W!Drop(Comps(ecs)[t], e)]
    BY <1>s, <2>1, DestroyStore
  <2>3. Comps(ecs')[CardData] = W!Drop(Comps(ecs)[CardData], e)
    BY <2>2
  <2> QED
    BY <1>p, <1>2, <2>2, <2>3, NamesAlone DEF Destroy, W!Drop
<1>3. CASE Add
  <2>1. PICK e \in Objects, t \in caller.types, d \in caller.data :
            ~Has(ecs.arrays[t], e) /\ ecs' = AddComponent(ecs, e, t, d)
    BY <1>3 DEF Add
  <2>2. /\ ecs'.alive = ecs.alive
        /\ Comps(ecs') = [Comps(ecs) EXCEPT ![t] = W!Put(@, e, d)]
    BY <1>s, <2>1, AddStore
  <2>3. \/ Comps(ecs')[CardData] = Comps(ecs)[CardData]
        \/ Comps(ecs')[CardData] = W!Put(Comps(ecs)[CardData], e, d)
    BY <2>2 DEF Comps
  <2> QED
    BY <1>p, <1>3, <2>2, <2>3, NamesAlone DEF Add, W!Put
<1>4. CASE Remove
  <2>1. PICK e \in Objects, t \in caller.types :
            Has(ecs.arrays[t], e) /\ ecs' = RemoveComponent(ecs, e, t)
    BY <1>4 DEF Remove
  <2>2. /\ ecs'.alive = ecs.alive
        /\ Comps(ecs') = [Comps(ecs) EXCEPT ![t] = W!Drop(@, e)]
    BY <1>s, <2>1, RemoveStore
  <2>3. \/ Comps(ecs')[CardData] = Comps(ecs)[CardData]
        \/ Comps(ecs')[CardData] = W!Drop(Comps(ecs)[CardData], e)
    BY <2>2 DEF Comps
  <2> QED
    BY <1>p, <1>4, <2>2, <2>3, NamesAlone DEF Remove, W!Drop
<1>5. CASE Change
  <2>1. PICK e \in Objects, t \in caller.types, d \in caller.data :
            Has(ecs.arrays[t], e) /\ ecs' = [ecs EXCEPT !.arrays[t] = Write(@, e, d)]
    BY <1>5 DEF Change
  <2> DEFINE b == Write(ecs.arrays[t], e, d)
  <2>2. /\ Sound(b) /\ Holders(b) = Holders(ecs.arrays[t])
        /\ \A x \in Holders(ecs.arrays[t]) \ {e} : Held(b)[x] = Held(ecs.arrays[t])[x]
    BY <1>s, <2>1, WriteSound DEF StoreSound
  <2>3. ecs' = WithArray(ecs, t, b)
    BY <2>1 DEF WithArray
  <2> HIDE DEF b
  <2>c. ecs'.alive = ecs.alive /\ ChangedComps(ecs', ecs, t, b)
    BY <1>s, <2>2, <2>3, ChangeStore
  <2>4. ecs'.alive = ecs.alive /\ Comps(ecs') = [Comps(ecs) EXCEPT ![t] = Held(b)]
    BY <2>c DEF ChangedComps
  <2>5. \/ Comps(ecs')[CardData] = Comps(ecs)[CardData]
        \/ t = CardData /\ Comps(ecs')[CardData] = Held(b)
    BY <2>4 DEF Comps
  <2>6. DOMAIN Held(b) = Holders(b)
    BY DEF Held
  <2> QED
    BY <1>p, <1>5, <2>2, <2>4, <2>5, <2>6, CompsDomain, NamesAlone DEF Change
<1>6. CASE Permute
  <2>1. PICK t \in caller.types : \E es \in SUBSET (Holders(ecs.arrays[t]) \cap Objects) :
            \E from \in Bijection(es, es) :
                ecs' = [ecs EXCEPT !.arrays[t] = PermuteData(@, es, from)]
    BY <1>6 DEF Permute
  <2>2. PICK es \in SUBSET (Holders(ecs.arrays[t]) \cap Objects) :
            \E from \in Bijection(es, es) :
                ecs' = [ecs EXCEPT !.arrays[t] = PermuteData(@, es, from)]
    BY <2>1
  <2>3. PICK from \in Bijection(es, es) :
            ecs' = [ecs EXCEPT !.arrays[t] = PermuteData(@, es, from)]
    BY <2>2
  <2> DEFINE b == PermuteData(ecs.arrays[t], es, from)
  <2>4. /\ Sound(b) /\ Holders(b) = Holders(ecs.arrays[t])
        /\ \A x \in Holders(ecs.arrays[t]) \ es : Held(b)[x] = Held(ecs.arrays[t])[x]
    BY <1>s, PermuteSound DEF StoreSound
  <2>5. ecs' = WithArray(ecs, t, b)
    BY <2>3 DEF WithArray
  <2> HIDE DEF b
  <2>c. ecs'.alive = ecs.alive /\ ChangedComps(ecs', ecs, t, b)
    BY <1>s, <2>4, <2>5, ChangeStore
  <2>6. ecs'.alive = ecs.alive /\ Comps(ecs') = [Comps(ecs) EXCEPT ![t] = Held(b)]
    BY <2>c DEF ChangedComps
  <2>7. \/ Comps(ecs')[CardData] = Comps(ecs)[CardData]
        \/ t = CardData /\ Comps(ecs')[CardData] = Held(b)
    BY <2>6 DEF Comps
  <2>8. DOMAIN Held(b) = Holders(b)
    BY DEF Held
  <2> QED
    BY <1>p, <1>6, <2>4, <2>6, <2>7, <2>8, CompsDomain, NamesAlone DEF Permute
<1>7. CASE LoadCard
  <2>1. PICK c \in caller.cards \ DOMAIN card_db :
            /\ ecs' = AddComponent(CreateEntity(ecs), NextId(ecs), CardData, c)
            /\ card_db' = [x \in DOMAIN card_db \cup {c} |->
                              IF x = c THEN NextId(ecs) ELSE card_db[x]]
    BY <1>7 DEF LoadCard
  <2>2. ecs.avail # << >> /\ UNCHANGED <<generation, slots>> /\ c \in Cards /\ ~Diverging'
    BY <1>7 DEF LoadCard, CanIssue
  <2> DEFINE id == NextId(ecs)
  <2>3. /\ ecs'.alive = ecs.alive \cup {id} /\ id \in Ids \ ecs.alive
        /\ Comps(ecs') = [Comps(ecs) EXCEPT ![CardData] = W!Put(@, id, c)]
    BY <1>s, <2>1, <2>2, LoadStore
  <2>4. Comps(ecs')[CardData] = W!Put(Comps(ecs)[CardData], id, c)
    BY <2>3 DEF Comps
  <2> HIDE DEF id
  <2>5. Resolve(card_db', ecs')
    <3> SUFFICES ASSUME NEW x \in DOMAIN card_db'
                 PROVE  /\ card_db'[x] \in ecs'.alive /\ card_db'[x] \in DOMAIN Comps(ecs')[CardData]
                        /\ Comps(ecs')[CardData][card_db'[x]] = x
      BY DEF Resolve
    <3>1. CASE x = c
      BY <2>1, <2>3, <2>4, <3>1 DEF W!Put, id
    <3>2. CASE x # c
      <4>1. card_db'[x] = card_db[x] /\ x \in DOMAIN card_db
        BY <2>1, <3>2
      <4>2. /\ card_db[x] \in ecs.alive /\ card_db[x] \in DOMAIN Comps(ecs)[CardData]
            /\ Comps(ecs)[CardData][card_db[x]] = x
        BY <4>1 DEF NamesInv, Resolve
      <4> QED
        BY <2>3, <2>4, <4>1, <4>2 DEF W!Put
    <3> QED
      BY <3>1, <3>2
  <2>6. ASSUME NEW k \in Slots, slots[k].live, slots[k].generation = generation
        PROVE  Chain(card_db', slots[k].meant)
    BY <2>2, <2>6 DEF Diverging, Chain
  <2>7. \A k \in Slots : SlotNames(k)'
    BY <2>2, <2>6 DEF NamesInv, SlotNames
  <2> QED
    BY <2>2, <2>5, <2>7 DEF NamesInv
<1>8. CASE KeepRef
  BY <1>8, NamesAlone DEF KeepRef
<1>9. CASE Save
  <2>1. PICK k \in caller.slots, match \in {FALSE, caller.games > 1} :
            slots' = [slots EXCEPT ![k] =
                [live |-> TRUE, match |-> match, ecs |-> Restored(@.ecs, ecs), kept |-> kept,
                 names |-> IF SameNames(@) THEN @.names ELSE card_db,
                 generation |-> generation, meant |-> card_db]]
    BY <1>9 DEF Save
  <2>2. generation > 0 /\ UNCHANGED <<ecs, card_db, generation>> /\ k \in Slots
    BY <1>9 DEF Save
  <2>3. /\ slots'[k].ecs = Restored(slots[k].ecs, ecs) /\ slots'[k].generation = generation
        /\ slots'[k].meant = card_db
        /\ slots'[k].names = IF SameNames(slots[k]) THEN slots[k].names ELSE card_db
        /\ \A j \in Slots : j # k => slots'[j] = slots[j]
    BY <1>s, <2>1, <2>2
  <2>4. Resolve(card_db, slots'[k].ecs)
    <3>1. slots[k].ecs \in Stores
      BY <1>s, <2>2 DEF SlotSound, StoreSound
    <3>2. slots'[k].ecs.alive = ecs.alive /\ Comps(slots'[k].ecs) = Comps(ecs)
      BY <1>s, <2>3, <3>1, RestoredStore
    <3> QED
      BY <3>2 DEF NamesInv, Resolve
  <2>5. slots'[k].names = card_db
    <3>1. ASSUME SameNames(slots[k]) PROVE slots[k].names = card_db
      BY <1>s, <2>2, <3>1, EqualNames DEF SameNames, SameSize, SlotSound, NamesInv, SlotNames
    <3> QED
      BY <2>3, <3>1
  <2>6. \A f : Chain(f, f)
    BY DEF Chain, Extends
  <2>7. \A f, g : Chain(f, g) <=> Chain(g, f)
    BY DEF Chain
  <2>8. SlotNames(k)'
    BY <2>2, <2>3, <2>4, <2>5, <2>6 DEF SlotNames
  <2>9. \A j \in Slots : SlotNames(j)'
    BY <2>2, <2>3, <2>8 DEF NamesInv, SlotNames
  <2>10. ASSUME NEW i \in Slots, NEW j \in Slots, slots'[i].live, slots'[j].live,
                slots'[i].generation = slots'[j].generation
         PROVE  Chain(slots'[i].meant, slots'[j].meant)
    <3>1. CASE i = k
      BY <2>2, <2>3, <2>6, <2>9, <2>10, <3>1 DEF SlotNames
    <3>2. CASE j = k
      BY <2>2, <2>3, <2>6, <2>7, <2>9, <2>10, <3>2 DEF SlotNames
    <3>3. CASE i # k /\ j # k
      BY <2>3, <2>10, <3>3 DEF NamesInv
    <3> QED
      BY <3>1, <3>2, <3>3
  <2> QED
    BY <2>2, <2>9, <2>10 DEF NamesInv
<1>10. CASE Restore
  <2>1. PICK k \in caller.slots :
            /\ slots[k].live
            /\ ecs' = Restored(ecs, slots[k].ecs)
            /\ card_db' = IF SameNames(slots[k]) THEN card_db ELSE slots[k].names
            /\ generation' = slots[k].generation
    BY <1>10 DEF Restore
  <2>2. UNCHANGED slots /\ SlotSound(k) /\ SlotNames(k)
    BY <1>s, <1>10 DEF Restore, NamesInv
  <2>3. card_db' = slots[k].meant
    <3>1. ASSUME SameNames(slots[k]) PROVE slots[k].meant = card_db
      BY <1>s, <2>1, <2>2, <3>1, EqualNames DEF SameNames, SameSize, SlotSound, SlotNames
    <3> QED
      BY <2>1, <2>2, <3>1 DEF SlotNames
  <2>4. Resolve(card_db', ecs')
    <3>1. ecs'.alive = slots[k].ecs.alive /\ Comps(ecs') = Comps(slots[k].ecs)
      BY <1>s, <2>1, <2>2, RestoredStore DEF SlotSound, StoreSound
    <3> QED
      BY <2>1, <2>2, <2>3, <3>1 DEF SlotNames, Resolve
  <2>5. \A j \in Slots : SlotNames(j)'
    BY <2>1, <2>2, <2>3 DEF NamesInv, SlotNames
  <2> QED
    BY <2>2, <2>4, <2>5 DEF NamesInv
<1>11. CASE NextGame
  <2>1. /\ card_db' = << >>
        /\ slots' = slots \/ slots' = [k \in Slots |-> FreeSlot]
    BY <1>11 DEF NextGame
  <2>2. Resolve(card_db', ecs') /\ \A f : Chain(card_db', f)
    BY <2>1 DEF Resolve, Chain, Extends
  <2>3. CASE slots' = slots
    BY <2>2, <2>3 DEF NamesInv, SlotNames
  <2>4. CASE slots' = [k \in Slots |-> FreeSlot]
    <3>1. \A k \in Slots : ~slots'[k].live
      BY <2>4 DEF FreeSlot
    <3> QED
      BY <2>2, <3>1 DEF NamesInv, SlotNames
  <2> QED
    BY <2>1, <2>3, <2>4
<1> QED
  BY <1>1, <1>2, <1>3, <1>4, <1>5, <1>6, <1>7, <1>8, <1>9, <1>10, <1>11 DEF Next

Inv == StoresInv /\ (~diverged => NamesInv)

(* Every store stays sound, the references and the names with it, through every operation, save,
   restore and new game. *)
THEOREM Invariance == Spec => []Inv
<1>1. Init => Inv
  <2> SUFFICES ASSUME Init PROVE NamesInv
    BY StoresInit DEF Inv
  <2>1. /\ card_db = << >> /\ \A k \in Slots : slots[k] = FreeSlot
    BY DEF Init
  <2>2. ~FreeSlot.live
    BY DEF FreeSlot
  <2> QED
    BY <2>1, <2>2 DEF NamesInv, SlotNames, Resolve
<1>2. Inv /\ [Next]_vars => Inv'
  <2> SUFFICES ASSUME Inv, [Next]_vars PROVE Inv'
    OBVIOUS
  <2>1. CASE Next
    <3>1. StoresInv'
      BY <2>1, StoresStep DEF Inv
    <3>2. ~diverged' => ~diverged
      BY <2>1 DEF Next, Create, Destroy, Add, Remove, Change, Permute, LoadCard, KeepRef, Save,
              Restore, NextGame
    <3> QED
      BY <2>1, <3>1, <3>2, NamesStep DEF Inv
  <2>2. CASE UNCHANGED vars
    BY <2>2 DEF vars, Inv, StoresInv, NamesInv, SlotSound, SlotNames
  <2> QED
    BY <2>1, <2>2
<1> QED
  BY <1>1, <1>2, PTL DEF Spec

(* A loaded name is the living prototype of its card, whatever was saved and restored. *)
THEOREM NamesAlwaysResolve == Spec => []NamesResolve
<1>1. Inv => NamesResolve
  <2> SUFFICES ASSUME StoresInv, NamesInv, NEW c \in DOMAIN card_db
               PROVE  /\ card_db[c] \in ecs.alive /\ Has(ecs.arrays[CardData], card_db[c])
                      /\ DataOf(ecs.arrays[CardData], card_db[c]) = c
    BY DEF Inv, NamesResolve
  <2> DEFINE a == ecs.arrays[CardData]
  <2>1. /\ card_db[c] \in ecs.alive /\ card_db[c] \in DOMAIN Comps(ecs)[CardData]
        /\ Comps(ecs)[CardData][card_db[c]] = c
    BY DEF NamesInv, Resolve
  <2>2. Comps(ecs)[CardData] = Held(a) /\ DOMAIN Held(a) = Holders(a)
    BY TypesAssumption, CompsDomain
  <2>3. card_db[c] \in Holders(a) /\ Held(a)[card_db[c]] = DataOf(a, card_db[c])
    BY <2>1, <2>2 DEF Held
  <2> QED
    BY <2>1, <2>2, <2>3 DEF Holders
<1> QED
  BY <1>1, Invariance, PTL

(* A reference resolves until its id goes to another object, and never after. *)
THEOREM RefsAlwaysNameTheirObject == Spec => []RefsNameTheirObject
<1>1. Inv => RefsNameTheirObject
  <2> SUFFICES ASSUME StoresInv, kept # NoRef PROVE Resolves(kept) <=> ~kept.reissued
    BY DEF Inv, RefsNameTheirObject
  <2>1. /\ kept \in [e : Ids, issue : Nat, reissued : BOOLEAN] /\ kept.issue <= ecs.issue[kept.e]
        /\ (kept.reissued <=> kept.issue < ecs.issue[kept.e])
    BY DEF StoresInv, RefSound
  <2>2. ecs.issue[kept.e] \in Nat /\ kept.e # 0
    BY <2>1 DEF StoresInv, StoreSound, Stores, Ids
  <2> QED
    BY <2>1, <2>2 DEF Resolves
<1> QED
  BY <1>1, Invariance, PTL

-----------------------------------------------------------------------------
(***************************************************************************)
(* Each step of the store is the step of World it stands for; keeping a     *)
(* reference is none.                                                       *)
(***************************************************************************)
SavedWorlds == [k \in Slots |-> IF slots[k].live THEN Kept(slots[k]) ELSE [kept |-> FALSE]]

(* The systems see what is in a zone. *)
LEMMA ZoneSeen ==
  ASSUME NEW s, StoreSound(s)
  PROVE  s.zoned = DOMAIN Comps(s)[Zone]
<1>1. s.zoned = {e \in Ids : Has(s.arrays[Zone], e)}
  BY TypesAssumption DEF StoreSound, SystemsSee, Signed
<1> QED
  BY <1>1, CompsDomain, TypesAssumption DEF Holders

LEMMA InitIsWorlds == Init => W!Init
<1> SUFFICES ASSUME Init PROVE W!Init
  OBVIOUS
<1>1. ecs.alive = {} /\ ecs.zoned = {} /\ Comps(ecs) = [t \in Types |-> << >>]
  BY BlankStore DEF Init, BlankEcs
<1>2. SavedWorlds = [k \in Slots |-> [kept |-> FALSE]]
  BY DEF Init, FreeSlot, SavedWorlds
<1> QED
  BY <1>1, <1>2 DEF Init, W!Init, W!Nothing, Comps, SavedWorlds

LEMMA StepIsWorlds ==
  ASSUME Inv, Inv', Next
  PROVE  W!Next \/ UNCHANGED W!vars
<1> USE CallerUses, TypesAssumption
<1>s. /\ StoresInv /\ StoreSound(ecs) /\ \A k \in Slots : SlotSound(k)
      /\ DOMAIN slots = Slots
  BY DEF Inv, StoresInv
<1>t. W!Told
  BY ZoneSeen DEF Inv, StoresInv, W!Told, Comps
<1>a. slots' = slots => SavedWorlds' = SavedWorlds
  BY DEF SavedWorlds, Kept
<1>1. CASE Create
  <2>1. /\ ecs'.alive = ecs.alive \cup {NextId(ecs)} /\ NextId(ecs) \in Ids \ ecs.alive
        /\ Comps(ecs') = Comps(ecs)
    BY <1>s, <1>1, CreateStore DEF Create, CanIssue, Comps
  <2>2. UNCHANGED <<card_db, generation, diverged, SavedWorlds>>
    BY <1>a, <1>1 DEF Create
  <2>3. W!Create
    BY <2>1, <2>2 DEF W!Create, Comps, SavedWorlds
  <2> QED
    BY <1>t, <2>3 DEF W!Next
<1>2. CASE Destroy
  <2>1. PICK e \in Objects : ecs' = DestroyEntity(ecs, e)
    BY <1>2 DEF Destroy
  <2>2. /\ ecs'.alive = ecs.alive \ {e}
        /\ Comps(ecs') = [t \in Types |-> W!Drop(Comps(ecs)[t], e)]
    BY <1>s, <2>1, DestroyStore
  <2>3. UNCHANGED <<card_db, generation, diverged, SavedWorlds>>
    BY <1>a, <1>2 DEF Destroy
  <2>4. e \in ecs.alive
    BY <1>s
  <2>5. W!Destroy
    BY <2>2, <2>3, <2>4 DEF W!Destroy, Comps, SavedWorlds
  <2> QED
    BY <1>t, <2>5 DEF W!Next
<1>3. CASE Add
  <2>1. PICK e \in Objects, t \in caller.types, d \in caller.data :
            ~Has(ecs.arrays[t], e) /\ ecs' = AddComponent(ecs, e, t, d)
    BY <1>3 DEF Add
  <2>2. /\ ecs'.alive = ecs.alive
        /\ Comps(ecs') = [Comps(ecs) EXCEPT ![t] = W!Put(@, e, d)]
    BY <1>s, <2>1, AddStore
  <2>3. UNCHANGED <<card_db, generation, diverged, SavedWorlds>>
    BY <1>a, <1>3 DEF Add
  <2>4. e \in ecs.alive /\ t \in Types /\ d \in Data /\ e \notin DOMAIN Comps(ecs)[t]
    BY <1>s, <2>1, CompsDomain DEF Holders
  <2>5. W!AddComponent
    <3>1. \E x \in ecs.alive, u \in Types, v \in Data :
             /\ x \notin DOMAIN Comps(ecs)[u]
             /\ Comps(ecs') = [Comps(ecs) EXCEPT ![u] = W!Put(@, x, v)]
      BY <2>2, <2>4, Zenon
    <3> QED
      BY <2>2, <2>3, <3>1 DEF W!AddComponent, Comps, SavedWorlds
  <2> QED
    BY <1>t, <2>5 DEF W!Next
<1>4. CASE Remove
  <2>1. PICK e \in Objects, t \in caller.types :
            Has(ecs.arrays[t], e) /\ ecs' = RemoveComponent(ecs, e, t)
    BY <1>4 DEF Remove
  <2>2. /\ ecs'.alive = ecs.alive
        /\ Comps(ecs') = [Comps(ecs) EXCEPT ![t] = W!Drop(@, e)]
    BY <1>s, <2>1, RemoveStore
  <2>3. UNCHANGED <<card_db, generation, diverged, SavedWorlds>>
    BY <1>a, <1>4 DEF Remove
  <2>4. t \in Types /\ e \in DOMAIN Comps(ecs)[t]
    BY <1>s, <2>1, CompsDomain DEF Holders
  <2>5. W!RemoveComponent
    BY <2>2, <2>3, <2>4 DEF W!RemoveComponent, Comps, SavedWorlds
  <2> QED
    BY <1>t, <2>5 DEF W!Next
<1>c. ASSUME NEW t \in Types, NEW b, Sound(b), Holders(b) = Holders(ecs.arrays[t]),
             ecs' = WithArray(ecs, t, b), UNCHANGED <<card_db, generation, slots, diverged>>
      PROVE  W!ChangeComponents
  <2>1. ecs'.alive = ecs.alive /\ ChangedComps(ecs', ecs, t, b)
    BY <1>s, <1>c, ChangeStore
  <2>2. /\ Comps(ecs') = [Comps(ecs) EXCEPT ![t] = Held(b)]
        /\ Held(b) \in [DOMAIN Comps(ecs)[t] -> Data]
    BY <2>1, CompsDomain DEF ChangedComps
  <2>3. UNCHANGED <<card_db, generation, diverged, SavedWorlds>>
    BY <1>a, <1>c
  <2> QED
    BY <2>1, <2>2, <2>3 DEF W!ChangeComponents, Comps, SavedWorlds
<1>5. CASE Change
  <2>1. PICK e \in Objects, t \in caller.types, d \in caller.data :
            Has(ecs.arrays[t], e) /\ ecs' = [ecs EXCEPT !.arrays[t] = Write(@, e, d)]
    BY <1>5 DEF Change
  <2> DEFINE b == Write(ecs.arrays[t], e, d)
  <2>2. Sound(b) /\ Holders(b) = Holders(ecs.arrays[t])
    BY <1>s, <2>1, WriteSound DEF StoreSound
  <2>3. ecs' = WithArray(ecs, t, b)
    BY <2>1 DEF WithArray
  <2>4. t \in Types
    BY <1>s
  <2> HIDE DEF b
  <2> QED
    BY <1>c, <1>t, <1>5, <2>2, <2>3, <2>4 DEF Change, W!Next
<1>6. CASE Permute
  <2>1. PICK t \in caller.types : \E es \in SUBSET (Holders(ecs.arrays[t]) \cap Objects) :
            \E from \in Bijection(es, es) :
                ecs' = [ecs EXCEPT !.arrays[t] = PermuteData(@, es, from)]
    BY <1>6 DEF Permute
  <2>2. PICK es \in SUBSET (Holders(ecs.arrays[t]) \cap Objects) :
            \E from \in Bijection(es, es) :
                ecs' = [ecs EXCEPT !.arrays[t] = PermuteData(@, es, from)]
    BY <2>1
  <2>3. PICK from \in Bijection(es, es) :
            ecs' = [ecs EXCEPT !.arrays[t] = PermuteData(@, es, from)]
    BY <2>2
  <2> DEFINE b == PermuteData(ecs.arrays[t], es, from)
  <2>4. Sound(b) /\ Holders(b) = Holders(ecs.arrays[t])
    BY <1>s, PermuteSound DEF StoreSound
  <2>5. ecs' = WithArray(ecs, t, b)
    BY <2>3 DEF WithArray
  <2>6. t \in Types
    BY <1>s
  <2> HIDE DEF b
  <2> QED
    BY <1>c, <1>t, <1>6, <2>4, <2>5, <2>6 DEF Permute, W!Next
<1>7. CASE LoadCard
  <2>1. PICK c \in caller.cards \ DOMAIN card_db :
            /\ ecs' = AddComponent(CreateEntity(ecs), NextId(ecs), CardData, c)
            /\ card_db' = [x \in DOMAIN card_db \cup {c} |->
                              IF x = c THEN NextId(ecs) ELSE card_db[x]]
    BY <1>7 DEF LoadCard
  <2>2. ecs.avail # << >> /\ UNCHANGED <<generation, slots>> /\ c \in Cards
    BY <1>s, <1>7, <2>1 DEF LoadCard, CanIssue
  <2>d. diverged' = (diverged \/ Diverging')
    BY <1>7, Zenon DEF LoadCard
  <2> DEFINE id == NextId(ecs)
  <2>3. /\ ecs'.alive = ecs.alive \cup {id} /\ id \in Ids \ ecs.alive
        /\ Comps(ecs') = [Comps(ecs) EXCEPT ![CardData] = W!Put(@, id, c)]
    BY <1>s, <2>1, <2>2, LoadStore
  <2>4. card_db' = W!Put(card_db, c, id)
    BY <2>1 DEF W!Put
  <2>5. Diverging' <=> W!Diverging'
    <3>1. \A k \in Slots : /\ slots'[k].live <=> SavedWorlds'[k] # [kept |-> FALSE]
                           /\ slots'[k].live => /\ SavedWorlds'[k].names = slots'[k].meant
                                                /\ SavedWorlds'[k].game = slots'[k].generation
      BY DEF SavedWorlds, Kept
    <3>2. W!Diverging' <=> \E k \in Slots :
             /\ SavedWorlds'[k] # [kept |-> FALSE] /\ SavedWorlds'[k].game = generation'
             /\ ~Extends(card_db', SavedWorlds'[k].names)
             /\ ~Extends(SavedWorlds'[k].names, card_db')
      BY DEF W!Diverging, W!Nothing, Extends, W!Extends, SavedWorlds
    <3>3. Diverging' <=> \E k \in Slots :
             /\ slots'[k].live /\ slots'[k].generation = generation'
             /\ ~Extends(card_db', slots'[k].meant) /\ ~Extends(slots'[k].meant, card_db')
      BY DEF Diverging
    <3> QED
      BY <3>1, <3>2, <3>3
  <2> HIDE DEF id
  <2>6. W!LoadCard
    BY <1>a, <2>1, <2>2, <2>d, <2>3, <2>4, <2>5 DEF W!LoadCard, Comps, SavedWorlds
  <2> QED
    BY <1>t, <2>6 DEF W!Next
<1>8. CASE KeepRef
  <2>1. UNCHANGED <<ecs, card_db, generation, diverged, SavedWorlds>>
    BY <1>a, <1>8 DEF KeepRef
  <2> QED
    BY <2>1 DEF W!vars, SavedWorlds
<1>9. CASE Save
  <2>1. PICK k \in caller.slots, match \in {FALSE, caller.games > 1} :
            slots' = [slots EXCEPT ![k] =
                [live |-> TRUE, match |-> match, ecs |-> Restored(@.ecs, ecs), kept |-> kept,
                 names |-> IF SameNames(@) THEN @.names ELSE card_db,
                 generation |-> generation, meant |-> card_db]]
    BY <1>9 DEF Save
  <2>2. UNCHANGED <<ecs, card_db, generation, diverged>> /\ k \in Slots
    BY <1>s, <1>9 DEF Save
  <2>3. /\ slots'[k].ecs = Restored(slots[k].ecs, ecs) /\ slots'[k].generation = generation
        /\ slots'[k].meant = card_db /\ slots'[k].live
        /\ \A j \in Slots : j # k => slots'[j] = slots[j]
    BY <1>s, <2>1, <2>2
  <2>4. Kept(slots'[k]) = W!Now
    <3>1. slots[k].ecs \in Stores
      BY <1>s, <2>2 DEF SlotSound, StoreSound
    <3>2. slots'[k].ecs.alive = ecs.alive /\ Comps(slots'[k].ecs) = Comps(ecs)
      BY <1>s, <2>3, <3>1, RestoredStore
    <3> QED
      BY <2>3, <3>2 DEF Kept, W!Now, Comps
  <2>5. SavedWorlds' = [SavedWorlds EXCEPT ![k] = W!Now]
    <3>1. DOMAIN SavedWorlds = Slots /\ DOMAIN SavedWorlds' = Slots
      BY DEF SavedWorlds
    <3>2. SavedWorlds'[k] = W!Now
      BY <2>2, <2>3, <2>4 DEF SavedWorlds
    <3>3. \A j \in Slots : j # k => SavedWorlds'[j] = SavedWorlds[j]
      BY <2>3 DEF SavedWorlds, Kept
    <3>4. SavedWorlds' = [j \in Slots |-> SavedWorlds'[j]]
      BY DEF SavedWorlds
    <3>5. SavedWorlds = [j \in Slots |-> SavedWorlds[j]]
      BY DEF SavedWorlds
    <3> QED
      BY <2>2, <3>1, <3>2, <3>3, <3>4, <3>5
  <2>6. W!Save
    BY <2>2, <2>5 DEF W!Save, SavedWorlds
  <2> QED
    BY <1>t, <2>6 DEF W!Next
<1>10. CASE Restore
  <2>1. PICK k \in caller.slots :
            /\ slots[k].live
            /\ ecs' = Restored(ecs, slots[k].ecs)
            /\ card_db' = IF SameNames(slots[k]) THEN card_db ELSE slots[k].names
            /\ generation' = slots[k].generation
    BY <1>10 DEF Restore
  <2>2. UNCHANGED <<slots, diverged, SavedWorlds>> /\ SlotSound(k) /\ k \in Slots
    BY <1>s, <1>a, <1>10 DEF Restore
  <2>3. ecs'.alive = slots[k].ecs.alive /\ Comps(ecs') = Comps(slots[k].ecs)
    BY <1>s, <2>1, <2>2, RestoredStore DEF SlotSound, StoreSound
  <2>4. ~diverged => card_db' = slots[k].meant
    <3>1. ASSUME ~diverged, SameNames(slots[k]) PROVE slots[k].meant = card_db
      BY <1>s, <2>1, <2>2, <3>1, EqualNames
         DEF SameNames, SameSize, SlotSound, SlotNames, Inv, StoresInv, NamesInv
    <3> QED
      BY <2>1, <2>2, <3>1 DEF SlotNames, Inv, NamesInv
  <2>5. /\ SavedWorlds[k] # [kept |-> FALSE] /\ SavedWorlds[k].living = slots[k].ecs.alive
        /\ SavedWorlds[k].holds = Comps(slots[k].ecs) /\ SavedWorlds[k].game = slots[k].generation
        /\ SavedWorlds[k].names = slots[k].meant
    BY <2>1, <2>2 DEF SavedWorlds, Kept, Comps
  <2>6. W!Restore
    <3>1. /\ SavedWorlds[k] # [kept |-> FALSE] /\ ecs'.alive = SavedWorlds[k].living
          /\ Comps(ecs') = SavedWorlds[k].holds /\ generation' = SavedWorlds[k].game
          /\ ~diverged => card_db' = SavedWorlds[k].names
      BY <2>1, <2>3, <2>4, <2>5
    <3> QED
      BY <2>2, <3>1 DEF W!Restore, W!Nothing, SavedWorlds, Comps
  <2> QED
    BY <1>t, <2>6 DEF W!Next
<1>11. CASE NextGame
  <2>1. /\ ecs' = BlankEcs /\ card_db' = << >> /\ generation' = generation + 1
        /\ slots' = slots \/ slots' = [k \in Slots |-> FreeSlot]
        /\ UNCHANGED diverged
    BY <1>11 DEF NextGame
  <2>2. ecs'.alive = {} /\ Comps(ecs') = [t \in Types |-> << >>]
    BY <2>1, BlankStore DEF BlankEcs
  <2>3. SavedWorlds' = SavedWorlds \/ SavedWorlds' = [k \in Slots |-> [kept |-> FALSE]]
    BY <1>a, <2>1 DEF SavedWorlds, FreeSlot
  <2>4. W!NextGame
    BY <2>1, <2>2, <2>3 DEF W!NextGame, W!Nothing, SavedWorlds, Comps
  <2> QED
    BY <1>t, <2>4 DEF W!Next
<1> QED
  BY <1>1, <1>2, <1>3, <1>4, <1>5, <1>6, <1>7, <1>8, <1>9, <1>10, <1>11 DEF Next

(* The store keeps the promises of World. *)
THEOREM StoreImplementsWorld == Spec => ImplementsWorld
<1>1. Inv /\ Inv' /\ [Next]_vars => [W!Next]_(W!vars)
  <2>1. UNCHANGED vars => UNCHANGED W!vars
    BY DEF vars, W!vars
  <2> QED
    BY <2>1, StepIsWorlds
<1> QED
  BY <1>1, InitIsWorlds, Invariance, PTL DEF Spec, ImplementsWorld, W!Spec

=============================================================================
