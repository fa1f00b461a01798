------------------------- MODULE DockerDriverProofs -------------------------
(***************************************************************************)
(* Proofs about DockerDriver with its image cache and its container pool,  *)
(* for every finite set of cookies and images, every image size, every     *)
(* pool, every set of networks and every configuration.                    *)
(***************************************************************************)
EXTENDS DockerDriver, FiniteSetTheorems, SequenceTheorems, TLAPS

-----------------------------------------------------------------------------
(* Lists without repetitions: the LRU list and the stack of free ids.       *)

(* Unlinking an element takes it, and it alone, off the list. *)
LEMMA Unlinked ==
  ASSUME NEW S, NEW s \in Seq(S), IsInjective(s), NEW e
  PROVE  /\ RemoveFirst(s, e) \in Seq(S) /\ IsInjective(RemoveFirst(s, e))
         /\ ToSet(RemoveFirst(s, e)) = ToSet(s) \ {e}
<1>1. CASE \E k \in 1..Len(s) : s[k] = e
  <2>1. PICK k \in 1..Len(s) : s[k] = e
    BY <1>1
  <2>2. {j \in 1..Len(s) : s[j] = e} = {k}
    BY <2>1 DEF IsInjective
  <2>3. Min({k}) = k
    BY DEF Min
  <2>4. SelectInSeq(s, LAMBDA v : v = e) = k
    BY <2>2, <2>3 DEF SelectInSeq
  <2>5. RemoveFirst(s, e) = RemoveAt(s, k)
    BY <1>1, <2>4 DEF RemoveFirst
  <2> DEFINE t == RemoveAt(s, k)
  <2>6. /\ t \in Seq(S) /\ Len(t) = Len(s) - 1
        /\ \A j \in 1..Len(t) : t[j] = IF j < k THEN s[j] ELSE s[j + 1]
    <3> DEFINE a == SubSeq(s, 1, k - 1)
               b == SubSeq(s, k + 1, Len(s))
    <3>0. Len(s) \in Nat /\ k \in Int /\ \A j \in 1..Len(s) : s[j] \in S
      BY ElementOfSeq
    <3>1. a \in Seq(S) /\ Len(a) = k - 1 /\ \A j \in 1..(k - 1) : a[j] = s[j]
      <4>1. \A j \in 1..(k - 1) : s[j] \in S
        BY <3>0
      <4>2. /\ a \in Seq(S) /\ Len(a) = IF 1 <= k - 1 THEN k - 1 - 1 + 1 ELSE 0
            /\ \A j \in 1..(k - 1 - 1 + 1) : a[j] = s[1 + j - 1]
        BY <3>0, <4>1, SubSeqProperties, SMT
      <4> HIDE DEF a
      <4> QED BY <3>0, <4>2
    <3>2. b \in Seq(S) /\ Len(b) = Len(s) - k /\ \A j \in 1..(Len(s) - k) : b[j] = s[k + j]
      <4>1. \A j \in (k + 1)..Len(s) : s[j] \in S
        BY <3>0
      <4>2. /\ b \in Seq(S) /\ Len(b) = IF k + 1 <= Len(s) THEN Len(s) - (k + 1) + 1 ELSE 0
            /\ \A j \in 1..(Len(s) - (k + 1) + 1) : b[j] = s[(k + 1) + j - 1]
        BY <3>0, <4>1, SubSeqProperties, SMT
      <4> HIDE DEF b
      <4> QED BY <3>0, <4>2
    <3>3. t = a \o b
      BY DEF RemoveAt
    <3> HIDE DEF a, b, t
    <3>4. /\ t \in Seq(S) /\ Len(t) = Len(a) + Len(b)
          /\ \A j \in 1..(Len(a) + Len(b)) : t[j] = IF j <= Len(a) THEN a[j] ELSE b[j - Len(a)]
      BY <3>1, <3>2, <3>3, ConcatProperties
    <3>5. Len(t) = Len(s) - 1
      BY <3>0, <3>1, <3>2, <3>4
    <3>6. ASSUME NEW j \in 1..Len(t) PROVE t[j] = IF j < k THEN s[j] ELSE s[j + 1]
      <4>1. t[j] = IF j <= k - 1 THEN a[j] ELSE b[j - (k - 1)]
        BY <3>0, <3>1, <3>2, <3>4, <3>5
      <4>2. CASE j < k
        BY <3>0, <3>1, <4>1, <4>2
      <4>3. CASE j >= k
        <5>1. j - (k - 1) \in 1..(Len(s) - k)
          BY <3>0, <3>5, <4>3
        <5> QED BY <3>0, <3>2, <4>1, <4>3, <5>1
      <4> QED BY <3>0, <4>2, <4>3
    <3> QED BY <3>4, <3>5, <3>6
  <2> HIDE DEF t
  <2>7. IsInjective(t)
    <3>1. Len(s) \in Nat /\ DOMAIN t = 1..(Len(s) - 1) /\ DOMAIN s = 1..Len(s)
      BY <2>6
    <3>2. SUFFICES ASSUME NEW i \in DOMAIN t, NEW j \in DOMAIN t, t[i] = t[j] PROVE i = j
      BY DEF IsInjective
    <3>3. PICK x \in DOMAIN s : t[i] = s[x] /\ x = IF i < k THEN i ELSE i + 1
      BY <2>6, <3>1
    <3>4. PICK y \in DOMAIN s : t[j] = s[y] /\ y = IF j < k THEN j ELSE j + 1
      BY <2>6, <3>1
    <3>5. s[x] = s[y]
      BY <3>2, <3>3, <3>4
    <3>6. x = y
      BY <3>5, Zenon DEF IsInjective
    <3> QED BY <3>1, <3>3, <3>4, <3>6
  <2>8. ToSet(t) \subseteq ToSet(s) \ {e}
    BY <2>1, <2>6 DEF ToSet, IsInjective
  <2>9. ASSUME NEW x \in ToSet(s) \ {e} PROVE x \in ToSet(t)
    <3>1. PICK j \in 1..Len(s) : s[j] = x
      BY DEF ToSet
    <3>2. CASE j < k
      <4>1. j \in DOMAIN t /\ t[j] = x
        BY <2>6, <3>1, <3>2
      <4> QED BY <4>1 DEF ToSet
    <3>3. CASE j > k
      <4>1. j - 1 \in DOMAIN t /\ t[j - 1] = x
        BY <2>6, <3>1, <3>3
      <4> QED BY <4>1 DEF ToSet
    <3> QED BY <2>1, <3>1, <3>2, <3>3
  <2> QED BY <2>5, <2>6, <2>7, <2>8, <2>9 DEF t
<1>2. CASE ~ \E k \in 1..Len(s) : s[k] = e
  BY <1>2 DEF RemoveFirst, ToSet
<1> QED BY <1>1, <1>2

(* A new element may be put in front. *)
LEMMA Linked ==
  ASSUME NEW S, NEW s \in Seq(S), IsInjective(s), NEW e \in S, e \notin ToSet(s)
  PROVE  /\ <<e>> \o s \in Seq(S) /\ IsInjective(<<e>> \o s)
         /\ ToSet(<<e>> \o s) = ToSet(s) \cup {e}
<1> DEFINE t == <<e>> \o s
<1>1. /\ t \in Seq(S) /\ Len(t) = Len(s) + 1
      /\ \A j \in 1..Len(t) : t[j] = IF j = 1 THEN e ELSE s[j - 1]
  OBVIOUS
<1> HIDE DEF t
<1>2. \A j \in 1..Len(s) : s[j] # e
  BY DEF ToSet
<1>3. IsInjective(t)
  <2>1. SUFFICES ASSUME NEW j \in 1..Len(t), NEW k \in 1..Len(t), t[j] = t[k] PROVE j = k
    BY <1>1 DEF IsInjective
  <2>2. CASE j = 1 \/ k = 1
    <3>1. Len(s) \in Nat /\ Len(t) = Len(s) + 1
      BY <1>1
    <3>2. ASSUME NEW i \in 1..Len(t), t[i] = e PROVE i = 1
      <4>1. SUFFICES ASSUME i # 1 PROVE FALSE
        OBVIOUS
      <4>2. i - 1 \in 1..Len(s) /\ t[i] = s[i - 1]
        BY <1>1, <3>1, <4>1
      <4> QED BY <1>2, <3>2, <4>2
    <3>3. 1 \in 1..Len(t) /\ t[1] = e
      BY <1>1, <3>1
    <3>4. t[j] = e /\ t[k] = e
      BY <2>1, <2>2, <3>3
    <3>5. j = 1 /\ k = 1
      BY <3>2, <3>4
    <3> QED BY <3>5
  <2>3. CASE j > 1 /\ k > 1
    <3>1. s[j - 1] = s[k - 1] /\ j - 1 \in 1..Len(s) /\ k - 1 \in 1..Len(s)
      BY <1>1, <2>1, <2>3
    <3> QED BY <3>1 DEF IsInjective
  <2> QED BY <2>2, <2>3
<1>4. ASSUME NEW x \in ToSet(t) \ {e} PROVE x \in ToSet(s)
  <2>1. PICK j \in 1..Len(t) : t[j] = x
    BY <1>1 DEF ToSet
  <2>2. j - 1 \in DOMAIN s /\ s[j - 1] = x
    BY <1>1, <2>1
  <2> QED BY <2>2 DEF ToSet
<1>5. e \in ToSet(t)
  <2>1. 1 \in DOMAIN t /\ t[1] = e
    BY <1>1
  <2> QED BY <2>1 DEF ToSet
<1>6. ASSUME NEW x \in ToSet(s) PROVE x \in ToSet(t)
  <2>1. PICK j \in 1..Len(s) : s[j] = x
    BY DEF ToSet
  <2>2. j + 1 \in DOMAIN t /\ t[j + 1] = x
    BY <1>1, <2>1
  <2> QED BY <2>2 DEF ToSet
<1> QED BY <1>1, <1>3, <1>4, <1>5, <1>6 DEF t

(* A new element may be put at the end. *)
LEMMA Appended ==
  ASSUME NEW S, NEW s \in Seq(S), IsInjective(s), NEW e \in S, e \notin ToSet(s)
  PROVE  /\ Append(s, e) \in Seq(S) /\ IsInjective(Append(s, e))
         /\ ToSet(Append(s, e)) = ToSet(s) \cup {e}
<1> DEFINE t == Append(s, e)
<1>1. /\ t \in Seq(S) /\ Len(t) = Len(s) + 1
      /\ \A j \in 1..Len(t) : t[j] = IF j = Len(t) THEN e ELSE s[j]
  OBVIOUS
<1> HIDE DEF t
<1>2. \A j \in 1..Len(s) : s[j] # e
  BY DEF ToSet
<1>3. IsInjective(t)
  BY <1>1, <1>2 DEF IsInjective
<1>4. ToSet(t) \subseteq ToSet(s) \cup {e}
  BY <1>1 DEF ToSet
<1>5. e \in ToSet(t)
  <2>1. Len(t) \in DOMAIN t /\ t[Len(t)] = e
    BY <1>1
  <2> QED BY <2>1 DEF ToSet
<1>6. ASSUME NEW x \in ToSet(s) PROVE x \in ToSet(t)
  <2>1. PICK j \in 1..Len(s) : s[j] = x
    BY DEF ToSet
  <2>2. j \in DOMAIN t /\ t[j] = x
    BY <1>1, <2>1
  <2> QED BY <2>2 DEF ToSet
<1> QED BY <1>1, <1>3, <1>4, <1>5, <1>6 DEF t

(* Taking the last element off. *)
LEMMA Popped ==
  ASSUME NEW S, NEW s \in Seq(S), IsInjective(s), s # <<>>
  PROVE  /\ Front(s) \in Seq(S) /\ IsInjective(Front(s)) /\ Last(s) \in S
         /\ Last(s) \in ToSet(s) /\ ToSet(Front(s)) = ToSet(s) \ {Last(s)}
<1> DEFINE t == Front(s)
<1>1. /\ Len(s) \in 1..Len(s) /\ Last(s) = s[Len(s)]
      /\ t \in Seq(S) /\ Len(t) = Len(s) - 1 /\ \A j \in 1..Len(t) : t[j] = s[j]
  <2>0. Len(s) \in Nat \ {0}
    BY EmptySeq
  <2>1. Len(s) \in Nat /\ Len(s) >= 1 /\ Last(s) = s[Len(s)]
    BY <2>0 DEF Last
  <2>2. \A j \in 1..(Len(s) - 1) : s[j] \in S
    BY <2>1, ElementOfSeq
  <2>3. /\ t \in Seq(S) /\ Len(t) = IF 1 <= Len(s) - 1 THEN Len(s) - 1 - 1 + 1 ELSE 0
        /\ \A j \in 1..(Len(s) - 1 - 1 + 1) : t[j] = s[1 + j - 1]
    BY <2>1, <2>2, SubSeqProperties, SMT DEF Front
  <2> HIDE DEF t
  <2>4. Len(t) = Len(s) - 1
    <3>1. PICK n \in Nat : n = Len(s) /\ n >= 1
      BY <2>1
    <3>2. Len(t) = IF 1 <= n - 1 THEN n - 1 - 1 + 1 ELSE 0
      BY <2>3, <3>1
    <3>3. Len(t) = n - 1
      BY <3>1, <3>2
    <3> QED BY <3>1, <3>3
  <2>5. ASSUME NEW j \in 1..Len(t) PROVE t[j] = s[j]
    <3>1. j \in 1..(Len(s) - 1 - 1 + 1) /\ 1 + j - 1 = j
      BY <2>1, <2>4
    <3> QED BY <2>3, <3>1
  <2> QED BY <2>1, <2>3, <2>4, <2>5
<1> HIDE DEF t
<1>2. IsInjective(t) /\ Last(s) \in S /\ Last(s) \in ToSet(s)
  BY <1>1 DEF IsInjective, ToSet
<1>3. ASSUME NEW x \in ToSet(t) PROVE x \in ToSet(s) \ {Last(s)}
  <2>1. PICK j \in 1..Len(t) : t[j] = x
    BY <1>1 DEF ToSet
  <2>2. j \in 1..Len(s) /\ j # Len(s) /\ s[j] = x
    BY <1>1, <2>1
  <2> QED BY <1>1, <2>2 DEF ToSet, IsInjective
<1>4. ASSUME NEW x \in ToSet(s) \ {Last(s)} PROVE x \in ToSet(t)
  <2>1. PICK j \in 1..Len(s) : s[j] = x
    BY DEF ToSet
  <2>2. j \in DOMAIN t /\ t[j] = x
    BY <1>1, <2>1
  <2> QED BY <2>2 DEF ToSet
<1> QED BY <1>1, <1>2, <1>3, <1>4 DEF t

-----------------------------------------------------------------------------
(* Sizes                                                                    *)

(* The units of one image. *)
LEMMA Column ==
  ASSUME NEW i, NEW k \in Nat
  PROVE  IsFiniteSet({i} \X (1..k)) /\ Cardinality({i} \X (1..k)) = k
<1>1. IsFiniteSet({i}) /\ Cardinality({i}) = 1
  BY FS_Singleton
<1>2. IsFiniteSet(1..k) /\ Cardinality(1..k) = k
  BY FS_Interval
<1>3. /\ IsFiniteSet({i} \X (1..k))
      /\ Cardinality({i} \X (1..k)) = Cardinality({i}) * Cardinality(1..k)
  BY <1>1, <1>2, FS_Product, Zenon
<1> QED BY <1>1, <1>2, <1>3

LEMMA ColumnsFinite ==
  ASSUME NEW S \in SUBSET Images
  PROVE  IsFiniteSet(Units(S)) /\ Cardinality(Units(S)) \in Nat
<1>1. IsFiniteSet(S)
  BY ImageCacheAssumption, FS_Subset
<1> DEFINE F == {{i} \X (1..Size[i]) : i \in S}
<1>2. IsFiniteSet(F)
  <2>1. [i \in S |-> {i} \X (1..Size[i])] \in Surjection(S, F)
    BY DEF Surjection
  <2> QED BY <1>1, <2>1, FS_Surjection, Zenon
<1>3. ASSUME NEW T \in F PROVE IsFiniteSet(T)
  <2>1. PICK i \in S : T = {i} \X (1..Size[i])
    OBVIOUS
  <2>2. Size[i] \in Nat
    BY ImageCacheAssumption
  <2> QED BY <2>1, <2>2, Column
<1>4. IsFiniteSet(UNION F)
  BY <1>2, <1>3, FS_UNION
<1> QED BY <1>4, FS_CardinalityType DEF Units

(* One image more adds its size, one less takes it off. *)
LEMMA UnitsAdd ==
  ASSUME NEW S \in SUBSET Images, NEW i \in Images, i \notin S
  PROVE  Cardinality(Units(S \cup {i})) = Cardinality(Units(S)) + Size[i]
<1> DEFINE A == Units(S)
           B == {i} \X (1..Size[i])
<1>1. Units(S \cup {i}) = A \cup B
  BY DEF Units
<1>2. A \cap B = {}
  BY DEF Units
<1>3. IsFiniteSet(A) /\ Cardinality(A) \in Nat
  BY ColumnsFinite
<1>4. IsFiniteSet(B) /\ Cardinality(B) = Size[i] /\ Size[i] \in Nat
  BY Column, ImageCacheAssumption
<1>5. Cardinality(A \cup B) = Cardinality(A) + Cardinality(B) - Cardinality(A \cap B)
  BY <1>3, <1>4, FS_Union
<1>6. Cardinality(A \cap B) = 0
  BY <1>2, FS_EmptySet
<1>7. Cardinality(A \cup B) = Cardinality(A) + Size[i]
  <2> HIDE DEF A, B
  <2> QED BY <1>3, <1>4, <1>5, <1>6
<1> QED BY <1>1, <1>7

LEMMA UnitsRemove ==
  ASSUME NEW S \in SUBSET Images, NEW i \in S
  PROVE  Cardinality(Units(S \ {i})) = Cardinality(Units(S)) - Size[i]
<1>1. (S \ {i}) \cup {i} = S /\ i \in Images
  OBVIOUS
<1>2. Cardinality(Units(S)) = Cardinality(Units(S \ {i})) + Size[i]
  BY <1>1, UnitsAdd
<1>3. Cardinality(Units(S \ {i})) \in Nat /\ Size[i] \in Nat
  BY <1>1, ColumnsFinite, ImageCacheAssumption
<1> QED BY <1>2, <1>3

-----------------------------------------------------------------------------
(* The image cache                                                          *)

LruOK == /\ lru \in Seq(Images) /\ IsInjective(lru)
         /\ lruSize = Cardinality(Units(ToSet(lru)))
BusyOK == busyRef \in [Images -> Nat] /\ busySize = Cardinality(Units(Busy))
CacheInv == /\ LruOK /\ BusyOK
            /\ \A i \in Images : busyRef[i] > 0 \/ i \in Exempt => i \notin ToSet(lru)

LEMMA InLRUDef == \A i : InLRU(i) <=> i \in ToSet(lru)
BY DEF InLRU, ToSet

LEMMA CacheInvExact == CacheInv => CacheExact
BY InLRUDef DEF CacheInv, LruOK, BusyOK, CacheExact

LEMMA LruSet == LruOK => ToSet(lru) \in SUBSET Images
BY ElementOfSeq DEF LruOK, ToSet

LEMMA AddLRU ==
  ASSUME LruOK, NEW i \in Images, addLRULocked(i)
  PROVE  LruOK' /\ ToSet(lru') = ToSet(lru) \cup {i}
<1>0. lru \in Seq(Images) /\ IsInjective(lru) /\ lruSize = Cardinality(Units(ToSet(lru)))
  BY DEF LruOK
<1>1. ToSet(lru) \in SUBSET Images
  BY LruSet
<1> DEFINE s == RemoveFirst(lru, i)
<1>2. s \in Seq(Images) /\ IsInjective(s) /\ ToSet(s) = ToSet(lru) \ {i}
  BY <1>0, Unlinked
<1>3. lru' = <<i>> \o s /\ lruSize' = IF i \in ToSet(lru) THEN lruSize ELSE lruSize + Size[i]
  BY InLRUDef DEF addLRULocked
<1> HIDE DEF s
<1>4. lru' \in Seq(Images) /\ IsInjective(lru') /\ ToSet(lru') = ToSet(s) \cup {i}
  BY <1>2, <1>3, Linked
<1>5. ToSet(lru') = ToSet(lru) \cup {i}
  BY <1>2, <1>4
<1>6. CASE i \in ToSet(lru)
  <2>1. ToSet(lru') = ToSet(lru)
    BY <1>5, <1>6
  <2> QED BY <1>0, <1>3, <1>4, <1>5, <1>6, <2>1 DEF LruOK
<1>7. CASE i \notin ToSet(lru)
  BY <1>0, <1>1, <1>3, <1>4, <1>5, <1>7, UnitsAdd DEF LruOK
<1> QED BY <1>6, <1>7

LEMMA RmLRU ==
  ASSUME LruOK, NEW i \in Images, rmLRULocked(i)
  PROVE  LruOK' /\ ToSet(lru') = ToSet(lru) \ {i}
<1>0. lru \in Seq(Images) /\ IsInjective(lru) /\ lruSize = Cardinality(Units(ToSet(lru)))
  BY DEF LruOK
<1>1. ToSet(lru) \in SUBSET Images
  BY LruSet
<1>2. lru' = RemoveFirst(lru, i) /\ lruSize' = IF i \in ToSet(lru) THEN lruSize - Size[i] ELSE lruSize
  BY InLRUDef DEF rmLRULocked
<1>3. lru' \in Seq(Images) /\ IsInjective(lru') /\ ToSet(lru') = ToSet(lru) \ {i}
  BY <1>0, <1>2, Unlinked
<1>4. CASE i \in ToSet(lru)
  BY <1>0, <1>1, <1>2, <1>3, <1>4, UnitsRemove DEF LruOK
<1>5. CASE i \notin ToSet(lru)
  <2>1. ToSet(lru') = ToSet(lru)
    BY <1>3, <1>5
  <2> QED BY <1>0, <1>2, <1>3, <1>5, <2>1 DEF LruOK
<1> QED BY <1>4, <1>5

(* Update lists an image that is not in use. *)
LEMMA UpdateKeeps ==
  ASSUME CacheInv, NEW who, NEW i \in Images, Update(who, i)
  PROVE  /\ CacheInv' /\ busyRef' = busyRef /\ ToSet(lru) \subseteq ToSet(lru')
         /\ i \in Exempt \/ busyRef[i] > 0 \/ i \in ToSet(lru')
<1>1. CASE isEligible(i) /\ busyRef[i] = 0
  <2>1. addLRULocked(i) /\ busyRef' = busyRef /\ busySize' = busySize
    BY <1>1 DEF Update
  <2>2. LruOK' /\ ToSet(lru') = ToSet(lru) \cup {i}
    BY <2>1, AddLRU DEF CacheInv
  <2> QED BY <1>1, <2>1, <2>2 DEF CacheInv, BusyOK, Busy, isEligible
<1>2. CASE ~(isEligible(i) /\ busyRef[i] = 0)
  <2>1. UNCHANGED cacheVars
    BY <1>2 DEF Update
  <2> QED BY <1>2, <2>1 DEF CacheInv, LruOK, BusyOK, Busy, isEligible, cacheVars
<1> QED BY <1>1, <1>2

(* MarkBusy counts one user more and unlists the image. *)
LEMMA MarkBusyKeeps ==
  ASSUME CacheInv, NEW who, NEW i \in Images, MarkBusy(who, i)
  PROVE  /\ CacheInv'
         /\ i \in Exempt => busyRef' = busyRef /\ lru' = lru
         /\ i \notin Exempt => /\ busyRef' = [busyRef EXCEPT ![i] = busyRef[i] + 1]
                               /\ ToSet(lru') = ToSet(lru) \ {i}
<1>0. busyRef \in [Images -> Nat] /\ busyRef[i] \in Nat /\ Busy \in SUBSET Images
  BY DEF CacheInv, BusyOK, Busy
<1>1. CASE i \in Exempt
  <2>1. UNCHANGED cacheVars
    BY <1>1 DEF MarkBusy, isEligible
  <2> QED BY <1>1, <2>1 DEF CacheInv, LruOK, BusyOK, Busy, cacheVars
<1>2. CASE i \notin Exempt /\ busyRef[i] > 0
  <2>1. busyRef' = [busyRef EXCEPT ![i] = busyRef[i] + 1] /\ UNCHANGED <<lru, lruSize, busySize>>
    BY <1>2 DEF MarkBusy, isEligible
  <2>2. Busy' = Busy /\ busyRef' \in [Images -> Nat]
    BY <1>0, <1>2, <2>1 DEF Busy
  <2> QED BY <1>0, <1>2, <2>1, <2>2 DEF CacheInv, LruOK, BusyOK
<1>3. CASE i \notin Exempt /\ ~(busyRef[i] > 0)
  <2>1. /\ busyRef' = [busyRef EXCEPT ![i] = 1] /\ busySize' = busySize + Size[i]
        /\ rmLRULocked(i) /\ busyRef[i] + 1 = 1
    BY <1>0, <1>3 DEF MarkBusy, isEligible
  <2>2. Busy' = Busy \cup {i} /\ i \notin Busy /\ busyRef' \in [Images -> Nat]
    BY <1>0, <1>3, <2>1 DEF Busy
  <2>3. BusyOK'
    BY <1>0, <2>1, <2>2, UnitsAdd DEF CacheInv, BusyOK
  <2>4. LruOK' /\ ToSet(lru') = ToSet(lru) \ {i}
    BY <2>1, RmLRU DEF CacheInv
  <2> QED BY <1>0, <1>3, <2>1, <2>3, <2>4 DEF CacheInv
<1> QED BY <1>1, <1>2, <1>3

(* MarkFree counts one user less, and lists the image after the last one. *)
LEMMA MarkFreeKeeps ==
  ASSUME CacheInv, NEW who, NEW i \in Images, MarkFree(who, i)
  PROVE  /\ CacheInv' /\ ToSet(lru) \subseteq ToSet(lru')
         /\ i \in Exempt \/ busyRef[i] = 0 => busyRef' = busyRef
         /\ i \notin Exempt /\ busyRef[i] > 0 =>
              /\ busyRef' = [busyRef EXCEPT ![i] = busyRef[i] - 1]
              /\ busyRef'[i] > 0 \/ i \in ToSet(lru')
<1>0. busyRef \in [Images -> Nat] /\ busyRef[i] \in Nat /\ Busy \in SUBSET Images
  BY DEF CacheInv, BusyOK, Busy
<1>1. CASE i \in Exempt \/ busyRef[i] = 0
  <2>1. UNCHANGED cacheVars
    BY <1>1 DEF MarkFree, isEligible
  <2> QED BY <1>0, <1>1, <2>1 DEF CacheInv, LruOK, BusyOK, Busy, cacheVars
<1>2. CASE i \notin Exempt /\ busyRef[i] > 1
  <2>1. busyRef' = [busyRef EXCEPT ![i] = busyRef[i] - 1] /\ UNCHANGED <<lru, lruSize, busySize>>
    BY <1>2 DEF MarkFree, isEligible
  <2>2. Busy' = Busy /\ busyRef' \in [Images -> Nat] /\ busyRef'[i] > 0
    BY <1>0, <1>2, <2>1 DEF Busy
  <2> QED BY <1>0, <1>2, <2>1, <2>2 DEF CacheInv, LruOK, BusyOK
<1>3. CASE i \notin Exempt /\ busyRef[i] = 1
  <2>1. /\ busyRef' = [busyRef EXCEPT ![i] = 0] /\ busySize' = busySize - Size[i]
        /\ addLRULocked(i) /\ busyRef[i] - 1 = 0
    BY <1>0, <1>3 DEF MarkFree, isEligible
  <2>2. Busy' = Busy \ {i} /\ i \in Busy /\ busyRef' \in [Images -> Nat]
    BY <1>0, <1>3, <2>1 DEF Busy
  <2>3. BusyOK'
    BY <1>0, <2>1, <2>2, UnitsRemove DEF CacheInv, BusyOK
  <2>4. LruOK' /\ ToSet(lru') = ToSet(lru) \cup {i}
    BY <2>1, AddLRU DEF CacheInv
  <2> QED BY <1>0, <1>3, <2>1, <2>3, <2>4 DEF CacheInv
<1> QED BY <1>0, <1>1, <1>2, <1>3

(* Pop takes the image used least recently. *)
LEMMA PopKeeps ==
  ASSUME CacheInv, lru # <<>>, Pop
  PROVE  /\ CacheInv' /\ busyRef' = busyRef /\ Last(lru) \in Images
         /\ ToSet(lru') = ToSet(lru) \ {Last(lru)}
<1>0. lru \in Seq(Images) /\ IsInjective(lru) /\ lruSize = Cardinality(Units(ToSet(lru)))
  BY DEF CacheInv, LruOK
<1>1. /\ lru' = Front(lru) /\ lruSize' = lruSize - Size[Last(lru)]
      /\ busyRef' = busyRef /\ busySize' = busySize
  BY DEF Pop
<1>2. /\ lru' \in Seq(Images) /\ IsInjective(lru') /\ Last(lru) \in Images
      /\ Last(lru) \in ToSet(lru) /\ ToSet(lru') = ToSet(lru) \ {Last(lru)}
  BY <1>0, <1>1, Popped
<1>3. ToSet(lru) \in SUBSET Images
  BY LruSet DEF CacheInv
<1>4. LruOK'
  BY <1>0, <1>1, <1>2, <1>3, UnitsRemove DEF LruOK
<1> QED BY <1>1, <1>2, <1>4 DEF CacheInv, BusyOK, Busy

-----------------------------------------------------------------------------
(* The pool of containers                                                   *)

(* An id is on the stack once, or handed out, or neither; in both cases its *)
(* container is registered.                                                 *)
FreeOK ==
  /\ free \in Seq(PoolIds) /\ IsInjective(free) /\ inuse \subseteq PoolIds
  /\ nanny \in [PoolIds -> NannyState]
  /\ \A p \in PoolIds : /\ p \in ToSet(free) => p \notin inuse /\ nanny[p] = "up"
                        /\ p \in inuse => nanny[p] = "up"

LEMMA FreeSet == FreeOK => ToSet(free) \in SUBSET PoolIds
BY ElementOfSeq DEF FreeOK, ToSet

LEMMA AllocKeeps ==
  ASSUME FreeOK, AllocPoolId
  PROVE  /\ FreeOK' /\ Last(free) \in PoolIds /\ Last(free) \notin inuse
         /\ inuse' = inuse \cup {Last(free)}
<1>0. free \in Seq(PoolIds) /\ IsInjective(free) /\ free # <<>>
  BY DEF FreeOK, AllocPoolId
<1>1. free' = Front(free) /\ inuse' = inuse \cup {Last(free)} /\ nanny' = nanny
  BY DEF AllocPoolId
<1>2. /\ free' \in Seq(PoolIds) /\ IsInjective(free') /\ Last(free) \in PoolIds
      /\ Last(free) \in ToSet(free) /\ ToSet(free') = ToSet(free) \ {Last(free)}
  BY <1>0, <1>1, Popped
<1>3. Last(free) \notin inuse /\ nanny[Last(free)] = "up"
  BY <1>2 DEF FreeOK
<1> QED BY <1>1, <1>2, <1>3 DEF FreeOK

LEMMA FreePoolIdKeeps ==
  ASSUME FreeOK, NEW p \in PoolIds, NEW r, FreePoolId(p, r)
  PROVE  FreeOK' /\ inuse' = inuse \ {p}
<1>1. /\ inuse' = inuse \ {p} /\ nanny' = nanny
      /\ free' = IF p \in inuse /\ ~r THEN Append(free, p) ELSE free
  BY DEF FreePoolId
<1>2. CASE p \in inuse /\ ~r
  <2>1. p \notin ToSet(free)
    BY <1>2 DEF FreeOK
  <2>2. free' \in Seq(PoolIds) /\ IsInjective(free') /\ ToSet(free') = ToSet(free) \cup {p}
    <3>1. free \in Seq(PoolIds) /\ IsInjective(free) /\ free' = Append(free, p)
      BY <1>1, <1>2 DEF FreeOK
    <3>2. /\ Append(free, p) \in Seq(PoolIds) /\ IsInjective(Append(free, p))
          /\ ToSet(Append(free, p)) = ToSet(free) \cup {p}
      BY <2>1, <3>1, Appended
    <3> QED BY <3>1, <3>2, Zenon
  <2> QED BY <1>1, <1>2, <2>2 DEF FreeOK
<1>3. CASE ~(p \in inuse /\ ~r)
  BY <1>1, <1>3 DEF FreeOK
<1> QED BY <1>2, <1>3

(* The nannies register and unregister; no one else is touched. *)
LEMMA NannyKeeps ==
  ASSUME FreeOK, exitedInUse \in BOOLEAN, NEW p \in PoolIds, nannyStep(p)
  PROVE  /\ FreeOK' /\ poolCtx' = poolCtx /\ poolClose' = poolClose
         /\ \/ inuse' = inuse /\ exitedInUse' = exitedInUse
            \/ ~poolCtx /\ exitedInUse' = exitedInUse
            \/ exitedInUse' = TRUE
<1>0. /\ free \in Seq(PoolIds) /\ IsInjective(free) /\ inuse \subseteq PoolIds
      /\ nanny \in [PoolIds -> NannyState]
  BY DEF FreeOK
<1>1. ASSUME NEW from \in NannyState \ {"up"}, NEW to \in NannyState, Nanny(p, from, to),
             UNCHANGED <<inuse, free>>
      PROVE  FreeOK'
  <2>1. nanny' = [nanny EXCEPT ![p] = to] /\ nanny[p] # "up"
    BY <1>1 DEF Nanny
  <2>2. p \notin ToSet(free) /\ p \notin inuse
    BY <2>1 DEF FreeOK
  <2> QED BY <1>0, <1>1, <2>1, <2>2 DEF FreeOK
<1>2. Loop("limit") \in NannyState
  BY DEF Loop, NannyState
<1>3. CASE nannyGate(p)
  BY <1>1, <1>2, <1>3 DEF nannyGate, NannyState
<1>4. CASE nannyFatal(p)
  BY <1>0, <1>4 DEF nannyFatal, FreeOK
<1>11. CASE nannyWaited(p)
  BY <1>1, <1>11 DEF nannyWaited, NannyState
<1>5. CASE performInitState(p)
  <2>1. PICK to \in NannyState : Nanny(p, "init", to)
    BY <1>2, <1>5 DEF performInitState, NannyState
  <2> QED BY <1>1, <1>5, <2>1 DEF performInitState, NannyState
<1>6. CASE register(p)
  <2>1. nanny' = [nanny EXCEPT ![p] = "up"] /\ nanny[p] # "up" /\ free' = Append(free, p) /\ inuse' = inuse
    BY <1>6 DEF register, Nanny
  <2>2. p \notin ToSet(free) /\ p \notin inuse
    BY <2>1 DEF FreeOK
  <2>3. free' \in Seq(PoolIds) /\ IsInjective(free') /\ ToSet(free') = ToSet(free) \cup {p}
    <3>1. /\ Append(free, p) \in Seq(PoolIds) /\ IsInjective(Append(free, p))
          /\ ToSet(Append(free, p)) = ToSet(free) \cup {p}
      BY <1>0, <2>2, Appended
    <3> QED BY <2>1, <3>1, Zenon
  <2>4. nanny' \in [PoolIds -> NannyState] /\ nanny'[p] = "up"
    BY <1>0, <2>1 DEF NannyState
  <2>5. FreeOK'
    BY <1>0, <2>1, <2>2, <2>3, <2>4 DEF FreeOK
  <2> QED BY <1>6, <2>5 DEF register
<1>7. CASE startFails(p)
  BY <1>1, <1>2, <1>7 DEF startFails, NannyState
<1>8. CASE unregister(p)
  <2>1. /\ nanny' = [nanny EXCEPT ![p] = "down"] /\ poolCtx' = poolCtx /\ poolClose' = poolClose
        /\ IF p \in inuse THEN inuse' = inuse \ {p} /\ free' = free
                          ELSE free' = RemoveFirst(free, p) /\ inuse' = inuse
        /\ exitedInUse' = (exitedInUse \/ (p \in inuse /\ poolCtx))
    BY <1>8 DEF unregister, Nanny
  <2>2. /\ free' \in Seq(PoolIds) /\ IsInjective(free') /\ inuse' = inuse \ {p}
        /\ ToSet(free') = ToSet(free) \ {p}
    <3>1. CASE p \in inuse
      <4>1. p \notin ToSet(free)
        BY <3>1 DEF FreeOK
      <4> QED BY <1>0, <2>1, <3>1, <4>1
    <3>2. CASE p \notin inuse
      BY <1>0, <2>1, <3>2, Unlinked
    <3> QED BY <3>1, <3>2
  <2>3. nanny' \in [PoolIds -> NannyState] /\ \A q \in PoolIds \ {p} : nanny'[q] = nanny[q]
    BY <1>0, <2>1 DEF NannyState
  <2>4. FreeOK'
    BY <1>0, <2>2, <2>3 DEF FreeOK
  <2>5. CASE p \in inuse
    BY <2>1, <2>4, <2>5
  <2>6. CASE p \notin inuse
    BY <2>1, <2>4, <2>6
  <2> QED BY <2>5, <2>6
<1>9. CASE killed(p)
  <2>1. PICK to \in NannyState : Nanny(p, "down", to)
    BY <1>2, <1>9 DEF killed, NannyState
  <2> QED BY <1>1, <1>9, <2>1 DEF killed, NannyState
<1>10. CASE performTeardown(p)
  BY <1>1, <1>10 DEF performTeardown, NannyState
<1> QED BY <1>3, <1>4, <1>5, <1>6, <1>7, <1>8, <1>9, <1>10, <1>11 DEF nannyStep

-----------------------------------------------------------------------------
(* The inductive invariant                                                  *)

(* What a cookie has at each point: an image once it was inspected, and a   *)
(* reference in the cache from MarkBusy on, which an image with a volume    *)
(* never gets.                                                              *)
CookieSound(x) ==
  /\ x.pc = "new" => x = NewCookie
  /\ x.pc # "new" => x.task \in Images
  /\ x.pc \in {"validate", "pull", "pulling", "revalidate"} => x.image = None
  /\ x.pc = "inspected" => x.image # None /\ ~x.marked
  /\ x.marked => x.image # None /\ x.image \notin HasVolume
  /\ x.image # None /\ ~x.marked /\ x.pc # "inspected" => x.image \in HasVolume

CookiesSound == \A c \in Cookies : CookieSound(cookie[c])

(* Who listens to a transfer waits for it, and for no other. *)
ListenersWait ==
  \A i \in Images : \A c \in transfer[i].listeners : cookie[c].pc = "pulling" /\ cookie[c].task = i

(* The cleaner has an image in hand between Pop and the removal only. *)
CleanerSound == cleaner.pc = "remove" <=> cleaner.img # None

(* Close comes when no cookie is left, and none is created after it. *)
ClosedLast ==
  /\ poolCtx <=> poolClose = "idle"
  /\ ~poolCtx => \A c \in Cookies : cookie[c].pc = "new"

(* As long as no container died while it was handed out, each cookie's pool *)
(* id is handed out, to it alone.                                           *)
HandedOut ==
  ~exitedInUse =>
    \A c \in Cookies : cookie[c].poolId # None =>
      /\ cookie[c].poolId \in inuse
      /\ \A d \in Cookies : cookie[d].poolId = cookie[c].poolId => d = c

BusyExact == "cache" \in conf => \A i \in Images \ Exempt : busyRef[i] = Cardinality(Marking(i))
NetExact == \A n \in Networks : netCount[n] = Cardinality(Joined(n))

DriverInv ==
  /\ TypeOK /\ CookiesSound /\ ListenersWait /\ CleanerSound
  /\ CacheInv /\ BusyExact /\ NoImageForgotten
  /\ FreeOK /\ ClosedLast /\ HandedOut
  /\ NetExact

-----------------------------------------------------------------------------
(* One cookie moves *)

LEMMA Moved ==
  ASSUME cookie \in [Cookies -> CookieRecord], NEW c \in Cookies, NEW x \in CookieRecord,
         cookie' = [cookie EXCEPT ![c] = x]
  PROVE  /\ cookie' \in [Cookies -> CookieRecord] /\ cookie'[c] = x
         /\ \A d \in Cookies \ {c} : cookie'[d] = cookie[d]
OBVIOUS

LEMMA HoldersFinite ==
  \A k : /\ IsFiniteSet(Marking(k)) /\ Cardinality(Marking(k)) \in Nat
         /\ IsFiniteSet(Joined(k)) /\ Cardinality(Joined(k)) \in Nat
<1>1. ASSUME NEW k
      PROVE  /\ IsFiniteSet(Marking(k)) /\ Cardinality(Marking(k)) \in Nat
             /\ IsFiniteSet(Joined(k)) /\ Cardinality(Joined(k)) \in Nat
  <2>1. Marking(k) \in SUBSET Cookies /\ Joined(k) \in SUBSET Cookies
    BY DEF Marking, Joined
  <2>2. IsFiniteSet(Marking(k)) /\ IsFiniteSet(Joined(k))
    BY <2>1, DriverAssumption, FS_Subset
  <2> QED BY <2>2, FS_CardinalityType
<1> QED BY <1>1

(* The holders of an image and of a network after the move. *)
LEMMA HoldersMove ==
  ASSUME cookie \in [Cookies -> CookieRecord], NEW c \in Cookies, NEW x \in CookieRecord,
         cookie' = [cookie EXCEPT ![c] = x]
  PROVE  /\ \A i : Marking(i)' = IF x.marked /\ x.image = i THEN Marking(i) \cup {c} ELSE Marking(i) \ {c}
         /\ \A n : Joined(n)' = IF x.netId = n THEN Joined(n) \cup {c} ELSE Joined(n) \ {c}
<1>1. cookie'[c] = x /\ \A d \in Cookies \ {c} : cookie'[d] = cookie[d]
  BY Moved
<1> HIDE DEF CookieRecord
<1> QED BY <1>1 DEF Marking, Joined

(* The cookies and the listeners stay sound when one that does not wait for *)
(* a pull moves.                                                            *)
LEMMA SoundMove ==
  ASSUME TypeOK, CookiesSound, ListenersWait, NEW c \in Cookies, NEW x \in CookieRecord,
         CookieSound(x), cookie' = [cookie EXCEPT ![c] = x],
         cookie[c].pc # "pulling", transfer' = transfer
  PROVE  CookiesSound' /\ ListenersWait'
<1>0. cookie \in [Cookies -> CookieRecord] /\ transfer \in [Images -> TransferRecord]
  BY DEF TypeOK
<1>1. cookie'[c] = x /\ \A d \in Cookies \ {c} : cookie'[d] = cookie[d]
  BY <1>0, Moved
<1>2. CookiesSound'
  <2>1. ASSUME NEW d \in Cookies PROVE CookieSound(cookie[d])'
    <3>1. CASE d = c
      BY <1>1, <3>1 DEF CookieSound
    <3>2. CASE d # c
      <4>1. CookieSound(cookie[d]) /\ cookie'[d] = cookie[d]
        BY <1>1, <3>2 DEF CookiesSound
      <4> QED BY <4>1 DEF CookieSound
    <3> QED BY <3>1, <3>2
  <2> QED BY <2>1 DEF CookiesSound
<1>3. ListenersWait'
  <2>1. ASSUME NEW i \in Images, NEW d \in transfer[i].listeners
        PROVE  cookie'[d].pc = "pulling" /\ cookie'[d].task = i
    <3>1. cookie[d].pc = "pulling" /\ cookie[d].task = i /\ d \in Cookies
      BY <1>0 DEF ListenersWait, TransferRecord
    <3>2. d # c
      BY <3>1
    <3> QED BY <1>1, <3>1, <3>2
  <2> QED BY <2>1 DEF ListenersWait
<1> QED BY <1>2, <1>3

(* What the cookie holds is the same after the move. *)
Same(c, x) ==
  /\ x.poolId = cookie[c].poolId /\ x.netId = cookie[c].netId
  /\ x.marked = cookie[c].marked /\ (x.marked => x.image = cookie[c].image)

LEMMA SameHolders ==
  ASSUME cookie \in [Cookies -> CookieRecord], NEW c \in Cookies, NEW x \in CookieRecord,
         cookie' = [cookie EXCEPT ![c] = x], Same(c, x)
  PROVE  /\ \A i : Marking(i)' = Marking(i)
         /\ \A n : Joined(n)' = Joined(n)
         /\ \A d \in Cookies : cookie'[d].poolId = cookie[d].poolId
<1>1. cookie'[c] = x /\ \A d \in Cookies \ {c} : cookie'[d] = cookie[d]
  BY Moved
<1>2. \A d \in Cookies : /\ cookie'[d].poolId = cookie[d].poolId /\ cookie'[d].netId = cookie[d].netId
                         /\ cookie'[d].marked = cookie[d].marked
                         /\ cookie'[d].marked => cookie'[d].image = cookie[d].image
  BY <1>1 DEF Same
<1> QED BY <1>2 DEF Marking, Joined

(* Then the counts stay exact, the pool ids handed out, and so on. *)
LEMMA QuietMove ==
  ASSUME DriverInv, NEW c \in Cookies, NEW x \in CookieRecord,
         CookieSound(x), cookie' = [cookie EXCEPT ![c] = x], Same(c, x),
         cookie[c].pc # "pulling", poolClose = "idle",
         UNCHANGED <<cacheVars, poolVars, transfer, netCount, onDisk, leaked, cleaner, tracked, conf>>
  PROVE  DriverInv'
<1>0. /\ TypeOK /\ CookiesSound /\ ListenersWait /\ CleanerSound /\ CacheInv /\ BusyExact
      /\ NoImageForgotten /\ FreeOK /\ ClosedLast /\ HandedOut /\ NetExact
  BY DEF DriverInv
<1>1. cookie \in [Cookies -> CookieRecord]
  BY <1>0 DEF TypeOK
<1>2. cookie' \in [Cookies -> CookieRecord]
  BY <1>1, Moved
<1>3. TypeOK'
  BY <1>0, <1>2 DEF TypeOK, cacheVars, poolVars
<1>4. CookiesSound' /\ ListenersWait'
  BY <1>0, SoundMove
<1>5. /\ \A i : Marking(i)' = Marking(i)
      /\ \A n : Joined(n)' = Joined(n)
      /\ \A d \in Cookies : cookie'[d].poolId = cookie[d].poolId
  BY <1>1, SameHolders
<1>6. BusyExact' /\ NetExact'
  BY <1>0, <1>5 DEF BusyExact, NetExact, cacheVars
<1>7. HandedOut' /\ FreeOK'
  BY <1>0, <1>5 DEF HandedOut, FreeOK, poolVars
<1>8. ClosedLast'
  BY <1>0 DEF ClosedLast, poolVars
<1>9. CleanerSound' /\ CacheInv'
  BY <1>0 DEF CleanerSound, CacheInv, LruOK, BusyOK, Busy, cacheVars
<1>10. NoImageForgotten'
  BY <1>0 DEF NoImageForgotten, InLRU, cacheVars
<1> QED BY <1>3, <1>4, <1>6, <1>7, <1>8, <1>9, <1>10 DEF DriverInv

-----------------------------------------------------------------------------
(* The steps of a cookie *)

LEMMA CookieFields ==
  ASSUME TypeOK, CookiesSound, NEW c \in Cookies
  PROVE  /\ cookie[c] \in CookieRecord /\ CookieSound(cookie[c])
         /\ cookie \in [Cookies -> CookieRecord]
BY DEF TypeOK, CookiesSound

LEMMA NoneApart == None \notin Images /\ None \notin PoolIds /\ None \notin Networks
BY DriverAssumption

(* Inspection, creation and the end of a container, the removal. *)
LEMMA PlainInv ==
  ASSUME DriverInv, poolClose = "idle", NEW c \in Cookies,
         InspectImage(c) \/ CreateContainer(c) \/ RunEnds(c) \/ RemoveContainer(c)
  PROVE  DriverInv'
<1>0. TypeOK /\ CookiesSound
  BY DEF DriverInv
<1>1. PICK h : h = cookie[c]
  OBVIOUS
<1>2. h \in CookieRecord /\ CookieSound(h) /\ cookie \in [Cookies -> CookieRecord]
  BY <1>0, <1>1, CookieFields
<1>3. UNCHANGED <<cacheVars, poolVars, transfer, netCount, onDisk, leaked, cleaner, tracked, conf>>
  BY DEF InspectImage, CreateContainer, RunEnds, RemoveContainer
<1>4. ASSUME NEW x, x \in CookieRecord, CookieSound(x), cookie' = [cookie EXCEPT ![c] = x],
             Same(c, x), h.pc # "pulling"
      PROVE  DriverInv'
  BY <1>1, <1>3, <1>4, QuietMove
<1>5. ASSUME NEW to \in {"pull", "close"}, Advance(c, to),
             h.pc \in {"validate", "revalidate", "create", "run"}, to = "pull" => h.pc = "validate"
      PROVE  DriverInv'
  <2>1. PICK x : x = [h EXCEPT !.pc = to]
    OBVIOUS
  <2>2. x \in CookieRecord /\ cookie' = [cookie EXCEPT ![c] = x]
    BY <1>1, <1>2, <1>5, <2>1 DEF CookieRecord, Advance
  <2>3. CookieSound(x) /\ Same(c, x)
    BY <1>1, <1>2, <1>5, <2>1 DEF CookieRecord, CookieSound, Same
  <2> QED BY <1>4, <1>5, <2>2, <2>3
<1>6. CASE InspectImage(c)
  <2>1. h.pc \in {"validate", "revalidate"}
    BY <1>1, <1>6 DEF InspectImage
  <2>2. CASE h.task \in onDisk /\ cookie' = [cookie EXCEPT ![c].pc = "inspected", ![c].image = cookie[c].task]
    <3>1. PICK x : x = [h EXCEPT !.pc = "inspected", !.image = h.task]
      OBVIOUS
    <3>2. h.task \in Images /\ h.image = None /\ ~h.marked
      BY <1>2, <2>1 DEF CookieSound, CookieRecord
    <3>3. x \in CookieRecord /\ cookie' = [cookie EXCEPT ![c] = x]
      BY <1>1, <1>2, <2>2, <3>1, <3>2, ZenonT(40) DEF CookieRecord
    <3>4. CookieSound(x) /\ Same(c, x)
      BY <1>1, <1>2, <3>1, <3>2, NoneApart DEF CookieRecord, CookieSound, Same
    <3> QED BY <1>4, <2>1, <3>3, <3>4
  <2>3. CASE Advance(c, IF cookie[c].pc = "validate" THEN "pull" ELSE "close")
    <3>1. CASE h.pc = "validate"
      BY <1>1, <1>5, <2>3, <3>1
    <3>2. CASE h.pc = "revalidate"
      BY <1>1, <1>5, <2>3, <3>2
    <3> QED BY <2>1, <3>1, <3>2
  <2>4. CASE Advance(c, "close")
    BY <1>5, <2>1, <2>4
  <2> QED BY <1>1, <1>6, <2>2, <2>3, <2>4 DEF InspectImage
<1>7. CASE CreateContainer(c)
  <2>1. h.pc = "create"
    BY <1>1, <1>7 DEF CreateContainer
  <2>2. CASE cookie' = [cookie EXCEPT ![c].pc = "run", ![c].container = TRUE]
    <3>1. PICK x : x = [h EXCEPT !.pc = "run", !.container = TRUE]
      OBVIOUS
    <3>2. x \in CookieRecord /\ cookie' = [cookie EXCEPT ![c] = x]
      BY <1>1, <1>2, <2>2, <3>1 DEF CookieRecord
    <3>3. CookieSound(x) /\ Same(c, x)
      BY <1>1, <1>2, <2>1, <3>1 DEF CookieRecord, CookieSound, Same
    <3> QED BY <1>4, <2>1, <3>2, <3>3
  <2>3. CASE Advance(c, "close")
    BY <1>5, <2>1, <2>3
  <2> QED BY <1>7, <2>2, <2>3 DEF CreateContainer
<1>8. CASE RunEnds(c)
  BY <1>1, <1>5, <1>8 DEF RunEnds
<1>9. CASE RemoveContainer(c)
  <2>0. h.pc = "close" /\ cookie' = [cookie EXCEPT ![c].pc = "release", ![c].container = FALSE]
    BY <1>1, <1>9 DEF RemoveContainer
  <2>1. PICK x : x = [h EXCEPT !.pc = "release", !.container = FALSE]
    OBVIOUS
  <2>2. x \in CookieRecord /\ cookie' = [cookie EXCEPT ![c] = x]
    BY <1>1, <1>2, <2>0, <2>1 DEF CookieRecord
  <2>3. CookieSound(x) /\ Same(c, x)
    BY <1>1, <1>2, <2>0, <2>1 DEF CookieRecord, CookieSound, Same
  <2> QED BY <1>4, <2>0, <2>2, <2>3
<1> QED BY <1>6, <1>7, <1>8, <1>9

(* Without credentials, only the cookie moves; else it joins the listeners. *)
LEMMA PullImageInv ==
  ASSUME DriverInv, poolClose = "idle", NEW c \in Cookies, PullImage(c)
  PROVE  DriverInv'
<1>0. /\ TypeOK /\ CookiesSound /\ ListenersWait /\ CleanerSound /\ CacheInv /\ BusyExact
      /\ NoImageForgotten /\ FreeOK /\ ClosedLast /\ HandedOut /\ NetExact
  BY DEF DriverInv
<1>1. PICK h : h = cookie[c]
  OBVIOUS
<1>2. /\ h \in CookieRecord /\ CookieSound(h) /\ cookie \in [Cookies -> CookieRecord]
      /\ transfer \in [Images -> TransferRecord]
  BY <1>0, <1>1, CookieFields DEF TypeOK
<1>15. CASE Advance(c, "close") /\ UNCHANGED transfer
  <2>1. PICK x : x = [h EXCEPT !.pc = "close"]
    OBVIOUS
  <2>2. /\ x \in CookieRecord /\ cookie' = [cookie EXCEPT ![c] = x] /\ h.pc = "pull"
        /\ UNCHANGED <<cacheVars, poolVars, transfer, netCount, onDisk, leaked, cleaner, tracked, conf>>
    BY <1>1, <1>2, <1>15, <2>1 DEF CookieRecord, Advance, PullImage
  <2>3. CookieSound(x) /\ Same(c, x)
    BY <1>1, <1>2, <2>1, <2>2 DEF CookieRecord, CookieSound, Same
  <2> QED BY <1>1, <2>2, <2>3, QuietMove
<1>16. SUFFICES ASSUME Advance(c, "pulling"),
                transfer' = [transfer EXCEPT ![h.task].active = TRUE, ![h.task].listeners = @ \cup {c}]
       PROVE  DriverInv'
  BY <1>1, <1>15 DEF PullImage
<1>3. PICK x : x = [h EXCEPT !.pc = "pulling"]
  OBVIOUS
<1>4. /\ h.pc = "pull" /\ cookie' = [cookie EXCEPT ![c] = x] /\ h.task \in Images
      /\ transfer' = [transfer EXCEPT ![h.task].active = TRUE, ![h.task].listeners = @ \cup {c}]
      /\ UNCHANGED <<cacheVars, poolVars, netCount, onDisk, leaked, cleaner, tracked, conf>>
  BY <1>1, <1>2, <1>3, <1>16 DEF PullImage, Advance, CookieSound
<1>5. x \in CookieRecord /\ CookieSound(x) /\ Same(c, x) /\ x.pc = "pulling" /\ x.task = h.task
  BY <1>1, <1>2, <1>3, <1>4 DEF CookieRecord, CookieSound, Same
<1>6. /\ cookie' \in [Cookies -> CookieRecord] /\ cookie'[c] = x
      /\ \A d \in Cookies \ {c} : cookie'[d] = cookie[d]
  BY <1>2, <1>4, <1>5, Moved
<1>7. /\ transfer' \in [Images -> TransferRecord]
      /\ \A i \in Images : transfer'[i].listeners \subseteq transfer[i].listeners \cup {c}
      /\ \A i \in Images \ {h.task} : transfer'[i].listeners = transfer[i].listeners
  BY <1>2, <1>4 DEF TransferRecord
<1>8. TypeOK'
  BY <1>0, <1>4, <1>6, <1>7 DEF TypeOK, cacheVars, poolVars
<1>9. CookiesSound'
  <2>1. ASSUME NEW d \in Cookies PROVE CookieSound(cookie[d])'
    <3>1. CASE d = c
      BY <1>5, <1>6, <3>1 DEF CookieSound
    <3>2. CASE d # c
      <4>1. CookieSound(cookie[d]) /\ cookie'[d] = cookie[d]
        BY <1>0, <1>6, <3>2 DEF CookiesSound
      <4> QED BY <4>1 DEF CookieSound
    <3> QED BY <3>1, <3>2
  <2> QED BY <2>1 DEF CookiesSound
<1>10. ListenersWait'
  <2>1. ASSUME NEW i \in Images, NEW d \in transfer'[i].listeners
        PROVE  cookie'[d].pc = "pulling" /\ cookie'[d].task = i
    <3>1. CASE d = c
      <4>1. i = h.task
        BY <1>0, <1>1, <1>4, <1>7, <3>1 DEF ListenersWait
      <4> QED BY <1>5, <1>6, <3>1, <4>1
    <3>2. CASE d # c
      <4>1. d \in transfer[i].listeners /\ d \in Cookies
        BY <1>2, <1>7, <3>2 DEF TransferRecord
      <4> QED BY <1>0, <1>6, <3>2, <4>1 DEF ListenersWait
    <3> QED BY <3>1, <3>2
  <2> QED BY <2>1 DEF ListenersWait
<1>11. /\ \A i : Marking(i)' = Marking(i)
       /\ \A n : Joined(n)' = Joined(n)
       /\ \A d \in Cookies : cookie'[d].poolId = cookie[d].poolId
  BY <1>2, <1>4, <1>5, SameHolders
<1>12. BusyExact' /\ NetExact'
  BY <1>0, <1>4, <1>11 DEF BusyExact, NetExact, cacheVars
<1>13. HandedOut' /\ FreeOK' /\ ClosedLast'
  BY <1>0, <1>4, <1>11 DEF HandedOut, FreeOK, ClosedLast, poolVars
<1>14. CleanerSound' /\ CacheInv' /\ NoImageForgotten'
  BY <1>0, <1>4 DEF CleanerSound, CacheInv, LruOK, BusyOK, Busy, NoImageForgotten, InLRU, cacheVars
<1> QED BY <1>8, <1>9, <1>10, <1>12, <1>13, <1>14 DEF DriverInv

LEMMA CreateCookieInv ==
  ASSUME DriverInv, poolClose = "idle", NEW c \in Cookies, NEW i \in Images, CreateCookie(c, i)
  PROVE  DriverInv'
<1>0. /\ TypeOK /\ CookiesSound /\ ListenersWait /\ CleanerSound /\ CacheInv /\ BusyExact
      /\ NoImageForgotten /\ FreeOK /\ ClosedLast /\ HandedOut /\ NetExact
  BY DEF DriverInv
<1>1. PICK new : new = [NewCookie EXCEPT !.pc = "validate", !.task = i]
  OBVIOUS
<1>2. /\ cookie[c].pc = "new" /\ cookie[c] = NewCookie /\ cookie \in [Cookies -> CookieRecord]
      /\ UNCHANGED <<cacheVars, transfer, onDisk, leaked, cleaner, tracked, conf>>
  BY <1>0, CookieFields DEF CreateCookie, CookieSound
<1>3. /\ cookie[c].poolId = None /\ cookie[c].netId = None
      /\ ~cookie[c].marked
  BY <1>2 DEF NewCookie
<1>4. CleanerSound' /\ CacheInv' /\ NoImageForgotten'
  BY <1>0, <1>2 DEF CleanerSound, CacheInv, LruOK, BusyOK, Busy, NoImageForgotten, InLRU, cacheVars
<1>5. ASSUME NEW x, x \in CookieRecord, x.marked = FALSE, cookie' = [cookie EXCEPT ![c] = x]
      PROVE  BusyExact'
  <2>1. \A k : Marking(k)' = Marking(k) \ {c} /\ c \notin Marking(k)
    BY <1>2, <1>3, <1>5, HoldersMove DEF Marking
  <2>2. \A k : Marking(k)' = Marking(k)
    BY <2>1
  <2> QED BY <1>0, <1>2, <2>2 DEF BusyExact, cacheVars
<1>8. CASE cookie' = [cookie EXCEPT ![c] = new] /\ UNCHANGED <<netCount, poolVars>>
  <2>1. /\ new \in CookieRecord /\ CookieSound(new) /\ Same(c, new)
    BY <1>1, <1>2 DEF NewCookie, CookieRecord, CookieSound, Same
  <2> QED BY <1>2, <1>8, <2>1, QuietMove
<1>6. CASE /\ AllocPoolId /\ UNCHANGED netCount
           /\ cookie' = [cookie EXCEPT ![c] = [new EXCEPT !.poolId = Last(free)]]
  <2>1. PICK x : x = [new EXCEPT !.poolId = Last(free)]
    OBVIOUS
  <2>2. AllocPoolId /\ cookie' = [cookie EXCEPT ![c] = x] /\ netCount' = netCount
    BY <1>6, <2>1
  <2>3. FreeOK' /\ Last(free) \in PoolIds /\ Last(free) \notin inuse /\ inuse' = inuse \cup {Last(free)}
    BY <1>0, <2>2, AllocKeeps
  <2>4. /\ x \in CookieRecord /\ CookieSound(x) /\ x.netId = None /\ x.marked = FALSE
        /\ x.poolId = Last(free) /\ x.pc = "validate"
    BY <1>1, <2>1, <2>3 DEF NewCookie, CookieRecord, CookieSound
  <2>5. /\ cookie' \in [Cookies -> CookieRecord] /\ cookie'[c] = x
        /\ \A d \in Cookies \ {c} : cookie'[d] = cookie[d]
    BY <1>2, <2>2, <2>4, Moved
  <2>6. CookiesSound' /\ ListenersWait'
    BY <1>0, <1>2, <2>2, <2>4, SoundMove
  <2>7. TypeOK'
    BY <1>0, <1>2, <2>2, <2>3, <2>5 DEF TypeOK, AllocPoolId, cacheVars, FreeOK
  <2>8. NetExact'
    <3>1. \A n \in Networks : Joined(n)' = Joined(n) \ {c} /\ c \notin Joined(n)
      BY <1>2, <1>3, <2>2, <2>4, HoldersMove, NoneApart DEF Joined
    <3>2. \A n \in Networks : Joined(n)' = Joined(n)
      BY <3>1
    <3> QED BY <1>0, <2>2, <3>2 DEF NetExact
  <2>9. HandedOut'
    BY <1>0, <2>2, <2>3, <2>4, <2>5 DEF HandedOut, AllocPoolId
  <2>10. ClosedLast'
    BY <1>0, <2>2 DEF ClosedLast, AllocPoolId
  <2> QED BY <1>4, <1>5, <2>2, <2>3, <2>4, <2>6, <2>7, <2>8, <2>9, <2>10 DEF DriverInv
<1>7. CASE /\ UNCHANGED poolVars
           /\ \E n \in LeastUsed : /\ netCount' = [netCount EXCEPT ![n] = @ + 1]
                                  /\ cookie' = [cookie EXCEPT ![c] = [new EXCEPT !.netId = n]]
  <2>1. PICK n \in LeastUsed : /\ netCount' = [netCount EXCEPT ![n] = @ + 1]
                               /\ cookie' = [cookie EXCEPT ![c] = [new EXCEPT !.netId = n]]
    BY <1>7
  <2>2. n \in Networks /\ UNCHANGED poolVars
    BY <1>7 DEF LeastUsed
  <2>3. PICK x : x = [new EXCEPT !.netId = n]
    OBVIOUS
  <2>4. /\ x \in CookieRecord /\ CookieSound(x) /\ x.netId = n /\ x.marked = FALSE
        /\ x.poolId = None /\ cookie' = [cookie EXCEPT ![c] = x]
    BY <1>1, <2>1, <2>2, <2>3 DEF NewCookie, CookieRecord, CookieSound
  <2>5. /\ cookie' \in [Cookies -> CookieRecord] /\ cookie'[c] = x
        /\ \A d \in Cookies \ {c} : cookie'[d] = cookie[d]
    BY <1>2, <2>4, Moved
  <2>6. CookiesSound' /\ ListenersWait'
    BY <1>0, <1>2, <2>4, SoundMove
  <2>7. TypeOK'
    BY <1>0, <1>2, <2>1, <2>2, <2>5 DEF TypeOK, poolVars, cacheVars
  <2>8. NetExact'
    <3>0. c \notin Joined(n)
      BY <1>3, <2>2, NoneApart DEF Joined
    <3>1. Joined(n)' = Joined(n) \cup {c}
      BY <1>2, <2>4, HoldersMove
    <3>2. Cardinality(Joined(n)') = Cardinality(Joined(n)) + 1
      BY <3>0, <3>1, HoldersFinite, FS_AddElement
    <3>3. \A m \in Networks \ {n} : Joined(m)' = Joined(m) \ {c} /\ c \notin Joined(m)
      BY <1>2, <1>3, <2>4, HoldersMove, NoneApart DEF Joined
    <3>4. \A m \in Networks \ {n} : Joined(m)' = Joined(m)
      BY <3>3
    <3>5. netCount \in [Networks -> Int] /\ netCount[n] = Cardinality(Joined(n))
      BY <1>0, <2>2 DEF TypeOK, NetExact
    <3>6. ASSUME NEW m \in Networks PROVE netCount'[m] = Cardinality(Joined(m)')
      <4>1. CASE m = n
        BY <2>1, <3>2, <3>5, <4>1
      <4>2. CASE m # n
        BY <1>0, <2>1, <3>4, <3>5, <4>2 DEF NetExact
      <4> QED BY <4>1, <4>2
    <3> QED BY <3>6 DEF NetExact
  <2>9. HandedOut' /\ FreeOK'
    BY <1>0, <2>2, <2>4, <2>5 DEF HandedOut, FreeOK, poolVars
  <2>10. ClosedLast'
    BY <1>0, <2>2 DEF ClosedLast, poolVars
  <2> QED BY <1>4, <1>5, <2>4, <2>6, <2>7, <2>8, <2>9, <2>10 DEF DriverInv
<1> QED BY <1>1, <1>6, <1>7, <1>8 DEF CreateCookie

(* The image in the cache: a reference, or a place on the list. *)
LEMMA MarkInspectedInv ==
  ASSUME DriverInv, poolClose = "idle", NEW c \in Cookies, c \notin sending, MarkInspected(c)
  PROVE  DriverInv'
<1>0. /\ TypeOK /\ CookiesSound /\ ListenersWait /\ CleanerSound /\ CacheInv /\ BusyExact
      /\ NoImageForgotten /\ FreeOK /\ ClosedLast /\ HandedOut /\ NetExact
  BY DEF DriverInv
<1>1. PICK h : h = cookie[c]
  OBVIOUS
<1>2. h \in CookieRecord /\ CookieSound(h) /\ cookie \in [Cookies -> CookieRecord] /\ h.pc = "inspected"
  BY <1>0, <1>1, CookieFields DEF MarkInspected
<1>3. PICK i \in Images : i = h.image
  BY <1>2 DEF CookieSound, CookieRecord
<1>4. h.marked = FALSE /\ h.task \in Images
  BY <1>2 DEF CookieSound, CookieRecord
<1>5. /\ UNCHANGED <<poolVars, transfer, netCount, onDisk, leaked, cleaner, conf>>
      /\ tracked' = tracked \cup {k \in onDisk : k = i /\ "cache" \in conf}
  BY <1>1, <1>3 DEF MarkInspected
<1>6. FreeOK' /\ CleanerSound' /\ ClosedLast'
  BY <1>0, <1>1, <1>2, <1>5 DEF FreeOK, CleanerSound, ClosedLast, poolVars
<1>7. ASSUME NEW x, x \in CookieRecord, CookieSound(x), x.poolId = h.poolId, x.netId = h.netId,
             cookie' = [cookie EXCEPT ![c] = x]
      PROVE  CookiesSound' /\ ListenersWait' /\ NetExact' /\ HandedOut' /\ cookie' \in [Cookies -> CookieRecord]
  <2>1. CookiesSound' /\ ListenersWait'
    BY <1>0, <1>1, <1>2, <1>5, <1>7, SoundMove
  <2>2. /\ cookie' \in [Cookies -> CookieRecord] /\ cookie'[c] = x
        /\ \A d \in Cookies \ {c} : cookie'[d] = cookie[d]
    BY <1>2, <1>7, Moved
  <2>3. \A d \in Cookies : cookie'[d].poolId = cookie[d].poolId /\ cookie'[d].netId = cookie[d].netId
    BY <1>1, <1>7, <2>2
  <2>4. \A n : Joined(n)' = Joined(n)
    BY <2>3 DEF Joined
  <2> QED BY <1>0, <1>5, <2>1, <2>2, <2>3, <2>4 DEF NetExact, HandedOut, poolVars
<1>8. CASE i \in HasVolume
  <2>1. PICK x : x = [h EXCEPT !.pc = "close"]
    OBVIOUS
  <2>2. /\ cookie' = [cookie EXCEPT ![c] = x]
        /\ IF "cache" \in conf THEN Update(c, i) ELSE UNCHANGED cacheVars
    BY <1>1, <1>3, <1>8, <2>1 DEF MarkInspected, Advance
  <2>3. /\ x \in CookieRecord /\ CookieSound(x) /\ x.poolId = h.poolId /\ x.netId = h.netId
        /\ Same(c, x)
    BY <1>1, <1>2, <1>3, <1>4, <1>8, <2>1, NoneApart DEF CookieRecord, CookieSound, Same
  <2>4. \A k : Marking(k)' = Marking(k)
    BY <1>2, <2>2, <2>3, SameHolders
  <2>5. CASE "cache" \in conf
    <3>1. /\ CacheInv' /\ busyRef' = busyRef /\ ToSet(lru) \subseteq ToSet(lru')
          /\ i \in Exempt \/ busyRef[i] > 0 \/ i \in ToSet(lru')
      BY <1>0, <2>2, <2>5, UpdateKeeps
    <3>2. BusyExact'
      BY <1>0, <1>5, <2>4, <3>1 DEF BusyExact
    <3>3. NoImageForgotten'
      BY <1>0, <1>5, <3>1, InLRUDef DEF NoImageForgotten, InLRU, ToSet
    <3>4. sending' \subseteq sending \cup {c} /\ lruSize' \in Int /\ notifier' = notifier /\ busySize' \in Int
      BY <1>0, <2>2, <2>5, ImageCacheAssumption DEF TypeOK, Update, notifyIfFull, addLRULocked, cacheVars
    <3>5. TypeOK'
      BY <1>0, <1>5, <1>7, <2>2, <2>3, <3>1, <3>4 DEF TypeOK, CacheInv, LruOK, BusyOK, poolVars
    <3> QED BY <1>6, <1>7, <2>2, <2>3, <3>1, <3>2, <3>3, <3>5 DEF DriverInv
  <2>6. CASE "cache" \notin conf
    <3>1. UNCHANGED cacheVars /\ tracked' = tracked
      BY <1>5, <2>2, <2>6
    <3>2. CacheInv' /\ NoImageForgotten' /\ BusyExact'
      BY <1>0, <1>5, <2>4, <2>6, <3>1
         DEF CacheInv, LruOK, BusyOK, Busy, NoImageForgotten, InLRU, BusyExact, cacheVars
    <3>3. TypeOK'
      BY <1>0, <1>5, <1>7, <2>2, <2>3, <3>1 DEF TypeOK, cacheVars, poolVars
    <3> QED BY <1>6, <1>7, <2>2, <2>3, <3>2, <3>3 DEF DriverInv
  <2> QED BY <2>5, <2>6
<1>9. CASE i \notin HasVolume
  <2>1. PICK x : x = [h EXCEPT !.pc = "create", !.marked = TRUE]
    OBVIOUS
  <2>2. /\ cookie' = [cookie EXCEPT ![c] = x]
        /\ IF "cache" \in conf THEN MarkBusy(c, i) ELSE UNCHANGED cacheVars
    BY <1>1, <1>2, <1>3, <1>9, <2>1 DEF MarkInspected
  <2>3. /\ x \in CookieRecord /\ CookieSound(x) /\ x.poolId = h.poolId /\ x.netId = h.netId
        /\ x.marked = TRUE /\ x.image = i
    BY <1>1, <1>2, <1>3, <1>4, <1>9, <2>1, NoneApart DEF CookieRecord, CookieSound
  <2>4. /\ Marking(i)' = Marking(i) \cup {c} /\ \A k : k # i => Marking(k)' = Marking(k) \ {c}
        /\ \A k : c \notin Marking(k)
    BY <1>1, <1>2, <1>4, <2>2, <2>3, HoldersMove DEF Marking
  <2>5. Cardinality(Marking(i)') = Cardinality(Marking(i)) + 1 /\ \A k : k # i => Marking(k)' = Marking(k)
    <3>1. IsFiniteSet(Marking(i)) /\ c \notin Marking(i)
      BY <2>4, HoldersFinite
    <3>2. Cardinality(Marking(i) \cup {c}) = Cardinality(Marking(i)) + 1
      BY <3>1, FS_AddElement
    <3>3. \A k : Marking(k) \ {c} = Marking(k)
      BY <2>4
    <3> QED BY <2>4, <3>2, <3>3
  <2>6. CASE "cache" \in conf
    <3>1. /\ CacheInv'
          /\ i \in Exempt => busyRef' = busyRef /\ lru' = lru
          /\ i \notin Exempt => /\ busyRef' = [busyRef EXCEPT ![i] = busyRef[i] + 1]
                                /\ ToSet(lru') = ToSet(lru) \ {i}
      BY <1>0, <2>2, <2>6, MarkBusyKeeps
    <3>2. BusyExact'
      <4>1. busyRef \in [Images -> Nat]
        BY <1>0 DEF TypeOK
      <4>2. ASSUME NEW k \in Images \ Exempt PROVE busyRef'[k] = Cardinality(Marking(k)')
        <5>1. busyRef[k] = Cardinality(Marking(k))
          BY <1>0, <2>6 DEF BusyExact
        <5>2. CASE k = i
          BY <2>5, <3>1, <4>1, <5>1, <5>2
        <5>3. CASE k # i
          BY <2>5, <3>1, <4>1, <5>1, <5>3
        <5> QED BY <5>2, <5>3
      <4> QED BY <4>2 DEF BusyExact
    <3>3. NoImageForgotten'
      <4>0. busyRef \in [Images -> Nat] /\ busyRef[i] \in Nat /\ onDisk \subseteq Images /\ tracked \subseteq onDisk
        BY <1>0 DEF TypeOK
      <4>1. ASSUME NEW k \in tracked' \ Exempt PROVE k \in ToSet(lru') \/ busyRef'[k] > 0 \/ cleaner'.img = k
        <5>1. CASE k = i
          BY <3>1, <4>0, <5>1
        <5>2. CASE k # i
          <6>1. k \in tracked /\ k \in Images
            BY <1>5, <4>0, <5>2
          <6>2. k \in ToSet(lru) \/ busyRef[k] > 0 \/ cleaner.img = k
            BY <1>0, <6>1, InLRUDef DEF NoImageForgotten
          <6> QED BY <1>5, <3>1, <4>0, <5>2, <6>1, <6>2
        <5> QED BY <5>1, <5>2
      <4> QED BY <4>1 DEF NoImageForgotten, InLRU, ToSet
    <3>4. sending' \subseteq sending \cup {c} /\ lruSize' \in Int /\ notifier' = notifier /\ busySize' \in Int
      BY <1>0, <2>2, <2>6, ImageCacheAssumption
         DEF TypeOK, MarkBusy, notifyIfFull, rmLRULocked, cacheVars
    <3>5. TypeOK'
      BY <1>0, <1>5, <1>7, <2>2, <2>3, <3>1, <3>4 DEF TypeOK, CacheInv, LruOK, BusyOK, poolVars
    <3> QED BY <1>6, <1>7, <2>2, <2>3, <3>1, <3>2, <3>3, <3>5 DEF DriverInv
  <2>7. CASE "cache" \notin conf
    <3>1. UNCHANGED cacheVars /\ tracked' = tracked
      BY <1>5, <2>2, <2>7
    <3>2. CacheInv' /\ NoImageForgotten' /\ BusyExact'
      BY <1>0, <1>5, <2>7, <3>1
         DEF CacheInv, LruOK, BusyOK, Busy, NoImageForgotten, InLRU, BusyExact, cacheVars
    <3>3. TypeOK'
      BY <1>0, <1>5, <1>7, <2>2, <2>3, <3>1 DEF TypeOK, cacheVars, poolVars
    <3> QED BY <1>6, <1>7, <2>2, <2>3, <3>2, <3>3 DEF DriverInv
  <2> QED BY <2>6, <2>7
<1> QED BY <1>8, <1>9

(* Close gives everything back. *)
LEMMA ReleaseInv ==
  ASSUME DriverInv, poolClose = "idle", NEW c \in Cookies, c \notin sending, Release(c)
  PROVE  DriverInv'
<1>0. /\ TypeOK /\ CookiesSound /\ ListenersWait /\ CleanerSound /\ CacheInv /\ BusyExact
      /\ NoImageForgotten /\ FreeOK /\ ClosedLast /\ HandedOut /\ NetExact
  BY DEF DriverInv
<1>1. PICK h : h = cookie[c]
  OBVIOUS
<1>2. h \in CookieRecord /\ CookieSound(h) /\ cookie \in [Cookies -> CookieRecord] /\ h.pc = "release"
  BY <1>0, <1>1, CookieFields DEF Release
<1>3. /\ IF h.poolId # None THEN FreePoolId(h.poolId, "recycle" \in conf) ELSE UNCHANGED poolVars
      /\ netCount' = FreeNetwork(h.netId)
      /\ IF h.image # None /\ "cache" \in conf THEN MarkFree(c, h.image) ELSE UNCHANGED cacheVars
      /\ cookie' = [cookie EXCEPT ![c] = NewCookie]
      /\ tracked' = tracked \cup {k \in onDisk : k = h.image /\ busyRef[k] > 0}
      /\ UNCHANGED <<transfer, onDisk, leaked, cleaner, conf>>
  BY <1>1 DEF Release
<1>4. /\ NewCookie \in CookieRecord /\ CookieSound(NewCookie) /\ NewCookie.poolId = None
      /\ NewCookie.netId = None /\ NewCookie.marked = FALSE
  BY DEF NewCookie, CookieRecord, CookieSound
<1>5. /\ cookie' \in [Cookies -> CookieRecord] /\ cookie'[c] = NewCookie
      /\ \A d \in Cookies \ {c} : cookie'[d] = cookie[d]
  BY <1>2, <1>3, <1>4, Moved
<1>6. CookiesSound' /\ ListenersWait'
  BY <1>0, <1>1, <1>2, <1>3, <1>4, SoundMove
<1>7. CleanerSound'
  BY <1>0, <1>3 DEF CleanerSound
<1>8. /\ FreeOK' /\ inuse' = inuse \ {h.poolId} /\ exitedInUse' = exitedInUse
      /\ UNCHANGED <<poolCtx, gate, fatal, poolClose>> /\ cancelled' \in [PoolIds -> BOOLEAN]
  <2>1. CASE h.poolId # None
    <3>1. h.poolId \in PoolIds
      BY <1>2, <2>1 DEF CookieRecord
    <3>2. FreeOK' /\ inuse' = inuse \ {h.poolId}
      BY <1>0, <1>3, <2>1, <3>1, FreePoolIdKeeps
    <3> QED BY <1>0, <1>3, <2>1, <3>1, <3>2 DEF FreePoolId, TypeOK
  <2>2. CASE h.poolId = None
    <3>1. UNCHANGED poolVars
      BY <1>3, <2>2
    <3>2. h.poolId \notin inuse
      BY <1>0, <2>2, NoneApart DEF FreeOK
    <3> QED BY <1>0, <3>1, <3>2 DEF poolVars, FreeOK, TypeOK
  <2> QED BY <2>1, <2>2
<1>9. ClosedLast'
  BY <1>0, <1>8 DEF ClosedLast
<1>10. HandedOut'
  <2>1. SUFFICES ASSUME ~exitedInUse, NEW d \in Cookies, cookie'[d].poolId # None
                 PROVE  /\ cookie'[d].poolId \in inuse'
                        /\ \A e \in Cookies : cookie'[e].poolId = cookie'[d].poolId => e = d
    BY <1>8 DEF HandedOut
  <2>2. d # c /\ cookie'[d] = cookie[d]
    BY <1>4, <1>5, <2>1
  <2>3. cookie[d].poolId \in inuse /\ \A e \in Cookies : cookie[e].poolId = cookie[d].poolId => e = d
    BY <1>0, <2>1, <2>2 DEF HandedOut
  <2>4. cookie[d].poolId # h.poolId
    BY <1>1, <2>2, <2>3
  <2> QED BY <1>4, <1>5, <1>8, <2>1, <2>2, <2>3, <2>4
<1>11. NetExact' /\ netCount' \in [Networks -> Int]
  <2>0. netCount \in [Networks -> Int] /\ \A n \in Networks : netCount[n] = Cardinality(Joined(n))
    BY <1>0 DEF TypeOK, NetExact
  <2>1. netCount' = [n \in Networks |-> netCount[n] - IF n = h.netId THEN 1 ELSE 0]
    BY <1>3 DEF FreeNetwork
  <2>2. \A n \in Networks : Joined(n)' = Joined(n) \ {c} /\ (c \in Joined(n) <=> h.netId = n)
    BY <1>1, <1>2, <1>3, <1>4, HoldersMove, NoneApart DEF Joined
  <2>3. ASSUME NEW n \in Networks PROVE netCount'[n] = Cardinality(Joined(n)') /\ netCount'[n] \in Int
    <3>1. IsFiniteSet(Joined(n)) /\ Cardinality(Joined(n)) \in Nat
      BY HoldersFinite
    <3>2. Cardinality(Joined(n) \ {c}) = IF h.netId = n THEN Cardinality(Joined(n)) - 1 ELSE Cardinality(Joined(n))
      BY <2>2, <3>1, FS_RemoveElement
    <3>3. netCount[n] = Cardinality(Joined(n)) /\ netCount'[n] = netCount[n] - IF n = h.netId THEN 1 ELSE 0
      BY <2>0, <2>1
    <3>4. Cardinality(Joined(n)') = Cardinality(Joined(n) \ {c})
      BY <2>2
    <3>5. CASE n = h.netId
      BY <3>1, <3>2, <3>3, <3>4, <3>5
    <3>6. CASE n # h.netId
      BY <3>1, <3>2, <3>3, <3>4, <3>6
    <3> QED BY <3>5, <3>6
  <2>4. netCount' \in [Networks -> Int]
    BY <2>1, <2>3
  <2> QED BY <2>3, <2>4 DEF NetExact
<1>12. ASSUME NEW i
       PROVE  /\ Marking(i)' = Marking(i) \ {c} /\ (c \in Marking(i) <=> h.marked /\ h.image = i)
              /\ IsFiniteSet(Marking(i)) /\ Cardinality(Marking(i)) \in Nat
              /\ Cardinality(Marking(i)') = IF h.marked /\ h.image = i THEN Cardinality(Marking(i)) - 1
                                            ELSE Cardinality(Marking(i))
  <2>1. Marking(i)' = Marking(i) \ {c} /\ (c \in Marking(i) <=> h.marked /\ h.image = i)
    BY <1>1, <1>2, <1>3, <1>4, HoldersMove DEF Marking
  <2>2. IsFiniteSet(Marking(i)) /\ Cardinality(Marking(i)) \in Nat
    BY HoldersFinite
  <2>3. Cardinality(Marking(i) \ {c}) = IF c \in Marking(i) THEN Cardinality(Marking(i)) - 1
                                         ELSE Cardinality(Marking(i))
    BY <2>2, FS_RemoveElement
  <2> QED BY <2>1, <2>2, <2>3
<1>13. onDisk \subseteq Images /\ tracked \subseteq onDisk /\ busyRef \in [Images -> Nat]
  BY <1>0 DEF TypeOK
<1>14. CASE h.image # None /\ "cache" \in conf
  <2>1. PICK i \in Images : i = h.image
    BY <1>2, <1>14 DEF CookieRecord
  <2>2. MarkFree(c, i)
    BY <1>3, <1>14, <2>1
  <2>3. /\ CacheInv' /\ ToSet(lru) \subseteq ToSet(lru')
        /\ i \in Exempt \/ busyRef[i] = 0 => busyRef' = busyRef
        /\ i \notin Exempt /\ busyRef[i] > 0 =>
             /\ busyRef' = [busyRef EXCEPT ![i] = busyRef[i] - 1]
             /\ busyRef'[i] > 0 \/ i \in ToSet(lru')
    BY <1>0, <2>2, MarkFreeKeeps
  <2>4. \A k \in Images \ Exempt : busyRef[k] = Cardinality(Marking(k))
    BY <1>0, <1>14 DEF BusyExact
  <2>5. ~h.marked => Cardinality(Marking(i)) = 0
    <3>1. SUFFICES ASSUME ~h.marked PROVE Marking(i) = {}
      BY FS_EmptySet
    <3>2. i \in HasVolume
      BY <1>2, <1>14, <2>1, <3>1 DEF CookieSound
    <3>3. ASSUME NEW d \in Cookies, cookie[d].marked PROVE cookie[d].image # i
      <4>1. CookieSound(cookie[d])
        BY <1>0 DEF CookiesSound
      <4> QED BY <3>2, <3>3, <4>1 DEF CookieSound
    <3> QED BY <3>3 DEF Marking
  <2>6. h.marked => Cardinality(Marking(i)) > 0
    <3>1. SUFFICES ASSUME h.marked PROVE Cardinality(Marking(i)) # 0
      BY <1>12
    <3>2. c \in Marking(i) /\ IsFiniteSet(Marking(i))
      BY <1>12, <2>1, <3>1
    <3> QED BY <3>2, FS_EmptySet
  <2>7. BusyExact'
    <3>1. ASSUME NEW k \in Images \ Exempt PROVE busyRef'[k] = Cardinality(Marking(k)')
      <4>1. CASE k # i
        <5>1. busyRef'[k] = busyRef[k]
          BY <1>13, <2>3, <4>1
        <5> QED BY <1>12, <2>1, <2>4, <4>1, <5>1
      <4>2. CASE k = i /\ h.marked
        <5>1. busyRef[i] > 0 /\ i \notin Exempt
          BY <2>4, <2>6, <4>2
        <5>2. busyRef'[i] = busyRef[i] - 1
          BY <1>13, <2>3, <5>1
        <5> QED BY <1>12, <2>1, <2>4, <4>2, <5>2
      <4>3. CASE k = i /\ ~h.marked
        <5>1. busyRef[i] = 0
          BY <2>4, <2>5, <4>3
        <5> QED BY <1>12, <2>3, <2>4, <4>3, <5>1
      <4> QED BY <4>1, <4>2, <4>3
    <3> QED BY <3>1 DEF BusyExact
  <2>8. NoImageForgotten'
    <3>1. ASSUME NEW k \in tracked' \ Exempt PROVE k \in ToSet(lru') \/ busyRef'[k] > 0 \/ cleaner'.img = k
      <4>0. k \in Images
        BY <1>3, <1>13
      <4>1. CASE k = i /\ busyRef[i] > 0
        BY <2>3, <4>1
      <4>2. CASE ~(k = i /\ busyRef[i] > 0)
        <5>1. k \in tracked
          BY <1>3, <2>1, <4>2
        <5>2. k \in ToSet(lru) \/ busyRef[k] > 0 \/ cleaner.img = k
          BY <1>0, <5>1, InLRUDef DEF NoImageForgotten
        <5>3. busyRef'[k] = busyRef[k]
          BY <1>13, <2>3, <4>0, <4>2
        <5> QED BY <1>3, <2>3, <5>2, <5>3
      <4> QED BY <4>1, <4>2
    <3> QED BY <3>1 DEF NoImageForgotten, InLRU, ToSet
  <2>9. sending' \subseteq sending \cup {c} /\ lruSize' \in Int /\ notifier' = notifier /\ busySize' \in Int
    BY <1>0, <2>2, ImageCacheAssumption DEF TypeOK, MarkFree, notifyIfFull, addLRULocked, cacheVars
  <2>10. TypeOK'
    BY <1>0, <1>3, <1>5, <1>8, <1>11, <1>13, <2>3, <2>9 DEF TypeOK, CacheInv, LruOK, BusyOK, FreeOK
  <2> QED BY <1>6, <1>7, <1>8, <1>9, <1>10, <1>11, <2>3, <2>7, <2>8, <2>10 DEF DriverInv
<1>15. CASE ~(h.image # None /\ "cache" \in conf)
  <2>1. UNCHANGED cacheVars
    BY <1>3, <1>15
  <2>2. CacheInv'
    BY <1>0, <2>1 DEF CacheInv, LruOK, BusyOK, Busy, cacheVars
  <2>3. BusyExact'
    <3>1. SUFFICES ASSUME "cache" \in conf, NEW k \in Images \ Exempt PROVE busyRef'[k] = Cardinality(Marking(k)')
      BY <1>3 DEF BusyExact
    <3>2. h.image # k
      BY <1>15, <3>1, NoneApart
    <3> QED BY <1>0, <1>12, <2>1, <3>1, <3>2 DEF BusyExact, cacheVars
  <2>4. NoImageForgotten'
    BY <1>0, <1>3, <2>1 DEF NoImageForgotten, InLRU, cacheVars
  <2>5. TypeOK'
    BY <1>0, <1>3, <1>5, <1>8, <1>11, <1>13, <2>1 DEF TypeOK, cacheVars, FreeOK
  <2> QED BY <1>6, <1>7, <1>8, <1>9, <1>10, <1>11, <2>2, <2>3, <2>4, <2>5 DEF DriverInv
<1> QED BY <1>14, <1>15

(* The end of a pull wakes its listeners and changes nothing they hold. *)
LEMMA TransferEndsInv ==
  ASSUME DriverInv, NEW i \in Images, startTransferEnds(i)
  PROVE  DriverInv'
<1>0. /\ TypeOK /\ CookiesSound /\ ListenersWait /\ CleanerSound /\ CacheInv /\ BusyExact
      /\ NoImageForgotten /\ FreeOK /\ ClosedLast /\ HandedOut /\ NetExact
  BY DEF DriverInv
<1>1. PICK to \in {"revalidate", "close"} :
        /\ cookie' = [c \in Cookies |-> IF c \in transfer[i].listeners THEN [cookie[c] EXCEPT !.pc = to]
                                        ELSE cookie[c]]
        /\ onDisk' = IF to = "revalidate" THEN onDisk \cup {i} ELSE onDisk
  BY DEF startTransferEnds, heard
<1>2. /\ transfer' = [transfer EXCEPT ![i] = NoTransfer]
      /\ UNCHANGED <<cacheVars, poolVars, netCount, leaked, cleaner, tracked, conf>>
  BY DEF startTransferEnds
<1>3. transfer \in [Images -> TransferRecord] /\ transfer[i].listeners \subseteq Cookies
  BY <1>0 DEF TypeOK, TransferRecord
<1>4. ASSUME NEW c \in Cookies
      PROVE  /\ cookie'[c] \in CookieRecord /\ CookieSound(cookie[c])'
             /\ cookie'[c].poolId = cookie[c].poolId /\ cookie'[c].netId = cookie[c].netId
             /\ cookie'[c].marked = cookie[c].marked /\ cookie'[c].image = cookie[c].image
             /\ c \notin transfer[i].listeners => cookie'[c] = cookie[c]
  <2>1. cookie[c] \in CookieRecord /\ CookieSound(cookie[c])
    BY <1>0, CookieFields
  <2>2. CASE c \in transfer[i].listeners
    <3>1. PICK h : h = cookie[c]
      OBVIOUS
    <3>2. PICK x : x = cookie'[c]
      OBVIOUS
    <3>3. h \in CookieRecord /\ CookieSound(h) /\ h.pc = "pulling" /\ x = [h EXCEPT !.pc = to]
      BY <1>0, <1>1, <2>1, <2>2, <3>1, <3>2 DEF ListenersWait
    <3>4. /\ x \in CookieRecord /\ CookieSound(x) /\ x.poolId = h.poolId /\ x.netId = h.netId
          /\ x.marked = h.marked /\ x.image = h.image
      BY <3>3 DEF CookieRecord, CookieSound
    <3> QED BY <2>2, <3>1, <3>2, <3>4 DEF CookieSound
  <2>3. CASE c \notin transfer[i].listeners
    <3>1. cookie'[c] = cookie[c]
      BY <1>1, <2>3
    <3> QED BY <2>1, <3>1 DEF CookieSound
  <2> QED BY <2>2, <2>3
<1>5. CookiesSound' /\ cookie' \in [Cookies -> CookieRecord]
  <2>1. CookiesSound'
    BY <1>4 DEF CookiesSound
  <2>2. DOMAIN cookie' = Cookies /\ cookie' = [c \in Cookies |-> cookie'[c]]
    BY <1>1
  <2> QED BY <1>4, <2>1, <2>2
<1>6. /\ transfer' \in [Images -> TransferRecord] /\ transfer'[i].listeners = {}
      /\ \A k \in Images \ {i} : transfer'[k] = transfer[k]
  BY <1>2, <1>3, DriverAssumption DEF NoTransfer, TransferRecord
<1>7. /\ \A k : Marking(k)' = Marking(k)
      /\ \A n : Joined(n)' = Joined(n)
  BY <1>4 DEF Marking, Joined
<1>8. BusyExact' /\ NetExact'
  BY <1>0, <1>2, <1>7 DEF BusyExact, NetExact, cacheVars
<1>9. HandedOut' /\ FreeOK'
  BY <1>0, <1>2, <1>4 DEF HandedOut, FreeOK, poolVars
<1>10. CleanerSound' /\ CacheInv' /\ NoImageForgotten'
  BY <1>0, <1>2 DEF CleanerSound, CacheInv, LruOK, BusyOK, Busy, NoImageForgotten, InLRU, cacheVars
<1>11. TypeOK'
  BY <1>0, <1>1, <1>2, <1>5, <1>6 DEF TypeOK, cacheVars, poolVars
<1>12. ClosedLast'
  <2>1. SUFFICES ASSUME ~poolCtx, NEW c \in Cookies PROVE cookie'[c].pc = "new"
    BY <1>0, <1>2 DEF ClosedLast, poolVars
  <2>2. cookie[c].pc = "new"
    BY <1>0, <2>1 DEF ClosedLast
  <2>3. c \notin transfer[i].listeners
    BY <1>0, <2>2 DEF ListenersWait
  <2> QED BY <1>4, <2>2, <2>3
<1>13. ListenersWait'
  <2>1. SUFFICES ASSUME NEW k \in Images, NEW c \in transfer'[k].listeners
                 PROVE  cookie'[c].pc = "pulling" /\ cookie'[c].task = k
    BY DEF ListenersWait
  <2>2. k # i /\ c \in transfer[k].listeners /\ c \in Cookies /\ cookie[c].pc = "pulling" /\ cookie[c].task = k
    BY <1>0, <1>3, <1>6, <2>1 DEF TransferRecord, ListenersWait
  <2>3. c \notin transfer[i].listeners
    BY <1>0, <2>2 DEF ListenersWait
  <2> QED BY <1>4, <2>2, <2>3
<1> QED BY <1>5, <1>8, <1>9, <1>10, <1>11, <1>12, <1>13 DEF DriverInv

-----------------------------------------------------------------------------
(* The puller's retries, the cleaner, the pool and the notifications        *)

(* A step that touches neither cookies, networks nor the pool. *)
LEMMA CookiesKept ==
  ASSUME DriverInv, UNCHANGED <<poolVars, cookie, netCount, conf>>,
         transfer' \in [Images -> TransferRecord],
         \A i \in Images : transfer'[i].listeners = transfer[i].listeners
  PROVE  /\ CookiesSound' /\ ListenersWait' /\ FreeOK' /\ ClosedLast' /\ HandedOut' /\ NetExact'
         /\ busyRef' = busyRef => BusyExact'
<1>0. /\ CookiesSound /\ ListenersWait /\ FreeOK /\ ClosedLast /\ HandedOut /\ NetExact /\ BusyExact
  BY DEF DriverInv
<1>1. CookiesSound' /\ ListenersWait'
  BY <1>0 DEF CookiesSound, CookieSound, ListenersWait
<1>2. FreeOK' /\ ClosedLast' /\ HandedOut'
  BY <1>0 DEF FreeOK, ClosedLast, HandedOut, poolVars
<1>3. (\A k : Marking(k)' = Marking(k)) /\ (\A n : Joined(n)' = Joined(n))
  BY DEF Marking, Joined
<1> QED BY <1>0, <1>1, <1>2, <1>3 DEF NetExact, BusyExact

LEMMA CacheKept ==
  ASSUME CacheInv, UNCHANGED <<lru, lruSize, busyRef, busySize>>
  PROVE  CacheInv'
BY DEF CacheInv, LruOK, BusyOK, Busy

LEMMA PullRetryInv ==
  ASSUME DriverInv, NEW i \in Images, pullRetry(i)
  PROVE  DriverInv'
<1>0. TypeOK /\ CleanerSound /\ CacheInv /\ NoImageForgotten
  BY DEF DriverInv
<1>1. /\ transfer' = [transfer EXCEPT ![i].tries = @ + 1] /\ transfer[i].tries < MaxRetries
      /\ UNCHANGED <<cacheVars, poolVars, cookie, netCount, onDisk, leaked, cleaner, tracked, conf>>
  BY DEF pullRetry
<1>2. /\ transfer' \in [Images -> TransferRecord]
      /\ \A k \in Images : transfer'[k].listeners = transfer[k].listeners
  <2>0. transfer \in [Images -> TransferRecord]
    BY <1>0 DEF TypeOK
  <2>1. PICK r \in TransferRecord : r = transfer[i]
    BY <2>0
  <2>2. PICK x : x = [r EXCEPT !.tries = @ + 1]
    OBVIOUS
  <2>3. r.tries + 1 \in 0 .. MaxRetries
    BY <1>1, <2>1, DriverAssumption DEF TransferRecord
  <2>4. x \in TransferRecord /\ x.listeners = r.listeners
    BY <2>1, <2>2, <2>3 DEF TransferRecord
  <2>5. transfer' = [transfer EXCEPT ![i] = x]
    BY <1>1, <2>0, <2>1, <2>2
  <2> QED BY <2>0, <2>1, <2>4, <2>5
<1>3. TypeOK'
  BY <1>0, <1>1, <1>2 DEF TypeOK, cacheVars, poolVars
<1>4. CleanerSound' /\ CacheInv' /\ NoImageForgotten'
  BY <1>0, <1>1, CacheKept DEF CleanerSound, NoImageForgotten, InLRU, cacheVars
<1> QED BY <1>1, <1>2, <1>3, <1>4, CookiesKept DEF DriverInv, cacheVars

(* What Update by the cleaner does to the types. *)
LEMMA UpdateTypes ==
  ASSUME TypeOK, NEW i \in Images, Update(Cleaner, i)
  PROVE  /\ sending' \subseteq Cookies \cup {Cleaner} /\ lruSize' \in Int /\ busySize' \in Int
         /\ notifier' \in BOOLEAN
BY ImageCacheAssumption DEF TypeOK, Update, notifyIfFull, addLRULocked, cacheVars

(* The cleaner never lets go of an image it was told of. *)
LEMMA CleanerInv ==
  ASSUME DriverInv, CleanerStep
  PROVE  DriverInv'
<1>0. TypeOK /\ CleanerSound /\ CacheInv /\ NoImageForgotten /\ transfer \in [Images -> TransferRecord]
      /\ cleaner \in CleanerRecord /\ onDisk \subseteq Images /\ tracked \subseteq onDisk
  BY DEF DriverInv, TypeOK
<1>1. UNCHANGED <<poolVars, cookie, transfer, netCount, conf>>
  BY DEF CleanerStep, killLeakedContainers, syncImageCleaner, syncOne, cleanerChecks, cleanerWakes,
         cleanerPops, removeImage, cleanerStops
<1>2. /\ CookiesSound' /\ ListenersWait' /\ FreeOK' /\ ClosedLast' /\ HandedOut' /\ NetExact'
      /\ busyRef' = busyRef => BusyExact'
  BY <1>0, <1>1, CookiesKept
<1>3. ASSUME NEW to \in {"list", "stopped", "sync", "check", "sleep", "pop"}, cleaner' = [cleaner EXCEPT !.pc = to],
             cleaner.pc # "remove", leaked' \subseteq leaked, UNCHANGED <<onDisk, tracked>>,
             UNCHANGED <<lru, lruSize, busyRef, busySize, sending>>, notifier' \in BOOLEAN
      PROVE  DriverInv'
  <2>1. cleaner' \in CleanerRecord /\ cleaner'.img = cleaner.img /\ cleaner'.pc # "remove"
    BY <1>0, <1>3 DEF CleanerRecord
  <2>2. TypeOK'
    BY <1>0, <1>1, <1>3, <2>1 DEF TypeOK, poolVars
  <2>3. CleanerSound' /\ CacheInv' /\ NoImageForgotten'
    BY <1>0, <1>3, <2>1, CacheKept DEF CleanerSound, NoImageForgotten, InLRU
  <2> QED BY <1>2, <1>3, <2>2, <2>3 DEF DriverInv
<1>4. CASE killLeakedContainers
  <2>1. PICK to \in {"list", "stopped"} : cleaner' = [cleaner EXCEPT !.pc = to]
    BY <1>4 DEF killLeakedContainers, CleanerTo
  <2>2. /\ leaked' \subseteq leaked /\ UNCHANGED <<cacheVars, onDisk, tracked>> /\ cleaner.pc = "kill"
    BY <1>4 DEF killLeakedContainers
  <2> QED BY <1>0, <1>3, <2>1, <2>2 DEF cacheVars, TypeOK
<1>5. CASE syncImageCleaner
  <2>1. /\ cleaner' = [cleaner EXCEPT !.pc = "sync", !.todo = onDisk] /\ cleaner.pc = "list"
        /\ UNCHANGED <<cacheVars, onDisk, leaked, tracked>>
    BY <1>5 DEF syncImageCleaner
  <2>2. cleaner' \in CleanerRecord /\ cleaner'.img = cleaner.img /\ cleaner'.pc # "remove"
    BY <1>0, <2>1 DEF CleanerRecord
  <2>3. TypeOK'
    BY <1>0, <1>1, <2>1, <2>2 DEF TypeOK, poolVars, cacheVars
  <2>4. CleanerSound' /\ CacheInv' /\ NoImageForgotten'
    BY <1>0, <2>1, <2>2, CacheKept DEF CleanerSound, NoImageForgotten, InLRU, cacheVars
  <2> QED BY <1>2, <2>1, <2>3, <2>4 DEF DriverInv, cacheVars
<1>6. CASE syncOne
  <2>1. CASE cleaner.todo = {}
    <3>1. /\ cleaner' = [cleaner EXCEPT !.pc = "check"] /\ cleaner.pc = "sync"
          /\ UNCHANGED <<cacheVars, onDisk, leaked, tracked>>
      BY <1>6, <2>1 DEF syncOne, CleanerTo
    <3> QED BY <1>0, <1>3, <3>1 DEF cacheVars, TypeOK
  <2>2. CASE cleaner.todo # {}
    <3>1. PICK i \in cleaner.todo : /\ Update(Cleaner, i)
                                    /\ tracked' = tracked \cup ({i} \cap onDisk)
                                    /\ cleaner' = [cleaner EXCEPT !.todo = @ \ {i}]
      BY <1>6, <2>2 DEF syncOne
    <3>2. i \in Images /\ cleaner.pc = "sync" /\ UNCHANGED <<onDisk, leaked>>
      BY <1>0, <1>6 DEF CleanerRecord, syncOne
    <3>3. cleaner' \in CleanerRecord /\ cleaner'.img = cleaner.img /\ cleaner'.pc # "remove"
      BY <1>0, <3>1, <3>2 DEF CleanerRecord
    <3>4. /\ CacheInv' /\ busyRef' = busyRef /\ ToSet(lru) \subseteq ToSet(lru')
          /\ i \in Exempt \/ busyRef[i] > 0 \/ i \in ToSet(lru')
      BY <1>0, <3>1, <3>2, UpdateKeeps
    <3>5. TypeOK'
      BY <1>0, <1>1, <3>1, <3>2, <3>3, <3>4, UpdateTypes DEF TypeOK, CacheInv, LruOK, BusyOK, poolVars
    <3>6. NoImageForgotten'
      BY <1>0, <3>1, <3>3, <3>4, InLRUDef DEF NoImageForgotten, InLRU, ToSet
    <3>7. CleanerSound'
      BY <1>0, <3>2, <3>3 DEF CleanerSound
    <3> QED BY <1>2, <3>4, <3>5, <3>6, <3>7 DEF DriverInv
  <2> QED BY <2>1, <2>2
<1>7. CASE cleanerChecks
  <2>1. PICK to \in {"pop", "sleep"} : cleaner' = [cleaner EXCEPT !.pc = to]
    BY <1>7 DEF cleanerChecks, CleanerTo
  <2>2. UNCHANGED <<cacheVars, onDisk, leaked, tracked>> /\ cleaner.pc = "check"
    BY <1>7 DEF cleanerChecks
  <2> QED BY <1>0, <1>3, <2>1, <2>2 DEF cacheVars, TypeOK
<1>8. CASE cleanerWakes
  BY <1>0, <1>3, <1>8 DEF cleanerWakes, CleanerTo
<1>9. CASE cleanerPops
  <2>1. cleaner.pc = "pop" /\ UNCHANGED <<onDisk, leaked, tracked>> /\ cleaner.img = None
    BY <1>0, <1>9 DEF cleanerPops, CleanerSound
  <2>2. CASE lru = <<>>
    BY <1>0, <1>3, <1>9, <2>1, <2>2 DEF cleanerPops, CleanerTo, cacheVars, TypeOK
  <2>3. CASE lru # <<>>
    <3>1. Pop /\ cleaner' = [cleaner EXCEPT !.pc = "remove", !.img = Last(lru)]
      BY <1>9, <2>3 DEF cleanerPops
    <3>2. /\ CacheInv' /\ busyRef' = busyRef /\ Last(lru) \in Images
          /\ ToSet(lru') = ToSet(lru) \ {Last(lru)}
      BY <1>0, <2>3, <3>1, PopKeeps
    <3>3. cleaner' \in CleanerRecord /\ cleaner'.img = Last(lru) /\ cleaner'.pc = "remove"
      BY <1>0, <3>1, <3>2 DEF CleanerRecord
    <3>4. CleanerSound'
      BY <3>2, <3>3, NoneApart DEF CleanerSound
    <3>5. NoImageForgotten'
      <4>1. ASSUME NEW k \in tracked \ Exempt PROVE k \in ToSet(lru') \/ busyRef'[k] > 0 \/ cleaner'.img = k
        <5>1. k \in ToSet(lru) \/ busyRef[k] > 0 \/ cleaner.img = k
          BY <1>0, <4>1, InLRUDef DEF NoImageForgotten
        <5>2. k # None
          BY <1>0, NoneApart
        <5> QED BY <2>1, <3>2, <3>3, <5>1, <5>2
      <4> QED BY <2>1, <4>1 DEF NoImageForgotten, InLRU, ToSet
    <3>6. lruSize' \in Int /\ UNCHANGED <<busySize, notifier, sending>>
      BY <1>0, <3>1, <3>2, ImageCacheAssumption DEF Pop, TypeOK
    <3>7. TypeOK'
      BY <1>0, <1>1, <2>1, <3>2, <3>3, <3>6 DEF TypeOK, CacheInv, LruOK, BusyOK, poolVars
    <3> QED BY <1>2, <3>2, <3>4, <3>5, <3>7 DEF DriverInv
  <2> QED BY <2>2, <2>3
<1>10. CASE removeImage
  <2>1. PICK i \in Images : i = cleaner.img
    BY <1>0, <1>10 DEF removeImage, CleanerSound, CleanerRecord
  <2>2. cleaner' = [cleaner EXCEPT !.pc = "check", !.img = None] /\ leaked' = leaked
    BY <1>10 DEF removeImage
  <2>3. cleaner' \in CleanerRecord /\ cleaner'.img = None /\ cleaner'.pc = "check"
    BY <1>0, <2>2 DEF CleanerRecord
  <2>4. CleanerSound'
    BY <2>3 DEF CleanerSound
  <2>7. PICK gone \in SUBSET {i} :
              /\ onDisk' = onDisk \ gone /\ tracked' = tracked \ gone
              /\ putBack(i) \/ (i \notin onDisk \ gone /\ UNCHANGED cacheVars)
    BY <1>10, <2>1 DEF removeImage
  <2>8. onDisk' \subseteq Images /\ tracked' \subseteq onDisk' /\ tracked' \subseteq tracked
    BY <1>0, <2>7
  <2>5. CASE i \notin onDisk \ gone /\ UNCHANGED cacheVars
    <3>1. TypeOK'
      BY <1>0, <1>1, <2>2, <2>3, <2>5, <2>8 DEF TypeOK, poolVars, cacheVars
    <3>0. i \notin tracked'
      BY <1>0, <2>5, <2>7
    <3>2. CacheInv' /\ NoImageForgotten'
      BY <1>0, <2>1, <2>5, <2>8, <3>0, CacheKept DEF NoImageForgotten, InLRU, cacheVars
    <3> QED BY <1>2, <2>4, <2>5, <3>1, <3>2 DEF DriverInv, cacheVars
  <2>6. CASE putBack(i)
    <3>1. /\ CacheInv' /\ busyRef' = busyRef /\ ToSet(lru) \subseteq ToSet(lru')
          /\ i \in Exempt \/ busyRef[i] > 0 \/ i \in ToSet(lru')
      BY <1>0, <2>6, UpdateKeeps DEF putBack
    <3>2. TypeOK'
      BY <1>0, <1>1, <2>2, <2>3, <2>6, <2>8, <3>1, UpdateTypes DEF TypeOK, putBack, CacheInv, LruOK, BusyOK, poolVars
    <3>3. NoImageForgotten'
      BY <1>0, <2>1, <2>3, <2>6, <2>8, <3>1, InLRUDef DEF NoImageForgotten, InLRU, ToSet
    <3> QED BY <1>2, <2>4, <3>1, <3>2, <3>3 DEF DriverInv
  <2> QED BY <2>5, <2>6, <2>7
<1>11. CASE cleanerStops
  BY <1>0, <1>3, <1>11 DEF cleanerStops, CleanerTo, cacheVars, TypeOK
<1> QED BY <1>4, <1>5, <1>6, <1>7, <1>8, <1>9, <1>10, <1>11 DEF CleanerStep

(* The steps of the pool. *)
LEMMA PoolInv ==
  ASSUME DriverInv, PoolStep \/ DriverClose
  PROVE  DriverInv'
<1>0. /\ TypeOK /\ CookiesSound /\ ListenersWait /\ CleanerSound /\ CacheInv /\ BusyExact
      /\ NoImageForgotten /\ FreeOK /\ ClosedLast /\ HandedOut /\ NetExact
  BY DEF DriverInv
<1>1. UNCHANGED cacheVars /\ UNCHANGED drvVars
  BY DEF PoolStep, DriverClose
<1>2. CookiesSound' /\ ListenersWait' /\ CleanerSound' /\ CacheInv' /\ NoImageForgotten'
  BY <1>0, <1>1, CacheKept
     DEF CookiesSound, CookieSound, ListenersWait, CleanerSound, NoImageForgotten, InLRU, cacheVars, drvVars
<1>3. BusyExact' /\ NetExact'
  BY <1>0, <1>1 DEF BusyExact, NetExact, Marking, Joined, cacheVars, drvVars
<1>4. ASSUME FreeOK', ClosedLast', HandedOut', cancelled' \in [PoolIds -> BOOLEAN],
             {poolCtx, gate, fatal, exitedInUse}' \subseteq BOOLEAN, poolClose' \in {"idle", "waiting", "returned"}
      PROVE  DriverInv'
  <2>1. TypeOK'
    BY <1>0, <1>1, <1>4 DEF TypeOK, FreeOK, cacheVars, drvVars
  <2> QED BY <1>2, <1>3, <1>4, <2>1 DEF DriverInv
<1>5. CASE prepareImage \/ PoolClosed \/ DriverClose
  <2>1. /\ UNCHANGED <<inuse, free, nanny, cancelled, exitedInUse>>
        /\ {poolCtx, gate, fatal, exitedInUse}' \subseteq BOOLEAN
        /\ poolClose' \in {"idle", "waiting", "returned"}
    BY <1>0, <1>5 DEF prepareImage, PoolClosed, DriverClose, PoolClose, TypeOK
  <2>2. FreeOK' /\ HandedOut'
    BY <1>0, <1>1, <2>1 DEF FreeOK, HandedOut, drvVars
  <2>3. ClosedLast'
    BY <1>0, <1>1, <1>5 DEF ClosedLast, prepareImage, PoolClosed, DriverClose, PoolClose, drvVars, TypeOK
  <2> QED BY <1>0, <1>4, <2>1, <2>2, <2>3 DEF TypeOK
<1>6. ASSUME NEW p \in PoolIds, nannyStep(p) PROVE DriverInv'
  <2>1. /\ FreeOK' /\ poolCtx' = poolCtx /\ poolClose' = poolClose
        /\ \/ inuse' = inuse /\ exitedInUse' = exitedInUse
           \/ ~poolCtx /\ exitedInUse' = exitedInUse
           \/ exitedInUse' = TRUE
    BY <1>0, <1>6, NannyKeeps DEF TypeOK
  <2>2. /\ cancelled' \in [PoolIds -> BOOLEAN] /\ gate' \in BOOLEAN /\ fatal' \in BOOLEAN
        /\ exitedInUse' \in BOOLEAN
    BY <1>0, <1>6 DEF TypeOK, nannyStep, nannyGate, nannyFatal, nannyWaited, performInitState, register, startFails,
                      unregister, killed, performTeardown
  <2>3. ClosedLast'
    BY <1>0, <1>1, <2>1 DEF ClosedLast, drvVars
  <2>4. HandedOut'
    <3>1. CASE ~poolCtx
      <4>1. \A c \in Cookies : cookie[c].poolId = None
        <5>1. ASSUME NEW c \in Cookies PROVE cookie[c].poolId = None
          <6>1. CookieSound(cookie[c]) /\ cookie[c].pc = "new"
            BY <1>0, <3>1 DEF CookiesSound, ClosedLast
          <6> QED BY <6>1 DEF CookieSound, NewCookie
        <5> QED BY <5>1
      <4> QED BY <1>1, <4>1 DEF HandedOut, drvVars
    <3>2. CASE exitedInUse' = TRUE
      BY <3>2 DEF HandedOut
    <3>3. CASE inuse' = inuse /\ exitedInUse' = exitedInUse
      BY <1>0, <1>1, <3>3 DEF HandedOut, drvVars
    <3> QED BY <2>1, <3>1, <3>2, <3>3
  <2> QED BY <1>0, <1>4, <2>1, <2>2, <2>3, <2>4 DEF TypeOK
<1> QED BY <1>5, <1>6 DEF PoolStep

LEMMA NotifyInv ==
  ASSUME DriverInv, NEW who \in sending, Notify(who)
  PROVE  DriverInv'
<1>0. TypeOK /\ CleanerSound /\ CacheInv /\ NoImageForgotten /\ transfer \in [Images -> TransferRecord]
  BY DEF DriverInv, TypeOK
<1>1. /\ sending' = sending \ {who} /\ notifier' = TRUE
      /\ UNCHANGED <<lru, lruSize, busyRef, busySize>> /\ UNCHANGED poolVars /\ UNCHANGED drvVars
  BY DEF Notify, sendNotify
<1>2. TypeOK'
  BY <1>0, <1>1 DEF TypeOK, poolVars, drvVars
<1>3. CleanerSound' /\ CacheInv' /\ NoImageForgotten'
  BY <1>0, <1>1, CacheKept DEF CleanerSound, NoImageForgotten, InLRU, drvVars
<1>4. /\ CookiesSound' /\ ListenersWait' /\ FreeOK' /\ ClosedLast' /\ HandedOut' /\ NetExact'
      /\ busyRef' = busyRef => BusyExact'
  BY <1>0, <1>1, CookiesKept DEF drvVars
<1> QED BY <1>1, <1>2, <1>3, <1>4 DEF DriverInv

-----------------------------------------------------------------------------
(* The theorems                                                             *)

LEMMA InitInv ==
  ASSUME Init
  PROVE  DriverInv
<1>1. /\ lru = <<>> /\ lruSize = 0 /\ busyRef = [i \in Images |-> 0] /\ busySize = 0
      /\ notifier = FALSE /\ sending = {} /\ inuse = {} /\ free = <<>>
      /\ cancelled = [p \in PoolIds |-> FALSE]
      /\ poolCtx = TRUE /\ poolClose = "idle" /\ fatal = FALSE /\ exitedInUse = FALSE
      /\ gate \in BOOLEAN /\ nanny \in [PoolIds -> NannyState]
  BY DEF Init, CacheInit, PoolInit, NannyState
<1>2. /\ cookie = [c \in Cookies |-> NewCookie] /\ transfer = [i \in Images |-> NoTransfer]
      /\ netCount = [n \in Networks |-> 0] /\ onDisk \in SUBSET Images /\ leaked \in SUBSET onDisk
      /\ cleaner = [pc |-> "kill", img |-> None, todo |-> {}] /\ tracked = {}
  BY DEF Init
<1>3. NewCookie \in CookieRecord /\ NoTransfer \in TransferRecord
  BY DriverAssumption DEF NewCookie, CookieRecord, NoTransfer, TransferRecord
<1>4. cleaner \in CleanerRecord
  BY <1>2 DEF CleanerRecord
<1>5. lru \in Seq(Images) /\ free \in Seq(PoolIds)
  BY <1>1
<1>6. TypeOK
  <2>1. /\ lru \in Seq(Images) /\ busyRef \in [Images -> Nat]
        /\ {lruSize, busySize} \subseteq Int /\ notifier \in BOOLEAN
        /\ sending \subseteq Cookies \cup {Cleaner}
    <3>1. busyRef \in [Images -> Nat]
      BY <1>1
    <3>2. {lruSize, busySize} \subseteq Int
      BY <1>1
    <3>3. notifier \in BOOLEAN /\ sending \subseteq Cookies \cup {Cleaner}
      BY <1>1
    <3> QED BY <1>5, <3>1, <3>2, <3>3
  <2>2. /\ inuse \subseteq PoolIds /\ cancelled \in [PoolIds -> BOOLEAN]
        /\ {poolCtx, gate, fatal, exitedInUse} \subseteq BOOLEAN
        /\ poolClose \in {"idle", "waiting", "returned"}
    BY <1>1
  <2>3. /\ cookie \in [Cookies -> CookieRecord] /\ transfer \in [Images -> TransferRecord]
        /\ netCount \in [Networks -> Int]
    BY <1>2, <1>3
  <2>4. onDisk \subseteq Images /\ leaked \subseteq Images /\ tracked \subseteq onDisk
    BY <1>2
  <2> QED BY <1>1, <1>4, <1>5, <2>1, <2>2, <2>3, <2>4 DEF TypeOK
<1>7. CookiesSound /\ ListenersWait /\ CleanerSound
  BY <1>2 DEF CookiesSound, CookieSound, ListenersWait, CleanerSound, NewCookie, NoTransfer
<1>8. Units({}) = {}
  BY DEF Units
<1>9. ToSet(lru) = {} /\ ToSet(free) = {} /\ Busy = {} /\ IsInjective(lru) /\ IsInjective(free)
  BY <1>1 DEF ToSet, Busy, IsInjective
<1>10. CacheInv
  BY <1>1, <1>5, <1>8, <1>9, FS_EmptySet DEF CacheInv, LruOK, BusyOK
<1>11. (\A i \in Images : Marking(i) = {}) /\ (\A n \in Networks : Joined(n) = {})
  BY <1>2, DriverAssumption DEF Marking, Joined, NewCookie
<1>12. BusyExact /\ NetExact
  BY <1>1, <1>2, <1>11, FS_EmptySet DEF BusyExact, NetExact
<1>13. FreeOK
  BY <1>1, <1>5, <1>9 DEF FreeOK
<1>14. ClosedLast /\ HandedOut /\ NoImageForgotten
  BY <1>1, <1>2 DEF ClosedLast, HandedOut, NoImageForgotten, NewCookie
<1> QED BY <1>6, <1>7, <1>10, <1>12, <1>13, <1>14 DEF DriverInv

LEMMA StutterInv ==
  ASSUME DriverInv, UNCHANGED vars
  PROVE  DriverInv'
<1>0. /\ UNCHANGED <<cacheVars, poolVars, cookie, transfer, netCount, onDisk, leaked, cleaner, tracked, conf>>
      /\ UNCHANGED <<lru, lruSize, busyRef, busySize, notifier, sending>>
  BY DEF vars, drvVars, cacheVars
<1>1. TypeOK /\ CleanerSound /\ CacheInv /\ NoImageForgotten
  BY DEF DriverInv
<1>2. TypeOK'
  BY <1>0, <1>1 DEF TypeOK, poolVars
<1>3. CleanerSound' /\ CacheInv' /\ NoImageForgotten'
  BY <1>0, <1>1, CacheKept DEF CleanerSound, NoImageForgotten, InLRU
<1>4. transfer' \in [Images -> TransferRecord]
  BY <1>2 DEF TypeOK
<1> QED BY <1>0, <1>2, <1>3, <1>4, CookiesKept DEF DriverInv

LEMMA NextInv ==
  ASSUME DriverInv, [Next]_vars
  PROVE  DriverInv'
<1>1. CASE UNCHANGED vars
  BY <1>1, StutterInv
<1>2. ASSUME poolClose = "idle", NEW c \in Cookies, CookieStep(c) PROVE DriverInv'
  <2>1. c \notin sending
    BY <1>2 DEF CookieStep
  <2>2. CASE \E i \in Images : CreateCookie(c, i)
    BY <1>2, <2>2, CreateCookieInv
  <2>3. CASE InspectImage(c) \/ CreateContainer(c) \/ RunEnds(c) \/ RemoveContainer(c)
    BY <1>2, <2>3, PlainInv
  <2>4. CASE MarkInspected(c)
    BY <1>2, <2>1, <2>4, MarkInspectedInv
  <2>5. CASE PullImage(c)
    BY <1>2, <2>5, PullImageInv
  <2>6. CASE Release(c)
    BY <1>2, <2>1, <2>6, ReleaseInv
  <2> QED BY <1>2, <2>2, <2>3, <2>4, <2>5, <2>6 DEF CookieStep
<1>3. ASSUME NEW i \in Images, pullRetry(i) \/ startTransferEnds(i) PROVE DriverInv'
  BY <1>3, PullRetryInv, TransferEndsInv
<1>4. CASE CleanerStep
  BY <1>4, CleanerInv
<1>5. CASE PoolStep \/ DriverClose
  BY <1>5, PoolInv
<1>6. ASSUME NEW who \in sending, Notify(who) PROVE DriverInv'
  BY <1>6, NotifyInv
<1> QED BY <1>1, <1>2, <1>3, <1>4, <1>5, <1>6 DEF Next

LEMMA DriverInvAlways == Spec => []DriverInv
<1>1. Init => DriverInv
  BY InitInv
<1>2. DriverInv /\ [Next]_vars => DriverInv'
  BY NextInv
<1> QED BY <1>1, <1>2, PTL DEF Spec

(* The variables of the driver, its cache and its pool keep their types:    *)
(* a listener is a cookie, a pull is retried at most MaxRetries times, an   *)
(* image the cache was told of is one the daemon has.                       *)
THEOREM DriverTypes == Spec => []TypeOK
<1>1. DriverInv => TypeOK
  BY DEF DriverInv
<1> QED BY <1>1, DriverInvAlways, PTL

(* The accounting of the image cache (MarkBusy, MarkFree, Update, Pop), its *)
(* references and the counts of docker_networks.go are exact for any number *)
(* of cookies, images, sizes and networks, whatever order cookies, pulls    *)
(* and the cleaner run in and whichever call of the daemon fails.           *)
THEOREM HoldingsAlwaysExact == Spec => []HoldingsExact
<1>1. DriverInv => HoldingsExact
  BY CacheInvExact DEF DriverInv, HoldingsExact, BusyExact, NetExact
<1> QED BY <1>1, DriverInvAlways, PTL

(* runImageCleaner never loses an image: what ValidateImage or              *)
(* syncImageCleaner told the cache of is idle, busy, or about to be removed *)
(* for as long as the daemon has it.                                        *)
THEOREM ImagesNeverForgotten == Spec => []NoImageForgotten
<1>1. DriverInv => NoImageForgotten
  BY DEF DriverInv
<1> QED BY <1>1, DriverInvAlways, PTL

(* AllocPoolId and FreePoolId hand a pool container to one cookie at a      *)
(* time, as long as none dies while it is handed out.                       *)
THEOREM PoolAlwaysExclusive == Spec => []PoolExclusive
<1>1. DriverInv => PoolExclusive
  <2> SUFFICES ASSUME DriverInv, ~exitedInUse
               PROVE  /\ \A c, d \in Cookies : c # d /\ cookie[c].poolId # None
                                                 => cookie[c].poolId # cookie[d].poolId
                      /\ \A c \in Cookies : cookie[c].poolId # None => cookie[c].poolId \notin ToSet(free)
    BY DEF PoolExclusive
  <2>1. \A c \in Cookies : cookie[c].poolId # None =>
          /\ cookie[c].poolId \in inuse
          /\ \A d \in Cookies : cookie[d].poolId = cookie[c].poolId => d = c
    BY DEF DriverInv, HandedOut
  <2>2. inuse \subseteq PoolIds /\ \A p \in PoolIds : p \in ToSet(free) => p \notin inuse
    BY DEF DriverInv, FreeOK
  <2> QED BY <2>1, <2>2
<1> QED BY <1>1, DriverInvAlways, PTL
=============================================================================
