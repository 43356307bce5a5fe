------------------------- MODULE ObjectTableProofs -------------------------
(***************************************************************************)
(* Proofs about ObjectTable, for every number of slots, generations and    *)
(* namespaces: the IDs never alias, the free stack is exact, and the table *)
(* is full only when it is exhausted.                                      *)
(***************************************************************************)
EXTENDS ObjectTable, FiniteSetTheorems, SequenceTheorems, TLAPS

\* What is known of an issued ID.  IDs of earlier epochs are revoked.  In the
\* current epoch an ID carries at most the generation of its slot: a smaller
\* one is revoked, and the slot's own generation was issued exactly when the
\* slot is occupied (by the record of that ID) or retired.
IssuedId(id) ==
    /\ id.slot \in 1..MaxSlots
    /\ TokenKind(id) = Kind
    /\ TokenNamespace(id) \in epochs
    /\ TokenNamespace(id) # namespace => id \in revoked
    /\ TokenNamespace(id) = namespace =>
         /\ id.slot \in 1..Len(slots)
         /\ TokenGeneration(id) <= slots[id.slot].generation
         /\ TokenGeneration(id) < slots[id.slot].generation => id \in revoked
         /\ TokenGeneration(id) = slots[id.slot].generation =>
              \/ /\ slots[id.slot].value # NoValue
                 /\ slots[id.slot].value = bound[id]
                 /\ id \notin revoked
              \/ slots[id.slot].retired /\ id \in revoked

IssuedIds == \A id \in DOMAIN bound : IssuedId(id)

RetiredAreVacant == \A s \in 1..Len(slots) : slots[s].retired => slots[s].value = NoValue

\* The inductive invariant.
IInv == TypeOK /\ FreeStackIsExactlyVacant /\ RetiredAreVacant /\ IssuedIds

\* ObjectId::new and the field extractions of locate are inverse.
LEMMA PackThenUnpack ==
    ASSUME NEW s \in Nat, NEW ns \in Nat, NEW g \in Nat, g < 8192
    PROVE  /\ PackId(s, ns, g) \in ObjectId
           /\ PackId(s, ns, g).slot = s
           /\ TokenKind(PackId(s, ns, g)) = Kind
           /\ TokenNamespace(PackId(s, ns, g)) = ns
           /\ TokenGeneration(PackId(s, ns, g)) = g
<1>. DEFINE t == ns * 65536 + g * 8 + Kind
<1>1. t \in Nat /\ t % 8 = Kind
  BY KindAssumption
<1>2. t \div 65536 = ns
  BY KindAssumption
<1>3. t \div 8 = ns * 8192 + g
  BY KindAssumption
<1>4. (ns * 8192 + g) % 8192 = g
  OBVIOUS
<1>5. PackId(s, ns, g) = [slot |-> s, token |-> t]
  BY DEF PackId, KindRadix, NamespaceRadix
<1>. HIDE DEF t
<1>6. (t \div 8) % 8192 = g
  BY <1>3, <1>4
<1>. QED  BY <1>1, <1>2, <1>5, <1>6
          DEF ObjectId, TokenKind, TokenNamespace, TokenGeneration,
              KindRadix, GenerationRadix, NamespaceRadix

\* No two IDs of this kind share slot, namespace and generation.
LEMMA UnpackThenPack ==
    ASSUME NEW id \in ObjectId, TokenKind(id) = Kind
    PROVE  id = PackId(id.slot, TokenNamespace(id), TokenGeneration(id))
<1>1. id.token = TokenNamespace(id) * NamespaceRadix
                   + TokenGeneration(id) * KindRadix + Kind
  BY KindAssumption
     DEF ObjectId, TokenKind, TokenNamespace, TokenGeneration,
         KindRadix, GenerationRadix, NamespaceRadix
<1>. QED  BY <1>1 DEF ObjectId, PackId

\* For an ID of this kind only the last group of locate's tests matters.
LEMMA ResolvesIffCurrent ==
    ASSUME NEW id, id.slot # 0, TokenKind(id) = Kind
    PROVE  Resolves(id) <=> Current(id)
BY DEF Resolves, Locate
LEMMA IntervalCardinality ==
    ASSUME NEW n \in Nat
    PROVE  IsFiniteSet(1..n) /\ Cardinality(1..n) = n
BY FS_Interval

\* A set of slot numbers is finite and has at most as many members as slots.
LEMMA SubIntervalCardinality ==
    ASSUME NEW n \in Nat, NEW S, S \subseteq 1..n
    PROVE  IsFiniteSet(S) /\ Cardinality(S) \in Nat /\ Cardinality(S) <= n
<1>1. S \in SUBSET (1..n)
  OBVIOUS
<1>2. IsFiniteSet(S) /\ Cardinality(S) <= Cardinality(1..n)
  BY <1>1, IntervalCardinality, FS_Subset
<1>3. Cardinality(S) \in Nat
  BY <1>2, FS_CardinalityType
<1>. QED  BY <1>2, <1>3, IntervalCardinality

\* The facts about types that the provers need one at a time.
LEMMA Types ==
    ASSUME TypeOK
    PROVE  /\ Len(slots) \in Nat /\ Len(slots) <= MaxSlots
           /\ DOMAIN slots = 1..Len(slots)
           /\ Len(free) \in Nat /\ DOMAIN free = 1..Len(free)
           /\ namespace \in Nat
           /\ \A s \in 1..Len(slots) : slots[s] \in SlotRecord
           /\ \A s \in 1..Len(slots) : slots[s].generation \in Nat /\ slots[s].generation < 8192
           /\ \A i \in 1..Len(free) : free[i] \in 1..MaxSlots
<1>1. Len(slots) \in Nat /\ Len(slots) <= MaxSlots /\ DOMAIN slots = 1..Len(slots)
  BY DEF TypeOK
<1>2. Len(free) \in Nat /\ DOMAIN free = 1..Len(free)
  BY DEF TypeOK
<1>3. namespace \in Nat
  BY NamespacesAssumption DEF TypeOK
<1>4. \A s \in 1..Len(slots) : slots[s] \in SlotRecord
  BY ElementOfSeq DEF TypeOK
<1>5. \A s \in 1..Len(slots) : slots[s].generation \in Nat /\ slots[s].generation < 8192
  BY <1>4, GenerationMaskAssumption DEF SlotRecord
<1>6. \A i \in 1..Len(free) : free[i] \in 1..MaxSlots
  BY ElementOfSeq DEF TypeOK
<1>. QED  BY <1>1, <1>2, <1>3, <1>4, <1>5, <1>6

LEMMA InitEstablishesIInv == Init => IInv
<1>. SUFFICES ASSUME Init PROVE IInv
  OBVIOUS
<1>1. PICK ns \in Namespaces : EmptyTable(ns) /\ bound = <<>> /\ revoked = {} /\ epochs = {ns}
  BY DEF Init
<1>2. slots = <<>> /\ free = <<>> /\ live = 0 /\ namespace = ns /\ DOMAIN bound = {}
  BY <1>1 DEF EmptyTable
<1>3. TypeOK
  BY <1>1, <1>2, MaxSlotsAssumption DEF TypeOK
<1>4. Occupied = {} /\ Vacant = {}
  BY <1>2 DEF Occupied, Vacant
<1>5. FreeStackIsExactlyVacant
  BY <1>2, <1>4, FS_EmptySet DEF FreeStackIsExactlyVacant
<1>6. RetiredAreVacant /\ IssuedIds
  BY <1>2 DEF RetiredAreVacant, IssuedIds
<1>. QED  BY <1>3, <1>5, <1>6 DEF IInv

\* The fields of the ID that names slot s now.
LEMMA IdOfUnpacks ==
    ASSUME IInv, NEW s \in 1..Len(slots)
    PROVE  /\ IdOf(s) \in ObjectId /\ IdOf(s).slot = s
           /\ TokenKind(IdOf(s)) = Kind
           /\ TokenNamespace(IdOf(s)) = namespace
           /\ TokenGeneration(IdOf(s)) = slots[s].generation
<1>1. slots[s].generation \in Nat /\ slots[s].generation < 8192 /\ namespace \in Nat /\ s \in Nat
  BY Types DEF IInv
<1>. DEFINE g == slots[s].generation
<1>. HIDE DEF g
<1>2. g \in Nat /\ g < 8192
  BY <1>1 DEF g
<1>3. IdOf(s) = PackId(s, namespace, g)
  BY DEF IdOf, g
<1>4. /\ IdOf(s) \in ObjectId /\ IdOf(s).slot = s
      /\ TokenKind(IdOf(s)) = Kind
      /\ TokenNamespace(IdOf(s)) = namespace
      /\ TokenGeneration(IdOf(s)) = g
  BY <1>1, <1>2, <1>3, PackThenUnpack
<1>. QED  BY <1>4 DEF g

\* A reused slot gets an ID that was never issued: its generation is larger
\* than that of every ID issued for the slot in this epoch.
LEMMA ReusedIdIsFresh ==
    ASSUME IInv, NEW s \in 1..Len(slots), slots[s].value = NoValue, ~slots[s].retired
    PROVE  IdOf(s) \notin DOMAIN bound
BY IdOfUnpacks DEF IInv, IssuedIds, IssuedId

LEMMA PushedIdIsFresh ==
    ASSUME IInv
    PROVE  PackId(Len(slots) + 1, namespace, 0) \notin DOMAIN bound
<1>1. Len(slots) + 1 \in Nat /\ namespace \in Nat /\ 0 \in Nat /\ 0 < 8192
  BY Types DEF IInv
<1>2. /\ PackId(Len(slots) + 1, namespace, 0).slot = Len(slots) + 1
      /\ TokenNamespace(PackId(Len(slots) + 1, namespace, 0)) = namespace
  BY <1>1, PackThenUnpack
<1>3. Len(slots) + 1 \notin 1..Len(slots)
  BY Types DEF IInv
<1>. QED  BY <1>2, <1>3 DEF IInv, IssuedIds, IssuedId

LEMMA InsertReusingPreservesIInv ==
    ASSUME IInv, NEW value \in Values, InsertReusing(value)
    PROVE  IInv'
<1>. DEFINE n == Len(free)
            s == free[n]
            new == IdOf(s)
<1>1. /\ n \in Nat \ {0} /\ n \in DOMAIN free /\ DOMAIN free = 1..n
      /\ free \in Seq(1..MaxSlots)
  BY DEF InsertReusing, IInv, TypeOK
<1>2. s \in Vacant /\ s \in 1..Len(slots) /\ slots[s].value = NoValue /\ ~slots[s].retired
  BY <1>1 DEF IInv, FreeStackIsExactlyVacant, Vacant
<1>3. /\ free' \in Seq(1..MaxSlots)
      /\ Len(free') = n - 1
      /\ DOMAIN free' = 1..(n - 1)
      /\ \A i \in 1..(n - 1) : free'[i] = free[i]
  <2>1. free' = SubSeq(free, 1, n - 1)
    BY DEF InsertReusing
  <2>2. \A i \in 1..(n - 1) : free[i] \in 1..MaxSlots
    BY <1>1, Types DEF IInv
  <2>. QED  BY <1>1, <2>1, <2>2, SubSeqProperties
<1>4. /\ slots' \in Seq(SlotRecord)
      /\ Len(slots') = Len(slots)
      /\ DOMAIN slots = 1..Len(slots)
      /\ slots'[s].generation = slots[s].generation
      /\ slots'[s].value = value
      /\ slots'[s].retired = slots[s].retired
      /\ \A t \in 1..Len(slots) : t # s => slots'[t] = slots[t]
  <2>. DEFINE r == [slots[s] EXCEPT !.value = value]
  <2>1. slots[s] \in SlotRecord /\ DOMAIN slots = 1..Len(slots)
    BY <1>2, Types DEF IInv
  <2>2. /\ r \in SlotRecord /\ r.value = value
        /\ r.generation = slots[s].generation /\ r.retired = slots[s].retired
    BY <2>1 DEF SlotRecord
  <2>3. slots' = [slots EXCEPT ![s] = r]
    BY DEF InsertReusing
  <2>. HIDE DEF r
  <2>. QED  BY <1>2, <2>1, <2>2, <2>3 DEF IInv, TypeOK
<1>5. value # NoValue
  BY NoValueAssumption
<1>6. Occupied' = Occupied \cup {s} /\ s \notin Occupied
  BY <1>2, <1>4, <1>5 DEF Occupied
<1>7. Vacant' = Vacant \ {s}
  BY <1>2, <1>4, <1>5 DEF Vacant
<1>8. /\ new \in ObjectId /\ new.slot = s
      /\ TokenKind(new) = Kind
      /\ TokenNamespace(new) = namespace
      /\ TokenGeneration(new) = slots[s].generation
  BY <1>2, IdOfUnpacks
<1>9. new \notin DOMAIN bound
  BY <1>2, ReusedIdIsFresh
<1>10. /\ DOMAIN bound' = DOMAIN bound \cup {new}
       /\ bound'[new] = value
       /\ \A i \in DOMAIN bound : bound'[i] = bound[i]
  BY <1>9 DEF InsertReusing, Bind
<1>11. live' = Cardinality(Occupied') /\ live' = live + 1
  <2>1. IsFiniteSet(Occupied)
    BY Types, SubIntervalCardinality DEF IInv, Occupied
  <2>2. Cardinality(Occupied') = Cardinality(Occupied) + 1
    BY <1>6, <2>1, FS_AddElement
  <2>. QED  BY <2>2 DEF IInv, InsertReusing, FreeStackIsExactlyVacant
<1>12. UNCHANGED <<namespace, revoked, epochs>>
  BY DEF InsertReusing
<1>13. TypeOK'
  <2>1. live' \in Nat /\ live' <= MaxSlots
    <3>1. Occupied' \subseteq 1..Len(slots)
      BY <1>4 DEF Occupied
    <3>2. Cardinality(Occupied') \in Nat /\ Cardinality(Occupied') <= Len(slots)
      BY <3>1, Types, SubIntervalCardinality DEF IInv
    <3>. QED  BY <3>2, <1>11, Types, MaxSlotsAssumption DEF IInv
  <2>. QED  BY <2>1, <1>3, <1>4, <1>8, <1>10, <1>11, <1>12 DEF IInv, TypeOK
<1>14. FreeStackIsExactlyVacant'
  <2>1. {free'[i] : i \in DOMAIN free'} = Vacant \ {s}
    BY <1>1, <1>3 DEF IInv, FreeStackIsExactlyVacant
  <2>2. \A i, j \in DOMAIN free' : free'[i] = free'[j] => i = j
    BY <1>1, <1>3 DEF IInv, FreeStackIsExactlyVacant
  <2>. QED  BY <2>1, <2>2, <1>7, <1>11 DEF FreeStackIsExactlyVacant
<1>15. RetiredAreVacant'
  BY <1>2, <1>4 DEF IInv, RetiredAreVacant
<1>16. IssuedIds'
  <2>1. s \in 1..MaxSlots /\ new \notin revoked /\ namespace \in epochs
    BY <1>1, <1>9, Types DEF IInv, TypeOK
  <2>. SUFFICES ASSUME NEW id \in DOMAIN bound' PROVE IssuedId(id)'
    BY DEF IssuedIds
  <2>2. CASE id = new
    <3>1. /\ id.slot = s /\ TokenKind(id) = Kind
          /\ TokenNamespace(id) = namespace
          /\ TokenGeneration(id) = slots[s].generation
          /\ bound'[id] = value /\ id \notin revoked
      BY <2>2, <2>1, <1>8, <1>10
    <3>2. slots[s].generation \in Nat
      BY <1>2, Types DEF IInv
    <3>. QED  BY <2>1, <3>1, <3>2, <1>2, <1>4, <1>5, <1>12 DEF IssuedId
  <2>3. CASE id \in DOMAIN bound
    BY <2>3, <1>2, <1>4, <1>10, <1>12
    DEF IInv, IssuedIds, IssuedId
  <2>. QED  BY <2>2, <2>3, <1>10
<1>. QED  BY <1>13, <1>14, <1>15, <1>16 DEF IInv
LEMMA InsertPushingPreservesIInv ==
    ASSUME IInv, NEW value \in Values, InsertPushing(value)
    PROVE  IInv'
<1>. DEFINE n == Len(slots) + 1
            fresh == [generation |-> 0, value |-> value, retired |-> FALSE]
            new == PackId(n, namespace, 0)
<1>1. /\ n \in Nat /\ n \in 1..MaxSlots /\ n \notin 1..Len(slots)
      /\ namespace \in Nat /\ Len(slots) \in Nat
  BY Types, MaxSlotsAssumption DEF IInv, InsertPushing
<1>2. value # NoValue
  BY NoValueAssumption
<1>3. fresh \in SlotRecord
  BY GenerationMaskAssumption DEF SlotRecord
<1>4. /\ slots' \in Seq(SlotRecord)
      /\ Len(slots') = n
      /\ slots'[n] = fresh
      /\ \A t \in 1..Len(slots) : slots'[t] = slots[t]
  BY <1>3, AppendProperties DEF InsertPushing, IInv, TypeOK
<1>5. 1..Len(slots') = 1..Len(slots) \cup {n}
  BY <1>1, <1>4
<1>6. Occupied' = Occupied \cup {n} /\ n \notin Occupied
  BY <1>1, <1>2, <1>4, <1>5 DEF Occupied
<1>7. Vacant' = Vacant
  BY <1>1, <1>2, <1>4, <1>5 DEF Vacant
<1>8. /\ new \in ObjectId /\ new.slot = n /\ TokenKind(new) = Kind
      /\ TokenNamespace(new) = namespace /\ TokenGeneration(new) = 0
  BY <1>1, PackThenUnpack
<1>9. new \notin DOMAIN bound
  BY PushedIdIsFresh
<1>10. /\ DOMAIN bound' = DOMAIN bound \cup {new}
       /\ bound'[new] = value
       /\ \A i \in DOMAIN bound : bound'[i] = bound[i]
  BY <1>9 DEF InsertPushing, Bind
<1>11. live' = Cardinality(Occupied') /\ live' = live + 1
  <2>1. IsFiniteSet(Occupied)
    BY Types, SubIntervalCardinality DEF IInv, Occupied
  <2>2. Cardinality(Occupied') = Cardinality(Occupied) + 1
    BY <1>6, <2>1, FS_AddElement
  <2>. QED  BY <2>2 DEF IInv, InsertPushing, FreeStackIsExactlyVacant
<1>12. UNCHANGED <<namespace, free, revoked, epochs>>
  BY DEF InsertPushing
<1>13. TypeOK'
  <2>1. live' \in Nat /\ live' <= MaxSlots
    <3>1. Occupied' \subseteq 1..n
      BY <1>1, <1>6 DEF Occupied
    <3>2. Cardinality(Occupied') \in Nat /\ Cardinality(Occupied') <= n
      BY <3>1, <1>1, SubIntervalCardinality
    <3>. QED  BY <3>2, <1>1, <1>11, MaxSlotsAssumption
  <2>. QED  BY <2>1, <1>1, <1>4, <1>8, <1>10, <1>12 DEF IInv, TypeOK
<1>14. FreeStackIsExactlyVacant'
  BY <1>7, <1>11, <1>12 DEF IInv, FreeStackIsExactlyVacant
<1>15. RetiredAreVacant'
  BY <1>4, <1>5 DEF IInv, RetiredAreVacant
<1>16. IssuedIds'
  <2>1. new \notin revoked /\ namespace \in epochs
    BY <1>9 DEF IInv, TypeOK
  <2>. SUFFICES ASSUME NEW id \in DOMAIN bound' PROVE IssuedId(id)'
    BY DEF IssuedIds
  <2>2. CASE id = new
    <3>1. /\ id.slot = n /\ TokenKind(id) = Kind
          /\ TokenNamespace(id) = namespace /\ TokenGeneration(id) = 0
          /\ bound'[id] = value /\ id \notin revoked
      BY <2>2, <2>1, <1>8, <1>10
    <3>. QED  BY <2>1, <3>1, <1>1, <1>2, <1>4, <1>5, <1>12 DEF IssuedId
  <2>3. CASE id \in DOMAIN bound
    BY <2>3, <1>4, <1>5, <1>10, <1>12 DEF IInv, IssuedIds, IssuedId
  <2>. QED  BY <2>2, <2>3, <1>10
<1>. QED  BY <1>13, <1>14, <1>15, <1>16 DEF IInv

LEMMA RemovePreservesIInv ==
    ASSUME IInv, NEW gone \in DOMAIN bound, Remove(gone)
    PROVE  IInv'
<1>. DEFINE s == gone.slot
            r == Vacated(s)
<1>1. /\ gone \in ObjectId /\ gone.slot # 0 /\ TokenKind(gone) = Kind
      /\ s \in 1..MaxSlots
  BY MaxSlotsAssumption DEF IInv, TypeOK, IssuedIds, IssuedId
<1>2. /\ TokenNamespace(gone) = namespace
      /\ s \in 1..Len(slots)
      /\ slots[s].generation = TokenGeneration(gone)
      /\ ~slots[s].retired /\ slots[s].value # NoValue
  BY <1>1, ResolvesIffCurrent DEF Remove, Current
<1>3. slots[s] \in SlotRecord /\ DOMAIN slots = 1..Len(slots) /\ Len(slots) \in Nat
  BY <1>2, Types DEF IInv
<1>4. /\ r \in SlotRecord /\ r.value = NoValue /\ r.retired = RetiredAt(s)
      /\ r.generation = IF RetiredAt(s) THEN slots[s].generation
                                        ELSE slots[s].generation + 1
  BY <1>3, GenerationMaskAssumption DEF Vacated, SlotRecord, RetiredAt, NextGeneration
<1>5. slots' = [slots EXCEPT ![s] = r]
  BY DEF Remove
<1>. HIDE DEF r
<1>6. /\ slots' \in Seq(SlotRecord) /\ Len(slots') = Len(slots)
      /\ slots'[s] = r
      /\ \A t \in 1..Len(slots) : t # s => slots'[t] = slots[t]
  BY <1>2, <1>3, <1>4, <1>5 DEF IInv, TypeOK
<1>7. Occupied' = Occupied \ {s} /\ s \in Occupied
  BY <1>2, <1>4, <1>6 DEF Occupied
<1>8. Vacant' = (IF RetiredAt(s) THEN Vacant ELSE Vacant \cup {s}) /\ s \notin Vacant
  BY <1>2, <1>4, <1>6 DEF Vacant
<1>9. live' = Cardinality(Occupied') /\ live' = live - 1
  <2>1. IsFiniteSet(Occupied)
    BY Types, SubIntervalCardinality DEF IInv, Occupied
  <2>2. Cardinality(Occupied') = Cardinality(Occupied) - 1
    BY <1>7, <2>1, FS_RemoveElement
  <2>. QED  BY <2>2 DEF IInv, Remove, FreeStackIsExactlyVacant
<1>10. UNCHANGED <<namespace, bound, epochs>> /\ revoked' = revoked \cup {gone}
  BY DEF Remove
<1>11. /\ Len(free) \in Nat /\ DOMAIN free = 1..Len(free) /\ free \in Seq(1..MaxSlots)
       /\ {free[i] : i \in DOMAIN free} = Vacant
       /\ \A i, j \in DOMAIN free : free[i] = free[j] => i = j
  BY Types DEF IInv, TypeOK, FreeStackIsExactlyVacant
<1>12. /\ free' \in Seq(1..MaxSlots)
       /\ {free'[i] : i \in DOMAIN free'} = Vacant'
       /\ \A i, j \in DOMAIN free' : free'[i] = free'[j] => i = j
  <2>1. CASE RetiredAt(s)
    BY <2>1, <1>8, <1>11 DEF Remove, FreeAfter
  <2>2. CASE ~RetiredAt(s)
    <3>1. free' = Append(free, s)
      BY <2>2 DEF Remove, FreeAfter
    <3>2. /\ free' \in Seq(1..MaxSlots) /\ Len(free') = Len(free) + 1
          /\ \A i \in 1..Len(free) : free'[i] = free[i]
          /\ free'[Len(free) + 1] = s
      BY <3>1, <1>1, <1>11, AppendProperties
    <3>3. DOMAIN free' = DOMAIN free \cup {Len(free) + 1}
      BY <3>2, <1>11
    <3>4. {free'[i] : i \in DOMAIN free'} = {free[i] : i \in DOMAIN free} \cup {s}
      BY <3>2, <3>3, <1>11
    <3>5. \A i, j \in DOMAIN free' : free'[i] = free'[j] => i = j
      BY <3>2, <3>3, <1>8, <1>11
    <3>. QED  BY <2>2, <3>2, <3>4, <3>5, <1>8, <1>11
  <2>. QED  BY <2>1, <2>2
<1>13. TypeOK'
  <2>1. live' \in Nat /\ live' <= MaxSlots
    <3>1. Occupied' \subseteq 1..Len(slots)
      BY <1>6 DEF Occupied
    <3>2. Cardinality(Occupied') \in Nat /\ Cardinality(Occupied') <= Len(slots)
      BY <3>1, <1>3, SubIntervalCardinality
    <3>. QED  BY <3>2, <1>9, Types, MaxSlotsAssumption DEF IInv
  <2>. QED  BY <2>1, <1>6, <1>10, <1>12 DEF IInv, TypeOK
<1>14. FreeStackIsExactlyVacant'
  BY <1>9, <1>12 DEF FreeStackIsExactlyVacant
<1>15. RetiredAreVacant'
  BY <1>4, <1>6 DEF IInv, RetiredAreVacant
<1>16. IssuedIds'
  <2>. SUFFICES ASSUME NEW id \in DOMAIN bound PROVE IssuedId(id)'
    BY <1>10 DEF IssuedIds
  <2>1. IssuedId(id) /\ id \in ObjectId
    BY DEF IInv, IssuedIds, TypeOK
  <2>2. slots[s].generation \in Nat
    BY <1>2, Types DEF IInv
  <2>3. CASE id.slot = s /\ TokenNamespace(id) = namespace
                /\ TokenGeneration(id) = slots[s].generation
    <3>1. id = gone
      BY <2>1, <2>3, <1>1, <1>2, UnpackThenPack DEF IssuedId
    <3>. QED  BY <2>1, <2>2, <2>3, <3>1, <1>2, <1>4, <1>6, <1>10 DEF IssuedId
  <2>4. CASE id.slot = s /\ TokenNamespace(id) = namespace
                /\ TokenGeneration(id) # slots[s].generation
    <3>1. TokenGeneration(id) < slots[s].generation /\ id \in revoked
      BY <2>1, <2>2, <2>4 DEF IssuedId, ObjectId, TokenGeneration, KindRadix, GenerationRadix
    <3>2. TokenGeneration(id) < r.generation /\ TokenGeneration(id) \in Nat
      BY <2>1, <2>2, <3>1, <1>4 DEF ObjectId, TokenGeneration, KindRadix, GenerationRadix
    <3>3. r.generation \in Nat
      BY <1>4, <2>2
    <3>4. TokenGeneration(id) <= r.generation /\ TokenGeneration(id) # r.generation
      BY <3>2, <3>3
    <3>5. slots'[id.slot] = r /\ id.slot \in 1..Len(slots') /\ id \in revoked'
      BY <2>4, <3>1, <1>2, <1>6, <1>10
    <3>6. id.slot \in 1..MaxSlots /\ TokenKind(id) = Kind /\ TokenNamespace(id) \in epochs
      BY <2>1 DEF IssuedId
    <3>. QED  BY <3>4, <3>5, <3>6, <1>10 DEF IssuedId
  <2>5. CASE ~(id.slot = s /\ TokenNamespace(id) = namespace)
    <3>1. TokenNamespace(id) = namespace => id # gone
      BY <2>5
    <3>. QED  BY <2>1, <2>5, <3>1, <1>6, <1>10 DEF IssuedId
  <2>. QED  BY <2>3, <2>4, <2>5
<1>. QED  BY <1>13, <1>14, <1>15, <1>16 DEF IInv
LEMMA RenewPreservesIInv ==
    ASSUME IInv, NEW ns \in Namespaces, Renew(ns)
    PROVE  IInv'
<1>1. /\ slots' = <<>> /\ free' = <<>> /\ live' = 0 /\ namespace' = ns
      /\ bound' = bound /\ revoked' = DOMAIN bound /\ epochs' = epochs \cup {ns}
      /\ ns \notin epochs
  BY DEF Renew
<1>2. TypeOK'
  BY <1>1, MaxSlotsAssumption DEF IInv, TypeOK
<1>3. Occupied' = {} /\ Vacant' = {}
  BY <1>1 DEF Occupied, Vacant
<1>4. FreeStackIsExactlyVacant'
  BY <1>1, <1>3, FS_EmptySet DEF FreeStackIsExactlyVacant
<1>5. RetiredAreVacant'
  BY <1>1 DEF RetiredAreVacant
<1>6. IssuedIds'
  BY <1>1 DEF IInv, IssuedIds, IssuedId
<1>. QED  BY <1>2, <1>4, <1>5, <1>6 DEF IInv

LEMMA NextPreservesIInv == IInv /\ [Next]_vars => IInv'
<1>. SUFFICES ASSUME IInv, [Next]_vars PROVE IInv'
  OBVIOUS
<1>1. ASSUME NEW value \in Values, Insert(value) PROVE IInv'
  BY <1>1, InsertReusingPreservesIInv, InsertPushingPreservesIInv DEF Insert
<1>2. ASSUME NEW id \in DOMAIN bound, Remove(id) PROVE IInv'
  BY <1>2, RemovePreservesIInv
<1>3. ASSUME NEW ns \in Namespaces, Renew(ns) PROVE IInv'
  BY <1>3, RenewPreservesIInv
<1>4. CASE UNCHANGED vars
  BY <1>4 DEF vars, IInv, TypeOK, FreeStackIsExactlyVacant, Vacant, Occupied,
              RetiredAreVacant, IssuedIds, IssuedId
<1>. QED  BY <1>1, <1>2, <1>3, <1>4 DEF Next

\* The inductive invariant holds of every table that is made by with_namespace
\* and changed by insert, remove and renewal.
THEOREM InductiveInvariant == Spec => []IInv
BY InitEstablishesIInv, NextPreservesIInv, PTL DEF Spec

\* The table's fields keep to their widths: a generation never leaves the
\* bits reserved for it in an ID (remove).
THEOREM TypeCorrect == Spec => []TypeOK
<1>1. IInv => TypeOK
  BY DEF IInv
<1>. QED  BY InductiveInvariant, <1>1, PTL

\* The free stack of insert_prepared and remove is exactly the set of slots
\* that may be reused, and live counts the occupied ones.
THEOREM FreeStackExact == Spec => []FreeStackIsExactlyVacant
<1>1. IInv => FreeStackIsExactlyVacant
  BY DEF IInv
<1>. QED  BY InductiveInvariant, <1>1, PTL

\* In a state of the invariant an issued ID resolves exactly while it is not
\* revoked, and to its own record.
LEMMA IInvNeverAliases == ASSUME IInv PROVE IdentityNeverAliases
<1>. SUFFICES ASSUME NEW id \in DOMAIN bound
              PROVE  /\ Resolves(id) <=> id \notin revoked
                     /\ Resolves(id) => slots[id.slot].value = bound[id]
  BY DEF IdentityNeverAliases
<1>1. IssuedId(id) /\ id \in ObjectId
  BY DEF IInv, IssuedIds, TypeOK
<1>2. Resolves(id) <=> Current(id)
  BY <1>1, ResolvesIffCurrent, MaxSlotsAssumption DEF IssuedId
<1>3. Current(id) => id \notin revoked /\ slots[id.slot].value = bound[id]
  BY <1>1 DEF Current, IssuedId
<1>4. ASSUME id \notin revoked PROVE Current(id)
  <2>1. TokenNamespace(id) = namespace /\ id.slot \in 1..Len(slots)
    BY <1>1, <1>4 DEF IssuedId
  <2>2. TokenGeneration(id) \in Nat /\ slots[id.slot].generation \in Nat
    BY <1>1, <2>1, Types DEF IInv, ObjectId, TokenGeneration, KindRadix, GenerationRadix
  <2>3. TokenGeneration(id) = slots[id.slot].generation
    BY <1>1, <1>4, <2>1, <2>2 DEF IssuedId
  <2>4. slots[id.slot].value # NoValue
    BY <1>1, <1>4, <2>1, <2>3 DEF IssuedId
  <2>. QED  BY <2>1, <2>3, <2>4 DEF Current, IInv, RetiredAreVacant
<1>. QED  BY <1>2, <1>3, <1>4

\* An ID resolves to the record it was issued for until it is removed or its
\* reset epoch ends, and never again (insert_prepared, remove, locate).
THEOREM NoAliasing == Spec => []IdentityNeverAliases
BY InductiveInvariant, IInvNeverAliases, PTL

\* try_reserve_insert answers Full only when every slot the table may have is
\* occupied or retired.
THEOREM FullIsExhausted == Spec => []FullOnlyWhenExhausted
<1>1. ASSUME IInv, ~CanReserve PROVE Cardinality(Retired) + live = MaxSlots
  <2>1. Len(slots) = MaxSlots /\ free = <<>>
    <3>1. free = <<>> /\ ~(Len(slots) < MaxSlots)
      BY <1>1 DEF CanReserve
    <3>2. Len(slots) \in Nat /\ Len(slots) <= MaxSlots
      BY <1>1, Types DEF IInv
    <3>. QED  BY <3>1, <3>2, MaxSlotsAssumption
  <2>2. Vacant = {}
    BY <1>1, <2>1 DEF IInv, FreeStackIsExactlyVacant
  <2>3. Occupied \cup Retired = 1..MaxSlots /\ Occupied \cap Retired = {}
    BY <1>1, <2>1, <2>2 DEF IInv, RetiredAreVacant, Vacant, Occupied, Retired
  <2>4. /\ IsFiniteSet(Occupied) /\ Cardinality(Occupied) \in Nat
        /\ IsFiniteSet(Retired) /\ Cardinality(Retired) \in Nat
    BY <2>3, MaxSlotsAssumption, SubIntervalCardinality
  <2>5. Cardinality(Occupied \cup Retired) =
          Cardinality(Occupied) + Cardinality(Retired) - Cardinality(Occupied \cap Retired)
    BY <2>4, FS_Union
  <2>6. Cardinality(1..MaxSlots) = MaxSlots /\ Cardinality({}) = 0
    BY MaxSlotsAssumption, IntervalCardinality, FS_EmptySet
  <2>7. live = Cardinality(Occupied)
    BY <1>1 DEF IInv, FreeStackIsExactlyVacant
  <2>8. MaxSlots = Cardinality(Occupied) + Cardinality(Retired) - 0
    BY <2>3, <2>5, <2>6
  <2>. QED  BY <2>4, <2>7, <2>8
<1>2. IInv => FullOnlyWhenExhausted
  BY <1>1 DEF FullOnlyWhenExhausted
<1>. QED  BY InductiveInvariant, <1>2, PTL
\* The names the registry sees: every ID issued and not revoked, with the
\* record it was issued for.
Naming == [id \in {i \in DOMAIN bound : Resolves(i)} |-> slots[id.slot].value]

NamingUnrevoked == /\ Naming = [id \in DOMAIN bound \ revoked |-> bound[id]]
                   /\ revoked \subseteq DOMAIN bound

LEMMA NamingIsTheUnrevoked == IInv => NamingUnrevoked
<1>. SUFFICES ASSUME IInv PROVE NamingUnrevoked
  OBVIOUS
<1>1. IdentityNeverAliases
  BY IInvNeverAliases
<1>2. {i \in DOMAIN bound : Resolves(i)} = DOMAIN bound \ revoked
  BY <1>1 DEF IdentityNeverAliases
<1>3. \A id \in DOMAIN bound \ revoked : slots[id.slot].value = bound[id]
  BY <1>1 DEF IdentityNeverAliases
<1>. QED  BY <1>2, <1>3 DEF NamingUnrevoked, Naming, IInv, TypeOK

\* Binding a new ID is an Issue step of the registry.
LEMMA BindingIssues ==
    ASSUME IInv, IInv', NEW id \in Names, id \notin DOMAIN bound,
           NEW value \in Values, Bind(id, value), revoked' = revoked
    PROVE  Registry!Issue
<1>0. NamingUnrevoked /\ NamingUnrevoked'
  BY NamingIsTheUnrevoked, PTL
<1>1. Naming = [i \in DOMAIN bound \ revoked |-> bound[i]] /\ revoked \subseteq DOMAIN bound
  BY <1>0 DEF NamingUnrevoked
<1>2. Naming' = [i \in DOMAIN bound' \ revoked' |-> bound'[i]]
  BY <1>0 DEF NamingUnrevoked
<1>3. /\ DOMAIN bound' = DOMAIN bound \cup {id} /\ bound'[id] = value
      /\ \A i \in DOMAIN bound : bound'[i] = bound[i]
  BY DEF Bind
<1>4. DOMAIN Naming = DOMAIN bound \ revoked /\ DOMAIN Naming \cup revoked = DOMAIN bound
  BY <1>1
<1>5. Naming' = [i \in DOMAIN Naming \cup {id} |-> IF i = id THEN value ELSE Naming[i]]
  BY <1>1, <1>2, <1>3, <1>4
<1>6. id \in Names \ (DOMAIN Naming \cup revoked)
  BY <1>4
<1>. QED  BY <1>5, <1>6 DEF Registry!Issue, Naming

\* Revoking issued IDs is a Revoke step, or changes no name.
LEMMA RevokingRevokes ==
    ASSUME IInv, IInv', bound' = bound, NEW gone,
           gone \subseteq DOMAIN bound \ revoked, revoked' = revoked \cup gone
    PROVE  Registry!Revoke \/ UNCHANGED Registry!vars
<1>0. NamingUnrevoked /\ NamingUnrevoked'
  BY NamingIsTheUnrevoked, PTL
<1>1. Naming = [i \in DOMAIN bound \ revoked |-> bound[i]]
  BY <1>0 DEF NamingUnrevoked
<1>2. Naming' = [i \in DOMAIN bound \ revoked' |-> bound[i]]
  BY <1>0 DEF NamingUnrevoked
<1>3. gone \in SUBSET DOMAIN Naming
  BY <1>1
<1>4. Naming' = [i \in DOMAIN Naming \ gone |-> Naming[i]]
  BY <1>1, <1>2
<1>5. CASE gone = {}
  <2>1. Naming' = Naming /\ revoked' = revoked
    BY <1>1, <1>2, <1>5
  <2>. QED  BY <2>1 DEF Registry!vars, Naming
<1>6. CASE gone # {}
  BY <1>3, <1>4, <1>6 DEF Registry!Revoke, Naming
<1>. QED  BY <1>5, <1>6

\* Every step of the table is a step of the registry or leaves it unchanged.
LEMMA StepRefines == IInv /\ IInv' /\ [Next]_vars => [Registry!Next]_(Registry!vars)
<1>. SUFFICES ASSUME IInv, IInv', [Next]_vars
              PROVE  Registry!Next \/ UNCHANGED Registry!vars
  OBVIOUS
<1>1. ASSUME NEW value \in Values, InsertReusing(value) PROVE Registry!Issue
  <2>. DEFINE s == free[Len(free)]
  <2>1. Len(free) \in DOMAIN free
    BY <1>1, Types DEF InsertReusing, IInv, TypeOK
  <2>2. s \in 1..Len(slots) /\ slots[s].value = NoValue /\ ~slots[s].retired
    BY <2>1 DEF IInv, FreeStackIsExactlyVacant, Vacant
  <2>3. IdOf(s) \notin DOMAIN bound
    BY <2>2, ReusedIdIsFresh
  <2>4. slots[s].generation \in 0..GenerationMask
    BY <2>2, Types DEF IInv, SlotRecord
  <2>5. s \in 1..MaxSlots /\ namespace \in Namespaces
    BY <2>1, Types DEF IInv, TypeOK
  <2>6. IdOf(s) \in Names
    BY <2>4, <2>5 DEF IdOf, Names
  <2>7. Bind(IdOf(s), value) /\ revoked' = revoked
    BY <1>1 DEF InsertReusing
  <2>. QED  BY <2>3, <2>6, <2>7, BindingIssues
<1>2. ASSUME NEW value \in Values, InsertPushing(value) PROVE Registry!Issue
  <2>. DEFINE id == PackId(Len(slots) + 1, namespace, 0)
  <2>1. Len(slots) + 1 \in 1..MaxSlots /\ namespace \in Namespaces /\ 0 \in 0..GenerationMask
    BY <1>2, Types, MaxSlotsAssumption, GenerationMaskAssumption DEF InsertPushing, IInv, TypeOK
  <2>2. id \in Names
    BY <2>1 DEF Names
  <2>3. id \notin DOMAIN bound
    BY PushedIdIsFresh
  <2>4. Bind(id, value) /\ revoked' = revoked
    BY <1>2 DEF InsertPushing
  <2>. QED  BY <2>2, <2>3, <2>4, BindingIssues
<1>3. ASSUME NEW id \in DOMAIN bound, Remove(id)
      PROVE  Registry!Revoke \/ UNCHANGED Registry!vars
  <2>1. id \notin revoked
    BY <1>3, IInvNeverAliases DEF Remove, IdentityNeverAliases
  <2>2. bound' = bound /\ revoked' = revoked \cup {id} /\ {id} \subseteq DOMAIN bound \ revoked
    BY <1>3, <2>1 DEF Remove
  <2>. QED  BY <2>2, RevokingRevokes
<1>4. ASSUME NEW ns \in Namespaces, Renew(ns)
      PROVE  Registry!Revoke \/ UNCHANGED Registry!vars
  <2>1. bound' = bound /\ revoked' = revoked \cup (DOMAIN bound \ revoked)
    BY <1>4 DEF Renew, IInv, TypeOK
  <2>. QED  BY <2>1, RevokingRevokes
<1>5. CASE UNCHANGED vars
  BY <1>5 DEF vars, Registry!vars, Resolves, Locate, Current
<1>. QED  BY <1>1, <1>2, <1>3, <1>4, <1>5 DEF Next, Insert, Registry!Next

\* The table implements IdentityRegistry (insert, remove and the renewal by
\* CommandProcessor::reset): a name is issued once, for one record.
THEOREM Refinement == Spec => ImplementsRegistry
<1>1. Init => Registry!Init
  <2>. SUFFICES ASSUME Init PROVE Registry!Init
    OBVIOUS
  <2>1. DOMAIN bound = {} /\ revoked = {}
    BY DEF Init
  <2>. QED  BY <2>1 DEF Registry!Init
<1>. QED  BY <1>1, StepRefines, InductiveInvariant, PTL
          DEF Spec, ImplementsRegistry, Registry!Spec
============================================================================
