---------------------------- MODULE ObjectTable ----------------------------
(***************************************************************************)
(* The generational object table of the device (object_table.rs): slots    *)
(* that are reused with a higher generation, a LIFO stack of free slots,   *)
(* and 64-bit IDs that pack slot number, namespace, generation and kind.   *)
(*                                                                         *)
(* An ID is kept as its two 32-bit words.  The generation at which a slot  *)
(* is retired is the constant GenerationMask (2^13 - 1 in the code); the   *)
(* bit positions of the packing are those of the code.                     *)
(***************************************************************************)
EXTENDS Integers, Sequences, FiniteSets

CONSTANTS MaxSlots,        \* max_slots of the table
          GenerationMask,  \* last generation a slot may have
          Namespaces,      \* the namespaces an integration hands out
          Kind,            \* the ObjectKind tag of this table
          Values,          \* the records stored in the table
          NoValue          \* Option::None

ASSUME MaxSlotsAssumption == MaxSlots \in Nat
ASSUME GenerationMaskAssumption == GenerationMask \in Nat /\ GenerationMask < 8192
ASSUME NamespacesAssumption == \A ns \in Namespaces : ns \in Nat /\ 0 < ns /\ ns < 65536
ASSUME KindAssumption == Kind \in Nat /\ 0 < Kind /\ Kind <= 5
ASSUME NoValueAssumption == NoValue \notin Values

VARIABLES namespace,  \* namespace of this reset epoch
          slots,      \* the Vec of slots, slot number = index + 1
          free,       \* stack of slot numbers, top last
          live,       \* number of occupied slots
          bound,      \* history: the IDs issued, with the record of each
          revoked,    \* history: the IDs removed or left behind by a reset
          epochs      \* history: the namespaces used so far

table == <<namespace, slots, free, live>>
vars  == <<namespace, slots, free, live, bound, revoked, epochs>>

KindRadix       == 8        \* KIND_MASK + 1
GenerationRadix == 8192     \* 1 << GENERATION_BITS
NamespaceRadix  == 65536    \* 1 << NAMESPACE_SHIFT

SlotRecord == [generation : 0..GenerationMask,
               value      : Values \cup {NoValue},
               retired    : BOOLEAN]

ObjectId == [slot : Nat, token : Nat]

\* ObjectId::new, with the slot number (index + 1) given.
PackId(slot, ns, generation) ==
    [slot  |-> slot,
     token |-> ns * NamespaceRadix + generation * KindRadix + Kind]

TokenKind(id)       == id.token % KindRadix
TokenNamespace(id)  == id.token \div NamespaceRadix
TokenGeneration(id) == (id.token \div KindRadix) % GenerationRadix

\* The tests of locate that end in StaleId, for an ID of this kind.
Current_NamespaceIgnored(id) ==
    /\ id.slot \in 1..Len(slots)
    /\ slots[id.slot].generation = TokenGeneration(id)
    /\ ~slots[id.slot].retired
    /\ slots[id.slot].value # NoValue

Current(id) ==
    /\ TokenNamespace(id) = namespace
    /\ id.slot \in 1..Len(slots)
    /\ slots[id.slot].generation = TokenGeneration(id)
    /\ ~slots[id.slot].retired
    /\ slots[id.slot].value # NoValue

\* What locate answers, in the order of its tests.
Locate(id) == CASE id.slot = 0                          -> "InvalidId"
                [] id.slot # 0 /\ TokenKind(id) # Kind  -> "WrongKind"
                [] OTHER -> IF Current(id) THEN "Ok" ELSE "StaleId"

Resolves(id) == Locate(id) = "Ok"

Occupied == {s \in 1..Len(slots) : slots[s].value # NoValue}
Retired  == {s \in 1..Len(slots) : slots[s].retired}
Vacant   == {s \in 1..Len(slots) : slots[s].value = NoValue /\ ~slots[s].retired}

IdOf(s) == PackId(s, namespace, slots[s].generation)

\* The IDs yielded by ids() and, one at a time, by next_id_from().
Ids == {IdOf(s) : s \in {t \in Occupied : ~slots[t].retired}}

\* with_namespace: an empty table.
EmptyTable(ns) == /\ namespace = ns
                  /\ slots = <<>>
                  /\ free = <<>>
                  /\ live = 0

Init == \E ns \in Namespaces : /\ EmptyTable(ns)
                               /\ bound = <<>>
                               /\ revoked = {}
                               /\ epochs = {ns}

Bind(id, value) == bound' = [i \in DOMAIN bound \cup {id} |->
                                IF i = id THEN value ELSE bound[i]]

\* try_reserve_insert, as long as the allocator does not fail.
CanReserve == free # <<>> \/ Len(slots) < MaxSlots

\* insert_prepared when a slot can be reused: the top of the stack is popped.
InsertReusing(value) ==
    LET s == free[Len(free)] IN
    /\ free # <<>>
    /\ free' = SubSeq(free, 1, Len(free) - 1)
    /\ slots' = [slots EXCEPT ![s].value = value]
    /\ live' = live + 1
    /\ Bind(IdOf(s), value)
    /\ UNCHANGED <<namespace, revoked, epochs>>

\* insert_prepared when it cannot: a slot of generation 0 is pushed.
InsertPushing(value) ==
    /\ free = <<>>
    /\ Len(slots) < MaxSlots
    /\ slots' = Append(slots, [generation |-> 0, value |-> value, retired |-> FALSE])
    /\ live' = live + 1
    /\ Bind(PackId(Len(slots) + 1, namespace, 0), value)
    /\ UNCHANGED <<namespace, free, revoked, epochs>>

Insert(value) == InsertReusing(value) \/ InsertPushing(value)

\* A removed slot is retired when its generation is the last one.
RetiredAt_Never(s) == FALSE
RetiredAt(s) == slots[s].generation = GenerationMask

NextGeneration_Kept(generation) == generation
NextGeneration(generation) == generation + 1

\* The free stack after slot s was vacated.
FreeAfter_Forgotten(s) == free
FreeAfter_WithRetired(s) == Append(free, s)
FreeAfter(s) == IF RetiredAt(s) THEN free ELSE Append(free, s)

\* The slot once its value was taken (locate has found it not retired).
Vacated(s) ==
    [generation |-> IF RetiredAt(s) THEN slots[s].generation
                                    ELSE NextGeneration(slots[s].generation),
     value      |-> NoValue,
     retired    |-> RetiredAt(s)]

Remove(id) ==
    /\ Resolves(id)
    /\ live' = live - 1
    /\ slots' = [slots EXCEPT ![id.slot] = Vacated(id.slot)]
    /\ free' = FreeAfter(id.slot)
    /\ revoked' = revoked \cup {id}
    /\ UNCHANGED <<namespace, bound, epochs>>

\* CommandProcessor::reset renews the tables once they are empty.  The code
\* refuses the current namespace; that a namespace is never handed out twice
\* is the integration's duty (the contract stated at ObjectNamespace).
Renew(ns) ==
    /\ live = 0
    /\ ns # namespace
    /\ ns \notin epochs
    /\ namespace' = ns
    /\ slots' = <<>>
    /\ free' = <<>>
    /\ live' = 0
    /\ revoked' = DOMAIN bound
    /\ epochs' = epochs \cup {ns}
    /\ UNCHANGED bound

\* Only an ID that was issued can resolve, so removal is tried for those.
Next == \/ \E value \in Values : Insert(value)
        \/ \E id \in DOMAIN bound : Remove(id)
        \/ \E ns \in Namespaces : Renew(ns)

Spec == Init /\ [][Next]_vars
----------------------------------------------------------------------------
\* The fields hold what the code's integer widths allow, in particular a
\* generation never leaves its 13 bits (object_table.rs, remove).
TypeOK == /\ namespace \in Namespaces
          /\ slots \in Seq(SlotRecord)
          /\ Len(slots) <= MaxSlots
          /\ free \in Seq(1..MaxSlots)
          /\ live \in 0..MaxSlots
          /\ DOMAIN bound \subseteq ObjectId
          /\ revoked \subseteq DOMAIN bound
          /\ namespace \in epochs
          /\ epochs \subseteq Namespaces

\* An ID resolves from the moment insert returns it until it is removed or
\* its reset epoch ends, always to the record it was issued for, and never
\* again afterwards, however often its slot is reused (insert_prepared,
\* remove, locate).
IdentityNeverAliases ==
    \A id \in DOMAIN bound :
        /\ Resolves(id) <=> id \notin revoked
        /\ Resolves(id) => slots[id.slot].value = bound[id]

\* The free stack holds every slot that may be reused, once each, and never
\* an occupied or a retired one: what insert_prepared debug-asserts of the
\* slot it pops, and what makes live the number of occupied slots.
FreeStackIsExactlyVacant ==
    /\ {free[i] : i \in DOMAIN free} = Vacant
    /\ \A i, j \in DOMAIN free : free[i] = free[j] => i = j
    /\ live = Cardinality(Occupied)

\* The table answers Full (try_reserve_insert) only when every slot it may
\* have is occupied or has run out of generations: capacity is lost to
\* retirement and to nothing else.
FullOnlyWhenExhausted ==
    ~CanReserve => Cardinality(Retired) + live = MaxSlots

\* The table implements the registry of names: lookup through locate, with
\* the IDs that resolve as the names in use.
Names == {PackId(s, ns, g) : s \in 1..MaxSlots, ns \in Namespaces,
                             g \in 0..GenerationMask}

Registry == INSTANCE IdentityRegistry
              WITH Objects <- Values,
                   named   <- [id \in {i \in DOMAIN bound : Resolves(i)} |->
                                 slots[id.slot].value],
                   spent   <- revoked

\* Every ID is issued for one object, at most once, and is dead for ever
\* once it is removed or left behind by a reset (the registry's Spec).
ImplementsRegistry == Registry!Spec
============================================================================
