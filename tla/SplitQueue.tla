----------------------------- MODULE SplitQueue -----------------------------
(***************************************************************************)
(* The in-memory split virtqueue (split-queue/src/queue.rs): a descriptor  *)
(* table, an available and a used ring with free-running 16-bit indices,   *)
(* and one record per published chain that says who owns it.  The queue is *)
(* a single-owner object, so every method is one step; the interleavings   *)
(* are those of the driver's calls, the device's calls and the control     *)
(* plane's.                                                                *)
(*                                                                         *)
(* A driver chain is an identity with a descriptor count, the local index  *)
(* of its head descriptor and whether its topology is valid.  A method     *)
(* that returns an error and changes nothing is a step that cannot be      *)
(* taken.  Storage is absent exactly when size = 0.  The two notification  *)
(* flags touch nothing else of the queue and are in QueueNotifications.    *)
(***************************************************************************)
EXTENDS Integers, Sequences, FiniteSets

CONSTANTS MaxSize,              \* QueueState::max_size
          MaxChainDescriptors,  \* descriptor limit of normal publication
          IndexModulus,         \* 2^16: the ring indices wrap at this value
          Chains,               \* the driver's chains
          DescriptorCount,      \* [Chains -> 1..]: DriverChain::descriptor_count
          LocalHead,            \* [Chains -> 0..]: local index of the head
          Valid,                \* the chains whose topology validates
          MaxEpoch,             \* bound on the resets explored
          SetIndices,           \* the indices the two setters are given
          Nothing               \* Option::None

\* QueueSize holds powers of two up to 2^15, so the sizes divide 2^16.
Sizes == {n \in 1..MaxSize : IndexModulus % n = 0}

ASSUME SizesAssumption == /\ MaxSize \in Nat /\ IndexModulus \in Nat
                          /\ MaxSize < IndexModulus /\ MaxSize \in Sizes
ASSUME LimitAssumption == MaxChainDescriptors \in 2..MaxSize
ASSUME ChainsAssumption == /\ DescriptorCount \in [Chains -> Nat \ {0}]
                           /\ LocalHead \in [Chains -> Nat]
                           /\ Valid \subseteq Chains
                           /\ \A c \in Valid : LocalHead[c] < DescriptorCount[c]
ASSUME EpochAssumption == MaxEpoch \in Nat \ {0}
ASSUME SetIndicesAssumption == SetIndices \subseteq 0..(IndexModulus - 1)

VARIABLES
  size,                    \* configured size, 0 while unconfigured
  ready,                   \* whether publication and consumption are enabled
  epoch,                   \* current reset epoch
  descriptors,             \* descriptor table: owning head, or Nothing
  records,                 \* chain records, indexed by head descriptor
  available, used,         \* the rings
  availableIndex, consumedAvailable, availableCount,
  usedIndex, consumedUsed, usedCount,
  activeChains, freeDescriptors, nextDescriptor,
  idle,                    \* chains the driver owns
  tokens                   \* SplitDeviceChains the device holds

storage == <<descriptors, records, available, used, availableIndex,
             consumedAvailable, availableCount, usedIndex, consumedUsed,
             usedCount, activeChains, freeDescriptors, nextDescriptor>>
vars == <<size, ready, epoch, storage, idle, tokens>>

Slots == 0..(size - 1)

\* ring_slot: the index masked with size - 1.
RingSlot(index) == index % size

\* wrapping_add on a ring index.
Wrap_Never(index) == index
Wrap(index) == index % IndexModulus

\* The slots at which a chain's descriptors may be placed: the free entries
\* met first by a cyclic scan from next_descriptor, in the order of the scan.
Distance(d) == (d - nextDescriptor) % size
Free == {d \in Slots : descriptors[d] = Nothing}
Placements(count) ==
    {p \in [1..count -> Free] :
        /\ \A i, j \in 1..count : i < j => Distance(p[i]) < Distance(p[j])
        /\ \A d \in Free : (\A i \in 1..count : p[i] # d) =>
                               Distance(p[count]) < Distance(d)}

\* queue_head_slot: a malformed chain may name no head of its own.
HeadSlot(c, p) == IF LocalHead[c] < DescriptorCount[c] THEN p[LocalHead[c] + 1]
                                                       ELSE p[1]

ChainId(head) == <<epoch, head>>

Record(id, state, c, p) == [id |-> id, state |-> state, chain |-> c, slots |-> p]

\* RingStorage::new.
NewStorage(n) ==
    /\ descriptors' = [d \in 0..(n - 1) |-> Nothing]
    /\ records' = [d \in 0..(n - 1) |-> Nothing]
    /\ available' = [d \in 0..(n - 1) |-> 0]
    /\ used' = [d \in 0..(n - 1) |-> Nothing]
    /\ availableIndex' = 0 /\ consumedAvailable' = 0 /\ availableCount' = 0
    /\ usedIndex' = 0 /\ consumedUsed' = 0 /\ usedCount' = 0
    /\ activeChains' = 0
    /\ freeDescriptors' = n
    /\ nextDescriptor' = 0

Init ==
    /\ size = 0 /\ ready = FALSE /\ epoch = 1
    /\ descriptors = <<>> /\ records = <<>> /\ available = <<>> /\ used = <<>>
    /\ availableIndex = 0 /\ consumedAvailable = 0 /\ availableCount = 0
    /\ usedIndex = 0 /\ consumedUsed = 0 /\ usedCount = 0
    /\ activeChains = 0 /\ freeDescriptors = 0 /\ nextDescriptor = 0
    /\ idle = Chains
    /\ tokens = {}
----------------------------------------------------------------------------
(* The control plane.                                                      *)

\* Storage that still owns chains is not replaced.
Reconfigurable_Always == TRUE
Reconfigurable == size # 0 => activeChains = 0

\* configure: refused while ready or while chains are owned by the queue.
Configure(n) ==
    /\ ~ready
    /\ n >= MaxChainDescriptors
    /\ Reconfigurable
    /\ size' = n
    /\ NewStorage(n)
    /\ UNCHANGED <<ready, epoch, idle, tokens>>

SetReady(r) ==
    /\ r => size # 0
    /\ ready' = r
    /\ UNCHANGED <<size, epoch, storage, idle, tokens>>
\* set_empty_ring_index: where the rings of a queue that owns no chain stand.
SetEmptyRingIndex(index) ==
    /\ size # 0
    /\ activeChains = 0
    /\ availableIndex' = index /\ consumedAvailable' = index /\ availableCount' = 0
    /\ usedIndex' = index /\ consumedUsed' = index /\ usedCount' = 0
    /\ UNCHANGED <<size, ready, epoch, descriptors, records, available, used,
                   activeChains, freeDescriptors, nextDescriptor, idle, tokens>>

\* set_next_descriptor: where the next scan for free descriptors begins.
SetNextDescriptor(index) ==
    /\ size # 0
    /\ index < size
    /\ nextDescriptor' = index
    /\ UNCHANGED <<size, ready, epoch, descriptors, records, available, used,
                   availableIndex, consumedAvailable, availableCount, usedIndex,
                   consumedUsed, usedCount, activeChains, freeDescriptors, idle, tokens>>
----------------------------------------------------------------------------
(* The driver.                                                             *)

\* publish, and inject_available, which skips the validation.
CanPublish(c, inject) ==
    /\ c \in idle
    /\ ready
    /\ inject \/ (c \in Valid /\ DescriptorCount[c] <= MaxChainDescriptors)
    /\ availableCount # size
    /\ DescriptorCount[c] <= freeDescriptors

Publish(c, inject) ==
    /\ CanPublish(c, inject)
    /\ \E p \in Placements(DescriptorCount[c]) :
         LET head == HeadSlot(c, p) IN
         /\ records[head] = Nothing
         /\ descriptors' = [d \in Slots |-> IF \E i \in DOMAIN p : p[i] = d
                                            THEN head ELSE descriptors[d]]
         /\ records' = [records EXCEPT ![head] = Record(ChainId(head), "Available", c, p)]
         /\ available' = [available EXCEPT ![RingSlot(availableIndex)] = head]
         /\ nextDescriptor' = (p[DescriptorCount[c]] + 1) % size
    /\ freeDescriptors' = freeDescriptors - DescriptorCount[c]
    /\ availableIndex' = Wrap(availableIndex + 1)
    /\ availableCount' = availableCount + 1
    /\ activeChains' = activeChains + 1
    /\ idle' = idle \ {c}
    /\ UNCHANGED <<size, ready, epoch, consumedAvailable, used, usedIndex,
                   consumedUsed, usedCount, tokens>>

\* release_descriptors: the entries of the descriptor table a chain gives back.
Released_FirstOnly(record) == {record.slots[1]}
Released(record) == {record.slots[i] : i \in DOMAIN record.slots}

RecordsWithout(head) == [records EXCEPT ![head] = Nothing]

\* pop_used: the oldest used element gives the chain back to the driver.
PopUsed ==
    LET slot == RingSlot(consumedUsed)
        head == used[slot].head
        record == records[head]
    IN
    /\ ready
    /\ usedCount # 0
    /\ used[slot] # Nothing
    /\ record # Nothing
    /\ record.id = used[slot].id /\ record.state = "Used"
    /\ used' = [used EXCEPT ![slot] = Nothing]
    /\ records' = RecordsWithout(head)
    /\ descriptors' = [d \in Slots |-> IF d \in Released(record) THEN Nothing
                                                               ELSE descriptors[d]]
    /\ freeDescriptors' = freeDescriptors
         + Cardinality({d \in Released(record) : descriptors[d] # Nothing})
    /\ consumedUsed' = Wrap(consumedUsed + 1)
    /\ usedCount' = usedCount - 1
    /\ activeChains' = activeChains - 1
    /\ idle' = idle \cup {record.chain}
    /\ UNCHANGED <<size, ready, epoch, available, availableIndex, consumedAvailable,
                   availableCount, usedIndex, nextDescriptor, tokens>>

\* advance_epoch: the queue is unconfigured and its storage is given up.
AdvanceEpoch(next) ==
    /\ next > epoch
    /\ epoch' = next
    /\ size' = 0 /\ ready' = FALSE
    /\ descriptors' = <<>> /\ records' = <<>> /\ available' = <<>> /\ used' = <<>>
    /\ availableIndex' = 0 /\ consumedAvailable' = 0 /\ availableCount' = 0
    /\ usedIndex' = 0 /\ consumedUsed' = 0 /\ usedCount' = 0
    /\ activeChains' = 0 /\ freeDescriptors' = 0 /\ nextDescriptor' = 0
    /\ UNCHANGED tokens

Heads == {h \in Slots : records[h] # Nothing}
Owned_NotInFlight ==
    {records[h].chain : h \in {g \in Heads : records[g].state # "InFlight"}}
Owned == {records[h].chain : h \in Heads}

\* DriverQueue::reset returns the chain of every record (ReclaimedChains).
DriverReset(next) ==
    /\ AdvanceEpoch(next)
    /\ idle' = idle \cup Owned
----------------------------------------------------------------------------
(* The device.                                                             *)

\* The head at which the device reads the available ring.
NextAvailable_Newest == available[RingSlot(availableIndex + IndexModulus - 1)]
NextAvailable == available[RingSlot(consumedAvailable)]

\* pop_available: the oldest available chain goes to the device.
PopAvailable ==
    LET head == NextAvailable
        record == records[head]
    IN
    /\ ready
    /\ availableCount # 0
    /\ record # Nothing
    /\ record.id[1] = epoch /\ record.state = "Available"
    /\ records' = [records EXCEPT ![head].state = "InFlight"]
    /\ tokens' = tokens \cup {[id |-> record.id, chain |-> record.chain]}
    /\ consumedAvailable' = Wrap(consumedAvailable + 1)
    /\ availableCount' = availableCount - 1
    /\ UNCHANGED <<size, ready, epoch, descriptors, available, used, availableIndex,
                   usedIndex, consumedUsed, usedCount, activeChains, freeDescriptors,
                   nextDescriptor, idle>>

Accepts_AnyEpoch(t) ==
    /\ ready
    /\ t.id[2] \in Slots
    /\ records[t.id[2]] # Nothing
    /\ records[t.id[2]].state = "InFlight"
    /\ usedCount # size

\* complete accepts the token of a chain that is in flight in this epoch.
Accepts(t) ==
    /\ t.id[1] = epoch
    /\ ready
    /\ t.id[2] \in Slots
    /\ records[t.id[2]] # Nothing
    /\ records[t.id[2]].id = t.id /\ records[t.id[2]].state = "InFlight"
    /\ usedCount # size

Complete(t) ==
    /\ Accepts(t)
    /\ records' = [records EXCEPT ![t.id[2]].state = "Used"]
    /\ used' = [used EXCEPT ![RingSlot(usedIndex)] = [head |-> t.id[2], id |-> t.id]]
    /\ usedIndex' = Wrap(usedIndex + 1)
    /\ usedCount' = usedCount + 1
    /\ tokens' = tokens \ {t}
    /\ UNCHANGED <<size, ready, epoch, descriptors, available, availableIndex,
                   consumedAvailable, availableCount, consumedUsed, activeChains,
                   freeDescriptors, nextDescriptor, idle>>

\* Every error of complete consumes the token and changes nothing else: a
\* stale epoch, a queue that is not ready, a used length beyond the writable
\* capacity.  Dropping the token has the same effect.
Forfeit(t) ==
    /\ tokens' = tokens \ {t}
    /\ UNCHANGED <<size, ready, epoch, storage, idle>>

\* DeviceQueue::reset drops the storage, with the chains in it.
DeviceReset(next) ==
    /\ AdvanceEpoch(next)
    /\ UNCHANGED idle
----------------------------------------------------------------------------
Next ==
    \/ \E n \in Sizes : Configure(n)
    \/ \E r \in BOOLEAN : SetReady(r)
    \/ \E index \in SetIndices : SetEmptyRingIndex(index) \/ SetNextDescriptor(index)
    \/ \E c \in Chains, inject \in BOOLEAN : Publish(c, inject)
    \/ PopUsed
    \/ PopAvailable
    \/ \E t \in tokens : Complete(t) \/ Forfeit(t)
    \/ \E next \in 1..MaxEpoch : DriverReset(next) \/ DeviceReset(next)

Spec == Init /\ [][Next]_vars
----------------------------------------------------------------------------
RecordType == [id : (1..MaxEpoch) \X Slots, state : {"Available", "InFlight", "Used"},
               chain : Chains, slots : UNION {[1..n -> Slots] : n \in 1..size}]

\* The ring indices keep to their width, the counters to the queue's size.
TypeOK ==
    /\ size \in {0} \cup Sizes /\ ready \in BOOLEAN /\ epoch \in 1..MaxEpoch
    /\ ready => size # 0
    /\ descriptors \in [Slots -> Slots \cup {Nothing}]
    /\ DOMAIN records = Slots
    /\ \A h \in Slots : records[h] # Nothing => records[h] \in RecordType
    /\ available \in [Slots -> Slots]
    /\ DOMAIN used = Slots
    /\ {availableIndex, consumedAvailable, usedIndex, consumedUsed} \subseteq
         0..(IndexModulus - 1)
    /\ {availableCount, usedCount, activeChains, freeDescriptors} \subseteq 0..size
    /\ nextDescriptor \in {0} \cup Slots
    /\ idle \subseteq Chains
    /\ \A t \in tokens : t.chain \in Chains /\ t.id[1] \in 1..epoch

\* No sequence of calls makes a method find the rings and the records at odds:
\* each conjunct is the negation of one return of CorruptState (publish_inner,
\* allocate_descriptors, pop_used, pop_available, complete).
NeverCorrupt ==
    /\ size # 0 => freeDescriptors <= Cardinality(Free)
    /\ \A h \in Slots : descriptors[h] = Nothing => records[h] = Nothing
    /\ availableCount # 0 =>
         LET record == records[NextAvailable] IN
         record # Nothing /\ record.id[1] = epoch /\ record.state = "Available"
    /\ usedCount # 0 =>
         LET element == used[RingSlot(consumedUsed)] IN
         /\ element # Nothing
         /\ records[element.head] # Nothing
         /\ records[element.head].id = element.id
         /\ records[element.head].state = "Used"
    /\ \A t \in tokens : (t.id[1] = epoch /\ ready) => Accepts(t)

\* Every descriptor-table entry belongs to the one chain whose record lists
\* it, under that chain's head, and the two counters agree with the tables:
\* what release_descriptors debug-asserts, and what configure relies on when
\* it reads active_chains.
DescriptorsAreOwnedOnce ==
    /\ \A h \in Heads : /\ h \in Released(records[h])
                        /\ \A d \in Released(records[h]) : descriptors[d] = h
                        /\ DOMAIN records[h].slots = 1..DescriptorCount[records[h].chain]
    /\ \A d \in Slots \ Free : descriptors[d] \in Heads /\ d \in Released(records[descriptors[d]])
    /\ size # 0 => freeDescriptors = Cardinality(Free)
    /\ activeChains = Cardinality(Heads)

\* A device chain reads and writes guest memory on the strength of the epoch
\* alone (SplitSource, SplitSink, SplitDeviceChain::io).  That is enough: the
\* token of the current epoch is the only one of its chain, and the driver
\* has not got the chain back.
AccessImpliesOwnership ==
    \A t \in tokens : t.id[1] = epoch =>
        /\ t.id[2] \in Heads
        /\ records[t.id[2]].chain = t.chain
        /\ records[t.id[2]].state = "InFlight"
        /\ t.chain \notin idle
        /\ \A u \in tokens : u.id[1] = epoch /\ u.chain = t.chain => u = t

\* A completion that comes after a reset is inert: it consumes its token and
\* touches neither a ring, nor a record, nor the driver (complete, ResetRace).
StaleCompletionIsInert ==
    [][\A t \in tokens \ tokens' : t.id[1] # epoch => UNCHANGED <<storage, idle, size>>]_vars

ChainAt(head) == records[head].chain

Contract == INSTANCE CommandQueue
              WITH free    <- idle,
                   pending <- [i \in 1..availableCount |->
                                 ChainAt(available[RingSlot(Wrap(consumedAvailable + i - 1))])],
                   held    <- {records[h].chain : h \in {g \in Heads : records[g].state = "InFlight"}},
                   done    <- [i \in 1..usedCount |->
                                 ChainAt(used[RingSlot(Wrap(consumedUsed + i - 1))].head)]

\* The rings implement the queue contract across index wrap-around: chains
\* are taken in publication order and collected in completion order.
ImplementsCommandQueue == Contract!Spec

\* Every chain that was published is still with the queue or back with the
\* driver: pop_used or reset returns it.
EveryPublishedChainReturns == Chains = idle \cup Owned
============================================================================
