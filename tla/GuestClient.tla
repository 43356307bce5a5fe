---------------------------- MODULE GuestClient ----------------------------
(***************************************************************************)
(* The guest's driver (guest/src/client.rs) over any queue that honours    *)
(* the contract CommandQueue.  GuestClient owns the queue, keeps one slot  *)
(* per request it waits for, matches used chains to slots by chain id and  *)
(* responses to requests by request id.  The device at the other end pops  *)
(* chains, writes responses through the sink of the chain and completes in *)
(* any order.                                                              *)
(*                                                                         *)
(* A chain id is an epoch and a token that is unique among the chains the  *)
(* queue owns (a descriptor of the chain, in SplitQueue).  Of a request    *)
(* the model keeps its id; of a response the request id in it and, for the *)
(* properties alone, the request it was written for.  What else it says is *)
(* chosen when it is decoded.  Discovery decides which operation may start *)
(* and never whether one may, so it is left out.  The caller makes the     *)
(* client on a queue it may have published on before.                      *)
(***************************************************************************)
EXTENDS Integers, Sequences, FiniteSets

CONSTANTS Chains,        \* the caller's chains
          ChainTokens,   \* ChainId::token
          Prior,         \* those it may publish before it makes the client
          MaxInflight,   \* GuestConfig::max_inflight
          IdModulus,     \* 2^64: request ids wrap at this value
          MaxEpoch,      \* bound on the resets explored
          Failures,      \* the failures explored, among AllFailures
          Nothing        \* Option::None

ASSUME InflightAssumption == MaxInflight \in Nat \ {0}
AllFailures == {"start", "drop", "response"}

ASSUME TokensAssumption == /\ IsFiniteSet(Chains) /\ IsFiniteSet(ChainTokens)
                           /\ Cardinality(Chains) <= Cardinality(ChainTokens)
ASSUME FailuresAssumption == Failures \subseteq AllFailures
ASSUME IdAssumption == IdModulus \in Nat /\ IdModulus > MaxInflight + 1

VARIABLES
  free, pending, held, done, epoch,  \* the queue, as in CommandQueue
  ready,          \* QueueState::ready
  constructed,    \* whether the caller has made the client
  slots, nextRequestId,
  health,         \* ClientHealth
  unexpected,     \* the chain of an unexpected completion, or Nothing
  pendings,       \* Pending tokens in the caller's hands
  caller,         \* chains in the caller's hands
  request,        \* the request id in each published chain, or 0
  token,          \* the token of each published chain, or Nothing
  response,       \* the device-writable bytes of each chain
  tokens,         \* device chains the device holds: epoch and chain
  answered,       \* those whose response has been written
  full            \* the chains whose used length covers a response

Queue == INSTANCE CommandQueue

queueVars == <<free, pending, held, done, epoch>>
clientVars == <<slots, nextRequestId, health, unexpected, pendings>>
chainVars == <<caller, request, token, full>>
deviceVars == <<response, tokens, answered>>
vars == <<queueVars, ready, constructed, clientVars, chainVars, deviceVars>>

Indices == 1..MaxInflight
RequestIds == 1..(IdModulus - 1)
Malformed == [id |-> 0, for |-> <<0, 0>>]

Vacant == [state |-> "Vacant"]
InFlight(id, chainId) == [state |-> "InFlight", id |-> id, chainId |-> chainId]
Completed(id, c) == [state |-> "Completed", id |-> id, chain |-> c]
Recovered(c) == [state |-> "Recovered", chain |-> c]

Init ==
    /\ Queue!Init
    /\ ready = TRUE /\ constructed = FALSE
    /\ slots = [i \in Indices |-> Vacant]
    /\ nextRequestId = 1 /\ health = "Running"
    /\ unexpected = Nothing
    /\ pendings = {} /\ caller = Chains
    /\ request = [c \in Chains |-> 0] /\ token = [c \in Chains |-> Nothing]
    /\ response = [c \in Chains |-> Malformed]
    /\ tokens = {} /\ answered = {} /\ full = {}
----------------------------------------------------------------------------
ChainId(c) == <<epoch, token[c]>>

\* publish: the queue takes the chain and names it.
Publish(c, id) ==
    /\ c \in caller
    /\ Queue!Publish /\ free' = free \ {c}
    /\ request' = [request EXCEPT ![c] = id]
    /\ \E n \in ChainTokens : /\ \A d \in Chains : token[d] # n
                             /\ token' = [token EXCEPT ![c] = n]
    /\ caller' = caller \ {c}
    /\ UNCHANGED full

\* The queue no longer owns the chains S.
Unpublish(S) ==
    /\ request' = [c \in Chains |-> IF c \in S THEN 0 ELSE request[c]]
    /\ token' = [c \in Chains |-> IF c \in S THEN Nothing ELSE token[c]]

PublishBefore(c) ==
    /\ ~constructed
    /\ c \in Prior
    /\ Publish(c, 0)
    /\ UNCHANGED <<ready, constructed, clientVars, deviceVars>>

\* GuestClient::new takes the queue.
New ==
    /\ ~constructed
    /\ constructed' = TRUE
    /\ UNCHANGED <<queueVars, ready, clientVars, chainVars, deviceVars>>
----------------------------------------------------------------------------
(* Starting a request.                                                     *)

First(P(_)) == CHOOSE i \in Indices : P(i) /\ \A j \in 1..(i - 1) : ~P(j)
IsVacant_NotInFlight(i) == slots[i].state # "InFlight"
IsVacant(i) == slots[i].state = "Vacant"
IsRecovered(i) == slots[i].state = "Recovered"

Successor(id) == IF id + 1 = IdModulus THEN 1 ELSE id + 1

TrackedId_None(id) == FALSE
TrackedId(id) == \E i \in Indices : /\ slots[i].state \in {"InFlight", "Completed"}
                                    /\ slots[i].id = id

\* The candidates of allocate_request_id, in the order it tries them.
Candidates[k \in 0..MaxInflight + 1] ==
    IF k = 0 THEN nextRequestId ELSE Successor(Candidates[k - 1])
Usable(k) == ~TrackedId(Candidates[k]) /\ \A j \in 0..(k - 1) : TrackedId(Candidates[j])

\* start_frame up to the publication; the id is the k-th candidate.
Starting(c, k) ==
    /\ constructed
    /\ c \in caller
    /\ health = "Running"
    /\ \E i \in Indices : IsVacant(i)
    /\ Usable(k)
    /\ nextRequestId' = Candidates[k + 1]

Start(c, k) ==
    LET id == Candidates[k]
        slot == First(IsVacant)
    IN
    /\ Starting(c, k)
    /\ ready
    /\ Publish(c, id)
    /\ slots' = [slots EXCEPT ![slot] = InFlight(id, ChainId(c)')]
    /\ pendings' = pendings \cup
         {[slot |-> slot, id |-> id, epoch |-> epoch]}
    /\ UNCHANGED <<ready, constructed, health, unexpected, deviceVars>>

\* The source cannot be read, the chain cannot be written or the queue
\* refuses the chain: the caller has it back and the request id is spent.
StartFails(c, k) ==
    /\ "start" \in Failures
    /\ Starting(c, k)
    /\ UNCHANGED <<queueVars, ready, constructed, slots, health, unexpected,
                   pendings, chainVars, deviceVars>>
----------------------------------------------------------------------------
(* Completions.                                                            *)

\* The slots that wait for a used chain.
Waiting_AnyEpoch(chainId) ==
    {i \in Indices : slots[i].state = "InFlight" /\ slots[i].chainId[2] = chainId[2]}
Waiting(chainId) ==
    {i \in Indices : slots[i].state = "InFlight" /\ slots[i].chainId = chainId}

\* The slot in which pump finds the id of the chain it pops.
Awaited == LET waiting == Waiting(ChainId(Head(done))) IN
           {i \in waiting : \A j \in waiting : i <= j}

Polling == constructed /\ health = "Running"

Pump ==
    /\ Polling
    /\ Queue!Collect
    /\ \/ /\ Awaited = {}
          /\ unexpected' = Head(done)
          /\ health' = "NeedsReset"
          /\ UNCHANGED slots
       \/ \E i \in Awaited :
            /\ slots' = [slots EXCEPT ![i] = Completed(slots[i].id, Head(done))]
            /\ UNCHANGED <<unexpected, health>>
    /\ Unpublish({Head(done)})
    /\ UNCHANGED <<ready, constructed, nextRequestId, pendings, caller,
                   full, deviceVars>>

\* validate_response: the used length, then the request id.
ValidResponse(p, c) == c \in full /\ response[c].id = p.id

\* decode_completion: an invalid response, one that reports a lost device,
\* or any other.
Decode(p, c) == \/ health' = "NeedsReset"
                \/ ValidResponse(p, c) /\ UNCHANGED health

\* poll returns Ready: the slot is vacant and the caller has the chain.
Ready(p, c) ==
    /\ slots' = [slots EXCEPT ![p.slot] = Vacant]
    /\ pendings' = pendings \ {p}
    /\ caller' = caller \cup {c}
    /\ full' = full \ {c}
    /\ Unpublish({c})
    /\ Decode(p, c)
    /\ UNCHANGED <<ready, constructed, nextRequestId, unexpected, deviceVars>>

Matches(p) == /\ slots[p.slot].state \in {"InFlight", "Completed"}
              /\ slots[p.slot].id = p.id

\* poll with a token of an earlier epoch, or of no slot: Stale.
PollStale(p) ==
    /\ p.epoch # epoch \/ (Polling /\ ~Matches(p))
    /\ pendings' = pendings \ {p}
    /\ UNCHANGED <<queueVars, ready, constructed, slots, nextRequestId, health,
                   unexpected, chainVars, deviceVars>>

\* poll of a request whose chain was popped earlier.
PollCompleted(p) ==
    /\ Polling /\ p.epoch = epoch /\ Matches(p)
    /\ slots[p.slot].state = "Completed"
    /\ Ready(p, slots[p.slot].chain)
    /\ UNCHANGED queueVars

\* poll of a request in flight pumps once; the chain may be its own.
PollInFlight_OwnChainOnly(p) ==
    /\ Polling /\ p.epoch = epoch /\ Matches(p)
    /\ slots[p.slot].state = "InFlight"
    /\ done # <<>>
    /\ p.slot \in Awaited /\ Queue!Collect /\ Ready(p, Head(done))
PollInFlight(p) ==
    /\ Polling /\ p.epoch = epoch /\ Matches(p)
    /\ slots[p.slot].state = "InFlight"
    /\ done # <<>>
    /\ \/ p.slot \notin Awaited /\ Pump
       \/ p.slot \in Awaited /\ Queue!Collect /\ Ready(p, Head(done))

\* A Pending has no destructor.
DropPending(p) ==
    /\ "drop" \in Failures
    /\ pendings' = pendings \ {p}
    /\ UNCHANGED <<queueVars, ready, constructed, slots, nextRequestId, health,
                   unexpected, chainVars, deviceVars>>
----------------------------------------------------------------------------
(* Recovery.                                                               *)

AfterReset_AllVacant(slot) == Vacant
AfterReset(slot) ==
    IF slot.state \in {"Completed", "Recovered"} THEN Recovered(slot.chain) ELSE Vacant

\* A queue that starts a new epoch owns no chain and is not ready; what was
\* written to its chains no longer counts.
Emptied == /\ ready' = FALSE
           /\ Unpublish(Chains)
           /\ full' = full \ Queue!InQueue
           /\ answered' = {}

\* reset; the caller receives the chains the queue reclaims.
Reset(next) ==
    /\ constructed
    /\ next > epoch
    /\ epoch' = next /\ Queue!Reclaim /\ Emptied
    /\ slots' = [i \in Indices |-> AfterReset(slots[i])]
    /\ nextRequestId' = 1 /\ health' = "Running"
    /\ caller' = caller \cup Queue!InQueue
    /\ UNCHANGED <<constructed, unexpected, pendings, response, tokens>>

\* reconfigure_queue: configure, then set_ready.
ReconfigureQueue ==
    /\ constructed
    /\ ~ready
    /\ ready' = TRUE
    /\ UNCHANGED <<queueVars, constructed, clientVars, chainVars, deviceVars>>

PopRecoveredCompletion ==
    LET i == First(IsRecovered) IN
    /\ \E j \in Indices : IsRecovered(j)
    /\ slots' = [slots EXCEPT ![i] = Vacant]
    /\ caller' = caller \cup {slots[i].chain}
    /\ full' = full \ {slots[i].chain}
    /\ UNCHANGED <<queueVars, ready, constructed, nextRequestId, health,
                   unexpected, pendings, request, token, deviceVars>>

TakeUnexpectedCompletion ==
    /\ unexpected # Nothing
    /\ unexpected' = Nothing
    /\ caller' = caller \cup {unexpected}
    /\ full' = full \ {unexpected}
    /\ UNCHANGED <<queueVars, ready, constructed, slots, nextRequestId, health,
                   pendings, request, token, deviceVars>>
----------------------------------------------------------------------------
(* The device: external but for the queue's methods and the sink's check.  *)

DevicePops ==
    /\ Queue!Take
    /\ tokens' = tokens \cup {<<epoch, Head(pending)>>}
    /\ UNCHANGED <<ready, constructed, clientVars, chainVars, response, answered>>

\* SplitSink::check_epoch: a write after a reset is refused.
Writable_AnyEpoch(t) == TRUE
Writable(t) == t[1] = epoch

\* The device reads the request and writes a response, which may be malformed.
DeviceWrites(t) ==
    /\ Writable(t)
    /\ t \notin answered
    /\ LET id == request[t[2]] IN
       \/ response' = [response EXCEPT ![t[2]] = [id |-> id, for |-> <<t[1], id>>]]
       \/ /\ "response" \in Failures
          /\ response' = [response EXCEPT ![t[2]] = Malformed]
    /\ answered' = answered \cup {t}
    /\ UNCHANGED <<queueVars, ready, constructed, clientVars, chainVars, tokens>>

\* A device that could not write a response completes with length zero.
DeviceCompletes(t) ==
    /\ t[1] = epoch
    /\ Queue!Finish(t[2])
    /\ full' = IF t \in answered THEN full \cup {t[2]} ELSE full
    /\ tokens' = tokens \ {t} /\ answered' = answered \ {t}
    /\ UNCHANGED <<ready, constructed, clientVars, caller, request, token, response>>

\* After a reset, complete returns ResetRace and the token is gone.
DeviceForfeits(t) ==
    /\ t[1] # epoch
    /\ tokens' = tokens \ {t} /\ answered' = answered \ {t}
    /\ UNCHANGED <<queueVars, ready, constructed, clientVars, chainVars, response>>

\* DeviceQueue::reset, behind the client's back.
DeviceResets(next) ==
    /\ constructed
    /\ next > epoch
    /\ epoch' = next /\ Queue!Abandon /\ Emptied
    /\ UNCHANGED <<constructed, clientVars, caller, response, tokens>>
----------------------------------------------------------------------------
Poll(p) == PollStale(p) \/ PollCompleted(p) \/ PollInFlight(p)

Next ==
    \/ New
    \/ \E c \in Chains : PublishBefore(c)
    \/ \E c \in Chains, k \in 0..MaxInflight :
          Start(c, k) \/ StartFails(c, k)
    \/ Pump
    \/ \E p \in pendings : Poll(p) \/ DropPending(p)
    \/ \E next \in 1..MaxEpoch : Reset(next) \/ DeviceResets(next)
    \/ ReconfigureQueue
    \/ PopRecoveredCompletion
    \/ TakeUnexpectedCompletion
    \/ DevicePops
    \/ \E t \in tokens : DeviceWrites(t) \/ DeviceCompletes(t) \/ DeviceForfeits(t)

\* The caller polls what it holds, and the device serves every chain.
Spec ==
    /\ Init /\ [][Next]_vars
    /\ \A i \in Indices : WF_vars(\E p \in pendings : p.slot = i /\ Poll(p))
    /\ WF_vars(DevicePops)
    /\ \A c \in Chains : WF_vars(\E t \in tokens : t[2] = c /\ DeviceCompletes(t))
----------------------------------------------------------------------------
(* Properties.                                                             *)

Tracked == {i \in Indices : slots[i].state \in {"InFlight", "Completed"}}
Retained == {i \in Indices : slots[i].state \in {"Completed", "Recovered"}}

\* No two requests in progress share an id, also when the counter has wrapped
\* or a start failed, and a free slot always finds an id: start_frame never
\* returns RequestIdExhausted.
RequestIdsAreUnambiguous ==
    /\ \A i, j \in Tracked : slots[i].id = slots[j].id => i = j
    /\ (\E i \in Indices : IsVacant(i)) => \E k \in 0..MaxInflight : Usable(k)

\* The slots and the queue agree on what is in flight: a chain the client
\* published is awaited by exactly one slot, under its request id, and every
\* slot of this epoch awaits a chain the queue has.  A queue reset by the
\* device leaves slots of an earlier epoch, which no later completion reaches.
SlotsMatchTheQueue ==
    /\ \A c \in Queue!InQueue : request[c] # 0 =>
          /\ Cardinality(Waiting(ChainId(c))) = 1
          /\ \A i \in Waiting(ChainId(c)) : slots[i].id = request[c]
    /\ \A i \in Indices : slots[i].state = "InFlight" /\ slots[i].chainId[1] = epoch =>
          \E c \in Queue!InQueue : ChainId(c) = slots[i].chainId

\* A chain that left the queue is with the caller, kept for it in a completed
\* or recovered slot, or kept as the unexpected completion: a reset loses
\* none, and none is handed out twice.
ChainsAreAccountedFor ==
    LET kept == {slots[i].chain : i \in Retained}
        stray == {unexpected} \ {Nothing} IN
    /\ free = caller \cup kept \cup stray
    /\ caller \cap (kept \cup stray) = {} /\ kept \cap stray = {}
    /\ \A i, j \in Retained : slots[i].chain = slots[j].chain => i = j

\* The chains of a request that its completion has reached.
AnswerOf(p) ==
    IF slots[p.slot].state = "Completed" THEN {slots[p.slot].chain}
    ELSE {c \in {done[i] : i \in DOMAIN done} : ChainId(c) = slots[p.slot].chainId}

\* poll takes a response only for the request it was written for.  Ids start
\* again at 1 with every epoch, and old responses stay in the chains' memory:
\* the used length and the check of the epoch tell old from new.
AnswersAreFresh ==
    \A p \in pendings : p.epoch = epoch /\ Matches(p) =>
        \A c \in AnswerOf(p) :
            ValidResponse(p, c) => response[c].for = <<p.epoch, p.id>>

\* A Pending of the current epoch is never stale: until it is polled to the
\* end its slot is its own.
CurrentPendingsMatch ==
    \A p \in pendings : p.epoch = epoch =>
        Matches(p) /\ \A q \in pendings : q.epoch = epoch /\ q.slot = p.slot => q = p

\* A request the caller goes on polling is answered, or found stale, or the
\* client asks for a reset.
PolledRequestsSettle ==
    \A i \in Indices :
        (\E p \in pendings : p.slot = i) ~>
            (health = "NeedsReset" \/ ~\E p \in pendings : p.slot = i)
=============================================================================
