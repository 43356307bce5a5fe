----------------------------- MODULE DeviceState -----------------------------
(***************************************************************************)
(* The typed object graph of one device (device/src/state.rs): contexts,   *)
(* their buffers, programs and queues, and the events that retain them     *)
(* while a submission is outstanding.                                      *)
(*                                                                         *)
(* An object is named by its table slot: that a removed name never         *)
(* resolves again is what ObjectTable shows of the tables.  A method that  *)
(* returns an error and changes nothing is a step that cannot be taken.    *)
(* Running out of memory, a creation the provider refuses and the checks   *)
(* of an argument alone (an empty artifact, say) are such errors.          *)
(***************************************************************************)
EXTENDS Naturals, Sequences, FiniteSets

CONSTANTS Contexts, Buffers, Programs, Queues, Events,  \* the objects
          MaxContexts,     \* DeviceLimits::max_contexts
          ChildLimit,      \* max_buffers_per_context and its siblings
          MaxBindings,     \* max_bindings_per_submission
          MaxBufferBytes,  \* max_buffer_bytes
          Policy,          \* ResourcePolicy: aggregate bytes of either kind
          MaxReferences,   \* u32::MAX
          Sizes,           \* the byte sizes that occur
          MaxSequence,     \* bound on the length of the sequences explored
          NoContext

ChildKinds == {"buffer", "program", "queue", "event"}
BulkKinds == {"buffer", "program"}
Children == Buffers \cup Programs \cup Queues \cup Events
Objects == Contexts \cup Children
Bulk == Buffers \cup Programs
Countable == Queues \cup Programs \cup Buffers

ASSUME ObjectsAssumption ==
    /\ IsFiniteSet(Objects)
    /\ Contexts \cap Children = {} /\ NoContext \notin Contexts
    /\ Buffers \cap (Programs \cup Queues \cup Events) = {}
    /\ Programs \cap (Queues \cup Events) = {} /\ Queues \cap Events = {}
ASSUME LimitsAssumption ==
    /\ MaxContexts \in Nat /\ MaxBindings \in Nat /\ MaxBufferBytes \in Nat
    /\ MaxReferences \in Nat /\ MaxSequence \in Nat /\ Sizes \subseteq Nat \ {0}
    /\ ChildLimit \in [ChildKinds -> Nat] /\ Policy \in [BulkKinds -> Nat]

VARIABLES
  live,       \* the objects with a record in a table
  releasing,  \* those whose provider handle is out for release
  parent,     \* context_id of a record
  children,   \* ContextRecord::children
  inFlight,   \* in_flight of a queue, program or buffer
  charge,     \* allocation_bytes or resident_bytes of a record
  retained,   \* RetainedBytes
  uses,       \* the queue, programs and buffers of an event, in one sequence
  admitting   \* the event whose submission is with the provider

graphVars == <<live, releasing, parent, children, inFlight, charge, retained,
               uses, admitting>>

KindOf(x) == CASE x \in Buffers -> "buffer"
               [] x \in Programs -> "program"
               [] x \in Queues -> "queue"
               [] OTHER -> "event"

\* A record whose handle is in place: get and resource both succeed.
Usable(x) == x \in live \ releasing

\* DeviceState::new.
GraphInit ==
    /\ live = {} /\ releasing = {} /\ admitting = {}
    /\ parent = [x \in Children |-> NoContext]
    /\ children = [k \in Contexts \X ChildKinds |-> 0]
    /\ inFlight = [x \in Countable |-> 0]
    /\ charge = [x \in Bulk |-> 0]
    /\ retained = [k \in BulkKinds |-> 0]
    /\ uses = [e \in Events |-> <<>>]

\* The same, put in the place of a graph that is being given up.
RenewGraph ==
    /\ live' = {} /\ releasing' = {} /\ admitting' = {}
    /\ parent' = [x \in Children |-> NoContext]
    /\ children' = [k \in Contexts \X ChildKinds |-> 0]
    /\ inFlight' = [x \in Countable |-> 0]
    /\ charge' = [x \in Bulk |-> 0]
    /\ retained' = [k \in BulkKinds |-> 0]
    /\ uses' = [e \in Events |-> <<>>]
----------------------------------------------------------------------------
(* Creation.                                                               *)

\* check_child_admission.
CheckChildAdmission(c, k) == Usable(c) /\ children[<<c, k>>] < ChildLimit[k]

\* A new record of context c, and the count of it in the context's record.
Attach(x, c) ==
    /\ parent' = [parent EXCEPT ![x] = c]
    /\ children' = [children EXCEPT ![<<c, KindOf(x)>>] = @ + 1]

CreateContext(c) ==
    /\ c \in Contexts \ live
    /\ Cardinality(live \cap Contexts) < MaxContexts
    /\ live' = live \cup {c}
    /\ UNCHANGED <<releasing, parent, children, inFlight, charge, retained,
                   uses, admitting>>

\* The bytes charged for a buffer are the provider's, not the guest's.
BufferCharge_Requested(bytes, allocated) == bytes
BufferCharge(bytes, allocated) == allocated

\* create_buffer_with: bytes as requested, allocated as the provider reports.
CreateBuffer(c, b, bytes, allocated) ==
    /\ b \in Buffers \ live
    /\ bytes <= MaxBufferBytes
    /\ retained["buffer"] + bytes <= Policy["buffer"]
    /\ CheckChildAdmission(c, "buffer")
    /\ live' = live \cup {b}
    /\ Attach(b, c)
    /\ charge' = [charge EXCEPT ![b] = allocated]
    /\ retained' = [retained EXCEPT
                       !["buffer"] = @ + BufferCharge(bytes, allocated)]
    /\ UNCHANGED <<releasing, inFlight, uses, admitting>>

\* BufferCreateOutcome::CleanupRequired: the record exists, the ID is not for
\* the guest.  matches: the provider describes the buffer that was asked for.
CleanupRequired(allocated, matches) ==
    \/ ~matches
    \/ retained["buffer"] + allocated > Policy["buffer"]

CreateProgram(c, p, resident) ==
    /\ p \in Programs \ live
    /\ retained["program"] + resident <= Policy["program"]
    /\ CheckChildAdmission(c, "program")
    /\ live' = live \cup {p}
    /\ Attach(p, c)
    /\ charge' = [charge EXCEPT ![p] = resident]
    /\ retained' = [retained EXCEPT !["program"] = @ + resident]
    /\ UNCHANGED <<releasing, inFlight, uses, admitting>>

CreateQueue(c, q) ==
    /\ q \in Queues \ live
    /\ CheckChildAdmission(c, "queue")
    /\ live' = live \cup {q}
    /\ Attach(q, c)
    /\ UNCHANGED <<releasing, inFlight, charge, retained, uses, admitting>>
----------------------------------------------------------------------------
(* Submission.  References are taken before the provider is called.        *)

\* How often a submission names x: a buffer may be bound to several slots.
Count(u, x) == Cardinality({i \in DOMAIN u : u[i] = x})

\* validate_submission_sequence.
Validates(u, c) == \A i \in DOMAIN u : Usable(u[i]) /\ parent[u[i]] = c

ReferencesTaken(u) == [x \in Countable |-> inFlight[x] + Count(u, x)]
ReferencesDropped_OncePerObject(u) ==
    [x \in Countable |-> IF Count(u, x) > 0 THEN inFlight[x] - 1
                                            ELSE inFlight[x]]
ReferencesDropped(u) == [x \in Countable |-> inFlight[x] - Count(u, x)]

\* create_event_with (one program, bounded bindings) and
\* create_event_sequence_with, up to the call of the provider.
AdmitEvent(e, q, programs, buffers, sequence) ==
    LET u == <<q>> \o programs \o buffers
        c == parent[q] IN
    /\ e \in Events \ live
    /\ Len(programs) > 0 /\ Len(buffers) > 0
    /\ sequence \/ (Len(programs) = 1 /\ Len(buffers) <= MaxBindings)
    /\ q \in live /\ Validates(u, c)
    /\ children[<<c, "event">>] < ChildLimit["event"]
    /\ \A x \in Countable : inFlight[x] + Count(u, x) <= MaxReferences
    /\ admitting' = {e}
    /\ uses' = [uses EXCEPT ![e] = u]
    /\ inFlight' = ReferencesTaken(u)
    /\ Attach(e, c)
    /\ UNCHANGED <<live, releasing, charge, retained>>

\* The provider returned an event.
PublishEvent(e) ==
    /\ e \in admitting
    /\ admitting' = {}
    /\ live' = live \cup {e}
    /\ UNCHANGED <<releasing, parent, children, inFlight, charge, retained, uses>>

\* decrement_event_references.
DropReferences(e) ==
    /\ inFlight' = ReferencesDropped(uses[e])
    /\ uses' = [uses EXCEPT ![e] = <<>>]
    /\ children' = [children EXCEPT ![<<parent[e], "event">>] = @ - 1]
    /\ parent' = [parent EXCEPT ![e] = NoContext]

\* The provider rejected the submission.
AbandonEvent(e) ==
    /\ e \in admitting
    /\ admitting' = {}
    /\ DropReferences(e)
    /\ UNCHANGED <<live, releasing, charge, retained>>
----------------------------------------------------------------------------
(* Release: the handle is taken, offered to the provider, and the record   *)
(* is removed or the handle restored.                                      *)

\* ChildCounts::is_empty.
NoChildren_QueuesForgotten(c) ==
    \A k \in ChildKinds \ {"queue"} : children[<<c, k>>] = 0
NoChildren(c) == \A k \in ChildKinds : children[<<c, k>>] = 0

Idle_Always(x) == TRUE
Idle(x) == x \in Countable => inFlight[x] = 0

CanRelease(x) == Usable(x) /\ (x \in Contexts => NoChildren(x)) /\ Idle(x)

BeginRelease(x) ==
    /\ CanRelease(x)
    /\ releasing' = releasing \cup {x}
    /\ UNCHANGED <<live, parent, children, inFlight, charge, retained, uses,
                   admitting>>

RestoreRelease(x) ==
    /\ x \in releasing
    /\ releasing' = releasing \ {x}
    /\ UNCHANGED <<live, parent, children, inFlight, charge, retained, uses,
                   admitting>>

\* The record is gone from its table.
RemoveRecord(x) ==
    /\ x \in releasing
    /\ live' = live \ {x}
    /\ releasing' = releasing \ {x}
    /\ UNCHANGED admitting

CommitContext(c) ==
    /\ c \in Contexts
    /\ RemoveRecord(c)
    /\ UNCHANGED <<parent, children, inFlight, charge, retained, uses>>

\* The context's count of x goes down with it.
Detach_Leaked(x) ==
    /\ UNCHANGED children
    /\ parent' = [parent EXCEPT ![x] = NoContext]
Detach(x) ==
    /\ children' = [children EXCEPT ![<<parent[x], KindOf(x)>>] = @ - 1]
    /\ parent' = [parent EXCEPT ![x] = NoContext]

CommitBulk(x) ==
    /\ x \in Bulk
    /\ RemoveRecord(x)
    /\ Detach(x)
    /\ charge' = [charge EXCEPT ![x] = 0]
    /\ retained' = [retained EXCEPT ![KindOf(x)] = @ - charge[x]]
    /\ UNCHANGED <<inFlight, uses>>

CommitQueue(q) ==
    /\ q \in Queues
    /\ RemoveRecord(q)
    /\ Detach(q)
    /\ UNCHANGED <<inFlight, charge, retained, uses>>

\* commit_event_release checks the submission again before it removes the
\* record.
CommitEvent(e) ==
    /\ e \in Events
    /\ Validates(uses[e], parent[e])
    /\ RemoveRecord(e)
    /\ DropReferences(e)
    /\ UNCHANGED <<charge, retained>>

CommitRelease(x) ==
    CommitContext(x) \/ CommitBulk(x) \/ CommitQueue(x) \/ CommitEvent(x)
----------------------------------------------------------------------------
SequencesOver(S) == UNION {[1..n -> S] : n \in 1..MaxSequence}

\* Every method takes the state exclusively, so none runs during a submission.
GraphNext ==
    \/ /\ admitting = {}
       /\ \/ \E c \in Contexts : CreateContext(c)
          \/ \E c \in Contexts, b \in Buffers, bytes, allocated \in Sizes :
                CreateBuffer(c, b, bytes, allocated)
          \/ \E c \in Contexts, p \in Programs, resident \in Sizes :
                CreateProgram(c, p, resident)
          \/ \E c \in Contexts, q \in Queues : CreateQueue(c, q)
          \/ \E e \in Events, q \in Queues :
             \E programs \in SequencesOver(Programs),
                buffers \in SequencesOver(Buffers), sequence \in BOOLEAN :
                AdmitEvent(e, q, programs, buffers, sequence)
          \/ \E x \in Objects : BeginRelease(x)
          \/ \E x \in Objects : RestoreRelease(x)
          \/ \E x \in Objects : CommitRelease(x)
    \/ \E e \in Events : PublishEvent(e)
    \/ \E e \in Events : AbandonEvent(e)

GraphSpec == GraphInit /\ [][GraphNext]_graphVars
----------------------------------------------------------------------------
(* Properties.                                                             *)

\* The events that hold references: published, or with the provider.
Holders == (live \cap Events) \cup admitting

\* The occurrences of x in the submissions of the holders.
Uses(x) == UNION {{e} \X {i \in DOMAIN uses[e] : uses[e][i] = x} : e \in Holders}

\* The represented children of kind k of context c.
ChildrenOf(c, k) == {x \in (live \cap Children) \cup admitting :
                        KindOf(x) = k /\ parent[x] = c}

\* The bytes of kind k, one by one, that represented objects are charged for.
ChargedBytes(k) == UNION {{x} \X (1..charge[x]) :
                             x \in {y \in live \cap Bulk : KindOf(y) = k}}

\* in_flight of a queue, program or buffer is exactly the number of times the
\* outstanding submissions name it, one bound twice counted twice
\* (increment_event_references, decrement_event_references).
ReferencesAreExact == \A x \in Countable : inFlight[x] = Cardinality(Uses(x))

\* A context's ChildCounts are exactly the children in the tables, the event
\* being submitted included: none is leaked and none is forgotten.
ChildCountsAreExact ==
    \A c \in Contexts, k \in ChildKinds :
        children[<<c, k>>] = Cardinality(ChildrenOf(c, k))

\* RetainedBytes is exactly what the provider retains for the objects still
\* represented, live or releasing (retained_bytes).
RetainedIsExact ==
    \A k \in BulkKinds : retained[k] = Cardinality(ChargedBytes(k))

\* The queue, programs and buffers of an outstanding submission keep their
\* records and their provider handles, all in the event's context.  So an
\* execution never outlives what it runs on, and commit_event_release never
\* meets an accounting contradiction.
SubmissionsKeepTheirResources ==
    \A e \in Holders : Validates(uses[e], parent[e])

\* A context keeps its record and its handle while any child is represented
\* (begin_context_release), so the lookup of the parent in a commit succeeds.
ParentsOutliveChildren ==
    \A x \in (live \cap Children) \cup admitting : Usable(parent[x])
=============================================================================
