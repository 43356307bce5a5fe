-------------------------- MODULE CommandProcessor --------------------------
(***************************************************************************)
(* The command engine (device/src/engine.rs) over its object graph and an  *)
(* accelerator backend.  The engine is one sequential process: it takes a  *)
(* decoded command, calls the backend and writes a response, or makes a    *)
(* reset pass.  Every call of the backend that can change what the backend *)
(* holds ends a step, so that executions finish between any two of them.   *)
(*                                                                         *)
(* The backend is external: which handles it holds, how far its executions *)
(* are, and any outcome its trait allows for a call.  A command that ends  *)
(* in an error and changes nothing is a step that cannot be taken.         *)
(***************************************************************************)
EXTENDS DeviceState

CONSTANTS CanCancel,   \* Capabilities::EVENT_CANCELLATION
          Namespaces,  \* the namespaces resets may be given
          NoObject,    \* no object is being worked on
          NoReport     \* last_reset is None

Tables == ChildKinds \cup {"context"}
TableOf(x) == IF x \in Contexts THEN "context" ELSE KindOf(x)
OfTable(S, t) == {x \in S : TableOf(x) = t}

\* The order of teardown: children before the context, events first.
Phases == <<"event", "queue", "program", "buffer", "context">>

ASSUME ProcessorAssumption == CanCancel \in BOOLEAN /\ NoObject \notin Objects

VARIABLES
  health,            \* DeviceHealth
  namespace,         \* of the current object tables
  doing, subject,    \* the backend call in progress, and on which object
  quarantined,       \* objects whose release was indeterminate, by table
  quarantinedBytes,  \* and their bytes
  lastReset,         \* the report kept while discard is required
  pass,              \* the reset pass: what is left, and its ResetProgress
  native,            \* external: the handles the backend holds
  eventState,        \* external: the state of its executions
  known              \* the objects the written responses told the guest of

engineVars == <<health, namespace, doing, subject, quarantined,
                quarantinedBytes, lastReset, pass>>
backendVars == <<native, eventState>>
vars == <<graphVars, engineVars, backendVars, known>>

EventStates == {"None", "Pending", "Complete", "Failed", "DeviceLost", "Cancelled"}

NoObjects == [t \in Tables |-> 0]
NoBytes == [k \in BulkKinds |-> 0]
ResourceCounts == [t \in Tables |-> Cardinality(OfTable(live, t))]
Sum(f, g) == [x \in DOMAIN f |-> f[x] + g[x]]

NoPass == [namespace |-> 0, phase |-> 0, todo |-> {}, reusable |-> TRUE,
           callable |-> TRUE, released |-> NoObjects,
           releasedBytes |-> NoBytes, owned |-> NoObjects, ownedBytes |-> NoBytes]

\* CommandProcessor::new.
Init ==
    /\ GraphInit
    /\ health = "Running" /\ namespace \in Namespaces
    /\ doing = "idle" /\ subject = NoObject
    /\ quarantined = NoObjects /\ quarantinedBytes = NoBytes
    /\ lastReset = NoReport /\ pass = NoPass
    /\ native = {} /\ eventState = [e \in Events |-> "None"]
    /\ known = {}
----------------------------------------------------------------------------
(* Responses.                                                              *)

Admits == health = "Running"
Ready == doing = "idle" /\ Admits

\* complete_response, from a handler that leaves the health at h.  The write
\* may fail; then an unreported mutation requires a reset.
HealthAfter_Unchecked(h, mutated, written) == h
HealthAfter(h, mutated, written) ==
    IF ~written /\ mutated /\ h = "Running" THEN "NeedsReset" ELSE h

Respond(h, mutated, view) ==
    \E written \in BOOLEAN :
        /\ health' = HealthAfter(h, mutated, written)
        /\ known' = IF written THEN view ELSE known
        /\ doing' = "idle" /\ subject' = NoObject
        /\ UNCHANGED <<namespace, lastReset, pass>>

\* The backend works on x: no response yet.
Call(what, x) ==
    /\ doing' = what /\ subject' = x
    /\ UNCHANGED <<health, namespace, quarantined, quarantinedBytes, lastReset,
                   pass, known>>

\* A call the backend answers with DeviceLost, having changed nothing.
AnswersLost ==
    /\ Respond("Discard", FALSE, known)
    /\ UNCHANGED <<graphVars, quarantined, quarantinedBytes, backendVars>>

\* An object was created: its ID is the response.
Created(x) ==
    /\ native' = native \cup {x}
    /\ Respond(health, TRUE, known \cup {x})
    /\ UNCHANGED <<quarantined, quarantinedBytes, eventState>>
----------------------------------------------------------------------------
(* Commands that create.                                                   *)

HandleCreateContext(c) == Ready /\ CreateContext(c) /\ Created(c)

\* The ID of a buffer over budget, or not as asked for, is not reported.
AllocateBuffer(c, b, bytes, allocated, matches) ==
    /\ Ready
    /\ matches => bytes <= allocated
    /\ CreateBuffer(c, b, bytes, allocated)
    /\ IF CleanupRequired(allocated, matches)
       THEN /\ Call("cleanup", b)
            /\ native' = native \cup {b}
            /\ UNCHANGED eventState
       ELSE Created(b)

\* release_unpublished_buffer takes the handle back.
CleanUp(b) ==
    /\ doing = "cleanup" /\ subject = b
    /\ BeginRelease(b)
    /\ Call("cleaning", b)
    /\ UNCHANGED backendVars

LoadProgram(c, p, resident) == Ready /\ CreateProgram(c, p, resident) /\ Created(p)

HandleCreateQueue(c, q) == Ready /\ CreateQueue(c, q) /\ Created(q)

\* Any of the four creations, refused by a lost backend.
CreationLost == Ready /\ AnswersLost
----------------------------------------------------------------------------
(* Commands on buffers and events.                                         *)

\* validate_transfer: no transfer while a submission uses the buffer.
Transferable(b) == Usable(b) /\ inFlight[b] = 0

\* A write mutates whether or not it succeeds.
WriteBuffer(b) ==
    /\ Ready /\ Transferable(b)
    /\ \E h \in {"Running", "Discard"} : Respond(h, TRUE, known)
    /\ UNCHANGED <<graphVars, quarantined, quarantinedBytes, backendVars>>

ReadBuffer(b) == Ready /\ Transferable(b) /\ AnswersLost

Submit(e, q, p, buffers) ==
    /\ Ready
    /\ AdmitEvent(e, q, <<p>>, buffers, FALSE)
    /\ Call("submitting", e)
    /\ UNCHANGED backendVars

\* Accepted or Indeterminate: either way the event is live, and reported.
SubmitAccepted(e) ==
    /\ doing = "submitting" /\ subject = e
    /\ PublishEvent(e)
    /\ native' = native \cup {e}
    /\ eventState' = [eventState EXCEPT ![e] = "Pending"]
    /\ \E h \in {"Running", "Discard"} : Respond(h, TRUE, known \cup {e})
    /\ UNCHANGED <<quarantined, quarantinedBytes>>

SubmitRejected(e) ==
    /\ doing = "submitting" /\ subject = e
    /\ AbandonEvent(e)
    /\ \E h \in {"Running", "Discard"} : Respond(h, FALSE, known)
    /\ UNCHANGED <<quarantined, quarantinedBytes, backendVars>>

\* A poll that finds the execution, or the backend, lost.
PollEvent(e) == Ready /\ Usable(e) /\ AnswersLost

CancelEvent(e) ==
    /\ Ready /\ CanCancel /\ Usable(e)
    /\ \/ /\ eventState[e] = "Pending"
          /\ eventState' = [eventState EXCEPT ![e] = "Cancelled"]
          /\ Respond("Running", TRUE, known)
          /\ UNCHANGED <<graphVars, quarantined, quarantinedBytes, native>>
       \/ AnswersLost
----------------------------------------------------------------------------
(* Commands that release.                                                  *)

\* destroy_context, free_buffer, unload_program, destroy_queue.
HandleRelease(x) ==
    /\ Ready
    /\ x \notin Events
    /\ BeginRelease(x)
    /\ Call("releasing", x)
    /\ UNCHANGED backendVars

\* destroy_event polls first: a pending event is not released.
Releasable_Unpolled(e) == TRUE
Releasable(e) == eventState[e] \in {"Complete", "Failed", "Cancelled"}

DestroyEvent(e) ==
    /\ Ready
    /\ \/ /\ Releasable(e)
          /\ BeginRelease(e)
          /\ Call("releasing", e)
          /\ UNCHANGED backendVars
       \/ Usable(e) /\ AnswersLost

\* The handle is gone from the backend; its execution state with it.
Freed(x) ==
    /\ native' = native \ {x}
    /\ eventState' = [e \in Events |-> IF e = x THEN "None" ELSE eventState[e]]

\* The record is removed and its object and bytes counted as quarantined.
Quarantine_Dropped(x) == UNCHANGED <<quarantined, quarantinedBytes>>
Quarantine(x) ==
    /\ quarantined' = [quarantined EXCEPT ![TableOf(x)] = @ + 1]
    /\ quarantinedBytes' = [k \in BulkKinds |-> quarantinedBytes[k] +
                               IF TableOf(x) = k THEN charge[x] ELSE 0]

ReleaseSucceeds(x) ==
    /\ CommitRelease(x)
    /\ Freed(x)
    /\ UNCHANGED <<quarantined, quarantinedBytes>>

ReleaseRejected(x) ==
    /\ RestoreRelease(x)
    /\ UNCHANGED <<quarantined, quarantinedBytes, backendVars>>

\* The backend may or may not still hold the handle.
ReleaseIndeterminate(x) ==
    /\ CommitRelease(x)
    /\ Quarantine(x)
    /\ Freed(x) \/ UNCHANGED backendVars

\* The backend's answer to the release a command asked for.
FinishRelease(x) ==
    /\ doing = "releasing" /\ subject = x
    /\ \/ ReleaseSucceeds(x) /\ Respond("Running", TRUE, known \ {x})
       \/ /\ ReleaseRejected(x)
          /\ \E h \in {"Running", "Discard"} : Respond(h, FALSE, known)
       \/ ReleaseIndeterminate(x) /\ Respond("Discard", TRUE, known)

\* The backend's answer to the release of an unpublished buffer: anything
\* but success requires discard.
CleanupHealth_Kept == health
CleanupHealth == "Discard"
FinishCleanup(b) ==
    /\ doing = "cleaning" /\ subject = b
    /\ \/ ReleaseSucceeds(b) /\ Respond("Running", FALSE, known)
       \/ ReleaseRejected(b) /\ Respond(CleanupHealth, TRUE, known)
       \/ ReleaseIndeterminate(b) /\ Respond("Discard", TRUE, known)
----------------------------------------------------------------------------
(* Reset: one pass over the objects, children before parents.              *)

\* The pass that is to end with namespace n; what is owned when it begins is
\* kept for the properties only.
NewPass(n) ==
    [NoPass EXCEPT !.namespace = n, !.phase = 1, !.todo = live \cap Events,
                   !.owned = Sum(quarantined, ResourceCounts),
                   !.ownedBytes = Sum(quarantinedBytes, retained)]

\* reset refuses the current namespace.
StartReset(n) ==
    /\ doing = "idle" /\ health # "Discard"
    /\ n # namespace
    /\ health' = "NeedsReset"
    /\ doing' = "reset" /\ subject' = NoObject
    /\ pass' = NewPass(n)
    /\ lastReset' = NoReport
    /\ UNCHANGED <<graphVars, namespace, quarantined, quarantinedBytes,
                   backendVars, known>>

\* The loop goes on, with what the last object did to the progress.
Resume(progress) ==
    /\ pass' = progress
    /\ doing' = "reset" /\ subject' = NoObject
    /\ UNCHANGED <<health, namespace, quarantined, quarantinedBytes, lastReset,
                   known>>

After(x) == pass.todo \ {x}

\* x stays: the backend cannot be reused, nor called if it is lost.
Kept(x, lost) == [pass EXCEPT !.todo = After(x), !.reusable = FALSE,
                              !.callable = @ /\ ~lost]
Leave(x, lost) == Resume(Kept(x, lost)) /\ UNCHANGED <<graphVars, backendVars>>

TakeForReset(x) == BeginRelease(x) /\ Call("resetting", x) /\ UNCHANGED backendVars

\* What reset_event does with a poll of e; a failed one leaves e.
Polled(e, cancel) ==
    \/ Releasable(e) /\ TakeForReset(e)
    \/ /\ eventState[e] = "Pending"
       /\ IF cancel THEN Call("cancelling", e) /\ UNCHANGED <<graphVars, backendVars>>
                    ELSE Leave(e, FALSE)
    \/ \E lost \in BOOLEAN : Leave(e, lost)

ResetEvent(e) ==
    /\ doing = "reset" /\ pass.phase = 1 /\ pass.callable
    /\ e \in pass.todo /\ Usable(e)
    /\ Polled(e, CanCancel)

\* Cancelled, too late (Busy: poll again), or failed.
ResetCancel(e) ==
    /\ doing = "cancelling" /\ subject = e
    /\ \/ /\ eventState[e] = "Pending"
          /\ eventState' = [eventState EXCEPT ![e] = "Cancelled"]
          /\ BeginRelease(e)
          /\ Call("resetting", e)
          /\ UNCHANGED native
       \/ Call("repolling", e) /\ UNCHANGED <<graphVars, backendVars>>
       \/ \E lost \in BOOLEAN : Leave(e, lost)

ResetRepoll_CancelAgain(e) ==
    doing = "repolling" /\ subject = e /\ Polled(e, CanCancel)
ResetRepoll(e) == doing = "repolling" /\ subject = e /\ Polled(e, FALSE)

\* reset_queues, reset_programs, reset_buffers, reset_contexts.
ResetObject(x) ==
    /\ doing = "reset" /\ pass.phase \in 2..5
    /\ x \in pass.todo
    /\ IF CanRelease(x) THEN TakeForReset(x) ELSE Leave(x, FALSE)

\* The backend's answer.  After an indeterminate one the record stays as it
\* is, its handle taken, and the loop ends.
FinishResetOf(x) ==
    /\ doing = "resetting" /\ subject = x
    /\ \/ /\ ReleaseSucceeds(x)
          /\ Resume([pass EXCEPT
                !.todo = After(x),
                !.released[TableOf(x)] = @ + 1,
                !.releasedBytes = [k \in BulkKinds |-> @[k] +
                                      IF TableOf(x) = k THEN charge[x] ELSE 0]])
       \/ \E lost \in BOOLEAN : ReleaseRejected(x) /\ Resume(Kept(x, lost))
       \/ /\ Freed(x) \/ UNCHANGED backendVars
          /\ Resume([Kept(x, TRUE) EXCEPT !.todo = {}])
          /\ UNCHANGED graphVars

\* A table is done.  The loop over events also stops when the backend is
\* lost; the others are entered only while it can be called.
NextPhase ==
    LET next == IF pass.callable THEN pass.phase + 1 ELSE 6 IN
    /\ doing = "reset" /\ pass.phase <= 5
    /\ pass.todo = {} \/ (pass.phase = 1 /\ ~pass.callable)
    /\ Resume([pass EXCEPT
          !.phase = next,
          !.todo = IF next <= 5 THEN OfTable(live, Phases[next]) ELSE {}])
    /\ UNCHANGED <<graphVars, backendVars>>

\* discard_report, and the report of a pass.
Report_RecordsOnly(progress) ==
    [released |-> progress.released, releasedBytes |-> progress.releasedBytes,
     quarantined |-> ResourceCounts, quarantinedBytes |-> retained,
     owned |-> progress.owned, ownedBytes |-> progress.ownedBytes]
Report(progress) ==
    [released |-> progress.released, releasedBytes |-> progress.releasedBytes,
     quarantined |-> Sum(quarantined, ResourceCounts),
     quarantinedBytes |-> Sum(quarantinedBytes, retained),
     owned |-> progress.owned, ownedBytes |-> progress.ownedBytes]

Reusable_IfCallable == pass.callable
Reusable == /\ pass.reusable /\ live = {}
            /\ Sum(quarantined, ResourceCounts) = NoObjects
            /\ Sum(quarantinedBytes, retained) = NoBytes

\* Fresh tables and a running device, or a backend to be discarded.
FinishReset ==
    /\ doing = "reset" /\ pass.phase = 6
    /\ \/ /\ Reusable
          /\ health' = "Running" /\ namespace' = pass.namespace
          /\ lastReset' = NoReport /\ known' = {}
          /\ RenewGraph
       \/ /\ ~Reusable
          /\ health' = "Discard" /\ lastReset' = Report(pass)
          /\ UNCHANGED <<graphVars, namespace, known>>
    /\ doing' = "idle" /\ subject' = NoObject /\ pass' = NoPass
    /\ UNCHANGED <<quarantined, quarantinedBytes, backendVars>>

\* reset, once discard is required: the same report again and nothing else.
RepeatReset ==
    /\ doing = "idle" /\ health = "Discard"
    /\ lastReset' = IF lastReset # NoReport THEN lastReset ELSE
          Report([NoPass EXCEPT !.owned = Sum(quarantined, ResourceCounts),
                                !.ownedBytes = Sum(quarantinedBytes, retained)])
    /\ UNCHANGED <<graphVars, health, namespace, doing, subject, quarantined,
                   quarantinedBytes, pass, backendVars, known>>
----------------------------------------------------------------------------
\* The backend: an execution ends by itself.
BackendFinishes(e) ==
    /\ eventState[e] = "Pending"
    /\ \E s \in {"Complete", "Failed", "DeviceLost"} :
          eventState' = [eventState EXCEPT ![e] = s]
    /\ UNCHANGED <<graphVars, engineVars, native, known>>

Command ==
    \/ \E c \in Contexts : HandleCreateContext(c)
    \/ \E c \in Contexts, b \in Buffers, bytes, allocated \in Sizes,
          matches \in BOOLEAN : AllocateBuffer(c, b, bytes, allocated, matches)
    \/ \E c \in Contexts, p \in Programs, resident \in Sizes :
          LoadProgram(c, p, resident)
    \/ \E c \in Contexts, q \in Queues : HandleCreateQueue(c, q)
    \/ CreationLost
    \/ \E b \in Buffers : WriteBuffer(b) \/ ReadBuffer(b)
    \/ \E e \in Events, q \in Queues, p \in Programs :
          \E buffers \in SequencesOver(Buffers) : Submit(e, q, p, buffers)
    \/ \E e \in Events : PollEvent(e) \/ CancelEvent(e) \/ DestroyEvent(e)
    \/ \E x \in Objects : HandleRelease(x)

\* The engine returns from the backend, or goes on with its reset pass.
Continue ==
    \/ \E b \in Buffers : CleanUp(b) \/ FinishCleanup(b)
    \/ \E e \in Events : SubmitAccepted(e) \/ SubmitRejected(e)
    \/ \E x \in Objects : FinishRelease(x)
    \/ \E e \in Events : ResetEvent(e) \/ ResetCancel(e) \/ ResetRepoll(e)
    \/ \E x \in Objects : ResetObject(x) \/ FinishResetOf(x)
    \/ NextPhase \/ FinishReset

Next ==
    \/ Command
    \/ Continue
    \/ \E n \in Namespaces : StartReset(n)
    \/ RepeatReset
    \/ \E e \in Events : BackendFinishes(e)

\* The engine runs on one thread and no call of the backend waits for work
\* to finish, so what it has begun it goes on with.
Spec == Init /\ [][Next]_vars /\ WF_vars(Continue)
----------------------------------------------------------------------------
(* Properties.                                                             *)

\* Every step on the object graph is one of DeviceState's operations, and the
\* graph a finished reset gives up is already as good as new.
ImplementsGraph == GraphSpec

\* While the device runs, the objects the guest was told of and has not been
\* told are gone are exactly the objects in the tables: a mutation whose
\* response could not be written, an unpublished buffer and an indeterminate
\* release all take the device out of Running (complete_response,
\* release_unpublished_buffer, discard_response).
GuestViewIsExact == (doing = "idle" /\ health = "Running") => known = live

\* The backend holds no handle the engine has lost track of: a handle is
\* represented by a record or counted in quarantine, and every record whose
\* handle is in place has one.
HandlesAreAccountedFor ==
    /\ live \ releasing \subseteq native
    /\ \A t \in Tables :
          Cardinality(OfTable(native \ live, t)) <= quarantined[t]

\* The backend is never left executing on handles that were released or are
\* being released, in commands and in reset passes alike (destroy_event,
\* reset_event and the begin_*_release checks).
ExecutionsKeepTheirResources ==
    \A e \in Events : eventState[e] = "Pending" =>
        /\ e \in live
        /\ \A i \in DOMAIN uses[e] : uses[e][i] \in native \ releasing

\* Between commands the retained bytes stay within ResourcePolicy, although
\* the provider decides how much a buffer takes; only a device whose backend
\* must be discarded may hold more (create_buffer_with).
PolicyIsRespected ==
    (doing = "idle" /\ health # "Discard") =>
        \A k \in BulkKinds : retained[k] <= Policy[k]

\* A reset report accounts for every object and byte owned when the pass
\* began: released or quarantined, none twice (reset, discard_report).
ResetReportIsExact ==
    lastReset # NoReport =>
        /\ Sum(lastReset.released, lastReset.quarantined) = lastReset.owned
        /\ Sum(lastReset.releasedBytes, lastReset.quarantinedBytes)
               = lastReset.ownedBytes

\* A command or a reset pass that has begun returns, whatever the backend
\* answers and whether or not executions ever finish.
EngineReturns == (doing # "idle") ~> (doing = "idle")
=============================================================================
