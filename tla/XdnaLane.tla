------------------------------ MODULE XdnaLane ------------------------------
(***************************************************************************)
(* The dispatch lane of the XDNA backend (xdna/src/native.rs): a caller    *)
(* that submits and releases, a worker thread that keeps submitted  *)
(* jobs on the device and retires them in order, and a watchdog thread     *)
(* that declares the lane wedged when a step of the worker takes too long. *)
(*                                                                         *)
(* A step is what one thread does under one lock or with one atomic        *)
(* access.  The caller is one thread (the backend is neither Send nor      *)
(* Sync).  The HRX runtime is external: it assigns a timeline value to     *)
(* every flushed batch some time after the flush, signals the values in    *)
(* order, may hang, and may return an error, after which it no longer      *)
(* touches the job in question.  A call that is refused changes nothing    *)
(* and is not a step.  A job keeps its program as it keeps its buffers.    *)
(***************************************************************************)
EXTENDS Naturals, Sequences, FiniteSets, FiniteSetsExt

CONSTANTS Depth,       \* DEFAULT_RING_DEPTH
          Buffers,     \* the allocations of the caller
          Bindings,    \* the sets of allocations a submission may bind
          MaxFlushes,  \* bound on the batches that reach the device
          NoJob        \* the worker has no job in hand

ASSUME LaneAssumption == /\ Depth \in Nat \ {0} /\ MaxFlushes \in Nat
                         /\ Bindings \subseteq SUBSET Buffers \ {{}}

Slots == 1..Depth
Terminal == {"Complete", "Failed"}
Errors == {"DeviceLost", "Other"}

VARIABLES
  slots, error,                     \* EventSlot: state and failure detail
  gates,                            \* BufferInner::in_flight
  events, handles,                  \* the XdnaEvents and XdnaBuffers in existence
  queue, dispatched, stopping,      \* Ring
  poisoned, wedged,                 \* Lane
  armed, retiring, watchdog,        \* WatchdogState, and the watchdog thread
  at, job, target, result, toClear, \* the worker: where it is and its locals
  inFlight, lastTarget,
  flushed, assigned, signalled,     \* external: the timeline of the stream
  running,                          \* external: the batches the device may touch
  caller,                           \* where the caller is
  lost                              \* history: jobs given up with their event pending

callerVars == <<events, handles, caller>>
ringVars == <<queue, dispatched, stopping>>
slotVars == <<slots, error, gates>>
watchVars == <<wedged, armed, retiring, watchdog>>
workerVars == <<at, job, target, result, toClear, inFlight, lastTarget, lost>>
deviceVars == <<flushed, assigned, signalled, running>>
vars == <<callerVars, ringVars, slotVars, poisoned, watchVars, workerVars, deviceVars>>

\* XdnaAccelerator::initialize, with buffers allocated later.
Init ==
    /\ slots = [s \in Slots |-> "Free"] /\ error = [s \in Slots |-> "None"]
    /\ gates = [b \in Buffers |-> 0]
    /\ events = {} /\ handles = {} /\ caller = [pc |-> "ready"]
    /\ queue = <<>> /\ dispatched = 0 /\ stopping = FALSE
    /\ poisoned = FALSE /\ wedged = FALSE
    /\ armed = FALSE /\ retiring = FALSE /\ watchdog = "checks"
    /\ at = "fill" /\ job = NoJob /\ target = 0 /\ result = "Ok" /\ toClear = {}
    /\ inFlight = <<>> /\ lastTarget = 0 /\ lost = {}
    /\ flushed = 0 /\ assigned = 0 /\ signalled = 0 /\ running = {}

Elements(seq) == {seq[i] : i \in DOMAIN seq}

\* The jobs somebody keeps, and the allocations they and the caller keep.
KeptJobs_NotInFlight == Elements(queue) \cup ({job} \ {NoJob})
KeptJobs == Elements(queue) \cup {f.job : f \in Elements(inFlight)}
                \cup ({job} \ {NoJob})
Referenced == handles \cup UNION {j.buffers : j \in KeptJobs}
----------------------------------------------------------------------------
(* The caller.                                                             *)

Ready == caller.pc = "ready"
Continue(pc) == caller' = [pc |-> pc]

\* allocate_buffer waits for the stream, which a dispatch holds.  The model uses
\* an identity again when nobody refers to the allocation that had it.
AllocateBuffer(b) ==
    /\ Ready /\ ~poisoned
    /\ at \notin {"record", "spin"}
    /\ b \notin Referenced \cup UNION {w.buffers : w \in running \cup lost}
    /\ handles' = handles \cup {b}
    /\ gates' = [gates EXCEPT ![b] = 0]
    /\ UNCHANGED <<events, caller, slots, error, ringVars, poisoned, watchVars,
                   workerVars, deviceVars>>

\* The accepted jobs that may yet reach the device.
Unflushed == Len(queue) + (IF at \in {"dispatch", "record"} THEN 1 ELSE 0)

\* submit up to its acceptance boundary: the poison flag is read first.
Submit(buffers) ==
    /\ Ready /\ ~poisoned
    /\ buffers \subseteq handles
    /\ flushed + Unflushed < MaxFlushes
    /\ caller' = [pc |-> "admit", buffers |-> buffers]
    /\ UNCHANGED <<events, handles, slotVars, ringVars, poisoned, watchVars,
                   workerVars, deviceVars>>

FreeSlots == {s \in Slots : slots[s] = "Free"}

HasCapacity == Len(queue) + dispatched < Depth

GatesOpen_Some(buffers) == \E b \in buffers : gates[b] = 0
GatesOpen(buffers) == \A b \in buffers : gates[b] = 0

\* Under the ring lock: capacity, an event slot, and every gate, or Busy.
CanAdmit(buffers) == /\ HasCapacity
                     /\ FreeSlots # {}
                     /\ GatesOpen(buffers)

Admit ==
    LET s == Min(FreeSlots) IN
    /\ caller.pc = "admit"
    /\ CanAdmit(caller.buffers)
    /\ slots' = [slots EXCEPT ![s] = "Pending"]
    /\ gates' = [b \in Buffers |-> IF b \in caller.buffers THEN 1 ELSE gates[b]]
    /\ queue' = Append(queue, [slot |-> s, buffers |-> caller.buffers])
    /\ events' = events \cup {s}
    /\ Continue("notify")
    /\ UNCHANGED <<handles, error, dispatched, stopping, poisoned, watchVars,
                   workerVars, deviceVars>>

\* Busy: gates armed so far are opened again and the slot is given back.
Reject ==
    /\ caller.pc = "admit"
    /\ ~CanAdmit(caller.buffers)
    /\ Continue("ready")
    /\ UNCHANGED <<events, handles, slotVars, ringVars, poisoned, watchVars,
                   workerVars, deviceVars>>

\* A signal is lost on a worker that does not wait for it.
WakeWorker_Lost == UNCHANGED at
WakeWorker == at' = IF at = "asleep" THEN "idle" ELSE at

Notify ==
    /\ caller.pc = "notify"
    /\ WakeWorker
    /\ Continue("ready")
    /\ UNCHANGED <<events, handles, slotVars, ringVars, poisoned, watchVars, job,
                   target, result, toClear, inFlight, lastTarget, lost, deviceVars>>

\* Drop of an XdnaEvent, which destroy_event of a terminal event ends in.
Reclaims_Always(s) == TRUE
Reclaims(s) == slots[s] \in Terminal
DetailAfter(s) == IF Reclaims(s) THEN "None" ELSE error[s]

DropEvent(s) ==
    /\ caller.pc \in {"ready", "dropped"}
    /\ s \in events
    /\ events' = events \ {s}
    /\ slots' = [slots EXCEPT ![s] = IF Reclaims(s) THEN "Free" ELSE @]
    /\ error' = [error EXCEPT ![s] = DetailAfter(s)]
    /\ UNCHANGED <<handles, caller, gates, ringVars, poisoned, watchVars,
                   workerVars, deviceVars>>

\* Drop of an XdnaBuffer, which free_buffer of an idle buffer ends in.
DropBuffer(b) ==
    /\ caller.pc \in {"ready", "dropped"}
    /\ b \in handles
    /\ handles' = handles \ {b}
    /\ UNCHANGED <<events, caller, slotVars, ringVars, poisoned, watchVars,
                   workerVars, deviceVars>>
----------------------------------------------------------------------------
(* Drop of the backend.                                                    *)

DropBackend ==
    /\ Ready
    /\ stopping' = TRUE
    /\ Continue("wake worker")
    /\ UNCHANGED <<events, handles, slotVars, queue, dispatched, poisoned,
                   watchVars, workerVars, deviceVars>>

DropWakesWorker ==
    /\ caller.pc = "wake worker"
    /\ WakeWorker
    /\ Continue("stop watchdog")
    /\ UNCHANGED <<events, handles, slotVars, ringVars, poisoned, watchVars, job,
                   target, result, toClear, inFlight, lastTarget, lost, deviceVars>>

\* The watchdog lock is free unless the watchdog is between its two stores.
WatchdogLockFree_Always == TRUE
WatchdogLockFree == watchdog # "poisons"
WakeWatchdog == watchdog' = IF watchdog = "asleep" THEN "checks" ELSE watchdog

DropStopsWatchdog ==
    /\ caller.pc = "stop watchdog"
    /\ WatchdogLockFree
    /\ retiring' = TRUE
    /\ Continue("wake watchdog")
    /\ UNCHANGED <<events, handles, slotVars, ringVars, poisoned, wedged, armed,
                   watchdog, workerVars, deviceVars>>

DropWakesWatchdog ==
    /\ caller.pc = "wake watchdog"
    /\ WakeWatchdog
    /\ Continue("join watchdog")
    /\ UNCHANGED <<events, handles, slotVars, ringVars, poisoned, wedged, armed,
                   retiring, workerVars, deviceVars>>

\* The worker is joined only if nothing is pending and the lane is healthy.
Joins_Always == TRUE
Joins == (\A s \in Slots : slots[s] # "Pending") /\ ~wedged

DropScans ==
    /\ caller.pc = "join watchdog"
    /\ watchdog = "done"
    /\ Continue(IF Joins THEN "join worker" ELSE "dropped")
    /\ UNCHANGED <<events, handles, slotVars, ringVars, poisoned, watchVars,
                   workerVars, deviceVars>>

DropJoinsWorker ==
    /\ caller.pc = "join worker"
    /\ at = "stopped"
    /\ Continue("dropped")
    /\ UNCHANGED <<events, handles, slotVars, ringVars, poisoned, watchVars,
                   workerVars, deviceVars>>
----------------------------------------------------------------------------
(* The worker: run_worker.                                                 *)

\* A job is taken off the queue while there is room on the device.
Fill ==
    /\ at = "fill"
    /\ queue # <<>> /\ Len(inFlight) < Depth
    /\ job' = Head(queue)
    /\ queue' = Tail(queue)
    /\ dispatched' = dispatched + 1
    /\ at' = "dispatch"
    /\ UNCHANGED <<callerVars, slotVars, stopping, poisoned, watchVars, target,
                   result, toClear, inFlight, lastTarget, lost, deviceVars>>

\* Nothing to take: the oldest job on the device is retired.
TakeOldest ==
    /\ at = "fill"
    /\ queue = <<>> \/ Len(inFlight) >= Depth
    /\ IF inFlight = <<>>
       THEN at' = "idle" /\ UNCHANGED <<job, target, inFlight>>
       ELSE /\ job' = Head(inFlight).job
            /\ target' = Head(inFlight).target
            /\ inFlight' = Tail(inFlight)
            /\ at' = "retire"
    /\ UNCHANGED <<callerVars, ringVars, slotVars, poisoned, watchVars, result,
                   toClear, lastTarget, lost, deviceVars>>

\* Under the ring lock: work, the end, or sleep.
IdleNext == IF queue # <<>> THEN "fill" ELSE IF stopping THEN "stopped" ELSE "asleep"
Idle ==
    /\ at = "idle"
    /\ at' = IdleNext
    /\ UNCHANGED <<callerVars, ringVars, slotVars, poisoned, watchVars, job,
                   target, result, toClear, inFlight, lastTarget, lost, deviceVars>>

Arm == WatchdogLockFree /\ armed' = TRUE /\ WakeWatchdog /\ UNCHANGED <<wedged, retiring>>
Disarm == WatchdogLockFree /\ armed' = FALSE /\ WakeWatchdog /\ UNCHANGED <<wedged, retiring>>

\* dispatch_job: a poisoned lane is not touched.
Dispatch ==
    /\ at = "dispatch"
    /\ IF poisoned
       THEN at' = "finish" /\ result' = "DeviceLost" /\ UNCHANGED watchVars
       ELSE at' = "record" /\ UNCHANGED result /\ Arm
    /\ UNCHANGED <<callerVars, ringVars, slotVars, poisoned, job, target, toClear,
                   inFlight, lastTarget, lost, deviceVars>>

\* hrx_stream_dispatch and hrx_stream_flush.
Record ==
    /\ at = "record"
    /\ \/ /\ flushed' = flushed + 1
          /\ running' = running \cup {[n |-> flushed + 1, buffers |-> job.buffers]}
          /\ at' = "spin"
          /\ UNCHANGED result
       \/ /\ result' = "Other" /\ at' = "disarm"
          /\ UNCHANGED <<flushed, running>>
    /\ UNCHANGED <<callerVars, ringVars, slotVars, poisoned, watchVars, job,
                   target, toClear, inFlight, lastTarget, lost, assigned, signalled>>

\* The batch n is no longer the device's: an error was returned for it.
Aborted(n) == {r \in running : r.n # n}

\* The timeline position is this job's once it is past the last one's.
Positioned_AtOnce == TRUE
Positioned == assigned > lastTarget

Spin ==
    /\ at = "spin"
    /\ \/ /\ Positioned
          /\ target' = assigned /\ lastTarget' = assigned
          /\ result' = "Ok"
       \/ /\ wedged /\ ~Positioned
          /\ result' = "DeviceLost"
          /\ UNCHANGED <<target, lastTarget>>
    /\ at' = "disarm"
    /\ UNCHANGED <<callerVars, ringVars, slotVars, poisoned, watchVars, job,
                   toClear, inFlight, lost, deviceVars>>

\* hrx_stream_get_timeline_position returns an error.
SpinFails ==
    /\ at = "spin"
    /\ result' = "Other"
    /\ running' = Aborted(flushed)
    /\ at' = "disarm"
    /\ UNCHANGED <<callerVars, ringVars, slotVars, poisoned, watchVars, job, target,
                   toClear, inFlight, lastTarget, lost, flushed, assigned, signalled>>

\* The job goes out of scope with its event pending and its gates closed.
GiveUp == lost' = lost \cup {job} /\ job' = NoJob

DispatchDisarm ==
    /\ at = "disarm"
    /\ Disarm
    /\ \/ /\ wedged
          /\ GiveUp
          /\ at' = "fill"
          /\ UNCHANGED inFlight
       \/ /\ ~wedged /\ result = "Ok"
          /\ inFlight' = Append(inFlight, [job |-> job, target |-> target])
          /\ job' = NoJob
          /\ at' = "fill"
          /\ UNCHANGED lost
       \/ /\ ~wedged /\ result # "Ok"
          /\ at' = "finish"
          /\ UNCHANGED <<job, inFlight, lost>>
    /\ UNCHANGED <<callerVars, ringVars, slotVars, poisoned, target, result,
                   toClear, lastTarget, deviceVars>>

\* retire.
Retire ==
    /\ at = "retire"
    /\ Arm
    /\ at' = "await"
    /\ UNCHANGED <<callerVars, ringVars, slotVars, poisoned, job, target, result,
                   toClear, inFlight, lastTarget, lost, deviceVars>>

\* hrx_semaphore_wait in slices: signalled, or wedged meanwhile.
Await ==
    /\ at = "await"
    /\ \/ /\ signalled >= target
          /\ result' = "Ok" /\ at' = "settle"
          /\ UNCHANGED <<job, lost>>
       \/ /\ signalled < target /\ wedged
          /\ GiveUp /\ at' = "parked"
          /\ UNCHANGED result
    /\ UNCHANGED <<callerVars, ringVars, slotVars, poisoned, watchVars, target,
                   toClear, inFlight, lastTarget, deviceVars>>

\* hrx_semaphore_wait returns an error.
AwaitFails ==
    /\ at = "await"
    /\ result' = "Other"
    /\ running' = Aborted(target)
    /\ at' = "settle"
    /\ UNCHANGED <<callerVars, ringVars, slotVars, poisoned, watchVars, job, target,
                   toClear, inFlight, lastTarget, lost, flushed, assigned, signalled>>

\* The outputs are invalidated for the host, which may fail.
Settle ==
    /\ at = "settle"
    /\ Disarm
    /\ \/ wedged /\ GiveUp /\ at' = "parked" /\ UNCHANGED result
       \/ /\ ~wedged /\ at' = "finish"
          /\ result' \in {result, "Other"}
          /\ UNCHANGED <<job, lost>>
    /\ UNCHANGED <<callerVars, ringVars, slotVars, poisoned, target, toClear,
                   inFlight, lastTarget, deviceVars>>

\* finish, store by store: capacity, gates, event, poison.
Released_Forgotten == dispatched
Released == dispatched - 1

Finish ==
    /\ at = "finish"
    /\ dispatched' = Released
    /\ toClear' = job.buffers
    /\ at' = "clear"
    /\ UNCHANGED <<callerVars, slotVars, queue, stopping, poisoned, watchVars, job,
                   target, result, inFlight, lastTarget, lost, deviceVars>>

ClearGate(b) ==
    /\ at = "clear" /\ b \in toClear
    /\ gates' = [gates EXCEPT ![b] = 0]
    /\ toClear' = toClear \ {b}
    /\ UNCHANGED <<callerVars, ringVars, slots, error, poisoned, watchVars, at,
                   job, target, result, inFlight, lastTarget, lost, deviceVars>>

Latch ==
    /\ at = "clear" /\ toClear = {}
    /\ slots' = [slots EXCEPT ![job.slot] = IF result = "Ok" THEN "Complete" ELSE "Failed"]
    /\ error' = [error EXCEPT ![job.slot] = IF result = "Ok" THEN @ ELSE result]
    /\ at' = "poison"
    /\ UNCHANGED <<callerVars, ringVars, gates, poisoned, watchVars, job, target,
                   result, toClear, inFlight, lastTarget, lost, deviceVars>>

Poison ==
    /\ at = "poison"
    /\ poisoned' = (poisoned \/ result # "Ok")
    /\ job' = NoJob /\ result' = "Ok"
    /\ at' = "fill"
    /\ UNCHANGED <<callerVars, ringVars, slotVars, watchVars, target, toClear,
                   inFlight, lastTarget, lost, deviceVars>>
----------------------------------------------------------------------------
(* The watchdog: run_watchdog.                                             *)

WatchdogStops ==
    /\ watchdog = "checks" /\ retiring
    /\ watchdog' = "done"
    /\ UNCHANGED <<callerVars, ringVars, slotVars, poisoned, wedged, armed,
                   retiring, workerVars, deviceVars>>

WatchdogSleeps ==
    /\ watchdog = "checks" /\ ~retiring /\ ~armed
    /\ watchdog' = "asleep"
    /\ UNCHANGED <<callerVars, ringVars, slotVars, poisoned, wedged, armed,
                   retiring, workerVars, deviceVars>>

\* The deadline has passed.  Two stores, under the watchdog lock.
WatchdogFires ==
    /\ watchdog = "checks" /\ ~retiring /\ armed
    /\ watchdog' = "poisons"
    /\ armed' = FALSE /\ wedged' = TRUE
    /\ UNCHANGED <<callerVars, ringVars, slotVars, poisoned, retiring, workerVars,
                   deviceVars>>

WatchdogPoisons ==
    /\ watchdog = "poisons"
    /\ poisoned' = TRUE
    /\ watchdog' = "done"
    /\ UNCHANGED <<callerVars, ringVars, slotVars, wedged, armed, retiring,
                   workerVars, deviceVars>>
----------------------------------------------------------------------------
(* The device, external.                                                   *)

DeviceAssigns ==
    /\ assigned < flushed
    /\ assigned' = assigned + 1
    /\ UNCHANGED <<callerVars, ringVars, slotVars, poisoned, watchVars, workerVars,
                   flushed, signalled, running>>

DeviceSignals ==
    /\ signalled < assigned
    /\ signalled' = signalled + 1
    /\ running' = Aborted(signalled + 1)
    /\ UNCHANGED <<callerVars, ringVars, slotVars, poisoned, watchVars, workerVars,
                   flushed, assigned>>
----------------------------------------------------------------------------
Call == \/ \E b \in Buffers : AllocateBuffer(b) \/ DropBuffer(b)
        \/ \E buffers \in Bindings : Submit(buffers)
        \/ \E s \in Slots : DropEvent(s)
        \/ DropBackend

\* What the caller does inside a call it has begun.
InCall == \/ Admit \/ Reject \/ Notify
          \/ DropWakesWorker \/ DropStopsWatchdog \/ DropWakesWatchdog
          \/ DropScans \/ DropJoinsWorker

\* All the worker does by itself, and what the driver may do to it or never do.
Works == \/ Fill \/ TakeOldest \/ Idle \/ Dispatch \/ Spin \/ DispatchDisarm
         \/ Retire \/ Await \/ Settle \/ Finish \/ Latch \/ Poison
         \/ \E b \in Buffers : ClearGate(b)

Driver == Record \/ SpinFails \/ AwaitFails

Watches == WatchdogStops \/ WatchdogSleeps \/ WatchdogFires \/ WatchdogPoisons

Next == Call \/ InCall \/ Works \/ Driver \/ Watches \/ DeviceAssigns \/ DeviceSignals

\* Threads run and time passes; the device and its driver may hang.
Spec == /\ Init /\ [][Next]_vars
        /\ WF_vars(InCall) /\ WF_vars(Works) /\ WF_vars(Watches)
----------------------------------------------------------------------------
(* Properties.                                                             *)

\* The jobs whose event is not terminal: queued, on the device, in the
\* worker's hand before it latches, or given up.
Unsettled == Elements(queue) \cup {f.job : f \in Elements(inFlight)} \cup lost
                 \cup (IF at = "poison" THEN {} ELSE {job} \ {NoJob})

\* The threads are where their code can be, and a failed event has its detail
\* (EventSlot::latch).
TypeOK ==
    /\ slots \in [Slots -> {"Free", "Pending"} \cup Terminal]
    /\ error \in [Slots -> Errors \cup {"None"}]
    /\ \A s \in Slots : slots[s] = "Failed" <=> error[s] # "None"
    /\ gates \in [Buffers -> 0..1]
    /\ watchdog \in {"checks", "asleep", "poisons", "done"}
    /\ at \in {"fill", "idle", "asleep", "stopped", "parked", "dispatch", "record",
               "spin", "disarm", "retire", "await", "settle", "finish", "clear",
               "poison"}
    /\ job = NoJob <=> at \in {"fill", "idle", "asleep", "stopped", "parked"}
    /\ dispatched \in 0..Depth

\* The lane has capacity for exactly Depth submissions, in any mix of queued,
\* dispatched and given up (Ring, submit, finish).
CapacityIsExact ==
    /\ Len(queue) + dispatched <= Depth
    /\ dispatched = Len(inFlight) + Cardinality(lost)
                       + (IF job # NoJob /\ at \notin {"clear", "poison"} THEN 1 ELSE 0)

\* A pending event slot belongs to exactly one unsettled job: a slot is never
\* handed to the next submission while the worker may still latch it (Drop of
\* XdnaEvent, claim_slot).
PendingSlotsAreOwnedOnce ==
    /\ {j.slot : j \in Unsettled} = {s \in Slots : slots[s] = "Pending"}
    /\ \A j, k \in Unsettled : j.slot = k.slot => j = k

\* A gate is closed exactly while an unsettled job holds its buffer, so no
\* buffer is in two submissions and none stays locked when its job is over
\* (submit, finish).
GatesAreExact ==
    /\ {b \in Buffers : gates[b] = 1} =
           UNION {IF at = "clear" /\ j = job THEN toClear ELSE j.buffers : j \in Unsettled}
    /\ \A j, k \in Unsettled :
           (j # k /\ (at = "clear" => job \notin {j, k})) => j.buffers \cap k.buffers = {}

\* While the device may touch a buffer its gate is closed: the host neither
\* transfers, frees nor resubmits it (dispatch_job, retire, finish).
GatesGuardTheDevice == \A r \in running : \A b \in r.buffers : gates[b] = 1

\* As long as the lane is not wedged, what the device may touch is kept
\* allocated by the jobs, whatever handles the caller drops.
WorkIsRetained ==
    ~wedged => \A r \in running : r.buffers \subseteq Referenced

\* Once poisoned or wedged the lane records nothing more on its stream
\* (dispatch_job).
LostLaneIsLeftAlone == [][at' = "record" /\ at # "record" => ~poisoned /\ ~wedged]_vars

\* An accepted submission becomes terminal, or the lane is declared wedged,
\* or the backend is dropped: a caller that polls never waits for ever.
AcceptedWorkSettles ==
    \A s \in Slots : slots[s] = "Pending" ~>
        (slots[s] # "Pending" \/ wedged \/ stopping)

\* Dropping the backend returns, whatever the device does (Drop of
\* XdnaAccelerator).
DropReturns == (caller.pc = "wake worker") ~> (caller.pc = "dropped")

\* What the comments on run_worker and on Drop say of a wedged lane: the jobs
\* recorded on the device stay held, so their buffers stay allocated.
QuarantineHolds == \A r \in running : r.buffers \subseteq Referenced

=============================================================================
