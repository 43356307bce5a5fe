# TLA+ models of virtio-accel

virtio-accel carries accelerator commands from a guest to a host over a
virtqueue. A guest client writes a request into a descriptor chain and publishes
it; a device engine pops the chain, decodes the command, updates a graph of
typed objects, calls an accelerator backend and writes a response; the client
matches the response to the request. This directory models the parts of that
path that have state, checks them with TLC on small instances, and proves the
naming of objects with TLAPS for every size.

Paths below are relative to `crates/virtio-accel-*`: `device/src/engine.rs` is
`crates/virtio-accel-device/src/engine.rs`.

## 1. The system and its parts

| Part | State it keeps | Operations | Module |
|---|---|---|---|
| Object tables, `device/src/object_table.rs` | slots with generation and retirement, LIFO free stack, namespace | insert, remove, resolve, renewal by a reset | `ObjectTable`, abstract `IdentityRegistry` |
| Object graph, `device/src/state.rs` | contexts, buffers, programs, queues, events; reference and child counts; retained bytes | create, submit, begin / restore / commit a release | `DeviceState` |
| Command engine, `device/src/engine.rs` | health, quarantine, reset pass | one handler per command, reset | `CommandProcessor` (extends `DeviceState`) |
| Queue contract, `transport/src/queue.rs` | who owns a chain, epoch | publish, take, finish, collect, reset from either side | `CommandQueue` (abstract) |
| Split virtqueue, `split-queue/src/queue.rs`, `chain.rs` | descriptors, two rings, chain records, epoch | the same, plus configuration | `SplitQueue` |
| Notification suppression, same files | two enable flags and what each worker has seen | enable with recheck, disable, notify | `QueueNotifications` |
| Guest client, `guest/src/client.rs`, `operation.rs` | one slot per request, request ids, epoch | start, poll, pump, reset, drop of a token | `GuestClient` (over `CommandQueue`) |
| XDNA dispatch lane, `xdna/src/native.rs` | ring, event slots, buffer gates, poison and wedge flags, watchdog | submit, poll, drop; a worker and a watchdog thread | `XdnaLane` |

How they interact: `GuestClient` owns a driver end of a queue and the device end
is polled by an integration that calls the engine, so the engine itself is
sequential. `SplitQueue` is the repository's queue; the client is written against
the trait, hence the client model runs over `CommandQueue`, and `SplitQueue` is
shown to implement `CommandQueue`. The engine issues names from object tables:
`DeviceState` names an object by its slot, because `ObjectTable` shows that a
name never resolves to anything but the object it was issued for. The engine
sees a backend only through a trait, so `CommandProcessor` runs against an
external backend that may answer whatever the trait allows. `XdnaLane` is one
such backend seen from the inside.

What makes the system hard:

- names outlive objects, tables and epochs; generations are 13 bits wide;
- chains and responses outlive a reset of either end;
- a release is three steps around a backend call that may succeed, be refused,
  or leave the outcome unknown; a response may fail to be written after the
  command took effect; a reset pass may stop half way and be resumed;
- executions finish between any two calls of the engine;
- 16-bit ring indices and request ids wrap;
- in the XDNA lane three threads and a device share atomics, and the driver may
  hang in any call.

`PROJECT.json` lists the hazards one by one, each at its line, with the
properties that would catch it going wrong.

## 2. How the models correspond to the code

A module's variables are the fields of the types it models, and there is one
action per method, command or locked region. `map` in `PROJECT.json` gives the
lines behind every definition. A call that ends in an error and changes nothing
is not a step. Definitions named `Def_Something` just before a `Def` are wrong
variants of it; substituting one must break a property, which shows that the
property depends on that piece of the code. They play no part in the models.

**ObjectTable.** `slots`, `free` and `live` are the fields of the table; `bound`
is a history of every ID ever issued. IDs are packed and unpacked
arithmetically as the code does. `Renew` is the replacement of the tables by a
reset with a new namespace. That the integration never reuses a namespace is the
contract stated at `ObjectNamespace`; the engine compares with the current one
only.

**DeviceState.** Counts are kept as the code keeps them, incrementally, and
the properties compare them with what the graph says. Bindings are sequences, so
that a buffer bound twice takes two references.

**CommandProcessor.** Every backend call that can change what the backend holds
ends a step; `BackendFinishes` can come between. Commands are taken decoded; a
status code is kept only as far as it changes the health of the device.

**SplitQueue.** Descriptors, available and used ring, and records by head. The
bytes of a chain are abstracted to who may access them. A device token may be
held past any number of resets.

**QueueNotifications.** The two workers are external (the repository defines no
executor): they follow the order the port documents, disable before draining,
enable and recheck before sleeping.

**GuestClient.** Of a request the model keeps its id, of a response the id in it
and, for the properties, the request it was written for. The typed operations
differ in payload only and are one operation here.

**XdnaLane.** Polls and host transfers change nothing and are not steps. A step is one locked region or one atomic access of one thread.
Taking all gates in `submit` is a single step: the caller is one thread, it holds
the ring lock, and the worker only ever opens gates. The watchdog's two stores
are two steps with its mutex held in between, which is what blocks `arm` and
`disarm`. The watchdog generation is abstracted: only the worker arms, and it
disarms what it armed. Condition variables lose a signal nobody waits for; there
are no spurious wake-ups, which would only help. HRX is external under three
assumptions: it signals timeline values in order, it no longer touches a job for
which it returned a definite error, and `hrx_buffer_invalidate_range` returns.

## 3. Runs

State counts are distinct states.

| Run | Instance | States | Shows |
|---|---|---|---|
| `object_table` | 2 slots, 2 generations, 2 values, 2 namespaces | 14 168 | IDs never alias; free stack exact; no slot leaks; implements `IdentityRegistry` |
| `split_queue` | up to 4 descriptors, indices modulo 8, chains of 1, 2 and 3, the last malformed | 227 649 | no call finds the rings corrupt; descriptors owned once |
| `split_queue_reset` | 2 descriptors, 3 epochs, 3 chains | 361 500 | resets from both sides: access implies ownership, stale tokens are inert, implements `CommandQueue` |
| `split_queue_device_reset` | as above | violation | a device reset loses published chains (section 6) |
| `queue_notifications` | 3 chains | 1 332 | no lost wake-up; published chains come back |
| `device_state` | 2 contexts, 2 buffers, 2 programs, 1 queue, 2 events | 38 292 | all counts exact; nothing in use goes away |
| `command_processor` | 1 context, 2 buffers, 1 program, 1 queue, 2 events | 236 768 | the guest's view, quarantine, policy, reset report; steps are graph steps; commands and passes return |
| `guest_client` | 2 chains, 2 slots, ids modulo 4, 1 epoch | 87 171 | ids unambiguous while they wrap; polled requests settle |
| `guest_client_reset` | the same, 2 epochs | 1 753 390 | no answer of an old epoch is taken for a new request |
| `xdna_lane` | depth 2, 2 buffers, 3 batches | 908 921 | capacity, slots and gates exact; the gates guard the device |
| `xdna_lane_progress` | the same, 2 batches, one buffer per submission | 416 744 | accepted work settles or the lane is wedged; dropping the backend returns |
| `xdna_lane_quarantine` | as `xdna_lane` | violation | section 6 |

Why the bounds are enough to be interesting:

- two generations make a slot retire within the instance, and two slots
  give reuse in LIFO order; renewal adds stale names of an earlier namespace;
- ring indices modulo 8 with 4 descriptors, and modulo 4 with 2, wrap several
  times and keep the code's relation that the modulus is a multiple of the size;
  chains of three descriptors in a table of four fragment it;
- ids modulo 4, of which 0 is never issued, with two in flight make the wrap
  collide with a live id; one chain is already on the queue before the client is
  made, so that unexpected completions occur;
- two contexts allow submissions that mix them; two buffers with a binding list
  of two allow the same buffer twice;
- the engine needs one context: nothing in it depends on a second one that
  `device_state` does not already cover;
- depth 2 with two buffers allows a job on the device, one queued behind it, and
  rejections for each of the three reasons; three batches allow a slot and a
  buffer to be used again after a failure or a give-up.

Symmetry is used on interchangeable objects (`device_state`) and buffers
(`xdna_lane`), in runs without liveness properties only.

Deadlock is checked for the split queue, the object graph and the engine. It is
not for `ObjectTable` (all slots retired), `QueueNotifications` and `GuestClient`
(a guest may stop) and `XdnaLane` (the backend is dropped).

## 4. Fairness

- `CommandProcessor`: weak fairness of the engine's next internal step. The
  engine is a synchronous function; once called it runs until it returns. No
  fairness for the backend's executions.
- `QueueNotifications`: weak fairness of each worker and of the completion of
  each chain the device has taken. The property is about wake-ups and not about a
  device that never answers.
- `GuestClient`: a request that is polled keeps being polled, and the device pops
  and completes. `PolledRequestsSettle` is stated under that assumption only.
- `XdnaLane`: the caller finishes a call it has begun, and the worker and the
  watchdog are scheduled. None for the device or for anything the driver does:
  recording a batch, assigning and signalling a value and returning an error may
  all fail to happen for ever. Time passes, so an armed watchdog fires unless it
  is disarmed first.

## 5. Proofs

`ObjectTableProofs` proves, for every table size, every generation mask the
assumptions of `ObjectTable` admit, and every set of namespaces and values:

- `TypeCorrect`: fields stay within their widths;
- `NoAliasing`: an ID resolves to what it was issued for or to nothing;
- `FreeStackExact`: the free stack holds the reusable slots, each once, and
  `live` counts the occupied ones;
- `FullIsExhausted`: `Full` is reported only when every slot is occupied or
  retired;
- `Refinement`: the table implements `IdentityRegistry`.

The properties are not inductive by themselves. The inductive invariant is
`IInv == TypeOK /\ FreeStackIsExactlyVacant /\ RetiredAreVacant /\ IssuedIds`.
`IssuedIds` says of every ID issued that it is revoked if its namespace is not
the current one, that otherwise its generation is at most that of its slot, and
that an ID with the slot's own generation belongs to the record in the slot, or
is revoked and the slot retired. That makes the next ID of a vacant slot fresh,
and it needs the free stack to be exact, because an occupied slot on the stack
would be issued twice. The
arithmetic of packing is isolated in `PackThenUnpack` and `UnpackThenPack`. Each
action has a lemma that it preserves `IInv`; the refinement maps `bound` to the
registry and shows that each action is a registry step or a stutter.

Only model-checked: everything in the other modules, and all liveness. The
progress properties rest on fairness, which is out of the prover's reach.

## 6. Where the code and its comments disagree

- A reset by the device drops the storage with every published chain, while
  `docs/virtqueue.md` says `pop_used` or `reset` returns every one.
- After a tier-2 wedge the XDNA worker drops the very job it was waiting for.
  `dispatch_job` and `retire` take the job by value and return without it, so
  the quarantine that three comments describe holds the jobs behind it only. The
  model counts the references the backend keeps; what HRX retains is not known.

Two smaller ones were met in reading and have no run of their own:

- `poll_event` reads the event and then the poison flag. If the job latches its
  failure and poisons the lane between the two loads, this poll answers
  `DeviceLost`, which the order of the stores in `finish` is commented to prevent.
  A later poll reports the error.
- An event dropped while pending leaves its slot terminal and without a handle
  once the job ends. A comment in `destroy_event` says a dropped event cannot
  strand its ring entry; the comment on `Drop` accepts it for a wedged lane.

## 7. Not modelled

Frame decoding and response layout, the wire ABI, TOSA validation, vendor
lowerings, generated code and tests have no protocol state; the `components` list
gives the reason for each. In the modelled parts, failed allocations of host
memory, accessors, resource counters, diagnostics and the fault injection of
`test-control` are left out.

## 8. Plan

Done: the modules above, in the order object tables, queue, notifications, graph,
engine, client, lane.

Next, in this order:

1. `DeviceStateProofs`: `ReferencesAreExact`, `ChildCountsAreExact`,
   `SubmissionsKeepTheirResources` and `ParentsOutliveChildren` for any number of
   objects; then the engine's refinement of the graph.
2. `XdnaLaneProofs`: `PendingSlotsAreOwnedOnce`, `GatesAreExact` and
   `GatesGuardTheDevice` for any depth. The inductive invariant needs that the
   target of a job in flight is the batch it was recorded as.
3. `SplitQueueProofs` and `GuestClientProofs`: one owner per chain and
   unambiguous ids for any size.
4. The gates and event lifecycles of the OpenVINO, Core ML, Hexagon and Vulkan
   backends; an abstract backend that they and `XdnaLane` implement, and that
   `CommandProcessor` may be run against.
5. The state word of a mock event (complete, cancel and poll racing) and the
   ownership audit of the fault harness.
6. `analyze_chain`, the length arithmetic of frames and the tensor liveness
   analysis of TOSA, as operators checked against reference definitions.
7. A composition of client, queue and engine, for a request from start to answer
   across a reset.
