------------------------- MODULE QueueNotifications -------------------------
(***************************************************************************)
(* Notification suppression on the command queue (split-queue/src/queue.rs *)
(* and the traits it implements), between a driver and a device that each  *)
(* sleep when they find no work.  publish and complete decide on a         *)
(* notification after the entry is visible; enabling notifications rechecks*)
(* the ring in the same step.                                              *)
(*                                                                         *)
(* The two workers are external: the repository defines no thread or       *)
(* executor.  They follow the documented order of the port: disable before *)
(* draining, enable and recheck before sleeping.                           *)
(***************************************************************************)
EXTENDS Naturals, Sequences

CONSTANTS Chains

VARIABLES
  free, pending, held, done, epoch,  \* the queue, as in CommandQueue
  availableNotifications,  \* whether publish asks for a doorbell
  usedNotifications,       \* whether complete asks for an interrupt
  device, driver,          \* external: what the workers are doing
  doorbell, interrupt      \* external: notifications not yet delivered

Queue == INSTANCE CommandQueue

queueVars == <<free, pending, held, done, epoch>>
vars == <<queueVars, availableNotifications, usedNotifications, device, driver,
          doorbell, interrupt>>

Init ==
    /\ Queue!Init
    /\ availableNotifications = TRUE /\ usedNotifications = TRUE
    /\ device = "asleep" /\ driver = "asleep"
    /\ doorbell = FALSE /\ interrupt = FALSE
----------------------------------------------------------------------------
\* publish: NotificationHint::Notify unless suppressed, and the driver rings.
Publish ==
    /\ Queue!Publish
    /\ doorbell' = (doorbell \/ availableNotifications)
    /\ UNCHANGED <<availableNotifications, usedNotifications, device, driver,
                   interrupt>>

DevicePops ==
    /\ device = "draining"
    /\ Queue!Take
    /\ UNCHANGED <<availableNotifications, usedNotifications, device, driver,
                   doorbell, interrupt>>

\* complete: likewise.  Executions finish whatever the worker is doing.
DeviceCompletes(c) ==
    /\ Queue!Finish(c)
    /\ interrupt' = (interrupt \/ usedNotifications)
    /\ UNCHANGED <<availableNotifications, usedNotifications, device, driver,
                   doorbell>>

DriverPops ==
    /\ driver = "draining"
    /\ Queue!Collect
    /\ UNCHANGED <<availableNotifications, usedNotifications, device, driver,
                   doorbell, interrupt>>

\* enable_available_notifications: Idle lets the worker sleep.
AvailableRecheck_Idle == "asleep"
AvailableRecheck == IF pending = <<>> THEN "asleep" ELSE "awake"
EnableAvailable ==
    /\ device = "draining" /\ pending = <<>>
    /\ device' = "enabling"
    /\ UNCHANGED <<queueVars, availableNotifications, usedNotifications, driver,
                   doorbell, interrupt>>
EnabledAvailable ==
    /\ device = "enabling"
    /\ availableNotifications' = TRUE
    /\ device' = AvailableRecheck
    /\ UNCHANGED <<queueVars, usedNotifications, driver, doorbell, interrupt>>

\* enable_used_notifications.
UsedRecheck_Idle == "asleep"
UsedRecheck == IF done = <<>> THEN "asleep" ELSE "awake"
EnableUsed ==
    /\ driver = "draining" /\ done = <<>>
    /\ driver' = "enabling"
    /\ UNCHANGED <<queueVars, availableNotifications, usedNotifications, device,
                   doorbell, interrupt>>
EnabledUsed ==
    /\ driver = "enabling"
    /\ usedNotifications' = TRUE
    /\ driver' = UsedRecheck
    /\ UNCHANGED <<queueVars, availableNotifications, device, doorbell, interrupt>>

\* disable_available_notifications, when the worker has work or is woken.
DisableAvailable ==
    /\ device = "awake" \/ (device = "asleep" /\ doorbell)
    /\ device' = "draining" /\ doorbell' = FALSE
    /\ availableNotifications' = FALSE
    /\ UNCHANGED <<queueVars, usedNotifications, driver, interrupt>>

DisableUsed ==
    /\ driver = "awake" \/ (driver = "asleep" /\ interrupt)
    /\ driver' = "draining" /\ interrupt' = FALSE
    /\ usedNotifications' = FALSE
    /\ UNCHANGED <<queueVars, availableNotifications, device, doorbell>>

DeviceWorker == DevicePops \/ EnableAvailable \/ EnabledAvailable \/ DisableAvailable
DriverWorker == DriverPops \/ EnableUsed \/ EnabledUsed \/ DisableUsed

Next == Publish \/ DeviceWorker \/ DriverWorker
           \/ \E c \in Chains : DeviceCompletes(c)

\* Each worker runs, and each chain the device took it answers: processing a
\* command is bounded.  Nobody has to publish.
Fairness == /\ WF_vars(DeviceWorker) /\ WF_vars(DriverWorker)
            /\ \A c \in Chains : WF_vars(DeviceCompletes(c))

Spec == Init /\ [][Next]_vars /\ Fairness
----------------------------------------------------------------------------
\* No wakeup is lost: a worker sleeps on a ring with work in it only when a
\* notification for it is on its way.  The window is between the last pop and
\* the enabling of notifications (enable_available_notifications,
\* enable_used_notifications).
NoLostWakeup ==
    /\ (device = "asleep" /\ pending # <<>>) => doorbell
    /\ (driver = "asleep" /\ done # <<>>) => interrupt

\* With notifications suppressed at any time by either side, every published
\* chain still comes back to the driver.
PublishedChainsReturn == \A c \in Chains : (c \notin free) ~> (c \in free)
=============================================================================
