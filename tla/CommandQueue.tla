---------------------------- MODULE CommandQueue ----------------------------
(***************************************************************************)
(* The contract of the command queue (the traits DriverQueue and           *)
(* DeviceQueue of transport/src/queue.rs): who owns a chain.  The device   *)
(* takes chains in the order of publication and completes them in any      *)
(* order; the driver collects them in the order of completion; a reset     *)
(* starts a new epoch with an empty queue.  SplitQueue implements this.    *)
(***************************************************************************)
EXTENDS Integers, Sequences

CONSTANTS Chains

VARIABLES free,     \* chains the driver owns
          pending,  \* published, in order
          held,     \* taken by the device
          done,     \* completed, in order
          epoch

vars == <<free, pending, held, done, epoch>>

InQueue == {pending[i] : i \in DOMAIN pending} \cup held
             \cup {done[i] : i \in DOMAIN done}

Init == /\ free = Chains
        /\ pending = <<>> /\ held = {} /\ done = <<>>
        /\ epoch = 1

\* A successful publish moves a chain the driver owns into the queue.
Publish == \E c \in free :
              /\ free' = free \ {c}
              /\ pending' = Append(pending, c)
              /\ UNCHANGED <<held, done, epoch>>

\* pop_available: chains are returned in available-ring order.
Take == /\ pending # <<>>
        /\ pending' = Tail(pending)
        /\ held' = held \cup {Head(pending)}
        /\ UNCHANGED <<free, done, epoch>>

\* complete: independent chains may complete out of order.
Finish(c) == /\ c \in held
             /\ held' = held \ {c}
             /\ done' = Append(done, c)
             /\ UNCHANGED <<free, pending, epoch>>

\* pop_used recovers the driver's chain.
Collect == /\ done # <<>>
           /\ done' = Tail(done)
           /\ free' = free \cup {Head(done)}
           /\ UNCHANGED <<pending, held, epoch>>

Restart == /\ epoch' \in Int /\ epoch' > epoch
           /\ pending' = <<>> /\ held' = {} /\ done' = <<>>

\* The driver's reset recovers every chain the queue still owns.
Reclaim == Restart /\ free' = free \cup InQueue

\* The device's reset returns the queue to its base state.
Abandon == Restart /\ UNCHANGED free

Next == Publish \/ Take \/ (\E c \in Chains : Finish(c)) \/ Collect
           \/ Reclaim \/ Abandon

Spec == Init /\ [][Next]_vars
============================================================================
